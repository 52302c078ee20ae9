--------------------------- MODULE ControlUIProofs ---------------------------
(***************************************************************************)
(* Proofs about ControlUI, for any number of clicks, faults, sessions and  *)
(* runs, and for every way the page may be installed; and about the order  *)
(* of the snapshots of SharedRun, on which they rest.                      *)
(***************************************************************************)
EXTENDS ControlUI, TLAPS

(* What is not active has no step. *)
SharedOK == shared \in Snapshot /\ (shared.phase # "active" => shared.step = 0)

(* What an exchange waits with and, seen from the run s, what it was       *)
(* answered: nothing that is yet to come.                                  *)
CallOK(c, s) ==
    /\ c.kind = "session" => c.waits = "poll"
    /\ c.kind = "login" => c.waits = "login"
    /\ c.kind = "logout" => c.waits = "logout"
    /\ c.kind \in Commands => c.waits = "dispatch"
    /\ c.kind = "status" => c.waits \in {"page", "poll", "login", "resync"}
    /\ c.reply # None /\ c.reply.code = "ok" /\ c.kind \in Journey =>
          c.reply.state \in Snapshot /\ AtLeast(s, c.reply.state)

(* The page u within a turn that goes on for what waits with w ("none"     *)
(* between turns), before the run s.                                       *)
BusyOK(u, w) ==
    /\ \A c, d \in u.calls : c.waits = d.waits /\ c.waits \in {"poll", "login"} => c = d
    /\ \A c \in u.calls : c.waits \in {"poll", "login"} => c.waits # w
    /\ u.pollBusy <=> w = "poll" \/ \E c \in u.calls : c.waits = "poll"
    /\ u.loginBusy <=> w = "login" \/ \E c \in u.calls : c.waits = "login"

(* While a login is on its way no poll can bring a session back, and the   *)
(* polling goes on if the login is refused.                                *)
LoginAlone(u) ==
    \A c \in u.calls : c.kind = "login" =>
        /\ \A d \in u.calls : d.kind = "session" => ~d.fresh
        /\ u.identity # "ended" => u.identityPoll \/ u.pollBusy

(* With identity: the page polls until its session has ended, and without  *)
(* a session neither shows the run nor expects anything of it.             *)
IdentityOK(u) ==
    mode # "fixture" =>
        /\ u.identity # "fixture"
        /\ u.identity # "ended" => u.identityPoll \/ u.pollBusy \/ u.loginBusy
        /\ u.identity # "authenticated" =>
              /\ u.view = None /\ ~u.available /\ ~u.pendingPoll
              /\ \A c \in u.calls : c.kind \in Journey => ~c.fresh

(* One exchange about the run is fresh, and its answer, once it has one,   *)
(* is at least what the page has shown.                                    *)
NewestOK(u, s) ==
    /\ \A c, d \in u.calls :
          c.fresh /\ d.fresh /\ c.kind \in Journey /\ d.kind \in Journey => c = d
    /\ AtLeast(s, u.shown)
    /\ \A c \in u.calls :
          c.fresh /\ c.kind \in Journey /\ c.reply # None /\ c.reply.code = "ok" =>
              AtLeast(c.reply.state, u.shown)

Turn(u, w, s) ==
    /\ u \in PageState
    /\ \A c \in u.calls : CallOK(c, s)
    /\ BusyOK(u, w)
    /\ LoginAlone(u)
    /\ IdentityOK(u)
    /\ NewestOK(u, s)

PageInv ==
    /\ SharedOK
    /\ mode \in {"redirect", "password", "fixture"}
    /\ mode # "fixture" => wire
    /\ wire \in BOOLEAN
    /\ cookie \in 1..MaxSessions
    /\ Turn(ui, "none", shared)

-----------------------------------------------------------------------------
(* The order of snapshots. *)

LEMMA Ranks ==
    /\ Rank["active"] = 1 /\ Rank["pending"] = 2 /\ Rank["over"] = 3 /\ Rank["none"] = 4
    /\ \A p \in Phase : Rank[p] \in 1..4
    /\ \A p, q \in Phase : Rank[p] = Rank[q] => p = q
BY DEF Rank, Phase

LEMMA AtLeastItself == ASSUME NEW s \in Snapshot PROVE AtLeast(s, s)
BY SharedAssumption DEF AtLeast, Snapshot

LEMMA AtLeastCarries ==
    ASSUME NEW s \in Snapshot, NEW t \in Snapshot, NEW u \in Snapshot,
           AtLeast(s, t), AtLeast(t, u)
    PROVE  AtLeast(s, u)
<1>1. /\ s.id \in Nat /\ t.id \in Nat /\ u.id \in Nat
      /\ s.step \in Nat /\ t.step \in Nat /\ u.step \in Nat
      /\ s.phase \in Phase /\ t.phase \in Phase /\ u.phase \in Phase
  BY SharedAssumption DEF Snapshot
<1>2. Rank[s.phase] \in Nat /\ Rank[t.phase] \in Nat /\ Rank[u.phase] \in Nat
  BY <1>1, Ranks
<1>3. QED
  BY <1>1, <1>2 DEF AtLeast

(* Whatever is done to the shared run, it is seen to move forward. *)
LEMMA SharedMoves ==
    ASSUME SharedOK, SharedNext
    PROVE  SharedOK' /\ AtLeast(shared', shared)
<1> USE DEF SharedOK
<1>1. /\ shared.id \in 0..MaxRuns /\ shared.step \in 0..MaxSteps /\ shared.phase \in Phase
      /\ MaxRuns \in Nat /\ MaxSteps \in Nat
  BY SharedAssumption DEF Snapshot
<1>2. CASE Start
  <2>1. PICK p \in {"active", "over"}, k \in 0..MaxSteps :
            shared' = At(shared.id + 1, p, k) /\ (p = "over" => k = 0)
    BY <1>1, <1>2 DEF Start
  <2>2. shared.id + 1 \in 0..MaxRuns /\ shared.id + 1 > shared.id
    BY <1>1, <1>2 DEF Start
  <2>3. /\ shared' = [id |-> shared.id + 1, phase |-> p, step |-> k] /\ p \in Phase
        /\ p # "active" => k = 0
    BY <2>1 DEF At, Phase
  <2>4. QED
    BY <2>2, <2>3 DEF AtLeast, Snapshot
<1>3. CASE Advance
  <2>1. CASE shared.step < MaxSteps /\ shared' = At(shared.id, "active", shared.step + 1)
    <3>1. shared.step + 1 \in 0..MaxSteps /\ shared.step + 1 >= shared.step
      BY <1>1, <2>1
    <3>2. QED
      BY <1>1, <1>3, <2>1, <3>1 DEF Advance, At, AtLeast, Snapshot, Phase
  <2>2. ASSUME NEW p \in {"pending", "over"}, shared' = At(shared.id, p, 0) PROVE SharedOK' /\ AtLeast(shared', shared)
    <3>1. shared' = [id |-> shared.id, phase |-> p, step |-> 0] /\ p \in Phase /\ 0 \in 0..MaxSteps
      BY <1>1, <2>2 DEF At, Phase
    <3>2. Rank[p] > Rank[shared.phase]
      BY <1>3, Ranks DEF Advance
    <3>3. QED
      BY <1>1, <3>1, <3>2 DEF AtLeast, Snapshot
  <2>3. QED
    BY <1>3, <2>1, <2>2 DEF Advance
<1>4. CASE Resolve
  <2>1. shared' = [id |-> shared.id, phase |-> "over", step |-> 0] /\ 0 \in 0..MaxSteps
    BY <1>1, <1>4 DEF Resolve, At
  <2>2. Rank["over"] > Rank[shared.phase]
    BY <1>4, Ranks DEF Resolve
  <2>3. QED
    BY <1>1, <2>1, <2>2 DEF AtLeast, Snapshot, Phase
<1>5. CASE Reset
  <2>1. shared' = [id |-> shared.id, phase |-> "none", step |-> 0] /\ 0 \in 0..MaxSteps
    BY <1>1, <1>5 DEF Reset, At
  <2>2. CASE shared.phase = "none"
    <3>1. shared.step = 0
      BY <2>2
    <3>2. QED
      BY <1>1, <2>1, <2>2, <3>1 DEF AtLeast, Snapshot
  <2>3. CASE shared.phase # "none"
    <3>1. Rank["none"] > Rank[shared.phase]
      BY <1>1, <2>3, Ranks DEF Phase
    <3>2. QED
      BY <1>1, <2>1, <3>1 DEF AtLeast, Snapshot, Phase
  <2>4. QED
    BY <2>2, <2>3
<1>6. QED
  BY <1>2, <1>3, <1>4, <1>5 DEF SharedNext

LEMMA SharedStarts == SharedInit => SharedOK
BY SharedAssumption DEF SharedInit, SharedOK, At, Snapshot, Phase

(* The run is never seen to go back: neither a step, nor from its end to   *)
(* its middle, nor from a run to one before it.                            *)
THEOREM RunNeverGoesBack == SharedSpec => [][AtLeast(shared', shared)]_shared
<1>1. SharedOK /\ [SharedNext]_shared => SharedOK' /\ [AtLeast(shared', shared)]_shared
  BY SharedMoves DEF SharedOK
<1>2. QED
  BY <1>1, SharedStarts, PTL DEF SharedSpec

-----------------------------------------------------------------------------
(* What a turn is made of.  Each lemma is about one thing that is done to  *)
(* a page u in a turn that waits for w, before the run s.                  *)

LEMMA ExchangeFields ==
    ASSUME NEW c \in Exchanges
    PROVE  /\ c.kind \in Journey \cup {"session", "login", "logout"} /\ c.waits \in Waits
           /\ c.run \in 0..MaxRuns /\ c.session \in 0..MaxSessions /\ c.fresh \in BOOLEAN
           /\ c.reply \in {None} \cup [code : Code, state : {None} \cup Snapshot]
BY DEF Exchanges

(* The run moves on. *)
LEMMA TurnLater ==
    ASSUME NEW u, NEW w, NEW s \in Snapshot, NEW t \in Snapshot, AtLeast(t, s), Turn(u, w, s)
    PROVE  Turn(u, w, t)
<1>1. \A c \in u.calls : CallOK(c, t)
  BY AtLeastCarries DEF Turn, CallOK
<1>2. NewestOK(u, t)
  <2>1. u.shown \in Snapshot
    BY DEF Turn, PageState
  <2>2. QED
    BY <2>1, AtLeastCarries DEF Turn, NewestOK
<1>3. QED
  BY <1>1, <1>2 DEF Turn

(* Exchanges that are answered, or that an epoch leaves behind. *)
LEMMA CallsChange ==
    ASSUME NEW u, NEW w, NEW s \in Snapshot, Turn(u, w, s), NEW v,
           NEW g \in [u.calls -> Exchanges], v = [u EXCEPT !.calls = {g[c] : c \in u.calls}],
           \A c \in u.calls :
              /\ g[c].kind = c.kind /\ g[c].waits = c.waits
              /\ g[c].fresh => c.fresh
              /\ \/ g[c].reply = c.reply
                 \/ g[c].reply.code = "ok" /\ c.kind \in Journey => g[c].reply.state = s
    PROVE  /\ Turn(v, w, s)
           /\ v.identity = u.identity /\ v.view = u.view /\ v.shown = u.shown
           /\ v.available = u.available /\ v.loading = u.loading /\ v.connection = u.connection
           /\ v.pendingPoll = u.pendingPoll /\ v.identityPoll = u.identityPoll
           /\ v.pollBusy = u.pollBusy /\ v.loginBusy = u.loginBusy
           /\ \A d \in v.calls : \E c \in u.calls : d = g[c]
<1>1. u \in PageState
  BY DEF Turn
<1>2. /\ v \in PageState
      /\ v.identity = u.identity /\ v.view = u.view /\ v.shown = u.shown
      /\ v.available = u.available /\ v.loading = u.loading /\ v.connection = u.connection
      /\ v.pendingPoll = u.pendingPoll /\ v.identityPoll = u.identityPoll
      /\ v.pollBusy = u.pollBusy /\ v.loginBusy = u.loginBusy
      /\ v.calls = {g[c] : c \in u.calls}
  BY <1>1 DEF PageState
<1>3. AtLeast(s, u.shown) /\ u.shown \in Snapshot /\ AtLeast(s, s)
  BY <1>1, AtLeastItself DEF Turn, NewestOK, PageState
<1>4. ASSUME NEW d \in v.calls PROVE CallOK(d, s)
  <2>1. PICK c \in u.calls : d = g[c]
    BY <1>2
  <2>2. CallOK(c, s)
    BY DEF Turn
  <2>3. QED
    BY <1>3, <2>1, <2>2 DEF CallOK
<1>5. BusyOK(v, w)
  BY <1>2 DEF Turn, BusyOK
<1>6. LoginAlone(v)
  BY <1>2 DEF Turn, LoginAlone
<1>7. IdentityOK(v)
  BY <1>2 DEF Turn, IdentityOK
<1>8. NewestOK(v, s)
  BY <1>2, <1>3 DEF Turn, NewestOK
<1>9. QED
  BY <1>2, <1>4, <1>5, <1>6, <1>7, <1>8 DEF Turn

LEMMA StaleTurn ==
    ASSUME NEW u, NEW w, NEW s \in Snapshot, Turn(u, w, s)
    PROVE  /\ Turn(Stale(u), w, s)
           /\ \A d \in Stale(u).calls : d.kind \in Journey => ~d.fresh
           /\ \A d \in Stale(u).calls : \E c \in u.calls : d.kind = c.kind /\ (d.fresh => c.fresh)
           /\ Stale(u).identity = u.identity /\ Stale(u).view = u.view /\ Stale(u).shown = u.shown
           /\ Stale(u).available = u.available /\ Stale(u).pendingPoll = u.pendingPoll
           /\ Stale(u).identityPoll = u.identityPoll /\ Stale(u).pollBusy = u.pollBusy
           /\ Stale(u).loginBusy = u.loginBusy
<1> DEFINE f(c) == [c EXCEPT !.fresh = c.fresh /\ c.kind \notin Journey]
           g == [c \in u.calls |-> f(c)]
<1>1. u.calls \subseteq Exchanges
  BY DEF Turn, PageState
<1>2. ASSUME NEW c \in u.calls
      PROVE  /\ g[c] \in Exchanges /\ g[c].kind = c.kind /\ g[c].waits = c.waits
             /\ g[c].reply = c.reply /\ (g[c].fresh <=> c.fresh /\ c.kind \notin Journey)
  BY <1>1 DEF Exchanges
<1>3. Stale(u) = [u EXCEPT !.calls = {g[c] : c \in u.calls}]
  BY DEF Stale
<1>4. g \in [u.calls -> Exchanges]
  BY <1>2
<1> HIDE DEF g
<1> DEFINE v == Stale(u)
<1>5. v = [u EXCEPT !.calls = {g[c] : c \in u.calls}]
  BY <1>3
<1> HIDE DEF v
<1>6. /\ Turn(v, w, s)
      /\ v.identity = u.identity /\ v.view = u.view /\ v.shown = u.shown
      /\ v.available = u.available /\ v.pendingPoll = u.pendingPoll
      /\ v.identityPoll = u.identityPoll /\ v.pollBusy = u.pollBusy
      /\ v.loginBusy = u.loginBusy
      /\ \A d \in v.calls : \E c \in u.calls : d = g[c]
  BY <1>2, <1>4, <1>5, CallsChange
<1>7. \A d \in v.calls : /\ d.kind \in Journey => ~d.fresh
                        /\ \E c \in u.calls : d.kind = c.kind /\ (d.fresh => c.fresh)
  BY <1>2, <1>6
<1>8. QED
  BY <1>6, <1>7 DEF v

LEMMA IdStaleTurn ==
    ASSUME NEW u, NEW w, NEW s \in Snapshot, Turn(u, w, s)
    PROVE  /\ Turn(IdStale(u), w, s)
           /\ \A d \in IdStale(u).calls : d.kind \notin Journey => ~d.fresh
           /\ \A d \in IdStale(u).calls : \E c \in u.calls : d.kind = c.kind
           /\ IdStale(u).identity = u.identity /\ IdStale(u).view = u.view
           /\ IdStale(u).shown = u.shown /\ IdStale(u).identityPoll = u.identityPoll
           /\ IdStale(u).pollBusy = u.pollBusy /\ IdStale(u).loginBusy = u.loginBusy
<1> DEFINE f(c) == [c EXCEPT !.fresh = c.fresh /\ c.kind \in Journey]
           g == [c \in u.calls |-> f(c)]
<1>1. u.calls \subseteq Exchanges
  BY DEF Turn, PageState
<1>2. ASSUME NEW c \in u.calls
      PROVE  /\ g[c] \in Exchanges /\ g[c].kind = c.kind /\ g[c].waits = c.waits
             /\ g[c].reply = c.reply /\ (g[c].fresh <=> c.fresh /\ c.kind \in Journey)
  BY <1>1 DEF Exchanges
<1>3. IdStale(u) = [u EXCEPT !.calls = {g[c] : c \in u.calls}]
  BY DEF IdStale
<1>4. g \in [u.calls -> Exchanges]
  BY <1>2
<1> HIDE DEF g
<1> DEFINE v == IdStale(u)
<1>5. v = [u EXCEPT !.calls = {g[c] : c \in u.calls}]
  BY <1>3
<1> HIDE DEF v
<1>6. /\ Turn(v, w, s)
      /\ v.identity = u.identity /\ v.view = u.view /\ v.shown = u.shown
      /\ v.identityPoll = u.identityPoll /\ v.pollBusy = u.pollBusy
      /\ v.loginBusy = u.loginBusy
      /\ \A d \in v.calls : \E c \in u.calls : d = g[c]
  BY <1>2, <1>4, <1>5, CallsChange
<1>7. \A d \in v.calls : /\ d.kind \notin Journey => ~d.fresh
                        /\ \E c \in u.calls : d.kind = c.kind
  BY <1>2, <1>6
<1>8. QED
  BY <1>6, <1>7 DEF v

(* What is shown and expected of the run is given up, or more polling is   *)
(* due.                                                                    *)
LEMMA FlagsTurn ==
    ASSUME NEW u, NEW w, NEW s \in Snapshot, Turn(u, w, s), NEW v \in PageState,
           v.calls = u.calls, v.identity = u.identity, v.shown = u.shown,
           v.pollBusy = u.pollBusy, v.loginBusy = u.loginBusy,
           u.identityPoll => v.identityPoll,
           mode # "fixture" /\ u.identity # "authenticated" =>
              v.view = None /\ ~v.available /\ ~v.pendingPoll
    PROVE  Turn(v, w, s)
<1>1. (\A c \in v.calls : CallOK(c, s)) /\ BusyOK(v, w) /\ NewestOK(v, s)
  BY DEF Turn, BusyOK, NewestOK
<1>2. LoginAlone(v) /\ IdentityOK(v)
  BY DEF Turn, LoginAlone, IdentityOK
<1>3. QED
  BY <1>1, <1>2 DEF Turn

(* An exchange is sent, and the turn ends in its wait. *)
MaySend(u, c, s) ==
    /\ c \in Exchanges /\ CallOK(c, s) /\ c.reply = None
    /\ c.kind \in Journey =>
          /\ \A d \in u.calls : d.kind \in Journey => ~d.fresh
          /\ mode # "fixture" => u.identity = "authenticated"
    /\ c.kind = "session" => \A d \in u.calls : d.kind # "login"
    /\ c.kind = "login" =>
          /\ \A d \in u.calls : d.kind = "session" => ~d.fresh
          /\ u.identity # "ended" => u.identityPoll \/ u.pollBusy

LEMMA AddTurn ==
    ASSUME NEW u, NEW s \in Snapshot, NEW c, Turn(u, c.waits, s), MaySend(u, c, s),
           NEW v \in PageState, v.calls = u.calls \cup {c},
           v.identity = u.identity, v.view = u.view, v.shown = u.shown,
           v.pendingPoll = u.pendingPoll, v.identityPoll = u.identityPoll,
           v.pollBusy = u.pollBusy, v.loginBusy = u.loginBusy, v.available => u.available
    PROVE  Turn(v, "none", s)
<1>1. \A d \in v.calls : CallOK(d, s)
  BY DEF Turn, MaySend
<1>2. BusyOK(v, "none")
  BY DEF Turn, BusyOK
<1>3. LoginAlone(v)
  <2>1. c.kind = "login" => c.kind # "session"
    OBVIOUS
  <2>2. QED
    BY <2>1 DEF Turn, LoginAlone, MaySend
<1>4. IdentityOK(v)
  BY DEF Turn, IdentityOK, MaySend
<1>5. NewestOK(v, s)
  BY DEF Turn, NewestOK, MaySend
<1>6. QED
  BY <1>1, <1>2, <1>3, <1>4, <1>5 DEF Turn

LEMMA SendTurn ==
    ASSUME NEW u, NEW s \in Snapshot, NEW c, Turn(u, c.waits, s), wire \in BOOLEAN,
           MaySend(u, c, s)
    PROVE  Turn(Send(u, c), "none", s) /\ Send(u, c).shown = u.shown
<1> DEFINE v == Send(u, c)
<1>1. u \in PageState /\ c \in Exchanges
  BY DEF Turn, MaySend
<1>2. /\ v \in PageState /\ v.calls = u.calls \cup {c}
      /\ v.identity = u.identity /\ v.view = u.view /\ v.shown = u.shown
      /\ v.pendingPoll = u.pendingPoll /\ v.identityPoll = u.identityPoll
      /\ v.pollBusy = u.pollBusy /\ v.loginBusy = u.loginBusy
      /\ v.available => u.available
  <2>1. CASE wire
    BY <1>1, <2>1 DEF Send, PageState
  <2>2. CASE ~wire
    BY <1>1, <2>2 DEF Send, PageState
  <2>3. QED
    BY <2>1, <2>2
<1> HIDE DEF v
<1>3. Turn(v, "none", s)
  BY <1>2, AddTurn
<1>4. QED
  BY <1>2, <1>3 DEF v

(* A turn that nothing waits for ends as it is. *)
LEMMA QuietEnd ==
    ASSUME NEW u, NEW w, NEW x, NEW s, w \notin {"poll", "login"}, x \notin {"poll", "login"},
           Turn(u, w, s)
    PROVE  Turn(u, x, s)
<1>1. BusyOK(u, x)
  BY DEF Turn, BusyOK
<1>2. QED
  BY <1>1 DEF Turn

LEMMA PollAgainTurn ==
    ASSUME NEW u, NEW s \in Snapshot, Turn(u, "poll", s)
    PROVE  Turn(PollAgain(u), "none", s) /\ PollAgain(u).shown = u.shown
<1> DEFINE v == PollAgain(u)
<1>1. u \in PageState
  BY DEF Turn
<1>2. /\ v \in PageState /\ v.calls = u.calls
      /\ v.identity = u.identity /\ v.view = u.view /\ v.shown = u.shown
      /\ v.available = u.available /\ v.pendingPoll = u.pendingPoll
      /\ v.identityPoll = (u.identity # "ended")
      /\ v.pollBusy = FALSE /\ v.loginBusy = u.loginBusy
  BY <1>1 DEF PollAgain, PageState
<1> HIDE DEF v
<1>3. (\A d \in v.calls : CallOK(d, s)) /\ NewestOK(v, s)
  BY <1>2 DEF Turn, NewestOK
<1>4. BusyOK(v, "none")
  BY <1>2 DEF Turn, BusyOK
<1>5. LoginAlone(v) /\ IdentityOK(v)
  BY <1>2 DEF Turn, LoginAlone, IdentityOK
<1>6. QED
  BY <1>2, <1>3, <1>4, <1>5 DEF Turn, v

(* A login that ends, refused or followed by its status, leaves a page     *)
(* that polls.                                                             *)
LEMMA LoginEndTurn ==
    ASSUME NEW u, NEW s \in Snapshot, Turn(u, "login", s), NEW b \in BOOLEAN,
           u.identity # "ended" => b \/ u.pollBusy,
           NEW v, v = [u EXCEPT !.identityPoll = b, !.loginBusy = FALSE]
    PROVE  Turn(v, "none", s) /\ v.shown = u.shown
<1>1. u \in PageState
  BY DEF Turn
<1>2. /\ v \in PageState /\ v.calls = u.calls
      /\ v.identity = u.identity /\ v.view = u.view /\ v.shown = u.shown
      /\ v.available = u.available /\ v.pendingPoll = u.pendingPoll
      /\ v.identityPoll = b /\ v.pollBusy = u.pollBusy /\ v.loginBusy = FALSE
  BY <1>1 DEF PageState
<1>3. (\A d \in v.calls : CallOK(d, s)) /\ NewestOK(v, s)
  BY <1>2 DEF Turn, NewestOK
<1>4. BusyOK(v, "none")
  BY <1>2 DEF Turn, BusyOK
<1>5. LoginAlone(v) /\ IdentityOK(v)
  BY <1>2 DEF Turn, LoginAlone, IdentityOK
<1>6. QED
  BY <1>2, <1>3, <1>4, <1>5 DEF Turn

(* A poll that is due: sent, put off behind a login, or not needed.        *)
LEMMA PollTurn ==
    ASSUME NEW u, NEW s \in Snapshot, Turn(u, "none", s), wire \in BOOLEAN,
           cookie \in 0..MaxSessions,
           NEW v, v = [u EXCEPT !.identityPoll = FALSE]
    PROVE  Turn(pollIdentity(v), "none", s) /\ pollIdentity(v).shown = u.shown
<1>1. u \in PageState
  BY DEF Turn
<1>2. /\ v \in PageState /\ v.calls = u.calls
      /\ v.identity = u.identity /\ v.view = u.view /\ v.shown = u.shown
      /\ v.available = u.available /\ v.pendingPoll = u.pendingPoll
      /\ v.identityPoll = FALSE /\ v.pollBusy = u.pollBusy /\ v.loginBusy = u.loginBusy
  BY <1>1 DEF PageState
<1>3. CASE v.pollBusy \/ v.identity = "ended"
  <2>1. pollIdentity(v) = v
    BY <1>3 DEF pollIdentity
  <2>2. (\A d \in v.calls : CallOK(d, s)) /\ NewestOK(v, s)
    BY <1>2 DEF Turn, NewestOK
  <2>3. BusyOK(v, "none")
    BY <1>2 DEF Turn, BusyOK
  <2>4. LoginAlone(v) /\ IdentityOK(v)
    BY <1>2, <1>3 DEF Turn, LoginAlone, IdentityOK
  <2>5. QED
    BY <1>2, <2>1, <2>2, <2>3, <2>4 DEF Turn
<1>4. CASE ~(v.pollBusy \/ v.identity = "ended") /\ v.loginBusy
  <2> DEFINE t == [v EXCEPT !.identityPoll = TRUE]
  <2>1. /\ t \in PageState /\ t.calls = u.calls
        /\ t.identity = u.identity /\ t.view = u.view /\ t.shown = u.shown
        /\ t.available = u.available /\ t.pendingPoll = u.pendingPoll
        /\ t.identityPoll = TRUE /\ t.pollBusy = u.pollBusy /\ t.loginBusy = u.loginBusy
    BY <1>2 DEF PageState
  <2>2. pollIdentity(v) = t
    BY <1>4 DEF pollIdentity
  <2> HIDE DEF t
  <2>3. mode # "fixture" /\ u.identity # "authenticated" =>
           t.view = None /\ ~t.available /\ ~t.pendingPoll
    BY <2>1 DEF Turn, IdentityOK
  <2>4. QED
    BY <2>1, <2>2, <2>3, FlagsTurn
<1>5. CASE ~(v.pollBusy \/ v.identity = "ended") /\ ~v.loginBusy
  <2> DEFINE t == [v EXCEPT !.identityPoll = FALSE, !.pollBusy = TRUE]
             c == Exchange("session", "poll", 0)
  <2>1. /\ t \in PageState /\ t.calls = u.calls
        /\ t.identity = u.identity /\ t.view = u.view /\ t.shown = u.shown
        /\ t.available = u.available /\ t.pendingPoll = u.pendingPoll
        /\ t.identityPoll = FALSE /\ t.pollBusy = TRUE /\ t.loginBusy = u.loginBusy
    BY <1>2 DEF PageState
  <2>2. pollIdentity(v) = Send(t, c)
    BY <1>5 DEF pollIdentity
  <2>3. /\ c \in Exchanges /\ c.kind = "session" /\ c.waits = "poll" /\ c.reply = None
        /\ CallOK(c, s)
    BY SharedAssumption DEF Exchange, Exchanges, Waits, CallOK, Commands, Journey
  <2> HIDE DEF t, c
  <2>4. \A d \in u.calls : d.waits \notin {"poll", "login"} /\ d.kind # "login"
    BY <1>2, <1>5 DEF Turn, BusyOK, CallOK
  <2>5. Turn(t, "poll", s)
    <3>1. (\A d \in t.calls : CallOK(d, s)) /\ NewestOK(t, s)
      BY <2>1 DEF Turn, NewestOK
    <3>2. BusyOK(t, "poll")
      BY <2>1, <2>4 DEF Turn, BusyOK
    <3>3. LoginAlone(t) /\ IdentityOK(t)
      BY <2>1, <2>4 DEF Turn, LoginAlone, IdentityOK
    <3>4. QED
      BY <2>1, <3>1, <3>2, <3>3 DEF Turn
  <2>6. c.kind \notin Journey
    BY <2>3 DEF Journey, Commands
  <2>7. QED
    BY <2>1, <2>2, <2>3, <2>4, <2>5, <2>6, SendTurn DEF MaySend
<1>6. QED
  BY <1>3, <1>4, <1>5

(* What comes after the await of a status. *)
LEMMA ResumeTurn ==
    ASSUME NEW u, NEW w \in Waits, NEW s \in Snapshot, Turn(u, w, s)
    PROVE  Turn(Resume(u, w), "none", s) /\ Resume(u, w).shown = u.shown
<1>1. u \in PageState
  BY DEF Turn
<1>2. CASE w = "poll"
  BY <1>2, PollAgainTurn DEF Resume
<1>3. CASE w = "login"
  <2> DEFINE v == [pollIdentity(u) EXCEPT !.loginBusy = FALSE]
             b == u.identityPoll \/ ~(u.pollBusy \/ u.identity = "ended")
  <2>1. Resume(u, w) = v
    BY <1>3 DEF Resume
  <2>2. u.loginBusy
    BY <1>3 DEF Turn, BusyOK
  <2>3. v = [u EXCEPT !.identityPoll = b, !.loginBusy = FALSE]
    <3>1. CASE u.pollBusy \/ u.identity = "ended"
      BY <1>1, <3>1 DEF pollIdentity, PageState
    <3>2. CASE ~(u.pollBusy \/ u.identity = "ended")
      BY <1>1, <2>2, <3>2 DEF pollIdentity, PageState
    <3>3. QED
      BY <3>1, <3>2
  <2>4. b \in BOOLEAN /\ (u.identity # "ended" => b \/ u.pollBusy)
    OBVIOUS
  <2> HIDE DEF v, b
  <2>5. QED
    BY <1>3, <2>1, <2>3, <2>4, LoginEndTurn
<1>4. CASE w = "resync"
  <2> DEFINE v == [u EXCEPT !.loading = FALSE]
  <2>1. /\ v \in PageState /\ v.calls = u.calls
        /\ v.identity = u.identity /\ v.view = u.view /\ v.shown = u.shown
        /\ v.available = u.available /\ v.pendingPoll = u.pendingPoll
        /\ v.identityPoll = u.identityPoll /\ v.pollBusy = u.pollBusy
        /\ v.loginBusy = u.loginBusy
    BY <1>1 DEF PageState
  <2>2. Resume(u, w) = v
    BY <1>4 DEF Resume
  <2> HIDE DEF v
  <2>3. mode # "fixture" /\ u.identity # "authenticated" =>
           v.view = None /\ ~v.available /\ ~v.pendingPoll
    BY <2>1 DEF Turn, IdentityOK
  <2>4. Turn(v, w, s)
    BY <2>1, <2>3, FlagsTurn
  <2>5. QED
    BY <1>4, <2>1, <2>2, <2>4, QuietEnd
<1>5. CASE w \notin {"poll", "login", "resync"}
  <2>1. Resume(u, w) = u
    BY <1>5 DEF Resume
  <2>2. QED
    BY <1>5, <2>1, QuietEnd
<1>6. QED
  BY <1>2, <1>3, <1>4, <1>5

(* A status is sent, or refused for want of a session. *)
LEMMA SyncTurn ==
    ASSUME NEW u, NEW w \in {"page", "poll", "login", "resync"}, NEW s \in Snapshot,
           Turn(u, w, s), wire \in BOOLEAN, cookie \in 0..MaxSessions
    PROVE  Turn(syncStatus(u, w), "none", s) /\ syncStatus(u, w).shown = u.shown
<1> DEFINE t == Stale(u)
<1>1. /\ Turn(t, w, s) /\ t.shown = u.shown /\ t.identity = u.identity
      /\ \A d \in t.calls : d.kind \in Journey => ~d.fresh
  BY StaleTurn
<1>2. CASE mode # "fixture" /\ u.identity # "authenticated"
  <2> DEFINE v == [t EXCEPT !.available = FALSE]
  <2>1. syncStatus(u, w) = Resume(v, w)
    BY <1>2 DEF syncStatus
  <2> HIDE DEF t
  <2>2. t \in PageState
    BY <1>1 DEF Turn
  <2>3. /\ v \in PageState /\ v.calls = t.calls
        /\ v.identity = t.identity /\ v.view = t.view /\ v.shown = t.shown
        /\ v.available = FALSE /\ v.pendingPoll = t.pendingPoll
        /\ v.identityPoll = t.identityPoll /\ v.pollBusy = t.pollBusy
        /\ v.loginBusy = t.loginBusy
    BY <2>2 DEF PageState
  <2> HIDE DEF v
  <2>4. mode # "fixture" /\ t.identity # "authenticated" =>
           v.view = None /\ ~v.available /\ ~v.pendingPoll
    BY <1>1, <2>3 DEF Turn, IdentityOK
  <2>5. Turn(v, w, s)
    BY <1>1, <2>3, <2>4, FlagsTurn
  <2>6. w \in Waits
    BY DEF Waits
  <2>7. QED
    BY <1>1, <2>1, <2>3, <2>5, <2>6, ResumeTurn
<1>3. CASE mode = "fixture" \/ u.identity = "authenticated"
  <2> DEFINE c == Exchange("status", w, 0)
  <2>1. syncStatus(u, w) = Send(t, c)
    BY <1>3 DEF syncStatus
  <2>2. /\ c \in Exchanges /\ c.kind = "status" /\ c.waits = w /\ c.reply = None
        /\ CallOK(c, s)
    BY SharedAssumption DEF Exchange, Exchanges, Waits, CallOK, Commands, Journey
  <2> HIDE DEF t, c
  <2>3. QED
    BY <1>1, <1>3, <2>1, <2>2, SendTurn DEF MaySend
<1>4. QED
  BY <1>2, <1>3

(* The identity is published. *)
LEMMA PublishTurn ==
    ASSUME NEW u, NEW w, NEW s \in Snapshot, Turn(u, w, s),
           NEW st \in {"authenticated", "unavailable", "ended"},
           st # "ended" => w \in {"poll", "login"} /\ \A d \in u.calls : d.kind # "login"
    PROVE  /\ Turn(publish(u, st), w, s)
           /\ publish(u, st).shown = u.shown /\ publish(u, st).identity = st
<1>0. u \in PageState
  BY DEF Turn
<1>1. st # "ended" => u.pollBusy \/ u.loginBusy
  BY DEF Turn, BusyOK
<1>2. CASE st = "authenticated"
  <2> DEFINE v == [u EXCEPT !.identity = st]
  <2>1. publish(u, st) = v
    BY <1>2 DEF publish
  <2>2. /\ v \in PageState /\ v.calls = u.calls /\ v.identity = st /\ v.shown = u.shown
        /\ v.identityPoll = u.identityPoll /\ v.pollBusy = u.pollBusy
        /\ v.loginBusy = u.loginBusy
    BY <1>0 DEF PageState
  <2> HIDE DEF v
  <2>3. (\A d \in v.calls : CallOK(d, s)) /\ NewestOK(v, s) /\ BusyOK(v, w)
    BY <2>2 DEF Turn, NewestOK, BusyOK
  <2>4. LoginAlone(v) /\ IdentityOK(v)
    BY <1>1, <1>2, <2>2 DEF LoginAlone, IdentityOK
  <2>5. QED
    BY <2>1, <2>2, <2>3, <2>4 DEF Turn
<1>3. CASE st # "authenticated"
  <2> DEFINE t == Stale(u)
             v == [t EXCEPT !.identity = st, !.view = None, !.available = FALSE,
                            !.pendingPoll = FALSE,
                            !.identityPoll = t.identityPoll /\ st # "ended"]
  <2>1. publish(u, st) = v
    BY <1>3 DEF publish
  <2>2. /\ Turn(t, w, s) /\ t.shown = u.shown
        /\ \A d \in t.calls : d.kind \in Journey => ~d.fresh
        /\ \A d \in t.calls : \E c \in u.calls : d.kind = c.kind
        /\ t.pollBusy = u.pollBusy /\ t.loginBusy = u.loginBusy
    BY StaleTurn
  <2> HIDE DEF t
  <2>3. t \in PageState
    BY <2>2 DEF Turn
  <2>4. /\ v \in PageState /\ v.calls = t.calls /\ v.identity = st /\ v.shown = t.shown
        /\ v.view = None /\ v.available = FALSE /\ v.pendingPoll = FALSE
        /\ v.pollBusy = t.pollBusy /\ v.loginBusy = t.loginBusy
    BY <2>3 DEF PageState
  <2> HIDE DEF v
  <2>5. (\A d \in v.calls : CallOK(d, s)) /\ NewestOK(v, s) /\ BusyOK(v, w)
    BY <2>2, <2>4 DEF Turn, NewestOK, BusyOK
  <2>6. LoginAlone(v)
    <3>1. st # "ended" => \A d \in v.calls : d.kind # "login"
      BY <2>2, <2>4
    <3>2. QED
      BY <2>2, <2>4, <3>1 DEF Turn, LoginAlone
  <2>7. IdentityOK(v)
    BY <1>1, <2>2, <2>4 DEF IdentityOK
  <2>8. QED
    BY <2>1, <2>2, <2>4, <2>5, <2>6, <2>7 DEF Turn
<1>4. QED
  BY <1>2, <1>3

(* A snapshot is shown that is at least the one before it. *)
LEMMA ApplyTurn ==
    ASSUME NEW u, NEW w, NEW s \in Snapshot, Turn(u, w, s), NEW t \in Snapshot, AtLeast(s, t),
           mode # "fixture" => u.identity = "authenticated",
           \A d \in u.calls : d.kind \in Journey => ~d.fresh
    PROVE  Turn(applyFlowState(u, t), w, s) /\ applyFlowState(u, t).shown = t
<1> DEFINE v == applyFlowState(u, t)
<1>1. u \in PageState
  BY DEF Turn
<1>2. /\ v \in PageState /\ v.calls = u.calls /\ v.identity = u.identity /\ v.shown = t
      /\ v.identityPoll = u.identityPoll /\ v.pollBusy = u.pollBusy
      /\ v.loginBusy = u.loginBusy
  BY <1>1 DEF applyFlowState, PageState
<1> HIDE DEF v
<1>3. (\A d \in v.calls : CallOK(d, s)) /\ BusyOK(v, w)
  BY <1>2 DEF Turn, BusyOK
<1>4. LoginAlone(v) /\ IdentityOK(v)
  BY <1>2 DEF Turn, LoginAlone, IdentityOK
<1>5. NewestOK(v, s)
  BY <1>2 DEF NewestOK
<1>6. QED
  BY <1>2, <1>3, <1>4, <1>5 DEF Turn, v

-----------------------------------------------------------------------------
(* The page takes an answer. *)

(* What is known of the answer c when the page u, without that exchange,   *)
(* begins to handle it.                                                    *)
Answering(u, c) ==
    /\ Turn(u, c.waits, shared)
    /\ c \in Exchanges /\ CallOK(c, shared) /\ c.reply # None
    /\ c.fresh /\ c.kind \in Journey =>
          /\ \A d \in u.calls : d.kind \in Journey => ~d.fresh
          /\ mode # "fixture" => u.identity = "authenticated"
          /\ c.reply.code = "ok" => AtLeast(c.reply.state, u.shown)
    /\ c.waits = "login" \/ (c.kind = "session" /\ c.fresh) =>
          \A d \in u.calls : d.kind # "login"
    /\ c.kind = "login" => (u.identity # "ended" => u.identityPoll \/ u.pollBusy)

Around == SharedOK /\ wire \in BOOLEAN /\ cookie \in 0..MaxSessions

LEMMA HandleBegins ==
    ASSUME PageInv, NEW c \in ui.calls, c.reply # None,
           NEW u, u = [ui EXCEPT !.calls = ui.calls \ {c}]
    PROVE  Answering(u, c) /\ u.shown = ui.shown
<1> USE DEF PageInv
<1>1. ui \in PageState /\ Turn(ui, "none", shared)
  BY DEF Turn
<1>2. /\ u \in PageState /\ u.calls = ui.calls \ {c}
      /\ u.identity = ui.identity /\ u.view = ui.view /\ u.shown = ui.shown
      /\ u.available = ui.available /\ u.pendingPoll = ui.pendingPoll
      /\ u.identityPoll = ui.identityPoll /\ u.pollBusy = ui.pollBusy
      /\ u.loginBusy = ui.loginBusy
  BY <1>1 DEF PageState
<1>3. c \in Exchanges /\ CallOK(c, shared)
  BY <1>1 DEF PageState, Turn
<1>4. \A d \in u.calls : CallOK(d, shared)
  BY <1>1, <1>2 DEF Turn
<1>5. BusyOK(u, c.waits)
  BY <1>1, <1>2 DEF Turn, BusyOK
<1>6. LoginAlone(u) /\ IdentityOK(u) /\ NewestOK(u, shared)
  BY <1>1, <1>2 DEF Turn, LoginAlone, IdentityOK, NewestOK
<1>7. Turn(u, c.waits, shared)
  BY <1>2, <1>4, <1>5, <1>6 DEF Turn
<1>8. ASSUME c.fresh, c.kind \in Journey
      PROVE  /\ \A d \in u.calls : d.kind \in Journey => ~d.fresh
             /\ mode # "fixture" => u.identity = "authenticated"
             /\ c.reply.code = "ok" => AtLeast(c.reply.state, u.shown)
  BY <1>1, <1>2, <1>8 DEF Turn, NewestOK, IdentityOK
<1>9. ASSUME c.waits = "login" PROVE \A d \in u.calls : d.kind # "login"
  BY <1>1, <1>2, <1>4, <1>9 DEF Turn, BusyOK, CallOK
<1>10. ASSUME c.kind = "session", c.fresh PROVE \A d \in u.calls : d.kind # "login"
  BY <1>1, <1>2, <1>10 DEF Turn, LoginAlone
<1>11. c.kind = "login" => (u.identity # "ended" => u.identityPoll \/ u.pollBusy)
  BY <1>1, <1>2 DEF Turn, LoginAlone
<1>12. QED
  BY <1>2, <1>3, <1>7, <1>8, <1>9, <1>10, <1>11 DEF Answering

(* Availability given up. *)
LEMMA UnavailableTurn ==
    ASSUME NEW u, NEW w, NEW s \in Snapshot, Turn(u, w, s),
           NEW v, v = [u EXCEPT !.available = FALSE]
    PROVE  Turn(v, w, s) /\ v.shown = u.shown /\ v.calls = u.calls
<1>1. u \in PageState
  BY DEF Turn
<1>2. /\ v \in PageState /\ v.calls = u.calls
      /\ v.identity = u.identity /\ v.view = u.view /\ v.shown = u.shown
      /\ v.available = FALSE /\ v.pendingPoll = u.pendingPoll
      /\ v.identityPoll = u.identityPoll /\ v.pollBusy = u.pollBusy
      /\ v.loginBusy = u.loginBusy
  BY <1>1 DEF PageState
<1>3. mode # "fixture" /\ u.identity # "authenticated" =>
         v.view = None /\ ~v.available /\ ~v.pendingPoll
  BY <1>2 DEF Turn, IdentityOK
<1>4. QED
  BY <1>2, <1>3, FlagsTurn

LEMMA ShownItself ==
    ASSUME NEW u, NEW w, NEW s, Turn(u, w, s) PROVE u.shown \in Snapshot /\ AtLeast(u.shown, u.shown)
BY AtLeastItself DEF Turn, PageState

LEMMA StatusTurn ==
    ASSUME Around, NEW u, NEW c, Answering(u, c), c.kind = "status"
    PROVE  /\ Turn(StatusAnswered(u, c), "none", shared)
           /\ AtLeast(StatusAnswered(u, c).shown, u.shown)
<1> DEFINE w == c.waits
           v == IF c.reply.code = "unauthorized" THEN publish(u, "ended")
                ELSE IF ~c.fresh THEN u
                ELSE IF c.reply.code = "ok" THEN applyFlowState(u, c.reply.state)
                ELSE [u EXCEPT !.available = FALSE]
<1>1. Turn(u, w, shared) /\ w \in Waits /\ shared \in Snapshot
  BY DEF Answering, Exchanges, Around, SharedOK
<1>2. u.shown \in Snapshot /\ AtLeast(u.shown, u.shown)
  BY <1>1, ShownItself
<1>3. Turn(v, w, shared) /\ AtLeast(v.shown, u.shown)
  <2>1. CASE c.reply.code = "unauthorized"
    BY <1>1, <1>2, <2>1, PublishTurn
  <2>2. CASE c.reply.code # "unauthorized" /\ ~c.fresh
    BY <1>1, <1>2, <2>2
  <2>3. CASE c.reply.code = "ok" /\ c.fresh
    <3>1. /\ c.reply.state \in Snapshot /\ AtLeast(shared, c.reply.state)
          /\ AtLeast(c.reply.state, u.shown)
          /\ \A d \in u.calls : d.kind \in Journey => ~d.fresh
          /\ mode # "fixture" => u.identity = "authenticated"
      <4>1. c.kind \in Journey
        BY DEF Journey
      <4>2. c.reply.state \in Snapshot /\ AtLeast(shared, c.reply.state)
        BY <2>3, <4>1 DEF Answering, CallOK
      <4>3. /\ \A d \in u.calls : d.kind \in Journey => ~d.fresh
            /\ mode # "fixture" => u.identity = "authenticated"
            /\ c.reply.code = "ok" => AtLeast(c.reply.state, u.shown)
        BY <2>3, <4>1, Zenon DEF Answering
      <4>4. QED
        BY <2>3, <4>2, <4>3
    <3>2. v = applyFlowState(u, c.reply.state)
      BY <2>3
    <3> HIDE DEF v, w
    <3>3. QED
      BY <1>1, <3>1, <3>2, ApplyTurn
  <2>4. CASE c.reply.code \notin {"unauthorized", "ok"} /\ c.fresh
    BY <1>1, <1>2, <2>4, UnavailableTurn
  <2>5. QED
    BY <2>1, <2>2, <2>3, <2>4
<1>4. StatusAnswered(u, c) = Resume(v, w)
  BY DEF StatusAnswered
<1> HIDE DEF v
<1>5. QED
  BY <1>1, <1>3, <1>4, ResumeTurn

LEMMA CommandTurn ==
    ASSUME Around, NEW u, NEW c, Answering(u, c), c.kind \in Commands
    PROVE  /\ Turn(CommandAnswered(u, c), "none", shared)
           /\ AtLeast(CommandAnswered(u, c).shown, u.shown)
<1> DEFINE done == [u EXCEPT !.loading = FALSE]
           next == CommandAnswered(u, c)
<1>1. /\ Turn(u, "dispatch", shared) /\ shared \in Snapshot /\ c.kind \in Journey
      /\ wire \in BOOLEAN /\ cookie \in 0..MaxSessions
  BY DEF Answering, CallOK, Around, SharedOK, Journey
<1>2. u.shown \in Snapshot /\ AtLeast(u.shown, u.shown) /\ u \in PageState
  BY <1>1, ShownItself DEF Turn
<1>3. /\ done \in PageState /\ done.calls = u.calls
      /\ done.identity = u.identity /\ done.view = u.view /\ done.shown = u.shown
      /\ done.available = u.available /\ done.pendingPoll = u.pendingPoll
      /\ done.identityPoll = u.identityPoll /\ done.pollBusy = u.pollBusy
      /\ done.loginBusy = u.loginBusy
  BY <1>2 DEF PageState
<1>4. next = IF c.reply.code = "unauthorized" THEN publish(done, "ended")
             ELSE IF ~c.fresh THEN done
             ELSE CASE c.reply.code = "ok" ->
                          IF c.kind = "next" /\ c.reply.state.id # c.run
                          THEN syncStatus(done, "resync")
                          ELSE applyFlowState(done, c.reply.state)
                    [] c.reply.code = "stale" -> syncStatus(done, "resync")
                    [] c.reply.code = "timeout" -> syncStatus([done EXCEPT !.available = FALSE], "resync")
                    [] c.reply.code = "lost" -> [done EXCEPT !.available = FALSE]
                    [] OTHER -> done
  BY DEF CommandAnswered
<1>0. CommandAnswered(u, c) = next
  OBVIOUS
<1> HIDE DEF done, next
<1>5. Turn(done, "none", shared) /\ Turn(done, "resync", shared)
  <2>1. mode # "fixture" /\ u.identity # "authenticated" =>
           done.view = None /\ ~done.available /\ ~done.pendingPoll
    BY <1>1, <1>3 DEF Turn, IdentityOK
  <2>2. Turn(done, "dispatch", shared)
    BY <1>1, <1>3, <2>1, FlagsTurn
  <2>3. QED
    BY <2>2, QuietEnd
<1>6. CASE next = publish(done, "ended")
  BY <1>0, <1>1, <1>2, <1>3, <1>5, <1>6, PublishTurn
<1>7. CASE next = done
  BY <1>0, <1>2, <1>3, <1>5, <1>7
<1>8. CASE next = syncStatus(done, "resync")
  BY <1>0, <1>1, <1>2, <1>3, <1>5, <1>8, SyncTurn
<1>9. CASE next = applyFlowState(done, c.reply.state) /\ c.reply.code = "ok" /\ c.fresh
  <2>1. /\ c.reply.state \in Snapshot /\ AtLeast(shared, c.reply.state)
        /\ AtLeast(c.reply.state, u.shown)
        /\ \A d \in u.calls : d.kind \in Journey => ~d.fresh
        /\ mode # "fixture" => u.identity = "authenticated"
    BY <1>1, <1>9 DEF Answering, CallOK
  <2>2. QED
    BY <1>0, <1>1, <1>3, <1>5, <1>9, <2>1, ApplyTurn
<1>10. CASE \/ next = syncStatus([done EXCEPT !.available = FALSE], "resync")
            \/ next = [done EXCEPT !.available = FALSE]
  <2> DEFINE v == [done EXCEPT !.available = FALSE]
  <2>1. Turn(v, "none", shared) /\ Turn(v, "resync", shared) /\ v.shown = u.shown
    BY <1>1, <1>3, <1>5, UnavailableTurn
  <2>2. next = syncStatus(v, "resync") \/ next = v
    BY <1>10
  <2> HIDE DEF v
  <2>3. QED
    BY <1>0, <1>1, <1>2, <2>1, <2>2, SyncTurn
<1>11. QED
  BY <1>4, <1>6, <1>7, <1>8, <1>9, <1>10

LEMMA SessionTurn ==
    ASSUME Around, NEW u, NEW c, Answering(u, c), c.kind = "session"
    PROVE  /\ Turn(SessionAnswered(u, c), "none", shared)
           /\ AtLeast(SessionAnswered(u, c).shown, u.shown)
<1> DEFINE v == Refreshed(u, c)
<1>1. /\ Turn(u, "poll", shared) /\ shared \in Snapshot
      /\ wire \in BOOLEAN /\ cookie \in 0..MaxSessions
  BY DEF Answering, CallOK, Around, SharedOK
<1>2. u.shown \in Snapshot /\ AtLeast(u.shown, u.shown)
  BY <1>1, ShownItself
<1>3. Turn(v, "poll", shared) /\ v.shown = u.shown
  <2>1. CASE ~c.fresh
    BY <1>1, <2>1 DEF Refreshed
  <2>2. CASE c.fresh
    <3>1. PICK st \in {"authenticated", "unavailable", "ended"} : v = publish(u, st)
      BY <2>2 DEF Refreshed
    <3>2. \A d \in u.calls : d.kind # "login"
      BY <2>2 DEF Answering
    <3> HIDE DEF v
    <3>3. QED
      BY <1>1, <3>1, <3>2, PublishTurn
  <2>3. QED
    BY <2>1, <2>2
<1>4. SessionAnswered(u, c) = syncStatus(v, "poll") \/ SessionAnswered(u, c) = PollAgain(v)
  BY DEF SessionAnswered
<1> HIDE DEF v
<1>5. QED
  BY <1>1, <1>2, <1>3, <1>4, SyncTurn, PollAgainTurn

LEMMA LoginTurn ==
    ASSUME Around, NEW u, NEW c, Answering(u, c), c.kind = "login"
    PROVE  /\ Turn(LoginAnswered(u, c), "none", shared)
           /\ AtLeast(LoginAnswered(u, c).shown, u.shown)
<1>1. /\ Turn(u, "login", shared) /\ shared \in Snapshot /\ c.waits = "login"
      /\ wire \in BOOLEAN /\ cookie \in 0..MaxSessions
  BY DEF Answering, CallOK, Around, SharedOK
<1>2. u.shown \in Snapshot /\ AtLeast(u.shown, u.shown)
  BY <1>1, ShownItself
<1>3. CASE c.fresh /\ c.reply.code \in {"ok", "denied"}
  <2> DEFINE state == IF c.reply.code = "ok" THEN "authenticated" ELSE "unavailable"
             v == publish(u, state)
  <2>1. (\A d \in u.calls : d.kind # "login") /\ state \in {"authenticated", "unavailable"}
    BY <1>1 DEF Answering
  <2>2. Turn(v, "login", shared) /\ v.shown = u.shown
    BY <1>1, <2>1, PublishTurn
  <2>3. LoginAnswered(u, c) = syncStatus(v, "login")
    BY <1>3 DEF LoginAnswered
  <2> HIDE DEF v, state
  <2>4. QED
    BY <1>1, <1>2, <2>2, <2>3, SyncTurn
<1>4. CASE ~(c.fresh /\ c.reply.code \in {"ok", "denied"})
  <2> DEFINE v == [u EXCEPT !.loginBusy = FALSE]
  <2>1. LoginAnswered(u, c) = v
    BY <1>4 DEF LoginAnswered
  <2>2. u \in PageState
    BY <1>1 DEF Turn
  <2>3. v = [u EXCEPT !.identityPoll = u.identityPoll, !.loginBusy = FALSE]
        /\ u.identityPoll \in BOOLEAN
    BY <2>2 DEF PageState
  <2>4. u.identity # "ended" => u.identityPoll \/ u.pollBusy
    BY DEF Answering
  <2> HIDE DEF v
  <2>5. Turn(v, "none", shared) /\ v.shown = u.shown
    BY <1>1, <2>3, <2>4, LoginEndTurn
  <2>6. QED
    BY <1>2, <2>1, <2>5
<1>5. QED
  BY <1>3, <1>4

LEMMA LogoutTurn ==
    ASSUME Around, NEW u, NEW c, Answering(u, c), c.kind = "logout"
    PROVE  /\ Turn(LogoutAnswered(u, c), "none", shared)
           /\ AtLeast(LogoutAnswered(u, c).shown, u.shown)
<1>1. Turn(u, "logout", shared) /\ shared \in Snapshot
  BY DEF Answering, CallOK, Around, SharedOK
<1>2. u.shown \in Snapshot /\ AtLeast(u.shown, u.shown)
  BY <1>1, ShownItself
<1>3. Turn(publish(u, "ended"), "logout", shared) /\ publish(u, "ended").shown = u.shown
  BY <1>1, PublishTurn
<1>4. Turn(publish(u, "ended"), "none", shared) /\ Turn(u, "none", shared)
  BY <1>1, <1>3, QuietEnd
<1>5. QED
  BY <1>2, <1>3, <1>4 DEF LogoutAnswered

LEMMA HandleTurn ==
    ASSUME PageInv, NEW c \in ui.calls, Handle(c)
    PROVE  Turn(ui', "none", shared) /\ AtLeast(ui'.shown, ui.shown)
<1> DEFINE u == [ui EXCEPT !.calls = ui.calls \ {c}]
<1>1. c.reply # None
  BY DEF Handle
<1>2. Answering(u, c) /\ u.shown = ui.shown
  BY <1>1, HandleBegins
<1>3. Around
  BY DEF Around, PageInv
<1>4. c.kind \in Journey \cup {"session", "login", "logout"}
  BY <1>2, ExchangeFields DEF Answering
<1>5. ui' = CASE c.kind = "status" -> StatusAnswered(u, c)
              [] c.kind \in Commands -> CommandAnswered(u, c)
              [] c.kind = "session" -> SessionAnswered(u, c)
              [] c.kind = "login" -> LoginAnswered(u, c)
              [] c.kind = "logout" -> LogoutAnswered(u, c)
  BY DEF Handle
<1> HIDE DEF u
<1>6. CASE c.kind = "status"
  <2>1. ui' = StatusAnswered(u, c)
    BY <1>5, <1>6 DEF Commands
  <2>2. QED
    BY <1>2, <1>3, <1>6, <2>1, StatusTurn
<1>7. CASE c.kind \in Commands
  <2>1. ui' = CommandAnswered(u, c)
    <3>1. c.kind \notin {"status", "session", "login", "logout"}
      BY <1>7 DEF Commands
    <3>2. QED
      BY <1>5, <1>7, <3>1
  <2>2. QED
    BY <1>2, <1>3, <1>7, <2>1, CommandTurn
<1>8. CASE c.kind = "session"
  <2>1. ui' = SessionAnswered(u, c)
    BY <1>5, <1>8 DEF Commands
  <2>2. QED
    BY <1>2, <1>3, <1>8, <2>1, SessionTurn
<1>9. CASE c.kind = "login"
  <2>1. ui' = LoginAnswered(u, c)
    BY <1>5, <1>9 DEF Commands
  <2>2. QED
    BY <1>2, <1>3, <1>9, <2>1, LoginTurn
<1>10. CASE c.kind = "logout"
  <2>1. ui' = LogoutAnswered(u, c)
    BY <1>5, <1>10 DEF Commands
  <2>2. QED
    BY <1>2, <1>3, <1>10, <2>1, LogoutTurn
<1>11. QED
  BY <1>4, <1>6, <1>7, <1>8, <1>9, <1>10 DEF Journey


-----------------------------------------------------------------------------
(* The page opens, and what is done to its exchanges from outside. *)

LEMMA OpenedTurn ==
    ASSUME NEW s \in Snapshot, NEW t \in Snapshot, AtLeast(s, t), wire \in BOOLEAN,
           cookie \in 0..MaxSessions, NEW session \in 0..MaxSessions
    PROVE  Turn(Opened(session, t), "none", s) /\ Opened(session, t).shown = t
<1> DEFINE c == IF mode = "fixture" THEN Exchange("status", "page", 0)
                ELSE [Exchange("session", "poll", 0) EXCEPT !.session = session]
           u == [identity |-> IF mode = "fixture" THEN "fixture" ELSE "connecting",
                 view |-> None, shown |-> t, available |-> FALSE, loading |-> FALSE,
                 connection |-> "connecting", pendingPoll |-> FALSE, identityPoll |-> FALSE,
                 pollBusy |-> mode # "fixture", loginBusy |-> FALSE, calls |-> {}]
<1>1. Opened(session, t) = Send(u, c)
  BY DEF Opened
<1>2. /\ c \in Exchanges /\ c.reply = None
      /\ mode = "fixture" => c.kind = "status" /\ c.waits = "page"
      /\ mode # "fixture" => c.kind = "session" /\ c.waits = "poll"
  <2>1. 0 \in 0..MaxRuns
    BY SharedAssumption
  <2>2. QED
    BY <2>1 DEF Exchange, Exchanges, Waits, Journey
<1>3. /\ u \in PageState /\ u.calls = {} /\ u.shown = t /\ u.view = None
      /\ ~u.available /\ ~u.pendingPoll /\ ~u.loginBusy
      /\ u.pollBusy <=> mode # "fixture"
      /\ u.identity = IF mode = "fixture" THEN "fixture" ELSE "connecting"
  BY DEF PageState
<1> HIDE DEF u, c
<1>4. MaySend(u, c, s)
  BY <1>2, <1>3 DEF MaySend, CallOK, Commands, Journey
<1>5. Turn(u, c.waits, s)
  <2>1. (\A d \in u.calls : CallOK(d, s)) /\ LoginAlone(u) /\ NewestOK(u, s)
    BY <1>3 DEF LoginAlone, NewestOK
  <2>2. BusyOK(u, c.waits)
    BY <1>2, <1>3 DEF BusyOK
  <2>3. IdentityOK(u)
    BY <1>3 DEF IdentityOK
  <2>4. QED
    BY <1>3, <2>1, <2>2, <2>3 DEF Turn
<1>6. QED
  BY <1>1, <1>3, <1>4, <1>5, SendTurn

(* An exchange is answered, with the run as it is by then. *)
LEMMA AnswerTurn ==
    ASSUME PageInv, SharedOK', AtLeast(shared', shared),
           NEW c \in ui.calls, NEW code \in Code, Answer(c, code)
    PROVE  Turn(ui', "none", shared') /\ ui'.shown = ui.shown
<1> DEFINE r == [code |-> code,
                 state |-> IF code = "ok" /\ c.kind \in Journey THEN shared' ELSE None]
           g == [d \in ui.calls |-> IF d = c THEN [c EXCEPT !.reply = r] ELSE d]
<1>1. shared \in Snapshot /\ shared' \in Snapshot
  BY DEF PageInv, SharedOK
<1>2. Turn(ui, "none", shared')
  BY <1>1, TurnLater DEF PageInv
<1>3. ui.calls \subseteq Exchanges /\ ui \in PageState
  BY <1>2 DEF Turn, PageState
<1>4. /\ [c EXCEPT !.reply = r] \in Exchanges
      /\ [c EXCEPT !.reply = r].kind = c.kind /\ [c EXCEPT !.reply = r].waits = c.waits
      /\ [c EXCEPT !.reply = r].fresh = c.fresh /\ [c EXCEPT !.reply = r].reply = r
  BY <1>1, <1>3 DEF Exchanges
<1>5. ui' = [ui EXCEPT !.calls = {g[d] : d \in ui.calls}]
  <2>1. (ui.calls \ {c}) \cup {[c EXCEPT !.reply = r]} = {g[d] : d \in ui.calls}
    OBVIOUS
  <2>2. QED
    BY <2>1 DEF Answer
<1>6. g \in [ui.calls -> Exchanges]
  BY <1>3, <1>4
<1>7. r.code = code /\ (r.code = "ok" /\ c.kind \in Journey => r.state = shared')
  OBVIOUS
<1> HIDE DEF r
<1>8. ASSUME NEW d \in ui.calls
      PROVE  /\ g[d].kind = d.kind /\ g[d].waits = d.waits
             /\ g[d].fresh => d.fresh
             /\ \/ g[d].reply = d.reply
                \/ g[d].reply.code = "ok" /\ d.kind \in Journey => g[d].reply.state = shared'
  BY <1>4, <1>7
<1> HIDE DEF g
<1>9. QED
  BY <1>1, <1>2, <1>5, <1>6, <1>8, CallsChange

(* Every exchange is rejected. *)
LEMMA RejectedTurn ==
    ASSUME NEW u, NEW s \in Snapshot, Turn(u, "none", s),
           NEW k \in {"disconnected", "unavailable"},
           NEW v, v = [Rejected(u) EXCEPT !.connection = k]
    PROVE  Turn(v, "none", s) /\ v.shown = u.shown
<1> DEFINE lost == [code |-> "lost", state |-> None]
           g == [c \in u.calls |-> [c EXCEPT !.reply = lost]]
           t == [u EXCEPT !.calls = {g[c] : c \in u.calls}]
<1>1. u \in PageState /\ u.calls \subseteq Exchanges
  BY DEF Turn, PageState
<1>2. lost \in [code : Code, state : {None} \cup Snapshot] /\ lost.code # "ok"
  BY DEF Code
<1>3. ASSUME NEW c \in u.calls
      PROVE  /\ g[c] \in Exchanges /\ g[c].kind = c.kind /\ g[c].waits = c.waits
             /\ g[c].fresh = c.fresh /\ g[c].reply = lost
  BY <1>1, <1>2 DEF Exchanges
<1>4. v = [t EXCEPT !.available = FALSE, !.connection = k]
  BY <1>1 DEF Rejected, PageState
<1>5. g \in [u.calls -> Exchanges]
  BY <1>3
<1> HIDE DEF g, lost
<1>6. t = [u EXCEPT !.calls = {g[c] : c \in u.calls}]
  OBVIOUS
<1> HIDE DEF t
<1>7. Turn(t, "none", s) /\ t.shown = u.shown
  BY <1>2, <1>3, <1>5, <1>6, CallsChange
<1>8. t \in PageState
  BY <1>7 DEF Turn
<1>9. /\ v \in PageState /\ v.calls = t.calls
      /\ v.identity = t.identity /\ v.view = t.view /\ v.shown = t.shown
      /\ v.available = FALSE /\ v.pendingPoll = t.pendingPoll
      /\ v.identityPoll = t.identityPoll /\ v.pollBusy = t.pollBusy
      /\ v.loginBusy = t.loginBusy
  BY <1>4, <1>8 DEF PageState
<1>10. mode # "fixture" /\ t.identity # "authenticated" =>
          v.view = None /\ ~v.available /\ ~v.pendingPoll
  BY <1>7, <1>9 DEF Turn, IdentityOK
<1>11. QED
  BY <1>7, <1>9, <1>10, FlagsTurn


-----------------------------------------------------------------------------
(* The steps. *)

(* What is left of the invariant besides the page. *)
LEMMA StepKeeps ==
    ASSUME PageInv, UNCHANGED mode, SharedOK', wire' \in BOOLEAN, mode # "fixture" => wire',
           cookie' \in 1..MaxSessions, Turn(ui', "none", shared')
    PROVE  PageInv'
BY DEF PageInv, Turn, BusyOK, LoginAlone, IdentityOK, NewestOK

LEMMA ServeSteps ==
    ASSUME PageInv, NEW c \in ui.calls, Serve(c)
    PROVE  /\ \E code \in Code : Answer(c, code)
           /\ UNCHANGED shared \/ SharedNext
           /\ UNCHANGED <<mode, wire>> /\ cookie' \in 1..MaxSessions
<1> USE DEF Code, browser
<1>0. cookie \in 1..MaxSessions /\ MaxSessions \in Nat
  BY UIAssumption DEF PageInv
<1>1. CASE ServeStatus(c) \/ Refuse(c) \/ ServeSession(c) \/ Unauthorized(c)
  BY <1>0, <1>1 DEF ServeStatus, Refuse, ServeSession, Unauthorized
<1>2. CASE ServeStart(c)
  BY <1>0, <1>2 DEF ServeStart, SharedNext
<1>3. CASE ServeNext(c)
  <2>1. \/ Advance /\ Answer(c, "ok")
        \/ UNCHANGED shared /\ Answer(c, "refused")
        \/ UNCHANGED shared /\ Answer(c, "stale")
    BY <1>3 DEF ServeNext
  <2>2. UNCHANGED browser
    BY <1>3 DEF ServeNext
  <2>3. QED
    BY <1>0, <2>1, <2>2 DEF SharedNext
<1>4. CASE ServeReset(c)
  BY <1>0, <1>4 DEF ServeReset, SharedNext
<1>5. CASE ServeLogin(c)
  <2>1. cookie' = cookie \/ (cookie < MaxSessions /\ cookie' = cookie + 1)
    BY <1>5 DEF ServeLogin
  <2>2. cookie' \in 1..MaxSessions
    BY <1>0, <2>1
  <2>3. QED
    BY <1>5, <2>2 DEF ServeLogin
<1>6. CASE ServeLogout(c)
  BY <1>0, <1>6 DEF ServeLogout
<1>7. QED
  BY <1>1, <1>2, <1>3, <1>4, <1>5, <1>6 DEF Serve

LEMMA ExchangeSteps ==
    ASSUME PageInv, NEW c \in ui.calls, Serve(c) \/ Fail(c) \/ Handle(c)
    PROVE  PageInv' /\ AtLeast(ui'.shown, ui.shown)
<1>1. AtLeast(ui.shown, ui.shown) /\ AtLeast(shared, shared) /\ wire \in BOOLEAN
  BY ShownItself, AtLeastItself DEF PageInv, SharedOK
<1>2. CASE Serve(c)
  <2>1. PICK code \in Code : Answer(c, code)
    BY <1>2, ServeSteps
  <2>2. SharedOK' /\ AtLeast(shared', shared) /\ UNCHANGED <<mode, wire>> /\ cookie' \in 1..MaxSessions
    BY <1>1, <1>2, ServeSteps, SharedMoves DEF PageInv, SharedOK
  <2>3. Turn(ui', "none", shared') /\ ui'.shown = ui.shown
    BY <2>1, <2>2, AnswerTurn
  <2>4. QED
    BY <1>1, <2>2, <2>3, StepKeeps DEF PageInv
<1>3. CASE Fail(c)
  <2>1. PICK code \in Code : Answer(c, code)
    BY <1>3 DEF Fail, Code
  <2>2. UNCHANGED <<shared, mode, cookie, wire>>
    BY <1>3 DEF Fail
  <2>3. SharedOK' /\ AtLeast(shared', shared) /\ cookie' \in 1..MaxSessions
    BY <1>1, <2>2 DEF PageInv, SharedOK
  <2>4. Turn(ui', "none", shared') /\ ui'.shown = ui.shown
    BY <2>1, <2>3, AnswerTurn
  <2>5. QED
    BY <1>1, <2>2, <2>3, <2>4, StepKeeps DEF PageInv
<1>4. CASE Handle(c)
  <2>1. UNCHANGED <<shared, mode, cookie, wire>>
    BY <1>4 DEF Handle, browser
  <2>2. Turn(ui', "none", shared') /\ AtLeast(ui'.shown, ui.shown)
    BY <1>4, <2>1, HandleTurn
  <2>3. SharedOK' /\ wire' \in BOOLEAN /\ cookie' \in 1..MaxSessions /\ (mode # "fixture" => wire')
    BY <2>1 DEF PageInv, SharedOK
  <2>4. QED
    BY <2>1, <2>2, <2>3, StepKeeps
<1>5. QED
  BY <1>2, <1>3, <1>4

(* The page's timers, and what its user does: the run stays as it is. *)
LEMMA TurnKeeps ==
    ASSUME PageInv, UNCHANGED <<shared, mode, wire>>, cookie' \in 1..MaxSessions,
           Turn(ui', "none", shared), ui'.shown = ui.shown
    PROVE  PageInv' /\ AtLeast(ui'.shown, ui.shown)
<1>1. AtLeast(ui.shown, ui.shown)
  BY ShownItself DEF PageInv
<1>2. SharedOK' /\ wire' \in BOOLEAN /\ (mode # "fixture" => wire') /\ Turn(ui', "none", shared')
  BY DEF PageInv, SharedOK
<1>3. QED
  BY <1>1, <1>2, StepKeeps

LEMMA Surroundings ==
    ASSUME PageInv
    PROVE  /\ shared \in Snapshot /\ wire \in BOOLEAN /\ cookie \in 0..MaxSessions
           /\ ui \in PageState /\ Turn(ui, "none", shared) /\ ui.shown \in Snapshot
           /\ AtLeast(shared, ui.shown) /\ MaxSessions \in Nat /\ 0 \in 0..MaxRuns
BY UIAssumption, SharedAssumption DEF PageInv, SharedOK, Turn, NewestOK, PageState

LEMMA TimerSteps ==
    ASSUME PageInv, identityPoll \/ pendingPoll
    PROVE  PageInv' /\ AtLeast(ui'.shown, ui.shown)
<1>1. UNCHANGED <<shared, mode, wire>> /\ cookie' \in 1..MaxSessions
  BY DEF identityPoll, pendingPoll, browser, PageInv
<1>2. CASE identityPoll
  <2>1. Turn(ui', "none", shared) /\ ui'.shown = ui.shown
    BY <1>2, Surroundings, PollTurn DEF identityPoll
  <2>2. QED
    BY <1>1, <2>1, TurnKeeps
<1>3. CASE pendingPoll
  <2> DEFINE v == [ui EXCEPT !.pendingPoll = FALSE]
  <2>1. /\ v \in PageState /\ v.calls = ui.calls
        /\ v.identity = ui.identity /\ v.view = ui.view /\ v.shown = ui.shown
        /\ v.available = ui.available /\ v.pendingPoll = FALSE
        /\ v.identityPoll = ui.identityPoll /\ v.pollBusy = ui.pollBusy
        /\ v.loginBusy = ui.loginBusy
    BY Surroundings DEF PageState
  <2>2. ui' = syncStatus(v, "page")
    BY <1>3 DEF pendingPoll
  <2> HIDE DEF v
  <2>3. mode # "fixture" /\ ui.identity # "authenticated" =>
           v.view = None /\ ~v.available /\ ~v.pendingPoll
    BY <2>1, Surroundings DEF Turn, IdentityOK
  <2>4. Turn(v, "none", shared)
    BY <2>1, <2>3, Surroundings, FlagsTurn
  <2>5. Turn(v, "page", shared)
    BY <2>4, QuietEnd
  <2>6. Turn(ui', "none", shared) /\ ui'.shown = ui.shown
    BY <2>1, <2>2, <2>5, Surroundings, SyncTurn
  <2>7. QED
    BY <1>1, <2>6, TurnKeeps
<1>4. QED
  BY <1>2, <1>3

LEMMA WireSteps ==
    ASSUME PageInv, Disconnect \/ ConnectFails \/ Reconnect
    PROVE  PageInv' /\ AtLeast(ui'.shown, ui.shown)
<1>1. AtLeast(ui.shown, ui.shown)
  BY Surroundings, ShownItself
<1>2. UNCHANGED <<shared, mode, cookie>> /\ mode = "fixture" /\ wire' \in BOOLEAN
  BY DEF Disconnect, ConnectFails, Reconnect, browser, PageInv
<1>3. Turn(ui', "none", shared) /\ ui'.shown = ui.shown
  <2>1. CASE Disconnect \/ ConnectFails
    <3>1. PICK k \in {"disconnected", "unavailable"} : ui' = [Rejected(ui) EXCEPT !.connection = k]
      BY <2>1 DEF Disconnect, ConnectFails
    <3>2. QED
      BY <3>1, Surroundings, RejectedTurn
  <2>2. CASE Reconnect
    <3> DEFINE t == Stale(ui)
               c == Exchange("status", "page", 0)
               v == [t EXCEPT !.connection = "connected", !.calls = t.calls \cup {c}]
    <3>1. ui' = v
      BY <2>2 DEF Reconnect
    <3>2. /\ Turn(t, "none", shared) /\ t.shown = ui.shown
          /\ \A d \in t.calls : d.kind \in Journey => ~d.fresh
      BY Surroundings, StaleTurn
    <3>3. /\ c \in Exchanges /\ c.kind = "status" /\ c.waits = "page" /\ c.reply = None
          /\ CallOK(c, shared)
      BY Surroundings DEF Exchange, Exchanges, Waits, CallOK, Commands, Journey
    <3> HIDE DEF t, c
    <3>4. t \in PageState
      BY <3>2 DEF Turn
    <3>5. /\ v \in PageState /\ v.calls = t.calls \cup {c}
          /\ v.identity = t.identity /\ v.view = t.view /\ v.shown = t.shown
          /\ v.available = t.available /\ v.pendingPoll = t.pendingPoll
          /\ v.identityPoll = t.identityPoll /\ v.pollBusy = t.pollBusy
          /\ v.loginBusy = t.loginBusy
      BY <3>3, <3>4 DEF PageState
    <3> HIDE DEF v
    <3>6. MaySend(t, c, shared)
      BY <1>2, <3>2, <3>3 DEF MaySend
    <3>7. Turn(t, c.waits, shared)
      BY <3>2, <3>3, QuietEnd
    <3>8. QED
      BY <3>1, <3>2, <3>5, <3>6, <3>7, Surroundings, AddTurn
  <2>3. QED
    BY <2>1, <2>2
<1>4. SharedOK' /\ cookie' \in 1..MaxSessions /\ Turn(ui', "none", shared')
  BY <1>2, <1>3 DEF PageInv, SharedOK
<1>5. QED
  BY <1>1, <1>2, <1>3, <1>4, StepKeeps

LEMMA OutsideSteps ==
    ASSUME PageInv, EndSession \/ Others
    PROVE  PageInv' /\ AtLeast(ui'.shown, ui.shown)
<1>1. AtLeast(ui.shown, ui.shown) /\ AtLeast(shared, shared)
  BY Surroundings, ShownItself, AtLeastItself
<1>2. UNCHANGED <<mode, cookie, wire, ui>> /\ (UNCHANGED shared \/ SharedNext)
  BY DEF EndSession, Others, browser
<1>3. SharedOK' /\ AtLeast(shared', shared)
  BY <1>1, <1>2, SharedMoves DEF PageInv, SharedOK
<1>4. Turn(ui, "none", shared')
  BY <1>3, Surroundings, TurnLater DEF SharedOK
<1>5. wire' \in BOOLEAN /\ (mode # "fixture" => wire') /\ cookie' \in 1..MaxSessions
  BY <1>2 DEF PageInv
<1>6. Turn(ui', "none", shared')
  BY <1>2, <1>4
<1>7. QED
  BY <1>1, <1>2, <1>3, <1>5, <1>6, StepKeeps


LEMMA PressTurn ==
    ASSUME PageInv, NEW kind \in Commands, Press(kind)
    PROVE  Turn(ui', "none", shared) /\ ui'.shown = ui.shown
<1> DEFINE t == Stale(ui)
           v == [t EXCEPT !.loading = TRUE]
           c == Exchange(kind, "dispatch", IF Started(ui) THEN ui.view.id ELSE 0)
<1>1. ui' = Send(v, c) /\ (ui.identity = "authenticated" \/ ui.identity = "fixture")
  BY DEF Press, canOperate
<1>2. /\ c \in Exchanges /\ c.kind = kind /\ c.waits = "dispatch" /\ c.reply = None
      /\ CallOK(c, shared)
  <2>1. (IF Started(ui) THEN ui.view.id ELSE 0) \in 0..MaxRuns
    BY Surroundings DEF Started, PageState, Snapshot
  <2>2. c.run \in 0..MaxRuns
    BY <2>1 DEF Exchange
  <2>3. c \in Exchanges /\ c.kind = kind /\ c.waits = "dispatch" /\ c.reply = None
    BY <2>1, Surroundings DEF Exchange, Exchanges, Waits, Journey
  <2>4. QED
    BY <2>3 DEF CallOK, Commands
<1>3. /\ Turn(t, "none", shared) /\ t.shown = ui.shown /\ t.identity = ui.identity
      /\ \A d \in t.calls : d.kind \in Journey => ~d.fresh
  BY Surroundings, StaleTurn
<1> HIDE DEF t, c
<1>4. t \in PageState
  BY <1>3 DEF Turn
<1>5. /\ v \in PageState /\ v.calls = t.calls
      /\ v.identity = t.identity /\ v.view = t.view /\ v.shown = t.shown
      /\ v.available = t.available /\ v.pendingPoll = t.pendingPoll
      /\ v.identityPoll = t.identityPoll /\ v.pollBusy = t.pollBusy
      /\ v.loginBusy = t.loginBusy
  BY <1>4 DEF PageState
<1> HIDE DEF v
<1>6. mode # "fixture" /\ t.identity # "authenticated" =>
         v.view = None /\ ~v.available /\ ~v.pendingPoll
  BY <1>3, <1>5 DEF Turn, IdentityOK
<1>7. Turn(v, "none", shared)
  BY <1>3, <1>5, <1>6, Surroundings, FlagsTurn
<1>8. Turn(v, c.waits, shared)
  BY <1>2, <1>7, QuietEnd
<1>9. mode # "fixture" => ui.identity = "authenticated"
  BY <1>1, Surroundings DEF Turn, IdentityOK
<1>10. MaySend(v, c, shared)
  BY <1>2, <1>3, <1>5, <1>9 DEF MaySend, Commands
<1>11. QED
  BY <1>1, <1>3, <1>5, <1>8, <1>10, Surroundings, SendTurn

LEMMA RetryTurn ==
    ASSUME PageInv, retryFlow
    PROVE  Turn(ui', "none", shared) /\ ui'.shown = ui.shown
<1>1. CASE wire
  <2>1. ui' = syncStatus(ui, "page")
    BY <1>1 DEF retryFlow
  <2>2. Turn(ui, "page", shared)
    BY Surroundings, QuietEnd
  <2>3. QED
    BY <2>1, <2>2, Surroundings, SyncTurn
<1>2. CASE ~wire
  <2> DEFINE v == [ui EXCEPT !.connection = "connecting"]
  <2>1. ui' = v
    BY <1>2 DEF retryFlow
  <2>2. /\ v \in PageState /\ v.calls = ui.calls
        /\ v.identity = ui.identity /\ v.view = ui.view /\ v.shown = ui.shown
        /\ v.available = ui.available /\ v.pendingPoll = ui.pendingPoll
        /\ v.identityPoll = ui.identityPoll /\ v.pollBusy = ui.pollBusy
        /\ v.loginBusy = ui.loginBusy
    BY Surroundings DEF PageState
  <2> HIDE DEF v
  <2>3. mode # "fixture" /\ ui.identity # "authenticated" =>
           v.view = None /\ ~v.available /\ ~v.pendingPoll
    BY <2>2, Surroundings DEF Turn, IdentityOK
  <2>4. QED
    BY <2>1, <2>2, <2>3, Surroundings, FlagsTurn
<1>3. QED
  BY <1>1, <1>2

LEMMA SubmitTurn ==
    ASSUME PageInv, submitPasswordLogin
    PROVE  Turn(ui', "none", shared) /\ ui'.shown = ui.shown
<1> DEFINE t == IdStale(ui)
           v == [t EXCEPT !.loginBusy = TRUE]
           c == Exchange("login", "login", 0)
<1>1. ui' = Send(v, c) /\ mode # "fixture" /\ ~ui.loginBusy
  BY DEF submitPasswordLogin
<1>2. /\ c \in Exchanges /\ c.kind = "login" /\ c.waits = "login" /\ c.reply = None
      /\ CallOK(c, shared)
  BY Surroundings DEF Exchange, Exchanges, Waits, CallOK, Commands, Journey
<1>3. /\ Turn(t, "none", shared) /\ t.shown = ui.shown
      /\ t.identity = ui.identity /\ t.identityPoll = ui.identityPoll
      /\ t.pollBusy = ui.pollBusy /\ t.loginBusy = ui.loginBusy
      /\ \A d \in t.calls : d.kind \notin Journey => ~d.fresh
  BY Surroundings, IdStaleTurn
<1> HIDE DEF t, c
<1>4. t \in PageState
  BY <1>3 DEF Turn
<1>5. /\ v \in PageState /\ v.calls = t.calls
      /\ v.identity = t.identity /\ v.view = t.view /\ v.shown = t.shown
      /\ v.available = t.available /\ v.pendingPoll = t.pendingPoll
      /\ v.identityPoll = t.identityPoll /\ v.pollBusy = t.pollBusy
      /\ v.loginBusy = TRUE
  BY <1>4 DEF PageState
<1> HIDE DEF v
<1>6. \A d \in t.calls : d.waits # "login" /\ d.kind # "login"
  BY <1>1, <1>3 DEF Turn, BusyOK, CallOK
<1>7. Turn(v, "login", shared)
  <2>1. (\A d \in v.calls : CallOK(d, shared)) /\ NewestOK(v, shared)
    BY <1>3, <1>5 DEF Turn, NewestOK
  <2>2. BusyOK(v, "login")
    BY <1>3, <1>5, <1>6 DEF Turn, BusyOK
  <2>3. LoginAlone(v) /\ IdentityOK(v)
    BY <1>3, <1>5, <1>6 DEF Turn, LoginAlone, IdentityOK
  <2>4. QED
    BY <1>5, <2>1, <2>2, <2>3 DEF Turn
<1>8. v.identity # "ended" => v.identityPoll \/ v.pollBusy
  BY <1>1, <1>3, <1>5, Surroundings DEF Turn, IdentityOK
<1>9. \A d \in v.calls : d.kind = "session" => ~d.fresh
  BY <1>3, <1>5 DEF Journey, Commands
<1>10. MaySend(v, c, shared)
  BY <1>2, <1>8, <1>9 DEF MaySend, Journey, Commands
<1>11. QED
  BY <1>1, <1>2, <1>3, <1>5, <1>7, <1>10, Surroundings, SendTurn

LEMMA LogoutSent ==
    ASSUME PageInv, logout
    PROVE  Turn(ui', "none", shared) /\ ui'.shown = ui.shown
<1> DEFINE t == IdStale(ui)
           c == Exchange("logout", "logout", 0)
<1>1. ui' = Send(t, c)
  BY DEF logout
<1>2. /\ c \in Exchanges /\ c.kind = "logout" /\ c.waits = "logout" /\ c.reply = None
      /\ CallOK(c, shared)
  BY Surroundings DEF Exchange, Exchanges, Waits, CallOK, Commands, Journey
<1>3. Turn(t, "none", shared) /\ t.shown = ui.shown
  BY Surroundings, IdStaleTurn
<1> HIDE DEF t, c
<1>4. MaySend(t, c, shared)
  BY <1>2 DEF MaySend, Journey, Commands
<1>5. Turn(t, c.waits, shared)
  BY <1>2, <1>3, QuietEnd
<1>6. QED
  BY <1>1, <1>3, <1>4, <1>5, Surroundings, SendTurn

LEMMA UserSteps ==
    ASSUME PageInv, User
    PROVE  PageInv' /\ AtLeast(ui'.shown, ui.shown)
<1>0. UNCHANGED <<shared, mode, wire>>
  BY DEF User, Press, retryFlow, submitPasswordLogin, logout, LoginRedirect, LogoutRedirect,
         Reload, Click
<1>1. cookie \in 1..MaxSessions
  BY DEF PageInv
<1>2. ASSUME NEW kind \in Commands, Press(kind) PROVE PageInv' /\ AtLeast(ui'.shown, ui.shown)
  BY <1>0, <1>1, <1>2, PressTurn, TurnKeeps DEF Press
<1>3. CASE retryFlow
  BY <1>0, <1>1, <1>3, RetryTurn, TurnKeeps DEF retryFlow
<1>4. CASE submitPasswordLogin
  BY <1>0, <1>1, <1>4, SubmitTurn, TurnKeeps DEF submitPasswordLogin
<1>5. CASE logout
  BY <1>0, <1>1, <1>5, LogoutSent, TurnKeeps DEF logout
<1>6. CASE LoginRedirect
  <2>1. cookie + 1 \in 1..MaxSessions /\ cookie + 1 \in 0..MaxSessions /\ cookie' = cookie + 1
    BY <1>1, <1>6, Surroundings DEF LoginRedirect
  <2>2. Turn(ui', "none", shared) /\ ui'.shown = ui.shown
    BY <1>6, <2>1, Surroundings, OpenedTurn DEF LoginRedirect
  <2>3. QED
    BY <1>0, <2>1, <2>2, TurnKeeps
<1>7. CASE LogoutRedirect \/ Reload
  <2>1. ui' = Opened(cookie, ui.shown) /\ cookie' \in 1..MaxSessions
    BY <1>1, <1>7 DEF LogoutRedirect, Reload
  <2>2. Turn(ui', "none", shared) /\ ui'.shown = ui.shown
    BY <2>1, Surroundings, OpenedTurn
  <2>3. QED
    BY <1>0, <2>1, <2>2, TurnKeeps
<1>8. QED
  BY <1>2, <1>3, <1>4, <1>5, <1>6, <1>7 DEF User

LEMMA PageStarts == Init => PageInv
<1> SUFFICES ASSUME Init PROVE PageInv
  OBVIOUS
<1>1. SharedOK
  BY SharedStarts DEF Init
<1>2. mode \in {"redirect", "password", "fixture"} /\ wire = TRUE
  BY UIAssumption DEF Init
<1>3. cookie \in 1..MaxSessions /\ cookie \in 0..MaxSessions /\ 1 \in 0..MaxSessions
  BY UIAssumption DEF Init
<1>4. Turn(Opened(1, shared), "none", shared)
  BY <1>1, <1>2, <1>3, AtLeastItself, OpenedTurn DEF SharedOK
<1>5. QED
  BY <1>1, <1>2, <1>3, <1>4 DEF Init, PageInv

LEMMA PageSteps ==
    ASSUME PageInv, [Next]_vars
    PROVE  PageInv' /\ AtLeast(ui'.shown, ui.shown)
<1>1. ASSUME NEW c \in ui.calls, Step(c) \/ Fail(c) PROVE PageInv' /\ AtLeast(ui'.shown, ui.shown)
  BY <1>1, ExchangeSteps DEF Step
<1>2. CASE identityPoll \/ pendingPoll
  BY <1>2, TimerSteps
<1>3. CASE Disconnect \/ ConnectFails \/ Reconnect
  BY <1>3, WireSteps
<1>4. CASE EndSession \/ Others
  BY <1>4, OutsideSteps
<1>5. CASE User
  BY <1>5, UserSteps
<1>6. CASE UNCHANGED vars
  <2>1. UNCHANGED <<shared, mode, ui, wire, cookie>>
    BY <1>6 DEF vars
  <2>2. cookie' \in 1..MaxSessions /\ Turn(ui', "none", shared) /\ ui'.shown = ui.shown
    BY <2>1, Surroundings DEF PageInv
  <2>3. QED
    BY <2>1, <2>2, TurnKeeps
<1>7. QED
  BY <1>1, <1>2, <1>3, <1>4, <1>5, <1>6 DEF Next


-----------------------------------------------------------------------------
(* In whatever order exchanges are answered and their answers handled, the *)
(* page has one exchange about the run that it will still believe, one     *)
(* poll and one login at most, and is owed no answer from the future.      *)
THEOREM PageInvariance == Spec => []PageInv
<1>1. PageInv /\ [Next]_vars => PageInv'
  BY PageSteps
<1>2. QED
  BY <1>1, PageStarts, PTL DEF Spec

(* The page's flags agree with its exchanges, and neither a poll, nor a    *)
(* login, nor the end of a session that cross each other leave a page that *)
(* is logged in, or may become so, without a poll due or under way.        *)
THEOREM PollingSurvives == Spec => []PageOK
<1>1. PageInv => PageOK
  <2> SUFFICES ASSUME PageInv PROVE PageOK
    OBVIOUS
  <2>1. ui \in PageState /\ BusyOK(ui, "none") /\ IdentityOK(ui)
    BY DEF PageInv, Turn
  <2>2. ui.pollBusy \in BOOLEAN /\ ui.loginBusy \in BOOLEAN
    BY <2>1 DEF PageState
  <2>3. /\ ui.pollBusy <=> \E c \in ui.calls : c.waits = "poll"
        /\ ui.loginBusy <=> \E c \in ui.calls : c.waits = "login"
    BY <2>1 DEF BusyOK
  <2>4. QED
    BY <2>1, <2>2, <2>3, Zenon DEF IdentityOK, PageOK
<1>2. QED
  BY <1>1, PageInvariance, PTL

(* Whatever is still on its way when a session ends, the page shows        *)
(* nothing of the run, and reads nothing of it, until the next login.      *)
THEOREM NothingAfterTheEnd == Spec => []EndedShowsNothing
<1>1. PageInv => EndedShowsNothing
  BY DEF PageInv, Turn, IdentityOK, EndedShowsNothing
<1>2. QED
  BY <1>1, PageInvariance, PTL

(* No answer, however late, and no new login bring back a state of the run *)
(* older than one the page has shown.                                      *)
THEOREM ViewOnlyForward == Spec => ViewNeverGoesBack
<1>1. PageInv /\ [Next]_vars => [AtLeast(ui'.shown, ui.shown)]_vars
  BY PageSteps
<1>2. QED
  BY <1>1, PageInvariance, PTL DEF Spec, ViewNeverGoesBack
=============================================================================
