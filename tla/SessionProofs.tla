---------------------------- MODULE SessionProofs ----------------------------
(***************************************************************************)
(* Proofs about SessionBoundary, for any browsers, logins, requests,       *)
(* Keycloak sessions and roles, and any limits: what a session, its        *)
(* tokens, its refresh and the requests that hold it are to each other at  *)
(* every turn of the event loop.                                           *)
(***************************************************************************)
EXTENDS SessionBoundary, SequenceTheorems, TLAPS

-----------------------------------------------------------------------------
(* The inductive invariant. *)

(* A session is made once, and has the role of its token.  A refresh that  *)
(* was granted has made the newest token, one later than a live session's; *)
(* otherwise a live session holds the newest, which was never presented.   *)
SessionOK(k) ==
    LET s == sessions[k]
        f == refreshes[k]
        n == Len(grants[k])
    IN  /\ s = None => f.st = "none" /\ used[k] = {}
        /\ s # None => callbacks[k].st = "done" /\ s.tok <= n /\ s.role = grants[k][s.tok]
        /\ \A v \in used[k] : v <= n
        /\ f.st = "sent" => f.tok = s.tok /\ n < MaxVersions
        /\ f.st \in {"granted", "keys"} => f.tok = n /\ n \in Version /\ n \notin used[k]
        /\ k \in Live /\ f.st \in {"none", "sent"} => s.tok = n /\ n \notin used[k]
        /\ k \in Live /\ f.st \in {"granted", "keys"} => s.tok + 1 = n

(* A callback has used its transaction up, and has one token before it is  *)
(* done.                                                                   *)
CallbackOK(c) ==
    /\ callbacks[c].st # "unused" => callbacks[c].tx \in Tx /\ tx[callbacks[c].tx] = "gone"
    /\ callbacks[c].st \in {"granted", "keys"} => callbacks[c].sso \in Sso /\ Len(grants[c]) = 1

OneLogin(c, d) ==
    callbacks[c].st # "unused" /\ callbacks[d].st # "unused" /\ callbacks[c].tx = callbacks[d].tx
        => c = d

(* A request holds a session; while it checks a token, this is the one the *)
(* session has: a refresh settles after the checks.                        *)
RequestOK(r) ==
    /\ requests[r].st \in {"keys", "refresh", "held"} =>
          requests[r].key \in Callback /\ sessions[requests[r].key] # None
    /\ requests[r].st = "keys" => requests[r].tok = sessions[requests[r].key].tok

Orphan(k) == k \in Live /\ sessions[k].sso \in notified =>
                sessions[k].tok = 1 /\ Len(grants[k]) = 1

SessionInv ==
    /\ TypeOK
    /\ \A k \in Callback : SessionOK(k)
    /\ \A c \in Callback : CallbackOK(c)
    /\ \A c, d \in Callback : OneLogin(c, d)
    /\ \A r \in Request : RequestOK(r)
    /\ NoSessionAcrossReset
    /\ \A k \in Callback : Orphan(k)

-----------------------------------------------------------------------------
(* Steps that leave the sessions what they are, or end some. *)

Held(k) ==
    /\ sessions'[k] = None <=> sessions[k] = None
    /\ sessions[k] # None =>
          /\ sessions'[k].sso = sessions[k].sso /\ sessions'[k].tok = sessions[k].tok
          /\ sessions'[k].role = sessions[k].role /\ sessions'[k].gen = sessions[k].gen

Fade ==
    /\ \A k \in Callback : Held(k)
    /\ Live' \subseteq Live
    /\ sessions' \in [Callback -> Session \cup {None}]

LEMMA LiveSession ==
    ASSUME TypeOK, NEW k \in Live
    PROVE  k \in Callback /\ sessions[k] # None /\ sessions[k] \in Session
  BY DEF TypeOK, Live

LEMMA UnchangedFades ==
    ASSUME TypeOK, sessions' = sessions
    PROVE  Fade
  BY DEF Fade, Held, Live, TypeOK

LEMMA SessionEnded ==
    ASSUME NEW s \in Session
    PROVE  LET e == [s EXCEPT !.live = FALSE]
           IN  /\ e \in Session /\ e # None /\ ~e.live
               /\ e.sso = s.sso /\ e.tok = s.tok /\ e.role = s.role /\ e.gen = s.gen
<1> DEFINE e == [s EXCEPT !.live = FALSE]
<1>1. /\ e \in Session /\ e.live = FALSE
      /\ e.sso = s.sso /\ e.tok = s.tok /\ e.role = s.role /\ e.gen = s.gen
  BY DEF Session
<1>2. e # None
  BY <1>1, BoundaryAssumption
<1>3. QED
  BY <1>1, <1>2

LEMMA DeletedFades ==
    ASSUME TypeOK, NEW gone, sessions' = Deleted(gone)
    PROVE  Fade /\ Live' \cap gone = {}
<1>1. ASSUME NEW k \in Callback, k \in gone \cap Live
      PROVE  sessions'[k] \in Session /\ sessions'[k] # None /\ Held(k) /\ k \notin Live'
  <2>1. sessions[k] \in Session /\ sessions[k] # None
    BY <1>1, LiveSession
  <2>2. sessions'[k] = [sessions[k] EXCEPT !.live = FALSE]
    BY <1>1 DEF Deleted
  <2>3. QED
    BY <2>1, <2>2, SessionEnded DEF Held, Live
<1>2. ASSUME NEW k \in Callback, k \notin gone \cap Live
      PROVE  sessions'[k] = sessions[k]
  BY <1>2 DEF Deleted
<1>3. ASSUME NEW k \in Callback PROVE sessions'[k] \in Session \cup {None} /\ Held(k)
  BY <1>1, <1>2 DEF Held, TypeOK
<1>4. ASSUME NEW k \in Live' PROVE k \in Live /\ k \notin gone
  <2>1. k \in Callback /\ k \notin gone \cap Live
    BY <1>1 DEF Live
  <2>2. QED
    BY <1>2, <2>1 DEF Live
<1>5. sessions' \in [Callback -> Session \cup {None}]
  BY <1>3 DEF Deleted
<1>6. QED
  BY <1>3, <1>4, <1>5 DEF Fade

LEMMA SessionsKept ==
    ASSUME SessionInv, Fade, NEW k \in Callback,
           refreshes'[k] = refreshes[k], grants'[k] = grants[k], used'[k] = used[k],
           callbacks[k].st = "done" => callbacks'[k].st = "done"
    PROVE  SessionOK(k)'
<1>1. SessionOK(k) /\ Held(k) /\ (k \in Live' => k \in Live)
  BY DEF SessionInv, Fade
<1>2. sessions'[k] = None <=> sessions[k] = None
  BY <1>1 DEF Held
<1>3. CASE sessions[k] = None
  <2>1. k \notin Live /\ k \notin Live' /\ refreshes[k].st = "none"
    BY <1>1, <1>3 DEF SessionOK, Live
  <2>2. QED
    BY <1>1, <1>2, <1>3, <2>1 DEF SessionOK
<1>4. CASE sessions[k] # None
  <2>1. sessions'[k].tok = sessions[k].tok /\ sessions'[k].role = sessions[k].role
    BY <1>1, <1>4 DEF Held
  <2>2. QED
    BY <1>1, <1>2, <1>4, <2>1 DEF SessionOK
<1>5. QED
  BY <1>3, <1>4

LEMMA CallbacksKept ==
    ASSUME SessionInv, NEW c \in Callback, callbacks'[c] = callbacks[c], grants'[c] = grants[c],
           \A t \in Tx : tx[t] = "gone" => tx'[t] = "gone"
    PROVE  CallbackOK(c)'
  BY DEF SessionInv, CallbackOK

LEMMA LoginsKept ==
    ASSUME SessionInv,
           \A c \in Callback : callbacks'[c].tx = callbacks[c].tx
                                  /\ (callbacks'[c].st # "unused" => callbacks[c].st # "unused")
    PROVE  \A c, d \in Callback : OneLogin(c, d)'
  BY DEF SessionInv, OneLogin

LEMMA RequestsKept ==
    ASSUME SessionInv, Fade, NEW r \in Request,
           requests'[r] = requests[r] \/ requests'[r].st \notin {"keys", "refresh", "held"}
    PROVE  RequestOK(r)'
<1>1. RequestOK(r)
  BY DEF SessionInv
<1>2. CASE requests'[r].st \notin {"keys", "refresh", "held"}
  BY <1>2 DEF RequestOK
<1>3. CASE requests'[r] = requests[r] /\ requests[r].st \in {"keys", "refresh", "held"}
  <2>1. requests[r].key \in Callback /\ sessions[requests[r].key] # None
    BY <1>1, <1>3 DEF RequestOK
  <2>2. Held(requests[r].key)
    BY <2>1 DEF Fade
  <2>3. QED
    BY <1>1, <1>3, <2>1, <2>2 DEF RequestOK, Held
<1>4. QED
  BY <1>2, <1>3

LEMMA LiveKept ==
    ASSUME SessionInv, Fade, generation' = generation, notified' = notified,
           \A k \in Live' : Len(grants'[k]) = Len(grants[k])
    PROVE  NoSessionAcrossReset' /\ \A k \in Callback : Orphan(k)'
<1>1. ASSUME NEW k \in Live'
      PROVE  /\ k \in Callback /\ k \in Live /\ sessions'[k].gen = sessions[k].gen
             /\ sessions'[k].sso = sessions[k].sso /\ sessions'[k].tok = sessions[k].tok
  <2>1. k \in Live /\ k \in Callback /\ sessions[k] # None
    BY DEF Fade, Live
  <2>2. QED
    BY <2>1 DEF Fade, Held
<1>2. NoSessionAcrossReset'
  BY <1>1 DEF SessionInv, NoSessionAcrossReset
<1>3. ASSUME NEW k \in Callback PROVE Orphan(k)'
  BY <1>1 DEF SessionInv, Orphan
<1>4. QED
  BY <1>2, <1>3

(* A step that disturbs the requests at most. *)
LEMMA QuietStep ==
    ASSUME SessionInv, TypeOK', Fade,
           UNCHANGED <<callbacks, refreshes, generation, grants, used, notified>>,
           \A t \in Tx : tx[t] = "gone" => tx'[t] = "gone",
           \A r \in Request : RequestOK(r)'
    PROVE  SessionInv'
<1>1. \A k \in Callback : SessionOK(k)'
  BY SessionsKept
<1>2. \A c \in Callback : CallbackOK(c)'
  BY CallbacksKept
<1>3. \A c, d \in Callback : OneLogin(c, d)'
  BY LoginsKept
<1>4. NoSessionAcrossReset' /\ \A k \in Callback : Orphan(k)'
  BY LiveKept
<1>5. QED
  BY <1>1, <1>2, <1>3, <1>4 DEF SessionInv

(* The records of requests in one of some states. *)
RequestOf(States) ==
    [st : States, key : Callback \cup {None}, tok : Version \cup {None},
     role : Role \cup {None}, logout : BOOLEAN]

LEMMA RequestTyped ==
    ASSUME TypeOK, NEW r \in Request
    PROVE  requests[r] \in RequestOf({"unused", "keys", "refresh", "held", "ok", "refused"})
BY DEF TypeOK, RequestOf

(* What a step that moves a request, or answers it, does to its record.    *)
LEMMA RequestMoved ==
    ASSUME NEW Old, NEW New, NEW q \in RequestOf(Old), NEW st \in New
    PROVE  /\ [q EXCEPT !.st = st] \in RequestOf(New)
           /\ [q EXCEPT !.st = st].st = st
           /\ [q EXCEPT !.st = st].key = q.key
BY DEF RequestOf

LEMMA RequestAnswered ==
    ASSUME NEW States, NEW q \in RequestOf(States), NEW x \in Role \cup {None}
    PROVE  /\ [q EXCEPT !.role = x] \in RequestOf(States)
           /\ [q EXCEPT !.role = x].role = x
           /\ [q EXCEPT !.role = x].st = q.st
BY DEF RequestOf

Answers == {"held", "ok", "refused"}

(* One that ends a request, or has it hold its session, and maybe ends     *)
(* that session.                                                           *)
LEMMA RequestEnds ==
    ASSUME SessionInv, over' \subseteq Callback, NEW r \in Request,
           NEW u \in RequestOf(Answers),
           u.st = "held" => requests[r].st \in {"keys", "refresh"} /\ u.key = requests[r].key,
           requests' = [requests EXCEPT ![r] = u], Fade,
           UNCHANGED <<tx, callbacks, refreshes, keys, generation, keycloakVars, notified>>
    PROVE  SessionInv'
<1>1. TypeOK'
  <2>1. requests' \in [Request ->
            RequestOf({"unused", "keys", "refresh", "held", "ok", "refused"})]
    <3>1. u \in RequestOf({"unused", "keys", "refresh", "held", "ok", "refused"})
      BY DEF RequestOf, Answers
    <3>2. \A q \in Request :
              requests[q] \in RequestOf({"unused", "keys", "refresh", "held", "ok", "refused"})
      BY RequestTyped DEF SessionInv
    <3>3. requests \in [Request ->
            RequestOf({"unused", "keys", "refresh", "held", "ok", "refused"})]
      BY DEF SessionInv, TypeOK, RequestOf
    <3>4. QED
      BY <3>1, <3>3
  <2>2. QED
    BY <2>1 DEF SessionInv, TypeOK, Fade, keycloakVars, RequestOf
<1>2. requests'[r] = u /\ \A q \in Request : q # r => requests'[q] = requests[q]
  BY DEF SessionInv, TypeOK
<1>3. RequestOK(r)'
  <2>1. CASE u.st = "held"
    <3>1. u.key \in Callback /\ sessions[u.key] # None
      BY <2>1 DEF SessionInv, RequestOK
    <3>2. sessions'[u.key] # None
      BY <3>1 DEF Fade, Held
    <3>3. QED
      BY <1>2, <2>1, <3>1, <3>2 DEF RequestOK
  <2>2. CASE u.st # "held"
    BY <1>2, <2>2 DEF RequestOK, RequestOf, Answers
  <2>3. QED
    BY <2>1, <2>2
<1>4. \A q \in Request : RequestOK(q)'
  BY <1>2, <1>3, RequestsKept
<1>5. QED
  BY <1>1, <1>4, QuietStep DEF keycloakVars

-----------------------------------------------------------------------------
(* What no step may do: a session that has ended is not live again, and a  *)
(* request is granted only what it holds, the role of its session's token. *)

NoRevival == Ended \subseteq Ended'

Granted(r) ==
    requests[r].st # "ok" /\ requests'[r].st = "ok" =>
        /\ requests[r].st = "held"
        /\ requests'[r].role = grants[requests[r].key][sessions'[requests[r].key].tok]

Fair == NoRevival /\ \A r \in Request : Granted(r)

LEMMA FadeKeepsEnded ==
    ASSUME Fade
    PROVE  NoRevival
<1> SUFFICES ASSUME NEW k \in Ended PROVE k \in Ended'
  BY DEF NoRevival
<1>1. k \in Callback /\ sessions[k] # None /\ k \notin Live
  BY DEF Ended, Live
<1>2. sessions'[k] # None /\ k \notin Live'
  BY <1>1 DEF Fade, Held
<1>3. QED
  BY <1>1, <1>2 DEF Ended, Live

LEMMA FadeIsFair ==
    ASSUME Fade, \A r \in Request : requests'[r] = requests[r] \/ requests'[r].st # "ok"
    PROVE  Fair
<1>1. NoRevival
  BY FadeKeepsEnded
<1>2. \A r \in Request : Granted(r)
  BY DEF Granted
<1>3. QED
  BY <1>1, <1>2 DEF Fair

-----------------------------------------------------------------------------
(* Requests. *)

LEMMA BeginKeeps ==
    ASSUME SessionInv, over' \subseteq Callback, NEW r \in Request, NEW k \in Callback,
           \/ BeginRefused(r, k) \/ BeginExpired(r, k)
           \/ \E logout \in BOOLEAN : Begin(r, k, logout)
    PROVE  SessionInv' /\ Fair
<1>1. TypeOK /\ k \in Callback \cup {None} /\ requests[r].st = "unused"
  BY DEF SessionInv, BeginRefused, BeginExpired, Begin
<1>2. CASE BeginRefused(r, k) \/ BeginExpired(r, k)
  <2>1. Fade
    BY <1>1, <1>2, DeletedFades, UnchangedFades DEF BeginRefused, BeginExpired
  <2> DEFINE u == [requests[r] EXCEPT !.st = "refused", !.key = k]
  <2>2. requests' = [requests EXCEPT ![r] = u]
    BY <1>1, <1>2 DEF TypeOK, BeginRefused, BeginExpired
  <2>3. u \in RequestOf(Answers)
    BY <1>1 DEF TypeOK, RequestOf, Answers
  <2>4. u.st = "refused"
    BY <1>1 DEF TypeOK
  <2> HIDE DEF u
  <2>5. UNCHANGED <<tx, callbacks, refreshes, keys, generation, keycloakVars, notified>>
    BY <1>2 DEF BeginRefused, BeginExpired
  <2>6. SessionInv'
    BY <2>1, <2>2, <2>3, <2>4, <2>5, RequestEnds
  <2>7. \A q \in Request : requests'[q] = requests[q] \/ requests'[q].st # "ok"
    BY <1>1, <2>2, <2>4 DEF TypeOK
  <2>8. QED
    BY <2>1, <2>6, <2>7, FadeIsFair
<1>3. ASSUME NEW logout \in BOOLEAN, Begin(r, k, logout) PROVE SessionInv' /\ Fair
  <2> DEFINE u == [st |-> "keys", key |-> k, tok |-> sessions[k].tok, role |-> None,
                   logout |-> logout]
  <2>1. /\ k \in Live /\ requests' = [requests EXCEPT ![r] = u] /\ KeysWanted
        /\ sessions' = sessions
        /\ UNCHANGED <<tx, callbacks, refreshes, generation, alive, role, grants, used, notified>>
    BY <1>3 DEF Begin, keycloakVars
  <2>2. sessions[k] # None /\ sessions[k] \in Session /\ sessions[k].tok \in Version
    BY <1>1, <2>1, LiveSession DEF Session
  <2>3. u \in [st : {"unused", "keys", "refresh", "held", "ok", "refused"},
               key : Callback \cup {None}, tok : Version \cup {None},
               role : Role \cup {None}, logout : BOOLEAN]
    BY <2>2
  <2>4. Fade
    BY <1>1, <2>1, UnchangedFades
  <2>5. keys' \in {"fresh", "stale", "fetching"}
    BY <1>1, <2>1 DEF KeysWanted, TypeOK
  <2>6. u.st = "keys" /\ u.key = k /\ u.tok = sessions[k].tok
    OBVIOUS
  <2> HIDE DEF u
  <2>7. TypeOK'
    BY <1>1, <2>1, <2>3, <2>5 DEF TypeOK
  <2>8. /\ requests'[r] = u
        /\ \A q \in Request : q # r => requests'[q] = requests[q]
    BY <1>1, <2>1 DEF TypeOK
  <2>9. RequestOK(r)'
    BY <2>1, <2>2, <2>6, <2>8 DEF RequestOK
  <2>10. \A q \in Request : RequestOK(q)'
    BY <2>4, <2>8, <2>9, RequestsKept
  <2>11. SessionInv'
    BY <2>1, <2>4, <2>7, <2>10, QuietStep
  <2>12. QED
    BY <2>4, <2>6, <2>8, <2>11, FadeIsFair
<1>4. QED
  BY <1>2, <1>3

LEMMA CheckExpiredKeeps ==
    ASSUME SessionInv, over' \subseteq Callback, NEW r \in Request, CheckExpired(r)
    PROVE  SessionInv' /\ Fair
<1> DEFINE u == [requests[r] EXCEPT !.st = "refused"]
<1>1. TypeOK
  BY DEF SessionInv
<1>2. requests' = [requests EXCEPT ![r] = u]
  BY <1>1 DEF TypeOK, CheckExpired
<1>3. u \in RequestOf(Answers)
  BY <1>1, RequestTyped, RequestMoved DEF Answers
<1>4. u.st = "refused"
  BY <1>1 DEF TypeOK
<1>5. Fade /\ UNCHANGED <<tx, callbacks, refreshes, keys, generation, keycloakVars, notified>>
  BY <1>1, UnchangedFades DEF CheckExpired
<1> HIDE DEF u
<1>6. SessionInv'
  BY <1>2, <1>3, <1>4, <1>5, RequestEnds
<1>7. \A q \in Request : requests'[q] = requests[q] \/ requests'[q].st # "ok"
  BY <1>1, <1>2, <1>4 DEF TypeOK
<1>8. QED
  BY <1>5, <1>6, <1>7, FadeIsFair

(* The role that a request writes back to its session is the one it has.   *)
LEMMA WritesBack ==
    ASSUME SessionInv, NEW r \in Request, requests[r].st = "keys"
    PROVE  Verified(r) = sessions
<1> DEFINE k == requests[r].key
           new == grants[k][requests[r].tok]
<1>1. TypeOK /\ k \in Callback /\ sessions[k] # None /\ requests[r].tok = sessions[k].tok
  BY DEF SessionInv, RequestOK
<1>2. sessions[k].role = new
  BY <1>1 DEF SessionInv, SessionOK
<1>3. sessions[k] \in Session
  BY <1>1 DEF TypeOK
<1> HIDE DEF new
<1>4. [sessions[k] EXCEPT !.role = new] = sessions[k]
  BY <1>2, <1>3 DEF Session
<1>5. Verified(r) = [sessions EXCEPT ![k] = [sessions[k] EXCEPT !.role = new]]
  BY <1>1 DEF Verified, TypeOK, new
<1>6. QED
  BY <1>1, <1>4, <1>5 DEF TypeOK

LEMMA ReturnKeeps ==
    ASSUME SessionInv, over' \subseteq Callback, NEW r \in Request,
           requests[r].st \in {"keys", "refresh"}, Return(r, sessions),
           UNCHANGED <<tx, callbacks, refreshes, keys, generation, keycloakVars, notified>>
    PROVE  SessionInv' /\ Fair
<1> DEFINE st == IF requests[r].key \in Live THEN "held" ELSE "refused"
           u == [requests[r] EXCEPT !.st = st]
<1>1. TypeOK
  BY DEF SessionInv
<1>2. Fade /\ requests' = [requests EXCEPT ![r] = u]
  BY <1>1, UnchangedFades DEF TypeOK, Return
<1>3. u \in RequestOf(Answers) /\ u.st = st /\ u.key = requests[r].key
  BY <1>1, RequestTyped, RequestMoved DEF Answers
<1>4. st # "ok"
  OBVIOUS
<1> HIDE DEF u, st
<1>5. SessionInv'
  BY <1>2, <1>3, RequestEnds
<1>6. \A q \in Request : requests'[q] = requests[q] \/ requests'[q].st # "ok"
  BY <1>1, <1>2, <1>3, <1>4 DEF TypeOK
<1>7. QED
  BY <1>2, <1>5, <1>6, FadeIsFair

LEMMA ProceedKeeps ==
    ASSUME SessionInv, over' \subseteq Callback, NEW r \in Request, Proceed(r)
    PROVE  SessionInv' /\ Fair
<1> DEFINE k == requests[r].key
           p == [requests[r] EXCEPT !.st = "ok"]
           u == [p EXCEPT !.role = sessions[k].role]
<1>1. TypeOK /\ requests[r].st = "held" /\ k \in Callback /\ sessions[k] # None
  BY DEF SessionInv, RequestOK, Proceed
<1>2. sessions[k] \in Session /\ sessions[k].role \in Role
  BY <1>1 DEF TypeOK, Session
<1>3. requests' = [requests EXCEPT ![r] = u]
  BY <1>1 DEF TypeOK, Proceed
<1>4. u \in RequestOf(Answers) /\ u.st = "ok" /\ u.role = sessions[k].role
  <2>1. p \in RequestOf(Answers) /\ p.st = "ok"
    BY <1>1, RequestTyped, RequestMoved DEF Answers
  <2> HIDE DEF p
  <2>2. QED
    BY <1>2, <2>1, RequestAnswered
<1> HIDE DEF u
<1>5. Fade
  BY <1>1, DeletedFades DEF Proceed
<1>6. SessionInv'
  BY <1>3, <1>4, <1>5, RequestEnds DEF Proceed
<1>7. /\ requests'[r] = u
      /\ \A q \in Request : q # r => requests'[q] = requests[q]
  BY <1>1, <1>3 DEF TypeOK
<1>8. Granted(r)
  <2>1. sessions'[k].tok = sessions[k].tok
    BY <1>1, <1>5 DEF Fade, Held
  <2>2. sessions[k].role = grants[k][sessions[k].tok]
    BY <1>1 DEF SessionInv, SessionOK
  <2>3. QED
    BY <1>1, <1>4, <1>7, <2>1, <2>2 DEF Granted
<1>9. \A q \in Request : Granted(q)
  BY <1>7, <1>8 DEF Granted
<1>10. QED
  BY <1>5, <1>6, <1>9, FadeKeepsEnded DEF Fair

LEMMA CheckFreshKeeps ==
    ASSUME SessionInv, over' \subseteq Callback, NEW r \in Request, CheckFresh(r)
    PROVE  SessionInv' /\ Fair
<1>1. requests[r].st = "keys" /\ Verified(r) = sessions
  BY WritesBack DEF CheckFresh
<1>2. QED
  BY <1>1, ReturnKeeps DEF CheckFresh

LEMMA AnswerKeeps ==
    ASSUME SessionInv, over' \subseteq Callback, NEW r \in Request, Answer(r)
    PROVE  SessionInv' /\ Fair
  BY ReturnKeeps DEF Answer, Settled

LEMMA CheckExpiringKeeps ==
    ASSUME SessionInv, over' \subseteq Callback, NEW r \in Request, CheckExpiring(r)
    PROVE  SessionInv' /\ Fair
<1> DEFINE k == requests[r].key
           u == [requests[r] EXCEPT !.st = "refresh"]
           f == [st |-> "sent", tok |-> sessions[k].tok]
<1>1. /\ TypeOK /\ requests[r].st = "keys" /\ k \in Callback /\ sessions[k] # None
      /\ Len(grants[k]) < MaxVersions
  BY DEF SessionInv, RequestOK, CheckExpiring
<1>2. sessions' = sessions
  BY <1>1, WritesBack DEF CheckExpiring
<1>3. Fade
  BY <1>1, <1>2, UnchangedFades
<1>4. requests' = [requests EXCEPT ![r] = u]
  BY <1>1 DEF TypeOK, CheckExpiring
<1>5. /\ u.st = "refresh" /\ u.key = k
      /\ u \in [st : {"unused", "keys", "refresh", "held", "ok", "refused"},
                key : Callback \cup {None}, tok : Version \cup {None},
                role : Role \cup {None}, logout : BOOLEAN]
  BY <1>1 DEF TypeOK
<1>6. sessions[k].tok \in Version
  BY <1>1 DEF TypeOK, Session
<1>7. /\ refreshes' = IF refreshes[k].st # "none" THEN refreshes ELSE [refreshes EXCEPT ![k] = f]
      /\ UNCHANGED <<tx, callbacks, keys, generation, alive, role, grants, used, notified>>
  BY DEF CheckExpiring, keycloakVars
<1>8. /\ f \in [st : {"none", "sent", "granted", "refused", "keys"}, tok : Version \cup {None}]
      /\ f.st = "sent" /\ f.tok = sessions[k].tok
  BY <1>6
<1> HIDE DEF u, f
<1>9. TypeOK'
  BY <1>1, <1>2, <1>4, <1>5, <1>7, <1>8 DEF TypeOK
<1>10. /\ requests'[r] = u
       /\ \A q \in Request : q # r => requests'[q] = requests[q]
  BY <1>1, <1>4 DEF TypeOK
<1>11. RequestOK(r)'
  BY <1>1, <1>2, <1>5, <1>10 DEF RequestOK
<1>12. \A q \in Request : RequestOK(q)'
  BY <1>3, <1>10, <1>11, RequestsKept
<1>13. ASSUME NEW q \in Callback PROVE SessionOK(q)'
  <2>1. CASE refreshes'[q] = refreshes[q]
    BY <1>3, <1>7, <2>1, SessionsKept
  <2>2. CASE refreshes'[q] # refreshes[q]
    <3>1. q = k /\ refreshes[q].st = "none" /\ refreshes'[q] = f
      BY <1>1, <1>7, <2>2 DEF TypeOK
    <3>2. Live' = Live
      BY <1>2 DEF Live
    <3>3. SessionOK(q)
      BY DEF SessionInv
    <3>4. f.st = "sent" /\ f.tok = sessions[q].tok /\ Len(grants[q]) < MaxVersions
      BY <1>1, <1>8, <3>1
    <3> HIDE DEF k
    <3>5. QED
      BY <1>1, <1>2, <1>7, <3>1, <3>2, <3>3, <3>4 DEF SessionOK
  <2>3. QED
    BY <2>1, <2>2
<1>14. \A c \in Callback : CallbackOK(c)'
  BY <1>7, CallbacksKept
<1>15. \A c, d \in Callback : OneLogin(c, d)'
  BY <1>7, LoginsKept
<1>16. NoSessionAcrossReset' /\ \A q \in Callback : Orphan(q)'
  BY <1>3, <1>7, LiveKept
<1>17. SessionInv'
  BY <1>9, <1>12, <1>13, <1>14, <1>15, <1>16 DEF SessionInv
<1>18. QED
  BY <1>3, <1>5, <1>10, <1>17, FadeIsFair


-----------------------------------------------------------------------------
(* Steps that leave the callbacks, the refreshes and the requests alone.   *)

LEMMA StillStep ==
    ASSUME SessionInv, TypeOK', Fade,
           UNCHANGED <<callbacks, refreshes, requests, generation, grants, used, notified>>,
           \A t \in Tx : tx[t] = "gone" => tx'[t] = "gone"
    PROVE  SessionInv' /\ Fair
<1>1. \A r \in Request : RequestOK(r)'
  BY RequestsKept
<1>2. SessionInv'
  BY <1>1, QuietStep
<1>3. QED
  BY <1>2, FadeIsFair

LEMMA LoginKeeps ==
    ASSUME SessionInv, over' \subseteq Callback, NEW t \in Tx, Login(t) \/ TxLost(t)
    PROVE  SessionInv' /\ Fair
<1>1. TypeOK
  BY DEF SessionInv
<1>2. /\ sessions' = sessions
      /\ UNCHANGED <<callbacks, refreshes, requests, keys, generation, alive, role, grants, used,
                     notified>>
  BY DEF Login, TxLost, keycloakVars
<1>3. /\ tx' \in [Tx -> {"new", "open", "gone"}]
      /\ \A s \in Tx : tx[s] = "gone" => tx'[s] = "gone"
  BY <1>1 DEF TypeOK, Login, TxLost
<1>4. TypeOK'
  BY <1>1, <1>2, <1>3 DEF TypeOK
<1>5. Fade
  BY <1>1, <1>2, UnchangedFades
<1>6. QED
  BY <1>2, <1>3, <1>4, <1>5, StillStep

LEMMA KeysKeep ==
    ASSUME SessionInv, over' \subseteq Callback, KeysAge \/ KeysArrive
    PROVE  SessionInv' /\ Fair
<1>1. TypeOK
  BY DEF SessionInv
<1>2. /\ sessions' = sessions
      /\ UNCHANGED <<tx, callbacks, refreshes, requests, generation, alive, role, grants, used,
                     notified>>
      /\ keys' \in {"fresh", "stale"}
  BY DEF KeysAge, KeysArrive, keycloakVars
<1>3. TypeOK'
  BY <1>1, <1>2 DEF TypeOK
<1>4. Fade
  BY <1>1, <1>2, UnchangedFades
<1>5. QED
  BY <1>2, <1>3, <1>4, StillStep

LEMMA TimeoutKeeps ==
    ASSUME SessionInv, over' \subseteq Callback, NEW k \in Callback, Timeout(k)
    PROVE  SessionInv' /\ Fair
<1>1. TypeOK
  BY DEF SessionInv
<1>2. UNCHANGED <<tx, callbacks, refreshes, requests, keys, generation, alive, role, grants, used,
                  notified>>
  BY DEF Timeout, keycloakVars
<1>3. Fade
  BY <1>1, DeletedFades DEF Timeout
<1>4. TypeOK'
  BY <1>1, <1>2, <1>3 DEF TypeOK, Fade
<1>5. QED
  BY <1>2, <1>3, <1>4, StillStep

LEMMA KeycloakKeeps ==
    ASSUME SessionInv, over' \subseteq Callback, ChangeRole \/ \E x \in Sso : EndSso(x)
    PROVE  SessionInv' /\ Fair
<1>1. TypeOK
  BY DEF SessionInv
<1>2. /\ sessions' = sessions
      /\ UNCHANGED <<tx, callbacks, refreshes, requests, keys, generation, grants, used, notified>>
      /\ role' \in Role /\ alive' \subseteq alive
  BY <1>1 DEF ChangeRole, EndSso, boundaryVars, TypeOK
<1>3. TypeOK'
  BY <1>1, <1>2 DEF TypeOK
<1>4. Fade
  BY <1>1, <1>2, UnchangedFades
<1>5. QED
  BY <1>2, <1>3, <1>4, StillStep

LEMMA StutterKeeps ==
    ASSUME SessionInv, over' \subseteq Callback, UNCHANGED vars
    PROVE  SessionInv' /\ Fair
<1>1. TypeOK
  BY DEF SessionInv
<1>2. /\ sessions' = sessions
      /\ UNCHANGED <<tx, callbacks, refreshes, requests, keys, generation, alive, role, grants, used,
                     notified>>
  BY DEF vars, boundaryVars, keycloakVars
<1>3. TypeOK'
  BY <1>1, <1>2 DEF TypeOK
<1>4. Fade
  BY <1>1, <1>2, UnchangedFades
<1>5. QED
  BY <1>2, <1>3, <1>4, StillStep

LEMMA NoticeKeeps ==
    ASSUME SessionInv, over' \subseteq Callback, NEW x \in Sso, LogoutNotice(x)
    PROVE  SessionInv' /\ Fair
<1>1. TypeOK /\ x \notin alive /\ notified' = notified \cup {x} /\ sessions' = Deleted(OfSso(x))
  BY DEF SessionInv, LogoutNotice
<1>2. UNCHANGED <<tx, callbacks, refreshes, requests, keys, generation, alive, role, grants, used>>
  BY DEF LogoutNotice, keycloakVars
<1>3. Fade /\ Live' \cap OfSso(x) = {}
  BY <1>1, DeletedFades
<1>4. TypeOK'
  BY <1>1, <1>2, <1>3 DEF TypeOK, Fade
<1>5. \A k \in Callback : SessionOK(k)'
  BY <1>2, <1>3, SessionsKept
<1>6. \A c \in Callback : CallbackOK(c)'
  BY <1>2, CallbacksKept
<1>7. \A c, d \in Callback : OneLogin(c, d)'
  BY <1>2, LoginsKept
<1>8. \A r \in Request : RequestOK(r)'
  BY <1>2, <1>3, RequestsKept
<1>9. ASSUME NEW k \in Callback, k \in Live'
      PROVE  /\ sessions'[k].gen = generation
             /\ sessions'[k].sso \in notified' => sessions'[k].tok = 1 /\ Len(grants'[k]) = 1
  <2>1. k \in Live /\ sessions[k] # None /\ k \notin OfSso(x) /\ Held(k)
    BY <1>3, <1>9 DEF Fade, Live
  <2>2. /\ sessions[k].sso # x /\ sessions'[k].sso = sessions[k].sso
        /\ sessions'[k].tok = sessions[k].tok /\ sessions'[k].gen = sessions[k].gen
    BY <2>1 DEF OfSso, Held
  <2>3. Orphan(k) /\ sessions[k].gen = generation
    BY <2>1 DEF SessionInv, NoSessionAcrossReset
  <2>4. QED
    BY <1>1, <1>2, <2>1, <2>2, <2>3 DEF Orphan
<1>10. NoSessionAcrossReset'
  BY <1>2, <1>9 DEF NoSessionAcrossReset, Live
<1>11. \A k \in Callback : Orphan(k)'
  BY <1>9 DEF Orphan
<1>12. SessionInv'
  BY <1>4, <1>5, <1>6, <1>7, <1>8, <1>10, <1>11 DEF SessionInv
<1>13. QED
  BY <1>2, <1>3, <1>12, FadeIsFair

LEMMA ResetKeeps ==
    ASSUME SessionInv, over' \subseteq Callback, Reset
    PROVE  SessionInv' /\ Fair
<1>1. TypeOK /\ generation < MaxResets /\ generation' = generation + 1 /\ sessions' = Deleted(Callback)
  BY DEF SessionInv, Reset
<1>2. UNCHANGED <<callbacks, refreshes, requests, keys, alive, role, grants, used, notified>>
  BY DEF Reset, keycloakVars
<1>3. /\ tx' \in [Tx -> {"new", "open", "gone"}]
      /\ \A t \in Tx : tx[t] = "gone" => tx'[t] = "gone"
  BY <1>1 DEF TypeOK, Reset
<1>4. Fade /\ Live' \cap Callback = {}
  BY <1>1, DeletedFades
<1>5. generation' \in 0..MaxResets
  BY <1>1, BoundaryAssumption DEF TypeOK
<1>6. TypeOK'
  BY <1>1, <1>2, <1>3, <1>4, <1>5 DEF TypeOK, Fade
<1>7. \A k \in Callback : SessionOK(k)'
  BY <1>2, <1>4, SessionsKept
<1>8. \A c \in Callback : CallbackOK(c)'
  BY <1>2, <1>3, CallbacksKept
<1>9. \A c, d \in Callback : OneLogin(c, d)'
  BY <1>2, LoginsKept
<1>10. \A r \in Request : RequestOK(r)'
  BY <1>2, <1>4, RequestsKept
<1>11. NoSessionAcrossReset' /\ \A k \in Callback : Orphan(k)'
  BY <1>4 DEF NoSessionAcrossReset, Orphan, Live
<1>12. SessionInv'
  BY <1>6, <1>7, <1>8, <1>9, <1>10, <1>11 DEF SessionInv
<1>13. QED
  BY <1>2, <1>4, <1>12, FadeIsFair

-----------------------------------------------------------------------------
(* Callbacks. *)

LEMMA CallbackBeginKeeps ==
    ASSUME SessionInv, over' \subseteq Callback,
           NEW c \in Callback, NEW t \in Tx, NEW old \in Callback \cup {None},
           CallbackBegin(c, t, old)
    PROVE  SessionInv' /\ Fair
<1> DEFINE u == [st |-> IF Cardinality(Live) >= Limit THEN "done" ELSE "sent",
                 tx |-> t, old |-> old, sso |-> None, gen |-> generation]
<1>1. /\ TypeOK /\ callbacks[c].st = "unused" /\ tx[t] = "open"
      /\ tx' = [tx EXCEPT ![t] = "gone"] /\ callbacks' = [callbacks EXCEPT ![c] = u]
      /\ sessions' = sessions
      /\ UNCHANGED <<refreshes, requests, keys, generation, alive, role, grants, used, notified>>
  BY DEF SessionInv, CallbackBegin, keycloakVars
<1>2. u \in CallbackState /\ u.st \in {"done", "sent"} /\ u.tx = t
  BY <1>1 DEF TypeOK, CallbackState
<1> HIDE DEF u
<1>3. TypeOK'
  BY <1>1, <1>2 DEF TypeOK
<1>4. Fade
  BY <1>1, UnchangedFades
<1>5. /\ tx'[t] = "gone" /\ \A s \in Tx : tx[s] = "gone" => tx'[s] = "gone"
      /\ callbacks'[c] = u /\ \A d \in Callback : d # c => callbacks'[d] = callbacks[d]
  BY <1>1 DEF TypeOK
<1>6. \A k \in Callback : SessionOK(k)'
  BY <1>1, <1>4, <1>5, SessionsKept
<1>7. \A d \in Callback : CallbackOK(d)'
  <2>1. CallbackOK(c)'
    BY <1>2, <1>5 DEF CallbackOK
  <2>2. QED
    BY <1>1, <1>5, <2>1, CallbacksKept
<1>8. ASSUME NEW d \in Callback, d # c, callbacks[d].st # "unused" PROVE callbacks[d].tx # t
  BY <1>1, <1>8 DEF SessionInv, CallbackOK
<1>9. \A d, e \in Callback : OneLogin(d, e)'
  BY <1>2, <1>5, <1>8 DEF SessionInv, OneLogin
<1>10. \A r \in Request : RequestOK(r)'
  BY <1>1, <1>4, RequestsKept
<1>11. NoSessionAcrossReset' /\ \A k \in Callback : Orphan(k)'
  BY <1>1, <1>4, LiveKept
<1>12. SessionInv'
  BY <1>3, <1>6, <1>7, <1>9, <1>10, <1>11 DEF SessionInv
<1>13. QED
  BY <1>1, <1>4, <1>12, FadeIsFair

LEMMA StatusSet ==
    ASSUME TypeOK, NEW c \in Callback,
           NEW st \in {"unused", "sent", "granted", "refused", "keys", "done"},
           callbacks' = [callbacks EXCEPT ![c].st = st]
    PROVE  /\ callbacks' \in [Callback -> CallbackState]
           /\ callbacks'[c].st = st /\ callbacks'[c].tx = callbacks[c].tx
           /\ callbacks'[c].sso = callbacks[c].sso
           /\ \A d \in Callback : d # c => callbacks'[d] = callbacks[d]
<1> DEFINE u == [callbacks[c] EXCEPT !.st = st]
<1>1. callbacks' = [callbacks EXCEPT ![c] = u] /\ callbacks \in [Callback -> CallbackState]
  BY DEF TypeOK
<1>2. /\ u \in CallbackState /\ u.st = st /\ u.tx = callbacks[c].tx
      /\ u.sso = callbacks[c].sso
  BY <1>1 DEF CallbackState
<1> HIDE DEF u
<1>3. QED
  BY <1>1, <1>2

(* A callback goes on to its tokens, or is done. *)
LEMMA CallbackMoves ==
    ASSUME SessionInv, over' \subseteq Callback, NEW c \in Callback, NEW st \in {"keys", "done"},
           callbacks' = [callbacks EXCEPT ![c].st = st],
           callbacks[c].st # "unused", callbacks[c].st # "done",
           st = "keys" => callbacks[c].st = "granted",
           keys' \in {"fresh", "stale", "fetching"},
           UNCHANGED <<sessions, tx, refreshes, requests, generation, keycloakVars, notified>>
    PROVE  SessionInv' /\ Fair
<1>1. TypeOK /\ UNCHANGED <<alive, role, grants, used>>
  BY DEF SessionInv, keycloakVars
<1>2. Fade
  BY <1>1, UnchangedFades
<1>3. /\ callbacks' \in [Callback -> CallbackState]
      /\ callbacks'[c].st = st /\ callbacks'[c].tx = callbacks[c].tx
      /\ callbacks'[c].sso = callbacks[c].sso
      /\ \A d \in Callback : d # c => callbacks'[d] = callbacks[d]
  BY <1>1, StatusSet
<1>4. TypeOK'
  BY <1>1, <1>3 DEF TypeOK
<1>5. \A k \in Callback : SessionOK(k)'
  BY <1>1, <1>2, <1>3, SessionsKept
<1>6. \A d \in Callback : CallbackOK(d)'
  <2>1. CallbackOK(c)'
    BY <1>1, <1>3 DEF SessionInv, CallbackOK
  <2>2. QED
    BY <1>1, <1>3, <2>1, CallbacksKept
<1>7. \A d, e \in Callback : OneLogin(d, e)'
  BY <1>3, LoginsKept
<1>8. \A r \in Request : RequestOK(r)'
  BY <1>1, <1>2, RequestsKept
<1>9. NoSessionAcrossReset' /\ \A k \in Callback : Orphan(k)'
  BY <1>1, <1>2, LiveKept
<1>10. SessionInv'
  BY <1>4, <1>5, <1>6, <1>7, <1>8, <1>9 DEF SessionInv
<1>11. QED
  BY <1>1, <1>2, <1>10, FadeIsFair

LEMMA CallbackGoesOn ==
    ASSUME SessionInv, over' \subseteq Callback, NEW c \in Callback,
           CallbackAnswered(c) \/ CallbackFails(c)
    PROVE  SessionInv' /\ Fair
<1>1. CASE CallbackAnswered(c)
  <2>1. keys' \in {"fresh", "stale", "fetching"}
    BY <1>1 DEF CallbackAnswered, KeysWanted, SessionInv, TypeOK
  <2>2. QED
    BY <1>1, <2>1, CallbackMoves DEF CallbackAnswered
<1>2. CASE CallbackFails(c)
  <2>1. keys' \in {"fresh", "stale", "fetching"}
    BY <1>2 DEF CallbackFails, SessionInv, TypeOK
  <2>2. QED
    BY <1>2, <2>1, CallbackMoves DEF CallbackFails
<1>3. QED
  BY <1>1, <1>2

LEMMA ExchangeCodeKeeps ==
    ASSUME SessionInv, over' \subseteq Callback, NEW c \in Callback, NEW x \in Sso, ExchangeCode(c, x)
    PROVE  SessionInv' /\ Fair
<1>1. /\ TypeOK /\ callbacks[c].st = "sent" /\ sessions' = sessions
      /\ UNCHANGED <<tx, refreshes, requests, keys, generation, alive, role, used, notified>>
  BY DEF SessionInv, ExchangeCode
<1>2. Fade
  BY <1>1, UnchangedFades
<1>3. <<role>> \in Seq(Role) /\ Len(<<role>>) = 1
  BY <1>1 DEF TypeOK
<1>4. /\ grants' \in [Callback -> Seq(Role)]
      /\ \A d \in Callback : d # c => grants'[d] = grants[d]
      /\ x \in alive => Len(grants'[c]) = 1
  BY <1>1, <1>3 DEF TypeOK, ExchangeCode
<1>5. /\ callbacks' \in [Callback -> CallbackState]
      /\ \A d \in Callback : d # c => callbacks'[d] = callbacks[d]
      /\ callbacks'[c].tx = callbacks[c].tx /\ callbacks'[c].st \in {"granted", "refused"}
      /\ callbacks'[c].st = "granted" => x \in alive /\ callbacks'[c].sso \in Sso
  <2>1. CASE x \in alive
    <3> DEFINE u == [callbacks[c] EXCEPT !.st = "granted", !.sso = x]
    <3>1. callbacks' = [callbacks EXCEPT ![c] = u] /\ callbacks \in [Callback -> CallbackState]
      BY <1>1, <2>1 DEF TypeOK, ExchangeCode
    <3>2. u \in CallbackState /\ u.st = "granted" /\ u.sso = x /\ u.tx = callbacks[c].tx
      BY <3>1 DEF CallbackState
    <3> HIDE DEF u
    <3>3. QED
      BY <2>1, <3>1, <3>2
  <2>2. CASE x \notin alive
    <3>1. callbacks' = [callbacks EXCEPT ![c].st = "refused"]
      BY <2>2 DEF ExchangeCode
    <3>2. QED
      BY <1>1, <3>1, StatusSet
  <2>3. QED
    BY <2>1, <2>2
<1>6. TypeOK'
  BY <1>1, <1>4, <1>5 DEF TypeOK
<1>7. SessionOK(c) /\ CallbackOK(c)
  BY DEF SessionInv
<1>8. sessions[c] = None /\ refreshes[c].st = "none" /\ used[c] = {} /\ c \notin Live'
  BY <1>1, <1>7 DEF SessionOK, Live
<1>9. \A k \in Callback : SessionOK(k)'
  <2>1. SessionOK(c)'
    BY <1>1, <1>8 DEF SessionOK
  <2>2. QED
    BY <1>1, <1>2, <1>4, <1>5, <2>1, SessionsKept
<1>10. \A d \in Callback : CallbackOK(d)'
  <2>1. CallbackOK(c)'
    BY <1>1, <1>4, <1>5, <1>7 DEF CallbackOK
  <2>2. QED
    BY <1>1, <1>4, <1>5, <2>1, CallbacksKept
<1>11. \A d, e \in Callback : OneLogin(d, e)'
  BY <1>1, <1>4, <1>5, LoginsKept
<1>12. \A r \in Request : RequestOK(r)'
  BY <1>1, <1>2, RequestsKept
<1>13. NoSessionAcrossReset' /\ \A k \in Callback : Orphan(k)'
  <2>1. \A k \in Live' : k \in Callback /\ k # c
    BY <1>8 DEF Live
  <2>2. QED
    BY <1>1, <1>2, <1>4, <2>1, LiveKept
<1>14. SessionInv'
  BY <1>6, <1>9, <1>10, <1>11, <1>12, <1>13 DEF SessionInv
<1>15. QED
  BY <1>1, <1>2, <1>14, FadeIsFair

(* The session that a callback makes is new, and its tokens are. *)
LEMMA CallbackSettlesKeeps ==
    ASSUME SessionInv, over' \subseteq Callback, NEW c \in Callback, CallbackSettles(c)
    PROVE  SessionInv' /\ Fair
<1>1. /\ TypeOK /\ callbacks[c].st = "keys" /\ keys = "fresh" /\ Checking = {}
      /\ callbacks' = [callbacks EXCEPT ![c].st = "done"]
      /\ UNCHANGED <<tx, refreshes, requests, keys, generation, alive, role, grants, used, notified>>
  BY DEF SessionInv, CallbackSettles, keycloakVars
<1>2. SessionOK(c) /\ CallbackOK(c)
  BY DEF SessionInv
<1>3. CASE callbacks[c].gen # generation
  <2>1. sessions' = sessions /\ keys' \in {"fresh", "stale", "fetching"}
    BY <1>1, <1>3 DEF CallbackSettles
  <2>2. QED
    BY <1>1, <2>1, CallbackMoves DEF keycloakVars
<1>4. CASE callbacks[c].gen = generation
  <2> DEFINE gone == {callbacks[c].old}
             kept == Deleted(gone)
             s == [live |-> TRUE, sso |-> callbacks[c].sso, tok |-> 1, role |-> grants[c][1],
                   gen |-> callbacks[c].gen]
  <2>1. sessions' = [kept EXCEPT ![c] = s]
    BY <1>4 DEF CallbackSettles, MakeSession
  <2>2. /\ sessions[c] = None /\ refreshes[c].st = "none" /\ used[c] = {} /\ c \notin Live
        /\ callbacks[c].sso \in Sso /\ Len(grants[c]) = 1 /\ callbacks[c].tx \in Tx
        /\ tx[callbacks[c].tx] = "gone"
    BY <1>1, <1>2 DEF SessionOK, CallbackOK, Live
  <2>3. 1 \in Version /\ grants[c][1] \in Role
    <3>1. grants[c] \in Seq(Role) /\ 1 \in 1..Len(grants[c])
      BY <1>1, <2>2 DEF TypeOK
    <3>2. QED
      BY <3>1, ElementOfSeq, BoundaryAssumption DEF Version
  <2>4. /\ s \in Session /\ s.tok = 1 /\ s.role = grants[c][1] /\ s.gen = generation
        /\ s.sso = callbacks[c].sso
    BY <1>1, <1>4, <2>2, <2>3 DEF Session, TypeOK
  <2>5. s # None
    BY <2>4, BoundaryAssumption
  <2> HIDE DEF s
  <2>6. /\ kept \in [Callback -> Session \cup {None}]
        /\ \A k \in Callback :
              /\ kept[k] = None <=> sessions[k] = None
              /\ sessions[k] # None =>
                    /\ kept[k].sso = sessions[k].sso /\ kept[k].tok = sessions[k].tok
                    /\ kept[k].role = sessions[k].role /\ kept[k].gen = sessions[k].gen
        /\ \A k \in Callback : kept[k] # None /\ kept[k].live => k \in Live
    <3>1. ASSUME NEW k \in Callback, k \in gone \cap Live
          PROVE  /\ kept[k] \in Session /\ kept[k] # None /\ sessions[k] # None
                 /\ kept[k].sso = sessions[k].sso /\ kept[k].tok = sessions[k].tok
                 /\ kept[k].role = sessions[k].role /\ kept[k].gen = sessions[k].gen
      <4>1. sessions[k] \in Session /\ sessions[k] # None
        BY <1>1, <3>1, LiveSession
      <4>2. kept[k] = [sessions[k] EXCEPT !.live = FALSE]
        BY <3>1 DEF Deleted
      <4>3. QED
        BY <4>1, <4>2, SessionEnded
    <3>2. ASSUME NEW k \in Callback, k \notin gone \cap Live
          PROVE  kept[k] = sessions[k]
      BY <3>2 DEF Deleted
    <3>3. ASSUME NEW k \in Callback, kept[k] # None, kept[k].live PROVE k \in Live
      <4>1. CASE k \in gone \cap Live
        BY <4>1
      <4>2. CASE k \notin gone \cap Live
        BY <3>2, <3>3, <4>2 DEF Live
      <4>3. QED
        BY <4>1, <4>2
    <3>4. \A k \in Callback : kept[k] \in Session \cup {None}
      BY <1>1, <3>1, <3>2 DEF TypeOK
    <3>5. kept \in [Callback -> Session \cup {None}]
      <4>1. kept = [k \in Callback |-> kept[k]]
        BY DEF Deleted
      <4> HIDE DEF kept
      <4>2. QED
        BY <3>4, <4>1
    <3> HIDE DEF kept, gone
    <3>6. QED
      BY <3>1, <3>2, <3>3, <3>5
  <2> HIDE DEF kept
  <2>7. /\ sessions' \in [Callback -> Session \cup {None}] /\ sessions'[c] = s
        /\ \A k \in Callback : k # c => sessions'[k] = kept[k]
    BY <2>1, <2>4, <2>6
  <2>8. \A k \in Callback : k # c => Held(k)
    BY <2>6, <2>7 DEF Held
  <2>9. \A k \in Live' : k # c => k \in Callback /\ k \in Live
    BY <2>6, <2>7 DEF Live
  <2>10. /\ callbacks' \in [Callback -> CallbackState]
         /\ callbacks'[c].st = "done" /\ callbacks'[c].tx = callbacks[c].tx
         /\ \A d \in Callback : d # c => callbacks'[d] = callbacks[d]
    BY <1>1, StatusSet
  <2>11. TypeOK'
    BY <1>1, <2>7, <2>10 DEF TypeOK
  <2>12. ASSUME NEW k \in Callback PROVE SessionOK(k)'
    <3>1. CASE k = c
      <4>1. /\ sessions'[c] # None /\ sessions'[c].tok = 1
            /\ sessions'[c].role = grants'[c][1] /\ Len(grants'[c]) = 1
            /\ used'[c] = {} /\ refreshes'[c].st = "none" /\ callbacks'[c].st = "done"
        BY <1>1, <2>2, <2>4, <2>5, <2>7, <2>10
      <4>2. SessionOK(c)'
        BY <4>1 DEF SessionOK
      <4>3. QED
        BY <3>1, <4>2
    <3>2. CASE k # c
      <4>1. SessionOK(k) /\ Held(k) /\ (k \in Live' => k \in Live)
        BY <2>8, <2>9, <3>2 DEF SessionInv
      <4>2. sessions'[k] = None <=> sessions[k] = None
        BY <4>1 DEF Held
      <4>3. CASE sessions[k] = None
        <5>1. k \notin Live /\ k \notin Live' /\ refreshes[k].st = "none"
          BY <4>1, <4>3 DEF SessionOK, Live
        <5>2. QED
          BY <1>1, <4>1, <4>2, <4>3, <5>1 DEF SessionOK
      <4>4. CASE sessions[k] # None
        <5>1. sessions'[k].tok = sessions[k].tok /\ sessions'[k].role = sessions[k].role
          BY <4>1, <4>4 DEF Held
        <5>2. callbacks'[k].st = callbacks[k].st
          BY <2>10, <3>2
        <5>3. QED
          BY <1>1, <4>1, <4>2, <4>4, <5>1, <5>2 DEF SessionOK
      <4>5. QED
        BY <4>3, <4>4
    <3>3. QED
      BY <3>1, <3>2
  <2>13. \A d \in Callback : CallbackOK(d)'
    <3>1. CallbackOK(c)'
      BY <1>1, <2>2, <2>10 DEF CallbackOK
    <3>2. QED
      BY <1>1, <2>10, <3>1, CallbacksKept
  <2>14. \A d, e \in Callback : OneLogin(d, e)'
    BY <1>1, <2>10, LoginsKept
  <2>15. ASSUME NEW r \in Request PROVE RequestOK(r)'
    <3>1. RequestOK(r) /\ requests'[r] = requests[r]
      BY <1>1 DEF SessionInv
    <3>2. requests[r].st # "keys"
      BY <1>1 DEF Checking
    <3>3. CASE requests[r].st \in {"refresh", "held"}
      <4>1. requests[r].key \in Callback /\ sessions[requests[r].key] # None
        BY <3>1, <3>3 DEF RequestOK
      <4>2. sessions'[requests[r].key] # None
        BY <2>2, <2>8, <4>1 DEF Held
      <4>3. QED
        BY <3>1, <3>3, <4>1, <4>2 DEF RequestOK
    <3>4. QED
      BY <3>1, <3>2, <3>3 DEF RequestOK
  <2>16. ASSUME NEW k \in Callback, k \in Live'
         PROVE  /\ sessions'[k].gen = generation
                /\ sessions'[k].sso \in notified => sessions'[k].tok = 1 /\ Len(grants[k]) = 1
    <3>1. CASE k = c
      BY <2>2, <2>4, <2>7, <3>1
    <3>2. CASE k # c
      <4>1. k \in Live /\ sessions[k] # None /\ Held(k)
        BY <2>8, <2>9, <2>16, <3>2 DEF Live
      <4>2. Orphan(k) /\ sessions[k].gen = generation
        BY <4>1 DEF SessionInv, NoSessionAcrossReset
      <4>3. QED
        BY <4>1, <4>2 DEF Orphan, Held
    <3>3. QED
      BY <3>1, <3>2
  <2>17. NoSessionAcrossReset'
    BY <1>1, <2>16 DEF NoSessionAcrossReset, Live
  <2>18. \A k \in Callback : Orphan(k)'
    BY <1>1, <2>16 DEF Orphan
  <2>19. SessionInv'
    BY <2>11, <2>12, <2>13, <2>14, <2>15, <2>17, <2>18 DEF SessionInv
  <2>20. NoRevival
    <3>1. ASSUME NEW k \in Ended PROVE k \in Ended'
      <4>1. k \in Callback /\ k # c /\ sessions[k] # None /\ k \notin Live
        BY <2>2 DEF Ended, Live
      <4>2. sessions'[k] # None /\ k \notin Live'
        BY <2>8, <2>9, <4>1 DEF Held
      <4>3. QED
        BY <4>1, <4>2 DEF Ended, Live
    <3>2. QED
      BY <3>1 DEF NoRevival
  <2>21. \A r \in Request : Granted(r)
    BY <1>1 DEF Granted
  <2>22. QED
    BY <2>19, <2>20, <2>21 DEF Fair
<1>5. QED
  BY <1>3, <1>4


-----------------------------------------------------------------------------
(* Refreshes. *)

LEMMA RefreshStep ==
    ASSUME SessionInv, TypeOK', Fade, \A k \in Callback : SessionOK(k)',
           UNCHANGED <<tx, callbacks, requests, generation, grants, notified>>
    PROVE  SessionInv' /\ Fair
<1>1. \A c \in Callback : CallbackOK(c)'
  BY CallbacksKept
<1>2. \A c, d \in Callback : OneLogin(c, d)'
  BY LoginsKept
<1>3. \A r \in Request : RequestOK(r)'
  BY RequestsKept
<1>4. NoSessionAcrossReset' /\ \A k \in Callback : Orphan(k)'
  BY LiveKept
<1>5. SessionInv'
  BY <1>1, <1>2, <1>3, <1>4 DEF SessionInv
<1>6. QED
  BY <1>5, FadeIsFair

LEMMA RefreshAnsweredKeeps ==
    ASSUME SessionInv, over' \subseteq Callback, NEW k \in Callback, RefreshAnswered(k)
    PROVE  SessionInv' /\ Fair
<1>1. /\ TypeOK /\ refreshes[k].st = "granted" /\ sessions' = sessions
      /\ refreshes' = [refreshes EXCEPT ![k].st = "keys"]
      /\ UNCHANGED <<tx, callbacks, requests, generation, alive, role, grants, used, notified>>
  BY DEF SessionInv, RefreshAnswered, keycloakVars
<1>2. keys' \in {"fresh", "stale", "fetching"}
  BY <1>1 DEF RefreshAnswered, KeysWanted, TypeOK
<1>3. TypeOK'
  BY <1>1, <1>2 DEF TypeOK
<1>4. Fade
  BY <1>1, UnchangedFades
<1>5. /\ refreshes'[k].st = "keys" /\ refreshes'[k].tok = refreshes[k].tok
      /\ \A q \in Callback : q # k => refreshes'[q] = refreshes[q]
  BY <1>1 DEF TypeOK
<1>6. SessionOK(k) /\ Live' = Live
  BY <1>1 DEF SessionInv, Live
<1>7. SessionOK(k)'
  BY <1>1, <1>5, <1>6 DEF SessionOK
<1>8. \A q \in Callback : SessionOK(q)'
  BY <1>1, <1>4, <1>5, <1>7, SessionsKept
<1>9. QED
  BY <1>1, <1>3, <1>4, <1>8, RefreshStep

(* The session of a refresh that ends has ended. *)
LEMMA RefreshEnded ==
    ASSUME SessionInv, NEW k \in Callback, Fade, k \notin Live',
           refreshes'[k] = [st |-> "none", tok |-> None], refreshes[k].st # "none",
           UNCHANGED <<grants, used>>, callbacks[k].st = "done" => callbacks'[k].st = "done"
    PROVE  SessionOK(k)'
<1>1. SessionOK(k) /\ Held(k)
  BY DEF SessionInv, Fade
<1>2. sessions[k] # None
  BY <1>1 DEF SessionOK
<1>3. sessions'[k] # None /\ sessions'[k].tok = sessions[k].tok /\ sessions'[k].role = sessions[k].role
  BY <1>1, <1>2 DEF Held
<1>4. refreshes'[k].st = "none"
  OBVIOUS
<1>5. QED
  BY <1>1, <1>2, <1>3, <1>4 DEF SessionOK

LEMMA RefreshFailsKeeps ==
    ASSUME SessionInv, over' \subseteq Callback, NEW k \in Callback, RefreshFails(k)
    PROVE  SessionInv' /\ Fair
<1>1. /\ TypeOK /\ refreshes[k].st \in {"sent", "granted", "refused"}
      /\ sessions' = Deleted({k}) /\ refreshes' = NoRefresh(k)
      /\ UNCHANGED <<tx, callbacks, requests, keys, generation, alive, role, grants, used, notified>>
  BY DEF SessionInv, RefreshFails, keycloakVars
<1>2. Fade /\ k \notin Live'
  BY <1>1, DeletedFades
<1>3. /\ refreshes' \in [Callback ->
             [st : {"none", "sent", "granted", "refused", "keys"}, tok : Version \cup {None}]]
      /\ refreshes'[k] = [st |-> "none", tok |-> None]
      /\ \A q \in Callback : q # k => refreshes'[q] = refreshes[q]
  BY <1>1 DEF TypeOK, NoRefresh
<1>4. TypeOK'
  BY <1>1, <1>2, <1>3 DEF TypeOK, Fade
<1>5. SessionOK(k)'
  BY <1>1, <1>2, <1>3, RefreshEnded
<1>6. \A q \in Callback : SessionOK(q)'
  BY <1>1, <1>2, <1>3, <1>5, SessionsKept
<1>7. QED
  BY <1>1, <1>2, <1>4, <1>6, RefreshStep

(* A session that is still there takes the newest tokens. *)
LEMMA RefreshSettlesKeeps ==
    ASSUME SessionInv, over' \subseteq Callback, NEW k \in Callback, RefreshSettles(k)
    PROVE  SessionInv' /\ Fair
<1>1. /\ TypeOK /\ refreshes[k].st = "keys" /\ Checking = {} /\ refreshes' = NoRefresh(k)
      /\ UNCHANGED <<tx, callbacks, requests, keys, generation, alive, role, grants, used, notified>>
  BY DEF SessionInv, RefreshSettles, keycloakVars
<1>2. /\ refreshes' \in [Callback ->
             [st : {"none", "sent", "granted", "refused", "keys"}, tok : Version \cup {None}]]
      /\ refreshes'[k] = [st |-> "none", tok |-> None] /\ refreshes'[k].st = "none"
      /\ \A q \in Callback : q # k => refreshes'[q] = refreshes[q]
  BY <1>1 DEF TypeOK, NoRefresh
<1>3. SessionOK(k)
  BY DEF SessionInv
<1>4. CASE k \notin Live
  <2>1. sessions' = sessions /\ Live' = Live
    BY <1>4 DEF RefreshSettles, Live
  <2>2. Fade
    BY <1>1, <2>1, UnchangedFades
  <2>3. SessionOK(k)'
    BY <1>1, <1>2, <1>4, <2>1, <2>2, RefreshEnded
  <2>4. TypeOK'
    BY <1>1, <1>2, <2>1 DEF TypeOK
  <2>5. \A q \in Callback : SessionOK(q)'
    BY <1>1, <1>2, <2>2, <2>3, SessionsKept
  <2>6. QED
    BY <1>1, <2>2, <2>4, <2>5, RefreshStep
<1>5. CASE k \in Live
  <2> DEFINE n == Len(grants[k])
             new == grants[k][n]
             s == [sessions[k] EXCEPT !.tok = n, !.role = new]
  <2>1. /\ sessions[k] \in Session /\ sessions[k] # None
        /\ refreshes[k].tok = n /\ n \in Version /\ n \notin used[k] /\ sessions[k].tok + 1 = n
        /\ callbacks[k].st = "done" /\ \A v \in used[k] : v <= n
    BY <1>1, <1>3, <1>5, LiveSession DEF SessionOK
  <2>2. new \in Role
    <3>1. grants[k] \in Seq(Role) /\ n \in 1..n
      BY <1>1, <2>1 DEF TypeOK, Version
    <3>2. QED
      BY <3>1, ElementOfSeq
  <2>3. sessions' = [sessions EXCEPT ![k] = s]
    BY <1>1, <1>5, <2>1 DEF RefreshSettles, TypeOK
  <2> HIDE DEF new
  <2>4. /\ s \in Session /\ s.tok = n /\ s.role = new
        /\ s.sso = sessions[k].sso /\ s.gen = sessions[k].gen /\ s.live = sessions[k].live
    BY <2>1, <2>2 DEF Session
  <2>5. s # None
    BY <2>4, BoundaryAssumption
  <2> HIDE DEF s
  <2>6. /\ sessions' \in [Callback -> Session \cup {None}] /\ sessions'[k] = s
        /\ \A q \in Callback : q # k => sessions'[q] = sessions[q]
    BY <1>1, <2>3, <2>4 DEF TypeOK
  <2>7. TypeOK'
    BY <1>1, <1>2, <2>6 DEF TypeOK
  <2>8. ASSUME NEW q \in Callback PROVE q \in Live' <=> q \in Live
    <3>1. CASE q = k
      <4>1. s.live
        BY <1>5, <2>4 DEF Live
      <4>2. QED
        BY <1>5, <2>5, <2>6, <3>1, <4>1 DEF Live
    <3>2. CASE q # k
      BY <2>6, <3>2 DEF Live
    <3>3. QED
      BY <3>1, <3>2
  <2>9. ASSUME NEW q \in Callback PROVE SessionOK(q)'
    <3>1. CASE q = k
      <4>1. /\ sessions'[k] # None /\ sessions'[k].tok = n /\ n \in Nat
            /\ sessions'[k].role = grants'[k][n] /\ Len(grants'[k]) = n
            /\ used'[k] = used[k] /\ callbacks'[k].st = "done"
        BY <1>1, <2>1, <2>4, <2>5, <2>6 DEF new, Version
      <4> HIDE DEF n
      <4>2. SessionOK(k)'
        BY <1>2, <2>1, <4>1 DEF SessionOK
      <4>3. QED
        BY <3>1, <4>2
    <3>2. CASE q # k
      <4>1. SessionOK(q)
        BY DEF SessionInv
      <4>2. QED
        BY <1>1, <1>2, <2>6, <2>8, <3>2, <4>1 DEF SessionOK
    <3>3. QED
      BY <3>1, <3>2
  <2>10. \A c \in Callback : CallbackOK(c)'
    BY <1>1, CallbacksKept
  <2>11. \A c, d \in Callback : OneLogin(c, d)'
    BY <1>1, LoginsKept
  <2>12. ASSUME NEW r \in Request PROVE RequestOK(r)'
    <3>1. RequestOK(r) /\ requests'[r] = requests[r] /\ requests[r].st # "keys"
      BY <1>1 DEF SessionInv, Checking
    <3>2. \A q \in Callback : sessions[q] # None => sessions'[q] # None
      BY <2>5, <2>6
    <3>3. QED
      BY <3>1, <3>2 DEF RequestOK
  <2>13. \A q \in Live' : q \in Callback /\ q \in Live
    BY <2>8 DEF Live
  <2>14. NoSessionAcrossReset'
    <3>1. \A q \in Callback : q \in Live' => sessions'[q].gen = sessions[q].gen
      BY <2>4, <2>6
    <3>2. QED
      BY <1>1, <2>13, <3>1 DEF SessionInv, NoSessionAcrossReset
  <2>15. ASSUME NEW q \in Callback PROVE Orphan(q)'
    <3>1. CASE q = k
      <4>1. ~(sessions[k].tok = 1 /\ n = 1)
        <5>1. sessions[k].tok + 1 = n
          BY ONLY <2>1
        <5>2. ASSUME sessions[k].tok = 1, n = 1 PROVE FALSE
          <6>1. 1 + 1 = 1
            BY ONLY <5>1, <5>2
          <6>2. QED
            BY ONLY <6>1
        <5>3. QED
          BY <5>2
      <4>2. sessions[k].sso \notin notified
        BY <1>5, <4>1 DEF SessionInv, Orphan
      <4>3. QED
        BY <1>1, <2>4, <2>6, <3>1, <4>2 DEF Orphan
    <3>2. CASE q # k
      BY <1>1, <2>6, <2>8, <3>2 DEF SessionInv, Orphan
    <3>3. QED
      BY <3>1, <3>2
  <2>16. SessionInv'
    BY <2>7, <2>9, <2>10, <2>11, <2>12, <2>14, <2>15 DEF SessionInv
  <2>17. NoRevival /\ \A r \in Request : Granted(r)
    <3>1. ASSUME NEW q \in Ended PROVE q \in Ended'
      <4>1. q \in Callback /\ sessions[q] # None /\ q \notin Live
        BY DEF Ended, Live
      <4>2. q # k
        BY <1>5, <4>1
      <4>3. sessions'[q] = sessions[q] /\ q \notin Live'
        BY <2>6, <2>8, <4>1, <4>2
      <4>4. QED
        BY <4>1, <4>3 DEF Ended, Live
    <3>2. \A r \in Request : Granted(r)
      BY <1>1 DEF Granted
    <3>3. QED
      BY <3>1, <3>2 DEF NoRevival
  <2>18. QED
    BY <2>16, <2>17 DEF Fair
<1>6. QED
  BY <1>4, <1>5

(* A fetch of keys that fails ends what waits for it. *)
LEMMA KeysFailKeeps ==
    ASSUME SessionInv, over' \subseteq Callback, KeysFail
    PROVE  SessionInv' /\ Fair
<1> DEFINE Refreshing == {k \in Callback : refreshes[k].st = "keys"}
<1>1. /\ TypeOK /\ keys' = "stale" /\ sessions' = Deleted(Refreshing)
      /\ UNCHANGED <<tx, generation, alive, role, grants, used, notified>>
  BY DEF SessionInv, KeysFail, keycloakVars
<1>2. Fade /\ Live' \cap Refreshing = {}
  BY <1>1, DeletedFades
<1>3. /\ requests' \in [Request ->
             [st : {"unused", "keys", "refresh", "held", "ok", "refused"},
              key : Callback \cup {None}, tok : Version \cup {None},
              role : Role \cup {None}, logout : BOOLEAN]]
      /\ \A r \in Request : requests'[r] = requests[r] \/ requests'[r].st = "refused"
  <2>1. ASSUME NEW r \in Request, requests[r].st = "keys"
        PROVE  /\ requests'[r] = [requests[r] EXCEPT !.st = "refused"]
               /\ requests'[r].st = "refused"
               /\ requests'[r] \in
                     [st : {"unused", "keys", "refresh", "held", "ok", "refused"},
                      key : Callback \cup {None}, tok : Version \cup {None},
                      role : Role \cup {None}, logout : BOOLEAN]
    <3>1. requests'[r] = [requests[r] EXCEPT !.st = "refused"]
      BY <2>1 DEF KeysFail, Checking
    <3>2. "refused" \in {"unused", "keys", "refresh", "held", "ok", "refused"}
      OBVIOUS
    <3>3. /\ requests'[r] \in RequestOf({"unused", "keys", "refresh", "held", "ok", "refused"})
          /\ requests'[r].st = "refused"
      BY <1>1, <3>1, <3>2, RequestTyped, RequestMoved
    <3>4. QED
      BY <3>1, <3>3 DEF RequestOf
  <2>2. ASSUME NEW r \in Request, requests[r].st # "keys" PROVE requests'[r] = requests[r]
    BY <2>2 DEF KeysFail, Checking
  <2>3. requests' = [r \in Request |-> requests'[r]]
    BY DEF KeysFail
  <2>4. QED
    BY <1>1, <2>1, <2>2, <2>3 DEF TypeOK
<1>4. /\ callbacks' \in [Callback -> CallbackState]
      /\ \A c \in Callback :
            \/ callbacks'[c] = callbacks[c]
            \/ /\ callbacks[c].st = "keys" /\ callbacks'[c].st = "done"
               /\ callbacks'[c].tx = callbacks[c].tx
  <2>1. ASSUME NEW c \in Callback, callbacks[c].st = "keys"
        PROVE  /\ callbacks'[c] \in CallbackState
               /\ callbacks'[c].st = "done" /\ callbacks'[c].tx = callbacks[c].tx
    <3>1. callbacks'[c] = [callbacks[c] EXCEPT !.st = "done"] /\ callbacks[c] \in CallbackState
      BY <1>1, <2>1 DEF KeysFail, TypeOK
    <3>2. QED
      BY <3>1 DEF CallbackState
  <2>2. ASSUME NEW c \in Callback, callbacks[c].st # "keys" PROVE callbacks'[c] = callbacks[c]
    BY <2>2 DEF KeysFail
  <2>3. callbacks' = [c \in Callback |-> callbacks'[c]]
    BY DEF KeysFail
  <2>4. \A c \in Callback : callbacks'[c] \in CallbackState
    BY <1>1, <2>1, <2>2 DEF TypeOK
  <2>5. QED
    BY <2>1, <2>2, <2>3, <2>4
<1>5. /\ refreshes' \in [Callback ->
             [st : {"none", "sent", "granted", "refused", "keys"}, tok : Version \cup {None}]]
      /\ \A k \in Callback :
            \/ refreshes'[k] = refreshes[k]
            \/ k \in Refreshing /\ refreshes'[k] = [st |-> "none", tok |-> None]
  BY <1>1 DEF KeysFail, TypeOK
<1> HIDE DEF Refreshing
<1>6. TypeOK'
  BY <1>1, <1>2, <1>3, <1>4, <1>5 DEF TypeOK, Fade
<1>7. ASSUME NEW k \in Callback PROVE SessionOK(k)'
  <2>1. callbacks[k].st = "done" => callbacks'[k].st = "done"
    BY <1>4
  <2>2. CASE refreshes'[k] = refreshes[k]
    BY <1>1, <1>2, <2>1, <2>2, SessionsKept
  <2>3. CASE k \in Refreshing /\ refreshes'[k] = [st |-> "none", tok |-> None]
    <3>1. refreshes[k].st # "none" /\ k \notin Live'
      BY <1>2, <2>3 DEF Refreshing
    <3>2. QED
      BY <1>1, <1>2, <2>1, <2>3, <3>1, RefreshEnded
  <2>4. QED
    BY <1>5, <2>2, <2>3
<1>8. ASSUME NEW c \in Callback PROVE CallbackOK(c)'
  <2>1. CASE callbacks'[c] = callbacks[c]
    BY <1>1, <2>1, CallbacksKept
  <2>2. CASE /\ callbacks[c].st = "keys" /\ callbacks'[c].st = "done"
             /\ callbacks'[c].tx = callbacks[c].tx
    BY <1>1, <2>2 DEF SessionInv, CallbackOK
  <2>3. QED
    BY <1>4, <2>1, <2>2
<1>9. \A c, d \in Callback : OneLogin(c, d)'
  <2>1. \A c \in Callback : callbacks'[c].tx = callbacks[c].tx
                               /\ (callbacks'[c].st # "unused" => callbacks[c].st # "unused")
    BY <1>4
  <2>2. QED
    BY <2>1, LoginsKept
<1>10. \A r \in Request : RequestOK(r)'
  BY <1>2, <1>3, RequestsKept
<1>11. NoSessionAcrossReset' /\ \A k \in Callback : Orphan(k)'
  BY <1>1, <1>2, LiveKept
<1>12. SessionInv'
  BY <1>6, <1>7, <1>8, <1>9, <1>10, <1>11 DEF SessionInv
<1>13. QED
  BY <1>2, <1>3, <1>12, FadeIsFair

(* Keycloak grants the newest token, or refuses. *)
LEMMA ExchangeRefreshKeeps ==
    ASSUME SessionInv, over' \subseteq Callback, NEW k \in Callback, ExchangeRefresh(k)
    PROVE  SessionInv' /\ Fair
<1> DEFINE n == Len(grants[k])
           v == refreshes[k].tok
           x == sessions[k].sso
           valid == x \in alive /\ v = n
<1>1. /\ TypeOK /\ refreshes[k].st = "sent" /\ sessions' = sessions
      /\ used' = [used EXCEPT ![k] = @ \cup {v}]
      /\ UNCHANGED <<tx, callbacks, requests, keys, generation, role, notified>>
  BY DEF SessionInv, ExchangeRefresh
<1>2. SessionOK(k) /\ Live' = Live
  BY <1>1 DEF SessionInv, Live
<1>3. /\ sessions[k] # None /\ sessions[k] \in Session /\ v = sessions[k].tok
      /\ v \in Version /\ v <= n /\ n < MaxVersions /\ callbacks[k].st = "done"
      /\ sessions[k].role = grants[k][v] /\ \A w \in used[k] : w <= n
      /\ k \in Live => v = n /\ n \notin used[k]
  <2>1. /\ sessions[k] # None /\ v = sessions[k].tok
        /\ v <= n /\ n < MaxVersions /\ callbacks[k].st = "done"
        /\ sessions[k].role = grants[k][v] /\ \A w \in used[k] : w <= n
        /\ k \in Live => v = n /\ n \notin used[k]
    BY <1>1, <1>2 DEF SessionOK
  <2>2. sessions[k] \in Session
    BY <1>1, <2>1 DEF TypeOK
  <2>3. QED
    BY <2>1, <2>2 DEF Session
<1>4. v \in Nat /\ n \in Nat /\ v >= 1 /\ MaxVersions \in Nat /\ grants[k] \in Seq(Role)
  BY <1>1, <1>3, LenProperties, BoundaryAssumption DEF Version, TypeOK
<1>5. Fade
  BY <1>1, UnchangedFades
<1>6. /\ alive' \subseteq alive
      /\ alive' \in SUBSET Sso
  BY <1>1 DEF ExchangeRefresh, TypeOK
<1>7. /\ used' \in [Callback -> SUBSET Version] /\ used'[k] = used[k] \cup {v}
      /\ \A q \in Callback : q # k => used'[q] = used[q]
  BY <1>1, <1>3 DEF TypeOK
<1>8. CASE valid
  <2> DEFINE g == Append(grants[k], role)
             f == [st |-> "granted", tok |-> v + 1]
  <2>1. refreshes' = [refreshes EXCEPT ![k] = f] /\ grants' = [grants EXCEPT ![k] = g]
    BY <1>1, <1>8 DEF ExchangeRefresh, TypeOK
  <2>2. /\ g \in Seq(Role) /\ Len(g) = n + 1
        /\ \A i \in 1..n : g[i] = grants[k][i]
    BY <1>1, <1>4, AppendProperties DEF TypeOK
  <2>3. v + 1 \in Version /\ v + 1 = n + 1
    BY <1>3, <1>4, <1>8 DEF Version
  <2>4. /\ f \in [st : {"none", "sent", "granted", "refused", "keys"}, tok : Version \cup {None}]
        /\ f.st = "granted" /\ f.tok = n + 1
    BY <2>3
  <2> HIDE DEF g, f
  <2>5. /\ refreshes' \in [Callback ->
               [st : {"none", "sent", "granted", "refused", "keys"}, tok : Version \cup {None}]]
        /\ refreshes'[k] = f /\ \A q \in Callback : q # k => refreshes'[q] = refreshes[q]
    BY <1>1, <2>1, <2>4 DEF TypeOK
  <2>6. /\ grants' \in [Callback -> Seq(Role)]
        /\ grants'[k] = g /\ \A q \in Callback : q # k => grants'[q] = grants[q]
    BY <1>1, <2>1, <2>2 DEF TypeOK
  <2>7. TypeOK'
    BY <1>1, <1>6, <1>7, <2>5, <2>6 DEF TypeOK
  <2>8. SessionOK(k)'
    <3>1. /\ sessions'[k] # None /\ sessions'[k].tok = v /\ sessions'[k].role = g[v]
          /\ callbacks'[k].st = "done"
      <4>1. v \in 1..n
        BY <1>3, <1>4
      <4>2. QED
        BY <1>1, <1>3, <2>2, <4>1
    <3>2. \A w \in used'[k] : w <= n + 1 /\ w # n + 1
      <4>1. used[k] \subseteq Nat
        BY <1>1 DEF TypeOK, Version
      <4>2. QED
        BY <1>3, <1>4, <1>7, <4>1
    <3>3. v <= n + 1 /\ n + 1 \in Version /\ (k \in Live' => v + 1 = n + 1)
      BY <1>2, <1>3, <1>4, <2>3
    <3>4. Len(grants'[k]) = n + 1 /\ refreshes'[k].st = "granted" /\ refreshes'[k].tok = n + 1
      BY <2>2, <2>4, <2>5, <2>6
    <3> DEFINE m == n + 1
    <3> HIDE DEF m, v, n
    <3>5. /\ \A w \in used'[k] : w <= m /\ w # m
          /\ v <= m /\ m \in Version /\ (k \in Live' => v + 1 = m)
          /\ Len(grants'[k]) = m /\ refreshes'[k].tok = m
      BY <3>2, <3>3, <3>4 DEF m
    <3>6. QED
      BY <2>6, <3>1, <3>4, <3>5 DEF SessionOK
  <2>9. \A q \in Callback : SessionOK(q)'
    BY <1>1, <1>5, <1>7, <2>5, <2>6, <2>8, SessionsKept
  <2>10. ASSUME NEW c \in Callback PROVE CallbackOK(c)'
    <3>1. CASE c = k
      BY <1>1, <1>3, <3>1 DEF SessionInv, CallbackOK
    <3>2. CASE c # k
      BY <1>1, <2>6, <3>2, CallbacksKept
    <3>3. QED
      BY <3>1, <3>2
  <2>11. \A c, d \in Callback : OneLogin(c, d)'
    BY <1>1, LoginsKept
  <2>12. \A r \in Request : RequestOK(r)'
    BY <1>1, <1>5, RequestsKept
  <2>13. NoSessionAcrossReset'
    BY <1>1, <1>2 DEF SessionInv, NoSessionAcrossReset
  <2>14. ASSUME NEW q \in Callback PROVE Orphan(q)'
    <3>1. CASE q = k
      BY <1>1, <1>8, <3>1 DEF Orphan, TypeOK
    <3>2. CASE q # k
      BY <1>1, <1>2, <2>6, <3>2 DEF SessionInv, Orphan
    <3>3. QED
      BY <3>1, <3>2
  <2>15. SessionInv'
    BY <2>7, <2>9, <2>10, <2>11, <2>12, <2>13, <2>14 DEF SessionInv
  <2>16. QED
    BY <1>1, <1>5, <2>15, FadeIsFair
<1>9. CASE ~valid
  <2> DEFINE f == [st |-> "refused", tok |-> v]
  <2>1. refreshes' = [refreshes EXCEPT ![k] = f] /\ grants' = grants
    BY <1>9 DEF ExchangeRefresh
  <2>2. /\ f \in [st : {"none", "sent", "granted", "refused", "keys"}, tok : Version \cup {None}]
        /\ f.st = "refused"
    BY <1>3
  <2> HIDE DEF f
  <2>3. /\ refreshes' \in [Callback ->
               [st : {"none", "sent", "granted", "refused", "keys"}, tok : Version \cup {None}]]
        /\ refreshes'[k] = f /\ \A q \in Callback : q # k => refreshes'[q] = refreshes[q]
    BY <1>1, <2>1, <2>2 DEF TypeOK
  <2>4. TypeOK'
    BY <1>1, <1>6, <1>7, <2>1, <2>3 DEF TypeOK
  <2>5. SessionOK(k)'
    <3>1. \A w \in used'[k] : w <= n
      BY <1>3, <1>7
    <3>2. /\ sessions'[k] # None /\ sessions'[k].tok = v /\ sessions'[k].role = grants'[k][v]
          /\ callbacks'[k].st = "done" /\ Len(grants'[k]) = n /\ refreshes'[k].st = "refused"
      BY <1>1, <1>3, <2>1, <2>2, <2>3
    <3>3. v <= n
      BY <1>3
    <3> HIDE DEF v, n
    <3>4. QED
      BY <3>1, <3>2, <3>3 DEF SessionOK
  <2>6. \A q \in Callback : SessionOK(q)'
    BY <1>1, <1>5, <1>7, <2>1, <2>3, <2>5, SessionsKept
  <2>7. QED
    BY <1>1, <1>5, <2>1, <2>4, <2>6, RefreshStep
<1>10. QED
  BY <1>8, <1>9

-----------------------------------------------------------------------------
(* Every step. *)

LEMMA SessionInit == Init => SessionInv
<1> SUFFICES ASSUME Init PROVE SessionInv
  OBVIOUS
<1>1. <<>> \in Seq(Role) /\ Len(<<>>) = 0
  BY EmptySeq
<1>2. 0 \in 0..MaxResets
  BY BoundaryAssumption
<1>3. Live = {}
  BY DEF Init, Live
<1>4. TypeOK
  BY <1>1, <1>2 DEF Init, TypeOK, CallbackState
<1>5. \A k \in Callback : SessionOK(k)
  BY <1>1, <1>3 DEF Init, SessionOK
<1>6. /\ \A c \in Callback : CallbackOK(c)
      /\ \A c, d \in Callback : OneLogin(c, d)
      /\ \A r \in Request : RequestOK(r)
  BY DEF Init, CallbackOK, OneLogin, RequestOK
<1>7. NoSessionAcrossReset /\ \A k \in Callback : Orphan(k)
  BY <1>3 DEF NoSessionAcrossReset, Orphan
<1>8. QED
  BY <1>4, <1>5, <1>6, <1>7 DEF SessionInv

(* A step begins a turn of the event loop or is one of its reactions.      *)
LEMMA TurnOrReaction ==
    ASSUME [Next]_vars
    PROVE  \/ Turn /\ Next /\ ~Reactions
           \/ Reactions /\ over' = over
           \/ UNCHANGED vars
<1>1. Reactions => over' = over
  BY DEF Reactions, CheckExpired, CheckFresh, CheckExpiring, Answer, Proceed,
     RefreshSettles, CallbackSettles
<1>2. ASSUME NEW t \in Tx,
             \/ Login(t) \/ TxLost(t)
             \/ \E c \in Callback, old \in Callback \cup {None} : CallbackBegin(c, t, old)
      PROVE  Turn
  BY <1>2 DEF Login, TxLost, CallbackBegin
<1>3. ASSUME NEW r \in Request, NEW k \in Callback,
             \/ BeginRefused(r, k) \/ BeginExpired(r, k)
             \/ \E logout \in BOOLEAN : Begin(r, k, logout)
      PROVE  Turn
  BY <1>3 DEF BeginRefused, BeginExpired, Begin
<1>4. ASSUME NEW k \in Callback,
             \/ CallbackAnswered(k) \/ CallbackFails(k)
             \/ RefreshAnswered(k) \/ RefreshFails(k) \/ Timeout(k)
             \/ ExchangeRefresh(k)
             \/ \E x \in Sso : ExchangeCode(k, x)
      PROVE  Turn
  BY <1>4 DEF CallbackAnswered, CallbackFails, RefreshAnswered, RefreshFails, Timeout,
     ExchangeRefresh, ExchangeCode
<1>5. ASSUME KeysAge \/ KeysArrive \/ KeysFail PROVE Turn
  BY <1>5 DEF KeysAge, KeysArrive, KeysFail
<1>6. ASSUME NEW x \in Sso, LogoutNotice(x) \/ EndSso(x) PROVE Turn
  BY <1>6 DEF LogoutNotice, EndSso
<1>7. ASSUME Reset \/ ChangeRole PROVE Turn
  BY <1>7 DEF Reset, ChangeRole
<1>8. CASE Next /\ ~Reactions
  <2>1. Turn
    BY <1>2, <1>3, <1>4, <1>5, <1>6, <1>7, <1>8 DEF Next
  <2>2. QED
    BY <1>8, <2>1
<1>9. QED
  BY <1>1, <1>8

LEMMA SessionNext ==
    ASSUME SessionInv, [Next]_vars
    PROVE  SessionInv' /\ Fair
<1>0. over' \subseteq Callback
  <2>1. Turn \/ over' = over \/ UNCHANGED vars
    BY TurnOrReaction
  <2>2. QED
    BY <2>1 DEF Turn, Ended, vars, SessionInv, TypeOK
<1>1. CASE Reactions
  BY <1>0, <1>1, CheckExpiredKeeps, CheckFreshKeeps, CheckExpiringKeeps, AnswerKeeps,
     ProceedKeeps, RefreshSettlesKeeps, CallbackSettlesKeeps DEF Reactions
<1>2. ASSUME NEW t \in Tx,
             \/ Login(t) \/ TxLost(t)
             \/ \E c \in Callback, old \in Callback \cup {None} : CallbackBegin(c, t, old)
      PROVE  SessionInv' /\ Fair
  BY <1>0, <1>2, LoginKeeps, CallbackBeginKeeps
<1>3. ASSUME NEW r \in Request, NEW k \in Callback,
             \/ BeginRefused(r, k) \/ BeginExpired(r, k)
             \/ \E logout \in BOOLEAN : Begin(r, k, logout)
      PROVE  SessionInv' /\ Fair
  BY <1>0, <1>3, BeginKeeps
<1>4. ASSUME NEW k \in Callback,
             \/ CallbackAnswered(k) \/ CallbackFails(k)
             \/ RefreshAnswered(k) \/ RefreshFails(k) \/ Timeout(k)
             \/ ExchangeRefresh(k)
             \/ \E x \in Sso : ExchangeCode(k, x)
      PROVE  SessionInv' /\ Fair
  BY <1>0, <1>4, CallbackGoesOn, RefreshAnsweredKeeps, RefreshFailsKeeps, TimeoutKeeps,
     ExchangeRefreshKeeps, ExchangeCodeKeeps
<1>5. CASE KeysAge \/ KeysArrive \/ KeysFail
  BY <1>0, <1>5, KeysKeep, KeysFailKeeps
<1>6. ASSUME NEW x \in Sso, LogoutNotice(x) \/ EndSso(x) PROVE SessionInv' /\ Fair
  BY <1>0, <1>6, NoticeKeeps, KeycloakKeeps
<1>7. CASE Reset \/ ChangeRole
  BY <1>0, <1>7, ResetKeeps, KeycloakKeeps
<1>8. CASE UNCHANGED vars
  BY <1>0, <1>8, StutterKeeps
<1>9. QED
  BY <1>1, <1>2, <1>3, <1>4, <1>5, <1>6, <1>7, <1>8 DEF Next

(* A session, its tokens, its refresh and the requests that hold it agree  *)
(* at every turn of UIAuth's event loop.                                   *)
THEOREM SessionInvariance == Spec => []SessionInv
<1>1. SessionInv /\ [Next]_vars => SessionInv'
  BY SessionNext
<1>2. QED
  BY <1>1, SessionInit, PTL DEF Spec

-----------------------------------------------------------------------------
(* What the runs check. *)

(* One login makes one session, however often its callback is delivered.   *)
THEOREM LoginOnce == Spec => []OneSessionPerLogin
<1>1. ASSUME SessionInv PROVE OneSessionPerLogin
  <2>1. \A c \in Callback : sessions[c] # None => callbacks[c].st # "unused"
    BY <1>1 DEF SessionInv, SessionOK
  <2>2. QED
    BY <1>1, <2>1 DEF SessionInv, OneLogin, OneSessionPerLogin
<1>2. QED
  BY <1>1, SessionInvariance, PTL

(* No session of a login that was under way at a reset outlives it.        *)
THEOREM ResetEndsLogins == Spec => []NoSessionAcrossReset
<1>1. SessionInv => NoSessionAcrossReset
  BY DEF SessionInv
<1>2. QED
  BY <1>1, SessionInvariance, PTL

(* A live session never presents a refresh token a second time, whatever   *)
(* of its refreshes were lost.                                             *)
THEOREM RefreshTokenUnused == Spec => []HoldsUnusedRefresh
<1>1. ASSUME SessionInv PROVE HoldsUnusedRefresh
  BY <1>1 DEF SessionInv, SessionOK, HoldsUnusedRefresh, Live
<1>2. QED
  BY <1>1, SessionInvariance, PTL

(* A session of a Keycloak session whose end was announced is never        *)
(* refreshed.                                                              *)
THEOREM OrphanEnds == Spec => []OrphanEndsWithItsToken
<1>1. ASSUME SessionInv PROVE OrphanEndsWithItsToken
  BY <1>1 DEF SessionInv, Orphan, OrphanEndsWithItsToken, OfSso, Live
<1>2. QED
  BY <1>1, SessionInvariance, PTL

(* A session that has ended stays ended.                                   *)
THEOREM EndIsFinal == Spec => EndedStaysEnded
<1> DEFINE Stays == \A k \in Callback : sessions[k] # None /\ ~sessions[k].live => k \notin Live'
<1>1. ASSUME SessionInv, [Next]_vars PROVE Stays
  BY <1>1, SessionNext DEF Fair, NoRevival, Live, Ended
<1>2. SessionInv /\ [Next]_vars => [Stays]_vars
  BY <1>1
<1>3. EndedStaysEnded <=> [][Stays]_vars
  BY DEF EndedStaysEnded
<1> HIDE DEF Stays
<1>4. QED
  BY <1>2, <1>3, SessionInvariance, PTL DEF Spec

(* Requests that hold a session from session() on. *)

LogoutOf(k) ==
    \E q \in Request : requests[q].st = "ok" /\ requests[q].logout /\ requests[q].key = k

(* The session a request holds is live, or a logout of the same turn ended *)
(* it.                                                                     *)
HeldOK(r) ==
    requests[r].st = "held" =>
        requests[r].key \in Live \/ (requests[r].key \notin over /\ LogoutOf(requests[r].key))

HeldInv ==
    /\ over \subseteq Ended
    /\ \A r \in Request : HeldOK(r)

(* Only the end of session() has a request hold one.                       *)
LEMMA TurnHoldsNothing ==
    ASSUME TypeOK, Next, ~Reactions, NEW r \in Request, requests'[r].st = "held"
    PROVE  requests[r].st = "held"
<1>1. ASSUME NEW q \in Request, NEW k \in Callback,
             \/ BeginRefused(q, k) \/ BeginExpired(q, k)
             \/ \E logout \in BOOLEAN : Begin(q, k, logout)
      PROVE  requests[r].st = "held"
  <2>1. requests'[q].st \in {"refused", "keys"} /\ (q # r => requests'[r] = requests[r])
    BY <1>1 DEF TypeOK, BeginRefused, BeginExpired, Begin
  <2>2. QED
    BY <2>1
<1>2. CASE KeysFail
  BY <1>2 DEF KeysFail, TypeOK, Checking
<1>3. CASE requests' = requests
  BY <1>3
<1>4. ASSUME NEW t \in Tx,
             \/ Login(t) \/ TxLost(t)
             \/ \E c \in Callback, old \in Callback \cup {None} : CallbackBegin(c, t, old)
      PROVE  requests' = requests
  BY <1>4 DEF Login, TxLost, CallbackBegin
<1>5. ASSUME NEW k \in Callback,
             \/ CallbackAnswered(k) \/ CallbackFails(k)
             \/ RefreshAnswered(k) \/ RefreshFails(k) \/ Timeout(k)
             \/ ExchangeRefresh(k)
             \/ \E x \in Sso : ExchangeCode(k, x)
      PROVE  requests' = requests
  BY <1>5 DEF CallbackAnswered, CallbackFails, RefreshAnswered, RefreshFails, Timeout,
     ExchangeRefresh, ExchangeCode
<1>6. ASSUME NEW x \in Sso,
             KeysAge \/ KeysArrive \/ LogoutNotice(x) \/ EndSso(x) \/ Reset \/ ChangeRole
      PROVE  requests' = requests
  BY <1>6 DEF KeysAge, KeysArrive, LogoutNotice, EndSso, Reset, ChangeRole, boundaryVars
<1>7. CASE KeysAge \/ KeysArrive \/ Reset \/ ChangeRole
  BY <1>7 DEF KeysAge, KeysArrive, Reset, ChangeRole, boundaryVars
<1>8. QED
  BY <1>1, <1>2, <1>3, <1>4, <1>5, <1>6, <1>7 DEF Next

(* A reaction that ends no session, and has a request hold a live one at   *)
(* most.                                                                   *)
LEMMA HeldStays ==
    ASSUME SessionInv, HeldInv, over' = over, sessions' = sessions, NEW r \in Request,
           requests[r].st # "ok",
           \A q \in Request : q # r => requests'[q] = requests[q],
           requests'[r].st = "held" => requests'[r].key \in Live,
           NEW q \in Request
    PROVE  HeldOK(q)'
<1>1. Live' = Live
  BY DEF Live
<1>2. CASE q = r
  BY <1>1, <1>2 DEF HeldOK
<1>3. CASE q # r
  <2>1. HeldOK(q) /\ requests'[q] = requests[q]
    BY <1>3 DEF HeldInv
  <2>2. ASSUME LogoutOf(requests[q].key) PROVE LogoutOf(requests[q].key)'
    BY <2>1, <2>2 DEF LogoutOf
  <2>3. QED
    BY <1>1, <2>1, <2>2 DEF HeldOK
<1>4. QED
  BY <1>2, <1>3

LEMMA ProceedHolds ==
    ASSUME SessionInv, HeldInv, over' = over, NEW r \in Request, Proceed(r), NEW q \in Request
    PROVE  HeldOK(q)'
<1> DEFINE k == requests[r].key
           gone == IF requests[r].logout THEN {k} ELSE {}
           After(y) == \E p \in Request :
                      requests'[p].st = "ok" /\ requests'[p].logout /\ requests'[p].key = y
<1>1. TypeOK /\ requests[r].st = "held" /\ sessions' = Deleted(gone)
  BY DEF SessionInv, Proceed
<1>2. /\ requests'[r].st = "ok" /\ requests'[r].logout = requests[r].logout
      /\ requests'[r].key = k
      /\ \A p \in Request : p # r => requests'[p] = requests[p]
  BY <1>1 DEF TypeOK, Proceed
<1>3. ASSUME requests'[q].st = "held"
      PROVE  \/ requests'[q].key \in Live'
             \/ requests'[q].key \notin over' /\ After(requests'[q].key)
  <2> DEFINE x == requests[q].key
  <2>1. q # r /\ requests'[q] = requests[q] /\ HeldOK(q)
    BY <1>2, <1>3 DEF HeldInv
  <2>2. CASE x \in Live /\ x \notin gone
    <3>1. sessions'[x] = sessions[x]
      BY <1>1, <2>2 DEF Deleted, Live
    <3>2. QED
      BY <2>1, <2>2, <3>1 DEF Live
  <2>3. CASE x \in Live /\ x \in gone
    <3>1. requests[r].logout /\ x = k
      BY <2>3
    <3>2. After(x)
      BY <1>2, <3>1 DEF LogoutOf
    <3>3. x \notin over
      BY <2>3 DEF HeldInv, Ended, Live
    <3>4. QED
      BY <2>1, <3>2, <3>3
  <2>4. CASE x \notin over /\ LogoutOf(x)
    <3>1. After(x)
      BY <1>1, <1>2, <2>4 DEF LogoutOf
    <3>2. QED
      BY <2>1, <2>4, <3>1
  <2>5. QED
    BY <1>3, <2>1, <2>2, <2>3, <2>4 DEF HeldOK
<1>4. QED
  BY <1>3 DEF HeldOK, LogoutOf

LEMMA HeldNext ==
    ASSUME SessionInv, HeldInv, [Next]_vars
    PROVE  HeldInv'
<1>1. TypeOK /\ Ended \subseteq Ended'
  BY SessionNext DEF Fair, NoRevival, SessionInv
<1>2. over' \subseteq Ended'
  <2>1. Turn \/ over' = over \/ UNCHANGED vars
    BY TurnOrReaction
  <2>2. QED
    BY <1>1, <2>1 DEF Turn, HeldInv, vars
<1>3. ASSUME NEW q \in Request PROVE HeldOK(q)'
  <2>1. CASE Turn /\ Next /\ ~Reactions
    <3>1. requests[q].st # "held"
      BY <2>1 DEF Turn, Busy, Holding
    <3>2. QED
      BY <1>1, <2>1, <3>1, TurnHoldsNothing DEF HeldOK
  <2>2. CASE UNCHANGED vars
    <3>1. sessions' = sessions /\ requests' = requests /\ over' = over
      BY <2>2 DEF vars, boundaryVars
    <3>2. Live' = Live /\ HeldOK(q)
      BY <3>1 DEF Live, HeldInv
    <3>3. QED
      BY <3>1, <3>2 DEF HeldOK, LogoutOf
  <2>3. ASSUME NEW r \in Request, CheckFresh(r) \/ Answer(r), over' = over PROVE HeldOK(q)'
    <3>1. requests[r].st \in {"keys", "refresh"} /\ Return(r, sessions)
      BY <2>3, WritesBack DEF CheckFresh, Answer, Settled
    <3>2. /\ requests[r].st # "ok" /\ sessions' = sessions
          /\ \A p \in Request : p # r => requests'[p] = requests[p]
          /\ requests'[r].st = "held" => requests'[r].key \in Live
      BY <1>1, <3>1 DEF TypeOK, Return
    <3>3. QED
      BY <2>3, <3>2, HeldStays
  <2>4. ASSUME NEW r \in Request, CheckExpired(r) \/ CheckExpiring(r), over' = over
        PROVE  HeldOK(q)'
    <3>1. requests[r].st = "keys" /\ sessions' = sessions
      BY <2>4, WritesBack DEF CheckExpired, CheckExpiring
    <3>2. /\ \A p \in Request : p # r => requests'[p] = requests[p]
          /\ requests'[r].st # "held"
      BY <1>1, <2>4 DEF TypeOK, CheckExpired, CheckExpiring
    <3>3. QED
      BY <2>4, <3>1, <3>2, HeldStays
  <2>5. ASSUME NEW r \in Request, Proceed(r), over' = over PROVE HeldOK(q)'
    BY <2>5, ProceedHolds
  <2>6. ASSUME NEW k \in Callback, RefreshSettles(k) \/ CallbackSettles(k) PROVE HeldOK(q)'
    <3>1. requests[q].st # "held" /\ requests' = requests
      BY <2>6 DEF RefreshSettles, CallbackSettles, Holding
    <3>2. QED
      BY <3>1 DEF HeldOK
  <2>7. CASE Reactions /\ over' = over
    BY <2>3, <2>4, <2>5, <2>6, <2>7 DEF Reactions
  <2>8. QED
    BY <2>1, <2>2, <2>7, TurnOrReaction
<1>4. QED
  BY <1>2, <1>3 DEF HeldInv

THEOREM HeldInvariance == Spec => []HeldInv
<1>1. Init => HeldInv
  BY DEF Init, HeldInv, HeldOK
<1>2. SessionInv /\ HeldInv /\ [Next]_vars => HeldInv'
  BY HeldNext
<1>3. QED
  BY <1>1, <1>2, SessionInvariance, PTL DEF Spec

(* Once a turn has ended a session, no request that waited with it is      *)
(* granted anything in a later turn; in the same one, only beside a logout *)
(* of that session.                                                        *)
THEOREM EndRefusesRequests == Spec => GrantedWhileLive
<1> DEFINE Lives == \A r \in Request : requests[r].st # "ok" /\ requests'[r].st = "ok" =>
              LET k == requests[r].key
              IN  \/ k \in Live
                  \/ /\ k \notin over
                     /\ \E q \in Request : /\ requests[q].st = "ok" /\ requests[q].logout
                                           /\ requests[q].key = k
<1>1. ASSUME SessionInv, HeldInv, [Next]_vars PROVE Lives
  <2>1. \A r \in Request : Granted(r) /\ HeldOK(r)
    BY <1>1, SessionNext DEF Fair, HeldInv
  <2>2. QED
    BY <2>1 DEF Granted, HeldOK, LogoutOf
<1>2. SessionInv /\ HeldInv /\ [Next]_vars => [Lives]_vars
  BY <1>1
<1>3. GrantedWhileLive <=> [][Lives]_vars
  BY DEF GrantedWhileLive
<1> HIDE DEF Lives
<1>4. QED
  BY <1>2, <1>3, SessionInvariance, HeldInvariance, PTL DEF Spec

(* A request is granted the role of the newest token its session holds.    *)
THEOREM RolesAreCurrent == Spec => RoleIsCurrent
<1> DEFINE Current == \A r \in Request : requests[r].st # "ok" /\ requests'[r].st = "ok"
                         => LET k == requests[r].key
                            IN  requests'[r].role = grants[k][sessions'[k].tok]
<1>1. ASSUME SessionInv, [Next]_vars PROVE Current
  BY <1>1, SessionNext DEF Fair, Granted
<1>2. SessionInv /\ [Next]_vars => [Current]_vars
  BY <1>1
<1>3. RoleIsCurrent <=> [][Current]_vars
  BY DEF RoleIsCurrent
<1> HIDE DEF Current
<1>4. QED
  BY <1>2, <1>3, SessionInvariance, PTL DEF Spec
=============================================================================
