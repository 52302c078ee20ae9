--------------------------- MODULE SessionBoundary ---------------------------
(***************************************************************************)
(* flows/demonstrator/identity-on-start.js, class UIAuth: the sessions the *)
(* Control UI's backend keeps for browsers that log in at Keycloak.        *)
(*                                                                         *)
(* The code runs on an event loop.  An action is one turn of it, up to the *)
(* next await, or one promise reaction of a turn; while a turn has more of *)
(* them to run (Busy) nothing else happens.  Reactions run in the order in *)
(* which they were queued.  The requests that one event releases all pass  *)
(* the end of session() before the handler that awaits it goes on for any  *)
(* of them, and a turn that ends the wait for keys resumes the requests    *)
(* before the token responses: these have a second token to verify.        *)
(*                                                                         *)
(* A session is known by the callback request that made it.  Its tokens    *)
(* are numbered: version v is the v-th that Keycloak granted to it, and    *)
(* carries the role the user had then.  That a token is close to its end,  *)
(* or past it, and that a session is idle or too old, may be found whenever*)
(* the code looks.  Keys of the provider do not change.                    *)
(***************************************************************************)
EXTENDS Naturals, Sequences, FiniteSets

CONSTANTS
    Callback,        \* callback requests, and the sessions they make
    Tx,              \* login transactions
    Request,         \* requests with a session cookie
    Sso,             \* sessions of the user at Keycloak
    Role,
    None,
    Limit,           \* the sessions, and the transactions, kept at most
    MaxVersions,     \* bound: tokens granted to one session
    MaxResets        \* bound

Version == 1..MaxVersions
Session == [live : BOOLEAN, sso : Sso, tok : Version, role : Role, gen : 0..MaxResets]
CallbackState == [st : {"unused", "sent", "granted", "refused", "keys", "done"},
                  tx : Tx \cup {None}, old : Callback \cup {None}, sso : Sso \cup {None},
                  gen : 0..MaxResets]

ASSUME BoundaryAssumption ==
    /\ Limit \in Nat \ {0}
    /\ MaxVersions \in Nat \ {0}
    /\ MaxResets \in Nat
    /\ None \notin Callback \cup Tx \cup Role \cup Sso \cup Session
    /\ IsFiniteSet(Callback) /\ IsFiniteSet(Tx)

VARIABLES
    sessions,        \* the sessions made, live while this.sessions has them
    tx,              \* this.transactions: "new", "open" or "gone"
    callbacks,       \* the callback requests
    refreshes,       \* this.refreshes: the refresh of a session in flight
    requests,        \* the requests with a cookie
    keys,            \* the provider's keys: "fresh", "stale" or "fetching"
    generation,      \* this.generation
    alive,           \* Keycloak: its sessions that have not ended
    role,            \*   the user's role
    grants,          \*   the roles in the tokens granted to a session
    used,            \*   the refresh tokens presented to it
    notified,        \* history: ended Keycloak sessions announced here
    over             \*   sessions that had ended before the current turn

boundaryVars == <<sessions, tx, callbacks, refreshes, requests, keys, generation>>
keycloakVars == <<alive, role, grants, used>>
vars == <<boundaryVars, keycloakVars, notified, over>>

TypeOK ==
    /\ sessions \in [Callback -> Session \cup {None}]
    /\ tx \in [Tx -> {"new", "open", "gone"}]
    /\ callbacks \in [Callback -> CallbackState]
    /\ refreshes \in [Callback ->
          [st : {"none", "sent", "granted", "refused", "keys"}, tok : Version \cup {None}]]
    /\ requests \in [Request ->
          [st : {"unused", "keys", "refresh", "held", "ok", "refused"},
           key : Callback \cup {None}, tok : Version \cup {None}, role : Role \cup {None},
           logout : BOOLEAN]]
    /\ keys \in {"fresh", "stale", "fetching"}
    /\ generation \in 0..MaxResets
    /\ alive \subseteq Sso
    /\ role \in Role
    /\ grants \in [Callback -> Seq(Role)]
    /\ used \in [Callback -> SUBSET Version]
    /\ notified \subseteq Sso \ alive
    /\ over \subseteq Callback

Live == {k \in Callback : sessions[k] # None /\ sessions[k].live}
Ended == {k \in Callback : sessions[k] # None /\ ~sessions[k].live}
OfSso(x) == {k \in Live : sessions[k].sso = x}

(* The sessions after those of gone are deleted: their records stay        *)
(* reachable from the requests that hold them.                             *)
Deleted(gone) ==
    [k \in Callback |-> IF k \in gone \cap Live THEN [sessions[k] EXCEPT !.live = FALSE]
                        ELSE sessions[k]]

(* Reactions the current turn has left to run: requests whose token can be *)
(* checked, or whose refresh has settled; requests that hold their session *)
(* and whose handler goes on; token responses to verify.                   *)
Checking == {r \in Request : requests[r].st = "keys"}
Settled(r) == requests[r].st = "refresh" /\ refreshes[requests[r].key].st = "none"
Released ==
    {r \in Request : Settled(r)} \cup (IF keys = "fresh" THEN Checking ELSE {})
Holding == {r \in Request : requests[r].st = "held"}
Busy ==
    \/ Released \cup Holding # {}
    \/ /\ keys = "fresh"
       /\ \E k \in Callback : refreshes[k].st = "keys" \/ callbacks[k].st = "keys"

(* The next turn begins once the current one has nothing left to run.      *)
Turn == ~Busy /\ over' = Ended

(* jwks: keys older than a minute are fetched anew, once for all who wait. *)
KeysWanted == keys' = IF keys = "stale" THEN "fetching" ELSE keys

-----------------------------------------------------------------------------
Init ==
    /\ sessions = [k \in Callback |-> None]
    /\ tx = [t \in Tx |-> "new"]
    /\ callbacks = [c \in Callback |-> [st |-> "unused", tx |-> None, old |-> None,
                                        sso |-> None, gen |-> 0]]
    /\ refreshes = [k \in Callback |-> [st |-> "none", tok |-> None]]
    /\ requests = [r \in Request |-> [st |-> "unused", key |-> None, tok |-> None,
                                      role |-> None, logout |-> FALSE]]
    /\ keys = "stale"
    /\ generation = 0
    /\ alive = Sso
    /\ role \in Role
    /\ grants = [k \in Callback |-> <<>>]
    /\ used = [k \in Callback |-> {}]
    /\ notified = {}
    /\ over = {}

-----------------------------------------------------------------------------
(* Login. *)

Open == {t \in Tx : tx[t] = "open"}

Login(t) ==
    /\ Turn
    /\ tx[t] = "new"
    /\ Cardinality(Open) < Limit
    /\ tx' = [tx EXCEPT ![t] = "open"]
    /\ UNCHANGED <<sessions, callbacks, refreshes, requests, keys, generation,
                   keycloakVars, notified>>

(* Defect variant: the transaction outlives the exchange of its code. *)
CallbackKeepsTx(c, t, old) ==
    /\ Turn
    /\ callbacks[c].st = "unused"
    /\ tx[t] = "open"
    /\ Cardinality(Live) < Limit
    /\ callbacks' = [callbacks EXCEPT ![c] =
          [st |-> "sent", tx |-> t, old |-> old, sso |-> None, gen |-> generation]]
    /\ UNCHANGED <<sessions, tx, refreshes, requests, keys, generation, keycloakVars, notified>>

(* callbackHandler up to its first await: the transaction is used up, and  *)
(* the code goes to Keycloak unless the sessions are at their limit.       *)
CallbackBegin(c, t, old) ==
    /\ Turn
    /\ callbacks[c].st = "unused"
    /\ tx[t] = "open"
    /\ tx' = [tx EXCEPT ![t] = "gone"]
    /\ callbacks' = [callbacks EXCEPT ![c] =
          [st |-> IF Cardinality(Live) >= Limit THEN "done" ELSE "sent",
           tx |-> t, old |-> old, sso |-> None, gen |-> generation]]
    /\ UNCHANGED <<sessions, refreshes, requests, keys, generation, keycloakVars, notified>>

(* One with a wrong state, or without a code, uses the transaction up too; *)
(* a clean-up drops one that is five minutes old.                          *)
TxLost(t) ==
    /\ Turn
    /\ tx[t] = "open"
    /\ tx' = [tx EXCEPT ![t] = "gone"]
    /\ UNCHANGED <<sessions, callbacks, refreshes, requests, keys, generation,
                   keycloakVars, notified>>

(* The response to the code: its tokens are verified, with keys. *)
CallbackAnswered(c) ==
    /\ Turn
    /\ callbacks[c].st = "granted"
    /\ callbacks' = [callbacks EXCEPT ![c].st = "keys"]
    /\ KeysWanted
    /\ UNCHANGED <<sessions, tx, refreshes, requests, generation, keycloakVars, notified>>

(* No response, or a refusal. *)
CallbackFails(c) ==
    /\ Turn
    /\ callbacks[c].st \in {"sent", "granted", "refused"}
    /\ callbacks' = [callbacks EXCEPT ![c].st = "done"]
    /\ UNCHANGED <<sessions, tx, refreshes, requests, keys, generation, keycloakVars, notified>>

MakeSession(c) ==
    LET kept == Deleted({callbacks[c].old})
    IN  sessions' = [kept EXCEPT ![c] =
            [live |-> TRUE, sso |-> callbacks[c].sso, tok |-> 1, role |-> grants[c][1],
             gen |-> callbacks[c].gen]]

(* Defect variant: a reset during the exchange goes unnoticed. *)
CallbackSettlesAnyway(c) ==
    /\ callbacks[c].st = "keys" /\ keys = "fresh" /\ Checking \cup Holding = {}
    /\ callbacks' = [callbacks EXCEPT ![c].st = "done"]
    /\ MakeSession(c)
    /\ UNCHANGED <<tx, refreshes, requests, keys, generation, keycloakVars, notified, over>>

(* The rest of callbackHandler: the tokens are verified; unless there was  *)
(* a reset since, the session the browser had goes and the new one comes.  *)
CallbackSettles(c) ==
    /\ callbacks[c].st = "keys" /\ keys = "fresh" /\ Checking \cup Holding = {}
    /\ callbacks' = [callbacks EXCEPT ![c].st = "done"]
    /\ IF callbacks[c].gen = generation THEN MakeSession(c) ELSE UNCHANGED sessions
    /\ UNCHANGED <<tx, refreshes, requests, keys, generation, keycloakVars, notified, over>>

-----------------------------------------------------------------------------
(* Use of a session: session(), under status, command and logout. *)

(* A cookie without a session is answered at once. *)
BeginRefused(r, k) ==
    /\ Turn
    /\ requests[r].st = "unused"
    /\ k \notin Live
    /\ requests' = [requests EXCEPT ![r].st = "refused", ![r].key = k]
    /\ UNCHANGED <<sessions, tx, callbacks, refreshes, keys, generation, keycloakVars, notified>>

(* So is one whose access token is past its end: the session goes. *)
BeginExpired(r, k) ==
    /\ Turn
    /\ requests[r].st = "unused"
    /\ k \in Live
    /\ sessions' = Deleted({k})
    /\ requests' = [requests EXCEPT ![r].st = "refused", ![r].key = k]
    /\ UNCHANGED <<tx, callbacks, refreshes, keys, generation, keycloakVars, notified>>

(* Otherwise the access token the session holds now is verified. *)
Begin(r, k, logout) ==
    /\ Turn
    /\ requests[r].st = "unused"
    /\ k \in Live
    /\ requests' = [requests EXCEPT ![r] = [st |-> "keys", key |-> k, tok |-> sessions[k].tok,
                                            role |-> None, logout |-> logout]]
    /\ KeysWanted
    /\ UNCHANGED <<sessions, tx, callbacks, refreshes, generation, keycloakVars, notified>>

(* The token has ended while the keys were awaited. *)
CheckExpired(r) ==
    /\ requests[r].st = "keys" /\ keys = "fresh"
    /\ requests' = [requests EXCEPT ![r].st = "refused"]
    /\ UNCHANGED <<sessions, tx, callbacks, refreshes, keys, generation, keycloakVars,
                   notified, over>>

(* The record of the session takes the role of the token just verified. *)
Verified(r) ==
    [sessions EXCEPT ![requests[r].key].role = grants[requests[r].key][requests[r].tok]]

(* Defect variant: the session is not looked up again. *)
ReturnUnchecked(r, s) ==
    /\ requests' = [requests EXCEPT ![r].st = "held"]
    /\ sessions' = s

(* The end of session(), which leaves the sessions s: the request holds    *)
(* the session while it is there, or is refused.                           *)
Return(r, s) ==
    /\ requests' = [requests EXCEPT
          ![r].st = IF requests[r].key \in Live THEN "held" ELSE "refused"]
    /\ sessions' = s

(* More than a minute left. *)
CheckFresh(r) ==
    /\ requests[r].st = "keys" /\ keys = "fresh"
    /\ Return(r, Verified(r))
    /\ UNCHANGED <<tx, callbacks, refreshes, keys, generation, keycloakVars, notified, over>>

(* Less: the request joins the refresh in flight, or starts one.  (Whether *)
(* the session is still there is not asked first.)                         *)
CheckExpiring(r) ==
    LET k == requests[r].key
    IN  /\ requests[r].st = "keys" /\ keys = "fresh"
        /\ Len(grants[k]) < MaxVersions
        /\ requests' = [requests EXCEPT ![r].st = "refresh"]
        /\ sessions' = Verified(r)
        /\ refreshes' = IF refreshes[k].st # "none" THEN refreshes
                        ELSE [refreshes EXCEPT ![k] = [st |-> "sent", tok |-> sessions[k].tok]]
        /\ UNCHANGED <<tx, callbacks, keys, generation, keycloakVars, notified, over>>

(* The refresh a request waited for has settled. *)
Answer(r) ==
    /\ Settled(r)
    /\ Return(r, sessions)
    /\ UNCHANGED <<tx, callbacks, refreshes, keys, generation, keycloakVars, notified, over>>

(* Defect variant: the answer is the role of the token first verified. *)
ProceedAsVerified(r) ==
    LET k == requests[r].key
    IN  /\ requests[r].st = "held" /\ Released = {}
        /\ requests' = [requests EXCEPT ![r].st = "ok",
                                        ![r].role = grants[k][requests[r].tok]]
        /\ sessions' = Deleted(IF requests[r].logout THEN {k} ELSE {})
        /\ UNCHANGED <<tx, callbacks, refreshes, keys, generation, keycloakVars, notified, over>>

(* The handler that awaited session(): status and command go by the role   *)
(* of the session they hold, a logout deletes it.                          *)
Proceed(r) ==
    LET k == requests[r].key
    IN  /\ requests[r].st = "held" /\ Released = {}
        /\ requests' = [requests EXCEPT ![r].st = "ok", ![r].role = sessions[k].role]
        /\ sessions' = Deleted(IF requests[r].logout THEN {k} ELSE {})
        /\ UNCHANGED <<tx, callbacks, refreshes, keys, generation, keycloakVars, notified, over>>

(* The response to a refresh: its tokens are verified, with keys. *)
RefreshAnswered(k) ==
    /\ Turn
    /\ refreshes[k].st = "granted"
    /\ refreshes' = [refreshes EXCEPT ![k].st = "keys"]
    /\ KeysWanted
    /\ UNCHANGED <<sessions, tx, callbacks, requests, generation, keycloakVars, notified>>

NoRefresh(k) == [refreshes EXCEPT ![k] = [st |-> "none", tok |-> None]]

(* Defect variant: a refresh that fails leaves the session alone. *)
RefreshFailsGently(k) ==
    /\ Turn
    /\ refreshes[k].st \in {"sent", "granted", "refused"}
    /\ refreshes' = NoRefresh(k)
    /\ UNCHANGED <<sessions, tx, callbacks, requests, keys, generation, keycloakVars, notified>>

(* Defect variant: a refresh waits for its response without a limit. *)
RefreshFailsNoTimeout(k) ==
    /\ Turn
    /\ refreshes[k].st \in {"granted", "refused"}
    /\ refreshes' = NoRefresh(k)
    /\ sessions' = Deleted({k})
    /\ UNCHANGED <<tx, callbacks, requests, keys, generation, keycloakVars, notified>>

(* No response, or a refusal: the session goes. *)
RefreshFails(k) ==
    /\ Turn
    /\ refreshes[k].st \in {"sent", "granted", "refused"}
    /\ refreshes' = NoRefresh(k)
    /\ sessions' = Deleted({k})
    /\ UNCHANGED <<tx, callbacks, requests, keys, generation, keycloakVars, notified>>

(* Defect variant: the refreshed session is put back in its place. *)
RefreshRestores(k) ==
    /\ refreshes[k].st = "keys" /\ keys = "fresh" /\ Checking \cup Holding = {}
    /\ refreshes' = NoRefresh(k)
    /\ sessions' = [sessions EXCEPT ![k].tok = refreshes[k].tok,
                                    ![k].role = grants[k][refreshes[k].tok], ![k].live = TRUE]
    /\ UNCHANGED <<tx, callbacks, requests, keys, generation, keycloakVars, notified, over>>

(* The new tokens are verified: a session that is still there takes them.  *)
RefreshSettles(k) ==
    /\ refreshes[k].st = "keys" /\ keys = "fresh" /\ Checking \cup Holding = {}
    /\ refreshes' = NoRefresh(k)
    /\ sessions' = IF k \in Live
                   THEN [sessions EXCEPT ![k].tok = refreshes[k].tok,
                                         ![k].role = grants[k][refreshes[k].tok]]
                   ELSE sessions
    /\ UNCHANGED <<tx, callbacks, requests, keys, generation, keycloakVars, notified, over>>

-----------------------------------------------------------------------------
(* Keys. *)

KeysAge ==
    /\ Turn
    /\ keys = "fresh"
    /\ keys' = "stale"
    /\ UNCHANGED <<sessions, tx, callbacks, refreshes, requests, generation,
                   keycloakVars, notified>>

KeysArrive ==
    /\ Turn
    /\ keys = "fetching"
    /\ keys' = "fresh"
    /\ UNCHANGED <<sessions, tx, callbacks, refreshes, requests, generation,
                   keycloakVars, notified>>

(* The fetch fails for all who wait: a request is refused and keeps its    *)
(* session, a login fails, a refresh fails and its session goes.           *)
KeysFail ==
    LET Refreshing == {k \in Callback : refreshes[k].st = "keys"}
    IN  /\ Turn
        /\ keys = "fetching"
        /\ keys' = "stale"
        /\ requests' = [r \in Request |->
              IF r \in Checking THEN [requests[r] EXCEPT !.st = "refused"] ELSE requests[r]]
        /\ callbacks' = [c \in Callback |->
              IF callbacks[c].st = "keys" THEN [callbacks[c] EXCEPT !.st = "done"]
              ELSE callbacks[c]]
        /\ refreshes' = [k \in Callback |->
              IF k \in Refreshing THEN [st |-> "none", tok |-> None] ELSE refreshes[k]]
        /\ sessions' = Deleted(Refreshing)
        /\ UNCHANGED <<tx, generation, keycloakVars, notified>>

-----------------------------------------------------------------------------
(* Ends of sessions. *)

(* The clean-up of any request finds the session idle or too old. *)
Timeout(k) ==
    /\ Turn
    /\ k \in Live
    /\ sessions' = Deleted({k})
    /\ UNCHANGED <<tx, callbacks, refreshes, requests, keys, generation, keycloakVars, notified>>

(* Defect variant: a session that is being refreshed is passed over. *)
LogoutNoticePassesRefreshed(x) ==
    /\ Turn
    /\ x \notin alive
    /\ sessions' = Deleted({k \in OfSso(x) : refreshes[k].st = "none"})
    /\ notified' = notified \cup {x}
    /\ UNCHANGED <<tx, callbacks, refreshes, requests, keys, generation, keycloakVars>>

(* backchannel, once its token is verified, and frontchannel. *)
LogoutNotice(x) ==
    /\ Turn
    /\ x \notin alive
    /\ sessions' = Deleted(OfSso(x))
    /\ notified' = notified \cup {x}
    /\ UNCHANGED <<tx, callbacks, refreshes, requests, keys, generation, keycloakVars>>

Reset ==
    /\ Turn
    /\ generation < MaxResets
    /\ generation' = generation + 1
    /\ sessions' = Deleted(Callback)
    /\ tx' = [t \in Tx |-> IF tx[t] = "open" THEN "gone" ELSE tx[t]]
    /\ UNCHANGED <<callbacks, refreshes, requests, keys, keycloakVars, notified>>

-----------------------------------------------------------------------------
(* Keycloak, as the boundary relies on it. *)

ExchangeCode(c, x) ==
    /\ Turn
    /\ callbacks[c].st = "sent"
    /\ IF x \in alive
       THEN /\ callbacks' = [callbacks EXCEPT ![c].st = "granted", ![c].sso = x]
            /\ grants' = [grants EXCEPT ![c] = <<role>>]
       ELSE /\ callbacks' = [callbacks EXCEPT ![c].st = "refused"]
            /\ UNCHANGED grants
    /\ UNCHANGED <<sessions, tx, refreshes, requests, keys, generation, alive, role, used,
                   notified>>

(* Refresh tokens rotate; the reuse of one ends the session at Keycloak.   *)
ExchangeRefresh(k) ==
    LET v == refreshes[k].tok
        x == sessions[k].sso
        valid == x \in alive /\ v = Len(grants[k])
    IN  /\ Turn
        /\ refreshes[k].st = "sent"
        /\ used' = [used EXCEPT ![k] = @ \cup {v}]
        /\ refreshes' = [refreshes EXCEPT ![k] =
              IF valid THEN [st |-> "granted", tok |-> v + 1] ELSE [st |-> "refused", tok |-> v]]
        /\ grants' = IF valid THEN [grants EXCEPT ![k] = Append(@, role)] ELSE grants
        /\ alive' = IF v \in used[k] THEN alive \ {x} ELSE alive
        /\ UNCHANGED <<sessions, tx, callbacks, requests, keys, generation, role, notified>>

EndSso(x) ==
    /\ Turn
    /\ x \in alive
    /\ alive' = alive \ {x}
    /\ UNCHANGED <<boundaryVars, role, grants, used, notified>>

ChangeRole ==
    /\ Turn
    /\ role' \in Role \ {role}
    /\ UNCHANGED <<boundaryVars, alive, grants, used, notified>>

-----------------------------------------------------------------------------
Reactions ==
    \/ \E r \in Request :
          \/ CheckExpired(r) \/ CheckFresh(r) \/ CheckExpiring(r)
          \/ Answer(r) \/ Proceed(r)
    \/ \E k \in Callback : RefreshSettles(k) \/ CallbackSettles(k)

Next ==
    \/ Reactions
    \/ \E t \in Tx :
          \/ Login(t) \/ TxLost(t)
          \/ \E c \in Callback, old \in Callback \cup {None} : CallbackBegin(c, t, old)
    \/ \E r \in Request, k \in Callback :
          \/ BeginRefused(r, k) \/ BeginExpired(r, k)
          \/ \E logout \in BOOLEAN : Begin(r, k, logout)
    \/ \E k \in Callback :
          \/ CallbackAnswered(k) \/ CallbackFails(k)
          \/ RefreshAnswered(k) \/ RefreshFails(k) \/ Timeout(k)
          \/ ExchangeRefresh(k)
          \/ \E x \in Sso : ExchangeCode(k, x)
    \/ KeysAge \/ KeysArrive \/ KeysFail
    \/ \E x \in Sso : LogoutNotice(x) \/ EndSso(x)
    \/ Reset \/ ChangeRole

Spec == Init /\ [][Next]_vars

(* Turns run to their end, and every call to Keycloak is answered or times *)
(* out after ten seconds.                                                  *)
FairSpec ==
    /\ Spec
    /\ WF_vars(Reactions)
    /\ WF_vars(KeysArrive \/ KeysFail)
    /\ \A k \in Callback : WF_vars(RefreshAnswered(k) \/ RefreshFails(k))

-----------------------------------------------------------------------------
(* PROPERTIES *)

(* A login transaction makes one session at most, however often its        *)
(* callback is delivered.                                                  *)
OneSessionPerLogin ==
    \A c, d \in Callback :
        sessions[c] # None /\ sessions[d] # None /\ callbacks[c].tx = callbacks[d].tx => c = d

(* No session of a login that was under way at a reset outlives it.        *)
NoSessionAcrossReset == \A k \in Live : sessions[k].gen = generation

(* A session that has ended, by logout, expiry or a notice, stays ended,   *)
(* whatever refresh was in flight.                                         *)
EndedStaysEnded ==
    [][\A k \in Callback : sessions[k] # None /\ ~sessions[k].live => k \notin Live']_vars

(* "After each logout, a command with the previous session cookie must     *)
(* return 401": once a turn of the event loop has ended a session, by      *)
(* logout or otherwise, no request that waited with it is granted anything *)
(* in a later one.  Within the turn, only those are that were released     *)
(* together with a logout and whose handlers go on after the logout's.     *)
GrantedWhileLive ==
    [][\A r \in Request : requests[r].st # "ok" /\ requests'[r].st = "ok" =>
          LET k == requests[r].key
          IN  \/ k \in Live
              \/ /\ k \notin over
                 /\ \E q \in Request : /\ requests[q].st = "ok" /\ requests[q].logout
                                       /\ requests[q].key = k]_vars

(* A request is granted the role of the newest token its session holds,    *)
(* never the one of a token that was replaced while it waited.             *)
RoleIsCurrent ==
    [][\A r \in Request : requests[r].st # "ok" /\ requests'[r].st = "ok"
            => LET k == requests[r].key
               IN  requests'[r].role = grants[k][sessions'[k].tok]]_vars

(* A live session that is not being refreshed holds the newest refresh     *)
(* token Keycloak granted it, one that was never presented: it never       *)
(* brings the reuse detection down on itself.                              *)
HoldsUnusedRefresh ==
    \A k \in Live : refreshes[k].st = "none" =>
        /\ sessions[k].tok = Len(grants[k])
        /\ sessions[k].tok \notin used[k]

(* "so a server-side session ends with the Keycloak session": once the end *)
(* of a Keycloak session has been announced, no session of it is live.     *)
EndsWithSso == \A x \in notified : OfSso(x) = {}

(* What holds: such a session is one whose login was under way during the  *)
(* announcement, and it is never refreshed: it ends with its first token.  *)
OrphanEndsWithItsToken ==
    \A x \in notified : \A k \in OfSso(x) : sessions[k].tok = 1 /\ Len(grants[k]) = 1

(* Every request is answered. *)
EveryRequestAnswered ==
    \A r \in Request :
        requests[r].st \in {"keys", "refresh", "held"} ~> requests[r].st \in {"ok", "refused"}
=============================================================================
