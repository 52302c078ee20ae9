------------------------------ MODULE ControlUI ------------------------------
(***************************************************************************)
(* ui/demonstrator/src/index.js: one page of the Control UI in front of    *)
(* the run it shares with other operators.  The page polls its session and *)
(* the run, sends commands, and shows what it was answered; it compares an *)
(* epoch after every await, and drops what an older exchange answers.      *)
(*                                                                         *)
(* An action is one turn of the browser, or the service that answers an    *)
(* exchange.  An epoch is what it decides: an exchange is fresh until the  *)
(* epoch it captured is left behind.  "ended" stands for the states        *)
(* "logged out" and "expired", "unavailable" also for "denied".            *)
(***************************************************************************)
EXTENDS SharedRun

CONSTANTS
    Installed,       \* how the page may be installed, with the bounds on what
                     \* its user does and on the exchanges that fail
    MaxSessions,     \* bound: sessions of this browser
    None

ASSUME UIAssumption ==
    /\ Installed \subseteq [mode : {"redirect", "password", "fixture"}, clicks : Nat, faults : Nat]
    /\ MaxSessions \in Nat \ {0}
    /\ None \notin Snapshot

VARIABLES
    mode,            \* facis-auth-mode and facis-login-mode; "fixture" is without identity
    ui,              \* the page: its identity, its component and its exchanges,
                     \* and the last snapshot it showed (history)
    cookie, alive,   \* the browser's session, and whether the boundary still knows it
    role,            \* whether its user has one of the roles
    wire,            \* ioConnected: the socket of the fixture mode
    faults, clicks   \* what is left of the bounds

browser == <<mode, cookie, alive, role, wire, faults, clicks>>
vars == <<shared, mode, ui, cookie, alive, role, wire, faults, clicks>>

Commands == {"start", "next", "reset"}
Journey == Commands \cup {"status"}
Waits == {"page", "poll", "login", "resync", "dispatch", "logout"}
Code == {"ok", "stale", "refused", "timeout", "lost", "failed", "unauthorized",
         "denied"}

Exchanges ==
    [kind : Journey \cup {"session", "login", "logout"}, waits : Waits, run : 0..MaxRuns,
     session : 0..MaxSessions, fresh : BOOLEAN,
     reply : {None} \cup [code : Code, state : {None} \cup Snapshot]]

PageState ==
    [identity : {"fixture", "connecting", "authenticated", "unavailable", "ended"},
     view : {None} \cup Snapshot, shown : Snapshot, available : BOOLEAN, loading : BOOLEAN,
     connection : {"connecting", "connected", "disconnected", "unavailable"},
     pendingPoll : BOOLEAN, identityPoll : BOOLEAN, pollBusy : BOOLEAN,
     loginBusy : BOOLEAN, calls : SUBSET Exchanges]

-----------------------------------------------------------------------------
(* What a turn does to the page. *)

Started(u) == u.view # None /\ u.view.phase # "none"
isServicePending(u) == u.view # None /\ u.view.phase = "pending"

(* this.epoch += 1, and identityEpoch++ *)
Stale(u) == [u EXCEPT !.calls = {[c EXCEPT !.fresh = @ /\ c.kind \notin Journey] : c \in @}]
IdStale(u) == [u EXCEPT !.calls = {[c EXCEPT !.fresh = @ /\ c.kind \in Journey] : c \in @}]

Exchange(kind, waits, run) ==
    [kind |-> kind, waits |-> waits, run |-> run, session |-> cookie,
     fresh |-> TRUE, reply |-> None]

(* Without its socket the page tries to connect first. *)
Send(u, c) ==
    IF wire THEN [u EXCEPT !.calls = @ \cup {c}]
    ELSE [u EXCEPT !.calls = @ \cup {c}, !.connection = "connecting", !.available = FALSE]

(* Defect variant: the epoch is left as it is. *)
publishOnly(u, state) ==
    IF state = "authenticated" THEN [u EXCEPT !.identity = state]
    ELSE [u EXCEPT !.identity = state, !.view = None, !.available = FALSE,
                   !.pendingPoll = FALSE, !.identityPoll = @ /\ state # "ended"]

(* publish, and the component that observes it: without a session nothing  *)
(* of the run stays on the page, and without a login it stops polling.     *)
publish(u, state) ==
    IF state = "authenticated" THEN [u EXCEPT !.identity = state]
    ELSE [Stale(u) EXCEPT !.identity = state, !.view = None, !.available = FALSE,
                          !.pendingPoll = FALSE, !.identityPoll = @ /\ state # "ended"]

(* The end of pollIdentity. *)
PollAgain(u) == [u EXCEPT !.pollBusy = FALSE, !.identityPoll = u.identity # "ended"]

(* Defect variant: a poll that finds a login under way is not put off. *)
pollUnlessLogin(u) ==
    IF u.pollBusy \/ u.identity = "ended" \/ u.loginBusy THEN [u EXCEPT !.identityPoll = FALSE]
    ELSE Send([u EXCEPT !.identityPoll = FALSE, !.pollBusy = TRUE], Exchange("session", "poll", 0))

pollIdentity(u) ==
    IF u.pollBusy \/ u.identity = "ended" THEN u
    ELSE IF u.loginBusy THEN [u EXCEPT !.identityPoll = TRUE]
    ELSE Send([u EXCEPT !.identityPoll = FALSE, !.pollBusy = TRUE], Exchange("session", "poll", 0))

(* What comes after the await of a syncStatus. *)
Resume(u, waits) ==
    CASE waits = "poll" -> PollAgain(u)
      [] waits = "login" -> [pollIdentity(u) EXCEPT !.loginBusy = FALSE]
      [] waits = "resync" -> [u EXCEPT !.loading = FALSE]
      [] OTHER -> u

(* Without a session the status is refused before it is sent. *)
syncStatus(u, waits) ==
    IF mode # "fixture" /\ u.identity # "authenticated"
    THEN Resume([Stale(u) EXCEPT !.available = FALSE], waits)
    ELSE Send(Stale(u), Exchange("status", waits, 0))

applyFlowState(u, state) ==
    [u EXCEPT !.view = state, !.shown = state, !.available = TRUE, !.connection = "connected",
              !.pendingPoll = state.phase = "pending"]

(* Defect variant: the epoch is not compared after the await. *)
StatusAnsweredAnyway(u, c) ==
    Resume(IF c.reply.code = "unauthorized" THEN publish(u, "ended")
           ELSE IF c.reply.code = "ok" THEN applyFlowState(u, c.reply.state)
           ELSE IF ~c.fresh THEN u
           ELSE [u EXCEPT !.available = FALSE], c.waits)

StatusAnswered(u, c) ==
    Resume(IF c.reply.code = "unauthorized" THEN publish(u, "ended")
           ELSE IF ~c.fresh THEN u
           ELSE IF c.reply.code = "ok" THEN applyFlowState(u, c.reply.state)
           ELSE [u EXCEPT !.available = FALSE], c.waits)

(* The rest of dispatch, with resyncAfter; loading ends in any case. *)
CommandAnswered(u, c) ==
    LET done == [u EXCEPT !.loading = FALSE]
    IN  IF c.reply.code = "unauthorized" THEN publish(done, "ended")
        ELSE IF ~c.fresh THEN done
        ELSE CASE c.reply.code = "ok" ->
                     IF c.kind = "next" /\ c.reply.state.id # c.run THEN syncStatus(done, "resync")
                     ELSE applyFlowState(done, c.reply.state)
               [] c.reply.code = "stale" -> syncStatus(done, "resync")
               [] c.reply.code = "timeout" -> syncStatus([done EXCEPT !.available = FALSE], "resync")
               [] c.reply.code = "lost" -> [done EXCEPT !.available = FALSE]
               [] OTHER -> done

Refreshed(u, c) ==
    IF ~c.fresh THEN u
    ELSE publish(u, CASE c.reply.code = "ok" -> "authenticated"
                      [] c.reply.code = "unauthorized" -> "ended"      \* whatever its status
                      [] OTHER -> "unavailable")

(* Defect variant: a poll reads the status only as long as there is none. *)
SessionAnsweredOnce(u, c) ==
    LET value == Refreshed(u, c)
    IN  IF value.identity = "authenticated" /\ value.view = None THEN syncStatus(value, "poll")
        ELSE PollAgain(value)

(* The rest of pollIdentity. *)
SessionAnswered(u, c) ==
    LET value == Refreshed(u, c)
    IN  IF value.identity = "authenticated" /\ ~value.loading /\ ~isServicePending(value)
        THEN syncStatus(value, "poll")
        ELSE PollAgain(value)

LoginAnswered(u, c) ==
    IF c.fresh /\ c.reply.code \in {"ok", "denied"}
    THEN LET state == IF c.reply.code = "ok" THEN "authenticated" ELSE "unavailable"
         IN  syncStatus(publish(u, state), "login")
    ELSE [u EXCEPT !.loginBusy = FALSE]

(* Only a session that was gone before is published: the redirect that     *)
(* follows a logout is an error to fetch, and the next poll finds it out.  *)
LogoutAnswered(u, c) ==
    IF c.reply.code = "unauthorized" THEN publish(u, "ended") ELSE u

-----------------------------------------------------------------------------
(* The page opens: its first session poll, or its first status. *)
Opened(session, before) ==
    LET first == IF mode = "fixture" THEN Exchange("status", "page", 0)
                 ELSE [Exchange("session", "poll", 0) EXCEPT !.session = session]
    IN  Send([identity |-> IF mode = "fixture" THEN "fixture" ELSE "connecting",
              view |-> None, shown |-> before, available |-> FALSE, loading |-> FALSE, connection |-> "connecting",
              pendingPoll |-> FALSE, identityPoll |-> FALSE, pollBusy |-> mode # "fixture",
              loginBusy |-> FALSE, calls |-> {}], first)

Init ==
    /\ SharedInit
    /\ \E page \in Installed :
          mode = page.mode /\ clicks = page.clicks /\ faults = page.faults
    /\ cookie = 1 /\ alive = TRUE /\ role = TRUE
    /\ wire = TRUE
    /\ ui = Opened(1, shared)

(* An exchange is answered, and the page takes the answer in a later turn. *)
Answer(c, code) ==
    ui' = [ui EXCEPT !.calls = (@ \ {c}) \cup
              {[c EXCEPT !.reply = [code |-> code, state |->
                  IF code = "ok" /\ c.kind \in Journey THEN shared' ELSE None]]}]

Handle(c) ==
    /\ c.reply # None
    /\ LET u == [ui EXCEPT !.calls = @ \ {c}]
       IN  ui' = CASE c.kind = "status" -> StatusAnswered(u, c)
                   [] c.kind \in Commands -> CommandAnswered(u, c)
                   [] c.kind = "session" -> SessionAnswered(u, c)
                   [] c.kind = "login" -> LoginAnswered(u, c)
                   [] c.kind = "logout" -> LogoutAnswered(u, c)
    /\ UNCHANGED <<shared, browser>>

identityPoll ==
    /\ ui.identityPoll
    /\ ui' = pollIdentity([ui EXCEPT !.identityPoll = FALSE])
    /\ UNCHANGED <<shared, browser>>

pendingPoll ==
    /\ ui.pendingPoll
    /\ ui' = syncStatus([ui EXCEPT !.pendingPoll = FALSE], "page")
    /\ UNCHANGED <<shared, browser>>

-----------------------------------------------------------------------------
(* The services behind the page. *)

Authorized(c) == mode = "fixture" \/ (alive /\ c.session = cookie)

Reaches(c, kind) == c.kind = kind /\ c.reply = None /\ wire /\ Authorized(c)

ServeStatus(c) ==
    /\ Reaches(c, "status")
    /\ UNCHANGED <<shared, browser>>
    /\ Answer(c, "ok")

ServeStart(c) ==
    /\ Reaches(c, "start")
    /\ IF shared.phase \in {"none", "over"} THEN Start /\ Answer(c, "ok")
       ELSE UNCHANGED shared /\ Answer(c, "stale")
    /\ UNCHANGED browser

ServeNext(c) ==
    /\ Reaches(c, "next")
    /\ CASE shared.id = c.run /\ shared.phase = "active" -> Advance /\ Answer(c, "ok")
         [] shared.id = c.run /\ shared.phase = "pending" -> UNCHANGED shared /\ Answer(c, "refused")
         [] OTHER -> UNCHANGED shared /\ Answer(c, "stale")
    /\ UNCHANGED browser

ServeReset(c) ==
    /\ Reaches(c, "reset")
    /\ IF shared.phase = "none" \/ shared.id = c.run THEN Reset /\ Answer(c, "ok")
       ELSE UNCHANGED shared /\ Answer(c, "stale")
    /\ UNCHANGED browser

(* The adapter's configuration is in error. *)
Refuse(c) ==
    /\ c.kind \in Commands /\ Reaches(c, c.kind)
    /\ UNCHANGED <<shared, browser>>
    /\ Answer(c, "refused")

ServeSession(c) ==
    /\ Reaches(c, "session")
    /\ UNCHANGED <<shared, browser>>
    /\ Answer(c, IF role THEN "ok" ELSE "denied")

(* 401: the session is gone, or is not the browser's any more. *)
Unauthorized(c) ==
    /\ c.reply = None /\ c.kind # "login" /\ ~Authorized(c)
    /\ UNCHANGED <<shared, browser>>
    /\ Answer(c, "unauthorized")

ServeLogin(c) ==
    /\ c.kind = "login" /\ c.reply = None
    /\ UNCHANGED shared
    /\ \/ /\ cookie < MaxSessions
          /\ cookie' = cookie + 1 /\ alive' = TRUE
          /\ role' \in BOOLEAN
          /\ Answer(c, IF role' THEN "ok" ELSE "denied")
       \/ UNCHANGED <<cookie, alive, role>> /\ Answer(c, "refused")
    /\ UNCHANGED <<mode, wire, faults, clicks>>

ServeLogout(c) ==
    /\ Reaches(c, "logout")
    /\ alive' = FALSE
    /\ UNCHANGED <<shared, mode, cookie, role, wire, faults, clicks>>
    /\ Answer(c, "failed")

Serve(c) ==
    \/ ServeStatus(c) \/ ServeStart(c) \/ ServeNext(c) \/ ServeReset(c) \/ Refuse(c)
    \/ ServeSession(c) \/ Unauthorized(c) \/ ServeLogin(c) \/ ServeLogout(c)

(* Before or after it was served: 35 s without an answer, an answer that   *)
(* was lost, or Keycloak that cannot be asked for keys, which all that     *)
(* asks for the session is told as if it were logged out.  A logout has    *)
(* then taken the cookie along.                                            *)
Fail(c) ==
    /\ faults > 0
    /\ faults' = faults - 1
    /\ \/ c.kind \in Journey /\ Answer(c, "timeout") /\ UNCHANGED alive
       \/ mode # "fixture" /\ Answer(c, "failed") /\ UNCHANGED alive
       \/ /\ mode # "fixture" /\ c.kind # "login" /\ Answer(c, "unauthorized")
          /\ alive' = (alive /\ (c.kind = "logout" => c.session # cookie))
    /\ UNCHANGED <<shared, mode, cookie, role, wire, clicks>>

(* The socket goes: every exchange is rejected. *)
Rejected(u) ==
    [u EXCEPT !.calls = {[c EXCEPT !.reply = [code |-> "lost", state |-> None]] : c \in @},
              !.available = FALSE]

Disconnect ==
    /\ mode = "fixture" /\ wire
    /\ faults > 0
    /\ faults' = faults - 1
    /\ wire' = FALSE
    /\ ui' = [Rejected(ui) EXCEPT !.connection = "disconnected"]
    /\ UNCHANGED <<shared, mode, cookie, alive, role, clicks>>

(* 15 s without a connection. *)
ConnectFails ==
    /\ ~wire /\ ui.connection = "connecting"
    /\ ui' = [Rejected(ui) EXCEPT !.connection = "unavailable"]
    /\ UNCHANGED <<shared, browser>>

Reconnect ==
    /\ ~wire
    /\ wire' = TRUE
    /\ ui' = [Stale(ui) EXCEPT !.connection = "connected",
                               !.calls = @ \cup {Exchange("status", "page", 0)}]
    /\ UNCHANGED <<shared, mode, cookie, alive, role, faults, clicks>>

(* An expiry, a notice from Keycloak, a reset of the boundary. *)
EndSession ==
    /\ mode # "fixture" /\ alive
    /\ alive' = FALSE
    /\ UNCHANGED <<shared, mode, ui, cookie, role, wire, faults, clicks>>

(* Other operators, the response of the participant and its deadline. *)
Others ==
    /\ SharedNext
    /\ UNCHANGED <<browser, ui>>

-----------------------------------------------------------------------------
(* The user. *)

Click ==
    /\ clicks > 0
    /\ clicks' = clicks - 1
    /\ UNCHANGED <<shared, mode, wire, faults>>

canOperate == ui.identity \in {"authenticated", "fixture"}

Press(kind) ==
    /\ Click
    /\ canOperate /\ ~ui.loading /\ ui.available
    /\ CASE kind = "start" -> ~Started(ui)
         [] kind = "next" -> Started(ui) /\ ui.view.phase = "active"
         [] kind = "reset" -> Started(ui)
    /\ ui' = Send([Stale(ui) EXCEPT !.loading = TRUE],
                  Exchange(kind, "dispatch", IF Started(ui) THEN ui.view.id ELSE 0))
    /\ UNCHANGED <<cookie, alive, role>>

retryFlow ==
    /\ Click
    /\ canOperate /\ ~ui.available /\ ~ui.loading /\ ui.connection # "connecting"
    /\ ui' = IF wire THEN syncStatus(ui, "page") ELSE [ui EXCEPT !.connection = "connecting"]
    /\ UNCHANGED <<cookie, alive, role>>

submitPasswordLogin ==
    /\ Click
    /\ mode = "password" /\ ui.identity # "authenticated" /\ ~ui.loginBusy
    /\ ui' = Send([IdStale(ui) EXCEPT !.loginBusy = TRUE], Exchange("login", "login", 0))
    /\ UNCHANGED <<cookie, alive, role>>

logout ==
    /\ Click
    /\ mode = "password" /\ ui.identity = "authenticated"
    /\ ui' = Send(IdStale(ui), Exchange("logout", "logout", 0))
    /\ UNCHANGED <<cookie, alive, role>>

(* The login and the logout that leave the page come back to a new one. *)
LoginRedirect ==
    /\ Click
    /\ mode = "redirect" /\ ui.identity # "authenticated" /\ cookie < MaxSessions
    /\ cookie' = cookie + 1 /\ alive' = TRUE /\ role' \in BOOLEAN
    /\ ui' = Opened(cookie + 1, ui.shown)

LogoutRedirect ==
    /\ Click
    /\ mode = "redirect" /\ ui.identity = "authenticated"
    /\ alive' = FALSE
    /\ ui' = Opened(cookie, ui.shown)
    /\ UNCHANGED <<cookie, role>>

Reload ==
    /\ Click
    /\ ui' = Opened(cookie, ui.shown)
    /\ UNCHANGED <<cookie, alive, role>>

User ==
    \/ \E kind \in Commands : Press(kind)
    \/ retryFlow \/ submitPasswordLogin \/ logout \/ LoginRedirect \/ LogoutRedirect \/ Reload

Step(c) == Serve(c) \/ Handle(c)

Next ==
    \/ \E c \in ui.calls : Step(c) \/ Fail(c)
    \/ identityPoll \/ pendingPoll
    \/ Disconnect \/ ConnectFails \/ Reconnect
    \/ EndSession \/ Others \/ User

Spec == Init /\ [][Next]_vars

(* Timers fire, and an exchange is answered: fetch and send have timeouts. *)
Fairness ==
    /\ WF_vars(identityPoll)
    /\ WF_vars(pendingPoll)
    /\ \A w \in Waits : WF_vars(\E c \in ui.calls : c.waits = w /\ Step(c))

FairSpec == Spec /\ Fairness

-----------------------------------------------------------------------------
(* PROPERTIES *)

(* The page's flags agree with its exchanges, and its polling does not die *)
(* of a race between a poll, a login and the end of a session: as long as  *)
(* the page is neither logged out nor expired, a poll is due or under way. *)
PageOK ==
    /\ ui \in PageState
    /\ ui.pollBusy = \E c \in ui.calls : c.waits = "poll"
    /\ ui.loginBusy = \E c \in ui.calls : c.waits = "login"
    /\ mode # "fixture" /\ ui.identity # "ended" =>
          ui.identityPoll \/ ui.pollBusy \/ ui.loginBusy

(* Whatever answers are on their way when a session ends, nothing of the   *)
(* run is shown or read again before the next login.                       *)
EndedShowsNothing ==
    mode # "fixture" /\ ui.identity # "authenticated" =>
        ui.view = None /\ ~ui.available /\ ~ui.pendingPoll

(* The page never shows a run, or a step of it, older than what it showed: *)
(* answers to polls, commands and resynchronisations that overtake each    *)
(* other do not bring an earlier state back, nor does a new login.         *)
ViewNeverGoesBack ==
    [][AtLeast(ui'.shown, ui.shown)]_vars

(* "the UI's next session poll must disable operation": a page whose       *)
(* session has ended does not go on operating, whoever ended it and        *)
(* whatever it was doing.                                                  *)
EndedSessionDisables ==
    (mode # "fixture" /\ ~alive /\ ui.identity = "authenticated")
        ~> (ui.identity # "authenticated" \/ alive)

(* "authenticated polling preserves shared progress updates": a page that  *)
(* stays logged in ends up showing the run as it is, unless what it shows  *)
(* is a request pending.                                                   *)
ProgressUnlessPending ==
    mode # "fixture" /\ <>[](ui.identity = "authenticated" /\ ~isServicePending(ui))
        => <>[](ui.view = shared)

(* Without the exception: "observer can view shared progress".             *)
ProgressIsShown ==
    mode # "fixture" /\ <>[](ui.identity = "authenticated") => <>[](ui.view = shared)
=============================================================================
