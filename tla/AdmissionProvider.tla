-------------------------- MODULE AdmissionProvider --------------------------
(***************************************************************************)
(* services/admission-provider around the Verifier: the handler of         *)
(* ProviderRequests, which asks the verifier about every image of a        *)
(* request in a goroutine of its own under one deadline, and the trust     *)
(* policy file, re-read by a watcher while requests are served.            *)
(*                                                                         *)
(* A call of VerifyImage is identified by its request and its image.       *)
(***************************************************************************)
EXTENDS AdmissionVerifier

CONSTANTS
    Request,         \* concurrent ProviderRequests
    Empty,           \* the revision of the policy the verifier starts with
    Broken,          \* a trust file that cannot be read or parsed
    MaxEdits         \* bound: edits of the trust file

ASSUME ProviderAssumption ==
    /\ Caller = Request \X Image
    /\ Empty \in Revision /\ Allowed[Empty] = {}
    /\ Broken \notin Revision \cup {None}
    /\ MaxEdits \in Nat

VARIABLES
    file,            \* the content of the trust policy file
    edits,           \* edits so far
    reload,          \* what trust.load has read and not yet applied, or None
    revision,        \* t.revision; None for ""
    loadErr,         \* t.loadErr # nil
    req,             \* each request
    seen             \* history: the loaded policies in force since it came in

trustVars == <<file, edits, reload, revision, loadErr>>
pvars == <<vars, trustVars, req, seen>>

Content == Revision \ {Empty}

(* A ProviderRequest, and the items its goroutines have written. *)
RequestState == [st : {"idle", "open", "answered", "system-error"},
                 keys : SUBSET Image,
                 items : UNION {[K -> Answer] : K \in SUBSET Image},
                 expired : BOOLEAN]

IdleRequest == [st |-> "idle", keys |-> {}, items |-> <<>>, expired |-> FALSE]

ProviderTypeOK ==
    /\ TypeOK
    /\ file \in Content \cup {Broken}
    /\ reload \in Content \cup {Broken, None}
    /\ revision \in Content \cup {None}
    /\ loadErr \in BOOLEAN
    /\ edits \in 0..MaxEdits
    /\ req \in [Request -> RequestState]
    /\ seen \in [Request -> SUBSET Revision]

-----------------------------------------------------------------------------
(* main.run: the verifier starts with an empty policy, and the trust file  *)
(* is loaded once before the server listens.                               *)
ProviderInit ==
    /\ Init
    /\ file \in Content \cup {Broken}
    /\ policy.rev = IF file = Broken THEN Empty ELSE file
    /\ revision = IF file = Broken THEN None ELSE file
    /\ loadErr = (file = Broken)
    /\ edits = 0
    /\ reload = None
    /\ req = [r \in Request |-> IdleRequest]
    /\ seen = [r \in Request |-> {}]

EditFile(x) ==
    /\ edits < MaxEdits
    /\ x # file
    /\ file' = x
    /\ edits' = edits + 1
    /\ UNCHANGED <<vars, reload, revision, loadErr, req, seen>>

(* Defect variant: a good load does not clear the error. *)
LoadPolicyStillFailing ==
    /\ reload \in Content
    /\ IF reload # revision THEN SetPolicy(reload) ELSE UNCHANGED vars
    /\ revision' = reload
    /\ reload' = None
    /\ seen' = [r \in Request |->
                  IF req[r].st = "open" THEN seen[r] \cup {reload} ELSE seen[r]]
    /\ UNCHANGED <<file, edits, loadErr, req>>

(* trust.load reads and parses the file before it takes the lock ... *)
ReadFile ==
    /\ reload = None
    /\ reload' = file
    /\ UNCHANGED <<vars, file, edits, revision, loadErr, req, seen>>

(* ... and then records the error, or applies a policy it has not applied. *)
LoadBroken ==
    /\ reload = Broken
    /\ loadErr' = TRUE
    /\ revision' = None
    /\ reload' = None
    /\ UNCHANGED <<vars, file, edits, req, seen>>

LoadPolicy ==
    /\ reload \in Content
    /\ IF reload # revision THEN SetPolicy(reload) ELSE UNCHANGED vars
    /\ revision' = reload
    /\ loadErr' = FALSE
    /\ reload' = None
    /\ seen' = [r \in Request |->
                  IF req[r].st = "open" THEN seen[r] \cup {reload} ELSE seen[r]]
    /\ UNCHANGED <<file, edits, req>>

-----------------------------------------------------------------------------
(* Defect variant: the load error is not consulted. *)
ArriveUnchecked(r, keys) ==
    /\ req[r] = IdleRequest
    /\ req' = [req EXCEPT ![r] = [st |-> "open", keys |-> keys,
                                  items |-> <<>>, expired |-> FALSE]]
    /\ seen' = [seen EXCEPT ![r] = IF loadErr THEN {} ELSE {policy.rev}]
    /\ UNCHANGED <<vars, trustVars>>

(* ServeHTTP: no policy, no answer; else one goroutine per key. *)
Arrive(r, keys) ==
    /\ req[r] = IdleRequest
    /\ req' = [req EXCEPT ![r] = [st |-> IF loadErr THEN "system-error" ELSE "open",
                                  keys |-> keys, items |-> <<>>, expired |-> FALSE]]
    /\ seen' = [seen EXCEPT ![r] = IF loadErr THEN {} ELSE {policy.rev}]
    /\ UNCHANGED <<vars, trustVars>>

(* Not a POST, not a ProviderRequest, malformed or more than maxKeys keys. *)
ArriveMalformed(r) ==
    /\ req[r] = IdleRequest
    /\ req' = [req EXCEPT ![r].st = "system-error"]
    /\ UNCHANGED <<vars, trustVars, seen>>

AskVerifier(r, i) ==
    /\ req[r].st = "open"
    /\ i \in req[r].keys \ DOMAIN req[r].items
    /\ Call(<<r, i>>, i)
    /\ UNCHANGED <<trustVars, req, seen>>

(* The deadline of the request, or its client going away. *)
Deadline(r) ==
    /\ req[r].st = "open"
    /\ ~req[r].expired
    /\ req' = [req EXCEPT ![r].expired = TRUE]
    /\ UNCHANGED <<vars, trustVars, seen>>

DeadlineHits(r, i) ==
    /\ req[r].expired
    /\ GiveUp(<<r, i>>)
    /\ UNCHANGED <<trustVars, req, seen>>

(* The goroutine writes its item: "verified", or the code that denies. *)
RecordItem(r, i) ==
    /\ Return(<<r, i>>)
    /\ req' = [req EXCEPT ![r].items = [k \in DOMAIN @ \cup {i} |->
                  IF k = i THEN call[<<r, i>>].answer ELSE @[k]]]
    /\ UNCHANGED <<trustVars, seen>>

(* Defect variant: the response does not wait for the goroutines. *)
RespondAtDeadline(r) ==
    /\ req[r].st = "open"
    /\ req[r].expired \/ DOMAIN req[r].items = req[r].keys
    /\ req' = [req EXCEPT ![r].st = "answered"]
    /\ UNCHANGED <<vars, trustVars, seen>>

(* wg.Wait has returned. *)
Respond(r) ==
    /\ req[r].st = "open"
    /\ DOMAIN req[r].items = req[r].keys
    /\ req' = [req EXCEPT ![r].st = "answered"]
    /\ UNCHANGED <<vars, trustVars, seen>>

Hangup(r) ==
    /\ req[r].st \in {"answered", "system-error"}
    /\ req' = [req EXCEPT ![r] = IdleRequest]
    /\ seen' = [seen EXCEPT ![r] = {}]
    /\ UNCHANGED <<vars, trustVars>>

-----------------------------------------------------------------------------
Watcher == ReadFile \/ LoadBroken \/ LoadPolicy

Verifier == VerifierNext /\ UNCHANGED <<trustVars, req, seen>>

Handler(r) ==
    \/ \E i \in Image : AskVerifier(r, i) \/ RecordItem(r, i)
    \/ Respond(r)

ProviderNext ==
    \/ Watcher
    \/ Verifier
    \/ \E x \in Content \cup {Broken} : EditFile(x)
    \/ \E r \in Request :
          \/ Handler(r) \/ Deadline(r) \/ Hangup(r) \/ ArriveMalformed(r)
          \/ \E keys \in SUBSET Image : Arrive(r, keys)
          \/ \E i \in Image : DeadlineHits(r, i)

ProviderSpec == ProviderInit /\ [][ProviderNext]_pvars

(* The watcher's ticker and every goroutine keep running. *)
ProviderFairness ==
    /\ WF_pvars(Watcher)
    /\ \A r \in Request :
          /\ WF_pvars(Respond(r))
          /\ \A i \in Image :
                /\ WF_pvars(AskVerifier(r, i))
                /\ WF_pvars(RecordItem(r, i))
                /\ WF_pvars(CallStep(<<r, i>>) /\ UNCHANGED <<trustVars, req, seen>>)
    /\ \A f \in Flight : SF_pvars(FlightStep(f) /\ UNCHANGED <<trustVars, req, seen>>)

ProviderFairSpec == ProviderSpec /\ ProviderFairness

-----------------------------------------------------------------------------
(* PROPERTIES *)

(* An image is admitted only if it passes under a trust policy that was    *)
(* loaded and in force at some moment while the request was open: neither  *)
(* the cache nor a verification started for an earlier request brings back *)
(* a revoked policy, and a broken edit does not leave the old one serving  *)
(* the requests that arrive after it was noticed.                          *)
NoRevokedAdmission ==
    \A r \in Request : \A i \in DOMAIN req[r].items :
        req[r].items[i] = "verified" =>
            \E rev \in seen[r] : i \in Allowed[rev] \cap Signed[rev] \cap published

(* A response that is not a system error has an item for each of its keys  *)
(* (Gatekeeper's constraints treat a missing item as a denial, so one lost *)
(* item would deny a good image), and no call is left behind by it.        *)
ResponsesComplete ==
    \A r \in Request :
        /\ req[r].st = "answered" => DOMAIN req[r].items = req[r].keys
        /\ req[r].st # "open" => \A i \in Image : call[<<r, i>>].pc = "idle"

(* Every request is answered. *)
EveryRequestAnswered == \A r \in Request : req[r].st = "open" ~> req[r].st # "open"

(* A valid edit that stays is eventually the policy in force, and the      *)
(* provider healthy, even after a broken edit or a return to an earlier    *)
(* content; a broken one that stays eventually stops the provider.         *)
EditsTakeEffect ==
    /\ \A x \in Content : <>[](file = x) => <>[](policy.rev = x /\ ~loadErr)
    /\ <>[](file = Broken) => <>[]loadErr
=============================================================================
