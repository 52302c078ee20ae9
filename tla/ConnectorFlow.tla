---------------------------- MODULE ConnectorFlow ----------------------------
(***************************************************************************)
(* A protected call of the demonstrator through the Connector: the adapter *)
(* of flows/demonstrator/connector-adapter.mjs (embedded again in          *)
(* connector-flow-run.js), which registers a client, obtains a token and   *)
(* makes the call, and services/connector/internal/oauth2provider, which   *)
(* keeps clients, tokens, nonces and used proofs in memory.                *)
(*                                                                         *)
(* The OAuth2 library is external: it checks the credential, the time of   *)
(* the proof and its nonce, asks the replay store, then acts.  A proof is  *)
(* known by what its jti stands for, the request it was made for, and a    *)
(* credential or a nonce by the request that made it and the boot of the   *)
(* Connector it was made in.  Every request of a run presents the key of   *)
(* its adapter: the Bearer token that the adapter would take for a         *)
(* registration is left out, this Connector never returns one for a proof. *)
(***************************************************************************)
EXTENDS Naturals

CONSTANTS
    MaxRuns,                    \* bound: runs, numbered as they begin
    Timeout,                    \* timeoutMs
    ProofLifespan, ClockSkew,   \* DPoPConfig
    NonceLifespan,
    MaxTime,                    \* bound: the clock
    MaxEvents,                  \* bound: runs (twice a later one that meets another or
                                \* has an adapter of its own), faults of the network,
                                \* restarts
    None

Runs == 1..MaxRuns

Stages == {"registration-token", "registration", "token", "protected-call"}

(* A nonce is known by the challenge that brought it. *)
Nonce == [run : Runs, stage : Stages, boot : Nat, exp : Nat]
DPoP == [run : Runs, stage : Stages, nonce : Nonce \cup {None}, iat : Nat]
Credential == [run : Runs, stage : Stages, boot : Nat]

(* reasonCode. *)
Reason == {"CONNECTOR_TIMEOUT", "CONNECTOR_UNAVAILABLE", "invalid_client", "invalid_token",
           "dpop_invalid_proof", "dpop_use_nonce", "dpop_replayed"}

ASSUME ConnectorAssumption ==
    /\ MaxRuns \in Nat
    /\ Timeout \in Nat \ {0} /\ ProofLifespan \in Nat \ {0} /\ ClockSkew \in Nat
    /\ NonceLifespan \in Nat /\ MaxTime \in Nat /\ MaxEvents \in Nat
    /\ None \notin Nonce /\ None \notin DPoP /\ None \notin Credential
    /\ None \notin Reason

VARIABLES
    run,              \* what each run of an adapter is at
    registered,       \* the client each adapter keeps; an adapter has the number
                      \* of the run it was made for
    network,          \* requests on their way
    handling,         \* requests the Connector has checked
    accepted,         \* and those whose proof it has marked, not yet answered
    issued,           \* memstore: clients and tokens
    nonces, used,     \* memstore: nonces and proofs, until they expire
    boot,             \* restarts of the Connector
    nonceRequired,    \* DPoPConfig.NonceRequired
    acted,            \* how often a request of a run took effect (history)
    overtaken,        \* and which did after their proof had expired (history)
    doubled,          \* proofs of requests delivered twice (history)
    now, events

flow == <<run, registered>>
history == <<acted, overtaken, doubled>>
stores == <<issued, nonces, used, boot>>
vars == <<run, registered, network, handling, accepted, issued, nonces, used, boot,
          nonceRequired, acted, overtaken, doubled, now, events>>

Request == [proof : DPoP, cred : Credential \cup {None}, copy : BOOLEAN]
Execution == [state : {"idle", "waiting", "ok", "refused", "disabled"},
              reason : Reason \cup {None}, adapter : Runs \cup {None},
              proof : DPoP \cup {None}, cred : Credential \cup {None}, deadline : Nat]

TypeOK ==
    /\ run \in [Runs -> Execution]
    /\ registered \in [Runs -> Credential \cup {None}]
    /\ network \subseteq Request /\ handling \subseteq Request /\ accepted \subseteq Request
    /\ issued \subseteq Credential /\ nonces \subseteq Nonce
    /\ used \subseteq [proof : DPoP, exp : Nat]
    /\ boot \in Nat /\ nonceRequired \in BOOLEAN
    /\ acted \in [Runs -> [Stages -> Nat]]
    /\ overtaken \subseteq Runs \X Stages /\ doubled \subseteq DPoP
    /\ now \in 0..MaxTime /\ events \in 0..MaxEvents

(* The stages follow each other; each presents what the one before it made. *)
After == [s \in Stages \ {"protected-call"} |->
             CASE s = "registration-token" -> "registration"
               [] s = "registration" -> "token"
               [] s = "token" -> "protected-call"]

Proof(r, stage, nonce) == [run |-> r, stage |-> stage, nonce |-> nonce, iat |-> now]

Idle == [state |-> "idle", reason |-> None, adapter |-> None, proof |-> None,
         cred |-> None, deadline |-> 0]

Init ==
    /\ run = [r \in Runs |-> Idle]
    /\ registered = [a \in Runs |-> None]
    /\ network = {} /\ handling = {} /\ accepted = {}
    /\ issued = {} /\ nonces = {} /\ used = {} /\ boot = 0
    /\ nonceRequired \in BOOLEAN
    /\ acted = [r \in Runs |-> [s \in Stages |-> 0]]
    /\ overtaken = {} /\ doubled = {}
    /\ now = 0 /\ events = 0

-----------------------------------------------------------------------------
(* The adapter. *)

Event(cost) == events + cost <= MaxEvents /\ events' = events + cost

Waiting(r) == run[r].state = "waiting"

(* request: an attempt, with a proof of its own; net is what else is on    *)
(* its way.                                                                *)
Send(r, u, stage, nonce, cred, net) ==
    /\ run' = [run EXCEPT ![r] = [u EXCEPT !.proof = Proof(r, stage, nonce), !.cred = cred]]
    /\ network' = net \cup {[proof |-> Proof(r, stage, nonce), cred |-> cred, copy |-> FALSE]}

End(r, state, reason, net) ==
    /\ run' = [run EXCEPT ![r] = [Idle EXCEPT !.state = state, !.reason = reason]]
    /\ network' = net

IsNext(r) == run[r].state = "idle" /\ \A q \in 1..(r - 1) : run[q].state # "idle"

(* run: on the adapter of an earlier run, with the client it keeps, or on  *)
(* one of its own, as each trigger of the flow has.                        *)
Begin(r, a) ==
    /\ IsNext(r) /\ run[a].state # "disabled"
    /\ Event(IF r = 1 \/ (a < r /\ \A q \in Runs : ~Waiting(q)) THEN 1 ELSE 2)
    /\ now + Timeout <= MaxTime
    /\ LET u == [Idle EXCEPT !.state = "waiting", !.adapter = a, !.deadline = now + Timeout]
           c == registered[a]
       IN  IF c = None THEN Send(r, u, "registration-token", None, None, network)
           ELSE Send(r, u, "token", None, c, network)
    /\ UNCHANGED <<registered, handling, accepted, stores, nonceRequired, history, now>>

(* CONNECTOR_NOT_ENABLED, or a configuration or an input that is invalid. *)
NotEnabled(r) ==
    /\ IsNext(r)
    /\ Event(1)
    /\ run' = [run EXCEPT ![r].state = "disabled"]
    /\ UNCHANGED <<registered, network, handling, accepted, stores, nonceRequired, history, now>>

(* Defect variant: a 401, which challenges a protected call, is a refusal. *)
RetryOf400(r, nonce, net) ==
    IF run[r].proof.stage = "protected-call" THEN End(r, "refused", "dpop_use_nonce", net)
    ELSE Send(r, run[r], run[r].proof.stage, nonce, run[r].cred, net)

(* The second attempt, with the nonce of the challenge. *)
Retry(r, nonce, net) ==
    Send(r, run[r], run[r].proof.stage, nonce, run[r].cred, net)

(* What a stage made is presented at the next, and a client is kept. *)
Proceed(r, made, net) ==
    LET stage == run[r].proof.stage
    IN  /\ IF stage = "protected-call" THEN End(r, "ok", None, net)
           ELSE Send(r, run[r], After[stage], None, made, net)
        /\ registered' = IF stage = "registration"
                         THEN [registered EXCEPT ![run[r].adapter] = made] ELSE registered

Refuse(r, reason, net) == End(r, "refused", reason, net) /\ UNCHANGED registered

Challenged(r, nonce, net) ==
    IF run[r].proof.nonce = None THEN Retry(r, nonce, net) /\ UNCHANGED registered
    ELSE Refuse(r, "dpop_use_nonce", net)

(* An answer goes back to whoever delivered the request, and is taken by   *)
(* the run as it is given, if the run still awaits it: what the answer     *)
(* spends on its way counts as the request's.                              *)
Answer(m, taken, net) ==
    IF ~m.copy /\ run[m.proof.run].proof = m.proof THEN taken
    ELSE network' = net /\ UNCHANGED flow

(* Defect variant: the signal is not passed to a second attempt. *)
AbortOfFirst(r) ==
    /\ Waiting(r) /\ now >= run[r].deadline
    /\ run[r].proof.nonce = None
    /\ Refuse(r, "CONNECTOR_TIMEOUT", network)
    /\ UNCHANGED <<handling, accepted, stores, nonceRequired, history, now, events>>

(* The one AbortSignal of the run ends whatever it awaits. *)
Abort(r) ==
    /\ Waiting(r) /\ now >= run[r].deadline
    /\ Refuse(r, "CONNECTOR_TIMEOUT", network)
    /\ UNCHANGED <<handling, accepted, stores, nonceRequired, history, now, events>>

-----------------------------------------------------------------------------
(* The Connector. *)

(* Defect variant: a record is kept without the tolerance. *)
KeptForLifespan(p) == p.iat + ProofLifespan

(* The instant a proof stops being acceptable, which is how long its use   *)
(* is remembered.                                                          *)
KeptUntil(p) == p.iat + ProofLifespan + ClockSkew

Fresh(p) == now < p.iat + ProofLifespan + ClockSkew

(* The registrar is provisioned with the Connector. *)
Known(m) == m.proof.stage = "registration-token" \/ m.cred \in issued

IsNonceValid(nonce) == nonce \in nonces /\ now < nonce.exp

Challenge(p) ==
    [run |-> p.run, stage |-> p.stage, boot |-> boot, exp |-> now + NonceLifespan]

(* classify: the credential is looked at first. *)
ReasonFor(m) ==
    CASE Known(m) -> "dpop_invalid_proof"
      [] ~Known(m) /\ m.proof.stage = "token" -> "invalid_client"
      [] ~Known(m) /\ m.proof.stage # "token" -> "invalid_token"

(* Credential, time and nonce, in this order; none of it is under a lock   *)
(* that lasts until the proof is marked as used.                           *)
Deliver(m) ==
    LET net == network \ {m}
        r == m.proof.run
    IN  /\ \/ /\ ~(Known(m) /\ Fresh(m.proof))
              /\ Answer(m, Refuse(r, ReasonFor(m), net), net)
              /\ UNCHANGED <<handling, nonces>>
           \/ /\ Known(m) /\ Fresh(m.proof)
              /\ nonceRequired /\ ~IsNonceValid(m.proof.nonce)
              /\ nonces' = nonces \cup {Challenge(m.proof)}
              /\ Answer(m, Challenged(r, Challenge(m.proof), net), net)
              /\ UNCHANGED handling
           \/ /\ Known(m) /\ Fresh(m.proof)
              /\ nonceRequired => IsNonceValid(m.proof.nonce)
              /\ handling' = handling \cup {m}
              /\ network' = net
              /\ UNCHANGED <<flow, nonces>>
        /\ UNCHANGED <<accepted, issued, used, boot, nonceRequired, history, now, events>>

AlreadyUsed(p) == \E u \in used : u.proof = p /\ now < u.exp

(* MarkUsed, in one critical section: a request whose proof was used is    *)
(* refused, whichever of two deliveries it is.                             *)
Mark(m) ==
    LET p == m.proof
    IN  /\ handling' = handling \ {m}
        /\ \/ /\ AlreadyUsed(p)
              /\ Answer(m, Refuse(p.run, "dpop_replayed", network), network)
              /\ UNCHANGED <<accepted, used, history>>
           \/ /\ ~AlreadyUsed(p)
              /\ used' = used \cup {[proof |-> p, exp |-> KeptUntil(p)]}
              /\ accepted' = accepted \cup {m}
              /\ overtaken' = IF Fresh(p) THEN overtaken ELSE overtaken \cup {<<p.run, p.stage>>}
              /\ UNCHANGED <<flow, network, acted, doubled>>
        /\ UNCHANGED <<issued, nonces, boot, nonceRequired, now, events>>

(* What the request asked for, and its answer. *)
Act(m) ==
    LET p == m.proof
        made == [run |-> p.run, stage |-> p.stage, boot |-> boot]
    IN  /\ accepted' = accepted \ {m}
        /\ issued' = IF p.stage = "protected-call" THEN issued ELSE issued \cup {made}
        /\ acted' = [acted EXCEPT ![p.run][p.stage] = @ + 1]
        /\ Answer(m, Proceed(p.run, made, network), network)
        /\ UNCHANGED <<handling, nonces, used, boot, nonceRequired, overtaken, doubled, now,
                       events>>

-----------------------------------------------------------------------------
(* What may go wrong. *)

(* A connection fails, or something that is not the Connector answers. *)
Fail(r) ==
    /\ Event(1)
    /\ Waiting(r)
    /\ Refuse(r, "CONNECTOR_UNAVAILABLE", network)
    /\ UNCHANGED <<handling, accepted, stores, nonceRequired, history, now>>

(* A request is delivered twice, the second time at any later moment. *)
Duplicate(m) ==
    /\ Event(1)
    /\ ~m.copy
    /\ network' = network \cup {[m EXCEPT !.copy = TRUE]}
    /\ doubled' = doubled \cup {m.proof}
    /\ UNCHANGED <<flow, handling, accepted, stores, nonceRequired, acted, overtaken, now>>

(* Nothing of the memory stores survives. *)
Restart ==
    /\ Event(1)
    /\ boot' = boot + 1
    /\ issued' = {} /\ nonces' = {} /\ used' = {} /\ handling' = {} /\ accepted' = {}
    /\ UNCHANGED <<flow, network, nonceRequired, history, now>>

(* Nonces and used proofs are pruned with the clock here, at the next      *)
(* insertion in the code: what has expired is never read.                  *)
Tick ==
    /\ now < MaxTime
    /\ now' = now + 1
    /\ nonces' = {n \in nonces : now' < n.exp}
    /\ used' = {u \in used : now' < u.exp}
    /\ UNCHANGED <<flow, network, handling, accepted, issued, boot, nonceRequired, history,
                   events>>

-----------------------------------------------------------------------------
Next ==
    \/ \E r \in Runs : \E a \in 1..r : Begin(r, a)
    \/ \E r \in Runs : NotEnabled(r) \/ Abort(r) \/ Fail(r)
    \/ \E m \in network : Deliver(m) \/ Duplicate(m)
    \/ \E m \in handling : Mark(m)
    \/ \E m \in accepted : Act(m)
    \/ Restart \/ Tick

Spec == Init /\ [][Next]_vars

(* Time passes and timers fire; nothing is asked of the Connector. *)
FairSpec ==
    /\ Spec
    /\ WF_vars(Tick)
    /\ \A r \in Runs : WF_vars(Abort(r))

-----------------------------------------------------------------------------
(* PROPERTIES *)

(* Whatever is delivered twice, late, or after a restart that forgot which *)
(* proofs were used, a run registers one client, obtains one token and     *)
(* makes the protected call once at most, save by a request whose proof    *)
(* expired between the check of its time and its mark.                     *)
ActsOnce ==
    \A r \in Runs : \A s \in Stages \ {"registration-token"} :
        acted[r][s] > 1 => <<r, s>> \in overtaken

(* What the Connector's refusal of r says: a credential or a nonce from    *)
(* before a restart, a nonce that expired, a request delivered twice.      *)
Cause(r) ==
    LET p == run[r].proof
        reason == run'[r].reason
    IN  /\ reason \in {"invalid_client", "invalid_token"} =>
              run[r].cred # None /\ run[r].cred.boot < boot
        /\ reason = "dpop_use_nonce" =>
              p.nonce # None /\ (p.nonce.exp <= now \/ p.nonce.boot < boot)
        /\ reason = "dpop_replayed" => p \in doubled

(* A reason code is true of the run that reports it: while the Connector   *)
(* keeps running, no request is delivered twice and no nonce expires, the  *)
(* retry after a challenge, and whatever late requests of its own or of    *)
(* other runs do meanwhile, never has a run refused.                       *)
RefusedForCause ==
    [][\A r \in Runs : Waiting(r) /\ run'[r].state = "refused" => Cause(r)]_vars

(* "One timeout bounds the complete execution": a run ends, even if it is  *)
(* never answered.                                                         *)
EveryRunEnds ==
    \A r \in Runs : Waiting(r) ~> ~Waiting(r)
=============================================================================
