--------------------------- MODULE ProviderProofs ---------------------------
(***************************************************************************)
(* Proofs about AdmissionProvider, for any number of requests, images and  *)
(* revisions and any sequence of edits of the trust file: the provider     *)
(* drives the verifier only through the verifier's own operations, so what *)
(* is proved of the verifier holds inside it, and what the handler records *)
(* is an answer given under a policy in force while the request was open.  *)
(***************************************************************************)
EXTENDS AdmissionProvider, AdmissionVerifierProofs

(* What the watcher has applied is what the verifier works under. *)
TrustOK == revision # None => policy.rev = revision

(* A request has items only for its own keys, all of them once it is       *)
(* answered; it has seen the policy in force for as long as it is open; an *)
(* image it admits passes under one of the policies it has seen.           *)
RequestOK(r) ==
    /\ DOMAIN req[r].items \subseteq req[r].keys
    /\ req[r].st = "open" => policy.rev \in seen[r]
    /\ req[r].st = "answered" => DOMAIN req[r].items = req[r].keys
    /\ \A i \in DOMAIN req[r].items :
          req[r].items[i] = "verified" =>
              \E rev \in seen[r] : i \in Allowed[rev] \cap Signed[rev] \cap published

(* A call the verifier has not returned from belongs to an open request    *)
(* that still waits for the item of that image, and loaded its policy      *)
(* while the request was open.                                             *)
CallOK(r, i) ==
    call[<<r, i>>].pc # "idle" =>
        /\ req[r].st = "open"
        /\ i \in req[r].keys \ DOMAIN req[r].items
        /\ call[<<r, i>>].image = i
        /\ call[<<r, i>>].policy.rev \in seen[r]
        /\ call[<<r, i>>].pc = "answered" => call[<<r, i>>].answer # None

ProviderInv ==
    /\ ProviderTypeOK
    /\ TrustOK
    /\ \A r \in Request : RequestOK(r)
    /\ \A r \in Request : \A i \in Image : CallOK(r, i)

-----------------------------------------------------------------------------
(* Every step of the provider is one of the verifier, or leaves it alone.  *)
LEMMA StepsOfTheVerifier == ProviderNext => [Next]_vars
<1> SUFFICES ASSUME ProviderNext PROVE [Next]_vars
  OBVIOUS
<1>1. ASSUME Watcher PROVE [Next]_vars
  BY <1>1 DEF Watcher, ReadFile, LoadBroken, LoadPolicy, Content, Next, vars
<1>2. ASSUME Verifier PROVE [Next]_vars
  BY <1>2 DEF Verifier, Next
<1>3. ASSUME NEW x, EditFile(x) PROVE [Next]_vars
  BY <1>3 DEF EditFile
<1>4. ASSUME NEW r \in Request,
             Respond(r) \/ Deadline(r) \/ Hangup(r) \/ ArriveMalformed(r)
      PROVE  [Next]_vars
  BY <1>4 DEF Respond, Deadline, Hangup, ArriveMalformed
<1>5. ASSUME NEW r \in Request, NEW keys \in SUBSET Image, Arrive(r, keys) PROVE [Next]_vars
  BY <1>5 DEF Arrive
<1>6. ASSUME NEW r \in Request, NEW i \in Image,
             AskVerifier(r, i) \/ RecordItem(r, i) \/ DeadlineHits(r, i)
      PROVE  [Next]_vars
  <2>1. <<r, i>> \in Caller
    BY ProviderAssumption
  <2>2. QED
    BY <1>6, <2>1 DEF AskVerifier, RecordItem, DeadlineHits, Next
<1>7. QED
  BY <1>1, <1>2, <1>3, <1>4, <1>5, <1>6 DEF ProviderNext, Handler

(* The provider implements the verifier's specification: whatever requests *)
(* and edits of the trust file do, the verifier sees only calls, deadlines *)
(* and policies it allows for.                                             *)
THEOREM ProviderIsVerifier == ProviderSpec => Spec
<1>1. ProviderInit => Init
  BY DEF ProviderInit
<1>2. [ProviderNext]_pvars => [Next]_vars
  BY StepsOfTheVerifier DEF pvars, vars
<1>3. QED
  BY <1>1, <1>2, PTL DEF ProviderSpec, Spec

(* So the verifier's invariant and its limits hold in the provider.        *)
THEOREM VerifierHolds == ProviderSpec => []VerifierInv
BY ProviderIsVerifier, Invariance, PTL

(* The cache and the flights keep to their limits under any load.          *)
THEOREM ProviderLimits == ProviderSpec => []LimitsHold
BY ProviderIsVerifier, LimitsKept, PTL

(* Two implementations composed: whatever Gatekeeper asks, at any edit of  *)
(* the trust file, each of its calls is answered as the oracle answers it. *)
THEOREM ProviderIsOracle == ProviderSpec => ImplementsOracle
BY ProviderIsVerifier, Refinement, PTL

-----------------------------------------------------------------------------
LEMMA PairsAreCalls ==
    ASSUME NEW r \in Request, NEW i \in Image PROVE <<r, i>> \in Caller
BY ProviderAssumption

(* What the verifier does by itself, and a deadline, never changes the     *)
(* question of a call, never ends it and never starts one; a call that is  *)
(* answered has an answer.                                                 *)
CallsContinue ==
    \A c \in Caller :
        /\ call'[c].pc = "idle" <=> call[c].pc = "idle"
        /\ call[c].pc # "idle" =>
              call'[c].image = call[c].image /\ call'[c].policy = call[c].policy
        /\ call'[c].pc = "answered" => call'[c] = call[c] \/ call'[c].answer # None

LEMMA AnsweringContinues ==
    ASSUME TypeOK, NEW c \in Caller, NEW a \in Answer, Answered(c, a), call[c].pc # "idle"
    PROVE  CallsContinue
<1>1. call[c] \in BusyCall /\ a # None
  BY BusyCalls, VerdictsAssumption
<1>2. /\ call'[c].pc = "answered" /\ call'[c].answer = a
      /\ call'[c].image = call[c].image /\ call'[c].policy = call[c].policy
      /\ \A d \in Caller \ {c} : call'[d] = call[d]
  BY <1>1 DEF Answered, TypeOK, BusyCall
<1>3. QED
  BY <1>1, <1>2 DEF CallsContinue

LEMMA VerifierContinues ==
    ASSUME VerifierInv, VerifierNext \/ \E c \in Caller : GiveUp(c)
    PROVE  CallsContinue /\ policy' = policy /\ published \subseteq published'
<1>0. TypeOK
  BY DEF VerifierInv
<1>1. ASSUME NEW c \in Caller, Lookup(c) PROVE CallsContinue
  <2>1. call[c] \in BusyCall /\ KeyOf(c) \in Key
    BY <1>0, <1>1, BusyCalls DEF Lookup
  <2>2. CASE Live(KeyOf(c))
    BY <1>0, <1>1, <2>1, <2>2, LiveEntries, AnsweringContinues DEF Lookup, Answer
  <2>3. CASE ~Live(KeyOf(c))
    BY <1>0, <1>1, <2>1, <2>3 DEF Lookup, CallsContinue, TypeOK, BusyCall
  <2>4. QED
    BY <2>2, <2>3
<1>2. ASSUME NEW c \in Caller, StartHit(c) PROVE CallsContinue
  <2>1. call[c] \in BusyCall /\ KeyOf(c) \in Key
    BY <1>0, <1>2, BusyCalls DEF StartHit
  <2>2. QED
    BY <1>0, <1>2, <2>1, LiveEntries, AnsweringContinues DEF StartHit, Answer
<1>3. ASSUME NEW c \in Caller, StartTooMany(c) \/ GiveUp(c) PROVE CallsContinue
  BY <1>0, <1>3, AnsweringContinues DEF StartTooMany, GiveUp, Answer
<1>4. ASSUME NEW c \in Caller, Receive(c) PROVE CallsContinue
  <2>1. call[c] \in BusyCall
    BY <1>0, <1>4, BusyCalls DEF Receive
  <2>2. QED
    BY <1>0, <1>4, <2>1, AnsweringContinues DEF Receive, BusyCall
<1>5. ASSUME NEW c \in Caller, StartJoin(c) \/ \E f \in Flight : StartFlight(c, f)
      PROVE  CallsContinue
  <2>1. call[c] \in BusyCall
    BY <1>0, <1>5, BusyCalls DEF StartJoin, StartFlight
  <2>2. PICK f : call' = [call EXCEPT ![c].pc = "waiting", ![c].flight = f]
    BY <1>5 DEF StartJoin, StartFlight, StartsOn
  <2>3. QED
    BY <1>0, <2>1, <2>2 DEF CallsContinue, TypeOK, BusyCall
<1>6. ASSUME NEW f \in Flight, Close(f) PROVE CallsContinue
  <2>1. flight[f] \in RunningFlight /\ flight[f].st = "closing"
    BY <1>0, <1>6, RunningFlights DEF Close
  <2>2. flight[f].result \in Answer /\ flight[f].result # None
    BY <2>1, VerdictsAssumption DEF RunningFlight, FlyingFlight, LandedFlight, Answer
  <2>3. ASSUME NEW c \in Caller, call[c].flight = f
        PROVE  /\ call'[c].pc = call[c].pc /\ call'[c].answer # None
               /\ call'[c].image = call[c].image /\ call'[c].policy = call[c].policy
    <3>1. call[c] \in BusyCall
      BY <1>0, <2>3, VerifierAssumption DEF TypeOK, IdleCall
    <3>2. QED
      BY <1>6, <2>2, <2>3, <3>1 DEF Close, BusyCall
  <2>4. ASSUME NEW c \in Caller, call[c].flight # f PROVE call'[c] = call[c]
    BY <1>6, <2>4 DEF Close
  <2>5. QED
    BY <2>3, <2>4 DEF CallsContinue
<1>7. ASSUME call' = call PROVE CallsContinue
  BY <1>7 DEF CallsContinue
<1>8. CallsContinue
  BY <1>1, <1>2, <1>3, <1>4, <1>5, <1>6, <1>7
  DEF VerifierNext, CallStep, Start, FlightStep, Acquire, CapacityExhausted, Verify,
      VerifyFails, Store, Delete, Expire, Publish
<1>9. policy' = policy
  BY DEF VerifierNext, CallStep, Start, FlightStep, Lookup, StartHit, StartJoin, StartTooMany,
      StartFlight, StartsOn, Receive, GiveUp, Acquire, CapacityExhausted, Verify,
      VerifyFails, Store, Delete, Close, Expire, Publish
<1>10. published \subseteq published'
  BY <1>0, PublishedGrows DEF Next
<1>11. QED
  BY <1>8, <1>9, <1>10


-----------------------------------------------------------------------------
LEMMA RequestKept ==
    ASSUME NEW r \in Request, RequestOK(r), req'[r] = req[r], seen[r] \subseteq seen'[r],
           req[r].st = "open" => policy'.rev \in seen'[r],
           published \subseteq published'
    PROVE  RequestOK(r)'
BY DEF RequestOK

LEMMA CallKept ==
    ASSUME NEW r \in Request, NEW i \in Image, CallOK(r, i), CallsContinue,
           req'[r] = req[r], seen[r] \subseteq seen'[r]
    PROVE  CallOK(r, i)'
BY PairsAreCalls DEF CallOK, CallsContinue

LEMMA QuietCalls == ASSUME call' = call PROVE CallsContinue
BY DEF CallsContinue

(* A request that is not open has no call in the verifier. *)
LEMMA NoCallLeft ==
    ASSUME ProviderInv, NEW r \in Request, req[r].st # "open", NEW i \in Image
    PROVE  call[<<r, i>>].pc = "idle"
BY DEF ProviderInv, CallOK

LEMMA RequestStates ==
    ASSUME ProviderTypeOK, NEW r \in Request
    PROVE  /\ req[r] \in RequestState
           /\ req[r].items \in [DOMAIN req[r].items -> Answer]
           /\ DOMAIN req[r].items \subseteq Image
BY DEF ProviderTypeOK, RequestState

LEMMA NoItems ==
    /\ DOMAIN IdleRequest.items = {}
    /\ IdleRequest \in RequestState
    /\ \A keys \in SUBSET Image : \A st \in {"open", "system-error"} :
          [st |-> st, keys |-> keys, items |-> <<>>, expired |-> FALSE] \in RequestState
<1>1. DOMAIN <<>> = {} /\ <<>> \in [{} -> Answer]
  OBVIOUS
<1>2. <<>> \in UNION {[K -> Answer] : K \in SUBSET Image}
  BY <1>1
<1>3. QED
  BY <1>1, <1>2 DEF IdleRequest, RequestState

-----------------------------------------------------------------------------
(* The watcher and the file. *)
LEMMA WatcherKeeps ==
    ASSUME ProviderInv, TypeOK', Watcher \/ \E x \in Content \cup {Broken} : EditFile(x)
    PROVE  ProviderInv'
<1> USE DEF ProviderInv
<1>1. req' = req /\ call' = call /\ published' = published
  BY DEF Watcher, ReadFile, LoadBroken, LoadPolicy, SetPolicy, EditFile, vars
<1>2. CASE ReadFile \/ LoadBroken \/ \E x \in Content \cup {Broken} : EditFile(x)
  <2>1. seen' = seen /\ policy' = policy
    BY <1>2 DEF ReadFile, LoadBroken, EditFile, vars
  <2>2. ProviderTypeOK'
    <3>1. CASE ReadFile
      BY <1>1, <2>1, <3>1 DEF ProviderTypeOK, ReadFile
    <3>2. CASE LoadBroken
      BY <1>1, <2>1, <3>2 DEF ProviderTypeOK, LoadBroken
    <3>3. ASSUME NEW x \in Content \cup {Broken}, EditFile(x) PROVE ProviderTypeOK'
      <4>1. edits' \in 0..MaxEdits
        BY <3>3, ProviderAssumption DEF ProviderTypeOK, EditFile
      <4>2. QED
        BY <1>1, <2>1, <3>3, <4>1 DEF ProviderTypeOK, EditFile
    <3>4. QED
      BY <1>2, <3>1, <3>2, <3>3
  <2>3. TrustOK'
    BY <1>2, <2>1 DEF TrustOK, ReadFile, LoadBroken, EditFile
  <2>4. \A r \in Request : RequestOK(r)'
    BY <1>1, <2>1, RequestKept DEF RequestOK
  <2>5. \A r \in Request : \A i \in Image : CallOK(r, i)'
    BY <1>1, <2>1, CallKept, QuietCalls
  <2>6. QED
    BY <2>2, <2>3, <2>4, <2>5
<1>3. CASE LoadPolicy
  <2>1. ASSUME NEW r \in Request
        PROVE  seen[r] \subseteq seen'[r] /\ (req[r].st = "open" => reload \in seen'[r])
    BY <1>3 DEF LoadPolicy
  <2>2. policy'.rev = reload
    <3>1. CASE reload # revision
      BY <1>3, <3>1 DEF LoadPolicy, SetPolicy
    <3>2. CASE reload = revision
      <4>1. policy' = policy /\ revision # None
        BY <1>3, <3>2, VerdictsAssumption DEF LoadPolicy, Content, vars
      <4>2. QED
        BY <3>2, <4>1 DEF TrustOK
    <3>3. QED
      BY <3>1, <3>2
  <2>3. ProviderTypeOK'
    <3>1. seen' \in [Request -> SUBSET Revision]
      BY <1>3 DEF LoadPolicy, ProviderTypeOK, Content
    <3>2. QED
      BY <1>1, <1>3, <3>1 DEF ProviderTypeOK, LoadPolicy
  <2>4. TrustOK'
    BY <1>3, <2>2 DEF TrustOK, LoadPolicy
  <2>5. ASSUME NEW r \in Request PROVE RequestOK(r)'
    <3>1. RequestOK(r) /\ req'[r] = req[r] /\ published \subseteq published'
      BY <1>1
    <3>2. seen[r] \subseteq seen'[r] /\ (req[r].st = "open" => policy'.rev \in seen'[r])
      BY <2>1, <2>2
    <3>3. QED
      BY <3>1, <3>2, RequestKept
  <2>6. ASSUME NEW r \in Request, NEW i \in Image PROVE CallOK(r, i)'
    <3>1. CallOK(r, i) /\ req'[r] = req[r] /\ CallsContinue
      BY <1>1, QuietCalls
    <3>2. seen[r] \subseteq seen'[r]
      BY <2>1
    <3>3. QED
      BY <3>1, <3>2, CallKept
  <2>7. QED
    BY <2>3, <2>4, <2>5, <2>6
<1>4. QED
  BY <1>2, <1>3 DEF Watcher

(* The verifier at work, and the deadline reaching a call. *)
LEMMA VerifierKeeps ==
    ASSUME ProviderInv, VerifierInv, TypeOK',
           Verifier \/ \E r \in Request, i \in Image : DeadlineHits(r, i)
    PROVE  ProviderInv'
<1> USE DEF ProviderInv
<1>1. UNCHANGED <<trustVars, req, seen>>
  BY DEF Verifier, DeadlineHits
<1>2. VerifierNext \/ \E c \in Caller : GiveUp(c)
  BY PairsAreCalls DEF Verifier, DeadlineHits
<1>3. CallsContinue /\ policy' = policy /\ published \subseteq published'
  BY <1>2, VerifierContinues
<1>4. ProviderTypeOK' /\ TrustOK'
  BY <1>1, <1>3 DEF ProviderTypeOK, TrustOK, trustVars
<1>5. \A r \in Request : RequestOK(r)'
  BY <1>1, <1>3, RequestKept DEF RequestOK
<1>6. \A r \in Request : \A i \in Image : CallOK(r, i)'
  BY <1>1, <1>3, CallKept
<1>7. QED
  BY <1>4, <1>5, <1>6

(* The goroutine of a key asks the verifier: under the policy in force,    *)
(* which its request has seen.                                             *)
LEMMA AskKeeps ==
    ASSUME ProviderInv, TypeOK, TypeOK', NEW r \in Request, NEW i \in Image, AskVerifier(r, i)
    PROVE  ProviderInv'
<1> USE DEF ProviderInv
<1>1. /\ UNCHANGED <<trustVars, req, seen, policy, published>>
      /\ req[r].st = "open" /\ i \in req[r].keys \ DOMAIN req[r].items
  BY DEF AskVerifier, Call
<1>2. /\ call'[<<r, i>>].image = i /\ call'[<<r, i>>].policy = policy
      /\ call'[<<r, i>>].pc = "answered" => call'[<<r, i>>].answer # None
      /\ \A q \in Request, j \in Image : <<q, j>> # <<r, i>> => call'[<<q, j>>] = call[<<q, j>>]
  BY PairsAreCalls, VerdictsAssumption DEF AskVerifier, Call, TypeOK, Answer
<1>3. ProviderTypeOK' /\ TrustOK'
  BY <1>1 DEF ProviderTypeOK, TrustOK, trustVars
<1>4. \A q \in Request : RequestOK(q)'
  BY <1>1, RequestKept DEF RequestOK
<1>5. ASSUME NEW q \in Request, NEW j \in Image PROVE CallOK(q, j)'
  <2>1. CASE q = r /\ j = i
    BY <1>1, <1>2, <2>1 DEF CallOK, RequestOK
  <2>2. CASE ~(q = r /\ j = i)
    BY <1>1, <1>2, <2>2 DEF CallOK
  <2>3. QED
    BY <2>1, <2>2
<1>6. QED
  BY <1>3, <1>4, <1>5

(* The goroutine writes its item and is gone. *)
LEMMA RecordKeeps ==
    ASSUME ProviderInv, VerifierInv, TypeOK', NEW r \in Request, NEW i \in Image,
           RecordItem(r, i)
    PROVE  ProviderInv'
<1> USE DEF ProviderInv
<1> DEFINE old == req[r].items
           a == call[<<r, i>>].answer
           new == [k \in DOMAIN old \cup {i} |-> IF k = i THEN a ELSE old[k]]
           rec == [req[r] EXCEPT !.items = new]
<1>1. /\ UNCHANGED <<trustVars, seen, policy, published>>
      /\ call[<<r, i>>].pc = "answered" /\ call[<<r, i>>] \in BusyCall
      /\ \A q \in Request, j \in Image : <<q, j>> # <<r, i>> => call'[<<q, j>>] = call[<<q, j>>]
      /\ call'[<<r, i>>].pc = "idle"
  BY PairsAreCalls, BusyCalls DEF RecordItem, Return, VerifierInv, TypeOK, IdleCall
<1>2. /\ req[r].st = "open" /\ i \in req[r].keys \ DOMAIN old
      /\ call[<<r, i>>].image = i /\ call[<<r, i>>].policy.rev \in seen[r]
      /\ a # None
  BY <1>1 DEF CallOK
<1>3. a \in Answer
  BY <1>1, <1>2 DEF BusyCall
<1>4. a = "verified" =>
        i \in Allowed[call[<<r, i>>].policy.rev] \cap Signed[call[<<r, i>>].policy.rev]
                 \cap published
  BY <1>2, PairsAreCalls DEF VerifierInv, AnswersAreSound, Sound, Verdict
<1>5. new \in [DOMAIN old \cup {i} -> Answer] /\ DOMAIN old \cup {i} \in SUBSET Image
  BY <1>3, RequestStates
<1>6. /\ new \in UNION {[K -> Answer] : K \in SUBSET Image}
      /\ DOMAIN new = DOMAIN old \cup {i} /\ new[i] = a
      /\ \A k \in DOMAIN old : new[k] = old[k]
  BY <1>2, <1>5
<1>7. req' = [req EXCEPT ![r] = rec]
  BY DEF RecordItem, ProviderTypeOK
<1> HIDE DEF new
<1>8. /\ rec \in RequestState /\ rec.st = "open" /\ rec.keys = req[r].keys /\ rec.items = new
  BY <1>2, <1>6, RequestStates DEF RequestState
<1> HIDE DEF rec
<1>9. /\ req' \in [Request -> RequestState] /\ req'[r] = rec
      /\ \A q \in Request \ {r} : req'[q] = req[q]
  BY <1>7, <1>8 DEF ProviderTypeOK
<1>10. ProviderTypeOK' /\ TrustOK'
  BY <1>1, <1>9 DEF ProviderTypeOK, TrustOK, trustVars
<1>11. RequestOK(r)'
  BY <1>1, <1>2, <1>4, <1>6, <1>8, <1>9 DEF RequestOK
<1>12. \A q \in Request \ {r} : RequestOK(q)'
  BY <1>1, <1>9, RequestKept DEF RequestOK
<1>13. ASSUME NEW q \in Request, NEW j \in Image PROVE CallOK(q, j)'
  <2>1. CASE q = r /\ j = i
    BY <1>1, <2>1 DEF CallOK
  <2>2. CASE q = r /\ j # i
    BY <1>1, <1>6, <1>8, <1>9, <2>2 DEF CallOK
  <2>3. CASE q # r
    BY <1>1, <1>9, <2>3 DEF CallOK
  <2>4. QED
    BY <2>1, <2>2, <2>3
<1>14. QED
  BY <1>10, <1>11, <1>12, <1>13

(* The steps of a request that do not touch the verifier. *)
LEMMA HandlerKeeps ==
    ASSUME ProviderInv, TypeOK', NEW r \in Request,
           \/ Respond(r) \/ Deadline(r) \/ Hangup(r) \/ ArriveMalformed(r)
           \/ \E keys \in SUBSET Image : Arrive(r, keys)
    PROVE  ProviderInv'
<1> USE DEF ProviderInv
<1>1. UNCHANGED <<vars, trustVars>>
  BY DEF Respond, Deadline, Hangup, ArriveMalformed, Arrive
<1>2. ASSUME NEW u, NEW w, u \in RequestState, w \in SUBSET Revision,
             req' = [req EXCEPT ![r] = u], seen' = [seen EXCEPT ![r] = w],
             u.st # "open" => req[r].st # "open" \/ DOMAIN req[r].items = req[r].keys,
             req[r].st = "open" => u.keys = req[r].keys /\ u.items = req[r].items /\ w = seen[r],
             DOMAIN u.items \subseteq u.keys,
             u.st = "open" => policy.rev \in w,
             u.st = "answered" => DOMAIN u.items = u.keys,
             \A i \in DOMAIN u.items : u.items[i] = "verified" =>
                \E rev \in w : i \in Allowed[rev] \cap Signed[rev] \cap published
      PROVE  ProviderInv'
  <2>1. /\ req' \in [Request -> RequestState] /\ req'[r] = u
        /\ \A q \in Request \ {r} : req'[q] = req[q]
        /\ seen' \in [Request -> SUBSET Revision] /\ seen'[r] = w
        /\ \A q \in Request \ {r} : seen'[q] = seen[q]
    BY <1>2 DEF ProviderTypeOK
  <2>2. ProviderTypeOK' /\ TrustOK'
    BY <1>1, <2>1 DEF ProviderTypeOK, TrustOK, trustVars, vars
  <2>3. RequestOK(r)'
    BY <1>1, <1>2, <2>1 DEF RequestOK, vars
  <2>4. \A q \in Request \ {r} : RequestOK(q)'
    BY <1>1, <2>1, RequestKept DEF RequestOK, vars
  <2>5. ASSUME NEW q \in Request, NEW j \in Image PROVE CallOK(q, j)'
    <3>1. CASE q # r
      BY <1>1, <2>1, <3>1 DEF CallOK, vars
    <3>2. CASE q = r
      BY <1>1, <1>2, <2>1, <3>2 DEF CallOK, vars
    <3>3. QED
      BY <3>1, <3>2
  <2>6. QED
    BY <2>2, <2>3, <2>4, <2>5
<1>3. RequestOK(r) /\ req[r] \in RequestState
  BY RequestStates
<1>4. CASE Respond(r)
  <2> DEFINE u == [req[r] EXCEPT !.st = "answered"]
  <2>1. /\ u \in RequestState /\ u.st = "answered" /\ u.keys = req[r].keys
        /\ u.items = req[r].items
    BY <1>3 DEF RequestState
  <2>2. req' = [req EXCEPT ![r] = u] /\ seen' = [seen EXCEPT ![r] = seen[r]]
    BY <1>4 DEF Respond, ProviderTypeOK
  <2> HIDE DEF u
  <2>3. QED
    <3>1. seen[r] \in SUBSET Revision
      BY DEF ProviderTypeOK
    <3>2. DOMAIN req[r].items = req[r].keys
      BY <1>4 DEF Respond
    <3>3. \A i \in DOMAIN u.items : u.items[i] = "verified" =>
              \E rev \in seen[r] : i \in Allowed[rev] \cap Signed[rev] \cap published
      BY <1>3, <2>1 DEF RequestOK
    <3>4. QED
      BY <1>2, <2>1, <2>2, <3>1, <3>2, <3>3
<1>5. CASE Deadline(r)
  <2> DEFINE u == [req[r] EXCEPT !.expired = TRUE]
  <2>1. /\ u \in RequestState /\ u.st = req[r].st /\ u.keys = req[r].keys
        /\ u.items = req[r].items
    BY <1>3 DEF RequestState
  <2>2. req' = [req EXCEPT ![r] = u] /\ seen' = [seen EXCEPT ![r] = seen[r]]
    BY <1>5 DEF Deadline, ProviderTypeOK
  <2> HIDE DEF u
  <2>3. QED
    <3>1. seen[r] \in SUBSET Revision /\ req[r].st = "open" /\ policy.rev \in seen[r]
      BY <1>3, <1>5 DEF ProviderTypeOK, Deadline, RequestOK
    <3>2. DOMAIN u.items \subseteq u.keys
      BY <1>3, <2>1 DEF RequestOK
    <3>3. \A i \in DOMAIN u.items : u.items[i] = "verified" =>
              \E rev \in seen[r] : i \in Allowed[rev] \cap Signed[rev] \cap published
      BY <1>3, <2>1 DEF RequestOK
    <3>4. QED
      BY <1>2, <2>1, <2>2, <3>1, <3>2, <3>3
<1>6. CASE Hangup(r)
  <2>1. IdleRequest.st = "idle"
    BY DEF IdleRequest
  <2>2. QED
    BY <1>2, <1>6, <2>1, NoItems DEF Hangup
<1>7. CASE ArriveMalformed(r)
  <2> DEFINE u == [req[r] EXCEPT !.st = "system-error"]
  <2>1. /\ u \in RequestState /\ u.st = "system-error" /\ u.items = IdleRequest.items
        /\ req[r].st = "idle"
    <3>1. req[r] = IdleRequest
      BY <1>7 DEF ArriveMalformed
    <3>2. u \in RequestState /\ u.st = "system-error" /\ u.items = req[r].items
      BY <1>3 DEF RequestState
    <3>3. req[r].st = "idle"
      BY <3>1 DEF IdleRequest
    <3>4. QED
      BY <3>1, <3>2, <3>3
  <2>2. req' = [req EXCEPT ![r] = u] /\ seen' = [seen EXCEPT ![r] = seen[r]]
    BY <1>7 DEF ArriveMalformed, ProviderTypeOK
  <2> HIDE DEF u
  <2>3. QED
    BY <1>2, <2>1, <2>2, NoItems DEF ProviderTypeOK
<1>8. ASSUME NEW keys \in SUBSET Image, Arrive(r, keys) PROVE ProviderInv'
  <2> DEFINE st == IF loadErr THEN "system-error" ELSE "open"
             u == [st |-> st, keys |-> keys, items |-> <<>>, expired |-> FALSE]
             w == IF loadErr THEN {} ELSE {policy.rev}
  <2>1. /\ u \in RequestState /\ u.st = st /\ u.items = IdleRequest.items
        /\ req[r].st = "idle"
    <3>1. req[r] = IdleRequest /\ IdleRequest.st = "idle" /\ IdleRequest.items = <<>>
      BY <1>8 DEF Arrive, IdleRequest
    <3>2. u.st = st /\ u.items = <<>> /\ st \in {"open", "system-error"}
      OBVIOUS
    <3>3. u \in RequestState
      BY <3>2, NoItems
    <3>4. QED
      BY <3>1, <3>2, <3>3
  <2>2. req' = [req EXCEPT ![r] = u] /\ seen' = [seen EXCEPT ![r] = w]
    BY <1>8 DEF Arrive
  <2>3. w \in SUBSET Revision /\ (st = "open" => policy.rev \in w) /\ st \in {"open", "system-error"}
    <3>1. policy.rev \in Revision
      BY DEF ProviderTypeOK, TypeOK, Policy
    <3>2. QED
      BY <3>1
  <2> HIDE DEF u, w, st
  <2>4. QED
    BY <1>2, <2>1, <2>2, <2>3, NoItems
<1>9. QED
  BY <1>4, <1>5, <1>6, <1>7, <1>8

-----------------------------------------------------------------------------
(* The inductive invariant of the provider, over the verifier's: requests, *)
(* their calls and the policies they have seen agree.                      *)
THEOREM ProviderInvariance == ProviderSpec => []ProviderInv
<1>1. ProviderInit => ProviderInv
  <2> SUFFICES ASSUME ProviderInit PROVE ProviderInv
    OBVIOUS
  <2>1. /\ req \in [Request -> RequestState]
        /\ \A r \in Request : req[r].st = "idle" /\ DOMAIN req[r].items = {}
    BY NoItems DEF ProviderInit, IdleRequest
  <2>2. \A r \in Request, i \in Image : call[<<r, i>>].pc = "idle"
    BY PairsAreCalls DEF ProviderInit, Init, IdleCall
  <2>3. TrustOK
    BY DEF ProviderInit, TrustOK
  <2>4. ProviderTypeOK
    <3>1. TypeOK
      BY VerdictsAssumption, VerifierAssumption
      DEF ProviderInit, Init, TypeOK, Policy, Key, NewCache
    <3>2. QED
      BY <2>1, <3>1, ProviderAssumption DEF ProviderInit, ProviderTypeOK
  <2>5. \A r \in Request : RequestOK(r)
    BY <2>1 DEF RequestOK
  <2>6. \A r \in Request : \A i \in Image : CallOK(r, i)
    BY <2>2 DEF CallOK
  <2>7. QED
    BY <2>3, <2>4, <2>5, <2>6 DEF ProviderInv
<1>2. ProviderInv /\ VerifierInv /\ VerifierInv' /\ [ProviderNext]_pvars => ProviderInv'
  <2> SUFFICES ASSUME ProviderInv, VerifierInv, VerifierInv', [ProviderNext]_pvars
               PROVE  ProviderInv'
    OBVIOUS
  <2>1. TypeOK /\ TypeOK'
    BY DEF VerifierInv
  <2>2. CASE UNCHANGED pvars
    BY <2>1, <2>2 DEF pvars, vars, trustVars, ProviderInv, ProviderTypeOK, TrustOK,
       RequestOK, CallOK
  <2>3. CASE ProviderNext
    BY <2>1, <2>3, WatcherKeeps, VerifierKeeps, AskKeeps, RecordKeeps, HandlerKeeps
    DEF ProviderNext, Handler
  <2>4. QED
    BY <2>2, <2>3
<1>3. QED
  BY <1>1, <1>2, VerifierHolds, PTL DEF ProviderSpec

(* No image is admitted under a policy that was not in force while its     *)
(* request was open.                                                       *)
THEOREM NeverAdmittedByRevoked == ProviderSpec => []NoRevokedAdmission
<1>1. ProviderInv => NoRevokedAdmission
  BY DEF ProviderInv, RequestOK, NoRevokedAdmission
<1>2. QED
  BY <1>1, ProviderInvariance, PTL

(* Every response has all its items and leaves no call behind. *)
THEOREM ResponsesWhole == ProviderSpec => []ResponsesComplete
<1>1. ProviderInv => ResponsesComplete
  BY NoCallLeft DEF ProviderInv, RequestOK, ResponsesComplete
<1>2. QED
  BY <1>1, ProviderInvariance, PTL
=============================================================================
