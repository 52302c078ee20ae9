----------------------- MODULE AdmissionVerifierProofs -----------------------
(***************************************************************************)
(* Proofs about AdmissionVerifier, for any number of callers, flights,     *)
(* images and revisions and any value of the limits: its invariants, and   *)
(* that it implements AdmissionOracle.                                     *)
(***************************************************************************)
EXTENDS AdmissionRefinement, FiniteSetTheorems, TLAPS

USE VerdictsAssumption, VerifierAssumption

(* A call past its first step has an image and a policy, so its key is a   *)
(* key of the cache.                                                       *)
LEMMA BusyCalls ==
    ASSUME TypeOK, NEW c \in Caller, call[c].pc # "idle"
    PROVE  call[c] \in BusyCall /\ KeyOf(c) \in Key
<1>1. call[c] \in BusyCall
  BY DEF TypeOK, IdleCall
<1>2. QED
  BY <1>1 DEF BusyCall, Policy, KeyOf, Key

(* An answer leaves the call answered and nothing else about it changed.   *)
LEMMA AnsweredCalls ==
    ASSUME TypeOK, NEW c \in Caller, call[c].pc # "idle", NEW a \in Answer, Answered(c, a)
    PROVE  call' \in [Caller -> BusyCall \cup {IdleCall}]
<1>1. call[c] \in BusyCall
  BY BusyCalls
<1>2. [call[c] EXCEPT !.pc = "answered", !.answer = a, !.flight = None] \in BusyCall
  BY <1>1 DEF BusyCall
<1>3. call' = [call EXCEPT ![c] = [call[c] EXCEPT !.pc = "answered", !.answer = a, !.flight = None]]
  BY DEF Answered, TypeOK
<1>4. QED
  BY <1>2, <1>3 DEF TypeOK

(* A flight in progress has a key, a policy and possibly a result. *)
LEMMA RunningFlights ==
    ASSUME TypeOK, NEW f \in Flight, flight[f].st # "free"
    PROVE  flight[f] \in RunningFlight
BY DEF TypeOK, FreeFlight

(* A live entry holds a verdict. *)
LEMMA LiveEntries ==
    ASSUME TypeOK, NEW k \in Key, Live(k)
    PROVE  cache[k] \in Entry /\ cache[k].verdict \in Verdict
BY DEF TypeOK, Live, Entry

(* Type correctness: every operation keeps the verifier's state within its *)
(* declared shape.                                                         *)
THEOREM TypeCorrect == Spec => []TypeOK
<1>1. Init => TypeOK
  BY DEF Init, TypeOK, Policy, Key, NewCache
<1>2. TypeOK /\ [Next]_vars => TypeOK'
  <2> SUFFICES ASSUME TypeOK, [Next]_vars PROVE TypeOK'
    OBVIOUS
  <2>1. ASSUME NEW r \in Revision, SetPolicy(r) PROVE TypeOK'
    BY <2>1 DEF SetPolicy, NewCache, TypeOK, Policy
  <2>2. ASSUME NEW c \in Caller, NEW i \in Image, Call(c, i) PROVE TypeOK'
    <3>1. [pc |-> IF i \in WellFormed /\ i \in Allowed[policy.rev]
                  THEN "lookup" ELSE "answered",
           image |-> i, policy |-> policy, flight |-> None,
           answer |-> IF i \notin WellFormed THEN "not-digest"
                      ELSE IF i \notin Allowed[policy.rev] THEN "registry-denied"
                      ELSE None] \in BusyCall
      BY DEF BusyCall, Answer, TypeOK
    <3>2. QED
      BY <2>2, <3>1 DEF Call, TypeOK
  <2>3. ASSUME NEW c \in Caller, Lookup(c) PROVE TypeOK'
    <3>1. call[c] \in BusyCall /\ KeyOf(c) \in Key
      BY <2>3, BusyCalls DEF Lookup
    <3>2. CASE Live(KeyOf(c))
      <4>1. cache[KeyOf(c)].verdict \in Answer
        BY <3>1, <3>2, LiveEntries DEF Answer
      <4>2. QED
        BY <2>3, <3>2, <4>1, AnsweredCalls DEF Lookup, TypeOK
    <3>3. CASE ~Live(KeyOf(c))
      <4>1. [call[c] EXCEPT !.pc = "start"] \in BusyCall
        BY <3>1 DEF BusyCall
      <4>2. QED
        BY <2>3, <3>3, <4>1 DEF Lookup, TypeOK
    <3>4. QED
      BY <3>2, <3>3
  <2>4. ASSUME NEW c \in Caller, StartHit(c) PROVE TypeOK'
    <3>1. call[c] \in BusyCall /\ KeyOf(c) \in Key
      BY <2>4, BusyCalls DEF StartHit
    <3>2. cache[KeyOf(c)].verdict \in Answer
      BY <2>4, <3>1, LiveEntries DEF Answer, StartHit
    <3>3. QED
      BY <2>4, <3>2, AnsweredCalls DEF StartHit, TypeOK
  <2>5. ASSUME NEW c \in Caller, StartJoin(c) PROVE TypeOK'
    <3>1. call[c] \in BusyCall /\ KeyOf(c) \in Key
      BY <2>5, BusyCalls DEF StartJoin
    <3>2. [call[c] EXCEPT !.pc = "waiting", !.flight = inflight[KeyOf(c)]] \in BusyCall
      BY <3>1 DEF BusyCall, TypeOK
    <3>3. call' = [call EXCEPT ![c] =
                      [call[c] EXCEPT !.pc = "waiting", !.flight = inflight[KeyOf(c)]]]
      BY <2>5 DEF StartJoin, TypeOK
    <3>4. QED
      BY <2>5, <3>2, <3>3 DEF StartJoin, TypeOK
  <2>6. ASSUME NEW c \in Caller, StartTooMany(c) PROVE TypeOK'
    BY <2>6, AnsweredCalls DEF StartTooMany, Answer, TypeOK
  <2>7. ASSUME NEW c \in Caller, NEW f \in Flight, StartFlight(c, f) PROVE TypeOK'
    <3>1. call[c] \in BusyCall /\ KeyOf(c) \in Key
      BY <2>7, BusyCalls DEF StartFlight, StartsOn
    <3>2. [call[c] EXCEPT !.pc = "waiting", !.flight = f] \in BusyCall
      BY <3>1 DEF BusyCall
    <3>3. call' = [call EXCEPT ![c] = [call[c] EXCEPT !.pc = "waiting", !.flight = f]]
      BY <2>7 DEF StartFlight, StartsOn, TypeOK
    <3>4. [st |-> "queued", key |-> KeyOf(c), policy |-> call[c].policy, result |-> None]
             \in RunningFlight
      BY <3>1 DEF RunningFlight, FlyingFlight, LandedFlight, BusyCall
    <3>5. QED
      BY <2>7, <3>1, <3>2, <3>3, <3>4 DEF StartFlight, StartsOn, TypeOK
  <2>8. ASSUME NEW c \in Caller, Receive(c) \/ GiveUp(c) \/ Return(c) PROVE TypeOK'
    <3>1. CASE Receive(c)
      <4>1. call[c].answer \in Answer
        BY <3>1, BusyCalls DEF Receive, BusyCall
      <4>2. QED
        BY <3>1, <4>1, AnsweredCalls DEF Receive, TypeOK
    <3>2. CASE GiveUp(c)
      BY <3>2, AnsweredCalls DEF GiveUp, Answer, TypeOK
    <3>3. CASE Return(c)
      BY <3>3 DEF Return, TypeOK
    <3>4. QED
      BY <2>8, <3>1, <3>2, <3>3
  <2>9. ASSUME NEW f \in Flight, FlightStep(f) PROVE TypeOK'
    <3> DEFINE g == flight[f]
    <3>1. CASE Acquire(f)
      <4>1. [g EXCEPT !.st = "verifying"] \in RunningFlight
        BY <3>1, RunningFlights DEF Acquire, RunningFlight, FlyingFlight, LandedFlight
      <4>2. QED
        BY <3>1, <4>1 DEF Acquire, TypeOK
    <3>2. CASE CapacityExhausted(f) \/ VerifyFails(f)
      <4>1. [g EXCEPT !.st = "landed", !.result = "provider-down"] \in RunningFlight
        BY <3>2, RunningFlights DEF CapacityExhausted, VerifyFails, RunningFlight, FlyingFlight, LandedFlight
      <4>2. flight' = [flight EXCEPT ![f] = [g EXCEPT !.st = "landed", !.result = "provider-down"]]
        BY <3>2 DEF CapacityExhausted, VerifyFails, TypeOK
      <4>3. QED
        BY <3>2, <4>1, <4>2 DEF CapacityExhausted, VerifyFails, TypeOK
    <3>3. CASE Verify(f)
      <4> DEFINE v == Finding(g.policy.rev, g.key[1], published)
      <4>1. [g EXCEPT !.st = "landed", !.result = v] \in RunningFlight
        BY <3>3, RunningFlights DEF Verify, Finding, Verdict, RunningFlight, FlyingFlight, LandedFlight
      <4>2. flight' = [flight EXCEPT ![f] = [g EXCEPT !.st = "landed", !.result = v]]
        BY <3>3 DEF Verify, TypeOK
      <4>3. QED
        BY <3>3, <4>1, <4>2 DEF Verify, TypeOK
    <3>4. CASE Store(f)
      <4>1. g \in RunningFlight /\ [g EXCEPT !.st = "stored"] \in RunningFlight
        BY <3>4, RunningFlights DEF Store, StoreEntry, RunningFlight, FlyingFlight, LandedFlight
      <4>2. cache' \in [Key -> Entry \cup {None}]
        BY <3>4, <4>1 DEF Store, StoreEntry, TypeOK, RunningFlight, FlyingFlight, LandedFlight, Entry, Policy
      <4>3. QED
        BY <3>4, <4>1, <4>2 DEF Store, StoreEntry, TypeOK
    <3>5. CASE Delete(f)
      <4>1. g \in RunningFlight /\ [g EXCEPT !.st = "closing"] \in RunningFlight
        BY <3>5, RunningFlights DEF Delete, RunningFlight, FlyingFlight, LandedFlight
      <4>2. QED
        BY <3>5, <4>1 DEF Delete, TypeOK
    <3>6. CASE Close(f)
      <4>1. g \in RunningFlight
        BY <3>6, RunningFlights DEF Close
      <4>2. ASSUME NEW c \in Caller, call[c].flight = f
            PROVE  [call[c] EXCEPT !.answer = g.result, !.flight = None] \in BusyCall
        <5>1. call[c] \in BusyCall
          BY <4>2 DEF TypeOK, IdleCall
        <5>2. QED
          BY <4>1, <5>1 DEF BusyCall, RunningFlight, FlyingFlight, LandedFlight, Answer
      <4>3. QED
        BY <3>6, <4>2 DEF Close, TypeOK
    <3>7. QED
      BY <2>9, <3>1, <3>2, <3>3, <3>4, <3>5, <3>6 DEF FlightStep
  <2>10. ASSUME NEW k \in Key, Expire(k) PROVE TypeOK'
    <3>1. [cache[k] EXCEPT !.live = FALSE] \in Entry
      BY <2>10, LiveEntries DEF Expire, Entry
    <3>2. QED
      BY <2>10, <3>1 DEF Expire, TypeOK
  <2>11. ASSUME NEW i \in Image, Publish(i) PROVE TypeOK'
    BY <2>11 DEF Publish, TypeOK
  <2>12. CASE UNCHANGED vars
    BY <2>12 DEF vars, TypeOK
  <2>13. QED
    BY <2>1, <2>2, <2>3, <2>4, <2>5, <2>6, <2>7, <2>8, <2>9, <2>10, <2>11, <2>12
    DEF Next, VerifierNext, CallStep, Start
<1>3. QED
  BY <1>1, <1>2, PTL DEF Spec

-----------------------------------------------------------------------------
(* Evidence in the registry only grows, so an answer that was right stays  *)
(* right.                                                                  *)
LEMMA SoundStays ==
    ASSUME NEW v, NEW rev, NEW i, NEW p, NEW q, p \subseteq q, Sound(v, rev, i, p)
    PROVE  Sound(v, rev, i, q)
BY DEF Sound

LEMMA PublishedGrows ==
    ASSUME TypeOK, [Next]_vars PROVE published \subseteq published'
BY DEF Next, VerifierNext, CallStep, Start, FlightStep, vars, SetPolicy, Call, Lookup,
       StartHit, StartJoin, StartTooMany, StartFlight, StartsOn, Receive, GiveUp, Return, Acquire,
       CapacityExhausted, Verify, VerifyFails, Store, StoreEntry, Delete, Close, Expire, Publish

(* What verify finds is right at the moment it finds it. *)
LEMMA FindingSound ==
    ASSUME NEW rev \in Revision, NEW i \in WellFormed \cap Allowed[rev],
           Image \ Late \subseteq published
    PROVE  /\ Sound(Finding(rev, i, published), rev, i, published)
           /\ Sound("provider-down", rev, i, published)
BY DEF Sound, Finding, Verdict

(* The part of the invariant that no step of a call touches. *)
SharedInv ==
    /\ Image \ Late \subseteq published
    /\ FlightsAgree
    /\ InflightAgrees
    /\ SingleFlight
    /\ CacheOfPolicyInForce

LEMMA CallStepsShareNothing ==
    ASSUME SharedInv, UNCHANGED <<policy, cache, inflight, flight, published>>
    PROVE  SharedInv'
BY DEF SharedInv, FlightsAgree, InflightAgrees, SingleFlight, CacheOfPolicyInForce,
       Registered, Cached

(* A live verdict is right for the call that reads it. *)
LEMMA HitsAreSound ==
    ASSUME TypeOK, SharedInv, NEW c \in Caller, call[c].pc # "idle", Live(KeyOf(c))
    PROVE  /\ cache[KeyOf(c)].verdict \in Verdict
           /\ Sound(cache[KeyOf(c)].verdict, call[c].policy.rev, call[c].image, published)
<1>1. KeyOf(c) \in Key /\ KeyOf(c) = <<call[c].image, call[c].policy.rev>>
  BY BusyCalls DEF KeyOf
<1>2. KeyOf(c) \in Cached
  BY <1>1 DEF Cached, Live
<1>3. KeyOf(c)[1] = call[c].image /\ KeyOf(c)[2] = call[c].policy.rev
  BY <1>1
<1>4. Sound(cache[KeyOf(c)].verdict, policy.rev, call[c].image, published)
       /\ call[c].policy.rev = policy.rev
  BY <1>2, <1>3 DEF SharedInv, CacheOfPolicyInForce
<1>5. QED
  BY <1>1, <1>4, LiveEntries

(* A call that is given a right answer keeps the calls' part of the        *)
(* invariant.                                                              *)
LEMMA AnsweredCallsAgree ==
    ASSUME TypeOK, CallsAgree, AnswersAreSound, NEW c \in Caller, call[c].pc # "idle",
           NEW v \in Answer, Sound(v, call[c].policy.rev, call[c].image, published),
           Answered(c, v), UNCHANGED <<flight, published>>
    PROVE  CallsAgree' /\ AnswersAreSound'
<1>1. /\ call'[c].pc = "answered" /\ call'[c].answer = v /\ call'[c].flight = None
      /\ call'[c].image = call[c].image /\ call'[c].policy = call[c].policy
      /\ \A d \in Caller \ {c} : call'[d] = call[d]
  <2>1. call[c] \in BusyCall
    BY BusyCalls
  <2>2. QED
    BY <2>1 DEF Answered, TypeOK, BusyCall
<1>2. CallsAgree'
  BY <1>1 DEF CallsAgree, KeyOf
<1>3. AnswersAreSound'
  BY <1>1 DEF AnswersAreSound
<1>4. QED
  BY <1>2, <1>3

(* Every step of a call keeps the invariant. *)
LEMMA CallStepsKeepInv ==
    ASSUME VerifierInv, NEW c \in Caller,
           \/ \E i \in Image : Call(c, i)
           \/ Lookup(c) \/ StartHit(c) \/ StartJoin(c) \/ StartTooMany(c)
           \/ Receive(c) \/ GiveUp(c) \/ Return(c)
    PROVE  SharedInv' /\ CallsAgree' /\ AnswersAreSound'
<1> USE DEF VerifierInv
<1>0. SharedInv
  BY DEF SharedInv
<1>1. SharedInv'
  BY <1>0, CallStepsShareNothing DEF Call, Lookup, StartHit, StartJoin, StartTooMany,
     Receive, GiveUp, Return
<1> SUFFICES CallsAgree' /\ AnswersAreSound'
  BY <1>1
<1>2. ASSUME NEW i \in Image, Call(c, i) PROVE CallsAgree' /\ AnswersAreSound'
  <2>1. /\ call'[c].image = i /\ call'[c].policy = policy /\ call'[c].flight = None
        /\ call'[c].pc \in {"lookup", "start", "waiting"} =>
              i \in WellFormed \cap Allowed[policy.rev]
        /\ call'[c].answer # None =>
              \/ call'[c].answer = "not-digest" /\ i \notin WellFormed
              \/ /\ call'[c].answer = "registry-denied"
                 /\ i \in WellFormed /\ i \notin Allowed[policy.rev]
        /\ \A d \in Caller \ {c} : call'[d] = call[d]
        /\ UNCHANGED <<flight, published>>
    BY <1>2 DEF Call, TypeOK
  <2>2. CallsAgree'
    BY <2>1 DEF CallsAgree, KeyOf
  <2>3. AnswersAreSound'
    BY <2>1 DEF AnswersAreSound, Sound, Verdict
  <2>4. QED
    BY <2>2, <2>3
<1>3. CASE Lookup(c)
  <2>1. CASE Live(KeyOf(c))
    BY <1>0, <1>3, <2>1, HitsAreSound, AnsweredCallsAgree DEF Lookup, Answer
  <2>2. CASE ~Live(KeyOf(c))
    <3>1. /\ call'[c].pc = "start" /\ call'[c].image = call[c].image
          /\ call'[c].policy = call[c].policy /\ call'[c].flight = call[c].flight
          /\ call'[c].answer = call[c].answer
          /\ \A d \in Caller \ {c} : call'[d] = call[d]
      <4>1. call[c] \in BusyCall
        BY <1>3, BusyCalls DEF Lookup
      <4>2. QED
        BY <1>3, <2>2, <4>1 DEF Lookup, TypeOK, BusyCall
    <3>2. CallsAgree'
      BY <1>3, <3>1 DEF CallsAgree, KeyOf, Lookup
    <3>3. AnswersAreSound'
      BY <1>3, <3>1 DEF AnswersAreSound, Lookup
    <3>4. QED
      BY <3>2, <3>3
  <2>3. QED
    BY <2>1, <2>2
<1>4. CASE StartHit(c)
  BY <1>0, <1>4, HitsAreSound, AnsweredCallsAgree DEF StartHit, Answer
<1>5. CASE StartJoin(c)
  <2>1. call[c] \in BusyCall /\ KeyOf(c) \in Key
    BY <1>5, BusyCalls DEF StartJoin
  <2>2. /\ call'[c].pc = "waiting" /\ call'[c].image = call[c].image
        /\ call'[c].policy = call[c].policy /\ call'[c].flight = inflight[KeyOf(c)]
        /\ call'[c].answer = call[c].answer
        /\ \A d \in Caller \ {c} : call'[d] = call[d]
    BY <1>5, <2>1 DEF StartJoin, TypeOK, BusyCall
  <2>3. flight[inflight[KeyOf(c)]].st # "free" /\ flight[inflight[KeyOf(c)]].key = KeyOf(c)
    BY <1>5, <2>1 DEF StartJoin, InflightAgrees, Registered
  <2>4. CallsAgree'
    <3>1. KeyOf(c)' = KeyOf(c) /\ \A d \in Caller \ {c} : KeyOf(d)' = KeyOf(d)
      BY <2>2 DEF KeyOf
    <3>2. call[c].image \in WellFormed \cap Allowed[call[c].policy.rev]
      BY <1>5 DEF CallsAgree, StartJoin
    <3>3. flight' = flight
      BY <1>5 DEF StartJoin
    <3>4. QED
      BY <2>2, <2>3, <3>1, <3>2, <3>3 DEF CallsAgree
  <2>5. AnswersAreSound'
    <3>1. published' = published
      BY <1>5 DEF StartJoin
    <3>2. \A d \in Caller : /\ call'[d].answer = call[d].answer
                           /\ call'[d].policy = call[d].policy
                           /\ call'[d].image = call[d].image
      BY <2>2
    <3>3. QED
      BY <3>1, <3>2 DEF AnswersAreSound, Sound
  <2>6. QED
    BY <2>4, <2>5
<1>6. CASE StartTooMany(c) \/ GiveUp(c)
  <2>1. Sound("provider-down", call[c].policy.rev, call[c].image, published)
    BY <1>6 DEF CallsAgree, StartTooMany, GiveUp, Sound
  <2>2. QED
    BY <1>6, <2>1, AnsweredCallsAgree DEF StartTooMany, GiveUp, Answer
<1>7. CASE Receive(c)
  <2>1. call[c].answer \in Answer
    BY <1>7, BusyCalls DEF Receive, BusyCall
  <2>2. QED
    BY <1>7, <2>1, AnsweredCallsAgree DEF Receive, AnswersAreSound
<1>8. CASE Return(c)
  BY <1>8 DEF Return, CallsAgree, AnswersAreSound, KeyOf, IdleCall, TypeOK
<1>9. QED
  BY <1>2, <1>3, <1>4, <1>5, <1>6, <1>7, <1>8

(* The rest of the invariant, when a flight changes and the key it has is  *)
(* the same: the calls waiting on it still wait on a flight of their key.  *)
LEMMA StartFlightKeepsInv ==
    ASSUME VerifierInv, NEW c \in Caller, NEW f \in Flight, StartFlight(c, f)
    PROVE  SharedInv' /\ CallsAgree' /\ AnswersAreSound'
<1> USE DEF VerifierInv
<1> DEFINE k == KeyOf(c)
<1>1. /\ call[c] \in BusyCall /\ k \in Key /\ call[c].pc = "start"
      /\ k[1] = call[c].image /\ k[2] = call[c].policy.rev
  BY BusyCalls DEF StartFlight, StartsOn, KeyOf
<1>2. /\ call'[c].pc = "waiting" /\ call'[c].image = call[c].image
      /\ call'[c].policy = call[c].policy /\ call'[c].flight = f
      /\ call'[c].answer = call[c].answer
      /\ \A d \in Caller \ {c} : call'[d] = call[d]
  BY <1>1 DEF StartFlight, StartsOn, TypeOK, BusyCall
<1>3. /\ flight'[f] = [st |-> "queued", key |-> k, policy |-> call[c].policy, result |-> None]
      /\ flight[f].st = "free"
      /\ \A g \in Flight \ {f} : flight'[g] = flight[g]
      /\ inflight[k] = None
      /\ inflight'[k] = f
      /\ \A j \in Key \ {k} : inflight'[j] = inflight[j]
      /\ UNCHANGED <<policy, cache, published>>
  BY <1>1 DEF StartFlight, StartsOn, TypeOK, FreeFlight
<1> HIDE DEF k
<1>4. k[1] \in WellFormed \cap Allowed[call[c].policy.rev]
  BY <1>1 DEF CallsAgree
<1>5. FlightsAgree'
  BY <1>1, <1>3, <1>4 DEF FlightsAgree
<1>6. InflightAgrees'
  BY <1>1, <1>3 DEF InflightAgrees, Registered, TypeOK
<1>7. SingleFlight'
  <2>1. \A g \in Flight \ {f} : Registered(g)' = Registered(g)
    BY <1>3 DEF Registered
  <2>2. \A g \in Flight \ {f} : Registered(g) => flight[g].key \in Key /\ flight[g].key # k
    BY <1>3, RunningFlights DEF SingleFlight, Registered, RunningFlight, FlyingFlight, LandedFlight
  <2>3. QED
    BY <1>3, <2>1, <2>2 DEF SingleFlight
<1>8. CacheOfPolicyInForce'
  BY <1>3 DEF CacheOfPolicyInForce, Cached
<1>9. CallsAgree'
  <2>1. KeyOf(c)' = k /\ \A d \in Caller \ {c} : KeyOf(d)' = KeyOf(d)
    BY <1>2 DEF KeyOf, k
  <2>2. \A d \in Caller \ {c} : call[d].flight # None => call[d].flight \in Flight \ {f}
    BY <1>3 DEF CallsAgree, TypeOK, BusyCall, IdleCall
  <2>3. QED
    BY <1>1, <1>2, <1>3, <1>4, <2>1, <2>2 DEF CallsAgree
<1>10. AnswersAreSound'
  BY <1>2, <1>3 DEF AnswersAreSound
<1>11. QED
  BY <1>3, <1>5, <1>6, <1>7, <1>8, <1>9, <1>10 DEF SharedInv

(* A flight that only moves on, or lands with a right result, keeps the    *)
(* invariant.                                                              *)
LEMMA FlightMovesOn ==
    ASSUME VerifierInv, NEW f \in Flight, Registered(f), Registered(f)',
           flight' = [flight EXCEPT ![f] = flight'[f]],
           flight'[f].key = flight[f].key, flight'[f].policy = flight[f].policy,
           flight'[f].result # None =>
               Sound(flight'[f].result, flight[f].policy.rev, flight[f].key[1], published),
           UNCHANGED <<inflight, call, published>>
    PROVE  FlightsAgree' /\ InflightAgrees' /\ SingleFlight' /\ CallsAgree' /\ AnswersAreSound'
<1> USE DEF VerifierInv
<1>1. \A g \in Flight \ {f} : flight'[g] = flight[g]
  BY DEF TypeOK
<1>2. \A g \in Flight : /\ Registered(g)' = Registered(g)
                        /\ flight'[g].key = flight[g].key
                        /\ flight'[g].policy = flight[g].policy
                        /\ flight'[g].st = "free" <=> flight[g].st = "free"
  BY <1>1 DEF Registered
<1>3. FlightsAgree'
  BY <1>1, <1>2 DEF FlightsAgree, Registered
<1>4. InflightAgrees'
  BY <1>2 DEF InflightAgrees, TypeOK
<1>5. SingleFlight'
  BY <1>2 DEF SingleFlight
<1>6. CallsAgree'
  <2>1. \A d \in Caller : call[d].flight # None => call[d].flight \in Flight
    BY DEF TypeOK, BusyCall, IdleCall
  <2>2. QED
    BY <1>2, <2>1 DEF CallsAgree, KeyOf
<1>7. AnswersAreSound'
  BY DEF AnswersAreSound
<1>8. QED
  BY <1>3, <1>4, <1>5, <1>6, <1>7

(* Every step of a flight's goroutine keeps the invariant. *)
LEMMA FlightStepsKeepInv ==
    ASSUME VerifierInv, NEW f \in Flight, FlightStep(f)
    PROVE  SharedInv' /\ CallsAgree' /\ AnswersAreSound'
<1> USE DEF VerifierInv
<1>1. /\ flight[f] \in RunningFlight /\ flight[f].key \in Key
      /\ flight[f].policy.rev \in Revision
      /\ flight[f].key[2] = flight[f].policy.rev
      /\ flight[f].key[1] \in WellFormed \cap Allowed[flight[f].policy.rev]
  <2>1. flight[f].st # "free"
    BY DEF FlightStep, Acquire, CapacityExhausted, Verify, VerifyFails, Store, StoreEntry, Delete, Close
  <2>2. QED
    BY <2>1, RunningFlights DEF FlightsAgree, RunningFlight, FlyingFlight, LandedFlight, Policy
<1>2. CASE Acquire(f)
  <2>1. /\ Registered(f) /\ Registered(f)'
        /\ flight' = [flight EXCEPT ![f] = flight'[f]]
        /\ flight'[f].key = flight[f].key /\ flight'[f].policy = flight[f].policy
        /\ flight'[f].result = flight[f].result
    BY <1>1, <1>2 DEF Acquire, Registered, TypeOK, RunningFlight, FlyingFlight, LandedFlight
  <2>2. QED
    BY <1>1, <1>2, <2>1, FlightMovesOn
    DEF Acquire, SharedInv, CacheOfPolicyInForce, Cached, FlightsAgree
<1>3. CASE CapacityExhausted(f) \/ VerifyFails(f) \/ Verify(f)
  <2>1. /\ Registered(f) /\ Registered(f)'
        /\ flight' = [flight EXCEPT ![f] = flight'[f]]
        /\ flight'[f].key = flight[f].key /\ flight'[f].policy = flight[f].policy
        /\ \/ flight'[f].result = "provider-down"
           \/ flight'[f].result = Finding(flight[f].policy.rev, flight[f].key[1], published)
    BY <1>1, <1>3 DEF CapacityExhausted, VerifyFails, Verify, Registered, TypeOK,
       RunningFlight, FlyingFlight, LandedFlight
  <2>2. Sound(flight'[f].result, flight[f].policy.rev, flight[f].key[1], published)
    BY <1>1, <2>1, FindingSound
  <2>3. QED
    BY <1>3, <2>1, <2>2, FlightMovesOn
    DEF CapacityExhausted, VerifyFails, Verify, SharedInv, CacheOfPolicyInForce, Cached
<1>4. CASE Store(f)
  <2>1. /\ Registered(f) /\ Registered(f)'
        /\ flight' = [flight EXCEPT ![f] = flight'[f]]
        /\ flight'[f].key = flight[f].key /\ flight'[f].policy = flight[f].policy
        /\ flight'[f].result = flight[f].result
        /\ flight[f].result # None
        /\ UNCHANGED <<policy, inflight, call, published>>
    BY <1>1, <1>4 DEF Store, StoreEntry, Registered, TypeOK, RunningFlight, FlyingFlight, LandedFlight,
       Verdict, Answer
  <2>2. Sound(flight[f].result, flight[f].policy.rev, flight[f].key[1], published)
    BY <1>1, <2>1 DEF FlightsAgree, Registered
  <2>3. CacheOfPolicyInForce'
    <3>1. CASE cache' = cache
      BY <2>1, <3>1 DEF CacheOfPolicyInForce, Cached
    <3>2. CASE cache' # cache
      <4>1. /\ policy = flight[f].policy
            /\ cache' = [k \in Key |->
                  IF k = flight[f].key
                  THEN [verdict |-> flight[f].result,
                        gen |-> flight[f].policy.gen, live |-> TRUE]
                  ELSE IF k \in Kept THEN cache[k] ELSE None]
        BY <1>4, <3>2 DEF Store, StoreEntry
      <4>2. SUFFICES ASSUME NEW k \in Key, cache'[k] # None
                     PROVE  /\ cache'[k].gen = policy.gen
                            /\ k[2] = policy.rev
                            /\ Sound(cache'[k].verdict, policy.rev, k[1], published)
        BY <2>1 DEF CacheOfPolicyInForce, Cached
      <4>3. CASE k = flight[f].key
        BY <1>1, <2>2, <4>1, <4>3
      <4>4. CASE k # flight[f].key
        <5>1. cache'[k] = cache[k] /\ k \in Cached
          BY <4>1, <4>2, <4>4 DEF Cached
        <5>2. QED
          BY <5>1 DEF CacheOfPolicyInForce
      <4>5. QED
        BY <4>3, <4>4
    <3>3. QED
      BY <3>1, <3>2
  <2>4. QED
    BY <2>1, <2>2, <2>3, FlightMovesOn DEF SharedInv
<1>5. CASE Delete(f)
  <2> DEFINE k == flight[f].key
  <2>1. /\ flight[f].st = "stored" /\ flight'[f].st = "closing"
        /\ flight'[f].key = k /\ flight'[f].policy = flight[f].policy
        /\ flight'[f].result = flight[f].result
        /\ \A g \in Flight \ {f} : flight'[g] = flight[g]
        /\ inflight'[k] = None
        /\ \A j \in Key \ {k} : inflight'[j] = inflight[j]
        /\ UNCHANGED <<policy, cache, call, published>>
    BY <1>1, <1>5 DEF Delete, TypeOK, RunningFlight, FlyingFlight, LandedFlight
  <2>2. FlightsAgree'
    BY <2>1 DEF FlightsAgree
  <2>3. \A g \in Flight \ {f} : Registered(g) => flight[g].key \in Key /\ flight[g].key # k
    BY <2>1, RunningFlights
    DEF SingleFlight, Registered, RunningFlight, FlyingFlight, LandedFlight
  <2>4. InflightAgrees'
    <3>1. \A j \in Key \ {k} : inflight[j] # f
      BY <1>1, <2>1 DEF InflightAgrees, TypeOK
    <3>2. QED
      BY <1>1, <2>1, <3>1 DEF InflightAgrees, Registered, TypeOK
  <2>5. SingleFlight'
    BY <2>1, <2>3 DEF SingleFlight, Registered
  <2>6. CallsAgree'
    <3>1. \A d \in Caller : call[d].flight # None => call[d].flight \in Flight
      BY DEF TypeOK, BusyCall, IdleCall
    <3>2. QED
      BY <2>1, <3>1 DEF CallsAgree, KeyOf
  <2>7. QED
    BY <2>1, <2>2, <2>4, <2>5, <2>6 DEF SharedInv, CacheOfPolicyInForce, Cached, AnswersAreSound
<1>6. CASE Close(f)
  <2>1. /\ flight[f].st = "closing" /\ flight'[f].st = "free"
        /\ \A g \in Flight \ {f} : flight'[g] = flight[g]
        /\ UNCHANGED <<policy, cache, inflight, published>>
    BY <1>6 DEF Close, TypeOK, FreeFlight
  <2>2. FlightsAgree' /\ InflightAgrees' /\ SingleFlight' /\ CacheOfPolicyInForce'
    BY <2>1 DEF FlightsAgree, InflightAgrees, SingleFlight, CacheOfPolicyInForce, Cached,
       Registered, TypeOK
  <2>3. Sound(flight[f].result, flight[f].policy.rev, flight[f].key[1], published)
    BY <1>1, <2>1 DEF FlightsAgree, RunningFlight, FlyingFlight, LandedFlight, Verdict, Answer
  <2>4. ASSUME NEW d \in Caller
        PROVE  /\ call'[d].pc = call[d].pc /\ call'[d].image = call[d].image
               /\ call'[d].policy = call[d].policy
               /\ \/ call[d].flight # f /\ call'[d] = call[d]
                  \/ /\ call[d].flight = f /\ call'[d].flight = None
                     /\ call'[d].answer = flight[f].result
    <3>1. call[d] \in BusyCall \cup {IdleCall}
      BY DEF TypeOK
    <3>2. QED
      BY <1>6, <3>1 DEF Close, BusyCall, IdleCall
  <2>5. CallsAgree'
    <3>1. ASSUME NEW d \in Caller, call'[d].flight # None
          PROVE  /\ call'[d].pc = "waiting"
                 /\ flight'[call'[d].flight].st # "free"
                 /\ flight'[call'[d].flight].key = KeyOf(d)'
      <4>1. call'[d] = call[d] /\ call[d].flight \in Flight \ {f}
        BY <2>4, <3>1 DEF TypeOK, BusyCall, IdleCall
      <4>2. QED
        BY <2>1, <3>1, <4>1 DEF CallsAgree, KeyOf
    <3>2. QED
      BY <2>4, <3>1 DEF CallsAgree
  <2>6. AnswersAreSound'
    <3>1. ASSUME NEW d \in Caller, call[d].flight = f
          PROVE  call[d].image = flight[f].key[1] /\ call[d].policy.rev = flight[f].policy.rev
      BY <1>1, <3>1 DEF CallsAgree, KeyOf
    <3>2. QED
      BY <2>1, <2>3, <2>4, <3>1 DEF AnswersAreSound
  <2>7. QED
    BY <2>1, <2>2, <2>5, <2>6 DEF SharedInv
<1>7. QED
  BY <1>2, <1>3, <1>4, <1>5, <1>6 DEF FlightStep

(* A policy change, the clock and the registry keep the invariant. *)
LEMMA OtherStepsKeepInv ==
    ASSUME VerifierInv,
           \/ \E r \in Revision : SetPolicy(r)
           \/ \E k \in Key : Expire(k)
           \/ \E i \in Image : Publish(i)
           \/ UNCHANGED vars
    PROVE  SharedInv' /\ CallsAgree' /\ AnswersAreSound'
<1> USE DEF VerifierInv
<1>1. ASSUME NEW r \in Revision, SetPolicy(r) PROVE SharedInv' /\ CallsAgree' /\ AnswersAreSound'
  BY <1>1 DEF SetPolicy, NewCache, SharedInv, FlightsAgree, InflightAgrees, SingleFlight,
     CacheOfPolicyInForce, Cached, Registered, CallsAgree, AnswersAreSound, KeyOf
<1>2. ASSUME NEW k \in Key, Expire(k) PROVE SharedInv' /\ CallsAgree' /\ AnswersAreSound'
  <2>1. /\ UNCHANGED <<policy, inflight, flight, call, published>>
        /\ k \in Cached
        /\ cache'[k].gen = cache[k].gen /\ cache'[k].verdict = cache[k].verdict
        /\ \A j \in Key \ {k} : cache'[j] = cache[j]
    BY <1>2, LiveEntries DEF Expire, Live, Cached, TypeOK, Entry
  <2>2. CacheOfPolicyInForce'
    BY <2>1 DEF CacheOfPolicyInForce, Cached
  <2>3. QED
    BY <2>1, <2>2 DEF SharedInv, FlightsAgree, InflightAgrees, SingleFlight, Registered,
       CallsAgree, AnswersAreSound, KeyOf
<1>3. ASSUME NEW i \in Image, Publish(i) PROVE SharedInv' /\ CallsAgree' /\ AnswersAreSound'
  <2>1. UNCHANGED <<policy, cache, inflight, flight, call>> /\ published \subseteq published'
    BY <1>3 DEF Publish
  <2>2. FlightsAgree'
    BY <2>1, SoundStays DEF FlightsAgree
  <2>3. CacheOfPolicyInForce'
    BY <2>1, SoundStays DEF CacheOfPolicyInForce, Cached
  <2>4. AnswersAreSound'
    BY <2>1, SoundStays DEF AnswersAreSound
  <2>5. QED
    BY <2>1, <2>2, <2>3, <2>4
    DEF SharedInv, InflightAgrees, SingleFlight, Registered, CallsAgree, KeyOf
<1>4. CASE UNCHANGED vars
  BY <1>4 DEF vars, SharedInv, FlightsAgree, InflightAgrees, SingleFlight,
     CacheOfPolicyInForce, Cached, Registered, CallsAgree, AnswersAreSound, KeyOf
<1>5. QED
  BY <1>1, <1>2, <1>3, <1>4

(* The inductive invariant holds: flights, cache, inflight map and calls   *)
(* agree with each other and with the policy each of them works under.     *)
THEOREM Invariance == Spec => []VerifierInv
<1>1. Init => VerifierInv
  <2> SUFFICES ASSUME Init PROVE VerifierInv
    OBVIOUS
  <2>1. TypeOK
    BY DEF Init, TypeOK, Policy, Key, NewCache
  <2>2. QED
    BY <2>1 DEF Init, VerifierInv, FlightsAgree, InflightAgrees, CallsAgree, SingleFlight,
       CacheOfPolicyInForce, AnswersAreSound, Cached, Registered, FreeFlight, IdleCall, NewCache
<1>2. VerifierInv /\ TypeOK' /\ [Next]_vars => VerifierInv'
  <2> SUFFICES ASSUME VerifierInv, TypeOK', [Next]_vars
               PROVE  SharedInv' /\ CallsAgree' /\ AnswersAreSound'
    BY DEF VerifierInv, SharedInv
  <2>1. CASE \E c \in Caller :
               \/ \E i \in Image : Call(c, i)
               \/ Lookup(c) \/ StartHit(c) \/ StartJoin(c) \/ StartTooMany(c)
               \/ Receive(c) \/ GiveUp(c) \/ Return(c)
    BY <2>1, CallStepsKeepInv
  <2>2. CASE \E c \in Caller, f \in Flight : StartFlight(c, f)
    BY <2>2, StartFlightKeepsInv
  <2>3. CASE \E f \in Flight : FlightStep(f)
    BY <2>3, FlightStepsKeepInv
  <2>4. CASE \/ \E r \in Revision : SetPolicy(r)
             \/ \E k \in Key : Expire(k)
             \/ \E i \in Image : Publish(i)
             \/ UNCHANGED vars
    BY <2>4, OtherStepsKeepInv
  <2>5. QED
    BY <2>1, <2>2, <2>3, <2>4 DEF Next, VerifierNext, CallStep, Start
<1>3. QED
  BY <1>1, <1>2, TypeCorrect, PTL DEF Spec

(* No two goroutines ever verify the same image under the same revision. *)
THEOREM NeverTwoFlights == Spec => []SingleFlight
<1>1. VerifierInv => SingleFlight
  BY DEF VerifierInv
<1>2. QED
  BY <1>1, Invariance, PTL

(* No verdict of a replaced policy is ever in the cache. *)
THEOREM CacheFollowsPolicy == Spec => []CacheOfPolicyInForce
<1>1. VerifierInv => CacheOfPolicyInForce
  BY DEF VerifierInv
<1>2. QED
  BY <1>1, Invariance, PTL

(* Every answer is a verdict of the policy its call loaded. *)
THEOREM OnlySoundAnswers == Spec => []AnswersAreSound
<1>1. VerifierInv => AnswersAreSound
  BY DEF VerifierInv
<1>2. QED
  BY <1>1, Invariance, PTL

-----------------------------------------------------------------------------
(* The limits. *)

LEMMA KeysFinite == IsFiniteSet(Key) /\ \A S \in SUBSET Key : IsFiniteSet(S)
BY FS_Product, FS_Subset DEF Key

LEMMA OneMore ==
    ASSUME NEW S, IsFiniteSet(S), NEW x
    PROVE  /\ IsFiniteSet(S \cup {x})
           /\ Cardinality(S \cup {x}) <= Cardinality(S) + 1
<1>1. /\ IsFiniteSet(S \cup {x})
      /\ Cardinality(S \cup {x}) = IF x \in S THEN Cardinality(S) ELSE Cardinality(S) + 1
  BY FS_AddElement, Zenon
<1>2. Cardinality(S) \in Nat
  BY FS_CardinalityType
<1>3. QED
  BY <1>1, <1>2

(* Which keys are in flight only changes when a flight starts or ends. *)
LEMMA InFlightChanges ==
    ASSUME VerifierInv, [Next]_vars
    PROVE  \/ InFlight' \subseteq InFlight
           \/ \E k \in Key : /\ InFlight' \subseteq InFlight \cup {k}
                            /\ Cardinality(InFlight) < MaxInflight
                            /\ inflight[k] = None /\ ~Live(k)
<1> USE DEF VerifierInv
<1>1. ASSUME NEW c \in Caller, NEW f \in Flight, StartFlight(c, f)
      PROVE  /\ InFlight' \subseteq InFlight \cup {KeyOf(c)}
             /\ Cardinality(InFlight) < MaxInflight
             /\ KeyOf(c) \in Key
             /\ inflight[KeyOf(c)] = None /\ ~Live(KeyOf(c))
  BY <1>1, BusyCalls DEF StartFlight, StartsOn, InFlight, TypeOK
<1>2. ASSUME NEW f \in Flight, Delete(f) PROVE InFlight' \subseteq InFlight
  BY <1>2 DEF Delete, InFlight, TypeOK
<1>3. CASE UNCHANGED inflight
  BY <1>3 DEF InFlight
<1>4. QED
  BY <1>1, <1>2, <1>3 DEF Next, VerifierNext, CallStep, Start, FlightStep, vars, SetPolicy,
     Call, Lookup, StartHit, StartJoin, StartTooMany, Receive, GiveUp, Return, Acquire,
     CapacityExhausted, Verify, VerifyFails, Store, StoreEntry, Close, Expire, Publish

(* A key that is in flight has a flight of its own, so there are no more   *)
(* flights than keys in flight.                                            *)
LEMMA FlightsNotMoreThanKeys ==
    ASSUME VerifierInv
    PROVE  Cardinality({f \in Flight : Registered(f)}) <= Cardinality(InFlight)
<1> DEFINE R == {f \in Flight : Registered(f)}
           h == [f \in R |-> flight[f].key]
<1>1. \A f \in R : flight[f].key \in Key /\ inflight[flight[f].key] = f
  BY RunningFlights DEF VerifierInv, SingleFlight, Registered, RunningFlight, FlyingFlight,
     LandedFlight
<1>2. \A f \in R : flight[f].key \in InFlight
  BY <1>1 DEF InFlight
<1>3. h \in Injection(R, InFlight)
  BY <1>1, <1>2 DEF Injection, IsInjective
<1>4. IsFiniteSet(InFlight)
  BY KeysFinite DEF InFlight
<1> HIDE DEF R, h
<1>5. Cardinality(R) <= Cardinality(InFlight)
  BY <1>3, <1>4, FS_Injection
<1>6. QED
  BY <1>5 DEF R

(* maxInflight is respected whatever starts and ends concurrently. *)
THEOREM NeverTooManyFlights == Spec => []InflightBounded
<1> DEFINE KeysBounded == Cardinality(InFlight) <= MaxInflight
<1>1. Init => KeysBounded
  <2> SUFFICES ASSUME Init PROVE KeysBounded
    OBVIOUS
  <2>1. InFlight = {}
    BY DEF Init, InFlight
  <2>2. Cardinality({}) = 0
    BY FS_EmptySet
  <2>3. QED
    BY <2>1, <2>2
<1>2. VerifierInv /\ KeysBounded /\ [Next]_vars => KeysBounded'
  <2> SUFFICES ASSUME VerifierInv, KeysBounded, [Next]_vars PROVE KeysBounded'
    OBVIOUS
  <2>0. IsFiniteSet(InFlight) /\ IsFiniteSet(InFlight') /\ Cardinality(InFlight) \in Nat
    BY KeysFinite, FS_CardinalityType DEF InFlight
  <2>1. CASE InFlight' \subseteq InFlight
    <3>1. Cardinality(InFlight') <= Cardinality(InFlight) /\ Cardinality(InFlight') \in Nat
      BY <2>0, <2>1, FS_Subset, FS_CardinalityType
    <3>2. QED
      BY <2>0, <3>1
  <2>2. ASSUME NEW k \in Key, InFlight' \subseteq InFlight \cup {k},
               Cardinality(InFlight) < MaxInflight
        PROVE  KeysBounded'
    <3>1. IsFiniteSet(InFlight \cup {k}) /\ Cardinality(InFlight \cup {k}) <= Cardinality(InFlight) + 1
      BY <2>0, OneMore
    <3>2. /\ Cardinality(InFlight') <= Cardinality(InFlight \cup {k})
          /\ Cardinality(InFlight') \in Nat /\ Cardinality(InFlight \cup {k}) \in Nat
      BY <2>0, <2>2, <3>1, FS_Subset, FS_CardinalityType
    <3>3. QED
      BY <2>0, <2>2, <3>1, <3>2
  <2>3. QED
    BY <2>1, <2>2, InFlightChanges
<1>3. VerifierInv /\ KeysBounded => InflightBounded
  <2> SUFFICES ASSUME VerifierInv, KeysBounded PROVE InflightBounded
    OBVIOUS
  <2>1. IsFiniteSet({f \in Flight : Registered(f)}) /\ IsFiniteSet(InFlight)
    BY KeysFinite, FS_Subset DEF InFlight
  <2>2. /\ Cardinality({f \in Flight : Registered(f)}) \in Nat
        /\ Cardinality(InFlight) \in Nat
    BY <2>1, FS_CardinalityType
  <2>3. QED
    BY <2>2, FlightsNotMoreThanKeys DEF InflightBounded
<1>4. QED
  BY <1>1, <1>2, <1>3, Invariance, PTL DEF Spec

(* A verification is never started over a verdict that is still live. *)
THEOREM NeverMissed == Spec => FinishedFlightNeverMissed
<1> DEFINE Started == \A k \in Key : inflight[k] = None /\ inflight'[k] # None => ~Live(k)
<1>1. VerifierInv /\ [Next]_vars => [Started]_vars
  <2> SUFFICES ASSUME VerifierInv, [Next]_vars, NEW k \in Key,
                      inflight[k] = None, inflight'[k] # None
               PROVE  ~Live(k)
    OBVIOUS
  <2> USE DEF VerifierInv
  <2>1. ASSUME NEW c \in Caller, NEW f \in Flight, StartFlight(c, f) PROVE ~Live(k)
    BY <2>1, BusyCalls DEF StartFlight, StartsOn, TypeOK
  <2>2. ASSUME NEW f \in Flight, Delete(f) PROVE ~Live(k)
    BY <2>2 DEF Delete, TypeOK
  <2>3. CASE UNCHANGED inflight
    BY <2>3
  <2>4. QED
    BY <2>1, <2>2, <2>3 DEF Next, VerifierNext, CallStep, Start, FlightStep, vars, SetPolicy,
       Call, Lookup, StartHit, StartJoin, StartTooMany, Receive, GiveUp, Return, Acquire,
       CapacityExhausted, Verify, VerifyFails, Store, StoreEntry, Close, Expire, Publish
<1>2. QED
  BY <1>1, Invariance, PTL DEF Spec, FinishedFlightNeverMissed

(* The cache never holds more than maxCacheEntries verdicts. *)
THEOREM CacheNeverOutgrows == Spec => []CacheBounded
<1>1. Init => CacheBounded
  <2> SUFFICES ASSUME Init PROVE CacheBounded
    OBVIOUS
  <2>1. Cached = {}
    BY DEF Init, Cached, NewCache
  <2>2. QED
    BY <2>1, FS_EmptySet DEF CacheBounded
<1>2. TypeOK /\ CacheBounded /\ [Next]_vars => CacheBounded'
  <2> SUFFICES ASSUME TypeOK, CacheBounded, [Next]_vars PROVE CacheBounded'
    OBVIOUS
  <2>0. IsFiniteSet(Cached) /\ IsFiniteSet(Cached') /\ Cardinality(Cached) \in Nat
    BY KeysFinite, FS_CardinalityType DEF Cached
  <2>1. CASE Cached' \subseteq Cached
    <3>1. Cardinality(Cached') <= Cardinality(Cached) /\ Cardinality(Cached') \in Nat
      BY <2>0, <2>1, FS_Subset, FS_CardinalityType
    <3>2. QED
      BY <2>0, <3>1 DEF CacheBounded
  <2>2. ASSUME NEW f \in Flight, Store(f), cache' # cache PROVE CacheBounded'
    <3> DEFINE k == flight[f].key
               live == {j \in Key : Live(j)}
    <3>1. Cached' \subseteq Kept \cup {k}
      BY <2>2 DEF Store, StoreEntry, Cached
    <3>2. Kept \subseteq Key
      BY DEF Kept, Cached
    <3>3. Cardinality(Kept) < MaxCacheEntries
      BY FS_EmptySet DEF Kept
    <3>4. IsFiniteSet(Kept) /\ Cardinality(Kept) \in Nat
      BY <3>2, KeysFinite, FS_CardinalityType
    <3>5. IsFiniteSet(Kept \cup {k}) /\ Cardinality(Kept \cup {k}) <= Cardinality(Kept) + 1
      BY <3>4, OneMore
    <3>6. /\ Cardinality(Cached') <= Cardinality(Kept \cup {k})
          /\ Cardinality(Cached') \in Nat /\ Cardinality(Kept \cup {k}) \in Nat
      BY <2>0, <3>1, <3>5, FS_Subset, FS_CardinalityType
    <3>7. QED
      BY <3>3, <3>4, <3>5, <3>6 DEF CacheBounded
  <2>3. ASSUME NEW r \in Revision, SetPolicy(r) PROVE Cached' \subseteq Cached
    BY <2>3 DEF SetPolicy, NewCache, Cached
  <2>4. ASSUME NEW k \in Key, Expire(k) PROVE Cached' \subseteq Cached
    <3>1. \A j \in Key \ {k} : cache'[j] = cache[j]
      BY <2>4 DEF Expire, TypeOK
    <3>2. k \in Cached
      BY <2>4 DEF Expire, Live, Cached
    <3>3. QED
      BY <3>1, <3>2 DEF Cached
  <2>5. ASSUME UNCHANGED cache PROVE Cached' \subseteq Cached
    BY <2>5 DEF Cached
  <2>6. QED
    BY <2>1, <2>2, <2>3, <2>4, <2>5 DEF Next, VerifierNext, CallStep, Start, FlightStep, vars,
       Call, Lookup, StartHit, StartJoin, StartTooMany, StartFlight, StartsOn, Receive, GiveUp, Return,
       Acquire, CapacityExhausted, Verify, VerifyFails, Delete, Close, Publish
<1>3. QED
  BY <1>1, <1>2, TypeCorrect, PTL DEF Spec

(* Both limits hold together. *)
THEOREM LimitsKept == Spec => []LimitsHold
  BY NeverTooManyFlights, CacheNeverOutgrows, PTL DEF LimitsHold

-----------------------------------------------------------------------------
(* The verifier implements the oracle. *)

(* The oracle speaks of the same verdicts. *)
LEMMA SameVerdicts ==
    /\ Oracle!Answer = Answer
    /\ \A a, rev, i, p : Oracle!Sound(a, rev, i, p) <=> Sound(a, rev, i, p)
BY DEF Oracle!Answer, Oracle!Verdict, Answer, Verdict, Oracle!Sound, Sound

(* A call whose state, image, policy and answer keep their meaning does    *)
(* not move the oracle.                                                    *)
LEMMA SilentStep ==
    ASSUME UNCHANGED <<policy, published>>,
           \A c \in Caller : Requested(c)' = Requested(c)
    PROVE  UNCHANGED Oracle!oracleVars
BY DEF Oracle!oracleVars

(* A call that returns its answer is the oracle's Reply. *)
LEMMA AnswerIsReply ==
    ASSUME VerifierInv, NEW c \in Caller, call[c].pc \notin {"idle", "answered"},
           NEW v \in Answer, Sound(v, call[c].policy.rev, call[c].image, published),
           Answered(c, v), UNCHANGED <<policy, published>>
    PROVE  Oracle!Reply(c)
<1>1. call[c] \in BusyCall
  BY BusyCalls DEF VerifierInv
<1>2. /\ call'[c].pc = "answered" /\ call'[c].answer = v
      /\ call'[c].image = call[c].image /\ call'[c].policy = call[c].policy
      /\ \A d \in Caller \ {c} : call'[d] = call[d]
  BY <1>1 DEF Answered, VerifierInv, TypeOK, BusyCall
<1>3. /\ Requested(c) = [st |-> "pending", image |-> call[c].image,
                         rev |-> call[c].policy.rev, answer |-> None]
      /\ Requested(c)' = [st |-> "answered", image |-> call[c].image,
                          rev |-> call[c].policy.rev, answer |-> v]
      /\ \A d \in Caller \ {c} : Requested(d)' = Requested(d)
  BY <1>2 DEF Requested
<1> DEFINE R == [d \in Caller |-> Requested(d)]
<1>4. /\ R[c] = Requested(c) /\ R[c].st = "pending"
      /\ R[c].rev = call[c].policy.rev /\ R[c].image = call[c].image
  BY <1>3
<1>5. R' = [R EXCEPT ![c] = [st |-> "answered", image |-> R[c].image,
                             rev |-> R[c].rev, answer |-> v]]
  <2>1. Requested(c)' = [st |-> "answered", image |-> R[c].image, rev |-> R[c].rev, answer |-> v]
    BY <1>3, <1>4
  <2>2. R' = [R EXCEPT ![c] = Requested(c)']
    BY <1>3
  <2>3. QED
    BY <2>1, <2>2
<1> HIDE DEF R
<1>6. QED
  BY <1>4, <1>5, SameVerdicts DEF Oracle!Reply, R

(* Every step of the verifier is a step of the oracle or none. *)
LEMMA StepRefines ==
    ASSUME VerifierInv, VerifierInv', [Next]_vars
    PROVE  [Oracle!OracleNext]_Oracle!oracleVars
<1> USE DEF VerifierInv
<1>1. ASSUME NEW c \in Caller, NEW i \in Image, Call(c, i) PROVE Oracle!Ask(c, i)
  <2> DEFINE R == [d \in Caller |-> Requested(d)]
             a == call'[c].answer
  <2>1. /\ call'[c].image = i /\ call'[c].policy = policy
        /\ call'[c].pc \in {"lookup", "answered"}
        /\ call'[c].pc = "answered" => a \in Answer
        /\ call'[c].pc = "lookup" => a = None
        /\ call[c].pc = "idle"
        /\ \A d \in Caller \ {c} : call'[d] = call[d]
        /\ UNCHANGED <<policy, published>>
    BY <1>1 DEF Call, TypeOK, Answer, IdleCall
  <2>2. Requested(c) = [st |-> "idle", image |-> None, rev |-> None, answer |-> None]
    BY <2>1 DEF Requested
  <2>3. \A d \in Caller \ {c} : Requested(d)' = Requested(d)
    BY <2>1 DEF Requested
  <2>4. CASE call'[c].pc = "lookup"
    <3>1. Requested(c)' = [st |-> "pending", image |-> i, rev |-> policy.rev, answer |-> None]
      BY <2>1, <2>4 DEF Requested
    <3>2. R' = [R EXCEPT ![c] =
                  [st |-> "pending", image |-> i, rev |-> policy.rev, answer |-> None]]
      BY <2>3, <3>1
    <3>3. QED
      BY <2>1, <2>2, <3>2 DEF Oracle!Ask
  <2>5. CASE call'[c].pc = "answered"
    <3>1. Requested(c)' = [st |-> "answered", image |-> i, rev |-> policy.rev, answer |-> a]
      BY <2>1, <2>5 DEF Requested
    <3>2. R' = [R EXCEPT ![c] =
                  [st |-> "answered", image |-> i, rev |-> policy.rev, answer |-> a]]
      BY <2>3, <3>1
    <3>3. a \in Oracle!Answer /\ Oracle!Sound(a, policy.rev, i, published)
      <4>1. a \in Answer /\ a # None
        BY <2>1, <2>5
      <4>2. Sound(a, policy.rev, i, published)
        BY <2>1, <4>1 DEF AnswersAreSound
      <4>3. QED
        BY <4>1, <4>2, SameVerdicts
    <3>4. R[c].st = "idle"
      BY <2>2
    <3> HIDE DEF R, a
    <3>5. QED
      BY <2>1, <3>2, <3>3, <3>4 DEF Oracle!Ask, R
  <2>6. QED
    BY <2>1, <2>4, <2>5
<1>2. ASSUME NEW c \in Caller, Lookup(c) \/ StartHit(c) \/ StartTooMany(c) \/ Receive(c) \/ GiveUp(c),
             call'[c].pc = "answered"
      PROVE  Oracle!Reply(c)
  <2>1. call[c] \in BusyCall /\ call[c].pc \notin {"idle", "answered"}
    BY <1>2, BusyCalls DEF Lookup, StartHit, StartTooMany, Receive, GiveUp
  <2>2. PICK v : Answered(c, v)
    BY <1>2, <2>1 DEF Lookup, StartHit, StartTooMany, Receive, GiveUp, TypeOK, BusyCall
  <2>3. /\ call'[c].answer = v
        /\ call'[c].image = call[c].image /\ call'[c].policy = call[c].policy
    BY <2>1, <2>2 DEF Answered, TypeOK, BusyCall
  <2>4. UNCHANGED <<policy, published>>
    BY <1>2 DEF Lookup, StartHit, StartTooMany, Receive, GiveUp
  <2>5. v \in Answer
    <3>1. SharedInv
      BY DEF SharedInv
    <3>2. CASE Lookup(c) \/ StartHit(c)
      <4>1. Live(KeyOf(c)) /\ Answered(c, cache[KeyOf(c)].verdict)
        BY <1>2, <2>1, <3>2 DEF Lookup, StartHit, TypeOK, BusyCall
      <4>2. QED
        BY <2>1, <2>3, <3>1, <4>1, HitsAreSound DEF Answered, Answer, TypeOK, BusyCall
    <3>3. CASE StartTooMany(c) \/ GiveUp(c)
      BY <2>1, <2>3, <3>3 DEF StartTooMany, GiveUp, Answered, Answer, TypeOK, BusyCall
    <3>4. CASE Receive(c)
      BY <2>1, <2>3, <3>4 DEF Receive, Answered, TypeOK, BusyCall
    <3>5. QED
      BY <1>2, <3>2, <3>3, <3>4
  <2>6. Sound(v, call[c].policy.rev, call[c].image, published)
    BY <2>3, <2>4, <2>5 DEF AnswersAreSound
  <2>7. QED
    BY <2>1, <2>2, <2>4, <2>5, <2>6, AnswerIsReply
<1>3. ASSUME NEW c \in Caller, Return(c) PROVE Oracle!Forget(c)
  <2>1. /\ call[c].pc = "answered" /\ call'[c] = IdleCall
        /\ \A d \in Caller \ {c} : call'[d] = call[d]
        /\ UNCHANGED <<policy, published>>
    BY <1>3 DEF Return, TypeOK
  <2>2. /\ Requested(c).st = "answered"
        /\ Requested(c)' = [st |-> "idle", image |-> None, rev |-> None, answer |-> None]
        /\ \A d \in Caller \ {c} : Requested(d)' = Requested(d)
    BY <2>1 DEF Requested, IdleCall
  <2>3. QED
    BY <2>1, <2>2 DEF Oracle!Forget, Oracle!NoRequest
<1>4. ASSUME NEW c \in Caller, \/ Lookup(c) /\ call'[c].pc # "answered"
                               \/ StartJoin(c)
                               \/ \E f \in Flight : StartFlight(c, f)
      PROVE  UNCHANGED Oracle!oracleVars
  <2>1. call[c] \in BusyCall /\ call[c].pc \notin {"idle", "answered"}
    BY <1>4, BusyCalls DEF Lookup, StartJoin, StartFlight, StartsOn
  <2>2. /\ call'[c].pc \notin {"idle", "answered"}
        /\ call'[c].image = call[c].image /\ call'[c].policy = call[c].policy
        /\ \A d \in Caller \ {c} : call'[d] = call[d]
        /\ UNCHANGED <<policy, published>>
    BY <1>4, <2>1 DEF Lookup, StartJoin, StartFlight, StartsOn, Answered, TypeOK, BusyCall
  <2>3. QED
    BY <2>1, <2>2, SilentStep DEF Requested
<1>5. ASSUME NEW f \in Flight, FlightStep(f) PROVE UNCHANGED Oracle!oracleVars
  <2>1. UNCHANGED <<policy, published>>
    BY <1>5 DEF FlightStep, Acquire, CapacityExhausted, Verify, VerifyFails, Store, StoreEntry, Delete, Close
  <2>2. ASSUME NEW c \in Caller PROVE Requested(c)' = Requested(c)
    <3>1. CASE Close(f)
      <4>1. call[c] \in BusyCall \cup {IdleCall}
        BY DEF TypeOK
      <4>2. \/ call'[c] = call[c]
            \/ /\ call[c].pc = "waiting" /\ call'[c].pc = "waiting"
               /\ call'[c].image = call[c].image /\ call'[c].policy = call[c].policy
        BY <3>1, <4>1 DEF Close, CallsAgree, TypeOK, BusyCall, IdleCall
      <4>3. QED
        BY <4>2 DEF Requested
    <3>2. CASE call' = call
      BY <3>2 DEF Requested
    <3>3. QED
      BY <1>5, <3>1, <3>2 DEF FlightStep, Acquire, CapacityExhausted, Verify, VerifyFails,
         Store, StoreEntry, Delete
  <2>3. QED
    BY <2>1, <2>2, SilentStep
<1>6. ASSUME NEW r \in Revision, SetPolicy(r) PROVE Oracle!ChangePolicy
  BY <1>6 DEF SetPolicy, Requested, Oracle!ChangePolicy
<1>7. ASSUME NEW i \in Image, Publish(i) PROVE Oracle!EvidenceAppears
  BY <1>7 DEF Publish, Requested, Oracle!EvidenceAppears
<1>8. ASSUME \/ \E k \in Key : Expire(k)
             \/ UNCHANGED vars
      PROVE  UNCHANGED Oracle!oracleVars
  BY <1>8, SilentStep DEF Expire, Requested, vars
<1>9. ASSUME NEW c \in Caller, StartHit(c) \/ StartTooMany(c) \/ Receive(c) \/ GiveUp(c)
      PROVE  call'[c].pc = "answered"
  BY <1>9, BusyCalls DEF StartHit, StartTooMany, Receive, GiveUp, Answered, TypeOK, BusyCall
<1>10. ASSUME NEW c \in Caller, CallStep(c) \/ GiveUp(c)
       PROVE  Oracle!Reply(c) \/ UNCHANGED Oracle!oracleVars
  BY <1>2, <1>4, <1>9, <1>10 DEF CallStep, Start
<1>11. QED
  BY <1>1, <1>3, <1>5, <1>6, <1>7, <1>8, <1>10
  DEF Next, VerifierNext, Oracle!OracleNext

(* The verifier implements the oracle: caching, sharing and replacing the  *)
(* policy are invisible to a caller, who is answered by the policy it      *)
(* found or not admitted.                                                  *)
THEOREM Refinement == Spec => ImplementsOracle
<1>1. Init => Oracle!OracleInit
  BY DEF Init, Oracle!OracleInit, Oracle!NoRequest, Requested, IdleCall
<1>2. VerifierInv /\ VerifierInv' /\ [Next]_vars => [Oracle!OracleNext]_Oracle!oracleVars
  BY StepRefines
<1>3. QED
  BY <1>1, <1>2, Invariance, PTL DEF Spec, ImplementsOracle, Oracle!OracleSpec
=============================================================================
