-------------------------- MODULE AdmissionVerifier --------------------------
(***************************************************************************)
(* The Verifier of internal/cosignverify: concurrent VerifyImage calls     *)
(* over a cache of verdicts, one shared verification ("flight") per image  *)
(* and policy revision that runs detached from the calls that wait on it,  *)
(* a semaphore on the registry, and SetPolicy at any moment.               *)
(*                                                                         *)
(* One action per atomic section: what the code does under v.mu, one       *)
(* channel operation, one load of the policy pointer.                      *)
(***************************************************************************)
EXTENDS AdmissionVerdicts

CONSTANTS
    Caller,          \* concurrent calls of VerifyImage
    Flight,          \* the flight objects, each with its goroutine
    Concurrency,     \* capacity of v.sem
    MaxInflight,     \* maxInflight
    MaxCacheEntries, \* maxCacheEntries
    MaxPolicies,     \* bound: policies ever set, the first included
    MaxFaults,       \* bound: infrastructure failures
    MaxExpiries      \* bound: entries that outlive their TTL

ASSUME VerifierAssumption ==
    /\ Concurrency \in Nat \ {0}
    /\ MaxInflight \in Nat
    /\ MaxCacheEntries \in Nat \ {0}
    /\ MaxPolicies \in Nat
    /\ MaxFaults \in Nat
    /\ MaxExpiries \in Nat
    /\ None \notin Flight
    /\ IsFiniteSet(Image) /\ IsFiniteSet(Revision) /\ IsFiniteSet(Flight)

VARIABLES
    policy,          \* v.policy: the content and, as gen, the pointer itself
    cache,           \* v.cache
    inflight,        \* v.inflight
    flight,          \* each flight and where its goroutine stands
    call,            \* each call of VerifyImage and where it stands
    published,       \* the registry: images whose evidence has been pushed
    faults,          \* infrastructure failures so far
    expiries         \* entries expired so far

vars == <<policy, cache, inflight, flight, call, published, faults, expiries>>

Key == Image \X Revision
Policy == [gen : Nat, rev : Revision]
Entry == [verdict : Verdict, gen : Nat, live : BOOLEAN]

(* A flight's goroutine: waiting for the semaphore, talking to the         *)
(* registry, holding its result, after store, after delete (before close). *)
FreeFlight == [st |-> "free", key |-> None, policy |-> None, result |-> None]
FlyingFlight == [st : {"queued", "verifying"}, key : Key, policy : Policy,
                 result : {None}]
LandedFlight == [st : {"landed", "stored", "closing"}, key : Key, policy : Policy,
                 result : Verdict \cup {"provider-down"}]
RunningFlight == FlyingFlight \cup LandedFlight

IdleCall == [pc |-> "idle", image |-> None, policy |-> None,
             flight |-> None, answer |-> None]
BusyCall == [pc : {"lookup", "start", "waiting", "answered"}, image : Image,
             policy : Policy, flight : Flight \cup {None},
             answer : Answer \cup {None}]

TypeOK ==
    /\ policy \in Policy
    /\ cache \in [Key -> Entry \cup {None}]
    /\ inflight \in [Key -> Flight \cup {None}]
    /\ flight \in [Flight -> RunningFlight \cup {FreeFlight}]
    /\ call \in [Caller -> BusyCall \cup {IdleCall}]
    /\ published \subseteq Image
    /\ faults \in 0..MaxFaults
    /\ expiries \in 0..MaxExpiries

-----------------------------------------------------------------------------
(* Helpers of the code. *)

(* Defect variant: the policy is read again for the key. *)
KeyOfReread(c) == <<call[c].image, policy.rev>>

(* ref.String() + " " + policy.Revision *)
KeyOf(c) == <<call[c].image, call[c].policy.rev>>

Live(k) == cache[k] # None /\ cache[k].live

Cached == {k \in Key : cache[k] # None}
InFlight == {k \in Key : inflight[k] # None}
Verifying == {f \in Flight : flight[f].st = "verifying"}

NewCache == [k \in Key |-> None]

(* Defect variant: one entry over the limit. *)
KeptOverLimit ==
    LET live == {k \in Key : Live(k)}
    IN  IF Cardinality(Cached) <= MaxCacheEntries THEN Cached
        ELSE IF Cardinality(live) < MaxCacheEntries THEN live
        ELSE {}

(* The entries store keeps: all of them below the limit; at the limit the  *)
(* live ones, or none when sweeping the expired frees nothing.             *)
Kept ==
    LET live == {k \in Key : Live(k)}
    IN  IF Cardinality(Cached) < MaxCacheEntries THEN Cached
        ELSE IF Cardinality(live) < MaxCacheEntries THEN live
        ELSE {}

Answered(c, a) ==
    call' = [call EXCEPT ![c].pc = "answered", ![c].answer = a, ![c].flight = None]

-----------------------------------------------------------------------------
Init ==
    /\ \E r \in Revision : policy = [gen |-> 1, rev |-> r]
    /\ cache = NewCache
    /\ inflight = [k \in Key |-> None]
    /\ flight = [f \in Flight |-> FreeFlight]
    /\ call = [c \in Caller |-> IdleCall]
    /\ published = Image \ Late
    /\ faults = 0
    /\ expiries = 0

(* SetPolicy: one critical section replaces the pointer and the cache.     *)
SetPolicy(r) ==
    /\ policy.gen < MaxPolicies
    /\ policy' = [gen |-> policy.gen + 1, rev |-> r]
    /\ cache' = NewCache
    /\ UNCHANGED <<inflight, flight, call, published, faults, expiries>>

(* VerifyImage up to the lookup: the reference, then the repository under  *)
(* the policy loaded now; both answer without the cache.                   *)
Call(c, i) ==
    /\ call[c] = IdleCall
    /\ call' = [call EXCEPT ![c] =
          [pc |-> IF i \in WellFormed /\ i \in Allowed[policy.rev]
                  THEN "lookup" ELSE "answered",
           image |-> i, policy |-> policy, flight |-> None,
           answer |-> IF i \notin WellFormed THEN "not-digest"
                      ELSE IF i \notin Allowed[policy.rev] THEN "registry-denied"
                      ELSE None]]
    /\ UNCHANGED <<policy, cache, inflight, flight, published, faults, expiries>>

(* lookup: a hit is answered, a miss goes on to start. *)
Lookup(c) ==
    /\ call[c].pc = "lookup"
    /\ IF Live(KeyOf(c))
       THEN Answered(c, cache[KeyOf(c)].verdict)
       ELSE call' = [call EXCEPT ![c].pc = "start"]
    /\ UNCHANGED <<policy, cache, inflight, flight, published, faults, expiries>>

(* start, its four outcomes under one lock: a verdict that appeared since  *)
(* the lookup, a flight to join, too many flights, or a new flight.        *)
StartHit(c) ==
    /\ call[c].pc = "start"
    /\ Live(KeyOf(c))
    /\ Answered(c, cache[KeyOf(c)].verdict)
    /\ UNCHANGED <<policy, cache, inflight, flight, published, faults, expiries>>

StartJoin(c) ==
    /\ call[c].pc = "start"
    /\ ~Live(KeyOf(c))
    /\ inflight[KeyOf(c)] # None
    /\ call' = [call EXCEPT ![c].pc = "waiting", ![c].flight = inflight[KeyOf(c)]]
    /\ UNCHANGED <<policy, cache, inflight, flight, published, faults, expiries>>

StartTooMany(c) ==
    /\ call[c].pc = "start"
    /\ ~Live(KeyOf(c))
    /\ inflight[KeyOf(c)] = None
    /\ Cardinality(InFlight) >= MaxInflight
    /\ Answered(c, "provider-down")
    /\ UNCHANGED <<policy, cache, inflight, flight, published, faults, expiries>>

(* A new flight takes the key, and its caller waits on it. *)
StartsOn(c, f) ==
    /\ flight[f] = FreeFlight
    /\ flight' = [flight EXCEPT ![f] = [st |-> "queued", key |-> KeyOf(c),
                                        policy |-> call[c].policy, result |-> None]]
    /\ inflight' = [inflight EXCEPT ![KeyOf(c)] = f]
    /\ call' = [call EXCEPT ![c].pc = "waiting", ![c].flight = f]
    /\ UNCHANGED <<policy, cache, published, faults, expiries>>

(* Defect variant: start does not look at the cache again. *)
StartFlightNoRecheck(c, f) ==
    /\ call[c].pc = "start"
    /\ inflight[KeyOf(c)] = None
    /\ Cardinality(InFlight) < MaxInflight
    /\ StartsOn(c, f)

StartFlight(c, f) ==
    /\ call[c].pc = "start"
    /\ ~Live(KeyOf(c))
    /\ inflight[KeyOf(c)] = None
    /\ Cardinality(InFlight) < MaxInflight
    /\ StartsOn(c, f)

(* The wait of VerifyImage: the flight's result, or the request's deadline *)
(* (or its client going away); when both are ready either may be taken.    *)
Receive(c) ==
    /\ call[c].pc = "waiting"
    /\ call[c].answer # None
    /\ Answered(c, call[c].answer)
    /\ UNCHANGED <<policy, cache, inflight, flight, published, faults, expiries>>

GiveUp(c) ==
    /\ call[c].pc = "waiting"
    /\ Answered(c, "provider-down")
    /\ UNCHANGED <<policy, cache, inflight, flight, published, faults, expiries>>

(* VerifyImage has returned and its caller is gone. *)
Return(c) ==
    /\ call[c].pc = "answered"
    /\ call' = [call EXCEPT ![c] = IdleCall]
    /\ UNCHANGED <<policy, cache, inflight, flight, published, faults, expiries>>

-----------------------------------------------------------------------------
(* The goroutine of a flight. *)

Acquire(f) ==
    /\ flight[f].st = "queued"
    /\ Cardinality(Verifying) < Concurrency
    /\ flight' = [flight EXCEPT ![f].st = "verifying"]
    /\ UNCHANGED <<policy, cache, inflight, call, published, faults, expiries>>

(* VerifyTimeout ends the wait for the semaphore. *)
CapacityExhausted(f) ==
    /\ flight[f].st = "queued"
    /\ faults < MaxFaults
    /\ faults' = faults + 1
    /\ flight' = [flight EXCEPT ![f].st = "landed", ![f].result = "provider-down"]
    /\ UNCHANGED <<policy, cache, inflight, call, published, expiries>>

(* verify finds its verdict under the policy the flight was started with,  *)
(* and the semaphore is released.                                          *)
Verify(f) ==
    /\ flight[f].st = "verifying"
    /\ flight' = [flight EXCEPT
          ![f].st = "landed",
          ![f].result = Finding(flight[f].policy.rev, flight[f].key[1], published)]
    /\ UNCHANGED <<policy, cache, inflight, call, published, faults, expiries>>

(* The registry cannot be read, or VerifyTimeout ends the verification. *)
VerifyFails(f) ==
    /\ flight[f].st = "verifying"
    /\ faults < MaxFaults
    /\ faults' = faults + 1
    /\ flight' = [flight EXCEPT ![f].st = "landed", ![f].result = "provider-down"]
    /\ UNCHANGED <<policy, cache, inflight, call, published, expiries>>

(* What store leaves in the cache: the new verdict and the entries kept. *)
StoreEntry(f) ==
    [k \in Key |->
        IF k = flight[f].key
        THEN [verdict |-> flight[f].result, gen |-> flight[f].policy.gen, live |-> TRUE]
        ELSE IF k \in Kept THEN cache[k] ELSE None]

(* Defect variants: the pointer is not compared, or the verdict is only    *)
(* kept when some request still waits for it.                              *)
StoreAnyPolicy(f) ==
    /\ flight[f].st = "landed"
    /\ flight' = [flight EXCEPT ![f].st = "stored"]
    /\ cache' = IF flight[f].result = "provider-down" THEN cache ELSE StoreEntry(f)
    /\ UNCHANGED <<policy, inflight, call, published, faults, expiries>>

StoreIfAwaited(f) ==
    /\ flight[f].st = "landed"
    /\ flight' = [flight EXCEPT ![f].st = "stored"]
    /\ cache' = IF \/ flight[f].result = "provider-down"
                   \/ policy # flight[f].policy
                   \/ \A c \in Caller : call[c].flight # f
                THEN cache
                ELSE StoreEntry(f)
    /\ UNCHANGED <<policy, inflight, call, published, faults, expiries>>

(* store: a failure is not a verdict, and a verdict of a policy that has   *)
(* been replaced meanwhile is dropped.                                     *)
Store(f) ==
    /\ flight[f].st = "landed"
    /\ flight' = [flight EXCEPT ![f].st = "stored"]
    /\ cache' = IF \/ flight[f].result = "provider-down"
                   \/ policy # flight[f].policy
                THEN cache
                ELSE StoreEntry(f)
    /\ UNCHANGED <<policy, inflight, call, published, faults, expiries>>

(* Defect variant: the key is released before the verdict is stored. *)
DeleteBeforeStore(f) ==
    /\ flight[f].st = "landed"
    /\ inflight' = [inflight EXCEPT ![flight[f].key] = None]
    /\ UNCHANGED <<policy, cache, flight, call, published, faults, expiries>>

(* delete(v.inflight, key) *)
Delete(f) ==
    /\ flight[f].st = "stored"
    /\ flight' = [flight EXCEPT ![f].st = "closing"]
    /\ inflight' = [inflight EXCEPT ![flight[f].key] = None]
    /\ UNCHANGED <<policy, cache, call, published, faults, expiries>>

(* Defect variant: the goroutine ends without closing done. *)
CloseForgotten(f) ==
    /\ flight[f].st = "closing"
    /\ flight' = [flight EXCEPT ![f] = FreeFlight]
    /\ UNCHANGED <<policy, cache, inflight, call, published, faults, expiries>>

(* close(f.done): every call still waiting on f can read f.result. *)
Close(f) ==
    /\ flight[f].st = "closing"
    /\ flight' = [flight EXCEPT ![f] = FreeFlight]
    /\ call' = [c \in Caller |->
          IF call[c].flight = f
          THEN [call[c] EXCEPT !.answer = flight[f].result, !.flight = None]
          ELSE call[c]]
    /\ UNCHANGED <<policy, cache, inflight, published, faults, expiries>>

-----------------------------------------------------------------------------
(* The clock passes an entry's expiry, positive or negative TTL. *)
Expire(k) ==
    /\ Live(k)
    /\ expiries < MaxExpiries
    /\ expiries' = expiries + 1
    /\ cache' = [cache EXCEPT ![k].live = FALSE]
    /\ UNCHANGED <<policy, inflight, flight, call, published, faults>>

(* Someone pushes the missing signature or attestation to the registry. *)
Publish(i) ==
    /\ i \in Image \ published
    /\ published' = published \cup {i}
    /\ UNCHANGED <<policy, cache, inflight, flight, call, faults, expiries>>

Start(c) ==
    \/ StartHit(c) \/ StartJoin(c) \/ StartTooMany(c)
    \/ \E f \in Flight : StartFlight(c, f)

CallStep(c) == Lookup(c) \/ Start(c) \/ Receive(c)

FlightStep(f) ==
    \/ Acquire(f) \/ CapacityExhausted(f) \/ Verify(f) \/ VerifyFails(f)
    \/ Store(f) \/ Delete(f) \/ Close(f)

(* What the verifier does by itself. *)
VerifierNext ==
    \/ \E c \in Caller : CallStep(c)
    \/ \E f \in Flight : FlightStep(f)
    \/ \E k \in Key : Expire(k)
    \/ \E i \in Image : Publish(i)

Next ==
    \/ VerifierNext
    \/ \E c \in Caller : GiveUp(c) \/ Return(c) \/ \E i \in Image : Call(c, i)
    \/ \E r \in Revision : SetPolicy(r)

Spec == Init /\ [][Next]_vars

(* The scheduler runs every goroutine; v.sem is a Go channel, whose        *)
(* blocked senders are served in order, hence strong fairness for the      *)
(* flights.  Deadlines, callers and policy changes are owed nothing.       *)
Fairness ==
    /\ \A c \in Caller : WF_vars(CallStep(c))
    /\ \A f \in Flight : SF_vars(FlightStep(f))

FairSpec == Spec /\ Fairness

-----------------------------------------------------------------------------
(* PROPERTIES *)

(* A flight occupies its key from start until its goroutine deletes it. *)
Registered(f) == flight[f].st \in {"queued", "verifying", "landed", "stored"}

(* Requests for one image under one policy revision share one              *)
(* verification: no two goroutines verify the same key, and the inflight   *)
(* map names exactly the flights that have not been deleted.               *)
SingleFlight ==
    \A f, g \in Flight :
        Registered(f) =>
            /\ inflight[flight[f].key] = f
            /\ Registered(g) /\ flight[g].key = flight[f].key => f = g

(* maxInflight bounds the verifications that run at once. *)
InflightBounded == Cardinality({f \in Flight : Registered(f)}) <= MaxInflight

(* The cache never outgrows its limit, whichever entries have expired. *)
CacheBounded == Cardinality(Cached) <= MaxCacheEntries

(* Both limits, under whatever starts, lands and expires concurrently. *)
LimitsHold == InflightBounded /\ CacheBounded

(* "A new policy never sees a result computed under an old one": every     *)
(* entry was computed under the very policy object in force, whatever      *)
(* flights were running when it was replaced and even when an edit comes   *)
(* back to an earlier content; and the verdict is what that policy says.   *)
CacheOfPolicyInForce ==
    \A k \in Cached :
        /\ cache[k].gen = policy.gen
        /\ k[2] = policy.rev
        /\ Sound(cache[k].verdict, policy.rev, k[1], published)

(* What a call is answered is a verdict of the policy it loaded, however   *)
(* many other calls, revisions and flights share the cache; anything else  *)
(* fails closed.                                                           *)
AnswersAreSound ==
    \A c \in Caller :
        call[c].answer # None =>
            Sound(call[c].answer, call[c].policy.rev, call[c].image, published)

(* What makes the three hold at every step.  A flight works under the      *)
(* policy its key names, on an image that policy allows, and its result is *)
(* right; inflight never names a flight that is gone; a call that waits    *)
(* waits on a flight of its own key, or holds its result already.          *)
FlightsAgree ==
    \A f \in Flight : flight[f].st # "free" =>
        /\ flight[f].key[2] = flight[f].policy.rev
        /\ flight[f].key[1] \in WellFormed \cap Allowed[flight[f].policy.rev]
        /\ flight[f].result # None =>
              Sound(flight[f].result, flight[f].policy.rev, flight[f].key[1], published)

InflightAgrees ==
    \A k \in Key : inflight[k] # None =>
        Registered(inflight[k]) /\ flight[inflight[k]].key = k

CallsAgree ==
    \A c \in Caller :
        /\ call[c].pc \in {"lookup", "start", "waiting"} =>
              call[c].image \in WellFormed \cap Allowed[call[c].policy.rev]
        /\ call[c].flight # None =>
              /\ call[c].pc = "waiting"
              /\ flight[call[c].flight].st # "free"
              /\ flight[call[c].flight].key = KeyOf(c)

VerifierInv ==
    /\ TypeOK
    /\ Image \ Late \subseteq published
    /\ FlightsAgree
    /\ InflightAgrees
    /\ CallsAgree
    /\ SingleFlight
    /\ CacheOfPolicyInForce
    /\ AnswersAreSound

(* "Cache and flights are read under one lock, so a finished flight is     *)
(* never missed": a verification is only started for a key that has no     *)
(* live verdict, although the lookup that missed it released the lock.     *)
FinishedFlightNeverMissed ==
    [][\A k \in Key : inflight[k] = None /\ inflight'[k] # None => ~Live(k)]_vars

Asking(c, i) == call[c].pc = "lookup" /\ call[c].image = i

Decided(c, i) == call[c].image = i /\ call[c].answer \in Answer \ {"provider-down", None}

(* "A cold verification slower than the admission deadline cannot deny an  *)
(* image forever": an image asked about again and again gets a real        *)
(* verdict, even if every single request gives up before its flight lands. *)
ColdVerificationDecides ==
    \A i \in Image :
        []<>(\E c \in Caller : Asking(c, i)) => []<>(\E c \in Caller : Decided(c, i))
=============================================================================
