------------------------- MODULE LogoutReplayProofs -------------------------
(* What the session boundary's memory of logout tokens guarantees, for     *)
(* every set of tokens, resolution of the clock, window, skew and limit.   *)
EXTENDS LogoutReplay, FiniteSetTheorems, TLAPS

(* Instants are ordered, and a number of seconds later is later.           *)
LEMMA Later ==
    ASSUME NEW a \in Instant, NEW b \in Instant, NEW c \in Instant
    PROVE  /\ Plus(a, Window) \in Instant
           /\ Plus(a, Window).sec = a.sec + Window
           /\ Plus(a, Window).ms = a.ms
           /\ AtOrBefore(a, a)
           /\ AtOrBefore(a, b) /\ AtOrBefore(b, c) => AtOrBefore(a, c)
           /\ AtOrBefore(a, b) => AtOrBefore(Plus(a, Window), Plus(b, Window))
<1>1. a.sec \in Nat /\ b.sec \in Nat /\ c.sec \in Nat /\ a.ms \in Int /\ b.ms \in Int /\ c.ms \in Int
  BY LogoutAssumption DEF Instant
<1>2. Window \in Nat
  BY LogoutAssumption
<1>3. Plus(a, Window) = [sec |-> a.sec + Window, ms |-> a.ms]
  BY DEF Plus, Instant
<1>4. Plus(b, Window) = [sec |-> b.sec + Window, ms |-> b.ms]
  BY DEF Plus, Instant
<1>5. a.ms \in 0..(Millis - 1)
  BY DEF Instant
<1>6. Plus(a, Window) \in Instant
  BY <1>1, <1>2, <1>3, <1>5 DEF Instant
<1>7. QED
  BY <1>1, <1>2, <1>3, <1>4, <1>6 DEF AtOrBefore

(* An instant is never mistaken for the absence of one.                    *)
LEMMA NeverIsNoInstant == Never \notin Instant
BY LogoutAssumption DEF Instant

(* The clean-up forgets a token only when its time has come.               *)
LEMMA CleaningKeeps ==
    ASSUME TypeOK
    PROVE  /\ Cleaned \in [Token -> Instant \cup {Never}]
           /\ \A t \in Token : /\ Cleaned[t] # Never => Cleaned[t] = replays[t]
                               /\ Cleaned[t] = Never /\ replays[t] # Never
                                    => AtOrBefore(replays[t], now)
BY DEF Cleaned, TypeOK

(* Whatever was due when the clean-up ran was due before.                  *)
LEMMA CleanedStill ==
    ASSUME ReplayInv, NEW t \in Token, first[t] # Never
    PROVE  \/ Cleaned[t] # Never /\ AtOrBefore(Plus(first[t], Window), Cleaned[t])
           \/ AtOrBefore(Plus(first[t], Window), now)
<1>1. TypeOK /\ StillRemembered(t)
  BY DEF ReplayInv
<1>2. first[t] \in Instant /\ now \in Instant
  BY <1>1 DEF TypeOK
<1>3. Plus(first[t], Window) \in Instant
  BY <1>2, Later
<1>4. CASE AtOrBefore(Plus(first[t], Window), now)
  BY <1>4
<1>5. CASE replays[t] # Never /\ AtOrBefore(Plus(first[t], Window), replays[t])
  <2>1. replays[t] \in Instant
    BY <1>1, <1>5 DEF TypeOK
  <2>2. CASE Cleaned[t] # Never
    BY <1>1, <1>5, <2>2, CleaningKeeps
  <2>3. CASE Cleaned[t] = Never
    <3>1. AtOrBefore(replays[t], now)
      BY <1>1, <1>5, <2>3, CleaningKeeps
    <3>2. QED
      BY <1>2, <1>3, <1>5, <2>1, <3>1, Later
  <2>4. QED
    BY <2>2, <2>3
<1>6. QED
  BY <1>1, <1>4, <1>5 DEF StillRemembered

LEMMA InvInit == ASSUME Init PROVE ReplayInv
<1>1. TypeOK
  <2>1. now \in Instant
    BY LogoutAssumption DEF Init, Instant
  <2>2. issued \in [Token -> Nat]
    BY LogoutAssumption DEF Init
  <2>3. QED
    BY <2>1, <2>2 DEF Init, TypeOK
<1>2. QED
  BY <1>1 DEF Init, ReplayInv, OnlyEarlyArrivalsTwice

(* A token that is accepted again was first accepted early: were it not,   *)
(* it would still be remembered, or too old to be current.                 *)
LEMMA AcceptedAgainWasEarly ==
    ASSUME ReplayInv, NEW t \in Token, Accept(t), first[t] # Never
    PROVE  first[t].sec <= issued[t]
<1>1. TypeOK
  BY DEF ReplayInv
<1>2. /\ first[t] \in Instant /\ now \in Instant
      /\ issued[t] \in Nat /\ first[t].sec \in Nat /\ now.sec \in Nat
      /\ first[t].ms \in Int /\ now.ms \in Int
  BY <1>1, LogoutAssumption DEF TypeOK, Instant
<1>3. AtOrBefore(Plus(first[t], Window), now)
  BY CleanedStill DEF Accept
<1>4. first[t].sec + Window <= now.sec
  BY <1>2, <1>3, Later, LogoutAssumption DEF AtOrBefore
<1>5. now.sec - issued[t] <= Window
  BY DEF Accept, Current
<1>6. QED
  BY <1>2, <1>4, <1>5, LogoutAssumption

LEMMA InvAccept ==
    ASSUME ReplayInv, NEW t \in Token, Accept(t)
    PROVE  ReplayInv'
<1>1. TypeOK
  BY DEF ReplayInv
<1>2. now \in Instant /\ Plus(now, Window) \in Instant
  BY <1>1, Later DEF TypeOK
<1>3. /\ replays' = [Cleaned EXCEPT ![t] = Plus(now, Window)]
      /\ first' = [first EXCEPT ![t] = IF @ = Never THEN now ELSE @]
      /\ twice' = IF first[t] = Never THEN twice ELSE twice \cup {t}
      /\ now' = now /\ issued' = issued
  BY DEF Accept
<1>4. Cleaned \in [Token -> Instant \cup {Never}]
  BY <1>1, CleaningKeeps
<1>5. TypeOK'
  BY <1>1, <1>2, <1>3, <1>4 DEF TypeOK
<1>6. /\ replays'[t] = Plus(now, Window)
      /\ first'[t] = IF first[t] = Never THEN now ELSE first[t]
      /\ first'[t] # Never
  BY <1>1, <1>2, <1>3, <1>4, NeverIsNoInstant DEF TypeOK
<1>7. \A u \in Token \ {t} : replays'[u] = Cleaned[u] /\ first'[u] = first[u]
  BY <1>1, <1>3, <1>4 DEF TypeOK
<1>8. ASSUME NEW u \in Token, first'[u] # Never
      PROVE  StillRemembered(u)'
  <2>1. CASE u = t /\ first[t] = Never
    <3>1. first'[t] = now
      BY <1>6, <2>1
    <3>2. AtOrBefore(Plus(now, Window), Plus(now, Window))
      BY <1>2, Later
    <3>3. Plus(now, Window) # Never
      BY <1>2, NeverIsNoInstant
    <3>4. Plus(first[u], Window)' = Plus(now, Window)
      BY <2>1, <3>1 DEF Plus
    <3>5. QED
      BY <1>6, <2>1, <3>2, <3>3, <3>4 DEF StillRemembered, AtOrBefore
  <2>2. CASE u = t /\ first[t] # Never
    <3>1. first'[t] = first[t] /\ AtOrBefore(Plus(first[t], Window), now)
      BY <1>6, <2>2, CleanedStill DEF Accept
    <3>2. QED
      BY <1>3, <2>2, <3>1 DEF StillRemembered, AtOrBefore, Plus
  <2>3. CASE u # t
    <3>1. first'[u] = first[u] /\ replays'[u] = Cleaned[u]
      BY <1>7, <2>3
    <3>2. \/ Cleaned[u] # Never /\ AtOrBefore(Plus(first[u], Window), Cleaned[u])
          \/ AtOrBefore(Plus(first[u], Window), now)
      BY <1>8, <3>1, CleanedStill
    <3>3. QED
      BY <1>3, <3>1, <3>2 DEF StillRemembered, AtOrBefore, Plus
  <2>4. QED
    BY <2>1, <2>2, <2>3
<1>9. ASSUME NEW u \in twice'
      PROVE  first'[u] # Never /\ first'[u].sec <= issued[u]
  <2>1. CASE u = t /\ first[t] # Never
    BY <1>6, <2>1, AcceptedAgainWasEarly
  <2>2. CASE u # t \/ first[t] = Never
    <3>1. u \in twice
      BY <1>3, <1>9, <2>2
    <3>2. u \in Token /\ first[u] # Never /\ first[u].sec <= issued[u]
      BY <1>1, <3>1 DEF ReplayInv, OnlyEarlyArrivalsTwice, TypeOK
    <3>3. QED
      BY <1>7, <2>2, <3>2
  <2>3. QED
    BY <2>1, <2>2
<1>10. QED
  BY <1>3, <1>5, <1>8, <1>9 DEF ReplayInv, OnlyEarlyArrivalsTwice

(* The steps that only clean the memory.                                   *)
LEMMA InvCleaned ==
    ASSUME ReplayInv, replays' = Cleaned, UNCHANGED <<now, issued, first, twice>>
    PROVE  ReplayInv'
<1>1. TypeOK
  BY DEF ReplayInv
<1>2. TypeOK'
  BY <1>1, CleaningKeeps DEF TypeOK
<1>3. ASSUME NEW u \in Token, first'[u] # Never
      PROVE  StillRemembered(u)'
  BY <1>3, CleanedStill DEF StillRemembered, AtOrBefore, Plus
<1>4. QED
  BY <1>2, <1>3 DEF ReplayInv, OnlyEarlyArrivalsTwice

(* Time only lets more of it have passed.                                  *)
LEMMA InvTick == ASSUME ReplayInv, Tick PROVE ReplayInv'
<1>1. TypeOK
  BY DEF ReplayInv
<1>2. now \in Instant /\ now.sec \in Nat /\ now.ms \in 0..(Millis - 1)
  BY <1>1 DEF TypeOK, Instant
<1>3. now' \in Instant /\ AtOrBefore(now, now')
  <2>1. CASE now.ms < Millis - 1
    <3>1. now' = [sec |-> now.sec, ms |-> now.ms + 1]
      BY <1>2, <2>1 DEF Tick, Instant
    <3>2. QED
      BY <1>2, <2>1, <3>1, LogoutAssumption DEF Instant, AtOrBefore
  <2>2. CASE ~(now.ms < Millis - 1)
    <3>1. now' = [sec |-> now.sec + 1, ms |-> 0]
      BY <2>2 DEF Tick
    <3>2. QED
      BY <1>2, <3>1, LogoutAssumption DEF Instant, AtOrBefore
  <2>3. QED
    BY <2>1, <2>2
<1>4. UNCHANGED <<issued, replays, first, twice>>
  BY DEF Tick
<1>5. TypeOK'
  BY <1>1, <1>3, <1>4 DEF TypeOK
<1>6. ASSUME NEW u \in Token, first'[u] # Never
      PROVE  StillRemembered(u)'
  <2>1. first[u] \in Instant /\ StillRemembered(u)
    BY <1>1, <1>4, <1>6 DEF ReplayInv, TypeOK
  <2>2. Plus(first[u], Window) \in Instant
    BY <2>1, Later
  <2>3. AtOrBefore(Plus(first[u], Window), now) => AtOrBefore(Plus(first[u], Window), now')
    BY <1>2, <1>3, <2>2, Later
  <2>4. QED
    BY <1>4, <2>1, <2>3 DEF StillRemembered, AtOrBefore, Plus
<1>7. QED
  BY <1>4, <1>5, <1>6 DEF ReplayInv, OnlyEarlyArrivalsTwice

LEMMA InvStep == ASSUME ReplayInv, [Next]_vars PROVE ReplayInv'
<1>1. CASE Tick
  BY <1>1, InvTick
<1>2. CASE Cleanup
  BY <1>2, InvCleaned DEF Cleanup
<1>3. CASE Reset
  BY <1>3 DEF Reset, ReplayInv, TypeOK, OnlyEarlyArrivalsTwice
<1>4. ASSUME NEW t \in Token, Accept(t) PROVE ReplayInv'
  BY <1>4, InvAccept
<1>5. ASSUME NEW t \in Token, Refuse(t) PROVE ReplayInv'
  BY <1>5, InvCleaned DEF Refuse
<1>6. CASE UNCHANGED vars
  BY <1>6 DEF vars, ReplayInv, TypeOK, OnlyEarlyArrivalsTwice, StillRemembered, AtOrBefore, Plus
<1>7. QED
  BY <1>1, <1>2, <1>3, <1>4, <1>5, <1>6 DEF Next

(* A logout token accepted a second or more after its issue is remembered  *)
(* for its whole window, at every step of the boundary.                    *)
THEOREM Remembers == Spec => []ReplayInv
<1>1. Init => ReplayInv
  BY InvInit
<1>2. ReplayInv /\ [Next]_vars => ReplayInv'
  BY InvStep
<1>3. QED
  BY <1>1, <1>2, PTL DEF Spec

(* Only a token first accepted before the second after its issue began is  *)
(* ever accepted again.                                                    *)
THEOREM ReplayRefused == Spec => []OnlyEarlyArrivalsTwice
<1>1. ReplayInv => OnlyEarlyArrivalsTwice
  BY DEF ReplayInv
<1>2. QED
  BY <1>1, Remembers, PTL

(* One more element is at most one more.                                   *)
LEMMA AtMostOneMore ==
    ASSUME NEW S, IsFiniteSet(S), NEW x
    PROVE  Cardinality(S \cup {x}) <= Cardinality(S) + 1
<1>1. Cardinality(S \cup {x}) = IF x \in S THEN Cardinality(S) ELSE Cardinality(S) + 1
  BY FS_AddElement, Zenon
<1>2. Cardinality(S) \in Nat
  BY FS_CardinalityType
<1>3. QED
  BY <1>1, <1>2

(* The tokens remembered after a step are among those remembered before    *)
(* it, or one more than fewer than Limit of them.                          *)
LEMMA RememberedChanges ==
    ASSUME ReplayInv, [Next]_vars
    PROVE  \/ Remembered' \subseteq Remembered
           \/ \E S \in SUBSET Token, t \in Token :
                 Remembered' \subseteq S \cup {t} /\ Cardinality(S) < Limit
<1>1. TypeOK
  BY DEF ReplayInv
<1>2. ASSUME replays' = Cleaned PROVE Remembered' \subseteq Remembered
  BY <1>1, <1>2, CleaningKeeps DEF Remembered
<1>3. ASSUME NEW t \in Token, Accept(t)
      PROVE  \E S \in SUBSET Token, u \in Token :
                Remembered' \subseteq S \cup {u} /\ Cardinality(S) < Limit
  <2> DEFINE S == {u \in Token : Cleaned[u] # Never}
  <2>1. ~(Cardinality(S) >= Limit)
    BY <1>3 DEF Accept, Full
  <2>2. IsFiniteSet(S)
    BY LogoutAssumption, FS_Subset
  <2>3. Cardinality(S) \in Nat
    BY <2>2, FS_CardinalityType
  <2>4. Cardinality(S) < Limit
    BY <2>1, <2>3, LogoutAssumption
  <2>5. Remembered' \subseteq S \cup {t}
    BY <1>1, <1>3, CleaningKeeps DEF Accept, Remembered
  <2>6. QED
    BY <2>4, <2>5
<1>4. CASE Tick
  BY <1>4 DEF Tick, Remembered
<1>5. CASE Reset
  BY <1>5 DEF Reset, Remembered
<1>6. CASE UNCHANGED vars
  BY <1>6 DEF vars, Remembered
<1>7. QED
  BY <1>2, <1>3, <1>4, <1>5, <1>6 DEF Next, Cleanup, Refuse

(* The memory of accepted tokens never exceeds its limit.                  *)
THEOREM MemoryBounded == Spec => []ReplaysBounded
<1>1. ASSUME Init PROVE ReplaysBounded
  <2>1. Remembered = {}
    BY <1>1 DEF Init, Remembered
  <2>2. QED
    BY <2>1, FS_EmptySet, LogoutAssumption DEF ReplaysBounded
<1>2. ASSUME ReplayInv, ReplaysBounded, [Next]_vars PROVE ReplaysBounded'
  <2>1. IsFiniteSet(Remembered)
    BY LogoutAssumption, FS_Subset DEF Remembered
  <2>2. CASE Remembered' \subseteq Remembered
    <3>1. /\ Cardinality(Remembered') <= Cardinality(Remembered)
          /\ Cardinality(Remembered') \in Nat /\ Cardinality(Remembered) \in Nat
      BY <2>1, <2>2, FS_Subset, FS_CardinalityType
    <3>2. QED
      BY <1>2, <3>1, LogoutAssumption DEF ReplaysBounded
  <2>3. ASSUME NEW S \in SUBSET Token, NEW t \in Token,
               Remembered' \subseteq S \cup {t}, Cardinality(S) < Limit
        PROVE  ReplaysBounded'
    <3>1. IsFiniteSet(S) /\ IsFiniteSet(S \cup {t})
      BY LogoutAssumption, FS_Subset
    <3>2. /\ Cardinality(Remembered') <= Cardinality(S \cup {t})
          /\ Cardinality(Remembered') \in Nat /\ Cardinality(S \cup {t}) \in Nat
          /\ Cardinality(S) \in Nat
      BY <2>3, <3>1, FS_Subset, FS_CardinalityType
    <3>3. Cardinality(S \cup {t}) <= Cardinality(S) + 1
      BY <3>1, AtMostOneMore
    <3>4. QED
      BY <2>3, <3>2, <3>3, LogoutAssumption DEF ReplaysBounded
  <2>4. QED
    BY <1>2, <2>2, <2>3, RememberedChanges
<1>3. QED
  BY <1>1, <1>2, Remembers, PTL DEF Spec
=============================================================================
