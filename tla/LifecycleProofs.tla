--------------------------- MODULE LifecycleProofs ---------------------------
(***************************************************************************)
(* Proofs about LifecycleNode and LifecycleDeployment, for any requestIds, *)
(* children and releases, any number of kept records and any bounds.       *)
(***************************************************************************)
EXTENDS LifecycleDeployment, SequenceTheorems, FiniteSetTheorems, TLAPS

-----------------------------------------------------------------------------
(* The records. *)

Once(keys) == \A i, j \in 1..Len(keys) : keys[i] = keys[j] => i = j

(* What an insertion makes of a sequence. *)
LEMMA InsertAtProperties ==
    ASSUME NEW S, NEW s \in Seq(S), NEW e \in S, NEW k \in 1..(Len(s) + 1)
    PROVE  /\ InsertAt(s, k, e) \in Seq(S)
           /\ Len(InsertAt(s, k, e)) = Len(s) + 1
           /\ \A i \in 1..(Len(s) + 1) :
                 InsertAt(s, k, e)[i] = IF i < k THEN s[i] ELSE IF i = k THEN e ELSE s[i - 1]
<1> DEFINE n == Len(s)
           before == SubSeq(s, 1, k - 1)
           upto == before \o <<e>>
           after == SubSeq(s, k, n)
<1>1. n \in Nat /\ k \in Int /\ \A i \in 1..n : s[i] \in S
  BY LenProperties, ElementOfSeq
<1>2. /\ before \in Seq(S) /\ Len(before) = k - 1
      /\ \A i \in 1..(k - 1) : before[i] = s[i]
  BY <1>1, SubSeqProperties
<1>3. /\ after \in Seq(S) /\ Len(after) = n - k + 1
      /\ \A i \in 1..(n - k + 1) : after[i] = s[k + i - 1]
  BY <1>1, SubSeqProperties
<1>4. <<e>> \in Seq(S) /\ Len(<<e>>) = 1 /\ <<e>>[1] = e
  OBVIOUS
<1> HIDE DEF before
<1>5. /\ upto \in Seq(S) /\ Len(upto) = k
      /\ \A i \in 1..k : upto[i] = IF i < k THEN s[i] ELSE e
  <2>1. upto \in Seq(S) /\ Len(upto) = k - 1 + 1
    BY <1>2, <1>4, ConcatProperties
  <2>2. \A i \in 1..(k - 1 + 1) : upto[i] = IF i <= k - 1 THEN before[i] ELSE <<e>>[i - (k - 1)]
    BY <1>2, <1>4, ConcatProperties
  <2>3. k - 1 + 1 = k
    BY <1>1
  <2> HIDE DEF upto
  <2>4. ASSUME NEW i \in 1..k PROVE upto[i] = IF i < k THEN s[i] ELSE e
    <3>1. CASE i < k
      <4>1. i \in 1..(k - 1) /\ i \in 1..(k - 1 + 1) /\ i <= k - 1
        BY <1>1, <3>1
      <4>2. QED
        BY <1>2, <2>2, <3>1, <4>1
    <3>2. CASE i = k
      <4>1. i \in 1..(k - 1 + 1) /\ ~(i <= k - 1) /\ i - (k - 1) = 1
        BY <1>1, <3>2
      <4>2. QED
        BY <1>1, <1>4, <2>2, <3>2, <4>1
    <3>3. QED
      BY <1>1, <3>1, <3>2
  <2>5. QED
    BY <2>1, <2>3, <2>4
<1>6. InsertAt(s, k, e) = upto \o after
  BY DEF InsertAt, before
<1> HIDE DEF upto, after
<1>7. /\ upto \o after \in Seq(S)
      /\ Len(upto \o after) = k + (n - k + 1)
      /\ \A i \in 1..(k + (n - k + 1)) :
            (upto \o after)[i] = IF i <= k THEN upto[i] ELSE after[i - k]
  BY <1>3, <1>5, ConcatProperties
<1>8. k + (n - k + 1) = n + 1
  BY <1>1
<1> DEFINE r == upto \o after
<1> HIDE DEF r
<1>9. ASSUME NEW i \in 1..(n + 1)
      PROVE  r[i] = IF i < k THEN s[i] ELSE IF i = k THEN e ELSE s[i - 1]
  <2>1. r[i] = IF i <= k THEN upto[i] ELSE after[i - k]
    BY <1>7, <1>8 DEF r
  <2>2. CASE i <= k
    <3>1. i \in 1..k
      BY <1>1, <2>2
    <3>2. QED
      BY <1>1, <1>5, <2>1, <2>2, <3>1
  <2>3. CASE i > k
    <3>1. i - k \in 1..(n - k + 1) /\ k + (i - k) - 1 = i - 1 /\ ~(i <= k) /\ ~(i < k) /\ i # k
      BY <1>1, <2>3
    <3>2. QED
      BY <1>3, <2>1, <3>1
  <2>4. QED
    BY <1>1, <2>2, <2>3
<1>10. QED
  BY <1>6, <1>7, <1>8, <1>9 DEF r

(* The first n naturals are n. *)
LEMMA Initial ==
    ASSUME NEW n \in Nat
    PROVE  IsFiniteSet(1..n) /\ Cardinality(1..n) = n
<1>1. n \in Int /\ 1 \in Int
  OBVIOUS
<1>2. /\ IsFiniteSet(1..n)
      /\ Cardinality(1..n) = IF 1 > n THEN 0 ELSE n - 1 + 1
  BY ONLY <1>1, FS_Interval
<1>3. QED
  BY <1>2

(* A new key has its place among the others. *)
LEMMA PlaceAmongKeys ==
    ASSUME order \in Seq(RequestId), NEW id \in RequestId
    PROVE  Place(id) \in 1..(Len(order) + 1)
<1> DEFINE n == Len(order)
           earlier == {i \in 1..n : Before(order[i], id)}
<1>1. n \in Nat
  BY LenProperties
<1>2. Place(id) = 1 + Cardinality(earlier)
  BY DEF Place
<1>3. earlier \in SUBSET (1..n)
  OBVIOUS
<1> HIDE DEF earlier, n
<1>4. IsFiniteSet(1..n) /\ Cardinality(1..n) = n
  BY <1>1, Initial
<1>5. Cardinality(earlier) <= Cardinality(1..n) /\ IsFiniteSet(earlier)
  BY <1>3, <1>4, FS_Subset
<1>6. Cardinality(earlier) \in Nat
  BY <1>5, FS_CardinalityType
<1>7. Cardinality(earlier) <= n
  BY <1>4, <1>5
<1> DEFINE c == Cardinality(earlier)
<1> HIDE DEF c
<1>8. 1 + c \in 1..(n + 1)
  BY <1>1, <1>6, <1>7 DEF c
<1>9. QED
  BY <1>2, <1>8 DEF c, n

(* A key that is added to keys that are there once is there once as well,  *)
(* and they stay.                                                          *)
LEMMA InsertedKeys ==
    ASSUME order \in Seq(RequestId), Once(order), NEW id \in RequestId
    PROVE  /\ Inserted(id) \in Seq(RequestId)
           /\ Once(Inserted(id))
           /\ {Inserted(id)[i] : i \in 1..Len(Inserted(id))} = Keys \cup {id}
<1>1. CASE id \in Keys
  BY <1>1 DEF Inserted, Keys
<1>2. CASE id \notin Keys
  <2> DEFINE n == Len(order)
             k == Place(id)
             keys == InsertAt(order, k, id)
  <2>1. n \in Nat /\ k \in 1..(n + 1)
    BY LenProperties, PlaceAmongKeys
  <2>2. Inserted(id) = keys
    BY <1>2 DEF Inserted
  <2> HIDE DEF k
  <2>3. keys \in Seq(RequestId) /\ Len(keys) = n + 1
    BY <2>1, InsertAtProperties
  <2>4. \A i \in 1..(n + 1) :
           keys[i] = IF i < k THEN order[i] ELSE IF i = k THEN id ELSE order[i - 1]
    BY <2>1, InsertAtProperties
  <2> HIDE DEF keys
  <2>5. \A i \in 1..n : order[i] # id
    BY <1>2 DEF Keys
  <2>6. Once(keys)
    <3> SUFFICES ASSUME NEW i \in 1..(n + 1), NEW j \in 1..(n + 1), keys[i] = keys[j]
                 PROVE  i = j
      BY <2>3 DEF Once
    <3> DEFINE old(h) == IF h < k THEN h ELSE h - 1
    <3>1. \A h \in 1..(n + 1) : h # k => old(h) \in 1..n /\ keys[h] = order[old(h)]
      BY <2>1, <2>4
    <3>2. CASE i = k \/ j = k
      BY <2>4, <2>5, <3>1, <3>2
    <3>3. CASE i # k /\ j # k
      <4>1. order[old(i)] = order[old(j)]
        BY <3>1, <3>3
      <4>2. old(i) = old(j)
        BY <3>1, <3>3, <4>1 DEF Once
      <4>3. QED
        BY <2>1, <3>3, <4>2
    <3>4. QED
      BY <3>2, <3>3
  <2>7. \A j \in 1..n : \E i \in 1..(n + 1) : keys[i] = order[j]
    <3> SUFFICES ASSUME NEW j \in 1..n PROVE \E i \in 1..(n + 1) : keys[i] = order[j]
      OBVIOUS
    <3>1. CASE j < k
      BY <2>1, <2>4, <3>1
    <3>2. CASE j >= k
      <4>1. j + 1 \in 1..(n + 1) /\ ~(j + 1 < k) /\ j + 1 # k /\ j + 1 - 1 = j
        BY <2>1, <3>2
      <4>2. QED
        BY <2>4, <4>1
    <3>3. QED
      BY <2>1, <3>1, <3>2
  <2>8. \A i \in 1..(n + 1) : keys[i] = id \/ \E j \in 1..n : keys[i] = order[j]
    <3> SUFFICES ASSUME NEW i \in 1..(n + 1), i # k PROVE \E j \in 1..n : keys[i] = order[j]
      BY <2>1, <2>4
    <3>1. CASE i < k
      BY <2>1, <2>4, <3>1
    <3>2. CASE i > k
      <4>1. i - 1 \in 1..n
        BY <2>1, <3>2
      <4>2. QED
        BY <2>1, <2>4, <3>2, <4>1
    <3>3. QED
      BY <2>1, <3>1, <3>2
  <2>9. k \in 1..(n + 1) /\ keys[k] = id
    BY <2>1, <2>4
  <2>10. {keys[i] : i \in 1..(n + 1)} = Keys \cup {id}
    BY <2>7, <2>8, <2>9 DEF Keys
  <2>11. QED
    BY <2>2, <2>3, <2>6, <2>10
<1>3. QED
  BY <1>1, <1>2

(* What a store makes of the records: the one it is for may change, some   *)
(* of the others may go, and what goes is pruned; there are never more     *)
(* than KEPT_JOBS, each under one key.                                     *)
LEMMA StoreKeeps ==
    ASSUME TypeOK, RecordsBounded, NEW id \in RequestId, NEW job \in Job, Store(id, job)
    PROVE  /\ order' \in Seq(RequestId)
           /\ jobs' \in [RequestId -> Job \cup {None}]
           /\ pruned \subseteq pruned' /\ pruned' \subseteq RequestId
           /\ RecordsBounded'
           /\ \A i \in RequestId \ {id} : jobs'[i] = jobs[i] \/ jobs'[i] = None
           /\ jobs'[id] = job \/ jobs'[id] = None
           /\ \A i \in RequestId : jobs[i] # None /\ jobs'[i] = None => i \in pruned'
           /\ jobs'[id] = None => id \in pruned'
<1> DEFINE keys == Inserted(id)
           n == Len(keys)
           excess == IF n > KeptJobs THEN n - KeptJobs ELSE 0
           gone == {keys[i] : i \in 1..excess}
<1>1. order \in Seq(RequestId) /\ Once(order) /\ Keys = {i \in RequestId : jobs[i] # None}
  BY DEF TypeOK, RecordsBounded, Once
<1>2. /\ keys \in Seq(RequestId) /\ Once(keys)
      /\ {keys[i] : i \in 1..n} = Keys \cup {id}
  BY <1>1, InsertedKeys
<1>3. /\ order' = SubSeq(keys, excess + 1, n)
      /\ jobs' = [i \in RequestId |->
                     IF i \in gone THEN None ELSE IF i = id THEN job ELSE jobs[i]]
      /\ pruned' = pruned \cup gone
  BY DEF Store
<1> HIDE DEF keys
<1>4. n \in Nat /\ \A i \in 1..n : keys[i] \in RequestId
  BY <1>2, LenProperties, ElementOfSeq
<1>5. excess \in 0..n /\ n - excess <= KeptJobs /\ n - excess \in Nat
  BY <1>4, LifecycleAssumption
<1> HIDE DEF excess
<1>6. gone \subseteq RequestId
  BY <1>4, <1>5
<1>7. /\ order' \in Seq(RequestId) /\ Len(order') = n - excess
      /\ \A i \in 1..(n - excess) : order'[i] = keys[excess + i]
  <2>1. excess + 1 \in Int /\ n \in Int /\ \A i \in (excess + 1)..n : keys[i] \in RequestId
    BY <1>4, <1>5
  <2>2. /\ SubSeq(keys, excess + 1, n) \in Seq(RequestId)
        /\ Len(SubSeq(keys, excess + 1, n)) = IF excess + 1 <= n THEN n - (excess + 1) + 1 ELSE 0
        /\ \A i \in 1..(n - (excess + 1) + 1) :
              SubSeq(keys, excess + 1, n)[i] = keys[excess + 1 + i - 1]
    BY <2>1, SubSeqProperties
  <2>3. n - (excess + 1) + 1 = n - excess /\ (excess + 1 > n => n - excess = 0)
    BY <1>4, <1>5
  <2>4. \A i \in 1..(n - excess) : excess + 1 + i - 1 = excess + i
    BY <1>5
  <2>5. QED
    BY <1>3, <2>2, <2>3, <2>4
<1>8. jobs' \in [RequestId -> Job \cup {None}]
  BY <1>3 DEF TypeOK
<1>9. Once(order')
  <2>1. \A i \in 1..(n - excess) : excess + i \in 1..n
    BY <1>4, <1>5
  <2>2. ASSUME NEW i \in 1..(n - excess), NEW j \in 1..(n - excess), order'[i] = order'[j]
        PROVE  i = j
    <3>1. keys[excess + i] = keys[excess + j] /\ excess + i \in 1..n /\ excess + j \in 1..n
      BY <1>7, <2>1, <2>2
    <3>2. excess + i = excess + j
      BY ONLY <1>2, <3>1 DEF Once
    <3>3. QED
      BY <1>5, <3>2
  <2>3. QED
    BY <1>7, <2>2 DEF Once
<1>10. {order'[i] : i \in 1..Len(order')} = (Keys \cup {id}) \ gone
  <2>1. ASSUME NEW i \in 1..(n - excess) PROVE order'[i] \in (Keys \cup {id}) \ gone
    <3>1. excess + i \in 1..n /\ excess + i > excess
      BY <1>4, <1>5
    <3>2. \A j \in 1..excess : keys[j] # keys[excess + i]
      BY <1>2, <1>4, <1>5, <3>1 DEF Once
    <3>3. QED
      BY <1>2, <1>7, <3>1, <3>2
  <2>2. ASSUME NEW k \in (Keys \cup {id}) \ gone PROVE \E i \in 1..(n - excess) : order'[i] = k
    <3>1. PICK j \in 1..n : keys[j] = k
      BY <1>2
    <3>2. j > excess
      BY <1>4, <1>5, <3>1
    <3>3. j - excess \in 1..(n - excess) /\ excess + (j - excess) = j
      BY <1>4, <1>5, <3>2
    <3>4. order'[j - excess] = keys[excess + (j - excess)]
      BY <1>7, <3>3
    <3>5. QED
      BY <3>1, <3>3, <3>4
  <2>3. QED
    BY <1>7, <2>1, <2>2
<1>11. \A i \in RequestId : jobs'[i] # None <=> i \in (Keys \cup {id}) \ gone
  BY <1>1, <1>3, LifecycleAssumption
<1>12. RecordsBounded'
  <2>1. Keys' = {i \in RequestId : jobs'[i] # None}
    BY <1>1, <1>10, <1>11 DEF Keys
  <2>2. QED
    BY <1>5, <1>7, <1>9, <2>1 DEF RecordsBounded, Once
<1>13. QED
  BY <1>1, <1>3, <1>6, <1>7, <1>8, <1>11, <1>12 DEF TypeOK

-----------------------------------------------------------------------------
(* The node, whatever its children print. *)

(* The requestId of a child has a record, unless it was pruned. *)
Remembered ==
    \A e \in Exec : exec[e].id # None => jobs[exec[e].id] # None \/ exec[e].id \in pruned

(* A recorded outcome is what the script of a child reported, one that ran *)
(* for this very requestId and is over.                                    *)
Outcomes(i) ==
    jobs[i] # None /\ jobs[i].result # None /\ jobs[i].result # Refusal
        => \E f \in Exec : /\ jobs[i].result = FromScript(f)
                           /\ exec[f].st = "over" /\ exec[f].id = i

ResultsOfChildren == \A i \in RequestId : Outcomes(i)

(* The inductive invariant of the node. *)
NodeInv ==
    /\ TypeOK
    /\ RecordsBounded
    /\ Remembered
    /\ OneExecutionWhileRecorded
    /\ ResultsOfChildren

LEMMA Children ==
    ASSUME TypeOK, NEW e \in Exec
    PROVE  /\ exec[e].st # "unused" <=> exec[e] \in Child
           /\ exec[e].id # None <=> exec[e] \in Child
           /\ exec[e] \in Child => FromScript(e) \in Result \ {Refusal, None}
<1>1. exec[e] \in Child \cup {Unused}
  BY DEF TypeOK
<1>2. exec[e] \in Child => exec[e].id \in RequestId /\ exec[e].st \in {"running", "over"}
                          /\ exec[e].script \in Outcome \cup {None}
  BY DEF Child
<1>3. Unused.id = None /\ Unused.st = "unused"
  BY DEF Unused
<1>4. FromScript(e).by = e
  BY DEF FromScript
<1>5. Refusal.by = None
  BY DEF Refusal
<1>6. exec[e] \in Child => FromScript(e) \in Result
  BY <1>2 DEF FromScript, Result, Outcome
<1>7. QED
  BY <1>1, <1>2, <1>3, <1>4, <1>5, <1>6, LifecycleAssumption

(* A store, with whatever becomes of the children in the same turn: none   *)
(* changes its requestId, save that an unused one may take this one, and   *)
(* one that is over stays as it is.                                        *)
LEMMA StoreStep ==
    ASSUME NodeInv, NEW id \in RequestId, NEW job \in Job, Store(id, job),
           exec' \in [Exec -> Child \cup {Unused}], faults' \in 0..MaxFaults,
           \A e \in Exec : exec'[e].id \in {exec[e].id, id},
           \A e \in Exec : exec[e].st = "over" => exec'[e] = exec[e],
           \/ job.result \in {None, Refusal}
           \/ jobs[id] # None /\ job.result = jobs[id].result
           \/ \E f \in Exec : /\ job.result = FromScript(f)'
                              /\ exec'[f].st = "over" /\ exec'[f].id = id
    PROVE  TypeOK' /\ RecordsBounded' /\ Remembered' /\ ResultsOfChildren'
<1>1. /\ TypeOK' /\ RecordsBounded'
      /\ pruned \subseteq pruned'
      /\ jobs' \in [RequestId -> Job \cup {None}]
      /\ \A i \in RequestId \ {id} : jobs'[i] = jobs[i] \/ jobs'[i] = None
      /\ jobs'[id] = job \/ jobs'[id] = None
      /\ \A i \in RequestId : jobs[i] # None /\ jobs'[i] = None => i \in pruned'
      /\ jobs'[id] = None => id \in pruned'
  BY StoreKeeps DEF NodeInv, TypeOK
<1>2. Remembered'
  <2> SUFFICES ASSUME NEW e \in Exec, exec'[e].id # None
               PROVE  jobs'[exec'[e].id] # None \/ exec'[e].id \in pruned'
    BY DEF Remembered
  <2>1. CASE exec'[e].id = id
    BY <1>1, <2>1
  <2>2. CASE exec'[e].id = exec[e].id
    <3>1. exec[e].id \in RequestId
      BY <2>2, Children DEF NodeInv, Child
    <3>2. jobs[exec[e].id] # None \/ exec[e].id \in pruned
      BY <2>2 DEF NodeInv, Remembered
    <3>3. QED
      BY <1>1, <2>2, <3>1, <3>2
  <2>3. QED
    BY <2>1, <2>2
<1>3. ASSUME NEW i \in RequestId, jobs'[i] # None, jobs[i] # None, jobs'[i].result = jobs[i].result
      PROVE  Outcomes(i)'
  <2> SUFFICES ASSUME jobs[i].result # None, jobs[i].result # Refusal
               PROVE  \E f \in Exec : /\ jobs'[i].result = FromScript(f)'
                                      /\ exec'[f].st = "over" /\ exec'[f].id = i
    BY <1>3 DEF Outcomes, Refusal
  <2>1. PICK f \in Exec : /\ jobs[i].result = FromScript(f)
                         /\ exec[f].st = "over" /\ exec[f].id = i
    BY <1>3 DEF NodeInv, ResultsOfChildren, Outcomes
  <2>2. exec'[f] = exec[f]
    BY <2>1
  <2>3. FromScript(f)' = FromScript(f)
    BY <2>2 DEF FromScript
  <2>4. QED
    BY <1>3, <2>1, <2>2, <2>3
<1>4. Outcomes(id)'
  <2>1. CASE jobs'[id] = None
    BY <2>1 DEF Outcomes
  <2>2. CASE jobs'[id] = job
    <3>1. CASE job.result \in {None, Refusal}
      BY <2>2, <3>1 DEF Outcomes, Refusal
    <3>2. CASE jobs[id] # None /\ job.result = jobs[id].result
      <4>1. job # None
        BY LifecycleAssumption
      <4>2. QED
        BY <1>3, <2>2, <3>2, <4>1
    <3>3. CASE \E f \in Exec : /\ job.result = FromScript(f)'
                              /\ exec'[f].st = "over" /\ exec'[f].id = id
      BY <2>2, <3>3 DEF Outcomes
    <3>4. QED
      BY <3>1, <3>2, <3>3
  <2>3. QED
    BY <1>1, <2>1, <2>2
<1>5. ASSUME NEW i \in RequestId \ {id} PROVE Outcomes(i)'
  <2>1. CASE jobs'[i] = None
    BY <2>1 DEF Outcomes
  <2>2. CASE jobs'[i] # None
    BY <1>1, <1>3, <2>2
  <2>3. QED
    BY <2>1, <2>2
<1>6. QED
  BY <1>1, <1>2, <1>4, <1>5 DEF ResultsOfChildren

LEMMA NodeInit == ASSUME Init PROVE NodeInv
<1>1. TypeOK
  <2>1. order \in Seq(RequestId)
    BY EmptySeq DEF Init
  <2>2. QED
    BY <2>1, LifecycleAssumption DEF Init, TypeOK
<1>2. RecordsBounded
  BY EmptySeq, LifecycleAssumption DEF Init, RecordsBounded, Keys
<1>3. \A e \in Exec : exec[e].id = None
  BY DEF Init, Unused
<1>4. \A i \in RequestId : jobs[i] = None
  BY DEF Init
<1>5. QED
  BY <1>1, <1>2, <1>3, <1>4
     DEF NodeInv, Remembered, OneExecutionWhileRecorded, ResultsOfChildren, Outcomes

LEMMA JobsOf ==
    ASSUME TypeOK, NEW id \in RequestId
    PROVE  /\ JobOf(id) \in Job
           /\ jobs[id] # None => JobOf(id) = jobs[id]
           /\ jobs[id] = None => JobOf(id).result = None
BY DEF TypeOK, JobOf, NewJob, Job

(* The children are as they were, or have become what they may. *)
LEMMA SameExecutions ==
    ASSUME NodeInv, NEW id \in RequestId, NEW job, Store(id, job),
           \A e \in Exec : exec'[e].id = exec[e].id
    PROVE  OneExecutionWhileRecorded'
BY DEF NodeInv, OneExecutionWhileRecorded, Store

LEMMA NodeRefuses ==
    ASSUME NodeInv, NEW id \in RequestId, Refuse(id)
    PROVE  NodeInv'
<1> DEFINE job == [JobOf(id) EXCEPT !.result = Refusal]
<1>1. Store(id, job) /\ exec' = exec /\ faults' = faults
  BY DEF Refuse, Finish
<1>2. job \in Job /\ job.result = Refusal
  BY JobsOf DEF NodeInv, Job, Result
<1>3. TypeOK' /\ RecordsBounded' /\ Remembered' /\ ResultsOfChildren'
  BY <1>1, <1>2, StoreStep DEF NodeInv, TypeOK
<1>4. QED
  BY <1>1, <1>3, SameExecutions DEF NodeInv

LEMMA NodeThrows ==
    ASSUME NodeInv, NEW id \in RequestId, AcceptThrows(id)
    PROVE  NodeInv'
<1>1. Store(id, NewJob) /\ exec' = exec /\ faults' \in 0..MaxFaults
  BY LifecycleAssumption DEF AcceptThrows, NodeInv, TypeOK
<1>2. NewJob \in Job /\ NewJob.result = None
  BY DEF NewJob, Job
<1>3. TypeOK' /\ RecordsBounded' /\ Remembered' /\ ResultsOfChildren'
  BY <1>1, <1>2, StoreStep DEF NodeInv, TypeOK
<1>4. QED
  BY <1>1, <1>3, SameExecutions DEF NodeInv

(* A second execution under a requestId begins only without a record, and  *)
(* the first has had one.                                                  *)
LEMMA NodeAccepts ==
    ASSUME NodeInv, NEW id \in RequestId, NEW e \in Exec, Accept(e, id)
    PROVE  NodeInv'
<1> DEFINE child == [st |-> "running", id |-> id, script |-> None, events |-> 0]
<1>1. /\ Store(id, NewJob) /\ jobs[id] = None /\ faults' = faults
      /\ exec[e] = Unused /\ exec' = [exec EXCEPT ![e] = child]
  BY DEF Accept
<1>2. NewJob \in Job /\ NewJob.result = None
  BY DEF NewJob, Job
<1>3. child \in Child
  BY LifecycleAssumption DEF Child
<1>4. exec' \in [Exec -> Child \cup {Unused}]
  BY <1>1, <1>3 DEF NodeInv, TypeOK
<1>5. exec'[e].id = id /\ \A f \in Exec \ {e} : exec'[f] = exec[f]
  BY <1>1 DEF NodeInv, TypeOK
<1>6. exec[e].st # "over"
  BY <1>1 DEF Unused
<1>7. TypeOK' /\ RecordsBounded' /\ Remembered' /\ ResultsOfChildren'
  BY <1>1, <1>2, <1>4, <1>5, <1>6, StoreStep DEF NodeInv, TypeOK
<1>8. pruned \subseteq pruned'
  BY <1>1 DEF Store
<1>9. \A f \in Exec \ {e} : exec[f].id = id => id \in pruned
  BY <1>1, LifecycleAssumption DEF NodeInv, Remembered
<1>10. OneExecutionWhileRecorded'
  BY <1>5, <1>8, <1>9 DEF NodeInv, OneExecutionWhileRecorded
<1>11. QED
  BY <1>7, <1>10 DEF NodeInv

LEMMA NodeProgresses ==
    ASSUME NodeInv, NEW e \in Exec, Progress(e)
    PROVE  NodeInv'
<1> DEFINE id == exec[e].id
           job == [JobOf(id) EXCEPT !.events = @ + 1]
<1>1. /\ Store(id, job) /\ faults' = faults
      /\ exec[e].st = "running" /\ exec[e].events < MaxEvents
      /\ exec' = [exec EXCEPT ![e].events = @ + 1]
  BY DEF Progress
<1>2. exec[e] \in Child
  BY <1>1, Children DEF NodeInv
<1>3. id \in RequestId /\ [exec[e] EXCEPT !.events = @ + 1] \in Child
  BY <1>1, <1>2, LifecycleAssumption DEF Child
<1>4. exec' = [exec EXCEPT ![e] = [exec[e] EXCEPT !.events = @ + 1]]
  BY <1>1, <1>2 DEF NodeInv, TypeOK
<1>5. exec' \in [Exec -> Child \cup {Unused}]
  BY <1>3, <1>4 DEF NodeInv, TypeOK
<1>6. \A f \in Exec \ {e} : exec'[f] = exec[f]
  BY <1>4 DEF NodeInv, TypeOK
<1>7. exec'[e].id = id
  BY <1>2, <1>4 DEF NodeInv, TypeOK, Child
<1>8. /\ job \in Job
      /\ job.result = None \/ (jobs[id] # None /\ job.result = jobs[id].result)
  BY <1>3, JobsOf DEF NodeInv, Job
<1>9. TypeOK' /\ RecordsBounded' /\ Remembered' /\ ResultsOfChildren'
  BY <1>1, <1>3, <1>5, <1>6, <1>7, <1>8, StoreStep DEF NodeInv, TypeOK
<1>10. QED
  BY <1>1, <1>3, <1>6, <1>7, <1>9, SameExecutions DEF NodeInv

LEMMA NodeReads ==
    ASSUME NodeInv, NEW e \in Exec, NEW r \in Outcome \cup {None}, ResultLine(e, r)
    PROVE  NodeInv'
<1>1. /\ jobs' = jobs /\ order' = order /\ faults' = faults /\ pruned' = pruned
      /\ exec[e].st = "running" /\ exec' = [exec EXCEPT ![e].script = r]
  BY DEF ResultLine
<1>2. exec[e] \in Child
  BY <1>1, Children DEF NodeInv
<1>3. [exec[e] EXCEPT !.script = r] \in Child
  BY <1>2 DEF Child
<1>4. exec' = [exec EXCEPT ![e] = [exec[e] EXCEPT !.script = r]]
  BY <1>1, <1>2 DEF NodeInv, TypeOK
<1>5. \A f \in Exec \ {e} : exec'[f] = exec[f]
  BY <1>4 DEF NodeInv, TypeOK
<1>6. exec'[e].id = exec[e].id
  BY <1>2, <1>4 DEF NodeInv, TypeOK, Child
<1>7. TypeOK'
  BY <1>1, <1>3, <1>4 DEF NodeInv, TypeOK
<1>8. RecordsBounded' /\ Remembered' /\ OneExecutionWhileRecorded'
  BY <1>1, <1>5, <1>6
     DEF NodeInv, RecordsBounded, Keys, Remembered, OneExecutionWhileRecorded
<1>9. ResultsOfChildren'
  <2> SUFFICES ASSUME NEW i \in RequestId, jobs[i] # None, jobs[i].result # None,
                      jobs[i].result # Refusal
               PROVE  \E f \in Exec : /\ jobs[i].result = FromScript(f)'
                                      /\ exec'[f].st = "over" /\ exec'[f].id = i
    BY <1>1 DEF ResultsOfChildren, Outcomes, Refusal
  <2>1. PICK f \in Exec : /\ jobs[i].result = FromScript(f)
                         /\ exec[f].st = "over" /\ exec[f].id = i
    BY DEF NodeInv, ResultsOfChildren, Outcomes
  <2>2. exec'[f] = exec[f]
    BY <1>1, <1>5, <2>1
  <2>3. FromScript(f)' = FromScript(f)
    BY <2>2 DEF FromScript
  <2>4. QED
    BY <2>1, <2>2, <2>3
<1>10. QED
  BY <1>7, <1>8, <1>9 DEF NodeInv

LEMMA NodeCompletes ==
    ASSUME NodeInv, NEW e \in Exec, Complete(e)
    PROVE  NodeInv'
<1> DEFINE id == exec[e].id
           job == [JobOf(id) EXCEPT !.result = FromScript(e)]
<1>1. /\ Store(id, job) /\ faults' = faults
      /\ exec[e].st = "running" /\ exec' = [exec EXCEPT ![e].st = "over"]
  BY DEF Complete, Finish
<1>2. exec[e] \in Child
  BY <1>1, Children DEF NodeInv
<1>3. id \in RequestId /\ [exec[e] EXCEPT !.st = "over"] \in Child
  BY <1>2 DEF Child
<1>4. exec' = [exec EXCEPT ![e] = [exec[e] EXCEPT !.st = "over"]]
  BY <1>1, <1>2 DEF NodeInv, TypeOK
<1>5. exec' \in [Exec -> Child \cup {Unused}]
  BY <1>3, <1>4 DEF NodeInv, TypeOK
<1>6. \A f \in Exec \ {e} : exec'[f] = exec[f]
  BY <1>4 DEF NodeInv, TypeOK
<1>7. exec'[e].id = id /\ exec'[e].st = "over" /\ exec'[e].script = exec[e].script
  BY <1>2, <1>4 DEF NodeInv, TypeOK, Child
<1>8. FromScript(e) \in Result
  BY <1>2, Children DEF NodeInv
<1>9. JobOf(id) \in Job
  BY <1>3, JobsOf DEF NodeInv
<1>10. job \in Job /\ job.result = FromScript(e)
  BY <1>8, <1>9 DEF Job
<1>11. FromScript(e)' = FromScript(e)
  BY <1>7 DEF FromScript
<1>12. TypeOK' /\ RecordsBounded' /\ Remembered' /\ ResultsOfChildren'
  BY <1>1, <1>3, <1>5, <1>6, <1>7, <1>10, <1>11, StoreStep DEF NodeInv, TypeOK
<1>13. QED
  BY <1>1, <1>3, <1>6, <1>7, <1>12, SameExecutions DEF NodeInv

LEMMA NodeNext == ASSUME NodeInv, [Next]_vars PROVE NodeInv'
<1>1. ASSUME NEW id \in RequestId, Refuse(id) PROVE NodeInv'
  BY <1>1, NodeRefuses
<1>2. ASSUME NEW id \in RequestId, AcceptThrows(id) PROVE NodeInv'
  BY <1>2, NodeThrows
<1>3. ASSUME NEW id \in RequestId, NEW e \in Exec, Accept(e, id) PROVE NodeInv'
  BY <1>3, NodeAccepts
<1>4. ASSUME NEW e \in Exec, Progress(e) PROVE NodeInv'
  BY <1>4, NodeProgresses
<1>5. ASSUME NEW e \in Exec, Complete(e) PROVE NodeInv'
  BY <1>5, NodeCompletes
<1>6. ASSUME NEW e \in Exec, NEW r \in Outcome \cup {None}, ResultLine(e, r) PROVE NodeInv'
  BY <1>6, NodeReads
<1>7. CASE UNCHANGED vars
  BY <1>7 DEF vars, NodeInv, TypeOK, RecordsBounded, Keys, Remembered,
              OneExecutionWhileRecorded, ResultsOfChildren, Outcomes, FromScript
<1>8. QED
  BY <1>1, <1>2, <1>3, <1>4, <1>5, <1>6, <1>7 DEF Next

(* The node's invariant: records and children agree, whatever its children *)
(* print and whenever they end.                                            *)
THEOREM NodeInvariance == Spec => []NodeInv
<1>1. Init => NodeInv
  BY NodeInit
<1>2. NodeInv /\ [Next]_vars => NodeInv'
  BY NodeNext
<1>3. QED
  BY <1>1, <1>2, PTL DEF Spec

(* "A requestId names one execution", unless its record was pruned in      *)
(* between.                                                                *)
THEOREM OneExecution == Spec => []OneExecutionWhileRecorded
<1>1. NodeInv => OneExecutionWhileRecorded
  BY DEF NodeInv
<1>2. QED
  BY <1>1, NodeInvariance, PTL

(* The records are at most KEPT_JOBS, each under one key.                  *)
THEOREM RecordsKept == Spec => []RecordsBounded
<1>1. NodeInv => RecordsBounded
  BY DEF NodeInv
<1>2. QED
  BY <1>1, NodeInvariance, PTL

(* A step of the node keeps the outcome of an execution whose record was   *)
(* never pruned, or a refusal replaces it: the one child that may complete *)
(* under that requestId has done so.                                       *)
LEMMA OutcomeStays ==
    ASSUME NodeInv, [Next]_vars, NEW i \in RequestId \ pruned,
           jobs[i] # None, jobs'[i] # None, jobs[i].result # None
    PROVE  \/ jobs'[i].result = jobs[i].result
           \/ jobs'[i].result = Refusal /\ exec' = exec
           \/ jobs[i].result = Refusal
<1> SUFFICES ASSUME jobs[i].result # Refusal
             PROVE  \/ jobs'[i].result = jobs[i].result
                    \/ jobs'[i].result = Refusal /\ exec' = exec
  OBVIOUS
<1>1. \A id \in RequestId, job \in Job :
         Store(id, job) => jobs'[i] = jobs[i] \/ (id = i /\ jobs'[i] = job)
  BY StoreKeeps DEF NodeInv
<1>2. ASSUME NEW id \in RequestId, Refuse(id) PROVE jobs'[i].result = jobs[i].result \/ (jobs'[i].result = Refusal /\ exec' = exec)
  <2> DEFINE job == [JobOf(id) EXCEPT !.result = Refusal]
  <2>1. job \in Job /\ job.result = Refusal
    BY JobsOf DEF NodeInv, Job, Result
  <2>2. Store(id, job) /\ exec' = exec
    BY <1>2 DEF Refuse, Finish
  <2>3. QED
    BY <1>1, <2>1, <2>2
<1>3. ASSUME NEW id \in RequestId, AcceptThrows(id) \/ \E e \in Exec : Accept(e, id)
      PROVE  jobs'[i].result = jobs[i].result
  <2>1. Store(id, NewJob) /\ id # i
    BY <1>3 DEF AcceptThrows, Accept
  <2>2. NewJob \in Job
    BY DEF NewJob, Job
  <2>3. QED
    BY <1>1, <2>1, <2>2
<1>4. ASSUME NEW e \in Exec, Progress(e) PROVE jobs'[i].result = jobs[i].result
  <2> DEFINE id == exec[e].id
             job == [JobOf(id) EXCEPT !.events = @ + 1]
  <2>1. exec[e].st = "running" /\ Store(id, job)
    BY <1>4 DEF Progress
  <2>2. id \in RequestId
    BY <2>1, Children DEF NodeInv, Child
  <2>3. job \in Job /\ (jobs[id] # None => job.result = jobs[id].result)
    BY <2>2, JobsOf DEF NodeInv, Job
  <2>4. QED
    BY <1>1, <2>1, <2>2, <2>3
<1>5. ASSUME NEW e \in Exec, Complete(e) PROVE jobs'[i].result = jobs[i].result
  <2> DEFINE id == exec[e].id
             job == [JobOf(id) EXCEPT !.result = FromScript(e)]
  <2>1. exec[e].st = "running" /\ Store(id, job)
    BY <1>5 DEF Complete, Finish
  <2>2. id \in RequestId /\ FromScript(e) \in Result
    BY <2>1, Children DEF NodeInv, Child
  <2>3. JobOf(id) \in Job
    BY <2>2, JobsOf DEF NodeInv
  <2>4. job \in Job
    BY <2>2, <2>3 DEF Job
  <2>5. PICK f \in Exec : exec[f].st = "over" /\ exec[f].id = i
    BY DEF NodeInv, ResultsOfChildren, Outcomes
  <2>6. id # i
    BY <2>1, <2>5, LifecycleAssumption DEF NodeInv, OneExecutionWhileRecorded
  <2>7. QED
    BY <1>1, <2>1, <2>2, <2>4, <2>6
<1>6. ASSUME NEW e \in Exec, NEW r \in Outcome \cup {None}, ResultLine(e, r)
      PROVE  jobs'[i].result = jobs[i].result
  BY <1>6 DEF ResultLine
<1>7. CASE UNCHANGED vars
  BY <1>7 DEF vars
<1>8. QED
  BY <1>2, <1>3, <1>4, <1>5, <1>6, <1>7 DEF Next

(* A recorded outcome is only ever replaced by the refusal of an invalid   *)
(* command, as long as its record was never pruned.                        *)
THEOREM OutcomeFinal == Spec => OutcomeOnlyRefused
<1> DEFINE Kept == \A i \in RequestId \ pruned :
                      jobs[i] # None /\ jobs'[i] # None /\ jobs[i].result # None
                          => \/ jobs'[i].result = jobs[i].result
                             \/ jobs'[i].result = Refusal /\ exec' = exec
                             \/ jobs[i].result = Refusal
<1>1. NodeInv /\ [Next]_vars => [Kept]_vars
  BY OutcomeStays
<1>2. QED
  BY <1>1, NodeInvariance, PTL DEF Spec, OutcomeOnlyRefused

-----------------------------------------------------------------------------
(* The node with the script: it stays the node. *)

LEMMA DeploymentStep == ASSUME DeploymentNext PROVE [Next]_vars
<1>1. ASSUME NEW id \in RequestId, Refuse(id) PROVE [Next]_vars
  BY <1>1 DEF Next
<1>2. ASSUME NEW id \in RequestId, AcceptThrows(id) PROVE [Next]_vars
  BY <1>2 DEF Next
<1>3. ASSUME NEW id \in RequestId, NEW e \in Exec, NEW r \in Release, NEW a \in Actions,
             Spawn(e, id, r, a)
      PROVE  [Next]_vars
  BY <1>3 DEF Next, Spawn
<1>4. ASSUME NEW e \in Exec, Step(e) PROVE [Next]_vars
  <2>1. CASE \/ Validate(e) \/ Proceeds(e) \/ DryRun(e) \/ HelmRollsBack(e)
             \/ ReadInventory(e) \/ Uninstall(e) \/ Fails(e)
    <3>1. Progress(e)
      BY <2>1 DEF Validate, Proceeds, DryRun, HelmRollsBack, ReadInventory, Uninstall, Fails
    <3>2. QED
      BY <3>1 DEF Next
  <2>2. CASE HelmBegins(e) \/ HelmUpgrades(e)
    BY <2>2 DEF HelmBegins, HelmUpgrades
  <2>3. CASE Reports(e) \/ StopsUnexpectedly(e)
    <3>1. \E r \in Outcome \cup {None} : ResultLine(e, r)
      BY <2>3 DEF Reports, StopsUnexpectedly, Outcome
    <3>2. QED
      BY <3>1 DEF Next
  <2>4. CASE Ends(e)
    BY <2>4 DEF Ends, Next
  <2>5. QED
    BY <1>4, <2>1, <2>2, <2>3, <2>4 DEF Step
<1>5. ASSUME NEW e \in Exec, Killed(e) PROVE [Next]_vars
  BY <1>5 DEF Killed
<1>6. QED
  BY <1>1, <1>2, <1>3, <1>4, <1>5 DEF DeploymentNext

(* The script adds nothing to what the node alone may do: the composition  *)
(* is an implementation of the node with any child.                        *)
THEOREM DeploymentIsNode == DeploymentSpec => Spec
<1>1. DeploymentInit => Init
  BY DEF DeploymentInit
<1>2. [DeploymentNext]_dvars => [Next]_vars
  BY DeploymentStep DEF dvars, vars
<1>3. QED
  BY <1>1, <1>2, PTL DEF DeploymentSpec, Spec

-----------------------------------------------------------------------------
(* What the script reports. *)

Places == {"none", "start", "namespace", "dry-run", "deploy", "upgrading", "inventory",
          "uninstall", "done", "failed", "exit"}

Script == [action : Actions \cup {None}, release : Release \cup {None}, at : Places,
           did : BOOLEAN]

(* Until it reports the script is silent; on its way it has not done what  *)
(* was asked yet, or has; and what it reported of that is true for good.   *)
ReportIsTrue(e) ==
    LET s == script[e]
    IN  /\ s.at # "exit" => exec[e].script = None
        /\ s.at \in {"inventory", "done"} => s.did
        /\ s.at \in {"start", "namespace", "dry-run", "deploy", "upgrading", "uninstall",
                     "failed"} => ~s.did
        /\ exec[e].script = "ok" => s.did
        /\ exec[e].script = "failed" => ~s.did

ScriptInv ==
    /\ script \in [Exec -> Script]
    /\ \A e \in Exec : ReportIsTrue(e)

LEMMA ReportsRead ==
    ASSUME TypeOK, NEW e \in Exec
    PROVE  /\ Progress(e) \/ Complete(e) => \A f \in Exec : exec'[f].script = exec[f].script
           /\ \A r \in Outcome : ResultLine(e, r) =>
                 exec'[e].script = r /\ \A f \in Exec \ {e} : exec'[f] = exec[f]
           /\ \A id \in RequestId : Accept(e, id) =>
                 exec'[e].script = None /\ \A f \in Exec \ {e} : exec'[f] = exec[f]
<1>1. exec[e].st = "running" => exec[e] \in Child
  BY Children
<1>2. Progress(e) => \A f \in Exec : exec'[f].script = exec[f].script
  <2> SUFFICES ASSUME Progress(e) PROVE \A f \in Exec : exec'[f].script = exec[f].script
    OBVIOUS
  <2>1. exec[e] \in Child /\ exec' = [exec EXCEPT ![e].events = @ + 1]
    BY <1>1 DEF Progress
  <2>2. exec'[e].script = exec[e].script /\ \A f \in Exec \ {e} : exec'[f] = exec[f]
    BY <2>1 DEF TypeOK, Child
  <2>3. QED
    BY <2>2
<1>3. Complete(e) => \A f \in Exec : exec'[f].script = exec[f].script
  <2> SUFFICES ASSUME Complete(e) PROVE \A f \in Exec : exec'[f].script = exec[f].script
    OBVIOUS
  <2>1. exec[e] \in Child /\ exec' = [exec EXCEPT ![e].st = "over"]
    BY <1>1 DEF Complete
  <2>2. exec'[e].script = exec[e].script /\ \A f \in Exec \ {e} : exec'[f] = exec[f]
    BY <2>1 DEF TypeOK, Child
  <2>3. QED
    BY <2>2
<1>4. ASSUME NEW r \in Outcome, ResultLine(e, r)
      PROVE  exec'[e].script = r /\ \A f \in Exec \ {e} : exec'[f] = exec[f]
  <2>1. exec[e] \in Child /\ exec' = [exec EXCEPT ![e].script = r]
    BY <1>1, <1>4 DEF ResultLine
  <2>2. QED
    BY <2>1 DEF TypeOK, Child
<1>5. ASSUME NEW id \in RequestId, Accept(e, id)
      PROVE  exec'[e].script = None /\ \A f \in Exec \ {e} : exec'[f] = exec[f]
  BY <1>5 DEF Accept, TypeOK
<1>6. QED
  BY <1>2, <1>3, <1>4, <1>5

(* A step of the script of e, which reports nothing. *)
LEMMA SilentStep ==
    ASSUME TypeOK, ScriptInv, NEW e \in Exec, NEW s \in Script,
           script' = [script EXCEPT ![e] = s],
           \A f \in Exec : exec'[f].script = exec[f].script,
           s.at \in {"inventory", "done"} => s.did,
           s.at \in Places \ {"none", "inventory", "done", "exit"} => ~s.did,
           script[e].at # "exit" /\ s.at # "none"
    PROVE  ScriptInv'
<1>1. script' \in [Exec -> Script] /\ script'[e] = s
  BY DEF ScriptInv
<1>2. ReportIsTrue(e)'
  <2>1. exec'[e].script = None
    BY DEF ScriptInv, ReportIsTrue
  <2>2. QED
    BY <1>1, <2>1, LifecycleAssumption DEF ReportIsTrue, Places, Outcome
<1>3. ASSUME NEW f \in Exec \ {e} PROVE ReportIsTrue(f)'
  <2>1. script'[f] = script[f]
    BY DEF ScriptInv
  <2>2. QED
    BY <2>1 DEF ScriptInv, ReportIsTrue
<1>4. QED
  BY <1>1, <1>2, <1>3 DEF ScriptInv

Gone(e, step) ==
    \E s \in Script : /\ script' = [script EXCEPT ![e] = s]
                      /\ s.at = step /\ s.did = script[e].did

LEMMA ScriptNext ==
    ASSUME TypeOK, ScriptInv, [DeploymentNext]_dvars
    PROVE  ScriptInv'
<1>1. ASSUME NEW e \in Exec, NEW step \in Places, Goes(e, step) PROVE Gone(e, step)
  <2> DEFINE s == [script[e] EXCEPT !.at = step]
  <2>1. script[e] \in Script
    BY DEF ScriptInv
  <2>2. s \in Script /\ s.at = step /\ s.did = script[e].did
    BY <2>1 DEF Script
  <2>3. script' = [script EXCEPT ![e] = s]
    BY <1>1 DEF Goes, ScriptInv
  <2>4. QED
    BY <2>2, <2>3 DEF Gone
<1>2. ASSUME NEW id \in RequestId, Refuse(id) \/ AcceptThrows(id), script' = script PROVE ScriptInv'
  BY <1>2 DEF Refuse, AcceptThrows, ScriptInv, ReportIsTrue
<1>3. ASSUME NEW id \in RequestId, NEW e \in Exec, NEW r \in Release, NEW a \in Actions,
             Spawn(e, id, r, a)
      PROVE  ScriptInv'
  <2> DEFINE s == [NoScript EXCEPT !.action = a, !.release = r, !.at = "start"]
  <2>1. s \in Script /\ s.at = "start" /\ ~s.did
    BY DEF NoScript, Script, Places
  <2>2. script' = [script EXCEPT ![e] = s] /\ Accept(e, id)
    BY <1>3 DEF Spawn
  <2>3. exec'[e].script = None /\ \A f \in Exec \ {e} : exec'[f] = exec[f]
    BY <2>2, ReportsRead
  <2>4. script'[e] = s /\ \A f \in Exec \ {e} : script'[f] = script[f]
    BY <2>2 DEF ScriptInv
  <2>5. script' \in [Exec -> Script]
    BY <2>1, <2>2 DEF ScriptInv
  <2> HIDE DEF s
  <2>6. ReportIsTrue(e)'
    BY <2>1, <2>3, <2>4, LifecycleAssumption DEF ReportIsTrue, Outcome
  <2>7. \A f \in Exec \ {e} : ReportIsTrue(f)'
    BY <2>3, <2>4 DEF ScriptInv, ReportIsTrue
  <2>8. QED
    BY <2>5, <2>6, <2>7 DEF ScriptInv
<1>4. ASSUME NEW e \in Exec, Step(e) PROVE ScriptInv'
  <2>1. CASE Validate(e) \/ Proceeds(e) \/ DryRun(e) \/ Fails(e) \/ HelmRollsBack(e)
    <3>1. PICK step \in {"namespace", "dry-run", "uninstall", "deploy", "failed"} : Goes(e, step)
      BY <2>1 DEF Validate, Proceeds, DryRun, Fails, HelmRollsBack
    <3>2. Progress(e) /\ script[e].at \in {"start", "namespace", "dry-run", "deploy", "uninstall", "upgrading"}
      BY <2>1 DEF Validate, Proceeds, DryRun, Fails, HelmRollsBack, At
    <3>3. \A f \in Exec : exec'[f].script = exec[f].script
      BY <3>2, ReportsRead
    <3>4. ~script[e].did
      BY <3>2 DEF ScriptInv, ReportIsTrue
    <3>5. step \in Places
      BY DEF Places
    <3>6. PICK s \in Script : /\ script' = [script EXCEPT ![e] = s]
                             /\ s.at = step /\ s.did = script[e].did
      <4>1. Gone(e, step)
        BY <1>1, <3>1, <3>5
      <4>2. QED
        BY <4>1 DEF Gone
    <3>7. QED
      BY <3>2, <3>3, <3>4, <3>6, SilentStep
  <2>2. CASE HelmBegins(e)
    <3>1. Goes(e, "upgrading") /\ exec' = exec /\ script[e].at = "deploy"
      BY <2>2 DEF HelmBegins, At, vars
    <3>2. ~script[e].did /\ "upgrading" \in Places
      BY <3>1 DEF ScriptInv, ReportIsTrue, Places
    <3>3. PICK s \in Script : /\ script' = [script EXCEPT ![e] = s]
                             /\ s.at = "upgrading" /\ s.did = script[e].did
      <4>1. Gone(e, "upgrading")
        BY <1>1, <3>1, <3>2
      <4>2. QED
        BY <4>1 DEF Gone
    <3>4. QED
      BY <3>1, <3>2, <3>3, SilentStep
  <2>3. CASE ReadInventory(e)
    <3>1. Goes(e, "done") /\ script[e].at = "inventory"
      BY <2>3 DEF ReadInventory, At
    <3>2. \A f \in Exec : exec'[f].script = exec[f].script
      BY <2>3, ReportsRead DEF ReadInventory
    <3>3. script[e].did /\ "done" \in Places
      BY <3>1 DEF ScriptInv, ReportIsTrue, Places
    <3>4. PICK s \in Script : /\ script' = [script EXCEPT ![e] = s]
                             /\ s.at = "done" /\ s.did = script[e].did
      <4>1. Gone(e, "done")
        BY <1>1, <3>1, <3>3
      <4>2. QED
        BY <4>1 DEF Gone
    <3>5. /\ s.at \in {"inventory", "done"} => s.did
          /\ s.at \in Places \ {"none", "inventory", "done", "exit"} => ~s.did
          /\ script[e].at # "exit" /\ s.at # "none"
      BY <3>1, <3>3, <3>4
    <3>6. QED
      BY <3>2, <3>4, <3>5, SilentStep
  <2>4. CASE HelmUpgrades(e) \/ Uninstall(e)
    <3>1. PICK step \in {"inventory", "done"} :
             script' = [script EXCEPT ![e].at = step, ![e].did = TRUE]
      BY <2>4 DEF HelmUpgrades, Uninstall
    <3> DEFINE s == [script[e] EXCEPT !.at = step, !.did = TRUE]
    <3>2. script[e].at \in {"upgrading", "uninstall"} /\ (exec' = exec \/ Progress(e))
      BY <2>4 DEF HelmUpgrades, Uninstall, At, vars
    <3>3. \A f \in Exec : exec'[f].script = exec[f].script
      BY <3>2, ReportsRead
    <3>4. script[e] \in Script
      BY DEF ScriptInv
    <3>5. s \in Script /\ s.at = step /\ s.did
      BY <3>4 DEF Script, Places
    <3>6. script' = [script EXCEPT ![e] = s]
      BY <3>1, <3>4 DEF ScriptInv, Script
    <3>7. QED
      BY <3>2, <3>3, <3>5, <3>6, SilentStep
  <2>5. CASE Reports(e) \/ StopsUnexpectedly(e)
    <3>1. PICK r \in Outcome : ResultLine(e, r) /\ (r = "ok" => script[e].did)
                                            /\ (r = "failed" => ~script[e].did)
      BY <2>5 DEF Reports, StopsUnexpectedly, At, Outcome, ScriptInv, ReportIsTrue
    <3>2. Goes(e, "exit") /\ "exit" \in Places
      BY <2>5 DEF Reports, StopsUnexpectedly, Places
    <3>3. /\ script' \in [Exec -> Script]
          /\ script'[e].at = "exit" /\ script'[e].did = script[e].did
      <4>1. Gone(e, "exit")
        BY <1>1, <3>2
      <4>2. PICK s \in Script : /\ script' = [script EXCEPT ![e] = s]
                               /\ s.at = "exit" /\ s.did = script[e].did
        BY <4>1 DEF Gone
      <4>3. QED
        BY <4>2 DEF ScriptInv
    <3>5. \A f \in Exec \ {e} : script'[f] = script[f]
      BY <3>2 DEF Goes, ScriptInv
    <3>6. exec'[e].script = r /\ \A f \in Exec \ {e} : exec'[f] = exec[f]
      BY <3>1, ReportsRead
    <3>7. ReportIsTrue(e)'
      BY <3>1, <3>3, <3>6 DEF ReportIsTrue
    <3>8. \A f \in Exec \ {e} : ReportIsTrue(f)'
      BY <3>5, <3>6 DEF ScriptInv, ReportIsTrue
    <3>9. QED
      BY <3>3, <3>7, <3>8 DEF ScriptInv
  <2>6. CASE Ends(e)
    <3>1. script' = script /\ Complete(e)
      BY <2>6 DEF Ends
    <3>2. \A f \in Exec : exec'[f].script = exec[f].script
      BY <3>1, ReportsRead
    <3>3. QED
      BY <3>1, <3>2 DEF ScriptInv, ReportIsTrue
  <2>7. QED
    BY <1>4, <2>1, <2>2, <2>3, <2>4, <2>5, <2>6 DEF Step
<1>5. ASSUME NEW e \in Exec, Killed(e) PROVE ScriptInv'
  <2>1. Goes(e, "exit") /\ exec' = exec /\ script[e].at # "exit" /\ "exit" \in Places
    BY <1>5 DEF Killed, At, vars, Places
  <2>2. Gone(e, "exit")
    BY <1>1, <2>1
  <2>3. PICK s \in Script : /\ script' = [script EXCEPT ![e] = s]
                           /\ s.at = "exit" /\ s.did = script[e].did
    BY <2>2 DEF Gone
  <2>4. QED
    BY <2>1, <2>3, SilentStep
<1>6. CASE UNCHANGED dvars
  BY <1>6 DEF dvars, ScriptInv, ReportIsTrue
<1>7. QED
  BY <1>2, <1>3, <1>4, <1>5, <1>6 DEF DeploymentNext

(* A result in the context is true of the cluster, whatever came in        *)
(* between: it is that of a child of its own requestId, and Helm did what  *)
(* it says that Helm did.                                                  *)
THEOREM ResultsTrue == DeploymentSpec => []ResultIsTrue
<1>1. DeploymentInit => ScriptInv
  <2> SUFFICES ASSUME DeploymentInit PROVE ScriptInv
    OBVIOUS
  <2>1. script = [e \in Exec |-> NoScript] /\ \A e \in Exec : exec[e].script = None
    BY DEF DeploymentInit, Init, Unused
  <2>2. NoScript \in Script /\ NoScript.at = "none"
    BY DEF NoScript, Script, Places
  <2>3. QED
    BY <2>1, <2>2, LifecycleAssumption DEF ScriptInv, ReportIsTrue, Outcome
<1>2. TypeOK /\ ScriptInv /\ [DeploymentNext]_dvars => ScriptInv'
  BY ScriptNext
<1>3. NodeInv /\ ScriptInv => ResultIsTrue
  <2> SUFFICES ASSUME NodeInv, ScriptInv, NEW i \in RequestId,
                      jobs[i] # None, jobs[i].result # None, jobs[i].result.by # None
               PROVE  LET r == jobs[i].result
                      IN  /\ exec[r.by].st = "over" /\ exec[r.by].id = i
                          /\ r.outcome = "ok" => script[r.by].did
                          /\ r.outcome = "failed" => ~script[r.by].did
    BY DEF ResultIsTrue
  <2>1. jobs[i].result # Refusal
    BY DEF Refusal
  <2>2. PICK f \in Exec : /\ jobs[i].result = FromScript(f)
                         /\ exec[f].st = "over" /\ exec[f].id = i
    BY <2>1 DEF NodeInv, ResultsOfChildren, Outcomes
  <2>3. /\ jobs[i].result.by = f
        /\ jobs[i].result.outcome = "ok" => exec[f].script = "ok"
        /\ jobs[i].result.outcome = "failed" => exec[f].script = "failed"
    BY <2>2 DEF FromScript
  <2>4. ReportIsTrue(f)
    BY DEF ScriptInv
  <2>5. QED
    BY <2>2, <2>3, <2>4 DEF ReportIsTrue
<1>4. NodeInv => TypeOK
  BY DEF NodeInv
<1>5. DeploymentSpec => []NodeInv
  BY DeploymentIsNode, NodeInvariance, PTL
<1>6. QED
  BY <1>1, <1>2, <1>3, <1>4, <1>5, PTL DEF DeploymentSpec

(* What the node keeps to with any child, it keeps to with its script.     *)
THEOREM DeploymentKeeps ==
    DeploymentSpec => []RecordsBounded /\ []OneExecutionWhileRecorded /\ OutcomeOnlyRefused
BY DeploymentIsNode, RecordsKept, OneExecution, OutcomeFinal, PTL
=============================================================================
