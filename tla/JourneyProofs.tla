---------------------------- MODULE JourneyProofs ----------------------------
(***************************************************************************)
(* Proofs about JourneyEngine, for any plans and any bounds: what the      *)
(* shared run is at, that it ends once and for good, what its verdict      *)
(* stands for, and that what a page sees of it is a run of SharedRun.      *)
(***************************************************************************)
EXTENDS JourneyEngine, SequenceTheorems, TLAPS

-----------------------------------------------------------------------------
(* The inductive invariant: a run is in progress, awaits its response or   *)
(* is over, and its checks are those of its plan as far as it is.          *)

InProgress(r) ==
    /\ r.result = None /\ r.request = "none" /\ r.step < Steps(r.plan)
    /\ \A i \in 1..r.step : r.checks[i] = Expected[r.plan][i]
    /\ r.plan \notin Atlas => \A i \in 1..r.step : r.checks[i] = "Pass"

Awaiting(r) ==
    /\ r.result = None /\ r.request = "pending"
    /\ \A i \in 1..(Steps(r.plan) - 1) : r.checks[i] = "Pass"

Over(r) ==
    /\ r.result # None /\ r.request # "pending"
    /\ \A i \in 1..Steps(r.plan) : r.checks[i] \notin {"Not evaluated", "Pending"}
    /\ r.result = "success" => \A i \in 1..Steps(r.plan) : r.checks[i] = "Pass"

Sound(r) ==
    /\ r.step \in 1..Steps(r.plan)
    /\ Len(r.checks) = Steps(r.plan)
    /\ r.completed = IF r.result = None THEN 0 ELSE 1
    /\ InProgress(r) \/ Awaiting(r) \/ Over(r)

RunSound(r) == r # None => r.id = runs /\ Sound(r)

JourneyInv == TypeOK /\ RunSound(run)

-----------------------------------------------------------------------------
(* What the code's plans have in common. *)
LEMMA PlanFacts ==
    ASSUME NEW p \in Plan
    PROVE  /\ Steps(p) \in Nat /\ Steps(p) <= MaxSteps /\ Started[p] \in 1..Steps(p)
           /\ Expected[p] \in Seq({"Pass", "Fail", "Unavailable", "Skipped"})
           /\ \A i \in 1..Steps(p) : Expected[p][i] \in {"Pass", "Fail", "Unavailable", "Skipped"}
           /\ Last(Expected[p]) = Expected[p][Steps(p)]
           /\ Expected[p][Steps(p)] \in {"Pass", "Fail", "Unavailable"}
<1>1. /\ Expected[p] \in Seq({"Pass", "Fail", "Unavailable", "Skipped"}) /\ Expected[p] # <<>>
      /\ Started[p] \in Nat \ {0} /\ Started[p] <= Len(Expected[p])
      /\ Len(Expected[p]) <= MaxSteps /\ Last(Expected[p]) \in {"Pass", "Fail", "Unavailable"}
  BY JourneyAssumption
<1>2. Len(Expected[p]) \in Nat /\ Last(Expected[p]) = Expected[p][Len(Expected[p])]
  BY <1>1, LenProperties DEF Last
<1>3. \A i \in 1..Len(Expected[p]) : Expected[p][i] \in {"Pass", "Fail", "Unavailable", "Skipped"}
  BY <1>1, ElementOfSeq
<1>4. QED
  BY <1>1, <1>2, <1>3 DEF Steps

(* A plan of the atlas goes on to its last step, and fails or is skipped   *)
(* on the way only to fail at the end.                                     *)
LEMMA AtlasFacts ==
    ASSUME NEW p \in Atlas
    PROVE  /\ \A i \in 1..Steps(p) : i < Steps(p) => Expected[p][i] \in {"Pass", "Skipped"}
           /\ Expected[p][Steps(p)] = "Pass" => \A i \in 1..Steps(p) : Expected[p][i] = "Pass"
<1>1. p \in Plan
  BY JourneyAssumption
<1>2. /\ \A i \in 1..(Steps(p) - 1) : Expected[p][i] \in {"Pass", "Skipped"}
      /\ Last(Expected[p]) = "Pass" => "Skipped" \notin Range(Expected[p])
  BY <1>1, JourneyAssumption DEF Steps
<1>3. \A i \in 1..Steps(p) : Expected[p][i] \in Range(Expected[p])
  BY <1>1, PlanFacts, LenProperties DEF Range, Steps
<1>4. \A i \in 1..Steps(p) : i < Steps(p) => i \in 1..(Steps(p) - 1)
  BY <1>1, PlanFacts
<1>5. \A i \in 1..Steps(p) : i < Steps(p) \/ i = Steps(p)
  BY <1>1, PlanFacts
<1>6. QED
  BY <1>1, <1>2, <1>3, <1>4, <1>5, PlanFacts

(* One of the samples starts with a check that passes, and skips none.     *)
LEMMA SampleFacts ==
    ASSUME NEW p \in Plan \ Atlas
    PROVE  /\ Started[p] = 1 /\ Started[p] # Steps(p) /\ Expected[p][1] = "Pass"
           /\ \A i \in 1..Steps(p) : Expected[p][i] # "Skipped"
<1>1. /\ Started[p] = 1 /\ Len(Expected[p]) > 1 /\ Expected[p][1] = "Pass"
      /\ "Skipped" \notin Range(Expected[p])
  BY JourneyAssumption
<1>2. \A i \in 1..Steps(p) : Expected[p][i] \in Range(Expected[p])
  BY PlanFacts, LenProperties DEF Range, Steps
<1>3. QED
  BY <1>1, <1>2, PlanFacts DEF Steps

(* A check is set. *)
LEMMA CheckSet ==
    ASSUME NEW r \in Run, NEW i \in 1..Len(r.checks), NEW status \in Status
    PROVE  LET u == [r EXCEPT !.checks[i] = status]
           IN  /\ u \in Run /\ Len(u.checks) = Len(r.checks)
               /\ \A j \in 1..Len(r.checks) :
                     u.checks[j] = IF j = i THEN status ELSE r.checks[j]
               /\ u.id = r.id /\ u.plan = r.plan /\ u.step = r.step
               /\ u.request = r.request /\ u.result = r.result /\ u.completed = r.completed
<1> DEFINE s == [r.checks EXCEPT ![i] = status]
           u == [r EXCEPT !.checks[i] = status]
<1>1. r.checks \in Seq(Status)
  BY DEF Run
<1>2. /\ s \in Seq(Status) /\ Len(s) = Len(r.checks)
      /\ \A j \in 1..Len(r.checks) : s[j] = IF j = i THEN status ELSE r.checks[j]
  BY <1>1, ExceptSeq
<1>3. u = [r EXCEPT !.checks = s]
  BY DEF Run
<1> HIDE DEF s, u
<1>4. /\ u \in Run /\ u.checks = s
      /\ u.id = r.id /\ u.plan = r.plan /\ u.step = r.step
      /\ u.request = r.request /\ u.result = r.result /\ u.completed = r.completed
  BY <1>2, <1>3 DEF Run
<1>5. QED
  BY <1>2, <1>4 DEF u

(* A run is finished. *)
LEMMA FinishedRun ==
    ASSUME NEW r \in Run, NEW result \in Result
    PROVE  LET u == Finished(r, result)
           IN  /\ u \in Run /\ u.result = result /\ u.completed = r.completed + 1
               /\ u.id = r.id /\ u.plan = r.plan /\ u.step = r.step
               /\ u.checks = r.checks /\ u.request = r.request
<1> DEFINE k == r.completed + 1
           u == Finished(r, result)
<1>1. k \in Nat
  BY DEF Run
<1>2. u = [r EXCEPT !.result = result, !.completed = k]
  BY DEF Run, Finished
<1> HIDE DEF k, u
<1>3. /\ u \in Run /\ u.result = result /\ u.completed = k
      /\ u.id = r.id /\ u.plan = r.plan /\ u.step = r.step
      /\ u.checks = r.checks /\ u.request = r.request
  BY <1>1, <1>2 DEF Run
<1>4. QED
  BY <1>3 DEF k, u

(* A run gets the answer that it waits for. *)
Answered(r, outcome) ==
    [Finished(LastCheck(r, Check(outcome)), outcome) EXCEPT !.request = "completed"]

LEMMA AnsweredRun ==
    ASSUME NEW r \in Run, Sound(r), r.request = "pending", NEW outcome \in Outcome
    PROVE  /\ Answered(r, outcome) \in Run /\ Sound(Answered(r, outcome))
           /\ Answered(r, outcome).id = r.id
           /\ Answered(r, outcome).result = outcome /\ Answered(r, outcome).request = "completed"
<1> DEFINE n == Steps(r.plan)
           status == Check(outcome)
           c == LastCheck(r, status)
           f == Finished(c, outcome)
           u == Answered(r, outcome)
<1>1. r.plan \in Plan
  BY DEF Run
<1>2. n \in Nat /\ n >= 1 /\ r.step \in 1..n /\ Len(r.checks) = n /\ n \in 1..Len(r.checks)
  BY <1>1, PlanFacts DEF Sound
<1>3. Awaiting(r) /\ r.completed = 0
  BY DEF Sound, Awaiting, InProgress, Over
<1>4. /\ status \in Status /\ status \notin {"Not evaluated", "Pending"}
      /\ outcome = "success" => status = "Pass"
  <2>1. outcome = "success" => status = "Pass"
    BY DEF Check
  <2>2. outcome = "denied" => status = "Fail"
    BY DEF Check
  <2>3. outcome = "unavailable" => status = "Unavailable"
    BY DEF Check
  <2>4. outcome = "error" => status = "Error"
    BY DEF Check
  <2> HIDE DEF status
  <2>5. QED
    BY <2>1, <2>2, <2>3, <2>4 DEF Status, Outcome
<1>5. outcome \in Result /\ outcome # None
  BY JourneyAssumption DEF Outcome, Result
<1> HIDE DEF status
<1>6. /\ c \in Run /\ Len(c.checks) = n
      /\ \A j \in 1..n : c.checks[j] = IF j = n THEN status ELSE r.checks[j]
      /\ c.id = r.id /\ c.plan = r.plan /\ c.step = r.step /\ c.completed = 0
  <2>1. c = [r EXCEPT !.checks[n] = status]
    BY <1>2 DEF LastCheck
  <2> HIDE DEF c
  <2>2. /\ c \in Run /\ Len(c.checks) = Len(r.checks)
        /\ \A j \in 1..Len(r.checks) : c.checks[j] = IF j = n THEN status ELSE r.checks[j]
        /\ c.id = r.id /\ c.plan = r.plan /\ c.step = r.step /\ c.completed = r.completed
    BY <1>2, <1>4, <2>1, CheckSet
  <2>3. QED
    BY <1>2, <1>3, <2>2
<1> HIDE DEF c
<1>7. /\ f \in Run /\ f.result = outcome /\ f.completed = 1 /\ f.checks = c.checks
      /\ f.id = r.id /\ f.plan = r.plan /\ f.step = r.step
  BY <1>5, <1>6, FinishedRun
<1> HIDE DEF f
<1>8. u = [f EXCEPT !.request = "completed"]
  BY DEF Answered, f, c, status
<1> HIDE DEF u
<1>9. /\ u \in Run /\ u.result = outcome /\ u.completed = 1 /\ u.checks = c.checks
      /\ u.id = r.id /\ u.plan = r.plan /\ u.step = r.step /\ u.request = "completed"
  BY <1>7, <1>8 DEF Run
<1>10. \A j \in 1..n : j # n => j \in 1..(n - 1)
  BY <1>2
<1>11. Over(u)
  BY <1>3, <1>4, <1>5, <1>6, <1>9, <1>10 DEF Over, Awaiting
<1>12. Sound(u)
  BY <1>2, <1>5, <1>6, <1>9, <1>11 DEF Sound
<1>13. QED
  BY <1>9, <1>12 DEF u

-----------------------------------------------------------------------------
(* The kinds of steps. *)

Keeps == run' = run /\ runs' = runs

(* The response, or the deadline. *)
Ends ==
    /\ run # None /\ run.request = "pending" /\ runs' = runs
    /\ run' # None /\ run'.id = run.id /\ run'.result # None
    /\ run'.result = "success" =>
          [run |-> run.id, outcome |-> "success"] \in inbox /\ run.id \notin late

Resets == run' = None /\ runs' = runs

Starts ==
    /\ Free /\ runs < MaxRuns /\ runs' = runs + 1
    /\ run' # None /\ run'.id = runs + 1 /\ run'.request = "none"
    /\ run'.result = None => run'.step \in 1..MaxSteps

Advances ==
    /\ run # None /\ run.result = None /\ run.request = "none" /\ runs' = runs
    /\ run' # None /\ run'.id = run.id
    /\ run'.result = None /\ run'.request # "pending" =>
          run'.step = run.step + 1 /\ run.step < MaxSteps

Kind == Keeps \/ Ends \/ Resets \/ Starts \/ Advances

(* What the run is found at. *)
LEMMA CurrentRun ==
    ASSUME JourneyInv
    PROVE  /\ current \in Run \cup {None}
           /\ RunSound(current)
           /\ \/ current = run
              \/ /\ run # None /\ run.request = "pending" /\ run.id \in late
                 /\ current # None /\ current.id = run.id /\ current.result = "unavailable"
                 /\ current.request = "completed"
<1>1. CASE run # None /\ run.request = "pending" /\ run.id \in late
  <2>1. run \in Run /\ Sound(run) /\ run.id = runs
    BY <1>1 DEF JourneyInv, TypeOK, RunSound
  <2>2. current = Answered(run, "unavailable")
    BY <1>1 DEF current, Seen, Answered, Check
  <2>3. "unavailable" \in Outcome
    BY DEF Outcome
  <2>4. /\ current \in Run /\ Sound(current) /\ current.id = run.id
        /\ current.result = "unavailable" /\ current.request = "completed"
    BY <1>1, <2>1, <2>2, <2>3, AnsweredRun
  <2>5. current # None
    BY <2>4, JourneyAssumption
  <2>6. QED
    BY <1>1, <2>1, <2>4, <2>5 DEF RunSound
<1>2. CASE ~(run # None /\ run.request = "pending" /\ run.id \in late)
  <2>1. current = run
    BY <1>2 DEF current, Seen
  <2>2. QED
    BY <2>1 DEF JourneyInv, TypeOK
<1>3. QED
  BY <1>1, <1>2

(* A command that finds the run and does no more to it. *)
LEMMA Found ==
    ASSUME JourneyInv, run' = current, runs' = runs
    PROVE  run' \in Run \cup {None} /\ RunSound(run)' /\ (Keeps \/ Ends)
<1>1. RunSound(run)' <=> RunSound(current)
  BY DEF RunSound, Sound, InProgress, Awaiting, Over
<1>2. "unavailable" # None /\ "unavailable" # "success"
  BY JourneyAssumption DEF Result
<1>3. QED
  BY <1>1, <1>2, CurrentRun DEF Keeps, Ends

(* The commandIds stay a sequence of them. *)
LEMMA Recorded ==
    ASSUME history \in Seq(Command), NEW c \in Command, Record(c)
    PROVE  history' \in Seq(Command)
<1>1. Append(history, c) \in Seq(Command) /\ Append(history, c) # <<>>
  BY AppendProperties
<1>2. Tail(Append(history, c)) \in Seq(Command)
  BY <1>1, HeadTailProperties
<1>3. QED
  BY <1>1, <1>2 DEF Record


(* A run that is set to a sound one. *)
LEMMA Landed ==
    ASSUME NEW r \in Run, Sound(r), run' = r, r.id = runs'
    PROVE  run' \in Run \cup {None} /\ run' # None /\ RunSound(run)'
<1>1. r # None
  BY JourneyAssumption
<1>2. Sound(run)' <=> Sound(r)
  BY DEF Sound, InProgress, Awaiting, Over
<1>3. QED
  BY <1>1, <1>2 DEF RunSound

(* A command leaves the rest of the state well typed. *)
LEMMA CommandKeeps ==
    ASSUME JourneyInv, NEW c \in Command, Record(c),
           run' \in Run \cup {None}, RunSound(run)', runs' \in 0..MaxRuns,
           http' \in [RunId -> {"none", "sent", "over"}],
           UNCHANGED <<mode, redeploys, late, inbox>>
    PROVE  JourneyInv'
<1>1. history' \in Seq(Command)
  BY Recorded DEF JourneyInv, TypeOK
<1>2. TypeOK'
  BY <1>1 DEF JourneyInv, TypeOK
<1>3. QED
  BY <1>2 DEF JourneyInv

LEMMA Verdicts ==
    ASSUME NEW status \in {"Pass", "Fail", "Unavailable", "Skipped"}
    PROVE  /\ Verdict(status) \in Result /\ Verdict(status) # None
           /\ Verdict(status) = "success" => status = "Pass"
<1>1. status = "Pass" => Verdict(status) = "success"
  BY DEF Verdict
<1>2. status = "Unavailable" => Verdict(status) = "unavailable"
  BY DEF Verdict
<1>3. status # "Pass" /\ status # "Unavailable" => Verdict(status) = "failure"
  BY DEF Verdict
<1>4. Verdict(status) \in {"success", "unavailable", "failure"}
  BY <1>1, <1>2, <1>3
<1>5. Verdict(status) = "success" => status = "Pass"
  BY <1>1, <1>2, <1>3
<1>6. QED
  BY <1>4, <1>5, JourneyAssumption DEF Result

-----------------------------------------------------------------------------
(* start *)

LEMMA StartedRun ==
    ASSUME runs \in Nat, runs < MaxRuns, NEW p \in Plan
    PROVE  LET r == NewRun(p)
           IN  /\ r \in Run /\ r.id = runs + 1 /\ r.plan = p /\ r.step = Started[p]
               /\ r.request = "none" /\ r.result = None /\ r.completed = 0
               /\ Len(r.checks) = Steps(p)
               /\ \A i \in 1..Steps(p) :
                     r.checks[i] = IF i <= Started[p] THEN Expected[p][i] ELSE "Not evaluated"
<1> DEFINE n == Steps(p)
           r == NewRun(p)
           s == [i \in 1..n |-> IF i <= Started[p] THEN Expected[p][i] ELSE "Not evaluated"]
           http0 == mode = "http-sample" /\ p \notin Local
<1>1. n \in Nat /\ Started[p] \in Nat /\ runs + 1 \in RunId
  BY PlanFacts, JourneyAssumption DEF RunId
<1>2. \A i \in 1..n : s[i] \in Status
  BY PlanFacts DEF Status
<1>3. s \in Seq(Status) /\ Len(s) = n
  <2> HIDE DEF n
  <2>1. s \in [1..n -> Status] /\ DOMAIN s = 1..n
    BY <1>2
  <2> HIDE DEF s
  <2>2. s \in Seq(Status)
    BY <1>1, <2>1, IsASeq
  <2>3. QED
    BY <1>1, <2>1, <2>2, LenProperties
<1>4. \A i \in 1..n : s[i] = IF i <= Started[p] THEN Expected[p][i] ELSE "Not evaluated"
  OBVIOUS
<1>5. r = [id |-> runs + 1, plan |-> p, overHttp |-> http0, step |-> Started[p],
           request |-> "none", result |-> None, completed |-> 0, checks |-> s]
  BY DEF NewRun
<1>6. http0 \in BOOLEAN
  OBVIOUS
<1> DEFINE k == runs + 1
<1> HIDE DEF s, http0, k, n, r
<1>7. /\ r \in Run /\ r.id = k /\ r.plan = p /\ r.step = Started[p] /\ r.checks = s
      /\ r.request = "none" /\ r.result = None /\ r.completed = 0
  BY <1>1, <1>3, <1>5, <1>6 DEF Run, k
<1>8. QED
  BY <1>3, <1>4, <1>7 DEF k, n, r

LEMMA StartKeeps ==
    ASSUME JourneyInv, NEW c \in Command, NEW p \in Plan, Start(c, p)
    PROVE  JourneyInv' /\ Starts
<1> DEFINE n == Steps(p)
           r == NewRun(p)
           status == Last(Expected[p])
           f == Finished(r, Verdict(status))
<1>1. runs \in Nat /\ runs < MaxRuns /\ runs' = runs + 1 /\ runs' \in 0..MaxRuns
  BY JourneyAssumption DEF JourneyInv, TypeOK, Start
<1>2. /\ r \in Run /\ r.id = runs' /\ r.plan = p /\ r.step = Started[p]
      /\ r.request = "none" /\ r.result = None /\ r.completed = 0 /\ Len(r.checks) = n
      /\ \A i \in 1..n : r.checks[i] = IF i <= Started[p] THEN Expected[p][i]
                                       ELSE "Not evaluated"
  BY <1>1, StartedRun
<1>3. /\ n \in Nat /\ n <= MaxSteps /\ Started[p] \in 1..n /\ status = Expected[p][n]
      /\ status \in {"Pass", "Fail", "Unavailable", "Skipped"}
      /\ \A i \in 1..n : Expected[p][i] \in {"Pass", "Fail", "Unavailable", "Skipped"}
  BY PlanFacts
<1>4. MaxSteps \in Nat /\ Record(c) /\ Free /\ UNCHANGED <<mode, redeploys, http, late, inbox>>
  BY JourneyAssumption DEF Start
<1>5. http' \in [RunId -> {"none", "sent", "over"}]
  BY <1>4 DEF JourneyInv, TypeOK
<1> HIDE DEF r, status
<1>6. CASE Started[p] = n
  <2>1. run' = f
    BY <1>6 DEF Start, r, status
  <2>2. p \in Atlas
    BY <1>6, SampleFacts
  <2>3. /\ Verdict(status) \in Result /\ Verdict(status) # None
        /\ Verdict(status) = "success" => status = "Pass"
    BY <1>3, Verdicts
  <2>4. /\ f \in Run /\ f.result = Verdict(status) /\ f.completed = 1 /\ f.id = runs'
        /\ f.plan = p /\ f.step = n /\ f.checks = r.checks /\ f.request = "none"
    BY <1>2, <1>6, <2>3, FinishedRun
  <2> HIDE DEF f
  <2>5. \A i \in 1..n : r.checks[i] = Expected[p][i]
    BY <1>2, <1>3, <1>6
  <2>6. Verdict(status) = "success" => \A i \in 1..n : Expected[p][i] = "Pass"
    BY <1>3, <2>2, <2>3, AtlasFacts
  <2>7. Over(f)
    <3>1. \A i \in 1..n : f.checks[i] = Expected[p][i]
      BY <2>4, <2>5
    <3>2. \A i \in 1..n : f.checks[i] \notin {"Not evaluated", "Pending"}
      BY <1>3, <3>1
    <3>3. f.result = "success" => \A i \in 1..n : f.checks[i] = "Pass"
      BY <2>4, <2>6, <3>1
    <3> HIDE DEF n
    <3>4. n = Steps(f.plan)
      BY <2>4 DEF n
    <3>5. QED
      BY <2>3, <2>4, <3>2, <3>3, <3>4 DEF Over
  <2>8. Sound(f)
    BY <1>2, <1>3, <1>6, <2>3, <2>4, <2>7 DEF Sound
  <2>9. run' \in Run \cup {None} /\ run' # None /\ RunSound(run)'
    BY <2>1, <2>4, <2>8, Landed
  <2>10. QED
    BY <1>1, <1>4, <1>5, <2>1, <2>3, <2>4, <2>9, CommandKeeps DEF Starts
<1>7. CASE Started[p] # n
  <2>1. run' = r
    BY <1>7 DEF Start, r
  <2>2. p \notin Atlas => Started[p] = 1 /\ Expected[p][1] = "Pass"
    BY SampleFacts
  <2>3. InProgress(r)
    <3>1. /\ Started[p] < n
          /\ \A i \in 1..Started[p] : i \in 1..n /\ i <= Started[p]
      BY <1>3, <1>7
    <3>2. \A i \in 1..Started[p] : r.checks[i] = Expected[p][i]
      BY <1>2, <3>1
    <3>3. p \notin Atlas => \A i \in 1..Started[p] : r.checks[i] = "Pass"
      <4>1. \A i \in 1..1 : i = 1
        OBVIOUS
      <4>2. QED
        BY <2>2, <3>2, <4>1
    <3>4. QED
      BY <1>2, <3>1, <3>2, <3>3 DEF InProgress
  <2>4. Sound(r)
    BY <1>2, <1>3, <2>3 DEF Sound
  <2>5. run' \in Run \cup {None} /\ run' # None /\ RunSound(run)'
    BY <1>2, <2>1, <2>4, Landed
  <2>6. Started[p] \in 1..MaxSteps
    BY <1>3, <1>4
  <2>7. QED
    BY <1>1, <1>2, <1>4, <1>5, <2>1, <2>5, <2>6, CommandKeeps DEF Starts
<1>8. QED
  BY <1>6, <1>7


-----------------------------------------------------------------------------
(* next *)

LEMMA ActiveRun ==
    ASSUME JourneyInv, NEW c \in Command, Active(c)
    PROVE  /\ current = run /\ run \in Run /\ run # None /\ run.id = runs
           /\ InProgress(run) /\ run.completed = 0
           /\ run.plan \in Plan /\ Steps(run.plan) \in Nat /\ Steps(run.plan) <= MaxSteps
           /\ Len(run.checks) = Steps(run.plan)
           /\ run.step \in Nat /\ next = run.step + 1 /\ next \in 1..Steps(run.plan)
           /\ Record(c) /\ runs \in 0..MaxRuns
<1>1. /\ current # None /\ current.result = None /\ current.request # "pending" /\ Record(c)
  BY DEF Active
<1>2. current = run
  BY <1>1, CurrentRun, JourneyAssumption DEF Result
<1>3. run # None /\ run \in Run /\ run.id = runs /\ Sound(run) /\ runs \in 0..MaxRuns
  BY <1>1, <1>2 DEF JourneyInv, TypeOK, RunSound
<1>4. InProgress(run)
  BY <1>1, <1>2, <1>3 DEF Sound, Awaiting, Over
<1>5. /\ run.completed = 0 /\ run.step \in 1..Steps(run.plan) /\ run.step < Steps(run.plan)
      /\ Len(run.checks) = Steps(run.plan)
  BY <1>1, <1>2, <1>3, <1>4 DEF Sound, InProgress
<1>6. run.plan \in Plan
  BY <1>3 DEF Run
<1>7. Steps(run.plan) \in Nat /\ Steps(run.plan) <= MaxSteps
  BY <1>6, PlanFacts
<1>8. run.step \in Nat /\ next = run.step + 1 /\ next \in 1..Steps(run.plan)
  BY <1>2, <1>5, <1>7 DEF next
<1>9. QED
  BY <1>1, <1>2, <1>3, <1>4, <1>5, <1>6, <1>7, <1>8

(* A step of an active run. *)
LEMMA StepKeeps ==
    ASSUME JourneyInv, NEW c \in Command, Active(c),
           NEW u \in Run, Sound(u), u.id = run.id, run' = u, runs' = runs,
           u.result = None /\ u.request # "pending" => u.step = next,
           http' \in [RunId -> {"none", "sent", "over"}],
           UNCHANGED <<mode, redeploys, late, inbox>>
    PROVE  JourneyInv' /\ Advances
<1>1. /\ run # None /\ run.id = runs /\ InProgress(run) /\ Record(c) /\ runs \in 0..MaxRuns
      /\ run.step \in Nat /\ next = run.step + 1
      /\ next \in 1..Steps(run.plan) /\ Steps(run.plan) \in Nat /\ Steps(run.plan) <= MaxSteps
  BY ActiveRun
<1>2. run' \in Run \cup {None} /\ run' # None /\ RunSound(run)'
  BY <1>1, Landed
<1>3. JourneyInv'
  BY <1>1, <1>2, CommandKeeps
<1>4. MaxSteps \in Nat /\ run.step < MaxSteps
  BY <1>1, JourneyAssumption
<1>5. Advances
  BY <1>1, <1>2, <1>4 DEF Advances, InProgress
<1>6. QED
  BY <1>3, <1>5

(* The next step is evaluated. *)
LEMMA EvaluatedRun ==
    ASSUME JourneyInv, NEW c \in Command, Active(c)
    PROVE  /\ Evaluated \in Run /\ Evaluated.id = run.id /\ Evaluated.plan = run.plan
           /\ Evaluated.step = next /\ Evaluated.request = "none" /\ Evaluated.result = None
           /\ Evaluated.completed = 0 /\ Len(Evaluated.checks) = Steps(run.plan)
           /\ \A i \in 1..next : Evaluated.checks[i] = Expected[run.plan][i]
           /\ run.plan \notin Atlas => \A i \in 1..run.step : Evaluated.checks[i] = "Pass"
<1> DEFINE n == Steps(run.plan)
           status == Expected[run.plan][next]
           u == [run EXCEPT !.checks[next] = status]
           e == Evaluated
<1>1. /\ current = run /\ run \in Run /\ InProgress(run) /\ run.completed = 0
      /\ run.plan \in Plan /\ n \in Nat /\ Len(run.checks) = n
      /\ run.step \in Nat /\ next = run.step + 1 /\ next \in 1..n
  BY ActiveRun
<1>2. status \in Status
  BY <1>1, PlanFacts DEF Status
<1> HIDE DEF status, n
<1>3. /\ u \in Run /\ Len(u.checks) = n
      /\ \A j \in 1..n : u.checks[j] = IF j = next THEN status ELSE run.checks[j]
      /\ u.id = run.id /\ u.plan = run.plan /\ u.completed = 0
      /\ u.request = "none" /\ u.result = None
  BY <1>1, <1>2, CheckSet DEF InProgress
<1>4. e = [u EXCEPT !.step = next]
  BY <1>1 DEF Evaluated, Run, status
<1>5. next \in Nat
  BY <1>1
<1> HIDE DEF u, e
<1>6. /\ e \in Run /\ e.step = next /\ e.checks = u.checks
      /\ e.id = run.id /\ e.plan = run.plan /\ e.completed = 0
      /\ e.request = "none" /\ e.result = None
  BY <1>3, <1>4, <1>5 DEF Run
<1>7. \A i \in 1..next : i \in 1..n /\ (i # next => i \in 1..run.step)
  BY <1>1
<1>8. \A i \in 1..run.step : i \in 1..n /\ i # next
  BY <1>1
<1>9. \A i \in 1..next : e.checks[i] = Expected[run.plan][i]
  BY <1>1, <1>3, <1>6, <1>7 DEF InProgress, status
<1>10. run.plan \notin Atlas => \A i \in 1..run.step : e.checks[i] = "Pass"
  BY <1>1, <1>3, <1>6, <1>8 DEF InProgress
<1>11. QED
  BY <1>3, <1>6, <1>9, <1>10 DEF e, n

(* It was not the last. *)
LEMMA GoesOn ==
    ASSUME JourneyInv, NEW c \in Command, Active(c), ~AtLast,
           OfAtlas \/ Expected[run.plan][next] = "Pass",
           run' = Evaluated, runs' = runs, UNCHANGED <<mode, redeploys, http, late, inbox>>
    PROVE  JourneyInv' /\ Advances
<1> DEFINE n == Steps(run.plan)
           e == Evaluated
<1>1. /\ current = run /\ n \in Nat /\ next \in 1..n /\ next = run.step + 1 /\ run.step \in Nat
  BY ActiveRun
<1>2. /\ e \in Run /\ e.id = run.id /\ e.plan = run.plan
      /\ e.step = next /\ e.request = "none" /\ e.result = None
      /\ e.completed = 0 /\ Len(e.checks) = n
      /\ \A i \in 1..next : e.checks[i] = Expected[run.plan][i]
      /\ run.plan \notin Atlas => \A i \in 1..run.step : e.checks[i] = "Pass"
  BY EvaluatedRun
<1> HIDE DEF n, e
<1>3. next < n /\ next \in 1..next /\ \A i \in 1..next : i # next => i \in 1..run.step
  BY <1>1 DEF AtLast, n
<1>4. run.plan \notin Atlas => \A i \in 1..next : e.checks[i] = "Pass"
  BY <1>1, <1>2, <1>3 DEF OfAtlas
<1>5. InProgress(e)
  BY <1>2, <1>3, <1>4 DEF InProgress, n
<1>6. Sound(e)
  BY <1>1, <1>2, <1>5 DEF Sound, n
<1>7. run' = e /\ http' \in [RunId -> {"none", "sent", "over"}]
  BY DEF e, JourneyInv, TypeOK
<1>8. QED
  BY <1>2, <1>6, <1>7, StepKeeps

(* It ends the run. *)
LEMMA ComesToItsEnd ==
    ASSUME JourneyInv, NEW c \in Command, Active(c),
           NEW e \in Run, e.id = run.id, e.plan = run.plan, e.step = next,
           e.request = "none", e.completed = 0, Len(e.checks) = Steps(run.plan),
           NEW result \in Result, result # None,
           \A i \in 1..Steps(run.plan) : e.checks[i] \notin {"Not evaluated", "Pending"},
           result = "success" => \A i \in 1..Steps(run.plan) : e.checks[i] = "Pass",
           run' = Finished(e, result), runs' = runs,
           UNCHANGED <<mode, redeploys, http, late, inbox>>
    PROVE  JourneyInv' /\ Advances
<1> DEFINE f == Finished(e, result)
<1>1. /\ f \in Run /\ f.result = result /\ f.completed = 1 /\ f.id = run.id
      /\ f.plan = run.plan /\ f.step = next /\ f.checks = e.checks /\ f.request = "none"
  <2>1. /\ f \in Run /\ f.result = result /\ f.completed = e.completed + 1 /\ f.id = e.id
        /\ f.plan = e.plan /\ f.step = e.step /\ f.checks = e.checks
        /\ f.request = e.request
    BY FinishedRun
  <2> HIDE DEF f
  <2>2. f.completed = 1
    BY ONLY <2>1, e.completed = 0
  <2>3. QED
    BY <2>1, <2>2
<1>2. run' = f
  OBVIOUS
<1> HIDE DEF f
<1>3. Over(f)
  BY <1>1 DEF Over
<1>4. next \in 1..Steps(run.plan)
  BY ActiveRun
<1>5. Sound(f)
  BY <1>1, <1>3, <1>4 DEF Sound
<1>6. http' \in [RunId -> {"none", "sent", "over"}]
  BY DEF JourneyInv, TypeOK
<1>7. QED
  BY <1>1, <1>2, <1>5, <1>6, StepKeeps


LEMMA NextAtlasKeeps ==
    ASSUME JourneyInv, NEW c \in Command, NextAtlas(c)
    PROVE  JourneyInv' /\ Advances
<1> DEFINE n == Steps(run.plan)
           e == Evaluated
           status == Expected[run.plan][next]
<1>1. Active(c) /\ OfAtlas /\ runs' = runs /\ UNCHANGED <<mode, redeploys, http, late, inbox>>
  BY DEF NextAtlas
<1>2. /\ current = run /\ n \in Nat /\ next \in 1..n /\ next = run.step + 1 /\ run.step \in Nat
      /\ run.plan \in Plan
  BY <1>1, ActiveRun
<1>3. CASE ~AtLast
  BY <1>1, <1>3, GoesOn DEF NextAtlas
<1>4. CASE AtLast
  <2>1. run' = Finished(e, Verdict(status)) /\ next = n
    BY <1>2, <1>4 DEF NextAtlas, AtLast
  <2>2. /\ status \in {"Pass", "Fail", "Unavailable", "Skipped"}
        /\ \A i \in 1..n : Expected[run.plan][i] \in {"Pass", "Fail", "Unavailable", "Skipped"}
    BY <1>2, PlanFacts
  <2>3. run.plan \in Atlas
    BY <1>1, <1>2 DEF OfAtlas
  <2>4. status = "Pass" => \A i \in 1..n : Expected[run.plan][i] = "Pass"
    BY <2>1, <2>3, AtlasFacts
  <2>5. /\ Verdict(status) \in Result /\ Verdict(status) # None
        /\ Verdict(status) = "success" => status = "Pass"
    BY <2>2, Verdicts
  <2>6. /\ e \in Run /\ e.id = run.id /\ e.plan = run.plan
        /\ e.step = next /\ e.request = "none" /\ e.completed = 0 /\ Len(e.checks) = n
        /\ \A i \in 1..n : e.checks[i] = Expected[run.plan][i]
    BY <1>1, <2>1, EvaluatedRun
  <2> HIDE DEF e, status
  <2>7. \A i \in 1..n : e.checks[i] \notin {"Not evaluated", "Pending"}
    BY <2>2, <2>6
  <2>8. Verdict(status) = "success" => \A i \in 1..n : e.checks[i] = "Pass"
    BY <2>4, <2>5, <2>6
  <2>9. QED
    BY <1>1, <2>1, <2>5, <2>6, <2>7, <2>8, ComesToItsEnd
<1>5. QED
  BY <1>3, <1>4

LEMMA NextSampleKeeps ==
    ASSUME JourneyInv, NEW c \in Command, NextSample(c)
    PROVE  JourneyInv' /\ Advances
<1> DEFINE n == Steps(run.plan)
           e == Evaluated
<1>1. /\ Active(c) /\ ~OfAtlas /\ runs' = runs
      /\ UNCHANGED <<mode, redeploys, http, late, inbox>>
      /\ Expected[current.plan][next] = "Pass"
  BY DEF NextSample
<1>2. /\ current = run /\ n \in Nat /\ next \in 1..n /\ next = run.step + 1 /\ run.step \in Nat
  BY <1>1, ActiveRun
<1>3. CASE ~AtLast
  BY <1>1, <1>2, <1>3, GoesOn DEF NextSample
<1>4. CASE AtLast
  <2>1. run' = Finished(e, "success") /\ next = n
    BY <1>2, <1>4 DEF NextSample, AtLast
  <2>2. run.plan \notin Atlas
    BY <1>1, <1>2 DEF OfAtlas
  <2>3. "success" \in Result /\ "success" # None
    BY JourneyAssumption DEF Result
  <2>4. /\ e \in Run /\ e.id = run.id /\ e.plan = run.plan
        /\ e.step = next /\ e.request = "none" /\ e.completed = 0 /\ Len(e.checks) = n
        /\ \A i \in 1..n : e.checks[i] = Expected[run.plan][i]
        /\ \A i \in 1..run.step : e.checks[i] = "Pass"
    BY <1>1, <2>1, <2>2, EvaluatedRun
  <2> HIDE DEF e
  <2>5. \A i \in 1..n : i # next => i \in 1..run.step
    BY <1>2, <2>1
  <2>6. \A i \in 1..n : e.checks[i] = "Pass"
    BY <1>1, <1>2, <2>4, <2>5
  <2>7. \A i \in 1..n : e.checks[i] \notin {"Not evaluated", "Pending"}
    BY <2>6
  <2>8. QED
    BY <1>1, <2>1, <2>3, <2>4, <2>6, <2>7, ComesToItsEnd
<1>5. QED
  BY <1>3, <1>4

LEMMA NextSampleFailsKeeps ==
    ASSUME JourneyInv, NEW c \in Command, NextSampleFails(c)
    PROVE  JourneyInv' /\ Advances
<1> DEFINE n == Steps(run.plan)
           status == Expected[run.plan][next]
           skipped == [i \in 1..n |-> IF i > next THEN "Skipped" ELSE Evaluated.checks[i]]
           e == [Evaluated EXCEPT !.checks = skipped]
<1>1. /\ Active(c) /\ runs' = runs /\ UNCHANGED <<mode, redeploys, http, late, inbox>>
      /\ Expected[current.plan][next] # "Pass"
  BY DEF NextSampleFails
<1>2. /\ current = run /\ n \in Nat /\ next \in 1..n /\ run.plan \in Plan
  BY <1>1, ActiveRun
<1>3. run' = Finished(e, Verdict(status))
  BY <1>2 DEF NextSampleFails
<1>4. /\ Evaluated \in Run /\ Evaluated.id = run.id /\ Evaluated.plan = run.plan
      /\ Evaluated.step = next /\ Evaluated.request = "none" /\ Evaluated.completed = 0
      /\ Evaluated.checks \in Seq(Status) /\ Len(Evaluated.checks) = n
      /\ \A i \in 1..next : Evaluated.checks[i] = Expected[run.plan][i]
  BY <1>1, EvaluatedRun DEF Run
<1>5. \A i \in 1..n : Expected[run.plan][i] \in {"Pass", "Fail", "Unavailable", "Skipped"}
  BY <1>2, PlanFacts
<1>6. ASSUME NEW i \in 1..n
      PROVE  skipped[i] \in {"Pass", "Fail", "Unavailable", "Skipped"}
  <2>1. CASE i > next
    BY <2>1
  <2>2. CASE ~(i > next)
    <3>1. i \in 1..next
      BY <1>2, <2>2
    <3>2. skipped[i] = Expected[run.plan][i]
      BY <1>4, <2>2, <3>1
    <3>3. QED
      BY <1>5, <3>2
  <2>3. QED
    BY <2>1, <2>2
<1>7. skipped \in Seq(Status) /\ Len(skipped) = n
  <2> HIDE DEF n
  <2>1. DOMAIN skipped = 1..n /\ skipped = [i \in 1..n |-> skipped[i]]
    OBVIOUS
  <2> HIDE DEF skipped
  <2>2. \A i \in 1..n : skipped[i] \in Status
    BY <1>6 DEF Status
  <2>3. skipped \in [1..n -> Status]
    BY <2>1, <2>2
  <2>4. skipped \in Seq(Status)
    BY <1>2, <2>3, IsASeq
  <2>5. QED
    BY <1>2, <2>1, <2>4, LenProperties
<1>8. status # "Pass" /\ status \in {"Pass", "Fail", "Unavailable", "Skipped"}
  BY <1>1, <1>2, <1>5
<1> HIDE DEF skipped, status, n
<1>9. /\ e \in Run /\ e.checks = skipped
      /\ e.id = run.id /\ e.plan = run.plan
      /\ e.step = next /\ e.request = "none" /\ e.completed = 0
  BY <1>4, <1>7 DEF Run
<1> HIDE DEF e
<1>10. \A i \in 1..n : e.checks[i] \notin {"Not evaluated", "Pending"}
  BY <1>6, <1>9
<1>11. /\ Verdict(status) \in Result /\ Verdict(status) # None /\ Verdict(status) # "success"
  BY <1>8, Verdicts
<1>12. Len(e.checks) = Steps(run.plan)
  BY <1>7, <1>9 DEF n
<1>13. QED
  BY <1>1, <1>3, <1>9, <1>10, <1>11, <1>12, ComesToItsEnd DEF n

LEMMA NextPendingKeeps ==
    ASSUME JourneyInv, NEW c \in Command, NextPending(c)
    PROVE  JourneyInv' /\ Advances
<1> DEFINE n == Steps(run.plan)
           v == [run EXCEPT !.checks[next] = "Pending"]
           u == [run EXCEPT !.step = next, !.checks[next] = "Pending", !.request = "pending"]
<1>1. /\ Active(c) /\ runs' = runs /\ UNCHANGED <<mode, redeploys, late, inbox>>
      /\ http' = [http EXCEPT ![current.id] = "sent"] /\ ByHttp
  BY DEF NextPending
<1>2. /\ current = run /\ run \in Run /\ InProgress(run) /\ run.completed = 0
      /\ run.plan \in Plan /\ n \in Nat /\ Len(run.checks) = n
      /\ run.step \in Nat /\ next = run.step + 1 /\ next \in 1..n
  BY <1>1, ActiveRun
<1>3. run' = u /\ next = n /\ Expected[run.plan][n] = "Pass"
  BY <1>1, <1>2 DEF NextPending, ByHttp, AtLast
<1>4. "Pending" \in Status
  BY DEF Status
<1>5. /\ v \in Run /\ Len(v.checks) = n
      /\ \A j \in 1..n : v.checks[j] = IF j = next THEN "Pending" ELSE run.checks[j]
      /\ v.id = run.id /\ v.plan = run.plan /\ v.completed = 0
      /\ v.request = "none" /\ v.result = None
  BY <1>2, <1>4, CheckSet DEF InProgress
<1>6. u = [v EXCEPT !.step = next, !.request = "pending"]
  BY <1>2 DEF Run
<1>7. next \in Nat
  BY <1>2
<1> HIDE DEF u, v, n
<1>8. /\ u \in Run /\ u.step = next /\ u.checks = v.checks /\ u.id = run.id
      /\ u.plan = run.plan /\ u.completed = 0 /\ u.request = "pending" /\ u.result = None
  BY <1>5, <1>6, <1>7 DEF Run
<1>9. \A i \in 1..(n - 1) : i \in 1..run.step /\ i \in 1..n /\ i # next
  BY <1>2, <1>3
<1>10. \A i \in 1..run.step : run.checks[i] = "Pass"
  <2>1. \A i \in 1..run.step : i \in 1..n
    BY <1>2
  <2>2. run.plan \in Atlas => \A i \in 1..n : Expected[run.plan][i] = "Pass"
    BY <1>3, AtlasFacts DEF n
  <2>3. QED
    BY <1>2, <2>1, <2>2 DEF InProgress
<1>11. \A i \in 1..(n - 1) : u.checks[i] = "Pass"
  BY <1>5, <1>8, <1>9, <1>10
<1>12. Awaiting(u)
  BY <1>8, <1>11 DEF Awaiting, n
<1>13. Sound(u)
  BY <1>2, <1>5, <1>8, <1>12 DEF Sound, n
<1>14. http' \in [RunId -> {"none", "sent", "over"}]
  BY <1>1 DEF JourneyInv, TypeOK
<1>15. QED
  BY <1>1, <1>3, <1>8, <1>13, <1>14, StepKeeps

-----------------------------------------------------------------------------
(* The other commands. *)

LEMMA LookKeeps ==
    ASSUME JourneyInv, Look
    PROVE  JourneyInv' /\ (Keeps \/ Ends)
<1>1. run' \in Run \cup {None} /\ RunSound(run)' /\ (Keeps \/ Ends)
  BY Found DEF Look
<1>2. TypeOK'
  BY <1>1 DEF JourneyInv, TypeOK, Look
<1>3. QED
  BY <1>1, <1>2 DEF JourneyInv

LEMMA RejectKeeps ==
    ASSUME JourneyInv, NEW c \in Command, Reject(c)
    PROVE  JourneyInv' /\ (Keeps \/ Ends)
<1>1. run' \in Run \cup {None} /\ RunSound(run)' /\ (Keeps \/ Ends)
  BY Found DEF Reject
<1>2. /\ Record(c) /\ runs' \in 0..MaxRuns /\ http' \in [RunId -> {"none", "sent", "over"}]
      /\ UNCHANGED <<mode, redeploys, late, inbox>>
  BY DEF Reject, JourneyInv, TypeOK
<1>3. QED
  BY <1>1, <1>2, CommandKeeps

LEMMA ResetKeeps ==
    ASSUME JourneyInv, NEW c \in Command, Reset(c)
    PROVE  JourneyInv' /\ Resets
<1>1. run' = None /\ RunSound(run)' /\ Resets
  BY DEF Reset, RunSound, Resets
<1>2. /\ Record(c) /\ runs' \in 0..MaxRuns /\ http' \in [RunId -> {"none", "sent", "over"}]
      /\ UNCHANGED <<mode, redeploys, late, inbox>>
  BY DEF Reset, JourneyInv, TypeOK
<1>3. QED
  BY <1>1, <1>2, CommandKeeps

-----------------------------------------------------------------------------
(* The sample request. *)

(* A step that leaves the run alone. *)
LEMMA RunKept ==
    ASSUME JourneyInv, run' = run, runs' = runs, TypeOK'
    PROVE  JourneyInv' /\ Keeps
<1>1. RunSound(run)'
  BY DEF JourneyInv, RunSound, Sound, InProgress, Awaiting, Over
<1>2. QED
  BY <1>1 DEF JourneyInv, Keeps

LEMMA RequestKeeps ==
    ASSUME JourneyInv, NEW r \in RunId,
           \/ \E outcome \in Outcome : Respond(r, outcome)
           \/ TransportFails(r) \/ DeadlinePasses(r)
    PROVE  JourneyInv' /\ Keeps
<1>1. "unavailable" \in Outcome /\ "error" \in Outcome
  BY DEF Outcome
<1>2. ASSUME NEW outcome \in Outcome, Respond(r, outcome) PROVE JourneyInv' /\ Keeps
  <2>1. TypeOK'
    BY <1>2 DEF JourneyInv, TypeOK, Respond
  <2>2. QED
    BY <1>2, <2>1, RunKept DEF Respond
<1>3. CASE TransportFails(r)
  <2>1. TypeOK'
    BY <1>1, <1>3 DEF JourneyInv, TypeOK, TransportFails
  <2>2. QED
    BY <1>3, <2>1, RunKept DEF TransportFails
<1>4. CASE DeadlinePasses(r)
  <2>1. TypeOK'
    BY <1>4 DEF JourneyInv, TypeOK, DeadlinePasses
  <2>2. QED
    BY <1>4, <2>1, RunKept DEF DeadlinePasses
<1>5. QED
  BY <1>2, <1>3, <1>4

LEMMA CompleteKeeps ==
    ASSUME JourneyInv, NEW m \in [run : RunId, outcome : Outcome], Complete(m)
    PROVE  JourneyInv' /\ (Keeps \/ Ends)
<1> DEFINE u == Answered(run, InTime(m))
<1>1. /\ m \in inbox /\ inbox' = inbox \ {m} /\ runs' = runs
      /\ UNCHANGED <<runs, history, mode, redeploys, http, late>>
  BY DEF Complete
<1>2. CASE Waiting(m.run)
  <2>1. run' = u /\ run # None /\ run.id = m.run /\ run.request = "pending"
    BY <1>2 DEF Complete, Answered, Waiting
  <2>2. run \in Run /\ Sound(run) /\ run.id = runs
    BY <2>1 DEF JourneyInv, TypeOK, RunSound
  <2>3. /\ InTime(m) \in Outcome
        /\ InTime(m) = "success" => m.run \notin late /\ m.outcome = "success"
    BY DEF InTime, Outcome
  <2>4. /\ u \in Run /\ Sound(u) /\ u.id = run.id /\ u.result = InTime(m)
    BY <2>1, <2>2, <2>3, AnsweredRun
  <2>5. InTime(m) # None
    BY <2>3, JourneyAssumption DEF Outcome, Result
  <2> HIDE DEF u
  <2>6. run' \in Run \cup {None} /\ run' # None /\ RunSound(run)'
    BY <1>1, <2>1, <2>2, <2>4, Landed
  <2>7. TypeOK'
    BY <1>1, <2>6 DEF JourneyInv, TypeOK
  <2>8. m = [run |-> m.run, outcome |-> m.outcome]
    OBVIOUS
  <2>9. Ends
    BY <1>1, <2>1, <2>3, <2>4, <2>5, <2>6, <2>8 DEF Ends
  <2>10. QED
    BY <2>6, <2>7, <2>9 DEF JourneyInv
<1>3. CASE ~Waiting(m.run)
  <2>1. run' = run
    BY <1>3 DEF Complete
  <2>2. TypeOK'
    BY <1>1, <2>1 DEF JourneyInv, TypeOK
  <2>3. QED
    BY <1>1, <2>1, <2>2, RunKept
<1>4. QED
  BY <1>2, <1>3

LEMMA RedeployKeeps ==
    ASSUME JourneyInv, NEW m \in Mode, NEW lost \in SUBSET RunId, Redeploy(m, lost)
    PROVE  JourneyInv' /\ Keeps
<1>1. http' \in [RunId -> {"none", "sent", "over"}]
  BY DEF Redeploy, JourneyInv, TypeOK
<1>2. redeploys' \in 0..MaxRedeploys
  BY JourneyAssumption DEF Redeploy, JourneyInv, TypeOK
<1>3. TypeOK'
  BY <1>1, <1>2 DEF JourneyInv, TypeOK, Redeploy
<1>4. QED
  BY <1>3, RunKept DEF Redeploy

-----------------------------------------------------------------------------
(* Every step is of a kind, and keeps the invariant. *)

LEMMA JourneyInit == Init => JourneyInv
<1> SUFFICES ASSUME Init PROVE JourneyInv
  OBVIOUS
<1>1. history \in Seq(Command)
  BY EmptySeq DEF Init
<1>2. runs \in 0..MaxRuns /\ redeploys \in 0..MaxRedeploys
  BY JourneyAssumption DEF Init
<1>3. QED
  BY <1>1, <1>2 DEF Init, JourneyInv, TypeOK, RunSound

LEMMA JourneyNext ==
    ASSUME JourneyInv, [Next]_vars
    PROVE  JourneyInv' /\ Kind
<1>1. CASE Look
  BY <1>1, LookKeeps DEF Kind
<1>2. ASSUME NEW c \in Command,
             \/ Reject(c) \/ Reset(c)
             \/ \E p \in Plan : Start(c, p)
             \/ NextPending(c) \/ NextAtlas(c) \/ NextSample(c) \/ NextSampleFails(c)
      PROVE  JourneyInv' /\ Kind
  BY <1>2, RejectKeeps, ResetKeeps, StartKeeps, NextPendingKeeps, NextAtlasKeeps,
     NextSampleKeeps, NextSampleFailsKeeps DEF Kind
<1>3. ASSUME NEW r \in RunId,
             \/ \E outcome \in Outcome : Respond(r, outcome)
             \/ TransportFails(r) \/ DeadlinePasses(r)
      PROVE  JourneyInv' /\ Kind
  BY <1>3, RequestKeeps DEF Kind
<1>4. ASSUME NEW m \in [run : RunId, outcome : Outcome], Complete(m)
      PROVE  JourneyInv' /\ Kind
  BY <1>4, CompleteKeeps DEF Kind
<1>5. ASSUME NEW m \in Mode, NEW lost \in SUBSET RunId, Redeploy(m, lost)
      PROVE  JourneyInv' /\ Kind
  BY <1>5, RedeployKeeps DEF Kind
<1>6. CASE UNCHANGED vars
  <2>1. TypeOK'
    BY <1>6 DEF vars, JourneyInv, TypeOK
  <2>2. QED
    BY <1>6, <2>1, RunKept DEF vars, Kind
<1>7. QED
  BY <1>1, <1>2, <1>3, <1>4, <1>5, <1>6 DEF Next

(* A run of a journey is always at what its plan, its checks and its       *)
(* verdict say together, whatever commands, responses, deadlines and       *)
(* redeployments interleave.                                               *)
THEOREM JourneyInvariance == Spec => []JourneyInv
<1>1. JourneyInv /\ [Next]_vars => JourneyInv'
  BY JourneyNext
<1>2. QED
  BY <1>1, JourneyInit, PTL DEF Spec

-----------------------------------------------------------------------------
(* What the runs check. *)

(* A run of any plan completes once.                                       *)
THEOREM RunCompletesOnce == Spec => []CompletedOnce
<1>1. JourneyInv => CompletedOnce
  BY DEF JourneyInv, RunSound, Sound, Awaiting, InProgress, Over, CompletedOnce
<1>2. QED
  BY <1>1, JourneyInvariance, PTL

(* A journey is granted by all of its checks, and leaves none open.        *)
THEOREM GrantedBy == Spec => []GrantedByAllChecks
<1>1. ASSUME JourneyInv PROVE GrantedByAllChecks
  <2> SUFFICES ASSUME run # None, run.result # None
               PROVE  /\ Range(run.checks) \cap {"Not evaluated", "Pending"} = {}
                      /\ run.result = "success" => Range(run.checks) = {"Pass"}
    BY DEF GrantedByAllChecks
  <2> DEFINE n == Steps(run.plan)
  <2>1. run \in Run /\ Sound(run) /\ run.plan \in Plan /\ run.checks \in Seq(Status)
    BY <1>1 DEF JourneyInv, TypeOK, RunSound, Run
  <2>2. Over(run) /\ Len(run.checks) = n
    BY <2>1 DEF Sound, InProgress, Awaiting
  <2>3. n \in Nat /\ 1 \in 1..n
    BY <2>1, PlanFacts
  <2>4. Range(run.checks) = {run.checks[i] : i \in 1..n}
    BY <2>1, <2>2, LenProperties DEF Range
  <2>5. QED
    BY <2>2, <2>3, <2>4 DEF Over
<1>2. QED
  BY <1>1, JourneyInvariance, PTL

(* What has completed is final, and what was reset or replaced is gone.    *)
THEOREM VerdictIsFinal == Spec => VerdictFinal
<1> DEFINE Final ==
             /\ run # None /\ run.result # None /\ run' # None /\ run'.id = run.id => run' = run
             /\ run' # None /\ (run = None \/ run'.id # run.id) => run'.id > runs
             /\ run # None /\ run.result = None /\ run' # None /\ run'.id # run.id
                   => run.id \in late
<1>1. ASSUME JourneyInv, [Next]_vars PROVE Final
  <2>1. runs \in Nat /\ (run # None => run.id = runs /\ Sound(run))
    BY <1>1, JourneyAssumption DEF JourneyInv, TypeOK, RunSound
  <2>2. run # None /\ run.request = "pending" => run.result = None
    BY <2>1 DEF Sound, InProgress, Awaiting, Over
  <2>3. Kind
    BY <1>1, JourneyNext
  <2>4. CASE Keeps
    BY <2>4 DEF Keeps
  <2>5. CASE Ends
    BY <2>2, <2>5 DEF Ends
  <2>6. CASE Resets
    BY <2>6 DEF Resets
  <2>7. CASE Starts
    <3>1. runs + 1 # runs /\ runs + 1 > runs
      BY <2>1
    <3>2. run # None /\ run.result = None => run.id \in late
      BY <1>1, <2>7, CurrentRun DEF Starts, Free
    <3>3. QED
      BY <2>1, <2>7, <3>1, <3>2 DEF Starts
  <2>8. CASE Advances
    BY <2>8 DEF Advances
  <2>9. QED
    BY <2>3, <2>4, <2>5, <2>6, <2>7, <2>8 DEF Kind
<1>2. JourneyInv /\ [Next]_vars => [Final]_vars
  BY <1>1
<1>3. VerdictFinal <=> [][Final]_vars
  BY DEF VerdictFinal
<1> HIDE DEF Final
<1>4. QED
  BY <1>2, <1>3, JourneyInvariance, PTL DEF Spec

(* A run that waits for its response succeeds only by a success of its own *)
(* request, in time.                                                       *)
THEOREM SuccessAnswers == Spec => SuccessIsAnswered
<1> DEFINE Answers ==
             (run # None /\ run.request = "pending" /\ run' # None /\ run'.id = run.id
                 /\ run'.result = "success")
              => /\ [run |-> run.id, outcome |-> "success"] \in inbox
                 /\ run.id \notin late
<1>1. ASSUME JourneyInv, [Next]_vars PROVE Answers
  <2>1. runs \in Nat /\ (run # None => run.id = runs /\ Sound(run))
    BY <1>1, JourneyAssumption DEF JourneyInv, TypeOK, RunSound
  <2>2. run # None /\ run.request = "pending" => run.result = None
    BY <2>1 DEF Sound, InProgress, Awaiting, Over
  <2>3. Kind
    BY <1>1, JourneyNext
  <2>4. CASE Keeps
    BY <2>2, <2>4, JourneyAssumption DEF Keeps, Result
  <2>5. CASE Ends
    BY <2>5 DEF Ends
  <2>6. CASE Resets
    BY <2>6 DEF Resets
  <2>7. CASE Starts
    <3>1. runs + 1 # runs
      BY <2>1
    <3>2. QED
      BY <2>1, <2>7, <3>1 DEF Starts
  <2>8. CASE Advances
    BY <2>8 DEF Advances
  <2>9. QED
    BY <2>3, <2>4, <2>5, <2>6, <2>7, <2>8 DEF Kind
<1>2. JourneyInv /\ [Next]_vars => [Answers]_vars
  BY <1>1
<1>3. SuccessIsAnswered <=> [][Answers]_vars
  BY DEF SuccessIsAnswered
<1> HIDE DEF Answers
<1>4. QED
  BY <1>2, <1>3, JourneyInvariance, PTL DEF Spec

-----------------------------------------------------------------------------
(* The refinement. *)

(* What a page sees of the shared run is a run of SharedRun: one at a      *)
(* time, its steps in order, over for good.                                *)
THEOREM JourneyIsSharedRun == Spec => ImplementsSharedRun
<1>1. Init => Shared!SharedInit
  BY DEF Init, Shared!SharedInit, Shared!At, Visible
<1>2. ASSUME JourneyInv, [Next]_vars
      PROVE  Shared!SharedNext \/ Visible' = Visible
  <2>1. runs \in Nat /\ (run # None => run.id = runs /\ Sound(run))
    BY <1>2, JourneyAssumption DEF JourneyInv, TypeOK, RunSound
  <2>2. Kind
    BY <1>2, JourneyNext
  <2>3. CASE Keeps
    BY <2>3 DEF Keeps, Visible
  <2>4. CASE Ends
    <3>1. run # None => (run.request = "pending" => run.result = None)
      BY <2>1 DEF Sound, InProgress, Awaiting, Over
    <3>2. Visible.phase = "pending" /\ Visible.id = runs
      BY <2>4, <3>1 DEF Ends, Visible
    <3>3. Visible' = [id |-> runs, phase |-> "over", step |-> 0]
      BY <2>4 DEF Ends, Visible
    <3>4. QED
      BY <3>2, <3>3 DEF Shared!SharedNext, Shared!Resolve, Shared!At
  <2>5. CASE Resets
    <3>1. Visible' = [id |-> runs, phase |-> "none", step |-> 0] /\ Visible.id = runs
      BY <2>5 DEF Resets, Visible
    <3>2. QED
      BY <3>1 DEF Shared!SharedNext, Shared!Reset, Shared!At
  <2>6. CASE Starts
    <3>1. Visible.phase # "active" /\ Visible.id = runs /\ runs < MaxRuns
      <4>1. run # None /\ run.result = None => run.request = "pending"
        BY <1>2, <2>6, CurrentRun DEF Starts, Free
      <4>2. QED
        BY <2>6, <4>1 DEF Visible, Starts
    <3>2. CASE run'.result = None
      <4>1. /\ run'.step \in 1..MaxSteps
            /\ Visible' = [id |-> runs + 1, phase |-> "active", step |-> run'.step]
        BY <2>6, <3>2 DEF Starts, Visible
      <4>2. Shared!Start
        BY <3>1, <4>1 DEF Shared!Start, Shared!At
      <4>3. QED
        BY <4>2 DEF Shared!SharedNext
    <3>3. CASE run'.result # None
      <4>1. Visible' = [id |-> runs + 1, phase |-> "over", step |-> 0]
        BY <2>6, <3>3 DEF Starts, Visible
      <4>2. Shared!Start
        BY <3>1, <4>1 DEF Shared!Start, Shared!At
      <4>3. QED
        BY <4>2 DEF Shared!SharedNext
    <3>4. QED
      BY <3>2, <3>3
  <2>7. CASE Advances
    <3>1. /\ Visible.phase = "active" /\ Visible.id = runs /\ Visible.step = run.step
      BY <2>7 DEF Advances, Visible
    <3>2. CASE run'.result = None /\ run'.request # "pending"
      <4>1. /\ run.step < MaxSteps
            /\ Visible' = [id |-> runs, phase |-> "active", step |-> run.step + 1]
        BY <2>7, <3>2 DEF Advances, Visible
      <4>2. QED
        BY <3>1, <4>1 DEF Shared!SharedNext, Shared!Advance, Shared!At
    <3>3. CASE run'.result # None
      <4>1. Visible' = [id |-> runs, phase |-> "over", step |-> 0]
        BY <2>7, <3>3 DEF Advances, Visible
      <4>2. QED
        BY <3>1, <4>1 DEF Shared!SharedNext, Shared!Advance, Shared!At
    <3>4. CASE run'.result = None /\ run'.request = "pending"
      <4>1. Visible' = [id |-> runs, phase |-> "pending", step |-> 0]
        BY <2>7, <3>4 DEF Advances, Visible
      <4>2. QED
        BY <3>1, <4>1 DEF Shared!SharedNext, Shared!Advance, Shared!At
    <3>5. QED
      BY <3>2, <3>3, <3>4
  <2>8. QED
    BY <2>2, <2>3, <2>4, <2>5, <2>6, <2>7 DEF Kind
<1>3. JourneyInv /\ [Next]_vars => [Shared!SharedNext]_Visible
  BY <1>2
<1>4. QED
  BY <1>1, <1>3, JourneyInvariance, PTL DEF Spec, ImplementsSharedRun, Shared!SharedSpec
=============================================================================
