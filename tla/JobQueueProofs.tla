---------------------------- MODULE JobQueueProofs ----------------------------
(* Proofs about JobQueue for every set of jobs, Workers and retry bound:   *)
(* its invariants, and that it implements JobLifecycle.                    *)
EXTENDS JobQueue, TLAPS

JLP == INSTANCE JobLifecycleProofs

-----------------------------------------------------------------------------
(* The inductive invariant.                                                *)

Exists(e) == status[e] # "NONE"

\* What JobLifecycleProofs shows of the rows alone.
RowsInv == /\ JL!LifecycleTypeOK
           /\ JL!AttemptChain
           /\ \A e \in Exec : marked[e] => Exists(e)
           /\ JL!CancelSticks
           /\ JL!RetryBounded

Results == {"SUCCEEDED", "FAILED", "CANCELLED"}

\* What a Worker's control point says of its private state and of the row it
\* has claimed: nobody else becomes the owner of a row that was claimed once.
WorkerInv(w) ==
  /\ pc[w] \in {"off", "dead", "gate", "gateSweep", "idle", "pinned"}
       => result[w] = None /\ ~signal[w]
  /\ pc[w] \in {"pinned", "running", "record", "reflect"} => exec[w] \in Exec
  /\ pc[w] = "running" => result[w] = None
  /\ pc[w] \in {"record", "reflect"} => result[w] \in Results
  /\ signal[w] => marked[exec[w]]
  /\ result[w] = "CANCELLED" => marked[exec[w]]
  /\ pc[w] \in {"running", "record", "reflect"} =>
       owner[exec[w]] = w /\ status[exec[w]] \notin {"NONE", "QUEUED"}
  /\ pc[w] = "reflect" => result[w] # "CANCELLED" /\ status[exec[w]] = result[w]

WorkersInv == \A w \in Worker : WorkerInv(w)

\* An open request_cancel holds only rows that exist, and once its scan is
\* over it holds all of them: no attempt can be added behind its back.
CancelInv ==
  /\ \A j \in Job : cancelTx[j] # "none" => locked[j] >= 1
  /\ \A e \in Exec : Locked(e) => Exists(e)
  /\ \A e \in Exec : (cancelTx[JobOf(e)] = "write" /\ Exists(e)) => Locked(e)

NextExists(e) == NextAttempt(e) \in Exec /\ Exists(NextAttempt(e))

LossInv ==
  /\ \A e \in Exec : (status[e] = "STALE" /\ ~NextExists(e) /\ ~marked[e]) =>
        AttemptOf(e) > RetryMax /\ (JobOf(e) \in Hint => notice[JobOf(e)])
  /\ \A e \in Exec : notice[JobOf(e)] => status[e] \in {"NONE", "STALE"}
  /\ \A j \in Job : notice[j] => Exists(<<j, 1>>)

Inv == TypeOK /\ RowsInv /\ WorkersInv /\ CancelInv /\ LossInv

\* A step of the queue seen from the life cycle.
RowStep == [JL!Next]_<<status, marked>>

-----------------------------------------------------------------------------
(* Facts about executions, and what JobLifecycleProofs provides.           *)

LEMMA ExecFacts ==
  ASSUME NEW e \in Exec
  PROVE  /\ e = <<JobOf(e), AttemptOf(e)>>
         /\ JobOf(e) \in Job
         /\ AttemptOf(e) \in Attempt
         /\ AttemptOf(e) \in Nat
         /\ AttemptOf(e) >= 1 /\ AttemptOf(e) <= RetryMax + 2
         /\ JobOf(NextAttempt(e)) = JobOf(e)
         /\ AttemptOf(NextAttempt(e)) = AttemptOf(e) + 1
         /\ NextAttempt(e) # e
         /\ NextAttempt(e) = <<JobOf(e), AttemptOf(e) + 1>>
         /\ AttemptOf(e) <= RetryMax => NextAttempt(e) \in Exec
  BY QueueAssumption DEF Exec, JL!Exec, Attempt, JL!Attempt, JobOf, JL!JobOf,
     AttemptOf, JL!AttemptOf, NextAttempt, JL!NextAttempt

LEMMA PairFacts ==
  ASSUME NEW j \in Job, NEW a \in Nat, a >= 1, a <= RetryMax + 2
  PROVE  <<j, a>> \in Exec /\ JobOf(<<j, a>>) = j /\ AttemptOf(<<j, a>>) = a
  BY QueueAssumption DEF Exec, JL!Exec, JL!Attempt, JobOf, JL!JobOf, AttemptOf, JL!AttemptOf

LEMMA FirstExec ==
  ASSUME NEW j \in Job
  PROVE  <<j, 1>> \in Exec /\ JobOf(<<j, 1>>) = j /\ AttemptOf(<<j, 1>>) = 1
  BY PairFacts, QueueAssumption

LEMMA SameExec ==
  ASSUME NEW e \in Exec, NEW f \in Exec,
         JobOf(e) = JobOf(f), AttemptOf(e) = AttemptOf(f)
  PROVE  e = f
  BY ExecFacts

LEMMA RowTypes ==
  ASSUME TypeOK
  PROVE  /\ status \in [Exec -> {"NONE", "QUEUED", "RUNNING", "SUCCEEDED",
                                  "FAILED", "CANCELLED", "STALE"}]
         /\ marked \in [Exec -> BOOLEAN]
  BY DEF TypeOK, JL!LifecycleTypeOK, JL!Status, JL!Live, JL!Ended, Exec

LEMMA Chain ==
  ASSUME RowsInv, NEW e \in Exec, NEW f \in Exec,
         JobOf(e) = JobOf(f), AttemptOf(e) < AttemptOf(f), Exists(f)
  PROVE  status[e] = "STALE"
  BY DEF RowsInv, JL!AttemptChain, JL!Exists, Exists, JobOf, AttemptOf, Exec

\* JobLifecycleProofs speaks of the same rows through its own names.
LEMMA SameLifecycle ==
  /\ JLP!IInv <=> RowsInv
  /\ JLP!Next <=> JL!Next
  /\ JLP!Init <=> JL!Init
  /\ JLP!LegalStep <=> JL!LegalStep
  BY DEF RowsInv, Exists, Exec, JLP!IInv, JLP!MarkedExists,
     JLP!Next, JL!Next, JLP!Init, JL!Init, JLP!LegalStep, JL!LegalStep,
     JLP!LifecycleTypeOK, JL!LifecycleTypeOK, JLP!AttemptChain, JL!AttemptChain,
     JLP!CancelSticks, JL!CancelSticks, JLP!RetryBounded, JL!RetryBounded,
     JLP!Exec, JL!Exec, JLP!Attempt, JL!Attempt, JLP!Exists, JL!Exists,
     JLP!JobOf, JL!JobOf, JLP!AttemptOf, JL!AttemptOf, JLP!NextAttempt, JL!NextAttempt,
     JLP!Status, JL!Status, JLP!Live, JL!Live, JLP!Ended, JL!Ended,
     JLP!Submit, JL!Submit, JLP!Begin, JL!Begin, JLP!Finish, JL!Finish,
     JLP!Lose, JL!Lose, JLP!Cancel, JL!Cancel, JLP!ShouldRetry, JL!ShouldRetry

LEMMA RowsStep ==
  ASSUME RowsInv, RowStep
  PROVE  RowsInv' /\ JL!LegalStep
<1>1. JLP!IInv /\ [JLP!Next]_<<status, marked>> => JLP!IInv'
  BY JLP!StepIInv, QueueAssumption DEF JLP!lifecycleVars, JLP!RetryMaxAssumption
<1>2. JLP!IInv' <=> RowsInv'
  BY SameLifecycle, PTL
<1>3. RowsInv'
  BY <1>1, <1>2, SameLifecycle DEF RowStep
<1>4. CASE UNCHANGED <<status, marked>>
  <2>1. JL!LegalStep
    BY <1>4 DEF JL!LegalStep, JL!Live, JL!Ended, RowsInv, JL!LifecycleTypeOK, JL!Status
  <2> QED BY <2>1, <1>3
<1>5. CASE JL!Next /\ ~UNCHANGED <<status, marked>>
  <2>1. [JLP!LegalStep]_<<status, marked>>
    BY <1>5, JLP!StepLegal, QueueAssumption, SameLifecycle
    DEF JLP!lifecycleVars, JLP!RetryMaxAssumption
  <2> QED BY <2>1, <1>3, <1>5, SameLifecycle
<1> QED BY <1>4, <1>5 DEF RowStep

-----------------------------------------------------------------------------
(* Frames: what a step cannot disturb.                                     *)

\* A Worker whose private state stays keeps its invariant as long as nobody
\* changes the owner of a row that was claimed.
LEMMA WorkerFrame ==
  ASSUME TypeOK, RowsInv, RowStep, NEW w \in Worker, WorkerInv(w),
         pc'[w] = pc[w], exec'[w] = exec[w], result'[w] = result[w], signal'[w] = signal[w],
         \A e \in Exec : status[e] \notin {"NONE", "QUEUED"} => owner'[e] = owner[e]
  PROVE  WorkerInv(w)'
<1> DEFINE e == exec[w]
<1>1. \A f \in Exec : /\ marked[f] => marked'[f]
                      /\ status[f] \notin {"NONE", "QUEUED"} => status'[f] \notin {"NONE", "QUEUED"}
                      /\ status[f] \in Results => status'[f] = status[f]
  BY RowsStep, RowTypes DEF JL!LegalStep, JL!Ended, Exec, Results
<1>2. /\ pc'[w] \in {"off", "dead", "gate", "gateSweep", "idle", "pinned"}
           => result'[w] = None /\ ~signal'[w]
      /\ pc'[w] \in {"pinned", "running", "record", "reflect"} => exec'[w] \in Exec
      /\ pc'[w] = "running" => result'[w] = None
      /\ pc'[w] \in {"record", "reflect"} => result'[w] \in Results
  BY DEF WorkerInv
<1>3. pc[w] \in {"running", "record", "reflect"} =>
         owner'[e] = w /\ status'[e] \notin {"NONE", "QUEUED"}
  BY <1>1 DEF WorkerInv
<1>4. pc[w] = "reflect" => result[w] # "CANCELLED" /\ status'[e] = result[w]
  BY <1>1 DEF WorkerInv
<1>5. signal[w] \/ result[w] = "CANCELLED" => e \in Exec
  BY QueueAssumption DEF WorkerInv, TypeOK, Alive, Results
<1>6. /\ signal[w] => marked'[e]
      /\ result[w] = "CANCELLED" => marked'[e]
  BY <1>1, <1>5 DEF WorkerInv
<1> QED BY <1>2, <1>3, <1>4, <1>6 DEF WorkerInv

LEMMA WorkersFrame ==
  ASSUME TypeOK, RowsInv, RowStep, WorkersInv, UNCHANGED workVars,
         \A e \in Exec : status[e] \notin {"NONE", "QUEUED"} => owner'[e] = owner[e]
  PROVE  WorkersInv'
<1> SUFFICES ASSUME NEW w \in Worker PROVE WorkerInv(w)'
  BY DEF WorkersInv
<1>1. WorkerInv(w)
  BY DEF WorkersInv
<1> QED BY <1>1, WorkerFrame DEF workVars

LEMMA CancelFrame ==
  ASSUME CancelInv, UNCHANGED cancelVars, \A e \in Exec : Exists(e)' <=> Exists(e)
  PROVE  CancelInv'
  BY DEF CancelInv, cancelVars, Locked

\* Whatever makes no row STALE and adds none cannot lose a job.
LEMMA LossFrame ==
  ASSUME TypeOK, RowsInv, RowStep, LossInv, notice' = notice,
         \A e \in Exec : Exists(e)' <=> Exists(e),
         \A e \in Exec : status'[e] = "STALE" => status[e] = "STALE"
  PROVE  LossInv'
<1>1. \A e \in Exec : /\ marked[e] => marked'[e]
                      /\ status[e] \in {"NONE", "STALE"} => status'[e] = status[e]
  BY RowsStep DEF JL!LegalStep, JL!Ended, Exec, Exists
<1>2. \A e \in Exec : NextExists(e)' <=> NextExists(e)
  BY DEF NextExists
<1>3. ASSUME NEW e \in Exec, (status[e] = "STALE")', ~NextExists(e)', ~marked'[e]
      PROVE  AttemptOf(e) > RetryMax /\ (JobOf(e) \in Hint => notice[JobOf(e)])
  BY <1>1, <1>2, <1>3 DEF LossInv
<1>4. ASSUME NEW e \in Exec, notice[JobOf(e)]
      PROVE  status'[e] \in {"NONE", "STALE"}
  BY <1>1, <1>4 DEF LossInv
<1>5. ASSUME NEW j \in Job, notice[j]
      PROVE  Exists(<<j, 1>>)'
  BY <1>5, FirstExec DEF LossInv
<1> QED BY <1>3, <1>4, <1>5 DEF LossInv

\* A step that leaves the rows' life cycle, the notices and the open cancel
\* transactions alone.
LEMMA PrivateStep ==
  ASSUME Inv, UNCHANGED <<status, marked, notice, cancelVars>>
  PROVE  RowStep /\ RowsInv' /\ CancelInv' /\ LossInv'
<1>1. RowStep
  BY DEF RowStep
<1>2. \A e \in Exec : Exists(e)' <=> Exists(e)
  BY DEF Exists
<1> QED BY <1>1, <1>2, RowsStep, CancelFrame, LossFrame DEF Inv, Exists

LEMMA InitInv == Init => Inv
<1> SUFFICES ASSUME Init PROVE Inv
  OBVIOUS
<1>1. TypeOK
  BY QueueAssumption DEF Init, JL!Init, TypeOK, JL!LifecycleTypeOK, JL!Status, Exec, Alive
<1>2. RowsInv
  <2>1. JLP!Init => JLP!IInv
    BY JLP!InitIInv, QueueAssumption DEF JLP!RetryMaxAssumption
  <2>2. JL!Init
    BY DEF Init
  <2> QED BY <2>1, <2>2, SameLifecycle
<1>3. WorkersInv
  BY QueueAssumption DEF Init, WorkersInv, WorkerInv
<1>4. CancelInv
  BY ExecFacts DEF Init, JL!Init, CancelInv, Locked, Exists, Exec
<1>5. LossInv
  BY ExecFacts DEF Init, JL!Init, LossInv, Exec
<1> QED BY <1>1, <1>2, <1>3, <1>4, <1>5 DEF Inv

-----------------------------------------------------------------------------
(* The API side and the clock.                                             *)

LEMMA EnqueueInv ==
  ASSUME Inv, NEW j \in Job, Enqueue(j)
  PROVE  RowStep /\ Inv'
<1> DEFINE d == <<j, 1>>
<1> USE DEF Inv
<1>1. d \in Exec /\ JobOf(d) = j /\ AttemptOf(d) = 1
  BY FirstExec
<1>2. /\ status[d] = "NONE" /\ status' = [status EXCEPT ![d] = "QUEUED"]
      /\ due' = [due EXCEPT ![d] = TRUE]
      /\ UNCHANGED <<marked, owner, expired, notice, cancelVars, workVars, todo>>
  BY DEF Enqueue
<1>3. RowStep
  <2>1. JL!Submit(j)
    BY <1>2 DEF JL!Submit
  <2> QED BY <2>1 DEF RowStep, JL!Next
<1> HIDE DEF d
<1>4. RowsInv'
  BY <1>3, RowsStep
<1>5. TypeOK'
  BY <1>1, <1>2, <1>4 DEF TypeOK, RowsInv, cancelVars, workVars
<1>6. WorkersInv'
  BY <1>2, <1>3, WorkersFrame
<1>7. CancelInv'
  <2>1. \A f \in Exec : JobOf(f) = j => ~Exists(f)
    <3> SUFFICES ASSUME NEW f \in Exec, JobOf(f) = j, Exists(f) PROVE FALSE
      OBVIOUS
    <3>1. f # d
      BY <1>2 DEF Exists
    <3>2. AttemptOf(d) < AttemptOf(f)
      BY <1>1, <3>1, ExecFacts, SameExec
    <3> QED BY <3>2, <1>1, <1>2, Chain
  <2>2. cancelTx[j] = "none"
    BY <1>1, <1>2, <2>1, ExecFacts DEF CancelInv, Locked, TypeOK
  <2>3. \A f \in Exec : f # d => (Exists(f)' <=> Exists(f))
    BY <1>1, <1>2, RowTypes DEF Exists
  <2>4. Exists(d)'
    BY <1>1, <1>2, RowTypes DEF Exists
  <2> QED BY <1>1, <1>2, <2>2, <2>3, <2>4 DEF CancelInv, cancelVars, Locked
<1>8. LossInv'
  <2>1. \A f \in Exec : f # d => status'[f] = status[f]
    BY <1>1, <1>2, RowTypes
  <2>2. status'[d] = "QUEUED"
    BY <1>1, <1>2, RowTypes
  <2>3. ~notice[j]
    BY <1>2 DEF LossInv, Exists, d
  <2>4. \A f \in Exec : NextExists(f) => NextExists(f)'
    BY <2>1, <2>2 DEF NextExists, Exists
  <2>5. \A i \in Job : Exists(<<i, 1>>) => Exists(<<i, 1>>)'
    BY <2>1, <2>2, FirstExec DEF Exists
  <2> QED BY <1>1, <1>2, <2>1, <2>2, <2>3, <2>4, <2>5 DEF LossInv
<1> QED BY <1>3, <1>4, <1>5, <1>6, <1>7, <1>8

LEMMA CancelLockInv ==
  ASSUME Inv, NEW j \in Job, CancelLock(j)
  PROVE  RowStep /\ Inv'
<1> DEFINE n == <<j, locked[j] + 1>>
<1> USE DEF Inv
<1>1. /\ cancelTx[j] \in {"none", "scan"} /\ n \in Exec /\ status[n] # "NONE"
      /\ cancelTx' = [cancelTx EXCEPT ![j] = "scan"]
      /\ locked' = [locked EXCEPT ![j] = @ + 1]
      /\ UNCHANGED <<rowVars, workVars, todo>>
  BY DEF CancelLock
<1>2. locked[j] \in Nat /\ locked[j] + 1 <= RetryMax + 2
  BY <1>1, ExecFacts, QueueAssumption DEF TypeOK, JobOf, JL!JobOf, AttemptOf, JL!AttemptOf
<1>3. JobOf(n) = j /\ AttemptOf(n) = locked[j] + 1
  BY <1>2, PairFacts
<1>4. RowStep /\ RowsInv'
  BY <1>1, RowsStep DEF RowStep, rowVars
<1>5. TypeOK'
  BY <1>1, <1>2, <1>4, QueueAssumption DEF TypeOK, RowsInv, rowVars, workVars
<1>6. WorkersInv'
  BY <1>1, <1>4, WorkersFrame DEF rowVars
<1>7. CancelInv'
  <2>1. \A i \in Job : cancelTx'[i] # "none" => locked'[i] >= 1
    BY <1>1, <1>2, QueueAssumption DEF CancelInv, TypeOK
  <2>2. ASSUME NEW f \in Exec, Locked(f)' PROVE Exists(f)'
    <3>1. Locked(f) \/ f = n
      BY <2>2, <1>1, <1>2, <1>3, ExecFacts, SameExec DEF Locked, TypeOK
    <3> QED BY <3>1, <1>1 DEF CancelInv, Exists, rowVars
  <2>3. ASSUME NEW f \in Exec, cancelTx'[JobOf(f)] = "write", Exists(f)' PROVE Locked(f)'
    <3>1. JobOf(f) # j /\ JobOf(f) \in Job
      BY <2>3, <1>1, ExecFacts DEF TypeOK
    <3> QED BY <3>1, <2>3, <1>1 DEF CancelInv, Exists, Locked, TypeOK, rowVars
  <2> QED BY <2>1, <2>2, <2>3 DEF CancelInv
<1>8. LossInv'
  BY <1>1, <1>4, LossFrame DEF rowVars, Exists
<1> QED BY <1>4, <1>5, <1>6, <1>7, <1>8

LEMMA CancelScannedInv ==
  ASSUME Inv, NEW j \in Job, CancelScanned(j)
  PROVE  RowStep /\ Inv'
<1> DEFINE n == <<j, locked[j] + 1>>
<1> USE DEF Inv
<1>1. /\ cancelTx[j] = "scan" /\ (n \in Exec => status[n] = "NONE")
      /\ cancelTx' = [cancelTx EXCEPT ![j] = "write"]
      /\ UNCHANGED <<rowVars, locked, workVars, todo>>
  BY DEF CancelScanned
<1>2. RowStep /\ RowsInv'
  BY <1>1, RowsStep DEF RowStep, rowVars
<1>3. TypeOK'
  BY <1>1, <1>2 DEF TypeOK, RowsInv, rowVars, workVars
<1>4. WorkersInv'
  BY <1>1, <1>2, WorkersFrame DEF rowVars
<1>5. CancelInv'
  <2>1. ASSUME NEW f \in Exec, JobOf(f) = j, Exists(f) PROVE Locked(f)
    <3> SUFFICES ASSUME AttemptOf(f) > locked[j] PROVE FALSE
      BY <2>1, ExecFacts DEF Locked, TypeOK
    <3>1. locked[j] \in Nat /\ locked[j] + 1 <= RetryMax + 2
      BY <2>1, ExecFacts, QueueAssumption DEF TypeOK
    <3>2. n \in Exec /\ JobOf(n) = j /\ AttemptOf(n) = locked[j] + 1 /\ status[n] = "NONE"
      BY <3>1, <1>1, PairFacts
    <3>3. CASE AttemptOf(f) = AttemptOf(n)
      BY <3>2, <3>3, <2>1, SameExec DEF Exists
    <3>4. CASE AttemptOf(f) > AttemptOf(n)
      BY <3>2, <3>4, <2>1, Chain
    <3> QED BY <3>1, <3>2, <3>3, <3>4, ExecFacts
  <2>2. \A i \in Job : cancelTx'[i] # "none" => locked'[i] >= 1
    BY <1>1 DEF CancelInv, TypeOK
  <2>3. \A f \in Exec : (Exists(f)' <=> Exists(f)) /\ (Locked(f)' <=> Locked(f))
    BY <1>1 DEF Exists, Locked, rowVars
  <2>4. ASSUME NEW f \in Exec, cancelTx'[JobOf(f)] = "write", Exists(f) PROVE Locked(f)
    BY <2>1, <2>4, <1>1, ExecFacts DEF CancelInv, TypeOK
  <2> QED BY <2>2, <2>3, <2>4 DEF CancelInv
<1>6. LossInv'
  BY <1>1, <1>2, LossFrame DEF rowVars, Exists
<1> QED BY <1>2, <1>3, <1>4, <1>5, <1>6

LEMMA CancelCommitInv ==
  ASSUME Inv, NEW j \in Job, CancelCommit(j)
  PROVE  RowStep /\ Inv'
<1> DEFINE Hit(e) == JobOf(e) = j /\ Locked(e)
<1> USE DEF Inv
<1>1. /\ cancelTx[j] = "write"
      /\ status' = [e \in Exec |-> IF Hit(e) /\ status[e] = "QUEUED"
                                   THEN "CANCELLED" ELSE status[e]]
      /\ marked' = [e \in Exec |-> marked[e] \/ (Hit(e) /\ status[e] \in {"QUEUED", "RUNNING", "STALE"})]
      /\ cancelTx' = [cancelTx EXCEPT ![j] = "none"]
      /\ locked' = [locked EXCEPT ![j] = 0]
      /\ UNCHANGED <<owner, expired, due, notice, workVars, todo>>
  BY DEF CancelCommit
<1>2. \A e \in Exec : (JobOf(e) = j /\ status[e] \in {"QUEUED", "RUNNING", "STALE"}) => Locked(e)
  BY <1>1 DEF CancelInv, Exists
<1>3. JL!Cancel(j)
  BY <1>1, <1>2 DEF JL!Cancel, Exec, JobOf, JL!Live
<1>4. RowStep /\ RowsInv'
  BY <1>3, RowsStep DEF RowStep, JL!Next
<1>5. TypeOK'
  BY <1>1, <1>4, QueueAssumption DEF TypeOK, RowsInv, workVars
<1>6. WorkersInv'
  BY <1>1, <1>4, WorkersFrame
<1>7. \A e \in Exec : Exists(e)' <=> Exists(e)
  BY <1>1 DEF Exists
<1>8. CancelInv'
  BY <1>1, <1>7, ExecFacts DEF CancelInv, Locked, TypeOK
<1>9. LossInv'
  BY <1>1, <1>4, <1>7, LossFrame
<1> QED BY <1>4, <1>5, <1>6, <1>8, <1>9

LEMMA CancelRollbackInv ==
  ASSUME Inv, NEW j \in Job, CancelRollback(j)
  PROVE  RowStep /\ Inv'
<1> USE DEF Inv
<1>1. /\ cancelTx' = [cancelTx EXCEPT ![j] = "none"]
      /\ locked' = [locked EXCEPT ![j] = 0]
      /\ UNCHANGED <<rowVars, workVars, todo>>
  BY DEF CancelRollback
<1>2. RowStep /\ RowsInv'
  BY <1>1, RowsStep DEF RowStep, rowVars
<1>3. TypeOK'
  BY <1>1, <1>2, QueueAssumption DEF TypeOK, RowsInv, rowVars, workVars
<1>4. WorkersInv'
  BY <1>1, <1>2, WorkersFrame DEF rowVars
<1>5. CancelInv'
  BY <1>1, ExecFacts DEF CancelInv, Locked, TypeOK, Exists, rowVars
<1>6. LossInv'
  BY <1>1, <1>2, LossFrame DEF rowVars, Exists
<1> QED BY <1>2, <1>3, <1>4, <1>5, <1>6

LEMMA ClockInv ==
  ASSUME Inv, NEW e \in Exec, LeaseExpires(e) \/ BackoffElapses(e)
  PROVE  RowStep /\ Inv'
<1>1. UNCHANGED <<status, marked, owner, notice, cancelVars, workVars, todo>>
  BY DEF LeaseExpires, BackoffElapses
<1>2. RowStep /\ RowsInv' /\ CancelInv' /\ LossInv'
  BY <1>1, PrivateStep
<1>3. TypeOK'
  BY <1>1, <1>2 DEF Inv, TypeOK, RowsInv, LeaseExpires, BackoffElapses, cancelVars, workVars
<1>4. WorkersInv'
  BY <1>1, <1>2, WorkersFrame DEF Inv
<1> QED BY <1>2, <1>3, <1>4 DEF Inv

-----------------------------------------------------------------------------
(* Workers.                                                                *)

\* A Worker step touches the private state of that Worker only.
LEMMA OneWorker ==
  ASSUME Inv, RowStep, NEW w \in Worker, WorkerInv(w)',
         \A v \in Worker \ {w} : /\ pc'[v] = pc[v] /\ exec'[v] = exec[v]
                                 /\ result'[v] = result[v] /\ signal'[v] = signal[v],
         \A e \in Exec : status[e] \notin {"NONE", "QUEUED"} => owner'[e] = owner[e]
  PROVE  WorkersInv'
<1> SUFFICES ASSUME NEW v \in Worker, v # w PROVE WorkerInv(v)'
  BY DEF WorkersInv
<1>1. WorkerInv(v)
  BY DEF Inv, WorkersInv
<1>2. /\ pc'[v] = pc[v] /\ exec'[v] = exec[v]
      /\ result'[v] = result[v] /\ signal'[v] = signal[v]
  OBVIOUS
<1> QED BY <1>1, <1>2, WorkerFrame DEF Inv

LEMMA BackToInv ==
  ASSUME Inv, NEW w \in Worker, NEW here \in {"dead", "idle"}, BackTo(w, here),
         UNCHANGED <<rowVars, cancelVars>>, todo' \in [Worker -> SUBSET Exec]
  PROVE  RowStep /\ Inv'
<1>1. RowStep /\ RowsInv' /\ CancelInv' /\ LossInv'
  BY PrivateStep DEF rowVars
<1>2. TypeOK'
  BY <1>1 DEF Inv, TypeOK, RowsInv, BackTo, rowVars, cancelVars, Alive
<1>3. WorkerInv(w)'
  BY QueueAssumption DEF Inv, TypeOK, BackTo, WorkerInv
<1>4. WorkersInv'
  BY <1>1, <1>3, OneWorker DEF BackTo, rowVars, Inv, TypeOK
<1> QED BY <1>1, <1>2, <1>4 DEF Inv

\* Steps that leave every row and the private state of Workers but for pc.
LEMMA ControlInv ==
  ASSUME Inv, NEW w \in Worker, UNCHANGED <<rowVars, cancelVars, exec, result, lost, signal>>,
         todo' \in [Worker -> SUBSET Exec],
         \/ pc' = pc
         \/ /\ pc[w] \in {"off", "gate", "gateSweep"}
            /\ \E here \in {"gate", "gateSweep", "idle"} : pc' = [pc EXCEPT ![w] = here]
  PROVE  RowStep /\ Inv'
<1>1. RowStep /\ RowsInv' /\ CancelInv' /\ LossInv'
  BY PrivateStep DEF rowVars
<1>2. TypeOK'
  BY <1>1 DEF Inv, TypeOK, RowsInv, rowVars, cancelVars, Alive
<1>3. WorkersInv'
  <2>1. CASE pc' = pc
    BY <1>1, <2>1, WorkersFrame DEF Inv, workVars, rowVars
  <2>2. CASE /\ pc[w] \in {"off", "gate", "gateSweep"}
             /\ \E here \in {"gate", "gateSweep", "idle"} : pc' = [pc EXCEPT ![w] = here]
    <3>1. pc'[w] \in {"gate", "gateSweep", "idle"}
      BY <2>2 DEF Inv, TypeOK
    <3>2. WorkerInv(w)
      BY DEF Inv, WorkersInv
    <3>3. WorkerInv(w)'
      BY <2>2, <3>1, <3>2, QueueAssumption DEF WorkerInv
    <3>4. \A v \in Worker \ {w} : pc'[v] = pc[v]
      BY <2>2 DEF Inv, TypeOK
    <3> QED BY <1>1, <3>3, <3>4, OneWorker DEF rowVars
  <2> QED BY <2>1, <2>2
<1> QED BY <1>1, <1>2, <1>3 DEF Inv

LEMMA GateInv ==
  ASSUME Inv, NEW w \in Worker, Start(w) \/ Scan(w) \/ GateOpens(w) \/ PassFails(w)
  PROVE  RowStep /\ Inv'
<1>1. UNCHANGED <<rowVars, cancelVars, exec, result, lost, signal>>
  BY DEF Start, Scan, GateOpens, PassFails
<1>2. todo' \in [Worker -> SUBSET Exec]
  BY DEF Start, Scan, GateOpens, PassFails, Inv, TypeOK, Candidates
<1>3. pc \in [Worker -> {"off", "dead"} \union Alive]
  BY DEF Inv, TypeOK
<1>4. ASSUME Start(w) PROVE pc[w] = "off" /\ pc' = [pc EXCEPT ![w] = "gate"]
  BY <1>4 DEF Start
<1>5. ASSUME Scan(w) PROVE pc' = pc \/ (pc[w] = "gate" /\ pc' = [pc EXCEPT ![w] = "gateSweep"])
  BY <1>5 DEF Scan
<1>6. ASSUME GateOpens(w) PROVE pc[w] = "gateSweep" /\ pc' = [pc EXCEPT ![w] = "idle"]
  BY <1>6 DEF GateOpens
<1>7. ASSUME PassFails(w) PROVE pc' = pc \/ (pc[w] = "gateSweep" /\ pc' = [pc EXCEPT ![w] = "gate"])
  BY <1>7, <1>3 DEF PassFails
<1> QED BY <1>1, <1>2, <1>4, <1>5, <1>6, <1>7, ControlInv

LEMMA SweepSkipsInv ==
  ASSUME Inv, NEW w \in Worker, NEW e \in Exec, SweepSkips(w, e)
  PROVE  RowStep /\ Inv'
<1>1. UNCHANGED <<rowVars, cancelVars, exec, result, lost, signal>> /\ pc' = pc
  BY DEF SweepSkips, workVars
<1>2. todo' \in [Worker -> SUBSET Exec]
  BY DEF SweepSkips, Inv, TypeOK
<1> QED BY <1>1, <1>2, ControlInv

LEMMA ForgetInv ==
  ASSUME Inv, NEW w \in Worker,
         Crash(w) \/ ClaimGivenUp(w) \/ RecordRefused(w) \/ ReflectDone(w)
  PROVE  RowStep /\ Inv'
<1>1. UNCHANGED <<rowVars, cancelVars>>
  BY DEF Crash, ClaimGivenUp, RecordRefused, ReflectDone
<1>2. todo' \in [Worker -> SUBSET Exec]
  BY DEF Crash, ClaimGivenUp, RecordRefused, ReflectDone, Inv, TypeOK
<1>3. BackTo(w, "dead") \/ BackTo(w, "idle")
  BY DEF Crash, ClaimGivenUp, RecordRefused, ReflectDone
<1> QED BY <1>1, <1>2, <1>3, BackToInv

\* What all claim transactions have in common.
LEMMA ClaimTxInv ==
  ASSUME Inv, NEW w \in Worker, NEW e \in Exec, ClaimTx(w, e),
         pc[w] \in {"idle", "pinned"}, status[e] = "QUEUED"
  PROVE  RowStep /\ Inv'
<1>1. /\ exec' = [exec EXCEPT ![w] = e]
      /\ UNCHANGED <<cancelVars, result, lost, signal, todo, marked, due, notice>>
  BY DEF ClaimTx, WriteClaim, rowVars
<1>2. result[w] = None /\ ~signal[w]
  BY DEF Inv, WorkersInv, WorkerInv
<1>3. CASE UNCHANGED rowVars /\ pc' = [pc EXCEPT ![w] = "pinned"]
  <2>1. RowStep /\ RowsInv' /\ CancelInv' /\ LossInv'
    BY <1>1, <1>3, PrivateStep DEF rowVars
  <2>2. TypeOK'
    BY <1>1, <1>3, <2>1 DEF Inv, TypeOK, RowsInv, rowVars, cancelVars, Alive
  <2>3. WorkerInv(w)'
    BY <1>1, <1>2, <1>3, QueueAssumption DEF Inv, TypeOK, WorkerInv
  <2>4. WorkersInv'
    BY <1>1, <1>3, <2>1, <2>3, OneWorker DEF Inv, TypeOK, rowVars
  <2> QED BY <2>1, <2>2, <2>4 DEF Inv
<1>4. CASE /\ WriteClaim(w, e)
           /\ \E here \in {"running", "pinned"} : pc' = [pc EXCEPT ![w] = here]
  <2>1. /\ status' = [status EXCEPT ![e] = "RUNNING"]
        /\ owner' = [owner EXCEPT ![e] = w]
        /\ expired' = [expired EXCEPT ![e] = FALSE]
    BY <1>4 DEF WriteClaim
  <2>2. JL!Begin(e)
    BY <1>1, <2>1 DEF JL!Begin
  <2>3. RowStep /\ RowsInv'
    BY <2>2, RowsStep DEF RowStep, JL!Next, Inv, Exec
  <2>4. TypeOK'
    BY <1>1, <1>4, <2>1, <2>3 DEF Inv, TypeOK, RowsInv, cancelVars, Alive
  <2>5. \A f \in Exec : Exists(f)' <=> Exists(f)
    BY <2>1, RowTypes DEF Exists, Inv
  <2>6. \A f \in Exec : status[f] \notin {"NONE", "QUEUED"} => owner'[f] = owner[f]
    BY <2>1 DEF Inv, TypeOK
  <2>7. pc'[w] \in {"running", "pinned"} /\ exec'[w] = e /\ owner'[e] = w /\ status'[e] = "RUNNING"
    BY <1>1, <1>4, <2>1, RowTypes DEF Inv, TypeOK
  <2>8. WorkerInv(w)'
    BY <1>1, <1>2, <2>7, QueueAssumption DEF WorkerInv
  <2>9. WorkersInv'
    BY <1>1, <1>4, <2>3, <2>6, <2>8, OneWorker DEF Inv, TypeOK
  <2>10. CancelInv'
    BY <1>1, <2>5, CancelFrame DEF Inv
  <2>11. LossInv'
    <3>1. \A f \in Exec : status'[f] = "STALE" => status[f] = "STALE"
      BY <2>1, RowTypes DEF Inv
    <3> QED BY <1>1, <2>3, <2>5, <3>1, LossFrame DEF Inv
  <2> QED BY <2>3, <2>4, <2>9, <2>10, <2>11 DEF Inv
<1> QED BY <1>3, <1>4 DEF ClaimTx

LEMMA ClaimInv ==
  ASSUME Inv, NEW w \in Worker, NEW e \in Exec, Claim(w, e)
  PROVE  RowStep /\ Inv'
  BY ClaimTxInv DEF Claim

LEMMA ClaimAgainInv ==
  ASSUME Inv, NEW w \in Worker, ClaimAgain(w)
  PROVE  RowStep /\ Inv'
<1>1. exec[w] \in Exec
  BY DEF ClaimAgain, Inv, WorkersInv, WorkerInv
<1> QED BY <1>1, ClaimTxInv DEF ClaimAgain

LEMMA ClaimRecoveredInv ==
  ASSUME Inv, NEW w \in Worker, ClaimRecovered(w)
  PROVE  RowStep /\ Inv'
<1>1. /\ pc[w] = "pinned" /\ Owned(w, exec[w])
      /\ pc' = [pc EXCEPT ![w] = "running"]
      /\ UNCHANGED <<rowVars, cancelVars, exec, result, lost, signal, todo>>
  BY DEF ClaimRecovered, ReceiptHolds
<1>2. RowStep /\ RowsInv' /\ CancelInv' /\ LossInv'
  BY <1>1, PrivateStep DEF rowVars
<1>3. TypeOK'
  BY <1>1, <1>2 DEF Inv, TypeOK, RowsInv, rowVars, cancelVars, Alive
<1>4. WorkerInv(w)
  BY DEF Inv, WorkersInv
<1>5. pc'[w] = "running"
  BY <1>1 DEF Inv, TypeOK
<1>6. WorkerInv(w)'
  BY <1>1, <1>4, <1>5, QueueAssumption DEF WorkerInv, Owned, rowVars
<1>7. WorkersInv'
  BY <1>1, <1>2, <1>6, OneWorker DEF Inv, TypeOK, rowVars
<1> QED BY <1>2, <1>3, <1>7 DEF Inv

LEMMA HeartbeatInv ==
  ASSUME Inv, NEW w \in Worker, Heartbeat(w)
  PROVE  RowStep /\ Inv'
<1>1. /\ pc[w] \in Active
      /\ UNCHANGED <<status, marked, owner, due, notice, cancelVars, pc, exec, result, todo>>
      /\ expired' \in [Exec -> BOOLEAN] /\ lost' \in [Worker -> BOOLEAN]
      /\ signal' = signal \/ signal' = [signal EXCEPT ![w] = @ \/ marked[exec[w]]]
  BY DEF Heartbeat, Inv, TypeOK
<1>2. exec[w] \in Exec
  BY <1>1 DEF Inv, WorkersInv, WorkerInv, Active
<1>3. RowStep /\ RowsInv' /\ CancelInv' /\ LossInv'
  BY <1>1, PrivateStep
<1>4. TypeOK'
  <2>1. marked[exec[w]] \in BOOLEAN
    BY <1>2, RowTypes DEF Inv
  <2>2. signal' \in [Worker -> BOOLEAN]
    BY <1>1, <2>1 DEF Inv, TypeOK
  <2> QED BY <1>1, <1>3, <2>2 DEF Inv, TypeOK, RowsInv, cancelVars
<1>5. WorkerInv(w)
  BY DEF Inv, WorkersInv
<1>6. signal'[w] => marked[exec[w]]
  BY <1>1, <1>5 DEF WorkerInv, Inv, TypeOK
<1>7. WorkerInv(w)'
  BY <1>1, <1>5, <1>6 DEF WorkerInv, Active
<1>8. \A v \in Worker \ {w} : signal'[v] = signal[v]
  BY <1>1 DEF Inv, TypeOK
<1>9. WorkersInv'
  BY <1>1, <1>3, <1>7, <1>8, OneWorker
<1> QED BY <1>3, <1>4, <1>9 DEF Inv

LEMMA HandlerEndsInv ==
  ASSUME Inv, NEW w \in Worker, NEW r \in JL!Ended, HandlerEnds(w, r)
  PROVE  RowStep /\ Inv'
<1>1. /\ pc[w] = "running" /\ r \in Results /\ (r = "CANCELLED" => signal[w])
      /\ pc' = [pc EXCEPT ![w] = "record"] /\ result' = [result EXCEPT ![w] = r]
      /\ UNCHANGED <<rowVars, cancelVars, exec, lost, signal, todo>>
  BY DEF HandlerEnds, Results
<1>2. RowStep /\ RowsInv' /\ CancelInv' /\ LossInv'
  BY <1>1, PrivateStep DEF rowVars
<1>3. TypeOK'
  BY <1>1, <1>2 DEF Inv, TypeOK, RowsInv, rowVars, cancelVars, Alive, Results
<1>4. WorkerInv(w)
  BY DEF Inv, WorkersInv
<1>5. pc'[w] = "record" /\ result'[w] = r
  BY <1>1 DEF Inv, TypeOK
<1>6. WorkerInv(w)'
  BY <1>1, <1>4, <1>5 DEF WorkerInv, rowVars
<1>7. WorkersInv'
  BY <1>1, <1>2, <1>6, OneWorker DEF Inv, TypeOK, rowVars
<1> QED BY <1>2, <1>3, <1>7 DEF Inv

\* After T1 the Worker reflects the result the row really has, or forgets it.
LEMMA AfterCommitInv ==
  ASSUME Inv, NEW w \in Worker, pc[w] = "record", AfterCommit(w), RowStep,
         owner' = owner, status'[exec[w]] = result[w]
  PROVE  WorkersInv'
<1>1. WorkerInv(w)
  BY DEF Inv, WorkersInv
<1>2. CASE result[w] = "CANCELLED"
  <2>1. BackTo(w, "idle")
    BY <1>2 DEF AfterCommit
  <2>2. WorkerInv(w)'
    BY <2>1, QueueAssumption DEF Inv, TypeOK, BackTo, WorkerInv
  <2> QED BY <2>1, <2>2, OneWorker DEF BackTo, Inv, TypeOK
<1>3. CASE result[w] # "CANCELLED"
  <2>1. pc' = [pc EXCEPT ![w] = "reflect"] /\ UNCHANGED <<exec, result, lost, signal>>
    BY <1>3 DEF AfterCommit
  <2>2. pc'[w] = "reflect"
    BY <2>1 DEF Inv, TypeOK
  <2>3. exec[w] \in Exec /\ owner[exec[w]] = w
    BY <1>1 DEF WorkerInv
  <2>4. marked[exec[w]] => marked'[exec[w]]
    BY <2>3, RowsStep DEF JL!LegalStep, Exec, Inv
  <2>5. WorkerInv(w)'
    BY <1>1, <1>3, <2>1, <2>2, <2>3, <2>4 DEF WorkerInv, Results
  <2> QED BY <2>1, <2>5, OneWorker DEF Inv, TypeOK
<1> QED BY <1>2, <1>3

LEMMA AfterCommitType ==
  ASSUME TypeOK, NEW w \in Worker, AfterCommit(w)
  PROVE  /\ pc' \in [Worker -> {"off", "dead"} \union Alive]
         /\ exec' \in [Worker -> Exec \union {None}]
         /\ result' \in [Worker -> Results \union {None}]
         /\ lost' \in [Worker -> BOOLEAN] /\ signal' \in [Worker -> BOOLEAN]
<1>1. CASE BackTo(w, "idle")
  BY <1>1 DEF BackTo, TypeOK, Alive, Results
<1>2. CASE pc' = [pc EXCEPT ![w] = "reflect"] /\ UNCHANGED <<exec, result, lost, signal>>
  BY <1>2 DEF TypeOK, Alive, Results
<1> QED BY <1>1, <1>2 DEF AfterCommit

LEMMA RecordInv ==
  ASSUME Inv, NEW w \in Worker, Record(w)
  PROVE  RowStep /\ Inv'
<1> DEFINE e == exec[w]
<1>1. /\ pc[w] = "record" /\ status[e] = "RUNNING"
      /\ status' = [status EXCEPT ![e] = result[w]]
      /\ AfterCommit(w) \/ UNCHANGED workVars
      /\ UNCHANGED <<marked, owner, expired, due, notice, cancelVars, todo>>
  BY DEF Record, Owned
<1>2. e \in Exec /\ result[w] \in Results /\ (result[w] = "CANCELLED" => marked[e])
  BY <1>1 DEF Inv, WorkersInv, WorkerInv
<1>3. JL!Finish(e, result[w])
  BY <1>1, <1>2 DEF JL!Finish, Results
<1>4. RowStep /\ RowsInv'
  BY <1>2, <1>3, RowsStep DEF RowStep, JL!Next, Inv, Exec, Results, JL!Ended
<1>5. TypeOK'
  <2>1. CASE AfterCommit(w)
    BY <1>1, <1>4, <2>1, AfterCommitType DEF Inv, TypeOK, RowsInv, cancelVars, Results
  <2>2. CASE UNCHANGED workVars
    BY <1>1, <1>4, <2>2 DEF Inv, TypeOK, RowsInv, cancelVars, workVars
  <2> QED BY <1>1, <2>1, <2>2
<1>6. WorkersInv'
  <2>1. status'[e] = result[w]
    BY <1>1, <1>2, RowTypes DEF Inv
  <2>2. CASE AfterCommit(w)
    BY <1>1, <1>4, <2>1, <2>2, AfterCommitInv
  <2>3. CASE UNCHANGED workVars
    BY <1>1, <1>4, <2>3, WorkersFrame DEF Inv
  <2> QED BY <1>1, <2>2, <2>3
<1>7. \A f \in Exec : Exists(f)' <=> Exists(f)
  BY <1>1, <1>2, RowTypes DEF Exists, Inv, Results
<1>8. \A f \in Exec : status'[f] = "STALE" => status[f] = "STALE"
  BY <1>1, <1>2, RowTypes DEF Inv, Results
<1>9. CancelInv'
  BY <1>1, <1>7, CancelFrame DEF Inv
<1>10. LossInv'
  BY <1>1, <1>4, <1>7, <1>8, LossFrame DEF Inv
<1> QED BY <1>4, <1>5, <1>6, <1>9, <1>10 DEF Inv

LEMMA RecordReplayedInv ==
  ASSUME Inv, NEW w \in Worker, RecordReplayed(w)
  PROVE  RowStep /\ Inv'
<1>1. /\ pc[w] = "record" /\ UNCHANGED <<rowVars, cancelVars, todo>>
      /\ \/ AfterCommit(w) /\ status[exec[w]] = result[w]
         \/ BackTo(w, "idle")
  BY DEF RecordReplayed, OwnEarlierCommit
<1>2. RowStep /\ RowsInv' /\ CancelInv' /\ LossInv'
  BY <1>1, PrivateStep DEF rowVars
<1>3. todo' \in [Worker -> SUBSET Exec]
  BY <1>1 DEF Inv, TypeOK
<1>4. CASE BackTo(w, "idle")
  BY <1>1, <1>3, <1>4, BackToInv
<1>5. CASE AfterCommit(w) /\ status[exec[w]] = result[w]
  <2>1. WorkersInv'
    BY <1>1, <1>2, <1>5, AfterCommitInv DEF rowVars
  <2>2. TypeOK'
    BY <1>1, <1>2, <1>5, AfterCommitType DEF Inv, TypeOK, RowsInv, rowVars, cancelVars, Results
  <2> QED BY <1>2, <2>1, <2>2 DEF Inv
<1> QED BY <1>1, <1>4, <1>5

LEMMA SweepInv ==
  ASSUME Inv, NEW w \in Worker, NEW d \in Exec, Sweep(w, d)
  PROVE  RowStep /\ Inv'
<1> DEFINE n == NextAttempt(d)
           j == JobOf(d)
<1>1. /\ ~Locked(d) /\ status[d] = "RUNNING"
      /\ todo' = [todo EXCEPT ![w] = @ \ {d}]
      /\ UNCHANGED <<marked, owner, expired, due, cancelVars, workVars>>
  BY DEF Sweep, RowFree, Stale
<1>2. j \in Job /\ JobOf(n) = j /\ AttemptOf(n) = AttemptOf(d) + 1 /\ n # d
  BY ExecFacts
<1>3. \/ /\ JL!ShouldRetry(d) /\ n \in Exec /\ AttemptOf(n) <= RetryMax + 1
         /\ status' = [status EXCEPT ![d] = "STALE", ![n] = "QUEUED"]
         /\ notice' = notice
      \/ /\ ~JL!ShouldRetry(d)
         /\ status' = [status EXCEPT ![d] = "STALE"]
         /\ notice' = [notice EXCEPT ![j] = @ \/ NoticeDue(d)]
  BY ExecFacts, QueueAssumption DEF Sweep, JL!ShouldRetry, AttemptOf
<1>4. JL!Lose(d)
  BY <1>1, <1>3 DEF JL!Lose, NextAttempt
<1>5. RowStep /\ RowsInv'
  BY <1>4, RowsStep DEF RowStep, JL!Next, Inv, Exec
<1>6. notice' \in [Job -> BOOLEAN]
  <2>1. NoticeDue(d) \in BOOLEAN
    BY RowTypes DEF NoticeDue, Inv
  <2> QED BY <1>3, <2>1 DEF Inv, TypeOK
<1>7. TypeOK'
  BY <1>1, <1>5, <1>6 DEF Inv, TypeOK, RowsInv, cancelVars, workVars
<1>8. WorkersInv'
  BY <1>1, <1>5, WorkersFrame DEF Inv
<1>9. \A f \in Exec : (JobOf(f) = j /\ f # d) => status[f] \in {"NONE", "STALE"}
  <2> SUFFICES ASSUME NEW f \in Exec, JobOf(f) = j, f # d
               PROVE  status[f] \in {"NONE", "STALE"}
    OBVIOUS
  <2>1. CASE AttemptOf(f) < AttemptOf(d)
    BY <1>1, <2>1, Chain DEF Inv, Exists
  <2>2. CASE AttemptOf(d) < AttemptOf(f)
    BY <1>1, <2>2, Chain DEF Inv, Exists
  <2> QED BY <2>1, <2>2, ExecFacts, SameExec
<1>10. JL!ShouldRetry(d) => ~Exists(n)
  BY <1>1, <1>2, <1>3, ExecFacts, Chain DEF Inv
<1> HIDE DEF n, j
<1>11. \A f \in Exec : f # d /\ f # n => status'[f] = status[f]
  BY <1>3, RowTypes DEF Inv
<1>12. status'[d] = "STALE"
  BY <1>2, <1>3, RowTypes DEF Inv
<1>13. CancelInv'
  <2>1. cancelTx[j] # "write"
    BY <1>1 DEF CancelInv, Inv, Exists, j
  <2>2. \A f \in Exec : Exists(f) => Exists(f)'
    BY <1>2, <1>3, RowTypes DEF Exists, Inv
  <2>3. \A f \in Exec : JobOf(f) # j => (Exists(f)' <=> Exists(f))
    BY <1>2, <1>11 DEF Exists, j
  <2>4. \A f \in Exec : Locked(f)' <=> Locked(f)
    BY <1>1 DEF cancelVars, Locked
  <2>5. \A f \in Exec : cancelTx'[JobOf(f)] = "write" => JobOf(f) # j
    BY <1>1, <2>1 DEF cancelVars
  <2> QED BY <1>1, <2>2, <2>3, <2>4, <2>5 DEF CancelInv, Inv, cancelVars
<1>14. LossInv'
  <2>1. CASE JL!ShouldRetry(d)
    <3>1. /\ n \in Exec /\ status' = [status EXCEPT ![d] = "STALE", ![n] = "QUEUED"]
          /\ notice' = notice /\ status'[n] = "QUEUED"
      BY <1>3, <2>1, RowTypes DEF Inv
    <3>2. NextExists(d)'
      BY <3>1 DEF NextExists, Exists, n
    <3>3. \A f \in Exec : Exists(f) => Exists(f)'
      BY <3>1, RowTypes DEF Exists, Inv
    <3>4. \A f \in Exec : NextExists(f) => NextExists(f)'
      BY <3>3 DEF NextExists
    <3>5. ~notice[j]
      BY <1>1 DEF LossInv, Inv, j
    <3>6. ASSUME NEW f \in Exec, status'[f] = "STALE", ~NextExists(f)', ~marked'[f]
          PROVE  AttemptOf(f) > RetryMax /\ (JobOf(f) \in Hint => notice'[JobOf(f)])
      <4>1. f # d /\ f # n
        BY <3>1, <3>2, <3>6
      <4> QED BY <4>1, <1>1, <1>11, <3>1, <3>4, <3>6 DEF LossInv, Inv
    <3>7. ASSUME NEW f \in Exec, notice'[JobOf(f)]
          PROVE  status'[f] \in {"NONE", "STALE"}
      BY <3>1, <3>5, <3>7, <1>2, <1>11, <1>12 DEF LossInv, Inv
    <3>8. ASSUME NEW i \in Job, notice'[i] PROVE Exists(<<i, 1>>)'
      BY <3>1, <3>3, <3>8, FirstExec DEF LossInv, Inv
    <3> QED BY <3>6, <3>7, <3>8 DEF LossInv
  <2>2. CASE ~JL!ShouldRetry(d)
    <3>1. /\ status' = [status EXCEPT ![d] = "STALE"]
          /\ notice' = [notice EXCEPT ![j] = @ \/ NoticeDue(d)]
      BY <1>3, <2>2
    <3>2. marked[d] \/ AttemptOf(d) > RetryMax
      BY <2>2, ExecFacts, QueueAssumption DEF JL!ShouldRetry, AttemptOf, Inv
    <3>3. \A f \in Exec : Exists(f)' <=> Exists(f)
      BY <1>1, <3>1, RowTypes DEF Exists, Inv
    <3>4. \A f \in Exec : NextExists(f)' <=> NextExists(f)
      BY <3>3 DEF NextExists
    <3>5. /\ \A i \in Job : notice[i] => notice'[i]
          /\ \A i \in Job : i # j => notice'[i] = notice[i]
          /\ (~marked[d] /\ j \in Hint) => notice'[j]
      BY <3>1, <1>2 DEF Inv, TypeOK, NoticeDue, j
    <3>6. ASSUME NEW f \in Exec, status'[f] = "STALE", ~NextExists(f)', ~marked'[f]
          PROVE  AttemptOf(f) > RetryMax /\ (JobOf(f) \in Hint => notice'[JobOf(f)])
      <4>1. CASE f = d
        BY <4>1, <3>2, <3>5, <3>6, <1>1 DEF j
      <4>2. CASE f # d
        <5>1. status[f] = "STALE" /\ ~NextExists(f) /\ ~marked[f]
          BY <4>2, <3>1, <3>4, <3>6, <1>1, RowTypes DEF Inv
        <5> QED BY <5>1, <3>5, ExecFacts DEF LossInv, Inv
      <4> QED BY <4>1, <4>2
    <3>7. ASSUME NEW f \in Exec, notice'[JobOf(f)]
          PROVE  status'[f] \in {"NONE", "STALE"}
      <4>1. CASE f = d
        BY <4>1, <1>12
      <4>2. CASE f # d /\ JobOf(f) = j
        BY <4>2, <1>9, <3>1, RowTypes DEF Inv
      <4>3. CASE f # d /\ JobOf(f) # j
        BY <4>3, <3>1, <3>5, <3>7, ExecFacts, RowTypes DEF LossInv, Inv
      <4> QED BY <4>1, <4>2, <4>3
    <3>8. ASSUME NEW i \in Job, notice'[i] PROVE Exists(<<i, 1>>)'
      <4>1. CASE i # j
        BY <4>1, <3>3, <3>5, <3>8, FirstExec DEF LossInv, Inv
      <4>2. CASE i = j
        <5>1. <<j, 1>> \in Exec /\ JobOf(<<j, 1>>) = j /\ AttemptOf(<<j, 1>>) = 1
          BY <1>2, FirstExec
        <5>2. CASE AttemptOf(d) = 1
          BY <4>2, <5>1, <5>2, <1>12, SameExec DEF Exists, j
        <5>3. CASE AttemptOf(d) # 1
          <6>1. AttemptOf(<<j, 1>>) < AttemptOf(d)
            BY <5>1, <5>3, ExecFacts
          <6>2. Exists(<<j, 1>>)
            BY <5>1, <6>1, <1>1, Chain DEF Exists, Inv, j
          <6> QED BY <4>2, <5>1, <6>2, <3>3
        <5> QED BY <5>2, <5>3
      <4> QED BY <4>1, <4>2
    <3> QED BY <3>6, <3>7, <3>8 DEF LossInv
  <2> QED BY <2>1, <2>2
<1> QED BY <1>5, <1>7, <1>8, <1>13, <1>14 DEF Inv

-----------------------------------------------------------------------------
(* The theorems.                                                           *)

LEMMA NextInv ==
  ASSUME Inv, [Next]_vars
  PROVE  RowStep /\ Inv'
<1>1. CASE UNCHANGED vars
  <2>1. UNCHANGED <<rowVars, cancelVars, workVars, todo>>
    BY <1>1 DEF vars
  <2>2. RowStep /\ RowsInv' /\ CancelInv' /\ LossInv'
    BY <2>1, PrivateStep DEF rowVars
  <2>3. TypeOK'
    BY <2>1, <2>2 DEF Inv, TypeOK, RowsInv, rowVars, cancelVars, workVars
  <2>4. WorkersInv'
    BY <2>1, <2>2, WorkersFrame DEF Inv, rowVars
  <2> QED BY <2>2, <2>3, <2>4 DEF Inv
<1>2. ASSUME NEW j \in Job, Enqueue(j) PROVE RowStep /\ Inv'
  BY <1>2, EnqueueInv
<1>3. ASSUME NEW j \in Job, CancelStep(j) PROVE RowStep /\ Inv'
  BY <1>3, CancelLockInv, CancelScannedInv, CancelCommitInv, CancelRollbackInv DEF CancelStep
<1>4. ASSUME NEW e \in Exec, LeaseExpires(e) \/ BackoffElapses(e) PROVE RowStep /\ Inv'
  BY <1>4, ClockInv
<1>5. ASSUME NEW w \in Worker, WorkerStep(w) PROVE RowStep /\ Inv'
  <2>1. CASE Start(w) \/ Scan(w) \/ GateOpens(w) \/ PassFails(w)
    BY <2>1, GateInv
  <2>2. CASE Crash(w) \/ ClaimGivenUp(w) \/ RecordRefused(w) \/ ReflectDone(w)
    BY <2>2, ForgetInv
  <2>3. CASE ClaimAgain(w)
    BY <2>3, ClaimAgainInv
  <2>4. CASE ClaimRecovered(w)
    BY <2>4, ClaimRecoveredInv
  <2>5. CASE Heartbeat(w)
    BY <2>5, HeartbeatInv
  <2>6. CASE Record(w)
    BY <2>6, RecordInv
  <2>7. CASE RecordReplayed(w)
    BY <2>7, RecordReplayedInv
  <2>8. CASE \E r \in JL!Ended : HandlerEnds(w, r)
    BY <2>8, HandlerEndsInv
  <2>9. CASE \E e \in Exec : Claim(w, e) \/ Sweep(w, e) \/ SweepSkips(w, e)
    BY <2>9, ClaimInv, SweepInv, SweepSkipsInv
  <2> QED BY <1>5, <2>1, <2>2, <2>3, <2>4, <2>5, <2>6, <2>7, <2>8, <2>9 DEF WorkerStep
<1> QED BY <1>1, <1>2, <1>3, <1>4, <1>5 DEF Next

\* The inductive invariant holds in every behaviour of the queue.
THEOREM QueueInvariant == Spec => []Inv
<1>1. Inv /\ [Next]_vars => Inv'
  BY NextInv
<1> QED BY InitInv, <1>1, PTL DEF Spec

\* Type correctness of rows, notices, cancel transactions and processes.
THEOREM QueueTyped == Spec => []TypeOK
<1>1. Inv => TypeOK
  BY DEF Inv
<1> QED BY <1>1, QueueInvariant, PTL

\* The queue implements JobLifecycle: every committed transaction of the API,
\* of a Worker or of a sweeper is one step of the life cycle or none at all.
THEOREM QueueImplementsLifecycle == Spec => Lifecycle
<1>1. Init => JL!Init
  BY DEF Init
<1>2. Inv /\ [Next]_vars => [JL!Next]_JL!lifecycleVars
  BY NextInv DEF RowStep, JL!lifecycleVars
<1> QED BY <1>1, <1>2, QueueInvariant, PTL DEF Spec, Lifecycle, JL!Spec

\* No execution is dispatched by two Workers, whatever became of the
\* acknowledgements of their claims (claim_one's pinned receipt).
THEOREM DispatchIsExclusive == Spec => []NoDoubleDispatch
<1>1. Inv => NoDoubleDispatch
  BY DEF Inv, WorkersInv, WorkerInv, NoDoubleDispatch, Active
<1> QED BY <1>1, QueueInvariant, PTL

\* A Worker reflects a result only when that result is durably in its row.
THEOREM ReflectionIsDurable == Spec => []ReflectsDurableResult
<1>1. Inv => ReflectsDurableResult
  BY DEF Inv, WorkersInv, WorkerInv, ReflectsDurableResult
<1> QED BY <1>1, QueueInvariant, PTL

\* No job whose last attempt was lost is forgotten, and no notice is given of
\* a job that may still produce a result.
THEOREM LostJobsAreAccounted == Spec => []LostJobAccounted
<1>1. Inv => LostJobAccounted
  BY DEF Inv, LossInv, LostJobAccounted, NextExists, Exists
<1> QED BY <1>1, QueueInvariant, PTL

\* CANCELLED is written only for a job somebody asked to stop; inherited from
\* the life cycle through the refinement.
THEOREM CancelledOnlyOnRequest == Spec => []CancelledWasRequested
<1>1. JL!Spec => JLP!Spec
  BY SameLifecycle, PTL DEF JL!Spec, JLP!Spec, JL!lifecycleVars, JLP!lifecycleVars
<1>2. JLP!Spec => []JLP!CancelledWasRequested
  BY JLP!CancelledIsRequested, QueueAssumption DEF JLP!RetryMaxAssumption
<1>3. JLP!CancelledWasRequested <=> CancelledWasRequested
  BY DEF JLP!CancelledWasRequested, CancelledWasRequested, JL!CancelledWasRequested,
     JLP!Exec, JL!Exec, JLP!Attempt, JL!Attempt
<1> QED BY <1>1, <1>2, <1>3, QueueImplementsLifecycle, PTL DEF Lifecycle

-----------------------------------------------------------------------------
Loses(e) == status[e] = "RUNNING" /\ status'[e] = "STALE"

LEMMA OnlySweepLoses ==
  ASSUME Inv, [Next]_vars, NEW e \in Exec, Loses(e)
  PROVE  expired[e]
<1> USE DEF Loses
<1>1. CASE UNCHANGED <<status>>
  BY <1>1
<1>2. ASSUME NEW j \in Job, Enqueue(j) \/ CancelStep(j) PROVE expired[e]
  BY <1>2, RowTypes DEF Inv, Enqueue, CancelStep, CancelLock, CancelScanned, CancelCommit,
     CancelRollback, rowVars
<1>3. ASSUME NEW w \in Worker, NEW f \in Exec, ClaimTx(w, f) PROVE expired[e]
  BY <1>3, RowTypes DEF Inv, ClaimTx, WriteClaim, rowVars
<1>4. ASSUME NEW w \in Worker, Record(w) PROVE expired[e]
  <2>1. status' = [status EXCEPT ![exec[w]] = result[w]] /\ result[w] \in Results
    BY <1>4 DEF Record, Inv, WorkersInv, WorkerInv
  <2> QED BY <2>1, RowTypes DEF Inv, Results
<1>5. ASSUME NEW w \in Worker, NEW f \in Exec, Sweep(w, f) PROVE expired[e]
  <2>1. CASE e = f
    BY <1>5, <2>1 DEF Sweep, Stale
  <2>2. CASE e # f
    BY <1>5, <2>2, RowTypes DEF Inv, Sweep
  <2> QED BY <2>1, <2>2
<1>6. ASSUME NEW w \in Worker, WorkerStep(w) PROVE expired[e]
  <2>1. CASE UNCHANGED status
    BY <2>1
  <2>2. CASE ClaimAgain(w)
    <3>1. exec[w] \in Exec
      BY <2>2 DEF ClaimAgain, Inv, WorkersInv, WorkerInv
    <3> QED BY <2>2, <3>1, <1>3 DEF ClaimAgain
  <2>3. CASE \E f \in Exec : Claim(w, f)
    BY <2>3, <1>3 DEF Claim
  <2>4. CASE Record(w) \/ \E f \in Exec : Sweep(w, f)
    BY <2>4, <1>4, <1>5
  <2> QED BY <1>6, <2>1, <2>2, <2>3, <2>4
      DEF WorkerStep, Start, Crash, Scan, GateOpens, PassFails, ClaimRecovered, ClaimGivenUp,
          Heartbeat, RecordRefused, RecordReplayed, ReflectDone, HandlerEnds, SweepSkips, rowVars
<1> QED BY <1>1, <1>2, <1>6 DEF Next, LeaseExpires, BackoffElapses, vars, rowVars

\* A lease that has not expired is never taken away, however old the unlocked
\* scan of the sweeper is.
THEOREM LiveLeasesAreKept == Spec => LiveLeaseKept
<1>1. Inv /\ [Next]_vars =>
        [\A e \in Exec : (status[e] = "RUNNING" /\ status'[e] = "STALE") => expired[e]]_vars
  BY OnlySweepLoses DEF Loses
<1> QED BY <1>1, QueueInvariant, PTL DEF Spec, LiveLeaseKept
=============================================================================
