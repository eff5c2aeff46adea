-------------------------- MODULE JobLifecycleProofs --------------------------
(* Proofs about JobLifecycle for every set of jobs and every retry bound.  *)
EXTENDS JobLifecycle, TLAPS

\* Only rows that exist carry a cancel request.
MarkedExists == \A e \in Exec : marked[e] => Exists(e)

\* The inductive invariant.  CancelSticks needs MarkedExists and AttemptChain
\* for Submit: a job whose first row does not exist has no marked row at all.
IInv == /\ LifecycleTypeOK
        /\ AttemptChain
        /\ MarkedExists
        /\ CancelSticks
        /\ RetryBounded

LEMMA ExecFacts ==
  ASSUME NEW e \in Exec
  PROVE  /\ e = <<JobOf(e), AttemptOf(e)>>
         /\ JobOf(e) \in Job
         /\ AttemptOf(e) \in Attempt
         /\ AttemptOf(e) \in Nat
         /\ AttemptOf(e) >= 1
  BY RetryMaxAssumption DEF Exec, JobOf, AttemptOf, Attempt

LEMMA FirstAttempt ==
  ASSUME NEW j \in Job
  PROVE  /\ <<j, 1>> \in Exec
         /\ JobOf(<<j, 1>>) = j
         /\ AttemptOf(<<j, 1>>) = 1
  BY RetryMaxAssumption DEF Exec, JobOf, AttemptOf, Attempt

LEMMA NextFacts ==
  ASSUME NEW e \in Exec
  PROVE  /\ JobOf(NextAttempt(e)) = JobOf(e)
         /\ AttemptOf(NextAttempt(e)) = AttemptOf(e) + 1
         /\ NextAttempt(e) # e
         /\ AttemptOf(e) <= RetryMax => NextAttempt(e) \in Exec
  BY RetryMaxAssumption DEF Exec, JobOf, AttemptOf, Attempt, NextAttempt

LEMMA SameExec ==
  ASSUME NEW e \in Exec, NEW f \in Exec,
         JobOf(e) = JobOf(f), AttemptOf(e) = AttemptOf(f)
  PROVE  e = f
  BY DEF Exec, JobOf, AttemptOf

LEMMA InitIInv == Init => IInv
  BY DEF Init, IInv, LifecycleTypeOK, AttemptChain, MarkedExists, CancelSticks,
         RetryBounded, Exists, Status

-----------------------------------------------------------------------------
LEMMA SubmitIInv ==
  ASSUME IInv, NEW j \in Job, Submit(j)
  PROVE  IInv'
<1> DEFINE d == <<j, 1>>
<1> USE DEF IInv
<1>1. d \in Exec /\ JobOf(d) = j /\ AttemptOf(d) = 1
  BY FirstAttempt
<1>2. status' = [status EXCEPT ![d] = "QUEUED"] /\ marked' = marked /\ status[d] = "NONE"
  BY DEF Submit
<1> HIDE DEF d
<1>3. \A f \in Exec : JobOf(f) = j => ~Exists(f) /\ ~marked[f]
  <2> SUFFICES ASSUME NEW f \in Exec, JobOf(f) = j
               PROVE  ~Exists(f)
    BY DEF MarkedExists
  <2>1. CASE AttemptOf(f) = 1
    BY <2>1, <1>1, <1>2, SameExec DEF Exists
  <2>2. CASE AttemptOf(f) # 1
    <3>1. AttemptOf(d) < AttemptOf(f)
      BY <2>2, <1>1, ExecFacts
    <3> QED
      BY <3>1, <1>1, <1>2 DEF AttemptChain
  <2> QED BY <2>1, <2>2
<1>4. LifecycleTypeOK'
  BY <1>1, <1>2 DEF LifecycleTypeOK, Status, Live
<1>5. AttemptChain'
  <2> SUFFICES ASSUME NEW e \in Exec, NEW f \in Exec,
                      JobOf(e) = JobOf(f), AttemptOf(e) < AttemptOf(f), Exists(f)'
               PROVE  status'[e] = "STALE"
    BY DEF AttemptChain
  <2>1. f # d
    BY <1>1, ExecFacts
  <2>2. Exists(f)
    BY <2>1, <1>2 DEF Exists, LifecycleTypeOK
  <2>3. e # d
    BY <2>2, <1>3, <1>1
  <2> QED
    BY <2>2, <2>3, <1>2 DEF AttemptChain, LifecycleTypeOK
<1>6. MarkedExists'
  BY <1>1, <1>2 DEF MarkedExists, Exists, LifecycleTypeOK
<1>7. CancelSticks'
  BY <1>1, <1>2, <1>3 DEF CancelSticks, LifecycleTypeOK
<1>8. RetryBounded'
  BY <1>1, <1>2, RetryMaxAssumption DEF RetryBounded, Exists, LifecycleTypeOK
<1> QED BY <1>4, <1>5, <1>6, <1>7, <1>8

LEMMA BeginIInv ==
  ASSUME IInv, NEW d \in Exec, Begin(d)
  PROVE  IInv'
<1> USE DEF IInv
<1>1. status[d] = "QUEUED" /\ status' = [status EXCEPT ![d] = "RUNNING"] /\ marked' = marked
  BY DEF Begin
<1>2. \A e \in Exec : Exists(e)' <=> Exists(e)
  BY <1>1 DEF Exists, LifecycleTypeOK
<1>3. \A e \in Exec : status[e] = "STALE" => status'[e] = "STALE"
  BY <1>1 DEF LifecycleTypeOK
<1>4. LifecycleTypeOK'
  BY <1>1 DEF LifecycleTypeOK, Status, Live
<1>5. AttemptChain'
  BY <1>2, <1>3 DEF AttemptChain
<1>6. MarkedExists'
  BY <1>1, <1>2 DEF MarkedExists
<1>7. CancelSticks'
  BY <1>1 DEF CancelSticks, LifecycleTypeOK
<1>8. RetryBounded'
  BY <1>2 DEF RetryBounded
<1> QED BY <1>4, <1>5, <1>6, <1>7, <1>8

LEMMA FinishIInv ==
  ASSUME IInv, NEW d \in Exec, NEW s \in Ended, Finish(d, s)
  PROVE  IInv'
<1> USE DEF IInv
<1>1. /\ status[d] = "RUNNING" /\ status' = [status EXCEPT ![d] = s] /\ marked' = marked
      /\ s \in {"SUCCEEDED", "FAILED", "CANCELLED"}
  BY DEF Finish
<1>2. \A e \in Exec : Exists(e)' <=> Exists(e)
  BY <1>1 DEF Exists, LifecycleTypeOK
<1>3. \A e \in Exec : status[e] = "STALE" => status'[e] = "STALE"
  BY <1>1 DEF LifecycleTypeOK
<1>4. LifecycleTypeOK'
  BY <1>1 DEF LifecycleTypeOK, Status, Ended
<1>5. AttemptChain'
  BY <1>2, <1>3 DEF AttemptChain
<1>6. MarkedExists'
  BY <1>1, <1>2 DEF MarkedExists
<1>7. CancelSticks'
  BY <1>1 DEF CancelSticks, LifecycleTypeOK
<1>8. RetryBounded'
  BY <1>2 DEF RetryBounded
<1> QED BY <1>4, <1>5, <1>6, <1>7, <1>8

LEMMA LoseIInv ==
  ASSUME IInv, NEW d \in Exec, Lose(d)
  PROVE  IInv'
<1> DEFINE n == NextAttempt(d)
<1> USE DEF IInv
<1>1. status[d] = "RUNNING" /\ marked' = marked
  BY DEF Lose
<1>2. CASE ~ShouldRetry(d)
  <2>1. status' = [status EXCEPT ![d] = "STALE"]
    BY <1>2 DEF Lose
  <2>2. \A e \in Exec : Exists(e)' <=> Exists(e)
    BY <1>1, <2>1 DEF Exists, LifecycleTypeOK
  <2>3. LifecycleTypeOK'
    BY <1>1, <2>1 DEF LifecycleTypeOK, Status, Ended
  <2>4. AttemptChain'
    BY <2>1, <2>2 DEF AttemptChain, LifecycleTypeOK
  <2>5. MarkedExists'
    BY <1>1, <2>2 DEF MarkedExists
  <2>6. CancelSticks'
    BY <1>1, <2>1 DEF CancelSticks, LifecycleTypeOK
  <2>7. RetryBounded'
    BY <2>2 DEF RetryBounded
  <2> QED BY <2>3, <2>4, <2>5, <2>6, <2>7
<1>3. CASE ShouldRetry(d)
  <2>1. status' = [status EXCEPT ![d] = "STALE", ![n] = "QUEUED"]
    BY <1>3 DEF Lose
  <2>2. /\ n \in Exec /\ n # d /\ JobOf(n) = JobOf(d)
        /\ AttemptOf(n) = AttemptOf(d) + 1 /\ AttemptOf(n) <= RetryMax + 1
    BY <1>3, NextFacts, ExecFacts, RetryMaxAssumption DEF ShouldRetry
  <2> HIDE DEF n
  <2>3. \A e \in Exec : e # n => (Exists(e)' <=> Exists(e))
    BY <1>1, <2>1 DEF Exists, LifecycleTypeOK
  <2>4. \A f \in Exec : (JobOf(f) = JobOf(d) /\ AttemptOf(f) >= AttemptOf(n)) => ~Exists(f)
    <3> SUFFICES ASSUME NEW f \in Exec, JobOf(f) = JobOf(d),
                        AttemptOf(f) >= AttemptOf(n), Exists(f)
                 PROVE  FALSE
      OBVIOUS
    <3>1. AttemptOf(d) < AttemptOf(f)
      BY <2>2, ExecFacts
    <3> QED BY <3>1, <1>1 DEF AttemptChain
  <2>5. LifecycleTypeOK'
    BY <1>1, <2>1, <2>2 DEF LifecycleTypeOK, Status, Ended, Live
  <2>6. AttemptChain'
    <3> SUFFICES ASSUME NEW e \in Exec, NEW f \in Exec,
                        JobOf(e) = JobOf(f), AttemptOf(e) < AttemptOf(f), Exists(f)'
                 PROVE  status'[e] = "STALE"
      BY DEF AttemptChain
    <3>1. CASE f # n
      <4>1. Exists(f)
        BY <3>1, <2>3
      <4>2. status[e] = "STALE"
        BY <4>1 DEF AttemptChain
      <4>3. e # n
        BY <4>2, <2>4, <2>2, ExecFacts DEF Exists
      <4> QED BY <4>2, <4>3, <2>1 DEF LifecycleTypeOK
    <3>2. CASE f = n
      <4>1. e # n /\ JobOf(e) = JobOf(d) /\ AttemptOf(e) <= AttemptOf(d)
        BY <3>2, <2>2, ExecFacts
      <4>2. CASE AttemptOf(e) = AttemptOf(d)
        BY <4>1, <4>2, <2>1, SameExec DEF LifecycleTypeOK
      <4>3. CASE AttemptOf(e) < AttemptOf(d)
        <5>1. status[e] = "STALE"
          BY <4>1, <4>3, <1>1 DEF AttemptChain, Exists
        <5> QED BY <5>1, <4>1, <2>1 DEF LifecycleTypeOK
      <4> QED BY <4>1, <4>2, <4>3, ExecFacts
    <3> QED BY <3>1, <3>2
  <2>7. MarkedExists'
    BY <1>1, <2>1, <2>2, <2>3 DEF MarkedExists, Exists, LifecycleTypeOK
  <2>8. \A f \in Exec : JobOf(f) = JobOf(d) => ~marked[f]
    BY <1>1, <1>3 DEF CancelSticks, ShouldRetry
  <2>9. CancelSticks'
    BY <1>1, <2>1, <2>2, <2>8 DEF CancelSticks, LifecycleTypeOK
  <2>10. RetryBounded'
    BY <2>2, <2>3 DEF RetryBounded
  <2> QED BY <2>5, <2>6, <2>7, <2>9, <2>10
<1> QED BY <1>2, <1>3

LEMMA CancelIInv ==
  ASSUME IInv, NEW j \in Job, Cancel(j)
  PROVE  IInv'
<1> USE DEF IInv
<1> DEFINE Hit(e) == JobOf(e) = j
<1>1. /\ status' = [e \in Exec |-> IF Hit(e) /\ status[e] = "QUEUED" THEN "CANCELLED" ELSE status[e]]
      /\ marked' = [e \in Exec |-> marked[e] \/ (Hit(e) /\ status[e] \in Live \union {"STALE"})]
  BY DEF Cancel
<1>2. \A e \in Exec : Exists(e)' <=> Exists(e)
  BY <1>1 DEF Exists
<1>3. \A e \in Exec : status[e] = "STALE" => status'[e] = "STALE"
  BY <1>1
<1>4. LifecycleTypeOK'
  BY <1>1 DEF LifecycleTypeOK, Status, Ended
<1>5. AttemptChain'
  BY <1>2, <1>3 DEF AttemptChain
<1>6. MarkedExists'
  BY <1>1, <1>2 DEF MarkedExists, Exists, Live
<1>7. CancelSticks'
  BY <1>1 DEF CancelSticks, Live
<1>8. RetryBounded'
  BY <1>2 DEF RetryBounded
<1> QED BY <1>4, <1>5, <1>6, <1>7, <1>8

LEMMA StepIInv == IInv /\ [Next]_lifecycleVars => IInv'
<1> SUFFICES ASSUME IInv, [Next]_lifecycleVars PROVE IInv'
  OBVIOUS
<1>1. CASE UNCHANGED lifecycleVars
  BY <1>1 DEF lifecycleVars, IInv, LifecycleTypeOK, AttemptChain, MarkedExists,
              CancelSticks, RetryBounded, Exists
<1>2. ASSUME NEW j \in Job, Submit(j) PROVE IInv'
  BY <1>2, SubmitIInv
<1>3. ASSUME NEW j \in Job, Cancel(j) PROVE IInv'
  BY <1>3, CancelIInv
<1>4. ASSUME NEW e \in Exec, Begin(e) PROVE IInv'
  BY <1>4, BeginIInv
<1>5. ASSUME NEW e \in Exec, Lose(e) PROVE IInv'
  BY <1>5, LoseIInv
<1>6. ASSUME NEW e \in Exec, NEW s \in Ended, Finish(e, s) PROVE IInv'
  BY <1>6, FinishIInv
<1> QED BY <1>1, <1>2, <1>3, <1>4, <1>5, <1>6 DEF Next

\* The inductive invariant holds in every behaviour of the life cycle.
THEOREM LifecycleInvariant == Spec => []IInv
  BY InitIInv, StepIInv, PTL DEF Spec

\* Statuses and marks stay in their domains (job_execution's CHECKs).
THEOREM LifecycleTyped == Spec => []LifecycleTypeOK
<1>1. IInv => LifecycleTypeOK
  BY DEF IInv
<1> QED BY <1>1, LifecycleInvariant, PTL

\* At most one attempt of a job is live and results are final: the attempts of
\* a job form a chain of STALE rows (sweep.py).
THEOREM AttemptsChain == Spec => []AttemptChain
<1>1. IInv => AttemptChain
  BY DEF IInv
<1> QED BY <1>1, LifecycleInvariant, PTL

\* No attempt of a job is queued once a cancel request is on any of its rows
\* (request_cancel against sweep_expired).
THEOREM CancelIsFinal == Spec => []CancelSticks
<1>1. IInv => CancelSticks
  BY DEF IInv
<1> QED BY <1>1, LifecycleInvariant, PTL

\* Automatic retries never exceed stale_retry_max.
THEOREM RetriesBounded == Spec => []RetryBounded
<1>1. IInv => RetryBounded
  BY DEF IInv
<1> QED BY <1>1, LifecycleInvariant, PTL

-----------------------------------------------------------------------------
LEMMA StepLegal == IInv /\ [Next]_lifecycleVars => [LegalStep]_lifecycleVars
<1> SUFFICES ASSUME IInv, Next PROVE LegalStep
  OBVIOUS
<1> USE DEF IInv, Ended
<1>1. ASSUME NEW j \in Job, Submit(j) PROVE LegalStep
  BY <1>1, FirstAttempt DEF Submit, LegalStep, LifecycleTypeOK
<1>2. ASSUME NEW j \in Job, Cancel(j) PROVE LegalStep
  BY <1>2 DEF Cancel, LegalStep, LifecycleTypeOK
<1>3. ASSUME NEW e \in Exec, Begin(e) PROVE LegalStep
  BY <1>3 DEF Begin, LegalStep, LifecycleTypeOK
<1>4. ASSUME NEW e \in Exec, NEW s \in Ended, Finish(e, s) PROVE LegalStep
  BY <1>4 DEF Finish, LegalStep, LifecycleTypeOK
<1>5. ASSUME NEW e \in Exec, Lose(e) PROVE LegalStep
  <2>1. CASE ~ShouldRetry(e)
    BY <1>5, <2>1 DEF Lose, LegalStep, LifecycleTypeOK
  <2>2. CASE ShouldRetry(e)
    <3> DEFINE n == NextAttempt(e)
    <3>1. n \in Exec /\ n # e /\ JobOf(n) = JobOf(e) /\ AttemptOf(e) < AttemptOf(n)
      BY <2>2, NextFacts, ExecFacts DEF ShouldRetry
    <3>2. status[e] = "RUNNING" /\ marked' = marked
          /\ status' = [status EXCEPT ![e] = "STALE", ![n] = "QUEUED"]
      BY <1>5, <2>2 DEF Lose
    <3> HIDE DEF n
    <3>3. status[n] = "NONE"
      BY <3>1, <3>2 DEF AttemptChain, Exists
    <3> QED BY <3>1, <3>2, <3>3 DEF LegalStep, LifecycleTypeOK
  <2> QED BY <2>1, <2>2
<1> QED BY <1>1, <1>2, <1>3, <1>4, <1>5 DEF Next

\* Every step follows validate_transition's table: a result is never
\* overwritten, a row never goes back, a mark is never taken away.
THEOREM StepsAreLegal == Spec => LegalSteps
  BY LifecycleInvariant, StepLegal, PTL DEF Spec, LegalSteps

\* Cancellation is always somebody's request: an execution that has not
\* started is cancelled with its mark, one that runs stops only after it.
LEMMA CancelledStep ==
  ASSUME IInv, CancelledWasRequested, [Next]_lifecycleVars
  PROVE  CancelledWasRequested'
<1> USE DEF IInv, LifecycleTypeOK, CancelledWasRequested
<1>1. CASE UNCHANGED lifecycleVars
  BY <1>1 DEF lifecycleVars
<1>2. ASSUME NEW j \in Job, Submit(j) PROVE CancelledWasRequested'
  BY <1>2 DEF Submit
<1>3. ASSUME NEW j \in Job, Cancel(j) PROVE CancelledWasRequested'
  BY <1>3 DEF Cancel, Live
<1>4. ASSUME NEW e \in Exec, Begin(e) PROVE CancelledWasRequested'
  BY <1>4 DEF Begin
<1>5. ASSUME NEW e \in Exec, Lose(e) PROVE CancelledWasRequested'
  BY <1>5 DEF Lose
<1>6. ASSUME NEW e \in Exec, NEW s \in Ended, Finish(e, s) PROVE CancelledWasRequested'
  BY <1>6 DEF Finish
<1> QED BY <1>1, <1>2, <1>3, <1>4, <1>5, <1>6 DEF Next

\* CANCELLED never appears without a request (request_cancel, CancelSignal).
THEOREM CancelledIsRequested == Spec => []CancelledWasRequested
<1>1. Init => CancelledWasRequested
  BY DEF Init, CancelledWasRequested
<1>2. IInv /\ CancelledWasRequested /\ [Next]_lifecycleVars => CancelledWasRequested'
  BY CancelledStep
<1> QED BY <1>1, <1>2, LifecycleInvariant, PTL DEF Spec
=============================================================================
