---------------------------- MODULE JobLifecycle ----------------------------
(***************************************************************************)
(* What the Runtime promises about the attempts of a job, free of workers, *)
(* leases, transactions and clocks.  A job is a Case intent; attempt a of  *)
(* job j is one JobExecution row.  Case, API and CaseView only ever see    *)
(* this level: statuses and the request to cancel.  JobQueue is the        *)
(* detailed specification that implements it.                              *)
(***************************************************************************)
EXTENDS Naturals

CONSTANTS Job,       \* job_id values (never enqueued twice)
          RetryMax   \* stale_retry_max: executions added after attempt 1

ASSUME RetryMaxAssumption == RetryMax \in Nat

\* One attempt more than the retry policy may create, so that the bound on
\* attempts is something to check and not part of the type.
Attempt == 1..(RetryMax + 2)
Exec    == Job \X Attempt

Live     == {"QUEUED", "RUNNING"}
Ended    == {"SUCCEEDED", "FAILED", "CANCELLED", "STALE"}
Status   == {"NONE"} \union Live \union Ended

VARIABLES status,  \* [Exec -> Status], "NONE": the row does not exist
          marked   \* [Exec -> BOOLEAN], cancel_requested_at IS NOT NULL

lifecycleVars == <<status, marked>>

JobOf(e)     == e[1]
AttemptOf(e) == e[2]
NextAttempt(e) == <<e[1], e[2] + 1>>
Exists(e)    == status[e] # "NONE"

MutShouldRetryCancelled(e) == AttemptOf(e) <= RetryMax           \* mutant: cancel ignored

\* should_retry("STALE", attempt, cancelled, retry_max).
ShouldRetry(e) == AttemptOf(e) <= RetryMax /\ ~marked[e]

Init == /\ status = [e \in Exec |-> "NONE"]
        /\ marked = [e \in Exec |-> FALSE]

\* Case committed the intent; attempt 1 becomes QUEUED in the same commit.
Submit(j) ==
  /\ status[<<j, 1>>] = "NONE"
  /\ status' = [status EXCEPT ![<<j, 1>>] = "QUEUED"]
  /\ UNCHANGED marked

Begin(e) ==
  /\ status[e] = "QUEUED"
  /\ status' = [status EXCEPT ![e] = "RUNNING"]
  /\ UNCHANGED marked

MutFinish(e, s) ==                          \* mutant: FAILED is retried, too
  /\ status[e] = "RUNNING"
  /\ s \in {"SUCCEEDED", "FAILED", "CANCELLED"}
  /\ s = "CANCELLED" => marked[e]
  /\ status' = IF s = "FAILED" /\ ShouldRetry(e)
               THEN [status EXCEPT ![e] = s, ![NextAttempt(e)] = "QUEUED"]
               ELSE [status EXCEPT ![e] = s]
  /\ UNCHANGED marked

MutFinishAny(e, s) ==                       \* mutant: no check of the result's domain
  /\ status[e] = "RUNNING"
  /\ s \notin Live
  /\ status' = [status EXCEPT ![e] = IF s = "STALE" THEN "LOST" ELSE s]
  /\ UNCHANGED marked

\* The execution ends with its own result.  CANCELLED is a cooperative stop:
\* only after somebody asked for it.
Finish(e, s) ==
  /\ status[e] = "RUNNING"
  /\ s \in {"SUCCEEDED", "FAILED", "CANCELLED"}
  /\ s = "CANCELLED" => marked[e]
  /\ status' = [status EXCEPT ![e] = s]
  /\ UNCHANGED marked

\* The worker is gone.  STALE and the next attempt are one commit.
Lose(e) ==
  /\ status[e] = "RUNNING"
  /\ status' = IF ShouldRetry(e)
               THEN [status EXCEPT ![e] = "STALE", ![NextAttempt(e)] = "QUEUED"]
               ELSE [status EXCEPT ![e] = "STALE"]
  /\ UNCHANGED marked

\* A user request stops the whole job: what has not started ends at once,
\* what runs (or was lost) is marked.
Cancel(j) ==
  LET rows == {e \in Exec : JobOf(e) = j}
  IN /\ status' = [e \in Exec |-> IF e \in rows /\ status[e] = "QUEUED"
                                  THEN "CANCELLED" ELSE status[e]]
     /\ marked' = [e \in Exec |-> \/ marked[e]
                                  \/ e \in rows /\ status[e] \in Live \union {"STALE"}]

Next == \/ \E j \in Job : Submit(j) \/ Cancel(j)
        \/ \E e \in Exec : \/ Begin(e)
                           \/ Lose(e)
                           \/ \E s \in Ended : Finish(e, s)

Spec == Init /\ [][Next]_lifecycleVars

-----------------------------------------------------------------------------
LifecycleTypeOK == /\ status \in [Exec -> Status]
                   /\ marked \in [Exec -> BOOLEAN]

\* Attempts of a job form a chain: whatever precedes an existing attempt
\* exists and is STALE.  Hence attempts are contiguous, at most one of them is
\* live, and a result is never followed by another attempt (sweep.py inserts
\* attempt+1 only in the commit that makes the attempt STALE).
AttemptChain ==
  \A e, f \in Exec : (JobOf(e) = JobOf(f) /\ AttemptOf(e) < AttemptOf(f) /\ Exists(f))
                        => status[e] = "STALE"

\* A cancelled job never starts again: once any attempt carries the request,
\* nothing of the job is queued and what still runs has been told.
CancelSticks ==
  \A e, f \in Exec : (JobOf(e) = JobOf(f) /\ marked[f])
                        => /\ status[e] # "QUEUED"
                           /\ status[e] = "RUNNING" => marked[e]

\* stale_retry_max bounds the executions of a job (Baseline B-R1).
RetryBounded == \A e \in Exec : Exists(e) => AttemptOf(e) <= RetryMax + 1

\* A cooperative or queued stop is always somebody's request.
CancelledWasRequested == \A e \in Exec : status[e] = "CANCELLED" => marked[e]

\* validate_transition's table, plus: a mark is never taken back.
LegalStep ==
  \A e \in Exec :
     /\ status[e] \in Ended => status'[e] = status[e]
     /\ status[e] = "RUNNING" => status'[e] \in {"RUNNING"} \union Ended
     /\ status[e] = "QUEUED" => status'[e] \in {"QUEUED", "RUNNING", "CANCELLED"}
     /\ status[e] = "NONE" => status'[e] \in {"NONE", "QUEUED"}
     /\ marked[e] => marked'[e]
LegalSteps == [][LegalStep]_lifecycleVars
=============================================================================
