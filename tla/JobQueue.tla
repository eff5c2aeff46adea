------------------------------- MODULE JobQueue -------------------------------
(***************************************************************************)
(* The database job queue: job_execution rows shared by API transactions   *)
(* (enqueue, request_cancel), Worker processes (claim, heartbeat, terminal *)
(* write T1) and the stale sweepers, one per Worker process.               *)
(*                                                                         *)
(* A committed DB transaction is one step, except where its row locks are  *)
(* taken one at a time (request_cancel).  Every Worker transaction may     *)
(* commit with or without the acknowledgement reaching the process.        *)
(* Time is abstracted to two facts of a row, `expired` and `due`, which    *)
(* become true at any moment.                                              *)
(***************************************************************************)
EXTENDS Naturals, FiniteSets

CONSTANTS Job, RetryMax,
          Hint,     \* the jobs of kind HINT_EXTRACT
          Worker,   \* Worker processes; a restart is another element (owner = fresh uuid)
          Mortal,   \* the processes that may crash
          None

ASSUME QueueAssumption == /\ RetryMax \in Nat
                          /\ Hint \subseteq Job
                          /\ Mortal \subseteq Worker
                          /\ None \notin Worker
                          /\ None \notin Job \X Nat
                          /\ None \notin {"SUCCEEDED", "FAILED", "CANCELLED"}

VARIABLES
  status, marked,   \* as in JobLifecycle
  owner,            \* lease_owner (with claim_token: one claim writes both, once)
  expired,          \* lease_expires_at < NOW(6)
  due,              \* available_at <= NOW(6)
  notice,           \* [Job -> BOOLEAN], a job_exhaustion_notice row exists
  cancelTx,         \* phase of the open request_cancel transaction of a job
  locked,           \* how many attempts of the job that transaction has locked
  pc, exec,         \* control point of a Worker and the execution it pinned or runs
  result,           \* terminal facts to record
  lost, signal,     \* OwnershipFence and CancelSignal of the current execution
  todo              \* candidates the Worker's sweeper scanned and has not handled

JL == INSTANCE JobLifecycle

Exec    == JL!Exec
Attempt == JL!Attempt
JobOf(e)       == JL!JobOf(e)
AttemptOf(e)   == JL!AttemptOf(e)
NextAttempt(e) == JL!NextAttempt(e)

rowVars    == <<status, marked, owner, expired, due, notice>>
cancelVars == <<cancelTx, locked>>
workVars   == <<pc, exec, result, lost, signal>>
vars       == <<rowVars, cancelVars, workVars, todo>>

Active    == {"running", "record"}                    \* the heartbeat thread runs
Alive     == {"gate", "gateSweep", "idle", "pinned", "running", "record", "reflect"}

Locked(e)   == AttemptOf(e) <= locked[JobOf(e)]

\* FOR UPDATE waits for, and SKIP LOCKED passes over, a row an open
\* request_cancel has locked.
MutRowFree(e) == TRUE                       \* mutant: no locking reads
RowFree(e)  == ~Locked(e)
Owned(w, e) == status[e] = "RUNNING" /\ owner[e] = w

Init == /\ JL!Init
        /\ owner   = [e \in Exec |-> None]
        /\ expired = [e \in Exec |-> FALSE]
        /\ due     = [e \in Exec |-> FALSE]
        /\ notice  = [j \in Job |-> FALSE]
        /\ cancelTx = [j \in Job |-> "none"]
        /\ locked   = [j \in Job |-> 0]
        /\ pc     = [w \in Worker |-> "off"]
        /\ exec   = [w \in Worker |-> None]
        /\ result = [w \in Worker |-> None]
        /\ lost   = [w \in Worker |-> FALSE]
        /\ signal = [w \in Worker |-> FALSE]
        /\ todo   = [w \in Worker |-> {}]

-----------------------------------------------------------------------------
(* API side.                                                               *)

\* A second enqueue of the same job fails on UNIQUE(job_id, attempt) and is
\* rolled back with its caller: no step.
Enqueue(j) ==
  /\ status[<<j, 1>>] = "NONE"
  /\ status' = [status EXCEPT ![<<j, 1>>] = "QUEUED"]
  /\ due'    = [due EXCEPT ![<<j, 1>>] = TRUE]
  /\ UNCHANGED <<marked, owner, expired, notice, cancelVars, workVars, todo>>

\* request_cancel, _LOCK_JOB: the index scan locks one attempt after another.
CancelLock(j) ==
  LET next == <<j, locked[j] + 1>>
  IN /\ cancelTx[j] \in {"none", "scan"}
     /\ next \in Exec
     /\ status[next] # "NONE"
     /\ cancelTx' = [cancelTx EXCEPT ![j] = "scan"]
     /\ locked'   = [locked EXCEPT ![j] = @ + 1]
     /\ UNCHANGED <<rowVars, workVars, todo>>

\* The scan met the end of the job's rows; the result set is now fixed.
CancelScanned(j) ==
  LET next == <<j, locked[j] + 1>>
  IN /\ cancelTx[j] = "scan"
     /\ next \in Exec => status[next] = "NONE"
     /\ cancelTx' = [cancelTx EXCEPT ![j] = "write"]
     /\ UNCHANGED <<rowVars, locked, workVars, todo>>

CancelCommit(j) ==
  LET rows == {e \in Exec : JobOf(e) = j /\ Locked(e)}
  IN /\ cancelTx[j] = "write"
     /\ status' = [e \in Exec |-> IF e \in rows /\ status[e] = "QUEUED"
                                  THEN "CANCELLED" ELSE status[e]]
     /\ marked' = [e \in Exec |-> \/ marked[e]
                                  \/ /\ e \in rows
                                     /\ status[e] \in {"QUEUED", "RUNNING", "STALE"}]
     /\ cancelTx' = [cancelTx EXCEPT ![j] = "none"]
     /\ locked'   = [locked EXCEPT ![j] = 0]
     /\ UNCHANGED <<owner, expired, due, notice, workVars, todo>>

\* The caller's transaction fails for any reason: everything rolls back.
CancelRollback(j) ==
  /\ cancelTx[j] # "none"
  /\ cancelTx' = [cancelTx EXCEPT ![j] = "none"]
  /\ locked'   = [locked EXCEPT ![j] = 0]
  /\ UNCHANGED <<rowVars, workVars, todo>>

-----------------------------------------------------------------------------
(* Time.                                                                   *)

LeaseExpires(e) ==
  /\ status[e] = "RUNNING" /\ ~expired[e]
  /\ expired' = [expired EXCEPT ![e] = TRUE]
  /\ UNCHANGED <<status, marked, owner, due, notice, cancelVars, workVars, todo>>

BackoffElapses(e) ==
  /\ status[e] = "QUEUED" /\ ~due[e]
  /\ due' = [due EXCEPT ![e] = TRUE]
  /\ UNCHANGED <<status, marked, owner, expired, notice, cancelVars, workVars, todo>>

-----------------------------------------------------------------------------
(* Worker loop.                                                            *)

\* Forget the execution: the next one gets a fresh context, fence and signal.
BackTo(w, here) ==
  /\ pc'     = [pc EXCEPT ![w] = here]
  /\ exec'   = [exec EXCEPT ![w] = None]
  /\ result' = [result EXCEPT ![w] = None]
  /\ lost'   = [lost EXCEPT ![w] = FALSE]
  /\ signal' = [signal EXCEPT ![w] = FALSE]

Start(w) ==
  /\ pc[w] = "off"
  /\ pc' = [pc EXCEPT ![w] = "gate"]
  /\ UNCHANGED <<rowVars, cancelVars, exec, result, lost, signal, todo>>

Crash(w) ==
  /\ w \in Mortal
  /\ pc[w] \in Alive
  /\ BackTo(w, "dead")
  /\ todo' = [todo EXCEPT ![w] = {}]
  /\ UNCHANGED <<rowVars, cancelVars>>

\* _CLAIM_UPDATE.
WriteClaim(w, e) ==
  /\ status'  = [status EXCEPT ![e] = "RUNNING"]
  /\ owner'   = [owner EXCEPT ![e] = w]
  /\ expired' = [expired EXCEPT ![e] = FALSE]
  /\ UNCHANGED <<marked, due, notice>>

\* One claim transaction that found e claimable: acknowledged, committed with
\* the acknowledgement lost, or rolled back.  The last two keep e pinned.
ClaimTx(w, e) ==
  /\ \/ WriteClaim(w, e) /\ pc' = [pc EXCEPT ![w] = "running"]
     \/ WriteClaim(w, e) /\ pc' = [pc EXCEPT ![w] = "pinned"]
     \/ UNCHANGED rowVars /\ pc' = [pc EXCEPT ![w] = "pinned"]
  /\ exec' = [exec EXCEPT ![w] = e]
  /\ UNCHANGED <<cancelVars, result, lost, signal, todo>>

\* First attempt: FOR UPDATE SKIP LOCKED over the due QUEUED rows.  Which of
\* them is oldest is left open.
Claim(w, e) ==
  /\ pc[w] = "idle"
  /\ status[e] = "QUEUED" /\ due[e] /\ RowFree(e)
  /\ ClaimTx(w, e)

\* Replays look at the pinned row only, under its lock.
ClaimAgain(w) ==
  /\ pc[w] = "pinned"
  /\ RowFree(exec[w])
  /\ status[exec[w]] = "QUEUED"
  /\ ClaimTx(w, exec[w])

MutReceiptHolds(w, e) == status[e] = "RUNNING" /\ ~expired[e]   \* mutant: no owner check

\* The earlier COMMIT landed and the receipt is still good.
ReceiptHolds(w, e) == Owned(w, e) /\ ~expired[e]

ClaimRecovered(w) ==
  /\ pc[w] = "pinned"
  /\ RowFree(exec[w])
  /\ ReceiptHolds(w, exec[w])
  /\ pc' = [pc EXCEPT ![w] = "running"]
  /\ UNCHANGED <<rowVars, cancelVars, exec, result, lost, signal, todo>>

\* ClaimLostError, retries exhausted, or any other DB error.
ClaimGivenUp(w) ==
  /\ pc[w] = "pinned"
  /\ BackTo(w, "idle")
  /\ UNCHANGED <<rowVars, cancelVars, todo>>

\* Mutant: a heartbeat that was not acknowledged stops the handler.
MutHeartbeat(w) ==
  LET e == exec[w]
  IN /\ pc[w] \in Active /\ ~lost[w]
     /\ RowFree(e)
     /\ IF Owned(w, e)
        THEN /\ expired' = [expired EXCEPT ![e] = FALSE]
             /\ signal' \in {[signal EXCEPT ![w] = @ \/ marked[e]], [signal EXCEPT ![w] = TRUE]}
             /\ UNCHANGED lost
        ELSE /\ lost' = [lost EXCEPT ![w] = TRUE]
             /\ UNCHANGED <<expired, signal>>
     /\ UNCHANGED <<status, marked, owner, due, notice, cancelVars, pc, exec, result, todo>>

\* One heartbeat transaction while the handler runs or T1 is being retried.
\* The marker is read in the same transaction and delivered only when its
\* COMMIT is acknowledged; zero rows mean the ownership is gone.
Heartbeat(w) ==
  LET e == exec[w]
  IN /\ pc[w] \in Active /\ ~lost[w]
     /\ RowFree(e)
     /\ IF Owned(w, e)
        THEN /\ expired' = [expired EXCEPT ![e] = FALSE]
             /\ \/ signal' = [signal EXCEPT ![w] = @ \/ marked[e]]
                \/ UNCHANGED signal
             /\ UNCHANGED lost
        ELSE /\ lost' = [lost EXCEPT ![w] = TRUE]
             /\ UNCHANGED <<expired, signal>>
     /\ UNCHANGED <<status, marked, owner, due, notice, cancelVars, pc, exec, result, todo>>

\* Mutant: a handler may hand finish() any terminal status.
MutHandlerEnds(w, r) ==
  /\ pc[w] = "running"
  /\ r \in JL!Ended
  /\ r = "CANCELLED" => signal[w]
  /\ pc'     = [pc EXCEPT ![w] = "record"]
  /\ result' = [result EXCEPT ![w] = r]
  /\ UNCHANGED <<rowVars, cancelVars, exec, lost, signal, todo>>

\* The handler returns, fails, or stops at a checkpoint that saw the signal.
HandlerEnds(w, r) ==
  /\ pc[w] = "running"
  /\ r \in {"SUCCEEDED", "FAILED", "CANCELLED"}
  /\ r = "CANCELLED" => signal[w]
  /\ pc'     = [pc EXCEPT ![w] = "record"]
  /\ result' = [result EXCEPT ![w] = r]
  /\ UNCHANGED <<rowVars, cancelVars, exec, lost, signal, todo>>

\* `while not context.ownership.lost`, before_attempt and commit_guard.
RecordRefused(w) ==
  /\ pc[w] = "record" /\ lost[w]
  /\ BackTo(w, "idle")
  /\ UNCHANGED <<rowVars, cancelVars, todo>>

\* After a committed T1: everything but CANCELLED goes on to T2.
AfterCommit(w) ==
  IF result[w] = "CANCELLED"
  THEN BackTo(w, "idle")
  ELSE /\ pc' = [pc EXCEPT ![w] = "reflect"]
       /\ UNCHANGED <<exec, result, lost, signal>>

\* finish() changed the row; the COMMIT is acknowledged or not.
Record(w) ==
  LET e == exec[w]
  IN /\ pc[w] = "record" /\ ~lost[w]
     /\ RowFree(e)
     /\ Owned(w, e)
     /\ status' = [status EXCEPT ![e] = result[w]]
     /\ AfterCommit(w) \/ UNCHANGED workVars
     /\ UNCHANGED <<marked, owner, expired, due, notice, cancelVars, todo>>

MutOwnEarlierCommit(w, e) == owner[e] = w    \* mutant: any row of mine counts

\* finish() changed nothing: the locking re-read tells an own earlier COMMIT
\* from a lost execution (the row is STALE under the same owner).
OwnEarlierCommit(w, e) == owner[e] = w /\ status[e] = result[w]

RecordReplayed(w) ==
  LET e == exec[w]
  IN /\ pc[w] = "record" /\ ~lost[w]
     /\ RowFree(e)
     /\ ~Owned(w, e)
     /\ IF OwnEarlierCommit(w, e) THEN AfterCommit(w) ELSE BackTo(w, "idle")
     /\ UNCHANGED <<rowVars, cancelVars, todo>>

\* T2 succeeds, or fails and is left to redelivery (module CaseJobs).
ReflectDone(w) ==
  /\ pc[w] = "reflect"
  /\ BackTo(w, "idle")
  /\ UNCHANGED <<rowVars, cancelVars, todo>>

-----------------------------------------------------------------------------
(* Stale sweep.                                                            *)

\* Mutant: rows whose owner still runs are left alone.
MutCandidates == {e \in Exec : status[e] = "RUNNING" /\ expired[e] /\ pc[owner[e]] \notin Alive}

Candidates == {e \in Exec : status[e] = "RUNNING" /\ expired[e]}

\* Nonlocking candidate scan: first of the startup pass, then periodic.
Scan(w) ==
  /\ todo[w] = {}
  /\ \/ pc[w] = "gate" /\ pc' = [pc EXCEPT ![w] = "gateSweep"]
     \/ pc[w] \in Alive \ {"gate", "gateSweep"} /\ Candidates # {} /\ UNCHANGED pc
  /\ todo' = [todo EXCEPT ![w] = Candidates]
  /\ UNCHANGED <<rowVars, cancelVars, exec, result, lost, signal>>

\* The startup pass succeeded: claims are admitted.
GateOpens(w) ==
  /\ pc[w] = "gateSweep" /\ todo[w] = {}
  /\ pc' = [pc EXCEPT ![w] = "idle"]
  /\ UNCHANGED <<rowVars, cancelVars, exec, result, lost, signal, todo>>

MutStale(e) == status[e] = "RUNNING"         \* mutant: trust the unlocked scan

\* is_stale, evaluated again under the row lock.
Stale(e) == status[e] = "RUNNING" /\ expired[e]

\* Mutant: off by one; a job that lost several attempts is not reported.
MutNoticeDue(e) == ~marked[e] /\ JobOf(e) \in Hint /\ AttemptOf(e) = RetryMax

\* No automatic retry is left and nobody cancelled: Case must be told.
NoticeDue(e) == ~marked[e] /\ JobOf(e) \in Hint

\* sweep_expired: STALE and its consequence are one commit.  An existing next
\* attempt or notice would violate a UNIQUE key and roll everything back.
Sweep(w, e) ==
  LET j == JobOf(e)
  IN /\ e \in todo[w]
     /\ RowFree(e) /\ Stale(e)
     /\ todo' = [todo EXCEPT ![w] = @ \ {e}]
     /\ \/ /\ JL!ShouldRetry(e)
           /\ status[NextAttempt(e)] = "NONE"
           /\ status' = [status EXCEPT ![e] = "STALE", ![NextAttempt(e)] = "QUEUED"]
           /\ UNCHANGED notice
        \/ /\ ~JL!ShouldRetry(e)
           /\ status' = [status EXCEPT ![e] = "STALE"]
           /\ NoticeDue(e) => ~notice[j]
           /\ notice' = [notice EXCEPT ![j] = @ \/ NoticeDue(e)]
     /\ UNCHANGED <<marked, owner, expired, due, cancelVars, workVars>>

\* SKIP LOCKED or no longer stale: nothing is written.
SweepSkips(w, e) ==
  /\ e \in todo[w]
  /\ ~RowFree(e) \/ ~Stale(e)
  /\ todo' = [todo EXCEPT ![w] = @ \ {e}]
  /\ UNCHANGED <<rowVars, cancelVars, workVars>>

\* A DB failure that outlives its retries abandons the rest of the pass; at
\* startup the gate stays shut and the pass is repeated.
PassFails(w) ==
  /\ pc[w] = "gateSweep" \/ todo[w] # {}
  /\ todo' = [todo EXCEPT ![w] = {}]
  /\ pc' = [pc EXCEPT ![w] = IF @ = "gateSweep" THEN "gate" ELSE @]
  /\ UNCHANGED <<rowVars, cancelVars, exec, result, lost, signal>>

-----------------------------------------------------------------------------
WorkerStep(w) ==
  \/ Start(w) \/ Crash(w) \/ Scan(w) \/ GateOpens(w) \/ PassFails(w)
  \/ ClaimAgain(w) \/ ClaimRecovered(w) \/ ClaimGivenUp(w)
  \/ Heartbeat(w)
  \/ RecordRefused(w) \/ Record(w) \/ RecordReplayed(w) \/ ReflectDone(w)
  \/ \E r \in JL!Ended : HandlerEnds(w, r)
  \/ \E e \in Exec : Claim(w, e) \/ Sweep(w, e) \/ SweepSkips(w, e)

CancelStep(j) == CancelLock(j) \/ CancelScanned(j) \/ CancelCommit(j) \/ CancelRollback(j)

Next == \/ \E j \in Job : Enqueue(j) \/ CancelStep(j)
        \/ \E e \in Exec : LeaseExpires(e) \/ BackoffElapses(e)
        \/ \E w \in Worker : WorkerStep(w)

Spec == Init /\ [][Next]_vars

-----------------------------------------------------------------------------
TypeOK ==
  /\ JL!LifecycleTypeOK
  /\ owner   \in [Exec -> Worker \union {None}]
  /\ expired \in [Exec -> BOOLEAN]
  /\ due     \in [Exec -> BOOLEAN]
  /\ notice  \in [Job -> BOOLEAN]
  /\ cancelTx \in [Job -> {"none", "scan", "write"}]
  /\ locked  \in [Job -> 0..(RetryMax + 2)]
  /\ pc      \in [Worker -> {"off", "dead"} \union Alive]
  /\ exec    \in [Worker -> Exec \union {None}]
  /\ result  \in [Worker -> {"SUCCEEDED", "FAILED", "CANCELLED", None}]
  /\ lost    \in [Worker -> BOOLEAN]
  /\ signal  \in [Worker -> BOOLEAN]
  /\ todo    \in [Worker -> SUBSET Exec]

\* Two Workers never both dispatch the same execution, whatever happened to
\* the acknowledgements of their claims (claim_one, pinned receipt).
NoDoubleDispatch ==
  \A v, w \in Worker : (pc[v] \in Active /\ pc[w] \in Active /\ exec[v] = exec[w])
                          => v = w

\* A Worker that goes on to T2 has its own result durably in the row, also
\* when it learned that from a replay (compose_worker.record).
ReflectsDurableResult ==
  \A w \in Worker : pc[w] = "reflect" =>
     /\ owner[exec[w]] = w
     /\ result[w] # "CANCELLED"
     /\ status[exec[w]] = result[w]

\* CANCELLED is written only for a job somebody asked to stop: neither a
\* signal of an earlier execution nor a lost heartbeat commit can invent it.
CancelledWasRequested == JL!CancelledWasRequested

\* A job whose last attempt was lost is never forgotten: it was cancelled, or
\* its retries are used up and, for HINT_EXTRACT, the notice for Case exists.
\* And no notice exists for a job that may still produce a result.
LostJobAccounted ==
  \A e \in Exec :
    LET last == ~(NextAttempt(e) \in Exec /\ status[NextAttempt(e)] # "NONE")
    IN /\ (status[e] = "STALE" /\ last /\ ~marked[e]) =>
             /\ AttemptOf(e) > RetryMax
             /\ JobOf(e) \in Hint => notice[JobOf(e)]
       /\ notice[JobOf(e)] => status[e] \in {"NONE", "STALE"}

\* A lease that has not expired is never taken away, although candidates are
\* scanned without locks and may have been renewed since (Tech Spec 4.3-4).
LiveLeaseKept ==
  [][\A e \in Exec : (status[e] = "RUNNING" /\ status'[e] = "STALE") => expired[e]]_vars

\* The queue implements the life cycle Case and API rely on.
Lifecycle == JL!Spec

-----------------------------------------------------------------------------
(* Fairness.  A process that does not crash keeps running its threads; a   *)
(* transaction that is possible again and again commits with its           *)
(* acknowledgement in the end (faults are transient); handlers return;     *)
(* clocks advance; an open API transaction ends; sweep passes do not fall  *)
(* into cancel transactions for ever.  No request is ever fair.            *)

ScanUnlocked(w) == Scan(w) /\ \A j \in Job : cancelTx[j] = "none"
\* Steps of the Worker thread that need nothing from the database; at most
\* one of them is possible at a time.
ThreadMoves(w) == \/ Start(w) \/ ClaimGivenUp(w) \/ RecordRefused(w) \/ ReflectDone(w)
                  \/ \E r \in JL!Ended : HandlerEnds(w, r)
ClaimAcked(w)  == (\E e \in Exec : Claim(w, e)) /\ pc'[w] = "running"
RecordAcked(w) == (Record(w) /\ pc'[w] # "record") \/ RecordReplayed(w)

WorkerFairness(w) ==
  /\ WF_vars(ThreadMoves(w))
  /\ SF_vars(ClaimAcked(w))
  /\ SF_vars(RecordAcked(w))
  /\ SF_vars(ScanUnlocked(w))
  /\ SF_vars(GateOpens(w))
  /\ SF_vars(\E e \in Exec : Sweep(w, e))
  /\ WF_vars(\E e \in Exec : SweepSkips(w, e))

\* At most one row of a job is RUNNING or QUEUED.
ClockAdvances(j) ==
  \E e \in Exec : JobOf(e) = j /\ (LeaseExpires(e) \/ BackoffElapses(e))

Fairness ==
  /\ \A w \in Worker : WorkerFairness(w)
  /\ \A j \in Job : WF_vars(ClockAdvances(j))
  /\ \A j \in Job : WF_vars(cancelTx[j] # "none" /\ CancelStep(j))

FairSpec == Spec /\ Fairness

\* Every enqueued job comes to rest: some attempt ends and none is live, even
\* if claims and results were orphaned by crashes and lost acknowledgements.
EveryJobSettles ==
  \A j \in Job : status[<<j, 1>>] # "NONE"
                    ~> \A e \in Exec : JobOf(e) = j => status[e] \notin JL!Live
=============================================================================
