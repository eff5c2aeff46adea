---------------------------- MODULE UsageLedger ----------------------------
(***************************************************************************)
(* What an execution pays for: the calls of a handler to a provider, the   *)
(* tracker row each attempt has (usage_inflight) and its final record      *)
(* (usage_record).  The attempts are those of search/provider.py and       *)
(* search/retry.py; worker/readout_handlers.py makes one attempt of the    *)
(* same shape.  Reconciliation finalises what terminal executions left,    *)
(* in the Worker after T1 and in every sweep (common/usage).               *)
(*                                                                         *)
(* Every transaction may be rolled back, may commit without the            *)
(* acknowledgement and be replayed, or be given up.  The job row is        *)
(* RUNNING, or terminal with or without the run among what it produced.    *)
(***************************************************************************)
EXTENDS Naturals

CONSTANTS Retries,    \* max_retries of the provider's policy
          Pass        \* the passes of reconciliation: "worker" is the one after T1

\* What an instance must provide.
LedgerAssumption == Retries \in Nat

Attempt == 1 .. Retries + 1

VARIABLES
    step,       \* where the handler is
    intent,     \* a call belongs to a "run", or is "direct"
    n,          \* the attempt it makes
    answer,     \* what the provider said to it
    exhausted,  \* the time budget of the run is spent
    asked,      \* attempts whose request went out
    kept,       \* attempts whose `finish` was acknowledged
    job,        \* "RUNNING", "PRODUCED" the run, or "EMPTY"
    tracker,    \* usage_inflight
    final,      \* usage_record
    pass        \* what each reconciliation is at

handler == <<step, intent, n, answer, exhausted, asked, kept>>
vars == <<handler, job, tracker, final, pass>>

NoRow == [state |-> "none", seen |-> FALSE, recovered |-> FALSE, late |-> FALSE]
NoFinal == [exists |-> FALSE, seen |-> FALSE, run |-> FALSE]
Resting == [at |-> 0, prepared |-> NoFinal]
Transient == {"rate_limited", "server_error"}

Terminal == job # "RUNNING"

Init ==
    /\ step = "idle" /\ intent = "none" /\ n = 1 /\ answer = "none"
    /\ exhausted = FALSE /\ asked = {} /\ kept = {}
    /\ job = "RUNNING"
    /\ tracker = [a \in Attempt |-> NoRow]
    /\ final = [a \in Attempt |-> NoFinal]
    /\ pass = [p \in Pass |-> Resting]

(***************************************************************************)
(* The handler.                                                            *)
(***************************************************************************)
Begin(kind) ==
    /\ step = "idle"
    /\ step' = "deciding" /\ intent' = kind
    /\ UNCHANGED <<n, answer, exhausted, asked, kept, job, tracker, final, pass>>

SpendBudget ==
    /\ ~exhausted /\ step \notin {"idle", "over", "dead"}
    /\ exhausted' = TRUE
    /\ UNCHANGED <<step, intent, n, answer, asked, kept, job, tracker, final, pass>>

\* `operation`: the deadline is checked before each attempt.
Decide ==
    /\ step = "deciding"
    /\ step' = IF exhausted THEN "failed" ELSE "beginning"
    /\ UNCHANGED <<intent, n, answer, exhausted, asked, kept, job, tracker, final, pass>>

\* `_begin` inserts the row of this attempt, and takes a row that is there for
\* its own.  Only an acknowledged `begin` lets the request out.
BeginUsage(acknowledged) ==
    /\ step = "beginning"
    /\ tracker' = [tracker EXCEPT ![n] = IF @.state = "none" THEN [@ EXCEPT !.state = "STARTED"] ELSE @]
    /\ IF acknowledged
          THEN step' = "calling" /\ asked' = asked \cup {n}
          ELSE UNCHANGED <<step, asked>>
    /\ UNCHANGED <<intent, n, answer, exhausted, kept, job, final, pass>>

\* Mutant: without the books the request goes out all the same.
MutUsageFails ==
    /\ step \in {"beginning", "finishing"}
    /\ step' = IF step = "beginning" THEN "calling" ELSE "raised"
    /\ asked' = IF step = "beginning" THEN asked \cup {n} ELSE asked
    /\ UNCHANGED <<intent, n, answer, exhausted, kept, job, tracker, final, pass>>

\* A transaction of the sink that is given up raises a UsageError, which ends
\* the handler and is never retried.
UsageFails ==
    /\ step \in {"beginning", "finishing"}
    /\ step' = "raised"
    /\ UNCHANGED <<intent, n, answer, exhausted, asked, kept, job, tracker, final, pass>>

Answered(said) ==
    /\ step = "calling"
    /\ answer' = said
    /\ step' = "finishing"
    /\ UNCHANGED <<intent, n, exhausted, asked, kept, job, tracker, final, pass>>

\* `_finish`.  A row that recovery finalised is enriched and marked; its final
\* record stays.
Finished(row) ==
    CASE row.state = "FINALIZED" /\ row.recovered -> [row EXCEPT !.seen = TRUE, !.late = TRUE]
      [] row.state = "STARTED" -> [row EXCEPT !.seen = TRUE, !.state = "OBSERVED"]
      [] OTHER -> row

\* `_finish` raises when the row holds another observation than its own.
FinishRefused(row) == row.state = "FINALIZED" /\ ~row.recovered /\ ~row.seen

\* The error of the provider is retried if it passes, attempts are left and
\* the budget is not spent.
AfterAttempt ==
    CASE answer = "ok" -> "returned"
      [] answer \in Transient /\ n <= Retries /\ ~exhausted -> "sleeping"
      [] OTHER -> "failed"

FinishUsage(acknowledged) ==
    /\ step = "finishing" /\ ~FinishRefused(tracker[n])
    /\ tracker' = [tracker EXCEPT ![n] = Finished(@)]
    /\ IF acknowledged
          THEN step' = AfterAttempt /\ kept' = kept \cup {n}
          ELSE UNCHANGED <<step, kept>>
    /\ UNCHANGED <<intent, n, answer, exhausted, asked, job, final, pass>>

\* The sleep is cut to what is left of the budget; the next attempt has an
\* identity of its own.
Retry ==
    /\ step = "sleeping"
    /\ step' = "deciding" /\ n' = n + 1 /\ answer' = "none"
    /\ UNCHANGED <<intent, exhausted, asked, kept, job, tracker, final, pass>>

\* T1: a run that ended names itself, FAILED or not; a call without a run, an
\* error the handler raises and a cancellation produce none.  Nothing changes
\* when a sweep was first.
RecordResult(status) ==
    /\ step \in {"returned", "failed", "raised"}
    /\ status = "PRODUCED" => intent = "run" /\ step # "raised"
    /\ step' = IF Terminal THEN "dead" ELSE "over"
    /\ job' = IF Terminal THEN job ELSE status
    /\ UNCHANGED <<intent, n, answer, exhausted, asked, kept, tracker, final, pass>>

Crash ==
    /\ step \notin {"idle", "dead"}
    /\ step' = "dead"
    /\ pass' = [p \in Pass |-> IF p = "worker" THEN Resting ELSE pass[p]]
    /\ UNCHANGED <<intent, n, answer, exhausted, asked, kept, job, tracker, final>>

\* A sweep takes the row of a dead Worker, or of one that lost its lease and
\* goes on without knowing.
SweepJob ==
    /\ step # "idle" /\ ~Terminal
    /\ job' = "EMPTY"
    /\ UNCHANGED <<handler, tracker, final, pass>>

(***************************************************************************)
(* `reconcile_once`.                                                       *)
(***************************************************************************)
\* The scan takes no locks.
PickUsage(p, a) ==
    /\ pass[p].at = 0
    /\ Terminal /\ tracker[a].state \in {"STARTED", "OBSERVED"}
    /\ p = "worker" => step = "over"
    /\ pass' = [pass EXCEPT ![p].at = a]
    /\ UNCHANGED <<handler, job, tracker, final>>

\* `_relationship`: what the execution durably produced decides, not the intent.
Relationship == [exists |-> TRUE, run |-> intent = "run" /\ job = "PRODUCED"]

Prepared(a) == [exists |-> TRUE, seen |-> tracker[a].seen, run |-> Relationship.run]

\* Under the locks of job and row, the snapshot of the first try is final: a
\* replay must find the row as it was.
CanFinalize(p) ==
    LET a == pass[p].at IN
    /\ a # 0 /\ tracker[a].state # "FINALIZED"
    /\ pass[p].prepared \in {NoFinal, Prepared(a)}

\* What was not observed is a recovery, whoever finalises it.
Recovery(p, a) == p # "worker" \/ ~tracker[a].seen

Finalize(p, acknowledged) ==
    /\ CanFinalize(p)
    /\ LET a == pass[p].at IN
        /\ final' = [final EXCEPT ![a] = Prepared(a)]
        /\ tracker' = [tracker EXCEPT ![a].state = "FINALIZED", ![a].recovered = Recovery(p, a)]
        /\ pass' = [pass EXCEPT ![p] = IF acknowledged THEN Resting ELSE [@ EXCEPT !.prepared = Prepared(a)]]
    /\ UNCHANGED <<handler, job>>

\* Rolled back, to be replayed with the same snapshot.
FinalizeRollsBack(p) ==
    /\ CanFinalize(p)
    /\ pass' = [pass EXCEPT ![p].prepared = Prepared(pass[p].at)]
    /\ UNCHANGED <<handler, job, tracker, final>>

\* Somebody finalised it, the replay finds its own record or a conflict, the
\* pass fails or its process dies.
LeaveUsage(p) ==
    /\ pass[p].at # 0
    /\ pass' = [pass EXCEPT ![p] = Resting]
    /\ UNCHANGED <<handler, job, tracker, final>>

Acknowledged == BOOLEAN

HandlerStep ==
    \/ \E kind \in {"run", "direct"} : Begin(kind)
    \/ Decide
    \/ \E ack \in Acknowledged : BeginUsage(ack) \/ FinishUsage(ack)
    \/ UsageFails
    \/ \E said \in {"ok", "broken"} \cup Transient : Answered(said)
    \/ Retry
    \/ \E status \in {"PRODUCED", "EMPTY"} : RecordResult(status)

Reconcile(p) ==
    \/ \E ack \in Acknowledged : Finalize(p, ack)
    \/ FinalizeRollsBack(p)
    \/ LeaveUsage(p)

Next ==
    \/ HandlerStep \/ SpendBudget \/ Crash \/ SweepJob
    \/ \E p \in Pass : Reconcile(p) \/ \E a \in Attempt : PickUsage(p, a)

\* A handler that runs goes on until it ends or dies; a sweep comes to the row of a dead
\* one; sweeps recur, and not every transaction fails.
Fairness ==
    /\ WF_vars(step # "idle" /\ HandlerStep)
    /\ WF_vars(step = "dead" /\ SweepJob)
    /\ \A p \in Pass \ {"worker"} :
        /\ WF_vars(Reconcile(p))
        /\ WF_vars(\E a \in Attempt : PickUsage(p, a))
        /\ SF_vars(\E ack \in Acknowledged : Finalize(p, ack))

Spec == Init /\ [][Next]_vars /\ Fairness

(***************************************************************************)
(* Properties.                                                             *)
(***************************************************************************)
LedgerTypeOK ==
    /\ step \in {"idle", "deciding", "beginning", "calling", "finishing", "sleeping",
                 "returned", "failed", "raised", "over", "dead"}
    /\ intent \in {"none", "run", "direct"} /\ n \in Attempt /\ exhausted \in BOOLEAN
    /\ answer \in {"none", "ok", "broken"} \cup Transient
    /\ asked \subseteq Attempt /\ kept \subseteq Attempt
    /\ job \in {"RUNNING", "PRODUCED", "EMPTY"}
    /\ tracker \in [Attempt -> [state : {"none", "STARTED", "OBSERVED", "FINALIZED"},
                                seen : BOOLEAN, recovered : BOOLEAN, late : BOOLEAN]]
    /\ final \in [Attempt -> [exists : BOOLEAN, seen : BOOLEAN, run : BOOLEAN]]
    /\ pass \in [Pass -> [at : Attempt \cup {0}, prepared : [exists : BOOLEAN, seen : BOOLEAN, run : BOOLEAN]]]

\* No request goes out that the books do not know.
EveryRequestTracked == \A a \in asked : tracker[a].state # "none"

\* A final record names a run exactly when the execution's row produced it.
FinalNamesProducedRun ==
    \A a \in Attempt : final[a].exists => Terminal /\ (final[a].run <=> intent = "run" /\ job = "PRODUCED")

\* What `finish` confirmed is never lost: it is in the tracker, and in the final
\* record unless that was written before and the row is marked late.
ObservationKept ==
    \A a \in kept :
        /\ tracker[a].seen
        /\ final[a].exists /\ ~final[a].seen => tracker[a].late

\* The books agree with the calls and with the job, whatever was lost or late.
BooksAgree == EveryRequestTracked /\ FinalNamesProducedRun /\ ObservationKept

\* Each attempt that was begun has a final record in the end.
EveryUsageFinalized ==
    <>[](\A a \in Attempt : tracker[a].state # "none" => final[a].exists)
=============================================================================
