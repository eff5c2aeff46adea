------------------------------- MODULE CaseJobs -------------------------------
(***************************************************************************)
(* One Case and the jobs it issues: user commands, the Runtime's ledger of *)
(* those jobs, and the delivery of their results (T2) and of exhaustion    *)
(* notices.  JobQueue is the ledger's inside; here a job's row only ends.  *)
(*                                                                         *)
(* A command, a T2 and an acknowledgement each lock the case row first and *)
(* save it, the ledger rows of new jobs and the receipt in one commit, so  *)
(* each is one step.  What is not atomic is who delivers: the Worker that  *)
(* ran the job and every process's redelivery pass hold a result they read *)
(* earlier, may commit without learning of it, and may try again.          *)
(***************************************************************************)
EXTENDS CaseAggregate, FiniteSets

CONSTANTS Commands,     \* the user commands of this instance
          Found,        \* how many candidates a search may find
          Verdicts,     \* what a Fine that succeeded may say
          Endings,      \* how an execution may end on its own
          MaxCommands,  \* bound on the commands of a behaviour
          MaxHeld       \* bound on the jobs in delivery at once

AllCommands == {"START", "STOP", "EDIT_HINT", "RETRY_SEARCH", "RETRY_PLATE_READ",
                "SELECT_OTHER", "EVIDENCE"}

ASSUME CaseJobsAssumption ==
  /\ Commands \subseteq AllCommands
  /\ Found \subseteq Nat
  /\ Verdicts \subseteq {"OK", "NOT_OBSERVED", "NO_VISUAL"}
  /\ Endings \subseteq {"SUCCEEDED", "FAILED", "STALE"}
  /\ MaxCommands \in Nat /\ MaxHeld \in Nat

VARIABLES
  case,     \* the saved case
  ledger,   \* the job_execution rows and notice of each job of the case
  late,     \* searches whose deadline has passed (wait_deadline <= now)
  held,     \* jobs whose result or notice a process has read to deliver
  budget    \* commands the user may still give

vars == <<case, ledger, late, held, budget>>

\* run "open" covers QUEUED, RUNNING and waiting for a retry; "STALE" is the
\* last attempt's.
OpenRow == [run |-> "open", content |-> "none", found |-> 0,
            asked   |-> FALSE,   \* cancel_requested_at
            notice  |-> FALSE,   \* a job_exhaustion_notice exists
            receipt |-> FALSE]   \* case_applied_at, or the notice's case_acknowledged_at

Init == /\ case = EmptyCase /\ ledger = <<>>
        /\ late = {} /\ held = {} /\ budget = MaxCommands

\* The jobs a saved case has issued get their rows in the same transaction.
Enqueue(rows, c) == rows \o [k \in 1..(Len(c.jobs) - Len(rows)) |-> OpenRow]

\* Every reader settles the searches whose deadline has passed first.
View == StopExpired(case, late)

-----------------------------------------------------------------------------
(* The notices that offer an action (derive_notices).                      *)

Halts == {"CANCELLED", "STOPPED_WAITING"}
Halted(c)       == HaltReason(c) \in Halts
NoCandidates(c) == c.stage = "CANDIDATE_REVIEW" /\ c.cands = {}

\* The adapter reads executions, so a Fine speaks before T2 has settled it.
NotObserved(c) ==
  LET ran == {i \in Mine(c) \intersect OfKind(c, {"FINE_VERIFY"}) : ledger[i].run = "SUCCEEDED"}
  IN ran # {} /\ ledger[Largest(ran)].content = "NOT_OBSERVED"

RetrySearchOffered(c) ==
  /\ ~SearchAwaited(c)
  /\ \/ c.stage = "SEARCHING" /\ c.failed = "retry" /\ ~Halted(c)
     \/ Halted(c) /\ LatestRecord(c, "COARSE_SEARCH") # 0
     \/ NoCandidates(c)

MutEditHintOffered(c) ==                     \* mutant: no exit from a halt before any search
  \/ NoCandidates(c)
  \/ c.unclear /\ c.stage \notin {"INTAKE", "SEARCHING"}
  \/ NotObserved(c)

EditHintOffered(c) ==
  \/ Halted(c) /\ LatestRecord(c, "COARSE_SEARCH") = 0
  \/ NoCandidates(c)
  \/ c.unclear /\ c.stage \notin {"INTAKE", "SEARCHING"}
  \/ NotObserved(c)

RetryPlateOffered(c) == PlateFailed(c) /\ LatestRecord(c, "PLATE_READ") # 0

\* search.visual_verify_failed: no evidence, and the last Fine of the case has failed.
VisualVerifyFailed(c) ==
  LET fine == LatestRecord(c, "FINE_VERIFY")
  IN ~ReadoutsSettled(c) /\ fine # 0 /\ ledger[fine].run \in {"FAILED", "STALE"}

-----------------------------------------------------------------------------
(* User commands.  One that is refused changes nothing, not even what      *)
(* expired.  expected_case_rev is left out: a command is given on the      *)
(* current view.                                                           *)

Allowed(command) == command \in Commands /\ budget > 0

\* The rest of execute_command: look at the Package gate again, save, enqueue.
Succeed(c, rows) ==
  /\ \E d \in Gate(c) : case' = d /\ ledger' = Enqueue(rows, d)
  /\ budget' = budget - 1
  /\ UNCHANGED <<late, held>>

StartAnalysis(described) ==
  /\ Allowed("START")
  /\ case.stage = "INTAKE"
  /\ Succeed(BeginAnalysis([case EXCEPT !.stage = "SEARCHING"], described), ledger)

\* request_cancel: a QUEUED row ends at once, a RUNNING or STALE one is marked.
RequestCancel(stopped, queued) ==
  [i \in DOMAIN ledger |->
     IF i \in queued THEN [ledger[i] EXCEPT !.run = "CANCELLED", !.asked = TRUE]
     ELSE IF i \in stopped /\ ledger[i].run \in {"open", "STALE"}
     THEN [ledger[i] EXCEPT !.asked = TRUE] ELSE ledger[i]]

StopAnalysis ==
  LET stopped == Waiting(View) \intersect OfKind(View, Analysis)
  IN /\ Allowed("STOP")
     /\ View.stage = "SEARCHING" /\ stopped # {}
     /\ \E queued \in SUBSET {i \in stopped : ledger[i].run = "open"} :
          Succeed(Settle(View, stopped, "CANCELLED"), RequestCancel(stopped, queued))

\* edit_hint drops the candidates and stops waiting for what belongs to them.
StartOver(c) ==
  IF c.stage = "SEARCHING" THEN c ELSE Settle(Regress(c), Waiting(c), "SUPERSEDED")

EditHint(described) ==
  /\ Allowed("EDIT_HINT")
  /\ EditHintOffered(View)
  /\ View.stage = "SEARCHING" => ~SearchAwaited(View)
  /\ Succeed(BeginAnalysis([StartOver(View) EXCEPT !.unclear = FALSE, !.failed = "no"], described),
             ledger)

RetrySearch ==
  /\ Allowed("RETRY_SEARCH")
  /\ RetrySearchOffered(View)
  /\ LET prior == LatestRecord(View, "COARSE_SEARCH")
         c     == IF View.stage = "CANDIDATE_REVIEW" THEN Regress(View) ELSE View
     IN prior # 0 /\ Succeed(IssueSameInput(c, prior), ledger)

\* The last plate job of the case, whichever candidate it was for.
RetryPlateRead ==
  /\ Allowed("RETRY_PLATE_READ")
  /\ RetryPlateOffered(View)
  /\ Succeed(IssueSameInput(View, LatestRecord(View, "PLATE_READ")), ledger)

SelectOther(cand) ==
  /\ Allowed("SELECT_OTHER")
  /\ MayReselect(View, cand)
  /\ Succeed(Reselect(View, cand), ledger)

\* A situation response or a corrected value: leave_ready, then the gate.
EvidenceCommand ==
  /\ Allowed("EVIDENCE")
  /\ View.stage \in Reviewing
  /\ Succeed([View EXCEPT !.stage = "EVIDENCE_REVIEW"], ledger)

-----------------------------------------------------------------------------
(* The Runtime's side of a job, and the clock.                             *)

Results(kind) ==
  CASE kind = "HINT_EXTRACT" -> {"OK", "UNCLEAR"}
    [] kind = "FINE_VERIFY"  -> Verdicts
    [] OTHER                 -> {"OK"}

Counts(i) == IF case.jobs[i].kind = "COARSE_SEARCH" THEN Found ELSE {0}

Runs(i) == i \in DOMAIN ledger /\ ledger[i].run = "open"

RunSucceeds(i) ==
  /\ Runs(i) /\ "SUCCEEDED" \in Endings
  /\ \E content \in Results(case.jobs[i].kind), n \in Counts(i) :
       ledger' = [ledger EXCEPT ![i].run = "SUCCEEDED", ![i].content = content, ![i].found = n]
  /\ UNCHANGED <<case, late, held, budget>>

\* A search fails for good when its input is what is wrong with it.
Failures(kind) == IF kind = "COARSE_SEARCH" THEN {"retry", "fatal"} ELSE {"FAILED"}

RunFails(i) ==
  /\ Runs(i) /\ "FAILED" \in Endings
  /\ \E content \in Failures(case.jobs[i].kind) :
       ledger' = [ledger EXCEPT ![i].run = "FAILED", ![i].content = content]
  /\ UNCHANGED <<case, late, held, budget>>

MutRunIsLost(i) ==                           \* mutant: no notice is generated
  /\ Runs(i) /\ "STALE" \in Endings
  /\ ledger' = [ledger EXCEPT ![i].run = "STALE"]
  /\ UNCHANGED <<case, late, held, budget>>

\* The sweeper gives the last attempt up; only hint jobs get a notice.
RunIsLost(i) ==
  /\ Runs(i) /\ "STALE" \in Endings
  /\ ledger' = [ledger EXCEPT ![i].run = "STALE",
                              ![i].notice = case.jobs[i].kind = "HINT_EXTRACT" /\ ~ledger[i].asked]
  /\ UNCHANGED <<case, late, held, budget>>

RunIsCancelled(i) ==
  /\ Runs(i) /\ ledger[i].asked
  /\ ledger' = [ledger EXCEPT ![i].run = "CANCELLED"]
  /\ UNCHANGED <<case, late, held, budget>>

RunEnds(i) == RunSucceeds(i) \/ RunFails(i) \/ RunIsLost(i) \/ RunIsCancelled(i)

\* Only COARSE_SEARCH has a deadline.
DeadlinePasses(i) ==
  /\ i \in Waiting(case) \ late
  /\ case.jobs[i].kind = "COARSE_SEARCH"
  /\ late' = late \union {i}
  /\ UNCHANGED <<case, ledger, held, budget>>

-----------------------------------------------------------------------------
(* Delivery.                                                               *)

HasResult(i)   == ledger[i].run \in {"SUCCEEDED", "FAILED"}
Deliverable(i) == i \in DOMAIN ledger /\ (HasResult(i) \/ ledger[i].notice) /\ ~ledger[i].receipt

MutPickUp(i) ==                              \* mutant: the receipt is its own transaction
  /\ Deliverable(i) /\ i \notin held /\ Cardinality(held) < MaxHeld
  /\ held' = held \union {i}
  /\ ledger' = [ledger EXCEPT ![i].receipt = TRUE]
  /\ UNCHANGED <<case, late, budget>>

\* reflect after the job, or a redelivery pass: the row is read without a lock.
PickUp(i) ==
  /\ Deliverable(i) /\ i \notin held /\ Cardinality(held) < MaxHeld
  /\ held' = held \union {i}
  /\ UNCHANGED <<case, ledger, late, budget>>

MutAwaits(c, i) == c.settled[i] \in {"waiting", "CANCELLED"}   \* mutant: a stop is forgotten

\* awaits_result.
Awaits(c, i) == c.settled[i] = "waiting"

ApplySearch(c, i) ==
  IF ledger[i].run = "FAILED" THEN SearchFails(c, i, ledger[i].content)
  ELSE SelectTopRanked(ReceiveCandidates(c, i, ledger[i].found), i)

\* _apply_observation settles, records the outcome and looks at the gate
\* before the next step of the chain is issued.
ApplyObservation(c, i) ==
  Gate([Settle(c, {i}, "REFLECTED") EXCEPT !.out[i] = ledger[i].content])

\* _APPLIERS.  A hint job that failed counts as a description without hints.
Apply(c, i) ==
  CASE c.jobs[i].kind = "HINT_EXTRACT"  -> {HintsArrive(c, i, ledger[i].content = "UNCLEAR", "REFLECTED")}
    [] c.jobs[i].kind = "COARSE_SEARCH" -> {ApplySearch(c, i)}
    [] c.jobs[i].kind = "FINE_VERIFY"   -> {FollowFine(d, i) : d \in ApplyObservation(c, i)}
    [] c.jobs[i].kind = "INCIDENT_CLIP_BUILD" -> {FollowClip(d, i) : d \in ApplyObservation(c, i)}
    [] OTHER -> ApplyObservation(c, i)

\* The state checks that raise: T2 rolls back and redelivery meets them again.
SearchOver(c, i) == Awaits(c, i) /\ c.jobs[i].kind \in Analysis /\ c.stage # "SEARCHING"

ResultFaults(c, i) ==
  /\ i \notin c.processed
  /\ \/ SearchOver(c, i)
     \/ ~Awaits(c, i) /\ c.settled[i] \notin NotApplied
     \/ Awaits(c, i) /\ ledger[i].receipt

NoticeFaults(c, i) == SearchOver(c, i) \/ (Awaits(c, i) /\ ledger[i].receipt)

\* reflect_terminal; the delivery stays held if its commit was not
\* acknowledged or another process holds it, too.
Received(i, c) ==
  /\ case' = c
  /\ ledger' = Enqueue([ledger EXCEPT ![i].receipt = TRUE], c)
  /\ held' \in {held, held \ {i}}
  /\ UNCHANGED <<late, budget>>

DeliverResult(i) ==
  /\ i \in held /\ HasResult(i)
  /\ ~ResultFaults(View, i)
  /\ \/ i \in case.processed /\ Received(i, case)                 \* ALREADY_APPLIED
     \/ /\ i \notin case.processed /\ Awaits(View, i)             \* APPLIED
        /\ \E d \in Apply(View, i) : Received(i, [d EXCEPT !.processed = @ \union {i}])
     \/ i \notin case.processed /\ ~Awaits(View, i) /\ Received(i, View)   \* NOT_APPLIED

\* acknowledge_exhaustion; the deadline plays no part, a hint job has none.
DeliverNotice(i) ==
  /\ i \in held /\ ledger[i].notice
  /\ ~NoticeFaults(case, i)
  /\ Received(i, IF Awaits(case, i) THEN HintsArrive(case, i, FALSE, "EXHAUSTED") ELSE case)

Deliver(i) == DeliverResult(i) \/ DeliverNotice(i)

\* The transaction fails or the process dies; a later pass picks it up again.
LetGo(i) ==
  /\ i \in held
  /\ held' = held \ {i}
  /\ UNCHANGED <<case, ledger, late, budget>>

-----------------------------------------------------------------------------
JobId == 1..(6 * MaxCommands)   \* a command leads to six jobs at most

Command ==
  \/ \E described \in BOOLEAN : StartAnalysis(described) \/ EditHint(described)
  \/ StopAnalysis \/ RetrySearch \/ RetryPlateRead \/ EvidenceCommand
  \/ \E cand \in case.cands : SelectOther(cand)

Next == \/ Command
        \/ \E i \in JobId : RunEnds(i) \/ DeadlinePasses(i) \/ PickUp(i) \/ Deliver(i) \/ LetGo(i)

Spec == Init /\ [][Next]_vars

\* JobQueue settles every job whose Workers keep running, the clock advances,
\* and redelivery passes recur; a pass may fail any number of times, but not
\* for ever.
Fairness == /\ WF_vars(\E i \in JobId : RunEnds(i))
            /\ WF_vars(\E i \in JobId : DeadlinePasses(i))
            /\ SF_vars(\E i \in JobId : PickUp(i))
            /\ SF_vars(\E i \in JobId : Deliver(i))

FairSpec == Spec /\ Fairness

-----------------------------------------------------------------------------
(* Properties.                                                             *)

\* The case and its ledger are well formed: they hold the same jobs, and a
\* candidate of the present list is selected exactly while reviewing.
CaseTypeOK ==
  /\ case.stage \in {"INTAKE", "SEARCHING", "CANDIDATE_REVIEW"} \union Reviewing
  /\ DOMAIN case.jobs = DOMAIN case.settled /\ DOMAIN case.jobs = DOMAIN case.out
  /\ DOMAIN ledger = DOMAIN case.jobs /\ DOMAIN case.jobs \subseteq JobId
  /\ \A i \in DOMAIN case.jobs : case.settled[i] \in {"waiting"} \union Reasons
  /\ case.failed \in {"no", "retry", "fatal"} /\ case.unclear \in BOOLEAN
  /\ case.selected \in case.cands \union {NoCand}
  /\ case.stage \in Reviewing <=> case.selected # NoCand
  /\ late \union held \subseteq DOMAIN case.jobs
  /\ budget \in 0..MaxCommands

\* No delivery runs into a state check of T2 or of the acknowledgement: it
\* would roll back and be met by every later redelivery pass.
NoDeliveryFault ==
  \A i \in held : /\ HasResult(i) => ~ResultFaults(View, i)
                  /\ ledger[i].notice => ~NoticeFaults(case, i)

\* The case waits for a search or hint job only in SEARCHING, where its result
\* can be received, and for one of them at a time.
AwaitedOnlyWhileSearching ==
  SearchAwaited(case) => /\ case.stage = "SEARCHING"
                         /\ Cardinality(Waiting(case) \intersect OfKind(case, Analysis)) = 1

\* A hint job leads to one first search whether its result, its failure or its
\* exhaustion notice arrives, in whatever order and however often, and to none
\* if the user stopped it (search jobs retried from it keep its scope).
OneSearchPerHint ==
  \A i \in OfKind(case, {"HINT_EXTRACT"}) :
    LET scopes == {case.jobs[k].scope : k \in {k \in OfKind(case, {"COARSE_SEARCH"}) : case.jobs[k].via = i}}
    IN Cardinality(scopes) = IF case.settled[i] \in {"REFLECTED", "EXHAUSTED"} THEN 1 ELSE 0

\* No search is lost and none is made twice, whatever the user does meanwhile.
SearchesAreDue == AwaitedOnlyWhileSearching /\ OneSearchPerHint

\* Results that changed the case are exactly those of the jobs settled as
\* reflected: what was stopped, superseded or timed out never takes effect.
ProcessedIsReflected ==
  case.processed = {i \in DOMAIN case.jobs : case.settled[i] = "REFLECTED"}

\* Every observation job waited for belongs to the selected candidate, so that
\* preparing_selected_candidate misses none and no reselection leaves work of
\* another candidate behind; and it is the one of its kind (a newer one
\* supersedes it).
WaitingIsSelected ==
  /\ Waiting(case) \intersect OfKind(case, Observation) \subseteq Mine(case)
  /\ \A i, k \in Waiting(case) : case.jobs[i].kind = case.jobs[k].kind => i = k

\* READY is about the selected candidate: both of its readouts are settled.
ReadyHasReadouts == case.stage = "READY" => ReadoutsSettled(case)

\* RETRY_PLATE_READ repeats the last plate job of the case; when it is offered
\* that job is one of the selected candidate.
RetryTargetsSelected ==
  RetryPlateOffered(View) => IsCurrent(View, LatestRecord(View, "PLATE_READ"))

\* Every result and notice is taken, even if nobody needs it any more.
ResultsTaken == \A i \in JobId : Deliverable(i) ~> (i \in DOMAIN ledger /\ ledger[i].receipt)

\* Result delivery as the Case sees it: exactly-once effects over deliveries that
\* are repeated, late and out of order.  A notice takes effect like a result.
WishOf(i) ==
  IF i \notin DOMAIN case.settled THEN "none"
  ELSE CASE case.settled[i] = "waiting" -> "wanted"
         [] case.settled[i] \in {"REFLECTED", "EXHAUSTED"} -> "taken"
         [] OTHER -> "dropped"

Contract == INSTANCE Delivery WITH
  Job     <- JobId,
  wish    <- [i \in JobId |-> WishOf(i)],
  outcome <- {i \in DOMAIN ledger : HasResult(i) \/ ledger[i].notice},
  receipt <- {i \in DOMAIN ledger : ledger[i].receipt}

\* Each outcome takes effect at most once, while it is wanted, in the step that
\* writes its receipt; every other delivery of it leaves no trace.
Delivers == Contract!Spec

\* Nothing runs and nothing is left to deliver.
Quiet == held = {} /\ \A i \in DOMAIN ledger : ledger[i].run # "open" /\ ~Deliverable(i)

\* case-edge-cases.md:61: after a Fine whose retries are exhausted the way out
\* is to look at another candidate.
FailedFineLeavesExit ==
  Quiet /\ VisualVerifyFailed(View) /\ View.stage \in Reviewing /\ Cardinality(View.cands) > 1
    => \E cand \in View.cands : MayReselect(View, cand)
=============================================================================
