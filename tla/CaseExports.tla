---------------------------- MODULE CaseExports ----------------------------
(***************************************************************************)
(* The report video and the plate image of a case under review: when they  *)
(* are ordered (case/exports.py), what a result or a retry does, and which *)
(* of them the Package is built from (case/stored_observation.py).         *)
(*                                                                         *)
(* The search is over: there are candidates with clips, one is selected.   *)
(* An order is pinned to its input: the video to the clip and the time     *)
(* burnt into it, the image to the clip and the frame of the plate         *)
(* reading.  A case is one value, as in CaseAggregate.                     *)
(***************************************************************************)
EXTENDS Naturals, Sequences

CONSTANTS Candidate,  \* each with one clip
          Time,       \* times a user may enter; "read" is what was read off the clip
          Frame,      \* best frames a plate reading may give; "none" if it gives none
          MaxJobs     \* bound of the job records

\* What an instance must provide.
ExportAssumption == "read" \notin Time /\ "none" \notin Frame /\ MaxJobs \in Nat

VARIABLES
    case,       \* the case row
    exec        \* the executions of its export jobs, by position

vars == <<case, exec>>

Kind == {"REPORT_VIDEO_EXPORT", "PLATE_IMAGE_EXPORT"}
\* How an execution ends: with an asset, with the failure the kind declares,
\* with a limit no image meets, with an error of the Worker, or lost with its
\* last attempt.
Ending == {"done", "failed", "unsatisfiable", "broken", "lost"}

(***************************************************************************)
(* What is to be exported.                                                 *)
(***************************************************************************)
\* `build_export_requests`; no entry for the image without a plate frame.
Request(c, kind) ==
    IF kind = "REPORT_VIDEO_EXPORT" THEN <<c.selected, c.time>> ELSE <<c.selected, c.plate[c.selected]>>

Requested(c, kind) ==
    /\ c.selected \in c.observed
    /\ kind = "PLATE_IMAGE_EXPORT" => c.plate[c.selected] # "none"

\* Mutant: an order counts whatever its input was.
MutCurrent(c, kind) == {i \in DOMAIN c.jobs : Requested(c, kind) /\ c.jobs[i].kind = kind}

\* Job records whose pinned input is the request of today.
Current(c, kind) ==
    {i \in DOMAIN c.jobs : Requested(c, kind) /\ c.jobs[i] = [kind |-> kind, input |-> Request(c, kind)]}

\* `chosen`: among the reflected ones that succeeded, the last.
Chosen(c, e, kind) == {i \in Current(c, kind) : c.settled[i] = "REFLECTED" /\ e[i] = "done"}

\* `record_id` is there, the situation is answered, the final check is made.
Assembled(c) == c.selected \in c.observed /\ c.responded

ReportVideoMissing(c, e) == Assembled(c) /\ Chosen(c, e, "REPORT_VIDEO_EXPORT") = {}

Awaited(c, kind) == \E i \in DOMAIN c.jobs : c.jobs[i].kind = kind /\ c.settled[i] = "waiting"

(***************************************************************************)
(* Orders.                                                                 *)
(***************************************************************************)
\* `issue_job`: what is still awaited of that kind is superseded.
IssueExport(c, job) ==
    [c EXCEPT
        !.jobs = Append(@, job),
        !.settled = Append([i \in DOMAIN @ |->
                        IF @[i] = "waiting" /\ c.jobs[i].kind = job.kind THEN "SUPERSEDED" ELSE @[i]],
                    "waiting")]

\* One order per kind and fingerprint, whatever became of it.
Due(c, e, kind) ==
    /\ Assembled(c) /\ Requested(c, kind)
    /\ kind = "REPORT_VIDEO_EXPORT" => ReportVideoMissing(c, e)
    /\ Current(c, kind) = {}

IssueIfDue(c, e, kind) ==
    IF Due(c, e, kind) THEN IssueExport(c, [kind |-> kind, input |-> Request(c, kind)]) ELSE c

IssueMissingExports(c, e) ==
    IssueIfDue(IssueIfDue(c, e, "REPORT_VIDEO_EXPORT"), e, "PLATE_IMAGE_EXPORT")

\* Every successful command and every reflected result of a case under review
\* ends with the gate.  A Package needs the video; whether the other
\* requirements hold is left open.
Gate(c, e) ==
    IF c.stage # "EVIDENCE_REVIEW" THEN {c}
    ELSE LET issued == IssueMissingExports(c, e) IN
         {issued} \cup
         (IF Assembled(c) /\ Chosen(c, e, "REPORT_VIDEO_EXPORT") # {}
             THEN {[issued EXCEPT !.stage = "READY"]} ELSE {})

LeaveReady(c) == [c EXCEPT !.stage = "EVIDENCE_REVIEW"]

\* Store the case, queue what it ordered.
Save(c) ==
    /\ Len(c.jobs) <= MaxJobs
    /\ case' = c
    /\ exec' = [i \in DOMAIN c.jobs |-> IF i \in DOMAIN exec THEN exec[i] ELSE "queued"]

Finish(c) == \E next \in Gate(c, exec) : Save(next)

Init ==
    \E c \in Candidate :
        /\ case = [selected |-> c, time |-> "read", responded |-> FALSE, observed |-> {},
                   plate |-> [x \in Candidate |-> "none"], stage |-> "EVIDENCE_REVIEW",
                   jobs |-> <<>>, settled |-> <<>>]
        /\ exec = <<>>

(***************************************************************************)
(* Results.                                                                *)
(***************************************************************************)
\* The readouts of the selected candidate are in, or its plate was read again.
ReadoutArrives(frame) ==
    Finish([case EXCEPT !.observed = @ \cup {case.selected}, !.plate[case.selected] = frame])

Execute(i, ending) ==
    /\ exec[i] = "queued"
    /\ ending = "unsatisfiable" => case.jobs[i].kind = "PLATE_IMAGE_EXPORT"
    /\ exec' = [exec EXCEPT ![i] = ending]
    /\ UNCHANGED case

\* `_apply_export`.  A result that is not awaited changes nothing, and nobody
\* tells the case of a lost one.
Reflect(i) ==
    /\ exec[i] \in Ending \ {"lost"} /\ case.settled[i] = "waiting"
    /\ Finish([case EXCEPT !.settled[i] = "REFLECTED"])

(***************************************************************************)
(* Commands.                                                               *)
(***************************************************************************)
RecordSituationResponse ==
    Finish(LeaveReady([case EXCEPT !.responded = TRUE]))

\* EDIT_EVENT_TIME: only a new value, only with evidence on the screen.
EditEventTime(t) ==
    /\ case.selected \in case.observed /\ t # case.time
    /\ Finish(LeaveReady([case EXCEPT !.time = t]))

\* The corrections of one selection do not count for the next one.
SelectOther(c) ==
    /\ c # case.selected /\ case.selected \in case.observed
    /\ Finish(LeaveReady([case EXCEPT !.selected = c, !.responded = FALSE, !.time = "read"]))

\* `export_notices` looks at the last order with the input of today.
FailureNotice(c, e, kind) ==
    /\ Current(c, kind) # {} /\ ~Awaited(c, kind)
    /\ e[CHOOSE i \in Current(c, kind) : \A j \in Current(c, kind) : j <= i] = "failed"

\* `derive_notices` offers the video when there ever was an order.
MissingNotice(c, e) ==
    /\ ReportVideoMissing(c, e) /\ ~Awaited(c, "REPORT_VIDEO_EXPORT")
    /\ \E i \in DOMAIN c.jobs : c.jobs[i].kind = "REPORT_VIDEO_EXPORT"

Offered(c, e, kind) == FailureNotice(c, e, kind) \/ (kind = "REPORT_VIDEO_EXPORT" /\ MissingNotice(c, e))

\* RUN_NOTICE_ACTION: the notice is on the screen and there is an order to
\* repeat.
Generate(kind) ==
    /\ Offered(case, exec, kind) /\ Current(case, kind) # {}
    /\ Finish(IssueExport(case, [kind |-> kind, input |-> Request(case, kind)]))

Next ==
    \/ \E frame \in Frame \cup {"none"} : ReadoutArrives(frame)
    \/ \E i \in DOMAIN exec : Reflect(i) \/ \E ending \in Ending : Execute(i, ending)
    \/ RecordSituationResponse
    \/ \E t \in Time : EditEventTime(t)
    \/ \E c \in Candidate : SelectOther(c)
    \/ \E kind \in Kind : Generate(kind)

Spec == Init /\ [][Next]_vars

(***************************************************************************)
(* Properties.                                                             *)
(***************************************************************************)
ExportTypeOK ==
    /\ case.selected \in Candidate /\ case.time \in Time \cup {"read"} /\ case.responded \in BOOLEAN
    /\ case.observed \subseteq Candidate /\ case.plate \in [Candidate -> Frame \cup {"none"}]
    /\ case.stage \in {"EVIDENCE_REVIEW", "READY"}
    /\ Len(case.jobs) <= MaxJobs /\ DOMAIN case.settled = DOMAIN case.jobs /\ DOMAIN exec = DOMAIN case.jobs
    /\ \A i \in DOMAIN case.jobs :
        /\ case.jobs[i].kind \in Kind
        /\ case.settled[i] \in {"waiting", "REFLECTED", "SUPERSEDED"}
        /\ exec[i] \in Ending \cup {"queued"}

\* A READY case has a video of the clip selected now with the time that counts
\* now, however late results, corrections and reselections followed each other.
ReadyVideoIsCurrent ==
    case.stage = "READY" =>
        /\ Assembled(case)
        /\ \E i \in DOMAIN case.jobs :
            /\ case.jobs[i] = [kind |-> "REPORT_VIDEO_EXPORT", input |-> <<case.selected, case.time>>]
            /\ case.settled[i] = "REFLECTED" /\ exec[i] = "done"

\* Whenever the video of an answered case is missing, a video is still awaited,
\* or the screen offers to make it and the command would accept: it is never
\* withheld because some earlier order had the same fingerprint.
MissingVideoHasExit ==
    ReportVideoMissing(case, exec) =>
        \/ Awaited(case, "REPORT_VIDEO_EXPORT")
        \/ Offered(case, exec, "REPORT_VIDEO_EXPORT") /\ Current(case, "REPORT_VIDEO_EXPORT") # {}

\* The two promises about the report video.
VideoFollowsCase == ReadyVideoIsCurrent /\ MissingVideoHasExit
=============================================================================
