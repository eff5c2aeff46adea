---------------------------- MODULE CaseEvidence ----------------------------
(***************************************************************************)
(* What a case shows about its selected candidate: observations, the       *)
(* user's corrections and the answer about the situation (case/command.py, *)
(* case/correction.py) are assembled anew for every view                   *)
(* (evidence/assembly.py), the record is judged by a catalog of rules and  *)
(* packed by a builder with checks of its own (evidence/requirements.py).  *)
(*                                                                         *)
(* An assembly that raises takes the command, or the delivery of the       *)
(* result, back with it: stored corrections are never deleted, so a bad    *)
(* one would make every later view of the case fail.                       *)
(***************************************************************************)
EXTENDS Naturals, Sequences

CONSTANTS Candidate,
          Type,      \* VisualEventType
          Plate, LongPlate,   \* LongPlate: no report with it keeps to 900 characters
          Time, OldTime,      \* OldTime: outside the years of the holiday calendar
          MaxLog, MaxRev      \* bounds of the corrections and of the selections

\* What an instance must provide.
EvidenceAssumption ==
    /\ LongPlate \subseteq Plate /\ OldTime \subseteq Time
    /\ "none" \notin Type \cup Plate \cup Time
    /\ MaxLog \in Nat /\ MaxRev \in Nat \ {0}

VARIABLES
    case,   \* selection, answer and corrections
    seen,   \* what the jobs have observed of the selected candidate
    fault   \* the last step ended in a ContractInputError

vars == <<case, seen, fault>>

Target == {"event.visual_event_type", "vehicle_number", "occurred_at"}
Answer == {"CONFIRMED", "CORRECTED", "USER_UNSURE"}

(***************************************************************************)
(* Observations.  Nothing is shown before Fine and both readouts are in,   *)
(* nor of a candidate Fine rejects.  Of the time readouts only the one     *)
(* `resolve_time` prefers counts: a valid overlay, else the file's.        *)
(***************************************************************************)
Nothing(fine) == [fine |-> fine, plate |-> "failed", clock |-> "none", time |-> "none"]
Observation ==
    {Nothing("pending"), Nothing("NOT_OBSERVED")} \cup
    {o \in [fine : Type \cup {"UNCERTAIN"}, plate : Plate \cup {"failed", "abstained"},
            clock : {"overlay", "file", "none"}, time : Time \cup {"none"}] :
        (o.clock = "none") = (o.time = "none")}

(***************************************************************************)
(* Corrections: a log that only grows, chained by `supersedes`.            *)
(***************************************************************************)
Here(c) == {i \in DOMAIN c.log : c.log[i].rev = c.rev}

\* `chain_head`, what the next correction supersedes: 0 for none.
ChainHead(c, target) ==
    LET mine == {i \in Here(c) : c.log[i].target = target}
    IN  IF mine = {} THEN 0 ELSE CHOOSE i \in mine : \A j \in mine : j <= i

\* `correction_heads`: the records no other of this selection supersedes.
Heads(c, target) ==
    {i \in Here(c) : c.log[i].target = target /\ \A j \in Here(c) : c.log[j].supersedes # i}

ChainsHold(c) ==
    /\ \A i \in DOMAIN c.log :
        LET r == c.log[i] IN
        /\ r.previous # r.new
        /\ r.supersedes # 0 =>
            /\ c.log[r.supersedes].target = r.target
            /\ c.log[r.supersedes].new = r.previous
    /\ \A target \in Target : \A i, j \in Heads(c, target) : i = j

Corrected(c, target) == Heads(c, target) # {}
NewValue(c, target) == c.log[CHOOSE i \in Heads(c, target) : TRUE].new

(***************************************************************************)
(* The record.                                                             *)
(***************************************************************************)
\* `classify_visual_evidence`.
Disposition(c, o) ==
    CASE o.fine = "NOT_OBSERVED" -> "NOT_ASSEMBLED"
      [] o.fine = "UNCERTAIN" /\ c.response # "USER_UNSURE" -> "AWAIT_SITUATION_RESPONSE"
      [] OTHER -> "ASSEMBLE"

\* `resolve_time`.
Status(c, o) ==
    CASE Corrected(c, "occurred_at") \/ o.clock = "overlay" -> "OK"
      [] ~Corrected(c, "occurred_at") /\ o.clock = "file" -> "NEEDS_REVIEW"
      [] OTHER -> "UNKNOWN"

Value(c, o, target) ==
    IF Corrected(c, target) THEN NewValue(c, target)
    ELSE CASE target = "vehicle_number" /\ o.plate \in Plate -> o.plate
           [] target = "occurred_at" /\ o.time \in Time -> o.time
           [] target = "event.visual_event_type" /\ o.fine \in Type -> o.fine
           [] OTHER -> "none"

HasPlate(c, o) == Value(c, o, "vehicle_number") # "none"
PlateReadoutPerformed(o) == o.plate # "failed"

\* What `assemble_evidence` requires of answer and corrections together.
AnswerFits(c) ==
    /\ c.response # "none" => c.about = c.selected
    /\ c.response = "CORRECTED" => Corrected(c, "event.visual_event_type")
    /\ c.response = "USER_UNSURE" => ~Corrected(c, "event.visual_event_type")

\* `_selected_template_ref`, and the template `render_report` takes.
Template(c, o, located) ==
    LET type == Value(c, o, "event.visual_event_type")
        plate == HasPlate(c, o) \/ PlateReadoutPerformed(o)
    IN  CASE plate /\ type # "none" /\ c.response \in {"CONFIRMED", "CORRECTED"} ->
                <<"specific", located, HasPlate(c, o)>>
          [] plate /\ type = "none" /\ c.response = "USER_UNSURE" -> <<"generic", located, HasPlate(c, o)>>
          [] OTHER -> <<>>

\* The report text can be written: `_render_inputs_complete` and the template.
Renders(c, o, located) ==
    /\ Value(c, o, "occurred_at") # "none" /\ c.response # "none"
    /\ Template(c, o, located) # <<>>

\* Policy has no answer: the deadline calendar does not reach the day, or the
\* text is too long to be rendered at all.
PolicyGap(c, o) ==
    \/ Value(c, o, "occurred_at") \in OldTime
    \/ Renders(c, o, FALSE) /\ Value(c, o, "vehicle_number") \in LongPlate

\* What building the view of a case comes to.
Build(c, o) ==
    IF o.fine = "pending" \/ Disposition(c, o) = "NOT_ASSEMBLED" THEN "nothing"
    ELSE IF ~ChainsHold(c) THEN "fault"
    ELSE IF Disposition(c, o) = "AWAIT_SITUATION_RESPONSE" THEN "partial"
    ELSE IF ~AnswerFits(c) THEN "fault"
    ELSE IF PolicyGap(c, o) THEN "gap"
    ELSE "record"

(***************************************************************************)
(* The final report, rule by rule, and the package.                        *)
(***************************************************************************)
\* An asset fact, "absent" for none; sizes matter only against the limits,
\* which are such that two assets within theirs are within the total.
Video == {<<"absent", "unknown">>, <<"AVAILABLE", "unknown">>, <<"AVAILABLE", "fits">>,
          <<"AVAILABLE", "exceeds">>, <<"UNKNOWN", "fits">>, <<"UNAVAILABLE", "fits">>}
Image == {<<"absent", "unknown">>, <<"AVAILABLE", "unknown">>, <<"AVAILABLE", "fits">>}
Delivery == [video : Video, image : Image, located : BOOLEAN, stamped : {"true", "false", "not_observed"}]

SizeOutcome(asset) ==
    CASE asset[1] = "absent" \/ asset[2] = "fits" -> "PASS"
      [] asset[1] # "absent" /\ asset[2] = "exceeds" -> "BLOCK"
      [] OTHER -> "UNKNOWN"

VideoOutcome(d) ==
    CASE d.video[1] = "AVAILABLE" -> "PASS"
      [] d.video[1] = "UNAVAILABLE" -> "BLOCK"
      [] OTHER -> "UNKNOWN"

AttachmentOutcomes(d) ==
    {SizeOutcome(d.video), SizeOutcome(d.image)} \cup (IF d.video[1] = "absent" THEN {"UNKNOWN"} ELSE {})

SituationOutcome(c) ==
    CASE c.response \in {"CONFIRMED", "CORRECTED"} -> "PASS"
      [] c.response = "USER_UNSURE" -> "WARN"
      [] OTHER -> "UNKNOWN"

TimeOutcomes(c, o, d) ==
    IF Status(c, o) = "UNKNOWN" THEN {"UNKNOWN"}
    ELSE IF ~Corrected(c, "occurred_at") /\ o.clock = "overlay" THEN {"PASS"}
    ELSE CASE d.stamped = "true" -> {IF Status(c, o) = "OK" THEN "PASS" ELSE "WARN"}
           [] d.stamped = "false" -> {"BLOCK"}
           [] d.stamped = "not_observed" -> {"UNKNOWN"}

Report(c, o, d) ==
    {VideoOutcome(d), IF d.located THEN "PASS" ELSE "WARN", SituationOutcome(c),
     IF Renders(c, o, d.located) THEN "PASS" ELSE "UNKNOWN"}
    \cup AttachmentOutcomes(d) \cup TimeOutcomes(c, o, d)

\* `overall` is the worst of the outcomes.
LetsThrough(c, o, d) == Report(c, o, d) \subseteq {"PASS", "WARN"}

\* What `build_report_package` checks on its own besides the verdict.
Packable(c, o, d) ==
    LET type == Value(c, o, "event.visual_event_type") IN
    /\ d.video = <<"AVAILABLE", "fits">> \/ d.video = <<"AVAILABLE", "exceeds">>
    /\ IF type = "none" THEN c.response = "USER_UNSURE" ELSE c.response \in {"CONFIRMED", "CORRECTED"}
    /\ Value(c, o, "occurred_at") # "none"
    /\ HasPlate(c, o) \/ PlateReadoutPerformed(o)

(***************************************************************************)
(* Steps.                                                                  *)
(***************************************************************************)
Init ==
    /\ \E c \in Candidate :
        case = [selected |-> c, rev |-> 1, response |-> "none", about |-> c, log |-> <<>>]
    /\ seen = Nothing("pending")
    /\ fault = FALSE

\* The view is built before the transaction ends; if that raises, it never was.
Store(c, o) ==
    LET built == Build(c, o) IN
    /\ fault' = (built = "fault")
    /\ case' = IF built \in {"fault", "gap"} THEN case ELSE c
    /\ seen' = IF built \in {"fault", "gap"} THEN seen ELSE o

\* Results of jobs are reflected: the first ones, or another reading of the plate.
Observe(o) ==
    /\ o # seen
    /\ seen.fine = "pending" \/ o = [seen EXCEPT !.plate = o.plate]
    /\ Store(case, o)

\* What the view shows: situation values are left out of a partial projection.
ShownValue(target) ==
    IF Build(case, seen) = "partial" /\ target = "event.visual_event_type"
       THEN "none" ELSE Value(case, seen, target)

MutPreviousValue(target) == ShownValue(target)     \* mutant: the chain is not asked

PreviousValue(target) ==
    LET head == ChainHead(case, target) IN IF head # 0 THEN case.log[head].new ELSE ShownValue(target)

\* `_correct` and `apply_correction`.
MayCorrect(target, value) ==
    /\ Build(case, seen) \in {"partial", "record"}
    /\ PreviousValue(target) # value
    /\ Len(case.log) < MaxLog

WithCorrection(target, value) ==
    [case EXCEPT !.log = Append(@,
        [rev |-> case.rev, target |-> target, previous |-> PreviousValue(target), new |-> value,
         supersedes |-> ChainHead(case, target)])]

\* MANUAL_PLATE_INPUT and EDIT_EVENT_TIME.
Edit(target, value) ==
    /\ MayCorrect(target, value)
    /\ Store(WithCorrection(target, value), seen)

MayAnswer(value) == value = "USER_UNSURE" => ChainHead(case, "event.visual_event_type") = 0

RecordSituationResponse(value) ==
    /\ value # "CORRECTED" /\ MayAnswer(value)
    /\ Store([case EXCEPT !.response = value, !.about = case.selected], seen)

\* "Another situation": correction and answer in one command.
CorrectSituation(type) ==
    /\ MayCorrect("event.visual_event_type", type)
    /\ Store([WithCorrection("event.visual_event_type", type) EXCEPT
                !.response = "CORRECTED", !.about = case.selected], seen)

Reselected(c) == [case EXCEPT !.selected = c, !.rev = @ + 1, !.response = "none"]

\* What was observed of the other candidate earlier is at hand at once.
SelectOtherCandidate(c, o) ==
    /\ c # case.selected /\ case.rev < MaxRev
    /\ Store(Reselected(c), o)

Next ==
    \/ \E o \in Observation : Observe(o) \/ \E c \in Candidate : SelectOtherCandidate(c, o)
    \/ \E value \in Plate : Edit("vehicle_number", value)
    \/ \E value \in Time : Edit("occurred_at", value)
    \/ \E value \in Answer : RecordSituationResponse(value)
    \/ \E type \in Type : CorrectSituation(type)

Spec == Init /\ [][Next]_vars

(***************************************************************************)
(* Properties.                                                             *)
(***************************************************************************)
EvidenceTypeOK ==
    /\ case.selected \in Candidate /\ case.about \in Candidate /\ case.rev \in 1..MaxRev
    /\ case.response \in Answer \cup {"none"}
    /\ Len(case.log) <= MaxLog
    /\ \A i \in DOMAIN case.log :
        /\ case.log[i].target \in Target /\ case.log[i].rev \in 1..MaxRev
        /\ case.log[i].supersedes \in 0..(i - 1)
    /\ seen \in Observation /\ fault \in BOOLEAN

\* No order of answers, corrections, reselections and late observations makes
\* the case ask evidence for something its contracts forbid: a command is
\* refused, stored, or meets a gap of the policies, and the stored case can
\* always be shown.
NoWiringFault == ~fault /\ Build(case, seen) \in {"nothing", "partial", "record"}

\* The catalog of rules and the builder of the package agree: whenever the
\* final report lets a case through, the package can be built.
PackageFollowsReport ==
    Build(case, seen) = "record" =>
        \A d \in Delivery : LetsThrough(case, seen, d) => Packable(case, seen, d)
=============================================================================
