------------------------------ MODULE Readout -------------------------------
(***************************************************************************)
(* A Readout job: frames of the incident clip are read one after another   *)
(* (readout/paddle_provider.py), what they say is brought to one result    *)
(* (readout/api.py), and evidence takes from it what may stand as a fact   *)
(* (evidence/assembly.py, evidence/time_resolution.py).                    *)
(*                                                                         *)
(* The Workers give no target hint, so a plate that is found is associated *)
(* with LOW_CONFIDENCE, which withholds nothing, and digits without the    *)
(* Hangul sign are not picked.                                             *)
(***************************************************************************)
EXTENDS Integers, Sequences, FiniteSets

CONSTANTS Text,         \* what OCR may read of a plate, sequences of characters
          FullPlate,    \* the texts in the form of a whole plate
          Question,     \* the character `?`
          Score,        \* ranks of frames by confidence, then by sharpness
          MinScore,     \* the first rank with PLATE_ACCEPT_CONFIDENCE
          Unit,         \* units of a second
          Gap,          \* distances of the samples, in units
          Error,        \* by how many seconds a time may be misread
          MaxFrames,    \* bound: frames of the clip in which a plate is found
          MaxPoor,      \* bound: those of them that are small or faint
          MaxSamples    \* bound: frames of the clip looked at for the time

ReadoutAssumption ==
    /\ Text \subseteq Seq(Nat) \ {<<>>} /\ FullPlate \subseteq Text
    /\ \A text \in FullPlate : \A i \in DOMAIN text : text[i] # Question
    /\ Unit \in Nat \ {0} /\ Gap \subseteq Nat \ {0} /\ Error \subseteq Int \ {0}
    /\ Score \subseteq Nat /\ {MinScore, MaxFrames, MaxPoor, MaxSamples} \subseteq Nat

VARIABLES
    kind,       \* "PLATE_READ" or "OVERLAY_TIME_READ"
    read,       \* what was read so far, frame by frame
    looked,     \* the frames looked at
    begin,      \* second of the recorder's clock at the first frame, in units
    gap,        \* distance of the frames
    result      \* NotYet, the object of a run that succeeded, or Failed

vars == <<kind, read, looked, begin, gap, result>>

NotYet == [status |-> "not yet"]
Failed == [status |-> "no result"]

Init ==
    /\ kind \in {"PLATE_READ", "OVERLAY_TIME_READ"}
    /\ read = <<>> /\ looked = 0
    /\ begin \in 0 .. Unit - 1 /\ gap \in Gap
    /\ kind = "PLATE_READ" => begin = 0 /\ gap = CHOOSE g \in Gap : TRUE
    /\ result = NotYet

\* A frame cannot be had, or OCR raises: the run fails, what was read is lost.
RunFails ==
    /\ result = NotYet
    /\ result' = Failed /\ read' = <<>> /\ looked' = 0
    /\ UNCHANGED <<kind, begin, gap>>

(***************************************************************************)
(* The plate.                                                              *)
(***************************************************************************)
MinAgreeing == 3                            \* MIN_AGREEING_FRAMES

\* `small` plates are lower than MIN_PLATE_PX_HEIGHT.
Frames == [text : Text, score : Score, small : BOOLEAN]
Faint(frame) == frame.score < MinScore
Poor(frame) == Faint(frame) \/ frame.small
PoorFrames == {i \in DOMAIN read : Poor(read[i])}

\* Frames without a plate leave no trace.
ReadPlate(frame) ==
    /\ kind = "PLATE_READ" /\ result = NotYet
    /\ Len(read) < MaxFrames
    /\ Poor(frame) => Cardinality(PoorFrames) < MaxPoor
    /\ read' = Append(read, frame)
    /\ UNCHANGED <<kind, looked, begin, gap, result>>

Votes(text) == Cardinality({i \in DOMAIN read : read[i].text = text})
Same(i, j) == read[i].text = read[j].text
SameLength == \A i, j \in DOMAIN read : Len(read[i].text) = Len(read[j].text)

MutAgreed(text) == Votes(text) >= MinAgreeing   \* mutant: half of the frames may disagree

\* At least three frames and more than half of them.
Agreed(text) == Votes(text) >= MinAgreeing /\ 2 * Votes(text) > Len(read)

\* Without such a majority one frame that differs is enough to disagree.
Disagreed == (\E i, j \in DOMAIN read : ~Same(i, j)) /\ ~\E text \in Text : Agreed(text)

Differing == {c \in DOMAIN read[1].text : \E i \in DOMAIN read : read[i].text[c] # read[1].text[c]}

\* The text of the consensus: of the majority, of all, or masked; none if
\* nothing was read or the lengths differ.
MostRead == read[CHOOSE i \in DOMAIN read : \A j \in DOMAIN read : Votes(read[j].text) <= Votes(read[i].text)].text
Masked == [c \in DOMAIN read[1].text |-> IF c \in Differing THEN Question ELSE read[1].text[c]]
Consensus(disagreed) ==
    IF read = <<>> \/ (disagreed /\ ~SameLength) THEN <<>>
    ELSE IF disagreed THEN Masked ELSE MostRead

\* The frame that stands for the result: the first of the best among those
\* that read the consensus; 0 if there is none.
Better(i, j) == read[i].score > read[j].score \/ (read[i].score = read[j].score /\ i < j)
BestFrame(eligible) ==
    IF eligible = {} THEN 0 ELSE CHOOSE i \in eligible : \A j \in eligible \ {i} : Better(i, j)

\* `_abstain_reason`, in the order of precedence.
AbstainReason(disagreed, best) ==
    IF disagreed THEN "FRAME_DISAGREEMENT"
    ELSE IF best = 0 THEN "none"
    ELSE IF read[best].text \notin FullPlate THEN "PARTIAL_PLATE_READ"
    ELSE IF read[best].small THEN "LOW_RESOLUTION"
    ELSE IF Faint(read[best]) THEN "OCR_LOW_CONFIDENCE"
    ELSE "none"

\* `_interpret_plate`.  The box of a partial reading is not that of the plate.
PlateRead ==
    /\ kind = "PLATE_READ" /\ result = NotYet
    /\ LET disagreed == Disagreed
           value == Consensus(disagreed)
           best == BestFrame({i \in DOMAIN read : disagreed \/ read[i].text = value})
           reason == AbstainReason(disagreed, best)
       IN  result' =
            [status    |-> IF read = <<>> THEN "UNKNOWN" ELSE IF reason = "none" THEN "OK" ELSE "NEEDS_REVIEW",
             value     |-> value,
             abstained |-> reason # "none",
             reason    |-> reason,
             positions |-> IF disagreed /\ SameLength THEN Differing ELSE {},
             best      |-> IF reason = "PARTIAL_PLATE_READ" THEN 0 ELSE best]
    /\ UNCHANGED <<kind, read, looked, begin, gap>>

\* evidence: what becomes `vehicle_number` without the user.
Adopted == ~result.abstained /\ result.status = "OK" /\ result.value # <<>>

(***************************************************************************)
(* The time on the screen.                                                 *)
(***************************************************************************)
\* A sample is what the recorder showed at its frame and by how much it was
\* misread, or a line in which no time could be recognised.
Samples == [at : Nat, off : Error \cup {0}, parsed : BOOLEAN]
Shown(at) == (begin + at) \div Unit
Time(sample) == Shown(sample.at) + sample.off

\* Frames without a line with a date give no sample.
LookForTime ==
    /\ kind = "OVERLAY_TIME_READ" /\ result = NotYet
    /\ looked < MaxSamples
    /\ looked' = looked + 1
    /\ \/ UNCHANGED read
       \/ \E off \in Error \cup {0} : read' = Append(read, [at |-> looked * gap, off |-> off, parsed |-> TRUE])
       \/ read' = Append(read, [at |-> looked * gap, off |-> 0, parsed |-> FALSE])
    /\ UNCHANGED <<kind, begin, gap, result>>

AllParsed == \A i \in DOMAIN read : read[i].parsed
Pairs == 1 .. Len(read) - 1
Elapsed(i) == read[i + 1].at - read[i].at
Ticked(i) == Unit * (Time(read[i + 1]) - Time(read[i]))

Distance(a, b) == IF a < b THEN b - a ELSE a - b

\* OVERLAY_QUANTIZATION_SEC and OVERLAY_DRIFT_RATIO: a second and 2 %.
Within(i) == 50 * Distance(Ticked(i), Elapsed(i)) <= 50 * Unit + Elapsed(i)

\* `null` is not `false`: one sample cannot be compared.
Checked(holds) == IF Len(read) < 2 THEN "null" ELSE IF holds THEN "true" ELSE "false"

NoTime == -1000000

\* `_interpret_overlay` and `_validate_samples`.
TimeRead ==
    /\ kind = "OVERLAY_TIME_READ" /\ result = NotYet
    /\ result' =
        IF read = <<>>
        THEN [status |-> "UNKNOWN", reason |-> "presence_undetermined", value |-> NoTime,
              format |-> "null", monotonic |-> "null", duration |-> "null"]
        ELSE IF ~AllParsed
        THEN [status |-> "UNKNOWN", reason |-> "ocr_failed", value |-> NoTime,
              format |-> "false", monotonic |-> "null", duration |-> "null"]
        ELSE [status |-> "OK", reason |-> "none", value |-> Time(read[1]), format |-> "true",
              monotonic |-> Checked(\A i \in Pairs : Ticked(i) >= 0),
              duration |-> Checked(\A i \in Pairs : Within(i))]
    /\ UNCHANGED <<kind, read, looked, begin, gap>>

\* evidence: an overlay is taken as the time of the offence if `_valid_overlay`.
Verified == result.status = "OK" /\ {result.format, result.monotonic, result.duration} = {"true"}

Next ==
    \/ RunFails
    \/ \E frame \in Frames : ReadPlate(frame)
    \/ PlateRead
    \/ LookForTime
    \/ TimeRead

Spec == Init /\ [][Next]_vars

(***************************************************************************)
(* Properties.                                                             *)
(***************************************************************************)
ReadoutTypeOK ==
    /\ kind \in {"PLATE_READ", "OVERLAY_TIME_READ"}
    /\ \A i \in DOMAIN read : read[i] \in IF kind = "PLATE_READ" THEN Frames ELSE Samples
    /\ looked \in 0 .. MaxSamples /\ begin \in 0 .. Unit - 1 /\ gap \in Gap
    /\ result.status \in {"not yet", "no result", "OK", "NEEDS_REVIEW", "UNKNOWN"}

Finished(of) == kind = of /\ result \notin {NotYet, Failed}

\* A plate that is adopted was read whole, by all frames or by three and more
\* than half of them, however the others agree among themselves; the frame that
\* is cut out for the report shows this very plate.
AdoptedPlateIsAgreed ==
    Finished("PLATE_READ") /\ Adopted =>
        /\ result.value \in FullPlate
        /\ \/ Votes(result.value) = Len(read)
           \/ /\ Votes(result.value) >= 3
              /\ \A text \in Text \ {result.value} : Votes(text) < Votes(result.value)
              /\ 2 * Cardinality({i \in DOMAIN read : read[i].text # result.value}) < Len(read)
        /\ read[result.best].text = result.value /\ ~Poor(read[result.best])

Marked(text) == {c \in DOMAIN text : text[c] = Question}

\* readout/invariants.py, R8 and R10 to R15, of whatever the frames said.  R15
\* does not hold where OCR itself reads a `?` that all frames agree on.
PlateKeepsContract ==
    Finished("PLATE_READ") =>
        /\ result.status = "UNKNOWN" => result.value = <<>>
        /\ result.abstained <=> result.status = "NEEDS_REVIEW"
        /\ result.abstained <=> result.reason # "none"
        /\ result.reason = "FRAME_DISAGREEMENT" => result.value = <<>> \/ Marked(result.value) # {}
        /\ (\A i \in DOMAIN read : Marked(read[i].text) = {}) => result.positions = Marked(result.value)

\* A recorder whose samples are read rightly is always believed, and its time is
\* that of the first frame that shows it; one sample that is misread by two
\* seconds (and 2 % of the time looked at) or more, or that cannot be read, is never believed.
OverlayIsChecked ==
    LET wrong == {i \in DOMAIN read : read[i].off # 0}
        far(i) == 50 * Unit * Distance(read[i].off, 0) >= 100 * Unit + read[Len(read)].at - read[1].at
    IN  Finished("OVERLAY_TIME_READ") =>
        /\ AllParsed /\ wrong = {} /\ Len(read) > 1 => Verified /\ result.value = Shown(read[1].at)
        /\ Cardinality(wrong) = 1 /\ (\A i \in wrong : far(i)) => ~Verified
        /\ Verified => AllParsed /\ Len(read) > 1

ReadoutSound == AdoptedPlateIsAgreed /\ PlateKeepsContract /\ OverlayIsChecked
=============================================================================
