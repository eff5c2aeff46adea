------------------------------- MODULE Parts --------------------------------
(***************************************************************************)
(* The components that share no state with the job queue nor with each     *)
(* other, checked side by side: a behaviour belongs to one of them, and    *)
(* the variables of the others rest.  Each property is that of its module. *)
(***************************************************************************)
EXTENDS Integers

CONSTANTS
    Interval, Lease, MaxCall, MaxDelay, MaxFailures, Horizon,   \* LeaseClock
    Candidate, Typed, Frame, MaxJobs,                           \* CaseExports
    Type, Plate, LongPlate, Moment, OldTime, MaxLog, MaxRev,      \* CaseEvidence
    K, Case, Proposal, Padding,                                 \* CandidateSpans
    Text, FullPlate, Question, Score, MinScore, Unit, Gap, Error, MaxFrames, MaxPoor, MaxSamples, \* Readout
    Poll, MaxChanges, MaxCommands,                              \* ViewFlow
    Worker, Source, Wanted, Format, Chunks, MaxFileChanges, MaxVideoCalls, \* PreparedMedia
    Call, Version, MaxData, MaxRuns                             \* Backup

VARIABLES
    part,                                                   \* the component that moves
    permits, stage, read,                                   \* FrameAdmission
    now, grid, tick, thread, since, renewed, failures, leaseUntil, stale, \* LeaseClock
    exporting, exec,                                        \* CaseExports
    reviewing, seen, fault,                                 \* CaseEvidence
    files, alive, searching, source, span, clip, failed,    \* CandidateSpans
    kind, readings, looked, begin, gap, result,             \* Readout
    server, screen, busy, unavailable, active, timer, commands, polls, call, late,
    doubt, answered, overtaken,                             \* ViewFlow
    registered, named, observed, reader, believed, handed,  \* RecordingRegister
    recordings, changes, calls, asking, inspections, prepared, stored, tx, given, reading, \* PreparedMedia
    db, services, target, doubtful, toolLock, cli, script, artifact, runs, \* Backup
    current, previous, dirty, schema, web, lock, op, running, database, migrating \* Deployment

Frames == INSTANCE FrameAdmission WITH Request <- {"r1", "r2", "r3"}, Concurrency <- 2

Clock == INSTANCE LeaseClock

Exports == INSTANCE CaseExports WITH
    case <- exporting, Time <- Typed

Evidence == INSTANCE CaseEvidence WITH case <- reviewing, Time <- Moment

File(length, video, frames, ends) == [length |-> length, video |-> video, frames |-> frames, ends |-> ends]

Spans == INSTANCE CandidateSpans WITH phase <- searching

\* In Parts.cfg files that end with a millisecond and within one, whose video is
\* shorter by less and by more than that, or of unknown length; alone and in a row,
\* with frames that are shorter and longer than a millisecond, end elsewhere than
\* the video, and leave a millisecond without a beginning.
Cases == {<<File(14, 14, {0, 3, 9}, 14)>>, <<File(14, 12, {0, 5}, 12)>>, <<File(15, 13, {0, 6, 7, 12}, 16)>>,
          <<File(14, 14, {0, 5, 10}, 11)>>, <<File(13, 0, {0}, 13)>>,
          <<File(6, 6, {0, 5}, 6), File(7, 7, {0, 2}, 7)>>, <<File(5, 5, {0}, 5), File(6, 5, {0, 3}, 5)>>,
          <<File(9, 9, {0, 3}, 9), File(6, 6, {0, 4}, 6)>>, <<File(6, 6, {0, 3}, 5), File(6, 6, {0}, 6)>>,
          <<File(6, 4, {0, 2}, 4), File(6, 6, {0}, 6)>>, <<File(6, 6, {0}, 6), File(5, 0, {0}, 5)>>}
Proposals == {-1, 0, 2, 5, 6, 8, 11, 13, 14, 16}

\* In Parts.cfg two plates that differ in a character and a piece of one, with a
\* character that looks like the mask; samples half a second and 50 s apart.
Reading == INSTANCE Readout WITH read <- readings
Plates == {<<1, 1>>, <<1, 2>>}
Texts == Plates \cup {<<0>>}
Errors == {-3, 1, 6}

Client == INSTANCE ViewFlow

\* Two Readout jobs look at one frame, before and after the decoder changes.
Register == INSTANCE RecordingRegister WITH
    frames <- registered, Reader <- {"plate", "time"}, Position <- {1},
    Image <- {"once", "now"}, MaxCalls <- 2

Media == INSTANCE PreparedMedia WITH
    source <- recordings, call <- asking, kept <- prepared, handed <- given,
    Request <- Wanted, MaxChanges <- MaxFileChanges, MaxCalls <- MaxVideoCalls

\* In Parts.cfg two executions want one analysis of two recordings and clips of
\* one of them; one stores in pieces and one as an old release does.
Videos == {[kind |-> "analysis", work |-> <<"front", "next">>], [kind |-> "clip", work |-> <<"front">>]}
Formats == [new |-> "chunked", old |-> "legacy"]

Dumps == INSTANCE Backup WITH lock <- toolLock, Release <- Version

Approved(rev, targets, parent, initial) ==
    [rev |-> rev, targets |-> targets, parent |-> parent, initial |-> initial]

\* Three revisions; the second and the third are approved again after a rollback.
Host == INSTANCE Deployment WITH
    Approval <- {Approved(1, {}, 0, TRUE), Approved(2, {1}, 1, FALSE), Approved(2, {1, 2}, 2, FALSE),
                 Approved(3, {2}, 2, FALSE), Approved(3, {2, 3}, 3, FALSE)},
    Legacy <- {Approved(2, {1}, 1, FALSE)}

ASSUME PartsAssumption ==
    /\ Frames!AdmissionAssumption
    /\ Clock!LeaseAssumption
    /\ Exports!ExportAssumption
    /\ Evidence!EvidenceAssumption
    /\ Spans!SpanAssumption
    /\ Reading!ReadoutAssumption
    /\ Client!FlowAssumption
    /\ Register!RegisterAssumption
    /\ Media!MediaAssumption
    /\ Dumps!BackupAssumption
    /\ Host!DeploymentAssumption

\* The variables of each component.
frames == <<permits, stage, read>>
clock == <<now, grid, tick, thread, since, renewed, failures, leaseUntil, stale>>
exports == <<exporting, exec>>
evidence == <<reviewing, seen, fault>>
spans == <<files, alive, searching, source, span, clip, failed>>
readout == <<kind, readings, looked, begin, gap, result>>
client == <<server, screen, busy, unavailable, active, timer, commands, polls, call, late,
            doubt, answered, overtaken>>
register == <<registered, named, observed, reader, believed, handed>>
media == <<recordings, changes, calls, asking, inspections, prepared, stored, tx, given, reading>>
backup == <<db, services, target, doubtful, toolLock, cli, script, artifact, runs>>
deployment == <<current, previous, dirty, schema, web, lock, op, running, database, migrating>>

vars == <<part, frames, clock, exports, evidence, spans, readout, client, register, media, backup,
          deployment>>

\* Candidates are alike.
First == CHOOSE c \in Candidate : TRUE

\* A component that does not move has one initial state.
Init ==
    /\ part \in {"frames", "clock", "exports", "evidence", "spans", "readout",
               "client", "register", "media", "backup", "deployment"}
    /\ Frames!Init /\ Clock!Init
    /\ Exports!Init /\ Evidence!Init /\ Spans!Init /\ Reading!Init /\ Client!Init /\ Register!Init
    /\ Media!Init /\ Dumps!Init /\ Host!Init
    /\ exporting.selected = First /\ reviewing.selected = First
    /\ part = "spans" \/ files = (CHOOSE case \in Case : TRUE)
    /\ part = "readout" \/ kind = "PLATE_READ"
    /\ part = "client" \/ screen.running
    /\ part = "backup" \/ (db = Dumps!Empty /\ services = "none")
    /\ part = "deployment" \/ current.rev = 0

FramesStep == part = "frames" /\ Frames!Next /\ UNCHANGED <<part, clock, exports, evidence, spans, readout, client, register, media, backup, deployment>>
ClockStep == part = "clock" /\ Clock!Next /\ UNCHANGED <<part, frames, exports, evidence, spans, readout, client, register, media, backup, deployment>>
ExportsStep == part = "exports" /\ Exports!Next /\ UNCHANGED <<part, frames, clock, evidence, spans, readout, client, register, media, backup, deployment>>
EvidenceStep == part = "evidence" /\ Evidence!Next /\ UNCHANGED <<part, frames, clock, exports, spans, readout, client, register, media, backup, deployment>>
SpansStep == part = "spans" /\ Spans!Next /\ UNCHANGED <<part, frames, clock, exports, evidence, readout, client, register, media, backup, deployment>>
ReadoutStep == part = "readout" /\ Reading!Next /\ UNCHANGED <<part, frames, clock, exports, evidence, spans, client, register, media, backup, deployment>>
ClientStep == part = "client" /\ Client!Next /\ UNCHANGED <<part, frames, clock, exports, evidence, spans, readout, register, media, backup, deployment>>
RegisterStep == part = "register" /\ Register!Next /\ UNCHANGED <<part, frames, clock, exports, evidence, spans, readout, client, media, backup, deployment>>
MediaStep == part = "media" /\ Media!Next /\ UNCHANGED <<part, frames, clock, exports, evidence, spans, readout, client, register, backup, deployment>>
BackupStep == part = "backup" /\ Dumps!Next /\ UNCHANGED <<part, frames, clock, exports, evidence, spans, readout, client, register, media, deployment>>
DeploymentStep == part = "deployment" /\ Host!Next /\ UNCHANGED <<part, frames, clock, exports, evidence, spans, readout, client, register, media, backup>>

Next ==
    \/ FramesStep \/ ClockStep
    \/ ExportsStep \/ EvidenceStep \/ SpansStep \/ ReadoutStep \/ ClientStep
    \/ RegisterStep \/ MediaStep \/ BackupStep \/ DeploymentStep

Spec == Init /\ [][Next]_vars

(***************************************************************************)
(* Properties.                                                             *)
(***************************************************************************)
TypeOK ==
    /\ Frames!AdmissionTypeOK /\ Clock!ClockTypeOK
    /\ Exports!ExportTypeOK /\ Evidence!EvidenceTypeOK /\ Spans!SpansTypeOK
    /\ Reading!ReadoutTypeOK /\ Client!FlowTypeOK /\ Register!RegisterTypeOK
    /\ Media!MediaTypeOK /\ Dumps!BackupTypeOK /\ Host!DeploymentTypeOK

\* FrameAdmission: reads that go on after their client has left still count, and
\* no permit is lost or given back twice.
ReadsBounded == Frames!ReadsBounded

\* LeaseClock: a lease outlives as many slow and failed renewals as fit into it,
\* and missed ticks are not caught up.
HeartbeatHolds == Clock!HeartbeatHolds

\* CaseExports: a READY case has a video of what is selected and corrected now,
\* and a missing one is awaited or offered.
VideoFollowsCase == Exports!VideoFollowsCase

\* CaseEvidence: no order of answers, corrections and reselections makes the case
\* break the contracts of evidence, and what the final report lets through can
\* be packed.
EvidenceSound == part = "evidence" => Evidence!NoWiringFault /\ Evidence!PackageFollowsReport

\* CandidateSpans: a resolution tells of every moment exactly what it is, and a
\* candidate within the scope gets its Fine window, its clip and its frame.
SpansSound == part = "spans" => Spans!SpansSound

\* Readout: a plate is adopted only if the frames agree on it, results keep the
\* contract, and a clock is believed if it runs like one.
ReadoutSound == part = "readout" => Reading!ReadoutSound

\* RecordingRegister: everyone who got a frame of a position got the same one,
\* for good, and all go by one observation of the source.
RegisterSound == Register!RegisterSound

\* PreparedMedia: no video mixes what a recording held at different times, and
\* one that was returned can be read, whole, for ever and by everybody.
MediaSound == Media!MediaSound

\* Backup: what a restore reports as done is the artifact, and an artifact is a
\* whole database of one release, whatever broken calls have left running.
BackupSound == Dumps!BackupSound

\* Deployment: what runs fits the tables, the journal tells how far a broken
\* operation came, and a release that fails its checks can be rolled back.
ReleaseRecoverable == Host!ReleaseRecoverable

\* ViewFlow: answers to commands stay on the screen, no command is repeated
\* blindly, and a screen behind the server is refreshed.
ScreenFollows == Client!ScreenFollows
=============================================================================
