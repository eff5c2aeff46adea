# Verification of daesingo

daesingo turns dash-cam recordings and a short description of a traffic offence
into a report: it extracts hints from the description, searches the recordings
for candidate scenes, verifies one of them, cuts a clip, reads the plate and the
overlay time, assembles evidence and packages it. A **Case** (module `case`)
decides what to do next and talks to the user. The **Runtime** (`common/jobs`,
`worker`) runs the jobs the Case issues; their handlers work on recordings
(`recording`, `search`, `readout`), on files of a shared mount
(`common/storage`) and pay providers (`common/usage`). A web client
(`apps/web`) shows the Case, and a host controller (`deploy/ec2.py`) moves
releases in and out. This directory holds TLA+ models of these parts, TLC
configurations that check the models, and TLAPS proofs.

Source paths are relative to `src/daesingo/` of the repository, except those
that start with `apps/`, `deploy/`, `scripts/` or `docs/`.

## 1. Inventory

| Part | State | Operations | What is hard | What makes it correct | Status |
|---|---|---|---|---|---|
| Job life cycle (`common/job_execution.py`, `retry_policy.py`) | status and cancel mark of each attempt | queue, start, finish, lose and retry, cancel | bounds; cancellation against retry | attempts form a chain, retries are bounded, a cancelled job never starts again | modelled, proved |
| Job queue (`common/jobs`, `common/db/transactions.py`, `worker/composition.py`) | rows of executions and exhaustion notices; each Worker's control point, ownership fence and cancel signal | enqueue, claim, heartbeat, T1 (terminal write), request_cancel, stale sweep, startup gate | many processes on the same rows, crashes, commits without acknowledgement, unlocked scans, locks taken one by one | nobody runs another's execution, no result is claimed that is not durable, no job is forgotten | modelled, proved |
| Heartbeat clock (`common/jobs/heartbeat.py`) | tick, last success, lease | wait, renew, fail | the lease runs from the claim's UPDATE, the ticks from the thread's start; slow renewals and failures add up | a live Worker's lease is taken only after more failures than the lease covers, a lost one stops the Worker | modelled, proved |
| Case aggregate (`case/domain.py`, `jobs.py`, `analysis_start.py`, `observation.py`) | stage, job records, settle reasons, outcomes, processed executions, candidates, selection | start, hints, candidates, select, reselect, regress, settle, issue the next job | operations that go backwards while jobs are under way | what is waited for fits the stage and the selected candidate | partly, proved |
| Commands and notices (`case/command.py`, `service.py`, `view.py`, `stored_observation.py`) | none of their own | START, STOP, EDIT_HINT, RETRY_SEARCH, RETRY_PLATE_READ, SELECT_OTHER_CANDIDATE, evidence commands | a command is admitted by the notice on the screen | every state the user can be stuck in offers a way out, about the right candidate | partly |
| Delivery (`common/jobs/reflection.py`, `redelivery.py`, `exhaustion.py`, `case/reflection.py`, `worker/case_reflector.py`) | receipts, what a process has read and not delivered yet | T2 after the job, redelivery passes, acknowledgement of notices | at least once, out of order, after the user went on | each result takes effect once, or is refused and settled, and none faults for ever | modelled, proved |
| Case store (`case/store*.py`) | serialised case rows | load_for_update, save | - | one case operation is one transaction | an assumption of the models |
| Exports (`case/exports.py`, `_apply_export`) | export orders by input, their results | order, retry, choose for the Package | finished exports that became stale | the video of a Package shows the clip and time of the case | partly |
| Corrections and evidence (`case/correction.py`, `evidence/`) | correction log, change log, revisions; observations | correct, answer, assemble, judge, pack | chains of corrections over reselections; rules and checks written apart | no stored correction makes a view fail; READY means packable | partly |
| Search spans (`search/coarse.py`, `fine.py`, `recording/spans.py`, `multi_source.py`) | spans in seconds and milliseconds | resolve, propose, clamp, round, verify, cut | floor against round, gaps, video shorter than container | a candidate stays in its scope and can be cut out | partly |
| Readout (`readout/`) | frames read so far, result | read, agree, abstain; sample, parse, validate | majorities of two and three, masks, poor frames | a plate that is adopted was agreed on; a verified time was checked | partly |
| Frame register (`recording/service.py`, `mysql_repository.py`) | frame identities, time observations | resolve, observe, save | each call a transaction of its own | one frame per position for good, one observation all go by | partly |
| Prepared media (`recording/materialization.py`, `multi_analysis.py`, `mysql_repository.py`) | snapshots and inspections of an execution, stored videos with their chunks and owners | snapshot, probe, encode, compare, join, store, read | recordings change meanwhile, two executions store the same video, transactions fail half-way | what is stored was cut from the registered content, is whole and stays readable | modelled |
| Object storage (`api/upload.py`, `common/storage`) | files, leases, registrations | stage, publish, register, clean up | cleanup beside publishing, crashes with a registration open | nothing registered is deleted, leftovers go | modelled, proved |
| Usage ledger (`common/usage`, `search/provider.py`, `retry.py`) | tracker and final rows per provider attempt | begin, finish, retry, reconcile | paid call and row are two worlds | the books say what was asked | modelled, proved |
| Frame reads (`api/frame_lifetime.py`) | permits | acquire, read in a thread, release | clients that leave | reads are bounded, permits are not lost | modelled, proved |
| Web client (`apps/web/src/state/caseFlow.ts`, `selectScreen.ts`, `screens/`) | view, polls, commands under way | poll, send, check; pick a screen and its buttons | answers overtake each other or are lost; screen and admission are decided apart | no view goes back in time, no command is repeated blindly, every screen leads on | partly |
| Host controller (`deploy/ec2.py`) | journal, schema record, release records, web pointer, lock | deploy, rollback, repair | files written one by one, kills | what runs fits the tables, the journal tells the state | partly, proved |
| Backup and migrations (`scripts/backup_compose.py`, `common/db/migrate.py`) | database, artifact, lock directory, scripts in the container | back up, restore, migrate, discard | scripts outlive their calls, partial imports, half-done migrations | PASS and a complete artifact tell the truth | modelled |
| Measurement session (`scripts/recording_probe_session.py`, `recording_ec2_host.py`, `recording_cpu_quota_supervisor.py`) | snapshot, operation lock, files of the evidence directory, containers of the stage | run a unit, measure, recover, give up the lock | kills of unit, session, host and recovery; three callers of the recovery; a host that outlives its unit | services and measurement never share the host; the lock is given up only with everything back | modelled, proved |
| Remaining parts | - | - | - | - | see "Not modelled" |

**How the parts interact.** A user command locks the case row, changes the
case, and in the same commit inserts the rows of the jobs it issued or marks
those it stopped (`api/composition.py`). A Worker claims a due QUEUED row,
runs its handler beside a heartbeat thread, and records the result (T1). Then
it applies the result to the case (T2): lock the case, change it, insert the
rows of the follow-up jobs, write the receipt, all in one commit. If T2 fails,
the redelivery pass of any process tries again until the receipt is there. A
sweeper in every Worker process turns RUNNING rows with an expired lease into
STALE, and in the same commit inserts the next attempt, or, for HINT_EXTRACT
without retries left, a notice that is delivered to the case like a result.
Cleaners and usage reconciliation run beside the sweeper. The handlers reach
the recording register and the usage ledger in transactions of their own. The
web client polls the view and sends commands; the host controller only starts
and stops processes and migrates the tables.

The hazards, each at its line with the properties that look for it, are in
`PROJECT.json`.

## 2. Modules

| Module | Contents |
|---|---|
| `JobLifecycle` | abstract specification: what the Runtime promises about attempts |
| `JobQueue` | the database queue; `Lifecycle == JL!Spec` states that it implements `JobLifecycle` |
| `LeaseClock` | the heartbeat of one execution in integers |
| `CaseAggregate` | the case row as a record, every operation on it a function from case to case |
| `CaseJobs` | one case, the user, the ledger of its jobs, delivery; properties at the end |
| `Delivery` | abstract specification: what Runtime and Case promise each other about results; `Delivers == Contract!Spec` in `CaseJobs` |
| `CaseScreen` | extends `CaseJobs`: notices, progress, screen and buttons of a view; the case runs check it |
| `CaseExports`, `CaseEvidence` | exports; corrections, evidence and Package |
| `CandidateSpans`, `Readout` | from a proposal to the clip; plate and overlay time |
| `RecordingRegister` | frame identities and time observations |
| `PreparedMedia` | analysis videos and clips, from the recording to the committed chunks |
| `ObjectStorage`, `UsageLedger`, `FrameAdmission` | files and leases; accounting; permits |
| `ViewFlow`, `Deployment`, `Backup` | web client; host controller; backup and restore |
| `ProbeSession` | the measurement on the production host and its recovery |
| `Durable` | `JobLifecycle`, `ObjectStorage`, `UsageLedger` and `ProbeSession` side by side, with their liveness |
| `Parts` | the other components that exchange nothing, side by side |
| `...Proofs` | theorems |

There are no separate instantiating modules: the constants of the case and job
specifications are sets of model values or strings, which the `.cfg` files give
directly, and `Durable` and `Parts` instantiate the others. Operators named `Mut...` stand
before the definition they deform. They are plausible bugs (a dropped guard, a
missing reset) with which each property was seen to fail; no specification uses
them.

### JobLifecycle

`status[<<job, attempt>>]` and `marked[<<job, attempt>>]` are the columns
`status` and `cancel_requested_at`. `Submit`, `Begin`, `Finish`, `Lose` and
`Cancel` are enqueue, the claim's UPDATE, finish, sweep_expired and
request_cancel, as far as a reader of the ledger sees them.

### JobQueue

| Code | Action |
|---|---|
| `repository.enqueue` | `Enqueue` |
| `cancel.request_cancel` | `CancelLock` (one row lock after another), `CancelScanned`, `CancelCommit`, `CancelRollback` |
| `repository.claim_one` in `run_worker_transaction` | `Claim` (first try), `ClaimAgain`, `ClaimRecovered` (replays on the pinned row), `ClaimGivenUp` |
| `heartbeat.LeaseConnection.renew` | `Heartbeat` |
| `worker_loop._run_claims` | `HandlerEnds`, `RecordRefused`, `AfterCommit`, `ReflectDone` |
| `composition.record` (T1) | `Record`, `RecordReplayed` |
| `sweep.sweep_once`, `sweep_expired`, `SweepService.start` | `Scan`, `Sweep`, `SweepSkips`, `PassFails`, `GateOpens` |
| lease expiry, `available_at` | `LeaseExpires`, `BackoffElapses` |

* A committed transaction is one step. Each Worker transaction may commit with
  the acknowledgement lost: the row changes and the Worker does not learn it.
  The three tries of `run_worker_transaction` and the outer loop of T1 become
  "again, any number of times".
* Row locks matter only where a transaction takes several in turn, which is
  `request_cancel`; `RowFree` is FOR UPDATE waiting or SKIP LOCKED passing over.
* Time is two facts, `expired` and `due`, that may become true at any moment.
  So no safety property here depends on the ratio of lease, heartbeat and sweep
  interval (60 s, 10 s, 15 s by default).
* `owner` stands for `lease_owner` and `claim_token`: the owner is drawn fresh
  by each process, a claim writes both, and a row is claimed at most once.
  A restarted process is another element of `Worker`.
* A graceful stop is a `Crash` at a moment of rest. A fatal error of the
  heartbeat or sweep thread, which stops the process, is a `Crash`, too.
* T2 is one private step here; its outcome is the subject of `CaseJobs`.

### LeaseClock

| Code | Action |
|---|---|
| `_CLAIM_UPDATE` has taken effect | `Init`: the lease runs from here |
| its COMMIT is not acknowledged, the replay on the pinned row | `Unanswered`, `Recover`, `Drop` |
| `heartbeat.start` in `worker_loop._run_claims` | `Start`: the ticks run from here |
| the turns of `Heartbeat.run` | `Loop`, `Wake`, `Renew`, `Renewed`, `Failed`, `Lost` |
| the sweeper that takes an expired lease; the clock | `Sweep`; `Pass` |

`Missed` is the arithmetic of skipped ticks. The configuration asks only for a
lease longer than the interval, and so does `LeaseAssumption`; besides it only names
the latencies: a thread wakes and an observer returns within `MaxDelay`, a
renewal takes at most `MaxCall`. `Cycle` is the longest time from one tick to the
next under both. How long the claim takes to be answered, with its replays, and
the thread to start, nothing bounds: a replay finds the receipt and goes on with
the lease as it is, and nobody looks at it again before the first tick.
`HeartbeatHolds` therefore says what a sweep of a running Worker costs:
`Lease < Behind + (failures + 1) * Cycle + MaxDelay + MaxCall`, where `Behind` is what
the lease of the claim had lost when the thread started, 0 once it has been
renewed; and that each renewal belongs to its own tick, so that skipped ticks are
never caught up. With the defaults (interval 10 s, lease 60 s), calls of at most
9 s and no delay a renewed lease, or one whose thread started within 1 s,
survives four failures in a row; the first lease survives three if its thread
started within 11 s, two within 21 s, one within 31 s. After more than 41 s the
lease may end before the first renewal, even if nothing fails.

### CaseAggregate and CaseJobs

A job is its position in `job_records`, a candidate `<<search, rank>>`. `settled`
holds the settle reason ("waiting" for none), `out` the observation outcome.
`via` records the job an input comes from: the Fine a clip was cut for, the
clip a readout reads (both in `observation_inputs`), and for a search the hint
job it follows, which the code does not store and only a property reads.

`CaseJobs` adds the row of each job as a whole (`ledger`): open, ended in one of
the four ways, with a cancel request, a notice, a receipt. `JobQueue` and
`JobLifecycle` justify it: a row ends once, a result stays, STALE of the last
attempt has its notice, CANCELLED only after a request.

| Code | Action |
|---|---|
| `case/command.py` handlers inside `execute_command` | `StartAnalysis`, `StopAnalysis`, `EditHint`, `RetrySearch`, `RetryPlateRead`, `SelectOther`, `EvidenceCommand` |
| Runtime outcome of a job | `RunSucceeds`, `RunFails`, `RunIsLost`, `RunIsCancelled` |
| `wait_deadline` passes | `DeadlinePasses`; settled by the next reader, `View` |
| row read by T2 or a redelivery pass | `PickUp` |
| `reflect_terminal` with `reflect_execution` | `DeliverResult` |
| `acknowledge_exhaustion` with `receive_hint_exhaustion` | `DeliverNotice` |
| T2 rolls back, or the process dies | `LetGo` |

A delivery may stay held after its commit. This stands for a lost
acknowledgement as well as for a second process that read the same row.

Abstractions to know:

* Evidence is not assembled. Where the code asks whether `evidence` is null
  the model asks whether both readouts of the selected candidate are settled.
  Whether a Package comes out of them is left open (`Gate`).
* A Fine that succeeded says OK (OBSERVED or UNCERTAIN), NOT_OBSERVED or
  NO_VISUAL. UNCERTAIN only adds a question to the user.
* `EVIDENCE` stands for the situation response and the corrections: leave
  READY, look at the gate again. A manually entered plate withdraws the
  plate notice; the model goes on offering it.
* `expected_case_rev` is left out: a command is always given on the current
  view, which is what comparing the revisions enforces.
* Exports are the subject of `CaseExports`; previews and commands whose source is
  missing are left out. They touch nothing the properties look at.
* A search that fails because of its input ("fatal") offers no exit, as the
  code intends; `ScreenLeadsOn` exempts it.

### CaseScreen

What the user sees is a function of the case and its ledger, in three places of
the code: `case/view.py` and `service.py` derive progress (`CoarseStep`) and
notices, `selectScreen.ts` picks the screen from both by rules tried from top to
bottom (`Rules`, `Screen`), and each screen has the buttons it takes from the
notices (`Buttons`). `Admitted` is what the command handlers ask for before they
do anything. The module has no state of its own.

`ScreenGuides` is stated of every state: the progress screen is shown only while
a result is waited for and the stopped screen only when none is
(`ScreenTellsProgress`); where the work is over the screen has a button, and
the case admits what the button asks for (`ScreenLeadsOn`). Two cases are
exempt by name. `WithoutVisual`: a Fine that succeeds without visual evidence
would be left on the progress screen; `search/` never returns one.
`DeadEnd`: a failure that repetition cannot mend, with no other candidate, has
only "start over", as `FailedScreen.tsx` says. The misleading failure screen of
the finding `CaseEmptyResult` needs no exemption of its own: it shows the wrong
buttons, but no button the case refuses, and none only where it takes the old
Fine for such a dead end (and there the user misses the ways on of the empty
result; that is the finding).
`ProgressEnds` says that the progress screen comes to an end, unless an
observation job was lost, which is the finding `CaseFineLost`.

### Delivery

For each job an outcome, what the case wants (`wish`) and whether it was taken
(`receipt`). `Decide` changes wishes, `End` fixes an outcome, `Take` lets it
have its effect and writes the receipt, `Acknowledge` writes the receipt of an
outcome nobody waits for. `CaseJobs` maps to it by `WishOf`: repeated, late and
failed deliveries disappear in stutters, which is the point.

### CaseExports

A case under review with its orders and their results. `Request` is
`build_export_requests`: the video is pinned to clip and burnt-in time, the
image to clip and frame. `ReadoutArrives`, `RecordSituationResponse`,
`EditEventTime` and `SelectOther` change what is wanted, `IssueMissingExports`
ends each, `Execute` and `Reflect` are job and result, `Generate` the user's
retry under `Offered`. `VideoFollowsCase` says that the video a Package is built
from shows the selected clip with the present time, and that a missing one is
ordered, awaited or on offer.

### CaseEvidence

Values are reduced to what rules tell apart. `Build` is the assembly with its
corrections, `Report` the catalog, `Packable` the builder's own checks. `Edit`,
`RecordSituationResponse`, `CorrectSituation`, `SelectOtherCandidate` and
`Observe` are the writers; `Store` takes the change back if the assembly
raises, as the transaction does. `EvidenceSound`: no order of answers,
corrections and reselections breaks the contracts of evidence (chains hold,
every view can be built), and what the FINAL report lets through can be packed. `PolicyGap` is the place
where the law's calendar or the report text raises; it changes nothing.

### CandidateSpans

Time is counted in 1/K ms, K = 4, so that floor, round and exact values differ.
`Prepare` resolves the whole case, `Propose` is a provider answer through
`Clamped`, `Round` and `InScope`, `Verify` the Fine window, `ResolveClip`,
`BuildClip` and `Hits` the rest of the way; `Vanish` removes a file between.

A file has the times at which its frames begin and where the last one ends, which
need not be where the probe said that the video ends. What is made of a
resolution is whole frames: those that begin in a piece are `Selected`, the piece
becomes `Aligned`, a piece that holds none cannot be made, and pieces of several
files must meet in a frame border (`Joins`). `Coverage` is then the range that a
clip claims to show, and `Hits` asks for the representative time in it. `Prepare`
and `BuildClip` may fail at any time for the materializer's other reasons.

`SpansSound`: a resolution tells of every moment exactly once whether it is there
or missing; a candidate that passed the check of the scope gets its Fine window
and a complete clip as long as the files are there; its clip can be built if and
only if each piece holds a frame (that pieces meet was settled when the whole
case was prepared); and its representative time has a position, in one file, if
and only if a frame of the span has begun by then and it is not the span's very end. So a span
between two frames has no clip, and a time before the span's first frame no
preview. The last two are said of a source whose frames reach the scope's end: where the
frames end earlier, the source is shorter than the scope, and a candidate there
may be refused.

* The source lasts as long as the MP4 says, exactly or in whole milliseconds
  (`Durations`). That the clock of the output may shift a frame by two ticks, and
  that borders may differ by a microsecond, is left out.
* `Hits` is the position handed to `resolve_frame`, which looks for the first frame
  at or after it. It finds none behind the last frame of a file; that is
  computation over the file, and left out.

### Readout

One job, of kind PLATE_READ or OVERLAY_TIME_READ. `ReadPlate` reads the next
frame (`PaddleOcrProvider.read_plate`), `PlateRead` interprets all of them
(`_interpret_plate`: consensus, abstention, best frame), `LookForTime` and
`TimeRead` the same for the overlay (`_interpret_overlay`,
`_validate_samples`), `RunFails` fails the run. `Adopted` and `Verified` are
what evidence takes over. `ReadoutSound` = `AdoptedPlateIsAgreed`,
`PlateKeepsContract` (rules R8 and R10 to R15 of `contracts/invariants.py` that
these results can break) and `OverlayIsChecked`.

### RecordingRegister

Frame identities by source and position, one time observation, and executions
that each are one thread. `Decode`, `Find`, `Add`, `Refuse` are
`RecordingService.resolve_frame`; `Observe` and `Save` are
`observe_time_sources`; `GiveUp` is a database that stays away, `Restart` a new
process. Every repository call is a transaction of its own
(`TransactionalRecordingRepository`), media is decoded between them.
`RegisterSound` = `OneFramePerPosition`, `FramesAreNamed`, `ObserversAgree`.

### PreparedMedia

| Code | Action |
|---|---|
| `prepare_analysis_input`, `prepare_incident_clip`, the chain of `multi_analysis.py` | `BeginAnalysis`, `BeginClip`, `TakeSnapshot`, `Join` |
| probe, ffmpeg and the second snapshot | `Probe`, `Encode`, `Verify` |
| `add_prepared_media` in one transaction | `PutMedia`, `Compare`, `PutPiece`, `PutManifest`, `Link`, `Commit`, `Retry` |
| `open_prepared_stream` | `Open`, `ReadPiece`, `Close` |
| failures, end of an execution | `Fail`, `End` |
| the mount changes under them (external) | `Change` |

A file is its content, its modification time and its inode. A write in place is
taken to give a new modification time, and a copy put back with the old one to be
a new inode; a file renamed away and back, or overwritten with its old times,
within one encoding would go unnoticed by the code as by the model. Transactions
read what is committed (READ COMMITTED). One part of a video that is stored
carries where its frames were taken to be and what its pixels were cut from.
`MediaSound`: both are always the registered content, an inspection that is
reused is that of its snapshot, a row is whole in the form its manifest names,
and what was handed out stays readable for each of its owners.

### ObjectStorage

| Code | Action |
|---|---|
| `_StagingOwner`, `_MultipartFile`, `publish`, `_abort` | `OpenStaging`, `Receive`, `Publish`, `Abandon` |
| `leased_source`, `_register_source`, `run_api_transaction` | `Admit`, `Insert`, `SendCommit`, `EndRegistration`; the database: `Commit`, `Rollback` |
| `MediaRoot`, `_LeasedMaterializer` | `StartTool`, `EndTool` |
| `CleanupScanner`, `OrphanPublishScanner`, `_delete_file` | `BeginScan`, `DeleteResidue`, `FindOrphan`, `DeleteOrphan`, `EndScan` |
| modification times | `Age` |

`FilesKept`: what is registered, or may yet be by a registration that is open,
and what a tool works in, is not deleted. `LeftoversRemoved`: what nobody uses
goes in the end.

### UsageLedger

The handler's side (`Begin`, `BeginUsage`, `Answered`, `FinishUsage`, `Retry`,
`RecordResult`, `Crash`) follows `search/provider.py` and `retry.py`;
`worker/readout_handlers.py` makes one attempt of the same shape. The other side
(`PickUsage`, `Finalize`, `FinalizeRollsBack`, `LeaveUsage`) is reconciliation,
in the Worker after T1 and in every sweep. `BooksAgree`: nothing is asked of a
provider without a tracker row, a final record names no run the job did not
produce, and no observation that was confirmed is lost. `EveryUsageFinalized`: none stays open.

### FrameAdmission

`Arrive`, `Acquire`, `Leave` and `Release` are the middleware, `StartRead`,
`EndRead` and `Respond` the route with its thread. `ReadsBounded`: at most as
many threads read as there are permits, and the permits add up.

### ViewFlow

`Refresh`, `PollAnswered`, `PollFails`, `Send`, `Answered`, `Refused`, `GiveUp`,
`CheckAnswered`, `CheckFails`, `Connect`, `Disconnect` are the client,
`ServePoll`, `Execute`, `ExecuteLate`, `ServeCheck`, `Reflect` the server. The
variables `doubt`, `answered` and `overtaken` only remember what the properties
compare. `ScreenFollows` = `AnswerStays` (a newer answer is not replaced by an
older one), `NoBlindRepeat` (a command whose fate is unknown is not sent again
before the view was read) and `NoSilentStall` (a view with running jobs is
polled again). An answer 404, after which the client reads no more, is left out:
the screen it leaves says that its view could not be had (`viewUnavailable`).

### Deployment

| Code | Action |
|---|---|
| `main`, `operation_lock`, `preflight` | `TakeUp`, `Preflight`, `Leave` |
| the stages of `transition` | `Quiesce`, `Packet`, `SchemaPending`, `Migrate`, `Migrated`, `MigrationComplete`, `Start`, `Intent`, `PublishWeb`, `Published`, `KeepPrevious`, `Promote`, `Promoted`, `Clear` |
| a kill of the command; a migration that outlives it | `Kill`, `MigrationEnds` |
| operator (`docs/runtime/rt14-public-deployment.md`, external) | `Unlock`, `CompletePromotion`, `RestoreSnapshot` |

`ReleaseRecoverable` = `ServicesFitSchema`, `JournalTellsState` (the table of
section 3 of that document) and `FailedCheckHasWayBack`.

### Backup

A call on the host (`BeginBackup`, `BeginRestore`, `Exec`, `Receive`, `Pack`,
`Report`, `FailCall`, `KillCall`) and its script in the database's container
(`TakeLock`, `CheckTarget`, `Import`, `ReadHeads`, `Dump`, `EndScript`,
`KillContainer`) are two processes: the script goes on when the call is gone.
`Migrate` and `MigrateModule` are `upgrade_all`, one module after the other.
`StartServices`, `StopServices`, `Discard` and `RemoveArtifact` are the operator
of the documented procedure: api, worker and migrate are stopped before a call,
and a target into which a restore failed is not served. Statements that a failed
revision left behind (DDL is not rolled back) are not modelled.
`BackupSound`: a restore that reports PASS left the artifact's database, a
complete artifact is one whole database with the heads of one release, services
only ever see a whole database, and scripts exclude each other.

### ProbeSession

It begins when the maintenance has begun: the lock is marked, the services are
down, and a snapshot says which ran (`prior`).

| Code | Action |
|---|---|
| `recording_probe_session.main`, mode `unit` and `run`; the gates | `StartUnit`, `RefuseUnit` |
| `file_child`, `child.wait`, `stop_child` | `RecordHost`, `HostEnded`, `StopHost`, `HostGone` |
| `run_commands`, `recovery_remaining` | `RestoreOfUnit`, `EndOfRestore` |
| `recording_ec2_host.main`, `LinuxSupervisor.stage` | `Gate`, `Attempt`, `Work`, `StagePassed`, `StageFails`, `WriteResult` |
| `Supervisor.cleanup` | `HostCleans`, `CleanupFails`; `Clean`, `RestoreCleanupFails` in the recovery |
| `restore` | `Check`, `NoneRunning`, `StartService`, `Ready`, `WriteReceipt`, `Unlock`, `RemoveLock`, `RestoreFails` |
| systemd, the kernel, the machine (external) | `KillUnit`, `KillHost`, `Reboot` |
| operator and runbook (external) | `CallRestore`, `StopEarlier`, `OtherOperation` |

* The recovery is called by the session, by the unit's stop-post and by the
  operator. Two recoveries at once are excluded, as section 6 of the runbook
  (`docs/runtime/experiments/2026-11-05-coarse-preparation-measurement-runbook.md`)
  forbids them, and so is a call of the operator in the instants between the
  fork of the host and the note of its pid.
* A Docker command whose client was killed takes effect at once or never. The
  snapshot is read in one step. The limits and approvals of a stage have one
  outcome: they hold or they do not.
* `Reboot` takes down the unit, its host and whatever the measurement runs. That
  Docker starts the services that ran is an assumption: the restart policy of the
  deployment is approved with it, as `unless-stopped` or `no`
  (`docs/runtime/ops-spec.md:381`), and the model has the first. Under `no` the
  operator starts them.
* The window for the recoveries of a unit may have passed whenever it is open,
  which is more than the clock allows.

`ProbeSound` = `NeverTogether` (no container of the measurement runs while a
service runs), `LockHeld` (the lock is ours until the services that ran run again,
the receipt is written and nothing of the stage is left) and `VerdictsTrue` (a
PASS of stage or session is true). `ServicesReturn`: the services come back if
the operator repeats the recovery. A snapshot without MySQL or API can never be
restored, so it is conditional on both.

### Durable and Parts

These components exchange no state: what one decides reaches another only
through jobs and their results, which `CaseJobs` has. `Durable` and `Parts` are
sums and not products: the initial state picks the component that moves, the
others rest, so every behaviour of every component occurs and no product of
unrelated states is explored. Each property is that of its component, for the
behaviours where it moves. `Durable` takes the job life cycle (its own variables),
storage, ledger and the measurement session, which have liveness; `Parts` the
rest. The constants of `Durable` and `Parts` are those of their components, given in
`Durable.cfg` and `Parts.cfg`; `Before` narrows what may have run before the measurement.

## 3. Runs

| Run | Module | Shows | Bounds |
|---|---|---|---|
| `Durable` | Durable | chain of attempts, final cancellation; nothing in use is deleted, the books agree, services and measurement never share the host, leftovers are settled | 2 jobs, `RetryMax` 2; see below |
| `JobQueueCrash` | JobQueue | exclusive dispatch, durable results, lost jobs accounted, cancellation only on request, live leases kept, refinement of JobLifecycle | 1 job, 1 retry, 2 Workers of which one may crash |
| `JobQueueLive` | JobQueue | every job settles although a Worker dies | 1 job, no retry, 2 Workers, one mortal |
| `JobQueueRetryLive` | JobQueue | every job settles over the whole chain | 1 job, 2 retries, 1 Worker |
| `CaseSearch` | CaseScreen | the search phase: one search per hint, nothing stopped takes effect, a screen that leads on in every state | 3 commands, 0 or 1 candidates |
| `CaseReview` | CaseScreen | the review phase: what is waited for belongs to the selection, a screen that leads on in every state | 4 commands, 2 candidates |
| `CaseReplay` | CaseJobs | no delivery faults, refinement of Delivery | all 7 commands, 2 of them given, 2 deliveries in flight |
| `CaseLive` | CaseScreen | the progress screen comes to an end, every result is taken | 2 commands, 0 or 1 candidates, a Fine that sees nothing, fair |
| `Parts` | Parts | the properties of the other components | see below |
| `CaseFineLost` | CaseJobs | *violated*, see findings | 1 command |
| `CaseEmptyResult` | CaseScreen | *violated*, see findings | 4 commands, 0 or 2 candidates |
| `FrameRace` | RecordingRegister | *violated*, see findings | 2 executions, 1 position |

**Why the bounds are enough to be telling.** The queue's hazards are about two
actors on one row and its successor, so two processes and one job with one
retry meet all of them. State that a Worker could carry from one execution to
the next needs a second job; that nothing of it leaks is `CancelledOnlyOnRequest`,
proved for any number. `Attempt` has one element more than the policy allows, so
that the bound on retries is not assumed. In `CaseJobs`, `MaxCommands` bounds
what the user does: one command to begin, one to go back, one to do something
in the new situation, and in the review phase a fourth to leave a candidate and
return. `MaxHeld` bounds the deliveries in flight: two are needed for a result
to be replayed while its successor arrives. `JobId` is large enough that no
command runs out of names (a command leads to at most six jobs: hint, search,
Fine, clip, two readouts), and `CaseTypeOK` checks that.

`Durable` has 150,666 distinct states, `Parts` 712,342. Their instances:

| Component | Instance | Why |
|---|---|---|
| ObjectStorage | 2 uploads, 1 tool, 1 cleaner | a file under a scan while another is published; cleaners exclude each other by the lease |
| UsageLedger | 1 retry; passes of a Worker and a sweep | two passes on one attempt, an attempt after another |
| ProbeSession | 2 starts of the unit, 2 kills or failures, MySQL and API ran before | a host that outlives its unit beside a recovery; a recovery that is killed and repeated; `prior` is compared as a whole, so more services add order but no case |
| FrameAdmission | 3 requests, 2 permits | one request must wait |
| LeaseClock | interval 3, lease 20, calls up to 3, delay 2, 2 failures, horizon 34 | a thread that starts at any moment of the first lease and after it; a lease that one failure and a slow cycle nearly exhaust, and two do |
| CaseExports | 2 candidates, 1 typed time, 2 export jobs | an order is left, and returned to |
| CaseEvidence | 2 candidates, 2 types, a plate that is too long, a time that is too old, 2 corrections, 2 revisions | a chain over a reselection |
| CandidateSpans | K = 4, 11 file layouts, 10 proposals | ends on and within a millisecond, video shorter by less and more than one, unknown length; frames longer than a span, between two files, beginning after the video's registered end; frames that end before the registered length, with it, and after it |
| Readout | 3 texts, up to 6 frames of which 1 poor, 3 samples, gaps of 0.5 s and 50 s, errors -3, 1 and 6 s | ties of two and three, masks, faint frames, drift |
| RecordingRegister | 2 executions, 1 position, 2 images, 2 calls | the race and the changed decoder |
| PreparedMedia | 2 recordings, 2 executions, one with the old storage format, the analysis of a chain and a clip, 2 chunks, 2 changes, 2 calls | a change between any two steps, and back; two that store the same |
| Backup | 2 callers, 2 releases, 1 write, 3 calls | a script of a broken call beside another call |
| ViewFlow | 2 polls, 2 changes, 1 command | an overtaking answer |
| Deployment | 3 revisions, 5 approvals, a host from before the records | forward, back, and forward again under another approval |

**Deadlock** is checked for the job modules. The case runs and `Parts` switch it
off: when the commands or bounds are used up and everything is delivered,
nothing is left to do.

**Fairness.** For `JobQueue`: the thread of a process that has not crashed goes
on; a transaction that is possible again and again is acknowledged in the end
(`SF`, as each try may fail); handlers return; clocks advance; an API
transaction ends; sweep passes recur while no cancel transaction is open. The
code's side of this: the endless retry loops of the Worker and the sweep
service, and the database's lock wait timeout. `Enqueue`, requests to cancel
and crashes are never fair. For `CaseJobs`: jobs end (that is what
`EveryJobSettles` shows of the queue), deadlines pass, and redelivery
passes recur and do not fail for ever (`SF` on `PickUp` and `Deliver`). No
command is fair: the user need not do anything. For `ObjectStorage` and
`UsageLedger`: requests and handlers end, the database answers, the passes of
the cleanup and sweep services recur (`CleanupService._run`, `SweepService`) and
do not roll back for ever (`SF`). For `ProbeSession`: the processes that live go
on, a killed one is gone in the end, and the operator repeats the recovery while
the lock is not given up and stops what an earlier stage has left (that is the
runbook's procedure; nothing in the scripts does it). In `Durable` a resting component satisfies its
fairness, none of its actions being enabled.

## 4. Proofs

No theorem bounds a constant; the assumptions are the named assumptions of the
modules, which TLC evaluates for the instances (`RetryMaxAssumption`,
`QueueAssumption`, `AdmissionAssumption`, `RegisterAssumption`,
`DeploymentAssumption`, `CaseJobsAssumption`, `DurableAssumption`,
`PartsAssumption`): sets are subsets of what they should be, finite where
they are counted, and placeholders are not members of them. Two parts of the last
say more. `LeaseAssumption` has the relation of lease and interval that the
configuration demands and, of the latencies it names, that a thread wakes before
the next tick; it relates the lease to none of them. By `SpanAssumption` a file's frames adjoin
and begin at 0 (`_frames` admits no others), and each file of a case lasts a
millisecond at least (it holds a frame); the code asks the latter of the whole line
only (`case/timeline_source.py:35`).

*JobLifecycleProofs.* The inductive invariant `IInv` is type correctness,
`AttemptChain`, `CancelSticks`, `RetryBounded` and `MarkedExists` (only existing
rows are marked). `CancelSticks` needs the latter and the chain: `Submit` queues
a first attempt, so the job must not have a marked row, and it has none if no
row of it exists. From `IInv` follow `AttemptsChain`, `CancelIsFinal`,
`RetriesBounded`, `StepsAreLegal` and `CancelledIsRequested`.

*JobQueueProofs.* `Inv` conjoins

* `RowsInv`: the invariant of the life cycle, for the rows;
* `WorkersInv`: a Worker that runs, records or reflects owns its row, and that
  row is not QUEUED again; a Worker in T2 has its result in the row; a signal
  or a CANCELLED result implies the mark;
* `CancelInv`: an open cancel transaction that has finished its scan has locked
  every existing attempt of the job. This is what makes the refinement go
  through: `CancelCommit` changes exactly the rows the abstract `Cancel`
  changes, because `Sweep` cannot add an attempt while the last one is locked;
* `LossInv`: lost jobs are cancelled, retried or reported.

Each action has a lemma that it preserves `Inv` and is a step or a stutter of
`JobLifecycle`. From these follow `QueueImplementsLifecycle`, and by it the
invariants of the life cycle for the queue, `DispatchIsExclusive` (owner of one
row is one Worker), `ReflectionIsDurable`, `LostJobsAreAccounted`,
`CancelledOnlyOnRequest` and the action property `LiveLeasesAreKept`.

*FrameAdmissionProofs.* `ReadsBounded` alone is not inductive: a permit may be
with a request that no longer has a client. The invariant counts them,
`permits + Cardinality(Holders) = Concurrency`, together with types and `InStep`
(where a request is says whether its thread runs). Each action moves at most one
request into or out of `Holders`.

*RecordingRegisterProofs.* `RegisterIsSound`: rows are only added, and never
over one that exists, so what an execution was handed stays what the row says;
the observation an execution believes is the one kept.

*DeploymentProofs.* The invariant follows the place of the operation through the
stages: `PhaseOfPlace` (what the journal says), `RecordsOfPhase` and
`TablesOfSchema` (what records and tables then are), `RunningOfPlace` (what runs)
and `WayBack` (an operation that was taken up leaves a known good release that
fits the tables).
Kills and operator steps leave the stages, which is why the journal and not the
place carries the invariant between operations.

*CaseProofs* is about one case with any number of commands, answers, deadlines,
deliveries in flight and repetitions. The invariant `Inv` conjoins

* `CaseInv`, of the case alone. `History` is what the job records say of each
  other: a hint job that was taken has searches of one scope (`HintsFollowed`), an
  observation job is about a candidate that a reflected search has found
  (`Placed`), has its input from a job that succeeded for the same candidate
  (`Chain`), and whatever is repeated is over and brought nothing to build on
  (`Superseded`). `Present` relates jobs to stage and selection: one search is
  awaited, the last one (`OneSearch`), the candidates are the latest generation
  (`CandsCurrent`), and what is waited for is the selected candidate's, one job of
  a kind (`WaitingPlaced`). `PlateLast` says that the last plate job is the
  selected candidate's where the notice to repeat it asks for that; it fails
  within a reselection, so the lemmas work with `CoreInv` and restore it;
* `Ready`: READY has both readouts;
* `TakenAre`: processed executions are reflected jobs;
* `Matches`: the row of each job fits its kind and settle reason (`Fits`; a
  receipt means that the job is not waited for, EXHAUSTED that there is a notice);
* `Bounded`: each job is paid for by a command. `Account` counts the jobs there
  are and those the waiting ones may still lead to: a hint job five, a search
  four, a Fine three, a clip two. A command adds at most six and a delivery
  nothing, so `Len(jobs) <= 6 * MaxCommands`, the number `JobId` is chosen by.

The state space of the case is its history, so the proof is about operations as
functions: `Evolves(c, d, taken)` says what a step may do to jobs (those of `taken`
take effect, others may be dropped, new ones wait), each operation of
`CaseAggregate` has a lemma that it keeps the invariant and evolves the case, and
`StepKinds` sums the steps up: a step orders jobs, ends a row, delivers, or leaves
case and ledger alone. From `Inv` follow `CaseIsWellFormed`, `SearchesComeDue`,
`ReflectedIsProcessed`, `DeliveriesDoNotFault`, `WaitingJobsAreSelected`,
`ReadyIsRead` and `RetriesAreSelected`; from `Inv` and `StepKinds`, `CaseDelivers`:
what evolves is a `Decide`, an ended row an `End` or a stutter (a row that ends
without result or notice), a delivery a `Take`, an `Acknowledge`, or, repeated,
invisible. `OneSearch` is stronger than the property asks for: that the search
awaited is also the last one is what keeps the answer from finding candidates of
an older generation than the case has.

`ScreenLeads` is about what the user sees of that case. `Inv` says what may be waited
for, not that something is there to go on with; `GuideInv` adds it:

* the last hint or search job decides what a searching user is told (`SearchTold`),
  and who reviews candidates, or is told of a failure, has searched (`SearchMade`);
  a list that is not empty has a selection (`NothingFound`);
* a selected candidate has a Fine, which saw or missed the event or else is the last
  Fine of the case (`FineMade`): the notices look at the last Fine only;
* a Fine that saw the event has its clip job, a clip both readouts (`Followed`). Inside
  a delivery that is not so until the delivery is through, hence the parameter:
  the job that is just being followed;
* the last observation of a kind about a candidate that can be selected is waited for
  or taken (`Observed`), so that nothing hangs between two screens;
* what a row says is what the case was told (`RowsSaySo`).

The lemmas go operation by operation as before: `Guides(c, d)` is the relation of
states that loses none of this, and it composes (`GuidesTwice`). The rules of the
screen come last: `Shown` says what kind of view there is, `ProgressTold` that the
progress screen is one of work, `WaysOn` goes through the four other screens. TLC
checked `GuideInv` as an invariant with the constants of `CaseSearch` and
`CaseReview` before it was proved. The proof needs no exemption for the notice of an earlier
Fine, which the property once had; it has been dropped.

*DurableProofs.* Each component has an inductive invariant of its own; the others
rest or move beside it.

* `FilesAreKept`: a cleaner that holds a lease exclusively excludes the writers
  that share it (`LeasesExclude`), and a row appears only under that lease, so
  what was unregistered when it was looked up still is when it is deleted
  (`CandidatesUnregistered`, `RowsFollowPublication`).
* `BooksStayInAgreement`: a tracker that is not recovered and finalised has its
  observation in the final record (`RowsMatchRecords`); reconciliation begins when
  the job is over (`PassesAreDue`), so no later intent can contradict it.
* `ProbeIsSound`: while the host acts it is the child of a session that waits for
  it, and no recovery is past its check (`TurnsTaken`); a host knows of every
  resource it has made (`HostInOrder`); what a recovery has established stays
  until it ends (`RestoreInOrder`); the receipt is true for good, since no host
  passes its gate while a service runs (`RecordsTrue`). This is where `prior # {}`
  is needed: with an empty snapshot the gate would not notice.

*PartsProofs.* A step of `Parts` is a step of one component or leaves it alone
(`OthersRest`). `PartsReadsBounded`, `PartsRegisterSound` and
`PartsReleaseRecoverable` carry the theorems of those components over to the sum;
the others are proved here, for every value of their constants.

* `LeaseOutlivesRenewals`: the lease of the last renewal, or of the claim, reaches
  as far as the tick by which the next renewal has to begin after so many failures,
  less what it lost before the thread started (`Covered`), wherever the thread is
  (`HeartInv`). Until the thread starts the lease is that of the claim (`Claiming`);
  then its first tick is one interval away. Ticks lie on the grid of that start, so a late thread
  loses whole ticks, and `CycleCovers` and `NextTickCovered` bound how many: a
  cycle counted as interval plus call would be too short, since with interval 10,
  delay 4 and calls up to 13 a thread that wakes late skips a tick more.
* `ScreenFollowsTheCase`: any two of the views that the client has or will be
  answered with are ordered (`ViewsInOrder`), an answer that is on its way is as new as the
  screen unless a command went out since it was asked for (`PollsMatch`,
  `CallMatches`), and the screen is a view to rest at or is refreshed
  (`ScreenMatches`).
* `CopiesAreSound`: who works on the database holds the lock (`LockHeld`), what
  a script has read is what the database still holds (`ReadIsHeld`), as services are down
  while it runs (`Undisturbed`), and one call at most writes the artifact
  (`ArtifactOwned`).
* `VideosAreSound`: a part that is being made is genuine as long as its recording
  is that of the snapshot (`CallsSound`); files age, so a recording that changed and
  changed back is not mistaken for it (`FilesAged`). A transaction that found a row
  finds it again at its commit but for the owners (`TransactionsMatch`), and a
  reader has the first pieces of the form it found (`ReadingMatches`).
* `VideoFollows`: each change of the case ends in the gate, and what the gate
  makes of a case that answered is an order of today's fingerprint (`MissingIssued`);
  an order stays and so does its result (`IssueGrows`), so a READY case has its
  reflected video (`VideoReady`) and any other has an order (`VideoOrdered`).
* `EvidenceHolds`: a correction supersedes an earlier one of its field with the
  value that one brought, and since the last selection only the last of a field
  is a head (`Chained`); answer and corrections fit together, so that the view can
  always be built. `ReportIsPackable` goes through
  rules and builder for every record.

* `ReadoutsAreSound`: votes for different texts are votes of different frames
  (`VotesFacts`, the one place where sets are counted), so a text with more than half of
  them is the one most frames read; a text that is read has one best frame, by
  induction over the frames as they come (`BestOf`); and the ticks of a clock follow
  what elapsed but for less than a second (`TicksFollow`), so the pair that holds the one
  wrong sample is out of tolerance (`WrongPairFails`).

* `SpansAreSound`: files adjoin, so of any moment of the line exactly one file tells
  (`FilesAdjoin`, `MomentsPlaced`: by induction over the recursive offsets, for which
  the well-founded order of the numbers serves in place of a scheme with an operator,
  `EveryNumber`); what a resolution calls there and missing is disjoint and covers
  what was asked (`ResolutionsExact`). A set of times has a least one by the same
  order (`LeastFacts`), so pieces can be aligned (`AlignedFacts`). A line is prepared
  only when all of it is filmed (`PreparedIsFilmed`) and a frame of each file ends
  where the next file begins (`PreparedIsSeamless`), so a window around what lies
  in the scope is proper, a clip resolved while the files are there is complete, and
  its pieces join if they hold frames at all (`PiecesJoin`): within a file a piece
  ends at the file's end or is the last. `HitsFacts` counts the files that show the
  representative time. What a clip says was so when it was resolved, files that vanish
  later or not, and the files' frames outlive them (`Sourced`, `Framed`).

* `PartsTypeOK`: the inductive invariants above hold the types; the bounds of the
  instances are invariants of their own (`ExportsBounded`, `EvidenceBounded`,
  `MediaBounded`, `ReadoutBounded`), kept by the guards of the actions that count.

**Only model-checked:** liveness (fairness and ENABLED are beyond the prover).

## 5. Findings

Shown by runs:

1. `CaseFineLost`. A Fine lost on its last attempt ends STALE and Case is never
   told (`common/jobs/sweep.py:97` writes notices for HINT_EXTRACT only). The job
   stays waited for, so `preparing_selected_candidate` (`case/domain.py:528`)
   keeps reselection shut, while `docs/modules/case/case-edge-cases.md:61`
   promises "look at another candidate" as the way out. The client stays on its
   progress screen.
2. `CaseEmptyResult`. `search.visual_verify_failed` looks at the last Fine of the
   case (`case/service.py:228`, `view.py:103`), not at that of the selected
   candidate as the contract (`contract-job-record-case-view.md:322`) says, and
   `selectScreen.ts:80` asks for it before it asks for the stage. After a Fine
   has failed and the next search finds nothing, the client shows the failure
   screen of the old Fine instead of the empty result screen, and none of the
   two ways on that the empty result is meant to have (`service.py:320`).
3. `FrameRace`. Two executions that resolve the same frame for the first time
   both find nothing; the second to add its identity gets an error instead of
   the frame.

Met while modelling, and stated in the hazards or in the comments of the modules
where a property has to exempt them:

* The end of the Coarse scope is floored to milliseconds while a candidate that
  ends with the video is rounded: 17.427524 s gives 17427 and 17428, and
  `worker/coarse_frames.py:49` fails the whole run. A video whose container
  outlasts its video stream by a millisecond fails Coarse preparation every time.
  `SpansSound` is stated for the best candidate (`top`) that the check admits.
* An export lost on its last attempt stays awaited for ever (only COARSE_SEARCH
  has a deadline, only HINT_EXTRACT a notice); this hides the retry and keeps the
  web client on its progress screen. After A, B, A a superseded order of the
  plate image is not issued again.
* A client command that takes effect after the client gave up and checked the
  view is not shown until something else refreshes the view.
* UNCERTAIN visual evidence with the answer "another situation" has no command
  left, though the contract lists one.
* A time outside the years of the holiday calendar, and a report text outside 5
  to 900 characters, raise where a rule's outcome UNKNOWN or BLOCK was meant.
* A plate image of unknown size makes the FINAL report UNKNOWN though it is
  optional.
* Overlay samples are compared pairwise only: a clock that stands still passes
  if the samples are close, and a drift of a second per pair may add up. A `?`
  that the OCR itself reads is indistinguishable from the mask.
* An operation of the host controller that fails after it stopped the services
  and before the migration is complete leaves the site down with both operations
  refused; only the operator can go on. A first deployment that fails has no
  automated way out.
* The runbook (section 4) and the comment at `scripts/recording_probe_session.py:283`
  say that a recovery which crashed after its receipt is entered again and
  finishes the release of the lock. A kill between `marker.unlink()` and
  `rmdir()` leaves a lock directory without its marker, which every later
  recovery refuses (`LOCK_CHANGED_NO_UNLOCK`). `ServicesReturn` therefore asks
  only that the lock is no longer "ours".

## 6. Not modelled

* **Media tools** (ffprobe, ffmpeg, `inspection.py`): pure computation and
  external programs; their results, also the failed ones, are enumerated where
  they are used (`PreparedMedia`, `CandidateSpans`). The camera clock chains behind time observations are one value.
* **Provider prompts and parsing** (`search/intent.py`, prompts, OCR line
  picking): computation over text; its outcomes are enumerated.
* **Upload dialogue and candidate previews; the screens of evidence and
  hand-over, whose buttons depend on the report's text and assets.** Previews
  issue jobs nothing waits for; they are switched off
  (`PREVIEW_REQUESTS_ENABLED`).
* **Logging, configuration parsing, wiring, event stream, authentication**: no
  protocol state. The relations the configuration demands are assumptions.
* **The JSON form of the case state**: a conversion and its inverse over many
  fields; one case operation being one transaction is assumed instead.
* **Runner side of the deployment** (`deploy/aws.py`, `configure.py`, bundles).
* **Prototype, evaluation, contract fixtures, other scripts** than the backup tool
  and the measurement session: outside the running system. They are a large share of the repository's lines.

## 7. Plan

1. The upload dialogue, candidate previews.
2. The life cycle of a Worker process: start-up gate, signals, drain, exit codes.
