-------------------------- MODULE DeploymentProofs ---------------------------
(* The host controller, for every set of approvals that an operator may    *)
(* write, every point of failure and any number of operations.             *)
EXTENDS Deployment, TLAPS

Places == {"idle", "preflight", "quiesce", "packet", "pending", "migrate", "migrating", "migrated",
           "start", "check", "publish", "published", "keep", "promote", "promoted", "clear", "done"}

Typed == DeploymentTypeOK /\ op.at \in Places
         /\ op = [kind |-> op.kind, release |-> op.release, at |-> op.at]

Fits(release) == release.rev = database.rev \/ release.rev \in database.targets
BeforeKept == IF dirty.beforeCurrent \in {None, dirty.release} THEN dirty.beforePrevious
              ELSE dirty.beforeCurrent

\* Where the controller is tells the phase of the journal, and what it is for.
PhaseOfPlace ==
    /\ op.at # "idle" => op.release \in Approval
    /\ op.at \notin {"idle", "preflight", "done"} => dirty.release = op.release
    /\ op.at = "preflight" => dirty.phase \in {"none", "migration_complete"}
    /\ op.at \in {"quiesce", "packet"} => dirty.phase = "quiescing"
    /\ op.at \in {"pending", "migrate", "migrating", "migrated"} =>
          dirty.phase = "migration_pending" /\ op.kind = "deploy"
    /\ op.at \in {"start", "check"} => dirty.phase = "migration_complete"
    /\ op.at \in {"publish", "published"} => dirty.phase = "promotion_pending"
    /\ op.at \in {"keep", "promote", "promoted"} => dirty.phase = "web_published"
    /\ op.at = "clear" => dirty.phase = "state_promoted"
    /\ op.at = "done" => dirty.phase = "none"

\* How far the pointer and the records are.
RecordsOfPhase ==
    /\ current = None => previous = None
    /\ dirty.phase # "none" =>
          /\ dirty.release \in Approval
          /\ dirty.webBefore = dirty.beforeCurrent.rev
          /\ dirty.beforeCurrent = None => dirty.beforePrevious = None
    /\ dirty.phase = "none" => web = current.rev
    /\ dirty.phase \in {"quiescing", "migration_pending", "migration_complete", "promotion_pending"} =>
          current = dirty.beforeCurrent /\ previous = dirty.beforePrevious
    /\ dirty.phase \in {"quiescing", "migration_pending", "migration_complete"} => web = dirty.webBefore
    /\ dirty.phase = "promotion_pending" => web \in {dirty.webBefore, dirty.release.rev}
    /\ dirty.phase = "web_published" =>
          /\ web = dirty.release.rev
          /\ \/ current = dirty.beforeCurrent /\ previous = dirty.beforePrevious
             \/ previous = BeforeKept /\ current \in {dirty.beforeCurrent, dirty.release}
    /\ dirty.phase = "state_promoted" =>
          web = dirty.release.rev /\ current = dirty.release /\ previous = BeforeKept
    /\ op.at = "published" => web = dirty.release.rev
    /\ op.at = "keep" => current = dirty.beforeCurrent /\ previous = dirty.beforePrevious
    /\ op.at = "promote" => current = dirty.beforeCurrent /\ previous = BeforeKept
    /\ op.at = "promoted" => current = dirty.release /\ previous = BeforeKept

\* What the schema record says of the tables.
TablesOfSchema ==
    /\ schema.phase = "none" =>
          /\ migrating = None /\ database = current /\ previous = None
          /\ dirty.phase # "none" => dirty.beforeCurrent = current /\ dirty.beforePrevious = None
    /\ schema.phase = "migration_complete" => migrating = None /\ database = schema.release
    /\ schema.phase = "migration_pending" => running = None /\ dirty.phase = "migration_pending"
    /\ op.at = "pending" => schema.phase # "migration_pending"
    /\ op.at \in {"migrate", "migrating"} => schema = [phase |-> "migration_pending", release |-> op.release]
    /\ op.at = "migrated" => schema = [phase |-> "migration_complete", release |-> op.release]

\* What runs.
RunningOfPlace ==
    /\ running # None => schema.phase # "migration_pending" /\ Fits(running)
    /\ op.at \in {"packet", "pending", "migrate", "migrating", "migrated", "start"} => running = None
    /\ op.at = "check" => running = op.release
    /\ dirty.phase \in {"promotion_pending", "web_published", "state_promoted"} => running = dirty.release
    /\ dirty.phase = "none" => running = current

\* An operation that was taken up leaves a known good release that fits.
WayBack ==
    /\ op.at = "preflight" /\ op.kind = "deploy" =>
          dirty.phase = "none" /\ (current # None => current.rev \in op.release.targets)
    /\ op.at \in {"quiesce", "packet", "pending", "migrate", "migrating", "migrated"} /\ op.kind = "deploy" =>
          (dirty.beforeCurrent # None => dirty.beforeCurrent.rev \in op.release.targets)
    /\ op.at \in {"preflight", "quiesce", "packet"} /\ op.kind = "rollback" =>
          op.release \in {current, previous} /\ op.release.rev \in database.targets
    /\ op.at \in {"quiesce", "packet"} /\ op.kind = "rollback" => dirty.targets = database.targets
    /\ dirty.phase \in {"migration_complete", "promotion_pending", "web_published", "state_promoted"} =>
          /\ Fits(dirty.release)
          /\ dirty.beforeCurrent # None =>
                \/ dirty.beforeCurrent.rev \in database.targets
                \/ dirty.beforePrevious # None /\ dirty.beforePrevious.rev \in database.targets
          /\ schema.phase = "none" => dirty.release = current /\ dirty.targets = database.targets

\* The inductive invariant.
IInv == /\ Typed
        /\ (op.at # "idle" => lock)
        /\ PhaseOfPlace
        /\ RecordsOfPhase
        /\ TablesOfSchema
        /\ RunningOfPlace
        /\ WayBack

LEMMA NoneIsNoApproval ==
  ASSUME DeploymentAssumption
  PROVE  /\ None \notin Approval
         /\ \A a \in Approval : a.rev # 0 /\ a.rev # -1
         /\ None.rev = 0 /\ Torn.rev = -1 /\ Torn.targets = {} /\ None.targets = {}
  BY DEF DeploymentAssumption, None, Torn

LEMMA InitIInv ==
  ASSUME DeploymentAssumption, Init
  PROVE  IInv
<1> USE DEF Init
<1>1. current \in Release /\ Legacy \subseteq Approval
  BY DEF DeploymentAssumption, Release
<1>2. current.rev \in Revision \cup {0}
  BY NoneIsNoApproval DEF Revision
<1>3. Typed
  BY <1>1, <1>2 DEF Typed, DeploymentTypeOK, Places, Release, Journal, NoJournal, NoSchema
<1>4. PhaseOfPlace /\ RecordsOfPhase /\ TablesOfSchema /\ RunningOfPlace /\ WayBack
  BY DEF PhaseOfPlace, RecordsOfPhase, TablesOfSchema, RunningOfPlace, WayBack, NoJournal, NoSchema, Fits
<1> QED
  BY <1>3, <1>4 DEF IInv

LEMMA Implies ==
  ASSUME DeploymentAssumption, IInv
  PROVE  ReleaseRecoverable
<1> USE NoneIsNoApproval DEF IInv
<1>1. ServicesFitSchema
  <2>1. running # None => database # Torn
    BY ZenonT(40) DEF RunningOfPlace, TablesOfSchema, Fits, Typed, DeploymentTypeOK, Release, Torn
  <2> QED
    BY <2>1 DEF ServicesFitSchema, RunningOfPlace, Fits
<1>2. JournalTellsState
  BY DEF JournalTellsState, RecordsOfPhase, RunningOfPlace, BeforeKept, Typed, DeploymentTypeOK, Journal
<1>3. FailedCheckHasWayBack
  BY DEF FailedCheckHasWayBack, RollbackAdmitted, Reconciled, SchemaComplete, SchemaTargets,
         RecordsOfPhase, TablesOfSchema, WayBack, Typed, DeploymentTypeOK
<1> QED
  BY <1>1, <1>2, <1>3 DEF ReleaseRecoverable
-----------------------------------------------------------------------------
\* One lemma for each step, one fact for each part of the invariant.

LEMMA TakeUpIInv ==
  ASSUME DeploymentAssumption, IInv, NEW kind \in {"deploy", "rollback"}, NEW release \in Approval, TakeUp(kind, release)
  PROVE  IInv'
<1> USE NoneIsNoApproval DEF IInv, TakeUp, DeployAdmitted, RollbackAdmitted, Reconciled, SchemaComplete, SchemaTargets, Idle
<1>1. Typed'
  BY DEF Typed, DeploymentTypeOK, Places, Release, Journal, NoSchema, Revision
<1>2. (op.at # "idle" => lock)' /\ PhaseOfPlace'
  BY DEF PhaseOfPlace, Typed, DeploymentTypeOK, Journal
<1>3. RecordsOfPhase'
  BY DEF RecordsOfPhase, PhaseOfPlace, BeforeKept, WayBack, Typed, DeploymentTypeOK, Journal
<1>4. TablesOfSchema'
  BY DEF TablesOfSchema, RecordsOfPhase, PhaseOfPlace, WayBack, Typed, DeploymentTypeOK, Journal
<1>5. RunningOfPlace'
  BY DEF RunningOfPlace, TablesOfSchema, RecordsOfPhase, PhaseOfPlace, WayBack, Fits, Typed, DeploymentTypeOK, Journal
<1>6. WayBack'
  BY DEF WayBack, RunningOfPlace, TablesOfSchema, RecordsOfPhase, PhaseOfPlace, Fits, Typed, DeploymentTypeOK, Journal
<1> QED
  BY <1>1, <1>2, <1>3, <1>4, <1>5, <1>6

LEMMA PreflightIInv ==
  ASSUME DeploymentAssumption, IInv, Preflight
  PROVE  IInv'
<1> USE NoneIsNoApproval DEF IInv, Preflight, ChecksPass, Goes, SchemaTargets, records, host
<1>1. Typed'
  <2>1. current \in Release /\ current.targets \in SUBSET Nat /\ op.release.targets \in SUBSET Nat /\ schema.release.targets \in SUBSET Nat
    BY DEF Typed, DeploymentTypeOK, Release, DeploymentAssumption, PhaseOfPlace
  <2>2. SchemaTargets \in SUBSET Nat /\ web \in Revision \cup {0} /\ op.release \in Release
    BY <2>1 DEF SchemaTargets, Typed, DeploymentTypeOK, Journal
  <2> HIDE DEF SchemaTargets
  <2>3. dirty' \in Journal
    BY <2>1, <2>2 DEF Journal, Typed, DeploymentTypeOK
  <2> QED
    BY <2>3 DEF Typed, DeploymentTypeOK, Places
<1>2. (op.at # "idle" => lock)' /\ PhaseOfPlace'
  BY DEF PhaseOfPlace, Typed, DeploymentTypeOK, Journal
<1>3. RecordsOfPhase'
  BY DEF RecordsOfPhase, PhaseOfPlace, BeforeKept, WayBack, Typed, DeploymentTypeOK, Journal
<1>4. TablesOfSchema'
  BY DEF TablesOfSchema, RecordsOfPhase, PhaseOfPlace, WayBack, Typed, DeploymentTypeOK, Journal
<1>5. RunningOfPlace'
  BY DEF RunningOfPlace, TablesOfSchema, RecordsOfPhase, PhaseOfPlace, WayBack, Fits, Typed, DeploymentTypeOK, Journal
<1>6. WayBack'
  BY DEF WayBack, RunningOfPlace, TablesOfSchema, RecordsOfPhase, PhaseOfPlace, Fits, Typed, DeploymentTypeOK, Journal
<1> QED
  BY <1>1, <1>2, <1>3, <1>4, <1>5, <1>6

LEMMA QuiesceIInv ==
  ASSUME DeploymentAssumption, IInv, Quiesce
  PROVE  IInv'
<1> USE NoneIsNoApproval DEF IInv, Quiesce, Goes, records
<1>1. Typed'
  BY DEF Typed, DeploymentTypeOK, Places, Release, Journal, NoSchema, Revision
<1>2. (op.at # "idle" => lock)' /\ PhaseOfPlace'
  BY DEF PhaseOfPlace, Typed, DeploymentTypeOK, Journal
<1>3. RecordsOfPhase'
  BY DEF RecordsOfPhase, PhaseOfPlace, BeforeKept, WayBack, Typed, DeploymentTypeOK, Journal
<1>4. TablesOfSchema'
  BY DEF TablesOfSchema, RecordsOfPhase, PhaseOfPlace, WayBack, Typed, DeploymentTypeOK, Journal
<1>5. RunningOfPlace'
  BY DEF RunningOfPlace, TablesOfSchema, RecordsOfPhase, PhaseOfPlace, WayBack, Fits, Typed, DeploymentTypeOK, Journal
<1>6. WayBack'
  BY DEF WayBack, RunningOfPlace, TablesOfSchema, RecordsOfPhase, PhaseOfPlace, Fits, Typed, DeploymentTypeOK, Journal
<1> QED
  BY <1>1, <1>2, <1>3, <1>4, <1>5, <1>6

LEMMA PacketIInv ==
  ASSUME DeploymentAssumption, IInv, Packet
  PROVE  IInv'
<1> USE NoneIsNoApproval DEF IInv, Packet, Goes, Writes, records, host
<1>1. Typed'
  BY DEF Typed, DeploymentTypeOK, Places, Release, Journal, NoSchema, Revision
<1>2. (op.at # "idle" => lock)' /\ PhaseOfPlace'
  BY DEF PhaseOfPlace, Typed, DeploymentTypeOK, Journal
<1>3. RecordsOfPhase'
  BY DEF RecordsOfPhase, PhaseOfPlace, BeforeKept, WayBack, Typed, DeploymentTypeOK, Journal
<1>4. TablesOfSchema'
  BY DEF TablesOfSchema, RecordsOfPhase, PhaseOfPlace, WayBack, Typed, DeploymentTypeOK, Journal
<1>5. RunningOfPlace'
  BY DEF RunningOfPlace, TablesOfSchema, RecordsOfPhase, PhaseOfPlace, WayBack, Fits, Typed, DeploymentTypeOK, Journal
<1>6. WayBack'
  BY DEF WayBack, RunningOfPlace, TablesOfSchema, RecordsOfPhase, PhaseOfPlace, Fits, Typed, DeploymentTypeOK, Journal
<1> QED
  BY <1>1, <1>2, <1>3, <1>4, <1>5, <1>6

LEMMA SchemaPendingIInv ==
  ASSUME DeploymentAssumption, IInv, SchemaPending
  PROVE  IInv'
<1> USE NoneIsNoApproval DEF IInv, SchemaPending, Goes, records, host
<1>1. Typed'
  BY DEF Typed, DeploymentTypeOK, Places, Release, Journal, NoSchema, Revision
<1>2. (op.at # "idle" => lock)' /\ PhaseOfPlace'
  BY DEF PhaseOfPlace, Typed, DeploymentTypeOK, Journal
<1>3. RecordsOfPhase'
  BY DEF RecordsOfPhase, PhaseOfPlace, BeforeKept, WayBack, Typed, DeploymentTypeOK, Journal
<1>4. TablesOfSchema'
  <2>1. op.at = "pending" /\ op'.at = "migrate" /\ op'.release = op.release /\ running = None
    BY DEF RunningOfPlace, Typed, DeploymentTypeOK
  <2>2. dirty.phase = "migration_pending"
    BY <2>1 DEF PhaseOfPlace
  <2> QED
    BY <2>1, <2>2 DEF TablesOfSchema
<1>5. RunningOfPlace'
  BY DEF RunningOfPlace, TablesOfSchema, RecordsOfPhase, PhaseOfPlace, WayBack, Fits, Typed, DeploymentTypeOK, Journal
<1>6. WayBack'
  BY DEF WayBack, RunningOfPlace, TablesOfSchema, RecordsOfPhase, PhaseOfPlace, Fits, Typed, DeploymentTypeOK, Journal
<1> QED
  BY <1>1, <1>2, <1>3, <1>4, <1>5, <1>6

LEMMA MigrateIInv ==
  ASSUME DeploymentAssumption, IInv, Migrate
  PROVE  IInv'
<1> USE NoneIsNoApproval DEF IInv, Migrate, Goes, records
<1>1. Typed'
  BY DEF Typed, DeploymentTypeOK, Places, Release, Journal, NoSchema, Revision
<1>2. (op.at # "idle" => lock)' /\ PhaseOfPlace'
  BY DEF PhaseOfPlace, Typed, DeploymentTypeOK, Journal
<1>3. RecordsOfPhase'
  BY DEF RecordsOfPhase, PhaseOfPlace, BeforeKept, WayBack, Typed, DeploymentTypeOK, Journal
<1>4. TablesOfSchema'
  BY DEF TablesOfSchema, RecordsOfPhase, PhaseOfPlace, WayBack, Typed, DeploymentTypeOK, Journal
<1>5. RunningOfPlace'
  BY DEF RunningOfPlace, TablesOfSchema, RecordsOfPhase, PhaseOfPlace, WayBack, Fits, Typed, DeploymentTypeOK, Journal
<1>6. WayBack'
  BY DEF WayBack, RunningOfPlace, TablesOfSchema, RecordsOfPhase, PhaseOfPlace, Fits, Typed, DeploymentTypeOK, Journal
<1> QED
  BY <1>1, <1>2, <1>3, <1>4, <1>5, <1>6

LEMMA MigrationEndsIInv ==
  ASSUME DeploymentAssumption, IInv, MigrationEnds
  PROVE  IInv'
<1> USE NoneIsNoApproval DEF IInv, MigrationEnds, records
<1>1. Typed'
  BY DEF Typed, DeploymentTypeOK, Places, Release, Journal, NoSchema, Revision
<1>2. (op.at # "idle" => lock)' /\ PhaseOfPlace'
  BY DEF PhaseOfPlace, Typed, DeploymentTypeOK, Journal
<1>3. RecordsOfPhase'
  BY DEF RecordsOfPhase, PhaseOfPlace, BeforeKept, WayBack, Typed, DeploymentTypeOK, Journal
<1>4. TablesOfSchema'
  BY DEF TablesOfSchema, RecordsOfPhase, PhaseOfPlace, WayBack, Typed, DeploymentTypeOK, Journal
<1>5. RunningOfPlace'
  BY DEF RunningOfPlace, TablesOfSchema, RecordsOfPhase, PhaseOfPlace, WayBack, Fits, Typed, DeploymentTypeOK, Journal
<1>6. WayBack'
  BY DEF WayBack, RunningOfPlace, TablesOfSchema, RecordsOfPhase, PhaseOfPlace, Fits, Typed, DeploymentTypeOK, Journal
<1> QED
  BY <1>1, <1>2, <1>3, <1>4, <1>5, <1>6

LEMMA MigratedIInv ==
  ASSUME DeploymentAssumption, IInv, Migrated
  PROVE  IInv'
<1> USE NoneIsNoApproval DEF IInv, Migrated, Goes, records, host
<1>1. Typed'
  BY DEF Typed, DeploymentTypeOK, Places, Release, Journal, NoSchema, Revision
<1>2. (op.at # "idle" => lock)' /\ PhaseOfPlace'
  BY DEF PhaseOfPlace, Typed, DeploymentTypeOK, Journal
<1>3. RecordsOfPhase'
  BY DEF RecordsOfPhase, PhaseOfPlace, BeforeKept, WayBack, Typed, DeploymentTypeOK, Journal
<1>4. TablesOfSchema'
  BY DEF TablesOfSchema, RecordsOfPhase, PhaseOfPlace, WayBack, Typed, DeploymentTypeOK, Journal
<1>5. RunningOfPlace'
  BY DEF RunningOfPlace, TablesOfSchema, RecordsOfPhase, PhaseOfPlace, WayBack, Fits, Typed, DeploymentTypeOK, Journal
<1>6. WayBack'
  BY DEF WayBack, RunningOfPlace, TablesOfSchema, RecordsOfPhase, PhaseOfPlace, Fits, Typed, DeploymentTypeOK, Journal
<1> QED
  BY <1>1, <1>2, <1>3, <1>4, <1>5, <1>6

LEMMA MigrationCompleteIInv ==
  ASSUME DeploymentAssumption, IInv, MigrationComplete
  PROVE  IInv'
<1> USE NoneIsNoApproval DEF IInv, MigrationComplete, Goes, Writes, records, host
<1>1. Typed'
  BY DEF Typed, DeploymentTypeOK, Places, Release, Journal, NoSchema, Revision
<1>2. (op.at # "idle" => lock)' /\ PhaseOfPlace'
  BY DEF PhaseOfPlace, Typed, DeploymentTypeOK, Journal
<1>3. RecordsOfPhase'
  BY DEF RecordsOfPhase, PhaseOfPlace, BeforeKept, WayBack, Typed, DeploymentTypeOK, Journal
<1>4. TablesOfSchema'
  BY DEF TablesOfSchema, RecordsOfPhase, PhaseOfPlace, WayBack, Typed, DeploymentTypeOK, Journal
<1>5. RunningOfPlace'
  BY DEF RunningOfPlace, TablesOfSchema, RecordsOfPhase, PhaseOfPlace, WayBack, Fits, Typed, DeploymentTypeOK, Journal
<1>6. WayBack'
  BY DEF WayBack, RunningOfPlace, TablesOfSchema, RecordsOfPhase, PhaseOfPlace, Fits, Typed, DeploymentTypeOK, Journal
<1> QED
  BY <1>1, <1>2, <1>3, <1>4, <1>5, <1>6

LEMMA StartIInv ==
  ASSUME DeploymentAssumption, IInv, Start
  PROVE  IInv'
<1> USE NoneIsNoApproval DEF IInv, Start, Goes, records
<1>1. Typed'
  BY DEF Typed, DeploymentTypeOK, Places, Release, Journal, NoSchema, Revision
<1>2. (op.at # "idle" => lock)' /\ PhaseOfPlace'
  BY DEF PhaseOfPlace, Typed, DeploymentTypeOK, Journal
<1>3. RecordsOfPhase'
  BY DEF RecordsOfPhase, PhaseOfPlace, BeforeKept, WayBack, Typed, DeploymentTypeOK, Journal
<1>4. TablesOfSchema'
  BY DEF TablesOfSchema, RecordsOfPhase, PhaseOfPlace, WayBack, Typed, DeploymentTypeOK, Journal
<1>5. RunningOfPlace'
  BY DEF RunningOfPlace, TablesOfSchema, RecordsOfPhase, PhaseOfPlace, WayBack, Fits, Typed, DeploymentTypeOK, Journal
<1>6. WayBack'
  BY DEF WayBack, RunningOfPlace, TablesOfSchema, RecordsOfPhase, PhaseOfPlace, Fits, Typed, DeploymentTypeOK, Journal
<1> QED
  BY <1>1, <1>2, <1>3, <1>4, <1>5, <1>6

LEMMA IntentIInv ==
  ASSUME DeploymentAssumption, IInv, Intent
  PROVE  IInv'
<1> USE NoneIsNoApproval DEF IInv, Intent, Goes, Writes, records, host
<1>1. Typed'
  BY DEF Typed, DeploymentTypeOK, Places, Release, Journal, NoSchema, Revision
<1>2. (op.at # "idle" => lock)' /\ PhaseOfPlace'
  BY DEF PhaseOfPlace, Typed, DeploymentTypeOK, Journal
<1>3. RecordsOfPhase'
  BY DEF RecordsOfPhase, PhaseOfPlace, BeforeKept, WayBack, Typed, DeploymentTypeOK, Journal
<1>4. TablesOfSchema'
  BY DEF TablesOfSchema, RecordsOfPhase, PhaseOfPlace, WayBack, Typed, DeploymentTypeOK, Journal
<1>5. RunningOfPlace'
  BY DEF RunningOfPlace, TablesOfSchema, RecordsOfPhase, PhaseOfPlace, WayBack, Fits, Typed, DeploymentTypeOK, Journal
<1>6. WayBack'
  BY DEF WayBack, RunningOfPlace, TablesOfSchema, RecordsOfPhase, PhaseOfPlace, Fits, Typed, DeploymentTypeOK, Journal
<1> QED
  BY <1>1, <1>2, <1>3, <1>4, <1>5, <1>6

LEMMA PublishWebIInv ==
  ASSUME DeploymentAssumption, IInv, PublishWeb
  PROVE  IInv'
<1> USE NoneIsNoApproval DEF IInv, PublishWeb, Goes, host
<1>1. Typed'
  BY DEF Typed, DeploymentTypeOK, Places, Release, Journal, NoSchema, Revision
<1>2. (op.at # "idle" => lock)' /\ PhaseOfPlace'
  BY DEF PhaseOfPlace, Typed, DeploymentTypeOK, Journal
<1>3. RecordsOfPhase'
  BY DEF RecordsOfPhase, PhaseOfPlace, BeforeKept, WayBack, Typed, DeploymentTypeOK, Journal
<1>4. TablesOfSchema'
  BY DEF TablesOfSchema, RecordsOfPhase, PhaseOfPlace, WayBack, Typed, DeploymentTypeOK, Journal
<1>5. RunningOfPlace'
  BY DEF RunningOfPlace, TablesOfSchema, RecordsOfPhase, PhaseOfPlace, WayBack, Fits, Typed, DeploymentTypeOK, Journal
<1>6. WayBack'
  BY DEF WayBack, RunningOfPlace, TablesOfSchema, RecordsOfPhase, PhaseOfPlace, Fits, Typed, DeploymentTypeOK, Journal
<1> QED
  BY <1>1, <1>2, <1>3, <1>4, <1>5, <1>6

LEMMA PublishedIInv ==
  ASSUME DeploymentAssumption, IInv, Published
  PROVE  IInv'
<1> USE NoneIsNoApproval DEF IInv, Published, Goes, Writes, records, host
<1>1. Typed'
  BY DEF Typed, DeploymentTypeOK, Places, Release, Journal, NoSchema, Revision
<1>2. (op.at # "idle" => lock)' /\ PhaseOfPlace'
  BY DEF PhaseOfPlace, Typed, DeploymentTypeOK, Journal
<1>3. RecordsOfPhase'
  BY DEF RecordsOfPhase, PhaseOfPlace, BeforeKept, WayBack, Typed, DeploymentTypeOK, Journal
<1>4. TablesOfSchema'
  BY DEF TablesOfSchema, RecordsOfPhase, PhaseOfPlace, WayBack, Typed, DeploymentTypeOK, Journal
<1>5. RunningOfPlace'
  BY DEF RunningOfPlace, TablesOfSchema, RecordsOfPhase, PhaseOfPlace, WayBack, Fits, Typed, DeploymentTypeOK, Journal
<1>6. WayBack'
  BY DEF WayBack, RunningOfPlace, TablesOfSchema, RecordsOfPhase, PhaseOfPlace, Fits, Typed, DeploymentTypeOK, Journal
<1> QED
  BY <1>1, <1>2, <1>3, <1>4, <1>5, <1>6

LEMMA KeepPreviousIInv ==
  ASSUME DeploymentAssumption, IInv, KeepPrevious
  PROVE  IInv'
<1> USE NoneIsNoApproval DEF IInv, KeepPrevious, Goes, host
<1>1. Typed'
  BY DEF Typed, DeploymentTypeOK, Places, Release, Journal, NoSchema, Revision
<1>2. (op.at # "idle" => lock)' /\ PhaseOfPlace'
  BY DEF PhaseOfPlace, Typed, DeploymentTypeOK, Journal
<1>3. RecordsOfPhase'
  BY DEF RecordsOfPhase, PhaseOfPlace, BeforeKept, WayBack, Typed, DeploymentTypeOK, Journal
<1>4. TablesOfSchema'
  BY DEF TablesOfSchema, RecordsOfPhase, PhaseOfPlace, WayBack, Typed, DeploymentTypeOK, Journal
<1>5. RunningOfPlace'
  BY DEF RunningOfPlace, TablesOfSchema, RecordsOfPhase, PhaseOfPlace, WayBack, Fits, Typed, DeploymentTypeOK, Journal
<1>6. WayBack'
  BY DEF WayBack, RunningOfPlace, TablesOfSchema, RecordsOfPhase, PhaseOfPlace, Fits, Typed, DeploymentTypeOK, Journal
<1> QED
  BY <1>1, <1>2, <1>3, <1>4, <1>5, <1>6

LEMMA PromoteIInv ==
  ASSUME DeploymentAssumption, IInv, Promote
  PROVE  IInv'
<1> USE NoneIsNoApproval DEF IInv, Promote, Goes, host
<1>1. Typed'
  BY DEF Typed, DeploymentTypeOK, Places, Release, Journal, NoSchema, Revision
<1>2. (op.at # "idle" => lock)' /\ PhaseOfPlace'
  BY DEF PhaseOfPlace, Typed, DeploymentTypeOK, Journal
<1>3. RecordsOfPhase'
  BY DEF RecordsOfPhase, PhaseOfPlace, BeforeKept, WayBack, Typed, DeploymentTypeOK, Journal
<1>4. TablesOfSchema'
  BY DEF TablesOfSchema, RecordsOfPhase, PhaseOfPlace, WayBack, Typed, DeploymentTypeOK, Journal
<1>5. RunningOfPlace'
  BY DEF RunningOfPlace, TablesOfSchema, RecordsOfPhase, PhaseOfPlace, WayBack, Fits, Typed, DeploymentTypeOK, Journal
<1>6. WayBack'
  BY DEF WayBack, RunningOfPlace, TablesOfSchema, RecordsOfPhase, PhaseOfPlace, Fits, Typed, DeploymentTypeOK, Journal
<1> QED
  BY <1>1, <1>2, <1>3, <1>4, <1>5, <1>6

LEMMA PromotedIInv ==
  ASSUME DeploymentAssumption, IInv, Promoted
  PROVE  IInv'
<1> USE NoneIsNoApproval DEF IInv, Promoted, Goes, Writes, records, host
<1>1. Typed'
  BY DEF Typed, DeploymentTypeOK, Places, Release, Journal, NoSchema, Revision
<1>2. (op.at # "idle" => lock)' /\ PhaseOfPlace'
  BY DEF PhaseOfPlace, Typed, DeploymentTypeOK, Journal
<1>3. RecordsOfPhase'
  BY DEF RecordsOfPhase, PhaseOfPlace, BeforeKept, WayBack, Typed, DeploymentTypeOK, Journal
<1>4. TablesOfSchema'
  BY DEF TablesOfSchema, RecordsOfPhase, PhaseOfPlace, WayBack, Typed, DeploymentTypeOK, Journal
<1>5. RunningOfPlace'
  BY DEF RunningOfPlace, TablesOfSchema, RecordsOfPhase, PhaseOfPlace, WayBack, Fits, Typed, DeploymentTypeOK, Journal
<1>6. WayBack'
  BY DEF WayBack, RunningOfPlace, TablesOfSchema, RecordsOfPhase, PhaseOfPlace, Fits, Typed, DeploymentTypeOK, Journal
<1> QED
  BY <1>1, <1>2, <1>3, <1>4, <1>5, <1>6

LEMMA ClearIInv ==
  ASSUME DeploymentAssumption, IInv, Clear
  PROVE  IInv'
<1> USE NoneIsNoApproval DEF IInv, Clear, Goes, records, host, NoJournal
<1>1. Typed'
  BY DEF Typed, DeploymentTypeOK, Places, Release, Journal, NoSchema, Revision
<1>2. (op.at # "idle" => lock)' /\ PhaseOfPlace'
  BY DEF PhaseOfPlace, Typed, DeploymentTypeOK, Journal
<1>3. RecordsOfPhase'
  BY DEF RecordsOfPhase, PhaseOfPlace, BeforeKept, WayBack, Typed, DeploymentTypeOK, Journal
<1>4. TablesOfSchema'
  BY DEF TablesOfSchema, RecordsOfPhase, PhaseOfPlace, WayBack, Typed, DeploymentTypeOK, Journal
<1>5. RunningOfPlace'
  BY DEF RunningOfPlace, TablesOfSchema, RecordsOfPhase, PhaseOfPlace, WayBack, Fits, Typed, DeploymentTypeOK, Journal
<1>6. WayBack'
  BY DEF WayBack, RunningOfPlace, TablesOfSchema, RecordsOfPhase, PhaseOfPlace, Fits, Typed, DeploymentTypeOK, Journal
<1> QED
  BY <1>1, <1>2, <1>3, <1>4, <1>5, <1>6

LEMMA LeaveIInv ==
  ASSUME DeploymentAssumption, IInv, Leave
  PROVE  IInv'
<1> USE NoneIsNoApproval DEF IInv, Leave, Idle, records, host
<1>1. Typed'
  BY DEF Typed, DeploymentTypeOK, Places
<1>2. (op.at # "idle" => lock)' /\ PhaseOfPlace'
  BY DEF PhaseOfPlace, Typed, DeploymentTypeOK, Journal
<1>3. RecordsOfPhase'
  BY DEF RecordsOfPhase, PhaseOfPlace, BeforeKept, WayBack, Typed, DeploymentTypeOK, Journal
<1>4. TablesOfSchema'
  BY DEF TablesOfSchema, RecordsOfPhase, PhaseOfPlace, WayBack, Typed, DeploymentTypeOK, Journal
<1>5. RunningOfPlace'
  BY DEF RunningOfPlace, TablesOfSchema, RecordsOfPhase, PhaseOfPlace, WayBack, Fits, Typed, DeploymentTypeOK, Journal
<1>6. WayBack'
  BY DEF WayBack, RunningOfPlace, TablesOfSchema, RecordsOfPhase, PhaseOfPlace, Fits, Typed, DeploymentTypeOK, Journal
<1> QED
  BY <1>1, <1>2, <1>3, <1>4, <1>5, <1>6

LEMMA KillIInv ==
  ASSUME DeploymentAssumption, IInv, Kill
  PROVE  IInv'
<1> USE NoneIsNoApproval DEF IInv, Kill, Idle, records, host
<1>1. Typed'
  BY DEF Typed, DeploymentTypeOK, Places
<1>2. (op.at # "idle" => lock)' /\ PhaseOfPlace'
  BY DEF PhaseOfPlace, Typed, DeploymentTypeOK, Journal
<1>3. RecordsOfPhase'
  BY DEF RecordsOfPhase, PhaseOfPlace, BeforeKept, WayBack, Typed, DeploymentTypeOK, Journal
<1>4. TablesOfSchema'
  BY DEF TablesOfSchema, RecordsOfPhase, PhaseOfPlace, WayBack, Typed, DeploymentTypeOK, Journal
<1>5. RunningOfPlace'
  BY DEF RunningOfPlace, TablesOfSchema, RecordsOfPhase, PhaseOfPlace, WayBack, Fits, Typed, DeploymentTypeOK, Journal
<1>6. WayBack'
  BY DEF WayBack, RunningOfPlace, TablesOfSchema, RecordsOfPhase, PhaseOfPlace, Fits, Typed, DeploymentTypeOK, Journal
<1> QED
  BY <1>1, <1>2, <1>3, <1>4, <1>5, <1>6

LEMMA UnlockIInv ==
  ASSUME DeploymentAssumption, IInv, Unlock
  PROVE  IInv'
<1> USE NoneIsNoApproval DEF IInv, Unlock, Idle, records, host
<1>1. Typed'
  BY DEF Typed, DeploymentTypeOK, Places
<1>2. (op.at # "idle" => lock)' /\ PhaseOfPlace'
  BY DEF PhaseOfPlace, Typed, DeploymentTypeOK, Journal
<1>3. RecordsOfPhase'
  BY DEF RecordsOfPhase, PhaseOfPlace, BeforeKept, WayBack, Typed, DeploymentTypeOK, Journal
<1>4. TablesOfSchema'
  BY DEF TablesOfSchema, RecordsOfPhase, PhaseOfPlace, WayBack, Typed, DeploymentTypeOK, Journal
<1>5. RunningOfPlace'
  BY DEF RunningOfPlace, TablesOfSchema, RecordsOfPhase, PhaseOfPlace, WayBack, Fits, Typed, DeploymentTypeOK, Journal
<1>6. WayBack'
  BY DEF WayBack, RunningOfPlace, TablesOfSchema, RecordsOfPhase, PhaseOfPlace, Fits, Typed, DeploymentTypeOK, Journal
<1> QED
  BY <1>1, <1>2, <1>3, <1>4, <1>5, <1>6

LEMMA CompletePromotionIInv ==
  ASSUME DeploymentAssumption, IInv, CompletePromotion
  PROVE  IInv'
<1> USE NoneIsNoApproval DEF IInv, CompletePromotion, Interrupted, Idle, host, NoJournal
<1>1. Typed'
  BY DEF Typed, DeploymentTypeOK, Places, Release, Journal, NoSchema, Revision
<1>2. (op.at # "idle" => lock)' /\ PhaseOfPlace'
  BY DEF PhaseOfPlace, Typed, DeploymentTypeOK, Journal
<1>3. RecordsOfPhase'
  BY DEF RecordsOfPhase, PhaseOfPlace, BeforeKept, WayBack, Typed, DeploymentTypeOK, Journal
<1>4. TablesOfSchema'
  BY DEF TablesOfSchema, RecordsOfPhase, PhaseOfPlace, WayBack, Typed, DeploymentTypeOK, Journal
<1>5. RunningOfPlace'
  BY DEF RunningOfPlace, TablesOfSchema, RecordsOfPhase, PhaseOfPlace, WayBack, Fits, Typed, DeploymentTypeOK, Journal
<1>6. WayBack'
  BY DEF WayBack, RunningOfPlace, TablesOfSchema, RecordsOfPhase, PhaseOfPlace, Fits, Typed, DeploymentTypeOK, Journal
<1> QED
  BY <1>1, <1>2, <1>3, <1>4, <1>5, <1>6

LEMMA RestoreSnapshotIInv ==
  ASSUME DeploymentAssumption, IInv, RestoreSnapshot
  PROVE  IInv'
<1> USE NoneIsNoApproval DEF IInv, RestoreSnapshot, Interrupted, Idle, Writes, host
<1>1. Typed'
  BY DEF Typed, DeploymentTypeOK, Places, Release, Journal, NoSchema, Revision
<1>2. (op.at # "idle" => lock)' /\ PhaseOfPlace'
  BY DEF PhaseOfPlace, Typed, DeploymentTypeOK, Journal
<1>3. RecordsOfPhase'
  BY DEF RecordsOfPhase, PhaseOfPlace, BeforeKept, WayBack, Typed, DeploymentTypeOK, Journal
<1>4. TablesOfSchema'
  BY DEF TablesOfSchema, RecordsOfPhase, PhaseOfPlace, WayBack, Typed, DeploymentTypeOK, Journal
<1>5. RunningOfPlace'
  BY DEF RunningOfPlace, TablesOfSchema, RecordsOfPhase, PhaseOfPlace, WayBack, Fits, Typed, DeploymentTypeOK, Journal
<1>6. WayBack'
  BY DEF WayBack, RunningOfPlace, TablesOfSchema, RecordsOfPhase, PhaseOfPlace, Fits, Typed, DeploymentTypeOK, Journal
<1> QED
  BY <1>1, <1>2, <1>3, <1>4, <1>5, <1>6

LEMMA NextIInv ==
  ASSUME DeploymentAssumption, IInv, [Next]_vars
  PROVE  IInv'
<1>1. CASE UNCHANGED vars
  <2> USE <1>1 DEF vars
  <2>1. Typed' /\ PhaseOfPlace' /\ (op.at # "idle" => lock)'
    BY DEF IInv, Typed, DeploymentTypeOK, PhaseOfPlace
  <2>2. RecordsOfPhase' /\ TablesOfSchema' /\ RunningOfPlace' /\ WayBack'
    BY DEF IInv, RecordsOfPhase, BeforeKept, TablesOfSchema, RunningOfPlace, WayBack, Fits
  <2> QED
    BY <2>1, <2>2 DEF IInv
<1>2. CASE \E release \in Approval : TakeUp("deploy", release) \/ TakeUp("rollback", release)
  BY <1>2, TakeUpIInv
<1>3. CASE Preflight \/ Quiesce \/ Packet \/ SchemaPending \/ Migrate \/ MigrationEnds \/ Migrated
           \/ MigrationComplete \/ Start
  BY <1>3, PreflightIInv, QuiesceIInv, PacketIInv, SchemaPendingIInv, MigrateIInv, MigrationEndsIInv,
     MigratedIInv, MigrationCompleteIInv, StartIInv
<1>4. CASE Intent \/ PublishWeb \/ Published \/ KeepPrevious \/ Promote \/ Promoted \/ Clear
  BY <1>4, IntentIInv, PublishWebIInv, PublishedIInv, KeepPreviousIInv, PromoteIInv, PromotedIInv, ClearIInv
<1>5. CASE Leave \/ Kill \/ Unlock \/ CompletePromotion \/ RestoreSnapshot
  BY <1>5, LeaveIInv, KillIInv, UnlockIInv, CompletePromotionIInv, RestoreSnapshotIInv
<1> QED
  BY <1>1, <1>2, <1>3, <1>4, <1>5 DEF Next

\* transition() of deploy/ec2.py: wherever an operation stops, what runs was
\* approved for the tables, the journal tells the operator how far the records
\* are, and a release that does not come up leaves a rollback that is admitted.
THEOREM ReleasesAreRecoverable ==
  ASSUME DeploymentAssumption
  PROVE  Spec => []ReleaseRecoverable
<1>1. Init => IInv
  BY InitIInv
<1>2. IInv /\ [Next]_vars => IInv'
  BY NextIInv
<1>3. IInv => ReleaseRecoverable
  BY Implies
<1> QED
  BY <1>1, <1>2, <1>3, PTL DEF Spec
=============================================================================
