----------------------------- MODULE Deployment ------------------------------
(***************************************************************************)
(* The host controller of deploy/ec2.py: deploy and rollback take the      *)
(* services through stop, migration, start and checks, and move the web    *)
(* pointer and the records of the known good releases with them.  The      *)
(* files are written one by one, the controller may fail or be killed      *)
(* between any two, and a migration outlives the command that started it.  *)
(* What is unclear is left to the operator, who removes an abandoned lock  *)
(* and brings an interrupted promotion to one end or the other.            *)
(*                                                                         *)
(* A release is the approval it was deployed by: its revision, the         *)
(* revisions that still run on its schema, the schema it expects and       *)
(* whether it may be the first.  Images, configurations, bundles, volumes  *)
(* and the other checks of preflight are one outcome, pass or fail.        *)
(***************************************************************************)
EXTENDS Integers

CONSTANTS
    Approval,   \* the releases that get approved
    Legacy      \* those a host may already run without a schema record

VARIABLES
    current,    \* current.json: the release known to be good
    previous,   \* previous.json: the one before it
    dirty,      \* dirty.json: the journal of the operation under way
    schema,     \* schema.json: the release that migrated the database last
    web,        \* releases/current: the revision the web client is served from
    lock,       \* operation.lock
    op,         \* the controller: its operation, and where it is
    running,    \* the release of the containers that run
    database,   \* the release the tables are of
    migrating   \* the release of the migrate container, if it runs

vars == <<current, previous, dirty, schema, web, lock, op, running, database, migrating>>

None == [rev |-> 0, targets |-> {}, parent |-> 0, initial |-> FALSE]
Torn == [None EXCEPT !.rev = -1]    \* tables in the middle of a migration

Revision == {a.rev : a \in Approval \cup Legacy}

\* An approval lists revisions that are safe on its own schema.
DeploymentAssumption ==
    /\ \A a \in Approval \cup Legacy :
          /\ a.rev \in Nat \ {0} /\ a.parent \in Nat /\ a.initial \in BOOLEAN
          /\ a.targets \subseteq 1..a.rev
    /\ Legacy \subseteq Approval

Release == Approval \cup {None}
Journal == [phase : {"none", "quiescing", "migration_pending", "migration_complete",
                     "promotion_pending", "web_published", "state_promoted"},
            release : Release, targets : SUBSET Nat,
            beforeCurrent : Release, beforePrevious : Release, webBefore : Revision \cup {0}]
NoJournal == [phase |-> "none", release |-> None, targets |-> {},
              beforeCurrent |-> None, beforePrevious |-> None, webBefore |-> 0]
NoSchema == [phase |-> "none", release |-> None]

DeploymentTypeOK ==
    /\ current \in Release /\ previous \in Release /\ running \in Release /\ migrating \in Release
    /\ dirty \in Journal
    /\ schema \in [phase : {"none", "migration_pending", "migration_complete"}, release : Release]
    /\ web \in Revision \cup {0} /\ lock \in BOOLEAN
    /\ op.kind \in {"deploy", "rollback"} /\ op.release \in Release
    /\ database \in Release \cup {Torn}

Idle == op.at = "idle"

\* A host that was never deployed to, or one with a release from before schema.json.
Init ==
    /\ current \in Legacy \cup {None}
    /\ running = current /\ database = current /\ web = current.rev
    /\ previous = None /\ dirty = NoJournal /\ schema = NoSchema
    /\ lock = FALSE /\ migrating = None
    /\ op = [kind |-> "deploy", release |-> None, at |-> "idle"]

(***************************************************************************)
(* Taking up an operation.                                                 *)
(***************************************************************************)

\* reconcile: the records agree with the pointer and with the journal.
Reconciled ==
    /\ current # None \/ previous = None
    /\ web = current.rev
    /\ dirty.phase # "none" =>
          /\ dirty.phase \in {"quiescing", "migration_pending", "migration_complete"}
          /\ dirty.beforeCurrent = current /\ dirty.beforePrevious = previous /\ dirty.webBefore = web

\* The list of the release that is there, not of the one the tables are of.
MutSchemaTargets == current.targets

\* What runs on the tables: by schema.json, else by the journal, else by the
\* release that is there.
SchemaTargets ==
    IF schema.phase # "none" THEN schema.release.targets
    ELSE IF dirty.phase # "none" THEN dirty.targets ELSE current.targets

SchemaComplete ==
    CASE schema.phase # "none" -> schema.phase = "migration_complete"
      [] schema.phase = "none" /\ dirty.phase # "none" -> dirty.phase = "migration_complete"
      [] OTHER -> TRUE

DeployAdmitted(release) ==
    /\ Reconciled
    /\ dirty.phase = "none"
    /\ SchemaComplete
    /\ IF current # None THEN current.rev \in release.targets ELSE release.initial
    /\ schema.phase # "none" => release.parent = schema.release.rev

RollbackAdmitted(release) ==
    /\ Reconciled
    /\ dirty.phase \in {"none", "migration_complete"}
    /\ release # None /\ release \in {current, previous}
    /\ SchemaComplete
    /\ release.rev \in SchemaTargets

\* An operation that is not admitted gives the lock back and changes nothing.
TakeUp(kind, release) ==
    /\ Idle /\ ~lock
    /\ IF kind = "deploy" THEN DeployAdmitted(release) ELSE RollbackAdmitted(release)
    /\ lock' = TRUE
    /\ op' = [kind |-> kind, release |-> release, at |-> "preflight"]
    /\ UNCHANGED <<current, previous, dirty, schema, web, running, database, migrating>>

(***************************************************************************)
(* The steps of transition().                                              *)
(***************************************************************************)
Goes(from, to) == op.at = from /\ op' = [op EXCEPT !.at = to]
Writes(phase) == dirty' = [dirty EXCEPT !.phase = phase]

records == <<current, previous, web>>
host == <<running, database, migrating>>

\* What preflight finds that the state tells: a first release gets empty volumes.
ChecksPass == current = None => database = None

\* The journal is there before anything is stopped.
Preflight ==
    /\ Goes("preflight", "quiesce")
    /\ ChecksPass
    /\ dirty' = [phase |-> "quiescing", release |-> op.release,
                 targets |-> IF op.kind = "rollback" THEN SchemaTargets ELSE op.release.targets,
                 beforeCurrent |-> current, beforePrevious |-> previous, webBefore |-> web]
    /\ UNCHANGED <<records, host, schema, lock>>

Quiesce ==
    /\ Goes("quiesce", "packet")
    /\ running' = None
    /\ UNCHANGED <<records, dirty, schema, database, migrating, lock>>

\* The database comes up and takes the packets; a rollback does not migrate.
Packet ==
    /\ op.at = "packet"
    /\ IF op.kind = "deploy" THEN Goes("packet", "pending") /\ Writes("migration_pending")
       ELSE Goes("packet", "start") /\ Writes("migration_complete")
    /\ UNCHANGED <<records, host, schema, lock>>

SchemaPending ==
    /\ Goes("pending", "migrate")
    /\ schema' = [phase |-> "migration_pending", release |-> op.release]
    /\ UNCHANGED <<records, host, dirty, lock>>

Migrate ==
    /\ Goes("migrate", "migrating")
    /\ migrating' = op.release /\ database' = Torn
    /\ UNCHANGED <<records, dirty, schema, running, lock>>

\* The container ends, whether the controller still waits for it or not.
MigrationEnds ==
    /\ migrating # None
    /\ database' \in {migrating, Torn}
    /\ migrating' = None
    /\ UNCHANGED <<records, dirty, schema, running, lock, op>>

Migrated ==
    /\ migrating = None /\ database = op.release
    /\ Goes("migrating", "migrated")
    /\ schema' = [schema EXCEPT !.phase = "migration_complete"]
    /\ UNCHANGED <<records, host, dirty, lock>>

MigrationComplete ==
    /\ Goes("migrated", "start")
    /\ Writes("migration_complete")
    /\ UNCHANGED <<records, host, schema, lock>>

Start ==
    /\ Goes("start", "check")
    /\ running' = op.release
    /\ UNCHANGED <<records, dirty, schema, database, migrating, lock>>

\* Health and smoke passed: the intent is durable before the web moves.
Intent ==
    /\ Goes("check", "publish")
    /\ Writes("promotion_pending")
    /\ UNCHANGED <<records, host, schema, lock>>

PublishWeb ==
    /\ Goes("publish", "published")
    /\ web' = op.release.rev
    /\ UNCHANGED <<current, previous, host, dirty, schema, lock>>

Published ==
    /\ Goes("published", "keep")
    /\ Writes("web_published")
    /\ UNCHANGED <<records, host, schema, lock>>

KeepPrevious ==
    /\ Goes("keep", "promote")
    /\ previous' = IF current # None /\ current # op.release THEN current ELSE previous
    /\ UNCHANGED <<current, web, host, dirty, schema, lock>>

Promote ==
    /\ Goes("promote", "promoted")
    /\ current' = op.release
    /\ UNCHANGED <<previous, web, host, dirty, schema, lock>>

Promoted ==
    /\ Goes("promoted", "clear")
    /\ Writes("state_promoted")
    /\ UNCHANGED <<records, host, schema, lock>>

Clear ==
    /\ Goes("clear", "done")
    /\ dirty' = NoJournal
    /\ UNCHANGED <<records, host, schema, lock>>

\* Done, or a stage or a write failed: the lock is given back, the rest stays.
Leave ==
    /\ ~Idle
    /\ op' = [op EXCEPT !.at = "idle"] /\ lock' = FALSE
    /\ UNCHANGED <<records, host, dirty, schema>>

\* Killed by the time limit of the remote command, or with the host's shell.
Kill ==
    /\ ~Idle
    /\ op' = [op EXCEPT !.at = "idle"]
    /\ UNCHANGED <<records, host, dirty, schema, lock>>

(***************************************************************************)
(* The operator.                                                           *)
(***************************************************************************)
Unlock ==
    /\ Idle /\ lock /\ migrating = None
    /\ lock' = FALSE
    /\ UNCHANGED <<records, host, dirty, schema, op>>

Interrupted ==
    /\ Idle /\ ~lock /\ migrating = None
    /\ dirty.phase \in {"promotion_pending", "web_published", "state_promoted"}
    /\ schema.phase # "migration_pending"

\* Forward, after all checks passed again.
CompletePromotion ==
    /\ Interrupted /\ running = dirty.release
    /\ web' = dirty.release.rev /\ current' = dirty.release
    /\ previous' = IF dirty.beforeCurrent \in {None, dirty.release} THEN dirty.beforePrevious
                   ELSE dirty.beforeCurrent
    /\ dirty' = NoJournal
    /\ UNCHANGED <<host, schema, lock, op>>

\* Back to the snapshot, from where an ordinary rollback goes on.
RestoreSnapshot ==
    /\ Interrupted
    /\ web' = dirty.webBefore /\ current' = dirty.beforeCurrent /\ previous' = dirty.beforePrevious
    /\ Writes("migration_complete")
    /\ UNCHANGED <<host, schema, lock, op>>

Next ==
    \/ \E release \in Approval : TakeUp("deploy", release) \/ TakeUp("rollback", release)
    \/ Preflight \/ Quiesce \/ Packet
    \/ SchemaPending \/ Migrate \/ MigrationEnds \/ Migrated \/ MigrationComplete
    \/ Start \/ Intent \/ PublishWeb \/ Published \/ KeepPrevious \/ Promote \/ Promoted \/ Clear
    \/ Leave \/ Kill \/ Unlock \/ CompletePromotion \/ RestoreSnapshot

Spec == Init /\ [][Next]_vars

(***************************************************************************)
(* Properties.                                                             *)
(***************************************************************************)

\* What runs was approved for the tables as they are: never beside a migration,
\* never after a torn one, and never by the list of an older release.
ServicesFitSchema ==
    running # None => database # Torn /\ (running.rev = database.rev \/ running.rev \in database.targets)

\* However an operation ended, its journal says how far the pointer and the
\* records have come, so that the operator can go on from it.
JournalTellsState ==
    LET before == /\ current = dirty.beforeCurrent /\ previous = dirty.beforePrevious
        kept == IF dirty.beforeCurrent \in {None, dirty.release} THEN dirty.beforePrevious
                ELSE dirty.beforeCurrent
    IN CASE dirty.phase = "none" -> web = current.rev /\ (~lock => running = current)
         [] dirty.phase \in {"quiescing", "migration_pending", "migration_complete"} ->
               before /\ web = dirty.webBefore /\ web = current.rev
         [] dirty.phase = "promotion_pending" -> before /\ web \in {dirty.webBefore, dirty.release.rev}
         [] dirty.phase = "web_published" ->
               /\ web = dirty.release.rev
               /\ before \/ previous = kept
               /\ current \in {dirty.beforeCurrent, dirty.release}
         [] dirty.phase = "state_promoted" ->
               web = dirty.release.rev /\ current = dirty.release /\ previous = kept

\* A release that does not come up is not the end: while a known good release
\* is on record, a rollback is admitted.
FailedCheckHasWayBack ==
    Idle /\ dirty.phase = "migration_complete" /\ current # None =>
        RollbackAdmitted(current) \/ RollbackAdmitted(previous)

ReleaseRecoverable == ServicesFitSchema /\ JournalTellsState /\ FailedCheckHasWayBack
=============================================================================
