------------------------------- MODULE Backup -------------------------------
(***************************************************************************)
(* Logical backup and restore of the database (scripts/backup_compose.py)  *)
(* and the migrations that run between (common/db/migrate.py).             *)
(*                                                                         *)
(* A call of the tool runs on the host; what touches the database is a     *)
(* script within the database's container, which goes on when the call is  *)
(* killed or loses its connection.  A lock directory admits one script at  *)
(* a time.  The operator stops the services before a call, and discards a  *)
(* database into which a restore has failed.                               *)
(***************************************************************************)
EXTENDS Naturals

CONSTANTS Call,         \* calls of the tool
          Release,      \* releases 1, 2, ...: the heads of their migrations
          MaxData,      \* bound: states of the data
          MaxRuns       \* bound: how often the tool is called

VARIABLES
    db,         \* the database: how much of it is there, its data and its heads
    services,   \* what runs beside: "none", "writers" or "migrate"
    target,     \* the release that migrates
    doubtful,   \* a restore did not end well and none has since
    lock,       \* the lock directory in the container
    cli,        \* each call on the host
    script,     \* the script each call has started in the container
    artifact,   \* the file in the backup directory
    runs        \* how often the tool was called

vars == <<db, services, target, doubtful, lock, cli, script, artifact, runs>>

\* What an instance must provide.
BackupAssumption ==
    "none" \notin Call /\ Release \subseteq Nat \ {0} /\ MaxData \in Nat /\ MaxRuns \in Nat

\* Migrations are of three modules, in this order: case, runtime, recording.
Heads(release) == [i \in 1 .. 3 |-> release]
Empty == [objects |-> "none", data |-> 0, heads |-> Heads(0)]
NoCall == [step |-> "idle", op |-> "none", release |-> 0, output |-> Empty]
NoScript == [step |-> "none", op |-> "none", input |-> Empty, heads |-> Heads(0)]
NoFile == [complete |-> FALSE, by |-> "none", content |-> Empty]

Init ==
    /\ db \in {[objects |-> "all", data |-> 0, heads |-> Heads(r)] : r \in Release} \cup {Empty}
    /\ services \in {"none", "writers"}
    /\ services = "writers" => db # Empty
    /\ target = 0
    /\ doubtful = FALSE /\ lock = FALSE /\ runs = 0
    /\ cli = [c \in Call |-> NoCall]
    /\ script = [c \in Call |-> NoScript]
    /\ artifact = NoFile

Quiet == \A c \in Call : cli[c].step = "idle"

(***************************************************************************)
(* The operator, the services and the migrations.                          *)
(***************************************************************************)
StartServices ==
    /\ Quiet /\ services = "none" /\ ~doubtful /\ db.objects = "all"
    /\ services' = "writers"
    /\ UNCHANGED <<db, target, doubtful, lock, cli, script, artifact, runs>>

StopServices ==
    /\ Quiet /\ services # "none"
    /\ services' = "none"
    /\ UNCHANGED <<db, target, doubtful, lock, cli, script, artifact, runs>>

Write ==
    /\ services = "writers" /\ db.data < MaxData
    /\ db' = [db EXCEPT !.data = @ + 1]
    /\ UNCHANGED <<services, target, doubtful, lock, cli, script, artifact, runs>>

\* upgrade_all: every module's revision is known to the release before any of
\* them changes.
Migrate(release) ==
    /\ Quiet /\ services = "none" /\ ~doubtful /\ db.objects = "all"
    /\ \A i \in 1 .. 3 : db.heads[i] <= release
    /\ services' = "migrate" /\ target' = release
    /\ UNCHANGED <<db, doubtful, lock, cli, script, artifact, runs>>

\* One module after the other; a failure ends the run where it is.
MigrateModule ==
    /\ services = "migrate"
    /\ \/ \E i \in 1 .. 3 :
            /\ db.heads[i] < target /\ \A j \in 1 .. i - 1 : db.heads[j] = target
            /\ db' = [db EXCEPT !.heads[i] = target]
            /\ UNCHANGED services
       \/ services' = "none" /\ UNCHANGED db
    /\ UNCHANGED <<target, doubtful, lock, cli, script, artifact, runs>>

\* The target of a restore that went wrong is emptied for another.
Discard ==
    /\ Quiet /\ services = "none" /\ (doubtful \/ db.objects = "all")
    /\ db' = Empty /\ doubtful' = TRUE
    /\ UNCHANGED <<services, target, lock, cli, script, artifact, runs>>

\* The backup directory is cleared for another backup.
RemoveArtifact ==
    /\ Quiet /\ artifact # NoFile
    /\ artifact' = NoFile
    /\ UNCHANGED <<db, services, target, doubtful, lock, cli, script, runs>>

(***************************************************************************)
(* The call on the host.                                                   *)
(***************************************************************************)
Idle(c) == cli[c].step = "idle" /\ script[c] = NoScript /\ runs < MaxRuns /\ runs' = runs + 1

\* O_EXCL: a file that is there is never overwritten.
BeginBackup(c, release) ==
    /\ Idle(c) /\ artifact = NoFile
    /\ artifact' = [NoFile EXCEPT !.by = c]
    /\ cli' = [cli EXCEPT ![c] = [NoCall EXCEPT !.step = "check", !.op = "backup", !.release = release]]
    /\ UNCHANGED <<db, services, target, doubtful, lock, script>>

\* The whole artifact is checked and unpacked before the container is asked.
BeginRestore(c, release) ==
    /\ Idle(c) /\ artifact.complete /\ artifact.content.heads = Heads(release)
    /\ cli' = [cli EXCEPT ![c] = [step |-> "check", op |-> "restore", release |-> release,
                                  output |-> artifact.content]]
    /\ UNCHANGED <<db, services, target, doubtful, lock, script, artifact>>

\* `_quiescent`, then `docker compose exec`.
Exec(c) ==
    /\ cli[c].step = "check" /\ services = "none"
    /\ cli' = [cli EXCEPT ![c].step = "exec"]
    /\ script' = [script EXCEPT ![c] = [step |-> "start", op |-> cli[c].op, input |-> cli[c].output,
                                        heads |-> Heads(0)]]
    /\ UNCHANGED <<db, services, target, doubtful, lock, artifact, runs>>

\* The script has ended well: its heads are those of the release, and after a
\* restore the dump equals what was restored.
Receive(c) ==
    /\ cli[c].step = "exec" /\ script[c].step = "done"
    /\ script[c].heads = Heads(cli[c].release)
    /\ cli[c].op = "restore" => script[c].input = cli[c].output
    /\ script' = [script EXCEPT ![c] = NoScript]
    /\ IF cli[c].op = "backup"
       THEN /\ cli' = [cli EXCEPT ![c].step = "pack", ![c].output = script[c].input]
            /\ UNCHANGED doubtful
       ELSE /\ cli' = [cli EXCEPT ![c].step = "passed"]
            /\ doubtful' = FALSE
    /\ UNCHANGED <<db, services, target, lock, artifact, runs>>

\* pack_file: envelope, heads, size and digest, then the dump.
Pack(c) ==
    /\ cli[c].step = "pack"
    /\ artifact' = [complete |-> TRUE, by |-> c,
                    content |-> [cli[c].output EXCEPT !.heads = Heads(cli[c].release)]]
    /\ cli' = [cli EXCEPT ![c].step = "passed"]
    /\ UNCHANGED <<db, services, target, doubtful, lock, script, runs>>

\* PASS is read by the operator.
Report(c) ==
    /\ cli[c].step = "passed"
    /\ cli' = [cli EXCEPT ![c] = NoCall]
    /\ UNCHANGED <<db, services, target, doubtful, lock, script, artifact, runs>>

InDoubt(c) == doubtful \/ (cli[c].op = "restore" /\ cli[c].step = "exec")

\* A check, the script or the time limit fails, or Ctrl-C: the call removes the
\* artifact that it made.  The script goes on if it runs.
FailCall(c) ==
    /\ cli[c].step \in {"check", "exec", "pack"}
    /\ artifact' = IF cli[c].op = "backup" /\ artifact.by = c THEN NoFile ELSE artifact
    /\ doubtful' = InDoubt(c)
    /\ cli' = [cli EXCEPT ![c] = NoCall]
    /\ script' = [script EXCEPT ![c] = IF @.step = "done" THEN NoScript ELSE @]
    /\ UNCHANGED <<db, services, target, lock, runs>>

\* The host dies: what was written of the artifact stays.
KillCall(c) ==
    /\ cli[c].step \in {"check", "exec", "pack"}
    /\ doubtful' = InDoubt(c)
    /\ cli' = [cli EXCEPT ![c] = NoCall]
    /\ script' = [script EXCEPT ![c] = IF @.step = "done" THEN NoScript ELSE @]
    /\ UNCHANGED <<db, services, target, lock, artifact, runs>>

(***************************************************************************)
(* remote_script: the script in the container.                             *)
(***************************************************************************)
MutLocked == lock' = FALSE                  \* mutant: `mkdir -p`
Locked == lock = FALSE /\ lock' = TRUE

\* `mkdir "$lock" || exit 20`
TakeLock(c) ==
    /\ script[c].step = "start" /\ Locked
    /\ script' = [script EXCEPT ![c].step = IF script[c].op = "restore" THEN "target" ELSE "heads"]
    /\ UNCHANGED <<db, services, target, doubtful, cli, artifact, runs>>

\* Only an empty database is restored into.
CheckTarget(c) ==
    /\ script[c].step = "target" /\ db.objects = "none"
    /\ script' = [script EXCEPT ![c].step = "import"]
    /\ UNCHANGED <<db, services, target, doubtful, lock, cli, artifact, runs>>

\* `client <&0`: statement by statement; the first error ends it.
Import(c) ==
    /\ \/ /\ script[c].step = "import" /\ db.objects = "none"
          /\ db' = [script[c].input EXCEPT !.objects = "partial"]
          /\ script' = [script EXCEPT ![c].step = "importing"]
       \/ /\ script[c].step = "importing" /\ db.objects = "partial"
          /\ db' = [db EXCEPT !.objects = "all"]
          /\ script' = [script EXCEPT ![c].step = "heads"]
    /\ UNCHANGED <<services, target, doubtful, lock, cli, artifact, runs>>

\* The version tables are there and are read.
ReadHeads(c) ==
    /\ script[c].step = "heads" /\ db.objects = "all"
    /\ script' = [script EXCEPT ![c].step = "dump", ![c].heads = db.heads]
    /\ UNCHANGED <<db, services, target, doubtful, lock, cli, artifact, runs>>

\* `mysqldump --single-transaction`; the trap removes the lock.
Dump(c) ==
    /\ script[c].step = "dump"
    /\ script' = [script EXCEPT ![c] = IF cli[c].step = "exec" THEN [@ EXCEPT !.step = "done", !.input = db]
                                       ELSE NoScript]
    /\ lock' = FALSE
    /\ UNCHANGED <<db, services, target, doubtful, cli, artifact, runs>>

Holds(c) == script[c].step \in {"target", "import", "importing", "heads", "dump"}

\* A check or a client fails, or its time is up: the trap removes the lock, if it
\* was taken.
EndScript(c) ==
    /\ script[c].step = "start" \/ Holds(c)
    /\ script' = [script EXCEPT ![c] = NoScript]
    /\ lock' = IF Holds(c) THEN FALSE ELSE lock
    /\ UNCHANGED <<db, services, target, doubtful, cli, artifact, runs>>

\* The container dies with its scripts; the lock stays and is never stolen.
KillContainer ==
    /\ \E c \in Call : Holds(c)
    /\ script' = [c \in Call |-> IF script[c].step = "done" THEN script[c] ELSE NoScript]
    /\ UNCHANGED <<db, services, target, doubtful, lock, cli, artifact, runs>>

Next ==
    \/ StartServices \/ StopServices \/ Write \/ Discard \/ RemoveArtifact
    \/ MigrateModule \/ KillContainer
    \/ \E release \in Release : Migrate(release)
    \/ \E c \in Call :
        \/ \E release \in Release : BeginBackup(c, release) \/ BeginRestore(c, release)
        \/ Exec(c) \/ Receive(c) \/ Pack(c) \/ Report(c) \/ FailCall(c) \/ KillCall(c)
        \/ TakeLock(c) \/ CheckTarget(c) \/ Import(c) \/ ReadHeads(c) \/ Dump(c) \/ EndScript(c)

Spec == Init /\ [][Next]_vars

(***************************************************************************)
(* Properties.                                                             *)
(***************************************************************************)
State(d) == d.objects \in {"none", "partial", "all"} /\ d.data \in 0 .. MaxData

BackupTypeOK ==
    /\ State(db) /\ DOMAIN db.heads = 1 .. 3
    /\ services \in {"none", "writers", "migrate"} /\ target \in {0} \cup Release
    /\ \A c \in Call :
        /\ cli[c].step \in {"idle", "check", "exec", "pack", "passed"}
        /\ script[c].step \in {"none", "start", "target", "import", "importing", "heads", "dump", "done"}
        /\ State(cli[c].output) /\ State(script[c].input)
    /\ State(artifact.content)

\* When a restore reports PASS the database is the artifact's, whatever other
\* calls, and scripts of calls that are gone, did meanwhile.
RestoredIsArtifact ==
    \A c \in Call : cli[c].step = "passed" /\ cli[c].op = "restore" => db = cli[c].output

\* An artifact that a restore would take is a whole database with the heads of one
\* release: never one half migrated, half restored or written to meanwhile.
ArtifactWhole ==
    artifact.complete =>
        /\ artifact.content.objects = "all"
        /\ \E release \in Release : artifact.content.heads = Heads(release)
        /\ \A c \in Call : cli[c].step = "passed" /\ cli[c].op = "backup" => artifact.content = db

\* What services and migrations work on is a whole database, though scripts of
\* broken calls may still run.
ServedWhole == services # "none" => db.objects = "all"

\* The scripts exclude each other, and who finds the lock finds nobody at work.
OneScript == \A c, d \in Call : Holds(c) /\ Holds(d) => c = d

BackupSound == RestoredIsArtifact /\ ArtifactWhole /\ ServedWhole /\ OneScript
=============================================================================
