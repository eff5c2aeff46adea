---------------------------- MODULE ProbeSession ----------------------------
(***************************************************************************)
(* The measurement that runs on the production host while its services are *)
(* down (scripts/recording_probe_session.py, recording_ec2_host.py and the *)
(* Supervisor of recording_cpu_quota_supervisor.py).                       *)
(*                                                                         *)
(* A unit starts a session, the session a host, and the host containers.   *)
(* Whatever becomes of them, a recovery - the session's own, the unit's    *)
(* stop-post, or one that the operator calls - removes what is left, puts  *)
(* the services back and gives up the operation lock.  It may be repeated. *)
(***************************************************************************)
EXTENDS Naturals, Sequences

CONSTANTS MaxRuns,      \* bound: how often the unit is started
          MaxTroubles   \* bound: kills, failing commands and refused checks

VARIABLES
    prior,      \* the services that ran before the maintenance
    services,   \* the services that run
    used,       \* the resources of the stage: "absent", "made" or "running"
    earlier,    \* a container that an earlier stage has left
    files,      \* the evidence directory
    lock,       \* the operation lock: "ours", its directory without marker, "free", "other"
    session,    \* the session: its step and what the host's end told it
    host,       \* the host process
    restore,    \* the recovery, and whether the unit or the operator called it
    runs, troubles

vars == <<prior, services, used, earlier, files, lock, session, host, restore, runs, troubles>>

ProbeAssumption == MaxRuns \in Nat /\ MaxTroubles \in Nat

Service == <<"mysql", "api", "worker">>
Services == {"mysql", "api", "worker"}
Resources == <<"network", "volumes", "init", "db", "runner">>
Resource == {"network", "volumes", "init", "db", "runner"}
Container == {"init", "db", "runner"}

\* What LinuxSupervisor.stage does with the resources, in this order.
Plan == << <<"create", "network">>, <<"create", "volumes">>,
           <<"create", "init">>, <<"start", "init">>, <<"wait", "init">>, <<"remove", "init">>,
           <<"create", "db">>, <<"start", "db">>, <<"wait", "db">>,
           <<"create", "runner">>, <<"start", "runner">>, <<"wait", "runner">> >>

NoHost == [step |-> "none", run |-> 0, at |-> 0, todo |-> {}, passed |-> FALSE]
NoRestore == [by |-> "none", step |-> "none", todo |-> {}, service |-> 0, passed |-> FALSE]

\* The maintenance has begun: the lock is marked, the services are down and what
\* ran before is in the snapshot.
Init ==
    /\ prior \in SUBSET Services
    /\ services = {}
    /\ used = [r \in Resource |-> "absent"]
    /\ earlier \in {"none", "stopped", "running"}
    /\ files = [host |-> 0, attempt |-> FALSE, result |-> "none", outcome |-> "none",
                window |-> FALSE, receipt |-> FALSE]
    /\ lock = "ours"
    /\ session = [step |-> "idle", passed |-> FALSE]
    /\ host = NoHost
    /\ restore = NoRestore
    /\ runs = 0 /\ troubles = 0

Trouble == troubles < MaxTroubles /\ troubles' = troubles + 1

HostAlive == host.step # "none"
Restoring == restore.step # "none"
Running == {r \in Container : used[r] = "running"}

(***************************************************************************)
(* The unit and its session.                                               *)
(***************************************************************************)
\* `run`: the gates hold, and the host is forked.
StartUnit ==
    /\ session.step \in {"idle", "gone"} /\ ~Restoring /\ ~HostAlive
    /\ runs < MaxRuns /\ runs' = runs + 1
    /\ lock = "ours" /\ earlier = "none" /\ files.outcome = "none" /\ files.result = "none"
    /\ session' = [step |-> "record", passed |-> FALSE]
    /\ host' = [NoHost EXCEPT !.step = "gate", !.run = runs + 1]
    /\ UNCHANGED <<prior, services, used, earlier, files, lock, restore, troubles>>

\* A gate refuses: the unit ends, and its stop-post runs nevertheless.
RefuseUnit ==
    /\ session.step \in {"idle", "gone"} /\ ~Restoring /\ ~HostAlive
    /\ runs < MaxRuns /\ runs' = runs + 1
    /\ session' = [step |-> "post", passed |-> FALSE]
    /\ UNCHANGED <<prior, services, used, earlier, files, lock, host, restore, troubles>>

\* file_child: pid and start time are written once; a file that is there is an
\* error, and the child is stopped.
RecordHost ==
    /\ session.step = "record" /\ files.host = 0 /\ HostAlive
    /\ files' = [files EXCEPT !.host = host.run]
    /\ session' = [session EXCEPT !.step = "host"]
    /\ UNCHANGED <<prior, services, used, earlier, lock, host, restore, runs, troubles>>

\* `child.wait` returned.
HostEnded ==
    /\ session.step = "host" /\ ~HostAlive
    /\ session' = [step |-> "recover", passed |-> session.passed]
    /\ UNCHANGED <<prior, services, used, earlier, files, lock, host, restore, runs, troubles>>

\* stop_child: TERM, and KILL later; it does not wait longer than that.
StopHost(gone) ==
    /\ \/ session.step = "record" /\ (files.host # 0 \/ ~HostAlive) /\ UNCHANGED troubles
       \/ session.step \in {"record", "host"} /\ HostAlive /\ Trouble
    /\ host' = IF gone \/ ~HostAlive THEN NoHost ELSE [host EXCEPT !.step = "stuck"]
    /\ session' = [step |-> "recover", passed |-> FALSE]
    /\ UNCHANGED <<prior, services, used, earlier, files, lock, restore, runs>>

\* A process that was killed within the kernel goes at last.
HostGone ==
    /\ host.step = "stuck"
    /\ host' = NoHost
    /\ UNCHANGED <<prior, services, used, earlier, files, lock, session, restore, runs, troubles>>

Goto(s) == restore' = [restore EXCEPT !.step = s]
BeginRestore(by) == restore' = [NoRestore EXCEPT !.by = by, !.step = "check", !.passed = TRUE]
\* The session notes what its recovery came to; the operator is told.
Finish(by, passed) ==
    restore' = IF by = "operator" THEN NoRestore
               ELSE [NoRestore EXCEPT !.by = by, !.step = "end", !.passed = passed]
Fail == Finish(restore.by, FALSE)

\* recovery_remaining: the first recovery of the unit opens a window for them all,
\* which may have passed when the next one begins, and may pass while one works.
RestoreOfUnit ==
    /\ session.step \in {"recover", "post"} /\ ~Restoring
    /\ BeginRestore("unit") \/ (files.window /\ Finish("unit", FALSE))
    /\ files' = [files EXCEPT !.window = TRUE]
    /\ UNCHANGED <<prior, services, used, earlier, lock, session, host, runs, troubles>>

Verdict(hostPassed, recovered) == IF hostPassed /\ recovered THEN "PASS" ELSE "REVIEW_REQUIRED"

\* run_commands notes the outcome after its recovery, whatever that came to; the
\* stop-post follows.
EndOfRestore ==
    /\ restore.step = "end"
    /\ restore' = NoRestore
    /\ IF session.step = "recover"
       THEN /\ session' = [session EXCEPT !.step = "post"]
            /\ files' = [files EXCEPT !.outcome = IF @ = "none"
                            THEN Verdict(session.passed, restore.passed) ELSE @]
       ELSE session' = [step |-> "gone", passed |-> FALSE] /\ UNCHANGED files
    /\ UNCHANGED <<prior, services, used, earlier, lock, host, runs, troubles>>

\* systemd kills the unit's processes, all of them, or the session alone dies and
\* systemd follows; the stop-post comes next, if it was not it that died.
KillUnit(gone) ==
    /\ session.step \in {"record", "host", "recover", "post"} /\ Trouble
    /\ session.step = "post" => restore.by = "unit"
    /\ host' = IF gone \/ ~HostAlive THEN NoHost ELSE [host EXCEPT !.step = "stuck"]
    /\ restore' = IF restore.by = "unit" THEN NoRestore ELSE restore
    /\ session' = [step |-> IF session.step = "post" THEN "gone" ELSE "post", passed |-> FALSE]
    /\ UNCHANGED <<prior, services, used, earlier, files, lock, runs>>

\* The machine goes down: what the measurement had started does not come back,
\* nor does the unit; Docker starts the services that ran.
Reboot ==
    /\ session.step # "idle" /\ Trouble
    /\ used' = [r \in Resource |-> IF used[r] = "running" THEN "made" ELSE used[r]]
    /\ earlier' = IF earlier = "running" THEN "stopped" ELSE earlier
    /\ host' = NoHost
    /\ restore' = NoRestore
    /\ session' = [step |-> "gone", passed |-> FALSE]
    /\ UNCHANGED <<prior, services, files, lock, runs>>

(***************************************************************************)
(* The host.                                                               *)
(***************************************************************************)
\* main: lock, snapshot and approval are as they must be, nothing of this owner
\* has the names of the stage, and it has no result yet.
Gate ==
    /\ host.step = "gate"
    /\ host' = IF /\ lock = "ours" /\ services = {} /\ earlier = "none"
                  /\ \A r \in Resource : used[r] = "absent"
                  /\ files.result = "none"
               THEN [host EXCEPT !.step = "attempt"]
               ELSE NoHost
    /\ UNCHANGED <<prior, services, used, earlier, files, lock, session, restore, runs, troubles>>

\* `<stage>-stage` is written once: the attempt is never repeated.
Attempt ==
    /\ host.step = "attempt"
    /\ IF files.attempt
       THEN host' = [host EXCEPT !.step = "clean"] /\ UNCHANGED files
       ELSE /\ host' = [host EXCEPT !.step = "work", !.at = 1]
            /\ files' = [files EXCEPT !.attempt = TRUE]
    /\ UNCHANGED <<prior, services, used, earlier, lock, session, restore, runs, troubles>>

\* The guard of every poll.
Guard == lock = "ours" /\ services = {}

\* `created` names a resource before Docker is asked for it.
Intend(r) == host.todo \cup {r}

\* The next command of the stage is done.
Work ==
    /\ host.step = "work" /\ host.at \in DOMAIN Plan
    /\ LET op == Plan[host.at][1]
           r == Plan[host.at][2]
           next == [host EXCEPT !.at = @ + 1]
       IN \/ /\ op = "create" /\ used[r] = "absent"
             /\ used' = [used EXCEPT ![r] = "made"]
             /\ host' = [next EXCEPT !.todo = Intend(r)]
          \/ /\ op = "start" /\ used' = [used EXCEPT ![r] = "running"] /\ host' = next
          \/ /\ op = "wait" /\ Guard
             /\ used' = IF r = "db" THEN used ELSE [used EXCEPT ![r] = "made"]
             /\ host' = next
          \/ /\ op = "remove"
             /\ used' = [used EXCEPT ![r] = "absent"]
             /\ host' = [next EXCEPT !.todo = @ \ {r}]
    /\ UNCHANGED <<prior, services, earlier, files, lock, session, restore, runs, troubles>>

\* The result of the runner is read and is as expected.
StagePassed ==
    /\ host.step = "work" /\ host.at = Len(Plan) + 1
    /\ host' = [host EXCEPT !.step = "clean", !.passed = TRUE]
    /\ UNCHANGED <<prior, services, used, earlier, files, lock, session, restore, runs, troubles>>

\* A gate, a check or a command fails, or takes too long: then Docker may or may
\* not have done it.
StageFails(done) ==
    /\ host.step = "work" /\ Trouble
    /\ LET failing == host.at \in DOMAIN Plan
           op == Plan[host.at][1]
           r == Plan[host.at][2]
           asked == failing /\ op = "create"
       IN /\ host' = [host EXCEPT !.step = "clean", !.todo = IF asked THEN Intend(r) ELSE @]
          /\ used' = IF ~done \/ ~failing \/ op = "wait" THEN used
                     ELSE [used EXCEPT ![r] = CASE op = "create" -> "made"
                                                [] op = "start" -> "running"
                                                [] op = "remove" -> "absent"]
    /\ UNCHANGED <<prior, services, earlier, files, lock, session, restore, runs>>

\* The last of those that are to be removed, as they were created.
Position(r) == CHOOSE i \in DOMAIN Resources : Resources[i] = r
Newest(todo) == CHOOSE r \in todo : \A other \in todo : Position(other) <= Position(r)

\* What a resource is held by: a volume by containers that are there, the network by
\* those that run on it.
Held(r) ==
    \/ r = "volumes" /\ \E c \in Container : used[c] # "absent"
    \/ r = "network" /\ Running \ {"init"} # {}

\* Supervisor.cleanup, one resource after the other: what runs is stopped first.
Remove(r) == used' = [used EXCEPT ![r] = "absent"]
HostDoneWith(r) == host' = [host EXCEPT !.todo = @ \ {r}]
HostLeaves(r) == host' = [host EXCEPT !.todo = @ \ {r}, !.passed = FALSE]

HostCleans ==
    /\ host.step = "clean" /\ host.todo # {}
    /\ LET r == Newest(host.todo)
       IN IF Held(r) THEN HostLeaves(r) /\ UNCHANGED used ELSE HostDoneWith(r) /\ Remove(r)
    /\ UNCHANGED <<prior, services, earlier, files, lock, session, restore, runs, troubles>>

\* What cannot be removed does not keep the others from being tried, but the stage
\* has failed then.
CleanupFails ==
    /\ host.step = "clean" /\ host.todo # {} /\ Trouble
    /\ HostLeaves(Newest(host.todo))
    /\ UNCHANGED <<prior, services, used, earlier, files, lock, session, restore, runs>>

Result(passed) == IF passed THEN "PASS" ELSE "FAIL"

\* `<stage>-result` is written once.  The exit code tells the session.
WriteResult ==
    /\ host.step = "clean" /\ host.todo = {}
    /\ files' = [files EXCEPT !.result = IF @ = "none" THEN Result(host.passed) ELSE @]
    /\ host' = NoHost
    /\ session' = [session EXCEPT !.passed = host.passed]
    /\ UNCHANGED <<prior, services, used, earlier, lock, restore, runs, troubles>>

\* TERM has its default effect, and so has everything else that kills: nothing is
\* cleaned up and no result is written.
KillHost ==
    /\ HostAlive /\ host.step # "stuck" /\ Trouble
    /\ host' = NoHost
    /\ UNCHANGED <<prior, services, used, earlier, files, lock, session, restore, runs>>

(***************************************************************************)
(* restore, by the unit or the operator.                                   *)
(***************************************************************************)
\* The operator names a window of its own, and calls for a recovery while the lock is
\* not given up, even before the unit has ended.  Outside the model: two recoveries
\* at once, which the runbook forbids, and one that is called in the instants
\* between the fork of the host and the note of its pid.
CallRestore ==
    /\ session.step \notin {"idle", "record"} /\ lock \in {"ours", "unmarked"} /\ ~Restoring
    /\ BeginRestore("operator")
    /\ UNCHANGED <<prior, services, used, earlier, files, lock, session, host, runs, troubles>>

\* mutant: a recovery that does not look for the host.
MutHostMayRun == FALSE
HostMayRun == HostAlive /\ files.host = host.run

\* The host that was noted has gone; the lock is ours, or a receipt says that the
\* services are back.  What there is of the stage is to be removed.
Check ==
    /\ restore.step = "check"
    /\ IF ~HostMayRun /\ (IF files.receipt THEN services = prior ELSE lock = "ours")
       THEN restore' = [restore EXCEPT !.step = IF files.receipt THEN "running" ELSE "clean",
                                       !.todo = {r \in Resource : used[r] # "absent"}]
       ELSE Fail
    /\ UNCHANGED <<prior, services, used, earlier, files, lock, session, host, runs, troubles>>

RestoreLeaves(r) == restore' = [restore EXCEPT !.todo = @ \ {r}, !.passed = FALSE]

\* The cleanup of the Supervisor, as the host has it.
Clean ==
    /\ restore.step = "clean"
    /\ IF restore.todo = {}
       THEN (IF restore.passed THEN Goto("running") ELSE Fail) /\ UNCHANGED used
       ELSE LET r == Newest(restore.todo)
            IN IF Held(r) THEN RestoreLeaves(r) /\ UNCHANGED used
               ELSE Remove(r) /\ restore' = [restore EXCEPT !.todo = @ \ {r}]
    /\ UNCHANGED <<prior, services, earlier, files, lock, session, host, runs, troubles>>

RestoreCleanupFails ==
    /\ restore.step = "clean" /\ restore.todo # {} /\ Trouble
    /\ RestoreLeaves(Newest(restore.todo))
    /\ UNCHANGED <<prior, services, used, earlier, files, lock, session, host, runs>>

NothingRuns == Running = {} /\ earlier # "running"

\* No container with the owner's label runs, of whatever stage.
NoneRunning ==
    /\ restore.step = "running"
    /\ IF NothingRuns
       THEN restore' = [restore EXCEPT !.step = "services", !.service = 1]
       ELSE Fail
    /\ UNCHANGED <<prior, services, used, earlier, files, lock, session, host, runs, troubles>>

\* MySQL, API, Worker: what ran before is started and waited for.
StartService ==
    /\ restore.step = "services" /\ restore.service \in DOMAIN Service
    /\ services' = services \cup ({Service[restore.service]} \cap prior)
    /\ restore' = [restore EXCEPT !.service = @ + 1]
    /\ UNCHANGED <<prior, used, earlier, files, lock, session, host, runs, troubles>>

\* Worker status, the API's readiness and the system's services; all that ran runs
\* again and nothing else.
Ready ==
    /\ restore.step = "services" /\ restore.service = Len(Service) + 1
    /\ IF {"mysql", "api"} \subseteq services /\ services = prior
       THEN Goto("receipt")
       ELSE Fail
    /\ UNCHANGED <<prior, services, used, earlier, files, lock, session, host, runs, troubles>>

WriteReceipt ==
    /\ restore.step = "receipt"
    /\ files' = [files EXCEPT !.receipt = TRUE]
    /\ Goto("unlock")
    /\ UNCHANGED <<prior, services, used, earlier, lock, session, host, runs, troubles>>

\* The marker is unlinked if it is ours and alone; then the directory is removed.
\* A lock directory without it, or another's, is left as it is.
Unlock ==
    /\ restore.step = "unlock"
    /\ CASE lock = "ours" -> lock' = "unmarked" /\ Goto("rmdir")
         [] lock = "free" -> Finish(restore.by, TRUE) /\ UNCHANGED lock
         [] OTHER -> Fail /\ UNCHANGED lock
    /\ UNCHANGED <<prior, services, used, earlier, files, session, host, runs, troubles>>

RemoveLock ==
    /\ restore.step = "rmdir"
    /\ lock' = "free"
    /\ Finish(restore.by, TRUE)
    /\ UNCHANGED <<prior, services, used, earlier, files, session, host, runs, troubles>>

\* A command fails or the process is killed, or the time of the unit's window is up.
RestoreFails ==
    /\ restore.step \notin {"none", "end"}
    /\ Trouble \/ (restore.by = "unit" /\ UNCHANGED troubles)
    /\ Fail
    /\ UNCHANGED <<prior, services, used, earlier, files, lock, session, host, runs>>

\* The operator stops what an earlier stage has left running.
StopEarlier ==
    /\ earlier = "running"
    /\ earlier' = "stopped"
    /\ UNCHANGED <<prior, services, used, files, lock, session, host, restore, runs, troubles>>

\* Another operation takes the free lock and gives it back.
OtherOperation ==
    /\ \/ lock = "free" /\ lock' = "other"
       \/ lock = "other" /\ lock' = "free"
    /\ UNCHANGED <<prior, services, used, earlier, files, session, host, restore, runs, troubles>>

SessionStep == RecordHost \/ HostEnded \/ StopHost(TRUE) \/ RestoreOfUnit \/ EndOfRestore
HostStep == Gate \/ Attempt \/ Work \/ StagePassed \/ HostCleans \/ WriteResult
RestoreStep ==
    Check \/ Clean \/ NoneRunning \/ StartService \/ Ready \/ WriteReceipt \/ Unlock \/ RemoveLock

Next ==
    \/ StartUnit \/ RefuseUnit \/ SessionStep \/ HostStep \/ HostGone
    \/ StopHost(FALSE) \/ KillHost \/ CleanupFails \/ Reboot
    \/ \E done \in BOOLEAN : StageFails(done) \/ KillUnit(done)
    \/ CallRestore \/ StopEarlier \/ OtherOperation
    \/ RestoreStep \/ RestoreCleanupFails \/ RestoreFails

\* Processes go on, killed ones go in the end, and the operator repeats the
\* recovery and stops what is in its way.
Fairness ==
    /\ WF_vars(SessionStep) /\ WF_vars(HostStep) /\ WF_vars(HostGone)
    /\ WF_vars(RestoreStep) /\ WF_vars(CallRestore) /\ WF_vars(StopEarlier)

Spec == Init /\ [][Next]_vars /\ Fairness

(***************************************************************************)
(* Properties.                                                             *)
(***************************************************************************)
ProbeTypeOK ==
    /\ prior \subseteq Services /\ services \subseteq Services
    /\ used \in [Resource -> {"absent", "made", "running"}]
    /\ earlier \in {"none", "stopped", "running"}
    /\ files.result \in {"none", "PASS", "FAIL"}
    /\ files.outcome \in {"none", "PASS", "REVIEW_REQUIRED"}
    /\ lock \in {"ours", "unmarked", "free", "other"}
    /\ runs <= MaxRuns /\ troubles <= MaxTroubles

\* The measurement and the services never share the machine, whoever was killed
\* and whoever recovers.
NeverTogether == services # {} => Running = {} /\ earlier # "running"

\* The lock is given up when the services that ran run again and nothing of the
\* stage is left.
LockHeld ==
    lock # "ours" => /\ services = prior /\ files.receipt
                     /\ \A r \in Resource : used[r] = "absent"

\* A stage passed only if it left nothing, and a session only if its stage passed
\* and the services are back.
VerdictsTrue ==
    /\ files.result = "PASS" => \A r \in Resource : used[r] = "absent"
    /\ files.outcome = "PASS" => files.result = "PASS" /\ lock # "ours"

ProbeSound == ProbeTypeOK /\ NeverTogether /\ LockHeld /\ VerdictsTrue

\* A session that was begun ends with the services back, if the operator sees to
\* it, and the lock given up - but for a recovery that is killed between the two
\* steps of that, whose directory nobody removes.
ServicesReturn ==
    (session.step # "idle" /\ {"mysql", "api"} \subseteq prior)
        ~> (services = prior /\ lock # "ours")
=============================================================================
