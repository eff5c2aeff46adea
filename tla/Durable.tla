------------------------------ MODULE Durable -------------------------------
(***************************************************************************)
(* What processes leave behind: job executions, files of the mount, the    *)
(* books of what was paid for, and the services that a measurement on the  *)
(* host has stopped.  The components share no state, so they are checked   *)
(* side by side: a behaviour belongs to one of them, and the variables of  *)
(* the others rest.  Each property is that of its module.                  *)
(***************************************************************************)
EXTENDS JobLifecycle

CONSTANTS
    Upload, Tool, Cleaner, NoFile,                          \* ObjectStorage
    Retries, Pass,                                          \* UsageLedger
    MaxRuns, MaxTroubles,                                   \* ProbeSession
    Before          \* bound: what the services that ran before may have been

VARIABLES
    part,                                                   \* the component that moves
    phase, place, old, row, scan, candidate,                \* ObjectStorage
    step, intent, n, answer, exhausted, asked, kept, job, tracker, final, pass,  \* UsageLedger
    prior, services, used, earlier, files, lock, session, host, restore, runs, troubles \* ProbeSession

Storage == INSTANCE ObjectStorage
Ledger == INSTANCE UsageLedger
Probe == INSTANCE ProbeSession

ASSUME DurableAssumption ==
    /\ Storage!StorageAssumption
    /\ Ledger!LedgerAssumption
    /\ Probe!ProbeAssumption

storage == <<phase, place, old, row, scan, candidate>>
ledger == <<step, intent, n, answer, exhausted, asked, kept, job, tracker, final, pass>>
probe == <<prior, services, used, earlier, files, lock, session, host, restore, runs, troubles>>
durable == <<part, lifecycleVars, storage, ledger, probe>>

DurableInit ==
    /\ part \in {"jobs", "storage", "ledger", "probe"}
    /\ Init /\ Storage!Init /\ Ledger!Init /\ Probe!Init
    \* What an earlier stage has left is the affair of the part that sees it.
    /\ prior \in Before
    /\ earlier # "none" => part = "probe"

JobsStep == part = "jobs" /\ Next /\ UNCHANGED <<part, storage, ledger, probe>>
StorageStep == part = "storage" /\ Storage!Next /\ UNCHANGED <<part, lifecycleVars, ledger, probe>>
LedgerStep == part = "ledger" /\ Ledger!Next /\ UNCHANGED <<part, lifecycleVars, storage, probe>>
ProbeStep == part = "probe" /\ Probe!Next /\ UNCHANGED <<part, lifecycleVars, storage, ledger>>

DurableNext == JobsStep \/ StorageStep \/ LedgerStep \/ ProbeStep

\* Each component is as fair as its module says; one that rests has nothing to do.
DurableSpec ==
    /\ DurableInit /\ [][DurableNext]_durable
    /\ Storage!Fairness /\ Ledger!Fairness /\ Probe!Fairness

(***************************************************************************)
(* Properties; those of JobLifecycle are checked as they stand there.      *)
(***************************************************************************)
\* ObjectStorage: no cleaner removes a file that a row of the database names, or
\* may come to name, nor one that a request or a tool works on.
FilesKept == Storage!StorageTypeOK /\ Storage!RegisteredFileKept /\ Storage!WorkInHandKept

\* UsageLedger: no request without a row, no run in the books the job did not
\* produce, no confirmed observation lost.
BooksAgree == Ledger!LedgerTypeOK /\ Ledger!BooksAgree

\* ProbeSession: the measurement and the services never share the host; the lock is
\* given up with the services back and nothing left; and a PASS is true.
ProbeSound == Probe!ProbeSound

\* What broken work leaves is dealt with in the end: ObjectStorage removes what is
\* unregistered, UsageLedger gives every attempt that was begun a final record, and
\* the recovery of ProbeSession puts the services back.
LeftoversSettled ==
    /\ Storage!LeftoversRemoved
    /\ Ledger!EveryUsageFinalized
    /\ Probe!ServicesReturn
=============================================================================
