--------------------------- MODULE ObjectStorage ---------------------------
(***************************************************************************)
(* Files of the shared mount: uploads that stage, publish and register a   *)
(* source (api/upload.py, api/composition.py), media tools that work in    *)
(* temporary directories (common/storage/media.py), and the cleaners of    *)
(* every process that delete what is old and unused                        *)
(* (common/storage/cleanup.py).                                            *)
(*                                                                         *)
(* Writers hold a file lease shared, a cleaner holds it exclusively and    *)
(* never waits for it.  The operating system drops the leases of a process *)
(* that dies; the database goes on with what it was sent.                  *)
(***************************************************************************)
EXTENDS Naturals

CONSTANTS Upload,     \* upload requests; each has one file
          Tool,       \* runs of a media tool; each has one temporary directory
          Cleaner,    \* cleanup threads of processes
          NoFile      \* no candidate under examination

\* What an instance must provide.
StorageAssumption ==
    /\ Upload \cap Tool = {}
    /\ NoFile \notin Upload \cup Tool

VARIABLES
    phase,      \* what a request or a tool is doing
    place,      \* where its file is
    old,        \* its file was last written before the cleaner's cutoff
    row,        \* the local_source row of an upload, as the database has it
    scan,       \* the lease a cleaner holds exclusively, "none" if it rests
    candidate   \* the file an orphan scan has found unregistered

vars == <<phase, place, old, row, scan, candidate>>

Phase == {"idle", "admitted", "receiving", "published", "registering", "working", "done"}
Row == {"none", "inserted", "committing", "committed"}

(***************************************************************************)
(* Leases.                                                                 *)
(***************************************************************************)
MutSharesOrphan(u) == phase[u] # "idle"      \* mutant: the lease of an ended request stays

\* `leased_source`: from before the first byte until the registration thread
\* has ended, also when the request is cancelled meanwhile.
SharesOrphan(u) == phase[u] \in {"admitted", "receiving", "published", "registering"}

\* `_StagingOwner`: from before the file exists until it is published.
SharesStaging(u) == phase[u] = "receiving"

\* `_LeasedMaterializer`: as long as the tool runs.
SharesTemp(t) == phase[t] = "working"

HeldExclusively(kind) == \E c \in Cleaner : scan[c] = kind

\* An exclusive lease is refused at once while anybody holds it.
MayScan(kind) ==
    /\ ~HeldExclusively(kind)
    /\ CASE kind = "orphan"  -> \A u \in Upload : ~SharesOrphan(u)
         [] kind = "staging" -> \A u \in Upload : ~SharesStaging(u)
         [] kind = "temp"    -> \A t \in Tool : ~SharesTemp(t)

Init ==
    /\ phase = [f \in Upload \cup Tool |-> "idle"]
    /\ place = [f \in Upload \cup Tool |-> "none"]
    /\ old = [f \in Upload \cup Tool |-> FALSE]
    /\ row = [u \in Upload |-> "none"]
    /\ scan = [c \in Cleaner |-> "none"]
    /\ candidate = [c \in Cleaner |-> NoFile]

(***************************************************************************)
(* An upload request.                                                      *)
(***************************************************************************)
\* Enter `leased_source`: wait until no orphan scan runs.
Admit(u) ==
    /\ phase[u] = "idle"
    /\ ~HeldExclusively("orphan")
    /\ phase' = [phase EXCEPT ![u] = "admitted"]
    /\ UNCHANGED <<place, old, row, scan, candidate>>

\* `_StagingOwner.open`: wait until no staging scan runs, create the file.
OpenStaging(u) ==
    /\ phase[u] = "admitted"
    /\ ~HeldExclusively("staging")
    /\ phase' = [phase EXCEPT ![u] = "receiving"]
    /\ place' = [place EXCEPT ![u] = "staging"]
    /\ old' = [old EXCEPT ![u] = FALSE]
    /\ UNCHANGED <<row, scan, candidate>>

\* A chunk arrives after a pause.
Receive(u) ==
    /\ phase[u] = "receiving" /\ old[u] /\ place[u] = "staging"
    /\ old' = [old EXCEPT ![u] = FALSE]
    /\ UNCHANGED <<phase, place, row, scan, candidate>>

\* `publish`: an atomic rename, which keeps the time of the last write.  It
\* fails like any I/O when the file is gone.
Publish(u) ==
    /\ phase[u] = "receiving" /\ place[u] = "staging"
    /\ phase' = [phase EXCEPT ![u] = "published"]
    /\ place' = [place EXCEPT ![u] = "source"]
    /\ UNCHANGED <<old, row, scan, candidate>>

\* Disconnect, time limits, refused multipart, I/O error, a case that takes no
\* more sources, media that cannot be probed, a cancelled request, a crash.
\* The file stays where it is.
Abandon(u) ==
    /\ phase[u] \in {"admitted", "receiving", "published"}
    /\ phase' = [phase EXCEPT ![u] = "done"]
    /\ UNCHANGED <<place, old, row, scan, candidate>>

\* `_register_source`: the case is locked, the row inserted.
Insert(u) ==
    /\ phase[u] = "published" /\ place[u] = "source"
    /\ phase' = [phase EXCEPT ![u] = "registering"]
    /\ row' = [row EXCEPT ![u] = "inserted"]
    /\ UNCHANGED <<place, old, scan, candidate>>

SendCommit(u) ==
    /\ phase[u] = "registering" /\ row[u] = "inserted"
    /\ row' = [row EXCEPT ![u] = "committing"]
    /\ UNCHANGED <<phase, place, old, scan, candidate>>

\* The thread has its answer, an error, or dies with the process.  In the last
\* two cases the database may not be through with the transaction yet.
EndRegistration(u) ==
    /\ phase[u] = "registering"
    /\ phase' = [phase EXCEPT ![u] = "done"]
    /\ UNCHANGED <<place, old, row, scan, candidate>>

\* The database commits, or rolls back what fails or was never completed.
Commit(u) ==
    /\ row[u] = "committing"
    /\ row' = [row EXCEPT ![u] = "committed"]
    /\ UNCHANGED <<phase, place, old, scan, candidate>>

Rollback(u) ==
    /\ row[u] = "committing" \/ (row[u] = "inserted" /\ phase[u] = "done")
    /\ row' = [row EXCEPT ![u] = "none"]
    /\ UNCHANGED <<phase, place, old, scan, candidate>>

(***************************************************************************)
(* A media tool in its temporary directory.                                *)
(***************************************************************************)
StartTool(t) ==
    /\ phase[t] = "idle"
    /\ ~HeldExclusively("temp")
    /\ phase' = [phase EXCEPT ![t] = "working"]
    /\ place' = [place EXCEPT ![t] = "temp"]
    /\ UNCHANGED <<old, row, scan, candidate>>

\* The directory is removed at the end, unless removing fails or the process dies.
EndTool(t) ==
    /\ phase[t] = "working"
    /\ phase' = [phase EXCEPT ![t] = "done"]
    /\ place' \in {place, [place EXCEPT ![t] = "none"]}
    /\ UNCHANGED <<old, row, scan, candidate>>

(***************************************************************************)
(* The cleaners.  `CleanupService.scan` runs its scanners one by one.      *)
(***************************************************************************)
BeginScan(c, kind) ==
    /\ scan[c] = "none"
    /\ MayScan(kind)
    /\ scan' = [scan EXCEPT ![c] = kind]
    /\ UNCHANGED <<phase, place, old, row, candidate>>

\* `_delete_file` of residues: by age alone.
DeleteResidue(c, f) ==
    /\ scan[c] \in {"staging", "temp"} /\ place[f] = scan[c] /\ old[f]
    /\ place' = [place EXCEPT ![f] = "none"]
    /\ UNCHANGED <<phase, old, row, scan, candidate>>

MutUnregistered(u) == row[u] # "committed"   \* mutant: a registration under way does not count

\* `read_publish_registration` locks every row of the kind without waiting, so
\* an open registration of any upload is uncertainty, and the file is left.
Unregistered(u) ==
    /\ \A v \in Upload : row[v] \in {"none", "committed"}
    /\ row[u] = "none"

FindOrphan(c, u) ==
    /\ scan[c] = "orphan" /\ candidate[c] = NoFile
    /\ place[u] = "source" /\ old[u]
    /\ Unregistered(u)
    /\ candidate' = [candidate EXCEPT ![c] = u]
    /\ UNCHANGED <<phase, place, old, row, scan>>

\* The transaction of the lookup has ended; the lease is what remains.
DeleteOrphan(c) ==
    /\ candidate[c] # NoFile
    /\ place' = [place EXCEPT ![candidate[c]] = "none"]
    /\ candidate' = [candidate EXCEPT ![c] = NoFile]
    /\ UNCHANGED <<phase, old, row, scan>>

\* The pass ends, fails, or its process dies.
EndScan(c) ==
    /\ scan[c] # "none"
    /\ scan' = [scan EXCEPT ![c] = "none"]
    /\ candidate' = [candidate EXCEPT ![c] = NoFile]
    /\ UNCHANGED <<phase, place, old, row>>

Age(f) ==
    /\ place[f] # "none" /\ ~old[f]
    /\ old' = [old EXCEPT ![f] = TRUE]
    /\ UNCHANGED <<phase, place, row, scan, candidate>>

Next ==
    \/ \E u \in Upload :
        \/ Admit(u) \/ OpenStaging(u) \/ Receive(u) \/ Publish(u) \/ Abandon(u)
        \/ Insert(u) \/ SendCommit(u) \/ EndRegistration(u) \/ Commit(u) \/ Rollback(u)
    \/ \E t \in Tool : StartTool(t) \/ EndTool(t)
    \/ \E f \in Upload \cup Tool : Age(f)
    \/ \E c \in Cleaner :
        \/ \E kind \in {"orphan", "staging", "temp"} : BeginScan(c, kind)
        \/ \E f \in Upload \cup Tool : DeleteResidue(c, f)
        \/ \E u \in Upload : FindOrphan(c, u)
        \/ DeleteOrphan(c) \/ EndScan(c)

\* There is a file for a scan to remove.
Removable(kind) ==
    \/ kind # "orphan" /\ \E f \in Upload \cup Tool : place[f] = kind /\ old[f]
    \/ kind = "orphan" /\ \E u \in Upload : place[u] = "source" /\ old[u] /\ Unregistered(u)

\* Requests end (they have time limits), the database settles what it was sent,
\* files age, and scans recur.  Scans may find the lease taken and passes may
\* fail, but not for ever.
Fairness ==
    /\ WF_vars(\E u \in Upload : Abandon(u) \/ EndRegistration(u))
    /\ WF_vars(\E u \in Upload : Commit(u) \/ Rollback(u))
    /\ WF_vars(\E t \in Tool : EndTool(t))
    /\ WF_vars(\E f \in Upload \cup Tool : Age(f))
    /\ \A c \in Cleaner :
        /\ WF_vars(EndScan(c))
        /\ SF_vars(\E kind \in {"orphan", "staging", "temp"} : Removable(kind) /\ BeginScan(c, kind))
        /\ SF_vars(\E u \in Upload : FindOrphan(c, u))
        /\ SF_vars(DeleteOrphan(c) \/ \E f \in Upload \cup Tool : DeleteResidue(c, f))

Spec == Init /\ [][Next]_vars /\ Fairness

(***************************************************************************)
(* Properties.                                                             *)
(***************************************************************************)
StorageTypeOK ==
    /\ phase \in [Upload \cup Tool -> Phase]
    /\ place \in [Upload \cup Tool -> {"none", "staging", "source", "temp"}]
    /\ old \in [Upload \cup Tool -> BOOLEAN]
    /\ row \in [Upload -> Row]
    /\ scan \in [Cleaner -> {"none", "orphan", "staging", "temp"}]
    /\ candidate \in [Cleaner -> Upload \cup {NoFile}]

\* A source the database knows, or may yet commit, has its file: no cleaner
\* removes it however old it is, whatever request or process ended in between.
RegisteredFileKept ==
    \A u \in Upload : row[u] # "none" => place[u] = "source"

\* No cleaner removes a file or a directory under the hands of its writer.
WorkInHandKept ==
    /\ \A u \in Upload :
        /\ phase[u] = "receiving" => place[u] = "staging"
        /\ phase[u] \in {"published", "registering"} => place[u] = "source"
    /\ \A t \in Tool : phase[t] = "working" => place[t] = "temp"

\* What a request or a tool has left behind and nobody registered is removed
\* in the end; requests and tools being finitely many, the mount is clean then.
LeftoversRemoved ==
    <>[](\A f \in Upload \cup Tool :
            phase[f] = "done" /\ (f \in Upload => row[f] = "none") => place[f] = "none")
=============================================================================
