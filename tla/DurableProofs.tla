--------------------------- MODULE DurableProofs ----------------------------
(***************************************************************************)
(* Safety of what processes leave behind, for every value of the           *)
(* constants: the cleaners of the mount (Storage), the books of paid calls *)
(* (Ledger) and the measurement on the production host (Probe).  A step of *)
(* Durable is a step of one of them and leaves the variables of the others *)
(* as they are; each section gives a component's inductive invariant.      *)
(***************************************************************************)
EXTENDS Durable, TLAPS

LEMMA OthersRest ==
  ASSUME [DurableNext]_durable
  PROVE  /\ Storage!Next \/ UNCHANGED storage
         /\ Ledger!Next \/ UNCHANGED ledger
         /\ Probe!Next \/ UNCHANGED probe
BY Zenon DEF DurableNext, durable, JobsStep, StorageStep, LedgerStep, ProbeStep

-----------------------------------------------------------------------------
(***************************************************************************)
(* ObjectStorage.  A cleaner that holds a lease exclusively excludes the   *)
(* writers that share it, and the writers are between the first byte and   *)
(* the end of the registration whenever a row may still come.  So a file   *)
(* that was unregistered when it was looked up is so when it is deleted.   *)
(***************************************************************************)
LeasesExclude ==
    \A c \in Cleaner :
        /\ scan[c] = "orphan" => \A u \in Upload : ~Storage!SharesOrphan(u)
        /\ scan[c] = "staging" => \A u \in Upload : ~Storage!SharesStaging(u)
        /\ scan[c] = "temp" => \A t \in Tool : ~Storage!SharesTemp(t)

CandidatesUnregistered ==
    \A c \in Cleaner : candidate[c] # NoFile => scan[c] = "orphan" /\ row[candidate[c]] = "none"

RowsFollowPublication ==
    \A u \in Upload : phase[u] \in {"idle", "admitted", "receiving", "published"} => row[u] = "none"

StorageIInv ==
    /\ Storage!StorageTypeOK
    /\ Storage!RegisteredFileKept
    /\ Storage!WorkInHandKept
    /\ LeasesExclude
    /\ CandidatesUnregistered
    /\ RowsFollowPublication

LEMMA StorageInit == DurableInit => StorageIInv
BY DurableAssumption
   DEF DurableInit, Storage!Init, StorageIInv, Storage!StorageTypeOK, Storage!RegisteredFileKept,
       Storage!WorkInHandKept, LeasesExclude, CandidatesUnregistered, RowsFollowPublication,
       Storage!Phase, Storage!Row, Storage!SharesOrphan, Storage!SharesStaging, Storage!SharesTemp

\* Each action of a request, of the database, of a tool and of a cleaner.
LEMMA StorageStepInv ==
  ASSUME StorageIInv, Storage!Next
  PROVE  StorageIInv'
<1> USE DurableAssumption DEF Storage!StorageAssumption, StorageIInv, Storage!StorageTypeOK,
       Storage!RegisteredFileKept, Storage!WorkInHandKept, LeasesExclude, CandidatesUnregistered,
       RowsFollowPublication, Storage!Phase, Storage!Row, Storage!SharesOrphan,
       Storage!SharesStaging, Storage!SharesTemp, DurableAssumption
<1>1. ASSUME NEW u \in Upload, Storage!Admit(u) PROVE StorageIInv'
  BY <1>1 DEF Storage!Admit, Storage!HeldExclusively
<1>2. ASSUME NEW u \in Upload, Storage!OpenStaging(u) PROVE StorageIInv'
  BY <1>2 DEF Storage!OpenStaging, Storage!HeldExclusively
<1>3. ASSUME NEW u \in Upload, Storage!Receive(u) PROVE StorageIInv'
  BY <1>3 DEF Storage!Receive
<1>4. ASSUME NEW u \in Upload, Storage!Publish(u) PROVE StorageIInv'
  BY <1>4 DEF Storage!Publish
<1>5. ASSUME NEW u \in Upload, Storage!Abandon(u) PROVE StorageIInv'
  BY <1>5 DEF Storage!Abandon
<1>6. ASSUME NEW u \in Upload, Storage!Insert(u) PROVE StorageIInv'
  BY <1>6 DEF Storage!Insert
<1>7. ASSUME NEW u \in Upload, Storage!SendCommit(u) PROVE StorageIInv'
  BY <1>7 DEF Storage!SendCommit
<1>8. ASSUME NEW u \in Upload, Storage!EndRegistration(u) PROVE StorageIInv'
  BY <1>8 DEF Storage!EndRegistration
<1>9. ASSUME NEW u \in Upload, Storage!Commit(u) PROVE StorageIInv'
  BY <1>9 DEF Storage!Commit
<1>10. ASSUME NEW u \in Upload, Storage!Rollback(u) PROVE StorageIInv'
  BY <1>10 DEF Storage!Rollback
<1>11. ASSUME NEW t \in Tool, Storage!StartTool(t) PROVE StorageIInv'
  BY <1>11 DEF Storage!StartTool, Storage!HeldExclusively
<1>12. ASSUME NEW t \in Tool, Storage!EndTool(t) PROVE StorageIInv'
  BY <1>12 DEF Storage!EndTool
<1>13. ASSUME NEW f \in Upload \cup Tool, Storage!Age(f) PROVE StorageIInv'
  BY <1>13 DEF Storage!Age
<1>14. ASSUME NEW c \in Cleaner, NEW kind \in {"orphan", "staging", "temp"}, Storage!BeginScan(c, kind)
       PROVE  StorageIInv'
  <2>1. /\ kind = "orphan" => \A u \in Upload : ~Storage!SharesOrphan(u)
        /\ kind = "staging" => \A u \in Upload : ~Storage!SharesStaging(u)
        /\ kind = "temp" => \A t \in Tool : ~Storage!SharesTemp(t)
    BY <1>14 DEF Storage!BeginScan, Storage!MayScan
  <2>2. LeasesExclude'
    BY <1>14, <2>1 DEF Storage!BeginScan
  <2>3. QED
    BY <1>14, <2>2 DEF Storage!BeginScan
<1>15. ASSUME NEW c \in Cleaner, NEW f \in Upload \cup Tool, Storage!DeleteResidue(c, f)
       PROVE  StorageIInv'
  BY <1>15 DEF Storage!DeleteResidue
<1>16. ASSUME NEW c \in Cleaner, NEW u \in Upload, Storage!FindOrphan(c, u) PROVE StorageIInv'
  BY <1>16 DEF Storage!FindOrphan, Storage!Unregistered
<1>17. ASSUME NEW c \in Cleaner, Storage!DeleteOrphan(c) PROVE StorageIInv'
  BY <1>17 DEF Storage!DeleteOrphan
<1>18. ASSUME NEW c \in Cleaner, Storage!EndScan(c) PROVE StorageIInv'
  BY <1>18 DEF Storage!EndScan
<1> QED
  BY <1>1, <1>2, <1>3, <1>4, <1>5, <1>6, <1>7, <1>8, <1>9, <1>10, <1>11, <1>12, <1>13, <1>14,
     <1>15, <1>16, <1>17, <1>18 DEF Storage!Next

\* However many uploads, tools and cleaners there are: no cleaner removes a file that
\* a row of the database names or may come to name, nor one in its writer's hands.
THEOREM FilesAreKept == DurableSpec => []FilesKept
<1>1. StorageIInv /\ [DurableNext]_durable => StorageIInv'
  <2>1. StorageIInv /\ UNCHANGED storage => StorageIInv'
    BY DEF storage, StorageIInv, Storage!StorageTypeOK, Storage!RegisteredFileKept,
           Storage!WorkInHandKept, LeasesExclude, CandidatesUnregistered, RowsFollowPublication,
           Storage!SharesOrphan, Storage!SharesStaging, Storage!SharesTemp
  <2> QED
    BY <2>1, StorageStepInv, OthersRest
<1>2. StorageIInv => FilesKept
  BY DEF StorageIInv, FilesKept
<1> QED
  BY StorageInit, <1>1, <1>2, PTL DEF DurableSpec
-----------------------------------------------------------------------------
(***************************************************************************)
(* UsageLedger.  A row that is not final has no final record, one that was *)
(* finalised in order has the observation in it, and nothing is finalised  *)
(* while the job runs: so its intent and its result stand by then.         *)
(***************************************************************************)
Tracked == [state : {"none", "STARTED", "OBSERVED", "FINALIZED"},
            seen : BOOLEAN, recovered : BOOLEAN, late : BOOLEAN]
Recorded == [exists : BOOLEAN, seen : BOOLEAN, run : BOOLEAN]
Reconciling == [at : Ledger!Attempt \cup {0}, prepared : Recorded]

HandlerInOrder ==
    /\ step = "idle" => job = "RUNNING"
    /\ step = "sleeping" => n <= Retries
    /\ step \in {"calling", "finishing"} => n \in asked

RowsMatchRecords ==
    \A a \in Ledger!Attempt :
        /\ tracker[a].state = "OBSERVED" => tracker[a].seen
        /\ tracker[a].state = "FINALIZED" <=> final[a].exists
        /\ tracker[a].state = "FINALIZED" /\ ~tracker[a].recovered => final[a].seen

PassesAreDue == \A p \in Pass : pass[p].at # 0 => Ledger!Terminal

LedgerIInv ==
    /\ Ledger!LedgerTypeOK
    /\ Ledger!BooksAgree
    /\ HandlerInOrder
    /\ RowsMatchRecords
    /\ PassesAreDue

LEMMA LedgerInit == DurableInit => LedgerIInv
<1> SUFFICES ASSUME Ledger!Init PROVE LedgerIInv
  BY DEF DurableInit
<1> USE DurableAssumption DEF DurableAssumption, Ledger!LedgerAssumption, Ledger!Init,
       Ledger!NoRow, Ledger!NoFinal, Ledger!Resting, Ledger!Attempt
<1>1. Ledger!LedgerTypeOK
  <2>1. Ledger!NoRow \in Tracked /\ Ledger!NoFinal \in Recorded
    BY DEF Tracked, Recorded
  <2>2. Ledger!Resting \in Reconciling
    BY <2>1 DEF Reconciling
  <2>3. /\ tracker \in [Ledger!Attempt -> Tracked] /\ final \in [Ledger!Attempt -> Recorded]
        /\ pass \in [Pass -> Reconciling] /\ n \in Ledger!Attempt
    <3> HIDE DEF Ledger!NoRow, Ledger!NoFinal, Ledger!Resting
    <3> QED
      BY <2>1, <2>2
  <2> QED
    BY <2>3 DEF Ledger!LedgerTypeOK, Ledger!Transient, Tracked, Recorded, Reconciling
<1>2. Ledger!BooksAgree
  BY DEF Ledger!BooksAgree, Ledger!EveryRequestTracked, Ledger!FinalNamesProducedRun,
         Ledger!ObservationKept
<1> QED
  BY <1>1, <1>2 DEF LedgerIInv, HandlerInOrder, RowsMatchRecords, PassesAreDue, Ledger!Terminal

\* The steps of the handler, but for what the books have to say.
LEMMA LedgerHandlerInv ==
  ASSUME LedgerIInv,
         \/ \E kind \in {"run", "direct"} : Ledger!Begin(kind)
         \/ Ledger!Decide \/ Ledger!UsageFails \/ Ledger!Retry \/ Ledger!SpendBudget
         \/ \E said \in {"ok", "broken"} \cup Ledger!Transient : Ledger!Answered(said)
         \/ \E s \in {"PRODUCED", "EMPTY"} : Ledger!RecordResult(s)
         \/ Ledger!Crash \/ Ledger!SweepJob
  PROVE  LedgerIInv'
<1> USE DurableAssumption DEF DurableAssumption, Ledger!LedgerAssumption, LedgerIInv,
       Ledger!LedgerTypeOK, Ledger!BooksAgree, Ledger!EveryRequestTracked,
       Ledger!FinalNamesProducedRun, Ledger!ObservationKept, HandlerInOrder, RowsMatchRecords,
       PassesAreDue, Ledger!Attempt, Ledger!Transient, Ledger!Terminal, Ledger!handler
<1>1. ASSUME NEW kind \in {"run", "direct"}, Ledger!Begin(kind) PROVE LedgerIInv'
  BY <1>1 DEF Ledger!Begin
<1>2. ASSUME Ledger!Decide PROVE LedgerIInv'
  BY <1>2 DEF Ledger!Decide
<1>3. ASSUME Ledger!UsageFails PROVE LedgerIInv'
  BY <1>3 DEF Ledger!UsageFails
<1>4. ASSUME Ledger!Retry PROVE LedgerIInv'
  BY <1>4 DEF Ledger!Retry
<1>5. ASSUME Ledger!SpendBudget PROVE LedgerIInv'
  BY <1>5 DEF Ledger!SpendBudget
<1>6. ASSUME NEW said \in {"ok", "broken"} \cup Ledger!Transient, Ledger!Answered(said)
      PROVE  LedgerIInv'
  BY <1>6 DEF Ledger!Answered
<1>7. ASSUME NEW s \in {"PRODUCED", "EMPTY"}, Ledger!RecordResult(s) PROVE LedgerIInv'
  BY <1>7 DEF Ledger!RecordResult
<1>8. ASSUME Ledger!Crash PROVE LedgerIInv'
  BY <1>8 DEF Ledger!Crash, Ledger!Resting, Ledger!NoFinal
<1>9. ASSUME Ledger!SweepJob PROVE LedgerIInv'
  BY <1>9 DEF Ledger!SweepJob
<1> QED
  BY <1>1, <1>2, <1>3, <1>4, <1>5, <1>6, <1>7, <1>8, <1>9

\* `begin` and `finish`, acknowledged or not.
LEMMA LedgerBookInv ==
  ASSUME LedgerIInv, NEW ack \in BOOLEAN, Ledger!BeginUsage(ack) \/ Ledger!FinishUsage(ack)
  PROVE  LedgerIInv'
<1> USE DurableAssumption DEF DurableAssumption, Ledger!LedgerAssumption, LedgerIInv,
       Ledger!LedgerTypeOK, Ledger!BooksAgree, Ledger!EveryRequestTracked,
       Ledger!FinalNamesProducedRun, Ledger!ObservationKept, HandlerInOrder, RowsMatchRecords,
       PassesAreDue, Ledger!Attempt, Ledger!Transient, Ledger!Terminal, Tracked, Recorded, Reconciling
<1>1. ASSUME Ledger!BeginUsage(ack) PROVE LedgerIInv'
  <2> DEFINE begun == IF tracker[n].state = "none" THEN [tracker[n] EXCEPT !.state = "STARTED"]
                      ELSE tracker[n]
  <2>1. /\ tracker' = [tracker EXCEPT ![n] = begun]
        /\ \/ step' = "calling" /\ asked' = asked \cup {n}
           \/ step' = "beginning" /\ asked' = asked
        /\ UNCHANGED <<intent, n, answer, exhausted, kept, job, final, pass>>
    BY <1>1, Zenon DEF Ledger!BeginUsage
  <2>2. /\ begun \in Tracked
        /\ begun.state # "none" /\ begun.state \in {tracker[n].state, "STARTED"}
        /\ begun.state = "STARTED" => tracker[n].state \in {"none", "STARTED"}
        /\ begun.seen = tracker[n].seen /\ begun.late = tracker[n].late
        /\ begun.recovered = tracker[n].recovered
    OBVIOUS
  <2> HIDE DEF begun
  <2>3. Ledger!LedgerTypeOK'
    BY <2>1, <2>2
  <2>4. Ledger!EveryRequestTracked' /\ Ledger!FinalNamesProducedRun' /\ Ledger!ObservationKept'
    BY <2>1, <2>2
  <2>5. HandlerInOrder' /\ RowsMatchRecords' /\ PassesAreDue'
    BY <2>1, <2>2
  <2> QED
    BY <2>3, <2>4, <2>5
<1>2. ASSUME Ledger!FinishUsage(ack) PROVE LedgerIInv'
  <2> DEFINE seen == Ledger!Finished(tracker[n])
  <2>1. /\ step = "finishing" /\ ~Ledger!FinishRefused(tracker[n])
        /\ tracker' = [tracker EXCEPT ![n] = seen]
        /\ \/ step' = Ledger!AfterAttempt /\ kept' = kept \cup {n}
           \/ step' = "finishing" /\ kept' = kept
        /\ UNCHANGED <<intent, n, answer, exhausted, asked, job, final, pass>>
    BY <1>2 DEF Ledger!FinishUsage
  <2>2. /\ n \in asked /\ n \in Ledger!Attempt /\ tracker[n].state # "none"
        /\ tracker[n] \in Tracked
    BY <2>1
  <2>3. /\ seen \in Tracked
        /\ seen.state # "none" /\ seen.seen
        /\ seen.state = "FINALIZED" <=> tracker[n].state = "FINALIZED"
        /\ seen.recovered = tracker[n].recovered
        /\ seen.state = "FINALIZED" => seen.late \/ ~seen.recovered
        /\ tracker[n].late => seen.late
    BY <2>1, <2>2 DEF Ledger!Finished, Ledger!FinishRefused
  <2>4. /\ Ledger!AfterAttempt \in {"returned", "sleeping", "failed"}
        /\ Ledger!AfterAttempt = "sleeping" => n <= Retries
    BY DEF Ledger!AfterAttempt
  <2> HIDE DEF seen
  <2>5. Ledger!LedgerTypeOK'
    BY <2>1, <2>2, <2>3, <2>4
  <2>6. Ledger!EveryRequestTracked' /\ Ledger!FinalNamesProducedRun'
    BY <2>1, <2>2, <2>3
  <2>7. Ledger!ObservationKept'
    <3> SUFFICES ASSUME NEW a \in kept'
                 PROVE  tracker'[a].seen /\ (final[a].exists /\ ~final[a].seen => tracker'[a].late)
      BY <2>1
    <3>1. CASE a = n
      BY <2>1, <2>2, <2>3, <3>1
    <3>2. CASE a # n
      BY <2>1, <2>2, <3>2, ZenonT(40)
    <3> QED
      BY <3>1, <3>2
  <2>8. HandlerInOrder' /\ PassesAreDue'
    BY <2>1, <2>2, <2>4
  <2>9. RowsMatchRecords'
    BY <2>1, <2>2, <2>3
  <2> QED
    BY <2>5, <2>6, <2>7, <2>8, <2>9
<1> QED
  BY <1>1, <1>2

\* The passes of reconciliation.
LEMMA LedgerPassInv ==
  ASSUME LedgerIInv, NEW p \in Pass,
         Ledger!Reconcile(p) \/ \E a \in Ledger!Attempt : Ledger!PickUsage(p, a)
  PROVE  LedgerIInv'
<1> USE DurableAssumption DEF DurableAssumption, Ledger!LedgerAssumption, LedgerIInv,
       Ledger!LedgerTypeOK, Ledger!BooksAgree, Ledger!EveryRequestTracked,
       Ledger!FinalNamesProducedRun, Ledger!ObservationKept, HandlerInOrder, RowsMatchRecords,
       PassesAreDue, Ledger!Attempt, Ledger!Transient, Ledger!Terminal, Ledger!handler,
       Ledger!Resting, Ledger!NoFinal, Tracked, Recorded, Reconciling
<1> DEFINE at == pass[p].at
           record == Ledger!Prepared(at)
<1>1. ASSUME Ledger!CanFinalize(p)
      PROVE  /\ at \in Ledger!Attempt /\ Ledger!Terminal /\ tracker[at].state # "FINALIZED"
             /\ record \in Recorded
             /\ record.exists /\ record.seen = tracker[at].seen
             /\ record.run <=> intent = "run" /\ job = "PRODUCED"
             /\ ~final[at].exists
  <2>1. at \in Ledger!Attempt /\ at # 0 /\ tracker[at].state # "FINALIZED"
    BY <1>1 DEF Ledger!CanFinalize
  <2> QED
    BY <2>1 DEF Ledger!Prepared, Ledger!Relationship
<1>2. ASSUME NEW ack \in BOOLEAN, Ledger!Finalize(p, ack) PROVE LedgerIInv'
  <2> DEFINE entry == [tracker[at] EXCEPT !.state = "FINALIZED", !.recovered = Ledger!Recovery(p, at)]
  <2>1. /\ tracker' = [tracker EXCEPT ![at] = entry]
        /\ final' = [final EXCEPT ![at] = record]
        /\ pass' = [pass EXCEPT ![p] = IF ack THEN Ledger!Resting ELSE [@ EXCEPT !.prepared = record]]
        /\ UNCHANGED <<step, intent, n, answer, exhausted, asked, kept, job>>
    BY <1>2, ZenonT(40) DEF Ledger!Finalize
  <2>2. Ledger!CanFinalize(p)
    BY <1>2 DEF Ledger!Finalize
  <2>3. /\ entry \in Tracked
        /\ entry.state = "FINALIZED" /\ entry.seen = tracker[at].seen /\ entry.late = tracker[at].late
        /\ ~entry.recovered => entry.seen
    <3>1. Ledger!Recovery(p, at) \in BOOLEAN /\ (~Ledger!Recovery(p, at) => tracker[at].seen)
      BY <1>1, <2>2 DEF Ledger!Recovery
    <3>2. tracker[at] \in Tracked
      BY <1>1, <2>2
    <3> HIDE DEF at
    <3> QED
      BY <3>1, <3>2
  <2> HIDE DEF at, record, entry
  <2>4. Ledger!LedgerTypeOK'
    <3>1. /\ tracker' \in [Ledger!Attempt -> Tracked]
          /\ final' \in [Ledger!Attempt -> Recorded]
      BY <1>1, <2>1, <2>2, <2>3
    <3>2. pass' \in [Pass -> Reconciling]
      <4>0. record \in Recorded /\ pass[p] \in Reconciling
        BY <1>1, <2>2
      <4>1. [pass[p] EXCEPT !.prepared = record] \in Reconciling /\ Ledger!Resting \in Reconciling
        BY <4>0
      <4> HIDE DEF Reconciling, Ledger!Resting
      <4>2. pass \in [Pass -> Reconciling]
        BY DEF Reconciling
      <4> QED
        BY <2>1, <4>1, <4>2
    <3> QED
      BY <2>1, <3>1, <3>2
  <2>5. Ledger!EveryRequestTracked' /\ Ledger!FinalNamesProducedRun' /\ Ledger!ObservationKept'
    BY <1>1, <2>1, <2>2, <2>3
  <2>6. HandlerInOrder' /\ RowsMatchRecords'
    BY <1>1, <2>1, <2>2, <2>3
  <2>7. PassesAreDue'
    BY <1>1, <2>1, <2>2
  <2> QED
    BY <2>4, <2>5, <2>6, <2>7
<1>5. ASSUME Ledger!FinalizeRollsBack(p) PROVE LedgerIInv'
  <2>1. /\ pass' = [pass EXCEPT ![p].prepared = record]
        /\ UNCHANGED <<step, intent, n, answer, exhausted, asked, kept, job, tracker, final>>
        /\ Ledger!CanFinalize(p)
    BY <1>5 DEF Ledger!FinalizeRollsBack
  <2>2. pass' = [pass EXCEPT ![p] = [pass[p] EXCEPT !.prepared = record]]
    BY <2>1
  <2>3. [pass[p] EXCEPT !.prepared = record] \in Reconciling
    <3>1. pass[p] \in Reconciling
      OBVIOUS
    <3>2. record \in Recorded
      <4>1. at \in Ledger!Attempt
        BY <1>1, <2>1
      <4>2. record = [exists |-> TRUE, seen |-> tracker[at].seen, run |-> Ledger!Relationship.run]
        BY Zenon DEF Ledger!Prepared
      <4>3. Ledger!Relationship.run \in BOOLEAN
        BY DEF Ledger!Relationship
      <4> HIDE DEF at, record
      <4>4. tracker[at].seen \in BOOLEAN
        BY <4>1
      <4> QED
        BY <4>2, <4>3, <4>4
    <3> HIDE DEF record, Recorded
    <3> QED
      BY <3>1, <3>2
  <2>4. pass' \in [Pass -> Reconciling]
    <3> HIDE DEF Reconciling, record
    <3>1. pass \in [Pass -> Reconciling]
      BY DEF Reconciling
    <3> QED
      BY <2>2, <2>3, <3>1
  <2>5. Ledger!LedgerTypeOK' /\ PassesAreDue'
    <3> HIDE DEF at, record
    <3>1. \A q \in Pass : pass'[q].at = pass[q].at
      BY <2>2
    <3> QED
      BY <2>1, <2>4, <3>1
  <2> QED
    BY <2>1, <2>5
<1>3. ASSUME Ledger!LeaveUsage(p) PROVE LedgerIInv'
  BY <1>3 DEF Ledger!LeaveUsage
<1>4. ASSUME NEW a \in Ledger!Attempt, Ledger!PickUsage(p, a) PROVE LedgerIInv'
  BY <1>4 DEF Ledger!PickUsage
<1> QED
  BY <1>2, <1>3, <1>4, <1>5 DEF Ledger!Reconcile, Ledger!Acknowledged

\* For any number of retries and of passes: no request without a row, no final record
\* that names a run the job did not produce, no confirmed observation lost.
THEOREM BooksStayInAgreement == DurableSpec => []BooksAgree
<1>1. LedgerIInv /\ Ledger!Next => LedgerIInv'
  BY LedgerHandlerInv, LedgerBookInv, LedgerPassInv
     DEF Ledger!Next, Ledger!HandlerStep, Ledger!Acknowledged
<1>2. LedgerIInv /\ UNCHANGED ledger => LedgerIInv'
  BY DEF ledger, LedgerIInv, Ledger!LedgerTypeOK, Ledger!BooksAgree, Ledger!EveryRequestTracked,
         Ledger!FinalNamesProducedRun, Ledger!ObservationKept, HandlerInOrder, RowsMatchRecords,
         PassesAreDue, Ledger!Terminal
<1>3. LedgerIInv /\ [DurableNext]_durable => LedgerIInv'
  BY <1>1, <1>2, OthersRest
<1>4. LedgerIInv => BooksAgree
  BY DEF LedgerIInv, BooksAgree
<1> QED
  BY LedgerInit, <1>3, <1>4, PTL DEF DurableSpec

-----------------------------------------------------------------------------
(***************************************************************************)
(* ProbeSession.  While the host acts no recovery is past its check, and   *)
(* what a recovery has established nobody else undoes before it ends; the  *)
(* receipt is true for good, since no host passes its gate while a service *)
(* runs.                                                                   *)
(***************************************************************************)
Leftover == {r \in Probe!Resource : used[r] # "absent"}
HostActs == host.step \notin {"none", "stuck"}
PastGate == host.step \in {"attempt", "work", "clean"}
PastCheck == restore.step \in {"clean", "running", "services", "receipt", "unlock", "rmdir"}
PastCleaning == restore.step \in {"running", "services", "receipt", "unlock", "rmdir"}
PastContainers == restore.step \in {"services", "receipt", "unlock", "rmdir"}
PastReady == restore.step \in {"receipt", "unlock", "rmdir"}

FilesRecord ==
    [host : Nat, attempt : BOOLEAN, result : {"none", "PASS", "FAIL"},
     outcome : {"none", "PASS", "REVIEW_REQUIRED"}, window : BOOLEAN, receipt : BOOLEAN]
SessionRecord == [step : {"idle", "record", "host", "recover", "post", "gone"}, passed : BOOLEAN]
HostRecord ==
    [step : {"none", "gate", "attempt", "work", "clean", "stuck"}, run : Nat, at : Nat,
     todo : SUBSET Probe!Resource, passed : BOOLEAN]
RestoreSteps ==
    {"none", "check", "clean", "running", "services", "receipt", "unlock", "rmdir", "end"}
RestoreRecord ==
    [by : {"none", "unit", "operator"}, step : RestoreSteps,
     todo : SUBSET Probe!Resource, service : Nat, passed : BOOLEAN]

ProbeTyped ==
    /\ Probe!ProbeTypeOK
    /\ files \in FilesRecord /\ session \in SessionRecord
    /\ host \in HostRecord /\ restore \in RestoreRecord
    /\ runs \in Nat /\ troubles \in Nat

\* Whose turn it is: a host that acts is the child of a session that waits for it,
\* and is noted once the session does; a recovery that is past its check has seen
\* that no host acts.
TurnsTaken ==
    /\ HostActs => session.step \in {"record", "host"}
    /\ HostActs /\ session.step = "host" => files.host = host.run
    /\ session.step = "record" => restore.step = "none"
    /\ restore.step # "none" => restore.by \in {"unit", "operator"}
    /\ restore.step # "none" /\ restore.by = "unit" => session.step \in {"recover", "post"}
    /\ restore.step = "end" => restore.by = "unit"
    /\ PastCheck => ~HostActs

\* What the host knows of the resources it has made.
HostInOrder ==
    /\ PastGate => services = {} /\ lock = "ours" /\ files.result = "none"
    /\ host.step \in {"attempt", "work"} \/ (host.step = "clean" /\ host.passed)
          => Leftover \subseteq host.todo
    /\ host.step = "work" /\ host.at \in DOMAIN Probe!Plan /\ Probe!Plan[host.at][1] # "create"
          => Probe!Plan[host.at][2] \in host.todo

\* What each step of a recovery may rely on.
RestoreInOrder ==
    /\ restore.step = "clean" /\ restore.passed => Leftover \subseteq restore.todo
    /\ PastCleaning => Leftover = {}
    /\ PastContainers => earlier # "running"
    /\ PastReady => services = prior /\ prior # {}
    /\ restore.step \in {"unlock", "rmdir"} => files.receipt
    /\ restore.step = "end" /\ restore.passed => lock # "ours"

\* The receipt and the exit code of the host are true for good.
RecordsTrue ==
    /\ services \subseteq prior
    /\ files.receipt => services = prior /\ prior # {} /\ Leftover = {}
    /\ session.passed => files.result = "PASS"

ProbeIInv ==
    /\ ProbeTyped
    /\ Probe!NeverTogether
    /\ Probe!LockHeld
    /\ Probe!VerdictsTrue
    /\ TurnsTaken
    /\ HostInOrder
    /\ RestoreInOrder
    /\ RecordsTrue

\* The stage: what is started, waited for or removed was created before, and nothing
\* is used after it was removed.
LEMMA PlanFacts ==
  /\ \A i \in DOMAIN Probe!Plan :
        /\ i \in 1 .. 12
        /\ Probe!Plan[i][1] \in {"create", "start", "wait", "remove"}
        /\ Probe!Plan[i][2] \in Probe!Resource
        /\ i + 1 \in DOMAIN Probe!Plan /\ Probe!Plan[i + 1][1] # "create"
              => Probe!Plan[i][2] = Probe!Plan[i + 1][2] /\ Probe!Plan[i][1] # "remove"
  /\ Probe!Plan[1][1] = "create"
<1>1. DOMAIN Probe!Plan = 1 .. 12
  BY DEF Probe!Plan
<1>2. ASSUME NEW i \in 1 .. 12
      PROVE  /\ Probe!Plan[i][1] \in {"create", "start", "wait", "remove"}
             /\ Probe!Plan[i][2] \in Probe!Resource
             /\ i + 1 \in 1 .. 12 /\ Probe!Plan[i + 1][1] # "create"
                   => Probe!Plan[i][2] = Probe!Plan[i + 1][2] /\ Probe!Plan[i][1] # "remove"
  BY DEF Probe!Plan, Probe!Resource
<1> QED
  BY <1>1, <1>2 DEF Probe!Plan

\* How the record of a recovery moves.
LEMMA RestoreFields ==
  ASSUME restore \in RestoreRecord
  PROVE  /\ Probe!NoRestore \in RestoreRecord /\ Probe!NoRestore.step = "none"
         /\ \A s \in RestoreSteps : Probe!Goto(s) =>
              /\ restore' \in RestoreRecord /\ restore'.step = s /\ restore'.by = restore.by
              /\ restore'.passed = restore.passed
         /\ \A by \in {"unit", "operator"} : Probe!BeginRestore(by) =>
              restore' \in RestoreRecord /\ restore'.step = "check" /\ restore'.by = by
         /\ \A by \in {"none", "unit", "operator"}, passed \in BOOLEAN : Probe!Finish(by, passed) =>
              /\ restore' \in RestoreRecord
              /\ \/ restore'.step = "none"
                 \/ /\ restore'.step = "end" /\ restore'.by = by /\ by # "operator"
                    /\ restore'.passed = passed
         /\ Probe!Fail =>
              /\ restore' \in RestoreRecord
              /\ \/ restore'.step = "none"
                 \/ /\ restore'.step = "end" /\ restore'.by = restore.by /\ restore.by # "operator"
                    /\ ~restore'.passed
         /\ \A r : Probe!RestoreLeaves(r) =>
              /\ restore' \in RestoreRecord /\ restore'.step = restore.step
              /\ restore'.by = restore.by /\ ~restore'.passed
<1> USE DEF RestoreRecord, RestoreSteps
<1>1. Probe!NoRestore \in RestoreRecord /\ Probe!NoRestore.step = "none"
  BY DEF Probe!NoRestore
<1>2. ASSUME NEW s \in RestoreSteps, Probe!Goto(s)
      PROVE  /\ restore' \in RestoreRecord /\ restore'.step = s /\ restore'.by = restore.by
             /\ restore'.passed = restore.passed
  BY <1>2 DEF Probe!Goto
<1>3. ASSUME NEW by \in {"unit", "operator"}, Probe!BeginRestore(by)
      PROVE  restore' \in RestoreRecord /\ restore'.step = "check" /\ restore'.by = by
  BY <1>3 DEF Probe!BeginRestore, Probe!NoRestore
<1>4. ASSUME NEW by \in {"none", "unit", "operator"}, NEW passed \in BOOLEAN, Probe!Finish(by, passed)
      PROVE  /\ restore' \in RestoreRecord
             /\ \/ restore'.step = "none"
                \/ /\ restore'.step = "end" /\ restore'.by = by /\ by # "operator"
                   /\ restore'.passed = passed
  BY <1>4 DEF Probe!Finish, Probe!NoRestore
<1>5. restore.by \in {"none", "unit", "operator"}
  OBVIOUS
<1>6. ASSUME NEW r, Probe!RestoreLeaves(r)
      PROVE  /\ restore' \in RestoreRecord /\ restore'.step = restore.step
             /\ restore'.by = restore.by /\ ~restore'.passed
  BY <1>6 DEF Probe!RestoreLeaves
<1> QED
  BY <1>1, <1>2, <1>3, <1>4, <1>5, <1>6 DEF Probe!Fail

\* How the record of the host moves.
LEMMA HostFields ==
  ASSUME host \in HostRecord
  PROVE  /\ Probe!NoHost \in HostRecord /\ Probe!NoHost.step = "none"
         /\ \A s \in {"attempt", "work", "clean", "stuck"} :
              /\ [host EXCEPT !.step = s] \in HostRecord /\ [host EXCEPT !.step = s].step = s
              /\ [host EXCEPT !.step = s].run = host.run /\ [host EXCEPT !.step = s].at = host.at
              /\ [host EXCEPT !.step = s].todo = host.todo
              /\ [host EXCEPT !.step = s].passed = host.passed
         /\ \A r : Probe!HostLeaves(r) =>
              /\ host' \in HostRecord /\ host'.step = host.step /\ host'.run = host.run
              /\ ~host'.passed
         /\ \A r : Probe!HostDoneWith(r) =>
              /\ host' \in HostRecord /\ host'.step = host.step /\ host'.run = host.run
              /\ host'.todo = host.todo \ {r} /\ host'.passed = host.passed
<1> USE DEF HostRecord
<1>1. Probe!NoHost \in HostRecord /\ Probe!NoHost.step = "none"
  BY DEF Probe!NoHost
<1>2. ASSUME NEW s \in {"attempt", "work", "clean", "stuck"}
      PROVE  /\ [host EXCEPT !.step = s] \in HostRecord /\ [host EXCEPT !.step = s].step = s
             /\ [host EXCEPT !.step = s].run = host.run /\ [host EXCEPT !.step = s].at = host.at
             /\ [host EXCEPT !.step = s].todo = host.todo
             /\ [host EXCEPT !.step = s].passed = host.passed
  OBVIOUS
<1>3. ASSUME NEW r, Probe!HostLeaves(r)
      PROVE  /\ host' \in HostRecord /\ host'.step = host.step /\ host'.run = host.run
             /\ ~host'.passed
  BY <1>3 DEF Probe!HostLeaves
<1>4. ASSUME NEW r, Probe!HostDoneWith(r)
      PROVE  /\ host' \in HostRecord /\ host'.step = host.step /\ host'.run = host.run
             /\ host'.todo = host.todo \ {r} /\ host'.passed = host.passed
  BY <1>4 DEF Probe!HostDoneWith
<1> QED
  BY <1>1, <1>2, <1>3, <1>4

LEMMA ProbeInit == DurableInit => ProbeIInv
<1> SUFFICES ASSUME Probe!Init PROVE ProbeIInv
  BY DEF DurableInit
<1> QED
  BY DurableAssumption
     DEF DurableAssumption, Probe!ProbeAssumption, Probe!Init, Probe!NoHost, Probe!NoRestore,
         Probe!Services, Probe!Resource, Probe!Container, ProbeIInv, ProbeTyped, FilesRecord,
         SessionRecord, HostRecord, RestoreRecord, RestoreSteps, Probe!ProbeTypeOK,
         Probe!NeverTogether, Probe!LockHeld, Probe!VerdictsTrue, Probe!Running, TurnsTaken, HostInOrder,
         RestoreInOrder, RecordsTrue, Leftover, HostActs, PastGate, PastCheck, PastCleaning,
         PastContainers, PastReady

\* The unit, its session and what ends them; the operator and others.
LEMMA ProbeSessionInv ==
  ASSUME ProbeIInv,
         \/ Probe!StartUnit \/ Probe!RefuseUnit \/ Probe!RecordHost \/ Probe!HostEnded
         \/ \E gone \in BOOLEAN : Probe!StopHost(gone) \/ Probe!KillUnit(gone)
         \/ Probe!RestoreOfUnit \/ Probe!EndOfRestore
         \/ Probe!HostGone \/ Probe!KillHost \/ Probe!Reboot
         \/ Probe!CallRestore \/ Probe!StopEarlier \/ Probe!OtherOperation
  PROVE  ProbeIInv'
<1> USE DEF ProbeIInv, Probe!NeverTogether, Probe!LockHeld, Probe!VerdictsTrue, Probe!Running,
       TurnsTaken, HostInOrder, RestoreInOrder, RecordsTrue, Leftover, HostActs, PastGate, PastCheck,
       PastCleaning, PastContainers, PastReady
<1>0. /\ host \in HostRecord /\ restore \in RestoreRecord
      /\ session \in SessionRecord /\ files \in FilesRecord
      /\ used \in [Probe!Resource -> {"absent", "made", "running"}]
      /\ runs \in Nat /\ troubles \in Nat /\ MaxRuns \in Nat /\ MaxTroubles \in Nat
  BY DurableAssumption DEF ProbeTyped, Probe!ProbeTypeOK, DurableAssumption, Probe!ProbeAssumption
<1>1. ASSUME Probe!StartUnit PROVE ProbeIInv'
  <2>1. /\ restore.step = "none" /\ host.step = "none" /\ files.result = "none"
        /\ session' \in SessionRecord /\ session'.step = "record" /\ ~session'.passed
        /\ host' \in HostRecord /\ host'.step = "gate"
        /\ runs' \in Nat /\ runs' <= MaxRuns
        /\ UNCHANGED <<prior, services, used, earlier, files, lock, restore, troubles>>
    <3>1. host' \in HostRecord /\ host'.step = "gate"
      <4>1. host' = [step |-> "gate", run |-> runs + 1, at |-> 0, todo |-> {}, passed |-> FALSE]
        BY <1>1 DEF Probe!StartUnit, Probe!NoHost
      <4> QED
        BY <1>0, <4>1 DEF HostRecord
    <3>2. session' \in SessionRecord /\ session'.step = "record" /\ ~session'.passed
      BY <1>1 DEF Probe!StartUnit, SessionRecord
    <3> QED
      BY <1>0, <1>1, <3>1, <3>2 DEF Probe!StartUnit, Probe!Restoring, Probe!HostAlive
  <2>2. ProbeTyped'
    BY <1>0, <2>1 DEF ProbeTyped, Probe!ProbeTypeOK
  <2>3. TurnsTaken' /\ HostInOrder'
    BY <1>0, <2>1
  <2>4. RestoreInOrder' /\ RecordsTrue'
    BY <1>0, <2>1
  <2>5. Probe!NeverTogether' /\ Probe!LockHeld' /\ Probe!VerdictsTrue'
    BY <1>0, <2>1
  <2> QED
    BY <2>2, <2>3, <2>4, <2>5
<1>2. ASSUME Probe!RefuseUnit PROVE ProbeIInv'
  <2>1. /\ restore.step = "none" /\ host.step = "none"
        /\ session' \in SessionRecord /\ session'.step = "post" /\ ~session'.passed
        /\ runs' \in Nat /\ runs' <= MaxRuns
        /\ UNCHANGED <<prior, services, used, earlier, files, lock, host, restore, troubles>>
    BY <1>0, <1>2, HostFields, RestoreFields DEF Probe!RefuseUnit, Probe!Restoring, Probe!HostAlive, SessionRecord
  <2>2. ProbeTyped'
    BY <1>0, <2>1 DEF ProbeTyped, Probe!ProbeTypeOK
  <2>3. TurnsTaken' /\ HostInOrder'
    BY <1>0, <2>1
  <2>4. RestoreInOrder' /\ RecordsTrue'
    BY <1>0, <2>1
  <2>5. Probe!NeverTogether' /\ Probe!LockHeld' /\ Probe!VerdictsTrue'
    BY <1>0, <2>1
  <2> QED
    BY <2>2, <2>3, <2>4, <2>5
<1>3. ASSUME Probe!RecordHost PROVE ProbeIInv'
  <2>1. /\ session.step = "record"
        /\ files' \in FilesRecord /\ files'.host = host.run /\ files'.result = files.result
        /\ files'.outcome = files.outcome /\ files'.receipt = files.receipt
        /\ session' \in SessionRecord /\ session'.step = "host" /\ session'.passed = session.passed
        /\ UNCHANGED <<prior, services, used, earlier, lock, host, restore, runs, troubles>>
    BY <1>0, <1>3, HostFields, RestoreFields DEF Probe!RecordHost, FilesRecord, SessionRecord, HostRecord
  <2>2. ProbeTyped'
    BY <1>0, <2>1 DEF ProbeTyped, Probe!ProbeTypeOK
  <2>3. TurnsTaken' /\ HostInOrder'
    BY <1>0, <2>1
  <2>4. RestoreInOrder' /\ RecordsTrue'
    BY <1>0, <2>1
  <2>5. Probe!NeverTogether' /\ Probe!LockHeld' /\ Probe!VerdictsTrue'
    BY <1>0, <2>1
  <2> QED
    BY <2>2, <2>3, <2>4, <2>5
<1>4. ASSUME Probe!HostEnded PROVE ProbeIInv'
  <2>1. /\ host.step = "none" /\ session.step = "host"
        /\ session' \in SessionRecord /\ session'.step = "recover" /\ session'.passed = session.passed
        /\ UNCHANGED <<prior, services, used, earlier, files, lock, host, restore, runs, troubles>>
    BY <1>0, <1>4, HostFields, RestoreFields DEF Probe!HostEnded, Probe!HostAlive, SessionRecord
  <2>2. ProbeTyped'
    BY <1>0, <2>1 DEF ProbeTyped, Probe!ProbeTypeOK
  <2>3. TurnsTaken' /\ HostInOrder'
    BY <1>0, <2>1
  <2>4. RestoreInOrder' /\ RecordsTrue'
    BY <1>0, <2>1
  <2>5. Probe!NeverTogether' /\ Probe!LockHeld' /\ Probe!VerdictsTrue'
    BY <1>0, <2>1
  <2> QED
    BY <2>2, <2>3, <2>4, <2>5
<1>5. ASSUME NEW gone \in BOOLEAN, Probe!StopHost(gone) PROVE ProbeIInv'
  <2>1. /\ session.step \in {"record", "host"}
        /\ host' \in HostRecord /\ host'.step \in {"none", "stuck"}
        /\ session' \in SessionRecord /\ session'.step = "recover" /\ ~session'.passed
        /\ troubles' \in Nat /\ troubles' <= MaxTroubles
        /\ UNCHANGED <<prior, services, used, earlier, files, lock, restore, runs>>
    BY <1>0, <1>5, HostFields, RestoreFields
       DEF Probe!StopHost, Probe!Trouble, Probe!HostAlive, SessionRecord, ProbeTyped, Probe!ProbeTypeOK
  <2>2. ProbeTyped'
    BY <1>0, <2>1 DEF ProbeTyped, Probe!ProbeTypeOK
  <2>3. TurnsTaken' /\ HostInOrder'
    BY <1>0, <2>1
  <2>4. RestoreInOrder' /\ RecordsTrue'
    BY <1>0, <2>1
  <2>5. Probe!NeverTogether' /\ Probe!LockHeld' /\ Probe!VerdictsTrue'
    BY <1>0, <2>1
  <2> QED
    BY <2>2, <2>3, <2>4, <2>5
<1>6. ASSUME NEW gone \in BOOLEAN, Probe!KillUnit(gone) PROVE ProbeIInv'
  <2>1. /\ session.step # "post" \/ restore.by = "unit"
        /\ host' \in HostRecord /\ host'.step \in {"none", "stuck"}
        /\ session' \in SessionRecord /\ session'.step \in {"post", "gone"} /\ ~session'.passed
        /\ restore' \in RestoreRecord
        /\ restore'.step = "none" \/ (restore' = restore /\ restore.by # "unit")
        /\ troubles' \in Nat /\ troubles' <= MaxTroubles
        /\ UNCHANGED <<prior, services, used, earlier, files, lock, runs>>
    BY <1>0, <1>6, HostFields, RestoreFields
       DEF Probe!KillUnit, Probe!Trouble, Probe!HostAlive, SessionRecord, ProbeTyped, Probe!ProbeTypeOK
  <2>2. ProbeTyped'
    BY <1>0, <2>1 DEF ProbeTyped, Probe!ProbeTypeOK
  <2>3. TurnsTaken' /\ HostInOrder'
    BY <1>0, <2>1
  <2>4. RestoreInOrder' /\ RecordsTrue'
    BY <1>0, <2>1
  <2>5. Probe!NeverTogether' /\ Probe!LockHeld' /\ Probe!VerdictsTrue'
    BY <1>0, <2>1
  <2> QED
    BY <2>2, <2>3, <2>4, <2>5
<1>7. ASSUME Probe!RestoreOfUnit PROVE ProbeIInv'
  <2>1. /\ session.step \in {"recover", "post"} /\ restore.step = "none"
        /\ restore' \in RestoreRecord /\ restore'.by = "unit"
        /\ restore'.step = "check" \/ (restore'.step = "end" /\ ~restore'.passed)
        /\ files' \in FilesRecord /\ files'.host = files.host /\ files'.result = files.result
        /\ files'.outcome = files.outcome /\ files'.receipt = files.receipt
        /\ UNCHANGED <<prior, services, used, earlier, lock, session, host, runs, troubles>>
    <3>1. Probe!BeginRestore("unit") \/ Probe!Finish("unit", FALSE)
      BY <1>7 DEF Probe!RestoreOfUnit
    <3>2. /\ restore' \in RestoreRecord /\ restore'.by = "unit"
          /\ restore'.step = "check" \/ (restore'.step = "end" /\ ~restore'.passed)
      <4>1. CASE Probe!BeginRestore("unit")
        BY <1>0, <4>1, RestoreFields
      <4>2. CASE Probe!Finish("unit", FALSE)
        BY <4>2 DEF Probe!Finish, Probe!NoRestore, RestoreRecord, RestoreSteps
      <4> QED
        BY <3>1, <4>1, <4>2
    <3> QED
      BY <1>0, <1>7, <3>2 DEF Probe!RestoreOfUnit, Probe!Restoring, FilesRecord
  <2>2. ProbeTyped'
    BY <1>0, <2>1 DEF ProbeTyped, Probe!ProbeTypeOK
  <2>3. TurnsTaken' /\ HostInOrder'
    BY <1>0, <2>1
  <2>4. RestoreInOrder' /\ RecordsTrue'
    BY <1>0, <2>1
  <2>5. Probe!NeverTogether' /\ Probe!LockHeld' /\ Probe!VerdictsTrue'
    BY <1>0, <2>1
  <2> QED
    BY <2>2, <2>3, <2>4, <2>5
<1>8. ASSUME Probe!EndOfRestore PROVE ProbeIInv'
  <2>1. /\ restore.step = "end"
        /\ restore' \in RestoreRecord /\ restore'.step = "none"
        /\ session' \in SessionRecord /\ session'.step \in {"post", "gone"}
        /\ session'.passed => session.passed
        /\ files' \in FilesRecord /\ files'.host = files.host /\ files'.result = files.result
        /\ files'.outcome = "PASS" => files.outcome = "PASS" \/ (session.passed /\ restore.passed)
        /\ files'.receipt = files.receipt
        /\ UNCHANGED <<prior, services, used, earlier, lock, host, runs, troubles>>
    <3>1. CASE session.step = "recover"
      BY <1>0, <1>8, <3>1, RestoreFields
         DEF Probe!EndOfRestore, Probe!Verdict, FilesRecord, SessionRecord
    <3>2. CASE session.step # "recover"
      <4>1. /\ restore.step = "end" /\ restore' = Probe!NoRestore
            /\ session' = [step |-> "gone", passed |-> FALSE]
            /\ UNCHANGED <<prior, services, used, earlier, files, lock, host, runs, troubles>>
        BY <1>8, <3>2 DEF Probe!EndOfRestore
      <4>2. session' \in SessionRecord /\ session'.step = "gone" /\ ~session'.passed
        BY <4>1 DEF SessionRecord
      <4> QED
        BY <1>0, <4>1, <4>2, RestoreFields
    <3> QED
      BY <3>1, <3>2
  <2>2. ProbeTyped'
    BY <1>0, <2>1 DEF ProbeTyped, Probe!ProbeTypeOK, FilesRecord
  <2>3. TurnsTaken' /\ HostInOrder'
    BY <1>0, <2>1
  <2>4. RestoreInOrder' /\ RecordsTrue'
    BY <1>0, <2>1
  <2>5. Probe!NeverTogether' /\ Probe!LockHeld' /\ Probe!VerdictsTrue'
    BY <1>0, <2>1
  <2> QED
    BY <2>2, <2>3, <2>4, <2>5
<1>9. ASSUME Probe!HostGone PROVE ProbeIInv'
  <2>1. /\ host' \in HostRecord /\ host'.step = "none"
        /\ UNCHANGED <<prior, services, used, earlier, files, lock, session, restore, runs, troubles>>
    BY <1>0, <1>9, HostFields, RestoreFields DEF Probe!HostGone
  <2>2. ProbeTyped'
    BY <1>0, <2>1 DEF ProbeTyped, Probe!ProbeTypeOK
  <2>3. TurnsTaken' /\ HostInOrder'
    BY <1>0, <2>1
  <2>4. RestoreInOrder' /\ RecordsTrue'
    BY <1>0, <2>1
  <2>5. Probe!NeverTogether' /\ Probe!LockHeld' /\ Probe!VerdictsTrue'
    BY <1>0, <2>1
  <2> QED
    BY <2>2, <2>3, <2>4, <2>5
<1>10. ASSUME Probe!KillHost PROVE ProbeIInv'
  <2>1. /\ host' \in HostRecord /\ host'.step = "none"
        /\ troubles' \in Nat /\ troubles' <= MaxTroubles
        /\ UNCHANGED <<prior, services, used, earlier, files, lock, session, restore, runs>>
    BY <1>0, <1>10, HostFields, RestoreFields DEF Probe!KillHost, Probe!Trouble, ProbeTyped, Probe!ProbeTypeOK
  <2>2. ProbeTyped'
    BY <1>0, <2>1 DEF ProbeTyped, Probe!ProbeTypeOK
  <2>3. TurnsTaken' /\ HostInOrder'
    BY <1>0, <2>1
  <2>4. RestoreInOrder' /\ RecordsTrue'
    BY <1>0, <2>1
  <2>5. Probe!NeverTogether' /\ Probe!LockHeld' /\ Probe!VerdictsTrue'
    BY <1>0, <2>1
  <2> QED
    BY <2>2, <2>3, <2>4, <2>5
<1>11. ASSUME Probe!Reboot PROVE ProbeIInv'
  <2>1. /\ used' \in [Probe!Resource -> {"absent", "made", "running"}]
        /\ \A r \in Probe!Resource : used'[r] # "running" /\ (used'[r] = "absent" <=> used[r] = "absent")
        /\ earlier' \in {"none", "stopped"}
        /\ host' \in HostRecord /\ host'.step = "none"
        /\ restore' \in RestoreRecord /\ restore'.step = "none"
        /\ session' \in SessionRecord /\ session'.step = "gone" /\ ~session'.passed
        /\ troubles' \in Nat /\ troubles' <= MaxTroubles
        /\ UNCHANGED <<prior, services, files, lock, runs>>
    BY <1>0, <1>11, HostFields, RestoreFields DEF Probe!Reboot, Probe!Trouble, SessionRecord, ProbeTyped, Probe!ProbeTypeOK
  <2>2. ProbeTyped'
    BY <1>0, <2>1 DEF ProbeTyped, Probe!ProbeTypeOK
  <2>3. TurnsTaken' /\ HostInOrder'
    BY <1>0, <2>1
  <2>4. RestoreInOrder' /\ RecordsTrue'
    BY <1>0, <2>1
  <2>5. Probe!NeverTogether' /\ Probe!LockHeld' /\ Probe!VerdictsTrue'
    BY <1>0, <2>1 DEF Probe!Container, Probe!Resource
  <2> QED
    BY <2>2, <2>3, <2>4, <2>5
<1>12. ASSUME Probe!CallRestore PROVE ProbeIInv'
  <2>1. /\ session.step \notin {"idle", "record"} /\ restore.step = "none"
        /\ restore' \in RestoreRecord /\ restore'.step = "check" /\ restore'.by = "operator"
        /\ UNCHANGED <<prior, services, used, earlier, files, lock, session, host, runs, troubles>>
    BY <1>0, <1>12, HostFields, RestoreFields DEF Probe!CallRestore, Probe!Restoring
  <2>2. ProbeTyped'
    BY <1>0, <2>1 DEF ProbeTyped, Probe!ProbeTypeOK
  <2>3. TurnsTaken' /\ HostInOrder'
    BY <1>0, <2>1
  <2>4. RestoreInOrder' /\ RecordsTrue'
    BY <1>0, <2>1
  <2>5. Probe!NeverTogether' /\ Probe!LockHeld' /\ Probe!VerdictsTrue'
    BY <1>0, <2>1
  <2> QED
    BY <2>2, <2>3, <2>4, <2>5
<1>13. ASSUME Probe!StopEarlier PROVE ProbeIInv'
  <2>1. /\ earlier' = "stopped"
        /\ UNCHANGED <<prior, services, used, files, lock, session, host, restore, runs, troubles>>
    BY <1>0, <1>13, HostFields, RestoreFields DEF Probe!StopEarlier
  <2>2. ProbeTyped'
    BY <1>0, <2>1 DEF ProbeTyped, Probe!ProbeTypeOK
  <2>3. TurnsTaken' /\ HostInOrder'
    BY <1>0, <2>1
  <2>4. RestoreInOrder' /\ RecordsTrue'
    BY <1>0, <2>1
  <2>5. Probe!NeverTogether' /\ Probe!LockHeld' /\ Probe!VerdictsTrue'
    BY <1>0, <2>1
  <2> QED
    BY <2>2, <2>3, <2>4, <2>5
<1>14. ASSUME Probe!OtherOperation PROVE ProbeIInv'
  <2>1. /\ lock # "ours" /\ lock' \in {"free", "other"}
        /\ UNCHANGED <<prior, services, used, earlier, files, session, host, restore, runs, troubles>>
    BY <1>0, <1>14, HostFields, RestoreFields DEF Probe!OtherOperation
  <2>2. ProbeTyped'
    BY <1>0, <2>1 DEF ProbeTyped, Probe!ProbeTypeOK
  <2>3. TurnsTaken' /\ HostInOrder'
    BY <1>0, <2>1
  <2>4. RestoreInOrder' /\ RecordsTrue'
    BY <1>0, <2>1
  <2>5. Probe!NeverTogether' /\ Probe!LockHeld' /\ Probe!VerdictsTrue'
    BY <1>0, <2>1
  <2> QED
    BY <2>2, <2>3, <2>4, <2>5
<1> QED
  BY <1>1, <1>2, <1>3, <1>4, <1>5, <1>6, <1>7, <1>8, <1>9, <1>10, <1>11, <1>12, <1>13, <1>14

\* The host: it works on resources it has noted, while no service runs.
LEMMA ProbeHostInv ==
  ASSUME ProbeIInv,
         \/ Probe!HostStep \/ Probe!CleanupFails \/ \E done \in BOOLEAN : Probe!StageFails(done)
  PROVE  ProbeIInv'
<1> USE DEF ProbeIInv, Probe!NeverTogether, Probe!LockHeld, Probe!VerdictsTrue, Probe!Running,
       TurnsTaken, HostInOrder, RestoreInOrder, RecordsTrue, Leftover, HostActs, PastGate, PastCheck,
       PastCleaning, PastContainers, PastReady
<1>0. /\ host \in HostRecord /\ restore \in RestoreRecord
      /\ session \in SessionRecord /\ files \in FilesRecord
      /\ used \in [Probe!Resource -> {"absent", "made", "running"}]
      /\ runs \in Nat /\ troubles \in Nat /\ MaxRuns \in Nat /\ MaxTroubles \in Nat
  BY DurableAssumption DEF ProbeTyped, Probe!ProbeTypeOK, DurableAssumption, Probe!ProbeAssumption
<1>1. ASSUME Probe!Gate PROVE ProbeIInv'
  <2>1. /\ host.step = "gate"
        /\ host' \in HostRecord
        /\ \/ host'.step = "none"
           \/ /\ host'.step = "attempt" /\ host'.run = host.run
              /\ lock = "ours" /\ services = {} /\ files.result = "none" /\ Leftover = {}
        /\ UNCHANGED <<prior, services, used, earlier, files, lock, session, restore, runs, troubles>>
    BY <1>0, <1>1, HostFields, RestoreFields DEF Probe!Gate
  <2>2. ProbeTyped'
    BY <1>0, <2>1 DEF ProbeTyped, Probe!ProbeTypeOK
  <2>3. TurnsTaken' /\ HostInOrder'
    BY <1>0, <2>1
  <2>4. RestoreInOrder' /\ RecordsTrue'
    BY <1>0, <2>1
  <2>5. Probe!NeverTogether' /\ Probe!LockHeld' /\ Probe!VerdictsTrue'
    BY <1>0, <2>1
  <2> QED
    BY <2>2, <2>3, <2>4, <2>5
<1>2. ASSUME Probe!Attempt PROVE ProbeIInv'
  <2>1. /\ host.step = "attempt"
        /\ host' \in HostRecord /\ host'.run = host.run /\ host'.todo = host.todo
        /\ host'.step \in {"clean", "work"} /\ (host'.step = "work" => host'.at = 1)
        /\ files' \in FilesRecord /\ files'.host = files.host /\ files'.receipt = files.receipt
        /\ files'.result = files.result /\ files'.outcome = files.outcome
        /\ UNCHANGED <<prior, services, used, earlier, lock, session, restore, runs, troubles>>
    <3>1. host.step = "attempt" /\ UNCHANGED <<prior, services, used, earlier, lock, session, restore, runs, troubles>>
      BY <1>2 DEF Probe!Attempt
    <3>2. CASE files.attempt
      BY <1>0, <1>2, <3>1, <3>2, HostFields DEF Probe!Attempt
    <3>3. CASE ~files.attempt
      <4>1. /\ host' = [host EXCEPT !.step = "work", !.at = 1]
            /\ files' = [files EXCEPT !.attempt = TRUE]
        BY <1>2, <3>3 DEF Probe!Attempt
      <4>2. host' \in HostRecord /\ host'.run = host.run /\ host'.todo = host.todo
            /\ host'.step = "work" /\ host'.at = 1
        BY <1>0, <4>1 DEF HostRecord
      <4>3. /\ files' \in FilesRecord /\ files'.host = files.host /\ files'.receipt = files.receipt
            /\ files'.result = files.result /\ files'.outcome = files.outcome
        BY <1>0, <4>1 DEF FilesRecord
      <4> QED
        BY <3>1, <4>2, <4>3
    <3> QED
      BY <3>2, <3>3
  <2>2. ProbeTyped'
    BY <1>0, <2>1 DEF ProbeTyped, Probe!ProbeTypeOK, FilesRecord
  <2>3. TurnsTaken' /\ HostInOrder'
    BY <1>0, <2>1, PlanFacts
  <2>4. RestoreInOrder' /\ RecordsTrue'
    BY <1>0, <2>1
  <2>5. Probe!NeverTogether' /\ Probe!LockHeld' /\ Probe!VerdictsTrue'
    BY <1>0, <2>1
  <2> QED
    BY <2>2, <2>3, <2>4, <2>5
<1>3. ASSUME Probe!Work PROVE ProbeIInv'
  <2>1. /\ host.step = "work"
        /\ host' \in HostRecord /\ host'.run = host.run /\ host'.step = "work"
        /\ used' \in [Probe!Resource -> {"absent", "made", "running"}]
        /\ Leftover' \subseteq host'.todo
        /\ host'.at \in DOMAIN Probe!Plan /\ Probe!Plan[host'.at][1] # "create"
             => Probe!Plan[host'.at][2] \in host'.todo
        /\ UNCHANGED <<prior, services, earlier, files, lock, session, restore, runs, troubles>>
    <3> DEFINE op == Probe!Plan[host.at][1]
               r == Probe!Plan[host.at][2]
    <3>1. /\ host.step = "work" /\ host.at \in DOMAIN Probe!Plan
          /\ UNCHANGED <<prior, services, earlier, files, lock, session, restore, runs, troubles>>
      BY <1>3 DEF Probe!Work
    <3>2. /\ r \in Probe!Resource /\ (op # "create" => r \in host.todo)
          /\ op \in {"create", "start", "wait", "remove"}
          /\ Leftover \subseteq host.todo /\ host.todo \subseteq Probe!Resource
          /\ host.at + 1 \in DOMAIN Probe!Plan /\ Probe!Plan[host.at + 1][1] # "create"
                => r = Probe!Plan[host.at + 1][2] /\ op # "remove"
      BY <1>0, <3>1, PlanFacts DEF HostRecord
    <3>3. \/ /\ op = "create" /\ used' = [used EXCEPT ![r] = "made"]
             /\ host' = [host EXCEPT !.at = @ + 1, !.todo = host.todo \cup {r}]
          \/ /\ op \in {"start", "wait"}
             /\ \E u \in {"made", "running"} : used' \in {used, [used EXCEPT ![r] = u]}
             /\ host' = [host EXCEPT !.at = @ + 1]
          \/ /\ op = "remove" /\ used' = [used EXCEPT ![r] = "absent"]
             /\ host' = [host EXCEPT !.at = @ + 1, !.todo = @ \ {r}]
      <4>1. \/ op = "create" /\ used' = [used EXCEPT ![r] = "made"]
               /\ host' = [[host EXCEPT !.at = @ + 1] EXCEPT !.todo = Probe!Intend(r)]
            \/ op = "start" /\ used' = [used EXCEPT ![r] = "running"] /\ host' = [host EXCEPT !.at = @ + 1]
            \/ op = "wait" /\ used' = (IF r = "db" THEN used ELSE [used EXCEPT ![r] = "made"])
               /\ host' = [host EXCEPT !.at = @ + 1]
            \/ op = "remove" /\ used' = [used EXCEPT ![r] = "absent"]
               /\ host' = [[host EXCEPT !.at = @ + 1] EXCEPT !.todo = @ \ {r}]
        BY <1>3, Zenon DEF Probe!Work
      <4> QED
        BY <1>0, <4>1 DEF Probe!Intend, HostRecord
    <3>4. /\ host' \in HostRecord /\ host'.run = host.run /\ host'.step = "work"
          /\ host'.at = host.at + 1
          /\ op = "create" => host'.todo = host.todo \cup {r}
          /\ op = "remove" => host'.todo = host.todo \ {r}
          /\ op \in {"start", "wait"} => host'.todo = host.todo
      <4> HIDE DEF op, r
      <4>1. host.at \in Nat /\ host.at + 1 \in Nat
        BY <1>0 DEF HostRecord
      <4>2. ASSUME NEW todo \in SUBSET Probe!Resource, host' = [host EXCEPT !.at = @ + 1, !.todo = todo]
            PROVE  /\ host' \in HostRecord /\ host'.run = host.run /\ host'.step = host.step
                   /\ host'.at = host.at + 1 /\ host'.todo = todo
        BY <1>0, <4>1, <4>2 DEF HostRecord
      <4>3. ASSUME host' = [host EXCEPT !.at = @ + 1]
            PROVE  /\ host' \in HostRecord /\ host'.run = host.run /\ host'.step = host.step
                   /\ host'.at = host.at + 1 /\ host'.todo = host.todo
        BY <1>0, <4>1, <4>3 DEF HostRecord
      <4>4. host.todo \cup {r} \in SUBSET Probe!Resource /\ host.todo \ {r} \in SUBSET Probe!Resource
        BY <3>2
      <4>5. CASE op = "create"
        <5>1. host' = [host EXCEPT !.at = @ + 1, !.todo = host.todo \cup {r}]
          BY <3>3, <4>5
        <5> QED
          BY <3>1, <4>2, <4>4, <4>5, <5>1
      <4>6. CASE op = "remove"
        <5>1. host' = [host EXCEPT !.at = @ + 1, !.todo = host.todo \ {r}]
          BY <3>3, <4>6
        <5> QED
          BY <3>1, <4>2, <4>4, <4>6, <5>1
      <4>7. CASE op \in {"start", "wait"}
        BY <3>1, <3>3, <4>3, <4>7
      <4> QED
        BY <3>3, <4>5, <4>6, <4>7
    <3>5. /\ used' \in [Probe!Resource -> {"absent", "made", "running"}]
          /\ Leftover' \subseteq host'.todo
      BY <1>0, <3>2, <3>3, <3>4
    <3>6. host'.at \in DOMAIN Probe!Plan /\ Probe!Plan[host'.at][1] # "create"
             => Probe!Plan[host'.at][2] \in host'.todo
      <4> HIDE DEF op
      <4> QED
        BY <3>2, <3>4
    <3> QED
      BY <3>1, <3>4, <3>5, <3>6
  <2>2. ProbeTyped'
    BY <1>0, <2>1 DEF ProbeTyped, Probe!ProbeTypeOK
  <2>3. TurnsTaken' /\ HostInOrder'
    BY <1>0, <2>1
  <2>4. RestoreInOrder' /\ RecordsTrue'
    BY <1>0, <2>1
  <2>5. Probe!NeverTogether' /\ Probe!LockHeld' /\ Probe!VerdictsTrue'
    BY <1>0, <2>1
  <2> QED
    BY <2>2, <2>3, <2>4, <2>5
<1>4. ASSUME Probe!StagePassed PROVE ProbeIInv'
  <2>1. /\ host.step = "work"
        /\ host' \in HostRecord /\ host'.run = host.run /\ host'.step = "clean" /\ host'.todo = host.todo
        /\ UNCHANGED <<prior, services, used, earlier, files, lock, session, restore, runs, troubles>>
    BY <1>0, <1>4 DEF Probe!StagePassed, HostRecord
  <2>2. ProbeTyped'
    BY <1>0, <2>1 DEF ProbeTyped, Probe!ProbeTypeOK
  <2>3. TurnsTaken' /\ HostInOrder'
    BY <1>0, <2>1
  <2>4. RestoreInOrder' /\ RecordsTrue'
    BY <1>0, <2>1
  <2>5. Probe!NeverTogether' /\ Probe!LockHeld' /\ Probe!VerdictsTrue'
    BY <1>0, <2>1
  <2> QED
    BY <2>2, <2>3, <2>4, <2>5
<1>5. ASSUME NEW done \in BOOLEAN, Probe!StageFails(done) PROVE ProbeIInv'
  <2>1. /\ host.step = "work"
        /\ host' \in HostRecord /\ host'.run = host.run /\ host'.step = "clean"
        /\ used' \in [Probe!Resource -> {"absent", "made", "running"}]
        /\ Leftover' \subseteq host'.todo
        /\ troubles' \in Nat /\ troubles' <= MaxTroubles
        /\ UNCHANGED <<prior, services, earlier, files, lock, session, restore, runs>>
    <3> DEFINE failing == host.at \in DOMAIN Probe!Plan
               op == Probe!Plan[host.at][1]
               r == Probe!Plan[host.at][2]
    <3>1. /\ host.step = "work" /\ troubles < MaxTroubles /\ troubles' = troubles + 1
          /\ host' = [host EXCEPT !.step = "clean",
                                  !.todo = IF failing /\ op = "create" THEN Probe!Intend(r) ELSE @]
          /\ used' = IF ~done \/ ~failing \/ op = "wait" THEN used
                     ELSE [used EXCEPT ![r] = CASE op = "create" -> "made"
                                                [] op = "start" -> "running"
                                                [] op = "remove" -> "absent"]
          /\ UNCHANGED <<prior, services, earlier, files, lock, session, restore, runs>>
      BY <1>5, Zenon DEF Probe!StageFails, Probe!Trouble
    <3>2. /\ Leftover \subseteq host.todo /\ host.todo \subseteq Probe!Resource
          /\ failing => /\ r \in Probe!Resource /\ (op # "create" => r \in host.todo)
                        /\ op \in {"create", "start", "wait", "remove"}
      BY <1>0, <3>1, PlanFacts DEF HostRecord
    <3>3. /\ host' \in HostRecord /\ host'.run = host.run /\ host'.step = "clean"
          /\ host'.todo = IF failing /\ op = "create" THEN host.todo \cup {r} ELSE host.todo
      BY <1>0, <3>1, <3>2 DEF Probe!Intend, HostRecord
    <3>4. \/ used' = used
          \/ failing /\ op # "wait" /\ \E u \in {"absent", "made", "running"} : used' = [used EXCEPT ![r] = u]
      BY <3>1, <3>2
    <3>5. /\ used' \in [Probe!Resource -> {"absent", "made", "running"}]
          /\ Leftover' \subseteq host'.todo
      BY <1>0, <3>2, <3>3, <3>4
    <3>6. troubles' \in Nat /\ troubles' <= MaxTroubles
      BY <1>0, <3>1
    <3>7. host.step = "work" /\ UNCHANGED <<prior, services, earlier, files, lock, session, restore, runs>>
      BY <3>1
    <3> QED
      BY <3>3, <3>5, <3>6, <3>7
  <2>2. ProbeTyped'
    BY <1>0, <2>1 DEF ProbeTyped, Probe!ProbeTypeOK
  <2>3. TurnsTaken' /\ HostInOrder'
    BY <1>0, <2>1
  <2>4. RestoreInOrder' /\ RecordsTrue'
    BY <1>0, <2>1
  <2>5. Probe!NeverTogether' /\ Probe!LockHeld' /\ Probe!VerdictsTrue'
    BY <1>0, <2>1
  <2> QED
    BY <2>2, <2>3, <2>4, <2>5
<1>6. ASSUME Probe!HostCleans PROVE ProbeIInv'
  <2>1. /\ host.step = "clean"
        /\ host' \in HostRecord /\ host'.run = host.run /\ host'.step = "clean"
        /\ used' \in [Probe!Resource -> {"absent", "made", "running"}]
        /\ host'.passed => host.passed /\ Leftover' \subseteq host'.todo
        /\ Leftover' \subseteq Leftover
        /\ UNCHANGED <<prior, services, earlier, files, lock, session, restore, runs, troubles>>
    <3> DEFINE r == Probe!Newest(host.todo)
    <3>1. /\ host.step = "clean"
          /\ \/ Probe!HostLeaves(r) /\ used' = used
             \/ Probe!HostDoneWith(r) /\ used' = [used EXCEPT ![r] = "absent"]
          /\ UNCHANGED <<prior, services, earlier, files, lock, session, restore, runs, troubles>>
      BY <1>6 DEF Probe!HostCleans, Probe!Remove
    <3> HIDE DEF r
    <3>2. CASE Probe!HostLeaves(r) /\ used' = used
      BY <1>0, <3>1, <3>2, HostFields
    <3>3. CASE Probe!HostDoneWith(r) /\ used' = [used EXCEPT ![r] = "absent"]
      <4>1. /\ host' \in HostRecord /\ host'.step = host.step /\ host'.run = host.run
            /\ host'.todo = host.todo \ {r} /\ host'.passed = host.passed
        BY <1>0, <3>3, HostFields
      <4>2. /\ used' \in [Probe!Resource -> {"absent", "made", "running"}]
            /\ Leftover' \subseteq Leftover \ {r}
        BY <1>0, <3>3
      <4> QED
        BY <3>1, <4>1, <4>2
    <3> QED
      BY <3>1, <3>2, <3>3
  <2>2. ProbeTyped'
    BY <1>0, <2>1 DEF ProbeTyped, Probe!ProbeTypeOK
  <2>3. TurnsTaken' /\ HostInOrder'
    BY <1>0, <2>1
  <2>4. RestoreInOrder' /\ RecordsTrue'
    BY <1>0, <2>1
  <2>5. Probe!NeverTogether' /\ Probe!LockHeld' /\ Probe!VerdictsTrue'
    BY <1>0, <2>1
  <2> QED
    BY <2>2, <2>3, <2>4, <2>5
<1>7. ASSUME Probe!CleanupFails PROVE ProbeIInv'
  <2>1. /\ host.step = "clean"
        /\ host' \in HostRecord /\ host'.run = host.run /\ host'.step = "clean" /\ ~host'.passed
        /\ troubles' \in Nat /\ troubles' <= MaxTroubles
        /\ UNCHANGED <<prior, services, used, earlier, files, lock, session, restore, runs>>
    BY <1>0, <1>7, HostFields, RestoreFields DEF Probe!CleanupFails, Probe!Trouble
  <2>2. ProbeTyped'
    BY <1>0, <2>1 DEF ProbeTyped, Probe!ProbeTypeOK
  <2>3. TurnsTaken' /\ HostInOrder'
    BY <1>0, <2>1
  <2>4. RestoreInOrder' /\ RecordsTrue'
    BY <1>0, <2>1
  <2>5. Probe!NeverTogether' /\ Probe!LockHeld' /\ Probe!VerdictsTrue'
    BY <1>0, <2>1
  <2> QED
    BY <2>2, <2>3, <2>4, <2>5
<1>8. ASSUME Probe!WriteResult PROVE ProbeIInv'
  <2>1. /\ host.step = "clean"
        /\ host' \in HostRecord /\ host'.step = "none"
        /\ session' \in SessionRecord /\ session'.step = session.step
        /\ files' \in FilesRecord /\ files'.host = files.host /\ files'.receipt = files.receipt
        /\ files'.outcome = files.outcome
        /\ files'.result \in {"PASS", "FAIL"}
        /\ files'.result = "PASS" <=> session'.passed
        /\ session'.passed => Leftover = {}
        /\ UNCHANGED <<prior, services, used, earlier, lock, restore, runs, troubles>>
    <3>1. /\ host.step = "clean" /\ host.todo = {}
          /\ files' = [files EXCEPT !.result = IF @ = "none" THEN Probe!Result(host.passed) ELSE @]
          /\ host' = Probe!NoHost
          /\ session' = [session EXCEPT !.passed = host.passed]
          /\ UNCHANGED <<prior, services, used, earlier, lock, restore, runs, troubles>>
      BY <1>8 DEF Probe!WriteResult
    <3>2. files.result = "none" /\ (host.passed => Leftover = {}) /\ host.passed \in BOOLEAN
      BY <1>0, <3>1 DEF HostRecord
    <3>3. session' \in SessionRecord /\ session'.step = session.step /\ session'.passed = host.passed
      BY <1>0, <3>1, <3>2 DEF SessionRecord
    <3>4. /\ files' \in FilesRecord /\ files'.host = files.host /\ files'.receipt = files.receipt
          /\ files'.outcome = files.outcome /\ files'.result = Probe!Result(host.passed)
      BY <1>0, <3>1, <3>2 DEF FilesRecord, Probe!Result
    <3> QED
      BY <1>0, <3>1, <3>2, <3>3, <3>4, HostFields DEF Probe!Result
  <2>2. ProbeTyped'
    BY <1>0, <2>1 DEF ProbeTyped, Probe!ProbeTypeOK, FilesRecord
  <2>3. TurnsTaken' /\ HostInOrder'
    BY <1>0, <2>1
  <2>4. RestoreInOrder' /\ RecordsTrue'
    BY <1>0, <2>1
  <2>5. Probe!NeverTogether' /\ Probe!LockHeld' /\ Probe!VerdictsTrue'
    BY <1>0, <2>1
  <2> QED
    BY <2>2, <2>3, <2>4, <2>5
<1> QED
  BY <1>1, <1>2, <1>3, <1>4, <1>5, <1>6, <1>7, <1>8 DEF Probe!HostStep

\* The recovery, which establishes one thing after the other.
LEMMA ProbeRestoreInv ==
  ASSUME ProbeIInv, Probe!RestoreStep \/ Probe!RestoreCleanupFails \/ Probe!RestoreFails
  PROVE  ProbeIInv'
<1> USE DEF ProbeIInv, Probe!NeverTogether, Probe!LockHeld, Probe!VerdictsTrue, Probe!Running,
       TurnsTaken, HostInOrder, RestoreInOrder, RecordsTrue, Leftover, HostActs, PastGate, PastCheck,
       PastCleaning, PastContainers, PastReady
<1>0. /\ host \in HostRecord /\ restore \in RestoreRecord
      /\ session \in SessionRecord /\ files \in FilesRecord
      /\ used \in [Probe!Resource -> {"absent", "made", "running"}]
      /\ runs \in Nat /\ troubles \in Nat /\ MaxRuns \in Nat /\ MaxTroubles \in Nat
  BY DurableAssumption DEF ProbeTyped, Probe!ProbeTypeOK, DurableAssumption, Probe!ProbeAssumption
<1>1. ASSUME Probe!Check PROVE ProbeIInv'
  <2>1. /\ restore.step = "check"
        /\ restore' \in RestoreRecord
        /\ \/ /\ restore'.step = "none" \/ (restore'.step = "end" /\ restore'.by = restore.by)
              /\ restore'.step = "end" => restore.by # "operator" /\ ~restore'.passed
           \/ /\ restore'.step \in {"clean", "running"} /\ restore'.by = restore.by /\ ~HostActs
              /\ IF restore'.step = "running" THEN Leftover = {} ELSE Leftover \subseteq restore'.todo
        /\ UNCHANGED <<prior, services, used, earlier, files, lock, session, host, runs, troubles>>
    <3> DEFINE free == ~Probe!HostMayRun /\ (IF files.receipt THEN services = prior ELSE lock = "ours")
    <3>1. /\ restore.step = "check"
          /\ UNCHANGED <<prior, services, used, earlier, files, lock, session, host, runs, troubles>>
      BY <1>1 DEF Probe!Check
    <3>2. CASE ~free
      <4>1. Probe!Fail
        BY <1>1, <3>2, Zenon DEF Probe!Check
      <4> QED
        BY <1>0, <3>1, <4>1, RestoreFields
    <3>3. CASE free
      <4>1. restore' = [restore EXCEPT !.step = IF files.receipt THEN "running" ELSE "clean",
                                       !.todo = Leftover]
        BY <1>1, <3>3 DEF Probe!Check
      <4>2. ~HostActs
        BY <3>1, <3>3 DEF Probe!HostMayRun, Probe!HostAlive
      <4>3. Leftover \in SUBSET Probe!Resource /\ (files.receipt => Leftover = {})
        OBVIOUS
      <4> HIDE DEF Leftover
      <4>4. /\ restore' \in RestoreRecord /\ restore'.by = restore.by /\ restore'.todo = Leftover
            /\ restore'.step = IF files.receipt THEN "running" ELSE "clean"
        BY <1>0, <4>1, <4>3 DEF RestoreRecord, RestoreSteps
      <4> QED
        BY <1>0, <3>1, <4>2, <4>3, <4>4 DEF FilesRecord
    <3> QED
      BY <3>2, <3>3
  <2>2. ProbeTyped'
    BY <1>0, <2>1 DEF ProbeTyped, Probe!ProbeTypeOK
  <2>3. TurnsTaken' /\ HostInOrder'
    BY <1>0, <2>1
  <2>4. RestoreInOrder' /\ RecordsTrue'
    BY <1>0, <2>1
  <2>5. Probe!NeverTogether' /\ Probe!LockHeld' /\ Probe!VerdictsTrue'
    BY <1>0, <2>1
  <2> QED
    BY <2>2, <2>3, <2>4, <2>5
<1>2. ASSUME Probe!Clean PROVE ProbeIInv'
  <2>1. /\ restore.step = "clean"
        /\ restore' \in RestoreRecord
        /\ used' \in [Probe!Resource -> {"absent", "made", "running"}]
        /\ \A x \in Probe!Resource : used'[x] \in {used[x], "absent"}
        /\ \/ /\ restore'.step = "none" \/ (restore'.step = "end" /\ restore'.by = restore.by)
              /\ restore'.step = "end" => restore.by # "operator" /\ ~restore'.passed
           \/ /\ restore'.step = "running" /\ restore'.by = restore.by
              /\ Leftover' = {}
           \/ /\ restore'.step = "clean" /\ restore'.by = restore.by
              /\ restore'.passed => Leftover' \subseteq restore'.todo
        /\ UNCHANGED <<prior, services, earlier, files, lock, session, host, runs, troubles>>
    <3> DEFINE r == Probe!Newest(restore.todo)
    <3>1. /\ restore.step = "clean"
          /\ \/ /\ restore.todo = {} /\ used' = used
                /\ \/ restore.passed /\ Probe!Goto("running")
                   \/ Probe!Fail
             \/ Probe!RestoreLeaves(r) /\ used' = used
             \/ /\ used' = [used EXCEPT ![r] = "absent"]
                /\ restore' = [restore EXCEPT !.todo = @ \ {r}]
          /\ UNCHANGED <<prior, services, earlier, files, lock, session, host, runs, troubles>>
      BY <1>2, Zenon DEF Probe!Clean, Probe!Remove
    <3> HIDE DEF r
    <3>2. CASE restore.todo = {} /\ used' = used /\ restore.passed /\ Probe!Goto("running")
      <4>1. restore' \in RestoreRecord /\ restore'.step = "running" /\ restore'.by = restore.by
        BY <1>0, <3>2, RestoreFields DEF RestoreSteps
      <4> QED
        BY <1>0, <3>1, <3>2, <4>1
    <3>3. CASE used' = used /\ Probe!Fail
      BY <1>0, <3>1, <3>3, RestoreFields
    <3>4. CASE Probe!RestoreLeaves(r) /\ used' = used
      BY <1>0, <3>1, <3>4, RestoreFields
    <3>5. CASE /\ used' = [used EXCEPT ![r] = "absent"]
               /\ restore' = [restore EXCEPT !.todo = @ \ {r}]
      <4>1. /\ restore' \in RestoreRecord /\ restore'.step = restore.step
            /\ restore'.by = restore.by /\ restore'.passed = restore.passed
            /\ restore'.todo = restore.todo \ {r}
        BY <1>0, <3>5 DEF RestoreRecord
      <4>2. /\ used' \in [Probe!Resource -> {"absent", "made", "running"}]
            /\ \A x \in Probe!Resource : used'[x] = IF x = r THEN "absent" ELSE used[x]
        BY <1>0, <3>5
      <4> QED
        BY <3>1, <4>1, <4>2
    <3> QED
      BY <3>1, <3>2, <3>3, <3>4, <3>5
  <2>2. ProbeTyped'
    BY <1>0, <2>1 DEF ProbeTyped, Probe!ProbeTypeOK
  <2>3. TurnsTaken' /\ HostInOrder'
    BY <1>0, <2>1
  <2>4. RestoreInOrder' /\ RecordsTrue'
    BY <1>0, <2>1
  <2>5. Probe!NeverTogether' /\ Probe!LockHeld' /\ Probe!VerdictsTrue'
    BY <1>0, <2>1 DEF Probe!Container, Probe!Resource
  <2> QED
    BY <2>2, <2>3, <2>4, <2>5
<1>3. ASSUME Probe!RestoreCleanupFails PROVE ProbeIInv'
  <2>1. /\ restore.step = "clean"
        /\ restore' \in RestoreRecord /\ restore'.step = "clean"
        /\ restore'.by = restore.by /\ ~restore'.passed
        /\ troubles' \in Nat /\ troubles' <= MaxTroubles
        /\ UNCHANGED <<prior, services, used, earlier, files, lock, session, host, runs>>
    BY <1>0, <1>3, RestoreFields DEF Probe!RestoreCleanupFails, Probe!Trouble
  <2>2. ProbeTyped'
    BY <1>0, <2>1 DEF ProbeTyped, Probe!ProbeTypeOK
  <2>3. TurnsTaken' /\ HostInOrder'
    BY <1>0, <2>1
  <2>4. RestoreInOrder' /\ RecordsTrue'
    BY <1>0, <2>1
  <2>5. Probe!NeverTogether' /\ Probe!LockHeld' /\ Probe!VerdictsTrue'
    BY <1>0, <2>1
  <2> QED
    BY <2>2, <2>3, <2>4, <2>5
<1>4. ASSUME Probe!NoneRunning PROVE ProbeIInv'
  <2>1. /\ restore.step = "running"
        /\ restore' \in RestoreRecord
        /\ \/ /\ restore'.step = "none" \/ (restore'.step = "end" /\ restore'.by = restore.by)
              /\ restore'.step = "end" => restore.by # "operator" /\ ~restore'.passed
           \/ /\ restore'.step = "services" /\ restore'.by = restore.by
              /\ earlier # "running"
        /\ UNCHANGED <<prior, services, used, earlier, files, lock, session, host, runs, troubles>>
    <3>1. /\ restore.step = "running"
          /\ UNCHANGED <<prior, services, used, earlier, files, lock, session, host, runs, troubles>>
      BY <1>4 DEF Probe!NoneRunning
    <3>2. CASE Probe!Fail
      BY <1>0, <3>1, <3>2, RestoreFields
    <3>3. CASE ~Probe!Fail
      <4>1. earlier # "running" /\ restore' = [restore EXCEPT !.step = "services", !.service = 1]
        BY <1>4, <3>3 DEF Probe!NoneRunning, Probe!NothingRuns
      <4>2. restore' \in RestoreRecord /\ restore'.step = "services" /\ restore'.by = restore.by
        BY <1>0, <4>1 DEF RestoreRecord, RestoreSteps
      <4> QED
        BY <3>1, <4>1, <4>2
    <3> QED
      BY <3>2, <3>3
  <2>2. ProbeTyped'
    BY <1>0, <2>1 DEF ProbeTyped, Probe!ProbeTypeOK
  <2>3. TurnsTaken' /\ HostInOrder'
    BY <1>0, <2>1
  <2>4. RestoreInOrder' /\ RecordsTrue'
    BY <1>0, <2>1
  <2>5. Probe!NeverTogether' /\ Probe!LockHeld' /\ Probe!VerdictsTrue'
    BY <1>0, <2>1
  <2> QED
    BY <2>2, <2>3, <2>4, <2>5
<1>5. ASSUME Probe!StartService PROVE ProbeIInv'
  <2>1. /\ restore.step = "services"
        /\ restore' \in RestoreRecord /\ restore'.step = "services"
        /\ restore'.by = restore.by
        /\ \E s : services' = services \cup ({s} \cap prior)
        /\ UNCHANGED <<prior, used, earlier, files, lock, session, host, runs, troubles>>
    <3>1. /\ restore.step = "services" /\ restore' = [restore EXCEPT !.service = @ + 1]
          /\ services' = services \cup ({Probe!Service[restore.service]} \cap prior)
          /\ UNCHANGED <<prior, used, earlier, files, lock, session, host, runs, troubles>>
      BY <1>5 DEF Probe!StartService
    <3>2. restore' \in RestoreRecord /\ restore'.step = "services" /\ restore'.by = restore.by
      BY <1>0, <3>1 DEF RestoreRecord, RestoreSteps
    <3> QED
      BY <3>1, <3>2
  <2>2. ProbeTyped'
    BY <1>0, <2>1 DEF ProbeTyped, Probe!ProbeTypeOK
  <2>3. TurnsTaken' /\ HostInOrder'
    BY <1>0, <2>1
  <2>4. RestoreInOrder' /\ RecordsTrue'
    BY <1>0, <2>1
  <2>5. Probe!NeverTogether' /\ Probe!LockHeld' /\ Probe!VerdictsTrue'
    BY <1>0, <2>1 DEF Probe!Container, Probe!Resource
  <2> QED
    BY <2>2, <2>3, <2>4, <2>5
<1>6. ASSUME Probe!Ready PROVE ProbeIInv'
  <2>1. /\ restore.step = "services"
        /\ restore' \in RestoreRecord
        /\ \/ /\ restore'.step = "none" \/ (restore'.step = "end" /\ restore'.by = restore.by)
              /\ restore'.step = "end" => restore.by # "operator" /\ ~restore'.passed
           \/ /\ restore'.step = "receipt" /\ restore'.by = restore.by
              /\ services = prior /\ prior # {}
        /\ UNCHANGED <<prior, services, used, earlier, files, lock, session, host, runs, troubles>>
    <3>1. /\ restore.step = "services"
          /\ UNCHANGED <<prior, services, used, earlier, files, lock, session, host, runs, troubles>>
      BY <1>6 DEF Probe!Ready
    <3>2. CASE Probe!Fail
      BY <1>0, <3>1, <3>2, RestoreFields
    <3>3. CASE ~Probe!Fail
      <4>1. services = prior /\ "mysql" \in prior /\ Probe!Goto("receipt")
        BY <1>6, <3>3 DEF Probe!Ready
      <4>2. restore' \in RestoreRecord /\ restore'.step = "receipt" /\ restore'.by = restore.by
        BY <1>0, <4>1, RestoreFields DEF RestoreSteps
      <4> QED
        BY <3>1, <4>1, <4>2
    <3> QED
      BY <3>2, <3>3
  <2>2. ProbeTyped'
    BY <1>0, <2>1 DEF ProbeTyped, Probe!ProbeTypeOK
  <2>3. TurnsTaken' /\ HostInOrder'
    BY <1>0, <2>1
  <2>4. RestoreInOrder' /\ RecordsTrue'
    BY <1>0, <2>1
  <2>5. Probe!NeverTogether' /\ Probe!LockHeld' /\ Probe!VerdictsTrue'
    BY <1>0, <2>1
  <2> QED
    BY <2>2, <2>3, <2>4, <2>5
<1>7. ASSUME Probe!WriteReceipt PROVE ProbeIInv'
  <2>1. /\ restore.step = "receipt"
        /\ restore' \in RestoreRecord /\ restore'.step = "unlock"
        /\ restore'.by = restore.by
        /\ files' \in FilesRecord /\ files'.host = files.host /\ files'.receipt
        /\ files'.result = files.result /\ files'.outcome = files.outcome
        /\ UNCHANGED <<prior, services, used, earlier, lock, session, host, runs, troubles>>
    <3>1. /\ restore.step = "receipt" /\ Probe!Goto("unlock") /\ files' = [files EXCEPT !.receipt = TRUE]
          /\ UNCHANGED <<prior, services, used, earlier, lock, session, host, runs, troubles>>
      BY <1>7 DEF Probe!WriteReceipt
    <3>2. restore' \in RestoreRecord /\ restore'.step = "unlock" /\ restore'.by = restore.by
      BY <1>0, <3>1, RestoreFields DEF RestoreSteps
    <3>3. /\ files' \in FilesRecord /\ files'.host = files.host /\ files'.receipt
          /\ files'.result = files.result /\ files'.outcome = files.outcome
      BY <1>0, <3>1 DEF FilesRecord
    <3> QED
      BY <3>1, <3>2, <3>3
  <2>2. ProbeTyped'
    BY <1>0, <2>1 DEF ProbeTyped, Probe!ProbeTypeOK, FilesRecord
  <2>3. TurnsTaken' /\ HostInOrder'
    BY <1>0, <2>1
  <2>4. RestoreInOrder' /\ RecordsTrue'
    BY <1>0, <2>1
  <2>5. Probe!NeverTogether' /\ Probe!LockHeld' /\ Probe!VerdictsTrue'
    BY <1>0, <2>1
  <2> QED
    BY <2>2, <2>3, <2>4, <2>5
<1>8. ASSUME Probe!Unlock PROVE ProbeIInv'
  <2>1. /\ restore.step = "unlock"
        /\ restore' \in RestoreRecord
        /\ lock' \in {lock, "unmarked"}
        /\ \/ /\ restore'.step = "none" \/ (restore'.step = "end" /\ restore'.by = restore.by)
              /\ restore'.step = "end" => restore.by # "operator" /\ ~restore'.passed
           \/ /\ restore'.step = "rmdir" /\ restore'.by = restore.by /\ lock' = "unmarked"
           \/ restore'.step = "none"
           \/ /\ restore'.step = "end" /\ restore'.by = restore.by /\ restore.by # "operator"
              /\ lock' = "free"
        /\ UNCHANGED <<prior, services, used, earlier, files, session, host, runs, troubles>>
    <3>1. /\ restore.step = "unlock"
          /\ UNCHANGED <<prior, services, used, earlier, files, session, host, runs, troubles>>
      BY <1>8 DEF Probe!Unlock
    <3>2. CASE lock = "ours"
      <4>1. Probe!Goto("rmdir") /\ lock' = "unmarked"
        BY <1>8, <3>2 DEF Probe!Unlock
      <4>2. restore' \in RestoreRecord /\ restore'.step = "rmdir" /\ restore'.by = restore.by
        BY <1>0, <4>1, RestoreFields DEF RestoreSteps
      <4> QED
        BY <3>1, <4>1, <4>2
    <3>3. CASE lock = "free"
      <4>1. Probe!Finish(restore.by, TRUE) /\ lock' = lock
        BY <1>8, <3>3 DEF Probe!Unlock
      <4>2. restore.by \in {"none", "unit", "operator"}
        BY <1>0 DEF RestoreRecord
      <4>3. /\ restore' \in RestoreRecord
            /\ \/ restore'.step = "none"
               \/ restore'.step = "end" /\ restore'.by = restore.by /\ restore.by # "operator"
        BY <1>0, <4>1, <4>2, RestoreFields
      <4> QED
        BY <3>1, <3>3, <4>1, <4>3
    <3>4. CASE lock \notin {"ours", "free"}
      <4>1. Probe!Fail /\ lock' = lock
        BY <1>8, <3>4 DEF Probe!Unlock
      <4> QED
        BY <1>0, <3>1, <4>1, RestoreFields
    <3> QED
      BY <3>2, <3>3, <3>4
  <2>2. ProbeTyped'
    BY <1>0, <2>1 DEF ProbeTyped, Probe!ProbeTypeOK
  <2>3. TurnsTaken' /\ HostInOrder'
    BY <1>0, <2>1
  <2>4. RestoreInOrder' /\ RecordsTrue'
    BY <1>0, <2>1
  <2>5. Probe!NeverTogether' /\ Probe!LockHeld' /\ Probe!VerdictsTrue'
    BY <1>0, <2>1
  <2> QED
    BY <2>2, <2>3, <2>4, <2>5
<1>9. ASSUME Probe!RemoveLock PROVE ProbeIInv'
  <2>1. /\ restore.step = "rmdir"
        /\ restore' \in RestoreRecord
        /\ lock' = "free"
        /\ restore'.step = "none" \/ (restore'.step = "end" /\ restore'.by = restore.by /\ restore.by # "operator")
        /\ UNCHANGED <<prior, services, used, earlier, files, session, host, runs, troubles>>
    <3>1. /\ restore.step = "rmdir" /\ Probe!Finish(restore.by, TRUE) /\ lock' = "free"
          /\ UNCHANGED <<prior, services, used, earlier, files, session, host, runs, troubles>>
      BY <1>9 DEF Probe!RemoveLock
    <3>2. restore.by \in {"none", "unit", "operator"}
      BY <1>0 DEF RestoreRecord
    <3> QED
      BY <1>0, <3>1, <3>2, RestoreFields
  <2>2. ProbeTyped'
    BY <1>0, <2>1 DEF ProbeTyped, Probe!ProbeTypeOK
  <2>3. TurnsTaken' /\ HostInOrder'
    BY <1>0, <2>1
  <2>4. RestoreInOrder' /\ RecordsTrue'
    BY <1>0, <2>1
  <2>5. Probe!NeverTogether' /\ Probe!LockHeld' /\ Probe!VerdictsTrue'
    BY <1>0, <2>1
  <2> QED
    BY <2>2, <2>3, <2>4, <2>5
<1>10. ASSUME Probe!RestoreFails PROVE ProbeIInv'
  <2>1. /\ restore.step \notin {"none", "end"}
        /\ restore' \in RestoreRecord
        /\ \/ /\ restore'.step = "none" \/ (restore'.step = "end" /\ restore'.by = restore.by)
              /\ restore'.step = "end" => restore.by # "operator" /\ ~restore'.passed
        /\ troubles' \in Nat /\ troubles' <= MaxTroubles
        /\ UNCHANGED <<prior, services, used, earlier, files, lock, session, host, runs>>
    <3>1. /\ restore.step \notin {"none", "end"} /\ Probe!Fail
          /\ troubles' = troubles \/ (troubles < MaxTroubles /\ troubles' = troubles + 1)
          /\ UNCHANGED <<prior, services, used, earlier, files, lock, session, host, runs>>
      BY <1>10 DEF Probe!RestoreFails, Probe!Trouble
    <3>2. troubles' \in Nat /\ troubles' <= MaxTroubles
      BY <1>0, <3>1 DEF ProbeTyped, Probe!ProbeTypeOK
    <3> QED
      BY <1>0, <3>1, <3>2, RestoreFields
  <2>2. ProbeTyped'
    BY <1>0, <2>1 DEF ProbeTyped, Probe!ProbeTypeOK
  <2>3. TurnsTaken' /\ HostInOrder'
    BY <1>0, <2>1
  <2>4. RestoreInOrder' /\ RecordsTrue'
    BY <1>0, <2>1
  <2>5. Probe!NeverTogether' /\ Probe!LockHeld' /\ Probe!VerdictsTrue'
    BY <1>0, <2>1
  <2> QED
    BY <2>2, <2>3, <2>4, <2>5
<1> QED
  BY <1>1, <1>2, <1>3, <1>4, <1>5, <1>6, <1>7, <1>8, <1>9, <1>10 DEF Probe!RestoreStep

\* However often the unit is started and whatever is killed or fails: measurement and
\* services never share the host, the lock is given up with the services back and
\* nothing left, and a PASS is true.
THEOREM ProbeIsSound == DurableSpec => []ProbeSound
<1>1. ProbeIInv /\ Probe!Next => ProbeIInv'
  BY ProbeSessionInv, ProbeHostInv, ProbeRestoreInv DEF Probe!Next, Probe!SessionStep
<1>2. ProbeIInv /\ UNCHANGED probe => ProbeIInv'
  BY DEF probe, ProbeIInv, ProbeTyped, Probe!ProbeTypeOK, Probe!NeverTogether, Probe!LockHeld,
         Probe!VerdictsTrue, Probe!Running, TurnsTaken, HostInOrder, RestoreInOrder, RecordsTrue,
         Leftover, HostActs, PastGate, PastCheck, PastCleaning, PastContainers, PastReady
<1>3. ProbeIInv /\ [DurableNext]_durable => ProbeIInv'
  BY <1>1, <1>2, OthersRest
<1>4. ProbeIInv => ProbeSound
  BY DEF ProbeIInv, ProbeSound, Probe!ProbeSound, ProbeTyped
<1> QED
  BY ProbeInit, <1>3, <1>4, PTL DEF DurableSpec
=============================================================================
