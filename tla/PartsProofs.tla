---------------------------- MODULE PartsProofs -----------------------------
(* What the components' own theorems say of the instances that run side    *)
(* by side in Parts.  A step of Parts is a step of the component that      *)
(* moves and leaves the variables of the others as they are, so that a     *)
(* component keeps its inductive invariant whichever of them moves.        *)
EXTENDS Parts, Sequences, SequenceTheorems, FiniteSetTheorems,
        WellFoundedInduction, TLAPS

RegisterProofs == INSTANCE RecordingRegisterProofs WITH
    frames <- registered, Reader <- {"plate", "time"}, Position <- {1},
    Image <- {"once", "now"}, MaxCalls <- 2

FrameProofs == INSTANCE FrameAdmissionProofs WITH Request <- {"r1", "r2", "r3"}, Concurrency <- 2

HostProofs == INSTANCE DeploymentProofs WITH
    Approval <- {Approved(1, {}, 0, TRUE), Approved(2, {1}, 1, FALSE), Approved(2, {1, 2}, 2, FALSE),
                 Approved(3, {2}, 2, FALSE), Approved(3, {2, 3}, 3, FALSE)},
    Legacy <- {Approved(2, {1}, 1, FALSE)}

LEMMA OthersRest ==
  ASSUME [Next]_vars
  PROVE  /\ RegisterStep \/ UNCHANGED register
         /\ DeploymentStep \/ UNCHANGED deployment
         /\ FramesStep \/ UNCHANGED frames
         /\ ClockStep \/ UNCHANGED clock
         /\ ClientStep \/ UNCHANGED client
         /\ BackupStep \/ UNCHANGED backup
         /\ MediaStep \/ UNCHANGED media
         /\ ReadoutStep \/ UNCHANGED readout
         /\ EvidenceStep \/ UNCHANGED evidence
         /\ ExportsStep \/ UNCHANGED exports
         /\ SpansStep \/ UNCHANGED spans
BY Zenon DEF Next, vars, FramesStep, ClockStep, ExportsStep, EvidenceStep, SpansStep, ReadoutStep,
             ClientStep, RegisterStep, MediaStep, BackupStep, DeploymentStep

LEMMA RegisterMoves ==
  ASSUME [Next]_vars
  PROVE  [RegisterProofs!Next]_RegisterProofs!vars
<1>1. CASE RegisterStep
  BY <1>1 DEF RegisterStep, Register!Next, RegisterProofs!Next,
       Register!Decode, RegisterProofs!Decode, Register!Refuse, RegisterProofs!Refuse,
       Register!Find, RegisterProofs!Find, Register!GiveUp, RegisterProofs!GiveUp,
       Register!Add, RegisterProofs!Add, Register!Compatible, RegisterProofs!Compatible,
       Register!Returns, RegisterProofs!Returns, Register!Ends, RegisterProofs!Ends,
       Register!NoCall, RegisterProofs!NoCall, Register!NoRef, RegisterProofs!NoRef,
       Register!AtRest, RegisterProofs!AtRest, Register!Observe, RegisterProofs!Observe,
       Register!Save, RegisterProofs!Save, Register!Kept, RegisterProofs!Kept,
       Register!Restart, RegisterProofs!Restart, Register!Looking, RegisterProofs!Looking,
       Register!Nobody, RegisterProofs!Nobody
<1>2. CASE UNCHANGED register
  BY <1>2 DEF register, RegisterProofs!vars
<1> QED
  BY <1>1, <1>2, OthersRest

LEMMA RegisterGoesOn == Spec => []RegisterProofs!IInv
<1>1. RegisterProofs!RegisterAssumption
  BY DEF RegisterProofs!RegisterAssumption, RegisterProofs!Nobody, RegisterProofs!Looking
<1>2. Init => RegisterProofs!IInv
  <2>1. Init => RegisterProofs!Init
    BY DEF Init, Register!Init, RegisterProofs!Init, Register!Nobody, RegisterProofs!Nobody,
           Register!NoRef, RegisterProofs!NoRef, Register!NoCall, RegisterProofs!NoCall
  <2> QED
    BY <1>1, <2>1, RegisterProofs!InitIInv
<1>3. RegisterProofs!IInv /\ [Next]_vars => RegisterProofs!IInv'
  BY <1>1, RegisterMoves, RegisterProofs!NextIInv
<1> QED
  BY <1>2, <1>3, PTL DEF Spec

\* RecordingRegisterProofs!RegisterIsSound, for the two Readout jobs of Parts.
THEOREM PartsRegisterSound == Spec => []RegisterSound
<1>1. RegisterProofs!IInv => RegisterSound
  <2>1. RegisterProofs!IInv => RegisterProofs!RegisterSound
    BY RegisterProofs!InvImplies
  <2> QED
    BY <2>1 DEF RegisterSound,
       Register!RegisterSound, RegisterProofs!RegisterSound, Register!OneFramePerPosition,
       RegisterProofs!OneFramePerPosition, Register!FramesAreNamed,
       RegisterProofs!FramesAreNamed, Register!ObserversAgree, RegisterProofs!ObserversAgree
<1> QED
  BY <1>1, RegisterGoesOn, PTL

LEMMA HostMoves ==
  ASSUME [Next]_vars
  PROVE  [HostProofs!Next]_HostProofs!vars
<1>1. CASE DeploymentStep
  <2> USE DEF Host!DeployAdmitted, HostProofs!DeployAdmitted, Host!RollbackAdmitted,
    HostProofs!RollbackAdmitted, Host!Reconciled, HostProofs!Reconciled, Host!SchemaComplete,
    HostProofs!SchemaComplete, Host!SchemaTargets, HostProofs!SchemaTargets, Host!Idle,
    HostProofs!Idle, Host!Goes, HostProofs!Goes, Host!Writes, HostProofs!Writes,
    Host!Interrupted, HostProofs!Interrupted, Host!NoJournal, HostProofs!NoJournal, Host!None,
    HostProofs!None, Host!Torn, HostProofs!Torn, Host!records, HostProofs!records, Host!host,
    HostProofs!host
  <2>1. Host!Next
    BY <1>1 DEF DeploymentStep
  <2> QED
    BY <2>1 DEF Host!Next, HostProofs!Next,
       Host!TakeUp, HostProofs!TakeUp, Host!Preflight, HostProofs!Preflight, Host!ChecksPass, HostProofs!ChecksPass,
       Host!Quiesce,
       HostProofs!Quiesce, Host!Packet, HostProofs!Packet, Host!SchemaPending,
       HostProofs!SchemaPending, Host!Migrate, HostProofs!Migrate, Host!MigrationEnds,
       HostProofs!MigrationEnds, Host!Migrated, HostProofs!Migrated, Host!MigrationComplete,
       HostProofs!MigrationComplete, Host!Start, HostProofs!Start, Host!Intent,
       HostProofs!Intent, Host!PublishWeb, HostProofs!PublishWeb, Host!Published,
       HostProofs!Published, Host!KeepPrevious, HostProofs!KeepPrevious, Host!Promote,
       HostProofs!Promote, Host!Promoted, HostProofs!Promoted, Host!Clear, HostProofs!Clear,
       Host!Leave, HostProofs!Leave, Host!Kill, HostProofs!Kill, Host!Unlock,
       HostProofs!Unlock, Host!CompletePromotion, HostProofs!CompletePromotion,
       Host!RestoreSnapshot, HostProofs!RestoreSnapshot
<1>2. CASE UNCHANGED deployment
  BY <1>2 DEF deployment, HostProofs!vars
<1> QED
  BY <1>1, <1>2, OthersRest

LEMMA HostConstants == HostProofs!DeploymentAssumption
BY DEF HostProofs!DeploymentAssumption, Approved

LEMMA ReleasesGoOn == Spec => []HostProofs!IInv
<1>1. Init => HostProofs!IInv
  <2>1. Init => HostProofs!Init
    BY DEF Init, Host!Init, HostProofs!Init,
           Host!None, HostProofs!None, Host!NoJournal, HostProofs!NoJournal, Host!NoSchema,
           HostProofs!NoSchema
  <2> QED
    BY HostConstants, <2>1, HostProofs!InitIInv
<1>2. HostProofs!IInv /\ [Next]_vars => HostProofs!IInv'
  BY HostConstants, HostMoves, HostProofs!NextIInv
<1> QED
  BY <1>1, <1>2, PTL DEF Spec

\* DeploymentProofs!ReleasesAreRecoverable, for the releases of Parts.
THEOREM PartsReleaseRecoverable == Spec => []ReleaseRecoverable
<1>1. HostProofs!IInv => ReleaseRecoverable
  <2>1. HostProofs!IInv => HostProofs!ReleaseRecoverable
    BY HostConstants, HostProofs!Implies
  <2> QED
    BY <2>1 DEF ReleaseRecoverable,
       Host!ReleaseRecoverable, HostProofs!ReleaseRecoverable, Host!ServicesFitSchema,
       HostProofs!ServicesFitSchema, Host!JournalTellsState, HostProofs!JournalTellsState,
       Host!FailedCheckHasWayBack, HostProofs!FailedCheckHasWayBack, Host!RollbackAdmitted,
       HostProofs!RollbackAdmitted, Host!Reconciled, HostProofs!Reconciled,
       Host!SchemaComplete, HostProofs!SchemaComplete, Host!SchemaTargets,
       HostProofs!SchemaTargets, Host!Idle, HostProofs!Idle, Host!None, HostProofs!None,
       Host!Torn, HostProofs!Torn
<1> QED
  BY <1>1, ReleasesGoOn, PTL

LEMMA FramesMove ==
  ASSUME [Next]_vars
  PROVE  [FrameProofs!Next]_FrameProofs!vars
<1>1. CASE FramesStep
  BY <1>1 DEF FramesStep, Frames!Next, FrameProofs!Next,
       Frames!Arrive, FrameProofs!Arrive, Frames!Acquire, FrameProofs!Acquire, Frames!StartRead,
       FrameProofs!StartRead, Frames!Respond, FrameProofs!Respond, Frames!Leave,
       FrameProofs!Leave, Frames!EndRead, FrameProofs!EndRead, Frames!Release,
       FrameProofs!Release
<1>2. CASE UNCHANGED frames
  BY <1>2 DEF frames, FrameProofs!vars
<1> QED
  BY <1>1, <1>2, OthersRest

\* Both instances count alike.
LEMMA FramesAreCounted ==
  ASSUME FrameProofs!ReadsBounded
  PROVE  ReadsBounded
<1>1. Frames!Reads = FrameProofs!Reads /\ Frames!Admitted = FrameProofs!Admitted
  BY DEF Frames!Reads, FrameProofs!Reads, Frames!Admitted, FrameProofs!Admitted
<1>2. Frames!Cardinality(Frames!Reads) = FrameProofs!Cardinality(Frames!Reads)
  BY DEF Frames!Cardinality, FrameProofs!Cardinality
<1>3. Frames!Cardinality(Frames!Reads \cup Frames!Admitted)
        = FrameProofs!Cardinality(Frames!Reads \cup Frames!Admitted)
  BY DEF Frames!Cardinality, FrameProofs!Cardinality
<1> QED
  BY <1>1, <1>2, <1>3, Zenon DEF ReadsBounded, Frames!ReadsBounded, FrameProofs!ReadsBounded

LEMMA FrameConstants ==
  FrameProofs!AdmissionAssumption /\ FrameProofs!IsFiniteSet({"r1", "r2", "r3"})
<1>1. FrameProofs!AdmissionAssumption
  BY DEF FrameProofs!AdmissionAssumption
<1>2. FrameProofs!IsFiniteSet({"r1", "r2", "r3"})
  <2>1. FrameProofs!IsFiniteSet({"r1"})
    BY FrameProofs!FS_Singleton
  <2>2. FrameProofs!IsFiniteSet({"r1"} \cup {"r2"})
    BY <2>1, FrameProofs!FS_AddElement
  <2>3. FrameProofs!IsFiniteSet(({"r1"} \cup {"r2"}) \cup {"r3"})
    BY <2>2, FrameProofs!FS_AddElement
  <2>4. ({"r1"} \cup {"r2"}) \cup {"r3"} = {"r1", "r2", "r3"}
    OBVIOUS
  <2> QED
    BY <2>3, <2>4
<1> QED
  BY <1>1, <1>2

LEMMA FramesGoOn == Spec => []FrameProofs!IInv
<1>1. Init => FrameProofs!IInv
  <2>1. Init => FrameProofs!Init
    BY DEF Init, Frames!Init, FrameProofs!Init
  <2> QED
    BY FrameConstants, <2>1, FrameProofs!InitIInv
<1>2. FrameProofs!IInv /\ [Next]_vars => FrameProofs!IInv'
  BY FrameConstants, FramesMove, FrameProofs!NextIInv
<1> QED
  BY <1>1, <1>2, PTL DEF Spec

\* FrameAdmissionProofs!ReadsAreBounded, for the three requests of Parts.
THEOREM PartsReadsBounded == Spec => []ReadsBounded
<1>1. FrameProofs!IInv => ReadsBounded
  BY FrameConstants, FrameProofs!HoldersBound, FramesAreCounted
<1> QED
  BY <1>1, FramesGoOn, PTL

-----------------------------------------------------------------------------
\* The ticks of the heartbeat lie on a grid that begins when its thread starts.
OnGrid(t) == \E m \in Nat : t = grid + m * Interval

LEMMA DivFacts ==
  ASSUME NEW a \in Nat, NEW b \in Nat \ {0}
  PROVE  /\ a \div b \in Nat
         /\ a >= b * (a \div b)
         /\ a < b * (a \div b) + b
OBVIOUS

LEMMA ModFacts ==
  ASSUME NEW m \in Nat, NEW b \in Nat \ {0}
  PROVE  (m * b) % b = 0
OBVIOUS

LEMMA Ordered ==
  ASSUME NEW m \in Int, NEW n \in Int, NEW b \in Nat \ {0}, m * b < (n + 1) * b
  PROVE  m <= n /\ m * b <= n * b
<1>1. m <= n
  <2>1. SUFFICES ASSUME m >= n + 1 PROVE FALSE
    OBVIOUS
  <2>2. PICK k \in Nat : m = n + 1 + k
    BY <2>1
  <2>3. m * b = (n + 1) * b + k * b
    BY <2>2
  <2>4. k * b >= 0
    OBVIOUS
  <2> QED
    BY <2>3, <2>4
<1>2. PICK k \in Nat : n = m + k
  BY <1>1
<1>3. n * b = m * b + k * b /\ k * b >= 0
  BY <1>2
<1> QED
  BY <1>1, <1>3

LEMMA GridAdds ==
  ASSUME grid \in Nat, NEW t \in Nat, OnGrid(t), NEW k \in Nat
  PROVE  t + k * Interval \in Nat /\ OnGrid(t + k * Interval)
<1> USE PartsAssumption DEF PartsAssumption, Clock!LeaseAssumption
<1>1. PICK m \in Nat : t = grid + m * Interval
  BY DEF OnGrid
<1>2. /\ t + k * Interval = grid + (m + k) * Interval /\ k * Interval \in Nat
      /\ m + k \in Nat
  BY <1>1
<1>3. OnGrid(t + k * Interval)
  BY <1>2, Zenon DEF OnGrid
<1> QED
  BY <1>2, <1>3

\* The head of the loop takes the first tick that is not over.
LEMMA MissedIsLeast ==
  ASSUME grid \in Nat, NEW t \in Nat, OnGrid(t), NEW time \in Nat
  PROVE  /\ Clock!Missed(time, t) \in Nat
         /\ t + Clock!Missed(time, t) * Interval >= time
         /\ \A u \in Nat : OnGrid(u) /\ t <= u /\ time <= u => t + Clock!Missed(time, t) * Interval <= u
<1> USE PartsAssumption DEF PartsAssumption, Clock!LeaseAssumption
<1>1. CASE time <= t
  BY <1>1 DEF Clock!Missed
<1>2. CASE time > t
  <2> DEFINE a == time - t + Interval - 1
             q == a \div Interval
  <2>1. a \in Nat /\ q = Clock!Missed(time, t)
    BY <1>2 DEF Clock!Missed
  <2>2. q \in Nat /\ a >= Interval * q /\ a < Interval * q + Interval
    <3> HIDE DEF a
    <3> QED
      BY <2>1, DivFacts
  <2>3. t + q * Interval >= time
    <3>1. Interval * q = q * Interval
      BY <2>2
    <3> HIDE DEF q
    <3> QED
      BY <2>2, <3>1
  <2>4. ASSUME NEW u \in Nat, OnGrid(u), t <= u, time <= u
        PROVE  t + q * Interval <= u
    <3>1. PICK m \in Nat : t = grid + m * Interval
      BY DEF OnGrid
    <3>2. PICK n \in Nat : u = grid + n * Interval
      BY <2>4 DEF OnGrid
    <3>3. Interval * q = q * Interval
      BY <2>2
    <3>4. q * Interval < (u - t) + Interval
      <4> HIDE DEF q
      <4> QED
        BY <2>2, <2>4, <3>3
    <3>5. (u - t) + Interval = ((n - m) + 1) * Interval /\ (n - m) * Interval = u - t
      BY <3>1, <3>2
    <3>6. q * Interval <= (n - m) * Interval
      <4> HIDE DEF q
      <4> QED
        BY <2>2, <3>4, <3>5, Ordered
    <3> HIDE DEF q
    <3> QED
      BY <2>2, <3>5, <3>6
  <2> QED
    BY <2>1, <2>2, <2>3, <2>4
<1> QED
  BY <1>1, <1>2

\* A cycle is a multiple of the interval and covers the delays of a renewal.
LEMMA CycleCovers ==
  /\ Clock!Cycle \in Nat
  /\ Clock!Cycle >= MaxCall + 2 * MaxDelay /\ Clock!Cycle >= Interval
  /\ grid \in Nat => \A t \in Nat : OnGrid(t) => OnGrid(t + Clock!Cycle)
<1> USE PartsAssumption DEF PartsAssumption, Clock!LeaseAssumption
<1> DEFINE a == MaxCall + 2 * MaxDelay
           q == a \div Interval
<1>1. q \in Nat /\ a < Interval * q + Interval
  <2>1. a \in Nat
    OBVIOUS
  <2> HIDE DEF a
  <2> QED
    BY <2>1, DivFacts
<1>2. Clock!Cycle = Interval * (q + 1)
  BY DEF Clock!Cycle
<1> HIDE DEF q
<1>3. /\ Interval * (q + 1) = Interval * q + Interval /\ Interval * q \in Nat
      /\ Interval * (q + 1) = (q + 1) * Interval /\ q + 1 \in Nat
  BY <1>1
<1>4. grid \in Nat => \A t \in Nat : OnGrid(t) => OnGrid(t + Clock!Cycle)
  BY <1>2, <1>3, GridAdds
<1> QED
  BY <1>1, <1>2, <1>3, <1>4

-----------------------------------------------------------------------------
\* The tick up to which a renewal is due after so many failures: the lease counts
\* from the last renewal, and that of the claim from the start of the thread.
Covered(k) == Clock!Behind + (leaseUntil - Lease) + k * Clock!Cycle

\* The failures are as many as the lease does not hold.
Overdue == Lease < Clock!Behind + (failures + 1) * Clock!Cycle + MaxDelay + MaxCall

Claiming == failures = 0 /\ leaseUntil = Lease /\ (stale => Lease < now)

\* The tick of the last renewal is covered, and the observer returned in time.
Looping ==
    \E t \in Nat :
        /\ OnGrid(t) /\ t <= Covered(failures) /\ tick <= t + Clock!Cycle
        /\ since <= t + MaxCall + MaxDelay /\ now <= since + MaxDelay

Waiting == tick <= Covered(failures + 1) /\ now <= tick + MaxDelay

Renewing ==
    /\ tick <= Covered(failures + 1)
    /\ tick <= since /\ since <= tick + MaxDelay
    /\ since <= now /\ now <= since + MaxCall
    /\ renewed => leaseUntil >= since + Lease /\ (stale => Lease < MaxCall)

\* Whatever the thread does, its tick lies on the grid, no later than its failures
\* allow.
HeartInv ==
    /\ Clock!ClockTypeOK /\ leaseUntil >= Lease
    /\ ~Clock!Started => Claiming
    /\ Clock!Started => OnGrid(tick)
    /\ Clock!Started /\ stale => Overdue
    /\ thread = "looping" => Looping
    /\ thread = "waiting" => Waiting
    /\ thread = "renewing" => Renewing
    /\ thread = "stopped" => stale

LEMMA Coverage ==
  ASSUME Clock!ClockTypeOK, leaseUntil >= Lease
  PROVE  /\ Clock!Behind \in Nat
         /\ Covered(failures) \in Nat /\ Covered(failures + 1) = Covered(failures) + Clock!Cycle
         /\ Covered(0) = Clock!Behind + (leaseUntil - Lease)
         /\ Overdue <=> leaseUntil < Covered(failures + 1) + MaxDelay + MaxCall
<1> DEFINE c == Clock!Cycle
           none == 0 * c
           done == failures * c
           all == (failures + 1) * c
<1>1. c \in Nat /\ failures \in Nat
  BY CycleCovers DEF Clock!ClockTypeOK
<1>2. Clock!Behind \in Nat
  BY DEF Clock!ClockTypeOK, Clock!Behind
<1>3. /\ Covered(0) = Clock!Behind + (leaseUntil - Lease) + none
      /\ Covered(failures) = Clock!Behind + (leaseUntil - Lease) + done
      /\ Covered(failures + 1) = Clock!Behind + (leaseUntil - Lease) + all
      /\ Overdue <=> Lease < Clock!Behind + all + MaxDelay + MaxCall
      /\ c = Clock!Cycle
  BY DEF Covered, Overdue
<1> HIDE DEF c
<1>4. none = 0 /\ done \in Nat /\ all = done + c
  BY <1>1
<1>5. Lease \in Nat /\ MaxDelay \in Nat /\ MaxCall \in Nat /\ leaseUntil \in Nat
  BY PartsAssumption DEF PartsAssumption, Clock!LeaseAssumption, Clock!ClockTypeOK
<1> HIDE DEF none, done, all
<1> QED
  BY <1>1, <1>2, <1>3, <1>4, <1>5

LEMMA HeartInit == Init => HeartInv
<1> SUFFICES ASSUME Init PROVE HeartInv
  OBVIOUS
<1> USE PartsAssumption DEF PartsAssumption, Clock!LeaseAssumption
<1>1. /\ now = 0 /\ grid = 0 /\ tick = 0 /\ thread = "claiming" /\ since = 0 /\ renewed = FALSE
      /\ failures = 0 /\ leaseUntil = Lease /\ stale = FALSE
  BY DEF Init, Clock!Init
<1>2. Clock!ClockTypeOK /\ leaseUntil >= Lease
  <2>1. /\ {now, grid, tick, since, leaseUntil} \subseteq Nat /\ failures \in 0 .. MaxFailures
        /\ leaseUntil >= Lease
    BY <1>1
  <2>2. /\ thread \in {"claiming", "replaying", "dropped", "looping", "waiting", "renewing", "stopped"}
        /\ {renewed, stale} \subseteq BOOLEAN
    BY <1>1
  <2> QED
    BY <2>1, <2>2 DEF Clock!ClockTypeOK
<1> QED
  BY <1>1, <1>2 DEF HeartInv, Claiming, Clock!Started

\* The next tick is on the grid and no more than a cycle away, and so is any that
\* the head of the loop takes then.
LEMMA NextTickCovered ==
  ASSUME HeartInv, thread = "renewing"
  PROVE  Clock!NextTick \in Nat /\ OnGrid(Clock!NextTick) /\ Clock!NextTick <= tick + Clock!Cycle
<1> USE PartsAssumption DEF PartsAssumption, Clock!LeaseAssumption, HeartInv, Clock!ClockTypeOK
<1> DEFINE t == tick + Interval
           u == tick + Clock!Cycle
<1>0. OnGrid(tick)
  BY DEF Clock!Started
<1>1. t \in Nat /\ OnGrid(t)
  <2>1. tick + 1 * Interval = t
    OBVIOUS
  <2> QED
    BY <1>0, <2>1, GridAdds
<1>2. u \in Nat /\ OnGrid(u) /\ t <= u /\ now <= u
  BY <1>0, CycleCovers DEF Renewing
<1>3. /\ Clock!Missed(now, t) \in Nat /\ t + Clock!Missed(now, t) * Interval <= u
      /\ t + Clock!Missed(now, t) * Interval \in Nat /\ OnGrid(t + Clock!Missed(now, t) * Interval)
  <2> HIDE DEF t, u
  <2> QED
    BY <1>1, <1>2, MissedIsLeast, GridAdds
<1> QED
  BY <1>3 DEF Clock!NextTick

\* A thread that runs is never further than a delay and a call from a tick that is
\* covered.
LEMMA CoveredHolds ==
  ASSUME HeartInv, Clock!Started, ~stale
  PROVE  now <= Covered(failures + 1) + MaxDelay + MaxCall
<1> USE PartsAssumption DEF PartsAssumption, Clock!LeaseAssumption, HeartInv, Clock!ClockTypeOK
<1>1. /\ Covered(failures) \in Nat /\ Covered(failures + 1) = Covered(failures) + Clock!Cycle
      /\ Clock!Cycle \in Nat /\ Clock!Cycle >= MaxCall + 2 * MaxDelay
  BY Coverage, CycleCovers
<1>2. CASE thread = "looping"
  BY <1>1, <1>2 DEF Looping
<1>3. CASE thread = "waiting"
  BY <1>1, <1>3 DEF Waiting
<1>4. CASE thread = "renewing"
  BY <1>1, <1>4 DEF Renewing
<1> QED
  BY <1>2, <1>3, <1>4 DEF Clock!Started

\* While the claim is under way, nothing but time and the sweep moves.
LEMMA ClaimKeeps ==
  ASSUME HeartInv, Clock!Unanswered \/ Clock!Recover \/ Clock!Drop
  PROVE  HeartInv'
<1>1. /\ thread \in {"claiming", "replaying"} /\ thread' \in {"claiming", "replaying", "dropped"}
      /\ UNCHANGED <<now, grid, tick, since, renewed, failures, leaseUntil, stale>>
  BY DEF Clock!Unanswered, Clock!Recover, Clock!Drop
<1>2. ~Clock!Started /\ ~Clock!Started' /\ Claiming'
  BY <1>1 DEF HeartInv, Clock!Started, Claiming
<1>3. Clock!ClockTypeOK'
  BY <1>1 DEF HeartInv, Clock!ClockTypeOK
<1> QED
  BY <1>1, <1>2, <1>3 DEF HeartInv, Clock!Started

\* What the claim took is on the lease when the thread starts.
LEMMA StartKeeps ==
  ASSUME HeartInv, Clock!Start
  PROVE  HeartInv'
<1> USE PartsAssumption DEF PartsAssumption, Clock!LeaseAssumption
<1>1. /\ thread = "claiming" /\ thread' = "looping"
      /\ grid' = now /\ since' = now /\ tick' = now + Interval
      /\ UNCHANGED <<now, renewed, failures, leaseUntil, stale>>
  BY DEF Clock!Start
<1>2. Claiming /\ now \in Nat /\ leaseUntil = Lease
  BY <1>1 DEF HeartInv, Clock!Started, Clock!ClockTypeOK, Claiming
<1>3. Clock!ClockTypeOK' /\ leaseUntil' >= Lease
  BY <1>1, <1>2 DEF HeartInv, Clock!ClockTypeOK
<1>4. Clock!Behind' = now /\ failures' = 0
  BY <1>1, <1>2 DEF Clock!Behind, Claiming
<1>5. now \in Nat /\ OnGrid(now)' /\ OnGrid(tick)'
  <2>1. now = grid' + 0 * Interval /\ tick' = grid' + 1 * Interval
    BY <1>1, <1>2
  <2> QED
    BY <1>1, <1>2, <2>1 DEF OnGrid
<1>6. Covered(failures)' = now
  <2>1. 0 * Clock!Cycle = 0
    BY CycleCovers
  <2> QED
    BY <1>1, <1>2, <1>4, <2>1 DEF Covered, Clock!Cycle
<1>7. Looping'
  <2>1. /\ OnGrid(now)' /\ now <= Covered(failures)' /\ tick' <= now + Clock!Cycle
        /\ since' <= now + MaxCall + MaxDelay /\ now' <= since' + MaxDelay
    BY <1>1, <1>2, <1>5, <1>6, CycleCovers
  <2> QED
    BY <1>1, <1>2, <2>1 DEF Looping, OnGrid, Clock!Cycle
<1>8. stale' => Overdue'
  <2>1. ASSUME stale PROVE Lease < now + (0 + 1) * Clock!Cycle + MaxDelay + MaxCall
    <3>1. Lease < now
      BY <1>2, <2>1 DEF Claiming
    <3>2. (0 + 1) * Clock!Cycle \in Nat
      BY CycleCovers
    <3> QED
      BY <1>2, <3>1, <3>2
  <2> QED
    BY <1>1, <1>4, <2>1 DEF Overdue, Clock!Cycle
<1> QED
  BY <1>1, <1>3, <1>5, <1>7, <1>8 DEF HeartInv, Clock!Started

LEMMA HeartNext ==
  ASSUME HeartInv, Clock!Next
  PROVE  HeartInv'
<1> USE PartsAssumption DEF PartsAssumption, Clock!LeaseAssumption, HeartInv, Clock!ClockTypeOK
<1> DEFINE Same == UNCHANGED <<grid, failures, leaseUntil>>
<1>0. ASSUME Same
      PROVE  /\ Clock!Behind' = Clock!Behind /\ Covered(failures)' = Covered(failures)
             /\ Covered(failures + 1)' = Covered(failures + 1) /\ Overdue' = Overdue
  BY <1>0 DEF Clock!Behind, Covered, Overdue, Clock!Cycle
<1>1. ASSUME Clock!Loop PROVE HeartInv'
  <2>1. /\ thread = "looping" /\ thread' = "waiting"
        /\ tick' = tick + Clock!Missed(now, tick) * Interval
        /\ UNCHANGED <<now, grid, since, renewed, failures, leaseUntil, stale>>
    BY <1>1 DEF Clock!Loop
  <2>2. PICK t \in Nat : /\ OnGrid(t) /\ t <= Covered(failures) /\ tick <= t + Clock!Cycle
                         /\ since <= t + MaxCall + MaxDelay /\ now <= since + MaxDelay
    BY <2>1 DEF Looping
  <2>3. t + Clock!Cycle \in Nat /\ OnGrid(t + Clock!Cycle) /\ now <= t + Clock!Cycle /\ OnGrid(tick)
    <3>1. OnGrid(tick)
      BY <2>1 DEF Clock!Started
    <3>2. grid \in Nat
      OBVIOUS
    <3>3. OnGrid(t + Clock!Cycle)
      BY <2>2, <3>2, CycleCovers
    <3> QED
      BY <2>2, <3>1, <3>3, CycleCovers
  <2>4. /\ tick' \in Nat /\ OnGrid(tick') /\ tick' >= now /\ tick' <= t + Clock!Cycle
    BY <2>1, <2>2, <2>3, MissedIsLeast, GridAdds
  <2>5. tick' <= Covered(failures + 1)
    BY <2>2, <2>4, Coverage, CycleCovers
  <2>6. Covered(failures + 1)' = Covered(failures + 1) /\ Overdue' = Overdue
    BY <1>0, <2>1
  <2>7. Waiting'
    BY <2>1, <2>4, <2>5, <2>6 DEF Waiting
  <2>8. OnGrid(tick)'
    BY <2>1, <2>4 DEF OnGrid
  <2> QED
    BY <2>1, <2>4, <2>6, <2>7, <2>8 DEF Clock!Started
<1>2. ASSUME Clock!Wake PROVE HeartInv'
  <2>1. /\ thread = "waiting" /\ thread' = "renewing" /\ now >= tick
        /\ since' = now /\ renewed' = FALSE
        /\ UNCHANGED <<now, grid, tick, failures, leaseUntil, stale>>
    BY <1>2 DEF Clock!Wake
  <2>2. Covered(failures + 1)' = Covered(failures + 1) /\ OnGrid(tick)' /\ Overdue' = Overdue
    BY <1>0, <2>1 DEF OnGrid, Clock!Started
  <2>3. Renewing'
    BY <2>1, <2>2 DEF Waiting, Renewing
  <2> QED
    BY <2>1, <2>2, <2>3 DEF Clock!Started
<1>3. ASSUME Clock!Renew PROVE HeartInv'
  <2>1. /\ thread = "renewing" /\ thread' = "renewing" /\ ~stale /\ renewed' = TRUE
        /\ leaseUntil' = leaseUntil \/ (leaseUntil' = now + Lease /\ leaseUntil' > leaseUntil)
        /\ leaseUntil' \in Nat /\ leaseUntil' >= now + Lease
        /\ UNCHANGED <<now, grid, tick, thread, since, failures, stale>>
    BY <1>3 DEF Clock!Renew
  <2>2. tick <= Covered(failures + 1)'
    <3>1. CASE leaseUntil' = leaseUntil
      BY <1>0, <2>1, <3>1 DEF Renewing
    <3>2. CASE leaseUntil' = now + Lease /\ leaseUntil' > leaseUntil
      <4> DEFINE all == (failures + 1) * Clock!Cycle
      <4>1. all \in Nat
        BY CycleCovers
      <4>2. Clock!Behind' = 0
        BY <2>1, <3>2 DEF Clock!Behind
      <4>3. Covered(failures + 1)' = 0 + (leaseUntil' - Lease) + all
        BY <2>1, <4>2 DEF Covered, Clock!Cycle
      <4> HIDE DEF all
      <4> QED
        BY <2>1, <3>2, <4>1, <4>3 DEF Renewing
    <3> QED
      BY <2>1, <3>1, <3>2
  <2>3. OnGrid(tick)' /\ leaseUntil' >= Lease
    BY <2>1 DEF OnGrid, Clock!Started
  <2>4. Renewing'
    BY <2>1, <2>2 DEF Renewing
  <2> QED
    BY <2>1, <2>3, <2>4 DEF Clock!Started
<1>4. ASSUME Clock!Renewed PROVE HeartInv'
  <2>1. /\ thread = "renewing" /\ thread' = "looping" /\ renewed /\ failures' = 0
        /\ tick' = Clock!NextTick /\ since' = now
        /\ UNCHANGED <<now, grid, renewed, leaseUntil, stale>>
    BY <1>4 DEF Clock!Renewed
  <2>2. Clock!Behind' = Clock!Behind /\ Clock!Behind \in Nat
    BY <2>1, Coverage DEF Clock!Behind
  <2>3. Covered(failures)' = Clock!Behind + (leaseUntil - Lease)
    <3>1. 0 * Clock!Cycle = 0
      BY CycleCovers
    <3> QED
      BY <2>1, <2>2, <3>1 DEF Covered, Clock!Cycle
  <2>4. OnGrid(tick)
    BY <2>1 DEF Clock!Started
  <2>5. Looping'
    <3>1. /\ tick <= Covered(failures)' /\ tick' <= tick + Clock!Cycle
          /\ since' <= tick + MaxCall + MaxDelay /\ now' <= since' + MaxDelay
      BY <2>1, <2>2, <2>3, NextTickCovered DEF Renewing
    <3>2. OnGrid(tick) => \E m \in Nat : tick = grid' + m * Interval
      BY <2>1 DEF OnGrid
    <3> QED
      BY <2>4, <3>1, <3>2 DEF Looping, OnGrid, Clock!Cycle
  <2>6. OnGrid(tick)' /\ tick' \in Nat
    BY <2>1, NextTickCovered DEF OnGrid
  <2>7. stale => Overdue'
    <3>1. stale => Lease < MaxCall
      BY <2>1 DEF Renewing
    <3>2. (0 + 1) * Clock!Cycle = Clock!Cycle
      BY CycleCovers
    <3>3. stale => Lease < Clock!Behind + (0 + 1) * Clock!Cycle + MaxDelay + MaxCall
      BY <2>2, <3>1, <3>2, CycleCovers
    <3> QED
      BY <2>1, <2>2, <3>3 DEF Overdue, Clock!Cycle
  <2> QED
    BY <2>1, <2>5, <2>6, <2>7 DEF Clock!Started
<1>5. ASSUME Clock!Failed PROVE HeartInv'
  <2>1. /\ thread = "renewing" /\ thread' = "looping" /\ failures' = failures + 1
        /\ failures < MaxFailures
        /\ tick' = Clock!NextTick /\ since' = now
        /\ UNCHANGED <<now, grid, renewed, leaseUntil, stale>>
    BY <1>5 DEF Clock!Failed
  <2>2. Clock!Behind' = Clock!Behind /\ Covered(failures)' = Covered(failures + 1)
    BY <2>1 DEF Covered, Clock!Behind, Clock!Cycle
  <2>3. OnGrid(tick)
    BY <2>1 DEF Clock!Started
  <2>4. Looping'
    <3>1. /\ tick <= Covered(failures)' /\ tick' <= tick + Clock!Cycle
          /\ since' <= tick + MaxCall + MaxDelay /\ now' <= since' + MaxDelay
      BY <2>1, <2>2, NextTickCovered DEF Renewing
    <3>2. OnGrid(tick) => \E m \in Nat : tick = grid' + m * Interval
      BY <2>1 DEF OnGrid
    <3> QED
      BY <2>3, <3>1, <3>2 DEF Looping, OnGrid, Clock!Cycle
  <2>5. OnGrid(tick)' /\ tick' \in Nat
    BY <2>1, NextTickCovered DEF OnGrid
  <2>6. stale => Overdue'
    <3> DEFINE all == (failures + 1) * Clock!Cycle
               more == (failures' + 1) * Clock!Cycle
    <3>1. all \in Nat /\ more = all + Clock!Cycle /\ Clock!Cycle \in Nat
      BY <2>1, CycleCovers
    <3>2. stale => Lease < Clock!Behind + all + MaxDelay + MaxCall
      BY <2>1 DEF Overdue, Clock!Started
    <3>3. Overdue' <=> Lease < Clock!Behind + more + MaxDelay + MaxCall
      BY <2>2 DEF Overdue, Clock!Cycle
    <3>4. Clock!Behind \in Nat
      BY Coverage
    <3> HIDE DEF all, more
    <3> QED
      BY <3>1, <3>2, <3>3, <3>4
  <2> QED
    BY <2>1, <2>4, <2>5, <2>6 DEF Clock!Started
<1>6. ASSUME Clock!Lost PROVE HeartInv'
  <2>1. /\ thread = "renewing" /\ thread' = "stopped" /\ stale
        /\ UNCHANGED <<now, grid, tick, since, renewed, failures, leaseUntil, stale>>
    BY <1>6 DEF Clock!Lost
  <2>2. OnGrid(tick)' /\ Overdue'
    BY <1>0, <2>1 DEF OnGrid, Clock!Started
  <2> QED
    BY <2>1, <2>2 DEF Clock!Started
<1>7. ASSUME Clock!Sweep PROVE HeartInv'
  <2>1. /\ ~stale /\ leaseUntil < now /\ stale' = TRUE
        /\ UNCHANGED <<now, grid, tick, thread, since, renewed, failures, leaseUntil>>
    BY <1>7 DEF Clock!Sweep
  <2>2. Clock!Started => Overdue
    <3>1. Clock!Started => now <= Covered(failures + 1) + MaxDelay + MaxCall
      BY <2>1, CoveredHolds
    <3>2. Covered(failures + 1) \in Nat
      BY Coverage, CycleCovers
    <3> QED
      BY <2>1, <3>1, <3>2, Coverage
  <2>3. ~Clock!Started => Claiming'
    BY <2>1 DEF Claiming
  <2>4. thread = "renewing" => Renewing'
    BY <1>0, <2>1 DEF Renewing
  <2>5. thread = "looping" => Looping'
    BY <1>0, <2>1 DEF Looping, OnGrid, Clock!Cycle
  <2>6. thread = "waiting" => Waiting'
    BY <1>0, <2>1 DEF Waiting
  <2>7. Clock!Started => OnGrid(tick)' /\ Overdue'
    BY <1>0, <2>1, <2>2 DEF OnGrid
  <2> QED
    BY <2>1, <2>3, <2>4, <2>5, <2>6, <2>7 DEF Clock!Started
<1>8. ASSUME Clock!Pass PROVE HeartInv'
  <2>1. /\ now' = now + 1
        /\ UNCHANGED <<grid, tick, thread, since, renewed, failures, leaseUntil, stale>>
        /\ thread = "looping" => now - since < MaxDelay
        /\ thread = "waiting" => now < tick + MaxDelay
        /\ thread = "renewing" => now - since < MaxCall
    BY <1>8 DEF Clock!Pass
  <2>2. /\ Clock!Started => OnGrid(tick)'
        /\ Covered(failures)' = Covered(failures)
        /\ Covered(failures + 1)' = Covered(failures + 1) /\ Overdue' = Overdue
    <3>1. Clock!Started => OnGrid(tick)
      OBVIOUS
    <3>2. OnGrid(tick)' = OnGrid(tick)
      BY <2>1 DEF OnGrid
    <3>3. /\ Covered(failures)' = Covered(failures)
          /\ Covered(failures + 1)' = Covered(failures + 1) /\ Overdue' = Overdue
      BY <1>0, <2>1
    <3>4. Clock!Started => OnGrid(tick)'
      BY <3>1, <3>2, Zenon
    <3> QED
      BY <3>3, <3>4, Zenon
  <2>3. ASSUME thread = "looping" PROVE Looping'
    <3>1. PICK t \in Nat : /\ OnGrid(t) /\ t <= Covered(failures) /\ tick <= t + Clock!Cycle
                           /\ since <= t + MaxCall + MaxDelay /\ now <= since + MaxDelay
      BY <2>3 DEF Looping
    <3>2. OnGrid(t)' /\ Clock!Cycle' = Clock!Cycle
      BY <2>1, <3>1 DEF OnGrid, Clock!Cycle
    <3>3. now' <= since' + MaxDelay
      BY <2>1, <2>3
    <3> QED
      BY <2>1, <2>2, <3>1, <3>2, <3>3 DEF Looping
  <2>4. thread = "waiting" => Waiting'
    BY <2>1, <2>2 DEF Waiting
  <2>5. thread = "renewing" => Renewing'
    BY <2>1, <2>2 DEF Renewing
  <2>6. ~Clock!Started => Claiming'
    BY <2>1 DEF Claiming
  <2> QED
    BY <2>1, <2>2, <2>3, <2>4, <2>5, <2>6 DEF Clock!Started
<1> QED
  BY <1>1, <1>2, <1>3, <1>4, <1>5, <1>6, <1>7, <1>8, ClaimKeeps, StartKeeps DEF Clock!Next

LEMMA HeartImplies == HeartInv => HeartbeatHolds
<1> USE PartsAssumption DEF PartsAssumption, Clock!LeaseAssumption, HeartInv, Clock!ClockTypeOK
<1> SUFFICES ASSUME HeartInv PROVE HeartbeatHolds
  OBVIOUS
<1>1. ASSUME thread = "renewing" PROVE (tick - grid) % Interval = 0
  <2>1. PICK m \in Nat : tick = grid + m * Interval
    BY <1>1 DEF OnGrid, Clock!Started
  <2>2. tick - grid = m * Interval
    BY <2>1
  <2> QED
    BY <2>2, ModFacts
<1>2. Clock!LeaseOutlivesFaults
  BY DEF Clock!LeaseOutlivesFaults, Overdue
<1> QED
  BY <1>1, <1>2 DEF HeartbeatHolds, Clock!HeartbeatHolds, Clock!RenewalOnItsTick, Renewing

LEMMA HeartBeats == Spec => []HeartInv
<1>1. HeartInv /\ UNCHANGED clock => HeartInv'
  BY DEF clock, HeartInv, Clock!ClockTypeOK, Clock!Started, Claiming, OnGrid, Looping, Waiting, Renewing,
         Covered, Overdue, Clock!Behind, Clock!Cycle
<1>2. HeartInv /\ [Next]_vars => HeartInv'
  BY <1>1, HeartNext, OthersRest DEF ClockStep
<1> QED
  BY HeartInit, <1>2, PTL DEF Spec

\* For every interval and lease, whatever the latencies, and however long the claim
\* took: a Worker that is swept had failed to renew so often in a row that the lease
\* could not hold it, and each renewal begins at its tick.
THEOREM LeaseOutlivesRenewals == Spec => []HeartbeatHolds
BY HeartBeats, HeartImplies, PTL

-----------------------------------------------------------------------------
\* One view is no newer than the other.
Older(u, v) ==
    /\ u.changes <= v.changes /\ u.rev <= v.rev
    /\ u.changes = v.changes => u = v

\* A view at which a client may rest: the last one, one whose jobs run, or one
\* overtaken by a command that was reply up.
UpToDate(u) == u.running \/ u.changes = server.changes \/ overtaken > u.changes

Answers == {p \in Poll : polls[p].state = "answered"}

\* The views the client has, or will be answered with.
Known ==
    {screen} \cup {polls[p].view : p \in Answers}
             \cup (IF call.state = "answered" THEN {call.view} ELSE {})

\* Polls remember how many commands had gone out.
PollsCount ==
    /\ commands \in Nat
    /\ \A p \in Poll : polls[p].state # "none" =>
        /\ polls[p].state # "refused" /\ polls[p].sent <= commands
        /\ busy # "no" => polls[p].sent < commands

ViewsInOrder ==
    /\ \A u \in Known : Older(u, server)
    /\ \A u, v \in Known : Older(u, v) \/ Older(v, u)

\* The answer to a command is no older than what the screen shows.
CallMatches ==
    /\ busy = "no" <=> call.state = "none"
    /\ busy = "command" /\ call.state # "answered" => ~unavailable /\ UpToDate(screen)
    /\ busy = "command" /\ call.state = "going" => call.sent \in 1 .. MaxChanges + 1
    /\ busy = "checking" => call.state # "refused"
    /\ call.state = "answered" =>
        Older(screen, call.view) /\ UpToDate(call.view) /\ answered <= call.view.changes

\* Nor is the answer to a poll, unless a command went out since.
PollsMatch ==
    \A p \in Answers : polls[p].sent = commands =>
        answered <= polls[p].view.changes /\ UpToDate(polls[p].view)

ScreenMatches ==
    /\ busy = "no" /\ ~unavailable => UpToDate(screen)
    /\ answered \in 0 .. screen.changes /\ overtaken \in Nat
    /\ active /\ (unavailable \/ screen.running) => timer \/ \E p \in Poll : polls[p].state # "none"
    /\ doubt => busy = "checking" \/ (busy = "no" /\ unavailable)

FlowInv ==
    /\ Client!FlowTypeOK /\ PollsCount /\ ViewsInOrder
    /\ CallMatches /\ PollsMatch /\ ScreenMatches

LEMMA RequestFields ==
  ASSUME NEW r \in Client!Request
  PROVE  /\ r.state \in {"none", "going", "refused", "answered"}
         /\ r.state # "none" => r.sent \in Nat
         /\ r.state = "answered" => r.view \in Client!View
BY DEF Client!Request

LEMMA RequestBuilt ==
  /\ Client!NoRequest \in Client!Request /\ Client!NoRequest.state = "none"
  /\ \A k \in Nat : Client!Going(k) \in Client!Request /\ Client!Going(k).state = "going" /\ Client!Going(k).sent = k
  /\ \A r, v : r.sent \in Nat /\ v \in Client!View =>
        /\ Client!Answer(r, v) \in Client!Request /\ Client!Answer(r, v).state = "answered"
        /\ Client!Answer(r, v).sent = r.sent /\ Client!Answer(r, v).view = v
BY DEF Client!Request, Client!NoRequest, Client!Going, Client!Answer

LEMMA KnownViews ==
  ASSUME FlowInv
  PROVE  /\ server \in Client!View /\ Known \subseteq Client!View /\ screen \in Known
         /\ \A p \in Answers : polls[p].view \in Known
         /\ call.state = "answered" => call.view \in Known
BY RequestFields DEF FlowInv, Client!FlowTypeOK, Known, Answers

\* The order of views is kept if a step adds no view but the server's.
LEMMA OrderKept ==
  ASSUME FlowInv, Known' \subseteq Known \cup {server'},
         server' = server \/ server' \in Client!Changed
  PROVE  ViewsInOrder' /\ (\A u \in Known : u.changes <= server.changes)
<1> USE PartsAssumption DEF PartsAssumption, Client!FlowAssumption
<1>1. server \in Client!View /\ Known \subseteq Client!View
  BY KnownViews
<1>2. \A u \in Known : Older(u, server) /\ Older(u, server')
  BY <1>1 DEF FlowInv, ViewsInOrder, Older, Client!Changed, Client!View
<1>3. server' \in Client!View
  BY <1>1 DEF Client!Changed
<1>4. Older(server', server')
  BY <1>3 DEF Older, Client!View
<1>5. ViewsInOrder'
  <2>1. \A u \in Known' : Older(u, server')
    BY <1>2, <1>4
  <2>2. \A u, v \in Known' : Older(u, v) \/ Older(v, u)
    BY <1>2, <1>4 DEF FlowInv, ViewsInOrder
  <2>3. \A u, v : Older(u, v)' <=> Older(u, v)
    BY DEF Older
  <2> QED
    BY <2>1, <2>2, <2>3 DEF ViewsInOrder, Older
<1> QED
  BY <1>2, <1>5 DEF Older

\* What is up to date stays so, unless a command is executed that is waited for.
LEMMA StaysUpToDate ==
  ASSUME FlowInv,
         \/ UNCHANGED <<server, overtaken>>
         \/ server' \in Client!Changed /\ overtaken' = server'.changes
         \/ server' \in Client!Changed /\ overtaken' = overtaken /\ server.running,
         NEW u \in Known \cup {server}, UpToDate(u)
  PROVE  UpToDate(u)'
<1> USE PartsAssumption DEF PartsAssumption, Client!FlowAssumption
<1>1. server \in Client!View /\ u \in Client!View /\ Older(u, server)
  BY KnownViews DEF FlowInv, ViewsInOrder, Older, Client!View
<1>2. CASE UNCHANGED <<server, overtaken>>
  BY <1>2 DEF UpToDate
<1>3. CASE server' \in Client!Changed /\ overtaken' = server'.changes
  BY <1>1, <1>3 DEF UpToDate, Older, Client!Changed, Client!View
<1>4. CASE server' \in Client!Changed /\ overtaken' = overtaken /\ server.running
  BY <1>1, <1>4 DEF UpToDate, Older
<1> QED
  BY <1>2, <1>3, <1>4

\* The steps of the server that leave the requests alone.
LEMMA ServerKeeps ==
  ASSUME FlowInv, Client!Reflect \/ \E rev \in late : Client!ExecuteLate(rev)
  PROVE  FlowInv'
<1> USE PartsAssumption DEF PartsAssumption, Client!FlowAssumption
<1>1. /\ UNCHANGED <<screen, busy, unavailable, active, timer, commands, polls, call, doubt, answered>>
      /\ late' \subseteq late
      /\ \/ UNCHANGED <<server, overtaken>>
         \/ server' \in Client!Changed /\ overtaken' = server'.changes
         \/ server' \in Client!Changed /\ overtaken' = overtaken /\ server.running
  BY DEF Client!Reflect, Client!ExecuteLate, Client!network, Client!ghosts
<1>2. server' \in Client!View /\ overtaken' \in Nat
  BY <1>1, KnownViews DEF Client!Changed, Client!View, FlowInv, ScreenMatches
<1>3. Known' = Known /\ Answers' = Answers
  BY <1>1 DEF Known, Answers
<1>4. ViewsInOrder'
  BY <1>1, <1>3, OrderKept
<1>5. \A u \in Known : UpToDate(u) => UpToDate(u)'
  BY <1>1, StaysUpToDate
<1>6. Client!FlowTypeOK'
  BY <1>1, <1>2 DEF FlowInv, Client!FlowTypeOK
<1>7. PollsCount'
  BY <1>1 DEF FlowInv, PollsCount
<1>8. CallMatches'
  BY <1>1, <1>5, KnownViews DEF FlowInv, CallMatches, Older
<1>9. PollsMatch'
  BY <1>1, <1>3, <1>5, KnownViews DEF FlowInv, PollsMatch
<1>10. ScreenMatches'
  BY <1>1, <1>2, <1>5, KnownViews DEF FlowInv, ScreenMatches
<1> QED
  BY <1>4, <1>6, <1>7, <1>8, <1>9, <1>10 DEF FlowInv

LEMMA ServePollKeeps ==
  ASSUME FlowInv, NEW p \in Poll, Client!ServePoll(p)
  PROVE  FlowInv'
<1> USE PartsAssumption DEF PartsAssumption, Client!FlowAssumption
<1> DEFINE reply == Client!Answer(polls[p], server)
<1>1. /\ polls[p].state = "going" /\ polls' = [polls EXCEPT ![p] = reply]
      /\ UNCHANGED <<server, screen, busy, unavailable, active, timer, commands, call, late, doubt,
                     answered, overtaken>>
  BY DEF Client!ServePoll, Client!ghosts
<1>2. /\ reply \in Client!Request /\ reply.state = "answered" /\ reply.view = server
      /\ reply.sent = polls[p].sent
  BY <1>1, RequestBuilt, RequestFields DEF FlowInv, Client!FlowTypeOK
<1> HIDE DEF reply
<1>3. /\ polls' \in [Poll -> Client!Request] /\ polls'[p] = reply
      /\ \A q \in Poll : q # p => polls'[q] = polls[q]
  BY <1>1, <1>2 DEF FlowInv, Client!FlowTypeOK
<1>4. Answers' = Answers \cup {p}
  BY <1>2, <1>3 DEF Answers
<1>5. Known' \subseteq Known \cup {server'} /\ Known \subseteq Known'
  <2>1. \A q \in Answers : q # p /\ polls'[q] = polls[q]
    BY <1>1, <1>3 DEF Answers
  <2> QED
    BY <1>1, <1>2, <1>3, <1>4, <2>1 DEF Known
<1>6. ViewsInOrder'
  BY <1>1, <1>5, OrderKept
<1>7. Client!FlowTypeOK'
  BY <1>1, <1>3 DEF FlowInv, Client!FlowTypeOK
<1>8. PollsCount'
  BY <1>1, <1>2, <1>3 DEF FlowInv, PollsCount
<1>9. CallMatches'
  BY <1>1 DEF FlowInv, CallMatches, Older, UpToDate
<1>10. PollsMatch'
  <2>1. UpToDate(server) /\ answered <= server.changes
    <3>1. Older(screen, server) /\ server \in Client!View /\ screen \in Client!View
      BY KnownViews DEF FlowInv, ViewsInOrder
    <3> QED
      BY <3>1 DEF UpToDate, FlowInv, ScreenMatches, Older, Client!View
  <2>2. \A u : UpToDate(u) => UpToDate(u)'
    BY <1>1 DEF UpToDate
  <2> QED
    BY <1>1, <1>2, <1>3, <1>4, <2>1, <2>2 DEF FlowInv, PollsMatch, Answers
<1>11. ScreenMatches'
  BY <1>1, <1>2, <1>3 DEF FlowInv, ScreenMatches, UpToDate
<1> QED
  BY <1>6, <1>7, <1>8, <1>9, <1>10, <1>11 DEF FlowInv

LEMMA ExecuteKeeps ==
  ASSUME FlowInv, Client!Execute \/ Client!ServeCheck
  PROVE  FlowInv'
<1> USE PartsAssumption DEF PartsAssumption, Client!FlowAssumption
<1>1. /\ call.state = "going" /\ busy # "no"
      /\ UNCHANGED <<screen, busy, unavailable, active, timer, commands, polls, late, doubt,
                     answered, overtaken>>
      /\ \/ call' = Client!Answer(call, server') /\ (server' = server \/ server' \in Client!Changed)
         \/ call' = [call EXCEPT !.state = "refused"] /\ server' = server /\ busy = "command"
  BY DEF Client!Execute, Client!ServeCheck, Client!ghosts
<1>2. /\ call \in Client!Request /\ call.sent \in Nat
      /\ server \in Client!View /\ server' \in Client!View
  BY <1>1, RequestFields DEF FlowInv, Client!FlowTypeOK, Client!Changed
<1>3. /\ call' \in Client!Request
      /\ \/ call'.state = "answered" /\ call'.view = server'
         \/ call'.state = "refused" /\ server' = server /\ busy = "command"
  <2>1. CASE call' = Client!Answer(call, server')
    BY <1>2, <2>1, RequestBuilt
  <2>2. CASE call' = [call EXCEPT !.state = "refused"] /\ server' = server /\ busy = "command"
    <3>1. call \in [state : {"going"}, sent : Nat]
      BY <1>1, <1>2 DEF Client!Request
    <3>2. call' \in [state : {"refused"}, sent : Nat]
      BY <2>2, <3>1
    <3> QED
      BY <2>2, <3>2 DEF Client!Request
  <2> QED
    BY <1>1, <2>1, <2>2
<1>4. Answers' = Answers /\ Known' \subseteq Known \cup {server'} /\ Known \subseteq Known'
  BY <1>1, <1>3 DEF Known, Answers
<1>5. ViewsInOrder'
  BY <1>1, <1>4, OrderKept
<1>6. Client!FlowTypeOK'
  BY <1>1, <1>2, <1>3 DEF FlowInv, Client!FlowTypeOK
<1>7. PollsCount' /\ (\A q \in Answers : polls[q].sent # commands)
  BY <1>1 DEF FlowInv, PollsCount, Answers
<1>8. PollsMatch'
  BY <1>1, <1>4, <1>7 DEF PollsMatch
<1>9. CallMatches'
  <2>1. CASE call'.state = "answered" /\ call'.view = server'
    <3>1. Older(screen, server') /\ screen \in Client!View
      BY <1>4, <1>5, KnownViews DEF ViewsInOrder, Older
    <3>2. UpToDate(server)' /\ answered <= server'.changes
      BY <1>2, <3>1 DEF UpToDate, FlowInv, ScreenMatches, Older, Client!View
    <3> QED
      BY <1>1, <2>1, <3>1, <3>2 DEF FlowInv, CallMatches, Older, UpToDate
  <2>2. CASE call'.state = "refused" /\ server' = server /\ busy = "command"
    BY <1>1, <2>2 DEF FlowInv, CallMatches, UpToDate
  <2> QED
    BY <1>3, <2>1, <2>2
<1>10. ScreenMatches'
  BY <1>1 DEF FlowInv, ScreenMatches
<1> QED
  BY <1>5, <1>6, <1>7, <1>8, <1>9, <1>10 DEF FlowInv

LEMMA RefreshKeeps ==
  ASSUME FlowInv, NEW p \in Poll, Client!Refresh(p)
  PROVE  FlowInv'
<1> USE PartsAssumption DEF PartsAssumption, Client!FlowAssumption
<1> DEFINE request == Client!Going(commands)
<1>1. /\ busy = "no" /\ polls[p].state = "none" /\ timer' = FALSE
      /\ polls' = [polls EXCEPT ![p] = request]
      /\ UNCHANGED <<server, screen, busy, unavailable, active, commands, call, late, doubt,
                     answered, overtaken>>
  BY DEF Client!Refresh, Client!ghosts
<1>2. request \in Client!Request /\ request.state = "going" /\ request.sent = commands
  BY RequestBuilt DEF FlowInv, PollsCount
<1> HIDE DEF request
<1>3. /\ polls' \in [Poll -> Client!Request] /\ polls'[p] = request
      /\ \A q \in Poll : q # p => polls'[q] = polls[q]
  BY <1>1, <1>2 DEF FlowInv, Client!FlowTypeOK
<1>4. Answers' = Answers /\ (\A q \in Answers : q # p /\ polls'[q] = polls[q])
  BY <1>1, <1>2, <1>3 DEF Answers
<1>5. Known' = Known
  BY <1>1, <1>4 DEF Known
<1>6. ViewsInOrder'
  BY <1>1, <1>5, OrderKept
<1>7. Client!FlowTypeOK'
  BY <1>1, <1>3 DEF FlowInv, Client!FlowTypeOK
<1>8. PollsCount'
  BY <1>1, <1>2, <1>3 DEF FlowInv, PollsCount
<1>9. CallMatches'
  BY <1>1 DEF FlowInv, CallMatches, Older, UpToDate
<1>10. PollsMatch'
  BY <1>1, <1>4 DEF FlowInv, PollsMatch, UpToDate
<1>11. ScreenMatches'
  BY <1>1, <1>2, <1>3 DEF FlowInv, ScreenMatches, UpToDate
<1> QED
  BY <1>6, <1>7, <1>8, <1>9, <1>10, <1>11 DEF FlowInv

\* A poll ends, and its answer may be shown.
LEMMA PollEndsKeeps ==
  ASSUME FlowInv, NEW p \in Poll, Client!PollAnswered(p) \/ Client!PollFails(p)
  PROVE  FlowInv'
<1> USE PartsAssumption DEF PartsAssumption, Client!FlowAssumption
<1>1. /\ polls[p].state # "none" /\ polls' = [polls EXCEPT ![p] = Client!NoRequest]
      /\ UNCHANGED <<server, busy, active, commands, call, late, answered, overtaken>>
  BY DEF Client!PollAnswered, Client!PollFails, Client!ghosts
<1>2. /\ timer' = (active /\ (unavailable' \/ screen'.running))
      /\ \/ screen' = screen /\ doubt' = doubt /\ unavailable' = unavailable
         \/ screen' = screen /\ doubt' = doubt /\ unavailable' = TRUE /\ busy = "no"
         \/ /\ busy = "no" /\ polls[p].state = "answered" /\ polls[p].sent = commands
            /\ doubt' = (doubt /\ unavailable')
            /\ \/ screen' = polls[p].view /\ unavailable' = FALSE
               \/ screen' = screen /\ unavailable' = unavailable
  <2>1. polls[p].sent = commands => busy = "no"
    BY <1>1 DEF FlowInv, PollsCount
  <2>2. {unavailable, active, timer, doubt} \subseteq BOOLEAN
    BY DEF FlowInv, Client!FlowTypeOK
  <2>3. CASE Client!PollAnswered(p)
    BY <2>1, <2>2, <2>3 DEF Client!PollAnswered, Client!Outdated, Client!Adopt, Client!Schedule
  <2>4. CASE Client!PollFails(p)
    BY <2>1, <2>2, <2>4 DEF Client!PollFails, Client!Outdated, Client!Schedule, Client!ghosts
  <2> QED
    BY <2>3, <2>4
<1>3. /\ polls' \in [Poll -> Client!Request] /\ polls'[p].state = "none"
      /\ \A q \in Poll : q # p => polls'[q] = polls[q]
  BY <1>1, RequestBuilt DEF FlowInv, Client!FlowTypeOK
<1>4. Answers' \subseteq Answers /\ (\A q \in Answers' : q # p /\ polls'[q] = polls[q])
  BY <1>1, <1>3 DEF Answers
<1>5. Known' \subseteq Known
  BY <1>1, <1>2, <1>4 DEF Known, Answers
<1>6. ViewsInOrder'
  BY <1>1, <1>5, OrderKept
<1>7. \A u : UpToDate(u)' <=> UpToDate(u)
  BY <1>1 DEF UpToDate
<1>8. /\ screen' = screen \/ (UpToDate(screen') /\ answered <= screen'.changes /\ busy = "no")
      /\ screen' \in Client!View
  BY <1>1, <1>2, KnownViews DEF FlowInv, PollsMatch, Answers
<1>9. Client!FlowTypeOK'
  BY <1>1, <1>2, <1>3, <1>8 DEF FlowInv, Client!FlowTypeOK
<1>10. PollsCount'
  BY <1>1, <1>3 DEF FlowInv, PollsCount
<1>11. CallMatches'
  <2>1. busy # "no" => screen' = screen /\ unavailable' = unavailable
    BY <1>2
  <2> QED
    BY <1>1, <1>7, <2>1 DEF FlowInv, CallMatches, Older
<1>12. PollsMatch'
  BY <1>1, <1>4, <1>7 DEF FlowInv, PollsMatch
<1>13. ScreenMatches'
  <2>1. busy' = "no" /\ ~unavailable' => UpToDate(screen)'
    <3>1. busy = "no" /\ ~unavailable' => UpToDate(screen')
      <4>1. \/ screen' = screen /\ unavailable' = unavailable
            \/ unavailable' = TRUE
            \/ screen' = polls[p].view /\ polls[p].state = "answered" /\ polls[p].sent = commands
        BY <1>2
      <4>2. polls[p].state = "answered" /\ polls[p].sent = commands => UpToDate(polls[p].view)
        BY DEF FlowInv, PollsMatch, Answers
      <4>3. busy = "no" /\ ~unavailable => UpToDate(screen)
        BY DEF FlowInv, ScreenMatches
      <4> QED
        BY <4>1, <4>2, <4>3
    <3> QED
      BY <1>1, <3>1 DEF UpToDate
  <2>2. answered' \in 0 .. screen'.changes /\ overtaken' \in Nat
    BY <1>1, <1>8 DEF FlowInv, ScreenMatches, Client!View
  <2>3. active' /\ (unavailable' \/ screen'.running) => timer'
    BY <1>1, <1>2
  <2>4. doubt' => busy' = "checking" \/ (busy' = "no" /\ unavailable')
    BY <1>1, <1>2 DEF FlowInv, ScreenMatches, Client!FlowTypeOK
  <2> QED
    BY <2>1, <2>2, <2>3, <2>4 DEF ScreenMatches
<1> QED
  BY <1>6, <1>9, <1>10, <1>11, <1>12, <1>13 DEF FlowInv

\* `send`, up to the answer.
LEMMA SendKeeps ==
  ASSUME FlowInv, Client!Send \/ Client!GiveUp
  PROVE  FlowInv'
<1> USE PartsAssumption DEF PartsAssumption, Client!FlowAssumption
<1>1. /\ UNCHANGED <<server, screen, unavailable, active, timer, polls, answered, overtaken>>
      /\ \/ /\ busy = "no" /\ ~unavailable /\ busy' = "command" /\ commands' = commands + 1
            /\ call' = Client!Going(screen.rev) /\ late' = late /\ doubt' = doubt
         \/ /\ busy = "command" /\ busy' = "checking" /\ commands' = commands /\ doubt' = TRUE
            /\ call' = Client!Going(commands)
            /\ late' = late \/ (call.state = "going" /\ late' = late \cup {call.sent})
  BY DEF Client!Send, Client!GiveUp, Client!ghosts
<1>2. /\ call' \in Client!Request /\ call'.state = "going"
      /\ busy = "no" => call'.sent = screen.rev
      /\ screen.rev \in 1 .. MaxChanges + 1
  BY <1>1, RequestBuilt DEF FlowInv, Client!FlowTypeOK, Client!View, PollsCount
<1>3. Answers' = Answers /\ Known' \subseteq Known
  BY <1>1, <1>2 DEF Known, Answers
<1>4. ViewsInOrder'
  BY <1>1, <1>3, OrderKept
<1>5. \A u : UpToDate(u)' <=> UpToDate(u)
  BY <1>1 DEF UpToDate
<1>6. Client!FlowTypeOK'
  BY <1>1, <1>2 DEF FlowInv, Client!FlowTypeOK, CallMatches
<1>7. PollsCount' /\ \A q \in Poll : polls[q].state # "none" => polls[q].sent # commands'
  <2>1. \A q \in Poll : polls[q].state # "none" => polls[q].sent \in Nat
    BY RequestFields DEF FlowInv, Client!FlowTypeOK
  <2> QED
    BY <1>1, <2>1 DEF FlowInv, PollsCount
<1>8. CallMatches'
  BY <1>1, <1>2, <1>5 DEF FlowInv, CallMatches, ScreenMatches
<1>9. PollsMatch'
  BY <1>1, <1>3, <1>7 DEF PollsMatch, Answers
<1>10. ScreenMatches'
  BY <1>1 DEF FlowInv, ScreenMatches
<1> QED
  BY <1>4, <1>6, <1>7, <1>8, <1>9, <1>10 DEF FlowInv

\* `send`, when it returns.
LEMMA SendEndsKeeps ==
  ASSUME FlowInv, Client!Answered \/ Client!Refused \/ Client!CheckAnswered \/ Client!CheckFails
  PROVE  FlowInv'
<1> USE PartsAssumption DEF PartsAssumption, Client!FlowAssumption
<1>1. /\ busy # "no" /\ busy' = "no" /\ call' = Client!NoRequest
      /\ UNCHANGED <<server, active, commands, polls, late, overtaken>>
  BY DEF Client!Answered, Client!Refused, Client!CheckAnswered, Client!CheckFails, Client!ghosts
<1>2. \/ /\ call.state = "answered" /\ screen' = call.view /\ unavailable' = FALSE
         /\ timer' = (active /\ call.view.running)
         /\ answered' \in {answered, call.view.changes}
         /\ busy = "checking" => doubt' = FALSE
         /\ busy = "command" => doubt' = doubt
      \/ /\ busy = "command" /\ call.state = "refused"
         /\ UNCHANGED <<screen, unavailable, timer, doubt, answered>>
      \/ /\ unavailable' = TRUE /\ timer' = active
         /\ UNCHANGED <<screen, doubt, answered>>
  <2>1. ASSUME call.state = "answered" PROVE call.view.rev >= screen.rev
    BY <2>1 DEF FlowInv, CallMatches, Older
  <2>2. {unavailable, active, timer, doubt} \subseteq BOOLEAN
    BY DEF FlowInv, Client!FlowTypeOK
  <2>3. CASE Client!Answered
    BY <2>1, <2>2, <2>3 DEF Client!Answered, Client!Adopt, Client!Schedule
  <2>4. CASE Client!Refused
    BY <2>4 DEF Client!Refused, Client!ghosts
  <2>5. CASE Client!CheckAnswered
    BY <2>1, <2>2, <2>5 DEF Client!CheckAnswered, Client!Adopt, Client!Schedule
  <2>6. CASE Client!CheckFails
    BY <2>2, <2>6 DEF Client!CheckFails, Client!Schedule, Client!ghosts
  <2> QED
    BY <2>3, <2>4, <2>5, <2>6
<1>3. call' \in Client!Request /\ call'.state = "none"
  BY <1>1, RequestBuilt
<1>4. Answers' = Answers /\ Known' \subseteq Known
  BY <1>1, <1>2, <1>3 DEF Known, Answers
<1>5. ViewsInOrder'
  BY <1>1, <1>4, OrderKept
<1>6. \A u : UpToDate(u)' <=> UpToDate(u)
  BY <1>1 DEF UpToDate
<1>7. /\ screen' \in Client!View
      /\ ~unavailable' => UpToDate(screen')
      /\ answered' \in 0 .. screen'.changes
  BY <1>1, <1>2, KnownViews DEF FlowInv, CallMatches, ScreenMatches, Client!View
<1>8. Client!FlowTypeOK'
  BY <1>1, <1>2, <1>3, <1>7 DEF FlowInv, Client!FlowTypeOK
<1>9. PollsCount' /\ (\A q \in Answers : polls[q].sent # commands)
  BY <1>1 DEF FlowInv, PollsCount, Answers
<1>10. CallMatches'
  BY <1>1, <1>3 DEF CallMatches
<1>11. PollsMatch'
  BY <1>1, <1>4, <1>9 DEF PollsMatch
<1>12. ScreenMatches'
  <2>1. active' /\ (unavailable' \/ screen'.running)
          => timer' \/ \E q \in Poll : polls'[q].state # "none"
    BY <1>1, <1>2 DEF FlowInv, ScreenMatches
  <2>2. doubt' => unavailable'
    BY <1>1, <1>2 DEF FlowInv, Client!FlowTypeOK, ScreenMatches
  <2> QED
    BY <1>1, <1>6, <1>7, <2>1, <2>2 DEF FlowInv, ScreenMatches
<1> QED
  BY <1>5, <1>8, <1>9, <1>10, <1>11, <1>12 DEF FlowInv

LEMMA ConnectKeeps ==
  ASSUME FlowInv, Client!Connect \/ Client!Disconnect
  PROVE  FlowInv'
<1> USE PartsAssumption DEF PartsAssumption, Client!FlowAssumption
<1>1. /\ UNCHANGED <<server, screen, busy, unavailable, commands, polls, call, late, doubt, answered,
                     overtaken>>
      /\ active' \in BOOLEAN /\ timer' \in BOOLEAN
      /\ active' => timer' = (unavailable \/ screen.running)
  BY DEF Client!Connect, Client!Disconnect, Client!network, Client!ghosts, FlowInv, Client!FlowTypeOK
<1>2. Known' = Known /\ Answers' = Answers /\ (\A u : UpToDate(u)' <=> UpToDate(u))
  BY <1>1 DEF Known, Answers, UpToDate
<1>3. ViewsInOrder'
  BY <1>1, <1>2, OrderKept
<1>4. Client!FlowTypeOK' /\ PollsCount' /\ CallMatches'
  BY <1>1, <1>2 DEF FlowInv, Client!FlowTypeOK, PollsCount, CallMatches, Older
<1>5. PollsMatch' /\ ScreenMatches'
  BY <1>1, <1>2 DEF FlowInv, PollsMatch, ScreenMatches
<1> QED
  BY <1>3, <1>4, <1>5 DEF FlowInv

LEMMA FlowNext ==
  ASSUME FlowInv, Client!Next
  PROVE  FlowInv'
BY ServerKeeps, ServePollKeeps, ExecuteKeeps, RefreshKeeps, PollEndsKeeps, SendKeeps, SendEndsKeeps,
   ConnectKeeps
   DEF Client!Next

LEMMA FlowInit == Init => FlowInv
<1> SUFFICES ASSUME Init PROVE FlowInv
  OBVIOUS
<1> USE PartsAssumption DEF PartsAssumption, Client!FlowAssumption
<1>1. Client!Init
  BY DEF Init
<1>2. /\ server \in Client!View /\ server.changes = 0 /\ screen = server
      /\ busy = "no" /\ unavailable = FALSE /\ active = TRUE /\ timer = screen.running
      /\ commands = 0 /\ polls = [p \in Poll |-> Client!NoRequest] /\ call = Client!NoRequest
      /\ late = {} /\ doubt = FALSE /\ answered = 0 /\ overtaken = 0
  BY <1>1 DEF Client!Init
<1>3. Answers = {} /\ Known = {server} /\ Older(server, server)
  BY <1>2, RequestBuilt DEF Answers, Known, Older, Client!View
<1>4. Client!FlowTypeOK
  BY <1>2, RequestBuilt DEF Client!FlowTypeOK, Client!View
<1>5. PollsCount /\ CallMatches
  BY <1>2, RequestBuilt DEF PollsCount, CallMatches
<1>6. ScreenMatches
  BY <1>2 DEF ScreenMatches, UpToDate, Client!View
<1> QED
  BY <1>3, <1>4, <1>5, <1>6 DEF FlowInv, PollsMatch, ViewsInOrder

LEMMA FlowImplies == FlowInv => ScreenFollows
<1> SUFFICES ASSUME FlowInv PROVE ScreenFollows
  OBVIOUS
<1>1. Client!AnswerStays /\ Client!NoBlindRepeat
  BY KnownViews DEF FlowInv, ScreenMatches, Client!AnswerStays, Client!NoBlindRepeat, Client!View
<1>2. Client!NoSilentStall
  BY KnownViews DEF FlowInv, ScreenMatches, Client!NoSilentStall, UpToDate, Client!View
<1> QED
  BY <1>1, <1>2 DEF ScreenFollows, Client!ScreenFollows

LEMMA ViewFlows == Spec => []FlowInv
<1>1. FlowInv /\ UNCHANGED client => FlowInv'
  <2> SUFFICES ASSUME FlowInv, UNCHANGED client PROVE FlowInv'
    OBVIOUS
  <2>1. UNCHANGED <<server, screen, busy, unavailable, active, timer, commands, polls, call, late,
                    doubt, answered, overtaken>>
    BY DEF client
  <2>2. Known' = Known /\ Answers' = Answers /\ (\A u : UpToDate(u)' <=> UpToDate(u))
    BY <2>1 DEF Known, Answers, UpToDate
  <2>3. Client!FlowTypeOK' /\ PollsCount' /\ ViewsInOrder'
    BY <2>1, <2>2 DEF FlowInv, Client!FlowTypeOK, PollsCount, ViewsInOrder, Older
  <2>4. CallMatches' /\ PollsMatch' /\ ScreenMatches'
    BY <2>1, <2>2 DEF FlowInv, CallMatches, PollsMatch, ScreenMatches, Older, UpToDate
  <2> QED
    BY <2>3, <2>4 DEF FlowInv
<1>2. FlowInv /\ [Next]_vars => FlowInv'
  BY <1>1, FlowNext, OthersRest DEF ClientStep
<1> QED
  BY FlowInit, <1>2, PTL DEF Spec

\* For any number of polls, changes and commands: the answer to a command stays on
\* the screen, nothing is sent while an outcome is in doubt, and a screen that is
\* behind is refreshed or was overtaken by a command that was given up.
THEOREM ScreenFollowsTheCase == Spec => []ScreenFollows
BY ViewFlows, FlowImplies, PTL

-----------------------------------------------------------------------------
Copy == [objects : {"none", "partial", "all"}, data : 0 .. MaxData, heads : [1 .. 3 -> Nat]]
Calling == [step : {"idle", "check", "exec", "pack", "passed"}, op : {"none", "backup", "restore"},
            release : {0} \cup Version, output : Copy]
Script == [step : {"none", "start", "target", "import", "importing", "heads", "dump", "done"},
           op : {"none", "backup", "restore"}, input : Copy, heads : [1 .. 3 -> Nat]]
Archive == [complete : BOOLEAN, by : Call \cup {"none"}, content : Copy]

BackupShape ==
    /\ db \in Copy /\ artifact \in Archive
    /\ cli \in [Call -> Calling] /\ script \in [Call -> Script]
    /\ toolLock \in BOOLEAN /\ services \in {"none", "writers", "migrate"}
    /\ target \in {0} \cup Version

\* Who works on the database holds the lock.
LockHeld == \A c \in Call : Dumps!Holds(c) => toolLock

\* A call whose script runs, or has answered, has found the services stopped.
Undisturbed ==
    \A c \in Call : cli[c].step \in {"exec", "pack", "passed"} => services = "none"

\* A script runs for its call, or goes on when the call is gone.
ScriptsBelong ==
    \A c \in Call :
        /\ cli[c].step = "idle" => script[c].step # "done"
        /\ cli[c].step \in {"check", "pack", "passed"} => script[c] = Dumps!NoScript
        /\ cli[c].step # "idle" => cli[c].release \in Version /\ cli[c].op # "none"
        /\ cli[c].step = "pack" => cli[c].op = "backup"

\* What a call has read is what the database holds.
ReadIsHeld ==
    \A c \in Call :
        /\ cli[c].step = "exec" /\ script[c].step \in {"dump", "done"} =>
            db.objects = "all" /\ script[c].heads = db.heads
        /\ cli[c].step = "exec" /\ script[c].step = "done" => script[c].input = db
        /\ cli[c].step = "pack" =>
            /\ db.objects = "all" /\ cli[c].output = db
            /\ db.heads = Dumps!Heads(cli[c].release)
        /\ cli[c].step = "passed" => db.objects = "all"
        /\ cli[c].step = "passed" /\ cli[c].op = "restore" => cli[c].output = db

\* One call at most writes the artifact.
ArtifactOwned ==
    \A c \in Call : cli[c].op = "backup" /\ cli[c].step # "idle" =>
        /\ artifact.by = c
        /\ artifact.complete <=> cli[c].step = "passed"
        /\ cli[c].step = "passed" => artifact.content = db

ArtifactComplete ==
    artifact.complete =>
        /\ artifact.content.objects = "all"
        /\ \E release \in Version : artifact.content.heads = Dumps!Heads(release)

BackupInv ==
    /\ BackupShape /\ LockHeld /\ Dumps!OneScript /\ Undisturbed /\ ScriptsBelong /\ ReadIsHeld
    /\ ArtifactOwned /\ ArtifactComplete /\ Dumps!ServedWhole


LEMMA CopyFacts ==
  ASSUME PartsAssumption
  PROVE  /\ \A r \in Nat : Dumps!Heads(r) \in [1 .. 3 -> Nat]
         /\ Dumps!Empty \in Copy /\ Version \subseteq Nat
         /\ Dumps!NoCall \in Calling /\ Dumps!NoCall.step = "idle"
         /\ Dumps!NoScript \in Script /\ Dumps!NoScript.step = "none"
         /\ Dumps!NoFile \in Archive /\ ~Dumps!NoFile.complete /\ Dumps!NoFile.by = "none"
<1> USE DEF PartsAssumption, Dumps!BackupAssumption
<1>1. \A r \in Nat : Dumps!Heads(r) \in [1 .. 3 -> Nat]
  BY DEF Dumps!Heads
<1>2. Dumps!Empty \in Copy
  BY <1>1 DEF Dumps!Empty, Copy
<1> QED
  BY <1>1, <1>2 DEF Dumps!NoCall, Dumps!NoScript, Dumps!NoFile, Calling, Script, Archive

\* The services and the operator work on the database while nobody copies it.
LEMMA ServicesKeep ==
  ASSUME BackupInv,
         \/ Dumps!StartServices \/ Dumps!StopServices \/ Dumps!Write \/ Dumps!Discard
         \/ Dumps!RemoveArtifact \/ Dumps!MigrateModule
         \/ \E release \in Version : Dumps!Migrate(release)
  PROVE  BackupInv'
<1> USE PartsAssumption DEF PartsAssumption, Dumps!BackupAssumption
<1>1. /\ UNCHANGED <<cli, script, toolLock, runs>>
      /\ services' \in {"none", "writers", "migrate"} /\ target' \in {0} \cup Version
      /\ \/ db' = db /\ (services' # "none" => db.objects = "all")
         \/ services # "none" /\ db' \in Copy /\ db'.objects = db.objects
         \/ db' = Dumps!Empty /\ services' = "none" /\ Dumps!Quiet
  <2>1. CASE Dumps!StartServices \/ Dumps!StopServices \/ Dumps!RemoveArtifact
             \/ (\E release \in Version : Dumps!Migrate(release))
    BY <2>1 DEF Dumps!StartServices, Dumps!StopServices, Dumps!RemoveArtifact, Dumps!Migrate,
         BackupInv, BackupShape, Dumps!ServedWhole
  <2>2. CASE Dumps!Write
    BY <2>2 DEF Dumps!Write, BackupInv, BackupShape, Copy
  <2>3. CASE Dumps!Discard
    BY <2>3 DEF Dumps!Discard, BackupInv, BackupShape
  <2>4. CASE Dumps!MigrateModule
    <3>1. target \in Nat
      BY DEF BackupInv, BackupShape
    <3>2. CASE UNCHANGED db
      BY <2>4, <3>2 DEF Dumps!MigrateModule, BackupInv, BackupShape, Dumps!ServedWhole
    <3>3. ASSUME NEW i \in 1 .. 3, db' = [db EXCEPT !.heads[i] = target]
          PROVE  db' \in Copy /\ db'.objects = db.objects
      BY <3>1, <3>3 DEF BackupInv, BackupShape, Copy
    <3>4. UNCHANGED db \/ \E i \in 1 .. 3 : db' = [db EXCEPT !.heads[i] = target]
      BY <2>4 DEF Dumps!MigrateModule
    <3> QED
      BY <2>4, <3>2, <3>3, <3>4 DEF Dumps!MigrateModule, BackupInv, BackupShape
  <2> QED
    BY <2>1, <2>2, <2>3, <2>4
<1>2. artifact' = artifact \/ (artifact' = Dumps!NoFile /\ Dumps!Quiet)
  BY DEF Dumps!StartServices, Dumps!StopServices, Dumps!RemoveArtifact, Dumps!Migrate,
         Dumps!Write, Dumps!Discard, Dumps!MigrateModule
<1>3. \A c \in Call : cli[c].step \in {"exec", "pack", "passed"} => services' = "none" /\ db' = db
  <2>1. ASSUME NEW c \in Call, cli[c].step \in {"exec", "pack", "passed"}
        PROVE  services' = "none" /\ db' = db
    <3>1. services = "none" /\ ~Dumps!Quiet
      BY <2>1 DEF BackupInv, Undisturbed, Dumps!Quiet
    <3> QED
      BY <1>1, <3>1 DEF Dumps!StartServices, Dumps!StopServices, Dumps!RemoveArtifact,
           Dumps!Migrate, Dumps!Write, Dumps!Discard, Dumps!MigrateModule
  <2> QED
    BY <2>1
<1>4. BackupShape'
  BY <1>1, <1>2, CopyFacts DEF BackupInv, BackupShape
<1>5. LockHeld' /\ Dumps!OneScript' /\ ScriptsBelong'
  BY <1>1 DEF BackupInv, LockHeld, Dumps!OneScript, Dumps!Holds, ScriptsBelong, Dumps!NoScript,
       Dumps!Empty, Dumps!Heads
<1>6. Undisturbed' /\ ReadIsHeld'
  BY <1>1, <1>3 DEF BackupInv, Undisturbed, ReadIsHeld, Dumps!Heads
<1>7. ArtifactOwned'
  BY <1>1, <1>2, <1>3 DEF BackupInv, ArtifactOwned, Dumps!Quiet
<1>8. ArtifactComplete'
  BY <1>2, CopyFacts DEF BackupInv, ArtifactComplete, Dumps!Heads
<1>9. Dumps!ServedWhole'
  BY <1>1 DEF BackupInv, Dumps!ServedWhole
<1> QED
  BY <1>4, <1>5, <1>6, <1>7, <1>8, <1>9 DEF BackupInv

\* A step of a call changes its own record, its script's and the artifact it owns.
LEMMA CallKeeps ==
  ASSUME BackupInv, NEW c \in Call, NEW called, NEW run,
         UNCHANGED <<db, services, target, toolLock>>,
         cli' = [cli EXCEPT ![c] = called], script' = [script EXCEPT ![c] = run],
         called \in Calling, run \in Script,
         run = script[c] \/ (run.step \in {"start", "none"} /\ ~Dumps!Holds(c)),
         called.step \in {"exec", "pack", "passed"} => services = "none",
         called.step = "idle" => run.step # "done",
         called.step \in {"check", "pack", "passed"} => run = Dumps!NoScript,
         called.step # "idle" => called.release \in Version /\ called.op # "none",
         called.step = "pack" => called.op = "backup",
         called.step = "exec" => run.step = "start",
         called.step = "pack" => /\ db.objects = "all" /\ called.output = db
                                 /\ db.heads = Dumps!Heads(called.release),
         called.step = "passed" => db.objects = "all",
         called.step = "passed" /\ called.op = "restore" => called.output = db,
         artifact' \in Archive,
         artifact' = artifact \/ artifact = Dumps!NoFile \/ artifact.by = c,
         called.op = "backup" /\ called.step # "idle" =>
           /\ artifact'.by = c
           /\ artifact'.complete <=> (called.step = "passed")
           /\ called.step = "passed" => artifact'.content = db,
         ArtifactComplete'
  PROVE  BackupInv'
<1> USE PartsAssumption DEF PartsAssumption, Dumps!BackupAssumption
<1>1. /\ cli' \in [Call -> Calling] /\ cli'[c] = called
      /\ script' \in [Call -> Script] /\ script'[c] = run
      /\ \A d \in Call \ {c} : cli'[d] = cli[d] /\ script'[d] = script[d]
  BY DEF BackupInv, BackupShape
<1>2. BackupShape'
  BY <1>1 DEF BackupInv, BackupShape
<1>3. \A d \in Call : Dumps!Holds(d)' => Dumps!Holds(d)
  BY <1>1 DEF Dumps!Holds
<1>4. LockHeld' /\ Dumps!OneScript'
  BY <1>3 DEF BackupInv, LockHeld, Dumps!OneScript
<1>5. Undisturbed'
  BY <1>1 DEF BackupInv, Undisturbed
<1>6. ScriptsBelong'
  BY <1>1 DEF BackupInv, ScriptsBelong, Dumps!NoScript, Dumps!Empty, Dumps!Heads
<1>7. ReadIsHeld'
  <2> DEFINE Held(d) ==
        /\ cli[d].step = "exec" /\ script[d].step \in {"dump", "done"} =>
            db.objects = "all" /\ script[d].heads = db.heads
        /\ cli[d].step = "exec" /\ script[d].step = "done" => script[d].input = db
        /\ cli[d].step = "pack" =>
            /\ db.objects = "all" /\ cli[d].output = db
            /\ db.heads = Dumps!Heads(cli[d].release)
        /\ cli[d].step = "passed" => db.objects = "all"
        /\ cli[d].step = "passed" /\ cli[d].op = "restore" => cli[d].output = db
  <2>1. ASSUME NEW d \in Call \ {c} PROVE Held(d)'
    <3>1. Held(d)
      BY DEF BackupInv, ReadIsHeld
    <3> QED
      BY <1>1, <3>1 DEF Dumps!Heads
  <2>2. Held(c)'
    BY <1>1 DEF Dumps!Heads
  <2> QED
    BY <2>1, <2>2 DEF ReadIsHeld
<1>8. ArtifactOwned'
  <2>1. ASSUME NEW d \in Call \ {c}, cli[d].op = "backup" /\ cli[d].step # "idle"
        PROVE  artifact' = artifact
    BY <2>1, CopyFacts DEF BackupInv, ArtifactOwned
  <2> QED
    BY <1>1, <2>1 DEF BackupInv, ArtifactOwned
<1>9. Dumps!ServedWhole'
  BY DEF BackupInv, Dumps!ServedWhole
<1> QED
  BY <1>2, <1>4, <1>5, <1>6, <1>7, <1>8, <1>9 DEF BackupInv

LEMMA BeginKeeps ==
  ASSUME BackupInv, NEW c \in Call, NEW release \in Version,
         Dumps!BeginBackup(c, release) \/ Dumps!BeginRestore(c, release)
  PROVE  BackupInv'
<1> USE PartsAssumption DEF PartsAssumption, Dumps!BackupAssumption
<1> DEFINE called == cli'[c]
<1>1. /\ UNCHANGED <<db, services, target, toolLock, script>>
      /\ script[c] = Dumps!NoScript
  BY DEF Dumps!BeginBackup, Dumps!BeginRestore, Dumps!Idle
<1>2. artifact \in Archive /\ cli \in [Call -> Calling] /\ script \in [Call -> Script]
  BY DEF BackupInv, BackupShape
<1>3. /\ cli' = [cli EXCEPT ![c] = called] /\ called \in Calling
      /\ called.step = "check" /\ called.op \in {"backup", "restore"} /\ called.release \in Version
      /\ artifact' \in Archive
      /\ \/ artifact' = artifact /\ called.op = "restore"
         \/ artifact = Dumps!NoFile /\ artifact'.by = c /\ ~artifact'.complete
  <2>1. CASE Dumps!BeginBackup(c, release)
    <3>1. /\ cli' = [cli EXCEPT ![c] = [Dumps!NoCall EXCEPT !.step = "check", !.op = "backup",
                                                           !.release = release]]
          /\ artifact = Dumps!NoFile /\ artifact' = [Dumps!NoFile EXCEPT !.by = c]
      BY <2>1 DEF Dumps!BeginBackup
    <3> QED
      BY <1>2, <3>1, CopyFacts DEF Dumps!NoCall, Dumps!NoFile, Calling, Archive
  <2>2. CASE Dumps!BeginRestore(c, release)
    <3>1. /\ cli' = [cli EXCEPT ![c] = [step |-> "check", op |-> "restore", release |-> release,
                                        output |-> artifact.content]]
          /\ artifact' = artifact
      BY <2>2 DEF Dumps!BeginRestore
    <3> QED
      BY <1>2, <3>1 DEF Calling, Archive
  <2> QED
    BY <2>1, <2>2
<1> HIDE DEF called
<1>4. script' = [script EXCEPT ![c] = Dumps!NoScript]
  BY <1>1, <1>2
<1>5. ArtifactComplete'
  BY <1>3 DEF BackupInv, ArtifactComplete, Dumps!Heads
<1>6. ~Dumps!Holds(c) /\ Dumps!NoScript.step = script[c].step /\ Dumps!NoScript.step # "done"
  BY <1>1, CopyFacts DEF Dumps!Holds
<1> QED
  BY <1>1, <1>3, <1>4, <1>5, <1>6, CopyFacts, CallKeeps

LEMMA ExecKeeps ==
  ASSUME BackupInv, NEW c \in Call, Dumps!Exec(c)
  PROVE  BackupInv'
<1> USE PartsAssumption DEF PartsAssumption, Dumps!BackupAssumption
<1> DEFINE called == [cli[c] EXCEPT !.step = "exec"]
           run == [step |-> "start", op |-> cli[c].op, input |-> cli[c].output,
                   heads |-> Dumps!Heads(0)]
<1>1. /\ UNCHANGED <<db, services, target, toolLock, artifact>>
      /\ cli[c].step = "check" /\ services = "none"
      /\ cli' = [cli EXCEPT ![c] = called] /\ script' = [script EXCEPT ![c] = run]
  BY DEF Dumps!Exec
<1>2. artifact \in Archive /\ cli[c] \in Calling
  BY DEF BackupInv, BackupShape
<1>3. /\ called \in Calling /\ called.step = "exec" /\ called.op = cli[c].op
      /\ called.release = cli[c].release
  BY <1>2 DEF Calling
<1>4. run \in Script /\ run.step = "start"
  BY <1>2, CopyFacts DEF Calling, Script
<1> HIDE DEF called, run
<1>5. ~Dumps!Holds(c)
  BY <1>1, CopyFacts DEF BackupInv, ScriptsBelong, Dumps!Holds
<1>6. ArtifactComplete'
  BY <1>1 DEF BackupInv, ArtifactComplete, Dumps!Heads
<1>7. /\ called.op # "none" /\ called.release \in Version
      /\ called.op = "backup" => artifact.by = c /\ ~artifact.complete
  BY <1>1, <1>3 DEF BackupInv, ScriptsBelong, ArtifactOwned
<1> QED
  BY <1>1, <1>2, <1>3, <1>4, <1>5, <1>6, <1>7, CallKeeps

LEMMA ReceiveKeeps ==
  ASSUME BackupInv, NEW c \in Call, Dumps!Receive(c)
  PROVE  BackupInv'
<1> USE PartsAssumption DEF PartsAssumption, Dumps!BackupAssumption
<1> DEFINE called == IF cli[c].op = "backup"
                     THEN [cli[c] EXCEPT !.step = "pack", !.output = script[c].input]
                     ELSE [cli[c] EXCEPT !.step = "passed"]
<1>1. /\ UNCHANGED <<db, services, target, toolLock, artifact>>
      /\ cli[c].step = "exec" /\ script[c].step = "done"
      /\ script[c].heads = Dumps!Heads(cli[c].release)
      /\ cli[c].op = "restore" => script[c].input = cli[c].output
      /\ script' = [script EXCEPT ![c] = Dumps!NoScript]
  BY DEF Dumps!Receive
<1>2. cli' = [cli EXCEPT ![c] = called]
  BY DEF Dumps!Receive, BackupInv, BackupShape
<1>3. artifact \in Archive /\ cli[c] \in Calling /\ script[c] \in Script
  BY DEF BackupInv, BackupShape
<1>4. /\ called \in Calling /\ called.op = cli[c].op /\ called.release = cli[c].release
      /\ called.step = IF cli[c].op = "backup" THEN "pack" ELSE "passed"
      /\ called.output = IF cli[c].op = "backup" THEN script[c].input ELSE cli[c].output
  BY <1>3 DEF Calling, Script
<1> HIDE DEF called
<1>5. /\ db.objects = "all" /\ script[c].heads = db.heads /\ script[c].input = db
      /\ services = "none" /\ ~Dumps!Holds(c)
  BY <1>1 DEF BackupInv, ReadIsHeld, Undisturbed, Dumps!Holds
<1>6. ArtifactComplete'
  BY <1>1 DEF BackupInv, ArtifactComplete, Dumps!Heads
<1>7. /\ called.op # "none" /\ called.release \in Version
      /\ called.op = "backup" => artifact.by = c /\ ~artifact.complete
  BY <1>1, <1>4 DEF BackupInv, ScriptsBelong, ArtifactOwned
<1>8. called.op = "restore" <=> cli[c].op # "backup"
  BY <1>3, <1>4, <1>7 DEF Calling
<1> QED
  BY <1>1, <1>2, <1>3, <1>4, <1>5, <1>6, <1>7, <1>8, CopyFacts, CallKeeps

LEMMA PackKeeps ==
  ASSUME BackupInv, NEW c \in Call, Dumps!Pack(c)
  PROVE  BackupInv'
<1> USE PartsAssumption DEF PartsAssumption, Dumps!BackupAssumption
<1> DEFINE called == [cli[c] EXCEPT !.step = "passed"]
<1>1. /\ UNCHANGED <<db, services, target, toolLock, script>>
      /\ cli[c].step = "pack" /\ cli' = [cli EXCEPT ![c] = called]
  BY DEF Dumps!Pack
<1>2. /\ artifact \in Archive /\ cli[c] \in Calling /\ db \in Copy
      /\ script = [script EXCEPT ![c] = script[c]]
  BY DEF BackupInv, BackupShape
<1>3. /\ called \in Calling /\ called.step = "passed" /\ called.op = cli[c].op
      /\ called.release = cli[c].release
  BY <1>2 DEF Calling
<1> HIDE DEF called
<1>4. /\ script[c] = Dumps!NoScript /\ cli[c].op = "backup" /\ cli[c].release \in Version
      /\ services = "none" /\ artifact.by = c
      /\ db.objects = "all" /\ cli[c].output = db /\ db.heads = Dumps!Heads(cli[c].release)
  BY <1>1 DEF BackupInv, ScriptsBelong, Undisturbed, ReadIsHeld, ArtifactOwned
<1>5. artifact'.content = db
  <2>1. [db EXCEPT !.heads = db.heads] = db
    BY <1>2 DEF Copy
  <2> QED
    BY <1>4, <2>1 DEF Dumps!Pack
<1>6. artifact' \in Archive /\ artifact'.by = c /\ artifact'.complete
  BY <1>2, <1>5 DEF Archive, Dumps!Pack
<1>7. ArtifactComplete'
  BY <1>4, <1>5 DEF ArtifactComplete, Dumps!Heads
<1>8. script' = [script EXCEPT ![c] = Dumps!NoScript]
  BY <1>1, <1>2, <1>4
<1>9. ~Dumps!Holds(c)
  BY <1>4, CopyFacts DEF Dumps!Holds
<1> QED
  BY <1>1, <1>3, <1>4, <1>5, <1>6, <1>7, <1>8, <1>9, CopyFacts, CallKeeps

\* A call ends, well or not; its script goes on unless it has answered.
LEMMA LeaveKeeps ==
  ASSUME BackupInv, NEW c \in Call, Dumps!Report(c) \/ Dumps!FailCall(c) \/ Dumps!KillCall(c)
  PROVE  BackupInv'
<1> USE PartsAssumption DEF PartsAssumption, Dumps!BackupAssumption
<1> DEFINE run == IF script[c].step = "done" THEN Dumps!NoScript ELSE script[c]
<1>1. /\ UNCHANGED <<db, services, target, toolLock>>
      /\ cli[c].step # "idle" /\ cli' = [cli EXCEPT ![c] = Dumps!NoCall]
      /\ \/ artifact' = artifact
         \/ artifact' = Dumps!NoFile /\ artifact.by = c
  BY CopyFacts DEF Dumps!Report, Dumps!FailCall, Dumps!KillCall
<1>2. artifact \in Archive /\ script \in [Call -> Script]
  BY DEF BackupInv, BackupShape
<1>3. script' = [script EXCEPT ![c] = run]
  <2>1. CASE Dumps!Report(c)
    <3>1. script[c] = Dumps!NoScript /\ script' = script
      BY <2>1 DEF Dumps!Report, BackupInv, ScriptsBelong
    <3> QED
      BY <1>2, <3>1, CopyFacts
  <2>2. CASE Dumps!FailCall(c) \/ Dumps!KillCall(c)
    BY <1>2, <2>2 DEF Dumps!FailCall, Dumps!KillCall
  <2> QED
    BY <2>1, <2>2
<1>4. /\ run \in Script /\ run.step # "done"
      /\ run = script[c] \/ (run.step \in {"start", "none"} /\ ~Dumps!Holds(c))
  BY <1>2, CopyFacts DEF Dumps!Holds
<1> HIDE DEF run
<1>5. artifact' \in Archive /\ ArtifactComplete'
  BY <1>1, <1>2, CopyFacts DEF BackupInv, ArtifactComplete, Dumps!Heads
<1> QED
  BY <1>1, <1>3, <1>4, <1>5, CopyFacts, CallKeeps

-----------------------------------------------------------------------------
\* A step of a script: it holds the lock before, or finds it free.
LEMMA ScriptKeeps ==
  ASSUME BackupInv, NEW c \in Call, NEW run,
         UNCHANGED <<services, target, cli, artifact>>,
         script' = [script EXCEPT ![c] = run], run \in Script,
         script[c].step # "done" /\ script[c].step # "none",
         toolLock' \in BOOLEAN,
         run.step \in {"target", "import", "importing", "heads", "dump"} =>
           toolLock' /\ (Dumps!Holds(c) \/ ~toolLock),
         toolLock' = toolLock \/ Dumps!Holds(c) \/ ~toolLock,
         db' \in Copy, db' = db \/ db.objects # "all",
         services # "none" => db'.objects = "all",
         run.step = "done" => cli[c].step = "exec",
         cli[c].step = "exec" /\ run.step \in {"dump", "done"} =>
           db.objects = "all" /\ run.heads = db.heads,
         run.step = "done" => run.input = db
  PROVE  BackupInv'
<1> USE PartsAssumption DEF PartsAssumption, Dumps!BackupAssumption
<1>1. /\ script' \in [Call -> Script] /\ script'[c] = run
      /\ \A d \in Call \ {c} : script'[d] = script[d]
  BY DEF BackupInv, BackupShape
<1>2. BackupShape'
  BY <1>1 DEF BackupInv, BackupShape
<1>3. /\ Dumps!Holds(c)' => toolLock' /\ (Dumps!Holds(c) \/ ~toolLock)
      /\ \A d \in Call \ {c} : Dumps!Holds(d)' <=> Dumps!Holds(d)
  BY <1>1 DEF Dumps!Holds
<1>4. LockHeld'
  BY <1>3 DEF BackupInv, LockHeld, Dumps!OneScript
<1>5. Dumps!OneScript'
  BY <1>3 DEF BackupInv, LockHeld, Dumps!OneScript
<1>6. Undisturbed'
  BY DEF BackupInv, Undisturbed
<1>7. ScriptsBelong'
  BY <1>1, CopyFacts DEF BackupInv, ScriptsBelong, Dumps!NoScript, Dumps!Empty, Dumps!Heads
<1>8. ReadIsHeld' /\ ArtifactOwned'
  <2>1. ASSUME db' # db PROVE \A d \in Call :
          /\ ~(cli[d].step = "exec" /\ script[d].step \in {"dump", "done"})
          /\ cli[d].step \notin {"pack", "passed"}
    BY <2>1 DEF BackupInv, ReadIsHeld
  <2> QED
    BY <1>1, <2>1 DEF BackupInv, ReadIsHeld, ArtifactOwned, Dumps!Heads
<1>9. ArtifactComplete' /\ Dumps!ServedWhole'
  BY DEF BackupInv, ArtifactComplete, Dumps!ServedWhole, Dumps!Heads
<1> QED
  BY <1>2, <1>4, <1>5, <1>6, <1>7, <1>8, <1>9 DEF BackupInv

LEMMA TakeLockKeeps ==
  ASSUME BackupInv, NEW c \in Call, Dumps!TakeLock(c)
  PROVE  BackupInv'
<1> USE PartsAssumption DEF PartsAssumption, Dumps!BackupAssumption
<1> DEFINE run == [script[c] EXCEPT !.step = IF script[c].op = "restore" THEN "target" ELSE "heads"]
<1>1. /\ UNCHANGED <<db, services, target, cli, artifact>>
      /\ script[c].step = "start" /\ ~toolLock /\ toolLock' = TRUE
      /\ script' = [script EXCEPT ![c] = run]
  BY DEF Dumps!TakeLock, Dumps!Locked, BackupInv, BackupShape
<1>2. script[c] \in Script /\ db \in Copy
  BY DEF BackupInv, BackupShape
<1>3. run \in Script /\ run.step \in {"target", "heads"}
  BY <1>2 DEF Script
<1> HIDE DEF run
<1>4. services # "none" => db'.objects = "all"
  BY <1>1 DEF BackupInv, Dumps!ServedWhole
<1> QED
  BY <1>1, <1>2, <1>3, <1>4, ScriptKeeps

LEMMA CheckTargetKeeps ==
  ASSUME BackupInv, NEW c \in Call, Dumps!CheckTarget(c)
  PROVE  BackupInv'
<1> USE PartsAssumption DEF PartsAssumption, Dumps!BackupAssumption
<1> DEFINE run == [script[c] EXCEPT !.step = "import"]
<1>1. /\ UNCHANGED <<db, services, target, cli, artifact, toolLock>>
      /\ script[c].step = "target" /\ script' = [script EXCEPT ![c] = run]
  BY DEF Dumps!CheckTarget
<1>2. script[c] \in Script /\ db \in Copy /\ toolLock \in BOOLEAN
  BY DEF BackupInv, BackupShape
<1>3. run \in Script /\ run.step = "import"
  BY <1>2 DEF Script
<1> HIDE DEF run
<1>4. /\ services # "none" => db'.objects = "all"
      /\ Dumps!Holds(c) /\ toolLock
  BY <1>1 DEF BackupInv, Dumps!ServedWhole, LockHeld, Dumps!Holds
<1> QED
  BY <1>1, <1>2, <1>3, <1>4, ScriptKeeps

LEMMA ImportKeeps ==
  ASSUME BackupInv, NEW c \in Call, Dumps!Import(c)
  PROVE  BackupInv'
<1> USE PartsAssumption DEF PartsAssumption, Dumps!BackupAssumption
<1> DEFINE run == script'[c]
<1>1. script[c] \in Script /\ db \in Copy /\ toolLock \in BOOLEAN /\ script \in [Call -> Script]
  BY DEF BackupInv, BackupShape
<1>2. /\ UNCHANGED <<services, target, cli, artifact, toolLock>>
      /\ script[c].step \in {"import", "importing"} /\ db.objects # "all"
      /\ script' = [script EXCEPT ![c] = run]
      /\ run \in Script /\ run.step \in {"importing", "heads"}
      /\ db' \in Copy
  <2>1. UNCHANGED <<services, target, cli, artifact, toolLock>>
    BY DEF Dumps!Import
  <2>2. CASE /\ script[c].step = "import" /\ db.objects = "none"
             /\ db' = [script[c].input EXCEPT !.objects = "partial"]
             /\ script' = [script EXCEPT ![c].step = "importing"]
    BY <1>1, <2>1, <2>2 DEF Script, Copy
  <2>3. CASE /\ script[c].step = "importing" /\ db.objects = "partial"
             /\ db' = [db EXCEPT !.objects = "all"]
             /\ script' = [script EXCEPT ![c].step = "heads"]
    BY <1>1, <2>1, <2>3 DEF Script, Copy
  <2> QED
    BY <2>2, <2>3 DEF Dumps!Import
<1> HIDE DEF run
<1>3. services = "none" /\ Dumps!Holds(c) /\ toolLock
  BY <1>2 DEF BackupInv, Dumps!ServedWhole, LockHeld, Dumps!Holds
<1> QED
  BY <1>1, <1>2, <1>3, ScriptKeeps

LEMMA ReadHeadsKeeps ==
  ASSUME BackupInv, NEW c \in Call, Dumps!ReadHeads(c)
  PROVE  BackupInv'
<1> USE PartsAssumption DEF PartsAssumption, Dumps!BackupAssumption
<1> DEFINE run == [script[c] EXCEPT !.step = "dump", !.heads = db.heads]
<1>1. /\ UNCHANGED <<db, services, target, cli, artifact, toolLock>>
      /\ script[c].step = "heads" /\ script' = [script EXCEPT ![c] = run]
      /\ db.objects = "all"
  BY DEF Dumps!ReadHeads, BackupInv, BackupShape
<1>2. script[c] \in Script /\ db \in Copy /\ toolLock \in BOOLEAN
  BY DEF BackupInv, BackupShape
<1>3. run \in Script /\ run.step = "dump" /\ run.heads = db.heads
  BY <1>2 DEF Script, Copy
<1> HIDE DEF run
<1>4. Dumps!Holds(c) /\ toolLock
  BY <1>1 DEF BackupInv, LockHeld, Dumps!Holds
<1> QED
  BY <1>1, <1>2, <1>3, <1>4, ScriptKeeps

\* The trap gives the lock back.
LEMMA ScriptEndsKeeps ==
  ASSUME BackupInv, NEW c \in Call, Dumps!Dump(c) \/ Dumps!EndScript(c)
  PROVE  BackupInv'
<1> USE PartsAssumption DEF PartsAssumption, Dumps!BackupAssumption
<1> DEFINE run == IF script[c].step = "dump" /\ cli[c].step = "exec" /\ script'[c] # Dumps!NoScript
                  THEN [script[c] EXCEPT !.step = "done", !.input = db] ELSE Dumps!NoScript
<1>1. script[c] \in Script /\ db \in Copy /\ toolLock \in BOOLEAN /\ script \in [Call -> Script]
  BY DEF BackupInv, BackupShape
<1>2. /\ UNCHANGED <<db, services, target, cli, artifact>>
      /\ script[c].step \notin {"none", "done"}
      /\ script' = [script EXCEPT ![c] = run]
      /\ toolLock' \in BOOLEAN /\ (toolLock' = toolLock \/ Dumps!Holds(c))
  BY <1>1, CopyFacts DEF Dumps!Dump, Dumps!EndScript, Dumps!Holds
<1>3. /\ run \in Script /\ run.step \in {"done", "none"}
      /\ run.step = "done" => /\ script[c].step = "dump" /\ cli[c].step = "exec"
                              /\ run.input = db /\ run.heads = script[c].heads
  BY <1>1, CopyFacts DEF Script
<1> HIDE DEF run
<1>4. /\ services # "none" => db'.objects = "all"
      /\ run.step = "done" => db.objects = "all" /\ run.heads = db.heads
  BY <1>2, <1>3 DEF BackupInv, Dumps!ServedWhole, ReadIsHeld
<1> QED
  BY <1>1, <1>2, <1>3, <1>4, ScriptKeeps

LEMMA KillContainerKeeps ==
  ASSUME BackupInv, Dumps!KillContainer
  PROVE  BackupInv'
<1> USE PartsAssumption DEF PartsAssumption, Dumps!BackupAssumption
<1>1. /\ UNCHANGED <<db, services, target, toolLock, cli, artifact>>
      /\ script' = [c \in Call |-> IF script[c].step = "done" THEN script[c] ELSE Dumps!NoScript]
  BY DEF Dumps!KillContainer
<1>2. /\ script' \in [Call -> Script]
      /\ \A c \in Call : /\ script'[c] = script[c] \/ script'[c] = Dumps!NoScript
                         /\ ~Dumps!Holds(c)'
  BY <1>1, CopyFacts DEF BackupInv, BackupShape, Dumps!Holds
<1>3. BackupShape' /\ LockHeld' /\ Dumps!OneScript' /\ Undisturbed'
  BY <1>1, <1>2 DEF BackupInv, BackupShape, LockHeld, Dumps!OneScript, Undisturbed
<1>4. ScriptsBelong'
  <2>1. ASSUME NEW c \in Call
        PROVE  /\ cli'[c].step = "idle" => script'[c].step # "done"
               /\ cli'[c].step \in {"check", "pack", "passed"} => script'[c] = Dumps!NoScript
               /\ cli'[c].step # "idle" => cli'[c].release \in Version /\ cli'[c].op # "none"
               /\ cli'[c].step = "pack" => cli'[c].op = "backup"
    BY <1>1, <1>2, CopyFacts DEF BackupInv, ScriptsBelong
  <2> QED
    BY <2>1 DEF ScriptsBelong, Dumps!NoScript, Dumps!Empty, Dumps!Heads
<1>5. ReadIsHeld'
  BY <1>1, <1>2, CopyFacts DEF BackupInv, ReadIsHeld, Dumps!Heads
<1>6. ArtifactOwned' /\ ArtifactComplete' /\ Dumps!ServedWhole'
  BY <1>1 DEF BackupInv, ArtifactOwned, ArtifactComplete, Dumps!ServedWhole, Dumps!Heads
<1> QED
  BY <1>3, <1>4, <1>5, <1>6 DEF BackupInv

LEMMA BackupNext ==
  ASSUME BackupInv, Dumps!Next
  PROVE  BackupInv'
BY ServicesKeep, BeginKeeps, ExecKeeps, ReceiveKeeps, PackKeeps, LeaveKeeps, TakeLockKeeps,
   CheckTargetKeeps, ImportKeeps, ReadHeadsKeeps, ScriptEndsKeeps, KillContainerKeeps
   DEF Dumps!Next

LEMMA BackupInit == Init => BackupInv
<1> SUFFICES ASSUME Init PROVE BackupInv
  OBVIOUS
<1> USE PartsAssumption DEF PartsAssumption, Dumps!BackupAssumption
<1>1. /\ db \in {[objects |-> "all", data |-> 0, heads |-> Dumps!Heads(r)] : r \in Version}
              \cup {Dumps!Empty}
      /\ services \in {"none", "writers"} /\ (services = "writers" => db # Dumps!Empty)
      /\ target = 0 /\ toolLock = FALSE
      /\ cli = [c \in Call |-> Dumps!NoCall] /\ script = [c \in Call |-> Dumps!NoScript]
      /\ artifact = Dumps!NoFile
  BY DEF Init, Dumps!Init
<1>2. db \in Copy /\ (services = "writers" => db.objects = "all")
  <2>1. CASE db = Dumps!Empty
    BY <1>1, <2>1, CopyFacts
  <2>2. ASSUME NEW r \in Version, db = [objects |-> "all", data |-> 0, heads |-> Dumps!Heads(r)]
        PROVE  db \in Copy /\ db.objects = "all"
    BY <2>2, CopyFacts DEF Copy
  <2> QED
    BY <1>1, <2>1, <2>2
<1>3. BackupShape /\ Dumps!ServedWhole
  BY <1>1, <1>2, CopyFacts DEF BackupShape, Dumps!ServedWhole
<1>4. \A c \in Call : cli[c].step = "idle" /\ script[c].step = "none"
  BY <1>1, CopyFacts
<1>5. LockHeld /\ Dumps!OneScript /\ Undisturbed /\ ScriptsBelong
  BY <1>4 DEF LockHeld, Dumps!OneScript, Undisturbed, ScriptsBelong, Dumps!Holds
<1>6. ReadIsHeld /\ ArtifactOwned /\ ArtifactComplete
  BY <1>1, <1>4, CopyFacts DEF ReadIsHeld, ArtifactOwned, ArtifactComplete
<1> QED
  BY <1>3, <1>5, <1>6 DEF BackupInv

LEMMA BackupImplies == BackupInv => BackupSound
<1> SUFFICES ASSUME BackupInv PROVE BackupSound
  OBVIOUS
<1>1. Dumps!RestoredIsArtifact
  BY DEF BackupInv, ReadIsHeld, Dumps!RestoredIsArtifact
<1>2. Dumps!ArtifactWhole
  BY DEF BackupInv, ArtifactOwned, ArtifactComplete, Dumps!ArtifactWhole
<1> QED
  BY <1>1, <1>2 DEF BackupInv, BackupSound, Dumps!BackupSound

LEMMA BackupGoesOn == Spec => []BackupInv
<1>1. BackupInv /\ UNCHANGED backup => BackupInv'
  BY DEF backup, BackupInv, BackupShape, LockHeld, Dumps!OneScript, Dumps!Holds, Undisturbed,
         ScriptsBelong, ReadIsHeld, ArtifactOwned, ArtifactComplete, Dumps!ServedWhole,
         Dumps!NoScript, Dumps!Empty, Dumps!Heads
<1>2. BackupInv /\ [Next]_vars => BackupInv'
  BY <1>1, BackupNext, OthersRest DEF BackupStep
<1> QED
  BY BackupInit, <1>2, PTL DEF Spec

\* For any calls and releases: a restore that passed has restored the artifact, an
\* artifact is a whole database of one release, and what is served is whole.
THEOREM CopiesAreSound == Spec => []BackupSound
BY BackupGoesOn, BackupImplies, PTL

-----------------------------------------------------------------------------
Snapshot == [content : {"recorded", "other"}, mtime : Nat, inode : Nat]
Part == [frames : {"recorded", "other"}, pixels : {"recorded", "other"}]
VideoName == [kind : {"none", "analysis", "clip"}, work : Seq(Source), parts : Seq(Part)]
Cutting == [step : {"idle", "snapshot", "probe", "encode", "verify", "join", "publish"},
            kind : {"none", "analysis", "clip"}, work : Seq(Source), first : Seq(Snapshot),
            parts : Seq(Part), before : Snapshot, seen : {"none", "recorded", "other"}]
VideoRow == [manifest : {"none", "chunked", "legacy"}, pieces : SUBSET Nat, owners : SUBSET Worker]
Transaction == [step : {"compare", "content", "link", "commit"}, name : VideoName, row : VideoRow]

MediaShape ==
    /\ recordings \in [Source -> Snapshot] /\ changes \in Nat
    /\ asking \in [Worker -> Cutting] /\ tx \in [Worker -> {Media!NoTx} \cup Transaction]
    /\ prepared \in [Worker -> SUBSET VideoName]
    /\ inspections = [w \in Worker |-> inspections[w]]
    /\ DOMAIN stored \subseteq VideoName /\ \A name \in DOMAIN stored : stored[name] \in VideoRow
    /\ reading.step \in {"idle", "open", "unavailable"}

\* No file is newer than the last change.
Aged(snapshot) == snapshot.mtime <= changes /\ snapshot.inode <= changes

\* The recording that `before` was taken of, while a part is made.
Subject(c) == c.work[IF c.step = "verify" THEN Len(c.parts) ELSE Len(c.parts) + 1]

\* The parts that were verified are genuine, and the one that is made is so as long
\* as the recording is that of the snapshot.
Sound(c) ==
    /\ Aged(c.before)
    /\ c.step \in {"snapshot", "probe", "encode"} => Len(c.parts) < Len(c.work)
    /\ c.step = "verify" => Len(c.parts) \in 1 .. Len(c.work)
    /\ c.step \in {"encode", "verify"} => c.seen # "none"
    /\ \A i \in 1 .. Len(c.parts) :
        c.step # "verify" \/ i < Len(c.parts) => c.parts[i] = Media!Genuine
    /\ c.step \in {"probe", "encode", "verify"} =>
        /\ c.before.content = "recorded"
        /\ recordings[Subject(c)] = c.before =>
            /\ c.step \in {"encode", "verify"} => c.seen = "recorded"
            /\ c.step = "verify" => c.parts[Len(c.parts)] = Media!Genuine

FilesAged == \A s \in Source : Aged(recordings[s])

CallsSound == \A w \in Worker : Sound(asking[w])

\* What a transaction found stored, and has not changed but for the owners.
Found(t) ==
    IF t.name \in DOMAIN stored
    THEN /\ t.row.manifest = stored[t.name].manifest
         /\ t.row.pieces = stored[t.name].pieces
         /\ stored[t.name].owners \subseteq t.row.owners
         /\ t.step # "content"
    ELSE t.step # "compare"

\* A transaction has the video of its call for itself.
Exclusive(w, t) ==
    /\ asking[w].step = "publish" /\ t.name = Media!Name(w)
    /\ \A v \in Worker \ {w} : tx[v].step # "none" => tx[v].name # t.name

Matches(w, t) ==
    /\ Exclusive(w, t) /\ Found(t)
    /\ t.step \in {"link", "commit"} => Media!Whole(t.row)
    /\ t.step = "commit" => w \in t.row.owners

TransactionsMatch == \A w \in Worker : tx[w].step # "none" => Matches(w, tx[w])

\* A reader has read the first pieces of the form it found.
ReadingMatches ==
    reading.step = "open" =>
        /\ reading = [step |-> "open", name |-> reading.name, manifest |-> reading.manifest,
                      pieces |-> reading.pieces]
        /\ reading.name \in DOMAIN stored
        /\ reading.manifest = stored[reading.name].manifest
        /\ IF reading.manifest = "legacy" THEN reading.pieces \in {{}, {0}}
           ELSE \E k \in 0 .. Chunks : reading.pieces = 1 .. k

PreparedHanded == \A w \in Worker : \A name \in prepared[w] : [name |-> name, to |-> w] \in given

MediaInv ==
    /\ MediaShape /\ FilesAged /\ CallsSound /\ TransactionsMatch /\ ReadingMatches
    /\ PreparedHanded
    /\ Media!OnlyRecorded /\ Media!InspectionsTrue /\ Media!StoredWhole /\ Media!HandedReadable

LEMMA Appended ==
  ASSUME NEW S, NEW sequence \in Seq(S), NEW x \in S
  PROVE  /\ Append(sequence, x) \in Seq(S) /\ Len(Append(sequence, x)) = Len(sequence) + 1
         /\ Append(sequence, x)[Len(sequence) + 1] = x
         /\ \A i \in 1 .. Len(sequence) : Append(sequence, x)[i] = sequence[i]
OBVIOUS

LEMMA MediaConstants ==
  ASSUME PartsAssumption
  PROVE  /\ Media!Registered \in Snapshot /\ Media!Registered.content = "recorded"
         /\ Media!Registered.mtime = 0 /\ Media!Registered.inode = 0
         /\ Media!Genuine \in Part
         /\ Media!NoCall \in Cutting /\ Media!NoCall.step = "idle" /\ Media!NoCall.parts = <<>>
         /\ Media!NoCall.before = Media!Registered
         /\ Media!NoTx.step = "none"
         /\ \A t \in {Media!NoTx} \cup Transaction : t.step # "none" => t \in Transaction
BY DEF Media!Registered, Snapshot, Media!Genuine, Part, Media!NoCall, Cutting, Media!NoTx, Transaction

\* A file changes into one that no snapshot was taken of.
LEMMA ChangeKeeps ==
  ASSUME MediaInv, NEW s \in Source, Media!Change(s)
  PROVE  MediaInv'
<1> USE PartsAssumption
<1>1. /\ changes' = changes + 1
      /\ UNCHANGED <<calls, asking, inspections, prepared, stored, tx, given, reading>>
  BY DEF Media!Change
<1>2. changes \in Nat /\ recordings \in [Source -> Snapshot] /\ FilesAged
  BY DEF MediaInv, MediaShape
<1>3. /\ recordings' \in [Source -> Snapshot]
      /\ \A q \in Source \ {s} : recordings'[q] = recordings[q]
      /\ recordings'[s].mtime <= changes' /\ recordings'[s].inode <= changes'
      /\ recordings'[s].mtime = changes' \/ recordings'[s].inode = changes'
  <2>1. CASE recordings' = [recordings EXCEPT ![s].content = "other", ![s].mtime = changes']
    BY <1>1, <1>2, <2>1 DEF Snapshot, FilesAged, Aged
  <2>2. CASE recordings' = [recordings EXCEPT ![s] = [Media!Registered EXCEPT !.inode = changes']]
    <3> DEFINE new == [Media!Registered EXCEPT !.inode = changes']
    <3>1. new \in Snapshot /\ new.mtime = 0 /\ new.inode = changes' /\ changes' \in Nat
      BY <1>1, <1>2, MediaConstants DEF Snapshot
    <3>2. recordings' = [recordings EXCEPT ![s] = new]
      BY <2>2
    <3>3. 0 <= changes'
      BY <3>1
    <3> HIDE DEF new
    <3> QED
      BY <1>2, <3>1, <3>2, <3>3
  <2> QED
    BY <2>1, <2>2 DEF Media!Change
<1>4. MediaShape'
  BY <1>1, <1>2, <1>3 DEF MediaInv, MediaShape
<1>5. FilesAged'
  BY <1>1, <1>2, <1>3 DEF FilesAged, Aged, Snapshot
<1>6. CallsSound'
  <2> SUFFICES ASSUME NEW w \in Worker PROVE Sound(asking[w])'
    BY DEF CallsSound
  <2> DEFINE c == asking[w]
  <2>1. c \in Cutting /\ Sound(c) /\ c' = c
    BY <1>1 DEF MediaInv, MediaShape, CallsSound
  <2>2. c.before \in Snapshot
    BY <2>1 DEF Cutting
  <2> HIDE DEF c
  <2>3. Aged(c.before)'
    BY <1>1, <1>2, <2>1, <2>2 DEF Sound, Aged, Snapshot
  <2>4. \A q \in Source : recordings'[q] = c.before => recordings[q] = c.before
    BY <1>1, <1>2, <1>3, <2>1, <2>2 DEF Sound, Aged, Snapshot
  <2>5. c.step \in {"probe", "encode", "verify"} => Subject(c) \in Source
    BY <2>1 DEF Sound, Subject, Cutting
  <2> QED
    BY <2>1, <2>3, <2>4, <2>5 DEF Sound, Subject, c
<1>7. TransactionsMatch' /\ ReadingMatches' /\ PreparedHanded'
  BY <1>1 DEF MediaInv, TransactionsMatch, ReadingMatches, PreparedHanded, Media!Name, Matches,
       Exclusive, Found, Media!Whole
<1>8. Media!OnlyRecorded' /\ Media!InspectionsTrue' /\ Media!StoredWhole' /\ Media!HandedReadable'
  BY <1>1 DEF MediaInv, Media!OnlyRecorded, Media!InspectionsTrue, Media!StoredWhole,
       Media!HandedReadable, Media!Whole
<1> QED
  BY <1>4, <1>5, <1>6, <1>7, <1>8 DEF MediaInv

\* A step of a call that holds no transaction.
LEMMA CuttingKeeps ==
  ASSUME MediaInv, NEW w \in Worker, NEW new \in Cutting, tx[w].step = "none",
         UNCHANGED <<recordings, changes, prepared, stored, tx, reading>>,
         asking' = [asking EXCEPT ![w] = new], Sound(new),
         inspections' = [v \in Worker |-> inspections'[v]], Media!InspectionsTrue',
         \A h \in given' : h \in given \/ (h.to = w /\ h.name \in prepared[w]),
         given \subseteq given'
  PROVE  MediaInv'
<1> USE PartsAssumption
<1>1. /\ asking' \in [Worker -> Cutting] /\ asking'[w] = new
      /\ \A v \in Worker \ {w} : asking'[v] = asking[v]
  BY DEF MediaInv, MediaShape
<1>2. MediaShape' /\ FilesAged'
  BY <1>1 DEF MediaInv, MediaShape, FilesAged, Aged
<1>3. CallsSound'
  <2>1. ASSUME NEW v \in Worker PROVE Sound(asking'[v])
    BY <1>1 DEF MediaInv, CallsSound
  <2> QED
    BY <2>1 DEF CallsSound, Sound, Aged, Subject
<1>4. TransactionsMatch'
  BY <1>1 DEF MediaInv, TransactionsMatch, Matches, Media!Name, Exclusive,
       Found, Media!Whole
<1>5. ReadingMatches' /\ PreparedHanded'
  BY DEF MediaInv, ReadingMatches, PreparedHanded
<1>6. Media!OnlyRecorded' /\ Media!StoredWhole'
  BY DEF MediaInv, Media!OnlyRecorded, Media!StoredWhole, Media!Whole
<1>7. Media!HandedReadable'
  <2>1. \A name \in prepared[w] : [name |-> name, to |-> w] \in given
    BY DEF MediaInv, PreparedHanded
  <2>2. \A name \in prepared[w] : name \in DOMAIN stored /\ w \in stored[name].owners
    BY <2>1 DEF MediaInv, Media!HandedReadable
  <2> QED
    BY <2>2 DEF MediaInv, Media!HandedReadable
<1> QED
  BY <1>2, <1>3, <1>4, <1>5, <1>6, <1>7 DEF MediaInv

\* Before the video is published there is no transaction.
LEMMA NoTransaction ==
  ASSUME MediaInv, NEW w \in Worker
  PROVE  /\ asking[w] \in Cutting /\ Sound(asking[w]) /\ asking \in [Worker -> Cutting]
         /\ inspections = [v \in Worker |-> inspections[v]] /\ Media!InspectionsTrue
         /\ asking[w].step # "publish" => tx[w].step = "none"
BY DEF MediaInv, MediaShape, CallsSound, TransactionsMatch, Matches, Exclusive

LEMMA InspectionsRest ==
  ASSUME MediaInv, UNCHANGED inspections
  PROVE  inspections' = [v \in Worker |-> inspections'[v]] /\ Media!InspectionsTrue'
BY DEF MediaInv, MediaShape, Media!InspectionsTrue

LEMMA BeginVideoKeeps ==
  ASSUME MediaInv, NEW w \in Worker, NEW r \in Wanted, Media!BeginAnalysis(w, r) \/ Media!BeginClip(w, r)
  PROVE  MediaInv'
<1> USE PartsAssumption DEF PartsAssumption, Media!MediaAssumption
<1> DEFINE first == [i \in 1 .. Len(r.work) |-> recordings[r.work[i]]]
           new == [Media!NoCall EXCEPT !.step = "snapshot", !.kind = r.kind, !.work = r.work, !.first = first]
<1>1. /\ UNCHANGED <<recordings, changes, inspections, prepared, stored, tx, given, reading>>
      /\ asking[w].step = "idle"
      /\ asking' = asking \/ asking' = [asking EXCEPT ![w] = new]
  BY DEF Media!BeginAnalysis, Media!BeginClip, Media!Asks, Media!Prepares
<1>2. r.kind \in {"analysis", "clip"} /\ r.work \in Seq(Source) /\ r.work # <<>>
  OBVIOUS
<1>3. first \in Seq(Snapshot)
  BY <1>2 DEF MediaInv, MediaShape
<1> HIDE DEF first
<1>4. /\ new \in Cutting /\ new.step = "snapshot" /\ new.parts = <<>> /\ new.work = r.work
      /\ new.before = Media!Registered
  BY <1>2, <1>3, MediaConstants DEF Cutting, Media!NoCall
<1> HIDE DEF new
<1>5. Sound(new)
  BY <1>2, <1>4, MediaConstants DEF Sound, Aged, MediaInv, MediaShape
<1>6. tx[w].step = "none" /\ Sound(asking[w]) /\ asking[w] \in Cutting
      /\ asking = [asking EXCEPT ![w] = asking[w]]
  BY <1>1, NoTransaction
<1> QED
  BY <1>1, <1>4, <1>5, <1>6, InspectionsRest, CuttingKeeps

LEMMA TakeSnapshotKeeps ==
  ASSUME MediaInv, NEW w \in Worker, Media!TakeSnapshot(w)
  PROVE  MediaInv'
<1> USE PartsAssumption
<1> DEFINE c == asking[w]
           file == recordings[Media!Current(w)]
           new == [c EXCEPT !.step = "probe", !.before = file]
<1>1. /\ UNCHANGED <<recordings, changes, inspections, prepared, stored, tx, given, reading>>
      /\ c.step = "snapshot" /\ Media!AsRegistered(file)
      /\ asking' = [asking EXCEPT ![w] = new]
  BY DEF Media!TakeSnapshot, MediaInv, MediaShape
<1>2. c \in Cutting /\ Sound(c) /\ tx[w].step = "none"
  BY <1>1, NoTransaction
<1>3. Media!Current(w) = c.work[Len(c.parts) + 1] /\ Media!Current(w) \in Source
  BY <1>1, <1>2 DEF Media!Current, Sound, Cutting
<1>4. file \in Snapshot /\ Aged(file) /\ file.content = "recorded"
  <2>1. file \in Snapshot /\ Aged(file)
    BY <1>3 DEF MediaInv, MediaShape, FilesAged
  <2> HIDE DEF file
  <2>2. [file EXCEPT !.inode = 0].content = "recorded"
    BY <1>1, MediaConstants DEF Media!AsRegistered
  <2> QED
    BY <2>1, <2>2 DEF Snapshot
<1> HIDE DEF c, file
<1>5. /\ new \in Cutting /\ new.step = "probe" /\ new.before = file /\ new.parts = c.parts
      /\ new.work = c.work
  BY <1>2, <1>4 DEF Cutting
<1> HIDE DEF new
<1>6. Sound(new)
  BY <1>1, <1>2, <1>4, <1>5 DEF Sound, Subject
<1> QED
  BY <1>1, <1>2, <1>5, <1>6, InspectionsRest, CuttingKeeps

LEMMA ProbeKeeps ==
  ASSUME MediaInv, NEW w \in Worker, Media!Probe(w)
  PROVE  MediaInv'
<1> USE PartsAssumption
<1> DEFINE c == asking[w]
           found == IF Media!Key(w) \in DOMAIN inspections[w] THEN inspections[w][Media!Key(w)]
                    ELSE recordings[Media!Current(w)].content
           new == [c EXCEPT !.step = "encode", !.seen = found]
<1>1. /\ UNCHANGED <<recordings, changes, inspections, prepared, stored, tx, given, reading>>
      /\ c.step = "probe" /\ asking' = [asking EXCEPT ![w] = new]
  BY DEF Media!Probe, MediaInv, MediaShape
<1>2. c \in Cutting /\ Sound(c) /\ tx[w].step = "none"
  BY <1>1, NoTransaction
<1>3. /\ Media!Current(w) = Subject(c) /\ Media!Current(w) \in Source
      /\ Media!Key(w) = <<Media!Current(w), c.before>>
  BY <1>1, <1>2 DEF Media!Current, Media!Key, Sound, Cutting, Subject
<1>4. /\ found \in {"recorded", "other"}
      /\ recordings[Subject(c)] = c.before => found = "recorded"
  <2>1. c.before.content = "recorded" /\ c.before \in Snapshot
    BY <1>1, <1>2 DEF Sound, Cutting
  <2>2. CASE Media!Key(w) \in DOMAIN inspections[w]
    BY <1>3, <2>1, <2>2, NoTransaction DEF Media!InspectionsTrue
  <2>3. CASE Media!Key(w) \notin DOMAIN inspections[w]
    <3>1. recordings[Media!Current(w)] \in Snapshot
      BY <1>3 DEF MediaInv, MediaShape
    <3> QED
      BY <1>3, <2>1, <2>3, <3>1 DEF Snapshot
  <2> QED
    BY <2>2, <2>3
<1> HIDE DEF c, found
<1>5. /\ new \in Cutting /\ new.step = "encode" /\ new.before = c.before /\ new.parts = c.parts
      /\ new.work = c.work /\ new.seen = found
  BY <1>2, <1>4 DEF Cutting
<1> HIDE DEF new
<1>6. Sound(new)
  BY <1>1, <1>2, <1>4, <1>5 DEF Sound, Subject
<1> QED
  BY <1>1, <1>2, <1>5, <1>6, InspectionsRest, CuttingKeeps

LEMMA EncodeKeeps ==
  ASSUME MediaInv, NEW w \in Worker, Media!Encode(w)
  PROVE  MediaInv'
<1> USE PartsAssumption
<1> DEFINE c == asking[w]
           piece == [frames |-> c.seen, pixels |-> recordings[Media!Current(w)].content]
           new == [c EXCEPT !.step = "verify", !.parts = Append(c.parts, piece)]
<1>1. /\ UNCHANGED <<recordings, changes, inspections, prepared, stored, tx, given, reading>>
      /\ c.step = "encode" /\ asking' = [asking EXCEPT ![w] = new]
  BY DEF Media!Encode, MediaInv, MediaShape
<1>2. c \in Cutting /\ Sound(c) /\ tx[w].step = "none"
  BY <1>1, NoTransaction
<1>3. Media!Current(w) = Subject(c) /\ Media!Current(w) \in Source
  BY <1>1, <1>2 DEF Media!Current, Sound, Cutting, Subject
<1>4. /\ piece \in Part
      /\ recordings[Subject(c)] = c.before => piece = Media!Genuine
  <2>1. recordings[Media!Current(w)] \in Snapshot /\ c.seen \in {"recorded", "other"}
    BY <1>1, <1>2, <1>3 DEF MediaInv, MediaShape, Sound, Cutting
  <2>2. recordings[Subject(c)] = c.before => c.seen = "recorded" /\ c.before.content = "recorded"
    BY <1>1, <1>2 DEF Sound
  <2> QED
    BY <1>3, <2>1, <2>2 DEF Snapshot, Part, Media!Genuine
<1> HIDE DEF c, piece
<1>9. c.parts \in Seq(Part) /\ c.work \in Seq(Source) /\ Append(c.parts, piece) \in Seq(Part)
  <2>1. c.parts \in Seq(Part) /\ c.work \in Seq(Source)
    BY <1>2 DEF Cutting
  <2> QED
    BY <1>4, <2>1, Appended
<1>5. /\ new.step = "verify" /\ new.before = c.before /\ new.work = c.work /\ new.seen = c.seen
      /\ new.parts = Append(c.parts, piece) /\ c.parts \in Seq(Part) /\ c.work \in Seq(Source)
      /\ new \in Cutting
  BY <1>2, <1>9 DEF Cutting
<1>6. /\ Len(new.parts) = Len(c.parts) + 1 /\ new.parts[Len(c.parts) + 1] = piece
      /\ \A i \in 1 .. Len(c.parts) : new.parts[i] = c.parts[i]
      /\ Len(c.parts) \in Nat /\ Len(c.work) \in Nat
  BY <1>4, <1>5, Appended
<1> HIDE DEF new
<1>7. Subject(new) = Subject(c)
  BY <1>1, <1>5, <1>6 DEF Subject
<1>8. Sound(new)
  BY <1>1, <1>2, <1>4, <1>5, <1>6, <1>7 DEF Sound
<1> QED
  BY <1>1, <1>2, <1>5, <1>8, InspectionsRest, CuttingKeeps

LEMMA VerifyKeeps ==
  ASSUME MediaInv, NEW w \in Worker, Media!Verify(w)
  PROVE  MediaInv'
<1> USE PartsAssumption
<1> DEFINE c == asking[w]
           key == <<Media!Last(w), c.before>>
           known == [k \in DOMAIN inspections[w] \cup {key} |->
                        IF k = key THEN c.seen ELSE inspections[w][k]]
           new == [c EXCEPT !.step = IF Len(c.parts) < Len(c.work) THEN "snapshot" ELSE "join"]
<1>1. /\ UNCHANGED <<recordings, changes, prepared, stored, tx, given, reading>>
      /\ c.step = "verify" /\ asking' = [asking EXCEPT ![w] = new]
      /\ recordings[Media!Last(w)] = c.before
      /\ inspections' = [inspections EXCEPT ![w] = known]
  BY DEF Media!Verify, Media!Unchanged, MediaInv, MediaShape
<1>2. c \in Cutting /\ Sound(c) /\ tx[w].step = "none"
  BY <1>1, NoTransaction
<1>3. Media!Last(w) = Subject(c)
  BY <1>1 DEF Media!Last, Subject
<1>4. c.seen = "recorded" /\ c.before.content = "recorded" /\ c.parts[Len(c.parts)] = Media!Genuine
  BY <1>1, <1>2, <1>3 DEF Sound
<1>5. inspections' = [v \in Worker |-> inspections'[v]] /\ Media!InspectionsTrue'
  <2>1. DOMAIN inspections = Worker
    BY NoTransaction
  <2> HIDE DEF known
  <2>2. /\ inspections' = [v \in Worker |-> inspections'[v]] /\ inspections'[w] = known
        /\ \A v \in Worker \ {w} : inspections'[v] = inspections[v]
    BY <1>1, <2>1, NoTransaction
  <2>3. \A k \in DOMAIN known : known[k] = k[2].content
    <3>1. key[2] = c.before
      OBVIOUS
    <3> HIDE DEF key, c
    <3> QED
      BY <1>4, <3>1, NoTransaction DEF known, Media!InspectionsTrue
  <2> QED
    BY <2>2, <2>3, NoTransaction DEF Media!InspectionsTrue
<1> HIDE DEF c, known
<1>6. /\ new.step = IF Len(c.parts) < Len(c.work) THEN "snapshot" ELSE "join"
      /\ new.before = c.before /\ new.work = c.work
      /\ new.parts = c.parts /\ c.parts \in Seq(Part) /\ c.work \in Seq(Source)
      /\ new \in Cutting
  BY <1>2 DEF Cutting
<1> HIDE DEF new
<1>7. \A i \in 1 .. Len(c.parts) : c.parts[i] = Media!Genuine
  BY <1>1, <1>2, <1>4, <1>6 DEF Sound
<1>8. Sound(new)
  BY <1>2, <1>6, <1>7 DEF Sound
<1> QED
  BY <1>1, <1>2, <1>5, <1>6, <1>8, CuttingKeeps

LEMMA JoinKeeps ==
  ASSUME MediaInv, NEW w \in Worker, Media!Join(w)
  PROVE  MediaInv'
<1> USE PartsAssumption
<1> DEFINE c == asking[w]
           published == [c EXCEPT !.step = "publish"]
<1>1. /\ UNCHANGED <<recordings, changes, inspections, prepared, stored, tx, reading>>
      /\ c.step = "join"
      /\ \/ /\ asking' = [asking EXCEPT ![w] = Media!NoCall] /\ Media!Name(w) \in prepared[w]
            /\ given' = given \cup {[name |-> Media!Name(w), to |-> w]}
         \/ asking' = [asking EXCEPT ![w] = published] /\ given' = given
  BY DEF Media!Join, Media!Return, MediaInv, MediaShape
<1>2. c \in Cutting /\ Sound(c) /\ tx[w].step = "none"
  BY <1>1, NoTransaction
<1> HIDE DEF c
<1>3. /\ published \in Cutting /\ published.step = "publish" /\ published.before = c.before
      /\ published.parts = c.parts
  BY <1>2 DEF Cutting
<1> HIDE DEF published
<1>4. Sound(published)
  BY <1>1, <1>2, <1>3 DEF Sound
<1>5. Sound(Media!NoCall) /\ Media!NoCall \in Cutting
  BY MediaConstants DEF Sound, Aged, MediaInv, MediaShape
<1>6. CASE asking' = [asking EXCEPT ![w] = published] /\ given' = given
  BY <1>1, <1>2, <1>3, <1>4, <1>6, InspectionsRest, CuttingKeeps
<1>7. CASE /\ asking' = [asking EXCEPT ![w] = Media!NoCall] /\ Media!Name(w) \in prepared[w]
           /\ given' = given \cup {[name |-> Media!Name(w), to |-> w]}
  <2>1. \A h \in given' : h \in given \/ (h.to = w /\ h.name \in prepared[w])
    BY <1>7
  <2> QED
    BY <1>1, <1>2, <1>5, <1>7, <2>1, InspectionsRest, CuttingKeeps
<1> QED
  BY <1>1, <1>6, <1>7

\* A step of a transaction before its commit.
LEMMA TransactionKeeps ==
  ASSUME MediaInv, NEW w \in Worker, NEW t \in {Media!NoTx} \cup Transaction,
         UNCHANGED <<recordings, changes, asking, inspections, prepared, stored, given, reading>>,
         tx' = [tx EXCEPT ![w] = t], t.step # "none" => Matches(w, t)
  PROVE  MediaInv'
<1> USE PartsAssumption
<1>1. /\ tx' \in [Worker -> {Media!NoTx} \cup Transaction] /\ tx'[w] = t
      /\ \A v \in Worker \ {w} : tx'[v] = tx[v]
  BY DEF MediaInv, MediaShape
<1>2. MediaShape' /\ FilesAged' /\ CallsSound'
  BY <1>1 DEF MediaInv, MediaShape, FilesAged, Aged, CallsSound, Sound, Subject
<1>3. TransactionsMatch'
  <2> SUFFICES ASSUME NEW v \in Worker, tx'[v].step # "none" PROVE Matches(v, tx[v])'
    BY DEF TransactionsMatch
  <2>1. Found(tx[v])'
    BY <1>1 DEF MediaInv, TransactionsMatch, Matches, Found
  <2>2. Exclusive(v, tx[v])'
    BY <1>1 DEF MediaInv, TransactionsMatch, Matches, Exclusive, Media!Name
  <2>3. /\ tx'[v].step \in {"link", "commit"} => Media!Whole(tx'[v].row)
        /\ tx'[v].step = "commit" => v \in tx'[v].row.owners
    BY <1>1 DEF MediaInv, TransactionsMatch, Matches
  <2> QED
    BY <2>1, <2>2, <2>3 DEF Matches, Media!Whole
<1>4. ReadingMatches' /\ PreparedHanded'
  BY DEF MediaInv, ReadingMatches, PreparedHanded
<1>5. Media!OnlyRecorded' /\ Media!InspectionsTrue' /\ Media!StoredWhole' /\ Media!HandedReadable'
  BY DEF MediaInv, Media!OnlyRecorded, Media!InspectionsTrue, Media!StoredWhole, Media!Whole,
       Media!HandedReadable
<1> QED
  BY <1>2, <1>3, <1>4, <1>5 DEF MediaInv

\* The open transaction of an execution, and that there is one.
LEMMA OpenTransaction ==
  ASSUME MediaInv, NEW w \in Worker, tx[w].step # "none"
  PROVE  /\ tx[w] \in Transaction /\ tx \in [Worker -> {Media!NoTx} \cup Transaction]
         /\ tx[w].row \in VideoRow /\ tx[w].name \in VideoName
         /\ Matches(w, tx[w])
<1>1. tx[w] \in Transaction
  BY MediaConstants, PartsAssumption DEF MediaInv, MediaShape
<1> QED
  BY <1>1 DEF MediaInv, MediaShape, TransactionsMatch, Transaction

LEMMA PutMediaKeeps ==
  ASSUME MediaInv, NEW w \in Worker, Media!PutMedia(w)
  PROVE  MediaInv'
<1> DEFINE name == Media!Name(w)
           row == IF name \in DOMAIN stored THEN stored[name] ELSE Media!NoRow
           t == [step |-> IF row.manifest = "none" THEN "content" ELSE "compare",
                 name |-> name, row |-> row]
<1>1. /\ UNCHANGED <<recordings, changes, asking, inspections, prepared, stored, given, reading>>
      /\ asking[w].step = "publish" /\ tx' = [tx EXCEPT ![w] = t]
      /\ \A v \in Worker \ {w} : tx[v].step # "none" => tx[v].name # name
  BY DEF Media!PutMedia, Media!Waits
<1>2. name \in VideoName
  BY NoTransaction DEF Media!Name, VideoName, Cutting
<1>3. /\ Media!NoRow \in VideoRow /\ Media!NoRow.manifest = "none"
      /\ \A n \in DOMAIN stored : stored[n] \in VideoRow /\ stored[n].manifest # "none"
  <2>1. Media!NoRow \in VideoRow /\ Media!NoRow.manifest = "none"
    BY DEF Media!NoRow, VideoRow
  <2> QED
    BY <2>1 DEF MediaInv, MediaShape, Media!StoredWhole, Media!Whole
<1>4. /\ row \in VideoRow /\ (name \in DOMAIN stored => row = stored[name])
      /\ row.manifest = "none" <=> name \notin DOMAIN stored
  BY <1>3
<1> HIDE DEF row
<1>5. /\ t \in Transaction /\ t.name = name /\ t.row = row /\ t.step \in {"content", "compare"}
      /\ t.step = "content" <=> name \notin DOMAIN stored
  BY <1>2, <1>4 DEF Transaction
<1> HIDE DEF t
<1>6. Exclusive(w, t)
  BY <1>1, <1>5 DEF Exclusive
<1>7. Found(t)
  BY <1>4, <1>5 DEF Found
<1>8. Matches(w, t)
  BY <1>5, <1>6, <1>7 DEF Matches
<1> QED
  BY <1>1, <1>5, <1>8, TransactionKeeps

LEMMA CompareKeeps ==
  ASSUME MediaInv, NEW w \in Worker, Media!Compare(w)
  PROVE  MediaInv'
<1> DEFINE o == tx[w]
           t == [o EXCEPT !.step = "link"]
<1>1. /\ UNCHANGED <<recordings, changes, asking, inspections, prepared, stored, given, reading>>
      /\ o.step = "compare" /\ Media!Whole(o.row) /\ tx' = [tx EXCEPT ![w] = t]
  BY DEF Media!Compare, MediaInv, MediaShape
<1>2. o \in Transaction /\ Matches(w, o)
  BY <1>1, OpenTransaction
<1> HIDE DEF o
<1>3. t \in Transaction /\ t.step = "link" /\ t.name = o.name /\ t.row = o.row
  BY <1>2 DEF Transaction
<1> HIDE DEF t
<1>4. Matches(w, t)
  BY <1>1, <1>2, <1>3 DEF Matches, Exclusive, Found
<1> QED
  BY <1>1, <1>3, <1>4, TransactionKeeps

\* One more piece of a video that is not stored.
LEMMA PutPieceKeeps ==
  ASSUME MediaInv, NEW w \in Worker, Media!PutPiece(w)
  PROVE  MediaInv'
<1> DEFINE o == tx[w]
<1>1. /\ UNCHANGED <<recordings, changes, asking, inspections, prepared, stored, given, reading>>
      /\ o.step = "content"
  BY DEF Media!PutPiece
<1>2. PICK i \in Nat : tx' = [tx EXCEPT ![w].row.pieces = @ \cup {i}]
  BY PartsAssumption DEF Media!PutPiece, PartsAssumption, Media!MediaAssumption
<1> DEFINE grown == [o.row EXCEPT !.pieces = @ \cup {i}]
           t == [o EXCEPT !.row = grown]
<1>3. tx' = [tx EXCEPT ![w] = t]
  BY <1>2 DEF MediaInv, MediaShape
<1>4. o \in Transaction /\ Matches(w, o) /\ o.row \in VideoRow
  BY <1>1, OpenTransaction
<1> HIDE DEF o
<1>5. grown \in VideoRow
  BY <1>4 DEF VideoRow
<1> HIDE DEF grown
<1>6. t \in Transaction /\ t.step = "content" /\ t.name = o.name
  BY <1>1, <1>4, <1>5 DEF Transaction
<1> HIDE DEF t
<1>7. Matches(w, t)
  BY <1>1, <1>4, <1>6 DEF Matches, Exclusive, Found
<1> QED
  BY <1>1, <1>3, <1>6, <1>7, TransactionKeeps

LEMMA PutManifestKeeps ==
  ASSUME MediaInv, NEW w \in Worker, Media!PutManifest(w)
  PROVE  MediaInv'
<1> DEFINE o == tx[w]
           named_row == [o.row EXCEPT !.manifest = Format[w]]
           t == [o EXCEPT !.row = named_row, !.step = "link"]
<1>1. /\ UNCHANGED <<recordings, changes, asking, inspections, prepared, stored, given, reading>>
      /\ o.step = "content" /\ Media!Whole(named_row)
  BY DEF Media!PutManifest, Media!AllPut
<1>2. tx' = [tx EXCEPT ![w] = t]
  BY DEF Media!PutManifest, MediaInv, MediaShape
<1>3. o \in Transaction /\ Matches(w, o) /\ o.row \in VideoRow
  BY <1>1, OpenTransaction
<1> HIDE DEF o
<1>4. named_row \in VideoRow
  BY <1>3, PartsAssumption DEF VideoRow, PartsAssumption, Media!MediaAssumption
<1> HIDE DEF named_row
<1>5. t \in Transaction /\ t.step = "link" /\ t.name = o.name /\ t.row = named_row
  BY <1>3, <1>4 DEF Transaction
<1> HIDE DEF t
<1>6. Matches(w, t)
  BY <1>1, <1>3, <1>5 DEF Matches, Exclusive, Found
<1> QED
  BY <1>1, <1>2, <1>5, <1>6, TransactionKeeps

LEMMA LinkKeeps ==
  ASSUME MediaInv, NEW w \in Worker, Media!Link(w)
  PROVE  MediaInv'
<1> DEFINE o == tx[w]
           owned == [o.row EXCEPT !.owners = @ \cup {w}]
           t == [o EXCEPT !.row = owned, !.step = "commit"]
<1>1. /\ UNCHANGED <<recordings, changes, asking, inspections, prepared, stored, given, reading>>
      /\ o.step = "link"
  BY DEF Media!Link
<1>2. tx' = [tx EXCEPT ![w] = t]
  BY DEF Media!Link, MediaInv, MediaShape
<1>3. o \in Transaction /\ Matches(w, o) /\ o.row \in VideoRow
  BY <1>1, OpenTransaction
<1> HIDE DEF o
<1>4. /\ owned \in VideoRow /\ owned.manifest = o.row.manifest /\ owned.pieces = o.row.pieces
      /\ o.row.owners \subseteq owned.owners /\ w \in owned.owners
  BY <1>3 DEF VideoRow
<1> HIDE DEF owned
<1>5. t \in Transaction /\ t.step = "commit" /\ t.name = o.name /\ t.row = owned
  BY <1>3, <1>4 DEF Transaction
<1> HIDE DEF t
<1>6. Found(t)
  BY <1>1, <1>3, <1>4, <1>5 DEF Matches, Found
<1>7. Matches(w, t)
  BY <1>1, <1>3, <1>4, <1>5, <1>6 DEF Matches, Exclusive, Media!Whole
<1> QED
  BY <1>1, <1>2, <1>5, <1>7, TransactionKeeps

LEMMA RetryKeeps ==
  ASSUME MediaInv, NEW w \in Worker, Media!Retry(w)
  PROVE  MediaInv'
BY TransactionKeeps, MediaConstants, PartsAssumption DEF Media!Retry

\* The commit: the row replaces what was there, which it contains.
LEMMA CommitKeeps ==
  ASSUME MediaInv, NEW w \in Worker, Media!Commit(w)
  PROVE  MediaInv'
<1> USE PartsAssumption
<1> DEFINE o == tx[w]
<1>1. /\ UNCHANGED <<recordings, changes, inspections, reading>>
      /\ o.step = "commit" /\ tx' = [tx EXCEPT ![w] = Media!NoTx]
      /\ stored' = [name \in DOMAIN stored \cup {o.name} |->
                        IF name = o.name THEN o.row ELSE stored[name]]
      /\ asking' = asking \/ asking' = [asking EXCEPT ![w] = Media!NoCall]
      /\ given' \subseteq given \cup {[name |-> o.name, to |-> w]} /\ given \subseteq given'
      /\ \/ prepared' = prepared
         \/ /\ prepared' = [prepared EXCEPT ![w] = @ \cup {o.name}]
            /\ [name |-> o.name, to |-> w] \in given'
  BY DEF Media!Commit, Media!Return
<1>2. /\ o \in Transaction /\ Matches(w, o) /\ o.row \in VideoRow /\ o.name \in VideoName
      /\ Media!Whole(o.row) /\ w \in o.row.owners
  BY <1>1, OpenTransaction DEF Matches
<1>3. Media!NoCall \in Cutting /\ Sound(Media!NoCall)
  BY MediaConstants DEF Sound, Aged, MediaInv, MediaShape
<1>4. /\ tx' \in [Worker -> {Media!NoTx} \cup Transaction] /\ tx'[w].step = "none"
      /\ \A v \in Worker \ {w} : tx'[v] = tx[v]
  BY <1>1, MediaConstants DEF MediaInv, MediaShape
<1>5. /\ asking' \in [Worker -> Cutting] /\ asking'[w] \in {asking[w], Media!NoCall}
      /\ \A v \in Worker \ {w} : asking'[v] = asking[v]
  BY <1>1, <1>3 DEF MediaInv, MediaShape
<1>6. /\ prepared' \in [Worker -> SUBSET VideoName]
      /\ \A v \in Worker : \A name \in prepared'[v] :
            name \in prepared[v] \/ (v = w /\ [name |-> name, to |-> v] \in given')
  BY <1>1, <1>2 DEF MediaInv, MediaShape
\* What was stored stays: the content as it is, the owners among the new ones.
<1>7. /\ DOMAIN stored' = DOMAIN stored \cup {o.name} /\ stored'[o.name] = o.row
      /\ \A name \in DOMAIN stored : name # o.name => stored'[name] = stored[name]
  BY <1>1
<1>8. \A name \in DOMAIN stored :
        /\ stored'[name].manifest = stored[name].manifest /\ stored'[name].pieces = stored[name].pieces
        /\ stored[name].owners \subseteq stored'[name].owners
  <2>1. o.name \in DOMAIN stored =>
            /\ o.row.manifest = stored[o.name].manifest /\ o.row.pieces = stored[o.name].pieces
            /\ stored[o.name].owners \subseteq o.row.owners
    BY <1>2 DEF Matches, Found
  <2> HIDE DEF o
  <2> QED
    BY <1>7, <2>1
<1>9. o.name.parts \in Seq(Part) /\ \A i \in DOMAIN o.name.parts : o.name.parts[i] = Media!Genuine
  <2>1. o.name = Media!Name(w) /\ asking[w].step = "publish"
    BY <1>2 DEF Matches, Exclusive
  <2>2. o.name.parts = asking[w].parts
    BY <2>1 DEF Media!Name
  <2>3. asking[w].parts \in Seq(Part)
    BY NoTransaction DEF Cutting
  <2> QED
    BY <2>1, <2>2, <2>3, NoTransaction DEF Sound
<1> HIDE DEF o
<1>10. MediaShape' /\ FilesAged'
  <2>1. DOMAIN stored' \subseteq VideoName /\ \A name \in DOMAIN stored' : stored'[name] \in VideoRow
    BY <1>2, <1>7 DEF MediaInv, MediaShape
  <2> QED
    BY <1>1, <1>4, <1>5, <1>6, <2>1 DEF MediaInv, MediaShape, FilesAged, Aged
<1>11. CallsSound'
  <2>1. ASSUME NEW v \in Worker PROVE Sound(asking'[v])
    BY <1>3, <1>5 DEF MediaInv, CallsSound
  <2> QED
    BY <1>1, <2>1 DEF CallsSound, Sound, Aged, Subject
<1>12. TransactionsMatch'
  <2> SUFFICES ASSUME NEW v \in Worker, tx'[v].step # "none" PROVE Matches(v, tx[v])'
    BY DEF TransactionsMatch
  <2>1. v # w /\ tx'[v] = tx[v] /\ asking'[v] = asking[v] /\ Matches(v, tx[v])
    BY <1>4, <1>5 DEF MediaInv, TransactionsMatch
  <2>2. tx[v].name # o.name
    BY <1>1, <2>1 DEF Matches, Exclusive, o
  <2>3. Found(tx[v])'
    BY <1>7, <2>1, <2>2 DEF Matches, Found
  <2>4. Exclusive(v, tx[v])'
    BY <1>4, <2>1 DEF Matches, Exclusive, Media!Name
  <2> QED
    BY <2>1, <2>3, <2>4 DEF Matches, Media!Whole
<1>13. ReadingMatches'
  BY <1>1, <1>7, <1>8 DEF MediaInv, ReadingMatches
<1>14. PreparedHanded'
  BY <1>1, <1>6 DEF MediaInv, PreparedHanded
<1>15. Media!OnlyRecorded'
  BY <1>7, <1>9 DEF MediaInv, Media!OnlyRecorded
<1>16. Media!InspectionsTrue'
  BY <1>1 DEF MediaInv, Media!InspectionsTrue
<1>17. Media!StoredWhole'
  <2>1. ASSUME NEW name \in DOMAIN stored'
        PROVE  Media!Whole(stored'[name]) /\ stored'[name].owners # {}
    BY <1>2, <1>7 DEF MediaInv, Media!StoredWhole
  <2> QED
    BY <2>1 DEF Media!StoredWhole, Media!Whole
<1>18. Media!HandedReadable'
  BY <1>1, <1>2, <1>7, <1>8 DEF MediaInv, Media!HandedReadable
<1> QED
  BY <1>10, <1>11, <1>12, <1>13, <1>14, <1>15, <1>16, <1>17, <1>18 DEF MediaInv

\* An execution forgets its call, and perhaps what it knew.
LEMMA DropKeeps ==
  ASSUME MediaInv, NEW w \in Worker,
         UNCHANGED <<recordings, changes, stored, given, reading>>,
         asking' = [asking EXCEPT ![w] = Media!NoCall], tx' = [tx EXCEPT ![w] = Media!NoTx],
         inspections' = [v \in Worker |-> inspections'[v]],
         \A v \in Worker \ {w} : inspections'[v] = inspections[v],
         \A k \in DOMAIN inspections'[w] :
            k \in DOMAIN inspections[w] /\ inspections'[w][k] = inspections[w][k],
         prepared' \in [Worker -> SUBSET VideoName],
         \A v \in Worker : prepared'[v] \subseteq prepared[v]
  PROVE  MediaInv'
<1> USE PartsAssumption
<1>1. Media!NoCall \in Cutting /\ Sound(Media!NoCall)
  BY MediaConstants DEF Sound, Aged, MediaInv, MediaShape
<1>2. /\ tx' \in [Worker -> {Media!NoTx} \cup Transaction] /\ tx'[w].step = "none"
      /\ \A v \in Worker \ {w} : tx'[v] = tx[v]
  BY MediaConstants DEF MediaInv, MediaShape
<1>3. /\ asking' \in [Worker -> Cutting] /\ asking'[w] = Media!NoCall
      /\ \A v \in Worker \ {w} : asking'[v] = asking[v]
  BY <1>1 DEF MediaInv, MediaShape
<1>5. MediaShape' /\ FilesAged'
  BY <1>2, <1>3 DEF MediaInv, MediaShape, FilesAged, Aged
<1>6. CallsSound'
  <2>1. ASSUME NEW v \in Worker PROVE Sound(asking'[v])
    BY <1>1, <1>3 DEF MediaInv, CallsSound
  <2> QED
    BY <2>1 DEF CallsSound, Sound, Aged, Subject
<1>7. TransactionsMatch'
  <2> SUFFICES ASSUME NEW v \in Worker, tx'[v].step # "none" PROVE Matches(v, tx[v])'
    BY DEF TransactionsMatch
  <2>1. v # w /\ tx'[v] = tx[v] /\ asking'[v] = asking[v] /\ Matches(v, tx[v])
    BY <1>2, <1>3 DEF MediaInv, TransactionsMatch
  <2>2. Exclusive(v, tx[v])'
    BY <1>2, <2>1 DEF Matches, Exclusive, Media!Name
  <2>3. Found(tx[v])'
    BY <2>1 DEF Matches, Found
  <2> QED
    BY <2>1, <2>2, <2>3 DEF Matches, Media!Whole
<1>8. ReadingMatches' /\ PreparedHanded'
  BY DEF MediaInv, ReadingMatches, PreparedHanded
<1>9. Media!InspectionsTrue'
  BY DEF MediaInv, Media!InspectionsTrue
<1>10. Media!OnlyRecorded' /\ Media!StoredWhole' /\ Media!HandedReadable'
  BY DEF MediaInv, Media!OnlyRecorded, Media!StoredWhole, Media!Whole, Media!HandedReadable
<1> QED
  BY <1>5, <1>6, <1>7, <1>8, <1>9, <1>10 DEF MediaInv

LEMMA FailKeeps ==
  ASSUME MediaInv, NEW w \in Worker, Media!Fail(w)
  PROVE  MediaInv'
<1>1. /\ UNCHANGED <<recordings, changes, stored, given, reading, prepared>>
      /\ asking' = [asking EXCEPT ![w] = Media!NoCall] /\ tx' = [tx EXCEPT ![w] = Media!NoTx]
      /\ inspections' = [inspections EXCEPT ![w] = Media!Discard(w)]
  BY DEF Media!Fail
<1>2. /\ inspections' = [v \in Worker |-> inspections'[v]] /\ inspections'[w] = Media!Discard(w)
      /\ \A v \in Worker \ {w} : inspections'[v] = inspections[v]
  BY <1>1, NoTransaction
<1>3. \A k \in DOMAIN inspections'[w] :
        k \in DOMAIN inspections[w] /\ inspections'[w][k] = inspections[w][k]
  BY <1>2 DEF Media!Discard
<1>4. prepared' \in [Worker -> SUBSET VideoName] /\ \A v \in Worker : prepared'[v] \subseteq prepared[v]
  BY <1>1 DEF MediaInv, MediaShape
<1> QED
  BY <1>1, <1>2, <1>3, <1>4, DropKeeps

LEMMA EndKeeps ==
  ASSUME MediaInv, NEW w \in Worker, Media!End(w)
  PROVE  MediaInv'
<1>1. /\ UNCHANGED <<recordings, changes, stored, given, reading>>
      /\ asking' = [asking EXCEPT ![w] = Media!NoCall] /\ tx' = [tx EXCEPT ![w] = Media!NoTx]
      /\ inspections' = [inspections EXCEPT ![w] = [k \in {} |-> "none"]]
      /\ prepared' = [prepared EXCEPT ![w] = {}]
  BY DEF Media!End
<1>2. /\ inspections' = [v \in Worker |-> inspections'[v]] /\ DOMAIN inspections'[w] = {}
      /\ \A v \in Worker \ {w} : inspections'[v] = inspections[v]
  BY <1>1, NoTransaction
<1>3. prepared' \in [Worker -> SUBSET VideoName] /\ \A v \in Worker : prepared'[v] \subseteq prepared[v]
  BY <1>1 DEF MediaInv, MediaShape
<1> QED
  BY <1>1, <1>2, <1>3, DropKeeps

\* A step of the reader.
LEMMA ReadingKeeps ==
  ASSUME MediaInv, UNCHANGED <<recordings, changes, asking, inspections, prepared, stored, tx, given>>,
         reading'.step \in {"idle", "open"}, ReadingMatches'
  PROVE  MediaInv'
<1>1. MediaShape' /\ FilesAged' /\ CallsSound'
  BY DEF MediaInv, MediaShape, FilesAged, Aged, CallsSound, Sound, Subject
<1>2. TransactionsMatch' /\ PreparedHanded'
  BY DEF MediaInv, TransactionsMatch, Matches, Exclusive, Found, Media!Name, Media!Whole, PreparedHanded
<1>3. Media!OnlyRecorded' /\ Media!InspectionsTrue' /\ Media!StoredWhole' /\ Media!HandedReadable'
  BY DEF MediaInv, Media!OnlyRecorded, Media!InspectionsTrue, Media!StoredWhole, Media!Whole,
       Media!HandedReadable
<1> QED
  BY <1>1, <1>2, <1>3 DEF MediaInv

LEMMA OpenKeeps ==
  ASSUME MediaInv, NEW h \in given, Media!Open(h.name)
  PROVE  MediaInv'
<1> DEFINE opened == [step |-> "open", name |-> h.name, manifest |-> stored[h.name].manifest,
                      pieces |-> {}]
<1>1. h.name \in DOMAIN stored
  BY DEF MediaInv, Media!HandedReadable
<1>2. /\ UNCHANGED <<recordings, changes, asking, inspections, prepared, stored, tx, given>>
      /\ reading' = opened
  BY <1>1 DEF Media!Open
<1>3. opened.pieces = {} /\ 0 \in 0 .. Chunks /\ {} = 1 .. 0
  BY PartsAssumption DEF PartsAssumption, Media!MediaAssumption
<1>4. /\ opened.name = h.name /\ opened.manifest = stored[h.name].manifest /\ opened.step = "open"
      /\ opened = [step |-> "open", name |-> opened.name, manifest |-> opened.manifest,
                   pieces |-> opened.pieces]
  OBVIOUS
<1> HIDE DEF opened
<1>5. ReadingMatches'
  <2>1. \E k \in 0 .. Chunks : opened.pieces = 1 .. k
    BY <1>3
  <2> QED
    BY <1>1, <1>2, <1>3, <1>4, <2>1 DEF ReadingMatches
<1> QED
  BY <1>2, <1>4, <1>5, ReadingKeeps

LEMMA ReadPieceKeeps ==
  ASSUME MediaInv, Media!ReadPiece
  PROVE  MediaInv'
<1> USE PartsAssumption DEF PartsAssumption, Media!MediaAssumption
<1> DEFINE wanted == IF reading.manifest = "legacy" THEN {0} ELSE 1 .. Chunks
           left == wanted \ reading.pieces
           next == CHOOSE i \in left : \A j \in left : i <= j
           row == stored[reading.name]
           further == [reading EXCEPT !.pieces = @ \cup {next}]
<1>1. /\ UNCHANGED <<recordings, changes, asking, inspections, prepared, stored, tx, given>>
      /\ reading.step = "open" /\ wanted # reading.pieces
      /\ reading' = IF reading.manifest # "none" /\ next \in row.pieces
                    THEN further ELSE [step |-> "unavailable", name |-> reading.name]
  BY DEF Media!ReadPiece
<1>2. /\ reading.name \in DOMAIN stored /\ reading.manifest = row.manifest
      /\ IF reading.manifest = "legacy" THEN reading.pieces \in {{}, {0}}
         ELSE \E k \in 0 .. Chunks : reading.pieces = 1 .. k
  BY <1>1 DEF MediaInv, ReadingMatches
<1>3. Media!Whole(row)
  BY <1>2 DEF MediaInv, Media!StoredWhole
<1>4. reading.manifest # "none" /\ row.pieces = wanted
  BY <1>2, <1>3 DEF Media!Whole
<1>5. /\ next \in wanted
      /\ IF reading.manifest = "legacy" THEN reading.pieces \cup {next} = {0}
         ELSE \E k \in 0 .. Chunks : reading.pieces \cup {next} = 1 .. k
  <2>1. CASE reading.manifest = "legacy"
    <3>1. left = {0} /\ reading.pieces = {}
      BY <1>1, <1>2, <2>1
    <3>2. next = 0
      BY <3>1
    <3> QED
      BY <2>1, <3>1, <3>2
  <2>2. CASE reading.manifest # "legacy"
    <3>1. PICK k \in 0 .. Chunks : reading.pieces = 1 .. k
      BY <1>2, <2>2
    <3>2. wanted = 1 .. Chunks /\ k # Chunks
      BY <1>1, <2>2, <3>1
    <3> HIDE DEF wanted
    <3>3. left = k + 1 .. Chunks /\ k + 1 \in left
      BY <3>1, <3>2
    <3> HIDE DEF left
    <3>4. next \in left /\ \A j \in left : next <= j
      <4>1. \A j \in left : k + 1 <= j
        BY <3>3
      <4> QED
        BY <3>3, <4>1
    <3> HIDE DEF next
    <3>5. next = k + 1
      BY <3>3, <3>4
    <3>6. k + 1 \in 0 .. Chunks /\ (1 .. k) \cup {k + 1} = 1 .. k + 1 /\ k + 1 \in wanted
      BY <3>2, <3>3
    <3> QED
      BY <2>2, <3>1, <3>5, <3>6
  <2> QED
    BY <2>1, <2>2
<1> HIDE DEF next
<1>6. reading' = further
  BY <1>1, <1>4, <1>5
<1>7. further = [step |-> "open", name |-> reading.name, manifest |-> reading.manifest,
                 pieces |-> reading.pieces \cup {next}]
  <2> DEFINE name == reading.name
             manifest == reading.manifest
             pieces == reading.pieces
  <2>1. reading = [step |-> "open", name |-> name, manifest |-> manifest, pieces |-> pieces]
    BY <1>1 DEF MediaInv, ReadingMatches
  <2>2. further = [reading EXCEPT !.pieces = pieces \cup {next}]
    OBVIOUS
  <2> HIDE DEF name, manifest, pieces, further
  <2>3. further = [step |-> "open", name |-> name, manifest |-> manifest, pieces |-> pieces \cup {next}]
    BY <2>1, <2>2
  <2> QED
    BY <2>3 DEF name, manifest, pieces
<1> HIDE DEF wanted, further
<1>8. /\ reading'.step = "open" /\ reading'.name = reading.name
      /\ reading'.manifest = reading.manifest /\ reading'.pieces = reading.pieces \cup {next}
  BY <1>6, <1>7
<1>9. reading' = [step |-> "open", name |-> reading'.name, manifest |-> reading'.manifest,
                  pieces |-> reading'.pieces]
  BY <1>6, <1>7, <1>8
<1>10. ReadingMatches'
  BY <1>1, <1>2, <1>5, <1>8, <1>9 DEF ReadingMatches
<1> QED
  BY <1>1, <1>8, <1>10, ReadingKeeps

LEMMA CloseKeeps ==
  ASSUME MediaInv, Media!Close
  PROVE  MediaInv'
BY ReadingKeeps DEF Media!Close, Media!NotReading, ReadingMatches

LEMMA MediaNext ==
  ASSUME MediaInv, Media!Next
  PROVE  MediaInv'
<1>1. ASSUME NEW s \in Source, Media!Change(s) PROVE MediaInv'
  BY <1>1, ChangeKeeps
<1>2. ASSUME NEW w \in Worker, NEW r \in Wanted, Media!BeginAnalysis(w, r) \/ Media!BeginClip(w, r)
      PROVE  MediaInv'
  BY <1>2, BeginVideoKeeps
<1>3. ASSUME NEW w \in Worker,
             \/ Media!TakeSnapshot(w) \/ Media!Probe(w) \/ Media!Encode(w) \/ Media!Verify(w)
             \/ Media!Join(w)
      PROVE  MediaInv'
  BY <1>3, TakeSnapshotKeeps, ProbeKeeps, EncodeKeeps, VerifyKeeps, JoinKeeps
<1>4. ASSUME NEW w \in Worker,
             \/ Media!PutMedia(w) \/ Media!Compare(w) \/ Media!PutPiece(w)
             \/ Media!PutManifest(w) \/ Media!Link(w) \/ Media!Commit(w) \/ Media!Retry(w)
      PROVE  MediaInv'
  BY <1>4, PutMediaKeeps, CompareKeeps, PutPieceKeeps, PutManifestKeeps, LinkKeeps, CommitKeeps,
     RetryKeeps
<1>5. ASSUME NEW w \in Worker, Media!Fail(w) \/ Media!End(w) PROVE MediaInv'
  BY <1>5, FailKeeps, EndKeeps
<1>6. ASSUME NEW h \in given, Media!Open(h.name) PROVE MediaInv'
  BY <1>6, OpenKeeps
<1>7. ASSUME Media!ReadPiece \/ Media!Close PROVE MediaInv'
  BY <1>7, ReadPieceKeeps, CloseKeeps
<1> QED
  BY <1>1, <1>2, <1>3, <1>4, <1>5, <1>6, <1>7 DEF Media!Next

LEMMA MediaBegins ==
  ASSUME Media!Init
  PROVE  MediaInv
<1> USE PartsAssumption
<1>1. /\ recordings = [s \in Source |-> Media!Registered] /\ changes = 0
      /\ asking = [w \in Worker |-> Media!NoCall]
      /\ inspections = [w \in Worker |-> [key \in {} |-> "none"]]
      /\ prepared = [w \in Worker |-> {}] /\ DOMAIN stored = {}
      /\ tx = [w \in Worker |-> Media!NoTx] /\ given = {} /\ reading.step = "idle"
  BY DEF Media!Init, Media!NotReading
<1>2. MediaShape /\ FilesAged
  BY <1>1, MediaConstants DEF MediaShape, FilesAged, Aged
<1>3. CallsSound
  BY <1>1, MediaConstants DEF CallsSound, Sound, Aged
<1>4. TransactionsMatch /\ ReadingMatches /\ PreparedHanded
  BY <1>1, MediaConstants DEF TransactionsMatch, ReadingMatches, PreparedHanded
<1>5. Media!InspectionsTrue
  BY <1>1 DEF Media!InspectionsTrue
<1>6. Media!OnlyRecorded /\ Media!StoredWhole /\ Media!HandedReadable
  BY <1>1 DEF Media!OnlyRecorded, Media!StoredWhole, Media!HandedReadable
<1> QED
  BY <1>2, <1>3, <1>4, <1>5, <1>6 DEF MediaInv

LEMMA MediaImplies == MediaInv => MediaSound
BY DEF MediaInv, MediaSound, Media!MediaSound

LEMMA MediaGoesOn == Spec => []MediaInv
<1>1. MediaInv /\ UNCHANGED media => MediaInv'
  <2> SUFFICES ASSUME MediaInv, UNCHANGED media PROVE MediaInv'
    OBVIOUS
  <2>1. UNCHANGED <<recordings, changes, asking, inspections, prepared, stored, tx, given, reading>>
    BY DEF media
  <2>2. reading.step \in {"idle", "open"} /\ ReadingMatches'
    BY <2>1 DEF MediaInv, MediaShape, Media!HandedReadable, ReadingMatches
  <2> QED
    BY <2>1, <2>2, ReadingKeeps
<1>2. MediaInv /\ [Next]_vars => MediaInv'
  BY <1>1, MediaNext, OthersRest DEF MediaStep
<1>3. Init => MediaInv
  BY MediaBegins DEF Init
<1> QED
  BY <1>3, <1>2, PTL DEF Spec

\* For any executions, recordings and requests: what is stored was cut from the
\* registered content, is whole and owned, and what a call returned stays readable.
THEOREM VideosAreSound == Spec => []MediaSound
BY MediaGoesOn, MediaImplies, PTL

-----------------------------------------------------------------------------
Counted == Typed \cup {"read"}
Order == [kind : {"REPORT_VIDEO_EXPORT", "PLATE_IMAGE_EXPORT"},
          input : Candidate \X (Counted \cup Frame \cup {"none"})]
Answer == {"waiting", "REFLECTED", "SUPERSEDED"}
Outcome == {"done", "failed", "unsatisfiable", "broken", "lost", "queued"}
Reviewed == [selected : Candidate, time : Counted, responded : BOOLEAN, observed : SUBSET Candidate,
             plate : [Candidate -> Frame \cup {"none"}], stage : {"EVIDENCE_REVIEW", "READY"},
             jobs : Seq(Order), settled : Seq(Answer)]

\* A case that has grown from the stored one: only what was executed is reflected.
Fit(c) ==
    /\ c \in Reviewed /\ Len(c.settled) = Len(c.jobs) /\ Len(exec) <= Len(c.jobs)
    /\ \A i \in 1 .. Len(c.jobs) : c.settled[i] = "REFLECTED" => i <= Len(exec)

\* A READY case has its video, and an answered one has ordered it.
VideoReady(c, e) ==
    c.stage = "READY" =>
        /\ Exports!Assembled(c)
        /\ \E i \in 1 .. Len(c.jobs) :
            /\ c.jobs[i] = [kind |-> "REPORT_VIDEO_EXPORT", input |-> <<c.selected, c.time>>]
            /\ c.settled[i] = "REFLECTED" /\ e[i] = "done"

VideoOrdered(c) == Exports!Assembled(c) => Exports!Current(c, "REPORT_VIDEO_EXPORT") # {}

ExportsInv ==
    /\ exporting \in Reviewed /\ exec \in Seq(Outcome)
    /\ Len(exporting.settled) = Len(exporting.jobs) /\ Len(exec) = Len(exporting.jobs)
    /\ VideoReady(exporting, exec) /\ VideoOrdered(exporting)

\* Orders are added, and what is reflected stays so.
Grown(c, n) ==
    /\ n.selected = c.selected /\ n.time = c.time /\ n.responded = c.responded
    /\ n.observed = c.observed /\ n.plate = c.plate /\ n.stage = c.stage
    /\ Len(c.jobs) <= Len(n.jobs)
    /\ \A i \in 1 .. Len(c.jobs) :
        n.jobs[i] = c.jobs[i] /\ (c.settled[i] = "REFLECTED" => n.settled[i] = "REFLECTED")

LEMMA IssueGrows ==
  ASSUME NEW c, Fit(c), NEW job \in Order
  PROVE  LET n == Exports!IssueExport(c, job)
         IN  Fit(n) /\ Grown(c, n) /\ Len(n.jobs) = Len(c.jobs) + 1 /\ n.jobs[Len(c.jobs) + 1] = job
<1> DEFINE sent == Append(c.jobs, job)
           left == [i \in DOMAIN c.settled |->
                        IF c.settled[i] = "waiting" /\ c.jobs[i].kind = job.kind THEN "SUPERSEDED"
                        ELSE c.settled[i]]
           now_settled == Append(left, "waiting")
           n == [c EXCEPT !.jobs = sent, !.settled = now_settled]
<1>1. c \in Reviewed /\ Len(c.settled) = Len(c.jobs) /\ c.jobs \in Seq(Order) /\ c.settled \in Seq(Answer)
  BY DEF Fit, Reviewed
<1>2. /\ sent \in Seq(Order) /\ Len(sent) = Len(c.jobs) + 1 /\ sent[Len(c.jobs) + 1] = job
      /\ \A i \in 1 .. Len(c.jobs) : sent[i] = c.jobs[i]
  BY <1>1
<1>3. /\ left \in Seq(Answer) /\ Len(left) = Len(c.jobs)
      /\ \A i \in 1 .. Len(c.jobs) : left[i] = "REFLECTED" <=> c.settled[i] = "REFLECTED"
  <2>1. left \in [1 .. Len(c.jobs) -> Answer]
    BY <1>1 DEF Answer
  <2>2. \A i \in 1 .. Len(c.jobs) : left[i] = "REFLECTED" <=> c.settled[i] = "REFLECTED"
    BY <1>1
  <2> HIDE DEF left
  <2>3. Len(c.jobs) \in Nat
    BY <1>1
  <2> QED
    BY <2>1, <2>2, <2>3
<1> HIDE DEF left, sent
<1>4. /\ now_settled \in Seq(Answer) /\ Len(now_settled) = Len(c.jobs) + 1
      /\ now_settled[Len(c.jobs) + 1] = "waiting"
      /\ \A i \in 1 .. Len(c.jobs) : now_settled[i] = left[i]
  BY <1>3 DEF Answer
<1> HIDE DEF now_settled
<1>5. /\ n \in Reviewed /\ n.jobs = sent /\ n.settled = now_settled
      /\ n.selected = c.selected /\ n.time = c.time /\ n.responded = c.responded
      /\ n.observed = c.observed /\ n.plate = c.plate /\ n.stage = c.stage
  BY <1>1, <1>2, <1>4 DEF Reviewed
<1>6. n = Exports!IssueExport(c, job)
  BY DEF Exports!IssueExport, n, sent, now_settled, left
<1> HIDE DEF n
<1>7. Grown(c, n)
  BY <1>1, <1>2, <1>3, <1>4, <1>5 DEF Grown
<1>8. Fit(n)
  BY <1>1, <1>2, <1>3, <1>4, <1>5 DEF Fit
<1> QED
  BY <1>2, <1>5, <1>6, <1>7, <1>8

LEMMA GrownTwice ==
  ASSUME NEW a, NEW b, NEW c, Fit(a), Fit(b), Fit(c), Grown(a, b), Grown(b, c)
  PROVE  Grown(a, c)
<1>1. Len(a.jobs) \in Nat /\ Len(b.jobs) \in Nat /\ Len(c.jobs) \in Nat
  BY DEF Fit, Reviewed
<1> QED
  BY <1>1 DEF Grown

\* What is ordered stays ordered, and a video that is there stays.
LEMMA OrderedGrown ==
  ASSUME NEW c, NEW n, Fit(c), Fit(n), Grown(c, n)
  PROVE  /\ VideoOrdered(c) => VideoOrdered(n)
         /\ \A e : VideoReady(c, e) => VideoReady(n, e)
<1>1. /\ Len(c.jobs) \in Nat /\ Len(n.jobs) \in Nat /\ DOMAIN c.jobs = 1 .. Len(c.jobs)
      /\ DOMAIN n.jobs = 1 .. Len(n.jobs)
  BY DEF Fit, Reviewed
<1>2. Exports!Assembled(c) <=> Exports!Assembled(n)
  BY DEF Grown, Exports!Assembled
<1>3. VideoOrdered(c) => VideoOrdered(n)
  <2>1. /\ Exports!Requested(c, "REPORT_VIDEO_EXPORT") => Exports!Requested(n, "REPORT_VIDEO_EXPORT")
        /\ Exports!Request(c, "REPORT_VIDEO_EXPORT") = Exports!Request(n, "REPORT_VIDEO_EXPORT")
    BY DEF Grown, Exports!Requested, Exports!Request
  <2>2. Exports!Current(c, "REPORT_VIDEO_EXPORT") \subseteq Exports!Current(n, "REPORT_VIDEO_EXPORT")
    BY <1>1, <2>1 DEF Grown, Exports!Current
  <2> QED
    BY <1>2, <2>2 DEF VideoOrdered
<1>4. ASSUME NEW e, VideoReady(c, e) PROVE VideoReady(n, e)
  BY <1>1, <1>2, <1>4 DEF Grown, VideoReady
<1> QED
  BY <1>3, <1>4

LEMMA RequestIsOrder ==
  ASSUME NEW c, Fit(c), NEW k \in Exports!Kind
  PROVE  [kind |-> k, input |-> Exports!Request(c, k)] \in Order
<1>1. c \in Reviewed
  BY DEF Fit
<1>2. Exports!Request(c, k) \in Candidate \X (Counted \cup Frame \cup {"none"})
  BY <1>1 DEF Exports!Request, Reviewed
<1> QED
  BY <1>2 DEF Order, Exports!Kind

\* What the gate issues.
LEMMA MissingIssued ==
  ASSUME NEW c, Fit(c), NEW e
  PROVE  LET n == Exports!IssueMissingExports(c, e)
         IN  Fit(n) /\ Grown(c, n) /\ VideoOrdered(n)
<1> DEFINE m == Exports!IssueIfDue(c, e, "REPORT_VIDEO_EXPORT")
           n == Exports!IssueIfDue(m, e, "PLATE_IMAGE_EXPORT")
<1>1. ASSUME NEW d, Fit(d) PROVE Grown(d, d)
  BY <1>1 DEF Grown, Fit, Reviewed
<1>2. ASSUME NEW d, Fit(d), NEW k \in Exports!Kind
      PROVE  Fit(Exports!IssueIfDue(d, e, k)) /\ Grown(d, Exports!IssueIfDue(d, e, k))
  BY <1>1, <1>2, RequestIsOrder, IssueGrows DEF Exports!IssueIfDue
<1>3. Fit(m) /\ Grown(c, m)
  BY <1>2 DEF Exports!Kind
<1>4. VideoOrdered(m)
  <2> SUFFICES ASSUME Exports!Assembled(m) PROVE Exports!Current(m, "REPORT_VIDEO_EXPORT") # {}
    BY DEF VideoOrdered
  <2> DEFINE job == [kind |-> "REPORT_VIDEO_EXPORT", input |-> Exports!Request(c, "REPORT_VIDEO_EXPORT")]
  <2>1. Exports!Assembled(c) /\ Exports!Requested(c, "REPORT_VIDEO_EXPORT")
    BY <1>3 DEF Grown, Exports!Assembled, Exports!Requested
  <2>2. CASE Exports!Due(c, e, "REPORT_VIDEO_EXPORT")
    <3>1. job \in Order
      BY RequestIsOrder DEF Exports!Kind
    <3>2. m = Exports!IssueExport(c, job)
      BY <2>2 DEF Exports!IssueIfDue
    <3> HIDE DEF job, m
    <3>3. /\ Len(m.jobs) = Len(c.jobs) + 1 /\ m.jobs[Len(c.jobs) + 1] = job
          /\ Len(c.jobs) \in Nat /\ m.jobs \in Seq(Order)
      <4>1. Len(m.jobs) = Len(c.jobs) + 1 /\ m.jobs[Len(c.jobs) + 1] = job
        BY <3>1, <3>2, IssueGrows
      <4>2. c.jobs \in Seq(Order) /\ m.jobs \in Seq(Order)
        BY <1>3 DEF Fit, Reviewed
      <4> QED
        BY <4>1, <4>2
    <3>4. Exports!Requested(m, "REPORT_VIDEO_EXPORT")
          /\ Exports!Request(m, "REPORT_VIDEO_EXPORT") = Exports!Request(c, "REPORT_VIDEO_EXPORT")
      BY <1>3, <2>1 DEF Grown, Exports!Requested, Exports!Request
    <3>5. Len(c.jobs) + 1 \in Exports!Current(m, "REPORT_VIDEO_EXPORT")
      BY <3>3, <3>4 DEF Exports!Current, job
    <3> QED
      BY <3>5
  <2>3. CASE ~Exports!Due(c, e, "REPORT_VIDEO_EXPORT")
    <3>1. m = c
      BY <2>3 DEF Exports!IssueIfDue
    <3>2. Exports!Current(c, "REPORT_VIDEO_EXPORT") # {}
      BY <2>1, <2>3 DEF Exports!Due, Exports!ReportVideoMissing, Exports!Chosen
    <3> QED
      BY <3>1, <3>2
  <2> QED
    BY <2>2, <2>3
<1> HIDE DEF m
<1>5. Fit(n) /\ Grown(m, n)
  BY <1>2, <1>3 DEF Exports!Kind
<1> HIDE DEF n
<1>6. Grown(c, n)
  BY <1>3, <1>5, GrownTwice
<1>7. VideoOrdered(n)
  BY <1>3, <1>4, <1>5, OrderedGrown
<1> QED
  BY <1>5, <1>6, <1>7 DEF Exports!IssueMissingExports, n, m

\* A case with its orders and its video is saved with what the gate makes of it.
LEMMA FinishKeeps ==
  ASSUME ExportsInv, NEW c, Fit(c), VideoReady(c, exec), c.stage = "READY" => VideoOrdered(c),
         Exports!Finish(c)
  PROVE  ExportsInv'
<1> DEFINE issued == Exports!IssueMissingExports(c, exec)
           done == [issued EXCEPT !.stage = "READY"]
<1>1. PICK n \in Exports!Gate(c, exec) : Exports!Save(n)
  BY DEF Exports!Finish
<1>2. Fit(issued) /\ Grown(c, issued) /\ VideoOrdered(issued)
  BY MissingIssued
<1>3. VideoReady(issued, exec)
  BY <1>2, OrderedGrown
<1> HIDE DEF issued
<1>4. Fit(n) /\ VideoOrdered(n) /\ VideoReady(n, exec)
  <2>1. CASE n = c /\ c.stage # "EVIDENCE_REVIEW"
    <3>1. c.stage = "READY"
      BY <2>1 DEF Fit, Reviewed
    <3> QED
      BY <2>1, <3>1
  <2>2. CASE n = issued
    BY <1>2, <1>3, <2>2
  <2>3. CASE /\ n = done /\ Exports!Assembled(c)
             /\ Exports!Chosen(c, exec, "REPORT_VIDEO_EXPORT") # {}
    <3>1. issued \in Reviewed
      BY <1>2 DEF Fit
    <3>2. /\ n \in Reviewed /\ n.jobs = issued.jobs /\ n.settled = issued.settled
          /\ n.selected = issued.selected /\ n.time = issued.time /\ n.responded = issued.responded
          /\ n.observed = issued.observed /\ n.plate = issued.plate
      BY <2>3, <3>1 DEF Reviewed
    <3>3. Fit(n) /\ VideoOrdered(n)
      BY <1>2, <3>2 DEF Fit, VideoOrdered, Exports!Assembled, Exports!Current, Exports!Requested,
           Exports!Request
    <3>4. PICK i \in Exports!Chosen(c, exec, "REPORT_VIDEO_EXPORT") : TRUE
      BY <2>3
    <3>5. /\ i \in 1 .. Len(c.jobs) /\ c.settled[i] = "REFLECTED" /\ exec[i] = "done"
          /\ c.jobs[i] = [kind |-> "REPORT_VIDEO_EXPORT", input |-> <<c.selected, c.time>>]
      BY <3>4 DEF Exports!Chosen, Exports!Current, Exports!Request, Fit, Reviewed
    <3>6. /\ i \in 1 .. Len(n.jobs) /\ n.settled[i] = "REFLECTED"
          /\ n.jobs[i] = [kind |-> "REPORT_VIDEO_EXPORT", input |-> <<n.selected, n.time>>]
      BY <1>2, <3>2, <3>5 DEF Grown, Fit, Reviewed
    <3>7. Exports!Assembled(n)
      BY <1>2, <2>3, <3>2 DEF Grown, Exports!Assembled
    <3> QED
      BY <3>3, <3>5, <3>6, <3>7 DEF VideoReady
  <2> QED
    BY <1>1, <2>1, <2>2, <2>3 DEF Exports!Gate, issued
<1>5. /\ exporting' = n
      /\ exec' = [i \in DOMAIN n.jobs |-> IF i \in DOMAIN exec THEN exec[i] ELSE "queued"]
  BY <1>1 DEF Exports!Save
<1>6. /\ DOMAIN n.jobs = 1 .. Len(n.jobs) /\ DOMAIN exec = 1 .. Len(exec) /\ Len(n.jobs) \in Nat
      /\ Len(exec) <= Len(n.jobs) /\ exec \in Seq(Outcome) /\ Len(exec) \in Nat
  BY <1>4 DEF Fit, Reviewed, ExportsInv
<1>7. /\ exec' \in Seq(Outcome) /\ Len(exec') = Len(n.jobs)
      /\ \A i \in 1 .. Len(exec) : exec'[i] = exec[i]
  <2>1. exec' \in [1 .. Len(n.jobs) -> Outcome]
    BY <1>5, <1>6 DEF Outcome
  <2>2. \A i \in 1 .. Len(exec) : exec'[i] = exec[i]
    BY <1>5, <1>6
  <2> HIDE DEF ExportsInv
  <2>3. Len(exec') = Len(n.jobs)
    BY <1>6, <2>1
  <2> QED
    BY <1>6, <2>1, <2>2, <2>3
<1>8. VideoReady(n, exec')
  <2> SUFFICES ASSUME n.stage = "READY" PROVE Exports!Assembled(n) /\ \E i \in 1 .. Len(n.jobs) :
            /\ n.jobs[i] = [kind |-> "REPORT_VIDEO_EXPORT", input |-> <<n.selected, n.time>>]
            /\ n.settled[i] = "REFLECTED" /\ exec'[i] = "done"
    BY DEF VideoReady
  <2>1. PICK i \in 1 .. Len(n.jobs) :
            /\ n.jobs[i] = [kind |-> "REPORT_VIDEO_EXPORT", input |-> <<n.selected, n.time>>]
            /\ n.settled[i] = "REFLECTED" /\ exec[i] = "done"
    BY <1>4 DEF VideoReady
  <2>2. i \in 1 .. Len(exec)
    BY <1>4, <1>6, <2>1 DEF Fit
  <2>3. exec'[i] = "done"
    BY <1>7, <2>1, <2>2
  <2> QED
    BY <1>4, <2>1, <2>3 DEF VideoReady
<1>9. VideoOrdered(exporting')
  BY <1>4, <1>5
<1>10. VideoReady(exporting', exec')
  BY <1>5, <1>8
<1>11. /\ exporting' \in Reviewed /\ Len(exporting'.settled) = Len(exporting'.jobs)
       /\ Len(exec') = Len(exporting'.jobs)
  BY <1>4, <1>5, <1>7 DEF Fit
<1> QED
  BY <1>7, <1>9, <1>10, <1>11 DEF ExportsInv, VideoOrdered, Exports!Assembled, Exports!Current,
     Exports!Requested, Exports!Request, VideoReady

\* The stored case itself, and one that differs from it in what the video is not about.
LEMMA StoredIsFit ==
  ASSUME ExportsInv
  PROVE  /\ Fit(exporting) /\ VideoReady(exporting, exec) /\ VideoOrdered(exporting)
         /\ exporting \in Reviewed /\ DOMAIN exec = 1 .. Len(exec) /\ Len(exec) = Len(exporting.jobs)
BY DEF ExportsInv, Fit, Reviewed

LEMMA ReadoutArrivesKeeps ==
  ASSUME ExportsInv, NEW frame \in Frame \cup {"none"}, Exports!ReadoutArrives(frame)
  PROVE  ExportsInv'
<1> DEFINE o == exporting
           plate == [o.plate EXCEPT ![o.selected] = frame]
           observed_now == o.observed \cup {o.selected}
           c == [o EXCEPT !.observed = observed_now, !.plate = plate]
<1>1. o \in Reviewed /\ Fit(o) /\ VideoReady(o, exec) /\ VideoOrdered(o)
  BY StoredIsFit
<1>2. Exports!Finish(c)
  BY <1>1 DEF Exports!ReadoutArrives, Reviewed
<1> HIDE DEF o
<1>3. plate \in [Candidate -> Frame \cup {"none"}] /\ observed_now \in SUBSET Candidate
  BY <1>1 DEF Reviewed
<1> HIDE DEF plate
<1>4. /\ c \in Reviewed /\ c.jobs = o.jobs /\ c.settled = o.settled /\ c.selected = o.selected
      /\ c.time = o.time /\ c.responded = o.responded /\ c.stage = o.stage
      /\ o.observed \subseteq c.observed
  BY <1>1, <1>3 DEF Reviewed
<1> HIDE DEF c
<1>5. Fit(c) /\ VideoReady(c, exec)
  BY <1>1, <1>4 DEF Fit, VideoReady, Exports!Assembled
<1>6. c.stage = "READY" => VideoOrdered(c)
  BY <1>1, <1>4 DEF VideoReady, VideoOrdered, Exports!Assembled, Exports!Current, Exports!Requested,
     Exports!Request
<1> QED
  BY <1>2, <1>5, <1>6, FinishKeeps

LEMMA ReflectKeeps ==
  ASSUME ExportsInv, NEW i \in DOMAIN exec, Exports!Reflect(i)
  PROVE  ExportsInv'
<1> DEFINE o == exporting
           settled_now == [o.settled EXCEPT ![i] = "REFLECTED"]
           c == [o EXCEPT !.settled = settled_now]
<1>1. /\ o \in Reviewed /\ Fit(o) /\ VideoReady(o, exec) /\ VideoOrdered(o)
      /\ i \in 1 .. Len(exec) /\ Len(exec) = Len(o.jobs) /\ Len(o.settled) = Len(o.jobs)
  BY StoredIsFit DEF Fit
<1>2. Exports!Finish(c)
  BY <1>1 DEF Exports!Reflect, Reviewed
<1> HIDE DEF o
<1>3. /\ settled_now \in Seq(Answer) /\ Len(settled_now) = Len(o.jobs)
      /\ \A j \in 1 .. Len(o.jobs) : settled_now[j] = IF j = i THEN "REFLECTED" ELSE o.settled[j]
  <2>1. o.settled \in Seq(Answer) /\ "REFLECTED" \in Answer
    BY <1>1 DEF Reviewed, Answer
  <2> QED
    BY <1>1, <2>1
<1> HIDE DEF settled_now
<1>4. /\ c \in Reviewed /\ c.jobs = o.jobs /\ c.settled = settled_now /\ c.selected = o.selected
      /\ c.time = o.time /\ c.responded = o.responded /\ c.stage = o.stage
      /\ o.observed = c.observed
  BY <1>1, <1>3 DEF Reviewed
<1> HIDE DEF c
<1>5. Fit(c)
  BY <1>1, <1>3, <1>4 DEF Fit
<1>6. VideoReady(c, exec)
  BY <1>1, <1>3, <1>4 DEF Fit, VideoReady, Exports!Assembled
<1>7. c.stage = "READY" => VideoOrdered(c)
  BY <1>1, <1>4 DEF VideoOrdered, Exports!Assembled, Exports!Current, Exports!Requested, Exports!Request
<1> QED
  BY <1>2, <1>5, <1>6, <1>7, FinishKeeps

LEMMA EndingKeeps ==
  ASSUME ExportsInv, NEW i \in DOMAIN exec, NEW ending \in Exports!Ending, Exports!Execute(i, ending)
  PROVE  ExportsInv'
<1>1. /\ exec[i] = "queued" /\ exec' = [exec EXCEPT ![i] = ending] /\ exporting' = exporting
      /\ exec \in Seq(Outcome) /\ ending \in Outcome
  BY DEF Exports!Execute, ExportsInv, Exports!Ending, Outcome
<1>2. /\ exec' \in Seq(Outcome) /\ Len(exec') = Len(exec)
      /\ \A j \in DOMAIN exec : exec[j] = "done" => exec'[j] = "done"
  BY <1>1
<1>3. VideoReady(exporting, exec')
  BY <1>2, StoredIsFit DEF VideoReady
<1> QED
  BY <1>1, <1>2, <1>3 DEF ExportsInv, VideoOrdered, Exports!Assembled, Exports!Current,
     Exports!Requested, Exports!Request, VideoReady

\* A command that leaves READY.
LEMMA CommandKeeps ==
  ASSUME ExportsInv, NEW new \in Reviewed, new.jobs = exporting.jobs, new.settled = exporting.settled,
         Exports!Finish(Exports!LeaveReady(new))
  PROVE  ExportsInv'
<1> DEFINE c == Exports!LeaveReady(new)
<1>1. c \in Reviewed /\ c.jobs = new.jobs /\ c.settled = new.settled /\ c.stage = "EVIDENCE_REVIEW"
  BY DEF Exports!LeaveReady, Reviewed
<1> HIDE DEF c
<1>2. Fit(c) /\ VideoReady(c, exec) /\ c.stage # "READY"
  BY <1>1, StoredIsFit DEF Fit, VideoReady
<1> QED
  BY <1>2, FinishKeeps DEF c

LEMMA CommandsKeep ==
  ASSUME ExportsInv,
         \/ Exports!RecordSituationResponse
         \/ \E t \in Typed : Exports!EditEventTime(t)
         \/ \E c \in Candidate : Exports!SelectOther(c)
  PROVE  ExportsInv'
<1>1. exporting \in Reviewed
  BY StoredIsFit
<1>2. CASE Exports!RecordSituationResponse
  <2> DEFINE new == [exporting EXCEPT !.responded = TRUE]
  <2>1. new \in Reviewed /\ new.jobs = exporting.jobs /\ new.settled = exporting.settled
    BY <1>1 DEF Reviewed
  <2> QED
    BY <1>2, <2>1, CommandKeeps DEF Exports!RecordSituationResponse
<1>3. ASSUME NEW t \in Typed, Exports!EditEventTime(t) PROVE ExportsInv'
  <2> DEFINE new == [exporting EXCEPT !.time = t]
  <2>1. new \in Reviewed /\ new.jobs = exporting.jobs /\ new.settled = exporting.settled
    BY <1>1 DEF Reviewed, Counted
  <2> QED
    BY <1>3, <2>1, CommandKeeps DEF Exports!EditEventTime
<1>4. ASSUME NEW c \in Candidate, Exports!SelectOther(c) PROVE ExportsInv'
  <2> DEFINE new == [exporting EXCEPT !.selected = c, !.responded = FALSE, !.time = "read"]
  <2>1. new \in Reviewed /\ new.jobs = exporting.jobs /\ new.settled = exporting.settled
    BY <1>1 DEF Reviewed, Counted
  <2> QED
    BY <1>4, <2>1, CommandKeeps DEF Exports!SelectOther
<1> QED
  BY <1>2, <1>3, <1>4

LEMMA GenerateKeeps ==
  ASSUME ExportsInv, NEW k \in Exports!Kind, Exports!Generate(k)
  PROVE  ExportsInv'
<1> DEFINE job == [kind |-> k, input |-> Exports!Request(exporting, k)]
           c == Exports!IssueExport(exporting, job)
<1>1. Exports!Finish(c)
  BY DEF Exports!Generate
<1>2. job \in Order
  BY StoredIsFit, RequestIsOrder
<1> HIDE DEF job
<1>3. Fit(c) /\ Grown(exporting, c)
  BY <1>2, StoredIsFit, IssueGrows
<1> HIDE DEF c
<1>4. VideoReady(c, exec) /\ VideoOrdered(c)
  BY <1>3, StoredIsFit, OrderedGrown
<1> QED
  BY <1>1, <1>3, <1>4, FinishKeeps

LEMMA ExportsNext ==
  ASSUME ExportsInv, Exports!Next
  PROVE  ExportsInv'
BY ReadoutArrivesKeeps, ReflectKeeps, EndingKeeps, CommandsKeep, GenerateKeeps DEF Exports!Next

LEMMA ExportsInit ==
  ASSUME Exports!Init
  PROVE  ExportsInv
<1> DEFINE begun(c) == [selected |-> c, time |-> "read", responded |-> FALSE, observed |-> {},
                        plate |-> [x \in Candidate |-> "none"], stage |-> "EVIDENCE_REVIEW",
                        jobs |-> <<>>, settled |-> <<>>]
<1>1. PICK c \in Candidate : exporting = begun(c) /\ exec = <<>>
  BY DEF Exports!Init
<1>2. begun(c) \in Reviewed
  BY DEF Reviewed, Counted
<1> QED
  BY <1>1, <1>2 DEF ExportsInv, VideoReady, VideoOrdered, Exports!Assembled

LEMMA ExportsImplies == ExportsInv => VideoFollowsCase
<1> SUFFICES ASSUME ExportsInv PROVE VideoFollowsCase
  OBVIOUS
<1>1. /\ exporting \in Reviewed /\ VideoReady(exporting, exec) /\ VideoOrdered(exporting)
      /\ DOMAIN exporting.jobs = 1 .. Len(exporting.jobs)
  BY StoredIsFit DEF Reviewed
<1>2. Exports!ReadyVideoIsCurrent
  BY <1>1 DEF Exports!ReadyVideoIsCurrent, VideoReady
<1>3. Exports!MissingVideoHasExit
  <2> SUFFICES ASSUME Exports!ReportVideoMissing(exporting, exec),
                      ~Exports!Awaited(exporting, "REPORT_VIDEO_EXPORT")
               PROVE  /\ Exports!Offered(exporting, exec, "REPORT_VIDEO_EXPORT")
                      /\ Exports!Current(exporting, "REPORT_VIDEO_EXPORT") # {}
    BY DEF Exports!MissingVideoHasExit
  <2>1. PICK i \in Exports!Current(exporting, "REPORT_VIDEO_EXPORT") : TRUE
    BY <1>1 DEF VideoOrdered, Exports!ReportVideoMissing
  <2>2. i \in DOMAIN exporting.jobs /\ exporting.jobs[i].kind = "REPORT_VIDEO_EXPORT"
    BY <2>1 DEF Exports!Current
  <2> QED
    BY <2>1, <2>2 DEF Exports!Offered, Exports!MissingNotice
<1> QED
  BY <1>2, <1>3 DEF VideoFollowsCase, Exports!VideoFollowsCase

LEMMA ExportsGoOn == Spec => []ExportsInv
<1>1. ExportsInv /\ UNCHANGED exports => ExportsInv'
  BY DEF exports, ExportsInv, VideoReady, VideoOrdered, Exports!Assembled, Exports!Current,
         Exports!Requested, Exports!Request
<1>2. ExportsInv /\ [Next]_vars => ExportsInv'
  BY <1>1, ExportsNext, OthersRest DEF ExportsStep
<1>3. Init => ExportsInv
  BY ExportsInit DEF Init
<1> QED
  BY <1>3, <1>2, PTL DEF Spec

\* For any candidates, times and frames: a READY case has the video of what it
\* selects and says now, and a missing video is awaited or offered.
THEOREM VideoFollows == Spec => []VideoFollowsCase
BY ExportsGoOn, ExportsImplies, PTL

-----------------------------------------------------------------------------
Shown == Type \cup Plate \cup Moment \cup {"none"}
Correction == [rev : Nat, target : Evidence!Target, previous : Shown, new : Shown, supersedes : Nat]
Corrections == [selected : Candidate, rev : Nat, response : Evidence!Answer \cup {"none"},
                about : Candidate, log : Seq(Correction)]

\* The corrections of one field since the selection.
Mine(c, t) == {i \in Evidence!Here(c) : c.log[i].target = t}

\* A correction supersedes an earlier one of its field, and only the last is a head.
Chained(c) ==
    /\ c \in Corrections
    /\ \A i \in 1 .. Len(c.log) :
        /\ c.log[i].rev <= c.rev /\ c.log[i].supersedes \in 0 .. i - 1
        /\ c.log[i].previous # c.log[i].new
        /\ c.log[i].supersedes # 0 =>
            /\ c.log[c.log[i].supersedes].target = c.log[i].target
            /\ c.log[c.log[i].supersedes].new = c.log[i].previous
    /\ \A t \in Evidence!Target : Mine(c, t) # {} =>
        \E h \in Mine(c, t) : Evidence!Heads(c, t) = {h} /\ \A j \in Mine(c, t) : j <= h

EvidenceInv ==
    /\ Chained(reviewing) /\ Evidence!AnswerFits(reviewing)
    /\ fault = FALSE /\ Evidence!Build(reviewing, seen) \in {"nothing", "partial", "record"}

\* The last correction of a field is its only head, and what the next supersedes.
LEMMA ChainFacts ==
  ASSUME NEW c, Chained(c), NEW t \in Evidence!Target
  PROVE  /\ Mine(c, t) \subseteq 1 .. Len(c.log) /\ Len(c.log) \in Nat
         /\ Mine(c, t) = {} => Evidence!ChainHead(c, t) = 0 /\ Evidence!Heads(c, t) = {}
         /\ Mine(c, t) # {} =>
                /\ Evidence!ChainHead(c, t) \in Mine(c, t)
                /\ Evidence!Heads(c, t) = {Evidence!ChainHead(c, t)}
                /\ \A j \in Mine(c, t) : j <= Evidence!ChainHead(c, t)
         /\ Evidence!Corrected(c, t) <=> Mine(c, t) # {}
<1>1. /\ Mine(c, t) \subseteq 1 .. Len(c.log) /\ Len(c.log) \in Nat
      /\ Evidence!Heads(c, t) \subseteq Mine(c, t)
  BY DEF Mine, Evidence!Here, Evidence!Heads, Chained, Corrections
<1> DEFINE last == CHOOSE i \in Mine(c, t) : \A j \in Mine(c, t) : j <= i
<1>2. Evidence!ChainHead(c, t) = IF Mine(c, t) = {} THEN 0 ELSE last
  BY DEF Evidence!ChainHead, Mine
<1>3. CASE Mine(c, t) = {}
  BY <1>1, <1>2, <1>3 DEF Evidence!Corrected
<1>4. CASE Mine(c, t) # {}
  <2>1. PICK h \in Mine(c, t) : Evidence!Heads(c, t) = {h} /\ \A j \in Mine(c, t) : j <= h
    BY <1>4 DEF Chained
  <2>2. last \in Mine(c, t) /\ \A j \in Mine(c, t) : j <= last
    BY <2>1
  <2> HIDE DEF last
  <2>3. last = h
    BY <1>1, <2>1, <2>2
  <2> QED
    BY <1>1, <1>2, <1>4, <2>1, <2>3 DEF Evidence!Corrected
<1> QED
  BY <1>3, <1>4

LEMMA ChainsHolding ==
  ASSUME NEW c, Chained(c)
  PROVE  Evidence!ChainsHold(c)
<1>1. ASSUME NEW t \in Evidence!Target PROVE \A i, j \in Evidence!Heads(c, t) : i = j
  BY ChainFacts
<1>2. DOMAIN c.log = 1 .. Len(c.log)
  BY DEF Chained, Corrections
<1> QED
  BY <1>1, <1>2 DEF Chained, Evidence!ChainsHold

\* The corrections are all that it takes.
LEMMA SameLog ==
  ASSUME NEW c, Chained(c), NEW d \in Corrections, d.log = c.log, d.rev = c.rev
  PROVE  Chained(d) /\ \A t : Evidence!Corrected(d, t) <=> Evidence!Corrected(c, t)
<1>1. Evidence!Here(d) = Evidence!Here(c)
  BY DEF Evidence!Here
<1>2. \A t : Mine(d, t) = Mine(c, t) /\ Evidence!Heads(d, t) = Evidence!Heads(c, t)
  BY <1>1 DEF Mine, Evidence!Heads
<1> QED
  BY <1>2 DEF Chained, Evidence!Corrected

\* A new selection has no corrections yet.
LEMMA NewSelection ==
  ASSUME NEW c, Chained(c), NEW d \in Corrections, d.log = c.log, d.rev = c.rev + 1
  PROVE  Chained(d)
<1>1. /\ \A i \in 1 .. Len(c.log) : c.log[i].rev <= c.rev /\ c.log[i].rev \in Nat
      /\ c.rev \in Nat /\ DOMAIN c.log = 1 .. Len(c.log)
  <2>1. c.log \in Seq(Correction) /\ c.rev \in Nat
    BY DEF Chained, Corrections
  <2>2. DOMAIN c.log = 1 .. Len(c.log) /\ \A i \in 1 .. Len(c.log) : c.log[i] \in Correction
    BY <2>1
  <2> QED
    BY <2>1, <2>2 DEF Chained, Correction
<1>2. Evidence!Here(d) = {}
  BY <1>1 DEF Evidence!Here
<1>3. \A t : Mine(d, t) = {}
  BY <1>2 DEF Mine
<1>4. \A i \in 1 .. Len(d.log) : d.log[i].rev <= d.rev
  BY <1>1
<1> QED
  BY <1>3, <1>4 DEF Chained

Longer(c, t, old, value) ==
    [c EXCEPT !.log = Append(@, [rev |-> c.rev, target |-> t, previous |-> old, new |-> value,
                                 supersedes |-> Evidence!ChainHead(c, t)])]

\* One more correction is the head of its field; the other fields keep theirs.
LEMMA CorrectionChains ==
  ASSUME NEW c, Chained(c), NEW t \in Evidence!Target, NEW old \in Shown, NEW value \in Shown,
         old # value,
         Evidence!ChainHead(c, t) # 0 => old = c.log[Evidence!ChainHead(c, t)].new
  PROVE  LET n == Longer(c, t, old, value)
         IN  /\ Chained(n) /\ n.selected = c.selected /\ n.response = c.response
             /\ n.about = c.about /\ n.rev = c.rev /\ Evidence!Corrected(n, t)
             /\ \A u \in Evidence!Target \ {t} :
                    Evidence!Corrected(n, u) <=> Evidence!Corrected(c, u)
<1> DEFINE head == Evidence!ChainHead(c, t)
           r == [rev |-> c.rev, target |-> t, previous |-> old, new |-> value, supersedes |-> head]
           log == Append(c.log, r)
           n == [c EXCEPT !.log = log]
           k == Len(c.log)
<1>1. c \in Corrections /\ c.log \in Seq(Correction) /\ k \in Nat /\ c.rev \in Nat
  BY DEF Chained, Corrections
<1>2. /\ head \in 0 .. k
      /\ head # 0 => head \in Mine(c, t) /\ c.log[head].target = t /\ c.log[head].new = old
  BY <1>1, ChainFacts DEF Mine
<1>3. Mine(c, t) # {} => head \in Mine(c, t) /\ Evidence!Heads(c, t) = {head}
  BY ChainFacts
<1>4. Mine(c, t) = {} => head = 0
  BY ChainFacts
<1> HIDE DEF head
<1>5. /\ r \in Correction /\ r.rev = c.rev /\ r.target = t /\ r.previous = old /\ r.new = value
      /\ r.supersedes = head
  BY <1>1, <1>2 DEF Correction
<1> HIDE DEF r
<1>6. /\ log \in Seq(Correction) /\ Len(log) = k + 1 /\ log[k + 1] = r
      /\ \A i \in 1 .. k : log[i] = c.log[i]
  BY <1>1, <1>5
<1> HIDE DEF log
<1>7. /\ n \in Corrections /\ n.log = log /\ n.selected = c.selected /\ n.response = c.response
      /\ n.about = c.about /\ n.rev = c.rev
  BY <1>1, <1>6 DEF Corrections
<1>8. n = Longer(c, t, old, value)
  BY DEF n, log, r, head, Longer
<1> HIDE DEF n, k
<1>9. /\ DOMAIN c.log = 1 .. k /\ DOMAIN log = 1 .. k + 1 /\ 1 .. k + 1 = (1 .. k) \cup {k + 1}
      /\ k + 1 \notin 1 .. k
  BY <1>1, <1>6 DEF k
<1>10. Evidence!Here(n) = Evidence!Here(c) \cup {k + 1} /\ Evidence!Here(c) \subseteq 1 .. k
  BY <1>1, <1>5, <1>6, <1>7, <1>9 DEF Evidence!Here
<1>11. /\ Mine(n, t) = Mine(c, t) \cup {k + 1}
       /\ \A u \in Evidence!Target \ {t} : Mine(n, u) = Mine(c, u)
       /\ \A u : Mine(c, u) \subseteq 1 .. k
  BY <1>5, <1>6, <1>7, <1>9, <1>10 DEF Mine
<1>12. \A i \in 1 .. k + 1 :
        /\ log[i].rev <= n.rev /\ log[i].supersedes \in 0 .. i - 1
        /\ log[i].previous # log[i].new
        /\ log[i].supersedes # 0 =>
            /\ log[log[i].supersedes].target = log[i].target
            /\ log[log[i].supersedes].new = log[i].previous
  <2>1. ASSUME NEW i \in 1 .. k
        PROVE  /\ c.log[i].rev <= c.rev /\ c.log[i].supersedes \in 0 .. i - 1
               /\ c.log[i].previous # c.log[i].new
               /\ c.log[i].supersedes # 0 =>
                    /\ c.log[i].supersedes \in 1 .. k
                    /\ c.log[c.log[i].supersedes].target = c.log[i].target
                    /\ c.log[c.log[i].supersedes].new = c.log[i].previous
    BY <1>1 DEF Chained, k
  <2>2. ASSUME NEW i \in 1 .. k
        PROVE  /\ log[i].rev <= n.rev /\ log[i].supersedes \in 0 .. i - 1
               /\ log[i].previous # log[i].new
               /\ log[i].supersedes # 0 =>
                    /\ log[log[i].supersedes].target = log[i].target
                    /\ log[log[i].supersedes].new = log[i].previous
    BY <1>6, <1>7, <2>1
  <2>3. /\ r.rev <= n.rev /\ r.supersedes \in 0 .. k /\ r.previous # r.new
        /\ r.supersedes # 0 => log[r.supersedes].target = r.target /\ log[r.supersedes].new = r.previous
    BY <1>1, <1>2, <1>5, <1>6, <1>7, <1>9
  <2> QED
    BY <1>1, <1>6, <1>9, <2>2, <2>3
\* The head of its field is superseded, and no other head is.
<1>13. Evidence!Heads(n, t) = {k + 1}
  <2>1. ASSUME NEW j \in Evidence!Here(n) PROVE log[j].supersedes # k + 1
    BY <1>1, <1>7, <1>9, <1>10, <1>12, <2>1
  <2>2. ASSUME NEW i \in Mine(c, t) PROVE \E j \in Evidence!Here(n) : log[j].supersedes = i
    <3>1. CASE i = head
      BY <1>5, <1>6, <1>10, <3>1
    <3>2. CASE i # head
      <4>1. i \notin Evidence!Heads(c, t)
        BY <1>3, <2>2, <3>2
      <4>2. PICK j \in Evidence!Here(c) : c.log[j].supersedes = i
        BY <2>2, <4>1 DEF Evidence!Heads, Mine
      <4> QED
        BY <1>6, <1>10, <4>2
    <3> QED
      BY <3>1, <3>2
  <2>3. Evidence!Heads(n, t) = {i \in Mine(n, t) : \A j \in Evidence!Here(n) : log[j].supersedes # i}
    BY <1>7 DEF Evidence!Heads, Mine
  <2> QED
    BY <1>11, <2>1, <2>2, <2>3
<1>14. ASSUME NEW u \in Evidence!Target \ {t} PROVE Evidence!Heads(n, u) = Evidence!Heads(c, u)
  <2>2. head \notin Mine(c, u) /\ 0 \notin Mine(c, u)
    BY <1>2, <1>11 DEF Mine
  <2>3. Evidence!Heads(n, u) = {i \in Mine(n, u) : \A j \in Evidence!Here(n) : log[j].supersedes # i}
    BY <1>7 DEF Evidence!Heads, Mine
  <2>4. Evidence!Heads(c, u) = {i \in Mine(c, u) : \A j \in Evidence!Here(c) : c.log[j].supersedes # i}
    BY DEF Evidence!Heads, Mine
  <2> QED
    BY <1>5, <1>6, <1>10, <1>11, <2>2, <2>3, <2>4
<1>15. ASSUME NEW u \in Evidence!Target, Mine(n, u) # {}
       PROVE  \E h \in Mine(n, u) : Evidence!Heads(n, u) = {h} /\ \A j \in Mine(n, u) : j <= h
  <2>1. CASE u = t
    <3>1. \A j \in Mine(n, t) : j <= k + 1
      BY <1>1, <1>11
    <3> QED
      BY <1>11, <1>13, <2>1, <3>1
  <2>2. CASE u # t
    BY <1>11, <1>14, <1>15, <2>2 DEF Chained
  <2> QED
    BY <2>1, <2>2
<1>16. Chained(n)
  BY <1>6, <1>7, <1>12, <1>15 DEF Chained
<1> QED
  BY <1>7, <1>8, <1>13, <1>14, <1>16 DEF Evidence!Corrected

\* The invariant in the next state, of the values there.
LEMMA EvidencePrimed ==
  EvidenceInv' <=>
    /\ Chained(reviewing') /\ Evidence!AnswerFits(reviewing') /\ fault' = FALSE
    /\ Evidence!Build(reviewing', seen') \in {"nothing", "partial", "record"}
BY DEF EvidenceInv, Chained, Evidence!AnswerFits, Evidence!Build, Mine, Evidence!Heads, Evidence!Here,
   Evidence!Corrected, Evidence!ChainsHold, Evidence!Disposition, Evidence!PolicyGap, Evidence!Value,
   Evidence!NewValue, Evidence!Renders, Evidence!Template, Evidence!HasPlate,
   Evidence!PlateReadoutPerformed

\* The view is built of corrections that hold and an answer that fits, or not stored.
LEMMA StoreKeeps ==
  ASSUME EvidenceInv, NEW c, NEW o, Chained(c), Evidence!AnswerFits(c), Evidence!Store(c, o)
  PROVE  EvidenceInv'
<1>1. Evidence!Build(c, o) \in {"nothing", "partial", "record", "gap"}
  BY ChainsHolding DEF Evidence!Build
<1>2. /\ fault' = FALSE
      /\ \/ reviewing' = c /\ seen' = o /\ Evidence!Build(c, o) # "gap"
         \/ reviewing' = reviewing /\ seen' = seen
  BY <1>1 DEF Evidence!Store
<1>3. Chained(reviewing') /\ Evidence!AnswerFits(reviewing')
  BY <1>2 DEF EvidenceInv
<1>4. Evidence!Build(reviewing', seen') \in {"nothing", "partial", "record"}
  BY <1>1, <1>2 DEF EvidenceInv
<1> QED
  BY <1>2, <1>3, <1>4, EvidencePrimed

LEMMA Stored ==
  ASSUME EvidenceInv
  PROVE  Chained(reviewing) /\ Evidence!AnswerFits(reviewing) /\ reviewing \in Corrections
BY DEF EvidenceInv, Chained

LEMMA ObserveKeeps ==
  ASSUME EvidenceInv, NEW o \in Evidence!Observation, Evidence!Observe(o)
  PROVE  EvidenceInv'
BY Stored, StoreKeeps DEF Evidence!Observe

LEMMA ReselectKeeps ==
  ASSUME EvidenceInv, NEW c \in Candidate, NEW o \in Evidence!Observation,
         Evidence!SelectOtherCandidate(c, o)
  PROVE  EvidenceInv'
<1> DEFINE n == Evidence!Reselected(c)
<1>1. reviewing \in Corrections /\ reviewing.rev \in Nat
  BY Stored DEF Corrections
<1>2. /\ n \in Corrections /\ n.log = reviewing.log /\ n.rev = reviewing.rev + 1 /\ n.response = "none"
  <2>1. n = [reviewing EXCEPT !.selected = c, !.rev = reviewing.rev + 1, !.response = "none"]
    BY DEF Evidence!Reselected
  <2>2. reviewing.rev + 1 \in Nat
    BY <1>1
  <2> HIDE DEF n
  <2> QED
    BY <1>1, <2>1, <2>2 DEF Corrections
<1>3. Evidence!Store(n, o)
  BY DEF Evidence!SelectOtherCandidate
<1> HIDE DEF n
<1>4. Chained(n)
  BY <1>2, Stored, NewSelection
<1>5. Evidence!AnswerFits(n)
  BY <1>2 DEF Evidence!AnswerFits
<1> QED
  BY <1>3, <1>4, <1>5, StoreKeeps

\* The value a correction replaces is a value, the one of the correction before it.
LEMMA PreviousFacts ==
  ASSUME EvidenceInv, NEW t \in Evidence!Target
  PROVE  /\ Evidence!PreviousValue(t) \in Shown
         /\ Evidence!ChainHead(reviewing, t) # 0 =>
                Evidence!PreviousValue(t) = reviewing.log[Evidence!ChainHead(reviewing, t)].new
<1>1. \A i \in 1 .. Len(reviewing.log) : reviewing.log[i].new \in Shown
  <2>1. reviewing.log \in Seq(Correction)
    BY Stored DEF Corrections
  <2>2. \A i \in 1 .. Len(reviewing.log) : reviewing.log[i] \in Correction
    BY <2>1
  <2> QED
    BY <2>2 DEF Correction
<1>2. Evidence!ChainHead(reviewing, t) # 0 => Evidence!ChainHead(reviewing, t) \in 1 .. Len(reviewing.log)
  BY Stored, ChainFacts
<1>3. Evidence!Value(reviewing, seen, t) \in Shown
  <2>1. CASE Evidence!Corrected(reviewing, t)
    <3>1. (CHOOSE i \in Evidence!Heads(reviewing, t) : TRUE) \in 1 .. Len(reviewing.log)
      BY <2>1, Stored, ChainFacts
    <3> QED
      BY <1>1, <2>1, <3>1 DEF Evidence!Value, Evidence!NewValue
  <2>2. CASE ~Evidence!Corrected(reviewing, t)
    BY <2>2 DEF Evidence!Value, Shown
  <2> QED
    BY <2>1, <2>2
<1>4. Evidence!ShownValue(t) \in Shown
  BY <1>3 DEF Evidence!ShownValue, Shown
<1> QED
  BY <1>1, <1>2, <1>4 DEF Evidence!PreviousValue

\* The case with one more correction.
LEMMA Correcting ==
  ASSUME EvidenceInv, NEW t \in Evidence!Target, NEW value \in Shown, Evidence!MayCorrect(t, value)
  PROVE  LET n == Evidence!WithCorrection(t, value)
         IN  /\ Chained(n) /\ n \in Corrections /\ n.selected = reviewing.selected
             /\ n.response = reviewing.response /\ n.about = reviewing.about
             /\ n.rev = reviewing.rev /\ Evidence!Corrected(n, t)
             /\ \A u \in Evidence!Target \ {t} :
                    Evidence!Corrected(n, u) <=> Evidence!Corrected(reviewing, u)
<1> DEFINE old == Evidence!PreviousValue(t)
           n == Longer(reviewing, t, old, value)
<1>1. /\ old \in Shown /\ old # value
      /\ Evidence!ChainHead(reviewing, t) # 0 =>
            old = reviewing.log[Evidence!ChainHead(reviewing, t)].new
  BY PreviousFacts DEF Evidence!MayCorrect
<1>2. n = Evidence!WithCorrection(t, value)
  BY DEF Evidence!WithCorrection, Longer
<1> HIDE DEF old
<1>3. /\ Chained(n) /\ n.selected = reviewing.selected
      /\ n.response = reviewing.response /\ n.about = reviewing.about
      /\ n.rev = reviewing.rev /\ Evidence!Corrected(n, t)
      /\ \A u \in Evidence!Target \ {t} :
            Evidence!Corrected(n, u) <=> Evidence!Corrected(reviewing, u)
  BY <1>1, Stored, CorrectionChains
<1> HIDE DEF n
<1> QED
  BY <1>2, <1>3 DEF Chained

LEMMA EditKeeps ==
  ASSUME EvidenceInv, NEW t \in {"vehicle_number", "occurred_at"}, NEW value \in Plate \cup Moment,
         Evidence!Edit(t, value)
  PROVE  EvidenceInv'
<1> DEFINE n == Evidence!WithCorrection(t, value)
<1>1. t \in Evidence!Target /\ value \in Shown
      /\ "event.visual_event_type" \in Evidence!Target \ {t}
  BY DEF Evidence!Target, Shown
<1>2. Evidence!MayCorrect(t, value) /\ Evidence!Store(n, seen)
  BY DEF Evidence!Edit
<1>3. /\ Chained(n) /\ n.selected = reviewing.selected
      /\ n.response = reviewing.response /\ n.about = reviewing.about
      /\ Evidence!Corrected(n, "event.visual_event_type")
            <=> Evidence!Corrected(reviewing, "event.visual_event_type")
  BY <1>1, <1>2, Correcting
<1> HIDE DEF n
<1>4. Evidence!AnswerFits(n)
  BY <1>3, Stored DEF Evidence!AnswerFits
<1> QED
  BY <1>2, <1>3, <1>4, StoreKeeps

LEMMA CorrectSituationKeeps ==
  ASSUME EvidenceInv, NEW type \in Type, Evidence!CorrectSituation(type)
  PROVE  EvidenceInv'
<1> DEFINE t == "event.visual_event_type"
           m == Evidence!WithCorrection(t, type)
           n == [m EXCEPT !.response = "CORRECTED", !.about = reviewing.selected]
<1>1. t \in Evidence!Target /\ type \in Shown
  BY DEF Evidence!Target, Shown
<1>2. Evidence!MayCorrect(t, type) /\ Evidence!Store(n, seen)
  BY DEF Evidence!CorrectSituation
<1>3. Chained(m) /\ m \in Corrections /\ m.selected = reviewing.selected /\ Evidence!Corrected(m, t)
  BY <1>1, <1>2, Correcting
<1> HIDE DEF m
<1>4. /\ n \in Corrections /\ n.log = m.log /\ n.rev = m.rev /\ n.selected = reviewing.selected
      /\ n.about = reviewing.selected /\ n.response = "CORRECTED"
  BY <1>3, Stored DEF Corrections, Evidence!Answer
<1> HIDE DEF n
<1>5. Chained(n) /\ Evidence!Corrected(n, t)
  BY <1>3, <1>4, SameLog
<1>6. Evidence!AnswerFits(n)
  BY <1>4, <1>5 DEF Evidence!AnswerFits
<1> QED
  BY <1>2, <1>5, <1>6, StoreKeeps

LEMMA RespondKeeps ==
  ASSUME EvidenceInv, NEW value \in Evidence!Answer, Evidence!RecordSituationResponse(value)
  PROVE  EvidenceInv'
<1> DEFINE t == "event.visual_event_type"
           n == [reviewing EXCEPT !.response = value, !.about = reviewing.selected]
<1>1. /\ value # "CORRECTED" /\ Evidence!Store(n, seen)
      /\ value = "USER_UNSURE" => Evidence!ChainHead(reviewing, t) = 0
  BY DEF Evidence!RecordSituationResponse, Evidence!MayAnswer
<1>2. /\ n \in Corrections /\ n.log = reviewing.log /\ n.rev = reviewing.rev
      /\ n.selected = reviewing.selected /\ n.about = reviewing.selected /\ n.response = value
  BY Stored DEF Corrections
<1> HIDE DEF n
<1>3. Chained(n) /\ (Evidence!Corrected(n, t) <=> Evidence!Corrected(reviewing, t))
  BY <1>2, Stored, SameLog
<1>4. value = "USER_UNSURE" => ~Evidence!Corrected(reviewing, t)
  <2>1. t \in Evidence!Target
    BY DEF Evidence!Target
  <2> QED
    BY <1>1, <2>1, Stored, ChainFacts
<1>5. Evidence!AnswerFits(n)
  BY <1>1, <1>2, <1>3, <1>4 DEF Evidence!AnswerFits
<1> QED
  BY <1>1, <1>3, <1>5, StoreKeeps

LEMMA EvidenceNext ==
  ASSUME EvidenceInv, Evidence!Next
  PROVE  EvidenceInv'
BY ObserveKeeps, ReselectKeeps, EditKeeps, CorrectSituationKeeps, RespondKeeps DEF Evidence!Next

LEMMA EvidenceInit ==
  ASSUME Evidence!Init
  PROVE  EvidenceInv
<1>1. PICK c \in Candidate :
        reviewing = [selected |-> c, rev |-> 1, response |-> "none", about |-> c, log |-> <<>>]
  BY DEF Evidence!Init
<1>2. fault = FALSE /\ seen.fine = "pending"
  BY DEF Evidence!Init, Evidence!Nothing
<1>3. /\ reviewing \in Corrections /\ reviewing.log = <<>> /\ reviewing.response = "none"
  BY <1>1 DEF Corrections
<1>4. \A t : Mine(reviewing, t) = {}
  BY <1>3 DEF Mine, Evidence!Here
<1>5. Chained(reviewing)
  BY <1>3, <1>4 DEF Chained
<1> QED
  BY <1>2, <1>3, <1>5 DEF EvidenceInv, Evidence!AnswerFits, Evidence!Build

\* The rules let nothing through that the builder of the package refuses.
LEMMA ReportIsPackable ==
  ASSUME NEW c, NEW o, NEW d \in Evidence!Delivery, Evidence!LetsThrough(c, o, d)
  PROVE  Evidence!Packable(c, o, d)
<1>1. /\ Evidence!VideoOutcome(d) \in {"PASS", "WARN"}
      /\ Evidence!SizeOutcome(d.video) \in {"PASS", "WARN"}
      /\ (IF Evidence!Renders(c, o, d.located) THEN "PASS" ELSE "UNKNOWN") \in {"PASS", "WARN"}
  BY DEF Evidence!LetsThrough, Evidence!Report, Evidence!AttachmentOutcomes
<1>2. d.video = <<"AVAILABLE", "fits">>
  <2>1. d.video \in Evidence!Video
    BY DEF Evidence!Delivery
  <2>2. d.video[1] = "AVAILABLE"
    BY <1>1 DEF Evidence!VideoOutcome
  <2>3. d.video[2] = "fits"
    BY <1>1, <2>2 DEF Evidence!SizeOutcome
  <2> QED
    BY <2>1, <2>2, <2>3 DEF Evidence!Video
<1>3. Evidence!Renders(c, o, d.located)
  BY <1>1
<1>4. /\ Evidence!Value(c, o, "occurred_at") # "none"
      /\ Evidence!Template(c, o, d.located) # <<>>
  BY <1>3 DEF Evidence!Renders
<1>5. /\ Evidence!HasPlate(c, o) \/ Evidence!PlateReadoutPerformed(o)
      /\ IF Evidence!Value(c, o, "event.visual_event_type") = "none" THEN c.response = "USER_UNSURE"
         ELSE c.response \in {"CONFIRMED", "CORRECTED"}
  BY <1>4 DEF Evidence!Template
<1> QED
  BY <1>2, <1>4, <1>5 DEF Evidence!Packable

LEMMA EvidenceImplies == EvidenceInv => EvidenceSound
<1> SUFFICES ASSUME EvidenceInv PROVE EvidenceSound
  OBVIOUS
<1>1. Evidence!NoWiringFault
  BY DEF EvidenceInv, Evidence!NoWiringFault
<1>2. Evidence!PackageFollowsReport
  BY ReportIsPackable DEF Evidence!PackageFollowsReport
<1> QED
  BY <1>1, <1>2 DEF EvidenceSound

LEMMA EvidenceGoesOn == Spec => []EvidenceInv
<1>1. EvidenceInv /\ UNCHANGED evidence => EvidenceInv'
  <2> SUFFICES ASSUME EvidenceInv, UNCHANGED evidence PROVE EvidenceInv'
    OBVIOUS
  <2>1. reviewing' = reviewing /\ seen' = seen /\ fault' = fault
    BY DEF evidence
  <2>2. /\ Chained(reviewing) /\ Evidence!AnswerFits(reviewing) /\ fault = FALSE
        /\ Evidence!Build(reviewing, seen) \in {"nothing", "partial", "record"}
    BY DEF EvidenceInv
  <2> QED
    BY <2>1, <2>2, EvidencePrimed
<1>2. EvidenceInv /\ [Next]_vars => EvidenceInv'
  BY <1>1, EvidenceNext, OthersRest DEF EvidenceStep
<1>3. Init => EvidenceInv
  BY EvidenceInit DEF Init
<1> QED
  BY <1>3, <1>2, PTL DEF Spec

\* For any candidates and values: no order of answers, corrections, reselections
\* and results breaks the contracts of evidence, and what the final report lets
\* through can be packed.
THEOREM EvidenceHolds == Spec => []EvidenceSound
BY EvidenceGoesOn, EvidenceImplies, PTL

-----------------------------------------------------------------------------
\* The frames that read a text, and the first of the best among them.
Readers(t) == {i \in DOMAIN readings : readings[i].text = t}

BestOf(t) ==
    \E i \in Readers(t) : \A j \in Readers(t) \ {i} : Reading!Better(i, j)

Moments == [at : Nat, off : Error \cup {0}, parsed : BOOLEAN]

ReadoutShape ==
    /\ kind \in {"PLATE_READ", "OVERLAY_TIME_READ"}
    /\ looked \in Nat /\ gap \in Nat \ {0} /\ begin \in Nat
    /\ kind = "PLATE_READ" =>
        /\ readings \in Seq(Reading!Frames)
        /\ \A t : Readers(t) # {} => BestOf(t)
    /\ kind = "OVERLAY_TIME_READ" =>
        /\ readings \in Seq(Moments)
        /\ \A i \in 1 .. Len(readings) :
            /\ readings[i].at + gap <= looked * gap
            /\ \A j \in i .. Len(readings) : readings[i].at <= readings[j].at

ReadoutInv == ReadoutShape /\ Reading!ReadoutSound

LEMMA SameCardinality == \A S : Reading!Cardinality(S) = Cardinality(S)
BY DEF Reading!Cardinality, Cardinality

\* Votes for different texts are different frames.
LEMMA VotesFacts ==
  ASSUME NEW S, readings \in Seq(S)
  PROVE  /\ \A t : /\ Reading!Votes(t) = Cardinality(Readers(t)) /\ Reading!Votes(t) \in 0 .. Len(readings)
                   /\ Reading!Votes(t) > 0 <=> Readers(t) # {}
                   /\ Cardinality({i \in DOMAIN readings : readings[i].text # t})
                        = Len(readings) - Reading!Votes(t)
         /\ \A t, u : t # u => Reading!Votes(t) + Reading!Votes(u) <= Len(readings)
<1> DEFINE all == DOMAIN readings
           others(t) == {i \in DOMAIN readings : readings[i].text # t}
<1>1. all = 1 .. Len(readings) /\ Len(readings) \in Nat
  OBVIOUS
<1>2. IsFiniteSet(all) /\ Cardinality(all) = Len(readings)
  BY <1>1, FS_Interval
<1>3. ASSUME NEW t
      PROVE  /\ Reading!Votes(t) = Cardinality(Readers(t)) /\ IsFiniteSet(Readers(t))
             /\ Cardinality(Readers(t)) \in Nat /\ (Cardinality(Readers(t)) > 0 <=> Readers(t) # {})
             /\ Cardinality(Readers(t)) <= Len(readings)
             /\ IsFiniteSet(others(t)) /\ Cardinality(others(t)) = Len(readings) - Cardinality(Readers(t))
  <2>1. Reading!Votes(t) = Cardinality(Readers(t))
    BY SameCardinality DEF Reading!Votes, Readers
  <2>2. Readers(t) \subseteq all /\ others(t) = all \ Readers(t)
    BY DEF Readers
  <2> HIDE DEF all, others
  <2>3. IsFiniteSet(Readers(t)) /\ Cardinality(Readers(t)) <= Cardinality(all)
    BY <1>2, <2>2, FS_Subset
  <2>4. Cardinality(Readers(t)) \in Nat /\ (Cardinality(Readers(t)) = 0 <=> Readers(t) = {})
    BY <2>3, FS_CardinalityType, FS_EmptySet
  <2>5. /\ IsFiniteSet(others(t))
        /\ Cardinality(others(t)) = Cardinality(all) - Cardinality(all \cap Readers(t))
    BY <1>2, <2>2, <2>3, FS_Difference
  <2>6. all \cap Readers(t) = Readers(t)
    BY <2>2
  <2>7. Cardinality(Readers(t)) > 0 <=> Readers(t) # {}
    BY <2>4
  <2>8. Cardinality(Readers(t)) <= Len(readings)
    BY <1>2, <2>3
  <2>9. Cardinality(others(t)) = Len(readings) - Cardinality(Readers(t))
    BY <1>2, <2>5, <2>6
  <2> QED
    BY <2>1, <2>3, <2>4, <2>5, <2>7, <2>8, <2>9
<1>4. ASSUME NEW t, NEW u, t # u PROVE Cardinality(Readers(t)) + Cardinality(Readers(u)) <= Len(readings)
  <2>1. Readers(u) \subseteq others(t)
    BY <1>4 DEF Readers
  <2> HIDE DEF others
  <2>2. Cardinality(Readers(u)) <= Cardinality(others(t))
    BY <1>3, <2>1, FS_Subset
  <2> QED
    BY <1>1, <1>3, <2>2
<1>5. ASSUME NEW t
      PROVE  /\ Reading!Votes(t) = Cardinality(Readers(t)) /\ Reading!Votes(t) \in 0 .. Len(readings)
             /\ Reading!Votes(t) > 0 <=> Readers(t) # {}
             /\ Cardinality({i \in DOMAIN readings : readings[i].text # t})
                    = Len(readings) - Reading!Votes(t)
  <2>1. others(t) = {i \in DOMAIN readings : readings[i].text # t}
    OBVIOUS
  <2> HIDE DEF others, all
  <2>2. Cardinality({i \in DOMAIN readings : readings[i].text # t}) = Len(readings) - Reading!Votes(t)
    BY <1>3, <2>1
  <2>3. Reading!Votes(t) \in 0 .. Len(readings)
    BY <1>1, <1>3
  <2> QED
    BY <1>3, <2>2, <2>3
<1>6. ASSUME NEW t, NEW u, t # u PROVE Reading!Votes(t) + Reading!Votes(u) <= Len(readings)
  BY <1>3, <1>4, <1>6
<1> QED
  BY <1>5, <1>6

\* One more frame: it is the best of its text, or the best stays.
LEMMA ReadPlateKeeps ==
  ASSUME ReadoutInv, NEW frame \in Reading!Frames, Reading!ReadPlate(frame)
  PROVE  ReadoutInv'
<1>1. /\ kind = "PLATE_READ" /\ result = Reading!NotYet /\ readings' = Append(readings, frame)
      /\ UNCHANGED <<kind, looked, begin, gap, result>>
      /\ readings \in Seq(Reading!Frames)
  BY DEF Reading!ReadPlate, ReadoutInv, ReadoutShape
<1> DEFINE k == Len(readings)
<1>2. /\ readings' \in Seq(Reading!Frames) /\ k \in Nat /\ DOMAIN readings = 1 .. k
      /\ DOMAIN readings' = (1 .. k) \cup {k + 1} /\ readings'[k + 1] = frame
      /\ \A i \in 1 .. k : readings'[i] = readings[i]
  BY <1>1, Appended
<1>3. frame.score \in Nat /\ \A i \in 1 .. k : readings[i].score \in Nat
  <2>1. \A f \in Reading!Frames : f.score \in Nat
    BY PartsAssumption DEF PartsAssumption, Reading!ReadoutAssumption, Reading!Frames
  <2> QED
    BY <1>1, <1>2, <2>1
<1> HIDE DEF k
<1>4. ASSUME NEW t, Readers(t)' # {} PROVE BestOf(t)'
  <2> DEFINE new == Readers(t)'
             better(i, j) == \/ readings'[i].score > readings'[j].score
                             \/ (readings'[i].score = readings'[j].score /\ i < j)
  <2> SUFFICES \E i \in new : \A j \in new \ {i} : better(i, j)
    BY DEF BestOf, Reading!Better
  <2>1. new = Readers(t) \cup (IF frame.text = t THEN {k + 1} ELSE {})
    BY <1>2 DEF Readers
  <2>2. Readers(t) \subseteq 1 .. k
    BY <1>2 DEF Readers
  <2>3. CASE Readers(t) = {}
    BY <1>4, <2>1, <2>3
  <2>4. CASE Readers(t) # {}
    <3>1. PICK b \in Readers(t) : \A j \in Readers(t) \ {b} : Reading!Better(b, j)
      BY <1>1, <2>4 DEF ReadoutInv, ReadoutShape, BestOf
    <3>2. \A j \in Readers(t) \ {b} : better(b, j)
      BY <1>2, <2>2, <3>1 DEF Reading!Better
    <3>3. CASE frame.text # t
      BY <2>1, <3>1, <3>2, <3>3
    <3>4. CASE frame.text = t /\ frame.score <= readings[b].score
      <4>1. better(b, k + 1)
        BY <1>2, <1>3, <2>2, <3>4
      <4> QED
        BY <2>1, <3>1, <3>2, <3>4, <4>1
    <3>5. CASE frame.text = t /\ frame.score > readings[b].score
      <4>1. \A j \in Readers(t) : better(k + 1, j)
        BY <1>2, <1>3, <2>2, <3>2, <3>5
      <4> QED
        BY <2>1, <3>5, <4>1
    <3> QED
      BY <1>3, <2>2, <3>3, <3>4, <3>5
  <2> QED
    BY <2>3, <2>4
<1>5. ReadoutShape'
  BY <1>1, <1>2, <1>4 DEF ReadoutInv, ReadoutShape
<1>6. Reading!ReadoutSound'
  BY <1>1 DEF Reading!ReadoutSound, Reading!AdoptedPlateIsAgreed,
     Reading!PlateKeepsContract, Reading!OverlayIsChecked, Reading!Finished
<1> QED
  BY <1>5, <1>6 DEF ReadoutInv

LEMMA RunFailsKeeps ==
  ASSUME ReadoutInv, Reading!RunFails
  PROVE  ReadoutInv'
<1>1. /\ readings' = <<>> /\ looked' = 0 /\ UNCHANGED <<kind, begin, gap>>
      /\ result' = Reading!Failed
  BY DEF Reading!RunFails
<1>2. \A t : Readers(t)' = {}
  BY <1>1 DEF Readers
<1>3. ReadoutShape'
  BY <1>1, <1>2 DEF ReadoutInv, ReadoutShape
<1>4. Reading!ReadoutSound'
  BY <1>1 DEF Reading!ReadoutSound, Reading!AdoptedPlateIsAgreed,
     Reading!PlateKeepsContract, Reading!OverlayIsChecked, Reading!Finished
<1> QED
  BY <1>3, <1>4 DEF ReadoutInv

LEMMA LookForTimeKeeps ==
  ASSUME ReadoutInv, Reading!LookForTime
  PROVE  ReadoutInv'
<1>1. /\ kind = "OVERLAY_TIME_READ" /\ result = Reading!NotYet /\ looked' = looked + 1
      /\ UNCHANGED <<kind, begin, gap, result>>
  BY DEF Reading!LookForTime
<1>2. /\ readings \in Seq(Moments) /\ looked \in Nat /\ gap \in Nat \ {0}
      /\ Len(readings) \in Nat
      /\ \A i \in 1 .. Len(readings) :
            /\ readings[i] \in Moments /\ readings[i].at \in Nat
            /\ readings[i].at + gap <= looked * gap
            /\ \A j \in i .. Len(readings) : readings[i].at <= readings[j].at
  <2>1. /\ readings \in Seq(Moments) /\ looked \in Nat /\ gap \in Nat \ {0}
        /\ \A i \in 1 .. Len(readings) :
            /\ readings[i].at + gap <= looked * gap
            /\ \A j \in i .. Len(readings) : readings[i].at <= readings[j].at
    BY <1>1 DEF ReadoutInv, ReadoutShape
  <2>2. Len(readings) \in Nat /\ \A i \in 1 .. Len(readings) : readings[i] \in Moments
    BY <2>1
  <2>3. \A i \in 1 .. Len(readings) : readings[i].at \in Nat
    BY <2>2 DEF Moments
  <2> QED
    BY <2>1, <2>2, <2>3
<1>3. looked * gap \in Nat /\ looked' * gap = looked * gap + gap
  BY <1>1, <1>2
<1>4. \/ readings' = readings
      \/ \E m \in Moments : m.at = looked * gap /\ readings' = Append(readings, m)
  <2>1. CASE \E off \in Error \cup {0} :
                readings' = Append(readings, [at |-> looked * gap, off |-> off, parsed |-> TRUE])
    BY <1>3, <2>1 DEF Moments
  <2>2. CASE readings' = Append(readings, [at |-> looked * gap, off |-> 0, parsed |-> FALSE])
    BY <1>3, <2>2 DEF Moments
  <2> QED
    BY <2>1, <2>2 DEF Reading!LookForTime
<1>5. /\ readings' \in Seq(Moments)
      /\ \A i \in 1 .. Len(readings') :
            /\ readings'[i].at + gap <= looked' * gap
            /\ \A j \in i .. Len(readings') : readings'[i].at <= readings'[j].at
  <2> DEFINE most == looked * gap
  <2>1. most \in Nat /\ looked' * gap = most + gap
    BY <1>3
  <2> HIDE DEF most
  <2>2. CASE readings' = readings
    BY <1>2, <1>3, <2>1, <2>2 DEF most
  <2>3. ASSUME NEW m \in Moments, m.at = most, readings' = Append(readings, m)
        PROVE  /\ readings' \in Seq(Moments)
               /\ \A i \in 1 .. Len(readings') :
                    /\ readings'[i].at + gap <= looked' * gap
                    /\ \A j \in i .. Len(readings') : readings'[i].at <= readings'[j].at
    <3> DEFINE k == Len(readings)
    <3>1. /\ readings' \in Seq(Moments) /\ Len(readings') = k + 1 /\ readings'[k + 1] = m
          /\ \A i \in 1 .. k : readings'[i] = readings[i]
      BY <1>2, <2>3, Appended
    <3>2. k \in Nat /\ gap \in Nat
      BY <1>2
    <3>3. \A i \in 1 .. k : readings[i].at \in Nat /\ readings[i].at + gap <= most
      BY <1>2 DEF most
    <3> HIDE DEF k
    <3>4. ASSUME NEW i \in 1 .. k + 1 PROVE readings'[i].at + gap <= most + gap
      BY <2>1, <2>3, <3>1, <3>2, <3>3
    <3>5. ASSUME NEW i \in 1 .. k + 1, NEW j \in i .. k + 1
          PROVE  readings'[i].at <= readings'[j].at
      <4>1. CASE j = k + 1
        BY <2>1, <2>3, <3>1, <3>2, <3>3, <4>1
      <4>2. CASE j # k + 1
        <5>1. i \in 1 .. k /\ j \in i .. k /\ j \in 1 .. k
          BY <3>2, <4>2
        <5> QED
          BY <1>2, <3>1, <5>1 DEF k
      <4> QED
        BY <4>1, <4>2
    <3> QED
      BY <2>1, <3>1, <3>4, <3>5
  <2> QED
    BY <1>4, <2>2, <2>3 DEF most
<1>6. ReadoutShape'
  BY <1>1, <1>2, <1>5 DEF ReadoutInv, ReadoutShape
<1>7. Reading!ReadoutSound'
  BY <1>1 DEF Reading!ReadoutSound, Reading!AdoptedPlateIsAgreed,
     Reading!PlateKeepsContract, Reading!OverlayIsChecked, Reading!Finished
<1> QED
  BY <1>6, <1>7 DEF ReadoutInv

\* The text most frames read: that of all, or that of more than half.
LEMMA MostReadFacts ==
  ASSUME ReadoutShape, kind = "PLATE_READ", readings # <<>>, ~Reading!Disagreed
  PROVE  /\ \E i \in DOMAIN readings : Reading!MostRead = readings[i].text
         /\ \/ Reading!Votes(Reading!MostRead) = Len(readings)
            \/ Reading!Agreed(Reading!MostRead)
<1> DEFINE most(i) == \A j \in DOMAIN readings : Reading!Votes(readings[j].text) <= Reading!Votes(readings[i].text)
           m == CHOOSE i \in DOMAIN readings : most(i)
<1>1. /\ readings \in Seq(Reading!Frames) /\ DOMAIN readings = 1 .. Len(readings) /\ Len(readings) \in Nat
      /\ Len(readings) > 0
  BY DEF ReadoutShape
<1>2. /\ \A t : /\ Reading!Votes(t) \in 0 .. Len(readings)
                /\ Reading!Votes(t) > 0 <=> Readers(t) # {}
      /\ \A t, u : t # u => Reading!Votes(t) + Reading!Votes(u) <= Len(readings)
  BY <1>1, VotesFacts
<1>3. Reading!MostRead = readings[m].text
  BY DEF Reading!MostRead
<1>4. CASE \A i, j \in DOMAIN readings : Reading!Same(i, j)
  <2>1. \A i, j \in DOMAIN readings : readings[i].text = readings[j].text
    BY <1>4 DEF Reading!Same
  <2>2. most(1) /\ 1 \in DOMAIN readings
    BY <1>1, <1>2, <2>1
  <2>3. m \in DOMAIN readings
    BY <2>2
  <2> HIDE DEF m
  <2>4. {i \in DOMAIN readings : readings[i].text # readings[m].text} = {}
    BY <2>1, <2>3
  <2>5. Cardinality({i \in DOMAIN readings : readings[i].text # readings[m].text})
            = Len(readings) - Reading!Votes(readings[m].text)
    BY <1>1, VotesFacts
  <2>6. Len(readings) - Reading!Votes(readings[m].text) = 0
    BY <2>4, <2>5, FS_EmptySet
  <2>7. Reading!Votes(readings[m].text) \in 0 .. Len(readings)
    BY <1>2
  <2> DEFINE v == Reading!Votes(readings[m].text)
  <2> HIDE DEF v
  <2>8. v = Len(readings)
    BY <1>1, <2>6, <2>7 DEF v
  <2> QED
    BY <1>3, <2>3, <2>8 DEF v
<1>5. ASSUME NEW t \in Text, Reading!Agreed(t)
      PROVE  (\E i \in DOMAIN readings : Reading!MostRead = readings[i].text) /\ Reading!MostRead = t
  <2>1. Reading!Votes(t) >= 3 /\ 2 * Reading!Votes(t) > Len(readings)
    BY <1>5 DEF Reading!Agreed, Reading!MinAgreeing
  <2>2. \A u : u # t => Reading!Votes(u) < Reading!Votes(t)
    BY <1>1, <1>2, <2>1
  <2>3. PICK i \in DOMAIN readings : readings[i].text = t
    BY <1>1, <1>2, <2>1 DEF Readers
  <2>4. most(i)
    BY <1>1, <1>2, <2>2, <2>3
  <2>5. m \in DOMAIN readings /\ most(m)
    BY <2>4
  <2> HIDE DEF m
  <2>6. Reading!Votes(t) <= Reading!Votes(readings[m].text)
    BY <2>3, <2>5
  <2>7. readings[m].text = t
    BY <1>1, <1>2, <2>2, <2>6
  <2> QED
    BY <1>3, <2>5, <2>7
<1> QED
  BY <1>4, <1>5 DEF Reading!Disagreed

\* A text that is read has a best frame, and that frame read it.
LEMMA BestFrameFacts ==
  ASSUME ReadoutShape, kind = "PLATE_READ", NEW t, Readers(t) # {}
  PROVE  Reading!BestFrame(Readers(t)) \in Readers(t)
<1>1. BestOf(t)
  BY DEF ReadoutShape
<1>2. PICK i \in Readers(t) : \A j \in Readers(t) \ {i} : Reading!Better(i, j)
  BY <1>1 DEF BestOf
<1> QED
  BY <1>2 DEF Reading!BestFrame

\* Where frames of one length differ there is a character in which they do.
LEMMA DifferingFacts ==
  ASSUME ReadoutShape, kind = "PLATE_READ", Reading!Disagreed, Reading!SameLength
  PROVE  Reading!Differing # {} /\ readings # <<>>
<1>1. PICK i, j \in DOMAIN readings : readings[i].text # readings[j].text
  BY DEF Reading!Disagreed, Reading!Same
<1>2. /\ readings \in Seq(Reading!Frames) /\ DOMAIN readings = 1 .. Len(readings) /\ Len(readings) \in Nat
      /\ 1 \in DOMAIN readings
  <2>1. readings \in Seq(Reading!Frames)
    BY DEF ReadoutShape
  <2> QED
    BY <1>1, <2>1
<1>3. \A h \in DOMAIN readings : readings[h].text \in Seq(Nat)
  <2>1. \A f \in Reading!Frames : f.text \in Seq(Nat)
    BY PartsAssumption DEF PartsAssumption, Reading!ReadoutAssumption, Reading!Frames
  <2>2. \A h \in DOMAIN readings : readings[h] \in Reading!Frames
    BY <1>2
  <2> QED
    BY <2>1, <2>2
<1>4. \A g, h \in DOMAIN readings : Len(readings[g].text) = Len(readings[h].text)
  BY DEF Reading!SameLength
<1>5. PICK h \in DOMAIN readings : readings[h].text # readings[1].text
  BY <1>1, <1>2
<1> DEFINE a == readings[h].text
           b == readings[1].text
<1>6. a \in Seq(Nat) /\ b \in Seq(Nat) /\ Len(a) = Len(b) /\ a # b
  BY <1>2, <1>3, <1>4, <1>5
<1> HIDE DEF a, b
<1>7. DOMAIN b = 1 .. Len(b) /\ \E c \in 1 .. Len(b) : a[c] # b[c]
  BY <1>6, SeqEqual
<1> QED
  BY <1>2, <1>5, <1>7 DEF a, b, Reading!Differing

LEMMA TextsAreSequences ==
  ASSUME ReadoutShape, kind = "PLATE_READ"
  PROVE  /\ readings \in Seq(Reading!Frames) /\ DOMAIN readings = 1 .. Len(readings)
         /\ \A i \in DOMAIN readings : readings[i].text \in Seq(Nat)
<1>1. \A f \in Reading!Frames : f.text \in Seq(Nat)
  BY PartsAssumption DEF PartsAssumption, Reading!ReadoutAssumption, Reading!Frames
<1>2. readings \in Seq(Reading!Frames)
  BY DEF ReadoutShape
<1>3. \A i \in DOMAIN readings : readings[i] \in Reading!Frames
  BY <1>2
<1> QED
  BY <1>1, <1>2, <1>3

\* Where the best frame of a text is looked for, it read that text.
LEMMA ReasonFacts ==
  ASSUME NEW disagreed \in BOOLEAN, NEW best
  PROVE  /\ Reading!AbstainReason(disagreed, best) = "FRAME_DISAGREEMENT" <=> disagreed
         /\ Reading!AbstainReason(disagreed, best) = "none" =>
                /\ ~disagreed
                /\ best # 0 => readings[best].text \in FullPlate /\ ~Reading!Poor(readings[best])
         /\ Reading!AbstainReason(FALSE, 0) = "none"
BY DEF Reading!AbstainReason, Reading!Poor

\* What `_interpret_plate` takes for the text, and the frames that read it.
LEMMA ConsensusFacts ==
  ASSUME ReadoutShape, kind = "PLATE_READ", readings # <<>>, ~Reading!Disagreed
  PROVE  \E t : /\ Reading!Consensus(FALSE) = t /\ Readers(t) # {} /\ t \in Seq(Nat)
                /\ Reading!Votes(t) = Len(readings) \/ Reading!Agreed(t)
                /\ Reading!BestFrame(Readers(t)) \in Readers(t)
                /\ \E i \in DOMAIN readings : t = readings[i].text
<1>1. Reading!Consensus(FALSE) = Reading!MostRead
  BY DEF Reading!Consensus
<1>2. PICK i \in DOMAIN readings : Reading!MostRead = readings[i].text
  BY MostReadFacts
<1>3. i \in Readers(Reading!MostRead)
  BY <1>2 DEF Readers
<1>4. Reading!MostRead \in Seq(Nat)
  BY <1>2, TextsAreSequences
<1>5. Reading!Votes(Reading!MostRead) = Len(readings) \/ Reading!Agreed(Reading!MostRead)
  BY MostReadFacts
<1>6. Reading!BestFrame(Readers(Reading!MostRead)) \in Readers(Reading!MostRead)
  BY <1>3, BestFrameFacts
<1> QED
  BY <1>1, <1>2, <1>3, <1>4, <1>5, <1>6

\* A text that all frames read, or more than half of at least three.
LEMMA AgreedFacts ==
  ASSUME ReadoutShape, kind = "PLATE_READ", readings # <<>>, NEW t, Reading!Agreed(t)
  PROVE  /\ Reading!Votes(t) >= 3
         /\ \A u \in Text \ {t} : Reading!Votes(u) < Reading!Votes(t)
         /\ 2 * Reading!Cardinality({i \in DOMAIN readings : readings[i].text # t}) < Len(readings)
<1>1. readings \in Seq(Reading!Frames) /\ Len(readings) \in Nat
  BY DEF ReadoutShape
<1>2. Reading!Votes(t) >= 3 /\ 2 * Reading!Votes(t) > Len(readings)
  BY DEF Reading!Agreed, Reading!MinAgreeing
<1>3. /\ \A u : Reading!Votes(u) \in 0 .. Len(readings)
      /\ \A u : t # u => Reading!Votes(t) + Reading!Votes(u) <= Len(readings)
      /\ Cardinality({i \in DOMAIN readings : readings[i].text # t}) = Len(readings) - Reading!Votes(t)
  BY <1>1, VotesFacts
<1>4. ASSUME NEW u \in Text \ {t} PROVE Reading!Votes(u) < Reading!Votes(t)
  BY <1>1, <1>2, <1>3
<1>5. 2 * Reading!Cardinality({i \in DOMAIN readings : readings[i].text # t})
        = 2 * (Len(readings) - Reading!Votes(t))
  BY <1>3, SameCardinality
<1>6. 2 * (Len(readings) - Reading!Votes(t)) < Len(readings)
  BY <1>1, <1>2, <1>3
<1>7. 2 * Reading!Cardinality({i \in DOMAIN readings : readings[i].text # t}) < Len(readings)
  BY <1>5, <1>6
<1> QED
  BY <1>2, <1>4, <1>7

\* The result of `_interpret_plate`, by what the frames say.
LEMMA PlateReadCases ==
  ASSUME ReadoutInv, Reading!PlateRead
  PROVE  /\ UNCHANGED <<kind, readings, looked, begin, gap>> /\ kind = "PLATE_READ"
         /\ result'.abstained <=> result'.reason # "none"
         /\ \/ /\ readings = <<>> /\ result'.status = "UNKNOWN" /\ result'.value = <<>>
               /\ result'.reason = "none" /\ result'.positions = {}
            \/ /\ readings # <<>> /\ Reading!Disagreed
               /\ result'.status = "NEEDS_REVIEW" /\ result'.reason = "FRAME_DISAGREEMENT"
               /\ IF Reading!SameLength
                    THEN result'.value = Reading!Masked /\ result'.positions = Reading!Differing
                    ELSE result'.value = <<>> /\ result'.positions = {}
            \/ /\ readings # <<>> /\ ~Reading!Disagreed
               /\ result'.reason # "FRAME_DISAGREEMENT" /\ result'.positions = {}
               /\ result'.status = IF result'.reason = "none" THEN "OK" ELSE "NEEDS_REVIEW"
               /\ result'.value = Reading!Consensus(FALSE)
               /\ result'.reason = "none" =>
                    LET best == Reading!BestFrame(Readers(result'.value))
                    IN  /\ result'.best = best
                        /\ best # 0 => readings[best].text \in FullPlate /\ ~Reading!Poor(readings[best])
<1> DEFINE disagreed == Reading!Disagreed
           value == Reading!Consensus(disagreed)
           best == Reading!BestFrame({i \in DOMAIN readings : disagreed \/ readings[i].text = value})
           reason == Reading!AbstainReason(disagreed, best)
           status == IF readings = <<>> THEN "UNKNOWN" ELSE IF reason = "none" THEN "OK" ELSE "NEEDS_REVIEW"
           positions == IF disagreed /\ Reading!SameLength THEN Reading!Differing ELSE {}
           framed == IF reason = "PARTIAL_PLATE_READ" THEN 0 ELSE best
<1>1. /\ UNCHANGED <<kind, readings, looked, begin, gap>> /\ kind = "PLATE_READ"
      /\ result' = [status |-> status, value |-> value, abstained |-> reason # "none", reason |-> reason,
                    positions |-> positions, best |-> framed]
  BY DEF Reading!PlateRead
<1>2. disagreed \in BOOLEAN
  BY DEF Reading!Disagreed
<1>3. /\ reason = "FRAME_DISAGREEMENT" <=> disagreed
      /\ reason = "none" =>
            /\ ~disagreed
            /\ best # 0 => readings[best].text \in FullPlate /\ ~Reading!Poor(readings[best])
  <2> HIDE DEF best, disagreed
  <2> QED
    BY <1>2, ReasonFacts
<1>4. ASSUME readings = <<>> PROVE ~disagreed /\ value = <<>> /\ reason = "none"
  <2>1. ~disagreed
    BY <1>4 DEF Reading!Disagreed
  <2>2. value = <<>>
    BY <1>4 DEF Reading!Consensus
  <2> HIDE DEF disagreed, value
  <2>3. {i \in DOMAIN readings : disagreed \/ readings[i].text = value} = {}
    BY <1>4
  <2>5. best = 0
    BY <2>3 DEF Reading!BestFrame
  <2> HIDE DEF best
  <2>6. disagreed = FALSE
    BY <1>2, <2>1
  <2>4. reason = Reading!AbstainReason(FALSE, 0)
    BY <2>5, <2>6
  <2>7. reason = "none"
    BY <2>4, ReasonFacts
  <2> QED
    BY <2>1, <2>2, <2>7
<1>5. ASSUME readings # <<>>, disagreed
      PROVE  value = IF Reading!SameLength THEN Reading!Masked ELSE <<>>
  BY <1>5 DEF Reading!Consensus
<1>6. ASSUME ~disagreed PROVE value = Reading!Consensus(FALSE) /\ best = Reading!BestFrame(Readers(value))
  <2>1. disagreed = FALSE
    BY <1>2, <1>6
  <2>2. {i \in DOMAIN readings : disagreed \/ readings[i].text = value} = Readers(value)
    BY <2>1 DEF Readers
  <2> QED
    BY <2>1, <2>2
<1> HIDE DEF disagreed, value, best, reason
<1>7. /\ result'.status = status /\ result'.value = value /\ result'.reason = reason
      /\ result'.positions = positions /\ result'.best = framed
      /\ result'.abstained <=> reason # "none"
  BY <1>1
<1>8. CASE readings = <<>>
  BY <1>1, <1>4, <1>7, <1>8
<1>9. CASE readings # <<>> /\ disagreed
  BY <1>1, <1>3, <1>5, <1>7, <1>9 DEF disagreed
<1>10. CASE readings # <<>> /\ ~disagreed
  BY <1>1, <1>3, <1>6, <1>7, <1>10 DEF disagreed
<1> QED
  BY <1>8, <1>9, <1>10

\* The mask stands where the frames differ, and nowhere else.
LEMMA MaskFacts ==
  ASSUME ReadoutShape, kind = "PLATE_READ", Reading!Disagreed, Reading!SameLength
  PROVE  /\ Reading!Differing \subseteq Reading!Marked(Reading!Masked) /\ Reading!Differing # {}
         /\ (\A i \in DOMAIN readings : Reading!Marked(readings[i].text) = {})
                => Reading!Marked(Reading!Masked) = Reading!Differing
<1> DEFINE first == readings[1].text
           mask == [c \in DOMAIN first |-> IF c \in Reading!Differing THEN Question ELSE first[c]]
<1>1. Reading!Differing # {} /\ 1 \in DOMAIN readings
  BY DifferingFacts, TextsAreSequences
<1>2. Reading!Differing \subseteq DOMAIN first
  BY DEF Reading!Differing
<1>3. Reading!Masked = mask
  BY DEF Reading!Masked
<1> HIDE DEF first
<1>4. Reading!Marked(mask) = {c \in DOMAIN first : c \in Reading!Differing \/ first[c] = Question}
  <2>1. DOMAIN mask = DOMAIN first /\ \A c \in DOMAIN first :
            mask[c] = IF c \in Reading!Differing THEN Question ELSE first[c]
    OBVIOUS
  <2> HIDE DEF mask
  <2> QED
    BY <2>1 DEF Reading!Marked
<1>5. ASSUME \A i \in DOMAIN readings : Reading!Marked(readings[i].text) = {}
      PROVE  \A c \in DOMAIN first : first[c] # Question
  BY <1>1, <1>5 DEF Reading!Marked, first
<1> QED
  BY <1>1, <1>2, <1>3, <1>4, <1>5

LEMMA ShapeKept ==
  ASSUME ReadoutShape, UNCHANGED <<kind, readings, looked, begin, gap>>
  PROVE  ReadoutShape'
<1>1. /\ kind' = kind /\ readings' = readings /\ looked' = looked /\ begin' = begin /\ gap' = gap
  OBVIOUS
<1>2. ASSUME NEW t PROVE Readers(t)' = Readers(t)
  BY <1>1 DEF Readers
<1>3. ASSUME NEW t, BestOf(t) PROVE BestOf(t)'
  <2>1. PICK i \in Readers(t) : \A j \in Readers(t) \ {i} : Reading!Better(i, j)
    BY <1>3 DEF BestOf
  <2>2. \A j \in Readers(t) \ {i} : Reading!Better(i, j)'
    BY <1>1, <2>1 DEF Reading!Better
  <2> QED
    BY <1>2, <2>1, <2>2 DEF BestOf
<1> QED
  BY <1>1, <1>2, <1>3 DEF ReadoutShape

LEMMA PlateReadKeeps ==
  ASSUME ReadoutInv, Reading!PlateRead
  PROVE  ReadoutInv'
<1>1. /\ UNCHANGED <<kind, readings, looked, begin, gap>> /\ kind = "PLATE_READ" /\ ReadoutShape
      /\ result'.abstained <=> result'.reason # "none"
  BY PlateReadCases DEF ReadoutInv
<1>2. ReadoutShape'
  BY <1>1, ShapeKept
<1> DEFINE value == result'.value
           others(t) == {i \in DOMAIN readings : readings[i].text # t}
           marked(t) == {c \in DOMAIN t : t[c] = Question}
<1>3. ASSUME result'.status = "OK", result'.reason = "none"
      PROVE  /\ value \in FullPlate
             /\ \/ Reading!Votes(value) = Len(readings)
                \/ /\ Reading!Votes(value) >= 3
                   /\ \A u \in Text \ {value} : Reading!Votes(u) < Reading!Votes(value)
                   /\ 2 * Reading!Cardinality(others(value)) < Len(readings)
             /\ readings[result'.best].text = value /\ ~Reading!Poor(readings[result'.best])
  <2>1. /\ readings # <<>> /\ ~Reading!Disagreed /\ value = Reading!Consensus(FALSE)
        /\ LET best == Reading!BestFrame(Readers(value))
           IN  /\ result'.best = best
               /\ best # 0 => readings[best].text \in FullPlate /\ ~Reading!Poor(readings[best])
    BY <1>3, PlateReadCases
  <2>2. /\ Reading!Votes(value) = Len(readings) \/ Reading!Agreed(value)
        /\ Reading!BestFrame(Readers(value)) \in Readers(value)
    BY <1>1, <2>1, ConsensusFacts
  <2> HIDE DEF value
  <2>3. Reading!Agreed(value) =>
            /\ Reading!Votes(value) >= 3
            /\ \A u \in Text \ {value} : Reading!Votes(u) < Reading!Votes(value)
            /\ 2 * Reading!Cardinality(others(value)) < Len(readings)
    BY <1>1, <2>1, AgreedFacts
  <2>4. result'.best \in DOMAIN readings /\ readings[result'.best].text = value
    BY <2>1, <2>2 DEF Readers
  <2>5. result'.best # 0
    BY <1>1, <2>4, TextsAreSequences
  <2> QED
    BY <2>1, <2>2, <2>3, <2>4, <2>5
<1>4. Reading!AdoptedPlateIsAgreed'
  <2>1. /\ Len(readings') = Len(readings) /\ result'.abstained <=> result'.reason # "none"
        /\ \A t : Reading!Votes(t)' = Reading!Votes(t)
    BY <1>1 DEF Reading!Votes
  <2>2. Reading!Votes(result.value)' = Reading!Votes(value)
    BY <1>1 DEF Reading!Votes
  <2> SUFFICES ASSUME result'.status = "OK", ~result'.abstained
               PROVE  /\ value \in FullPlate
                      /\ \/ Reading!Votes(result.value)' = Len(readings')
                         \/ /\ Reading!Votes(result.value)' >= 3
                            /\ \A u \in Text \ {value} : Reading!Votes(u)' < Reading!Votes(result.value)'
                            /\ 2 * Reading!Cardinality({i \in DOMAIN readings' : readings'[i].text # value})
                                    < Len(readings')
                      /\ readings'[result'.best].text = value
                      /\ ~Reading!Poor(readings[result.best])'
    BY DEF Reading!AdoptedPlateIsAgreed, Reading!Adopted
  <2>3. {i \in DOMAIN readings' : readings'[i].text # value} = others(value)
    BY <1>1
  <2>4. Reading!Poor(readings[result.best])' = Reading!Poor(readings[result'.best])
    BY <1>1 DEF Reading!Poor, Reading!Faint
  <2> HIDE DEF value, others
  <2> QED
    BY <1>1, <1>3, <2>1, <2>2, <2>3, <2>4
<1>5. Reading!PlateKeepsContract'
  <2> SUFFICES
        /\ result'.status = "UNKNOWN" => value = <<>>
        /\ result'.abstained <=> result'.status = "NEEDS_REVIEW"
        /\ result'.abstained <=> result'.reason # "none"
        /\ result'.reason = "FRAME_DISAGREEMENT" => value = <<>> \/ Reading!Marked(value) # {}
        /\ (\A i \in DOMAIN readings : Reading!Marked(readings[i].text) = {})
                => result'.positions = Reading!Marked(value)
    BY <1>1 DEF Reading!PlateKeepsContract, Reading!Marked
  <2>1. Reading!Marked(<<>>) = {}
    BY DEF Reading!Marked
  <2>2. CASE readings = <<>>
    <3>1. /\ result'.status = "UNKNOWN" /\ value = <<>> /\ result'.reason = "none" /\ result'.positions = {}
      BY <2>2, PlateReadCases
    <3> QED
      BY <1>1, <2>1, <3>1
  <2>3. CASE readings # <<>> /\ Reading!Disagreed
    <3>1. /\ result'.status = "NEEDS_REVIEW" /\ result'.reason = "FRAME_DISAGREEMENT"
          /\ IF Reading!SameLength
               THEN value = Reading!Masked /\ result'.positions = Reading!Differing
               ELSE value = <<>> /\ result'.positions = {}
      BY <2>3, PlateReadCases
    <3> HIDE DEF value
    <3>2. CASE Reading!SameLength
      BY <1>1, <2>3, <3>1, <3>2, MaskFacts
    <3>3. CASE ~Reading!SameLength
      BY <1>1, <2>1, <3>1, <3>3
    <3> QED
      BY <3>2, <3>3
  <2>4. CASE readings # <<>> /\ ~Reading!Disagreed
    <3>1. /\ result'.reason # "FRAME_DISAGREEMENT" /\ result'.positions = {}
          /\ result'.status = IF result'.reason = "none" THEN "OK" ELSE "NEEDS_REVIEW"
          /\ value = Reading!Consensus(FALSE)
      BY <2>4, PlateReadCases
    <3>2. \E i \in DOMAIN readings : value = readings[i].text
      BY <1>1, <2>4, <3>1, ConsensusFacts
    <3> HIDE DEF value
    <3> QED
      BY <1>1, <3>1, <3>2
  <2> QED
    BY <2>2, <2>3, <2>4
<1>6. Reading!OverlayIsChecked'
  BY <1>1 DEF Reading!OverlayIsChecked, Reading!Finished
<1> QED
  BY <1>2, <1>4, <1>5, <1>6 DEF ReadoutInv, Reading!ReadoutSound

-----------------------------------------------------------------------------
\* The recorder's clock shows whole seconds.
LEMMA ShownFacts ==
  ASSUME begin \in Nat, NEW at \in Nat
  PROVE  /\ Reading!Shown(at) \in Nat
         /\ Unit * Reading!Shown(at) <= begin + at
         /\ begin + at < Unit * Reading!Shown(at) + Unit
<1>1. begin + at \in Nat /\ Unit \in Nat \ {0}
  BY PartsAssumption DEF PartsAssumption, Reading!ReadoutAssumption
<1> QED
  BY <1>1, DivFacts DEF Reading!Shown

\* Between two moments it ticks by what has elapsed, but for less than a second.
LEMMA TicksFollow ==
  ASSUME begin \in Nat, NEW a \in Nat, NEW b \in Nat, a <= b
  PROVE  /\ Unit * Reading!Shown(b) - Unit * Reading!Shown(a) \in Nat
         /\ Unit * Reading!Shown(b) - Unit * Reading!Shown(a) < b - a + Unit
         /\ Unit * Reading!Shown(b) - Unit * Reading!Shown(a) > b - a - Unit
<1> DEFINE s == Reading!Shown(a)
           e == Reading!Shown(b)
<1>1. Unit \in Nat \ {0}
  BY PartsAssumption DEF PartsAssumption, Reading!ReadoutAssumption
<1>2. /\ s \in Nat /\ Unit * s <= begin + a /\ begin + a < Unit * s + Unit
      /\ e \in Nat /\ Unit * e <= begin + b /\ begin + b < Unit * e + Unit
  BY ShownFacts
<1> HIDE DEF s, e
<1>3. /\ Unit * s \in Nat /\ Unit * e \in Nat /\ s * Unit = Unit * s /\ e * Unit = Unit * e
      /\ (e + 1) * Unit = Unit * e + Unit
  BY <1>1, <1>2
<1>4. s * Unit < (e + 1) * Unit
  BY <1>1, <1>2, <1>3
<1>5. s * Unit <= e * Unit
  BY <1>1, <1>2, <1>4, Ordered
<1>6. Unit * e - Unit * s \in Nat
  BY <1>3, <1>5
<1>7. /\ Unit * e - Unit * s < b - a + Unit
      /\ Unit * e - Unit * s > b - a - Unit
  BY <1>1, <1>2, <1>3
<1> QED
  BY <1>6, <1>7 DEF s, e

LEMMA Spread ==
  ASSUME NEW u \in Int, NEW x \in Int, NEW y \in Int, NEW p \in Int, NEW q \in Int
  PROVE  u * ((x + p) - (y + q)) = (u * x - u * y) + (u * p - u * q)
OBVIOUS

LEMMA DistanceFacts ==
  ASSUME NEW a \in Int, NEW b \in Int
  PROVE  /\ Reading!Distance(a, b) \in Nat
         /\ Reading!Distance(a, b) = a - b \/ Reading!Distance(a, b) = b - a
         /\ Reading!Distance(a, b) >= a - b /\ Reading!Distance(a, b) >= b - a
BY DEF Reading!Distance

LEMMA SamplesFacts ==
  ASSUME ReadoutShape, kind = "OVERLAY_TIME_READ"
  PROVE  /\ Len(readings) \in Nat /\ DOMAIN readings = 1 .. Len(readings) /\ begin \in Nat
         /\ \A i \in 1 .. Len(readings) :
                /\ readings[i].at \in Nat /\ readings[i].off \in Int
                /\ \A j \in i .. Len(readings) : readings[i].at <= readings[j].at
<1>1. /\ readings \in Seq(Moments) /\ begin \in Nat
      /\ \A i \in 1 .. Len(readings) : \A j \in i .. Len(readings) : readings[i].at <= readings[j].at
  BY DEF ReadoutShape
<1>2. \A i \in 1 .. Len(readings) : readings[i] \in Moments
  BY <1>1
<1>3. Error \cup {0} \subseteq Int
  BY PartsAssumption DEF PartsAssumption, Reading!ReadoutAssumption
<1>4. \A m \in Moments : m.at \in Nat /\ m.off \in Int
  BY <1>3 DEF Moments
<1>5. Len(readings) \in Nat /\ DOMAIN readings = 1 .. Len(readings)
  BY <1>1
<1> QED
  BY <1>1, <1>2, <1>4, <1>5

\* Two samples in a row: what ticked is what elapsed and what was misread, but
\* for less than a second.
LEMMA PairFacts ==
  ASSUME ReadoutShape, kind = "OVERLAY_TIME_READ", NEW i \in Reading!Pairs
  PROVE  /\ Reading!Ticked(i) \in Int /\ Reading!Elapsed(i) \in Nat
         /\ Reading!Elapsed(i) <= readings[Len(readings)].at - readings[1].at
         /\ \E d \in Nat :
                /\ d < Reading!Elapsed(i) + Unit /\ d > Reading!Elapsed(i) - Unit
                /\ Reading!Ticked(i) = d + (Unit * readings[i + 1].off - Unit * readings[i].off)
<1> DEFINE a == readings[i].at
           b == readings[i + 1].at
           x == Reading!Shown(b)
           y == Reading!Shown(a)
           p == readings[i + 1].off
           q == readings[i].off
           n == Len(readings)
<1>1. Unit \in Nat \ {0}
  BY PartsAssumption DEF PartsAssumption, Reading!ReadoutAssumption
<1>2. n \in Nat /\ i \in 1 .. n /\ i + 1 \in 1 .. n /\ i + 1 \in i .. n /\ 1 \in 1 .. n
      /\ n \in 1 .. n /\ i \in 1 .. n /\ n \in i + 1 .. n
  BY SamplesFacts DEF Reading!Pairs
<1>3. /\ a \in Nat /\ b \in Nat /\ a <= b /\ p \in Int /\ q \in Int /\ begin \in Nat
      /\ readings[1].at \in Nat /\ readings[1].at <= a
      /\ readings[n].at \in Nat /\ b <= readings[n].at
  BY <1>2, SamplesFacts
<1>4. x \in Nat /\ y \in Nat
  BY <1>3, ShownFacts
<1> DEFINE d == Unit * x - Unit * y
<1>5. d \in Nat /\ d < b - a + Unit /\ d > b - a - Unit
  BY <1>3, TicksFollow
<1>6. Reading!Elapsed(i) = b - a
  BY DEF Reading!Elapsed
<1>7. Reading!Ticked(i) = Unit * ((x + p) - (y + q))
  BY DEF Reading!Ticked, Reading!Time
<1> HIDE DEF a, b, x, y, p, q
<1>8. Unit * ((x + p) - (y + q)) = d + (Unit * p - Unit * q)
  BY <1>1, <1>3, <1>4, Spread
<1>9. Unit * p \in Int /\ Unit * q \in Int
  BY <1>1, <1>3
<1> HIDE DEF d
<1>10. Reading!Ticked(i) \in Int /\ Reading!Ticked(i) = d + (Unit * p - Unit * q)
  BY <1>5, <1>7, <1>8, <1>9
<1>11. b - a \in Nat /\ b - a <= readings[n].at - readings[1].at
  BY <1>3
<1> QED
  BY <1>5, <1>6, <1>10, <1>11 DEF p, q

\* A pair that was read rightly passes the checks.
LEMMA RightPairPasses ==
  ASSUME ReadoutShape, kind = "OVERLAY_TIME_READ", NEW i \in Reading!Pairs,
         readings[i].off = 0, readings[i + 1].off = 0
  PROVE  Reading!Ticked(i) >= 0 /\ Reading!Within(i)
<1>1. Unit \in Nat \ {0}
  BY PartsAssumption DEF PartsAssumption, Reading!ReadoutAssumption
<1> DEFINE t == Reading!Ticked(i)
           e == Reading!Elapsed(i)
<1>2. PICK d \in Nat : d < e + Unit /\ d > e - Unit /\ t = d + (Unit * 0 - Unit * 0)
  BY PairFacts
<1>3. e \in Nat
  BY PairFacts
<1> HIDE DEF t, e
<1>4. t = d
  BY <1>1, <1>2
<1> DEFINE apart == Reading!Distance(t, e)
<1>5. apart \in Nat /\ (apart = t - e \/ apart = e - t)
  <2>1. t \in Int /\ e \in Int
    BY <1>3, <1>4
  <2> QED
    BY <2>1, DistanceFacts
<1> HIDE DEF apart
<1>6. 50 * apart <= 50 * Unit + e
  BY <1>1, <1>2, <1>3, <1>4, <1>5
<1> QED
  BY <1>4, <1>6 DEF t, e, apart, Reading!Within

\* A pair of which one was misread by far does not.
LEMMA WrongPairFails ==
  ASSUME ReadoutShape, kind = "OVERLAY_TIME_READ", NEW i \in Reading!Pairs, NEW w \in {i, i + 1},
         \A j \in {i, i + 1} \ {w} : readings[j].off = 0,
         50 * Unit * Reading!Distance(readings[w].off, 0)
            >= 100 * Unit + readings[Len(readings)].at - readings[1].at
  PROVE  ~Reading!Within(i)
<1>1. Unit \in Nat \ {0}
  BY PartsAssumption DEF PartsAssumption, Reading!ReadoutAssumption
<1> DEFINE t == Reading!Ticked(i)
           e == Reading!Elapsed(i)
           off == readings[w].off
           far == Unit * Reading!Distance(off, 0)
           whole == readings[Len(readings)].at - readings[1].at
<1>2. i \in 1 .. Len(readings) /\ i + 1 \in 1 .. Len(readings) /\ i # i + 1
  BY SamplesFacts DEF Reading!Pairs
<1>3. off \in Int /\ e \in Nat /\ t \in Int /\ e <= whole
  BY <1>2, PairFacts, SamplesFacts
<1>4. 1 \in 1 .. Len(readings) /\ Len(readings) \in 1 .. Len(readings)
  BY <1>2, SamplesFacts
<1>5. whole \in Int /\ 100 * Unit + whole = 100 * Unit + readings[Len(readings)].at - readings[1].at
  BY <1>1, <1>4, SamplesFacts
<1>6. PICK d \in Nat :
        /\ d < e + Unit /\ d > e - Unit
        /\ t = d + (Unit * readings[i + 1].off - Unit * readings[i].off)
  BY PairFacts
<1>7. t = d + Unit * off \/ t = d - Unit * off
  <2>1. CASE w = i
    <3>1. readings[i + 1].off = 0
      BY <1>2, <2>1
    <3>2. t = d + (Unit * 0 - Unit * off)
      BY <1>6, <2>1, <3>1
    <3> HIDE DEF off, t
    <3> QED
      BY <1>1, <1>3, <3>2
  <2>2. CASE w = i + 1
    <3>1. readings[i].off = 0
      BY <1>2, <2>2
    <3>2. t = d + (Unit * off - Unit * 0)
      BY <1>6, <2>2, <3>1
    <3> HIDE DEF off, t
    <3> QED
      BY <1>1, <1>3, <3>2
  <2> QED
    BY <2>1, <2>2
<1>8. 50 * Unit * Reading!Distance(off, 0) >= 100 * Unit + whole
  BY <1>5
<1> HIDE DEF t, e, off, whole
<1> DEFINE by == Unit * off
           size == Reading!Distance(off, 0)
<1>9. size \in Nat /\ (size = off \/ size = -off)
  <2>1. size \in Nat /\ (size = off - 0 \/ size = 0 - off)
    BY <1>3 DEF Reading!Distance
  <2> HIDE DEF size
  <2> QED
    BY <1>3, <2>1
<1> HIDE DEF size
<1>10. by \in Int /\ far \in Int /\ 50 * Unit * size = 50 * far /\ (far = by \/ far = -by)
  <2>1. far = Unit * size
    BY DEF size
  <2>2. by \in Int /\ Unit * size \in Int /\ 50 * Unit * size = 50 * (Unit * size)
    BY <1>1, <1>3, <1>9
  <2>3. size = -off => Unit * size = -(Unit * off)
    BY <1>1, <1>3
  <2> HIDE DEF far
  <2> QED
    BY <1>9, <2>1, <2>2, <2>3
<1>11. 50 * far >= 100 * Unit + whole
  BY <1>8, <1>10 DEF size
<1>12. t = d + far \/ t = d - far
  <2>1. t = d + by \/ t = d - by
    BY <1>7
  <2> HIDE DEF by, far
  <2> QED
    BY <1>10, <2>1
<1> DEFINE apart == Reading!Distance(t, e)
<1>13. apart \in Nat /\ apart >= t - e /\ apart >= e - t
  <2>1. t \in Int /\ e \in Int
    BY <1>3
  <2> QED
    BY <2>1, DistanceFacts
<1> HIDE DEF far, by, apart
<1>14. apart > far - Unit
  <2>1. t \in Int /\ e \in Int /\ Unit \in Int /\ far \in Int /\ d \in Int /\ apart \in Int
    BY <1>1, <1>3, <1>10, <1>13
  <2>2. d < e + Unit /\ d > e - Unit
    BY <1>6
  <2>3. CASE t = d + far
    BY <2>1, <2>2, <2>3, <1>13
  <2>4. CASE t = d - far
    BY <2>1, <2>2, <2>4, <1>13
  <2> QED
    BY <1>12, <2>3, <2>4
<1>15. 50 * apart > 50 * Unit + e
  BY <1>1, <1>3, <1>5, <1>10, <1>11, <1>13, <1>14
<1>16. ~(50 * apart <= 50 * Unit + e)
  BY <1>1, <1>3, <1>13, <1>15
<1> QED
  BY <1>16 DEF t, e, apart, Reading!Within

\* What `_interpret_overlay` makes of the samples.
LEMMA TimeReadCases ==
  ASSUME ReadoutInv, Reading!TimeRead
  PROVE  /\ UNCHANGED <<kind, readings, looked, begin, gap>> /\ kind = "OVERLAY_TIME_READ"
         /\ Reading!Verified' <=>
                /\ Reading!AllParsed /\ Len(readings) > 1
                /\ \A i \in Reading!Pairs : Reading!Ticked(i) >= 0 /\ Reading!Within(i)
         /\ readings # <<>> /\ Reading!AllParsed => result'.value = Reading!Time(readings[1])
<1> DEFINE ordered == \A i \in Reading!Pairs : Reading!Ticked(i) >= 0
           within == \A i \in Reading!Pairs : Reading!Within(i)
           unknown(reason, format) ==
             [status |-> "UNKNOWN", reason |-> reason, value |-> Reading!NoTime,
              format |-> format, monotonic |-> "null", duration |-> "null"]
           read1 == Reading!Time(readings[1])
           told == [status |-> "OK", reason |-> "none", value |-> read1, format |-> "true",
                    monotonic |-> Reading!Checked(ordered), duration |-> Reading!Checked(within)]
<1>1. /\ UNCHANGED <<kind, readings, looked, begin, gap>> /\ kind = "OVERLAY_TIME_READ"
      /\ result' = IF readings = <<>> THEN unknown("presence_undetermined", "null")
                   ELSE IF ~Reading!AllParsed THEN unknown("ocr_failed", "false")
                   ELSE told
  BY DEF Reading!TimeRead
<1>2. Reading!Verified' <=>
        result'.status = "OK" /\ {result'.format, result'.monotonic, result'.duration} = {"true"}
  BY DEF Reading!Verified
<1>3. Len(readings) \in Nat /\ (Len(readings) > 1 => readings # <<>>)
  BY <1>1, SamplesFacts DEF ReadoutInv
<1>4. /\ Reading!Checked(ordered) = "true" <=> Len(readings) > 1 /\ ordered
      /\ Reading!Checked(within) = "true" <=> Len(readings) > 1 /\ within
  <2> HIDE DEF ordered, within
  <2> QED
    BY <1>3 DEF Reading!Checked
<1> HIDE DEF ordered, within, read1
<1>5. CASE readings = <<>> \/ ~Reading!AllParsed
  <2>1. result'.status = "UNKNOWN"
    BY <1>1, <1>5
  <2> QED
    BY <1>1, <1>2, <1>3, <1>5, <2>1
<1>6. CASE readings # <<>> /\ Reading!AllParsed
  <2>1. /\ result'.status = "OK" /\ result'.format = "true" /\ result'.value = read1
        /\ result'.monotonic = Reading!Checked(ordered) /\ result'.duration = Reading!Checked(within)
    BY <1>1, <1>6
  <2>2. Reading!Verified' <=> Reading!Checked(ordered) = "true" /\ Reading!Checked(within) = "true"
    BY <1>2, <2>1
  <2> QED
    BY <1>1, <1>4, <1>6, <2>1, <2>2 DEF ordered, within, read1
<1> QED
  BY <1>5, <1>6

LEMMA TimeReadKeeps ==
  ASSUME ReadoutInv, Reading!TimeRead
  PROVE  ReadoutInv'
<1>1. /\ UNCHANGED <<kind, readings, looked, begin, gap>> /\ kind = "OVERLAY_TIME_READ" /\ ReadoutShape
  BY TimeReadCases DEF ReadoutInv
<1>2. ReadoutShape'
  BY <1>1, ShapeKept
<1> DEFINE wrong == {i \in DOMAIN readings : readings[i].off # 0}
           far(i) == 50 * Unit * Reading!Distance(readings[i].off, 0)
                        >= 100 * Unit + readings[Len(readings)].at - readings[1].at
<1>3. /\ Len(readings) \in Nat /\ DOMAIN readings = 1 .. Len(readings)
      /\ \A i \in 1 .. Len(readings) : readings[i].at \in Nat /\ readings[i].off \in Int
  BY <1>1, SamplesFacts
<1>4. Reading!Verified' => Reading!AllParsed /\ Len(readings) > 1
  BY TimeReadCases
<1>5. ASSUME Reading!AllParsed, wrong = {}, Len(readings) > 1
      PROVE  Reading!Verified' /\ result'.value = Reading!Shown(readings[1].at)
  <2>1. \A i \in 1 .. Len(readings) : readings[i].off = 0
    BY <1>3, <1>5
  <2>2. ASSUME NEW i \in Reading!Pairs PROVE Reading!Ticked(i) >= 0 /\ Reading!Within(i)
    <3>1. i \in 1 .. Len(readings) /\ i + 1 \in 1 .. Len(readings)
      BY <1>3 DEF Reading!Pairs
    <3> QED
      BY <1>1, <2>1, <3>1, RightPairPasses
  <2>3. Reading!Verified'
    BY <1>5, <2>2, TimeReadCases
  <2>4. readings # <<>> /\ 1 \in 1 .. Len(readings)
    BY <1>3, <1>5
  <2>5. result'.value = Reading!Time(readings[1])
    BY <1>5, <2>4, TimeReadCases
  <2>6. Reading!Shown(readings[1].at) \in Nat /\ readings[1].off = 0
    BY <1>1, <1>3, <2>1, <2>4, SamplesFacts, ShownFacts
  <2>7. Reading!Time(readings[1]) = Reading!Shown(readings[1].at) + 0
    BY <2>6 DEF Reading!Time
  <2>8. Reading!Time(readings[1]) = Reading!Shown(readings[1].at)
    BY <2>6, <2>7
  <2> QED
    BY <2>3, <2>5, <2>8
<1>6. ASSUME Reading!Cardinality(wrong) = 1, \A i \in wrong : far(i) PROVE ~Reading!Verified'
  <2>1. IsFiniteSet(wrong)
    <3>1. IsFiniteSet(1 .. Len(readings)) /\ wrong \subseteq 1 .. Len(readings)
      BY <1>3, FS_Interval
    <3> HIDE DEF wrong
    <3> QED
      BY <3>1, FS_Subset
  <2>2. PICK w : wrong = {w}
    BY <1>6, <2>1, SameCardinality, FS_Singleton
  <2>3. w \in 1 .. Len(readings) /\ \A j \in 1 .. Len(readings) : j # w => readings[j].off = 0
    BY <1>3, <2>2
  <2>4. far(w)
    BY <1>6, <2>2
  <2> SUFFICES ASSUME Len(readings) > 1 PROVE \E i \in Reading!Pairs : ~Reading!Within(i)
    BY <1>4, TimeReadCases
  <2>5. \E i \in Reading!Pairs : w \in {i, i + 1}
    <3>1. CASE w < Len(readings)
      BY <1>3, <2>3, <3>1 DEF Reading!Pairs
    <3>2. CASE w = Len(readings)
      <4>1. Len(readings) - 1 \in 1 .. Len(readings) - 1
        BY <1>3
      <4>2. w = (Len(readings) - 1) + 1
        BY <1>3, <3>2
      <4> QED
        BY <4>1, <4>2 DEF Reading!Pairs
    <3>3. w < Len(readings) \/ w = Len(readings)
      <4>1. w \in 1 .. Len(readings) /\ Len(readings) \in Nat
        BY <1>3, <2>3
      <4> DEFINE n == Len(readings)
      <4> HIDE DEF n, wrong, far
      <4>2. w \in 1 .. n /\ n \in Nat
        BY <4>1 DEF n
      <4>3. w < n \/ w = n
        BY ONLY <4>2, SMT
      <4> QED
        BY <4>3 DEF n
    <3> QED
      BY <3>1, <3>2, <3>3
  <2>6. PICK i \in Reading!Pairs : w \in {i, i + 1}
    BY <2>5
  <2>7. i \in 1 .. Len(readings) /\ i + 1 \in 1 .. Len(readings)
    BY <1>3 DEF Reading!Pairs
  <2>8. \A j \in {i, i + 1} \ {w} : readings[j].off = 0
    BY <2>3, <2>7
  <2>9. ~Reading!Within(i)
    BY <1>1, <2>4, <2>6, <2>8, WrongPairFails
  <2> QED
    BY <2>9
<1>7. Reading!OverlayIsChecked'
  <2>1. /\ readings' = readings /\ begin' = begin /\ wrong = {i \in DOMAIN readings' : readings'[i].off # 0}
        /\ Reading!AllParsed' <=> Reading!AllParsed
        /\ Reading!Shown(readings[1].at)' = Reading!Shown(readings[1].at)
    BY <1>1 DEF Reading!AllParsed, Reading!Shown
  <2> SUFFICES /\ Reading!AllParsed /\ wrong = {} /\ Len(readings) > 1
                    => Reading!Verified' /\ result'.value = Reading!Shown(readings[1].at)
               /\ Reading!Cardinality(wrong) = 1 /\ (\A i \in wrong : far(i)) => ~Reading!Verified'
               /\ Reading!Verified' => Reading!AllParsed /\ Len(readings) > 1
    BY <2>1 DEF Reading!OverlayIsChecked
  <2> QED
    BY <1>4, <1>5, <1>6
<1>8. Reading!AdoptedPlateIsAgreed' /\ Reading!PlateKeepsContract'
  BY <1>1 DEF Reading!AdoptedPlateIsAgreed, Reading!PlateKeepsContract, Reading!Finished
<1> QED
  BY <1>2, <1>7, <1>8 DEF ReadoutInv, Reading!ReadoutSound

LEMMA ReadoutNext == ReadoutInv /\ Reading!Next => ReadoutInv'
BY RunFailsKeeps, ReadPlateKeeps, PlateReadKeeps, LookForTimeKeeps, TimeReadKeeps DEF Reading!Next

LEMMA ReadoutInit == Reading!Init => ReadoutInv
<1> SUFFICES ASSUME Reading!Init PROVE ReadoutInv
  OBVIOUS
<1>1. /\ kind \in {"PLATE_READ", "OVERLAY_TIME_READ"} /\ readings = <<>> /\ looked = 0
      /\ begin \in 0 .. Unit - 1 /\ gap \in Gap /\ result = Reading!NotYet
  BY DEF Reading!Init
<1>2. Gap \subseteq Nat \ {0} /\ Unit \in Nat
  BY PartsAssumption DEF PartsAssumption, Reading!ReadoutAssumption
<1>3. \A t : Readers(t) = {}
  BY <1>1 DEF Readers
<1>4. ReadoutShape
  BY <1>1, <1>2, <1>3 DEF ReadoutShape
<1>5. Reading!ReadoutSound
  BY <1>1 DEF Reading!ReadoutSound, Reading!AdoptedPlateIsAgreed,
     Reading!PlateKeepsContract, Reading!OverlayIsChecked, Reading!Finished
<1> QED
  BY <1>4, <1>5 DEF ReadoutInv

LEMMA ReadoutRests == ReadoutInv /\ UNCHANGED readout => ReadoutInv'
<1> SUFFICES ASSUME ReadoutInv, UNCHANGED readout PROVE ReadoutInv'
  OBVIOUS
<1>1. /\ kind' = kind /\ readings' = readings /\ looked' = looked /\ begin' = begin /\ gap' = gap
      /\ result' = result
  BY DEF readout
<1>2. ReadoutShape'
  BY <1>1, ShapeKept DEF ReadoutInv
<1>3. Reading!AdoptedPlateIsAgreed /\ Reading!PlateKeepsContract /\ Reading!OverlayIsChecked
  BY DEF ReadoutInv, Reading!ReadoutSound
<1>4. Reading!AdoptedPlateIsAgreed'
  BY <1>1, <1>3, Zenon DEF Reading!AdoptedPlateIsAgreed,
     Reading!Finished, Reading!Adopted, Reading!Votes, Reading!Poor, Reading!Faint
<1>5. Reading!PlateKeepsContract'
  BY <1>1, <1>3, Zenon DEF Reading!PlateKeepsContract, Reading!Finished, Reading!Marked
<1>6. Reading!OverlayIsChecked'
  BY <1>1, <1>3, Zenon DEF Reading!OverlayIsChecked,
     Reading!Finished, Reading!AllParsed, Reading!Verified, Reading!Shown
<1> QED
  BY <1>2, <1>4, <1>5, <1>6 DEF ReadoutInv, Reading!ReadoutSound

LEMMA ReadoutGoesOn == Spec => []ReadoutInv
<1>1. ReadoutInv /\ [Next]_vars => ReadoutInv'
  BY ReadoutNext, ReadoutRests, OthersRest DEF ReadoutStep
<1>2. Init => ReadoutInv
  BY ReadoutInit DEF Init
<1> QED
  BY <1>1, <1>2, PTL DEF Spec

\* For any texts, frames and samples: an adopted plate is what the frames agree on,
\* results keep the contract of readout, and a clock is believed only if no sample
\* that was misread alone is far off.
THEOREM ReadoutsAreSound == Spec => []ReadoutSound
<1>1. ReadoutInv => ReadoutSound
  BY DEF ReadoutInv, ReadoutSound
<1> QED
  BY <1>1, ReadoutGoesOn, PTL

-----------------------------------------------------------------------------
(* Candidate spans.  Files that adjoin cover the time line once.           *)

LEMMA EveryNumber ==
  ASSUME NEW S, 1 \in S, \A n \in Nat \ {0} : n \in S => n + 1 \in S
  PROVE  \A n \in Nat \ {0} : n \in S
<1> DEFINE T == {n \in Nat \ {0} : n \notin S}
<1>1. SUFFICES ASSUME T # {} PROVE FALSE
  OBVIOUS
<1>2. \E x \in T : \A y \in T : <<y, x>> \notin OpToRel(<, Nat)
  <2>1. T \subseteq Nat
    OBVIOUS
  <2> HIDE DEF T
  <2> QED
    BY <1>1, <2>1, NatLessThanWellFounded, WFMin
<1>3. PICK x \in T : \A y \in T : <<y, x>> \notin OpToRel(<, Nat)
  BY <1>2
<1>4. \A y \in T : ~(y < x)
  BY <1>3 DEF OpToRel
<1>5. x # 1 /\ x - 1 \in Nat \ {0} /\ x - 1 < x
  OBVIOUS
<1>6. x - 1 \in S
  BY <1>4, <1>5
<1> QED
  BY <1>5, <1>6

LEMMA SpanConstants ==
  K \in Nat \ {0} /\ Padding \in Nat /\ Proposal \subseteq Int
BY PartsAssumption DEF PartsAssumption, Spans!SpanAssumption

FileRecord == [length : Nat, video : Nat, frames : SUBSET Nat, ends : Nat]

Line ==
    /\ files \in Seq(FileRecord) /\ Len(files) > 0
    /\ \A i \in 1 .. Len(files) :
        /\ files[i].length >= K /\ files[i].video <= files[i].length
        /\ 0 \in files[i].frames /\ \A t \in files[i].frames : t < files[i].ends

LEMMA LineFacts ==
  ASSUME Line
  PROVE  /\ Len(files) \in Nat \ {0} /\ DOMAIN files = 1 .. Len(files)
         /\ \A i \in 1 .. Len(files) :
                /\ files[i].length \in Nat /\ files[i].video \in Nat
                /\ files[i].length >= K /\ files[i].video <= files[i].length
                /\ files[i].frames \subseteq Nat /\ files[i].ends \in Nat
                /\ 0 \in files[i].frames /\ \A t \in files[i].frames : t < files[i].ends
<1>1. Len(files) \in Nat \ {0} /\ DOMAIN files = 1 .. Len(files)
  BY DEF Line
<1>2. \A i \in 1 .. Len(files) : files[i] \in FileRecord
  BY DEF Line
<1>3. \A i \in 1 .. Len(files) : /\ files[i].length \in Nat /\ files[i].video \in Nat
                                 /\ files[i].frames \subseteq Nat /\ files[i].ends \in Nat
  BY <1>2 DEF FileRecord
<1> QED
  BY <1>1, <1>3 DEF Line

\* Where the n files that come first begin.
Begins(f, n) == f = [i \in 1 .. n |-> IF i = 1 THEN 0 ELSE f[i - 1] + files[i - 1].length]

LEMMA Offsets ==
  ASSUME Line
  PROVE  /\ Spans!Offset[1] = 0
         /\ \A i \in 1 .. Len(files) :
                /\ Spans!Offset[i] \in Nat
                /\ i # 1 => Spans!Offset[i] = Spans!Offset[i - 1] + files[i - 1].length
<1> DEFINE N == Len(files)
<1>1. N \in Nat \ {0} /\ \A i \in 1 .. N : files[i].length \in Nat
  BY LineFacts
<1> DEFINE S == {n \in Nat \ {0} : n <= N => \E f \in [1 .. n -> Nat] : Begins(f, n)}
<1>2. 1 \in S
  <2>1. [i \in 1 .. 1 |-> 0] \in [1 .. 1 -> Nat] /\ Begins([i \in 1 .. 1 |-> 0], 1)
    BY DEF Begins
  <2> QED
    BY <2>1
<1>3. ASSUME NEW n \in Nat \ {0}, n \in S PROVE n + 1 \in S
  <2>1. SUFFICES ASSUME n + 1 <= N PROVE \E f \in [1 .. n + 1 -> Nat] : Begins(f, n + 1)
    OBVIOUS
  <2>2. PICK f \in [1 .. n -> Nat] : Begins(f, n)
    BY <1>1, <1>3, <2>1
  <2> DEFINE g == [i \in 1 .. n + 1 |-> IF i = n + 1 THEN f[n] + files[n].length ELSE f[i]]
  <2>3. f[n] \in Nat /\ files[n].length \in Nat
    BY <1>1, <2>1
  <2>4. g \in [1 .. n + 1 -> Nat]
    BY <2>3
  <2>5. \A i \in 1 .. n + 1 : g[i] = IF i = 1 THEN 0 ELSE g[i - 1] + files[i - 1].length
    <3> TAKE i \in 1 .. n + 1
    <3>1. CASE i = n + 1
      BY <3>1, <2>3
    <3>2. CASE i # n + 1
      BY <3>2, <2>2 DEF Begins
    <3> QED
      BY <3>1, <3>2
  <2>6. Begins(g, n + 1)
    BY <2>4, <2>5 DEF Begins
  <2> QED
    BY <2>4, <2>6
<1>4. N \in S
  <2> HIDE DEF S, N
  <2> QED
    BY <1>1, <1>2, <1>3, EveryNumber
<1>5. PICK f \in [1 .. N -> Nat] : Begins(f, N)
  BY <1>1, <1>4
<1>6. Begins(Spans!Offset, N)
  BY <1>5 DEF Begins, Spans!Offset
<1> DEFINE R == {n \in Nat \ {0} : n <= N => Spans!Offset[n] \in Nat}
<1>7. \A i \in 1 .. N : Spans!Offset[i] = IF i = 1 THEN 0 ELSE Spans!Offset[i - 1] + files[i - 1].length
  <2> HIDE DEF N
  <2> QED
    BY <1>6 DEF Begins
<1>8. N \in R /\ \A n \in 1 .. N : n \in R
  <2>1. 1 \in R
    BY <1>1, <1>7
  <2>2. ASSUME NEW n \in Nat \ {0}, n \in R PROVE n + 1 \in R
    BY <1>1, <1>7, <2>2
  <2> HIDE DEF R, N
  <2>3. \A n \in Nat \ {0} : n \in R
    BY <2>1, <2>2, EveryNumber
  <2> QED
    BY <1>1, <2>3
<1> QED
  BY <1>1, <1>7, <1>8

\* A file begins where those before it have ended; the line ends with the last.
LEMMA FilesAdjoin ==
  ASSUME Line
  PROVE  /\ \A i, j \in 1 .. Len(files) : i < j => Spans!Offset[i] + files[i].length <= Spans!Offset[j]
         /\ Spans!End \in Nat /\ Spans!End >= K
         /\ \A i \in 1 .. Len(files) :
                /\ Spans!Placement(i).from = Spans!Offset[i] /\ Spans!Video(i).from = Spans!Offset[i]
                /\ Spans!Placement(i).to \in Nat /\ Spans!Video(i).to \in Nat
                /\ Spans!Placement(i).to = Spans!Offset[i] + files[i].length
                /\ Spans!Video(i).to = Spans!Offset[i] + files[i].video
                /\ Spans!Video(i).to <= Spans!Placement(i).to
                /\ Spans!Placement(i).from + K <= Spans!Placement(i).to
                /\ Spans!Placement(i).to <= Spans!End
<1> DEFINE N == Len(files)
           At(i) == Spans!Offset[i]
<1>1. N \in Nat \ {0} /\ \A i \in 1 .. N : files[i].length \in Nat /\ files[i].video \in Nat
  BY LineFacts
<1>2. /\ At(1) = 0
      /\ \A i \in 1 .. N : At(i) \in Nat /\ (i # 1 => At(i) = At(i - 1) + files[i - 1].length)
  BY Offsets
<1> DEFINE S == {n \in Nat \ {0} : n <= N => \A i \in 1 .. N : i < n => At(i) + files[i].length <= At(n)}
<1>3. 1 \in S
  OBVIOUS
<1>4. ASSUME NEW n \in Nat \ {0}, n \in S PROVE n + 1 \in S
  <2>1. SUFFICES ASSUME n + 1 <= N, NEW i \in 1 .. N, i < n + 1
        PROVE  At(i) + files[i].length <= At(n + 1)
    OBVIOUS
  <2>2. n \in 1 .. N /\ n + 1 \in 1 .. N
    BY <1>1, <2>1
  <2>3. At(n + 1) = At(n) + files[n].length
    BY <1>2, <2>2
  <2>4. i = n \/ At(i) + files[i].length <= At(n)
    BY <1>4, <2>1, <2>2
  <2> HIDE DEF At, N
  <2> QED
    BY <1>1, <1>2, <2>1, <2>2, <2>3, <2>4
<1>5. \A i, j \in 1 .. N : i < j => At(i) + files[i].length <= At(j)
  <2> HIDE DEF S, At, N
  <2>1. \A n \in Nat \ {0} : n \in S
    BY <1>3, <1>4, EveryNumber
  <2> QED
    BY <1>1, <2>1 DEF S
<1>6. ASSUME NEW i \in 1 .. N
      PROVE  /\ Spans!Placement(i) = [from |-> At(i), to |-> At(i) + files[i].length]
             /\ Spans!Video(i) = [from |-> At(i), to |-> At(i) + files[i].video]
  BY DEF Spans!Placement, Spans!Video
<1>7. Spans!End = At(N) + files[N].length /\ N \in 1 .. N
  BY <1>1, <1>6 DEF Spans!End
<1>8. \A i \in 1 .. N : At(i) + files[i].length <= Spans!End
  <2> TAKE i \in 1 .. N
  <2>1. At(N) \in Nat /\ At(i) \in Nat /\ files[N].length \in Nat
    BY <1>1, <1>2, <1>7
  <2>2. i = N \/ At(i) + files[i].length <= At(N)
    BY <1>1, <1>5, <1>7
  <2> HIDE DEF At, N
  <2> QED
    BY <1>1, <1>7, <2>1, <2>2
<1>9. \A i \in 1 .. N : files[i].length >= K /\ files[i].video <= files[i].length
  BY DEF Line
<1>10. K \in Nat
  BY SpanConstants
<1>11. ASSUME NEW i \in 1 .. N
       PROVE  /\ Spans!Placement(i).from = At(i) /\ Spans!Video(i).from = At(i)
              /\ Spans!Placement(i).to = At(i) + files[i].length
              /\ Spans!Video(i).to = At(i) + files[i].video
  BY <1>6
<1> HIDE DEF At, N
<1>12. ASSUME NEW i \in 1 .. N
       PROVE  /\ Spans!Placement(i).to \in Nat /\ Spans!Video(i).to \in Nat
              /\ Spans!Video(i).to <= Spans!Placement(i).to
              /\ Spans!Placement(i).from + K <= Spans!Placement(i).to
  <2>1. /\ At(i) \in Nat /\ files[i].length \in Nat /\ files[i].video \in Nat
        /\ files[i].length >= K /\ files[i].video <= files[i].length
    BY <1>1, <1>2, <1>9
  <2> QED
    BY <1>10, <1>11, <2>1
<1>13. Spans!End \in Nat /\ Spans!End >= K
  <2>1. At(N) \in Nat /\ files[N].length \in Nat /\ files[N].length >= K
    BY <1>1, <1>2, <1>7, <1>9
  <2> QED
    BY <1>7, <1>10, <2>1
<1>14. \A i \in 1 .. N : Spans!Placement(i).to <= Spans!End
  BY <1>8, <1>11
<1> QED
  BY <1>5, <1>11, <1>12, <1>13, <1>14 DEF At, N

\* Each moment of the line lies in one file.
LEMMA MomentsPlaced ==
  ASSUME Line, NEW t \in Nat
  PROVE  /\ t < Spans!End => \E i \in 1 .. Len(files) : Spans!Covers(Spans!Placement(i), t)
         /\ \A i, j \in 1 .. Len(files) :
                Spans!Covers(Spans!Placement(i), t) /\ Spans!Covers(Spans!Placement(j), t) => i = j
<1> DEFINE N == Len(files)
           from(i) == Spans!Placement(i).from
           to(i) == Spans!Placement(i).to
<1>1. N \in Nat \ {0}
  BY DEF Line
<1>2. /\ from(1) = 0
      /\ \A i \in 1 .. N : /\ from(i) \in Nat /\ to(i) \in Nat /\ to(i) <= Spans!End
                           /\ i # 1 => from(i) = to(i - 1)
  <2>1. 1 \in 1 .. N
    BY <1>1
  <2> QED
    BY <1>1, <2>1, Offsets, FilesAdjoin
<1>3. \A i, j \in 1 .. N : i < j => to(i) <= from(j)
  BY FilesAdjoin
<1>4. \A i : Spans!Covers(Spans!Placement(i), t) <=> from(i) <= t /\ t < to(i)
  BY DEF Spans!Covers
<1> DEFINE S == {n \in Nat \ {0} : n <= N => (t < to(n) => \E i \in 1 .. N : from(i) <= t /\ t < to(i))}
<1> HIDE DEF from, to
<1>5. 1 \in S
  BY <1>1, <1>2
<1>6. ASSUME NEW n \in Nat \ {0}, n \in S PROVE n + 1 \in S
  <2>1. SUFFICES ASSUME n + 1 <= N, t < to(n + 1) PROVE \E i \in 1 .. N : from(i) <= t /\ t < to(i)
    OBVIOUS
  <2>2. from(n + 1) = to(n) /\ n \in 1 .. N /\ n + 1 \in 1 .. N
    BY <1>1, <1>2, <2>1
  <2>3. CASE t < to(n)
    BY <1>6, <2>2, <2>3
  <2>4. CASE ~(t < to(n))
    BY <1>2, <2>1, <2>2, <2>4
  <2> QED
    BY <2>3, <2>4
<1>7. N \in S
  <2> HIDE DEF S, N
  <2> QED
    BY <1>1, <1>5, <1>6, EveryNumber
<1>8. to(N) = Spans!End
  BY DEF to, Spans!End
<1>9. t < Spans!End => \E i \in 1 .. N : from(i) <= t /\ t < to(i)
  BY <1>1, <1>7, <1>8
<1>10. \A i, j \in 1 .. N : from(i) <= t /\ t < to(i) /\ from(j) <= t /\ t < to(j) => i = j
  BY <1>1, <1>2, <1>3
<1> QED
  BY <1>4, <1>9, <1>10

Asked(request) == request.from \in Nat /\ request.to \in Nat /\ request.from < request.to

\* What of a request lies in a file, as a range of its own.
LEMMA OverlapFacts ==
  ASSUME NEW a, NEW b, a.from \in Int, a.to \in Int, b.from \in Int, b.to \in Int
  PROVE  /\ Spans!Overlap(a, b).from \in Int /\ Spans!Overlap(a, b).to \in Int
         /\ \A t \in Int : Spans!Covers(Spans!Overlap(a, b), t) <=> Spans!Covers(a, t) /\ Spans!Covers(b, t)
         /\ \A t \in Int : Spans!Covers(Spans!Overlap(a, b), t) => Spans!Proper(Spans!Overlap(a, b))
         /\ Spans!Overlap(a, b).from >= a.from /\ Spans!Overlap(a, b).to <= a.to
         /\ Spans!Proper(Spans!Overlap(a, b))
              <=> a.from < a.to /\ a.from < b.to /\ b.from < a.to /\ b.from < b.to
BY DEF Spans!Overlap, Spans!Covers, Spans!Proper, Spans!Greater, Spans!Lesser

\* The pieces a request may have: of file i what is shown, what is not since the
\* file is gone or its video ends early, and what lies behind the line.
Visible(request, i) == [file |-> i, range |-> Spans!Overlap(request, Spans!Video(i))]
Gone(request, i) == [range |-> Spans!Overlap(request, Spans!Placement(i)), reason |-> "SOURCE_UNAVAILABLE"]
Unfilmed(i) == [from |-> Spans!Video(i).to, to |-> Spans!Placement(i).to]
Dark(request, i) == [range |-> Spans!Overlap(request, Unfilmed(i)), reason |-> "STREAM_UNAVAILABLE"]
After(request) == [from |-> Spans!Greater(request.from, Spans!End), to |-> request.to]
Behind(request) == [range |-> After(request), reason |-> "OUT_OF_TIMELINE_RANGE"]

LEMMA PieceFacts ==
  ASSUME Line, NEW from \in Nat, NEW to \in Nat, NEW readable, readable \subseteq DOMAIN files
  PROVE  LET request == [from |-> from, to |-> to]
         IN  /\ \A s : s \in Spans!Spans(request, readable) <=>
                    \E i \in readable : /\ s = Visible(request, i) /\ i \in Spans!Touched(request)
                                        /\ Spans!Proper(s.range)
             /\ \A m : m \in Spans!Missing(request, readable) <=>
                    /\ Spans!Proper(m.range)
                    /\ \/ \E i \in DOMAIN files \ readable : m = Gone(request, i) /\ i \in Spans!Touched(request)
                       \/ \E i \in readable : m = Dark(request, i) /\ i \in Spans!Touched(request)
                       \/ m = Behind(request)
             /\ \A i \in Spans!Touched(request) : i \in 1 .. Len(files)
<1> DEFINE request == [from |-> from, to |-> to]
<1>1. DOMAIN files = 1 .. Len(files)
  BY LineFacts
<1>2. \A i \in Spans!Touched(request) : i \in 1 .. Len(files)
  BY <1>1 DEF Spans!Touched
<1>3. \A s : s \in Spans!Spans(request, readable) <=>
         \E i \in readable : s = Visible(request, i) /\ i \in Spans!Touched(request) /\ Spans!Proper(s.range)
  BY Zenon DEF Spans!Spans, Visible
<1>4. \A i : [Spans!Placement(i) EXCEPT !.from = Spans!Video(i).to] = Unfilmed(i)
  BY DEF Spans!Placement, Unfilmed
<1>5. [request EXCEPT !.from = Spans!Greater(@, Spans!End)] = After(request)
  BY DEF After
<1>6. \A i \in Spans!Touched(request) : i \in DOMAIN files
  BY DEF Spans!Touched
<1>7. \A m : m \in Spans!Missing(request, readable) <=>
         /\ Spans!Proper(m.range)
         /\ \/ \E i \in DOMAIN files \ readable : m = Gone(request, i) /\ i \in Spans!Touched(request)
            \/ \E i \in readable : m = Dark(request, i) /\ i \in Spans!Touched(request)
            \/ m = Behind(request)
  <2> HIDE DEF request
  <2> QED
    BY <1>4, <1>5, <1>6, Zenon DEF Spans!Missing, Gone, Dark, Behind
<1> QED
  BY <1>2, <1>3, <1>7

\* What a piece of file i tells of a moment that was asked for.
LEMMA PieceCovers ==
  ASSUME Line, NEW from \in Nat, NEW to \in Nat, NEW t \in from .. to - 1, NEW i \in 1 .. Len(files)
  PROVE  LET request == [from |-> from, to |-> to]
         IN  /\ Spans!Covers(Visible(request, i).range, t) <=> Spans!Covers(Spans!Video(i), t)
             /\ Spans!Covers(Gone(request, i).range, t) <=> Spans!Covers(Spans!Placement(i), t)
             /\ Spans!Covers(Dark(request, i).range, t) <=> Spans!Covers(Unfilmed(i), t)
             /\ Spans!Covers(Spans!Placement(i), t)
                  <=> Spans!Covers(Spans!Video(i), t) \/ Spans!Covers(Unfilmed(i), t)
             /\ ~(Spans!Covers(Spans!Video(i), t) /\ Spans!Covers(Unfilmed(i), t))
             /\ Spans!Covers(Spans!Placement(i), t) => i \in Spans!Touched(request)
<1> DEFINE request == [from |-> from, to |-> to]
<1>1. request.from = from /\ request.to = to /\ t \in Int /\ Spans!Covers(request, t)
  BY DEF Spans!Covers
<1>2. /\ Spans!Placement(i).from \in Int /\ Spans!Placement(i).to \in Int
      /\ Spans!Video(i).from \in Int /\ Spans!Video(i).to \in Int
      /\ Spans!Video(i).from = Spans!Placement(i).from /\ Spans!Video(i).to <= Spans!Placement(i).to
      /\ Spans!Video(i).from <= Spans!Video(i).to
  <2>1. Spans!Offset[i] \in Nat
    BY Offsets
  <2>2. files[i].video \in Nat
    BY LineFacts
  <2>3. Spans!Video(i).to = Spans!Offset[i] + files[i].video
    BY FilesAdjoin
  <2> QED
    BY <2>1, <2>2, <2>3, FilesAdjoin
<1>3. /\ Unfilmed(i).from = Spans!Video(i).to /\ Unfilmed(i).to = Spans!Placement(i).to
      /\ Visible(request, i).range = Spans!Overlap(request, Spans!Video(i))
      /\ Gone(request, i).range = Spans!Overlap(request, Spans!Placement(i))
      /\ Dark(request, i).range = Spans!Overlap(request, Unfilmed(i))
  BY DEF Unfilmed, Visible, Gone, Dark
<1>4. /\ Spans!Covers(Spans!Placement(i), t) <=> Spans!Covers(Spans!Video(i), t) \/ Spans!Covers(Unfilmed(i), t)
      /\ ~(Spans!Covers(Spans!Video(i), t) /\ Spans!Covers(Unfilmed(i), t))
  BY <1>1, <1>2, <1>3 DEF Spans!Covers
<1>5. DOMAIN files = 1 .. Len(files)
  BY LineFacts
<1> HIDE DEF request
<1>6. Spans!Covers(Spans!Overlap(request, Spans!Video(i)), t) <=> Spans!Covers(Spans!Video(i), t)
  BY <1>1, <1>2, OverlapFacts
<1>7. /\ Spans!Covers(Spans!Overlap(request, Spans!Placement(i)), t) <=> Spans!Covers(Spans!Placement(i), t)
      /\ Spans!Covers(Spans!Placement(i), t) => Spans!Proper(Spans!Overlap(request, Spans!Placement(i)))
  BY <1>1, <1>2, OverlapFacts
<1>8. Spans!Covers(Spans!Overlap(request, Unfilmed(i)), t) <=> Spans!Covers(Unfilmed(i), t)
  BY <1>1, <1>2, <1>3, OverlapFacts
<1>9. Spans!Covers(Spans!Placement(i), t) => i \in Spans!Touched(request)
  BY <1>5, <1>7 DEF Spans!Touched
<1> QED
  BY <1>3, <1>4, <1>6, <1>7, <1>8, <1>9 DEF request

\* A range that covers a moment is not empty.
LEMMA RangeFacts ==
  ASSUME Line, NEW from \in Nat, NEW to \in Nat, NEW t \in Nat
  PROVE  LET request == [from |-> from, to |-> to]
         IN  /\ \A i \in 1 .. Len(files) :
                 \A piece \in {Visible(request, i), Gone(request, i), Dark(request, i)} :
                    Spans!Covers(piece.range, t) => Spans!Proper(piece.range)
             /\ Spans!Covers(Behind(request).range, t) => Spans!Proper(Behind(request).range)
<1> DEFINE request == [from |-> from, to |-> to]
<1>1. \A i \in 1 .. Len(files) : /\ Spans!Placement(i).from \in Int /\ Spans!Placement(i).to \in Int
                                 /\ Spans!Video(i).from \in Int /\ Spans!Video(i).to \in Int
  BY Offsets, FilesAdjoin
<1>2. \A a, b : a.from \in Int /\ a.to \in Int /\ b.from \in Int /\ b.to \in Int
                => (Spans!Covers(Spans!Overlap(a, b), t) => Spans!Proper(Spans!Overlap(a, b)))
  BY OverlapFacts
<1>3. ASSUME NEW i \in 1 .. Len(files), NEW piece \in {Visible(request, i), Gone(request, i), Dark(request, i)},
             Spans!Covers(piece.range, t)
      PROVE  Spans!Proper(piece.range)
  <2>1. request.from \in Int /\ request.to \in Int
    OBVIOUS
  <2>2. Unfilmed(i).from \in Int /\ Unfilmed(i).to \in Int
    BY <1>1 DEF Unfilmed
  <2>3. piece.range \in {Spans!Overlap(request, Spans!Video(i)), Spans!Overlap(request, Spans!Placement(i)),
                        Spans!Overlap(request, Unfilmed(i))}
    BY <1>3 DEF Visible, Gone, Dark
  <2> HIDE DEF request
  <2> QED
    BY <1>1, <1>2, <1>3, <2>1, <2>2, <2>3
<1>4. Spans!Covers(Behind(request).range, t) => Spans!Proper(Behind(request).range)
  BY FilesAdjoin DEF Behind, After, Spans!Covers, Spans!Proper, Spans!Greater
<1> QED
  BY <1>3, <1>4

\* Every moment of a request has one piece that tells of it.
LEMMA OnePiece ==
  ASSUME Line, NEW from \in Nat, NEW to \in Nat, NEW t \in from .. to - 1,
         NEW readable, readable \subseteq DOMAIN files
  PROVE  LET request == [from |-> from, to |-> to]
             there == Spans!Spans(request, readable)
             pieces == there \cup Spans!Missing(request, readable)
         IN  /\ \E p \in pieces : Spans!Covers(p.range, t)
             /\ \A p, q \in pieces : Spans!Covers(p.range, t) /\ Spans!Covers(q.range, t) => p = q
             /\ (\E piece \in there : Spans!Covers(piece.range, t))
                  <=> (\E i \in readable : Spans!Covers(Spans!Video(i), t))
<1> DEFINE request == [from |-> from, to |-> to]
           there == Spans!Spans(request, readable)
           missing == Spans!Missing(request, readable)
           covers(range) == Spans!Covers(range, t)
<1>1. DOMAIN files = 1 .. Len(files) /\ t \in Nat /\ Spans!End \in Nat
  BY LineFacts, FilesAdjoin
<1>2. \A i \in 1 .. Len(files) :
         /\ covers(Visible(request, i).range) <=> covers(Spans!Video(i))
         /\ covers(Gone(request, i).range) <=> covers(Spans!Placement(i))
         /\ covers(Dark(request, i).range) <=> covers(Unfilmed(i))
         /\ covers(Spans!Placement(i)) <=> covers(Spans!Video(i)) \/ covers(Unfilmed(i))
         /\ ~(covers(Spans!Video(i)) /\ covers(Unfilmed(i)))
         /\ covers(Spans!Placement(i)) => i \in Spans!Touched(request)
  BY PieceCovers
<1>3. /\ \A i, j \in 1 .. Len(files) : covers(Spans!Placement(i)) /\ covers(Spans!Placement(j)) => i = j
      /\ t < Spans!End => \E i \in 1 .. Len(files) : covers(Spans!Placement(i))
  BY <1>1, MomentsPlaced
<1>4. \A i \in 1 .. Len(files) : covers(Spans!Placement(i)) => t < Spans!End
  BY <1>1, FilesAdjoin DEF Spans!Covers
<1>5. covers(Behind(request).range) <=> ~(t < Spans!End)
  BY <1>1 DEF Behind, After, Spans!Covers, Spans!Greater
<1>6. \A p : /\ p \in there => \E i \in readable : p = Visible(request, i) /\ i \in Spans!Touched(request)
             /\ p \in missing => \/ \E i \in DOMAIN files \ readable : p = Gone(request, i)
                                 \/ \E i \in readable : p = Dark(request, i)
                                 \/ p = Behind(request)
  BY PieceFacts
<1>7. /\ \A i \in readable : covers(Visible(request, i).range) => Visible(request, i) \in there
      /\ \A i \in DOMAIN files \ readable : covers(Gone(request, i).range) => Gone(request, i) \in missing
      /\ \A i \in readable : covers(Dark(request, i).range) => Dark(request, i) \in missing
      /\ covers(Behind(request).range) => Behind(request) \in missing
  <2>1. \A p : /\ (\E i \in readable : p = Visible(request, i) /\ i \in Spans!Touched(request)) /\ Spans!Proper(p.range)
                    => p \in there
               /\ Spans!Proper(p.range) /\ (\/ \E i \in DOMAIN files \ readable : p = Gone(request, i) /\ i \in Spans!Touched(request)
                                            \/ \E i \in readable : p = Dark(request, i) /\ i \in Spans!Touched(request)
                                            \/ p = Behind(request))
                    => p \in missing
    BY PieceFacts
  <2>2. /\ \A i \in 1 .. Len(files) : covers(Visible(request, i).range) => Spans!Proper(Visible(request, i).range)
        /\ \A i \in 1 .. Len(files) : covers(Gone(request, i).range) => Spans!Proper(Gone(request, i).range)
        /\ \A i \in 1 .. Len(files) : covers(Dark(request, i).range) => Spans!Proper(Dark(request, i).range)
        /\ covers(Behind(request).range) => Spans!Proper(Behind(request).range)
    BY <1>1, RangeFacts
  <2> HIDE DEF request, there, missing, covers
  <2> QED
    BY <1>1, <1>2, <2>1, <2>2
<1> HIDE DEF request, there, missing, covers
<1>8. (\E piece \in there : covers(piece.range)) <=> (\E i \in readable : covers(Spans!Video(i)))
  BY <1>1, <1>2, <1>6, <1>7
<1>9. ASSUME NEW p, p \in there \cup missing, covers(p.range),
             NEW q, q \in there \cup missing, covers(q.range)
      PROVE  p = q
  BY <1>1, <1>2, <1>3, <1>4, <1>5, <1>6, <1>9
<1>10. \E p \in there \cup missing : covers(p.range)
  <2>1. CASE t < Spans!End
    BY <1>1, <1>2, <1>3, <1>7, <2>1
  <2>2. CASE ~(t < Spans!End)
    BY <1>5, <1>7, <2>2
  <2> QED
    BY <2>1, <2>2
<1> QED
  BY <1>8, <1>9, <1>10 DEF request, there, missing, covers

\* A set of numbers has a least one.
LEMMA LeastFacts ==
  ASSUME NEW S, S \subseteq Nat, S # {}
  PROVE  Spans!Least(S) \in S /\ \A u \in S : Spans!Least(S) <= u
<1>1. PICK x \in S : \A y \in S : ~(y < x)
  <2>1. \E x \in S : \A y \in S : <<y, x>> \notin OpToRel(<, Nat)
    BY NatLessThanWellFounded, WFMin
  <2> QED
    BY <2>1 DEF OpToRel
<1>2. \E t \in S : \A u \in S : t <= u
  BY <1>1
<1> QED
  BY <1>2 DEF Spans!Least

\* When the last frame of a file ends.
Ends(i) == Spans!Offset[i] + files[i].ends

\* The first frame of a file begins with it, the others before the last one ends.
LEMMA FrameFacts ==
  ASSUME Line, NEW i \in 1 .. Len(files)
  PROVE  /\ Spans!Starts(i) \subseteq Nat /\ Spans!Borders(i) \subseteq Nat /\ Ends(i) \in Nat
         /\ Spans!Offset[i] \in Nat /\ Spans!Offset[i] \in Spans!Starts(i)
         /\ \A t \in Spans!Starts(i) : Spans!Offset[i] <= t /\ t < Ends(i)
         /\ \A t : t \in Spans!Borders(i) <=> t \in Spans!Starts(i) \/ t = Ends(i)
<1> DEFINE o == Spans!Offset[i]
           begins == files[i].frames
           ends == files[i].ends
<1>1. /\ begins \subseteq Nat /\ ends \in Nat /\ 0 \in begins
      /\ \A t \in begins : t < ends
  BY LineFacts
<1>2. o \in Nat
  BY Offsets
<1>3. Spans!Starts(i) = {o + t : t \in begins}
  BY DEF Spans!Starts
<1>4. Ends(i) = o + ends /\ Spans!Borders(i) = Spans!Starts(i) \cup {o + ends}
  BY DEF Ends, Spans!Borders
<1> HIDE DEF o, begins, ends
<1>5. Spans!Starts(i) \subseteq Nat /\ o \in Spans!Starts(i)
  BY <1>1, <1>2, <1>3
<1>6. \A t \in Spans!Starts(i) : o <= t /\ t < Ends(i)
  BY <1>1, <1>2, <1>3, <1>4
<1>7. Ends(i) \in Nat /\ Spans!Borders(i) \subseteq Nat
  BY <1>1, <1>2, <1>4, <1>5
<1>8. \A t : t \in Spans!Borders(i) <=> t \in Spans!Starts(i) \/ t = Ends(i)
  BY <1>4
<1> QED
  BY <1>2, <1>5, <1>6, <1>7, <1>8 DEF o

\* Whole frames are taken over: from the first that begins in the range to the
\* end of the last, which lies behind the range unless the file has no more of them.
LEMMA AlignedFacts ==
  ASSUME Line, NEW s, s.file \in 1 .. Len(files), s.range.from \in Int, s.range.to \in Int
  PROVE  /\ \A t : t \in Spans!Selected(s)
                     <=> t \in Spans!Starts(s.file) /\ s.range.from <= t /\ t < s.range.to
         /\ Spans!Selected(s) # {} =>
              /\ Spans!Aligned(s).from \in Spans!Selected(s) /\ Spans!Aligned(s).from \in Nat
              /\ Spans!Aligned(s).to \in Spans!Borders(s.file) /\ Spans!Aligned(s).to \in Nat
              /\ \A u \in Spans!Selected(s) : Spans!Aligned(s).from <= u /\ u < Spans!Aligned(s).to
              /\ \A b \in Spans!Borders(s.file) :
                    (\A u \in Spans!Selected(s) : u < b) => Spans!Aligned(s).to <= b
              /\ Spans!Aligned(s).to >= s.range.to \/ Spans!Aligned(s).to = Ends(s.file)
<1> DEFINE F == Spans!Selected(s)
           B == {t \in Spans!Borders(s.file) : \A u \in F : u < t}
           i == s.file
<1>1. /\ Spans!Starts(i) \subseteq Nat /\ Spans!Borders(i) \subseteq Nat /\ Ends(i) \in Nat
      /\ \A t \in Spans!Starts(i) : t < Ends(i)
      /\ \A t : t \in Spans!Borders(i) <=> t \in Spans!Starts(i) \/ t = Ends(i)
  BY FrameFacts
<1>2. \A t : t \in F <=> t \in Spans!Starts(i) /\ s.range.from <= t /\ t < s.range.to
  BY DEF Spans!Selected, Spans!Covers
<1>3. Spans!Aligned(s).from = Spans!Least(F) /\ Spans!Aligned(s).to = Spans!Least(B)
  BY DEF Spans!Aligned
<1> HIDE DEF F, i
<1>4. F \subseteq Nat /\ B \subseteq Nat /\ Ends(i) \in B
  BY <1>1, <1>2 DEF i
<1>5. ASSUME F # {}
      PROVE  /\ Spans!Least(F) \in F /\ \A u \in F : Spans!Least(F) <= u
             /\ Spans!Least(B) \in B /\ \A b \in B : Spans!Least(B) <= b
  BY <1>4, <1>5, LeastFacts
<1>6. ASSUME F # {} PROVE Spans!Least(B) >= s.range.to \/ Spans!Least(B) = Ends(i)
  <2> DEFINE to == Spans!Least(B)
  <2>1. PICK u : u \in F
    BY <1>6
  <2>2. to \in B /\ to \in Nat /\ u < to /\ s.range.from <= u /\ u \in Nat
    BY <1>2, <1>4, <1>5, <1>6, <2>1
  <2> HIDE DEF to
  <2>3. to \in Spans!Starts(i) \/ to = Ends(i)
    BY <1>1, <2>2 DEF i
  <2>4. ASSUME to \in Spans!Starts(i) PROVE to >= s.range.to
    <3>1. to \notin F
      BY <2>2
    <3> QED
      BY <1>2, <2>2, <2>4, <3>1
  <2> QED
    BY <2>3, <2>4 DEF to
<1> QED
  BY <1>2, <1>3, <1>4, <1>5, <1>6 DEF F, i

\* A piece that is there: the part of the video of its file that was asked for.
LEMMA PieceShown ==
  ASSUME Line, NEW from \in Nat, NEW to \in Nat, NEW readable, readable \subseteq DOMAIN files,
         NEW s \in Spans!Spans([from |-> from, to |-> to], readable)
  PROVE  /\ s.file \in 1 .. Len(files) /\ s.range.from \in Nat /\ s.range.to \in Nat
         /\ s.range.from < s.range.to
         /\ s = Visible([from |-> from, to |-> to], s.file)
         /\ s.range.from = Spans!Greater(from, Spans!Video(s.file).from)
         /\ s.range.to = Spans!Lesser(to, Spans!Video(s.file).to)
         /\ \A t \in Nat : s.range.from <= t /\ t < s.range.to
                           <=> /\ from <= t /\ t < to
                               /\ Spans!Video(s.file).from <= t /\ t < Spans!Video(s.file).to
<1> DEFINE request == [from |-> from, to |-> to]
<1>1. PICK i \in readable : s = Visible(request, i) /\ Spans!Proper(s.range)
  BY PieceFacts
<1>2. i \in 1 .. Len(files)
  BY LineFacts
<1>3. s.file = i /\ s.range = Spans!Overlap(request, Spans!Video(i))
  BY <1>1 DEF Visible
<1>4. Spans!Video(i).from \in Nat /\ Spans!Video(i).to \in Nat
  BY <1>2, Offsets, FilesAdjoin
<1>5. /\ s.range.from = Spans!Greater(from, Spans!Video(i).from)
      /\ s.range.to = Spans!Lesser(to, Spans!Video(i).to)
  BY <1>3 DEF Spans!Overlap
<1>6. s.range.from \in Nat /\ s.range.to \in Nat
  BY <1>4, <1>5 DEF Spans!Greater, Spans!Lesser
<1>7. s.range.from < s.range.to
  BY <1>1 DEF Spans!Proper
<1>8. \A t \in Nat : s.range.from <= t /\ t < s.range.to
                     <=> /\ from <= t /\ t < to
                         /\ Spans!Video(i).from <= t /\ t < Spans!Video(i).to
  BY <1>4, <1>5 DEF Spans!Greater, Spans!Lesser
<1> QED
  BY <1>1, <1>2, <1>3, <1>5, <1>6, <1>7, <1>8

\* Of several pieces one comes first and one last.
LEMMA CoverageFacts ==
  ASSUME Line, NEW there, there # {}, \A s \in there : s.file \in 1 .. Len(files)
  PROVE  \E first, last \in there :
            /\ \A s \in there : first.file <= s.file /\ s.file <= last.file
            /\ Spans!Coverage(there) = [from |-> Spans!Aligned(first).from, to |-> Spans!Aligned(last).to]
<1> DEFINE N == Len(files)
           A == {s.file : s \in there}
           Z == {N - s.file : s \in there}
<1>1. N \in Nat
  BY LineFacts
<1>2. A \subseteq Nat /\ A # {} /\ Z \subseteq Nat /\ Z # {}
  BY <1>1
<1>3. \E first \in there : \A other \in there : first.file <= other.file
  <2>1. Spans!Least(A) \in A /\ \A u \in A : Spans!Least(A) <= u
    <3> HIDE DEF A
    <3> QED
      BY <1>2, LeastFacts
  <2> QED
    BY <2>1
<1>4. \E last \in there : \A other \in there : other.file <= last.file
  <2>1. Spans!Least(Z) \in Z /\ \A u \in Z : Spans!Least(Z) <= u
    <3> HIDE DEF Z
    <3> QED
      BY <1>2, LeastFacts
  <2>2. PICK last \in there : Spans!Least(Z) = N - last.file
    BY <2>1
  <2>3. ASSUME NEW other \in there PROVE other.file <= last.file
    <3>1. N - last.file <= N - other.file
      BY <2>1, <2>2
    <3> HIDE DEF N
    <3> QED
      BY <1>1, <3>1 DEF N
  <2> QED
    BY <2>3
<1> DEFINE first == CHOOSE s \in there : \A other \in there : s.file <= other.file
           last == CHOOSE s \in there : \A other \in there : other.file <= s.file
<1>5. /\ first \in there /\ \A other \in there : first.file <= other.file
      /\ last \in there /\ \A other \in there : other.file <= last.file
  BY <1>3, <1>4
<1>6. Spans!Coverage(there) = [from |-> Spans!Aligned(first).from, to |-> Spans!Aligned(last).to]
  BY DEF Spans!Coverage
<1> HIDE DEF first, last
<1> QED
  BY <1>5, <1>6

\* The scope ends with the last whole millisecond of the line.
LEMMA ScopeFacts ==
  ASSUME Line
  PROVE  /\ Spans!ScopeEnd \in Nat /\ Spans!ScopeEnd <= Spans!End
         /\ Spans!ScopeEnd + K > Spans!End /\ 0 < Spans!ScopeEnd
<1> USE SpanConstants
<1> DEFINE e == Spans!End
           q == e \div K
<1>1. e \in Nat /\ e >= K
  BY FilesAdjoin
<1>2. q \in Nat /\ e >= K * q /\ e < K * q + K
  <2> HIDE DEF e
  <2> QED
    BY <1>1, DivFacts
<1>3. K * q = q * K /\ K * q \in Nat
  <2> HIDE DEF q
  <2> QED
    BY <1>2
<1>4. Spans!ScopeEnd = q * K
  BY DEF Spans!ScopeEnd
<1> HIDE DEF e, q
<1>5. Spans!ScopeEnd \in Nat /\ Spans!ScopeEnd <= e /\ Spans!ScopeEnd + K > e /\ 0 < Spans!ScopeEnd
  BY <1>1, <1>2, <1>3, <1>4
<1> QED
  BY <1>5 DEF e

\* All of the scope is on video.
Filmed == \A i \in 1 .. Len(files) : Spans!Video(i).to >= Spans!Lesser(Spans!Placement(i).to, Spans!ScopeEnd)

LEMMA CompleteFacts ==
  ASSUME NEW request, NEW readable
  PROVE  LET answer == Spans!Resolve(request, readable)
         IN  /\ answer.status \in {"COMPLETE", "PARTIAL", "FAILED"}
             /\ answer.status = "COMPLETE"
                  <=> /\ ~Spans!Unknown(request) /\ Spans!Spans(request, readable) # {}
                      /\ Spans!Missing(request, readable) = {}
             /\ ~Spans!Unknown(request) => /\ answer.spans = Spans!Spans(request, readable)
                                           /\ answer.missing = Spans!Missing(request, readable)
BY DEF Spans!Resolve, Spans!Failure

\* Only a line that is filmed is prepared.
LEMMA PreparedIsFilmed ==
  ASSUME Line, NEW readable, readable \subseteq DOMAIN files,
         Spans!Resolve(Spans!Scope, readable).status = "COMPLETE"
  PROVE  Filmed
<1> USE SpanConstants
<1>1. Spans!Missing(Spans!Scope, readable) = {}
  BY CompleteFacts
<1>2. /\ Spans!Scope = [from |-> 0, to |-> Spans!ScopeEnd]
      /\ Spans!Scope.from = 0 /\ Spans!Scope.to = Spans!ScopeEnd
  BY DEF Spans!Scope
<1>3. DOMAIN files = 1 .. Len(files) /\ Len(files) \in 1 .. Len(files)
  BY LineFacts
<1>4. ASSUME NEW i \in 1 .. Len(files), Spans!Video(i).to < Spans!Lesser(Spans!Placement(i).to, Spans!ScopeEnd)
      PROVE  FALSE
  <2>1. /\ Spans!Placement(i).from \in Nat /\ Spans!Placement(i).to \in Nat /\ Spans!Video(i).to \in Nat
        /\ Spans!Placement(i).from + K <= Spans!Placement(i).to /\ Spans!Placement(i).to <= Spans!End
        /\ Spans!End \in Nat
    BY Offsets, FilesAdjoin
  <2>2. Spans!Video(i).to < Spans!Placement(i).to /\ Spans!Video(i).to < Spans!ScopeEnd
    BY <1>4, <2>1, ScopeFacts DEF Spans!Lesser
  <2>3. Unfilmed(i).from = Spans!Video(i).to /\ Unfilmed(i).to = Spans!Placement(i).to
    BY DEF Unfilmed
  <2>4. Spans!Proper(Spans!Overlap(Spans!Scope, Spans!Placement(i)))
    BY <1>2, <2>1, ScopeFacts DEF Spans!Overlap, Spans!Proper, Spans!Greater, Spans!Lesser
  <2>5. Spans!Proper(Spans!Overlap(Spans!Scope, Unfilmed(i)))
    BY <1>2, <2>1, <2>2, <2>3, ScopeFacts, OverlapFacts
  <2>6. i \in Spans!Touched(Spans!Scope)
    BY <1>3, <2>4 DEF Spans!Touched
  <2>7. \A m : /\ Spans!Proper(m.range)
               /\ \/ \E j \in DOMAIN files \ readable : m = Gone(Spans!Scope, j) /\ j \in Spans!Touched(Spans!Scope)
                  \/ \E j \in readable : m = Dark(Spans!Scope, j) /\ j \in Spans!Touched(Spans!Scope)
               => m \in Spans!Missing(Spans!Scope, readable)
    BY <1>2, ScopeFacts, PieceFacts
  <2>8. /\ Gone(Spans!Scope, i).range = Spans!Overlap(Spans!Scope, Spans!Placement(i))
        /\ Dark(Spans!Scope, i).range = Spans!Overlap(Spans!Scope, Unfilmed(i))
    BY DEF Gone, Dark
  <2> QED
    BY <1>1, <1>3, <2>4, <2>5, <2>6, <2>7, <2>8
<1>5. \A i \in 1 .. Len(files) : Spans!Video(i).to \in Nat /\ Spans!Lesser(Spans!Placement(i).to, Spans!ScopeEnd) \in Int
  BY FilesAdjoin, ScopeFacts DEF Spans!Lesser
<1> QED
  BY <1>4, <1>5 DEF Filmed

\* The video of each file but the last reaches the next one.
LEMMA VideosAdjoin ==
  ASSUME Line, Filmed, NEW i \in 1 .. Len(files) - 1
  PROVE  Spans!Video(i).to = Spans!Offset[i + 1] /\ Spans!Placement(i).to = Spans!Offset[i + 1]
<1> USE SpanConstants
<1>1. i \in 1 .. Len(files) /\ i + 1 \in 1 .. Len(files) /\ i + 1 # 1 /\ (i + 1) - 1 = i
  BY LineFacts
<1>2. Spans!Offset[i + 1] = Spans!Offset[(i + 1) - 1] + files[(i + 1) - 1].length
  BY <1>1, Offsets
<1>3. Spans!Placement(i).to = Spans!Offset[i + 1]
  BY <1>1, <1>2, FilesAdjoin
<1>4. /\ Spans!Placement(i + 1).from = Spans!Offset[i + 1] /\ Spans!Offset[i + 1] \in Nat
      /\ Spans!Placement(i + 1).from + K <= Spans!Placement(i + 1).to
      /\ Spans!Placement(i + 1).to \in Nat /\ Spans!Placement(i + 1).to <= Spans!End /\ Spans!End \in Nat
  BY <1>1, Offsets, FilesAdjoin
<1>5. Spans!Offset[i + 1] < Spans!ScopeEnd
  BY <1>4, ScopeFacts
<1>6. /\ Spans!Video(i).to \in Nat /\ Spans!Video(i).to <= Spans!Placement(i).to
      /\ Spans!Video(i).to >= Spans!Lesser(Spans!Placement(i).to, Spans!ScopeEnd)
  BY <1>1, FilesAdjoin DEF Filmed
<1> QED
  BY <1>3, <1>4, <1>5, <1>6, ScopeFacts DEF Spans!Lesser

\* Each file but the last has a frame that ends, or begins, where the next file begins.
Seamless == \A i \in 1 .. Len(files) - 1 : Spans!Offset[i + 1] \in Spans!Borders(i)

\* Only a line without seams is prepared, and the source ends with a frame.
LEMMA PreparedIsSeamless ==
  ASSUME Line, Filmed, NEW readable, readable \subseteq DOMAIN files,
         Spans!Resolve(Spans!Scope, readable).status = "COMPLETE",
         Spans!Joins(Spans!Resolve(Spans!Scope, readable).spans)
  PROVE  LET covered == Spans!Coverage(Spans!Resolve(Spans!Scope, readable).spans)
         IN  Seamless /\ covered.to \in Nat /\ covered.to <= Ends(Len(files))
<1> USE SpanConstants
<1> DEFINE N == Len(files)
           there == Spans!Spans(Spans!Scope, readable)
           piece(i) == Visible(Spans!Scope, i)
<1>1. /\ ~Spans!Unknown(Spans!Scope) /\ Spans!Missing(Spans!Scope, readable) = {}
      /\ Spans!Resolve(Spans!Scope, readable).spans = there
  BY CompleteFacts
<1>2. Spans!Joins(there)
  BY <1>1
<1>3. /\ Spans!Scope = [from |-> 0, to |-> Spans!ScopeEnd]
      /\ Spans!Scope.from = 0 /\ Spans!Scope.to = Spans!ScopeEnd /\ Spans!ScopeEnd \in Nat
  BY ScopeFacts DEF Spans!Scope
<1>4. DOMAIN files = 1 .. N /\ N \in 1 .. N
  BY LineFacts
<1>5. ASSUME NEW i \in 1 .. N
      PROVE  /\ piece(i) \in there /\ piece(i).file = i
             /\ piece(i).range.from = Spans!Offset[i]
             /\ piece(i).range.to \in Nat /\ Spans!Offset[i] < piece(i).range.to
  <2>1. /\ Spans!Placement(i).from \in Nat /\ Spans!Placement(i).to \in Nat /\ Spans!Video(i).to \in Nat
        /\ Spans!Placement(i).from + K <= Spans!Placement(i).to /\ Spans!Placement(i).to <= Spans!End
        /\ Spans!End \in Nat /\ Spans!Video(i).from = Spans!Offset[i] /\ Spans!Offset[i] \in Nat
        /\ Spans!Placement(i).from = Spans!Offset[i]
        /\ Spans!Video(i).to = Spans!Offset[i] + files[i].video
    BY Offsets, FilesAdjoin
  <2>2. Spans!Proper(Spans!Overlap(Spans!Scope, Spans!Placement(i)))
    BY <1>3, <2>1, ScopeFacts DEF Spans!Overlap, Spans!Proper, Spans!Greater, Spans!Lesser
  <2>3. i \in Spans!Touched(Spans!Scope)
    BY <1>4, <2>2 DEF Spans!Touched
  <2>4. files[i].video \in Nat \ {0}
    BY <1>1, <2>3, LineFacts DEF Spans!Unknown
  <2>5. i \in readable
    <3>1. \A m : /\ Spans!Proper(m.range)
                 /\ \E j \in DOMAIN files \ readable : m = Gone(Spans!Scope, j) /\ j \in Spans!Touched(Spans!Scope)
                 => m \in Spans!Missing(Spans!Scope, readable)
      BY <1>3, PieceFacts
    <3>2. Gone(Spans!Scope, i).range = Spans!Overlap(Spans!Scope, Spans!Placement(i))
      BY DEF Gone
    <3> QED
      BY <1>1, <1>4, <2>2, <2>3, <3>1, <3>2
  <2>6. piece(i).file = i /\ piece(i).range = Spans!Overlap(Spans!Scope, Spans!Video(i))
    BY DEF Visible
  <2>7. /\ piece(i).range.from = Spans!Greater(0, Spans!Video(i).from)
        /\ piece(i).range.to = Spans!Lesser(Spans!ScopeEnd, Spans!Video(i).to)
    BY <1>3, <2>6 DEF Spans!Overlap
  <2>8. /\ piece(i).range.from = Spans!Offset[i]
        /\ piece(i).range.to \in Nat /\ Spans!Offset[i] < piece(i).range.to
    BY <1>3, <2>1, <2>4, <2>7, ScopeFacts DEF Spans!Greater, Spans!Lesser
  <2>9. piece(i) \in there
    <3>1. Spans!Proper(piece(i).range)
      BY <2>8 DEF Spans!Proper
    <3>2. \A s : s \in there <=>
             \E j \in readable : /\ s = Visible(Spans!Scope, j) /\ j \in Spans!Touched(Spans!Scope)
                                 /\ Spans!Proper(s.range)
      BY <1>3, PieceFacts
    <3> QED
      BY <2>3, <2>5, <3>1, <3>2
  <2> QED
    BY <2>6, <2>8, <2>9
<1> HIDE DEF there, piece, N
<1>6. ASSUME NEW i \in 1 .. N
      PROVE  /\ Spans!Selected(piece(i)) # {}
             /\ Spans!Aligned(piece(i)).from = Spans!Offset[i]
             /\ Spans!Aligned(piece(i)).to \in Spans!Borders(i)
  <2>1. /\ piece(i).file \in 1 .. Len(files) /\ piece(i).range.from \in Int /\ piece(i).range.to \in Int
        /\ Spans!Offset[i] \in Spans!Starts(i) /\ Spans!Offset[i] \in Nat
        /\ \A t \in Spans!Starts(i) : Spans!Offset[i] <= t
    BY <1>5, Offsets, FrameFacts DEF N
  <2>2. Spans!Offset[i] \in Spans!Selected(piece(i))
    BY <1>5, <2>1, AlignedFacts
  <2>3. /\ Spans!Aligned(piece(i)).from \in Spans!Selected(piece(i)) /\ Spans!Aligned(piece(i)).from \in Nat
        /\ Spans!Aligned(piece(i)).to \in Spans!Borders(piece(i).file)
        /\ Spans!Aligned(piece(i)).from <= Spans!Offset[i]
    BY <2>1, <2>2, AlignedFacts
  <2>4. Spans!Aligned(piece(i)).from \in Spans!Starts(i)
    BY <1>5, <2>1, <2>3, AlignedFacts
  <2>5. Spans!Aligned(piece(i)).from = Spans!Offset[i]
    BY <2>1, <2>3, <2>4
  <2> QED
    BY <1>5, <2>2, <2>3, <2>5
<1>7. Seamless
  <2> SUFFICES ASSUME NEW i \in 1 .. Len(files) - 1 PROVE Spans!Offset[i + 1] \in Spans!Borders(i)
    BY DEF Seamless
  <2>1. i \in 1 .. N /\ i + 1 \in 1 .. N
    BY LineFacts DEF N
  <2>2. /\ piece(i) \in there /\ piece(i + 1) \in there
        /\ piece(i + 1).file = piece(i).file + 1
    BY <1>5, <2>1
  <2>3. Spans!Aligned(piece(i)).to = Spans!Aligned(piece(i + 1)).from
    BY <1>2, <2>2 DEF Spans!Joins
  <2> QED
    BY <1>6, <2>1, <2>3
<1>8. Spans!Coverage(there).to \in Nat /\ Spans!Coverage(there).to <= Ends(N)
  <2>1. \A s \in there : s.file \in 1 .. Len(files)
    BY <1>3, PieceShown, ScopeFacts DEF there
  <2>2. there # {}
    BY <1>4, <1>5
  <2>3. PICK last \in there :
           /\ \A s \in there : s.file <= last.file
           /\ Spans!Coverage(there).to = Spans!Aligned(last).to
    BY <2>1, <2>2, CoverageFacts
  <2>4. last.file = N
    BY <1>4, <1>5, <2>1, <2>3 DEF N
  <2>5. last.range.from \in Int /\ last.range.to \in Int
    BY <1>3, PieceShown, ScopeFacts DEF there
  <2>6. Spans!Selected(last) # {}
    BY <1>2 DEF Spans!Joins
  <2>7. Spans!Aligned(last).to \in Spans!Borders(N)
    BY <2>1, <2>4, <2>5, <2>6, AlignedFacts
  <2>8. /\ Spans!Borders(N) \subseteq Nat /\ Ends(N) \in Nat
        /\ \A t \in Spans!Borders(N) : t <= Ends(N)
    BY <1>4, FrameFacts DEF N
  <2> QED
    BY <2>3, <2>7, <2>8
<1> QED
  BY <1>1, <1>7, <1>8 DEF N

\* What lies in the scope of a filmed line is resolved completely.
LEMMA FilmedCompletes ==
  ASSUME Line, Filmed, NEW from \in Nat, NEW to \in Nat, from < to, to <= Spans!ScopeEnd
  PROVE  Spans!Resolve([from |-> from, to |-> to], DOMAIN files).status = "COMPLETE"
<1> USE SpanConstants
<1> DEFINE request == [from |-> from, to |-> to]
           all == DOMAIN files
<1>1. all = 1 .. Len(files) /\ request.from = from /\ request.to = to /\ Spans!End \in Nat
  BY LineFacts, FilesAdjoin
<1>2. \A i \in all : /\ Spans!Placement(i).from \in Nat /\ Spans!Placement(i).to \in Nat /\ Spans!Video(i).to \in Nat
                     /\ Spans!Placement(i).from < Spans!Placement(i).to
                     /\ Spans!Video(i).to = Spans!Placement(i).from + files[i].video
                     /\ Spans!Video(i).to >= Spans!Placement(i).to \/ Spans!Video(i).to >= Spans!ScopeEnd
  <2> TAKE i \in all
  <2>1. i \in 1 .. Len(files)
    BY <1>1
  <2>2. Spans!Placement(i).to \in Nat /\ Spans!Offset[i] \in Nat /\ Spans!Video(i).to \in Nat
    BY <2>1, Offsets, FilesAdjoin
  <2>3. /\ Spans!Placement(i).from = Spans!Offset[i]
        /\ Spans!Placement(i).from < Spans!Placement(i).to
        /\ Spans!Video(i).to = Spans!Offset[i] + files[i].video
    BY <2>1, <2>2, FilesAdjoin
  <2>4. Spans!Video(i).to >= Spans!Placement(i).to \/ Spans!Video(i).to >= Spans!ScopeEnd
    BY <2>1, <2>2, ScopeFacts DEF Filmed, Spans!Lesser
  <2> QED
    BY <2>2, <2>3, <2>4
<1>3. \A i \in all : Unfilmed(i).from = Spans!Video(i).to /\ Unfilmed(i).to = Spans!Placement(i).to
  BY DEF Unfilmed
<1> HIDE DEF request, all
<1>4. \A i \in all : ~Spans!Proper(Spans!Overlap(request, Unfilmed(i)))
  <2> TAKE i \in all
  <2>1. Spans!Proper(Spans!Overlap(request, Unfilmed(i)))
          => Unfilmed(i).from < request.to /\ Unfilmed(i).from < Unfilmed(i).to
    <3>1. Unfilmed(i).from = Spans!Video(i).to /\ Unfilmed(i).to = Spans!Placement(i).to
      BY <1>3
    <3>2. Spans!Placement(i).to \in Nat /\ Spans!Video(i).to \in Nat
      BY <1>2
    <3> QED
      BY <1>1, <3>1, <3>2 DEF Spans!Overlap, Spans!Proper, Spans!Greater, Spans!Lesser
  <2>2. /\ Unfilmed(i).from = Spans!Video(i).to /\ Unfilmed(i).to = Spans!Placement(i).to
        /\ Spans!Placement(i).to \in Nat /\ Spans!Video(i).to \in Nat
        /\ Spans!Video(i).to >= Spans!Placement(i).to \/ Spans!Video(i).to >= Spans!ScopeEnd
    BY <1>2, <1>3
  <2> QED
    BY <1>1, <2>1, <2>2, ScopeFacts
<1>5. ~Spans!Unknown(request)
  <2>1. SUFFICES ASSUME NEW i \in Spans!Touched(request), files[i].video = 0 PROVE FALSE
    BY DEF Spans!Unknown
  <2>2. i \in all /\ Spans!Proper(Spans!Overlap(request, Spans!Placement(i)))
    BY DEF Spans!Touched, all
  <2>3. Spans!Placement(i).from < to
    BY <1>1, <1>2, <2>2, OverlapFacts
  <2> QED
    BY <1>2, <2>1, <2>2, <2>3, ScopeFacts
<1>6. Spans!Missing(request, all) = {}
  <2>1. SUFFICES ASSUME NEW m \in Spans!Missing(request, all) PROVE FALSE
    OBVIOUS
  <2>2. /\ Spans!Proper(m.range)
        /\ (\E i \in all : m = Dark(request, i)) \/ m = Behind(request)
    BY PieceFacts DEF request, all
  <2>3. CASE \E i \in all : m = Dark(request, i)
    BY <1>4, <2>2, <2>3 DEF Dark
  <2>4. CASE m = Behind(request)
    BY <1>1, <2>2, <2>4, ScopeFacts DEF Behind, After, Spans!Proper, Spans!Greater
  <2> QED
    BY <2>2, <2>3, <2>4
<1>7. Spans!Spans(request, all) # {}
  <2>1. from \in from .. to - 1
    OBVIOUS
  <2>2. \E p \in Spans!Spans(request, all) \cup Spans!Missing(request, all) : Spans!Covers(p.range, from)
    <3>1. all \subseteq DOMAIN files
      BY DEF all
    <3>2. \E p \in Spans!Spans(request, all) \cup Spans!Missing(request, all) : Spans!Covers(p.range, from)
      BY <2>1, <3>1, OnePiece DEF request
    <3> QED
      BY <3>2
  <2> QED
    BY <1>6, <2>2
<1> QED
  BY <1>5, <1>6, <1>7, CompleteFacts DEF request, all

LEMMA AllCount == \A S : Spans!Cardinality(S) = Cardinality(S)
BY DEF Spans!Cardinality, Cardinality

\* A resolution is exact on every line and whatever can be read.
LEMMA ResolutionsExact ==
  ASSUME Line, alive \subseteq DOMAIN files
  PROVE  Spans!ResolutionIsExact
<1> USE SpanConstants
<1>1. SUFFICES ASSUME NEW from \in 0 .. Spans!End, NEW length \in 1 .. 2 * K,
                      ~Spans!Unknown([from |-> from, to |-> from + length]),
                      NEW t \in from .. from + length - 1
               PROVE  LET request == [from |-> from, to |-> from + length]
                          answer == Spans!Resolve(request, alive)
                          pieces == answer.spans \cup answer.missing
                      IN  /\ Spans!Cardinality({piece \in pieces : Spans!Covers(piece.range, t)}) = 1
                          /\ (\E piece \in answer.spans : Spans!Covers(piece.range, t))
                               <=> (\E i \in alive : Spans!Covers(Spans!Video(i), t))
  BY Zenon DEF Spans!ResolutionIsExact
<1> DEFINE to == from + length
           request == [from |-> from, to |-> to]
           answer == Spans!Resolve(request, alive)
           pieces == answer.spans \cup answer.missing
<1>2. from \in Nat /\ to \in Nat /\ t \in from .. to - 1
  BY FilesAdjoin
<1>3. answer.spans = Spans!Spans(request, alive) /\ answer.missing = Spans!Missing(request, alive)
  BY <1>1, CompleteFacts
<1> HIDE DEF to
<1>4. /\ \E p \in pieces : Spans!Covers(p.range, t)
      /\ \A p, q \in pieces : Spans!Covers(p.range, t) /\ Spans!Covers(q.range, t) => p = q
      /\ (\E piece \in answer.spans : Spans!Covers(piece.range, t))
           <=> (\E i \in alive : Spans!Covers(Spans!Video(i), t))
  <2> DEFINE there == Spans!Spans(request, alive)
             missing == Spans!Missing(request, alive)
  <2>1. /\ \E p \in there \cup missing : Spans!Covers(p.range, t)
        /\ \A p, q \in there \cup missing : Spans!Covers(p.range, t) /\ Spans!Covers(q.range, t) => p = q
        /\ (\E piece \in there : Spans!Covers(piece.range, t))
             <=> (\E i \in alive : Spans!Covers(Spans!Video(i), t))
    <3> HIDE DEF answer
    <3> QED
      BY <1>2, OnePiece
  <2>2. answer.spans = there /\ pieces = there \cup missing
    BY <1>3
  <2> HIDE DEF there, missing, pieces, answer
  <2> QED
    BY <2>1, <2>2
<1> HIDE DEF pieces, answer
<1>5. PICK p : {piece \in pieces : Spans!Covers(piece.range, t)} = {p}
  <2>1. PICK p \in pieces : Spans!Covers(p.range, t)
    BY <1>4
  <2>2. {piece \in pieces : Spans!Covers(piece.range, t)} = {p}
    BY <1>4, <2>1
  <2> QED
    BY <2>2
<1>6. Spans!Cardinality({piece \in pieces : Spans!Covers(piece.range, t)}) = 1
  BY <1>5, FS_Singleton, AllCount
<1> QED
  BY <1>4, <1>6 DEF pieces, answer, request, to

\* To the nearest millisecond is not below the millisecond.
LEMMA RoundFacts ==
  ASSUME NEW t \in Nat
  PROVE  /\ Spans!Round(t) \in Nat
         /\ \A n \in Nat : n * K <= t => n <= Spans!Round(t)
<1> USE SpanConstants
<1> DEFINE q == t \div K
<1>1. q \in Nat /\ t >= K * q /\ t < K * q + K
  BY DivFacts
<1>2. Spans!Round(t) \in {q, q + 1}
  BY DEF Spans!Round
<1> HIDE DEF q
<1>3. ASSUME NEW n \in Nat, n * K <= t PROVE n <= q
  <2>1. K * q = q * K /\ q * K + K = (q + 1) * K
    BY <1>1
  <2>2. n * K < (q + 1) * K
    BY <1>1, <1>3, <2>1
  <2> QED
    BY <1>1, <2>2, Ordered
<1> QED
  BY <1>1, <1>2, <1>3

LEMMA Scaled ==
  ASSUME NEW m \in Nat, NEW n \in Nat, m < n
  PROVE  m * K \in Nat /\ n * K \in Nat /\ m * K < n * K
<1> USE SpanConstants
<1>1. PICK k \in Nat \ {0} : n = m + k
  <2>1. n - m \in Nat \ {0} /\ n = m + (n - m)
    OBVIOUS
  <2> QED
    BY <2>1
<1>2. n * K = m * K + k * K /\ k * K > 0 /\ m * K \in Nat /\ k * K \in Nat
  BY <1>1
<1> QED
  BY <1>2

\* The pieces of a request fit together as those of the source did.
LEMMA PiecesJoin ==
  ASSUME Line, Filmed, Seamless, NEW from \in Nat, NEW to \in Nat,
         NEW readable, readable \subseteq DOMAIN files
  PROVE  LET there == Spans!Spans([from |-> from, to |-> to], readable)
         IN  Spans!Joins(there) <=> \A s \in there : Spans!Selected(s) # {}
<1> DEFINE there == Spans!Spans([from |-> from, to |-> to], readable)
<1>1. \A s \in there :
         /\ s.file \in 1 .. Len(files) /\ s.range.from \in Nat /\ s.range.to \in Nat
         /\ s.range.from < s.range.to
         /\ s.range.from = Spans!Greater(from, Spans!Video(s.file).from)
         /\ s.range.to = Spans!Lesser(to, Spans!Video(s.file).to)
  BY PieceShown
<1> HIDE DEF there
<1>2. ASSUME NEW s \in there, NEW next \in there, next.file = s.file + 1, Spans!Selected(s) # {}
      PROVE  Spans!Aligned(s).to = Spans!Aligned(next).from
  <2> DEFINE i == s.file
             seam == Spans!Offset[i + 1]
  <2>1. i \in 1 .. Len(files) - 1 /\ i \in 1 .. Len(files) /\ i + 1 \in 1 .. Len(files)
    <3>1. i \in 1 .. Len(files) /\ i + 1 \in 1 .. Len(files)
      BY <1>1, <1>2
    <3> QED
      BY <3>1, LineFacts
  <2>2. /\ seam \in Nat /\ Spans!Video(i).to = seam /\ Spans!Video(i + 1).from = seam
        /\ seam \in Spans!Borders(i)
    BY <2>1, VideosAdjoin, Offsets, FilesAdjoin DEF Seamless
  <2>3. /\ s.range.from \in Nat /\ s.range.to \in Nat /\ s.range.from < s.range.to
        /\ s.range.from >= from /\ s.range.to = Spans!Lesser(to, seam)
    <3>1. Spans!Video(i).from \in Nat
      BY <2>1, Offsets, FilesAdjoin
    <3>2. s.range.from = Spans!Greater(from, Spans!Video(i).from) /\ s.range.to = Spans!Lesser(to, seam)
      BY <1>1, <2>2
    <3>3. s.range.from >= from
      BY <3>1, <3>2 DEF Spans!Greater
    <3> QED
      BY <1>1, <3>2, <3>3
  <2>4. /\ next.range.from \in Nat /\ next.range.to \in Nat /\ next.range.from < next.range.to
        /\ next.range.from = Spans!Greater(from, seam) /\ next.range.to <= to
    <3>1. Spans!Video(i + 1).to \in Nat
      BY <2>1, FilesAdjoin
    <3> QED
      BY <1>1, <1>2, <2>2, <3>1 DEF Spans!Lesser
  <2> HIDE DEF seam, i
  <2>5. s.range.to = seam /\ next.range.from = seam
    BY <2>2, <2>3, <2>4 DEF Spans!Greater, Spans!Lesser
  <2>6. Spans!Aligned(s).to = seam
    <3>1. /\ \A t : t \in Spans!Selected(s) <=> t \in Spans!Starts(i) /\ s.range.from <= t /\ t < s.range.to
          /\ Spans!Aligned(s).to \in Nat
          /\ \A b \in Spans!Borders(i) :
                (\A u \in Spans!Selected(s) : u < b) => Spans!Aligned(s).to <= b
          /\ Spans!Aligned(s).to >= s.range.to \/ Spans!Aligned(s).to = Ends(i)
      BY <1>1, <1>2, <2>3, AlignedFacts DEF i
    <3>2. Spans!Aligned(s).to <= seam
      BY <2>2, <2>5, <3>1
    <3>3. Ends(i) \in Nat /\ seam <= Ends(i)
      BY <2>1, <2>2, FrameFacts
    <3> QED
      BY <2>2, <2>5, <3>1, <3>2, <3>3
  <2>7. Spans!Aligned(next).from = seam
    <3>1. /\ seam \in Spans!Starts(i + 1)
          /\ next.file = i + 1
      BY <1>2, <2>1, FrameFacts DEF i, seam
    <3>2. /\ \A t : t \in Spans!Selected(next)
                      <=> t \in Spans!Starts(i + 1) /\ next.range.from <= t /\ t < next.range.to
          /\ Spans!Selected(next) # {} =>
                /\ Spans!Aligned(next).from \in Spans!Selected(next) /\ Spans!Aligned(next).from \in Nat
                /\ \A u \in Spans!Selected(next) : Spans!Aligned(next).from <= u
      BY <2>1, <2>4, <3>1, AlignedFacts
    <3>3. seam \in Spans!Selected(next)
      BY <2>2, <2>4, <2>5, <3>1, <3>2
    <3>4. Spans!Aligned(next).from <= seam /\ seam <= Spans!Aligned(next).from
      BY <2>5, <3>2, <3>3
    <3> QED
      BY <2>2, <3>2, <3>3, <3>4
  <2> QED
    BY <2>6, <2>7
<1> QED
  BY <1>2 DEF Spans!Joins, there

\* A time that was asked for lies in what a clip shows once a frame of it has begun.
LEMMA ClipCovers ==
  ASSUME Line, Filmed, Seamless, NEW from \in Nat, NEW to \in Nat, from < to, to <= Spans!ScopeEnd,
         NEW readable, readable \subseteq DOMAIN files,
         Spans!Missing([from |-> from, to |-> to], readable) = {},
         Spans!ScopeEnd < Ends(Len(files)) + K,
         NEW at \in from .. to - 1, at + K <= Spans!ScopeEnd,
         \A s \in Spans!Spans([from |-> from, to |-> to], readable) : Spans!Selected(s) # {}
  PROVE  Spans!Covers(Spans!Coverage(Spans!Spans([from |-> from, to |-> to], readable)), at)
           <=> \E i \in DOMAIN files : \E t \in Spans!Starts(i) :
                   Spans!Covers(Spans!Video(i), t) /\ from <= t /\ t <= at
<1> USE SpanConstants
<1> DEFINE request == [from |-> from, to |-> to]
           there == Spans!Spans(request, readable)
           N == Len(files)
<1>1. \A s \in there :
         /\ s.file \in 1 .. N /\ s.range.from \in Nat /\ s.range.to \in Nat
         /\ s.range.from < s.range.to
         /\ s = Visible(request, s.file)
         /\ \A t \in Nat : s.range.from <= t /\ t < s.range.to
                           <=> /\ from <= t /\ t < to
                               /\ Spans!Video(s.file).from <= t /\ t < Spans!Video(s.file).to
  BY PieceShown
<1>2. /\ at \in Nat /\ Spans!ScopeEnd \in Nat /\ N \in 1 .. N /\ DOMAIN files = 1 .. N
      /\ \A i \in 1 .. N : /\ Spans!Video(i).from = Spans!Offset[i] /\ Spans!Offset[i] \in Nat
                           /\ Spans!Video(i).to \in Nat /\ Spans!Placement(i).to \in Nat
                           /\ Spans!Video(i).to <= Spans!Placement(i).to
                           /\ Spans!Placement(i).to = Spans!Offset[i] + files[i].length
  BY ScopeFacts, LineFacts, Offsets, FilesAdjoin
<1>3. ASSUME NEW i \in 1 .. N, NEW j \in 1 .. N, i < j
      PROVE  Spans!Video(i).to <= Spans!Offset[j]
  <2>1. Spans!Offset[i] + files[i].length <= Spans!Offset[j]
    BY <1>3, FilesAdjoin
  <2>2. /\ Spans!Video(i).to \in Nat /\ Spans!Placement(i).to \in Nat /\ Spans!Offset[j] \in Nat
        /\ Spans!Video(i).to <= Spans!Placement(i).to
        /\ Spans!Placement(i).to = Spans!Offset[i] + files[i].length
    BY <1>2
  <2>3. Spans!Placement(i).to <= Spans!Offset[j]
    BY <2>1, <2>2
  <2> HIDE DEF N
  <2> QED
    BY <2>2, <2>3
<1>4. \A s \in there :
         /\ \A t : t \in Spans!Selected(s)
                     <=> t \in Spans!Starts(s.file) /\ s.range.from <= t /\ t < s.range.to
         /\ Spans!Aligned(s).from \in Spans!Selected(s) /\ Spans!Aligned(s).from \in Nat
         /\ Spans!Aligned(s).to \in Nat
         /\ \A u \in Spans!Selected(s) : Spans!Aligned(s).from <= u /\ u < Spans!Aligned(s).to
         /\ Spans!Aligned(s).to >= s.range.to \/ Spans!Aligned(s).to = Ends(s.file)
  <2> TAKE s \in there
  <2>1. s.file \in 1 .. Len(files) /\ s.range.from \in Int /\ s.range.to \in Int /\ Spans!Selected(s) # {}
    BY <1>1
  <2> QED
    BY <2>1, AlignedFacts
<1>5. \A i \in 1 .. N : Spans!Starts(i) \subseteq Nat /\ \A t \in Spans!Starts(i) : Spans!Offset[i] <= t
  BY FrameFacts
\* What was asked for is there, in one piece.
<1>6. \A t \in from .. to - 1 :
         /\ \E p \in there : Spans!Covers(p.range, t)
         /\ \A i \in 1 .. N : Spans!Covers(Spans!Video(i), t) => \E p \in there : p.file = i
  <2> TAKE t \in from .. to - 1
  <2>1. \E p \in there : Spans!Covers(p.range, t)
    BY OnePiece
  <2>2. PICK p \in there : Spans!Covers(p.range, t)
    BY <2>1
  <2>3. t \in Nat /\ Spans!Covers(Spans!Video(p.file), t)
    <3>1. t \in Nat
      OBVIOUS
    <3>2. p.range.from <= t /\ t < p.range.to
      BY <2>2 DEF Spans!Covers
    <3>3. Spans!Video(p.file).from <= t /\ t < Spans!Video(p.file).to
      BY <1>1, <3>1, <3>2
    <3> QED
      BY <3>1, <3>3 DEF Spans!Covers
  <2>4. \A i \in 1 .. N : Spans!Covers(Spans!Video(i), t) => Spans!Covers(Spans!Placement(i), t)
    BY <1>2, <2>3, FilesAdjoin DEF Spans!Covers
  <2>5. ASSUME NEW i \in 1 .. N, Spans!Covers(Spans!Video(i), t) PROVE p.file = i
    BY <1>1, <2>3, <2>4, <2>5, MomentsPlaced
  <2> QED
    BY <2>1, <2>5
<1>7. there # {}
  BY <1>6
<1>8. PICK first \in there, last \in there :
         /\ \A s \in there : first.file <= s.file /\ s.file <= last.file
         /\ Spans!Coverage(there) = [from |-> Spans!Aligned(first).from, to |-> Spans!Aligned(last).to]
  BY <1>1, <1>7, CoverageFacts
<1> DEFINE opens == Spans!Aligned(first).from
           done == Spans!Aligned(last).to
<1>9. Spans!Covers(Spans!Coverage(there), at) <=> opens <= at /\ at < done
  BY <1>8 DEF Spans!Covers
<1> HIDE DEF there, N, request, opens, done
\* The clip never ends too early.
<1>10. at < done
  <2>1. PICK p \in there : Spans!Covers(p.range, at)
    BY <1>6
  <2>2. p.range.from <= at /\ at < p.range.to
    BY <2>1 DEF Spans!Covers
  <2>3. /\ done \in Nat /\ last.file \in 1 .. N /\ p.file \in 1 .. N /\ p.file <= last.file
        /\ done >= last.range.to \/ done = Ends(last.file)
    BY <1>1, <1>4, <1>8 DEF done
  <2>4. CASE p.file < last.file
    <3>1. at < Spans!Video(p.file).to
      BY <1>1, <1>2, <2>2
    <3>2. Spans!Video(p.file).to <= Spans!Offset[last.file]
      BY <1>3, <2>3, <2>4
    <3>3. PICK u \in Spans!Selected(last) : u < done
      BY <1>4 DEF done
    <3>4. u \in Spans!Starts(last.file) /\ u \in Nat /\ Spans!Offset[last.file] <= u
      BY <1>4, <1>5, <2>3, <3>3
    <3> QED
      BY <1>2, <2>3, <3>1, <3>2, <3>3, <3>4
  <2>5. CASE p.file = last.file
    <3>1. last = p
      BY <1>1, <2>5
    <3>2. CASE done = Ends(N) /\ last.file = N
      BY <1>2, <2>3, <3>2, FrameFacts DEF N
    <3>3. CASE done = Ends(last.file) /\ last.file # N
      <4>1. last.file \in 1 .. Len(files) - 1
        BY <2>3, <3>3, LineFacts DEF N
      <4>2. /\ Spans!Video(last.file).to = Spans!Offset[last.file + 1]
            /\ Spans!Offset[last.file + 1] \in Spans!Borders(last.file)
        BY <4>1, VideosAdjoin, Zenon DEF Seamless
      <4>3. Spans!Offset[last.file + 1] <= Ends(last.file) /\ Ends(last.file) \in Nat
        <5> DEFINE seam == Spans!Offset[last.file + 1]
        <5>1. /\ \A t \in Spans!Starts(last.file) : t < Ends(last.file)
              /\ \A t : t \in Spans!Borders(last.file) <=> t \in Spans!Starts(last.file) \/ t = Ends(last.file)
              /\ Ends(last.file) \in Nat /\ Spans!Borders(last.file) \subseteq Nat
          BY <2>3, FrameFacts DEF N
        <5>2. seam \in Spans!Borders(last.file)
          BY <4>2
        <5> HIDE DEF seam
        <5>3. seam <= Ends(last.file)
          BY <5>1, <5>2
        <5> QED
          BY <5>1, <5>3 DEF seam
      <4>4. at < Spans!Video(last.file).to
        BY <1>1, <1>2, <2>2, <3>1
      <4> QED
        BY <1>2, <2>3, <3>3, <4>2, <4>3, <4>4
    <3>4. CASE done >= last.range.to
      BY <1>1, <1>2, <2>2, <2>3, <3>1, <3>4
    <3> QED
      BY <2>3, <3>2, <3>3, <3>4
  <2> QED
    BY <2>3, <2>4, <2>5
\* It begins with a frame that was asked for, the first there is.
<1>11. ASSUME opens <= at
       PROVE  \E i \in 1 .. N : \E t \in Spans!Starts(i) : Spans!Covers(Spans!Video(i), t) /\ from <= t /\ t <= at
  <2>1. /\ opens \in Spans!Starts(first.file) /\ first.range.from <= opens /\ opens < first.range.to
        /\ opens \in Nat /\ first.file \in 1 .. N
    BY <1>1, <1>4 DEF opens
  <2>2. Spans!Covers(Spans!Video(first.file), opens) /\ from <= opens
    BY <1>1, <2>1 DEF Spans!Covers
  <2> QED
    BY <1>11, <2>1, <2>2
<1>12. ASSUME NEW i \in 1 .. N, NEW t \in Spans!Starts(i), Spans!Covers(Spans!Video(i), t), from <= t, t <= at
       PROVE  opens <= at
  <2>1. t \in Nat /\ t \in from .. to - 1
    BY <1>2, <1>5, <1>12
  <2>2. PICK p \in there : p.file = i
    BY <1>6, <1>12, <2>1
  <2>3. Spans!Video(i).from <= t /\ t < Spans!Video(i).to
    BY <1>12 DEF Spans!Covers
  <2>4. t \in Spans!Selected(p)
    <3>1. p.range.from <= t /\ t < p.range.to
      BY <1>1, <1>12, <2>1, <2>2, <2>3
    <3> QED
      BY <1>4, <2>2, <3>1
  <2>5. first.file <= i /\ first.file \in 1 .. N /\ opens \in Nat /\ opens \in Spans!Selected(first)
    BY <1>1, <1>4, <1>8, <2>2 DEF opens
  <2>6. CASE first.file = i
    <3>1. first = p
      BY <1>1, <2>2, <2>6
    <3>2. opens <= t
      BY <1>4, <2>4, <3>1 DEF opens
    <3> QED
      BY <1>2, <1>12, <2>1, <2>5, <3>2
  <2>7. CASE first.file < i
    <3>1. opens < Spans!Video(first.file).to
      BY <1>1, <1>4, <2>5
    <3>2. Spans!Video(first.file).to <= Spans!Offset[i] /\ Spans!Offset[i] <= t
      BY <1>3, <1>5, <2>5, <2>7
    <3> QED
      BY <1>2, <1>12, <2>1, <2>5, <3>1, <3>2
  <2> QED
    BY <2>5, <2>6, <2>7
<1> QED
  BY <1>2, <1>9, <1>10, <1>11, <1>12 DEF there, request, N

\* A frame of the candidate has begun.
Begun ==
    \E i \in DOMAIN files : \E t \in Spans!Starts(i) :
        Spans!Covers(Spans!Video(i), t) /\ span.start * K <= t /\ t <= Spans!At

\* In a complete clip one file shows the time of the candidate once a frame of it
\* has begun, or none does if it is the very end.
LEMMA HitsFacts ==
  ASSUME Line, Filmed, Seamless, Spans!ScopeEnd < Ends(Len(files)) + K,
         NEW readable, readable \subseteq DOMAIN files,
         span \in [start : Nat, end : Nat, at : Nat, top : BOOLEAN],
         span.start < span.end, span.at \in span.start .. span.end, span.end * K <= Spans!ScopeEnd,
         clip = Spans!Resolve(Spans!Requested, readable), clip.status = "COMPLETE",
         \A s \in clip.spans : Spans!Selected(s) # {}
  PROVE  Spans!Cardinality(Spans!Hits) = 1 <=> span.at < span.end /\ Begun
<1> USE SpanConstants
<1> DEFINE from == span.start * K
           to == span.end * K
           at == span.at * K
           request == [from |-> from, to |-> to]
<1>1. /\ from \in Nat /\ to \in Nat /\ at \in Nat /\ from <= at
      /\ span.at < span.end => at < to
      /\ ~(span.at < span.end) => at = to
  <2>1. span.start \in Nat /\ span.end \in Nat /\ span.at \in Nat
    OBVIOUS
  <2>2. from \in Nat /\ to \in Nat /\ at \in Nat
    BY <2>1
  <2>3. from <= at
    <3>1. span.start = span.at \/ span.start < span.at
      BY <2>1
    <3> QED
      BY <2>1, <2>2, <3>1, Scaled
  <2>4. span.at < span.end => at < to
    BY <2>1, Scaled
  <2>5. ~(span.at < span.end) => span.at = span.end
    BY <2>1
  <2> QED
    BY <2>2, <2>3, <2>4, <2>5
<1>2. Spans!Requested = request /\ Spans!At = at
  BY DEF Spans!Requested, Spans!At
<1> HIDE DEF from, to, at
<1>3. clip.spans = Spans!Spans(request, readable) /\ Spans!Missing(request, readable) = {}
  BY <1>2, CompleteFacts
<1> DEFINE Lit == Spans!Covers(Spans!Coverage(Spans!Spans(request, readable)), at)
<1>4. Spans!Hits = {s \in Spans!Spans(request, readable) : Lit /\ Spans!Covers(s.range, at)}
  BY <1>2, <1>3, Zenon DEF Spans!Hits
<1>5. ASSUME span.at < span.end PROVE Lit <=> Begun
  <2>1. at \in from .. to - 1 /\ to <= Spans!ScopeEnd /\ from < to
    BY <1>1, <1>5 DEF to
  <2>2. at + K <= Spans!ScopeEnd
    <3>1. span.at \in Nat /\ span.end \in Nat /\ span.at + 1 \in Nat
      OBVIOUS
    <3>2. (span.at + 1) * K <= span.end * K
      <4>1. span.at + 1 = span.end \/ span.at + 1 < span.end
        BY <1>5, <3>1
      <4>2. (span.at + 1) * K \in Nat
        BY <3>1
      <4> QED
        BY <3>1, <4>1, <4>2, Scaled
    <3>3. (span.at + 1) * K = span.at * K + K /\ span.at * K \in Nat
      BY <3>1
    <3>4. span.end * K \in Nat /\ Spans!ScopeEnd \in Nat
      BY <3>1, ScopeFacts
    <3> QED
      BY <3>2, <3>3, <3>4 DEF at
  <2>3. \A s \in Spans!Spans(request, readable) : Spans!Selected(s) # {}
    BY <1>3
  <2>4. Lit <=> \E i \in DOMAIN files : \E t \in Spans!Starts(i) :
                      Spans!Covers(Spans!Video(i), t) /\ from <= t /\ t <= at
    BY <1>1, <1>3, <2>1, <2>2, <2>3, ClipCovers
  <2>5. Begun <=> \E i \in DOMAIN files : \E t \in Spans!Starts(i) :
                      Spans!Covers(Spans!Video(i), t) /\ from <= t /\ t <= at
    BY <1>2, Zenon DEF Begun, from
  <2> QED
    BY <2>4, <2>5
<1> HIDE DEF Lit
<1>6. CASE span.at < span.end
  <2>1. at \in from .. to - 1
    BY <1>1, <1>6
  <2>2. /\ \E p \in Spans!Spans(request, readable) : Spans!Covers(p.range, at)
        /\ \A p, q \in Spans!Spans(request, readable) :
              Spans!Covers(p.range, at) /\ Spans!Covers(q.range, at) => p = q
    BY <1>1, <1>3, <2>1, OnePiece
  <2>3. PICK p \in Spans!Spans(request, readable) : Spans!Covers(p.range, at)
    BY <2>2
  <2>4. Lit => Spans!Hits = {p}
    BY <1>4, <2>2, <2>3
  <2>5. ~Lit => Spans!Hits = {}
    BY <1>4
  <2>6. Spans!Cardinality({p}) = 1 /\ Spans!Cardinality({}) = 0
    BY FS_Singleton, FS_EmptySet, AllCount
  <2>7. Lit <=> Begun
    BY <1>5, <1>6
  <2>8. CASE Lit
    BY <1>6, <2>4, <2>6, <2>7, <2>8
  <2>9. CASE ~Lit
    <3>1. Spans!Cardinality(Spans!Hits) = 0
      BY <2>5, <2>6, <2>9, Zenon
    <3> QED
      BY <2>7, <2>9, <3>1
  <2> QED
    BY <2>8, <2>9
<1>7. CASE ~(span.at < span.end)
  <2>1. ASSUME NEW s \in Spans!Spans(request, readable) PROVE ~Spans!Covers(s.range, at)
    <3>1. PICK i \in readable : s = Visible(request, i)
      BY <1>1, <2>1, PieceFacts
    <3>2. i \in 1 .. Len(files)
      BY LineFacts
    <3>3. s.range = Spans!Overlap(request, Spans!Video(i)) /\ Spans!Video(i).to \in Nat
      BY <3>1, <3>2, FilesAdjoin DEF Visible
    <3>4. s.range.to <= to
      BY <1>1, <3>3 DEF Spans!Overlap, Spans!Lesser
    <3>5. s.range.to \in Int
      BY <1>1, <3>3 DEF Spans!Overlap, Spans!Lesser
    <3> QED
      BY <1>1, <1>7, <3>4, <3>5 DEF Spans!Covers
  <2>2. Spans!Hits = {}
    BY <1>4, <2>1
  <2>3. Spans!Cardinality(Spans!Hits) = 0
    BY <2>2, FS_EmptySet, AllCount
  <2> QED
    BY <1>7, <2>3
<1> QED
  BY <1>6, <1>7

(* The invariant: only a filmed line without seams is prepared, a candidate of *)
(* the top lies within its scope, a complete clip is what some state of the    *)
(* files gave, and it is built of pieces that hold a frame.                    *)
Candidates == [start : Nat, end : Nat, at : Nat, top : BOOLEAN]

SpansShape ==
    /\ files \in Case /\ alive \subseteq DOMAIN files
    /\ searching \in {"waiting", "prepared", "proposed", "verified", "resolved", "over"}
    /\ failed \in {"none", "source", "span", "scope", "window", "binding", "build"}
    /\ source \in Nat
    /\ span \in Candidates
    /\ clip.status \in {"COMPLETE", "PARTIAL", "FAILED"}

Sourced == Filmed /\ Seamless /\ source < Ends(Len(files)) + K

ClipTold == \E readable \in SUBSET DOMAIN files : clip = Spans!Resolve(Spans!Requested, readable)

\* Each piece of the clip holds a frame.
Framed == \A s \in clip.spans : Spans!Selected(s) # {}

SpansInv ==
    /\ SpansShape
    /\ searching # "over" => failed = "none"
    /\ searching \in {"waiting", "prepared"} => ~span.top /\ clip.status # "COMPLETE"
    /\ searching = "prepared" => Sourced
    /\ span.top => /\ Sourced /\ Spans!InScope(span)
                   /\ source >= Spans!ScopeEnd => failed \notin {"window", "binding"}
    /\ clip.status = "COMPLETE" => ClipTold
    /\ searching = "over" /\ failed = "none" => Framed

LEMMA SpansLine ==
  ASSUME files \in Case
  PROVE  Line
<1>1. /\ Case \subseteq Seq(FileRecord)
      /\ \A case \in Case :
            /\ Len(case) > 0
            /\ \A i \in DOMAIN case :
                /\ case[i].length >= K /\ case[i].video \in 0 .. case[i].length
                /\ 0 \in case[i].frames /\ \A t \in case[i].frames : t < case[i].ends
  BY PartsAssumption, Zenon DEF PartsAssumption, Spans!SpanAssumption, FileRecord
<1>2. /\ files \in Seq(FileRecord) /\ Len(files) > 0
      /\ \A i \in DOMAIN files :
            /\ files[i].length >= K /\ files[i].video \in 0 .. files[i].length
            /\ 0 \in files[i].frames /\ \A t \in files[i].frames : t < files[i].ends
  BY <1>1
<1>3. DOMAIN files = 1 .. Len(files)
  BY <1>2
<1>4. \A i \in 1 .. Len(files) :
         /\ files[i].length >= K /\ files[i].video <= files[i].length
         /\ 0 \in files[i].frames /\ \A t \in files[i].frames : t < files[i].ends
  BY <1>2, <1>3
<1> QED
  BY <1>2, <1>4 DEF Line

\* The files of a case are not changed, nor what is said of their line.
LEMMA LineRests ==
  ASSUME files' = files
  PROVE  /\ Spans!End' = Spans!End /\ Spans!ScopeEnd' = Spans!ScopeEnd
         /\ Filmed' = Filmed /\ Seamless' = Seamless
         /\ \A i : Ends(i)' = Ends(i)
         /\ \A s : Spans!Selected(s)' = Spans!Selected(s)
         /\ \A request, readable : Spans!Resolve(request, readable)' = Spans!Resolve(request, readable)
<1>1. Spans!Offset' = Spans!Offset
  BY DEF Spans!Offset
<1>2. /\ \A i : Spans!Placement(i)' = Spans!Placement(i)
      /\ \A i : Spans!Video(i)' = Spans!Video(i)
  BY <1>1 DEF Spans!Placement, Spans!Video
<1>3. Spans!End' = Spans!End
  BY <1>2 DEF Spans!End
<1>4. Spans!ScopeEnd' = Spans!ScopeEnd
  BY <1>3 DEF Spans!ScopeEnd
<1>5. Filmed' = Filmed
  BY <1>2, <1>4, Zenon DEF Filmed
<1>6. ASSUME NEW request, NEW readable
      PROVE  Spans!Resolve(request, readable)' = Spans!Resolve(request, readable)
  <2>1. Spans!Touched(request)' = Spans!Touched(request)
    BY <1>2, Zenon DEF Spans!Touched
  <2>2. Spans!Spans(request, readable)' = Spans!Spans(request, readable)
    BY <1>2, <2>1, Zenon DEF Spans!Spans
  <2>3. Spans!Missing(request, readable)' = Spans!Missing(request, readable)
    BY <1>2, <1>3, <2>1, Zenon DEF Spans!Missing
  <2>4. Spans!Unknown(request)' = Spans!Unknown(request)
    BY <2>1, Zenon DEF Spans!Unknown
  <2> QED
    BY <2>2, <2>3, <2>4, Zenon DEF Spans!Resolve
<1>7. /\ \A i : Spans!Starts(i)' = Spans!Starts(i)
      /\ \A i : Spans!Borders(i)' = Spans!Borders(i)
      /\ \A i : Ends(i)' = Ends(i)
  BY <1>1 DEF Spans!Starts, Spans!Borders, Ends
<1>8. \A s : Spans!Selected(s)' = Spans!Selected(s)
  BY <1>7 DEF Spans!Selected, Spans!Covers
<1>9. Seamless' = Seamless
  BY <1>1, <1>7, Zenon DEF Seamless
<1> QED
  BY <1>3, <1>4, <1>5, <1>6, <1>7, <1>8, <1>9

LEMMA ToldRests ==
  ASSUME files' = files, span' = span
  PROVE  /\ Spans!InScope(span)' = Spans!InScope(span) /\ Spans!Requested' = Spans!Requested
         /\ clip' = clip => ClipTold' = ClipTold /\ Framed' = Framed
         /\ (\E readable \in SUBSET DOMAIN files : clip' = Spans!Resolve(Spans!Requested, readable)) => ClipTold'
<1>1. Spans!InScope(span)' = Spans!InScope(span)
  BY LineRests DEF Spans!InScope
<1>2. Spans!Requested' = Spans!Requested
  BY DEF Spans!Requested
<1>3. \A readable : Spans!Resolve(Spans!Requested, readable)' = Spans!Resolve(Spans!Requested, readable)
  BY <1>2, LineRests
<1>4. ClipTold' = \E readable \in SUBSET DOMAIN files : clip' = Spans!Resolve(Spans!Requested, readable)
  BY <1>3 DEF ClipTold
<1>5. clip' = clip => Framed' = Framed
  BY LineRests DEF Framed
<1> QED
  BY <1>1, <1>2, <1>4, <1>5 DEF ClipTold

\* The files and the source of the search are not changed.
LEMMA SourceRests ==
  ASSUME files' = files, source' = source
  PROVE  Sourced' = Sourced
BY LineRests DEF Sourced

\* Whatever leaves the candidate and its clip alone.
LEMMA SpansFrame ==
  ASSUME SpansInv, files' = files, alive' \subseteq alive, source' = source, span' = span, clip' = clip,
         searching' \in {"waiting", "prepared", "proposed", "verified", "resolved", "over"},
         failed' \in {"none", "source", "span", "scope", "window", "binding", "build"},
         searching' # "over" => failed' = "none",
         searching' \in {"waiting", "prepared"} => searching' = searching,
         span.top /\ source >= Spans!ScopeEnd => failed' \notin {"window", "binding"},
         searching' = "over" /\ failed' = "none" => Framed
  PROVE  SpansInv'
<1>1. SpansShape'
  BY LineRests DEF SpansInv, SpansShape
<1>2. Sourced' = Sourced /\ Spans!ScopeEnd' = Spans!ScopeEnd
  BY SourceRests, LineRests
<1>3. Spans!InScope(span)' = Spans!InScope(span) /\ ClipTold' = ClipTold /\ Framed' = Framed
  BY ToldRests
<1> QED
  BY <1>1, <1>2, <1>3 DEF SpansInv

\* A step that raises ends the run.
LEMMA RaiseKeeps ==
  ASSUME SpansInv,
         NEW why \in {"source", "span", "scope", "window", "binding", "build"},
         Spans!Raise(why), span.top /\ source >= Spans!ScopeEnd => why \notin {"window", "binding"}
  PROVE  SpansInv'
BY SpansFrame DEF Spans!Raise

LEMMA VanishKeeps ==
  ASSUME SpansInv, NEW i \in alive, Spans!Vanish(i)
  PROVE  SpansInv'
<1>1. /\ files' = files /\ alive' \subseteq alive /\ source' = source /\ span' = span /\ clip' = clip
      /\ searching' = searching /\ failed' = failed
  BY DEF Spans!Vanish
<1> QED
  BY <1>1, SpansFrame DEF SpansInv, SpansShape

\* What a container tells of its duration is less than a millisecond too long.
LEMMA DurationFacts ==
  ASSUME NEW t \in Nat, NEW d \in Spans!Durations(t)
  PROVE  d \in Nat /\ d < t + K
<1> USE SpanConstants
<1> DEFINE a == t + K - 1
           p == t \div K
           q == a \div K
<1>1. p \in Nat /\ t >= K * p
  BY DivFacts
<1>2. a \in Nat
  OBVIOUS
<1>3. q \in Nat /\ a >= K * q
  <2> HIDE DEF a
  <2> QED
    BY <1>2, DivFacts
<1>4. d \in {t, p * K, q * K}
  BY DEF Spans!Durations
<1> HIDE DEF p, q
<1>5. p * K = K * p /\ q * K = K * q /\ K * p \in Nat /\ K * q \in Nat
  BY <1>1, <1>3
<1>6. d \in Nat /\ d <= a
  <2>1. t <= a
    OBVIOUS
  <2> HIDE DEF a
  <2> QED
    BY <1>1, <1>2, <1>3, <1>4, <1>5, <2>1
<1> QED
  BY <1>6

LEMMA PrepareKeeps ==
  ASSUME SpansInv, Spans!Prepare
  PROVE  SpansInv'
<1> DEFINE resolution == Spans!Resolve(Spans!Scope, alive)
           covered == Spans!Coverage(resolution.spans)
<1>1. Line
  BY SpansLine DEF SpansInv, SpansShape
<1>2. searching = "waiting"
  BY DEF Spans!Prepare
<1>3. CASE Spans!Raise("source")
  BY <1>3, RaiseKeeps
<1>4. CASE /\ resolution.status = "COMPLETE" /\ Spans!Joins(resolution.spans)
           /\ searching' = "prepared"
           /\ source' \in Spans!Durations(covered.to)
           /\ UNCHANGED <<files, alive, span, clip, failed>>
  <2>1. alive \subseteq DOMAIN files
    BY DEF SpansInv, SpansShape
  <2>2. Filmed
    BY <1>1, <1>4, <2>1, PreparedIsFilmed
  <2>3. Seamless /\ covered.to \in Nat /\ covered.to <= Ends(Len(files))
    BY <1>1, <1>4, <2>1, <2>2, PreparedIsSeamless
  <2>4. source' \in Nat /\ source' < covered.to + K
    BY <1>4, <2>3, DurationFacts
  <2>5. Ends(Len(files)) \in Nat /\ K \in Nat
    BY <1>1, LineFacts, FrameFacts, SpanConstants
  <2>6. source' < Ends(Len(files)) + K
    <3> HIDE DEF covered
    <3> QED
      BY <2>3, <2>4, <2>5
  <2>7. /\ files' = files /\ alive' = alive /\ span' = span /\ clip' = clip /\ failed' = failed
        /\ searching' = "prepared"
    BY <1>4
  <2>8. SpansShape' /\ Sourced'
    BY <2>2, <2>3, <2>4, <2>6, <2>7, LineRests DEF SpansInv, SpansShape, Sourced
  <2>9. ~span'.top /\ clip'.status # "COMPLETE" /\ failed' = "none"
    BY <1>2, <2>7 DEF SpansInv
  <2> QED
    BY <2>7, <2>8, <2>9 DEF SpansInv
<1> QED
  BY <1>3, <1>4 DEF Spans!Prepare

LEMMA ProposeKeeps ==
  ASSUME SpansInv, NEW start \in Proposal, NEW end \in Proposal, NEW at \in Proposal, NEW top \in BOOLEAN,
         Spans!Propose(start, end, at, top)
  PROVE  SpansInv'
<1> USE SpanConstants
<1> DEFINE c == Spans!Clamped(start, end, at)
<1>1. searching = "prepared" /\ Spans!Admissible(start, end, at)
  BY DEF Spans!Propose
<1>2. Sourced /\ ~span.top /\ clip.status # "COMPLETE" /\ failed = "none" /\ source \in Nat
  BY <1>1 DEF SpansInv, SpansShape
<1>3. c.start \in Nat /\ c.end \in Nat /\ c.at \in Nat
  <2> DEFINE from == Spans!Lesser(start, source)
             to == Spans!Greater(from + K, Spans!Lesser(end, source))
             time == Spans!Lesser(Spans!Greater(at, from), to)
  <2>1. start \in Nat /\ end \in Nat /\ at \in Nat
    BY <1>1 DEF Spans!Admissible
  <2>2. from \in Nat
    BY <1>2, <2>1 DEF Spans!Lesser
  <2>3. to \in Nat
    <3> HIDE DEF from
    <3> QED
      BY <1>2, <2>1, <2>2 DEF Spans!Greater, Spans!Lesser
  <2>4. time \in Nat
    <3> HIDE DEF from, to
    <3> QED
      BY <2>1, <2>2, <2>3 DEF Spans!Greater, Spans!Lesser
  <2>5. c = [start |-> Spans!Round(from), end |-> Spans!Round(to), at |-> Spans!Round(time)]
    BY DEF Spans!Clamped
  <2> HIDE DEF from, to, time
  <2>6. Spans!Round(from) \in Nat /\ Spans!Round(to) \in Nat /\ Spans!Round(time) \in Nat
    BY <2>2, <2>3, <2>4, RoundFacts
  <2> QED
    BY <2>5, <2>6
<1>4. \/ Spans!Raise("span") \/ Spans!Raise("scope")
      \/ /\ top => Spans!InScope(c)
         /\ searching' = "proposed" /\ span' = [start |-> c.start, end |-> c.end, at |-> c.at, top |-> top]
         /\ UNCHANGED <<files, alive, source, clip, failed>>
  <2> HIDE DEF c
  <2>1. /\ CASE c.start >= c.end -> Spans!Raise("span")
             [] c.start < c.end /\ top /\ ~Spans!InScope(c) -> Spans!Raise("scope")
             [] OTHER -> /\ searching' = "proposed"
                         /\ span' = [start |-> c.start, end |-> c.end, at |-> c.at, top |-> top]
                         /\ UNCHANGED <<files, alive, source, clip, failed>>
    BY DEF Spans!Propose, c
  <2>2. c.start >= c.end \/ c.start < c.end
    BY <1>3
  <2> QED
    BY <2>1, <2>2
<1>5. CASE Spans!Raise("span") \/ Spans!Raise("scope")
  BY <1>5, RaiseKeeps
<1>6. CASE /\ top => Spans!InScope(c)
           /\ searching' = "proposed" /\ span' = [start |-> c.start, end |-> c.end, at |-> c.at, top |-> top]
           /\ UNCHANGED <<files, alive, source, clip, failed>>
  <2> HIDE DEF c
  <2>1. span' \in Candidates /\ span'.top = top
    BY <1>3, <1>6 DEF Candidates
  <2>2. SpansShape' /\ Sourced'
    BY <1>2, <1>6, <2>1, SourceRests DEF SpansInv, SpansShape
  <2>3. top => Spans!InScope(span)'
    BY <1>6, LineRests DEF Spans!InScope
  <2> QED
    BY <1>2, <1>6, <2>1, <2>2, <2>3 DEF SpansInv
<1> QED
  BY <1>4, <1>5, <1>6

\* What the scope check of a candidate amounts to.
LEMMA ScopedFacts ==
  ASSUME SpansInv, span.top, source >= Spans!ScopeEnd
  PROVE  /\ Line /\ Sourced /\ source \in Nat
         /\ span.start \in Nat /\ span.end \in Nat /\ span.at \in span.start .. span.end
         /\ span.start < span.end /\ span.start * K < span.end * K
         /\ span.start * K \in Nat /\ span.end * K \in Nat
         /\ span.end * K <= Spans!ScopeEnd /\ span.end * K <= source
<1>1. Line /\ Sourced /\ Spans!InScope(span) /\ span \in Candidates /\ source \in Nat
  BY SpansLine DEF SpansInv, SpansShape
<1>2. span.start \in Nat /\ span.end \in Nat
  BY <1>1 DEF Candidates
<1>3. span.start < span.end /\ span.end * K <= Spans!ScopeEnd /\ span.at \in span.start .. span.end
  BY <1>1 DEF Spans!InScope
<1>4. span.start * K \in Nat /\ span.end * K \in Nat /\ span.start * K < span.end * K
  BY <1>2, <1>3, Scaled
<1> QED
  BY <1>1, <1>2, <1>3, <1>4, ScopeFacts

\* Fine looks at a proper part of the source that holds all of the candidate.
LEMMA WindowFacts ==
  ASSUME SpansInv, span.top, source >= Spans!ScopeEnd
  PROVE  /\ Spans!Window.from <= span.start * K /\ span.end * K <= Spans!Window.to
         /\ Spans!Proper(Spans!Window)
<1> USE SpanConstants
<1> DEFINE from == span.start * K
           to == span.end * K
<1>1. /\ from \in Nat /\ to \in Nat /\ from < to /\ to <= source /\ source \in Nat
  BY ScopedFacts
<1>2. Spans!Window = [from |-> Spans!Greater(0, from - Padding), to |-> Spans!Lesser(source, to + Padding)]
  BY DEF Spans!Window
<1> HIDE DEF from, to
<1>3. Spans!Window.from <= from /\ to <= Spans!Window.to /\ Spans!Window.from < Spans!Window.to
  BY <1>1, <1>2 DEF Spans!Greater, Spans!Lesser
<1> QED
  BY <1>3 DEF from, to, Spans!Proper

LEMMA FineKeeps ==
  ASSUME SpansInv, Spans!Verify
  PROVE  SpansInv'
<1>1. CASE Spans!Proper(Spans!Window)
  <2>1. /\ searching = "proposed" /\ searching' = "verified"
        /\ UNCHANGED <<files, alive, source, span, clip, failed>>
    BY <1>1 DEF Spans!Verify
  <2> QED
    BY <2>1, SpansFrame DEF SpansInv, SpansShape
<1>2. CASE ~Spans!Proper(Spans!Window)
  <2>1. ~(span.top /\ source >= Spans!ScopeEnd) /\ Spans!Raise("window")
    BY <1>2, WindowFacts DEF Spans!Verify
  <2> QED
    BY <2>1, RaiseKeeps
<1> QED
  BY <1>1, <1>2

LEMMA ResolveClipKeeps ==
  ASSUME SpansInv, Spans!ResolveClip
  PROVE  SpansInv'
<1>1. CASE ~Spans!Bound
  <2>1. ASSUME span.top, source >= Spans!ScopeEnd PROVE FALSE
    <3>1. span.end \in Nat /\ source \in Nat /\ span.end * K <= source
      BY <2>1, ScopedFacts
    <3>2. span.end <= Spans!Round(source)
      BY <3>1, RoundFacts
    <3> QED
      BY <1>1, <3>2 DEF Spans!Bound
  <2>2. Spans!Raise("binding")
    BY <1>1 DEF Spans!ResolveClip
  <2> QED
    BY <2>1, <2>2, RaiseKeeps
<1>2. CASE Spans!Bound
  <2>1. PICK resolution \in Spans!Resolutions(Spans!Requested) :
           /\ searching' = "resolved" /\ clip' = resolution
           /\ UNCHANGED <<files, alive, source, span, failed>>
    BY <1>2 DEF Spans!ResolveClip
  <2>2. searching = "verified" /\ files' = files /\ span' = span /\ alive \subseteq DOMAIN files
    BY <2>1 DEF Spans!ResolveClip, SpansInv, SpansShape
  <2>3. resolution = Spans!Resolve(Spans!Requested, alive) \/ resolution.status = "FAILED"
    BY DEF Spans!Resolutions, Spans!Failure
  <2>4. resolution.status \in {"COMPLETE", "PARTIAL", "FAILED"}
    BY <2>3, CompleteFacts
  <2>5. clip'.status = "COMPLETE" => ClipTold'
    BY <2>1, <2>2, <2>3, ToldRests
  <2>6. /\ SpansShape' /\ Sourced' = Sourced /\ Spans!InScope(span)' = Spans!InScope(span)
        /\ Spans!ScopeEnd' = Spans!ScopeEnd
    BY <2>1, <2>2, <2>4, LineRests, SourceRests, ToldRests DEF SpansInv, SpansShape
  <2> QED
    BY <2>1, <2>2, <2>5, <2>6 DEF SpansInv
<1> QED
  BY <1>1, <1>2

LEMMA BuildClipKeeps ==
  ASSUME SpansInv, Spans!BuildClip
  PROVE  SpansInv'
<1>1. CASE Spans!Raise("build")
  BY <1>1, RaiseKeeps
<1>2. CASE /\ Spans!Joins(clip.spans)
           /\ searching' = "over" /\ UNCHANGED <<files, alive, source, span, clip, failed>>
  <2>1. Framed
    BY <1>2 DEF Spans!Joins, Framed
  <2>2. searching = "resolved" /\ failed = "none"
    BY DEF Spans!BuildClip, SpansInv
  <2> QED
    BY <1>2, <2>1, <2>2, SpansFrame DEF SpansInv, SpansShape
<1> QED
  BY <1>1, <1>2 DEF Spans!BuildClip

LEMMA SpansNext ==
  ASSUME SpansInv, Spans!Next
  PROVE  SpansInv'
<1>1. CASE \E i \in alive : Spans!Vanish(i)
  BY <1>1, VanishKeeps
<1>2. CASE Spans!Prepare
  BY <1>2, PrepareKeeps
<1>3. CASE \E start, end, at \in Proposal, top \in BOOLEAN : Spans!Propose(start, end, at, top)
  BY <1>3, ProposeKeeps
<1>4. CASE Spans!Verify \/ Spans!ResolveClip \/ Spans!BuildClip
  BY <1>4, FineKeeps, ResolveClipKeeps, BuildClipKeeps
<1> QED
  BY <1>1, <1>2, <1>3, <1>4, Zenon DEF Spans!Next

LEMMA SpansRest ==
  ASSUME SpansInv, UNCHANGED spans
  PROVE  SpansInv'
BY SpansFrame DEF SpansInv, SpansShape, spans

LEMMA SpansBegin == Spans!Init => SpansInv
<1> SUFFICES ASSUME Spans!Init PROVE SpansInv
  OBVIOUS
<1>1. files \in Case /\ alive = DOMAIN files /\ searching = "waiting" /\ source = 0 /\ failed = "none"
      /\ span = Spans!NoSpan /\ clip = Spans!NoClip
  BY DEF Spans!Init
<1>2. Spans!NoSpan \in Candidates /\ ~Spans!NoSpan.top /\ Spans!NoClip.status = "FAILED"
  BY DEF Spans!NoSpan, Candidates, Spans!NoClip, Spans!Failure
<1> QED
  BY <1>1, <1>2 DEF SpansInv, SpansShape

LEMMA SpansImplies == SpansInv => SpansSound
<1> SUFFICES ASSUME SpansInv PROVE SpansSound
  OBVIOUS
<1>1. Line /\ alive \subseteq DOMAIN files
  BY SpansLine DEF SpansInv, SpansShape
<1>2. Spans!ResolutionIsExact
  BY <1>1, ResolutionsExact
<1> DEFINE from == span.start * K
           to == span.end * K
           all == DOMAIN files
<1>3. Spans!Requested = [from |-> from, to |-> to]
  BY DEF Spans!Requested
<1>4. ASSUME span.top, source >= Spans!ScopeEnd
      PROVE  from \in Nat /\ to \in Nat /\ from < to /\ to <= Spans!ScopeEnd /\ Sourced
  BY <1>4, ScopedFacts
<1>5. ASSUME span.top, source >= Spans!ScopeEnd
      PROVE  /\ failed \notin {"window", "binding"}
             /\ Spans!Window.from <= span.start * K /\ span.end * K <= Spans!Window.to
             /\ Spans!Resolve(Spans!Requested, DOMAIN files).status = "COMPLETE"
  <2>1. failed \notin {"window", "binding"}
    BY <1>5 DEF SpansInv
  <2>2. Spans!Window.from <= span.start * K /\ span.end * K <= Spans!Window.to
    BY <1>5, WindowFacts
  <2>3. Spans!Resolve(Spans!Requested, DOMAIN files).status = "COMPLETE"
    <3>1. Filmed
      BY <1>4, <1>5 DEF Sourced
    <3> HIDE DEF from, to
    <3> QED
      BY <1>1, <1>3, <1>4, <1>5, <3>1, FilmedCompletes
  <2> QED
    BY <2>1, <2>2, <2>3
<1>6. ASSUME span.top, source >= Spans!ScopeEnd, clip.status = "COMPLETE"
      PROVE  /\ Spans!Joins(clip.spans) <=> \A s \in clip.spans : Spans!Selected(s) # {}
             /\ searching = "over" /\ failed = "none" =>
                   (Spans!Cardinality(Spans!Hits) = 1 <=> span.at < span.end /\ Begun)
  <2>1. PICK readable \in SUBSET DOMAIN files : clip = Spans!Resolve(Spans!Requested, readable)
    BY <1>6 DEF SpansInv, ClipTold
  <2>2. Filmed /\ Seamless
    BY <1>4, <1>6 DEF Sourced
  <2>3. Spans!Joins(clip.spans) <=> \A s \in clip.spans : Spans!Selected(s) # {}
    <3>1. clip.spans = Spans!Spans([from |-> from, to |-> to], readable)
      BY <1>3, <1>6, <2>1, CompleteFacts
    <3>2. from \in Nat /\ to \in Nat
      BY <1>4, <1>6
    <3> HIDE DEF from, to
    <3>3. Spans!Joins(Spans!Spans([from |-> from, to |-> to], readable))
            <=> \A s \in Spans!Spans([from |-> from, to |-> to], readable) : Spans!Selected(s) # {}
      BY <1>1, <2>2, <3>2, PiecesJoin
    <3> QED
      BY <3>1, <3>3
  <2>4. ASSUME searching = "over", failed = "none"
        PROVE  Spans!Cardinality(Spans!Hits) = 1 <=> span.at < span.end /\ Begun
    <3>1. Spans!ScopeEnd < Ends(Len(files)) + K
      <4>1. source < Ends(Len(files)) + K /\ source \in Nat
        BY <1>4, <1>6 DEF Sourced, SpansInv, SpansShape
      <4>2. Ends(Len(files)) \in Nat /\ K \in Nat /\ Spans!ScopeEnd \in Nat
        BY <1>1, LineFacts, FrameFacts, SpanConstants, ScopeFacts
      <4> QED
        BY <1>6, <4>1, <4>2
    <3>2. /\ span \in Candidates /\ span.start < span.end /\ span.at \in span.start .. span.end
          /\ span.end * K <= Spans!ScopeEnd
      BY <1>6, ScopedFacts DEF SpansInv, SpansShape
    <3>3. \A s \in clip.spans : Spans!Selected(s) # {}
      BY <2>4 DEF SpansInv, Framed
    <3> QED
      BY <1>1, <1>6, <2>1, <2>2, <3>1, <3>2, <3>3, HitsFacts DEF Candidates
  <2> QED
    BY <2>3, <2>4
<1>7. Spans!ClipFits
  BY <1>6, Zenon DEF Spans!ClipFits, Begun
<1>8. Spans!ScopedCandidateWorks
  BY <1>5, Zenon DEF Spans!ScopedCandidateWorks
<1> QED
  BY <1>2, <1>7, <1>8, Zenon DEF SpansSound, Spans!SpansSound

LEMMA SpansGoOn == Spec => []SpansInv
<1>1. Init => SpansInv
  BY SpansBegin DEF Init
<1>2. SpansInv /\ [Next]_vars => SpansInv'
  <2> SUFFICES ASSUME SpansInv, [Next]_vars PROVE SpansInv'
    OBVIOUS
  <2> QED
    BY OthersRest, SpansNext, SpansRest DEF SpansStep
<1> QED
  BY <1>1, <1>2, PTL DEF Spec

\* A candidate within the scope of the search works, for any files and frames that
\* reach to the end of the scope: Fine sees all of it, its clip is complete while
\* the files are there and can be built if each piece of it holds a frame, and one
\* file shows its time once a frame of it has begun.
THEOREM SpansAreSound == Spec => []SpansSound
BY SpansGoOn, SpansImplies, PTL

-----------------------------------------------------------------------------
(* Types.  What the inductive invariants leave out are the bounds, each    *)
(* kept by the guard of the actions that count.                            *)

ExportsBounded == Len(exporting.jobs) <= MaxJobs

LEMMA ExportsStayBounded ==
  ASSUME ExportsBounded, Exports!Next
  PROVE  ExportsBounded'
<1>1. CASE \E i \in DOMAIN exec : \E ending \in Exports!Ending : Exports!Execute(i, ending)
  BY <1>1 DEF Exports!Execute, ExportsBounded
<1>2. CASE \E c : Exports!Finish(c)
  <2>1. PICK c : Exports!Save(c)
    BY <1>2 DEF Exports!Finish
  <2> QED
    BY <2>1 DEF Exports!Save, ExportsBounded
<1> QED
  BY <1>1, <1>2 DEF Exports!Next, Exports!ReadoutArrives, Exports!Reflect, Exports!RecordSituationResponse,
     Exports!EditEventTime, Exports!SelectOther, Exports!Generate

LEMMA ExportsTyped == Spec => []Exports!ExportTypeOK
<1>1. Init => ExportsBounded
  <2> SUFFICES ASSUME Init PROVE ExportsBounded
    OBVIOUS
  <2>1. exporting.jobs = <<>>
    BY DEF Init, Exports!Init
  <2> QED
    BY <2>1, PartsAssumption DEF PartsAssumption, Exports!ExportAssumption, ExportsBounded
<1>2. ExportsBounded /\ [Next]_vars => ExportsBounded'
  BY ExportsStayBounded, OthersRest DEF ExportsStep, exports, ExportsBounded
<1>3. ExportsInv /\ ExportsBounded => Exports!ExportTypeOK
  <2> SUFFICES ASSUME ExportsInv, ExportsBounded PROVE Exports!ExportTypeOK
    OBVIOUS
  <2>1. /\ exporting \in Reviewed /\ exec \in Seq(Outcome)
        /\ Len(exporting.settled) = Len(exporting.jobs) /\ Len(exec) = Len(exporting.jobs)
    BY DEF ExportsInv
  <2>2. /\ exporting.jobs \in Seq(Order) /\ exporting.settled \in Seq(Answer)
        /\ exporting.selected \in Candidate /\ exporting.time \in Counted
        /\ exporting.responded \in BOOLEAN /\ exporting.observed \subseteq Candidate
        /\ exporting.plate \in [Candidate -> Frame \cup {"none"}]
        /\ exporting.stage \in {"EVIDENCE_REVIEW", "READY"}
    BY <2>1 DEF Reviewed
  <2>3. /\ DOMAIN exporting.jobs = 1 .. Len(exporting.jobs)
        /\ DOMAIN exporting.settled = DOMAIN exporting.jobs /\ DOMAIN exec = DOMAIN exporting.jobs
    BY <2>1, <2>2
  <2>4. ASSUME NEW i \in DOMAIN exporting.jobs
        PROVE  /\ exporting.jobs[i].kind \in Exports!Kind
               /\ exporting.settled[i] \in {"waiting", "REFLECTED", "SUPERSEDED"}
               /\ exec[i] \in Exports!Ending \cup {"queued"}
    <3>1. exporting.jobs[i] \in Order /\ exporting.settled[i] \in Answer /\ exec[i] \in Outcome
      BY <2>1, <2>2, <2>3
    <3> QED
      BY <3>1 DEF Order, Answer, Outcome, Exports!Kind, Exports!Ending
  <2> QED
    BY <2>2, <2>3, <2>4 DEF Exports!ExportTypeOK, ExportsBounded, Counted
<1> QED
  BY <1>1, <1>2, <1>3, ExportsGoOn, PTL DEF Spec

EvidenceBounded ==
    /\ reviewing.rev \in 1 .. MaxRev /\ Len(reviewing.log) <= MaxLog
    /\ \A i \in 1 .. Len(reviewing.log) : reviewing.log[i].rev \in 1 .. MaxRev
    /\ seen \in Evidence!Observation

\* A step stores what it was to store, or leaves the case as it is.
LEMMA EvidenceStaysBounded ==
  ASSUME EvidenceInv, EvidenceBounded, Evidence!Next
  PROVE  EvidenceBounded'
<1>1. reviewing \in Corrections
  BY DEF EvidenceInv, Chained
<1>2. /\ reviewing.log \in Seq(Correction) /\ reviewing.rev \in Nat
      /\ reviewing = [selected |-> reviewing.selected, rev |-> reviewing.rev, response |-> reviewing.response,
                      about |-> reviewing.about, log |-> reviewing.log]
  BY <1>1 DEF Corrections
<1>3. ASSUME NEW c, NEW o \in Evidence!Observation, Evidence!Store(c, o),
             c.rev \in 1 .. MaxRev, Len(c.log) <= MaxLog,
             \A i \in 1 .. Len(c.log) : c.log[i].rev \in 1 .. MaxRev
      PROVE  EvidenceBounded'
  <2>1. reviewing' \in {reviewing, c} /\ seen' \in {seen, o}
    BY <1>3 DEF Evidence!Store
  <2> QED
    BY <1>3, <2>1 DEF EvidenceBounded
<1>4. ASSUME NEW t, NEW v, Evidence!MayCorrect(t, v), NEW c, Evidence!Store(c, seen),
             c.rev = Evidence!WithCorrection(t, v).rev, c.log = Evidence!WithCorrection(t, v).log
      PROVE  EvidenceBounded'
  <2> DEFINE new == [rev |-> reviewing.rev, target |-> t, previous |-> Evidence!PreviousValue(t), new |-> v,
                     supersedes |-> Evidence!ChainHead(reviewing, t)]
             log == Append(reviewing.log, new)
  <2>1. c.rev = reviewing.rev /\ c.log = log
    BY <1>2, <1>4 DEF Evidence!WithCorrection
  <2>2. Len(reviewing.log) < MaxLog
    BY <1>4 DEF Evidence!MayCorrect
  <2>3. /\ Len(log) = Len(reviewing.log) + 1
        /\ \A i \in 1 .. Len(log) : log[i] = IF i <= Len(reviewing.log) THEN reviewing.log[i] ELSE new
    BY <1>2
  <2>4. MaxLog \in Nat /\ MaxRev \in Nat /\ Len(reviewing.log) \in Nat
    BY <1>2, PartsAssumption DEF PartsAssumption, Evidence!EvidenceAssumption
  <2> HIDE DEF log
  <2>5. Len(log) <= MaxLog /\ \A i \in 1 .. Len(log) : log[i].rev \in 1 .. MaxRev
    BY <2>2, <2>3, <2>4 DEF EvidenceBounded
  <2> QED
    BY <1>3, <1>4, <2>1, <2>5 DEF EvidenceBounded
<1>5. CASE \E o \in Evidence!Observation : Evidence!Observe(o)
  BY <1>3, <1>5 DEF Evidence!Observe, EvidenceBounded
<1>6. CASE \E o \in Evidence!Observation, c \in Candidate : Evidence!SelectOtherCandidate(c, o)
  <2>1. PICK o \in Evidence!Observation, c \in Candidate :
          reviewing.rev < MaxRev /\ Evidence!Store(Evidence!Reselected(c), o)
    BY <1>6 DEF Evidence!SelectOtherCandidate
  <2>2. /\ Evidence!Reselected(c).rev = reviewing.rev + 1
        /\ Evidence!Reselected(c).log = reviewing.log
    BY <1>2 DEF Evidence!Reselected
  <2>3. MaxRev \in Nat
    BY PartsAssumption DEF PartsAssumption, Evidence!EvidenceAssumption
  <2>4. Evidence!Reselected(c).rev \in 1 .. MaxRev
    BY <1>2, <2>1, <2>2, <2>3
  <2> QED
    BY <1>3, <2>1, <2>2, <2>4 DEF EvidenceBounded
<1>7. CASE \E t, v : Evidence!Edit(t, v)
  BY <1>4, <1>7 DEF Evidence!Edit
<1>8. CASE \E value : Evidence!RecordSituationResponse(value)
  <2>1. PICK value :
          Evidence!Store([reviewing EXCEPT !.response = value, !.about = reviewing.selected], seen)
    BY <1>8 DEF Evidence!RecordSituationResponse
  <2> DEFINE c == [reviewing EXCEPT !.response = value, !.about = reviewing.selected]
  <2>2. c.rev = reviewing.rev /\ c.log = reviewing.log
    BY <1>2
  <2> HIDE DEF c
  <2> QED
    BY <1>3, <2>1, <2>2 DEF EvidenceBounded, c
<1>9. CASE \E type \in Type : Evidence!CorrectSituation(type)
  <2>1. PICK type \in Type :
          /\ Evidence!MayCorrect("event.visual_event_type", type)
          /\ Evidence!Store([Evidence!WithCorrection("event.visual_event_type", type) EXCEPT
                !.response = "CORRECTED", !.about = reviewing.selected], seen)
    BY <1>9 DEF Evidence!CorrectSituation
  <2> DEFINE c == [Evidence!WithCorrection("event.visual_event_type", type) EXCEPT
                !.response = "CORRECTED", !.about = reviewing.selected]
  <2>2. /\ c.rev = Evidence!WithCorrection("event.visual_event_type", type).rev
        /\ c.log = Evidence!WithCorrection("event.visual_event_type", type).log
    BY <1>2 DEF Evidence!WithCorrection
  <2>3. Evidence!Store(c, seen)
    BY <2>1
  <2> HIDE DEF c
  <2> QED
    BY <1>4, <2>1, <2>2, <2>3
<1> QED
  BY <1>5, <1>6, <1>7, <1>8, <1>9 DEF Evidence!Next

LEMMA EvidenceTyped == Spec => []Evidence!EvidenceTypeOK
<1>1. Init => EvidenceBounded
  <2> SUFFICES ASSUME Evidence!Init PROVE EvidenceBounded
    BY DEF Init
  <2>1. reviewing.rev = 1 /\ reviewing.log = <<>> /\ seen = Evidence!Nothing("pending")
    BY DEF Evidence!Init
  <2>2. seen \in Evidence!Observation
    BY <2>1 DEF Evidence!Observation
  <2> QED
    BY <2>1, <2>2, PartsAssumption DEF PartsAssumption, Evidence!EvidenceAssumption, EvidenceBounded
<1>2. EvidenceBounded /\ UNCHANGED evidence => EvidenceBounded'
  BY DEF evidence, EvidenceBounded, Evidence!Observation, Evidence!Nothing
<1>3. EvidenceInv /\ EvidenceBounded /\ [Next]_vars => EvidenceBounded'
  BY <1>2, EvidenceStaysBounded, OthersRest DEF EvidenceStep
<1>4. EvidenceInv /\ EvidenceBounded => Evidence!EvidenceTypeOK
  <2> SUFFICES ASSUME EvidenceInv, EvidenceBounded PROVE Evidence!EvidenceTypeOK
    OBVIOUS
  <2>1. /\ reviewing \in Corrections
        /\ \A i \in 1 .. Len(reviewing.log) : reviewing.log[i].supersedes \in 0 .. i - 1
        /\ fault \in BOOLEAN
    BY DEF EvidenceInv, Chained
  <2>2. /\ reviewing.log \in Seq(Correction) /\ reviewing.selected \in Candidate
        /\ reviewing.about \in Candidate /\ reviewing.response \in Evidence!Answer \cup {"none"}
    BY <2>1 DEF Corrections
  <2>3. /\ DOMAIN reviewing.log = 1 .. Len(reviewing.log)
        /\ \A i \in DOMAIN reviewing.log : reviewing.log[i] \in Correction
    BY <2>2
  <2>4. \A i \in DOMAIN reviewing.log : reviewing.log[i].target \in Evidence!Target
    BY <2>3 DEF Correction
  <2> QED
    BY <2>1, <2>2, <2>3, <2>4 DEF EvidenceBounded, Evidence!EvidenceTypeOK
<1> QED
  BY <1>1, <1>3, <1>4, EvidenceGoesOn, PTL DEF Spec

MediaBounded == changes <= MaxFileChanges /\ calls \in 0 .. MaxVideoCalls

LEMMA MediaStaysBounded ==
  ASSUME MediaInv, MediaBounded, Media!Next
  PROVE  MediaBounded'
<1>1. changes \in Nat /\ MaxFileChanges \in Nat /\ MaxVideoCalls \in Nat
  BY PartsAssumption DEF PartsAssumption, Media!MediaAssumption, MediaInv, MediaShape
<1>2. CASE \E s \in Source : Media!Change(s)
  BY <1>1, <1>2 DEF Media!Change, MediaBounded
<1>3. CASE \E w \in Worker, r \in Wanted : Media!BeginAnalysis(w, r) \/ Media!BeginClip(w, r)
  <2>1. calls < MaxVideoCalls /\ calls' = calls + 1 /\ changes' = changes
    BY <1>3 DEF Media!BeginAnalysis, Media!BeginClip, Media!Asks
  <2> QED
    BY <1>1, <2>1 DEF MediaBounded
<1>4. CASE \E w \in Worker : \/ Media!TakeSnapshot(w) \/ Media!Probe(w) \/ Media!Encode(w)
                             \/ Media!Verify(w) \/ Media!Join(w)
  BY <1>4 DEF Media!TakeSnapshot, Media!Probe, Media!Encode, Media!Verify, Media!Join, MediaBounded
<1>5. CASE \E w \in Worker : \/ Media!PutMedia(w) \/ Media!Compare(w) \/ Media!PutPiece(w)
                             \/ Media!PutManifest(w) \/ Media!Link(w) \/ Media!Commit(w)
  BY <1>5 DEF Media!PutMedia, Media!Compare, Media!PutPiece, Media!PutManifest, Media!Link, Media!Commit,
     MediaBounded
<1>6. CASE \E w \in Worker : Media!Retry(w) \/ Media!Fail(w) \/ Media!End(w)
  BY <1>6 DEF Media!Retry, Media!Fail, Media!End, MediaBounded
<1>7. CASE (\E h \in given : Media!Open(h.name)) \/ Media!ReadPiece \/ Media!Close
  BY <1>7 DEF Media!Open, Media!ReadPiece, Media!Close, MediaBounded
<1> QED
  BY <1>2, <1>3, <1>4, <1>5, <1>6, <1>7 DEF Media!Next

LEMMA MediaTyped == Spec => []Media!MediaTypeOK
<1>1. Init => MediaBounded
  <2> SUFFICES ASSUME Media!Init PROVE MediaBounded
    BY DEF Init
  <2>1. changes = 0 /\ calls = 0
    BY DEF Media!Init
  <2> QED
    BY <2>1, PartsAssumption DEF PartsAssumption, Media!MediaAssumption, MediaBounded
<1>2. MediaInv /\ MediaBounded /\ [Next]_vars => MediaBounded'
  <2> SUFFICES ASSUME MediaInv, MediaBounded, [Next]_vars PROVE MediaBounded'
    OBVIOUS
  <2>1. CASE UNCHANGED media
    BY <2>1 DEF media, MediaBounded
  <2> QED
    BY <2>1, MediaStaysBounded, OthersRest DEF MediaStep
<1>3. MediaInv /\ MediaBounded => Media!MediaTypeOK
  <2> SUFFICES ASSUME MediaInv, MediaBounded PROVE Media!MediaTypeOK
    OBVIOUS
  <2>1. MediaShape /\ FilesAged /\ PreparedHanded
    BY DEF MediaInv
  <2>2. ASSUME NEW s \in Source
        PROVE  recordings[s] \in [content : {"recorded", "other"}, mtime : 0 .. MaxFileChanges,
                                  inode : 0 .. MaxFileChanges]
    <3>1. recordings[s] \in Snapshot /\ recordings[s].mtime <= changes /\ recordings[s].inode <= changes
      BY <2>1 DEF MediaShape, FilesAged, Aged
    <3>2. changes \in Nat /\ changes <= MaxFileChanges /\ MaxFileChanges \in Nat
      BY <2>1, PartsAssumption DEF PartsAssumption, Media!MediaAssumption, MediaShape, MediaBounded
    <3> QED
      BY <3>1, <3>2 DEF Snapshot
  <2>3. ASSUME NEW w \in Worker
        PROVE  /\ asking[w].step \in {"idle", "snapshot", "probe", "encode", "verify", "join", "publish"}
               /\ tx[w].step \in {"none", "compare", "content", "link", "commit"}
               /\ \A name \in prepared[w] : [name |-> name, to |-> w] \in given
    <3>1. asking[w] \in Cutting /\ tx[w] \in {Media!NoTx} \cup Transaction
      BY <2>1 DEF MediaShape
    <3>2. asking[w].step \in {"idle", "snapshot", "probe", "encode", "verify", "join", "publish"}
      BY <3>1 DEF Cutting
    <3>3. tx[w].step \in {"none", "compare", "content", "link", "commit"}
      BY <3>1 DEF Transaction, Media!NoTx
    <3> QED
      BY <2>1, <3>2, <3>3 DEF PreparedHanded
  <2>4. /\ changes \in 0 .. MaxFileChanges /\ calls \in 0 .. MaxVideoCalls
        /\ reading.step \in {"idle", "open", "unavailable"}
    BY <2>1, PartsAssumption DEF PartsAssumption, Media!MediaAssumption, MediaShape, MediaBounded
  <2> QED
    BY <2>2, <2>3, <2>4 DEF Media!MediaTypeOK
<1> QED
  BY <1>1, <1>2, <1>3, MediaGoesOn, PTL DEF Spec

Statuses == {"not yet", "no result", "OK", "NEEDS_REVIEW", "UNKNOWN"}

ReadoutBounded ==
    /\ looked \in 0 .. MaxSamples /\ begin \in 0 .. Unit - 1 /\ gap \in Gap
    /\ result.status \in Statuses

LEMMA ReadoutStaysBounded ==
  ASSUME ReadoutBounded, Reading!Next
  PROVE  ReadoutBounded'
<1>1. CASE Reading!RunFails
  <2>1. MaxSamples \in Nat
    BY PartsAssumption DEF PartsAssumption, Reading!ReadoutAssumption
  <2>2. looked' = 0 /\ UNCHANGED <<begin, gap>> /\ result'.status \in Statuses
    BY <1>1 DEF Reading!RunFails, Reading!Failed, Statuses
  <2> QED
    BY <1>1, <2>1, <2>2 DEF ReadoutBounded
<1>2. CASE \E frame \in Reading!Frames : Reading!ReadPlate(frame)
  BY <1>2 DEF Reading!ReadPlate, ReadoutBounded
<1>3. CASE Reading!LookForTime
  <2>1. MaxSamples \in Nat
    BY PartsAssumption DEF PartsAssumption, Reading!ReadoutAssumption
  <2>2. looked < MaxSamples /\ looked' = looked + 1 /\ UNCHANGED <<begin, gap, result>>
    BY <1>3 DEF Reading!LookForTime
  <2> QED
    BY <2>1, <2>2 DEF ReadoutBounded
<1>4. CASE Reading!PlateRead
  <2>1. UNCHANGED <<looked, begin, gap>> /\ result'.status \in Statuses
    BY <1>4 DEF Reading!PlateRead, Statuses
  <2> QED
    BY <2>1 DEF ReadoutBounded
<1>5. CASE Reading!TimeRead
  <2>1. UNCHANGED <<looked, begin, gap>> /\ result'.status \in Statuses
    BY <1>5 DEF Reading!TimeRead, Statuses
  <2> QED
    BY <2>1 DEF ReadoutBounded
<1> QED
  BY <1>1, <1>2, <1>3, <1>4, <1>5 DEF Reading!Next

LEMMA ReadoutTyped == Spec => []Reading!ReadoutTypeOK
<1>1. Init => ReadoutBounded
  <2> SUFFICES ASSUME Reading!Init PROVE ReadoutBounded
    BY DEF Init
  <2>1. looked = 0 /\ begin \in 0 .. Unit - 1 /\ gap \in Gap /\ result.status \in Statuses
    BY DEF Reading!Init, Reading!NotYet, Statuses
  <2> QED
    BY <2>1, PartsAssumption DEF PartsAssumption, Reading!ReadoutAssumption, ReadoutBounded
<1>2. ReadoutBounded /\ [Next]_vars => ReadoutBounded'
  <2> SUFFICES ASSUME ReadoutBounded, [Next]_vars PROVE ReadoutBounded'
    OBVIOUS
  <2>1. CASE UNCHANGED readout
    BY <2>1 DEF readout, ReadoutBounded
  <2> QED
    BY <2>1, ReadoutStaysBounded, OthersRest DEF ReadoutStep
<1>3. ReadoutInv /\ ReadoutBounded => Reading!ReadoutTypeOK
  <2> SUFFICES ASSUME ReadoutInv, ReadoutBounded PROVE Reading!ReadoutTypeOK
    OBVIOUS
  <2>1. kind \in {"PLATE_READ", "OVERLAY_TIME_READ"}
    BY DEF ReadoutInv, ReadoutShape
  <2>2. \A i \in DOMAIN readings :
          readings[i] \in IF kind = "PLATE_READ" THEN Reading!Frames ELSE Reading!Samples
    <3>1. CASE kind = "PLATE_READ"
      <4>1. readings \in Seq(Reading!Frames)
        BY <3>1 DEF ReadoutInv, ReadoutShape
      <4> HIDE DEF Reading!Frames
      <4> QED
        BY <3>1, <4>1
    <3>2. CASE kind = "OVERLAY_TIME_READ"
      <4>1. readings \in Seq(Reading!Samples)
        BY <3>2 DEF ReadoutInv, ReadoutShape, Moments, Reading!Samples
      <4> QED
        BY <3>2, <4>1
    <3> QED
      BY <2>1, <3>1, <3>2
  <2> QED
    BY <2>1, <2>2 DEF ReadoutBounded, Reading!ReadoutTypeOK, Statuses
<1> QED
  BY <1>1, <1>2, <1>3, ReadoutGoesOn, PTL DEF Spec

LEMMA FramesTyped == Spec => []Frames!AdmissionTypeOK
<1>1. FrameProofs!IInv => Frames!AdmissionTypeOK
  BY DEF FrameProofs!IInv, FrameProofs!AdmissionTypeOK, Frames!AdmissionTypeOK
<1> QED
  BY <1>1, FramesGoOn, PTL

LEMMA RegisterTyped == Spec => []Register!RegisterTypeOK
<1>1. RegisterProofs!IInv => Register!RegisterTypeOK
  BY DEF RegisterProofs!IInv, RegisterProofs!Typed, RegisterProofs!RegisterTypeOK, Register!RegisterTypeOK,
     RegisterProofs!Ref, Register!Ref, RegisterProofs!NoRef, Register!NoRef, RegisterProofs!Nobody,
     Register!Nobody, RegisterProofs!Looking, Register!Looking, RegisterProofs!AtRest, Register!AtRest
<1> QED
  BY <1>1, RegisterGoesOn, PTL

LEMMA ReleasesTyped == Spec => []Host!DeploymentTypeOK
<1>1. HostProofs!IInv => Host!DeploymentTypeOK
  BY DEF HostProofs!IInv, HostProofs!Typed, HostProofs!DeploymentTypeOK, Host!DeploymentTypeOK,
     HostProofs!Release, Host!Release, HostProofs!None, Host!None, HostProofs!Torn, Host!Torn,
     HostProofs!Revision, Host!Revision, HostProofs!Journal, Host!Journal
<1> QED
  BY <1>1, ReleasesGoOn, PTL

LEMMA SpansTyped == Spec => []Spans!SpansTypeOK
<1>1. SpansInv => Spans!SpansTypeOK
  BY DEF SpansInv, SpansShape, Candidates, Spans!SpansTypeOK
<1> QED
  BY <1>1, SpansGoOn, PTL

LEMMA BackupTyped == Spec => []Dumps!BackupTypeOK
<1>1. BackupInv => Dumps!BackupTypeOK
  <2> SUFFICES ASSUME BackupShape PROVE Dumps!BackupTypeOK
    BY DEF BackupInv
  <2>1. \A d \in Copy : Dumps!State(d) /\ DOMAIN d.heads = 1 .. 3
    BY DEF Copy, Dumps!State
  <2>2. db \in Copy /\ artifact.content \in Copy
    BY DEF BackupShape, Archive
  <2>3. ASSUME NEW c \in Call
        PROVE  /\ cli[c].step \in {"idle", "check", "exec", "pack", "passed"} /\ cli[c].output \in Copy
               /\ script[c].step \in {"none", "start", "target", "import", "importing", "heads", "dump",
                                      "done"}
               /\ script[c].input \in Copy
    <3>1. cli[c] \in Calling /\ script[c] \in Script
      BY DEF BackupShape
    <3> QED
      BY <3>1 DEF Calling, Script
  <2> QED
    BY <2>1, <2>2, <2>3 DEF BackupShape, Dumps!BackupTypeOK
<1> QED
  BY <1>1, BackupGoesOn, PTL

\* Every component keeps its types and its bounds, for all values of the constants.
THEOREM PartsTypeOK == Spec => []TypeOK
<1>1. HeartInv => Clock!ClockTypeOK
  BY DEF HeartInv
<1>2. FlowInv => Client!FlowTypeOK
  BY DEF FlowInv
<1>3. Frames!AdmissionTypeOK /\ Clock!ClockTypeOK /\ Exports!ExportTypeOK /\ Evidence!EvidenceTypeOK
        /\ Spans!SpansTypeOK /\ Reading!ReadoutTypeOK /\ Client!FlowTypeOK /\ Register!RegisterTypeOK
        /\ Media!MediaTypeOK /\ Dumps!BackupTypeOK /\ Host!DeploymentTypeOK => TypeOK
  BY DEF TypeOK
<1> QED
  BY <1>1, <1>2, <1>3, HeartBeats, ViewFlows, FramesTyped, ExportsTyped, EvidenceTyped, SpansTyped,
     ReadoutTyped, RegisterTyped, MediaTyped, BackupTyped, ReleasesTyped, PTL
=============================================================================
