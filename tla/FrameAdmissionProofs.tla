------------------------ MODULE FrameAdmissionProofs -------------------------
(* The bound on frame reads, for any number of requests and of permits.    *)
EXTENDS FrameAdmission, FiniteSetTheorems, TLAPS

\* Who holds a permit: an admitted coroutine, or a read it has left behind.
Holders == {r \in Request : stage[r] \in {"admitted", "reading"} \/ read[r] = "orphan"}

\* What the coroutine and the task of a request may be doing at the same time.
InStep ==
    \A r \in Request :
        /\ stage[r] \in {"idle", "waiting", "admitted"} => read[r] = "none"
        /\ stage[r] = "reading" => read[r] \in {"running", "ended"}
        /\ stage[r] = "closed" => read[r] \in {"none", "orphan", "ended"}

\* The inductive invariant.  Without InStep a permit could be counted for a
\* coroutine and once more for its task.
IInv == AdmissionTypeOK /\ InStep /\ permits + Cardinality(Holders) = Concurrency

LEMMA HoldersFinite ==
  ASSUME IsFiniteSet(Request)
  PROVE  IsFiniteSet(Holders) /\ Cardinality(Holders) \in Nat
  BY FS_Subset, FS_CardinalityType DEF Holders

\* Every reader holds a permit, so the books bound the reads.
LEMMA HoldersBound ==
  ASSUME AdmissionAssumption, IsFiniteSet(Request), IInv
  PROVE  ReadsBounded
<1>1. Reads \subseteq Holders /\ Reads \cup Admitted = Holders
  BY DEF IInv, InStep, AdmissionTypeOK, Reads, Admitted, Holders
<1>2. Cardinality(Reads) <= Cardinality(Holders) /\ Cardinality(Reads) \in Nat
  BY <1>1, HoldersFinite, FS_Subset, FS_CardinalityType
<1> QED
  BY <1>1, <1>2, HoldersFinite DEF ReadsBounded, IInv, AdmissionTypeOK, AdmissionAssumption

LEMMA InitIInv ==
  ASSUME AdmissionAssumption, Init
  PROVE  IInv
<1>1. AdmissionTypeOK /\ InStep
  BY DEF Init, AdmissionTypeOK, InStep, AdmissionAssumption
<1>2. Holders = {}
  BY DEF Init, Holders
<1> QED
  BY <1>1, <1>2, FS_EmptySet DEF Init, IInv, AdmissionAssumption

LEMMA NextIInv ==
  ASSUME AdmissionAssumption, IsFiniteSet(Request), IInv, [Next]_vars
  PROVE  IInv'
<1> USE DEF IInv
<1>1. AdmissionTypeOK' /\ InStep'
  <2>1. CASE UNCHANGED vars
    BY <2>1 DEF AdmissionTypeOK, InStep, vars
  <2>2. ASSUME NEW r \in Request, Arrive(r) \/ Acquire(r) \/ StartRead(r)
        PROVE  AdmissionTypeOK' /\ InStep'
    BY <2>2 DEF AdmissionTypeOK, InStep, Arrive, Acquire, StartRead
  <2>3. ASSUME NEW r \in Request, Respond(r) \/ Leave(r)
        PROVE  AdmissionTypeOK' /\ InStep'
    BY <2>3 DEF AdmissionTypeOK, InStep, Respond, Leave, Release
  <2>4. ASSUME NEW r \in Request, EndRead(r)
        PROVE  AdmissionTypeOK' /\ InStep'
    BY <2>4 DEF AdmissionTypeOK, InStep, EndRead
  <2> QED
    BY <2>1, <2>2, <2>3, <2>4 DEF Next
<1>2. permits' + Cardinality(Holders') = Concurrency
  <2> USE DEF AdmissionTypeOK
  <2>1. IsFiniteSet(Holders) /\ Cardinality(Holders) \in Nat
    BY HoldersFinite
  <2>2. CASE UNCHANGED vars
    <3>1. Holders' = Holders /\ permits' = permits
      BY <2>2 DEF Holders, vars
    <3> QED
      BY <3>1
  <2>3. ASSUME NEW r \in Request, Arrive(r) \/ StartRead(r)
        PROVE  permits' + Cardinality(Holders') = Concurrency
    <3>1. Holders' = Holders /\ permits' = permits
      BY <2>3 DEF Holders, InStep, Arrive, StartRead
    <3> QED
      BY <3>1
  <2>4. ASSUME NEW r \in Request, Acquire(r)
        PROVE  permits' + Cardinality(Holders') = Concurrency
    <3>1. r \notin Holders /\ Holders' = Holders \cup {r} /\ permits' = permits - 1
      BY <2>4 DEF Holders, InStep, Acquire
    <3>2. Cardinality(Holders \cup {r}) = Cardinality(Holders) + 1
      BY <2>1, <3>1, FS_AddElement
    <3> QED
      BY <2>1, <3>1, <3>2
  <2>5. ASSUME NEW r \in Request, Respond(r) \/ Leave(r) \/ EndRead(r)
        PROVE  permits' + Cardinality(Holders') = Concurrency
    <3>1. \/ Holders' = Holders /\ permits' = permits
          \/ r \in Holders /\ Holders' = Holders \ {r} /\ permits' = permits + 1
      <4>1. CASE Respond(r)
        BY <4>1 DEF Holders, InStep, Respond, Release
      <4>2. CASE Leave(r)
        BY <4>2 DEF Holders, InStep, Leave, Release
      <4>3. CASE EndRead(r)
        BY <4>3 DEF Holders, InStep, EndRead
      <4> QED
        BY <2>5, <4>1, <4>2, <4>3
    <3>2. CASE Holders' = Holders /\ permits' = permits
      BY <3>2
    <3>3. CASE r \in Holders /\ Holders' = Holders \ {r} /\ permits' = permits + 1
      <4>1. Cardinality(Holders \ {r}) = Cardinality(Holders) - 1
        BY <2>1, <3>3, FS_RemoveElement
      <4> QED
        BY <2>1, <3>3, <4>1
    <3> QED
      BY <3>1, <3>2, <3>3
  <2> QED
    BY <2>2, <2>3, <2>4, <2>5 DEF Next
<1> QED
  BY <1>1, <1>2

\* api/frame_lifetime.py: however many clients come and leave, reads that go on
\* after their client count, and every permit is held or free.
THEOREM ReadsAreBounded ==
  ASSUME AdmissionAssumption, IsFiniteSet(Request)
  PROVE  Spec => []ReadsBounded
<1>1. Init => IInv
  BY InitIInv
<1>2. IInv /\ [Next]_vars => IInv'
  BY NextIInv
<1>3. IInv => ReadsBounded
  BY HoldersBound
<1> QED
  BY <1>1, <1>2, <1>3, PTL DEF Spec
=============================================================================
