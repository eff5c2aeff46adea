----------------------- MODULE RecordingRegisterProofs -----------------------
(* One frame per position and one observation per source, for any number   *)
(* of executions, positions, decoders and calls.                           *)
EXTENDS RecordingRegister, TLAPS

Steps == {"idle", "conflict", "decoded", "issuing"}
Call == [step : Steps, at : Position \cup {0}, image : Image \cup {"none"},
         ref : Ref \cup {NoRef}, calls : 0 .. MaxCalls]

Typed ==
    /\ RegisterTypeOK
    /\ reader \in [Reader -> Call]
    /\ handed \subseteq [ref : Ref, at : Position, image : Image]

\* A call in progress knows its position and its image; once it issues, its ref.
CallsKnow ==
    \A r \in Reader :
        /\ reader[r].step \in {"decoded", "issuing"} =>
              /\ reader[r].at \in Position /\ reader[r].image \in Image
              /\ reader[r].calls \in 1 .. MaxCalls
        /\ reader[r].step = "issuing" => reader[r].ref \in Ref

\* The two rows of a frame name each other.
NamesAreFrames ==
    \A p \in Position : named[p] # NoRef => named[p] \in DOMAIN frames /\ frames[named[p]].at = p

HandedAreFrames ==
    \A f \in handed : f.ref \in DOMAIN frames /\ frames[f.ref] = [at |-> f.at, image |-> f.image]

\* The inductive invariant.  That a position has one frame follows from rows
\* that name each other; a frame nobody names could be handed out beside another.
IInv == Typed /\ CallsKnow /\ NamesAreFrames /\ FramesAreNamed /\ HandedAreFrames /\ ObserversAgree

LEMMA NoRefIsNone == NoRef \notin Ref
  BY DEF NoRef, Ref

LEMMA InvImplies ==
  ASSUME IInv
  PROVE  RegisterSound
<1>1. ASSUME NEW f \in handed, NEW g \in handed, f.at = g.at
      PROVE  f = g
  <2>1. f \in [ref : Ref, at : Position, image : Image] /\ g \in [ref : Ref, at : Position, image : Image]
    BY DEF IInv, Typed
  <2>2. /\ f.ref \in DOMAIN frames /\ frames[f.ref] = [at |-> f.at, image |-> f.image]
        /\ g.ref \in DOMAIN frames /\ frames[g.ref] = [at |-> g.at, image |-> g.image]
    BY Zenon DEF IInv, HandedAreFrames
  <2>3. named[frames[f.ref].at] = f.ref /\ named[frames[g.ref].at] = g.ref
    BY <2>2, Zenon DEF IInv, FramesAreNamed
  <2> QED
    BY <1>1, <2>1, <2>2, <2>3
<1> QED
  BY <1>1 DEF RegisterSound, OneFramePerPosition, IInv, HandedAreFrames

LEMMA InitIInv ==
  ASSUME RegisterAssumption, Init
  PROVE  IInv
<1> USE DEF Init, RegisterAssumption
<1>1. Typed
  BY DEF Typed, RegisterTypeOK, Call, Steps, NoCall, AtRest
<1>2. CallsKnow
  BY DEF CallsKnow, NoCall
<1>3. NamesAreFrames /\ FramesAreNamed /\ HandedAreFrames /\ ObserversAgree
  BY DEF NamesAreFrames, FramesAreNamed, HandedAreFrames, ObserversAgree
<1> QED
  BY <1>1, <1>2, <1>3 DEF IInv

LEMMA DecodeIInv ==
  ASSUME RegisterAssumption, IInv, NEW r \in Reader, NEW at \in Position, NEW image \in Image,
         Decode(r, at, image)
  PROVE  IInv'
<1> USE DEF IInv, RegisterAssumption, Decode
<1>1. Typed'
  BY DEF Typed, RegisterTypeOK, Call, Steps, AtRest
<1>2. CallsKnow'
  BY DEF CallsKnow, Typed, Call
<1>3. (NamesAreFrames /\ FramesAreNamed /\ HandedAreFrames /\ ObserversAgree)'
  BY DEF NamesAreFrames, FramesAreNamed, HandedAreFrames, ObserversAgree
<1> QED
  BY <1>1, <1>2, <1>3

\* Steps that end a call without a frame, or forget what was believed.
LEMMA QuietIInv ==
  ASSUME RegisterAssumption, IInv, NEW r \in Reader, Refuse(r) \/ GiveUp(r) \/ Restart(r)
  PROVE  IInv'
<1> USE DEF IInv, RegisterAssumption, Refuse, GiveUp, Restart, Ends, NoCall
<1>1. Typed'
  BY DEF Typed, RegisterTypeOK, Call, Steps, AtRest
<1>2. CallsKnow'
  BY DEF CallsKnow, Typed, Call
<1>3. (NamesAreFrames /\ FramesAreNamed /\ HandedAreFrames)'
  BY DEF NamesAreFrames, FramesAreNamed, HandedAreFrames
<1>4. ObserversAgree'
  BY DEF ObserversAgree, Typed, RegisterTypeOK
<1> QED
  BY <1>1, <1>2, <1>3, <1>4

\* What is handed out is a frame if the frame it adds is one.
LEMMA HandedGrows ==
  ASSUME NEW r \in Reader, NEW ref, Returns(r, ref),
         \A f \in handed : f.ref \in DOMAIN frames' /\ frames'[f.ref] = [at |-> f.at, image |-> f.image],
         ref \in DOMAIN frames', frames'[ref] = [at |-> reader[r].at, image |-> reader[r].image]
  PROVE  HandedAreFrames'
<1> DEFINE new == [ref |-> ref, at |-> reader[r].at, image |-> reader[r].image]
<1>1. handed' = handed \cup {new}
  BY DEF Returns
<1>2. new.ref = ref /\ new.at = reader[r].at /\ new.image = reader[r].image
  OBVIOUS
<1> HIDE DEF new
<1>3. new.ref \in DOMAIN frames' /\ frames'[new.ref] = [at |-> new.at, image |-> new.image]
  BY <1>2
<1> QED
  BY <1>1, <1>3, Zenon DEF HandedAreFrames

LEMMA FindIInv ==
  ASSUME RegisterAssumption, IInv, NEW r \in Reader, Find(r)
  PROVE  IInv'
<1> USE DEF IInv, RegisterAssumption
<1> DEFINE ref == named[reader[r].at]
<1>1. /\ reader[r].step = "decoded" /\ reader[r].at \in Position /\ reader[r].image \in Image
      /\ reader[r].calls \in 1 .. MaxCalls
      /\ UNCHANGED <<frames, named, observed, believed>>
  BY DEF Find, CallsKnow
<1>2. CASE ref # NoRef /\ frames[ref].image = reader[r].image /\ Returns(r, ref)
  <2>1. ref \in DOMAIN frames /\ frames[ref].at = reader[r].at /\ ref \in Ref
    BY <1>1, <1>2 DEF NamesAreFrames, Typed, RegisterTypeOK
  <2>2. frames[ref] = [at |-> reader[r].at, image |-> reader[r].image]
    BY <1>2, <2>1 DEF Typed, RegisterTypeOK
  <2> HIDE DEF ref
  <2>3. Typed'
    BY <1>1, <1>2, <2>1 DEF Typed, RegisterTypeOK, Call, Steps, AtRest, Returns, Ends, NoCall
  <2>4. CallsKnow'
    BY <1>1, <1>2 DEF CallsKnow, Typed, Call, Returns, Ends, NoCall
  <2>5. HandedAreFrames'
    <3>1. \A f \in handed : f.ref \in DOMAIN frames' /\ frames'[f.ref] = [at |-> f.at, image |-> f.image]
      BY <1>1 DEF HandedAreFrames
    <3>2. ref \in DOMAIN frames' /\ frames'[ref] = [at |-> reader[r].at, image |-> reader[r].image]
      BY <1>1, <2>1, <2>2
    <3> QED
      BY <1>2, <3>1, <3>2, HandedGrows
  <2>6. (NamesAreFrames /\ FramesAreNamed /\ ObserversAgree)'
    BY <1>1 DEF NamesAreFrames, FramesAreNamed, ObserversAgree
  <2> QED
    BY <2>3, <2>4, <2>5, <2>6
<1>3. CASE Ends(r, "idle") /\ UNCHANGED handed
  <2>1. Typed'
    BY <1>1, <1>3 DEF Typed, RegisterTypeOK, Call, Steps, AtRest, Ends, NoCall
  <2>2. CallsKnow'
    BY <1>1, <1>3 DEF CallsKnow, Typed, Call, Ends, NoCall
  <2> QED
    BY <1>1, <1>3, <2>1, <2>2 DEF NamesAreFrames, FramesAreNamed, HandedAreFrames, ObserversAgree
<1>4. CASE /\ reader' = [reader EXCEPT ![r].step = "issuing", ![r].ref = <<r, reader[r].calls>>]
           /\ UNCHANGED handed
  <2>1. <<r, reader[r].calls>> \in Ref
    BY <1>1 DEF Ref
  <2> DEFINE issuing == [reader[r] EXCEPT !.step = "issuing", !.ref = <<r, reader[r].calls>>]
  <2>2. reader[r] \in Call
    BY DEF Typed
  <2>3. issuing \in Call
    BY <2>1, <2>2 DEF Call, Steps
  <2>4. reader' = [reader EXCEPT ![r] = issuing]
    BY <1>4
  <2> HIDE DEF issuing
  <2>5. reader' \in [Reader -> Call]
    BY <2>3, <2>4 DEF Typed
  <2>6. \A q \in Reader : reader'[q].step \in AtRest \cup {"decoded", "issuing"} /\ reader'[q].calls \in 0 .. MaxCalls
    BY <2>5 DEF Call, Steps, AtRest
  <2>7. Typed'
    BY <1>1, <1>4, <2>5, <2>6 DEF Typed, RegisterTypeOK
  <2>8. CallsKnow'
    BY <1>1, <1>4, <2>1 DEF CallsKnow, Typed, Call
  <2> QED
    BY <1>1, <1>4, <2>7, <2>8 DEF NamesAreFrames, FramesAreNamed, HandedAreFrames, ObserversAgree
<1> QED
  BY <1>2, <1>3, <1>4 DEF Find

LEMMA AddIInv ==
  ASSUME RegisterAssumption, IInv, NEW r \in Reader, Add(r)
  PROVE  IInv'
<1> USE DEF IInv, RegisterAssumption
<1> DEFINE ref == reader[r].ref
           at == reader[r].at
           image == reader[r].image
<1>1. /\ reader[r].step = "issuing" /\ ref \in Ref /\ at \in Position /\ image \in Image
      /\ UNCHANGED <<observed, believed>>
  BY DEF Add, CallsKnow
<1>2. CASE ~Compatible(ref, at, image) /\ Ends(r, "conflict") /\ UNCHANGED <<frames, named, handed>>
  <2>1. Typed'
    BY <1>1, <1>2 DEF Typed, RegisterTypeOK, Call, Steps, AtRest, Ends, NoCall
  <2>2. CallsKnow'
    BY <1>1, <1>2 DEF CallsKnow, Typed, Call, Ends, NoCall
  <2> QED
    BY <1>1, <1>2, <2>1, <2>2 DEF NamesAreFrames, FramesAreNamed, HandedAreFrames, ObserversAgree
<1>3. CASE /\ Compatible(ref, at, image)
           /\ frames' = [known \in DOMAIN frames \cup {ref} |->
                           IF known = ref THEN [at |-> at, image |-> image] ELSE frames[known]]
           /\ named' = [named EXCEPT ![at] = ref]
           /\ Returns(r, ref) \/ UNCHANGED <<reader, handed>>
  <2>1. /\ DOMAIN frames' = DOMAIN frames \cup {ref}
        /\ frames'[ref] = [at |-> at, image |-> image]
        /\ \A known \in DOMAIN frames : frames'[known] = frames[known]
    BY <1>3 DEF Compatible
  <2>2. named'[at] = ref /\ \A p \in Position : p # at => named'[p] = named[p]
    BY <1>1, <1>3 DEF Typed, RegisterTypeOK
  <2>3. named[at] \in {NoRef, ref} /\ ref # NoRef
    BY <1>1, <1>3, NoRefIsNone DEF Compatible
  <2>4. named' \in [Position -> Ref \cup {NoRef}]
    BY <1>1, <1>3 DEF Typed, RegisterTypeOK
  <2>5. reader' \in [Reader -> Call] /\ handed' \subseteq [ref : Ref, at : Position, image : Image]
    BY <1>1, <1>3 DEF Typed, RegisterTypeOK, Call, Steps, Returns, Ends, NoCall
  <2>6. \A q \in Reader : reader'[q].step \in AtRest \cup {"decoded", "issuing"} /\ reader'[q].calls \in 0 .. MaxCalls
    BY <2>5 DEF Call, Steps, AtRest
  <2>7. Typed'
    BY <1>1, <2>1, <2>4, <2>5, <2>6 DEF Typed, RegisterTypeOK
  <2>8. CallsKnow'
    BY <1>1, <1>3 DEF CallsKnow, Typed, Call, Returns, Ends, NoCall
  <2>9. NamesAreFrames'
    BY <1>1, <2>1, <2>2 DEF NamesAreFrames
  <2>10. FramesAreNamed'
    <3>1. ASSUME NEW known \in DOMAIN frames, known # ref
          PROVE  frames[known].at # at /\ frames[known].at \in Position /\ named[frames[known].at] = known
      <4>1. known \in Ref /\ known # NoRef /\ frames[known].at \in Position
        BY NoRefIsNone DEF Typed, RegisterTypeOK
      <4>2. named[frames[known].at] = known
        BY DEF FramesAreNamed
      <4> QED
        BY <2>3, <3>1, <4>1, <4>2
    <3>2. ASSUME NEW known \in DOMAIN frames, known # ref
          PROVE  named'[frames'[known].at] = known
      BY <2>1, <2>2, <3>1, <3>2
    <3>3. named'[frames'[ref].at] = ref
      BY <2>1, <2>2
    <3> QED
      BY <2>1, <3>2, <3>3 DEF FramesAreNamed
  <2>11. HandedAreFrames'
    <3>1. \A f \in handed : f.ref \in DOMAIN frames' /\ frames'[f.ref] = [at |-> f.at, image |-> f.image]
      BY <2>1 DEF HandedAreFrames
    <3>2. CASE Returns(r, ref)
      BY <1>1, <2>1, <3>1, <3>2, HandedGrows
    <3>3. CASE UNCHANGED <<reader, handed>>
      BY <3>1, <3>3 DEF HandedAreFrames
    <3> QED
      BY <1>3, <3>2, <3>3
  <2>12. ObserversAgree'
    BY <1>1 DEF ObserversAgree
  <2> QED
    BY <2>7, <2>8, <2>9, <2>10, <2>11, <2>12
<1> QED
  BY <1>2, <1>3 DEF Add

LEMMA ObserveIInv ==
  ASSUME RegisterAssumption, IInv, NEW r \in Reader, Observe(r) \/ Save(r)
  PROVE  IInv'
<1> USE DEF IInv, RegisterAssumption
<1>1. UNCHANGED <<frames, named, reader, handed>>
  BY DEF Observe, Save
<1>2. observed' \in Reader \cup {Nobody} /\ believed' \in [Reader -> Reader \cup {Nobody, Looking}]
  BY DEF Observe, Save, Kept, Typed, RegisterTypeOK
<1>3. Typed'
  BY <1>1, <1>2 DEF Typed, RegisterTypeOK
<1>4. ObserversAgree'
  BY DEF ObserversAgree, Observe, Save, Kept, Typed, RegisterTypeOK
<1> QED
  BY <1>1, <1>3, <1>4 DEF CallsKnow, NamesAreFrames, FramesAreNamed, HandedAreFrames

LEMMA NextIInv ==
  ASSUME RegisterAssumption, IInv, [Next]_vars
  PROVE  IInv'
<1>1. CASE UNCHANGED vars
  BY <1>1 DEF vars, IInv, Typed, RegisterTypeOK, CallsKnow, NamesAreFrames, FramesAreNamed,
              HandedAreFrames, ObserversAgree
<1>2. CASE Next
  BY <1>2, DecodeIInv, QuietIInv, FindIInv, AddIInv, ObserveIInv DEF Next
<1> QED
  BY <1>1, <1>2

\* RecordingService.resolve_frame and observe_time_sources: whatever executions
\* do beside each other, in transactions of their own, with lost commits and
\* restarts, a position has one frame for good and a source one observation.
THEOREM RegisterIsSound ==
  ASSUME RegisterAssumption
  PROVE  Spec => []RegisterSound
<1>1. Init => IInv
  BY InitIInv
<1>2. IInv /\ [Next]_vars => IInv'
  BY NextIInv
<1>3. IInv => RegisterSound
  BY InvImplies
<1> QED
  BY <1>1, <1>2, <1>3, PTL DEF Spec
=============================================================================
