-------------------------- MODULE RecordingRegister -------------------------
(***************************************************************************)
(* What the Workers register of a recording while they look at it: the     *)
(* identities of frames (RecordingService.resolve_frame) and the times     *)
(* that a source claims for itself (observe_time_sources).                 *)
(*                                                                         *)
(* A Worker reaches the register through TransactionalRecordingRepository: *)
(* every call is a transaction of its own, and media is decoded between    *)
(* them, without a lock.  An execution is one thread.                      *)
(***************************************************************************)
EXTENDS Naturals

CONSTANTS Reader,       \* executions that look at the same recording
          Position,     \* offsets of frames of one VIDEO stream
          Image,        \* what different builds of the decoder make of a frame
          MaxCalls      \* bound: how often an execution asks for a frame


VARIABLES
    frames,     \* rows `frame`: position and image by identity
    named,      \* rows `frame_position`: the identity at a position
    observed,   \* row `time_observation` of the source, by who looked
    reader,     \* the call to resolve_frame each execution makes
    believed,   \* the observation each execution goes by
    handed      \* every frame that some call returned, with its image

vars == <<frames, named, observed, reader, believed, handed>>

\* Identities are drawn at random, so they are those of the calls.
Ref == Reader \X (1 .. MaxCalls)
NoRef == <<"none", 0>>
Nobody == "nobody"
Looking == "looking"

\* What an instance must provide.
RegisterAssumption == MaxCalls \in Nat /\ {Nobody, Looking} \cap Reader = {}

AtRest == {"idle", "conflict"}
NoCall(step, calls) == [step |-> step, at |-> 0, image |-> "none", ref |-> NoRef, calls |-> calls]

Init ==
    /\ frames = [ref \in {} |-> NoRef]
    /\ named = [p \in Position |-> NoRef]
    /\ observed = Nobody
    /\ reader = [r \in Reader |-> NoCall("idle", 0)]
    /\ believed = [r \in Reader |-> Nobody]
    /\ handed = {}

\* The call ends: with a frame, or with an error of which only a conflict is told
\* apart here.
Ends(r, step) == reader' = [reader EXCEPT ![r] = NoCall(step, @.calls)]
Returns(r, ref) ==
    /\ Ends(r, "idle")
    /\ handed' = handed \cup {[ref |-> ref, at |-> reader[r].at, image |-> reader[r].image]}

(***************************************************************************)
(* resolve_frame                                                           *)
(***************************************************************************)
\* The rows of stream and source are read, the file is decoded.
Decode(r, at, image) ==
    /\ reader[r].step \in AtRest /\ believed[r] # Looking
    /\ reader[r].calls < MaxCalls
    /\ reader' = [reader EXCEPT ![r] =
                    [step |-> "decoded", at |-> at, image |-> image, ref |-> NoRef, calls |-> @.calls + 1]]
    /\ UNCHANGED <<frames, named, observed, believed, handed>>

\* The stream or the frame cannot be had: a RecordingCapabilityError.
Refuse(r) ==
    /\ reader[r].step = "decoded"
    /\ Ends(r, "idle")
    /\ UNCHANGED <<frames, named, observed, believed, handed>>

\* `find_frame_at`: a frame that is known must look as it did.
Find(r) ==
    /\ reader[r].step = "decoded"
    /\ LET ref == named[reader[r].at]
       IN  \/ /\ ref # NoRef /\ frames[ref].image = reader[r].image
              /\ Returns(r, ref)
           \/ /\ ref # NoRef /\ frames[ref].image # reader[r].image
              /\ Ends(r, "idle") /\ UNCHANGED handed
           \/ /\ ref = NoRef
              /\ reader' = [reader EXCEPT ![r].step = "issuing", ![r].ref = <<r, reader[r].calls>>]
              /\ UNCHANGED handed
    /\ UNCHANGED <<frames, named, observed, believed>>

MutCompatible(ref, at, image) == TRUE       \* mutant: `_write`, which overwrites

\* `_immutable_write`: a row that exists must hold what is to be written.
Compatible(ref, at, image) ==
    /\ named[at] \in {NoRef, ref}
    /\ ref \in DOMAIN frames => frames[ref] = [at |-> at, image |-> image]

\* `add_frame`: both rows or none.  If the acknowledgement of the commit is
\* lost the transaction is run again.
Add(r) ==
    LET ref == reader[r].ref
        at == reader[r].at
        image == reader[r].image
    IN  /\ reader[r].step = "issuing"
        /\ \/ /\ Compatible(ref, at, image)
              /\ frames' = [known \in DOMAIN frames \cup {ref} |->
                              IF known = ref THEN [at |-> at, image |-> image] ELSE frames[known]]
              /\ named' = [named EXCEPT ![at] = ref]
              /\ Returns(r, ref) \/ UNCHANGED <<reader, handed>>
           \/ /\ ~Compatible(ref, at, image)
              /\ Ends(r, "conflict")            \* ValueError
              /\ UNCHANGED <<frames, named, handed>>
        /\ UNCHANGED <<observed, believed>>

\* The tries of the transaction are used up; whether it committed is unknown.
GiveUp(r) ==
    /\ reader[r].step = "issuing"
    /\ Ends(r, "idle")
    /\ UNCHANGED <<frames, named, observed, believed, handed>>

(***************************************************************************)
(* observe_time_sources                                                    *)
(***************************************************************************)
\* The service keeps what it was told; otherwise it reads the row, and if there
\* is none looks at the file.
Observe(r) ==
    /\ reader[r].step \in AtRest /\ believed[r] = Nobody
    /\ believed' = [believed EXCEPT ![r] = IF observed = Nobody THEN Looking ELSE observed]
    /\ UNCHANGED <<frames, named, observed, reader, handed>>

MutKept(r) == r                             \* mutant: the last observation wins

\* `save_time_sources`: the first observation stays.
Kept(r) == IF observed = Nobody THEN r ELSE observed

\* What is stored is returned, in the same transaction; run again if the
\* acknowledgement is lost.
Save(r) ==
    /\ believed[r] = Looking
    /\ observed' = Kept(r)
    /\ believed' \in {believed, [believed EXCEPT ![r] = observed']}
    /\ UNCHANGED <<frames, named, reader, handed>>

\* The process ends; another attempt of the execution takes its place.
Restart(r) ==
    /\ believed[r] # Nobody \/ reader[r].step # "idle"
    /\ reader' = [reader EXCEPT ![r] = NoCall("idle", @.calls)]
    /\ believed' = [believed EXCEPT ![r] = Nobody]
    /\ UNCHANGED <<frames, named, observed, handed>>

Next ==
    \E r \in Reader :
        \/ \E at \in Position, image \in Image : Decode(r, at, image)
        \/ Refuse(r) \/ Find(r) \/ Add(r) \/ GiveUp(r)
        \/ Observe(r) \/ Save(r) \/ Restart(r)

Spec == Init /\ [][Next]_vars

(***************************************************************************)
(* Properties.                                                             *)
(***************************************************************************)
RegisterTypeOK ==
    /\ DOMAIN frames \subseteq Ref
    /\ \A ref \in DOMAIN frames : frames[ref] \in [at : Position, image : Image]
    /\ named \in [Position -> Ref \cup {NoRef}]
    /\ observed \in Reader \cup {Nobody}
    /\ believed \in [Reader -> Reader \cup {Nobody, Looking}]
    /\ \A r \in Reader :
        /\ reader[r].step \in AtRest \cup {"decoded", "issuing"}
        /\ reader[r].calls \in 0 .. MaxCalls

\* Whatever calls did beside each other, all that got a frame of a position got
\* the same one, and it can be read for ever after as it was decoded then
\* (local-frame-access.md:38): refs live on in results, previews and evidence.
OneFramePerPosition ==
    /\ \A f, g \in handed : f.at = g.at => f = g
    /\ \A f \in handed : f.ref \in DOMAIN frames /\ frames[f.ref] = [at |-> f.at, image |-> f.image]

\* No frame is left that its position does not name, e.g. by a call that lost.
FramesAreNamed == \A ref \in DOMAIN frames : named[frames[ref].at] = ref

\* All executions go by one observation of the source, the stored one: a time
\* candidate that one of them names, every other can look up.
ObserversAgree == \A r \in Reader : believed[r] \in Reader => believed[r] = observed

RegisterSound == OneFramePerPosition /\ FramesAreNamed /\ ObserversAgree

\* mysql_repository.py:4: "Stream reads lock their row until the caller ends its
\* transaction, serializing same-stream frame identity creation."
SameFrameResolves == \A r \in Reader : reader[r].step # "conflict"
=============================================================================
