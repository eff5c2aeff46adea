--------------------------- MODULE FrameAdmission ---------------------------
(***************************************************************************)
(* GET /cases/{case_id}/frames/{frame_ref}: the permits of                 *)
(* FrameLifetimeMiddleware (api/frame_lifetime.py) around the route that   *)
(* reads a frame in a thread (api/routes_frames.py).  A client may go away *)
(* at any moment; the thread with its database connection cannot.          *)
(***************************************************************************)
EXTENDS Naturals, FiniteSets

CONSTANTS Request,      \* requests, each for one frame
          Concurrency   \* config.frame.concurrency

\* What an instance must provide.
AdmissionAssumption == Concurrency \in Nat \ {0}

VARIABLES
    permits,    \* the value of the semaphore
    stage,      \* where the coroutine of a request is
    read        \* the task that reads: "none", "running", "ended", or
                \* "orphan" when it runs on and its callback owns the permit

vars == <<permits, stage, read>>

Init ==
    /\ permits = Concurrency
    /\ stage = [r \in Request |-> "idle"]
    /\ read = [r \in Request |-> "none"]

Arrive(r) ==
    /\ stage[r] = "idle"
    /\ stage' = [stage EXCEPT ![r] = "waiting"]
    /\ UNCHANGED <<permits, read>>

\* Mutant: the semaphore does not block.
MutAcquire(r) ==
    /\ stage[r] = "waiting"
    /\ permits' = permits - 1
    /\ stage' = [stage EXCEPT ![r] = "admitted"]
    /\ UNCHANGED read

Acquire(r) ==
    /\ stage[r] = "waiting" /\ permits > 0
    /\ permits' = permits - 1
    /\ stage' = [stage EXCEPT ![r] = "admitted"]
    /\ UNCHANGED read

\* `create_task(run_in_threadpool(load_frame))`, awaited behind a shield.
StartRead(r) ==
    /\ stage[r] = "admitted" /\ read[r] = "none"
    /\ stage' = [stage EXCEPT ![r] = "reading"]
    /\ read' = [read EXCEPT ![r] = "running"]
    /\ UNCHANGED permits

\* Mutant: the permit of a read that goes on is given back at once.
MutRelease(r) == permits' = permits + 1 /\ UNCHANGED read

\* The `finally` of the middleware: a read still under way takes the permit over.
Release(r) ==
    IF read[r] = "running"
       THEN read' = [read EXCEPT ![r] = "orphan"] /\ UNCHANGED permits
       ELSE permits' = permits + 1 /\ UNCHANGED read

\* The read ended with a frame or an error, and the answer is sent.
Respond(r) ==
    /\ stage[r] = "reading" /\ read[r] = "ended"
    /\ stage' = [stage EXCEPT ![r] = "closed"]
    /\ Release(r)

\* Disconnected, cancelled by the server, or refused before the read began.
Leave(r) ==
    /\ stage[r] \in {"waiting", "admitted", "reading"}
    /\ stage' = [stage EXCEPT ![r] = "closed"]
    /\ IF stage[r] = "waiting" THEN UNCHANGED <<permits, read>> ELSE Release(r)

\* The thread is through: its transaction has ended, its connection is back.
EndRead(r) ==
    /\ read[r] \in {"running", "orphan"}
    /\ read' = [read EXCEPT ![r] = "ended"]
    /\ permits' = IF read[r] = "orphan" THEN permits + 1 ELSE permits
    /\ UNCHANGED stage

Next ==
    \E r \in Request :
        Arrive(r) \/ Acquire(r) \/ StartRead(r) \/ Respond(r) \/ Leave(r) \/ EndRead(r)

Spec == Init /\ [][Next]_vars

(***************************************************************************)
(* Properties.                                                             *)
(***************************************************************************)
AdmissionTypeOK ==
    /\ permits \in Nat
    /\ stage \in [Request -> {"idle", "waiting", "admitted", "reading", "closed"}]
    /\ read \in [Request -> {"none", "running", "orphan", "ended"}]

Reads == {r \in Request : read[r] \in {"running", "orphan"}}
Admitted == {r \in Request : stage[r] \in {"admitted", "reading"}}

\* Never more reads hold a thread and a connection than there are permits,
\* however many clients leave, and no permit is lost or given back twice.
ReadsBounded ==
    /\ Cardinality(Reads) <= Concurrency
    /\ permits + Cardinality(Reads \cup Admitted) = Concurrency
=============================================================================
