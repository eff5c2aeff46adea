----------------------------- MODULE LeaseClock -----------------------------
(***************************************************************************)
(* The heartbeat of one execution against the clock: the lease from the    *)
(* UPDATE of the claim on (common/jobs/repository.py), and the ticks of    *)
(* `Heartbeat.run` from the start of its thread on                         *)
(* (common/jobs/heartbeat.py), however long the answer to the claim and    *)
(* its replays took.  JobQueue lets a lease expire at any moment; this module  *)
(* shows how many failed or slow renewals a live Worker survives.          *)
(*                                                                         *)
(* One clock stands for the Worker's monotonic clock and the database's    *)
(* NOW(6): they run at the same rate.                                      *)
(***************************************************************************)
EXTENDS Integers

CONSTANTS Interval,      \* heartbeat_interval_sec
          Lease,         \* lease_duration_sec
          MaxCall,       \* the longest a renewal takes, connecting included
          MaxDelay,      \* the latest a thread wakes, and an observer returns
          MaxFailures,   \* bound of the renewals that fail in a row
          Horizon        \* bound of the clock

\* From the tick of a renewal to the tick of the next one: the thread wakes late,
\* the renewal is slow, and the observer returns late.
Cycle == Interval * (((MaxCall + 2 * MaxDelay) \div Interval) + 1)

\* What an instance must provide: of the configuration what `RuntimeConfig.from_mapping`
\* asks for, and a bound of the latencies.
LeaseAssumption ==
    /\ Interval \in Nat \ {0} /\ Lease \in Nat /\ Lease > Interval
    /\ MaxCall \in Nat /\ MaxDelay \in Nat /\ MaxFailures \in Nat /\ Horizon \in Nat
    /\ MaxDelay < Interval

VARIABLES
    now,        \* both clocks, from the UPDATE of the claim on
    grid,       \* when the thread started, 0 before
    tick,       \* when the next renewal is due
    thread,     \* "claiming", "replaying" the claim, "dropped" it; then "looping",
                \* "waiting" for the tick, "renewing", "stopped"
    since,      \* when the thread began what it does
    renewed,    \* the UPDATE of this renewal has taken effect
    failures,   \* failed renewals in a row
    leaseUntil, \* lease_expires_at
    stale       \* a sweep took the row

vars == <<now, grid, tick, thread, since, renewed, failures, leaseUntil, stale>>

\* How many ticks of the grid lie between the tick and the time, rounded up.
Missed(time, t) == IF time <= t THEN 0 ELSE (time - t + Interval - 1) \div Interval

\* `_CLAIM_UPDATE` has taken effect; the Worker awaits the answer to its COMMIT.
Init ==
    /\ now = 0 /\ grid = 0 /\ tick = 0
    /\ thread = "claiming" /\ since = 0
    /\ renewed = FALSE /\ failures = 0
    /\ leaseUntil = Lease /\ stale = FALSE

\* The COMMIT is not acknowledged: the same row is claimed once more.
Unanswered ==
    /\ thread = "claiming"
    /\ thread' = "replaying"
    /\ UNCHANGED <<now, grid, tick, since, renewed, failures, leaseUntil, stale>>

\* The receipt is found: RECOVERED.  The lease goes on, it is not renewed.
Recover ==
    /\ thread = "replaying" /\ ~stale /\ leaseUntil > now
    /\ thread' = "claiming"
    /\ UNCHANGED <<now, grid, tick, since, renewed, failures, leaseUntil, stale>>

\* `ClaimLostError`, or the attempts are used up: nobody runs the execution.
Drop ==
    /\ thread = "replaying"
    /\ thread' = "dropped"
    /\ UNCHANGED <<now, grid, tick, since, renewed, failures, leaseUntil, stale>>

\* The claim returns, and the thread starts.  Nobody looks at the lease again.
Start ==
    /\ thread = "claiming"
    /\ thread' = "looping"
    /\ grid' = now /\ since' = now /\ tick' = now + Interval
    /\ UNCHANGED <<now, renewed, failures, leaseUntil, stale>>

\* The head of the loop: ticks that passed meanwhile are skipped.
Loop ==
    /\ thread = "looping"
    /\ tick' = tick + Missed(now, tick) * Interval
    /\ thread' = "waiting"
    /\ UNCHANGED <<now, grid, since, renewed, failures, leaseUntil, stale>>

Wake ==
    /\ thread = "waiting" /\ now >= tick
    /\ thread' = "renewing" /\ since' = now /\ renewed' = FALSE
    /\ UNCHANGED <<now, grid, tick, failures, leaseUntil, stale>>

\* Mutant: the lease is prolonged by an interval, not counted from now.
MutRenew ==
    /\ thread = "renewing" /\ ~renewed /\ ~stale
    /\ renewed' = TRUE
    /\ leaseUntil' = leaseUntil + Interval
    /\ UNCHANGED <<now, grid, tick, thread, since, failures, stale>>

\* `_RENEW` takes effect: never shortens the lease.
Renew ==
    /\ thread = "renewing" /\ ~renewed /\ ~stale
    /\ renewed' = TRUE
    /\ leaseUntil' = IF leaseUntil > now + Lease THEN leaseUntil ELSE now + Lease
    /\ UNCHANGED <<now, grid, tick, thread, since, failures, stale>>

\* The tick after the next one that is not over yet.
NextTick == tick + Interval + Missed(now, tick + Interval) * Interval

Renewed ==
    /\ thread = "renewing" /\ renewed
    /\ failures' = 0
    /\ tick' = NextTick
    /\ thread' = "looping" /\ since' = now
    /\ UNCHANGED <<now, grid, renewed, leaseUntil, stale>>

\* An error, perhaps after the UPDATE was committed.
Failed ==
    /\ thread = "renewing" /\ failures < MaxFailures
    /\ failures' = failures + 1
    /\ tick' = NextTick
    /\ thread' = "looping" /\ since' = now
    /\ UNCHANGED <<now, grid, renewed, leaseUntil, stale>>

\* Zero rows: the ownership is lost, and the thread ends.
Lost ==
    /\ thread = "renewing" /\ ~renewed /\ stale
    /\ thread' = "stopped"
    /\ UNCHANGED <<now, grid, tick, since, renewed, failures, leaseUntil, stale>>

Sweep ==
    /\ leaseUntil < now /\ ~stale
    /\ stale' = TRUE
    /\ UNCHANGED <<now, grid, tick, thread, since, renewed, failures, leaseUntil>>

\* Time passes while the thread waits or is delayed within the bounds; the claim
\* may take for ever.
Pass ==
    /\ now < Horizon
    /\ CASE thread = "looping"  -> now - since < MaxDelay
         [] thread = "waiting"  -> now < tick + MaxDelay
         [] thread = "renewing" -> now - since < MaxCall
         [] OTHER -> TRUE
    /\ now' = now + 1
    /\ UNCHANGED <<grid, tick, thread, since, renewed, failures, leaseUntil, stale>>

Next ==
    \/ Unanswered \/ Recover \/ Drop \/ Start
    \/ Loop \/ Wake \/ Renew \/ Renewed \/ Failed \/ Lost \/ Sweep \/ Pass

Spec == Init /\ [][Next]_vars

(***************************************************************************)
(* Properties.                                                             *)
(***************************************************************************)
ClockTypeOK ==
    /\ {now, grid, tick, since, leaseUntil} \subseteq Nat
    /\ failures \in 0 .. MaxFailures
    /\ thread \in {"claiming", "replaying", "dropped", "looping", "waiting", "renewing", "stopped"}
    /\ {renewed, stale} \subseteq BOOLEAN

Started == thread \in {"looping", "waiting", "renewing", "stopped"}

\* How long the lease had run when the thread started, if it is still that of the
\* claim; a renewed lease counts from its renewal.
Behind == IF leaseUntil = Lease THEN grid ELSE 0

\* A Worker that runs its execution is swept only after so many failed renewals in
\* a row that their cycles, and the renewal after them, are longer than the lease:
\* each one fewer is survived, however slow it was.  A late start costs the first
\* lease what it took, and only that one.
LeaseOutlivesFaults ==
    Started /\ stale => Lease < Behind + (failures + 1) * Cycle + MaxDelay + MaxCall

\* Missed ticks are skipped, never caught up: each renewal belongs to a tick of
\* the grid, begins when it is due, and before the next one.
RenewalOnItsTick ==
    thread = "renewing" => (tick - grid) % Interval = 0 /\ tick <= since /\ since < tick + Interval

\* The heartbeat keeps what the lease promises.
HeartbeatHolds == LeaseOutlivesFaults /\ RenewalOnItsTick
=============================================================================
