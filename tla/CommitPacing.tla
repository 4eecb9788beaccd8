---------------------------- MODULE CommitPacing ----------------------------
(***************************************************************************)
(* wp_commit_timing_manager_v1 (src/protocol/core/commit_timing.cppm) on   *)
(* top of Surface: the stamps staged for the next commit, the one timer of *)
(* the event loop that wakes the manager, and tick(), which releases what  *)
(* is due on every surface in turn and re-arms the timer.                  *)
(*                                                                         *)
(* tick() runs the commit handlers of every surface it releases, so it is  *)
(* split at those calls: Visit, the draining steps of Surface, Visited.    *)
(* The timer is armed for an instant; rounding up to milliseconds is left  *)
(* out, the cap on one sleep is kept.                                      *)
(***************************************************************************)
EXTENDS Surface

CONSTANT MaxSleep    \* the longest the timer is armed for (60 s in the code)

ASSUME SleepAssumption == MaxSleep \in Nat \ {0}

VARIABLES
    timers,     \* Impl::timers: surfaces with a living wp_commit_timer_v1
    staged,     \* CommitTimer::deadline of each, 0 when none
    wakeup,     \* when the timer fires, 0 when it is disarmed
    ticking,    \* tick() is on the stack
    left,       \* what is left of its snapshot of the timers
    visiting,   \* the surface it is releasing, or NoSurface
    next        \* the earliest deadline it has seen, 0 when none

tickVars == <<ticking, left, visiting, next>>
pacingVars == <<timers, staged, wakeup, tickVars>>
allVars == <<vars, pacingVars>>

PacingTypeOK ==
    /\ TypeOK
    /\ timers \subseteq Surfaces
    /\ staged \in [Surfaces -> 0..MaxTime]
    /\ wakeup \in 0..MaxTime
    /\ ticking \in BOOLEAN
    /\ left \subseteq Surfaces
    /\ visiting \in Surfaces \cup {NoSurface}
    /\ next \in 0..MaxTime

PacingInit ==
    /\ Init
    /\ timers = {}
    /\ staged = [s \in Surfaces |-> 0]
    /\ wakeup = 0
    /\ ticking = FALSE
    /\ left = {}
    /\ visiting = NoSurface
    /\ next = 0

-----------------------------------------------------------------------------
(* The manager *)

\* The earlier of two deadlines, 0 being none.
Sooner(a, b) == IF a = 0 \/ (b # 0 /\ b < a) THEN b ELSE a

\* deferred_commit_time(): the stamp of the oldest parked commit.
HeadTime(s) == IF deferred[s] = <<>> THEN 0 ELSE Head(deferred[s]).time

\* What the timer of s wants the loop to wake for.
Want_StagedOnly(s) == staged[s]
Want(s) == IF HeadTime(s) > now THEN Sooner(staged[s], HeadTime(s)) ELSE staged[s]

\* No sleep is longer than MaxSleep; 0 disarms.
ArmFor(deadline) == IF deadline > now + MaxSleep THEN now + MaxSleep ELSE deadline

StartTick ==
    /\ ~ticking
    /\ ticking' = TRUE
    /\ left' = timers
    /\ next' = 0
    /\ UNCHANGED visiting

\* wp_commit_timing_manager_v1.get_timer: one timer for a surface.
GetTimer(s) ==
    /\ ~ticking /\ draining = NoSurface
    /\ "timing" \in client.uses
    /\ s \notin timers
    /\ timers' = timers \cup {s}
    /\ UNCHANGED <<vars, staged, wakeup, tickVars>>

\* wp_commit_timer_v1.set_timestamp stages the stamp and ticks.
SetTimestamp(s, t) ==
    /\ s \in timers
    /\ SetCommitTime(s, t)
    /\ staged' = [staged EXCEPT ![s] = t]
    /\ StartTick
    /\ UNCHANGED <<timers, wakeup>>

\* ~CommitTimer lets every stamp pass.
DestroyTimer(s) ==
    /\ ~ticking /\ draining = NoSurface
    /\ "untimed" \in client.uses
    /\ s \in timers
    /\ timers' = timers \ {s}
    /\ staged' = [staged EXCEPT ![s] = 0]
    /\ UNCHANGED <<wakeup, tickVars>>
    /\ ReleaseDeferred(s, client.time) \/ (deferred[s] = <<>> /\ UNCHANGED vars)

\* The event loop finds the timer due.
Fire ==
    /\ draining = NoSurface
    /\ wakeup # 0 /\ wakeup <= now
    /\ wakeup' = 0
    /\ StartTick
    /\ UNCHANGED <<vars, timers, staged>>

\* tick(): a stamp that has come is spent, and what is due is released.
Visit(s) ==
    /\ ticking /\ visiting = NoSurface /\ draining = NoSurface
    /\ s \in left
    /\ visiting' = s
    /\ staged' = [staged EXCEPT ![s] = IF @ <= now THEN 0 ELSE @]
    /\ UNCHANGED <<timers, wakeup, ticking, left, next>>
    /\ ReleaseDeferred(s, now) \/ (deferred[s] = <<>> /\ UNCHANGED vars)

Visited(s) ==
    /\ visiting = s /\ draining = NoSurface
    /\ visiting' = NoSurface
    /\ left' = left \ {s}
    /\ next' = Sooner(next, Want(s))
    /\ UNCHANGED <<vars, timers, staged, wakeup, ticking>>

\* tick() arms the timer for the earliest deadline, or disarms it.
Rearm ==
    /\ ticking /\ left = {} /\ visiting = NoSurface
    /\ ticking' = FALSE
    /\ wakeup' = ArmFor(next)
    /\ UNCHANGED <<vars, timers, staged, left, visiting, next>>

-----------------------------------------------------------------------------
(* The surfaces under it *)

\* A CommitTimer whose surface is gone is passed over from then on.
SurfaceGone(s) ==
    /\ ~ticking
    /\ DestroySurface(s)
    /\ timers' = timers \ {s}
    /\ staged' = [staged EXCEPT ![s] = 0]
    /\ UNCHANGED <<wakeup, tickVars>>

Elsewhere ==
    /\ ~ticking
    /\ TimePasses \/ \E s \in client.surfaces : ClientStep(s) \/ CompositorStep(s)
    /\ UNCHANGED pacingVars

Draining ==
    /\ ticking
    /\ \E s \in client.surfaces : DrainStep(s) \/ DrainEnd(s)
    /\ UNCHANGED pacingVars

PacingNext ==
    \/ Elsewhere
    \/ Draining
    \/ Fire
    \/ Rearm
    \/ \E s \in client.surfaces :
          \/ GetTimer(s) \/ DestroyTimer(s) \/ SurfaceGone(s)
          \/ Visit(s) \/ Visited(s)
          \/ \E t \in 1..client.time : SetTimestamp(s, t)

PacingSpec == PacingInit /\ [][PacingNext]_allVars

\* A call on the stack returns (weak: nothing else can run), time passes, and
\* the event loop gets round to a timer that is due whatever else it serves
\* (strong: other calls disable them for a while).  Nobody need present
\* anything.
Fairness ==
    /\ WF_allVars(Rearm)
    /\ \A s \in Surfaces : WF_allVars(Visit(s) \/ Visited(s))
    /\ \A s \in Surfaces : WF_allVars((DrainStep(s) \/ DrainEnd(s)) /\ UNCHANGED pacingVars)
    /\ SF_allVars(Fire)
    /\ SF_allVars(TimePasses /\ ~ticking /\ UNCHANGED pacingVars)

FairSpec == PacingSpec /\ Fairness

-----------------------------------------------------------------------------
(* What the global promises *)

\* "An EventLoop timer armed to the earliest deadline outstanding": if only its
\* stamp holds a parked commit back, the timer fires no later than that.
WakeupCovers(s) ==
    LET head == Head(deferred[s]) IN
    deferred[s] # <<>> /\ head.time > now /\ ~(head.wait /\ fifoBarrier[s])
        => wakeup \in 1..head.time

Idle == ~ticking /\ draining = NoSurface

\* It holds for a client that uses commit timing alone and keeps its timer.
WakeupArmed ==
    Idle /\ client.uses \cap {"fifo", "untimed"} = {} =>
        \A s \in Surfaces : WakeupCovers(s)

\* And in every case, as the comment has it.
WakeupArmedAlways == Idle => \A s \in timers : WakeupCovers(s)

\* "Nothing is asked of the compositor beyond creating the global": what the
\* same client has committed is all applied sooner or later, even if nothing is
\* ever presented.
TimedCommitsApplied ==
    client.uses \cap {"fifo", "untimed"} = {} =>
        \A s \in Surfaces : made[s] > 0 ~> 1..made[s] \subseteq Applied(s)

\* Whatever barriers and stamps a client combines, a compositor that goes on
\* presenting its surfaces answers what has been committed, sooner or later.
AnsweredIfPresented ==
    \A s \in Surfaces :
        []<><<Present(s)>>_vars => (made[s] > 0 ~> 1..made[s] \subseteq done[s])

=============================================================================
