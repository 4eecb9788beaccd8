----------------------------- MODULE SessionLock -----------------------------
(***************************************************************************)
(* Screen locking: session_lock.cppm, its shim, and desktop.rs.  Clients   *)
(* ask for the lock, one gets it, makes a surface for every screen, is     *)
(* told "locked", unlocks in order or dies.  The compositor hears of all   *)
(* this later, and answers locks by a number, which may be of the dead.    *)
(* Left out: the sizes of lock surfaces, and a client that is killed for a *)
(* protocol error, which is one that dies.                                 *)
(***************************************************************************)
EXTENDS Naturals, Sequences, FiniteSets

CONSTANTS
    Lockers,    \* ext_session_lock_v1 objects clients may make
    Screens,
    MaxCalls,   \* bound: events fired and not handled
    NoLock      \* "no lock"

ASSUME LockAssumption == MaxCalls \in Nat \ {0} /\ NoLock \notin Lockers

VARIABLES
    locks,      \* LockImpl, and what its client was told
    current,    \* the lock the manager let through
    sessionLocked,
    drapes,     \* lock -> screen -> its lock surface
    calls,      \* events fired and not handled
    lockAsked,      \* the compositor: the locks it knows of
    covering    \* the compositor: the lock surfaces it knows to be mapped
lockVars == <<locks, current, sessionLocked, drapes, calls, lockAsked, covering>>

\* SessionLockEvent, by kind: LockDestroy says whether it was an unlock.
SessionLockEvent ==
    [kind : {"NewLock"}, lock : Lockers]
    \cup [kind : {"LockDestroy"}, lock : Lockers, unlocked : BOOLEAN]
    \cup [kind : {"SurfaceMap", "SurfaceDestroy"}, lock : Lockers, screen : Screens]

LocksTypeOK ==
    /\ locks \in [Lockers -> [alive : BOOLEAN, used : BOOLEAN, heard : BOOLEAN,
                             locked : BOOLEAN, finished : BOOLEAN, unlocking : BOOLEAN]]
    /\ current \in Lockers \cup {NoLock} /\ sessionLocked \in BOOLEAN
    /\ drapes \in [Lockers -> [Screens -> {"none", "made", "mapped"}]]
    /\ calls \in Seq(SessionLockEvent)
    /\ lockAsked \subseteq Lockers /\ covering \subseteq Lockers \X Screens

LocksInit ==
    /\ locks = [l \in Lockers |-> [alive |-> FALSE, used |-> FALSE, heard |-> FALSE,
                                 locked |-> FALSE, finished |-> FALSE, unlocking |-> FALSE]]
    /\ current = NoLock /\ sessionLocked = FALSE
    /\ drapes = [l \in Lockers |-> [s \in Screens |-> "none"]]
    /\ calls = <<>> /\ lockAsked = {} /\ covering = {}

-----------------------------------------------------------------------------
(* The lock clients. *)

\* The binding watches the locks it was told of, and no others.
Call(l, es) ==
    IF locks[l].heard \/ es[1].kind = "NewLock"
    THEN Len(calls) < MaxCalls /\ calls' = calls \o es
    ELSE UNCHANGED calls

\* Mutant: the second is let through while the first has not gone.
ManagerLock_Both(l) ==
    /\ ~locks[l].used
    /\ locks' = [locks EXCEPT ![l] = [alive |-> TRUE, used |-> TRUE, heard |-> TRUE,
                                      locked |-> FALSE, finished |-> FALSE, unlocking |-> FALSE]]
    /\ current' = l /\ Call(l, <<[kind |-> "NewLock", lock |-> l]>>)
    /\ UNCHANGED <<sessionLocked, drapes, lockAsked, covering>>

\* manager_lock(): one lock at a time, and the loser is told so; the compositor
\* never hears of it.
ManagerLock(l) ==
    /\ ~locks[l].used
    /\ locks' = [locks EXCEPT ![l] = [alive |-> TRUE, used |-> TRUE, heard |-> current = NoLock,
                                      locked |-> FALSE, finished |-> current # NoLock,
                                      unlocking |-> FALSE]]
    /\ IF current # NoLock THEN UNCHANGED <<current, calls>>
       ELSE current' = l /\ Call(l, <<[kind |-> "NewLock", lock |-> l]>>)
    /\ UNCHANGED <<sessionLocked, drapes, lockAsked, covering>>

\* get_lock_surface(), and the first commit of an acknowledged size.
MakeDrape(l, s) ==
    /\ locks[l].alive /\ drapes[l][s] = "none"
    /\ drapes' = [drapes EXCEPT ![l][s] = "made"]
    /\ UNCHANGED <<locks, current, sessionLocked, calls, lockAsked, covering>>

MapDrape(l, s) ==
    /\ drapes[l][s] = "made"
    /\ drapes' = [drapes EXCEPT ![l][s] = "mapped"]
    /\ Call(l, <<[kind |-> "SurfaceMap", lock |-> l, screen |-> s]>>)
    /\ UNCHANGED <<locks, current, sessionLocked, lockAsked, covering>>

DestroyDrape(l, s) ==
    /\ drapes[l][s] # "none"
    /\ drapes' = [drapes EXCEPT ![l][s] = "none"]
    /\ Call(l, <<[kind |-> "SurfaceDestroy", lock |-> l, screen |-> s]>>)
    /\ UNCHANGED <<locks, current, sessionLocked, lockAsked, covering>>

\* Mutant: whoever hears of the end hears of a crash.
Gone_Unsaid(l, unlocking) ==
    /\ locks' = [locks EXCEPT ![l].alive = FALSE, ![l].unlocking = unlocking]
    /\ current' = (IF current = l THEN NoLock ELSE current)
    /\ Call(l, <<[kind |-> "LockDestroy", lock |-> l, unlocked |-> FALSE]>>)
    /\ UNCHANGED <<drapes, lockAsked, covering>>

\* lock_resource_destroy(); the surfaces stay, for their own destroy.
Gone(l, unlocking) ==
    /\ locks' = [locks EXCEPT ![l].alive = FALSE, ![l].unlocking = unlocking]
    /\ current' = (IF current = l THEN NoLock ELSE current)
    /\ Call(l, <<[kind |-> "LockDestroy", lock |-> l, unlocked |-> unlocking]>>)
    /\ UNCHANGED <<drapes, lockAsked, covering>>

\* Mutant: the lock goes, and the session stays shut.
Unlock_Shut(l) ==
    /\ locks[l].alive /\ locks[l].locked
    /\ Gone(l, TRUE)
    /\ UNCHANGED sessionLocked

\* unlock_and_destroy, which is for a lock that was granted.
Unlock(l) ==
    /\ locks[l].alive /\ locks[l].locked
    /\ sessionLocked' = FALSE
    /\ Gone(l, TRUE)

\* Mutant: the session opens when whoever holds the lock crashes.
LockerLeaves_Opens(l) ==
    /\ locks[l].alive
    /\ Gone(l, FALSE)
    /\ sessionLocked' = (sessionLocked /\ current # l)

\* destroy, of a lock that was not granted; or its client is gone, with whatever
\* it had.  The latch stays as it is.
LockerLeaves(l) ==
    /\ locks[l].alive
    /\ Gone(l, FALSE)
    /\ UNCHANGED sessionLocked

-----------------------------------------------------------------------------
(* The compositor. *)

\* An event is handled.
HandleLock ==
    /\ calls # <<>>
    /\ LET e == Head(calls)
       IN \/ /\ e.kind = "NewLock" /\ lockAsked' = lockAsked \cup {e.lock}
             /\ UNCHANGED covering
          \/ /\ e.kind = "LockDestroy" /\ lockAsked' = lockAsked \ {e.lock}
             /\ UNCHANGED covering
          \/ /\ e.kind = "SurfaceMap" /\ covering' = covering \cup {<<e.lock, e.screen>>}
             /\ UNCHANGED lockAsked
          \/ /\ e.kind = "SurfaceDestroy" /\ covering' = covering \ {<<e.lock, e.screen>>}
             /\ UNCHANGED lockAsked
    /\ calls' = Tail(calls)
    /\ UNCHANGED <<locks, current, sessionLocked, drapes>>

\* SessionLock::send_locked(), on a lock it knows of and that may be gone: once,
\* and never after "finished".
SendLocked(l) ==
    /\ l \in lockAsked
    /\ locks[l].alive /\ ~locks[l].locked /\ ~locks[l].finished
    /\ locks' = [locks EXCEPT ![l].locked = TRUE]
    /\ sessionLocked' = TRUE
    /\ UNCHANGED <<current, drapes, calls, lockAsked, covering>>

\* SessionLock::send_finished(): a refusal, or the end of a lock that was granted.
SendFinished(l) ==
    /\ l \in lockAsked
    /\ locks[l].alive /\ ~locks[l].finished
    /\ locks' = [locks EXCEPT ![l].finished = TRUE]
    /\ UNCHANGED <<current, sessionLocked, drapes, calls, lockAsked, covering>>

LocksNext ==
    \/ \E l \in Lockers :
          \/ ManagerLock(l) \/ Unlock(l) \/ LockerLeaves(l)
          \/ SendLocked(l) \/ SendFinished(l)
          \/ \E s \in Screens : MakeDrape(l, s) \/ MapDrape(l, s) \/ DestroyDrape(l, s)
    \/ HandleLock

LocksSpec == LocksInit /\ [][LocksNext]_lockVars

-----------------------------------------------------------------------------
\* A client that was told "locked" and has not unlocked can rely on it: the
\* session is locked for as long as that client lives, nobody else holds the
\* lock, and it is the lock SessionLockManager::current() names.  Once the
\* compositor has handled its events, the locks and covered screens it counts on
\* are the ones there are.
LockHonoured ==
    /\ \A l \in Lockers : locks[l].alive /\ locks[l].locked => sessionLocked /\ current = l
    /\ calls = <<>> =>
          /\ lockAsked = (IF current = NoLock THEN {} ELSE {current})
          /\ covering = {d \in Lockers \X Screens : locks[d[1]].heard /\ drapes[d[1]][d[2]] = "mapped"}

\* The lock client asked to unlock, in this step.
Unlocks(l) == ~locks[l].unlocking /\ locks'[l].unlocking

\* SessionLockManager::is_locked(): "True from the first send_locked until a
\* client's orderly unlock."  The latch falls in no other step, whoever dies,
\* asks or is refused, and the unlock is of the lock that was granted and is
\* current; it never leaves the session shut.  When the holder of the lock goes,
\* the compositor is told, and `unlocked` is whether the session is open now.
LatchKept ==
    /\ sessionLocked /\ ~sessionLocked' =>
           \E l \in Lockers : Unlocks(l) /\ locks[l].locked /\ current = l
    /\ ~sessionLocked /\ sessionLocked' =>
           \E l \in Lockers : ~locks[l].locked /\ locks'[l].locked /\ current = l
    /\ \A l \in Lockers :
           /\ Unlocks(l) => ~sessionLocked'
           /\ locks[l].locked /\ locks[l].alive /\ ~locks'[l].alive =>
                 calls' = Append(calls, [kind |-> "LockDestroy", lock |-> l, unlocked |-> ~sessionLocked'])
LatchHeld == [][LatchKept]_lockVars
=============================================================================
