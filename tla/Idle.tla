--------------------------------- MODULE Idle ---------------------------------
(***************************************************************************)
(* Idleness: the inhibitors that keep the screen awake (idle_inhibit.cppm) *)
(* and the notifications whose timers say that the user is away (idle_     *)
(* notify.cppm), with the compositor between them (protocol/idle.rs): the  *)
(* first says "changed", an event that is handled later, and the           *)
(* compositor feeds it to the second.  A timer of the display's loop may   *)
(* run out at any time in between.                                         *)
(***************************************************************************)
EXTENDS Naturals, Sequences

CONSTANTS
    Inhibitors,     \* zwp_idle_inhibitor_v1 objects
    Notices,        \* ext_idle_notification_v1 objects
    MaxChanges      \* bound: IdleInhibitEvent::Changed fired and not handled

ASSUME IdleAssumption == MaxChanges \in Nat \ {0}

VARIABLES
    inhibitors, \* inhibitor -> whether it is, and whether its surface is visible
    awake,      \* IdleInhibitManager: some inhibitor counts
    changes,    \* Changed(bool), fired and not handled
    heldOff,    \* IdleNotifier: what it was told last
    notices,    \* notification -> what it is, its timer, what its client was told
    present     \* the user is there
idleVars == <<inhibitors, awake, changes, heldOff, notices, present>>

IdleTypeOK ==
    /\ inhibitors \in [Inhibitors -> {"none", "visible", "hidden"}]
    /\ awake \in BOOLEAN /\ heldOff \in BOOLEAN /\ present \in BOOLEAN
    /\ changes \in Seq(BOOLEAN)
    /\ notices \in [Notices -> [alive : BOOLEAN, inputOnly : BOOLEAN, idled : BOOLEAN, armed : BOOLEAN]]

InhibitorsInit ==
    /\ inhibitors = [i \in Inhibitors |-> "none"]
    /\ awake = FALSE /\ changes = <<>>

\* Which notifications their clients will ask to be of input only.
NoticesInit ==
    /\ heldOff = FALSE
    /\ notices \in [Notices -> [alive : {FALSE}, inputOnly : BOOLEAN, idled : {FALSE}, armed : {FALSE}]]

IdleInit == InhibitorsInit /\ NoticesInit /\ present = TRUE

-----------------------------------------------------------------------------
(* Inhibitors. *)

Counts(is) == \E i \in Inhibitors : is[i] = "visible"

\* recompute(): a change of the answer is news, and nothing else is.
Recompute(is) ==
    /\ inhibitors' = is /\ awake' = Counts(is)
    /\ IF awake' = awake THEN UNCHANGED changes
       ELSE Len(changes) < MaxChanges /\ changes' = Append(changes, awake')
    /\ UNCHANGED <<heldOff, notices, present>>

\* create_inhibitor: it counts until the compositor says that its surface is
\* hidden.  It goes with its resource, or with its surface.
CreateInhibitor(i) ==
    /\ inhibitors[i] = "none"
    /\ Recompute([inhibitors EXCEPT ![i] = "visible"])

SetVisible(i) ==
    /\ inhibitors[i] # "none"
    /\ Recompute([inhibitors EXCEPT ![i] = IF @ = "visible" THEN "hidden" ELSE "visible"])

DestroyInhibitor(i) ==
    /\ inhibitors[i] # "none"
    /\ Recompute([inhibitors EXCEPT ![i] = "none"])

-----------------------------------------------------------------------------
(* Notifications. *)

\* rearm(): whoever was told "idled" is told "resumed"; the countdown restarts,
\* unless an inhibitor holds it off.
Rearmed(n, held) ==
    IF ~n.alive THEN n ELSE [n EXCEPT !.idled = FALSE, !.armed = n.inputOnly \/ ~held]

CreateNotice(n) ==
    /\ ~notices[n].alive
    /\ notices' = [notices EXCEPT ![n] = Rearmed([@ EXCEPT !.alive = TRUE], heldOff)]
    /\ UNCHANGED <<inhibitors, awake, changes, heldOff, present>>

DestroyNotice(n) ==
    /\ notices[n].alive
    /\ notices' = [notices EXCEPT ![n] = [@ EXCEPT !.alive = FALSE, !.idled = FALSE, !.armed = FALSE]]
    /\ UNCHANGED <<inhibitors, awake, changes, heldOff, present>>

\* fire(): the one-shot timer ran out.
TimerFires(n) ==
    /\ notices[n].armed
    /\ LET old == notices[n]
       IN notices' = [notices EXCEPT ![n] = [old EXCEPT
              !.armed = FALSE, !.idled = old.idled \/ old.inputOnly \/ ~heldOff]]
    /\ UNCHANGED <<inhibitors, awake, changes, heldOff, present>>

\* notify_activity(), of an input event.
NotifyActivity ==
    /\ present
    /\ notices' = [n \in Notices |-> Rearmed(notices[n], heldOff)]
    /\ UNCHANGED <<inhibitors, awake, changes, heldOff, present>>

UserComesOrGoes ==
    /\ present' = ~present
    /\ UNCHANGED <<inhibitors, awake, changes, heldOff, notices>>

\* Mutant: the end of an inhibition is left to the next activity.
SetInhibited_Waits(n, held) ==
    IF n.inputOnly \/ ~n.alive THEN n
    ELSE [n EXCEPT !.idled = FALSE, !.armed = IF held THEN FALSE ELSE @]

\* set_inhibited(): those that heed inhibitors resume, and count again, from the
\* start, once nothing inhibits.
SetInhibited(n, held) ==
    IF n.inputOnly \/ ~n.alive THEN n ELSE Rearmed(n, held)

\* The compositor handles Changed.
HandleChanged ==
    /\ changes # <<>>
    /\ changes' = Tail(changes) /\ heldOff' = Head(changes)
    /\ notices' = IF Head(changes) = heldOff THEN notices
                  ELSE [n \in Notices |-> SetInhibited(notices[n], Head(changes))]
    /\ UNCHANGED <<inhibitors, awake, present>>

IdleNext ==
    \/ \E i \in Inhibitors : CreateInhibitor(i) \/ SetVisible(i) \/ DestroyInhibitor(i)
    \/ \E n \in Notices : CreateNotice(n) \/ DestroyNotice(n) \/ TimerFires(n)
    \/ NotifyActivity \/ UserComesOrGoes \/ HandleChanged

\* The display's loop runs its timers, and the compositor handles its events.
IdleFairness == WF_idleVars(HandleChanged) /\ \A n \in Notices : WF_idleVars(TimerFires(n))

IdleSpec == IdleInit /\ [][IdleNext]_idleVars /\ IdleFairness

-----------------------------------------------------------------------------
\* A countdown is neither lost nor left over: a notification that is not idle
\* counts exactly while nothing holds it off, one that is idle is not held off,
\* and the notifier holds off what the inhibitors ask for once the news is
\* handled.
CountdownKept ==
    /\ \A n \in Notices :
          LET held == heldOff /\ ~notices[n].inputOnly
          IN notices[n].alive => /\ notices[n].idled => ~held /\ ~notices[n].armed
                                 /\ ~notices[n].idled => notices[n].armed = ~held
    /\ heldOff = IF changes = <<>> THEN Counts(inhibitors) ELSE ~changes[1]

\* A client that stays to be told that the user is away is told, once he is gone
\* for good and nothing it heeds keeps the session awake.
IdleReported ==
    \A n \in Notices :
        <>[](/\ notices[n].alive /\ ~present
             /\ notices[n].inputOnly \/ ~Counts(inhibitors))
        => <>[](notices[n].idled)
=============================================================================
