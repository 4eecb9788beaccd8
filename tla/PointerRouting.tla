---------------------------- MODULE PointerRouting ----------------------------
(***************************************************************************)
(* The pointer: InputRouter and ScreenManager of bindings/rust/src/shell.rs*)
(* and the C++ behind them.  The router picks the surface under the        *)
(* pointer in the scene it was last told; the seat keeps focus, implicit   *)
(* grab and drag; constraints and popup grabs hang on the focus; and each  *)
(* of them may change under the others.                                    *)
(***************************************************************************)
EXTENDS Naturals, Sequences

CONSTANTS
    Windows,    \* surfaces
    Menus,      \* those of them that are popups which take a grab
    Constrained,\* those of them a client may lock or confine the pointer to
    Spots,      \* places the pointer may be
    Scenes,     \* scenes: what lies at a spot, topmost first
    Buttons,
    None        \* no surface; an item that is none; no spot

\* What a scene lists and input may land on: a surface, or what the compositor
\* paints itself (a rectangle, a border, an image).
SceneItem == Windows \cup {None}

ASSUME PointerAssumption ==
    /\ None \notin Windows \cup Spots
    /\ Menus \subseteq Windows /\ Constrained \subseteq Windows
    /\ Scenes \subseteq [Spots -> Seq(SceneItem)]

VARIABLES
    alive,      \* surfaces that exist
    scene,      \* the list ScreenManager was told
    at,         \* where the cursor is; None after it left
    held,       \* buttons the input source has reported down
    seat,       \* ptr_focus, ptr_grab, ptr_buttons, dragging; drag_focus
    bonds,      \* pointer constraints
    menus,      \* popups: "none", "open" with its grab, "done"
    told,       \* history: who was told the pointer is over it, and the buttons
    moot        \* history: what lies under the pointer changed by itself
pointerVars == <<alive, scene, at, held, seat, bonds, menus, told, moot>>

Bond == [type : {"none", "locked", "confined"}, oneshot : BOOLEAN, state : {"idle", "active", "spent"}]
NoBond == [type |-> "none", oneshot |-> FALSE, state |-> "idle"]

PointerTypeOK ==
    /\ alive \subseteq Windows /\ scene \in Scenes /\ at \in Spots \cup {None}
    /\ held \subseteq Buttons
    /\ seat \in [focus : Windows \cup {None}, grab : Windows \cup {None}, buttons : SUBSET Buttons,
                 dragging : BOOLEAN, offered : Windows \cup {None}]
    /\ bonds \in [Constrained -> Bond]
    /\ menus \in [Menus -> {"none", "open", "done"}]
    /\ told \in [over : SUBSET Windows, buttons : [Windows -> SUBSET Buttons]]
    /\ moot \in BOOLEAN

PointerInit ==
    /\ alive = Windows /\ scene \in Scenes /\ at = None /\ held = {}
    /\ seat = [focus |-> None, grab |-> None, buttons |-> {}, dragging |-> FALSE, offered |-> None]
    /\ bonds = [w \in Constrained |-> NoBond]
    /\ menus = [m \in Menus |-> "none"]
    /\ told = [over |-> {}, buttons |-> [w \in Windows |-> {}]]
    /\ moot = FALSE

-----------------------------------------------------------------------------
(* The seat's calls: x is what they may change. *)

State == [seat |-> seat, bonds |-> bonds, told |-> told]
Becomes(x) == seat' = x.seat /\ bonds' = x.bonds /\ told' = x.told

Active(x) == {w \in Constrained : x.bonds[w].state = "active"}
Locked(x) == \E w \in Active(x) : x.bonds[w].type = "locked"

Deactivated(b) == [b EXCEPT !.state = IF b.oneshot THEN "spent" ELSE "idle"]

\* Mutant: the constraints do not hear of a change of the focus.
FocusChanged_Unheard(x) == x

\* pointer_focus_changed: the active constraint ends, unless its surface has it.
FocusChanged(x) ==
    [x EXCEPT !.bonds = [w \in Constrained |->
        IF w \in Active(x) /\ w # x.seat.focus THEN Deactivated(@[w]) ELSE @[w]]]

\* The client hears that the pointer left; buttons it holds go with it.
Leave(t, w) == [over |-> t.over \ {w}, buttons |-> [t.buttons EXCEPT ![w] = {}]]

PointerClearFocus(x) ==
    LET w == x.seat.focus IN
    IF x.seat.grab # None \/ w = None THEN x
    ELSE IF x.seat.dragging THEN [x EXCEPT !.seat.focus = None, !.seat.offered = None]
    ELSE FocusChanged([x EXCEPT !.seat.focus = None, !.told = Leave(@, w)])

\* Mutant: an enter that goes past the grab.
PointerEnter_PastGrab(x, w) ==
    IF x.seat.focus = w THEN x
    ELSE LET y == PointerClearFocus(x) IN
         FocusChanged([y EXCEPT !.seat.focus = w, !.told.over = @ \cup {w}])

\* pointer_enter(): a grab outranks the hit test; a drag has the pointer for
\* itself, and its hook is told instead of the client.
PointerEnter(x, w) ==
    IF x.seat.grab # None \/ x.seat.focus = w THEN x
    ELSE IF x.seat.dragging THEN [x EXCEPT !.seat.focus = w, !.seat.offered = w]
    ELSE LET y == PointerClearFocus(x) IN
         FocusChanged([y EXCEPT !.seat.focus = w, !.told.over = @ \cup {w}])

BeginDrag(x) ==
    LET y == PointerClearFocus([x EXCEPT !.seat.grab = None, !.seat.buttons = {}]) IN
    [y EXCEPT !.seat.dragging = TRUE, !.seat.focus = x.seat.focus, !.seat.offered = x.seat.focus]

\* end_drag(): the pointer is handed back to what it is over.
EndDrag(x) ==
    LET y == [x EXCEPT !.seat.dragging = FALSE, !.seat.focus = None, !.seat.offered = None] IN
    IF x.seat.focus = None THEN y ELSE PointerEnter(y, x.seat.focus)

\* pointer_button(): the first press takes the grab, the last release ends it.
PointerButton(x, b, pressed) ==
    IF x.seat.dragging THEN IF pressed THEN x ELSE EndDrag(x)
    ELSE IF pressed
    THEN [x EXCEPT !.seat.grab = IF x.seat.buttons = {} THEN x.seat.focus ELSE @,
                   !.seat.buttons = @ \cup {b},
                   !.told.buttons[x.seat.focus] = @ \cup {b}]
    ELSE [x EXCEPT !.seat.buttons = @ \ {b},
                   !.seat.grab = IF x.seat.buttons \ {b} = {} THEN None ELSE @,
                   !.told.buttons[x.seat.focus] = @ \ {b}]

-----------------------------------------------------------------------------
(* The router. *)

\* The topmost item whose surface exists, or that is no surface, decides.
HitTest(sc, spot, living) ==
    LET items == sc[spot]
        takes(i) == items[i] \in living \cup {None}
        top == {i \in DOMAIN items : takes(i) /\ \A j \in 1..(i - 1) : ~takes(j)}
    IN IF top = {} THEN None ELSE items[CHOOSE i \in top : TRUE]

\* A constraint waiting on the surface the pointer is on takes the pointer;
\* any other gives way.
ActivateConstraint(x, inside) ==
    LET w == x.seat.focus IN
    IF w \in Constrained /\ inside /\ x.bonds[w].type # "none" /\ x.bonds[w].state = "idle"
    THEN [x EXCEPT !.bonds = [v \in Constrained |->
             IF v = w THEN [@[v] EXCEPT !.state = "active"]
             ELSE IF v \in Active(x) THEN Deactivated(@[v]) ELSE @[v]]]
    ELSE x

\* Mutant: the pick is put off until the pointer moves.
UpdatePointer_Later(x, sc, spot, living, inside) == x

\* update_pointer(), with the pointer at a spot, inside the constraint's region
\* or not.
UpdatePointer(x, sc, spot, living, inside) ==
    LET hit == HitTest(sc, spot, living) IN
    IF spot = None \/ Locked(x) THEN x
    ELSE ActivateConstraint(
             IF x.seat.grab # None /\ ~x.seat.dragging THEN x
             ELSE IF hit # None THEN PointerEnter(x, hit) ELSE PointerClearFocus(x), inside)

\* Whether a later pick would find something else: only while it was skipped.
Picked(x, spot) == moot' = (moot /\ (spot = None \/ Locked(x)))

\* set_scene(): the same list costs a compare, another picks again.
SetScene(sc, inside) ==
    /\ sc # scene
    /\ scene' = sc
    /\ Becomes(UpdatePointer(State, sc, at, alive, inside))
    /\ Picked(State, at)
    /\ UNCHANGED <<alive, at, held, menus>>

\* update_pointer() or invalidate() of the compositor, or the session is back.
Repick(inside) ==
    /\ Becomes(UpdatePointer(State, scene, at, alive, inside))
    /\ Picked(State, at)
    /\ UNCHANGED <<alive, scene, at, held, menus>>

\* Relative motion does not move a locked pointer; a confined one it moves
\* within its surface, as long as that is shown.
Motion(spot, inside) ==
    /\ ~Locked(State) /\ spot # at
    /\ \A w \in Active(State) : HitTest(scene, spot, alive) # w =>
            \A p \in Spots : HitTest(scene, p, alive) # w
    /\ at' = spot
    /\ Becomes(UpdatePointer(State, scene, spot, alive, inside))
    /\ Picked(State, spot)
    /\ UNCHANGED <<alive, scene, held, menus>>

\* Absolute motion moves the cursor whatever the lock says.
MotionAbsolute(spot, inside) ==
    /\ at' = spot
    /\ Becomes(UpdatePointer(State, scene, spot, alive, inside))
    /\ moot' = (Locked(State) /\ (moot \/ spot # at))
    /\ UNCHANGED <<alive, scene, held, menus>>

\* The pointer left a nested compositor's window, which its host does not let
\* happen while a button is held.
PointerLeave ==
    /\ held = {}
    /\ at' = None
    /\ Becomes(PointerClearFocus(State))
    /\ moot' = TRUE
    /\ UNCHANGED <<alive, scene, held, menus>>

\* A press closes the menus it is outside of, and still goes to the focus.
DismissGrabsOutside(s) ==
    [m \in Menus |-> IF menus[m] = "open" /\ ~(s \in Menus /\ menus[s] = "open") THEN "done"
                     ELSE menus[m]]

Press(b) ==
    /\ b \notin held
    /\ held' = held \cup {b}
    /\ menus' = DismissGrabsOutside(seat.focus)
    /\ Becomes(IF seat.focus = None THEN State ELSE PointerButton(State, b, TRUE))
    /\ UNCHANGED <<alive, scene, at, moot>>

\* A release reaches the seat if anything has the pointer, and picks again.
Release(b, inside) ==
    /\ b \in held
    /\ held' = held \ {b}
    /\ LET x == IF seat.focus = None THEN State ELSE PointerButton(State, b, FALSE) IN
       /\ Becomes(UpdatePointer(x, scene, at, alive, inside))
       /\ Picked(x, at)
    /\ UNCHANGED <<alive, scene, at, menus>>

-----------------------------------------------------------------------------
(* What clients do. *)

\* start_drag takes no heed of buttons or serials; a second one is ignored.
StartDrag ==
    /\ ~seat.dragging
    /\ Becomes(BeginDrag(State))
    /\ moot' = (moot \/ seat.grab # None \/ Locked(State))
    /\ UNCHANGED <<alive, scene, at, held, menus>>

\* The source of the drag is destroyed.
CancelDrag ==
    /\ seat.dragging
    /\ Becomes(EndDrag(State))
    /\ moot' = (moot \/ Locked(State))
    /\ UNCHANGED <<alive, scene, at, held, menus>>

Constrain(w, type, oneshot) ==
    /\ w \in alive /\ bonds[w].type = "none"
    /\ bonds' = [bonds EXCEPT ![w] = [type |-> type, oneshot |-> oneshot, state |-> "idle"]]
    /\ UNCHANGED <<alive, scene, at, held, seat, menus, told, moot>>

\* The constraint goes, and with it a lock that kept the pointer where it was.
Unconstrain(w) ==
    /\ bonds[w].type # "none"
    /\ bonds' = [bonds EXCEPT ![w] = NoBond]
    /\ moot' = (moot \/ Locked(State))
    /\ UNCHANGED <<alive, scene, at, held, seat, menus, told>>

\* PointerConstraint::activate() and deactivate(), by the compositor.
Activate(w) ==
    /\ w \in alive /\ seat.focus = w
    /\ bonds[w].type # "none" /\ bonds[w].state = "idle"
    /\ Becomes(ActivateConstraint(State, TRUE))
    /\ moot' = (moot \/ Locked(State))
    /\ UNCHANGED <<alive, scene, at, held, menus>>

Deactivate(w) ==
    /\ bonds[w].state = "active"
    /\ bonds' = [bonds EXCEPT ![w] = Deactivated(@)]
    /\ moot' = (moot \/ Locked(State))
    /\ UNCHANGED <<alive, scene, at, held, seat, menus, told>>

OpenMenu(m) ==
    /\ m \in alive /\ menus[m] = "none"
    /\ menus' = [menus EXCEPT ![m] = "open"]
    /\ UNCHANGED <<alive, scene, at, held, seat, bonds, told, moot>>

CloseMenu(m) ==
    /\ menus[m] # "none"
    /\ menus' = [menus EXCEPT ![m] = "none"]
    /\ UNCHANGED <<alive, scene, at, held, seat, bonds, told, moot>>

\* A surface dies: first its constraint and its popup, then the seat forgets it.
DestroyWindow(w) ==
    /\ w \in alive
    /\ alive' = alive \ {w}
    /\ menus' = [m \in Menus |-> IF m = w THEN "none" ELSE menus[m]]
    /\ LET freed == [State EXCEPT !.bonds = [v \in Constrained |-> IF v = w THEN NoBond ELSE @[v]],
                                  !.told = Leave(@, w)]
           loose == IF seat.grab # w THEN freed
                    ELSE [freed EXCEPT !.seat.grab = None, !.seat.buttons = {}]
           lost  == IF seat.focus # w THEN loose ELSE [loose EXCEPT !.seat.focus = None]
       IN Becomes(IF seat.focus # w \/ seat.dragging THEN lost ELSE FocusChanged(lost))
    /\ moot' = TRUE
    /\ UNCHANGED <<scene, at, held>>

PointerNext ==
    \/ \E inside \in BOOLEAN :
        \/ Repick(inside)
        \/ \E sc \in Scenes : SetScene(sc, inside)
        \/ \E spot \in Spots : Motion(spot, inside) \/ MotionAbsolute(spot, inside)
        \/ \E b \in Buttons : Release(b, inside)
    \/ PointerLeave \/ StartDrag \/ CancelDrag
    \/ \E b \in Buttons : Press(b)
    \/ \E w \in Constrained :
        \/ Unconstrain(w) \/ Activate(w) \/ Deactivate(w)
        \/ \E oneshot \in BOOLEAN, type \in {"locked", "confined"} : Constrain(w, type, oneshot)
    \/ \E m \in Menus : OpenMenu(m) \/ CloseMenu(m)
    \/ \E w \in Windows : DestroyWindow(w)

PointerSpec == PointerInit /\ [][PointerNext]_pointerVars

-----------------------------------------------------------------------------
\* A client believes that the pointer is over its surface exactly while the
\* seat has it there and no drag took it away; and no client is left with a
\* button down that the user has let go of, or that another surface's grab took.
ClientsKnowPointer ==
    /\ told.over = IF seat.focus = None \/ seat.dragging THEN {} ELSE {seat.focus}
    /\ \A w \in Windows : told.buttons[w] # {} =>
            told.buttons[w] \subseteq held \cap seat.buttons /\ seat.grab = w

\* The three things that may hold the pointer agree: a grab is the focus's and
\* lasts no longer than a button; one constraint is active at most, on the
\* surface that has the pointer, unless a drag moved it; and the surface that
\* has the pointer is what the scene shows under it, unless a grab, a lock or a
\* drag holds it, or nobody picked since something died.
HoldersAgree ==
    /\ seat.grab # None =>
        seat.focus = seat.grab /\ ~seat.dragging /\ seat.grab \in alive
    /\ seat.buttons \subseteq held /\ (seat.buttons = {} <=> seat.grab = None)
    /\ seat.focus # None => seat.focus \in alive
    /\ \A v, w \in Active(State) : v = w
    /\ \A w \in Active(State) : w \in alive /\ (seat.focus \in {w, None} \/ seat.dragging)
    /\ at # None /\ seat.grab = None /\ ~Locked(State) /\ ~moot =>
        seat.focus = HitTest(scene, at, alive)

\* Who has the pointer is one surface, and its client is the one that thinks so.
PointerSound == ClientsKnowPointer /\ HoldersAgree

\* What selection.rs says of a drag, and does not hold: the pointer belongs to it
\* until the button that began it is released.  A release over nothing never
\* reaches the seat.
ReleaseEndsDrag == [][held # {} /\ held' = {} => ~seat'.dragging]_pointerVars
=============================================================================
