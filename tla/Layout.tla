-------------------------------- MODULE Layout --------------------------------
(***************************************************************************)
(* Where the outputs are, and the pointer that is kept among them:         *)
(* OutputLayout and Pointer of bindings/rust/src/shell.rs.  Tops are       *)
(* aligned, so that an output is where it begins and how wide it is.       *)
(***************************************************************************)
EXTENDS Integers, Positions, SequencesExt, FiniteSetsExt

CONSTANTS
    Monitors,   \* outputs
    Widths,     \* of the modes they have; even, and in the layout's units
    Places,     \* where the compositor puts outputs, and the pointer is moved to
    MaxX        \* bound: where an output may begin

ASSUME LayoutAssumption == Places \subseteq Int /\ Widths \subseteq Nat /\ MaxX \in Int

VARIABLES
    plugged,    \* outputs that exist
    widths,     \* output -> that of its current mode
    boxes,      \* OutputLayout::outputs_: in the order they were placed
    cursor,     \* Pointer; "panicked" when clamp() found no room
    settled     \* history: the layout is as it was when the pointer last moved
layoutVars == <<plugged, widths, boxes, cursor, settled>>

LayoutTypeOK ==
    /\ plugged \subseteq Monitors /\ widths \in [Monitors -> Widths]
    /\ boxes \in Seq([output : Monitors, x : Int, width : Widths])
    /\ cursor \in [x : Int, present : BOOLEAN, panicked : BOOLEAN] /\ settled \in BOOLEAN

Pointer == [x |-> 0, present |-> FALSE, panicked |-> FALSE]

LayoutInit ==
    /\ plugged = Monitors /\ widths \in [Monitors -> Widths]
    /\ boxes = <<>> /\ cursor = Pointer /\ settled = FALSE

-----------------------------------------------------------------------------
(* OutputLayout. *)

Placed == {b.output : b \in ToSet(boxes)}
BoxOf(m) == CHOOSE b \in ToSet(boxes) : b.output = m

\* Right of everything placed so far, whatever else m is at.
RightEdge(m) == Max({0} \cup {b.x + b.width : b \in {c \in ToSet(boxes) : c.output # m}})

\* add(): once more moves it, and it keeps its turn.
Put(m, x) ==
    LET box == [output |-> m, x |-> x, width |-> widths'[m]]
    IN boxes' = IF m \in Placed
                THEN [i \in DOMAIN boxes |-> IF boxes[i].output = m THEN box ELSE boxes[i]]
                ELSE Append(boxes, box)

LayoutChange == settled' = FALSE /\ UNCHANGED cursor

AddOutput(m, x) == m \in plugged /\ UNCHANGED <<plugged, widths>> /\ Put(m, x) /\ LayoutChange

AddAuto(m) == RightEdge(m) <= MaxX /\ AddOutput(m, RightEdge(m))

Without(m) == Picked(boxes, {i \in DOMAIN boxes : boxes[i].output # m})

RemoveOutput(m) ==
    /\ m \in Placed
    /\ boxes' = Without(m) /\ LayoutChange /\ UNCHANGED <<plugged, widths>>

\* Of the outputs: a mode switch moves the edge, and who is unplugged leaves.
ModeChanged(m, w) ==
    /\ m \in plugged /\ w # widths[m]
    /\ widths' = [widths EXCEPT ![m] = w]
    /\ IF m \in Placed THEN Put(m, BoxOf(m).x) /\ LayoutChange ELSE UNCHANGED <<boxes, cursor, settled>>
    /\ UNCHANGED plugged

Unplugged(m) ==
    /\ m \in plugged /\ plugged' = plugged \ {m}
    /\ boxes' = Without(m)
    /\ IF m \in Placed THEN LayoutChange ELSE UNCHANGED <<cursor, settled>>
    /\ UNCHANGED widths

PluggedIn(m) ==
    /\ m \notin plugged /\ plugged' = plugged \cup {m}
    /\ UNCHANGED <<widths, boxes, cursor, settled>>

-----------------------------------------------------------------------------
(* The pointer. *)

\* The box around every output; an empty one at the origin without any.
Bounds ==
    IF boxes = <<>> THEN [x |-> 0, width |-> 0]
    ELSE LET left == Min({b.x : b \in ToSet(boxes)})
         IN [x |-> left, width |-> Max({b.x + b.width : b \in ToSet(boxes)}) - left]

\* Mutant: the last pixel of an empty box is before its first.
LastPixel_Before(origin, extent) == origin + extent - 1

\* The last pixel of a side, which is its first when there is none.
LastPixel(origin, extent) == Max({origin + extent - 1, origin})

MoveTo(x) ==
    LET lo == Bounds.x
        hi == LastPixel(Bounds.x, Bounds.width)
    IN /\ cursor' = IF lo > hi THEN [cursor EXCEPT !.panicked = TRUE]
                    ELSE [cursor EXCEPT !.x = Max({lo, Min({x, hi})}), !.present = TRUE]
       /\ settled' = TRUE
       /\ UNCHANGED <<plugged, widths, boxes>>

\* A pointer that was away comes in at the middle.
MoveBy(dx) ==
    MoveTo((IF cursor.present THEN cursor.x ELSE Bounds.x + Bounds.width \div 2) + dx)

LeavePointer ==
    /\ cursor.present
    /\ cursor' = [cursor EXCEPT !.present = FALSE]
    /\ UNCHANGED <<plugged, widths, boxes, settled>>

-----------------------------------------------------------------------------
Arranges == \E m \in Monitors :
    \/ \E x \in Places : AddOutput(m, x)
    \/ AddAuto(m) \/ RemoveOutput(m)
    \/ \E w \in Widths : ModeChanged(m, w)

LayoutNext ==
    \/ Arranges
    \/ \E m \in Monitors : Unplugged(m) \/ PluggedIn(m)
    \/ \E x \in Places : MoveTo(x) \/ MoveBy(x) \/ MoveBy(-x)
    \/ LeavePointer

LayoutSpec == LayoutInit /\ [][LayoutNext]_layoutVars

-----------------------------------------------------------------------------
(* Properties. *)

\* However outputs come, go, move and change their modes under it, and even
\* with none left, moving the pointer brings it into the box around them; no
\* output is in the layout twice, nor after it was unplugged.
PointerKept ==
    /\ ~cursor.panicked
    /\ cursor.present /\ settled => cursor.x \in Bounds.x .. LastPixel(Bounds.x, Bounds.width)
    /\ Placed \subseteq plugged
    /\ \A i, j \in DOMAIN boxes : boxes[i].output = boxes[j].output => i = j
=============================================================================
