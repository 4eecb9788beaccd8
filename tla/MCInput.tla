-------------------------------- MODULE MCInput --------------------------------
(***************************************************************************)
(* What is between a user and a client: keyboard, pointer, pens, the input *)
(* method, the tokens that move the focus and the screens that show it     *)
(* all, each on an instance of its own.  A behaviour runs one of them, and *)
(* the others stand still where they began.                                *)
(***************************************************************************)
EXTENDS KeyRouting, PointerRouting, TabletFeed, Services

CONSTANTS
    Parts,              \* the parts a run looks at
    w1, w2, m1,         \* two windows and a menu
    west, east,        \* the two spots
    o1, o2,             \* the two outputs
    a1, i1              \* what they show: a surface and an image

VARIABLE part           \* the one that runs

\* One window, two side by side, a menu over one of them and something that is
\* no surface under the other, and a desktop with nothing but that.
MCScenes ==
    {[s \in {west, east} |-> <<w1>>],
     [s \in {west, east} |-> IF s = west THEN <<w1>> ELSE <<w2>>],
     [s \in {west, east} |-> IF s = west THEN <<m1, w1>> ELSE <<w2, None>>],
     [s \in {west, east} |-> IF s = west THEN <<None>> ELSE <<>>]}

\* A window everywhere, and a picture on one of the two.
MCStories == {{[item |-> a1, on |-> "all"]}, {[item |-> i1, on |-> o2]}}

MCInit ==
    /\ part \in Parts
    /\ KeysInit /\ PointerInit /\ FeedInit /\ TextInit /\ ActivationInit /\ ManagerInit
    /\ part # "pointer" => scene = [s \in {west, east} |-> <<w1>>]
    /\ part # "pens" => seated = {}
    /\ part # "screens" => options.kind = "captures"

MCNext ==
    /\ part' = part
    /\ \/ /\ part = "keys" /\ KeysNext
          /\ UNCHANGED <<pointerVars, feedVars, textVars, activationVars, managerVars>>
       \/ /\ part = "pointer" /\ PointerNext
          /\ UNCHANGED <<keyVars, feedVars, textVars, activationVars, managerVars>>
       \/ /\ part = "pens" /\ FeedNext
          /\ UNCHANGED <<keyVars, pointerVars, textVars, activationVars, managerVars>>
       \/ /\ part = "text" /\ TextNext
          /\ UNCHANGED <<keyVars, pointerVars, feedVars, activationVars, managerVars>>
       \/ /\ part = "tokens" /\ ActivationNext
          /\ UNCHANGED <<keyVars, pointerVars, feedVars, textVars, managerVars>>
       \/ /\ part = "screens" /\ ManagerNext
          /\ UNCHANGED <<keyVars, pointerVars, feedVars, textVars, activationVars>>

MCVars == <<part, keyVars, pointerVars, feedVars, textVars, activationVars, managerVars>>
MCSpec == MCInit /\ [][MCNext]_MCVars

\* Drags begin while a client holds the pointer, as a drag of the user's does.
DragSpec ==
    MCInit /\ [][MCNext /\ (~seat.dragging /\ seat'.dragging => seat.grab # None)]_MCVars
=============================================================================
