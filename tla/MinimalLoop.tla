------------------------------ MODULE MinimalLoop ------------------------------
(***************************************************************************)
(* The compositor of examples/minimal.rs, over the shell of protocol/      *)
(* xdg_shell.rs.  A dispatch lets the library run: clients map and destroy *)
(* windows, a click picks in the scene told last and moves the keyboard.   *)
(* What happened is handled afterwards, in one turn: a stack of windows,   *)
(* the focus of its top, and the next scene are made of it.                *)
(***************************************************************************)
EXTENDS Positions, SequencesExt

CONSTANTS
    Tops,       \* surfaces clients make toplevels of
    Areas,      \* usable areas the first output may leave
    MaxEvents,  \* bound: events of one dispatch
    NoTop       \* "no window"

ASSUME MinimalAssumption == MaxEvents \in Nat \ {0}

VARIABLES
    tops,       \* surface -> its toplevel, mapped, its buffer, the size it was asked to take
    area,       \* layout.primary_box()
    focused,    \* XdgShell: the activated window
    keyboard,   \* Seat: who has the keyboard
    events,     \* what the dispatch left
    stack,      \* the compositor's windows, back to front
    usable,     \* the area it last read
    shown       \* the scene it told, back to front
minimalVars == <<tops, area, focused, keyboard, events, stack, usable, shown>>

Kinds == {"Created", "Map", "Unmap", "Destroy", "Button", "Cycle", "LayoutChanged"}

MinimalTypeOK ==
    /\ tops \in [Tops -> [role : BOOLEAN, mapped : BOOLEAN, buffer : BOOLEAN, size : Areas \cup {NoTop}]]
    /\ area \in Areas /\ usable \in Areas
    /\ focused \in Tops \cup {NoTop} /\ keyboard \in Tops \cup {NoTop}
    /\ events \in Seq([kind : Kinds, of : Tops \cup {NoTop}]) /\ Len(events) <= MaxEvents + 1
    /\ stack \in Seq(Tops) /\ shown \in Seq(Tops)

MinimalInit ==
    /\ tops = [w \in Tops |-> [role |-> FALSE, mapped |-> FALSE, buffer |-> FALSE, size |-> NoTop]]
    /\ area \in Areas /\ usable = area
    /\ focused = NoTop /\ keyboard = NoTop
    /\ events = <<>> /\ stack = <<>> /\ shown = <<>>

-----------------------------------------------------------------------------
(* What happens inside a dispatch. *)

Fired(kinds, w) ==
    /\ Len(events) < MaxEvents
    /\ events' = events \o [i \in 1..Len(kinds) |-> [kind |-> kinds[i], of |-> w]]
    /\ UNCHANGED <<stack, usable, shown>>

CreateWindow(w) ==
    /\ ~tops[w].role /\ ~tops[w].buffer
    /\ tops' = [tops EXCEPT ![w] = [@ EXCEPT !.role = TRUE, !.size = NoTop]]
    /\ Fired(<<"Created">>, w)
    /\ UNCHANGED <<area, focused, keyboard>>

\* A commit with a buffer, or without one.
MapWindow(w) ==
    /\ tops[w].role /\ ~tops[w].mapped
    /\ tops' = [tops EXCEPT ![w] = [@ EXCEPT !.mapped = TRUE, !.buffer = TRUE]]
    /\ Fired(<<"Map">>, w)
    /\ UNCHANGED <<area, focused, keyboard>>

UnmapWindow(w) ==
    /\ tops[w].mapped
    /\ tops' = [tops EXCEPT ![w] = [@ EXCEPT !.mapped = FALSE, !.buffer = FALSE]]
    /\ Fired(<<"Unmap">>, w)
    /\ UNCHANGED <<area, focused, keyboard>>

\* xdg_toplevel.destroy.  The shell forgets a focused window; the surface, its
\* buffer and the keyboard's focus stay.
DestroyWindowRole(w) ==
    /\ tops[w].role
    /\ tops' = [tops EXCEPT ![w] = [@ EXCEPT !.role = FALSE, !.mapped = FALSE]]
    /\ focused' = IF focused = w THEN NoTop ELSE focused
    /\ Fired(IF tops[w].mapped THEN <<"Unmap", "Destroy">> ELSE <<"Destroy">>, w)
    /\ UNCHANGED <<area, keyboard>>

\* The surface loses its buffer, or is destroyed and made anew.
EmptySurface(w) ==
    /\ ~tops[w].role /\ tops[w].buffer
    /\ tops' = [tops EXCEPT ![w].buffer = FALSE]
    /\ keyboard' \in {keyboard, IF keyboard = w THEN NoTop ELSE keyboard}
    /\ UNCHANGED <<area, focused, events, stack, usable, shown>>

\* A click lands on a surface with content in the scene told last.  If it is a
\* window, the router focuses it at once; the compositor hears of it later.
Click(w) ==
    /\ w \in ToSet(shown) /\ tops[w].buffer
    /\ IF tops[w].role THEN focused' = w /\ keyboard' = w ELSE UNCHANGED <<focused, keyboard>>
    /\ Fired(<<"Button">>, w)
    /\ UNCHANGED <<tops, area>>

PressCycle ==
    /\ Fired(<<"Cycle">>, NoTop)
    /\ UNCHANGED <<tops, area, focused, keyboard>>

ChangeLayout(a) ==
    /\ a # area
    /\ area' = a
    /\ Fired(<<"LayoutChanged">>, NoTop)
    /\ UNCHANGED <<tops, focused, keyboard>>

-----------------------------------------------------------------------------
(* The turn that handles it. *)

Without(s, w) == Picked(s, {i \in DOMAIN s : s[i] # w})

\* Mutant: a window raised before is in the stack twice.
Raise_Again(s, w) == Append(s, w)

\* raise(): once in the stack, and last.
Raise(s, w) == Append(Without(s, w), w)

\* Toplevel::configure() of every window that still is one.
Configure(t, who, a) == [w \in Tops |-> IF w \in who /\ t[w].role THEN [t[w] EXCEPT !.size = a] ELSE t[w]]

\* One event, on the stack, the usable area and what windows were asked.
\* LayoutChanged reads the layout as it is now.
HandleOne(x, e) ==
    CASE e.kind = "LayoutChanged" ->
            [x EXCEPT !.usable = area, !.tops = Configure(@, ToSet(x.stack), area)]
      [] e.kind = "Created" -> [x EXCEPT !.tops = Configure(@, {e.of}, x.usable)]
      [] e.kind \in {"Map", "Button"} -> [x EXCEPT !.stack = Raise(@, e.of)]
      [] e.kind \in {"Unmap", "Destroy"} -> [x EXCEPT !.stack = Without(@, e.of)]
      [] e.kind = "Cycle" ->
            [x EXCEPT !.stack = IF Len(@) > 1 THEN Tail(@) \o <<Head(@)>> ELSE @]

HandleAll ==
    LET handled[n \in 0..Len(events)] ==
            IF n = 0 THEN [stack |-> stack, usable |-> usable, tops |-> tops]
            ELSE HandleOne(handled[n - 1], events[n])
    IN handled[Len(events)]

Top(s) == IF s = <<>> THEN NoTop ELSE Last(s)

\* XdgShell::focus(): the toplevel, if the surface has one, is activated and
\* gets the keyboard; otherwise nobody does.
Focus(w) ==
    LET t == IF w # NoTop /\ tops[w].role THEN w ELSE NoTop IN
    focused' = t /\ keyboard' = t

\* dispatch() returned: every event is handled, the focus follows the top of
\* the stack if that is another, and the scene is told.
Turn ==
    /\ events # <<>>
    /\ events' = <<>>
    /\ stack' = HandleAll.stack /\ usable' = HandleAll.usable /\ tops' = HandleAll.tops
    /\ IF Top(HandleAll.stack) # Top(stack) THEN Focus(Top(HandleAll.stack))
       ELSE UNCHANGED <<focused, keyboard>>
    /\ shown' = LET s == HandleAll.stack IN Picked(s, {i \in DOMAIN s : tops[s[i]].role})
    /\ UNCHANGED area

MinimalNext ==
    \/ \E w \in Tops :
        \/ CreateWindow(w) \/ MapWindow(w) \/ UnmapWindow(w)
        \/ DestroyWindowRole(w) \/ EmptySurface(w) \/ Click(w)
    \/ PressCycle \/ Turn
    \/ \E a \in Areas : ChangeLayout(a)

MinimalSpec == MinimalInit /\ [][MinimalNext]_minimalVars

-----------------------------------------------------------------------------
\* After every turn, in whatever order windows came and went, the scene shows
\* each mapped window once and nothing that is no window any more, and the
\* newest of them is known to the area the outputs have now.
EveryWindowShown ==
    events = <<>> =>
        /\ \A w \in Tops : tops[w].mapped => Cardinality({i \in DOMAIN shown : shown[i] = w}) = 1
        /\ \A i \in DOMAIN shown : tops[shown[i]].role
        /\ usable = area

\* What minimal.rs says of its focus, and does not hold: the top window has the
\* keyboard and the activated look.  A click that is handled late puts a window
\* that is gone on top.
TopHasKeyboard == events = <<>> /\ stack # <<>> => keyboard = Last(stack) /\ focused = Last(stack)

\* What minimal.rs says of its windows, and does not hold: every one of them fills
\* the first output.  Those that are in no stack when the layout changes do not.
WindowsFill == events = <<>> => \A w \in Tops : tops[w].mapped => tops[w].size = area

\* And of its stack, which does not hold either: mapped windows, back to front.
\* A click that is handled late raises what has been unmapped.
StackIsMapped == events = <<>> => \A i \in DOMAIN stack : tops[stack[i]].mapped
=============================================================================
