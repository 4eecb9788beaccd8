----------------------------- MODULE LayerPanels -----------------------------
(***************************************************************************)
(* Panels and wallpapers: the layer shell (layer_shell.cppm, protocol/     *)
(* layer_shell.rs) and the LayerManager that lays them out on an output    *)
(* (shell/layer.cppm, shell.rs).  A commit changes what a surface wants;   *)
(* the compositor hears of it later, lays the output out again, and the    *)
(* layout configures the surfaces.  Kept: the vertical axis.  Left out:    *)
(* the horizontal one, margins, and the popups of a panel.                 *)
(***************************************************************************)
EXTENDS Integers, Positions, SequencesExt

CONSTANTS
    Panels,     \* layer surfaces clients may make
    Wants,      \* what they may ask for: layer, height (0: yours), zone, edges
    Height,     \* of the output, which holds every zone asked for
    MaxNews,    \* bound: events fired and not handled
    NoSize      \* "never configured"

ASSUME PanelAssumption ==
    /\ Height \in Nat \ {0} /\ MaxNews \in Nat \ {0}
    /\ \A w \in Wants : /\ w.layer \in 0..3 /\ w.height \in Nat /\ w.zone \in Int
                        /\ w.edge \in {"top", "bottom", "both"}
                        /\ w.height = 0 => w.edge = "both"    \* validate()

VARIABLES
    panels,     \* surface -> the layer surface's state
    news,       \* layer events fired and not handled
    managed,    \* LayerManager: its surfaces, in the order they were added
    placed,     \* surface -> what the manager keeps of it
    usableArea  \* what the last layout left, from and to
panelVars == <<panels, news, managed, placed, usableArea>>

\* What a new surface has asked for: its layer.
Unasked(layer) == [layer |-> layer, height |-> 0, zone |-> 0, edge |-> "none"]

\* LayerSurface: its getters report the committed state.
LayerSurface ==
    [alive : BOOLEAN, gone : BOOLEAN, closed : BOOLEAN, committed : BOOLEAN, configured : BOOLEAN,
     mapped : BOOLEAN, want : Wants \cup {Unasked(l) : l \in 0..3}, told : 0..Height \cup {NoSize}]

LayerSurfaceEvent == [kind : {"Created", "Map", "Unmap", "Destroy", "StateChange"}, of : Panels]

PanelsTypeOK ==
    /\ panels \in [Panels -> LayerSurface]
    /\ news \in Seq(LayerSurfaceEvent)
    /\ managed \in Seq(Panels)
    /\ placed \in [Panels -> [mapped : BOOLEAN, top : 0..Height, height : 0..Height]]
    /\ usableArea \in (0..Height) \X (0..Height)

NotPlaced == [mapped |-> FALSE, top |-> 0, height |-> 0]

PanelsInit ==
    /\ panels = [p \in Panels |->
                   [alive |-> FALSE, gone |-> FALSE, closed |-> FALSE, committed |-> FALSE, configured |-> FALSE,
                    mapped |-> FALSE, want |-> Unasked(0), told |-> NoSize]]
    /\ news = <<>> /\ managed = <<>>
    /\ placed = [p \in Panels |-> NotPlaced]
    /\ usableArea = <<0, Height>>

-----------------------------------------------------------------------------
(* The layer shell. *)

Fire(kinds, p) ==
    /\ Len(news) + Len(kinds) <= MaxNews
    /\ news' = news \o [i \in 1..Len(kinds) |-> [kind |-> kinds[i], of |-> p]]

\* configure(): nothing to nobody, and the same size is not sent twice.
Configured(x, height) ==
    IF x.closed \/ ~x.committed \/ (x.configured /\ x.told = height) THEN x
    ELSE [x EXCEPT !.configured = TRUE, !.told = height]

\* get_layer_surface(), once for each of Panels.
GetLayerSurface(p, layer) ==
    /\ ~panels[p].alive /\ ~panels[p].gone
    /\ panels' = [panels EXCEPT ![p] = [@ EXCEPT !.alive = TRUE, !.want = Unasked(layer)]]
    /\ Fire(<<"Created">>, p)
    /\ UNCHANGED <<managed, placed, usableArea>>

\* The first commit of a surface, with no buffer: the compositor is told, and a
\* client that named its size is answered right away.
InitialCommit(p, w) ==
    LET x == [panels[p] EXCEPT !.want = w, !.committed = TRUE]
    IN /\ panels[p].alive /\ ~panels[p].closed /\ ~panels[p].configured
       /\ panels' = [panels EXCEPT ![p] = IF w.height > 0 THEN Configured(x, w.height) ELSE x]
       /\ Fire(<<"StateChange">>, p)
       /\ UNCHANGED <<managed, placed, usableArea>>

\* Mutant: the layout is asked for when a surface maps or unmaps, and not otherwise.
Commit_Quiet(p, w, buffer) ==
    LET x == [panels[p] EXCEPT !.want = w]
    IN /\ panels[p].alive /\ ~panels[p].closed /\ panels[p].configured
       /\ \/ /\ buffer /\ ~panels[p].mapped
             /\ panels' = [panels EXCEPT ![p] = [x EXCEPT !.mapped = TRUE]]
             /\ Fire(<<"Map">>, p)
          \/ /\ ~buffer /\ panels[p].mapped
             /\ panels' = [panels EXCEPT ![p] = [x EXCEPT !.mapped = FALSE, !.configured = FALSE,
                                                          !.told = 0]]
             /\ Fire(<<"Unmap">>, p)
          \/ /\ buffer = panels[p].mapped
             /\ panels' = [panels EXCEPT ![p] = x]
             /\ Fire(<<>>, p)
       /\ UNCHANGED <<managed, placed, usableArea>>

\* A commit of a surface that was configured, with a buffer or without one.
Commit(p, w, buffer) ==
    LET dirty == IF w # panels[p].want THEN <<"StateChange">> ELSE <<>>
        x == [panels[p] EXCEPT !.want = w]
    IN /\ panels[p].alive /\ ~panels[p].closed /\ panels[p].configured
       /\ \/ /\ buffer /\ ~panels[p].mapped
             /\ panels' = [panels EXCEPT ![p] = [x EXCEPT !.mapped = TRUE]]
             /\ Fire(dirty \o <<"Map">>, p)
          \/ /\ ~buffer /\ panels[p].mapped
             /\ panels' = [panels EXCEPT ![p] = [x EXCEPT !.mapped = FALSE, !.configured = FALSE,
                                                          !.told = 0]]
             /\ Fire(dirty \o <<"Unmap">>, p)
          \/ /\ buffer = panels[p].mapped
             /\ panels' = [panels EXCEPT ![p] = x]
             /\ Fire(dirty, p)
       /\ UNCHANGED <<managed, placed, usableArea>>

\* The object goes; the manager, which watches it, drops it in the same breath.
DestroyPanel(p) ==
    /\ panels[p].alive
    /\ panels' = [panels EXCEPT ![p] = [@ EXCEPT !.alive = FALSE, !.gone = TRUE, !.mapped = FALSE]]
    /\ Fire(IF panels[p].mapped THEN <<"Unmap", "Destroy">> ELSE <<"Destroy">>, p)
    /\ managed' = Picked(managed, {i \in DOMAIN managed : managed[i] # p})
    /\ placed' = [placed EXCEPT ![p] = NotPlaced]
    /\ UNCHANGED usableArea

-----------------------------------------------------------------------------
(* The layout. *)

\* Lower layers first, and in a layer those that keep a zone; as added among equals.
Rank(w) == 2 * w.layer + (IF w.zone > 0 THEN 0 ELSE 1)

Ordered(order, wants) ==
    LET before(p, q) == \/ Rank(wants[p]) < Rank(wants[q])
                        \/ /\ Rank(wants[p]) = Rank(wants[q])
                           /\ \E i, j \in DOMAIN order : i < j /\ order[i] = p /\ order[j] = q
        all == ToSet(order)
    IN [i \in 1..Cardinality(all) |->
            CHOOSE p \in all : Cardinality({q \in all : before(q, p)}) = i - 1]

\* arrange_layer_surface(): where it goes in what is left, and what it leaves.
BoxIn(w, area) ==
    LET size == IF w.height = 0 THEN area[2] - area[1] ELSE w.height
    IN [top |-> CASE w.height = 0 \/ w.edge = "top" -> area[1]
                  [] w.edge = "both" -> area[1] + (area[2] - area[1] - size) \div 2
                  [] OTHER -> area[2] - size,
        height |-> size]

Taken(w, area) ==
    CASE w.zone > 0 /\ w.edge = "top"    -> <<area[1] + w.zone, area[2]>>
      [] w.zone > 0 /\ w.edge = "bottom" -> <<area[1], area[2] - w.zone>>
      [] OTHER -> area

\* What is left when the first n of them have been laid out.
Left(order, wants, mapped) ==
    LET left[n \in 0..Len(order)] ==
            IF n = 0 THEN <<0, Height>>
            ELSE IF mapped[order[n]] THEN Taken(wants[order[n]], left[n - 1])
            ELSE left[n - 1]
    IN left

\* LayerManager::arrange(): the box of every surface, and what is left to windows.
Arrange(order, wants, mapped) ==
    LET sorted == Ordered(order, wants)
        left == Left(sorted, wants, mapped)
        box == [i \in 1..Len(sorted) |->
                   LET w == wants[sorted[i]]
                   IN BoxIn(w, IF w.zone = -1 THEN <<0, Height>> ELSE left[i - 1])]
    IN [box |-> [p \in ToSet(order) |-> box[CHOOSE i \in 1..Len(sorted) : sorted[i] = p]],
        usable |-> left[Len(sorted)]]

Wanted == [p \in Panels |-> panels[p].want]

\* Every surface gets its box, and is configured to it.
LaidOut(order, mapped) ==
    LET after == Arrange(order, Wanted, mapped)
    IN /\ panels' = [p \in Panels |-> IF p \in ToSet(order) THEN Configured(panels[p], after.box[p].height)
                                      ELSE panels[p]]
       /\ placed' = [p \in Panels |->
              IF p \in ToSet(order)
              THEN [mapped |-> mapped[p], top |-> after.box[p].top, height |-> after.box[p].height]
              ELSE placed[p]]
       /\ usableArea' = after.usable

\* The compositor handles an event: it puts a new surface on the output, tells
\* the manager which are mapped, and lays the output out again.
HandlePanel ==
    /\ news # <<>>
    /\ LET e == Head(news)
           order == IF e.kind = "Created" /\ panels[e.of].alive THEN Append(managed, e.of) ELSE managed
       IN /\ managed' = order
          /\ LaidOut(order, [p \in ToSet(order) |->
                IF p = e.of /\ e.kind \in {"Map", "Unmap"} THEN e.kind = "Map" ELSE placed[p].mapped])
    /\ news' = Tail(news)

\* close_output(): the monitor went away.
CloseOutput ==
    /\ \E i \in DOMAIN managed : ~panels[managed[i]].closed
    /\ LET unmapped == Picked(managed, {i \in DOMAIN managed : panels[managed[i]].mapped})
       IN /\ Len(news) + Len(unmapped) <= MaxNews
          /\ news' = news \o [i \in 1..Len(unmapped) |-> [kind |-> "Unmap", of |-> unmapped[i]]]
          /\ panels' = [p \in Panels |-> IF p \in ToSet(managed)
                          THEN [panels[p] EXCEPT !.closed = TRUE, !.mapped = FALSE] ELSE panels[p]]
    /\ UNCHANGED <<managed, placed, usableArea>>

PanelsNext ==
    \/ \E p \in Panels, w \in Wants :
          GetLayerSurface(p, w.layer) \/ InitialCommit(p, w) \/ \E b \in BOOLEAN : Commit(p, w, b)
    \/ \E p \in Panels : DestroyPanel(p)
    \/ HandlePanel \/ CloseOutput

PanelsSpec == PanelsInit /\ [][PanelsNext]_panelVars

-----------------------------------------------------------------------------
\* Once the compositor has handled what it was told, nothing about the output is
\* out of date: every surface that still counts has been answered, at the size
\* of the box it is drawn in, that box and the area left to windows are those a
\* fresh layout would give, and the manager takes for mapped what is mapped
\* (LayerSurfaceEvent: "lay the output out again").
PanelsLaidOut ==
    news = <<>> =>
        /\ \A p \in Panels : panels[p].alive =>
              /\ placed[p].mapped = panels[p].mapped
              /\ panels[p].committed /\ ~panels[p].closed =>
                    panels[p].configured /\ panels[p].told = placed[p].height
        /\ LET fresh == Arrange(managed, Wanted, [p \in ToSet(managed) |-> placed[p].mapped])
           IN /\ usableArea = fresh.usable
              /\ \A p \in DOMAIN fresh.box :
                    placed[p].top = fresh.box[p].top /\ placed[p].height = fresh.box[p].height

\* "0: none, but keep out of other surfaces' zones" (LayerSurface::exclusive_
\* zone()): in a finished layout a surface with no zone does not lie in the zone
\* another one keeps.  Does not hold: a surface of a lower layer is laid out
\* before the zones above it are taken.
KeepsOut ==
    news = <<>> =>
        \A p, q \in Panels :
            (/\ p # q /\ panels[p].mapped /\ panels[q].mapped
             /\ panels[p].want.zone = 0 /\ panels[q].want.zone > 0 /\ panels[q].want.edge = "top")
            => placed[p].top >= placed[q].top + panels[q].want.zone
=============================================================================
