------------------------------ MODULE MCBindings ------------------------------
(***************************************************************************)
(* The parts of the Rust bindings that do not touch each other, each on an *)
(* instance of its own: a behaviour runs one of them, and the others stand *)
(* still where they began.                                                 *)
(***************************************************************************)
EXTENDS EventStream, MinimalLoop, Geometry, LoopTurns, Regions

CONSTANT Parts      \* the parts a run looks at

VARIABLE part       \* the one that runs

MCTravel == {-3, 1}

\* Of a screen of 3 by 3: all of it, its middle, rows, columns, corners, halves.
MCBoxes ==
    {Span(0, 0, 3, 3), Span(1, 1, 2, 2), Span(0, 0, 3, 1), Span(1, 0, 2, 3), Span(0, 0, 1, 1),
     Span(0, 2, 2, 3), Span(1, 1, 1, 2)}

\* A window at rest, for the behaviours that are not about geometry.
GeoRest ==
    LET r == [x |-> 0, y |-> 0, width |-> 2, height |-> 2]
    IN /\ start = r /\ window = r /\ other = r
       /\ edges = "none" /\ least = [x |-> 2, y |-> 2]
       /\ turned = [by |-> "Normal", size |-> [x |-> 2, y |-> 2]]
       /\ at = [x |-> 0, y |-> 0]

MCInit ==
    /\ part \in Parts
    /\ StreamInit /\ MinimalInit /\ LoopInit /\ RegionInit
    /\ IF part = "geometry" THEN GeoInit ELSE GeoRest
    /\ part # "minimal" => area = 1
    /\ part # "loop" => driver = CHOOSE d \in Drivers : TRUE

MCNext ==
    /\ part' = part
    /\ \/ part = "stream"   /\ StreamNext  /\ UNCHANGED <<minimalVars, geoVars, loopVars, regionVars>>
       \/ part = "minimal"  /\ MinimalNext /\ UNCHANGED <<streamVars, geoVars, loopVars, regionVars>>
       \/ part = "geometry" /\ GeoNext     /\ UNCHANGED <<streamVars, minimalVars, loopVars, regionVars>>
       \/ part = "loop"     /\ LoopNext    /\ UNCHANGED <<streamVars, minimalVars, geoVars, regionVars>>
       \/ part = "regions"  /\ RegionNext  /\ UNCHANGED <<streamVars, minimalVars, geoVars, loopVars>>

MCVars == <<part, streamVars, minimalVars, geoVars, loopVars, regionVars>>

\* The fairness of each part, while it is the one that runs.
MCFairness ==
    /\ WF_streamVars(part = "stream" /\ Collect)
    /\ WF_streamVars(part = "stream" /\ \E keep \in BOOLEAN : HandleEvent(keep))
    /\ WF_loopVars(part = "loop" /\ LoopTurn)
    /\ WF_loopVars(part = "loop" /\ FrameDue)

MCSpec == MCInit /\ [][MCNext]_MCVars /\ MCFairness
=============================================================================
