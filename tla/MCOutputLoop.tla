---------------------------- MODULE MCOutputLoop ----------------------------
(* OutputLoop for TLC: which systems a run is about.                         *)
EXTENDS OutputLoop

Either(uses) == [gpu : BOOLEAN, uses : uses]

SafeSettings ==
    Either({{}, {"pointer", "colour", "returns"}, {"mode", "returns"}, {"vt", "asks"}, {"sprite"}})
    \cup [gpu : {TRUE}, uses : {{"pointer", "refuse"}, {"vt", "pointer"}}]
    \cup [gpu : {FALSE}, uses : {{"colour", "refuse", "returns"}, {"vt", "colour"},
                                {"mode", "refuse"}}]

\* A refused frame, and a VT switch: IdleShowsSceneAlways fails.  A refused mode:
\* DrawnOffScreenAlways fails.
RefuseSettings == [gpu : {TRUE}, uses : {{"refuse", "returns"}}]
ModeSettings == [gpu : {TRUE}, uses : {{"mode", "refuse"}}]
VtSettings == Either({{"vt"}})

=============================================================================
