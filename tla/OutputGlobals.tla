---------------------------- MODULE OutputGlobals ----------------------------
(***************************************************************************)
(* What clients are told of the outputs: OutputGlobal of bindings/rust/src *)
(* /protocol.rs over output_global.cppm.  Each follows its output and its  *)
(* place in the layout, or is the compositor's to set, and says so in a    *)
(* wl_output (the mode) and a zxdg_output (the place and the size in the   *)
(* layout), whose changes take effect together with wl_output.done.        *)
(***************************************************************************)
EXTENDS Layout

CONSTANTS
    Viewers,    \* clients
    OldXdg,     \* those of them that speak xdg-output before version 3
    OneManager, \* does a client use one zxdg_output_manager for every output
    NoScreen    \* no output

ASSUME ViewerAssumption == OldXdg \subseteq Viewers /\ NoScreen \notin Monitors

VARIABLES
    globals,    \* output -> its OutputGlobal
    seen        \* client, output -> what it holds of it and was told
screenVars == <<globals, seen>>
publishedVars == <<layoutVars, screenVars>>

NoGlobal == [is |-> "none", x |-> 0, width |-> 0, set |-> {}]
Nowhere == [x |-> 0, width |-> 0]

\* sent: of the zxdg_output, before the done that makes it count.
Unbound == [output |-> FALSE, mode |-> 0, xdg |-> NoScreen, sent |-> Nowhere, has |-> Nowhere]

ScreensTypeOK ==
    /\ globals \in [Monitors -> [is : {"none", "following", "kept"}, x : Int, width : Int,
                                 set : SUBSET {"x", "width"}]]
    /\ \A v \in Viewers, m \in Monitors :
        seen[v][m].output \in BOOLEAN /\ seen[v][m].xdg \in Monitors \cup {NoScreen}

GlobalsInit ==
    /\ globals = [m \in Monitors |-> NoGlobal]
    /\ seen = [v \in Viewers |-> [m \in Monitors |-> Unbound]]

ScreensInit == LayoutInit /\ GlobalsInit

-----------------------------------------------------------------------------
(* What is sent. *)

Where(g) == [x |-> g.x, width |-> g.width]

\* A client that holds the wl_output hears its done, and what was sent of the
\* zxdg_output counts from then on; before version 3 that has a done of its own,
\* which only follows the first description.
DoneSent(v, s, g) == [s EXCEPT !.mode = g.width, !.has = IF v \in OldXdg THEN @ ELSE s.sent]

\* Mutant: the outputs first, and their done with them.
Broadcast_DoneFirst(to) ==
    seen' = [v \in Viewers |-> [m \in Monitors |->
        LET s == seen[v][m]
            done == IF m \in to /\ s.output THEN DoneSent(v, s, globals'[m]) ELSE s
        IN IF s.xdg \in to THEN [done EXCEPT !.sent = Where(globals'[s.xdg])] ELSE done]]

\* broadcast(): the zxdg_outputs that were got from the global, and then the
\* wl_outputs, each with its done.
Broadcast(to) ==
    seen' = [v \in Viewers |-> [m \in Monitors |->
        LET s == seen[v][m]
            sent == IF s.xdg \in to THEN [s EXCEPT !.sent = Where(globals'[s.xdg])] ELSE s
        IN IF m \in to /\ s.output THEN DoneSent(v, sent, globals'[m]) ELSE sent]]

-----------------------------------------------------------------------------
(* Following. *)

\* follow(): the mode, and the place unless the layout has none for it.
Follow(m, g) ==
    [g EXCEPT !.width = widths'[m], !.set = {}, !.x = IF m \in Placed' THEN BoxOf(m)'.x ELSE @]

Following == {m \in Monitors : globals[m].is = "following"}
Switched == {m \in Following : widths'[m] # widths[m]}

\* on_layout: every change of the layout is looked at, and one of its own place
\* is passed on.
Moved == {m \in Following : m \in Placed' /\ BoxOf(m)'.x # globals[m].x}

\* on_mode and on_layout, of every global there is.
Heard(laidOut) ==
    [m \in Monitors |->
        IF m \in Switched THEN Follow(m, globals[m])
        ELSE IF laidOut /\ m \in Following /\ m \in Placed'
        THEN [globals[m] EXCEPT !.x = BoxOf(m)'.x, !.set = @ \ {"x"}]
        ELSE globals[m]]

Pass(laidOut) == Broadcast(Switched \cup IF laidOut THEN Moved ELSE {})

\* The layout changes, be it to what it was.
Rearranged(m) ==
    /\ (\E x \in Places : AddOutput(m, x)) \/ AddAuto(m) \/ RemoveOutput(m)
    /\ globals' = Heard(TRUE) /\ Pass(TRUE)

ModeSwitched(m, w) ==
    /\ ModeChanged(m, w)
    /\ globals' = Heard(m \in Placed) /\ Pass(m \in Placed)

\* Once its output is gone, a global keeps describing the last state.
OutputGone(m) ==
    /\ Unplugged(m)
    /\ globals' = [Heard(m \in Placed) EXCEPT ![m].is = IF m \in Following THEN "kept" ELSE @]
    /\ Pass(m \in Placed)

-----------------------------------------------------------------------------
(* The compositor. *)

\* for_output(): nobody is bound yet.
ForOutput(m) ==
    /\ globals[m].is = "none" /\ m \in plugged
    /\ UNCHANGED <<layoutVars, seen>>
    /\ globals' = [globals EXCEPT ![m] = Follow(m, [NoGlobal EXCEPT !.is = "following"])]

\* new(): of an output that is not a backend's, or by hand.
NewGlobal(m, w) ==
    /\ globals[m].is = "none"
    /\ globals' = [globals EXCEPT ![m] = [NoGlobal EXCEPT !.is = "kept", !.width = w]]
    /\ UNCHANGED <<layoutVars, seen>>

SetLogicalPosition(m, x) ==
    /\ globals[m].is # "none"
    /\ globals' = [globals EXCEPT ![m].x = x, ![m].set = @ \cup {"x"}]
    /\ Broadcast({m}) /\ UNCHANGED layoutVars

SetMode(m, w) ==
    /\ globals[m].is # "none"
    /\ globals' = [globals EXCEPT ![m].width = w, ![m].set = @ \cup {"width"}]
    /\ Broadcast({m}) /\ UNCHANGED layoutVars

\* Dropped: what clients hold of it says nothing any more.
DropGlobal(m) ==
    /\ globals[m].is # "none"
    /\ globals' = [globals EXCEPT ![m] = NoGlobal]
    /\ seen' = [v \in Viewers |-> [n \in Monitors |->
                    IF n = m THEN Unbound
                    ELSE IF seen[v][n].xdg = m THEN [seen[v][n] EXCEPT !.xdg = NoScreen]
                    ELSE seen[v][n]]]
    /\ UNCHANGED layoutVars

-----------------------------------------------------------------------------
(* Clients. *)

BindGlobal(v, m) ==
    /\ globals[m].is # "none" /\ ~seen[v][m].output
    /\ seen' = [seen EXCEPT ![v][m].output = TRUE, ![v][m].mode = globals[m].width]
    /\ UNCHANGED <<layoutVars, globals>>

\* get_xdg_output: the global is the one whose manager was asked; of the output
\* that was named, only the done is sent.
GetXdgOutput(v, m, manager) ==
    /\ globals[manager].is # "none" /\ seen[v][m].output /\ seen[v][m].xdg = NoScreen
    /\ IF OneManager THEN \A n \in Monitors : seen[v][n].xdg \in {NoScreen, manager} ELSE manager = m
    /\ LET first == Where(globals[manager])
       IN seen' = [seen EXCEPT ![v][m].xdg = manager, ![v][m].sent = first, ![v][m].has = first]
    /\ UNCHANGED <<layoutVars, globals>>

\* A client lets go of an output and what it has for it.
ReleaseGlobal(v, m) ==
    /\ seen[v][m].output
    /\ seen' = [seen EXCEPT ![v][m] = Unbound]
    /\ UNCHANGED <<layoutVars, globals>>

-----------------------------------------------------------------------------
ScreensNext ==
    \/ \E m \in Monitors :
        \/ Rearranged(m) \/ OutputGone(m) \/ ForOutput(m) \/ DropGlobal(m)
        \/ PluggedIn(m) /\ UNCHANGED screenVars
        \/ \E w \in Widths : ModeSwitched(m, w) \/ NewGlobal(m, w) \/ SetMode(m, w)
        \/ \E x \in Places : SetLogicalPosition(m, x)
        \/ \E v \in Viewers :
            \/ BindGlobal(v, m) \/ ReleaseGlobal(v, m)
            \/ \E n \in Monitors : GetXdgOutput(v, m, n)

ScreensSpec == ScreensInit /\ [][ScreensNext]_publishedVars

-----------------------------------------------------------------------------
(* Properties. *)

\* "xdg_output describes where the output sits in the compositor's LOGICAL layout
\* and how big it is there": the one it was got for.  (With OneManager this fails:
\* the manager decides which output is described.)
XdgOfItsOutput ==
    \A v \in Viewers, m \in Monitors :
        seen[v][m].output /\ seen[v][m].xdg # NoScreen => seen[v][m].has = Where(globals[m])

\* A client that holds an output knows its mode, and with a zxdg_output its place
\* and size in the layout, as the global has them: never the one without the
\* other.  (With OldXdg this fails: no done follows a change.)
ToldAsKept ==
    /\ \A v \in Viewers, m \in Monitors : seen[v][m].output => seen[v][m].mode = globals[m].width
    /\ XdgOfItsOutput

\* What a global that follows an output says, unless the compositor said
\* otherwise since, is how the output is and where the layout has it, in whatever
\* order those changed.
KeptAsPlaced ==
    \A m \in Following :
        /\ "width" \notin globals[m].set => globals[m].width = widths[m]
        /\ "x" \notin globals[m].set /\ m \in Placed => globals[m].x = BoxOf(m).x

ScreensTold == ToldAsKept /\ KeptAsPlaced
=============================================================================
