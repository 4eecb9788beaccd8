----------------------------- MODULE TabletFeed -----------------------------
(***************************************************************************)
(* Graphics tablets (bindings/rust/src/protocol/tablet_feed.rs and         *)
(* tablet.rs over the C++ TabletManager).  The feed keeps where each pen   *)
(* is and asks the compositor what lies under it; the manager keeps which  *)
(* surface each pen and pad is focused on, and tells that surface's client *)
(* alone.  Both keep their own "tip is down", and surfaces, tablets and    *)
(* clients come and go under them.                                         *)
(***************************************************************************)
EXTENDS Naturals, FiniteSets

CONSTANTS
    Tablets, Pads,  \* devices a backend may report, each plugged in once
    Pens,           \* tools
    Sheets,         \* surfaces, each of a client of its own
    Modes,          \* modes of a pad's group; 0 is the first
    Nothing         \* "no surface", "no tablet"

ASSUME FeedAssumption ==
    /\ Tablets \cap Pads = {} /\ 0 \in Modes
    /\ Nothing \notin Tablets /\ Nothing \notin Sheets /\ Nothing \notin Modes

VARIABLES
    plugged,    \* device -> "never", "in" (an entry of the feed's maps), "gone"
    living,     \* surfaces that exist
    seated,     \* surfaces whose client has bound the tablet manager
    pen,        \* the feed's Tool: tablet, in_range, down
    manager,    \* the manager: focus, over and down of a pen, focus of a pad
    modes,      \* the feed's mode of a pad
    penTold        \* history: what each client was told of pens, pads and modes
feedVars == <<plugged, living, seated, pen, manager, modes, penTold>>

Devices == Tablets \cup Pads

FeedTypeOK ==
    /\ plugged \in [Devices -> {"never", "in", "gone"}]
    /\ living \subseteq Sheets /\ seated \subseteq Sheets
    /\ pen \in [Pens -> [tablet : Tablets \cup {Nothing}, in_range : BOOLEAN, down : BOOLEAN]]
    /\ manager \in [focus : [Pens -> Sheets \cup {Nothing}], over : [Pens -> Tablets \cup {Nothing}],
                    down : [Pens -> BOOLEAN], pad : [Pads -> Sheets \cup {Nothing}]]
    /\ modes \in [Pads -> Modes]
    /\ penTold \in [pen : [Pens -> [Sheets -> {"out", "near", "down"}]],
                 pad : [Pads -> Sheets \cup {Nothing}], mode : [Pads -> Modes \cup {Nothing}]]

FeedInit ==
    /\ plugged = [d \in Devices |-> "never"]
    /\ living = Sheets /\ seated \in SUBSET Sheets
    /\ pen = [t \in Pens |-> [tablet |-> Nothing, in_range |-> FALSE, down |-> FALSE]]
    /\ manager = [focus |-> [t \in Pens |-> Nothing], over |-> [t \in Pens |-> Nothing],
                  down |-> [t \in Pens |-> FALSE], pad |-> [p \in Pads |-> Nothing]]
    /\ modes = [p \in Pads |-> 0]
    /\ penTold = [pen |-> [t \in Pens |-> [s \in Sheets |-> "out"]],
               pad |-> [p \in Pads |-> Nothing], mode |-> [p \in Pads |-> Nothing]]

-----------------------------------------------------------------------------
(* The manager's calls.  Each takes and returns what it may change: the    *)
(* manager m and what the clients were told, w.                               *)

Now == [m |-> manager, w |-> penTold]

\* to_tool_focus(): a focus whose surface is gone is forgotten; otherwise the
\* client of the focus is told.
ToFocus(x, t, what) ==
    LET s == x.m.focus[t] IN
    IF s = Nothing THEN x
    ELSE IF s \notin living THEN [x EXCEPT !.m.focus[t] = Nothing]
    ELSE [x EXCEPT !.w.pen[t][s] = IF what = "same" THEN @ ELSE what]

ToolDown(x, t) ==
    IF x.m.down[t] THEN x ELSE ToFocus([x EXCEPT !.m.down[t] = TRUE], t, "down")
ToolUp(x, t) ==
    IF ~x.m.down[t] THEN x ELSE ToFocus([x EXCEPT !.m.down[t] = FALSE], t, "near")

ProximityOut(x, t) ==
    IF x.m.focus[t] = Nothing THEN x
    ELSE LET left == ToFocus(ToolUp(x, t), t, "out") IN
         [left EXCEPT !.m.focus[t] = Nothing, !.m.over[t] = Nothing]

\* Mutant: the pen goes over another surface without leaving the one it was over.
ProximityIn_Jumps(x, t, tablet, s) ==
    IF plugged[tablet] # "in" \/ s \notin living \/ s \notin seated THEN x
    ELSE [x EXCEPT !.m.focus[t] = s, !.m.over[t] = tablet, !.w.pen[t][s] = "near"]

\* A client that never bound the manager cannot be told, and gets no focus.
ProximityIn(x, t, tablet, s) ==
    IF plugged[tablet] # "in" \/ s \notin living
       \/ (x.m.focus[t] = s /\ x.m.over[t] = tablet) THEN x
    ELSE LET left == ProximityOut(x, t) IN
         IF s \notin seated THEN left
         ELSE [left EXCEPT !.m.focus[t] = s, !.m.over[t] = tablet, !.w.pen[t][s] = "near"]

PadLeave(x, p) ==
    [x EXCEPT !.m.pad[p] = Nothing,
              !.w.pad[p] = IF x.m.pad[p] = Nothing THEN @ ELSE Nothing,
              !.w.mode[p] = IF x.m.pad[p] = Nothing THEN @ ELSE Nothing]

PadEnter(x, p, tablet, s) ==
    IF plugged[tablet] # "in" \/ s \notin living \/ x.m.pad[p] = s THEN x
    ELSE LET left == PadLeave(x, p) IN
         IF s \notin seated THEN left
         ELSE [left EXCEPT !.m.pad[p] = s, !.w.pad[p] = s]

\* to_pad_focus(), as for a tool.
ToPad(x, p) ==
    IF x.m.pad[p] \in living THEN x ELSE [x EXCEPT !.m.pad[p] = Nothing]

-----------------------------------------------------------------------------
(* The feed. *)

\* sync_pads(): every pad goes to the first pen with a focus the hash map
\* yields, or leaves.  `first` is that pen.
SyncPads(x, first, over) ==
    LET focused == {t \in Pens : x.m.focus[t] # Nothing}
        s == IF first \in focused THEN x.m.focus[first]
             ELSE x.m.focus[CHOOSE t \in focused : TRUE]
        each == [p \in Pads |-> IF plugged[p] # "in" THEN x
                                ELSE IF focused = {} THEN PadLeave(x, p)
                                ELSE PadEnter(x, p, over, s)]
    IN [m |-> [x.m EXCEPT !.pad = [p \in Pads |-> each[p].m.pad[p]]],
        w |-> [x.w EXCEPT !.pad = [p \in Pads |-> each[p].w.pad[p]],
                          !.mode = [p \in Pads |-> each[p].w.mode[p]]]]

\* retarget(): proximity as the pen crosses between surfaces; s is what the
\* compositor's hit test answers, and may be an id that is already stale.
Retarget(x, t, tablet, s, first) ==
    LET before == x.m.focus[t] IN
    IF s = Nothing
    THEN IF before = Nothing THEN x ELSE SyncPads(ProximityOut(x, t), first, tablet)
    ELSE IF before = s THEN x ELSE SyncPads(ProximityIn(x, t, tablet, s), first, tablet)

\* send_axes(): the axes and a frame, to whoever has the focus.
SendAxes(x, t, s) == IF s = Nothing THEN x ELSE ToFocus(x, t, "same")

FeedBecomes(x) == manager' = x.m /\ penTold' = x.w

\* A device the feed does not know; a pad or a tablet.
DeviceAdded(d) ==
    /\ plugged[d] = "never"
    /\ plugged' = [plugged EXCEPT ![d] = "in"]
    /\ UNCHANGED <<living, seated, pen, manager, modes, penTold>>

\* Mutant: the pens over an unplugged tablet stay in proximity.
LeaveTablet_Stays(x, d) == x

\* remove_tablet(): the pens over it leave first, one after the other.
LeaveTablet(x, d) ==
    LET leaving == {t \in Pens : x.m.over[t] = d /\ x.m.focus[t] # Nothing}
        each == [t \in Pens |-> IF t \in leaving THEN ProximityOut(x, t) ELSE x]
    IN [m |-> [x.m EXCEPT !.focus = [t \in Pens |-> each[t].m.focus[t]],
                          !.over = [t \in Pens |-> each[t].m.over[t]],
                          !.down = [t \in Pens |-> each[t].m.down[t]]],
        w |-> [x.w EXCEPT !.pen = [t \in Pens |-> each[t].w.pen[t]]]]

TabletRemoved(d) ==
    /\ plugged[d] = "in"
    /\ plugged' = [plugged EXCEPT ![d] = "gone"]
    /\ pen' = [t \in Pens |-> IF pen[t].tablet = d THEN [pen[t] EXCEPT !.in_range = FALSE] ELSE pen[t]]
    /\ FeedBecomes(LeaveTablet(Now, d))
    /\ UNCHANGED <<living, seated, modes>>

PadRemoved(p) ==
    /\ plugged[p] = "in"
    /\ plugged' = [plugged EXCEPT ![p] = "gone"]
    /\ FeedBecomes(PadLeave(Now, p))
    /\ modes' = [modes EXCEPT ![p] = 0]
    /\ UNCHANGED <<living, seated, pen>>

\* Into range of a tablet.
PenIn(d, t, s, first) ==
    /\ plugged[d] = "in"
    /\ pen' = [pen EXCEPT ![t] = [pen[t] EXCEPT !.tablet = d, !.in_range = TRUE]]
    /\ FeedBecomes(SendAxes(Retarget(Now, t, d, s, first), t, s))
    /\ UNCHANGED <<plugged, living, seated, modes>>

\* Out of range: a tip still down is lifted first.
PenOut(d, t, first) ==
    /\ plugged[d] = "in"
    /\ pen' = [pen EXCEPT ![t] = [tablet |-> d, in_range |-> FALSE, down |-> FALSE]]
    /\ LET x == IF pen[t].down THEN ToolUp(Now, t) ELSE Now IN
       FeedBecomes(IF x.m.focus[t] = Nothing THEN x ELSE SyncPads(ProximityOut(x, t), first, d))
    /\ UNCHANGED <<plugged, living, seated, modes>>

PenMoves(t, s, first) ==
    /\ pen[t].in_range
    /\ FeedBecomes(SendAxes(Retarget(Now, t, pen[t].tablet, s, first), t, s))
    /\ UNCHANGED <<plugged, living, seated, pen, modes>>

\* The tip touches or leaves.  Over nothing the feed returns early, and its
\* own `down` keeps what it was.
Tip(t, down, s, first) ==
    /\ pen[t].in_range
    /\ LET x == SendAxes(Retarget(Now, t, pen[t].tablet, s, first), t, s)
           y == CASE down /\ ~pen[t].down -> ToolDown(x, t)
                  [] ~down /\ pen[t].down -> ToolUp(x, t)
                  [] OTHER -> x
       IN FeedBecomes(IF s = Nothing THEN x ELSE ToFocus(y, t, "same"))
    /\ pen' = IF s = Nothing THEN pen ELSE [pen EXCEPT ![t].down = down]
    /\ UNCHANGED <<plugged, living, seated, modes>>

PenButton(t) ==
    /\ pen[t].in_range
    /\ FeedBecomes(ToFocus(Now, t, "same"))
    /\ UNCHANGED <<plugged, living, seated, pen, modes>>

\* A button that changes the mode is preceded by the announcement of it.
PadButton(p, mode) ==
    /\ plugged[p] = "in"
    /\ modes' = [modes EXCEPT ![p] = mode]
    /\ LET x == ToPad(Now, p) IN
       FeedBecomes(IF modes[p] # mode /\ x.m.pad[p] # Nothing
               THEN [x EXCEPT !.w.mode[p] = mode] ELSE x)
    /\ UNCHANGED <<plugged, living, seated, pen>>

\* A ring or a strip of a pad.
PadTurns(p) ==
    /\ plugged[p] = "in"
    /\ FeedBecomes(ToPad(Now, p))
    /\ UNCHANGED <<plugged, living, seated, pen, modes>>

\* A client binds the manager and is told of every device there is.
BindTablets(s) ==
    /\ s \in living \ seated
    /\ seated' = seated \cup {s}
    /\ UNCHANGED <<plugged, living, pen, manager, modes, penTold>>

\* A client destroys its surface, and with it what it knew to be on it.
DestroySheet(s) ==
    /\ s \in living
    /\ living' = living \ {s}
    /\ penTold' = [pen |-> [t \in Pens |-> [penTold.pen[t] EXCEPT ![s] = "out"]],
                pad |-> [p \in Pads |-> IF penTold.pad[p] = s THEN Nothing ELSE penTold.pad[p]],
                mode |-> [p \in Pads |-> IF penTold.pad[p] = s THEN Nothing ELSE penTold.mode[p]]]
    /\ UNCHANGED <<plugged, seated, pen, manager, modes>>

FeedNext ==
    \/ \E d \in Devices : DeviceAdded(d)
    \/ \E d \in Tablets : TabletRemoved(d)
    \/ \E p \in Pads : PadRemoved(p) \/ PadTurns(p) \/ \E mode \in Modes : PadButton(p, mode)
    \/ \E t, first \in Pens, s \in Sheets \cup {Nothing} :
        \/ PenMoves(t, s, first)
        \/ \E d \in Tablets : PenIn(d, t, s, first) \/ (s = Nothing /\ PenOut(d, t, first))
        \/ \E down \in BOOLEAN : Tip(t, down, s, first)
    \/ \E t \in Pens : PenButton(t)
    \/ \E s \in Sheets : BindTablets(s) \/ DestroySheet(s)

FeedSpec == FeedInit /\ [][FeedNext]_feedVars

-----------------------------------------------------------------------------
\* A pen is in one place: the client that was told it is near, or down, is the
\* one whose surface the manager has it on, over a tablet that is plugged in,
\* and nobody else believes it has it, whatever crossed, left or died between.
\* The same of pads; and no client holds a mode to be current that is not.
ClientsAgree ==
    /\ \A t \in Pens, s \in living :
        /\ penTold.pen[t][s] # "out" <=> manager.focus[t] = s
        /\ manager.focus[t] = s => plugged[manager.over[t]] = "in"
        /\ penTold.pen[t][s] = "down" => manager.down[t]
    /\ \A p \in Pads :
        /\ \A s \in living : penTold.pad[p] = s <=> manager.pad[p] = s
        /\ penTold.mode[p] # Nothing => penTold.mode[p] = modes[p]
=============================================================================
