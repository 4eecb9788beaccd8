------------------------------- MODULE MCDesktop -------------------------------
(***************************************************************************)
(* The desktop's protocols: lock, panels, taskbars, pagers, idleness, the  *)
(* arrangement of the screens, what is said of it, their tables, matrices  *)
(* and the clipboard, each on an instance of its own.  A behaviour runs one of     *)
(* them, and the others stand still where they began.                      *)
(***************************************************************************)
EXTENDS Desktop, OutputConfigs, Ramps

CONSTANT Parts      \* the parts a run looks at

VARIABLE part       \* the one that runs

\* A bar at the top, a wallpaper, and a centred box that disregards zones.
MCWants ==
    {[layer |-> 2, height |-> 1, zone |-> 1, edge |-> "top"],
     [layer |-> 0, height |-> 0, zone |-> 0, edge |-> "both"],
     [layer |-> 1, height |-> 2, zone |-> -1, edge |-> "both"]}

Moving == CHOOSE m \in Monitors : TRUE

\* Bound, where configurations run: one output comes, goes and is placed, the
\* other is plugged in and off, and neither changes its mode.
MCFew ==
    Placed \subseteq {Moving} /\ \A m \in Monitors : widths[m] = Unknown.mode /\ m \in plugged \cup {Moving}

\* Bound, where clients are told of the screens: one comes, goes and changes, the
\* other has one mode and follows, if it is announced.
MCSteady ==
    \A m \in Monitors \ {Moving} :
        m \in plugged /\ widths[m] = Max(Widths) /\ globals[m].is # "kept" /\ globals[m].set = {}

\* One client copies and pastes, one pastes, and one manages the clipboard.
MCOffered == [c \in Clients |-> IF c = "copier" THEN {"text"} ELSE IF c = "manager" THEN {"history"} ELSE {}]

\* Tables and matrices share no state, so a part looks at one of the two.
MCOneBook ==
    IF part = "ramps" THEN ctm' = ctm ELSE UNCHANGED <<controls, sizes>>

MCInit ==
    /\ part \in Parts
    /\ LocksInit /\ PanelsInit /\ BarsInit /\ SpacesInit /\ IdleInit /\ ConfigsInit /\ RampsInit
    /\ GlobalsInit /\ SelectInit
    /\ part = "configs" => MCFew
    /\ part = "screens" => MCSteady
    /\ part \notin {"layout", "configs", "screens"} => \A m \in Monitors : widths[m] = Unknown.mode
    /\ part # "configs" => ~deferred
    /\ part # "idle" => \A n \in Notices : ~notices[n].inputOnly

MCNext ==
    /\ part' = part
    /\ \/ part = "locks" /\ LocksNext
          /\ UNCHANGED <<panelVars, barVars, spaceVars, idleVars, layoutVars, configVars, screenVars, rampVars, selectVars>>
       \/ part = "panels" /\ PanelsNext
          /\ UNCHANGED <<lockVars, barVars, spaceVars, idleVars, layoutVars, configVars, screenVars, rampVars, selectVars>>
       \/ part = "bars" /\ BarsNext
          /\ UNCHANGED <<lockVars, panelVars, spaceVars, idleVars, layoutVars, configVars, screenVars, rampVars, selectVars>>
       \/ part = "spaces" /\ SpacesNext
          /\ UNCHANGED <<lockVars, panelVars, barVars, idleVars, layoutVars, configVars, screenVars, rampVars, selectVars>>
       \/ part = "idle" /\ IdleNext
          /\ UNCHANGED <<lockVars, panelVars, barVars, spaceVars, layoutVars, configVars, screenVars, rampVars, selectVars>>
       \/ part = "layout" /\ LayoutNext
          /\ UNCHANGED <<lockVars, panelVars, barVars, spaceVars, idleVars, configVars, screenVars, rampVars, selectVars>>
       \/ part = "configs" /\ ConfigsNext /\ MCFew'
          /\ UNCHANGED <<lockVars, panelVars, barVars, spaceVars, idleVars, screenVars, rampVars, selectVars>>
       \/ part = "screens" /\ ScreensNext /\ MCSteady'
          /\ UNCHANGED <<lockVars, panelVars, barVars, spaceVars, idleVars, configVars, rampVars, selectVars>>
       \/ part \in {"ramps", "matrices"} /\ RampsNext /\ MCOneBook
          /\ UNCHANGED <<lockVars, panelVars, barVars, spaceVars, idleVars, layoutVars, configVars, screenVars, selectVars>>
       \/ part = "clip" /\ SelectNext
          /\ UNCHANGED <<lockVars, panelVars, barVars, spaceVars, idleVars, layoutVars, configVars, screenVars, rampVars>>

MCVars == <<part, lockVars, panelVars, barVars, spaceVars, idleVars, layoutVars, configVars, screenVars, rampVars, selectVars>>

\* The fairness of idleness, while it is what runs; the others state none.
MCFairness ==
    /\ WF_idleVars(part = "idle" /\ HandleChanged)
    /\ \A n \in Notices : WF_idleVars(part = "idle" /\ TimerFires(n))

MCSpec == MCInit /\ [][MCNext]_MCVars /\ MCFairness
=============================================================================
