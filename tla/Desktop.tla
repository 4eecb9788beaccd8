------------------------------- MODULE Desktop -------------------------------
(***************************************************************************)
(* What the parts of a desktop promise together.  The user is away: the    *)
(* lock keeps the session shut, and timers say so.  And copies of the      *)
(* desktop that clients hold: panels of their places, taskbars of the      *)
(* windows, pagers of the workspaces, everyone of the screens and of the   *)
(* clipboard; each lags behind what it is a copy of.  The parts share no   *)
(* state; the compositor couples them.                                     *)
(***************************************************************************)
EXTENDS SessionLock, Idle, LayerPanels, Taskbars, Workspaces, OutputGlobals, Selections

\* While the user is away a lock that was granted is in force, as long as its
\* locker lives (what becomes of it then is LatchHeld), and a notification counts
\* down exactly while nothing that it heeds keeps the session awake.
AwaySound == LockHonoured /\ CountdownKept

\* What a panel, a taskbar and a pager have been told is how the desktop is; so is
\* what clients were told of the screens, and what they paste.
MirrorsAgree == PanelsLaidOut /\ TaskbarsAgree /\ PagersAgree /\ ScreensTold /\ ClipboardAgrees
=============================================================================
