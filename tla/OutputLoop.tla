----------------------------- MODULE OutputLoop -----------------------------
(***************************************************************************)
(* One KMS output and the renderer that draws for it: how frames are asked *)
(* for (Output::schedule_frame), drawn (SceneRenderer::present), flipped   *)
(* (DrmOutput::atomic) and reported (on_page_flip), with the cursor plane, *)
(* colour tables, mode changes and the VT that comes and goes.             *)
(*                                                                         *)
(* A picture is the number of the scene it shows, 0 is black.  What a      *)
(* frame repaints is the business of module FrameLedger: here a frame is   *)
(* drawn whole or not at all, and never by direct scanout.  Framebuffers 1 *)
(* and 2 are DrmOutput::fbs, which modesets blacken and CPU frames go to,  *)
(* 3 and 4 are the targets of Frame.                                       *)
(*                                                                         *)
(* Every action is one callback of the event loop, a wish of a client or   *)
(* of the user, or a step of the kernel.                                   *)
(***************************************************************************)
EXTENDS Naturals, FiniteSets

CONSTANTS
    Settings,    \* the kinds of system: see Setting
    MaxScene,    \* bound: the scenes clients ask for
    MaxEvents    \* bound: unread page flip events

\* What the output lives through besides scenes that change.
Habits == {"returns",   \* the scene goes back to what it was
           "pointer",   \* update_cursor() moves the cursor plane
           "sprite",    \* the cursor also changes without update_cursor()
           "asks",      \* clients want frame callbacks and change nothing
           "colour",    \* gamma ramps and colour matrices change
           "mode",      \* set_mode() changes the mode
           "refuse",    \* the kernel refuses commits
           "vt"}        \* the session is switched away and back

Setting == [gpu : BOOLEAN, uses : SUBSET Habits]

ASSUME OutputAssumption ==
    /\ Settings \subseteq Setting
    /\ MaxScene \in Nat \ {0}
    /\ MaxEvents \in Nat \ {0}

VARIABLES
    setting,    \* the system, fixed from the start
    scene,      \* what the screen ought to show
    out         \* the output and its renderer

vars == <<setting, scene, out>>

Dumb == 1..2      \* DrmOutput::fbs
Targets == 3..4   \* Frame::Impl::targets
Fbs == Dumb \cup Targets
None == 0         \* no framebuffer
Elsewhere == 5    \* the screen belongs to another session
Pictures == 0..MaxScene

Out == [
    flip : BOOLEAN,          \* flip_pending
    suspended : BOOLEAN,     \* suspended
    modeset : BOOLEAN,       \* modeset_done
    pending : Fbs,           \* pending_fb
    front : Dumb,            \* front
    cursorDirty : BOOLEAN,   \* cursor_dirty
    colourDirty : BOOLEAN,   \* color_dirty
    timer : BOOLEAN,         \* retry_timer is armed
    scheduled : BOOLEAN,     \* frame_scheduled_
    queued : Fbs \cup {None},        \* the kernel's next framebuffer
    lit : Fbs \cup {Elsewhere},      \* the framebuffer on screen
    events : 0..MaxEvents,   \* page flip events that were not read
    image : [Fbs -> Pictures],       \* the contents of the framebuffers
    back : Targets,          \* Frame: the target drawn into next
    last : Pictures,         \* Frame: the scene drawn last
    full : BOOLEAN,          \* Frame: full_redraw
    owed : BOOLEAN,          \* Frame: the other target owes a repaint
    cpuValid : BOOLEAN,      \* cpu_valid
    cpuLast : Pictures,      \* the scene the CPU drew last
    listed : BOOLEAN,        \* the renderer has a list of what it drew
    stale : BOOLEAN,         \* the cursor plane is behind the cursor source
    waiting : BOOLEAN]       \* a client waits for a frame callback

TypeOK ==
    /\ setting \in Settings
    /\ scene \in 1..MaxScene
    /\ out \in Out

-----------------------------------------------------------------------------
(* Commits to the kernel.  They take the output and return what it becomes. *)

\* The commits that may be refused during one callback, named for what asks for
\* them.
Refusable ==
    {"frame", "pixels"} \cup (setting.uses \cap {"colour", "mode", "vt"})
        \cup (IF setting.uses \cap {"pointer", "sprite"} = {} THEN {} ELSE {"pointer"})
Refusals == IF "refuse" \in setting.uses THEN SUBSET Refusable ELSE {{}}

\* A flip waits its turn: the kernel refuses a second one.
Taken(o, what, modeset, no) == what \notin no /\ (modeset \/ o.queued = None)

\* atomic(), when the kernel takes it.  A modeset is complete on return, and so
\* is the flip before it.
Flip(o, fb, modeset) ==
    [o EXCEPT !.pending = fb, !.flip = TRUE, !.cursorDirty = FALSE, !.colourDirty = FALSE,
              !.queued = IF modeset THEN None ELSE fb,
              !.lit = IF modeset THEN fb ELSE @,
              !.events = IF ~modeset THEN @ ELSE IF o.queued = None THEN @ + 1 ELSE @ + 2]

\* flush_cursor() and flush_color(): the framebuffer on screen once more.
Reflip(o, what, no) ==
    IF o.suspended \/ o.flip \/ ~o.modeset THEN o
    ELSE IF Taken(o, what, FALSE, no) THEN Flip(o, o.pending, FALSE)
    ELSE [o EXCEPT !.timer = TRUE]

FlushCursor(o, no) == IF o.cursorDirty THEN Reflip(o, "pointer", no) ELSE o
FlushColour(o, no) == IF o.colourDirty THEN Reflip(o, "colour", no) ELSE o

CommitCursor(o, no) ==
    IF o.suspended THEN o ELSE FlushCursor([o EXCEPT !.cursorDirty = TRUE], no)

\* schedule_frame() and arm_frame().
ScheduleFrame_Late(o) == [o EXCEPT !.scheduled = TRUE]
ScheduleFrame(o) ==
    IF o.scheduled THEN o
    ELSE [o EXCEPT !.scheduled = TRUE, !.timer = @ \/ ~(o.suspended \/ o.flip)]

\* light_up(): black, by a modeset.
LightUp(o, no) ==
    LET black == [o EXCEPT !.image[1] = 0]
    IN IF Taken(o, "vt", TRUE, no)
       THEN [Flip(black, 1, TRUE) EXCEPT !.modeset = TRUE, !.front = 1]
       ELSE black

\* commit_scanout() and commit_frame(): ok while a flip is pending, when nothing
\* is committed, and while suspended, when atomic() commits nothing.
Accepted(o, what, no) == o.flip \/ o.suspended \/ Taken(o, what, ~o.modeset, no)
Committed(o, fb) ==
    IF o.flip THEN o
    ELSE IF o.suspended THEN [o EXCEPT !.modeset = TRUE]
    ELSE [Flip(o, fb, ~o.modeset) EXCEPT !.modeset = TRUE]
Refused(o) == [o EXCEPT !.timer = TRUE]

-----------------------------------------------------------------------------
(* Drawing: SceneRenderer::draw and Frame::submit *)

\* cursor_plane(): a new picture is uploaded, then placed.
CursorPlane(o, no) ==
    IF o.stale THEN CommitCursor(CommitCursor([o EXCEPT !.stale = FALSE], no), no) ELSE o

\* Nothing is drawn, and the clients are answered at once.
Unchanged_Silent(o) == o
Unchanged(o) == [o EXCEPT !.waiting = FALSE]

\* The CPU composites.  A frame that commit_frame() drops is not even copied.
CpuDraw(o, no) ==
    LET spare == IF o.flip THEN o.front ELSE 3 - o.front
        drawn == IF o.flip THEN o ELSE [o EXCEPT !.image[spare] = scene]
    IN IF o.cpuValid /\ o.cpuLast = scene THEN Unchanged(o)
       ELSE IF Accepted(o, "pixels", no)
       THEN ScheduleFrame([Committed(drawn, spare) EXCEPT
                              !.front = spare, !.cpuValid = TRUE, !.cpuLast = scene])
       ELSE Refused([drawn EXCEPT !.cpuValid = FALSE])

\* Frame::submit() draws what changed since its last frame, and what that left
\* the other target owing.
Damaged(o) == o.full \/ o.last # scene
Other(target) == 7 - target

\* A frame that was committed, or dropped, counts as shown.
Shown_SameBack(o) ==
    ScheduleFrame([o EXCEPT !.last = scene, !.full = FALSE, !.owed = Damaged(o),
                            !.cpuValid = FALSE])
Shown_OwesAlways(o) ==
    ScheduleFrame([o EXCEPT !.back = Other(@), !.last = scene, !.full = FALSE,
                            !.owed = TRUE, !.cpuValid = FALSE])
Shown(o) ==
    ScheduleFrame([o EXCEPT !.back = Other(@), !.last = scene, !.full = FALSE,
                            !.owed = Damaged(o), !.cpuValid = FALSE])

\* A frame that could not be shown is left to the CPU.
GpuDraw(o, no) ==
    LET drawn == [o EXCEPT !.image[o.back] = scene]
    IN IF ~(Damaged(o) \/ o.owed) THEN Unchanged(o)
       ELSE IF Accepted(o, "frame", no) THEN Shown(Committed(drawn, o.back))
       ELSE CpuDraw(Refused(drawn), no)

Draw(o, no) ==
    LET p == [CursorPlane(o, no) EXCEPT !.listed = TRUE]
    IN IF setting.gpu THEN GpuDraw(p, no) ELSE CpuDraw(p, no)

\* emit_frame(): what the handler left undone of the cursor and the colours is
\* done after it.
EmitFrame_Only(o, no) == Draw([o EXCEPT !.scheduled = FALSE], no)
EmitFrame(o, no) ==
    FlushColour(FlushCursor(Draw([o EXCEPT !.scheduled = FALSE], no), no), no)

-----------------------------------------------------------------------------
\* The output was lit, and ScreenManager asked for its first frame.
Init ==
    /\ setting \in Settings
    /\ scene = 1
    /\ out = [flip |-> TRUE, suspended |-> FALSE, modeset |-> TRUE, pending |-> 1,
              front |-> 1, cursorDirty |-> FALSE, colourDirty |-> FALSE, timer |-> TRUE,
              scheduled |-> TRUE, queued |-> None, lit |-> 1, events |-> 1,
              image |-> [fb \in Fbs |-> 0], back |-> 3, last |-> 0, full |-> TRUE,
              owed |-> FALSE, cpuValid |-> FALSE, cpuLast |-> 0, listed |-> FALSE,
              stale |-> FALSE, waiting |-> FALSE]

-----------------------------------------------------------------------------
(* The event loop *)

\* on_page_flip(): Output::present answers the clients that were drawn, then a
\* frame is asked for whether or not one was scheduled.
PageFlip ==
    /\ out.events > 0
    /\ \E no \in Refusals :
          out' = EmitFrame([out EXCEPT !.events = @ - 1, !.flip = FALSE,
                                       !.waiting = @ /\ ~out.listed], no)
    /\ UNCHANGED <<setting, scene>>

\* retry_timer.
TimerFires ==
    /\ out.timer
    /\ LET o == [out EXCEPT !.timer = FALSE]
       IN IF out.suspended \/ out.flip THEN out' = o
          ELSE \E no \in Refusals : out' = EmitFrame(o, no)
    /\ UNCHANGED <<setting, scene>>

\* A client commits, or the compositor changes the scene: FrSurfaceTexture::watch
\* or ScreenManager::invalidate asks for a frame.
SceneChanges ==
    /\ scene' \in 1..MaxScene \ {scene}
    /\ "returns" \in setting.uses \/ scene' > scene
    /\ out' = ScheduleFrame([out EXCEPT !.waiting = TRUE])
    /\ UNCHANGED setting

\* A client commits nothing but a frame callback.
ClientAsks ==
    /\ "asks" \in setting.uses
    /\ out' = ScheduleFrame([out EXCEPT !.waiting = TRUE])
    /\ UNCHANGED <<setting, scene>>

\* SceneRenderer::update_cursor() after a motion.
PointerMoves ==
    /\ "pointer" \in setting.uses
    /\ \E no \in Refusals : out' = CommitCursor(out, no)
    /\ UNCHANGED <<setting, scene>>

\* The cursor source answers otherwise than it did, and nobody said so: a sprite
\* that is destroyed, a source that was just installed.
SpriteChanges ==
    /\ "sprite" \in setting.uses
    /\ out' = [out EXCEPT !.stale = TRUE]
    /\ UNCHANGED <<setting, scene>>

\* set_gamma() and set_ctm(): stage_blob().
ColourChanges ==
    /\ "colour" \in setting.uses
    /\ \E no \in Refusals : out' = FlushColour([out EXCEPT !.colourDirty = TRUE], no)
    /\ UNCHANGED <<setting, scene>>

\* set_mode(): a modeset to black framebuffers, and mode_changed, on which the
\* renderer starts over.
SetMode ==
    /\ "mode" \in setting.uses
    /\ ~out.suspended
    /\ out.events + 2 <= MaxEvents
    /\ LET o == [out EXCEPT !.flip = FALSE]
       IN \E no \in Refusals :
             out' = IF ~Taken(o, "mode", TRUE, no) THEN o
                    ELSE ScheduleFrame(
                        [Flip(o, 1, TRUE) EXCEPT
                            !.modeset = TRUE, !.front = 1, !.image = [fb \in Fbs |-> 0],
                            !.back = 3, !.last = 0, !.full = TRUE, !.owed = FALSE,
                            !.cpuValid = FALSE, !.listed = @ /\ ~setting.gpu])
    /\ UNCHANGED <<setting, scene>>

\* The session is disabled.  A flip under way may or may not report back.
Pause ==
    /\ "vt" \in setting.uses
    /\ ~out.suspended
    /\ out.events < MaxEvents
    /\ \E reports \in {0} \cup (IF out.queued = None THEN {} ELSE {1}) :
          out' = [out EXCEPT !.suspended = TRUE, !.cursorDirty = TRUE, !.queued = None,
                             !.lit = Elsewhere, !.events = @ + reports]
    /\ UNCHANGED <<setting, scene>>

\* The session is enabled: DrmBackend lights the output up, and
\* DefaultInputRouter invalidates the screens before it or after it.
Resume ==
    /\ out.suspended
    /\ out.events < MaxEvents
    /\ \E no \in Refusals, routerFirst \in BOOLEAN :
          LET asked == IF routerFirst THEN ScheduleFrame(out) ELSE out
              lit == LightUp([asked EXCEPT !.suspended = FALSE, !.flip = FALSE,
                                           !.modeset = FALSE], no)
          IN out' = ScheduleFrame(lit)
    /\ UNCHANGED <<setting, scene>>

\* The kernel: the queued framebuffer reaches the screen.
Vblank ==
    /\ out.queued # None
    /\ out' = [out EXCEPT !.lit = out.queued, !.queued = None, !.events = @ + 1]
    /\ UNCHANGED <<setting, scene>>

Next ==
    \/ PageFlip
    \/ TimerFires
    \/ SceneChanges
    \/ ClientAsks
    \/ PointerMoves
    \/ SpriteChanges
    \/ ColourChanges
    \/ SetMode
    \/ Pause
    \/ Resume
    \/ Vblank

Spec == Init /\ [][Next]_vars

\* The kernel flips and reports, and the loop serves its timers and its files.
Fairness == WF_vars(PageFlip) /\ WF_vars(TimerFires) /\ WF_vars(Vblank) /\ WF_vars(Resume)
FairSpec == Spec /\ Fairness

-----------------------------------------------------------------------------
(* What the output promises *)

\* Nothing is under way, and the screen is ours.
Quiet == out.queued = None /\ out.events = 0 /\ ~out.timer /\ ~out.suspended

UpToDate == out.lit \in Fbs /\ out.image[out.lit] = scene

\* An output that went quiet shows the scene.
IdleShowsSceneAlways == Quiet => UpToDate

\* It does as long as the screen stays ours, every change of the cursor is
\* announced, and no frame of the GPU is refused and left to the CPU.
Steady == setting.uses \cap {"vt", "sprite"} = {} /\ (setting.gpu => "refuse" \notin setting.uses)
IdleShowsScene == Steady => IdleShowsSceneAlways

\* "The one on screen must not be drawn into", nor the one that is next.
DrawnOffScreenAlways ==
    [][\A fb \in Fbs : out'.image[fb] \notin {0, out.image[fb]} =>
                          fb \notin {out.lit, out.queued}]_vars

\* It is not, unless a changed cursor goes unannounced, or a mode change or a VT
\* switch forgets the flip that is under way.
Composed == setting.uses \cap {"sprite", "mode", "vt"} = {}
DrawnOffScreen ==
    [][Composed => \A fb \in Fbs : out'.image[fb] \notin {0, out.image[fb]} =>
                                      fb \notin {out.lit, out.queued}]_vars

\* A frame that was asked for is on its way: schedule_frame() asks once only, so
\* a request that nothing will serve stays unserved for ever.
Recovers == ~({"vt", "refuse"} \subseteq setting.uses)
RequestServed ==
    Recovers /\ out.scheduled /\ ~out.suspended =>
        out.timer \/ out.events > 0 \/ out.queued # None

\* A quiet output owes the hardware no cursor and no colours.
NothingOwed == Recovers /\ Quiet => ~out.cursorDirty /\ ~out.colourDirty

\* A client that waits for a frame callback gets it.
ClientsAnswered == out.waiting /\ "refuse" \notin setting.uses ~> ~out.waiting

\* "A screen nothing is changing on costs no vblank subscription, no kernel
\* callback and no process wake-up at all."
GoesQuiet == setting.uses = {} => <>[]Quiet

=============================================================================
