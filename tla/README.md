# Luminaria in TLA+

Luminaria is a C++23 library for writing Wayland compositors: the protocol
objects clients talk to, the backends that own monitors and input devices, a
Vulkan renderer, and a shell layer that ties them together.  This directory is
its verification project: TLA+ modules translated from the source, TLC
configurations that check them on small instances, and theorems about them
that TLAPS proves for every instance.

Its Rust bindings are the way most compositors use it, and carry logic of their
own: an event queue, key bindings, tablets, screens.  The modules follow a piece
of behaviour through both languages, from the Rust call to the C++ that serves it.

Paths below are relative to `src/src/` (C++) or `src/bindings/rust/src/` (`*.rs`).

## 1. The system

Everything runs on one thread, in one `wl_event_loop`.  There is no data race
to look for.  What is hard is that control moves by *callbacks* in C++ (a client
request applies state and emits a signal whose handler presents the surface,
which clears a barrier, which releases the next parked commit), that Rust hears
of it *later* (C++ never calls Rust: a signal leaves a record, and the compositor
handles a batch of them after the fact, by names that may mean something else by
then), and that four parties act in an order nobody chooses: clients, the user,
the timers of the loop, and the kernel.

| Component | State it keeps | Operations | Talks to | What is hard, and what makes it correct |
|---|---|---|---|---|
| **surface** (`protocol/core/compositor`, `subcompositor`) | pending, cached, parked and current state; subsurface tree; buffers and callbacks | wl_surface and wl_subsurface requests; hold, unhold, present | everything that draws | commits take effect in order; every callback is answered once; a buffer is released once nobody reads it |
| **commit pacing** (`commit_timing`, `fifo`) | staged stamps, one loop timer | set_timestamp, barrier, wait, tick() | surface, event loop | what was committed is applied at last |
| **frame, scanout, renderer** (`shell/frame`, `direct_scanout`, `scene_renderer`) | two targets and what each owes; the list drawn last | begin, place, submit, draw | output, surface damage | the screen is the scene although only differences are drawn; an idle screen is left alone |
| **KMS output** (`backend/drm`, `backend/base`) | flip_pending, retry timer, dirty flags | schedule_frame, commit, set_mode, page flip, VT | kernel, renderer | no request for a frame is stranded |
| **xdg shell** (`xdg_shell`, `xdg_shell.rs`) | windows, popups, the pointers between them, states, focus | requests, commits, configure, dismiss, destruction | surface, seat | no pointer outlives its object; a client knows what was decided last; menus go together |
| **events and ids** (`core.rs`, `event.rs`, `luminaria_rs.cpp`) | the queue of a display, tables of names | dispatch, events, lookups | every wrapper | an event names what it is about, whatever happened since; nothing is lost |
| **main loop** (`core.rs`, `examples/calloop.rs`) | the descriptor, what is not yet flushed | dispatch, flush, watch | foreign event loops | nobody sleeps on an answer |
| **example compositor** (`examples/minimal.rs`) | a stack of windows | one match per event | everything above | batches of events that are already history |
| **geometry, regions** (`util.rs`, `util/region`, `transform`) | lists of disjoint rectangles; none | resize, intersect, turn, add, subtract | damage, input | they are the point sets they stand for |
| **keyboard** (`core.rs` KeyRouter, `seat`) | three books of pressed keys | route, focus, VT switch | clients | every press has its release, wherever it goes |
| **pointer** (`shell.rs` InputRouter, `default_input_router`, `seat`, `pointer_constraints`) | focus, grab, drag, lock, scene | motion, button, pick, constrain, dismiss | scene, clients, popups | one holder, and every client knows whether it is the one |
| **tablets** (`tablet_feed.rs`, `tablet`) | where each pen is, two books of it | feed, bind, unplug | scene, clients | a pen is in one place |
| **text input, input method** (`text_input.rs`, `desktop.rs`) | counted pending state on both sides | enable, commit, done | seat | a late answer is not applied to another field |
| **activation** (`activation.rs`, `xdg_activation`) | tokens nobody has spent | commit, activate | surfaces | good once, and as promised |
| **screens** (`shell.rs` ScreenManager, `screen_manager`) | an entry per output, the scene told last | set_scene, present, hotplug, capture | backend, renderer, captures | what is on screen is what was told, although frames come only when asked for |
| **output layout, pointer** (`shell.rs`) | boxes, a position | add, remove, move | everything in layout coordinates | the pointer stays where there is a screen |
| **outputs as globals** (`protocol.rs`, `output_global`) | what each client was told | bind, batches ended by done | layout, clients | mode and place are told together |
| **output management** (`desktop.rs`, `output_management`) | heads, serials, tickets | update, apply, answer | settings programs | stale wishes are cancelled, every wish is answered once |
| **gamma, colour matrix** (`desktop.rs`, `gamma_control`, `ctm_control`) | who owns the colours | set, release, commit | outputs | reset once, and never somebody else's |
| **layer shell** (`layer_shell.rs`, `shell/layer`) | wants, zones, configures | commit, arrange, close | outputs | a panel has been told what it was given |
| **session lock** (`desktop.rs`, `session_lock`) | the lock, its surfaces | lock, locked, unlock | outputs | locked as long as the client may count on it |
| **idle** (`idle.rs`, `idle_notify`, `idle_inhibit`) | countdowns, inhibitors | activity, inhibit | seat, loop timers | idle is reported, once, to whoever waits |
| **window lists, workspaces** (`desktop.rs`, `foreign_toplevel*`, `workspace`) | handles per client | atomic batches | shell | what a bar shows is what there is |
| **selections** (`selection.rs`, `data_device`, `data_control`) | owner, offers | set, offer, receive | seat, clipboard managers | nobody pastes from a dead or replaced source |
| **screen capture, dmabuf, explicit sync** (`protocol/render/*`) | sessions, planes, points | capture, import | renderer | each frame is answered once |
| **backends** (`headless`, `wayland`, `libinput`, `session`) | timers, a parent, devices | commit, dispatch | loop | pacing without a kernel |
| **signals, handles** (`core/signal`, `handle`) | slots, generations | connect, emit | everything | an old id never resolves |
| **Vulkan, CPU, colour, text, cursors** | GPU objects | draw, convert | frame | arithmetic over data |

`PROJECT.json` lists every component with its status and every hazard with the
line where it bites.

## 2. The modules

| Module | Models | Composes |
|---|---|---|
| `Surface` | the double-buffered state of wl_surface and the subsurface tree | |
| `CommitPacing` | wp_commit_timing and the loop's timer | extends `Surface`: its actions run Surface's own release loop |
| `FrameLedger` | what a frame repaints, on several outputs | |
| `OutputLoop` | one output, its renderer, the kernel, the loop and the VT | uses the verdict of `FrameLedger` (drawn, or unchanged) as one bit |
| `XdgShell` | windows, popups, transients and focus | sees of a wl_surface only whether it exists and has a buffer |
| `ObjectLives` | abstract: what a program may believe of the objects it is told about | |
| `EventStream` | the queue of events and the tables of names | implements `ObjectLives` |
| `LoopTurns` | turns of the main loop, own or foreign | |
| `MinimalLoop` | `examples/minimal.rs` | |
| `Geometry`, `Regions` | rectangles, transforms, resizes; lists of disjoint rectangles | |
| `KeyRouting` | key bindings, the seat's keys, VT switches | |
| `PointerRouting` | scene, focus, grabs, drags, locks, menus | |
| `TabletFeed` | pens and pads | |
| `TextBridge` | fields and the input method | |
| `Activation` | tokens | |
| `ScreenManager` | outputs, frames, the scene told last, sizes for captures | |
| `Layout` | boxes of outputs, the pointer | |
| `OutputConfigs`, `OutputGlobals` | output management; what clients are told of outputs | extend `Layout` |
| `Ramps` | gamma ramps and colour matrices | |
| `LayerPanels`, `SessionLock`, `Idle` | panels; the lock; idleness | |
| `Taskbars`, `Workspaces`, `Selections` | mirrored lists; clipboards | |
| `Desktop` | what the lock and idleness promise together; what holds of the five copies clients have of the desktop | extends those of the two rows above, and `OutputGlobals` |
| `Services` | what text input, activation and screens promise together | extends `TextBridge`, `Activation`, `ScreenManager` |
| `Positions` | the elements of a list at some positions, in order | used by `FrameLedger`, `Layout`, `LayerPanels`, `MinimalLoop` |
| `SurfaceProofs` | theorems about `Surface` and `CommitPacing` | |
| `FrameLedgerProofs`, `OutputLoopProofs`, `XdgShellProofs` | theorems about a frame; about an output; about windows | |
| `BindingsProofs`, `InputProofs`, `DesktopProofs` | theorems about the parts of `MCBindings`, `MCInput` and `MCDesktop` | |
| `PositionProofs` | lemmas about finite sets of numbers and `Positions` | extended by `FrameLedgerProofs`, `DesktopProofs`, `BindingsProofs` |
| `MCBindings`, `MCInput`, `MCDesktop` | several of the above in one run | extend them |
| other `MC*` | the kinds of client, compositor or system a run is about | |

`MCBindings`, `MCInput` and `MCDesktop` run their modules as *parts*: the
initial state picks one, its next-state relation is the only one enabled, and the
others stand still in an initial state of theirs.  The parts of one run share no
state, so that nothing is lost by this, and one run answers one question (is what
a client believes of the input true?) for each of them.  Modules that do share
state are composed by `EXTENDS`, and then run as one part.

The modules take a set of *kinds* (`Clients`, `Settings`) as a constant: the
initial state picks one, and the habits of a kind switch actions on.  One run so
covers several narrow and deep scenarios instead of one wide and shallow one,
and a property can say for which kinds it holds.

### Surface

State is that of the class: `pending_`, `cached_` and `has_cached_`,
`deferred_`, `current_buffer_`, `fifo_barrier_`, `queued_frame_callbacks_`,
`held_buffers_`, `release_due_`, `buffer_watches_`, `parent_`, `sub_sync_`.
Each commit carries one frame callback, so the set of commit numbers a `State`
holds stands for its callbacks too.  `owner` is what the *client* knows of a
buffer: it may write until it commits, and again after `wl_buffer.release`.

An action is one client request, one call of the compositor, or one turn of the
loop in `release_deferred_commit()`.  While that loop is on the stack
(`draining`) only the loop and the handlers of the signal `commit` run, and such
a handler may present the surface and so clear the barrier the loop is about to
test.  `Commit` has the four outcomes of the code: cached (synchronized),
parked, folded into the youngest when the queue is full, applied.  Destruction
of surfaces and of wl_buffers and the wl_subsurface objects left behind by a
destroyed parent are there; a destroyed surface is replaced by a new one under
the same name, so that a stale name would be noticed.

Left out: pixels, regions, scale, transform, viewport and the other sticky
values, stacking order, positions and hit testing.

### CommitPacing

`tick()` walks the surfaces with a living wp_commit_timer_v1, lets each release
what is due, and re-arms the one timer.  The commit handlers run inside, so
tick() is three actions (`Visit`, `Visited`, `Rearm`) around Surface's draining
steps.  The cap on one sleep is kept, rounding to milliseconds is not.

### FrameLedger

An output is a set of cells, a target a function from cells to what was drawn
there.  `Submit` is one frame, begin() to submit(), with its four results: the
client's buffer is scanned out, nothing is drawn, composited, failed.  The
module keeps the list drawn last, `full_redraw`, `last_valid`, the debt of each
target in the rotation, the damage of each surface (shared between outputs, as
in the code) and the private targets of composed groups with their stamps.
Shaders, blur, fences and retained textures are left out.

### OutputLoop

One record `out` has the flags of `DrmOutput`, of `Output` and of the renderer,
the four framebuffers with the number of the scene each contains, and the
kernel's share: the framebuffer queued, the one lit, the events not yet read.
The helpers (`Flip`, `Reflip`, `Committed`, `Draw`, ...) are functions from
`out` to `out` and compose in the order of the calls in the code; an action is
one callback: `PageFlip`, `TimerFires`, `SetMode`, `Pause`, `Resume`, ...
`Vblank` is the kernel's.  Which of the commits of a callback the kernel refuses
is chosen per callback.  Direct scanout, tearing and hotplug are left out.

### XdgShell

The objects and pointers are those of the code: `xs` (XdgSurface), `tl`
(ToplevelImpl), `pp` (PopupImpl), `focused`.  `told` and `asked` record what the
client was last sent and the size the compositor last chose, which the program
does not keep; `view` is what listeners of map and unmap know; `late` marks the
roles that were given after the initial commit of their xdg_surface.
`Configured` and `WithState` are the calls configure() and set_*() as the set of
records a window may become (a size substituted from a wl_surface that is gone
may be anything).  `Chain` is what dismiss() reaches: the least set that has the
popups it starts from and is closed under the children of those not yet done.
An action is one request, one commit as on_surface_commit() sees it, one call of
the compositor, or the destruction of one object.

Left out: the positioner and its constraints, titles, icons, decorations, size
hints, requests that only emit a signal, serials (`last_acked` is stored and
never read), and clients of version 1.

### ObjectLives and EventStream

`ObjectLives` is what the documentation of `core.rs` and `event.rs` promises: an
object is made once, ends at most once, and what the compositor believes lags
behind what is true but never contradicts it.  `EventStream` is the code: the
hub's queue of records, `Collect` (the end of `dispatch()`), `HandleEvent` (one
event, whose name is looked up then), surfaces in slots with generations, windows
named by their surface, outputs by a number, the wrapper of an output that is
handed over with its event.  The refinement mapping takes the lives from the
tables and the beliefs from the events handled; records still queued stand for
the lag.  `Faithful` is `ObjectLives`' specification under that mapping.

### LoopTurns, MinimalLoop

`LoopTurns` separates what a turn does: flush, sleep until something is
readable, dispatch, collect, handle.  A `driver` is a compositor that blocks in
`dispatch()`, one that calloop drives as `main()` of the example does, or one
driven as the samples of the documentation show (calloop, and `await`).  `MinimalLoop` is the
example's loop, event by event, over clients that map and destroy windows inside
the dispatch before.

### Geometry, Regions

Operators on integers (`Resized`, `Intersection`, `United`, `ApplyPoint`, ...) and
small machines that apply them, so that a resize has a past.  `Regions` keeps the
code's list of rectangles, in its order, and beside it the set of cells it stands for.

### KeyRouting, PointerRouting, TabletFeed, TextBridge

One action per input event, client request, or event of the session, each the
whole of `route()` or `feed()` with every call below it.  What the *clients* believe is
state of its own, changed only by what they are sent, and the properties compare
it with the books of the seat, of the feed and of the router.
Scenes are what lies under two spots, in order; positions do not matter otherwise.

### Activation, ScreenManager

`Activation` keeps the builders, the list of unspent tokens with its limit, and
history (`minted`, `judged`).  A string is the token object it was given to.
`ScreenManager` is the manager's list of outputs with what is on screen on each:
the scene told last, the looks of its surfaces and images, background, mode and
place.  `Present` is a frame the display paces; the other actions say which of
the calls and signals ask for one.  Captures know the size they were told.

### Layout, OutputConfigs, OutputGlobals, Ramps

`Layout` has one dimension (the code aligns tops), so that an output is where it
begins and how wide it is.  `OutputConfigs` has heads, serials, configurations
through test and apply, and verdicts by ticket; `OutputGlobals` what each client
has been sent and what it has seen a `done` for.  `Ramps` has both protocols that
may set the colours of an output, and the events the compositor handles later; they
share no control and no client state, so a run takes one at a time ("ramps",
"matrices").  An output has a table as `size_for()` says: each has one until
set_output_size() was called for any, and then those that were named.

### LayerPanels, SessionLock, Idle, Taskbars, Workspaces, Selections

Each has the C++ object, its clients, and the compositor that handles the events
later and calls back with names.  Their headers say what is left out.  That the
session stays shut when its locker dies is a step property, `LatchHeld`: the latch
falls in an orderly unlock of the granted lock only, and always falls there.

## 3. The runs

| Run | Question | Bounds | Result |
|---|---|---|---|
| `surface_safe` | order, conservation of callbacks, releases, watches, subtrees | 6 kinds of client: up to 3 surfaces, 2 buffers, 4 commits, a queue of 2 | passes, 3.2*10^5 states |
| `pacing_live` | does what was committed take effect, with and without presentation | 2 surfaces, 2 commits, 3 instants, sleeps of 1 | passes |
| `frame_safe` | is the screen the scene, does the desktop come to rest | 1 output, 2 windows, 2 cells, 2 pictures, 1 or 2 targets | passes |
| `output_live` | no stranded request, nothing owed, clients answered, no drawing into what is lit | 15 systems, 2 scenes, 3 unread events | passes, 1.4*10^4 states |
| `xdg_safe` | do pointers, states, mapping, focus and menus agree whatever is destroyed when | 5 kinds of session: up to 3 surfaces, 2 toplevels, 2 popups | passes, 2.3*10^5 states |
| `bindings_safe` | do events mean what they say and all arrive; does a loop answer; are rectangles and regions sets; does the example show its windows | 1 slot with 2 generations, 2 windows, 1 output, 3 records; coordinates 0 and 2 with travels of -3 and 1; 7 boxes on 3x3; 2 windows in batches of 3; 2 callers | passes, 4.2*10^5 states |
| `input_safe` | do clients know who has keys, pointer, pens, the focused field; are tokens honest; do screens show what they were told | 2 clients, 2 keys; 3 windows, 4 scenes, 1 button; 2 tablets, a pad and a pen over 2 surfaces; 2 fields, 4 dones; 3 tokens of which 2 are remembered; 2 outputs, 2 scenes, 2 wl_outputs | passes, 1.7*10^6 states |
| `desktop_safe` | is the session safe while the user is away; do mirrors agree; does the arrangement survive; is the latch opened by an unlock only; is a ramp put back once its client is done with it | 2 lockers, 2 panels, 2 windows and 2 bars, 2 workspaces, 2 inhibitors and 2 notifications, 2 outputs of 2 widths, 1 configuration with 3 serials, 2 apps with 2 controls, 2 pasters and a manager | passes, 4.0*10^5 states |
| `order_nested` | "Never reorder a client's own commits" | a tree of 3 | violated: set_desync on the middle of a nested tree |
| `await_stalls` | a turn sends "the clients what the last turn produced" | 2 callers, the samples' loops | violated: the answer waits for a wake-up that never comes |
| `drag_nothing` | the pointer belongs to a drag "until the button that began it is released" | as `input_safe` | violated: the release is over nothing |
| `one_manager` | an xdg_output describes its output | as `desktop_safe`, a client with one manager | violated: it describes the manager's |

Why the bounds are enough.  A queue of 2 is the shortest in which a commit can
be folded behind another; 3 surfaces are the smallest nested tree; 2 buffers are
a swapchain; 4 commits let a buffer go round and come back.  Two targets are
what the code has, so a target is at most one frame behind, and two windows can
be stacked, swapped and uncovered.  A scene changes and changes back within 2
numbers.  `MaxEvents` = 3 lets a mode change queue its events behind one that
was not read.  Two popups over three surfaces are a chain
of menus that can also be siblings, two toplevels a window and its dialog; the
proofs cover longer chains.  Model values of surfaces, buffers,
windows, popups, cells and pictures are symmetric; symmetry is used in runs without liveness only.

Where a property carries a condition (`Steady`, `Composed`, `Calm`, `OrderKept`,
`Recovers`), the condition names what breaks it; section 5 lists it.  A failed
flip and a list built for hit-testing both break `CalmShownIsScene` (see the
hazards of `frame.cppm`).

In the runs of parts, two of each kind are what it takes for one to be mistaken
for the other: two clients for a focus to move, two generations for a name to be
used again, two fields, two lockers, two outputs.  A third is there where two
are not enough: three windows to have one that is a menu, three tokens to push
one out of a list of two, three records to have one between two others.  The
negative travel is longer than a window, so that a resize passes its own edge.
`MaxQueued`, `MaxEvents`, `MaxNews` and `MaxUnread` bound what the compositor has
not handled yet; it may be that much behind, at any point.

Where conditions are constants of a module, a run takes the values under which its
property holds, and section 5 says what happens with the others.

`CHECK_DEADLOCK FALSE` is set where the system may stop: an output whose scenes
have all been shown, and the parts, whose objects are used up (a slot has no more
generations, a token object makes one token) and which otherwise wait for a
user or a client that need not do anything.

### Fairness

* `pacing_live`: a call on the stack returns (WF of the steps of tick() and of
  the release loop; nothing else is enabled meanwhile), the clock advances and
  the loop serves a timer that is due (SF, because a call on the stack disables
  both for a while; `wl_event_loop_dispatch` serves every ready source).
  Presenting is *not* assumed: `AnsweredIfPresented` has it as its hypothesis.
* `output_live`: the loop reads the kernel's events and serves `retry_timer`, the
  kernel completes flips (WF each), and the user switches back to this VT
  sometime (WF of `Resume`, used by `ClientsAnswered` in the systems with a VT;
  it is an assumption about the user, not about the code).
* `bindings_safe`: a compositor keeps dispatching (WF of `Collect`) and handles
  what it collected (WF of `HandleEvent`), which is what a `for` over the events
  of `dispatch()` does.  For the loop, a turn that began goes on (WF of
  `LoopTurn`, which is not enabled while the loop sleeps and nothing is readable)
  and frame timers run out.  Clients promise nothing.
* `desktop_safe`: for `IdleReported`, the compositor handles the news and the timers
  of the loop run out (WF each).  The other parts state none.

### The refinement

`Faithful` in `bindings_safe` is `ObjectLives`' specification with the state of
`EventStream` substituted: TLC checks that every step of the queue and its tables
is a step of the abstract lives, or none.  It is also a theorem,
`StreamIsFaithful` below.  `CatchesUp` is the liveness that goes with it: every end is
heard.

## 4. The proofs

Each theorem holds for every value of the constants that satisfies the named
assumptions beside their declarations.  These say that a name for nothing names no
thing, that bounds are positive, that places and widths are numbers, and which kinds of
clients and systems there are;
TLC evaluates them on every run.  The bounds the runs need (on commits, events,
coordinates, serials) are constants of the theorems, not small numbers.

An invariant that is listed under a run and proved is seldom inductive; what was
added, and why, follows by module.  Long proofs are laid out by the calls of the code:
a lemma says what a helper returns, as a value, and a step of the specification is a
few of them.

### Surfaces

`SurfaceProofs`:

* `TypeCorrect`: `Spec => []TypeOK`.
* `NoDanglingHolds`: `Spec => []NoDangling`, no slot of a surface names a
  wl_buffer whose destruction it would not hear of.  TypeOK and NoDangling
  together are inductive: `commit_state` moves names between slots and prunes
  the watches afterwards, and every action is shown to keep each slot inside
  `watched`, `watched` inside `live` and `release_due_` inside `held_buffers_`.

Then an update is followed through the slots of a surface.  An action
may change many surfaces (a commit of the parent applies a subtree), so `StepMoves`
first proves that each step does to each surface one of a dozen `Moves`: it stays,
attaches, caches, parks, folds, applies, is answered, and so on.  Everything
promised of one surface is then proved move by move:

* `SlotsClean`: only a state that attached names a buffer, and nothing is cached
  without `has_cached_`.  The others rest on it.
* `NoReleaseLost`: `NoLostAt` is inductive with `SlotsClean`: a buffer the server
  owes is current, cached, parked or due.
* `ReleaseIsSafe`, for clients that wait for the release: `ReleaseInv` adds that the
  slots name different buffers, which is what applying one of them relies on.
* `CallbackIsOnce`: `CallbackInv` adds that the numbers in the slots are all that were
  requested, so that the next one is in none of them.
* `CachedStateHasParent`, `SubtreeIsApplied`, together `CachedStateIsApplied`: about the
  tree, which four steps change.  `Acyclic`, that sub_attach() refuses loops, is what
  makes the second true.
* `FifoPacesOneByOne`: without subsurfaces (`NoTree`), an update that was applied with
  a barrier and not presented has left it set (`PacedAt`).
* `CommitsInOrder`: `OrderInv` says that what was applied is older than what is cached
  or parked, and the queue is sorted; a surface caches or parks, but never both; for clients without subsurfaces or with shallow,
  ungated ones (`ShallowInv`), as the property says.

and of the timer (`CommitPacing`):

* `PacedSurfaces`: `PacingSpec => Spec`, a refinement: all of the above holds with
  the timer.  `PacingTypeCorrect` bounds the manager's deadlines.
* `WakeupIsArmed`: the property says that between two events a parked commit is
  covered by the timer.  The invariant also says it during the walk of `tick()`:
  `TickInv` counts visited surfaces as covered by the deadline gathered so far,
  and `ArmedAt` lets a commit inside the walk be covered by the re-arming to come.

### Output

`FrameLedgerProofs`, for any outputs, windows, cells and lists of placements:

* `TypeCorrect`: with the type goes `Stamped`, that a group's composed image
  is the window's picture while its stamp is current.
* `CalmShowsScene`: `Spec => []CalmShownIsScene`.  `Fronts` says that the screen looks
  like the list drawn last, but for windows that changed since; `Owes`, that the
  target drawn next looks like the screen, but for its debt.  `Undamaged` shows that
  outside the damage the scene is what the screen shows, whichever of moves, raises,
  closings and commits made the difference of the two lists; `Redrawn`, that damage
  and debt together make good the target that is drawn.
* `IdleIsQuiet`: `Spec => []QuietSoon`.  After one frame nothing is damaged (`Still`), and
  each further frame pays one more target's debt (`Paid`).
* Lists are filtered by their positions, in order.  `PositionProofs` shows that a finite set
  of numbers can be put in order, from the pigeonhole principle (`Greatest`, `Least`,
  `CanBeOrdered`), without induction, and that a filtered list has the elements that were
  chosen, each where the order puts it (`PickedIs`).  The layouts of outputs and of panels
  rest on the same lemmas.

`OutputLoopProofs`, for any set of systems and any bounds:

* `TypeCorrect`; `RequestIsServed`: `Spec => []RequestServed`;
  `NothingIsOwed`: `Spec => []NothingOwed`.
* None of these is inductive.  `IInv` adds where the next wake-up comes from:
  `Lively` (a pending flip has an event coming, a scheduled frame has a timer or
  one), `Clean` (a dirty cursor or colour table has one), and `Room` (the flip
  under way has a place among the unread events, and is the only one).  `Lively`
  and `Clean` hold unless commits are refused *and* the VT is switched: then
  light_up() may fail and leave an output that nothing wakes (`Recovers`).
* `QuietShowsScene`, `DrawsOffScreen`: `ShowInv` adds what each framebuffer holds:
  the one committed last is on screen or queued, the renderer's record of a frame is
  what is in it, and a frame that is counted as shown is there.
* The argument follows the calls.  `Step(o, p)` says that a helper takes a sound
  output to a sound one and neither puts it to sleep nor strands it; it is
  transitive, so `Draw` and `EmitFrame` are chains of lemmas, one per helper, and
  each action of `Next` is then a few lines.

### Windows

`XdgShellProofs`, for any numbers of surfaces, toplevels and popups:

* `TypeCorrect`; `NoDanglingPointers`: `Spec => []LinksAgree`;
  `FocusIsExclusive`: `Spec => []FocusedAlone`; `MenusAreDismissedTogether`:
  the action property `MenusGoTogether`.
* `IInv` is the conjunction of the first three.  LinksAgree is what makes them
  inductive: a destructor clears the pointers it knows of, and that these are
  all there are is the agreement of the pairs.  A destroyed window is activated
  only if it is `focused`, so the focus forgets it.
* For the menus, `Chain` is shown to have its roots and to be closed; that the
  code's recursion reaches just this set is the model's claim, not a theorem.
* `MappedHasContent` (with the focus, `ShownIsFocused`), `ClientIsTold`: `ShownInv` says
  of each window and menu that the states in its last configure are those it has, and
  that it maps after one.

### The bindings and geometry

`BindingsProofs`, for all integers:

* `GeoTyped`: `GeoSpec => []GeoTypeOK`; `GeometryHolds`: `GeoSpec => []GeometrySound`.
* The invariant needs no strengthening beyond the type.  Three lemmas carry it:
  `ResizedAnchors` (a resize that drags an edge leaves the undragged ones where they
  were and the window no smaller than the minimum, from whichever rectangle it starts), `MeetAndHull` (intersection and union as point sets) and
  `TurnsUndone` (one case per transform).  The run needs the small coordinates, the
  proof none; both leave out that the code's integers are 32 bits wide.
* `RegionsAreSets`: `RegionSpec => []RegionIsSet`.  `RegionInv` says that the list `Tiles` the
  set and has no pair left to join.  Each helper has a lemma of what it makes of a tiling:
  `PiecesAre` (the four pieces around a hole), `JoinFirstTiles` (a full edge in common is what
  makes the hull of two boxes their union), `FlattenTiles` (the loop that pushes what
  is left of each box), `CoalescedTiles` (each round takes a box, so the loop of
  coalesce() ends, and with no pair left).

and for any number of surfaces, windows and outputs:

* `StreamTypeCorrect`; `SuccessorIsAnnounced`; `StreamIsFaithful`:
  `StreamSpec => Faithful`, the refinement of `ObjectLives`, initial states to
  initial states and each step to a step or a stutter.
* The lag between the library and the compositor is the invariant.  `Faith` says what
  each queued record will find true when it is handled: a first record is about an
  object the compositor does not know, a later one about one it knows, a last one
  about one that is gone; what exists unknown has its first record in the queue
  (`Copied`, `InTurn`).  `OneWindow` says that a
  surface is watched as one window at a time, `IdsBounded` that a slot retires in time.

and for any number of windows, and any number of events in a dispatch:

* `EveryWindowIsShown`: `MinimalSpec => [](MinimalTypeOK /\ EveryWindowShown)`.
  `MinimalInv` says of a mapped window that the last event about it that is still to be
  handled raises it, or that there is none and it is on the stack (`Stays`); no window
  is on it twice (`Once`), and only a change of the layout makes the area that was read
  another than the one there is.
* A turn handles the whole batch.  `Sequel` is the state after its first n events, and each of
  its claims is shown for all n by looking at the least n for which it fails: `Least`,
  of `PositionProofs`, stands in for the induction.

### Input and services

`InputProofs`:

* `KeysTypeCorrect`; `NoKeyStaysDown`: `NoKeyStuck` is inductive with its type, once
  each call of the seat is shown to leave the books `Tidy`.
* `PointerIsSound`: `PointerInv` says that whoever believes it has the pointer is the
  focus, and a button that is believed down is down and of the grab (`Tells`), that one
  constraint is active at most, where the focus is (`Binds`), and that without grab and
  lock the focus is what the scene shows (`PickHolds`).
* `TabletsAreAgreed`: `FeedInv` relates three books, tool by tool and pad by
  pad (`PenAgrees`, `PadAgrees`): the feed's, the manager's and the clients'.  What
  was missing is that a pen in range is over a tablet that exists.

* `EveryFieldIsServed`: `TextInv` adds that one field at most has the focus and it is
  the one whose client has the keyboard (`OneField`).
* `TokensAreHonest`: what is in the manager's list was handed out, once, as it is
  there, and at least as many tokens ago as follow it (`Kept`); the last unspent ones
  are in it (`Recent`); a report agrees with what was handed out (`Reported`).
* `ScreensAreCurrent`: what is in a frame is what was told, unless a frame is owed
  (`Shown`); captures follow their outputs (`Followed`), names the hotplug (`Named`).
  Its assumptions, `~Recycled`, `~Hasty` and a GPU, are the conditions of the
  property in `input_safe`, and what fails without them is in the next section.
  `EveryClientIsServed` is the three together, as the run checks them.
### The desktop

`DesktopProofs`:

* `AwayIsSound`: of the events about a lock that the compositor has not handled, the last
  one says what is true now, and where there is none the compositor is right
  (`LockInv`); the news about inhibition alternate, so the notifier is
  one behind at most (`IdleInv`).
* `LatchIsHeld`: `LocksSpec => LatchHeld`, from the same invariant.  The latch is looked at
  action by action (`LockSteps`): who unlocks has the granted lock, which is the current one
  and in force as long as it lives, and who dies leaves the latch alone (`LatchStands`).
* `ColoursAreOwned`: `RampsInv` is the property, output by output, with the types it needs:
  a control that forgets that it applied also resets what it set, and the compositor
  is told of each change.
* `RampsAreHandedBack`: `RampsSpec => HandedBack`.  A ramp comes down in two calls only
  (`RampTaken`), both of which end a control that applied one; within a client there is one
  such control of an output (`ControlsApart`), and so it is its own ramp that comes down.
* `ArrangementIsSound`: `ConfigsSpec => []ArrangementSound`, and `PointerKept` of
  `LayoutSpec` too, where the pointer moves.  `ConfigurationsAreJudged` is the half that is
  about clients: a description is known by its serial (`HeadsInv`), and a ticket is fresh
  when it is given, so whoever holds one is alone (`RequestsInv`).  `PointerIsKept` is the
  other: with the type (`LayoutInv`) the box around the outputs is one of numbers, whose
  least and greatest exist (`BoundsAre`), and the pointer is clamped into it.
* `PanelsAreLaidOut`: `PanelsInv` says, panel by panel, that the *last* event that is not
  handled and says whether it is mapped is right, and with none that what is kept is
  (`Agreed`); that the event which puts it on the output, if it is not there, is before all
  of those (`Coming`); that with nothing to handle each panel was answered (`Answered`) and
  the boxes are what a fresh layout gives (`FreshLayout`).  The layout is idempotent because
  what it depends on, order and wishes and what is mapped, is not what it changes.
* `TaskbarsAreTrue`: one client's handles are followed through the calls of the code, as
  values (`SaysOf`); that a parent's handle is live is what a client's batch must keep while a
  window is announced, described and closed.
* `PagersAreTrue`: the property speaks of committed batches; `PagerInv` says that whoever is
  bound has been *sent* all there is at any time, and sees it unless a done is owed.
* `ScreensAreTold`: `ToldOf` says of each client and output that what it holds is what the
  global keeps; a broadcast is shown to tell it to every client at once (`BroadcastTells`).
  A global that follows the layout has the place of its box (`GlobalKept`), which a step of
  the layout changes only together with the global.
* `ClipboardIsTrue`: `ClipInv` makes `ValidOffers` of `OffersHonest` (an offer that is still
  valid is of the owner of *now*), and of the compositor's lag that the last record it has
  not read, or what it knows, is the owner (`HeardLast`).
* `MirrorsAreTrue` is the five together, as the run checks them.  Its hypotheses are those of
  the run and are stated in the modules as kinds of client: `OldXdg = {}`, that clients speak
  xdg-output 3 (an older one is sent no done of its own after a change); `~OneManager`, that each
  client asks an output's own manager; `~LateOffers`, that a source has named its formats
  when it becomes the selection.  Section 5 has what happens otherwise.  Only `ScreensTold`
  needs the first two and only `ClipboardAgrees` the third.

### What is only model-checked

* Liveness (`TimedCommitsApplied`, `AnsweredIfPresented`, `ClientsAnswered`,
  `GoesQuiet`, `CatchesUp`, `RequestsAnswered`, `IdleReported`): neither fairness
  nor ENABLED is within the prover's reach.

Every safety invariant and every step property that a run checks is a theorem, for all
values of the constants that its assumptions admit.

The modules with theorems have no recursive operator: loops over a list are recursive
functions, whose values exist and keep what each round keeps by the least round that
would not (`Upto`, `Iterates`).  A type invariant is
stated in every module and proved where there is a proof module; the runs leave it
out where it is proved, and where their properties could not be evaluated without it.

## 5. What does not hold

Four disagreements between the code and its own words have a run and are in
`findings`, with both lines: desynchronizing the middle of a nested tree
reorders commits; the loops the documentation shows for calloop and Tokio leave
an answer unsent; a drag that is dropped over nothing goes on; and an xdg-output
manager answers for its own output, whichever one it is asked about.

Others are stated in the modules, each below a comment that says why it fails, for
a constant or a kind of system that a run may be given.  They have no run, because
one witness per kind of trouble is enough or because the document leaves room:

| Statement | Module | Fails with | Because |
|---|---|---|---|
| `CachedHasParentAlways` | `Surface` | `OrphanClients` | a parent that dies first strands its children's cached state |
| `WakeupArmedAlways` | `CommitPacing` | `MixedClients` | a barrier hides the stamps behind it from the timer |
| `UnchangedIsRight` | `FrameLedger` | `SharedSettings` | two outputs share one record of damage |
| `IdleShowsSceneAlways` | `OutputLoop` | `VtSettings`, `RefuseSettings` | the renderer takes the other VT's picture, or the CPU's, for its own |
| `DrawnOffScreenAlways` | `OutputLoop` | `ModeSettings` | a refused mode change forgets the flip under way |
| `TopHasKeyboard`, `StackIsMapped` | `MinimalLoop` | any | a click that is handled late raises a window that is gone |
| `WindowsFill` | `MinimalLoop` | any | a window that is in no stack misses a change of the layout |
| `KeepsOut` | `LayerPanels` | any | a lower layer is laid out before the zones above it are taken |
| `FamilyShown` | `Taskbars` | any | a parent that maps after its transient is not announced |
| `UpdatesTogether` | `Workspaces` | any | an output that enters a group ends a batch that was not committed |
| `StaleDropped`, `ActiveServes` | `TextBridge` | any | strings of an ignored commit wait in the field; a destroyed field tells nobody |
| `OneControl`, `OwnRampOnly` | `Ramps` | two clients | controls are compared by their wl_output, and each client has its own: both own the output, and the end of one resets the ramp of the other |
| `LeftAsItWas` | `Ramps` | `Supersedes` | who is superseded leaves its ramp to the newcomer, which may end without having set one |
| `ManagersAgree` | `Selections` | `LateOffers` | a format added after the selection is announced to nobody |
| `ToldAsKept` | `OutputGlobals` | `OldXdg` | xdg-output of version 2 and below gets no done |
| `ShownIsTold` | `ScreenManager` | `Gpus = {FALSE}` | a new scale asks for a frame only through the GPU's targets |
| `CapturesTold` | `ScreenManager` | `Hasty`, `Recycled` | a mode that changes back before a frame, and a wl_output at a reused address, leave the wrong size |

Where a property that is run carries a condition (`Steady`, `Composed`, `Calm`, `OrderKept`,
`Recovers`, or a constant), it names what breaks it.

## 6. The plan

Done: the path of a picture from a client's commit to the screen; windows; the
Rust side of events, input and the desktop protocols, over their C++.

Next, the most consequential first:

1. `Scanout`: the holds of `DirectScanout` on the buffers of a `Surface` across flips.
2. `Capture` (sessions and frames of screencopy), over `ScreenManager`.
3. `Signals` (re-entrant emission) and the registry's generations mod 2^w.
4. `ExplicitSync` over `Surface`; touch points in `PointerRouting`; the positioner.
5. `Teardown`: the order in which wrappers may be dropped, by their borrows.

## 7. Not modelled, and why

The Vulkan and CPU renderers, colour arithmetic, glyphs and cursor images are
arithmetic over data, without an order of events to get wrong.  Most of `gpu.rs`,
`render.rs`, `text.rs`, `color.rs`, `gestures.rs`, `core_globals.rs` and the virtual
devices of `desktop.rs` pass one call or one event on, the `ffi*.rs` declare what
C++ offers, and `build.rs` is no part of the program: of these only what another
module needs appears.  The backends for headless and nested operation differ from
the KMS output in who paces them.  Integers have no width: rectangles near the
ends of `i32` are not covered.  Everything else that `PROJECT.json` calls
`not_modelled` is in the plan.
