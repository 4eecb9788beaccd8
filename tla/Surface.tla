------------------------------ MODULE Surface ------------------------------
(***************************************************************************)
(* The double-buffered state of wl_surface objects                         *)
(* (src/protocol/core/compositor.cppm): pending, cached (synchronized      *)
(* subsurface), deferred (fifo and commit-timing gates) and current state, *)
(* the subsurface tree that decides when cached state is applied, and the  *)
(* life of the client's wl_buffers and frame callbacks through all of it.  *)
(*                                                                         *)
(* Everything runs on one thread.  An action is one client request, one    *)
(* call the compositor makes on a Surface, or one turn of the loop in      *)
(* release_deferred_commit(); while that loop is on the stack (draining)   *)
(* nothing but the loop and the handlers of the signal `commit` run.  Such *)
(* a handler is the compositor's code: it may present the surface.         *)
(*                                                                         *)
(* A surface that is destroyed is replaced at once by a new one under the  *)
(* same model value, with a wl_buffer pool of its own.                     *)
(*                                                                         *)
(* Pixels, regions, scale, transform, viewport and the other sticky values *)
(* are left out.  Each commit carries one frame callback, so the set of    *)
(* commit numbers a State holds stands for its frame_callbacks as well.    *)
(***************************************************************************)
EXTENDS Naturals, Sequences, FiniteSets

CONSTANTS
    Surfaces,      \* the wl_surface objects a client may create
    Buffers,       \* the wl_buffer names it may have for each surface
    NoSurface,     \* null Surface*
    NoBuffer,      \* null wl_resource*
    Clients,       \* the kinds of client: see Client
    MaxDeferred,   \* Surface::max_deferred_commits (64 in the code)
    MaxCommits,    \* bound: commits per surface
    MaxTime        \* bound: instants of CLOCK_MONOTONIC

\* What a client may do besides attach and commit.
Habits == {"subsurface",  \* get_subsurface, set_sync, set_desync
           "nested",      \* a subsurface of a subsurface
           "destroy",     \* destroys surfaces
           "orphan",      \* also those that have subsurfaces
           "fifo",        \* wp_fifo_v1
           "timing",      \* wp_commit_timer_v1
           "untimed",     \* destroys its wp_commit_timer_v1
           "hold",        \* its buffers are scanned out directly
           "reattach"}    \* attaches a buffer it has not got back yet

\* A client: its habits, and bounds on what it makes of the constants.
Client == [uses : SUBSET Habits, surfaces : SUBSET Surfaces,
           buffers : SUBSET Buffers, commits : 0..MaxCommits, time : 0..MaxTime]

ASSUME SurfaceAssumption ==
    /\ NoSurface \notin Surfaces
    /\ NoBuffer \notin Buffers
    /\ Clients \subseteq Client
    /\ MaxDeferred \in Nat \ {0}
    /\ MaxCommits \in Nat
    /\ MaxTime \in Nat

VARIABLES
    client,       \* who is connected
    pending,      \* pending_: accumulated since the last commit request
    cached,       \* cached_: sync-mode state waiting for the parent's commit
    hasCached,    \* has_cached_
    deferred,     \* deferred_: gated commits, oldest first
    current,      \* current_buffer_
    fifoBarrier,  \* fifo_barrier_
    queued,       \* queued_frame_callbacks_: applied, not answered
    held,         \* held_buffers_
    releaseDue,   \* release_due_
    watched,      \* buffer_watches_
    parent,       \* parent_
    subSync,      \* sub_sync_
    roles,        \* wl_subsurface objects whose glue still names the surface
    draining,     \* the surface whose releasing_deferred_ is set
    drainNow,     \* now_ns of the release_deferred_commit() on the stack
    now,          \* CLOCK_MONOTONIC
    live,         \* the wl_buffer resources that exist
    owner,        \* who may write to a buffer: the client until it commits
                  \*   it, then the server until wl_buffer.release; lost if
                  \*   the surface went away in between
    made,         \* how many commits the client has requested
    done,         \* commits whose frame callback was answered
    paced         \* updates that both wait and set a barrier applied since
                  \*   the barrier was last cleared

bufferVars == <<current, held, releaseDue, watched, live, owner>>
queueVars  == <<cached, hasCached, deferred>>
treeVars   == <<parent, subSync, roles>>
loopVars   == <<draining, drainNow>>
showVars   == <<fifoBarrier, queued, done, paced>>
worldVars  == <<client, now>>
vars == <<pending, queueVars, bufferVars, treeVars, loopVars, showVars, worldVars,
          made>>

Numbers == 1..MaxCommits
MaxRoles == 2

\* Surface::State.
State == [commits : SUBSET Numbers,
          buffer  : Buffers \cup {NoBuffer},
          dirty   : BOOLEAN,
          barrier : BOOLEAN,
          wait    : BOOLEAN,
          time    : 0..MaxTime]

EmptyState == [commits |-> {}, buffer |-> NoBuffer, dirty |-> FALSE,
               barrier |-> FALSE, wait |-> FALSE, time |-> 0]

TypeOK ==
    /\ client \in Clients
    /\ pending \in [Surfaces -> State]
    /\ cached \in [Surfaces -> State]
    /\ hasCached \in [Surfaces -> BOOLEAN]
    /\ deferred \in [Surfaces -> Seq(State)]
    /\ current \in [Surfaces -> Buffers \cup {NoBuffer}]
    /\ fifoBarrier \in [Surfaces -> BOOLEAN]
    /\ queued \in [Surfaces -> SUBSET Numbers]
    /\ held \in [Surfaces -> SUBSET Buffers]
    /\ releaseDue \in [Surfaces -> SUBSET Buffers]
    /\ watched \in [Surfaces -> SUBSET Buffers]
    /\ parent \in [Surfaces -> Surfaces \cup {NoSurface}]
    /\ subSync \in [Surfaces -> BOOLEAN]
    /\ roles \in [Surfaces -> 0..MaxRoles]
    /\ draining \in Surfaces \cup {NoSurface}
    /\ drainNow \in 0..MaxTime
    /\ now \in 0..MaxTime
    /\ live \in [Surfaces -> SUBSET Buffers]
    /\ owner \in [Surfaces -> [Buffers -> {"client", "server", "lost"}]]
    /\ made \in [Surfaces -> 0..MaxCommits]
    /\ done \in [Surfaces -> SUBSET Numbers]
    /\ paced \in [Surfaces -> Nat]

-----------------------------------------------------------------------------
(* The subsurface tree *)

\* s and everything above it: the least set with s that is closed under
\* "parent of".
Ancestors(s, par) ==
    {a \in Surfaces : \A T \in SUBSET Surfaces :
        (s \in T /\ \A c \in T : par[c] # NoSurface => par[c] \in T) => a \in T}

Children(s) == {c \in Surfaces : parent[c] = s}

\* effective_sync(): s or an ancestor of it is a subsurface in sync mode.
EffectiveSync(s, par, sync) ==
    \E a \in Ancestors(s, par) : par[a] # NoSurface /\ sync[a]

-----------------------------------------------------------------------------
(* Slips: wrong versions of the operators below, for the mutation runs. *)

Waiting_Children(s) == {d \in Surfaces : parent[d] = s /\ hasCached[d]}
Named_NotDeferred(pend, cach, def, cur, hld) ==
    ({pend.buffer, cach.buffer, cur} \cup hld) \ {NoBuffer}
Merge_Replaces(into, from) == from
Superseded_Never(into, from) == {}
GateBlocks_NotFifo(s, st, limit) == st.time > limit
GateBlocks_Late(s, st, limit) == (st.wait /\ fifoBarrier[s]) \/ st.time >= limit
Forget_Never(st, b) == st
ReleaseCached_Never(s, free) ==
    UNCHANGED <<cached, hasCached, bufferVars, showVars>>

-----------------------------------------------------------------------------
(* States and buffers *)

\* The descendants whose cached state a commit of s applies: commit_state()
\* and parent_committed() walk the whole subtree.
Waiting(s) ==
    {d \in Surfaces \ {s} : s \in Ancestors(d, parent) /\ hasCached[d]}

BuffersIn(queue) == {queue[i].buffer : i \in DOMAIN queue}

\* The slots prune_buffer_watches() looks at.
Named(pend, cach, def, cur, hld) ==
    ({pend.buffer, cach.buffer, cur} \cup BuffersIn(def) \cup hld) \ {NoBuffer}

\* prune_buffer_watches() as the last thing a handler does.
PruneWatches(S) ==
    watched' = [s \in Surfaces |->
        IF s \in S
        THEN watched[s] \cap
                 Named(pending'[s], cached'[s], deferred'[s], current'[s], held'[s])
        ELSE watched[s]]

\* merge_state(): the newer commit's buffer wins, the rest accumulates.
Merge(into, from) ==
    [commits |-> into.commits \cup from.commits,
     buffer  |-> IF from.dirty THEN from.buffer ELSE into.buffer,
     dirty   |-> into.dirty \/ from.dirty,
     barrier |-> into.barrier \/ from.barrier,
     wait    |-> into.wait \/ from.wait,
     time    |-> IF into.time > from.time THEN into.time ELSE from.time]

\* The buffer merge_state() releases because it was never applied.
Superseded(into, from) ==
    IF from.dirty /\ into.dirty /\ into.buffer # from.buffer
    THEN {into.buffer} \ {NoBuffer}
    ELSE {}

\* The buffer commit_state() takes off the surface when it applies st.
Replaced(s, st) ==
    IF st.dirty /\ current[s] # st.buffer THEN {current[s]} \ {NoBuffer} ELSE {}

\* It goes back to the client at once, unless it is on screen.
ReleasedNow_HeldToo(s, st) == Replaced(s, st)
ReleasedNow(s, st) == Replaced(s, st) \ held[s]
Withheld(s, st) == Replaced(s, st) \cap held[s]

\* wl_buffer.release: the client has these again.
GiveBack(own, bs) == [b \in Buffers |-> IF b \in bs THEN "client" ELSE own[b]]

\* The next commit request on s turns pending_ into this State; its buffer is
\* the server's from here on.
NextState(s) == [pending[s] EXCEPT !.commits = {made[s] + 1}]
NextOwner(s) ==
    IF pending[s].dirty /\ pending[s].buffer # NoBuffer
    THEN [owner[s] EXCEPT ![pending[s].buffer] = "server"]
    ELSE owner[s]

\* gate_blocks(): fifo and commit timing.
GateBlocks(s, st, limit) == (st.wait /\ fifoBarrier[s]) \/ st.time > limit

\* The part of commit_state() that acts on queue and buffers, for s with st
\* and for every descendant with its cached state; `spent` lose their cached
\* state, `own` is who owns the buffers of s, and the handler of the signal
\* `commit` presented the surfaces in `shown`.
ApplyUpdate(s, st, spent, own, shown) ==
    LET U == {s} \cup Waiting(s)
        upd == [d \in U |-> IF d = s THEN st ELSE cached[d]]
    IN
    /\ cached' = [d \in Surfaces |-> IF d \in spent THEN EmptyState ELSE cached[d]]
    /\ hasCached' = [d \in Surfaces |-> hasCached[d] /\ d \notin spent]
    /\ current' = [d \in Surfaces |->
           IF d \in U /\ upd[d].dirty THEN upd[d].buffer ELSE current[d]]
    /\ releaseDue' = [d \in Surfaces |->
           IF d \in U THEN releaseDue[d] \cup Withheld(d, upd[d])
                      ELSE releaseDue[d]]
    /\ owner' = [d \in Surfaces |->
           IF d \in U
           THEN GiveBack(IF d = s THEN own ELSE owner[d], ReleasedNow(d, upd[d]))
           ELSE owner[d]]
    /\ fifoBarrier' = [d \in Surfaces |->
           d \notin shown /\ (fifoBarrier[d] \/ (d \in U /\ upd[d].barrier))]
    /\ queued' = [d \in Surfaces |->
           (IF d \in shown THEN {} ELSE queued[d]) \cup
           (IF d \in U THEN upd[d].commits ELSE {})]
    /\ done' = [d \in Surfaces |->
           IF d \in shown THEN done[d] \cup queued[d] ELSE done[d]]
    /\ paced' = [d \in Surfaces |->
           IF d \in shown THEN 0
           ELSE IF d \in U /\ upd[d].wait /\ upd[d].barrier THEN paced[d] + 1
           ELSE paced[d]]
    /\ UNCHANGED <<held, live>>
    /\ PruneWatches(U)

-----------------------------------------------------------------------------
Init ==
    /\ client \in Clients
    /\ pending = [s \in Surfaces |-> EmptyState]
    /\ cached = [s \in Surfaces |-> EmptyState]
    /\ hasCached = [s \in Surfaces |-> FALSE]
    /\ deferred = [s \in Surfaces |-> <<>>]
    /\ current = [s \in Surfaces |-> NoBuffer]
    /\ fifoBarrier = [s \in Surfaces |-> FALSE]
    /\ queued = [s \in Surfaces |-> {}]
    /\ held = [s \in Surfaces |-> {}]
    /\ releaseDue = [s \in Surfaces |-> {}]
    /\ watched = [s \in Surfaces |-> {}]
    /\ parent = [s \in Surfaces |-> NoSurface]
    /\ subSync = [s \in Surfaces |-> TRUE]
    /\ roles = [s \in Surfaces |-> 0]
    /\ draining = NoSurface
    /\ drainNow = 0
    /\ now = 0
    /\ live = [s \in Surfaces |-> client.buffers]
    /\ owner = [s \in Surfaces |-> [b \in Buffers |-> "client"]]
    /\ made = [s \in Surfaces |-> 0]
    /\ done = [s \in Surfaces |-> {}]
    /\ paced = [s \in Surfaces |-> 0]

-----------------------------------------------------------------------------
(* Requests that build pending state *)

\* What the client passes to wl_surface.attach: nothing, or a buffer of its.
Attachable(s) ==
    {NoBuffer} \cup
    {b \in live[s] : owner[s][b] = "client" \/
        ("reattach" \in client.uses /\ owner[s][b] = "server")}

\* wl_surface.attach -> set_pending_buffer().
Attach(s, b) ==
    /\ draining = NoSurface
    /\ b \in Attachable(s)
    /\ pending' = [pending EXCEPT ![s] = [@ EXCEPT !.buffer = b, !.dirty = TRUE]]
    /\ watched' = [watched EXCEPT ![s] = @ \cup ({b} \ {NoBuffer})]
    /\ UNCHANGED <<queueVars, current, held, releaseDue, live, owner, treeVars,
                   loopVars, showVars, worldVars, made>>

\* wp_fifo_v1.set_barrier, wp_fifo_v1.wait_barrier and
\* wp_commit_timer_v1.set_timestamp -> set_pending_fifo_barrier(),
\* set_pending_fifo_wait(), set_pending_commit_time().
SetGate(s, st) ==
    /\ draining = NoSurface
    /\ pending' = [pending EXCEPT ![s] = st]
    /\ UNCHANGED <<queueVars, bufferVars, treeVars, loopVars, showVars, worldVars, made>>

SetBarrier(s) ==
    /\ "fifo" \in client.uses
    /\ ~pending[s].barrier
    /\ SetGate(s, [pending[s] EXCEPT !.barrier = TRUE])

SetWait(s) ==
    /\ "fifo" \in client.uses
    /\ ~pending[s].wait
    /\ SetGate(s, [pending[s] EXCEPT !.wait = TRUE])

\* A second timestamp for the same commit is a protocol error.
SetCommitTime(s, t) ==
    /\ "timing" \in client.uses
    /\ pending[s].time = 0
    /\ SetGate(s, [pending[s] EXCEPT !.time = t])

-----------------------------------------------------------------------------
(* wl_surface.commit -> apply_commit() *)

CommitRequest(s) ==
    /\ draining = NoSurface
    /\ made[s] < client.commits
    /\ made' = [made EXCEPT ![s] = @ + 1]
    /\ pending' = [pending EXCEPT ![s] = EmptyState]
    /\ UNCHANGED <<treeVars, loopVars, worldVars>>

\* A synchronized subsurface keeps its state for the parent's commit.
CommitCached(s) ==
    /\ CommitRequest(s)
    /\ EffectiveSync(s, parent, subSync)
    /\ cached' = [cached EXCEPT ![s] = Merge(@, NextState(s))]
    /\ hasCached' = [hasCached EXCEPT ![s] = TRUE]
    /\ owner' = [owner EXCEPT
           ![s] = GiveBack(NextOwner(s), Superseded(cached[s], NextState(s)))]
    /\ UNCHANGED <<deferred, current, held, releaseDue, live, showVars>>
    /\ PruneWatches({s})

\* A gated commit, or one behind a gated commit, queues.
MustPark_GateOnly(s) == GateBlocks(s, NextState(s), now)
MustPark(s) == deferred[s] # <<>> \/ GateBlocks(s, NextState(s), now)

CommitParked(s) ==
    /\ CommitRequest(s)
    /\ ~EffectiveSync(s, parent, subSync)
    /\ MustPark(s)
    /\ Len(deferred[s]) < MaxDeferred
    /\ deferred' = [deferred EXCEPT ![s] = Append(@, NextState(s))]
    /\ owner' = [owner EXCEPT ![s] = NextOwner(s)]
    /\ UNCHANGED <<cached, hasCached, current, held, releaseDue, live, showVars>>
    /\ PruneWatches({s})

\* Past the bound it is folded into the newest parked commit.
Newest(queue) == queue[Len(queue)]
Folded(queue, st) == [queue EXCEPT ![Len(queue)] = Merge(Newest(queue), st)]

CommitFolded(s) ==
    /\ CommitRequest(s)
    /\ ~EffectiveSync(s, parent, subSync)
    /\ MustPark(s)
    /\ Len(deferred[s]) >= MaxDeferred
    /\ deferred' = [deferred EXCEPT ![s] = Folded(@, NextState(s))]
    /\ owner' = [owner EXCEPT
           ![s] = GiveBack(NextOwner(s), Superseded(Newest(deferred[s]), NextState(s)))]
    /\ UNCHANGED <<cached, hasCached, current, held, releaseDue, live, showVars>>
    /\ PruneWatches({s})

\* Anything else is applied in the request.
CommitDirect(s) ==
    /\ CommitRequest(s)
    /\ ~EffectiveSync(s, parent, subSync)
    /\ ~MustPark(s)
    /\ UNCHANGED deferred
    /\ \E shown \in {{}, {s}} :
           ApplyUpdate(s, NextState(s), Waiting(s), NextOwner(s), shown)

-----------------------------------------------------------------------------
(* Releasing parked commits *)

\* clear_fifo_barrier() up to its call of release_deferred_commit().
DropBarrier(s) ==
    /\ draining = NoSurface
    /\ fifoBarrier' = [fifoBarrier EXCEPT ![s] = FALSE]
    /\ paced' = [paced EXCEPT ![s] = 0]
    /\ draining' = s
    /\ drainNow' = now
    /\ UNCHANGED <<pending, queueVars, bufferVars, treeVars, worldVars, made>>

\* send_frame_done(): the surface was on screen.
Present(s) ==
    /\ DropBarrier(s)
    /\ done' = [done EXCEPT ![s] = @ \cup queued[s]]
    /\ queued' = [queued EXCEPT ![s] = {}]

\* FifoManager::unblock_hidden(), and ~FifoObject.
ClearBarrier(s) ==
    /\ "fifo" \in client.uses
    /\ DropBarrier(s)
    /\ UNCHANGED <<done, queued>>

\* The commit-timing wakeup (limit = now), and ~CommitTimer (limit = max).
ReleaseDeferred(s, limit) ==
    /\ draining = NoSurface
    /\ deferred[s] # <<>>
    /\ draining' = s
    /\ drainNow' = limit
    /\ UNCHANGED <<pending, queueVars, bufferVars, treeVars, showVars, worldVars, made>>

\* One turn of the loop in release_deferred_commit().
DrainStep(s) ==
    /\ draining = s
    /\ deferred[s] # <<>>
    /\ ~GateBlocks(s, Head(deferred[s]), drainNow)
    /\ deferred' = [deferred EXCEPT ![s] = Tail(@)]
    /\ UNCHANGED <<pending, treeVars, loopVars, worldVars, made>>
    /\ \E shown \in {{}, {s}} :
           ApplyUpdate(s, Head(deferred[s]), Waiting(s), owner[s], shown)

DrainEnd(s) ==
    /\ draining = s
    /\ deferred[s] # <<>> => GateBlocks(s, Head(deferred[s]), drainNow)
    /\ draining' = NoSurface
    /\ UNCHANGED <<pending, queueVars, bufferVars, treeVars, drainNow, showVars,
                   worldVars, made>>

-----------------------------------------------------------------------------
(* Buffers on screen, and the life of wl_buffer resources *)

\* hold_buffer(): DirectScanout holds the committed buffer.
Holdable(s) == {current[s]} \ ({NoBuffer} \cup held[s])

HoldBuffer(s, b) ==
    /\ draining = NoSurface
    /\ "hold" \in client.uses
    /\ b \in Holdable(s)
    /\ held' = [held EXCEPT ![s] = @ \cup {b}]
    /\ watched' = [watched EXCEPT ![s] = @ \cup {b}]
    /\ UNCHANGED <<pending, queueVars, current, releaseDue, live, owner, treeVars,
                   loopVars, showVars, worldVars, made>>

\* unhold_buffer().
UnholdBuffer(s, b) ==
    /\ draining = NoSurface
    /\ b \in held[s]
    /\ held' = [held EXCEPT ![s] = @ \ {b}]
    /\ releaseDue' = [releaseDue EXCEPT ![s] = @ \ {b}]
    /\ owner' = [owner EXCEPT ![s] = GiveBack(@, {b} \cap releaseDue[s])]
    /\ UNCHANGED <<pending, queueVars, current, live, treeVars, loopVars,
                   showVars, worldVars, made>>
    /\ PruneWatches({s})

\* forget_buffer() on one slot.
Forget(st, b) == IF st.buffer = b THEN [st EXCEPT !.buffer = NoBuffer] ELSE st

\* The client destroys a wl_buffer.  Only a buffer this surface watches is
\* forgotten by it; forget_buffer() drops the watch too.
DestroyBuffer(s, b) ==
    /\ draining = NoSurface
    /\ b \in live[s]
    /\ live' = [live EXCEPT ![s] = @ \ {b}]
    /\ IF b \in watched[s]
       THEN /\ pending' = [pending EXCEPT ![s] = Forget(@, b)]
            /\ cached' = [cached EXCEPT ![s] = Forget(@, b)]
            /\ deferred' = [deferred EXCEPT
                   ![s] = [i \in DOMAIN @ |-> Forget(@[i], b)]]
            /\ current' = [current EXCEPT ![s] = IF @ = b THEN NoBuffer ELSE @]
            /\ held' = [held EXCEPT ![s] = @ \ {b}]
            /\ releaseDue' = [releaseDue EXCEPT ![s] = @ \ {b}]
            /\ watched' = [watched EXCEPT ![s] = @ \ {b}]
       ELSE UNCHANGED <<pending, cached, deferred, current, held, releaseDue, watched>>
    /\ UNCHANGED <<hasCached, owner, treeVars, loopVars, showVars, worldVars, made>>

\* A new wl_buffer, which may well get the address of a dead one.
CreateBuffer(s, b) ==
    /\ draining = NoSurface
    /\ b \in client.buffers \ live[s]
    /\ live' = [live EXCEPT ![s] = @ \cup {b}]
    /\ owner' = [owner EXCEPT ![s] = [@ EXCEPT ![b] = "client"]]
    /\ UNCHANGED <<pending, queueVars, current, held, releaseDue, watched, treeVars,
                   loopVars, showVars, worldVars, made>>

-----------------------------------------------------------------------------
(* Subsurfaces *)

\* wl_subcompositor.get_subsurface -> sub_attach().
SubAttach(s, p) ==
    /\ draining = NoSurface
    /\ "subsurface" \in client.uses
    /\ parent[s] = NoSurface
    /\ s \notin Ancestors(p, parent)
    /\ "nested" \in client.uses \/ (parent[p] = NoSurface /\ Children(s) = {})
    /\ roles[s] < MaxRoles
    /\ parent' = [parent EXCEPT ![s] = p]
    /\ subSync' = [subSync EXCEPT ![s] = TRUE]
    /\ roles' = [roles EXCEPT ![s] = @ + 1]
    /\ UNCHANGED <<pending, queueVars, bufferVars, loopVars, showVars, worldVars, made>>

\* What sub_detach() and sub_set_sync() do with cached state that nothing holds
\* back any more.
ReleaseCached(s, free) ==
    IF free /\ hasCached[s]
    THEN ApplyUpdate(s, cached[s], {s} \cup Waiting(s), owner[s], {})
    ELSE UNCHANGED <<cached, hasCached, bufferVars, showVars>>

\* A wl_subsurface is destroyed.  Its glue names the surface, so it detaches
\* it from whatever parent it has now.
SubDetach(s) ==
    /\ draining = NoSurface
    /\ roles[s] > 0
    /\ roles' = [roles EXCEPT ![s] = @ - 1]
    /\ parent' = [parent EXCEPT ![s] = NoSurface]
    /\ UNCHANGED <<pending, deferred, subSync, loopVars, worldVars, made>>
    /\ ReleaseCached(s, parent[s] # NoSurface)

\* wl_subsurface.set_sync, wl_subsurface.set_desync -> sub_set_sync().
SubSetSync(s, sync) ==
    /\ draining = NoSurface
    /\ roles[s] > 0
    /\ subSync' = [subSync EXCEPT ![s] = sync]
    /\ UNCHANGED <<pending, deferred, parent, roles, loopVars, worldVars, made>>
    /\ ReleaseCached(s, ~sync /\ ~EffectiveSync(s, parent, subSync'))

\* ~Surface: nothing is applied and nothing released.  Children lose their
\* parent but keep their cached state.  A new surface takes the name.
DestroySurface(s) ==
    /\ draining = NoSurface
    /\ "destroy" \in client.uses
    /\ "orphan" \in client.uses \/ Children(s) = {}
    /\ pending' = [pending EXCEPT ![s] = EmptyState]
    /\ cached' = [cached EXCEPT ![s] = EmptyState]
    /\ hasCached' = [hasCached EXCEPT ![s] = FALSE]
    /\ deferred' = [deferred EXCEPT ![s] = <<>>]
    /\ current' = [current EXCEPT ![s] = NoBuffer]
    /\ fifoBarrier' = [fifoBarrier EXCEPT ![s] = FALSE]
    /\ queued' = [queued EXCEPT ![s] = {}]
    /\ held' = [held EXCEPT ![s] = {}]
    /\ releaseDue' = [releaseDue EXCEPT ![s] = {}]
    /\ watched' = [watched EXCEPT ![s] = {}]
    /\ parent' = [c \in Surfaces |->
           IF c = s \/ parent[c] = s THEN NoSurface ELSE parent[c]]
    /\ subSync' = [subSync EXCEPT ![s] = TRUE]
    /\ roles' = [roles EXCEPT ![s] = 0]
    /\ owner' = [owner EXCEPT ![s] =
           [b \in Buffers |-> IF @[b] = "server" THEN "lost" ELSE @[b]]]
    /\ made' = [made EXCEPT ![s] = 0]
    /\ done' = [done EXCEPT ![s] = {}]
    /\ paced' = [paced EXCEPT ![s] = 0]
    /\ UNCHANGED <<live, loopVars, worldVars>>

\* Time passes between two events.
TimePasses ==
    /\ draining = NoSurface
    /\ now < client.time
    /\ now' = now + 1
    /\ UNCHANGED <<client, pending, queueVars, bufferVars, treeVars, loopVars, showVars, made>>

-----------------------------------------------------------------------------
Commit(s) ==
    CommitCached(s) \/ CommitParked(s) \/ CommitFolded(s) \/ CommitDirect(s)

ClientStep(s) ==
    \/ \E b \in Buffers \cup {NoBuffer} : Attach(s, b)
    \/ SetBarrier(s)
    \/ SetWait(s)
    \/ Commit(s)
    \/ \E b \in Buffers : DestroyBuffer(s, b) \/ CreateBuffer(s, b)
    \/ \E p \in client.surfaces : SubAttach(s, p)
    \/ SubDetach(s)
    \/ \E sync \in BOOLEAN : SubSetSync(s, sync)

CompositorStep(s) ==
    \/ Present(s)
    \/ ClearBarrier(s)
    \/ DrainStep(s)
    \/ DrainEnd(s)
    \/ HoldBuffer(s, current[s])
    \/ \E b \in Buffers : UnholdBuffer(s, b)

Next ==
    \/ TimePasses
    \/ \E s \in client.surfaces :
          \/ ClientStep(s)
          \/ CompositorStep(s)
          \/ DestroySurface(s)
          \/ \E t \in 1..client.time : SetCommitTime(s, t)
          \/ \E limit \in {now, client.time} : ReleaseDeferred(s, limit)

Spec == Init /\ [][Next]_vars

-----------------------------------------------------------------------------
(* What the component promises *)

\* The buffers the server may still read.
InUse(s) ==
    ({current[s], cached[s].buffer} \cup BuffersIn(deferred[s]) \cup held[s])
        \ {NoBuffer}

\* A raw wl_resource* is never kept past the destruction of the wl_buffer:
\* every slot that names one is watched, and every watched name is alive.  A
\* withheld release belongs to a buffer that is still held, or nobody would
\* ever send it.
NoDangling ==
    \A s \in Surfaces :
        /\ InUse(s) \cup ({pending[s].buffer} \ {NoBuffer}) \subseteq watched[s]
        /\ watched[s] \subseteq live[s]
        /\ releaseDue[s] \subseteq held[s]

\* wl_buffer.release never comes while the buffer is committed, cached, parked
\* or on screen, for a client that waits for it before it attaches again.
ReleaseSafe ==
    "reattach" \notin client.uses =>
        \A s \in Surfaces : \A b \in InUse(s) : owner[s][b] = "server"

\* Nor is it forgotten: a buffer the client committed and has not got back is
\* still in a slot from which a later step releases it.
NoLostRelease ==
    \A s \in Surfaces : \A b \in live[s] :
        owner[s][b] = "server" =>
            b \in {current[s], cached[s].buffer} \cup BuffersIn(deferred[s])
                    \cup releaseDue[s]

\* Each commit's frame callback is in exactly one place, from the commit to
\* the answer: parked, cached, queued or done.
CallbackOnce ==
    \A s \in Surfaces :
        LET slots == [i \in DOMAIN deferred[s] |-> deferred[s][i].commits]
                     \o <<cached[s].commits, queued[s], done[s]>>
        IN /\ 1..made[s] = UNION {slots[i] : i \in DOMAIN slots}
           /\ \A i, j \in DOMAIN slots : i # j => slots[i] \cap slots[j] = {}

\* "Commits queue one by one, in order.  Never reorder a client's own commits":
\* an update that takes effect is newer than all that took effect before.
\* It holds for clients without subsurfaces, and for those whose subsurfaces
\* are neither nested nor gated nor outlive their parent.
Applied(s) == queued[s] \cup done[s]
OrderKept ==
    "subsurface" \in client.uses => client.uses \cap {"nested", "orphan", "fifo", "timing"} = {}
CommitOrder ==
    [][OrderKept => \A s \in Surfaces : made'[s] >= made[s] =>
          \A n \in Applied(s)' \ Applied(s), m \in Applied(s) : m < n]_vars

\* "A parent commit applies the whole synced subtree": when an update of s takes
\* effect, nothing below s is left waiting.
ParentAppliesSubtree ==
    [][\A s, d \in Surfaces :
          /\ Applied(s)' \ Applied(s) # {}
          /\ d # s /\ s \in Ancestors(d, parent)
          => ~hasCached'[d]]_vars

\* "A client that raced three FIFO frames ahead gets three presentations out
\* of them, one per barrier."
FifoPacing ==
    "subsurface" \notin client.uses => \A s \in Surfaces : paced[s] <= 1

\* "Cached sync state has no parent to release it any more - apply it now":
\* state is only cached where the commit of a parent can release it.
CachedHasParent ==
    "orphan" \notin client.uses => \A s \in Surfaces : hasCached[s] => parent[s] # NoSurface

\* Synchronized state reaches the screen: what is cached waits for a parent that
\* will commit, and that commit leaves nothing of its subtree behind.
CachedIsApplied == []CachedHasParent /\ ParentAppliesSubtree

\* The same two without the conditions, as the comments state them.
CommitOrderOfAnyClient ==
    [][\A s \in Surfaces : made'[s] >= made[s] =>
          \A n \in Applied(s)' \ Applied(s), m \in Applied(s) : m < n]_vars
CachedHasParentAlways == \A s \in Surfaces : hasCached[s] => parent[s] # NoSurface

=============================================================================
