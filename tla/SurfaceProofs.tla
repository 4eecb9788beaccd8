---------------------------- MODULE SurfaceProofs ----------------------------
(***************************************************************************)
(* What holds of Surface, and of CommitPacing, which drives it, for every  *)
(* set of surfaces, buffers and clients.                                   *)
(*                                                                         *)
(* TypeCorrect is the type invariant; NoDanglingHolds says that no         *)
(* wl_resource* outlives its wl_buffer.  Then the updates: StepMoves says  *)
(* what any step does to one surface: it stays, attaches, requests a       *)
(* commit that is cached, parked, folded or applied, applies what waited,  *)
(* and so on.  What is promised of one surface is proved move by move:     *)
(* CleanMoves, NoLostMoves, SafeMoves, CallbackMoves, OrderMoves.  What is *)
(* promised of the tree is proved by TreeSteps, of which only four change  *)
(* it.                                                                     *)
(*                                                                         *)
(* Last, the manager of timed commits: it drives the surfaces only as      *)
(* Surface allows, so that all that is proved of Surface holds under it,   *)
(* and the timer of the event loop is never late for a parked commit.      *)
(***************************************************************************)
EXTENDS CommitPacing, TLAPS

-----------------------------------------------------------------------------
(* The operators *)

LEMMA EmptyStateType == EmptyState \in State
  BY SurfaceAssumption DEF EmptyState, State, Numbers

LEMMA MergeType ==
  ASSUME NEW into \in State, NEW from \in State
  PROVE  Merge(into, from) \in State
  BY DEF Merge, State

LEMMA FoldedType ==
  ASSUME NEW queue \in Seq(State), Len(queue) \in Nat \ {0}, NEW st \in State
  PROVE  Folded(queue, st) \in Seq(State)
<1>1. Len(queue) \in DOMAIN queue
  OBVIOUS
<1>2. Merge(Newest(queue), st) \in State
  BY <1>1, MergeType DEF Newest
<1> QED
  BY <1>1, <1>2 DEF Folded

LEMMA NextStateType ==
  ASSUME TypeOK, NEW s \in Surfaces, made[s] < client.commits
  PROVE  /\ NextState(s) \in State
         /\ made[s] + 1 \in 0..MaxCommits
<1>1. client \in Client
  BY SurfaceAssumption DEF TypeOK
<1>2. client.commits \in 0..MaxCommits
  BY <1>1 DEF Client
<1>3. made[s] \in 0..MaxCommits
  BY DEF TypeOK
<1>4. made[s] + 1 \in Numbers
  BY <1>2, <1>3, SurfaceAssumption DEF Numbers
<1>5. pending[s] \in State
  BY DEF TypeOK
<1>6. NextState(s) \in State
  BY <1>4, <1>5 DEF NextState, State
<1> QED
  BY <1>4, <1>6, SurfaceAssumption DEF Numbers

LEMMA NextOwnerType ==
  ASSUME TypeOK, NEW s \in Surfaces
  PROVE  NextOwner(s) \in [Buffers -> {"client", "server", "lost"}]
<1>1. owner[s] \in [Buffers -> {"client", "server", "lost"}]
  BY DEF TypeOK
<1>2. pending[s].buffer \in Buffers \cup {NoBuffer}
  BY DEF TypeOK, State
<1> QED
  BY <1>1, <1>2 DEF NextOwner

LEMMA GiveBackType ==
  ASSUME NEW own \in [Buffers -> {"client", "server", "lost"}], NEW bs
  PROVE  GiveBack(own, bs) \in [Buffers -> {"client", "server", "lost"}]
  BY DEF GiveBack

LEMMA ForgetType ==
  ASSUME NEW st \in State, NEW b
  PROVE  Forget(st, b) \in State
  BY DEF Forget, State

\* commit_state() keeps the types of what it writes.
LEMMA ApplyUpdateType ==
  ASSUME TypeOK, NEW s \in Surfaces, NEW st \in State, NEW spent,
         NEW own \in [Buffers -> {"client", "server", "lost"}],
         NEW shown,
         ApplyUpdate(s, st, spent, own, shown)
  PROVE  /\ cached' \in [Surfaces -> State]
         /\ hasCached' \in [Surfaces -> BOOLEAN]
         /\ current' \in [Surfaces -> Buffers \cup {NoBuffer}]
         /\ fifoBarrier' \in [Surfaces -> BOOLEAN]
         /\ queued' \in [Surfaces -> SUBSET Numbers]
         /\ held' \in [Surfaces -> SUBSET Buffers]
         /\ releaseDue' \in [Surfaces -> SUBSET Buffers]
         /\ watched' \in [Surfaces -> SUBSET Buffers]
         /\ live' \in [Surfaces -> SUBSET Buffers]
         /\ owner' \in [Surfaces -> [Buffers -> {"client", "server", "lost"}]]
         /\ done' \in [Surfaces -> SUBSET Numbers]
         /\ paced' \in [Surfaces -> Nat]
<1> DEFINE U == {s} \cup Waiting(s)
           upd == [d \in U |-> IF d = s THEN st ELSE cached[d]]
<1>1. U \subseteq Surfaces
  BY DEF Waiting
<1>2. \A d \in U : upd[d] \in State
  BY <1>1 DEF TypeOK
<1>3. \A d \in U : /\ upd[d].commits \in SUBSET Numbers
                   /\ upd[d].buffer \in Buffers \cup {NoBuffer}
                   /\ upd[d].barrier \in BOOLEAN
  BY <1>2 DEF State
<1> HIDE DEF U, upd
<1>4. cached' = [d \in Surfaces |-> IF d \in spent THEN EmptyState ELSE cached[d]]
  BY DEF ApplyUpdate
<1>5. hasCached' = [d \in Surfaces |-> hasCached[d] /\ d \notin spent]
  BY DEF ApplyUpdate
<1>6. current' = [d \in Surfaces |->
         IF d \in U /\ upd[d].dirty THEN upd[d].buffer ELSE current[d]]
  BY DEF ApplyUpdate, U, upd
<1>7. releaseDue' = [d \in Surfaces |->
         IF d \in U THEN releaseDue[d] \cup Withheld(d, upd[d]) ELSE releaseDue[d]]
  BY DEF ApplyUpdate, U, upd
<1>8. owner' = [d \in Surfaces |->
         IF d \in U
         THEN GiveBack(IF d = s THEN own ELSE owner[d], ReleasedNow(d, upd[d]))
         ELSE owner[d]]
  BY DEF ApplyUpdate, U, upd
<1>9. fifoBarrier' = [d \in Surfaces |->
         d \notin shown /\ (fifoBarrier[d] \/ (d \in U /\ upd[d].barrier))]
  BY DEF ApplyUpdate, U, upd
<1>10. queued' = [d \in Surfaces |->
         (IF d \in shown THEN {} ELSE queued[d]) \cup
         (IF d \in U THEN upd[d].commits ELSE {})]
  BY DEF ApplyUpdate, U, upd
<1>11. done' = [d \in Surfaces |->
         IF d \in shown THEN done[d] \cup queued[d] ELSE done[d]]
  BY DEF ApplyUpdate
<1>12. paced' = [d \in Surfaces |->
         IF d \in shown THEN 0
         ELSE IF d \in U /\ upd[d].wait /\ upd[d].barrier THEN paced[d] + 1
         ELSE paced[d]]
  BY DEF ApplyUpdate, U, upd
<1>13. held' = held /\ live' = live
  BY DEF ApplyUpdate
<1>14. \A d \in Surfaces : watched'[d] \subseteq watched[d]
  BY DEF ApplyUpdate, PruneWatches
<1>15. watched' \in [Surfaces -> SUBSET Buffers]
  BY <1>14 DEF ApplyUpdate, PruneWatches, TypeOK
<1>16. cached' \in [Surfaces -> State]
  BY <1>4, EmptyStateType DEF TypeOK
<1>17. hasCached' \in [Surfaces -> BOOLEAN]
  BY <1>5, Zenon DEF TypeOK
<1>18. current' \in [Surfaces -> Buffers \cup {NoBuffer}]
  BY <1>3, <1>6 DEF TypeOK
<1>19. releaseDue' \in [Surfaces -> SUBSET Buffers]
  BY <1>7 DEF TypeOK, Withheld
<1>20. owner' \in [Surfaces -> [Buffers -> {"client", "server", "lost"}]]
  BY <1>8, GiveBackType DEF TypeOK
<1>21. fifoBarrier' \in [Surfaces -> BOOLEAN]
  BY <1>9, Zenon DEF TypeOK
<1>22. queued' \in [Surfaces -> SUBSET Numbers]
  BY <1>3, <1>10 DEF TypeOK
<1>23. done' \in [Surfaces -> SUBSET Numbers]
  BY <1>11 DEF TypeOK
<1>24. paced' \in [Surfaces -> Nat]
  BY <1>12 DEF TypeOK
<1> QED
  BY <1>13, <1>15, <1>16, <1>17, <1>18, <1>19, <1>20, <1>21, <1>22, <1>23, <1>24
     DEF TypeOK

-----------------------------------------------------------------------------
(* Type correctness *)

LEMMA InitType == Init => TypeOK
<1> SUFFICES ASSUME Init PROVE TypeOK
  OBVIOUS
<1>1. client \in Client
  BY SurfaceAssumption DEF Init
<1>2. client.buffers \in SUBSET Buffers
  BY <1>1 DEF Client
<1> QED
  BY <1>2, EmptyStateType, SurfaceAssumption DEF Init, TypeOK, MaxRoles

LEMMA AttachType ==
  ASSUME TypeOK, NEW s \in Surfaces, NEW b \in Buffers \cup {NoBuffer}, Attach(s, b)
  PROVE  TypeOK'
<1>1. [pending[s] EXCEPT !.buffer = b, !.dirty = TRUE] \in State
  <2>1. pending[s] \in State
    BY DEF TypeOK
  <2> QED
    BY <2>1 DEF State
<1>2. pending' \in [Surfaces -> State]
  BY <1>1 DEF TypeOK, Attach
<1>3. watched' \in [Surfaces -> SUBSET Buffers]
  BY DEF TypeOK, Attach
<1> QED
  BY <1>2, <1>3 DEF TypeOK, Attach, queueVars, treeVars, loopVars, showVars, worldVars

LEMMA SetGateType ==
  ASSUME TypeOK, NEW s \in Surfaces, NEW st \in State, SetGate(s, st)
  PROVE  TypeOK'
  BY DEF TypeOK, SetGate, queueVars, bufferVars, treeVars, loopVars, showVars, worldVars

LEMMA CommitRequestType ==
  ASSUME TypeOK, NEW s \in Surfaces, CommitRequest(s)
  PROVE  /\ made' \in [Surfaces -> 0..MaxCommits]
         /\ pending' \in [Surfaces -> State]
         /\ NextState(s) \in State
         /\ UNCHANGED <<treeVars, loopVars, worldVars>>
<1>1. made[s] + 1 \in 0..MaxCommits /\ NextState(s) \in State
  BY NextStateType DEF CommitRequest
<1> QED
  BY <1>1, EmptyStateType DEF TypeOK, CommitRequest

LEMMA CommitType ==
  ASSUME TypeOK, NEW s \in Surfaces, Commit(s)
  PROVE  TypeOK'
<1> USE DEF treeVars, loopVars, worldVars, showVars
<1>1. CommitRequest(s)
  BY DEF Commit, CommitCached, CommitParked, CommitFolded, CommitDirect
<1>2. /\ made' \in [Surfaces -> 0..MaxCommits]
      /\ pending' \in [Surfaces -> State]
      /\ NextState(s) \in State
      /\ UNCHANGED <<treeVars, loopVars, worldVars>>
  BY <1>1, CommitRequestType
<1>3. NextOwner(s) \in [Buffers -> {"client", "server", "lost"}]
  BY NextOwnerType
<1>4. CASE CommitCached(s)
  <2>1. cached' \in [Surfaces -> State]
    <3>1. Merge(cached[s], NextState(s)) \in State
      BY <1>2, MergeType DEF TypeOK
    <3> QED
      BY <1>4, <3>1 DEF CommitCached, TypeOK
  <2>2. hasCached' \in [Surfaces -> BOOLEAN]
    BY <1>4 DEF CommitCached, TypeOK
  <2>3. owner' \in [Surfaces -> [Buffers -> {"client", "server", "lost"}]]
    BY <1>3, <1>4, GiveBackType DEF CommitCached, TypeOK
  <2>4. watched' \in [Surfaces -> SUBSET Buffers]
    BY <1>4 DEF CommitCached, PruneWatches, TypeOK
  <2> QED
    BY <1>2, <1>4, <2>1, <2>2, <2>3, <2>4 DEF CommitCached, TypeOK
<1>5. CASE CommitParked(s)
  <2>1. deferred' \in [Surfaces -> Seq(State)]
    <3>1. Append(deferred[s], NextState(s)) \in Seq(State)
      BY <1>2 DEF TypeOK
    <3> QED
      BY <1>5, <3>1 DEF CommitParked, TypeOK
  <2>2. owner' \in [Surfaces -> [Buffers -> {"client", "server", "lost"}]]
    BY <1>3, <1>5 DEF CommitParked, TypeOK
  <2>3. watched' \in [Surfaces -> SUBSET Buffers]
    BY <1>5 DEF CommitParked, PruneWatches, TypeOK
  <2> QED
    BY <1>2, <1>5, <2>1, <2>2, <2>3 DEF CommitParked, TypeOK
<1>6. CASE CommitFolded(s)
  <2>1. deferred' \in [Surfaces -> Seq(State)]
    <3>1. Folded(deferred[s], NextState(s)) \in Seq(State)
      <4>1. deferred[s] \in Seq(State) /\ Len(deferred[s]) \in Nat \ {0}
        BY <1>6, SurfaceAssumption DEF CommitFolded, TypeOK
      <4> QED
        BY <1>2, <4>1, FoldedType
    <3> QED
      BY <1>6, <3>1 DEF CommitFolded, TypeOK
  <2>2. owner' \in [Surfaces -> [Buffers -> {"client", "server", "lost"}]]
    BY <1>3, <1>6, GiveBackType DEF CommitFolded, TypeOK
  <2>3. watched' \in [Surfaces -> SUBSET Buffers]
    BY <1>6 DEF CommitFolded, PruneWatches, TypeOK
  <2> QED
    BY <1>2, <1>6, <2>1, <2>2, <2>3 DEF CommitFolded, TypeOK
<1>7. CASE CommitDirect(s)
  <2>1. PICK shown \in {{}, {s}} :
           ApplyUpdate(s, NextState(s), Waiting(s), NextOwner(s), shown)
    BY <1>7 DEF CommitDirect
  <2>2. UNCHANGED deferred
    BY <1>7 DEF CommitDirect
  <2> HIDE DEF treeVars, loopVars, worldVars, showVars
  <2>3. /\ cached' \in [Surfaces -> State]
        /\ hasCached' \in [Surfaces -> BOOLEAN]
        /\ current' \in [Surfaces -> Buffers \cup {NoBuffer}]
        /\ fifoBarrier' \in [Surfaces -> BOOLEAN]
        /\ queued' \in [Surfaces -> SUBSET Numbers]
        /\ held' \in [Surfaces -> SUBSET Buffers]
        /\ releaseDue' \in [Surfaces -> SUBSET Buffers]
        /\ watched' \in [Surfaces -> SUBSET Buffers]
        /\ live' \in [Surfaces -> SUBSET Buffers]
        /\ owner' \in [Surfaces -> [Buffers -> {"client", "server", "lost"}]]
        /\ done' \in [Surfaces -> SUBSET Numbers]
        /\ paced' \in [Surfaces -> Nat]
    BY <1>2, <1>3, <2>1, ApplyUpdateType
  <2> QED
    BY <1>2, <2>2, <2>3 DEF TypeOK, treeVars, loopVars, worldVars
<1> QED
  BY <1>4, <1>5, <1>6, <1>7 DEF Commit

\* A step that ends with commit_state() or changes none of its variables.
LEMMA ReleaseCachedType ==
  ASSUME TypeOK, NEW s \in Surfaces, NEW free, ReleaseCached(s, free),
         pending' \in [Surfaces -> State],
         deferred' \in [Surfaces -> Seq(State)],
         parent' \in [Surfaces -> Surfaces \cup {NoSurface}],
         subSync' \in [Surfaces -> BOOLEAN],
         roles' \in [Surfaces -> 0..MaxRoles],
         UNCHANGED <<loopVars, worldVars, made>>
  PROVE  TypeOK'
<1>1. CASE free /\ hasCached[s]
  <2>1. ApplyUpdate(s, cached[s], {s} \cup Waiting(s), owner[s], {})
    BY <1>1 DEF ReleaseCached
  <2>2. cached[s] \in State /\ owner[s] \in [Buffers -> {"client", "server", "lost"}]
    BY DEF TypeOK
  <2>3. /\ cached' \in [Surfaces -> State]
        /\ hasCached' \in [Surfaces -> BOOLEAN]
        /\ current' \in [Surfaces -> Buffers \cup {NoBuffer}]
        /\ fifoBarrier' \in [Surfaces -> BOOLEAN]
        /\ queued' \in [Surfaces -> SUBSET Numbers]
        /\ held' \in [Surfaces -> SUBSET Buffers]
        /\ releaseDue' \in [Surfaces -> SUBSET Buffers]
        /\ watched' \in [Surfaces -> SUBSET Buffers]
        /\ live' \in [Surfaces -> SUBSET Buffers]
        /\ owner' \in [Surfaces -> [Buffers -> {"client", "server", "lost"}]]
        /\ done' \in [Surfaces -> SUBSET Numbers]
        /\ paced' \in [Surfaces -> Nat]
    BY <2>1, <2>2, ApplyUpdateType
  <2> QED
    BY <2>3 DEF TypeOK, loopVars, worldVars
<1>2. CASE ~(free /\ hasCached[s])
  BY <1>2 DEF ReleaseCached, TypeOK, bufferVars, showVars, loopVars, worldVars
<1> QED
  BY <1>1, <1>2

LEMMA SubsurfaceType ==
  ASSUME TypeOK, NEW s \in Surfaces,
         \/ \E p \in Surfaces : SubAttach(s, p)
         \/ SubDetach(s)
         \/ \E sync \in BOOLEAN : SubSetSync(s, sync)
  PROVE  TypeOK'
<1>1. roles[s] \in 0..MaxRoles
  BY DEF TypeOK
<1>2. ASSUME NEW p \in Surfaces, SubAttach(s, p)
      PROVE  TypeOK'
  <2>1. roles' \in [Surfaces -> 0..MaxRoles]
    BY <1>1, <1>2 DEF SubAttach, TypeOK, MaxRoles
  <2> QED
    BY <1>2, <2>1
       DEF SubAttach, TypeOK, queueVars, bufferVars, loopVars, showVars, worldVars
<1>3. CASE SubDetach(s)
  <2>1. roles' \in [Surfaces -> 0..MaxRoles]
    BY <1>1, <1>3 DEF SubDetach, TypeOK, MaxRoles
  <2>2. /\ pending' \in [Surfaces -> State]
        /\ deferred' \in [Surfaces -> Seq(State)]
        /\ parent' \in [Surfaces -> Surfaces \cup {NoSurface}]
        /\ subSync' \in [Surfaces -> BOOLEAN]
        /\ UNCHANGED <<loopVars, worldVars, made>>
    BY <1>3 DEF SubDetach, TypeOK
  <2>3. ReleaseCached(s, parent[s] # NoSurface)
    BY <1>3 DEF SubDetach
  <2> QED
    BY <2>1, <2>2, <2>3, ReleaseCachedType
<1>4. ASSUME NEW sync \in BOOLEAN, SubSetSync(s, sync)
      PROVE  TypeOK'
  <2>1. /\ pending' \in [Surfaces -> State]
        /\ deferred' \in [Surfaces -> Seq(State)]
        /\ parent' \in [Surfaces -> Surfaces \cup {NoSurface}]
        /\ roles' \in [Surfaces -> 0..MaxRoles]
        /\ UNCHANGED <<loopVars, worldVars, made>>
    BY <1>4 DEF SubSetSync, TypeOK
  <2>2. subSync' \in [Surfaces -> BOOLEAN]
    BY <1>4 DEF SubSetSync, TypeOK
  <2>3. PICK free : ReleaseCached(s, free)
    BY <1>4 DEF SubSetSync
  <2> QED
    BY <2>1, <2>2, <2>3, ReleaseCachedType
<1> QED
  BY <1>2, <1>3, <1>4

LEMMA DestroySurfaceType ==
  ASSUME TypeOK, NEW s \in Surfaces, DestroySurface(s)
  PROVE  TypeOK'
<1>1. /\ pending' \in [Surfaces -> State]
      /\ cached' \in [Surfaces -> State]
      /\ deferred' \in [Surfaces -> Seq(State)]
  BY EmptyStateType DEF DestroySurface, TypeOK
<1>2. /\ current' \in [Surfaces -> Buffers \cup {NoBuffer}]
      /\ hasCached' \in [Surfaces -> BOOLEAN]
      /\ fifoBarrier' \in [Surfaces -> BOOLEAN]
      /\ subSync' \in [Surfaces -> BOOLEAN]
  BY DEF DestroySurface, TypeOK
<1>3. /\ queued' \in [Surfaces -> SUBSET Numbers]
      /\ done' \in [Surfaces -> SUBSET Numbers]
      /\ held' \in [Surfaces -> SUBSET Buffers]
      /\ releaseDue' \in [Surfaces -> SUBSET Buffers]
      /\ watched' \in [Surfaces -> SUBSET Buffers]
  BY DEF DestroySurface, TypeOK
<1>4. /\ parent' \in [Surfaces -> Surfaces \cup {NoSurface}]
      /\ roles' \in [Surfaces -> 0..MaxRoles]
      /\ made' \in [Surfaces -> 0..MaxCommits]
      /\ paced' \in [Surfaces -> Nat]
  BY SurfaceAssumption DEF DestroySurface, TypeOK, MaxRoles
<1>5. owner' \in [Surfaces -> [Buffers -> {"client", "server", "lost"}]]
  BY DEF DestroySurface, TypeOK
<1> QED
  BY <1>1, <1>2, <1>3, <1>4, <1>5 DEF DestroySurface, TypeOK, loopVars, worldVars

LEMMA BufferLifeType ==
  ASSUME TypeOK, NEW s \in Surfaces, NEW b \in Buffers,
         DestroyBuffer(s, b) \/ CreateBuffer(s, b) \/ HoldBuffer(s, b) \/ UnholdBuffer(s, b)
  PROVE  TypeOK'
<1> USE DEF queueVars, treeVars, loopVars, showVars, worldVars
<1>1. CASE DestroyBuffer(s, b)
  <2>1. live' \in [Surfaces -> SUBSET Buffers]
    BY <1>1 DEF DestroyBuffer, TypeOK
  <2>2. CASE b \in watched[s]
    <3>1. /\ Forget(pending[s], b) \in State
          /\ Forget(cached[s], b) \in State
      BY ForgetType DEF TypeOK
    <3>2. pending' \in [Surfaces -> State] /\ cached' \in [Surfaces -> State]
      <4>1. /\ pending' = [pending EXCEPT ![s] = Forget(pending[s], b)]
            /\ cached' = [cached EXCEPT ![s] = Forget(cached[s], b)]
        BY <1>1, <2>2 DEF DestroyBuffer
      <4> QED
        BY <3>1, <4>1 DEF TypeOK
    <3> DEFINE forgotten == [i \in DOMAIN deferred[s] |-> Forget(deferred[s][i], b)]
    <3>3. forgotten \in Seq(State)
      <4>1. deferred[s] \in Seq(State)
        BY DEF TypeOK
      <4>2. \A i \in DOMAIN deferred[s] : Forget(deferred[s][i], b) \in State
        BY <4>1, ForgetType
      <4> QED
        BY <4>1, <4>2
    <3>4. deferred' = [deferred EXCEPT ![s] = forgotten]
      BY <1>1, <2>2 DEF DestroyBuffer
    <3> HIDE DEF forgotten
    <3>5. deferred' \in [Surfaces -> Seq(State)]
      BY <3>3, <3>4 DEF TypeOK
    <3>6. current' \in [Surfaces -> Buffers \cup {NoBuffer}]
      <4>1. current' = [current EXCEPT
                          ![s] = IF current[s] = b THEN NoBuffer ELSE current[s]]
        BY <1>1, <2>2 DEF DestroyBuffer
      <4> QED
        BY <4>1 DEF TypeOK
    <3>7. /\ held' \in [Surfaces -> SUBSET Buffers]
          /\ releaseDue' \in [Surfaces -> SUBSET Buffers]
          /\ watched' \in [Surfaces -> SUBSET Buffers]
      <4>1. /\ held' = [held EXCEPT ![s] = held[s] \ {b}]
            /\ releaseDue' = [releaseDue EXCEPT ![s] = releaseDue[s] \ {b}]
            /\ watched' = [watched EXCEPT ![s] = watched[s] \ {b}]
        BY <1>1, <2>2 DEF DestroyBuffer
      <4> QED
        BY <4>1 DEF TypeOK
    <3> QED
      BY <1>1, <2>1, <3>2, <3>5, <3>6, <3>7 DEF DestroyBuffer, TypeOK
  <2>3. CASE b \notin watched[s]
    BY <1>1, <2>1, <2>3 DEF DestroyBuffer, TypeOK
  <2> QED
    BY <2>2, <2>3
<1>2. CASE CreateBuffer(s, b)
  <2>1. owner' \in [Surfaces -> [Buffers -> {"client", "server", "lost"}]]
    BY <1>2 DEF CreateBuffer, TypeOK
  <2>2. live' \in [Surfaces -> SUBSET Buffers]
    BY <1>2 DEF CreateBuffer, TypeOK
  <2> QED
    BY <1>2, <2>1, <2>2 DEF CreateBuffer, TypeOK
<1>3. CASE HoldBuffer(s, b)
  <2>1. held' \in [Surfaces -> SUBSET Buffers] /\ watched' \in [Surfaces -> SUBSET Buffers]
    BY <1>3 DEF HoldBuffer, TypeOK
  <2> QED
    BY <1>3, <2>1 DEF HoldBuffer, TypeOK
<1>4. CASE UnholdBuffer(s, b)
  <2>1. /\ held' \in [Surfaces -> SUBSET Buffers]
        /\ releaseDue' \in [Surfaces -> SUBSET Buffers]
    BY <1>4 DEF UnholdBuffer, TypeOK
  <2>2. owner' \in [Surfaces -> [Buffers -> {"client", "server", "lost"}]]
    BY <1>4, GiveBackType DEF UnholdBuffer, TypeOK
  <2>3. watched' \in [Surfaces -> SUBSET Buffers]
    BY <1>4 DEF UnholdBuffer, PruneWatches, TypeOK
  <2> QED
    BY <1>4, <2>1, <2>2, <2>3 DEF UnholdBuffer, TypeOK
<1> QED
  BY <1>1, <1>2, <1>3, <1>4

LEMMA GatesType ==
  ASSUME TypeOK, NEW s \in Surfaces,
         \/ SetBarrier(s)
         \/ SetWait(s)
         \/ \E t \in 1..client.time : SetCommitTime(s, t)
  PROVE  TypeOK'
<1>1. pending[s] \in State
  BY DEF TypeOK
<1>2. CASE SetBarrier(s)
  <2>1. [pending[s] EXCEPT !.barrier = TRUE] \in State
    BY <1>1 DEF State
  <2> QED
    BY <1>2, <2>1, SetGateType DEF SetBarrier
<1>3. CASE SetWait(s)
  <2>1. [pending[s] EXCEPT !.wait = TRUE] \in State
    BY <1>1 DEF State
  <2> QED
    BY <1>3, <2>1, SetGateType DEF SetWait
<1>4. ASSUME NEW t \in 1..client.time, SetCommitTime(s, t)
      PROVE  TypeOK'
  <2>1. client \in Client
    BY SurfaceAssumption DEF TypeOK
  <2>2. t \in 0..MaxTime
    BY <2>1, SurfaceAssumption DEF Client
  <2>3. [pending[s] EXCEPT !.time = t] \in State
    BY <1>1, <2>2 DEF State
  <2> QED
    BY <1>4, <2>3, SetGateType DEF SetCommitTime
<1> QED
  BY <1>2, <1>3, <1>4

LEMMA PresentType ==
  ASSUME TypeOK, NEW s \in Surfaces, Present(s) \/ ClearBarrier(s)
  PROVE  TypeOK'
<1>1. DropBarrier(s)
  BY DEF Present, ClearBarrier
<1>2. /\ fifoBarrier' \in [Surfaces -> BOOLEAN]
      /\ paced' \in [Surfaces -> Nat]
      /\ draining' \in Surfaces \cup {NoSurface}
      /\ drainNow' \in 0..MaxTime
  BY <1>1 DEF DropBarrier, TypeOK
<1>3. /\ done' \in [Surfaces -> SUBSET Numbers]
      /\ queued' \in [Surfaces -> SUBSET Numbers]
  <2>1. CASE Present(s)
    BY <2>1 DEF Present, TypeOK
  <2>2. CASE ClearBarrier(s)
    BY <2>2 DEF ClearBarrier, TypeOK
  <2> QED
    BY <2>1, <2>2
<1> QED
  BY <1>1, <1>2, <1>3 DEF DropBarrier, TypeOK, queueVars, bufferVars, treeVars, worldVars

LEMMA DrainType ==
  ASSUME TypeOK, NEW s \in Surfaces, DrainStep(s) \/ DrainEnd(s)
  PROVE  TypeOK'
<1>1. CASE DrainStep(s)
  <2>1. PICK shown \in {{}, {s}} :
           ApplyUpdate(s, Head(deferred[s]), Waiting(s), owner[s], shown)
    BY <1>1 DEF DrainStep
  <2>2. deferred[s] \in Seq(State) /\ deferred[s] # <<>>
    BY <1>1 DEF DrainStep, TypeOK
  <2>3. Head(deferred[s]) \in State /\ Tail(deferred[s]) \in Seq(State)
    BY <2>2
  <2>4. owner[s] \in [Buffers -> {"client", "server", "lost"}]
    BY DEF TypeOK
  <2>5. /\ cached' \in [Surfaces -> State]
        /\ hasCached' \in [Surfaces -> BOOLEAN]
        /\ current' \in [Surfaces -> Buffers \cup {NoBuffer}]
        /\ fifoBarrier' \in [Surfaces -> BOOLEAN]
        /\ queued' \in [Surfaces -> SUBSET Numbers]
        /\ held' \in [Surfaces -> SUBSET Buffers]
        /\ releaseDue' \in [Surfaces -> SUBSET Buffers]
        /\ watched' \in [Surfaces -> SUBSET Buffers]
        /\ live' \in [Surfaces -> SUBSET Buffers]
        /\ owner' \in [Surfaces -> [Buffers -> {"client", "server", "lost"}]]
        /\ done' \in [Surfaces -> SUBSET Numbers]
        /\ paced' \in [Surfaces -> Nat]
    BY <2>1, <2>3, <2>4, ApplyUpdateType
  <2>6. deferred' \in [Surfaces -> Seq(State)]
    BY <1>1, <2>3 DEF DrainStep, TypeOK
  <2>7. UNCHANGED <<pending, treeVars, loopVars, worldVars, made>>
    BY <1>1 DEF DrainStep
  <2> QED
    BY <2>5, <2>6, <2>7 DEF TypeOK, treeVars, loopVars, worldVars
<1>2. CASE DrainEnd(s)
  BY <1>2
     DEF DrainEnd, TypeOK, queueVars, bufferVars, treeVars, showVars, worldVars
<1> QED
  BY <1>1, <1>2

LEMMA ReleaseDeferredType ==
  ASSUME TypeOK, NEW s \in Surfaces, NEW limit \in {now, client.time},
         ReleaseDeferred(s, limit)
  PROVE  TypeOK'
<1>1. client \in Client
  BY SurfaceAssumption DEF TypeOK
<1>2. limit \in 0..MaxTime
  BY <1>1 DEF Client, TypeOK
<1> QED
  BY <1>2
     DEF ReleaseDeferred, TypeOK, queueVars, bufferVars, treeVars, showVars, worldVars

LEMMA TimePassesType ==
  ASSUME TypeOK, TimePasses
  PROVE  TypeOK'
<1>1. client \in Client
  BY SurfaceAssumption DEF TypeOK
<1>2. client.time \in 0..MaxTime
  BY <1>1 DEF Client
<1>3. now' \in 0..MaxTime
  BY <1>2, SurfaceAssumption DEF TimePasses, TypeOK
<1> QED
  BY <1>3 DEF TimePasses, TypeOK, queueVars, bufferVars, treeVars, loopVars, showVars

\* What Next quantifies over.
LEMMA ClientSurfaces ==
  ASSUME TypeOK
  PROVE  client.surfaces \subseteq Surfaces
<1>1. client \in Client
  BY SurfaceAssumption DEF TypeOK
<1> QED
  BY <1>1 DEF Client

LEMMA CompositorStepType ==
  ASSUME TypeOK, NEW s \in Surfaces, CompositorStep(s)
  PROVE  TypeOK'
<1>1. CASE HoldBuffer(s, current[s])
  <2>1. current[s] \in Buffers
    BY <1>1 DEF HoldBuffer, Holdable, TypeOK
  <2> QED
    BY <1>1, <2>1, BufferLifeType
<1>2. CASE \E b \in Buffers : UnholdBuffer(s, b)
  BY <1>2, BufferLifeType
<1> QED
  BY <1>1, <1>2, PresentType, DrainType DEF CompositorStep

LEMMA TypeStep == TypeOK /\ [Next]_vars => TypeOK'
<1> SUFFICES ASSUME TypeOK, [Next]_vars
             PROVE  TypeOK'
  OBVIOUS
<1>1. CASE UNCHANGED vars
  BY <1>1 DEF vars, TypeOK, queueVars, bufferVars, treeVars, loopVars, showVars, worldVars
<1>2. CASE TimePasses
  BY <1>2, TimePassesType
<1>3. ASSUME NEW s \in Surfaces, ClientStep(s)
      PROVE  TypeOK'
  <2>1. CASE Commit(s)
    BY <2>1, CommitType
  <2>2. CASE \E p \in client.surfaces : SubAttach(s, p)
    BY <2>2, ClientSurfaces, SubsurfaceType
  <2>3. CASE SubDetach(s) \/ \E sync \in BOOLEAN : SubSetSync(s, sync)
    BY <2>3, SubsurfaceType
  <2>4. CASE \E b \in Buffers : DestroyBuffer(s, b) \/ CreateBuffer(s, b)
    BY <2>4, BufferLifeType
  <2> QED
    BY <1>3, <2>1, <2>2, <2>3, <2>4, AttachType, GatesType
       DEF ClientStep
<1>4. ASSUME NEW s \in Surfaces, CompositorStep(s)
      PROVE  TypeOK'
  BY <1>4, CompositorStepType
<1>5. ASSUME NEW s \in Surfaces,
             \/ \E t \in 1..client.time : SetCommitTime(s, t)
             \/ \E limit \in {now, client.time} : ReleaseDeferred(s, limit)
      PROVE  TypeOK'
  BY <1>5, GatesType, ReleaseDeferredType
<1>6. ASSUME NEW s \in Surfaces, DestroySurface(s)
      PROVE  TypeOK'
  BY <1>6, DestroySurfaceType
<1> QED
  BY <1>1, <1>2, <1>3, <1>4, <1>5, <1>6, ClientSurfaces DEF Next

\* Every slot of every surface holds what its C++ type allows, whatever the
\* clients, the compositor and its commit handlers do.
THEOREM TypeCorrect == Spec => []TypeOK
<1>1. Init => TypeOK
  BY InitType
<1>2. TypeOK /\ [Next]_vars => TypeOK'
  BY TypeStep
<1> QED
  BY <1>1, <1>2, PTL DEF Spec

-----------------------------------------------------------------------------
(* No wl_resource* outlives its wl_buffer *)

\* Everything of s that names a wl_buffer, and NoDangling in terms of it.
Slots(s) == Named(pending[s], cached[s], deferred[s], current[s], held[s])

LEMMA NoDanglingSlots ==
  NoDangling <=> \A s \in Surfaces :
                    /\ Slots(s) \subseteq watched[s]
                    /\ watched[s] \subseteq live[s]
                    /\ releaseDue[s] \subseteq held[s]
  BY DEF NoDangling, InUse, Slots, Named

\* What the operations on queues do to the buffers they name.
LEMMA EmptyBuffers == BuffersIn(<<>>) = {} /\ EmptyState.buffer = NoBuffer
  BY DEF BuffersIn, EmptyState

LEMMA MergeBuffer ==
  ASSUME NEW into, NEW from
  PROVE  Merge(into, from).buffer \in {into.buffer, from.buffer}
  BY DEF Merge

LEMMA ForgetBuffer ==
  ASSUME NEW st \in State, NEW b
  PROVE  Forget(st, b).buffer \in ({st.buffer} \ {b}) \cup {NoBuffer}
  BY DEF Forget, State

LEMMA AppendBuffers ==
  ASSUME NEW queue \in Seq(State), NEW st \in State
  PROVE  BuffersIn(Append(queue, st)) \subseteq BuffersIn(queue) \cup {st.buffer}
  BY DEF BuffersIn

LEMMA FoldedBuffers ==
  ASSUME NEW queue \in Seq(State), Len(queue) \in Nat \ {0}, NEW st \in State
  PROVE  BuffersIn(Folded(queue, st)) \subseteq BuffersIn(queue) \cup {st.buffer}
<1> DEFINE n == Len(queue)
<1>1. n \in DOMAIN queue
  OBVIOUS
<1>2. ASSUME NEW i \in DOMAIN Folded(queue, st)
      PROVE  Folded(queue, st)[i].buffer \in BuffersIn(queue) \cup {st.buffer}
  <2>1. i \in DOMAIN queue
    BY <1>2 DEF Folded
  <2>2. CASE i = n
    <3>1. Folded(queue, st)[i] = Merge(queue[n], st)
      BY <2>1, <2>2 DEF Folded, Newest
    <3> QED
      BY <1>1, <3>1, MergeBuffer DEF BuffersIn
  <2>3. CASE i # n
    <3>1. Folded(queue, st)[i] = queue[i]
      BY <2>1, <2>3 DEF Folded
    <3> QED
      BY <2>1, <3>1 DEF BuffersIn
  <2> QED
    BY <2>2, <2>3
<1> QED
  BY <1>2 DEF BuffersIn

LEMMA HeadTailBuffers ==
  ASSUME NEW queue \in Seq(State), queue # <<>>
  PROVE  /\ Head(queue).buffer \in BuffersIn(queue)
         /\ BuffersIn(Tail(queue)) \subseteq BuffersIn(queue)
<1>1. 1 \in DOMAIN queue /\ Head(queue) = queue[1]
  OBVIOUS
<1>2. \A i \in DOMAIN Tail(queue) : i + 1 \in DOMAIN queue /\ Tail(queue)[i] = queue[i + 1]
  OBVIOUS
<1> QED
  BY <1>1, <1>2 DEF BuffersIn

\* prune_buffer_watches() leaves every slot watched that was watched before the
\* handler ran.
LEMMA PruneKeeps ==
  ASSUME TypeOK, NoDangling, NEW S, PruneWatches(S),
         live' = live,
         \A s \in Surfaces : Slots(s)' \subseteq watched[s],
         \A s \in Surfaces : releaseDue'[s] \subseteq held'[s]
  PROVE  NoDangling'
<1>1. \A s \in Surfaces : watched[s] \subseteq live[s]
  BY DEF NoDangling
<1>2. ASSUME NEW s \in Surfaces
      PROVE  Slots(s)' \subseteq watched'[s] /\ watched'[s] \subseteq live'[s]
  <2>1. watched'[s] = IF s \in S THEN watched[s] \cap Slots(s)' ELSE watched[s]
    BY DEF PruneWatches, Slots
  <2> QED
    BY <1>1, <2>1
<1> QED
  BY <1>2 DEF NoDangling, InUse, Slots, Named

\* commit_state() names only buffers that were watched.
LEMMA ApplyUpdateKeeps ==
  ASSUME TypeOK, NoDangling,
         NEW s \in Surfaces, NEW st \in State, NEW spent, NEW own, NEW shown,
         ApplyUpdate(s, st, spent, own, shown),
         st.buffer \in watched[s] \cup {NoBuffer},
         \A d \in Surfaces :
             {pending'[d].buffer} \cup BuffersIn(deferred'[d])
                 \subseteq watched[d] \cup {NoBuffer}
  PROVE  NoDangling'
<1> DEFINE U == {s} \cup Waiting(s)
           upd == [d \in U |-> IF d = s THEN st ELSE cached[d]]
<1>1. U \subseteq Surfaces
  BY DEF Waiting
<1>2. \A d \in Surfaces : Slots(d) \subseteq watched[d] /\ releaseDue[d] \subseteq held[d]
  BY NoDanglingSlots
<1>3. \A d \in U : upd[d].buffer \in watched[d] \cup {NoBuffer}
  BY <1>1, <1>2 DEF Slots, Named
<1> HIDE DEF U, upd
<1>4. /\ held' = held
      /\ live' = live
      /\ PruneWatches(U)
      /\ cached' = [d \in Surfaces |-> IF d \in spent THEN EmptyState ELSE cached[d]]
      /\ current' = [d \in Surfaces |->
             IF d \in U /\ upd[d].dirty THEN upd[d].buffer ELSE current[d]]
      /\ releaseDue' = [d \in Surfaces |->
             IF d \in U THEN releaseDue[d] \cup Withheld(d, upd[d]) ELSE releaseDue[d]]
  BY DEF ApplyUpdate, U, upd
<1>5. ASSUME NEW d \in Surfaces
      PROVE  Slots(d)' \subseteq watched[d]
  <2>1. cached'[d].buffer \in watched[d] \cup {NoBuffer}
    BY <1>2, <1>4, EmptyBuffers DEF Slots, Named
  <2>2. current'[d] \in watched[d] \cup {NoBuffer}
    BY <1>2, <1>3, <1>4 DEF Slots, Named
  <2>3. held'[d] \subseteq watched[d] \cup {NoBuffer}
    BY <1>2, <1>4 DEF Slots, Named
  <2> QED
    BY <2>1, <2>2, <2>3 DEF Slots, Named
<1>6. \A d \in Surfaces : releaseDue'[d] \subseteq held'[d]
  BY <1>2, <1>4 DEF Withheld
<1> QED
  BY <1>4, <1>5, <1>6, PruneKeeps

LEMMA InitNoDangling == Init => NoDangling
<1> SUFFICES ASSUME Init PROVE NoDangling
  OBVIOUS
<1>1. \A s \in Surfaces : Slots(s) = {}
  BY EmptyBuffers DEF Init, Slots, Named
<1> QED
  BY <1>1, NoDanglingSlots DEF Init

LEMMA CommitNoDangling ==
  ASSUME TypeOK, NoDangling, NEW s \in Surfaces, Commit(s)
  PROVE  NoDangling'
<1>1. CommitRequest(s)
  BY DEF Commit, CommitCached, CommitParked, CommitFolded, CommitDirect
<1>2. NextState(s) \in State /\ NextState(s).buffer = pending[s].buffer
  <2>1. NextState(s) \in State
    BY <1>1, CommitRequestType
  <2>2. pending[s] \in State
    BY DEF TypeOK
  <2> QED
    BY <2>1, <2>2 DEF NextState, State
<1>3. \A d \in Surfaces : pending'[d].buffer \in {pending[d].buffer, NoBuffer}
  BY <1>1, EmptyBuffers DEF CommitRequest, TypeOK
<1>4. \A d \in Surfaces : Slots(d) \subseteq watched[d] /\ releaseDue[d] \subseteq held[d]
  BY NoDanglingSlots
<1>5. NextState(s).buffer \in watched[s] \cup {NoBuffer}
  BY <1>2, <1>4 DEF Slots, Named
<1>6. \A d \in Surfaces : pending'[d].buffer \in watched[d] \cup {NoBuffer}
  BY <1>3, <1>4 DEF Slots, Named
<1>7. \A d \in Surfaces :
         {cached[d].buffer, current[d]} \cup BuffersIn(deferred[d]) \cup held[d]
             \subseteq watched[d] \cup {NoBuffer}
  BY <1>4 DEF Slots, Named
<1>8. CASE CommitCached(s)
  <2>1. cached'[s].buffer \in watched[s] \cup {NoBuffer}
    <3>1. cached'[s] = Merge(cached[s], NextState(s))
      BY <1>8 DEF CommitCached, TypeOK
    <3> QED
      BY <1>5, <1>7, <3>1, MergeBuffer
  <2>2. \A d \in Surfaces \ {s} : cached'[d] = cached[d]
    BY <1>8 DEF CommitCached, TypeOK
  <2>3. \A d \in Surfaces : Slots(d)' \subseteq watched[d]
    BY <1>6, <1>7, <1>8, <2>1, <2>2 DEF CommitCached, Slots, Named
  <2> QED
    BY <1>4, <1>8, <2>3, PruneKeeps DEF CommitCached
<1>9. CASE CommitParked(s)
  <2>1. BuffersIn(deferred'[s]) \subseteq watched[s] \cup {NoBuffer}
    <3>1. deferred[s] \in Seq(State) /\ deferred'[s] = Append(deferred[s], NextState(s))
      BY <1>9 DEF CommitParked, TypeOK
    <3> QED
      BY <1>2, <1>5, <1>7, <3>1, AppendBuffers
  <2>2. \A d \in Surfaces \ {s} : deferred'[d] = deferred[d]
    BY <1>9 DEF CommitParked, TypeOK
  <2>3. \A d \in Surfaces : Slots(d)' \subseteq watched[d]
    BY <1>6, <1>7, <1>9, <2>1, <2>2 DEF CommitParked, Slots, Named
  <2> QED
    BY <1>4, <1>9, <2>3, PruneKeeps DEF CommitParked
<1>10. CASE CommitFolded(s)
  <2>1. BuffersIn(deferred'[s]) \subseteq watched[s] \cup {NoBuffer}
    <3>1. /\ deferred[s] \in Seq(State)
          /\ Len(deferred[s]) \in Nat \ {0}
          /\ deferred'[s] = Folded(deferred[s], NextState(s))
      BY <1>10, SurfaceAssumption DEF CommitFolded, TypeOK
    <3> QED
      BY <1>2, <1>5, <1>7, <3>1, FoldedBuffers
  <2>2. \A d \in Surfaces \ {s} : deferred'[d] = deferred[d]
    BY <1>10 DEF CommitFolded, TypeOK
  <2>3. \A d \in Surfaces : Slots(d)' \subseteq watched[d]
    BY <1>6, <1>7, <1>10, <2>1, <2>2 DEF CommitFolded, Slots, Named
  <2> QED
    BY <1>4, <1>10, <2>3, PruneKeeps DEF CommitFolded
<1>11. CASE CommitDirect(s)
  <2>1. PICK shown \in {{}, {s}} :
           ApplyUpdate(s, NextState(s), Waiting(s), NextOwner(s), shown)
    BY <1>11 DEF CommitDirect
  <2>2. \A d \in Surfaces : {pending'[d].buffer} \cup BuffersIn(deferred'[d])
                               \subseteq watched[d] \cup {NoBuffer}
    BY <1>6, <1>7, <1>11 DEF CommitDirect
  <2> QED
    BY <1>2, <1>5, <2>1, <2>2, ApplyUpdateKeeps
<1> QED
  BY <1>8, <1>9, <1>10, <1>11 DEF Commit

LEMMA ReleaseNoDangling ==
  ASSUME TypeOK, NoDangling, NEW s \in Surfaces,
         \/ DrainStep(s)
         \/ SubDetach(s)
         \/ \E sync \in BOOLEAN : SubSetSync(s, sync)
  PROVE  NoDangling'
<1>1. \A d \in Surfaces : Slots(d) \subseteq watched[d]
  BY NoDanglingSlots
<1>2. \A d \in Surfaces :
         {pending[d].buffer, cached[d].buffer} \cup BuffersIn(deferred[d])
             \subseteq watched[d] \cup {NoBuffer}
  BY <1>1 DEF Slots, Named
<1>3. CASE DrainStep(s)
  <2>1. PICK shown \in {{}, {s}} :
           ApplyUpdate(s, Head(deferred[s]), Waiting(s), owner[s], shown)
    BY <1>3 DEF DrainStep
  <2>2. deferred[s] \in Seq(State) /\ deferred[s] # <<>>
    BY <1>3 DEF DrainStep, TypeOK
  <2>3. /\ Head(deferred[s]) \in State
        /\ Head(deferred[s]).buffer \in watched[s] \cup {NoBuffer}
        /\ BuffersIn(Tail(deferred[s])) \subseteq watched[s] \cup {NoBuffer}
    BY <1>2, <2>2, HeadTailBuffers
  <2>4. \A d \in Surfaces : deferred'[d] = IF d = s THEN Tail(deferred[s]) ELSE deferred[d]
    BY <1>3 DEF DrainStep, TypeOK
  <2>5. \A d \in Surfaces : {pending'[d].buffer} \cup BuffersIn(deferred'[d])
                               \subseteq watched[d] \cup {NoBuffer}
    BY <1>2, <1>3, <2>3, <2>4 DEF DrainStep
  <2> QED
    BY <2>1, <2>3, <2>5, ApplyUpdateKeeps
<1>4. ASSUME NEW free, ReleaseCached(s, free), UNCHANGED <<pending, deferred>>
      PROVE  NoDangling'
  <2>1. CASE free /\ hasCached[s]
    <3>1. ApplyUpdate(s, cached[s], {s} \cup Waiting(s), owner[s], {})
      BY <1>4, <2>1 DEF ReleaseCached
    <3>2. cached[s] \in State
      BY DEF TypeOK
    <3> QED
      BY <1>2, <1>4, <3>1, <3>2, ApplyUpdateKeeps
  <2>2. CASE ~(free /\ hasCached[s])
    BY <1>4, <2>2 DEF ReleaseCached, bufferVars, NoDangling, InUse
  <2> QED
    BY <2>1, <2>2
<1>5. CASE SubDetach(s)
  BY <1>4, <1>5 DEF SubDetach
<1>6. ASSUME NEW sync \in BOOLEAN, SubSetSync(s, sync)
      PROVE  NoDangling'
  BY <1>4, <1>6 DEF SubSetSync
<1> QED
  BY <1>3, <1>5, <1>6

LEMMA DestroySurfaceNoDangling ==
  ASSUME TypeOK, NoDangling, NEW s \in Surfaces, DestroySurface(s)
  PROVE  NoDangling'
<1>1. \A d \in Surfaces : /\ Slots(d) \subseteq watched[d]
                           /\ watched[d] \subseteq live[d]
                           /\ releaseDue[d] \subseteq held[d]
  BY NoDanglingSlots
<1>2. /\ Slots(s)' = {}
      /\ watched'[s] = {}
      /\ releaseDue'[s] = {}
  BY EmptyBuffers DEF DestroySurface, TypeOK, Slots, Named
<1>3. \A d \in Surfaces \ {s} : /\ Slots(d)' = Slots(d)
                                 /\ watched'[d] = watched[d]
                                 /\ releaseDue'[d] = releaseDue[d]
                                 /\ held'[d] = held[d]
  BY DEF DestroySurface, TypeOK, Slots
<1>4. live' = live
  BY DEF DestroySurface
<1>5. \A d \in Surfaces : /\ Slots(d)' \subseteq watched'[d]
                           /\ watched'[d] \subseteq live'[d]
                           /\ releaseDue'[d] \subseteq held'[d]
  BY <1>1, <1>2, <1>3, <1>4
<1> QED
  BY <1>5 DEF NoDangling, InUse, Slots, Named

\* forget_buffer() clears every slot of its surface that names the buffer.
LEMMA DestroyBufferNoDangling ==
  ASSUME TypeOK, NoDangling, NEW s \in Surfaces, NEW b \in Buffers, DestroyBuffer(s, b)
  PROVE  NoDangling'
<1>1. \A d \in Surfaces : /\ Slots(d) \subseteq watched[d]
                           /\ watched[d] \subseteq live[d]
                           /\ releaseDue[d] \subseteq held[d]
  BY NoDanglingSlots
<1>2. live' = [live EXCEPT ![s] = live[s] \ {b}]
  BY DEF DestroyBuffer
<1>3. CASE b \notin watched[s]
  <2>1. /\ UNCHANGED <<pending, cached, deferred, current, held, releaseDue, watched>>
    BY <1>3 DEF DestroyBuffer
  <2>2. \A d \in Surfaces : watched[d] \subseteq live'[d]
    BY <1>1, <1>2, <1>3 DEF TypeOK
  <2> QED
    BY <1>1, <2>1, <2>2 DEF NoDangling, InUse, Slots, Named
<1>4. CASE b \in watched[s]
  <2>1. /\ pending' = [pending EXCEPT ![s] = Forget(pending[s], b)]
        /\ cached' = [cached EXCEPT ![s] = Forget(cached[s], b)]
        /\ current' = [current EXCEPT
               ![s] = IF current[s] = b THEN NoBuffer ELSE current[s]]
        /\ held' = [held EXCEPT ![s] = held[s] \ {b}]
        /\ releaseDue' = [releaseDue EXCEPT ![s] = releaseDue[s] \ {b}]
        /\ watched' = [watched EXCEPT ![s] = watched[s] \ {b}]
    BY <1>4 DEF DestroyBuffer
  <2> DEFINE forgotten == [i \in DOMAIN deferred[s] |-> Forget(deferred[s][i], b)]
  <2>2. deferred' = [deferred EXCEPT ![s] = forgotten]
    BY <1>4 DEF DestroyBuffer
  <2>3. BuffersIn(forgotten) \subseteq (BuffersIn(deferred[s]) \ {b}) \cup {NoBuffer}
    <3>1. deferred[s] \in Seq(State)
      BY DEF TypeOK
    <3>2. \A i \in DOMAIN deferred[s] :
             Forget(deferred[s][i], b).buffer
                 \in ({deferred[s][i].buffer} \ {b}) \cup {NoBuffer}
      BY <3>1, ForgetBuffer
    <3> QED
      BY <3>2 DEF BuffersIn
  <2> HIDE DEF forgotten
  <2>4. /\ pending'[s].buffer \in ({pending[s].buffer} \ {b}) \cup {NoBuffer}
        /\ cached'[s].buffer \in ({cached[s].buffer} \ {b}) \cup {NoBuffer}
    BY <2>1, ForgetBuffer DEF TypeOK
  <2>5. /\ current'[s] \in ({current[s]} \ {b}) \cup {NoBuffer}
        /\ held'[s] = held[s] \ {b}
        /\ deferred'[s] = forgotten
        /\ watched'[s] = watched[s] \ {b}
        /\ releaseDue'[s] = releaseDue[s] \ {b}
        /\ live'[s] = live[s] \ {b}
    BY <1>2, <2>1, <2>2 DEF TypeOK
  <2>6. Slots(s)' \subseteq Slots(s) \ {b}
    BY <2>3, <2>4, <2>5 DEF Slots, Named
  <2>7. \A d \in Surfaces \ {s} :
           /\ pending'[d] = pending[d]
           /\ cached'[d] = cached[d]
           /\ deferred'[d] = deferred[d]
           /\ current'[d] = current[d]
           /\ held'[d] = held[d]
           /\ watched'[d] = watched[d]
           /\ releaseDue'[d] = releaseDue[d]
           /\ live'[d] = live[d]
    BY <1>2, <2>1, <2>2 DEF TypeOK
  <2>8. \A d \in Surfaces \ {s} : Slots(d)' = Slots(d)
    BY <2>7 DEF Slots
  <2>9. \A d \in Surfaces : /\ Slots(d)' \subseteq watched'[d]
                            /\ watched'[d] \subseteq live'[d]
                            /\ releaseDue'[d] \subseteq held'[d]
    BY <1>1, <2>5, <2>6, <2>7, <2>8
  <2> QED
    BY <2>9 DEF NoDangling, InUse, Slots, Named
<1> QED
  BY <1>3, <1>4

LEMMA BufferLifeNoDangling ==
  ASSUME TypeOK, NoDangling, NEW s \in Surfaces, NEW b \in Buffers,
         CreateBuffer(s, b) \/ HoldBuffer(s, b) \/ UnholdBuffer(s, b)
  PROVE  NoDangling'
<1>1. \A d \in Surfaces : /\ Slots(d) \subseteq watched[d]
                           /\ watched[d] \subseteq live[d]
                           /\ releaseDue[d] \subseteq held[d]
  BY NoDanglingSlots
<1>2. CASE CreateBuffer(s, b)
  <2>1. \A d \in Surfaces : live[d] \subseteq live'[d]
    BY <1>2 DEF CreateBuffer, TypeOK
  <2> QED
    BY <1>1, <1>2, <2>1 DEF CreateBuffer, queueVars, NoDangling, InUse, Slots, Named
<1>3. CASE HoldBuffer(s, b)
  <2>1. b = current[s] /\ b # NoBuffer
    BY <1>3 DEF HoldBuffer, Holdable
  <2>2. b \in live[s]
    BY <1>1, <2>1 DEF Slots, Named
  <2>3. \A d \in Surfaces :
           /\ held'[d] = held[d] \cup (IF d = s THEN {b} ELSE {})
           /\ watched'[d] = watched[d] \cup (IF d = s THEN {b} ELSE {})
    BY <1>3 DEF HoldBuffer, TypeOK
  <2>4. UNCHANGED <<pending, cached, deferred, current, releaseDue, live>>
    BY <1>3 DEF HoldBuffer, queueVars
  <2>5. \A d \in Surfaces : /\ Slots(d)' \subseteq watched'[d]
                            /\ watched'[d] \subseteq live'[d]
                            /\ releaseDue'[d] \subseteq held'[d]
    BY <1>1, <2>2, <2>3, <2>4 DEF Slots, Named
  <2> QED
    BY <2>5 DEF NoDangling, InUse, Slots, Named
<1>4. CASE UnholdBuffer(s, b)
  <2>1. \A d \in Surfaces :
           /\ held'[d] = held[d] \ (IF d = s THEN {b} ELSE {})
           /\ releaseDue'[d] = releaseDue[d] \ (IF d = s THEN {b} ELSE {})
    BY <1>4 DEF UnholdBuffer, TypeOK
  <2>2. UNCHANGED <<pending, cached, deferred, current, live>> /\ PruneWatches({s})
    BY <1>4 DEF UnholdBuffer, queueVars
  <2>3. \A d \in Surfaces : /\ Slots(d)' \subseteq watched[d]
                            /\ releaseDue'[d] \subseteq held'[d]
    BY <1>1, <2>1, <2>2 DEF Slots, Named
  <2> QED
    BY <2>2, <2>3, PruneKeeps
<1> QED
  BY <1>2, <1>3, <1>4

LEMMA AttachNoDangling ==
  ASSUME TypeOK, NoDangling, NEW s \in Surfaces, NEW b \in Buffers \cup {NoBuffer},
         Attach(s, b)
  PROVE  NoDangling'
<1>1. \A d \in Surfaces : /\ Slots(d) \subseteq watched[d]
                           /\ watched[d] \subseteq live[d]
                           /\ releaseDue[d] \subseteq held[d]
  BY NoDanglingSlots
<1>2. b \in live[s] \cup {NoBuffer}
  BY DEF Attach, Attachable
<1>3. /\ pending'[s].buffer = b
      /\ watched'[s] = watched[s] \cup ({b} \ {NoBuffer})
  <2>1. pending[s] \in State
    BY DEF TypeOK
  <2> QED
    BY <2>1 DEF Attach, TypeOK, State
<1>4. \A d \in Surfaces \ {s} : pending'[d] = pending[d] /\ watched'[d] = watched[d]
  BY DEF Attach, TypeOK
<1>5. UNCHANGED <<cached, deferred, current, held, releaseDue, live>>
  BY DEF Attach, queueVars
<1>6. ASSUME NEW d \in Surfaces
      PROVE  /\ Slots(d)' \subseteq watched'[d]
             /\ watched'[d] \subseteq live'[d]
  <2>1. CASE d = s
    BY <1>1, <1>2, <1>3, <1>5, <2>1 DEF Slots, Named
  <2>2. CASE d # s
    BY <1>1, <1>4, <1>5, <2>2 DEF Slots, Named
  <2> QED
    BY <2>1, <2>2
<1> QED
  BY <1>1, <1>5, <1>6 DEF NoDangling, InUse, Slots, Named

\* A request or call that changes no slot.
LEMMA QuietNoDangling ==
  ASSUME NoDangling,
         UNCHANGED <<cached, deferred, current, held, releaseDue, watched, live>>,
         \A d \in Surfaces : pending'[d].buffer = pending[d].buffer
  PROVE  NoDangling'
  BY DEF NoDangling, InUse

LEMMA GatesNoDangling ==
  ASSUME TypeOK, NoDangling, NEW s \in Surfaces,
         \/ SetBarrier(s)
         \/ SetWait(s)
         \/ \E t \in 1..client.time : SetCommitTime(s, t)
  PROVE  NoDangling'
<1>1. pending[s] \in State
  BY DEF TypeOK
<1>2. \E st : SetGate(s, st) /\ st.buffer = pending[s].buffer
  <2>1. CASE SetBarrier(s)
    <3>1. [pending[s] EXCEPT !.barrier = TRUE].buffer = pending[s].buffer
      BY <1>1 DEF State
    <3> QED
      BY <2>1, <3>1 DEF SetBarrier
  <2>2. CASE SetWait(s)
    <3>1. [pending[s] EXCEPT !.wait = TRUE].buffer = pending[s].buffer
      BY <1>1 DEF State
    <3> QED
      BY <2>2, <3>1 DEF SetWait
  <2>3. ASSUME NEW t \in 1..client.time, SetCommitTime(s, t)
        PROVE  \E st : SetGate(s, st) /\ st.buffer = pending[s].buffer
    <3>1. [pending[s] EXCEPT !.time = t].buffer = pending[s].buffer
      BY <1>1 DEF State
    <3> QED
      BY <2>3, <3>1 DEF SetCommitTime
  <2> QED
    BY <2>1, <2>2, <2>3
<1>3. \A d \in Surfaces : pending'[d].buffer = pending[d].buffer
  BY <1>2 DEF SetGate, TypeOK
<1> QED
  BY <1>2, <1>3, QuietNoDangling DEF SetGate, queueVars, bufferVars

LEMMA NoDanglingStep == TypeOK /\ NoDangling /\ [Next]_vars => NoDangling'
<1> SUFFICES ASSUME TypeOK, NoDangling, [Next]_vars
             PROVE  NoDangling'
  OBVIOUS
<1>1. CASE UNCHANGED vars
  BY <1>1, QuietNoDangling DEF vars, queueVars, bufferVars
<1>2. CASE TimePasses
  BY <1>2, QuietNoDangling DEF TimePasses, queueVars, bufferVars
<1>3. ASSUME NEW s \in Surfaces, ClientStep(s)
      PROVE  NoDangling'
  <2>1. CASE Commit(s)
    BY <2>1, CommitNoDangling
  <2>2. ASSUME NEW p, SubAttach(s, p)
        PROVE  NoDangling'
    BY <2>2, QuietNoDangling DEF SubAttach, queueVars, bufferVars
  <2>3. CASE SubDetach(s) \/ \E sync \in BOOLEAN : SubSetSync(s, sync)
    BY <2>3, ReleaseNoDangling
  <2>4. CASE \E b \in Buffers : DestroyBuffer(s, b) \/ CreateBuffer(s, b)
    BY <2>4, DestroyBufferNoDangling, BufferLifeNoDangling
  <2> QED
    BY <1>3, <2>1, <2>2, <2>3, <2>4, AttachNoDangling, GatesNoDangling
       DEF ClientStep
<1>4. ASSUME NEW s \in Surfaces, CompositorStep(s)
      PROVE  NoDangling'
  <2>1. CASE Present(s) \/ ClearBarrier(s)
    BY <2>1, QuietNoDangling
       DEF Present, ClearBarrier, DropBarrier, queueVars, bufferVars
  <2>2. CASE DrainStep(s)
    BY <2>2, ReleaseNoDangling
  <2>3. CASE DrainEnd(s)
    BY <2>3, QuietNoDangling DEF DrainEnd, queueVars, bufferVars
  <2>4. CASE HoldBuffer(s, current[s])
    <3>1. current[s] \in Buffers
      BY <2>4 DEF HoldBuffer, Holdable, TypeOK
    <3> QED
      BY <2>4, <3>1, BufferLifeNoDangling
  <2>5. CASE \E b \in Buffers : UnholdBuffer(s, b)
    BY <2>5, BufferLifeNoDangling
  <2> QED
    BY <1>4, <2>1, <2>2, <2>3, <2>4, <2>5 DEF CompositorStep
<1>5. ASSUME NEW s \in Surfaces, NEW limit, ReleaseDeferred(s, limit)
      PROVE  NoDangling'
  BY <1>5, QuietNoDangling DEF ReleaseDeferred, queueVars, bufferVars
<1>6. ASSUME NEW s \in Surfaces, \E t \in 1..client.time : SetCommitTime(s, t)
      PROVE  NoDangling'
  BY <1>6, GatesNoDangling
<1>7. ASSUME NEW s \in Surfaces, DestroySurface(s)
      PROVE  NoDangling'
  BY <1>7, DestroySurfaceNoDangling
<1> QED
  BY <1>1, <1>2, <1>3, <1>4, <1>5, <1>6, <1>7, ClientSurfaces DEF Next

\* NoDangling is inductive once the types are known: no sequence of attaches,
\* commits, holds, releases and destructions leaves a surface with a pointer to
\* a wl_buffer that is gone, however many surfaces and buffers there are.
THEOREM NoDanglingHolds == Spec => []NoDangling
<1>1. Init => NoDangling
  BY InitNoDangling
<1>2. TypeOK /\ NoDangling /\ [Next]_vars => NoDangling'
  BY NoDanglingStep
<1> QED
  BY <1>1, <1>2, TypeCorrect, PTL DEF Spec

-----------------------------------------------------------------------------
(* The tree *)

\* Ancestors is a set that is closed under "parent of" and the least with s.
LEMMA AncestorsClosed ==
  ASSUME NEW par \in [Surfaces -> Surfaces \cup {NoSurface}], NEW s \in Surfaces
  PROVE  /\ s \in Ancestors(s, par)
         /\ Ancestors(s, par) \subseteq Surfaces
         /\ \A a \in Ancestors(s, par) :
               par[a] # NoSurface => par[a] \in Ancestors(s, par)
  BY Zenon, SurfaceAssumption DEF Ancestors

LEMMA AncestorsLeast ==
  ASSUME NEW par \in [Surfaces -> Surfaces \cup {NoSurface}], NEW s \in Surfaces,
         NEW T \in SUBSET Surfaces, s \in T,
         \A c \in T : par[c] # NoSurface => par[c] \in T
  PROVE  Ancestors(s, par) \subseteq T
  BY DEF Ancestors

LEMMA AncestorsTransitive ==
  ASSUME NEW par \in [Surfaces -> Surfaces \cup {NoSurface}],
         NEW s \in Surfaces, NEW a \in Ancestors(s, par)
  PROVE  Ancestors(a, par) \subseteq Ancestors(s, par)
  BY AncestorsClosed, AncestorsLeast

\* A surface that is nobody's subsurface is its only ancestor.
LEMMA AncestorsOfRoot ==
  ASSUME NEW par \in [Surfaces -> Surfaces \cup {NoSurface}], NEW s \in Surfaces,
         par[s] = NoSurface
  PROVE  Ancestors(s, par) = {s}
<1>1. Ancestors(s, par) \subseteq {s}
  <2> DEFINE T == {s}
  <2>1. /\ T \in SUBSET Surfaces
        /\ s \in T
        /\ \A c \in T : par[c] # NoSurface => par[c] \in T
    OBVIOUS
  <2> HIDE DEF T
  <2>2. Ancestors(s, par) \subseteq T
    BY <2>1, AncestorsLeast
  <2> QED
    BY <2>2 DEF T
<1> QED
  BY <1>1, AncestorsClosed

LEMMA RootIsFree ==
  ASSUME NEW par \in [Surfaces -> Surfaces \cup {NoSurface}], NEW s \in Surfaces,
         par[s] = NoSurface, NEW sync
  PROVE  ~EffectiveSync(s, par, sync)
<1>1. Ancestors(s, par) = {s}
  BY AncestorsOfRoot
<1> QED
  BY <1>1 DEF EffectiveSync

-----------------------------------------------------------------------------
(* commit_state(), seen from one surface *)

\* d takes u as its update: `own` owned its buffers before.
Took(d, u, own) ==
    /\ current'[d] = IF u.dirty THEN u.buffer ELSE current[d]
    /\ releaseDue'[d] = releaseDue[d] \cup Withheld(d, u)
    /\ owner'[d] = GiveBack(own, ReleasedNow(d, u))
    /\ held'[d] = held[d]
    /\ live'[d] = live[d]

\* d is not concerned.
Untouched(d) ==
    /\ cached'[d] = cached[d]
    /\ hasCached'[d] = hasCached[d]
    /\ current'[d] = current[d]
    /\ releaseDue'[d] = releaseDue[d]
    /\ owner'[d] = owner[d]
    /\ held'[d] = held[d]
    /\ live'[d] = live[d]
    /\ queued'[d] = queued[d]
    /\ done'[d] = done[d]

\* d spends its cached state.
Spends(d, own) ==
    /\ hasCached[d]
    /\ cached'[d] = EmptyState
    /\ ~hasCached'[d]
    /\ Took(d, cached[d], own)
    /\ queued'[d] = queued[d] \cup cached[d].commits
    /\ done'[d] = done[d]

\* d applies st, which is not its cached state.
Applies(d, st, own) ==
    /\ cached'[d] = cached[d]
    /\ hasCached'[d] = hasCached[d]
    /\ Took(d, st, own)
    /\ \/ /\ queued'[d] = queued[d] \cup st.commits
          /\ done'[d] = done[d]
       \/ /\ queued'[d] = st.commits
          /\ done'[d] = done[d] \cup queued[d]

LEMMA ApplyUpdateAt ==
  ASSUME TypeOK, NEW s \in Surfaces, NEW st, NEW spent, NEW own, NEW shown,
         ApplyUpdate(s, st, spent, own, shown),
         Waiting(s) \subseteq spent, spent \subseteq {s} \cup Waiting(s),
         s \in spent => hasCached[s] /\ st = cached[s] /\ own = owner[s] /\ shown = {},
         shown \subseteq {s},
         NEW d \in Surfaces
  PROVE  /\ d \notin {s} \cup Waiting(s) => Untouched(d)
         /\ d \in Waiting(s) => d # s /\ Spends(d, owner[d])
         /\ d = s /\ s \in spent => Spends(s, own)
         /\ d = s /\ s \notin spent => Applies(s, st, own)
<1> DEFINE U == {s} \cup Waiting(s)
           upd == [e \in U |-> IF e = s THEN st ELSE cached[e]]
<1>1. /\ U \subseteq Surfaces
      /\ s \notin Waiting(s)
      /\ d \in Waiting(s) => hasCached[d]
  BY DEF Waiting
<1>2. d \in U => upd[d] = IF d = s THEN st ELSE cached[d]
  OBVIOUS
<1>3. /\ d = s => d \in U
      /\ d \in Waiting(s) => d \in U
      /\ d \in U => d = s \/ d \in Waiting(s)
  OBVIOUS
<1> HIDE DEF U, upd
<1>4. /\ cached'[d] = IF d \in spent THEN EmptyState ELSE cached[d]
      /\ hasCached'[d] <=> hasCached[d] /\ d \notin spent
      /\ current'[d] = IF d \in U /\ upd[d].dirty THEN upd[d].buffer ELSE current[d]
      /\ releaseDue'[d] = IF d \in U THEN releaseDue[d] \cup Withheld(d, upd[d])
                                     ELSE releaseDue[d]
      /\ owner'[d] = IF d \in U
                     THEN GiveBack(IF d = s THEN own ELSE owner[d],
                                   ReleasedNow(d, upd[d]))
                     ELSE owner[d]
  BY DEF ApplyUpdate, U, upd
<1>5. /\ queued'[d] = (IF d \in shown THEN {} ELSE queued[d]) \cup
                      (IF d \in U THEN upd[d].commits ELSE {})
      /\ done'[d] = IF d \in shown THEN done[d] \cup queued[d] ELSE done[d]
      /\ held'[d] = held[d]
      /\ live'[d] = live[d]
  BY DEF ApplyUpdate, U, upd
<1>6. hasCached[d] \in BOOLEAN /\ hasCached'[d] \in BOOLEAN
  BY DEF TypeOK, ApplyUpdate
<1>7. d \notin U => Untouched(d)
  BY <1>3, <1>4, <1>5, <1>6 DEF Untouched
<1>8. d \in Waiting(s) => d # s /\ Spends(d, owner[d])
  BY <1>1, <1>2, <1>3, <1>4, <1>5 DEF Spends, Took
<1>9. d = s /\ s \in spent => Spends(s, own)
  BY <1>1, <1>2, <1>3, <1>4, <1>5 DEF Spends, Took
<1>10. d = s /\ s \notin spent => Applies(s, st, own)
  BY <1>1, <1>2, <1>3, <1>4, <1>5, <1>6 DEF Applies, Took
<1> QED
  BY <1>3, <1>7, <1>8, <1>9, <1>10

-----------------------------------------------------------------------------
(* What a step does to one surface *)

Queue(d)   == <<cached[d], hasCached[d], deferred[d]>>
Store(d)   == <<current[d], held[d], releaseDue[d], live[d], owner[d]>>
Answers(d) == <<queued[d], done[d], made[d]>>

\* Nothing, or a gate for the next commit.
Stays(d) ==
    /\ pending'[d].buffer = pending[d].buffer
    /\ pending'[d].dirty = pending[d].dirty
    /\ pending'[d] # pending[d] => client.uses \cap {"fifo", "timing"} # {}
    /\ Queue(d)' = Queue(d) /\ Store(d)' = Store(d) /\ Answers(d)' = Answers(d)

Attaches(d) ==
    /\ \E b \in Attachable(d) :
          pending'[d] = [pending[d] EXCEPT !.buffer = b, !.dirty = TRUE]
    /\ Queue(d)' = Queue(d) /\ Store(d)' = Store(d) /\ Answers(d)' = Answers(d)

\* A commit request: it is cached, parked, folded or applied.
Requests(d) ==
    /\ NextState(d) \in State
    /\ pending'[d] = EmptyState
    /\ made'[d] = made[d] + 1

Waits(d) ==
    /\ Requests(d)
    /\ current'[d] = current[d]
    /\ held'[d] = held[d]
    /\ releaseDue'[d] = releaseDue[d]
    /\ live'[d] = live[d]
    /\ queued'[d] = queued[d]
    /\ done'[d] = done[d]

Caches(d) ==
    /\ Waits(d)
    /\ cached'[d] = Merge(cached[d], NextState(d))
    /\ hasCached'[d]
    /\ deferred'[d] = deferred[d]
    /\ owner'[d] = GiveBack(NextOwner(d), Superseded(cached[d], NextState(d)))

Parks(d) ==
    /\ Waits(d)
    /\ cached'[d] = cached[d]
    /\ hasCached'[d] = hasCached[d]
    /\ MustPark(d)
    /\ deferred'[d] = Append(deferred[d], NextState(d))
    /\ owner'[d] = NextOwner(d)

Folds(d) ==
    /\ Waits(d)
    /\ cached'[d] = cached[d]
    /\ hasCached'[d] = hasCached[d]
    /\ MustPark(d)
    /\ Len(deferred[d]) \in Nat \ {0}
    /\ deferred'[d] = Folded(deferred[d], NextState(d))
    /\ owner'[d] = GiveBack(NextOwner(d), Superseded(Newest(deferred[d]), NextState(d)))

AppliesNext(d) ==
    /\ Requests(d)
    /\ ~EffectiveSync(d, parent, subSync)
    /\ deferred[d] = <<>>
    /\ deferred'[d] = <<>>
    /\ Applies(d, NextState(d), NextOwner(d))

\* release_deferred_commit(), and the cached state a parent's commit applies.
AppliesHead(d) ==
    /\ deferred[d] # <<>>
    /\ deferred'[d] = Tail(deferred[d])
    /\ pending'[d] = pending[d]
    /\ made'[d] = made[d]
    /\ Applies(d, Head(deferred[d]), owner[d])

AppliesCached(d) ==
    /\ deferred'[d] = deferred[d]
    /\ pending'[d] = pending[d]
    /\ made'[d] = made[d]
    /\ Spends(d, owner[d])

IsPresented(d) ==
    /\ pending'[d] = pending[d]
    /\ Queue(d)' = Queue(d) /\ Store(d)' = Store(d)
    /\ made'[d] = made[d]
    /\ done'[d] = done[d] \cup queued[d]
    /\ queued'[d] = {}

Holds(d) ==
    /\ pending'[d] = pending[d]
    /\ Queue(d)' = Queue(d) /\ Answers(d)' = Answers(d)
    /\ current[d] # NoBuffer
    /\ held'[d] = held[d] \cup {current[d]}
    /\ current'[d] = current[d] /\ releaseDue'[d] = releaseDue[d]
    /\ live'[d] = live[d] /\ owner'[d] = owner[d]

Unholds(d) ==
    /\ pending'[d] = pending[d]
    /\ Queue(d)' = Queue(d) /\ Answers(d)' = Answers(d)
    /\ \E b \in held[d] :
          /\ held'[d] = held[d] \ {b}
          /\ releaseDue'[d] = releaseDue[d] \ {b}
          /\ owner'[d] = GiveBack(owner[d], {b} \cap releaseDue[d])
    /\ current'[d] = current[d] /\ live'[d] = live[d]

\* The wl_buffer b is destroyed, and s forgets it if it watched it.
Loses(d, b) ==
    /\ b \in live[d]
    /\ live'[d] = live[d] \ {b}
    /\ hasCached'[d] = hasCached[d] /\ owner'[d] = owner[d]
    /\ Answers(d)' = Answers(d)
    /\ IF b \in watched[d]
       THEN /\ pending'[d] = Forget(pending[d], b)
            /\ cached'[d] = Forget(cached[d], b)
            /\ deferred'[d] = [i \in DOMAIN deferred[d] |-> Forget(deferred[d][i], b)]
            /\ current'[d] = IF current[d] = b THEN NoBuffer ELSE current[d]
            /\ held'[d] = held[d] \ {b}
            /\ releaseDue'[d] = releaseDue[d] \ {b}
       ELSE /\ pending'[d] = pending[d] /\ cached'[d] = cached[d]
            /\ deferred'[d] = deferred[d] /\ current'[d] = current[d]
            /\ held'[d] = held[d] /\ releaseDue'[d] = releaseDue[d]

Gains(d, b) ==
    /\ b \in Buffers \ live[d]
    /\ live'[d] = live[d] \cup {b}
    /\ owner'[d] = [owner[d] EXCEPT ![b] = "client"]
    /\ pending'[d] = pending[d]
    /\ Queue(d)' = Queue(d) /\ Answers(d)' = Answers(d)
    /\ current'[d] = current[d] /\ held'[d] = held[d] /\ releaseDue'[d] = releaseDue[d]

\* Another surface takes its name.
IsReplaced(d) ==
    /\ pending'[d] = EmptyState /\ cached'[d] = EmptyState
    /\ ~hasCached'[d] /\ deferred'[d] = <<>>
    /\ current'[d] = NoBuffer /\ held'[d] = {} /\ releaseDue'[d] = {}
    /\ live'[d] = live[d]
    /\ owner'[d] = [b \in Buffers |-> IF owner[d][b] = "server" THEN "lost" ELSE owner[d][b]]
    /\ queued'[d] = {} /\ done'[d] = {} /\ made'[d] = 0

Moves(d) ==
    \/ Stays(d) \/ Attaches(d)
    \/ Caches(d) \/ Parks(d) \/ Folds(d) \/ AppliesNext(d)
    \/ AppliesHead(d) \/ AppliesCached(d) \/ IsPresented(d)
    \/ Holds(d) \/ Unholds(d)
    \/ \E b \in Buffers : Loses(d, b) \/ Gains(d, b)
    \/ IsReplaced(d)

LEMMA CommitMoves ==
  ASSUME TypeOK, NEW s \in Surfaces, Commit(s), NEW d \in Surfaces
  PROVE  Moves(d)
<1>1. CommitRequest(s)
  BY DEF Commit, CommitCached, CommitParked, CommitFolded, CommitDirect
<1>2. /\ Requests(s)
      /\ d # s => pending'[d] = pending[d] /\ made'[d] = made[d]
  BY <1>1, CommitRequestType DEF CommitRequest, Requests, TypeOK
<1>3. CASE CommitCached(s)
  <2>1. CASE d = s
    <3>1. Caches(s)
      BY <1>2, <1>3 DEF CommitCached, Caches, Waits, showVars, TypeOK
    <3> QED
      BY <2>1, <3>1 DEF Moves
  <2>2. CASE d # s
    <3>1. Stays(d)
      BY <1>2, <1>3, <2>2
         DEF CommitCached, Stays, Queue, Store, Answers, showVars, TypeOK
    <3> QED
      BY <3>1 DEF Moves
  <2> QED
    BY <2>1, <2>2
<1>4. CASE CommitParked(s)
  <2>1. CASE d = s
    <3>1. Parks(s)
      BY <1>2, <1>4 DEF CommitParked, Parks, Waits, showVars, TypeOK
    <3> QED
      BY <2>1, <3>1 DEF Moves
  <2>2. CASE d # s
    <3>1. Stays(d)
      BY <1>2, <1>4, <2>2
         DEF CommitParked, Stays, Queue, Store, Answers, showVars, TypeOK
    <3> QED
      BY <3>1 DEF Moves
  <2> QED
    BY <2>1, <2>2
<1>5. CASE CommitFolded(s)
  <2>1. CASE d = s
    <3>1. Len(deferred[s]) \in Nat \ {0}
      BY <1>5, SurfaceAssumption DEF CommitFolded, TypeOK
    <3>2. Folds(s)
      BY <1>2, <1>5, <3>1 DEF CommitFolded, Folds, Waits, showVars, TypeOK
    <3> QED
      BY <2>1, <3>2 DEF Moves
  <2>2. CASE d # s
    <3>1. Stays(d)
      BY <1>2, <1>5, <2>2
         DEF CommitFolded, Stays, Queue, Store, Answers, showVars, TypeOK
    <3> QED
      BY <3>1 DEF Moves
  <2> QED
    BY <2>1, <2>2
<1>6. CASE CommitDirect(s)
  <2>1. PICK shown \in {{}, {s}} :
           ApplyUpdate(s, NextState(s), Waiting(s), NextOwner(s), shown)
    BY <1>6 DEF CommitDirect
  <2>2. /\ deferred[s] = <<>> /\ deferred' = deferred
        /\ ~EffectiveSync(s, parent, subSync)
    BY <1>6 DEF CommitDirect, MustPark
  <2>3. s \notin Waiting(s)
    BY DEF Waiting
  <2>4. /\ d \notin {s} \cup Waiting(s) => Untouched(d)
        /\ d \in Waiting(s) => d # s /\ Spends(d, owner[d])
        /\ d = s /\ s \notin Waiting(s) => Applies(s, NextState(s), NextOwner(s))
    BY <2>1, <2>3, ApplyUpdateAt
  <2>5. d = s => AppliesNext(d)
    BY <1>2, <2>2, <2>3, <2>4 DEF AppliesNext
  <2>6. d \in Waiting(s) => AppliesCached(d)
    BY <1>2, <2>2, <2>4 DEF AppliesCached
  <2>7. d \notin {s} \cup Waiting(s) => Stays(d)
    BY <1>2, <2>2, <2>4 DEF Stays, Untouched, Queue, Store, Answers
  <2> QED
    BY <2>5, <2>6, <2>7 DEF Moves
<1> QED
  BY <1>3, <1>4, <1>5, <1>6 DEF Commit

LEMMA ReleaseMoves ==
  ASSUME TypeOK, NEW s \in Surfaces, NEW d \in Surfaces,
         \/ DrainStep(s)
         \/ SubDetach(s)
         \/ \E sync \in BOOLEAN : SubSetSync(s, sync)
  PROVE  Moves(d)
<1>1. s \notin Waiting(s)
  BY DEF Waiting
<1>2. CASE DrainStep(s)
  <2>1. PICK shown \in {{}, {s}} :
           ApplyUpdate(s, Head(deferred[s]), Waiting(s), owner[s], shown)
    BY <1>2 DEF DrainStep
  <2>2. /\ deferred[s] # <<>>
        /\ deferred'[d] = IF d = s THEN Tail(deferred[s]) ELSE deferred[d]
        /\ pending' = pending /\ made' = made
    BY <1>2 DEF DrainStep, TypeOK
  <2>3. /\ d \notin {s} \cup Waiting(s) => Untouched(d)
        /\ d \in Waiting(s) => d # s /\ Spends(d, owner[d])
        /\ d = s /\ s \notin Waiting(s) => Applies(s, Head(deferred[s]), owner[s])
    BY <1>1, <2>1, ApplyUpdateAt
  <2>4. d = s => AppliesHead(d)
    BY <1>1, <2>2, <2>3 DEF AppliesHead
  <2>5. d \in Waiting(s) => AppliesCached(d)
    BY <2>2, <2>3 DEF AppliesCached
  <2>6. d \notin {s} \cup Waiting(s) => Stays(d)
    BY <2>2, <2>3 DEF Stays, Untouched, Queue, Store, Answers
  <2> QED
    BY <2>4, <2>5, <2>6 DEF Moves
<1>3. ASSUME NEW free, ReleaseCached(s, free), UNCHANGED <<pending, deferred, made>>
      PROVE  Moves(d)
  <2>1. CASE free /\ hasCached[s]
    <3>1. ApplyUpdate(s, cached[s], {s} \cup Waiting(s), owner[s], {})
      BY <1>3, <2>1 DEF ReleaseCached
    <3>2. /\ d \notin {s} \cup Waiting(s) => Untouched(d)
          /\ d \in {s} \cup Waiting(s) => Spends(d, owner[d])
      <4> DEFINE spent == {s} \cup Waiting(s)
      <4>1. /\ ApplyUpdate(s, cached[s], spent, owner[s], {})
            /\ Waiting(s) \subseteq spent /\ spent \subseteq {s} \cup Waiting(s)
            /\ s \in spent
        BY <3>1
      <4> HIDE DEF spent
      <4>2. /\ d \notin {s} \cup Waiting(s) => Untouched(d)
            /\ d \in Waiting(s) => d # s /\ Spends(d, owner[d])
            /\ d = s /\ s \in spent => Spends(s, owner[s])
        BY <2>1, <4>1, ApplyUpdateAt
      <4> QED
        BY <4>1, <4>2
    <3>3. d \in {s} \cup Waiting(s) => AppliesCached(d)
      BY <1>3, <3>2 DEF AppliesCached
    <3>4. d \notin {s} \cup Waiting(s) => Stays(d)
      BY <1>3, <3>2 DEF Stays, Untouched, Queue, Store, Answers
    <3> QED
      BY <3>3, <3>4 DEF Moves
  <2>2. CASE ~(free /\ hasCached[s])
    <3>1. Stays(d)
      BY <1>3, <2>2
         DEF ReleaseCached, Stays, Queue, Store, Answers, bufferVars, showVars
    <3> QED
      BY <3>1 DEF Moves
  <2> QED
    BY <2>1, <2>2
<1>4. CASE SubDetach(s)
  BY <1>3, <1>4 DEF SubDetach
<1>5. ASSUME NEW sync \in BOOLEAN, SubSetSync(s, sync)
      PROVE  Moves(d)
  BY <1>3, <1>5 DEF SubSetSync
<1> QED
  BY <1>2, <1>4, <1>5

LEMMA BufferLifeMoves ==
  ASSUME TypeOK, NEW s \in Surfaces, NEW b \in Buffers, NEW d \in Surfaces,
         DestroyBuffer(s, b) \/ CreateBuffer(s, b) \/ HoldBuffer(s, b) \/ UnholdBuffer(s, b)
  PROVE  Moves(d)
<1> USE DEF queueVars, showVars, Queue, Store, Answers
<1>1. CASE DestroyBuffer(s, b)
  <2>1. CASE d = s
    <3>1. /\ b \in live[s]
          /\ live'[s] = live[s] \ {b}
          /\ UNCHANGED <<hasCached, owner, queued, done, made>>
      BY <1>1 DEF DestroyBuffer, TypeOK
    <3>2. CASE b \in watched[s]
      <4>1. /\ pending'[s] = Forget(pending[s], b)
            /\ cached'[s] = Forget(cached[s], b)
            /\ deferred'[s] = [i \in DOMAIN deferred[s] |-> Forget(deferred[s][i], b)]
            /\ current'[s] = IF current[s] = b THEN NoBuffer ELSE current[s]
            /\ held'[s] = held[s] \ {b}
            /\ releaseDue'[s] = releaseDue[s] \ {b}
        BY <1>1, <3>2 DEF DestroyBuffer, TypeOK
      <4> QED
        BY <2>1, <3>1, <3>2, <4>1 DEF Loses, Moves
    <3>3. CASE b \notin watched[s]
      BY <1>1, <2>1, <3>1, <3>3 DEF DestroyBuffer, Loses, Moves
    <3> QED
      BY <3>2, <3>3
  <2>2. CASE d # s
    <3>1. /\ pending'[d] = pending[d] /\ cached'[d] = cached[d]
          /\ deferred'[d] = deferred[d] /\ current'[d] = current[d]
          /\ held'[d] = held[d] /\ releaseDue'[d] = releaseDue[d]
          /\ live'[d] = live[d]
          /\ UNCHANGED <<hasCached, owner, queued, done, made>>
      BY <1>1, <2>2 DEF DestroyBuffer, TypeOK
    <3>2. Stays(d)
      BY <3>1 DEF Stays
    <3> QED
      BY <3>2 DEF Moves
  <2> QED
    BY <2>1, <2>2
<1>2. CASE CreateBuffer(s, b)
  <2>0. client.buffers \subseteq Buffers
    <3>1. client \in Client
      BY SurfaceAssumption DEF TypeOK
    <3> QED
      BY <3>1 DEF Client
  <2>1. d = s => Gains(d, b)
    BY <1>2, <2>0 DEF CreateBuffer, Gains, TypeOK
  <2>2. d # s => Stays(d)
    BY <1>2 DEF CreateBuffer, Stays, TypeOK
  <2> QED
    BY <2>1, <2>2 DEF Moves
<1>3. CASE HoldBuffer(s, b)
  <2>1. d = s => Holds(d)
    BY <1>3 DEF HoldBuffer, Holdable, Holds, TypeOK
  <2>2. d # s => Stays(d)
    BY <1>3 DEF HoldBuffer, Stays, TypeOK
  <2> QED
    BY <2>1, <2>2 DEF Moves
<1>4. CASE UnholdBuffer(s, b)
  <2>1. d = s => Unholds(d)
    BY <1>4 DEF UnholdBuffer, Unholds, TypeOK
  <2>2. d # s => Stays(d)
    BY <1>4 DEF UnholdBuffer, Stays, TypeOK
  <2> QED
    BY <2>1, <2>2 DEF Moves
<1> QED
  BY <1>1, <1>2, <1>3, <1>4

LEMMA PendingMoves ==
  ASSUME TypeOK, NEW s \in Surfaces, NEW d \in Surfaces,
         \/ \E b \in Buffers \cup {NoBuffer} : Attach(s, b)
         \/ SetBarrier(s)
         \/ SetWait(s)
         \/ \E t \in 1..client.time : SetCommitTime(s, t)
  PROVE  Moves(d)
<1> USE DEF queueVars, bufferVars, showVars, Queue, Store, Answers
<1>1. ASSUME NEW b \in Buffers \cup {NoBuffer}, Attach(s, b)
      PROVE  Moves(d)
  <2>1. d = s => Attaches(d)
    BY <1>1 DEF Attach, Attaches, TypeOK
  <2>2. d # s => Stays(d)
    BY <1>1 DEF Attach, Stays, TypeOK
  <2> QED
    BY <2>1, <2>2 DEF Moves
<1>2. ASSUME NEW st \in State, SetGate(s, st),
             st.buffer = pending[s].buffer, st.dirty = pending[s].dirty,
             client.uses \cap {"fifo", "timing"} # {}
      PROVE  Moves(d)
  <2>1. Stays(d)
    BY <1>2 DEF SetGate, Stays, TypeOK
  <2> QED
    BY <2>1 DEF Moves
<1>3. pending[s] \in State
  BY DEF TypeOK
<1>4. CASE SetBarrier(s)
  <2>1. LET st == [pending[s] EXCEPT !.barrier = TRUE]
        IN  st \in State /\ st.buffer = pending[s].buffer /\ st.dirty = pending[s].dirty
    BY <1>3 DEF State
  <2> QED
    BY <1>2, <1>4, <2>1 DEF SetBarrier
<1>5. CASE SetWait(s)
  <2>1. LET st == [pending[s] EXCEPT !.wait = TRUE]
        IN  st \in State /\ st.buffer = pending[s].buffer /\ st.dirty = pending[s].dirty
    BY <1>3 DEF State
  <2> QED
    BY <1>2, <1>5, <2>1 DEF SetWait
<1>6. ASSUME NEW t \in 1..client.time, SetCommitTime(s, t)
      PROVE  Moves(d)
  <2>1. client \in Client
    BY SurfaceAssumption DEF TypeOK
  <2>2. t \in 0..MaxTime
    BY <2>1, SurfaceAssumption DEF Client
  <2>3. LET st == [pending[s] EXCEPT !.time = t]
        IN  st \in State /\ st.buffer = pending[s].buffer /\ st.dirty = pending[s].dirty
    BY <1>3, <2>2 DEF State
  <2> QED
    BY <1>2, <1>6, <2>3 DEF SetCommitTime
<1> QED
  BY <1>1, <1>4, <1>5, <1>6

LEMMA StillMoves ==
  ASSUME NEW d \in Surfaces, UNCHANGED <<pending, queueVars, bufferVars, queued, done, made>>
  PROVE  Moves(d)
<1>1. Stays(d)
  BY DEF Stays, Queue, Store, Answers, queueVars, bufferVars
<1> QED
  BY <1>1 DEF Moves

LEMMA PresentMoves ==
  ASSUME TypeOK, NEW s \in Surfaces, Present(s), NEW d \in Surfaces
  PROVE  Moves(d)
<1> USE DEF Present, DropBarrier, queueVars, bufferVars, Queue, Store, Answers
<1>1. d = s => IsPresented(d)
  BY DEF IsPresented, TypeOK
<1>2. d # s => Stays(d)
  BY DEF Stays, TypeOK
<1> QED
  BY <1>1, <1>2 DEF Moves

LEMMA DestroySurfaceMoves ==
  ASSUME TypeOK, NEW s \in Surfaces, DestroySurface(s), NEW d \in Surfaces
  PROVE  Moves(d)
<1>1. d = s => IsReplaced(d)
  BY DEF DestroySurface, IsReplaced, TypeOK
<1>2. d # s => Stays(d)
  BY DEF DestroySurface, Stays, Queue, Store, Answers, TypeOK
<1> QED
  BY <1>1, <1>2 DEF Moves

\* Every step is one of the moves above for each surface.
LEMMA StepMoves ==
  ASSUME TypeOK, [Next]_vars, NEW d \in Surfaces
  PROVE  Moves(d)
<1>1. CASE UNCHANGED vars
  BY <1>1, StillMoves DEF vars, showVars
<1>2. CASE TimePasses
  BY <1>2, StillMoves DEF TimePasses, showVars
<1>3. ASSUME NEW s \in Surfaces, ClientStep(s)
      PROVE  Moves(d)
  <2>1. CASE Commit(s)
    BY <2>1, CommitMoves
  <2>2. ASSUME NEW p, SubAttach(s, p)
        PROVE  Moves(d)
    BY <2>2, StillMoves DEF SubAttach, showVars
  <2>3. CASE SubDetach(s) \/ \E sync \in BOOLEAN : SubSetSync(s, sync)
    BY <2>3, ReleaseMoves
  <2>4. CASE \E b \in Buffers : DestroyBuffer(s, b) \/ CreateBuffer(s, b)
    BY <2>4, BufferLifeMoves
  <2> QED
    BY <1>3, <2>1, <2>2, <2>3, <2>4, PendingMoves DEF ClientStep
<1>4. ASSUME NEW s \in Surfaces, CompositorStep(s)
      PROVE  Moves(d)
  <2>1. CASE ClearBarrier(s)
    BY <2>1, StillMoves DEF ClearBarrier, DropBarrier
  <2>2. CASE DrainEnd(s)
    BY <2>2, StillMoves DEF DrainEnd, showVars
  <2>3. CASE HoldBuffer(s, current[s])
    <3>1. current[s] \in Buffers
      BY <2>3 DEF HoldBuffer, Holdable, TypeOK
    <3> QED
      BY <2>3, <3>1, BufferLifeMoves
  <2>4. CASE \E b \in Buffers : UnholdBuffer(s, b)
    BY <2>4, BufferLifeMoves
  <2> QED
    BY <1>4, <2>1, <2>2, <2>3, <2>4, PresentMoves, ReleaseMoves DEF CompositorStep
<1>5. ASSUME NEW s \in Surfaces, NEW limit, ReleaseDeferred(s, limit)
      PROVE  Moves(d)
  BY <1>5, StillMoves DEF ReleaseDeferred, showVars
<1>6. ASSUME NEW s \in Surfaces, \E t \in 1..client.time : SetCommitTime(s, t)
      PROVE  Moves(d)
  BY <1>6, PendingMoves
<1>7. ASSUME NEW s \in Surfaces, DestroySurface(s)
      PROVE  Moves(d)
  BY <1>7, DestroySurfaceMoves
<1> QED
  BY <1>1, <1>2, <1>3, <1>4, <1>5, <1>6, <1>7, ClientSurfaces DEF Next

-----------------------------------------------------------------------------
(* A state without an attach names no buffer *)

Clean(st) == ~st.dirty => st.buffer = NoBuffer

CleanAt(d) ==
    /\ Clean(pending[d])
    /\ Clean(cached[d])
    /\ \A i \in DOMAIN deferred[d] : Clean(deferred[d][i])
    /\ ~hasCached[d] => cached[d] = EmptyState

SlotsClean == \A d \in Surfaces : CleanAt(d)

LEMMA CleanOperators ==
  /\ Clean(EmptyState)
  /\ \A into, from \in State : Clean(into) /\ Clean(from) => Clean(Merge(into, from))
  /\ \A st \in State : \A b : Clean(st) => Clean(Forget(st, b))
  BY DEF Clean, EmptyState, State, Merge, Forget

LEMMA NextStateClean ==
  ASSUME TypeOK, NEW d \in Surfaces, Clean(pending[d])
  PROVE  /\ Clean(NextState(d))
         /\ NextState(d).buffer = pending[d].buffer
         /\ NextState(d).dirty = pending[d].dirty
         /\ NextState(d).commits = {made[d] + 1}
<1>1. pending[d] \in State
  BY DEF TypeOK
<1> QED
  BY <1>1 DEF Clean, NextState, State

\* The queue after Append, Folded and Tail, entry by entry.
LEMMA AppendAt ==
  ASSUME NEW queue \in Seq(State), NEW st \in State
  PROVE  LET q == Append(queue, st)
             n == Len(queue) + 1
         IN  /\ n \notin DOMAIN queue
             /\ DOMAIN q = DOMAIN queue \cup {n}
             /\ q[n] = st
             /\ \A i \in DOMAIN queue : q[i] = queue[i] /\ i < n
  OBVIOUS

LEMMA FoldedAt ==
  ASSUME NEW queue \in Seq(State), Len(queue) \in Nat \ {0}, NEW st \in State
  PROVE  LET q == Folded(queue, st)
             n == Len(queue)
         IN  /\ n \in DOMAIN queue
             /\ DOMAIN q = DOMAIN queue
             /\ q[n] = Merge(queue[n], st)
             /\ Newest(queue) = queue[n]
             /\ \A i \in DOMAIN queue \ {n} : q[i] = queue[i] /\ i < n
  BY DEF Folded, Newest

LEMMA TailAt ==
  ASSUME NEW queue \in Seq(State), queue # <<>>
  PROVE  /\ 1 \in DOMAIN queue
         /\ Head(queue) = queue[1]
         /\ \A i \in DOMAIN Tail(queue) :
               /\ i \in Nat
               /\ i + 1 \in DOMAIN queue \ {1}
               /\ 1 < i + 1
               /\ Tail(queue)[i] = queue[i + 1]
         /\ \A i \in DOMAIN queue \ {1} : i - 1 \in DOMAIN Tail(queue) /\ i = (i - 1) + 1
  OBVIOUS

LEMMA CleanMoves ==
  ASSUME TypeOK, NEW d \in Surfaces, CleanAt(d), Moves(d)
  PROVE  CleanAt(d)'
<1> USE DEF Queue
<1>0. /\ pending[d] \in State
      /\ cached[d] \in State
      /\ deferred[d] \in Seq(State)
      /\ \A i \in DOMAIN deferred[d] : deferred[d][i] \in State
  BY DEF TypeOK
<1>1. CASE Stays(d)
  BY <1>1 DEF Stays, CleanAt, Clean
<1>2. CASE Attaches(d)
  <2>1. PICK b : pending'[d] = [pending[d] EXCEPT !.buffer = b, !.dirty = TRUE]
    BY <1>2 DEF Attaches
  <2>2. pending'[d].dirty
    BY <1>0, <2>1 DEF State
  <2> QED
    BY <1>2, <2>2 DEF Attaches, CleanAt, Clean
<1>3. CASE Caches(d)
  <2>1. Clean(NextState(d)) /\ NextState(d) \in State
    BY <1>3, NextStateClean DEF CleanAt, Caches, Waits, Requests
  <2>2. Clean(cached'[d])
    BY <1>0, <1>3, <2>1, CleanOperators DEF CleanAt, Caches
  <2> QED
    BY <1>3, <2>2, CleanOperators DEF CleanAt, Caches, Waits, Requests
<1>4. CASE Parks(d)
  <2>1. Clean(NextState(d)) /\ NextState(d) \in State
    BY <1>4, NextStateClean DEF CleanAt, Parks, Waits, Requests
  <2>2. \A i \in DOMAIN deferred'[d] : Clean(deferred'[d][i])
    BY <1>0, <1>4, <2>1, AppendAt DEF CleanAt, Parks
  <2> QED
    BY <1>4, <2>2, CleanOperators DEF CleanAt, Parks, Waits, Requests
<1>5. CASE Folds(d)
  <2>1. Clean(NextState(d)) /\ NextState(d) \in State
    BY <1>5, NextStateClean DEF CleanAt, Folds, Waits, Requests
  <2>2. \A i \in DOMAIN deferred'[d] : Clean(deferred'[d][i])
    <3>1. deferred'[d] = Folded(deferred[d], NextState(d)) /\ Len(deferred[d]) \in Nat \ {0}
      BY <1>5 DEF Folds
    <3> QED
      BY <1>0, <2>1, <3>1, FoldedAt, CleanOperators DEF CleanAt
  <2> QED
    BY <1>5, <2>2, CleanOperators DEF CleanAt, Folds, Waits, Requests
<1>6. CASE AppliesNext(d)
  BY <1>6, CleanOperators DEF CleanAt, AppliesNext, Requests, Applies
<1>7. CASE AppliesHead(d)
  <2>1. \A i \in DOMAIN deferred'[d] : Clean(deferred'[d][i])
    BY <1>0, <1>7, TailAt DEF CleanAt, AppliesHead
  <2> QED
    BY <1>7, <2>1 DEF CleanAt, AppliesHead, Applies
<1>8. CASE AppliesCached(d)
  BY <1>8, CleanOperators DEF CleanAt, AppliesCached, Spends
<1>9. CASE IsPresented(d) \/ Holds(d) \/ Unholds(d) \/ \E b \in Buffers : Gains(d, b)
  BY <1>9 DEF CleanAt, IsPresented, Holds, Unholds, Gains
<1>10. ASSUME NEW b \in Buffers, Loses(d, b)
       PROVE  CleanAt(d)'
  <2>1. CASE b \in watched[d]
    <3>1. Clean(pending'[d]) /\ Clean(cached'[d])
      BY <1>0, <1>10, <2>1, CleanOperators DEF CleanAt, Loses
    <3>2. \A i \in DOMAIN deferred'[d] : Clean(deferred'[d][i])
      BY <1>0, <1>10, <2>1, CleanOperators DEF CleanAt, Loses
    <3>3. Forget(EmptyState, b) = EmptyState
      BY <1>10 DEF Forget, EmptyState
    <3>4. ~hasCached'[d] => cached'[d] = EmptyState
      BY <1>10, <2>1, <3>3 DEF CleanAt, Loses
    <3> QED
      BY <3>1, <3>2, <3>4 DEF CleanAt
  <2>2. CASE b \notin watched[d]
    BY <1>10, <2>2 DEF CleanAt, Loses
  <2> QED
    BY <2>1, <2>2
<1>11. CASE IsReplaced(d)
  BY <1>11, CleanOperators DEF CleanAt, IsReplaced
<1> QED
  BY <1>1, <1>2, <1>3, <1>4, <1>5, <1>6, <1>7, <1>8, <1>9, <1>10, <1>11 DEF Moves

LEMMA SlotsCleanHolds == Spec => []SlotsClean
<1>1. Init => SlotsClean
  BY CleanOperators DEF Init, SlotsClean, CleanAt
<1>2. TypeOK /\ SlotsClean /\ [Next]_vars => SlotsClean'
  BY StepMoves, CleanMoves DEF SlotsClean
<1> QED
  BY <1>1, <1>2, TypeCorrect, PTL DEF Spec

-----------------------------------------------------------------------------
(* No release is lost *)

\* The slots from which a later step gives a buffer back.
Returning(d) ==
    {current[d], cached[d].buffer} \cup BuffersIn(deferred[d]) \cup releaseDue[d]

NoLostAt(d) == \A b \in live[d] : owner[d][b] = "server" => b \in Returning(d)

\* A commit request makes the server the owner of the buffer it carries only.
LEMMA NextOwnerAt ==
  ASSUME TypeOK, NEW d \in Surfaces, Clean(pending[d]), NEW b \in Buffers
  PROVE  NextOwner(d)[b] = IF b = NextState(d).buffer THEN "server" ELSE owner[d][b]
<1>1. NextState(d).buffer = pending[d].buffer
  BY NextStateClean
<1>2. owner[d] \in [Buffers -> {"client", "server", "lost"}] /\ NoBuffer \notin Buffers
  BY SurfaceAssumption DEF TypeOK
<1> QED
  BY <1>1, <1>2 DEF NextOwner, Clean

\* When d takes u, the buffer it had is still due or goes back.
LEMMA TookReturns ==
  ASSUME TypeOK, NEW d \in Surfaces, NEW u \in State, NEW own, Took(d, u, own),
         Clean(u),
         NEW b \in Buffers, owner'[d][b] = "server"
  PROVE  /\ own[b] = "server"
         /\ b \in {current[d], u.buffer} \cup releaseDue[d]
               => b \in {current'[d]} \cup releaseDue'[d]
<1>1. own[b] = "server" /\ b \notin ReleasedNow(d, u)
  BY DEF Took, GiveBack
<1>2. b # NoBuffer
  BY SurfaceAssumption
<1>3. b = current[d] => b \in {current'[d]} \cup releaseDue'[d]
  BY <1>1, <1>2 DEF Took, ReleasedNow, Withheld, Replaced
<1>4. b = u.buffer => b = current'[d]
  BY <1>2 DEF Took, Clean, State
<1> QED
  BY <1>1, <1>3, <1>4 DEF Took

LEMMA NoLostMoves ==
  ASSUME TypeOK, NEW d \in Surfaces, CleanAt(d), NoLostAt(d), Moves(d)
  PROVE  NoLostAt(d)'
<1> USE DEF Queue, Store
<1>0. /\ pending[d] \in State
      /\ cached[d] \in State
      /\ deferred[d] \in Seq(State)
      /\ \A i \in DOMAIN deferred[d] : deferred[d][i] \in State
      /\ live[d] \subseteq Buffers
      /\ owner[d] \in [Buffers -> {"client", "server", "lost"}]
      /\ NoBuffer \notin Buffers
  BY SurfaceAssumption DEF TypeOK
<1>1. SUFFICES ASSUME NEW b \in live'[d], owner'[d][b] = "server"
               PROVE  b \in Returning(d)'
  BY DEF NoLostAt
<1>2. CASE Stays(d) \/ Attaches(d) \/ IsPresented(d) \/ Holds(d)
  BY <1>1, <1>2 DEF Stays, Attaches, IsPresented, Holds, NoLostAt, Returning
\* What a request brings is in the slot it goes to.
<1>3. ASSUME Requests(d), live'[d] = live[d]
      PROVE  /\ NextState(d) \in State
             /\ Clean(NextState(d))
             /\ b \in Buffers
             /\ NextOwner(d)[b] = "server" =>
                    b \in Returning(d) \cup {NextState(d).buffer}
  BY <1>0, <1>1, <1>3, NextStateClean, NextOwnerAt
     DEF Requests, CleanAt, NoLostAt
<1>4. CASE Caches(d)
  <2>1. NextOwner(d)[b] = "server" /\ b \notin Superseded(cached[d], NextState(d))
    BY <1>1, <1>3, <1>4 DEF Caches, Waits, GiveBack
  <2>2. b \in {cached[d].buffer, NextState(d).buffer} => b = cached'[d].buffer
    BY <1>0, <1>3, <1>4, <2>1
       DEF Caches, Waits, Merge, Superseded, CleanAt, Clean, State
  <2> QED
    BY <1>3, <1>4, <2>1, <2>2 DEF Caches, Waits, Returning
<1>5. CASE Parks(d)
  <2>1. BuffersIn(deferred[d]) \cup {NextState(d).buffer} \subseteq BuffersIn(deferred'[d])
    BY <1>0, <1>3, <1>5, AppendAt DEF Parks, Waits, BuffersIn
  <2> QED
    BY <1>1, <1>3, <1>5, <2>1 DEF Parks, Waits, Returning
<1>6. CASE Folds(d)
  <2> DEFINE n == Len(deferred[d])
  <2>1. /\ n \in DOMAIN deferred[d]
        /\ DOMAIN deferred'[d] = DOMAIN deferred[d]
        /\ deferred'[d][n] = Merge(deferred[d][n], NextState(d))
        /\ Newest(deferred[d]) = deferred[d][n]
        /\ \A i \in DOMAIN deferred[d] \ {n} : deferred'[d][i] = deferred[d][i]
    BY <1>0, <1>3, <1>6, FoldedAt DEF Folds, Waits
  <2>2. NextOwner(d)[b] = "server" /\ b \notin Superseded(Newest(deferred[d]), NextState(d))
    BY <1>1, <1>3, <1>6 DEF Folds, Waits, GiveBack
  <2> HIDE DEF n
  <2>3. b \in {deferred[d][n].buffer, NextState(d).buffer} => b = deferred'[d][n].buffer
    BY <1>0, <1>3, <1>6, <2>1, <2>2
       DEF Folds, Waits, Merge, Superseded, CleanAt, Clean, State
  <2>4. b \in BuffersIn(deferred[d]) \cup {NextState(d).buffer}
           => b \in BuffersIn(deferred'[d])
    BY <2>1, <2>3 DEF BuffersIn
  <2> QED
    BY <1>3, <1>6, <2>2, <2>4 DEF Folds, Waits, Returning
<1>7. CASE AppliesNext(d)
  <2>1. Requests(d) /\ live'[d] = live[d] /\ Took(d, NextState(d), NextOwner(d))
    BY <1>7 DEF AppliesNext, Applies, Took
  <2>2. /\ NextOwner(d)[b] = "server"
        /\ b \in {current[d], NextState(d).buffer} \cup releaseDue[d]
              => b \in {current'[d]} \cup releaseDue'[d]
    BY <1>1, <1>3, <2>1, TookReturns
  <2> QED
    BY <1>3, <1>7, <2>1, <2>2 DEF AppliesNext, Applies, Returning, BuffersIn
<1>8. CASE AppliesHead(d)
  <2> DEFINE u == Head(deferred[d])
  <2>1. u \in State /\ Clean(u) /\ live'[d] = live[d] /\ Took(d, u, owner[d])
    BY <1>0, <1>8, TailAt DEF AppliesHead, Applies, Took, CleanAt
  <2>2. /\ owner[d][b] = "server"
        /\ b \in {current[d], u.buffer} \cup releaseDue[d]
              => b \in {current'[d]} \cup releaseDue'[d]
    BY <1>0, <1>1, <2>1, TookReturns
  <2>3. BuffersIn(deferred[d]) \subseteq {u.buffer} \cup BuffersIn(deferred'[d])
    BY <1>0, <1>8, TailAt DEF AppliesHead, BuffersIn
  <2> HIDE DEF u
  <2>4. b \in Returning(d)
    BY <1>1, <2>1, <2>2 DEF NoLostAt
  <2> QED
    BY <1>8, <2>2, <2>3, <2>4 DEF AppliesHead, Applies, Returning
<1>9. CASE AppliesCached(d)
  <2>1. Clean(cached[d]) /\ live'[d] = live[d] /\ Took(d, cached[d], owner[d])
    BY <1>9 DEF AppliesCached, Spends, Took, CleanAt
  <2>2. /\ owner[d][b] = "server"
        /\ b \in {current[d], cached[d].buffer} \cup releaseDue[d]
              => b \in {current'[d]} \cup releaseDue'[d]
    BY <1>0, <1>1, <2>1, TookReturns
  <2>3. b \in Returning(d)
    BY <1>1, <2>1, <2>2 DEF NoLostAt
  <2> QED
    BY <1>9, <2>2, <2>3 DEF AppliesCached, Returning
<1>10. CASE Unholds(d)
  BY <1>0, <1>1, <1>10 DEF Unholds, GiveBack, NoLostAt, Returning
<1>11. ASSUME NEW c \in Buffers, Gains(d, c)
       PROVE  b \in Returning(d)'
  <2>1. b # c /\ b \in live[d] /\ owner[d][b] = "server"
    BY <1>0, <1>1, <1>11 DEF Gains
  <2> QED
    BY <1>11, <2>1 DEF Gains, NoLostAt, Returning
<1>12. ASSUME NEW c \in Buffers, Loses(d, c)
       PROVE  b \in Returning(d)'
  <2>1. b # c /\ b \in live[d] /\ owner[d][b] = "server" /\ b # NoBuffer
    BY <1>0, <1>1, <1>12 DEF Loses
  <2>2. b \in Returning(d)
    BY <2>1 DEF NoLostAt
  <2>3. CASE c \in watched[d]
    <3>1. b = cached[d].buffer => b = cached'[d].buffer
      BY <1>12, <2>1, <2>3 DEF Loses, Forget
    <3>2. b \in BuffersIn(deferred[d]) => b \in BuffersIn(deferred'[d])
      BY <1>12, <2>1, <2>3 DEF Loses, Forget, BuffersIn
    <3> QED
      BY <1>12, <2>1, <2>2, <2>3, <3>1, <3>2 DEF Loses, Returning
  <2>4. CASE c \notin watched[d]
    BY <1>12, <2>2, <2>4 DEF Loses, Returning
  <2> QED
    BY <2>3, <2>4
<1>13. CASE IsReplaced(d)
  BY <1>0, <1>1, <1>13 DEF IsReplaced
<1> QED
  BY <1>2, <1>4, <1>5, <1>6, <1>7, <1>8, <1>9, <1>10, <1>11, <1>12, <1>13 DEF Moves

\* A buffer the client committed and has not got back is in a slot from which a
\* later step gives it back, for every client: also one that attaches buffers it
\* has not got back, or destroys them.
THEOREM NoReleaseLost == Spec => []NoLostRelease
<1>1. Init => NoLostRelease
  <2> SUFFICES ASSUME Init, NEW s \in Surfaces, NEW b \in live[s]
               PROVE  owner[s][b] # "server"
    BY DEF NoLostRelease
  <2>1. b \in Buffers
    BY InitType DEF TypeOK
  <2> QED
    BY <2>1 DEF Init
<1>2. TypeOK /\ SlotsClean /\ NoLostRelease /\ [Next]_vars => NoLostRelease'
  <2> SUFFICES ASSUME TypeOK, SlotsClean, NoLostRelease, [Next]_vars, NEW d \in Surfaces
               PROVE  NoLostAt(d)'
    BY DEF NoLostRelease, NoLostAt, Returning
  <2> QED
    BY StepMoves, NoLostMoves DEF SlotsClean, NoLostRelease, NoLostAt, Returning
<1> QED
  BY <1>1, <1>2, TypeCorrect, SlotsCleanHolds, PTL DEF Spec

-----------------------------------------------------------------------------
(* A buffer is given back only when nobody reads it any more *)

\* A client that waits for wl_buffer.release has each buffer in one place: it
\* is its own, or one update that was not applied yet, or the surface's.
BuffersApart(queue) ==
    \A i, j \in DOMAIN queue :
        i # j /\ queue[i].buffer # NoBuffer => queue[i].buffer # queue[j].buffer

ReleaseAt(d) ==
    /\ \A b \in InUse(d) : owner[d][b] = "server"
    /\ pending[d].buffer # NoBuffer => owner[d][pending[d].buffer] = "client"
    /\ cached[d].buffer # NoBuffer =>
           cached[d].buffer \notin {current[d]} \cup held[d] \cup BuffersIn(deferred[d])
    /\ (BuffersIn(deferred[d]) \ {NoBuffer}) \cap ({current[d]} \cup held[d]) = {}
    /\ BuffersApart(deferred[d])
    /\ current[d] \notin releaseDue[d]

ReleaseInv == "reattach" \notin client.uses => \A d \in Surfaces : ReleaseAt(d)

\* A surface that takes an update it alone names.
LEMMA TookSafe ==
  ASSUME TypeOK, NEW d \in Surfaces, NEW u \in State, NEW own, Took(d, u, own),
         releaseDue[d] \subseteq held[d],
         NEW used \in SUBSET Buffers,
         \A b \in used \cup ({current[d], u.buffer} \ {NoBuffer}) \cup held[d] : own[b] = "server",
         u.buffer # NoBuffer => u.buffer \notin {current[d]} \cup held[d] \cup used,
         used \cap ({current[d]} \cup held[d]) = {},
         current[d] \notin releaseDue[d]
  PROVE  /\ \A b \in used \cup ({current'[d]} \ {NoBuffer}) \cup held'[d] :
               owner'[d][b] = "server"
         /\ used \cap ({current'[d]} \cup held'[d]) = {}
         /\ current'[d] \notin releaseDue'[d]
         /\ \A b \in Buffers : own[b] = "client" => owner'[d][b] = "client"
<1>0. /\ current[d] \in Buffers \cup {NoBuffer}
      /\ u.buffer \in Buffers \cup {NoBuffer}
      /\ held[d] \subseteq Buffers
      /\ NoBuffer \notin Buffers
  BY SurfaceAssumption DEF TypeOK, State
<1>1. current'[d] \in {current[d], u.buffer}
  BY DEF Took
<1>2. \A b \in Buffers : owner'[d][b] = IF b \in ReleasedNow(d, u) THEN "client" ELSE own[b]
  BY DEF Took, GiveBack
<1>3. /\ ReleasedNow(d, u) \subseteq {current[d]} \ held[d]
      /\ ReleasedNow(d, u) # {} => current'[d] = u.buffer /\ current[d] # u.buffer
  BY DEF ReleasedNow, Replaced, Took
<1>4. held'[d] = held[d]
  BY DEF Took
<1>5. \A b \in used \cup ({current'[d]} \ {NoBuffer}) \cup held'[d] :
         owner'[d][b] = "server"
  BY <1>0, <1>1, <1>2, <1>3, <1>4
<1>6. used \cap ({current'[d]} \cup held'[d]) = {}
  BY <1>0, <1>1, <1>4
<1>7. current'[d] \notin releaseDue'[d]
  BY <1>0 DEF Took, Withheld, Replaced, State
<1> QED
  BY <1>2, <1>5, <1>6, <1>7

LEMMA SafeMoves ==
  ASSUME TypeOK, NEW d \in Surfaces, CleanAt(d), ReleaseAt(d), Moves(d),
         "reattach" \notin client.uses,
         Slots(d) \subseteq live[d], releaseDue[d] \subseteq held[d]
  PROVE  ReleaseAt(d)'
<1> USE DEF Queue, Store
<1>0. /\ pending[d] \in State
      /\ cached[d] \in State
      /\ deferred[d] \in Seq(State)
      /\ \A i \in DOMAIN deferred[d] : deferred[d][i] \in State
      /\ live[d] \subseteq Buffers
      /\ owner[d] \in [Buffers -> {"client", "server", "lost"}]
      /\ NoBuffer \notin Buffers
      /\ current[d] \in Buffers \cup {NoBuffer}
      /\ held[d] \subseteq Buffers
  BY SurfaceAssumption DEF TypeOK
<1>1. /\ \A i \in DOMAIN deferred[d] : deferred[d][i].buffer \in Buffers \cup {NoBuffer}
      /\ BuffersIn(deferred[d]) \subseteq Buffers \cup {NoBuffer}
      /\ cached[d].buffer \in Buffers \cup {NoBuffer}
      /\ pending[d].buffer \in Buffers \cup {NoBuffer}
  BY <1>0 DEF State, BuffersIn
<1>2. CASE Stays(d) \/ IsPresented(d)
  BY <1>2 DEF Stays, IsPresented, ReleaseAt, InUse
<1>3. CASE Attaches(d)
  <2>1. PICK b \in Attachable(d) : pending'[d] = [pending[d] EXCEPT !.buffer = b, !.dirty = TRUE]
    BY <1>3 DEF Attaches
  <2>2. pending'[d].buffer = b
    BY <1>0, <2>1 DEF State
  <2>3. b # NoBuffer => owner[d][b] = "client"
    BY <2>1 DEF Attachable
  <2> QED
    BY <1>3, <2>2, <2>3 DEF Attaches, ReleaseAt, InUse
\* What a request brings was the client's, and is in no other slot.
<1>4. ASSUME Requests(d)
      PROVE  LET b == NextState(d).buffer
             IN  /\ NextState(d) \in State
                 /\ Clean(NextState(d))
                 /\ b \in Buffers \cup {NoBuffer}
                 /\ b # NoBuffer => b \notin InUse(d)
                 /\ \A c \in Buffers : NextOwner(d)[c] = IF c = b THEN "server" ELSE owner[d][c]
                 /\ NextOwner(d) \in [Buffers -> {"client", "server", "lost"}]
  BY <1>0, <1>1, <1>4, NextStateClean, NextOwnerAt, NextOwnerType
     DEF Requests, CleanAt, ReleaseAt
<1>5. CASE Caches(d)
  <2> DEFINE b == NextState(d).buffer
             c == cached[d].buffer
  <2>1. Requests(d)
    BY <1>5 DEF Caches, Waits
  <2>2. cached'[d].buffer \in {b, c}
    BY <1>5 DEF Caches, Merge
  <2>3. /\ Superseded(cached[d], NextState(d)) \subseteq {c}
        /\ c \in Superseded(cached[d], NextState(d)) => cached'[d].buffer = b /\ b # c
    BY <1>5 DEF Caches, Superseded, Merge
  <2>4. \A e \in Buffers :
           owner'[d][e] = IF e \in Superseded(cached[d], NextState(d)) THEN "client"
                          ELSE IF e = b THEN "server" ELSE owner[d][e]
    BY <1>4, <1>5, <2>1 DEF Caches, GiveBack
  <2>5. /\ UNCHANGED <<current[d], held[d], releaseDue[d], deferred[d]>>
        /\ pending'[d].buffer = NoBuffer
    BY <1>5, EmptyBuffers DEF Caches, Waits, Requests
  <2>6. /\ b \in Buffers \cup {NoBuffer}
        /\ b # NoBuffer => b \notin InUse(d)
    BY <1>4, <2>1
  <2> HIDE DEF b, c
  <2>7. \A e \in InUse(d)' : owner'[d][e] = "server"
    BY <1>0, <1>1, <2>2, <2>3, <2>4, <2>5, <2>6 DEF ReleaseAt, InUse, c
  <2>8. cached'[d].buffer # NoBuffer =>
            cached'[d].buffer \notin {current[d]} \cup held[d] \cup BuffersIn(deferred[d])
    BY <2>2, <2>6 DEF ReleaseAt, InUse, c
  <2> QED
    BY <2>5, <2>7, <2>8 DEF ReleaseAt
<1>6. CASE Parks(d)
  <2> DEFINE b == NextState(d).buffer
             n == Len(deferred[d]) + 1
  <2>1. Requests(d)
    BY <1>6 DEF Parks, Waits
  <2>2. /\ n \notin DOMAIN deferred[d]
        /\ DOMAIN deferred'[d] = DOMAIN deferred[d] \cup {n}
        /\ deferred'[d][n].buffer = b
        /\ \A i \in DOMAIN deferred[d] : deferred'[d][i] = deferred[d][i]
    BY <1>0, <1>4, <1>6, <2>1, AppendAt DEF Parks
  <2>3. /\ UNCHANGED <<current[d], held[d], releaseDue[d], cached[d]>>
        /\ pending'[d].buffer = NoBuffer
        /\ owner'[d] = NextOwner(d)
    BY <1>6, EmptyBuffers DEF Parks, Waits, Requests
  <2>4. /\ b \in Buffers \cup {NoBuffer}
        /\ b # NoBuffer => b \notin InUse(d)
        /\ \A c \in Buffers : owner'[d][c] = IF c = b THEN "server" ELSE owner[d][c]
    BY <1>4, <2>1, <2>3
  <2> HIDE DEF b, n
  <2>5. BuffersIn(deferred'[d]) = BuffersIn(deferred[d]) \cup {b}
    BY <2>2 DEF BuffersIn
  <2>6. BuffersApart(deferred'[d])
    BY <2>2, <2>4 DEF ReleaseAt, BuffersApart, InUse, BuffersIn
  <2>7. \A e \in InUse(d)' : owner'[d][e] = "server"
    BY <1>0, <1>1, <2>3, <2>4, <2>5 DEF ReleaseAt, InUse
  <2> QED
    BY <2>3, <2>4, <2>5, <2>6, <2>7 DEF ReleaseAt, InUse
<1>7. CASE Folds(d)
  <2> DEFINE b == NextState(d).buffer
             n == Len(deferred[d])
             c == deferred[d][n].buffer
             gone == Superseded(Newest(deferred[d]), NextState(d))
  <2>1. Requests(d)
    BY <1>7 DEF Folds, Waits
  <2>2. /\ n \in DOMAIN deferred[d]
        /\ DOMAIN deferred'[d] = DOMAIN deferred[d]
        /\ deferred'[d][n] = Merge(deferred[d][n], NextState(d))
        /\ Newest(deferred[d]) = deferred[d][n]
        /\ \A i \in DOMAIN deferred[d] \ {n} : deferred'[d][i] = deferred[d][i]
    BY <1>0, <1>4, <1>7, <2>1, FoldedAt DEF Folds
  <2>3. deferred'[d][n].buffer \in {b, c}
    BY <2>2 DEF Merge
  <2>4. /\ gone \subseteq {c}
        /\ c \in gone => deferred'[d][n].buffer = b /\ b # c
    BY <2>2 DEF Superseded, Merge
  <2>5. \A e \in Buffers :
           owner'[d][e] = IF e \in gone THEN "client"
                          ELSE IF e = b THEN "server" ELSE owner[d][e]
    BY <1>4, <1>7, <2>1 DEF Folds, GiveBack
  <2>6. /\ UNCHANGED <<current[d], held[d], releaseDue[d], cached[d]>>
        /\ pending'[d].buffer = NoBuffer
    BY <1>7, EmptyBuffers DEF Folds, Waits, Requests
  <2>7. /\ b \in Buffers \cup {NoBuffer}
        /\ b # NoBuffer => b \notin InUse(d)
    BY <1>4, <2>1
  <2>8. c \in BuffersIn(deferred[d])
    BY <2>2 DEF BuffersIn
  <2> HIDE DEF b, n, gone
  <2>9. \A i \in DOMAIN deferred[d] \ {n} : c # NoBuffer => deferred[d][i].buffer # c
    BY <2>2 DEF ReleaseAt, BuffersApart
  <2>10. \A e \in BuffersIn(deferred'[d]) :
             \/ e = deferred'[d][n].buffer
             \/ e \in BuffersIn(deferred[d]) /\ (e # NoBuffer => e # c)
    BY <2>2, <2>9 DEF BuffersIn
  <2> HIDE DEF c
  <2>11. \A e \in BuffersIn(deferred'[d]) \ {NoBuffer} : owner'[d][e] = "server"
    BY <1>0, <1>1, <2>3, <2>4, <2>5, <2>7, <2>8, <2>10 DEF ReleaseAt, InUse
  <2>12. \A e \in ({current[d], cached[d].buffer} \cup held[d]) \ {NoBuffer} :
             e # c /\ owner'[d][e] = "server"
    BY <1>0, <1>1, <2>4, <2>5, <2>7, <2>8 DEF ReleaseAt, InUse
  <2>13. BuffersIn(deferred'[d]) \subseteq BuffersIn(deferred[d]) \cup {b}
    BY <2>3, <2>8, <2>10
  <2>14. BuffersApart(deferred'[d])
    BY <2>2, <2>3, <2>7, <2>9 DEF ReleaseAt, BuffersApart, InUse, BuffersIn, c
  <2> QED
    BY <2>6, <2>7, <2>11, <2>12, <2>13, <2>14 DEF ReleaseAt, InUse
<1>8. CASE AppliesNext(d)
  <2> DEFINE u == NextState(d)
             own == NextOwner(d)
             used == {cached[d].buffer} \ {NoBuffer}
  <2>1. Requests(d) /\ deferred[d] = <<>> /\ deferred'[d] = <<>> /\ Applies(d, u, own)
    BY <1>8 DEF AppliesNext
  <2>2. /\ u \in State
        /\ u.buffer \in Buffers \cup {NoBuffer}
        /\ u.buffer # NoBuffer => u.buffer \notin InUse(d)
        /\ \A c \in Buffers : own[c] = IF c = u.buffer THEN "server" ELSE owner[d][c]
    BY <1>4, <2>1
  <2>3. /\ cached'[d] = cached[d] /\ held'[d] = held[d]
        /\ pending'[d].buffer = NoBuffer
        /\ Took(d, u, own)
        /\ BuffersIn(deferred'[d]) = {}
    BY <2>1, EmptyBuffers DEF Applies, Requests, Took
  <2> HIDE DEF u, own
  <2>4. /\ used \in SUBSET Buffers
        /\ \A b \in used \cup ({current[d], u.buffer} \ {NoBuffer}) \cup held[d] :
              own[b] = "server"
        /\ u.buffer # NoBuffer => u.buffer \notin {current[d]} \cup held[d] \cup used
        /\ used \cap ({current[d]} \cup held[d]) = {}
        /\ current[d] \notin releaseDue[d]
    BY <1>0, <1>1, <2>2 DEF ReleaseAt, InUse
  <2> HIDE DEF used
  <2>5. /\ \A b \in used \cup ({current'[d]} \ {NoBuffer}) \cup held'[d] :
              owner'[d][b] = "server"
        /\ used \cap ({current'[d]} \cup held'[d]) = {}
        /\ current'[d] \notin releaseDue'[d]
    BY <2>2, <2>3, <2>4, TookSafe
  <2> QED
    BY <2>1, <2>3, <2>5 DEF ReleaseAt, InUse, used, BuffersApart
<1>9. CASE AppliesHead(d)
  <2> DEFINE u == Head(deferred[d])
             used == ({cached[d].buffer} \cup BuffersIn(Tail(deferred[d]))) \ {NoBuffer}
  <2>1. /\ deferred'[d] = Tail(deferred[d])
        /\ pending'[d] = pending[d] /\ cached'[d] = cached[d]
        /\ Took(d, u, owner[d])
        /\ deferred[d] # <<>>
    BY <1>9 DEF AppliesHead, Applies
  <2>2. /\ u \in State
        /\ u.buffer \in BuffersIn(deferred[d])
        /\ BuffersIn(Tail(deferred[d])) \subseteq BuffersIn(deferred[d])
        /\ u.buffer # NoBuffer => u.buffer \notin BuffersIn(Tail(deferred[d]))
    <3>1. 1 \in DOMAIN deferred[d] /\ u = deferred[d][1]
      BY <1>0, <2>1, TailAt
    <3>2. \A i \in DOMAIN Tail(deferred[d]) :
             i + 1 \in DOMAIN deferred[d] \ {1} /\ Tail(deferred[d])[i] = deferred[d][i + 1]
      BY <1>0, <2>1, TailAt
    <3> HIDE DEF u
    <3> QED
      BY <1>0, <3>1, <3>2 DEF ReleaseAt, BuffersApart, BuffersIn
  <2>3. BuffersApart(Tail(deferred[d]))
    <3>1. \A i \in DOMAIN Tail(deferred[d]) :
             i \in Nat /\ i + 1 \in DOMAIN deferred[d] /\ Tail(deferred[d])[i] = deferred[d][i + 1]
      BY <1>0, <2>1, TailAt
    <3> QED
      BY <3>1 DEF ReleaseAt, BuffersApart
  <2> HIDE DEF u
  <2>4. /\ used \in SUBSET Buffers
        /\ \A b \in used \cup ({current[d], u.buffer} \ {NoBuffer}) \cup held[d] :
              owner[d][b] = "server"
        /\ u.buffer # NoBuffer => u.buffer \notin {current[d]} \cup held[d] \cup used
        /\ used \cap ({current[d]} \cup held[d]) = {}
        /\ current[d] \notin releaseDue[d]
    BY <1>0, <1>1, <2>2 DEF ReleaseAt, InUse
  <2> HIDE DEF used
  <2>5. /\ \A b \in used \cup ({current'[d]} \ {NoBuffer}) \cup held'[d] :
              owner'[d][b] = "server"
        /\ used \cap ({current'[d]} \cup held'[d]) = {}
        /\ current'[d] \notin releaseDue'[d]
        /\ \A b \in Buffers : owner[d][b] = "client" => owner'[d][b] = "client"
    BY <1>0, <2>1, <2>2, <2>4, TookSafe
  <2>6. pending'[d].buffer # NoBuffer => owner'[d][pending'[d].buffer] = "client"
    BY <1>1, <2>1, <2>5 DEF ReleaseAt
  <2>7. held'[d] = held[d] /\ NoBuffer \notin held[d]
    BY <1>0, <2>1 DEF Took
  <2> QED
    BY <2>1, <2>2, <2>3, <2>5, <2>6, <2>7 DEF ReleaseAt, InUse, used
<1>10. CASE AppliesCached(d)
  <2> DEFINE u == cached[d]
             used == BuffersIn(deferred[d]) \ {NoBuffer}
  <2>1. /\ deferred'[d] = deferred[d]
        /\ pending'[d] = pending[d] /\ cached'[d].buffer = NoBuffer
        /\ Took(d, u, owner[d])
    BY <1>10, EmptyBuffers DEF AppliesCached, Spends
  <2>2. /\ used \in SUBSET Buffers
        /\ \A b \in used \cup ({current[d], u.buffer} \ {NoBuffer}) \cup held[d] :
              owner[d][b] = "server"
        /\ u.buffer # NoBuffer => u.buffer \notin {current[d]} \cup held[d] \cup used
        /\ used \cap ({current[d]} \cup held[d]) = {}
        /\ current[d] \notin releaseDue[d]
    BY <1>0, <1>1 DEF ReleaseAt, InUse
  <2> HIDE DEF used
  <2>3. /\ \A b \in used \cup ({current'[d]} \ {NoBuffer}) \cup held'[d] :
              owner'[d][b] = "server"
        /\ used \cap ({current'[d]} \cup held'[d]) = {}
        /\ current'[d] \notin releaseDue'[d]
        /\ \A b \in Buffers : owner[d][b] = "client" => owner'[d][b] = "client"
    BY <1>0, <2>1, <2>2, TookSafe
  <2>4. pending'[d].buffer # NoBuffer => owner'[d][pending'[d].buffer] = "client"
    BY <1>1, <2>1, <2>3 DEF ReleaseAt
  <2> QED
    BY <2>1, <2>3, <2>4 DEF ReleaseAt, InUse, used
<1>11. CASE Holds(d)
  BY <1>0, <1>1, <1>11 DEF Holds, ReleaseAt, InUse
<1>12. CASE Unholds(d)
  <2>1. PICK b \in held[d] : /\ held'[d] = held[d] \ {b}
                             /\ releaseDue'[d] = releaseDue[d] \ {b}
                             /\ owner'[d] = GiveBack(owner[d], {b} \cap releaseDue[d])
    BY <1>12 DEF Unholds
  <2>2. UNCHANGED <<pending[d], cached[d], deferred[d], current[d]>>
    BY <1>12 DEF Unholds
  <2>3. \A e \in Buffers : owner'[d][e] = IF e = b /\ b \in releaseDue[d] THEN "client"
                                           ELSE owner[d][e]
    BY <2>1 DEF GiveBack
  <2>4. \A e \in InUse(d)' : e \in InUse(d) /\ ~(e = b /\ b \in releaseDue[d])
    BY <2>1, <2>2 DEF ReleaseAt, InUse
  <2>5. \A e \in InUse(d)' : owner'[d][e] = "server"
    BY <1>0, <1>1, <2>3, <2>4 DEF ReleaseAt, InUse
  <2>6. pending'[d].buffer # NoBuffer => owner'[d][pending'[d].buffer] = "client"
    BY <1>1, <2>2, <2>3 DEF ReleaseAt
  <2> QED
    BY <2>1, <2>2, <2>5, <2>6 DEF ReleaseAt
<1>13. ASSUME NEW b \in Buffers, Gains(d, b)
       PROVE  ReleaseAt(d)'
  <2>1. b \notin InUse(d) /\ b # pending[d].buffer
    BY <1>0, <1>13 DEF Gains, Slots, Named, InUse
  <2>2. \A e \in Buffers : owner'[d][e] = IF e = b THEN "client" ELSE owner[d][e]
    BY <1>0, <1>13 DEF Gains
  <2> QED
    BY <1>0, <1>1, <1>13, <2>1, <2>2 DEF Gains, ReleaseAt, InUse
<1>14. ASSUME NEW b \in Buffers, Loses(d, b)
       PROVE  ReleaseAt(d)'
  <2>1. CASE b \in watched[d]
    <3>1. /\ pending'[d].buffer \in ({pending[d].buffer} \ {b}) \cup {NoBuffer}
          /\ cached'[d].buffer \in ({cached[d].buffer} \ {b}) \cup {NoBuffer}
      BY <1>0, <1>14, <2>1, ForgetBuffer DEF Loses
    <3>2. /\ DOMAIN deferred'[d] = DOMAIN deferred[d]
          /\ \A i \in DOMAIN deferred[d] :
                deferred'[d][i].buffer \in ({deferred[d][i].buffer} \ {b}) \cup {NoBuffer}
      BY <1>0, <1>14, <2>1, ForgetBuffer DEF Loses
    <3>3. /\ current'[d] \in ({current[d]} \ {b}) \cup {NoBuffer}
          /\ held'[d] \subseteq held[d] /\ releaseDue'[d] = releaseDue[d] \ {b}
          /\ owner'[d] = owner[d]
      BY <1>14, <2>1 DEF Loses
    <3>4. BuffersIn(deferred'[d]) \subseteq BuffersIn(deferred[d]) \cup {NoBuffer}
      BY <3>2 DEF BuffersIn
    <3>5. BuffersApart(deferred'[d])
      BY <3>2 DEF ReleaseAt, BuffersApart
    <3>6. \A e \in InUse(d)' : e \in InUse(d)
      BY <3>1, <3>3, <3>4 DEF InUse
    <3>7. NoBuffer \notin releaseDue[d] /\ NoBuffer \notin held[d]
      BY <1>0
    <3> QED
      BY <3>1, <3>3, <3>4, <3>5, <3>6, <3>7 DEF ReleaseAt
  <2>2. CASE b \notin watched[d]
    BY <1>14, <2>2 DEF Loses, ReleaseAt, InUse
  <2> QED
    BY <2>1, <2>2
<1>15. CASE IsReplaced(d)
  BY <1>15, EmptyBuffers DEF IsReplaced, ReleaseAt, InUse, BuffersApart
<1> QED
  BY <1>2, <1>3, <1>5, <1>6, <1>7, <1>8, <1>9, <1>10, <1>11, <1>12, <1>13, <1>14, <1>15
     DEF Moves

\* Which client is connected never changes.
LEMMA SameClient ==
  ASSUME [Next]_vars
  PROVE  client' = client
<1> USE DEF worldVars
<1>1. ASSUME NEW s, ClientStep(s)
      PROVE  client' = client
  BY <1>1 DEF ClientStep, Attach, SetBarrier, SetWait, SetGate, Commit, CommitCached,
              CommitParked, CommitFolded, CommitDirect, CommitRequest, DestroyBuffer,
              CreateBuffer, SubAttach, SubDetach, SubSetSync
<1>2. ASSUME NEW s, CompositorStep(s)
      PROVE  client' = client
  BY <1>2 DEF CompositorStep, Present, ClearBarrier, DropBarrier, DrainStep, DrainEnd,
              HoldBuffer, UnholdBuffer
<1> QED
  BY <1>1, <1>2 DEF Next, vars, TimePasses, DestroySurface, SetCommitTime, SetGate,
                    ReleaseDeferred

LEMMA ReleaseInvHolds == Spec => []ReleaseInv
<1>1. Init => ReleaseInv
  BY EmptyBuffers DEF Init, ReleaseInv, ReleaseAt, InUse, BuffersApart
<1>2. TypeOK /\ NoDangling /\ SlotsClean /\ ReleaseInv /\ [Next]_vars => ReleaseInv'
  <2> SUFFICES ASSUME TypeOK, NoDangling, SlotsClean, ReleaseInv, [Next]_vars,
                      "reattach" \notin client'.uses, NEW d \in Surfaces
               PROVE  ReleaseAt(d)'
    BY DEF ReleaseInv
  <2>1. "reattach" \notin client.uses
    BY SameClient
  <2>2. Slots(d) \subseteq live[d] /\ releaseDue[d] \subseteq held[d]
    BY NoDanglingSlots
  <2> QED
    BY <2>1, <2>2, StepMoves, SafeMoves DEF SlotsClean, ReleaseInv
<1> QED
  BY <1>1, <1>2, TypeCorrect, NoDanglingHolds, SlotsCleanHolds, PTL DEF Spec

\* To a client that waits for wl_buffer.release before it attaches again, a buffer
\* never comes back while the server may still read it, whatever the number of
\* surfaces and buffers, and however commits are cached, parked, folded and held.
THEOREM ReleaseIsSafe == Spec => []ReleaseSafe
<1>1. ReleaseInv => ReleaseSafe
  BY DEF ReleaseInv, ReleaseAt, ReleaseSafe
<1> QED
  BY <1>1, ReleaseInvHolds, PTL

-----------------------------------------------------------------------------
(* A frame callback is in one place *)

CommitsIn(queue) == UNION {queue[i].commits : i \in DOMAIN queue}

NumbersApart(queue) ==
    \A i, j \in DOMAIN queue : i # j => queue[i].commits \cap queue[j].commits = {}

\* CallbackOnce without the sequence of slots: the parked numbers, the cached,
\* the queued and the answered ones share none and are all that were requested.
CallbackAt(d) ==
    /\ 1..made[d] = CommitsIn(deferred[d]) \cup cached[d].commits \cup queued[d] \cup done[d]
    /\ CommitsIn(deferred[d]) \cap (cached[d].commits \cup queued[d] \cup done[d]) = {}
    /\ cached[d].commits \cap (queued[d] \cup done[d]) = {}
    /\ queued[d] \cap done[d] = {}
    /\ NumbersApart(deferred[d])

CallbackInv == \A d \in Surfaces : CallbackAt(d)

LEMMA NoCommits ==
  /\ CommitsIn(<<>>) = {}
  /\ NumbersApart(<<>>)
  /\ EmptyState.commits = {}
  BY DEF CommitsIn, NumbersApart, EmptyState

LEMMA CallbackMoves ==
  ASSUME TypeOK, NEW d \in Surfaces, CallbackAt(d), CleanAt(d), Moves(d)
  PROVE  CallbackAt(d)'
<1> USE DEF Queue, Answers
<1>0. /\ deferred[d] \in Seq(State)
      /\ \A i \in DOMAIN deferred[d] : deferred[d][i] \in State
      /\ cached[d] \in State
      /\ made[d] \in Nat
  BY SurfaceAssumption DEF TypeOK
<1>1. CASE Stays(d) \/ Attaches(d) \/ Holds(d) \/ Unholds(d) \/ \E b \in Buffers : Gains(d, b)
  BY <1>1 DEF Stays, Attaches, Holds, Unholds, Gains, CallbackAt
\* The number of a request is new.
<1>2. ASSUME Requests(d)
      PROVE  LET n == made[d] + 1
             IN  /\ NextState(d) \in State
                 /\ NextState(d).commits = {n}
                 /\ 1..made'[d] = 1..made[d] \cup {n}
                 /\ n \notin 1..made[d]
  BY <1>0, <1>2, NextStateClean DEF Requests, CleanAt
<1>3. CASE Caches(d)
  <2>1. cached'[d].commits = cached[d].commits \cup NextState(d).commits
    BY <1>3 DEF Caches, Merge
  <2>2. Requests(d) /\ UNCHANGED <<deferred[d], queued[d], done[d]>>
    BY <1>3 DEF Caches, Waits
  <2> QED
    BY <1>2, <2>1, <2>2 DEF CallbackAt
<1>4. CASE Parks(d)
  <2> DEFINE k == Len(deferred[d]) + 1
  <2>1. Requests(d) /\ UNCHANGED <<cached[d], queued[d], done[d]>>
    BY <1>4 DEF Parks, Waits
  <2>2. /\ k \notin DOMAIN deferred[d]
        /\ DOMAIN deferred'[d] = DOMAIN deferred[d] \cup {k}
        /\ deferred'[d][k].commits = NextState(d).commits
        /\ \A i \in DOMAIN deferred[d] : deferred'[d][i] = deferred[d][i]
    BY <1>0, <1>2, <1>4, <2>1, AppendAt DEF Parks
  <2> HIDE DEF k
  <2>3. CommitsIn(deferred'[d]) = CommitsIn(deferred[d]) \cup NextState(d).commits
    BY <2>2 DEF CommitsIn
  <2>4. NumbersApart(deferred'[d])
    <3>1. \A i \in DOMAIN deferred[d] : deferred[d][i].commits \cap NextState(d).commits = {}
      BY <1>2, <2>1 DEF CallbackAt, CommitsIn
    <3> QED
      BY <2>2, <3>1 DEF NumbersApart, CallbackAt
  <2> QED
    BY <1>2, <2>1, <2>3, <2>4 DEF CallbackAt
<1>5. CASE Folds(d)
  <2> DEFINE k == Len(deferred[d])
  <2>1. Requests(d) /\ UNCHANGED <<cached[d], queued[d], done[d]>>
    BY <1>5 DEF Folds, Waits
  <2>2. /\ k \in DOMAIN deferred[d]
        /\ DOMAIN deferred'[d] = DOMAIN deferred[d]
        /\ deferred'[d][k].commits = deferred[d][k].commits \cup NextState(d).commits
        /\ \A i \in DOMAIN deferred[d] \ {k} : deferred'[d][i] = deferred[d][i]
    <3>1. /\ k \in DOMAIN deferred[d]
          /\ DOMAIN deferred'[d] = DOMAIN deferred[d]
          /\ deferred'[d][k] = Merge(deferred[d][k], NextState(d))
          /\ \A i \in DOMAIN deferred[d] \ {k} : deferred'[d][i] = deferred[d][i]
      BY <1>0, <1>2, <1>5, <2>1, FoldedAt DEF Folds
    <3> QED
      BY <3>1 DEF Merge
  <2> HIDE DEF k
  <2>3. CommitsIn(deferred'[d]) = CommitsIn(deferred[d]) \cup NextState(d).commits
    BY <2>2 DEF CommitsIn
  <2>4. NumbersApart(deferred'[d])
    <3>1. \A i \in DOMAIN deferred[d] : deferred[d][i].commits \cap NextState(d).commits = {}
      BY <1>2, <2>1 DEF CallbackAt, CommitsIn
    <3> QED
      BY <2>2, <3>1 DEF NumbersApart, CallbackAt
  <2> QED
    BY <1>2, <2>1, <2>3, <2>4 DEF CallbackAt
<1>6. CASE AppliesNext(d)
  <2>1. Requests(d) /\ UNCHANGED <<deferred[d], cached[d]>>
    BY <1>6 DEF AppliesNext, Applies
  <2> QED
    BY <1>2, <1>6, <2>1 DEF AppliesNext, Applies, CallbackAt
<1>7. CASE AppliesHead(d)
  <2> DEFINE u == Head(deferred[d])
  <2>1. /\ deferred[d] # <<>> /\ deferred'[d] = Tail(deferred[d])
        /\ UNCHANGED <<made[d], cached[d]>>
    BY <1>7 DEF AppliesHead, Applies
  <2>2. /\ 1 \in DOMAIN deferred[d]
        /\ u = deferred[d][1]
        /\ \A i \in DOMAIN deferred'[d] :
              /\ i \in Nat
              /\ i + 1 \in DOMAIN deferred[d] \ {1}
              /\ deferred'[d][i] = deferred[d][i + 1]
        /\ \A i \in DOMAIN deferred[d] \ {1} :
              i - 1 \in DOMAIN deferred'[d] /\ i = (i - 1) + 1
    BY <1>0, <2>1, TailAt
  <2> HIDE DEF u
  <2>3. \A i \in DOMAIN deferred[d] \ {1} : deferred[d][i] = deferred'[d][i - 1]
    BY <2>2
  <2>4. CommitsIn(deferred[d]) = u.commits \cup CommitsIn(deferred'[d])
    <3>1. CommitsIn(deferred'[d]) \subseteq CommitsIn(deferred[d])
      BY <2>2 DEF CommitsIn
    <3>2. u.commits \subseteq CommitsIn(deferred[d])
      BY <2>2 DEF CommitsIn
    <3>3. ASSUME NEW n \in CommitsIn(deferred[d])
          PROVE  n \in u.commits \cup CommitsIn(deferred'[d])
      <4>1. PICK i \in DOMAIN deferred[d] : n \in deferred[d][i].commits
        BY DEF CommitsIn
      <4>2. CASE i = 1
        BY <2>2, <4>1, <4>2
      <4>3. CASE i # 1
        BY <2>2, <2>3, <4>1, <4>3 DEF CommitsIn
      <4> QED
        BY <4>2, <4>3
    <3> QED
      BY <3>1, <3>2, <3>3
  <2>5. u.commits \cap CommitsIn(deferred'[d]) = {}
    BY <2>2 DEF CommitsIn, CallbackAt, NumbersApart
  <2>6. NumbersApart(deferred'[d])
    BY <2>2 DEF CallbackAt, NumbersApart
  <2>7. Applies(d, u, owner[d])
    BY <1>7 DEF AppliesHead, u
  <2> QED
    BY <2>1, <2>4, <2>5, <2>6, <2>7 DEF Applies, CallbackAt
<1>8. CASE AppliesCached(d)
  BY <1>8, NoCommits DEF AppliesCached, Spends, CallbackAt
<1>9. CASE IsPresented(d)
  BY <1>9 DEF IsPresented, CallbackAt
<1>10. ASSUME NEW b \in Buffers, Loses(d, b)
       PROVE  CallbackAt(d)'
  <2>1. CASE b \in watched[d]
    <3>1. \A st \in State : Forget(st, b).commits = st.commits
      BY DEF Forget, State
    <3>2. cached'[d].commits = cached[d].commits
      BY <1>0, <1>10, <2>1, <3>1 DEF Loses
    <3>3. /\ DOMAIN deferred'[d] = DOMAIN deferred[d]
          /\ \A i \in DOMAIN deferred[d] : deferred'[d][i].commits = deferred[d][i].commits
      BY <1>0, <1>10, <2>1, <3>1 DEF Loses
    <3>4. CommitsIn(deferred'[d]) = CommitsIn(deferred[d]) /\ NumbersApart(deferred'[d])
      BY <3>3 DEF CommitsIn, CallbackAt, NumbersApart
    <3> QED
      BY <1>10, <3>2, <3>4 DEF Loses, CallbackAt
  <2>2. CASE b \notin watched[d]
    BY <1>10, <2>2 DEF Loses, CallbackAt
  <2> QED
    BY <2>1, <2>2
<1>11. CASE IsReplaced(d)
  BY <1>11, NoCommits DEF IsReplaced, CallbackAt
<1> QED
  BY <1>1, <1>3, <1>4, <1>5, <1>6, <1>7, <1>8, <1>9, <1>10, <1>11 DEF Moves

LEMMA CallbackInvHolds == Spec => []CallbackInv
<1>1. Init => CallbackInv
  BY NoCommits DEF Init, CallbackInv, CallbackAt
<1>2. TypeOK /\ SlotsClean /\ CallbackInv /\ [Next]_vars => CallbackInv'
  BY StepMoves, CallbackMoves DEF SlotsClean, CallbackInv
<1> QED
  BY <1>1, <1>2, TypeCorrect, SlotsCleanHolds, PTL DEF Spec

\* Each commit's frame callback is in exactly one place, from the commit to the
\* answer, whatever is parked, folded, cached, presented or destroyed meanwhile.
THEOREM CallbackIsOnce == Spec => []CallbackOnce
<1>1. TypeOK /\ CallbackInv => CallbackOnce
  <2> SUFFICES ASSUME TypeOK, CallbackInv, NEW s \in Surfaces
               PROVE  LET slots == [i \in DOMAIN deferred[s] |-> deferred[s][i].commits]
                                   \o <<cached[s].commits, queued[s], done[s]>>
                      IN /\ 1..made[s] = UNION {slots[i] : i \in DOMAIN slots}
                         /\ \A i, j \in DOMAIN slots : i # j => slots[i] \cap slots[j] = {}
    BY DEF CallbackOnce
  <2> DEFINE parked == [i \in DOMAIN deferred[s] |-> deferred[s][i].commits]
             rest == <<cached[s].commits, queued[s], done[s]>>
             slots == parked \o rest
             n == Len(deferred[s])
  <2>1. deferred[s] \in Seq(State) /\ n \in Nat /\ DOMAIN deferred[s] = 1..n
    BY DEF TypeOK
  <2>2. parked \in Seq(SUBSET Numbers) /\ Len(parked) = n
    <3>1. \A i \in 1..n : deferred[s][i].commits \in SUBSET Numbers
      <4>1. \A i \in 1..n : deferred[s][i] \in State
        BY <2>1
      <4> QED
        BY <4>1 DEF State
    <3>2. parked \in [1..n -> SUBSET Numbers]
      BY <2>1, <3>1
    <3> QED
      BY <2>1, <3>2
  <2>3. rest \in Seq(SUBSET Numbers) /\ Len(rest) = 3
    BY SMTT(30) DEF TypeOK, State
  <2>4. /\ DOMAIN slots = 1..(n + 3)
        /\ \A i \in 1..n : slots[i] = deferred[s][i].commits
        /\ slots[n + 1] = cached[s].commits
        /\ slots[n + 2] = queued[s]
        /\ slots[n + 3] = done[s]
    BY SMTT(30), <2>1, <2>2, <2>3
  <2> HIDE DEF slots, n
  <2>5. 1..(n + 3) = 1..n \cup {n + 1, n + 2, n + 3}
    BY <2>1
  <2>6. CallbackAt(s)
    BY DEF CallbackInv
  <2>7. UNION {slots[i] : i \in DOMAIN slots}
           = CommitsIn(deferred[s]) \cup cached[s].commits \cup queued[s] \cup done[s]
    BY <2>1, <2>4, <2>5 DEF CommitsIn
  <2>8. ASSUME NEW i \in 1..(n + 3), NEW j \in 1..(n + 3), i # j
        PROVE  slots[i] \cap slots[j] = {}
    <3>1. \A k \in 1..n : slots[k] \subseteq CommitsIn(deferred[s])
      BY <2>1, <2>4 DEF CommitsIn
    <3>2. i \in 1..n /\ j \in 1..n => slots[i] \cap slots[j] = {}
      BY <2>1, <2>4, <2>6, <2>8 DEF CallbackAt, NumbersApart
    <3> QED
      BY <2>4, <2>5, <2>6, <2>8, <3>1, <3>2 DEF CallbackAt
  <2> QED
    BY <2>4, <2>6, <2>7, <2>8 DEF CallbackAt, slots
<1> QED
  BY <1>1, CallbackInvHolds, TypeCorrect, PTL

-----------------------------------------------------------------------------
(* The subsurface tree *)

\* Only these four change the tree; the other steps leave cached state only where
\* there was some or where a commit of a synchronized subsurface puts it.
TreeStill ==
    /\ UNCHANGED treeVars
    /\ \A d \in Surfaces :
          hasCached'[d] => hasCached[d] \/ EffectiveSync(d, parent, subSync)

LEMMA ApplyUpdateCaches ==
  ASSUME NEW s, NEW st, NEW spent, NEW own, NEW shown,
         ApplyUpdate(s, st, spent, own, shown), NEW d \in Surfaces
  PROVE  hasCached'[d] <=> hasCached[d] /\ d \notin spent
  BY DEF ApplyUpdate

LEMMA TreeSteps ==
  ASSUME TypeOK, [Next]_vars
  PROVE  \/ TreeStill
         \/ \E s \in Surfaces : \/ \E p \in Surfaces : SubAttach(s, p)
                                \/ SubDetach(s)
                                \/ \E sync \in BOOLEAN : SubSetSync(s, sync)
                                \/ DestroySurface(s)
<1> USE DEF queueVars
<1>1. ASSUME UNCHANGED treeVars, hasCached' = hasCached
      PROVE  TreeStill
  BY <1>1 DEF TreeStill
<1>2. CASE UNCHANGED vars \/ TimePasses
  BY <1>1, <1>2 DEF vars, TimePasses
<1>3. ASSUME NEW s \in Surfaces, Commit(s)
      PROVE  TreeStill
  <2>1. UNCHANGED treeVars
    BY <1>3 DEF Commit, CommitCached, CommitParked, CommitFolded, CommitDirect, CommitRequest
  <2>2. CASE CommitCached(s)
    BY <2>1, <2>2 DEF CommitCached, TreeStill, TypeOK
  <2>3. CASE CommitParked(s) \/ CommitFolded(s)
    BY <1>1, <2>1, <2>3 DEF CommitParked, CommitFolded
  <2>4. CASE CommitDirect(s)
    BY <2>1, <2>4, ApplyUpdateCaches DEF CommitDirect, TreeStill
  <2> QED
    BY <1>3, <2>2, <2>3, <2>4 DEF Commit
<1>4. ASSUME NEW s \in Surfaces, CompositorStep(s)
      PROVE  TreeStill
  <2>1. CASE DrainStep(s)
    BY <2>1, ApplyUpdateCaches DEF DrainStep, TreeStill
  <2>2. CASE ~DrainStep(s)
    BY <1>1, <1>4, <2>2 DEF CompositorStep, Present, ClearBarrier, DropBarrier, DrainEnd,
                            HoldBuffer, UnholdBuffer
  <2> QED
    BY <2>1, <2>2
<1>5. ASSUME NEW s \in Surfaces,
             \/ \E b \in Buffers \cup {NoBuffer} : Attach(s, b)
             \/ SetBarrier(s) \/ SetWait(s)
             \/ \E t \in 1..client.time : SetCommitTime(s, t)
             \/ \E limit \in {now, client.time} : ReleaseDeferred(s, limit)
             \/ \E b \in Buffers : DestroyBuffer(s, b) \/ CreateBuffer(s, b)
      PROVE  TreeStill
  BY <1>1, <1>5 DEF Attach, SetBarrier, SetWait, SetCommitTime, SetGate, ReleaseDeferred,
                    DestroyBuffer, CreateBuffer
<1> QED
  BY <1>2, <1>3, <1>4, <1>5, ClientSurfaces DEF Next, ClientStep

\* The steps of the tree, seen from one surface.
LEMMA ReleaseCachedAt ==
  ASSUME TypeOK, NEW s \in Surfaces, NEW free, ReleaseCached(s, free), NEW d \in Surfaces
  PROVE  /\ hasCached'[d] => hasCached[d]
         /\ free => ~hasCached'[s]
         /\ free /\ hasCached[s] /\ d \in Waiting(s) => ~hasCached'[d]
<1>1. CASE free /\ hasCached[s]
  <2>1. ApplyUpdate(s, cached[s], {s} \cup Waiting(s), owner[s], {})
    BY <1>1 DEF ReleaseCached
  <2>2. /\ hasCached'[d] <=> hasCached[d] /\ d \notin {s} \cup Waiting(s)
        /\ hasCached'[s] <=> hasCached[s] /\ s \notin {s} \cup Waiting(s)
    BY <2>1, ApplyUpdateCaches
  <2> QED
    BY <2>2
<1>2. CASE ~(free /\ hasCached[s])
  BY <1>2 DEF ReleaseCached
<1> QED
  BY <1>1, <1>2

\* Cached state is never left where the commit of no parent can apply it, unless
\* the client destroys a surface that has subsurfaces.
LEMMA CachedHasParentStep == TypeOK /\ CachedHasParent /\ [Next]_vars => CachedHasParent'
<1> SUFFICES ASSUME TypeOK, CachedHasParent, [Next]_vars,
                    "orphan" \notin client'.uses, NEW d \in Surfaces, hasCached'[d]
             PROVE  parent'[d] # NoSurface
  BY DEF CachedHasParent
<1>1. "orphan" \notin client.uses /\ \A c \in Surfaces : hasCached[c] => parent[c] # NoSurface
  BY SameClient DEF CachedHasParent
<1>2. CASE TreeStill
  <2>1. parent' = parent /\ (hasCached[d] \/ EffectiveSync(d, parent, subSync))
    BY <1>2 DEF TreeStill, treeVars
  <2>2. parent[d] = NoSurface => ~EffectiveSync(d, parent, subSync)
    BY RootIsFree DEF TypeOK
  <2> QED
    BY <1>1, <2>1, <2>2
<1>3. ASSUME NEW s \in Surfaces, NEW p \in Surfaces, SubAttach(s, p)
      PROVE  parent'[d] # NoSurface
  BY <1>1, <1>3, SurfaceAssumption DEF SubAttach, queueVars, TypeOK
<1>4. ASSUME NEW s \in Surfaces, SubDetach(s)
      PROVE  parent'[d] # NoSurface
  <2>1. /\ hasCached'[d] => hasCached[d]
        /\ parent[s] # NoSurface => ~hasCached'[s]
    BY <1>4, ReleaseCachedAt DEF SubDetach
  <2>2. d # s
    BY <1>1, <2>1
  <2>3. parent'[d] = parent[d]
    BY <1>4, <2>2 DEF SubDetach, TypeOK
  <2> QED
    BY <1>1, <2>1, <2>3
<1>5. ASSUME NEW s \in Surfaces, NEW sync \in BOOLEAN, SubSetSync(s, sync)
      PROVE  parent'[d] # NoSurface
  <2>1. hasCached'[d] => hasCached[d]
    BY <1>5, ReleaseCachedAt DEF SubSetSync
  <2> QED
    BY <1>1, <1>5, <2>1 DEF SubSetSync
<1>6. ASSUME NEW s \in Surfaces, DestroySurface(s)
      PROVE  parent'[d] # NoSurface
  <2>1. Children(s) = {}
    BY <1>1, <1>6 DEF DestroySurface
  <2>2. d # s /\ hasCached[d] /\ parent'[d] = parent[d]
    BY <1>6, <2>1 DEF DestroySurface, Children, TypeOK
  <2> QED
    BY <1>1, <2>2
<1> QED
  BY <1>2, <1>3, <1>4, <1>5, <1>6, TreeSteps

\* For every client that destroys no surface that has subsurfaces, a state is only
\* cached where the commit of a parent can release it.
THEOREM CachedStateHasParent == Spec => []CachedHasParent
<1>1. Init => CachedHasParent
  BY DEF Init, CachedHasParent
<1> QED
  BY <1>1, CachedHasParentStep, TypeCorrect, PTL DEF Spec

\* sub_attach() refuses a loop, and the other requests only cut the tree.
Acyclic ==
    \A s, t \in Surfaces :
        s \in Ancestors(t, parent) /\ t \in Ancestors(s, parent) => s = t

LEMMA FewerAncestors ==
  ASSUME TypeOK, TypeOK', NEW t \in Surfaces,
         \A c \in Surfaces : parent'[c] \in {parent[c], NoSurface}
  PROVE  Ancestors(t, parent') \subseteq Ancestors(t, parent)
<1> DEFINE T == Ancestors(t, parent)
<1>1. /\ T \in SUBSET Surfaces /\ t \in T
      /\ \A c \in T : parent[c] # NoSurface => parent[c] \in T
  BY AncestorsClosed DEF TypeOK
<1>2. parent' \in [Surfaces -> Surfaces \cup {NoSurface}]
  BY DEF TypeOK
<1> HIDE DEF T
<1>3. \A c \in T : parent'[c] # NoSurface => parent'[c] \in T
  BY <1>1
<1>4. Ancestors(t, parent') \subseteq T
  BY <1>1, <1>2, <1>3, AncestorsLeast
<1> QED
  BY <1>4 DEF T

LEMMA AttachedAncestors ==
  ASSUME TypeOK, TypeOK', NEW s \in Surfaces, NEW p \in Surfaces, NEW t \in Surfaces,
         parent' = [parent EXCEPT ![s] = p], s \notin Ancestors(p, parent)
  PROVE  \A a \in Ancestors(t, parent') :
            \/ a \in Ancestors(t, parent)
            \/ s \in Ancestors(t, parent) /\ a \in Ancestors(p, parent)
<1> DEFINE Old == Ancestors(t, parent)
           New == Ancestors(p, parent)
           T == Old \cup (IF s \in Old THEN New ELSE {})
<1>1. /\ Old \subseteq Surfaces /\ t \in Old
      /\ \A c \in Old : parent[c] # NoSurface => parent[c] \in Old
      /\ New \subseteq Surfaces /\ p \in New /\ s \notin New
      /\ \A c \in New : parent[c] # NoSurface => parent[c] \in New
  BY AncestorsClosed DEF TypeOK
<1>2. /\ parent' \in [Surfaces -> Surfaces \cup {NoSurface}]
      /\ \A c \in Surfaces : parent'[c] = IF c = s THEN p ELSE parent[c]
  BY DEF TypeOK
<1> HIDE DEF Old, New
<1>3. /\ T \in SUBSET Surfaces /\ t \in T
      /\ \A c \in T : parent'[c] # NoSurface => parent'[c] \in T
  BY <1>1, <1>2
<1> HIDE DEF T
<1>4. Ancestors(t, parent') \subseteq T
  BY <1>2, <1>3, AncestorsLeast
<1> QED
  BY <1>4 DEF T, Old, New

LEMMA AcyclicStep == TypeOK /\ Acyclic /\ [Next]_vars => Acyclic'
<1> SUFFICES ASSUME TypeOK, Acyclic, [Next]_vars
             PROVE  Acyclic'
  OBVIOUS
<1>0. TypeOK'
  BY TypeStep
<1>1. ASSUME \A c \in Surfaces : parent'[c] \in {parent[c], NoSurface}
      PROVE  Acyclic'
  BY <1>0, <1>1, FewerAncestors DEF Acyclic
<1>2. CASE TreeStill
  BY <1>1, <1>2 DEF TreeStill, treeVars
<1>3. ASSUME NEW s \in Surfaces, NEW p \in Surfaces, SubAttach(s, p)
      PROVE  Acyclic'
  <2>1. parent' = [parent EXCEPT ![s] = p] /\ s \notin Ancestors(p, parent)
    BY <1>3 DEF SubAttach
  <2> SUFFICES ASSUME NEW x \in Surfaces, NEW y \in Surfaces,
                      x \in Ancestors(y, parent'), y \in Ancestors(x, parent')
               PROVE  x = y
    BY DEF Acyclic
  <2>2. /\ \/ x \in Ancestors(y, parent)
           \/ s \in Ancestors(y, parent) /\ x \in Ancestors(p, parent)
        /\ \/ y \in Ancestors(x, parent)
           \/ s \in Ancestors(x, parent) /\ y \in Ancestors(p, parent)
    BY <1>0, <2>1, AttachedAncestors
  <2>3. \A a, b \in Surfaces : a \in Ancestors(b, parent) =>
           Ancestors(a, parent) \subseteq Ancestors(b, parent)
    BY AncestorsTransitive DEF TypeOK
  <2> QED
    BY <2>1, <2>2, <2>3 DEF Acyclic
<1>4. ASSUME NEW s \in Surfaces, SubDetach(s)
      PROVE  Acyclic'
  BY <1>1, <1>4 DEF SubDetach, TypeOK
<1>5. ASSUME NEW s \in Surfaces, NEW sync \in BOOLEAN, SubSetSync(s, sync)
      PROVE  Acyclic'
  BY <1>1, <1>5 DEF SubSetSync
<1>6. ASSUME NEW s \in Surfaces, DestroySurface(s)
      PROVE  Acyclic'
  BY <1>1, <1>6 DEF DestroySurface
<1> QED
  BY <1>2, <1>3, <1>4, <1>5, <1>6, TreeSteps

LEMMA AcyclicHolds == Spec => []Acyclic
<1>1. Init => Acyclic
  <2> SUFFICES ASSUME Init, NEW t \in Surfaces
               PROVE  Ancestors(t, parent) = {t}
    BY DEF Acyclic
  <2>1. parent \in [Surfaces -> Surfaces \cup {NoSurface}] /\ parent[t] = NoSurface
    BY DEF Init
  <2> QED
    BY <2>1, AncestorsOfRoot
<1> QED
  BY <1>1, AcyclicStep, TypeCorrect, PTL DEF Spec

\* commit_state() walks the whole subtree below what it applies.
LEMMA ApplyUpdateSubtree ==
  ASSUME TypeOK, Acyclic, NEW r \in Surfaces, NEW st, NEW spent, NEW own, NEW shown,
         ApplyUpdate(r, st, spent, own, shown),
         Waiting(r) \subseteq spent, shown \subseteq {r},
         NEW s \in Surfaces, NEW d \in Surfaces,
         Applied(s)' \ Applied(s) # {}, d # s, s \in Ancestors(d, parent)
  PROVE  ~hasCached'[d]
<1>1. s \in {r} \cup Waiting(r)
  <2>1. s \notin {r} \cup Waiting(r) => queued'[s] = queued[s] /\ done'[s] = done[s]
    BY DEF ApplyUpdate
  <2> QED
    BY <2>1 DEF Applied
<1>2. r \in Ancestors(d, parent) /\ d # r
  <2>1. CASE s = r
    BY <2>1
  <2>2. CASE s # r
    <3>1. r \in Ancestors(s, parent)
      BY <1>1, <2>2 DEF Waiting
    <3>2. r \in Ancestors(d, parent)
      BY <3>1, AncestorsTransitive DEF TypeOK
    <3> QED
      BY <2>2, <3>1, <3>2 DEF Acyclic
  <2> QED
    BY <2>1, <2>2
<1>3. hasCached[d] => d \in Waiting(r)
  BY <1>2 DEF Waiting
<1> QED
  BY <1>3, ApplyUpdateCaches

\* What other steps do to the applied updates: nothing, or they forget them.
LEMMA AppliedSteps ==
  ASSUME TypeOK, [Next]_vars
  PROVE  \/ \A s \in Surfaces : Applied(s)' \subseteq Applied(s)
         \/ \E r \in Surfaces : \E st, spent, own, shown :
               /\ ApplyUpdate(r, st, spent, own, shown)
               /\ Waiting(r) \subseteq spent
               /\ shown \subseteq {r}
<1> DEFINE Same == \A s \in Surfaces : Applied(s)' \subseteq Applied(s)
           Some == \E r \in Surfaces : \E st, spent, own, shown :
                      /\ ApplyUpdate(r, st, spent, own, shown)
                      /\ Waiting(r) \subseteq spent
                      /\ shown \subseteq {r}
<1> USE DEF showVars
<1>1. ASSUME UNCHANGED <<queued, done>>
      PROVE  Same
  BY <1>1 DEF Applied
<1>2. CASE UNCHANGED vars \/ TimePasses
  BY <1>1, <1>2 DEF vars, TimePasses
<1>3. ASSUME NEW s \in Surfaces, Commit(s)
      PROVE  Same \/ Some
  <2>1. CASE CommitDirect(s)
    <3>1. PICK shown \in {{}, {s}} :
             ApplyUpdate(s, NextState(s), Waiting(s), NextOwner(s), shown)
      BY <2>1 DEF CommitDirect
    <3>2. shown \subseteq {s} /\ Waiting(s) \subseteq Waiting(s)
      OBVIOUS
    <3> QED
      BY <3>1, <3>2
  <2>2. CASE CommitCached(s) \/ CommitParked(s) \/ CommitFolded(s)
    BY <1>1, <2>2 DEF CommitCached, CommitParked, CommitFolded
  <2> QED
    BY <1>3, <2>1, <2>2 DEF Commit
<1>4. ASSUME NEW s \in Surfaces, CompositorStep(s)
      PROVE  Same \/ Some
  <2>1. CASE DrainStep(s)
    <3>1. PICK shown \in {{}, {s}} :
             ApplyUpdate(s, Head(deferred[s]), Waiting(s), owner[s], shown)
      BY <2>1 DEF DrainStep
    <3>2. shown \subseteq {s} /\ Waiting(s) \subseteq Waiting(s)
      OBVIOUS
    <3> QED
      BY <3>1, <3>2
  <2>2. CASE Present(s)
    BY <2>2 DEF Present, Applied, TypeOK
  <2>3. CASE ~DrainStep(s) /\ ~Present(s)
    BY <1>1, <1>4, <2>3 DEF CompositorStep, ClearBarrier, DrainEnd, HoldBuffer, UnholdBuffer
  <2> QED
    BY <2>1, <2>2, <2>3
<1>5. ASSUME NEW s \in Surfaces,
             \/ \E b \in Buffers \cup {NoBuffer} : Attach(s, b)
             \/ SetBarrier(s) \/ SetWait(s)
             \/ \E t \in 1..client.time : SetCommitTime(s, t)
             \/ \E limit \in {now, client.time} : ReleaseDeferred(s, limit)
             \/ \E b \in Buffers : DestroyBuffer(s, b) \/ CreateBuffer(s, b)
             \/ \E p \in Surfaces : SubAttach(s, p)
      PROVE  Same
  BY <1>1, <1>5 DEF Attach, SetBarrier, SetWait, SetCommitTime, SetGate, ReleaseDeferred,
                    DestroyBuffer, CreateBuffer, SubAttach
<1>6. ASSUME NEW s \in Surfaces, NEW free, ReleaseCached(s, free)
      PROVE  Same \/ Some
  <2>1. CASE free /\ hasCached[s]
    <3>1. ApplyUpdate(s, cached[s], {s} \cup Waiting(s), owner[s], {})
      BY <1>6, <2>1 DEF ReleaseCached
    <3>2. {} \subseteq {s} /\ Waiting(s) \subseteq {s} \cup Waiting(s)
      OBVIOUS
    <3> QED
      BY <3>1, <3>2
  <2>2. CASE ~(free /\ hasCached[s])
    BY <1>1, <1>6, <2>2 DEF ReleaseCached
  <2> QED
    BY <2>1, <2>2
<1>7. ASSUME NEW s \in Surfaces, SubDetach(s) \/ \E sync \in BOOLEAN : SubSetSync(s, sync)
      PROVE  Same \/ Some
  BY <1>6, <1>7 DEF SubDetach, SubSetSync
<1>8. ASSUME NEW s \in Surfaces, DestroySurface(s)
      PROVE  Same
  BY <1>8 DEF DestroySurface, Applied, TypeOK
<1> QED
  BY <1>2, <1>3, <1>4, <1>5, <1>7, <1>8, ClientSurfaces DEF Next, ClientStep

\* When an update of a surface takes effect, nothing below it is left waiting, in
\* trees of any depth.
THEOREM SubtreeIsApplied == Spec => ParentAppliesSubtree
<1>1. ASSUME TypeOK, Acyclic, [Next]_vars
      PROVE  \A s, d \in Surfaces :
                /\ Applied(s)' \ Applied(s) # {}
                /\ d # s /\ s \in Ancestors(d, parent)
                => ~hasCached'[d]
  <2>1. CASE \A s \in Surfaces : Applied(s)' \subseteq Applied(s)
    BY <2>1
  <2>2. ASSUME NEW r \in Surfaces, NEW st, NEW spent, NEW own, NEW shown,
               ApplyUpdate(r, st, spent, own, shown),
               Waiting(r) \subseteq spent, shown \subseteq {r}
        PROVE  \A s, d \in Surfaces :
                  /\ Applied(s)' \ Applied(s) # {}
                  /\ d # s /\ s \in Ancestors(d, parent)
                  => ~hasCached'[d]
    BY <1>1, <2>2, ApplyUpdateSubtree
  <2> QED
    BY <1>1, <2>1, <2>2, AppliedSteps
<1> QED
  BY <1>1, TypeCorrect, AcyclicHolds, PTL DEF Spec, ParentAppliesSubtree

\* Cached state is never stranded, and never outlives a commit of a surface above.
THEOREM CachedStateIsApplied == Spec => CachedIsApplied
  BY CachedStateHasParent, SubtreeIsApplied, PTL DEF CachedIsApplied

-----------------------------------------------------------------------------
(* One presentation for each barrier *)

\* A client that makes no subsurface has no tree and nothing cached.
NoTree ==
    "subsurface" \notin client.uses =>
        \A d \in Surfaces : parent[d] = NoSurface /\ ~hasCached[d] /\ roles[d] = 0

LEMMA NoTreeStep == TypeOK /\ NoTree /\ [Next]_vars => NoTree'
<1> SUFFICES ASSUME TypeOK, NoTree, [Next]_vars,
                    "subsurface" \notin client'.uses, NEW d \in Surfaces
             PROVE  parent'[d] = NoSurface /\ ~hasCached'[d] /\ roles'[d] = 0
  BY DEF NoTree
<1>1. /\ "subsurface" \notin client.uses
      /\ \A c \in Surfaces : parent[c] = NoSurface /\ ~hasCached[c] /\ roles[c] = 0
  BY SameClient DEF NoTree
<1>2. CASE TreeStill
  <2>1. ~EffectiveSync(d, parent, subSync)
    BY <1>1, RootIsFree DEF TypeOK
  <2> QED
    BY <1>1, <1>2, <2>1 DEF TreeStill, treeVars
<1>3. \A s, p \in Surfaces : ~SubAttach(s, p)
  BY <1>1 DEF SubAttach
<1>4. \A s \in Surfaces : ~SubDetach(s) /\ \A sync \in BOOLEAN : ~SubSetSync(s, sync)
  BY <1>1 DEF SubDetach, SubSetSync
<1>5. ASSUME NEW s \in Surfaces, DestroySurface(s)
      PROVE  parent'[d] = NoSurface /\ ~hasCached'[d] /\ roles'[d] = 0
  BY <1>1, <1>5 DEF DestroySurface, TypeOK
<1> QED
  BY <1>2, <1>3, <1>4, <1>5, TreeSteps

LEMMA NoTreeHolds == Spec => []NoTree
<1>1. Init => NoTree
  BY DEF Init, NoTree
<1> QED
  BY <1>1, NoTreeStep, TypeCorrect, PTL DEF Spec

LEMMA NothingWaits ==
  ASSUME NoTree, "subsurface" \notin client.uses, NEW s \in Surfaces
  PROVE  Waiting(s) = {}
  BY DEF NoTree, Waiting

\* An update that was paced left its barrier behind.
PacedAt(d) == paced[d] <= 1 /\ (paced[d] # 0 => fifoBarrier[d])

\* An update that is not blocked finds no barrier if it waits for one.
LEMMA ApplyUpdatePaced ==
  ASSUME TypeOK, NEW s \in Surfaces, NEW st \in State, NEW spent, NEW own, NEW shown,
         ApplyUpdate(s, st, spent, own, shown), Waiting(s) = {},
         ~(st.wait /\ fifoBarrier[s]), NEW d \in Surfaces, PacedAt(d)
  PROVE  PacedAt(d)'
<1> DEFINE U == {s} \cup Waiting(s)
           upd == [e \in U |-> IF e = s THEN st ELSE cached[e]]
<1>1. U = {s} /\ (d \in U => upd[d] = st)
  OBVIOUS
<1>2. /\ paced'[d] = IF d \in shown THEN 0
                     ELSE IF d \in U /\ upd[d].wait /\ upd[d].barrier THEN paced[d] + 1
                     ELSE paced[d]
      /\ fifoBarrier'[d] <=> d \notin shown /\ (fifoBarrier[d] \/ (d \in U /\ upd[d].barrier))
  BY DEF ApplyUpdate
<1> HIDE DEF U, upd
<1>3. paced[d] \in Nat
  BY DEF TypeOK
<1>4. CASE d \in shown
  BY <1>2, <1>4 DEF PacedAt
<1>5. CASE d \notin shown /\ d = s /\ st.wait /\ st.barrier
  BY <1>1, <1>2, <1>3, <1>5 DEF PacedAt
<1>6. CASE d \notin shown /\ ~(d = s /\ st.wait /\ st.barrier)
  <2>1. paced'[d] = paced[d] /\ (fifoBarrier[d] => fifoBarrier'[d])
    BY <1>1, <1>2, <1>6
  <2> QED
    BY <2>1 DEF PacedAt
<1> QED
  BY <1>4, <1>5, <1>6

FifoInv == "subsurface" \notin client.uses => \A d \in Surfaces : PacedAt(d)

LEMMA FifoStep == TypeOK /\ NoTree /\ FifoInv /\ [Next]_vars => FifoInv'
<1> SUFFICES ASSUME TypeOK, NoTree, FifoInv, [Next]_vars,
                    "subsurface" \notin client'.uses, NEW d \in Surfaces
             PROVE  PacedAt(d)'
  BY DEF FifoInv
<1>1. "subsurface" \notin client.uses /\ PacedAt(d)
  BY SameClient DEF FifoInv
<1> USE DEF showVars
<1>2. ASSUME UNCHANGED <<paced, fifoBarrier>>
      PROVE  PacedAt(d)'
  BY <1>1, <1>2 DEF PacedAt
<1>3. CASE UNCHANGED vars \/ TimePasses
  BY <1>2, <1>3 DEF vars, TimePasses
<1>4. ASSUME NEW s \in Surfaces, Commit(s)
      PROVE  PacedAt(d)'
  <2>1. CASE CommitDirect(s)
    <3>1. PICK shown \in {{}, {s}} :
             ApplyUpdate(s, NextState(s), Waiting(s), NextOwner(s), shown)
      BY <2>1 DEF CommitDirect
    <3>2. ~(NextState(s).wait /\ fifoBarrier[s])
      BY <2>1 DEF CommitDirect, MustPark, GateBlocks
    <3>3. NextState(s) \in State
      BY <2>1, CommitRequestType DEF CommitDirect
    <3> QED
      BY <1>1, <3>1, <3>2, <3>3, NothingWaits, ApplyUpdatePaced
  <2>2. CASE CommitCached(s) \/ CommitParked(s) \/ CommitFolded(s)
    BY <1>2, <2>2 DEF CommitCached, CommitParked, CommitFolded
  <2> QED
    BY <1>4, <2>1, <2>2 DEF Commit
<1>5. ASSUME NEW s \in Surfaces, CompositorStep(s)
      PROVE  PacedAt(d)'
  <2>1. CASE DrainStep(s)
    <3>1. PICK shown \in {{}, {s}} :
             ApplyUpdate(s, Head(deferred[s]), Waiting(s), owner[s], shown)
      BY <2>1 DEF DrainStep
    <3>2. ~(Head(deferred[s]).wait /\ fifoBarrier[s])
      BY <2>1 DEF DrainStep, GateBlocks
    <3>3. Head(deferred[s]) \in State
      BY <2>1, TailAt DEF DrainStep, TypeOK
    <3> QED
      BY <1>1, <3>1, <3>2, <3>3, NothingWaits, ApplyUpdatePaced
  <2>2. CASE DropBarrier(s)
    <3>1. /\ d = s => paced'[d] = 0
          /\ d # s => paced'[d] = paced[d] /\ fifoBarrier'[d] = fifoBarrier[d]
      BY <2>2 DEF DropBarrier, TypeOK
    <3> QED
      BY <1>1, <3>1 DEF PacedAt
  <2>3. CASE ~DrainStep(s) /\ ~DropBarrier(s)
    BY <1>2, <1>5, <2>3 DEF CompositorStep, Present, ClearBarrier, DrainEnd, HoldBuffer,
                            UnholdBuffer
  <2> QED
    BY <2>1, <2>2, <2>3
<1>6. ASSUME NEW s \in Surfaces,
             \/ \E b \in Buffers \cup {NoBuffer} : Attach(s, b)
             \/ SetBarrier(s) \/ SetWait(s)
             \/ \E t \in 1..client.time : SetCommitTime(s, t)
             \/ \E limit \in {now, client.time} : ReleaseDeferred(s, limit)
             \/ \E b \in Buffers : DestroyBuffer(s, b) \/ CreateBuffer(s, b)
             \/ \E p \in Surfaces : SubAttach(s, p)
      PROVE  PacedAt(d)'
  BY <1>2, <1>6 DEF Attach, SetBarrier, SetWait, SetCommitTime, SetGate, ReleaseDeferred,
                    DestroyBuffer, CreateBuffer, SubAttach
<1>7. \A s \in Surfaces : ~SubDetach(s) /\ \A sync \in BOOLEAN : ~SubSetSync(s, sync)
  BY <1>1 DEF SubDetach, SubSetSync, NoTree
<1>8. ASSUME NEW s \in Surfaces, DestroySurface(s)
      PROVE  PacedAt(d)'
  <2>1. /\ d = s => paced'[d] = 0
        /\ d # s => paced'[d] = paced[d] /\ fifoBarrier'[d] = fifoBarrier[d]
    BY <1>8 DEF DestroySurface, TypeOK
  <2> QED
    BY <1>1, <2>1 DEF PacedAt
<1> QED
  BY <1>3, <1>4, <1>5, <1>6, <1>7, <1>8, ClientSurfaces DEF Next, ClientStep

\* A client that queues frames by fifo gets one presentation for each barrier: two
\* paced updates are never applied without the barrier being cleared in between.
THEOREM FifoPacesOneByOne == Spec => []FifoPacing
<1>1. Init => FifoInv
  BY DEF Init, FifoInv, PacedAt
<1>2. FifoInv => FifoPacing
  BY DEF FifoInv, PacedAt, FifoPacing
<1> QED
  BY <1>1, <1>2, FifoStep, TypeCorrect, NoTreeHolds, PTL DEF Spec

-----------------------------------------------------------------------------
(* Commits take effect in order *)

\* Where CommitOrder holds the tree is shallow: a client has no subsurfaces, or
\* they are not nested, have no gates, and what they cached they have to cache.
Shallow ==
    \A d \in Surfaces :
        /\ deferred[d] = <<>> /\ ~pending[d].wait /\ pending[d].time = 0
        /\ hasCached[d] => parent[d] # NoSurface /\ subSync[d]
        /\ parent[d] # NoSurface => parent[parent[d]] = NoSurface

ShallowInv ==
    "subsurface" \in client.uses
    /\ client.uses \cap {"nested", "orphan", "fifo", "timing"} = {} => Shallow

LEMMA ShallowSync ==
  ASSUME TypeOK, NEW d \in Surfaces,
         parent[d] # NoSurface => parent[parent[d]] = NoSurface,
         NEW sync \in [Surfaces -> BOOLEAN]
  PROVE  EffectiveSync(d, parent, sync) <=> parent[d] # NoSurface /\ sync[d]
<1>1. CASE parent[d] = NoSurface
  BY <1>1, RootIsFree DEF TypeOK
<1>2. CASE parent[d] # NoSurface
  <2> DEFINE T == {d, parent[d]}
  <2>1. /\ T \in SUBSET Surfaces /\ d \in T
        /\ \A c \in T : parent[c] # NoSurface => parent[c] \in T
    BY <1>2 DEF TypeOK
  <2> HIDE DEF T
  <2>2. Ancestors(d, parent) \subseteq T /\ d \in Ancestors(d, parent)
    BY <2>1, AncestorsLeast, AncestorsClosed DEF TypeOK
  <2> QED
    BY <1>2, <2>2 DEF EffectiveSync, T
<1> QED
  BY <1>1, <1>2

\* The part about one surface's own requests.
LEMMA UngatedMoves ==
  ASSUME TypeOK, NEW d \in Surfaces, Moves(d), client.uses \cap {"fifo", "timing"} = {},
         deferred[d] = <<>>, ~pending[d].wait, pending[d].time = 0
  PROVE  deferred'[d] = <<>> /\ ~pending'[d].wait /\ pending'[d].time = 0
<1> USE DEF Queue
<1>0. pending[d] \in State /\ ~EmptyState.wait /\ EmptyState.time = 0
  BY DEF TypeOK, EmptyState
<1>1. CASE Stays(d)
  BY <1>1 DEF Stays
<1>2. CASE Attaches(d)
  <2>1. PICK b : pending'[d] = [pending[d] EXCEPT !.buffer = b, !.dirty = TRUE]
    BY <1>2 DEF Attaches
  <2>2. pending'[d].wait = pending[d].wait /\ pending'[d].time = pending[d].time
    BY <1>0, <2>1 DEF State
  <2> QED
    BY <1>2, <2>2 DEF Attaches
<1>3. CASE Caches(d)
  BY <1>0, <1>3 DEF Caches, Waits, Requests
<1>4. ~MustPark(d)
  <2>1. NextState(d).wait = pending[d].wait /\ NextState(d).time = pending[d].time
    BY <1>0 DEF NextState, State
  <2>2. now \in Nat
    BY SurfaceAssumption DEF TypeOK
  <2> QED
    BY <2>1, <2>2 DEF MustPark, GateBlocks
<1>5. CASE AppliesNext(d)
  BY <1>0, <1>5 DEF AppliesNext, Requests
<1>6. CASE AppliesCached(d) \/ IsPresented(d) \/ Holds(d) \/ Unholds(d)
           \/ \E b \in Buffers : Gains(d, b)
  BY <1>6 DEF AppliesCached, IsPresented, Holds, Unholds, Gains
<1>7. ASSUME NEW b \in Buffers, Loses(d, b)
      PROVE  deferred'[d] = <<>> /\ ~pending'[d].wait /\ pending'[d].time = 0
  <2>1. /\ Forget(pending[d], b).wait = pending[d].wait
        /\ Forget(pending[d], b).time = pending[d].time
    BY <1>0 DEF Forget, State
  <2>2. [i \in DOMAIN deferred[d] |-> Forget(deferred[d][i], b)] = <<>>
    OBVIOUS
  <2> QED
    BY <1>7, <2>1, <2>2 DEF Loses
<1>8. CASE IsReplaced(d)
  BY <1>0, <1>8 DEF IsReplaced
<1> QED
  BY <1>1, <1>2, <1>3, <1>4, <1>5, <1>6, <1>7, <1>8 DEF Moves, Parks, Folds, AppliesHead

LEMMA ShallowStep == TypeOK /\ ShallowInv /\ [Next]_vars => ShallowInv'
<1> SUFFICES ASSUME TypeOK, ShallowInv, [Next]_vars,
                    "subsurface" \in client'.uses,
                    client'.uses \cap {"nested", "orphan", "fifo", "timing"} = {}
             PROVE  Shallow'
  BY DEF ShallowInv
<1>1. Shallow /\ client.uses \cap {"nested", "orphan", "fifo", "timing"} = {}
  BY SameClient DEF ShallowInv
<1>2. \A d \in Surfaces : deferred'[d] = <<>> /\ ~pending'[d].wait /\ pending'[d].time = 0
  BY <1>1, StepMoves, UngatedMoves DEF Shallow
<1> SUFFICES ASSUME NEW d \in Surfaces
             PROVE  /\ hasCached'[d] => parent'[d] # NoSurface /\ subSync'[d]
                    /\ parent'[d] # NoSurface => parent'[parent'[d]] = NoSurface
  BY <1>2 DEF Shallow
<1>3. /\ hasCached[d] => parent[d] # NoSurface /\ subSync[d]
      /\ \A c \in Surfaces : parent[c] # NoSurface => parent[parent[c]] = NoSurface
  BY <1>1 DEF Shallow
<1>4. CASE TreeStill
  <2>1. EffectiveSync(d, parent, subSync) => parent[d] # NoSurface /\ subSync[d]
    BY <1>3, ShallowSync DEF TypeOK
  <2> QED
    BY <1>3, <1>4, <2>1 DEF TreeStill, treeVars
<1>5. ASSUME NEW s \in Surfaces, NEW p \in Surfaces, SubAttach(s, p)
      PROVE  /\ hasCached'[d] => parent'[d] # NoSurface /\ subSync'[d]
             /\ parent'[d] # NoSurface => parent'[parent'[d]] = NoSurface
  <2>1. /\ hasCached' = hasCached
        /\ parent[s] = NoSurface /\ parent[p] = NoSurface /\ Children(s) = {}
        /\ s \notin Ancestors(p, parent)
    BY <1>1, <1>5 DEF SubAttach, queueVars
  <2>2. s # p
    BY <2>1, AncestorsClosed DEF TypeOK
  <2>3. \A c \in Surfaces : parent'[c] = IF c = s THEN p ELSE parent[c]
    BY <1>5 DEF SubAttach, TypeOK
  <2>4. d # s => subSync'[d] = subSync[d]
    BY <1>5 DEF SubAttach, TypeOK
  <2>5. parent[d] # s
    BY <2>1 DEF Children
  <2> QED
    BY <1>3, <2>1, <2>2, <2>3, <2>4, <2>5, SurfaceAssumption DEF TypeOK
<1>6. ASSUME NEW s \in Surfaces, SubDetach(s)
      PROVE  /\ hasCached'[d] => parent'[d] # NoSurface /\ subSync'[d]
             /\ parent'[d] # NoSurface => parent'[parent'[d]] = NoSurface
  <2>1. /\ hasCached'[d] => hasCached[d]
        /\ parent[s] # NoSurface => ~hasCached'[s]
    BY <1>6, ReleaseCachedAt DEF SubDetach
  <2>2. /\ \A c \in Surfaces : parent'[c] = IF c = s THEN NoSurface ELSE parent[c]
        /\ subSync' = subSync
    BY <1>6 DEF SubDetach, TypeOK
  <2> QED
    BY <1>3, <2>1, <2>2 DEF TypeOK
<1>7. ASSUME NEW s \in Surfaces, NEW sync \in BOOLEAN, SubSetSync(s, sync)
      PROVE  /\ hasCached'[d] => parent'[d] # NoSurface /\ subSync'[d]
             /\ parent'[d] # NoSurface => parent'[parent'[d]] = NoSurface
  <2>1. /\ hasCached'[d] => hasCached[d]
        /\ ~sync /\ ~EffectiveSync(s, parent, subSync') => ~hasCached'[s]
    BY <1>7, ReleaseCachedAt DEF SubSetSync
  <2>2. /\ parent' = parent
        /\ subSync' \in [Surfaces -> BOOLEAN]
        /\ \A c \in Surfaces : subSync'[c] = IF c = s THEN sync ELSE subSync[c]
    BY <1>7 DEF SubSetSync, TypeOK
  <2>3. EffectiveSync(s, parent, subSync') => subSync'[s]
    BY <1>3, <2>2, ShallowSync
  <2> QED
    BY <1>3, <2>1, <2>2, <2>3
<1>8. ASSUME NEW s \in Surfaces, DestroySurface(s)
      PROVE  /\ hasCached'[d] => parent'[d] # NoSurface /\ subSync'[d]
             /\ parent'[d] # NoSurface => parent'[parent'[d]] = NoSurface
  <2>1. Children(s) = {}
    BY <1>1, <1>8 DEF DestroySurface
  <2>2. /\ \A c \in Surfaces : parent'[c] = IF c = s THEN NoSurface ELSE parent[c]
        /\ d = s => ~hasCached'[d]
        /\ d # s => hasCached'[d] = hasCached[d] /\ subSync'[d] = subSync[d]
    BY <1>8, <2>1 DEF DestroySurface, Children, TypeOK
  <2> QED
    BY <1>3, <2>2 DEF TypeOK
<1> QED
  BY <1>4, <1>5, <1>6, <1>7, <1>8, TreeSteps

LEMMA ShallowHolds == Spec => []ShallowInv
<1>1. Init => ShallowInv
  BY DEF Init, ShallowInv, Shallow, EmptyState
<1> QED
  BY <1>1, ShallowStep, TypeCorrect, PTL DEF Spec

Before(A, B) == \A m \in A, n \in B : m < n

\* What was applied is older than what waits, and what waits is in order.
OrderAt(d) ==
    /\ Before(Applied(d), cached[d].commits)
    /\ \A i \in DOMAIN deferred[d] : Before(Applied(d), deferred[d][i].commits)
    /\ \A i, j \in DOMAIN deferred[d] :
          i < j => Before(deferred[d][i].commits, deferred[d][j].commits)

\* A step of a surface that caches or parks, but never both, applies what is newer
\* than what it applied before.
LEMMA OrderMoves ==
  ASSUME TypeOK, NEW d \in Surfaces, OrderAt(d), CallbackAt(d), CleanAt(d), Moves(d),
         ~hasCached[d] \/ deferred[d] = <<>>,
         hasCached[d] => EffectiveSync(d, parent, subSync)
  PROVE  /\ OrderAt(d)'
         /\ made'[d] >= made[d] => Before(Applied(d), Applied(d)' \ Applied(d))
<1> USE DEF Queue, Answers
<1> DEFINE Newer == made'[d] >= made[d] => Before(Applied(d), Applied(d)' \ Applied(d))
<1>0. /\ deferred[d] \in Seq(State)
      /\ \A i \in DOMAIN deferred[d] : deferred[d][i] \in State
      /\ cached[d] \in State
      /\ made[d] \in Nat
      /\ ~hasCached[d] => cached[d].commits = {}
  BY SurfaceAssumption, NoCommits DEF TypeOK, CleanAt
<1>1. CASE \/ Stays(d) \/ Attaches(d) \/ Holds(d) \/ Unholds(d)
           \/ \E b \in Buffers : Gains(d, b)
  BY <1>1 DEF Stays, Attaches, Holds, Unholds, Gains, OrderAt, Before, Applied
\* The number of a request is the newest.
<1>2. ASSUME Requests(d)
      PROVE  /\ NextState(d) \in State
             /\ NextState(d).commits = {made[d] + 1}
             /\ \A n \in CommitsIn(deferred[d]) \cup cached[d].commits \cup Applied(d) :
                   n < made[d] + 1
  BY <1>0, <1>2, NextStateClean DEF Requests, CleanAt, CallbackAt, Applied
<1>3. CASE Caches(d)
  <2>1. cached'[d].commits = cached[d].commits \cup NextState(d).commits
    BY <1>3 DEF Caches, Merge
  <2>2. Requests(d) /\ UNCHANGED <<deferred[d], queued[d], done[d]>>
    BY <1>3 DEF Caches, Waits
  <2>3. Applied(d)' = Applied(d)
    BY <2>2 DEF Applied
  <2> QED
    BY <1>2, <2>1, <2>2, <2>3 DEF OrderAt, Before
<1>4. CASE Parks(d)
  <2> DEFINE k == Len(deferred[d]) + 1
  <2>1. Requests(d) /\ UNCHANGED <<cached[d], queued[d], done[d]>>
    BY <1>4 DEF Parks, Waits
  <2>2. /\ k \notin DOMAIN deferred[d]
        /\ DOMAIN deferred'[d] = DOMAIN deferred[d] \cup {k}
        /\ deferred'[d][k] = NextState(d)
        /\ \A i \in DOMAIN deferred[d] : deferred'[d][i] = deferred[d][i] /\ i < k
    BY <1>0, <1>2, <1>4, <2>1, AppendAt DEF Parks
  <2>3. k \in Nat /\ DOMAIN deferred[d] \subseteq Nat
    BY <1>0
  <2> HIDE DEF k
  <2>4. \A i \in DOMAIN deferred[d] : deferred[d][i].commits \subseteq CommitsIn(deferred[d])
    BY DEF CommitsIn
  <2>5. Applied(d)' = Applied(d)
    BY <2>1 DEF Applied
  <2>6. \A i \in DOMAIN deferred'[d] : Before(Applied(d), deferred'[d][i].commits)
    BY <1>2, <2>1, <2>2 DEF OrderAt, Before
  <2>7. ASSUME NEW i \in DOMAIN deferred'[d], NEW j \in DOMAIN deferred'[d], i < j
        PROVE  Before(deferred'[d][i].commits, deferred'[d][j].commits)
    <3>1. i \in DOMAIN deferred[d]
      BY <2>2, <2>3, <2>7
    <3>2. CASE j = k
      BY <1>2, <2>1, <2>2, <2>4, <3>1, <3>2 DEF Before
    <3>3. CASE j # k
      BY <2>2, <2>7, <3>1, <3>3 DEF OrderAt
    <3> QED
      BY <3>2, <3>3
  <2> QED
    BY <2>1, <2>5, <2>6, <2>7 DEF OrderAt, Before
<1>5. CASE Folds(d)
  <2> DEFINE k == Len(deferred[d])
  <2>1. Requests(d) /\ UNCHANGED <<cached[d], queued[d], done[d]>>
    BY <1>5 DEF Folds, Waits
  <2>2. /\ k \in DOMAIN deferred[d]
        /\ DOMAIN deferred'[d] = DOMAIN deferred[d]
        /\ deferred'[d][k] = Merge(deferred[d][k], NextState(d))
        /\ \A i \in DOMAIN deferred[d] \ {k} : deferred'[d][i] = deferred[d][i] /\ i < k
    BY <1>0, <1>2, <1>5, <2>1, FoldedAt DEF Folds
  <2>3. deferred'[d][k].commits = deferred[d][k].commits \cup NextState(d).commits
    BY <2>2 DEF Merge
  <2>4. k \in Nat /\ DOMAIN deferred[d] \subseteq Nat
    BY <1>0
  <2> HIDE DEF k
  <2>5. \A i \in DOMAIN deferred[d] : deferred[d][i].commits \subseteq CommitsIn(deferred[d])
    BY DEF CommitsIn
  <2>6. Applied(d)' = Applied(d)
    BY <2>1 DEF Applied
  <2>7. \A i \in DOMAIN deferred'[d] : Before(Applied(d), deferred'[d][i].commits)
    BY <1>2, <2>1, <2>2, <2>3 DEF OrderAt, Before
  <2>8. ASSUME NEW i \in DOMAIN deferred'[d], NEW j \in DOMAIN deferred'[d], i < j
        PROVE  Before(deferred'[d][i].commits, deferred'[d][j].commits)
    <3>1. i \in DOMAIN deferred[d] \ {k} /\ j \in DOMAIN deferred[d]
      BY <2>2, <2>4, <2>8
    <3>2. Before(deferred[d][i].commits, deferred[d][j].commits)
      BY <2>8, <3>1 DEF OrderAt
    <3>3. CASE j = k
      BY <1>2, <2>1, <2>2, <2>3, <2>5, <3>1, <3>2, <3>3 DEF Before
    <3>4. CASE j # k
      BY <2>2, <3>1, <3>2, <3>4
    <3> QED
      BY <3>3, <3>4
  <2> QED
    BY <2>1, <2>6, <2>7, <2>8 DEF OrderAt, Before
<1>6. CASE AppliesNext(d)
  <2>1. /\ Requests(d) /\ deferred'[d] = <<>> /\ cached'[d] = cached[d]
        /\ cached[d].commits = {}
    BY <1>0, <1>6 DEF AppliesNext, Applies
  <2>2. Applied(d)' = Applied(d) \cup NextState(d).commits
    BY <1>6 DEF AppliesNext, Applies, Applied
  <2> QED
    BY <1>2, <2>1, <2>2 DEF OrderAt, Before
<1>7. CASE AppliesHead(d)
  <2>1. /\ deferred[d] # <<>> /\ deferred'[d] = Tail(deferred[d])
        /\ cached'[d] = cached[d] /\ cached[d].commits = {}
    BY <1>0, <1>7 DEF AppliesHead, Applies
  <2>2. Applied(d)' = Applied(d) \cup Head(deferred[d]).commits
    BY <1>7 DEF AppliesHead, Applies, Applied
  <2>3. /\ 1 \in DOMAIN deferred[d]
        /\ Head(deferred[d]) = deferred[d][1]
        /\ \A i \in DOMAIN deferred'[d] :
              /\ i \in Nat /\ i + 1 \in DOMAIN deferred[d] /\ 1 < i + 1
              /\ deferred'[d][i] = deferred[d][i + 1]
    BY <1>0, <2>1, TailAt
  <2>4. \A i \in DOMAIN deferred'[d] : Before(Applied(d)', deferred'[d][i].commits)
    BY <2>2, <2>3 DEF OrderAt, Before
  <2>5. \A i, j \in DOMAIN deferred'[d] :
           i < j => Before(deferred'[d][i].commits, deferred'[d][j].commits)
    BY <2>3 DEF OrderAt
  <2>6. Newer
    BY <2>2, <2>3 DEF OrderAt, Before
  <2> QED
    BY <2>1, <2>4, <2>5, <2>6 DEF OrderAt, Before
<1>8. CASE AppliesCached(d)
  <2>1. deferred'[d] = <<>> /\ cached'[d].commits = {}
    BY <1>8, NoCommits DEF AppliesCached, Spends
  <2>2. Applied(d)' = Applied(d) \cup cached[d].commits
    BY <1>8 DEF AppliesCached, Spends, Applied
  <2> QED
    BY <2>1, <2>2 DEF OrderAt, Before
<1>9. CASE IsPresented(d)
  <2>1. Applied(d)' = Applied(d)
    BY <1>9 DEF IsPresented, Applied
  <2> QED
    BY <1>9, <2>1 DEF IsPresented, OrderAt, Before
<1>10. ASSUME NEW b \in Buffers, Loses(d, b)
       PROVE  OrderAt(d)' /\ Newer
  <2>1. Applied(d)' = Applied(d)
    BY <1>10 DEF Loses, Applied
  <2>2. /\ cached'[d].commits = cached[d].commits
        /\ DOMAIN deferred'[d] = DOMAIN deferred[d]
        /\ \A i \in DOMAIN deferred[d] : deferred'[d][i].commits = deferred[d][i].commits
    <3>1. \A st \in State : Forget(st, b).commits = st.commits
      BY DEF Forget, State
    <3>2. CASE b \in watched[d]
      BY <1>0, <1>10, <3>1, <3>2 DEF Loses
    <3>3. CASE b \notin watched[d]
      BY <1>10, <3>3 DEF Loses
    <3> QED
      BY <3>2, <3>3
  <2> QED
    BY <2>1, <2>2 DEF OrderAt, Before
<1>11. CASE IsReplaced(d)
  BY <1>11, NoCommits DEF IsReplaced, OrderAt, Before, Applied
<1> QED
  BY <1>1, <1>3, <1>4, <1>5, <1>6, <1>7, <1>8, <1>9, <1>10, <1>11 DEF Moves

OrderInv == OrderKept => \A d \in Surfaces : OrderAt(d)

\* The premises of OrderMoves, for the clients CommitOrder is about.
LEMMA OrderPremises ==
  ASSUME TypeOK, NoTree, ShallowInv, OrderKept, NEW d \in Surfaces
  PROVE  /\ ~hasCached[d] \/ deferred[d] = <<>>
         /\ hasCached[d] => EffectiveSync(d, parent, subSync)
<1>1. CASE "subsurface" \notin client.uses
  BY <1>1 DEF NoTree
<1>2. CASE "subsurface" \in client.uses
  <2>1. Shallow
    BY <1>2 DEF ShallowInv, OrderKept
  <2> QED
    BY <2>1, ShallowSync DEF Shallow, TypeOK
<1> QED
  BY <1>1, <1>2

LEMMA OrderStep ==
  ASSUME TypeOK, SlotsClean, CallbackInv, NoTree, ShallowInv, OrderInv, OrderKept, [Next]_vars,
         NEW d \in Surfaces
  PROVE  /\ OrderAt(d)'
         /\ made'[d] >= made[d] => Before(Applied(d), Applied(d)' \ Applied(d))
  BY OrderPremises, OrderMoves, StepMoves DEF SlotsClean, CallbackInv, OrderInv

LEMMA OrderInvHolds == Spec => []OrderInv
<1>1. Init => OrderInv
  BY NoCommits DEF Init, OrderInv, OrderAt, Before
<1>2. TypeOK /\ SlotsClean /\ CallbackInv /\ NoTree /\ ShallowInv /\ OrderInv /\ [Next]_vars
          => OrderInv'
  BY OrderStep, SameClient DEF OrderInv, OrderKept
<1> QED
  BY <1>1, <1>2, TypeCorrect, SlotsCleanHolds, CallbackInvHolds, NoTreeHolds, ShallowHolds,
     PTL DEF Spec

\* An update that takes effect is newer than all that took effect before, for every
\* client without subsurfaces, however its commits are gated, parked and folded, and
\* for those whose subsurfaces are neither nested nor gated nor outlive their parent.
THEOREM CommitsInOrder == Spec => CommitOrder
<1>1. TypeOK /\ SlotsClean /\ CallbackInv /\ NoTree /\ ShallowInv /\ OrderInv /\ [Next]_vars
          => (OrderKept => \A s \in Surfaces : made'[s] >= made[s] =>
                 \A n \in Applied(s)' \ Applied(s), m \in Applied(s) : m < n)
  BY OrderStep DEF Before
<1> QED
  BY <1>1, TypeCorrect, SlotsCleanHolds, CallbackInvHolds, NoTreeHolds, ShallowHolds,
     OrderInvHolds, PTL DEF Spec, CommitOrder

-----------------------------------------------------------------------------
(* The surfaces under the manager *)

LEMMA PacingSteps == PacingNext => [Next]_vars
<1>1. ASSUME NEW s \in client.surfaces, NEW t \in 1..client.time, SetTimestamp(s, t)
      PROVE  Next
  BY <1>1 DEF SetTimestamp, Next
<1>2. ASSUME NEW s \in client.surfaces,
             GetTimer(s) \/ DestroyTimer(s) \/ Visit(s) \/ Visited(s)
      PROVE  [Next]_vars
  BY <1>2 DEF GetTimer, DestroyTimer, Visit, Visited, Next
<1>3. ASSUME NEW s \in client.surfaces, SurfaceGone(s)
      PROVE  Next
  BY <1>3 DEF SurfaceGone, Next
<1>4. Elsewhere => Next
  BY DEF Elsewhere, Next
<1>5. Draining => Next
  BY DEF Draining, Next, CompositorStep
<1> QED
  BY <1>1, <1>2, <1>3, <1>4, <1>5 DEF PacingNext, Fire, Rearm

\* The manager asks of the surfaces only what Surface lets a client and the
\* compositor ask of them: what is proved of Spec holds of PacingSpec.
THEOREM PacedSurfaces == PacingSpec => Spec
<1>1. PacingInit => Init
  BY DEF PacingInit
<1>2. [PacingNext]_allVars => [Next]_vars
  BY PacingSteps DEF allVars
<1> QED
  BY <1>1, <1>2, PTL DEF PacingSpec, Spec

LEMMA ClientType ==
  ASSUME TypeOK
  PROVE  client.surfaces \subseteq Surfaces /\ client.time \in 0..MaxTime
<1>1. client \in Client
  BY SurfaceAssumption DEF TypeOK
<1> QED
  BY <1>1 DEF Client

LEMMA HeadTimeType ==
  ASSUME TypeOK, NEW s \in Surfaces
  PROVE  HeadTime(s) \in 0..MaxTime
<1>1. MaxTime \in Nat /\ deferred[s] \in Seq(State)
  BY SurfaceAssumption DEF TypeOK
<1>2. deferred[s] # <<>> => Head(deferred[s]) \in State
  BY <1>1
<1> QED
  BY <1>1, <1>2 DEF HeadTime, State

LEMMA PacingTypeStep == PacingTypeOK /\ [PacingNext]_allVars => PacingTypeOK'
<1> SUFFICES ASSUME PacingTypeOK, [PacingNext]_allVars
             PROVE  PacingTypeOK'
  OBVIOUS
<1> USE DEF pacingVars, tickVars
<1>1. TypeOK /\ TypeOK'
  BY PacingSteps, TypeStep DEF PacingTypeOK, allVars
<1>2. /\ MaxTime \in Nat /\ MaxSleep \in Nat /\ now \in 0..MaxTime
      /\ client.surfaces \subseteq Surfaces /\ client.time \in 0..MaxTime
  BY <1>1, ClientType, SurfaceAssumption, SleepAssumption DEF TypeOK
<1>3. CASE Elsewhere \/ Draining \/ UNCHANGED allVars
  BY <1>1, <1>3 DEF Elsewhere, Draining, PacingTypeOK, allVars
<1>4. CASE Fire
  BY <1>1, <1>2, <1>4 DEF Fire, StartTick, PacingTypeOK
<1>5. CASE Rearm
  <2>1. ArmFor(next) \in 0..MaxTime
    BY <1>2 DEF ArmFor, PacingTypeOK
  <2> QED
    BY <1>1, <1>5, <2>1 DEF Rearm, PacingTypeOK
<1>6. ASSUME NEW s \in Surfaces, GetTimer(s)
      PROVE  PacingTypeOK'
  BY <1>1, <1>6 DEF GetTimer, PacingTypeOK
<1>7. ASSUME NEW s \in Surfaces, DestroyTimer(s) \/ SurfaceGone(s)
      PROVE  PacingTypeOK'
  BY <1>1, <1>2, <1>7 DEF DestroyTimer, SurfaceGone, PacingTypeOK
<1>8. ASSUME NEW s \in Surfaces, Visit(s)
      PROVE  PacingTypeOK'
  BY <1>1, <1>2, <1>8 DEF Visit, PacingTypeOK
<1>9. ASSUME NEW s \in Surfaces, Visited(s)
      PROVE  PacingTypeOK'
  <2>1. Sooner(next, Want(s)) \in 0..MaxTime
    BY <1>1, HeadTimeType DEF Sooner, Want, PacingTypeOK
  <2> QED
    BY <1>1, <1>9, <2>1 DEF Visited, PacingTypeOK
<1>10. ASSUME NEW s \in Surfaces, NEW t \in 1..client.time, SetTimestamp(s, t)
       PROVE  PacingTypeOK'
  <2>1. t \in 0..MaxTime
    BY <1>2
  <2> QED
    BY <1>1, <1>2, <1>10, <2>1 DEF SetTimestamp, StartTick, PacingTypeOK
<1> QED
  BY <1>2, <1>3, <1>4, <1>5, <1>6, <1>7, <1>8, <1>9, <1>10 DEF PacingNext

\* The manager's own state is well typed: no deadline it stages or sleeps for
\* lies beyond the clock.
THEOREM PacingTypeCorrect == PacingSpec => []PacingTypeOK
<1>1. ASSUME PacingInit
      PROVE  PacingTypeOK
  <2>1. TypeOK
    BY <1>1, InitType DEF PacingInit
  <2>2. 0 \in 0..MaxTime
    BY SurfaceAssumption
  <2> QED
    BY <1>1, <2>1, <2>2 DEF PacingInit, PacingTypeOK
<1> QED
  BY <1>1, PacingTypeStep, PTL DEF PacingSpec

-----------------------------------------------------------------------------
(* What a step of the surfaces does to the stamp and the queue of one *)

\* d's queue stays, grows at its end, loses its head to release_deferred_commit()
\* or has a dead buffer forgotten.
QueueMoves(d) ==
    \/ deferred'[d] = deferred[d]
    \/ MustPark(d) /\ deferred'[d] = Append(deferred[d], NextState(d))
    \/ /\ MustPark(d) /\ Len(deferred[d]) \in Nat \ {0}
       /\ deferred'[d] = Folded(deferred[d], NextState(d))
    \/ /\ draining = d /\ deferred[d] # <<>>
       /\ ~GateBlocks(d, Head(deferred[d]), drainNow)
       /\ deferred'[d] = Tail(deferred[d])
    \/ \E b : deferred'[d] = [i \in DOMAIN deferred[d] |-> Forget(deferred[d][i], b)]

LEMMA QueueSteps ==
  ASSUME TypeOK, NEW s \in Surfaces, ClientStep(s) \/ CompositorStep(s), NEW d \in Surfaces
  PROVE  QueueMoves(d)
<1> USE DEF queueVars
<1>1. deferred \in [Surfaces -> Seq(State)] /\ MaxDeferred \in Nat \ {0}
  BY SurfaceAssumption DEF TypeOK
<1>2. CASE Commit(s)
  <2>1. Len(deferred[s]) \in Nat
    BY <1>1
  <2> QED
    BY <1>1, <1>2, <2>1 DEF Commit, CommitCached, CommitParked, CommitFolded, CommitDirect,
                            QueueMoves
<1>3. CASE DrainStep(s)
  BY <1>1, <1>3 DEF DrainStep, QueueMoves
<1>4. ASSUME NEW b \in Buffers, DestroyBuffer(s, b)
      PROVE  QueueMoves(d)
  BY <1>1, <1>4 DEF DestroyBuffer, QueueMoves
<1>5. CASE SubDetach(s) \/ \E sync \in BOOLEAN : SubSetSync(s, sync)
  BY <1>5 DEF SubDetach, SubSetSync, QueueMoves
<1>6. CASE \/ \E b \in Buffers \cup {NoBuffer} : Attach(s, b)
           \/ SetBarrier(s) \/ SetWait(s)
           \/ \E b \in Buffers : CreateBuffer(s, b)
           \/ \E p \in client.surfaces : SubAttach(s, p)
  BY <1>6 DEF Attach, SetBarrier, SetWait, SetGate, CreateBuffer, SubAttach, QueueMoves
<1>7. CASE \/ Present(s) \/ ClearBarrier(s) \/ DrainEnd(s) \/ HoldBuffer(s, current[s])
           \/ \E b \in Buffers : UnholdBuffer(s, b)
  BY <1>7 DEF Present, ClearBarrier, DropBarrier, DrainEnd, HoldBuffer, UnholdBuffer, QueueMoves
<1> QED
  BY <1>2, <1>3, <1>4, <1>5, <1>6, <1>7 DEF ClientStep, CompositorStep

\* Without fifo, no step but set_timestamp gates the next commit.
Ungated(d) ==
    /\ pending'[d].wait => pending[d].wait
    /\ pending'[d].time \in {0, pending[d].time}

LEMMA PendingSteps ==
  ASSUME TypeOK, "fifo" \notin client.uses,
         NEW s \in Surfaces, ClientStep(s) \/ CompositorStep(s), NEW d \in Surfaces
  PROVE  Ungated(d)
<1>1. pending \in [Surfaces -> State] /\ ~EmptyState.wait /\ EmptyState.time = 0
  BY DEF TypeOK, EmptyState
<1>2. pending[d] \in State
  BY <1>1
<1>3. CASE Commit(s)
  BY <1>1, <1>3 DEF Commit, CommitCached, CommitParked, CommitFolded, CommitDirect,
                    CommitRequest, Ungated
<1>4. ASSUME NEW b, Attach(s, b)
      PROVE  Ungated(d)
  <2>1. pending'[d] = IF d = s THEN [pending[d] EXCEPT !.buffer = b, !.dirty = TRUE]
                               ELSE pending[d]
    BY <1>1, <1>4 DEF Attach
  <2> QED
    BY <1>2, <2>1 DEF Ungated, State
<1>5. ASSUME NEW b \in Buffers, DestroyBuffer(s, b)
      PROVE  Ungated(d)
  <2>1. pending'[d] \in {pending[d], Forget(pending[d], b)}
    BY <1>1, <1>5 DEF DestroyBuffer
  <2> QED
    BY <1>2, <2>1 DEF Ungated, State, Forget
<1>6. CASE \/ \E b \in Buffers : CreateBuffer(s, b)
           \/ \E p \in client.surfaces : SubAttach(s, p)
           \/ SubDetach(s) \/ \E sync \in BOOLEAN : SubSetSync(s, sync)
  BY <1>6 DEF CreateBuffer, SubAttach, SubDetach, SubSetSync, Ungated
<1>7. CASE CompositorStep(s)
  BY <1>7 DEF CompositorStep, Present, ClearBarrier, DropBarrier, DrainStep, DrainEnd,
              HoldBuffer, UnholdBuffer, Ungated
<1> QED
  BY <1>3, <1>4, <1>5, <1>6, <1>7 DEF ClientStep, SetBarrier, SetWait

LEMMA LoopSteps ==
  ASSUME TypeOK, NEW s \in Surfaces, ClientStep(s) \/ CompositorStep(s),
         draining # NoSurface => drainNow = now
  PROVE  /\ client' = client /\ now' = now
         /\ draining' # NoSurface => drainNow' = now'
<1> USE DEF worldVars, loopVars
<1>1. CASE ClientStep(s)
  BY <1>1 DEF ClientStep, Attach, SetBarrier, SetWait, SetGate, Commit, CommitCached,
              CommitParked, CommitFolded, CommitDirect, CommitRequest, DestroyBuffer,
              CreateBuffer, SubAttach, SubDetach, SubSetSync
<1>2. CASE CompositorStep(s)
  BY <1>2 DEF CompositorStep, Present, ClearBarrier, DropBarrier, DrainStep, DrainEnd,
              HoldBuffer, UnholdBuffer
<1> QED
  BY <1>1, <1>2

-----------------------------------------------------------------------------
(* The timer is never late *)

\* The deadline `at` is soon enough for what the head of s's queue and its
\* next commit wait for.
Covered(s, at) ==
    /\ deferred[s] # <<>> => at # 0 /\ (at <= HeadTime(s) \/ at <= now)
    /\ pending[s].time > now => at # 0 /\ at <= pending[s].time

\* A client of commit timing alone waits for stamps, under a timer object that
\* still stages what it has not committed.
TimedOnly(s) ==
    /\ ~pending[s].wait
    /\ \A i \in DOMAIN deferred[s] : ~deferred[s][i].wait
    /\ pending[s].time # 0 \/ deferred[s] # <<>> => s \in timers
    /\ pending[s].time > now => staged[s] = pending[s].time

\* Between two ticks the armed timer covers every surface.  During one, what
\* tick() has seen so far covers the surfaces it has been to, and the one it
\* leaves has nothing due.
ArmedAt(s) ==
    /\ TimedOnly(s)
    /\ ~ticking => Covered(s, wakeup)
    /\ ticking /\ s \in timers \ left => Covered(s, next)
    /\ visiting = s /\ draining = NoSurface => deferred[s] = <<>> \/ HeadTime(s) > now

\* tick() goes through its snapshot one surface at a time, and releases parked
\* commits as of the present instant.
TickInv ==
    /\ ~ticking => visiting = NoSurface /\ left = {}
    /\ visiting # NoSurface => visiting \in left
    /\ left \subseteq timers
    /\ draining # NoSurface => drainNow = now /\ (ticking => draining = visiting)

TimingClient == client.uses \cap {"fifo", "untimed"} = {}

ArmedInv == TimingClient => TickInv /\ \A s \in Surfaces : ArmedAt(s)

LEMMA NextStateGate ==
  ASSUME TypeOK, NEW d \in Surfaces
  PROVE  /\ NextState(d).wait = pending[d].wait
         /\ NextState(d).time = pending[d].time
         /\ NextState(d).time \in Nat /\ now \in Nat
<1>1. pending[d] \in State /\ MaxTime \in Nat
  BY SurfaceAssumption DEF TypeOK
<1> QED
  BY <1>1, SurfaceAssumption DEF NextState, State, TypeOK

\* What the steps of the surfaces do to a queue that waits for stamps alone:
\* the head is never replaced by an earlier one unless it was due.
LEMMA TimedQueue ==
  ASSUME TypeOK, TypeOK', NEW d \in Surfaces, QueueMoves(d), ~pending[d].wait,
         \A i \in DOMAIN deferred[d] : ~deferred[d][i].wait,
         draining = d => drainNow = now
  PROVE  /\ \A i \in DOMAIN deferred'[d] : ~deferred'[d][i].wait
         /\ deferred'[d] # <<>> /\ deferred[d] = <<>> =>
               pending[d].time > now /\ HeadTime(d)' = pending[d].time
         /\ deferred'[d] # <<>> /\ deferred[d] # <<>> =>
               HeadTime(d)' >= HeadTime(d) \/ HeadTime(d) <= now
<1>1. /\ deferred[d] \in Seq(State) /\ pending[d] \in State /\ deferred'[d] \in Seq(State)
      /\ now \in Nat /\ MaxTime \in Nat /\ HeadTime(d) \in Nat
      /\ \A i \in DOMAIN deferred[d] : deferred[d][i].time \in Nat
  <2>1. deferred[d] \in Seq(State) /\ MaxTime \in Nat /\ HeadTime(d) \in 0..MaxTime
    BY HeadTimeType, SurfaceAssumption DEF TypeOK
  <2>2. \A i \in DOMAIN deferred[d] : deferred[d][i] \in State
    BY <2>1
  <2>3. pending[d] \in State /\ deferred'[d] \in Seq(State) /\ now \in 0..MaxTime
    BY DEF TypeOK
  <2> QED
    BY <2>1, <2>2, <2>3 DEF State
<1>2. /\ deferred[d] # <<>> => HeadTime(d) = deferred[d][1].time
      /\ deferred'[d] # <<>> => HeadTime(d)' = Head(deferred'[d]).time
  BY <1>1 DEF HeadTime
<1>3. CASE deferred'[d] = deferred[d]
  BY <1>1, <1>2, <1>3
<1>4. CASE MustPark(d) /\ deferred'[d] = Append(deferred[d], NextState(d))
  <2>1. deferred'[d] \in Seq(State \cup {NextState(d)})
    BY <1>1, <1>4
  <2>2. DOMAIN deferred'[d] = 1..Len(deferred[d]) + 1
    BY <1>1, <1>4
  <2>3. \A i \in DOMAIN deferred'[d] :
           deferred'[d][i] = IF i <= Len(deferred[d]) THEN deferred[d][i] ELSE NextState(d)
    BY <1>1, <1>4
  <2>4. Len(deferred[d]) \in Nat /\ DOMAIN deferred[d] = 1..Len(deferred[d])
    BY <1>1
  <2>5. \A i \in DOMAIN deferred'[d] : ~deferred'[d][i].wait
    BY <2>2, <2>3, <2>4, NextStateGate
  <2>6. CASE deferred[d] = <<>>
    <3>1. NextState(d).time > now
      BY <1>4, <2>6, NextStateGate DEF MustPark, GateBlocks
    <3>2. Head(deferred'[d]) = NextState(d)
      BY <1>4, <2>6
    <3>3. deferred'[d] # <<>>
      BY <2>2, <2>4
    <3> QED
      BY <1>2, <2>5, <2>6, <3>1, <3>2, <3>3, NextStateGate
  <2>7. CASE deferred[d] # <<>>
    <3>1. Head(deferred'[d]) = deferred[d][1]
      BY <1>1, <1>4, <2>7
    <3> QED
      BY <1>1, <1>2, <2>5, <2>7, <3>1
  <2> QED
    BY <2>6, <2>7
<1>5. CASE Len(deferred[d]) \in Nat \ {0} /\ deferred'[d] = Folded(deferred[d], NextState(d))
  <2> DEFINE n == Len(deferred[d])
  <2>1. n \in DOMAIN deferred[d] /\ DOMAIN deferred[d] = 1..n /\ n >= 1
    BY <1>1, <1>5
  <2>2. /\ DOMAIN deferred'[d] = 1..n
        /\ \A i \in 1..n : deferred'[d][i] =
              IF i = n THEN Merge(deferred[d][n], NextState(d)) ELSE deferred[d][i]
    BY <1>1, <1>5, <2>1 DEF Folded, Newest
  <2>3. /\ ~Merge(deferred[d][n], NextState(d)).wait
        /\ Merge(deferred[d][n], NextState(d)).time >= deferred[d][n].time
    <3>1. deferred[d][n].time \in Nat /\ ~deferred[d][n].wait
      BY <1>1, <2>1
    <3>2. NextState(d).time \in Nat /\ ~NextState(d).wait
      BY NextStateGate
    <3>3. Merge(deferred[d][n], NextState(d)).wait <=>
              deferred[d][n].wait \/ NextState(d).wait
      BY DEF Merge
    <3>4. Merge(deferred[d][n], NextState(d)).time =
              IF deferred[d][n].time > NextState(d).time
              THEN deferred[d][n].time ELSE NextState(d).time
      BY DEF Merge
    <3>5. Merge(deferred[d][n], NextState(d)).time >= deferred[d][n].time
      BY <3>1, <3>2, <3>4
    <3> QED
      BY <3>1, <3>2, <3>3, <3>5
  <2>4. \A i \in DOMAIN deferred'[d] : ~deferred'[d][i].wait
    BY <2>1, <2>2, <2>3
  <2>5. deferred'[d][1].time >= deferred[d][1].time
    BY <1>1, <2>1, <2>2, <2>3
  <2>6. deferred[d] # <<>> /\ Head(deferred'[d]) = deferred'[d][1]
    BY <1>1, <2>1, <2>2
  <2> QED
    BY <1>2, <2>4, <2>5, <2>6
<1>6. CASE /\ draining = d /\ deferred[d] # <<>>
           /\ ~GateBlocks(d, Head(deferred[d]), drainNow)
           /\ deferred'[d] = Tail(deferred[d])
  <2>1. HeadTime(d) <= now
    BY <1>1, <1>6 DEF GateBlocks, HeadTime
  <2>2. \A i \in DOMAIN deferred'[d] : ~deferred'[d][i].wait
    <3>1. \A i \in DOMAIN deferred'[d] :
             i + 1 \in DOMAIN deferred[d] /\ deferred'[d][i] = deferred[d][i + 1]
      BY <1>1, <1>6
    <3> QED
      BY <3>1
  <2> QED
    BY <1>6, <2>1, <2>2
<1>7. ASSUME NEW b, deferred'[d] = [i \in DOMAIN deferred[d] |-> Forget(deferred[d][i], b)]
      PROVE  /\ \A i \in DOMAIN deferred'[d] : ~deferred'[d][i].wait
             /\ deferred'[d] # <<>> => deferred[d] # <<>> /\ HeadTime(d)' = HeadTime(d)
  <2>1. \A i \in DOMAIN deferred[d] :
           Forget(deferred[d][i], b).wait = deferred[d][i].wait
           /\ Forget(deferred[d][i], b).time = deferred[d][i].time
    <3>1. \A i \in DOMAIN deferred[d] : deferred[d][i] \in State
      BY <1>1
    <3> QED
      BY <3>1 DEF Forget, State
  <2>2. DOMAIN deferred'[d] = DOMAIN deferred[d]
    BY <1>7
  <2>3. \A i \in DOMAIN deferred'[d] : ~deferred'[d][i].wait
    BY <1>7, <2>1, <2>2
  <2>4. ASSUME deferred'[d] # <<>>
        PROVE  deferred[d] # <<>> /\ HeadTime(d)' = HeadTime(d)
    <3>1. deferred[d] # <<>>
      <4>1. SUFFICES ASSUME deferred[d] = <<>> PROVE deferred'[d] = <<>>
        BY <2>4
      <4> QED
        BY <1>7, <4>1
    <3>2. 1 \in DOMAIN deferred[d]
      BY <1>1, <3>1
    <3>3. Head(deferred'[d]) = deferred'[d][1]
      BY <1>1, <2>4
    <3> QED
      BY <1>2, <1>7, <2>1, <2>4, <3>1, <3>2, <3>3
  <2> QED
    BY <2>3, <2>4
<1>8. CASE \E b : deferred'[d] = [i \in DOMAIN deferred[d] |-> Forget(deferred[d][i], b)]
  <2>1. PICK b : deferred'[d] = [i \in DOMAIN deferred[d] |-> Forget(deferred[d][i], b)]
    BY <1>8
  <2>2. /\ \A i \in DOMAIN deferred'[d] : ~deferred'[d][i].wait
        /\ deferred'[d] # <<>> => deferred[d] # <<>> /\ HeadTime(d)' = HeadTime(d)
    BY <2>1, <1>7
  <2>3. deferred'[d] # <<>> => HeadTime(d)' >= HeadTime(d)
    BY <1>1, <2>2
  <2> QED
    BY <2>2, <2>3
<1> QED
  BY <1>3, <1>4, <1>5, <1>6, <1>8 DEF QueueMoves

\* A deadline that covers d goes on covering it, whatever the surfaces do.
LEMMA CoveredStays ==
  ASSUME TypeOK, TypeOK', NEW d \in Surfaces, TimedOnly(d), QueueMoves(d), Ungated(d),
         draining = d => drainNow = now, now' = now,
         timers' = timers, staged' = staged
  PROVE  /\ TimedOnly(d)'
         /\ \A at \in Nat : Covered(d, at) => Covered(d, at)'
<1>1. /\ \A i \in DOMAIN deferred'[d] : ~deferred'[d][i].wait
      /\ deferred'[d] # <<>> /\ deferred[d] = <<>> =>
            pending[d].time > now /\ HeadTime(d)' = pending[d].time
      /\ deferred'[d] # <<>> /\ deferred[d] # <<>> =>
            HeadTime(d)' >= HeadTime(d) \/ HeadTime(d) <= now
  BY TimedQueue DEF TimedOnly
<1>2. now \in Nat /\ HeadTime(d) \in Nat /\ HeadTime(d)' \in Nat /\ pending[d].time \in Nat
  <2>1. HeadTime(d) \in 0..MaxTime /\ MaxTime \in Nat /\ pending[d] \in State
    BY HeadTimeType, SurfaceAssumption DEF TypeOK
  <2>2. HeadTime(d)' \in 0..MaxTime
    <3>1. deferred'[d] \in Seq(State)
      BY DEF TypeOK
    <3>2. deferred'[d] # <<>> => Head(deferred'[d]) \in State
      BY <3>1
    <3> QED
      BY <2>1, <3>2 DEF HeadTime, State
  <2>3. now \in 0..MaxTime
    BY DEF TypeOK
  <2> QED
    BY <2>1, <2>2, <2>3 DEF State
<1>3. TimedOnly(d)'
  <2>1. ~pending'[d].wait
    BY DEF TimedOnly, Ungated
  <2>2. pending'[d].time # 0 \/ deferred'[d] # <<>> => d \in timers'
    BY <1>1, <1>2 DEF TimedOnly, Ungated
  <2>3. pending'[d].time > now' => staged'[d] = pending'[d].time
    BY <1>2 DEF TimedOnly, Ungated
  <2> QED
    BY <1>1, <2>1, <2>2, <2>3 DEF TimedOnly
<1>4. ASSUME NEW at \in Nat, Covered(d, at)
      PROVE  Covered(d, at)'
  <2>1. pending'[d].time > now' => at # 0 /\ at <= pending'[d].time
    BY <1>2, <1>4 DEF Covered, Ungated
  <2>2. deferred'[d] # <<>> => at # 0 /\ (at <= HeadTime(d)' \/ at <= now')
    BY <1>1, <1>2, <1>4 DEF Covered
  <2> QED
    BY <2>1, <2>2 DEF Covered
<1> QED
  BY <1>3, <1>4

LEMMA ArmedElsewhere ==
  ASSUME PacingTypeOK, PacingTypeOK', TimingClient, TickInv,
         \A s \in Surfaces : ArmedAt(s), Elsewhere
  PROVE  TickInv' /\ \A s \in Surfaces : ArmedAt(s)'
<1> USE DEF pacingVars, tickVars
<1>1. /\ TypeOK /\ TypeOK' /\ wakeup \in Nat /\ now \in Nat /\ "fifo" \notin client.uses
      /\ ~ticking /\ ~ticking' /\ visiting = NoSurface /\ visiting' = NoSurface
      /\ timers' = timers /\ staged' = staged /\ wakeup' = wakeup /\ left' = left
      /\ MaxTime \in Nat
  <2>1. TypeOK /\ TypeOK' /\ MaxTime \in Nat /\ wakeup \in 0..MaxTime
    BY SurfaceAssumption DEF PacingTypeOK
  <2>2. now \in 0..MaxTime
    BY <2>1 DEF TypeOK
  <2> QED
    BY <2>1, <2>2 DEF TimingClient, TickInv, Elsewhere
<1>2. CASE TimePasses
  <2>1. /\ now' = now + 1 /\ deferred' = deferred /\ pending' = pending
        /\ draining' = NoSurface
    BY <1>2 DEF TimePasses, queueVars, loopVars
  <2>2. \A d \in Surfaces : /\ HeadTime(d)' = HeadTime(d) /\ HeadTime(d) \in Nat
                            /\ pending[d].time \in Nat
    <3>1. \A d \in Surfaces : HeadTime(d) \in 0..MaxTime /\ pending[d] \in State
      BY <1>1, HeadTimeType DEF TypeOK
    <3> QED
      BY <1>1, <2>1, <3>1 DEF HeadTime, State
  <2>3. TickInv'
    BY <1>1, <2>1 DEF TickInv
  <2>4. ASSUME NEW d \in Surfaces
        PROVE  ArmedAt(d)'
    <3>1. TimedOnly(d)'
      BY <1>1, <2>1, <2>2 DEF ArmedAt, TimedOnly
    <3>2. Covered(d, wakeup)'
      BY <1>1, <2>1, <2>2 DEF ArmedAt, Covered
    <3>3. visiting' # d
      BY <1>1, SurfaceAssumption
    <3> QED
      BY <1>1, <3>1, <3>2, <3>3 DEF ArmedAt
  <2> QED
    BY <2>3, <2>4
<1>3. ASSUME NEW s \in Surfaces, ClientStep(s) \/ CompositorStep(s)
      PROVE  TickInv' /\ \A d \in Surfaces : ArmedAt(d)'
  <2>1. now' = now /\ (draining' # NoSurface => drainNow' = now')
    BY <1>1, <1>3, LoopSteps DEF TickInv
  <2>2. TickInv'
    BY <1>1, <2>1 DEF TickInv
  <2>3. ASSUME NEW d \in Surfaces
        PROVE  ArmedAt(d)'
    <3>1. QueueMoves(d) /\ Ungated(d) /\ (draining = d => drainNow = now)
      BY <1>1, <1>3, QueueSteps, PendingSteps, SurfaceAssumption DEF TickInv
    <3>2. TimedOnly(d)' /\ \A at \in Nat : Covered(d, at) => Covered(d, at)'
      BY <1>1, <2>1, <3>1, CoveredStays DEF ArmedAt
    <3>3. Covered(d, wakeup)'
      BY <1>1, <3>2 DEF ArmedAt, Covered
    <3>4. visiting' # d
      BY <1>1, SurfaceAssumption
    <3> QED
      BY <1>1, <3>2, <3>3, <3>4 DEF ArmedAt
  <2> QED
    BY <2>2, <2>3
<1> QED
  BY <1>1, <1>2, <1>3, ClientType DEF Elsewhere

LEMMA ArmedDraining ==
  ASSUME PacingTypeOK, PacingTypeOK', TimingClient, TickInv,
         \A s \in Surfaces : ArmedAt(s), Draining
  PROVE  TickInv' /\ \A s \in Surfaces : ArmedAt(s)'
<1> USE DEF pacingVars, tickVars
<1>1. PICK s \in Surfaces : DrainStep(s) \/ DrainEnd(s)
  BY ClientType DEF Draining, PacingTypeOK
<1>2. /\ TypeOK /\ TypeOK' /\ next \in Nat /\ "fifo" \notin client.uses /\ now \in Nat
      /\ ticking /\ ticking' /\ visiting' = visiting /\ next' = next
      /\ timers' = timers /\ staged' = staged /\ left' = left /\ MaxTime \in Nat
  <2>1. TypeOK /\ TypeOK' /\ MaxTime \in Nat /\ next \in 0..MaxTime
    BY SurfaceAssumption DEF PacingTypeOK
  <2>2. now \in 0..MaxTime
    BY <2>1 DEF TypeOK
  <2> QED
    BY <2>1, <2>2 DEF TimingClient, TickInv, Draining
<1>3. draining = s /\ draining # NoSurface /\ visiting = s /\ drainNow = now /\ now' = now
  BY <1>1, <1>2, SurfaceAssumption DEF DrainStep, DrainEnd, TickInv, worldVars
<1>4. drainNow' = drainNow /\ draining' \in {draining, NoSurface}
  BY <1>1 DEF DrainStep, DrainEnd, loopVars
<1>5. TickInv'
  BY <1>2, <1>3, <1>4 DEF TickInv
<1>6. ASSUME NEW d \in Surfaces
      PROVE  ArmedAt(d)'
  <2>1. QueueMoves(d) /\ Ungated(d)
    BY <1>1, <1>2, QueueSteps, PendingSteps DEF CompositorStep
  <2>2. TimedOnly(d)' /\ \A at \in Nat : Covered(d, at) => Covered(d, at)'
    BY <1>2, <1>3, <2>1, CoveredStays DEF ArmedAt
  <2>3. ASSUME d \in timers' \ left'
        PROVE  Covered(d, next)'
    BY <1>2, <2>2, <2>3 DEF ArmedAt, Covered
  <2>4. ASSUME visiting' = d, draining' = NoSurface, deferred'[d] # <<>>
        PROVE  HeadTime(d)' > now'
    <3>1. d = s /\ DrainEnd(s) /\ deferred' = deferred
      BY <1>1, <1>2, <1>3, <2>4 DEF DrainStep, DrainEnd, loopVars, queueVars
    <3>2. GateBlocks(s, Head(deferred[s]), now)
      BY <1>3, <2>4, <3>1 DEF DrainEnd
    <3>3. ~Head(deferred[s]).wait
      <4>1. 1 \in DOMAIN deferred[s] /\ Head(deferred[s]) = deferred[s][1]
        <5>1. deferred[s] \in Seq(State) /\ deferred[s] # <<>>
          BY <1>2, <2>4, <3>1 DEF TypeOK
        <5> QED
          BY <5>1
      <4> QED
        BY <4>1 DEF ArmedAt, TimedOnly
    <3> QED
      BY <1>3, <2>4, <3>1, <3>2, <3>3 DEF GateBlocks, HeadTime
  <2> QED
    BY <1>2, <2>2, <2>3, <2>4 DEF ArmedAt
<1> QED
  BY <1>5, <1>6

\* The steps of the manager itself leave clock and queues alone.
LEMMA ArmedTick ==
  ASSUME PacingTypeOK, PacingTypeOK', TimingClient, TickInv,
         \A s \in Surfaces : ArmedAt(s), Fire \/ Rearm
  PROVE  TickInv' /\ \A s \in Surfaces : ArmedAt(s)'
<1>1. /\ MaxTime \in Nat /\ MaxSleep \in Nat \ {0} /\ next \in Nat /\ now \in Nat
      /\ NoSurface \notin Surfaces
      /\ \A d \in Surfaces : HeadTime(d) \in Nat /\ pending[d].time \in Nat
  <2>1. TypeOK /\ MaxTime \in Nat /\ next \in 0..MaxTime
    BY SurfaceAssumption DEF PacingTypeOK
  <2>2. now \in 0..MaxTime /\ \A d \in Surfaces : pending[d] \in State
    BY <2>1 DEF TypeOK
  <2>3. \A d \in Surfaces : HeadTime(d) \in 0..MaxTime
    BY <2>1, HeadTimeType
  <2> QED
    BY <2>1, <2>2, <2>3, SurfaceAssumption, SleepAssumption DEF State
<1>2. /\ pending' = pending /\ deferred' = deferred /\ now' = now
      /\ draining' = draining /\ drainNow' = drainNow
      /\ timers' = timers /\ staged' = staged /\ visiting' = visiting
      /\ \A d \in Surfaces : HeadTime(d)' = HeadTime(d)
  BY DEF Fire, Rearm, StartTick, vars, queueVars, loopVars, worldVars, HeadTime
<1>3. \A d \in Surfaces : TimedOnly(d)'
  BY <1>2 DEF ArmedAt, TimedOnly
<1>4. CASE Fire
  <2>1. ticking' /\ left' = timers /\ draining = NoSurface /\ visiting = NoSurface
    BY <1>4 DEF Fire, StartTick, TickInv
  <2> QED
    BY <1>1, <1>2, <1>3, <2>1 DEF TickInv, ArmedAt
<1>5. CASE Rearm
  <2>1. ~ticking' /\ ticking /\ left = {} /\ left' = {} /\ visiting = NoSurface
        /\ wakeup' = ArmFor(next)
    BY <1>5 DEF Rearm
  <2>2. next # 0 => ArmFor(next) # 0 /\ ArmFor(next) <= next
    BY <1>1 DEF ArmFor
  <2>3. ASSUME NEW d \in Surfaces
        PROVE  Covered(d, wakeup)'
    <3>1. CASE d \in timers
      <4>1. Covered(d, next)
        BY <2>1, <3>1 DEF ArmedAt
      <4>2. next # 0 => wakeup' # 0 /\ wakeup' <= next /\ wakeup' \in Nat
        BY <1>1, <2>1, <2>2 DEF ArmFor
      <4> QED
        BY <1>1, <1>2, <4>1, <4>2 DEF Covered
    <3>2. CASE d \notin timers
      BY <1>1, <1>2, <3>2 DEF ArmedAt, TimedOnly, Covered
    <3> QED
      BY <3>1, <3>2
  <2>4. TickInv'
    BY <1>2, <2>1 DEF TickInv
  <2> QED
    BY <1>1, <1>2, <1>3, <2>1, <2>3, <2>4 DEF ArmedAt
<1> QED
  BY <1>4, <1>5

LEMMA ArmedVisit ==
  ASSUME PacingTypeOK, PacingTypeOK', TimingClient, TickInv,
         \A s \in Surfaces : ArmedAt(s), NEW s \in Surfaces, Visit(s) \/ Visited(s)
  PROVE  TickInv' /\ \A d \in Surfaces : ArmedAt(d)'
<1>1. /\ MaxTime \in Nat /\ next \in Nat /\ now \in Nat /\ staged \in [Surfaces -> Nat]
      /\ NoSurface \notin Surfaces
      /\ \A d \in Surfaces : HeadTime(d) \in Nat /\ pending[d].time \in Nat
  <2>1. TypeOK /\ MaxTime \in Nat /\ next \in 0..MaxTime /\ staged \in [Surfaces -> 0..MaxTime]
    BY SurfaceAssumption DEF PacingTypeOK
  <2>2. now \in 0..MaxTime /\ \A d \in Surfaces : pending[d] \in State
    BY <2>1 DEF TypeOK
  <2>3. \A d \in Surfaces : HeadTime(d) \in 0..MaxTime
    BY <2>1, HeadTimeType
  <2>4. staged \in [Surfaces -> Nat]
    BY <2>1
  <2> QED
    BY <2>1, <2>2, <2>3, <2>4, SurfaceAssumption DEF State
<1>2. /\ pending' = pending /\ deferred' = deferred /\ now' = now
      /\ timers' = timers /\ ticking /\ ticking'
      /\ \A d \in Surfaces : HeadTime(d)' = HeadTime(d)
  <2>1. pending' = pending /\ deferred' = deferred /\ now' = now /\ timers' = timers
    BY DEF Visit, Visited, ReleaseDeferred, vars, queueVars, worldVars
  <2>2. ticking /\ ticking' = ticking
    BY <1>1 DEF Visit, Visited, TickInv
  <2> QED
    BY <2>1, <2>2 DEF HeadTime
<1>3. CASE Visit(s)
  <2>1. /\ visiting = NoSurface /\ draining = NoSurface /\ s \in left
        /\ visiting' = s /\ left' = left /\ next' = next
        /\ staged' = [staged EXCEPT ![s] = IF @ <= now THEN 0 ELSE @]
        /\ \/ draining' = s /\ drainNow' = now
           \/ draining' = NoSurface /\ deferred[s] = <<>>
    BY <1>3 DEF Visit, ReleaseDeferred, vars, loopVars
  <2>2. TickInv'
    BY <1>1, <1>2, <2>1 DEF TickInv
  <2>3. \A d \in Surfaces : TimedOnly(d)'
    BY <1>1, <1>2, <2>1 DEF ArmedAt, TimedOnly
  <2>4. \A d \in Surfaces : d \in timers' \ left' => Covered(d, next)'
    BY <1>2, <2>1 DEF ArmedAt, Covered
  <2>5. \A d \in Surfaces : visiting' = d /\ draining' = NoSurface => deferred'[d] = <<>>
    BY <1>1, <1>2, <2>1
  <2> QED
    BY <1>2, <2>2, <2>3, <2>4, <2>5 DEF ArmedAt
<1>4. CASE Visited(s)
  <2>1. /\ visiting = s /\ draining = NoSurface /\ draining' = NoSurface
        /\ visiting' = NoSurface /\ left' = left \ {s} /\ staged' = staged
        /\ next' = Sooner(next, Want(s))
    BY <1>4 DEF Visited, vars, loopVars
  <2>2. TickInv'
    BY <1>2, <2>1 DEF TickInv
  <2>3. \A d \in Surfaces : TimedOnly(d)'
    BY <1>2, <2>1 DEF ArmedAt, TimedOnly
  <2>4. /\ Want(s) \in Nat /\ next' \in Nat
        /\ next # 0 => next' # 0 /\ next' <= next
        /\ Want(s) # 0 => next' # 0 /\ next' <= Want(s)
    <3>1. Want(s) \in Nat
      BY <1>1 DEF Want, Sooner
    <3> QED
      BY <1>1, <2>1, <3>1 DEF Sooner
  <2>5. ASSUME NEW d \in Surfaces, d \in timers \ left, d # s
        PROVE  Covered(d, next)'
    <3>1. Covered(d, next)
      BY <1>2, <2>5 DEF ArmedAt
    <3> QED
      BY <1>1, <1>2, <2>4, <3>1 DEF Covered
  <2>6. Covered(s, next)'
    <3>1. deferred[s] # <<>> => HeadTime(s) > now
      BY <2>1 DEF ArmedAt
    <3>2. pending[s].time > now => staged[s] = pending[s].time
      BY DEF ArmedAt, TimedOnly
    <3>3. deferred[s] # <<>> => Want(s) # 0 /\ Want(s) <= HeadTime(s)
      BY <1>1, <3>1 DEF Want, Sooner
    <3>4. pending[s].time > now => Want(s) # 0 /\ Want(s) <= pending[s].time
      BY <1>1, <3>2 DEF Want, Sooner
    <3> QED
      BY <1>1, <1>2, <2>4, <3>3, <3>4 DEF Covered
  <2>7. \A d \in Surfaces : d \in timers' \ left' => Covered(d, next)'
    BY <1>2, <2>1, <2>5, <2>6
  <2> QED
    BY <1>1, <1>2, <2>1, <2>2, <2>3, <2>7 DEF ArmedAt
<1> QED
  BY <1>3, <1>4

LEMMA ArmedRequest ==
  ASSUME PacingTypeOK, PacingTypeOK', TimingClient, TickInv,
         \A d \in Surfaces : ArmedAt(d), NEW s \in Surfaces,
         \/ GetTimer(s) \/ SurfaceGone(s)
         \/ \E t \in 1..client.time : SetTimestamp(s, t)
  PROVE  TickInv' /\ \A d \in Surfaces : ArmedAt(d)'
<1>1. /\ MaxTime \in Nat /\ now \in Nat /\ staged \in [Surfaces -> Nat]
      /\ NoSurface \notin Surfaces
      /\ pending \in [Surfaces -> State] /\ deferred \in [Surfaces -> Seq(State)]
  <2>1. TypeOK /\ MaxTime \in Nat /\ staged \in [Surfaces -> 0..MaxTime]
    BY SurfaceAssumption DEF PacingTypeOK
  <2>2. now \in 0..MaxTime
    BY <2>1 DEF TypeOK
  <2>3. staged \in [Surfaces -> Nat]
    BY <2>1
  <2>4. pending \in [Surfaces -> State] /\ deferred \in [Surfaces -> Seq(State)]
    BY <2>1 DEF TypeOK
  <2> QED
    BY <2>1, <2>2, <2>3, <2>4, SurfaceAssumption
<1>2. CASE GetTimer(s)
  <2>1. /\ pending' = pending /\ deferred' = deferred /\ now' = now
        /\ draining' = draining /\ staged' = staged /\ timers' = timers \cup {s}
        /\ wakeup' = wakeup /\ visiting' = visiting /\ left' = left
        /\ ~ticking /\ ~ticking' /\ draining = NoSurface /\ visiting = NoSurface
    BY <1>2 DEF GetTimer, vars, queueVars, loopVars, worldVars, tickVars, TickInv
  <2>2. \A d \in Surfaces : HeadTime(d)' = HeadTime(d)
    BY <2>1 DEF HeadTime
  <2>3. TickInv'
    BY <2>1 DEF TickInv
  <2>4. ASSUME NEW d \in Surfaces
        PROVE  ArmedAt(d)'
    <3>1. TimedOnly(d)'
      BY <2>1 DEF ArmedAt, TimedOnly
    <3>2. Covered(d, wakeup)'
      BY <2>1, <2>2 DEF ArmedAt, Covered
    <3> QED
      BY <1>1, <2>1, <3>1, <3>2 DEF ArmedAt
  <2> QED
    BY <2>3, <2>4
<1>3. CASE SurfaceGone(s)
  <2>1. /\ pending' = [pending EXCEPT ![s] = EmptyState]
        /\ deferred' = [deferred EXCEPT ![s] = <<>>]
        /\ now' = now /\ draining' = draining /\ timers' = timers \ {s}
        /\ staged' = [staged EXCEPT ![s] = 0]
        /\ wakeup' = wakeup /\ visiting' = visiting /\ left' = left
        /\ ~ticking /\ ~ticking' /\ draining = NoSurface /\ visiting = NoSurface
    BY <1>3 DEF SurfaceGone, DestroySurface, loopVars, worldVars, tickVars, TickInv
  <2>2. ASSUME NEW d \in Surfaces, d # s
        PROVE  /\ pending'[d] = pending[d] /\ deferred'[d] = deferred[d]
               /\ HeadTime(d)' = HeadTime(d)
               /\ staged'[d] = staged[d] /\ (d \in timers' <=> d \in timers)
    BY <1>1, <2>1, <2>2 DEF HeadTime
  <2>3. /\ deferred'[s] = <<>> /\ pending'[s].time = 0 /\ ~pending'[s].wait
    BY <1>1, <2>1 DEF EmptyState
  <2>4. ASSUME NEW d \in Surfaces
        PROVE  ArmedAt(d)'
    <3>1. CASE d = s
      <4>1. TimedOnly(d)'
        BY <1>1, <2>1, <2>3, <3>1 DEF TimedOnly
      <4>2. Covered(d, wakeup)'
        BY <1>1, <2>1, <2>3, <3>1 DEF Covered
      <4> QED
        BY <1>1, <2>1, <4>1, <4>2 DEF ArmedAt
    <3>2. CASE d # s
      <4>1. TimedOnly(d)'
        BY <2>1, <2>2, <3>2 DEF ArmedAt, TimedOnly
      <4>2. Covered(d, wakeup)'
        BY <2>1, <2>2, <3>2 DEF ArmedAt, Covered
      <4> QED
        BY <1>1, <2>1, <4>1, <4>2 DEF ArmedAt
    <3> QED
      BY <3>1, <3>2
  <2>5. TickInv'
    BY <2>1 DEF TickInv
  <2> QED
    BY <2>4, <2>5
<1>4. ASSUME NEW t \in 1..client.time, SetTimestamp(s, t)
      PROVE  TickInv' /\ \A d \in Surfaces : ArmedAt(d)'
  <2>1. /\ pending' = [pending EXCEPT ![s] = [pending[s] EXCEPT !.time = t]]
        /\ deferred' = deferred /\ now' = now /\ draining' = draining
        /\ draining = NoSurface /\ timers' = timers /\ s \in timers
        /\ staged' = [staged EXCEPT ![s] = t]
        /\ ticking' /\ left' = timers /\ visiting' = visiting /\ visiting = NoSurface
    BY <1>4 DEF SetTimestamp, SetCommitTime, SetGate, StartTick, queueVars, loopVars,
                worldVars, TickInv
  <2>2. TickInv'
    BY <2>1 DEF TickInv
  <2>3. pending'[s].time = t /\ pending'[s].wait = pending[s].wait
    BY <1>1, <2>1 DEF State
  <2>4. ASSUME NEW d \in Surfaces
        PROVE  TimedOnly(d)'
    <3>1. CASE d = s
      BY <1>1, <2>1, <2>3, <3>1 DEF ArmedAt, TimedOnly
    <3>2. CASE d # s
      BY <1>1, <2>1, <3>2 DEF ArmedAt, TimedOnly
    <3> QED
      BY <3>1, <3>2
  <2> QED
    BY <1>1, <2>1, <2>2, <2>4 DEF ArmedAt
<1> QED
  BY <1>2, <1>3, <1>4

LEMMA ArmedStep == PacingTypeOK /\ ArmedInv /\ [PacingNext]_allVars => ArmedInv'
<1> SUFFICES ASSUME PacingTypeOK, ArmedInv, [PacingNext]_allVars, TimingClient'
             PROVE  TickInv' /\ \A s \in Surfaces : ArmedAt(s)'
  BY DEF ArmedInv
<1>1. PacingTypeOK' /\ [Next]_vars
  BY PacingTypeStep, PacingSteps DEF allVars
<1>2. TimingClient
  BY <1>1, SameClient DEF TimingClient
<1>3. TickInv /\ \A s \in Surfaces : ArmedAt(s)
  BY <1>2 DEF ArmedInv
<1>4. CASE Elsewhere \/ Draining \/ Fire \/ Rearm
  BY <1>1, <1>2, <1>3, <1>4, ArmedElsewhere, ArmedDraining, ArmedTick
<1>5. ASSUME NEW s \in Surfaces,
             \/ GetTimer(s) \/ SurfaceGone(s) \/ Visit(s) \/ Visited(s)
             \/ \E t \in 1..client.time : SetTimestamp(s, t)
      PROVE  TickInv' /\ \A d \in Surfaces : ArmedAt(d)'
  BY <1>1, <1>2, <1>3, <1>5, ArmedRequest, ArmedVisit
<1>6. ASSUME NEW s, DestroyTimer(s)
      PROVE  FALSE
  BY <1>2, <1>6 DEF DestroyTimer, TimingClient
<1>7. CASE UNCHANGED allVars
  <2>1. UNCHANGED <<client, pending, deferred, now, draining, drainNow, timers, staged,
                    wakeup, ticking, left, visiting, next>>
    BY <1>7 DEF allVars, vars, pacingVars, tickVars, queueVars, loopVars, worldVars
  <2> QED
    BY <1>3, <2>1 DEF TickInv, ArmedAt, TimedOnly, Covered, HeadTime
<1>8. client.surfaces \subseteq Surfaces
  BY ClientType DEF PacingTypeOK
<1> QED
  BY <1>4, <1>5, <1>6, <1>7, <1>8 DEF PacingNext

LEMMA ArmedInvHolds == PacingSpec => []ArmedInv
<1>1. ASSUME PacingInit
      PROVE  ArmedInv
  <2>1. TickInv
    BY <1>1 DEF PacingInit, Init, TickInv
  <2>2. ASSUME NEW s \in Surfaces
        PROVE  ArmedAt(s)
    <3>1. /\ pending[s].time = 0 /\ ~pending[s].wait /\ deferred[s] = <<>>
          /\ now = 0 /\ ~ticking /\ visiting = NoSurface
      BY <1>1 DEF PacingInit, Init, EmptyState
    <3> QED
      BY <3>1, SurfaceAssumption DEF ArmedAt, TimedOnly, Covered
  <2> QED
    BY <2>1, <2>2 DEF ArmedInv
<1> QED
  BY <1>1, ArmedStep, PacingTypeCorrect, PTL DEF PacingSpec

\* Between two events a commit that only its stamp holds back never waits past the
\* armed timer, for any number of surfaces and parked commits, whatever is
\* committed from inside a tick, and with any cap on one sleep.
THEOREM WakeupIsArmed == PacingSpec => []WakeupArmed
<1>1. PacingTypeOK /\ ArmedInv => WakeupArmed
  <2> SUFFICES ASSUME PacingTypeOK, ArmedInv, Idle, TimingClient, NEW s \in Surfaces,
                      deferred[s] # <<>>, Head(deferred[s]).time > now
               PROVE  wakeup \in 1..Head(deferred[s]).time
    BY DEF WakeupArmed, WakeupCovers, TimingClient
  <2>1. Covered(s, wakeup) /\ HeadTime(s) = Head(deferred[s]).time
    BY DEF ArmedInv, ArmedAt, Idle, HeadTime
  <2>2. MaxTime \in Nat /\ wakeup \in 0..MaxTime /\ HeadTime(s) \in 0..MaxTime
    BY HeadTimeType, SurfaceAssumption DEF PacingTypeOK
  <2>3. now \in 0..MaxTime
    BY DEF PacingTypeOK, TypeOK
  <2> QED
    BY <2>1, <2>2, <2>3 DEF Covered
<1> QED
  BY <1>1, PacingTypeCorrect, ArmedInvHolds, PTL
=============================================================================
