--------------------------- MODULE XdgShellProofs ---------------------------
(***************************************************************************)
(* Proofs about XdgShell: the type invariant; that no pointer between      *)
(* xdg_surfaces, toplevels and popups is left dangling, in whatever order  *)
(* they are destroyed; and that what is shown has content and its client   *)
(* knows its states. All for any number of surfaces, windows and menus.    *)
(***************************************************************************)
EXTENDS XdgShell, TLAPS

-----------------------------------------------------------------------------
(* The operators on one object *)

\* The pointers of a toplevel.
SameEnds(q, r) == q.owner = r.owner /\ q.parent = r.parent /\ q.transients = r.transients

SameActivated(q, r) == ("activated" \in q.states) <=> ("activated" \in r.states)

LEMMA GeometryIsSize ==
    ASSUME NEW s PROVE Geometry(s) \subseteq {0, 1}
  BY DEF Geometry

LEMMA SubstituteIsSize ==
    ASSUME NEW r, NEW size \in {0, 1} PROVE Substitute(r, size) \subseteq {0, 1}
  BY GeometryIsSize DEF Substitute

\* configure() keeps the type and the pointers of a toplevel.
LEMMA ConfiguredKeeps ==
    ASSUME NEW r \in Toplevel, NEW size \in {0, 1}, NEW q \in Configured(r, size)
    PROVE  q \in Toplevel /\ SameEnds(q, r) /\ q.states = r.states
<1>1. CASE r.owner = None
  BY <1>1 DEF Configured, SameEnds
<1>2. CASE r.owner # None
  <2>1. PICK n \in {0, 1} : q = [r EXCEPT !.pending = n, !.told = r.states \cap Sent]
    BY <1>2, SubstituteIsSize DEF Configured
  <2>2. r.states \cap Sent \in (SUBSET Sent) \cup {Untold}
    OBVIOUS
  <2> QED
    BY <2>1, <2>2 DEF Toplevel, SameEnds
<1> QED
  BY <1>1, <1>2

\* So does a change of state.
LEMMA WithStateKeeps ==
    ASSUME NEW r \in Toplevel, NEW state \in States, NEW on \in BOOLEAN,
           NEW q \in WithState(r, state, on)
    PROVE  /\ q \in Toplevel /\ SameEnds(q, r)
           /\ state # "activated" => SameActivated(q, r)
           /\ state = "activated" => (("activated" \in q.states) <=> on)
<1> DEFINE changed == [r EXCEPT !.states = IF on THEN @ \cup {state} ELSE @ \ {state}]
<1>1. changed \in Toplevel /\ SameEnds(changed, r) /\ changed.pending = r.pending
  BY DEF Toplevel, SameEnds
<1>5. /\ state # "activated" => SameActivated(changed, r)
      /\ state = "activated" => (("activated" \in changed.states) <=> on)
  BY DEF Toplevel, SameActivated
<1>2. r.pending \in {0, 1}
  BY DEF Toplevel
<1>3. \/ q = r /\ ((state \in r.states) <=> on)
      \/ q = changed
      \/ q \in Configured(changed, r.pending)
  BY DEF WithState
<1> HIDE DEF changed
<1>4. ASSUME q \in Configured(changed, r.pending)
      PROVE  q \in Toplevel /\ SameEnds(q, changed) /\ q.states = changed.states
  BY <1>1, <1>2, <1>4, ConfiguredKeeps
<1> QED
  BY <1>1, <1>3, <1>4, <1>5 DEF SameEnds, SameActivated

\* dismiss() keeps the pointers of a popup.
LEMMA DismissedKeeps ==
    ASSUME NEW P \in [Popups -> Popup \cup {None}], NEW D,
           \A p \in D : p \in Popups /\ P[p] # None
    PROVE  /\ Dismissed(P, D) \in [Popups -> Popup \cup {None}]
           /\ \A p \in Popups :
                 /\ (Dismissed(P, D)[p] = None) <=> (P[p] = None)
                 /\ P[p] # None => /\ Dismissed(P, D)[p].owner = P[p].owner
                                   /\ Dismissed(P, D)[p].parent = P[p].parent
<1>1. ASSUME NEW p \in Popups
      PROVE  /\ Dismissed(P, D)[p] \in Popup \cup {None}
             /\ (Dismissed(P, D)[p] = None) <=> (P[p] = None)
             /\ P[p] # None => /\ Dismissed(P, D)[p].owner = P[p].owner
                               /\ Dismissed(P, D)[p].parent = P[p].parent
  <2>1. CASE p \in D
    <3>1. P[p] \in Popup
      BY <2>1
    <3>2. Dismissed(P, D)[p] = [P[p] EXCEPT !.done = TRUE, !.mapped = FALSE]
      BY <2>1 DEF Dismissed
    <3>3. Dismissed(P, D)[p] \in Popup
      BY <3>1, <3>2 DEF Popup
    <3>4. /\ Dismissed(P, D)[p].owner = P[p].owner
          /\ Dismissed(P, D)[p].parent = P[p].parent
      BY <3>1, <3>2 DEF Popup
    <3> QED
      BY <2>1, <3>3, <3>4, ShellAssumption
  <2>2. CASE p \notin D
    BY <2>2 DEF Dismissed
  <2> QED
    BY <2>1, <2>2
<1>2. Dismissed(P, D) = [p \in Popups |-> Dismissed(P, D)[p]]
  BY DEF Dismissed
<1> QED
  BY <1>1, <1>2

LEMMA ChainIsMenus ==
    ASSUME NEW P, NEW roots PROVE Chain(P, roots) \subseteq Menus
  BY DEF Chain

-----------------------------------------------------------------------------
(* Steps that keep every pointer *)

\* The inductive invariant: a focused window must be alive for focus() to be
\* applied to it.
IInv == TypeOK /\ LinksAgree /\ FocusedAlone

SameXs == \A s \in Surfaces :
    /\ (xs'[s] = None) <=> (xs[s] = None)
    /\ xs[s] # None => /\ xs'[s].toplevel = xs[s].toplevel
                       /\ xs'[s].popup = xs[s].popup
                       /\ xs'[s].child_popups = xs[s].child_popups

SameTl == \A t \in Toplevels :
    /\ (tl'[t] = None) <=> (tl[t] = None)
    /\ tl[t] # None => SameEnds(tl'[t], tl[t])

SameFocus == \A t \in Toplevels : tl[t] # None => SameActivated(tl'[t], tl[t])

SamePp == \A p \in Popups :
    /\ (pp'[p] = None) <=> (pp[p] = None)
    /\ pp[p] # None => pp'[p].owner = pp[p].owner /\ pp'[p].parent = pp[p].parent

\* What TypeOK says of one object.
LEMMA Parts ==
    ASSUME TypeOK
    PROVE  /\ \A s \in Xdgs : /\ xs[s] \in XdgSurface
                              /\ xs[s].toplevel \in Toplevels \cup {None}
                              /\ xs[s].popup \in Popups \cup {None}
                              /\ xs[s].child_popups \subseteq Popups
           /\ \A t \in Windows : /\ tl[t] \in Toplevel
                                 /\ tl[t].owner \in Surfaces \cup {None}
                                 /\ tl[t].parent \in Toplevels \cup {None}
                                 /\ tl[t].transients \subseteq Toplevels
                                 /\ tl[t].pending \in {0, 1}
           /\ \A p \in Menus : /\ pp[p] \in Popup
                               /\ pp[p].owner \in Surfaces \cup {None}
                               /\ pp[p].parent \in Surfaces \cup {None}
<1>1. \A s \in Xdgs : xs[s] \in XdgSurface
  BY DEF TypeOK, Xdgs
<1>2. \A t \in Windows : tl[t] \in Toplevel
  BY DEF TypeOK, Windows
<1>3. \A p \in Menus : pp[p] \in Popup
  BY DEF TypeOK, Menus
<1>4. \A r \in XdgSurface : /\ r.toplevel \in Toplevels \cup {None}
                            /\ r.popup \in Popups \cup {None}
                            /\ r.child_popups \subseteq Popups
  BY DEF XdgSurface
<1>5. \A r \in Toplevel : /\ r.owner \in Surfaces \cup {None}
                          /\ r.parent \in Toplevels \cup {None}
                          /\ r.transients \subseteq Toplevels
                          /\ r.pending \in {0, 1}
  BY DEF Toplevel
<1>6. \A r \in Popup : r.owner \in Surfaces \cup {None} /\ r.parent \in Surfaces \cup {None}
  BY DEF Popup
<1> QED
  BY <1>1, <1>2, <1>3, <1>4, <1>5, <1>6

LEMMA LinksKept ==
    ASSUME TypeOK, LinksAgree, SameXs, SameTl, SamePp
    PROVE  LinksAgree'
<1>1. Xdgs' = Xdgs /\ Windows' = Windows /\ Menus' = Menus
  BY DEF SameXs, SameTl, SamePp, Xdgs, Windows, Menus
<1>2. RolesAgree'
  <2>1. ASSUME NEW s \in Xdgs
        PROVE  /\ xs'[s].toplevel # None =>
                     xs'[s].toplevel \in Windows /\ tl'[xs'[s].toplevel].owner = s
               /\ xs'[s].popup # None => xs'[s].popup \in Menus /\ pp'[xs'[s].popup].owner = s
               /\ xs'[s].toplevel = None \/ xs'[s].popup = None
    BY <2>1 DEF LinksAgree, RolesAgree, SameXs, SameTl, SamePp, SameEnds, Xdgs, Windows, Menus
  <2>2. ASSUME NEW t \in Windows, tl'[t].owner # None
        PROVE  tl'[t].owner \in Xdgs /\ xs'[tl'[t].owner].toplevel = t
    BY <2>2 DEF LinksAgree, RolesAgree, SameXs, SameTl, SameEnds, Xdgs, Windows
  <2>3. ASSUME NEW p \in Menus, pp'[p].owner # None
        PROVE  pp'[p].owner \in Xdgs /\ xs'[pp'[p].owner].popup = p
    BY <2>3 DEF LinksAgree, RolesAgree, SameXs, SamePp, Xdgs, Menus
  <2> QED
    BY <1>1, <2>1, <2>2, <2>3 DEF RolesAgree
<1>3. AnchorsAgree'
  BY <1>1 DEF LinksAgree, AnchorsAgree, SameXs, SamePp, Xdgs, Menus
<1>4. TransientsAgree'
  BY <1>1 DEF LinksAgree, TransientsAgree, SameTl, SameEnds, Windows
<1> QED
  BY <1>2, <1>3, <1>4 DEF LinksAgree

LEMMA FocusKept ==
    ASSUME FocusedAlone, SameTl, SameFocus, UNCHANGED focused
    PROVE  FocusedAlone'
  BY DEF FocusedAlone, SameTl, SameFocus, SameActivated, Windows

\* A step that leaves an array alone, or changes one entry into one with the
\* same pointers.
LEMMA OneToplevel ==
    ASSUME TypeOK, NEW t \in Windows, NEW r \in Toplevel, SameEnds(r, tl[t]),
           tl' = [tl EXCEPT ![t] = r]
    PROVE  /\ tl' \in [Toplevels -> Toplevel \cup {None}] /\ SameTl
           /\ SameActivated(r, tl[t]) => SameFocus
  BY ShellAssumption DEF TypeOK, Windows, SameTl, SameEnds, SameFocus, SameActivated

LEMMA OnePopup ==
    ASSUME TypeOK, NEW p \in Menus, NEW r \in Popup, r.owner = pp[p].owner,
           r.parent = pp[p].parent, pp' = [pp EXCEPT ![p] = r]
    PROVE  pp' \in [Popups -> Popup \cup {None}] /\ SamePp
  BY ShellAssumption DEF TypeOK, Menus, SamePp

LEMMA Unchanged ==
    /\ UNCHANGED xs => SameXs
    /\ UNCHANGED tl => SameTl /\ SameFocus
    /\ UNCHANGED pp => SamePp
  BY DEF SameXs, SameTl, SamePp, SameEnds, SameFocus, SameActivated

-----------------------------------------------------------------------------
(* Commits *)

LEMMA InitialCommitKeeps ==
    ASSUME IInv, NEW s \in Surfaces, InitialCommit(s)
    PROVE  /\ xs' \in [Surfaces -> XdgSurface \cup {None}] /\ SameXs
           /\ tl' \in [Toplevels -> Toplevel \cup {None}] /\ SameTl /\ SameFocus
           /\ pp' \in [Popups -> Popup \cup {None}] /\ SamePp
           /\ view' = view
<1> DEFINE t == xs[s].toplevel
           p == xs[s].popup
<1>1. s \in Xdgs /\ view' = view
  BY DEF InitialCommit, Xdgs
<1>2. xs' \in [Surfaces -> XdgSurface \cup {None}] /\ SameXs
  <2>1. PICK r : r = [xs[s] EXCEPT !.initialized = TRUE]
    OBVIOUS
  <2>2. r \in XdgSurface /\ r.toplevel = t /\ r.popup = p /\ r.child_popups = xs[s].child_popups
    BY <1>1, <2>1, Parts DEF XdgSurface, IInv
  <2>3. xs' = [xs EXCEPT ![s] = r]
    BY <2>1 DEF InitialCommit
  <2> QED
    BY <1>1, <2>2, <2>3, ShellAssumption DEF IInv, TypeOK, SameXs, Xdgs
<1>3. tl' \in [Toplevels -> Toplevel \cup {None}] /\ SameTl /\ SameFocus
  <2>1. CASE t = None
    BY <2>1, Unchanged DEF InitialCommit, IInv, TypeOK
  <2>2. CASE t # None
    <3>1. t \in Windows
      BY <1>1, <2>2 DEF IInv, LinksAgree, RolesAgree
    <3>2. PICK r \in Configured(tl[t], tl[t].pending) : tl' = [tl EXCEPT ![t] = r]
      BY <2>2 DEF InitialCommit
    <3>3. r \in Toplevel /\ SameEnds(r, tl[t]) /\ SameActivated(r, tl[t])
      BY <3>1, <3>2, Parts, ConfiguredKeeps DEF IInv, SameActivated
    <3> QED
      BY <3>1, <3>2, <3>3, OneToplevel DEF IInv
  <2> QED
    BY <2>1, <2>2
<1>4. pp' \in [Popups -> Popup \cup {None}] /\ SamePp
  <2>1. CASE ~(t = None /\ p # None)
    BY <2>1, Unchanged DEF InitialCommit, IInv, TypeOK
  <2>2. CASE t = None /\ p # None
    <3>1. p \in Menus
      BY <1>1, <2>2 DEF IInv, LinksAgree, RolesAgree
    <3>2. PICK r : r = [pp[p] EXCEPT !.told = TRUE]
      OBVIOUS
    <3>3. pp' = [pp EXCEPT ![p] = r]
      BY <2>2, <3>2 DEF InitialCommit
    <3>4. r \in Popup /\ r.owner = pp[p].owner /\ r.parent = pp[p].parent
      BY <3>1, <3>2, Parts DEF Popup, IInv
    <3> QED
      BY <3>1, <3>3, <3>4, OnePopup DEF IInv
  <2> QED
    BY <2>1, <2>2
<1> QED
  BY <1>1, <1>2, <1>3, <1>4

LEMMA ToplevelCommitKeeps ==
    ASSUME IInv, NEW s \in Surfaces, ToplevelCommit(s)
    PROVE  /\ tl' \in [Toplevels -> Toplevel \cup {None}] /\ SameTl /\ SameFocus
           /\ view' \subseteq Toplevels \cup Popups
<1> DEFINE t == xs[s].toplevel
           buffer == surface'[s] = "shown"
<1>1. t \in Windows /\ t \in Toplevels
  BY DEF ToplevelCommit, IInv, LinksAgree, RolesAgree, Xdgs, Windows
<1>2. PICK r : r = [tl[t] EXCEPT !.mapped = buffer]
  OBVIOUS
<1>3. r \in Toplevel /\ SameEnds(r, tl[t]) /\ SameActivated(r, tl[t])
  <2>1. tl[t] \in Toplevel /\ buffer \in BOOLEAN
    BY <1>1, Parts DEF IInv
  <2> HIDE DEF buffer, t
  <2> QED
    BY <1>2, <2>1 DEF Toplevel, SameEnds, SameActivated
<1>4. tl' = [tl EXCEPT ![t] = r]
  BY <1>2 DEF ToplevelCommit
<1>5. view' = view \cup {t} \/ view' = view \ {t}
  BY DEF ToplevelCommit
<1> QED
  BY <1>1, <1>3, <1>4, <1>5, OneToplevel DEF IInv, TypeOK

LEMMA PopupCommitKeeps ==
    ASSUME IInv, NEW s \in Surfaces, PopupCommit(s)
    PROVE  /\ pp' \in [Popups -> Popup \cup {None}] /\ SamePp
           /\ view' \subseteq Toplevels \cup Popups
<1> DEFINE p == xs[s].popup
<1>1. p \in Menus /\ p \in Popups
  BY DEF PopupCommit, IInv, LinksAgree, RolesAgree, Xdgs, Menus
<1>2. PopupShows(p) \in BOOLEAN
  BY DEF PopupShows
<1>3. PICK r : r = [pp[p] EXCEPT !.mapped = PopupShows(p)]
  OBVIOUS
<1>4. r \in Popup /\ r.owner = pp[p].owner /\ r.parent = pp[p].parent
  BY <1>1, <1>2, <1>3, Parts DEF Popup, IInv
<1>5. pp' = [pp EXCEPT ![p] = r]
  BY <1>3 DEF PopupCommit
<1>6. view' = view \cup {p} \/ view' = view \ {p}
  BY DEF PopupCommit
<1> QED
  BY <1>1, <1>4, <1>5, <1>6, OnePopup DEF IInv, TypeOK

LEMMA CommitStep ==
    ASSUME IInv, NEW s \in Surfaces, NEW content \in {"bare", "shown"}, Commit(s, content)
    PROVE  IInv'
<1>1. /\ surface' \in [Surfaces -> {"gone", "bare", "shown"}]
      /\ UNCHANGED <<setting, focused, late>>
  BY DEF Commit, IInv, TypeOK
<1>2. CASE InitialCommit(s)
  BY <1>1, <1>2, InitialCommitKeeps, LinksKept, FocusKept DEF IInv, TypeOK
<1>3. CASE ToplevelCommit(s)
  <2>1. UNCHANGED <<xs, pp>>
    BY <1>3 DEF ToplevelCommit
  <2> QED
    BY <1>1, <1>3, <2>1, ToplevelCommitKeeps, LinksKept, FocusKept, Unchanged DEF IInv, TypeOK
<1>4. CASE PopupCommit(s)
  <2>1. UNCHANGED <<xs, tl>>
    BY <1>4 DEF PopupCommit
  <2> QED
    BY <1>1, <1>4, <2>1, PopupCommitKeeps, LinksKept, FocusKept, Unchanged DEF IInv, TypeOK
<1>5. CASE PlainCommit(s)
  <2>1. UNCHANGED <<xs, tl, pp, view>>
    BY <1>5 DEF PlainCommit
  <2> QED
    BY <1>1, <2>1, LinksKept, FocusKept, Unchanged DEF IInv, TypeOK
<1> QED
  BY <1>2, <1>3, <1>4, <1>5 DEF Commit

-----------------------------------------------------------------------------
(* States and focus *)

LEMMA BecomesStep ==
    ASSUME IInv, NEW t \in Toplevels, NEW results, UNCHANGED surface, Becomes(t, results),
           tl[t] # None => \A q \in results : /\ q \in Toplevel
                                              /\ SameEnds(q, tl[t])
                                              /\ SameActivated(q, tl[t])
    PROVE  IInv'
<1>1. t \in Windows
  BY DEF Becomes, Windows
<1>2. PICK r \in results : tl' = [tl EXCEPT ![t] = r]
  BY DEF Becomes
<1>3. r \in Toplevel /\ SameEnds(r, tl[t]) /\ SameActivated(r, tl[t])
  BY <1>1, <1>2 DEF Windows
<1>4. tl' \in [Toplevels -> Toplevel \cup {None}] /\ SameTl /\ SameFocus
  BY <1>1, <1>2, <1>3, OneToplevel DEF IInv
<1>5. UNCHANGED <<setting, surface, xs, pp, focused, view, late>>
  BY DEF Becomes
<1> QED
  BY <1>4, <1>5, LinksKept, FocusKept, Unchanged DEF IInv, TypeOK

LEMMA ConfigureStep ==
    ASSUME IInv, NEW t \in Toplevels, NEW size \in {0, 1}, Configure(t, size)
    PROVE  IInv'
<1> DEFINE Asked(r) == [r EXCEPT !.asked = IF r.owner = None THEN @ ELSE size]
           results == {Asked(r) : r \in Configured(tl[t], size)}
<1>1. ASSUME tl[t] # None, NEW q \in results
      PROVE  q \in Toplevel /\ SameEnds(q, tl[t]) /\ SameActivated(q, tl[t])
  <2>1. PICK r \in Configured(tl[t], size) : q = Asked(r)
    BY <1>1
  <2>2. r \in Toplevel /\ SameEnds(r, tl[t]) /\ r.states = tl[t].states
    BY <1>1, <2>1, Parts, ConfiguredKeeps DEF IInv, Windows
  <2>3. q \in Toplevel /\ SameEnds(q, r) /\ q.states = r.states
    BY <2>1, <2>2 DEF Toplevel, SameEnds
  <2> QED
    BY <2>2, <2>3 DEF SameEnds, SameActivated
<1>2. UNCHANGED surface /\ Becomes(t, results)
  BY DEF Configure
<1> HIDE DEF results
<1> QED
  BY <1>1, <1>2, BecomesStep

LEMMA StateStep ==
    ASSUME IInv, NEW t \in Toplevels, NEW state \in setting.managed, NEW on \in BOOLEAN,
           SetState(t, state, on) \/ RequestState(t, state, on)
    PROVE  IInv'
<1>1. state \in States /\ state # "activated"
  BY ShellAssumption DEF IInv, TypeOK, Setting
<1>2. UNCHANGED surface /\ Becomes(t, WithState(tl[t], state, on))
  BY DEF SetState, RequestState
<1>3. ASSUME tl[t] # None, NEW q \in WithState(tl[t], state, on)
      PROVE  q \in Toplevel /\ SameEnds(q, tl[t]) /\ SameActivated(q, tl[t])
  BY <1>1, <1>3, Parts, WithStateKeeps DEF IInv, Windows
<1> QED
  BY <1>2, <1>3, BecomesStep

LEMMA FocusStep ==
    ASSUME IInv, NEW t \in Toplevels \cup {None}, Focus(t)
    PROVE  IInv'
<1>1. PICK was \in Deactivated(focused), is \in Activated(t) :
         tl' = [u \in Toplevels |-> CASE u = focused -> was
                                      [] u # focused /\ u = t -> is
                                      [] OTHER -> tl[u]]
  BY DEF Focus
<1>2. /\ t # focused /\ focused' = t
      /\ UNCHANGED <<setting, surface, xs, pp, view, late>>
  BY DEF Focus
<1>3. t # None => t \in Windows
  BY DEF Focus, Windows
<1>4. focused # None => focused \in Windows
  BY DEF IInv, FocusedAlone
<1>5. ASSUME focused # None
      PROVE  was \in Toplevel /\ SameEnds(was, tl[focused]) /\ "activated" \notin was.states
  BY <1>1, <1>4, <1>5, Parts, WithStateKeeps DEF Deactivated, IInv, States, Sent
<1>6. ASSUME t # None
      PROVE  is \in Toplevel /\ SameEnds(is, tl[t]) /\ "activated" \in is.states
  BY <1>1, <1>3, <1>6, Parts, WithStateKeeps DEF Activated, IInv, States, Sent
<1>7. ASSUME NEW u \in Toplevels
      PROVE  /\ u = focused => tl'[u] = was
             /\ u = t => tl'[u] = is
             /\ u # focused /\ u # t => tl'[u] = tl[u]
  BY <1>1, <1>2
<1>8. None \notin Toplevels
  BY ShellAssumption
<1>9. tl' \in [Toplevels -> Toplevel \cup {None}]
  <2>1. \A u \in Toplevels : tl'[u] \in Toplevel \cup {None}
    BY <1>5, <1>6, <1>7, <1>8 DEF IInv, TypeOK
  <2> QED
    BY <1>1, <2>1
<1>10. SameTl
  BY <1>3, <1>4, <1>5, <1>6, <1>7, <1>8, ShellAssumption DEF SameTl, SameEnds, Windows
<1>11. FocusedAlone'
  <2>1. focused' # None => focused' \in Windows'
    BY <1>2, <1>3, <1>10 DEF SameTl, Windows
  <2>2. ASSUME NEW u \in Toplevels, tl'[u] # None
        PROVE  ("activated" \in tl'[u].states) <=> u = focused'
    <3>1. tl[u] # None
      BY <1>10, <2>2 DEF SameTl
    <3>2. ("activated" \in tl[u].states) <=> u = focused
      BY <3>1 DEF IInv, FocusedAlone, Windows
    <3> QED
      BY <1>2, <1>5, <1>6, <1>7, <1>8, <3>2
  <2> QED
    BY <2>1, <2>2 DEF FocusedAlone, Windows
<1> QED
  BY <1>2, <1>9, <1>10, <1>11, LinksKept, Unchanged DEF IInv, TypeOK

-----------------------------------------------------------------------------
(* Dismissal *)

LEMMA DismissStep ==
    ASSUME IInv, NEW p \in Popups, Dismiss(p)
    PROVE  IInv'
<1> DEFINE D == Chain(pp, {p})
<1>1. D \subseteq Menus
  BY ChainIsMenus
<1>2. /\ pp' = Dismissed(pp, D)
      /\ view' = view \ D
      /\ UNCHANGED <<setting, surface, xs, tl, focused, late>>
  BY DEF Dismiss
<1> HIDE DEF D
<1>3. pp' \in [Popups -> Popup \cup {None}] /\ SamePp
  BY <1>1, <1>2, DismissedKeeps DEF IInv, TypeOK, Menus, SamePp
<1> QED
  BY <1>2, <1>3, LinksKept, FocusKept, Unchanged DEF IInv, TypeOK

LEMMA MenuStep ==
    ASSUME IInv, NEW p \in Popups, Grab(p) \/ Reposition(p)
    PROVE  IInv'
<1>1. p \in Menus /\ UNCHANGED <<setting, surface, xs, tl, focused, view, late>>
  BY DEF Grab, Reposition, Menus
<1>2. PICK r : /\ r \in {[pp[p] EXCEPT !.grabbed = TRUE],
                         [pp[p] EXCEPT !.told = @ \/ pp[p].owner # None]}
               /\ pp' = [pp EXCEPT ![p] = r]
  BY DEF Grab, Reposition
<1>3. r \in Popup /\ r.owner = pp[p].owner /\ r.parent = pp[p].parent
  <2>1. pp[p] \in Popup
    BY <1>1, Parts DEF IInv
  <2>2. CASE r = [pp[p] EXCEPT !.grabbed = TRUE]
    BY <2>1, <2>2 DEF Popup
  <2>3. CASE r = [pp[p] EXCEPT !.told = @ \/ pp[p].owner # None]
    BY <2>1, <2>3 DEF Popup
  <2> QED
    BY <1>2, <2>2, <2>3
<1>4. pp' \in [Popups -> Popup \cup {None}] /\ SamePp
  BY <1>1, <1>2, <1>3, OnePopup DEF IInv
<1> QED
  BY <1>1, <1>4, LinksKept, FocusKept, Unchanged DEF IInv, TypeOK

LEMMA SurfaceStep ==
    ASSUME IInv, NEW s \in Surfaces, CreateSurface(s) \/ DestroySurface(s)
    PROVE  IInv'
<1>1. /\ surface' \in [Surfaces -> {"gone", "bare", "shown"}]
      /\ UNCHANGED <<setting, xs, tl, pp, focused, view, late>>
  BY DEF CreateSurface, DestroySurface, IInv, TypeOK
<1> QED
  BY <1>1, LinksKept, FocusKept, Unchanged DEF IInv, TypeOK

-----------------------------------------------------------------------------
(* Creation *)

LEMMA GetXdgSurfaceStep ==
    ASSUME IInv, NEW s \in Surfaces, GetXdgSurface(s)
    PROVE  IInv'
<1>1. PICK new : new = [toplevel |-> None, popup |-> None, child_popups |-> {},
                        initialized |-> FALSE]
  OBVIOUS
<1>2. new \in XdgSurface /\ new # None
  <2>1. new \in XdgSurface
    BY <1>1 DEF XdgSurface
  <2> QED
    BY <2>1, ShellAssumption
<1>3. /\ new.toplevel = None /\ new.popup = None /\ new.child_popups = {}
      /\ xs[s] = None /\ xs' = [xs EXCEPT ![s] = new]
      /\ UNCHANGED <<setting, surface, tl, pp, focused, view, late>>
  BY <1>1 DEF GetXdgSurface
<1>4. /\ Windows' = Windows /\ Menus' = Menus /\ Xdgs' = Xdgs \cup {s}
      /\ s \notin Xdgs /\ xs'[s] = new /\ \A x \in Xdgs : xs'[x] = xs[x]
  BY <1>2, <1>3 DEF Windows, Menus, Xdgs, IInv, TypeOK
<1>5. TypeOK'
  BY <1>2, <1>3 DEF IInv, TypeOK
<1>6. RolesAgree'
  BY <1>3, <1>4 DEF IInv, LinksAgree, RolesAgree
<1>7. AnchorsAgree'
  <2>1. {p \in Menus : pp[p].parent = s} = {}
    BY <1>4, ShellAssumption DEF IInv, LinksAgree, AnchorsAgree, Xdgs
  <2> QED
    BY <1>3, <1>4, <2>1 DEF IInv, LinksAgree, AnchorsAgree
<1>8. TransientsAgree' /\ FocusedAlone'
  BY <1>3, <1>4 DEF IInv, LinksAgree, TransientsAgree, FocusedAlone
<1> QED
  BY <1>5, <1>6, <1>7, <1>8 DEF IInv, LinksAgree

LEMMA GetToplevelStep ==
    ASSUME IInv, NEW s \in Surfaces, NEW t \in Toplevels, GetToplevel(s, t)
    PROVE  IInv'
<1>1. PICK new : new = [owner |-> s, mapped |-> FALSE, states |-> {}, pending |-> 0,
                        parent |-> None, transients |-> {}, told |-> Untold, asked |-> 0]
  OBVIOUS
<1>2. PICK r : r = [xs[s] EXCEPT !.toplevel = t]
  OBVIOUS
<1>3. new \in Toplevel /\ new # None
  <2>1. new \in Toplevel
    BY <1>1 DEF Toplevel
  <2> QED
    BY <2>1, ShellAssumption
<1>4. /\ new.owner = s /\ new.parent = None /\ new.transients = {} /\ new.states = {}
  BY <1>1
<1>5. s \in Xdgs /\ xs[s].toplevel = None /\ xs[s].popup = None /\ tl[t] = None
  BY DEF GetToplevel, HasRole, Xdgs
<1>6. /\ r \in XdgSurface /\ r # None
      /\ r.toplevel = t /\ r.popup = None /\ r.child_popups = xs[s].child_popups
  <2>1. xs[s] \in XdgSurface
    BY <1>5, Parts DEF IInv
  <2>2. r \in XdgSurface /\ r.toplevel = t /\ r.popup = None /\ r.child_popups = xs[s].child_popups
    BY <1>2, <1>5, <2>1 DEF XdgSurface
  <2> QED
    BY <2>2, ShellAssumption
<1>7. tl' = [tl EXCEPT ![t] = new] /\ xs' = [xs EXCEPT ![s] = r]
  BY <1>1, <1>2 DEF GetToplevel
<1>8. /\ UNCHANGED <<setting, surface, pp, focused, view>>
      /\ late' \subseteq Toplevels \cup Popups
  BY DEF GetToplevel, MarkLate, IInv, TypeOK
<1>9. TypeOK'
  BY <1>3, <1>6, <1>7, <1>8 DEF IInv, TypeOK
<1>10. /\ Windows' = Windows \cup {t} /\ t \notin Windows
       /\ Menus' = Menus /\ Xdgs' = Xdgs
       /\ tl'[t] = new /\ \A u \in Windows : tl'[u] = tl[u]
       /\ xs'[s] = r /\ \A x \in Xdgs \ {s} : xs'[x] = xs[x]
  BY <1>3, <1>5, <1>6, <1>7, <1>8 DEF Windows, Menus, Xdgs, IInv, TypeOK
<1>11. t # None /\ s # None
  BY ShellAssumption
<1>12. RolesAgree'
  <2>1. \A u \in Windows : tl[u].owner # s
    BY <1>5, ShellAssumption DEF IInv, LinksAgree, RolesAgree, Windows
  <2>2. \A p \in Menus : pp[p].owner # s
    BY <1>5, ShellAssumption DEF IInv, LinksAgree, RolesAgree, Menus
  <2> QED
    BY <1>4, <1>5, <1>6, <1>8, <1>10, <2>1, <2>2 DEF IInv, LinksAgree, RolesAgree
<1>13. AnchorsAgree'
  BY <1>6, <1>8, <1>10 DEF IInv, LinksAgree, AnchorsAgree
<1>14. TransientsAgree'
  <2>1. \A u \in Windows : tl[u].parent # t
    BY <1>10, <1>11 DEF IInv, LinksAgree, TransientsAgree
  <2>2. {u \in Windows' : tl'[u].parent = t} = {}
    BY <1>4, <1>10, <1>11, <2>1
  <2>3. ASSUME NEW u \in Windows
        PROVE  {v \in Windows' : tl'[v].parent = u} = {v \in Windows : tl[v].parent = u}
    <3>1. u # None
      BY ShellAssumption DEF Windows
    <3> QED
      BY <1>4, <1>10, <3>1
  <2>4. ASSUME NEW u \in Windows
        PROVE  /\ tl'[u].transients = {v \in Windows' : tl'[v].parent = u}
               /\ tl'[u].parent # None => tl'[u].parent \in Windows' \ {u}
    BY <1>10, <2>3 DEF IInv, LinksAgree, TransientsAgree
  <2> QED
    BY <1>4, <1>10, <2>2, <2>4 DEF TransientsAgree
<1>15. FocusedAlone'
  BY <1>4, <1>8, <1>10, <1>11 DEF IInv, FocusedAlone
<1> QED
  BY <1>9, <1>12, <1>13, <1>14, <1>15 DEF IInv, LinksAgree

LEMMA GetPopupStep ==
    ASSUME IInv, NEW s \in Surfaces, NEW p \in Popups, NEW parent \in Surfaces \cup {None},
           GetPopup(s, p, parent)
    PROVE  IInv'
<1> DEFINE After(x) == [xs[x] EXCEPT !.popup = IF x = s THEN p ELSE @,
                                     !.child_popups = IF x = parent THEN @ \cup {p} ELSE @]
<1>1. PICK new : new = [owner |-> s, parent |-> parent, mapped |-> FALSE, grabbed |-> FALSE,
                        done |-> FALSE, told |-> FALSE]
  OBVIOUS
<1>2. new \in Popup /\ new # None /\ new.owner = s /\ new.parent = parent
  <2>1. new \in Popup
    BY <1>1 DEF Popup
  <2> QED
    BY <1>1, <2>1, ShellAssumption
<1>3. /\ s \in Xdgs /\ xs[s].toplevel = None /\ xs[s].popup = None /\ pp[p] = None
      /\ parent # None => parent \in Xdgs
  BY DEF GetPopup, HasRole, Xdgs
<1>4. /\ pp' = [pp EXCEPT ![p] = new]
      /\ xs' = [x \in Surfaces |-> IF x \notin {s, parent} THEN xs[x] ELSE After(x)]
      /\ UNCHANGED <<setting, surface, tl, focused, view>>
      /\ late' \subseteq Toplevels \cup Popups
  BY <1>1 DEF GetPopup, MarkLate, IInv, TypeOK
<1>5. ASSUME NEW x \in Xdgs
      PROVE  /\ After(x) \in XdgSurface /\ After(x) # None
             /\ After(x).toplevel = xs[x].toplevel
             /\ After(x).popup = IF x = s THEN p ELSE xs[x].popup
             /\ After(x).child_popups =
                   IF x = parent THEN xs[x].child_popups \cup {p} ELSE xs[x].child_popups
  <2>1. xs[x] \in XdgSurface
    BY Parts DEF IInv
  <2>2. After(x) \in XdgSurface
    BY <2>1 DEF XdgSurface
  <2> QED
    BY <2>1, <2>2, ShellAssumption DEF XdgSurface
<1>6. ASSUME NEW x \in Surfaces
      PROVE  /\ xs[x] = None => xs'[x] = None
             /\ xs[x] # None =>
                   /\ xs'[x] \in XdgSurface /\ xs'[x] # None
                   /\ xs'[x].toplevel = xs[x].toplevel
                   /\ xs'[x].popup = IF x = s THEN p ELSE xs[x].popup
                   /\ xs'[x].child_popups =
                         IF x = parent THEN xs[x].child_popups \cup {p} ELSE xs[x].child_popups
  <2>1. CASE x \in {s, parent}
    <3>1. x \in Xdgs /\ xs'[x] = After(x)
      BY <1>3, <1>4, <2>1, ShellAssumption
    <3> HIDE DEF After
    <3> QED
      BY <1>5, <3>1 DEF Xdgs
  <2>2. CASE x \notin {s, parent}
    BY <1>4, <2>2 DEF IInv, TypeOK
  <2> QED
    BY <2>1, <2>2
<1> HIDE DEF After
<1>7. TypeOK'
  <2>1. xs' \in [Surfaces -> XdgSurface \cup {None}]
    <3>1. \A x \in Surfaces : xs'[x] \in XdgSurface \cup {None}
      BY <1>6
    <3> QED
      BY <1>4, <3>1
  <2> QED
    BY <1>2, <1>4, <2>1 DEF IInv, TypeOK
<1>8. /\ Windows' = Windows /\ Xdgs' = Xdgs
      /\ Menus' = Menus \cup {p} /\ p \notin Menus
      /\ pp'[p] = new /\ \A q \in Menus : pp'[q] = pp[q]
  BY <1>2, <1>3, <1>4, <1>6 DEF Windows, Menus, Xdgs, IInv, TypeOK
<1>9. \A x \in Xdgs :
         /\ xs'[x].toplevel = xs[x].toplevel
         /\ xs'[x].popup = IF x = s THEN p ELSE xs[x].popup
         /\ xs'[x].child_popups =
               IF x = parent THEN xs[x].child_popups \cup {p} ELSE xs[x].child_popups
  BY <1>6 DEF Xdgs
<1>10. p # None /\ s # None
  BY ShellAssumption
<1>11. RolesAgree'
  <2>1. \A q \in Menus : pp[q].owner # s
    BY <1>3, <1>10, ShellAssumption DEF IInv, LinksAgree, RolesAgree, Menus
  <2>2. ASSUME NEW x \in Xdgs
        PROVE  /\ xs'[x].toplevel # None =>
                     xs'[x].toplevel \in Windows /\ tl'[xs'[x].toplevel].owner = x
               /\ xs'[x].popup # None => xs'[x].popup \in Menus' /\ pp'[xs'[x].popup].owner = x
               /\ xs'[x].toplevel = None \/ xs'[x].popup = None
    <3>1. /\ xs[x].toplevel # None =>
                xs[x].toplevel \in Windows /\ tl[xs[x].toplevel].owner = x
          /\ xs[x].popup # None => xs[x].popup \in Menus /\ pp[xs[x].popup].owner = x
          /\ xs[x].toplevel = None \/ xs[x].popup = None
      BY DEF IInv, LinksAgree, RolesAgree
    <3>2. xs'[x].toplevel = xs[x].toplevel /\ tl' = tl
      BY <1>4, <1>9
    <3>3. CASE x = s
      <4>1. xs'[x].popup = p /\ xs'[x].toplevel = None
        BY <1>3, <1>9, <3>3
      <4> QED
        BY <1>2, <1>8, <3>3, <4>1
    <3>4. CASE x # s
      <4>1. xs'[x].popup = xs[x].popup
        BY <1>9, <3>4
      <4> QED
        BY <1>8, <3>1, <3>2, <4>1
    <3> QED
      BY <3>3, <3>4
  <2>3. ASSUME NEW t \in Windows, tl'[t].owner # None
        PROVE  tl'[t].owner \in Xdgs /\ xs'[tl'[t].owner].toplevel = t
    BY ZenonT(40), <1>4, <1>9, <2>3 DEF IInv, LinksAgree, RolesAgree
  <2>4. ASSUME NEW q \in Menus', pp'[q].owner # None
        PROVE  pp'[q].owner \in Xdgs /\ xs'[pp'[q].owner].popup = q
    <3>1. CASE q = p
      BY <1>2, <1>3, <1>8, <1>9, <3>1
    <3>2. CASE q # p
      <4>1. q \in Menus /\ pp'[q] = pp[q]
        BY <1>8, <3>2
      <4>2. pp[q].owner \in Xdgs /\ xs[pp[q].owner].popup = q /\ pp[q].owner # s
        BY <2>1, <2>4, <4>1 DEF IInv, LinksAgree, RolesAgree
      <4> QED
        BY <1>9, <4>1, <4>2
    <3> QED
      BY <3>1, <3>2
  <2> QED
    BY <1>8, <2>2, <2>3, <2>4 DEF RolesAgree
<1>12. AnchorsAgree'
  <2>1. ASSUME NEW x \in Xdgs
        PROVE  xs'[x].child_popups = {q \in Menus' : pp'[q].parent = x}
    <3>1. xs[x].child_popups = {q \in Menus : pp[q].parent = x}
      BY DEF IInv, LinksAgree, AnchorsAgree
    <3>2. CASE x = parent
      BY ZenonT(40), <1>2, <1>8, <1>9, <3>1, <3>2
    <3>3. CASE x # parent
      <4>1. xs'[x].child_popups = xs[x].child_popups
        BY <1>9, <3>3
      <4>2. \A q \in Menus' : q \in Menus /\ pp[q].parent = x <=> pp'[q].parent = x
        BY <1>2, <1>8, <3>3
      <4> QED
        BY <1>8, <3>1, <4>1, <4>2
    <3> QED
      BY <3>2, <3>3
  <2>2. ASSUME NEW q \in Menus', pp'[q].parent # None
        PROVE  pp'[q].parent \in Xdgs
    BY <1>2, <1>3, <1>8, <2>2 DEF IInv, LinksAgree, AnchorsAgree
  <2> QED
    BY <1>8, <2>1, <2>2 DEF AnchorsAgree
<1>13. TransientsAgree' /\ FocusedAlone'
  BY <1>4, <1>8 DEF IInv, LinksAgree, TransientsAgree, FocusedAlone
<1> QED
  BY <1>7, <1>11, <1>12, <1>13 DEF IInv, LinksAgree

-----------------------------------------------------------------------------
(* Transients *)

LEMMA SetParentStep ==
    ASSUME IInv, NEW t \in Toplevels, NEW parent \in Toplevels \cup {None}, SetParent(t, parent)
    PROVE  IInv'
<1>1. /\ t \in Windows /\ parent # t /\ (parent # None => parent \in Windows)
      /\ UNCHANGED <<setting, surface, xs, pp, focused, view, late>>
      /\ tl' = [u \in Toplevels |->
                 CASE u = t -> [tl[u] EXCEPT !.parent = parent]
                   [] u # t /\ u = parent -> [tl[u] EXCEPT !.transients = @ \cup {t}]
                   [] u # t /\ u # parent /\ u = tl[t].parent ->
                         [tl[u] EXCEPT !.transients = @ \ {t}]
                   [] OTHER -> tl[u]]
  BY DEF SetParent, Windows
<1>2. /\ tl[t].parent # None => tl[t].parent \in Windows \ {t}
      /\ None \notin Toplevels
  BY <1>1, ShellAssumption DEF IInv, LinksAgree, TransientsAgree
<1>3. ASSUME NEW u \in Toplevels
      PROVE  /\ tl'[u] \in Toplevel \cup {None}
             /\ (tl'[u] = None) <=> (tl[u] = None)
             /\ tl[u] # None =>
                   /\ tl'[u].owner = tl[u].owner /\ tl'[u].states = tl[u].states
                   /\ tl'[u].parent = IF u = t THEN parent ELSE tl[u].parent
                   /\ tl'[u].transients =
                         IF u = t THEN tl[u].transients
                         ELSE IF u = parent THEN tl[u].transients \cup {t}
                         ELSE IF u = tl[t].parent THEN tl[u].transients \ {t}
                         ELSE tl[u].transients
  <2>1. CASE u = t
    <3>1. tl[u] \in Toplevel
      BY <1>1, <2>1, Parts DEF IInv
    <3>2. tl'[u] = [tl[u] EXCEPT !.parent = parent]
      BY <1>1, <2>1
    <3>3. /\ tl'[u] \in Toplevel
          /\ tl'[u].owner = tl[u].owner /\ tl'[u].states = tl[u].states
          /\ tl'[u].parent = parent /\ tl'[u].transients = tl[u].transients
      BY <3>1, <3>2 DEF Toplevel
    <3> QED
      BY <2>1, <3>1, <3>3, ShellAssumption
  <2>2. CASE u # t /\ u = parent
    <3>1. tl[u] \in Toplevel
      BY <1>1, <1>2, <2>2, Parts DEF IInv
    <3>2. tl'[u] = [tl[u] EXCEPT !.transients = @ \cup {t}]
      BY <1>1, <2>2
    <3>3. /\ tl'[u] \in Toplevel
          /\ tl'[u].owner = tl[u].owner /\ tl'[u].states = tl[u].states
          /\ tl'[u].parent = tl[u].parent /\ tl'[u].transients = tl[u].transients \cup {t}
      BY <3>1, <3>2 DEF Toplevel
    <3> QED
      BY <2>2, <3>1, <3>3, ShellAssumption
  <2>3. CASE u # t /\ u # parent /\ u = tl[t].parent
    <3>1. tl[u] \in Toplevel
      BY <1>2, <2>3, Parts DEF IInv
    <3>2. tl'[u] = [tl[u] EXCEPT !.transients = @ \ {t}]
      BY <1>1, <2>3
    <3>3. /\ tl'[u] \in Toplevel
          /\ tl'[u].owner = tl[u].owner /\ tl'[u].states = tl[u].states
          /\ tl'[u].parent = tl[u].parent /\ tl'[u].transients = tl[u].transients \ {t}
      BY <3>1, <3>2 DEF Toplevel
    <3> QED
      BY <2>3, <3>1, <3>3, ShellAssumption
  <2>4. CASE u # t /\ u # parent /\ u # tl[t].parent
    <3>1. tl'[u] = tl[u]
      BY <1>1, <2>4
    <3> QED
      BY <2>4, <3>1 DEF IInv, TypeOK
  <2> QED
    BY <2>1, <2>2, <2>3, <2>4
<1>4. TypeOK'
  <2>1. tl' \in [Toplevels -> Toplevel \cup {None}]
    BY <1>1, <1>3
  <2> QED
    BY <1>1, <2>1 DEF IInv, TypeOK
<1>5. Windows' = Windows /\ Xdgs' = Xdgs /\ Menus' = Menus
  <2>1. \A u \in Toplevels : (tl'[u] = None) <=> (tl[u] = None)
    BY <1>3
  <2>2. xs' = xs /\ pp' = pp
    BY <1>1
  <2> QED
    BY <2>1, <2>2 DEF Windows, Xdgs, Menus
<1>6. \A u \in Windows :
         /\ tl'[u].owner = tl[u].owner /\ tl'[u].states = tl[u].states
         /\ tl'[u].parent = IF u = t THEN parent ELSE tl[u].parent
         /\ tl'[u].transients =
               IF u = t THEN tl[u].transients
               ELSE IF u = parent THEN tl[u].transients \cup {t}
               ELSE IF u = tl[t].parent THEN tl[u].transients \ {t}
               ELSE tl[u].transients
  BY <1>3 DEF Windows
<1>7. RolesAgree' /\ AnchorsAgree' /\ FocusedAlone'
  <2>1. \A u \in Windows : tl'[u].owner = tl[u].owner /\ tl'[u].states = tl[u].states
    BY <1>6
  <2>2. xs' = xs /\ pp' = pp /\ focused' = focused
    BY <1>1
  <2>3. RolesAgree'
    BY <1>5, <2>1, <2>2 DEF IInv, LinksAgree, RolesAgree
  <2>4. AnchorsAgree'
    BY <1>5, <2>2 DEF IInv, LinksAgree, AnchorsAgree
  <2>5. FocusedAlone'
    BY <1>5, <2>1, <2>2 DEF IInv, FocusedAlone
  <2> QED
    BY <2>3, <2>4, <2>5
<1>8. TransientsAgree'
  <2>1. ASSUME NEW u \in Windows
        PROVE  tl'[u].transients = {v \in Windows' : tl'[v].parent = u}
    <3>1. tl[u].transients = {v \in Windows : tl[v].parent = u}
      BY DEF IInv, LinksAgree, TransientsAgree
    <3>2. \A v \in Windows : v # t => tl'[v].parent = tl[v].parent
      BY <1>6
    <3>3. tl'[t].parent = parent
      BY <1>1, <1>6
    <3>4. CASE u = t
      <4>1. tl'[u].transients = tl[u].transients
        BY <1>6, <3>4
      <4>2. tl[t].parent # u /\ tl'[t].parent # u
        BY <1>1, <1>2, <3>3, <3>4
      <4> QED
        BY <1>5, <3>1, <3>2, <3>4, <4>1, <4>2
    <3>5. CASE u # t /\ u = parent
      <4>1. tl'[u].transients = tl[u].transients \cup {t}
        BY <1>6, <3>5
      <4> QED
        BY <1>1, <1>5, <3>1, <3>2, <3>3, <3>5, <4>1
    <3>6. CASE u # t /\ u # parent /\ u = tl[t].parent
      <4>1. tl'[u].transients = tl[u].transients \ {t}
        BY <1>6, <3>6
      <4> QED
        BY <1>1, <1>5, <3>1, <3>2, <3>3, <3>6, <4>1
    <3>7. CASE u # t /\ u # parent /\ u # tl[t].parent
      <4>1. tl'[u].transients = tl[u].transients
        BY <1>6, <3>7
      <4> QED
        BY <1>1, <1>5, <3>1, <3>2, <3>3, <3>7, <4>1
    <3> QED
      BY <3>4, <3>5, <3>6, <3>7
  <2>2. ASSUME NEW u \in Windows, tl'[u].parent # None
        PROVE  tl'[u].parent \in Windows \ {u}
    <3>1. tl'[u].parent = IF u = t THEN parent ELSE tl[u].parent
      BY <1>6
    <3>2. tl[u].parent # None => tl[u].parent \in Windows \ {u}
      BY DEF IInv, LinksAgree, TransientsAgree
    <3>3. parent # t /\ (parent # None => parent \in Windows)
      BY <1>1
    <3> QED
      BY <2>2, <3>1, <3>2, <3>3
  <2> QED
    BY <1>5, <2>1, <2>2 DEF TransientsAgree
<1> QED
  BY <1>4, <1>7, <1>8 DEF IInv, LinksAgree

-----------------------------------------------------------------------------
(* Destruction *)

LEMMA DestroyToplevelStep ==
    ASSUME IInv, NEW t \in Toplevels, DestroyToplevel(t)
    PROVE  IInv'
<1> DEFINE s == tl[t].owner
           After(u) == [tl[u] EXCEPT !.parent = IF u \in tl[t].transients THEN None ELSE @,
                                     !.transients = IF u = tl[t].parent THEN @ \ {t} ELSE @]
<1>1. /\ t \in Windows
      /\ tl' = Unlinked(t)
      /\ xs' = IF s = None THEN xs ELSE [xs EXCEPT ![s].toplevel = None]
      /\ focused' = IF focused = t THEN None ELSE focused
      /\ UNCHANGED <<setting, surface, pp>>
      /\ view' = view \ {t} /\ late' = late \ {t}
  BY DEF DestroyToplevel, Windows
<1>2. tl[t].transients = {u \in Windows : tl[u].parent = t}
  BY <1>1 DEF IInv, LinksAgree, TransientsAgree
<1>3. ASSUME NEW u \in Windows, u # t
      PROVE  /\ tl'[u] \in Toplevel /\ tl'[u] # None
             /\ tl'[u].owner = tl[u].owner /\ tl'[u].states = tl[u].states
             /\ tl'[u].parent = IF tl[u].parent = t THEN None ELSE tl[u].parent
             /\ tl'[u].transients =
                   IF u = tl[t].parent THEN tl[u].transients \ {t} ELSE tl[u].transients
  <2>1. tl[u] \in Toplevel
    BY Parts DEF IInv
  <2>2. tl'[u] = After(u)
    BY <1>1, <1>3 DEF Unlinked, Windows
  <2>3. /\ After(u) \in Toplevel
        /\ After(u).owner = tl[u].owner /\ After(u).states = tl[u].states
        /\ After(u).parent = IF u \in tl[t].transients THEN None ELSE tl[u].parent
        /\ After(u).transients =
              IF u = tl[t].parent THEN tl[u].transients \ {t} ELSE tl[u].transients
    BY <2>1 DEF Toplevel
  <2> HIDE DEF After
  <2> QED
    BY <1>2, <2>2, <2>3, ShellAssumption
<1> HIDE DEF After
<1>4. /\ Windows' = Windows \ {t} /\ Menus' = Menus
      /\ tl' \in [Toplevels -> Toplevel \cup {None}]
  <2>1. \A u \in Toplevels : (u \notin Windows \/ u = t) => tl'[u] = None
    BY <1>1 DEF Unlinked, Windows
  <2>2. \A u \in Toplevels : tl'[u] \in Toplevel \cup {None}
    BY <1>3, <2>1
  <2>3. tl' = [u \in Toplevels |-> tl'[u]]
    BY <1>1 DEF Unlinked
  <2> QED
    BY ZenonT(40), <1>1, <1>3, <2>1, <2>2, <2>3 DEF Windows, Menus
<1>5. s # None => s \in Xdgs /\ xs[s].toplevel = t
  BY <1>1 DEF IInv, LinksAgree, RolesAgree
<1>6. /\ xs' \in [Surfaces -> XdgSurface \cup {None}] /\ Xdgs' = Xdgs
      /\ \A x \in Xdgs : /\ xs'[x].toplevel = IF x = s THEN None ELSE xs[x].toplevel
                         /\ xs'[x].popup = xs[x].popup
                         /\ xs'[x].child_popups = xs[x].child_popups
  <2>1. CASE s = None
    <3>1. None \notin Xdgs
      BY ShellAssumption DEF Xdgs
    <3> QED
      BY <1>1, <2>1, <3>1 DEF IInv, TypeOK, Xdgs
  <2>2. CASE s # None
    <3>1. PICK r : r = [xs[s] EXCEPT !.toplevel = None]
      OBVIOUS
    <3>2. xs[s] \in XdgSurface
      BY <1>5, <2>2, Parts DEF IInv
    <3>3. /\ r \in XdgSurface /\ r.toplevel = None
          /\ r.popup = xs[s].popup /\ r.child_popups = xs[s].child_popups
      BY <3>1, <3>2 DEF XdgSurface
    <3>4. r # None
      BY <3>3, ShellAssumption
    <3>5. xs' = [xs EXCEPT ![s] = r]
      BY <1>1, <2>2, <3>1
    <3> HIDE DEF s
    <3> QED
      BY <1>5, <2>2, <3>3, <3>4, <3>5 DEF IInv, TypeOK, Xdgs
  <2> QED
    BY <2>1, <2>2
<1>7. TypeOK'
  BY <1>1, <1>4, <1>6 DEF IInv, TypeOK
<1>8. RolesAgree'
  <2>1. \A x \in Xdgs : xs[x].toplevel = t => x = s
    BY ShellAssumption DEF IInv, LinksAgree, RolesAgree
  <2>2. ASSUME NEW x \in Xdgs
        PROVE  /\ xs'[x].toplevel # None =>
                     xs'[x].toplevel \in Windows' /\ tl'[xs'[x].toplevel].owner = x
               /\ xs'[x].popup # None => xs'[x].popup \in Menus /\ pp[xs'[x].popup].owner = x
               /\ xs'[x].toplevel = None \/ xs'[x].popup = None
    <3>1. /\ xs[x].toplevel # None =>
                xs[x].toplevel \in Windows /\ tl[xs[x].toplevel].owner = x
          /\ xs[x].popup # None => xs[x].popup \in Menus /\ pp[xs[x].popup].owner = x
          /\ xs[x].toplevel = None \/ xs[x].popup = None
      BY DEF IInv, LinksAgree, RolesAgree
    <3>2. /\ xs'[x].toplevel = IF x = s THEN None ELSE xs[x].toplevel
          /\ xs'[x].popup = xs[x].popup
      BY <1>6
    <3>3. ASSUME xs'[x].toplevel # None
          PROVE  xs'[x].toplevel \in Windows' /\ tl'[xs'[x].toplevel].owner = x
      <4>1. x # s /\ xs'[x].toplevel = xs[x].toplevel
        BY <3>2, <3>3
      <4>2. xs[x].toplevel \in Windows /\ xs[x].toplevel # t
        BY <2>1, <3>1, <3>3, <4>1
      <4> QED
        BY <1>3, <1>4, <3>1, <3>3, <4>1, <4>2
    <3> HIDE DEF s
    <3> QED
      BY <3>1, <3>2, <3>3
  <2>3. ASSUME NEW u \in Windows', tl'[u].owner # None
        PROVE  tl'[u].owner \in Xdgs /\ xs'[tl'[u].owner].toplevel = u
    <3>1. u \in Windows /\ u # t /\ tl'[u].owner = tl[u].owner
      BY <1>3, <1>4
    <3>2. tl[u].owner \in Xdgs /\ xs[tl[u].owner].toplevel = u
      BY <2>3, <3>1 DEF IInv, LinksAgree, RolesAgree
    <3>3. tl[u].owner # s
      BY <1>5, <2>3, <3>1, <3>2
    <3> HIDE DEF s
    <3> QED
      BY <1>6, <3>1, <3>2, <3>3
  <2>4. ASSUME NEW p \in Menus, pp[p].owner # None
        PROVE  pp[p].owner \in Xdgs /\ xs'[pp[p].owner].popup = p
    <3> HIDE DEF s
    <3> QED
      BY <1>6, <2>4 DEF IInv, LinksAgree, RolesAgree
  <2> QED
    <3>1. pp' = pp /\ Menus' = Menus /\ Xdgs' = Xdgs
      BY <1>1, <1>6 DEF Menus
    <3> HIDE DEF s
    <3>2. \A x \in Xdgs' :
             /\ xs'[x].toplevel # None => xs'[x].toplevel \in Windows' /\ tl'[xs'[x].toplevel].owner = x
             /\ xs'[x].popup # None => xs'[x].popup \in Menus' /\ pp'[xs'[x].popup].owner = x
             /\ xs'[x].toplevel = None \/ xs'[x].popup = None
      BY <2>2, <3>1
    <3>3. \A u \in Windows' : tl'[u].owner # None => tl'[u].owner \in Xdgs' /\ xs'[tl'[u].owner].toplevel = u
      BY <2>3, <3>1
    <3>4. \A p \in Menus' : pp'[p].owner # None => pp'[p].owner \in Xdgs' /\ xs'[pp'[p].owner].popup = p
      BY <2>4, <3>1
    <3> QED
      BY <3>2, <3>3, <3>4 DEF RolesAgree
<1>9. AnchorsAgree'
  BY <1>1, <1>4, <1>6 DEF IInv, LinksAgree, AnchorsAgree
<1>10. TransientsAgree'
  <2>1. ASSUME NEW u \in Windows, u # t
        PROVE  /\ tl'[u].transients = {v \in Windows' : tl'[v].parent = u}
               /\ tl'[u].parent # None => tl'[u].parent \in Windows' \ {u}
    <3>1. /\ tl[u].transients = {v \in Windows : tl[v].parent = u}
          /\ tl[u].parent # None => tl[u].parent \in Windows \ {u}
      BY DEF IInv, LinksAgree, TransientsAgree
    <3>2. u # None
      BY ShellAssumption DEF Windows
    <3>3. {v \in Windows' : tl'[v].parent = u} = {v \in Windows : tl[v].parent = u} \ {t}
      <4>1. \A v \in Windows \ {t} :
               tl'[v].parent = IF tl[v].parent = t THEN None ELSE tl[v].parent
        BY <1>3
      <4>2. \A v \in Windows \ {t} : tl'[v].parent = u <=> tl[v].parent = u
        BY <2>1, <3>2, <4>1
      <4> QED
        BY <1>4, <4>2
    <3>4. tl'[u].transients = tl[u].transients \ {t}
      <4>1. tl'[u].transients =
               IF u = tl[t].parent THEN tl[u].transients \ {t} ELSE tl[u].transients
        BY <1>3, <2>1
      <4>2. u # tl[t].parent => t \notin tl[u].transients
        BY <3>1
      <4> QED
        BY <4>1, <4>2
    <3>5. tl'[u].parent # None => tl'[u].parent \in Windows' \ {u}
      <4>1. tl'[u].parent = IF tl[u].parent = t THEN None ELSE tl[u].parent
        BY <1>3, <2>1
      <4> QED
        BY <1>4, <3>1, <4>1
    <3> QED
      BY <3>1, <3>3, <3>4, <3>5
  <2> QED
    BY <1>4, <2>1 DEF TransientsAgree
<1>11. FocusedAlone'
  BY <1>1, <1>3, <1>4, ShellAssumption DEF IInv, FocusedAlone, Windows
<1> QED
  BY <1>7, <1>8, <1>9, <1>10, <1>11 DEF IInv, LinksAgree

LEMMA DestroyPopupStep ==
    ASSUME IInv, NEW p \in Popups, DestroyPopup(p)
    PROVE  IInv'
<1> DEFINE After(x) == [xs[x] EXCEPT
                           !.popup = IF x = pp[p].owner THEN None ELSE @,
                           !.child_popups = IF x = pp[p].parent THEN @ \ {p} ELSE @]
<1>1. /\ p \in Menus
      /\ pp' = [pp EXCEPT ![p] = None]
      /\ xs' = [x \in Surfaces |-> IF xs[x] = None THEN None ELSE After(x)]
      /\ UNCHANGED <<setting, surface, tl, focused>>
      /\ view' = view \ {p} /\ late' = late \ {p}
  BY DEF DestroyPopup, Menus
<1>2. ASSUME NEW x \in Xdgs
      PROVE  /\ xs'[x] \in XdgSurface /\ xs'[x] # None
             /\ xs'[x].toplevel = xs[x].toplevel
             /\ xs'[x].popup = IF x = pp[p].owner THEN None ELSE xs[x].popup
             /\ xs'[x].child_popups =
                   IF x = pp[p].parent THEN xs[x].child_popups \ {p} ELSE xs[x].child_popups
  <2>1. xs[x] \in XdgSurface /\ xs'[x] = After(x)
    BY <1>1, Parts DEF IInv, Xdgs
  <2>2. /\ After(x) \in XdgSurface
        /\ After(x).toplevel = xs[x].toplevel
        /\ After(x).popup = IF x = pp[p].owner THEN None ELSE xs[x].popup
        /\ After(x).child_popups =
              IF x = pp[p].parent THEN xs[x].child_popups \ {p} ELSE xs[x].child_popups
    BY <2>1 DEF XdgSurface
  <2> HIDE DEF After
  <2> QED
    BY <2>1, <2>2, ShellAssumption
<1> HIDE DEF After
<1>3. /\ xs' \in [Surfaces -> XdgSurface \cup {None}]
      /\ Xdgs' = Xdgs
  <2>1. \A x \in Surfaces : x \notin Xdgs => xs'[x] = None
    BY <1>1 DEF Xdgs
  <2>2. \A x \in Surfaces : xs'[x] \in XdgSurface \cup {None}
    BY <1>2, <2>1
  <2> QED
    BY <1>1, <1>2, <2>1, <2>2 DEF Xdgs
<1>4. /\ Windows' = Windows /\ Menus' = Menus \ {p}
      /\ \A q \in Menus \ {p} : pp'[q] = pp[q]
  BY <1>1 DEF Windows, Menus, IInv, TypeOK
<1>5. TypeOK'
  BY <1>1, <1>3 DEF IInv, TypeOK
<1>6. RolesAgree'
  <2>1. ASSUME NEW x \in Xdgs
        PROVE  /\ xs'[x].toplevel # None =>
                     xs'[x].toplevel \in Windows /\ tl[xs'[x].toplevel].owner = x
               /\ xs'[x].popup # None => xs'[x].popup \in Menus' /\ pp'[xs'[x].popup].owner = x
               /\ xs'[x].toplevel = None \/ xs'[x].popup = None
    <3>1. /\ xs[x].toplevel # None =>
                xs[x].toplevel \in Windows /\ tl[xs[x].toplevel].owner = x
          /\ xs[x].popup # None => xs[x].popup \in Menus /\ pp[xs[x].popup].owner = x
          /\ xs[x].toplevel = None \/ xs[x].popup = None
      BY DEF IInv, LinksAgree, RolesAgree
    <3>2. /\ xs'[x].toplevel = xs[x].toplevel
          /\ xs'[x].popup = IF x = pp[p].owner THEN None ELSE xs[x].popup
      BY <1>2
    <3>3. ASSUME xs'[x].popup # None
          PROVE  xs'[x].popup \in Menus' /\ pp'[xs'[x].popup].owner = x
      <4>1. x # pp[p].owner /\ xs'[x].popup = xs[x].popup
        BY <3>2, <3>3
      <4>2. xs[x].popup \in Menus \ {p}
        BY <3>1, <3>3, <4>1
      <4> QED
        BY <1>4, <3>1, <3>3, <4>1, <4>2
    <3> QED
      BY <3>1, <3>2, <3>3
  <2>2. ASSUME NEW t \in Windows, tl[t].owner # None
        PROVE  tl[t].owner \in Xdgs /\ xs'[tl[t].owner].toplevel = t
    BY <1>2, <2>2 DEF IInv, LinksAgree, RolesAgree
  <2>3. ASSUME NEW q \in Menus \ {p}, pp[q].owner # None
        PROVE  pp[q].owner \in Xdgs /\ xs'[pp[q].owner].popup = q
    <3>1. pp[q].owner \in Xdgs /\ xs[pp[q].owner].popup = q
      BY <2>3 DEF IInv, LinksAgree, RolesAgree
    <3>2. pp[q].owner # pp[p].owner
      BY <1>1, <2>3, <3>1 DEF IInv, LinksAgree, RolesAgree
    <3> QED
      BY <1>2, <3>1, <3>2
  <2> QED
    BY <1>1, <1>3, <1>4, <2>1, <2>2, <2>3 DEF RolesAgree
<1>7. AnchorsAgree'
  <2>1. ASSUME NEW x \in Xdgs
        PROVE  xs'[x].child_popups = {q \in Menus' : pp'[q].parent = x}
    <3>1. xs[x].child_popups = {q \in Menus : pp[q].parent = x}
      BY DEF IInv, LinksAgree, AnchorsAgree
    <3>2. CASE x = pp[p].parent
      <4>1. xs'[x].child_popups = xs[x].child_popups \ {p}
        BY <1>2, <3>2
      <4>2. {q \in Menus' : pp'[q].parent = x} = {q \in Menus : pp[q].parent = x} \ {p}
        BY <1>4
      <4> QED
        BY <3>1, <4>1, <4>2
    <3>3. CASE x # pp[p].parent
      <4>1. xs'[x].child_popups = xs[x].child_popups
        BY <1>2, <3>3
      <4>2. {q \in Menus' : pp'[q].parent = x} = {q \in Menus : pp[q].parent = x}
        BY <1>1, <1>4, <3>3
      <4> QED
        BY <3>1, <4>1, <4>2
    <3> QED
      BY <3>2, <3>3
  <2> QED
    BY <1>3, <1>4, <2>1 DEF IInv, LinksAgree, AnchorsAgree
<1>8. TransientsAgree' /\ FocusedAlone'
  BY <1>1, <1>4 DEF IInv, LinksAgree, TransientsAgree, FocusedAlone
<1> QED
  BY <1>5, <1>6, <1>7, <1>8 DEF IInv, LinksAgree

LEMMA DestroyXdgSurfaceStep ==
    ASSUME IInv, NEW s \in Surfaces, DestroyXdgSurface(s)
    PROVE  IInv'
<1> DEFINE children == xs[s].child_popups
           orphaned == [p \in Popups |->
                           IF p = xs[s].popup THEN [pp[p] EXCEPT !.owner = None] ELSE pp[p]]
           chain == Chain(orphaned, children)
           after == Dismissed(orphaned, chain)
<1>1. /\ s \in Xdgs
      /\ xs' = [xs EXCEPT ![s] = None]
      /\ tl' = [t \in Toplevels |->
                   IF t = xs[s].toplevel THEN [tl[t] EXCEPT !.owner = None] ELSE tl[t]]
      /\ pp' = [p \in Popups |->
                   IF p \in children THEN [after[p] EXCEPT !.parent = None] ELSE after[p]]
      /\ view' = view \ chain
      /\ UNCHANGED <<setting, surface, focused, late>>
  BY DEF DestroyXdgSurface, Xdgs
<1>2. /\ xs[s].toplevel # None => xs[s].toplevel \in Windows /\ tl[xs[s].toplevel].owner = s
      /\ xs[s].popup # None => xs[s].popup \in Menus /\ pp[xs[s].popup].owner = s
      /\ children = {p \in Menus : pp[p].parent = s}
  BY <1>1 DEF IInv, LinksAgree, RolesAgree, AnchorsAgree
<1>3. \A t \in Windows : tl[t].owner = s <=> t = xs[s].toplevel
  <2>1. s # None
    BY ShellAssumption
  <2>2. \A t \in Windows : t # None
    BY ShellAssumption DEF Windows
  <2> QED
    BY <1>2, <2>1, <2>2 DEF IInv, LinksAgree, RolesAgree
<1>4. \A p \in Menus : pp[p].owner = s <=> p = xs[s].popup
  <2>1. s # None
    BY ShellAssumption
  <2>2. \A p \in Menus : p # None
    BY ShellAssumption DEF Menus
  <2> QED
    BY <1>2, <2>1, <2>2 DEF IInv, LinksAgree, RolesAgree
<1>5. ASSUME NEW t \in Toplevels
      PROVE  /\ tl'[t] \in Toplevel \cup {None}
             /\ (tl'[t] = None) <=> (tl[t] = None)
             /\ tl[t] # None =>
                   /\ tl'[t].owner = IF tl[t].owner = s THEN None ELSE tl[t].owner
                   /\ tl'[t].parent = tl[t].parent /\ tl'[t].transients = tl[t].transients
                   /\ tl'[t].states = tl[t].states
  <2>1. CASE t = xs[s].toplevel
    <3>1. t \in Windows /\ tl[t].owner = s
      BY <1>2, <2>1, ShellAssumption
    <3>2. tl[t] \in Toplevel
      BY <3>1, Parts DEF IInv
    <3>3. tl'[t] = [tl[t] EXCEPT !.owner = None]
      BY <1>1, <2>1
    <3>4. /\ tl'[t] \in Toplevel /\ tl'[t].owner = None
          /\ tl'[t].parent = tl[t].parent /\ tl'[t].transients = tl[t].transients
          /\ tl'[t].states = tl[t].states
      BY <3>2, <3>3 DEF Toplevel
    <3> QED
      BY <3>1, <3>2, <3>4, ShellAssumption
  <2>2. CASE t # xs[s].toplevel
    <3>1. tl'[t] = tl[t]
      BY <1>1, <2>2
    <3> QED
      BY <1>3, <2>2, <3>1 DEF IInv, TypeOK, Windows
  <2> QED
    BY <2>1, <2>2
<1>6. ASSUME NEW p \in Popups
      PROVE  /\ orphaned[p] \in Popup \cup {None}
             /\ (orphaned[p] = None) <=> (pp[p] = None)
             /\ pp[p] # None =>
                   /\ orphaned[p].owner = IF pp[p].owner = s THEN None ELSE pp[p].owner
                   /\ orphaned[p].parent = pp[p].parent
  <2>1. CASE p = xs[s].popup
    <3>1. p \in Menus /\ pp[p].owner = s
      BY <1>2, <2>1, ShellAssumption
    <3>2. pp[p] \in Popup
      BY <3>1, Parts DEF IInv
    <3>3. orphaned[p] = [pp[p] EXCEPT !.owner = None]
      BY <2>1
    <3>4. /\ orphaned[p] \in Popup /\ orphaned[p].owner = None
          /\ orphaned[p].parent = pp[p].parent
      BY <3>2, <3>3 DEF Popup
    <3> HIDE DEF orphaned
    <3> QED
      BY <3>1, <3>2, <3>4, ShellAssumption
  <2>2. CASE p # xs[s].popup
    <3>1. orphaned[p] = pp[p]
      BY <2>2
    <3> HIDE DEF orphaned
    <3> QED
      BY <1>4, <2>2, <3>1 DEF IInv, TypeOK, Menus
  <2> QED
    BY <2>1, <2>2
<1>7. orphaned \in [Popups -> Popup \cup {None}]
  <2>1. orphaned = [p \in Popups |-> orphaned[p]]
    OBVIOUS
  <2> HIDE DEF orphaned
  <2> QED
    BY <1>6, <2>1
<1> HIDE DEF orphaned
<1>8. \A p \in chain : p \in Popups /\ orphaned[p] # None
  BY <1>6, ChainIsMenus DEF Menus
<1>9. /\ after \in [Popups -> Popup \cup {None}]
      /\ \A p \in Popups :
            /\ (after[p] = None) <=> (orphaned[p] = None)
            /\ orphaned[p] # None => /\ after[p].owner = orphaned[p].owner
                                     /\ after[p].parent = orphaned[p].parent
  BY <1>7, <1>8, DismissedKeeps
<1> HIDE DEF after, chain
<1>10. ASSUME NEW p \in Popups
       PROVE  /\ pp'[p] \in Popup \cup {None}
              /\ (pp'[p] = None) <=> (pp[p] = None)
              /\ pp[p] # None =>
                    /\ pp'[p].owner = IF pp[p].owner = s THEN None ELSE pp[p].owner
                    /\ pp'[p].parent = IF pp[p].parent = s THEN None ELSE pp[p].parent
  <2>1. CASE p \in children
    <3>1. p \in Menus /\ pp[p].parent = s
      BY <1>2, <2>1
    <3>2. /\ after[p] \in Popup
          /\ after[p].owner = IF pp[p].owner = s THEN None ELSE pp[p].owner
      BY <1>6, <1>9, <3>1 DEF Menus
    <3>3. pp'[p] = [after[p] EXCEPT !.parent = None]
      BY <1>1, <2>1
    <3>4. pp'[p] \in Popup /\ pp'[p].owner = after[p].owner /\ pp'[p].parent = None
      BY <3>2, <3>3 DEF Popup
    <3> QED
      BY <3>1, <3>2, <3>4, ShellAssumption DEF Menus
  <2>2. CASE p \notin children
    <3>1. pp'[p] = after[p]
      BY <1>1, <2>2
    <3>2. pp[p] # None => pp[p].parent # s
      BY <1>2, <2>2 DEF Menus
    <3>3. after[p] \in Popup \cup {None} /\ ((after[p] = None) <=> (pp[p] = None))
      BY <1>6, <1>9
    <3>4. ASSUME pp[p] # None
          PROVE  /\ after[p].owner = IF pp[p].owner = s THEN None ELSE pp[p].owner
                 /\ after[p].parent = pp[p].parent
      BY <1>6, <1>9, <3>4
    <3> QED
      BY <3>1, <3>2, <3>3, <3>4
  <2> QED
    BY <2>1, <2>2
<1>11. TypeOK'
  <2>1. tl' \in [Toplevels -> Toplevel \cup {None}]
    BY <1>1, <1>5
  <2>2. pp' \in [Popups -> Popup \cup {None}]
    BY <1>1, <1>10
  <2> QED
    BY <1>1, <2>1, <2>2 DEF IInv, TypeOK
<1> HIDE DEF children
<1>12. /\ Xdgs' = Xdgs \ {s} /\ \A x \in Xdgs \ {s} : xs'[x] = xs[x]
  BY <1>1 DEF IInv, TypeOK, Xdgs
<1>13. Windows' = Windows /\ Menus' = Menus
  <2>1. \A t \in Toplevels : (tl'[t] = None) <=> (tl[t] = None)
    BY <1>5
  <2>2. \A p \in Popups : (pp'[p] = None) <=> (pp[p] = None)
    BY <1>10
  <2> QED
    BY <2>1, <2>2 DEF Windows, Menus
<1>14. \A t \in Windows : tl'[t].owner = IF tl[t].owner = s THEN None ELSE tl[t].owner
  BY <1>5 DEF Windows
<1>15. \A t \in Windows : /\ tl'[t].parent = tl[t].parent
                          /\ tl'[t].transients = tl[t].transients
                          /\ tl'[t].states = tl[t].states
  BY <1>5 DEF Windows
<1>16. \A p \in Menus : pp'[p].owner = IF pp[p].owner = s THEN None ELSE pp[p].owner
  BY <1>10 DEF Menus
<1>17. \A p \in Menus : pp'[p].parent = IF pp[p].parent = s THEN None ELSE pp[p].parent
  BY <1>10 DEF Menus
<1>18. RolesAgree'
  <2>1. ASSUME NEW x \in Xdgs \ {s}
        PROVE  /\ xs[x].toplevel # None =>
                     xs[x].toplevel \in Windows /\ tl'[xs[x].toplevel].owner = x
               /\ xs[x].popup # None => xs[x].popup \in Menus /\ pp'[xs[x].popup].owner = x
               /\ xs[x].toplevel = None \/ xs[x].popup = None
    BY <1>14, <1>16 DEF IInv, LinksAgree, RolesAgree
  <2>2. ASSUME NEW t \in Windows, tl'[t].owner # None
        PROVE  tl'[t].owner \in Xdgs \ {s} /\ xs[tl'[t].owner].toplevel = t
    <3>1. tl'[t].owner = tl[t].owner /\ tl[t].owner # s
      BY <1>14, <2>2
    <3> QED
      BY <2>2, <3>1 DEF IInv, LinksAgree, RolesAgree
  <2>3. ASSUME NEW p \in Menus, pp'[p].owner # None
        PROVE  pp'[p].owner \in Xdgs \ {s} /\ xs[pp'[p].owner].popup = p
    <3>1. pp'[p].owner = pp[p].owner /\ pp[p].owner # s
      BY <1>16, <2>3
    <3> QED
      BY <2>3, <3>1 DEF IInv, LinksAgree, RolesAgree
  <2> QED
    BY <1>12, <1>13, <2>1, <2>2, <2>3 DEF RolesAgree
<1>19. AnchorsAgree'
  <2>1. ASSUME NEW x \in Xdgs \ {s}
        PROVE  xs[x].child_popups = {p \in Menus : pp'[p].parent = x}
    <3>1. xs[x].child_popups = {p \in Menus : pp[p].parent = x}
      BY DEF IInv, LinksAgree, AnchorsAgree
    <3>2. x # None
      BY ShellAssumption DEF Xdgs
    <3>3. \A p \in Menus : pp'[p].parent = x <=> pp[p].parent = x
      BY <1>17, <2>1, <3>2
    <3> QED
      BY <3>1, <3>3
  <2>2. ASSUME NEW p \in Menus, pp'[p].parent # None
        PROVE  pp'[p].parent \in Xdgs \ {s}
    BY <1>17, <2>2 DEF IInv, LinksAgree, AnchorsAgree
  <2> QED
    BY <1>12, <1>13, <2>1, <2>2 DEF AnchorsAgree
<1>20. TransientsAgree' /\ FocusedAlone'
  <2>1. TransientsAgree'
    BY <1>13, <1>15 DEF IInv, LinksAgree, TransientsAgree
  <2>2. focused' = focused
    BY <1>1
  <2>3. FocusedAlone'
    BY <1>13, <1>15, <2>2 DEF IInv, FocusedAlone
  <2> QED
    BY <2>1, <2>3
<1> QED
  BY <1>11, <1>18, <1>19, <1>20 DEF IInv, LinksAgree

-----------------------------------------------------------------------------
(* The inductive invariant *)

LEMMA InitIInv == Init => IInv
<1> SUFFICES ASSUME Init PROVE IInv
  OBVIOUS
<1>1. TypeOK
  BY DEF Init, TypeOK
<1>2. Xdgs = {} /\ Windows = {} /\ Menus = {} /\ focused = None
  BY DEF Init, Xdgs, Windows, Menus
<1> QED
  BY <1>1, <1>2 DEF IInv, LinksAgree, RolesAgree, AnchorsAgree, TransientsAgree, FocusedAlone

LEMMA NextIInv == IInv /\ [Next]_vars => IInv'
<1> SUFFICES ASSUME IInv, [Next]_vars PROVE IInv'
  OBVIOUS
<1>1. /\ setting.surfaces \subseteq Surfaces /\ setting.toplevels \subseteq Toplevels
      /\ setting.popups \subseteq Popups /\ setting.sizes \subseteq {0, 1}
  BY ShellAssumption DEF IInv, TypeOK, Setting
<1>2. ASSUME NEW s \in setting.surfaces,
             \/ CreateSurface(s) \/ DestroySurface(s) \/ GetXdgSurface(s) \/ DestroyXdgSurface(s)
             \/ \E content \in {"bare", "shown"} : Commit(s, content)
             \/ \E t \in setting.toplevels : GetToplevel(s, t)
             \/ \E p \in setting.popups, parent \in setting.surfaces \cup {None} :
                   GetPopup(s, p, parent)
      PROVE  IInv'
  <2>1. s \in Surfaces
    BY <1>1
  <2>2. CASE CreateSurface(s) \/ DestroySurface(s)
    BY <2>1, <2>2, SurfaceStep
  <2>3. CASE GetXdgSurface(s)
    BY <2>1, <2>3, GetXdgSurfaceStep
  <2>4. CASE DestroyXdgSurface(s)
    BY <2>1, <2>4, DestroyXdgSurfaceStep
  <2>5. CASE \E content \in {"bare", "shown"} : Commit(s, content)
    BY <2>1, <2>5, CommitStep
  <2>6. CASE \E t \in setting.toplevels : GetToplevel(s, t)
    BY <1>1, <2>1, <2>6, GetToplevelStep
  <2>7. CASE \E p \in setting.popups, parent \in setting.surfaces \cup {None} :
                GetPopup(s, p, parent)
    BY <1>1, <2>1, <2>7, GetPopupStep
  <2> QED
    BY <1>2, <2>2, <2>3, <2>4, <2>5, <2>6, <2>7
<1>3. ASSUME NEW t \in setting.toplevels,
             \/ DestroyToplevel(t)
             \/ \E size \in setting.sizes : Configure(t, size)
             \/ \E state \in setting.managed, on \in BOOLEAN :
                   SetState(t, state, on) \/ RequestState(t, state, on)
             \/ \E parent \in setting.toplevels \cup {None} : SetParent(t, parent)
      PROVE  IInv'
  <2>1. t \in Toplevels
    BY <1>1
  <2>2. CASE DestroyToplevel(t)
    BY <2>1, <2>2, DestroyToplevelStep
  <2>3. CASE \E size \in setting.sizes : Configure(t, size)
    BY <1>1, <2>1, <2>3, ConfigureStep
  <2>4. CASE \E state \in setting.managed, on \in BOOLEAN :
                SetState(t, state, on) \/ RequestState(t, state, on)
    BY <2>1, <2>4, StateStep
  <2>5. CASE \E parent \in setting.toplevels \cup {None} : SetParent(t, parent)
    BY <1>1, <2>1, <2>5, SetParentStep
  <2> QED
    BY <1>3, <2>2, <2>3, <2>4, <2>5
<1>4. ASSUME NEW t \in setting.toplevels \cup {None}, Focus(t)
      PROVE  IInv'
  BY <1>1, <1>4, FocusStep
<1>5. ASSUME NEW p \in setting.popups,
             Dismiss(p) \/ Grab(p) \/ Reposition(p) \/ DestroyPopup(p)
      PROVE  IInv'
  BY <1>1, <1>5, DismissStep, MenuStep, DestroyPopupStep
<1>6. CASE UNCHANGED vars
  BY <1>6 DEF vars, IInv, TypeOK, LinksAgree, RolesAgree, AnchorsAgree, TransientsAgree,
     FocusedAlone, Xdgs, Windows, Menus
<1> QED
  BY <1>2, <1>3, <1>4, <1>5, <1>6 DEF Next

LEMMA Invariance == Spec => []IInv
  BY InitIInv, NextIInv, PTL DEF Spec

-----------------------------------------------------------------------------
(* Menus are dismissed together *)

DoneIsDown == \A p \in Menus : pp[p].done => ~pp[p].mapped

\* What a step may do to a menu that is there before and after it.
Kept(p) ==
    /\ pp'[p].done = pp[p].done
    /\ pp'[p].parent = pp[p].parent
    /\ pp[p].mapped \/ ~pp[p].done \/ ~pp'[p].mapped

\* No step but a dismissal touches done, or the anchor of a menu.
LEMMA OtherStepsKeep ==
    ASSUME IInv, Next, NEW p \in Popups, pp[p] # None, pp'[p] # None,
           \A s \in Surfaces : ~DestroyXdgSurface(s),
           \A q \in Popups : ~Dismiss(q)
    PROVE  Kept(p)
<1> DEFINE r == pp[p]
<1>1. /\ setting.surfaces \subseteq Surfaces /\ setting.popups \subseteq Popups
  BY ShellAssumption DEF IInv, TypeOK, Setting
<1>2. pp[p] \in Popup /\ pp \in [Popups -> Popup \cup {None}]
  BY DEF IInv, TypeOK
<1>3. CASE UNCHANGED pp
  BY <1>2, <1>3 DEF Kept, Popup
<1>4. ASSUME NEW q \in Popups,
             \/ pp' = [pp EXCEPT ![q].told = TRUE]
             \/ pp' = [pp EXCEPT ![q].grabbed = TRUE]
             \/ pp' = [pp EXCEPT ![q].told = @ \/ pp[q].owner # None]
             \/ pp' = [pp EXCEPT ![q].mapped = PopupShows(q)]
      PROVE  Kept(p)
  <2>1. CASE q # p
    BY <1>2, <1>4, <2>1 DEF Kept, Popup
  <2>2. CASE q = p
    <3>1. pp[p].done => ~PopupShows(p)
      BY DEF PopupShows
    <3> QED
      BY <1>2, <1>4, <2>2, <3>1 DEF Kept, Popup
  <2> QED
    BY <2>1, <2>2
<1>5. ASSUME NEW s \in Surfaces, InitialCommit(s) PROVE Kept(p)
  <2>1. xs[s].popup # None => xs[s].popup \in Popups
    BY <1>5, Parts DEF IInv, InitialCommit, Xdgs
  <2> QED
    BY <1>3, <1>4, <1>5, <2>1 DEF InitialCommit
<1>6. ASSUME NEW s \in Surfaces, PopupCommit(s) PROVE Kept(p)
  <2>1. xs[s].popup \in Popups
    BY <1>6, Parts DEF IInv, PopupCommit, Xdgs
  <2> QED
    BY <1>4, <1>6, <2>1 DEF PopupCommit
<1>7. ASSUME NEW s \in Surfaces, NEW content \in {"bare", "shown"}, Commit(s, content)
      PROVE  Kept(p)
  BY <1>3, <1>5, <1>6, <1>7 DEF Commit, ToplevelCommit, PlainCommit
<1>8. ASSUME NEW s \in Surfaces, NEW q \in Popups, NEW parent, GetPopup(s, q, parent)
      PROVE  Kept(p)
  <2>1. q # p
    BY <1>8 DEF GetPopup
  <2>2. pp'[p] = pp[p]
    BY <1>2, <1>8, <2>1 DEF GetPopup
  <2> QED
    BY <1>2, <2>2 DEF Kept, Popup
<1>9. ASSUME NEW q \in Popups, DestroyPopup(q) PROVE Kept(p)
  <2>1. q # p
    BY <1>2, <1>9 DEF DestroyPopup
  <2>2. pp'[p] = pp[p]
    BY <1>2, <1>9, <2>1 DEF DestroyPopup
  <2> QED
    BY <1>2, <2>2 DEF Kept, Popup
<1>10. ASSUME NEW q \in Popups, Grab(q) \/ Reposition(q) PROVE Kept(p)
  BY <1>4, <1>10 DEF Grab, Reposition
<1>11. ASSUME NEW s \in setting.surfaces,
              \/ CreateSurface(s) \/ DestroySurface(s) \/ GetXdgSurface(s)
              \/ \E t \in setting.toplevels : GetToplevel(s, t)
       PROVE  Kept(p)
  BY <1>3, <1>11 DEF CreateSurface, DestroySurface, GetXdgSurface, GetToplevel
<1>12. ASSUME NEW t \in setting.toplevels,
              \/ DestroyToplevel(t)
              \/ \E size \in setting.sizes : Configure(t, size)
              \/ \E state \in setting.managed, on \in BOOLEAN :
                    SetState(t, state, on) \/ RequestState(t, state, on)
              \/ \E parent \in setting.toplevels \cup {None} : SetParent(t, parent)
       PROVE  Kept(p)
  BY <1>3, <1>12 DEF DestroyToplevel, Configure, SetState, RequestState, Becomes, SetParent
<1>13. ASSUME NEW t \in setting.toplevels \cup {None}, Focus(t) PROVE Kept(p)
  BY <1>3, <1>13 DEF Focus
<1> QED
  BY <1>1, <1>7, <1>8, <1>9, <1>10, <1>11, <1>12, <1>13 DEF Next

\* dismiss() reaches its roots and, from a popup it reaches, those placed
\* against it.
LEMMA ChainIsClosed ==
    ASSUME NEW P, NEW roots \in SUBSET Menus,
           \A q \in Menus : ChildrenOf(P, q) \subseteq Menus
    PROVE  /\ \A q \in roots : ~P[q].done => q \in Chain(P, roots)
           /\ \A p \in Chain(P, roots) : \A q \in ChildrenOf(P, p) :
                 ~P[q].done => q \in Chain(P, roots)
  BY DEF Chain

LEMMA ChildrenAreMenus ==
    ASSUME IInv, NEW p \in Menus PROVE ChildrenOf(pp, p) \subseteq Menus
  BY DEF ChildrenOf, IInv, LinksAgree, RolesAgree, AnchorsAgree

\* The four promises about a menu, of one step.
Together(p) ==
    /\ pp[p].done => pp'[p].done
    /\ pp'[p].done => ~pp'[p].mapped
    /\ ~pp[p].done /\ pp'[p].done => \A q \in ChildrenOf(pp, p) : pp'[q].done
    /\ pp[p].parent # None /\ pp'[p].parent = None => pp'[p].done

LEMMA DismissTogether ==
    ASSUME IInv, DoneIsDown, NEW d \in Popups, Dismiss(d), NEW p \in Popups, pp[p] # None
    PROVE  Together(p)
<1> DEFINE D == Chain(pp, {d})
<1>1. d \in Menus /\ pp' = Dismissed(pp, D)
  BY DEF Dismiss, Menus
<1>2. D \subseteq Menus
  BY ChainIsMenus
<1>3. \A q \in D : \A c \in ChildrenOf(pp, q) : ~pp[c].done => c \in D
  BY <1>1, ChainIsClosed, ChildrenAreMenus
<1> HIDE DEF D
<1>4. ASSUME NEW q \in Menus
      PROVE  /\ q \in D => pp'[q].done /\ ~pp'[q].mapped
             /\ q \notin D => pp'[q] = pp[q]
             /\ pp'[q].parent = pp[q].parent
  <2>1. pp[q] \in Popup /\ q \in Popups
    BY Parts DEF IInv, Menus
  <2>2. pp'[q] = IF q \in D THEN [pp[q] EXCEPT !.done = TRUE, !.mapped = FALSE] ELSE pp[q]
    BY <1>1, <2>1 DEF Dismissed
  <2> QED
    BY <2>1, <2>2 DEF Popup
<1>5. p \in Menus
  BY DEF Menus
<1>6. ASSUME ~pp[p].done, pp'[p].done, NEW q \in ChildrenOf(pp, p) PROVE pp'[q].done
  <2>1. q \in Menus
    BY <1>5, ChildrenAreMenus
  <2>2. p \in D
    BY <1>4, <1>5, <1>6
  <2> QED
    BY <1>3, <1>4, <1>6, <2>1, <2>2
<1> QED
  BY <1>4, <1>5, <1>6 DEF Together, DoneIsDown

LEMMA TeardownTogether ==
    ASSUME IInv, DoneIsDown, NEW s \in Surfaces, DestroyXdgSurface(s), NEW p \in Popups,
           pp[p] # None
    PROVE  Together(p)
<1> DEFINE children == xs[s].child_popups
           orphaned == [q \in Popups |->
                           IF q = xs[s].popup THEN [pp[q] EXCEPT !.owner = None] ELSE pp[q]]
           chain == Chain(orphaned, children)
           after == Dismissed(orphaned, chain)
<1>1. /\ s \in Xdgs
      /\ pp' = [q \in Popups |->
                   IF q \in children THEN [after[q] EXCEPT !.parent = None] ELSE after[q]]
  BY DEF DestroyXdgSurface, Xdgs
<1>2. /\ xs[s].popup # None => xs[s].popup \in Menus /\ pp[xs[s].popup].owner = s
      /\ children = {q \in Menus : pp[q].parent = s}
  BY <1>1 DEF IInv, LinksAgree, RolesAgree, AnchorsAgree
<1>3. ASSUME NEW q \in Menus
      PROVE  /\ orphaned[q] \in Popup
             /\ orphaned[q].done = pp[q].done /\ orphaned[q].mapped = pp[q].mapped
             /\ orphaned[q].parent = pp[q].parent
             /\ q # xs[s].popup => orphaned[q].owner = pp[q].owner
             /\ q = xs[s].popup => orphaned[q].owner = None
  <2>1. pp[q] \in Popup /\ q \in Popups
    BY Parts DEF IInv, Menus
  <2>2. orphaned[q] = IF q = xs[s].popup THEN [pp[q] EXCEPT !.owner = None] ELSE pp[q]
    BY <2>1
  <2> HIDE DEF orphaned
  <2> QED
    BY <2>1, <2>2 DEF Popup
<1> HIDE DEF orphaned
<1>4. \A q \in Menus : q # xs[s].popup => ChildrenOf(orphaned, q) = ChildrenOf(pp, q)
  BY <1>3 DEF ChildrenOf
<1>5. \A q \in Menus : q = xs[s].popup => ChildrenOf(orphaned, q) = {}
  BY <1>3 DEF ChildrenOf
<1>6. \A q \in Menus : ChildrenOf(orphaned, q) \subseteq Menus
  BY <1>4, <1>5, ChildrenAreMenus
<1>7. /\ chain \subseteq Menus
      /\ \A q \in children : ~orphaned[q].done => q \in chain
      /\ \A q \in chain : \A c \in ChildrenOf(orphaned, q) : ~orphaned[c].done => c \in chain
  BY <1>2, <1>6, ChainIsClosed, ChainIsMenus
<1> HIDE DEF chain, children
<1>8. ASSUME NEW q \in Menus
      PROVE  /\ q \in chain => pp'[q].done /\ ~pp'[q].mapped
             /\ q \notin chain => pp'[q].done = pp[q].done /\ pp'[q].mapped = pp[q].mapped
             /\ q \notin children => pp'[q].parent = pp[q].parent
  <2>1. q \in Popups
    BY DEF Menus
  <2>2. after[q] = IF q \in chain
                   THEN [orphaned[q] EXCEPT !.done = TRUE, !.mapped = FALSE] ELSE orphaned[q]
    BY <2>1 DEF Dismissed
  <2>3. /\ after[q] \in Popup /\ after[q].parent = orphaned[q].parent
        /\ q \in chain => after[q].done /\ ~after[q].mapped
        /\ q \notin chain => after[q] = orphaned[q]
    BY ZenonT(40), <1>3, <2>2 DEF Popup
  <2>4. pp'[q] = IF q \in children THEN [after[q] EXCEPT !.parent = None] ELSE after[q]
    BY <1>1, <2>1
  <2> HIDE DEF after
  <2>5. /\ pp'[q].done = after[q].done /\ pp'[q].mapped = after[q].mapped
        /\ q \notin children => pp'[q].parent = after[q].parent
    BY <2>3, <2>4 DEF Popup
  <2> QED
    BY <1>3, <2>3, <2>5
<1>9. p \in Menus
  BY DEF Menus
<1>10. \A q \in children : q \in Menus /\ pp'[q].done
  BY <1>2, <1>3, <1>7, <1>8
<1>11. ASSUME ~pp[p].done, pp'[p].done, NEW q \in ChildrenOf(pp, p) PROVE pp'[q].done
  <2>1. p \in chain /\ q \in Menus
    BY <1>8, <1>9, <1>11, ChildrenAreMenus
  <2>2. CASE p = xs[s].popup
    <3>1. pp[p].owner = s
      BY <1>2, <2>2, ShellAssumption
    <3>2. q \in children
      BY <3>1 DEF ChildrenOf, children
    <3> QED
      BY <1>10, <3>2
  <2>3. CASE p # xs[s].popup
    <3>1. ~pp[q].done => q \in chain
      BY <1>3, <1>4, <1>7, <1>9, <2>1, <2>3
    <3> QED
      BY <1>8, <2>1, <3>1
  <2> QED
    BY <2>2, <2>3
<1> QED
  BY <1>8, <1>9, <1>10, <1>11 DEF Together, DoneIsDown

LEMMA StepTogether ==
    ASSUME IInv, DoneIsDown, [Next]_vars, NEW p \in Popups, pp[p] # None, pp'[p] # None
    PROVE  Together(p)
<1>1. pp[p] \in Popup /\ p \in Menus
  BY DEF IInv, TypeOK, Menus
<1>2. pp[p].done => ~pp[p].mapped
  BY <1>1 DEF DoneIsDown
<1>3. CASE UNCHANGED vars
  BY <1>1, <1>2, <1>3 DEF vars, Together
<1>4. CASE \E s \in Surfaces : DestroyXdgSurface(s)
  BY <1>4, TeardownTogether
<1>5. CASE \E d \in Popups : Dismiss(d)
  BY <1>5, DismissTogether
<1>6. CASE /\ Next
           /\ \A s \in Surfaces : ~DestroyXdgSurface(s)
           /\ \A d \in Popups : ~Dismiss(d)
  BY <1>1, <1>2, <1>6, OtherStepsKeep DEF Kept, Together
<1> QED
  BY <1>3, <1>4, <1>5, <1>6

\* A menu that is new has not been dismissed.
LEMMA NewMenuIsUp ==
    ASSUME IInv, [Next]_vars, NEW p \in Popups, pp[p] = None, pp'[p] # None
    PROVE  ~pp'[p].done
<1>1. /\ setting.surfaces \subseteq Surfaces /\ setting.popups \subseteq Popups
      /\ pp \in [Popups -> Popup \cup {None}] /\ p \notin Menus
      /\ ~UNCHANGED pp
  BY ShellAssumption DEF IInv, TypeOK, Setting, Menus
<1>2. ASSUME NEW q \in Menus, NEW r, pp' = [pp EXCEPT ![q] = r] PROVE FALSE
  BY <1>1, <1>2 DEF Menus
<1>3. ASSUME NEW s \in Surfaces, InitialCommit(s) PROVE FALSE
  <2>1. xs[s].popup # None => xs[s].popup \in Menus
    BY <1>3 DEF IInv, LinksAgree, RolesAgree, InitialCommit, Xdgs
  <2> QED
    BY <1>1, <1>2, <1>3, <2>1 DEF InitialCommit
<1>4. ASSUME NEW s \in Surfaces, PopupCommit(s) PROVE FALSE
  <2>1. xs[s].popup \in Menus
    BY <1>4 DEF IInv, LinksAgree, RolesAgree, PopupCommit, Xdgs
  <2> QED
    BY <1>2, <1>4, <2>1 DEF PopupCommit
<1>5. ASSUME NEW s \in Surfaces, NEW content \in {"bare", "shown"}, Commit(s, content)
      PROVE  FALSE
  BY <1>1, <1>3, <1>4, <1>5 DEF Commit, ToplevelCommit, PlainCommit
<1>6. ASSUME NEW s \in Surfaces, NEW q \in Popups, NEW parent, GetPopup(s, q, parent)
      PROVE  ~pp'[p].done
  <2>1. CASE q # p
    BY <1>1, <1>6, <2>1 DEF GetPopup
  <2>2. CASE q = p
    <3>1. pp'[p] = [owner |-> s, parent |-> parent, mapped |-> FALSE, grabbed |-> FALSE,
                    done |-> FALSE, told |-> FALSE]
      BY <1>1, <1>6, <2>2 DEF GetPopup
    <3> QED
      BY <3>1
  <2> QED
    BY <2>1, <2>2
<1>7. ASSUME NEW q \in Popups, Grab(q) \/ Reposition(q) \/ DestroyPopup(q) PROVE FALSE
  <2>1. q \in Menus
    BY <1>7 DEF Grab, Reposition, DestroyPopup, Menus
  <2> QED
    BY <1>2, <1>7, <2>1 DEF Grab, Reposition, DestroyPopup
<1>8. ASSUME NEW q \in Popups, Dismiss(q) PROVE FALSE
  <2>1. p \notin Chain(pp, {q})
    BY <1>1, ChainIsMenus
  <2> QED
    BY <1>8, <2>1 DEF Dismiss, Dismissed
<1>9. ASSUME NEW s \in Surfaces, DestroyXdgSurface(s) PROVE FALSE
  <2> DEFINE orphaned == [q \in Popups |->
                             IF q = xs[s].popup THEN [pp[q] EXCEPT !.owner = None] ELSE pp[q]]
             after == Dismissed(orphaned, Chain(orphaned, xs[s].child_popups))
  <2>1. /\ p # xs[s].popup /\ p \notin xs[s].child_popups
    <3>1. s \in Xdgs /\ p # None
      BY <1>9, ShellAssumption DEF DestroyXdgSurface, Xdgs
    <3>2. xs[s].popup # None => xs[s].popup \in Menus
      BY <3>1 DEF IInv, LinksAgree, RolesAgree
    <3>3. xs[s].child_popups \subseteq Menus
      BY <3>1 DEF IInv, LinksAgree, AnchorsAgree
    <3> QED
      BY <1>1, <3>1, <3>2, <3>3
  <2>2. orphaned[p] = None
    BY <2>1
  <2>3. pp'[p] = after[p]
    BY <1>9, <2>1 DEF DestroyXdgSurface
  <2> HIDE DEF orphaned
  <2>4. p \notin Chain(orphaned, xs[s].child_popups)
    BY <1>1, ChainIsMenus
  <2>5. after[p] = orphaned[p]
    BY <2>4 DEF Dismissed
  <2> QED
    BY <2>2, <2>3, <2>5
<1>10. ASSUME NEW s \in setting.surfaces,
              \/ CreateSurface(s) \/ DestroySurface(s) \/ GetXdgSurface(s)
              \/ \E t \in setting.toplevels : GetToplevel(s, t)
       PROVE  FALSE
  BY <1>1, <1>10 DEF CreateSurface, DestroySurface, GetXdgSurface, GetToplevel
<1>11. ASSUME NEW t \in setting.toplevels,
              \/ DestroyToplevel(t)
              \/ \E size \in setting.sizes : Configure(t, size)
              \/ \E state \in setting.managed, on \in BOOLEAN :
                    SetState(t, state, on) \/ RequestState(t, state, on)
              \/ \E parent \in setting.toplevels \cup {None} : SetParent(t, parent)
       PROVE  FALSE
  BY <1>1, <1>11 DEF DestroyToplevel, Configure, SetState, RequestState, Becomes, SetParent
<1>12. ASSUME NEW t \in setting.toplevels \cup {None}, Focus(t) PROVE FALSE
  BY <1>1, <1>12 DEF Focus
<1>13. ~UNCHANGED vars
  BY <1>1 DEF vars
<1> QED
  BY <1>1, <1>5, <1>6, <1>7, <1>8, <1>9, <1>10, <1>11, <1>12, <1>13 DEF Next

LEMMA DoneIsDownStep ==
    ASSUME IInv, DoneIsDown, [Next]_vars
    PROVE  DoneIsDown'
<1>1. ASSUME NEW p \in Popups, pp'[p] # None, pp'[p].done
      PROVE  ~pp'[p].mapped
  <2>1. CASE pp[p] # None
    BY <1>1, <2>1, StepTogether DEF Together
  <2>2. CASE pp[p] = None
    BY <1>1, <2>2, NewMenuIsUp
  <2> QED
    BY <2>1, <2>2
<1> QED
  BY <1>1 DEF DoneIsDown, Menus

-----------------------------------------------------------------------------
(* The theorems *)

\* The state keeps its types, for any number of surfaces, windows and menus.
THEOREM TypeCorrect == Spec => []TypeOK
  BY Invariance, PTL DEF IInv

\* No object of the shell points to one that has been destroyed, whatever the
\* order in which a client, or its death, takes them down.
THEOREM NoDanglingPointers == Spec => []LinksAgree
  BY Invariance, PTL DEF IInv

\* focus() leaves one window activated, the one that has the focus and exists.
THEOREM FocusIsExclusive == Spec => []FocusedAlone
  BY Invariance, PTL DEF IInv

\* A dismissed menu takes those opened from it with it and never comes back.
THEOREM MenusAreDismissedTogether == Spec => MenusGoTogether
<1>1. Init => DoneIsDown
  BY DEF Init, DoneIsDown, Menus
<1>2. IInv /\ DoneIsDown /\ [Next]_vars => DoneIsDown'
  BY DoneIsDownStep
<1>3. IInv /\ DoneIsDown /\ [Next]_vars =>
         [\A p \in Popups : pp[p] # None /\ pp'[p] # None =>
             /\ pp[p].done => pp'[p].done
             /\ pp'[p].done => ~pp'[p].mapped
             /\ ~pp[p].done /\ pp'[p].done => \A q \in ChildrenOf(pp, p) : pp'[q].done
             /\ pp[p].parent # None /\ pp'[p].parent = None => pp'[p].done]_vars
  BY StepTogether DEF Together
<1> QED
  BY <1>1, <1>2, <1>3, Invariance, PTL DEF Spec, MenusGoTogether

-----------------------------------------------------------------------------
(* What the client was told, and what is on screen *)

\* The last configure says how the window is.
Current(r) ==
    /\ r.told = r.states \cap Sent \/ (r.told = Untold /\ r.states \cap Sent = {})
    /\ r.asked <= r.pending
    /\ "bounds" \in setting.uses /\ r.states \cap {"maximized", "fullscreen"} # {} =>
          r.pending = 1

\* MappedIsContent and ClientIsUpToDate, of one window and of one menu.
WindowAt(t) ==
    /\ t \in view <=> tl[t] # None /\ tl[t].mapped
    /\ tl[t] # None /\ tl[t].owner # None =>
          /\ tl[t].mapped => xs[tl[t].owner].initialized /\ surface[tl[t].owner] # "bare"
          /\ xs[tl[t].owner].initialized /\ t \notin late => tl[t].told # Untold
          /\ Current(tl[t])

MenuAt(p) ==
    /\ p \in view <=> pp[p] # None /\ pp[p].mapped
    /\ pp[p] # None /\ pp[p].owner # None =>
          /\ pp[p].mapped => xs[pp[p].owner].initialized /\ surface[pp[p].owner] # "bare"
          /\ xs[pp[p].owner].initialized /\ p \notin late => pp[p].told

ShownInv == (\A t \in Toplevels : WindowAt(t)) /\ (\A p \in Popups : MenuAt(p))

\* A configure for a size no smaller than the one asked for.
LEMMA ConfiguredIsCurrent ==
    ASSUME NEW r \in Toplevel, r.owner # None, NEW size \in {0, 1}, r.asked <= size,
           NEW q \in Configured(r, size)
    PROVE  Current(q) /\ q.told # Untold /\ q.mapped = r.mapped /\ size <= q.pending
<1>1. PICK n \in Substitute(r, size) :
         q = [r EXCEPT !.pending = n, !.told = r.states \cap Sent]
  BY DEF Configured
<1>2. /\ q.told = r.states \cap Sent /\ q.pending = n /\ q.asked = r.asked
      /\ q.states = r.states /\ q.mapped = r.mapped
  BY <1>1 DEF Toplevel
<1>3. n \in {0, 1} /\ size <= n
  BY SubstituteIsSize, GeometryIsSize DEF Substitute
<1>4. ASSUME "bounds" \in setting.uses, r.states \cap {"maximized", "fullscreen"} # {}
      PROVE  n = 1
  BY <1>3, <1>4 DEF Substitute
<1>5. r.states \cap Sent # Untold
  BY DEF Sent, Untold
<1>6. r.asked <= n
  BY <1>3 DEF Toplevel
<1> QED
  BY <1>2, <1>3, <1>4, <1>5, <1>6 DEF Current

\* What a step may make of a window: it is as current as it was.
Better(q, r) ==
    /\ q.mapped = r.mapped
    /\ r.owner # None /\ Current(r) => Current(q) /\ (q.told = Untold => r.told = Untold)

LEMMA SameIsBetter ==
    ASSUME NEW q, NEW r, q.mapped = r.mapped, q.told = r.told, q.states = r.states,
           q.pending = r.pending, q.asked = r.asked
    PROVE  Better(q, r)
  BY DEF Better, Current

LEMMA ConfiguredIsBetter ==
    ASSUME NEW r \in Toplevel, NEW q \in Configured(r, r.pending)
    PROVE  Better(q, r)
<1>1. CASE r.owner = None
  BY <1>1 DEF Configured, Better
<1>2. CASE r.owner # None /\ Current(r)
  <2>1. r.asked <= r.pending /\ r.pending \in {0, 1}
    BY <1>2 DEF Current, Toplevel
  <2> QED
    BY <1>2, <2>1, ConfiguredIsCurrent DEF Better
<1>3. q.mapped = r.mapped
  BY DEF Configured, Toplevel
<1> QED
  BY <1>1, <1>2, <1>3 DEF Better

LEMMA WithStateIsBetter ==
    ASSUME NEW r \in Toplevel, NEW state \in States, NEW on \in BOOLEAN,
           NEW q \in WithState(r, state, on)
    PROVE  Better(q, r)
<1> DEFINE changed == [r EXCEPT !.states = IF on THEN @ \cup {state} ELSE @ \ {state}]
<1>1. /\ changed \in Toplevel /\ changed.owner = r.owner /\ changed.mapped = r.mapped
      /\ changed.told = r.told /\ changed.pending = r.pending /\ changed.asked = r.asked
      /\ changed.states = IF on THEN r.states \cup {state} ELSE r.states \ {state}
  BY DEF Toplevel
<1>2. \/ q = r
      \/ state = "minimized" /\ q = changed
      \/ q \in Configured(changed, r.pending)
  BY DEF WithState
<1> HIDE DEF changed
<1>3. CASE q = r
  BY <1>3 DEF Better
<1>4. CASE state = "minimized" /\ q = changed
  <2>1. /\ changed.states \cap Sent = r.states \cap Sent
        /\ changed.states \cap {"maximized", "fullscreen"} =
              r.states \cap {"maximized", "fullscreen"}
    BY <1>1, <1>4 DEF Sent
  <2> QED
    BY <1>1, <1>4, <2>1 DEF Better, Current
<1>5. CASE q \in Configured(changed, r.pending)
  <2>1. q.mapped = r.mapped
    BY <1>1, <1>5 DEF Configured, Toplevel
  <2>2. ASSUME r.owner # None, Current(r)
        PROVE  Current(q) /\ q.told # Untold
    <3>1. changed.asked <= r.pending /\ r.pending \in {0, 1}
      BY <1>1, <2>2 DEF Current, Toplevel
    <3> QED
      BY <1>1, <1>5, <2>2, <3>1, ConfiguredIsCurrent
  <2> QED
    BY <2>1, <2>2 DEF Better
<1> QED
  BY <1>2, <1>3, <1>4, <1>5

\* The xdg_surface and the wl_surface of a role are as they were.
HomeRests(o) ==
    /\ xs'[o].initialized = xs[o].initialized
    /\ surface'[o] = "bare" => surface[o] = "bare"

WindowRests(t) ==
    /\ tl'[t] = None <=> tl[t] = None
    /\ t \in view' <=> t \in view
    /\ t \in late' <=> t \in late
    /\ tl[t] # None =>
          /\ tl'[t].owner \in {None, tl[t].owner}
          /\ Better(tl'[t], tl[t])
          /\ tl'[t].owner # None => HomeRests(tl'[t].owner)

MenuRests(p) ==
    /\ pp'[p] = None <=> pp[p] = None
    /\ p \in view' <=> p \in view
    /\ p \in late' <=> p \in late
    /\ pp[p] # None =>
          /\ pp'[p].owner \in {None, pp[p].owner}
          /\ pp'[p].mapped = pp[p].mapped
          /\ pp[p].told => pp'[p].told
          /\ pp'[p].owner # None => HomeRests(pp'[p].owner)

LEMMA RestIsShown ==
    ASSUME setting' = setting
    PROVE  /\ \A t \in Toplevels : WindowAt(t) /\ WindowRests(t) => WindowAt(t)'
           /\ \A p \in Popups : MenuAt(p) /\ MenuRests(p) => MenuAt(p)'
<1>1. ASSUME NEW t \in Toplevels, WindowAt(t), WindowRests(t)
      PROVE  WindowAt(t)'
  <2>1. t \in view' <=> tl'[t] # None /\ tl'[t].mapped
    BY <1>1 DEF WindowAt, WindowRests, Better
  <2>2. ASSUME tl'[t] # None, tl'[t].owner # None
        PROVE  /\ tl'[t].mapped =>
                     xs'[tl'[t].owner].initialized /\ surface'[tl'[t].owner] # "bare"
               /\ xs'[tl'[t].owner].initialized /\ t \notin late' => tl'[t].told # Untold
               /\ Current(tl'[t])
    <3>1. tl[t] # None /\ tl'[t].owner = tl[t].owner /\ HomeRests(tl[t].owner)
      BY <1>1, <2>2 DEF WindowRests
    <3>2. Better(tl'[t], tl[t]) /\ Current(tl[t]) /\ tl[t].owner # None
      BY <1>1, <2>2, <3>1 DEF WindowRests, WindowAt
    <3> QED
      BY <1>1, <3>1, <3>2 DEF WindowAt, WindowRests, Better, HomeRests
  <2>3. Current(tl'[t]) => Current(tl[t])'
    BY DEF Current
  <2> QED
    BY <2>1, <2>2, <2>3 DEF WindowAt
<1>2. ASSUME NEW p \in Popups, MenuAt(p), MenuRests(p)
      PROVE  MenuAt(p)'
  <2>1. p \in view' <=> pp'[p] # None /\ pp'[p].mapped
    BY <1>2 DEF MenuAt, MenuRests
  <2>2. ASSUME pp'[p] # None, pp'[p].owner # None
        PROVE  /\ pp'[p].mapped =>
                     xs'[pp'[p].owner].initialized /\ surface'[pp'[p].owner] # "bare"
               /\ xs'[pp'[p].owner].initialized /\ p \notin late' => pp'[p].told
    <3>1. pp[p] # None /\ pp'[p].owner = pp[p].owner /\ HomeRests(pp[p].owner)
      BY <1>2, <2>2 DEF MenuRests
    <3> QED
      BY <1>2, <2>2, <3>1 DEF MenuAt, MenuRests, HomeRests
  <2> QED
    BY <2>1, <2>2 DEF MenuAt
<1> QED
  BY <1>1, <1>2

LEMMA OwnersLive ==
    ASSUME IInv
    PROVE  /\ \A t \in Windows : tl[t] \in Toplevel /\
                 (tl[t].owner # None => tl[t].owner \in Xdgs /\ xs[tl[t].owner].toplevel = t)
           /\ \A p \in Menus : pp[p] \in Popup /\
                 (pp[p].owner # None => pp[p].owner \in Xdgs /\ xs[pp[p].owner].popup = p)
  BY Parts DEF IInv, LinksAgree, RolesAgree

\* A step that touches windows alone, and leaves each as current as it was.
LEMMA WindowsRest ==
    ASSUME ShownInv, UNCHANGED <<setting, surface, xs, pp, view, late>>,
           \A t \in Toplevels : tl'[t] = None <=> tl[t] = None,
           \A t \in Windows : tl'[t].owner = tl[t].owner /\ Better(tl'[t], tl[t])
    PROVE  ShownInv'
<1>1. \A t \in Toplevels : WindowRests(t)
  BY DEF WindowRests, HomeRests, Windows
<1>2. \A p \in Popups : MenuRests(p)
  BY DEF MenuRests, HomeRests
<1> QED
  BY <1>1, <1>2, RestIsShown DEF ShownInv

LEMMA BecomesShown ==
    ASSUME IInv, ShownInv, NEW t \in Toplevels, NEW results, UNCHANGED surface,
           Becomes(t, results),
           tl[t] # None => \A q \in results : /\ q \in Toplevel /\ q.owner = tl[t].owner
                                              /\ Better(q, tl[t])
    PROVE  ShownInv'
<1>1. PICK r \in results : tl' = [tl EXCEPT ![t] = r]
  BY DEF Becomes
<1>2. /\ t \in Windows /\ r \in Toplevel /\ r.owner = tl[t].owner /\ Better(r, tl[t])
      /\ UNCHANGED <<setting, surface, xs, pp, view, late>>
  BY <1>1 DEF Becomes, Windows
<1>3. r # None
  BY <1>2, ShellAssumption
<1>4. \A u \in Toplevels : tl'[u] = IF u = t THEN r ELSE tl[u]
  BY <1>1 DEF IInv, TypeOK
<1>5. \A u \in Toplevels : tl'[u] = None <=> tl[u] = None
  BY <1>2, <1>3, <1>4 DEF Windows
<1>6. \A u \in Windows : tl'[u].owner = tl[u].owner /\ Better(tl'[u], tl[u])
  BY <1>2, <1>4, SameIsBetter DEF Windows
<1> QED
  BY <1>2, <1>5, <1>6, WindowsRest

LEMMA ConfigureShown ==
    ASSUME IInv, ShownInv, NEW t \in Toplevels, NEW size \in {0, 1}, Configure(t, size)
    PROVE  ShownInv'
<1> DEFINE Asked(r) == [r EXCEPT !.asked = IF r.owner = None THEN @ ELSE size]
           results == {Asked(r) : r \in Configured(tl[t], size)}
           asking == [tl[t] EXCEPT !.asked = size]
<1>1. ASSUME tl[t] # None, NEW q \in results
      PROVE  q \in Toplevel /\ q.owner = tl[t].owner /\ Better(q, tl[t])
  <2>1. PICK r \in Configured(tl[t], size) : q = Asked(r)
    BY <1>1
  <2>2. tl[t] \in Toplevel
    BY <1>1, Parts DEF IInv, Windows
  <2>3. r \in Toplevel /\ r.owner = tl[t].owner
    BY <2>1, <2>2, ConfiguredKeeps DEF SameEnds
  <2>4. q \in Toplevel /\ q.owner = r.owner /\ q.mapped = r.mapped
    BY <2>1, <2>3 DEF Toplevel
  <2>5. CASE tl[t].owner = None
    BY <2>1, <2>3, <2>4, <2>5 DEF Configured, Better
  <2>6. CASE tl[t].owner # None
    <3>1. /\ asking \in Toplevel /\ asking.owner = tl[t].owner /\ asking.states = tl[t].states
          /\ asking.asked = size /\ asking.mapped = tl[t].mapped
      BY <2>2 DEF Toplevel
    <3>2. PICK n \in Substitute(tl[t], size) :
             r = [tl[t] EXCEPT !.pending = n, !.told = tl[t].states \cap Sent]
      BY <2>1, <2>6 DEF Configured
    <3>3. q = [asking EXCEPT !.pending = n, !.told = asking.states \cap Sent]
      BY <2>1, <2>2, <2>3, <2>6, <3>1, <3>2 DEF Toplevel
    <3>4. n \in Substitute(asking, size)
      BY <3>1, <3>2 DEF Substitute
    <3> HIDE DEF asking
    <3>5. q \in Configured(asking, size)
      BY <2>6, <3>1, <3>3, <3>4 DEF Configured
    <3>6. Current(q) /\ q.told # Untold /\ q.mapped = asking.mapped
      BY <2>6, <3>1, <3>5, ConfiguredIsCurrent
    <3> QED
      BY <2>3, <2>4, <3>1, <3>6 DEF Better
  <2> QED
    BY <2>5, <2>6
<1>2. UNCHANGED surface /\ Becomes(t, results)
  BY DEF Configure
<1> HIDE DEF results
<1> QED
  BY <1>1, <1>2, BecomesShown

LEMMA StateShown ==
    ASSUME IInv, ShownInv, NEW t \in Toplevels, NEW state \in setting.managed,
           NEW on \in BOOLEAN, SetState(t, state, on) \/ RequestState(t, state, on)
    PROVE  ShownInv'
<1>1. state \in States
  BY ShellAssumption DEF IInv, TypeOK, Setting
<1>2. UNCHANGED surface /\ Becomes(t, WithState(tl[t], state, on))
  BY DEF SetState, RequestState
<1>3. ASSUME tl[t] # None, NEW q \in WithState(tl[t], state, on)
      PROVE  q \in Toplevel /\ q.owner = tl[t].owner /\ Better(q, tl[t])
  <2>1. tl[t] \in Toplevel
    BY <1>3, Parts DEF IInv, Windows
  <2> QED
    BY <1>1, <1>3, <2>1, WithStateKeeps, WithStateIsBetter DEF SameEnds
<1> QED
  BY <1>2, <1>3, BecomesShown

LEMMA FocusShown ==
    ASSUME IInv, ShownInv, NEW t \in Toplevels \cup {None}, Focus(t)
    PROVE  ShownInv'
<1>1. PICK was \in Deactivated(focused), is \in Activated(t) :
         tl' = [u \in Toplevels |-> CASE u = focused -> was
                                      [] u # focused /\ u = t -> is
                                      [] OTHER -> tl[u]]
  BY DEF Focus
<1>2. t # focused /\ UNCHANGED <<setting, surface, xs, pp, view, late>>
  BY DEF Focus
<1>3. /\ t # None => t \in Windows
      /\ focused # None => focused \in Windows
      /\ None \notin Toplevels /\ None \notin Toplevel
  BY ShellAssumption DEF Focus, Windows, IInv, FocusedAlone
<1>4. ASSUME focused # None
      PROVE  was \in Toplevel /\ was.owner = tl[focused].owner /\ Better(was, tl[focused])
  <2>1. tl[focused] \in Toplevel /\ was \in WithState(tl[focused], "activated", FALSE)
    BY <1>1, <1>3, <1>4, Parts DEF Deactivated, IInv
  <2> QED
    BY <2>1, WithStateKeeps, WithStateIsBetter DEF SameEnds, States, Sent
<1>5. ASSUME t # None
      PROVE  is \in Toplevel /\ is.owner = tl[t].owner /\ Better(is, tl[t])
  <2>1. tl[t] \in Toplevel /\ is \in WithState(tl[t], "activated", TRUE)
    BY <1>1, <1>3, <1>5, Parts DEF Activated, IInv
  <2> QED
    BY <2>1, WithStateKeeps, WithStateIsBetter DEF SameEnds, States, Sent
<1>6. ASSUME NEW u \in Toplevels
      PROVE  /\ u = focused => tl'[u] = was
             /\ u = t => tl'[u] = is
             /\ u # focused /\ u # t => tl'[u] = tl[u]
  BY <1>1, <1>2
<1>7. \A u \in Toplevels : tl'[u] = None <=> tl[u] = None
  BY <1>3, <1>4, <1>5, <1>6 DEF Windows
<1>8. ASSUME NEW u \in Windows
      PROVE  tl'[u].owner = tl[u].owner /\ Better(tl'[u], tl[u])
  <2>1. u \in Toplevels /\ u # None
    BY <1>3 DEF Windows
  <2>2. CASE u = focused
    BY <1>4, <1>6, <2>1, <2>2
  <2>3. CASE u = t
    BY <1>5, <1>6, <2>1, <2>3
  <2>4. CASE u # focused /\ u # t
    BY <1>6, <2>1, <2>4, SameIsBetter
  <2> QED
    BY <2>2, <2>3, <2>4
<1> QED
  BY <1>2, <1>7, <1>8, WindowsRest

LEMMA SetParentShown ==
    ASSUME IInv, ShownInv, NEW t \in Toplevels, NEW parent \in Toplevels \cup {None},
           SetParent(t, parent)
    PROVE  ShownInv'
<1>1. /\ UNCHANGED <<setting, surface, xs, pp, view, late>>
      /\ t \in Windows
      /\ tl[t].parent # None => tl[t].parent \in Windows
      /\ parent # None => parent \in Windows
  BY DEF SetParent, Windows, IInv, LinksAgree, TransientsAgree
<1>2. ASSUME NEW u \in Toplevels
      PROVE  \/ tl'[u] = tl[u]
             \/ tl[u] # None /\ \E x \in Toplevels \cup {None} :
                   tl'[u] = [tl[u] EXCEPT !.parent = x]
             \/ tl[u] # None /\ \E x \in SUBSET Toplevels :
                   tl'[u] = [tl[u] EXCEPT !.transients = x]
  <2>1. tl'[u] = CASE u = t -> [tl[u] EXCEPT !.parent = parent]
                   [] u # t /\ u = parent -> [tl[u] EXCEPT !.transients = @ \cup {t}]
                   [] u # t /\ u # parent /\ u = tl[t].parent ->
                         [tl[u] EXCEPT !.transients = @ \ {t}]
                   [] OTHER -> tl[u]
    BY DEF SetParent
  <2>2. u # None /\ (tl[u] # None => tl[u].transients \in SUBSET Toplevels)
    BY ShellAssumption, Parts DEF IInv, Windows
  <2>3. CASE u = t
    BY <1>1, <2>1, <2>3 DEF Windows
  <2>4. CASE u # t /\ u = parent
    BY <1>1, <2>1, <2>2, <2>4 DEF Windows
  <2>5. CASE u # t /\ u # parent /\ u = tl[t].parent
    BY <1>1, <2>1, <2>2, <2>5 DEF Windows
  <2>6. CASE u # t /\ u # parent /\ u # tl[t].parent
    BY <2>1, <2>6
  <2> QED
    BY <2>3, <2>4, <2>5, <2>6
<1>3. ASSUME NEW u \in Windows
      PROVE  tl'[u] # None /\ tl'[u].owner = tl[u].owner /\ Better(tl'[u], tl[u])
  <2>1. u \in Toplevels /\ tl[u] \in Toplevel /\ tl[u] # None
    BY Parts DEF Windows, IInv
  <2>2. /\ tl'[u] \in Toplevel
        /\ tl'[u].owner = tl[u].owner /\ tl'[u].mapped = tl[u].mapped
        /\ tl'[u].told = tl[u].told /\ tl'[u].states = tl[u].states
        /\ tl'[u].pending = tl[u].pending /\ tl'[u].asked = tl[u].asked
    BY ZenonT(40), <1>2, <2>1 DEF Toplevel
  <2>3. tl'[u] # None
    BY <2>2, ShellAssumption
  <2> QED
    BY <2>2, <2>3, SameIsBetter
<1>4. \A u \in Toplevels : tl'[u] = None <=> tl[u] = None
  BY <1>2, <1>3 DEF Windows
<1> QED
  BY <1>1, <1>3, <1>4, WindowsRest

\* Of what is neither touched nor at home on a surface that is.
LEMMA OthersRest ==
    ASSUME IInv, NEW s \in Surfaces,
           \A o \in Xdgs \ {s} : HomeRests(o)
    PROVE  /\ \A t \in Toplevels :
                 /\ tl'[t] = tl[t] /\ (t \in view' <=> t \in view) /\ (t \in late' <=> t \in late)
                 /\ tl[t] # None => tl[t].owner # s \/ HomeRests(s)
                 => WindowRests(t)
           /\ \A p \in Popups :
                 /\ pp'[p] = pp[p] /\ (p \in view' <=> p \in view) /\ (p \in late' <=> p \in late)
                 /\ pp[p] # None => pp[p].owner # s \/ HomeRests(s)
                 => MenuRests(p)
  BY OwnersLive, SameIsBetter DEF WindowRests, MenuRests, Windows, Menus

LEMMA SurfaceShown ==
    ASSUME IInv, ShownInv, NEW s \in Surfaces,
           CreateSurface(s) \/ DestroySurface(s) \/ GetXdgSurface(s)
    PROVE  ShownInv'
<1>1. UNCHANGED <<setting, tl, pp, view, late>>
  BY DEF CreateSurface, DestroySurface, GetXdgSurface
<1>2. \A o \in Xdgs : HomeRests(o)
  <2>1. CASE CreateSurface(s)
    BY <2>1 DEF CreateSurface, HomeRests, Xdgs, IInv, TypeOK
  <2>2. CASE DestroySurface(s)
    BY <2>2 DEF DestroySurface, HomeRests, Xdgs, IInv, TypeOK
  <2>3. CASE GetXdgSurface(s)
    BY <2>3 DEF GetXdgSurface, HomeRests, Xdgs, IInv, TypeOK
  <2> QED
    BY <2>1, <2>2, <2>3
<1>3. \A t \in Toplevels : WindowRests(t)
  BY <1>1, <1>2, OwnersLive, SameIsBetter DEF WindowRests, Windows
<1>4. \A p \in Popups : MenuRests(p)
  BY <1>1, <1>2, OwnersLive DEF MenuRests, Menus
<1> QED
  BY <1>1, <1>3, <1>4, RestIsShown DEF ShownInv

LEMMA NewRoleShown ==
    ASSUME IInv, ShownInv, NEW s \in Surfaces,
           \/ \E t \in Toplevels : GetToplevel(s, t)
           \/ \E p \in Popups, parent \in Surfaces \cup {None} : GetPopup(s, p, parent)
    PROVE  ShownInv'
<1>1. Toplevels \cap Popups = {} /\ None \notin Surfaces
  BY ShellAssumption
<1>2. ASSUME NEW t \in Toplevels, GetToplevel(s, t)
      PROVE  ShownInv'
  <2>1. /\ tl[t] = None /\ s \in Xdgs
        /\ tl' = [tl EXCEPT ![t] =
              [owner |-> s, mapped |-> FALSE, states |-> {}, pending |-> 0, parent |-> None,
               transients |-> {}, told |-> Untold, asked |-> 0]]
        /\ xs' = [xs EXCEPT ![s].toplevel = t] /\ MarkLate(s, t)
        /\ UNCHANGED <<setting, surface, pp, focused, view>>
    BY <1>2 DEF GetToplevel, Xdgs
  <2>2. late' = IF xs[s].initialized THEN late \cup {t} ELSE late \ {t}
    BY <2>1 DEF MarkLate
  <2>3. \A o \in Xdgs : HomeRests(o)
    BY <2>1, Parts DEF HomeRests, Xdgs, XdgSurface, IInv, TypeOK
  <2>4. \A p \in Popups : MenuRests(p)
    BY <1>1, <2>1, <2>2, <2>3, OwnersLive DEF MenuRests, Menus
  <2>5. \A u \in Toplevels \ {t} : WindowRests(u)
    <3>1. \A u \in Toplevels \ {t} : tl'[u] = tl[u]
      BY <2>1 DEF IInv, TypeOK
    <3> QED
      BY <2>1, <2>2, <2>3, <3>1, OwnersLive, SameIsBetter DEF WindowRests, Windows
  <2>6. WindowAt(t)'
    <3>1. /\ tl'[t] = [owner |-> s, mapped |-> FALSE, states |-> {}, pending |-> 0,
                       parent |-> None, transients |-> {}, told |-> Untold, asked |-> 0]
      BY <2>1 DEF IInv, TypeOK
    <3>2. t \notin view
      BY <2>1 DEF ShownInv, WindowAt
    <3>3. /\ tl'[t].owner = s /\ ~tl'[t].mapped /\ tl'[t].told = Untold
          /\ tl'[t].states = {} /\ tl'[t].asked <= tl'[t].pending
      BY <3>1
    <3>4. Current(tl[t])'
      BY <3>3 DEF Current
    <3>5. xs'[s].initialized = xs[s].initialized
      BY <2>1, <2>3 DEF HomeRests
    <3> QED
      BY <2>1, <2>2, <3>2, <3>3, <3>4, <3>5 DEF WindowAt
  <2> QED
    BY <2>1, <2>4, <2>5, <2>6, RestIsShown DEF ShownInv
<1>3. ASSUME NEW p \in Popups, NEW parent \in Surfaces \cup {None}, GetPopup(s, p, parent)
      PROVE  ShownInv'
  <2>1. /\ pp[p] = None /\ s \in Xdgs /\ (parent # None => parent \in Xdgs)
        /\ pp' = [pp EXCEPT ![p] =
                    [owner |-> s, parent |-> parent, mapped |-> FALSE, grabbed |-> FALSE,
                     done |-> FALSE, told |-> FALSE]]
        /\ MarkLate(s, p)
        /\ UNCHANGED <<setting, surface, tl, focused, view>>
    BY <1>3 DEF GetPopup, Xdgs
  <2>2. late' = IF xs[s].initialized THEN late \cup {p} ELSE late \ {p}
    BY <2>1 DEF MarkLate
  <2>3. \A o \in Xdgs : HomeRests(o)
    <3>1. ASSUME NEW o \in Xdgs
          PROVE  xs'[o].initialized = xs[o].initialized
      <4>1. o \in Surfaces /\ xs[o] \in XdgSurface
        BY Parts DEF IInv, Xdgs
      <4>2. xs'[o] = IF o \notin {s, parent} THEN xs[o]
                     ELSE [xs[o] EXCEPT !.popup = IF o = s THEN p ELSE @,
                                        !.child_popups = IF o = parent THEN @ \cup {p} ELSE @]
        BY <1>3, <4>1 DEF GetPopup
      <4> QED
        BY <4>1, <4>2 DEF XdgSurface
    <3> QED
      BY <2>1, <3>1 DEF HomeRests
  <2>4. \A t \in Toplevels : WindowRests(t)
    BY <1>1, <2>1, <2>2, <2>3, OwnersLive, SameIsBetter DEF WindowRests, Windows
  <2>5. \A q \in Popups \ {p} : MenuRests(q)
    <3>1. \A q \in Popups \ {p} : pp'[q] = pp[q]
      BY <2>1 DEF IInv, TypeOK
    <3> QED
      BY <2>1, <2>2, <2>3, <3>1, OwnersLive DEF MenuRests, Menus
  <2>6. MenuAt(p)'
    <3>1. pp'[p] = [owner |-> s, parent |-> parent, mapped |-> FALSE, grabbed |-> FALSE,
                    done |-> FALSE, told |-> FALSE]
      BY <2>1 DEF IInv, TypeOK
    <3>2. p \notin view
      BY <2>1 DEF ShownInv, MenuAt
    <3>3. pp'[p].owner = s /\ ~pp'[p].mapped
      BY <3>1
    <3>4. xs'[s].initialized = xs[s].initialized
      BY <2>1, <2>3 DEF HomeRests
    <3> QED
      BY <2>1, <2>2, <3>2, <3>3, <3>4 DEF MenuAt
  <2> QED
    BY <2>1, <2>4, <2>5, <2>6, RestIsShown DEF ShownInv
<1> QED
  BY <1>2, <1>3

LEMMA CommitShown ==
    ASSUME IInv, ShownInv, NEW s \in Surfaces, NEW content \in {"bare", "shown"},
           Commit(s, content)
    PROVE  ShownInv'
<1>1. /\ surface' = [surface EXCEPT ![s] = content]
      /\ UNCHANGED <<setting, focused, late>>
      /\ None \notin Toplevels \cup Popups /\ Toplevels \cap Popups = {}
      /\ None \notin Toplevel /\ None \notin Popup
  BY ShellAssumption DEF Commit
<1>2. \A o \in Surfaces \ {s} : surface'[o] = surface[o]
  BY <1>1 DEF IInv, TypeOK
<1>3. /\ \A t \in Windows : tl[t].owner = s => s \in Xdgs /\ t = xs[s].toplevel
      /\ \A p \in Menus : pp[p].owner = s => s \in Xdgs /\ p = xs[s].popup
      /\ s # None
  BY OwnersLive, ShellAssumption
<1>4. CASE InitialCommit(s)
  <2>0. PICK t, p : t = xs[s].toplevel /\ p = xs[s].popup
    OBVIOUS
  <2>1. /\ s \in Xdgs /\ ~xs[s].initialized /\ view' = view
        /\ xs' = [xs EXCEPT ![s].initialized = TRUE]
    BY <1>4 DEF InitialCommit, Xdgs
  <2>2. /\ t # None => t \in Windows /\ tl[t].owner = s /\ t \in Toplevels
        /\ p # None => p \in Menus /\ pp[p].owner = s /\ p \in Popups
        /\ t = None \/ p = None
    BY <2>0, <2>1 DEF IInv, LinksAgree, RolesAgree, Windows, Menus
  <2>3. /\ \A o \in Xdgs \ {s} : HomeRests(o)
        /\ xs'[s].initialized
    BY <1>2, <2>1, Parts DEF HomeRests, Xdgs, XdgSurface, IInv, TypeOK
  <2>4. ASSUME NEW u \in Toplevels
        PROVE  WindowAt(u)'
    <3>1. CASE u = t
      <4>1. PICK r \in Configured(tl[t], tl[t].pending) : tl' = [tl EXCEPT ![t] = r]
        BY <1>1, <1>4, <2>0, <3>1 DEF InitialCommit
      <4>2. /\ tl[t] \in Toplevel /\ tl[t].owner = s /\ tl[t] # None /\ tl'[t] = r
            /\ tl[t].pending \in {0, 1}
        BY <1>1, <2>2, <3>1, <4>1, Parts DEF IInv, TypeOK, Windows
      <4>3. ~tl[t].mapped /\ Current(tl[t]) /\ (t \in view <=> tl[t].mapped)
        BY <1>3, <2>1, <3>1, <4>2 DEF ShownInv, WindowAt
      <4>4. Current(r) /\ r.told # Untold /\ r.mapped = tl[t].mapped
        BY <1>3, <4>1, <4>2, <4>3, ConfiguredIsCurrent DEF Current
      <4>5. r \in Toplevel /\ r.owner = s /\ r # None
        BY <1>1, <4>1, <4>2, ConfiguredKeeps DEF SameEnds
      <4>6. Current(tl[t])'
        BY <1>1, <4>2, <4>4 DEF Current
      <4> QED
        BY <1>1, <2>1, <3>1, <4>2, <4>3, <4>4, <4>5, <4>6 DEF WindowAt
    <3>2. CASE u # t
      <4>1. tl'[u] = tl[u]
        BY <1>4, <2>0, <2>2, <3>2 DEF InitialCommit, IInv, TypeOK
      <4>2. tl[u] # None => tl[u].owner # s
        BY <1>3, <2>0, <3>2 DEF Windows
      <4>3. WindowRests(u)
        BY <1>1, <2>1, <2>3, <4>1, <4>2, OthersRest
      <4> QED
        BY <1>1, <4>3, RestIsShown DEF ShownInv
    <3> QED
      BY <3>1, <3>2
  <2>5. ASSUME NEW q \in Popups
        PROVE  MenuAt(q)'
    <3>1. CASE q = p
      <4>1. pp' = [pp EXCEPT ![p].told = TRUE] /\ q \in Menus /\ p # None
        BY <1>1, <1>4, <2>0, <2>2, <3>1 DEF InitialCommit
      <4>2. /\ pp[p] \in Popup /\ pp[p].owner = s /\ pp[p] # None
            /\ pp'[p] = [pp[p] EXCEPT !.told = TRUE]
        BY <2>2, <3>1, <4>1, Parts DEF IInv, TypeOK, Menus
      <4>3. pp'[p].told /\ pp'[p].mapped = pp[p].mapped /\ pp'[p] \in Popup
        BY <4>2 DEF Popup
      <4>4. ~pp[p].mapped /\ p \notin view
        BY <1>3, <2>1, <3>1, <4>2 DEF ShownInv, MenuAt
      <4> QED
        BY <2>1, <3>1, <4>3, <4>4 DEF MenuAt
    <3>2. CASE q # p
      <4>1. pp'[q] = pp[q]
        BY <1>4, <2>0, <2>2, <3>2 DEF InitialCommit, IInv, TypeOK
      <4>2. pp[q] # None => pp[q].owner # s
        BY <1>3, <2>0, <3>2 DEF Menus
      <4>3. MenuRests(q)
        BY <1>1, <2>1, <2>3, <4>1, <4>2, OthersRest
      <4> QED
        BY <1>1, <4>3, RestIsShown DEF ShownInv
    <3> QED
      BY <3>1, <3>2
  <2> QED
    BY <2>4, <2>5 DEF ShownInv
<1>5. CASE ToplevelCommit(s)
  <2>0. PICK t : t = xs[s].toplevel
    OBVIOUS
  <2> DEFINE buffer == surface'[s] = "shown"
  <2>1. /\ s \in Xdgs /\ xs[s].initialized /\ t # None /\ UNCHANGED <<xs, pp>>
        /\ tl' = [tl EXCEPT ![t].mapped = buffer]
        /\ view' = IF buffer THEN view \cup {t} ELSE view \ {t}
    BY <1>5, <2>0 DEF ToplevelCommit, Xdgs
  <2>2. t \in Windows /\ tl[t].owner = s /\ t \in Toplevels /\ xs[s].popup = None
    BY <2>0, <2>1 DEF IInv, LinksAgree, RolesAgree, Windows
  <2>3. \A o \in Xdgs \ {s} : HomeRests(o)
    BY <1>2, <2>1 DEF HomeRests, Xdgs
  <2>4. ASSUME NEW u \in Toplevels \ {t}
        PROVE  WindowAt(u)'
    <3>1. tl'[u] = tl[u] /\ (tl[u] # None => tl[u].owner # s)
      BY <1>3, <2>0, <2>1 DEF IInv, TypeOK, Windows
    <3>2. WindowRests(u)
      BY <1>1, <2>1, <2>3, <3>1, OthersRest
    <3> QED
      BY <1>1, <3>2, RestIsShown DEF ShownInv
  <2>5. ASSUME NEW q \in Popups
        PROVE  MenuAt(q)'
    <3>1. pp'[q] = pp[q] /\ (pp[q] # None => pp[q].owner # s)
      BY <1>1, <1>3, <2>0, <2>1, <2>2 DEF Menus
    <3>2. MenuRests(q)
      BY <1>1, <2>1, <2>2, <2>3, <3>1, OthersRest
    <3> QED
      BY <1>1, <3>2, RestIsShown DEF ShownInv
  <2>6. WindowAt(t)'
    <3>1. /\ tl[t] \in Toplevel /\ tl[t] # None
          /\ tl'[t] = [tl[t] EXCEPT !.mapped = buffer]
      BY <2>1, <2>2, Parts DEF IInv, TypeOK, Windows
    <3>2. /\ tl'[t].mapped = buffer /\ tl'[t].owner = s /\ tl'[t].told = tl[t].told
          /\ tl'[t].states = tl[t].states /\ tl'[t].pending = tl[t].pending
          /\ tl'[t].asked = tl[t].asked
      BY <2>2, <3>1 DEF Toplevel
    <3>3. tl'[t] \in Toplevel
      <4>1. buffer \in BOOLEAN
        OBVIOUS
      <4> HIDE DEF buffer
      <4> QED
        BY <3>1, <4>1 DEF Toplevel
    <3>4. Current(tl[t]) /\ (t \notin late => tl[t].told # Untold)
      BY <1>3, <2>1, <2>2, <3>1 DEF ShownInv, WindowAt
    <3>5. Current(tl[t])'
      BY <1>1, <3>2, <3>4 DEF Current
    <3>6. t \in view' <=> buffer
      BY <2>1
    <3>7. buffer => surface'[s] # "bare"
      OBVIOUS
    <3> QED
      BY <1>1, <2>1, <3>2, <3>3, <3>4, <3>5, <3>6, <3>7 DEF WindowAt
  <2> QED
    BY <2>4, <2>5, <2>6 DEF ShownInv
<1>6. CASE PopupCommit(s)
  <2>0. PICK p : p = xs[s].popup
    OBVIOUS
  <2>1. /\ s \in Xdgs /\ xs[s].initialized /\ p # None /\ xs[s].toplevel = None
        /\ UNCHANGED <<xs, tl>>
        /\ pp' = [pp EXCEPT ![p].mapped = PopupShows(p)]
        /\ view' = IF PopupShows(p) THEN view \cup {p} ELSE view \ {p}
    BY <1>6, <2>0 DEF PopupCommit, Xdgs
  <2>2. p \in Menus /\ pp[p].owner = s /\ p \in Popups
    BY <2>0, <2>1 DEF IInv, LinksAgree, RolesAgree, Menus
  <2>3. \A o \in Xdgs \ {s} : HomeRests(o)
    BY <1>2, <2>1 DEF HomeRests, Xdgs
  <2>4. ASSUME NEW u \in Toplevels
        PROVE  WindowAt(u)'
    <3>1. tl'[u] = tl[u] /\ (tl[u] # None => tl[u].owner # s)
      BY <1>1, <1>3, <2>0, <2>1 DEF Windows
    <3>2. WindowRests(u)
      BY <1>1, <2>1, <2>2, <2>3, <3>1, OthersRest
    <3> QED
      BY <1>1, <3>2, RestIsShown DEF ShownInv
  <2>5. ASSUME NEW q \in Popups \ {p}
        PROVE  MenuAt(q)'
    <3>1. pp'[q] = pp[q] /\ (pp[q] # None => pp[q].owner # s)
      BY <1>3, <2>0, <2>1 DEF IInv, TypeOK, Menus
    <3>2. MenuRests(q)
      BY <1>1, <2>1, <2>3, <3>1, OthersRest
    <3> QED
      BY <1>1, <3>2, RestIsShown DEF ShownInv
  <2>6. MenuAt(p)'
    <3>1. /\ pp[p] \in Popup /\ pp[p] # None
          /\ pp'[p] = [pp[p] EXCEPT !.mapped = PopupShows(p)]
      BY <2>1, <2>2, Parts DEF IInv, TypeOK, Menus
    <3>2. PopupShows(p) \in BOOLEAN /\ (PopupShows(p) => surface'[s] # "bare")
      BY <2>2 DEF PopupShows
    <3>3. /\ pp'[p].mapped = PopupShows(p) /\ pp'[p].owner = s /\ pp'[p].told = pp[p].told
          /\ pp'[p] \in Popup
      BY <2>2, <3>1, <3>2 DEF Popup
    <3>4. p \notin late => pp[p].told
      BY <1>3, <2>1, <2>2, <3>1 DEF ShownInv, MenuAt
    <3>5. p \in view' <=> PopupShows(p)
      BY <2>1
    <3> QED
      BY <1>1, <2>1, <3>2, <3>3, <3>4, <3>5 DEF MenuAt
  <2> QED
    BY <2>4, <2>5, <2>6 DEF ShownInv
<1>7. CASE PlainCommit(s)
  <2>1. UNCHANGED <<xs, tl, pp, view>> /\ (xs[s] # None => ~HasRole(s))
    BY <1>7 DEF PlainCommit
  <2>2. /\ \A t \in Toplevels : tl[t] # None => tl[t].owner # s
        /\ \A p \in Popups : pp[p] # None => pp[p].owner # s
    BY <1>1, <1>3, <2>1 DEF HasRole, Windows, Menus, Xdgs
  <2>3. \A o \in Xdgs \ {s} : HomeRests(o)
    BY <1>2, <2>1 DEF HomeRests, Xdgs
  <2> QED
    BY <1>1, <2>1, <2>2, <2>3, OthersRest, RestIsShown DEF ShownInv
<1> QED
  BY <1>4, <1>5, <1>6, <1>7 DEF Commit

LEMMA DestroyToplevelShown ==
    ASSUME IInv, ShownInv, NEW t \in Toplevels, DestroyToplevel(t)
    PROVE  ShownInv'
<1>1. /\ t \in Windows /\ tl' = Unlinked(t)
      /\ xs' = IF tl[t].owner = None THEN xs ELSE [xs EXCEPT ![tl[t].owner].toplevel = None]
      /\ view' = view \ {t} /\ late' = late \ {t}
      /\ UNCHANGED <<setting, surface, pp>>
      /\ Toplevels \cap Popups = {} /\ None \notin Toplevel
      /\ tl[t].transients \subseteq Toplevels
  BY ShellAssumption, Parts DEF DestroyToplevel, Windows, IInv
<1>2. \A o \in Xdgs : HomeRests(o)
  BY <1>1, Parts DEF HomeRests, Xdgs, XdgSurface, IInv, TypeOK
<1>3. ASSUME NEW u \in Toplevels, u # t
      PROVE  WindowRests(u)
  <2>1. CASE tl[u] = None
    BY <1>1, <1>3, <2>1 DEF Unlinked, WindowRests
  <2>2. CASE tl[u] # None
    <3>1. tl[u] \in Toplevel /\ u \in Windows
      BY <2>2, Parts DEF IInv, Windows
    <3>2. tl'[u] = [tl[u] EXCEPT !.parent = IF u \in tl[t].transients THEN None ELSE @,
                                 !.transients = IF u = tl[t].parent THEN @ \ {t} ELSE @]
      BY <1>1, <1>3, <2>2 DEF Unlinked
    <3>3. /\ tl'[u] \in Toplevel
          /\ tl'[u].owner = tl[u].owner /\ tl'[u].mapped = tl[u].mapped
          /\ tl'[u].told = tl[u].told /\ tl'[u].states = tl[u].states
          /\ tl'[u].pending = tl[u].pending /\ tl'[u].asked = tl[u].asked
      BY <3>1, <3>2 DEF Toplevel
    <3> QED
      BY <1>1, <1>2, <1>3, <2>2, <3>1, <3>3, OwnersLive, SameIsBetter DEF WindowRests
  <2> QED
    BY <2>1, <2>2
<1>4. tl'[t] = None /\ t \notin view'
  BY <1>1 DEF Unlinked
<1>5. WindowAt(t)'
  BY <1>4 DEF WindowAt
<1>6. \A p \in Popups : MenuRests(p)
  BY <1>1, <1>2, OwnersLive DEF MenuRests, Menus
<1> QED
  BY <1>1, <1>3, <1>5, <1>6, RestIsShown DEF ShownInv

LEMMA DestroyPopupShown ==
    ASSUME IInv, ShownInv, NEW p \in Popups, DestroyPopup(p)
    PROVE  ShownInv'
<1>1. /\ pp[p] # None /\ pp' = [pp EXCEPT ![p] = None]
      /\ view' = view \ {p} /\ late' = late \ {p}
      /\ UNCHANGED <<setting, surface, tl>>
      /\ Toplevels \cap Popups = {}
  BY ShellAssumption DEF DestroyPopup
<1>2. ASSUME NEW o \in Xdgs
      PROVE  HomeRests(o)
  <2>1. o \in Surfaces /\ xs[o] \in XdgSurface /\ xs[o] # None
    BY Parts DEF IInv, Xdgs
  <2>2. xs'[o] = [xs[o] EXCEPT !.popup = IF o = pp[p].owner THEN None ELSE @,
                               !.child_popups = IF o = pp[p].parent THEN @ \ {p} ELSE @]
    BY <2>1 DEF DestroyPopup
  <2>3. xs'[o].initialized = xs[o].initialized
    BY <2>1, <2>2 DEF XdgSurface
  <2> QED
    BY <1>1, <2>3 DEF HomeRests
<1>3. \A t \in Toplevels : WindowRests(t)
  BY <1>1, <1>2, OwnersLive, SameIsBetter DEF WindowRests, Windows
<1>4. \A q \in Popups \ {p} : pp'[q] = pp[q]
  BY <1>1 DEF IInv, TypeOK
<1>5. \A q \in Popups \ {p} : MenuRests(q)
  BY <1>1, <1>2, <1>4, OwnersLive DEF MenuRests, Menus
<1>6. MenuAt(p)'
  <2>1. pp'[p] = None /\ p \notin view'
    BY <1>1 DEF IInv, TypeOK
  <2> QED
    BY <2>1 DEF MenuAt
<1> QED
  BY <1>1, <1>3, <1>5, <1>6, RestIsShown DEF ShownInv

LEMMA DismissShown ==
    ASSUME IInv, ShownInv, NEW p \in Popups, Dismiss(p) \/ Grab(p) \/ Reposition(p)
    PROVE  ShownInv'
<1>1. /\ p \in Menus /\ pp[p] \in Popup
      /\ UNCHANGED <<setting, surface, xs, tl, late>>
      /\ Toplevels \cap Popups = {} /\ None \notin Popup
  BY ShellAssumption, Parts DEF Dismiss, Grab, Reposition, Menus, IInv
<1>2. \A o \in Surfaces : HomeRests(o)
  BY <1>1 DEF HomeRests
<1>3. CASE Dismiss(p)
  <2> DEFINE D == Chain(pp, {p})
  <2>1. pp' = Dismissed(pp, D) /\ view' = view \ D
    BY <1>3 DEF Dismiss
  <2>2. D \subseteq Menus /\ D \subseteq Popups
    BY ChainIsMenus DEF Menus
  <2> HIDE DEF D
  <2>3. \A t \in Toplevels : WindowRests(t)
    BY <1>1, <1>2, <2>1, <2>2, SameIsBetter, OwnersLive DEF WindowRests, Windows, Xdgs
  <2>4. ASSUME NEW q \in Popups
        PROVE  MenuAt(q)'
    <3>1. CASE q \in D
      <4>1. pp[q] \in Popup /\ pp'[q] = [pp[q] EXCEPT !.done = TRUE, !.mapped = FALSE]
        BY <2>1, <2>2, <3>1, Parts DEF IInv, Dismissed
      <4>2. /\ ~pp'[q].mapped /\ pp'[q].owner = pp[q].owner /\ pp'[q].told = pp[q].told
            /\ pp[q] # None /\ q \notin view'
        BY <1>1, <2>1, <3>1, <4>1 DEF Popup
      <4> QED
        BY <1>1, <4>2 DEF ShownInv, MenuAt
    <3>2. CASE q \notin D
      <4>1. pp'[q] = pp[q]
        BY <2>1, <3>2 DEF Dismissed
      <4>2. MenuRests(q)
        BY <1>1, <1>2, <2>1, <3>2, <4>1, OwnersLive DEF MenuRests, Menus, Xdgs
      <4> QED
        BY <1>1, <4>2, RestIsShown DEF ShownInv
    <3> QED
      BY <3>1, <3>2
  <2> QED
    BY <1>1, <2>3, <2>4, RestIsShown DEF ShownInv
<1>4. CASE Grab(p) \/ Reposition(p)
  <2>1. view' = view
    BY <1>4 DEF Grab, Reposition
  <2>2. \A t \in Toplevels : WindowRests(t)
    BY <1>1, <1>2, <2>1, SameIsBetter, OwnersLive DEF WindowRests, Windows, Xdgs
  <2>3. ASSUME NEW q \in Popups
        PROVE  MenuRests(q)
    <3>1. CASE q = p
      <4>1. \/ pp'[p] = [pp[p] EXCEPT !.grabbed = TRUE]
            \/ pp'[p] = [pp[p] EXCEPT !.told = @ \/ pp[p].owner # None]
        BY <1>4 DEF Grab, Reposition, IInv, TypeOK
      <4>2. pp'[p] # None
        <5>1. [pp[p] EXCEPT !.grabbed = TRUE] \in Popup
          BY <1>1 DEF Popup
        <5>2. [pp[p] EXCEPT !.told = @ \/ pp[p].owner # None] \in Popup
          <6>1. PICK b \in BOOLEAN : b = (pp[p].told \/ pp[p].owner # None)
            OBVIOUS
          <6>2. [pp[p] EXCEPT !.told = b] \in Popup
            BY <1>1 DEF Popup
          <6> QED
            BY <6>1, <6>2
        <5> QED
          BY <1>1, <4>1, <5>1, <5>2
      <4>3. /\ pp'[p].owner = pp[p].owner /\ pp'[p].mapped = pp[p].mapped
            /\ pp[p].told => pp'[p].told
        BY <1>1, <4>1 DEF Popup
      <4> QED
        BY <1>1, <1>2, <2>1, <3>1, <4>2, <4>3, OwnersLive DEF MenuRests, Menus, Xdgs
    <3>2. CASE q # p
      <4>1. pp'[q] = pp[q]
        BY <1>4, <3>2 DEF Grab, Reposition, IInv, TypeOK
      <4> QED
        BY <1>1, <1>2, <2>1, <4>1, OwnersLive DEF MenuRests, Menus, Xdgs
    <3> QED
      BY <3>1, <3>2
  <2> QED
    BY <1>1, <2>2, <2>3, RestIsShown DEF ShownInv
<1> QED
  BY <1>3, <1>4

LEMMA DestroyXdgSurfaceShown ==
    ASSUME IInv, ShownInv, NEW s \in Surfaces, DestroyXdgSurface(s)
    PROVE  ShownInv'
<1> DEFINE orphaned == [p \in Popups |->
                           IF p = xs[s].popup THEN [pp[p] EXCEPT !.owner = None] ELSE pp[p]]
           chain == Chain(orphaned, xs[s].child_popups)
           after == Dismissed(orphaned, chain)
<1>1. /\ s \in Xdgs /\ xs' = [xs EXCEPT ![s] = None]
      /\ tl' = [t \in Toplevels |->
                   IF t = xs[s].toplevel THEN [tl[t] EXCEPT !.owner = None] ELSE tl[t]]
      /\ pp' = [p \in Popups |-> IF p \in xs[s].child_popups
                                 THEN [after[p] EXCEPT !.parent = None] ELSE after[p]]
      /\ view' = view \ chain
      /\ UNCHANGED <<setting, surface, late>>
      /\ Toplevels \cap Popups = {} /\ None \notin Toplevel /\ None \notin Popup
      /\ None \notin Toplevels \cup Popups \cup Surfaces
  BY ShellAssumption DEF DestroyXdgSurface, Xdgs
<1>2. /\ xs[s].toplevel # None => xs[s].toplevel \in Windows
      /\ xs[s].popup # None => xs[s].popup \in Menus
      /\ xs[s].child_popups \subseteq Menus
  BY <1>1 DEF IInv, LinksAgree, RolesAgree, AnchorsAgree
<1>3. \A o \in Xdgs \ {s} : HomeRests(o)
  BY <1>1 DEF HomeRests, Xdgs
<1>4. chain \subseteq Menus /\ chain \cap Toplevels = {}
  BY <1>1, ChainIsMenus DEF Menus
<1>5. ASSUME NEW t \in Toplevels
      PROVE  WindowRests(t)
  <2>1. CASE t = xs[s].toplevel
    <3>1. tl[t] \in Toplevel /\ tl'[t] = [tl[t] EXCEPT !.owner = None]
      BY <1>1, <1>2, <2>1, Parts DEF IInv
    <3>2. /\ tl'[t] \in Toplevel /\ tl'[t].owner = None /\ tl'[t].mapped = tl[t].mapped
          /\ tl'[t].told = tl[t].told /\ tl'[t].states = tl[t].states
          /\ tl'[t].pending = tl[t].pending /\ tl'[t].asked = tl[t].asked
      BY <3>1 DEF Toplevel
    <3> QED
      BY <1>1, <1>4, <3>1, <3>2, SameIsBetter DEF WindowRests
  <2>2. CASE t # xs[s].toplevel
    <3>1. tl'[t] = tl[t]
      BY <1>1, <2>2
    <3>2. tl[t] # None /\ tl[t].owner # None => tl[t].owner \in Xdgs \ {s}
      BY <2>2, OwnersLive DEF Windows
    <3> QED
      BY <1>1, <1>3, <1>4, <3>1, <3>2, SameIsBetter DEF WindowRests
  <2> QED
    BY <2>1, <2>2
<1>6. ASSUME NEW p \in Popups
      PROVE  MenuAt(p)'
  <2>1. orphaned[p] = IF p = xs[s].popup THEN [pp[p] EXCEPT !.owner = None] ELSE pp[p]
    OBVIOUS
  <2> HIDE DEF orphaned
  <2>2. after[p] = IF p \in chain
                   THEN [orphaned[p] EXCEPT !.done = TRUE, !.mapped = FALSE] ELSE orphaned[p]
    BY DEF Dismissed
  <2> HIDE DEF after, chain
  <2>3. pp'[p] = IF p \in xs[s].child_popups
                 THEN [after[p] EXCEPT !.parent = None] ELSE after[p]
    BY <1>1
  <2>4. CASE pp[p] = None
    <3>1. p # xs[s].popup /\ p \notin xs[s].child_popups /\ p \notin chain
      BY <1>1, <1>2, <1>4, <2>4 DEF Menus
    <3>2. pp'[p] = None /\ p \notin view'
      BY <1>1, <2>1, <2>2, <2>3, <2>4, <3>1 DEF ShownInv, MenuAt
    <3> QED
      BY <3>2 DEF MenuAt
  <2>5. CASE pp[p] # None
    <3>1. pp[p] \in Popup /\ p \in Menus
      BY <2>5, Parts DEF IInv, Menus
    <3>2. /\ orphaned[p] \in Popup
          /\ orphaned[p].owner = IF p = xs[s].popup THEN None ELSE pp[p].owner
          /\ orphaned[p].mapped = pp[p].mapped /\ orphaned[p].told = pp[p].told
      BY <2>1, <3>1 DEF Popup
    <3>3. /\ after[p] \in Popup /\ after[p].owner = orphaned[p].owner
          /\ after[p].mapped = (IF p \in chain THEN FALSE ELSE pp[p].mapped)
          /\ after[p].told = pp[p].told
      BY <2>2, <3>2 DEF Popup
    <3>4. /\ pp'[p] \in Popup /\ pp'[p].owner = after[p].owner
          /\ pp'[p].mapped = after[p].mapped /\ pp'[p].told = pp[p].told
      BY <2>3, <3>3 DEF Popup
    <3>5. pp'[p].owner # None => /\ pp'[p].owner = pp[p].owner
                                 /\ pp[p].owner \in Xdgs \ {s}
      BY <3>1, <3>2, <3>3, <3>4, OwnersLive
    <3>6. p \in view' <=> p \in view /\ p \notin chain
      BY <1>1
    <3>7. pp'[p] # None
      BY <1>1, <3>4
    <3>8. p \in view <=> pp[p].mapped
      BY <2>5 DEF ShownInv, MenuAt
    <3>9. p \in view' <=> pp'[p].mapped
      BY <3>3, <3>4, <3>6, <3>8
    <3>10. ASSUME pp'[p].owner # None
           PROVE  /\ pp'[p].mapped =>
                        xs'[pp'[p].owner].initialized /\ surface'[pp'[p].owner] # "bare"
                  /\ xs'[pp'[p].owner].initialized /\ p \notin late' => pp'[p].told
      <4>1. HomeRests(pp[p].owner) /\ pp'[p].owner = pp[p].owner
        BY <1>3, <3>5, <3>10
      <4>2. /\ pp[p].mapped => xs[pp[p].owner].initialized /\ surface[pp[p].owner] # "bare"
            /\ xs[pp[p].owner].initialized /\ p \notin late => pp[p].told
        BY <2>5, <3>10, <4>1 DEF ShownInv, MenuAt
      <4> QED
        BY <1>1, <3>3, <3>4, <4>1, <4>2 DEF HomeRests
    <3> QED
      BY <3>7, <3>9, <3>10 DEF MenuAt
  <2> QED
    BY <2>4, <2>5
<1> QED
  BY <1>1, <1>5, <1>6, RestIsShown DEF ShownInv

LEMMA ShownStep == IInv /\ ShownInv /\ [Next]_vars => ShownInv'
<1> SUFFICES ASSUME IInv, ShownInv, [Next]_vars PROVE ShownInv'
  OBVIOUS
<1>1. /\ setting.surfaces \subseteq Surfaces /\ setting.toplevels \subseteq Toplevels
      /\ setting.popups \subseteq Popups /\ setting.sizes \subseteq {0, 1}
  BY ShellAssumption DEF IInv, TypeOK, Setting
<1>2. ASSUME NEW s \in setting.surfaces,
             \/ CreateSurface(s) \/ DestroySurface(s) \/ GetXdgSurface(s) \/ DestroyXdgSurface(s)
             \/ \E content \in {"bare", "shown"} : Commit(s, content)
      PROVE  ShownInv'
  <2>1. s \in Surfaces
    BY <1>1
  <2> QED
    BY <1>2, <2>1, SurfaceShown, DestroyXdgSurfaceShown, CommitShown
<1>3. ASSUME NEW s \in setting.surfaces,
             \/ \E t \in setting.toplevels : GetToplevel(s, t)
             \/ \E p \in setting.popups, parent \in setting.surfaces \cup {None} :
                   GetPopup(s, p, parent)
      PROVE  ShownInv'
  <2>1. s \in Surfaces
    BY <1>1
  <2>2. \/ \E t \in Toplevels : GetToplevel(s, t)
        \/ \E p \in Popups, parent \in Surfaces \cup {None} : GetPopup(s, p, parent)
    BY <1>1, <1>3
  <2> QED
    BY <2>1, <2>2, NewRoleShown
<1>4. ASSUME NEW t \in setting.toplevels,
             \/ DestroyToplevel(t)
             \/ \E size \in setting.sizes : Configure(t, size)
             \/ \E parent \in setting.toplevels \cup {None} : SetParent(t, parent)
      PROVE  ShownInv'
  <2>1. t \in Toplevels
    BY <1>1
  <2> QED
    BY <1>1, <1>4, <2>1, DestroyToplevelShown, ConfigureShown, SetParentShown
<1>5. ASSUME NEW t \in setting.toplevels, NEW state \in setting.managed, NEW on \in BOOLEAN,
             SetState(t, state, on) \/ RequestState(t, state, on)
      PROVE  ShownInv'
  BY <1>1, <1>5, StateShown
<1>6. ASSUME NEW t \in setting.toplevels \cup {None}, Focus(t)
      PROVE  ShownInv'
  BY <1>1, <1>6, FocusShown
<1>7. ASSUME NEW p \in setting.popups,
             Dismiss(p) \/ Grab(p) \/ Reposition(p) \/ DestroyPopup(p)
      PROVE  ShownInv'
  BY <1>1, <1>7, DismissShown, DestroyPopupShown
<1>8. CASE UNCHANGED vars
  BY <1>8 DEF vars, ShownInv, WindowAt, MenuAt, Current
<1> QED
  BY <1>2, <1>3, <1>4, <1>5, <1>6, <1>7, <1>8 DEF Next

LEMMA ShownInvHolds == Spec => []ShownInv
<1>1. Init => ShownInv
  BY DEF Init, ShownInv, WindowAt, MenuAt
<1> QED
  BY <1>1, ShownStep, Invariance, PTL DEF Spec

\* The compositor's list of windows and menus is what is mapped, and what is
\* mapped shows a buffer, whatever is committed and destroyed and in which order.
THEOREM MappedHasContent == Spec => []MappedIsContent
<1>1. IInv /\ ShownInv => MappedIsContent
  <2> SUFFICES ASSUME IInv, ShownInv PROVE MappedIsContent
    OBVIOUS
  <2>1. view \subseteq Toplevels \cup Popups
    BY DEF IInv, TypeOK
  <2> QED
    BY <2>1 DEF ShownInv, WindowAt, MenuAt, MappedIsContent, Windows, Menus
<1> QED
  BY <1>1, Invariance, ShownInvHolds, PTL

\* The windows on screen and the active one are windows that live, in every state.
THEOREM ShownIsFocused == Spec => []ShownAndFocused
  BY MappedHasContent, FocusIsExclusive, PTL DEF ShownAndFocused

\* The last configure a client got says how the shell has its window, whatever
\* states and sizes were set, before it committed and after.
THEOREM ClientIsTold == Spec => []ClientIsUpToDate
<1>1. ShownInv => ClientIsUpToDate
  BY DEF ShownInv, WindowAt, MenuAt, ClientIsUpToDate, Windows, Menus, Current
<1> QED
  BY <1>1, ShownInvHolds, PTL
=============================================================================
