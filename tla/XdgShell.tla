------------------------------ MODULE XdgShell ------------------------------
(***************************************************************************)
(* Windows and menus (src/protocol/core/xdg_shell.cppm): the objects a     *)
(* client makes of a wl_surface, the pointers they keep to one another     *)
(* while any of them may be destroyed first, when a window is mapped, what *)
(* the client was last told to be, and which popups are dismissed.         *)
(*                                                                         *)
(* A wl_surface has one xdg_surface at a time, so xs is indexed by it.     *)
(* Sizes are 0 ("you choose") or 1 (a real one).  Titles, size hints, the  *)
(* position of popups, serials (last_acked is stored and never read) and   *)
(* requests that only emit a signal are left out, as is the version of the *)
(* client (2 and up).  What a listener does, it does in a later step.      *)
(***************************************************************************)
EXTENDS Naturals, FiniteSets

CONSTANTS
    Surfaces,     \* wl_surfaces
    Toplevels,    \* xdg_toplevels
    Popups,       \* xdg_popups
    None,         \* a null pointer, an object that does not exist
    Settings      \* the kinds of compositor and client: see Setting

\* States a client is told of, and one that the shell only keeps.
Sent == {"maximized", "fullscreen", "resizing", "activated", "tiled"}
States == Sent \cup {"minimized"}

\* Before the first configure.
Untold == {"untold"}

\* What a session may do besides making and destroying windows.
Habits == {"bounds",       \* the compositor has called set_bounds
           "focus",        \* it focuses windows
           "grab",         \* menus take a grab
           "transient",    \* windows are transient for others
           "teardown"}     \* a wl_surface may go before its xdg_surface

\* What a session is made of: its objects; the states and sizes that are set;
\* the states whose requests the compositor listens for.
Setting == [surfaces : SUBSET Surfaces, toplevels : SUBSET Toplevels, popups : SUBSET Popups,
            managed : SUBSET (States \ {"activated"}), sizes : SUBSET {0, 1},
            arbitrated : SUBSET States, uses : SUBSET Habits]

VARIABLES
    setting,      \* the session, fixed from the start
    surface,      \* wl_surfaces: "gone", without a buffer, with one
    xs,           \* the XdgSurface of a wl_surface, or None
    tl,           \* the ToplevelImpls, or None
    pp,           \* the PopupImpls, or None
    focused,      \* XdgShell::Impl::focused
    view,         \* the windows whose map event has been emitted and no unmap
    late          \* roles given after the initial commit of their xdg_surface

vars == <<setting, surface, xs, tl, pp, focused, view, late>>

XdgSurface == [toplevel : Toplevels \cup {None}, popup : Popups \cup {None},
               child_popups : SUBSET Popups, initialized : BOOLEAN]

\* told: the states of the last configure; asked: the last size the compositor
\* gave itself.  The program keeps neither.
Toplevel == [owner : Surfaces \cup {None}, mapped : BOOLEAN, states : SUBSET States,
             pending : {0, 1}, parent : Toplevels \cup {None}, transients : SUBSET Toplevels,
             told : (SUBSET Sent) \cup {Untold}, asked : {0, 1}]

Popup == [owner : Surfaces \cup {None}, parent : Surfaces \cup {None}, mapped : BOOLEAN,
          grabbed : BOOLEAN, done : BOOLEAN, told : BOOLEAN]

ASSUME ShellAssumption ==
    /\ Surfaces \cap Toplevels = {}
    /\ Surfaces \cap Popups = {}
    /\ Toplevels \cap Popups = {}
    /\ None \notin Surfaces \cup Toplevels \cup Popups
    /\ None \notin XdgSurface /\ None \notin Toplevel /\ None \notin Popup
    /\ Settings \subseteq Setting

TypeOK ==
    /\ setting \in Settings
    /\ surface \in [Surfaces -> {"gone", "bare", "shown"}]
    /\ xs \in [Surfaces -> XdgSurface \cup {None}]
    /\ tl \in [Toplevels -> Toplevel \cup {None}]
    /\ pp \in [Popups -> Popup \cup {None}]
    /\ focused \in Toplevels \cup {None}
    /\ view \subseteq Toplevels \cup Popups
    /\ late \subseteq Toplevels \cup Popups

Xdgs == {s \in Surfaces : xs[s] # None}
Windows == {t \in Toplevels : tl[t] # None}
Menus == {p \in Popups : pp[p] # None}

Init ==
    /\ setting \in Settings
    /\ surface = [s \in Surfaces |-> "gone"]
    /\ xs = [s \in Surfaces |-> None]
    /\ tl = [t \in Toplevels |-> None]
    /\ pp = [p \in Popups |-> None]
    /\ focused = None
    /\ view = {}
    /\ late = {}

-----------------------------------------------------------------------------
(* Configure *)

\* effective_geometry(): the client's own, or the surface's; a surface that is
\* gone is read all the same.
Geometry(s) == IF surface'[s] = "shown" THEN {1} ELSE {0, 1}

\* ToplevelImpl::configure(): the records r may become when asked for a size.
Substitute(r, size) ==
    IF r.states \cap {"maximized", "fullscreen"} # {} /\ size = 0
    THEN IF "bounds" \in setting.uses THEN {1} ELSE Geometry(r.owner)
    ELSE {size}

Configured(r, size) ==
    IF r.owner = None THEN {r}
    ELSE {[r EXCEPT !.pending = n, !.told = r.states \cap Sent] : n \in Substitute(r, size)}

\* Mutant: a window that is not mapped yet is told later.
WithState_Mapped(r, state, on) ==
    LET changed == [r EXCEPT !.states = IF on THEN @ \cup {state} ELSE @ \ {state}]
    IN CASE (state \in r.states) = on -> {r}
         [] (state \in r.states) # on /\ (state = "minimized" \/ ~r.mapped) -> {changed}
         [] OTHER -> Configured(changed, r.pending)

\* set_maximized() and the like; no configure carries "minimized".
WithState(r, state, on) ==
    LET changed == [r EXCEPT !.states = IF on THEN @ \cup {state} ELSE @ \ {state}]
    IN CASE (state \in r.states) = on -> {r}
         [] (state \in r.states) # on /\ state = "minimized" -> {changed}
         [] OTHER -> Configured(changed, r.pending)

-----------------------------------------------------------------------------
(* The making of a window *)

CreateSurface(s) ==
    /\ surface[s] = "gone"
    /\ xs[s] = None
    /\ surface' = [surface EXCEPT ![s] = "bare"]
    /\ UNCHANGED <<setting, xs, tl, pp, focused, view, late>>

GetXdgSurface(s) ==
    /\ surface[s] # "gone"
    /\ xs[s] = None
    /\ xs' = [xs EXCEPT ![s] = [toplevel |-> None, popup |-> None, child_popups |-> {},
                                initialized |-> FALSE]]
    /\ UNCHANGED <<setting, surface, tl, pp, focused, view, late>>

HasRole(s) == xs[s].toplevel # None \/ xs[s].popup # None

\* A role that is given once the surface has been committed.
MarkLate(s, role) == late' = IF xs[s].initialized THEN late \cup {role} ELSE late \ {role}

GetToplevel(s, t) ==
    /\ xs[s] # None
    /\ ~HasRole(s)
    /\ tl[t] = None
    /\ tl' = [tl EXCEPT ![t] =
                 [owner |-> s, mapped |-> FALSE, states |-> {}, pending |-> 0, parent |-> None,
                  transients |-> {}, told |-> Untold, asked |-> 0]]
    /\ xs' = [xs EXCEPT ![s].toplevel = t]
    /\ MarkLate(s, t)
    /\ UNCHANGED <<setting, surface, pp, focused, view>>

\* Nothing asks whether the parent has a role, or is still on screen.
GetPopup(s, p, parent) ==
    /\ xs[s] # None
    /\ ~HasRole(s)
    /\ pp[p] = None
    /\ parent # None => xs[parent] # None
    /\ pp' = [pp EXCEPT ![p] =
                 [owner |-> s, parent |-> parent, mapped |-> FALSE, grabbed |-> FALSE,
                  done |-> FALSE, told |-> FALSE]]
    /\ xs' = [x \in Surfaces |->
                 IF x \notin {s, parent} THEN xs[x]
                 ELSE [xs[x] EXCEPT !.popup = IF x = s THEN p ELSE @,
                                    !.child_popups = IF x = parent THEN @ \cup {p} ELSE @]]
    /\ MarkLate(s, p)
    /\ UNCHANGED <<setting, surface, tl, focused, view>>

-----------------------------------------------------------------------------
(* on_surface_commit() *)

\* The first commit of an xdg_surface is answered, whatever it carries.
InitialCommit(s) ==
    /\ xs[s] # None
    /\ ~xs[s].initialized
    /\ xs' = [xs EXCEPT ![s].initialized = TRUE]
    /\ LET t == xs[s].toplevel
           p == xs[s].popup
       IN /\ IF t # None
             THEN \E r \in Configured(tl[t], tl[t].pending) : tl' = [tl EXCEPT ![t] = r]
             ELSE UNCHANGED tl
          /\ pp' = IF t = None /\ p # None THEN [pp EXCEPT ![p].told = TRUE] ELSE pp
    /\ UNCHANGED view

\* Mutant: a commit without a buffer does not unmap.
ToplevelCommit_Sticky(s) ==
    LET t == xs[s].toplevel
        buffer == surface'[s] = "shown" \/ tl[t].mapped
    IN /\ xs[s] # None
       /\ xs[s].initialized
       /\ t # None
       /\ tl' = [tl EXCEPT ![t].mapped = buffer]
       /\ view' = IF buffer THEN view \cup {t} ELSE view \ {t}
       /\ UNCHANGED <<xs, pp>>

ToplevelCommit(s) ==
    LET t == xs[s].toplevel
        buffer == surface'[s] = "shown"
    IN /\ xs[s] # None
       /\ xs[s].initialized
       /\ t # None
       /\ tl' = [tl EXCEPT ![t].mapped = buffer]
       /\ view' = IF buffer THEN view \cup {t} ELSE view \ {t}
       /\ UNCHANGED <<xs, pp>>

\* A popup that has been dismissed is not mapped again.
PopupShows(p) == surface'[pp[p].owner] = "shown" /\ ~pp[p].done

PopupCommit(s) ==
    LET p == xs[s].popup
    IN /\ xs[s] # None
       /\ xs[s].initialized
       /\ xs[s].toplevel = None
       /\ p # None
       /\ pp' = [pp EXCEPT ![p].mapped = PopupShows(p)]
       /\ view' = IF PopupShows(p) THEN view \cup {p} ELSE view \ {p}
       /\ UNCHANGED <<xs, tl>>

PlainCommit(s) ==
    /\ xs[s] # None => xs[s].initialized /\ ~HasRole(s)
    /\ UNCHANGED <<xs, tl, pp, view>>

\* A commit that attaches a buffer, takes it off, or leaves it.
Commit(s, content) ==
    /\ surface[s] # "gone"
    /\ surface' = [surface EXCEPT ![s] = content]
    /\ InitialCommit(s) \/ ToplevelCommit(s) \/ PopupCommit(s) \/ PlainCommit(s)
    /\ UNCHANGED <<setting, focused, late>>

-----------------------------------------------------------------------------
(* States, focus and transients *)

\* The effect of a step on one toplevel, which may become any of results.
Becomes(t, results) ==
    /\ tl[t] # None
    /\ \E r \in results : tl' = [tl EXCEPT ![t] = r]
    /\ UNCHANGED <<setting, surface, xs, pp, focused, view, late>>

Configure(t, size) ==
    /\ UNCHANGED surface
    /\ Becomes(t, {[r EXCEPT !.asked = IF r.owner = None THEN @ ELSE size] :
                      r \in Configured(tl[t], size)})

SetState(t, state, on) ==
    /\ state \in setting.managed
    /\ UNCHANGED surface
    /\ Becomes(t, WithState(tl[t], state, on))

\* The client's wish is granted when nobody listens.
RequestState(t, state, on) ==
    /\ state \in {"maximized", "fullscreen", "minimized"} \ setting.arbitrated
    /\ state = "minimized" => on
    /\ UNCHANGED surface
    /\ Becomes(t, WithState(tl[t], state, on))

SetParent(t, parent) ==
    /\ "transient" \in setting.uses
    /\ tl[t] # None
    /\ parent # t
    /\ parent # None => tl[parent] # None
    /\ tl' = [u \in Toplevels |->
                 CASE u = t -> [tl[u] EXCEPT !.parent = parent]
                   [] u # t /\ u = parent -> [tl[u] EXCEPT !.transients = @ \cup {t}]
                   [] u # t /\ u # parent /\ u = tl[t].parent ->
                         [tl[u] EXCEPT !.transients = @ \ {t}]
                   [] OTHER -> tl[u]]
    /\ UNCHANGED <<setting, surface, xs, pp, focused, view, late>>

\* Mutant: the old window keeps the state.
Deactivated_Not(t) == IF t = None THEN {None} ELSE {tl[t]}

\* What becomes of the window that loses the focus, and of the one that gets it.
Deactivated(t) == IF t = None THEN {None} ELSE WithState(tl[t], "activated", FALSE)
Activated(t) == IF t = None THEN {None} ELSE WithState(tl[t], "activated", TRUE)

\* focus(): the old window is deactivated, then the new one activated.
Focus(t) ==
    /\ "focus" \in setting.uses
    /\ t # focused
    /\ t # None => tl[t] # None
    /\ UNCHANGED surface
    /\ \E was \in Deactivated(focused), is \in Activated(t) :
          tl' = [u \in Toplevels |-> CASE u = focused -> was
                                       [] u # focused /\ u = t -> is
                                       [] OTHER -> tl[u]]
    /\ focused' = t
    /\ UNCHANGED <<setting, xs, pp, view, late>>

-----------------------------------------------------------------------------
(* Popups *)

\* child_popups of the xdg_surface of a popup, given the popups P.
ChildrenOf(P, p) == IF P[p].owner = None THEN {} ELSE xs[P[p].owner].child_popups

\* Mutant: dismiss() does not go down.
Chain_Roots(P, roots) == {q \in roots : ~P[q].done}

\* What dismiss() reaches from roots: it goes through popups not yet done.
Chain(P, roots) ==
    LET Undone(Q) == {q \in Q : ~P[q].done}
        Closed(D) == Undone(roots) \subseteq D /\ \A q \in D : Undone(ChildrenOf(P, q)) \subseteq D
    IN {q \in Menus : \A D \in SUBSET Menus : Closed(D) => q \in D}

Dismissed(P, D) ==
    [p \in Popups |-> IF p \in D THEN [P[p] EXCEPT !.done = TRUE, !.mapped = FALSE] ELSE P[p]]

Dismiss(p) ==
    /\ pp[p] # None
    /\ pp' = Dismissed(pp, Chain(pp, {p}))
    /\ view' = view \ Chain(pp, {p})
    /\ UNCHANGED <<setting, surface, xs, tl, focused, late>>

Grab(p) ==
    /\ "grab" \in setting.uses
    /\ pp[p] # None
    /\ pp' = [pp EXCEPT ![p].grabbed = TRUE]
    /\ UNCHANGED <<setting, surface, xs, tl, focused, view, late>>

Reposition(p) ==
    /\ pp[p] # None
    /\ pp' = [pp EXCEPT ![p].told = @ \/ pp[p].owner # None]
    /\ UNCHANGED <<setting, surface, xs, tl, focused, view, late>>

-----------------------------------------------------------------------------
(* Destruction, in any order *)

\* xs->surface keeps pointing at it.
DestroySurface(s) ==
    /\ surface[s] # "gone"
    /\ xs[s] = None \/ "teardown" \in setting.uses
    /\ surface' = [surface EXCEPT ![s] = "gone"]
    /\ UNCHANGED <<setting, xs, tl, pp, focused, view, late>>

\* Mutant: the windows that were transient for it are forgotten.
Unlinked_OneWay(t) ==
    [u \in Toplevels |->
        IF u = t \/ tl[u] = None THEN None
        ELSE [tl[u] EXCEPT !.transients = IF u = tl[t].parent THEN @ \ {t} ELSE @]]

\* ~ToplevelImpl(): both halves of each transient pair.
Unlinked(t) ==
    [u \in Toplevels |->
        IF u = t \/ tl[u] = None THEN None
        ELSE [tl[u] EXCEPT !.parent = IF u \in tl[t].transients THEN None ELSE @,
                           !.transients = IF u = tl[t].parent THEN @ \ {t} ELSE @]]

DestroyToplevel(t) ==
    /\ tl[t] # None
    /\ tl' = Unlinked(t)
    /\ xs' = IF tl[t].owner = None THEN xs ELSE [xs EXCEPT ![tl[t].owner].toplevel = None]
    /\ focused' = IF focused = t THEN None ELSE focused
    /\ view' = view \ {t}
    /\ late' = late \ {t}
    /\ UNCHANGED <<setting, surface, pp>>

DestroyPopup(p) ==
    /\ pp[p] # None
    /\ pp' = [pp EXCEPT ![p] = None]
    /\ xs' = [x \in Surfaces |->
                 IF xs[x] = None THEN None
                 ELSE [xs[x] EXCEPT !.popup = IF x = pp[p].owner THEN None ELSE @,
                                    !.child_popups = IF x = pp[p].parent THEN @ \ {p} ELSE @]]
    /\ view' = view \ {p}
    /\ late' = late \ {p}
    /\ UNCHANGED <<setting, surface, tl, focused>>

\* The xdg_surface goes: its role is left without an owner, and the popups
\* placed against it are dismissed, with theirs.
DestroyXdgSurface(s) ==
    LET children == xs[s].child_popups
        orphaned == [p \in Popups |->
                        IF p = xs[s].popup THEN [pp[p] EXCEPT !.owner = None] ELSE pp[p]]
        chain == Chain(orphaned, children)
        after == Dismissed(orphaned, chain)
    IN /\ xs[s] # None
       /\ xs' = [xs EXCEPT ![s] = None]
       /\ tl' = [t \in Toplevels |->
                    IF t = xs[s].toplevel THEN [tl[t] EXCEPT !.owner = None] ELSE tl[t]]
       /\ pp' = [p \in Popups |->
                    IF p \in children THEN [after[p] EXCEPT !.parent = None] ELSE after[p]]
       /\ view' = view \ chain
       /\ UNCHANGED <<setting, surface, focused, late>>

-----------------------------------------------------------------------------
Next ==
    \/ \E s \in setting.surfaces :
          \/ CreateSurface(s) \/ DestroySurface(s) \/ GetXdgSurface(s) \/ DestroyXdgSurface(s)
          \/ \E content \in {"bare", "shown"} : Commit(s, content)
          \/ \E t \in setting.toplevels : GetToplevel(s, t)
          \/ \E p \in setting.popups, parent \in setting.surfaces \cup {None} :
                GetPopup(s, p, parent)
    \/ \E t \in setting.toplevels :
          \/ DestroyToplevel(t)
          \/ \E size \in setting.sizes : Configure(t, size)
          \/ \E state \in setting.managed, on \in BOOLEAN :
                SetState(t, state, on) \/ RequestState(t, state, on)
          \/ \E parent \in setting.toplevels \cup {None} : SetParent(t, parent)
    \/ \E t \in setting.toplevels \cup {None} : Focus(t)
    \/ \E p \in setting.popups : Dismiss(p) \/ Grab(p) \/ Reposition(p) \/ DestroyPopup(p)

Spec == Init /\ [][Next]_vars

-----------------------------------------------------------------------------
(* Properties *)

RolesAgree ==
    /\ \A s \in Xdgs :
          /\ xs[s].toplevel # None => xs[s].toplevel \in Windows /\ tl[xs[s].toplevel].owner = s
          /\ xs[s].popup # None => xs[s].popup \in Menus /\ pp[xs[s].popup].owner = s
          /\ xs[s].toplevel = None \/ xs[s].popup = None
    /\ \A t \in Windows :
          tl[t].owner # None => tl[t].owner \in Xdgs /\ xs[tl[t].owner].toplevel = t
    /\ \A p \in Menus :
          pp[p].owner # None => pp[p].owner \in Xdgs /\ xs[pp[p].owner].popup = p

AnchorsAgree ==
    /\ \A s \in Xdgs : xs[s].child_popups = {p \in Menus : pp[p].parent = s}
    /\ \A p \in Menus : pp[p].parent # None => pp[p].parent \in Xdgs

TransientsAgree ==
    \A t \in Windows :
        /\ tl[t].transients = {u \in Windows : tl[u].parent = t}
        /\ tl[t].parent # None => tl[t].parent \in Windows \ {t}

\* "Either side nulls the cross-pointer when it dies, so client teardown in any
\* resource order is safe": no pointer between an xdg_surface, its role, the
\* popups placed against it and windows transient for one another is left to an
\* object that is gone, and each pair agrees.
LinksAgree == RolesAgree /\ AnchorsAgree /\ TransientsAgree

\* The compositor's list of windows: one that was reported mapped exists and is
\* mapped, is reported unmapped before it goes, and shows a buffer for as long
\* as it has its xdg_surface and its wl_surface.
MappedIsContent ==
    /\ view = {t \in Windows : tl[t].mapped} \cup {p \in Menus : pp[p].mapped}
    /\ \A t \in Windows : tl[t].mapped /\ tl[t].owner # None =>
          xs[tl[t].owner].initialized /\ surface[tl[t].owner] # "bare"
    /\ \A p \in Menus : pp[p].mapped /\ pp[p].owner # None =>
          xs[pp[p].owner].initialized /\ surface[pp[p].owner] # "bare"

\* What a client was told last is how the shell has its window: a window that
\* asked in time is told something once it has committed, the last configure has
\* the states of the window, also those changed before that commit, a size the
\* compositor chose is not taken back, and a maximized window gets a real one.
ClientIsUpToDate ==
    /\ \A t \in Windows : LET r == tl[t] IN
          r.owner # None =>
             /\ xs[r.owner].initialized /\ t \notin late => r.told # Untold
             /\ r.told = r.states \cap Sent \/ (r.told = Untold /\ r.states \cap Sent = {})
             /\ r.asked <= r.pending
             /\ "bounds" \in setting.uses /\ r.states \cap {"maximized", "fullscreen"} # {} => r.pending = 1
    /\ \A p \in Menus : pp[p].owner # None =>
          (xs[pp[p].owner].initialized /\ p \notin late => pp[p].told)

\* focus(): "it alone gets the activated state", "one that is destroyed while
\* focused is forgotten".
FocusedAlone ==
    /\ focused # None => focused \in Windows
    /\ \A t \in Windows : "activated" \in tl[t].states <=> t = focused

\* What the compositor shows and what it shows as active are windows it has: its
\* list is what is mapped, with content, and one window alone has the focus.
ShownAndFocused == MappedIsContent /\ FocusedAlone

\* Menus: one that is dismissed takes those opened from it with it, stays
\* dismissed and is not shown again by a commit that was on its way; one whose
\* anchor is gone has been dismissed.
MenusGoTogether ==
    [][\A p \in Popups : pp[p] # None /\ pp'[p] # None =>
          /\ pp[p].done => pp'[p].done
          /\ pp'[p].done => ~pp'[p].mapped
          /\ ~pp[p].done /\ pp'[p].done => \A q \in ChildrenOf(pp, p) : pp'[q].done
          /\ pp[p].parent # None /\ pp'[p].parent = None => pp'[p].done]_vars
=============================================================================
