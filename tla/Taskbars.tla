------------------------------- MODULE Taskbars -------------------------------
(***************************************************************************)
(* The window lists of bindings/rust/src/desktop.rs (ForeignToplevelManager *)
(* and ForeignToplevelList): the list lives once, every taskbar that is    *)
(* bound has handles of its own for the windows in it, and each entry      *)
(* follows its window's signals, so that the compositor announces nothing. *)
(* A taskbar's request only leaves an event, with the window's name.       *)
(***************************************************************************)
EXTENDS Naturals, FiniteSets

CONSTANTS
    Wins,       \* xdg_toplevels
    Bars,       \* taskbars of zwlr_foreign_toplevel_manager_v1
    Lists,      \* clients of ext_foreign_toplevel_list_v1
    NoWin       \* "no window"

ASSUME TaskbarAssumption == NoWin \notin Wins /\ Bars \cap Lists = {}

VARIABLES
    tracking,   \* track() was called
    wins,       \* window -> its life, what there is to say of it, its parent
    binding,    \* client -> has it bound the manager
    handle,     \* client, window -> its handle and what that said last
    asked       \* a taskbar's request, not handled yet: the window's name
barVars == <<tracking, wins, binding, handle, asked>>

Watchers == Bars \cup Lists
Looks == {"plain", "changed"}   \* title, app id, maximized, minimized, ...
NoHandle == [is |-> "none", look |-> "plain", parent |-> NoWin]

BarsTypeOK ==
    /\ tracking \in BOOLEAN
    /\ wins \in [Wins -> [life : {"never", "made", "mapped", "gone"}, tracked : BOOLEAN,
                          look : Looks, parent : Wins \cup {NoWin}]]
    /\ binding \in [Watchers -> {"no", "bound", "stopped"}]
    /\ handle \in [Watchers -> [Wins -> [is : {"none", "live", "dropped"}, look : Looks,
                                         parent : Wins \cup {NoWin}]]]
    /\ asked \in Wins \cup {NoWin}

BarsInit ==
    /\ tracking = FALSE
    /\ wins = [w \in Wins |-> [life |-> "never", tracked |-> FALSE, look |-> "plain",
                               parent |-> NoWin]]
    /\ binding = [b \in Watchers |-> "no"]
    /\ handle = [b \in Watchers |-> [w \in Wins |-> NoHandle]]
    /\ asked = NoWin

-----------------------------------------------------------------------------
(* What the manager sends. *)

Announced(all, w) == all[w].tracked /\ all[w].life = "mapped"

\* The parent by the client's handle for it, if it has one.  The read-only
\* list says nothing of parents.
ParentSaid(all, h, b, w) ==
    LET p == all[w].parent IN
    IF b \in Bars /\ p # NoWin /\ h[p].is = "live" THEN p ELSE NoWin

Details(all, h, b, w) ==
    [h EXCEPT ![w].look = all[w].look, ![w].parent = ParentSaid(all, h, b, w)]

\* title, state, parent, and the done that makes them one change.
Refreshed(all, ws) ==
    [b \in Watchers |-> [w \in Wins |->
        IF w \in ws /\ Announced(all, w) /\ handle[b][w].is = "live"
        THEN Details(all, handle[b], b, w)[w] ELSE handle[b][w]]]

Fresh(all, w) == [NoHandle EXCEPT !.is = "live", !.look = all[w].look]

\* Every client that is still listening gets a handle.
Announce(all, w) ==
    [b \in Watchers |->
        IF binding[b] = "bound" THEN Details(all, [handle[b] EXCEPT ![w] = Fresh(all, w)], b, w)
        ELSE handle[b]]

\* closed: the handle is the client's to destroy, and names nothing any more,
\* not as somebody's parent either.
Closed(h, w) ==
    [v \in Wins |-> IF v = w THEN NoHandle
                    ELSE IF h[v].parent = w THEN [h[v] EXCEPT !.parent = NoWin] ELSE h[v]]
Withdraw(w) == [b \in Watchers |-> Closed(handle[b], w)]

-----------------------------------------------------------------------------
(* The windows, whose signals the entries follow. *)

Create(w) ==
    /\ wins[w].life = "never"
    /\ wins' = [wins EXCEPT ![w].life = "made", ![w].tracked = tracking]
    /\ UNCHANGED <<tracking, binding, handle, asked>>

Map(w) ==
    LET all == [wins EXCEPT ![w].life = "mapped"] IN
    /\ wins[w].life = "made"
    /\ wins' = all
    /\ handle' = IF wins[w].tracked THEN Announce(all, w) ELSE handle
    /\ UNCHANGED <<tracking, binding, asked>>

Unmap(w) ==
    /\ wins[w].life = "mapped"
    /\ wins' = [wins EXCEPT ![w].life = "made"]
    /\ handle' = Withdraw(w)
    /\ UNCHANGED <<tracking, binding, asked>>

\* The entry goes first; then the destructor takes the window out of its
\* transients, which refreshes theirs.
Destroy(w) ==
    LET all == [v \in Wins |-> IF v = w THEN [wins[w] EXCEPT !.life = "gone", !.parent = NoWin]
                               ELSE IF wins[v].parent = w THEN [wins[v] EXCEPT !.parent = NoWin]
                               ELSE wins[v]]
        closed == Withdraw(w)
    IN  /\ wins[w].life \in {"made", "mapped"}
        /\ wins' = all
        /\ handle' = [b \in Watchers |-> [v \in Wins |->
               IF wins[v].parent = w /\ Announced(all, v) /\ closed[b][v].is = "live"
               THEN Details(all, closed[b], b, v)[v] ELSE closed[b][v]]]
        /\ UNCHANGED <<tracking, binding, asked>>

Changes(w, look) ==
    LET all == [wins EXCEPT ![w].look = look] IN
    /\ wins[w].life \in {"made", "mapped"} /\ wins[w].look # look
    /\ wins' = all
    /\ handle' = Refreshed(all, {w})
    /\ UNCHANGED <<tracking, binding>>

Change(w, look) == Changes(w, look) /\ UNCHANGED asked

SetParent(w, p) ==
    LET all == [wins EXCEPT ![w].parent = p] IN
    /\ wins[w].life \in {"made", "mapped"} /\ wins[w].parent # p /\ p # w
    /\ p # NoWin => wins[p].life \in {"made", "mapped"} /\ wins[p].parent # w
    /\ wins' = all
    /\ handle' = Refreshed(all, {w})
    /\ UNCHANGED <<tracking, binding, asked>>

-----------------------------------------------------------------------------
(* The compositor and the clients of the lists. *)

\* Windows made before are not looked for.
Track ==
    /\ ~tracking
    /\ tracking' = TRUE
    /\ UNCHANGED <<wins, binding, handle, asked>>

\* Mutant: a late taskbar is sent the windows that are not mapped too.
Listed_Entries == {w \in Wins : wins[w].tracked /\ wins[w].life \in {"made", "mapped"}}

\* What a taskbar that starts late is sent.
Listed == {w \in Wins : Announced(wins, w)}

\* The whole list, in the order the windows were made: a window whose parent is
\* younger is sent before its parent is.
Bind(b) ==
    /\ binding[b] = "no"
    /\ binding' = [binding EXCEPT ![b] = "bound"]
    /\ \E elders \in SUBSET Listed :
        handle' = [handle EXCEPT ![b] = [w \in Wins |->
            IF w \notin Listed THEN @[w]
            ELSE IF b \in Bars /\ wins[w].parent \in elders
                 THEN [Fresh(wins, w) EXCEPT !.parent = wins[w].parent]
            ELSE Fresh(wins, w)]]
    /\ UNCHANGED <<tracking, wins, asked>>

\* stop: a taskbar's manager goes, with its handles; the read-only list only
\* stops announcing.
Stop(b) ==
    /\ binding[b] = "bound"
    /\ binding' = [binding EXCEPT ![b] = IF b \in Bars THEN "no" ELSE "stopped"]
    /\ handle' = IF b \in Bars THEN [handle EXCEPT ![b] = [w \in Wins |-> NoHandle]] ELSE handle
    /\ UNCHANGED <<tracking, wins, asked>>

\* The client destroys a handle although the window is there.
Forget(b, w) ==
    /\ handle[b][w].is = "live"
    /\ handle' = [handle EXCEPT ![b] = [Closed(@, w) EXCEPT ![w].is = "dropped"]]
    /\ UNCHANGED <<tracking, wins, binding, asked>>

\* A request on a handle whose window has gone does nothing.
Request(b, w) ==
    /\ asked = NoWin
    /\ handle[b][w].is = "live"
    /\ asked' = w
    /\ UNCHANGED <<tracking, wins, binding, handle>>

\* The event is handled later: the window's name may name nothing by then.
Serve ==
    /\ asked # NoWin
    /\ asked' = NoWin
    /\ \/ \E look \in Looks : Changes(asked, look)
       \/ UNCHANGED <<tracking, wins, binding, handle>>

BarsNext ==
    \/ \E w \in Wins : Create(w) \/ Map(w) \/ Unmap(w) \/ Destroy(w)
    \/ \E w \in Wins, look \in Looks : Change(w, look)
    \/ \E w \in Wins, p \in Wins \cup {NoWin} : SetParent(w, p)
    \/ Track \/ Serve
    \/ \E b \in Watchers : Bind(b) \/ Stop(b)
    \/ \E b \in Watchers, w \in Wins : Forget(b, w)
    \/ \E b \in Bars, w \in Wins : Request(b, w)

BarsSpec == BarsInit /\ [][BarsNext]_barVars

-----------------------------------------------------------------------------
(* The properties. *)

\* Whatever maps, changes, is reparented, dies or binds in whatever order,
\* every client that listens has a handle for exactly the windows there are
\* (but those it dropped), each says what the window is now, and a parent it
\* names is the window's parent; a client that has stopped keeps the handles
\* it has up to date.
TaskbarsAgree ==
    \A b \in Watchers, w \in Wins :
        /\ binding[b] = "bound" =>
               (handle[b][w].is # "none" <=> Announced(wins, w))
        /\ handle[b][w].is = "live" =>
               /\ Announced(wins, w)
               /\ handle[b][w].look = wins[w].look
               /\ handle[b][w].parent \in {wins[w].parent, NoWin}
        /\ handle[b][w].parent # NoWin => handle[b][handle[b][w].parent].is = "live"

\* The stronger statement that does not hold: a parent that maps, or maps
\* again, after its transient is not told to the taskbars.
FamilyShown ==
    \A b \in Bars, w \in Wins :
        (/\ handle[b][w].is = "live" /\ wins[w].parent # NoWin
         /\ handle[b][wins[w].parent].is = "live")
        => handle[b][w].parent = wins[w].parent
=============================================================================
