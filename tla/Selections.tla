------------------------------ MODULE Selections ------------------------------
(***************************************************************************)
(* A selection of bindings/rust/src/protocol/selection.rs: who owns it, the *)
(* offers through which the focused client pastes it, the clipboard        *)
(* managers of desktop.rs's DataControlManager, which see and set it with  *)
(* no focus at all, and the Event::Selection the compositor learns from.   *)
(* The clipboard and the middle-click selection are each one of these; the *)
(* binding gives a DataControlManager to the clipboard only.               *)
(***************************************************************************)
EXTENDS Naturals, Sequences

CONSTANTS
    Pasters,    \* clients that may have a data device
    Managers,   \* clients of the data-control protocol
    Offered,    \* client -> the sources it ever makes
    LateOffers, \* does a client add a format to a source that is the selection
    MaxUnread,  \* bound: events the compositor lets pile up
    Nobody      \* no source; no client

Clients == Pasters \cup Managers
Sources == UNION {Offered[c] : c \in Clients}
Wrapped == UNION {Offered[c] : c \in Managers}

ASSUME SelectionAssumption ==
    /\ Pasters \cap Managers = {}
    /\ Nobody \notin Clients \cup Sources
    /\ \A c, d \in Clients : c # d => Offered[c] \cap Offered[d] = {}
    /\ LateOffers \in BOOLEAN
    /\ MaxUnread \in Nat

VARIABLES
    selection,  \* Impl::selection: the source that owns it
    sources,    \* the sources there are
    formats,    \* those that offer a format
    spent,      \* those of a manager that were set once (used_)
    owners,     \* those whose clients were told nothing since they set them
    focused,    \* whose surface has the keyboard
    devices,    \* the clients that hold a device
    pasted,     \* client -> the source its last offer reads from
    views,      \* manager -> the offers it holds: whose they were given as, still valid
    mirrored,   \* manager -> whose selection it was told of last
    unread,     \* Event::Selection waiting: the owner whose formats each lists
    known       \* the owner the compositor heard of last
selectVars == <<selection, sources, formats, spent, owners, focused, devices, pasted,
                views, mirrored, unread, known>>

OwnerOrNot == Sources \cup {Nobody}

SelectTypeOK ==
    /\ selection \in sources \cup {Nobody}
    /\ sources \subseteq Sources /\ formats \subseteq sources /\ owners \subseteq sources
    /\ spent \subseteq Wrapped
    /\ focused \in Pasters \cup {Nobody}
    /\ devices \subseteq Clients
    /\ pasted \in [Pasters -> OwnerOrNot]
    /\ views \in [Managers -> SUBSET [of : Sources, valid : BOOLEAN]]
    /\ mirrored \in [Managers -> OwnerOrNot]
    /\ unread \in Seq(OwnerOrNot) /\ known \in OwnerOrNot

OwnersInit ==
    /\ selection = Nobody /\ sources = Sources
    /\ formats = {} /\ spent = {} /\ owners = {}
    /\ unread = <<>> /\ known = Nobody

PastersInit == focused = Nobody /\ devices = {} /\ pasted = [c \in Pasters |-> Nobody]

ManagersInit == views = [m \in Managers |-> {}] /\ mirrored = [m \in Managers |-> Nobody]

SelectInit == OwnersInit /\ PastersInit /\ ManagersInit

-----------------------------------------------------------------------------
(* What a change of owner sends. *)

\* What there is to see of a selection: one that offers no format is shown as
\* none (selection_mime_types() is empty).
Visible(s) == IF s \in formats THEN s ELSE Nobody

\* Offers of a source that is gone are inert.
Inert(gone) == [c \in Pasters |-> IF pasted[c] \in gone THEN Nobody ELSE pasted[c]]

\* The client that has the keyboard gets an offer of the new selection.
OfferFocused(held, s) ==
    IF focused \in devices THEN [held EXCEPT ![focused] = s] ELSE held

\* Mutant: an offer is good as long as it is held.
Invalidated_Kept(m) == views[m]

\* "Offers are INVALIDATED when the selection moves on."
Invalidated(m) == {[of |-> o.of, valid |-> FALSE] : o \in views[m]}

Given(s) == IF Visible(s) = Nobody THEN {} ELSE {[of |-> s, valid |-> TRUE]}

\* Every manager's offers end, and every device it holds gets the new one.
Mirrored(s, watching) ==
    /\ views' = [m \in Managers |-> Invalidated(m) \cup IF m \in watching THEN Given(s) ELSE {}]
    /\ mirrored' = [m \in Managers |-> IF m \in watching THEN Visible(s) ELSE mirrored[m]]

\* selection_changed: a Selection event, and the managers' copy of it.
SelectionChanged(s, watching) ==
    /\ Len(unread) < MaxUnread
    /\ unread' = Append(unread, Visible(s))
    /\ Mirrored(s, watching)

-----------------------------------------------------------------------------
(* Owners. *)

\* The old owner is told it lost the selection.  The wrapper around a manager's
\* source goes with that, and what was offered of it is inert; a client's own
\* source lives on, and so do its offers.
ApplySelection(s) ==
    /\ selection' = s
    /\ owners' = (owners \ {selection}) \cup ({s} \ {Nobody})
    /\ pasted' = OfferFocused(Inert({selection} \cap Wrapped), s)
    /\ SelectionChanged(s, devices)

\* set_selection, from whichever device: no serial is checked, and setting what
\* is set is nothing.  A manager's source is good once.
SetSelection(c, s) ==
    /\ c \in devices /\ s \in (Offered[c] \cap sources) \cup {Nobody}
    /\ s # selection /\ s \notin spent
    /\ ApplySelection(s)
    /\ spent' = spent \cup ({s} \cap Wrapped)
    /\ UNCHANGED <<sources, formats, focused, devices, known>>

\* source.offer.  The wrapper copied a manager's formats when it was made.
OfferFormat(s) ==
    /\ s \in sources \ (formats \cup spent)
    /\ LateOffers \/ s # selection
    /\ formats' = formats \cup {s}
    /\ UNCHANGED <<selection, sources, spent, owners, focused, devices, pasted, views, mirrored, unread, known>>

\* Sources go with their resources, and the selection with its source.
Destroyed(gone, watching) ==
    /\ sources' = sources \ gone /\ formats' = formats \ gone /\ owners' = owners \ gone
    /\ IF selection \in gone
       THEN /\ selection' = Nobody
            /\ pasted' = OfferFocused(Inert(gone), Nobody)
            /\ SelectionChanged(Nobody, watching)
       ELSE pasted' = Inert(gone) /\ UNCHANGED <<selection, views, mirrored, unread>>

DropSource(s) ==
    /\ s \in sources /\ Destroyed({s}, devices)
    /\ UNCHANGED <<spent, focused, devices, known>>

\* "This data control source has already been used": the client's connection
\* ends, and all it had with it.
ReuseSource(m, s) ==
    /\ m \in devices \cap Managers /\ s \in Offered[m] \cap spent \cap sources
    /\ Destroyed(Offered[m], devices \ {m})
    /\ devices' = devices \ {m}
    /\ UNCHANGED <<spent, focused, known>>

-----------------------------------------------------------------------------
(* Those who look. *)

\* get_data_device: a manager is told at once, a client if it has the keyboard.
GetDevice(c) ==
    /\ c \notin devices /\ devices' = devices \cup {c}
    /\ IF c \in Managers
       THEN /\ views' = [views EXCEPT ![c] = @ \cup Given(selection)]
            /\ mirrored' = [mirrored EXCEPT ![c] = Visible(selection)]
            /\ UNCHANGED pasted
       ELSE /\ pasted' = IF c = focused THEN [pasted EXCEPT ![c] = selection] ELSE pasted
            /\ UNCHANGED <<views, mirrored>>
    /\ UNCHANGED <<selection, sources, formats, spent, owners, focused, unread, known>>

ReleaseDevice(c) ==
    /\ c \in devices /\ devices' = devices \ {c}
    /\ UNCHANGED <<selection, sources, formats, spent, owners, focused, pasted, views, mirrored, unread, known>>

\* keyboard_focus_changed: the clipboard follows the keyboard.
Focus(c) ==
    /\ c # focused /\ focused' = c
    /\ pasted' = IF c \in devices THEN [pasted EXCEPT ![c] = selection] ELSE pasted
    /\ UNCHANGED <<selection, sources, formats, spent, owners, devices, views, mirrored, unread, known>>

\* The compositor handles Event::Selection.
HandleSelection ==
    /\ unread # <<>> /\ unread' = Tail(unread) /\ known' = Head(unread)
    /\ UNCHANGED <<selection, sources, formats, spent, owners, focused, devices, pasted, views, mirrored>>

-----------------------------------------------------------------------------
(* What reading gives. *)

\* selection_receive(): whoever owns it now writes; nobody, when nobody does.
SelectionReceive == selection

\* An offer a manager kept: "closing the pipe unread is how the requester learns
\* there is nothing there - better than silently handing over someone else's
\* clipboard."
OfferReceive(o) == IF o.valid THEN SelectionReceive ELSE Nobody

-----------------------------------------------------------------------------
SelectNext ==
    \/ \E c \in Clients, s \in OwnerOrNot : SetSelection(c, s)
    \/ \E s \in Sources : OfferFormat(s) \/ DropSource(s)
    \/ \E m \in Managers, s \in Wrapped : ReuseSource(m, s)
    \/ \E c \in Clients : GetDevice(c) \/ ReleaseDevice(c)
    \/ \E c \in Pasters \cup {Nobody} : Focus(c)
    \/ HandleSelection

SelectSpec == SelectInit /\ [][SelectNext]_selectVars

-----------------------------------------------------------------------------
(* Properties. *)

\* Who owns the selection is who believes it does: one that lost it was told, and
\* nobody else was (source_cancel, with the silence of a source that is going).
OwnerKnows == owners = {selection} \ {Nobody}

\* The client that has the keyboard pastes what is selected, however the focus,
\* its device and the owner came and went.
FocusPastes == focused \in devices => pasted[focused] = SelectionReceive

\* A manager that kept an offer reads through it what it was an offer of, or
\* nothing, never another owner's data.
OffersHonest == \A m \in Managers : \A o \in views[m] : OfferReceive(o) \in {o.of, Nobody}

\* What a manager was told last is what there is to see, and it holds an offer to
\* read that with.  (A client that adds a format to what it has already selected
\* tells nobody: with LateOffers this fails.)
ManagersAgree ==
    \A m \in Managers \cap devices :
        /\ mirrored[m] = Visible(selection)
        /\ mirrored[m] # Nobody => \E o \in views[m] : o.valid /\ o.of = selection

\* A compositor that has handled every Selection event knows the owner.
CompositorAgrees == unread = <<>> => known = Visible(selection)

ClipboardAgrees ==
    OwnerKnows /\ FocusPastes /\ OffersHonest /\ ManagersAgree /\ CompositorAgrees
=============================================================================
