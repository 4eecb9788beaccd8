------------------------------ MODULE KeyRouting ------------------------------
(***************************************************************************)
(* The keyboard: the bindings in front (KeyRouter, bindings/rust/src/      *)
(* core.rs), the seat behind them (protocol/seat.rs over seat.cppm), and   *)
(* the session that takes the keyboard away (InputRouter::attach).  Three  *)
(* books are kept of which keys are down, by the router, by the seat and   *)
(* by each client, and a VT switch loses the releases that would close     *)
(* them.                                                                   *)
(***************************************************************************)
EXTENDS FiniteSets

CONSTANTS
    Clients,    \* surfaces that may have the keyboard
    Keys,
    Nobody      \* "no surface"

ASSUME KeysAssumption == Nobody \notin Clients

VARIABLES
    clients,    \* the surfaces that exist
    focus,      \* Seat: who has the keyboard
    keysDown,   \* Seat: keys the focus was told are down
    kept,       \* KeyRouter: keys whose press a binding took
    down,       \* keys the input source has reported down
    here,       \* the session is on this VT
    believed    \* history: the keys each client believes are down
keyVars == <<clients, focus, keysDown, kept, down, here, believed>>

KeysTypeOK ==
    /\ clients \subseteq Clients /\ focus \in Clients \cup {Nobody}
    /\ keysDown \subseteq Keys /\ kept \subseteq Keys /\ down \subseteq Keys
    /\ here \in BOOLEAN /\ believed \in [Clients -> SUBSET Keys]

KeysInit ==
    /\ clients = Clients /\ focus = Nobody
    /\ keysDown = {} /\ kept = {} /\ down = {}
    /\ here = TRUE /\ believed = [c \in Clients |-> {}]

-----------------------------------------------------------------------------
(* The seat's calls, on what it may change. *)

Seen == [focus |-> focus, keys |-> keysDown, told |-> believed]

\* notify_key(): nothing is recorded, or sent, while nobody has the keyboard.
NotifyKey(x, k, pressed) ==
    IF x.focus = Nobody THEN x
    ELSE IF pressed THEN [x EXCEPT !.keys = @ \cup {k}, !.told[x.focus] = @ \cup {k}]
    ELSE [x EXCEPT !.keys = @ \ {k}, !.told[x.focus] = @ \ {k}]

\* Mutant: the keys are remembered although they were released.
ReleaseKeys_Keeps(x) == [x EXCEPT !.keys = {}]

\* release_keys(): a release for every key remembered, whoever has the focus.
ReleaseKeys(x) ==
    [x EXCEPT !.keys = {},
              !.told = IF x.focus = Nobody THEN @ ELSE [x.told EXCEPT ![x.focus] = @ \ x.keys]]

\* set_keyboard_focus(): a leave, which voids what the client held down, and an
\* enter that names no key.  What the seat remembers stays.
SetKeyboardFocus(x, to) ==
    IF x.focus = to THEN x
    ELSE [x EXCEPT !.focus = to,
                   !.told = [c \in Clients |-> IF c \in {x.focus, to} THEN {} ELSE @[c]]]

Sees(x) == focus' = x.focus /\ keysDown' = x.keys /\ believed' = x.told

-----------------------------------------------------------------------------
\* The compositor, a click, or the shell gives someone the keyboard.
FocusKeyboard(to) ==
    /\ to \in clients \cup {Nobody}
    /\ Sees(SetKeyboardFocus(Seen, to))
    /\ UNCHANGED <<clients, kept, down, here>>

\* A press no binding wants.  The release of an earlier press was lost, if the
\* router thinks that a binding still holds the key.
PressKey(k) ==
    /\ here /\ k \notin down
    /\ down' = down \cup {k}
    /\ kept' = kept \ {k}
    /\ Sees(NotifyKey(Seen, k, TRUE))
    /\ UNCHANGED <<clients, here>>

\* A press a binding takes; what it does may move the keyboard.
PressBinding(k, to) ==
    /\ here /\ k \notin down /\ to \in clients \cup {focus}
    /\ down' = down \cup {k}
    /\ kept' = kept \cup {k}
    /\ Sees(SetKeyboardFocus(Seen, to))
    /\ UNCHANGED <<clients, here>>

\* Ctrl+Alt+Fn: the VT will go, and the keys held are released ahead of it.
PressSwitch(k) ==
    /\ here /\ k \notin down
    /\ down' = down \cup {k}
    /\ kept' = kept \cup {k}
    /\ Sees(ReleaseKeys(Seen))
    /\ UNCHANGED <<clients, here>>

\* A release, also one the source makes up for devices it has to let go of,
\* which may come when the session is already away.
ReleaseKey(k) ==
    /\ k \in down
    /\ down' = down \ {k}
    /\ kept' = kept \ {k}
    /\ Sees(IF k \in kept THEN Seen ELSE NotifyKey(Seen, k, FALSE))
    /\ UNCHANGED <<clients, here>>

\* A release that happens on the other VT and is never reported.
LoseRelease(k) ==
    /\ ~here /\ k \in down
    /\ down' = down \ {k}
    /\ UNCHANGED <<clients, focus, keysDown, kept, here, believed>>

SessionAway ==
    /\ here
    /\ here' = FALSE
    /\ Sees(ReleaseKeys(Seen))
    /\ UNCHANGED <<clients, kept, down>>

SessionBack ==
    /\ ~here
    /\ here' = TRUE
    /\ UNCHANGED <<clients, focus, keysDown, kept, down, believed>>

\* The surface's id is void: the seat forgets the focus, and no more than that.
DestroyClient(c) ==
    /\ c \in clients
    /\ clients' = clients \ {c}
    /\ focus' = IF focus = c THEN Nobody ELSE focus
    /\ believed' = [believed EXCEPT ![c] = {}]
    /\ UNCHANGED <<keysDown, kept, down, here>>

KeysNext ==
    \/ \E to \in Clients \cup {Nobody} : FocusKeyboard(to)
    \/ \E k \in Keys :
        \/ PressKey(k) \/ PressSwitch(k) \/ ReleaseKey(k) \/ LoseRelease(k)
        \/ \E to \in Clients \cup {Nobody} : PressBinding(k, to)
    \/ SessionAway \/ SessionBack
    \/ \E c \in Clients : DestroyClient(c)

KeysSpec == KeysInit /\ [][KeysNext]_keyVars

-----------------------------------------------------------------------------
\* No client is left with a key down that the user has let go of, whoever had
\* the keyboard, whatever took the press and wherever the release went: only
\* the focus believes that keys are down, the seat remembers each of them so
\* that it can take them back, none is a binding's, and none is down while the
\* session is away.
NoKeyStuck ==
    \A c \in Clients :
        /\ believed[c] \subseteq (down \cap keysDown) \ kept
        /\ believed[c] # {} => c = focus /\ here
=============================================================================
