---------------------------- MODULE InputProofs -----------------------------
(***************************************************************************)
(* Input and what is served beside it, for every set of clients, surfaces  *)
(* and devices: no key stays down for a client that lost the keyboard, the *)
(* pointer's clients know where it is and what is held, pens and pads are  *)
(* where their clients were told they are; the input method serves the     *)
(* field that has the focus, an activation token is spent once and means   *)
(* what was promised, and outputs and those who capture them are told what *)
(* is current.                                                             *)
(*                                                                         *)
(* The devices are proved by the calls of the seat, as values: what a call *)
(* makes of the book it is given keeps the book and what clients believe   *)
(* in step, and a handler is a few such calls on the book as it is.        *)
(***************************************************************************)
EXTENDS KeyRouting, PointerRouting, TabletFeed, Services, SequenceTheorems, TLAPS

-----------------------------------------------------------------------------
(* The keyboard *)

Pressed(x, k) == NotifyKey(x, k, TRUE)
Released(x, k) == NotifyKey(x, k, FALSE)

\* The seat's calls, on a focus f that was told s, and clients that believe t.
LEMMA KeyPressIs ==
    ASSUME NEW f \in Clients \cup {Nobody}, NEW s \in SUBSET Keys,
           NEW t \in [Clients -> SUBSET Keys], NEW k \in Keys,
           NEW y, NEW x, x = [focus |-> f, keys |-> s, told |-> t], y = Pressed(x, k)
    PROVE  /\ y.focus = f
           /\ y.keys = (IF f = Nobody THEN s ELSE s \cup {k})
           /\ y.told = [c \in Clients |-> IF c = f THEN t[c] \cup {k} ELSE t[c]]
<1>1. CASE f = Nobody
  BY <1>1, KeysAssumption DEF NotifyKey, Pressed
<1>2. CASE f # Nobody
  BY <1>2 DEF NotifyKey, Pressed
<1> QED
  BY <1>1, <1>2

LEMMA KeyReleaseIs ==
    ASSUME NEW f \in Clients \cup {Nobody}, NEW s \in SUBSET Keys,
           NEW t \in [Clients -> SUBSET Keys], NEW k \in Keys,
           NEW y, NEW x, x = [focus |-> f, keys |-> s, told |-> t], y = Released(x, k)
    PROVE  /\ y.focus = f
           /\ y.keys = (IF f = Nobody THEN s ELSE s \ {k})
           /\ y.told = [c \in Clients |-> IF c = f THEN t[c] \ {k} ELSE t[c]]
<1>1. CASE f = Nobody
  BY <1>1, KeysAssumption DEF NotifyKey, Released
<1>2. CASE f # Nobody
  BY <1>2 DEF NotifyKey, Released
<1> QED
  BY <1>1, <1>2

LEMMA ReleaseKeysIs ==
    ASSUME NEW f \in Clients \cup {Nobody}, NEW s \in SUBSET Keys,
           NEW t \in [Clients -> SUBSET Keys],
           NEW y, y = ReleaseKeys([focus |-> f, keys |-> s, told |-> t])
    PROVE  /\ y.focus = f /\ y.keys = {}
           /\ y.told = [c \in Clients |-> IF c = f THEN t[c] \ s ELSE t[c]]
<1>1. CASE f = Nobody
  BY <1>1, KeysAssumption DEF ReleaseKeys
<1>2. CASE f # Nobody
  BY <1>2 DEF ReleaseKeys
<1> QED
  BY <1>1, <1>2

LEMMA SetKeyboardFocusIs ==
    ASSUME NEW f \in Clients \cup {Nobody}, NEW s \in SUBSET Keys,
           NEW t \in [Clients -> SUBSET Keys], NEW to \in Clients \cup {Nobody},
           NEW y, y = SetKeyboardFocus([focus |-> f, keys |-> s, told |-> t], to)
    PROVE  /\ y.focus = to /\ y.keys = s
           /\ y.told = [c \in Clients |-> IF f # to /\ c \in {f, to} THEN {} ELSE t[c]]
<1>1. CASE f = to
  BY <1>1 DEF SetKeyboardFocus
<1>2. CASE f # to
  BY <1>2 DEF SetKeyboardFocus
<1> QED
  BY <1>1, <1>2

\* No client believes in a key that the seat could not take back, but the focus.
Tidy(f, s, t, pressed, ours) ==
    /\ f \in Clients \cup {Nobody} /\ s \in SUBSET Keys /\ t \in [Clients -> SUBSET Keys]
    /\ \A c \in Clients : /\ t[c] \subseteq pressed \cap s
                          /\ (t[c] # {} => (c = f /\ ours))

KeysInv == KeysTypeOK /\ NoKeyStuck

LEMMA KeysInvIs ==
    KeysInv <=> /\ Tidy(focus, keysDown, believed, down \ kept, here)
                /\ clients \subseteq Clients /\ kept \subseteq Keys /\ down \subseteq Keys
                /\ here \in BOOLEAN
  BY DEF KeysInv, KeysTypeOK, NoKeyStuck, Tidy

\* What a step has to show.
LEMMA KeysKept ==
    ASSUME NEW x, Sees(x), clients' \subseteq Clients, kept' \subseteq Keys,
           down' \subseteq Keys, here' \in BOOLEAN,
           Tidy(x.focus, x.keys, x.told, down' \ kept', here')
    PROVE  KeysInv'
  BY DEF KeysInv, KeysTypeOK, NoKeyStuck, Tidy, Sees

LEMMA KeysStep ==
    ASSUME KeysInv, [KeysNext]_keyVars
    PROVE  KeysInv'
<1> PICK f : f = focus
  OBVIOUS
<1> PICK s : s = keysDown
  OBVIOUS
<1> PICK t : t = believed
  OBVIOUS
<1>1. /\ Tidy(f, s, t, down \ kept, here)
      /\ Seen = [focus |-> f, keys |-> s, told |-> t]
  BY KeysInvIs DEF Seen
<1>2. /\ clients \subseteq Clients /\ kept \subseteq Keys /\ down \subseteq Keys
      /\ here \in BOOLEAN
      /\ f \in Clients \cup {Nobody} /\ s \in SUBSET Keys /\ t \in [Clients -> SUBSET Keys]
  BY KeysInvIs DEF Tidy
<1>3. ASSUME NEW to \in Clients \cup {Nobody}, FocusKeyboard(to)
      PROVE  KeysInv'
  <2> PICK y : y = SetKeyboardFocus(Seen, to)
    OBVIOUS
  <2>1. /\ y.focus = to /\ y.keys = s
        /\ y.told = [c \in Clients |-> IF f # to /\ c \in {f, to} THEN {} ELSE t[c]]
    <3>1. y = SetKeyboardFocus([focus |-> f, keys |-> s, told |-> t], to)
      BY <1>1
    <3> QED
      BY <1>2, <3>1, SetKeyboardFocusIs
  <2>2. Tidy(y.focus, y.keys, y.told, down \ kept, here)
    <3>1. ASSUME NEW c \in Clients
          PROVE  /\ y.told[c] \subseteq (down \ kept) \cap y.keys
                 /\ (y.told[c] # {} => (c = y.focus /\ here))
      BY <1>1, <1>2, <1>3, <2>1, KeysAssumption DEF Tidy, FocusKeyboard
    <3>2. /\ y.keys \in SUBSET Keys /\ y.told \in [Clients -> SUBSET Keys]
          /\ y.focus \in Clients \cup {Nobody}
      BY <1>2, <1>3, <2>1
    <3> QED
      BY <3>1, <3>2 DEF Tidy
  <2>3. Sees(y) /\ clients' \subseteq Clients /\ kept' \subseteq Keys /\ down' \subseteq Keys
        /\ here' \in BOOLEAN /\ Tidy(y.focus, y.keys, y.told, down' \ kept', here')
    BY <1>2, <1>3, <2>2 DEF FocusKeyboard
  <2> QED
    BY <2>3, KeysKept
<1>4. ASSUME NEW k \in Keys, PressKey(k)
      PROVE  KeysInv'
  <2> PICK y : y = Pressed(Seen, k)
    OBVIOUS
  <2>1. /\ y.focus = f /\ y.keys = IF f = Nobody THEN s ELSE s \cup {k}
        /\ y.told = [c \in Clients |-> IF c = f THEN t[c] \cup {k} ELSE t[c]]
    <3>1. PICK x : x = Seen
      OBVIOUS
    <3> QED
      <4>1. f \in Clients \cup {Nobody} /\ s \in SUBSET Keys /\ t \in [Clients -> SUBSET Keys]
        BY <1>2
      <4>2. x = [focus |-> f, keys |-> s, told |-> t] /\ y = Pressed(x, k)
        BY <1>1, <3>1
      <4> QED
        BY ONLY <4>1, <4>2, KeyPressIs
  <2>2. Tidy(y.focus, y.keys, y.told, (down \cup {k}) \ (kept \ {k}), here)
    <3>1. ASSUME NEW c \in Clients
          PROVE  /\ y.told[c] \subseteq ((down \cup {k}) \ (kept \ {k})) \cap y.keys
                 /\ (y.told[c] # {} => (c = y.focus /\ here))
      BY <1>1, <1>2, <1>4, <2>1, KeysAssumption DEF Tidy, PressKey
    <3>2. /\ y.keys \in SUBSET Keys /\ y.told \in [Clients -> SUBSET Keys]
          /\ y.focus \in Clients \cup {Nobody}
      BY <1>2, <1>4, <2>1
    <3> QED
      BY <3>1, <3>2 DEF Tidy
  <2>3. Sees(y) /\ clients' \subseteq Clients /\ kept' \subseteq Keys /\ down' \subseteq Keys
        /\ here' \in BOOLEAN /\ Tidy(y.focus, y.keys, y.told, down' \ kept', here')
    BY <1>2, <1>4, <2>2 DEF PressKey, Pressed
  <2> QED
    BY <2>3, KeysKept
<1>5. ASSUME NEW k \in Keys, NEW to \in Clients \cup {Nobody}, PressBinding(k, to)
      PROVE  KeysInv'
  <2> PICK y : y = SetKeyboardFocus(Seen, to)
    OBVIOUS
  <2>1. /\ y.focus = to /\ y.keys = s
        /\ y.told = [c \in Clients |-> IF f # to /\ c \in {f, to} THEN {} ELSE t[c]]
    <3>1. y = SetKeyboardFocus([focus |-> f, keys |-> s, told |-> t], to)
      BY <1>1
    <3> QED
      BY <1>2, <3>1, SetKeyboardFocusIs
  <2>2. Tidy(y.focus, y.keys, y.told, (down \cup {k}) \ (kept \cup {k}), here)
    <3>1. ASSUME NEW c \in Clients
          PROVE  /\ y.told[c] \subseteq ((down \cup {k}) \ (kept \cup {k})) \cap y.keys
                 /\ (y.told[c] # {} => (c = y.focus /\ here))
      BY <1>1, <1>2, <1>5, <2>1, KeysAssumption DEF Tidy, PressBinding
    <3>2. /\ y.keys \in SUBSET Keys /\ y.told \in [Clients -> SUBSET Keys]
          /\ y.focus \in Clients \cup {Nobody}
      BY <1>2, <1>5, <2>1
    <3> QED
      BY <3>1, <3>2 DEF Tidy
  <2>3. Sees(y) /\ clients' \subseteq Clients /\ kept' \subseteq Keys /\ down' \subseteq Keys
        /\ here' \in BOOLEAN /\ Tidy(y.focus, y.keys, y.told, down' \ kept', here')
    BY <1>2, <1>5, <2>2 DEF PressBinding
  <2> QED
    BY <2>3, KeysKept
<1>6. ASSUME NEW k \in Keys, PressSwitch(k)
      PROVE  KeysInv'
  <2> PICK y : y = ReleaseKeys(Seen)
    OBVIOUS
  <2>1. /\ y.focus = f /\ y.keys = {}
        /\ y.told = [c \in Clients |-> IF c = f THEN t[c] \ s ELSE t[c]]
    <3>1. y = ReleaseKeys([focus |-> f, keys |-> s, told |-> t])
      BY <1>1
    <3> QED
      BY <1>2, <3>1, ReleaseKeysIs
  <2>2. Tidy(y.focus, y.keys, y.told, (down \cup {k}) \ (kept \cup {k}), here)
    <3>1. ASSUME NEW c \in Clients
          PROVE  /\ y.told[c] \subseteq ((down \cup {k}) \ (kept \cup {k})) \cap y.keys
                 /\ (y.told[c] # {} => (c = y.focus /\ here))
      BY <1>1, <1>2, <1>6, <2>1, KeysAssumption DEF Tidy, PressSwitch
    <3>2. /\ y.keys \in SUBSET Keys /\ y.told \in [Clients -> SUBSET Keys]
          /\ y.focus \in Clients \cup {Nobody}
      BY <1>2, <1>6, <2>1
    <3> QED
      BY <3>1, <3>2 DEF Tidy
  <2>3. Sees(y) /\ clients' \subseteq Clients /\ kept' \subseteq Keys /\ down' \subseteq Keys
        /\ here' \in BOOLEAN /\ Tidy(y.focus, y.keys, y.told, down' \ kept', here')
    BY <1>2, <1>6, <2>2 DEF PressSwitch
  <2> QED
    BY <2>3, KeysKept
<1>7. ASSUME NEW k \in Keys, ReleaseKey(k)
      PROVE  KeysInv'
  <2>1. CASE k \in kept
    <3>1. Tidy(f, s, t, (down \ {k}) \ (kept \ {k}), here)
      BY <1>1, <2>1 DEF Tidy
    <3>2. /\ Sees(Seen) /\ Seen.focus = f /\ Seen.keys = s /\ Seen.told = t
          /\ clients' \subseteq Clients /\ kept' \subseteq Keys /\ down' \subseteq Keys
          /\ here' \in BOOLEAN /\ Tidy(f, s, t, down' \ kept', here')
      BY <1>1, <1>2, <1>7, <2>1, <3>1 DEF ReleaseKey
    <3> QED
      BY <3>2, KeysKept
  <2>2. CASE k \notin kept
    <3> PICK y : y = Released(Seen, k)
      OBVIOUS
    <3>1. /\ y.focus = f /\ y.keys = IF f = Nobody THEN s ELSE s \ {k}
          /\ y.told = [c \in Clients |-> IF c = f THEN t[c] \ {k} ELSE t[c]]
      <4>1. PICK x : x = Seen
        OBVIOUS
      <4> QED
        BY SMTT(30), <1>1, <1>2, <4>1, KeyReleaseIs
    <3>2. Tidy(y.focus, y.keys, y.told, (down \ {k}) \ (kept \ {k}), here)
      BY <1>1, <1>2, <3>1, KeysAssumption DEF Tidy
    <3>3. Sees(y) /\ clients' \subseteq Clients /\ kept' \subseteq Keys /\ down' \subseteq Keys
          /\ here' \in BOOLEAN /\ Tidy(y.focus, y.keys, y.told, down' \ kept', here')
      BY <1>2, <1>7, <2>2, <3>2 DEF ReleaseKey, Released
    <3> QED
      BY <3>3, KeysKept
  <2> QED
    BY <2>1, <2>2
<1>8. ASSUME NEW k \in Keys, LoseRelease(k)
      PROVE  KeysInv'
  BY <1>8 DEF LoseRelease, KeysInv, KeysTypeOK, NoKeyStuck
<1>9. ASSUME SessionAway
      PROVE  KeysInv'
  <2> PICK y : y = ReleaseKeys(Seen)
    OBVIOUS
  <2>1. /\ y.focus = f /\ y.keys = {}
        /\ y.told = [c \in Clients |-> IF c = f THEN t[c] \ s ELSE t[c]]
    <3>1. y = ReleaseKeys([focus |-> f, keys |-> s, told |-> t])
      BY <1>1
    <3> QED
      BY <1>2, <3>1, ReleaseKeysIs
  <2>2. Tidy(y.focus, y.keys, y.told, down \ kept, FALSE)
    <3>1. ASSUME NEW c \in Clients
          PROVE  /\ y.told[c] \subseteq (down \ kept) \cap y.keys
                 /\ (y.told[c] # {} => (c = y.focus /\ FALSE))
      BY <1>1, <1>2, <1>9, <2>1, KeysAssumption DEF Tidy, SessionAway
    <3>2. /\ y.keys \in SUBSET Keys /\ y.told \in [Clients -> SUBSET Keys]
          /\ y.focus \in Clients \cup {Nobody}
      BY <1>2, <1>9, <2>1
    <3> QED
      BY <3>1, <3>2 DEF Tidy
  <2>3. Sees(y) /\ clients' \subseteq Clients /\ kept' \subseteq Keys /\ down' \subseteq Keys
        /\ here' \in BOOLEAN /\ Tidy(y.focus, y.keys, y.told, down' \ kept', here')
    BY <1>2, <1>9, <2>2 DEF SessionAway
  <2> QED
    BY <2>3, KeysKept
<1>10. ASSUME SessionBack
       PROVE  KeysInv'
  BY <1>10 DEF SessionBack, KeysInv, KeysTypeOK, NoKeyStuck
<1>11. ASSUME NEW c \in Clients, DestroyClient(c)
       PROVE  KeysInv'
  BY <1>11 DEF DestroyClient, KeysInv, KeysTypeOK, NoKeyStuck
<1>12. CASE UNCHANGED keyVars
  BY <1>12 DEF keyVars, KeysInv, KeysTypeOK, NoKeyStuck
<1> QED
  BY <1>3, <1>4, <1>5, <1>6, <1>7, <1>8, <1>9, <1>10, <1>11, <1>12 DEF KeysNext

LEMMA KeysBegin == KeysInit => KeysInv
  BY DEF KeysInit, KeysInv, KeysTypeOK, NoKeyStuck

\* The three books of keys keep to their types.
THEOREM KeysTypeCorrect == KeysSpec => []KeysTypeOK
<1>1. KeysInv /\ [KeysNext]_keyVars => KeysInv'
  BY KeysStep
<1>2. KeysInv => KeysTypeOK
  BY DEF KeysInv
<1> QED
  BY KeysBegin, <1>1, <1>2, PTL DEF KeysSpec

\* No client is left with a key down that the user let go of.
THEOREM NoKeyStaysDown == KeysSpec => []NoKeyStuck
<1>1. KeysInv /\ [KeysNext]_keyVars => KeysInv'
  BY KeysStep
<1>2. KeysInv => NoKeyStuck
  BY DEF KeysInv
<1> QED
  BY KeysBegin, <1>1, <1>2, PTL DEF KeysSpec

-----------------------------------------------------------------------------
(* The pointer.  The two books, of clients and of holders, are kept by each *)
(* call of the seat and the router, in the state x it may change, for the   *)
(* buttons h that are down and the surfaces l that live; only what the pick *)
(* found is about the scene.                                                *)

SeatSet == [focus : Windows \cup {None}, grab : Windows \cup {None}, buttons : SUBSET Buttons,
            dragging : BOOLEAN, offered : Windows \cup {None}]
ToldSet == [over : SUBSET Windows, buttons : [Windows -> SUBSET Buttons]]
StateSet == [seat : SeatSet, bonds : [Constrained -> Bond], told : ToldSet]

\* All that does not name a constraint.
Tells(x, h, l) ==
    /\ x \in StateSet
    /\ x.told.over = IF x.seat.focus = None \/ x.seat.dragging THEN {} ELSE {x.seat.focus}
    /\ \A w \in Windows : x.told.buttons[w] # {} =>
           x.told.buttons[w] \subseteq h \cap x.seat.buttons /\ x.seat.grab = w
    /\ x.seat.grab # None => x.seat.focus = x.seat.grab /\ ~x.seat.dragging
    /\ x.seat.buttons \subseteq h /\ (x.seat.buttons = {} <=> x.seat.grab = None)
    /\ x.seat.focus # None => x.seat.focus \in l

\* One constraint at most, where the pointer is.
Binds(x, l) ==
    /\ \A v, w \in Active(x) : v = w
    /\ \A w \in Active(x) : w \in l /\ (x.seat.focus \in {w, None} \/ x.seat.dragging)

Books(x, h, l) == Tells(x, h, l) /\ Binds(x, l)

LEMMA FreeBond ==
    ASSUME NEW b \in Bond
    PROVE  /\ Deactivated(b) \in Bond /\ Deactivated(b).state # "active"
           /\ NoBond \in Bond /\ NoBond.state # "active" /\ Deactivated(b).type = b.type
  BY DEF Deactivated, Bond, NoBond

\* A constraint that does not have the focus gives way to it.
LEMMA FocusChangedIs ==
    ASSUME NEW x \in StateSet
    PROVE  /\ FocusChanged(x) \in StateSet
           /\ FocusChanged(x).seat = x.seat /\ FocusChanged(x).told = x.told
           /\ Active(FocusChanged(x)) \subseteq Active(x) \cap {x.seat.focus}
<1>b. PICK b : b = [w \in Constrained |-> IF w \in Active(x) /\ w # x.seat.focus
                                          THEN Deactivated(x.bonds[w]) ELSE x.bonds[w]]
  OBVIOUS
<1>y. PICK y : y = FocusChanged(x)
  OBVIOUS
<1>1. x.bonds \in [Constrained -> Bond] /\ x.seat \in SeatSet /\ x.told \in ToldSet
  BY DEF StateSet
<1>2. y = [x EXCEPT !.bonds = b]
  BY <1>b, <1>y DEF FocusChanged
<1>3. b \in [Constrained -> Bond]
  <2>1. \A w \in Constrained : b[w] \in Bond
    BY <1>1, <1>b, FreeBond
  <2> QED
    BY <1>b, <2>1
<1>4. y \in StateSet /\ y.seat = x.seat /\ y.told = x.told /\ y.bonds = b
  BY <1>2, <1>3 DEF StateSet
<1>5. ASSUME NEW w \in Active(y)
      PROVE  w \in Active(x) /\ w = x.seat.focus
  <2>1. w \in Constrained /\ b[w].state = "active"
    BY <1>4, <1>5 DEF Active
  <2>2. CASE w \in Active(x) /\ w # x.seat.focus
    BY <1>1, <1>b, <2>1, <2>2, FreeBond
  <2>3. CASE ~(w \in Active(x) /\ w # x.seat.focus)
    <3>1. x.bonds[w].state = "active"
      BY <1>b, <2>1, <2>3
    <3> QED
      BY <2>1, <2>3, <3>1 DEF Active
  <2> QED
    BY <2>2, <2>3
<1> QED
  BY <1>y, <1>4, <1>5

LEMMA FocusChangedBooks ==
    ASSUME NEW x, NEW h, NEW l, Tells(x, h, l), Active(x) \subseteq l
    PROVE  Books(FocusChanged(x), h, l)
<1>1. x \in StateSet
  BY DEF Tells
<1>2. Tells(FocusChanged(x), h, l)
  BY <1>1, FocusChangedIs DEF Tells
<1>3. Binds(FocusChanged(x), l)
  BY <1>1, FocusChangedIs DEF Binds
<1> QED
  BY <1>2, <1>3 DEF Books

LEMMA LeaveIs ==
    ASSUME NEW t \in ToldSet, NEW w \in Windows
    PROVE  /\ Leave(t, w) \in ToldSet /\ Leave(t, w).over = t.over \ {w}
           /\ Leave(t, w).buttons[w] = {}
           /\ \A v \in Windows \ {w} : Leave(t, w).buttons[v] = t.buttons[v]
  BY DEF Leave, ToldSet

\* Nobody has a button without a grab.
LEMMA NoGrabNoButton ==
    ASSUME NEW x, NEW h, NEW l, Tells(x, h, l), x.seat.grab = None
    PROVE  x.seat.buttons = {} /\ \A w \in Windows : x.told.buttons[w] = {}
  BY PointerAssumption DEF Tells

LEMMA ClearIs ==
    ASSUME NEW x, NEW h, NEW l, Books(x, h, l)
    PROVE  /\ Books(PointerClearFocus(x), h, l)
           /\ PointerClearFocus(x).seat.grab = x.seat.grab
           /\ PointerClearFocus(x).seat.dragging = x.seat.dragging
           /\ PointerClearFocus(x).seat.buttons = x.seat.buttons
           /\ PointerClearFocus(x).seat.focus =
                  IF x.seat.grab # None THEN x.seat.focus ELSE None
<1>y. PICK y : y = PointerClearFocus(x)
  OBVIOUS
<1>1. /\ x \in StateSet /\ x.seat \in SeatSet /\ x.told \in ToldSet /\ Tells(x, h, l)
      /\ Binds(x, l) /\ Active(x) \subseteq l
  BY DEF Books, Tells, Binds, StateSet
<1>2. CASE x.seat.grab # None \/ x.seat.focus = None
  <2>1. y = x
    BY <1>y, <1>2 DEF PointerClearFocus
  <2> QED
    BY <1>y, <1>2, <2>1
<1>3. CASE ~(x.seat.grab # None \/ x.seat.focus = None) /\ x.seat.dragging
  <2>1. y = [x EXCEPT !.seat.focus = None, !.seat.offered = None]
    BY <1>y, <1>3 DEF PointerClearFocus
  <2>2. /\ y \in StateSet /\ y.seat.focus = None /\ y.seat.grab = x.seat.grab
        /\ y.seat.buttons = x.seat.buttons /\ y.seat.dragging = x.seat.dragging
        /\ y.told = x.told /\ y.bonds = x.bonds
    BY <1>1, <2>1 DEF StateSet, SeatSet
  <2>3. Tells(y, h, l)
    BY <1>1, <1>3, <2>2 DEF Tells
  <2>4. Binds(y, l)
    BY <1>1, <1>3, <2>2 DEF Binds, Active
  <2> QED
    BY <1>y, <1>3, <2>2, <2>3, <2>4 DEF Books
<1>4. CASE ~(x.seat.grab # None \/ x.seat.focus = None) /\ ~x.seat.dragging
  <2>z. PICK z : z = [x EXCEPT !.seat.focus = None, !.told = Leave(x.told, x.seat.focus)]
    OBVIOUS
  <2>1. y = FocusChanged(z)
    BY <1>y, <1>4, <2>z DEF PointerClearFocus
  <2>2. x.seat.focus \in Windows
    BY <1>1, <1>4 DEF SeatSet
  <2>3. /\ z \in StateSet /\ z.seat.focus = None /\ z.seat.grab = x.seat.grab
        /\ z.seat.buttons = x.seat.buttons /\ z.seat.dragging = x.seat.dragging
        /\ z.told = Leave(x.told, x.seat.focus) /\ z.bonds = x.bonds
    BY <1>1, <2>2, <2>z, LeaveIs DEF StateSet, SeatSet
  <2>4. z.told.over = {} /\ \A w \in Windows : z.told.buttons[w] = {}
    BY <1>1, <1>4, <2>2, <2>3, LeaveIs, NoGrabNoButton DEF Tells
  <2>5. Tells(z, h, l)
    BY <1>1, <1>4, <2>3, <2>4 DEF Tells
  <2>6. Active(z) \subseteq l
    BY <1>1, <2>3 DEF Active
  <2> QED
    BY <1>y, <1>4, <2>1, <2>3, <2>5, <2>6, FocusChangedBooks, FocusChangedIs
<1> QED
  BY <1>2, <1>3, <1>4

LEMMA EnterIs ==
    ASSUME NEW x, NEW h, NEW l, Books(x, h, l), NEW w \in Windows, w \in l
    PROVE  /\ Books(PointerEnter(x, w), h, l)
           /\ PointerEnter(x, w).seat.grab = x.seat.grab
           /\ PointerEnter(x, w).seat.dragging = x.seat.dragging
           /\ PointerEnter(x, w).seat.buttons = x.seat.buttons
           /\ PointerEnter(x, w).seat.focus = IF x.seat.grab # None THEN x.seat.focus ELSE w
<1>e. PICK e : e = PointerEnter(x, w)
  OBVIOUS
<1>1. /\ x \in StateSet /\ x.seat \in SeatSet /\ x.told \in ToldSet /\ Tells(x, h, l)
      /\ Binds(x, l) /\ Active(x) \subseteq l
  BY DEF Books, Tells, Binds, StateSet
<1>2. CASE x.seat.grab # None \/ x.seat.focus = w
  <2>1. e = x
    BY <1>e, <1>2 DEF PointerEnter
  <2> QED
    BY <1>e, <1>2, <2>1
<1>3. CASE ~(x.seat.grab # None \/ x.seat.focus = w) /\ x.seat.dragging
  <2>1. e = [x EXCEPT !.seat.focus = w, !.seat.offered = w]
    BY <1>e, <1>3 DEF PointerEnter
  <2>2. /\ e \in StateSet /\ e.seat.focus = w /\ e.seat.grab = x.seat.grab
        /\ e.seat.buttons = x.seat.buttons /\ e.seat.dragging = x.seat.dragging
        /\ e.told = x.told /\ e.bonds = x.bonds
    BY <1>1, <2>1 DEF StateSet, SeatSet
  <2>3. Tells(e, h, l)
    BY <1>1, <1>3, <2>2 DEF Tells
  <2>4. Binds(e, l)
    BY <1>1, <1>3, <2>2 DEF Binds, Active
  <2> QED
    BY <1>e, <1>3, <2>2, <2>3, <2>4 DEF Books
<1>4. CASE ~(x.seat.grab # None \/ x.seat.focus = w) /\ ~x.seat.dragging
  <2>y. PICK y : y = PointerClearFocus(x)
    OBVIOUS
  <2>z. PICK z : z = [y EXCEPT !.seat.focus = w, !.told.over = y.told.over \cup {w}]
    OBVIOUS
  <2>1. e = FocusChanged(z)
    BY <1>e, <1>4, <2>y, <2>z DEF PointerEnter
  <2>2. /\ Tells(y, h, l) /\ Active(y) \subseteq l /\ y \in StateSet
        /\ y.seat \in SeatSet /\ y.told \in ToldSet
        /\ y.seat.grab = None /\ ~y.seat.dragging /\ y.seat.focus = None
        /\ y.seat.dragging = x.seat.dragging
        /\ y.seat.buttons = x.seat.buttons /\ x.seat.grab = None
    BY ZenonT(40), <1>4, <2>y, ClearIs DEF Books, Tells, Binds, StateSet
  <2>3. y.told.over = {}
    BY <2>2 DEF Tells
  <2>4. /\ z \in StateSet /\ z.seat.focus = w /\ z.seat.grab = None
        /\ z.seat.buttons = y.seat.buttons /\ z.seat.dragging = y.seat.dragging
        /\ z.told.over = {w} /\ z.told.buttons = y.told.buttons /\ z.bonds = y.bonds
    BY <2>2, <2>3, <2>z DEF StateSet, SeatSet, ToldSet
  <2>5. Tells(z, h, l)
    BY <2>2, <2>4, PointerAssumption DEF Tells
  <2>6. Active(z) \subseteq l
    BY <2>2, <2>4 DEF Active
  <2> QED
    BY <1>e, <1>4, <2>1, <2>2, <2>4, <2>5, <2>6, FocusChangedBooks, FocusChangedIs
<1> QED
  BY <1>2, <1>3, <1>4

LEMMA BeginDragIs ==
    ASSUME NEW x, NEW h, NEW l, Books(x, h, l), ~x.seat.dragging
    PROVE  /\ Books(BeginDrag(x), h, l)
           /\ BeginDrag(x).seat.grab = None /\ BeginDrag(x).seat.focus = x.seat.focus
<1>f. PICK f : f = x.seat.focus
  OBVIOUS
<1>1. /\ x \in StateSet /\ x.seat \in SeatSet /\ x.told \in ToldSet /\ Tells(x, h, l)
      /\ Binds(x, l) /\ Active(x) \subseteq l /\ f \in Windows \cup {None} /\ (f # None => f \in l)
  BY <1>f DEF Books, Tells, Binds, StateSet, SeatSet
<1>u. PICK u : u = [x EXCEPT !.seat.grab = None, !.seat.buttons = {}]
  OBVIOUS
<1>2. /\ u \in StateSet /\ u.seat \in SeatSet /\ u.seat.focus = f /\ u.seat.grab = None
      /\ u.seat.buttons = {} /\ u.seat.dragging = x.seat.dragging
      /\ u.told = x.told /\ u.bonds = x.bonds
  BY <1>1, <1>f, <1>u DEF StateSet, SeatSet
<1>y. PICK y : y = PointerClearFocus(u)
  OBVIOUS
<1>3. /\ y \in StateSet /\ y.seat \in SeatSet /\ y.seat.focus = None /\ y.seat.grab = None
      /\ y.seat.buttons = {} /\ ~y.seat.dragging
      /\ y.told.over = {} /\ \A w \in Windows : y.told.buttons[w] = {}
      /\ Active(y) \subseteq Active(x)
  <2>1. CASE f = None
    <3>1. y = u
      BY <1>y, <1>2, <2>1 DEF PointerClearFocus
    <3>2. x.seat.grab = None
      BY <1>1, <1>f, <2>1 DEF Tells
    <3>3. \A w \in Windows : x.told.buttons[w] = {}
      BY <1>1, <3>2, NoGrabNoButton
    <3>4. x.told.over = {}
      BY <1>1, <1>f, <2>1 DEF Tells
    <3> QED
      BY <1>2, <2>1, <3>1, <3>3, <3>4 DEF Active
  <2>2. CASE f # None
    <3>z. PICK z : z = [u EXCEPT !.seat.focus = None, !.told = Leave(u.told, f)]
      OBVIOUS
    <3>1. y = FocusChanged(z)
      BY <1>y, <1>2, <2>2, <3>z DEF PointerClearFocus
    <3>2. /\ z \in StateSet /\ z.seat \in SeatSet /\ z.seat.focus = None /\ z.seat.grab = None
          /\ z.seat.buttons = {} /\ ~z.seat.dragging
          /\ z.told = Leave(x.told, f) /\ z.bonds = x.bonds
      BY ZenonT(40), <1>1, <1>2, <2>2, <3>z, LeaveIs DEF StateSet, SeatSet
    <3>3. z.told.over = {}
      BY <1>1, <1>f, <2>2, <3>2, LeaveIs DEF Tells
    <3>4. \A w \in Windows : z.told.buttons[w] = {}
      <4>1. \A w \in Windows \ {f} : x.told.buttons[w] = {}
        BY <1>1, <1>f, PointerAssumption DEF Tells
      <4>2. f \in Windows /\ z.told = Leave(x.told, f) /\ x.told \in ToldSet
        BY <1>1, <2>2, <3>2
      <4>3. /\ Leave(x.told, f).buttons[f] = {}
            /\ \A w \in Windows \ {f} : Leave(x.told, f).buttons[w] = x.told.buttons[w]
        BY <4>2, LeaveIs
      <4> QED
        BY <4>1, <4>2, <4>3
    <3>5. Active(z) = Active(x)
      BY <3>2 DEF Active
    <3> QED
      BY <3>1, <3>2, <3>3, <3>4, <3>5, FocusChangedIs
  <2> QED
    BY <2>1, <2>2
<1>d. PICK d : d = [y EXCEPT !.seat.dragging = TRUE, !.seat.focus = f, !.seat.offered = f]
  OBVIOUS
<1>4. d = BeginDrag(x)
  BY <1>d, <1>f, <1>u, <1>y DEF BeginDrag
<1>5. /\ d \in StateSet /\ d.seat.focus = f /\ d.seat.grab = None /\ d.seat.buttons = {}
      /\ d.seat.dragging = TRUE /\ d.told = y.told /\ d.bonds = y.bonds
  BY <1>1, <1>3, <1>d DEF StateSet, SeatSet
<1>6. Tells(d, h, l)
  BY <1>1, <1>3, <1>5 DEF Tells
<1>7. Binds(d, l)
  BY <1>1, <1>3, <1>5 DEF Binds, Active
<1> QED
  BY <1>f, <1>4, <1>5, <1>6, <1>7 DEF Books

LEMMA EndDragIs ==
    ASSUME NEW x, NEW h, NEW l, Books(x, h, l), x.seat.dragging
    PROVE  /\ Books(EndDrag(x), h, l)
           /\ EndDrag(x).seat.grab = None /\ EndDrag(x).seat.focus = x.seat.focus
<1>f. PICK f : f = x.seat.focus
  OBVIOUS
<1>1. /\ x \in StateSet /\ x.seat \in SeatSet /\ Tells(x, h, l) /\ x.seat.grab = None
      /\ Binds(x, l) /\ f \in Windows \cup {None} /\ (f # None => f \in l)
  BY <1>f DEF Books, Tells, Binds, StateSet, SeatSet
<1>y. PICK y : y = [x EXCEPT !.seat.dragging = FALSE, !.seat.focus = None, !.seat.offered = None]
  OBVIOUS
<1>2. /\ y \in StateSet /\ y.seat.focus = None /\ y.seat.grab = None
      /\ y.seat.buttons = x.seat.buttons /\ ~y.seat.dragging
      /\ y.told = x.told /\ y.bonds = x.bonds
  BY <1>1, <1>y DEF StateSet, SeatSet
<1>3. Tells(y, h, l)
  BY <1>1, <1>2 DEF Tells
<1>4. Binds(y, l)
  BY <1>1, <1>2 DEF Binds, Active
<1>5. CASE f = None
  BY <1>f, <1>y, <1>2, <1>3, <1>4, <1>5 DEF EndDrag, Books
<1>6. CASE f # None
  <2>1. EndDrag(x) = PointerEnter(y, f)
    BY <1>f, <1>y, <1>6 DEF EndDrag
  <2> QED
    BY <1>f, <1>1, <1>2, <1>3, <1>4, <1>6, <2>1, EnterIs DEF Books
<1> QED
  BY <1>5, <1>6

LEMMA PressIs ==
    ASSUME NEW x, NEW h, NEW l, Books(x, h, l), NEW b \in Buttons, x.seat.focus # None
    PROVE  /\ Books(PointerButton(x, b, TRUE), h \cup {b}, l)
           /\ \/ PointerButton(x, b, TRUE) = x
              \/ PointerButton(x, b, TRUE).seat.grab # None
<1>f. PICK f : f = x.seat.focus
  OBVIOUS
<1>y. PICK y : y = PointerButton(x, b, TRUE)
  OBVIOUS
<1>1. /\ x \in StateSet /\ x.seat \in SeatSet /\ x.told \in ToldSet /\ Tells(x, h, l)
      /\ Binds(x, l) /\ f \in Windows
  BY <1>f DEF Books, Tells, Binds, StateSet, SeatSet
<1>2. CASE x.seat.dragging
  <2>1. y = x
    BY <1>y, <1>2 DEF PointerButton
  <2>2. Tells(x, h \cup {b}, l)
    BY <1>1 DEF Tells
  <2> QED
    BY <1>y, <1>1, <2>1, <2>2 DEF Books
<1>3. CASE ~x.seat.dragging
  <2>1. y = [x EXCEPT !.seat.grab = IF x.seat.buttons = {} THEN f ELSE x.seat.grab,
                      !.seat.buttons = x.seat.buttons \cup {b},
                      !.told.buttons[f] = x.told.buttons[f] \cup {b}]
    BY <1>f, <1>y, <1>3 DEF PointerButton
  <2>2. (IF x.seat.buttons = {} THEN f ELSE x.seat.grab) = f
    BY <1>1, <1>f DEF Tells
  <2>n. PICK n \in SUBSET Buttons : n = x.seat.buttons \cup {b}
    BY <1>1 DEF SeatSet
  <2>m. PICK m \in SUBSET Buttons : m = x.told.buttons[f] \cup {b}
    BY <1>1 DEF ToldSet
  <2>y. y = [x EXCEPT !.seat.grab = f, !.seat.buttons = n, !.told.buttons[f] = m]
    BY <2>1, <2>2, <2>n, <2>m
  <2>3. /\ y \in StateSet /\ y.seat.focus = f /\ y.seat.grab = f
        /\ y.seat.buttons = x.seat.buttons \cup {b} /\ ~y.seat.dragging
        /\ y.told.over = x.told.over /\ y.bonds = x.bonds
        /\ y.told.buttons = [x.told.buttons EXCEPT ![f] = x.told.buttons[f] \cup {b}]
    <3>1. /\ y \in StateSet /\ y.seat.focus = f /\ y.seat.grab = f
          /\ y.seat.buttons = n /\ ~y.seat.dragging
          /\ y.told.over = x.told.over /\ y.bonds = x.bonds
          /\ y.told.buttons = [x.told.buttons EXCEPT ![f] = m]
      BY <1>1, <1>3, <1>f, <2>y DEF StateSet, SeatSet, ToldSet
    <3> QED
      BY <2>n, <2>m, <3>1
  <2>4. /\ y.told.buttons[f] = x.told.buttons[f] \cup {b}
        /\ \A w \in Windows \ {f} : y.told.buttons[w] = x.told.buttons[w]
    BY <1>1, <2>3 DEF ToldSet
  <2>5. x.told.buttons[f] \subseteq h \cap x.seat.buttons
    BY <1>1 DEF Tells
  <2>6. \A w \in Windows \ {f} : x.told.buttons[w] = {}
    BY <1>1, <1>f, PointerAssumption DEF Tells
  <2>7. Tells(y, h \cup {b}, l)
    BY <1>1, <1>3, <1>f, <2>3, <2>4, <2>5, <2>6, PointerAssumption DEF Tells
  <2>8. Binds(y, l)
    BY <1>1, <1>3, <1>f, <2>3 DEF Binds, Active
  <2> QED
    BY <1>y, <1>1, <2>3, <2>7, <2>8, PointerAssumption DEF Books
<1> QED
  BY <1>2, <1>3

LEMMA ReleaseIs ==
    ASSUME NEW x, NEW h, NEW l, Books(x, h, l), NEW b \in Buttons, x.seat.focus # None
    PROVE  Books(PointerButton(x, b, FALSE), h \ {b}, l)
<1>f. PICK f : f = x.seat.focus
  OBVIOUS
<1>y. PICK y : y = PointerButton(x, b, FALSE)
  OBVIOUS
<1>1. /\ x \in StateSet /\ x.seat \in SeatSet /\ x.told \in ToldSet /\ Tells(x, h, l)
      /\ Binds(x, l) /\ f \in Windows
  BY <1>f DEF Books, Tells, Binds, StateSet, SeatSet
<1>2. CASE x.seat.dragging
  <2>1. y = EndDrag(x)
    BY <1>y, <1>2 DEF PointerButton
  <2>2. x.seat.grab = None
    BY <1>1, <1>2 DEF Tells
  <2>3. x.seat.buttons = {} /\ \A w \in Windows : x.told.buttons[w] = {}
    BY <1>1, <2>2, NoGrabNoButton
  <2>4. Books(x, h \ {b}, l)
    BY <1>1, <2>3 DEF Tells, Books
  <2> QED
    BY <1>y, <1>2, <2>1, <2>4, EndDragIs
<1>3. CASE ~x.seat.dragging
  <2>g. PICK g : g = IF x.seat.buttons \ {b} = {} THEN None ELSE x.seat.grab
    OBVIOUS
  <2>1. y = [x EXCEPT !.seat.buttons = x.seat.buttons \ {b},
                      !.seat.grab = g,
                      !.told.buttons[f] = x.told.buttons[f] \ {b}]
    BY <1>f, <1>y, <1>3, <2>g DEF PointerButton
  <2>2. /\ g \in Windows \cup {None} /\ (x.seat.buttons \ {b} = {} <=> g = None)
        /\ (g # None => g = f)
    BY <1>1, <1>f, <2>g DEF Tells, SeatSet
  <2>3. /\ y \in StateSet /\ y.seat.focus = f /\ y.seat.grab = g
        /\ y.seat.buttons = x.seat.buttons \ {b} /\ ~y.seat.dragging
        /\ y.told.over = x.told.over /\ y.bonds = x.bonds
        /\ y.told.buttons = [x.told.buttons EXCEPT ![f] = x.told.buttons[f] \ {b}]
    BY <1>1, <1>3, <1>f, <2>1, <2>2 DEF StateSet, SeatSet, ToldSet
  <2>4. /\ y.told.buttons[f] = x.told.buttons[f] \ {b}
        /\ \A w \in Windows \ {f} : y.told.buttons[w] = x.told.buttons[w]
    BY <1>1, <2>3 DEF ToldSet
  <2>5. x.told.buttons[f] \subseteq h \cap x.seat.buttons
    BY <1>1 DEF Tells
  <2>6. \A w \in Windows \ {f} : x.told.buttons[w] = {}
    BY <1>1, <1>f, PointerAssumption DEF Tells
  <2>7. \A w \in Windows : y.told.buttons[w] # {} =>
           y.told.buttons[w] \subseteq (h \ {b}) \cap y.seat.buttons /\ y.seat.grab = w
    BY <2>2, <2>3, <2>4, <2>5, <2>6
  <2>8. Tells(y, h \ {b}, l)
    BY <1>1, <1>3, <1>f, <2>2, <2>3, <2>7, PointerAssumption DEF Tells
  <2>9. Binds(y, l)
    BY <1>1, <1>3, <1>f, <2>3 DEF Binds, Active
  <2> QED
    BY <1>y, <2>8, <2>9 DEF Books
<1> QED
  BY <1>2, <1>3

LEMMA ActivateIs ==
    ASSUME NEW x, NEW h, NEW l, Books(x, h, l), NEW inside \in BOOLEAN
    PROVE  /\ Books(ActivateConstraint(x, inside), h, l)
           /\ ActivateConstraint(x, inside).seat = x.seat
<1>w. PICK w : w = x.seat.focus
  OBVIOUS
<1>y. PICK y : y = ActivateConstraint(x, inside)
  OBVIOUS
<1>1. /\ x \in StateSet /\ x.bonds \in [Constrained -> Bond] /\ Tells(x, h, l) /\ Binds(x, l)
  BY DEF Books, Tells, StateSet
<1>2. CASE w \in Constrained /\ inside /\ x.bonds[w].type # "none" /\ x.bonds[w].state = "idle"
  <2>b. PICK b : b = [v \in Constrained |->
                        IF v = w THEN [x.bonds[v] EXCEPT !.state = "active"]
                        ELSE IF v \in Active(x) THEN Deactivated(x.bonds[v]) ELSE x.bonds[v]]
    OBVIOUS
  <2>1. y = [x EXCEPT !.bonds = b]
    BY <1>w, <1>y, <1>2, <2>b DEF ActivateConstraint
  <2>2. ASSUME NEW v \in Constrained
        PROVE  b[v] \in Bond /\ (b[v].state = "active" => v = w)
    <3>1. CASE v = w
      <4>1. b[v] = [x.bonds[v] EXCEPT !.state = "active"]
        BY <2>b, <3>1
      <4> QED
        BY <1>1, <3>1, <4>1 DEF Bond
    <3>2. CASE v # w /\ v \in Active(x)
      BY <1>1, <2>b, <3>2, FreeBond
    <3>3. CASE v # w /\ v \notin Active(x)
      BY <1>1, <2>b, <3>3 DEF Active
    <3> QED
      BY <3>1, <3>2, <3>3
  <2>3. b \in [Constrained -> Bond]
    BY <2>b, <2>2
  <2>4. y \in StateSet /\ y.seat = x.seat /\ y.told = x.told /\ y.bonds = b
    BY <1>1, <2>1, <2>3 DEF StateSet
  <2>5. Tells(y, h, l)
    BY <1>1, <2>4 DEF Tells
  <2>6. Active(y) \subseteq {w} /\ w # None
    BY <1>2, <2>2, <2>4, PointerAssumption DEF Active
  <2>7. Binds(y, l)
    BY <1>1, <1>w, <2>4, <2>6 DEF Binds, Tells
  <2> QED
    BY <1>y, <2>4, <2>5, <2>7 DEF Books
<1>3. CASE ~(w \in Constrained /\ inside /\ x.bonds[w].type # "none" /\ x.bonds[w].state = "idle")
  <2>1. y = x
    BY <1>w, <1>y, <1>3 DEF ActivateConstraint
  <2> QED
    BY <1>y, <2>1
<1> QED
  BY <1>2, <1>3

\* What is found is a surface that lives.
LEMMA HitIs ==
    ASSUME NEW sc \in Scenes, NEW p \in Spots, NEW l \in SUBSET Windows
    PROVE  HitTest(sc, p, l) \in l \cup {None}
<1> DEFINE takes(i) == sc[p][i] \in l \cup {None}
           top == {i \in DOMAIN sc[p] : takes(i) /\ \A j \in 1..(i - 1) : ~takes(j)}
<1>1. HitTest(sc, p, l) = IF top = {} THEN None ELSE sc[p][CHOOSE i \in top : TRUE]
  BY DEF HitTest
<1>2. ASSUME NEW t, t = top, t # {}
      PROVE  sc[p][CHOOSE i \in t : TRUE] \in l \cup {None}
  <2>1. PICK i : i = CHOOSE j \in t : TRUE
    OBVIOUS
  <2>2. i \in t
    BY <1>2, <2>1
  <2> QED
    BY <1>2, <2>1, <2>2
<1> QED
  BY <1>1, <1>2

\* The router's pick: unless something holds the pointer, it is where the scene
\* has it.
Picks(x, y, sc, p, l) ==
    \/ p = None
    \/ Locked(x) /\ y = x
    \/ y.seat.grab # None
    \/ y.seat.focus = HitTest(sc, p, l)

LEMMA UpdateIs ==
    ASSUME NEW x, NEW h, NEW l \in SUBSET Windows, Books(x, h, l), NEW sc \in Scenes,
           NEW p \in Spots \cup {None}, NEW inside \in BOOLEAN
    PROVE  /\ Books(UpdatePointer(x, sc, p, l, inside), h, l)
           /\ Picks(x, UpdatePointer(x, sc, p, l, inside), sc, p, l)
<1>y. PICK y : y = UpdatePointer(x, sc, p, l, inside)
  OBVIOUS
<1>k. PICK k : k = HitTest(sc, p, l)
  OBVIOUS
<1>1. CASE p = None \/ Locked(x)
  <2>1. y = x
    BY <1>y, <1>1 DEF UpdatePointer
  <2> QED
    BY <1>y, <1>1, <2>1 DEF Picks
<1>2. CASE ~(p = None \/ Locked(x))
  <2>1. k \in l \cup {None}
    BY <1>k, <1>2, HitIs
  <2>z. PICK z : z = IF x.seat.grab # None /\ ~x.seat.dragging THEN x
                     ELSE IF k # None THEN PointerEnter(x, k) ELSE PointerClearFocus(x)
    OBVIOUS
  <2>2. y = ActivateConstraint(z, inside)
    BY <1>y, <1>k, <1>2, <2>z DEF UpdatePointer
  <2>3. Books(z, h, l) /\ (z.seat.grab # None \/ z.seat.focus = k)
    <3>1. CASE x.seat.grab # None /\ ~x.seat.dragging
      BY <2>z, <3>1
    <3>2. CASE ~(x.seat.grab # None /\ ~x.seat.dragging)
      <4>1. x.seat.grab = None
        BY <3>2 DEF Books, Tells
      <4>2. CASE k # None
        BY <2>1, <2>z, <3>2, <4>1, <4>2, EnterIs
      <4>3. CASE k = None
        BY <2>z, <3>2, <4>1, <4>3, ClearIs
      <4> QED
        BY <4>2, <4>3
    <3> QED
      BY <3>1, <3>2
  <2>4. Books(y, h, l) /\ y.seat = z.seat
    BY <2>2, <2>3, ActivateIs
  <2> QED
    BY <1>y, <1>k, <2>3, <2>4 DEF Picks
<1> QED
  BY <1>1, <1>2

\* The surface under the pointer is the one the scene shows there.
PickHolds ==
    at # None /\ seat.grab = None /\ ~Locked(State) /\ ~moot =>
        seat.focus = HitTest(scene, at, alive)

PointerInv ==
    /\ PointerTypeOK
    /\ Books(State, held, alive)
    /\ PickHolds

LEMMA PointerFacts ==
    ASSUME PointerInv
    PROVE  /\ Books(State, held, alive) /\ alive \in SUBSET Windows /\ scene \in Scenes
           /\ at \in Spots \cup {None} /\ held \in SUBSET Buttons
           /\ State.seat = seat /\ State.bonds = bonds /\ State.told = told
           /\ seat \in SeatSet /\ bonds \in [Constrained -> Bond] /\ told \in ToldSet
           /\ menus \in [Menus -> {"none", "open", "done"}] /\ moot \in BOOLEAN
  BY DEF PointerInv, PointerTypeOK, State, SeatSet, ToldSet

LEMMA NextState ==
    ASSUME NEW y \in StateSet, Becomes(y)
    PROVE  /\ State' = y /\ seat' = y.seat /\ bonds' = y.bonds /\ told' = y.told
           /\ seat' \in SeatSet /\ bonds' \in [Constrained -> Bond] /\ told' \in ToldSet
<1>1. seat' = y.seat /\ bonds' = y.bonds /\ told' = y.told
  BY DEF Becomes
<1>2. y = [seat |-> y.seat, bonds |-> y.bonds, told |-> y.told]
  BY DEF StateSet
<1> QED
  BY <1>1, <1>2 DEF State, StateSet

\* A call of the seat or the router that keeps the books, and what is picked.
LEMMA SeatStep ==
    ASSUME PointerInv, NEW y, Becomes(y), Books(y, held', alive'),
           alive' \in SUBSET Windows, scene' \in Scenes, at' \in Spots \cup {None},
           held' \in SUBSET Buttons, menus' \in [Menus -> {"none", "open", "done"}],
           moot' \in BOOLEAN,
           at' # None /\ y.seat.grab = None /\ ~Locked(y) /\ ~moot' =>
               y.seat.focus = HitTest(scene', at', alive')
    PROVE  PointerInv'
<1>1. y \in StateSet
  BY DEF Books, Tells
<1>2. State' = y /\ seat' = y.seat /\ seat' \in SeatSet /\ bonds' \in [Constrained -> Bond]
      /\ told' \in ToldSet
  BY <1>1, NextState
<1>3. PointerTypeOK'
  BY <1>2 DEF PointerTypeOK, SeatSet, ToldSet
<1>4. Locked(State)' = Locked(y)
  BY <1>2 DEF Locked, Active
<1>5. Books(State, held, alive)'
  BY <1>2
<1>6. PickHolds'
  BY <1>2, <1>4 DEF PickHolds
<1> QED
  BY <1>3, <1>5, <1>6 DEF PointerInv

\* The router's own handlers end with a pick, of a state the books hold in.
LEMMA PickStep ==
    ASSUME PointerInv, NEW x, Books(x, held', alive), NEW inside \in BOOLEAN,
           NEW sc \in Scenes, scene' = sc, at' \in Spots \cup {None},
           held' \in SUBSET Buttons, menus' \in [Menus -> {"none", "open", "done"}],
           moot' \in BOOLEAN, alive' = alive,
           Becomes(UpdatePointer(x, sc, at', alive, inside))
    PROVE  PointerInv'
<1>y. PICK y : y = UpdatePointer(x, sc, at', alive, inside)
  OBVIOUS
<1>1. alive \in SUBSET Windows
  BY PointerFacts
<1>2. Books(y, held', alive) /\ Picks(x, y, sc, at', alive)
  BY <1>1, <1>y, UpdateIs
<1>3. at' # None /\ y.seat.grab = None /\ ~Locked(y) /\ ~moot' =>
          y.seat.focus = HitTest(scene', at', alive')
  BY <1>2 DEF Picks
<1> QED
  BY <1>1, <1>2, <1>3, <1>y, SeatStep

\* A step of the router that does nothing but pick.
LEMMA RouterStep ==
    ASSUME PointerInv, NEW inside \in BOOLEAN, UNCHANGED <<alive, held, menus>>,
           at' \in Spots \cup {None}, scene' \in Scenes, moot' \in BOOLEAN,
           Becomes(UpdatePointer(State, scene', at', alive, inside))
    PROVE  PointerInv'
<1>1. Books(State, held', alive)
  BY PointerFacts
<1>2. held' \in SUBSET Buttons /\ menus' \in [Menus -> {"none", "open", "done"}]
  BY PointerFacts
<1> QED
  BY <1>1, <1>2, PickStep

LEMMA RepickStep ==
    ASSUME PointerInv, NEW inside \in BOOLEAN, Repick(inside)
    PROVE  PointerInv'
<1>1. /\ UNCHANGED <<alive, scene, at, held, menus>>
      /\ Becomes(UpdatePointer(State, scene', at', alive, inside))
  BY DEF Repick
<1>2. moot' \in BOOLEAN
  BY PointerFacts DEF Repick, Picked
<1> QED
  BY <1>1, <1>2, PointerFacts, RouterStep

LEMMA SetSceneStep ==
    ASSUME PointerInv, NEW inside \in BOOLEAN, NEW sc \in Scenes, SetScene(sc, inside)
    PROVE  PointerInv'
<1>1. /\ UNCHANGED <<alive, at, held, menus>> /\ scene' \in Scenes
      /\ Becomes(UpdatePointer(State, scene', at', alive, inside))
  BY DEF SetScene
<1>2. moot' \in BOOLEAN
  BY PointerFacts DEF SetScene, Picked
<1> QED
  BY <1>1, <1>2, PointerFacts, RouterStep

LEMMA MotionStep ==
    ASSUME PointerInv, NEW inside \in BOOLEAN, NEW spot \in Spots,
           Motion(spot, inside) \/ MotionAbsolute(spot, inside)
    PROVE  PointerInv'
<1>1. /\ UNCHANGED <<alive, scene, held, menus>> /\ at' \in Spots
      /\ Becomes(UpdatePointer(State, scene', at', alive, inside))
  BY DEF Motion, MotionAbsolute
<1>2. moot' \in BOOLEAN
  BY PointerFacts DEF Motion, MotionAbsolute, Picked
<1> QED
  BY <1>1, <1>2, PointerFacts, RouterStep

LEMMA FocusReleases ==
    ASSUME PointerInv, NEW b \in Buttons, b \in held,
           NEW x, x = IF seat.focus = None THEN State ELSE PointerButton(State, b, FALSE)
    PROVE  Books(x, held \ {b}, alive)
<1>1. CASE seat.focus # None
  BY <1>1, PointerFacts, ReleaseIs
<1>2. CASE seat.focus = None
  <2>1. Tells(State, held, alive) /\ Binds(State, alive) /\ State.seat = seat
    BY PointerFacts DEF Books
  <2>2. State.seat.grab = None
    BY <1>2, <2>1 DEF Tells
  <2>3. State.seat.buttons = {} /\ \A w \in Windows : State.told.buttons[w] = {}
    BY <2>1, <2>2, NoGrabNoButton
  <2>4. Tells(State, held \ {b}, alive)
    BY <2>1, <2>3 DEF Tells
  <2> QED
    BY <1>2, <2>1, <2>4 DEF Books
<1> QED
  BY <1>1, <1>2

LEMMA ReleaseStep ==
    ASSUME PointerInv, NEW b \in Buttons, NEW inside \in BOOLEAN, Release(b, inside)
    PROVE  PointerInv'
<1>x. PICK x : x = IF seat.focus = None THEN State ELSE PointerButton(State, b, FALSE)
  OBVIOUS
<1>1. /\ UNCHANGED <<alive, scene, at, menus>> /\ b \in held /\ held' = held \ {b}
      /\ Becomes(UpdatePointer(x, scene', at', alive, inside)) /\ Picked(x, at)
  BY <1>x DEF Release
<1>2. Books(x, held', alive)
  BY <1>x, <1>1, FocusReleases
<1>3. moot' \in BOOLEAN
  BY <1>1, PointerFacts DEF Picked
<1>4. /\ held' \in SUBSET Buttons /\ menus' \in [Menus -> {"none", "open", "done"}]
      /\ at' \in Spots \cup {None} /\ scene' \in Scenes
  BY <1>1, PointerFacts
<1> QED
  BY <1>1, <1>2, <1>3, <1>4, PickStep

LEMMA PressStep ==
    ASSUME PointerInv, NEW b \in Buttons, Press(b)
    PROVE  PointerInv'
<1>y. PICK y : y = IF seat.focus = None THEN State ELSE PointerButton(State, b, TRUE)
  OBVIOUS
<1>1. /\ UNCHANGED <<alive, scene, at, moot>> /\ held' = held \cup {b} /\ Becomes(y)
      /\ menus' = DismissGrabsOutside(seat.focus)
  BY <1>y DEF Press
<1>2. Books(y, held', alive) /\ (y = State \/ y.seat.grab # None)
  <2>1. CASE seat.focus # None
    BY <1>y, <1>1, <2>1, PointerFacts, PressIs
  <2>2. CASE seat.focus = None
    <3>1. Books(State, held, alive)
      BY PointerFacts
    <3>2. Books(State, held', alive)
      BY <1>1, <3>1 DEF Books, Tells
    <3> QED
      BY <1>y, <2>2, <3>2
  <2> QED
    BY <2>1, <2>2
<1>3. menus' \in [Menus -> {"none", "open", "done"}]
  BY <1>1, PointerFacts DEF DismissGrabsOutside
<1>4. at # None /\ y.seat.grab = None /\ ~Locked(y) /\ ~moot =>
          y.seat.focus = HitTest(scene, at, alive)
  BY <1>2, PointerFacts DEF PointerInv, PickHolds
<1>5. /\ held' \in SUBSET Buttons /\ alive' \in SUBSET Windows /\ scene' \in Scenes
      /\ at' \in Spots \cup {None} /\ moot' \in BOOLEAN
  BY <1>1, PointerFacts
<1> QED
  BY <1>1, <1>2, <1>3, <1>4, <1>5, SeatStep

LEMMA PointerLeaveStep ==
    ASSUME PointerInv, PointerLeave
    PROVE  PointerInv'
<1>1. /\ UNCHANGED <<alive, scene, held, menus>> /\ at' = None /\ moot' = TRUE
      /\ Becomes(PointerClearFocus(State))
  BY DEF PointerLeave
<1>2. Books(PointerClearFocus(State), held, alive)
  BY PointerFacts, ClearIs
<1> QED
  BY <1>1, <1>2, PointerFacts, SeatStep

LEMMA DragStep ==
    ASSUME PointerInv, StartDrag \/ CancelDrag
    PROVE  PointerInv'
<1>1. UNCHANGED <<alive, scene, at, held, menus>> /\ moot' \in BOOLEAN
  BY DEF StartDrag, CancelDrag
<1>2. PICK y : Becomes(y) /\ Books(y, held, alive) /\ y.seat.focus = seat.focus
  <2>1. CASE StartDrag
    <3>1. Becomes(BeginDrag(State)) /\ ~State.seat.dragging
      BY <2>1, PointerFacts DEF StartDrag
    <3> QED
      BY <3>1, PointerFacts, BeginDragIs
  <2>2. CASE CancelDrag
    <3>1. Becomes(EndDrag(State)) /\ State.seat.dragging
      BY <2>2, PointerFacts DEF CancelDrag
    <3> QED
      BY <3>1, PointerFacts, EndDragIs
  <2> QED
    BY <2>1, <2>2
<1>3. ASSUME at # None, ~moot'
      PROVE  seat.focus = HitTest(scene, at, alive)
  <2>1. ~moot /\ ~Locked(State) /\ seat.grab = None
    <3>1. CASE StartDrag
      BY <1>3, <3>1 DEF StartDrag
    <3>2. CASE CancelDrag
      <4>1. seat.grab = None
        BY <3>2, PointerFacts DEF CancelDrag, Books, Tells
      <4> QED
        BY <1>3, <3>2, <4>1 DEF CancelDrag
    <3> QED
      BY <3>1, <3>2
  <2> QED
    BY <1>3, <2>1 DEF PointerInv, PickHolds
<1>4. at' # None /\ y.seat.grab = None /\ ~Locked(y) /\ ~moot' =>
          y.seat.focus = HitTest(scene', at', alive')
  BY <1>1, <1>2, <1>3
<1>5. /\ held' \in SUBSET Buttons /\ menus' \in [Menus -> {"none", "open", "done"}]
      /\ at' \in Spots \cup {None} /\ scene' \in Scenes /\ alive' \in SUBSET Windows
      /\ Books(y, held', alive')
  BY <1>1, <1>2, PointerFacts
<1> QED
  BY <1>1, <1>2, <1>4, <1>5, SeatStep

\* A client's or the compositor's dealings with constraints: seat and clients'
\* book stand still, no constraint comes alive but the focus's own, and a lock
\* that goes leaves what is under the pointer open.
LEMMA BondStep ==
    ASSUME PointerInv, NEW b \in [Constrained -> Bond], bonds' = b, UNCHANGED <<seat, told>>,
           UNCHANGED <<alive, scene, at, held>>, menus' \in [Menus -> {"none", "open", "done"}],
           \A w \in Constrained : b[w].state = "active" => bonds[w].state = "active",
           moot' \in BOOLEAN, ~moot' => ~moot /\ (Locked(State) => Locked(State)')
    PROVE  PointerInv'
<1>y. PICK y : y = [seat |-> seat, bonds |-> b, told |-> told]
  OBVIOUS
<1>1. y \in StateSet /\ y.seat = seat /\ y.told = told /\ y.bonds = b /\ Becomes(y)
  BY <1>y, PointerFacts DEF StateSet, Becomes
<1>2. Active(y) \subseteq Active(State)
  BY <1>1, PointerFacts DEF Active
<1>3. Tells(y, held, alive)
  BY <1>1, PointerFacts DEF Books, Tells
<1>4. Binds(y, alive)
  BY <1>1, <1>2, PointerFacts DEF Books, Binds
<1>5. State' = y
  BY <1>1, NextState
<1>6. at' # None /\ y.seat.grab = None /\ ~Locked(y) /\ ~moot' =>
          y.seat.focus = HitTest(scene', at', alive')
  <2>1. Locked(State)' = Locked(y)
    BY <1>5 DEF Locked, Active
  <2> QED
    BY <1>1, <2>1 DEF PointerInv, PickHolds
<1>7. /\ held' \in SUBSET Buttons /\ at' \in Spots \cup {None} /\ scene' \in Scenes
      /\ alive' \in SUBSET Windows /\ Books(y, held', alive')
  BY <1>3, <1>4, PointerFacts DEF Books
<1> QED
  BY <1>1, <1>6, <1>7, SeatStep

LEMMA ConstrainStep ==
    ASSUME PointerInv, NEW w \in Constrained, NEW type \in {"locked", "confined"},
           NEW oneshot \in BOOLEAN, Constrain(w, type, oneshot)
    PROVE  PointerInv'
<1>n. PICK n : n = [type |-> type, oneshot |-> oneshot, state |-> "idle"]
  OBVIOUS
<1>1. /\ bonds' = [bonds EXCEPT ![w] = n] /\ bonds[w].type = "none"
      /\ UNCHANGED <<alive, scene, at, held, seat, menus, told, moot>>
  BY <1>n DEF Constrain
<1>2. n \in Bond /\ n.state = "idle"
  BY <1>n DEF Bond
<1>3. /\ bonds' \in [Constrained -> Bond] /\ bonds'[w] = n
      /\ \A v \in Constrained \ {w} : bonds'[v] = bonds[v]
  BY <1>1, <1>2, PointerFacts
<1>4. Locked(State) => Locked(State)'
  <2> SUFFICES ASSUME NEW v \in Constrained, bonds[v].state = "active", bonds[v].type = "locked"
               PROVE  bonds'[v].state = "active" /\ bonds'[v].type = "locked"
    BY DEF Locked, Active, State
  <2> QED
    BY <1>1, <1>3
<1>5. \A v \in Constrained : bonds'[v].state = "active" => bonds[v].state = "active"
  BY <1>2, <1>3
<1> QED
  BY <1>1, <1>3, <1>4, <1>5, PointerFacts, BondStep

LEMMA UnconstrainStep ==
    ASSUME PointerInv, NEW w \in Constrained, Unconstrain(w) \/ Deactivate(w)
    PROVE  PointerInv'
<1>1. /\ UNCHANGED <<alive, scene, at, held, seat, menus, told>> /\ moot' = (moot \/ Locked(State))
  BY DEF Unconstrain, Deactivate
<1>2. PICK n \in Bond : bonds' = [bonds EXCEPT ![w] = n] /\ n.state # "active"
  BY PointerFacts, FreeBond DEF Unconstrain, Deactivate
<1>3. /\ bonds' \in [Constrained -> Bond]
      /\ \A v \in Constrained : bonds'[v].state = "active" => bonds[v].state = "active"
  BY <1>2, PointerFacts
<1>4. moot' \in BOOLEAN /\ (~moot' => ~moot /\ (Locked(State) => Locked(State)'))
  BY <1>1
<1> QED
  BY <1>1, <1>3, <1>4, PointerFacts, BondStep

LEMMA ActivateStep ==
    ASSUME PointerInv, NEW w \in Constrained, Activate(w)
    PROVE  PointerInv'
<1>y. PICK y : y = ActivateConstraint(State, TRUE)
  OBVIOUS
<1>1. /\ UNCHANGED <<alive, scene, at, held, menus>> /\ moot' = (moot \/ Locked(State))
      /\ Becomes(y)
  BY <1>y DEF Activate
<1>2. Books(y, held, alive) /\ y.seat = seat
  <2>1. TRUE \in BOOLEAN
    OBVIOUS
  <2>2. PICK inside \in BOOLEAN : inside = TRUE
    BY <2>1
  <2>3. y = ActivateConstraint(State, inside)
    BY <1>y, <2>2
  <2> QED
    BY <2>3, PointerFacts, ActivateIs
<1>3. at' # None /\ y.seat.grab = None /\ ~Locked(y) /\ ~moot' =>
          y.seat.focus = HitTest(scene', at', alive')
  BY <1>1, <1>2 DEF PointerInv, PickHolds
<1>4. moot' \in BOOLEAN
  BY <1>1
<1> QED
  BY <1>1, <1>2, <1>3, <1>4, PointerFacts, SeatStep

LEMMA MenuStep ==
    ASSUME PointerInv, NEW m \in Menus, OpenMenu(m) \/ CloseMenu(m)
    PROVE  PointerInv'
<1>1. /\ UNCHANGED <<alive, scene, at, held, seat, bonds, told, moot>>
      /\ menus' \in [Menus -> {"none", "open", "done"}]
  BY PointerFacts DEF OpenMenu, CloseMenu
<1>2. Locked(State)' = Locked(State)
  BY <1>1 DEF Locked, Active, State
<1> QED
  BY <1>1, <1>2, PointerFacts, BondStep

LEMMA DestroyWindowStep ==
    ASSUME PointerInv, NEW w \in Windows, DestroyWindow(w)
    PROVE  PointerInv'
<1>x. PICK x : x = State
  OBVIOUS
<1>1. /\ x \in StateSet /\ x.seat \in SeatSet /\ x.told \in ToldSet /\ Tells(x, held, alive)
      /\ Binds(x, alive) /\ x.bonds \in [Constrained -> Bond] /\ x.seat = seat
      /\ x.bonds = bonds
  BY <1>x, PointerFacts DEF Books, Tells, StateSet
<1>b. PICK b : b = [v \in Constrained |-> IF v = w THEN NoBond ELSE x.bonds[v]]
  OBVIOUS
<1>2. b \in [Constrained -> Bond] /\ \A v \in Constrained : b[v].state = "active" =>
                                         v # w /\ x.bonds[v].state = "active"
  BY <1>1, <1>b, FreeBond
<1>s. PICK s : s = [focus |-> IF seat.focus = w THEN None ELSE seat.focus,
                    grab |-> IF seat.grab = w THEN None ELSE seat.grab,
                    buttons |-> IF seat.grab = w THEN {} ELSE seat.buttons,
                    dragging |-> seat.dragging, offered |-> seat.offered]
  OBVIOUS
<1>z. PICK z : z = [seat |-> s, bonds |-> b, told |-> Leave(x.told, w)]
  OBVIOUS
<1>3. /\ UNCHANGED <<scene, at, held>> /\ moot' = TRUE /\ alive' = alive \ {w}
      /\ menus' = [m \in Menus |-> IF m = w THEN "none" ELSE menus[m]]
      /\ Becomes(IF seat.focus # w \/ seat.dragging THEN z ELSE FocusChanged(z))
  <2>1. PICK freed : freed = [x EXCEPT !.bonds = b, !.told = Leave(x.told, w)]
    OBVIOUS
  <2>2. PICK loose : loose = IF seat.grab # w THEN freed
                             ELSE [freed EXCEPT !.seat.grab = None, !.seat.buttons = {}]
    OBVIOUS
  <2>3. PICK lost : lost = IF seat.focus # w THEN loose ELSE [loose EXCEPT !.seat.focus = None]
    OBVIOUS
  <2>4. Becomes(IF seat.focus # w \/ seat.dragging THEN lost ELSE FocusChanged(lost))
    BY <1>x, <1>b, <2>1, <2>2, <2>3 DEF DestroyWindow
  <2>5. lost = z
    <3>1. freed = [seat |-> seat, bonds |-> b, told |-> Leave(x.told, w)]
      BY <1>1, <2>1 DEF StateSet
    <3>2. loose = [seat |-> [focus |-> seat.focus,
                             grab |-> IF seat.grab = w THEN None ELSE seat.grab,
                             buttons |-> IF seat.grab = w THEN {} ELSE seat.buttons,
                             dragging |-> seat.dragging, offered |-> seat.offered],
                   bonds |-> b, told |-> Leave(x.told, w)]
      BY <1>1, <2>2, <3>1 DEF SeatSet
    <3>3. PICK f : f = IF seat.focus = w THEN None ELSE seat.focus
      OBVIOUS
    <3>4. lost = [seat |-> [focus |-> f,
                            grab |-> IF seat.grab = w THEN None ELSE seat.grab,
                            buttons |-> IF seat.grab = w THEN {} ELSE seat.buttons,
                            dragging |-> seat.dragging, offered |-> seat.offered],
                  bonds |-> b, told |-> Leave(x.told, w)]
      <4>1. CASE seat.focus = w
        BY <2>3, <3>2, <3>3, <4>1
      <4>2. CASE seat.focus # w
        BY <2>3, <3>2, <3>3, <4>2
      <4> QED
        BY <4>1, <4>2
    <3>5. s = [focus |-> f,
               grab |-> IF seat.grab = w THEN None ELSE seat.grab,
               buttons |-> IF seat.grab = w THEN {} ELSE seat.buttons,
               dragging |-> seat.dragging, offered |-> seat.offered]
      BY <1>s, <3>3
    <3> QED
      BY <1>z, <3>4, <3>5
  <2> QED
    BY <2>4, <2>5 DEF DestroyWindow
<1>4. /\ s \in SeatSet /\ z \in StateSet /\ z.seat = s /\ z.bonds = b
      /\ z.told = Leave(x.told, w)
  <2>1. s \in SeatSet
    BY <1>1, <1>s DEF SeatSet
  <2> QED
    BY <1>1, <1>2, <1>z, <2>1, LeaveIs DEF StateSet
<1>5. /\ s.focus = (IF seat.focus = w THEN None ELSE seat.focus)
      /\ s.grab = (IF seat.grab = w THEN None ELSE seat.grab)
      /\ s.buttons = (IF seat.grab = w THEN {} ELSE seat.buttons)
      /\ s.dragging = seat.dragging
  BY <1>s
<1>6. Tells(z, held, alive \ {w})
  <2>1. z.told.over = IF s.focus = None \/ s.dragging THEN {} ELSE {s.focus}
    <3>1. z.told.over = x.told.over \ {w}
      BY <1>1, <1>4, LeaveIs
    <3>2. x.told.over = IF seat.focus = None \/ seat.dragging THEN {} ELSE {seat.focus}
      BY <1>1 DEF Tells
    <3>3. CASE seat.focus = None \/ seat.dragging
      BY <1>5, <3>1, <3>2, <3>3
    <3>4. CASE ~(seat.focus = None \/ seat.dragging)
      BY <1>5, <3>1, <3>2, <3>4
    <3> QED
      BY <3>3, <3>4
  <2>2. \A v \in Windows : z.told.buttons[v] # {} =>
            z.told.buttons[v] \subseteq held \cap s.buttons /\ s.grab = v
    <3>1. z.told.buttons[w] = {} /\ \A v \in Windows \ {w} : z.told.buttons[v] = x.told.buttons[v]
      BY <1>1, <1>4, LeaveIs
    <3> QED
      BY <1>1, <1>5, <3>1 DEF Tells
  <2>3. /\ s.grab # None => s.focus = s.grab /\ ~s.dragging
        /\ s.buttons \subseteq held /\ (s.buttons = {} <=> s.grab = None)
        /\ s.focus # None => s.focus \in alive \ {w}
    BY <1>1, <1>5, PointerAssumption DEF Tells
  <2> QED
    BY <1>4, <2>1, <2>2, <2>3 DEF Tells
<1>7. Active(z) \subseteq Active(x) \ {w} /\ Active(z) \subseteq alive \ {w}
  BY <1>1, <1>2, <1>4 DEF Active, Binds
<1>8. PICK y : /\ Becomes(y) /\ Books(y, held, alive \ {w})
  <2>1. CASE seat.focus # w \/ seat.dragging
    <3>1. Binds(z, alive \ {w})
      BY <1>1, <1>4, <1>5, <1>7, <2>1 DEF Binds
    <3> QED
      BY <1>3, <1>6, <2>1, <3>1 DEF Books
  <2>2. CASE ~(seat.focus # w \/ seat.dragging)
    BY <1>3, <1>6, <1>7, <2>2, FocusChangedBooks
  <2> QED
    BY <2>1, <2>2
<1>9. menus' \in [Menus -> {"none", "open", "done"}]
  BY <1>3, PointerFacts
<1> QED
  BY <1>3, <1>8, <1>9, PointerFacts, SeatStep

LEMMA PointerStep ==
    ASSUME PointerInv, [PointerNext]_pointerVars
    PROVE  PointerInv'
<1>1. CASE UNCHANGED pointerVars
  <2>1. UNCHANGED <<alive, scene, at, held, seat, bonds, menus, told, moot>>
    BY <1>1 DEF pointerVars
  <2>2. Locked(State)' = Locked(State)
    BY <2>1 DEF Locked, Active, State
  <2> QED
    BY <2>1, <2>2, PointerFacts, BondStep
<1>2. ASSUME NEW inside \in BOOLEAN,
             \/ Repick(inside)
             \/ \E sc \in Scenes : SetScene(sc, inside)
             \/ \E spot \in Spots : Motion(spot, inside) \/ MotionAbsolute(spot, inside)
             \/ \E b \in Buttons : Release(b, inside)
      PROVE  PointerInv'
  <2>1. CASE \E b \in Buttons : Release(b, inside)
    BY <2>1, ReleaseStep
  <2>2. CASE \E sc \in Scenes : SetScene(sc, inside)
    <3>1. PICK sc \in Scenes : SetScene(sc, inside)
      BY <2>2
    <3> QED
      BY <3>1, SetSceneStep
  <2>3. CASE Repick(inside)
    BY <2>3, RepickStep
  <2>4. CASE \E spot \in Spots : Motion(spot, inside) \/ MotionAbsolute(spot, inside)
    BY <2>4, MotionStep
  <2> QED
    BY <1>2, <2>1, <2>2, <2>3, <2>4
<1>3. CASE PointerNext
  BY <1>2, <1>3, PointerLeaveStep, DragStep, PressStep, UnconstrainStep, ActivateStep,
     ConstrainStep, MenuStep, DestroyWindowStep DEF PointerNext
<1> QED
  BY <1>1, <1>3

LEMMA PointerBegin == PointerInit => PointerInv
<1> SUFFICES ASSUME PointerInit PROVE PointerInv
  OBVIOUS
<1>1. /\ seat = [focus |-> None, grab |-> None, buttons |-> {}, dragging |-> FALSE,
                 offered |-> None]
      /\ bonds = [w \in Constrained |-> NoBond] /\ menus = [m \in Menus |-> "none"]
      /\ told = [over |-> {}, buttons |-> [w \in Windows |-> {}]]
      /\ at = None /\ held = {} /\ moot = FALSE /\ alive = Windows /\ scene \in Scenes
  BY DEF PointerInit
<1>2. bonds \in [Constrained -> Bond] /\ \A w \in Constrained : bonds[w].state # "active"
  BY <1>1 DEF NoBond, Bond
<1>3. seat \in SeatSet /\ told \in ToldSet
  BY <1>1 DEF SeatSet, ToldSet
<1>4. PointerTypeOK
  BY <1>1, <1>2, <1>3 DEF PointerTypeOK, SeatSet, ToldSet
<1>5. State \in StateSet /\ State.seat = seat /\ State.told = told /\ State.bonds = bonds
  BY <1>2, <1>3 DEF State, StateSet
<1>6. Active(State) = {}
  BY <1>2, <1>5 DEF Active
<1>7. Books(State, held, alive)
  BY <1>1, <1>5, <1>6 DEF Books, Tells, Binds
<1> QED
  BY <1>1, <1>4, <1>7 DEF PointerInv, PickHolds

LEMMA PointerEnough == PointerInv => ClientsKnowPointer /\ HoldersAgree
<1> SUFFICES ASSUME PointerInv PROVE ClientsKnowPointer /\ HoldersAgree
  OBVIOUS
<1>1. Tells(State, held, alive) /\ Binds(State, alive) /\ State.seat = seat /\ State.told = told
  BY PointerFacts DEF Books
<1>2. ClientsKnowPointer
  BY <1>1 DEF Tells, ClientsKnowPointer
<1>3. HoldersAgree
  BY <1>1 DEF PointerInv, PickHolds, Tells, Binds, HoldersAgree
<1> QED
  BY <1>2, <1>3

\* One surface has the pointer and its client alone believes so, no client is left
\* with a button, and grab, drag, constraint and scene agree on who it is, for every
\* set of windows, places, scenes and buttons (core.rs, shell.rs and input_router.cppm).
THEOREM PointerIsSound == PointerSpec => []PointerSound
<1>1. PointerInv /\ [PointerNext]_pointerVars => PointerInv'
  BY PointerStep
<1>2. PointerInv => PointerSound
  BY PointerEnough DEF PointerSound
<1> QED
  BY <1>1, <1>2, PointerBegin, PTL DEF PointerSpec

-----------------------------------------------------------------------------
(* Pens and pads.  The manager's book x.m and what clients were told, x.w,  *)
(* agree pen by pen and pad by pad, and each call touches one of them.      *)

Managers == [focus : [Pens -> Sheets \cup {Nothing}], over : [Pens -> Tablets \cup {Nothing}],
             down : [Pens -> BOOLEAN], pad : [Pads -> Sheets \cup {Nothing}]]
Notices == [pen : [Pens -> [Sheets -> {"out", "near", "down"}]],
            pad : [Pads -> Sheets \cup {Nothing}], mode : [Pads -> Modes \cup {Nothing}]]
FeedSet == [m : Managers, w : Notices]

\* One pen: how the sheets s know it, where it is and whether it is down.
PenAgrees(s, on, of, tip) ==
    /\ \A k \in Sheets : s[k] # "out" => k \in living /\ on = k
    /\ on \in living => s[on] # "out" /\ of \in Tablets /\ plugged[of] = "in"
    /\ \A k \in Sheets : s[k] = "down" => tip

PadAgrees(on, mode, pad, now) ==
    /\ on # Nothing => on \in living /\ pad = on
    /\ pad \in living => on = pad
    /\ mode # Nothing => on # Nothing /\ mode = now

PensAgree(x) == \A t \in Pens : PenAgrees(x.w.pen[t], x.m.focus[t], x.m.over[t], x.m.down[t])
PadsAgree(x) == \A p \in Pads : PadAgrees(x.w.pad[p], x.w.mode[p], x.m.pad[p], modes[p])

Agree(x) == x \in FeedSet /\ PensAgree(x) /\ PadsAgree(x)

FeedInv ==
    /\ FeedTypeOK
    /\ \A t \in Pens : pen[t].in_range => pen[t].tablet \in Tablets
    /\ PensAgree(Now) /\ PadsAgree(Now)

LEMMA FeedFacts ==
    ASSUME FeedInv
    PROVE  /\ plugged \in [Devices -> {"never", "in", "gone"}]
           /\ living \in SUBSET Sheets /\ seated \in SUBSET Sheets
           /\ pen \in [Pens -> [tablet : Tablets \cup {Nothing}, in_range : BOOLEAN,
                                down : BOOLEAN]]
           /\ modes \in [Pads -> Modes]
           /\ Agree(Now) /\ Now.m = manager /\ Now.w = penTold
           /\ manager \in Managers /\ penTold \in Notices
  BY DEF FeedInv, FeedTypeOK, Agree, Now, FeedSet, Managers, Notices

\* A call about one pen: the other pens and the pads are as they were.
OnePen(x, y, t) ==
    /\ y \in FeedSet
    /\ y.m.pad = x.m.pad /\ y.w.pad = x.w.pad /\ y.w.mode = x.w.mode
    /\ \A u \in Pens \ {t} : /\ y.m.focus[u] = x.m.focus[u] /\ y.m.over[u] = x.m.over[u]
                             /\ (y.m.down[u] <=> x.m.down[u]) /\ y.w.pen[u] = x.w.pen[u]

LEMMA OnePenAgrees ==
    ASSUME NEW x, NEW y, NEW t \in Pens, Agree(x), OnePen(x, y, t),
           PenAgrees(y.w.pen[t], y.m.focus[t], y.m.over[t], y.m.down[t])
    PROVE  Agree(y)
<1>1. PadsAgree(y)
  BY DEF Agree, PadsAgree, OnePen
<1>2. ASSUME NEW u \in Pens
      PROVE  PenAgrees(y.w.pen[u], y.m.focus[u], y.m.over[u], y.m.down[u])
  <2>1. CASE u = t
    BY <2>1
  <2>2. CASE u # t
    <3>1. PenAgrees(x.w.pen[u], x.m.focus[u], x.m.over[u], x.m.down[u])
      BY DEF Agree, PensAgree
    <3>2. /\ y.m.focus[u] = x.m.focus[u] /\ y.m.over[u] = x.m.over[u]
          /\ (y.m.down[u] <=> x.m.down[u]) /\ y.w.pen[u] = x.w.pen[u]
      BY <2>2 DEF OnePen
    <3> QED
      BY <3>1, <3>2 DEF PenAgrees
  <2> QED
    BY <2>1, <2>2
<1>3. y \in FeedSet
  BY DEF OnePen
<1> QED
  BY <1>1, <1>2, <1>3 DEF Agree, PensAgree

LEMMA OnePenAfter ==
    ASSUME NEW x, NEW y, NEW z, NEW t, OnePen(x, y, t), OnePen(y, z, t)
    PROVE  OnePen(x, z, t)
  BY DEF OnePen

Tellings == {"same", "out", "near", "down"}

\* What the client of the focus is told, and who is forgotten.
FocusTold(x, y, t, what) ==
    /\ OnePen(x, y, t) /\ y.m.over = x.m.over /\ y.m.down = x.m.down
    /\ y.m.focus[t] = IF x.m.focus[t] \in living THEN x.m.focus[t] ELSE Nothing
    /\ \A s \in Sheets :
          y.w.pen[t][s] = IF x.m.focus[t] = s /\ s \in living /\ what # "same" THEN what
                          ELSE x.w.pen[t][s]

LEMMA ToFocusIs ==
    ASSUME NEW x \in FeedSet, living \in SUBSET Sheets, NEW t \in Pens, NEW what \in Tellings
    PROVE  FocusTold(x, ToFocus(x, t, what), t, what)
<1>s. PICK s : s = x.m.focus[t]
  OBVIOUS
<1>y. PICK y : y = ToFocus(x, t, what)
  OBVIOUS
<1>1. /\ x.m \in Managers /\ x.w \in Notices /\ s \in Sheets \cup {Nothing}
      /\ x.m.focus \in [Pens -> Sheets \cup {Nothing}]
      /\ x.w.pen \in [Pens -> [Sheets -> {"out", "near", "down"}]]
  BY <1>s DEF FeedSet, Managers, Notices
<1>2. CASE s = Nothing
  <2>1. y = x
    BY <1>s, <1>y, <1>2 DEF ToFocus
  <2>2. s \notin living
    BY <1>2, FeedAssumption
  <2> QED
    BY <1>s, <1>y, <1>2, <2>1, <2>2 DEF OnePen, FocusTold
<1>3. CASE s # Nothing /\ s \notin living
  <2>1. y = [x EXCEPT !.m.focus[t] = Nothing]
    BY <1>s, <1>y, <1>3 DEF ToFocus
  <2>2. /\ y.w = x.w /\ y.m.over = x.m.over /\ y.m.down = x.m.down /\ y.m.pad = x.m.pad
        /\ y.m.focus = [x.m.focus EXCEPT ![t] = Nothing] /\ y \in FeedSet
    BY <1>1, <2>1 DEF FeedSet, Managers
  <2> QED
    BY <1>s, <1>y, <1>1, <1>3, <2>2 DEF OnePen, FocusTold
<1>4. CASE s # Nothing /\ s \in living
  <2>1. PICK v \in {"out", "near", "down"} : v = IF what = "same" THEN x.w.pen[t][s] ELSE what
    BY <1>1, <1>4 DEF Tellings
  <2>2. y = [x EXCEPT !.w.pen[t][s] = v]
    BY <1>s, <1>y, <1>4, <2>1 DEF ToFocus
  <2>3. /\ y.m = x.m /\ y.w.pad = x.w.pad /\ y.w.mode = x.w.mode
        /\ y.w.pen = [x.w.pen EXCEPT ![t] = [x.w.pen[t] EXCEPT ![s] = v]]
        /\ y \in FeedSet
    BY <1>1, <1>4, <2>2 DEF FeedSet, Notices
  <2>4. /\ y.w.pen[t] = [x.w.pen[t] EXCEPT ![s] = v]
        /\ \A u \in Pens \ {t} : y.w.pen[u] = x.w.pen[u]
    BY <1>1, <2>3
  <2>5. \A k \in Sheets : y.w.pen[t][k] = IF s = k THEN v ELSE x.w.pen[t][k]
    BY <1>1, <2>4
  <2> QED
    BY <1>s, <1>y, <1>4, <2>1, <2>3, <2>4, <2>5 DEF OnePen, FocusTold
<1> QED
  BY <1>1, <1>2, <1>3, <1>4

LEMMA PenOf ==
    ASSUME NEW x, Agree(x), NEW t \in Pens
    PROVE  /\ x \in FeedSet /\ x.m \in Managers /\ x.w \in Notices
           /\ PenAgrees(x.w.pen[t], x.m.focus[t], x.m.over[t], x.m.down[t])
           /\ x.w.pen[t] \in [Sheets -> {"out", "near", "down"}]
           /\ x.m.focus[t] \in Sheets \cup {Nothing}
           /\ x.m.over[t] \in Tablets \cup {Nothing} /\ x.m.down[t] \in BOOLEAN
  BY DEF Agree, PensAgree, FeedSet, Managers, Notices

\* The tip of pen t is lifted or put down: its client is told so.
LEMMA TipIs ==
    ASSUME NEW x, Agree(x), living \in SUBSET Sheets, NEW t \in Pens, NEW tip \in BOOLEAN,
           NEW z, z = [x EXCEPT !.m.down[t] = tip],
           NEW what \in {"near", "down"}, what = "down" <=> tip
    PROVE  /\ OnePen(x, ToFocus(z, t, what), t) /\ Agree(ToFocus(z, t, what))
           /\ ToFocus(z, t, what).m.focus[t] \in {x.m.focus[t], Nothing}
<1>y. PICK y : y = ToFocus(z, t, what)
  OBVIOUS
<1>1. /\ x \in FeedSet /\ x.m \in Managers /\ x.w \in Notices
      /\ PenAgrees(x.w.pen[t], x.m.focus[t], x.m.over[t], x.m.down[t])
      /\ x.m.focus[t] \in Sheets \cup {Nothing}
  BY PenOf
<1>2. /\ z \in FeedSet /\ z.w = x.w /\ z.m.focus = x.m.focus /\ z.m.over = x.m.over
      /\ z.m.pad = x.m.pad /\ z.m.down = [x.m.down EXCEPT ![t] = tip]
  BY <1>1 DEF FeedSet, Managers
<1>3. /\ (z.m.down[t] <=> tip) /\ \A u \in Pens \ {t} : z.m.down[u] = x.m.down[u]
  BY <1>1, <1>2 DEF Managers
<1>4. OnePen(x, z, t)
  BY <1>2, <1>3 DEF OnePen
<1>5. /\ OnePen(z, y, t) /\ y.m.over = z.m.over /\ y.m.down = z.m.down
      /\ y.m.focus[t] = IF x.m.focus[t] \in living THEN x.m.focus[t] ELSE Nothing
      /\ \A s \in Sheets : y.w.pen[t][s] =
             IF x.m.focus[t] = s /\ s \in living THEN what ELSE x.w.pen[t][s]
  <2>1. PICK way \in Tellings : way = what
    BY DEF Tellings
  <2>2. FocusTold(z, y, t, way)
    BY <1>2, <1>y, <2>1, ToFocusIs
  <2>3. z.m.focus[t] = x.m.focus[t] /\ z.w.pen[t] = x.w.pen[t]
    BY <1>2
  <2>4. way # "same"
    BY <2>1
  <2> QED
    BY <2>1, <2>2, <2>3, <2>4 DEF FocusTold
<1>6. OnePen(x, y, t)
  BY <1>4, <1>5, OnePenAfter
<1>7. PenAgrees(y.w.pen[t], y.m.focus[t], y.m.over[t], y.m.down[t])
  <2>1. y.m.over[t] = x.m.over[t] /\ (y.m.down[t] <=> tip)
    BY <1>2, <1>3, <1>5
  <2>2. Nothing \notin living
    BY FeedAssumption
  <2>3. CASE x.m.focus[t] \in living
    <3>1. /\ y.m.focus[t] = x.m.focus[t]
          /\ \A s \in Sheets : y.w.pen[t][s] = IF x.m.focus[t] = s THEN what ELSE x.w.pen[t][s]
      BY <1>5, <2>3
    <3>2. \A s \in Sheets : x.w.pen[t][s] # "out" => s = x.m.focus[t]
      BY <1>1 DEF PenAgrees
    <3>3. \A s \in Sheets : y.w.pen[t][s] = IF x.m.focus[t] = s THEN what ELSE "out"
      BY <3>1, <3>2
    <3> QED
      BY <1>1, <2>1, <2>3, <3>1, <3>3 DEF PenAgrees
  <2>4. CASE x.m.focus[t] \notin living
    <3>1. /\ y.m.focus[t] = Nothing
          /\ \A s \in Sheets : y.w.pen[t][s] = x.w.pen[t][s]
      BY <1>5, <2>4
    <3>2. \A s \in Sheets : x.w.pen[t][s] = "out"
      BY <1>1, <2>4 DEF PenAgrees
    <3> QED
      BY <2>2, <3>1, <3>2 DEF PenAgrees
  <2> QED
    BY <2>3, <2>4
<1> QED
  BY <1>y, <1>5, <1>6, <1>7, OnePenAgrees

LEMMA ToolDownIs ==
    ASSUME NEW x, Agree(x), living \in SUBSET Sheets, NEW t \in Pens
    PROVE  Agree(ToolDown(x, t))
<1>1. CASE x.m.down[t]
  BY <1>1 DEF ToolDown
<1>2. CASE ~x.m.down[t]
  <2>1. PICK b \in BOOLEAN : b = TRUE
    OBVIOUS
  <2>2. PICK z : z = [x EXCEPT !.m.down[t] = b]
    OBVIOUS
  <2>3. PICK what \in {"near", "down"} : what = "down"
    OBVIOUS
  <2>4. ToolDown(x, t) = ToFocus(z, t, what)
    BY <1>2, <2>1, <2>2, <2>3 DEF ToolDown
  <2>5. what = "down" <=> b
    BY <2>1, <2>3
  <2> QED
    BY <2>2, <2>4, <2>5, TipIs
<1> QED
  BY <1>1, <1>2

LEMMA ToolUpIs ==
    ASSUME NEW x, Agree(x), living \in SUBSET Sheets, NEW t \in Pens
    PROVE  /\ Agree(ToolUp(x, t)) /\ OnePen(x, ToolUp(x, t), t)
           /\ ToolUp(x, t).m.focus[t] \in {x.m.focus[t], Nothing}
<1>1. CASE ~x.m.down[t]
  <2>1. ToolUp(x, t) = x /\ x \in FeedSet
    BY <1>1 DEF ToolUp, Agree
  <2> QED
    BY <2>1 DEF OnePen
<1>2. CASE x.m.down[t]
  <2>1. PICK b \in BOOLEAN : b = FALSE
    OBVIOUS
  <2>2. PICK z : z = [x EXCEPT !.m.down[t] = b]
    OBVIOUS
  <2>3. PICK what \in {"near", "down"} : what = "near"
    OBVIOUS
  <2>4. ToolUp(x, t) = ToFocus(z, t, what)
    BY <1>2, <2>1, <2>2, <2>3 DEF ToolUp
  <2>5. what = "down" <=> b
    BY <2>1, <2>3
  <2> QED
    BY <2>2, <2>4, <2>5, TipIs
<1> QED
  BY <1>1, <1>2

LEMMA SameIs ==
    ASSUME NEW x, Agree(x), living \in SUBSET Sheets, NEW t \in Pens
    PROVE  Agree(ToFocus(x, t, "same"))
<1>1. PICK what \in Tellings : what = "same"
  BY DEF Tellings
<1>y. PICK y : y = ToFocus(x, t, what)
  OBVIOUS
<1>2. /\ x \in FeedSet /\ PenAgrees(x.w.pen[t], x.m.focus[t], x.m.over[t], x.m.down[t])
      /\ x.w.pen[t] \in [Sheets -> {"out", "near", "down"}]
  BY PenOf
<1>3. /\ OnePen(x, y, t) /\ y.m.over = x.m.over /\ y.m.down = x.m.down
      /\ y.m.focus[t] = IF x.m.focus[t] \in living THEN x.m.focus[t] ELSE Nothing
      /\ \A s \in Sheets : y.w.pen[t][s] = x.w.pen[t][s]
  <2>1. FocusTold(x, y, t, what)
    BY <1>y, <1>2, ToFocusIs
  <2> QED
    BY <1>1, <2>1 DEF FocusTold
<1>4. PenAgrees(y.w.pen[t], y.m.focus[t], y.m.over[t], y.m.down[t])
  BY <1>2, <1>3, FeedAssumption DEF PenAgrees
<1> QED
  BY <1>1, <1>y, <1>3, <1>4, OnePenAgrees

\* A pen that leaves is nowhere, and every client knows.
LEMMA ProximityOutIs ==
    ASSUME NEW x, Agree(x), living \in SUBSET Sheets, NEW t \in Pens
    PROVE  /\ Agree(ProximityOut(x, t)) /\ OnePen(x, ProximityOut(x, t), t)
           /\ ProximityOut(x, t).m.focus[t] = Nothing
<1>e. PICK e : e = ProximityOut(x, t)
  OBVIOUS
<1>1. CASE x.m.focus[t] = Nothing
  <2>1. e = x /\ x \in FeedSet
    BY <1>e, <1>1 DEF ProximityOut, Agree
  <2> QED
    BY <1>e, <1>1, <2>1 DEF OnePen
<1>2. CASE x.m.focus[t] # Nothing
  <2>u. PICK u : u = ToolUp(x, t)
    OBVIOUS
  <2>1. Agree(u) /\ OnePen(x, u, t)
    BY <2>u, ToolUpIs
  <2>w. PICK what \in Tellings : what = "out"
    BY DEF Tellings
  <2>y. PICK y : y = ToFocus(u, t, what)
    OBVIOUS
  <2>2. /\ u \in FeedSet /\ PenAgrees(u.w.pen[t], u.m.focus[t], u.m.over[t], u.m.down[t])
        /\ u.w.pen[t] \in [Sheets -> {"out", "near", "down"}]
    BY <2>1, PenOf
  <2>3. /\ OnePen(u, y, t) /\ y.m.over = u.m.over /\ y.m.down = u.m.down
        /\ \A s \in Sheets : y.w.pen[t][s] =
               IF u.m.focus[t] = s /\ s \in living THEN "out" ELSE u.w.pen[t][s]
    <3>1. FocusTold(u, y, t, what)
      BY <2>y, <2>2, ToFocusIs
    <3> QED
      BY <2>w, <3>1 DEF FocusTold
  <2>4. \A s \in Sheets : y.w.pen[t][s] = "out"
    BY <2>2, <2>3 DEF PenAgrees
  <2>5. e = [y EXCEPT !.m.focus[t] = Nothing, !.m.over[t] = Nothing]
    BY <1>e, <1>2, <2>u, <2>w, <2>y DEF ProximityOut
  <2>6. y \in FeedSet /\ y.m \in Managers
    BY <2>3 DEF OnePen, FeedSet
  <2>7. /\ e \in FeedSet /\ e.w = y.w /\ e.m.down = y.m.down /\ e.m.pad = y.m.pad
        /\ e.m.focus = [y.m.focus EXCEPT ![t] = Nothing]
        /\ e.m.over = [y.m.over EXCEPT ![t] = Nothing]
    BY <2>5, <2>6 DEF FeedSet, Managers
  <2>8. /\ e.m.focus[t] = Nothing
        /\ \A v \in Pens \ {t} : e.m.focus[v] = y.m.focus[v] /\ e.m.over[v] = y.m.over[v]
    BY <2>6, <2>7 DEF Managers
  <2>9. OnePen(y, e, t)
    BY <2>7, <2>8 DEF OnePen
  <2>10. OnePen(x, e, t)
    BY <2>1, <2>3, <2>9, OnePenAfter
  <2>11. PenAgrees(e.w.pen[t], e.m.focus[t], e.m.over[t], e.m.down[t])
    <3>1. Nothing \notin living
      BY FeedAssumption
    <3> QED
      BY <2>4, <2>7, <2>8, <3>1 DEF PenAgrees
  <2> QED
    BY <1>e, <2>8, <2>10, <2>11, OnePenAgrees
<1> QED
  BY <1>1, <1>2

LEMMA ProximityInIs ==
    ASSUME NEW x, Agree(x), living \in SUBSET Sheets, NEW t \in Pens, NEW d \in Tablets,
           NEW s \in Sheets
    PROVE  Agree(ProximityIn(x, t, d, s))
<1>e. PICK e : e = ProximityIn(x, t, d, s)
  OBVIOUS
<1>y. PICK y : y = ProximityOut(x, t)
  OBVIOUS
<1>1. Agree(y) /\ y.m.focus[t] = Nothing
  BY <1>y, ProximityOutIs
<1>2. CASE e = x \/ e = y
  BY <1>e, <1>1, <1>2
<1>3. CASE ~(e = x \/ e = y)
  <2>1. /\ plugged[d] = "in" /\ s \in living
        /\ e = [y EXCEPT !.m.focus[t] = s, !.m.over[t] = d, !.w.pen[t][s] = "near"]
    BY <1>e, <1>y, <1>3 DEF ProximityIn
  <2>2. /\ y \in FeedSet /\ y.m \in Managers /\ y.w \in Notices
        /\ PenAgrees(y.w.pen[t], y.m.focus[t], y.m.over[t], y.m.down[t])
        /\ y.w.pen[t] \in [Sheets -> {"out", "near", "down"}]
    BY <1>1, PenOf
  <2>3. \A k \in Sheets : y.w.pen[t][k] = "out"
    BY <1>1, <2>2, FeedAssumption DEF PenAgrees
  <2>f. PICK f : f = [y.m.focus EXCEPT ![t] = s]
    OBVIOUS
  <2>o. PICK o : o = [y.m.over EXCEPT ![t] = d]
    OBVIOUS
  <2>p. PICK p : p = [y.w.pen EXCEPT ![t] = [y.w.pen[t] EXCEPT ![s] = "near"]]
    OBVIOUS
  <2>4. /\ e = [m |-> [focus |-> f, over |-> o, down |-> y.m.down, pad |-> y.m.pad],
                w |-> [pen |-> p, pad |-> y.w.pad, mode |-> y.w.mode]]
    BY <2>1, <2>2, <2>f, <2>o, <2>p DEF FeedSet, Managers, Notices
  <2>5. /\ e.m \in Managers /\ e.m.focus = [y.m.focus EXCEPT ![t] = s]
        /\ e.m.over = [y.m.over EXCEPT ![t] = d] /\ e.m.down = y.m.down /\ e.m.pad = y.m.pad
    <3>1. f \in [Pens -> Sheets \cup {Nothing}] /\ o \in [Pens -> Tablets \cup {Nothing}]
      BY <2>2, <2>f, <2>o DEF Managers
    <3>2. e.m = [focus |-> f, over |-> o, down |-> y.m.down, pad |-> y.m.pad]
      BY <2>4
    <3>3. y.m.down \in [Pens -> BOOLEAN] /\ y.m.pad \in [Pads -> Sheets \cup {Nothing}]
      BY <2>2 DEF Managers
    <3>4. e.m \in Managers
      BY <3>1, <3>2, <3>3 DEF Managers
    <3> QED
      BY <3>2, <3>4, <2>f, <2>o
  <2>6. /\ e.w \in Notices /\ e.w.pad = y.w.pad /\ e.w.mode = y.w.mode
        /\ e.w.pen = [y.w.pen EXCEPT ![t] = [y.w.pen[t] EXCEPT ![s] = "near"]]
    <3>1. p \in [Pens -> [Sheets -> {"out", "near", "down"}]]
      BY <2>2, <2>p DEF Notices
    <3>2. e.w = [pen |-> p, pad |-> y.w.pad, mode |-> y.w.mode]
      BY <2>4
    <3>3. y.w.pad \in [Pads -> Sheets \cup {Nothing}] /\ y.w.mode \in [Pads -> Modes \cup {Nothing}]
      BY <2>2 DEF Notices
    <3>4. e.w \in Notices
      BY <3>1, <3>2, <3>3 DEF Notices
    <3> QED
      BY <3>2, <3>4, <2>p
  <2>7. e \in FeedSet
    BY <2>4, <2>5, <2>6 DEF FeedSet
  <2>8. /\ e.m.focus[t] = s /\ e.m.over[t] = d
        /\ \A v \in Pens \ {t} : e.m.focus[v] = y.m.focus[v] /\ e.m.over[v] = y.m.over[v]
    BY <2>2, <2>5 DEF Managers
  <2>9. /\ e.w.pen[t] = [y.w.pen[t] EXCEPT ![s] = "near"]
        /\ \A v \in Pens \ {t} : e.w.pen[v] = y.w.pen[v]
    BY <2>2, <2>6 DEF Notices
  <2>10. OnePen(y, e, t)
    BY <2>5, <2>6, <2>7, <2>8, <2>9 DEF OnePen
  <2>11. \A k \in Sheets : e.w.pen[t][k] = IF k = s THEN "near" ELSE "out"
    BY <2>2, <2>3, <2>9
  <2>12. PenAgrees(e.w.pen[t], e.m.focus[t], e.m.over[t], e.m.down[t])
    <3>1. \A k \in Sheets : e.w.pen[t][k] # "out" => k \in living /\ e.m.focus[t] = k
      BY <2>1, <2>8, <2>11
    <3>2. /\ e.m.focus[t] \in living
          /\ e.w.pen[t][e.m.focus[t]] # "out" /\ e.m.over[t] \in Tablets /\ plugged[e.m.over[t]] = "in"
      BY <2>1, <2>8, <2>11
    <3>3. \A k \in Sheets : e.w.pen[t][k] # "down"
      BY <2>11
    <3> QED
      BY <3>1, <3>2, <3>3 DEF PenAgrees
  <2> QED
    BY <1>e, <1>1, <2>10, <2>12, OnePenAgrees
<1> QED
  BY <1>2, <1>3

\* A call about pads: the pens are as they were.
PensStay(x, y) ==
    /\ y \in FeedSet /\ y.m.focus = x.m.focus /\ y.m.over = x.m.over
    /\ y.m.down = x.m.down /\ y.w.pen = x.w.pen

LEMMA PensStayAgrees ==
    ASSUME NEW x, NEW y, Agree(x), PensStay(x, y), PadsAgree(y)
    PROVE  Agree(y)
<1>1. PensAgree(y)
  BY DEF Agree, PensAgree, PensStay
<1> QED
  BY <1>1 DEF Agree, PensStay

LEMMA PadOf ==
    ASSUME NEW x, Agree(x), NEW p \in Pads
    PROVE  /\ x \in FeedSet /\ x.m \in Managers /\ x.w \in Notices
           /\ PadAgrees(x.w.pad[p], x.w.mode[p], x.m.pad[p], modes[p])
           /\ x.m.pad \in [Pads -> Sheets \cup {Nothing}]
           /\ x.w.pad \in [Pads -> Sheets \cup {Nothing}]
           /\ x.w.mode \in [Pads -> Modes \cup {Nothing}]
  BY DEF Agree, PadsAgree, FeedSet, Managers, Notices

\* One pad goes somewhere, with what is told of it.
OnePad(x, y, p, s, on, mode) ==
    /\ y.m = [focus |-> x.m.focus, over |-> x.m.over, down |-> x.m.down,
              pad |-> [x.m.pad EXCEPT ![p] = s]]
    /\ y.w = [pen |-> x.w.pen, pad |-> [x.w.pad EXCEPT ![p] = on],
              mode |-> [x.w.mode EXCEPT ![p] = mode]]
    /\ y = [m |-> y.m, w |-> y.w]

LEMMA OnePadIs ==
    ASSUME NEW x, Agree(x), NEW p \in Pads, NEW s \in Sheets \cup {Nothing},
           NEW on \in Sheets \cup {Nothing}, NEW mode \in Modes \cup {Nothing},
           PadAgrees(on, mode, s, modes[p]),
           NEW y, OnePad(x, y, p, s, on, mode)
    PROVE  /\ Agree(y) /\ y.m.pad[p] = s /\ y.w.pad[p] = on /\ y.w.mode[p] = mode
<1>1. /\ x \in FeedSet /\ x.m \in Managers /\ x.w \in Notices
      /\ x.m.pad \in [Pads -> Sheets \cup {Nothing}]
      /\ x.w.pad \in [Pads -> Sheets \cup {Nothing}]
      /\ x.w.mode \in [Pads -> Modes \cup {Nothing}]
  BY PadOf
<1>f. PICK f : f = [x.m.pad EXCEPT ![p] = s]
  OBVIOUS
<1>g. PICK g : g = [x.w.pad EXCEPT ![p] = on]
  OBVIOUS
<1>h. PICK h : h = [x.w.mode EXCEPT ![p] = mode]
  OBVIOUS
<1>2. /\ y.m = [focus |-> x.m.focus, over |-> x.m.over, down |-> x.m.down, pad |-> f]
      /\ y.w = [pen |-> x.w.pen, pad |-> g, mode |-> h]
      /\ y = [m |-> y.m, w |-> y.w]
  BY <1>f, <1>g, <1>h DEF OnePad
<1>3. /\ f \in [Pads -> Sheets \cup {Nothing}] /\ g \in [Pads -> Sheets \cup {Nothing}]
      /\ h \in [Pads -> Modes \cup {Nothing}]
  BY <1>1, <1>f, <1>g, <1>h
<1>4. /\ x.m.focus \in [Pens -> Sheets \cup {Nothing}]
      /\ x.m.over \in [Pens -> Tablets \cup {Nothing}]
      /\ x.m.down \in [Pens -> BOOLEAN]
      /\ x.w.pen \in [Pens -> [Sheets -> {"out", "near", "down"}]]
  BY <1>1 DEF Managers, Notices
<1>5. y.m \in Managers
  <2>1. y.m = [focus |-> x.m.focus, over |-> x.m.over, down |-> x.m.down, pad |-> f]
    BY <1>2
  <2> QED
    BY <1>3, <1>4, <2>1 DEF Managers
<1>6. y.w \in Notices
  <2>1. y.w = [pen |-> x.w.pen, pad |-> g, mode |-> h]
    BY <1>2
  <2> QED
    BY <1>3, <1>4, <2>1 DEF Notices
<1>7. PensStay(x, y)
  <2>2. y \in FeedSet
    BY <1>2, <1>5, <1>6 DEF FeedSet
  <2> QED
    BY <1>2, <2>2 DEF PensStay
<1>8. y.m.pad = f /\ y.w.pad = g /\ y.w.mode = h
  BY <1>2
<1>9. f[p] = s /\ g[p] = on /\ h[p] = mode
  BY <1>1, <1>f, <1>g, <1>h
<1>10. ASSUME NEW q \in Pads
       PROVE  PadAgrees(y.w.pad[q], y.w.mode[q], y.m.pad[q], modes[q])
  <2>1. CASE q = p
    BY <1>8, <1>9, <2>1
  <2>2. CASE q # p
    <3>1. f[q] = x.m.pad[q] /\ g[q] = x.w.pad[q] /\ h[q] = x.w.mode[q]
      BY <1>1, <1>f, <1>g, <1>h, <2>2
    <3>2. PadAgrees(x.w.pad[q], x.w.mode[q], x.m.pad[q], modes[q])
      BY DEF Agree, PadsAgree
    <3> QED
      BY <1>8, <3>1, <3>2
  <2> QED
    BY <2>1, <2>2
<1>11. Agree(y)
  BY <1>7, <1>10, PensStayAgrees DEF PadsAgree
<1> QED
  BY <1>8, <1>9, <1>11

LEMMA PadLeaveIs ==
    ASSUME NEW x, Agree(x), NEW p \in Pads
    PROVE  /\ Agree(PadLeave(x, p)) /\ PadLeave(x, p).m.pad[p] = Nothing
           /\ PadLeave(x, p).w.pad[p] = Nothing /\ PadLeave(x, p).w.mode[p] = Nothing
<1>y. PICK y : y = PadLeave(x, p)
  OBVIOUS
<1>1. /\ x \in FeedSet /\ PadAgrees(x.w.pad[p], x.w.mode[p], x.m.pad[p], modes[p])
  BY PadOf
<1>2. x.m.pad[p] = Nothing => x.w.pad[p] = Nothing /\ x.w.mode[p] = Nothing
  BY <1>1 DEF PadAgrees
<1>3. y = [x EXCEPT !.m.pad[p] = Nothing, !.w.pad[p] = Nothing, !.w.mode[p] = Nothing]
  BY <1>y, <1>2 DEF PadLeave
<1>5. PadAgrees(Nothing, Nothing, Nothing, modes[p])
  BY DEF PadAgrees
<1>6. PICK no : no = Nothing
  OBVIOUS
<1>7. OnePad(x, y, p, no, no, no)
  BY <1>1, <1>3, <1>6, PadOf DEF OnePad, FeedSet, Managers, Notices
<1>8. PadAgrees(no, no, no, modes[p]) 
        /\ no \in Sheets \cup {Nothing} /\ no \in Modes \cup {Nothing}
  BY <1>5, <1>6
<1>9. Agree(y) /\ y.m.pad[p] = no /\ y.w.pad[p] = no /\ y.w.mode[p] = no
  BY <1>7, <1>8, OnePadIs
<1> QED
  BY <1>y, <1>6, <1>9

LEMMA PadEnterIs ==
    ASSUME NEW x, Agree(x), NEW p \in Pads, NEW d \in Tablets, NEW s \in Sheets
    PROVE  Agree(PadEnter(x, p, d, s))
<1>y. PICK y : y = PadEnter(x, p, d, s)
  OBVIOUS
<1>l. PICK l : l = PadLeave(x, p)
  OBVIOUS
<1>1. Agree(l) /\ l.m.pad[p] = Nothing /\ l.w.pad[p] = Nothing /\ l.w.mode[p] = Nothing
  BY <1>l, PadLeaveIs
<1>2. CASE y = x \/ y = l
  BY <1>y, <1>1, <1>2
<1>3. CASE ~(y = x \/ y = l)
  <2>1. s \in living /\ y = [l EXCEPT !.m.pad[p] = s, !.w.pad[p] = s]
    BY <1>y, <1>l, <1>3 DEF PadEnter
  <2>m. PICK no \in Modes \cup {Nothing} : no = Nothing
    OBVIOUS
  <2>2. l \in FeedSet /\ l.w \in Notices /\ l.w.mode \in [Pads -> Modes \cup {Nothing}]
    BY <1>1, PadOf
  <2>3. [l.w.mode EXCEPT ![p] = no] = l.w.mode
    BY <1>1, <2>2, <2>m
  <2>4. OnePad(l, y, p, s, s, no)
    BY <2>1, <2>2, <2>3 DEF OnePad, FeedSet, Managers, Notices
  <2>5. PadAgrees(s, no, s, modes[p])
    BY <2>1, <2>m DEF PadAgrees
  <2> QED
    BY <1>y, <1>1, <2>4, <2>5, OnePadIs
<1> QED
  BY <1>2, <1>3

LEMMA ToPadIs ==
    ASSUME NEW x, Agree(x), NEW p \in Pads
    PROVE  Agree(ToPad(x, p)) /\ ToPad(x, p).m.pad[p] \in living \cup {Nothing}
<1>y. PICK y : y = ToPad(x, p)
  OBVIOUS
<1>1. CASE x.m.pad[p] \in living
  BY <1>1 DEF ToPad
<1>2. CASE x.m.pad[p] \notin living
  <2>1. y = [x EXCEPT !.m.pad[p] = Nothing]
    BY <1>y, <1>2 DEF ToPad
  <2>2. /\ x \in FeedSet /\ x.w \in Notices
        /\ PadAgrees(x.w.pad[p], x.w.mode[p], x.m.pad[p], modes[p])
        /\ x.w.pad \in [Pads -> Sheets \cup {Nothing}]
        /\ x.w.mode \in [Pads -> Modes \cup {Nothing}]
    BY PadOf
  <2>3. x.w.pad[p] = Nothing /\ x.w.mode[p] = Nothing
    BY <1>2, <2>2 DEF PadAgrees
  <2>m. PICK no : no = Nothing
    OBVIOUS
  <2>4. [x.w.mode EXCEPT ![p] = no] = x.w.mode /\ [x.w.pad EXCEPT ![p] = no] = x.w.pad
    BY <2>2, <2>3, <2>m
  <2>5. OnePad(x, y, p, no, no, no)
    BY <2>1, <2>2, <2>4, <2>m DEF OnePad, FeedSet, Managers, Notices
  <2>6. PadAgrees(no, no, no, modes[p]) 
        /\ no \in Sheets \cup {Nothing} /\ no \in Modes \cup {Nothing}
    BY <2>m DEF PadAgrees
  <2>7. Agree(y) /\ y.m.pad[p] = no
    BY <2>5, <2>6, OnePadIs
  <2> QED
    BY <1>y, <2>7, <2>m
<1> QED
  BY <1>1, <1>2

\* All pads follow the pens.
LEMMA SyncPadsIs ==
    ASSUME NEW x, Agree(x), NEW first \in Pens, NEW d \in Tablets
    PROVE  Agree(SyncPads(x, first, d)) /\ PensStay(x, SyncPads(x, first, d))
<1>y. PICK y : y = SyncPads(x, first, d)
  OBVIOUS
<1>o. PICK focused : focused = {t \in Pens : x.m.focus[t] # Nothing}
  OBVIOUS
<1> DEFINE any == CHOOSE t \in focused : TRUE
<1>a. focused # {} => any \in focused
  OBVIOUS
<1> HIDE DEF any
<1>s. PICK s : s = IF first \in focused THEN x.m.focus[first] ELSE x.m.focus[any]
  OBVIOUS
<1>e. PICK each : each = [p \in Pads |-> IF plugged[p] # "in" THEN x
                                         ELSE IF focused = {} THEN PadLeave(x, p)
                                         ELSE PadEnter(x, p, d, s)]
  OBVIOUS
<1>1. x \in FeedSet /\ x.m \in Managers /\ x.w \in Notices
  BY DEF Agree, FeedSet
<1>2. focused # {} => s \in Sheets
  <2>1. SUFFICES ASSUME focused # {} PROVE s \in Sheets
    OBVIOUS
  <2>3. \E t \in focused : s = x.m.focus[t]
    BY <1>a, <1>s, <2>1
  <2>4. x.m.focus \in [Pens -> Sheets \cup {Nothing}]
    BY <1>1 DEF Managers
  <2> QED
    BY <1>o, <2>3, <2>4
<1>3. ASSUME NEW p \in Pads PROVE Agree(each[p])
  <2>1. each[p] = IF plugged[p] # "in" THEN x
                  ELSE IF focused = {} THEN PadLeave(x, p) ELSE PadEnter(x, p, d, s)
    BY <1>e
  <2>2. CASE plugged[p] # "in"
    BY <2>1, <2>2
  <2>3. CASE plugged[p] = "in" /\ focused = {}
    BY <2>1, <2>3, PadLeaveIs
  <2>4. CASE plugged[p] = "in" /\ focused # {}
    BY <1>2, <2>1, <2>4, PadEnterIs
  <2> QED
    BY <2>2, <2>3, <2>4
<1>f. PICK f : f = [p \in Pads |-> each[p].m.pad[p]]
  OBVIOUS
<1>g. PICK g : g = [p \in Pads |-> each[p].w.pad[p]]
  OBVIOUS
<1>h. PICK h : h = [p \in Pads |-> each[p].w.mode[p]]
  OBVIOUS
<1>4. ASSUME NEW p \in Pads
      PROVE  /\ each[p].m.pad[p] \in Sheets \cup {Nothing}
             /\ each[p].w.pad[p] \in Sheets \cup {Nothing}
             /\ each[p].w.mode[p] \in Modes \cup {Nothing}
             /\ PadAgrees(each[p].w.pad[p], each[p].w.mode[p], each[p].m.pad[p], modes[p])
  <2>q. PICK q : q = each[p]
    OBVIOUS
  <2>1. Agree(q)
    BY <1>3, <2>q
  <2>2. /\ PadAgrees(q.w.pad[p], q.w.mode[p], q.m.pad[p], modes[p])
        /\ q.m.pad \in [Pads -> Sheets \cup {Nothing}]
        /\ q.w.pad \in [Pads -> Sheets \cup {Nothing}]
        /\ q.w.mode \in [Pads -> Modes \cup {Nothing}]
    BY <2>1, PadOf
  <2> QED
    BY <2>q, <2>2
<1>5. /\ f \in [Pads -> Sheets \cup {Nothing}] /\ g \in [Pads -> Sheets \cup {Nothing}]
      /\ h \in [Pads -> Modes \cup {Nothing}]
      /\ \A p \in Pads : PadAgrees(g[p], h[p], f[p], modes[p])
  BY <1>4, <1>f, <1>g, <1>h
<1>6. y = [m |-> [x.m EXCEPT !.pad = f], w |-> [x.w EXCEPT !.pad = g, !.mode = h]]
  BY <1>y, <1>o, <1>s, <1>e, <1>f, <1>g, <1>h DEF SyncPads, any
<1>7. y.m = [focus |-> x.m.focus, over |-> x.m.over, down |-> x.m.down, pad |-> f]
  BY <1>1, <1>6 DEF Managers
<1>8. y.w = [pen |-> x.w.pen, pad |-> g, mode |-> h]
  BY <1>1, <1>6 DEF Notices
<1>9. y.m \in Managers /\ y.m.pad = f
  BY <1>1, <1>5, <1>7 DEF Managers
<1>10. y.w \in Notices /\ y.w.pad = g /\ y.w.mode = h
  BY <1>1, <1>5, <1>8 DEF Notices
<1>11. y \in FeedSet
  BY <1>6, <1>9, <1>10 DEF FeedSet
<1>12. PensStay(x, y)
  BY <1>7, <1>8, <1>11 DEF PensStay
<1>13. PadsAgree(y)
  BY <1>5, <1>9, <1>10 DEF PadsAgree
<1> QED
  BY <1>y, <1>12, <1>13, PensStayAgrees

\* A pen crosses to whatever lies under it, and the axes follow it there.
LEMMA RetargetIs ==
    ASSUME NEW x, Agree(x), living \in SUBSET Sheets, NEW t \in Pens, NEW first \in Pens,
           NEW d \in Tablets, NEW s \in Sheets \cup {Nothing}
    PROVE  Agree(Retarget(x, t, d, s, first))
<1>y. PICK y : y = Retarget(x, t, d, s, first)
  OBVIOUS
<1>1. CASE y = x
  BY <1>y, <1>1
<1>2. CASE y # x /\ s = Nothing
  <2>o. PICK o : o = ProximityOut(x, t)
    OBVIOUS
  <2>1. Agree(o) /\ y = SyncPads(o, first, d)
    BY <1>y, <1>2, <2>o, ProximityOutIs DEF Retarget
  <2> QED
    BY <1>y, <2>1, SyncPadsIs
<1>3. CASE y # x /\ s # Nothing
  <2>o. PICK o : o = ProximityIn(x, t, d, s)
    OBVIOUS
  <2>1. s \in Sheets
    BY <1>3
  <2>2. Agree(o)
    BY <2>1, <2>o, ProximityInIs
  <2>3. y = SyncPads(o, first, d)
    BY <1>y, <1>3, <2>o DEF Retarget
  <2> QED
    BY <1>y, <2>2, <2>3, SyncPadsIs
<1> QED
  BY <1>1, <1>2, <1>3

LEMMA SendAxesIs ==
    ASSUME NEW x, Agree(x), living \in SUBSET Sheets, NEW t \in Pens, NEW s
    PROVE  Agree(SendAxes(x, t, s))
  BY SameIs DEF SendAxes

\* The pens over tablet d leave: none is left over it.
LEMMA LeaveTabletIs ==
    ASSUME NEW x, Agree(x), living \in SUBSET Sheets, NEW d \in Tablets
    PROVE  /\ Agree(LeaveTablet(x, d))
           /\ \A t \in Pens : LeaveTablet(x, d).m.focus[t] \in living
                                  => LeaveTablet(x, d).m.over[t] # d
<1>y. PICK y : y = LeaveTablet(x, d)
  OBVIOUS
<1>l. PICK leaving : leaving = {t \in Pens : x.m.over[t] = d /\ x.m.focus[t] # Nothing}
  OBVIOUS
<1>e. PICK each : each = [t \in Pens |-> IF t \in leaving THEN ProximityOut(x, t) ELSE x]
  OBVIOUS
<1>1. x \in FeedSet /\ x.m \in Managers /\ x.w \in Notices
  BY DEF Agree, FeedSet
<1>2. ASSUME NEW t \in Pens
      PROVE  /\ Agree(each[t])
             /\ each[t].m.focus[t] \in living => each[t].m.over[t] # d
  <2>0. Nothing \notin living
    BY FeedAssumption
  <2>1. CASE t \in leaving
    <3>o. PICK o : o = ProximityOut(x, t)
      OBVIOUS
    <3>1. Agree(o) /\ o.m.focus[t] = Nothing
      BY <3>o, ProximityOutIs
    <3>2. each[t] = o
      BY <1>e, <2>1, <3>o
    <3> QED
      BY <2>0, <3>1, <3>2
  <2>2. CASE t \notin leaving
    <3>1. each[t] = x
      BY <1>e, <2>2
    <3> QED
      BY <1>l, <2>0, <2>2, <3>1
  <2> QED
    BY <2>1, <2>2
<1>f. PICK f : f = [t \in Pens |-> each[t].m.focus[t]]
  OBVIOUS
<1>o. PICK o : o = [t \in Pens |-> each[t].m.over[t]]
  OBVIOUS
<1>g. PICK g : g = [t \in Pens |-> each[t].m.down[t]]
  OBVIOUS
<1>h. PICK h : h = [t \in Pens |-> each[t].w.pen[t]]
  OBVIOUS
<1>3. ASSUME NEW t \in Pens
      PROVE  /\ PenAgrees(each[t].w.pen[t], each[t].m.focus[t], each[t].m.over[t],
                          each[t].m.down[t])
             /\ each[t].w.pen[t] \in [Sheets -> {"out", "near", "down"}]
             /\ each[t].m.focus[t] \in Sheets \cup {Nothing}
             /\ each[t].m.over[t] \in Tablets \cup {Nothing}
             /\ each[t].m.down[t] \in BOOLEAN
  <2>q. PICK q : q = each[t]
    OBVIOUS
  <2>1. Agree(q)
    BY <1>2, <2>q
  <2>2. /\ PenAgrees(q.w.pen[t], q.m.focus[t], q.m.over[t], q.m.down[t])
        /\ q.w.pen[t] \in [Sheets -> {"out", "near", "down"}]
        /\ q.m.focus[t] \in Sheets \cup {Nothing}
        /\ q.m.over[t] \in Tablets \cup {Nothing} /\ q.m.down[t] \in BOOLEAN
    BY <2>1, PenOf
  <2> QED
    BY <2>q, <2>2
<1>4. /\ f \in [Pens -> Sheets \cup {Nothing}] /\ o \in [Pens -> Tablets \cup {Nothing}]
      /\ h \in [Pens -> [Sheets -> {"out", "near", "down"}]]
  BY <1>3, <1>f, <1>o, <1>h
<1>5. g \in [Pens -> BOOLEAN]
  BY <1>3, <1>g
<1>6. \A t \in Pens : PenAgrees(h[t], f[t], o[t], g[t])
  <2> TAKE t \in Pens
  <2>1. f[t] = each[t].m.focus[t] /\ o[t] = each[t].m.over[t] /\ h[t] = each[t].w.pen[t]
    BY <1>f, <1>o, <1>h
  <2>2. g[t] = each[t].m.down[t]
    BY <1>g
  <2> QED
    BY <1>3, <2>1, <2>2
<1>7. \A t \in Pens : f[t] \in living => o[t] # d
  BY <1>2, <1>f, <1>o
<1>8. y = [m |-> [x.m EXCEPT !.focus = f, !.over = o, !.down = g], w |-> [x.w EXCEPT !.pen = h]]
  BY <1>y, <1>l, <1>e, <1>f, <1>o, <1>g, <1>h DEF LeaveTablet
<1>9. y.m = [focus |-> f, over |-> o, down |-> g, pad |-> x.m.pad]
  BY <1>1, <1>8 DEF Managers
<1>10. y.w = [pen |-> h, pad |-> x.w.pad, mode |-> x.w.mode]
  BY <1>1, <1>8 DEF Notices
<1>11. y.m \in Managers
  <2>1. x.m.pad \in [Pads -> Sheets \cup {Nothing}]
    BY <1>1 DEF Managers
  <2> QED
    BY <1>4, <1>5, <1>9, <2>1 DEF Managers
<1>12. y.w \in Notices
  <2>1. x.w.pad \in [Pads -> Sheets \cup {Nothing}] /\ x.w.mode \in [Pads -> Modes \cup {Nothing}]
    BY <1>1 DEF Notices
  <2> QED
    BY <1>4, <1>10, <2>1 DEF Notices
<1>13. y \in FeedSet
  BY <1>8, <1>11, <1>12 DEF FeedSet
<1>14. PensAgree(y)
  BY <1>6, <1>9, <1>10 DEF PensAgree
<1>15. PadsAgree(y)
  <2>1. y.m.pad = x.m.pad /\ y.w.pad = x.w.pad /\ y.w.mode = x.w.mode
    BY <1>9, <1>10
  <2> QED
    BY <2>1 DEF Agree, PadsAgree
<1>16. Agree(y) /\ y.m.focus = f /\ y.m.over = o
  BY <1>9, <1>13, <1>14, <1>15 DEF Agree
<1> QED
  BY <1>y, <1>7, <1>16

-----------------------------------------------------------------------------
(* The steps. *)

\* A call of the feed with the world as it was: what is agreed stays agreed.
LEMMA CallKeeps ==
    ASSUME FeedInv, NEW x, Agree(x), FeedBecomes(x), UNCHANGED <<plugged, living, modes>>,
           seated' \in SUBSET Sheets,
           pen' \in [Pens -> [tablet : Tablets \cup {Nothing}, in_range : BOOLEAN,
                              down : BOOLEAN]],
           \A t \in Pens : pen'[t].in_range => pen'[t].tablet \in Tablets
    PROVE  FeedInv'
<1>1. x.m \in Managers /\ x.w \in Notices /\ manager' = x.m /\ penTold' = x.w
  BY DEF Agree, FeedSet, FeedBecomes
<1>2. FeedTypeOK'
  BY <1>1, FeedFacts DEF FeedTypeOK, Managers, Notices
<1>3. Now' = [m |-> x.m, w |-> x.w]
  BY <1>1 DEF Now
<1>4. PensAgree(Now)'
  <2>1. \A t \in Pens : PenAgrees(x.w.pen[t], x.m.focus[t], x.m.over[t], x.m.down[t])
    BY DEF Agree, PensAgree
  <2> QED
    BY <1>3, <2>1 DEF PensAgree, PenAgrees
<1>5. PadsAgree(Now)'
  <2>1. \A p \in Pads : PadAgrees(x.w.pad[p], x.w.mode[p], x.m.pad[p], modes[p])
    BY DEF Agree, PadsAgree
  <2> QED
    BY <1>3, <2>1 DEF PadsAgree, PadAgrees
<1> QED
  BY <1>2, <1>4, <1>5 DEF FeedInv

LEMMA TypedPen ==
    ASSUME FeedInv, NEW t \in Pens
    PROVE  /\ pen[t] \in [tablet : Tablets \cup {Nothing}, in_range : BOOLEAN, down : BOOLEAN]
           /\ pen[t].in_range => pen[t].tablet \in Tablets
  BY FeedFacts DEF FeedInv

LEMMA PenEdits ==
    ASSUME NEW q \in [tablet : Tablets \cup {Nothing}, in_range : BOOLEAN, down : BOOLEAN],
           NEW d \in Tablets, NEW b \in BOOLEAN
    PROVE  /\ [q EXCEPT !.down = b]
                  \in [tablet : Tablets \cup {Nothing}, in_range : BOOLEAN, down : BOOLEAN]
           /\ [q EXCEPT !.down = b].tablet = q.tablet
           /\ [q EXCEPT !.tablet = d, !.in_range = b]
                  \in [tablet : Tablets \cup {Nothing}, in_range : BOOLEAN, down : BOOLEAN]
           /\ [q EXCEPT !.tablet = d, !.in_range = b].tablet = d
  OBVIOUS

LEMMA PenInKeeps ==
    ASSUME FeedInv, NEW d \in Tablets, NEW t \in Pens, NEW s \in Sheets \cup {Nothing},
           NEW first \in Pens, PenIn(d, t, s, first)
    PROVE  FeedInv'
<1>n. PICK n : n = Now
  OBVIOUS
<1>y. PICK y : y = Retarget(n, t, d, s, first)
  OBVIOUS
<1>z. PICK z : z = SendAxes(y, t, s)
  OBVIOUS
<1>1. Agree(n) /\ living \in SUBSET Sheets
  BY <1>n, FeedFacts
<1>2. Agree(y)
  BY <1>y, <1>1, RetargetIs
<1>3. Agree(z)
  BY <1>z, <1>1, <1>2, SendAxesIs
<1>4. FeedBecomes(z) /\ UNCHANGED <<plugged, living, modes>> /\ UNCHANGED seated
  BY <1>n, <1>y, <1>z DEF PenIn
<1>5. seated' \in SUBSET Sheets
  BY <1>4, FeedFacts
<1>b. PICK b \in BOOLEAN : b = TRUE
  OBVIOUS
<1>p. PICK p : p = [pen[t] EXCEPT !.tablet = d, !.in_range = b]
  OBVIOUS
<1>6. pen' = [pen EXCEPT ![t] = p]
  BY <1>b, <1>p DEF PenIn
<1>7. p.tablet = d /\ p \in [tablet : Tablets \cup {Nothing}, in_range : BOOLEAN, down : BOOLEAN]
  <2>q. PICK q : q = pen[t]
    OBVIOUS
  <2>1. q \in [tablet : Tablets \cup {Nothing}, in_range : BOOLEAN, down : BOOLEAN]
    BY <2>q, TypedPen
  <2>2. /\ [q EXCEPT !.tablet = d, !.in_range = b]
               \in [tablet : Tablets \cup {Nothing}, in_range : BOOLEAN, down : BOOLEAN]
        /\ [q EXCEPT !.tablet = d, !.in_range = b].tablet = d
    BY <2>1, PenEdits
  <2>3. p = [q EXCEPT !.tablet = d, !.in_range = b]
    BY <1>p, <2>q
  <2> QED
    BY <2>2, <2>3
<1>8. pen' \in [Pens -> [tablet : Tablets \cup {Nothing}, in_range : BOOLEAN, down : BOOLEAN]]
  BY <1>6, <1>7, FeedFacts
<1>9. \A u \in Pens : pen'[u].in_range => pen'[u].tablet \in Tablets
  <2> TAKE u \in Pens
  <2>1. CASE u = t
    BY <1>6, <1>7, <2>1, FeedFacts
  <2>2. CASE u # t
    BY <1>6, <2>2, FeedFacts, TypedPen
  <2> QED
    BY <2>1, <2>2
<1> QED
  BY <1>3, <1>4, <1>5, <1>8, <1>9, CallKeeps

LEMMA PenOutKeeps ==
    ASSUME FeedInv, NEW d \in Tablets, NEW t \in Pens, NEW first \in Pens, PenOut(d, t, first)
    PROVE  FeedInv'
<1>n. PICK n : n = Now
  OBVIOUS
<1>x. PICK x : x = IF pen[t].down THEN ToolUp(n, t) ELSE n
  OBVIOUS
<1>o. PICK o : o = ProximityOut(x, t)
  OBVIOUS
<1>z. PICK z : z = IF x.m.focus[t] = Nothing THEN x ELSE SyncPads(o, first, d)
  OBVIOUS
<1>1. Agree(n) /\ living \in SUBSET Sheets
  BY <1>n, FeedFacts
<1>2. Agree(x)
  BY <1>x, <1>1, ToolUpIs
<1>3. Agree(o)
  BY <1>o, <1>1, <1>2, ProximityOutIs
<1>4. Agree(z)
  BY <1>z, <1>2, <1>3, SyncPadsIs
<1>5. FeedBecomes(z)
  BY <1>n, <1>x, <1>o, <1>z DEF PenOut
<1>6. UNCHANGED <<plugged, living, modes>> /\ seated' \in SUBSET Sheets
  BY FeedFacts DEF PenOut
<1>p. PICK p : p = [tablet |-> d, in_range |-> FALSE, down |-> FALSE]
  OBVIOUS
<1>7. pen' = [pen EXCEPT ![t] = p]
  BY <1>p DEF PenOut
<1>8. p \in [tablet : Tablets \cup {Nothing}, in_range : BOOLEAN, down : BOOLEAN]
  BY <1>p
<1>9. pen' \in [Pens -> [tablet : Tablets \cup {Nothing}, in_range : BOOLEAN, down : BOOLEAN]]
  BY <1>7, <1>8, FeedFacts
<1>10. \A u \in Pens : pen'[u].in_range => pen'[u].tablet \in Tablets
  <2> TAKE u \in Pens
  <2>1. CASE u = t
    BY <1>p, <1>7, <2>1, FeedFacts
  <2>2. CASE u # t
    BY <1>7, <2>2, FeedFacts, TypedPen
  <2> QED
    BY <2>1, <2>2
<1> QED
  BY <1>4, <1>5, <1>6, <1>9, <1>10, CallKeeps

LEMMA PenMovesKeeps ==
    ASSUME FeedInv, NEW t \in Pens, NEW s \in Sheets \cup {Nothing}, NEW first \in Pens,
           PenMoves(t, s, first)
    PROVE  FeedInv'
<1>n. PICK n : n = Now
  OBVIOUS
<1>d. PICK d : d = pen[t].tablet
  OBVIOUS
<1>y. PICK y : y = Retarget(n, t, d, s, first)
  OBVIOUS
<1>z. PICK z : z = SendAxes(y, t, s)
  OBVIOUS
<1>0. d \in Tablets
  BY <1>d, TypedPen DEF PenMoves
<1>1. Agree(n) /\ living \in SUBSET Sheets
  BY <1>n, FeedFacts
<1>2. Agree(y)
  BY <1>0, <1>y, <1>1, RetargetIs
<1>3. Agree(z)
  BY <1>z, <1>1, <1>2, SendAxesIs
<1>4. FeedBecomes(z)
  BY <1>n, <1>d, <1>y, <1>z DEF PenMoves
<1>5. UNCHANGED <<plugged, living, modes>> /\ UNCHANGED <<seated, pen>>
  BY DEF PenMoves
<1>6. seated' \in SUBSET Sheets /\ \A u \in Pens : pen'[u].in_range => pen'[u].tablet \in Tablets
  BY <1>5, FeedFacts, TypedPen
<1>7. pen' \in [Pens -> [tablet : Tablets \cup {Nothing}, in_range : BOOLEAN, down : BOOLEAN]]
  BY <1>5, FeedFacts
<1> QED
  BY <1>3, <1>4, <1>5, <1>6, <1>7, CallKeeps

LEMMA TipKeeps ==
    ASSUME FeedInv, NEW t \in Pens, NEW tip \in BOOLEAN, NEW s \in Sheets \cup {Nothing},
           NEW first \in Pens, Tip(t, tip, s, first)
    PROVE  FeedInv'
<1>n. PICK n : n = Now
  OBVIOUS
<1>d. PICK d : d = pen[t].tablet
  OBVIOUS
<1>r. PICK r : r = Retarget(n, t, d, s, first)
  OBVIOUS
<1>x. PICK x : x = SendAxes(r, t, s)
  OBVIOUS
<1>y. PICK y : y = CASE tip /\ ~pen[t].down -> ToolDown(x, t)
                     [] ~tip /\ pen[t].down -> ToolUp(x, t)
                     [] OTHER -> x
  OBVIOUS
<1>z. PICK z : z = IF s = Nothing THEN x ELSE ToFocus(y, t, "same")
  OBVIOUS
<1>0. d \in Tablets
  BY <1>d, TypedPen DEF Tip
<1>1. Agree(n) /\ living \in SUBSET Sheets
  BY <1>n, FeedFacts
<1>2. Agree(r)
  BY <1>0, <1>r, <1>1, RetargetIs
<1>3. Agree(x)
  BY <1>x, <1>1, <1>2, SendAxesIs
<1>4. Agree(y)
  <2>1. CASE tip /\ ~pen[t].down
    BY <1>y, <1>1, <1>3, <2>1, ToolDownIs
  <2>2. CASE ~tip /\ pen[t].down
    BY <1>y, <1>1, <1>3, <2>2, ToolUpIs
  <2>3. CASE ~(tip /\ ~pen[t].down) /\ ~(~tip /\ pen[t].down)
    BY <1>y, <1>3, <2>3
  <2> QED
    BY <2>1, <2>2, <2>3
<1>5. Agree(z)
  BY <1>z, <1>1, <1>3, <1>4, SameIs
<1>6. FeedBecomes(z)
  BY <1>n, <1>d, <1>r, <1>x, <1>y, <1>z DEF Tip
<1>7. UNCHANGED <<plugged, living, modes>> /\ seated' \in SUBSET Sheets
  BY FeedFacts DEF Tip
<1>p. PICK p : p = [pen[t] EXCEPT !.down = tip]
  OBVIOUS
<1>8. p.tablet = d /\ p \in [tablet : Tablets \cup {Nothing}, in_range : BOOLEAN, down : BOOLEAN]
  BY ZenonT(40), <1>0, <1>d, <1>p, TypedPen, PenEdits
<1>9. pen' = pen \/ pen' = [pen EXCEPT ![t] = p]
  BY <1>p DEF Tip
<1>10. pen' \in [Pens -> [tablet : Tablets \cup {Nothing}, in_range : BOOLEAN, down : BOOLEAN]]
  BY <1>8, <1>9, FeedFacts
<1>11. \A u \in Pens : pen'[u].in_range => pen'[u].tablet \in Tablets
  <2> TAKE u \in Pens
  <2>1. CASE pen'[u] = pen[u]
    BY <2>1, TypedPen
  <2>2. CASE pen'[u] = p
    BY <1>0, <1>8, <2>2
  <2> QED
    BY <1>9, <2>1, <2>2, FeedFacts
<1> QED
  BY <1>5, <1>6, <1>7, <1>10, <1>11, CallKeeps

LEMMA TellingKeeps ==
    ASSUME FeedInv,
           \/ \E t \in Pens : PenButton(t)
           \/ \E p \in Pads : PadTurns(p)
           \/ \E s \in Sheets : BindTablets(s)
    PROVE  FeedInv'
<1>n. PICK n : n = Now
  OBVIOUS
<1>1. Agree(n) /\ living \in SUBSET Sheets
  BY <1>n, FeedFacts
<1>2. PICK z : Agree(z) /\ FeedBecomes(z)
  <2>1. ASSUME NEW t \in Pens, PenButton(t) PROVE \E z : Agree(z) /\ FeedBecomes(z)
    <3>1. Agree(ToFocus(n, t, "same"))
      BY <1>1, SameIs
    <3>2. FeedBecomes(ToFocus(n, t, "same"))
      BY <1>n, <2>1 DEF PenButton
    <3> QED
      BY <3>1, <3>2
  <2>2. ASSUME NEW p \in Pads, PadTurns(p) PROVE \E z : Agree(z) /\ FeedBecomes(z)
    <3>1. Agree(ToPad(n, p))
      BY <1>1, ToPadIs
    <3>2. FeedBecomes(ToPad(n, p))
      BY <1>n, <2>2 DEF PadTurns
    <3> QED
      BY <3>1, <3>2
  <2>3. ASSUME NEW s \in Sheets, BindTablets(s) PROVE Agree(n) /\ FeedBecomes(n)
    BY <1>n, <1>1, <2>3, FeedFacts DEF BindTablets, FeedBecomes
  <2> QED
    BY <2>1, <2>2, <2>3
<1>3. UNCHANGED <<plugged, living, modes>> /\ UNCHANGED pen
  BY DEF PenButton, PadTurns, BindTablets
<1>4. seated' \in SUBSET Sheets
  BY FeedFacts DEF PenButton, PadTurns, BindTablets
<1>5. /\ \A u \in Pens : pen'[u].in_range => pen'[u].tablet \in Tablets
      /\ pen' \in [Pens -> [tablet : Tablets \cup {Nothing}, in_range : BOOLEAN, down : BOOLEAN]]
  BY <1>3, FeedFacts, TypedPen
<1> QED
  BY <1>2, <1>3, <1>4, <1>5, CallKeeps

\* Parts of FeedInv' from what a step leaves of them.
LEMMA WorldKeeps ==
    ASSUME FeedInv, NEW x, Agree(x), FeedBecomes(x), seated' \in SUBSET Sheets,
           living' = living, modes' \in [Pads -> Modes],
           plugged' \in [Devices -> {"never", "in", "gone"}],
           pen' \in [Pens -> [tablet : Tablets \cup {Nothing}, in_range : BOOLEAN,
                              down : BOOLEAN]],
           \A t \in Pens : pen'[t].in_range => pen'[t].tablet \in Tablets,
           \A t \in Pens : x.m.focus[t] \in living /\ plugged[x.m.over[t]] = "in"
                               => plugged'[x.m.over[t]] = "in",
           \A p \in Pads : modes'[p] = modes[p] \/ x.w.mode[p] \in {Nothing, modes'[p]}
    PROVE  FeedInv'
<1>1. x.m \in Managers /\ x.w \in Notices /\ manager' = x.m /\ penTold' = x.w
  BY DEF Agree, FeedSet, FeedBecomes
<1>2. FeedTypeOK'
  BY <1>1, FeedFacts DEF FeedTypeOK, Managers, Notices
<1>3. Now' = [m |-> x.m, w |-> x.w]
  BY <1>1 DEF Now
<1>4. PensAgree(Now)'
  <2>1. ASSUME NEW t \in Pens
        PROVE  PenAgrees(x.w.pen[t], x.m.focus[t], x.m.over[t], x.m.down[t])'
    <3>1. PenAgrees(x.w.pen[t], x.m.focus[t], x.m.over[t], x.m.down[t])
      BY DEF Agree, PensAgree
    <3>2. x.m.focus[t] \in living /\ plugged[x.m.over[t]] = "in" => plugged'[x.m.over[t]] = "in"
      OBVIOUS
    <3> QED
      BY <3>1, <3>2 DEF PenAgrees
  <2> QED
    BY <1>3, <2>1 DEF PensAgree
<1>5. PadsAgree(Now)'
  <2>1. ASSUME NEW p \in Pads
        PROVE  PadAgrees(x.w.pad[p], x.w.mode[p], x.m.pad[p], modes[p])'
    <3>1. PadAgrees(x.w.pad[p], x.w.mode[p], x.m.pad[p], modes[p])
      BY DEF Agree, PadsAgree
    <3> QED
      BY <3>1 DEF PadAgrees
  <2> QED
    BY <1>3, <2>1 DEF PadsAgree
<1> QED
  BY <1>2, <1>4, <1>5 DEF FeedInv

LEMMA PlugTyped ==
    ASSUME FeedInv, NEW d \in Devices, NEW v \in {"in", "gone"},
           plugged' = [plugged EXCEPT ![d] = v]
    PROVE  /\ plugged' \in [Devices -> {"never", "in", "gone"}]
           /\ plugged'[d] = v
           /\ \A u \in Devices \ {d} : plugged'[u] = plugged[u]
  BY FeedFacts

LEMMA DeviceAddedKeeps ==
    ASSUME FeedInv, NEW d \in Devices, DeviceAdded(d)
    PROVE  FeedInv'
<1>n. PICK n : n = Now
  OBVIOUS
<1>v. PICK v \in {"in", "gone"} : v = "in"
  OBVIOUS
<1>1. Agree(n) /\ FeedBecomes(n)
  BY <1>n, FeedFacts DEF DeviceAdded, FeedBecomes
<1>2. plugged' = [plugged EXCEPT ![d] = v] /\ plugged[d] = "never"
  BY <1>v DEF DeviceAdded
<1>3. /\ plugged' \in [Devices -> {"never", "in", "gone"}]
      /\ \A u \in Devices \ {d} : plugged'[u] = plugged[u]
  BY <1>2, PlugTyped
<1>4. UNCHANGED <<living, modes>> /\ UNCHANGED <<seated, pen>>
  BY DEF DeviceAdded
<1>5. /\ seated' \in SUBSET Sheets /\ modes' \in [Pads -> Modes]
      /\ pen' \in [Pens -> [tablet : Tablets \cup {Nothing}, in_range : BOOLEAN, down : BOOLEAN]]
      /\ \A t \in Pens : pen'[t].in_range => pen'[t].tablet \in Tablets
  BY <1>4, FeedFacts, TypedPen
<1>6. ASSUME NEW t \in Pens, n.m.focus[t] \in living, plugged[n.m.over[t]] = "in"
      PROVE  plugged'[n.m.over[t]] = "in"
  <2>1. n.m.over[t] \in Tablets /\ Tablets \subseteq Devices
    BY <1>1, <1>6, PenOf DEF PenAgrees, Devices
  <2>2. n.m.over[t] # d
    BY <1>2, <1>6
  <2> QED
    BY <1>3, <1>6, <2>1, <2>2
<1> QED
  BY <1>1, <1>3, <1>4, <1>5, <1>6, WorldKeeps

LEMMA TabletRemovedKeeps ==
    ASSUME FeedInv, NEW d \in Tablets, TabletRemoved(d)
    PROVE  FeedInv'
<1>n. PICK n : n = Now
  OBVIOUS
<1>x. PICK x : x = LeaveTablet(n, d)
  OBVIOUS
<1>v. PICK v \in {"in", "gone"} : v = "gone"
  OBVIOUS
<1>1. Agree(n) /\ living \in SUBSET Sheets
  BY <1>n, FeedFacts
<1>2. Agree(x) /\ \A t \in Pens : x.m.focus[t] \in living => x.m.over[t] # d
  BY <1>x, <1>1, LeaveTabletIs
<1>3. FeedBecomes(x) /\ plugged' = [plugged EXCEPT ![d] = v]
  BY <1>n, <1>x, <1>v DEF TabletRemoved
<1>4. d \in Devices
  BY DEF Devices
<1>5. /\ plugged' \in [Devices -> {"never", "in", "gone"}]
      /\ \A u \in Devices \ {d} : plugged'[u] = plugged[u]
  BY <1>3, <1>4, PlugTyped
<1>6. UNCHANGED <<living, modes>> /\ UNCHANGED seated
  BY DEF TabletRemoved
<1>7. seated' \in SUBSET Sheets /\ modes' \in [Pads -> Modes]
  BY <1>6, FeedFacts
<1>b. PICK b \in BOOLEAN : b = FALSE
  OBVIOUS
<1>8. pen' = [t \in Pens |-> IF pen[t].tablet = d THEN [pen[t] EXCEPT !.in_range = b] ELSE pen[t]]
  BY <1>b DEF TabletRemoved
<1>9. ASSUME NEW t \in Pens
      PROVE  /\ pen'[t] \in [tablet : Tablets \cup {Nothing}, in_range : BOOLEAN, down : BOOLEAN]
             /\ pen'[t].in_range => pen'[t].tablet \in Tablets
  <2>q. PICK q : q = pen[t]
    OBVIOUS
  <2>1. /\ q \in [tablet : Tablets \cup {Nothing}, in_range : BOOLEAN, down : BOOLEAN]
        /\ q.in_range => q.tablet \in Tablets
    BY <2>q, TypedPen
  <2>2. /\ [q EXCEPT !.in_range = b]
               \in [tablet : Tablets \cup {Nothing}, in_range : BOOLEAN, down : BOOLEAN]
        /\ [q EXCEPT !.in_range = b].tablet = q.tablet
    BY ONLY <2>1, b \in BOOLEAN
  <2>3. CASE q.tablet = d
    <3>1. pen'[t] = [q EXCEPT !.in_range = b]
      BY <1>8, <2>q, <2>3
    <3> QED
      BY <2>2, <2>3, <3>1
  <2>4. CASE q.tablet # d
    <3>1. pen'[t] = q
      BY <1>8, <2>q, <2>4
    <3> QED
      BY <2>1, <3>1
  <2> QED
    BY <2>3, <2>4
<1>10. pen' \in [Pens -> [tablet : Tablets \cup {Nothing}, in_range : BOOLEAN, down : BOOLEAN]]
  <2>1. pen' = [t \in Pens |-> pen'[t]]
    BY <1>8
  <2> QED
    BY <1>9, <2>1
<1>11. ASSUME NEW t \in Pens, x.m.focus[t] \in living, plugged[x.m.over[t]] = "in"
       PROVE  plugged'[x.m.over[t]] = "in"
  <2>1. x.m.over[t] \in Tablets /\ Tablets \subseteq Devices
    BY <1>2, <1>11, PenOf DEF PenAgrees, Devices
  <2>2. x.m.over[t] # d
    BY <1>2, <1>11
  <2> QED
    BY <1>5, <1>11, <2>1, <2>2
<1> QED
  BY <1>2, <1>3, <1>5, <1>6, <1>7, <1>9, <1>10, <1>11, WorldKeeps

LEMMA PadRemovedKeeps ==
    ASSUME FeedInv, NEW p \in Pads, PadRemoved(p)
    PROVE  FeedInv'
<1>n. PICK n : n = Now
  OBVIOUS
<1>x. PICK x : x = PadLeave(n, p)
  OBVIOUS
<1>v. PICK v \in {"in", "gone"} : v = "gone"
  OBVIOUS
<1>1. Agree(n)
  BY <1>n, FeedFacts
<1>2. Agree(x) /\ x.w.mode[p] = Nothing
  BY <1>x, <1>1, PadLeaveIs
<1>3. FeedBecomes(x) /\ plugged' = [plugged EXCEPT ![p] = v]
  BY <1>n, <1>x, <1>v DEF PadRemoved
<1>4. p \in Devices /\ p \notin Tablets /\ Tablets \subseteq Devices
  BY FeedAssumption DEF Devices
<1>5. /\ plugged' \in [Devices -> {"never", "in", "gone"}]
      /\ \A u \in Devices \ {p} : plugged'[u] = plugged[u]
  BY <1>3, <1>4, PlugTyped
<1>6. living' = living /\ UNCHANGED <<seated, pen>> /\ modes' = [modes EXCEPT ![p] = 0]
  BY DEF PadRemoved
<1>7. /\ seated' \in SUBSET Sheets
      /\ pen' \in [Pens -> [tablet : Tablets \cup {Nothing}, in_range : BOOLEAN, down : BOOLEAN]]
      /\ \A t \in Pens : pen'[t].in_range => pen'[t].tablet \in Tablets
  BY <1>6, FeedFacts, TypedPen
<1>8. /\ modes' \in [Pads -> Modes]
      /\ \A q \in Pads : modes'[q] = modes[q] \/ x.w.mode[q] \in {Nothing, modes'[q]}
  BY <1>2, <1>6, FeedFacts, FeedAssumption
<1>9. ASSUME NEW t \in Pens, x.m.focus[t] \in living, plugged[x.m.over[t]] = "in"
      PROVE  plugged'[x.m.over[t]] = "in"
  <2>1. x.m.over[t] \in Tablets
    BY <1>2, <1>9, PenOf DEF PenAgrees
  <2> QED
    BY <1>4, <1>5, <1>9, <2>1
<1> QED
  BY <1>2, <1>3, <1>5, <1>6, <1>7, <1>8, <1>9, WorldKeeps

LEMMA PadButtonKeeps ==
    ASSUME FeedInv, NEW p \in Pads, NEW mode \in Modes, PadButton(p, mode)
    PROVE  FeedInv'
<1>n. PICK n : n = Now
  OBVIOUS
<1>x. PICK x : x = ToPad(n, p)
  OBVIOUS
<1>y. PICK y : y = IF modes[p] # mode /\ x.m.pad[p] # Nothing
                   THEN [x EXCEPT !.w.mode[p] = mode] ELSE x
  OBVIOUS
<1>1. Agree(n)
  BY <1>n, FeedFacts
<1>2. Agree(x) /\ x.m.pad[p] \in living \cup {Nothing}
  BY <1>x, <1>1, ToPadIs
<1>3. FeedBecomes(y) /\ living' = living /\ UNCHANGED <<plugged, seated, pen>>
  BY <1>n, <1>x, <1>y DEF PadButton
<1>4. modes' = [modes EXCEPT ![p] = mode]
  BY DEF PadButton
<1>5. /\ x \in FeedSet /\ x.m \in Managers /\ x.w \in Notices
      /\ PadAgrees(x.w.pad[p], x.w.mode[p], x.m.pad[p], modes[p])
      /\ x.w.mode \in [Pads -> Modes \cup {Nothing}]
  BY <1>2, PadOf
<1>6. /\ y.m = x.m /\ y.w.pen = x.w.pen /\ y.w.pad = x.w.pad /\ y \in FeedSet
      /\ y.w.mode = IF modes[p] # mode /\ x.m.pad[p] # Nothing
                    THEN [x.w.mode EXCEPT ![p] = mode] ELSE x.w.mode
  BY <1>y, <1>5 DEF FeedSet, Notices
<1>7. manager' = x.m /\ penTold' = y.w /\ y.w \in Notices
  BY <1>3, <1>6 DEF FeedBecomes, FeedSet
<1>8. modes' \in [Pads -> Modes]
  BY <1>4, FeedFacts
<1>9. FeedTypeOK'
  BY <1>3, <1>5, <1>7, <1>8, FeedFacts DEF FeedTypeOK, Managers, Notices
<1>10. PensAgree(Now)'
  <2>1. \A t \in Pens : PenAgrees(x.w.pen[t], x.m.focus[t], x.m.over[t], x.m.down[t])
    BY <1>2 DEF Agree, PensAgree
  <2>2. Now'.w.pen = x.w.pen /\ Now'.m = x.m
    BY <1>6, <1>7 DEF Now
  <2> QED
    BY <1>3, <2>1, <2>2 DEF PensAgree, PenAgrees
<1>11. ASSUME NEW q \in Pads
       PROVE  PadAgrees(x.w.pad[q], y.w.mode[q], x.m.pad[q], modes'[q])
  <2>1. PadAgrees(x.w.pad[q], x.w.mode[q], x.m.pad[q], modes[q])
    BY <1>2 DEF Agree, PadsAgree
  <2>2. CASE q # p
    <3>1. y.w.mode[q] = x.w.mode[q] /\ modes'[q] = modes[q]
      BY <1>4, <1>5, <1>6, <2>2, FeedFacts
    <3> QED
      BY <2>1, <3>1
  <2>3. CASE q = p
    <3>1. modes'[p] = mode
      BY <1>4, FeedFacts
    <3>2. CASE x.m.pad[p] = Nothing
      <4>1. x.w.pad[p] = Nothing /\ x.w.mode[p] = Nothing
        BY <1>5, <3>2 DEF PadAgrees
      <4>2. y.w.mode = x.w.mode
        BY <1>6, <3>2
      <4> QED
        BY <2>1, <2>3, <4>1, <4>2 DEF PadAgrees
    <3>3. CASE modes[p] = mode
      <4>1. y.w.mode = x.w.mode
        BY <1>6, <3>3
      <4> QED
        BY <2>1, <2>3, <3>1, <3>3, <4>1
    <3>4. CASE modes[p] # mode /\ x.m.pad[p] # Nothing
      <4>1. y.w.mode[p] = mode
        BY <1>5, <1>6, <3>4
      <4>2. x.m.pad[p] \in living
        BY <1>2, <3>4
      <4> QED
        BY <2>1, <2>3, <3>1, <3>4, <4>1, <4>2 DEF PadAgrees
    <3> QED
      BY <3>2, <3>3, <3>4
  <2> QED
    BY <2>2, <2>3
<1>12. PadsAgree(Now)'
  <2>1. Now'.w = y.w /\ Now'.m = x.m
    BY <1>7 DEF Now
  <2> QED
    BY <1>3, <1>6, <1>11, <2>1 DEF PadsAgree, PadAgrees
<1> QED
  BY <1>3, <1>9, <1>10, <1>12, TypedPen DEF FeedInv

LEMMA DestroySheetKeeps ==
    ASSUME FeedInv, NEW s \in Sheets, DestroySheet(s)
    PROVE  FeedInv'
<1>p. PICK p : p = [t \in Pens |-> [penTold.pen[t] EXCEPT ![s] = "out"]]
  OBVIOUS
<1>o. PICK o : o = [q \in Pads |-> IF penTold.pad[q] = s THEN Nothing ELSE penTold.pad[q]]
  OBVIOUS
<1>m. PICK m : m = [q \in Pads |-> IF penTold.pad[q] = s THEN Nothing ELSE penTold.mode[q]]
  OBVIOUS
<1>1. penTold' = [pen |-> p, pad |-> o, mode |-> m]
  BY <1>p, <1>o, <1>m DEF DestroySheet
<1>2. living' = living \ {s} /\ UNCHANGED <<plugged, seated, pen, manager, modes>>
  BY DEF DestroySheet
<1>3. /\ penTold.pen \in [Pens -> [Sheets -> {"out", "near", "down"}]]
      /\ penTold.pad \in [Pads -> Sheets \cup {Nothing}]
      /\ penTold.mode \in [Pads -> Modes \cup {Nothing}]
  BY FeedFacts DEF Notices
<1>4. /\ p \in [Pens -> [Sheets -> {"out", "near", "down"}]]
      /\ o \in [Pads -> Sheets \cup {Nothing}] /\ m \in [Pads -> Modes \cup {Nothing}]
  BY <1>3, <1>p, <1>o, <1>m
<1>5. penTold' \in Notices /\ penTold'.pen = p /\ penTold'.pad = o /\ penTold'.mode = m
  BY <1>1, <1>4 DEF Notices
<1>6. FeedTypeOK'
  BY <1>2, <1>5, FeedFacts DEF FeedTypeOK, Managers, Notices
<1>7. Now' = [m |-> manager, w |-> penTold']
  BY <1>2 DEF Now
<1>8. PensAgree(Now)'
  <2>1. ASSUME NEW t \in Pens
        PROVE  PenAgrees(p[t], manager.focus[t], manager.over[t], manager.down[t])'
    <3>1. PenAgrees(penTold.pen[t], manager.focus[t], manager.over[t], manager.down[t])
      BY FeedFacts DEF Agree, PensAgree
    <3>2. \A k \in Sheets : p[t][k] = IF k = s THEN "out" ELSE penTold.pen[t][k]
      BY <1>3, <1>p
    <3>3. living \in SUBSET Sheets
      BY FeedFacts
    <3> QED
      BY <1>2, <3>1, <3>2, <3>3 DEF PenAgrees
  <2> QED
    BY <1>5, <1>7, <1>2, <2>1 DEF PensAgree
<1>9. PadsAgree(Now)'
  <2>1. ASSUME NEW q \in Pads
        PROVE  PadAgrees(o[q], m[q], manager.pad[q], modes[q])'
    <3>1. PadAgrees(penTold.pad[q], penTold.mode[q], manager.pad[q], modes[q])
      BY FeedFacts DEF Agree, PadsAgree
    <3>2. /\ o[q] = IF penTold.pad[q] = s THEN Nothing ELSE penTold.pad[q]
          /\ m[q] = IF penTold.pad[q] = s THEN Nothing ELSE penTold.mode[q]
      BY <1>o, <1>m
    <3> QED
      BY <1>2, <3>1, <3>2, FeedAssumption DEF PadAgrees
  <2> QED
    BY <1>5, <1>7, <1>2, <2>1 DEF PadsAgree
<1> QED
  BY <1>2, <1>6, <1>8, <1>9, TypedPen DEF FeedInv

LEMMA FeedBegin ==
    ASSUME FeedInit
    PROVE  FeedInv
<1>1. FeedTypeOK
  BY FeedAssumption DEF FeedInit, FeedTypeOK, Devices
<1>2. \A t \in Pens : pen[t].in_range => pen[t].tablet \in Tablets
  BY DEF FeedInit
<1>3. Now = [m |-> manager, w |-> penTold]
  BY DEF Now
<1>4. PensAgree(Now)
  BY <1>3, FeedAssumption DEF FeedInit, PensAgree, PenAgrees
<1>5. PadsAgree(Now)
  BY <1>3, FeedAssumption DEF FeedInit, PadsAgree, PadAgrees
<1> QED
  BY <1>1, <1>2, <1>4, <1>5 DEF FeedInv

LEMMA FeedKeeps ==
    ASSUME FeedInv, [FeedNext]_feedVars
    PROVE  FeedInv'
<1>1. ASSUME NEW d \in Devices, DeviceAdded(d) PROVE FeedInv'
  BY <1>1, DeviceAddedKeeps
<1>2. ASSUME NEW d \in Tablets, TabletRemoved(d) PROVE FeedInv'
  BY <1>2, TabletRemovedKeeps
<1>3. ASSUME NEW p \in Pads, PadRemoved(p) \/ \E mode \in Modes : PadButton(p, mode)
      PROVE  FeedInv'
  BY <1>3, PadRemovedKeeps, PadButtonKeeps
<1>4. ASSUME NEW t \in Pens, NEW first \in Pens, NEW s \in Sheets \cup {Nothing},
             \/ PenMoves(t, s, first)
             \/ \E d \in Tablets : PenIn(d, t, s, first) \/ PenOut(d, t, first)
             \/ \E tip \in BOOLEAN : Tip(t, tip, s, first)
      PROVE  FeedInv'
  BY <1>4, PenMovesKeeps, PenInKeeps, PenOutKeeps, TipKeeps
<1>5. CASE \/ \E t \in Pens : PenButton(t)
           \/ \E p \in Pads : PadTurns(p)
           \/ \E s \in Sheets : BindTablets(s)
  BY <1>5, TellingKeeps
<1>6. ASSUME NEW s \in Sheets, DestroySheet(s) PROVE FeedInv'
  BY <1>6, DestroySheetKeeps
<1>7. CASE UNCHANGED feedVars
  BY <1>7 DEF feedVars, FeedInv, FeedTypeOK, Now, PensAgree, PenAgrees, PadsAgree, PadAgrees
<1> QED
  BY <1>1, <1>2, <1>3, <1>4, <1>5, <1>6, <1>7 DEF FeedNext

LEMMA AgreedClients ==
    ASSUME FeedInv
    PROVE  ClientsAgree
<1>0. Agree(Now) /\ Now.m = manager /\ Now.w = penTold /\ living \in SUBSET Sheets
  BY FeedFacts
<1>1. ASSUME NEW t \in Pens, NEW s \in living
      PROVE  /\ penTold.pen[t][s] # "out" <=> manager.focus[t] = s
             /\ manager.focus[t] = s => plugged[manager.over[t]] = "in"
             /\ penTold.pen[t][s] = "down" => manager.down[t]
  <2>1. PenAgrees(penTold.pen[t], manager.focus[t], manager.over[t], manager.down[t])
    BY <1>0 DEF Agree, PensAgree
  <2> QED
    BY <1>0, <2>1 DEF PenAgrees
<1>2. ASSUME NEW p \in Pads
      PROVE  /\ \A s \in living : penTold.pad[p] = s <=> manager.pad[p] = s
             /\ penTold.mode[p] # Nothing => penTold.mode[p] = modes[p]
  <2>1. PadAgrees(penTold.pad[p], penTold.mode[p], manager.pad[p], modes[p])
    BY <1>0 DEF Agree, PadsAgree
  <2> QED
    BY <1>0, <2>1, FeedAssumption DEF PadAgrees
<1> QED
  BY <1>1, <1>2 DEF ClientsAgree

\* Pens and pads are where their clients were told they are, and nowhere else,
\* whatever crosses, is unplugged or dies in between, for any number of them
\* (ToolManager and PadManager calls of tablet_feed.rs in any order).
THEOREM TabletsAreAgreed == FeedSpec => []ClientsAgree
<1>1. FeedInit => FeedInv
  BY FeedBegin
<1>2. FeedInv /\ [FeedNext]_feedVars => FeedInv'
  BY FeedKeeps
<1>3. FeedInv => ClientsAgree
  BY AgreedClients
<1> QED
  BY <1>1, <1>2, <1>3, PTL DEF FeedSpec

-----------------------------------------------------------------------------
(* The input method.  A field is told that it has the focus only while its  *)
(* client has the keyboard, and enabled only while it has the focus, so     *)
(* there is one field to serve at most, and what is told of it is told last.*)

Methods == [alive : BOOLEAN, active : BOOLEAN, done : Nat, seen : 0..MaxDone,
            of : Fields \cup {NoField}, at : 0..MaxCommit, ignored : SUBSET (0..MaxDone)]

OneField(fs) ==
    \A f \in Fields : /\ fs[f].focus => fs[f].alive /\ typing = f
                      /\ fs[f].enabled => fs[f].focus

TextInv == TextTypeOK /\ OneField(fields) /\ FieldServed

LEMMA MethodIs ==
    ASSUME TextTypeOK
    PROVE  im \in Methods /\ NoMethod \in Methods /\ 0 \in 0..MaxDone
  BY TextAssumption DEF TextTypeOK, Methods, NoMethod

LEMMA DeactivatedIs ==
    ASSUME NEW m \in Methods
    PROVE  /\ ImDeactivated(m) \in Methods /\ (ImDeactivated(m).alive <=> m.alive)
           /\ ImDeactivated(m).seen = m.seen
<1>1. CASE m.alive /\ m.active
  <2>1. ImDeactivated(m) = [m EXCEPT !.active = FALSE, !.done = m.done + 1]
    BY <1>1 DEF ImDeactivated
  <2>2. m.done + 1 \in Nat
    BY DEF Methods
  <2> QED
    BY <2>1, <2>2 DEF Methods
<1>2. CASE ~(m.alive /\ m.active)
  <2>1. ImDeactivated(m) = m
    BY <1>2 DEF ImDeactivated
  <2> QED
    BY <2>1
<1> QED
  BY <1>1, <1>2

LEMMA PushedIs ==
    ASSUME NEW m \in Methods, NEW fs \in [Fields -> Field]
    PROVE  /\ Pushed(m, fs) \in Methods /\ (Pushed(m, fs).alive <=> m.alive)
           /\ \A f \in Fields : m.alive /\ Target(fs) = {f} =>
                  /\ Pushed(m, fs).active /\ Pushed(m, fs).of = f
                  /\ Pushed(m, fs).at = fs[f].commits
<1>1. CASE ~m.alive
  BY <1>1 DEF Pushed
<1>2. CASE m.alive /\ Target(fs) = {}
  <2>1. Pushed(m, fs) = ImDeactivated(m)
    BY <1>2 DEF Pushed
  <2> QED
    BY <1>2, <2>1, DeactivatedIs
<1>3. CASE m.alive /\ Target(fs) # {}
  <2>1. PICK g : g = CHOOSE t \in Target(fs) : TRUE
    OBVIOUS
  <2>2. g \in Target(fs) /\ g \in Fields
    BY <1>3, <2>1 DEF Target
  <2>3. Pushed(m, fs) = [m EXCEPT !.active = TRUE, !.done = m.done + 1, !.of = g,
                                  !.at = fs[g].commits]
    BY <1>3, <2>1 DEF Pushed
  <2>4. fs[g].commits \in 0..MaxCommit /\ m.done + 1 \in Nat
    BY <2>2 DEF Field, Methods
  <2>5. /\ Pushed(m, fs) \in Methods /\ (Pushed(m, fs).alive <=> m.alive)
        /\ Pushed(m, fs).active /\ Pushed(m, fs).of = g /\ Pushed(m, fs).at = fs[g].commits
    BY <2>2, <2>3, <2>4 DEF Methods
  <2> QED
    BY <2>2, <2>5
<1> QED
  BY <1>1, <1>2, <1>3

LEMMA BecomesIs ==
    ASSUME NEW m \in Methods, TextBecomes(m)
    PROVE  /\ im' = m
           /\ im' \in [alive : BOOLEAN, active : BOOLEAN, done : 0..MaxDone, seen : 0..MaxDone,
                       of : Fields \cup {NoField}, at : 0..MaxCommit, ignored : SUBSET (0..MaxDone)]
<1>1. im' = m /\ m.done \in Nat /\ m.done <= MaxDone
  BY DEF TextBecomes, Methods
<1>2. m.done \in 0..MaxDone
  BY <1>1, TextAssumption
<1> QED
  BY <1>1, <1>2 DEF Methods

LEMMA GetTextInputStep ==
    ASSUME TextInv, NEW f \in Fields, GetTextInput(f) \/ DestroyTextInput(f)
    PROVE  TextInv'
<1>1. PICK n \in Field : /\ fields' = [fields EXCEPT ![f] = n] /\ ~n.enabled
                         /\ (n.focus => n.alive /\ typing = f)
  <2>1. 0 \in 0..MaxCommit
    BY TextAssumption
  <2>2. CASE GetTextInput(f)
    <3>1. PICK b \in BOOLEAN : b = (typing = f)
      OBVIOUS
    <3>2. [NewField EXCEPT !.focus = b] \in Field
      BY <2>1 DEF NewField, Field
    <3>3. ~[NewField EXCEPT !.focus = b].enabled /\ [NewField EXCEPT !.focus = b].alive
          /\ ([NewField EXCEPT !.focus = b].focus <=> b)
      BY DEF NewField
    <3> QED
      BY <2>2, <3>1, <3>2, <3>3 DEF GetTextInput
  <2>3. CASE DestroyTextInput(f)
    <3>1. [NewField EXCEPT !.alive = FALSE] \in Field
      BY <2>1 DEF NewField, Field
    <3>2. ~[NewField EXCEPT !.alive = FALSE].enabled /\ ~[NewField EXCEPT !.alive = FALSE].focus
      BY DEF NewField
    <3> QED
      BY <2>3, <3>1, <3>2 DEF DestroyTextInput
  <2> QED
    BY <2>2, <2>3
<1>2. UNCHANGED <<typing, im>>
  BY DEF GetTextInput, DestroyTextInput
<1>3. fields \in [Fields -> Field]
  BY DEF TextInv, TextTypeOK
<1>4. /\ fields' \in [Fields -> Field] /\ fields'[f] = n
      /\ \A g \in Fields \ {f} : fields'[g] = fields[g]
  BY <1>1, <1>3
<1>5. TextTypeOK'
  BY <1>2, <1>4 DEF TextInv, TextTypeOK
<1>6. OneField(fields)'
  BY <1>1, <1>2, <1>4 DEF TextInv, OneField
<1>7. FieldServed'
  BY <1>1, <1>2, <1>4 DEF TextInv, FieldServed
<1> QED
  BY <1>5, <1>6, <1>7 DEF TextInv

LEMMA WishStep ==
    ASSUME TextInv, NEW f \in Fields, NEW w \in {"enable", "disable"}, Wish(f, w)
    PROVE  TextInv'
<1>1. fields' = [fields EXCEPT ![f].wish = w] /\ UNCHANGED <<typing, im>>
  BY DEF Wish
<1>2. fields \in [Fields -> Field]
  BY DEF TextInv, TextTypeOK
<1>3. /\ fields' \in [Fields -> Field]
      /\ \A g \in Fields : /\ (fields'[g].focus <=> fields[g].focus)
                           /\ (fields'[g].alive <=> fields[g].alive)
                           /\ (fields'[g].enabled <=> fields[g].enabled)
                           /\ fields'[g].commits = fields[g].commits
  BY <1>1, <1>2 DEF Field
<1>4. TextTypeOK'
  BY <1>1, <1>3 DEF TextInv, TextTypeOK
<1>5. OneField(fields)'
  BY <1>1, <1>3 DEF TextInv, OneField
<1>6. FieldServed'
  BY <1>1, <1>3 DEF TextInv, FieldServed
<1> QED
  BY <1>4, <1>5, <1>6 DEF TextInv

LEMMA CommitTextStep ==
    ASSUME TextInv, NEW f \in Fields, CommitText(f)
    PROVE  TextInv'
<1>1. /\ fields[f].alive /\ fields[f].focus /\ fields[f].commits < MaxCommit /\ typing' = typing
      /\ TextBecomes(Committed(im, fields[f].enabled, fields', f))
  BY DEF CommitText
<1>2. fields \in [Fields -> Field] /\ fields[f] \in Field /\ im \in Methods
  BY MethodIs DEF TextInv, TextTypeOK
<1>n. PICK n : n = fields'[f]
  OBVIOUS
<1>3. /\ n \in Field /\ n.alive /\ n.focus /\ fields' = [fields EXCEPT ![f] = n]
  <2>1. PICK b \in BOOLEAN : b = CASE fields[f].wish = "enable" -> TRUE
                                   [] fields[f].wish = "disable" -> FALSE
                                   [] OTHER -> fields[f].enabled
    BY <1>2 DEF Field
  <2>2. fields' = [fields EXCEPT ![f].commits = fields[f].commits + 1, ![f].wish = "none",
                                 ![f].enabled = b]
    BY <2>1 DEF CommitText
  <2>3. n = [fields[f] EXCEPT !.commits = fields[f].commits + 1, !.wish = "none", !.enabled = b]
    BY <1>2, <1>n, <2>2
  <2>4. fields[f].commits + 1 \in 0..MaxCommit
    BY <1>1, <1>2, TextAssumption DEF Field
  <2> QED
    BY <1>1, <1>2, <2>2, <2>3, <2>4 DEF Field
<1>4. /\ fields' \in [Fields -> Field] /\ fields'[f] = n
      /\ \A g \in Fields \ {f} : fields'[g] = fields[g]
  BY <1>2, <1>3
<1>5. \A g \in Fields \ {f} : ~fields[g].focus
  BY <1>1 DEF TextInv, OneField
<1>6. Target(fields') = IF n.enabled THEN {f} ELSE {}
  <2>1. \A g \in Fields \ {f} : g \notin Target(fields')
    BY <1>4, <1>5 DEF Target
  <2>2. f \in Target(fields') <=> n.enabled
    BY <1>3, <1>4 DEF Target
  <2>3. Target(fields') \subseteq Fields
    BY DEF Target
  <2> QED
    BY <2>1, <2>2, <2>3
<1>7. PICK m \in Methods : TextBecomes(Pushed(m, fields')) /\ (m.alive <=> im.alive)
  <2>1. PICK m : m = CASE ~fields[f].enabled /\ fields'[f].enabled -> Pushed(im, fields')
                       [] fields[f].enabled /\ ~fields'[f].enabled -> ImDeactivated(im)
                       [] OTHER -> im
    OBVIOUS
  <2>2. m \in Methods /\ (m.alive <=> im.alive)
    BY <1>2, <1>4, <2>1, PushedIs, DeactivatedIs
  <2>3. Committed(im, fields[f].enabled, fields', f) = Pushed(m, fields')
    BY <2>1 DEF Committed
  <2> QED
    BY <1>1, <2>2, <2>3
<1>8. /\ Pushed(m, fields') \in Methods
      /\ im.alive /\ n.enabled => /\ Pushed(m, fields').active /\ Pushed(m, fields').of = f
                                  /\ Pushed(m, fields').at = fields'[f].commits
      /\ Pushed(m, fields').alive <=> im.alive
  BY <1>4, <1>6, <1>7, PushedIs
<1>9. TextTypeOK' /\ im' = Pushed(m, fields')
  BY <1>1, <1>4, <1>7, <1>8, BecomesIs DEF TextInv, TextTypeOK
<1>10. OneField(fields)'
  BY <1>1, <1>3, <1>4, <1>5 DEF TextInv, OneField
<1>11. FieldServed'
  BY <1>4, <1>5, <1>8, <1>9 DEF FieldServed
<1> QED
  BY <1>9, <1>10, <1>11 DEF TextInv

LEMMA MoveFocusStep ==
    ASSUME TextInv, NEW to \in Fields \cup {NoField}, MoveFocus(to)
    PROVE  TextInv'
<1>h. PICK had \in BOOLEAN : had = (typing # NoField /\ fields[typing].focus)
  OBVIOUS
<1>a. PICK after : after = IF had THEN FieldLeft(fields, typing) ELSE fields
  OBVIOUS
<1>1. /\ to # typing /\ typing' = to
      /\ fields' = IF to # NoField /\ after[to].alive THEN [after EXCEPT ![to].focus = TRUE]
                   ELSE after
      /\ TextBecomes(IF had /\ fields[typing].enabled THEN ImDeactivated(im) ELSE im)
  BY <1>h, <1>a DEF MoveFocus
<1>2. fields \in [Fields -> Field] /\ im \in Methods /\ typing \in Fields \cup {NoField}
  BY MethodIs DEF TextInv, TextTypeOK
<1>3. after \in [Fields -> Field] /\ \A g \in Fields : ~after[g].focus /\ ~after[g].enabled
  <2>1. CASE had
    <3>1. typing \in Fields
      BY <1>2, <1>h, <2>1
    <3>2. PICK n : n = [fields[typing] EXCEPT !.focus = FALSE, !.enabled = FALSE,
                                              !.wish = "none", !.staged = {}]
      OBVIOUS
    <3>3. n \in Field /\ ~n.focus /\ ~n.enabled
      BY <1>2, <3>1, <3>2 DEF Field
    <3>4. after = [fields EXCEPT ![typing] = n]
      BY <1>a, <2>1, <3>2 DEF FieldLeft
    <3>5. \A g \in Fields \ {typing} : ~fields[g].focus /\ ~fields[g].enabled
      BY DEF TextInv, OneField
    <3> QED
      BY <1>2, <3>1, <3>3, <3>4, <3>5
  <2>2. CASE ~had
    <3>1. \A g \in Fields : ~fields[g].focus
      BY <1>h, <2>2, TextAssumption DEF TextInv, OneField
    <3> QED
      BY <1>a, <1>2, <2>2, <3>1 DEF TextInv, OneField
  <2> QED
    BY <2>1, <2>2
<1>4. /\ fields' \in [Fields -> Field]
      /\ \A g \in Fields : ~fields'[g].enabled /\ (fields'[g].focus => g = to /\ fields'[g].alive)
  <2>1. CASE to # NoField /\ after[to].alive
    <3>1. to \in Fields /\ fields' = [after EXCEPT ![to].focus = TRUE]
      BY <1>1, <2>1
    <3> QED
      BY <1>3, <2>1, <3>1 DEF Field
  <2>2. CASE ~(to # NoField /\ after[to].alive)
    BY <1>1, <1>3, <2>2
  <2> QED
    BY <2>1, <2>2
<1>5. im' \in [alive : BOOLEAN, active : BOOLEAN, done : 0..MaxDone, seen : 0..MaxDone,
               of : Fields \cup {NoField}, at : 0..MaxCommit, ignored : SUBSET (0..MaxDone)]
  BY <1>1, <1>2, BecomesIs, DeactivatedIs
<1>6. TextTypeOK'
  BY <1>1, <1>4, <1>5 DEF TextTypeOK
<1>7. OneField(fields)' /\ FieldServed'
  BY <1>1, <1>4 DEF OneField, FieldServed
<1> QED
  BY <1>6, <1>7 DEF TextInv

LEMMA StartMethodStep ==
    ASSUME TextInv, StartMethod \/ StopMethod
    PROVE  TextInv'
<1>1. UNCHANGED <<fields, typing>> /\ fields \in [Fields -> Field]
  BY DEF StartMethod, StopMethod, TextInv, TextTypeOK
<1>2. OneField(fields)'
  BY <1>1 DEF TextInv, OneField
<1>3. CASE StartMethod
  <2>1. PICK m : m = [NoMethod EXCEPT !.alive = TRUE]
    OBVIOUS
  <2>2. m \in Methods /\ m.alive
    BY <2>1, MethodIs DEF TextInv, Methods, NoMethod
  <2>3. Pushed(m, fields) \in Methods /\ TextBecomes(Pushed(m, fields))
    BY <1>1, <1>3, <2>1, <2>2, PushedIs DEF StartMethod
  <2>4. TextTypeOK' /\ im' = Pushed(m, fields)
    BY <1>1, <2>3, BecomesIs DEF TextInv, TextTypeOK
  <2>5. ASSUME NEW f \in Fields, fields[f].focus, fields[f].enabled
        PROVE  im'.active /\ im'.of = f /\ im'.at = fields[f].commits
    <3>1. Target(fields) = {f}
      BY <2>5 DEF TextInv, OneField, Target
    <3> QED
      BY <1>1, <2>2, <2>4, <3>1, PushedIs
  <2>6. FieldServed'
    BY <1>1, <2>5 DEF FieldServed
  <2> QED
    BY <1>2, <2>4, <2>6 DEF TextInv
<1>4. CASE StopMethod
  <2>1. im' = NoMethod /\ ~NoMethod.alive
    BY <1>4 DEF StopMethod, NoMethod
  <2>2. NoMethod \in [alive : BOOLEAN, active : BOOLEAN, done : 0..MaxDone, seen : 0..MaxDone,
                      of : Fields \cup {NoField}, at : 0..MaxCommit,
                      ignored : SUBSET (0..MaxDone)]
    BY TextAssumption DEF NoMethod
  <2>3. TextTypeOK'
    BY <1>1, <2>1, <2>2 DEF TextInv, TextTypeOK
  <2> QED
    BY <1>2, <2>1, <2>3 DEF TextInv, FieldServed
<1> QED
  BY <1>3, <1>4

LEMMA MethodTypesStep ==
    ASSUME TextInv, HearDone \/ SendString \/ IgnoredCommit \/ CommitMethod
    PROVE  TextInv'
<1>1. /\ fields \in [Fields -> Field] /\ typing' = typing
      /\ im \in [alive : BOOLEAN, active : BOOLEAN, done : 0..MaxDone, seen : 0..MaxDone,
                 of : Fields \cup {NoField}, at : 0..MaxCommit, ignored : SUBSET (0..MaxDone)]
  BY DEF TextInv, TextTypeOK, HearDone, SendString, IgnoredCommit, CommitMethod
<1>2. /\ im' \in [alive : BOOLEAN, active : BOOLEAN, done : 0..MaxDone, seen : 0..MaxDone,
                  of : Fields \cup {NoField}, at : 0..MaxCommit, ignored : SUBSET (0..MaxDone)]
      /\ (im'.alive <=> im.alive) /\ (im'.active <=> im.active) /\ im'.of = im.of /\ im'.at = im.at
  <2>1. CASE HearDone
    <3>1. im.seen + 1 \in 0..MaxDone /\ im' = [im EXCEPT !.seen = im.seen + 1]
      BY <1>1, <2>1, TextAssumption DEF HearDone
    <3> QED
      BY <1>1, <3>1
  <2>2. CASE IgnoredCommit
    <3>1. im' = [im EXCEPT !.ignored = im.ignored \cup {im.seen}]
      BY <2>2 DEF IgnoredCommit
    <3> QED
      BY <1>1, <3>1
  <2>3. CASE SendString \/ CommitMethod
    BY <1>1, <2>3 DEF SendString, CommitMethod
  <2> QED
    BY <2>1, <2>2, <2>3
<1>3. /\ fields' \in [Fields -> Field]
      /\ \A g \in Fields : /\ (fields'[g].focus <=> fields[g].focus)
                           /\ (fields'[g].alive <=> fields[g].alive)
                           /\ (fields'[g].enabled <=> fields[g].enabled)
                           /\ fields'[g].commits = fields[g].commits
  <2>1. CASE HearDone \/ IgnoredCommit
    BY <1>1, <2>1 DEF HearDone, IgnoredCommit
  <2>2. CASE SendString \/ CommitMethod
    <3>1. PICK f \in Fields, e \in SUBSET (0..MaxDone) :
             fields' = [fields EXCEPT ![f].staged = e]
      <4>1. CASE SendString
        <5>1. PICK f \in Target(fields) :
                 fields' = [fields EXCEPT ![f].staged = fields[f].staged \cup {im.seen}]
          BY <4>1 DEF SendString
        <5>2. f \in Fields
          BY <5>1 DEF Target
        <5>3. fields[f].staged \cup {im.seen} \in SUBSET (0..MaxDone)
          BY <1>1, <5>2 DEF Field
        <5> QED
          BY <5>1, <5>2, <5>3
      <4>2. CASE CommitMethod
        BY <4>2 DEF CommitMethod, Target
      <4> QED
        BY <2>2, <4>1, <4>2
    <3> QED
      BY <1>1, <3>1 DEF Field
  <2> QED
    BY <2>1, <2>2
<1>4. TextTypeOK'
  BY <1>1, <1>2, <1>3 DEF TextInv, TextTypeOK
<1>5. OneField(fields)'
  BY <1>1, <1>3 DEF TextInv, OneField
<1>6. FieldServed'
  BY <1>2, <1>3 DEF TextInv, FieldServed
<1> QED
  BY <1>4, <1>5, <1>6 DEF TextInv

LEMMA TextStep ==
    ASSUME TextInv, [TextNext]_textVars
    PROVE  TextInv'
<1>1. CASE UNCHANGED textVars
  <2>1. UNCHANGED <<fields, typing, im>>
    BY <1>1 DEF textVars
  <2> QED
    BY <2>1 DEF TextInv, TextTypeOK, OneField, FieldServed
<1>2. CASE TextNext
  BY <1>2, GetTextInputStep, WishStep, CommitTextStep, MoveFocusStep, StartMethodStep,
     MethodTypesStep DEF TextNext
<1> QED
  BY <1>1, <1>2

LEMMA TextBegin == TextInit => TextInv
<1>1. 0 \in 0..MaxCommit /\ 0 \in 0..MaxDone
  BY TextAssumption
<1>2. /\ [NewField EXCEPT !.alive = FALSE] \in Field
      /\ ~[NewField EXCEPT !.alive = FALSE].focus /\ ~[NewField EXCEPT !.alive = FALSE].enabled
  BY <1>1 DEF NewField, Field
<1>3. NoMethod \in [alive : BOOLEAN, active : BOOLEAN, done : 0..MaxDone, seen : 0..MaxDone,
                    of : Fields \cup {NoField}, at : 0..MaxCommit,
                    ignored : SUBSET (0..MaxDone)]
  BY <1>1 DEF NoMethod
<1> QED
  BY <1>2, <1>3 DEF TextInit, TextInv, TextTypeOK, OneField, FieldServed

\* The input method types into the field it thinks it does: the field that is
\* enabled and has the focus is the one it was told of last, as of the last
\* commit of the field (TextInputManager and InputMethodManager, desktop.rs).
THEOREM EveryFieldIsServed == TextSpec => []FieldServed
<1>1. TextInv => FieldServed
  BY DEF TextInv
<1> QED
  BY <1>1, TextBegin, TextStep, PTL DEF TextSpec

-----------------------------------------------------------------------------
(* Tokens *)

\* What is left of a list that lost its i-th element.
LEMMA RemovedIs ==
    ASSUME NEW q \in Seq(Promises), NEW i \in 1..Len(q), NEW r, r = RemoveAt(q, i)
    PROVE  /\ r \in Seq(Promises) /\ Len(r) = Len(q) - 1 /\ Len(q) \in Nat
           /\ \A j \in 1..Len(r) : r[j] = IF j < i THEN q[j] ELSE q[j + 1]
<1>a. PICK a : a = SubSeq(q, 1, i - 1)
  OBVIOUS
<1>b. PICK b : b = SubSeq(q, i + 1, Len(q))
  OBVIOUS
<1>1. Len(q) \in Nat /\ i \in Nat /\ 1 <= i /\ i <= Len(q)
  OBVIOUS
<1>2. /\ a \in Seq(Promises) /\ Len(a) = i - 1
      /\ \A j \in 1..(i - 1) : a[j] = q[j]
  BY <1>1, <1>a
<1>3. /\ b \in Seq(Promises) /\ Len(b) = Len(q) - i
      /\ \A j \in 1..(Len(q) - i) : b[j] = q[j + i]
  BY <1>1, <1>b
<1>4. r = a \o b
  BY <1>a, <1>b DEF RemoveAt
<1>7. /\ a \o b \in Seq(Promises) /\ Len(a \o b) = Len(a) + Len(b)
      /\ \A j \in 1..(Len(a) + Len(b)) :
            (a \o b)[j] = IF j <= Len(a) THEN a[j] ELSE b[j - Len(a)]
  <2>1. a \in Seq(Promises) /\ b \in Seq(Promises)
    BY <1>2, <1>3
  <2> QED
    BY <2>1, ConcatProperties, Zenon
<1>5. r \in Seq(Promises) /\ Len(r) = Len(q) - 1
  <2>1. r \in Seq(Promises) /\ Len(r) = Len(a) + Len(b)
    BY <1>4, <1>7, Zenon
  <2> QED
    BY <1>1, <1>2, <1>3, <2>1
<1>8. /\ Len(r) = Len(a) + Len(b)
      /\ \A j \in 1..(Len(a) + Len(b)) :
            r[j] = IF j <= Len(a) THEN a[j] ELSE b[j - Len(a)]
  BY <1>4, <1>7, Zenon
<1>6. ASSUME NEW j \in 1..Len(r)
      PROVE  r[j] = IF j < i THEN q[j] ELSE q[j + 1]
  <2>0. /\ Len(a) = i - 1 /\ Len(b) = Len(q) - i /\ Len(r) = Len(q) - 1
        /\ Len(q) \in Int /\ i \in Int /\ j \in Int
        /\ 1 <= j /\ j <= Len(r) /\ 1 <= i /\ i <= Len(q)
    BY <1>1, <1>2, <1>3, <1>5
  <2>1. CASE j < i
    <3>1. j \in 1..(i - 1) /\ j \in 1..(Len(a) + Len(b)) /\ j <= Len(a) /\ j \in 1..Len(a)
      BY <2>0, <2>1
    <3>2. r[j] = a[j]
      BY <1>8, <3>1
    <3> QED
      BY <1>2, <2>1, <3>1, <3>2
  <2>2. CASE ~(j < i)
    <3>1. /\ j \in 1..(Len(a) + Len(b)) /\ ~(j <= Len(a))
          /\ j - Len(a) \in 1..(Len(q) - i) /\ j - Len(a) + i = j + 1
      BY <2>0, <2>2
    <3>2. r[j] = b[j - Len(a)]
      BY <1>8, <3>1
    <3> QED
      BY <1>3, <2>2, <3>1, <3>2
  <2> QED
    BY <2>1, <2>2
<1> QED
  BY <1>1, <1>5, <1>6

\* How many tokens one more drives out.
Driven(q) == IF Len(q) < MaxIssued THEN 0 ELSE 1

\* What the list is then.
Longer(q, e) == Append(Remembered(q), e)

LEMMA PromiseOf ==
    ASSUME NEW p \in Seq(Promises), NEW n \in 1..Len(p)
    PROVE  /\ p[n] \in Promises /\ p[n].token \in Drafts
           /\ p[n].by \in Askers \cup {NoAsker} /\ p[n].granted \in BOOLEAN
<1>1. p[n] \in Promises
  OBVIOUS
<1>2. p[n].granted \in BOOLEAN
  BY <1>1 DEF Promises
<1>3. p[n].token \in Drafts /\ p[n].by \in Askers \cup {NoAsker}
  BY <1>1 DEF Promises
<1> QED
  BY <1>1, <1>2, <1>3

\* The list, q, against all that was handed out, p.
Kept(q, p) ==
    /\ q \in Seq(Promises) /\ p \in Seq(Promises)
    /\ \A m, n \in 1..Len(p) : p[m].token = p[n].token => m = n
    /\ \A i, j \in 1..Len(q) : q[i].token = q[j].token => i = j
    /\ \A i \in 1..Len(q) : \E m \in 1..Len(p) :
          /\ p[m].token = q[i].token
          /\ (p[m].granted <=> q[i].granted)
          /\ (q[i].by # NoAsker => p[m].by = q[i].by)
          /\ m + Len(q) - i <= Len(p)

\* Of the last tokens handed out, the list has those of U, which can be spent.
Recent(q, p, U) ==
    \A n \in 1..Len(p) : p[n].token \in U /\ Len(p) - n < MaxIssued =>
        \E i \in 1..Len(q) : q[i].token = p[n].token /\ (q[i].granted <=> p[n].granted)

LEMMA KeptWithout ==
    ASSUME NEW q, NEW p, Kept(q, p), NEW i \in 1..Len(q), NEW r, r = RemoveAt(q, i),
           NEW U, Recent(q, p, U)
    PROVE  Kept(r, p) /\ Recent(r, p, U \ {q[i].token})
<1>1. q \in Seq(Promises) /\ p \in Seq(Promises)
  BY DEF Kept
<1>2. /\ r \in Seq(Promises) /\ Len(r) = Len(q) - 1 /\ Len(q) \in Nat
      /\ \A j \in 1..Len(r) : r[j] = IF j < i THEN q[j] ELSE q[j + 1]
  BY <1>1, RemovedIs
<1>f. PICK f : f = [j \in 1..Len(r) |-> IF j < i THEN j ELSE j + 1]
  OBVIOUS
<1>3. \A j \in 1..Len(r) : f[j] \in 1..Len(q) /\ r[j] = q[f[j]] /\ f[j] >= j /\ f[j] <= j + 1
  <2>1. \A j \in 1..Len(r) : f[j] = IF j < i THEN j ELSE j + 1
    BY <1>f
  <2>2. i \in Nat /\ Len(r) \in Nat
    BY <1>2
  <2> QED
    BY <1>2, <2>1, <2>2
<1>4. ASSUME NEW j \in 1..Len(r), NEW k \in 1..Len(r), f[j] = f[k]
      PROVE  j = k
  <2>1. j \in Int /\ k \in Int /\ i \in Int
    BY <1>2
  <2>2. f[j] = (IF j < i THEN j ELSE j + 1) /\ f[k] = (IF k < i THEN k ELSE k + 1)
    BY <1>f
  <2>3. /\ j < i => f[j] = j
        /\ ~(j < i) => f[j] = j + 1
        /\ k < i => f[k] = k
        /\ ~(k < i) => f[k] = k + 1
    BY <2>2
  <2> QED
    BY <1>4, <2>1, <2>3
<1>5. ASSUME NEW j \in 1..Len(r), NEW k \in 1..Len(r), r[j].token = r[k].token
      PROVE  j = k
  <2>1. f[j] \in 1..Len(q) /\ f[k] \in 1..Len(q) /\ q[f[j]].token = q[f[k]].token
    BY <1>3, <1>5
  <2>2. f[j] = f[k]
    BY <2>1 DEF Kept
  <2> QED
    BY <1>4, <2>2
<1>6. ASSUME NEW j \in 1..Len(r)
      PROVE  \E m \in 1..Len(p) :
                /\ p[m].token = r[j].token /\ (p[m].granted <=> r[j].granted)
                /\ (r[j].by # NoAsker => p[m].by = r[j].by)
                /\ m + Len(r) - j <= Len(p)
  <2>1. f[j] \in 1..Len(q) /\ r[j] = q[f[j]] /\ f[j] \in Int /\ j \in Int /\ f[j] <= j + 1
    BY <1>2, <1>3
  <2>2. PICK m \in 1..Len(p) :
                /\ p[m].token = q[f[j]].token /\ (p[m].granted <=> q[f[j]].granted)
                /\ (q[f[j]].by # NoAsker => p[m].by = q[f[j]].by)
                /\ m + Len(q) - f[j] <= Len(p)
    BY <2>1 DEF Kept
  <2>3. m + Len(r) - j <= Len(p)
    BY <1>1, <1>2, <2>1, <2>2
  <2> QED
    BY <2>1, <2>2, <2>3
<1>7. ASSUME NEW n \in 1..Len(p), p[n].token \in U \ {q[i].token}, Len(p) - n < MaxIssued
      PROVE  \E j \in 1..Len(r) : r[j].token = p[n].token /\ (r[j].granted <=> p[n].granted)
  <2>1. PICK j \in 1..Len(q) : q[j].token = p[n].token /\ (q[j].granted <=> p[n].granted)
    BY <1>7 DEF Recent
  <2>2. j # i /\ i \in Int /\ j \in Int /\ Len(r) \in Int /\ Len(r) = Len(q) - 1
    BY <1>2, <1>7, <2>1
  <2>3. CASE j < i
    <3>1. j \in 1..Len(r)
      BY <2>1, <2>2, <2>3
    <3> QED
      BY <1>2, <2>1, <2>3, <3>1
  <2>4. CASE ~(j < i)
    <3>1. j - 1 \in 1..Len(r) /\ ~(j - 1 < i) /\ j - 1 + 1 = j
      BY <2>1, <2>2, <2>4
    <3>2. r[j - 1] = q[j]
      BY <1>2, <3>1
    <3> QED
      BY <2>1, <3>1, <3>2
  <2> QED
    BY <2>3, <2>4
<1> QED
  <2>1. Recent(r, p, U \ {q[i].token})
    BY <1>7 DEF Recent
  <2> QED
    BY <1>1, <1>2, <1>5, <1>6, <2>1 DEF Kept

LEMMA KeptWith ==
    ASSUME NEW q, NEW p, Kept(q, p), Len(q) <= MaxIssued, NEW e \in Promises,
           \A n \in 1..Len(p) : p[n].token # e.token,
           NEW r, r = Longer(q, e), NEW s, s = Append(p, e),
           NEW U, Recent(q, p, U)
    PROVE  Kept(r, s) /\ Recent(r, s, U)
<1>1. q \in Seq(Promises) /\ p \in Seq(Promises)
  BY DEF Kept
<1>k. PICK k : k = Driven(q)
  OBVIOUS
<1>2. /\ k \in {0, 1} /\ (k = 1 => Len(q) = MaxIssued)
      /\ r \in Seq(Promises) /\ Len(r) = Len(q) + 1 - k /\ Len(r) <= MaxIssued
      /\ \A j \in 1..(Len(r) - 1) : r[j] = q[j + k]
      /\ r[Len(r)] = e
      /\ Len(q) \in Nat
  <2>1. CASE Len(q) < MaxIssued
    <3>1. r = Append(q, e) /\ k = 0
      BY <1>k, <2>1 DEF Remembered, Longer, Driven
    <3> QED
      BY <1>1, <2>1, <3>1, ActivationAssumption
  <2>2. CASE ~(Len(q) < MaxIssued)
    <3>1. Len(q) = MaxIssued /\ Len(q) \in Nat \ {0} /\ q # <<>>
      BY <1>1, <2>2, ActivationAssumption
    <3>2. PICK t : t = Tail(q)
      OBVIOUS
    <3>3. t \in Seq(Promises) /\ Len(t) = Len(q) - 1 /\ \A j \in 1..Len(t) : t[j] = q[j + 1]
      BY <1>1, <3>1, <3>2
    <3>4. r = Append(t, e) /\ k = 1
      BY <1>k, <2>2, <3>2 DEF Remembered, Longer, Driven
    <3> QED
      BY <1>1, <3>1, <3>3, <3>4
  <2> QED
    BY <2>1, <2>2
<1>3. /\ s \in Seq(Promises) /\ Len(s) = Len(p) + 1 /\ Len(p) \in Nat
      /\ \A n \in 1..Len(p) : s[n] = p[n]
      /\ s[Len(p) + 1] = e
  BY <1>1
<1>4. \A m, n \in 1..Len(s) : s[m].token = s[n].token => m = n
  <2>1. ASSUME NEW m \in 1..Len(s), NEW n \in 1..Len(s), s[m].token = s[n].token
        PROVE  m = n
    <3>1. CASE m \in 1..Len(p) /\ n \in 1..Len(p)
      BY <1>3, <2>1, <3>1 DEF Kept
    <3>2. CASE m = Len(p) + 1 /\ n \in 1..Len(p)
      BY <1>3, <2>1, <3>2
    <3>3. CASE n = Len(p) + 1 /\ m \in 1..Len(p)
      BY <1>3, <2>1, <3>3
    <3> QED
      BY <1>3, <3>1, <3>2, <3>3
  <2> QED
    BY <2>1
<1>5. ASSUME NEW j \in 1..Len(r), j # Len(r)
      PROVE  /\ j \in 1..(Len(r) - 1) /\ j + k \in 1..Len(q) /\ r[j] = q[j + k]
             /\ r[j].token # e.token
  <2>3. Len(r) \in Int /\ Len(q) \in Int /\ k \in {0, 1} /\ Len(r) = Len(q) + 1 - k /\ j \in Int
    BY <1>2
  <2>4. j \in 1..(Len(r) - 1) /\ j + k \in 1..Len(q)
    BY <1>5, <2>3
  <2>1. j \in 1..(Len(r) - 1) /\ j + k \in 1..Len(q) /\ r[j] = q[j + k]
    BY <1>2, <2>4
  <2>2. PICK m \in 1..Len(p) : p[m].token = q[j + k].token
    BY <2>1 DEF Kept
  <2> QED
    BY <2>1, <2>2
<1>6. \A i, j \in 1..Len(r) : r[i].token = r[j].token => i = j
  <2>1. ASSUME NEW i \in 1..Len(r), NEW j \in 1..Len(r), r[i].token = r[j].token
        PROVE  i = j
    <3>1. CASE i = Len(r) \/ j = Len(r)
      BY <1>2, <1>5, <2>1, <3>1
    <3>2. CASE i # Len(r) /\ j # Len(r)
      <4>1. i + k \in 1..Len(q) /\ j + k \in 1..Len(q) /\ q[i + k].token = q[j + k].token
        BY <1>5, <2>1, <3>2
      <4>2. i + k = j + k
        BY <4>1 DEF Kept
      <4> QED
        BY <1>2, <4>2
    <3> QED
      BY <3>1, <3>2
  <2> QED
    BY <2>1
<1>7. ASSUME NEW j \in 1..Len(r)
      PROVE  \E m \in 1..Len(s) :
                /\ s[m].token = r[j].token /\ (s[m].granted <=> r[j].granted)
                /\ (r[j].by # NoAsker => s[m].by = r[j].by)
                /\ m + Len(r) - j <= Len(s)
  <2>1. CASE j = Len(r)
    <3>1. Len(p) + 1 \in 1..Len(s) /\ Len(p) + 1 + Len(r) - j <= Len(s)
      BY <1>2, <1>3, <2>1
    <3> QED
      BY <1>2, <1>3, <2>1, <3>1
  <2>2. CASE j # Len(r)
    <3>1. j + k \in 1..Len(q) /\ r[j] = q[j + k] /\ j \in Int
      BY <1>2, <1>5, <2>2
    <3>2. PICK m \in 1..Len(p) :
                /\ p[m].token = q[j + k].token /\ (p[m].granted <=> q[j + k].granted)
                /\ (q[j + k].by # NoAsker => p[m].by = q[j + k].by)
                /\ m + Len(q) - (j + k) <= Len(p)
      BY <3>1 DEF Kept
    <3>3. m \in 1..Len(s) /\ s[m] = p[m] /\ m + Len(r) - j <= Len(s)
      <4>1. m \in 1..Len(p) /\ Len(p) \in Nat /\ Len(q) \in Nat /\ j \in Int /\ k \in {0, 1}
            /\ Len(s) = Len(p) + 1 /\ Len(r) = Len(q) + 1 - k /\ m + Len(q) - (j + k) <= Len(p)
        BY <1>2, <1>3, <3>1, <3>2
      <4>2. m \in 1..Len(s) /\ m + Len(r) - j <= Len(s)
        BY <4>1
      <4> QED
        BY <1>3, <4>1, <4>2
    <3> QED
      BY <3>1, <3>2, <3>3
  <2> QED
    BY <2>1, <2>2
<1>8. ASSUME NEW n \in 1..Len(s), s[n].token \in U, Len(s) - n < MaxIssued
      PROVE  \E j \in 1..Len(r) : r[j].token = s[n].token /\ (r[j].granted <=> s[n].granted)
  <2>1. CASE n = Len(s)
    <3>1. Len(r) \in 1..Len(r) /\ s[n] = e
      BY <1>2, <1>3, <2>1, ActivationAssumption
    <3> QED
      BY <1>2, <3>1
  <2>2. CASE n # Len(s)
    <3>1. n \in 1..Len(p) /\ s[n] = p[n] /\ Len(p) - n < MaxIssued - 1
      BY <1>3, <1>8, <2>2, ActivationAssumption
    <3>2. Len(p) - n < MaxIssued
      BY <1>3, <3>1, ActivationAssumption
    <3>3. PICK i \in 1..Len(q) : q[i].token = p[n].token /\ (q[i].granted <=> p[n].granted)
      BY <1>8, <3>1, <3>2 DEF Recent
    <3>4. PICK m \in 1..Len(p) : p[m].token = q[i].token /\ m + Len(q) - i <= Len(p)
      BY DEF Kept
    <3>5. m = n
      BY <3>1, <3>3, <3>4 DEF Kept
    <3>6. /\ n \in Int /\ i \in Int /\ 1 <= i /\ i <= Len(q) /\ Len(q) \in Int /\ Len(p) \in Int
          /\ k \in {0, 1} /\ (k = 1 => Len(q) = MaxIssued) /\ Len(r) = Len(q) + 1 - k
          /\ n + Len(q) - i <= Len(p) /\ Len(p) - n < MaxIssued - 1 /\ MaxIssued \in Int
      BY <1>2, <1>3, <3>1, <3>4, <3>5, ActivationAssumption
    <3>7. i - k \in 1..(Len(r) - 1) /\ i - k + k = i /\ i - k \in 1..Len(r)
      BY <3>6
    <3>8. r[i - k] = q[i]
      BY <1>2, <3>7
    <3> QED
      BY <3>1, <3>3, <3>7, <3>8
  <2> QED
    BY <2>1, <2>2
<1> QED
  <2>1. Recent(r, s, U)
    BY <1>8 DEF Recent
  <2> QED
    BY <1>2, <1>3, <1>4, <1>6, <1>7, <2>1 DEF Kept

\* A list that forgot who asked for some of its tokens.
LEMMA KeptNameless ==
    ASSUME NEW q, NEW p, Kept(q, p), NEW U, Recent(q, p, U), NEW r \in Seq(Promises),
           Len(r) = Len(q),
           \A i \in 1..Len(q) : /\ r[i].token = q[i].token /\ (r[i].granted <=> q[i].granted)
                                /\ r[i].by \in {q[i].by, NoAsker}
    PROVE  Kept(r, p) /\ Recent(r, p, U)
<1>1. ASSUME NEW i \in 1..Len(r)
      PROVE  \E m \in 1..Len(p) :
                /\ p[m].token = r[i].token /\ (p[m].granted <=> r[i].granted)
                /\ (r[i].by # NoAsker => p[m].by = r[i].by)
                /\ m + Len(r) - i <= Len(p)
  <2>1. i \in 1..Len(q)
    OBVIOUS
  <2>2. PICK m \in 1..Len(p) :
                /\ p[m].token = q[i].token /\ (p[m].granted <=> q[i].granted)
                /\ (q[i].by # NoAsker => p[m].by = q[i].by)
                /\ m + Len(q) - i <= Len(p)
    BY <2>1 DEF Kept
  <2> QED
    BY <2>1, <2>2
<1>2. Recent(r, p, U)
  BY DEF Recent
<1>3. \A i, j \in 1..Len(r) : r[i].token = r[j].token => i = j
  BY DEF Kept
<1> QED
  BY <1>1, <1>2, <1>3 DEF Kept

Unspent == {d \in Drafts : judged[d].times = 0}

\* What was reported of a token when it was spent, against what was promised.
Reported(j, d, p) ==
    /\ j.valid <= 1 /\ (j.times = 0 => j.valid = 0)
    /\ (j.valid = 1 => \E n \in 1..Len(p) : p[n].token = d /\ p[n].granted)
    /\ (j.by # NoAsker => \E n \in 1..Len(p) : p[n].token = d /\ p[n].by = j.by)

TokensInv ==
    /\ ActivationTypeOK
    /\ Kept(issued, minted) /\ Recent(issued, minted, Unspent)
    /\ \A n \in 1..Len(minted) : drafts[minted[n].token].step = "committed"
    /\ \A i \in 1..Len(issued) : judged[issued[i].token].times = 0
    /\ \A d \in Drafts : judged[d].times > 0 => drafts[d].step = "committed"
    /\ \A d \in Drafts : Reported(judged[d], d, minted)
    /\ \A d \in Drafts : drafts[d].by \in extant \cup {NoAsker}
    /\ \A i \in 1..Len(issued) : issued[i].by \in extant \cup {NoAsker}

LEMMA TokensInvSays == TokensInv => TokensHonest
<1> SUFFICES ASSUME TokensInv PROVE TokensHonest
  OBVIOUS
<1>1. /\ issued \in Seq(Promises) /\ minted \in Seq(Promises)
      /\ DOMAIN issued = 1..Len(issued) /\ DOMAIN minted = 1..Len(minted)
  BY DEF TokensInv, ActivationTypeOK
<1>2. SpentOnce
  BY <1>1 DEF SpentOnce, TokensInv, Reported
<1>3. AskersLive
  BY <1>1 DEF AskersLive, TokensInv
<1>4. RecentRemembered
  <2>1. ASSUME NEW n \in 1..Len(minted), judged[minted[n].token].times = 0,
               Len(minted) - n < MaxIssued
        PROVE  \E i \in 1..Len(issued) :
                  issued[i].token = minted[n].token /\ issued[i].granted = minted[n].granted
    <3>1. minted[n] \in Promises /\ minted[n].token \in Drafts /\ minted[n].granted \in BOOLEAN
      BY <1>1, <2>1, PromiseOf
    <3>2. PICK i \in 1..Len(issued) : /\ issued[i].token = minted[n].token
                                      /\ (issued[i].granted <=> minted[n].granted)
      BY <2>1, <3>1 DEF TokensInv, Recent, Unspent
    <3>3. issued[i] \in Promises /\ issued[i].granted \in BOOLEAN
      BY <1>1, <3>2, PromiseOf
    <3> QED
      BY <3>1, <3>2, <3>3
  <2> QED
    BY <1>1, <2>1 DEF RecentRemembered
<1> QED
  BY <1>2, <1>3, <1>4 DEF TokensHonest

\* Calls that touch no token and none of what was reported of one.
LEMMA AsideStep ==
    ASSUME TokensInv, ActivationTypeOK', UNCHANGED <<issued, minted, judged>>,
           \A d \in Drafts : drafts[d].step = "committed" => drafts'[d].step = "committed",
           \A d \in Drafts : drafts'[d].by \in extant \cup {NoAsker}, UNCHANGED extant
    PROVE  TokensInv'
<1>1. \A n \in 1..Len(minted) : minted[n].token \in Drafts
  BY PromiseOf DEF TokensInv, ActivationTypeOK
<1>2. Unspent' = Unspent
  BY DEF Unspent
<1> QED
  BY <1>1, <1>2 DEF TokensInv

LEMMA CommitTokenStep ==
    ASSUME TokensInv, NEW d \in Drafts, CommitToken(d)
    PROVE  TokensInv'
<1>e. PICK e : e = [token |-> d, by |-> drafts[d].by, granted |-> willing]
  OBVIOUS
<1>q. PICK q : q = issued
  OBVIOUS
<1>p. PICK p : p = minted
  OBVIOUS
<1>r. PICK r : r = Longer(q, e)
  OBVIOUS
<1>s. PICK s : s = Append(p, e)
  OBVIOUS
<1>1. /\ drafts \in [Drafts -> [step : {"none", "open", "committed"}, by : Askers \cup {NoAsker}]]
      /\ willing \in BOOLEAN /\ q \in Seq(Promises) /\ p \in Seq(Promises) /\ Len(q) <= MaxIssued
  BY <1>q, <1>p DEF TokensInv, ActivationTypeOK
<1>2. e \in Promises /\ e.token = d /\ e.by = drafts[d].by
  BY <1>e, <1>1 DEF Promises
<1>3. /\ issued' = r /\ minted' = s /\ UNCHANGED <<willing, extant, judged>>
      /\ drafts' = [drafts EXCEPT ![d].step = "committed"] /\ drafts[d].step = "open"
  BY <1>e, <1>q, <1>p, <1>r, <1>s DEF CommitToken, Longer
<1>4. \A n \in 1..Len(p) : p[n].token # e.token
  BY <1>2, <1>3, <1>p DEF TokensInv
<1>5. Kept(r, s) /\ Recent(r, s, Unspent)
  <2>1. PICK U : U = Unspent
    OBVIOUS
  <2>2. Kept(q, p) /\ Recent(q, p, U)
    BY <1>q, <1>p, <2>1 DEF TokensInv
  <2>3. Kept(r, s) /\ Recent(r, s, U)
    BY <1>1, <1>2, <1>4, <1>r, <1>s, <2>2, KeptWith
  <2> QED
    BY <2>1, <2>3
<1>6. /\ r \in Seq(Promises) /\ s \in Seq(Promises) /\ Len(r) <= MaxIssued
      /\ \A j \in 1..Len(r) : r[j] = e \/ \E i \in 1..Len(q) : r[j] = q[i]
      /\ Len(s) = Len(p) + 1 /\ Len(p) \in Nat
      /\ \A n \in 1..Len(p) : s[n] = p[n]
      /\ s[Len(p) + 1] = e
  <2>1. /\ s \in Seq(Promises) /\ Len(s) = Len(p) + 1 /\ Len(p) \in Nat
        /\ \A n \in 1..Len(p) : s[n] = p[n]
        /\ s[Len(p) + 1] = e
    BY <1>1, <1>2, <1>s
  <2>2. CASE Len(q) < MaxIssued
    <3>1. r = Append(q, e)
      BY <1>r, <2>2 DEF Remembered, Longer
    <3> QED
      BY <1>1, <1>2, <2>1, <2>2, <3>1, ActivationAssumption
  <2>3. CASE ~(Len(q) < MaxIssued)
    <3>1. Len(q) = MaxIssued /\ Len(q) \in Nat \ {0} /\ q # <<>>
      BY <1>1, <2>3, ActivationAssumption
    <3>2. PICK t : t = Tail(q)
      OBVIOUS
    <3>3. t \in Seq(Promises) /\ Len(t) = Len(q) - 1 /\ \A j \in 1..Len(t) : t[j] = q[j + 1]
      BY <1>1, <3>1, <3>2
    <3>4. r = Append(t, e)
      BY <1>r, <2>3, <3>2 DEF Remembered, Longer
    <3>5. \A j \in 1..Len(t) : t[j] = q[j + 1] /\ j + 1 \in 1..Len(q)
      BY <3>1, <3>3
    <3> QED
      BY <1>2, <2>1, <3>1, <3>3, <3>4, <3>5
  <2> QED
    BY <2>2, <2>3
<1>7. /\ \A c \in Drafts : drafts'[c].step = IF c = d THEN "committed" ELSE drafts[c].step
      /\ \A c \in Drafts : drafts'[c].by = drafts[c].by
      /\ drafts' \in [Drafts -> [step : {"none", "open", "committed"}, by : Askers \cup {NoAsker}]]
  BY <1>1, <1>3
<1>8. \A n \in 1..Len(s) : drafts'[s[n].token].step = "committed"
  <2>1. \A n \in 1..Len(p) : p[n].token \in Drafts /\ drafts[p[n].token].step = "committed"
    BY <1>1, <1>p, PromiseOf DEF TokensInv
  <2> QED
    BY SMTT(30), <1>2, <1>6, <1>7, <2>1
<1>9. judged[d].times = 0
  BY SMTT(30), <1>3 DEF TokensInv, ActivationTypeOK
<1>10. \A j \in 1..Len(r) : /\ judged[r[j].token].times = 0
                            /\ r[j].by \in extant \cup {NoAsker}
  BY <1>2, <1>6, <1>9, <1>q DEF TokensInv
<1>11. \A c \in Drafts : Reported(judged[c], c, s)
  <2>1. ASSUME NEW c \in Drafts PROVE Reported(judged[c], c, s)
    <3>1. Reported(judged[c], c, p)
      BY <1>p DEF TokensInv
    <3> QED
      BY <1>6, <3>1 DEF Reported
  <2> QED
    BY <2>1
<1>12. ActivationTypeOK'
  BY <1>3, <1>6, <1>7 DEF TokensInv, ActivationTypeOK
<1>13. /\ \A c \in Drafts : judged[c].times > 0 => drafts'[c].step = "committed"
       /\ \A c \in Drafts : drafts'[c].by \in extant \cup {NoAsker}
  BY <1>7 DEF TokensInv
<1>14. Kept(issued, minted)' /\ Recent(issued, minted, Unspent)'
  <2>1. Unspent' = Unspent
    BY <1>3 DEF Unspent
  <2> QED
    BY <1>3, <1>5, <2>1
<1> QED
  BY <1>3, <1>8, <1>10, <1>11, <1>12, <1>13, <1>14 DEF TokensInv

LEMMA DraftsSet ==
    ASSUME TokensInv, NEW d \in Drafts
    PROVE  /\ drafts \in [Drafts -> [step : {"none", "open", "committed"},
                                     by : Askers \cup {NoAsker}]]
           /\ judged \in [Drafts -> [times : 0..2, valid : 0..2, by : Askers \cup {NoAsker}]]
           /\ extant \subseteq Askers
  BY DEF TokensInv, ActivationTypeOK

LEMMA NameAskerStep ==
    ASSUME TokensInv, NEW d \in Drafts, NEW s \in Askers, NameAsker(d, s)
    PROVE  TokensInv'
<1>1. /\ drafts' \in [Drafts -> [step : {"none", "open", "committed"}, by : Askers \cup {NoAsker}]]
      /\ \A c \in Drafts : drafts[c].step = "committed" => drafts'[c].step = "committed"
      /\ \A c \in Drafts : drafts'[c].by = drafts[c].by \/ drafts'[c].by \in extant
  BY DraftsSet DEF NameAsker
<1>2. UNCHANGED <<issued, willing, extant, minted, judged>>
  BY DEF NameAsker
<1>3. ActivationTypeOK'
  BY <1>1, <1>2 DEF TokensInv, ActivationTypeOK
<1>4. \A c \in Drafts : drafts'[c].by \in extant \cup {NoAsker}
  BY <1>1 DEF TokensInv
<1> QED
  BY <1>1, <1>2, <1>3, <1>4, AsideStep

LEMMA SetGrantTokensStep ==
    ASSUME TokensInv, NEW grant \in BOOLEAN, SetGrantTokens(grant)
    PROVE  TokensInv'
<1>1. UNCHANGED <<drafts, issued, extant, minted, judged>> /\ willing' \in BOOLEAN
  BY DEF SetGrantTokens
<1>2. ActivationTypeOK'
  BY <1>1 DEF TokensInv, ActivationTypeOK
<1> QED
  BY <1>1, <1>2, AsideStep DEF TokensInv

LEMMA AskerGoneStep ==
    ASSUME TokensInv, NEW s \in Askers, AskerGone(s)
    PROVE  TokensInv'
<1>q. PICK q : q = issued
  OBVIOUS
<1>r. PICK r : r = issued'
  OBVIOUS
<1>1. /\ UNCHANGED <<willing, minted, judged>> /\ extant' = extant \ {s}
      /\ drafts' = [d \in Drafts |->
                       IF drafts[d].by = s THEN [drafts[d] EXCEPT !.by = NoAsker] ELSE drafts[d]]
      /\ r = [i \in DOMAIN q |-> IF q[i].by = s THEN [q[i] EXCEPT !.by = NoAsker] ELSE q[i]]
  BY <1>q, <1>r DEF AskerGone
<1>2. q \in Seq(Promises) /\ DOMAIN q = 1..Len(q) /\ Len(q) \in Nat /\ Len(q) <= MaxIssued
  BY <1>q DEF TokensInv, ActivationTypeOK
<1>3. ASSUME NEW i \in 1..Len(q)
      PROVE  /\ r[i] \in Promises /\ r[i].token = q[i].token /\ (r[i].granted <=> q[i].granted)
             /\ r[i].by = IF q[i].by = s THEN NoAsker ELSE q[i].by
  <2>1. q[i] \in Promises
    BY <1>2, PromiseOf
  <2>2. CASE q[i].by = s
    <3>1. r[i] = [q[i] EXCEPT !.by = NoAsker]
      BY <1>1, <1>2, <2>2
    <3>2. r[i] \in Promises /\ r[i].token = q[i].token /\ r[i].by = NoAsker
      BY <2>1, <3>1 DEF Promises
    <3>3. r[i].granted <=> q[i].granted
      BY <2>1, <3>1 DEF Promises
    <3> QED
      BY <2>2, <3>2, <3>3
  <2>3. CASE q[i].by # s
    BY <1>1, <1>2, <2>1, <2>3
  <2> QED
    BY <2>2, <2>3
<1>4. r \in Seq(Promises) /\ Len(r) = Len(q)
  <2>1. r = [i \in 1..Len(q) |-> r[i]]
    BY <1>1, <1>2
  <2> QED
    BY <1>2, <1>3, <2>1
<1>5. Kept(issued, minted)' /\ Recent(issued, minted, Unspent)'
  <2>1. PICK U : U = Unspent
    OBVIOUS
  <2>2. Kept(q, minted) /\ Recent(q, minted, U)
    BY <1>q, <2>1 DEF TokensInv
  <2>3. \A i \in 1..Len(q) : /\ r[i].token = q[i].token /\ (r[i].granted <=> q[i].granted)
                             /\ r[i].by \in {q[i].by, NoAsker}
    BY <1>3
  <2>4. Kept(r, minted) /\ Recent(r, minted, U)
    BY <1>4, <2>2, <2>3, KeptNameless
  <2>5. Unspent' = U
    BY <1>1, <2>1 DEF Unspent
  <2> QED
    BY <1>1, <1>r, <2>4, <2>5
<1>6. /\ drafts' \in [Drafts -> [step : {"none", "open", "committed"}, by : Askers \cup {NoAsker}]]
      /\ \A d \in Drafts : /\ drafts'[d].step = drafts[d].step
                           /\ drafts'[d].by = IF drafts[d].by = s THEN NoAsker ELSE drafts[d].by
  <2>1. drafts \in [Drafts -> [step : {"none", "open", "committed"}, by : Askers \cup {NoAsker}]]
    BY DEF TokensInv, ActivationTypeOK
  <2> QED
    BY <1>1, <2>1
<1>7. ActivationTypeOK'
  BY <1>1, <1>2, <1>4, <1>6, <1>r DEF TokensInv, ActivationTypeOK
<1>8. \A n \in 1..Len(minted) : minted[n].token \in Drafts
  BY PromiseOf DEF TokensInv, ActivationTypeOK
<1>9. \A d \in Drafts : drafts'[d].by \in extant' \cup {NoAsker}
  BY <1>1, <1>6 DEF TokensInv
<1>10. \A i \in 1..Len(r) : r[i].by \in extant' \cup {NoAsker} /\ judged[r[i].token].times = 0
  BY <1>1, <1>3, <1>4, <1>q DEF TokensInv
<1> QED
  BY <1>1, <1>5, <1>6, <1>7, <1>8, <1>9, <1>10, <1>r DEF TokensInv

LEMMA ActivateWindowStep ==
    ASSUME TokensInv, NEW d \in Drafts, NEW s \in Askers, ActivateWindow(d, s)
    PROVE  TokensInv'
<1>q. PICK q : q = issued
  OBVIOUS
<1>j. PICK j : j = judged[d]
  OBVIOUS
<1>k. PICK k : k = judged'[d]
  OBVIOUS
<1>1. /\ UNCHANGED <<drafts, willing, extant, minted>>
      /\ drafts[d].step = "committed" /\ j.times < 2
      /\ j \in [times : 0..2, valid : 0..2, by : Askers \cup {NoAsker}]
      /\ judged \in [Drafts -> [times : 0..2, valid : 0..2, by : Askers \cup {NoAsker}]]
  BY <1>j DEF ActivateWindow, TokensInv, ActivationTypeOK
<1>2. q \in Seq(Promises) /\ DOMAIN q = 1..Len(q) /\ Len(q) \in Nat /\ Len(q) <= MaxIssued
      /\ minted \in Seq(Promises)
  BY <1>q DEF TokensInv, ActivationTypeOK
<1>3. Reported(j, d, minted) /\ Kept(q, minted) /\ Recent(q, minted, Unspent)
  BY <1>j, <1>q DEF TokensInv
<1>4. ASSUME NEW r, r = issued', r \in Seq(Promises), Len(r) <= MaxIssued,
             \A i \in 1..Len(r) : r[i].token # d /\ \E h \in 1..Len(q) : r[i] = q[h],
             Kept(r, minted), Recent(r, minted, Unspent \ {d}),
             judged' = [judged EXCEPT ![d] = k],
             k \in [times : 0..2, valid : 0..2, by : Askers \cup {NoAsker}],
             k.times = j.times + 1, Reported(k, d, minted)
      PROVE  TokensInv'
  <2>1. /\ judged' \in [Drafts -> [times : 0..2, valid : 0..2, by : Askers \cup {NoAsker}]]
        /\ judged'[d] = k /\ \A c \in Drafts \ {d} : judged'[c] = judged[c]
    BY <1>1, <1>4
  <2>2. Unspent' = Unspent \ {d}
    <3>1. k.times # 0
      BY <1>1, <1>4
    <3> QED
      BY <2>1, <3>1 DEF Unspent
  <2>3. ActivationTypeOK'
    BY <1>1, <1>4, <2>1 DEF TokensInv, ActivationTypeOK
  <2>4. Kept(issued, minted)' /\ Recent(issued, minted, Unspent)'
    BY <1>1, <1>4, <2>2
  <2>5. ASSUME NEW i \in 1..Len(r)
        PROVE  judged'[r[i].token].times = 0 /\ r[i].by \in extant \cup {NoAsker}
    <3>1. PICK h \in 1..Len(q) : r[i] = q[h]
      BY <1>4
    <3>2. r[i].token \in Drafts \ {d}
      BY <1>4, PromiseOf
    <3> QED
      BY <1>q, <2>1, <3>1, <3>2 DEF TokensInv
  <2>6. \A c \in Drafts : Reported(judged'[c], c, minted)
    BY <1>4, <2>1 DEF TokensInv
  <2>7. \A c \in Drafts : judged'[c].times > 0 => drafts[c].step = "committed"
    BY <1>1, <2>1 DEF TokensInv
  <2> QED
    BY <1>1, <1>4, <2>1, <2>3, <2>4, <2>5, <2>6, <2>7 DEF TokensInv
<1>5. ASSUME NEW i \in 1..Len(q), q[i].token = d, issued' = Spent(i),
             judged' = [judged EXCEPT ![d] =
                [times |-> @.times + 1, by |-> q[i].by,
                 valid |-> IF q[i].granted THEN @.valid + 1 ELSE @.valid]]
      PROVE  TokensInv'
  <2>1. PICK r : r = RemoveAt(q, i)
    OBVIOUS
  <2>2. /\ r \in Seq(Promises) /\ Len(r) = Len(q) - 1 /\ Len(q) \in Nat
        /\ \A h \in 1..Len(r) : r[h] = IF h < i THEN q[h] ELSE q[h + 1]
    BY <1>2, <2>1, RemovedIs
  <2>3. PICK U : U = Unspent
    OBVIOUS
  <2>4. Kept(r, minted) /\ Recent(r, minted, U \ {d})
    BY <1>3, <1>5, <2>1, <2>3, KeptWithout
  <2>5. ASSUME NEW h \in 1..Len(r)
        PROVE  r[h].token # d /\ \E g \in 1..Len(q) : r[h] = q[g]
    <3>1. CASE h < i
      <4>1. h \in 1..Len(q) /\ h # i /\ r[h] = q[h]
        BY <2>2, <3>1
      <4>2. q[h].token # d
        BY ONLY <1>3, <1>5, <4>1 DEF Kept
      <4> QED
        BY ONLY <4>1, <4>2
    <3>2. CASE ~(h < i)
      <4>1. h + 1 \in 1..Len(q) /\ h + 1 # i /\ r[h] = q[h + 1]
        BY <2>2, <3>2
      <4>2. q[h + 1].token # d
        BY ONLY <1>3, <1>5, <4>1 DEF Kept
      <4> QED
        BY ONLY <4>1, <4>2
    <3> QED
      BY <3>1, <3>2
  <2>6. j.times = 0 /\ j.valid = 0
    BY <1>3, <1>5, <1>j, <1>q DEF TokensInv, Reported
  <2>7. q[i].by \in Askers \cup {NoAsker}
    BY <1>2, PromiseOf
  <2>8. /\ k = [times |-> 1, by |-> q[i].by, valid |-> IF q[i].granted THEN 1 ELSE 0]
        /\ judged' = [judged EXCEPT ![d] = k]
    <3>1. judged'[d] = [times |-> j.times + 1, by |-> q[i].by,
                        valid |-> IF q[i].granted THEN j.valid + 1 ELSE j.valid]
      BY <1>1, <1>5, <1>j
    <3>2. judged' = [judged EXCEPT ![d] = k]
      BY <1>1, <1>5, <1>k
    <3>3. CASE q[i].granted
      <4>1. k = [times |-> 1, by |-> q[i].by, valid |-> 1]
        BY ONLY <1>k, <2>6, <3>1, <3>3
      <4> QED
        BY ONLY <3>2, <3>3, <4>1
    <3>4. CASE ~q[i].granted
      <4>1. k = [times |-> 1, by |-> q[i].by, valid |-> 0]
        BY ONLY <1>k, <2>6, <3>1, <3>4
      <4> QED
        BY ONLY <3>2, <3>4, <4>1
    <3> QED
      BY ONLY <3>3, <3>4
  <2>9. k \in [times : 0..2, valid : 0..2, by : Askers \cup {NoAsker}] /\ k.times = j.times + 1
    BY <2>6, <2>7, <2>8
  <2>10. PICK m \in 1..Len(minted) :
            /\ minted[m].token = d /\ (minted[m].granted <=> q[i].granted)
            /\ (q[i].by # NoAsker => minted[m].by = q[i].by)
    BY <1>3, <1>5 DEF Kept
  <2>11. Reported(k, d, minted)
    BY <2>8, <2>10 DEF Reported
  <2>12. r = issued' /\ Len(r) <= MaxIssued
    BY <1>2, <1>5, <1>q, <2>1, <2>2, ActivationAssumption DEF Spent
  <2> QED
    BY <1>4, <2>2, <2>3, <2>4, <2>5, <2>8, <2>9, <2>11, <2>12
<1>6. ASSUME \A i \in 1..Len(q) : q[i].token # d, issued' = q,
             judged' = [judged EXCEPT ![d].times = @ + 1]
      PROVE  TokensInv'
  <2>1. k = [j EXCEPT !.times = @ + 1] /\ judged' = [judged EXCEPT ![d] = k]
    BY <1>1, <1>6, <1>j, <1>k
  <2>2. /\ k \in [times : 0..2, valid : 0..2, by : Askers \cup {NoAsker}]
        /\ k.times = j.times + 1 /\ k.valid = j.valid /\ k.by = j.by
    BY <1>1, <2>1
  <2>3. Reported(k, d, minted)
    BY <1>1, <1>3, <2>2 DEF Reported
  <2>4. Recent(q, minted, Unspent \ {d})
    BY <1>3 DEF Recent
  <2> QED
    BY <1>2, <1>3, <1>4, <1>6, <2>1, <2>2, <2>3, <2>4
<1> QED
  <2>1. \/ \E i \in DOMAIN q :
             /\ q[i].token = d
             /\ judged' = [judged EXCEPT ![d] =
                    [times |-> @.times + 1, by |-> q[i].by,
                     valid |-> IF q[i].granted THEN @.valid + 1 ELSE @.valid]]
             /\ issued' = Spent(i)
        \/ /\ \A i \in DOMAIN q : q[i].token # d
           /\ judged' = [judged EXCEPT ![d].times = @ + 1]
           /\ issued' = q
    BY <1>q DEF ActivateWindow
  <2> QED
    BY <1>2, <1>5, <1>6, <2>1

LEMMA TokensStep ==
    ASSUME TokensInv, [ActivationNext]_activationVars
    PROVE  TokensInv'
<1>1. CASE UNCHANGED activationVars
  <2>1. UNCHANGED <<drafts, issued, willing, extant, minted, judged>>
    BY <1>1 DEF activationVars
  <2>2. ActivationTypeOK'
    BY <2>1 DEF TokensInv, ActivationTypeOK
  <2> QED
    BY <2>1, <2>2, AsideStep DEF TokensInv
<1>2. ASSUME NEW d \in Drafts, CommitToken(d)
      PROVE  TokensInv'
  BY <1>2, CommitTokenStep
<1>3. ASSUME NEW d \in Drafts, GetToken(d) \/ CommitUnminted(d)
      PROVE  TokensInv'
  <2>2. /\ drafts' \in [Drafts -> [step : {"none", "open", "committed"},
                                   by : Askers \cup {NoAsker}]]
        /\ \A c \in Drafts : drafts[c].step = "committed" => drafts'[c].step = "committed"
        /\ \A c \in Drafts : drafts'[c].by = drafts[c].by
    <3>1. CASE GetToken(d)
      BY <3>1, DraftsSet DEF GetToken
    <3>2. CASE CommitUnminted(d)
      BY <3>2, DraftsSet DEF CommitUnminted
    <3> QED
      BY <1>3, <3>1, <3>2
  <2>3. UNCHANGED <<issued, willing, extant, minted, judged>>
    BY <1>3 DEF GetToken, CommitUnminted
  <2>4. ActivationTypeOK'
    BY <2>2, <2>3 DEF TokensInv, ActivationTypeOK
  <2> QED
    BY <2>2, <2>3, <2>4, AsideStep DEF TokensInv
<1>4. ASSUME NEW d \in Drafts, NEW s \in Askers, NameAsker(d, s) \/ ActivateWindow(d, s)
      PROVE  TokensInv'
  BY <1>4, NameAskerStep, ActivateWindowStep
<1>5. ASSUME NEW s \in Askers, AskerGone(s)
      PROVE  TokensInv'
  BY <1>5, AskerGoneStep
<1>6. ASSUME NEW grant \in BOOLEAN, SetGrantTokens(grant)
      PROVE  TokensInv'
  BY <1>6, SetGrantTokensStep
<1> QED
  BY <1>1, <1>2, <1>3, <1>4, <1>5, <1>6 DEF ActivationNext

LEMMA TokensBegin == ActivationInit => TokensInv
<1> SUFFICES ASSUME ActivationInit PROVE TokensInv
  OBVIOUS
<1>1. /\ issued = <<>> /\ minted = <<>> /\ Len(issued) = 0 /\ Len(minted) = 0
      /\ issued \in Seq(Promises) /\ minted \in Seq(Promises)
  BY DEF ActivationInit
<1>2. /\ \A d \in Drafts : drafts[d].by = NoAsker /\ judged[d].times = 0
      /\ \A d \in Drafts : judged[d].valid = 0 /\ judged[d].by = NoAsker
  BY DEF ActivationInit, Unheard
<1>3. ActivationTypeOK
  BY <1>1, ActivationAssumption DEF ActivationInit, ActivationTypeOK, Unheard
<1>4. \A d \in Drafts : Reported(judged[d], d, minted)
  BY <1>2 DEF Reported
<1>5. Kept(issued, minted) /\ Recent(issued, minted, Unspent)
  BY <1>1 DEF Kept, Recent
<1> QED
  BY <1>1, <1>2, <1>3, <1>4, <1>5 DEF TokensInv

LEMMA TokensInvariance == ActivationSpec => []TokensInv
<1>1. TokensInv /\ [ActivationNext]_activationVars => TokensInv'
  BY TokensStep
<1> QED
  BY TokensBegin, <1>1, PTL DEF ActivationSpec

\* A token is good once, as it was promised, and is not forgotten while fewer than
\* MaxIssued others were handed out after it; what waits names no surface that is gone.
THEOREM TokensAreHonest == ActivationSpec => []TokensHonest
  BY TokensInvariance, TokensInvSays, PTL

-----------------------------------------------------------------------------
(* Screens.  What an output was told last and what it shows differ only     *)
(* while a frame is asked for; who may capture it is on its list, and a     *)
(* list names nobody else.                                                  *)

PanelSet ==
    [lit : BOOLEAN, view : Pair, asked : BOOLEAN, broken : BOOLEAN,
     drawn : [items : SUBSET (Items \X Pair), shade : 0..2, view : 0..2],
     name : Panels \cup 0..MaxPlugs, listed : SUBSET Outlets, size : Pair]

Alive(s) == \A e \in s : e.item \in Actors => look[e.item] # 0

Shown ==
    \A o \in Panels :
        panels[o].lit /\ ~panels[o].asked /\ ~panels[o].broken /\ ~unsaid /\ Alive(wanted) =>
            panels[o].drawn = Picture(o, wanted)

OnTheList ==
    /\ \A o \in Panels, r \in Outlets : r \in panels[o].listed => bound[r] \in {o, "inert"}
    /\ \A r \in Outlets : bound[r] \in Panels => panels[bound[r]].lit

Followed ==
    capturing =>
        /\ options.kind = "captures"
        /\ \A r \in Outlets : bound[r] \in Panels =>
               /\ r \in panels[bound[r]].listed
               /\ captures[r].of = bound[r]
               /\ captures[r].size \in {panels[bound[r]].size, panels[bound[r]].view}
        /\ \A o \in Panels : panels[o].lit /\ ~panels[o].asked => panels[o].size = panels[o].view

Named ==
    \A o \in Panels : panels[o].lit =>
        \/ panels[o].name = 0
        \/ o \in Connectors /\ panels[o].name = o
        \/ /\ panels[o].name \in 1..numbered
           /\ \A p \in Panels \ {o} : panels[p].lit => panels[p].name # panels[o].name

ScreensInv ==
    /\ ManagerTypeOK /\ \A i \in Images : look[i] \in 0..1
    /\ story = wanted /\ Shown
    /\ OnTheList /\ Followed
    /\ Named

LEMMA ScreensFacts ==
    ASSUME ScreensInv
    PROVE  /\ panels \in [Panels -> PanelSet] /\ look \in [Items -> 0..2]
           /\ shade \in Pair /\ unsaid \in BOOLEAN /\ capturing \in BOOLEAN
           /\ story = wanted /\ wanted \in Stories \cup {{}} /\ numbered \in 0..MaxPlugs
           /\ bound \in [Outlets -> Panels \cup {Nowhere, "inert"}]
           /\ captures \in [Outlets -> [of : Panels \cup {Nowhere}, size : 0..2]]
           /\ options \in Options
  BY DEF ScreensInv, ManagerTypeOK, PanelSet

LEMMA TypedScreens ==
    ASSUME options \in Options, panels \in [Panels -> PanelSet], look \in [Items -> 0..2],
           shade \in Pair, unsaid \in BOOLEAN, capturing \in BOOLEAN, story = wanted,
           wanted \in Stories \cup {{}}, numbered \in 0..MaxPlugs,
           bound \in [Outlets -> Panels \cup {Nowhere, "inert"}],
           captures \in [Outlets -> [of : Panels \cup {Nowhere}, size : 0..2]]
    PROVE  ManagerTypeOK
  BY DEF ManagerTypeOK, PanelSet

LEMMA Two ==
    ASSUME NEW n \in Pair
    PROVE  /\ 3 - n \in Pair /\ n \in 0..2 /\ n # 0 /\ 3 - n # n
           /\ 1 \in Pair /\ 0 \in 0..2 /\ 0 \in 0..MaxPlugs
  BY ScreenManagerAssumption DEF Pair

LEMMA Numbers == 1 \in Pair /\ 0 \in 0..2 /\ 0 \in 0..MaxPlugs
  BY ScreenManagerAssumption DEF Pair

\* A picture shows items that are there, as they are.
LEMMA PictureIs ==
    ASSUME NEW o \in Panels, NEW s \in Stories \cup {{}}, look \in [Items -> 0..2],
           shade \in Pair, panels[o].view \in Pair
    PROVE  Picture(o, s) \in [items : SUBSET (Items \X Pair), shade : 0..2, view : 0..2]
<1>1. \A e \in s : e.item \in Items
  BY ScreenManagerAssumption DEF Items
<1>2. \A i \in Items : look[i] # 0 => look[i] \in Pair
  BY DEF Pair
<1>3. {<<e.item, look[e.item]>> : e \in {x \in s : x.on \in {"all", o} /\ look[x.item] # 0}}
        \in SUBSET (Items \X Pair)
  BY <1>1, <1>2
<1>4. shade \in 0..2 /\ panels[o].view \in 0..2
  BY Two
<1> QED
  BY <1>3, <1>4 DEF Picture

-----------------------------------------------------------------------------
(* What an action that is not about them leaves as it was. *)

LEMMA NamesAside ==
    ASSUME ScreensInv, numbered' = numbered,
           \A o \in Panels : /\ (panels'[o].lit => panels[o].lit)
                             /\ (panels'[o].lit => panels'[o].name = panels[o].name)
    PROVE  Named'
  BY DEF ScreensInv, Named

LEMMA CapturesAside ==
    ASSUME ScreensInv, UNCHANGED <<options, capturing, bound, captures>>,
           \A o \in Panels : /\ (panels'[o].lit <=> panels[o].lit)
                             /\ panels'[o].listed = panels[o].listed
                             /\ panels'[o].size = panels[o].size
                             /\ capturing => panels'[o].view = panels[o].view
                             /\ panels[o].asked => panels'[o].asked
    PROVE  OnTheList' /\ Followed'
<1>1. OnTheList'
  BY DEF ScreensInv, OnTheList
<1>2. Followed'
  <2> SUFFICES ASSUME capturing' PROVE Followed'
    BY DEF Followed
  <2>1. options'.kind = "captures"
    BY DEF ScreensInv, Followed
  <2>2. ASSUME NEW r \in Outlets, bound'[r] \in Panels
        PROVE  /\ r \in panels'[bound'[r]].listed
               /\ captures'[r].of = bound'[r]
               /\ captures'[r].size \in {panels'[bound'[r]].size, panels'[bound'[r]].view}
    BY <2>2 DEF ScreensInv, Followed
  <2>3. ASSUME NEW o \in Panels, panels'[o].lit, ~panels'[o].asked
        PROVE  panels'[o].size = panels'[o].view
    BY <2>3 DEF ScreensInv, Followed
  <2> QED
    BY <2>1, <2>2, <2>3 DEF Followed
<1> QED
  BY <1>1, <1>2

LEMMA ShownAside ==
    ASSUME ScreensInv, UNCHANGED <<wanted, shade, look, unsaid>>,
           \A o \in Panels :
               panels'[o].lit /\ ~panels'[o].asked =>
                   /\ panels[o].lit /\ ~panels[o].asked /\ panels'[o].view = panels[o].view
                   /\ panels'[o].drawn = panels[o].drawn
                   /\ (panels'[o].broken <=> panels[o].broken)
    PROVE  Shown'
<1> SUFFICES ASSUME NEW o \in Panels, panels'[o].lit, ~panels'[o].asked, ~panels'[o].broken,
                    ~unsaid', Alive(wanted)'
             PROVE  panels'[o].drawn = Picture(o, wanted)'
  BY DEF Shown
<1>1. panels[o].drawn = Picture(o, wanted)
  BY DEF ScreensInv, Shown, Alive
<1>2. Picture(o, wanted)' = Picture(o, wanted)
  BY DEF Picture
<1> QED
  BY <1>1, <1>2

LEMMA AskedAll ==
    ASSUME ScreensInv, AskAll
    PROVE  /\ panels' \in [Panels -> PanelSet] /\ unsaid' = FALSE
           /\ \A o \in Panels : /\ panels'[o].listed = panels[o].listed
                                /\ panels'[o].size = panels[o].size
                                /\ panels'[o].view = panels[o].view
                                /\ panels'[o].name = panels[o].name
                                /\ (panels'[o].lit <=> panels[o].lit)
                                /\ (panels[o].asked \/ panels[o].lit => panels'[o].asked)
<1>1. panels' = [o \in Panels |-> IF o \in Managed THEN [panels[o] EXCEPT !.asked = TRUE]
                                  ELSE panels[o]]
      /\ unsaid' = FALSE
  BY DEF AskAll, Asked
<1>2. panels \in [Panels -> PanelSet]
  BY ScreensFacts
<1>3. \A o \in Panels : o \in Managed <=> panels[o].lit
  BY DEF Managed
<1>4. ASSUME NEW o \in Panels
      PROVE  /\ panels'[o] \in PanelSet /\ panels'[o].listed = panels[o].listed
             /\ panels'[o].size = panels[o].size /\ panels'[o].view = panels[o].view
             /\ panels'[o].name = panels[o].name /\ (panels'[o].lit <=> panels[o].lit)
             /\ (panels[o].asked \/ panels[o].lit => panels'[o].asked)
  <2>1. CASE panels[o].lit
    <3>1. panels'[o] = [panels[o] EXCEPT !.asked = TRUE]
      BY <1>1, <1>3, <2>1
    <3>2. panels[o] \in PanelSet
      BY <1>2
    <3> QED
      BY <2>1, <3>1, <3>2 DEF PanelSet
  <2>2. CASE ~panels[o].lit
    BY <1>1, <1>2, <1>3, <2>2
  <2> QED
    BY <2>1, <2>2
<1>5. panels' = [o \in Panels |-> panels'[o]]
  BY <1>1
<1> QED
  BY <1>1, <1>4, <1>5

\* The compositor says so, or changes the background: everything is drawn again.
LEMMA InvalidateStep ==
    ASSUME ScreensInv, Invalidate \/ SetBackground
    PROVE  ScreensInv'
<1>1. /\ AskAll /\ shade' \in Pair
      /\ UNCHANGED <<options, wanted, story, look, numbered, capturing, bound, captures>>
  BY ScreensFacts, Two DEF Invalidate, SetBackground
<1>2. Shown'
  BY <1>1, AskedAll DEF Shown
<1>3. Named'
  BY <1>1, AskedAll, NamesAside
<1>4. OnTheList' /\ Followed'
  BY <1>1, AskedAll, CapturesAside
<1>5. ManagerTypeOK'
  BY <1>1, AskedAll, ScreensFacts DEF ManagerTypeOK, PanelSet
<1> QED
  BY <1>1, <1>2, <1>3, <1>4, <1>5, ScreensFacts DEF ScreensInv

LEMMA TellStep ==
    ASSUME ScreensInv, NEW s \in Stories, Tell(s)
    PROVE  ScreensInv'
<1>1. /\ AskAll /\ wanted' = s /\ story' = s
      /\ UNCHANGED <<options, shade, look, numbered, capturing, bound, captures>>
  BY ScreensFacts DEF Tell, Same
<1>2. Shown'
  BY <1>1, AskedAll DEF Shown
<1>3. Named'
  BY <1>1, AskedAll, NamesAside
<1>4. OnTheList' /\ Followed'
  BY <1>1, AskedAll, CapturesAside
<1>5. ManagerTypeOK'
  BY <1>1, AskedAll, ScreensFacts DEF ManagerTypeOK, PanelSet
<1> QED
  BY <1>1, <1>2, <1>3, <1>4, <1>5 DEF ScreensInv

LEMMA SetImageStep ==
    ASSUME ScreensInv, NEW i \in Images, SetImage(i)
    PROVE  ScreensInv'
<1>1. /\ unsaid' = TRUE /\ look' = [look EXCEPT ![i] = 1 - look[i]]
      /\ UNCHANGED <<options, panels, wanted, story, shade, numbered, capturing, bound, captures>>
  BY DEF SetImage
<1>2. Shown'
  BY <1>1 DEF Shown
<1>3. Named'
  BY <1>1, NamesAside
<1>4. OnTheList' /\ Followed'
  BY <1>1, CapturesAside
<1>5. look' \in [Items -> 0..2] /\ \A k \in Images : look'[k] \in 0..1
  <2>1. look \in [Items -> 0..2] /\ \A k \in Images : look[k] \in 0..1 /\ k \in Items
    BY ScreensFacts DEF ScreensInv, Items
  <2>2. 1 - look[i] \in 0..1 /\ 1 - look[i] \in 0..2
    BY <2>1
  <2> QED
    BY <1>1, <2>1, <2>2
<1>6. ManagerTypeOK'
  BY <1>1, <1>5 DEF ScreensInv, ManagerTypeOK
<1> QED
  BY <1>1, <1>2, <1>3, <1>4, <1>5, <1>6, ScreensFacts DEF ScreensInv

\* A surface that commits is drawn again where it is on screen.
LEMMA CommitActorStep ==
    ASSUME ScreensInv, NEW w \in Actors, CommitActor(w)
    PROVE  ScreensInv'
<1>1. /\ look[w] # 0 /\ look' = [look EXCEPT ![w] = 3 - look[w]]
      /\ panels' = Asked({o \in Managed : \E i \in panels[o].drawn.items : i[1] = w})
      /\ UNCHANGED <<options, wanted, story, shade, unsaid, numbered, capturing, bound, captures>>
  BY DEF CommitActor
<1>2. /\ look \in [Items -> 0..2] /\ w \in Items /\ \A k \in Images : look[k] \in 0..1 /\ k # w
      /\ panels \in [Panels -> PanelSet]
  BY ScreensFacts, ScreenManagerAssumption DEF ScreensInv, Items
<1>3. /\ look' \in [Items -> 0..2] /\ look'[w] # 0
      /\ \A k \in Items \ {w} : look'[k] = look[k]
  <2>1. 3 - look[w] \in 0..2 /\ 3 - look[w] # 0
    BY <1>1, <1>2
  <2> QED
    BY <1>1, <1>2, <2>1
<1>4. ASSUME NEW o \in Panels
      PROVE  /\ panels'[o] \in PanelSet /\ panels'[o].listed = panels[o].listed
             /\ panels'[o].size = panels[o].size /\ panels'[o].view = panels[o].view
             /\ panels'[o].name = panels[o].name /\ (panels'[o].lit <=> panels[o].lit)
             /\ panels'[o].drawn = panels[o].drawn /\ (panels'[o].broken <=> panels[o].broken)
             /\ panels[o].asked => panels'[o].asked
             /\ panels'[o].lit /\ ~panels'[o].asked => ~\E i \in panels[o].drawn.items : i[1] = w
  <2>0. panels[o] \in PanelSet
    BY <1>2
  <2>1. CASE panels[o].lit /\ \E i \in panels[o].drawn.items : i[1] = w
    <3>1. panels'[o] = [panels[o] EXCEPT !.asked = TRUE]
      BY <1>1, <2>1 DEF Asked, Managed
    <3> QED
      BY <2>0, <3>1 DEF PanelSet
  <2>2. CASE ~(panels[o].lit /\ \E i \in panels[o].drawn.items : i[1] = w)
    <3>1. panels'[o] = panels[o]
      BY <1>1, <2>2 DEF Asked, Managed
    <3> QED
      BY <2>0, <2>2, <3>1
  <2> QED
    BY <2>1, <2>2
<1>5. panels' \in [Panels -> PanelSet]
  <2>1. panels' = [o \in Panels |-> panels'[o]]
    BY <1>1 DEF Asked
  <2> QED
    BY <1>4, <2>1
<1>6. Shown'
  <2> SUFFICES ASSUME NEW o \in Panels, panels'[o].lit, ~panels'[o].asked, ~panels'[o].broken,
                      ~unsaid', Alive(wanted)'
               PROVE  panels'[o].drawn = Picture(o, wanted)'
    BY DEF Shown
  <2>1. \A e \in wanted : e.item \in Items
    BY ScreensFacts, ScreenManagerAssumption DEF Items
  <2>2. Alive(wanted)
    BY <1>1, <1>3, <2>1 DEF Alive
  <2>3. panels[o].drawn = Picture(o, wanted)
    BY <1>1, <1>4, <2>2 DEF ScreensInv, Shown
  <2>4. \A e \in wanted : e.on \in {"all", o} /\ look[e.item] # 0 => e.item # w
    <3> SUFFICES ASSUME NEW e \in wanted, e.on \in {"all", o}, look[e.item] # 0, e.item = w
                 PROVE  FALSE
      OBVIOUS
    <3>1. <<w, look[w]>> \in Picture(o, wanted).items
      BY DEF Picture
    <3> QED
      BY <1>4, <2>3, <3>1
  <2>5. \A e \in wanted : e.on \in {"all", o} =>
            /\ (look'[e.item] # 0 <=> look[e.item] # 0)
            /\ (look[e.item] # 0 => look'[e.item] = look[e.item])
    BY <1>1, <1>3, <2>1, <2>4
  <2>6. {x \in wanted : x.on \in {"all", o} /\ look'[x.item] # 0}
          = {x \in wanted : x.on \in {"all", o} /\ look[x.item] # 0}
    BY <2>5
  <2>7. {<<e.item, look'[e.item]>> : e \in
            {x \in wanted : x.on \in {"all", o} /\ look'[x.item] # 0}}
          = {<<e.item, look[e.item]>> : e \in
               {x \in wanted : x.on \in {"all", o} /\ look[x.item] # 0}}
    BY <2>5, <2>6
  <2>8. Picture(o, wanted)' = Picture(o, wanted)
    BY <1>1, <1>4, <2>7 DEF Picture
  <2> QED
    BY <1>4, <2>3, <2>8
<1>7. Named'
  BY <1>1, <1>4, NamesAside
<1>8. OnTheList' /\ Followed'
  BY <1>1, <1>4, CapturesAside
<1>9. ManagerTypeOK'
  BY <1>1, <1>3, <1>5, ScreensFacts DEF ManagerTypeOK, PanelSet
<1>10. \A k \in Images : look'[k] \in 0..1
  BY <1>2, <1>3 DEF Items
<1> QED
  BY <1>1, <1>6, <1>7, <1>8, <1>9, <1>10, ScreensFacts DEF ScreensInv

LEMMA ActorGoneStep ==
    ASSUME ScreensInv, NEW w \in Actors, ActorGone(w)
    PROVE  ScreensInv'
<1>1. /\ look' = [look EXCEPT ![w] = 0]
      /\ UNCHANGED <<options, panels, wanted, story, shade, unsaid, numbered, capturing, bound,
                     captures>>
  BY DEF ActorGone
<1>2. /\ look \in [Items -> 0..2] /\ w \in Items /\ \A k \in Images : look[k] \in 0..1 /\ k # w
  BY ScreensFacts, ScreenManagerAssumption DEF ScreensInv, Items
<1>3. /\ look' \in [Items -> 0..2] /\ look'[w] = 0
      /\ \A k \in Items \ {w} : look'[k] = look[k]
  BY <1>1, <1>2
<1>6. Shown'
  <2> SUFFICES ASSUME NEW o \in Panels, panels'[o].lit, ~panels'[o].asked, ~panels'[o].broken,
                      ~unsaid', Alive(wanted)'
               PROVE  panels'[o].drawn = Picture(o, wanted)'
    BY DEF Shown
  <2>1. \A e \in wanted : e.item \in Items /\ e.item # w
    BY <1>1, <1>3, ScreensFacts, ScreenManagerAssumption DEF Items, Alive
  <2>2. \A e \in wanted : look'[e.item] = look[e.item]
    BY <1>3, <2>1
  <2>3. Alive(wanted)
    BY <1>1, <2>2 DEF Alive
  <2>4. panels[o].drawn = Picture(o, wanted)
    BY <1>1, <2>3 DEF ScreensInv, Shown
  <2>6. {x \in wanted : x.on \in {"all", o} /\ look'[x.item] # 0}
          = {x \in wanted : x.on \in {"all", o} /\ look[x.item] # 0}
    BY <2>2
  <2>7. {<<e.item, look'[e.item]>> : e \in
            {x \in wanted : x.on \in {"all", o} /\ look'[x.item] # 0}}
          = {<<e.item, look[e.item]>> : e \in
               {x \in wanted : x.on \in {"all", o} /\ look[x.item] # 0}}
    BY <2>2, <2>6
  <2>8. Picture(o, wanted)' = Picture(o, wanted)
    BY <1>1, <2>7 DEF Picture
  <2> QED
    BY <1>1, <2>4, <2>8
<1>7. Named'
  BY <1>1, NamesAside
<1>8. OnTheList' /\ Followed'
  BY <1>1, CapturesAside
<1>9. ManagerTypeOK'
  BY <1>1, <1>3 DEF ScreensInv, ManagerTypeOK
<1>10. \A k \in Images : look'[k] \in 0..1
  BY <1>2, <1>3 DEF Items
<1> QED
  BY <1>1, <1>6, <1>7, <1>8, <1>9, <1>10, ScreensFacts DEF ScreensInv

\* One output is not as it was.
LEMMA OnePanel ==
    ASSUME ScreensInv, NEW o \in Panels, NEW p \in PanelSet, panels' = [panels EXCEPT ![o] = p]
    PROVE  /\ panels' \in [Panels -> PanelSet] /\ panels'[o] = p
           /\ \A q \in Panels \ {o} : panels'[q] = panels[q]
  BY ScreensFacts

\* What an output shows, and whether it is asked for a frame: its entry p.
LEMMA ShownThere ==
    ASSUME ScreensInv, NEW o \in Panels, NEW p \in PanelSet, panels' = [panels EXCEPT ![o] = p],
           UNCHANGED <<wanted, shade, look>>, unsaid => unsaid',
           \/ p.asked \/ ~p.lit \/ p.broken \/ unsaid' \/ p.drawn = Picture(o, wanted)'
    PROVE  Shown'
<1> SUFFICES ASSUME NEW q \in Panels, panels'[q].lit, ~panels'[q].asked, ~panels'[q].broken,
                    ~unsaid', Alive(wanted)'
             PROVE  panels'[q].drawn = Picture(q, wanted)'
  BY DEF Shown
<1>1. CASE q = o
  BY <1>1, OnePanel
<1>2. CASE q # o
  <2>1. panels'[q] = panels[q]
    BY <1>2, OnePanel
  <2>2. panels[q].drawn = Picture(q, wanted)
    BY <2>1 DEF ScreensInv, Shown, Alive
  <2>3. Picture(q, wanted)' = Picture(q, wanted)
    BY <2>1 DEF Picture
  <2> QED
    BY <2>1, <2>2, <2>3
<1> QED
  BY <1>1, <1>2

LEMMA PlugStep ==
    ASSUME ScreensInv, NEW o \in Panels, Plug(o)
    PROVE  ScreensInv'
<1>1. /\ ~panels[o].lit /\ numbered < MaxPlugs
      /\ UNCHANGED <<options, wanted, story, shade, look, unsaid, capturing, bound, captures>>
  BY DEF Plug
<1>n. PICK n : n = IF ~options.announce THEN 0
                   ELSE IF o \notin Connectors THEN numbered + 1 ELSE o
  OBVIOUS
<1>p. PICK p : p = [NoPanel EXCEPT !.lit = TRUE, !.asked = TRUE, !.name = n]
  OBVIOUS
<1>2. panels' = [panels EXCEPT ![o] = p]
  BY <1>n, <1>p DEF Plug, NextNumber
<1>3. /\ numbered \in Nat /\ numbered + 1 \in 0..MaxPlugs /\ numbered' \in 0..MaxPlugs
      /\ \/ n = 0 /\ numbered' = numbered
         \/ n = o /\ o \in Connectors /\ numbered' = numbered
         \/ n = numbered + 1 /\ numbered' = numbered + 1
  <2>1. numbered \in Nat /\ numbered + 1 \in 0..MaxPlugs
    BY <1>1, ScreensFacts, ScreenManagerAssumption
  <2>2. /\ \/ ~options.announce /\ n = 0 /\ numbered' = numbered
           \/ o \in Connectors /\ n = o /\ numbered' = numbered
           \/ n = numbered + 1 /\ numbered' = numbered + 1
    BY <1>n DEF Plug
  <2>3. numbered' \in 0..MaxPlugs
    BY <2>1, <2>2, ScreensFacts
  <2> QED
    BY <2>1, <2>2, <2>3
<1>4. /\ p \in PanelSet /\ p.asked /\ p.lit /\ p.listed = {} /\ p.name = n
  <2>1. n \in Panels \cup 0..MaxPlugs
    BY <1>3, Numbers
  <2>2. p = [lit |-> TRUE, view |-> 1, asked |-> TRUE, broken |-> FALSE,
             drawn |-> Blank, name |-> n, listed |-> {}, size |-> 1]
    BY <1>p DEF NoPanel
  <2>3. Blank \in [items : SUBSET (Items \X Pair), shade : 0..2, view : 0..2]
    BY Numbers DEF Blank
  <2> QED
    BY <2>1, <2>2, <2>3, Numbers DEF PanelSet
<1>5. /\ panels' \in [Panels -> PanelSet] /\ panels'[o] = p
      /\ \A q \in Panels \ {o} : panels'[q] = panels[q]
  BY <1>2, <1>4, OnePanel
<1>6. Shown'
  BY <1>1, <1>2, <1>4, ShownThere
<1>7. Named'
  <2> SUFFICES ASSUME NEW q \in Panels, panels'[q].lit
               PROVE  \/ panels'[q].name = 0
                      \/ q \in Connectors /\ panels'[q].name = q
                      \/ /\ panels'[q].name \in 1..numbered'
                         /\ \A s \in Panels \ {q} : panels'[s].lit =>
                                panels'[s].name # panels'[q].name
    BY DEF Named
  <2>1. \A s \in Panels : panels[s].lit => panels[s].name # numbered + 1
    BY <1>3, ScreenManagerAssumption DEF ScreensInv, Named
  <2>2. CASE q = o
    <3>1. CASE n = numbered + 1 /\ numbered' = numbered + 1
      <4>1. n \in 1..numbered'
        BY <1>3, <3>1
      <4> QED
        BY <1>4, <1>5, <2>1, <2>2, <3>1, <4>1
    <3> QED
      BY <1>3, <1>4, <1>5, <2>2, <3>1
  <2>3. CASE q # o
    <3>1. panels'[q] = panels[q]
      BY <1>5, <2>3
    <3>2. CASE panels[q].name \in 1..numbered
      <4>1. panels'[q].name \in 1..numbered'
        BY <1>3, <3>1, <3>2
      <4>2. \A s \in Panels \ {q} : panels[s].lit => panels[s].name # panels[q].name
        BY <3>1, <3>2, ScreenManagerAssumption DEF ScreensInv, Named
      <4>3. n # panels[q].name
        BY <1>3, <3>2, ScreenManagerAssumption
      <4> QED
        BY <1>4, <1>5, <3>1, <4>1, <4>2, <4>3
    <3> QED
      BY <3>1, <3>2 DEF ScreensInv, Named
  <2> QED
    BY <2>2, <2>3
<1>8. OnTheList'
  BY <1>1, <1>4, <1>5 DEF ScreensInv, OnTheList
<1>9. Followed'
  <2> SUFFICES ASSUME capturing PROVE Followed'
    BY <1>1 DEF Followed
  <2>1. \A r \in Outlets : bound[r] # o
    BY <1>1 DEF ScreensInv, OnTheList
  <2>2. \A r \in Outlets : bound[r] \in Panels => panels'[bound[r]] = panels[bound[r]]
    BY <1>5, <2>1
  <2> QED
    BY <1>1, <1>4, <1>5, <2>2 DEF ScreensInv, Followed
<1>10. ManagerTypeOK'
  BY <1>1, <1>3, <1>5 DEF ScreensInv, ManagerTypeOK, PanelSet
<1> QED
  BY <1>1, <1>6, <1>7, <1>8, <1>9, <1>10 DEF ScreensInv

LEMMA UnplugPanelStep ==
    ASSUME ScreensInv, NEW o \in Panels, UnplugPanel(o)
    PROVE  ScreensInv'
<1>1. /\ panels' = [panels EXCEPT ![o] = NoPanel]
      /\ bound' = [r \in Outlets |-> IF bound[r] = o THEN "inert" ELSE bound[r]]
      /\ UNCHANGED <<options, wanted, story, shade, look, unsaid, numbered, capturing, captures>>
  BY DEF UnplugPanel
<1>2. NoPanel \in PanelSet /\ ~NoPanel.lit /\ NoPanel.listed = {}
  <2>1. Blank \in [items : SUBSET (Items \X Pair), shade : 0..2, view : 0..2]
    BY Numbers DEF Blank
  <2> QED
    BY <2>1, Numbers DEF NoPanel, PanelSet
<1>3. /\ panels' \in [Panels -> PanelSet] /\ panels'[o] = NoPanel
      /\ \A q \in Panels \ {o} : panels'[q] = panels[q]
  BY <1>1, <1>2, OnePanel
<1>4. /\ bound' \in [Outlets -> Panels \cup {Nowhere, "inert"}]
      /\ \A r \in Outlets : /\ bound'[r] \in {bound[r], "inert"}
                            /\ bound'[r] \in Panels => bound'[r] # o /\ bound[r] = bound'[r]
  BY <1>1, ScreensFacts, ScreenManagerAssumption
<1>5. Shown'
  BY <1>1, <1>2, ShownThere
<1>6. Named'
  BY <1>1, <1>2, <1>3, NamesAside
<1>7. OnTheList'
  BY <1>2, <1>3, <1>4 DEF ScreensInv, OnTheList
<1>8. Followed'
  <2> SUFFICES ASSUME capturing PROVE Followed'
    BY <1>1 DEF Followed
  <2>1. \A r \in Outlets : bound'[r] \in Panels => panels'[bound'[r]] = panels[bound[r]]
    BY <1>3, <1>4
  <2> QED
    BY <1>1, <1>2, <1>3, <1>4, <2>1 DEF ScreensInv, Followed
<1>9. ManagerTypeOK'
  BY <1>1, <1>3, <1>4 DEF ScreensInv, ManagerTypeOK, PanelSet
<1> QED
  BY <1>1, <1>5, <1>6, <1>7, <1>8, <1>9 DEF ScreensInv

\* A mode that is passed on before it changes again.
LEMMA SwitchModeStep ==
    ASSUME ScreensInv, ~Hasty, NEW o \in Panels, SwitchMode(o)
    PROVE  ScreensInv'
<1>1. /\ panels' = [panels EXCEPT ![o].view = 3 - panels[o].view, ![o].drawn = Blank,
                                  ![o].asked = TRUE]
      /\ UNCHANGED <<options, wanted, story, shade, look, unsaid, numbered, capturing, bound,
                     captures>>
  BY DEF SwitchMode
<1>p. PICK p : p = [panels[o] EXCEPT !.view = 3 - panels[o].view, !.drawn = Blank, !.asked = TRUE]
  OBVIOUS
<1>2. /\ p \in PanelSet /\ p.asked /\ (p.lit <=> panels[o].lit) /\ p.name = panels[o].name
      /\ p.listed = panels[o].listed /\ p.size = panels[o].size
  <2>1. panels[o] \in PanelSet
    BY ScreensFacts
  <2>2. 3 - panels[o].view \in Pair
    BY <2>1, Two DEF PanelSet
  <2>3. Blank \in [items : SUBSET (Items \X Pair), shade : 0..2, view : 0..2]
    BY Numbers DEF Blank
  <2> QED
    BY <1>p, <2>1, <2>2, <2>3 DEF PanelSet
<1>3. panels' = [panels EXCEPT ![o] = p]
  BY <1>1, <1>p, ScreensFacts
<1>4. /\ panels' \in [Panels -> PanelSet] /\ panels'[o] = p
      /\ \A q \in Panels \ {o} : panels'[q] = panels[q]
  BY <1>2, <1>3, OnePanel
<1>5. Shown'
  BY <1>1, <1>2, <1>3, ShownThere
<1>6. Named'
  BY <1>1, <1>2, <1>4, NamesAside
<1>7. OnTheList'
  BY <1>1, <1>2, <1>4 DEF ScreensInv, OnTheList
<1>8. Followed'
  <2> SUFFICES ASSUME capturing PROVE Followed'
    BY <1>1 DEF Followed
  <2>1. options.kind = "captures" /\ panels[o].size = panels[o].view
    BY DEF SwitchMode, ScreensInv, Followed
  <2>2. \A r \in Outlets : bound[r] \in Panels =>
           /\ r \in panels'[bound[r]].listed
           /\ captures[r].of = bound[r]
           /\ captures[r].size \in {panels'[bound[r]].size, panels'[bound[r]].view}
    <3> SUFFICES ASSUME NEW r \in Outlets, bound[r] \in Panels
                 PROVE  /\ r \in panels'[bound[r]].listed
                        /\ captures[r].of = bound[r]
                        /\ captures[r].size \in {panels'[bound[r]].size, panels'[bound[r]].view}
      OBVIOUS
    <3>1. /\ r \in panels[bound[r]].listed
          /\ captures[r].of = bound[r]
          /\ captures[r].size \in {panels[bound[r]].size, panels[bound[r]].view}
      BY DEF ScreensInv, Followed
    <3>2. CASE bound[r] = o
      BY <1>2, <1>4, <2>1, <3>1, <3>2
    <3>3. CASE bound[r] # o
      BY <1>4, <3>1, <3>3
    <3> QED
      BY <3>2, <3>3
  <2>3. \A q \in Panels : panels'[q].lit /\ ~panels'[q].asked => panels'[q].size = panels'[q].view
    BY <1>2, <1>4 DEF ScreensInv, Followed
  <2> QED
    BY <1>1, <2>1, <2>2, <2>3 DEF Followed
<1>9. ManagerTypeOK'
  BY <1>1, <1>4 DEF ScreensInv, ManagerTypeOK, PanelSet
<1> QED
  BY <1>1, <1>5, <1>6, <1>7, <1>8, <1>9 DEF ScreensInv

\* Scale and place are the affair of pictures alone; with a GPU the first asks
\* for a frame, and the compositor says the second.
LEMMA RescaleStep ==
    ASSUME ScreensInv, Gpus \subseteq {TRUE}, NEW o \in Panels, Rescale(o) \/ MovePanel(o)
    PROVE  ScreensInv'
<1>p. PICK p : p = panels'[o]
  OBVIOUS
<1>g. options.gpu = TRUE
  BY ScreensFacts DEF Options
<1>1. /\ options.kind = "pictures" /\ panels \in [Panels -> PanelSet]
      /\ UNCHANGED <<options, wanted, story, shade, look, numbered, capturing, bound, captures>>
  BY ScreensFacts DEF Rescale, MovePanel
<1>u. unsaid' \in BOOLEAN /\ (unsaid => unsaid')
  <2>1. unsaid \in BOOLEAN
    BY ScreensFacts
  <2>2. unsaid' = unsaid \/ unsaid' = TRUE
    BY DEF Rescale, MovePanel
  <2> QED
    BY <2>1, <2>2
<1>2. /\ p \in PanelSet /\ (p.lit <=> panels[o].lit) /\ p.name = panels[o].name
      /\ p.listed = panels[o].listed /\ p.size = panels[o].size /\ (p.asked \/ unsaid')
      /\ panels' = [panels EXCEPT ![o] = p]
  <2>1. panels[o] \in PanelSet /\ 3 - panels[o].view \in Pair
    BY <1>1, Two DEF PanelSet
  <2>2. CASE Rescale(o)
    <3>1. panels' = [panels EXCEPT ![o].view = 3 - panels[o].view, ![o].asked = TRUE]
      <4>1. (panels[o].asked \/ options.gpu) = TRUE
        BY <1>g
      <4>2. panels' = [panels EXCEPT ![o].view = 3 - panels[o].view,
                                     ![o].asked = (panels[o].asked \/ options.gpu)]
        BY <2>2 DEF Rescale
      <4> QED
        BY <4>1, <4>2
    <3>2. p = [panels[o] EXCEPT !.view = 3 - panels[o].view, !.asked = TRUE]
      BY <1>1, <1>p, <3>1
    <3> QED
      BY <1>1, <2>1, <3>1, <3>2 DEF PanelSet
  <2>3. CASE MovePanel(o)
    <3>1. panels' = [panels EXCEPT ![o].view = 3 - panels[o].view] /\ unsaid'
      BY <2>3 DEF MovePanel
    <3>2. p = [panels[o] EXCEPT !.view = 3 - panels[o].view]
      BY <1>1, <1>p, <3>1
    <3> QED
      BY <1>1, <2>1, <3>1, <3>2 DEF PanelSet
  <2> QED
    BY <2>2, <2>3
<1>3. /\ panels' \in [Panels -> PanelSet] /\ panels'[o] = p
      /\ \A q \in Panels \ {o} : panels'[q] = panels[q]
  BY <1>2, OnePanel
<1>4. Shown'
  BY <1>1, <1>u, <1>2, ShownThere
<1>5. Named'
  BY <1>1, <1>2, <1>3, NamesAside
<1>6. OnTheList'
  BY <1>1, <1>2, <1>3 DEF ScreensInv, OnTheList
<1>7. Followed'
  BY <1>1 DEF ScreensInv, Followed
<1>8. ManagerTypeOK'
  BY <1>1, <1>u, <1>3 DEF ScreensInv, ManagerTypeOK, PanelSet
<1> QED
  BY <1>1, <1>u, <1>4, <1>5, <1>6, <1>7, <1>8 DEF ScreensInv

\* A frame tells the size to whoever is on the list of its output.
LEMMA ResizedIs ==
    ASSUME ScreensInv, NEW o \in Panels, capturing, panels[o].lit
    PROVE  /\ Resized(o) \in [Outlets -> [of : Panels \cup {Nowhere}, size : 0..2]]
           /\ \A r \in Outlets : bound[r] \in Panels =>
                  /\ Resized(o)[r].of = bound[r]
                  /\ bound[r] = o => Resized(o)[r].size = panels[o].view
                  /\ bound[r] # o => Resized(o)[r].size \in {panels[bound[r]].size,
                                                            panels[bound[r]].view}
<1>1. /\ captures \in [Outlets -> [of : Panels \cup {Nowhere}, size : 0..2]]
      /\ panels[o].view \in 0..2
  BY ScreensFacts, Two DEF PanelSet
<1>2. \A r \in Outlets : bound[r] \in Panels =>
         /\ r \in panels[bound[r]].listed
         /\ captures[r].of = bound[r]
         /\ captures[r].size \in {panels[bound[r]].size, panels[bound[r]].view}
         /\ r \in panels[o].listed => bound[r] = o
  BY ScreenManagerAssumption DEF ScreensInv, OnTheList, Followed
<1>3. CASE panels[o].size = panels[o].view
  <2>1. Resized(o) = captures
    BY <1>3 DEF Resized
  <2> QED
    BY <1>1, <1>2, <1>3, <2>1
<1>4. CASE panels[o].size # panels[o].view
  <2>1. Resized(o) = [r \in Outlets |-> IF r \in panels[o].listed
                                        THEN [of |-> o, size |-> panels[o].view]
                                        ELSE captures[r]]
    BY <1>4 DEF Resized
  <2> QED
    BY <1>1, <1>2, <2>1
<1> QED
  BY <1>3, <1>4

LEMMA PresentStep ==
    ASSUME ScreensInv, NEW o \in Panels, Present(o)
    PROVE  ScreensInv'
<1>t. PICK t : t = Picture(o, story)
  OBVIOUS
<1>1. /\ panels[o].lit /\ captures' = Resized(o)
      /\ UNCHANGED <<options, wanted, story, shade, look, unsaid, numbered, capturing, bound>>
  BY DEF Present
<1>2. PICK fails \in BOOLEAN :
         /\ options.kind # "pictures" => ~fails
         /\ panels' = [panels EXCEPT ![o].asked = ~fails /\ panels[o].drawn # t,
                                     ![o].drawn = IF fails THEN panels[o].drawn ELSE t,
                                     ![o].broken = fails,
                                     ![o].size = IF capturing THEN panels[o].view
                                                 ELSE panels[o].size]
  BY <1>t DEF Present
<1>p. PICK p : p = panels'[o]
  OBVIOUS
<1>a. PICK again \in BOOLEAN : again = (~fails /\ panels[o].drawn # t)
  OBVIOUS
<1>3. /\ p = [panels[o] EXCEPT !.asked = again,
                               !.drawn = IF fails THEN panels[o].drawn ELSE t,
                               !.broken = fails,
                               !.size = IF capturing THEN panels[o].view ELSE panels[o].size]
      /\ panels' = [panels EXCEPT ![o] = p]
  <2>1. panels \in [Panels -> PanelSet]
    BY ScreensFacts
  <2>2. panels' = [panels EXCEPT ![o].asked = again,
                                 ![o].drawn = IF fails THEN panels[o].drawn ELSE t,
                                 ![o].broken = fails,
                                 ![o].size = IF capturing THEN panels[o].view
                                             ELSE panels[o].size]
    BY <1>2, <1>a
  <2> QED
    BY <1>p, <2>1, <2>2
<1>4. /\ p \in PanelSet /\ p.lit /\ p.name = panels[o].name /\ p.view = panels[o].view
      /\ p.listed = panels[o].listed
      /\ p.size = IF capturing THEN panels[o].view ELSE panels[o].size
      /\ p.broken \/ p.drawn = t
  <2>1. panels[o] \in PanelSet /\ panels[o].view \in Pair
    BY ScreensFacts DEF PanelSet
  <2>2. t \in [items : SUBSET (Items \X Pair), shade : 0..2, view : 0..2]
    BY <1>t, <2>1, ScreensFacts, PictureIs
  <2>3. (IF fails THEN panels[o].drawn ELSE t)
           \in [items : SUBSET (Items \X Pair), shade : 0..2, view : 0..2]
    BY <2>1, <2>2 DEF PanelSet
  <2>4. (IF capturing THEN panels[o].view ELSE panels[o].size) \in Pair
    BY <2>1 DEF PanelSet
  <2>5. p \in PanelSet
    BY <1>3, <2>1, <2>3, <2>4 DEF PanelSet
  <2> QED
    BY <1>1, <1>3, <2>1, <2>5 DEF PanelSet
<1>5. /\ panels' \in [Panels -> PanelSet] /\ panels'[o] = p
      /\ \A q \in Panels \ {o} : panels'[q] = panels[q]
  BY <1>3, <1>4, OnePanel
<1>6. Shown'
  <2>1. Picture(o, wanted)' = t
    <3>1. panels'[o].view = panels[o].view
      BY <1>4, <1>5
    <3> QED
      BY <1>1, <1>t, <3>1, ScreensFacts DEF Picture
  <2> QED
    BY <1>1, <1>3, <1>4, <2>1, ShownThere
<1>7. Named'
  BY <1>1, <1>4, <1>5, NamesAside
<1>8. OnTheList'
  BY <1>1, <1>4, <1>5 DEF ScreensInv, OnTheList
<1>9. Followed' /\ captures' \in [Outlets -> [of : Panels \cup {Nowhere}, size : 0..2]]
  <2>1. CASE ~capturing
    BY <1>1, <2>1, ScreensFacts DEF Followed, Resized
  <2>2. CASE capturing
    <3>1. \A r \in Outlets : bound[r] \in Panels =>
             /\ r \in panels'[bound[r]].listed
             /\ captures'[r].of = bound[r]
             /\ captures'[r].size \in {panels'[bound[r]].size, panels'[bound[r]].view}
      <4> SUFFICES ASSUME NEW r \in Outlets, bound[r] \in Panels
                   PROVE  /\ r \in panels'[bound[r]].listed
                          /\ captures'[r].of = bound[r]
                          /\ captures'[r].size \in {panels'[bound[r]].size, panels'[bound[r]].view}
        OBVIOUS
      <4>1. r \in panels'[bound[r]].listed
        BY <1>4, <1>5, <2>2 DEF ScreensInv, Followed
      <4>2. /\ captures'[r].of = bound[r]
            /\ bound[r] = o => captures'[r].size = panels[o].view
            /\ bound[r] # o => captures'[r].size \in {panels[bound[r]].size, panels[bound[r]].view}
        BY <1>1, <2>2, ResizedIs
      <4>3. /\ bound[r] = o => panels'[bound[r]].view = panels[o].view
            /\ bound[r] # o => panels'[bound[r]] = panels[bound[r]]
        BY <1>4, <1>5
      <4> QED
        BY <4>1, <4>2, <4>3
    <3>2. \A q \in Panels : panels'[q].lit /\ ~panels'[q].asked => panels'[q].size = panels'[q].view
      BY <1>4, <1>5, <2>2 DEF ScreensInv, Followed
    <3> QED
      BY <1>1, <2>2, <3>1, <3>2, ResizedIs DEF ScreensInv, Followed
  <2> QED
    BY <2>1, <2>2
<1>10. ManagerTypeOK'
  BY <1>1, <1>5, <1>9 DEF ScreensInv, ManagerTypeOK, PanelSet
<1> QED
  BY <1>1, <1>6, <1>7, <1>8, <1>9, <1>10 DEF ScreensInv

LEMMA FollowCaptureStep ==
    ASSUME ScreensInv, FollowCapture
    PROVE  ScreensInv'
<1>1. /\ options.kind = "captures" /\ capturing' = TRUE
      /\ panels' = [o \in Panels |-> [panels[o] EXCEPT !.listed = {r \in Outlets : bound[r] = o},
                                                       !.size = panels[o].view]]
      /\ captures' = [r \in Outlets |-> IF bound[r] \in Managed
                                        THEN [of |-> bound[r], size |-> panels[bound[r]].view]
                                        ELSE captures[r]]
  BY DEF FollowCapture
<1>u. UNCHANGED <<options, wanted, story, shade, look, unsaid, numbered, bound>>
  BY DEF FollowCapture
<1>2. ASSUME NEW o \in Panels
      PROVE  /\ panels'[o] \in PanelSet
             /\ panels'[o].listed = {r \in Outlets : bound[r] = o}
             /\ panels'[o].size = panels[o].view /\ panels'[o].view = panels[o].view
             /\ panels'[o].name = panels[o].name /\ (panels'[o].lit <=> panels[o].lit)
             /\ panels'[o].drawn = panels[o].drawn /\ (panels'[o].broken <=> panels[o].broken)
             /\ (panels'[o].asked <=> panels[o].asked)
  <2>1. panels'[o] = [panels[o] EXCEPT !.listed = {r \in Outlets : bound[r] = o},
                                       !.size = panels[o].view]
    BY <1>1
  <2>2. panels[o] \in PanelSet
    BY ScreensFacts
  <2> QED
    BY <2>1, <2>2 DEF PanelSet
<1>3. panels' \in [Panels -> PanelSet]
  <2>1. panels' = [o \in Panels |-> panels'[o]]
    BY <1>1
  <2> QED
    BY <1>2, <2>1
<1>4. Shown'
  BY <1>u, <1>2, ShownAside
<1>5. Named'
  BY <1>u, <1>2, NamesAside
<1>6. OnTheList'
  BY <1>u, <1>2 DEF ScreensInv, OnTheList
<1>7. captures' \in [Outlets -> [of : Panels \cup {Nowhere}, size : 0..2]]
  <2>1. ASSUME NEW r \in Outlets
        PROVE  captures'[r] \in [of : Panels \cup {Nowhere}, size : 0..2]
    <3>1. CASE bound[r] \in Managed
      <4>1. bound[r] \in Panels
        BY <3>1 DEF Managed
      <4>2. panels[bound[r]].view \in 0..2
        BY <4>1, ScreensFacts, Two DEF PanelSet
      <4> QED
        BY <1>1, <3>1, <4>1, <4>2
    <3>2. CASE bound[r] \notin Managed
      BY <1>1, <3>2, ScreensFacts
    <3> QED
      BY <3>1, <3>2
  <2>2. captures' = [r \in Outlets |-> captures'[r]]
    BY <1>1
  <2> QED
    BY <2>1, <2>2
<1>8. Followed'
  <2>1. \A r \in Outlets : bound[r] \in Panels => bound[r] \in Managed
    BY DEF ScreensInv, OnTheList, Managed
  <2>2. \A r \in Outlets : bound[r] \in Panels =>
           captures'[r].of = bound[r] /\ captures'[r].size = panels'[bound[r]].size
    BY <1>1, <1>2, <2>1
  <2>3. \A r \in Outlets : bound[r] \in Panels => r \in panels'[bound[r]].listed
    BY <1>2
  <2>4. options'.kind = "captures" /\ capturing' /\ bound' = bound
    BY <1>1, <1>u
  <2> QED
    BY <1>2, <2>2, <2>3, <2>4 DEF Followed
<1>9. ManagerTypeOK'
  <2>1. capturing' \in BOOLEAN
    BY <1>1
  <2> QED
    BY <1>u, <1>3, <1>7, <2>1 DEF ScreensInv, ManagerTypeOK, PanelSet
<1> QED
  BY <1>u, <1>4, <1>5, <1>6, <1>8, <1>9 DEF ScreensInv

LEMMA BindOutletStep ==
    ASSUME ScreensInv, NEW o \in Panels, NEW r \in Outlets, BindOutlet(r, o)
    PROVE  ScreensInv'
<1>1. /\ panels[o].lit /\ bound[r] = Nowhere /\ bound' = [bound EXCEPT ![r] = o]
      /\ UNCHANGED <<options, wanted, story, shade, look, unsaid, numbered, capturing>>
  BY DEF BindOutlet
<1>2. /\ bound' \in [Outlets -> Panels \cup {Nowhere, "inert"}]
      /\ bound'[r] = o /\ \A s \in Outlets \ {r} : bound'[s] = bound[s]
  BY <1>1, ScreensFacts
<1>3. \A q \in Panels : r \notin panels[q].listed
  BY <1>1, ScreenManagerAssumption DEF ScreensInv, OnTheList
<1>4. CASE ~capturing
  <2>1. UNCHANGED <<panels, captures>>
    BY <1>4 DEF BindOutlet
  <2>2. Shown' /\ Named'
    BY <1>1, <2>1, ShownAside, NamesAside
  <2>3. OnTheList'
    BY <1>1, <1>2, <1>3, <2>1 DEF ScreensInv, OnTheList
  <2>4. Followed'
    BY <1>1, <1>4 DEF Followed
  <2>5. ManagerTypeOK'
    BY <1>1, <1>2, <2>1 DEF ScreensInv, ManagerTypeOK
  <2> QED
    BY <1>1, <2>2, <2>3, <2>4, <2>5 DEF ScreensInv
<1>5. CASE capturing
  <2>1. /\ panels' = [panels EXCEPT ![o].listed = panels[o].listed \cup {r}]
        /\ captures' = [captures EXCEPT ![r] = [of |-> o, size |-> panels[o].view]]
    BY <1>5 DEF BindOutlet
  <2>p. PICK p : p = [panels[o] EXCEPT !.listed = panels[o].listed \cup {r}]
    OBVIOUS
  <2>2. panels[o] \in PanelSet /\ panels[o].view \in Pair
    BY ScreensFacts DEF PanelSet
  <2>3. /\ p \in PanelSet /\ p.lit /\ p.listed = panels[o].listed \cup {r}
        /\ p.name = panels[o].name /\ p.size = panels[o].size /\ p.view = panels[o].view
        /\ (p.asked <=> panels[o].asked) /\ (p.broken <=> panels[o].broken)
        /\ p.drawn = panels[o].drawn
    BY <1>1, <2>p, <2>2 DEF PanelSet
  <2>4. panels' = [panels EXCEPT ![o] = p]
    BY <2>1, <2>p, ScreensFacts
  <2>5. /\ panels' \in [Panels -> PanelSet] /\ panels'[o] = p
        /\ \A q \in Panels \ {o} : panels'[q] = panels[q]
    BY <2>3, <2>4, OnePanel
  <2>6. Shown'
    BY <1>1, <2>3, <2>5, ShownAside
  <2>7. Named'
    BY <1>1, <2>3, <2>5, NamesAside
  <2>8. OnTheList'
    BY <1>1, <1>2, <1>3, <2>3, <2>5 DEF ScreensInv, OnTheList
  <2>9. /\ captures' \in [Outlets -> [of : Panels \cup {Nowhere}, size : 0..2]]
        /\ captures'[r] = [of |-> o, size |-> panels[o].view]
        /\ \A s \in Outlets \ {r} : captures'[s] = captures[s]
    <3>1. [of |-> o, size |-> panels[o].view] \in [of : Panels \cup {Nowhere}, size : 0..2]
      BY <2>2, Two
    <3> QED
      BY <2>1, <3>1, ScreensFacts
  <2>10. Followed'
    <3>1. \A s \in Outlets : bound'[s] \in Panels =>
             /\ s \in panels'[bound'[s]].listed
             /\ captures'[s].of = bound'[s]
             /\ captures'[s].size \in {panels'[bound'[s]].size, panels'[bound'[s]].view}
      <4> SUFFICES ASSUME NEW s \in Outlets, bound'[s] \in Panels
                   PROVE  /\ s \in panels'[bound'[s]].listed
                          /\ captures'[s].of = bound'[s]
                          /\ captures'[s].size \in {panels'[bound'[s]].size,
                                                   panels'[bound'[s]].view}
        OBVIOUS
      <4>1. CASE s = r
        BY <1>2, <2>3, <2>5, <2>9, <4>1
      <4>2. CASE s # r
        <5>1. bound'[s] = bound[s] /\ captures'[s] = captures[s]
          BY <1>2, <2>9, <4>2
        <5>2. /\ s \in panels[bound[s]].listed
              /\ captures[s].of = bound[s]
              /\ captures[s].size \in {panels[bound[s]].size, panels[bound[s]].view}
          BY <1>5, <5>1 DEF ScreensInv, Followed
        <5>3. CASE bound[s] = o
          BY <2>3, <2>5, <5>1, <5>2, <5>3
        <5>4. CASE bound[s] # o
          <6>1. panels'[bound[s]] = panels[bound[s]]
            BY <2>5, <5>1, <5>4
          <6> QED
            BY <5>1, <5>2, <6>1
        <5> QED
          BY <5>3, <5>4
      <4> QED
        BY <4>1, <4>2
    <3>2. \A q \in Panels : panels'[q].lit /\ ~panels'[q].asked => panels'[q].size = panels'[q].view
      <4> SUFFICES ASSUME NEW q \in Panels, panels'[q].lit, ~panels'[q].asked
                   PROVE  panels'[q].size = panels'[q].view
        OBVIOUS
      <4>1. panels[q].lit /\ ~panels[q].asked => panels[q].size = panels[q].view
        BY <1>5 DEF ScreensInv, Followed
      <4>2. CASE q = o
        BY <1>1, <2>3, <2>5, <4>1, <4>2
      <4>3. CASE q # o
        BY <2>5, <4>1, <4>3
      <4> QED
        BY <4>2, <4>3
    <3> QED
      BY <1>1, <1>5, <3>1, <3>2 DEF ScreensInv, Followed
  <2>11. ManagerTypeOK'
    BY <1>1, <1>2, <2>5, <2>9 DEF ScreensInv, ManagerTypeOK, PanelSet
  <2> QED
    BY <1>1, <2>6, <2>7, <2>8, <2>10, <2>11 DEF ScreensInv
<1> QED
  BY <1>4, <1>5

LEMMA ReleaseOutletStep ==
    ASSUME ScreensInv, ~Recycled, NEW r \in Outlets, ReleaseOutlet(r)
    PROVE  ScreensInv'
<1>1. /\ bound' = [bound EXCEPT ![r] = "inert"]
      /\ UNCHANGED <<options, panels, wanted, story, shade, look, unsaid, numbered, capturing,
                     captures>>
  BY DEF ReleaseOutlet
<1>2. /\ bound' \in [Outlets -> Panels \cup {Nowhere, "inert"}]
      /\ \A s \in Outlets : /\ bound'[s] \in {bound[s], "inert"}
                            /\ bound'[s] \in Panels => bound[s] = bound'[s]
  BY <1>1, ScreensFacts, ScreenManagerAssumption
<1>3. Shown' /\ Named'
  BY <1>1, ShownAside, NamesAside
<1>4. OnTheList'
  BY <1>1, <1>2 DEF ScreensInv, OnTheList
<1>5. Followed'
  BY <1>1, <1>2 DEF ScreensInv, Followed
<1>6. ManagerTypeOK'
  BY <1>1, <1>2 DEF ScreensInv, ManagerTypeOK
<1> QED
  BY <1>1, <1>3, <1>4, <1>5, <1>6 DEF ScreensInv

LEMMA ScreensBegin == ManagerInit => ScreensInv
<1> SUFFICES ASSUME ManagerInit PROVE ScreensInv
  OBVIOUS
<1>1. /\ wanted = {} /\ story = {} /\ shade = 1 /\ unsaid = FALSE /\ numbered = 0
      /\ capturing = FALSE /\ options \in Options
      /\ \A o \in Panels : panels[o] = NoPanel
      /\ \A r \in Outlets : bound[r] = Nowhere
  BY DEF ManagerInit
<1>2. NoPanel \in PanelSet /\ ~NoPanel.lit /\ NoPanel.listed = {}
  <2>1. Blank \in [items : SUBSET (Items \X Pair), shade : 0..2, view : 0..2]
    BY Numbers DEF Blank
  <2> QED
    BY <2>1, Numbers DEF NoPanel, PanelSet
<1>3. panels \in [Panels -> PanelSet] /\ bound \in [Outlets -> Panels \cup {Nowhere, "inert"}]
  BY <1>2 DEF ManagerInit
<1>4. captures \in [Outlets -> [of : Panels \cup {Nowhere}, size : 0..2]]
  <2>1. NoCapture \in [of : Panels \cup {Nowhere}, size : 0..2]
    BY Numbers DEF NoCapture
  <2> QED
    BY <2>1 DEF ManagerInit
<1>5. look \in [Items -> 0..2] /\ \A i \in Images : look[i] \in 0..1
  <2>1. \A i \in Images : i \in Items /\ i \notin Actors
    BY ScreenManagerAssumption DEF Items
  <2>2. 0 \in 0..1 /\ 0 \in 0..2 /\ 1 \in 0..2
    OBVIOUS
  <2> QED
    BY <2>1, <2>2 DEF ManagerInit
<1>6. ManagerTypeOK
  BY <1>1, <1>3, <1>4, <1>5, Numbers DEF ManagerTypeOK, PanelSet
<1>7. Shown /\ Named /\ OnTheList /\ Followed
  BY <1>1, <1>2, ScreenManagerAssumption DEF Shown, Named, OnTheList, Followed
<1> QED
  BY <1>1, <1>5, <1>6, <1>7 DEF ScreensInv

LEMMA ScreensStep ==
    ASSUME ~Recycled, ~Hasty, Gpus \subseteq {TRUE}, ScreensInv, [ManagerNext]_managerVars
    PROVE  ScreensInv'
<1>1. CASE UNCHANGED managerVars
  <2>1. UNCHANGED <<options, panels, wanted, story, shade, look, unsaid, numbered, capturing,
                    bound, captures>>
    BY <1>1 DEF managerVars
  <2>2. Shown' /\ Named' /\ OnTheList' /\ Followed'
    BY <2>1, ShownAside, NamesAside, CapturesAside
  <2>3. ManagerTypeOK'
    BY <2>1 DEF ScreensInv, ManagerTypeOK
  <2> QED
    BY <2>1, <2>2, <2>3 DEF ScreensInv
<1>2. CASE ManagerNext
  BY <1>2, PlugStep, UnplugPanelStep, SwitchModeStep, RescaleStep, PresentStep, BindOutletStep,
     CommitActorStep, ActorGoneStep, TellStep, InvalidateStep, FollowCaptureStep, SetImageStep,
     ReleaseOutletStep DEF ManagerNext
<1> QED
  BY <1>1, <1>2

LEMMA ScreensEnough == ScreensInv => ScreensCurrent
<1> SUFFICES ASSUME ScreensInv PROVE ScreensCurrent
  OBVIOUS
<1>1. ShownIsTold
  BY DEF ScreensInv, Shown, ShownIsTold, Managed, Alive
<1>2. CapturesTold
  <2> SUFFICES ASSUME NEW r \in Outlets, capturing, bound[r] \in Panels, ~panels[bound[r]].asked
               PROVE  captures[r] = [of |-> bound[r], size |-> panels[bound[r]].view]
    BY DEF CapturesTold
  <2>1. captures[r] \in [of : Panels \cup {Nowhere}, size : 0..2]
    BY ScreensFacts
  <2>2. captures[r].of = bound[r] /\ captures[r].size = panels[bound[r]].view
    BY DEF ScreensInv, OnTheList, Followed
  <2> QED
    BY <2>1, <2>2
<1>3. NamesDiffer
  <2> SUFFICES ASSUME NEW o \in Managed, NEW p \in Managed, o # p, panels[o].name # 0
               PROVE  panels[o].name # panels[p].name
    BY DEF NamesDiffer
  <2>1. o \in Panels /\ p \in Panels /\ panels[o].lit /\ panels[p].lit
    BY DEF Managed
  <2>2. CASE o \in Connectors /\ panels[o].name = o
    BY <2>1, <2>2, ScreensFacts, ScreenManagerAssumption DEF ScreensInv, Named
  <2>3. CASE panels[o].name \in 1..numbered
    BY <2>1, <2>3, ScreensFacts, ScreenManagerAssumption DEF ScreensInv, Named
  <2> QED
    BY <2>1, <2>2, <2>3 DEF ScreensInv, Named
<1> QED
  BY <1>1, <1>2, <1>3 DEF ScreensCurrent

\* An output nobody owes a frame shows what it was told last, whoever may
\* capture it knows its size, and names differ (screen_manager.cppm, shell.rs):
\* with a GPU, where no wl_output gets the address of one that is gone and no
\* mode is switched again before a frame was shown with it.
THEOREM ScreensAreCurrent ==
    ASSUME ~Recycled, ~Hasty, Gpus \subseteq {TRUE}
    PROVE  ManagerSpec => []ScreensCurrent
<1>1. ScreensInv /\ [ManagerNext]_managerVars => ScreensInv'
  BY ScreensStep
<1> QED
  BY <1>1, ScreensBegin, ScreensEnough, PTL DEF ManagerSpec

\* Whoever asked is served, text, focus, frames and captures alike.
THEOREM EveryClientIsServed ==
    ASSUME ~Recycled, ~Hasty, Gpus \subseteq {TRUE}
    PROVE  TextSpec /\ ActivationSpec /\ ManagerSpec => []ClientsServed
<1>1. TextSpec => []FieldServed
  BY EveryFieldIsServed
<1>2. ActivationSpec => []TokensHonest
  BY TokensAreHonest
<1>3. ManagerSpec => []ScreensCurrent
  BY ScreensAreCurrent
<1> QED
  BY <1>1, <1>2, <1>3, PTL DEF ClientsServed

=============================================================================
