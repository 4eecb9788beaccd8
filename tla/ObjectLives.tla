----------------------------- MODULE ObjectLives -----------------------------
(***************************************************************************)
(* What the event stream promises a compositor about the objects it names: *)
(* each is made once and destroyed at most once, and what the compositor   *)
(* believes of it lags behind what is true but never contradicts it.  A    *)
(* name is learnt once, is heard of only while it is believed in, and is   *)
(* given up only for an object that is really gone.                        *)
(***************************************************************************)
CONSTANT Names

VARIABLES
    real,       \* the objects that exist
    gone,       \* the objects that existed
    known,      \* those the compositor believes in
    lost,       \* those it was told are gone
    heard       \* the set holding the one it heard of last
vars == <<real, gone, known, lost, heard>>

Init == real = {} /\ gone = {} /\ known = {} /\ lost = {} /\ heard = {}

Create(n) ==
    /\ n \notin real \cup gone
    /\ real' = real \cup {n}
    /\ UNCHANGED <<gone, known, lost, heard>>

Destroy(n) ==
    /\ n \in real
    /\ real' = real \ {n}
    /\ gone' = gone \cup {n}
    /\ UNCHANGED <<known, lost, heard>>

Learn(n) ==
    /\ n \in (real \cup gone) \ (known \cup lost)
    /\ known' = known \cup {n}
    /\ heard' = {n}
    /\ UNCHANGED <<real, gone, lost>>

Hear(n) ==
    /\ n \in known
    /\ heard' = {n}
    /\ UNCHANGED <<real, gone, known, lost>>

Lose(n) ==
    /\ n \in known \cap gone
    /\ known' = known \ {n}
    /\ lost' = lost \cup {n}
    /\ heard' = {n}
    /\ UNCHANGED <<real, gone>>

\* Something else was heard of, which has no life of its own here.
Digress == heard' = {} /\ UNCHANGED <<real, gone, known, lost>>

Next == Digress \/ \E n \in Names : Create(n) \/ Destroy(n) \/ Learn(n) \/ Hear(n) \/ Lose(n)

Spec == Init /\ [][Next]_vars

\* What exists is learnt of in the end, and what is gone is given up.
CatchesUp == \A n \in Names : (n \in gone) ~> (n \in lost)
=============================================================================
