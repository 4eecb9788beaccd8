----------------------------- MODULE EventStream -----------------------------
(***************************************************************************)
(* The one queue between the C++ library and a Rust compositor             *)
(* (bindings/rust/src/event.rs, core.rs and the shim behind them).  C++    *)
(* never calls Rust: a signal leaves a record in the hub, and              *)
(* Display::dispatch() hands over what has gathered, which the compositor  *)
(* handles one event at a time, after the fact.  Objects are named, never  *)
(* lent: a surface and its window by the surface's generational id, an     *)
(* output by a number; the name is looked up when the event is handled.    *)
(***************************************************************************)
EXTENDS Naturals, Sequences, FiniteSets, SequencesExt

CONSTANTS
    Slots,      \* slots of the surface registry
    MaxGen,     \* bound: generations of a slot
    Windows,    \* xdg_toplevels clients may make
    Heads,      \* outputs a backend may light up
    MaxQueued,  \* bound: records gathered and not handled
    None        \* "no object"

ASSUME StreamAssumption == MaxGen \in Nat \ {0} /\ MaxQueued \in Nat \ {0}

VARIABLES
    registry,   \* slot -> generation, and whether a surface has it
    windows,    \* window -> the id of its surface, and the shim's map entry
    outputs,    \* head -> the C++ output, and where its Rust wrapper is
    hub,        \* records fired and not collected
    batch,      \* events collected and not handled
    known, lost, heard \* history: what the handled events said
streamVars == <<registry, windows, outputs, hub, batch, known, lost, heard>>
belief == <<known, lost, heard>>

SurfaceIds == Slots \X (1..MaxGen)

\* An index and a generation, and a number: no name is of two kinds.
ASSUME NamesAssumption == None \notin SurfaceIds /\ SurfaceIds \cap Heads = {}

Families == {"Surface", "Window", "Output"}
HubRecord == [family : Families, says : {"new", "more", "gone", "invalid"},
           name : SurfaceIds \cup Heads, of : SurfaceIds \cup Heads \cup Windows]

StreamTypeOK ==
    /\ registry \in [Slots -> [gen : 1..(MaxGen + 1), alive : BOOLEAN]]
    /\ windows \in [Windows -> [name : SurfaceIds \cup {None}, alive : BOOLEAN, watched : BOOLEAN]]
    /\ outputs \in [Heads -> [lit : {"never", "lit", "gone"},
                              wrapper : {"none", "queued", "held", "dropped"}]]
    /\ hub \in Seq(HubRecord) /\ batch \in Seq(HubRecord)
    /\ known \subseteq SurfaceIds \cup Heads
    /\ lost \subseteq SurfaceIds \cup Heads
    /\ heard \subseteq SurfaceIds \cup Heads

StreamInit ==
    /\ registry = [s \in Slots |-> [gen |-> 1, alive |-> FALSE]]
    /\ windows = [w \in Windows |-> [name |-> None, alive |-> FALSE, watched |-> FALSE]]
    /\ outputs = [o \in Heads |-> [lit |-> "never", wrapper |-> "none"]]
    /\ hub = <<>> /\ batch = <<>>
    /\ known = {} /\ lost = {} /\ heard = {}

-----------------------------------------------------------------------------
(* What the library fires. *)

Rec(family, says, name, of) == [family |-> family, says |-> says, name |-> name, of |-> of]

Room == Len(hub) + Len(batch) < MaxQueued

\* A signal leaves its records behind, in the order they were fired.
Push(records) ==
    /\ Room
    /\ hub' = hub \o records
    /\ UNCHANGED <<batch, belief>>

\* {index, generation}, as SurfaceRegistry hands it out.
SurfaceId(s) == <<s, registry[s].gen>>

CreateSurface(s) ==
    /\ ~registry[s].alive /\ registry[s].gen <= MaxGen
    /\ registry' = [registry EXCEPT ![s].alive = TRUE]
    /\ Push(<<Rec("Surface", "new", SurfaceId(s), SurfaceId(s))>>)
    /\ UNCHANGED <<windows, outputs>>

\* A commit, or a frame of it that was rendered.
CommitSurface(s) ==
    /\ registry[s].alive
    /\ Push(<<Rec("Surface", "more", SurfaceId(s), SurfaceId(s))>>)
    /\ UNCHANGED <<registry, windows, outputs>>

\* Mutant: the slot is freed and its generation kept.
Retired_SameGen(r) == [gen |-> r.gen, alive |-> FALSE]

\* Freeing the slot makes every id handed out for it stale.
Retired(r) == [gen |-> r.gen + 1, alive |-> FALSE]

\* The destructor says destroy, frees the slot, and says the id is void.
DestroySurface(s) ==
    /\ registry[s].alive
    /\ registry' = [registry EXCEPT ![s] = Retired(@)]
    /\ Push(<<Rec("Surface", "gone", SurfaceId(s), SurfaceId(s)),
              Rec("Surface", "invalid", SurfaceId(s), SurfaceId(s))>>)
    /\ UNCHANGED <<windows, outputs>>

\* get_toplevel.  Nothing keeps a surface to one window at a time or in its
\* life: the shim's map, keyed by the surface, then forgets the earlier one.
Watch(w, id) ==
    windows' = [v \in Windows |->
        IF v = w THEN [name |-> id, alive |-> TRUE, watched |-> TRUE]
        ELSE IF windows[v].name = id THEN [windows[v] EXCEPT !.watched = FALSE]
        ELSE windows[v]]

\* Mutant: a surface that has a window already is not announced again.
GetToplevel_Silent(w, id) ==
    IF \E v \in Windows : windows[v].watched /\ windows[v].name = id THEN <<>>
    ELSE <<Rec("Window", "new", id, w)>>

Announced(w, id) == <<Rec("Window", "new", id, w)>>

GetToplevel(w, s) ==
    /\ windows[w].name = None
    /\ registry[s].alive
    /\ Watch(w, SurfaceId(s))
    /\ Push(Announced(w, SurfaceId(s)))
    /\ UNCHANGED <<registry, outputs>>

\* Anything a toplevel asks for or does while it is watched.
ToplevelRequest(w) ==
    /\ windows[w].alive /\ windows[w].watched
    /\ Push(<<Rec("Window", "more", windows[w].name, w)>>)
    /\ UNCHANGED <<registry, windows, outputs>>

DestroyToplevel(w) ==
    /\ windows[w].alive
    /\ windows' = [windows EXCEPT ![w].alive = FALSE, ![w].watched = FALSE]
    /\ Push(IF windows[w].watched THEN <<Rec("Window", "gone", windows[w].name, w)>> ELSE <<>>)
    /\ UNCHANGED <<registry, outputs>>

\* The backend announces an output: its wrapper travels in the record.
LightUp(o) ==
    /\ outputs[o].lit = "never"
    /\ outputs' = [outputs EXCEPT ![o] = [lit |-> "lit", wrapper |-> "queued"]]
    /\ Push(<<Rec("Output", "new", o, o)>>)
    /\ UNCHANGED <<registry, windows>>

\* A frame, a presentation or a change of mode, as long as a wrapper listens.
Listening(o) == outputs[o].lit = "lit" /\ outputs[o].wrapper \in {"queued", "held"}
OutputFrame(o) ==
    /\ Listening(o)
    /\ Push(<<Rec("Output", "more", o, o)>>)
    /\ UNCHANGED <<registry, windows, outputs>>

\* Mutant: the removal is reported through the wrapper.
Unplug_Unheard(o) ==
    /\ outputs[o].lit = "lit"
    /\ outputs' = [outputs EXCEPT ![o].lit = "gone"]
    /\ Push(IF Listening(o) THEN <<Rec("Output", "gone", o, o)>> ELSE <<>>)
    /\ UNCHANGED <<registry, windows>>

\* The backend's own watch reports the removal, wrapper or not.
Unplug(o) ==
    /\ outputs[o].lit = "lit"
    /\ outputs' = [outputs EXCEPT ![o].lit = "gone"]
    /\ Push(<<Rec("Output", "gone", o, o)>>)
    /\ UNCHANGED <<registry, windows>>

-----------------------------------------------------------------------------
(* What the compositor does. *)

\* Display::events(): the hub is emptied, oldest first.
Collect ==
    /\ hub # <<>>
    /\ batch' = batch \o hub
    /\ hub' = <<>>
    /\ UNCHANGED <<registry, windows, outputs, belief>>

\* What an event does to what the compositor believes of the object.
Believe(e) ==
    LET about == IF e.family = "Window" \/ e.says = "invalid" THEN {} ELSE {e.name} IN
    /\ heard' = about
    /\ known' = CASE e.says = "new"  -> known \cup about
                  [] e.says = "gone" -> known \ about
                  [] OTHER           -> known
    /\ lost' = IF e.says = "gone" THEN lost \cup about ELSE lost

\* The iterator yields the oldest event; an OutputAdded brings the wrapper,
\* which the compositor keeps, or drops with the event.
HandleEvent(keep) ==
    /\ batch # <<>>
    /\ batch' = Tail(batch)
    /\ LET e == Head(batch) IN
       /\ Believe(e)
       /\ IF e.family = "Output" /\ e.says = "new"
          THEN outputs' = [outputs EXCEPT ![e.name].wrapper = IF keep THEN "held" ELSE "dropped"]
          ELSE keep /\ UNCHANGED outputs
    /\ UNCHANGED <<registry, windows, hub>>

DropOutput(o) ==
    /\ outputs[o].wrapper = "held"
    /\ outputs' = [outputs EXCEPT ![o].wrapper = "dropped"]
    /\ UNCHANGED <<registry, windows, hub, batch, belief>>

StreamNext ==
    \/ \E s \in Slots : CreateSurface(s) \/ CommitSurface(s) \/ DestroySurface(s)
    \/ \E w \in Windows : \/ \E s \in Slots : GetToplevel(w, s)
                          \/ ToplevelRequest(w) \/ DestroyToplevel(w)
    \/ \E o \in Heads : LightUp(o) \/ OutputFrame(o) \/ Unplug(o) \/ DropOutput(o)
    \/ Collect
    \/ \E keep \in BOOLEAN : HandleEvent(keep)

\* A compositor keeps dispatching and handles what each dispatch returned.
StreamFairness == WF_streamVars(Collect) /\ WF_streamVars(\E keep \in BOOLEAN : HandleEvent(keep))

StreamSpec == StreamInit /\ [][StreamNext]_streamVars /\ StreamFairness

-----------------------------------------------------------------------------
(* What the stream promises. *)

Queued == batch \o hub

\* Surfaces and outputs: the compositor's belief is a late but faithful copy
\* of what exists.  A name is never given to a second object, and no event
\* about an object comes before its first or after its last.
Lives == INSTANCE ObjectLives WITH
    Names <- SurfaceIds \cup Heads,
    real <- {n \in SurfaceIds : registry[n[1]].alive /\ registry[n[1]].gen = n[2]}
            \cup {o \in Heads : outputs[o].lit = "lit"},
    gone <- {n \in SurfaceIds : n[2] < registry[n[1]].gen}
            \cup {o \in Heads : outputs[o].lit = "gone"}
Faithful == Lives!Spec

\* A compositor that keeps dispatching hears of every object's end.
CatchesUp == Lives!CatchesUp

\* Windows are named by their surface, which may get another window.  An
\* event about a window that handling it late would look up to a successor
\* is followed, in the stream, by the announcement of that successor.
Found(id) == {w \in Windows : windows[w].watched /\ windows[w].name = id}
SuccessorAnnounced ==
    \A i \in 1..Len(Queued) : Queued[i].family = "Window" =>
        \A w \in Found(Queued[i].name) \ {Queued[i].of} :
            \E j \in (i + 1)..Len(Queued) : Queued[j].says = "new" /\ Queued[j].of = w
=============================================================================
