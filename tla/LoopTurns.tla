------------------------------ MODULE LoopTurns ------------------------------
(***************************************************************************)
(* Who sleeps while somebody waits: the turn of a compositor's main loop   *)
(* (bindings/rust/src/core.rs, examples/calloop.rs).  libwayland gathers   *)
(* what it has to tell a client in a buffer, which only a flush sends; the *)
(* library leaves records in the hub, which only a turn collects.  A loop  *)
(* of its own blocks in Display::dispatch(); one that calloop or an async  *)
(* runtime drives sleeps on the display's file descriptor and dispatches   *)
(* without blocking when it is readable.                                   *)
(***************************************************************************)
EXTENDS Naturals, FiniteSets

CONSTANTS
    Callers,    \* clients
    Drivers,    \* the loops to look at, of AllDrivers
    MaxStrays   \* bound: records left by the handling of others

AllDrivers == {"blocking", "calloop", "sample", "await"}

ASSUME LoopAssumption == Drivers \subseteq AllDrivers /\ MaxStrays \in Nat

VARIABLES
    driver,     \* which loop runs
    step,       \* where its turn is
    caller,     \* client -> where its latest request or its answer is
    records,    \* the hub: requests, frames and watched files that fired
    taken,      \* the events the turn collected, not handled yet
    frameTimer, \* the output's frame timer
    watched,    \* a file the compositor watches: has it something to read
    strays      \* history: records left by the handling of others
loopVars == <<driver, step, caller, records, taken, frameTimer, watched, strays>>

Happenings == Callers \cup {"frame", "file", "stray"}

LoopTypeOK ==
    /\ driver \in Drivers
    /\ step \in {"asleep", "woken", "handling", "stopped"}
    /\ caller \in [Callers -> {"idle", "sent", "queued", "buffered"}]
    /\ records \subseteq Happenings /\ taken \subseteq Happenings
    /\ frameTimer \in {"off", "armed", "due"}
    /\ watched \in BOOLEAN
    /\ strays \in 0..MaxStrays

\* main() has drawn its first frame and asked for the next.
LoopInit ==
    /\ driver \in Drivers
    /\ step = "asleep"
    /\ caller = [c \in Callers |-> "idle"]
    /\ records = {} /\ taken = {}
    /\ frameTimer = "armed"
    /\ watched = FALSE
    /\ strays = 0

-----------------------------------------------------------------------------
(* The world. *)

Ask(c) ==
    /\ caller[c] = "idle" /\ step # "stopped"
    /\ caller' = [caller EXCEPT ![c] = "sent"]
    /\ UNCHANGED <<driver, step, records, taken, frameTimer, watched, strays>>

FrameDue ==
    /\ frameTimer = "armed"
    /\ frameTimer' = "due"
    /\ UNCHANGED <<driver, step, caller, records, taken, watched, strays>>

FileReadable ==
    /\ ~watched /\ step # "stopped"
    /\ watched' = TRUE
    /\ UNCHANGED <<driver, step, caller, records, taken, frameTimer, strays>>

-----------------------------------------------------------------------------
(* The turn. *)

\* What makes the loop's descriptor readable: records in the hub do not.
Readable == watched \/ frameTimer = "due" \/ \E c \in Callers : caller[c] = "sent"

FlushClients(state) == [c \in Callers |-> IF state[c] = "buffered" THEN "idle" ELSE state[c]]

\* A loop of its own flushes before it blocks in the same dispatch(); the
\* others are asleep outside it and flush when they are woken.
Wake ==
    /\ step = "asleep" /\ Readable
    /\ step' = "woken"
    /\ UNCHANGED <<driver, caller, records, taken, frameTimer, watched, strays>>

\* The sources that are ready: a request is answered at once (buffered) or
\* forwarded as an event; the timer and the watched file leave one too.
Dispatch(direct) ==
    LET sent == {c \in Callers : caller[c] = "sent"}
        flushed == FlushClients(caller)
        fired == (sent \ direct) \cup (IF frameTimer = "due" THEN {"frame"} ELSE {})
                                 \cup (IF watched THEN {"file"} ELSE {})
    IN  /\ step = "woken"
        /\ direct \subseteq sent
        /\ caller' = [c \in Callers |-> IF c \in direct THEN "buffered"
                                       ELSE IF c \in sent THEN "queued"
                                       ELSE flushed[c]]
        /\ taken' = records \cup fired
        /\ records' = {}
        /\ frameTimer' = IF frameTimer = "due" THEN "off" ELSE frameTimer
        /\ step' = "handling"
        /\ UNCHANGED <<driver, watched, strays>>

\* render_frame(): presents, and may ask for another frame.
RenderFrame ==
    /\ step = "handling" /\ "frame" \in taken
    /\ taken' = taken \ {"frame"}
    /\ frameTimer' \in {frameTimer, "armed"}
    /\ UNCHANGED <<driver, step, caller, records, watched, strays>>

ReadFile ==
    /\ step = "handling" /\ "file" \in taken
    /\ taken' = taken \ {"file"}
    /\ watched' = FALSE
    /\ UNCHANGED <<driver, step, caller, records, frameTimer, strays>>

\* A wrapper called while an event is handled may fire a signal: the record
\* waits for the next turn.
HandleRecord(e) ==
    /\ step = "handling" /\ e \in taken \ {"frame", "file"}
    /\ taken' = taken \ {e}
    /\ caller' = IF e \in Callers THEN [caller EXCEPT ![e] = "buffered"] ELSE caller
    /\ \/ UNCHANGED <<records, strays>>
       \/ /\ strays < MaxStrays
          /\ strays' = strays + 1
          /\ records' = records \cup {"stray"}
    /\ UNCHANGED <<driver, step, frameTimer, watched>>

\* Mutant: the callback returns without flushing.
Flushed_Forgotten(state) == IF driver = "blocking" THEN FlushClients(state) ELSE state

\* The end of a turn: dispatch() is entered again, and flushes before it
\* waits; or the callback flushes before it returns; or nobody does.
Flushed(state) == IF driver \in {"blocking", "calloop"} THEN FlushClients(state) ELSE state

TurnEnds ==
    /\ step = "handling" /\ taken = {}
    /\ caller' = Flushed(caller)
    /\ step' = "asleep"
    /\ UNCHANGED <<driver, records, taken, frameTimer, watched, strays>>

\* The exit timer, run() told to terminate, a key: between two turns.
Stop ==
    /\ step = "asleep"
    /\ step' = "stopped"
    /\ frameTimer' = "off"
    /\ UNCHANGED <<driver, caller, records, taken, watched, strays>>

LoopTurn == \/ Wake \/ RenderFrame \/ ReadFile \/ TurnEnds
        \/ \E d \in SUBSET Callers : Dispatch(d)
        \/ \E e \in Callers \cup {"stray"} : HandleRecord(e)

LoopNext == LoopTurn \/ FrameDue \/ FileReadable \/ Stop \/ \E c \in Callers : Ask(c)

\* The thread runs and the timer expires; clients may never ask again, files
\* need not become readable, and the compositor need not stop.
LoopFairness == WF_loopVars(LoopTurn) /\ WF_loopVars(FrameDue)

LoopSpec == LoopInit /\ [][LoopNext]_loopVars /\ LoopFairness

-----------------------------------------------------------------------------
(* The properties. *)

\* A client that asked gets its answer, even when nothing else ever happens to
\* wake the loop (a roundtrip with every other client idle and nothing to
\* draw): the loop does not go to sleep on an answer.
RequestsAnswered ==
    \A c \in Callers : caller[c] # "idle" ~> (caller[c] = "idle" \/ step = "stopped")
=============================================================================
