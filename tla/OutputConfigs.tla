---------------------------- MODULE OutputConfigs ----------------------------
(***************************************************************************)
(* Screen arrangement by clients: OutputManager of bindings/rust/src/      *)
(* desktop.rs over output_management.cppm.  It describes the outputs of a  *)
(* layout as heads, each description with a serial; a client builds a      *)
(* configuration against one, applies it, and waits for its verdict, which *)
(* a deferring compositor gives by ticket when it pleases.  Outputs, the   *)
(* layout and the clients change in between.                               *)
(***************************************************************************)
EXTENDS Layout

CONSTANTS
    Configs,    \* zwlr_output_configuration_v1 objects, each a client's
    MaxSerial,  \* bound: descriptions sent
    MaxTickets  \* bound: requests emitted

VARIABLES
    heads,      \* outputs that are advertised
    said,       \* output -> its state as clients were last told, OmHead::sent
    view,       \* output -> what a client that heard it all believes
    serial,     \* of the last description
    finished,   \* a head has finished, and a client may still hold it
    configs,    \* config -> what it is
    tickets,    \* next_ticket
    deferred,   \* set_deferred()
    waiting,    \* ticket -> the outputs asked about, of the shim
    asks        \* OutputConfigRequest events: "queued" and "read" tickets
configVars == <<heads, said, view, serial, finished, configs, tickets, deferred, waiting, asks>>
arrangementVars == <<layoutVars, configVars>>

HeadState == [enabled : BOOLEAN, x : Int, mode : Widths]
Verdicts == {"succeeded", "failed", "cancelled"}
NoConfig == [state |-> "none", serial |-> 0, stale |-> FALSE, named |-> {}, ticket |-> 0,
             verdicts |-> <<>>, picture |-> <<>>, present |-> TRUE]

ConfigsTypeOK ==
    /\ heads \subseteq Monitors /\ serial \in 0..MaxSerial /\ tickets \in 0..MaxTickets
    /\ said \in [Monitors -> HeadState] /\ view \in [Monitors -> HeadState]
    /\ finished \in BOOLEAN /\ deferred \in BOOLEAN
    /\ \A c \in Configs : configs[c].verdicts \in Seq(Verdicts)
    /\ DOMAIN waiting \subseteq 1..MaxTickets
    /\ asks \in [queued : Seq(0..MaxTickets), read : SUBSET (1..MaxTickets)]

Unknown == [enabled |-> FALSE, x |-> 0, mode |-> CHOOSE w \in Widths : TRUE]

OutputManagerInit ==
    /\ heads = {} /\ serial = 0 /\ finished = FALSE
    /\ said = [m \in Monitors |-> Unknown] /\ view = [m \in Monitors |-> Unknown]
    /\ configs = [c \in Configs |-> NoConfig]
    /\ tickets = 0 /\ deferred \in BOOLEAN
    /\ waiting = <<>> /\ asks = [queued |-> <<>>, read |-> {}]

ConfigsInit == LayoutInit /\ OutputManagerInit

-----------------------------------------------------------------------------
(* Heads. *)

\* read(): enabled is being in the layout.
Read(m) ==
    [enabled |-> m \in Placed,
     x |-> IF m \in Placed THEN BoxOf(m).x ELSE 0,
     mode |-> widths[m]]

\* Mutant: a head that comes on is told as one that was on.
Told_Changes(old, was, now) ==
    IF ~now.enabled THEN [old EXCEPT !.enabled = FALSE]
    ELSE [enabled |-> TRUE,
          x |-> IF now.x # was.x THEN now.x ELSE old.x,
          mode |-> IF now.mode # was.mode THEN now.mode ELSE old.mode]

\* send_state(): what changed; everything of a head that comes on, and nothing
\* but that of one that is off.
Told(old, was, now) ==
    IF ~now.enabled THEN [old EXCEPT !.enabled = FALSE]
    ELSE [enabled |-> TRUE,
          x |-> IF now.x # was.x \/ ~was.enabled THEN now.x ELSE old.x,
          mode |-> IF now.mode # was.mode \/ ~was.enabled THEN now.mode ELSE old.mode]

SendDone == serial < MaxSerial /\ serial' = serial + 1

ClientVars == <<configs, tickets, deferred, waiting, asks>>

AddHead(m) ==
    /\ m \in plugged \ heads
    /\ heads' = heads \cup {m}
    /\ said' = [said EXCEPT ![m] = Read(m)]
    /\ view' = [view EXCEPT ![m] = Told(Unknown, Unknown, Read(m))]
    /\ SendDone
    /\ UNCHANGED <<layoutVars, finished, ClientVars>>

\* remove(): because the compositor says so, or with its output.
RemoveHead(m) ==
    /\ m \in heads
    /\ heads' = heads \ {m} /\ finished' = TRUE
    /\ said' = [said EXCEPT ![m] = Unknown] /\ view' = [view EXCEPT ![m] = Unknown]
    /\ SendDone
    /\ UNCHANGED ClientVars

\* Mutant: a description that differs goes out under the old serial.
Update_SameSerial ==
    LET now == [m \in Monitors |-> IF m \in heads THEN Read(m) ELSE said[m]] IN
    /\ now # said
    /\ said' = now
    /\ view' = [m \in Monitors |-> IF now[m] # said[m] THEN Told(view[m], said[m], now[m]) ELSE view[m]]
    /\ UNCHANGED <<layoutVars, heads, serial, finished, ClientVars>>

\* update(): the compositor's word that something changed.
Update ==
    LET now == [m \in Monitors |-> IF m \in heads THEN Read(m) ELSE said[m]] IN
    /\ now # said
    /\ said' = now
    /\ view' = [m \in Monitors |-> IF now[m] # said[m] THEN Told(view[m], said[m], now[m]) ELSE view[m]]
    /\ SendDone
    /\ UNCHANGED <<layoutVars, heads, finished, ClientVars>>

Unplug(m) ==
    /\ Unplugged(m)
    /\ IF m \in heads THEN RemoveHead(m) ELSE UNCHANGED configVars

-----------------------------------------------------------------------------
(* Configurations. *)

HeadVars == <<layoutVars, heads, said, view, serial, finished>>

CreateConfiguration(c) ==
    /\ configs[c].state = "none"
    /\ configs' = [configs EXCEPT ![c] = [NoConfig EXCEPT
           !.state = "open", !.serial = serial, !.picture = [m \in heads |-> said[m]]]]
    /\ UNCHANGED <<HeadVars, tickets, deferred, waiting, asks>>

\* enable_head and disable_head: a head that finished makes it stale.
NameHead(c, m) ==
    /\ configs[c].state = "open" /\ m \in heads \ configs[c].named
    /\ configs' = [configs EXCEPT ![c].named = @ \cup {m}]
    /\ UNCHANGED <<HeadVars, tickets, deferred, waiting, asks>>

NameFinished(c) ==
    /\ configs[c].state = "open" /\ finished /\ ~configs[c].stale
    /\ configs' = [configs EXCEPT ![c].stale = TRUE]
    /\ UNCHANGED <<HeadVars, tickets, deferred, waiting, asks>>

Verdict(c, v) == [c EXCEPT !.state = "used", !.ticket = 0, !.named = {}, !.picture = <<>>, !.verdicts = Append(@, v)]

\* om_submit(), cancelled: against another picture of the outputs.
Outdated(c) == configs[c].stale \/ configs[c].serial # serial

Cancel(c) ==
    /\ configs[c].state = "open" /\ Outdated(c)
    /\ configs' = [configs EXCEPT ![c] = Verdict(@, "cancelled")]
    /\ UNCHANGED <<HeadVars, tickets, deferred, waiting, asks>>

\* A head left out is the client's error, which is its end.
Forgotten(c) ==
    /\ configs[c].state = "open" /\ ~Outdated(c) /\ heads \ configs[c].named # {}
    /\ configs' = [configs EXCEPT ![c] = NoConfig]
    /\ UNCHANGED <<HeadVars, tickets, deferred, waiting, asks>>

\* History: whether the outputs are described as when the client began.
Judged(c) == [configs[c] EXCEPT !.state = "used", !.named = {}, !.picture = <<>>,
                                !.present = configs[c].picture = [m \in heads |-> said[m]]]

\* The request: put off under its ticket, or answered at once.
Submit(c, v) ==
    /\ configs[c].state = "open" /\ ~Outdated(c) /\ heads \subseteq configs[c].named
    /\ tickets < MaxTickets /\ tickets' = tickets + 1
    /\ IF deferred
       THEN /\ configs' = [configs EXCEPT ![c] = [Judged(c) EXCEPT !.ticket = tickets']]
            /\ waiting' = [t \in DOMAIN waiting \cup {tickets'} |-> IF t = tickets' THEN heads ELSE waiting[t]]
            /\ asks' = [asks EXCEPT !.queued = Append(@, tickets')]
       ELSE /\ configs' = [configs EXCEPT ![c] = Verdict(Judged(c), v)]
            /\ asks' = [asks EXCEPT !.queued = Append(@, 0)]
            /\ UNCHANGED waiting
    /\ UNCHANGED <<HeadVars, deferred>>

DestroyConfig(c) ==
    /\ configs[c].state # "none"
    /\ configs' = [configs EXCEPT ![c] = NoConfig]
    /\ UNCHANGED <<HeadVars, tickets, deferred, waiting, asks>>

-----------------------------------------------------------------------------
(* The compositor. *)

SetDeferred ==
    /\ deferred' = ~deferred
    /\ UNCHANGED <<HeadVars, configs, tickets, waiting, asks>>

OutputConfigRequest ==
    /\ asks.queued # <<>>
    /\ asks' = [queued |-> Tail(asks.queued), read |-> asks.read \cup ({Head(asks.queued)} \ {0})]
    /\ UNCHANGED <<HeadVars, configs, tickets, deferred, waiting>>

\* Mutant: the ticket is good for another answer.
Answer_Again(t, v) ==
    /\ t \in asks.read
    /\ configs' = [c \in Configs |-> IF configs[c].ticket = t /\ Len(configs[c].verdicts) < 2
                                     THEN [Verdict(configs[c], v) EXCEPT !.ticket = t] ELSE configs[c]]
    /\ waiting' = [u \in DOMAIN waiting \ {t} |-> waiting[u]]
    /\ UNCHANGED <<HeadVars, tickets, deferred, asks>>

\* answer(): whoever still waits under the ticket hears it, once.  The
\* compositor may say it again.
Answer(t, v) ==
    /\ t \in asks.read
    /\ configs' = [c \in Configs |-> IF configs[c].ticket = t THEN Verdict(configs[c], v) ELSE configs[c]]
    /\ waiting' = [u \in DOMAIN waiting \ {t} |-> waiting[u]]
    /\ UNCHANGED <<HeadVars, tickets, deferred, asks>>

-----------------------------------------------------------------------------
ConfigsNext ==
    \/ Arranges /\ UNCHANGED configVars
    \/ \E m \in Monitors : \/ PluggedIn(m) /\ UNCHANGED configVars
                           \/ Unplug(m) \/ AddHead(m) \/ (RemoveHead(m) /\ UNCHANGED layoutVars)
    \/ Update \/ SetDeferred \/ OutputConfigRequest
    \/ \E c \in Configs : \/ CreateConfiguration(c) \/ NameFinished(c) \/ Cancel(c) \/ Forgotten(c)
                          \/ DestroyConfig(c)
                          \/ \E m \in Monitors : NameHead(c, m)
                          \/ \E v \in Verdicts \ {"cancelled"} : Submit(c, v)
    \/ \E t \in 1..MaxTickets, v \in Verdicts \ {"cancelled"} : Answer(t, v)

ConfigsSpec == ConfigsInit /\ [][ConfigsNext]_arrangementVars

-----------------------------------------------------------------------------
(* Properties. *)

\* Who applied a configuration hears one verdict: now, or when its ticket is
\* answered, and nobody else by that ticket.  A ticket that a client waits for
\* can still be read and answered.
OneVerdict ==
    \A c \in Configs : configs[c].state = "used" =>
        /\ Len(configs[c].verdicts) = IF configs[c].ticket = 0 THEN 1 ELSE 0
        /\ configs[c].ticket # 0 =>
            /\ configs[c].ticket \in DOMAIN waiting
            /\ configs[c].ticket \in asks.read \cup ToSet(asks.queued)
            /\ \A d \in Configs \ {c} : configs[d].ticket # configs[c].ticket

\* The compositor is never asked for an arrangement of outputs that were
\* described differently when the client began it, and then of all of them.
AskedOfThePresent ==
    \A c \in Configs : configs[c].present

\* A client that reads what it is said knows the heads as the compositor last
\* described them, whatever they went through while they were off.
HeadsKnown ==
    \A m \in heads : /\ view[m].enabled = said[m].enabled
                     /\ said[m].enabled => view[m] = said[m]

VerdictsHonest == OneVerdict /\ AskedOfThePresent /\ HeadsKnown

\* Outputs come, go and are arranged, by the compositor or for a client: the
\* pointer stays among them, and every client hears what became of its wish.
ArrangementSound == PointerKept /\ VerdictsHonest
=============================================================================
