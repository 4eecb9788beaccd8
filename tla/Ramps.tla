-------------------------------- MODULE Ramps --------------------------------
(***************************************************************************)
(* The colours of an output in the hands of clients: gamma_control.cppm    *)
(* and ctm_control.cppm, and GammaControlManager and CtmControlManager of  *)
(* bindings/rust/src/desktop.rs, which keep the last table of each output  *)
(* for the compositor to read when it comes to the event.                  *)
(***************************************************************************)
EXTENDS Naturals

CONSTANTS
    Apps,       \* clients; each has one wl_output of its own of each screen
    Displays,   \* outputs
    Controls,   \* zwlr_gamma_control_v1 objects
    NoTable,    \* the identity: nothing set
    Supersedes  \* clients ask anew for an output while they have a control of it

ASSUME RampAssumption == NoTable \notin Controls \cup Apps

VARIABLES
    controls,   \* control -> what it is
    sizes,      \* screen -> what set_output_size() said of its gamma table
    ctm,        \* who is bound, who of them is active, and what it set
    tables,     \* kind -> screen -> whose table the shim has
    unheard,    \* GammaEvent and CtmEvent, fired and not handled
    screened,   \* kind -> screen -> whose table the compositor has set
    inherited   \* history: screens whose ramp outlived the control it came from
rampVars == <<controls, sizes, ctm, tables, unheard, screened, inherited>>

GammaEvent == {"ramp"} \X Displays
CtmEvent == {"matrix"} \X Displays
Kinds == {"ramp", "matrix"}

NoControl == [live |-> FALSE, app |-> NoTable, screen |-> NoTable, owns |-> FALSE, applied |-> FALSE]

RampsTypeOK ==
    /\ controls \in [Controls -> [live : BOOLEAN, app : Apps \cup {NoTable}, screen : Displays \cup {NoTable},
                                  owns : BOOLEAN, applied : BOOLEAN]]
    /\ sizes \in [Displays -> {"unset", "table", "none"}] /\ inherited \subseteq Displays
    /\ ctm \in [bound : SUBSET Apps, active : Apps \cup {NoTable}, pending : SUBSET Displays]
    /\ tables \in [Kinds -> [Displays -> Controls \cup Apps \cup {NoTable}]]
    /\ screened \in [Kinds -> [Displays -> Controls \cup Apps \cup {NoTable}]]
    /\ unheard \subseteq GammaEvent \cup CtmEvent

GammaInit ==
    /\ controls = [c \in Controls |-> NoControl]
    /\ sizes = [s \in Displays |-> "unset"] /\ inherited = {}

CtmInit == ctm = [bound |-> {}, active |-> NoTable, pending |-> {}]

RampsInit ==
    /\ GammaInit /\ CtmInit
    /\ tables = [k \in Kinds |-> [s \in Displays |-> NoTable]]
    /\ screened = tables /\ unheard = {}

-----------------------------------------------------------------------------
(* Gamma: one control for a wl_output, and a table from whoever has it. *)

\* gamma_changed: the shim keeps the table, or forgets it.
Emit(s, table) ==
    /\ tables' = [tables EXCEPT !["ramp"][s] = table]
    /\ unheard' = unheard \cup {<<"ramp", s>>}
    /\ inherited' = inherited \ {s}

\* reset(): whoever's table is on the output hands it back, once.
Reset(s, applied) == IF applied THEN Emit(s, NoTable) ELSE UNCHANGED <<tables, unheard, inherited>>

Holds(c, a, s) == controls[c].live /\ controls[c].owns /\ controls[c].app = a /\ controls[c].screen = s

\* size_for(): as long as nothing was said of any output, they all have a table;
\* from then on, those of which it was said.
HasTable(s) == sizes[s] = "table" \/ \A t \in Displays : sizes[t] = "unset"

\* Mutant: who was superseded still means to reset what it applied.
GetGammaControl_Grudges(c, a, s) ==
    LET failed == {d \in Controls : Holds(d, a, s)} IN
    /\ ~controls[c].live
    /\ Supersedes \/ failed = {}
    /\ controls' = [d \in Controls |->
           IF d = c THEN [live |-> TRUE, app |-> a, screen |-> s, owns |-> HasTable(s), applied |-> FALSE]
           ELSE IF d \in failed THEN [controls[d] EXCEPT !.owns = FALSE]
           ELSE controls[d]]
    /\ inherited' = IF \E d \in failed : controls[d].applied THEN inherited \cup {s} ELSE inherited
    /\ UNCHANGED <<sizes, ctm, tables, unheard, screened>>

\* get_gamma_control: who had one of the same wl_output has failed, and its
\* table stays until the newcomer sets one.  Without a table it fails itself.
GetGammaControl(c, a, s) ==
    LET failed == {d \in Controls : Holds(d, a, s)} IN
    /\ ~controls[c].live
    /\ Supersedes \/ failed = {}
    /\ controls' = [d \in Controls |->
           IF d = c THEN [live |-> TRUE, app |-> a, screen |-> s, owns |-> HasTable(s), applied |-> FALSE]
           ELSE IF d \in failed THEN [controls[d] EXCEPT !.owns = FALSE, !.applied = FALSE]
           ELSE controls[d]]
    /\ inherited' = IF \E d \in failed : controls[d].applied THEN inherited \cup {s} ELSE inherited
    /\ UNCHANGED <<sizes, ctm, tables, unheard, screened>>

SetGamma(c) ==
    /\ controls[c].live /\ controls[c].owns
    /\ controls' = [controls EXCEPT ![c].applied = TRUE]
    /\ Emit(controls[c].screen, c)
    /\ UNCHANGED <<sizes, ctm, screened>>

\* Mutant: a client that crashes leaves its table behind.
DestroyControl_Keeps(c) ==
    /\ controls[c].live
    /\ controls' = [controls EXCEPT ![c] = NoControl]
    /\ UNCHANGED <<sizes, ctm, screened, tables, unheard, inherited>>

\* ~GammaControl(): its client destroyed it, quit or crashed.
DestroyControl(c) ==
    /\ controls[c].live
    /\ controls' = [controls EXCEPT ![c] = NoControl]
    /\ Reset(controls[c].screen, controls[c].applied)
    /\ UNCHANGED <<sizes, ctm, screened>>

\* on_output_destroyed(): the client let go of its wl_output.
ReleaseOutput(a, s) ==
    LET lost == {c \in Controls : Holds(c, a, s)} IN
    /\ lost # {}
    /\ controls' = [c \in Controls |->
           IF c \in lost THEN [controls[c] EXCEPT !.owns = FALSE, !.applied = FALSE] ELSE controls[c]]
    /\ Reset(s, \E c \in lost : controls[c].applied)
    /\ UNCHANGED <<sizes, ctm, screened>>

SetOutputSize(s, size) ==
    /\ sizes' = [sizes EXCEPT ![s] = size]
    /\ UNCHANGED <<controls, ctm, tables, unheard, screened, inherited>>

-----------------------------------------------------------------------------
(* Matrices: the first client that binds is active, and the others blocked. *)

EmitAll(ss, table) ==
    /\ tables' = [tables EXCEPT !["matrix"] = [s \in Displays |-> IF s \in ss THEN table ELSE @[s]]]
    /\ unheard' = unheard \cup {<<"matrix", s>> : s \in ss}

BindCtm(a) ==
    /\ a \notin ctm.bound
    /\ ctm' = [ctm EXCEPT !.bound = @ \cup {a}, !.active = IF @ = NoTable THEN a ELSE @]
    /\ UNCHANGED <<controls, sizes, tables, unheard, screened, inherited>>

SetCtmForOutput(a, s) ==
    /\ ctm.active = a /\ ctm' = [ctm EXCEPT !.pending = @ \cup {s}]
    /\ UNCHANGED <<controls, sizes, tables, unheard, screened, inherited>>

CommitCtm(a) ==
    /\ ctm.active = a /\ ctm.pending # {}
    /\ EmitAll(ctm.pending, a)
    /\ UNCHANGED <<controls, sizes, ctm, screened, inherited>>

\* Mutant: the active client leaves and nothing is reset.
LeaveCtm_Quiet(a) ==
    /\ a \in ctm.bound
    /\ ctm' = IF ctm.active = a THEN [bound |-> ctm.bound \ {a}, active |-> NoTable, pending |-> {}]
              ELSE [ctm EXCEPT !.bound = @ \ {a}]
    /\ UNCHANGED <<controls, sizes, tables, unheard, screened, inherited>>

\* ~CtmClient(): whatever the active one named is reset; who was blocked stays so.
LeaveCtm(a) ==
    /\ a \in ctm.bound
    /\ IF ctm.active = a
       THEN /\ ctm' = [bound |-> ctm.bound \ {a}, active |-> NoTable, pending |-> {}]
            /\ EmitAll(ctm.pending, NoTable)
       ELSE /\ ctm' = [ctm EXCEPT !.bound = @ \ {a}]
            /\ UNCHANGED <<tables, unheard>>
    /\ UNCHANGED <<controls, sizes, screened, inherited>>

-----------------------------------------------------------------------------
(* The compositor comes to the event, and reads the table that is there now. *)

Ramp(s) == tables["ramp"][s]
Matrix(s) == tables["matrix"][s]

HandleColours(k, s) ==
    /\ <<k, s>> \in unheard /\ unheard' = unheard \ {<<k, s>>}
    /\ screened' = [screened EXCEPT ![k][s] = IF k = "ramp" THEN Ramp(s) ELSE Matrix(s)]
    /\ UNCHANGED <<controls, sizes, ctm, tables, inherited>>

RampsNext ==
    \/ \E c \in Controls : \/ SetGamma(c) \/ DestroyControl(c)
                           \/ \E a \in Apps, s \in Displays : GetGammaControl(c, a, s)
    \/ \E a \in Apps : \/ BindCtm(a) \/ CommitCtm(a) \/ LeaveCtm(a)
                       \/ \E s \in Displays : ReleaseOutput(a, s) \/ SetCtmForOutput(a, s)
    \/ \E s \in Displays : \/ \E size \in {"table", "none"} : SetOutputSize(s, size)
                            \/ \E k \in Kinds : HandleColours(k, s)

RampsSpec == RampsInit /\ [][RampsNext]_rampVars

-----------------------------------------------------------------------------
(* Properties. *)

\* The colours of a screen are somebody's who can still answer for them: a ramp
\* is of a live control that applied it there, save where that control was
\* superseded and its ramp is inherited until the next is set; a matrix is of the
\* active client.  Once the events are handled, it is they that the screen shows.
RampsOwned ==
    \A s \in Displays :
        /\ Ramp(s) # NoTable /\ s \notin inherited =>
               controls[Ramp(s)].live /\ controls[Ramp(s)].applied /\ controls[Ramp(s)].screen = s
        /\ Matrix(s) # NoTable => Matrix(s) = ctm.active /\ s \in ctm.pending
        /\ <<"ramp", s>> \notin unheard => screened["ramp"][s] = Ramp(s)
        /\ <<"matrix", s>> \notin unheard => screened["matrix"][s] = Matrix(s)

Applied(c, s) == controls[c].applied /\ controls[c].screen = s

\* The ramp of a screen is reset in this step, though it is one that its control
\* still answers for.
TakesDownAnothers(s) ==
    Ramp(s) # NoTable /\ s \notin inherited /\ Ramp(s)' = NoTable /\ controls'[Ramp(s)].applied

\* Who puts the old colours back: GammaControl::reset(), once, by whoever applied
\* and ends.  No ramp comes down otherwise, and no such end leaves one up, save
\* where the control was superseded, whose ramp stays.  As long as the ramps of
\* a screen were set through one client's wl_output, what comes down is its own.
HandBack ==
    \A s \in Displays :
        /\ Ramp(s) # NoTable /\ Ramp(s)' = NoTable =>
               \E c \in Controls : Applied(c, s) /\ ~controls'[c].applied
        /\ \A c \in Controls :
               Applied(c, s) /\ ~controls'[c].applied =>
                   Ramp(s)' = NoTable \/ (s \in inherited' /\ Ramp(s)' = Ramp(s))
        /\ (\A c, d \in Controls : Applied(c, s) /\ Applied(d, s) => controls[c].app = controls[d].app)
               => ~TakesDownAnothers(s)
HandedBack == [][HandBack]_rampVars

\* "A ramp of ours is on the output: our end must reset it" (gamma_control.cppm,
\* 112): of ours, and nobody else's.
OwnRampOnly == [][\A s \in Displays : ~TakesDownAnothers(s)]_rampVars

\* gamma_control.cppm: "A night-light tool quitting, or crashing, leaves the
\* screen as it was."  With no control left, no ramp is.
LeftAsItWas ==
    \A s \in Displays :
        (\A c \in Controls : controls[c].live => controls[c].screen # s) => Ramp(s) = NoTable

\* "Only one gamma control per output."
OneControl ==
    \A c, d \in Controls :
        controls[c].live /\ controls[c].owns /\ controls[d].live /\ controls[d].owns
        /\ controls[c].screen = controls[d].screen => c = d
=============================================================================
