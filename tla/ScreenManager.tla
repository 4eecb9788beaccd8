----------------------------- MODULE ScreenManager -----------------------------
(***************************************************************************)
(* Every output of a backend for as long as it exists (bindings/rust/src/  *)
(* shell.rs over shell/screen_manager.cppm): a picture drawn whenever the  *)
(* output asks for one, its wl_output, and what clients may capture of it. *)
(* C++ never calls Rust, so the scene is told ahead of time and compared   *)
(* with the one told last; frames come later, when the display paces them. *)
(***************************************************************************)
EXTENDS Naturals, FiniteSets

CONSTANTS
    Panels,     \* outputs, by address: one that is plugged in again may get its old one
    Connectors, \* those of them that have a name of their own
    Actors,     \* surfaces that scenes show
    Images,     \* pictures of the compositor's own that scenes show
    Stories,    \* the scenes it may tell: sets of [item, on]
    Outlets,    \* wl_output resources of clients, by address
    Nowhere,    \* no output
    MaxPlugs,   \* bound: times an output arrives
    Gpus,       \* renderers to look at: with a GPU (TRUE), without
    Recycled,   \* may a wl_output get the address of one that is gone
    Hasty       \* may a mode be switched again before a frame was shown with it

ASSUME ScreenManagerAssumption ==
    /\ Connectors \subseteq Panels /\ \A o \in Connectors : o \notin Nat
    /\ Nowhere \notin Panels /\ "inert" \notin Panels \cup {Nowhere}
    /\ Actors \cap Images = {}
    /\ MaxPlugs \in Nat /\ Gpus \subseteq BOOLEAN
    /\ Recycled \in BOOLEAN /\ Hasty \in BOOLEAN
    /\ \A s \in Stories : \A e \in s : e.item \in Actors \cup Images /\ e.on \in Panels \cup {"all"}

VARIABLES
    options,    \* what the behaviour is about, and ScreenOptions
    panels,     \* output -> the entry of the manager, and what is on screen; "view" is
                \* its mode, scale and place, which each action that changes one moves
    wanted,     \* history: the scene set_scene() was called with last
    story,      \* the scene Rust and shim keep
    shade,      \* the background
    look,       \* item -> what it looks like, 0: there is nothing (any more)
    unsaid,     \* history: something changed that neither client nor scene reports
    numbered,   \* names made up so far
    capturing,  \* follow_capture() was called
    bound,      \* wl_output -> the output it was bound for
    captures    \* wl_output -> what the screencopy manager gives for it
managerVars ==
    <<options, panels, wanted, story, shade, look, unsaid, numbered, capturing, bound, captures>>

Options == [kind : {"pictures", "captures"}, announce : BOOLEAN, gpu : Gpus]
Items == Actors \cup Images
Pair == 1..2
Blank == [items |-> {}, shade |-> 0, view |-> 0]
NoPanel == [lit |-> FALSE, view |-> 1, asked |-> FALSE, broken |-> FALSE,
            drawn |-> Blank, name |-> 0, listed |-> {}, size |-> 1]
NoCapture == [of |-> Nowhere, size |-> 0]

ManagerTypeOK ==
    /\ options \in Options
    /\ panels \in [Panels ->
            [lit : BOOLEAN, view : Pair, asked : BOOLEAN, broken : BOOLEAN,
             drawn : [items : SUBSET (Items \X Pair), shade : 0..2, view : 0..2],
             name : Panels \cup 0..MaxPlugs, listed : SUBSET Outlets, size : Pair]]
    /\ {wanted, story} \subseteq Stories \cup {{}} /\ shade \in Pair /\ look \in [Items -> 0..2]
    /\ unsaid \in BOOLEAN /\ numbered \in 0..MaxPlugs /\ capturing \in BOOLEAN
    /\ bound \in [Outlets -> Panels \cup {Nowhere, "inert"}]
    /\ captures \in [Outlets -> [of : Panels \cup {Nowhere}, size : 0..2]]

ManagerInit ==
    /\ options \in Options
    /\ options.announce = (options.kind = "captures")
    /\ options.kind = "captures" => options.gpu = (CHOOSE g \in Gpus : TRUE)
    /\ panels = [o \in Panels |-> NoPanel]
    /\ wanted = {} /\ story = {} /\ shade = 1
    /\ look = [i \in Items |-> IF i \in Actors THEN 1 ELSE 0]
    /\ unsaid = FALSE /\ numbered = 0 /\ capturing = FALSE
    /\ bound = [r \in Outlets |-> Nowhere]
    /\ captures = [r \in Outlets |-> NoCapture]

Managed == {o \in Panels : panels[o].lit}

\* What a frame of the output shows now: ids that resolve, images as they are.
Picture(o, shown) ==
    [items |-> {<<e.item, look[e.item]>> : e \in
                    {x \in shown : x.on \in {"all", o} /\ look[x.item] # 0}},
     shade |-> shade, view |-> panels[o].view]

\* schedule_frame() on each of them.
Asked(which) == [o \in Panels |-> IF o \in which THEN [panels[o] EXCEPT !.asked = TRUE] ELSE panels[o]]

\* invalidate(): every output draws what changed, said or not.
AskAll == panels' = Asked(Managed) /\ unsaid' = FALSE

-----------------------------------------------------------------------------
(* Outputs come and go, and change. *)

\* Mutant: a name for as many outputs as there are.
NextNumber_Count == Cardinality(Managed) + 1

NextNumber == numbered + 1

Plug(o) ==
    /\ ~panels[o].lit /\ numbered < MaxPlugs
    /\ LET made == options.announce /\ o \notin Connectors
       IN /\ numbered' = IF made THEN numbered + 1 ELSE numbered
          /\ panels' = [panels EXCEPT ![o] =
                [NoPanel EXCEPT !.lit = TRUE, !.asked = TRUE,
                                !.name = IF ~options.announce THEN 0
                                         ELSE IF made THEN NextNumber ELSE o]]
    /\ UNCHANGED <<options, wanted, story, shade, look, unsaid, capturing, bound, captures>>

\* The entry goes, and with it the global: its wl_outputs mean nothing now.
UnplugPanel(o) ==
    /\ panels[o].lit
    /\ panels' = [panels EXCEPT ![o] = NoPanel]
    /\ bound' = [r \in Outlets |-> IF bound[r] = o THEN "inert" ELSE bound[r]]
    /\ UNCHANGED <<options, wanted, story, shade, look, unsaid, numbered, capturing, captures>>

\* The panel is black, and a frame is on its way: Frame::reset() asks for it, or
\* the flip of the modeset brings it.
SwitchMode(o) ==
    /\ panels[o].lit
    /\ Hasty \/ ~capturing \/ panels[o].size = panels[o].view
    /\ panels' = [panels EXCEPT ![o].view = 3 - @, ![o].drawn = Blank, ![o].asked = TRUE]
    /\ UNCHANGED <<options, wanted, story, shade, look, unsaid, numbered, capturing, bound, captures>>

\* Scale and rotation are announced like a mode; without a GPU there is no Frame
\* to reset, and nothing asks.
Rescale(o) ==
    /\ options.kind = "pictures" /\ panels[o].lit
    /\ panels' = [panels EXCEPT ![o].view = 3 - @, ![o].asked = @ \/ options.gpu]
    /\ UNCHANGED <<options, wanted, story, shade, look, unsaid, numbered, capturing, bound, captures>>

\* The layout puts the output somewhere else.
MovePanel(o) ==
    /\ options.kind = "pictures" /\ panels[o].lit
    /\ panels' = [panels EXCEPT ![o].view = 3 - @]
    /\ unsaid' = TRUE
    /\ UNCHANGED <<options, wanted, story, shade, look, numbered, capturing, bound, captures>>

-----------------------------------------------------------------------------
(* Frames. *)

\* Mutant: only wl_outputs bound later are told the size.
Resized_Later(o) == captures

\* sync_capture_size(): a new mode is passed on to whoever may capture it.
Resized(o) ==
    IF ~capturing \/ panels[o].size = panels[o].view THEN captures
    ELSE [r \in Outlets |-> IF r \in panels[o].listed THEN [of |-> o, size |-> panels[o].view]
                            ELSE captures[r]]

\* A frame the display paced.  One that drew something asks for another, which
\* reports it and finds nothing to do; one that failed costs that frame.
Present(o) ==
    /\ panels[o].lit /\ panels[o].asked
    /\ \E fails \in IF options.kind = "pictures" THEN BOOLEAN ELSE {FALSE} :
          panels' = [panels EXCEPT
                ![o].asked = ~fails /\ panels[o].drawn # Picture(o, story),
                ![o].drawn = IF fails THEN @ ELSE Picture(o, story),
                ![o].broken = fails,
                ![o].size = IF capturing THEN panels[o].view ELSE @]
    /\ captures' = Resized(o)
    /\ UNCHANGED <<options, wanted, story, shade, look, unsaid, numbered, capturing, bound>>

\* A surface that is on screen has new content.
CommitActor(w) ==
    /\ options.kind = "pictures" /\ look[w] # 0
    /\ look' = [look EXCEPT ![w] = 3 - @]
    /\ panels' = Asked({o \in Managed : \E i \in panels[o].drawn.items : i[1] = w})
    /\ UNCHANGED <<options, wanted, story, shade, unsaid, numbered, capturing, bound, captures>>

\* A surface is destroyed.  No frame is asked for: the compositor will tell a
\* scene without it.
ActorGone(w) ==
    /\ options.kind = "pictures" /\ look[w] # 0
    /\ look' = [look EXCEPT ![w] = 0]
    /\ UNCHANGED <<options, panels, wanted, story, shade, unsaid, numbered, capturing, bound, captures>>

-----------------------------------------------------------------------------
(* What the compositor does. *)

\* Mutant: two scenes of one length are taken for the same.
Same_Length(a, b) == Cardinality(a) = Cardinality(b)

\* Is the new list the one that was told last?
Same(a, b) == a = b

\* set_scene(), of windows that are still there.
Tell(s) ==
    /\ options.kind = "pictures" /\ s # wanted
    /\ \A e \in s : e.item \in Actors => look[e.item] # 0
    /\ wanted' = s
    /\ IF Same(s, story) THEN UNCHANGED <<story, panels, unsaid>>
       ELSE story' = s /\ AskAll
    /\ UNCHANGED <<options, shade, look, numbered, capturing, bound, captures>>

SetBackground ==
    /\ options.kind = "pictures"
    /\ shade' = 3 - shade /\ AskAll
    /\ UNCHANGED <<options, wanted, story, look, numbered, capturing, bound, captures>>

\* set_image(), remove_image(): resolved when a frame is drawn, so none is asked.
SetImage(i) ==
    /\ options.kind = "pictures"
    /\ look' = [look EXCEPT ![i] = 1 - @] /\ unsaid' = TRUE
    /\ UNCHANGED <<options, panels, wanted, story, shade, numbered, capturing, bound, captures>>

\* invalidate(), and a popup that maps, moves or goes away.
Invalidate ==
    /\ options.kind = "pictures" /\ Managed # {}
    /\ AskAll
    /\ UNCHANGED <<options, wanted, story, shade, look, numbered, capturing, bound, captures>>

\* follow_capture(): every output, past and future.
FollowCapture ==
    /\ options.kind = "captures" /\ ~capturing /\ capturing' = TRUE
    /\ panels' = [o \in Panels |-> [panels[o] EXCEPT !.listed = {r \in Outlets : bound[r] = o},
                                                     !.size = panels[o].view]]
    /\ captures' = [r \in Outlets |-> IF bound[r] \in Managed
                                      THEN [of |-> bound[r], size |-> panels[bound[r]].view]
                                      ELSE captures[r]]
    /\ UNCHANGED <<options, wanted, story, shade, look, unsaid, numbered, bound>>

\* A client binds the wl_output of an output.
BindOutlet(r, o) ==
    /\ options.kind = "captures" /\ options.announce
    /\ panels[o].lit /\ bound[r] = Nowhere
    /\ bound' = [bound EXCEPT ![r] = o]
    /\ IF capturing
       THEN /\ panels' = [panels EXCEPT ![o].listed = @ \cup {r}]
            /\ captures' = [captures EXCEPT ![r] = [of |-> o, size |-> panels[o].view]]
       ELSE UNCHANGED <<panels, captures>>
    /\ UNCHANGED <<options, wanted, story, shade, look, unsaid, numbered, capturing>>

\* It destroys it: neither the entry nor the captures hear of that.
ReleaseOutlet(r) ==
    /\ bound[r] # Nowhere /\ (bound[r] = "inert" => Recycled)
    /\ bound' = [bound EXCEPT ![r] = IF Recycled THEN Nowhere ELSE "inert"]
    /\ UNCHANGED <<options, panels, wanted, story, shade, look, unsaid, numbered, capturing, captures>>

ManagerNext ==
    \/ \E o \in Panels :
          \/ Plug(o) \/ UnplugPanel(o) \/ SwitchMode(o) \/ Rescale(o) \/ MovePanel(o) \/ Present(o)
          \/ \E r \in Outlets : BindOutlet(r, o)
    \/ \E w \in Actors : CommitActor(w) \/ ActorGone(w)
    \/ \E s \in Stories : Tell(s)
    \/ SetBackground \/ Invalidate \/ FollowCapture
    \/ \E i \in Images : SetImage(i)
    \/ \E r \in Outlets : ReleaseOutlet(r)

ManagerSpec == ManagerInit /\ [][ManagerNext]_managerVars

-----------------------------------------------------------------------------
\* Frames are drawn only when somebody asks, so whoever changes a picture must
\* ask: an output no frame is under way for shows the scene told last, of
\* surfaces and images as they are, where the layout has it.  A change that is
\* not in the scene is the compositor's to say with invalidate(), and so is a
\* surface of the scene that is gone.
ShownIsTold ==
    \A o \in Managed :
        ~panels[o].asked /\ ~panels[o].broken /\ ~unsaid
            /\ (\A e \in wanted : e.item \in Actors => look[e.item] # 0) =>
        panels[o].drawn = Picture(o, wanted)

\* Whoever holds a wl_output may capture its output, in the size it has, whether
\* it bound it before captures were followed or after.
CapturesTold ==
    \A r \in Outlets : capturing /\ bound[r] \in Panels /\ ~panels[bound[r]].asked =>
        captures[r] = [of |-> bound[r], size |-> panels[bound[r]].view]

\* Two outputs are never called the same, in whatever order they came.
NamesDiffer ==
    \A o, p \in Managed : o # p /\ panels[o].name # 0 => panels[o].name # panels[p].name

ScreensCurrent == ShownIsTold /\ CapturesTold /\ NamesDiffer
=============================================================================
