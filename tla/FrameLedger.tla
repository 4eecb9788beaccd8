---------------------------- MODULE FrameLedger ----------------------------
(***************************************************************************)
(* The per-output frame ledger (src/shell/frame.cppm): what a new frame    *)
(* repaints, given the damage clients report, the difference between the   *)
(* list of placements and the one drawn last, and what each target of the  *)
(* rotation still owes; when a frame is not drawn at all; and when the     *)
(* client's own buffer is shown instead.                                   *)
(*                                                                         *)
(* An output is a set of cells and a window covers some of them with one   *)
(* picture.  Damage is a set of cells: a window's damage is its area.      *)
(* Shaders, blur backdrops and retained textures are left out; fences,     *)
(* culling and the geometry of transforms change no picture here.          *)
(*                                                                         *)
(* begin(), place(), compose_group() and submit() of one frame are one     *)
(* action; a list built for hit-testing and dropped is another.            *)
(***************************************************************************)
EXTENDS Positions, SequencesExt

CONSTANTS
    Outputs,      \* the outputs, each with its Frame
    Windows,      \* the client surfaces
    Cells,        \* the pixels of an output
    Pictures,     \* what a window can show
    Nothing,      \* no buffer, no picture: transparent
    Background,   \* the background colour
    Garbage,      \* the contents of a new target
    Settings      \* the kinds of compositor: see Setting

\* What a compositor does besides placing windows and submitting frames.
Habits == {"scanout",   \* its outputs can show a client's buffer
           "reset",     \* modes change
           "fail",      \* a flip or a render may fail
           "rebuild"}   \* lists are also built for hit-testing

\* A compositor: its outputs, the windows it puts on them, the areas it gives
\* them, and those it composes into a target of their own first.
Setting == [uses : SUBSET Habits, outputs : SUBSET Outputs, windows : SUBSET Windows,
            areas : SUBSET (SUBSET Cells), grouped : SUBSET Windows]

ASSUME LedgerAssumption ==
    /\ IsFiniteSet(Outputs) /\ IsFiniteSet(Windows) /\ Cells # {}
    /\ Nothing \notin Pictures
    /\ Settings \subseteq Setting

VARIABLES
    setting,      \* the compositor, fixed from the start
    pixels,       \* what the current buffer of a window shows
    dirty,        \* windows with a non-empty Surface::damage()
    layout,       \* the windows an output is to show, bottom first
    targets,      \* the contents of the render targets
    back,         \* the target the next frame is drawn into
    debt,         \* what the other targets still owe, oldest first
    fullRedraw,   \* full_redraw
    last,         \* the list drawn last
    lastValid,    \* last_valid
    groupImage,   \* the contents of the private targets of composed groups
    groupStamps,  \* windows whose private target is up to date
    front,        \* the target on screen, or 0 when it is another picture:
    copy,         \*   a client's buffer, or pixels that were read back
    settled,      \* nothing has changed since the last frame succeeded
    busy          \* frames composited since the last change

sceneVars == <<setting, pixels, dirty, layout>>
targetVars == <<targets, back, debt, front, copy>>
listVars == <<fullRedraw, last, lastValid>>
groupVars == <<groupImage, groupStamps>>
ghostVars == <<settled, busy>>
vars == <<sceneVars, targetVars, listVars, groupVars, ghostVars>>

Image == Pictures \cup {Nothing}
Content == {Background, Garbage} \cup (Windows \X Pictures)
Screen == [Cells -> Content]
Placement == [win : Windows, area : SUBSET Cells]

TypeOK ==
    /\ setting \in Settings
    /\ pixels \in [Windows -> Image]
    /\ dirty \subseteq Windows
    /\ layout \in [Outputs -> Seq(Placement)]
    /\ \A o \in Outputs :
          /\ targets[o] \in Seq(Screen)
          /\ back[o] \in DOMAIN targets[o]
          /\ debt[o] \in Seq(SUBSET Cells)
          /\ Len(debt[o]) = Len(targets[o]) - 1
          /\ front[o] \in {0} \cup DOMAIN targets[o]
    /\ copy \in [Outputs -> Screen]
    /\ fullRedraw \in [Outputs -> BOOLEAN]
    /\ last \in [Outputs -> Seq(Placement)]
    /\ lastValid \in [Outputs -> BOOLEAN]
    /\ groupImage \in [Outputs -> [Windows -> Image]]
    /\ groupStamps \in [Outputs -> SUBSET Windows]
    /\ settled \in [Outputs -> BOOLEAN]
    /\ busy \in [Outputs -> Nat]

-----------------------------------------------------------------------------
(* Pictures *)

\* place(): a window without a buffer has no size and is left out.
Placements(o) ==
    Picked(layout[o], {i \in DOMAIN layout[o] : pixels[layout[o][i].win] # Nothing})

WindowsIn(list) == {list[i].win : i \in DOMAIN list}
Placed(o) == WindowsIn(Placements(o))

\* The cells that the windows in W cover on o.
AreaOf(o, W) == UNION {p.area : p \in {q \in ToSet(Placements(o)) : q.win \in W}}

\* What a list of placements looks like when each window shows image[w].
Picture(list, image) ==
    [c \in Cells |->
        LET over == {i \in DOMAIN list : c \in list[i].area}
        IN IF over = {} THEN Background
           ELSE LET top == list[CHOOSE i \in over : \A j \in over : j <= i].win
                IN <<top, image[top]>>]

Scene(o) == Picture(Placements(o), pixels)
Shown(o) == IF front[o] = 0 THEN copy[o] ELSE targets[o][front[o]]

-----------------------------------------------------------------------------
(* Composed groups *)

\* compose_group() renders a window again unless it has not committed since.
Rendered(o) == (Placed(o) \cap setting.grouped) \ groupStamps[o]

NewGroupImage(o) ==
    [w \in Windows |-> IF w \in Rendered(o) THEN pixels[w] ELSE groupImage[o][w]]

ComposeGroups(o) ==
    /\ groupImage' = [groupImage EXCEPT ![o] = NewGroupImage(o)]
    /\ groupStamps' = [groupStamps EXCEPT ![o] = @ \cup Rendered(o)]

\* What the placements of this frame show.
Drawn(o) ==
    Picture(Placements(o),
            [w \in Windows |-> IF w \in setting.grouped THEN NewGroupImage(o)[w]
                               ELSE pixels[w]])

-----------------------------------------------------------------------------
(* What to repaint *)

\* key_of(): the texture of a surface keeps its address whatever it shows, so a
\* key tells windows and places apart, and no pictures.
Keys(o) == Placements(o)

\* diff_damage(): where the lists differ, both rectangles.
Diff(old, new) ==
    LET differs(i) == i \notin DOMAIN old \/ i \notin DOMAIN new \/ old[i] # new[i]
    IN UNION ({old[i].area : i \in {j \in DOMAIN old : differs(j)}}
              \cup {new[i].area : i \in {j \in DOMAIN new : differs(j)}})

\* The windows whose own damage this frame consumes.
Consumed(o) == Placed(o) \ setting.grouped

Full(o) == fullRedraw[o] \/ ~lastValid[o]

Damage(o) ==
    AreaOf(o, Rendered(o)) \cup AreaOf(o, dirty \cap Consumed(o))
        \cup (IF Full(o) THEN Cells ELSE Diff(last[o], Keys(o)))

\* Everything, or the damage and what the target owes for frames it missed.
Repaint_NoDebt(o) == IF Full(o) THEN Cells ELSE Damage(o)
Repaint(o) == IF Full(o) THEN Cells ELSE Damage(o) \cup UNION ToSet(debt[o])

\* rotate_debt(): the target just drawn has paid.
Rotated_All(queue, damage) == [i \in DOMAIN queue |-> queue[i] \cup damage]
Rotated(queue, damage) == IF queue = <<>> THEN queue ELSE Append(Tail(queue), damage)

\* render_to(): the target the frame is drawn into.
RenderTo(o) ==
    [targets EXCEPT ![o] = [@ EXCEPT ![back[o]] =
        [c \in Cells |-> IF c \in Repaint(o) THEN Drawn(o)[c] ELSE targets[o][back[o]][c]]]]

NextBack(o) == (back[o] % Len(targets[o])) + 1

-----------------------------------------------------------------------------
(* reset(): two targets that can be shown, or one whose pixels are read back.  *)

NewTargets == {[i \in 1..n |-> [c \in Cells |-> Garbage]] : n \in {1, 2}}

NoDebt(n) == [i \in 1..(n - 1) |-> {}]

Init ==
    /\ setting \in Settings
    /\ pixels = [w \in Windows |-> Nothing]
    /\ dirty = {}
    /\ layout = [o \in Outputs |-> <<>>]
    /\ targets \in [Outputs -> NewTargets]
    /\ back = [o \in Outputs |-> 1]
    /\ debt = [o \in Outputs |-> NoDebt(Len(targets[o]))]
    /\ fullRedraw = [o \in Outputs |-> TRUE]
    /\ last = [o \in Outputs |-> <<>>]
    /\ lastValid = [o \in Outputs |-> FALSE]
    /\ groupImage = [o \in Outputs |-> [w \in Windows |-> Nothing]]
    /\ groupStamps = [o \in Outputs |-> {}]
    /\ front = [o \in Outputs |-> 0]
    /\ copy = [o \in Outputs |-> [c \in Cells |-> Garbage]]
    /\ settled = [o \in Outputs |-> FALSE]
    /\ busy = [o \in Outputs |-> 0]

Reset(o) ==
    /\ "reset" \in setting.uses
    /\ targets' \in {[targets EXCEPT ![o] = t] : t \in NewTargets}
    /\ back' = [back EXCEPT ![o] = 1]
    /\ debt' = [debt EXCEPT ![o] = NoDebt(Len(targets'[o]))]
    /\ fullRedraw' = [fullRedraw EXCEPT ![o] = TRUE]
    /\ groupStamps' = [groupStamps EXCEPT ![o] = {}]
    /\ front' = [front EXCEPT ![o] = 0]
    /\ copy' = [copy EXCEPT ![o] = Shown(o)]
    /\ settled' = [settled EXCEPT ![o] = FALSE]
    /\ busy' = [busy EXCEPT ![o] = 0]
    /\ UNCHANGED <<sceneVars, last, lastValid, groupImage>>

-----------------------------------------------------------------------------
(* What changes between frames *)

Changed(O) ==
    /\ settled' = [o \in Outputs |-> settled[o] /\ o \notin O]
    /\ busy' = [o \in Outputs |-> IF o \in O THEN 0 ELSE busy[o]]

\* A client commits another picture, or no buffer, with the damage it must
\* declare.
ClientCommit(w, image) ==
    /\ image # pixels[w]
    /\ pixels' = [pixels EXCEPT ![w] = image]
    /\ dirty' = dirty \cup {w}
    /\ groupStamps' = [o \in Outputs |-> groupStamps[o] \ {w}]
    /\ Changed({o \in Outputs : w \in WindowsIn(layout[o])})
    /\ UNCHANGED <<setting, layout, targetVars, listVars, groupImage>>

\* The compositor opens, closes, moves, resizes or restacks windows.
Lists ==
    {list \in UNION {[1..n -> [win : setting.windows, area : setting.areas]] :
                        n \in 0..Cardinality(setting.windows)} :
        \A i, j \in DOMAIN list : i # j => list[i].win # list[j].win}

Arrange(o, list) ==
    /\ list # layout[o]
    /\ layout' = [layout EXCEPT ![o] = list]
    /\ Changed({o})
    /\ UNCHANGED <<setting, pixels, dirty, targetVars, listVars, groupVars>>

\* damage_all().
DamageAll(o) ==
    /\ fullRedraw' = [fullRedraw EXCEPT ![o] = TRUE]
    /\ Changed({o})
    /\ UNCHANGED <<sceneVars, targetVars, last, lastValid, groupVars>>

\* begin(), place() and compose_group() for input: nothing is submitted.
Rebuild(o) ==
    /\ "rebuild" \in setting.uses
    /\ ComposeGroups(o)
    /\ UNCHANGED <<sceneVars, targetVars, listVars, ghostVars>>

-----------------------------------------------------------------------------
(* submit() *)

\* One window over the whole output, drawn as it is.
Verbatim(o) ==
    /\ Len(Placements(o)) = 1
    /\ Placements(o)[1].area = Cells
    /\ Placements(o)[1].win \notin setting.grouped

\* Presented::scanout: the output takes the client's buffer.
SubmitScanout(o) ==
    /\ "scanout" \in setting.uses
    /\ Verbatim(o)
    /\ front' = [front EXCEPT ![o] = 0]
    /\ copy' = [copy EXCEPT ![o] = Scene(o)]
    /\ dirty' = dirty \ Placed(o)
    /\ fullRedraw' = [fullRedraw EXCEPT ![o] = TRUE]
    /\ lastValid' = [lastValid EXCEPT ![o] = FALSE]
    /\ settled' = [settled EXCEPT ![o] = TRUE]
    /\ busy' = [busy EXCEPT ![o] = 0]
    /\ UNCHANGED <<setting, pixels, layout, targets, back, debt, last, groupVars>>

\* Presented::unchanged: nothing is drawn and nothing spent.
SubmitUnchanged(o) ==
    /\ Repaint(o) = {}
    /\ ComposeGroups(o)
    /\ last' = [last EXCEPT ![o] = Keys(o)]
    /\ settled' = [settled EXCEPT ![o] = TRUE]
    /\ UNCHANGED <<sceneVars, targetVars, fullRedraw, lastValid, busy>>

\* Presented::composited: drawn and flipped, or read back and committed.
SubmitComposited(o) ==
    /\ Repaint(o) # {}
    /\ ComposeGroups(o)
    /\ targets' = RenderTo(o)
    /\ IF Len(targets[o]) > 1
       THEN front' = [front EXCEPT ![o] = back[o]] /\ UNCHANGED copy
       ELSE copy' = [copy EXCEPT ![o] = targets'[o][1]] /\ UNCHANGED front
    /\ back' = [back EXCEPT ![o] = NextBack(o)]
    /\ debt' = [debt EXCEPT ![o] = Rotated(@, Damage(o))]
    /\ fullRedraw' = [fullRedraw EXCEPT ![o] = FALSE]
    /\ last' = [last EXCEPT ![o] = Keys(o)]
    /\ lastValid' = [lastValid EXCEPT ![o] = TRUE]
    /\ dirty' = dirty \ (Consumed(o) \cup Rendered(o))
    /\ settled' = [settled EXCEPT ![o] = TRUE]
    /\ busy' = [busy EXCEPT ![o] = @ + 1]
    /\ UNCHANGED <<setting, pixels, layout>>

\* render_to() fails, or it succeeds and the commit to the output fails: what
\* was asked to be redrawn is asked again, and nothing else is remembered.
SubmitFailed(o) ==
    /\ "fail" \in setting.uses
    /\ Repaint(o) # {}
    /\ ComposeGroups(o)
    /\ targets' \in {targets, RenderTo(o)}
    /\ fullRedraw' = [fullRedraw EXCEPT ![o] = Full(o)]
    /\ settled' = [settled EXCEPT ![o] = FALSE]
    /\ busy' = [busy EXCEPT ![o] = 0]
    /\ UNCHANGED <<sceneVars, back, debt, front, copy, last, lastValid>>

Submit(o) ==
    SubmitScanout(o) \/ SubmitUnchanged(o) \/ SubmitComposited(o) \/ SubmitFailed(o)

-----------------------------------------------------------------------------
Next ==
    \/ \E w \in setting.windows : \E image \in Image : ClientCommit(w, image)
    \/ \E o \in setting.outputs :
          \/ \E list \in Lists : Arrange(o, list)
          \/ DamageAll(o)
          \/ Rebuild(o)
          \/ Submit(o)
          \/ Reset(o)

Spec == Init /\ [][Next]_vars

-----------------------------------------------------------------------------
(* What the ledger promises *)

\* After a frame, and until something changes, the screen shows the scene: no
\* stale rectangle of a window that moved, no old picture of one that
\* committed, whichever target the frame went to.
ShownIsScene == \A o \in Outputs : settled[o] => Shown(o) = Scene(o)

\* It holds on a single output whose flips do not fail and whose groups are
\* composed for frames only.
Calm == Cardinality(setting.outputs) = 1 /\ setting.uses \cap {"fail", "rebuild"} = {}
CalmShownIsScene == Calm => ShownIsScene

\* "An idle desktop": after a change each target is drawn at most once before
\* frames are unchanged.
QuietSoon == \A o \in Outputs : busy[o] <= Len(targets[o])

\* Presented::unchanged: "the frame already on screen is still the right one".
UnchangedIsRight ==
    [][\A o \in Outputs : SubmitUnchanged(o) => Shown(o) = Scene(o)]_vars

=============================================================================
