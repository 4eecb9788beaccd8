-------------------------- MODULE FrameLedgerProofs --------------------------
(***************************************************************************)
(* What the ledger of frames promises, for any outputs, windows and cells: *)
(* a frame that repaints only its damage and the debt of its target leaves *)
(* the whole scene on screen, and an idle desktop is soon left alone.      *)
(***************************************************************************)
EXTENDS FrameLedger, PositionProofs

-----------------------------------------------------------------------------
(* Types, and that a private target that counts as up to date is. *)

Stamped == \A o \in Outputs : \A w \in groupStamps[o] : groupImage[o][w] = pixels[w]

Typed == TypeOK /\ Stamped

LEMMA SettingIs ==
    ASSUME TypeOK
    PROVE  /\ setting.outputs \subseteq Outputs /\ setting.windows \subseteq Windows
           /\ setting.areas \subseteq SUBSET Cells
           /\ IsFiniteSet(setting.outputs) /\ IsFiniteSet(setting.windows)
<1>1. setting \in Setting
  BY LedgerAssumption DEF TypeOK
<1>2. setting.outputs \subseteq Outputs /\ setting.windows \subseteq Windows
  BY <1>1 DEF Setting
<1> QED
  BY <1>1, <1>2, LedgerAssumption, FS_Subset DEF Setting

\* The windows with a buffer, in the order of the layout.
LEMMA PlacementsAre ==
    ASSUME TypeOK, NEW o \in Outputs
    PROVE  /\ Placements(o) \in Seq(Placement)
           /\ \A n \in DOMAIN Placements(o) :
                 /\ \E i \in DOMAIN layout[o] : Placements(o)[n] = layout[o][i]
                 /\ pixels[Placements(o)[n].win] \in Pictures
<1> DEFINE kept == {i \in DOMAIN layout[o] : pixels[layout[o][i].win] # Nothing}
<1>1. layout[o] \in Seq(Placement) /\ kept \in SUBSET (DOMAIN layout[o])
  BY DEF TypeOK
<1>2. Placements(o) = Picked(layout[o], kept)
  BY DEF Placements
<1>3. /\ Placements(o) \in Seq(Placement) /\ DOMAIN Placements(o) = 1..Cardinality(kept)
      /\ \A n \in 1..Cardinality(kept) :
            InOrder(kept)[n] \in kept /\ Placements(o)[n] = layout[o][InOrder(kept)[n]]
  <2> HIDE DEF kept
  <2> QED
    BY <1>1, <1>2, PickedIs
<1>4. ASSUME NEW n \in DOMAIN Placements(o)
      PROVE  /\ \E i \in DOMAIN layout[o] : Placements(o)[n] = layout[o][i]
             /\ pixels[Placements(o)[n].win] \in Pictures
  <2>1. PICK i \in kept : Placements(o)[n] = layout[o][i]
    BY <1>3
  <2>2. layout[o][i] \in Placement /\ pixels[layout[o][i].win] # Nothing
    BY <1>1
  <2>3. pixels[layout[o][i].win] \in Image
    BY <2>2 DEF TypeOK, Placement
  <2> QED
    BY <2>1, <2>2, <2>3 DEF Image
<1> QED
  BY <1>3, <1>4

\* The placement on top at c.
Top(list, c, i) ==
    /\ i \in DOMAIN list /\ c \in list[i].area
    /\ \A j \in DOMAIN list : c \in list[j].area => j <= i
Covered(list, c) == \E i \in DOMAIN list : c \in list[i].area

LEMMA PictureAt ==
    ASSUME NEW list \in Seq(Placement), NEW image, NEW c \in Cells
    PROVE  /\ Covered(list, c) => \E i \in DOMAIN list : Top(list, c, i)
           /\ ~Covered(list, c) => Picture(list, image)[c] = Background
           /\ \A i \in DOMAIN list : Top(list, c, i) =>
                 Picture(list, image)[c] = <<list[i].win, image[list[i].win]>>
<1> DEFINE over == {i \in DOMAIN list : c \in list[i].area}
           highest == CHOOSE i \in over : \A j \in over : j <= i
<1>1. Picture(list, image)[c] =
         IF over = {} THEN Background ELSE <<list[highest].win, image[list[highest].win]>>
  BY DEF Picture
<1>2. Covered(list, c) <=> over # {}
  BY DEF Covered
<1>3. over # {} => \E i \in over : \A j \in over : j <= i
  <2>1. over \subseteq 0..Len(list) /\ Len(list) \in Nat
    OBVIOUS
  <2> HIDE DEF over
  <2> QED
    BY <2>1, Greatest
<1>4. \A i \in DOMAIN list : Top(list, c, i) <=> i \in over /\ \A j \in over : j <= i
  BY DEF Top
<1>5. \A i, j \in over : i <= j /\ j <= i => i = j
  OBVIOUS
<1>6. ASSUME NEW i \in DOMAIN list, Top(list, c, i)
      PROVE  over # {} /\ highest = i
  <2>1. i \in over /\ \A j \in over : j <= i
    BY <1>4, <1>6
  <2>2. highest \in over /\ \A j \in over : j <= highest
    BY <2>1
  <2> HIDE DEF highest, over
  <2> QED
    BY <1>5, <2>1, <2>2
<1> HIDE DEF highest, over
<1>7. over \subseteq DOMAIN list
  BY DEF over
<1> QED
  BY <1>1, <1>2, <1>3, <1>4, <1>6, <1>7

LEMMA SameImages ==
    ASSUME NEW list \in Seq(Placement), NEW image, NEW image2,
           \A i \in DOMAIN list : image[list[i].win] = image2[list[i].win]
    PROVE  Picture(list, image) = Picture(list, image2)
<1>1. ASSUME NEW c \in Cells PROVE Picture(list, image)[c] = Picture(list, image2)[c]
  <2>1. CASE Covered(list, c)
    <3>1. PICK i \in DOMAIN list : Top(list, c, i)
      BY <2>1, PictureAt
    <3> QED
      BY <3>1, PictureAt
  <2>2. CASE ~Covered(list, c)
    BY <2>2, PictureAt
  <2> QED
    BY <2>1, <2>2
<1> QED
  BY <1>1 DEF Picture

LEMMA PictureIsScreen ==
    ASSUME NEW list \in Seq(Placement), NEW image,
           \A i \in DOMAIN list : image[list[i].win] \in Pictures
    PROVE  Picture(list, image) \in Screen
<1>1. ASSUME NEW c \in Cells PROVE Picture(list, image)[c] \in Content
  <2>1. CASE Covered(list, c)
    <3>1. PICK i \in DOMAIN list : Top(list, c, i)
      BY <2>1, PictureAt
    <3>2. list[i] \in Placement
      OBVIOUS
    <3>3. list[i].win \in Windows
      BY <3>2 DEF Placement
    <3>4. Picture(list, image)[c] = <<list[i].win, image[list[i].win]>>
      BY <3>1, PictureAt
    <3> QED
      BY <3>3, <3>4 DEF Content
  <2>2. CASE ~Covered(list, c)
    BY <2>2, PictureAt DEF Content
  <2> QED
    BY <2>1, <2>2
<1> QED
  BY <1>1 DEF Picture, Screen

\* What a frame draws where it draws is the scene.
LEMMA DrawnIsScene ==
    ASSUME Typed, NEW o \in Outputs
    PROVE  Drawn(o) = Scene(o) /\ Scene(o) \in Screen
<1>1. Placements(o) \in Seq(Placement)
      /\ \A i \in DOMAIN Placements(o) : pixels[Placements(o)[i].win] \in Pictures
  BY PlacementsAre DEF Typed
<1> DEFINE image == [w \in Windows |-> IF w \in setting.grouped THEN NewGroupImage(o)[w]
                                       ELSE pixels[w]]
<1>2. ASSUME NEW i \in DOMAIN Placements(o)
      PROVE  image[Placements(o)[i].win] = pixels[Placements(o)[i].win]
  <2> Placements(o)[i] \in Placement
    BY <1>1
  <2>1. PICK w \in Windows : w = Placements(o)[i].win
    BY DEF Placement
  <2>2. w \in Placed(o)
    BY <2>1 DEF Placed, WindowsIn
  <2>3. w \in setting.grouped => NewGroupImage(o)[w] = pixels[w]
    BY <2>2 DEF NewGroupImage, Rendered, Typed, Stamped
  <2> QED
    BY <2>1, <2>3
<1>3. Drawn(o) = Picture(Placements(o), image)
  BY DEF Drawn
<1> HIDE DEF image
<1> QED
  BY <1>1, <1>2, <1>3, SameImages, PictureIsScreen DEF Scene

\* The types of what an action leaves alone, part by part.
SceneTyped ==
    /\ setting \in Settings
    /\ pixels \in [Windows -> Image]
    /\ dirty \subseteq Windows
    /\ layout \in [Outputs -> Seq(Placement)]

\* A display has two targets to flip between, or one that is read back.
TargetTyped(t, b, d, f) ==
    /\ t \in Seq(Screen) /\ Len(t) \in 1..2
    /\ b \in DOMAIN t
    /\ d \in Seq(SUBSET Cells) /\ Len(d) = Len(t) - 1
    /\ f \in {0} \cup DOMAIN t
    /\ Len(t) = 1 => f = 0

TargetsTyped ==
    /\ \A o \in Outputs : TargetTyped(targets[o], back[o], debt[o], front[o])
    /\ copy \in [Outputs -> Screen]

\* The maps of targets, for EXCEPT to mean something.
Mapped ==
    /\ DOMAIN targets = Outputs /\ DOMAIN back = Outputs /\ DOMAIN debt = Outputs
    /\ DOMAIN front = Outputs

ListsTyped ==
    /\ fullRedraw \in [Outputs -> BOOLEAN]
    /\ last \in [Outputs -> Seq(Placement)]
    /\ lastValid \in [Outputs -> BOOLEAN]

GroupsTyped ==
    /\ groupImage \in [Outputs -> [Windows -> Image]]
    /\ groupStamps \in [Outputs -> SUBSET Windows]
    /\ Stamped

GhostsTyped ==
    /\ settled \in [Outputs -> BOOLEAN]
    /\ busy \in [Outputs -> Nat]

LedgerInv == SceneTyped /\ TargetsTyped /\ Mapped /\ ListsTyped /\ GroupsTyped /\ GhostsTyped

LEMMA LedgerInvTypes == LedgerInv => Typed
  BY DEF LedgerInv, Typed, TypeOK, SceneTyped, TargetsTyped, TargetTyped, ListsTyped, GroupsTyped,
         GhostsTyped

LEMMA LedgerBegins == Init => LedgerInv
<1> SUFFICES ASSUME Init PROVE LedgerInv
  OBVIOUS
<1>1. SceneTyped
  BY DEF Init, SceneTyped, Image
<1>2. [c \in Cells |-> Garbage] \in Screen
  BY DEF Screen, Content
<1>3. TargetsTyped /\ Mapped
  <2>1. ASSUME NEW o \in Outputs
        PROVE  TargetTyped(targets[o], back[o], debt[o], front[o])
    <3>1. targets[o] \in NewTargets /\ back[o] = 1 /\ debt[o] = NoDebt(Len(targets[o])) /\ front[o] = 0
      BY DEF Init
    <3>2. PICK n \in {1, 2} : targets[o] = [i \in 1..n |-> [c \in Cells |-> Garbage]]
      BY <3>1 DEF NewTargets
    <3>3. targets[o] \in Seq(Screen) /\ Len(targets[o]) = n /\ DOMAIN targets[o] = 1..n
      BY <1>2, <3>2
    <3>4. debt[o] \in Seq(SUBSET Cells) /\ Len(debt[o]) = n - 1
      BY <3>1, <3>3 DEF NoDebt
    <3> QED
      BY <3>1, <3>3, <3>4 DEF TargetTyped
  <2> QED
    BY <1>2, <2>1 DEF Init, TargetsTyped, Mapped
<1>4. ListsTyped /\ GroupsTyped /\ GhostsTyped
  BY DEF Init, ListsTyped, GroupsTyped, GhostsTyped, Stamped, Image
<1> QED
  BY <1>1, <1>3, <1>4 DEF LedgerInv

LEMMA ComposedGroups ==
    ASSUME LedgerInv, NEW o \in Outputs, ComposeGroups(o), UNCHANGED pixels
    PROVE  GroupsTyped'
<1>1. Rendered(o) \subseteq Windows
  <2>1. Placed(o) \subseteq Windows
    <3>1. Placements(o) \in Seq(Placement)
      BY LedgerInvTypes, PlacementsAre DEF Typed
    <3>2. \A n \in DOMAIN Placements(o) : Placements(o)[n] \in Placement
      BY <3>1
    <3> QED
      BY <3>2 DEF Placed, WindowsIn, Placement
  <2> QED
    BY <2>1 DEF Rendered
<1>2. NewGroupImage(o) \in [Windows -> Image]
  BY DEF NewGroupImage, LedgerInv, SceneTyped, GroupsTyped
<1>3. groupImage' \in [Outputs -> [Windows -> Image]] /\ groupStamps' \in [Outputs -> SUBSET Windows]
  BY <1>1, <1>2 DEF ComposeGroups, LedgerInv, GroupsTyped
<1>4. ASSUME NEW p \in Outputs, NEW w \in groupStamps'[p]
      PROVE  groupImage'[p][w] = pixels[w]
  <2>1. CASE p = o
    <3>1. w \in groupStamps[o] \cup Rendered(o) /\ w \in Windows
      BY <1>1, <1>4, <2>1 DEF ComposeGroups, LedgerInv, GroupsTyped
    <3>2. groupImage'[p][w] = NewGroupImage(o)[w]
      BY <2>1 DEF ComposeGroups, LedgerInv, GroupsTyped
    <3> QED
      BY <3>1, <3>2 DEF NewGroupImage, LedgerInv, GroupsTyped, Stamped
  <2>2. CASE p # o
    BY <1>4, <2>2 DEF ComposeGroups, LedgerInv, GroupsTyped, Stamped
  <2> QED
    BY <2>1, <2>2
<1> QED
  BY <1>3, <1>4 DEF GroupsTyped, Stamped

\* What is drawn into a target is of its type, and the rest stays.
LEMMA RenderedTo ==
    ASSUME LedgerInv, NEW o \in Outputs
    PROVE  /\ DOMAIN RenderTo(o) = Outputs
           /\ \A p \in Outputs : p # o => RenderTo(o)[p] = targets[p]
           /\ RenderTo(o)[o] \in Seq(Screen) /\ Len(RenderTo(o)[o]) = Len(targets[o])
           /\ DOMAIN RenderTo(o)[o] = DOMAIN targets[o]
           /\ RenderTo(o)[o][back[o]] =
                 [c \in Cells |-> IF c \in Repaint(o) THEN Scene(o)[c]
                                  ELSE targets[o][back[o]][c]]
           /\ \A i \in DOMAIN targets[o] : i # back[o] => RenderTo(o)[o][i] = targets[o][i]
<1> DEFINE image == [c \in Cells |-> IF c \in Repaint(o) THEN Scene(o)[c]
                                     ELSE targets[o][back[o]][c]]
           after == [targets[o] EXCEPT ![back[o]] = image]
<1>1. TargetTyped(targets[o], back[o], debt[o], front[o]) /\ DOMAIN targets = Outputs
  BY DEF LedgerInv, TargetsTyped, Mapped
<1>2. Drawn(o) = Scene(o) /\ Scene(o) \in Screen
  BY LedgerInvTypes, DrawnIsScene
<1>3. RenderTo(o) = [targets EXCEPT ![o] = after]
  BY <1>2 DEF RenderTo
<1>4. image \in Screen
  <2>1. targets[o][back[o]] \in Screen
    BY <1>1 DEF TargetTyped
  <2> QED
    BY <1>2, <2>1 DEF Screen
<1> HIDE DEF image
<1>5. after \in Seq(Screen) /\ Len(after) = Len(targets[o]) /\ DOMAIN after = DOMAIN targets[o]
      /\ after[back[o]] = image
      /\ \A i \in DOMAIN targets[o] : i # back[o] => after[i] = targets[o][i]
  BY <1>1, <1>4 DEF TargetTyped
<1> HIDE DEF after
<1> QED
  BY <1>1, <1>3, <1>5 DEF image

LEMMA ShownIsScreen ==
    ASSUME LedgerInv, NEW o \in Outputs
    PROVE  Shown(o) \in Screen
<1>1. TargetTyped(targets[o], back[o], debt[o], front[o]) /\ copy[o] \in Screen
  BY DEF LedgerInv, TargetsTyped
<1> QED
  BY <1>1 DEF TargetTyped, Shown

LEMMA DamageIsCells ==
    ASSUME LedgerInv, NEW o \in Outputs
    PROVE  Damage(o) \subseteq Cells
<1>1. Placements(o) \in Seq(Placement) /\ last[o] \in Seq(Placement)
  BY LedgerInvTypes, PlacementsAre DEF Typed, LedgerInv, ListsTyped
<1>2. ASSUME NEW list \in Seq(Placement), NEW n \in DOMAIN list PROVE list[n].area \subseteq Cells
  <2>1. list[n] \in Placement
    OBVIOUS
  <2> QED
    BY <2>1 DEF Placement
<1>3. ASSUME NEW W PROVE AreaOf(o, W) \subseteq Cells
  BY <1>1, <1>2 DEF AreaOf, ToSet
<1>4. Diff(last[o], Keys(o)) \subseteq Cells
  BY <1>1, <1>2 DEF Diff, Keys
<1> QED
  BY <1>3, <1>4 DEF Damage

\* What submit() leaves when it has drawn.
LEMMA CompositedIs ==
    ASSUME LedgerInv, NEW o \in Outputs, SubmitComposited(o)
    PROVE  LedgerInv'
<1> DEFINE n == Len(targets[o])
<1>1. TargetTyped(targets[o], back[o], debt[o], front[o]) /\ Mapped /\ copy \in [Outputs -> Screen]
  BY DEF LedgerInv, TargetsTyped
<1>2. /\ targets' = RenderTo(o)
      /\ back' = [back EXCEPT ![o] = NextBack(o)]
      /\ debt' = [debt EXCEPT ![o] = Rotated(debt[o], Damage(o))]
      /\ n > 1 => front' = [front EXCEPT ![o] = back[o]] /\ copy' = copy
      /\ ~(n > 1) => copy' = [copy EXCEPT ![o] = targets'[o][1]] /\ front' = front
  BY DEF SubmitComposited
<1>3. DOMAIN targets[o] = 1..n /\ n \in 1..2
  BY <1>1 DEF TargetTyped
<1>4. targets'[o] \in Seq(Screen) /\ Len(targets'[o]) = n /\ DOMAIN targets'[o] = 1..n
  BY <1>2, <1>3, RenderedTo
<1>5. NextBack(o) \in 1..n
  <2>1. back[o] \in 1..n
    BY <1>1, <1>3 DEF TargetTyped
  <2> QED
    BY <1>3, <2>1 DEF NextBack
<1>6. Rotated(debt[o], Damage(o)) \in Seq(SUBSET Cells) /\ Len(Rotated(debt[o], Damage(o))) = n - 1
  <2>1. debt[o] \in Seq(SUBSET Cells) /\ Len(debt[o]) = n - 1 /\ Damage(o) \in SUBSET Cells
    BY <1>1, DamageIsCells DEF TargetTyped
  <2>2. CASE debt[o] = <<>>
    BY <2>1, <2>2 DEF Rotated
  <2>3. CASE debt[o] # <<>>
    <3>1. Tail(debt[o]) \in Seq(SUBSET Cells) /\ Len(Tail(debt[o])) = n - 2
      BY <1>3, <2>1, <2>3
    <3> HIDE DEF n
    <3>2. Rotated(debt[o], Damage(o)) = Append(Tail(debt[o]), Damage(o))
      BY <2>3 DEF Rotated
    <3> QED
      BY <1>3, <2>1, <3>1, <3>2
  <2> QED
    BY <2>2, <2>3
<1>7. TargetTyped(targets'[o], back'[o], debt'[o], front'[o])
  <2>1. back'[o] = NextBack(o) /\ debt'[o] = Rotated(debt[o], Damage(o))
    BY <1>1, <1>2 DEF Mapped
  <2>2. front'[o] \in {0} \cup 1..n /\ (n = 1 => front'[o] = 0)
    <3>1. back[o] \in 1..n /\ front[o] \in {0} \cup 1..n /\ (n = 1 => front[o] = 0)
      BY <1>1, <1>3 DEF TargetTyped
    <3>2. CASE n > 1
      <4>1. front'[o] = back[o]
        BY <1>1, <1>2, <3>2 DEF Mapped
      <4> HIDE DEF n
      <4> QED
        BY <1>3, <3>1, <3>2, <4>1
    <3>3. CASE ~(n > 1)
      BY <1>2, <3>1, <3>3
    <3> QED
      BY <3>2, <3>3
  <2> HIDE DEF n
  <2> QED
    BY <1>3, <1>4, <1>5, <1>6, <2>1, <2>2 DEF TargetTyped
<1>8. ASSUME NEW p \in Outputs, p # o
      PROVE  targets'[p] = targets[p] /\ back'[p] = back[p] /\ debt'[p] = debt[p]
             /\ front'[p] = front[p]
  <2>1. targets'[p] = targets[p]
    BY <1>2, <1>8, RenderedTo
  <2> QED
    BY <1>1, <1>2, <1>8, <2>1 DEF Mapped
<1>9. copy' \in [Outputs -> Screen]
  <2>1. ~(n > 1) => targets'[o][1] \in Screen
    BY <1>3, <1>4
  <2> HIDE DEF n
  <2> QED
    BY <1>1, <1>2, <2>1
<1>10. TargetsTyped'
  <2>1. ASSUME NEW p \in Outputs
        PROVE  TargetTyped(targets'[p], back'[p], debt'[p], front'[p])
    <3>1. TargetTyped(targets[p], back[p], debt[p], front[p])
      BY DEF LedgerInv, TargetsTyped
    <3> QED
      BY <1>7, <1>8, <3>1
  <2> QED
    BY <1>9, <2>1 DEF TargetsTyped
<1>11. Mapped'
  <2>1. DOMAIN targets' = Outputs
    BY <1>2, RenderedTo
  <2> QED
    BY <1>1, <1>2, <2>1 DEF Mapped
<1>12. GroupsTyped'
  BY ComposedGroups DEF SubmitComposited
<1>13. Placements(o) \in Seq(Placement)
  BY LedgerInvTypes, PlacementsAre DEF Typed
<1>14. SceneTyped' /\ ListsTyped' /\ GhostsTyped'
  BY <1>13 DEF SubmitComposited, LedgerInv, SceneTyped, ListsTyped, GhostsTyped, Keys
<1> QED
  BY <1>10, <1>11, <1>12, <1>14 DEF LedgerInv

LEMMA FailedIs ==
    ASSUME LedgerInv, NEW o \in Outputs, SubmitFailed(o)
    PROVE  LedgerInv'
<1>1. Mapped
  BY DEF LedgerInv
<1>2. /\ targets' \in {targets, RenderTo(o)}
      /\ UNCHANGED <<back, debt, front, copy>>
  BY DEF SubmitFailed
<1>3. /\ DOMAIN targets' = Outputs
      /\ \A p \in Outputs : /\ targets[p] \in Seq(Screen) => targets'[p] \in Seq(Screen)
                            /\ Len(targets'[p]) = Len(targets[p])
                            /\ DOMAIN targets'[p] = DOMAIN targets[p]
  <2>1. CASE targets' = targets
    BY <1>1, <2>1 DEF Mapped
  <2>2. CASE targets' = RenderTo(o)
    BY <2>2, RenderedTo
  <2> QED
    BY <1>2, <2>1, <2>2
<1>4. TargetsTyped'
  <2>1. ASSUME NEW p \in Outputs
        PROVE  TargetTyped(targets'[p], back'[p], debt'[p], front'[p])
    <3>1. TargetTyped(targets[p], back[p], debt[p], front[p])
      BY DEF LedgerInv, TargetsTyped
    <3> QED
      BY <1>2, <1>3, <3>1 DEF TargetTyped
  <2> QED
    BY <1>2, <2>1 DEF TargetsTyped, LedgerInv
<1>5. Mapped'
  BY <1>1, <1>2, <1>3 DEF Mapped
<1>6. GroupsTyped'
  BY ComposedGroups DEF SubmitFailed, sceneVars
<1>7. SceneTyped' /\ ListsTyped' /\ GhostsTyped'
  BY DEF SubmitFailed, LedgerInv, SceneTyped, ListsTyped, GhostsTyped, sceneVars, Full
<1> QED
  BY <1>4, <1>5, <1>6, <1>7 DEF LedgerInv

\* Nobody draws.
LEMMA TargetsStill ==
    ASSUME LedgerInv, UNCHANGED targetVars
    PROVE  TargetsTyped' /\ Mapped'
  BY DEF LedgerInv, TargetsTyped, Mapped, targetVars

LEMMA UnchangedIs ==
    ASSUME LedgerInv, NEW o \in Outputs, SubmitUnchanged(o)
    PROVE  LedgerInv'
<1>1. GroupsTyped'
  BY ComposedGroups DEF SubmitUnchanged, sceneVars
<1>2. TargetsTyped' /\ Mapped'
  BY TargetsStill DEF SubmitUnchanged
<1>3. Placements(o) \in Seq(Placement)
  BY LedgerInvTypes, PlacementsAre DEF Typed
<1>4. SceneTyped' /\ ListsTyped' /\ GhostsTyped'
  BY <1>3 DEF SubmitUnchanged, LedgerInv, SceneTyped, ListsTyped, GhostsTyped, sceneVars, Keys
<1> QED
  BY <1>1, <1>2, <1>4 DEF LedgerInv

LEMMA ScanoutIs ==
    ASSUME LedgerInv, NEW o \in Outputs, SubmitScanout(o)
    PROVE  LedgerInv'
<1>1. Scene(o) \in Screen
  BY LedgerInvTypes, DrawnIsScene
<1>2. TargetsTyped'
  <2>1. ASSUME NEW p \in Outputs
        PROVE  TargetTyped(targets'[p], back'[p], debt'[p], front'[p])
    <3>1. TargetTyped(targets[p], back[p], debt[p], front[p])
      BY DEF LedgerInv, TargetsTyped
    <3>2. front'[p] \in {0, front[p]} /\ (front[p] = 0 => front'[p] = 0)
      BY DEF SubmitScanout, LedgerInv, Mapped
    <3> QED
      BY <3>1, <3>2 DEF TargetTyped, SubmitScanout
  <2> QED
    BY <1>1, <2>1 DEF TargetsTyped, LedgerInv, SubmitScanout
<1>3. Mapped' /\ SceneTyped' /\ ListsTyped' /\ GroupsTyped' /\ GhostsTyped'
  BY DEF SubmitScanout, LedgerInv, Mapped, SceneTyped, ListsTyped, GroupsTyped, Stamped, GhostsTyped,
         groupVars
<1> QED
  BY <1>2, <1>3 DEF LedgerInv

LEMMA ResetIs ==
    ASSUME LedgerInv, NEW o \in Outputs, Reset(o)
    PROVE  LedgerInv'
<1>1. Shown(o) \in Screen
  BY ShownIsScreen
<1>2. PICK t \in NewTargets : targets' = [targets EXCEPT ![o] = t]
  BY DEF Reset
<1>3. [c \in Cells |-> Garbage] \in Screen
  BY DEF Screen, Content
<1>4. t \in Seq(Screen) /\ Len(t) \in 1..2 /\ DOMAIN t = 1..Len(t)
  <2>1. PICK n \in {1, 2} : t = [i \in 1..n |-> [c \in Cells |-> Garbage]]
    BY DEF NewTargets
  <2> QED
    BY <1>3, <2>1
<1>5. NoDebt(Len(t)) \in Seq(SUBSET Cells) /\ Len(NoDebt(Len(t))) = Len(t) - 1
  <2>0. Len(t) - 1 \in Nat
    BY <1>4
  <2>1. PICK n \in Nat : n = Len(t) - 1
    BY <2>0
  <2>2. NoDebt(Len(t)) = [i \in 1..n |-> {}]
    BY <2>1 DEF NoDebt
  <2> QED
    BY <2>1, <2>2
<1>6. Mapped
  BY DEF LedgerInv
<1>7. TargetsTyped'
  <2>1. ASSUME NEW p \in Outputs
        PROVE  TargetTyped(targets'[p], back'[p], debt'[p], front'[p])
    <3>1. TargetTyped(targets[p], back[p], debt[p], front[p])
      BY DEF LedgerInv, TargetsTyped
    <3>2. CASE p = o
      <4>1. targets'[p] = t
        BY <1>2, <1>6, <3>2 DEF Mapped
      <4>2. back'[p] = 1 /\ debt'[p] = NoDebt(Len(t)) /\ front'[p] = 0
        BY <1>6, <3>2, <4>1 DEF Reset, Mapped
      <4>3. 1 \in 1..Len(t) /\ 0 \in {0} \cup 1..Len(t)
        BY <1>4
      <4> QED
        BY <1>4, <1>5, <4>1, <4>2, <4>3 DEF TargetTyped
    <3>3. CASE p # o
      BY <1>2, <1>6, <3>1, <3>3 DEF Reset, Mapped
    <3> QED
      BY <3>2, <3>3
  <2> QED
    BY <1>1, <2>1 DEF TargetsTyped, LedgerInv, Reset
<1>8. Mapped'
  BY <1>2, <1>6 DEF Mapped, Reset
<1>9. SceneTyped' /\ ListsTyped' /\ GroupsTyped' /\ GhostsTyped'
  BY DEF Reset, LedgerInv, SceneTyped, ListsTyped, GroupsTyped, Stamped, GhostsTyped, sceneVars
<1> QED
  BY <1>7, <1>8, <1>9 DEF LedgerInv

LEMMA CommitIs ==
    ASSUME LedgerInv, NEW w \in setting.windows, NEW image \in Image, ClientCommit(w, image)
    PROVE  LedgerInv'
<1>1. w \in Windows
  BY LedgerInvTypes, SettingIs DEF Typed
<1>2. TargetsTyped' /\ Mapped'
  BY TargetsStill DEF ClientCommit
<1>3. SceneTyped' /\ ListsTyped' /\ GhostsTyped'
  BY <1>1 DEF ClientCommit, Changed, LedgerInv, SceneTyped, ListsTyped, GhostsTyped, listVars
<1>4. GroupsTyped'
  BY <1>1 DEF ClientCommit, LedgerInv, SceneTyped, GroupsTyped, Stamped
<1> QED
  BY <1>2, <1>3, <1>4 DEF LedgerInv

LEMMA ArrangeIs ==
    ASSUME LedgerInv, NEW o \in Outputs, NEW list \in Lists, Arrange(o, list)
    PROVE  LedgerInv'
<1>1. list \in Seq(Placement)
  <2>1. PICK n \in 0..Cardinality(setting.windows) :
            list \in [1..n -> [win : setting.windows, area : setting.areas]]
    BY DEF Lists
  <2>2. Cardinality(setting.windows) \in Nat
    BY LedgerInvTypes, SettingIs, FS_CardinalityType DEF Typed
  <2>3. [win : setting.windows, area : setting.areas] \subseteq Placement
    BY LedgerInvTypes, SettingIs DEF Typed, Placement
  <2>4. n \in Nat /\ list \in [1..n -> Placement]
    BY <2>1, <2>2, <2>3
  <2> QED
    BY <2>4
<1>2. TargetsTyped' /\ Mapped'
  BY TargetsStill DEF Arrange
<1>3. SceneTyped' /\ ListsTyped' /\ GroupsTyped' /\ GhostsTyped'
  BY <1>1 DEF Arrange, Changed, LedgerInv, SceneTyped, ListsTyped, GroupsTyped, Stamped, GhostsTyped,
              listVars, groupVars
<1> QED
  BY <1>2, <1>3 DEF LedgerInv

LEMMA DamageAllIs ==
    ASSUME LedgerInv, NEW o \in Outputs, DamageAll(o)
    PROVE  LedgerInv'
<1>1. TargetsTyped' /\ Mapped'
  BY TargetsStill DEF DamageAll
<1>2. SceneTyped' /\ ListsTyped' /\ GroupsTyped' /\ GhostsTyped'
  BY DEF DamageAll, Changed, LedgerInv, SceneTyped, ListsTyped, GroupsTyped, Stamped, GhostsTyped,
         sceneVars, groupVars
<1> QED
  BY <1>1, <1>2 DEF LedgerInv

LEMMA RebuildIs ==
    ASSUME LedgerInv, NEW o \in Outputs, Rebuild(o)
    PROVE  LedgerInv'
<1>1. GroupsTyped'
  BY ComposedGroups DEF Rebuild, sceneVars
<1>2. TargetsTyped' /\ Mapped'
  BY TargetsStill DEF Rebuild
<1>3. SceneTyped' /\ ListsTyped' /\ GhostsTyped'
  BY DEF Rebuild, LedgerInv, SceneTyped, ListsTyped, GhostsTyped, sceneVars, listVars, ghostVars
<1> QED
  BY <1>1, <1>2, <1>3 DEF LedgerInv

LEMMA LedgerStep == LedgerInv /\ [Next]_vars => LedgerInv'
<1> SUFFICES ASSUME LedgerInv, [Next]_vars PROVE LedgerInv'
  OBVIOUS
<1>1. CASE UNCHANGED vars
  BY <1>1 DEF vars, sceneVars, targetVars, listVars, groupVars, ghostVars, LedgerInv, SceneTyped,
              TargetsTyped, Mapped, ListsTyped, GroupsTyped, Stamped, GhostsTyped
<1>2. setting.outputs \subseteq Outputs
  BY LedgerInvTypes, SettingIs DEF Typed
<1> QED
  BY <1>1, <1>2, CommitIs, ArrangeIs, DamageAllIs, RebuildIs, ScanoutIs, UnchangedIs, CompositedIs,
     FailedIs, ResetIs DEF Next, Submit

\* The ledger keeps to its type, and a picture that was composed for a group is
\* used again only while it is the window's (frame.cppm).
THEOREM TypeCorrect == Spec => []TypeOK
<1>1. LedgerInv => TypeOK
  BY LedgerInvTypes DEF Typed
<1> QED
  BY <1>1, LedgerBegins, LedgerStep, PTL DEF Spec

-----------------------------------------------------------------------------
(* A calm output.  What is on screen is what the list drawn last looks like, *)
(* but for windows that changed since; and the target drawn next looks the   *)
(* same, but for what it owes.                                               *)

\* w was drawn as it is, if it was drawn last.
Kept(o, w) == IF w \in setting.grouped THEN w \in groupStamps[o] ELSE w \notin dirty

LastShows(o, c) ==
    /\ ~Covered(last[o], c) => Shown(o)[c] = Background
    /\ \A i \in DOMAIN last[o] : Top(last[o], c, i) /\ Kept(o, last[o][i].win) =>
           Shown(o)[c] = <<last[o][i].win, pixels[last[o][i].win]>>

Fronts(o) == lastValid[o] => \A c \in Cells : LastShows(o, c)

Owes(o) ==
    ~Full(o) =>
        /\ \A c \in Cells \ UNION ToSet(debt[o]) : targets[o][back[o]][c] = Shown(o)[c]
        /\ Len(targets[o]) = 2 => front[o] = NextBack(o)

CalmAt(o) == Fronts(o) /\ Owes(o) /\ (settled[o] => Shown(o) = Scene(o))

CalmInv ==
    Calm => \A o \in Outputs : IF o \in setting.outputs THEN CalmAt(o) ELSE ~settled[o]

\* Outside the damage the scene is what it was, and is on screen.
LEMMA Undamaged ==
    ASSUME LedgerInv, NEW o \in Outputs, Fronts(o), ~Full(o), NEW c \in Cells, c \notin Damage(o)
    PROVE  Shown(o)[c] = Scene(o)[c]
<1> DEFINE K == Placements(o)
           L == last[o]
<1>1. K \in Seq(Placement) /\ L \in Seq(Placement)
  BY LedgerInvTypes, PlacementsAre DEF Typed, LedgerInv, ListsTyped
<1>2. LastShows(o, c) /\ Scene(o) = Picture(K, pixels)
  BY DEF Fronts, Full, Scene
<1>3. c \notin Diff(L, K) /\ c \notin AreaOf(o, Rendered(o)) /\ c \notin AreaOf(o, dirty \cap Consumed(o))
  BY DEF Damage, Keys
<1>4. \A i \in DOMAIN L : c \in L[i].area => i \in DOMAIN K /\ K[i] = L[i]
  BY <1>3 DEF Diff
<1>5. \A i \in DOMAIN K : c \in K[i].area => i \in DOMAIN L /\ K[i] = L[i]
  BY <1>3 DEF Diff
<1>6. ASSUME NEW i \in DOMAIN K, Top(K, c, i)
      PROVE  Shown(o)[c] = <<K[i].win, pixels[K[i].win]>>
  <2>1. i \in DOMAIN L /\ L[i] = K[i] /\ Top(L, c, i)
    BY <1>4, <1>5, <1>6 DEF Top
  <2>2. K[i].win \in Placed(o) /\ \A W : K[i].win \in W => c \in AreaOf(o, W)
    BY <1>6 DEF Placed, WindowsIn, AreaOf, ToSet, Top
  <2>3. Kept(o, K[i].win)
    <3>1. CASE K[i].win \in setting.grouped
      BY <1>3, <2>2, <3>1 DEF Kept, Rendered
    <3>2. CASE K[i].win \notin setting.grouped
      BY <1>3, <2>2, <3>2 DEF Kept, Consumed
    <3> QED
      BY <3>1, <3>2
  <2> QED
    BY <1>2, <2>1, <2>3 DEF LastShows
<1>7. ~Covered(K, c) => ~Covered(L, c)
  BY <1>4 DEF Covered
<1> HIDE DEF K, L
<1>8. CASE Covered(K, c)
  <2>1. PICK i \in DOMAIN K : Top(K, c, i)
    BY <1>1, <1>8, PictureAt
  <2> QED
    BY <1>1, <1>2, <1>6, <2>1, PictureAt
<1>9. CASE ~Covered(K, c)
  BY <1>1, <1>2, <1>7, <1>9, PictureAt DEF LastShows, L
<1> QED
  BY <1>8, <1>9

\* So a frame that draws leaves the whole scene in its target.
LEMMA Redrawn ==
    ASSUME LedgerInv, NEW o \in Outputs, Fronts(o), Owes(o)
    PROVE  RenderTo(o)[o][back[o]] = Scene(o)
<1>1. Scene(o) \in Screen
  BY LedgerInvTypes, DrawnIsScene
<1>2. ASSUME NEW c \in Cells, c \notin Repaint(o) PROVE targets[o][back[o]][c] = Scene(o)[c]
  <2>1. ~Full(o) /\ c \notin Damage(o) /\ c \notin UNION ToSet(debt[o])
    BY <1>2 DEF Repaint
  <2> QED
    BY <2>1, Undamaged DEF Owes
<1>3. RenderTo(o)[o][back[o]] =
         [c \in Cells |-> IF c \in Repaint(o) THEN Scene(o)[c] ELSE targets[o][back[o]][c]]
  BY RenderedTo
<1> QED
  BY <1>1, <1>2, <1>3 DEF Screen

\* What is on screen just after a frame of the list it drew.
LEMMA JustDrawn ==
    ASSUME NEW list \in Seq(Placement), NEW c \in Cells, NEW cell,
           cell = Picture(list, pixels)[c]
    PROVE  /\ ~Covered(list, c) => cell = Background
           /\ \A i \in DOMAIN list :
                 Top(list, c, i) => cell = <<list[i].win, pixels[list[i].win]>>
  BY PictureAt

LEMMA CompositedCalm ==
    ASSUME LedgerInv, NEW o \in Outputs, CalmAt(o), SubmitComposited(o)
    PROVE  CalmAt(o)'
<1>1. TargetTyped(targets[o], back[o], debt[o], front[o]) /\ Mapped
  BY DEF LedgerInv, TargetsTyped
<1>2. PICK n \in 1..2 : n = Len(targets[o]) /\ DOMAIN targets[o] = 1..n
  BY <1>1 DEF TargetTyped
<1>3. PICK b \in 1..n : b = back[o]
  BY <1>1, <1>2 DEF TargetTyped
<1>4. targets'[o][b] = Scene(o) /\ \A i \in 1..n : i # b => targets'[o][i] = targets[o][i]
  BY <1>2, <1>3, Redrawn, RenderedTo DEF CalmAt, SubmitComposited
<1>5. Len(targets'[o]) = n
  BY <1>2, RenderedTo DEF SubmitComposited
<1>6. Scene(o)' = Scene(o)
  BY DEF SubmitComposited, Scene, Placements
<1>7. PICK d \in 1..n : d = (b % n) + 1
  BY <1>2, <1>3
<1>8. back'[o] = d /\ NextBack(o) = d
  BY <1>1, <1>2, <1>3, <1>7 DEF SubmitComposited, NextBack, Mapped
<1>9. Shown(o)' = Scene(o) /\ (n = 2 => front'[o] = b)
  <2>1. CASE n = 2
    <3>1. front'[o] = b /\ b # 0
      BY <1>1, <1>2, <1>3, <2>1 DEF SubmitComposited, Mapped
    <3> QED
      BY <1>4, <3>1 DEF Shown
  <2>2. CASE n = 1
    <3>1. b = 1 /\ front[o] = 0 /\ ~(Len(targets[o]) > 1)
      BY <1>1, <1>2, <1>3, <2>2 DEF TargetTyped
    <3>2. copy'[o] = targets'[o][1] /\ front'[o] = 0
      BY <3>1 DEF SubmitComposited, LedgerInv, TargetsTyped
    <3> QED
      BY <1>4, <2>2, <3>1, <3>2 DEF Shown
  <2> QED
    BY <2>1, <2>2
<1>10. Fronts(o)'
  <2>1. Placements(o) \in Seq(Placement)
    BY LedgerInvTypes, PlacementsAre DEF Typed
  <2>2. last'[o] = Placements(o) /\ pixels' = pixels
    BY DEF SubmitComposited, LedgerInv, ListsTyped, Keys
  <2>3. ASSUME NEW c \in Cells PROVE LastShows(o, c)'
    <3>1. Shown(o)'[c] = Picture(Placements(o), pixels)[c]
      BY <1>9 DEF Scene
    <3> QED
      BY <2>1, <2>2, <3>1, JustDrawn DEF LastShows
  <2> QED
    BY <2>3 DEF Fronts
<1>11. ASSUME NEW c \in Cells, c \notin UNION ToSet(debt'[o])
       PROVE  targets'[o][d][c] = Scene(o)[c]
  <2>1. CASE d = b
    BY <1>4, <2>1
  <2>2. CASE d # b
    <3>1. n = 2 /\ b \in 1..2 /\ d \in 1..2
      BY <1>7, <2>2
    <3>2. Damage(o) \in ToSet(debt'[o])
      <4>1. debt[o] \in Seq(SUBSET Cells) /\ Len(debt[o]) = 1 /\ Damage(o) \in SUBSET Cells
        BY <1>1, <1>2, <3>1, DamageIsCells DEF TargetTyped
      <4>2. debt[o] # <<>>
        <5>1. Len(debt[o]) # 0
          BY <4>1
        <5> QED
          BY <5>1
      <4>3. Tail(debt[o]) \in Seq(SUBSET Cells)
        BY <4>1, <4>2
      <4>4. debt'[o] = Append(Tail(debt[o]), Damage(o))
        BY <1>1, <4>2 DEF SubmitComposited, Rotated, Mapped
      <4>5. /\ Len(debt'[o]) = Len(Tail(debt[o])) + 1 /\ debt'[o] \in Seq(SUBSET Cells)
            /\ debt'[o][Len(Tail(debt[o])) + 1] = Damage(o)
        BY <4>1, <4>3, <4>4, AppendProperties
      <4> QED
        BY <4>3, <4>5 DEF ToSet
    <3>3. c \notin Damage(o)
      BY <1>11, <3>2
    <3>4. ~Full(o)
      BY <3>3 DEF Damage
    <3>5. front[o] = d /\ d # 0
      BY <1>2, <1>8, <3>1, <3>4 DEF CalmAt, Owes
    <3>6. Shown(o)[c] = Scene(o)[c]
      BY <3>3, <3>4, Undamaged DEF CalmAt
    <3> QED
      BY <1>4, <2>2, <3>5, <3>6 DEF Shown
  <2> QED
    BY <2>1, <2>2
<1>12. n = 2 => b = (d % n) + 1
  <2> SUFFICES ASSUME n = 2 PROVE b = (d % 2) + 1
    OBVIOUS
  <2>1. b \in {1, 2} /\ d = (b % 2) + 1
    BY <1>7
  <2> QED
    BY <2>1
<1>13. Owes(o)'
  BY <1>5, <1>8, <1>9, <1>11, <1>12 DEF Owes, NextBack
<1> QED
  BY <1>6, <1>9, <1>10, <1>13 DEF CalmAt

LEMMA UnchangedCalm ==
    ASSUME LedgerInv, NEW o \in Outputs, CalmAt(o), SubmitUnchanged(o)
    PROVE  CalmAt(o)'
<1>1. ~Full(o) /\ Damage(o) = {}
  BY LedgerAssumption DEF SubmitUnchanged, Repaint
<1>2. Shown(o) = Scene(o)
  <2>1. \A c \in Cells : Shown(o)[c] = Scene(o)[c]
    BY <1>1, Undamaged DEF CalmAt
  <2>2. Shown(o) \in Screen /\ Scene(o) \in Screen
    BY LedgerInvTypes, DrawnIsScene, ShownIsScreen
  <2> QED
    BY <2>1, <2>2 DEF Screen
<1>3. Scene(o)' = Scene(o) /\ Shown(o)' = Shown(o) /\ Full(o)' = Full(o)
  BY DEF SubmitUnchanged, Scene, Placements, Shown, Full, sceneVars, targetVars
<1>4. Fronts(o)'
  <2>1. Placements(o) \in Seq(Placement)
    BY LedgerInvTypes, PlacementsAre DEF Typed
  <2>2. last'[o] = Placements(o) /\ pixels' = pixels
    BY DEF SubmitUnchanged, LedgerInv, ListsTyped, Keys, sceneVars
  <2>3. ASSUME NEW c \in Cells PROVE LastShows(o, c)'
    <3>1. Shown(o)'[c] = Picture(Placements(o), pixels)[c]
      BY <1>2, <1>3 DEF Scene
    <3> QED
      BY <2>1, <2>2, <3>1, JustDrawn DEF LastShows
  <2> QED
    BY <2>3 DEF Fronts
<1>5. Owes(o)'
  BY <1>3 DEF Owes, CalmAt, SubmitUnchanged, targetVars, NextBack
<1> QED
  BY <1>2, <1>3, <1>4, <1>5 DEF CalmAt

LEMMA ScanoutCalm ==
    ASSUME LedgerInv, NEW o \in Outputs, SubmitScanout(o)
    PROVE  CalmAt(o)'
<1>1. lastValid'[o] = FALSE
  BY DEF SubmitScanout, LedgerInv, ListsTyped
<1>2. Shown(o)' = Scene(o) /\ Scene(o)' = Scene(o)
  BY DEF SubmitScanout, Shown, Scene, Placements, LedgerInv, Mapped, TargetsTyped
<1> QED
  BY <1>1, <1>2 DEF CalmAt, Fronts, Owes, Full

LEMMA ResetCalm ==
    ASSUME LedgerInv, NEW o \in Outputs, CalmAt(o), Reset(o)
    PROVE  CalmAt(o)'
<1>1. fullRedraw'[o] = TRUE /\ settled'[o] = FALSE
  BY DEF Reset, LedgerInv, ListsTyped, GhostsTyped
<1>2. Shown(o)' = Shown(o)
  <2>1. front'[o] = 0 /\ copy'[o] = Shown(o)
    BY DEF Reset, LedgerInv, Mapped, TargetsTyped
  <2> QED
    BY <2>1 DEF Shown
<1>3. ASSUME NEW c \in Cells, LastShows(o, c)
      PROVE  LastShows(o, c)'
  <2>1. \A w : Kept(o, w)' => Kept(o, w)
    BY DEF Kept, Reset, LedgerInv, GroupsTyped, sceneVars
  <2> QED
    BY <1>2, <1>3, <2>1 DEF LastShows, Reset, sceneVars
<1>4. Fronts(o)'
  BY <1>3 DEF CalmAt, Fronts, Reset
<1> QED
  BY <1>1, <1>4 DEF CalmAt, Owes, Full

\* A window that an output does not show changes nothing there.
LEMMA CommitElsewhere ==
    ASSUME LedgerInv, NEW o \in Outputs, NEW w \in Windows, w \notin WindowsIn(layout[o]),
           layout' = layout, \A v : v # w => pixels'[v] = pixels[v]
    PROVE  /\ Placements(o)' = Placements(o) /\ w \notin Placed(o)
           /\ Scene(o)' = Scene(o)
<1>1. \A i \in DOMAIN layout[o] : pixels'[layout[o][i].win] = pixels[layout[o][i].win]
  BY DEF WindowsIn
<1>2. Placements(o)' = Placements(o)
  <2> DEFINE kept == {i \in DOMAIN layout[o] : pixels[layout[o][i].win] # Nothing}
  <2>1. kept = {i \in DOMAIN layout[o] : pixels'[layout[o][i].win] # Nothing}
    BY <1>1
  <2>2. Placements(o) = Picked(layout[o], kept)
    BY DEF Placements
  <2>3. Placements(o)' = Picked(layout[o], kept)
    <3> HIDE DEF kept
    <3> QED
      BY <2>1 DEF Placements
  <2> QED
    BY <2>2, <2>3
<1>3. /\ Placements(o) \in Seq(Placement)
      /\ \A n \in DOMAIN Placements(o) : \E i \in DOMAIN layout[o] : Placements(o)[n] = layout[o][i]
  BY LedgerInvTypes, PlacementsAre DEF Typed
<1>4. \A n \in DOMAIN Placements(o) : pixels'[Placements(o)[n].win] = pixels[Placements(o)[n].win]
  BY <1>1, <1>3
<1>5. Picture(Placements(o), pixels) = Picture(Placements(o), pixels')
  BY <1>3, <1>4, SameImages
<1>6. w \notin Placed(o)
  BY <1>3 DEF Placed, WindowsIn
<1> QED
  BY <1>2, <1>5, <1>6 DEF Scene

\* What changes is not kept as it was drawn, and the rest looks as before.
LEMMA CommitCalm ==
    ASSUME LedgerInv, NEW o \in Outputs, CalmAt(o),
           NEW w \in setting.windows, NEW image \in Image, ClientCommit(w, image)
    PROVE  CalmAt(o)'
<1>1. w \in Windows
  BY LedgerInvTypes, SettingIs DEF Typed
<1>2. /\ pixels' = [pixels EXCEPT ![w] = image] /\ \A v : v # w => pixels'[v] = pixels[v]
      /\ UNCHANGED <<setting, layout, targetVars, listVars>>
  BY DEF ClientCommit, LedgerInv, SceneTyped
<1>3. Shown(o)' = Shown(o) /\ Full(o)' = Full(o)
  BY <1>2 DEF Shown, Full, targetVars, listVars
<1>4. ASSUME NEW v, Kept(o, v)' PROVE Kept(o, v) /\ v # w
  BY <1>4 DEF Kept, ClientCommit, LedgerInv, GroupsTyped
<1>5. ASSUME NEW c \in Cells, LastShows(o, c)
      PROVE  LastShows(o, c)'
  BY <1>2, <1>3, <1>4, <1>5 DEF LastShows, listVars
<1>6. Fronts(o)'
  BY <1>2, <1>5 DEF CalmAt, Fronts, listVars
<1>7. Owes(o)'
  BY <1>2, <1>3 DEF CalmAt, Owes, targetVars, NextBack
<1>8. ASSUME settled'[o] PROVE Shown(o)' = Scene(o)'
  <2>1. settled[o] /\ w \notin WindowsIn(layout[o])
    BY <1>8 DEF ClientCommit, Changed
  <2>2. Scene(o)' = Scene(o)
    BY <1>1, <1>2, <2>1, CommitElsewhere
  <2> QED
    BY <1>3, <2>1, <2>2 DEF CalmAt
<1> QED
  BY <1>6, <1>7, <1>8 DEF CalmAt

LEMMA ArrangeCalm ==
    ASSUME LedgerInv, NEW o \in Outputs, CalmAt(o), NEW list \in Lists, Arrange(o, list)
    PROVE  CalmAt(o)'
<1>1. /\ UNCHANGED <<setting, pixels, dirty, targetVars, listVars, groupVars>>
      /\ settled'[o] = FALSE
  BY DEF Arrange, Changed
<1>2. Shown(o)' = Shown(o) /\ Full(o)' = Full(o)
  BY <1>1 DEF Shown, Full, targetVars, listVars
<1>3. \A c \in Cells : LastShows(o, c) => LastShows(o, c)'
  BY <1>1, <1>2 DEF LastShows, Kept, listVars, groupVars
<1> QED
  BY <1>1, <1>2, <1>3 DEF CalmAt, Fronts, Owes, NextBack, listVars, targetVars

LEMMA DamageAllCalm ==
    ASSUME LedgerInv, NEW o \in Outputs, CalmAt(o), DamageAll(o)
    PROVE  CalmAt(o)'
<1>1. /\ UNCHANGED <<sceneVars, targetVars, last, lastValid, groupVars>>
      /\ settled'[o] = FALSE /\ fullRedraw'[o] = TRUE
  BY DEF DamageAll, Changed, LedgerInv, ListsTyped
<1>2. Shown(o)' = Shown(o)
  BY <1>1 DEF Shown, targetVars
<1>3. \A c \in Cells : LastShows(o, c) => LastShows(o, c)'
  BY <1>1, <1>2 DEF LastShows, Kept, sceneVars, groupVars
<1> QED
  BY <1>1, <1>2, <1>3 DEF CalmAt, Fronts, Owes, Full

\* What a calm compositor may do is done to its one output.
LEMMA CalmStep == LedgerInv /\ CalmInv /\ [Next]_vars => CalmInv'
<1> SUFFICES ASSUME LedgerInv, CalmInv, [Next]_vars, Calm', NEW o \in Outputs
             PROVE  (IF o \in setting.outputs THEN CalmAt(o) ELSE ~settled[o])'
  BY DEF CalmInv
<1>1. setting' = setting
  BY DEF Next, Submit, SubmitScanout, SubmitUnchanged, SubmitComposited, SubmitFailed, Reset, Rebuild,
         DamageAll, Arrange, ClientCommit, vars, sceneVars
<1>2. Calm
  BY <1>1 DEF Calm
<1>3. \A p, q \in setting.outputs : p = q
  <2>1. IsFiniteSet(setting.outputs)
    BY LedgerInvTypes, SettingIs DEF Typed
  <2>2. \E p : setting.outputs = {p}
    BY <1>2, <2>1, FS_Singleton DEF Calm
  <2> QED
    BY <2>2
<1>4. setting.outputs \subseteq Outputs
  BY LedgerInvTypes, SettingIs DEF Typed
<1>5. CASE o \in setting.outputs
  <2>1. CalmAt(o)
    BY <1>2, <1>5 DEF CalmInv
  <2>2. CASE UNCHANGED vars
    <3>1. Shown(o)' = Shown(o) /\ Full(o)' = Full(o) /\ Scene(o)' = Scene(o)
      BY <2>2 DEF vars, Shown, Full, Scene, Placements, targetVars, listVars, sceneVars
    <3>2. \A c \in Cells : LastShows(o, c) => LastShows(o, c)'
      BY <2>2, <3>1 DEF vars, LastShows, Kept, sceneVars, groupVars, listVars
    <3>3. CalmAt(o)'
      BY <2>1, <2>2, <3>1, <3>2 DEF vars, CalmAt, Fronts, Owes, NextBack, listVars, targetVars, ghostVars
    <3> QED
      BY <1>1, <1>5, <3>3
  <2>3. CASE Next
    <3>1. PICK p : p = o
      OBVIOUS
    <3>2. ASSUME NEW w \in setting.windows, NEW image \in Image, ClientCommit(w, image)
          PROVE  CalmAt(o)'
      BY <2>1, <3>2, CommitCalm
    <3>3. ASSUME NEW q \in setting.outputs,
                 \/ \E list \in Lists : Arrange(q, list)
                 \/ DamageAll(q) \/ Rebuild(q) \/ Submit(q) \/ Reset(q)
          PROVE  CalmAt(o)'
      <4>1. q = o
        BY <1>3, <1>5
      <4>2. ~Rebuild(q) /\ ~SubmitFailed(q)
        BY <1>2 DEF Calm, Rebuild, SubmitFailed
      <4> QED
        BY <2>1, <3>3, <4>1, <4>2, ArrangeCalm, DamageAllCalm, ScanoutCalm, UnchangedCalm, CompositedCalm,
           ResetCalm DEF Submit
    <3>4. CalmAt(o)'
      BY <2>3, <3>2, <3>3 DEF Next
    <3> QED
      BY <1>1, <1>5, <3>4
  <2> QED
    BY <2>2, <2>3
<1>6. CASE o \notin setting.outputs
  <2>1. ~settled[o]
    BY <1>2, <1>6 DEF CalmInv
  <2>2. ~settled'[o]
    BY <1>4, <1>6, <2>1 DEF Next, Submit, SubmitScanout, SubmitUnchanged, SubmitComposited, SubmitFailed,
       Reset, Rebuild, DamageAll, Arrange, ClientCommit, Changed, vars, ghostVars, LedgerInv, GhostsTyped
  <2> QED
    BY <1>1, <1>6, <2>2
<1> QED
  BY <1>5, <1>6

\* After a frame of an output that is alone, and until something changes, the
\* screen shows the scene, whichever target was drawn and whatever was left of it
\* (frame.cppm: the damage, the debt of the targets, the lists of keys).
THEOREM CalmShowsScene == Spec => []CalmShownIsScene
<1>1. Init => CalmInv
  BY DEF Init, CalmInv, CalmAt, Fronts, Owes, Full
<1>2. LedgerInv /\ CalmInv => CalmShownIsScene
  BY DEF CalmInv, CalmAt, CalmShownIsScene, ShownIsScene
<1> QED
  BY <1>1, <1>2, LedgerBegins, LedgerStep, CalmStep, PTL DEF Spec

-----------------------------------------------------------------------------
(* An idle desktop.  An output that has drawn since the last change has no   *)
(* damage, so that each frame it still draws pays one target's debt and      *)
(* leaves none for the others.                                               *)

\* There is nothing new to draw.
Still(o) ==
    ~Full(o) /\ last[o] = Placements(o) /\ Rendered(o) = {} /\ dirty \cap Consumed(o) = {}

\* And the targets drawn since are paid.
Paid(b, t, d) == b <= Len(t) /\ \A i \in DOMAIN d : i > Len(t) - b => d[i] = {}

QuietAt(o) == busy[o] > 0 => Still(o) /\ Paid(busy[o], targets[o], debt[o])

QuietInv == \A o \in Outputs : QuietAt(o)

LEMMA StillMeansUndamaged ==
    ASSUME NEW o \in Outputs, Still(o)
    PROVE  Damage(o) = {}
<1>1. AreaOf(o, {}) = {} /\ Diff(last[o], last[o]) = {}
  BY DEF AreaOf, Diff
<1> QED
  BY <1>1 DEF Still, Damage, Keys

\* A target that owes nothing leaves nothing to be drawn; so one that is drawn
\* owed something, and was not drawn before.
LEMMA Pays ==
    ASSUME NEW t, Len(t) \in 1..2, NEW d \in Seq(SUBSET Cells), Len(d) = Len(t) - 1,
           NEW b \in Nat \ {0}, Paid(b, t, d), UNION ToSet(d) # {}
    PROVE  Paid(b + 1, t, Rotated(d, {}))
<1>1. PICK i \in DOMAIN d : d[i] # {}
  BY DEF ToSet
<1>2. DOMAIN d = 1..Len(d)
  OBVIOUS
<1>3. ~(i > Len(t) - b) /\ i \in 1..(Len(t) - 1)
  BY <1>1, <1>2 DEF Paid
<1>4. b + 1 <= Len(t) /\ Len(d) = 1 /\ b = 1 /\ Len(t) = 2
  BY <1>3
<1>5. d # <<>>
  BY <1>4
<1>6. Tail(d) \in Seq(SUBSET Cells) /\ Len(Tail(d)) = 0
  BY <1>4, <1>5
<1>7. Rotated(d, {}) = Append(Tail(d), {})
  BY <1>5 DEF Rotated
<1>8. /\ Rotated(d, {}) \in Seq(SUBSET Cells) /\ Len(Rotated(d, {})) = 1
      /\ Rotated(d, {})[1] = {}
  <2>1. {} \in SUBSET Cells
    OBVIOUS
  <2> QED
    BY <1>6, <1>7, <2>1, AppendProperties
<1>9. DOMAIN Rotated(d, {}) = 1..1
  BY <1>8
<1> QED
  BY <1>4, <1>8, <1>9 DEF Paid

LEMMA CompositedQuiet ==
    ASSUME LedgerInv, NEW o \in Outputs, QuietAt(o), SubmitComposited(o)
    PROVE  QuietAt(o)'
<1>1. TargetTyped(targets[o], back[o], debt[o], front[o]) /\ Mapped
  BY DEF LedgerInv, TargetsTyped
<1>2. Len(targets'[o]) = Len(targets[o])
  BY RenderedTo DEF SubmitComposited
<1>3. busy'[o] = busy[o] + 1 /\ debt'[o] = Rotated(debt[o], Damage(o)) /\ busy[o] \in Nat
  BY <1>1 DEF SubmitComposited, Mapped, LedgerInv, GhostsTyped
<1>4. Still(o)'
  <2>1. Placements(o)' = Placements(o) /\ Placed(o)' = Placed(o)
    BY DEF SubmitComposited, Placements, Placed
  <2>2. /\ fullRedraw'[o] = FALSE /\ lastValid'[o] = TRUE /\ last'[o] = Placements(o)
        /\ groupStamps'[o] = groupStamps[o] \cup Rendered(o)
        /\ dirty' = dirty \ (Consumed(o) \cup Rendered(o)) /\ setting' = setting
    BY DEF SubmitComposited, ComposeGroups, LedgerInv, ListsTyped, GroupsTyped, Keys
  <2>3. Rendered(o)' = {}
    BY <2>1, <2>2 DEF Rendered
  <2>4. dirty' \cap Consumed(o)' = {}
    BY <2>1, <2>2 DEF Consumed
  <2> QED
    BY <2>1, <2>2, <2>3, <2>4 DEF Still, Full
<1>5. Paid(busy'[o], targets'[o], debt'[o])
  <2>1. CASE busy[o] = 0
    <3>1. DOMAIN debt'[o] = 1..(Len(targets[o]) - 1) /\ Len(targets[o]) \in 1..2
      <4>1. LedgerInv'
        BY CompositedIs
      <4>2. debt'[o] \in Seq(SUBSET Cells) /\ Len(debt'[o]) = Len(targets[o]) - 1
        BY <1>2, <4>1 DEF LedgerInv, TargetsTyped, TargetTyped
      <4> QED
        BY <1>1, <4>2 DEF TargetTyped
    <3>2. PICK n \in 1..2 : n = Len(targets[o])
      BY <3>1
    <3>3. busy'[o] = 1 /\ Len(targets'[o]) = n /\ DOMAIN debt'[o] = 1..(n - 1)
      BY <1>2, <1>3, <2>1, <3>1, <3>2
    <3>4. n \in {1, 2}
      BY <3>2
    <3>5. 1 <= n
      BY <3>4
    <3>6. \A i \in 1..(n - 1) : ~(i > n - 1)
      BY <3>4
    <3> QED
      BY <3>3, <3>5, <3>6 DEF Paid
  <2>2. CASE busy[o] # 0
    <3>1. Still(o) /\ Paid(busy[o], targets[o], debt[o])
      BY <1>3, <2>2 DEF QuietAt
    <3>2. Damage(o) = {} /\ UNION ToSet(debt[o]) # {}
      BY <3>1, StillMeansUndamaged DEF Still, SubmitComposited, Repaint
    <3>3. PICK b \in Nat \ {0} : b = busy[o]
      BY <1>3, <2>2
    <3>4. Paid(b + 1, targets[o], Rotated(debt[o], {}))
      BY <1>1, <3>1, <3>2, <3>3, Pays DEF TargetTyped
    <3> QED
      BY <1>2, <1>3, <3>2, <3>3, <3>4 DEF Paid
  <2> QED
    BY <2>1, <2>2
<1> QED
  BY <1>4, <1>5 DEF QuietAt

\* Composing for nothing makes nothing new.
LEMMA ComposedStill ==
    ASSUME LedgerInv, NEW o \in Outputs, NEW p \in Outputs, Still(p), ComposeGroups(o),
           UNCHANGED <<sceneVars, fullRedraw, lastValid>>,
           last'[p] = last[p] \/ (p = o /\ last'[p] = Placements(p))
    PROVE  Still(p)'
<1>1. Placements(p)' = Placements(p) /\ Placed(p)' = Placed(p) /\ Consumed(p)' = Consumed(p)
  BY DEF Placements, Placed, Consumed, sceneVars
<1>2. groupStamps[p] \subseteq groupStamps'[p]
  BY DEF ComposeGroups, LedgerInv, GroupsTyped
<1>3. Rendered(p)' = {}
  BY <1>1, <1>2 DEF Still, Rendered, sceneVars
<1> QED
  BY <1>1, <1>3 DEF Still, Full, sceneVars

\* What another output does, at most, is consume damage.
LEMMA OthersQuiet ==
    ASSUME NEW p \in Outputs, QuietAt(p),
           UNCHANGED <<setting, pixels, layout>>, dirty' \subseteq dirty,
           targets'[p] = targets[p], debt'[p] = debt[p],
           fullRedraw'[p] = fullRedraw[p], last'[p] = last[p], lastValid'[p] = lastValid[p],
           groupStamps'[p] = groupStamps[p], busy'[p] \in {0, busy[p]}
    PROVE  QuietAt(p)'
<1>1. Placements(p)' = Placements(p) /\ Placed(p)' = Placed(p)
  BY DEF Placements, Placed
<1>2. Rendered(p)' = Rendered(p) /\ Consumed(p)' = Consumed(p) /\ Full(p)' = Full(p)
  BY <1>1 DEF Rendered, Consumed, Full
<1> QED
  BY <1>1, <1>2 DEF QuietAt, Still

LEMMA CommitQuiet ==
    ASSUME LedgerInv, QuietInv, NEW w \in setting.windows, NEW image \in Image,
           ClientCommit(w, image), NEW p \in Outputs
    PROVE  QuietAt(p)'
<1> SUFFICES ASSUME busy'[p] > 0
             PROVE  Still(p)' /\ Paid(busy'[p], targets'[p], debt'[p])
  BY DEF QuietAt
<1>1. w \in Windows
  BY LedgerInvTypes, SettingIs DEF Typed
<1>2. busy'[p] = busy[p] /\ w \notin WindowsIn(layout[p])
  BY DEF ClientCommit, Changed
<1>3. \A v : v # w => pixels'[v] = pixels[v]
  BY DEF ClientCommit, LedgerInv, SceneTyped
<1>4. Placements(p)' = Placements(p) /\ w \notin Placed(p)
  BY <1>1, <1>2, <1>3, CommitElsewhere DEF ClientCommit
<1>5. Placed(p)' = Placed(p)
  BY <1>4 DEF Placed
<1>6. Still(p) /\ Paid(busy[p], targets[p], debt[p])
  BY <1>2 DEF QuietInv, QuietAt
<1>7. Rendered(p)' = {} /\ dirty' \cap Consumed(p)' = {}
  BY <1>4, <1>5, <1>6 DEF Still, Rendered, Consumed, ClientCommit, LedgerInv, GroupsTyped
<1> QED
  BY <1>2, <1>4, <1>6, <1>7 DEF Still, Full, ClientCommit, targetVars, listVars

LEMMA OutputQuiet ==
    ASSUME LedgerInv, QuietInv, NEW o \in Outputs, NEW p \in Outputs,
           \/ \E list \in Lists : Arrange(o, list)
           \/ DamageAll(o) \/ Rebuild(o) \/ Submit(o) \/ Reset(o)
    PROVE  QuietAt(p)'
<1>1. QuietAt(p) /\ Mapped
  BY DEF QuietInv, LedgerInv
<1>2. CASE \E list \in Lists : Arrange(o, list)
  <2>1. CASE p = o
    BY <1>2, <2>1 DEF Arrange, Changed, QuietAt
  <2>2. CASE p # o
    <3>1. layout'[p] = layout[p] /\ busy'[p] \in {0, busy[p]}
      BY <1>2, <2>2 DEF Arrange, Changed, LedgerInv, SceneTyped
    <3>2. UNCHANGED <<setting, pixels, dirty, targetVars, listVars, groupVars>>
      BY <1>2 DEF Arrange
    <3>3. Placements(p)' = Placements(p) /\ Placed(p)' = Placed(p)
      BY <3>1, <3>2 DEF Placements, Placed
    <3>4. Rendered(p)' = Rendered(p) /\ Consumed(p)' = Consumed(p) /\ Full(p)' = Full(p)
      BY <3>2, <3>3 DEF Rendered, Consumed, Full, groupVars, listVars
    <3> QED
      BY <1>1, <3>1, <3>2, <3>3, <3>4 DEF QuietAt, Still, targetVars, listVars
  <2> QED
    BY <2>1, <2>2
<1>3. CASE DamageAll(o)
  <2>1. CASE p = o
    BY <1>3, <2>1 DEF DamageAll, Changed, QuietAt
  <2>2. CASE p # o
    BY <1>1, <1>3, <2>2, OthersQuiet DEF DamageAll, Changed, sceneVars, targetVars, groupVars, LedgerInv,
       ListsTyped
  <2> QED
    BY <2>1, <2>2
<1>4. CASE Rebuild(o)
  <2>1. UNCHANGED <<sceneVars, targetVars, listVars, ghostVars>> /\ ComposeGroups(o)
    BY <1>4 DEF Rebuild
  <2>2. Still(p) => Still(p)'
    BY <2>1, ComposedStill DEF listVars
  <2> QED
    BY <1>1, <2>1, <2>2 DEF QuietAt, targetVars, ghostVars
<1>5. CASE SubmitUnchanged(o)
  <2>1. /\ UNCHANGED <<sceneVars, targetVars, fullRedraw, lastValid, busy>> /\ ComposeGroups(o)
        /\ last'[p] = last[p] \/ (p = o /\ last'[p] = Placements(p))
    BY <1>5 DEF SubmitUnchanged, Keys, LedgerInv, ListsTyped
  <2>2. Still(p) => Still(p)'
    BY <2>1, ComposedStill
  <2> QED
    BY <1>1, <2>1, <2>2 DEF QuietAt, targetVars
<1>6. CASE SubmitScanout(o)
  <2>1. CASE p = o
    BY <1>6, <2>1 DEF SubmitScanout, QuietAt, LedgerInv, GhostsTyped
  <2>2. CASE p # o
    BY <1>1, <1>6, <2>2, OthersQuiet DEF SubmitScanout, groupVars, LedgerInv, ListsTyped, GhostsTyped
  <2> QED
    BY <2>1, <2>2
<1>7. CASE SubmitFailed(o)
  <2>1. CASE p = o
    BY <1>7, <2>1 DEF SubmitFailed, QuietAt, LedgerInv, GhostsTyped
  <2>2. CASE p # o
    <3>1. targets'[p] = targets[p]
      <4>1. CASE targets' = targets
        BY <4>1
      <4>2. CASE targets' = RenderTo(o)
        BY <1>1, <2>2, <4>2, RenderedTo
      <4> QED
        BY <1>7, <4>1, <4>2 DEF SubmitFailed
    <3>2. groupStamps'[p] = groupStamps[p] /\ fullRedraw'[p] = fullRedraw[p] /\ busy'[p] = busy[p]
      BY <1>7, <2>2 DEF SubmitFailed, ComposeGroups, LedgerInv, ListsTyped, GroupsTyped, GhostsTyped
    <3> QED
      BY <1>1, <1>7, <3>1, <3>2, OthersQuiet DEF SubmitFailed, sceneVars
  <2> QED
    BY <2>1, <2>2
<1>8. CASE SubmitComposited(o)
  <2>1. CASE p = o
    BY <1>1, <1>8, <2>1, CompositedQuiet
  <2>2. CASE p # o
    <3>1. targets'[p] = targets[p]
      BY <1>8, <2>2, RenderedTo DEF SubmitComposited
    <3>2. /\ groupStamps'[p] = groupStamps[p] /\ fullRedraw'[p] = fullRedraw[p] /\ busy'[p] = busy[p]
          /\ last'[p] = last[p] /\ lastValid'[p] = lastValid[p] /\ debt'[p] = debt[p]
      BY <1>1, <1>8, <2>2 DEF SubmitComposited, ComposeGroups, Mapped, LedgerInv, ListsTyped, GroupsTyped,
         GhostsTyped
    <3> QED
      BY <1>1, <1>8, <3>1, <3>2, OthersQuiet DEF SubmitComposited
  <2> QED
    BY <2>1, <2>2
<1>9. CASE Reset(o)
  <2>1. CASE p = o
    BY <1>9, <2>1 DEF Reset, QuietAt, LedgerInv, GhostsTyped
  <2>2. CASE p # o
    <3>1. targets'[p] = targets[p]
      BY <1>1, <1>9, <2>2 DEF Reset, Mapped
    <3>2. /\ groupStamps'[p] = groupStamps[p] /\ fullRedraw'[p] = fullRedraw[p] /\ busy'[p] = busy[p]
          /\ debt'[p] = debt[p]
      BY <1>1, <1>9, <2>2 DEF Reset, Mapped, LedgerInv, ListsTyped, GroupsTyped, GhostsTyped
    <3> QED
      BY <1>1, <1>9, <3>1, <3>2, OthersQuiet DEF Reset, sceneVars
  <2> QED
    BY <2>1, <2>2
<1> QED
  BY <1>2, <1>3, <1>4, <1>5, <1>6, <1>7, <1>8, <1>9 DEF Submit

LEMMA QuietStep == LedgerInv /\ QuietInv /\ [Next]_vars => QuietInv'
<1> SUFFICES ASSUME LedgerInv, QuietInv, [Next]_vars, NEW p \in Outputs PROVE QuietAt(p)'
  BY DEF QuietInv
<1>1. CASE UNCHANGED vars
  <2>1. QuietAt(p)
    BY DEF QuietInv
  <2> QED
    BY <1>1, <2>1, OthersQuiet DEF vars, sceneVars, targetVars, listVars, groupVars, ghostVars
<1>2. setting.outputs \subseteq Outputs
  BY LedgerInvTypes, SettingIs DEF Typed
<1> QED
  BY <1>1, <1>2, CommitQuiet, OutputQuiet DEF Next

\* After a change, an output composites at most one frame for each of its targets
\* before it finds that there is nothing to draw, whatever other outputs, resets,
\* failures and hit tests come between (frame.cppm: rotate_debt(), unchanged).
THEOREM IdleIsQuiet == Spec => []QuietSoon
<1>1. Init => QuietInv
  BY DEF Init, QuietInv, QuietAt
<1>2. LedgerInv /\ QuietInv => QuietSoon
  <2> SUFFICES ASSUME LedgerInv, QuietInv, NEW o \in Outputs PROVE busy[o] <= Len(targets[o])
    BY DEF QuietSoon
  <2>1. busy[o] \in Nat /\ Len(targets[o]) \in 1..2
    BY DEF LedgerInv, GhostsTyped, TargetsTyped, TargetTyped
  <2>2. busy[o] > 0 => busy[o] <= Len(targets[o])
    BY DEF QuietInv, QuietAt, Paid
  <2> QED
    BY <2>1, <2>2
<1> QED
  BY <1>1, <1>2, LedgerBegins, LedgerStep, QuietStep, PTL DEF Spec

=============================================================================
