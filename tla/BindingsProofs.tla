---------------------------- MODULE BindingsProofs ----------------------------
(***************************************************************************)
(* The Rust bindings: the geometry of Geometry.tla is sound for all        *)
(* coordinates, and the event stream of EventStream.tla keeps its promises *)
(* for any number of surfaces, windows and outputs; the compositor of      *)
(* MinimalLoop.tla shows every window, however much a dispatch leaves it;  *)
(* and a region of Regions.tla is the set of points it stands for.         *)
(*                                                                         *)
(* The stream's invariant says what each queued record finds true when it  *)
(* is handled (Faith): a first record is about an object the compositor    *)
(* does not know, a later one about an object it knows, a last one about   *)
(* one that is gone, and what exists and is not known has its first record *)
(* still in the queue.                                                     *)
(***************************************************************************)
EXTENDS EventStream, Regions, MinimalLoop, PositionProofs

-----------------------------------------------------------------------------
(* Geometry *)

\* A resize leaves the edges it does not drag, and goes no lower than the least
\* size, nor than one.
LEMMA ResizedAnchors ==
    ASSUME NEW r \in Rects, NEW e \in Edges, NEW dx \in Int, NEW dy \in Int, NEW min \in Points
    PROVE  LET w == Resized(r, e, dx, dy, min) IN
           /\ w \in Rects
           /\ ~DragsLeft(e) => w.x = r.x
           /\ ~DragsTop(e) => w.y = r.y
           /\ ~DragsRight(e) => w.x + w.width = r.x + r.width
           /\ ~DragsBottom(e) => w.y + w.height = r.y + r.height
           /\ DragsLeft(e) \/ DragsRight(e) => w.width >= Bigger(min.x, 1)
           /\ DragsTop(e) \/ DragsBottom(e) => w.height >= Bigger(min.y, 1)
           /\ ~IsEmpty(r) => ~IsEmpty(w)
<1>1. DragsLeft(e) => ~DragsRight(e)
  BY DEF DragsLeft, DragsRight
<1>2. DragsTop(e) => ~DragsBottom(e)
  BY DEF DragsTop, DragsBottom
<1> DEFINE mw == Bigger(min.x, 1)
           mh == Bigger(min.y, 1)
           w == IF DragsLeft(e) THEN Bigger(r.width - dx, mw)
                ELSE IF DragsRight(e) THEN Bigger(r.width + dx, mw) ELSE r.width
           h == IF DragsTop(e) THEN Bigger(r.height - dy, mh)
                ELSE IF DragsBottom(e) THEN Bigger(r.height + dy, mh) ELSE r.height
<1>4. /\ r.x \in Int /\ r.y \in Int /\ r.width \in Int /\ r.height \in Int
      /\ min.x \in Int /\ min.y \in Int
  BY DEF Rects, Points
<1>5. mw \in Int /\ mw >= 1 /\ mh \in Int /\ mh >= 1
  BY <1>4 DEF Bigger
<1> HIDE DEF mw, mh
<1>6. /\ w \in Int /\ (r.width > 0 => w > 0)
      /\ DragsLeft(e) \/ DragsRight(e) => w >= mw
      /\ ~DragsLeft(e) /\ ~DragsRight(e) => w = r.width
  <2>1. /\ Bigger(r.width - dx, mw) \in Int /\ Bigger(r.width - dx, mw) >= mw
        /\ Bigger(r.width + dx, mw) \in Int /\ Bigger(r.width + dx, mw) >= mw
    BY <1>4, <1>5 DEF Bigger
  <2> QED BY <2>1, <1>4, <1>5
<1>7. /\ h \in Int /\ (r.height > 0 => h > 0)
      /\ DragsTop(e) \/ DragsBottom(e) => h >= mh
      /\ ~DragsTop(e) /\ ~DragsBottom(e) => h = r.height
  <2>1. /\ Bigger(r.height - dy, mh) \in Int /\ Bigger(r.height - dy, mh) >= mh
        /\ Bigger(r.height + dy, mh) \in Int /\ Bigger(r.height + dy, mh) >= mh
    BY <1>4, <1>5 DEF Bigger
  <2> QED BY <2>1, <1>4, <1>5
<1>8. Resized(r, e, dx, dy, min)
        = [x |-> IF DragsLeft(e) THEN r.x + r.width - w ELSE r.x,
           y |-> IF DragsTop(e) THEN r.y + r.height - h ELSE r.y,
           width |-> w, height |-> h]
  BY DEF Resized, mw, mh
<1> HIDE DEF w, h
<1>9. Bigger(min.x, 1) = mw /\ Bigger(min.y, 1) = mh
  BY DEF mw, mh
<1> QED BY <1>1, <1>2, <1>4, <1>6, <1>7, <1>8, <1>9 DEF Rects, IsEmpty

\* Rectangles meet where both have points, and nowhere else.
LEMMA MeetAndHull ==
    ASSUME NEW r \in Rects, NEW o \in Rects, NEW p \in Points
    PROVE  /\ RectContains(Intersection(r, o), p) <=> RectContains(r, p) /\ RectContains(o, p)
           /\ Intersects(r, o) <=> ~IsEmpty(Intersection(r, o))
           /\ RectContains(r, p) \/ RectContains(o, p) => RectContains(United(r, o), p)
<1>1. /\ r.x \in Int /\ r.y \in Int /\ r.width \in Int /\ r.height \in Int
      /\ o.x \in Int /\ o.y \in Int /\ o.width \in Int /\ o.height \in Int
      /\ p.x \in Int /\ p.y \in Int
  BY DEF Rects, Points
<1>2. RectContains(Intersection(r, o), p) <=> RectContains(r, p) /\ RectContains(o, p)
  BY <1>1 DEF RectContains, Intersection, Span, Bigger, Smaller
<1>3. Intersects(r, o) <=> ~IsEmpty(Intersection(r, o))
  BY <1>1 DEF Intersects, IsEmpty, Intersection, Span, Bigger, Smaller
<1>4. RectContains(r, p) => ~IsEmpty(r)
  BY <1>1 DEF RectContains, IsEmpty
<1>5. RectContains(o, p) => ~IsEmpty(o)
  BY <1>1 DEF RectContains, IsEmpty
<1>6. RectContains(r, p) \/ RectContains(o, p) => RectContains(Hull(r, o), p)
  BY <1>1 DEF RectContains, Hull, Span, Bigger, Smaller
<1> QED BY <1>2, <1>3, <1>4, <1>5, <1>6 DEF United

\* Inverting undoes turning, and a touch lands on what was drawn there.
LEMMA TurnsUndone ==
    ASSUME NEW t \in Transforms, NEW s \in Points, NEW n \in Int, NEW p \in Points
    PROVE  /\ ApplyPoint(Invert(t), ApplySize(t, s), ApplyPoint(t, s, p)) = p
           /\ UnitPoint(t, n, ApplyPoint(t, [x |-> n, y |-> n], p)) = p
<1>1. s.x \in Int /\ s.y \in Int /\ p.x \in Int /\ p.y \in Int /\ p = [x |-> p.x, y |-> p.y]
  BY DEF Points
<1>2. CASE t = "Normal"
  BY <1>1, <1>2 DEF ApplyPoint, ApplySize, Invert, UnitPoint, SwapsAxes, Flips
<1>3. CASE t = "Rotate90"
  BY <1>1, <1>3 DEF ApplyPoint, ApplySize, Invert, UnitPoint, SwapsAxes, Flips
<1>4. CASE t = "Rotate180"
  BY <1>1, <1>4 DEF ApplyPoint, ApplySize, Invert, UnitPoint, SwapsAxes, Flips
<1>5. CASE t = "Rotate270"
  BY <1>1, <1>5 DEF ApplyPoint, ApplySize, Invert, UnitPoint, SwapsAxes, Flips
<1>6. CASE t = "Flipped"
  BY <1>1, <1>6 DEF ApplyPoint, ApplySize, Invert, UnitPoint, SwapsAxes, Flips
<1>7. CASE t = "Flipped90"
  BY <1>1, <1>7 DEF ApplyPoint, ApplySize, Invert, UnitPoint, SwapsAxes, Flips
<1>8. CASE t = "Flipped180"
  BY <1>1, <1>8 DEF ApplyPoint, ApplySize, Invert, UnitPoint, SwapsAxes, Flips
<1>9. CASE t = "Flipped270"
  BY <1>1, <1>9 DEF ApplyPoint, ApplySize, Invert, UnitPoint, SwapsAxes, Flips
<1> QED BY <1>2, <1>3, <1>4, <1>5, <1>6, <1>7, <1>8, <1>9 DEF Transforms

-----------------------------------------------------------------------------
\* Every value has its type, whatever the coordinates and the distances.
THEOREM GeoTyped == GeoSpec => []GeoTypeOK
<1>1. GeoInit => GeoTypeOK
  <2> SUFFICES ASSUME GeoInit PROVE GeoTypeOK
    OBVIOUS
  <2> USE GeometryAssumption
  <2>1. start \in Rects /\ edges \in Edges
    BY DEF GeoInit, Rects
  <2>2. window \in Rects
    BY <2>1 DEF GeoInit
  <2>3. start.x \in Int /\ start.y \in Int /\ start.width \in Int /\ start.height \in Int
    BY <2>1 DEF Rects
  <2>4. CASE edges # "none"
    <3>1. other \in Rects
      BY <2>1, <2>4 DEF GeoInit
    <3>2. least \in [x : Coords, y : Coords]
      BY <2>4 DEF GeoInit
    <3>3. least \in Points
      BY <3>2 DEF Points
    <3>4. at \in Points
      BY <2>3, <2>4 DEF GeoInit, Points
    <3>5. turned = [by |-> "Normal", size |-> [x |-> start.width, y |-> start.height]]
      BY <2>4 DEF GeoInit
    <3>6. turned \in [by : Transforms, size : Points]
      BY <2>3, <3>5 DEF Points, Transforms
    <3> QED BY <2>1, <2>2, <3>1, <3>3, <3>4, <3>6 DEF GeoTypeOK
  <2>5. CASE edges = "none"
    <3>1. other \in Rects
      BY <2>5 DEF GeoInit, Rects
    <3>2. least \in Points
      BY <2>3, <2>5 DEF GeoInit, Points
    <3>3. at \in [x : Coords, y : Coords]
      BY <2>5 DEF GeoInit
    <3>4. at \in Points
      BY <3>3 DEF Points
    <3>5. turned \in [by : Transforms, size : Points]
      BY <2>5 DEF GeoInit, Points
    <3> QED BY <2>1, <2>2, <3>1, <3>2, <3>4, <3>5 DEF GeoTypeOK
  <2> QED BY <2>4, <2>5
<1>2. GeoTypeOK /\ [GeoNext]_geoVars => GeoTypeOK'
  <2> SUFFICES ASSUME GeoTypeOK, [GeoNext]_geoVars PROVE GeoTypeOK'
    OBVIOUS
  <2>1. CASE UNCHANGED geoVars
    BY <2>1 DEF GeoTypeOK, geoVars
  <2>2. ASSUME NEW dx \in Travel, NEW dy \in Travel, Drag(dx, dy) PROVE GeoTypeOK'
    <3>1. dx \in Int /\ dy \in Int
      BY GeometryAssumption
    <3>2. window' \in Rects
      BY <2>2, <3>1, ResizedAnchors DEF Drag, GeoTypeOK
    <3> QED BY <2>2, <3>2 DEF Drag, GeoTypeOK
  <2> QED BY <2>1, <2>2 DEF GeoNext
<1> QED BY <1>1, <1>2, PTL DEF GeoSpec

\* Resizes anchor, rectangles are sets of points, and turning is undone, for
\* every rectangle, transform and point, not only those the run tries.
THEOREM GeometryHolds == GeoSpec => []GeometrySound
<1>1. GeoTypeOK /\ GeoInit => AnchorHolds
  BY DEF GeoInit, GeoTypeOK, AnchorHolds, Rects, IsEmpty
<1>2. GeoTypeOK /\ AnchorHolds /\ [GeoNext]_geoVars => AnchorHolds'
  <2> SUFFICES ASSUME GeoTypeOK, AnchorHolds, [GeoNext]_geoVars PROVE AnchorHolds'
    OBVIOUS
  <2>1. CASE UNCHANGED geoVars
    BY <2>1 DEF AnchorHolds, geoVars
  <2>2. ASSUME NEW dx \in Travel, NEW dy \in Travel, Drag(dx, dy) PROVE AnchorHolds'
    <3>1. dx \in Int /\ dy \in Int /\ start \in Rects /\ edges \in Edges /\ least \in Points
      BY GeometryAssumption DEF GeoTypeOK
    <3>2. /\ window' = Resized(start, edges, dx, dy, least)
          /\ start' = start /\ edges' = edges /\ least' = least
      BY <2>2 DEF Drag
    <3> QED BY <3>1, <3>2, ResizedAnchors DEF AnchorHolds
  <2> QED BY <2>1, <2>2 DEF GeoNext
<1>3. GeoTypeOK => RectsAreSets
  BY MeetAndHull DEF GeoTypeOK, RectsAreSets
<1>4. GeoTypeOK => TurnsAgree
  <2> SUFFICES ASSUME GeoTypeOK PROVE TurnsAgree
    OBVIOUS
  <2>1. /\ turned.by \in Transforms /\ turned.size \in Points /\ turned.size.x \in Int
        /\ at \in Points
    BY DEF GeoTypeOK, Points
  <2> QED BY <2>1, TurnsUndone DEF TurnsAgree
<1> QED BY <1>1, <1>2, <1>3, <1>4, GeoTyped, PTL DEF GeoSpec, GeometrySound

-----------------------------------------------------------------------------
(* Queues of events, over the lives of the objects they name *)

Names == SurfaceIds \cup Heads

\* What an event is about: the surface or the output it names.
About(e, n) == e.family # "Window" /\ e.says # "invalid" /\ e.name = n

New(e, n) == e.says = "new" /\ About(e, n)

\* The i-th event, against what its name has been through: R and G are the objects
\* that exist and existed, K and L those believed in and given up.
OnItsWay(q, i, n, R, G, K, L) ==
    /\ q[i].says = "new" =>
          /\ n \in (R \cup G) \ (K \cup L)
          /\ \A j \in 1..(i - 1) : ~About(q[j], n)
    /\ q[i].says # "new" => n \in K \/ \E j \in 1..(i - 1) : New(q[j], n)
    /\ q[i].says = "gone" =>
          /\ n \in G
          /\ \A j \in (i + 1)..Len(q) : ~About(q[j], n)

InTurn(q, R, G, K, L) ==
    \A i \in 1..Len(q), n \in Names : About(q[i], n) => OnItsWay(q, i, n, R, G, K, L)

\* A late but faithful copy: what is believed was true, and what is true is believed
\* or will be heard of.
Copied(q, R, G, K, L) ==
    /\ R \subseteq Names /\ G \subseteq Names /\ R \cap G = {}
    /\ K \subseteq R \cup G /\ L \subseteq R \cup G /\ K \cap L = {}
    /\ \A n \in R : n \in K \/ \E i \in 1..Len(q) : New(q[i], n)

Faith(q, R, G, K, L) ==
    q \in Seq(HubRecord) /\ InTurn(q, R, G, K, L) /\ Copied(q, R, G, K, L)

\* What is on its way is about something that exists or existed.
LEMMA NothingInvented ==
    ASSUME NEW q, NEW R, NEW G, NEW K, NEW L, Faith(q, R, G, K, L),
           NEW i \in 1..Len(q), NEW n \in Names, About(q[i], n)
    PROVE  n \in R \cup G
<1>1. OnItsWay(q, i, n, R, G, K, L)
  BY DEF Faith, InTurn
<1>2. CASE q[i].says = "new"
  BY <1>1, <1>2 DEF OnItsWay
<1>3. CASE n \in K
  BY <1>3 DEF Faith, Copied
<1>4. ASSUME NEW j \in 1..(i - 1), New(q[j], n)
      PROVE  n \in R \cup G
  <2>1. j \in 1..Len(q) /\ About(q[j], n) /\ q[j].says = "new"
    BY <1>4 DEF New, Faith
  <2>2. OnItsWay(q, j, n, R, G, K, L)
    BY <2>1 DEF Faith, InTurn
  <2> QED
    BY <2>1, <2>2 DEF OnItsWay
<1> QED
  BY <1>1, <1>2, <1>3, <1>4 DEF OnItsWay

\* Nothing about an object that exists says that it is gone.
LEMMA NotGoneYet ==
    ASSUME NEW q, NEW R, NEW G, NEW K, NEW L, Faith(q, R, G, K, L),
           NEW i \in 1..Len(q), NEW n \in R, About(q[i], n)
    PROVE  q[i].says # "gone"
<1>1. n \in Names /\ n \notin G
  BY DEF Faith, Copied
<1> QED
  BY <1>1 DEF Faith, InTurn, OnItsWay

LEMMA Appended ==
    ASSUME NEW q \in Seq(HubRecord), NEW e \in HubRecord, NEW p, p = Append(q, e)
    PROVE  /\ p \in Seq(HubRecord) /\ Len(p) = Len(q) + 1 /\ Len(q) \in Nat
           /\ \A i \in 1..Len(q) : p[i] = q[i]
           /\ p[Len(q) + 1] = e
  OBVIOUS

\* An event that is about no surface and no output.
LEMMA PushAside ==
    ASSUME NEW q, NEW R, NEW G, NEW K, NEW L, Faith(q, R, G, K, L),
           NEW e \in HubRecord, \A n : ~About(e, n)
    PROVE  Faith(Append(q, e), R, G, K, L)
<1> PICK p : p = Append(q, e)
  OBVIOUS
<1>1. /\ p \in Seq(HubRecord) /\ Len(p) = Len(q) + 1 /\ Len(q) \in Nat
      /\ \A i \in 1..Len(q) : p[i] = q[i]
      /\ p[Len(q) + 1] = e
  BY Appended DEF Faith
<1>2. ASSUME NEW i \in 1..Len(p), NEW n \in Names, About(p[i], n)
      PROVE  OnItsWay(p, i, n, R, G, K, L)
  <2>1. i \in 1..Len(q) /\ About(q[i], n)
    BY <1>1, <1>2
  <2>2. OnItsWay(q, i, n, R, G, K, L)
    BY <2>1 DEF Faith, InTurn
  <2> QED
    BY <1>1, <2>1, <2>2 DEF OnItsWay
<1>3. Copied(p, R, G, K, L)
  <2>1. ASSUME NEW n \in R, n \notin K PROVE \E i \in 1..Len(p) : New(p[i], n)
    <3>1. PICK i \in 1..Len(q) : New(q[i], n)
      BY <2>1 DEF Faith, Copied
    <3> QED
      BY <1>1, <3>1
  <2> QED
    BY <2>1 DEF Faith, Copied
<1> QED
  BY <1>1, <1>2, <1>3 DEF Faith, InTurn

\* The first event about an object that is made.
LEMMA PushNew ==
    ASSUME NEW q, NEW R, NEW G, NEW K, NEW L, Faith(q, R, G, K, L),
           NEW n \in Names, n \notin R \cup G, NEW e \in HubRecord, New(e, n)
    PROVE  Faith(Append(q, e), R \cup {n}, G, K, L)
<1> PICK p : p = Append(q, e)
  OBVIOUS
<1> PICK S : S = R \cup {n}
  OBVIOUS
<1>1. /\ p \in Seq(HubRecord) /\ Len(p) = Len(q) + 1 /\ Len(q) \in Nat
      /\ \A i \in 1..Len(q) : p[i] = q[i]
      /\ p[Len(q) + 1] = e
  BY Appended DEF Faith
<1>2. n \notin K \cup L /\ \A i \in 1..Len(q) : ~About(q[i], n)
  BY NothingInvented DEF Faith, Copied
<1>3. ASSUME NEW i \in 1..Len(p), NEW m \in Names, About(p[i], m)
      PROVE  OnItsWay(p, i, m, S, G, K, L)
  <2>1. CASE i \in 1..Len(q)
    <3>1. m # n /\ OnItsWay(q, i, m, R, G, K, L)
      BY <1>1, <1>2, <1>3, <2>1 DEF Faith, InTurn
    <3>2. ~About(e, m)
      BY <3>1 DEF New, About
    <3> QED
      BY <1>1, <2>1, <3>1, <3>2 DEF OnItsWay
  <2>2. CASE i = Len(q) + 1
    <3>1. m = n /\ p[i].says = "new"
      BY <1>1, <1>3, <2>2 DEF New, About
    <3> QED
      BY <1>1, <1>2, <2>2, <3>1 DEF OnItsWay
  <2> QED
    BY <1>1, <2>1, <2>2
<1>4. Copied(p, S, G, K, L)
  <2>1. ASSUME NEW m \in S, m \notin K PROVE \E i \in 1..Len(p) : New(p[i], m)
    <3>1. CASE m = n
      BY <1>1, <3>1
    <3>2. CASE m # n
      <4>1. PICK i \in 1..Len(q) : New(q[i], m)
        BY <2>1, <3>2 DEF Faith, Copied
      <4> QED
        BY <1>1, <4>1
    <3> QED
      BY <3>1, <3>2
  <2> QED
    BY <2>1 DEF Faith, Copied
<1> QED
  BY <1>1, <1>3, <1>4 DEF Faith, InTurn

\* Another event about an object that exists, or its last one.
LEMMA PushMore ==
    ASSUME NEW q, NEW R, NEW G, NEW K, NEW L, Faith(q, R, G, K, L),
           NEW n \in R, NEW e \in HubRecord, About(e, n), e.says # "new",
           NEW S, NEW H,
           \/ e.says # "gone" /\ S = R /\ H = G
           \/ S = R \ {n} /\ H = G \cup {n}
    PROVE  Faith(Append(q, e), S, H, K, L)
<1> PICK p : p = Append(q, e)
  OBVIOUS
<1>1. /\ p \in Seq(HubRecord) /\ Len(p) = Len(q) + 1 /\ Len(q) \in Nat
      /\ \A i \in 1..Len(q) : p[i] = q[i]
      /\ p[Len(q) + 1] = e
  BY Appended DEF Faith
<1>2. n \in K \/ \E j \in 1..Len(q) : New(q[j], n)
  BY DEF Faith, Copied
<1>3. G \subseteq H /\ S \cup H = R \cup G /\ (e.says = "gone" => n \in H)
  OBVIOUS
<1>4. ASSUME NEW i \in 1..Len(p), NEW m \in Names, About(p[i], m)
      PROVE  OnItsWay(p, i, m, S, H, K, L)
  <2>1. CASE i \in 1..Len(q)
    <3>1. OnItsWay(q, i, m, R, G, K, L) /\ (m \in R => q[i].says # "gone")
      BY <1>1, <1>4, <2>1, NotGoneYet DEF Faith, InTurn
    <3>2. q[i].says = "gone" => ~About(e, m)
      BY <3>1 DEF About
    <3> QED
      BY <1>1, <1>3, <2>1, <3>1, <3>2 DEF OnItsWay
  <2>2. CASE i = Len(q) + 1
    <3>1. m = n /\ p[i] = e
      BY <1>1, <1>4, <2>2 DEF About
    <3>2. n \in K \/ \E j \in 1..(i - 1) : New(p[j], n)
      BY <1>1, <1>2, <2>2
    <3> QED
      BY <1>1, <1>3, <2>2, <3>1, <3>2 DEF OnItsWay
  <2> QED
    BY <1>1, <2>1, <2>2
<1>5. Copied(p, S, H, K, L)
  <2>1. ASSUME NEW m \in S, m \notin K PROVE \E i \in 1..Len(p) : New(p[i], m)
    <3>1. PICK i \in 1..Len(q) : New(q[i], m)
      BY <2>1 DEF Faith, Copied
    <3> QED
      BY <1>1, <3>1
  <2> QED
    BY <2>1 DEF Faith, Copied
<1> QED
  BY <1>1, <1>4, <1>5 DEF Faith, InTurn

-----------------------------------------------------------------------------
(* Handling the oldest event *)

LEMMA Behind ==
    ASSUME NEW q \in Seq(HubRecord), q # <<>>, NEW t, t = Tail(q)
    PROVE  /\ t \in Seq(HubRecord) /\ Len(q) \in Nat /\ Len(q) >= 1 /\ Len(t) = Len(q) - 1
           /\ Head(q) = q[1] /\ q[1] \in HubRecord
           /\ \A i \in 1..Len(t) : t[i] = q[i + 1] /\ i + 1 \in 1..Len(q)
  OBVIOUS

\* What the oldest event does to what is believed.
LEMMA HandleOldest ==
    ASSUME NEW q, NEW R, NEW G, NEW K, NEW L, Faith(q, R, G, K, L), q # <<>>,
           NEW M, NEW N,
           M = (IF q[1].says = "new" THEN K \cup {n \in Names : About(q[1], n)}
                ELSE IF q[1].says = "gone" THEN K \ {n \in Names : About(q[1], n)} ELSE K),
           N = (IF q[1].says = "gone" THEN L \cup {n \in Names : About(q[1], n)} ELSE L)
    PROVE  /\ Faith(Tail(q), R, G, M, N)
           /\ \A n \in Names : About(q[1], n) =>
                 /\ q[1].says = "new" => n \in (R \cup G) \ (K \cup L)
                 /\ q[1].says # "new" => n \in K
                 /\ q[1].says = "gone" => n \in G
<1> PICK t : t = Tail(q)
  OBVIOUS
<1>1. /\ t \in Seq(HubRecord) /\ Len(q) \in Nat /\ Len(q) >= 1 /\ Len(t) = Len(q) - 1
      /\ \A i \in 1..Len(t) : t[i] = q[i + 1] /\ i + 1 \in 1..Len(q)
  BY Behind DEF Faith
<1>2. ASSUME NEW n \in Names, About(q[1], n)
      PROVE  OnItsWay(q, 1, n, R, G, K, L)
  BY <1>1, <1>2 DEF Faith, InTurn
<1>3. ASSUME NEW n \in Names, About(q[1], n)
      PROVE  /\ q[1].says = "new" => n \in (R \cup G) \ (K \cup L)
             /\ q[1].says # "new" => n \in K
             /\ q[1].says = "gone" => n \in G
  BY <1>1, <1>2, <1>3 DEF OnItsWay
<1>4. ASSUME NEW i \in 1..Len(t), NEW n \in Names, About(t[i], n)
      PROVE  OnItsWay(t, i, n, R, G, M, N)
  <2>1. /\ i \in Nat /\ i + 1 \in 1..Len(q) /\ t[i] = q[i + 1] /\ Len(t) \in Nat
        /\ About(q[i + 1], n)
    BY <1>1, <1>4
  <2>2. OnItsWay(q, i + 1, n, R, G, K, L)
    BY <2>1 DEF Faith, InTurn
  <2>3. ASSUME t[i].says = "new"
        PROVE  n \in (R \cup G) \ (M \cup N) /\ \A j \in 1..(i - 1) : ~About(t[j], n)
    <3>1. n \in (R \cup G) \ (K \cup L) /\ \A j \in 1..i : ~About(q[j], n)
      BY <2>1, <2>2, <2>3 DEF OnItsWay
    <3>2. ~About(q[1], n)
      BY <2>1, <3>1
    <3>3. \A j \in 1..(i - 1) : ~About(t[j], n)
      BY <1>1, <2>1, <3>1
    <3> QED
      BY <3>1, <3>2, <3>3
  <2>4. ASSUME t[i].says # "new"
        PROVE  n \in M \/ \E j \in 1..(i - 1) : New(t[j], n)
    <3>1. n \in K \/ \E j \in 1..i : New(q[j], n)
      BY <2>1, <2>2, <2>4 DEF OnItsWay
    <3>2. CASE n \in K
      <4>1. q[1].says = "gone" => ~About(q[1], n)
        <5>1. ASSUME q[1].says = "gone", About(q[1], n) PROVE FALSE
          <6>1. \A j \in 2..Len(q) : ~About(q[j], n)
            BY <1>2, <5>1 DEF OnItsWay
          <6>2. i + 1 \in 2..Len(q)
            BY <2>1
          <6> QED
            BY <2>1, <6>1, <6>2
        <5> QED
          BY <5>1
      <4> QED
        BY <3>2, <4>1
    <3>3. ASSUME NEW j \in 1..i, New(q[j], n)
          PROVE  n \in M \/ \E k \in 1..(i - 1) : New(t[k], n)
      <4>1. CASE j = 1
        BY <3>3, <4>1 DEF New
      <4>2. CASE j # 1
        <5>1. j - 1 \in 1..(i - 1) /\ j - 1 \in 1..Len(t) /\ (j - 1) + 1 = j
          BY <2>1, <4>2
        <5>2. t[j - 1] = q[j]
          BY <1>1, <5>1
        <5> QED
          BY <3>3, <5>1, <5>2
      <4> QED
        BY <4>1, <4>2
    <3> QED
      BY <3>1, <3>2, <3>3
  <2>5. ASSUME t[i].says = "gone"
        PROVE  n \in G /\ \A j \in (i + 1)..Len(t) : ~About(t[j], n)
    <3>1. n \in G /\ \A j \in (i + 2)..Len(q) : ~About(q[j], n)
      <4>1. n \in G /\ \A j \in ((i + 1) + 1)..Len(q) : ~About(q[j], n)
        BY <2>1, <2>2, <2>5 DEF OnItsWay
      <4>2. (i + 1) + 1 = i + 2
        BY <2>1
      <4> QED
        BY <4>1, <4>2
    <3>2. ASSUME NEW j \in (i + 1)..Len(t) PROVE ~About(t[j], n)
      <4>1. j \in 1..Len(t) /\ j + 1 \in (i + 2)..Len(q)
        BY <1>1, <2>1
      <4> QED
        BY <1>1, <3>1, <4>1
    <3> QED
      BY <3>1, <3>2
  <2> QED
    BY <2>3, <2>4, <2>5 DEF OnItsWay
<1>5. Copied(t, R, G, M, N)
  <2>1. M \subseteq R \cup G /\ N \subseteq R \cup G /\ M \cap N = {}
    BY <1>3 DEF Faith, Copied
  <2>2. ASSUME NEW n \in R
        PROVE  n \in M \/ \E i \in 1..Len(t) : New(t[i], n)
    <3>1. n \in Names /\ n \notin G
      BY DEF Faith, Copied
    <3>2. CASE n \in K
      BY <1>3, <3>1, <3>2
    <3>3. ASSUME NEW i \in 1..Len(q), New(q[i], n)
          PROVE  n \in M \/ \E k \in 1..Len(t) : New(t[k], n)
      <4>1. CASE i = 1
        BY <3>1, <3>3, <4>1 DEF New
      <4>2. CASE i # 1
        <5>1. i - 1 \in 1..Len(t) /\ (i - 1) + 1 = i
          BY <1>1, <4>2
        <5>2. t[i - 1] = q[i]
          BY <1>1, <5>1
        <5> QED
          BY <3>3, <5>1, <5>2
      <4> QED
        BY <4>1, <4>2
    <3> QED
      BY <3>2, <3>3 DEF Faith, Copied
  <2> QED
    BY <2>1, <2>2 DEF Faith, Copied
<1> QED
  BY <1>1, <1>3, <1>4, <1>5 DEF Faith, InTurn

-----------------------------------------------------------------------------
(* The stream *)

\* The surfaces and outputs that exist, and those that existed.
Real == {n \in SurfaceIds : registry[n[1]].alive /\ registry[n[1]].gen = n[2]}
            \cup {o \in Heads : outputs[o].lit = "lit"}
Gone == {n \in SurfaceIds : n[2] < registry[n[1]].gen}
            \cup {o \in Heads : outputs[o].lit = "gone"}

\* An id that was handed out lies within the bound.
IdsBounded == \A s \in Slots : registry[s].alive => registry[s].gen <= MaxGen

\* A surface is found in the shim's map under one window at a time.
OneWindow ==
    /\ \A v, w \in Windows :
          windows[v].watched /\ windows[w].watched /\ windows[v].name = windows[w].name => v = w
    /\ \A w \in Windows : windows[w].name = None => ~windows[w].alive /\ ~windows[w].watched

StreamInv ==
    /\ StreamTypeOK
    /\ IdsBounded
    /\ Faith(Queued, Real, Gone, known, lost)
    /\ OneWindow
    /\ SuccessorAnnounced

\* What a step may do to the objects and to what is believed of them.
Lived ==
    \/ /\ Real' = Real /\ Gone' = Gone
       /\ \/ UNCHANGED belief
          \/ UNCHANGED <<known, lost>> /\ heard' = {}
    \/ /\ UNCHANGED belief
       /\ \E n \in Names : \/ n \notin Real \cup Gone /\ Real' = Real \cup {n} /\ Gone' = Gone
                           \/ n \in Real /\ Real' = Real \ {n} /\ Gone' = Gone \cup {n}
    \/ /\ Real' = Real /\ Gone' = Gone
       /\ \E n \in Names :
             /\ heard' = {n}
             /\ \/ /\ n \in (Real \cup Gone) \ (known \cup lost)
                   /\ known' = known \cup {n} /\ lost' = lost
                \/ n \in known /\ UNCHANGED <<known, lost>>
                \/ n \in known \cap Gone /\ known' = known \ {n} /\ lost' = lost \cup {n}

LEMMA Concatenated ==
    ASSUME NEW b \in Seq(HubRecord), NEW h \in Seq(HubRecord), NEW e \in HubRecord
    PROVE  /\ h \o <<e>> \in Seq(HubRecord) /\ b \o h \in Seq(HubRecord)
           /\ b \o (h \o <<e>>) = Append(b \o h, e)
<1>1. h \o <<e>> = Append(h, e) /\ Append(h, e) \in Seq(HubRecord) /\ b \o h \in Seq(HubRecord)
  OBVIOUS
<1>2. b \o Append(h, e) = Append(b \o h, e)
  OBVIOUS
<1> QED
  BY <1>1, <1>2

LEMMA ConcatenatedTwice ==
    ASSUME NEW b \in Seq(HubRecord), NEW h \in Seq(HubRecord), NEW e \in HubRecord,
           NEW f \in HubRecord
    PROVE  /\ h \o <<e, f>> \in Seq(HubRecord)
           /\ b \o (h \o <<e, f>>) = Append(Append(b \o h, e), f)
<1>1. h \o <<e, f>> = Append(Append(h, e), f)
  OBVIOUS
<1>2. Append(h, e) \in Seq(HubRecord) /\ Append(Append(h, e), f) \in Seq(HubRecord)
  OBVIOUS
<1>3. /\ b \o Append(Append(h, e), f) = Append(b \o Append(h, e), f)
      /\ b \o Append(h, e) = Append(b \o h, e)
  BY <1>2
<1> QED
  BY <1>1, <1>2, <1>3

\* One record, or two, join the queue at its end.
LEMMA Pushes ==
    ASSUME StreamTypeOK, NEW e \in HubRecord, Push(<<e>>)
    PROVE  /\ hub' \in Seq(HubRecord) /\ batch' \in Seq(HubRecord) /\ UNCHANGED belief
           /\ Queued' = Append(Queued, e) /\ Queued \in Seq(HubRecord)
  BY Concatenated DEF StreamTypeOK, Push, Queued

LEMMA PushesTwo ==
    ASSUME StreamTypeOK, NEW e \in HubRecord, NEW f \in HubRecord, Push(<<e, f>>)
    PROVE  /\ hub' \in Seq(HubRecord) /\ batch' \in Seq(HubRecord) /\ UNCHANGED belief
           /\ Queued' = Append(Append(Queued, e), f)
           /\ Queued \in Seq(HubRecord) /\ Append(Queued, e) \in Seq(HubRecord)
  BY Concatenated, ConcatenatedTwice DEF StreamTypeOK, Push, Queued

-----------------------------------------------------------------------------
(* Windows and their successors *)

\* SuccessorAnnounced of a queue q and the windows ws.
Followed(q, ws) ==
    \A i \in 1..Len(q), w \in Windows :
        q[i].family = "Window" /\ ws[w].watched /\ ws[w].name = q[i].name /\ w # q[i].of =>
            \E j \in (i + 1)..Len(q) : q[j].says = "new" /\ q[j].of = w

LEMMA FollowedIs == SuccessorAnnounced <=> Followed(Queued, windows)
  BY DEF SuccessorAnnounced, Followed, Found

\* A record is added, of a window that is alone with its name if it is of one; a
\* window that is found now and was not before is the one the record announces.
LEMMA SuccessorsPushed ==
    ASSUME NEW q \in Seq(HubRecord), NEW e \in HubRecord, NEW ws, NEW vs, Followed(q, ws),
           \A w \in Windows : vs[w].watched =>
              \/ ws[w].watched /\ ws[w].name = vs[w].name
              \/ e.says = "new" /\ e.of = w,
           e.family = "Window" =>
              \A w \in Windows : vs[w].watched /\ vs[w].name = e.name => w = e.of
    PROVE  Followed(Append(q, e), vs)
<1> PICK p : p = Append(q, e)
  OBVIOUS
<1>1. /\ p \in Seq(HubRecord) /\ Len(p) = Len(q) + 1 /\ Len(q) \in Nat
      /\ \A i \in 1..Len(q) : p[i] = q[i]
      /\ p[Len(q) + 1] = e
  BY Appended
<1>2. ASSUME NEW i \in 1..Len(p), NEW w \in Windows, p[i].family = "Window",
             vs[w].watched, vs[w].name = p[i].name, w # p[i].of
      PROVE  \E j \in (i + 1)..Len(p) : p[j].says = "new" /\ p[j].of = w
  <2>1. i \in 1..Len(q)
    <3>1. ASSUME i = Len(q) + 1 PROVE FALSE
      BY <1>1, <1>2, <3>1
    <3> QED
      BY <1>1, <3>1
  <2>2. p[i] = q[i]
    BY <1>1, <2>1
  <2>3. CASE e.says = "new" /\ e.of = w
    BY <1>1, <2>1, <2>3
  <2>4. CASE ~(e.says = "new" /\ e.of = w)
    <3>1. PICK j \in (i + 1)..Len(q) : q[j].says = "new" /\ q[j].of = w
      BY <1>2, <2>1, <2>2, <2>4 DEF Followed
    <3>2. j \in (i + 1)..Len(p) /\ p[j] = q[j]
      BY <1>1, <2>1
    <3> QED
      BY <3>1, <3>2
  <2> QED
    BY <2>3, <2>4
<1> QED
  BY <1>2 DEF Followed

LEMMA SuccessorsHandled ==
    ASSUME NEW q \in Seq(HubRecord), q # <<>>, NEW ws, Followed(q, ws)
    PROVE  Followed(Tail(q), ws)
<1> PICK t : t = Tail(q)
  OBVIOUS
<1>1. /\ t \in Seq(HubRecord) /\ Len(q) \in Nat /\ Len(q) >= 1 /\ Len(t) = Len(q) - 1
      /\ \A i \in 1..Len(t) : t[i] = q[i + 1] /\ i + 1 \in 1..Len(q)
  BY Behind
<1>2. ASSUME NEW i \in 1..Len(t), NEW w \in Windows, t[i].family = "Window",
             ws[w].watched, ws[w].name = t[i].name, w # t[i].of
      PROVE  \E j \in (i + 1)..Len(t) : t[j].says = "new" /\ t[j].of = w
  <2>1. t[i] = q[i + 1] /\ i + 1 \in 1..Len(q) /\ i \in Nat
    BY <1>1
  <2>2. PICK k \in ((i + 1) + 1)..Len(q) : q[k].says = "new" /\ q[k].of = w
    BY <1>2, <2>1 DEF Followed
  <2>3. k - 1 \in (i + 1)..Len(t) /\ k - 1 \in 1..Len(t) /\ (k - 1) + 1 = k
    BY <1>1, <2>1
  <2>4. t[k - 1] = q[k]
    BY <1>1, <2>3
  <2> QED
    BY <2>2, <2>3, <2>4
<1> QED
  BY SMTT(30), <1>2 DEF Followed

-----------------------------------------------------------------------------
(* Every step keeps the stream's promises *)

\* What a step does to windows that it does not touch.
LEMMA SameWindows ==
    ASSUME UNCHANGED windows, OneWindow
    PROVE  OneWindow'
  BY DEF OneWindow

LEMMA SameWorld ==
    ASSUME UNCHANGED <<registry, outputs>>
    PROVE  Real' = Real /\ Gone' = Gone
  BY DEF Real, Gone

LEMMA StaysLived ==
    ASSUME Real' = Real, Gone' = Gone, UNCHANGED belief
    PROVE  Lived
  BY DEF Lived

\* A record about no window, when windows stay as they are.
LEMMA NoWindowPushed ==
    ASSUME NEW e \in HubRecord, NEW q \in Seq(HubRecord), e.family # "Window",
           Followed(q, windows)
    PROVE  Followed(Append(q, e), windows)
  BY SuccessorsPushed

LEMMA FollowedThen == SuccessorAnnounced' <=> Followed(Queued', windows')
  BY DEF SuccessorAnnounced, Followed, Found

LEMMA RecIs ==
    ASSUME NEW f \in Families, NEW says \in {"new", "more", "gone", "invalid"}, NEW n \in Names,
           NEW of \in SurfaceIds \cup Heads \cup Windows
    PROVE  LET e == Rec(f, says, n, of)
           IN e \in HubRecord /\ e.family = f /\ e.says = says /\ e.name = n /\ e.of = of
  BY DEF Rec, HubRecord, Names

LEMMA CreateSurfaceStep ==
    ASSUME StreamInv, NEW s \in Slots, CreateSurface(s)
    PROVE  StreamInv' /\ Lived
<1> PICK n : n = SurfaceId(s)
  OBVIOUS
<1> PICK e : e = Rec("Surface", "new", n, n)
  OBVIOUS
<1>1. /\ n = <<s, registry[s].gen>> /\ n \in SurfaceIds /\ n \in Names
      /\ registry[s].gen \in 1..MaxGen /\ ~registry[s].alive
      /\ registry[s] \in [gen : 1..(MaxGen + 1), alive : BOOLEAN]
  BY StreamAssumption DEF CreateSurface, StreamInv, StreamTypeOK, SurfaceId, SurfaceIds, Names
<1>2. e \in HubRecord /\ e.family = "Surface" /\ New(e, n)
  BY <1>1, RecIs DEF New, About, Families
<1>3. /\ hub' \in Seq(HubRecord) /\ batch' \in Seq(HubRecord) /\ UNCHANGED belief
      /\ Queued' = Append(Queued, e) /\ Queued \in Seq(HubRecord)
  BY <1>2, Pushes DEF StreamInv, CreateSurface
<1>4. UNCHANGED <<windows, outputs, known, lost, heard>>
  BY <1>3 DEF CreateSurface, belief
<1>5. /\ registry' \in [Slots -> [gen : 1..(MaxGen + 1), alive : BOOLEAN]]
      /\ \A t \in Slots : registry'[t].gen = registry[t].gen
      /\ \A t \in Slots : registry'[t].alive <=> registry[t].alive \/ t = s
  BY <1>1 DEF CreateSurface, StreamInv, StreamTypeOK
<1>6. n \notin Real \cup Gone /\ Gone' = Gone /\ Real' = Real \cup {n}
  <2>1. n \notin Heads
    BY <1>1, NamesAssumption
  <2>2. n \notin Real \cup Gone
    BY <1>1, <2>1 DEF Real, Gone
  <2>3. Gone' = Gone
    BY <1>4, <1>5 DEF Gone, SurfaceIds
  <2>4. Real' = Real \cup {n}
    BY <1>1, <1>4, <1>5 DEF Real, SurfaceIds
  <2> QED
    BY <2>2, <2>3, <2>4
<1>7. Faith(Queued, Real, Gone, known, lost)'
  <2>1. Faith(Append(Queued, e), Real \cup {n}, Gone, known, lost)
    BY <1>1, <1>2, <1>6, PushNew DEF StreamInv
  <2> QED
    BY <1>3, <1>4, <1>6, <2>1
<1>8. SuccessorAnnounced' /\ OneWindow'
  <2>1. Followed(Append(Queued, e), windows)
    BY <1>2, <1>3, NoWindowPushed, FollowedIs DEF StreamInv
  <2>2. Followed(Queued, windows)'
    BY <1>3, <1>4, <2>1
  <2> QED
    BY <1>4, <2>2, SameWindows, FollowedThen DEF StreamInv
<1>9. StreamTypeOK' /\ IdsBounded'
  BY <1>1, <1>3, <1>4, <1>5 DEF StreamInv, StreamTypeOK, IdsBounded
<1>10. Lived
  BY <1>1, <1>3, <1>6 DEF Lived
<1> QED
  BY <1>7, <1>8, <1>9, <1>10 DEF StreamInv

\* A record about a surface or an output that exists, and nothing else changes.
LEMMA MoreStep ==
    ASSUME StreamInv, NEW f \in {"Surface", "Output"}, NEW n \in Real,
           Push(<<Rec(f, "more", n, n)>>), UNCHANGED <<registry, windows, outputs>>
    PROVE  StreamInv' /\ Lived
<1> PICK e : e = Rec(f, "more", n, n)
  OBVIOUS
<1>1. n \in Names
  BY DEF Names, Real
<1>2. e \in HubRecord /\ e.family # "Window" /\ About(e, n) /\ e.says = "more"
  BY <1>1, RecIs DEF About, Families, Names
<1>3. /\ hub' \in Seq(HubRecord) /\ batch' \in Seq(HubRecord) /\ UNCHANGED belief
      /\ Queued' = Append(Queued, e) /\ Queued \in Seq(HubRecord)
  BY <1>2, Pushes DEF StreamInv
<1>4. UNCHANGED <<known, lost, heard>> /\ Real' = Real /\ Gone' = Gone
  BY <1>3, SameWorld DEF belief
<1>5. Faith(Append(Queued, e), Real, Gone, known, lost)
  BY <1>2, PushMore DEF StreamInv
<1>6. Followed(Append(Queued, e), windows)
  BY <1>2, <1>3, NoWindowPushed, FollowedIs DEF StreamInv
<1>7. Faith(Queued, Real, Gone, known, lost)' /\ SuccessorAnnounced'
  BY <1>3, <1>4, <1>5, <1>6, FollowedThen
<1>8. StreamTypeOK' /\ IdsBounded'
  BY <1>3, <1>4 DEF StreamInv, StreamTypeOK, IdsBounded
<1>9. Lived
  BY <1>3, <1>4, StaysLived
<1> QED
  BY <1>7, <1>8, <1>9, SameWindows DEF StreamInv

LEMMA LiveIsReal ==
    ASSUME StreamTypeOK, IdsBounded, NEW s \in Slots, registry[s].alive
    PROVE  SurfaceId(s) \in Real /\ SurfaceId(s) \in SurfaceIds
<1>1. registry[s].gen \in 1..MaxGen
  BY StreamAssumption DEF StreamTypeOK, IdsBounded
<1> QED
  BY <1>1 DEF SurfaceId, SurfaceIds, Real

LEMMA CommitSurfaceStep ==
    ASSUME StreamInv, NEW s \in Slots, CommitSurface(s)
    PROVE  StreamInv' /\ Lived
  BY MoreStep, LiveIsReal DEF CommitSurface, StreamInv

LEMMA OutputFrameStep ==
    ASSUME StreamInv, NEW o \in Heads, OutputFrame(o)
    PROVE  StreamInv' /\ Lived
<1>1. o \in Real
  BY DEF OutputFrame, Listening, Real
<1> QED
  BY <1>1, MoreStep DEF OutputFrame

LEMMA DestroySurfaceStep ==
    ASSUME StreamInv, NEW s \in Slots, DestroySurface(s)
    PROVE  StreamInv' /\ Lived
<1> PICK n : n = SurfaceId(s)
  OBVIOUS
<1> PICK e : e = Rec("Surface", "gone", n, n)
  OBVIOUS
<1> PICK f : f = Rec("Surface", "invalid", n, n)
  OBVIOUS
<1>1. /\ n = <<s, registry[s].gen>> /\ n \in SurfaceIds /\ n \in Names /\ n \in Real
      /\ registry[s].gen \in 1..MaxGen /\ registry[s].alive
  BY LiveIsReal, StreamAssumption
     DEF DestroySurface, StreamInv, StreamTypeOK, IdsBounded, SurfaceId, Names
<1>2. /\ e \in HubRecord /\ e.family # "Window" /\ About(e, n) /\ e.says = "gone"
      /\ f \in HubRecord /\ f.family # "Window" /\ \A m : ~About(f, m)
  BY <1>1, RecIs DEF About, Families
<1>3. /\ hub' \in Seq(HubRecord) /\ batch' \in Seq(HubRecord) /\ UNCHANGED belief
      /\ Queued' = Append(Append(Queued, e), f)
      /\ Queued \in Seq(HubRecord) /\ Append(Queued, e) \in Seq(HubRecord)
  BY <1>2, PushesTwo DEF StreamInv, DestroySurface
<1>4. UNCHANGED <<windows, outputs, known, lost, heard>>
  BY <1>3 DEF DestroySurface, belief
<1>5. /\ registry' = [registry EXCEPT ![s] = [gen |-> registry[s].gen + 1, alive |-> FALSE]]
      /\ registry \in [Slots -> [gen : 1..(MaxGen + 1), alive : BOOLEAN]]
  BY DEF DestroySurface, Retired, StreamInv, StreamTypeOK
<1>6. /\ registry' \in [Slots -> [gen : 1..(MaxGen + 1), alive : BOOLEAN]]
      /\ \A t \in Slots \ {s} : registry'[t] = registry[t]
      /\ registry'[s].gen = registry[s].gen + 1 /\ ~registry'[s].alive
  <2>1. registry[s].gen + 1 \in 1..(MaxGen + 1)
    BY <1>1, StreamAssumption
  <2> QED
    BY <1>5, <2>1
<1>7. Real' = Real \ {n} /\ Gone' = Gone \cup {n}
  <2>1. n \notin Heads
    BY <1>1, NamesAssumption
  <2>2. Real' = Real \ {n}
    <3>1. ASSUME NEW m \in SurfaceIds
          PROVE  registry'[m[1]].alive /\ registry'[m[1]].gen = m[2]
                   <=> registry[m[1]].alive /\ registry[m[1]].gen = m[2] /\ m # n
      <4>1. m[1] \in Slots /\ m = <<m[1], m[2]>>
        BY DEF SurfaceIds
      <4> QED
        BY <1>1, <1>6, <4>1
    <3> QED
      BY <1>4, <2>1, <3>1 DEF Real
  <2>3. Gone' = Gone \cup {n}
    <3>1. ASSUME NEW m \in SurfaceIds
          PROVE  m[2] < registry'[m[1]].gen <=> m[2] < registry[m[1]].gen \/ m = n
      <4>1. m[1] \in Slots /\ m = <<m[1], m[2]>> /\ m[2] \in Int
        BY DEF SurfaceIds
      <4>2. CASE m[1] # s
        BY <1>1, <1>6, <4>1, <4>2
      <4>3. CASE m[1] = s
        BY <1>1, <1>6, <4>1, <4>3
      <4> QED
        BY <4>2, <4>3
    <3> QED
      BY <1>1, <1>4, <3>1 DEF Gone
  <2> QED
    BY <2>2, <2>3
<1>8. Faith(Queued', Real', Gone', known, lost)
  <2>1. Faith(Append(Queued, e), Real \ {n}, Gone \cup {n}, known, lost)
    BY <1>1, <1>2, PushMore DEF StreamInv
  <2> QED
    BY <1>2, <1>3, <1>7, <2>1, PushAside
<1>9. Followed(Queued', windows)
  BY <1>2, <1>3, NoWindowPushed, FollowedIs DEF StreamInv
<1>10. Faith(Queued, Real, Gone, known, lost)' /\ SuccessorAnnounced'
  BY <1>4, <1>8, <1>9, FollowedThen
<1>11. StreamTypeOK' /\ IdsBounded'
  BY <1>3, <1>4, <1>6 DEF StreamInv, StreamTypeOK, IdsBounded
<1>12. Lived
  BY <1>1, <1>3, <1>7 DEF Lived
<1> QED
  BY <1>4, <1>10, <1>11, <1>12, SameWindows DEF StreamInv

LEMMA LightUpStep ==
    ASSUME StreamInv, NEW o \in Heads, LightUp(o)
    PROVE  StreamInv' /\ Lived
<1> PICK e : e = Rec("Output", "new", o, o)
  OBVIOUS
<1>1. o \in Names /\ o \notin SurfaceIds
  BY NamesAssumption DEF Names
<1>2. e \in HubRecord /\ e.family # "Window" /\ New(e, o)
  BY <1>1, RecIs DEF New, About, Families
<1>3. /\ hub' \in Seq(HubRecord) /\ batch' \in Seq(HubRecord) /\ UNCHANGED belief
      /\ Queued' = Append(Queued, e) /\ Queued \in Seq(HubRecord)
  BY <1>2, Pushes DEF StreamInv, LightUp
<1>4. UNCHANGED <<registry, windows, known, lost, heard>>
  BY <1>3 DEF LightUp, belief
<1>5. /\ outputs[o].lit = "never" /\ outputs'[o].lit = "lit"
      /\ \A p \in Heads \ {o} : outputs'[p] = outputs[p]
      /\ outputs' \in [Heads -> [lit : {"never", "lit", "gone"},
                                 wrapper : {"none", "queued", "held", "dropped"}]]
  BY DEF LightUp, StreamInv, StreamTypeOK
<1>6. o \notin Real \cup Gone /\ Real' = Real \cup {o} /\ Gone' = Gone
  <2>1. o \notin Real \cup Gone
    BY <1>1, <1>5 DEF Real, Gone
  <2>2. Real' = Real \cup {o}
    BY <1>4, <1>5 DEF Real
  <2>3. Gone' = Gone
    BY <1>4, <1>5 DEF Gone
  <2> QED
    BY <2>1, <2>2, <2>3
<1>7. Faith(Append(Queued, e), Real \cup {o}, Gone, known, lost)
  BY <1>1, <1>2, <1>6, PushNew DEF StreamInv
<1>8. Followed(Append(Queued, e), windows)
  BY <1>2, <1>3, NoWindowPushed, FollowedIs DEF StreamInv
<1>9. Faith(Queued, Real, Gone, known, lost)' /\ SuccessorAnnounced'
  BY <1>3, <1>4, <1>6, <1>7, <1>8, FollowedThen
<1>10. StreamTypeOK' /\ IdsBounded'
  BY <1>3, <1>4, <1>5 DEF StreamInv, StreamTypeOK, IdsBounded
<1>11. Lived
  BY <1>1, <1>3, <1>6 DEF Lived
<1> QED
  BY <1>4, <1>9, <1>10, <1>11, SameWindows DEF StreamInv

LEMMA UnplugStep ==
    ASSUME StreamInv, NEW o \in Heads, Unplug(o)
    PROVE  StreamInv' /\ Lived
<1> PICK e : e = Rec("Output", "gone", o, o)
  OBVIOUS
<1>1. o \in Names /\ o \notin SurfaceIds
  BY NamesAssumption DEF Names
<1>2. e \in HubRecord /\ e.family # "Window" /\ About(e, o) /\ e.says = "gone"
  BY <1>1, RecIs DEF About, Families
<1>3. /\ hub' \in Seq(HubRecord) /\ batch' \in Seq(HubRecord) /\ UNCHANGED belief
      /\ Queued' = Append(Queued, e) /\ Queued \in Seq(HubRecord)
  BY <1>2, Pushes DEF StreamInv, Unplug
<1>4. UNCHANGED <<registry, windows, known, lost, heard>>
  BY <1>3 DEF Unplug, belief
<1>5. /\ outputs[o].lit = "lit" /\ outputs'[o].lit = "gone"
      /\ \A p \in Heads \ {o} : outputs'[p] = outputs[p]
      /\ outputs' \in [Heads -> [lit : {"never", "lit", "gone"},
                                 wrapper : {"none", "queued", "held", "dropped"}]]
  BY DEF Unplug, StreamInv, StreamTypeOK
<1>6. o \in Real /\ Real' = Real \ {o} /\ Gone' = Gone \cup {o}
  <2>1. o \in Real
    BY <1>5 DEF Real
  <2>2. Real' = Real \ {o}
    BY <1>1, <1>4, <1>5 DEF Real
  <2>3. Gone' = Gone \cup {o}
    BY <1>4, <1>5 DEF Gone
  <2> QED
    BY <2>1, <2>2, <2>3
<1>7. Faith(Append(Queued, e), Real \ {o}, Gone \cup {o}, known, lost)
  BY <1>2, <1>6, PushMore DEF StreamInv
<1>8. Followed(Append(Queued, e), windows)
  BY <1>2, <1>3, NoWindowPushed, FollowedIs DEF StreamInv
<1>9. Faith(Queued, Real, Gone, known, lost)' /\ SuccessorAnnounced'
  BY <1>3, <1>4, <1>6, <1>7, <1>8, FollowedThen
<1>10. StreamTypeOK' /\ IdsBounded'
  BY <1>3, <1>4, <1>5 DEF StreamInv, StreamTypeOK, IdsBounded
<1>11. Lived
  BY <1>1, <1>3, <1>6 DEF Lived
<1> QED
  BY <1>4, <1>9, <1>10, <1>11, SameWindows DEF StreamInv

LEMMA WindowRecord ==
    ASSUME NEW e \in HubRecord, e.family = "Window"
    PROVE  \A n : ~About(e, n)
  BY DEF About

\* A record about a window, when the objects that have lives stay as they are.
LEMMA WindowPushed ==
    ASSUME StreamInv, NEW says \in {"new", "more", "gone"}, NEW n \in SurfaceIds,
           NEW w \in Windows, Push(<<Rec("Window", says, n, w)>>), UNCHANGED <<registry, outputs>>,
           windows' \in [Windows -> [name : SurfaceIds \cup {None}, alive : BOOLEAN,
                                     watched : BOOLEAN]],
           \A v \in Windows : windows'[v].watched =>
              \/ windows[v].watched /\ windows[v].name = windows'[v].name
              \/ says = "new" /\ v = w,
           \A v \in Windows : windows'[v].watched /\ windows'[v].name = n => v = w,
           OneWindow'
    PROVE  StreamInv' /\ Lived
<1> PICK e : e = Rec("Window", says, n, w)
  OBVIOUS
<1>1. /\ e \in HubRecord /\ e.family = "Window" /\ e.says = says /\ e.name = n /\ e.of = w
  BY RecIs DEF Families, Names
<1>2. /\ hub' \in Seq(HubRecord) /\ batch' \in Seq(HubRecord) /\ UNCHANGED belief
      /\ Queued' = Append(Queued, e) /\ Queued \in Seq(HubRecord)
  BY <1>1, Pushes DEF StreamInv
<1>3. UNCHANGED <<known, lost, heard>> /\ Real' = Real /\ Gone' = Gone
  BY <1>2, SameWorld DEF belief
<1>4. Faith(Append(Queued, e), Real, Gone, known, lost)
  BY <1>1, PushAside, WindowRecord DEF StreamInv
<1>5. Followed(Append(Queued, e), windows')
  <2>1. Followed(Queued, windows)
    BY FollowedIs DEF StreamInv
  <2>2. \A v \in Windows : windows'[v].watched =>
           \/ windows[v].watched /\ windows[v].name = windows'[v].name
           \/ e.says = "new" /\ e.of = v
    BY <1>1
  <2>3. \A v \in Windows : windows'[v].watched /\ windows'[v].name = e.name => v = e.of
    BY <1>1
  <2> PICK vs : vs = windows'
    OBVIOUS
  <2> PICK ws : ws = windows
    OBVIOUS
  <2> PICK q : q = Queued
    OBVIOUS
  <2>4. q \in Seq(HubRecord) /\ e \in HubRecord /\ Followed(q, ws)
    BY <1>1, <1>2, <2>1
  <2>5. \A v \in Windows : vs[v].watched =>
              \/ ws[v].watched /\ ws[v].name = vs[v].name
              \/ e.says = "new" /\ e.of = v
    BY <2>2
  <2>6. e.family = "Window" =>
              \A v \in Windows : vs[v].watched /\ vs[v].name = e.name => v = e.of
    BY <2>3
  <2>7. Followed(Append(q, e), vs)
    BY ONLY <2>4, <2>5, <2>6, SuccessorsPushed, Zenon
  <2> QED
    BY <2>7
<1>6. Faith(Queued, Real, Gone, known, lost)' /\ SuccessorAnnounced'
  BY <1>2, <1>3, <1>4, <1>5, FollowedThen
<1>7. StreamTypeOK' /\ IdsBounded'
  BY <1>2, <1>3 DEF StreamInv, StreamTypeOK, IdsBounded
<1> QED
  BY <1>2, <1>3, <1>6, <1>7, StaysLived DEF StreamInv

LEMMA GetToplevelStep ==
    ASSUME StreamInv, NEW w \in Windows, NEW s \in Slots, GetToplevel(w, s)
    PROVE  StreamInv' /\ Lived
<1> PICK n \in SurfaceIds : n = SurfaceId(s)
  BY LiveIsReal DEF GetToplevel, StreamInv
<1>1. /\ Push(<<Rec("Window", "new", n, w)>>) /\ UNCHANGED <<registry, outputs>>
      /\ Watch(w, n) /\ windows[w].name = None /\ n # None
  BY NamesAssumption DEF GetToplevel, Announced
<1>2. windows \in [Windows -> [name : SurfaceIds \cup {None}, alive : BOOLEAN, watched : BOOLEAN]]
  BY DEF StreamInv, StreamTypeOK
<1>3. ASSUME NEW v \in Windows
      PROVE  /\ v = w => windows'[v] = [name |-> n, alive |-> TRUE, watched |-> TRUE]
             /\ (v # w /\ windows[v].name = n) => windows'[v] = [windows[v] EXCEPT !.watched = FALSE]
             /\ (v # w /\ windows[v].name # n) => windows'[v] = windows[v]
  BY <1>1 DEF Watch
<1>4. ASSUME NEW v \in Windows
      PROVE  /\ windows'[v] \in [name : SurfaceIds \cup {None}, alive : BOOLEAN, watched : BOOLEAN]
             /\ v = w => (windows'[v].name = n /\ windows'[v].watched)
             /\ v # w => /\ windows'[v].name = windows[v].name
                         /\ (windows'[v].alive <=> windows[v].alive)
                         /\ (windows'[v].watched => (windows[v].watched /\ windows[v].name # n))
  <2>1. CASE v = w
    <3>1. windows'[v] = [name |-> n, alive |-> TRUE, watched |-> TRUE]
      BY <1>3, <2>1
    <3>2. [name |-> n, alive |-> TRUE, watched |-> TRUE]
             \in [name : SurfaceIds \cup {None}, alive : BOOLEAN, watched : BOOLEAN]
      OBVIOUS
    <3>3. windows'[v].name = n /\ windows'[v].watched
      BY <3>1
    <3> QED
      BY <2>1, <3>1, <3>2, <3>3
  <2>2. CASE v # w /\ windows[v].name = n
    BY ZenonT(40), <1>2, <1>3, <2>2
  <2>3. CASE v # w /\ windows[v].name # n
    BY <1>2, <1>3, <2>3
  <2> QED
    BY <2>1, <2>2, <2>3
<1>5. windows' \in [Windows -> [name : SurfaceIds \cup {None}, alive : BOOLEAN, watched : BOOLEAN]]
  <2>1. windows' = [v \in Windows |-> windows'[v]]
    BY <1>1 DEF Watch
  <2> QED
    BY <1>4, <2>1
<1>6. OneWindow'
  BY <1>1, <1>4 DEF StreamInv, OneWindow
<1> QED
  BY <1>1, <1>4, <1>5, <1>6, WindowPushed

LEMMA ToplevelRequestStep ==
    ASSUME StreamInv, NEW w \in Windows, ToplevelRequest(w)
    PROVE  StreamInv' /\ Lived
<1>1. windows[w].name \in SurfaceIds
  BY DEF ToplevelRequest, StreamInv, StreamTypeOK, OneWindow
<1>2. OneWindow'
  BY SameWindows DEF ToplevelRequest, StreamInv
<1> QED
  <2>1. /\ Push(<<Rec("Window", "more", windows[w].name, w)>>)
        /\ UNCHANGED <<registry, outputs>> /\ windows' = windows /\ windows[w].watched
    BY DEF ToplevelRequest
  <2>2. \A v \in Windows : windows[v].watched /\ windows[v].name = windows[w].name => v = w
    BY <2>1 DEF StreamInv, OneWindow
  <2>3. windows \in [Windows -> [name : SurfaceIds \cup {None}, alive : BOOLEAN,
                                 watched : BOOLEAN]]
    BY DEF StreamInv, StreamTypeOK
  <2> QED
    BY <1>1, <1>2, <2>1, <2>2, <2>3, WindowPushed

LEMMA DestroyToplevelStep ==
    ASSUME StreamInv, NEW w \in Windows, DestroyToplevel(w)
    PROVE  StreamInv' /\ Lived
<1>1. /\ windows' = [windows EXCEPT ![w].alive = FALSE, ![w].watched = FALSE]
      /\ windows \in [Windows -> [name : SurfaceIds \cup {None}, alive : BOOLEAN, watched : BOOLEAN]]
      /\ UNCHANGED <<registry, outputs>>
  BY DEF DestroyToplevel, StreamInv, StreamTypeOK
<1>2. /\ windows' \in [Windows -> [name : SurfaceIds \cup {None}, alive : BOOLEAN, watched : BOOLEAN]]
      /\ \A v \in Windows \ {w} : windows'[v] = windows[v]
      /\ windows'[w].name = windows[w].name /\ ~windows'[w].alive /\ ~windows'[w].watched
  BY <1>1
<1>3. OneWindow'
  BY <1>2 DEF StreamInv, OneWindow
<1>4. CASE windows[w].watched
  <2>1. windows[w].name \in SurfaceIds
    BY <1>1, <1>4 DEF StreamInv, OneWindow
  <2>2. Push(<<Rec("Window", "gone", windows[w].name, w)>>)
    BY <1>4 DEF DestroyToplevel
  <2>3. \A v \in Windows : windows'[v].watched => v # w /\ windows'[v] = windows[v]
    BY <1>2
  <2>4. \A v \in Windows : windows'[v].watched /\ windows'[v].name = windows[w].name => v = w
    BY <1>4, <2>3 DEF StreamInv, OneWindow
  <2> QED
    BY <1>1, <1>2, <1>3, <2>1, <2>2, <2>3, <2>4, WindowPushed
<1>5. CASE ~windows[w].watched
  <2>1. Push(<<>>)
    BY <1>5 DEF DestroyToplevel
  <2>2. hub' = hub /\ UNCHANGED <<batch, known, lost, heard>> /\ UNCHANGED belief
    BY <2>1 DEF Push, belief, StreamInv, StreamTypeOK
  <2>3. Queued' = Queued /\ Real' = Real /\ Gone' = Gone
    BY <1>1, <2>2, SameWorld DEF Queued
  <2>4. Followed(Queued, windows')
    BY <1>2, FollowedIs DEF StreamInv, Followed
  <2>5. SuccessorAnnounced' /\ Faith(Queued, Real, Gone, known, lost)'
    BY <2>2, <2>3, <2>4, FollowedThen DEF StreamInv
  <2>6. StreamTypeOK' /\ IdsBounded'
    BY <1>1, <1>2, <2>2 DEF StreamInv, StreamTypeOK, IdsBounded
  <2> QED
    BY <1>3, <2>2, <2>3, <2>5, <2>6, StaysLived DEF StreamInv
<1> QED
  BY <1>4, <1>5

LEMMA CollectStep ==
    ASSUME StreamInv, Collect
    PROVE  StreamInv' /\ Lived
<1>1. /\ batch' = batch \o hub /\ hub' = <<>> /\ UNCHANGED <<registry, windows, outputs>>
      /\ UNCHANGED <<known, lost, heard>> /\ UNCHANGED belief
      /\ batch \in Seq(HubRecord) /\ hub \in Seq(HubRecord)
  BY DEF Collect, belief, StreamInv, StreamTypeOK
<1>2. Queued' = Queued /\ batch' \in Seq(HubRecord) /\ hub' \in Seq(HubRecord)
  <2>1. batch \o hub \in Seq(HubRecord)
    BY <1>1
  <2>2. (batch \o hub) \o <<>> = batch \o hub
    BY <2>1
  <2> QED
    BY <1>1, <2>1, <2>2 DEF Queued
<1>3. Real' = Real /\ Gone' = Gone
  BY <1>1, SameWorld
<1>4. Faith(Queued, Real, Gone, known, lost)'
  BY <1>1, <1>2, <1>3 DEF StreamInv
<1>5. SuccessorAnnounced'
  BY <1>1, <1>2, FollowedIs, FollowedThen DEF StreamInv
<1>6. StreamTypeOK' /\ IdsBounded'
  BY <1>1, <1>2 DEF StreamInv, StreamTypeOK, IdsBounded
<1> QED
  BY <1>1, <1>3, <1>4, <1>5, <1>6, SameWindows, StaysLived DEF StreamInv

LEMMA DropOutputStep ==
    ASSUME StreamInv, NEW o \in Heads, DropOutput(o)
    PROVE  StreamInv' /\ Lived
<1>1. /\ UNCHANGED <<registry, windows, hub, batch, known, lost, heard>> /\ UNCHANGED belief
      /\ outputs' = [outputs EXCEPT ![o].wrapper = "dropped"]
      /\ outputs \in [Heads -> [lit : {"never", "lit", "gone"},
                                wrapper : {"none", "queued", "held", "dropped"}]]
  BY DEF DropOutput, belief, StreamInv, StreamTypeOK
<1>2. /\ outputs' \in [Heads -> [lit : {"never", "lit", "gone"},
                                 wrapper : {"none", "queued", "held", "dropped"}]]
      /\ \A p \in Heads : outputs'[p].lit = outputs[p].lit
  BY <1>1
<1>3. Real' = Real /\ Gone' = Gone /\ Queued' = Queued
  BY <1>1, <1>2 DEF Real, Gone, Queued
<1>4. Faith(Queued, Real, Gone, known, lost)'
  BY <1>1, <1>3 DEF StreamInv
<1>5. SuccessorAnnounced'
  BY <1>1, <1>3, FollowedIs, FollowedThen DEF StreamInv
<1>6. StreamTypeOK' /\ IdsBounded'
  BY <1>1, <1>2 DEF StreamInv, StreamTypeOK, IdsBounded
<1> QED
  BY <1>1, <1>3, <1>4, <1>5, <1>6, SameWindows, StaysLived DEF StreamInv

LEMMA OldestIs ==
    ASSUME StreamTypeOK, batch # <<>>
    PROVE  /\ Queued \in Seq(HubRecord) /\ Queued # <<>> /\ Queued[1] = Head(batch)
           /\ Tail(batch) \in Seq(HubRecord) /\ Tail(Queued) = Tail(batch) \o hub
<1>1. batch \in Seq(HubRecord) /\ hub \in Seq(HubRecord) /\ batch # <<>>
  BY DEF StreamTypeOK
<1>2. Len(batch) \in Nat /\ Len(batch) >= 1 /\ Len(batch \o hub) >= 1
      /\ batch \o hub \in Seq(HubRecord) /\ (batch \o hub)[1] = batch[1]
  BY <1>1
<1>3. Tail(batch \o hub) = Tail(batch) \o hub
  BY <1>1, <1>2
<1> QED
  BY <1>1, <1>2, <1>3 DEF Queued

LEMMA HandleEventStep ==
    ASSUME StreamInv, NEW keep \in BOOLEAN, HandleEvent(keep)
    PROVE  StreamInv' /\ Lived
<1> PICK e : e = Head(batch)
  OBVIOUS
<1> PICK a : a = {n \in Names : About(e, n)}
  OBVIOUS
<1>1. /\ Queued \in Seq(HubRecord) /\ Queued # <<>> /\ Queued[1] = e
      /\ Tail(batch) \in Seq(HubRecord) /\ Tail(Queued) = Tail(batch) \o hub
      /\ batch' = Tail(batch) /\ UNCHANGED <<registry, windows, hub>> /\ Believe(e)
      /\ hub \in Seq(HubRecord)
  BY OldestIs DEF HandleEvent, StreamInv, StreamTypeOK
<1>2. Queued' = Tail(Queued) /\ e \in HubRecord
  BY <1>1, Behind DEF Queued
<1>3. a = IF e.family = "Window" \/ e.says = "invalid" THEN {} ELSE {e.name}
  BY <1>2 DEF About, Names, HubRecord
<1>4. /\ heard' = a
      /\ known' = IF e.says = "new" THEN known \cup a
                  ELSE IF e.says = "gone" THEN known \ a ELSE known
      /\ lost' = IF e.says = "gone" THEN lost \cup a ELSE lost
  BY <1>1, <1>3 DEF Believe
<1>5. /\ outputs' \in [Heads -> [lit : {"never", "lit", "gone"},
                                 wrapper : {"none", "queued", "held", "dropped"}]]
      /\ \A p \in Heads : outputs'[p].lit = outputs[p].lit
  <2>1. \/ outputs' = outputs
        \/ \E x \in {"held", "dropped"} : outputs' = [outputs EXCEPT ![e.name].wrapper = x]
    BY DEF HandleEvent
  <2>2. outputs \in [Heads -> [lit : {"never", "lit", "gone"},
                               wrapper : {"none", "queued", "held", "dropped"}]]
    BY DEF StreamInv, StreamTypeOK
  <2> QED
    BY <2>1, <2>2
<1>6. Real' = Real /\ Gone' = Gone
  BY <1>1, <1>5 DEF Real, Gone
<1>7. /\ Faith(Tail(Queued), Real, Gone, known', lost')
      /\ \A n \in Names : About(e, n) =>
            /\ e.says = "new" => n \in (Real \cup Gone) \ (known \cup lost)
            /\ e.says # "new" => n \in known
            /\ e.says = "gone" => n \in Gone
  <2>1. a = {n \in Names : About(Queued[1], n)}
    BY <1>1
  <2>2. /\ known' = (IF Queued[1].says = "new" THEN known \cup {n \in Names : About(Queued[1], n)}
                     ELSE IF Queued[1].says = "gone"
                          THEN known \ {n \in Names : About(Queued[1], n)} ELSE known)
        /\ lost' = (IF Queued[1].says = "gone"
                    THEN lost \cup {n \in Names : About(Queued[1], n)} ELSE lost)
    BY <1>1, <1>4, <2>1
  <2>3. Faith(Queued, Real, Gone, known, lost)
    BY DEF StreamInv
  <2> PICK q : q = Queued
    OBVIOUS
  <2> PICK R : R = Real
    OBVIOUS
  <2> PICK G : G = Gone
    OBVIOUS
  <2> PICK M : M = known'
    OBVIOUS
  <2> PICK N : N = lost'
    OBVIOUS
  <2>4. Faith(q, R, G, known, lost) /\ q # <<>>
    BY <1>1, <2>3
  <2>5. /\ M = (IF q[1].says = "new" THEN known \cup {n \in Names : About(q[1], n)}
                ELSE IF q[1].says = "gone"
                     THEN known \ {n \in Names : About(q[1], n)} ELSE known)
        /\ N = (IF q[1].says = "gone" THEN lost \cup {n \in Names : About(q[1], n)} ELSE lost)
    BY <2>2
  <2>6. /\ Faith(Tail(q), R, G, M, N)
        /\ \A n \in Names : About(q[1], n) =>
              /\ q[1].says = "new" => n \in (R \cup G) \ (known \cup lost)
              /\ q[1].says # "new" => n \in known
              /\ q[1].says = "gone" => n \in G
    BY <2>4, <2>5, HandleOldest
  <2> QED
    BY <1>1, <2>6
<1>8. Followed(Queued', windows')
  BY <1>1, <1>2, FollowedIs, SuccessorsHandled DEF StreamInv
<1>9. Faith(Queued, Real, Gone, known, lost)' /\ SuccessorAnnounced'
  BY <1>2, <1>6, <1>7, <1>8, FollowedThen
<1>10. known' \subseteq Names /\ lost' \subseteq Names /\ heard' \subseteq Names
  BY <1>4 DEF StreamInv, StreamTypeOK, Names
<1>11. StreamTypeOK' /\ IdsBounded'
  BY <1>1, <1>5, <1>10 DEF StreamInv, StreamTypeOK, IdsBounded, Names
<1>12. Lived
  <2>1. CASE a = {}
    BY <1>4, <1>6, <2>1 DEF Lived
  <2>2. CASE a # {}
    <3>1. PICK n \in Names : a = {n} /\ About(e, n)
      BY <1>3, <2>2
    <3> QED
      BY <1>4, <1>6, <1>7, <3>1 DEF Lived
  <2> QED
    BY <2>1, <2>2
<1> QED
  BY <1>1, <1>9, <1>11, <1>12, SameWindows DEF StreamInv

LEMMA StreamStep ==
    ASSUME StreamInv, [StreamNext]_streamVars
    PROVE  StreamInv' /\ Lived
<1>1. CASE UNCHANGED streamVars
  <2>1. /\ Real' = Real /\ Gone' = Gone /\ Queued' = Queued
        /\ UNCHANGED <<registry, windows, outputs, hub, batch, known, lost, heard>>
        /\ UNCHANGED belief
    BY <1>1 DEF streamVars, Real, Gone, Queued, belief
  <2>2. SuccessorAnnounced' /\ Faith(Queued, Real, Gone, known, lost)'
    BY <2>1, FollowedIs, FollowedThen DEF StreamInv
  <2>3. StreamTypeOK' /\ IdsBounded'
    BY <2>1 DEF StreamInv, StreamTypeOK, IdsBounded
  <2> QED
    BY <2>1, <2>2, <2>3, SameWindows, StaysLived DEF StreamInv
<1>2. ASSUME NEW s \in Slots, CreateSurface(s) \/ CommitSurface(s) \/ DestroySurface(s)
      PROVE  StreamInv' /\ Lived
  BY <1>2, CreateSurfaceStep, CommitSurfaceStep, DestroySurfaceStep
<1>3. ASSUME NEW w \in Windows,
             (\E s \in Slots : GetToplevel(w, s)) \/ ToplevelRequest(w) \/ DestroyToplevel(w)
      PROVE  StreamInv' /\ Lived
  BY <1>3, GetToplevelStep, ToplevelRequestStep, DestroyToplevelStep
<1>4. ASSUME NEW o \in Heads, LightUp(o) \/ OutputFrame(o) \/ Unplug(o) \/ DropOutput(o)
      PROVE  StreamInv' /\ Lived
  BY <1>4, LightUpStep, OutputFrameStep, UnplugStep, DropOutputStep
<1>5. ASSUME Collect \/ \E keep \in BOOLEAN : HandleEvent(keep)
      PROVE  StreamInv' /\ Lived
  BY <1>5, CollectStep, HandleEventStep
<1> QED
  BY <1>1, <1>2, <1>3, <1>4, <1>5 DEF StreamNext

LEMMA StreamBegins == StreamInit => StreamInv /\ Real = {} /\ Gone = {}
<1> SUFFICES ASSUME StreamInit PROVE StreamInv /\ Real = {} /\ Gone = {}
  OBVIOUS
<1>1. Queued = <<>> /\ Len(Queued) = 0
  BY DEF StreamInit, Queued
<1>2. Real = {} /\ Gone = {}
  BY DEF StreamInit, Real, Gone, SurfaceIds
<1>3. StreamTypeOK
  BY StreamAssumption DEF StreamInit, StreamTypeOK
<1>4. Faith(Queued, Real, Gone, known, lost)
  BY <1>1, <1>2 DEF StreamInit, Faith, InTurn, Copied
<1> QED
  BY <1>1, <1>2, <1>3, <1>4 DEF StreamInit, StreamInv, IdsBounded, OneWindow, SuccessorAnnounced

LEMMA StreamInvariance == StreamSpec => []StreamInv
<1>1. StreamInit => StreamInv
  BY StreamBegins
<1>2. StreamInv /\ [StreamNext]_streamVars => StreamInv'
  BY StreamStep
<1> QED
  BY <1>1, <1>2, PTL DEF StreamSpec

-----------------------------------------------------------------------------
(* The theorems *)

\* The queue, the registry and the shim's map keep to their types.
THEOREM StreamTypeCorrect == StreamSpec => []StreamTypeOK
  BY StreamInvariance, PTL DEF StreamInv

\* An event about a window that a late handler would look up to another window of
\* the same surface is followed by the announcement of that one.
THEOREM SuccessorIsAnnounced == StreamSpec => []SuccessorAnnounced
  BY StreamInvariance, PTL DEF StreamInv

\* The event stream implements ObjectLives: what a compositor believes of surfaces
\* and outputs lags behind the truth and never contradicts it.
THEOREM StreamIsFaithful == StreamSpec => Faithful
<1>1. StreamInit => Lives!Init
  BY StreamBegins DEF StreamInit, Lives!Init, Real, Gone
<1>2. StreamInv /\ [StreamNext]_streamVars => [Lives!Next]_(Lives!vars)
  <2> SUFFICES ASSUME StreamInv, [StreamNext]_streamVars
               PROVE  [Lives!Next]_(Lives!vars)
    OBVIOUS
  <2>1. Lived
    BY StreamStep
  <2> QED
    BY <2>1 DEF Lived, Lives!Next, Lives!vars, Lives!Create, Lives!Destroy, Lives!Learn,
                Lives!Hear, Lives!Lose, Lives!Digress, Real, Gone, belief, Names
<1> QED
  BY <1>1, <1>2, StreamInvariance, PTL DEF StreamSpec, Faithful, Lives!Spec

-----------------------------------------------------------------------------
(* The example compositor.  The last event about a window that is mapped    *)
(* puts it on the stack, or there is none and it is there; so it is there   *)
(* once the events are handled, however many of them a dispatch left.       *)

Window == [role : BOOLEAN, mapped : BOOLEAN, buffer : BOOLEAN, size : Areas \cup {NoTop}]
WindowKinds == {"Created", "Map", "Unmap", "Destroy", "Button"}
Happening == [kind : WindowKinds, of : Tops] \cup [kind : {"Cycle", "LayoutChanged"}, of : {NoTop}]

Concerns(e, w) == e.of = w /\ e.kind \in {"Map", "Button", "Unmap", "Destroy"}
Raises(e) == e.kind \in {"Map", "Button"}
Once(s) == \A i, j \in DOMAIN s : s[i] = s[j] => i = j

\* Who handles q on the stack s leaves w on it.
Stays(q, s, w) ==
    /\ \A i \in DOMAIN q : Concerns(q[i], w) /\ (\A j \in DOMAIN q : j > i => ~Concerns(q[j], w)) => Raises(q[i])
    /\ (\A i \in DOMAIN q : ~Concerns(q[i], w)) => w \in ToSet(s)

SceneIs ==
    /\ Once(shown)
    /\ \A w \in Tops : tops[w].mapped => w \in ToSet(shown)
    /\ \A i \in DOMAIN shown : tops[shown[i]].role

MinimalInv ==
    /\ tops \in [Tops -> Window]
    /\ area \in Areas /\ usable \in Areas
    /\ focused \in Tops \cup {NoTop} /\ keyboard \in Tops \cup {NoTop}
    /\ events \in Seq(Happening) /\ Len(events) <= MaxEvents + 1
    /\ stack \in Seq(Tops) /\ shown \in Seq(Tops) /\ Once(stack)
    /\ \A w \in Tops : tops[w].mapped => tops[w].role /\ Stays(events, stack, w)
    /\ (\A i \in DOMAIN events : events[i].kind # "LayoutChanged") => usable = area
    /\ events = <<>> => SceneIs

-----------------------------------------------------------------------------
(* Stacks *)

LEMMA PickedOnce ==
    ASSUME NEW s \in Seq(Tops), NEW S, S \subseteq DOMAIN s, Once(s)
    PROVE  /\ Picked(s, S) \in Seq(Tops) /\ Once(Picked(s, S))
           /\ ToSet(Picked(s, S)) = {s[i] : i \in S}
<1>1. PICK p : p = Picked(s, S)
  OBVIOUS
<1>2. PICK f : f = InOrder(S)
  OBVIOUS
<1>3. PICK n \in Nat : n = Cardinality(S)
  BY PickedIs
<1>4. /\ p \in Seq(Tops) /\ DOMAIN p = 1..n
      /\ \A k \in 1..n : f[k] \in S /\ p[k] = s[f[k]]
      /\ \A k, l \in 1..n : f[k] = f[l] => k = l
      /\ \A i \in S : \E k \in 1..n : f[k] = i
  BY <1>1, <1>2, <1>3, PickedIs
<1>5. Once(p)
  BY <1>4 DEF Once
<1>6. ToSet(p) = {p[k] : k \in 1..n}
  BY <1>4 DEF ToSet
<1>7. {p[k] : k \in 1..n} = {s[i] : i \in S}
  BY <1>4
<1> QED
  BY <1>1, <1>4, <1>5, <1>6, <1>7

LEMMA WithoutIs ==
    ASSUME NEW s \in Seq(Tops), NEW w, Once(s)
    PROVE  /\ Without(s, w) \in Seq(Tops) /\ Once(Without(s, w))
           /\ ToSet(Without(s, w)) = ToSet(s) \ {w}
<1>1. PICK S : S = {i \in DOMAIN s : s[i] # w}
  OBVIOUS
<1>2. S \subseteq DOMAIN s /\ Without(s, w) = Picked(s, S)
  BY <1>1 DEF Without
<1>3. {s[i] : i \in S} = ToSet(s) \ {w}
  BY <1>1 DEF ToSet
<1> QED
  BY <1>2, <1>3, PickedOnce

LEMMA RaiseIs ==
    ASSUME NEW s \in Seq(Tops), NEW w \in Tops, Once(s)
    PROVE  /\ Raise(s, w) \in Seq(Tops) /\ Once(Raise(s, w))
           /\ ToSet(Raise(s, w)) = ToSet(s) \cup {w}
<1>1. PICK t : t = Without(s, w)
  OBVIOUS
<1>2. t \in Seq(Tops) /\ Once(t) /\ ToSet(t) = ToSet(s) \ {w}
  BY <1>1, WithoutIs
<1>3. PICK l \in Nat : l = Len(t)
  BY <1>2
<1>4. PICK r : r = Raise(s, w)
  OBVIOUS
<1>5. r = Append(t, w)
  BY <1>1, <1>4 DEF Raise
<1>6. r \in Seq(Tops) /\ Len(r) = l + 1 /\ (\A i \in 1..l : r[i] = t[i]) /\ r[l + 1] = w
  BY <1>2, <1>3, <1>5, AppendProperties
<1>7. DOMAIN r = 1..(l + 1) /\ DOMAIN t = 1..l
  BY <1>2, <1>3, <1>6
<1>8. \A i \in 1..l : t[i] # w
  BY <1>2, <1>7 DEF ToSet
<1>9. Once(r)
  <2>1. ASSUME NEW i \in 1..(l + 1), NEW j \in 1..(l + 1), r[i] = r[j] PROVE i = j
    <3>1. CASE i = l + 1
      BY <1>6, <1>8, <2>1, <3>1
    <3>2. CASE j = l + 1
      BY <1>6, <1>8, <2>1, <3>2
    <3>3. CASE i \in 1..l /\ j \in 1..l
      BY <1>2, <1>6, <1>7, <2>1, <3>3 DEF Once
    <3> QED
      BY <3>1, <3>2, <3>3
  <2> QED
    BY <1>7, <2>1 DEF Once
<1>10. ToSet(r) = ToSet(t) \cup {w}
  <2>1. ToSet(r) = {r[i] : i \in 1..(l + 1)} /\ ToSet(t) = {t[i] : i \in 1..l}
    BY <1>7 DEF ToSet
  <2>2. 1..(l + 1) = 1..l \cup {l + 1}
    OBVIOUS
  <2>3. {r[i] : i \in 1..l} = {t[i] : i \in 1..l}
    BY <1>6
  <2>4. {r[i] : i \in 1..(l + 1)} = {r[i] : i \in 1..l} \cup {r[l + 1]}
    BY <2>2
  <2> QED
    BY <1>6, <2>1, <2>3, <2>4
<1> QED
  BY <1>2, <1>4, <1>6, <1>9, <1>10

LEMMA RotatedIs ==
    ASSUME NEW s \in Seq(Tops), Once(s), Len(s) > 1
    PROVE  LET r == Tail(s) \o <<Head(s)>> IN
           r \in Seq(Tops) /\ Once(r) /\ ToSet(r) = ToSet(s)
<1>1. PICK l \in Nat : l = Len(s)
  OBVIOUS
<1>2. l > 1 /\ DOMAIN s = 1..l /\ s # <<>>
  BY <1>1
<1>3. PICK t : t = Tail(s)
  OBVIOUS
<1>4. PICK h : h = Head(s)
  OBVIOUS
<1>5. t \in Seq(Tops) /\ Len(t) = l - 1 /\ (\A i \in 1..(l - 1) : t[i] = s[i + 1])
  BY <1>1, <1>2, <1>3, HeadTailProperties
<1>6. h = s[1] /\ h \in Tops /\ 1 \in 1..l
  BY <1>1, <1>2, <1>4
<1>7. PICK r : r = t \o <<h>>
  OBVIOUS
<1>8. <<h>> \in Seq(Tops) /\ Len(<<h>>) = 1 /\ <<h>>[1] = h
  BY <1>6
<1>9. /\ r \in Seq(Tops) /\ Len(r) = (l - 1) + 1
      /\ \A i \in 1..((l - 1) + 1) : r[i] = IF i <= l - 1 THEN t[i] ELSE <<h>>[i - (l - 1)]
  BY <1>5, <1>7, <1>8, ConcatProperties
<1>10. DOMAIN r = 1..l
  BY <1>9
<1>11. \A i \in 1..l : r[i] = IF i = l THEN s[1] ELSE s[i + 1]
  <2> TAKE i \in 1..l
  <2>1. CASE i = l
    <3>1. i - (l - 1) = 1 /\ ~(i <= l - 1) /\ i \in 1..((l - 1) + 1)
      BY <2>1
    <3>2. r[i] = <<h>>[i - (l - 1)]
      BY <1>9, <3>1
    <3> QED
      BY <1>6, <1>8, <2>1, <3>1, <3>2
  <2>2. CASE i # l
    <3>1. i <= l - 1 /\ i \in 1..(l - 1) /\ i \in 1..((l - 1) + 1)
      BY <2>2
    <3> QED
      BY <1>5, <1>9, <2>2, <3>1
  <2> QED
    BY <2>1, <2>2
<1>12. Once(r)
  <2>1. ASSUME NEW i \in 1..l, NEW j \in 1..l, r[i] = r[j] PROVE i = j
    <3>1. PICK a \in 1..l : r[i] = s[a] /\ a = IF i = l THEN 1 ELSE i + 1
      <4>1. (IF i = l THEN 1 ELSE i + 1) \in 1..l
        BY <1>2
      <4> QED
        BY <1>11, <4>1
    <3>2. PICK b \in 1..l : r[j] = s[b] /\ b = IF j = l THEN 1 ELSE j + 1
      <4>1. (IF j = l THEN 1 ELSE j + 1) \in 1..l
        BY <1>2
      <4> QED
        BY <1>11, <4>1
    <3>3. a = b
      BY <1>2, <2>1, <3>1, <3>2 DEF Once
    <3> QED
      BY <3>1, <3>2, <3>3
  <2> QED
    BY <1>10, <2>1 DEF Once
<1>13. ToSet(r) = ToSet(s)
  <2>1. ToSet(r) = {r[i] : i \in 1..l} /\ ToSet(s) = {s[i] : i \in 1..l}
    BY <1>2, <1>10 DEF ToSet
  <2>2. \A i \in 1..l : \E a \in 1..l : r[i] = s[a]
    <3> TAKE i \in 1..l
    <3>1. (IF i = l THEN 1 ELSE i + 1) \in 1..l
      BY <1>2
    <3> QED
      BY <1>11, <3>1
  <2>3. \A a \in 1..l : \E i \in 1..l : r[i] = s[a]
    <3> TAKE a \in 1..l
    <3>1. CASE a = 1
      <4>1. l \in 1..l
        BY <1>2
      <4> QED
        BY <1>11, <3>1, <4>1
    <3>2. CASE a # 1
      <4>1. a - 1 \in 1..l /\ a - 1 # l /\ (a - 1) + 1 = a
        BY <3>2
      <4>2. r[a - 1] = s[a]
        BY <1>11, <4>1
      <4> QED
        BY <4>1, <4>2
    <3> QED
      BY <3>1, <3>2
  <2> QED
    BY ZenonT(40), <2>1, <2>2, <2>3
<1> QED
  BY <1>3, <1>4, <1>7, <1>9, <1>12, <1>13

-----------------------------------------------------------------------------
(* One event, and a batch of them *)

Books == [stack : Seq(Tops), usable : Areas, tops : [Tops -> Window]]

SameTops(t, u) ==
    \A w \in Tops : t[w].role = u[w].role /\ t[w].mapped = u[w].mapped /\ t[w].buffer = u[w].buffer

LEMMA ConfigureIs ==
    ASSUME NEW t \in [Tops -> Window], NEW who, NEW a \in Areas
    PROVE  Configure(t, who, a) \in [Tops -> Window] /\ SameTops(Configure(t, who, a), t)
<1>1. PICK c : c = Configure(t, who, a)
  OBVIOUS
<1>2. ASSUME NEW w \in Tops
      PROVE  /\ c[w] \in Window
             /\ c[w].role = t[w].role /\ c[w].mapped = t[w].mapped /\ c[w].buffer = t[w].buffer
  <2>1. PICK x \in Window : x = t[w]
    OBVIOUS
  <2>2. PICK y : y = [x EXCEPT !.size = a]
    OBVIOUS
  <2>3. y \in Window /\ y.role = x.role /\ y.mapped = x.mapped /\ y.buffer = x.buffer
    BY <2>2 DEF Window
  <2>4. c[w] = y \/ c[w] = x
    BY <1>1, <2>1, <2>2 DEF Configure
  <2> QED
    BY <2>1, <2>3, <2>4
<1>3. c \in [Tops -> Window]
  <2>1. c = [w \in Tops |-> c[w]]
    BY <1>1 DEF Configure
  <2> QED
    BY <1>2, <2>1
<1> QED
  BY <1>1, <1>2, <1>3 DEF SameTops

\* What e makes of x is y.
Handles(x, e, y) ==
    /\ y \in Books /\ Once(y.stack) /\ SameTops(y.tops, x.tops)
    /\ y.usable = IF e.kind = "LayoutChanged" THEN area ELSE x.usable
    /\ \A w \in Tops : w \in ToSet(y.stack) <=> IF Concerns(e, w) THEN Raises(e) ELSE w \in ToSet(x.stack)

LEMMA HandleOneIs ==
    ASSUME NEW x \in Books, NEW e \in Happening, Once(x.stack), area \in Areas
    PROVE  Handles(x, e, HandleOne(x, e))
<1>1. x.stack \in Seq(Tops) /\ x.usable \in Areas /\ x.tops \in [Tops -> Window]
  BY DEF Books
<1>2. PICK y : y = HandleOne(x, e)
  OBVIOUS
<1>3. SameTops(x.tops, x.tops)
  BY DEF SameTops
<1>4. CASE e.kind = "LayoutChanged"
  <2>1. PICK t : t = Configure(x.tops, ToSet(x.stack), area)
    OBVIOUS
  <2>2. t \in [Tops -> Window] /\ SameTops(t, x.tops)
    BY <1>1, <2>1, ConfigureIs
  <2>3. y = [x EXCEPT !.usable = area, !.tops = t]
    BY <1>2, <1>4, <2>1 DEF HandleOne
  <2>4. y \in Books /\ y.stack = x.stack /\ y.tops = t /\ y.usable = area
    BY <2>2, <2>3 DEF Books
  <2>5. \A w \in Tops : ~Concerns(e, w)
    BY <1>4 DEF Concerns
  <2> QED
    BY <1>2, <1>4, <2>2, <2>4, <2>5 DEF Handles
<1>5. CASE e.kind = "Created"
  <2>1. PICK t : t = Configure(x.tops, {e.of}, x.usable)
    OBVIOUS
  <2>2. t \in [Tops -> Window] /\ SameTops(t, x.tops)
    BY <1>1, <2>1, ConfigureIs
  <2>3. y = [x EXCEPT !.tops = t]
    BY <1>2, <1>5, <2>1 DEF HandleOne
  <2>4. y \in Books /\ y.stack = x.stack /\ y.tops = t /\ y.usable = x.usable
    BY <2>2, <2>3 DEF Books
  <2>5. \A w \in Tops : ~Concerns(e, w)
    BY <1>5 DEF Concerns
  <2> QED
    BY <1>2, <1>5, <2>2, <2>4, <2>5 DEF Handles
<1>6. ASSUME NEW s, y = [x EXCEPT !.stack = s], s \in Seq(Tops), Once(s), e.kind # "LayoutChanged",
             \A w \in Tops : w \in ToSet(s) <=> IF Concerns(e, w) THEN Raises(e) ELSE w \in ToSet(x.stack)
      PROVE  Handles(x, e, y)
  <2>1. y \in Books /\ y.stack = s /\ y.tops = x.tops /\ y.usable = x.usable
    BY <1>6 DEF Books
  <2> QED
    BY <1>3, <1>6, <2>1 DEF Handles
<1>7. CASE e.kind \in {"Map", "Button"}
  <2>1. e.of \in Tops /\ \A w \in Tops : (Concerns(e, w) <=> w = e.of) /\ Raises(e)
    BY <1>7 DEF Happening, Concerns, Raises
  <2>2. PICK s : s = Raise(x.stack, e.of)
    OBVIOUS
  <2>3. s \in Seq(Tops) /\ Once(s) /\ ToSet(s) = ToSet(x.stack) \cup {e.of}
    BY <1>1, <2>1, <2>2, RaiseIs
  <2>4. y = [x EXCEPT !.stack = s]
    BY <1>2, <1>7, <2>2 DEF HandleOne
  <2> QED
    BY <1>2, <1>6, <1>7, <2>1, <2>3, <2>4
<1>8. CASE e.kind \in {"Unmap", "Destroy"}
  <2>1. \A w \in Tops : (Concerns(e, w) <=> w = e.of) /\ ~Raises(e)
    BY <1>8 DEF Concerns, Raises
  <2>2. PICK s : s = Without(x.stack, e.of)
    OBVIOUS
  <2>3. s \in Seq(Tops) /\ Once(s) /\ ToSet(s) = ToSet(x.stack) \ {e.of}
    BY <1>1, <2>2, WithoutIs
  <2>4. y = [x EXCEPT !.stack = s]
    BY <1>2, <1>8, <2>2 DEF HandleOne
  <2> QED
    BY <1>2, <1>6, <1>8, <2>1, <2>3, <2>4
<1>9. CASE e.kind = "Cycle"
  <2>1. \A w \in Tops : ~Concerns(e, w)
    BY <1>9 DEF Concerns
  <2>2. PICK s : s = IF Len(x.stack) > 1 THEN Tail(x.stack) \o <<Head(x.stack)>> ELSE x.stack
    OBVIOUS
  <2>3. s \in Seq(Tops) /\ Once(s) /\ ToSet(s) = ToSet(x.stack)
    BY <1>1, <2>2, RotatedIs
  <2>4. y = [x EXCEPT !.stack = s]
    BY <1>2, <1>9, <2>2 DEF HandleOne
  <2> QED
    BY <1>2, <1>6, <1>9, <2>1, <2>3, <2>4
<1>10. e.kind \in WindowKinds \cup {"Cycle", "LayoutChanged"}
  BY DEF Happening
<1> QED
  BY <1>2, <1>4, <1>5, <1>7, <1>8, <1>9, <1>10 DEF WindowKinds

\* The books after each of the first n events.
Sequel(h, n) ==
    h = [k \in 0..n |-> IF k = 0 THEN [stack |-> stack, usable |-> usable, tops |-> tops]
                         ELSE HandleOne(h[k - 1], events[k])]

LEMMA SequelExists ==
    ASSUME NEW n \in Nat
    PROVE  \E h : Sequel(h, n)
<1> SUFFICES ASSUME \A h : ~Sequel(h, n) PROVE FALSE
  OBVIOUS
<1>1. PICK T : T = {k \in 0..n : \A h : ~Sequel(h, k)}
  OBVIOUS
<1>2. PICK k \in T : \A j \in T : k <= j
  <2>1. T \subseteq Nat /\ n \in T
    BY <1>1
  <2> QED
    BY <2>1, Least
<1>3. k \in 0..n /\ \A h : ~Sequel(h, k)
  BY <1>1, <1>2
<1>4. CASE k = 0
  <2>1. PICK h : h = [i \in 0..0 |-> [stack |-> stack, usable |-> usable, tops |-> tops]]
    OBVIOUS
  <2>2. \A i \in 0..0 : i = 0
    OBVIOUS
  <2>3. Sequel(h, 0)
    BY <2>1, <2>2 DEF Sequel
  <2> QED
    BY <1>3, <1>4, <2>3
<1>5. CASE k # 0
  <2>1. k - 1 \in 0..n /\ ~(k <= k - 1)
    BY <1>3, <1>5
  <2>2. k - 1 \notin T
    BY <1>2, <2>1
  <2>3. PICK h : Sequel(h, k - 1)
    BY <1>1, <2>1, <2>2
  <2>4. PICK g : g = [i \in 0..k |-> IF i = k THEN HandleOne(h[k - 1], events[k]) ELSE h[i]]
    OBVIOUS
  <2>5. ASSUME NEW i \in 0..k
        PROVE  g[i] = IF i = 0 THEN [stack |-> stack, usable |-> usable, tops |-> tops]
                      ELSE HandleOne(g[i - 1], events[i])
    <3>1. CASE i = k
      <4>1. g[k] = HandleOne(h[k - 1], events[k]) /\ g[k - 1] = h[k - 1]
        BY <1>3, <1>5, <2>4
      <4> QED
        BY <1>5, <3>1, <4>1
    <3>2. CASE i # k
      <4>1. i \in 0..(k - 1)
        BY <1>3, <3>2
      <4>2. h[i] = IF i = 0 THEN [stack |-> stack, usable |-> usable, tops |-> tops]
                   ELSE HandleOne(h[i - 1], events[i])
        BY <2>3, <4>1 DEF Sequel
      <4>3. g[i] = h[i] /\ (i # 0 => g[i - 1] = h[i - 1])
        BY <1>3, <2>4, <3>2, <4>1
      <4> QED
        BY <4>2, <4>3
    <3> QED
      BY <3>1, <3>2
  <2>6. Sequel(g, k)
    BY <2>4, <2>5 DEF Sequel
  <2> QED
    BY <1>3, <2>6
<1> QED
  BY <1>4, <1>5

LEMMA HandleAllIs ==
    ASSUME NEW n \in Nat, n = Len(events)
    PROVE  \E h : Sequel(h, n) /\ HandleAll = h[n]
<1>1. PICK g : g = CHOOSE h : Sequel(h, n)
  OBVIOUS
<1>2. Sequel(g, n)
  BY <1>1, SequelExists
<1>3. HandleAll = g[n]
  BY <1>1 DEF HandleAll, Sequel
<1> QED
  BY <1>2, <1>3

\* How the books are after k events.
After(h, k) ==
    /\ h[k] \in Books /\ Once(h[k].stack) /\ SameTops(h[k].tops, tops)
    /\ h[k].usable # area => h[k].usable = usable /\ \A i \in 1..k : events[i].kind # "LayoutChanged"
    /\ \A w \in Tops :
          /\ \A i \in 1..k : Concerns(events[i], w) /\ (\A j \in 1..k : j > i => ~Concerns(events[j], w)) =>
                (w \in ToSet(h[k].stack) <=> Raises(events[i]))
          /\ (\A i \in 1..k : ~Concerns(events[i], w)) => (w \in ToSet(h[k].stack) <=> w \in ToSet(stack))

LEMMA AfterNone ==
    ASSUME MinimalInv, NEW n \in Nat, NEW h, Sequel(h, n)
    PROVE  After(h, 0)
<1>1. h[0] = [stack |-> stack, usable |-> usable, tops |-> tops]
  BY DEF Sequel
<1>2. h[0] \in Books /\ h[0].stack = stack /\ h[0].usable = usable /\ h[0].tops = tops
  BY <1>1 DEF Books, MinimalInv
<1>3. 1..0 = {}
  OBVIOUS
<1>4. SameTops(tops, tops)
  BY DEF SameTops
<1> QED
  BY <1>2, <1>3, <1>4 DEF After, MinimalInv

LEMMA AfterOneMore ==
    ASSUME MinimalInv, NEW n \in Nat, n = Len(events), NEW h, Sequel(h, n),
           NEW k \in 1..n, After(h, k - 1)
    PROVE  After(h, k)
<1>1. k \in 0..n /\ k # 0 /\ k - 1 \in 0..n
  OBVIOUS
<1>2. h[k] = HandleOne(h[k - 1], events[k])
  BY <1>1 DEF Sequel
<1>3. PICK x : x = h[k - 1]
  OBVIOUS
<1>4. PICK e \in Happening : e = events[k]
  BY DEF MinimalInv
<1>5. x \in Books /\ Once(x.stack) /\ area \in Areas
  BY <1>3 DEF After, MinimalInv
<1>6. PICK y : y = h[k]
  OBVIOUS
<1>7. Handles(x, e, y)
  BY <1>2, <1>3, <1>4, <1>5, <1>6, HandleOneIs
<1>8. 1..k = 1..(k - 1) \cup {k} /\ k \in 1..k /\ \A i \in 1..(k - 1) : ~(i > k) /\ k > i
  OBVIOUS
<1>9. y \in Books /\ Once(y.stack) /\ SameTops(y.tops, tops)
  BY <1>3, <1>7 DEF Handles, SameTops, After
<1>10. y.usable # area => y.usable = usable /\ \A i \in 1..k : events[i].kind # "LayoutChanged"
  BY <1>3, <1>4, <1>7, <1>8 DEF Handles, After
<1>11. ASSUME NEW w \in Tops
       PROVE  /\ \A i \in 1..k : Concerns(events[i], w) /\ (\A j \in 1..k : j > i => ~Concerns(events[j], w)) =>
                     (w \in ToSet(y.stack) <=> Raises(events[i]))
              /\ (\A i \in 1..k : ~Concerns(events[i], w)) => (w \in ToSet(y.stack) <=> w \in ToSet(stack))
  <2>1. w \in ToSet(y.stack) <=> IF Concerns(e, w) THEN Raises(e) ELSE w \in ToSet(x.stack)
    BY <1>7 DEF Handles
  <2>2. CASE Concerns(e, w)
    <3>1. ASSUME NEW i \in 1..k, \A j \in 1..k : j > i => ~Concerns(events[j], w) PROVE i = k
      BY <1>4, <1>8, <2>2, <3>1
    <3> QED
      BY <1>4, <1>8, <2>1, <2>2, <3>1
  <2>3. CASE ~Concerns(e, w)
    <3>1. ASSUME NEW i \in 1..k, Concerns(events[i], w), \A j \in 1..k : j > i => ~Concerns(events[j], w)
          PROVE  w \in ToSet(y.stack) <=> Raises(events[i])
      <4>1. i \in 1..(k - 1)
        BY <1>4, <1>8, <2>3, <3>1
      <4>2. \A j \in 1..(k - 1) : j > i => ~Concerns(events[j], w)
        BY <1>8, <3>1
      <4>3. w \in ToSet(x.stack) <=> Raises(events[i])
        BY <1>3, <3>1, <4>1, <4>2 DEF After
      <4> QED
        BY <2>1, <2>3, <4>3
    <3>2. ASSUME \A i \in 1..k : ~Concerns(events[i], w)
          PROVE  w \in ToSet(y.stack) <=> w \in ToSet(stack)
      <4>1. w \in ToSet(x.stack) <=> w \in ToSet(stack)
        BY <1>3, <1>8, <3>2 DEF After
      <4> QED
        BY <2>1, <2>3, <4>1
    <3> QED
      BY <3>1, <3>2
  <2> QED
    BY <2>2, <2>3
<1> QED
  BY <1>6, <1>9, <1>10, <1>11 DEF After

LEMMA AfterAll ==
    ASSUME MinimalInv, NEW n \in Nat, n = Len(events), NEW h, Sequel(h, n)
    PROVE  After(h, n)
<1> SUFFICES ASSUME ~After(h, n) PROVE FALSE
  OBVIOUS
<1>1. PICK T : T = {k \in 0..n : ~After(h, k)}
  OBVIOUS
<1>2. PICK k \in T : \A j \in T : k <= j
  <2>1. T \subseteq Nat /\ n \in T
    BY <1>1
  <2> QED
    BY <2>1, Least
<1>3. k \in 0..n /\ ~After(h, k)
  BY <1>1, <1>2
<1>4. k # 0
  BY <1>3, AfterNone
<1>5. k \in 1..n /\ k - 1 \in 0..n /\ ~(k <= k - 1)
  BY <1>3, <1>4
<1>6. After(h, k - 1)
  BY <1>1, <1>2, <1>5
<1> QED
  BY <1>3, <1>5, <1>6, AfterOneMore

LEMMA BatchIs ==
    ASSUME MinimalInv, NEW x, x = HandleAll
    PROVE  /\ x \in Books /\ Once(x.stack) /\ SameTops(x.tops, tops) /\ x.usable = area
           /\ \A w \in Tops : tops[w].mapped => w \in ToSet(x.stack)
<1>1. PICK n \in Nat : n = Len(events)
  BY DEF MinimalInv
<1>2. DOMAIN events = 1..n
  BY <1>1 DEF MinimalInv
<1>3. PICK h : Sequel(h, n) /\ x = h[n]
  BY <1>1, HandleAllIs
<1>4. After(h, n)
  BY <1>1, <1>3, AfterAll
<1>5. x.usable = area
  BY <1>2, <1>3, <1>4 DEF After, MinimalInv
<1>6. ASSUME NEW w \in Tops, tops[w].mapped PROVE w \in ToSet(x.stack)
  <2>1. Stays(events, stack, w)
    BY <1>6 DEF MinimalInv
  <2>2. CASE \A i \in 1..n : ~Concerns(events[i], w)
    BY <1>2, <1>3, <1>4, <2>1, <2>2 DEF After, Stays
  <2>3. CASE \E i \in 1..n : Concerns(events[i], w)
    <3>1. PICK T : T = {i \in 1..n : Concerns(events[i], w)}
      OBVIOUS
    <3>2. PICK i \in T : \A j \in T : j <= i
      <4>1. T \subseteq 0..n /\ T # {}
        BY <2>3, <3>1
      <4> QED
        BY <4>1, Greatest
    <3>3. i \in 1..n /\ Concerns(events[i], w) /\ \A j \in 1..n : j > i => ~Concerns(events[j], w)
      BY <3>1, <3>2
    <3>4. Raises(events[i])
      BY <1>2, <2>1, <3>3 DEF Stays
    <3> QED
      BY <1>3, <1>4, <1>6, <3>3, <3>4 DEF After
  <2> QED
    BY <2>2, <2>3
<1> QED
  BY <1>3, <1>4, <1>5, <1>6 DEF After

-----------------------------------------------------------------------------
(* What a dispatch does *)

LEMMA EventAppended ==
    ASSUME NEW q \in Seq(Happening), NEW e \in Happening, NEW s, NEW r, r = Append(q, e)
    PROVE  /\ r \in Seq(Happening) /\ r # <<>> /\ Len(r) = Len(q) + 1
           /\ \A w : Concerns(e, w) /\ Raises(e) => Stays(r, s, w)
           /\ \A w : ~Concerns(e, w) /\ Stays(q, s, w) => Stays(r, s, w)
           /\ (\A i \in DOMAIN r : r[i].kind # "LayoutChanged") =>
                  e.kind # "LayoutChanged" /\ \A i \in DOMAIN q : q[i].kind # "LayoutChanged"
<1>1. PICK l \in Nat : l = Len(q)
  OBVIOUS
<1>2. r \in Seq(Happening) /\ Len(r) = l + 1 /\ (\A i \in 1..l : r[i] = q[i]) /\ r[l + 1] = e
  BY <1>1, AppendProperties
<1>3. DOMAIN r = 1..(l + 1) /\ DOMAIN q = 1..l /\ l + 1 \in 1..(l + 1)
  BY <1>1, <1>2
<1>4. r # <<>>
  <2>1. DOMAIN r # {}
    BY <1>3
  <2> QED
    BY <2>1
<1>5. 1..(l + 1) = 1..l \cup {l + 1} /\ \A i \in 1..l : l + 1 > i /\ ~(i > l + 1)
  OBVIOUS
<1>6. ASSUME NEW w, Concerns(e, w), Raises(e) PROVE Stays(r, s, w)
  <2>1. ASSUME NEW i \in 1..(l + 1), \A j \in 1..(l + 1) : j > i => ~Concerns(r[j], w) PROVE i = l + 1
    BY <1>2, <1>5, <1>6, <2>1
  <2> QED
    BY <1>2, <1>3, <1>6, <2>1 DEF Stays
<1>7. ASSUME NEW w, ~Concerns(e, w), Stays(q, s, w) PROVE Stays(r, s, w)
  <2>1. ASSUME NEW i \in 1..(l + 1), Concerns(r[i], w), \A j \in 1..(l + 1) : j > i => ~Concerns(r[j], w)
        PROVE  Raises(r[i])
    <3>1. i \in 1..l
      BY <1>2, <1>5, <1>7, <2>1
    <3>2. \A j \in 1..l : j > i => ~Concerns(q[j], w)
      BY <1>2, <1>5, <2>1
    <3> QED
      BY <1>2, <1>3, <1>7, <2>1, <3>1, <3>2 DEF Stays
  <2>2. (\A i \in 1..(l + 1) : ~Concerns(r[i], w)) => w \in ToSet(s)
    BY <1>2, <1>3, <1>5, <1>7 DEF Stays
  <2> QED
    BY <1>3, <2>1, <2>2 DEF Stays
<1> QED
  BY <1>1, <1>2, <1>3, <1>4, <1>5, <1>6, <1>7

LEMMA FiredIs ==
    ASSUME NEW w \in Tops \cup {NoTop}, events \in Seq(Happening)
    PROVE  /\ \A k : Fired(<<k>>, w) /\ [kind |-> k, of |-> w] \in Happening =>
                 events' = Append(events, [kind |-> k, of |-> w])
           /\ Fired(<<"Unmap", "Destroy">>, w) /\ w \in Tops =>
                 events' = Append(Append(events, [kind |-> "Unmap", of |-> w]), [kind |-> "Destroy", of |-> w])
<1>1. PICK l \in Nat : l = Len(events)
  OBVIOUS
<1>2. PICK q \in Seq(Happening) : q = events
  OBVIOUS
<1>3. ASSUME NEW k, Fired(<<k>>, w), [kind |-> k, of |-> w] \in Happening
      PROVE  events' = Append(events, [kind |-> k, of |-> w])
  <2>1. PICK e \in Happening : e = [kind |-> k, of |-> w]
    BY <1>3
  <2>2. PICK t : t = [i \in 1..Len(<<k>>) |-> [kind |-> <<k>>[i], of |-> w]]
    OBVIOUS
  <2>3. Len(<<k>>) = 1 /\ <<k>>[1] = k /\ \A i \in 1..1 : i = 1
    OBVIOUS
  <2>4. t = [i \in 1..1 |-> e]
    BY <2>1, <2>2, <2>3
  <2>5. t \in Seq(Happening) /\ Len(t) = 1 /\ t[1] = e
    BY <2>4
  <2>6. PICK r : r = q \o t
    OBVIOUS
  <2>7. /\ r \in Seq(Happening) /\ Len(r) = l + 1
        /\ \A i \in 1..(l + 1) : r[i] = IF i <= l THEN q[i] ELSE t[i - l]
    <3>1. /\ r \in Seq(Happening) /\ Len(r) = Len(q) + Len(t)
          /\ \A i \in 1..(Len(q) + Len(t)) : r[i] = IF i <= Len(q) THEN q[i] ELSE t[i - Len(q)]
      BY <2>5, <2>6, ConcatProperties
    <3>2. Len(q) = l
      BY <1>1, <1>2
    <3> QED
      BY <2>5, <3>1, <3>2
  <2>8. PICK a : a = Append(q, e)
    OBVIOUS
  <2>9. a \in Seq(Happening) /\ Len(a) = l + 1 /\ (\A i \in 1..l : a[i] = q[i]) /\ a[l + 1] = e
    BY <1>1, <1>2, <2>8, AppendProperties
  <2>10. \A i \in 1..(l + 1) : r[i] = a[i]
    <3> TAKE i \in 1..(l + 1)
    <3>1. CASE i <= l
      BY <2>7, <2>9, <3>1
    <3>2. CASE ~(i <= l)
      <4>1. i = l + 1 /\ i - l = 1
        BY <3>2
      <4> QED
        BY <2>5, <2>7, <2>9, <3>2, <4>1
    <3> QED
      BY <3>1, <3>2
  <2>11. r = a
    <3>1. DOMAIN r = 1..(l + 1) /\ DOMAIN a = 1..(l + 1)
      BY <2>7, <2>9
    <3>2. r = [i \in 1..(l + 1) |-> r[i]] /\ a = [i \in 1..(l + 1) |-> a[i]]
      BY <2>7, <2>9, <3>1
    <3> QED
      BY <2>10, <3>2
  <2>12. events' = events \o t
    BY <1>3, <2>2 DEF Fired
  <2> QED
    BY <1>2, <2>1, <2>6, <2>8, <2>11, <2>12
<1>4. ASSUME Fired(<<"Unmap", "Destroy">>, w), w \in Tops
      PROVE  events' = Append(Append(events, [kind |-> "Unmap", of |-> w]), [kind |-> "Destroy", of |-> w])
  <2>1. PICK e \in Happening : e = [kind |-> "Unmap", of |-> w]
    BY <1>4 DEF Happening, WindowKinds
  <2>2. PICK f \in Happening : f = [kind |-> "Destroy", of |-> w]
    BY <1>4 DEF Happening, WindowKinds
  <2>3. PICK kinds : kinds = <<"Unmap", "Destroy">>
    OBVIOUS
  <2>4. Len(kinds) = 2 /\ kinds[1] = "Unmap" /\ kinds[2] = "Destroy"
    BY <2>3
  <2>5. PICK t : t = [i \in 1..2 |-> [kind |-> kinds[i], of |-> w]]
    OBVIOUS
  <2>6. \A i \in 1..2 : i = 1 \/ i = 2
    OBVIOUS
  <2>7. t[1] = e /\ t[2] = f
    BY <2>1, <2>2, <2>4, <2>5
  <2>8. t \in Seq(Happening) /\ Len(t) = 2
    <3>1. \A i \in 1..2 : t[i] \in Happening
      BY <2>1, <2>2, <2>6, <2>7
    <3>2. t \in [1..2 -> Happening]
      BY <2>5, <3>1
    <3> QED
      BY <2>5, <3>2
  <2>9. PICK r : r = q \o t
    OBVIOUS
  <2>10. /\ r \in Seq(Happening) /\ Len(r) = l + 2
         /\ \A i \in 1..(l + 2) : r[i] = IF i <= l THEN q[i] ELSE t[i - l]
    <3>1. /\ r \in Seq(Happening) /\ Len(r) = Len(q) + Len(t)
          /\ \A i \in 1..(Len(q) + Len(t)) : r[i] = IF i <= Len(q) THEN q[i] ELSE t[i - Len(q)]
      BY <1>2, <2>8, <2>9, ConcatProperties
    <3> QED
      BY <1>1, <1>2, <2>8, <3>1
  <2>11. PICK a : a = Append(q, e)
    OBVIOUS
  <2>12. a \in Seq(Happening) /\ Len(a) = l + 1 /\ (\A i \in 1..l : a[i] = q[i]) /\ a[l + 1] = e
    BY <1>1, <1>2, <2>11, AppendProperties
  <2>13. PICK b : b = Append(a, f)
    OBVIOUS
  <2>14. PICK m \in Nat : m = Len(a)
    BY <2>12
  <2>15. b \in Seq(Happening) /\ Len(b) = m + 1 /\ (\A i \in 1..m : b[i] = a[i]) /\ b[m + 1] = f
    BY <2>12, <2>13, <2>14, AppendProperties
  <2>16. m = l + 1 /\ m + 1 = l + 2
    BY <2>12, <2>14
  <2>17. \A i \in 1..(l + 2) : r[i] = b[i]
    <3> TAKE i \in 1..(l + 2)
    <3>1. CASE i <= l
      <4>1. i \in 1..l /\ i \in 1..m
        BY <2>16, <3>1
      <4>2. r[i] = q[i]
        BY <2>10, <3>1
      <4>3. b[i] = a[i] /\ a[i] = q[i]
        BY <2>12, <2>15, <4>1
      <4> QED
        BY <4>2, <4>3
    <3>2. CASE i = l + 1
      <4>1. i - l = 1 /\ ~(i <= l) /\ i \in 1..m
        BY <2>16, <3>2
      <4>2. r[i] = e
        BY <2>7, <2>10, <4>1
      <4>3. b[i] = e
        BY <2>12, <2>15, <3>2, <4>1
      <4> QED
        BY <4>2, <4>3
    <3>3. CASE i = l + 2
      <4>1. i - l = 2 /\ ~(i <= l) /\ i = m + 1
        BY <2>16, <3>3
      <4>2. r[i] = f
        BY <2>7, <2>10, <4>1
      <4> QED
        BY <2>15, <4>1, <4>2
    <3> QED
      BY <3>1, <3>2, <3>3
  <2>18. r = b
    <3>1. DOMAIN r = 1..(l + 2) /\ DOMAIN b = 1..(l + 2)
      BY <2>10, <2>15, <2>16
    <3>2. r = [i \in 1..(l + 2) |-> r[i]] /\ b = [i \in 1..(l + 2) |-> b[i]]
      BY <2>10, <2>15, <3>1
    <3> QED
      BY <2>17, <3>2
  <2>19. events' = events \o t
    BY <1>4, <2>3, <2>4, <2>5 DEF Fired
  <2> QED
    BY <1>2, <2>1, <2>2, <2>9, <2>11, <2>13, <2>18, <2>19
<1> QED
  BY <1>3, <1>4

\* What is left to check of a call that fires e last, after q.
LEMMA DispatchKeeps ==
    ASSUME MinimalInv, NEW q \in Seq(Happening), NEW e \in Happening,
           events' = Append(q, e), Len(q) <= MaxEvents, UNCHANGED <<stack, usable, shown>>,
           tops' \in [Tops -> Window], area' \in Areas,
           focused' \in Tops \cup {NoTop}, keyboard' \in Tops \cup {NoTop},
           \/ e.kind = "LayoutChanged"
           \/ area' = area /\ ((\A i \in DOMAIN q : q[i].kind # "LayoutChanged") => usable = area),
           \A w \in Tops : tops'[w].mapped =>
               tops'[w].role /\ IF Concerns(e, w) THEN Raises(e) ELSE Stays(q, stack, w)
    PROVE  MinimalInv'
<1>1. PICK r : r = events'
  OBVIOUS
<1>2. PICK s : s = stack
  OBVIOUS
<1>3. /\ r \in Seq(Happening) /\ r # <<>> /\ Len(r) = Len(q) + 1
      /\ \A w : Concerns(e, w) /\ Raises(e) => Stays(r, s, w)
      /\ \A w : ~Concerns(e, w) /\ Stays(q, s, w) => Stays(r, s, w)
      /\ (\A i \in DOMAIN r : r[i].kind # "LayoutChanged") =>
             e.kind # "LayoutChanged" /\ \A i \in DOMAIN q : q[i].kind # "LayoutChanged"
  BY <1>1, EventAppended
<1>4. Len(r) <= MaxEvents + 1
  BY <1>3, MinimalAssumption
<1>5. \A w \in Tops : tops'[w].mapped => tops'[w].role /\ Stays(r, s, w)
  BY <1>2, <1>3
<1>6. stack' \in Seq(Tops) /\ shown' \in Seq(Tops) /\ usable' \in Areas /\ Once(stack')
  BY DEF MinimalInv
<1>7. (\A i \in DOMAIN r : r[i].kind # "LayoutChanged") => usable' = area'
  BY <1>3
<1>8. stack' = s
  BY <1>2
<1> QED
  BY <1>1, <1>3, <1>4, <1>5, <1>6, <1>7, <1>8 DEF MinimalInv

LEMMA CreateWindowKeeps ==
    ASSUME MinimalInv, NEW w \in Tops, CreateWindow(w)
    PROVE  MinimalInv'
<1>1. PICK q \in Seq(Happening) : q = events
  BY DEF MinimalInv
<1>2. PICK e \in Happening : e = [kind |-> "Created", of |-> w]
  BY DEF Happening, WindowKinds
<1>3. events' = Append(q, e) /\ Len(q) <= MaxEvents /\ UNCHANGED <<stack, usable, shown>>
  BY <1>1, <1>2, FiredIs, MinimalAssumption DEF CreateWindow, Fired
<1>4. PICK x : x = [tops[w] EXCEPT !.role = TRUE, !.size = NoTop]
  OBVIOUS
<1>5. tops[w] \in Window /\ tops' = [tops EXCEPT ![w] = x] /\ ~tops[w].role /\ ~tops[w].mapped
  BY <1>4 DEF CreateWindow, MinimalInv
<1>6. x \in Window /\ ~x.mapped
  BY <1>4, <1>5 DEF Window
<1>7. tops' \in [Tops -> Window] /\ \A v \in Tops : tops'[v] = IF v = w THEN x ELSE tops[v]
  BY <1>5, <1>6 DEF MinimalInv
<1>8. \A v \in Tops : ~Concerns(e, v)
  BY <1>2 DEF Concerns
<1>9. UNCHANGED <<area, focused, keyboard>>
  BY DEF CreateWindow
<1>10. \A v \in Tops : tops'[v].mapped => tops'[v].role /\ IF Concerns(e, v) THEN Raises(e) ELSE Stays(q, stack, v)
  BY <1>1, <1>6, <1>7, <1>8 DEF MinimalInv
<1> QED
  BY <1>1, <1>3, <1>7, <1>9, <1>10, DispatchKeeps DEF MinimalInv

LEMMA MapWindowKeeps ==
    ASSUME MinimalInv, NEW w \in Tops, MapWindow(w)
    PROVE  MinimalInv'
<1>1. PICK q \in Seq(Happening) : q = events
  BY DEF MinimalInv
<1>2. PICK e \in Happening : e = [kind |-> "Map", of |-> w]
  BY DEF Happening, WindowKinds
<1>3. events' = Append(q, e) /\ Len(q) <= MaxEvents /\ UNCHANGED <<stack, usable, shown>>
  BY <1>1, <1>2, FiredIs, MinimalAssumption DEF MapWindow, Fired
<1>4. PICK x : x = [tops[w] EXCEPT !.mapped = TRUE, !.buffer = TRUE]
  OBVIOUS
<1>5. tops[w] \in Window /\ tops' = [tops EXCEPT ![w] = x] /\ tops[w].role
  BY <1>4 DEF MapWindow, MinimalInv
<1>6. x \in Window /\ x.role
  BY <1>4, <1>5 DEF Window
<1>7. tops' \in [Tops -> Window] /\ \A v \in Tops : tops'[v] = IF v = w THEN x ELSE tops[v]
  BY <1>5, <1>6 DEF MinimalInv
<1>8. (\A v \in Tops : Concerns(e, v) <=> v = w) /\ Raises(e)
  BY <1>2 DEF Concerns, Raises
<1>9. UNCHANGED <<area, focused, keyboard>>
  BY DEF MapWindow
<1>10. \A v \in Tops : tops'[v].mapped => tops'[v].role /\ IF Concerns(e, v) THEN Raises(e) ELSE Stays(q, stack, v)
  BY <1>1, <1>6, <1>7, <1>8 DEF MinimalInv
<1> QED
  BY <1>1, <1>3, <1>7, <1>9, <1>10, DispatchKeeps DEF MinimalInv

LEMMA UnmapWindowKeeps ==
    ASSUME MinimalInv, NEW w \in Tops, UnmapWindow(w)
    PROVE  MinimalInv'
<1>1. PICK q \in Seq(Happening) : q = events
  BY DEF MinimalInv
<1>2. PICK e \in Happening : e = [kind |-> "Unmap", of |-> w]
  BY DEF Happening, WindowKinds
<1>3. events' = Append(q, e) /\ Len(q) <= MaxEvents /\ UNCHANGED <<stack, usable, shown>>
  BY <1>1, <1>2, FiredIs, MinimalAssumption DEF UnmapWindow, Fired
<1>4. PICK x : x = [tops[w] EXCEPT !.mapped = FALSE, !.buffer = FALSE]
  OBVIOUS
<1>5. tops[w] \in Window /\ tops' = [tops EXCEPT ![w] = x]
  BY <1>4 DEF UnmapWindow, MinimalInv
<1>6. x \in Window /\ ~x.mapped
  BY <1>4, <1>5 DEF Window
<1>7. tops' \in [Tops -> Window] /\ \A v \in Tops : tops'[v] = IF v = w THEN x ELSE tops[v]
  BY <1>5, <1>6 DEF MinimalInv
<1>8. \A v \in Tops : Concerns(e, v) <=> v = w
  BY <1>2 DEF Concerns
<1>9. UNCHANGED <<area, focused, keyboard>>
  BY DEF UnmapWindow
<1>10. \A v \in Tops : tops'[v].mapped => tops'[v].role /\ IF Concerns(e, v) THEN Raises(e) ELSE Stays(q, stack, v)
  BY <1>1, <1>6, <1>7, <1>8 DEF MinimalInv
<1> QED
  BY <1>1, <1>3, <1>7, <1>9, <1>10, DispatchKeeps DEF MinimalInv

LEMMA DestroyWindowRoleKeeps ==
    ASSUME MinimalInv, NEW w \in Tops, DestroyWindowRole(w)
    PROVE  MinimalInv'
<1>1. PICK q0 \in Seq(Happening) : q0 = events
  BY DEF MinimalInv
<1>2. PICK e \in Happening : e = [kind |-> "Destroy", of |-> w]
  BY DEF Happening, WindowKinds
<1>3. PICK d \in Happening : d = [kind |-> "Unmap", of |-> w]
  BY DEF Happening, WindowKinds
<1>4. PICK x : x = [tops[w] EXCEPT !.role = FALSE, !.mapped = FALSE]
  OBVIOUS
<1>5. tops[w] \in Window /\ tops' = [tops EXCEPT ![w] = x]
  BY <1>4 DEF DestroyWindowRole, MinimalInv
<1>6. x \in Window /\ ~x.mapped
  BY <1>4, <1>5 DEF Window
<1>7. tops' \in [Tops -> Window] /\ \A v \in Tops : tops'[v] = IF v = w THEN x ELSE tops[v]
  BY <1>5, <1>6 DEF MinimalInv
<1>8. \A v \in Tops : (Concerns(e, v) <=> v = w) /\ (Concerns(d, v) <=> v = w)
  BY <1>2, <1>3 DEF Concerns
<1>9. /\ UNCHANGED <<area, keyboard, stack, usable, shown>> /\ focused' \in {focused, NoTop}
      /\ Len(q0) < MaxEvents /\ Len(q0) \in Nat
  BY <1>1 DEF DestroyWindowRole, Fired
<1>10. ASSUME NEW q \in Seq(Happening), events' = Append(q, e), Len(q) <= MaxEvents,
              \A v \in Tops : v # w /\ tops[v].mapped => Stays(q, stack, v),
              (\A i \in DOMAIN q : q[i].kind # "LayoutChanged") => usable = area
       PROVE  MinimalInv'
  <2>1. \A v \in Tops : tops'[v].mapped => tops'[v].role /\ IF Concerns(e, v) THEN Raises(e) ELSE Stays(q, stack, v)
    BY <1>6, <1>7, <1>8, <1>10 DEF MinimalInv
  <2>2. area' \in Areas /\ focused' \in Tops \cup {NoTop} /\ keyboard' \in Tops \cup {NoTop}
    BY <1>9 DEF MinimalInv
  <2> QED
    BY <1>7, <1>9, <1>10, <2>1, <2>2, DispatchKeeps
<1>11. CASE tops[w].mapped
  <2>1. PICK q : q = Append(q0, d)
    OBVIOUS
  <2>2. PICK s : s = stack
    OBVIOUS
  <2>3. /\ q \in Seq(Happening) /\ Len(q) = Len(q0) + 1
        /\ \A v : ~Concerns(d, v) /\ Stays(q0, s, v) => Stays(q, s, v)
        /\ (\A i \in DOMAIN q : q[i].kind # "LayoutChanged") => \A i \in DOMAIN q0 : q0[i].kind # "LayoutChanged"
    BY ZenonT(40), <2>1, EventAppended
  <2>4. events' = Append(q, e)
    BY <1>1, <1>2, <1>3, <1>11, <2>1, FiredIs DEF DestroyWindowRole
  <2>5. Len(q) <= MaxEvents
    BY <1>9, <2>3, MinimalAssumption
  <2>6. \A v \in Tops : v # w /\ tops[v].mapped => Stays(q, stack, v)
    BY <1>1, <1>8, <2>2, <2>3 DEF MinimalInv
  <2> QED
    BY <1>1, <1>10, <2>3, <2>4, <2>5, <2>6 DEF MinimalInv
<1>12. CASE ~tops[w].mapped
  <2>1. events' = Append(q0, e)
    BY <1>1, <1>2, <1>12, FiredIs DEF DestroyWindowRole
  <2>2. Len(q0) <= MaxEvents
    BY <1>9, MinimalAssumption
  <2> QED
    BY <1>1, <1>10, <2>1, <2>2 DEF MinimalInv
<1> QED
  BY <1>11, <1>12

LEMMA EmptySurfaceKeeps ==
    ASSUME MinimalInv, NEW w \in Tops, EmptySurface(w)
    PROVE  MinimalInv'
<1>1. PICK x : x = [tops[w] EXCEPT !.buffer = FALSE]
  OBVIOUS
<1>2. tops[w] \in Window /\ tops' = [tops EXCEPT ![w] = x]
  BY <1>1 DEF EmptySurface, MinimalInv
<1>3. x \in Window /\ x.mapped = tops[w].mapped /\ x.role = tops[w].role
  BY <1>1, <1>2 DEF Window
<1>4. /\ tops' \in [Tops -> Window]
      /\ \A v \in Tops : tops'[v].mapped = tops[v].mapped /\ tops'[v].role = tops[v].role
  BY <1>2, <1>3 DEF MinimalInv
<1>5. UNCHANGED <<area, focused, events, stack, usable, shown>> /\ keyboard' \in {keyboard, NoTop}
  BY DEF EmptySurface
<1>6. SceneIs => SceneIs'
  <2>1. \A i \in DOMAIN shown : shown[i] \in Tops
    BY DEF MinimalInv
  <2> QED
    BY <1>4, <1>5, <2>1 DEF SceneIs
<1> QED
  BY <1>4, <1>5, <1>6 DEF MinimalInv

LEMMA ClickKeeps ==
    ASSUME MinimalInv, NEW w \in Tops, Click(w)
    PROVE  MinimalInv'
<1>1. PICK q \in Seq(Happening) : q = events
  BY DEF MinimalInv
<1>2. PICK e \in Happening : e = [kind |-> "Button", of |-> w]
  BY DEF Happening, WindowKinds
<1>3. events' = Append(q, e) /\ Len(q) <= MaxEvents /\ UNCHANGED <<stack, usable, shown>>
  BY <1>1, <1>2, FiredIs, MinimalAssumption DEF Click, Fired
<1>4. /\ UNCHANGED <<tops, area>> /\ tops \in [Tops -> Window] /\ area \in Areas
      /\ focused' \in Tops \cup {NoTop} /\ keyboard' \in Tops \cup {NoTop}
  BY DEF Click, MinimalInv
<1>5. (\A v \in Tops : Concerns(e, v) <=> v = w) /\ Raises(e)
  BY <1>2 DEF Concerns, Raises
<1>6. \A v \in Tops : tops'[v].mapped => tops'[v].role /\ IF Concerns(e, v) THEN Raises(e) ELSE Stays(q, stack, v)
  BY <1>1, <1>4, <1>5 DEF MinimalInv
<1> QED
  BY <1>1, <1>3, <1>4, <1>6, DispatchKeeps DEF MinimalInv

LEMMA PressCycleKeeps ==
    ASSUME MinimalInv, PressCycle
    PROVE  MinimalInv'
<1>1. PICK q \in Seq(Happening) : q = events
  BY DEF MinimalInv
<1>2. PICK e \in Happening : e = [kind |-> "Cycle", of |-> NoTop]
  BY DEF Happening
<1>3. events' = Append(q, e) /\ Len(q) <= MaxEvents /\ UNCHANGED <<stack, usable, shown>>
  BY <1>1, <1>2, FiredIs, MinimalAssumption DEF PressCycle, Fired
<1>4. UNCHANGED <<tops, area, focused, keyboard>>
  BY DEF PressCycle
<1>5. \A v \in Tops : ~Concerns(e, v)
  BY <1>2 DEF Concerns
<1>6. \A v \in Tops : tops'[v].mapped => tops'[v].role /\ IF Concerns(e, v) THEN Raises(e) ELSE Stays(q, stack, v)
  BY <1>1, <1>4, <1>5 DEF MinimalInv
<1>7. tops' \in [Tops -> Window]
  BY <1>4 DEF MinimalInv
<1> QED
  BY <1>1, <1>3, <1>4, <1>6, <1>7, DispatchKeeps DEF MinimalInv

LEMMA ChangeLayoutKeeps ==
    ASSUME MinimalInv, NEW a \in Areas, ChangeLayout(a)
    PROVE  MinimalInv'
<1>1. PICK q \in Seq(Happening) : q = events
  BY DEF MinimalInv
<1>2. PICK e \in Happening : e = [kind |-> "LayoutChanged", of |-> NoTop]
  BY DEF Happening
<1>3. events' = Append(q, e) /\ Len(q) <= MaxEvents /\ UNCHANGED <<stack, usable, shown>>
  BY <1>1, <1>2, FiredIs, MinimalAssumption DEF ChangeLayout, Fired
<1>4. UNCHANGED <<tops, focused, keyboard>> /\ area' = a
  BY DEF ChangeLayout
<1>5. (\A v \in Tops : ~Concerns(e, v)) /\ e.kind = "LayoutChanged"
  BY <1>2 DEF Concerns
<1>6. \A v \in Tops : tops'[v].mapped => tops'[v].role /\ IF Concerns(e, v) THEN Raises(e) ELSE Stays(q, stack, v)
  BY <1>1, <1>4, <1>5 DEF MinimalInv
<1>7. tops' \in [Tops -> Window] /\ focused' \in Tops \cup {NoTop} /\ keyboard' \in Tops \cup {NoTop}
  BY <1>4 DEF MinimalInv
<1> QED
  BY <1>3, <1>4, <1>5, <1>6, <1>7, DispatchKeeps

-----------------------------------------------------------------------------
(* The turn *)

LEMMA TurnKeeps ==
    ASSUME MinimalInv, Turn
    PROVE  MinimalInv'
<1>1. PICK x : x = HandleAll
  OBVIOUS
<1>2. /\ x \in Books /\ Once(x.stack) /\ SameTops(x.tops, tops) /\ x.usable = area
      /\ \A w \in Tops : tops[w].mapped => w \in ToSet(x.stack)
  BY <1>1, BatchIs
<1>3. x.stack \in Seq(Tops) /\ x.usable \in Areas /\ x.tops \in [Tops -> Window]
  BY <1>2 DEF Books
<1>4. events' = <<>> /\ stack' = x.stack /\ usable' = x.usable /\ tops' = x.tops /\ area' = area
  BY <1>1 DEF Turn
<1>5. focused' \in Tops \cup {NoTop} /\ keyboard' \in Tops \cup {NoTop}
  <2>1. PICK t : t = Top(x.stack)
    OBVIOUS
  <2>2. Focus(t) => focused' \in Tops \cup {NoTop} /\ keyboard' \in Tops \cup {NoTop}
    <3>1. t = NoTop \/ t \in Tops
      <4>1. CASE x.stack = <<>>
        BY <2>1, <4>1 DEF Top
      <4>2. CASE x.stack # <<>>
        <5>1. Len(x.stack) \in Nat /\ Len(x.stack) # 0
          BY <1>3, <4>2
        <5>2. Len(x.stack) \in 1..Len(x.stack)
          BY <5>1
        <5> QED
          BY <1>3, <2>1, <4>2, <5>2 DEF Top, Last
      <4> QED
        BY <4>1, <4>2
    <3> QED
      BY <3>1 DEF Focus
  <2> QED
    BY <1>1, <2>1, <2>2 DEF Turn, MinimalInv
<1>6. PICK S : S = {i \in DOMAIN x.stack : tops[x.stack[i]].role}
  OBVIOUS
<1>7. shown' = Picked(x.stack, S)
  BY <1>1, <1>6 DEF Turn
<1>8. shown' \in Seq(Tops) /\ Once(shown') /\ ToSet(shown') = {x.stack[i] : i \in S}
  BY <1>2, <1>3, <1>6, <1>7, PickedOnce
<1>9. ASSUME NEW w \in Tops PROVE tops'[w].mapped = tops[w].mapped /\ tops'[w].role = tops[w].role
  BY <1>2, <1>4 DEF SameTops
<1>10. SceneIs'
  <2>1. ASSUME NEW w \in Tops, tops'[w].mapped PROVE w \in ToSet(shown')
    <3>1. tops[w].mapped /\ tops[w].role
      BY <1>9, <2>1 DEF MinimalInv
    <3>2. PICK i \in DOMAIN x.stack : x.stack[i] = w
      BY <1>2, <3>1 DEF ToSet
    <3> QED
      BY <1>6, <1>8, <3>1, <3>2
  <2>2. ASSUME NEW i \in DOMAIN shown' PROVE tops'[shown'[i]].role
    <3>1. shown'[i] \in ToSet(shown') /\ shown'[i] \in Tops
      BY <1>8 DEF ToSet
    <3> QED
      BY <1>6, <1>8, <1>9, <3>1
  <2> QED
    BY <1>8, <2>1, <2>2 DEF SceneIs
<1>11. ASSUME NEW w \in Tops, tops'[w].mapped PROVE tops'[w].role /\ Stays(events', stack', w)
  <2>1. tops[w].mapped /\ tops[w].role
    BY <1>9, <1>11 DEF MinimalInv
  <2>2. DOMAIN events' = {}
    BY <1>4
  <2> QED
    BY <1>2, <1>4, <1>9, <2>1, <2>2 DEF Stays
<1>12. events' \in Seq(Happening) /\ Len(events') <= MaxEvents + 1
  <2>1. Len(events') = 0 /\ events' \in Seq(Happening)
    BY <1>4
  <2> QED
    BY <2>1, MinimalAssumption
<1> QED
  BY <1>2, <1>3, <1>4, <1>5, <1>8, <1>10, <1>11, <1>12 DEF MinimalInv

LEMMA MinimalStarts == ASSUME MinimalInit PROVE MinimalInv
<1>1. PICK x : x = [role |-> FALSE, mapped |-> FALSE, buffer |-> FALSE, size |-> NoTop]
  OBVIOUS
<1>2. x \in Window /\ ~x.mapped
  BY <1>1 DEF Window
<1>3. tops = [w \in Tops |-> x]
  BY <1>1 DEF MinimalInit
<1>4. events = <<>> /\ stack = <<>> /\ shown = <<>>
  BY DEF MinimalInit
<1>5. DOMAIN events = {} /\ Len(events) = 0 /\ DOMAIN stack = {} /\ DOMAIN shown = {}
  BY <1>4
<1>6. stack \in Seq(Tops) /\ shown \in Seq(Tops) /\ events \in Seq(Happening) /\ Len(events) <= MaxEvents + 1
  BY <1>4, <1>5, MinimalAssumption
<1>7. Once(stack) /\ SceneIs
  BY <1>2, <1>3, <1>5 DEF Once, SceneIs
<1> QED
  BY <1>2, <1>3, <1>6, <1>7 DEF MinimalInit, MinimalInv

LEMMA MinimalStep ==
    ASSUME MinimalInv, [MinimalNext]_minimalVars
    PROVE  MinimalInv'
<1>1. CASE UNCHANGED minimalVars
  BY <1>1 DEF minimalVars, MinimalInv, SceneIs
<1> QED
  BY <1>1, CreateWindowKeeps, MapWindowKeeps, UnmapWindowKeeps, DestroyWindowRoleKeeps, EmptySurfaceKeeps,
     ClickKeeps, PressCycleKeeps, ChangeLayoutKeeps, TurnKeeps DEF MinimalNext

LEMMA OnceCounts ==
    ASSUME NEW s, Once(s), NEW w, w \in ToSet(s)
    PROVE  Cardinality({i \in DOMAIN s : s[i] = w}) = 1
<1>1. PICK i \in DOMAIN s : s[i] = w
  BY DEF ToSet
<1>2. {j \in DOMAIN s : s[j] = w} = {i}
  BY <1>1 DEF Once
<1> QED
  BY <1>2, FS_Singleton

\* Whatever a batch of events leaves of the windows, and however late it is
\* handled: after the turn the scene shows every mapped window once, nothing that
\* is no window any more, in the area the outputs have (examples/minimal.rs).
THEOREM EveryWindowIsShown == MinimalSpec => [](MinimalTypeOK /\ EveryWindowShown)
<1>1. MinimalInit => MinimalInv
  BY MinimalStarts
<1>2. MinimalInv /\ [MinimalNext]_minimalVars => MinimalInv'
  BY MinimalStep
<1>3. MinimalInv => MinimalTypeOK /\ EveryWindowShown
  <2> SUFFICES ASSUME MinimalInv PROVE MinimalTypeOK /\ EveryWindowShown
    OBVIOUS
  <2>1. events \in Seq([kind : Kinds, of : Tops \cup {NoTop}])
    <3>1. PICK H : H = [kind : Kinds, of : Tops \cup {NoTop}]
      OBVIOUS
    <3>2. PICK q \in Seq(Happening) : q = events
      BY DEF MinimalInv
    <3>3. Happening \subseteq H
      BY <3>1 DEF Happening, WindowKinds, Kinds
    <3>4. Len(q) \in Nat /\ q \in [1..Len(q) -> Happening]
      BY <3>2
    <3>5. q \in [1..Len(q) -> H]
      BY <3>3, <3>4
    <3>6. q \in Seq(H)
      BY <3>4, <3>5
    <3> QED
      BY <3>1, <3>2, <3>6
  <2>2. MinimalTypeOK
    BY <2>1 DEF MinimalInv, MinimalTypeOK, Window
  <2>3. ASSUME events = <<>> PROVE usable = area
    <3>1. DOMAIN events = {}
      BY <2>3
    <3> QED
      BY <3>1 DEF MinimalInv
  <2>4. EveryWindowShown
    BY <2>3, OnceCounts DEF EveryWindowShown, MinimalInv, SceneIs
  <2> QED
    BY <2>2, <2>4
<1> QED
  BY <1>1, <1>2, <1>3, PTL DEF MinimalSpec

-----------------------------------------------------------------------------
(* Regions.  A list of boxes tiles a set of points, and every call makes of *)
(* such a list one that tiles the set it should.                            *)

Tiles(s, P) ==
    /\ s \in Seq(Rects)
    /\ \A i \in DOMAIN s : ~IsEmpty(s[i])
    /\ \A i, j \in DOMAIN s : i # j => Cells(s[i]) \cap Cells(s[j]) = {}
    /\ \A p : p \in P <=> \E i \in DOMAIN s : p \in Cells(s[i])

RegionInv == Tiles(boxes, pixels) /\ Pairs(boxes) = {}

\* What the cells of a box are.
LEMMA CellsAre ==
    ASSUME NEW r \in Rects
    PROVE  /\ \A p : p \in Cells(r) <=> p \in Points /\ RectContains(r, p)
           /\ IsEmpty(r) => Cells(r) = {}
<1>1. r.x \in Int /\ r.y \in Int /\ r.width \in Int /\ r.height \in Int
  BY DEF Rects
<1>2. \A k : k \in r.x..(r.x + r.width - 1) <=> k \in Int /\ k >= r.x /\ k < r.x + r.width
  BY <1>1
<1>3. \A k : k \in r.y..(r.y + r.height - 1) <=> k \in Int /\ k >= r.y /\ k < r.y + r.height
  BY <1>1
<1>4. ASSUME NEW p PROVE p \in Cells(r) <=> p \in Points /\ RectContains(r, p)
  <2>1. ASSUME p \in Cells(r) PROVE p \in Points /\ RectContains(r, p)
    <3>1. /\ p = [x |-> p.x, y |-> p.y]
          /\ p.x \in r.x..(r.x + r.width - 1) /\ p.y \in r.y..(r.y + r.height - 1)
      BY <2>1 DEF Cells
    <3> QED
      BY <1>2, <1>3, <3>1 DEF Points, RectContains
  <2>2. ASSUME p \in Points, RectContains(r, p) PROVE p \in Cells(r)
    <3>1. p = [x |-> p.x, y |-> p.y] /\ p.x \in Int /\ p.y \in Int
      BY <2>2 DEF Points
    <3>2. p.x \in r.x..(r.x + r.width - 1) /\ p.y \in r.y..(r.y + r.height - 1)
      BY <1>2, <1>3, <2>2, <3>1 DEF RectContains
    <3> QED
      BY <3>1, <3>2 DEF Cells
  <2> QED
    BY <2>1, <2>2
<1>5. ASSUME IsEmpty(r), NEW p \in Cells(r) PROVE FALSE
  <2>1. p \in Points /\ RectContains(r, p)
    BY <1>4, <1>5
  <2> QED
    BY <1>1, <1>5, <2>1 DEF IsEmpty, RectContains, Points
<1> QED
  BY <1>4, <1>5

\* Two boxes that share a full edge are one, and no other cells are in it.
LEMMA JoinsUnite ==
    ASSUME NEW a \in Rects, NEW b \in Rects, ~IsEmpty(a), ~IsEmpty(b), Joins(a, b)
    PROVE  /\ United(a, b) \in Rects /\ ~IsEmpty(United(a, b))
           /\ \A p : p \in Cells(United(a, b)) <=> p \in Cells(a) \/ p \in Cells(b)
<1>1. /\ a.x \in Int /\ a.y \in Int /\ a.width \in Int /\ a.height \in Int
      /\ b.x \in Int /\ b.y \in Int /\ b.width \in Int /\ b.height \in Int
      /\ a.width > 0 /\ a.height > 0 /\ b.width > 0 /\ b.height > 0
  BY DEF Rects, IsEmpty
<1>2. PICK u : u = United(a, b)
  OBVIOUS
<1>3. u = Hull(a, b)
  BY <1>2 DEF United
<1>4. /\ u.x = Smaller(a.x, b.x) /\ u.y = Smaller(a.y, b.y)
      /\ u.width = Bigger(a.x + a.width, b.x + b.width) - Smaller(a.x, b.x)
      /\ u.height = Bigger(a.y + a.height, b.y + b.height) - Smaller(a.y, b.y)
      /\ u = [x |-> u.x, y |-> u.y, width |-> u.width, height |-> u.height]
  BY <1>3 DEF Hull, Span
<1>5. u \in Rects /\ ~IsEmpty(u)
  <2>1. u.x \in Int /\ u.y \in Int /\ u.width \in Int /\ u.height \in Int /\ u.width > 0 /\ u.height > 0
    BY <1>1, <1>4 DEF Smaller, Bigger
  <2> QED
    BY <1>4, <2>1 DEF Rects, IsEmpty
<1>6. ASSUME NEW p \in Points
      PROVE  RectContains(u, p) <=> RectContains(a, p) \/ RectContains(b, p)
  <2>1. p.x \in Int /\ p.y \in Int
    BY DEF Points
  <2> QED
    BY <1>1, <1>4, <2>1 DEF RectContains, Joins, Smaller, Bigger
<1> QED
  BY <1>2, <1>5, <1>6, CellsAre

LEMMA MeetIs ==
    ASSUME NEW r \in Rects, NEW b \in Rects
    PROVE  /\ Intersection(r, b) \in Rects
           /\ \A p : p \in Cells(Intersection(r, b)) <=> p \in Cells(r) /\ p \in Cells(b)
<1>1. /\ r.x \in Int /\ r.y \in Int /\ r.width \in Int /\ r.height \in Int
      /\ b.x \in Int /\ b.y \in Int /\ b.width \in Int /\ b.height \in Int
  BY DEF Rects
<1>2. Intersection(r, b) \in Rects
  BY <1>1 DEF Intersection, Span, Bigger, Smaller, Rects
<1>3. ASSUME NEW p \in Points
      PROVE  RectContains(Intersection(r, b), p) <=> RectContains(r, p) /\ RectContains(b, p)
  <2>1. p.x \in Int /\ p.y \in Int
    BY DEF Points
  <2> QED
    BY <1>1, <2>1 DEF RectContains, Intersection, Span, Bigger, Smaller
<1> QED
  BY <1>2, <1>3, CellsAre

\* The pieces above, below, left and right of a hole are apart, and all there is.
LEMMA PiecesAre ==
    ASSUME NEW r \in Rects, NEW b \in Rects, NEW h, h = Intersection(r, b), ~IsEmpty(h)
    PROVE  /\ Pieces(r, h) \in Seq(Rects) /\ Len(Pieces(r, h)) = 4
           /\ \A i, j \in 1..4 : i # j => Cells(Pieces(r, h)[i]) \cap Cells(Pieces(r, h)[j]) = {}
           /\ \A p : (\E i \in 1..4 : p \in Cells(Pieces(r, h)[i])) <=> p \in Cells(r) /\ p \notin Cells(b)
<1>1. /\ r.x \in Int /\ r.y \in Int /\ r.width \in Int /\ r.height \in Int
      /\ b.x \in Int /\ b.y \in Int /\ b.width \in Int /\ b.height \in Int
  BY DEF Rects
<1>2. h \in Rects /\ \A p : p \in Cells(h) <=> p \in Cells(r) /\ p \in Cells(b)
  BY MeetIs
<1>3. /\ h.x \in Int /\ h.y \in Int /\ h.width \in Int /\ h.height \in Int
      /\ h.width > 0 /\ h.height > 0
      /\ r.x <= h.x /\ h.x + h.width <= r.x + r.width
      /\ r.y <= h.y /\ h.y + h.height <= r.y + r.height
  <2>1. /\ h.x \in Int /\ h.y \in Int /\ h.width \in Int /\ h.height \in Int
        /\ h.width > 0 /\ h.height > 0
    BY <1>2 DEF Rects, IsEmpty
  <2>2. r.x <= h.x /\ h.x + h.width <= r.x + r.width
    BY <1>1 DEF Intersection, Span, Bigger, Smaller
  <2>3. r.y <= h.y /\ h.y + h.height <= r.y + r.height
    BY <1>1 DEF Intersection, Span, Bigger, Smaller
  <2> QED
    BY <2>1, <2>2, <2>3
<1>4. PICK above, below, left, right :
        /\ above = Span(r.x, r.y, r.x + r.width, h.y)
        /\ below = Span(r.x, h.y + h.height, r.x + r.width, r.y + r.height)
        /\ left = Span(r.x, h.y, h.x, h.y + h.height)
        /\ right = Span(h.x + h.width, h.y, r.x + r.width, h.y + h.height)
  OBVIOUS
<1>5. above \in Rects /\ below \in Rects /\ left \in Rects /\ right \in Rects
  BY <1>1, <1>3, <1>4 DEF Span, Rects
<1>6. ASSUME NEW p \in Points
      PROVE  /\ RectContains(above, p) <=> RectContains(r, p) /\ p.y < h.y
             /\ RectContains(below, p) <=> RectContains(r, p) /\ p.y >= h.y + h.height
             /\ RectContains(left, p) <=> /\ RectContains(r, p) /\ p.x < h.x
                                          /\ p.y >= h.y /\ p.y < h.y + h.height
             /\ RectContains(right, p) <=> /\ RectContains(r, p) /\ p.x >= h.x + h.width
                                           /\ p.y >= h.y /\ p.y < h.y + h.height
  <2>1. p.x \in Int /\ p.y \in Int
    BY DEF Points
  <2> QED
    BY <1>1, <1>3, <1>4, <2>1 DEF RectContains, Span
<1>7. /\ Cells(above) \cap Cells(below) = {} /\ Cells(above) \cap Cells(left) = {}
      /\ Cells(above) \cap Cells(right) = {} /\ Cells(below) \cap Cells(left) = {}
      /\ Cells(below) \cap Cells(right) = {} /\ Cells(left) \cap Cells(right) = {}
  BY <1>3, <1>5, <1>6, CellsAre DEF Points
<1>8. ASSUME NEW p
      PROVE  p \in Cells(above) \/ p \in Cells(below) \/ p \in Cells(left) \/ p \in Cells(right)
                <=> p \in Cells(r) /\ p \notin Cells(b)
  <2>1. p \in Points => (RectContains(r, p) /\ ~RectContains(h, p) <=>
            RectContains(above, p) \/ RectContains(below, p) \/ RectContains(left, p) \/ RectContains(right, p))
    <3>1. p \in Points => p.x \in Int /\ p.y \in Int
      BY DEF Points
    <3> QED
      BY <1>3, <1>6, <3>1 DEF RectContains
  <2>2. p \in Cells(h) <=> p \in Points /\ RectContains(h, p)
    BY <1>2, CellsAre
  <2> QED
    BY <1>2, <1>5, <2>1, <2>2, CellsAre
<1>9. PICK q : q = <<above, below, left, right>>
  OBVIOUS
<1>10. /\ q \in Seq(Rects) /\ Len(q) = 4
       /\ q[1] = above /\ q[2] = below /\ q[3] = left /\ q[4] = right
  BY <1>5, <1>9
<1>11. Pieces(r, h) = q
  BY <1>4, <1>9 DEF Pieces
<1>12. \A i \in 1..4 : i = 1 \/ i = 2 \/ i = 3 \/ i = 4
  OBVIOUS
<1>13. ASSUME NEW i \in 1..4, NEW j \in 1..4, i # j PROVE Cells(q[i]) \cap Cells(q[j]) = {}
  BY <1>7, <1>10, <1>12, <1>13
<1>14. \A p : (\E i \in 1..4 : p \in Cells(q[i])) <=>
            p \in Cells(above) \/ p \in Cells(below) \/ p \in Cells(left) \/ p \in Cells(right)
  BY <1>10, <1>12
<1> QED
  BY <1>8, <1>10, <1>11, <1>13, <1>14

\* What coalesce() picks is the first of the pairs that make a box.
LEMMA FirstPair ==
    ASSUME NEW s \in Seq(Rects), Pairs(s) # {}
    PROVE  \E p \in Pairs(s) : \A q \in Pairs(s) : p[1] < q[1] \/ (p[1] = q[1] /\ p[2] <= q[2])
<1>1. \A p \in Pairs(s) : p[1] \in Nat /\ p[2] \in Nat
  BY DEF Pairs
<1>2. PICK F : F = {p[1] : p \in Pairs(s)}
  OBVIOUS
<1>3. PICK i \in F : \A j \in F : i <= j
  <2>1. F \subseteq Nat /\ F # {}
    BY <1>1, <1>2
  <2> QED
    BY <2>1, Least
<1>4. PICK G : G = {p[2] : p \in {p \in Pairs(s) : p[1] = i}}
  OBVIOUS
<1>5. PICK k \in G : \A j \in G : k <= j
  <2>1. G \subseteq Nat /\ G # {}
    BY <1>1, <1>2, <1>3, <1>4
  <2> QED
    BY <2>1, Least
<1>6. PICK p \in Pairs(s) : p[1] = i /\ p[2] = k
  BY <1>4, <1>5
<1>7. ASSUME NEW q \in Pairs(s) PROVE p[1] < q[1] \/ (p[1] = q[1] /\ p[2] <= q[2])
  <2>1. q[1] \in F /\ i <= q[1] /\ (q[1] = i => q[2] \in G /\ k <= q[2])
    BY <1>2, <1>3, <1>4, <1>5
  <2> QED
    BY <1>1, <1>6, <2>1
<1> QED
  BY <1>7

LEMMA Removed ==
    ASSUME NEW S, NEW s \in Seq(S), NEW n \in Nat, n = Len(s), NEW j \in 1..n
    PROVE  /\ RemoveAt(s, j) \in Seq(S) /\ Len(RemoveAt(s, j)) = n - 1
           /\ \A k \in 1..(n - 1) : /\ k < j => RemoveAt(s, j)[k] = s[k]
                                    /\ ~(k < j) => RemoveAt(s, j)[k] = s[k + 1]
<1>1. PICK a : a = SubSeq(s, 1, j - 1)
  OBVIOUS
<1>2. PICK b : b = SubSeq(s, j + 1, n)
  OBVIOUS
<1>3. \A i \in 1..n : s[i] \in S
  OBVIOUS
<1>4. a \in Seq(S) /\ Len(a) = j - 1 /\ \A i \in 1..(j - 1) : a[i] = s[i]
  <2>1. \A i \in 1..(j - 1) : s[i] \in S
    BY <1>3
  <2>2. /\ a \in Seq(S) /\ Len(a) = IF 1 <= j - 1 THEN (j - 1) - 1 + 1 ELSE 0
        /\ \A i \in 1..((j - 1) - 1 + 1) : a[i] = s[1 + i - 1]
    BY <1>1, <2>1, SubSeqProperties
  <2> QED
    BY <2>2
<1>5. b \in Seq(S) /\ Len(b) = n - j /\ \A i \in 1..(n - j) : b[i] = s[j + i]
  <2>1. \A i \in (j + 1)..n : s[i] \in S
    BY <1>3
  <2>2. /\ b \in Seq(S) /\ Len(b) = IF j + 1 <= n THEN n - (j + 1) + 1 ELSE 0
        /\ \A i \in 1..(n - (j + 1) + 1) : b[i] = s[(j + 1) + i - 1]
    BY <1>2, <2>1, SubSeqProperties
  <2> QED
    BY <2>2
<1>6. PICK c : c = a \o b
  OBVIOUS
<1>7. /\ c \in Seq(S) /\ Len(c) = Len(a) + Len(b)
      /\ \A i \in 1..(Len(a) + Len(b)) : c[i] = IF i <= Len(a) THEN a[i] ELSE b[i - Len(a)]
  BY <1>4, <1>5, <1>6, ConcatProperties
<1>8. ASSUME NEW k \in 1..(n - 1) PROVE (k < j => c[k] = s[k]) /\ (~(k < j) => c[k] = s[k + 1])
  <2>1. c[k] = IF k <= j - 1 THEN a[k] ELSE b[k - (j - 1)]
    BY <1>4, <1>5, <1>7
  <2>2. CASE k < j
    BY <1>4, <2>1, <2>2
  <2>3. CASE ~(k < j)
    <3>1. k - (j - 1) \in 1..(n - j) /\ j + (k - (j - 1)) = k + 1
      BY <2>3
    <3> QED
      BY <1>5, <2>1, <2>3, <3>1
  <2> QED
    BY <2>2, <2>3
<1>9. RemoveAt(s, j) = c
  BY <1>1, <1>2, <1>6 DEF RemoveAt
<1> QED
  BY <1>4, <1>5, <1>7, <1>8, <1>9

-----------------------------------------------------------------------------
(* What a list tiles. *)

LEMMA JoinFirstTiles ==
    ASSUME NEW P, NEW s, Tiles(s, P), NEW n \in Nat, n = Len(s), Pairs(s) # {}
    PROVE  Tiles(JoinFirst(s), P) /\ Len(JoinFirst(s)) = n - 1
<1>1. s \in Seq(Rects) /\ DOMAIN s = 1..n
  BY DEF Tiles
<1>2. PICK f : f = CHOOSE p \in Pairs(s) : \A q \in Pairs(s) : p[1] < q[1] \/ (p[1] = q[1] /\ p[2] <= q[2])
  OBVIOUS
<1>3. f \in Pairs(s)
  BY <1>1, <1>2, FirstPair
<1>4. PICK i \in 1..n, j \in 1..n : i = f[1] /\ j = f[2] /\ i < j /\ Joins(s[i], s[j])
  BY <1>1, <1>3 DEF Pairs
<1>5. PICK u : u = United(s[i], s[j])
  OBVIOUS
<1>6. /\ u \in Rects /\ ~IsEmpty(u)
      /\ \A p : p \in Cells(u) <=> p \in Cells(s[i]) \/ p \in Cells(s[j])
  BY <1>1, <1>4, <1>5, JoinsUnite DEF Tiles
<1>7. PICK t : t = [s EXCEPT ![i] = u]
  OBVIOUS
<1>8. /\ t \in Seq(Rects) /\ Len(t) = n /\ t[i] = u
      /\ \A m \in 1..n : m # i => t[m] = s[m]
  BY <1>1, <1>6, <1>7
<1>9. PICK v : v = RemoveAt(t, j)
  OBVIOUS
<1>10. /\ v \in Seq(Rects) /\ Len(v) = n - 1
       /\ \A k \in 1..(n - 1) : (k < j => v[k] = t[k]) /\ (~(k < j) => v[k] = t[k + 1])
  <2>1. /\ RemoveAt(t, j) \in Seq(Rects) /\ Len(RemoveAt(t, j)) = n - 1
        /\ \A k \in 1..(n - 1) : /\ k < j => RemoveAt(t, j)[k] = t[k]
                                 /\ ~(k < j) => RemoveAt(t, j)[k] = t[k + 1]
    BY <1>8, Removed
  <2> QED
    BY <1>9, <2>1
<1>11. JoinFirst(s) = v
  BY <1>2, <1>4, <1>5, <1>7, <1>9 DEF JoinFirst
<1>12. PICK slot : slot = [k \in 1..(n - 1) |-> IF k < j THEN k ELSE k + 1]
  OBVIOUS
<1>13. /\ \A k \in 1..(n - 1) : slot[k] \in 1..n /\ slot[k] # j /\ v[k] = t[slot[k]]
       /\ \A k, m \in 1..(n - 1) : k # m => slot[k] # slot[m]
  BY <1>10, <1>12
<1>14. \A m \in 1..n : m # j => \E k \in 1..(n - 1) : slot[k] = m
  <2> SUFFICES ASSUME NEW m \in 1..n, m # j PROVE \E k \in 1..(n - 1) : slot[k] = m
    OBVIOUS
  <2>1. CASE m < j
    <3>1. m \in 1..(n - 1)
      BY <2>1
    <3> QED
      BY <1>12, <2>1, <3>1
  <2>2. CASE m > j
    <3>1. m - 1 \in 1..(n - 1) /\ ~(m - 1 < j) /\ (m - 1) + 1 = m
      BY <2>2
    <3> QED
      BY <1>12, <3>1
  <2> QED
    BY <2>1, <2>2
<1>15. \A m \in 1..n : \A p : p \in Cells(t[m]) <=> p \in Cells(s[m]) \/ (m = i /\ p \in Cells(s[j]))
  BY <1>6, <1>8
<1>16. \A k \in 1..(n - 1) : ~IsEmpty(v[k])
  <2> SUFFICES ASSUME NEW k \in 1..(n - 1) PROVE ~IsEmpty(v[k])
    OBVIOUS
  <2>1. PICK a \in 1..n : v[k] = t[a]
    BY <1>13
  <2>2. ~IsEmpty(s[a])
    BY <1>1 DEF Tiles
  <2> QED
    BY <1>6, <1>8, <2>1, <2>2
<1>17. ASSUME NEW k \in 1..(n - 1), NEW m \in 1..(n - 1), k # m, NEW p, p \in Cells(v[k]), p \in Cells(v[m])
       PROVE  FALSE
  <2>1. PICK a \in 1..n, b \in 1..n : a = slot[k] /\ b = slot[m] /\ a # b /\ a # j /\ b # j
    BY ZenonT(40), <1>13, <1>17
  <2>2. p \in Cells(s[a]) \/ (a = i /\ p \in Cells(s[j]))
    BY <1>13, <1>15, <1>17, <2>1
  <2>3. p \in Cells(s[b]) \/ (b = i /\ p \in Cells(s[j]))
    BY <1>13, <1>15, <1>17, <2>1
  <2>4. \A x, y \in 1..n : x # y => ~(p \in Cells(s[x]) /\ p \in Cells(s[y]))
    BY <1>1 DEF Tiles
  <2> QED
    BY <1>4, <2>1, <2>2, <2>3, <2>4
<1>18. ASSUME NEW p PROVE p \in P <=> \E k \in 1..(n - 1) : p \in Cells(v[k])
  <2>1. p \in P <=> \E m \in 1..n : p \in Cells(s[m])
    BY <1>1 DEF Tiles
  <2>2. ASSUME NEW m \in 1..n, p \in Cells(s[m]) PROVE \E k \in 1..(n - 1) : p \in Cells(v[k])
    <3>1. PICK a \in 1..n : a # j /\ p \in Cells(t[a])
      BY SMTT(30), <1>4, <1>15, <2>2
    <3>2. PICK k \in 1..(n - 1) : slot[k] = a
      BY <1>14, <3>1
    <3> QED
      BY <1>13, <3>1, <3>2
  <2>3. ASSUME NEW k \in 1..(n - 1), p \in Cells(v[k]) PROVE \E m \in 1..n : p \in Cells(s[m])
    <3>1. PICK a \in 1..n : p \in Cells(t[a])
      BY <1>13, <2>3
    <3> QED
      BY <1>4, <1>15, <3>1
  <2> QED
    BY <2>1, <2>2, <2>3
<1>19. DOMAIN v = 1..(n - 1)
  BY <1>10
<1>20. Tiles(v, P)
  BY <1>10, <1>16, <1>17, <1>18, <1>19 DEF Tiles
<1> QED
  BY <1>10, <1>11, <1>20

\* Joining goes on until no two boxes are one, and changes no cell.
LEMMA CoalescedTiles ==
    ASSUME NEW P, NEW s, Tiles(s, P)
    PROVE  Tiles(Coalesced(s), P) /\ Pairs(Coalesced(s)) = {}
<1>1. PICK n \in Nat : n = Len(s)
  BY DEF Tiles
<1>2. PICK S : S = [k \in 0..n |-> {t \in Seq(Rects) : Tiles(t, P) /\ (Pairs(t) = {} \/ Len(t) = n - k)}]
  OBVIOUS
<1>3. PICK step : step = [k \in 1..n |-> [t \in S[k - 1] |-> JoinFirst(t)]]
  OBVIOUS
<1>4. s \in S[0]
  <2>1. s \in Seq(Rects) /\ Len(s) = n - 0 /\ 0 \in 0..n
    BY <1>1 DEF Tiles
  <2> QED
    BY <1>2, <2>1
<1>5. ASSUME NEW k \in 1..n, NEW t \in S[k - 1] PROVE JoinFirst(t) \in S[k]
  <2>1. k - 1 \in 0..n /\ k \in 0..n
    OBVIOUS
  <2>2. t \in Seq(Rects) /\ Tiles(t, P) /\ (Pairs(t) = {} \/ Len(t) = n - (k - 1))
    BY <1>2, <1>5, <2>1
  <2>3. CASE Pairs(t) = {}
    BY <1>2, <2>1, <2>2, <2>3 DEF JoinFirst
  <2>4. CASE Pairs(t) # {}
    <3>1. PICK m \in Nat : m = Len(t)
      BY <2>2
    <3>2. Tiles(JoinFirst(t), P) /\ Len(JoinFirst(t)) = m - 1 /\ m - 1 = n - k
      BY <2>2, <2>4, <3>1, JoinFirstTiles
    <3>3. JoinFirst(t) \in Seq(Rects)
      BY <3>2 DEF Tiles
    <3> QED
      BY <1>2, <2>1, <3>2, <3>3
  <2> QED
    BY <2>3, <2>4
<1>6. Rounds(step, n, S)
  BY <1>3, <1>5 DEF Rounds
<1>7. PICK h : Trace(h, step, s, n, S)
  BY <1>4, <1>6, Iterates
<1>8. h = [k \in 0..n |-> IF k = 0 THEN s ELSE JoinFirst(h[k - 1])]
  <2>1. ASSUME NEW k \in 0..n, k # 0 PROVE step[k][h[k - 1]] = JoinFirst(h[k - 1])
    <3>1. k \in 1..n /\ k - 1 \in 0..n
      BY <2>1
    <3>2. h[k - 1] \in S[k - 1]
      BY <1>7, <3>1 DEF Trace
    <3> QED
      BY <1>3, <3>1, <3>2
  <2> QED
    BY <1>7, <2>1 DEF Trace
<1>9. PICK g : g = CHOOSE x : x = [k \in 0..n |-> IF k = 0 THEN s ELSE JoinFirst(x[k - 1])]
  OBVIOUS
<1>10. g = [k \in 0..n |-> IF k = 0 THEN s ELSE JoinFirst(g[k - 1])]
  BY <1>8, <1>9
<1>11. PICK T : T = {k \in 0..n : g[k] = h[k]}
  OBVIOUS
<1>12. 0 \in T /\ \A k \in 1..n : k - 1 \in T => k \in T
  BY <1>8, <1>10, <1>11
<1>13. g[n] = h[n] /\ h[n] \in S[n]
  <2>1. n \in 0..n
    OBVIOUS
  <2>2. \A k \in 0..n : k \in T
    BY <1>12, Upto
  <2> QED
    BY <1>7, <1>11, <2>1, <2>2 DEF Trace
<1>14. Coalesced(s) = g[n]
  BY <1>1, <1>9 DEF Coalesced
<1>15. PICK t : t = Coalesced(s)
  OBVIOUS
<1>16. t \in Seq(Rects) /\ Tiles(t, P) /\ (Pairs(t) = {} \/ Len(t) = n - n)
  BY <1>2, <1>13, <1>14, <1>15
<1>17. Len(t) = 0 => Pairs(t) = {}
  BY <1>16 DEF Pairs
<1> QED
  BY <1>15, <1>16, <1>17

LEMMA SmallTiles ==
    /\ Tiles(<<>>, {})
    /\ \A r \in Rects : ~IsEmpty(r) => Tiles(<<r>>, Cells(r))
<1>1. Tiles(<<>>, {})
  BY DEF Tiles
<1>2. ASSUME NEW r \in Rects, ~IsEmpty(r) PROVE Tiles(<<r>>, Cells(r))
  <2>1. PICK s : s = <<r>>
    OBVIOUS
  <2>2. s \in Seq(Rects) /\ DOMAIN s = {1} /\ s[1] = r
    BY <2>1
  <2>3. Tiles(s, Cells(r))
    BY <1>2, <2>2 DEF Tiles
  <2> QED
    BY <2>1, <2>3
<1> QED
  BY <1>1, <1>2

LEMMA ConcatTiles ==
    ASSUME NEW P, NEW Q, NEW s, NEW t, Tiles(s, P), Tiles(t, Q), P \cap Q = {}
    PROVE  Tiles(s \o t, P \cup Q)
<1>1. s \in Seq(Rects) /\ t \in Seq(Rects)
  BY DEF Tiles
<1>2. PICK m \in Nat, n \in Nat : m = Len(s) /\ n = Len(t)
  BY <1>1
<1>3. DOMAIN s = 1..m /\ DOMAIN t = 1..n
  BY <1>1, <1>2
<1>4. PICK v : v = s \o t
  OBVIOUS
<1>5. /\ v \in Seq(Rects) /\ Len(v) = Len(s) + Len(t)
      /\ \A i \in 1..(Len(s) + Len(t)) : v[i] = IF i <= Len(s) THEN s[i] ELSE t[i - Len(s)]
  BY <1>1, <1>4, ConcatProperties
<1>6. /\ DOMAIN v = 1..(m + n)
      /\ \A i \in 1..m : i \in 1..(m + n) /\ v[i] = s[i]
      /\ \A i \in 1..n : m + i \in 1..(m + n) /\ v[m + i] = t[i]
      /\ \A i \in 1..(m + n) : ~(i <= m) => i - m \in 1..n /\ v[i] = t[i - m]
      /\ \A i \in 1..(m + n) : i <= m => i \in 1..m /\ v[i] = s[i]
  <2>1. /\ v \in Seq(Rects) /\ Len(v) = m + n
        /\ \A i \in 1..(m + n) : v[i] = IF i <= m THEN s[i] ELSE t[i - m]
    BY <1>2, <1>5
  <2>2. ASSUME NEW i \in 1..n PROVE m + i \in 1..(m + n) /\ v[m + i] = t[i]
    <3>1. m + i \in 1..(m + n) /\ ~(m + i <= m) /\ (m + i) - m = i
      OBVIOUS
    <3> QED
      BY <2>1, <3>1
  <2>3. ASSUME NEW i \in 1..m PROVE i \in 1..(m + n) /\ v[i] = s[i]
    BY <2>1
  <2>4. ASSUME NEW i \in 1..(m + n)
        PROVE  /\ ~(i <= m) => i - m \in 1..n /\ v[i] = t[i - m]
               /\ i <= m => i \in 1..m /\ v[i] = s[i]
    BY <2>1
  <2> QED
    BY <2>1, <2>2, <2>3, <2>4
<1>7. \A i \in 1..(m + n) : ~IsEmpty(v[i])
  BY <1>3, <1>6 DEF Tiles
<1>8. \A i \in 1..m : \A p \in Cells(s[i]) : p \in P
  BY <1>3 DEF Tiles
<1>9. \A i \in 1..n : \A p \in Cells(t[i]) : p \in Q
  BY <1>3 DEF Tiles
<1>10. ASSUME NEW i \in 1..(m + n), NEW j \in 1..(m + n), i # j, NEW p, p \in Cells(v[i]), p \in Cells(v[j])
       PROVE  FALSE
  <2>1. CASE i <= m /\ j <= m
    <3>1. i \in 1..m /\ j \in 1..m /\ p \in Cells(s[i]) /\ p \in Cells(s[j])
      BY <1>6, <1>10, <2>1
    <3> QED
      BY <1>3, <1>10, <3>1 DEF Tiles
  <2>2. CASE ~(i <= m) /\ ~(j <= m)
    <3>1. PICK x \in 1..n, y \in 1..n : x = i - m /\ y = j - m
      BY <1>6, <2>2
    <3>2. x # y /\ p \in Cells(t[x]) /\ p \in Cells(t[y])
      BY <1>6, <1>10, <2>2, <3>1
    <3> QED
      BY <1>3, <3>2 DEF Tiles
  <2>3. CASE i <= m /\ ~(j <= m)
    BY <1>6, <1>8, <1>9, <1>10, <2>3
  <2>4. CASE ~(i <= m) /\ j <= m
    BY <1>6, <1>8, <1>9, <1>10, <2>4
  <2> QED
    BY <2>1, <2>2, <2>3, <2>4
<1>11. ASSUME NEW p PROVE p \in P \cup Q <=> \E i \in 1..(m + n) : p \in Cells(v[i])
  <2>1. p \in P => \E i \in 1..m : p \in Cells(s[i])
    BY <1>3 DEF Tiles
  <2>2. p \in Q => \E i \in 1..n : p \in Cells(t[i])
    BY <1>3 DEF Tiles
  <2> QED
    BY <1>6, <1>8, <1>9, <2>1, <2>2
<1>12. Tiles(v, P \cup Q)
  BY <1>5, <1>6, <1>7, <1>10, <1>11 DEF Tiles
<1> QED
  BY <1>4, <1>12

\* Lists that tile sets with no point in common tile, one after the other, their union.
LEMMA FlattenTiles ==
    ASSUME NEW q \in Seq(Seq(Rects)), NEW n \in Nat, n = Len(q), NEW R,
           \A i \in 1..n : Tiles(q[i], R[i]),
           \A i, j \in 1..n : i # j => R[i] \cap R[j] = {},
           NEW P, \A p : p \in P <=> \E i \in 1..n : p \in R[i]
    PROVE  Tiles(FlattenSeq(q), P)
<1>1. CASE n = 0
  <2>1. q = <<>> /\ P = {}
    <3>1. 1..n = {}
      BY <1>1
    <3>2. Len(q) = 0
      BY <1>1
    <3> QED
      BY <3>1, <3>2, EmptySeq
  <2>2. FlattenSeq(q) = q
    BY <1>1 DEF FlattenSeq
  <2> QED
    BY <2>1, <2>2, SmallTiles
<1>2. CASE n # 0
  <2>1. PICK U : U = [k \in 0..n |-> {p \in P : \E i \in 1..k : p \in R[i]}]
    OBVIOUS
  <2>2. PICK S : S = [k \in 0..n |-> {t \in Seq(Rects) : Tiles(t, U[k])}]
    OBVIOUS
  <2>3. PICK step : step = [k \in 1..n |-> [t \in S[k - 1] |-> t \o q[k]]]
    OBVIOUS
  <2>4. <<>> \in S[0]
    <3>1. 0 \in 0..n /\ U[0] = {} /\ <<>> \in Seq(Rects)
      BY <2>1
    <3> QED
      BY <2>2, <3>1, SmallTiles
  <2>5. ASSUME NEW k \in 1..n, NEW t \in S[k - 1] PROVE t \o q[k] \in S[k]
    <3>1. k - 1 \in 0..n /\ k \in 0..n
      OBVIOUS
    <3>2. Tiles(t, U[k - 1])
      BY <2>2, <2>5, <3>1
    <3>3. U[k - 1] \cap R[k] = {}
      <4> SUFFICES ASSUME NEW p \in U[k - 1], p \in R[k] PROVE FALSE
        OBVIOUS
      <4>1. PICK i \in 1..(k - 1) : p \in R[i]
        BY <2>1, <3>1
      <4>2. i \in 1..n /\ i # k
        OBVIOUS
      <4> QED
        BY <4>1, <4>2
    <3>4. U[k] = U[k - 1] \cup R[k]
      <4>1. \A i \in 1..k : i = k \/ i \in 1..(k - 1)
        OBVIOUS
      <4>2. k \in 1..k /\ \A i \in 1..(k - 1) : i \in 1..k
        OBVIOUS
      <4>3. \A p : p \in U[k] <=> p \in P /\ \E i \in 1..k : p \in R[i]
        BY <2>1, <3>1
      <4>4. \A p : p \in U[k - 1] <=> p \in P /\ \E i \in 1..(k - 1) : p \in R[i]
        BY <2>1, <3>1
      <4> QED
        BY <4>1, <4>2, <4>3, <4>4
    <3>5. Tiles(t \o q[k], U[k])
      BY <3>2, <3>3, <3>4, ConcatTiles
    <3>6. t \o q[k] \in Seq(Rects)
      BY <3>5 DEF Tiles
    <3> QED
      BY <2>2, <3>1, <3>5, <3>6
  <2>6. Rounds(step, n, S)
    BY <2>3, <2>5 DEF Rounds
  <2>7. PICK h : Trace(h, step, <<>>, n, S)
    BY <2>4, <2>6, Iterates
  <2>8. h[0] = <<>> /\ \A k \in 1..n : h[k] = h[k - 1] \o q[k]
    <3>1. ASSUME NEW k \in 1..n PROVE h[k] = h[k - 1] \o q[k]
      <4>1. k - 1 \in 0..n /\ k \in 0..n /\ k # 0
        OBVIOUS
      <4>2. h[k] = step[k][h[k - 1]] /\ h[k - 1] \in S[k - 1]
        BY <2>7, <4>1 DEF Trace
      <4> QED
        BY <2>3, <4>2
    <3>2. 0 \in 0..n
      OBVIOUS
    <3> QED
      BY <2>7, <3>1, <3>2 DEF Trace
  <2>9. h[1] = q[1]
    <3>1. 1 \in 1..n /\ q[1] \in Seq(Rects)
      BY <1>2
    <3>2. PICK k \in 1..n, j \in Int : k = 1 /\ j = k - 1 /\ j = 0
      BY <3>1
    <3>3. h[1] = <<>> \o q[1]
      <4>1. h[k] = h[j] \o q[k]
        BY <2>8, <3>2
      <4> QED
        BY <2>8, <3>2, <4>1
    <3> QED
      BY <3>1, <3>3, ConcatEmptySeq
  <2>10. PICK f : f = [i \in 1..n |-> h[i]]
    OBVIOUS
  <2>11. f = [i \in 1..n |-> IF i = 1 THEN q[i] ELSE f[i - 1] \o q[i]]
    <3>1. ASSUME NEW i \in 1..n PROVE h[i] = IF i = 1 THEN q[i] ELSE f[i - 1] \o q[i]
      <4>1. i # 1 => i - 1 \in 1..n
        OBVIOUS
      <4> QED
        BY <2>8, <2>9, <2>10, <4>1
    <3> QED
      BY <2>10, <3>1
  <2>12. PICK g : g = CHOOSE x : x = [i \in 1..n |-> IF i = 1 THEN q[i] ELSE x[i - 1] \o q[i]]
    OBVIOUS
  <2>13. g = [i \in 1..n |-> IF i = 1 THEN q[i] ELSE g[i - 1] \o q[i]]
    BY <2>11, <2>12
  <2>14. PICK T : T = {k \in 0..n : k = 0 \/ g[k] = h[k]}
    OBVIOUS
  <2>15. 0 \in T
    BY <2>14
  <2>16. ASSUME NEW k \in 1..n, k - 1 \in T PROVE k \in T
    <3>1. CASE k = 1
      BY <2>9, <2>13, <2>14, <3>1
    <3>2. CASE k # 1
      <4>1. k - 1 # 0 /\ k \in 0..n
        BY <3>2
      <4>2. g[k - 1] = h[k - 1]
        BY <2>14, <2>16, <4>1
      <4>3. g[k] = g[k - 1] \o q[k]
        BY <2>13, <3>2
      <4> QED
        BY <2>8, <2>14, <4>1, <4>2, <4>3
    <3> QED
      BY <3>1, <3>2
  <2>17. \A k \in 0..n : k \in T
    BY <2>15, <2>16, Upto
  <2>18. n \in 0..n
    OBVIOUS
  <2>19. g[n] = h[n] /\ h[n] \in S[n]
    BY <1>2, <2>7, <2>14, <2>17, <2>18 DEF Trace
  <2>20. FlattenSeq(q) = g[n]
    BY <1>2, <2>12 DEF FlattenSeq
  <2>21. U[n] = P
    BY <2>1, <2>18
  <2> QED
    BY <2>2, <2>18, <2>19, <2>20, <2>21
<1> QED
  BY <1>1, <1>2

LEMMA NotEmptyTiles ==
    ASSUME NEW s \in Seq(Rects), NEW n \in Nat, n = Len(s),
           \A i, j \in 1..n : i # j => Cells(s[i]) \cap Cells(s[j]) = {},
           NEW P, \A p : p \in P <=> \E i \in 1..n : p \in Cells(s[i])
    PROVE  Tiles(NotEmpty(s), P)
<1>1. PICK q : q = [i \in 1..n |-> IF IsEmpty(s[i]) THEN <<>> ELSE <<s[i]>>]
  OBVIOUS
<1>2. PICK R : R = [i \in 1..n |-> Cells(s[i])]
  OBVIOUS
<1>3. ASSUME NEW i \in 1..n PROVE Tiles(q[i], R[i]) /\ q[i] \in Seq(Rects)
  <2>1. s[i] \in Rects
    OBVIOUS
  <2>2. Tiles(q[i], R[i])
    BY <1>1, <1>2, <2>1, SmallTiles, CellsAre
  <2> QED
    BY <2>2 DEF Tiles
<1>4. q \in Seq(Seq(Rects)) /\ Len(q) = n
  BY <1>1, <1>3
<1>5. \A i, j \in 1..n : i # j => R[i] \cap R[j] = {}
  BY <1>2
<1>6. \A p : p \in P <=> \E i \in 1..n : p \in R[i]
  BY <1>2
<1>7. Tiles(FlattenSeq(q), P)
  BY <1>3, <1>4, <1>5, <1>6, FlattenTiles
<1>8. NotEmpty(s) = FlattenSeq(q)
  BY <1>1 DEF NotEmpty
<1> QED
  BY <1>7, <1>8

LEMMA LeftTiles ==
    ASSUME NEW r \in Rects, ~IsEmpty(r), NEW b \in Rects
    PROVE  Tiles(Left(r, b), Cells(r) \ Cells(b))
<1>1. PICK h : h = Intersection(r, b)
  OBVIOUS
<1>2. h \in Rects /\ \A p : p \in Cells(h) <=> p \in Cells(r) /\ p \in Cells(b)
  BY <1>1, MeetIs
<1>3. CASE IsEmpty(h)
  <2>1. Cells(r) \ Cells(b) = Cells(r)
    BY <1>2, <1>3, CellsAre
  <2>2. Left(r, b) = <<r>>
    BY <1>1, <1>3 DEF Left
  <2> QED
    BY <2>1, <2>2, SmallTiles
<1>4. CASE ~IsEmpty(h)
  <2>1. PICK s : s = Pieces(r, h)
    OBVIOUS
  <2>2. /\ s \in Seq(Rects) /\ Len(s) = 4
        /\ \A i, j \in 1..4 : i # j => Cells(s[i]) \cap Cells(s[j]) = {}
        /\ \A p : (\E i \in 1..4 : p \in Cells(s[i])) <=> p \in Cells(r) /\ p \notin Cells(b)
    <3>1. Pieces(r, h) \in Seq(Rects) /\ Len(Pieces(r, h)) = 4
      BY <1>1, <1>4, PiecesAre
    <3>2. \A i, j \in 1..4 : i # j => Cells(Pieces(r, h)[i]) \cap Cells(Pieces(r, h)[j]) = {}
      BY <1>1, <1>4, PiecesAre
    <3>3. \A p : (\E i \in 1..4 : p \in Cells(Pieces(r, h)[i])) <=> p \in Cells(r) /\ p \notin Cells(b)
      BY <1>1, <1>4, PiecesAre
    <3> QED
      BY <2>1, <3>1, <3>2, <3>3
  <2>3. PICK P : P = Cells(r) \ Cells(b)
    OBVIOUS
  <2>4. \A p : p \in P <=> \E i \in 1..4 : p \in Cells(s[i])
    BY <2>2, <2>3
  <2>5. Tiles(NotEmpty(s), P)
    BY <2>2, <2>4, NotEmptyTiles
  <2>6. Left(r, b) = NotEmpty(s)
    BY <1>1, <1>4, <2>1 DEF Left
  <2> QED
    BY <2>3, <2>5, <2>6
<1> QED
  BY <1>3, <1>4

-----------------------------------------------------------------------------
(* The calls. *)

LEMMA SubtractedTiles ==
    ASSUME NEW P, NEW s, Tiles(s, P), Pairs(s) = {}, NEW b \in Rects
    PROVE  Tiles(Subtracted(s, b), P \ Cells(b)) /\ Pairs(Subtracted(s, b)) = {}
<1>1. CASE IsEmpty(b) \/ s = <<>>
  <2>1. P \ Cells(b) = P
    <3>1. IsEmpty(b) => Cells(b) = {}
      BY CellsAre
    <3>2. s = <<>> => P = {}
      BY DEF Tiles
    <3> QED
      BY <1>1, <3>1, <3>2
  <2> QED
    BY <1>1, <2>1 DEF Subtracted
<1>2. CASE ~(IsEmpty(b) \/ s = <<>>)
  <2>1. s \in Seq(Rects)
    BY DEF Tiles
  <2>2. PICK n \in Nat : n = Len(s)
    BY <2>1
  <2>3. PICK q : q = [i \in 1..n |-> Left(s[i], b)]
    OBVIOUS
  <2>4. PICK R : R = [i \in 1..n |-> Cells(s[i]) \ Cells(b)]
    OBVIOUS
  <2>5. ASSUME NEW i \in 1..n PROVE Tiles(q[i], R[i]) /\ q[i] \in Seq(Rects)
    <3>1. s[i] \in Rects /\ ~IsEmpty(s[i])
      BY <2>1, <2>2 DEF Tiles
    <3>2. Tiles(q[i], R[i])
      BY <2>3, <2>4, <3>1, LeftTiles
    <3> QED
      BY <3>2 DEF Tiles
  <2>6. q \in Seq(Seq(Rects)) /\ Len(q) = n
    BY <2>3, <2>5
  <2>7. \A i, j \in 1..n : i # j => R[i] \cap R[j] = {}
    <3>1. \A i, j \in 1..n : i # j => Cells(s[i]) \cap Cells(s[j]) = {}
      BY <2>1, <2>2 DEF Tiles
    <3> QED
      BY <2>4, <3>1
  <2>8. PICK Q : Q = P \ Cells(b)
    OBVIOUS
  <2>9. \A p : p \in Q <=> \E i \in 1..n : p \in R[i]
    <3>1. \A p : p \in P <=> \E i \in 1..n : p \in Cells(s[i])
      BY <2>1, <2>2 DEF Tiles
    <3> QED
      BY <2>4, <2>8, <3>1
  <2>10. Tiles(FlattenSeq(q), Q)
    BY <2>5, <2>6, <2>7, <2>9, FlattenTiles
  <2>11. Subtracted(s, b) = Coalesced(FlattenSeq(q))
    BY <1>2, <2>1, <2>2, <2>3 DEF Subtracted
  <2> QED
    BY <2>8, <2>10, <2>11, CoalescedTiles
<1> QED
  BY <1>1, <1>2

LEMMA AddedTiles ==
    ASSUME NEW P, NEW s, Tiles(s, P), Pairs(s) = {}, NEW b \in Rects
    PROVE  Tiles(Added(s, b), P \cup Cells(b)) /\ Pairs(Added(s, b)) = {}
<1>1. CASE IsEmpty(b)
  <2>1. P \cup Cells(b) = P
    BY <1>1, CellsAre
  <2> QED
    BY <1>1, <2>1 DEF Added
<1>2. CASE ~IsEmpty(b)
  <2>1. PICK t : t = Subtracted(s, b)
    OBVIOUS
  <2>2. Tiles(t, P \ Cells(b))
    BY <2>1, SubtractedTiles
  <2>3. Tiles(<<b>>, Cells(b))
    BY <1>2, SmallTiles
  <2>4. Tiles(t \o <<b>>, (P \ Cells(b)) \cup Cells(b))
    <3>1. (P \ Cells(b)) \cap Cells(b) = {}
      OBVIOUS
    <3> QED
      BY <2>2, <2>3, <3>1, ConcatTiles
  <2>5. (P \ Cells(b)) \cup Cells(b) = P \cup Cells(b)
    OBVIOUS
  <2>6. Append(t, b) = t \o <<b>>
    <3>1. t \in Seq(Rects)
      BY <2>2 DEF Tiles
    <3> QED
      BY <3>1, AppendIsConcat
  <2>7. Tiles(Append(t, b), P \cup Cells(b))
    BY <2>4, <2>5, <2>6
  <2>8. Added(s, b) = Coalesced(Append(t, b))
    BY <1>2, <2>1 DEF Added
  <2> QED
    BY <2>7, <2>8, CoalescedTiles
<1> QED
  BY <1>1, <1>2

LEMMA IntersectedTiles ==
    ASSUME NEW P, NEW s, Tiles(s, P), NEW b \in Rects
    PROVE  Tiles(Intersected(s, b), P \cap Cells(b)) /\ Pairs(Intersected(s, b)) = {}
<1>1. s \in Seq(Rects)
  BY DEF Tiles
<1>2. PICK n \in Nat : n = Len(s)
  BY <1>1
<1>3. PICK t : t = [i \in 1..n |-> Intersection(s[i], b)]
  OBVIOUS
<1>4. ASSUME NEW i \in 1..n
      PROVE  t[i] \in Rects /\ \A p : p \in Cells(t[i]) <=> p \in Cells(s[i]) /\ p \in Cells(b)
  <2>1. s[i] \in Rects
    BY <1>1, <1>2
  <2> QED
    BY <1>3, <2>1, MeetIs
<1>5. t \in Seq(Rects) /\ Len(t) = n
  BY <1>3, <1>4
<1>6. \A i, j \in 1..n : i # j => Cells(t[i]) \cap Cells(t[j]) = {}
  <2>1. \A i, j \in 1..n : i # j => Cells(s[i]) \cap Cells(s[j]) = {}
    BY <1>1, <1>2 DEF Tiles
  <2> QED
    BY <1>4, <2>1
<1>7. PICK Q : Q = P \cap Cells(b)
  OBVIOUS
<1>8. \A p : p \in Q <=> \E i \in 1..n : p \in Cells(t[i])
  <2>1. \A p : p \in P <=> \E i \in 1..n : p \in Cells(s[i])
    BY <1>1, <1>2 DEF Tiles
  <2> QED
    BY <1>4, <1>7, <2>1
<1>9. Tiles(NotEmpty(t), Q)
  BY <1>5, <1>6, <1>8, NotEmptyTiles
<1>10. Intersected(s, b) = Coalesced(NotEmpty(t))
  BY <1>1, <1>2, <1>3 DEF Intersected
<1> QED
  BY <1>7, <1>9, <1>10, CoalescedTiles

LEMMA SubtractedAllTiles ==
    ASSUME NEW P, NEW s, Tiles(s, P), Pairs(s) = {}, NEW Q, NEW t, Tiles(t, Q)
    PROVE  Tiles(SubtractedAll(s, t), P \ Q) /\ Pairs(SubtractedAll(s, t)) = {}
<1>1. t \in Seq(Rects)
  BY DEF Tiles
<1>2. PICK n \in Nat : n = Len(t)
  BY <1>1
<1>3. PICK U : U = [k \in 0..n |-> {p \in P : \A i \in 1..k : p \notin Cells(t[i])}]
  OBVIOUS
<1>4. PICK S : S = [k \in 0..n |-> {r \in Seq(Rects) : Tiles(r, U[k]) /\ Pairs(r) = {}}]
  OBVIOUS
<1>5. PICK step : step = [k \in 1..n |-> [r \in S[k - 1] |-> Subtracted(r, t[k])]]
  OBVIOUS
<1>6. s \in S[0]
  <2>1. 0 \in 0..n /\ U[0] = P /\ s \in Seq(Rects)
    BY <1>3 DEF Tiles
  <2> QED
    BY <1>4, <2>1
<1>7. ASSUME NEW k \in 1..n, NEW r \in S[k - 1] PROVE Subtracted(r, t[k]) \in S[k]
  <2>1. k - 1 \in 0..n /\ k \in 0..n
    OBVIOUS
  <2>2. Tiles(r, U[k - 1]) /\ Pairs(r) = {} /\ t[k] \in Rects
    BY <1>1, <1>2, <1>4, <1>7, <2>1
  <2>3. U[k] = U[k - 1] \ Cells(t[k])
    <3>1. \A i \in 1..k : i = k \/ i \in 1..(k - 1)
      OBVIOUS
    <3>2. k \in 1..k /\ \A i \in 1..(k - 1) : i \in 1..k
      OBVIOUS
    <3>3. \A p : p \in U[k] <=> p \in P /\ \A i \in 1..k : p \notin Cells(t[i])
      BY <1>3, <2>1
    <3>4. \A p : p \in U[k - 1] <=> p \in P /\ \A i \in 1..(k - 1) : p \notin Cells(t[i])
      BY <1>3, <2>1
    <3> QED
      BY <3>1, <3>2, <3>3, <3>4
  <2>4. Tiles(Subtracted(r, t[k]), U[k]) /\ Pairs(Subtracted(r, t[k])) = {}
    <3>1. Tiles(Subtracted(r, t[k]), U[k - 1] \ Cells(t[k])) /\ Pairs(Subtracted(r, t[k])) = {}
      BY <2>2, SubtractedTiles
    <3> QED
      BY <2>3, <3>1
  <2>5. Subtracted(r, t[k]) \in Seq(Rects)
    BY <2>4 DEF Tiles
  <2> QED
    BY <1>4, <2>1, <2>4, <2>5
<1>8. Rounds(step, n, S)
  BY <1>5, <1>7 DEF Rounds
<1>9. PICK h : Trace(h, step, s, n, S)
  BY <1>6, <1>8, Iterates
<1>10. h = [k \in 0..n |-> IF k = 0 THEN s ELSE Subtracted(h[k - 1], t[k])]
  <2>1. ASSUME NEW k \in 0..n, k # 0 PROVE step[k][h[k - 1]] = Subtracted(h[k - 1], t[k])
    <3>1. k \in 1..n /\ k - 1 \in 0..n
      BY <2>1
    <3>2. h[k - 1] \in S[k - 1]
      BY <1>9, <3>1 DEF Trace
    <3> QED
      BY <1>5, <3>1, <3>2
  <2> QED
    BY <1>9, <2>1 DEF Trace
<1>11. PICK g : g = CHOOSE x : x = [k \in 0..n |-> IF k = 0 THEN s ELSE Subtracted(x[k - 1], t[k])]
  OBVIOUS
<1>12. g = [k \in 0..n |-> IF k = 0 THEN s ELSE Subtracted(g[k - 1], t[k])]
  BY <1>10, <1>11
<1>13. PICK T : T = {k \in 0..n : g[k] = h[k]}
  OBVIOUS
<1>14. 0 \in T /\ \A k \in 1..n : k - 1 \in T => k \in T
  BY <1>10, <1>12, <1>13
<1>15. g[n] = h[n] /\ h[n] \in S[n]
  <2>1. n \in 0..n
    OBVIOUS
  <2>2. \A k \in 0..n : k \in T
    BY <1>14, Upto
  <2> QED
    BY <1>9, <1>13, <2>1, <2>2 DEF Trace
<1>16. SubtractedAll(s, t) = g[n]
  BY <1>2, <1>11 DEF SubtractedAll
<1>17. U[n] = P \ Q
  <2>1. \A p : p \in Q <=> \E i \in 1..n : p \in Cells(t[i])
    BY <1>1, <1>2 DEF Tiles
  <2>2. n \in 0..n
    OBVIOUS
  <2> QED
    BY <1>3, <2>1, <2>2
<1>18. n \in 0..n
  OBVIOUS
<1> QED
  BY <1>4, <1>15, <1>16, <1>17, <1>18

\* Two boxes, as another region holds them.
LEMMA TwoTiles ==
    ASSUME NEW a \in Rects, NEW b \in Rects
    PROVE  Tiles(Added(Added(<<>>, a), b), Cells(a) \cup Cells(b))
<1>1. PICK none : none = <<>>
  OBVIOUS
<1>2. Tiles(none, {}) /\ Pairs(none) = {}
  BY <1>1, SmallTiles DEF Pairs
<1>3. PICK s : s = Added(none, a)
  OBVIOUS
<1>4. Tiles(s, {} \cup Cells(a)) /\ Pairs(s) = {}
  BY <1>2, <1>3, AddedTiles
<1>5. {} \cup Cells(a) = Cells(a)
  OBVIOUS
<1>6. Tiles(s, Cells(a))
  BY <1>4, <1>5
<1> QED
  BY <1>1, <1>3, <1>4, <1>6, AddedTiles

LEMMA RegionStep == RegionInv /\ [RegionNext]_regionVars => RegionInv'
<1> SUFFICES ASSUME RegionInv, [RegionNext]_regionVars PROVE RegionInv'
  OBVIOUS
<1>1. PICK s, P : s = boxes /\ P = pixels
  OBVIOUS
<1>2. Tiles(s, P) /\ Pairs(s) = {}
  BY <1>1 DEF RegionInv
<1>3. CASE UNCHANGED regionVars
  BY <1>3 DEF regionVars, RegionInv, Tiles
<1>4. ASSUME NEW a \in Boxes, NEW b \in Boxes,
             Add(a) \/ SubtractRect(a) \/ IntersectRect(a) \/ Subtract(a, b) \/ Intersect(a, b)
      PROVE  RegionInv'
  <2>1. a \in Rects /\ b \in Rects
    BY RegionAssumption
  <2>2. PICK t, Q : t = boxes' /\ Q = pixels'
    OBVIOUS
  <2> SUFFICES Tiles(t, Q) /\ Pairs(t) = {}
    BY <2>2 DEF RegionInv, Tiles, Pairs
  <2>3. CASE Add(a)
    BY <1>1, <1>2, <2>1, <2>2, <2>3, AddedTiles DEF Add
  <2>4. CASE SubtractRect(a)
    BY <1>1, <1>2, <2>1, <2>2, <2>4, SubtractedTiles DEF SubtractRect
  <2>5. CASE IntersectRect(a)
    BY <1>1, <1>2, <2>1, <2>2, <2>5, IntersectedTiles DEF IntersectRect
  <2>6. PICK u, O : u = Added(Added(<<>>, a), b) /\ O = Cells(a) \cup Cells(b)
    OBVIOUS
  <2>7. Tiles(u, O)
    BY <2>1, <2>6, TwoTiles
  <2>8. PICK v : v = SubtractedAll(s, u)
    OBVIOUS
  <2>9. Tiles(v, P \ O) /\ Pairs(v) = {}
    BY <1>2, <2>7, <2>8, SubtractedAllTiles
  <2>10. CASE Subtract(a, b)
    BY <1>1, <2>2, <2>6, <2>8, <2>9, <2>10 DEF Subtract
  <2>11. CASE Intersect(a, b)
    <3>1. t = SubtractedAll(s, v) /\ Q = P \cap O
      BY <1>1, <2>2, <2>6, <2>8, <2>11 DEF Intersect
    <3>2. P \ (P \ O) = P \cap O
      OBVIOUS
    <3>3. Tiles(t, P \ (P \ O)) /\ Pairs(t) = {}
      BY <1>2, <2>9, <3>1, SubtractedAllTiles
    <3> QED
      BY <3>1, <3>2, <3>3
  <2> QED
    BY <1>4, <2>3, <2>4, <2>5, <2>10, <2>11
<1> QED
  BY <1>3, <1>4 DEF RegionNext

\* Damage and opaque regions are what they stand for, however many boxes were
\* added, cut and joined: the list of util/region.cppm covers each point of the
\* set once and no other, and no two of its boxes make one.
THEOREM RegionsAreSets == RegionSpec => []RegionIsSet
<1>1. RegionInit => RegionInv
  <2> SUFFICES ASSUME RegionInit PROVE RegionInv
    OBVIOUS
  <2>1. Tiles(boxes, pixels)
    BY SmallTiles DEF RegionInit
  <2> QED
    BY <2>1 DEF RegionInit, RegionInv, Pairs
<1>2. RegionInv /\ [RegionNext]_regionVars => RegionInv'
  BY RegionStep
<1>3. RegionInv => RegionIsSet
  <2> SUFFICES ASSUME RegionInv PROVE RegionIsSet
    OBVIOUS
  <2>1. UNION {Cells(boxes[i]) : i \in DOMAIN boxes} = pixels
    BY DEF RegionInv, Tiles
  <2>2. \A i, j \in DOMAIN boxes : i < j => ~Joins(boxes[i], boxes[j])
    <3> SUFFICES ASSUME NEW i \in DOMAIN boxes, NEW j \in DOMAIN boxes, i < j, Joins(boxes[i], boxes[j])
                 PROVE  FALSE
      OBVIOUS
    <3>1. <<i, j>> \in Pairs(boxes)
      BY DEF Pairs
    <3> QED
      BY <3>1 DEF RegionInv
  <2>3. \A i, j \in DOMAIN boxes : i < j => Cells(boxes[i]) \cap Cells(boxes[j]) = {}
    <3>1. DOMAIN boxes \subseteq Nat
      BY DEF RegionInv, Tiles
    <3> QED
      BY <3>1 DEF RegionInv, Tiles
  <2> QED
    BY <2>1, <2>2, <2>3 DEF RegionInv, Tiles, RegionIsSet
<1> QED
  BY <1>1, <1>2, <1>3, PTL DEF RegionSpec
=============================================================================
