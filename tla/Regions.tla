------------------------------- MODULE Regions -------------------------------
(***************************************************************************)
(* Region of bindings/rust/src/util.rs, over src/util/region.cppm: damage, *)
(* opaque and input regions are kept as a list of rectangles that never    *)
(* overlap and are joined wherever two of them make one.                   *)
(***************************************************************************)
EXTENDS Geometry, Sequences, SequencesExt

CONSTANT Boxes      \* the rectangles that are added and taken away

ASSUME RegionAssumption == Boxes \subseteq Rects

VARIABLES
    boxes,      \* rects_
    pixels      \* history: the points a set would hold
regionVars == <<boxes, pixels>>

Cells(b) == [x : b.x..(b.x + b.width - 1), y : b.y..(b.y + b.height - 1)]

RegionInit == boxes = <<>> /\ pixels = {}

-----------------------------------------------------------------------------
\* Mutant: boxes that only touch, on an axis where they are equally long, are joined.
Joins_Touching(a, b) ==
    \/ a.width = b.width /\ (a.y + a.height = b.y \/ b.y + b.height = a.y)
    \/ a.height = b.height /\ (a.x + a.width = b.x \/ b.x + b.width = a.x)

\* Two boxes that share a full edge.
Joins(a, b) ==
    \/ /\ a.x = b.x /\ a.width = b.width
       /\ a.y + a.height = b.y \/ b.y + b.height = a.y
    \/ /\ a.y = b.y /\ a.height = b.height
       /\ a.x + a.width = b.x \/ b.x + b.width = a.x

\* The places of two boxes that make one.
Pairs(s) == {p \in (DOMAIN s) \X (DOMAIN s) : p[1] < p[2] /\ Joins(s[p[1]], s[p[2]])}

\* One round of coalesce(): the first pair is made one box, where its first was.
JoinFirst(s) ==
    LET first == CHOOSE p \in Pairs(s) : \A q \in Pairs(s) : p[1] < q[1] \/ (p[1] = q[1] /\ p[2] <= q[2])
    IN IF Pairs(s) = {} THEN s
       ELSE RemoveAt([s EXCEPT ![first[1]] = United(@, s[first[2]])], first[2])

\* coalesce(): until no pair is left.  Each round takes a box, so there are no
\* more rounds than boxes.
Coalesced(s) ==
    LET joined[n \in 0..Len(s)] == IF n = 0 THEN s ELSE JoinFirst(joined[n - 1])
    IN joined[Len(s)]

\* Mutant: what is beside the hole reaches from top to bottom.
Pieces_Tall(r, hit) ==
    <<Span(r.x, r.y, r.x + r.width, hit.y),
      Span(r.x, hit.y + hit.height, r.x + r.width, r.y + r.height),
      Span(r.x, r.y, hit.x, r.y + r.height),
      Span(hit.x + hit.width, r.y, r.x + r.width, r.y + r.height)>>

\* What a hole leaves of a box: above, below, left and right of it.
Pieces(r, hit) ==
    <<Span(r.x, r.y, r.x + r.width, hit.y),
      Span(r.x, hit.y + hit.height, r.x + r.width, r.y + r.height),
      Span(r.x, hit.y, hit.x, hit.y + hit.height),
      Span(hit.x + hit.width, hit.y, r.x + r.width, hit.y + hit.height)>>

\* The boxes that hold anything.
NotEmpty(s) == FlattenSeq([i \in DOMAIN s |-> IF IsEmpty(s[i]) THEN <<>> ELSE <<s[i]>>])

\* What is left of a box without another.
Left(r, b) ==
    IF IsEmpty(Intersection(r, b)) THEN <<r>> ELSE NotEmpty(Pieces(r, Intersection(r, b)))

Subtracted(s, b) ==
    IF IsEmpty(b) \/ s = <<>> THEN s
    ELSE Coalesced(FlattenSeq([i \in DOMAIN s |-> Left(s[i], b)]))

Added(s, b) == IF IsEmpty(b) THEN s ELSE Coalesced(Append(Subtracted(s, b), b))

Intersected(s, b) == Coalesced(NotEmpty([i \in DOMAIN s |-> Intersection(s[i], b)]))

SubtractedAll(s, t) ==
    LET cut[n \in 0..Len(t)] == IF n = 0 THEN s ELSE Subtracted(cut[n - 1], t[n])
    IN cut[Len(t)]

-----------------------------------------------------------------------------
Add(b) == boxes' = Added(boxes, b) /\ pixels' = pixels \cup Cells(b)

SubtractRect(b) == boxes' = Subtracted(boxes, b) /\ pixels' = pixels \ Cells(b)

IntersectRect(b) == boxes' = Intersected(boxes, b) /\ pixels' = pixels \cap Cells(b)

\* The same with another region, which holds two boxes.
Subtract(a, b) ==
    /\ boxes' = SubtractedAll(boxes, Added(Added(<<>>, a), b))
    /\ pixels' = pixels \ (Cells(a) \cup Cells(b))

\* intersect_region(): without what is left of it without the other.
Intersect(a, b) ==
    /\ boxes' = SubtractedAll(boxes, SubtractedAll(boxes, Added(Added(<<>>, a), b)))
    /\ pixels' = pixels \cap (Cells(a) \cup Cells(b))

RegionNext ==
    \E a, b \in Boxes : \/ Add(a) \/ SubtractRect(a) \/ IntersectRect(a)
                        \/ Subtract(a, b) \/ Intersect(a, b)

RegionSpec == RegionInit /\ [][RegionNext]_regionVars

-----------------------------------------------------------------------------
(* Properties. *)

\* Whatever was added and cut, the list is the set of points it stands for:
\* every point of it and no other, none twice, and no two boxes that are one.
\* Damage that a box too few or too large would lose or repeat is drawn from it.
RegionIsSet ==
    /\ UNION {Cells(boxes[i]) : i \in DOMAIN boxes} = pixels
    /\ \A i, j \in DOMAIN boxes : i < j => /\ Cells(boxes[i]) \cap Cells(boxes[j]) = {}
                                           /\ ~Joins(boxes[i], boxes[j])
    /\ \A i \in DOMAIN boxes : ~IsEmpty(boxes[i])
=============================================================================
