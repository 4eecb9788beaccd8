------------------------------ MODULE Geometry ------------------------------
(***************************************************************************)
(* The plane geometry a compositor computes with (bindings/rust/src/       *)
(* util.rs): rectangles, the interactive resize of a window, and the eight *)
(* transforms of an output.  The sums are those of the code; coordinates   *)
(* are small enough that none of them leaves an i32.                       *)
(***************************************************************************)
EXTENDS Integers

CONSTANTS
    Coords,     \* coordinates and lengths that occur
    Travel      \* distances a pointer may have moved during a resize

ASSUME GeometryAssumption == Coords \subseteq Int /\ Travel \subseteq Int

VARIABLES
    start,      \* the window's rectangle when the button went down
    edges,      \* which edges are dragged
    least,      \* the least size the client allows
    window,     \* the rectangle the resize has reached
    other,      \* another rectangle
    turned,     \* the transform of an output, and the size it is applied to
    at          \* a point
geoVars == <<start, edges, least, window, other, turned, at>>

Bigger(a, b) == IF a >= b THEN a ELSE b
Smaller(a, b) == IF a <= b THEN a ELSE b

Points == [x : Int, y : Int]
Rects == [x : Int, y : Int, width : Int, height : Int]
Edges == {"none", "TOP", "BOTTOM", "LEFT", "RIGHT", "TOP_LEFT", "TOP_RIGHT", "BOTTOM_LEFT", "BOTTOM_RIGHT"}
Transforms == {"Normal", "Rotate90", "Rotate180", "Rotate270",
               "Flipped", "Flipped90", "Flipped180", "Flipped270"}

IsEmpty(r) == r.width <= 0 \/ r.height <= 0

RectContains(r, p) ==
    /\ p.x >= r.x /\ p.x < r.x + r.width
    /\ p.y >= r.y /\ p.y < r.y + r.height

Intersects(r, o) ==
    /\ ~IsEmpty(r) /\ ~IsEmpty(o)
    /\ r.x < o.x + o.width /\ r.x + r.width > o.x
    /\ r.y < o.y + o.height /\ r.y + r.height > o.y

\* The rectangle between two corners.
Span(x0, y0, x1, y1) == [x |-> x0, y |-> y0, width |-> x1 - x0, height |-> y1 - y0]

\* What Some() holds; None when it is empty.
Intersection(r, o) ==
    Span(Bigger(r.x, o.x), Bigger(r.y, o.y),
         Smaller(r.x + r.width, o.x + o.width), Smaller(r.y + r.height, o.y + o.height))

Hull(r, o) ==
    Span(Smaller(r.x, o.x), Smaller(r.y, o.y),
         Bigger(r.x + r.width, o.x + o.width), Bigger(r.y + r.height, o.y + o.height))
United(r, o) == IF IsEmpty(r) THEN o ELSE IF IsEmpty(o) THEN r ELSE Hull(r, o)

\* An interactive resize, from where it began: left wins over right, and top
\* over bottom.
DragsLeft(e) == e \in {"LEFT", "TOP_LEFT", "BOTTOM_LEFT"}
DragsRight(e) == e \in {"RIGHT", "TOP_RIGHT", "BOTTOM_RIGHT"}
DragsTop(e) == e \in {"TOP", "TOP_LEFT", "TOP_RIGHT"}
DragsBottom(e) == e \in {"BOTTOM", "BOTTOM_LEFT", "BOTTOM_RIGHT"}

\* Mutant: the left edge follows the pointer even where the width no longer does.
Resized_Slides(r, e, dx, dy, min) ==
    LET w == IF DragsLeft(e) THEN Bigger(r.width - dx, Bigger(min.x, 1))
             ELSE IF DragsRight(e) THEN Bigger(r.width + dx, Bigger(min.x, 1)) ELSE r.width
        h == IF DragsTop(e) THEN Bigger(r.height - dy, Bigger(min.y, 1))
             ELSE IF DragsBottom(e) THEN Bigger(r.height + dy, Bigger(min.y, 1)) ELSE r.height
    IN [x |-> IF DragsLeft(e) THEN r.x + dx ELSE r.x,
        y |-> IF DragsTop(e) THEN r.y + r.height - h ELSE r.y,
        width |-> w, height |-> h]

\* Mutant: the least size of the client is forgotten.
Resized_NoLeast(r, e, dx, dy, min) ==
    LET w == IF DragsLeft(e) THEN Bigger(r.width - dx, 1)
             ELSE IF DragsRight(e) THEN Bigger(r.width + dx, 1) ELSE r.width
        h == IF DragsTop(e) THEN Bigger(r.height - dy, 1)
             ELSE IF DragsBottom(e) THEN Bigger(r.height + dy, 1) ELSE r.height
    IN [x |-> IF DragsLeft(e) THEN r.x + r.width - w ELSE r.x,
        y |-> IF DragsTop(e) THEN r.y + r.height - h ELSE r.y,
        width |-> w, height |-> h]

\* An edge or corner dragged by the pointer: the opposite one stays, and the
\* size never goes below the least, nor below one.
Resized(r, e, dx, dy, min) ==
    LET w == IF DragsLeft(e) THEN Bigger(r.width - dx, Bigger(min.x, 1))
             ELSE IF DragsRight(e) THEN Bigger(r.width + dx, Bigger(min.x, 1)) ELSE r.width
        h == IF DragsTop(e) THEN Bigger(r.height - dy, Bigger(min.y, 1))
             ELSE IF DragsBottom(e) THEN Bigger(r.height + dy, Bigger(min.y, 1)) ELSE r.height
    IN [x |-> IF DragsLeft(e) THEN r.x + r.width - w ELSE r.x,
        y |-> IF DragsTop(e) THEN r.y + r.height - h ELSE r.y,
        width |-> w, height |-> h]

-----------------------------------------------------------------------------
Flips(t) == t \in {"Flipped", "Flipped90", "Flipped180", "Flipped270"}
SwapsAxes(t) == t \in {"Rotate90", "Rotate270", "Flipped90", "Flipped270"}

Invert(t) == IF t = "Rotate90" THEN "Rotate270" ELSE IF t = "Rotate270" THEN "Rotate90" ELSE t

\* The sizes and the points of the logical space, on the framebuffer.
ApplySize(t, s) == IF SwapsAxes(t) THEN [x |-> s.y, y |-> s.x] ELSE s

ApplyPoint(t, s, p) ==
    CASE t = "Normal"     -> p
      [] t = "Rotate90"   -> [x |-> s.y - p.y, y |-> p.x]
      [] t = "Rotate180"  -> [x |-> s.x - p.x, y |-> s.y - p.y]
      [] t = "Rotate270"  -> [x |-> p.y, y |-> s.x - p.x]
      [] t = "Flipped"    -> [x |-> s.x - p.x, y |-> p.y]
      [] t = "Flipped90"  -> [x |-> s.y - p.y, y |-> s.x - p.x]
      [] t = "Flipped180" -> [x |-> p.x, y |-> s.y - p.y]
      [] t = "Flipped270" -> [x |-> p.y, y |-> p.x]

\* Mutant: the flip is applied before the turn, not after it.
UnitPoint_FlipsFirst(t, n, p) ==
    LET q == IF Flips(t) THEN [p EXCEPT !.x = n - @] ELSE p
    IN CASE t \in {"Normal", "Flipped"}       -> q
         [] t \in {"Rotate90", "Flipped90"}   -> [x |-> q.y, y |-> n - q.x]
         [] t \in {"Rotate180", "Flipped180"} -> [x |-> n - q.x, y |-> n - q.y]
         [] t \in {"Rotate270", "Flipped270"} -> [x |-> n - q.y, y |-> q.x]

\* A point of the panel, in n-ths of its size, to the same of the logical
\* space: unturned, then unflipped.
UnitPoint(t, n, p) ==
    LET q == CASE t \in {"Normal", "Flipped"}       -> p
               [] t \in {"Rotate90", "Flipped90"}   -> [x |-> p.y, y |-> n - p.x]
               [] t \in {"Rotate180", "Flipped180"} -> [x |-> n - p.x, y |-> n - p.y]
               [] t \in {"Rotate270", "Flipped270"} -> [x |-> n - p.y, y |-> p.x]
    IN IF Flips(t) THEN [q EXCEPT !.x = n - @] ELSE q

-----------------------------------------------------------------------------
GeoTypeOK ==
    /\ start \in Rects /\ window \in Rects /\ other \in Rects
    /\ edges \in Edges /\ least \in Points /\ at \in Points
    /\ turned \in [by : Transforms, size : Points]

\* A window that is about to be resized, or one at rest that is held against
\* another rectangle, a point and an output.
GeoInit ==
    /\ start \in [x : Coords, y : Coords, width : Coords, height : Coords]
    /\ edges \in Edges
    /\ window = start
    /\ IF edges # "none"
       THEN /\ least \in [x : Coords, y : Coords]
            /\ other = start
            /\ turned = [by |-> "Normal", size |-> [x |-> start.width, y |-> start.height]]
            /\ at = [x |-> start.x, y |-> start.y]
       ELSE /\ least = [x |-> start.width, y |-> start.height]
            /\ other \in [x : Coords, y : Coords, width : Coords, height : Coords]
            /\ turned \in [by : Transforms, size : [x : Coords, y : Coords]]
            /\ at \in [x : Coords, y : Coords]

\* The pointer is somewhere else: the resize is computed from where it began.
Drag(dx, dy) ==
    /\ edges # "none"
    /\ window' = Resized(start, edges, dx, dy, least)
    /\ UNCHANGED <<start, edges, least, other, turned, at>>

GeoNext == \E dx, dy \in Travel : Drag(dx, dy)

GeoSpec == GeoInit /\ [][GeoNext]_geoVars

-----------------------------------------------------------------------------
\* However far the pointer went and came back, the four edges that are not
\* dragged are where they were, and along a dragged one the window is no smaller
\* than the client allows, nor than one: once the pointer has moved it, for it
\* may have been smaller before.
AnchorHolds ==
    /\ ~DragsLeft(edges) => window.x = start.x
    /\ ~DragsTop(edges) => window.y = start.y
    /\ ~DragsRight(edges) => window.x + window.width = start.x + start.width
    /\ ~DragsBottom(edges) => window.y + window.height = start.y + start.height
    /\ window # start =>
          /\ DragsLeft(edges) \/ DragsRight(edges) => window.width >= Bigger(least.x, 1)
          /\ DragsTop(edges) \/ DragsBottom(edges) => window.height >= Bigger(least.y, 1)
    /\ ~IsEmpty(start) => ~IsEmpty(window)

\* The rectangles are sets of points: their intersection is what both hold,
\* is empty exactly when they do not intersect, and the union holds both.
RectsAreSets ==
    /\ RectContains(Intersection(start, other), at) <=> RectContains(start, at) /\ RectContains(other, at)
    /\ Intersects(start, other) <=> ~IsEmpty(Intersection(start, other))
    /\ RectContains(start, at) \/ RectContains(other, at) => RectContains(United(start, other), at)

\* The three ways the code turns a point are of one mind: inverting undoes
\* turning, and a touch on the panel lands on what was drawn there.
TurnsAgree ==
    LET n == turned.size.x
        square == [x |-> n, y |-> n] IN
    /\ ApplyPoint(Invert(turned.by), ApplySize(turned.by, turned.size),
                  ApplyPoint(turned.by, turned.size, at)) = at
    /\ UnitPoint(turned.by, n, ApplyPoint(turned.by, square, at)) = at

\* All of it, of a resize, its neighbours and the output it happens on.
GeometrySound == AnchorHolds /\ RectsAreSets /\ TurnsAgree
=============================================================================
