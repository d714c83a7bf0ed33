------------------------------ MODULE Geometry ------------------------------
(***************************************************************************)
(* geo: the segment predicates, polygons with holes, their validation and  *)
(* the two containment tests, in exact integer arithmetic.  A point is     *)
(* <<lon, lat>> in the local plane, a ring a sequence of points that is    *)
(* closed implicitly, a polygon [outer, holes].  The tolerances of the     *)
(* code (1e-14 and 1e-9 degrees) are below one unit.                       *)
(***************************************************************************)
EXTENDS Integers, Sequences, SequencesExt, FiniteSets

Least(a, b) == IF a < b THEN a ELSE b
Most(a, b) == IF a < b THEN b ELSE a
Magnitude(x) == IF x < 0 THEN -x ELSE x

Cross(a, b, c) == (b[1] - a[1]) * (c[2] - a[2]) - (b[2] - a[2]) * (c[1] - a[1])

Orientation(a, b, c) == IF Cross(a, b, c) > 0 THEN 1 ELSE IF Cross(a, b, c) < 0 THEN -1 ELSE 0

WithinExtent(a, b, p) ==
    /\ Least(a[1], b[1]) <= p[1] /\ p[1] <= Most(a[1], b[1])
    /\ Least(a[2], b[2]) <= p[2] /\ p[2] <= Most(a[2], b[2])

PointOnSegment(a, b, p) == Cross(a, b, p) = 0 /\ WithinExtent(a, b, p)

(* Crossing or touching. *)
SegmentsIntersect(a, b, c, d) ==
    LET o1 == Orientation(a, b, c)  o2 == Orientation(a, b, d)
        o3 == Orientation(c, d, a)  o4 == Orientation(c, d, b)
    IN  \/ o1 # o2 /\ o3 # o4
        \/ o1 = 0 /\ WithinExtent(a, b, c)
        \/ o2 = 0 /\ WithinExtent(a, b, d)
        \/ o3 = 0 /\ WithinExtent(c, d, a)
        \/ o4 = 0 /\ WithinExtent(c, d, b)

(* Crossing from one side to the other: sharing a boundary is not crossing.   *)
SegmentsProperlyCross(a, b, c, d) ==
    LET o1 == Orientation(a, b, c)  o2 == Orientation(a, b, d)
        o3 == Orientation(c, d, a)  o4 == Orientation(c, d, b)
    IN  0 \notin {o1, o2, o3, o4} /\ o1 # o2 /\ o3 # o4

----------------------------------------------------------------------------
(* Rings.  Edge i runs from vertex i to the next one. *)

NextOf(r, i) == r[(i % Len(r)) + 1]
RingEdges(r) == [i \in DOMAIN r |-> <<r[i], NextOf(r, i)>>]

(* Twice the signed area: positive is counter-clockwise. *)
RingArea2(r) ==
    IF Len(r) < 3 THEN 0
    ELSE FoldLeft(LAMBDA a, e : a + (e[1][1] * e[2][2] - e[2][1] * e[1][2]), 0, RingEdges(r))

RingAdjacent(i, j, n) == LET lo == Least(i, j)  hi == Most(i, j)
                         IN  hi - lo = 1 \/ (lo = 1 /\ hi = n)

(* ring_self_intersects_pairwise. *)
SelfIntersectsPairwise(r) ==
    /\ Len(r) >= 4
    /\ \E i, j \in DOMAIN r :
          /\ i < j /\ ~ RingAdjacent(i, j, Len(r))
          /\ SegmentsIntersect(r[i], NextOf(r, i), r[j], NextOf(r, j))

(* One edge and a ray to the right of p, half-open in latitude: the crossing  *)
(* is at lon  b1 + t * (a1 - b1)  with  t = (p2 - b2) / (a2 - b2).            *)
RayCrosses(a, b, p) ==
    LET dy == a[2] - b[2]
        at == (p[2] - b[2]) * (a[1] - b[1])
    IN  /\ (b[2] > p[2]) # (a[2] > p[2])
        /\ IF dy > 0 THEN (p[1] - b[1]) * dy < at ELSE (p[1] - b[1]) * dy > at

OnRing(r, p) == \E i \in DOMAIN r : PointOnSegment(r[i], NextOf(r, i), p)
Crossings(r, p) == Cardinality({i \in DOMAIN r : RayCrosses(r[i], NextOf(r, i), p)})

PointInRing(r, p) == Len(r) >= 3 /\ (OnRing(r, p) \/ Crossings(r, p) % 2 = 1)

RingsCross(a, b) ==
    \E i \in DOMAIN a, j \in DOMAIN b :
        SegmentsIntersect(a[i], NextOf(a, i), b[j], NextOf(b, j))

----------------------------------------------------------------------------
(* Polygons. *)

RingsOf(poly) == {poly.outer} \cup ToSet(poly.holes)

RegionArea2(poly) ==
    LET outer == RingArea2(poly.outer)
        left  == Magnitude(outer) - FoldLeft(LAMBDA a, h : a + Magnitude(RingArea2(h)), 0, poly.holes)
    IN  (IF outer < 0 THEN -1 ELSE 1) * (IF left > 0 THEN left ELSE 0)

InBbox(r, p) ==
    \A axis \in 1..2 : /\ \E i \in DOMAIN r : r[i][axis] <= p[axis]
                       /\ \E i \in DOMAIN r : p[axis] <= r[i][axis]

HoleFault(poly, h) ==
    IF Len(h) < 3 THEN "HoleTooFewVertices"
    ELSE IF SelfIntersectsPairwise(h) THEN "HoleSelfIntersecting"
    ELSE IF RingArea2(h) = 0 THEN "HoleZeroArea"
    ELSE IF \E i \in DOMAIN h : ~ PointInRing(poly.outer, h[i]) THEN "HoleOutsideOuter"
    ELSE IF RingsCross(h, poly.outer) THEN "HoleCrossesOuter"
    ELSE "Ok"
HolesOverlap(a, b) == \/ RingsCross(a, b)
                      \/ PointInRing(a, b[1])
                      \/ PointInRing(b, a[1])

(* validate: the first fault, in the order of the checks. *)
Validate(poly) ==
    LET faulty == {k \in DOMAIN poly.holes : HoleFault(poly, poly.holes[k]) # "Ok"}
    IN  IF Len(poly.outer) < 3 THEN "TooFewVertices"
        ELSE IF SelfIntersectsPairwise(poly.outer) THEN "SelfIntersecting"
        ELSE IF RingArea2(poly.outer) = 0 THEN "ZeroArea"
        ELSE IF faulty # {}
             THEN HoleFault(poly, poly.holes[CHOOSE k \in faulty : \A l \in faulty : k <= l])
        ELSE IF \E k, l \in DOMAIN poly.holes :
                   k < l /\ HolesOverlap(poly.holes[k], poly.holes[l]) THEN "HolesOverlap"
        ELSE "Ok"

(* contains: the boundary is inside; holes count in the same parity. *)
Holds(poly, p) ==
    /\ InBbox(poly.outer, p)
    /\ \/ \E r \in RingsOf(poly) : OnRing(r, p)
       \/ (Crossings(poly.outer, p)
             + FoldLeft(LAMBDA c, h : c + Crossings(h, p), 0, poly.holes)) % 2 = 1

(* contains_winding: the turns of each ring about p, the holes' turned        *)
(* against the outer ring whichever way they were drawn.                      *)
Winding(r, p) ==
    LET up   == {i \in DOMAIN r : /\ NextOf(r, i)[2] > p[2] /\ r[i][2] <= p[2]
                                  /\ Cross(r[i], NextOf(r, i), p) > 0}
        down == {i \in DOMAIN r : /\ NextOf(r, i)[2] <= p[2] /\ r[i][2] > p[2]
                                  /\ Cross(r[i], NextOf(r, i), p) < 0}
    IN  Cardinality(up) - Cardinality(down)
Turned(poly, h, w) == IF (RingArea2(h) < 0) = (RingArea2(poly.outer) < 0) THEN -w ELSE w
HoldsWinding(poly, p) ==
    /\ InBbox(poly.outer, p)
    /\ \/ \E r \in RingsOf(poly) : OnRing(r, p)
       \/ Winding(poly.outer, p)
            + FoldLeft(LAMBDA t, h : t + Turned(poly, h, Winding(h, p)), 0, poly.holes) # 0

----------------------------------------------------------------------------
(* Distances, squared, as <<numerator, denominator>>. *)

Squared(p, q) == (p[1] - q[1]) * (p[1] - q[1]) + (p[2] - q[2]) * (p[2] - q[2])

(* point_segment_distance_m: the foot of the perpendicular when it falls on   *)
(* the segment, an end when it does not.                                      *)
SegmentDistance2(p, a, b) ==
    LET dot == (p[1] - a[1]) * (b[1] - a[1]) + (p[2] - a[2]) * (b[2] - a[2])
        len == Squared(a, b)
    IN  IF len = 0 \/ dot <= 0 THEN <<Squared(p, a), 1>>
        ELSE IF dot >= len THEN <<Squared(p, b), 1>>
        ELSE <<Cross(a, b, p) * Cross(a, b, p), len>>

WithinOf(d2, r) == d2[1] <= r * r * d2[2]
BoundaryWithin(poly, p, r) ==
    \E ring \in RingsOf(poly) : \E i \in DOMAIN ring :
        WithinOf(SegmentDistance2(p, ring[i], NextOf(ring, i)), r)

(* Bbox::min_distance_m, squared. *)
BboxDistance2(r, p) ==
    LET xs == {r[i][1] : i \in DOMAIN r}  ys == {r[i][2] : i \in DOMAIN r}
        gap(v, s) == IF \A x \in s : v < x THEN (CHOOSE x \in s : \A y \in s : x <= y) - v
                     ELSE IF \A x \in s : v > x THEN v - (CHOOSE x \in s : \A y \in s : x >= y)
                     ELSE 0
    IN  gap(p[1], xs) * gap(p[1], xs) + gap(p[2], ys) * gap(p[2], ys)

(* classify: definite only when the whole disc is on one side. *)
Classify(poly, p, accuracy) ==
    IF BoundaryWithin(poly, p, accuracy) THEN "Uncertain"
    ELSE IF Holds(poly, p) THEN "Inside" ELSE "Outside"

(* evaluate: with the rejection of a disc that does not reach the box. *)
Evaluated(poly, p, accuracy) ==
    IF BboxDistance2(poly.outer, p) > accuracy * accuracy THEN "Outside"
    ELSE Classify(poly, p, accuracy)

=============================================================================
