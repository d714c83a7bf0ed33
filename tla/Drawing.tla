------------------------------- MODULE Drawing -------------------------------
(***************************************************************************)
(* A zone as it comes from the zone editor or a file (geo): its outline is *)
(* drawn vertex by vertex, holes are punched into it, and at every moment  *)
(* it is validated, and positions of some accuracy are held against it.    *)
(***************************************************************************)
EXTENDS Geometry, TLC

(***************************************************************************)
(* geo::sweep_line: does any pair of segments meet?  The segments that the *)
(* sweep line crosses are kept in an AVL tree ordered by their height just *)
(* before the line, and a segment is tested against its near neighbours    *)
(* when it enters, its two neighbours against each other when it leaves.   *)
(* The order is evaluated anew at every position of the line, so the tree  *)
(* is modelled as it is: what it finds depends on its shape if the order   *)
(* of two segments has changed.                                            *)
(***************************************************************************)
(* Segments by their left end. *)
Rightward(s) == IF s[1][1] > s[2][1] THEN <<s[2], s[1]>> ELSE s

Rise(s) == s[2][2] - s[1][2]
Run(s)  == s[2][1] - s[1][1]

(* y_at x, as <<numerator, denominator>>; a vertical one has its lower end.   *)
HeightAt(s, x) ==
    LET at == IF x < s[1][1] THEN s[1][1] ELSE IF x > s[2][1] THEN s[2][1] ELSE x
    IN  IF Run(s) = 0 THEN <<Least(s[1][2], s[2][2]), 1>>
        ELSE <<s[1][2] * Run(s) + Rise(s) * (at - s[1][1]), Run(s)>>

(* A hair before x (kEpsX) a segment is below its height at x if it rises,    *)
(* unless its left end is at x: then it has no earlier height.                *)
FallBack(s, x) == IF Run(s) = 0 \/ x <= s[1][1] \/ x > s[2][1] THEN <<0, 1>> ELSE <<Rise(s), Run(s)>>

(* The slope of a vertical one is above every other. *)
Slope(s) == IF Run(s) = 0 THEN <<1000000, 1>> ELSE <<Rise(s), Run(s)>>

Less(a, b) == a[1] * b[2] < b[1] * a[2]
Same(a, b) == a[1] * b[2] = b[1] * a[2]

(* less_at, and Status::less which breaks its ties by number. *)
LessAt(a, b, x) ==
    \/ Less(HeightAt(a, x), HeightAt(b, x))
    \/ /\ Same(HeightAt(a, x), HeightAt(b, x))
       /\ \/ Less(FallBack(b, x), FallBack(a, x))
          \/ Same(FallBack(a, x), FallBack(b, x)) /\ Less(Slope(a), Slope(b))
Below(c, i, j) ==
    \/ LessAt(c.segs[i], c.segs[j], c.x)
    \/ ~ LessAt(c.segs[j], c.segs[i], c.x) /\ i < j

----------------------------------------------------------------------------
(* The tree: <<>>, or <<[seg, l, r, h]>>.  c carries the segments and the    *)
(* position of the line.                                                    *)

Height(t) == IF t = <<>> THEN 0 ELSE t[1].h
Node(seg, l, r) == <<[seg |-> seg, l |-> l, r |-> r, h |-> 1 + Most(Height(l), Height(r))]>>
Balance(t) == IF t = <<>> THEN 0 ELSE Height(t[1].l) - Height(t[1].r)

RotateRight(t) == LET y == t[1]  x == t[1].l[1] IN Node(x.seg, x.l, Node(y.seg, x.r, y.r))
RotateLeft(t)  == LET x == t[1]  y == t[1].r[1] IN Node(y.seg, Node(x.seg, x.l, y.l), y.r)

Rebalance(t) ==
    LET n == t[1]
    IN  IF Balance(t) > 1
        THEN RotateRight(Node(n.seg, IF Balance(n.l) < 0 THEN RotateLeft(n.l) ELSE n.l, n.r))
        ELSE IF Balance(t) < -1
        THEN RotateLeft(Node(n.seg, n.l, IF Balance(n.r) > 0 THEN RotateRight(n.r) ELSE n.r))
        ELSE t

RECURSIVE TreeInsert(_, _, _)
TreeInsert(c, t, seg) ==
    IF t = <<>> THEN Node(seg, <<>>, <<>>)
    ELSE LET n == t[1]
         IN  Rebalance(IF Below(c, seg, n.seg) THEN Node(n.seg, TreeInsert(c, n.l, seg), n.r)
                       ELSE Node(n.seg, n.l, TreeInsert(c, n.r, seg)))

RECURSIVE MinNode(_)
MinNode(t) == IF t[1].l = <<>> THEN t[1].seg ELSE MinNode(t[1].l)

RECURSIVE EraseAt(_, _, _)
EraseAt(c, t, seg) ==
    IF t = <<>> THEN <<>>
    ELSE LET n == t[1]
         IN  IF Below(c, seg, n.seg) THEN Rebalance(Node(n.seg, EraseAt(c, n.l, seg), n.r))
             ELSE IF Below(c, n.seg, seg) THEN Rebalance(Node(n.seg, n.l, EraseAt(c, n.r, seg)))
             ELSE IF n.l = <<>> THEN n.r
             ELSE IF n.r = <<>> THEN n.l
             ELSE Rebalance(Node(MinNode(n.r), n.l, EraseAt(c, n.r, MinNode(n.r))))

(* The nearest segment below (above) seg; 0 when there is none. *)
RECURSIVE Predecessor(_, _, _, _)
Predecessor(c, t, seg, best) ==
    IF t = <<>> THEN best
    ELSE IF Below(c, t[1].seg, seg) THEN Predecessor(c, t[1].r, seg, t[1].seg)
    ELSE Predecessor(c, t[1].l, seg, best)
RECURSIVE Successor(_, _, _, _)
Successor(c, t, seg, best) ==
    IF t = <<>> THEN best
    ELSE IF Below(c, seg, t[1].seg) THEN Successor(c, t[1].l, seg, t[1].seg)
    ELSE Successor(c, t[1].r, seg, best)

----------------------------------------------------------------------------
(* Mutant of Reach: only the nearest neighbour is tested. *)
ReachOne == 1
(* kReach. *)
Reach == 3

(* The nearest Reach segments below and above seg. *)
RECURSIVE BelowOf(_, _, _, _)
BelowOf(c, t, seg, k) ==
    LET p == Predecessor(c, t, seg, 0)
    IN  IF k = 0 \/ p = 0 THEN {} ELSE {p} \cup BelowOf(c, t, p, k - 1)
RECURSIVE AboveOf(_, _, _, _)
AboveOf(c, t, seg, k) ==
    LET q == Successor(c, t, seg, 0)
    IN  IF k = 0 \/ q = 0 THEN {} ELSE {q} \cup AboveOf(c, t, q, k - 1)

Eligible(i, j, n, ring) == ~ (ring /\ RingAdjacent(i, j, n))
Meets(c, i, j) == SegmentsIntersect(c.segs[i][1], c.segs[i][2], c.segs[j][1], c.segs[j][2])
Tested(c, i, j, ring) ==
    i # 0 /\ j # 0 /\ Eligible(i, j, Len(c.segs), ring) /\ Meets(c, i, j)

(* Where segments begin (0) before where they end (1), by number at one place. *)
EventsOf(segs) ==
    SortSeq([k \in 1..(2 * Len(segs)) |->
                IF k <= Len(segs) THEN <<segs[k][1][1], 0, k>>
                ELSE <<segs[k - Len(segs)][2][1], 1, k - Len(segs)>>],
            LAMBDA p, q : \/ p[1] < q[1]
                          \/ p[1] = q[1] /\ p[2] < q[2]
                          \/ p[1] = q[1] /\ p[2] = q[2] /\ p[3] < q[3])

Enter(c, st, i, ring) ==
    LET t    == TreeInsert(c, st.tree, i)
        near == BelowOf(c, t, i, Reach) \cup AboveOf(c, t, i, Reach)
    IN  [tree |-> t, hit |-> \E j \in near : Tested(c, i, j, ring)]
Leave(c, st, i, ring) ==
    [tree |-> EraseAt(c, st.tree, i),
     hit  |-> Tested(c, Predecessor(c, st.tree, i, 0), Successor(c, st.tree, i, 0), ring)]

AnyIntersection(input, ring) ==
    LET segs == [k \in DOMAIN input |-> Rightward(input[k])]
        turn(st, e) ==
            IF st.hit THEN st
            ELSE IF e[2] = 0 THEN Enter([segs |-> segs, x |-> e[1]], st, e[3], ring)
            ELSE Leave([segs |-> segs, x |-> e[1]], st, e[3], ring)
    IN  Len(input) >= 2
        /\ FoldLeft(turn, [tree |-> <<>>, hit |-> FALSE], EventsOf(segs)).hit

SelfIntersectsSweep(r) == Len(r) >= 4 /\ AnyIntersection(RingEdges(r), TRUE)

----------------------------------------------------------------------------
(* The drawing. *)

CONSTANTS Sketches,      \* the outlines a drawing starts from
          Vertices,      \* where the next vertex may be put
          MaxVertices,   \* the longest outline
          Holes,         \* the rings that may be punched
          MaxHoles,      \* how many into one outline
          Spots,         \* the positions
          Accuracies     \* and how accurate they may be

VARIABLE poly

vars == <<poly>>

Init == \E s \in Sketches : poly = [outer |-> s, holes |-> <<>>]

AddVertex ==
    /\ poly.holes = <<>> /\ Len(poly.outer) < MaxVertices
    /\ \E v \in Vertices : poly' = [poly EXCEPT !.outer = Append(@, v)]

Punch ==
    /\ Len(poly.holes) < MaxHoles /\ Len(poly.outer) >= 3
    /\ \E h \in Holes : poly' = [poly EXCEPT !.holes = Append(@, h)]

Next == AddVertex \/ Punch

Spec == Init /\ [][Next]_vars

----------------------------------------------------------------------------

Sound == Validate(poly) = "Ok"

(* The two containment tests agree on every polygon that validates, whichever *)
(* way its rings were drawn, and the box does not change an answer.           *)
TestsAgree ==
    \A p \in Spots :
        /\ Holds(poly, p) = HoldsWinding(poly, p)
        /\ \A a \in Accuracies : Evaluated(poly, p, a) = Classify(poly, p, a)

(* A definite verdict is true of wherever within the accuracy the device may  *)
(* really be: nobody is told to be outside a zone they may be in.             *)
DefiniteIsSafe ==
    \A p, q \in Spots, a \in Accuracies :
        Squared(p, q) <= a * a =>
            /\ Evaluated(poly, p, a) = "Inside"  => Holds(poly, q)
            /\ Evaluated(poly, p, a) = "Outside" => ~ Holds(poly, q)

(* A polygon that validates has some area, and nothing of a hole's inside is  *)
(* outside it or belongs to another hole: what is left is the difference.     *)
HolesAreInside ==
    /\ Magnitude(RegionArea2(poly)) =
          Magnitude(RingArea2(poly.outer))
            - FoldLeft(LAMBDA a, h : a + Magnitude(RingArea2(h)), 0, poly.holes)
    /\ \A p \in Spots : \A k \in DOMAIN poly.holes :
          LET h == poly.holes[k]
          IN  PointInRing(h, p) /\ ~ OnRing(h, p) =>
                 /\ PointInRing(poly.outer, p) /\ ~ OnRing(poly.outer, p)
                 /\ ~ Holds(poly, p)
                 /\ \A l \in DOMAIN poly.holes \ {k} : ~ PointInRing(poly.holes[l], p)

(* The sweep finds a crossing exactly when the test of all pairs does, for    *)
(* every outline: touching edges, repeated vertices, vertical and overlapping *)
(* edges included; and what validates is safe to evaluate against.            *)
ShapesAgree ==
    /\ poly.holes = <<>> =>
          SelfIntersectsSweep(poly.outer) = SelfIntersectsPairwise(poly.outer)
    /\ Sound => TestsAgree /\ DefiniteIsSafe /\ HolesAreInside

=============================================================================
