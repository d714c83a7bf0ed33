------------------------------ MODULE Hierarchy ------------------------------
(***************************************************************************)
(* jurisdiction::Hierarchy: regions are added, build() links each to the   *)
(* smallest one that contains it, and resolve() walks down from a root to  *)
(* the jurisdiction that owns a position.                                  *)
(***************************************************************************)
EXTENDS Geometry

CONSTANTS Shapes,        \* the polygons that may be added
          MaxRegions,    \* how many are
          Points         \* the positions that are resolved

VARIABLES shapes,        \* of each region, in the order they were added
          parents        \* as build() left them; 0 is none

vars == <<shapes, parents>>

(* The nesting key: of the outline, whatever is punched out of it. *)
Area(i) == Magnitude(RingArea2(shapes[i].outer))

(* Mutant of StrictlyContains: only the vertices are looked at. *)
StrictlyContainsVertices(o, i) ==
    /\ o # i /\ Area(o) > Area(i)
    /\ \A k \in DOMAIN shapes[i].outer : Holds(shapes[o], shapes[i].outer[k])

StrictlyContains(o, i) ==
    LET ir == shapes[i].outer  or == shapes[o].outer
    IN  /\ o # i /\ Area(o) > Area(i)
        /\ \A k \in DOMAIN ir : Holds(shapes[o], ir[k])
        /\ \A a \in DOMAIN ir, b \in DOMAIN or :
              ~ SegmentsProperlyCross(ir[a], NextOf(ir, a), or[b], NextOf(or, b))

(* The smallest of some regions, the first of several; 0 of none. *)
Smallest(ids) ==
    IF ids = {} THEN 0
    ELSE CHOOSE i \in ids : \A j \in ids : Area(i) < Area(j) \/ (Area(i) = Area(j) /\ i <= j)

Init == shapes = <<>> /\ parents = <<>>

(* The links are those of the last build(). *)
Add == /\ Len(shapes) < MaxRegions
       /\ \E s \in Shapes : shapes' = Append(shapes, s)
       /\ UNCHANGED parents

Build ==
    /\ parents' = [i \in DOMAIN shapes |->
                      Smallest({j \in DOMAIN shapes : StrictlyContains(j, i)})]
    /\ UNCHANGED shapes

Next == Add \/ Build

Spec == Init /\ [][Next]_vars

----------------------------------------------------------------------------
(* roots, children, parent, depth, resolve. *)

Children(p) == {i \in DOMAIN parents : parents[i] = p}
Roots == Children(0)

RECURSIVE Depth(_)
Depth(i) == IF parents[i] = 0 THEN 0 ELSE 1 + Depth(parents[i])

Pick(ids, p) == Smallest({i \in ids : Holds(shapes[i], p)})

RECURSIVE Descend(_, _)
Descend(i, p) == IF Pick(Children(i), p) = 0 THEN i ELSE Descend(Pick(Children(i), p), p)
Resolve(p) == IF Pick(Roots, p) = 0 THEN 0 ELSE Descend(Pick(Roots, p), p)

----------------------------------------------------------------------------

Built == DOMAIN parents = DOMAIN shapes

Outline(i) == shapes[i].outer
Within(i) == {p \in Points : PointInRing(Outline(i), p)}
Proper(i, p) == PointInRing(Outline(i), p) /\ ~ OnRing(Outline(i), p)

(* What a region holds its parent holds, enclaves apart; a parent is larger   *)
(* and one level up, so the chain of parents ends at a root.                  *)
NestsOnlyWhatItHolds ==
    Built => \A i \in DOMAIN shapes : parents[i] # 0 =>
        /\ Area(parents[i]) > Area(i) /\ Depth(i) = Depth(parents[i]) + 1
        /\ Within(i) \subseteq Within(parents[i])

(* Where a position is on no border and in no enclave, and the regions around *)
(* it nest, the deepest of them owns it.                                      *)
Undisputed(p) ==
    LET around == {i \in DOMAIN shapes : Proper(i, p)}
    IN  /\ \A i \in DOMAIN shapes : ~ OnRing(Outline(i), p) /\ (i \in around => Holds(shapes[i], p))
        /\ \A i, j \in around : i = j \/ \/ Within(i) \subseteq Within(j) /\ Area(i) < Area(j)
                                         \/ Within(j) \subseteq Within(i) /\ Area(j) < Area(i)
DeepestIsFound ==
    Built => \A p \in Points : Undisputed(p) =>
        Resolve(p) = Smallest({i \in DOMAIN shapes : Proper(i, p)})

(* Districts with concave borders, enclaves and blocks in any order of adding *)
(* make a forest that is the true nesting, and resolve() finds the owner.     *)
OwnerIsFound == NestsOnlyWhatItHolds /\ DeepestIsFound

=============================================================================
