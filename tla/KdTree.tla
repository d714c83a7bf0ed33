------------------------------- MODULE KdTree -------------------------------
(***************************************************************************)
(* index::KdTree: a balanced tree over points that splits on latitude and  *)
(* longitude in turn, with nearest and k-nearest searches that prune the   *)
(* far side of a splitting line.  The longitude scale is 1 on the grid.    *)
(***************************************************************************)
EXTENDS Integers, Sequences, SequencesExt, FiniteSets, TLC

(* An item is [id, pos] with pos = <<lat, lon>>; the axis alternates. *)
Axis(depth) == (depth % 2) + 1

AxisBefore(a, b, axis) == \/ a.pos[axis] < b.pos[axis]
                          \/ a.pos[axis] = b.pos[axis] /\ a.id < b.id

(* build_rec: the median by the axis, ties by id, is the node; a missing kid *)
(* is <<>>, a present one a singleton.                                       *)
RECURSIVE KdBuild(_, _)
KdBuild(items, depth) ==
    LET sorted == SortSeq(items, LAMBDA a, b : AxisBefore(a, b, Axis(depth)))
        mid    == Len(items) \div 2 + 1
    IN  IF items = <<>> THEN <<>>
        ELSE <<[item  |-> sorted[mid], axis |-> Axis(depth),
                left  |-> KdBuild(SubSeq(sorted, 1, mid - 1), depth + 1),
                right |-> KdBuild(SubSeq(sorted, mid + 1, Len(items)), depth + 1)]>>

Dist2(p, q) == (p[1] - q[1]) * (p[1] - q[1]) + (p[2] - q[2]) * (p[2] - q[2])

(* By distance to q, then by id. *)
Nearer(a, b, q) == \/ Dist2(a.pos, q) < Dist2(b.pos, q)
                   \/ Dist2(a.pos, q) = Dist2(b.pos, q) /\ a.id < b.id

Near(n, q) == IF q[n.axis] < n.item.pos[n.axis] THEN n.left ELSE n.right
Far(n, q)  == IF q[n.axis] < n.item.pos[n.axis] THEN n.right ELSE n.left
Plane2(n, q) == (q[n.axis] - n.item.pos[n.axis]) * (q[n.axis] - n.item.pos[n.axis])

(* knn_rec: best is the sequence of the k nearest met so far; the far side is *)
(* searched unless the line is farther away than the last of them.            *)
SeesFarSide(n, q, k, best) ==
    Len(best) < k \/ Plane2(n, q) <= Dist2(best[Len(best)].pos, q)

Kept(best, item, q, k) ==
    LET place == Cardinality({i \in DOMAIN best : ~ Nearer(item, best[i], q)}) + 1
        among == InsertAt(best, place, item)
    IN  IF Len(best) < k \/ Dist2(item.pos, q) <= Dist2(best[Len(best)].pos, q)
        THEN SubSeq(among, 1, IF Len(among) > k THEN k ELSE Len(among))
        ELSE best

RECURSIVE KnnRec(_, _, _, _)
KnnRec(tree, q, k, best) ==
    IF tree = <<>> THEN best
    ELSE LET n     == tree[1]
             here  == Kept(best, n.item, q, k)
             after == KnnRec(Near(n, q), q, k, here)
         IN  IF SeesFarSide(n, q, k, after) THEN KnnRec(Far(n, q), q, k, after) ELSE after

KNearest(tree, q, k) == KnnRec(tree, q, k, <<>>)

(* nn_rec keeps one best, by distance and then by id, under the same pruning. *)
Nearest(tree, q) == KNearest(tree, q, 1)

(* The reference: all the items, nearest first. *)
ByDistance(items, q) == SortSeq(items, LAMBDA a, b : Nearer(a, b, q))

============================================================================
