----------------------------- MODULE Structures -----------------------------
(***************************************************************************)
(* The structures of index/ and ds/ in lockstep: the same operations on    *)
(* all of them and on the linear scan they promise to agree with           *)
(* (tests/index/equivalence_test.cpp).  A behaviour starts from a bulk     *)
(* build and then inserts and removes items one at a time.                 *)
(***************************************************************************)
EXTENDS Boxes, Sequences, SequencesExt, TLC

CONSTANTS ItemIds, BoxOf,     \* the items there may be, 1 up to some number, and their boxes
          IntervalOf,         \* the [low, high, value] each puts in the interval tree
          Starts,             \* the [ids, ops] a behaviour builds from and may do then
          Probes, Points, Times,   \* the query boxes, points and instants
          QCap, QMaxDepth, QWorld, QPad, RMaxEntries, GBits, GWorld,
          InitialSlots, RingCapacity

VARIABLES items,      \* BruteForceIndex: the items held, in the order they came
          quad, rtree, geohash,
          slots,      \* a HashMap from id to box
          intervals,
          ring, pushed,   \* a CircularBuffer, and all that was ever pushed
          left        \* the operations this behaviour may still do

vars == <<items, quad, rtree, geohash, slots, intervals, ring, pushed, left>>

Q == INSTANCE Quadtree
R == INSTANCE RTree
G == INSTANCE Geohash
K == INSTANCE KdTree
C == INSTANCE Containers

Item(id) == [id |-> id, box |-> BoxOf[id]]
IdsOf(its) == {its[i].id : i \in DOMAIN its}
AsSeq(ids) == SelectSeq([id \in ItemIds |-> Item(id)], LAMBDA it : it.id \in ids)

WithInterval(t, id) == C!IntervalInsert(t, IntervalOf[id].low, IntervalOf[id].high,
                                        IntervalOf[id].value)
WithoutInterval(t, id) == C!IntervalRemove(t, IntervalOf[id].low, IntervalOf[id].high,
                                           IntervalOf[id].value)

Init == \E s \in Starts : \E its \in {AsSeq(s.ids)} :
    /\ items     = its
    /\ left      = s.ops
    /\ quad      = Q!QuadBuild(its)
    /\ rtree     = R!RBuild(its)
    /\ geohash   = G!GBuild(its)
    /\ slots     = FoldLeft(LAMBDA m, it : C!Put(m, it.id, it.box), C!EmptyMap, its)
    /\ intervals = FoldLeft(LAMBDA t, it : WithInterval(t, it.id), C!EmptyIntervals, its)
    /\ ring      = FoldLeft(LAMBDA r, it : C!Push(r, it.id), C!EmptyRing, its)
    /\ pushed    = [i \in DOMAIN its |-> its[i].id]

InsertItem(id) ==
    /\ id \notin IdsOf(items)
    /\ items'     = Append(items, Item(id))
    /\ quad'      = Q!QuadInsert(quad, Item(id))
    /\ rtree'     = R!RInsert(rtree, Item(id))
    /\ geohash'   = G!GInsert(geohash, Item(id))
    /\ slots'     = C!Put(slots, id, BoxOf[id])
    /\ intervals' = WithInterval(intervals, id)

RemoveItem(id) ==
    /\ id \in IdsOf(items)
    /\ items'     = SelectSeq(items, LAMBDA it : it.id # id)
    /\ quad'      = Q!QuadRemove(quad, id)
    /\ rtree'     = R!RRemove(rtree, id)
    /\ geohash'   = G!GRemove(geohash, id)
    /\ slots'     = C!Erase(slots, id)
    /\ intervals' = WithoutInterval(intervals, id)

Next == /\ left > 0
        /\ left' = left - 1
        /\ \E id \in ItemIds :
              /\ InsertItem(id) \/ RemoveItem(id)
              /\ ring'   = C!Push(ring, id)
              /\ pushed' = Append(pushed, id)

Spec == Init /\ [][Next]_vars

----------------------------------------------------------------------------

(* BruteForceIndex::query. *)
Scan(q) == IdsOf(SelectSeq(items, LAMBDA it : Intersects(it.box, q)))
Answer(found) == [ids |-> IdsOf(found), count |-> Len(found)]

(* Every index returns exactly what the scan returns, each item once, after  *)
(* any splits, collapses, condensing, root growth and re-sorting: a query    *)
(* that prunes one subtree too many is a zone a tourist enters unseen.       *)
AnswersLikeBruteForce ==
    \A q \in Probes :
        LET truth == [ids |-> Scan(q), count |-> Cardinality(Scan(q))]
        IN  /\ Answer(Q!QuadQuery(quad, q)) = truth
            /\ Answer(R!RQuery(rtree, q)) = truth
            /\ Answer(G!GQuery(geohash, q)) = truth

(* The k-d tree's k nearest are the k first of the scan ordered by distance   *)
(* and id, for every k: ties across a splitting line included.                *)
NearestLikeBruteForce ==
    LET sites == [i \in DOMAIN items |->
                     [id |-> items[i].id, pos |-> <<items[i].box.s, items[i].box.w>>]]
        tree  == K!KdBuild(sites, 0)
    IN  \A p \in Points, k \in {1, 3} :
            K!KNearest(tree, p, k)
                = SubSeq(K!ByDistance(sites, p), 1, Lesser(k, Len(sites)))

(* Every structure's own audit: regions that hold and tile, leaves of one     *)
(* depth under tight boxes, keys in order under the right padding, a blob     *)
(* that restores and a damaged one that does nothing, an AVL tree in order    *)
(* and balanced with exact duplicates in it, a table with true counters.      *)
StructuresAreSound ==
    /\ Q!QuadSound(quad) /\ IdsOf(Q!Gathered(quad)) = IdsOf(items)
    /\ R!RTreeSound(rtree) /\ IdsOf(R!Collected(rtree)) = IdsOf(items)
    /\ G!GeohashSound(geohash) /\ G!BlobRestores(geohash)
    /\ C!IntervalsSound(intervals)
    /\ C!MapSound(slots)

Times2(v, its) == Cardinality({i \in DOMAIN its : its[i] = v})
SameBag(a, b) == \A v \in ToSet(a) \cup ToSet(b) : Times2(v, a) = Times2(v, b)

(* The containers hold what the scan holds: the table every live key and no   *)
(* other, through tombstones and rehashes; the interval tree the values of    *)
(* every window, as often as they were put in; the ring the last pushes,      *)
(* newest first, after it has wrapped.                                        *)
ContainersAgree ==
    /\ C!Pairs(slots) = {<<id, BoxOf[id]>> : id \in IdsOf(items)}
    /\ \A id \in ItemIds : C!Get(slots, id)
                              = IF id \in IdsOf(items) THEN <<BoxOf[id]>> ELSE <<>>
    /\ \A a \in Times, b \in Times :
          LET over(it) == IntervalOf[it.id].low < b /\ a < IntervalOf[it.id].high /\ a < b
              hits     == SelectSeq(items, over)
          IN  SameBag(C!Overlapping(intervals, a, b),
                      [i \in DOMAIN hits |-> IntervalOf[hits[i].id].value])
    /\ \A t \in Times :
          SameBag(C!Stabbing(intervals, t), C!Overlapping(intervals, t, t + 1))
    /\ LET n == Lesser(Len(pushed), RingCapacity)
       IN  /\ C!NewestFirst(ring) = SubSeq(Reverse(pushed), 1, n)
           /\ n > 0 => C!RingOldest(ring) = pushed[Len(pushed) - n + 1]

=============================================================================
