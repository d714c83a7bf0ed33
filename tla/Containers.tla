----------------------------- MODULE Containers -----------------------------
(***************************************************************************)
(* The containers of ds/ that the platform keeps zones, validities and     *)
(* recent samples in: HashMap, IntervalTree and CircularBuffer.            *)
(***************************************************************************)
EXTENDS Integers, Sequences, FiniteSets, SequencesExt

CONSTANTS InitialSlots,   \* kInitial of the table, a power of two
          RingCapacity    \* N of the buffer

----------------------------------------------------------------------------
(***************************************************************************)
(* ds::HashMap: open addressing with linear probing.  An erased slot is a  *)
(* tombstone that keeps probe chains whole and that a later put reuses;    *)
(* at 70 % of full and dead slots the table is rehashed, and doubled if    *)
(* the live ones alone would reach that.                                   *)
(***************************************************************************)
Slot == [state |-> "Empty", key |-> 0, value |-> 0]
Blank(n) == [slots |-> [i \in 0..(n - 1) |-> Slot], count |-> 0, tombstones |-> 0]
EmptyMap == Blank(InitialSlots)

SlotCount(m) == Cardinality(DOMAIN m.slots)

(* Hash: the key times an odd constant; its low bits are all a table of up to *)
(* 2^16 slots looks at.                                                        *)
Home(m, key) == (key * 31161) % SlotCount(m)   \* 2654435769, modulo 2^16
Probe(m, key, step) == (Home(m, key) + step) % SlotCount(m)

Full(s, key) == s.state = "Full" /\ s.key = key

(* find: probe until the key or an empty slot; -1 when it is not there. *)
FindSlot(m, key) ==
    LET hits == {k \in 0..(SlotCount(m) - 1) :
                    /\ Full(m.slots[Probe(m, key, k)], key)
                    /\ \A j \in 0..(k - 1) : m.slots[Probe(m, key, j)].state # "Empty"}
    IN  IF hits = {} THEN -1
        ELSE Probe(m, key, CHOOSE k \in hits : \A j \in hits : k <= j)

(* The slot a new key takes: the first tombstone on its way to the first empty *)
(* slot, or that one.                                                          *)
Steps(m) == 0..(SlotCount(m) - 1)
FreeSlot(m, key) ==
    LET empty == {k \in Steps(m) : m.slots[Probe(m, key, k)].state = "Empty"}
        end   == CHOOSE k \in empty : \A j \in empty : k <= j
        tombs == {k \in Steps(m) : k < end /\ m.slots[Probe(m, key, k)].state = "Tomb"}
    IN  Probe(m, key, IF tombs = {} THEN end ELSE CHOOSE k \in tombs : \A j \in tombs : k <= j)

Placed(m, key, value) ==
    LET at   == FindSlot(m, key)
        free == FreeSlot(m, key)
    IN  IF at >= 0 THEN [m EXCEPT !.slots[at].value = value]
        ELSE [m EXCEPT !.slots[free] = [state |-> "Full", key |-> key, value |-> value],
                       !.count = @ + 1,
                       !.tombstones = IF m.slots[free].state = "Tomb" THEN @ - 1 ELSE @]

(* rehash: the full slots, in slot order, into a blank table. *)
Rehashed(m, n) ==
    LET full == SelectSeq([i \in 1..SlotCount(m) |-> m.slots[i - 1]],
                          LAMBDA s : s.state = "Full")
    IN  FoldLeft(LAMBDA t, s : Placed(t, s.key, s.value), Blank(n), full)

Crowded(m) == (m.count + m.tombstones + 1) * 10 >= SlotCount(m) * 7
NeedsGrowth(m) == (m.count + 1) * 10 >= SlotCount(m) * 7

Put(m, key, value) ==
    IF ~ Crowded(m) THEN Placed(m, key, value)
    ELSE Placed(Rehashed(m, IF NeedsGrowth(m) THEN 2 * SlotCount(m) ELSE SlotCount(m)),
                key, value)

Erase(m, key) ==
    IF FindSlot(m, key) < 0 THEN m
    ELSE [m EXCEPT !.slots[FindSlot(m, key)].state = "Tomb",
                   !.count = @ - 1, !.tombstones = @ + 1]

Get(m, key) == IF FindSlot(m, key) < 0 THEN <<>> ELSE <<m.slots[FindSlot(m, key)].value>>

(* for_each: the pairs, in slot order. *)
Pairs(m) == {<<m.slots[i].key, m.slots[i].value>> :
                i \in {j \in DOMAIN m.slots : m.slots[j].state = "Full"}}

(* The counters are true, every key is stored once and found, and a slot stays *)
(* empty, without which a probe for a new key would never end.                 *)
MapSound(m) ==
    LET in(state) == {i \in DOMAIN m.slots : m.slots[i].state = state}
    IN  /\ m.count = Cardinality(in("Full"))
        /\ m.tombstones = Cardinality(in("Tomb"))
        /\ in("Empty") # {}
        /\ \A i \in in("Full") : FindSlot(m, m.slots[i].key) = i

----------------------------------------------------------------------------
(***************************************************************************)
(* ds::IntervalTree: an AVL tree of half-open intervals ordered by (low,   *)
(* high, value, seq), every node with the largest high end below it, which *)
(* is what lets a search drop a subtree.  A tree is [root, next]: a node   *)
(* or <<>>, and the sequence number of the next insertion.  The array the  *)
(* code keeps its nodes in, with its free list, is left out.               *)
(***************************************************************************)
EmptyIntervals == [root |-> <<>>, next |-> 0]

Height(t) == IF t = <<>> THEN 0 ELSE t.height
MaxHigh(t) == IF t = <<>> THEN -1 ELSE t.maxHigh
Larger(a, b) == IF a < b THEN b ELSE a

(* A node over two subtrees, its height and largest high end recomputed. *)
Refit(e, left, right) ==
    [e |-> e, left |-> left, right |-> right,
     height  |-> 1 + Larger(Height(left), Height(right)),
     maxHigh |-> Larger(e.high, Larger(MaxHigh(left), MaxHigh(right)))]

(* The order of the public operations, and the strict one of the tree. *)
BeforeTriple(a, b) ==
    \/ a.low < b.low
    \/ a.low = b.low /\ a.high < b.high
    \/ a.low = b.low /\ a.high = b.high /\ a.value < b.value
SameTriple(a, b) == a.low = b.low /\ a.high = b.high /\ a.value = b.value
Before(a, b) == BeforeTriple(a, b) \/ (SameTriple(a, b) /\ a.seq < b.seq)

RotRight(y) == Refit(y.left.e, y.left.left, Refit(y.e, y.left.right, y.right))
RotLeft(x)  == Refit(x.right.e, Refit(x.e, x.left, x.right.left), x.right.right)

(* Rotations keep a node's subtrees within one of each other in height. *)
Rebalanced(e, left, right) ==
    IF Height(left) - Height(right) > 1
    THEN RotRight(Refit(e, IF Height(left.left) < Height(left.right)
                           THEN RotLeft(left) ELSE left, right))
    ELSE IF Height(right) - Height(left) > 1
    THEN RotLeft(Refit(e, left, IF Height(right.right) < Height(right.left)
                                THEN RotRight(right) ELSE right))
    ELSE Refit(e, left, right)

RECURSIVE InsertAtNode(_, _)
InsertAtNode(t, e) ==
    IF t = <<>> THEN Refit(e, <<>>, <<>>)
    ELSE IF Before(e, t.e) THEN Rebalanced(t.e, InsertAtNode(t.left, e), t.right)
    ELSE Rebalanced(t.e, t.left, InsertAtNode(t.right, e))

IntervalInsert(tree, low, high, value) ==
    [root |-> InsertAtNode(tree.root, [low |-> low, high |-> high, value |-> value,
                                       seq |-> tree.next]),
     next |-> tree.next + 1]

(* erase_min: the least entry of a subtree, and the subtree without its node. *)
RECURSIVE EraseMin(_)
EraseMin(t) ==
    IF t.left = <<>> THEN [min |-> t.e, rest |-> t.right]
    ELSE LET sub == EraseMin(t.left)
         IN  [min |-> sub.min, rest |-> Rebalanced(t.e, sub.rest, t.right)]

(* erase_node: a node with two kids takes its successor's entry, seq included. *)
ErasedNode(t) ==
    IF t.left = <<>> THEN t.right
    ELSE IF t.right = <<>> THEN t.left
    ELSE LET succ == EraseMin(t.right) IN Rebalanced(succ.min, t.left, succ.rest)

(* erase_first: one path down, by the triple.  Refitting the path of an entry *)
(* that is not there changes nothing.                                         *)
RECURSIVE EraseFirst(_, _)
EraseFirst(t, x) ==
    IF t = <<>> THEN t
    ELSE IF SameTriple(x, t.e) THEN ErasedNode(t)
    ELSE IF BeforeTriple(x, t.e) THEN Rebalanced(t.e, EraseFirst(t.left, x), t.right)
    ELSE Rebalanced(t.e, t.left, EraseFirst(t.right, x))

IntervalRemove(tree, low, high, value) ==
    [tree EXCEPT !.root = EraseFirst(@, [low |-> low, high |-> high, value |-> value])]

(* descend, with both prunes. *)
RECURSIVE Descend(_, _, _)
Descend(t, low, high) ==
    IF t = <<>> \/ MaxHigh(t) <= low THEN <<>>
    ELSE Descend(t.left, low, high)
         \o (IF t.e.low < high /\ low < t.e.high THEN <<t.e.value>> ELSE <<>>)
         \o (IF t.e.low < high THEN Descend(t.right, low, high) ELSE <<>>)

Overlapping(tree, low, high) == IF low >= high THEN <<>> ELSE Descend(tree.root, low, high)
Stabbing(tree, at) == Descend(tree.root, at, at + 1)

RECURSIVE Entries(_)
Entries(t) == IF t = <<>> THEN <<>> ELSE Entries(t.left) \o <<t.e>> \o Entries(t.right)

(* audit: in order, balanced, every height and largest high end true. *)
RECURSIVE NodesAudited(_)
NodesAudited(t) ==
    t # <<>> => /\ t = Refit(t.e, t.left, t.right)
                /\ Height(t.left) - Height(t.right) \in -1..1
                /\ NodesAudited(t.left) /\ NodesAudited(t.right)

IntervalsSound(tree) ==
    LET es == Entries(tree.root)
    IN  /\ \A i \in 1..(Len(es) - 1) : Before(es[i], es[i + 1])
        /\ NodesAudited(tree.root)

----------------------------------------------------------------------------
(***************************************************************************)
(* ds::CircularBuffer: the last Capacity values pushed, addressed from the *)
(* newest back.  The head is the slot the next push writes.                *)
(***************************************************************************)
EmptyRing == [buf |-> [i \in 0..(RingCapacity - 1) |-> 0], head |-> 0, count |-> 0]

Push(r, v) ==
    [buf   |-> [r.buf EXCEPT ![r.head] = v],
     head  |-> (r.head + 1) % RingCapacity,
     count |-> IF r.count < RingCapacity THEN r.count + 1 ELSE r.count]

(* operator[]: 0 is the newest. *)
AtFromOldest(r, i) == r.buf[(r.head + i) % RingCapacity]
AtFromNewest(r, i) ==
    r.buf[(r.head + RingCapacity - 1 - (i % (IF r.count = 0 THEN 1 ELSE r.count)))
             % RingCapacity]
RingOldest(r) == AtFromNewest(r, IF r.count = 0 THEN 0 ELSE r.count - 1)

NewestFirst(r) == [i \in 1..r.count |-> AtFromNewest(r, i - 1)]

=============================================================================
