-------------------------------- MODULE RTree --------------------------------
(***************************************************************************)
(* index::RTree: entries in leaves of one depth under tight boxes, with    *)
(* least-enlargement insertion, quadratic splits, deletion that condenses  *)
(* underfull nodes and reinserts their entries, and STR bulk packing.      *)
(***************************************************************************)
EXTENDS Boxes, Sequences, SequencesExt, TLC

CONSTANT RMaxEntries   \* what the constructor is given; clamped to 4

M == Greater(RMaxEntries, 4)
MinFill == M \div 2

(* Bbox::empty: the inverted box that expand turns into the other box. *)
NoBox == Box(1000, 1000, -1000, -1000)

Envelope(parts) == FoldLeft(LAMBDA b, p : Expand(b, p.box), NoBox, parts)

(* refit: a node's box is the envelope of what it holds. *)
LeafOf(entries) == [leaf |-> TRUE, box |-> Envelope(entries), entries |-> entries, kids |-> <<>>]
InnerOf(kids) == [leaf |-> FALSE, box |-> Envelope(kids), entries |-> <<>>, kids |-> kids]
EmptyRTree == LeafOf(<<>>)
Fill(n) == IF n.leaf THEN Len(n.entries) ELSE Len(n.kids)

(* The two parts whose common box wastes most, the first such pair. *)
Seeds(parts) ==
    LET pairs == {p \in (DOMAIN parts) \X (DOMAIN parts) : p[1] < p[2]}
        waste(p) == Area(Expand(parts[p[1]].box, parts[p[2]].box))
                      - Area(parts[p[1]].box) - Area(parts[p[2]].box)
        worst == {p \in pairs : \A r \in pairs : waste(r) <= waste(p)}
    IN  CHOOSE p \in worst : \A r \in worst :
            p[1] < r[1] \/ (p[1] = r[1] /\ p[2] <= r[2])

(* What taking a box in costs a node: enlargement first, then its area. *)
Cost(b, box) == <<Enlargement(b, box), Area(b)>>
AtMost(a, b) == a[1] < b[1] \/ (a[1] = b[1] /\ a[2] <= b[2])

(* quadratic_split: the two groups, in the order their members came. *)
QuadraticSplit(parts) ==
    LET s    == Seeds(parts)
        rest == SelectSeq([i \in DOMAIN parts |-> i], LAMBDA i : i # s[1] /\ i # s[2])
        assign(g, i) ==
            LET p      == parts[i]
                remain == Len(rest) - (Len(g[1]) - 1) - (Len(g[2]) - 1)
                first  == \/ Len(g[1]) + remain <= MinFill
                          \/ /\ Len(g[2]) + remain > MinFill
                             /\ AtMost(Cost(Envelope(g[1]), p.box), Cost(Envelope(g[2]), p.box))
            IN  IF first THEN <<Append(g[1], p), g[2]>> ELSE <<g[1], Append(g[2], p)>>
    IN  FoldLeft(assign, <<<<parts[s[1]]>>, <<parts[s[2]]>>>>, rest)

(* ChooseSubtree: least enlargement, then least area, then first. *)
ChosenKid(kids, box) ==
    LET cost  == [i \in DOMAIN kids |-> Cost(kids[i].box, box)]
        least == {i \in DOMAIN kids : \A j \in DOMAIN kids : AtMost(cost[i], cost[j])}
    IN  CHOOSE i \in least : \A j \in least : i <= j

(* A node as it is refilled, followed by its new sibling if that splits it. *)
NodeOf(leaf, parts) == IF leaf THEN LeafOf(parts) ELSE InnerOf(parts)
Refilled(leaf, parts) ==
    LET groups == IF Len(parts) <= M THEN <<parts>> ELSE QuadraticSplit(parts)
    IN  [i \in DOMAIN groups |-> NodeOf(leaf, groups[i])]

(* do_insert: the node with the entry, as Refilled gives it. *)
RECURSIVE DoInsert(_, _)
DoInsert(n, entry) ==
    LET best  == ChosenKid(n.kids, entry.box)
        parts == DoInsert(n.kids[best], entry)
    IN  Refilled(n.leaf, IF n.leaf THEN Append(n.entries, entry)
                         ELSE [n.kids EXCEPT ![best] = parts[1]] \o Tail(parts))

(* A root that splits grows the tree upward. *)
RInsert(root, entry) ==
    LET parts == DoInsert(root, entry)
    IN  IF Len(parts) = 1 THEN parts[1] ELSE InnerOf(parts)

RECURSIVE Collected(_)
Collected(n) ==
    IF n.leaf THEN n.entries ELSE FlattenSeq([i \in DOMAIN n.kids |-> Collected(n.kids[i])])

Ids(entries) == {entries[i].id : i \in DOMAIN entries}

(* remove_node: the node without the entry, and the orphans of the nodes that *)
(* fell below the minimum fill and were dropped.                              *)
RECURSIVE RemoveNode(_, _)
RemoveNode(n, id) ==
    IF n.leaf
    THEN [node |-> LeafOf(SelectSeq(n.entries, LAMBDA e : e.id # id)), orphans |-> <<>>]
    ELSE LET at   == CHOOSE i \in DOMAIN n.kids : id \in Ids(Collected(n.kids[i]))
             sub  == RemoveNode(n.kids[at], id)
             kids == [n.kids EXCEPT ![at] = sub.node]
         IN  IF Fill(sub.node) < MinFill
             THEN [node    |-> InnerOf(SubSeq(kids, 1, at - 1) \o SubSeq(kids, at + 1, Len(kids))),
                   orphans |-> sub.orphans \o Collected(sub.node)]
             ELSE [node |-> InnerOf(kids), orphans |-> sub.orphans]

(* A root with one kid is skipped, one with none is a leaf again. *)
RECURSIVE RootCollapsed(_)
RootCollapsed(n) ==
    IF n.leaf THEN n
    ELSE IF Len(n.kids) = 1 THEN RootCollapsed(n.kids[1])
    ELSE IF n.kids = <<>> THEN EmptyRTree ELSE n

(* Mutant of RRemove: what a dissolved node held is not inserted again.     *)
RRemoveLosesOrphans(root, id) == RootCollapsed(RemoveNode(root, id).node)
RRemove(root, id) ==
    LET cut == RemoveNode(root, id)
    IN  IF id \notin Ids(Collected(root)) THEN root
        ELSE FoldLeft(RInsert, RootCollapsed(cut.node), cut.orphans)

(* ---- STR packing ------------------------------------------------------ *)

(* A part's tie-breaking id: an entry's own, the smallest one in a node. *)
PartIds(p) == IF "id" \in DOMAIN p THEN {p.id} ELSE Ids(Collected(p))
IdOf(p) == CHOOSE a \in PartIds(p) : \A b \in PartIds(p) : a <= b

ByLon(a, b) == LET x == a.box.w + a.box.e
                   y == b.box.w + b.box.e
               IN  x < y \/ (x = y /\ IdOf(a) < IdOf(b))
ByLat(a, b) == LET x == a.box.s + a.box.n
                   y == b.box.s + b.box.n
               IN  x < y \/ (x = y /\ IdOf(a) < IdOf(b))

CeilDiv(a, b) == (a + b - 1) \div b
CeilRoot(p) == CHOOSE s \in 0..p : s * s >= p /\ (s = 0 \/ (s - 1) * (s - 1) < p)

(* Runs of at most size members. *)
Runs(parts, size) ==
    [k \in 1..CeilDiv(Len(parts), size) |->
        SubSeq(parts, (k - 1) * size + 1, Lesser(k * size, Len(parts)))]

StrPartition(parts) ==
    LET slices == CeilRoot(CeilDiv(Len(parts), M))
        sorted == SortSeq(parts, ByLon)
        slice  == Runs(sorted, CeilDiv(Len(parts), slices))
    IN  FlattenSeq([k \in DOMAIN slice |-> Runs(SortSeq(slice[k], ByLat), M)])

RECURSIVE PackedUp(_)
PackedUp(level) ==
    IF Len(level) <= 1 THEN level[1]
    ELSE LET groups == StrPartition(level)
         IN  PackedUp([k \in DOMAIN groups |-> InnerOf(groups[k])])

RBuild(entries) ==
    IF entries = <<>> THEN EmptyRTree
    ELSE LET groups == StrPartition(entries)
         IN  PackedUp([k \in DOMAIN groups |-> LeafOf(groups[k])])

RECURSIVE RQuery(_, _)
RQuery(n, q) ==
    IF ~ Intersects(n.box, q) THEN <<>>
    ELSE IF n.leaf THEN SelectSeq(n.entries, LAMBDA e : Intersects(e.box, q))
    ELSE FlattenSeq([i \in DOMAIN n.kids |-> RQuery(n.kids[i], q)])

(* check_invariants: leaves of one depth, tight boxes, no node empty or over full. *)
RECURSIVE LeafDepths(_, _)
LeafDepths(n, depth) ==
    IF n.leaf THEN {depth} ELSE UNION {LeafDepths(n.kids[i], depth + 1) : i \in DOMAIN n.kids}

RECURSIVE NodesSound(_)
NodesSound(n) ==
    /\ Fill(n) <= M
    /\ n.box = Envelope(IF n.leaf THEN n.entries ELSE n.kids)
    /\ \A i \in DOMAIN n.kids : Fill(n.kids[i]) > 0 /\ NodesSound(n.kids[i])

RTreeSound(root) == NodesSound(root) /\ Cardinality(LeafDepths(root, 0)) = 1

============================================================================
