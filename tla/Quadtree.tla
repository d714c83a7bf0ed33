------------------------------ MODULE Quadtree ------------------------------
(***************************************************************************)
(* index::Quadtree: items live at the deepest node whose region holds all  *)
(* of their box; a leaf splits above Cap items, a subtree with no more     *)
(* collapses into a leaf, and the root doubles to cover a box outside it.  *)
(***************************************************************************)
EXTENDS Boxes, Sequences, SequencesExt

CONSTANTS QCap,       \* cap_
          QMaxDepth,  \* max_depth_
          QWorld,     \* the region of an empty tree
          QPad        \* the margin build leaves around the data

Leaf(region) == [region |-> region, items |-> <<>>, kids |-> <<>>]
Quarters(region) == [i \in 1..4 |-> Leaf(Quarter(region, i))]
EmptyQuadtree == Leaf(QWorld)

(* The kid that takes a box, 0 when it straddles a split. *)
TakerOf(kids, box) ==
    LET fit == {i \in DOMAIN kids : FullyContains(kids[i].region, box)}
    IN  IF fit = {} THEN 0 ELSE CHOOSE i \in fit : \A j \in fit : i <= j

RECURSIVE InsertInto(_, _, _)
InsertInto(n, it, depth) ==
    LET taker == TakerOf(n.kids, it.box)
        held  == Append(n.items, it)
        drop(node, x) ==
            LET k == TakerOf(node.kids, x.box)
            IN  IF k = 0 THEN [node EXCEPT !.items = Append(@, x)]
                ELSE [node EXCEPT !.kids[k] = InsertInto(@, x, depth + 1)]
    IN  IF taker # 0 THEN [n EXCEPT !.kids[taker] = InsertInto(@, it, depth + 1)]
        ELSE IF n.kids = <<>> /\ Len(held) > QCap /\ depth < QMaxDepth
             THEN FoldLeft(drop, [Leaf(n.region) EXCEPT !.kids = Quarters(n.region)], held)
             ELSE [n EXCEPT !.items = held]

(* Every item of a subtree, parents first. *)
RECURSIVE Gathered(_)
Gathered(n) == n.items \o FlattenSeq([i \in DOMAIN n.kids |-> Gathered(n.kids[i])])

Collapsed(n) ==
    IF n.kids # <<>> /\ Len(Gathered(n)) <= QCap
    THEN [n EXCEPT !.items = Gathered(n), !.kids = <<>>]
    ELSE n

HoldsId(items, id) == \E i \in DOMAIN items : items[i].id = id

RECURSIVE RemoveFrom(_, _)
RemoveFrom(n, id) ==
    Collapsed(
        IF HoldsId(n.items, id)
        THEN [n EXCEPT !.items = SelectSeq(@, LAMBDA it : it.id # id)]
        ELSE [n EXCEPT !.kids = [i \in DOMAIN @ |->
                 IF HoldsId(Gathered(@[i]), id) THEN RemoveFrom(@[i], id) ELSE @[i]]])

(* expand_root_to_cover: the old root becomes a quarter of one twice as large, *)
(* towards the side the box is on.                                             *)
RECURSIVE ExpandedToCover(_, _)
ExpandedToCover(root, box) ==
    IF FullyContains(root.region, box) THEN root
    ELSE LET r     == root.region
             h     == r.n - r.s
             w     == r.e - r.w
             north == box.n > r.n \/ box.s >= r.s
             east  == box.e > r.e \/ box.w >= r.w
             grown == Box(IF north THEN r.s ELSE r.s - h, IF east THEN r.w ELSE r.w - w,
                          IF north THEN r.n + h ELSE r.n, IF east THEN r.e + w ELSE r.e)
             slot  == (IF north THEN 1 ELSE 3) + (IF east THEN 0 ELSE 1)
         IN  ExpandedToCover([Leaf(grown) EXCEPT !.kids =
                                 [Quarters(grown) EXCEPT ![slot] = root]], box)

QuadInsert(root, it) ==
    IF FullyContains(root.region, it.box) THEN InsertInto(root, it, 0)
    ELSE InsertInto(ExpandedToCover(root, it.box), it, 0)
QuadRemove(root, id) == IF HoldsId(Gathered(root), id) THEN RemoveFrom(root, id) ELSE root

(* build fits the root to the data, with a margin. *)
QuadBuild(items) ==
    LET boxes == {items[i].box : i \in DOMAIN items}
        root  == Leaf(Box(Min({b.s : b \in boxes}) - QPad, Min({b.w : b \in boxes}) - QPad,
                          Max({b.n : b \in boxes}) + QPad, Max({b.e : b \in boxes}) + QPad))
    IN  IF items = <<>> THEN EmptyQuadtree ELSE FoldLeft(QuadInsert, root, items)

RECURSIVE QuadQuery(_, _)
QuadQuery(n, q) ==
    IF ~ Intersects(n.region, q) THEN <<>>
    ELSE SelectSeq(n.items, LAMBDA it : Intersects(it.box, q))
         \o FlattenSeq([i \in DOMAIN n.kids |-> QuadQuery(n.kids[i], q)])

(* check_invariants: items inside the regions that prune them, kids that tile *)
(* their parent.                                                              *)
RECURSIVE QuadSound(_)
QuadSound(n) ==
    /\ \A i \in DOMAIN n.items : FullyContains(n.region, n.items[i].box)
    /\ n.kids # <<>> =>
          /\ Len(n.kids) = 4
          /\ \A i \in 1..4 : n.kids[i].region = Quarter(n.region, i) /\ QuadSound(n.kids[i])

============================================================================
