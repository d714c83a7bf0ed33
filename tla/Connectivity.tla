----------------------------- MODULE Connectivity -----------------------------
(***************************************************************************)
(* ds::RollbackDSU: union by rank without path compression, with an undo   *)
(* stack that takes unions back, newest first.                             *)
(***************************************************************************)
EXTENDS Integers, Sequences, FiniteSets

CONSTANTS Elements,      \* 1..n
          MaxUnions      \* how deep the undo stack may get

ASSUME DsuAssumption == IsFiniteSet(Elements)

VARIABLES parent, rank, size, undo, components,
          done           \* the unions in force: what each entry of undo joined

dsuVars == <<parent, rank, size, undo, components, done>>

(* f, n times over. *)
After(f, n, x) ==
    LET walk[k \in 0..n] == IF k = 0 THEN x ELSE f[walk[k - 1]]
    IN  walk[n]

(* find: up to what is its own parent.  No way up is longer than there are    *)
(* unions in force.                                                           *)
Find(x) == After(parent, Len(undo), x)

DsuInit ==
    /\ parent = [x \in Elements |-> x]
    /\ rank = [x \in Elements |-> 0]
    /\ size = [x \in Elements |-> 1]
    /\ undo = <<>> /\ done = <<>>
    /\ components = Cardinality(Elements)

(* The root of lower rank goes below the other. *)
Hang(low, high) ==
    /\ undo' = Append(undo, [child |-> low, parent |-> parent[low], root |-> high, rank |-> rank[high]])
    /\ parent' = [parent EXCEPT ![low] = high]
    /\ size' = [size EXCEPT ![high] = size[high] + size[low]]
    /\ rank' = [rank EXCEPT ![high] = IF rank[low] = rank[high] THEN rank[high] + 1 ELSE rank[high]]
    /\ components' = components - 1

Unite(x, y) ==
    LET rx == Find(x)  ry == Find(y)
    IN  /\ rx # ry /\ Len(undo) < MaxUnions
        /\ IF rank[rx] < rank[ry] THEN Hang(rx, ry) ELSE Hang(ry, rx)
        /\ done' = Append(done, {x, y})

Forest == [parent |-> parent, rank |-> rank, size |-> size]

(* Mutant of Undone: the rank stays as it was raised. *)
UndoneKeepingRank(u, s) ==
    [parent |-> [s.parent EXCEPT ![u.child] = u.parent],
     rank   |-> s.rank,
     size   |-> [s.size EXCEPT ![u.root] = s.size[u.root] - s.size[u.child]]]

(* One turn of rollback_to: the last union is taken back. *)
Undone(u, s) ==
    [parent |-> [s.parent EXCEPT ![u.child] = u.parent],
     rank   |-> [s.rank EXCEPT ![u.root] = u.rank],
     size   |-> [s.size EXCEPT ![u.root] = s.size[u.root] - s.size[u.child]]]

(* Mutant of TakenBack: the unions are taken back in the order they were made. *)
TakenBackForward(s, mark) ==
    LET back[k \in 0..(Len(undo) - mark)] ==
            IF k = 0 THEN s ELSE Undone(undo[mark + k], back[k - 1])
    IN  back[Len(undo) - mark]

(* The newest first, down to the mark. *)
TakenBack(s, mark) ==
    LET back[k \in 0..(Len(undo) - mark)] ==
            IF k = 0 THEN s ELSE Undone(undo[(Len(undo) + 1) - k], back[k - 1])
    IN  back[Len(undo) - mark]

RollbackTo(mark) ==
    LET s == TakenBack(Forest, mark)
    IN  /\ parent' = s.parent /\ rank' = s.rank /\ size' = s.size
        /\ components' = components + (Len(undo) - mark)
        /\ undo' = SubSeq(undo, 1, mark) /\ done' = SubSeq(done, 1, mark)

DsuNext ==
    \/ \E x, y \in Elements : Unite(x, y)
    \/ \E mark \in 0..(Len(undo) - 1) : RollbackTo(mark)

DsuSpec == DsuInit /\ [][DsuNext]_dsuVars

(* components: in the order of their first members. *)
ComponentsInOrder ==
    LET firsts == SelectSeq([x \in 1..Cardinality(Elements) |-> x],
                            LAMBDA x : \A y \in 1..(x - 1) : Find(y) # Find(x))
    IN  [k \in DOMAIN firsts |-> {y \in Elements : Find(y) = Find(firsts[k])}]

----------------------------------------------------------------------------

TreeOf(x) == {y \in Elements : Find(y) = Find(x)}

(* No part of it can be told from the rest by what was joined. *)
Connected(C) ==
    \A T \in SUBSET C :
        T # {} /\ T # C =>
            \E i \in DOMAIN done : done[i] \cap T # {} /\ done[i] \cap (C \ T) # {}

Power(n) == After([k \in Nat |-> 2 * k], n, 1)

(* After any merging and splitting: the forest joins what the unions in force *)
(* join and nothing else, the counts and sizes are theirs, and no tree is     *)
(* deeper than the rank of its root, which its size bounds: that is what      *)
(* makes find cheap without compression, and what a rollback that forgets a   *)
(* field destroys.                                                            *)
ForestIsTrue ==
    /\ \A i \in DOMAIN done : \E x \in Elements : done[i] \subseteq TreeOf(x)
    /\ components = Cardinality({Find(x) : x \in Elements})
    /\ \A x \in Elements :
          /\ Connected(TreeOf(x))
          /\ parent[Find(x)] = Find(x)
          /\ size[Find(x)] = Cardinality(TreeOf(x))
          /\ After(parent, rank[Find(x)], x) = Find(x)
          /\ Power(rank[Find(x)]) <= size[Find(x)]

=============================================================================
