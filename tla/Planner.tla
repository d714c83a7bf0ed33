------------------------------- MODULE Planner -------------------------------
(***************************************************************************)
(* dispatch/assigner over a road graph: a pool of responders and a batch   *)
(* of incidents are snapped to junctions, the road distances between them  *)
(* fill a matrix, and the greedy and the optimal plan are made from it.    *)
(***************************************************************************)
EXTENDS Roads

(***************************************************************************)
(* graph/bipartite_match: Kuhn's augmenting paths and the Hungarian        *)
(* algorithm by potentials.  A cost matrix is a sequence of rows.          *)
(***************************************************************************)
Far == 1000000      \* INF: above every sum of costs

----------------------------------------------------------------------------
(* Kuhn.  match is a function from the right vertices to the left vertex    *)
(* each is matched to, 0 for none; seen is shared by one augmentation.      *)

(* The neighbours of u in order, from the k-th, until one can be had. *)
RECURSIVE TryAugment(_, _, _, _)
TryAugment(u, k, adj, st) ==
    IF k > Len(adj[u]) THEN [st EXCEPT !.ok = FALSE]
    ELSE LET v      == adj[u][k]
             marked == [st EXCEPT !.seen = @ \cup {v}]
             moved  == IF st.match[v] = 0 THEN [marked EXCEPT !.ok = TRUE]
                       ELSE TryAugment(st.match[v], 1, adj, marked)
         IN  IF v \in st.seen THEN TryAugment(u, k + 1, adj, st)
             ELSE IF moved.ok THEN [moved EXCEPT !.match[v] = u]
             ELSE TryAugment(u, k + 1, adj, moved)

Kuhn(rights, adj) ==
    FoldLeft(LAMBDA acc, u :
                LET st == TryAugment(u, 1, adj, [match |-> acc.match, seen |-> {}, ok |-> FALSE])
                IN  [match |-> st.match, count |-> acc.count + (IF st.ok THEN 1 ELSE 0)],
             [match |-> [v \in 1..rights |-> 0], count |-> 0],
             [u \in DOMAIN adj |-> u])

----------------------------------------------------------------------------
(* Hungarian, rows <= columns.  Columns count from 1; column 0 is where an   *)
(* augmenting path starts and ends.  p gives the row of a column, way the    *)
(* column a path came from, u and v the potentials.                          *)

Status(cost) ==
    IF cost = <<>> THEN "EmptyInput"
    ELSE IF cost[1] = <<>> \/ \E i \in DOMAIN cost : Len(cost[i]) # Len(cost[1]) THEN "Ragged"
    ELSE IF Len(cost[1]) < Len(cost) THEN "MoreRowsThanCols"
    ELSE "Ok"

(* One turn of the search from column j0: lower the slack of the free columns *)
(* through its row, move the potentials by the least slack, go to the column  *)
(* that has it (the first, of several).                                       *)
ReachColumn(a, s) ==
    LET used  == s.used \cup {s.j0}
        row   == s.p[s.j0]
        free  == DOMAIN s.v \ used
        cur(j) == a[row][j] - s.u[row] - s.v[j]
        minv  == [j \in DOMAIN s.v |-> IF j \in free /\ cur(j) < s.minv[j] THEN cur(j)
                                       ELSE s.minv[j]]
        way   == [j \in DOMAIN s.v |-> IF j \in free /\ cur(j) < s.minv[j] THEN s.j0
                                       ELSE s.way[j]]
        j1    == CHOOSE j \in free : \A k \in free : \/ minv[j] < minv[k]
                                                     \/ minv[j] = minv[k] /\ j <= k
        delta == minv[j1]
        rows  == {s.p[j] : j \in used}
    IN  [s EXCEPT !.used = used, !.j0 = j1, !.way = way,
                  !.u = [i \in DOMAIN s.u |-> IF i \in rows THEN s.u[i] + delta ELSE s.u[i]],
                  !.v = [j \in DOMAIN s.v |-> IF j \in used THEN s.v[j] - delta ELSE s.v[j]],
                  !.minv = [j \in DOMAIN s.v |-> IF j \in used THEN minv[j] ELSE minv[j] - delta]]

RECURSIVE SearchColumn(_, _)
SearchColumn(a, s) == LET t == ReachColumn(a, s)
                      IN  IF t.p[t.j0] = 0 THEN t ELSE SearchColumn(a, t)

RECURSIVE Unwind(_)
Unwind(s) == IF s.j0 = 0 THEN s
             ELSE Unwind([s EXCEPT !.p[s.j0] = s.p[s.way[s.j0]], !.j0 = s.way[s.j0]])

(* Mutant of AddRow: the slacks of the row before are kept. *)
AddRowKeepingSlack(a, s, i) ==
    Unwind(SearchColumn(a, [s EXCEPT !.p[0] = i, !.j0 = 0, !.used = {}]))
AddRow(a, s, i) ==
    Unwind(SearchColumn(a, [s EXCEPT !.p[0] = i, !.j0 = 0, !.used = {},
                                     !.minv = [j \in DOMAIN s.v |-> Far]]))

(* The column of each row; <<>> for an input that is refused. *)
Hungarian(cost) ==
    LET n     == Len(cost)
        m     == Len(cost[1])
        start == [u |-> [i \in 0..n |-> 0], v |-> [j \in 0..m |-> 0],
                  p |-> [j \in 0..m |-> 0], way |-> [j \in 0..m |-> 0],
                  minv |-> [j \in 0..m |-> Far], used |-> {}, j0 |-> 0]
        end   == FoldLeft(LAMBDA s, i : AddRow(cost, s, i), start, [i \in 1..n |-> i])
    IN  IF Status(cost) # "Ok" THEN <<>>
        ELSE [i \in 1..n |-> CHOOSE j \in 1..m : end.p[j] = i]

----------------------------------------------------------------------------
(* The planner. *)

CONSTANTS Maps,          \* the road graphs there may be
          Places,        \* where responders and incidents may be
          Units, Cases   \* how many of each

VARIABLES map, pool, incidents, plans

vars == <<map, pool, incidents, plans>>

RECURSIVE RunSearch(_, _)
RunSearch(g, s) == IF SearchOver(s) THEN s ELSE RunSearch(g, SearchStep(g, s))
Dijkstra(g, src) == RunSearch(g, BeginSearch(g, "dijkstra", src, None))

(* snap_all, snap_incidents. *)
Snapped(g, p) == NearestNode(g, p)

(* cost_matrix: one search for each responder on the network. *)
CostMatrix ==
    [r \in DOMAIN pool |->
        LET sp == Dijkstra(map, Snapped(map, pool[r].pos))
        IN  [i \in DOMAIN incidents |->
                IF Valid(map, sp.source) /\ Valid(map, Snapped(map, incidents[i]))
                THEN sp.dist[Snapped(map, incidents[i])] ELSE Unreachable]]

Available == SelectSeq([r \in DOMAIN pool |-> r], LAMBDA r : pool[r].available)

(* assign_greedy: the cheapest pair that is left, the first of several in the *)
(* order of responders and then incidents, until no reachable pair is left.   *)
RECURSIVE Greedy(_, _, _)
Greedy(c, rs, is) ==
    LET pairs == {x \in rs \X is : c[x[1]][x[2]] < Unreachable}
        cheapest == CHOOSE x \in pairs : \A y \in pairs :
                       \/ c[x[1]][x[2]] < c[y[1]][y[2]]
                       \/ /\ c[x[1]][x[2]] = c[y[1]][y[2]]
                          /\ x[1] < y[1] \/ (x[1] = y[1] /\ x[2] <= y[2])
    IN  IF pairs = {} THEN <<>>
        ELSE <<cheapest>> \o Greedy(c, rs \ {cheapest[1]}, is \ {cheapest[2]})

Reachable(c, pairs) == SelectSeq(pairs, LAMBDA x : c[x[1]][x[2]] < Unreachable)

(* assign_optimal: the smaller side gives the rows; the pairs that no road    *)
(* joins are dropped from what the matching returns.                          *)
Optimal(c) ==
    LET a    == Available
        n    == Len(incidents)
        tall == Len(a) > n
        rows == IF tall THEN [i \in 1..n |-> [r \in DOMAIN a |-> c[a[r]][i]]]
                ELSE [r \in DOMAIN a |-> [i \in 1..n |-> c[a[r]][i]]]
        to   == Hungarian(rows)
    IN  IF a = <<>> \/ n = 0 THEN <<>>
        ELSE Reachable(c, [k \in DOMAIN to |-> IF tall THEN <<a[to[k]], k>> ELSE <<a[k], to[k]>>])

(* finalize. *)
Total(c, pairs) == FoldLeft(LAMBDA t, x : t + c[x[1]][x[2]], 0, pairs)
Makespan(c, pairs) == FoldLeft(LAMBDA t, x : IF c[x[1]][x[2]] > t THEN c[x[1]][x[2]] ELSE t, 0, pairs)
Finalized(c, pairs) == [pairs |-> pairs, total |-> Total(c, pairs),
                        makespan |-> Makespan(c, pairs),
                        unassigned |-> Len(incidents) - Len(pairs)]

NoPlans == [cost |-> <<>>, greedy |-> <<>>, optimal |-> <<>>]

Init == /\ map \in Maps
        /\ \E n \in Units : pool \in [1..n -> [pos : Places, available : BOOLEAN]]
        /\ \E n \in Cases : incidents \in [1..n -> Places]
        /\ plans = NoPlans

Plan == /\ plans = NoPlans
        /\ \E c \in {CostMatrix} :
              plans' = [cost    |-> c,
                        greedy  |-> Finalized(c, Greedy(c, ToSet(Available), DOMAIN incidents)),
                        optimal |-> Finalized(c, Optimal(c))]
        /\ UNCHANGED <<map, pool, incidents>>

Next == Plan

Spec == Init /\ [][Next]_vars

----------------------------------------------------------------------------

(* kuhn_matching over the pairs a road joins: how many incidents can be       *)
(* covered at all.                                                            *)
Coverable ==
    Kuhn(Len(incidents),
           [k \in DOMAIN Available |->
               SelectSeq([i \in DOMAIN incidents |-> i],
                         LAMBDA i : plans.cost[Available[k]][i] < Unreachable)]).count

(* Every set of pairs that gives a unit one case at most and a case one unit. *)
Matchings ==
    LET all == {x \in ToSet(Available) \X DOMAIN incidents :
                   plans.cost[x[1]][x[2]] < Unreachable}
    IN  {s \in SUBSET all : \A x, y \in s : x # y => x[1] # y[1] /\ x[2] # y[2]}
CostOf(s) == Total(plans.cost, SetToSeq(s))

Fits(pairs) == ToSet(pairs) \in Matchings /\ Len(pairs) = Cardinality(ToSet(pairs))

(* The optimal plan covers every incident that can be covered at all (two     *)
(* independent algorithms agree on how many) at the least total distance any  *)
(* such plan has; the greedy plan is a fair matching that leaves no reachable *)
(* pair idle, and covering as many it is never the shorter.                   *)
PlansAreOptimal ==
    plans # NoPlans =>
       LET opt == plans.optimal  gr == plans.greedy
       IN  /\ Fits(opt.pairs) /\ Fits(gr.pairs)
           /\ Len(opt.pairs) = Coverable
           /\ \A s \in Matchings :
                 Cardinality(s) = Coverable => opt.total <= CostOf(s)
           /\ \A s \in Matchings : Cardinality(s) <= Coverable
           /\ Len(gr.pairs) = Len(opt.pairs) => gr.total >= opt.total
           /\ \A s \in Matchings : ToSet(gr.pairs) \subseteq s => s = ToSet(gr.pairs)
           /\ opt.unassigned = Len(incidents) - Coverable

=============================================================================
