-------------------------------- MODULE Roads --------------------------------
(***************************************************************************)
(* graph::RoadGraph and the searches over it, as values.  A graph is       *)
(* [nodes, adj, edges, snap]: the positions, the outgoing <<to, weight>>   *)
(* pairs of each node in the order they were added, their number, and the  *)
(* nodes the snap index was built over (<<>> before it is built).  Nodes   *)
(* are numbered from 1.  Positions are points of the integer plane under   *)
(* the city-block metric: what the searches use of the great-circle        *)
(* distance is that it is a metric.                                        *)
(***************************************************************************)
EXTENDS Integers, Sequences, SequencesExt, FiniteSets

K == INSTANCE KdTree

None == 0                 \* kNoNode
Unreachable == 100000     \* kUnreachable
BadWeight == -1           \* what add_edge refuses: negative, NaN or infinite

Abs(x) == IF x < 0 THEN -x ELSE x
Apart(p, q) == Abs(p[1] - q[1]) + Abs(p[2] - q[2])

NoRoads == [nodes |-> <<>>, adj |-> <<>>, edges |-> 0, snap |-> <<>>]

Valid(g, u) == u \in DOMAIN g.nodes
(* A position off the earth is out of the box the map is drawn in. *)
OnEarth(p) == Abs(p[1]) <= 90 /\ Abs(p[2]) <= 180

(* Mutant of AddNode: the snap index is left as it was. *)
AddNodeKeepingSnap(g, pos) ==
    [g EXCEPT !.nodes = Append(@, pos), !.adj = Append(@, <<>>)]
AddNode(g, pos) ==
    [g EXCEPT !.nodes = Append(@, pos), !.adj = Append(@, <<>>), !.snap = <<>>]

EdgeFits(g, u, v, w) == Valid(g, u) /\ Valid(g, v) /\ w >= 0
AddEdge(g, u, v, w) ==
    IF EdgeFits(g, u, v, w)
    THEN [g EXCEPT !.adj[u] = Append(@, <<v, w>>), !.edges = @ + 1]
    ELSE g

RoadFits(g, u, v) == Valid(g, u) /\ Valid(g, v)
AddRoad(g, u, v) ==
    IF ~ RoadFits(g, u, v) THEN g
    ELSE LET w == Apart(g.nodes[u], g.nodes[v]) IN AddEdge(AddEdge(g, u, v, w), v, u, w)

(* The snap index: built on the first question after a node was added. *)
EnsureSnap(g) == IF g.snap = <<>> THEN [g EXCEPT !.snap = g.nodes] ELSE g

Sites(ns) == [i \in DOMAIN ns |-> [id |-> i, pos |-> ns[i]]]
NearestNode(g, p) ==
    IF g.nodes = <<>> THEN None
    ELSE K!Nearest(K!KdBuild(Sites(EnsureSnap(g).snap), 0), p)[1].id
(* nearest_node_linear: the first of the closest. *)
NearestLinear(g, p) ==
    IF g.nodes = <<>> THEN None
    ELSE CHOOSE i \in DOMAIN g.nodes :
            \A j \in DOMAIN g.nodes :
               \/ K!Dist2(g.nodes[i], p) < K!Dist2(g.nodes[j], p)
               \/ K!Dist2(g.nodes[i], p) = K!Dist2(g.nodes[j], p) /\ i <= j

(* save_file: the nodes and every directed edge with its weight; the counts   *)
(* are lines of their own, so that a file cut short does not parse.           *)
EdgeList(g) ==
    FlattenSeq([u \in DOMAIN g.adj |->
                   [k \in DOMAIN g.adj[u] |-> <<u, g.adj[u][k][1], g.adj[u][k][2]>>]])
SaveFile(g) == [version |-> 2, nc |-> Len(g.nodes), nodes |-> g.nodes,
                ec |-> g.edges, lines |-> EdgeList(g)]

(* load_file, into a fresh graph that is adopted only when all of it parsed.  *)
(* Version 1 has no weights: each line is a road both ways.                   *)
LineFits(f, l) ==
    /\ l[1] \in 1..f.nc /\ l[2] \in 1..f.nc
    /\ f.version = 2 => l[3] >= 0
Parses(f) ==
    /\ f.version \in {1, 2}
    /\ Len(f.nodes) >= f.nc /\ Len(f.lines) >= f.ec
    /\ \A i \in 1..f.nc : OnEarth(f.nodes[i])
    /\ \A i \in 1..f.ec : LineFits(f, f.lines[i])
LoadFile(g, f) ==
    LET nodes == FoldLeft(AddNode, NoRoads, SubSeq(f.nodes, 1, f.nc))
        line(h, l) == IF f.version = 1 THEN AddRoad(h, l[1], l[2])
                      ELSE AddEdge(h, l[1], l[2], l[3])
    IN  IF Parses(f) THEN FoldLeft(line, nodes, SubSeq(f.lines, 1, f.ec)) ELSE g

(* grid: a lattice of rows x cols nodes, 4-connected, with a diagonal one way *)
(* or the other in some of its cells: down holds the cells with (r, c) to     *)
(* (r + 1, c + 1), up those with (r, c + 1) to (r + 1, c).  The jitter moves  *)
(* a node by less than half a cell.                                           *)
Grid(rows, cols, step, Jitter, down, up) ==
    LET at(r, c) == (r - 1) * cols + c
        cells    == [i \in 1..(rows * cols) |-> <<((i - 1) \div cols) + 1, ((i - 1) % cols) + 1>>]
        nodes    == FoldLeft(LAMBDA g, x : AddNode(g, <<step * x[1] + Jitter[x][1],
                                                        step * x[2] + Jitter[x][2]>>),
                             NoRoads, cells)
        across(g, x) == IF x[2] < cols THEN AddRoad(g, at(x[1], x[2]), at(x[1], x[2] + 1)) ELSE g
        along(g, x)  == IF x[1] < rows THEN AddRoad(g, at(x[1], x[2]), at(x[1] + 1, x[2])) ELSE g
        diagonal(g, x) ==
            IF x \in down THEN AddRoad(g, at(x[1], x[2]), at(x[1] + 1, x[2] + 1))
            ELSE IF x \in up THEN AddRoad(g, at(x[1], x[2] + 1), at(x[1] + 1, x[2]))
            ELSE g
    IN  FoldLeft(diagonal, FoldLeft(LAMBDA g, x : along(across(g, x), x), nodes, cells), cells)

----------------------------------------------------------------------------
(* The searches.  A frontier entry is <<priority, cost, node>>; the heap     *)
(* pops the least by priority and then by node.                              *)

Sooner(a, b) == \/ a[1] < b[1]
                \/ a[1] = b[1] /\ a[3] < b[3]

(* ds::BinaryHeap: a complete binary tree in an array, kept so that no      *)
(* element comes sooner than its parent.  Element i (from 1) has the        *)
(* children 2i and 2i + 1.                                                  *)
Swap(h, i, j) == [h EXCEPT ![i] = h[j], ![j] = h[i]]

RECURSIVE SiftUp(_, _)
SiftUp(h, i) ==
    IF i > 1 /\ Sooner(h[i], h[i \div 2]) THEN SiftUp(Swap(h, i, i \div 2), i \div 2) ELSE h

(* The highest of an element and its children. *)
HighestLeft(h, i) ==
    IF 2 * i <= Len(h) /\ Sooner(h[2 * i], h[i]) THEN 2 * i ELSE i
HighestOf(h, i) ==
    LET l == HighestLeft(h, i)
    IN  IF 2 * i + 1 <= Len(h) /\ Sooner(h[2 * i + 1], h[l]) THEN 2 * i + 1 ELSE l

RECURSIVE SiftDown(_, _)
SiftDown(h, i) ==
    LET best == HighestOf(h, i) IN IF best = i THEN h ELSE SiftDown(Swap(h, i, best), best)

HeapPush(h, x) == SiftUp(Append(h, x), Len(h) + 1)

HeapTop(h) == h[1]

(* pop: the last element takes the root's place and sinks. *)
HeapPop(h) ==
    IF Len(h) = 1 THEN <<>>
    ELSE SiftDown([SubSeq(h, 1, Len(h) - 1) EXCEPT ![1] = h[Len(h)]], 1)

(* run (toward = "nobody": Dijkstra, no estimate) and astar (the distance to  *)
(* the target) begin alike.                                                   *)
Estimate(g, s, n) == IF s.astar THEN Apart(g.nodes[n], g.nodes[s.target]) ELSE 0

NotBegun(g, kind, src, target) ==
    [astar |-> kind = "astar", source |-> src, target |-> target,
     dist |-> [n \in DOMAIN g.nodes |-> Unreachable],
     parent |-> [n \in DOMAIN g.nodes |-> None],
     frontier |-> <<>>, expanded |-> 0, found |-> FALSE, done |-> TRUE]

(* Dijkstra refuses an invalid source, and takes a missing target for none.   *)
BeginSearch(g, kind, src, target) ==
    LET s == NotBegun(g, kind, src, target)
    IN  IF ~ Valid(g, src) \/ (s.astar /\ ~ Valid(g, target)) THEN s
        ELSE [s EXCEPT !.dist[src] = 0, !.done = FALSE,
                       !.frontier = <<<<Estimate(g, s, src), 0, src>>>>]

(* One edge out of the node just settled: strictly better relaxes; equal cost *)
(* over a road of some length prefers the lower predecessor.                  *)
RelaxEqual(g, s, u, cost, e) ==
    IF cost + e[2] = s.dist[e[1]] /\ u < s.parent[e[1]]
    THEN [s EXCEPT !.parent[e[1]] = u] ELSE s
Shortens(s, cost, e) == cost + e[2] < s.dist[e[1]]
Shorten(g, s, u, cost, e) ==
    [s EXCEPT !.dist[e[1]] = cost + e[2], !.parent[e[1]] = u,
              !.frontier = HeapPush(@, <<cost + e[2] + Estimate(g, s, e[1]), cost + e[2], e[1]>>)]
Relax(g, s, u, cost, e) ==
    IF Shortens(s, cost, e) THEN Shorten(g, s, u, cost, e)
    ELSE IF e[2] > 0 THEN RelaxEqual(g, s, u, cost, e) ELSE s

(* One turn of the loop: pop; a stale entry is passed over; the target ends   *)
(* the search; otherwise every edge is relaxed.                               *)
SearchStep(g, s) ==
    LET cur  == HeapTop(s.frontier)
        rest == [s EXCEPT !.frontier = HeapPop(@)]
        here == [rest EXCEPT !.expanded = @ + 1]
    IN  IF cur[2] > s.dist[cur[3]] THEN rest
        ELSE IF cur[3] = s.target THEN [here EXCEPT !.found = TRUE]
        ELSE FoldLeft(LAMBDA t, e : Relax(g, t, cur[3], cur[2], e), here, g.adj[cur[3]])

SearchOver(s) == s.frontier = <<>> \/ s.found

RECURSIVE Walk(_, _, _)
Walk(s, v, steps) ==
    IF v = None \/ steps = 0 THEN <<>> ELSE Append(Walk(s, s.parent[v], steps - 1), v)

(* path_to: from the source to the target along the parents. *)
PathTo(s, target) ==
    IF target \notin DOMAIN s.dist \/ s.dist[target] >= Unreachable THEN <<>>
    ELSE Walk(s, target, Cardinality(DOMAIN s.dist))

HeuristicIsAdmissible(g) ==
    \A u \in DOMAIN g.adj : \A k \in DOMAIN g.adj[u] :
        g.adj[u][k][2] >= Apart(g.nodes[u], g.nodes[g.adj[u][k][1]])

----------------------------------------------------------------------------
(* The reference: costs by rounds of relaxation over all edges (Bellman).    *)
Rounds(g, src) ==
    LET edges == EdgeList(g)
        least(d, l) == IF d[l[1]] + l[3] < d[l[2]] THEN [d EXCEPT ![l[2]] = d[l[1]] + l[3]] ELSE d
        start == [n \in DOMAIN g.nodes |-> IF n = src THEN 0 ELSE Unreachable]
    IN  FoldLeft(LAMBDA d, i : FoldLeft(least, d, edges), start, [i \in 1..Len(g.nodes) |-> i])

(* The cheapest single edge between two nodes, over all that join them. *)
EdgeCost(g, u, v) ==
    LET ws == {g.adj[u][k][2] : k \in {k \in DOMAIN g.adj[u] : g.adj[u][k][1] = v}}
    IN  IF ws = {} THEN Unreachable ELSE CHOOSE w \in ws : \A x \in ws : w <= x
PathCost(g, p) ==
    FoldLeft(LAMBDA t, i : t + EdgeCost(g, p[i], p[i + 1]), 0, [i \in 1..(Len(p) - 1) |-> i])

=============================================================================
