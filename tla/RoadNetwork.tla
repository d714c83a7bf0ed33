----------------------------- MODULE RoadNetwork -----------------------------
(***************************************************************************)
(* A road graph in use: it is extended, saved and replaced from files that *)
(* may be damaged, free positions are snapped to it, and one search at a   *)
(* time runs over it, a settled node at a time (graph/, and the route and  *)
(* recommendation queries of app::Platform).                               *)
(***************************************************************************)
EXTENDS Roads

CONSTANTS Graphs,        \* the graphs a behaviour may start from
          Positions,     \* where a node may be added
          Weights,       \* the weights add_edge may be given, some refused
          Spots,         \* the free positions that are snapped to the graph
          Queries,       \* the <<from, to>> pairs searched between; ids need not exist
          Edits          \* how often a graph may be edited

VARIABLES roads, saved, search, edits

vars == <<roads, saved, search, edits>>

Idle == BeginSearch(NoRoads, "dijkstra", None, None)

Init == /\ roads \in Graphs
        /\ saved = SaveFile(roads)
        /\ search = Idle
        /\ edits = 0

Edit(g) == /\ search = Idle /\ edits < Edits
           /\ edits' = edits + 1 /\ roads' = g
           /\ UNCHANGED search

(* Ids that are not in the graph are among the inputs. *)
Ids == 0..(Len(roads.nodes) + 1)

Extend ==
    /\ \/ \E pos \in Positions : Edit(AddNode(roads, pos))
       \/ \E u, v \in Ids, w \in Weights : Edit(AddEdge(roads, u, v, w))
       \/ \E u, v \in Ids : Edit(AddRoad(roads, u, v))
    /\ UNCHANGED saved

(* Snapping builds the index: the graph as a value is the same. *)
Snap == /\ search = Idle
        /\ roads' = EnsureSnap(roads)
        /\ UNCHANGED <<saved, search, edits>>

Save == /\ search = Idle
        /\ saved' = SaveFile(roads)
        /\ UNCHANGED <<roads, search, edits>>

(* What a file may be when it is read: as written, of an older or a foreign   *)
(* version, cut short, or with a line that does not fit.                      *)
Damaged(f) ==
    {f} \cup {[f EXCEPT !.version = v] : v \in {1, 3}}
    \cup {[f EXCEPT !.lines = SubSeq(@, 1, n)] : n \in 0..(Len(f.lines) - 1)}
    \cup {[f EXCEPT !.nodes = SubSeq(@, 1, n)] : n \in 0..(Len(f.nodes) - 1)}
    \cup {[f EXCEPT !.lines[i] = l] : i \in DOMAIN f.lines,
                                      l \in {<<1, f.nc + 1, 0>>, <<1, 1, BadWeight>>}}
Load == /\ \E f \in Damaged(saved) : Edit(LoadFile(roads, f))
        /\ UNCHANGED saved

(* route_between: both ends have been snapped by then. *)
Start == /\ search = Idle
         /\ \E kind \in {"dijkstra", "astar"}, q \in Queries :
               search' = BeginSearch(roads, kind, q[1], q[2])
         /\ roads' = EnsureSnap(roads)
         /\ UNCHANGED <<saved, edits>>

Step == /\ ~ search.done /\ ~ SearchOver(search)
        /\ search' = SearchStep(roads, search)
        /\ UNCHANGED <<roads, saved, edits>>

Next == Extend \/ Snap \/ Save \/ Load \/ Start \/ Step

(* The loop is sequential code: it runs on once begun. *)
Spec == Init /\ [][Next]_vars /\ WF_vars(Step)

----------------------------------------------------------------------------

Searching == ~ search.done
Over == Searching /\ SearchOver(search)
(* At every point of a search each node's parent chain ends at the source     *)
(* (path_to terminates) and costs no more than the node's distance.           *)
ParentsLeadHome ==
    \A n \in DOMAIN search.dist :
        search.dist[n] < Unreachable =>
            LET p == PathTo(search, n)
            IN  p[1] = search.source /\ PathCost(roads, p) <= search.dist[n]

(* A finished search has the exact costs: Dijkstra of every node (of its      *)
(* target, when it has one), A* of its target on a graph whose weights are    *)
(* at least the distances.                                                    *)
Exact ==
    LET true == Rounds(roads, search.source)
    IN  IF search.astar
        THEN /\ search.found <=> true[search.target] < Unreachable
             /\ (search.found /\ HeuristicIsAdmissible(roads)) =>
                    search.dist[search.target] = true[search.target]
        ELSE \/ Valid(roads, search.target)
                /\ search.dist[search.target] = true[search.target]
             \/ ~ Valid(roads, search.target) /\ search.dist = true

(* A search over equal routes, roads of no length, one-way streets and        *)
(* unreachable corners is exact and leaves a tree, never a cycle that would   *)
(* keep path_to from ending.                                                  *)
SearchIsExact == Searching => ParentsLeadHome /\ (Over => Exact)

(* After any edits and loads: snapping agrees with the scan of the nodes      *)
(* there are now, the edge count is true, every edge is usable, a saved file  *)
(* restores exactly what was saved and a damaged one changes nothing.         *)
RoadsStayTrue == search = Idle =>
    /\ \A p \in Spots : NearestNode(roads, p) = NearestLinear(roads, p)
    /\ roads.edges = Len(EdgeList(roads))
    /\ \A l \in ToSet(EdgeList(roads)) : EdgeFits(roads, l[1], l[2], l[3])
    /\ LoadFile(NoRoads, SaveFile(roads)) = [roads EXCEPT !.snap = <<>>]
    /\ \A f \in Damaged(saved) : f.version = 2 /\ f # saved => LoadFile(roads, f) = roads

=============================================================================
