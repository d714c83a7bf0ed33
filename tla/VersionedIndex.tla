--------------------------- MODULE VersionedIndex ---------------------------
(***************************************************************************)
(* index::VersionedIndex: a path-copying quadtree whose every version is   *)
(* kept, a log of validity records per zone, and an interval tree over all *)
(* the records ever in force.                                              *)
(*                                                                         *)
(* The tree lives in a heap of immutable nodes: an edit appends the nodes  *)
(* it allocates and the versions share the rest, as the shared_ptr do.     *)
(***************************************************************************)
EXTENDS Boxes, Sequences, SequencesExt

CONSTANTS Zones,        \* zone ids
          ZoneBoxes,    \* the boxes operators draw
          Validities,   \* [from, to], half open
          Times,        \* when edits are made and queries ask
          Forever,      \* INT64_MAX: the end of an open-ended validity
          World,        \* the region of the first root
          Cap,          \* kCap: a leaf with more items splits
          MaxDepth,     \* kMaxDepth: and not below this depth
          Absent,       \* no zone
          MaxVersions   \* bound of the model: versions ever made

ASSUME CapAssumption == Cap \in Nat \ {0}
ASSUME MaxDepthAssumption == MaxDepth \in Nat
ASSUME VersionsAssumption == MaxVersions \in Nat \ {0}
ASSUME BoxesAssumption ==
    /\ ZoneBoxes \cup {World} \subseteq [s : Int, w : Int, n : Int, e : Int]
    /\ World.s <= World.n /\ World.w <= World.e
ASSUME AbsentAssumption == Absent \notin [box : ZoneBoxes, validity : Validities]
ASSUME TimesAssumption ==
    /\ Forever \in Nat /\ Times \subseteq 0..Forever
    /\ Validities \subseteq [from : Int, to : Int] /\ \A v \in Validities : v.to <= Forever

VARIABLES
    nodes,          \* every node allocated: [region, depth, items, kids]
    roots,          \* roots_: the root of each version
    version_times,  \* version_times_
    history,        \* history_: zone -> its records [version, validity, present]
    validity_tree,  \* validity_tree_: [low, high, zone, slot]
    live_box,       \* live_box_: zone -> the box it was last drawn with
    changelog       \* changelog_: [version, at, zone, kind]

vars == <<nodes, roots, version_times, history, validity_tree, live_box, changelog>>

Versions == DOMAIN roots
LastVersion == Len(roots)

(* The first and the last of some positions, 0 when there are none. *)
Lowest(S) == IF S = {} THEN 0 ELSE CHOOSE x \in S : \A y \in S : x <= y
Highest(S) == IF S = {} THEN 0 ELSE CHOOSE x \in S : \A y \in S : y <= x

(* ---- the tree --------------------------------------------------------- *)

EmptyNode(region, depth) ==
    [region |-> region, depth |-> depth, items |-> <<>>, kids |-> <<>>]

IsLeaf(node) == node.kids = <<>>

(* The kid a box descends into: the first whose region holds all of it. *)
KidFor(heap, node, box) ==
    Lowest({i \in DOMAIN node.kids : FullyContains(heap[node.kids[i]].region, box)})

(* The one path from a root that a box selects. *)
Down(heap, box, path) ==
    LET node == heap[path[Len(path)]]
        kid  == KidFor(heap, node, box)
    IN  IF kid = 0 THEN path ELSE Append(path, node.kids[kid])

PathOf(heap, root, box) ==
    LET down[d \in 0..MaxDepth] ==
            IF d = 0 THEN <<root>> ELSE Down(heap, box, down[d - 1])
    IN  down[MaxDepth]

(* A copy of path[j] that points to the copy of path[j + 1], at heap + j + 1. *)
Copied(heap, path, j, last) ==
    IF j = Len(path) THEN last
    ELSE [heap[path[j]] EXCEPT !.kids = [i \in DOMAIN @ |->
             IF @[i] = path[j + 1] THEN Len(heap) + j + 1 ELSE @[i]]]

(* The four kids of a leaf that splits: an item goes to the first quarter     *)
(* that holds all of it, or stays (0), and the items keep their order.        *)
QuarterOf(region, box) == Lowest({i \in 1..4 : FullyContains(Quarter(region, i), box)})

TakenBy(node, quarter) ==
    LET taken[k \in 0..Len(node.items)] ==
            IF k = 0 THEN <<>>
            ELSE IF QuarterOf(node.region, node.items[k].box) = quarter
            THEN Append(taken[k - 1], node.items[k])
            ELSE taken[k - 1]
    IN  taken[Len(node.items)]

SplitKids(node) ==
    [i \in 1..4 |-> [EmptyNode(Quarter(node.region, i), node.depth + 1)
                        EXCEPT !.items = TakenBy(node, i)]]

(* The root widens for a box that pokes out of the world. *)
WidenedRoot(node, box) ==
    IF FullyContains(node.region, box) THEN node
    ELSE [node EXCEPT !.region = Expand(@, box)]

InsertCopy(heap, root, zone, box) ==
    LET path   == PathOf(heap, root, box)
        depth  == Len(path)
        wide   == [heap EXCEPT ![root] = WidenedRoot(heap[root], box)]
        holder == [wide[path[depth]] EXCEPT !.items = Append(@, [zone |-> zone, box |-> box])]
        splits == IsLeaf(holder) /\ Len(holder.items) > Cap /\ holder.depth < MaxDepth
        base   == Len(heap) + depth
        last   == IF splits THEN [holder EXCEPT !.items = TakenBy(holder, 0),
                                                !.kids = [i \in 1..4 |-> base + i]]
                            ELSE holder
    IN  heap \o [j \in 1..depth |-> Copied(wide, path, j, last)]
             \o (IF splits THEN SplitKids(holder) ELSE <<>>)

(* Where in a node a zone is kept, and where on its path; 0 for nowhere. *)
PlaceOf(node, zone) == Lowest({i \in DOMAIN node.items : node.items[i].zone = zone})
HolderOf(heap, path, zone) == Lowest({j \in DOMAIN path : PlaceOf(heap[path[j]], zone) # 0})

Without(node, zone) == [node EXCEPT !.items = RemoveAt(@, PlaceOf(node, zone))]

\* A version whose copies share the items they were copied with.
RemoveShared(heap, root, zone, box) ==
    LET path == PathOf(heap, root, box)
        at   == HolderOf(heap, path, zone)
        last == Without(heap[path[at]], zone)
    IN  IF at = 0 THEN heap
        ELSE [heap EXCEPT ![path[at]] = last]
                \o [j \in 1..at |-> Copied(heap, SubSeq(path, 1, at), j, last)]
RemoveCopy(heap, root, zone, box) ==
    LET path == PathOf(heap, root, box)
        at   == HolderOf(heap, path, zone)
        last == Without(heap[path[at]], zone)
    IN  IF at = 0 THEN heap
        ELSE heap \o [j \in 1..at |-> Copied(heap, SubSeq(path, 1, at), j, last)]

(* The root an edit leaves: the first node it appended, or the old root. *)
RootAfter(before, after, root) == IF after = before THEN root ELSE Len(before) + 1

(* The nodes of one version. *)
Kids(heap, some) == UNION {ToSet(heap[n].kids) : n \in some}

NodesOf(heap, root) ==
    LET grow[d \in 0..MaxDepth] ==
            IF d = 0 THEN {root} ELSE grow[d - 1] \cup Kids(heap, grow[d - 1])
    IN  grow[MaxDepth]

(* query_node: whole subtrees whose region misses the query are skipped. *)
Hit(heap, some, q) == {n \in some : Intersects(heap[n].region, q)}

Searched(heap, root, q) ==
    LET grow[d \in 0..MaxDepth] ==
            IF d = 0 THEN Hit(heap, {root}, q)
            ELSE grow[d - 1] \cup Hit(heap, Kids(heap, grow[d - 1]), q)
    IN  grow[MaxDepth]

ItemsIn(some) == UNION {{<<n, i>> : i \in DOMAIN nodes[n].items} : n \in some}

Found(root, q) ==
    {x \in ItemsIn(Searched(nodes, root, q)) : Intersects(nodes[x[1]].items[x[2]].box, q)}

(* ---- the history ------------------------------------------------------ *)

ContainsZone(z) == history[z] # <<>> /\ history[z][Len(history[z])].present

\* A version that records an edit at the time it claims.
MonotoneNot(at) == at
Monotone(at) == Greater(at, version_times[LastVersion])

(* record_as_of: the slot of the last record made by version v, 0 for none. *)
SlotAsOf(z, v) == Highest({i \in DOMAIN history[z] : history[z][i].version <= v})

PresentAsOf(z, v) == SlotAsOf(z, v) # 0 /\ history[z][SlotAsOf(z, v)].present
ValidityAsOf(z, v) == history[z][SlotAsOf(z, v)].validity

VersionAt(t) == Greater(1, Highest({v \in Versions : version_times[v] <= t}))

ActiveAt(validity, t) == validity.from <= t /\ t < validity.to

\* A version in which a zone is in force still at the end of its window.
StabbingClosed(t) ==
    IF t = Forever THEN {}
    ELSE {e \in validity_tree : e.low < t + 1 /\ t <= e.high}
(* IntervalTree::stabbing at an instant; nothing contains the last one. *)
Stabbing(t) ==
    IF t = Forever THEN {}
    ELSE {e \in validity_tree : e.low < t + 1 /\ t < e.high}

(* ---- the queries ------------------------------------------------------ *)

ZoneAt(x) == nodes[x[1]].items[x[2]].zone

\* A version that reads validity windows as they are today.
QueryAtToday(t, q) ==
    {x \in Found(roots[VersionAt(t)], q) :
        LET z == ZoneAt(x) IN ContainsZone(z) /\ ActiveAt(ValidityAsOf(z, LastVersion), t)}
QueryAt(t, q) ==
    LET v == VersionAt(t)
    IN  {x \in Found(roots[v], q) :
            PresentAsOf(ZoneAt(x), v) /\ ActiveAt(ValidityAsOf(ZoneAt(x), v), t)}

QueryNow(q) == Found(roots[LastVersion], q)

ActiveZones(t) ==
    LET v == VersionAt(t)
    IN  {e \in Stabbing(t) : PresentAsOf(e.zone, v) /\ SlotAsOf(e.zone, v) = e.slot}

ItemsAt(v) == ItemsIn(NodesOf(nodes, roots[v]))
ZoneCountAt(t) == Cardinality(ItemsAt(VersionAt(t)))

(* viz_versions: the nodes of a version that the one before does not have. *)
NewNodes(v) ==
    NodesOf(nodes, roots[v]) \ (IF v = 1 THEN {} ELSE NodesOf(nodes, roots[v - 1]))

(* ---- the edits -------------------------------------------------------- *)

(* commit, push_record and the changelog: what every edit ends with. *)
Commit(heap, root, at, z, validity, present, kind) ==
    LET version == LastVersion + 1 IN
    /\ nodes' = heap
    /\ roots' = Append(roots, root)
    /\ version_times' = Append(version_times, at)
    /\ history' = [history EXCEPT ![z] = Append(@,
                       [version |-> version, validity |-> validity, present |-> present])]
    /\ validity_tree' =
           IF present
           THEN validity_tree \cup {[low |-> validity.from, high |-> validity.to,
                                     zone |-> z, slot |-> Len(history[z]) + 1]}
           ELSE validity_tree
    /\ changelog' = Append(changelog,
                       [version |-> version, at |-> at, zone |-> z, kind |-> kind])

CleanBase(z) ==
    IF ContainsZone(z) THEN RemoveCopy(nodes, roots[LastVersion], z, live_box[z]) ELSE nodes

AddZone(z, box, validity, at) ==
    LET root    == roots[LastVersion]
        cleared == CleanBase(z)
        base    == RootAfter(nodes, cleared, root)
        heap    == InsertCopy(cleared, base, z, box)
    IN  /\ Commit(heap, Len(cleared) + 1, Monotone(at), z, validity, TRUE,
                  IF ContainsZone(z) THEN "Replaced" ELSE "Added")
        /\ live_box' = [live_box EXCEPT ![z] = box]

RemoveZone(z, at) ==
    LET root == roots[LastVersion]
        heap == RemoveCopy(nodes, root, z, live_box[z])
    IN  /\ ContainsZone(z)
        /\ Commit(heap, RootAfter(nodes, heap, root), Monotone(at), z,
                  [from |-> 0, to |-> Forever], FALSE, "Removed")
        /\ UNCHANGED live_box

UpdateValidity(z, validity, at) ==
    /\ ContainsZone(z)
    /\ Commit(nodes, roots[LastVersion], Monotone(at), z, validity, TRUE, "ValidityChanged")
    /\ UNCHANGED live_box

Init ==
    /\ nodes = <<EmptyNode(World, 0)>>
    /\ roots = <<1>>
    /\ version_times = <<0>>
    /\ history = [z \in Zones |-> <<>>]
    /\ validity_tree = {}
    /\ live_box = [z \in Zones |-> Absent]
    /\ changelog = <<>>

Room == LastVersion < MaxVersions

Next ==
    /\ Room
    /\ \E z \in Zones, at \in Times :
          \/ \E box \in ZoneBoxes, v \in Validities : AddZone(z, box, v, at)
          \/ RemoveZone(z, at)
          \/ \E v \in Validities : UpdateValidity(z, v, at)

Spec == Init /\ [][Next]_vars

(* ---- properties ------------------------------------------------------- *)

(* The world a version stands for: where the zone is drawn, by the tree, and *)
(* when it is in force, by its records.                                      *)
BoxIn(v, z) ==
    LET held == {x \in ItemsAt(v) : ZoneAt(x) = z}
    IN  IF held = {} THEN Absent
        ELSE LET x == CHOOSE x \in held : TRUE IN nodes[x[1]].items[x[2]].box

WorldOf(v) ==
    [at    |-> version_times[v],
     zones |-> [z \in Zones |->
                   IF PresentAsOf(z, v)
                   THEN [box |-> BoxIn(v, z), validity |-> ValidityAsOf(z, v)]
                   ELSE Absent]]

(* Every edit adds one dated world to a history nobody rewrites: the tree, the *)
(* records and the times together are the worlds of ZoneHistory.               *)
Kept == INSTANCE ZoneHistory
            WITH Boxes <- ZoneBoxes, worlds <- [v \in Versions |-> WorldOf(v)]
ImplementsZoneHistory == Kept!Spec

(* "What were the rules at 14:32": a query at any instant finds, by the tree   *)
(* and the records, exactly the zones that the world of that instant draws     *)
(* there and has in force, and each of them once.                              *)
QueriesAreTrue ==
    /\ \A q \in ZoneBoxes :
          \E w \in {WorldOf(LastVersion).zones} :
             {ZoneAt(x) : x \in QueryNow(q)}
                = {z \in Zones : w[z] # Absent /\ Intersects(w[z].box, q)}
    /\ \A t \in Times \cup {Forever} :
           \E w \in {WorldOf(VersionAt(t)).zones} :
           LET there == {z \in Zones : w[z] # Absent}
               force == {z \in there : ActiveAt(w[z].validity, t)}
           IN  /\ \A q \in ZoneBoxes :
                     LET hits == QueryAt(t, q)
                     IN  /\ {ZoneAt(x) : x \in hits}
                               = {z \in force : Intersects(w[z].box, q)}
                         /\ \A x, y \in hits : ZoneAt(x) = ZoneAt(y) => x = y
               /\ ZoneCountAt(t) = Cardinality(there)

(* The audit of check_invariants on every version kept: sorted times, items    *)
(* inside the regions that prune them, all four kids or none, no zone twice,   *)
(* as many items as zones present; and the edit that made a version left the   *)
(* rest of the tree shared: a new validity makes no node, an erasure one chain.*)
VersionsAreSound ==
    /\ Len(version_times) = LastVersion /\ Len(changelog) = LastVersion - 1
    /\ \A v \in Versions :
          /\ v > 1 => version_times[v - 1] <= version_times[v]
          /\ \A n \in NodesOf(nodes, roots[v]) :
                /\ \A i \in DOMAIN nodes[n].items :
                      FullyContains(nodes[n].region, nodes[n].items[i].box)
                /\ nodes[n].kids # <<>> => Len(nodes[n].kids) = 4
                /\ \A k \in ToSet(nodes[n].kids) :
                      /\ nodes[k].depth = nodes[n].depth + 1
                      /\ FullyContains(nodes[n].region, nodes[k].region)
          /\ \A x, y \in ItemsAt(v) : ZoneAt(x) = ZoneAt(y) => x = y
          /\ {ZoneAt(x) : x \in ItemsAt(v)} = {z \in Zones : PresentAsOf(z, v)}
          /\ v > 1 => LET kind == changelog[v - 1].kind IN
                /\ kind = "ValidityChanged" => NewNodes(v) = {}
                /\ kind = "Removed" =>
                      \A m, n \in NewNodes(v) : nodes[m].depth = nodes[n].depth => m = n

(* The interval tree is filled by every edit and never emptied, and knows of   *)
(* no versions; the records know of both.  Asked for the zones in force at an  *)
(* instant, the two agree (active_at), and name each zone once.                *)
ForceIsFound ==
    \A t \in Times \cup {Forever} :
        \E v \in {VersionAt(t)} :
           /\ {e.zone : e \in ActiveZones(t)}
                 = {z \in Zones : PresentAsOf(z, v) /\ ActiveAt(ValidityAsOf(z, v), t)}
           /\ \A e, f \in ActiveZones(t) : e.zone = f.zone => e = f

(* What was true when, in space and in time, and how it is kept. *)
QueriesTellTheWorld == QueriesAreTrue /\ VersionsAreSound /\ ForceIsFound

(* What an edit changes, it changes from its time on: every answer about an    *)
(* earlier instant, by the tree, by the interval tree or counted, is what it   *)
(* was, though versions share nodes and records are read by number.            *)
Answers(t, q) == {nodes[x[1]].items[x[2]] : x \in QueryAt(t, q)}
AnswersStand ==
    [][\A t \in Times : t < version_times'[LastVersion'] =>
          /\ \A q \in ZoneBoxes : Answers(t, q)' = Answers(t, q)
          /\ ActiveZones(t)' = ActiveZones(t)
          /\ ZoneCountAt(t)' = ZoneCountAt(t)]_vars

============================================================================
