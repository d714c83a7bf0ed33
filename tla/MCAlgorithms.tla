----------------------------- MODULE MCAlgorithms -----------------------------
(* The pure parts of the platform in use, each on its own state: spatial       *)
(* indexes and containers, roads and searches, dispatch plans, polygons,       *)
(* jurisdictions, the identity log and components with rollback; and two small *)
(* protocols, the outbox of a device and the alert board.  A behaviour looks   *)
(* at one of them.                                                             *)
EXTENDS Outbox, Board, Connectivity, Evidence, SequencesExt, TLC

CONSTANTS Parts,                          \* the ones looked at
          Edits, MaxVertices, MaxHoles, MaxRegions

VARIABLES part,
          items, quad, rtree, geohash, slots, intervals, ring, pushed, left,
          roads, saved, search, edits,
          map, pool, incidents, plans,
          poly,
          shapes, parents

Values == INSTANCE Roads
Grid   == INSTANCE Boxes

\* Small boxes over a 16 x 16 grid, some that touch or coincide, a long one
\* (15), one that covers much of it (16), one far outside (17) and a point (18).
MCIds == 1..18
At(s, w) == Grid!Box(s, w, s + 2, w + 1)
MCBoxOf ==
    <<At(0, 0), At(0, 4), At(3, 8), At(4, 13), At(5, 2), At(6, 6), At(6, 10), At(8, 14),
      At(9, 0), At(9, 4), At(10, 9), At(11, 12), At(13, 2), At(6, 6),
      Grid!Box(2, 1, 3, 15), Grid!Box(4, 4, 12, 12), Grid!Box(24, -9, 26, -7),
      Grid!Box(8, 8, 8, 8)>>

\* Intervals that share ends, and exact duplicates: values repeat.
MCIntervalOf ==
    [id \in MCIds |-> [low |-> id % 3, high |-> (id % 3) + 1 + (id % 4), value |-> id % 2]]

\* Bulk builds of none, few, many and all, with two operations after each.
MCStarts == {[ids |-> ids, ops |-> 2] : ids \in {{}, 1..5, 2..12 \cup {16}, 1..17}}

MCProbes == {Grid!Box(s, w, s + 3, w + 3) : s \in {0, 5, 9}, w \in {1, 6, 11}}
            \cup {Grid!Box(0, 0, 16, 16), Grid!Box(8, 8, 8, 8), Grid!Box(20, -12, 30, 0),
                  Grid!Box(2, 0, 2, 16)}
MCSites  == {<<0, 0>>, <<6, 6>>, <<8, 8>>, <<7, 11>>, <<20, 3>>}
MCTimes  == 0..6
MCQWorld == Grid!Box(-32, -32, 32, 32)
MCGWorld == Grid!Box(-16, -16, 16, 16)

Build(nodes, lines) ==
    FoldLeft(LAMBDA g, l : Values!AddEdge(g, l[1], l[2], l[3]),
             FoldLeft(Values!AddNode, Values!NoRoads, nodes), lines)

\* Equal routes one way and the other; a road of no length both ways; a
\* one-way street; a corner nothing leads to; the generated grid.
MCGraphs ==
    {Values!NoRoads,
     Build(<<<<0, 0>>, <<2, 0>>, <<0, 2>>, <<2, 2>>>>,
           <<<<1, 3, 2>>, <<1, 2, 2>>, <<3, 4, 2>>, <<2, 4, 2>>, <<4, 1, 4>>>>),
     Build(<<<<0, 0>>, <<1, 1>>, <<3, 1>>, <<1, 4>>>>,
           <<<<1, 2, 3>>, <<1, 3, 3>>, <<2, 3, 0>>, <<3, 2, 0>>, <<3, 4, 1>>>>),
     Values!Grid(2, 2, 4, [x \in (1..2) \X (1..2) |-> <<x[1] - 1, 2 - x[2]>>], {<<1, 1>>}, {})}
MCQueries   == {<<1, 4>>, <<4, 1>>, <<2, 0>>, <<0, 1>>, <<3, 2>>}
MCPositions == {<<1, 1>>, <<9, 9>>}
MCWeights   == {-1, 0, 1}
MCSpots     == {<<1, 1>>, <<4, 5>>, <<8, 8>>}

\* Three junctions and one that can only be reached; any of three units may be
\* off duty, so there are as many of them as cases, fewer and more.
MCMaps   == {Build(<<<<0, 0>>, <<2, 0>>, <<0, 2>>, <<9, 9>>>>,
                   <<<<1, 3, 2>>, <<1, 2, 1>>, <<3, 1, 2>>, <<2, 1, 4>>, <<3, 4, 3>>>>)}
MCPlaces == {<<0, 0>>, <<2, 1>>, <<8, 8>>}
MCUnits  == {3}
MCCases  == {0, 1, 2, 3}

Box(x, y, w, h) == <<<<x, y>>, <<x + w, y>>, <<x + w, y + h>>, <<x, y + h>>>>
Plain(outline) == [outer |-> outline, holes |-> <<>>]

\* The beginnings of outlines on a lattice of 3 by 3, and finished outlines of
\* six vertices for holes: a square either way round, one with a notch.
MCSketches ==
    {<<<<0, 0>>, <<1, 1>>, <<0, 1>>>>, <<<<0, 0>>, <<2, 1>>, <<1, 0>>>>, <<<<1, 0>>, <<1, 1>>, <<1, 2>>>>}
    \cup {<<<<0, 0>>, <<2, 0>>, <<4, 0>>, <<4, 4>>, <<2, 4>>, <<0, 4>>>>,
          <<<<0, 4>>, <<2, 4>>, <<4, 4>>, <<4, 0>>, <<2, 0>>, <<0, 0>>>>,
          <<<<0, 0>>, <<4, 0>>, <<4, 4>>, <<3, 4>>, <<2, 2>>, <<0, 4>>>>}
MCVertices   == (0..2) \X (0..2)
MCHoles      == {Box(1, 1, 1, 1), Reverse(Box(1, 1, 1, 1)), Box(2, 2, 3, 1), Box(1, 1, 2, 2),
                 <<<<2, 1>>, <<3, 1>>, <<3, 2>>>>, <<<<1, 2>>, <<3, 3>>, <<1, 3>>>>,
                 <<<<1, 2>>, <<3, 2>>, <<2, 3>>>>}
MCFixes      == (0..4) \X (0..4)
MCAccuracies == {0, 1}

\* A district with an enclave, one with a bay and a bar across its mouth,
\* blocks on borders and across the enclave, one beyond.
MCShapes ==
    {[outer |-> Box(0, 0, 8, 8), holes |-> <<Box(2, 2, 2, 2)>>],
     Plain(<<<<0, 0>>, <<8, 0>>, <<8, 2>>, <<2, 2>>, <<2, 6>>, <<8, 6>>, <<8, 8>>, <<0, 8>>>>),
     Plain(Box(7, 1, 1, 6)), Plain(Box(4, 0, 4, 4)), Plain(Box(0, 4, 4, 4)),
     Plain(<<<<0, 0>>, <<0, 8>>, <<2, 8>>, <<2, 0>>>>), Plain(Box(1, 1, 6, 4)), Plain(Box(10, 0, 4, 4))}
MCPoints == {1, 3, 5, 7, 11} \X {1, 3, 5, 7}
MCTouching ==
    {Plain(<<<<0, 0>>, <<8, 0>>, <<8, 8>>, <<4, 4>>, <<0, 8>>>>), Plain(<<<<0, 8>>, <<4, 0>>, <<8, 8>>>>),
     Plain(Box(2, 2, 2, 2)), Plain(Box(5, 1, 2, 1)), Plain(Box(10, 0, 4, 4)), Plain(Box(11, 1, 1, 1))}
MCTouchPoints == (0..8) \X (0..8)

S == INSTANCE Structures WITH
        ItemIds <- MCIds, BoxOf <- MCBoxOf, IntervalOf <- MCIntervalOf, Starts <- MCStarts,
        Probes <- MCProbes, Points <- MCSites, Times <- MCTimes,
        QCap <- 2, QMaxDepth <- 3, QWorld <- MCQWorld, QPad <- 1, RMaxEntries <- 4,
        GBits <- 5, GWorld <- MCGWorld, InitialSlots <- 4, RingCapacity <- 3
R == INSTANCE RoadNetwork WITH Graphs <- MCGraphs, Positions <- MCPositions, Weights <- MCWeights,
                               Spots <- MCSpots, Queries <- MCQueries
P == INSTANCE Planner WITH Maps <- MCMaps, Places <- MCPlaces, Units <- MCUnits, Cases <- MCCases
D == INSTANCE Drawing WITH Sketches <- MCSketches, Vertices <- MCVertices, Holes <- MCHoles,
                           Spots <- MCFixes, Accuracies <- MCAccuracies
H == INSTANCE Hierarchy WITH Shapes <- MCShapes, Points <- MCPoints
T == INSTANCE Hierarchy WITH Shapes <- MCTouching, Points <- MCTouchPoints

storeVars == <<items, quad, rtree, geohash, slots, intervals, ring, pushed, left>>
roadVars  == <<roads, saved, search, edits>>
planVars  == <<map, pool, incidents, plans>>
treeVars  == <<shapes, parents>>
vars == <<part, storeVars, roadVars, planVars, poly, treeVars, logVars, dsuVars,
          boxVars, boardVars>>

Off == <<>>

Init ==
    /\ part \in Parts
    /\ IF part = "structures" THEN S!Init
       ELSE /\ items = Off /\ quad = Off /\ rtree = Off /\ geohash = Off /\ slots = Off
            /\ intervals = Off /\ ring = Off /\ pushed = Off /\ left = Off
    /\ IF part = "roads" THEN R!Init ELSE roads = Off /\ saved = Off /\ search = Off /\ edits = Off
    /\ IF part = "plans" THEN P!Init ELSE map = Off /\ pool = Off /\ incidents = Off /\ plans = Off
    /\ IF part = "shapes" THEN D!Init ELSE poly = Off
    /\ IF part \in {"regions", "touching"} THEN H!Init ELSE shapes = Off /\ parents = Off
    /\ LogInit
    /\ DsuInit
    /\ BoxInit
    /\ IF part = "board" THEN BoardInit
       ELSE /\ now = 0 /\ severity = Off /\ alerts = <<>> /\ active = {} /\ stand = Off
            /\ device = Off /\ trips = 0 /\ sweep = 0 /\ computed = {}

Next ==
    /\ UNCHANGED part
    /\ IF part = "structures" THEN S!Next ELSE UNCHANGED storeVars
    /\ IF part = "roads" THEN R!Next ELSE UNCHANGED roadVars
    /\ IF part = "plans" THEN P!Next ELSE UNCHANGED planVars
    /\ IF part = "shapes" THEN D!Next ELSE UNCHANGED poly
    /\ CASE part = "regions" -> H!Next
         [] part = "touching" -> T!Next
         [] OTHER -> UNCHANGED treeVars
    /\ IF part = "log" THEN LogNext ELSE UNCHANGED logVars
    /\ IF part = "unions" THEN DsuNext ELSE UNCHANGED dsuVars
    /\ IF part = "outbox" THEN BoxNext ELSE UNCHANGED boxVars
    /\ IF part = "board" THEN BoardNext ELSE UNCHANGED boardVars

Spec == Init /\ [][Next]_vars

MCSymmetry == Permutations(Records)

(* components_bruteforce: what the unions in force connect. *)
RECURSIVE Flood(_)
Flood(s) == LET more == s \cup UNION {e \in ToSet(done) : e \cap s # {}}
            IN  IF more = s THEN s ELSE Flood(more)

(* Indexes, tree of neighbours and containers answer like a scan: Structures;  *)
(* the components listed are those a flood fill finds: Connectivity.           *)
StructuresAgree ==
    /\ part = "structures" =>
         /\ S!AnswersLikeBruteForce /\ S!NearestLikeBruteForce
         /\ S!ContainersAgree /\ S!StructuresAreSound
    /\ part = "unions" => /\ ToSet(ComponentsInOrder) = {Flood({x}) : x \in Elements}
                          /\ Len(ComponentsInOrder) = components
(* Searches are exact; snapping, counts and files stay true: RoadNetwork.      *)
RoadsAreTrue == part = "roads" => R!SearchIsExact /\ R!RoadsStayTrue
(* The optimal plan is optimal, the greedy one fair: Planner.                  *)
PlansAreOptimal == part = "plans" => P!PlansAreOptimal
(* The sweep and the two containment tests agree, definite is safe: Drawing.   *)
ShapesAgree == part = "shapes" => D!ShapesAgree
(* The true nesting, and the deepest owner: Hierarchy.                         *)
OwnerIsFound == part = "regions" => H!OwnerIsFound

(* For the run with borders that touch at vertices: Hierarchy.                 *)
NestsOnlyWhatItHolds == part = "touching" => T!NestsOnlyWhatItHolds

=============================================================================
