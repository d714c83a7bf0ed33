------------------------- MODULE VersionedIndexProofs -------------------------
(***************************************************************************)
(* What every edit of the versioned index keeps, for any zones, boxes,     *)
(* validities and times: the interval tree and the records agree on what   *)
(* is in force, no answer about an earlier instant changes, every version  *)
(* kept is a tree in which each zone has one place, the place its box      *)
(* leads to, and so every query of every version answers what the world    *)
(* of that version says, and the index is a history of worlds to which an  *)
(* edit adds one.                                                          *)
(***************************************************************************)
EXTENDS VersionedIndex, SequenceTheorems, FiniteSetTheorems, FunctionTheorems, WellFoundedInduction, TLAPS

(* Every set of natural numbers has a least element, and so what holds of   *)
(* zero and passes from each number to the next holds of them all.          *)
LEMMA LeastNatural ==
    ASSUME NEW T \in SUBSET Nat, T # {}
    PROVE  \E x \in T : \A y \in T : x <= y
<1> DEFINE R0 == {p \in Nat \X Nat : p[1] < p[2]}
<1>1. R0 = OpToRel(<, Nat)
      BY DEF OpToRel
<1>2. IsWellFoundedOn(R0, Nat)
      BY <1>1, NatLessThanWellFounded
<1> HIDE DEF R0
<1>3. PICK x \in T : \A y \in T : ~(<<y, x>> \in R0)
      BY <1>2, WFMin
<1>4. ASSUME NEW y \in T, y < x PROVE FALSE
  <2>1. <<y, x>> \in R0
        BY <1>4 DEF R0
  <2> QED BY <1>3, <2>1
<1> QED BY <1>4

LEMMA StepByStep ==
    ASSUME NEW T, 0 \in T, \A n \in Nat : n \in T => n + 1 \in T
    PROVE  Nat \subseteq T
<1> DEFINE left == Nat \ T
<1> SUFFICES ASSUME left # {} PROVE FALSE
    OBVIOUS
<1>1. PICK x \in left : \A y \in left : x <= y
  <2>1. left \in SUBSET Nat
        OBVIOUS
  <2> HIDE DEF left
  <2> QED BY <2>1, LeastNatural
<1>2. x \in Nat /\ x # 0
      OBVIOUS
<1>3. x - 1 \in Nat /\ ~(x <= x - 1) /\ (x - 1) + 1 = x
      BY <1>2
<1>4. x - 1 \notin left
      BY <1>1, <1>3
<1>5. x - 1 \in T
      BY <1>3, <1>4
<1> QED BY <1>3, <1>5

(* The first and the last of some positions are among them. *)
LEMMA LowestFact ==
    ASSUME NEW n \in Nat, NEW S \in SUBSET (1..n)
    PROVE  /\ Lowest(S) \in 0..n
           /\ S = {} => Lowest(S) = 0
           /\ S # {} => Lowest(S) \in S /\ Lowest(S) # 0
<1>1. CASE S = {}
      BY <1>1 DEF Lowest
<1>2. CASE S # {}
  <2>1. S \in SUBSET Nat
        OBVIOUS
  <2>2. \E x \in S : \A y \in S : x <= y
        BY <1>2, <2>1, LeastNatural
  <2>3. Lowest(S) \in S
        BY <1>2, <2>2 DEF Lowest
  <2>4. \A x \in S : x \in 1..n
        OBVIOUS
  <2> DEFINE m == Lowest(S)
  <2>5. m \in S /\ m \in 1..n
        BY <2>3, <2>4
  <2> HIDE DEF m
  <2>6. m \in 0..n /\ m # 0
        BY <2>5
  <2> QED BY <1>2, <2>5, <2>6 DEF m
<1> QED BY <1>1, <1>2

LEMMA HighestFact ==
    ASSUME NEW n \in Nat, NEW S \in SUBSET (1..n)
    PROVE  /\ Highest(S) \in 0..n
           /\ S = {} => Highest(S) = 0
           /\ S # {} => Highest(S) \in S /\ Highest(S) # 0
           /\ \A y \in S : y <= Highest(S)
<1>1. CASE S = {}
      BY <1>1 DEF Highest
<1>2. CASE S # {}
  <2> DEFINE over == {n - y : y \in S}
  <2>6. \A x \in S : x \in 1..n
        OBVIOUS
  <2>1. over \in SUBSET Nat /\ over # {}
    <3>1. \A y \in S : n - y \in Nat
          BY <2>6
    <3> QED BY <1>2, <3>1
  <2>2. PICK x \in over : \A y \in over : x <= y
    <3> HIDE DEF over
    <3> QED BY <2>1, LeastNatural
  <2>3. PICK m \in S : x = n - m
        OBVIOUS
  <2>4. ASSUME NEW y \in S PROVE y <= m
    <3>1. n - m <= n - y
          BY <2>2, <2>3
    <3> QED BY <2>6, <3>1
  <2>5. Highest(S) \in S /\ \A y \in S : y <= Highest(S)
        BY <1>2, <2>4 DEF Highest
  <2> DEFINE h == Highest(S)
  <2>7. h \in S /\ h \in 1..n /\ \A y \in S : y <= h
        BY <2>5, <2>6
  <2> HIDE DEF h
  <2>8. h \in 0..n /\ h # 0
        BY <2>7
  <2> QED BY <1>2, <2>7, <2>8 DEF h
<1> QED BY <1>1, <1>2

-----------------------------------------------------------------------------
(* Functions defined step by step: there is one, and only one, and it stays *)
(* where its steps stay.                                                    *)
Iterates(g, x, f, n) == \A d \in 0..n : g[d] = IF d = 0 THEN x ELSE f[<<d, g[d - 1]>>]

LEMMA IterationExists ==
    ASSUME NEW S, NEW x \in S, NEW n \in Nat, NEW f \in [(1..n) \X S -> S]
    PROVE  \E g \in [0..n -> S] : Iterates(g, x, f, n)
<1> DEFINE T == {m \in Nat : m <= n => \E g \in [0..m -> S] : Iterates(g, x, f, m)}
<1>1. 0 \in T
  <2> DEFINE g == [d \in 0..0 |-> x]
  <2>1. g \in [0..0 -> S] /\ \A d \in 0..0 : g[d] = x /\ d = 0
        OBVIOUS
  <2> HIDE DEF g
  <2>2. Iterates(g, x, f, 0)
        BY <2>1 DEF Iterates
  <2> QED BY <2>1, <2>2
<1>2. ASSUME NEW m \in Nat, m \in T PROVE m + 1 \in T
  <2> SUFFICES ASSUME m + 1 <= n PROVE \E g \in [0..(m + 1) -> S] : Iterates(g, x, f, m + 1)
      OBVIOUS
  <2>1. PICK h \in [0..m -> S] : Iterates(h, x, f, m)
        BY <1>2
  <2> DEFINE g == [d \in 0..(m + 1) |-> IF d = m + 1 THEN f[<<m + 1, h[m]>>] ELSE h[d]]
  <2>2. f[<<m + 1, h[m]>>] \in S
    <3>1. h[m] \in S /\ m + 1 \in 1..n
          OBVIOUS
    <3> QED BY <3>1
  <2>3. g \in [0..(m + 1) -> S]
    <3>1. ASSUME NEW d \in 0..(m + 1), d # m + 1 PROVE h[d] \in S
      <4>1. d \in 0..m
            BY <3>1
      <4> QED BY <4>1
    <3> QED BY <2>2, <3>1
  <2>4. ASSUME NEW d \in 0..(m + 1) PROVE g[d] = IF d = 0 THEN x ELSE f[<<d, g[d - 1]>>]
    <3>1. CASE d = m + 1
      <4>1. m \in 0..(m + 1) /\ m # m + 1 /\ d - 1 = m /\ d # 0
            BY <3>1
      <4>2. g[m] = h[m] /\ g[d] = f[<<d, h[m]>>]
            BY <3>1, <4>1
      <4> HIDE DEF g
      <4> QED BY <4>1, <4>2
    <3>2. CASE d # m + 1
      <4>1. d \in 0..m /\ d - 1 # m + 1 /\ (d # 0 => d - 1 \in 0..(m + 1))
            BY <3>2
      <4>2. g[d] = h[d] /\ (d # 0 => g[d - 1] = h[d - 1])
            BY <3>2, <4>1
      <4> HIDE DEF g
      <4> QED BY <2>1, <4>1, <4>2 DEF Iterates
    <3> QED BY <3>1, <3>2
  <2> HIDE DEF g
  <2>5. Iterates(g, x, f, m + 1)
        BY <2>4 DEF Iterates
  <2> QED BY <2>3, <2>5
<1> HIDE DEF T
<1>3. Nat \subseteq T
      BY <1>1, <1>2, StepByStep
<1>4. n \in T
      BY <1>3
<1> QED BY <1>4 DEF T

LEMMA IterationStays ==
    ASSUME NEW S, NEW n \in Nat, NEW c, c[0] \in S,
           \A d \in 1..n : c[d - 1] \in S => c[d] \in S
    PROVE  \A d \in 0..n : c[d] \in S
<1> DEFINE T == {m \in Nat : m <= n => c[m] \in S}
<1>1. 0 \in T
      OBVIOUS
<1>2. ASSUME NEW m \in Nat, m \in T PROVE m + 1 \in T
  <2> SUFFICES ASSUME m + 1 <= n PROVE c[m + 1] \in S
      OBVIOUS
  <2>1. c[m] \in S /\ m + 1 \in 1..n /\ (m + 1) - 1 = m
        BY <1>2
  <2> QED BY <2>1
<1>3. Nat \subseteq T
  <2> HIDE DEF T
  <2> QED BY <1>1, <1>2, StepByStep
<1> QED BY <1>3

LEMMA FunctionIsSeq ==
    ASSUME NEW S, NEW n \in Nat, NEW f \in [1..n -> S]
    PROVE  f \in Seq(S) /\ Len(f) = n
<1>1. f \in Seq(S)
      BY SeqDef
<1>2. DOMAIN f = 1..n /\ DOMAIN f = 1..Len(f) /\ Len(f) \in Nat
      BY <1>1, LenProperties
<1> DEFINE m == Len(f)
<1>3. m \in Nat /\ \A i \in Nat : i \in 1..m <=> i \in 1..n
      BY <1>2
<1> HIDE DEF m
<1>4. (m >= 1 => m <= n) /\ (n >= 1 => n <= m)
      BY <1>3
<1>5. m = n
      BY <1>3, <1>4
<1> QED BY <1>1, <1>5 DEF m

-----------------------------------------------------------------------------
(* The heap: nodes of their type, whose kids are in it.                     *)
BoxType  == [s : Int, w : Int, n : Int, e : Int]
ItemType == [zone : Zones, box : BoxType]
NodeType == [region : BoxType, depth : Nat, items : Seq(ItemType), kids : Seq(Nat)]

InHeap(h) == 1..Len(h)
KidsIn(node, size) == \A i \in 1..Len(node.kids) : node.kids[i] \in 1..size
Heap(h) == h \in Seq(NodeType) /\ \A n \in InHeap(h) : KidsIn(h[n], Len(h))

(* An edit only appends. *)
Grew(h, g) == Len(h) <= Len(g) /\ \A n \in InHeap(h) : g[n] = h[n]

LEMMA NodeFact ==
    ASSUME NEW h, Heap(h), NEW n \in InHeap(h)
    PROVE  /\ h[n] \in NodeType
           /\ h[n].region \in BoxType /\ h[n].depth \in Nat
           /\ h[n].items \in Seq(ItemType) /\ h[n].kids \in Seq(Nat)
           /\ Len(h[n].kids) \in Nat /\ DOMAIN h[n].kids = 1..Len(h[n].kids)
           /\ Len(h[n].items) \in Nat /\ DOMAIN h[n].items = 1..Len(h[n].items)
           /\ KidsIn(h[n], Len(h)) /\ Len(h) \in Nat /\ DOMAIN h = InHeap(h)
<1>1. h[n] \in NodeType
      BY ElementOfSeq DEF Heap, InHeap
<1>2. h[n].items \in Seq(ItemType) /\ h[n].kids \in Seq(Nat)
      BY <1>1 DEF NodeType
<1>3. h[n].region \in BoxType /\ h[n].depth \in Nat
      BY <1>1 DEF NodeType
<1>4. /\ Len(h[n].kids) \in Nat /\ DOMAIN h[n].kids = 1..Len(h[n].kids)
      /\ Len(h[n].items) \in Nat /\ DOMAIN h[n].items = 1..Len(h[n].items)
      BY <1>2
<1>5. Len(h) \in Nat /\ DOMAIN h = InHeap(h)
      BY DEF Heap, InHeap
<1> QED BY <1>1, <1>2, <1>3, <1>4, <1>5 DEF Heap

(* The kid a box selects is one of the node's. *)
LEMMA KidFact ==
    ASSUME NEW h, Heap(h), NEW n \in InHeap(h), NEW box
    PROVE  KidFor(h, h[n], box) \in 0..Len(h[n].kids)
<1> DEFINE fit == {i \in DOMAIN h[n].kids : FullyContains(h[h[n].kids[i]].region, box)}
<1>1. Len(h[n].kids) \in Nat /\ fit \in SUBSET (1..Len(h[n].kids))
      BY NodeFact
<1> HIDE DEF fit
<1>2. Lowest(fit) \in 0..Len(h[n].kids)
      BY <1>1, LowestFact
<1> QED BY <1>2 DEF KidFor, fit

(* A path is one of nodes in the heap, with its root. *)
Paths(h) == Seq(InHeap(h)) \ {<<>>}

LEMMA DownFact ==
    ASSUME NEW h, Heap(h), NEW path \in Paths(h), NEW box
    PROVE  Down(h, box, path) \in Paths(h)
<1> DEFINE k == path[Len(path)]
           kid == KidFor(h, h[k], box)
<1>1. path \in Seq(InHeap(h)) /\ Len(path) \in Nat /\ Len(path) # 0 /\ path # <<>>
      BY DEF Paths
<1>2. k \in InHeap(h)
  <2>1. Len(path) \in 1..Len(path)
        BY <1>1
  <2> QED BY <1>1, <2>1, ElementOfSeq
<1>3. kid \in 0..Len(h[k].kids)
      BY <1>2, KidFact
<1> HIDE DEF k, kid
<1>4. CASE kid = 0
      BY <1>4 DEF Down, kid, k
<1>5. CASE kid # 0
  <2>1. h[k].kids[kid] \in InHeap(h)
    <3>1. kid \in 1..Len(h[k].kids)
          BY <1>3, <1>5
    <3>2. KidsIn(h[k], Len(h))
          BY <1>2, NodeFact
    <3> QED BY <3>1, <3>2 DEF KidsIn, InHeap
  <2>2. Append(path, h[k].kids[kid]) \in Paths(h)
    <3> DEFINE b == h[k].kids[kid]
    <3>1. b \in InHeap(h)
          BY <2>1
    <3> HIDE DEF b
    <3>2. Append(path, b) \in Seq(InHeap(h)) /\ Len(Append(path, b)) = Len(path) + 1
          BY <1>1, <3>1
    <3>3. Append(path, b) # <<>>
          BY <1>1, <3>2
    <3> QED BY <3>2, <3>3 DEF Paths, b
  <2> QED BY <1>5, <2>2 DEF Down, kid, k
<1> QED BY <1>4, <1>5

(* The walk of PathOf, stage by stage. *)
Walks(h, root, box, c) ==
    /\ \A d \in 0..MaxDepth : c[d] \in Paths(h)
    /\ c[0] = <<root>> /\ \A d \in 1..MaxDepth : c[d] = Down(h, box, c[d - 1])
    /\ PathOf(h, root, box) = c[MaxDepth]

LEMMA PathSolved ==
    ASSUME NEW h, Heap(h), NEW root \in InHeap(h), NEW box
    PROVE  \E c : Walks(h, root, box, c)
<1> DEFINE S == Paths(h)
           f == [x \in (1..MaxDepth) \X S |-> Down(h, box, x[2])]
           Solves(c) == c = [d \in 0..MaxDepth |-> IF d = 0 THEN <<root>> ELSE Down(h, box, c[d - 1])]
           c == CHOOSE c : Solves(c)
<1>1. MaxDepth \in Nat /\ <<root>> \in S
  <2>1. <<root>> \in Seq(InHeap(h)) /\ <<root>> # <<>>
        OBVIOUS
  <2> QED BY <2>1, MaxDepthAssumption DEF Paths
<1>2. f \in [(1..MaxDepth) \X S -> S]
      BY DownFact
<1>3. PICK g \in [0..MaxDepth -> S] : Iterates(g, <<root>>, f, MaxDepth)
  <2> HIDE DEF S, f
  <2> QED BY <1>1, <1>2, IterationExists
<1>4. \E y : Solves(y)
  <2>1. ASSUME NEW d \in 0..MaxDepth
        PROVE  g[d] = IF d = 0 THEN <<root>> ELSE Down(h, box, g[d - 1])
    <3>1. CASE d = 0
          BY <1>3, <3>1 DEF Iterates
    <3>2. CASE d # 0
      <4>1. d \in 1..MaxDepth /\ d - 1 \in 0..MaxDepth
            BY <3>2, <1>1
      <4>2. g[d - 1] \in S
            BY <4>1
      <4>3. f[<<d, g[d - 1]>>] = Down(h, box, g[d - 1])
            BY <4>1, <4>2
      <4>4. g[d] = f[<<d, g[d - 1]>>]
            BY <1>3, <3>2 DEF Iterates
      <4> QED BY <3>2, <4>3, <4>4
    <3> QED BY <3>1, <3>2
  <2> HIDE DEF S, f
  <2>2. Solves(g)
        BY <2>1
  <2> QED BY <2>2
<1>5. Solves(c)
  <2> HIDE DEF Solves
  <2> QED BY <1>4
<1>6. PathOf(h, root, box) = c[MaxDepth]
      BY DEF PathOf
<1> HIDE DEF c
<1>7. c[0] = <<root>> /\ \A d \in 1..MaxDepth : c[d] = Down(h, box, c[d - 1])
  <2>1. c[0] = <<root>>
        BY <1>1, <1>5
  <2>2. ASSUME NEW d \in 1..MaxDepth PROVE c[d] = Down(h, box, c[d - 1])
    <3>1. d \in 0..MaxDepth /\ d # 0
          BY <1>1
    <3> QED BY <1>5, <3>1
  <2> QED BY <2>1, <2>2
<1>8. c[0] \in S /\ \A d \in 1..MaxDepth : c[d - 1] \in S => c[d] \in S
      BY <1>1, <1>7, DownFact
<1>9. \A d \in 0..MaxDepth : c[d] \in S
  <2> HIDE DEF S, Solves
  <2> QED BY <1>1, <1>8, IterationStays
<1> HIDE DEF Solves
<1>10. Walks(h, root, box, c)
       BY <1>6, <1>7, <1>9 DEF Walks
<1> QED BY <1>10

LEMMA PathFact ==
    ASSUME NEW h, Heap(h), NEW root \in InHeap(h), NEW box
    PROVE  PathOf(h, root, box) \in Paths(h)
<1>1. MaxDepth \in 0..MaxDepth
      BY MaxDepthAssumption
<1>2. PICK c : Walks(h, root, box, c)
      BY PathSolved
<1> QED BY <1>1, <1>2 DEF Walks

(* The parts of an edit are nodes of their type. *)
LEMMA BoxFact ==
    /\ \A r \in BoxType, i \in 1..4 : Quarter(r, i) \in BoxType
    /\ \A a, b \in BoxType : Expand(a, b) \in BoxType
<1>1. ASSUME NEW r \in BoxType, NEW i \in 1..4 PROVE Quarter(r, i) \in BoxType
  <2>1. r.s \in Int /\ r.w \in Int /\ r.n \in Int /\ r.e \in Int
        BY DEF BoxType
  <2> DEFINE lat == (r.s + r.n) \div 2
             lon == (r.w + r.e) \div 2
  <2>2. lat \in Int /\ lon \in Int
        BY <2>1
  <2>3. Quarter(r, i) = CASE i = 1 -> Box(r.s, r.w, lat, lon)
                          [] i = 2 -> Box(r.s, lon, lat, r.e)
                          [] i = 3 -> Box(lat, r.w, r.n, lon)
                          [] i = 4 -> Box(lat, lon, r.n, r.e)
        BY DEF Quarter
  <2> HIDE DEF lat, lon
  <2>4. i = 1 \/ i = 2 \/ i = 3 \/ i = 4
        OBVIOUS
  <2> QED BY <2>1, <2>2, <2>3, <2>4 DEF Box, BoxType
<1>2. ASSUME NEW a \in BoxType, NEW b \in BoxType PROVE Expand(a, b) \in BoxType
      BY DEF Expand, Box, Lesser, Greater, BoxType
<1> QED BY <1>1, <1>2

LEMMA TakenSolved ==
    ASSUME NEW node \in NodeType, NEW quarter
    PROVE  \E c : /\ \A k \in 0..Len(node.items) : c[k] \in Seq(ItemType)
                  /\ c[0] = <<>>
                  /\ \A k \in 1..Len(node.items) :
                        c[k] = IF QuarterOf(node.region, node.items[k].box) = quarter
                               THEN Append(c[k - 1], node.items[k]) ELSE c[k - 1]
                  /\ TakenBy(node, quarter) = c[Len(node.items)]
<1> DEFINE its == node.items
           N == Len(its)
           S == Seq(ItemType)
           Goes(k) == QuarterOf(node.region, its[k].box) = quarter
           f == [x \in (1..N) \X S |-> IF Goes(x[1]) THEN Append(x[2], its[x[1]]) ELSE x[2]]
           Solves(c) == c = [k \in 0..N |-> IF k = 0 THEN <<>>
                                            ELSE IF Goes(k) THEN Append(c[k - 1], its[k]) ELSE c[k - 1]]
           c == CHOOSE c : Solves(c)
<1>1. its \in Seq(ItemType) /\ N \in Nat /\ <<>> \in S /\ \A k \in 1..N : its[k] \in ItemType
  <2>1. its \in Seq(ItemType)
        BY DEF NodeType
  <2> QED BY <2>1
<1>2. TakenBy(node, quarter) = c[N]
      BY DEF TakenBy
<1> HIDE DEF Goes, N, its
<1>3. f \in [(1..N) \X S -> S]
  <2>1. ASSUME NEW k \in 1..N, NEW s \in S PROVE Append(s, its[k]) \in S
    <3>1. its[k] \in ItemType
          BY <1>1
    <3> QED BY <3>1
  <2> HIDE DEF S
  <2> QED BY <2>1
<1>4. PICK g \in [0..N -> S] : Iterates(g, <<>>, f, N)
  <2> HIDE DEF S, f
  <2> QED BY <1>1, <1>3, IterationExists
<1>5. Solves(g)
  <2>1. ASSUME NEW k \in 0..N
        PROVE  g[k] = IF k = 0 THEN <<>> ELSE IF Goes(k) THEN Append(g[k - 1], its[k]) ELSE g[k - 1]
    <3>1. CASE k = 0
          BY <1>4, <3>1 DEF Iterates
    <3>2. CASE k # 0
      <4>1. k \in 1..N /\ k - 1 \in 0..N
            BY <3>2, <1>1
      <4>2. g[k - 1] \in S
            BY <4>1
      <4>3. f[<<k, g[k - 1]>>] = IF Goes(k) THEN Append(g[k - 1], its[k]) ELSE g[k - 1]
        <5> HIDE DEF S
        <5> QED BY <4>1, <4>2
      <4>4. g[k] = f[<<k, g[k - 1]>>]
            BY <1>4, <3>2 DEF Iterates
      <4> QED BY <3>2, <4>3, <4>4
    <3> QED BY <3>1, <3>2
  <2> HIDE DEF S, f
  <2> QED BY <2>1
<1>6. Solves(c)
  <2>1. \E y : Solves(y)
        BY <1>5
  <2> HIDE DEF Solves
  <2> QED BY <2>1
<1> HIDE DEF c
<1>7. /\ c[0] = <<>> /\ c[0] \in S /\ \A k \in 1..N : c[k - 1] \in S => c[k] \in S
      /\ \A k \in 1..N : c[k] = IF Goes(k) THEN Append(c[k - 1], its[k]) ELSE c[k - 1]
  <2>1. 0 \in 0..N
        BY <1>1
  <2>2. c[0] = <<>>
        BY <1>6, <2>1
  <2>4. ASSUME NEW k \in 1..N PROVE c[k] = IF Goes(k) THEN Append(c[k - 1], its[k]) ELSE c[k - 1]
    <3>1. k \in 0..N /\ k # 0
          BY <1>1
    <3> QED BY <1>6, <3>1
  <2>3. ASSUME NEW k \in 1..N, c[k - 1] \in S PROVE c[k] \in S
    <3>1. k \in 0..N /\ k # 0
          BY <1>1
    <3>2. c[k] = IF Goes(k) THEN Append(c[k - 1], its[k]) ELSE c[k - 1]
          BY <1>6, <3>1
    <3>3. its[k] \in ItemType
          BY <1>1
    <3>4. Append(c[k - 1], its[k]) \in S
          BY <2>3, <3>3
    <3> HIDE DEF S
    <3> QED BY <2>3, <3>2, <3>4
  <2> QED BY <1>1, <2>2, <2>3, <2>4
<1>8. \A k \in 0..N : c[k] \in S
  <2> HIDE DEF S, Solves
  <2> QED BY <1>1, <1>7, IterationStays
<1>9. /\ \A k \in 0..N : c[k] \in S
      /\ c[0] = <<>>
      /\ \A k \in 1..N : c[k] = IF Goes(k) THEN Append(c[k - 1], its[k]) ELSE c[k - 1]
      /\ TakenBy(node, quarter) = c[N]
      BY <1>2, <1>7, <1>8
<1> HIDE DEF Solves
<1> QED BY <1>9 DEF Goes, N, its

LEMMA TakenFact ==
    ASSUME NEW node \in NodeType, NEW quarter
    PROVE  TakenBy(node, quarter) \in Seq(ItemType)
<1>1. node.items \in Seq(ItemType)
      BY DEF NodeType
<1>2. Len(node.items) \in 0..Len(node.items)
      BY <1>1
<1> QED BY <1>2, TakenSolved

LEMMA CopiedFact ==
    ASSUME NEW h, Heap(h), NEW path \in Paths(h), NEW j \in 1..Len(path), NEW last \in NodeType,
           NEW size \in Nat, Len(h) + Len(path) <= size, KidsIn(last, size)
    PROVE  Copied(h, path, j, last) \in NodeType /\ KidsIn(Copied(h, path, j, last), size)
<1>1. CASE j = Len(path)
      BY <1>1 DEF Copied
<1>2. CASE j # Len(path)
  <2> DEFINE n == path[j]
             ks == h[n].kids
             to == path[j + 1]
             L == Len(h)
             new == [i \in DOMAIN ks |-> IF ks[i] = to THEN L + j + 1 ELSE ks[i]]
  <2>1. Len(path) \in Nat /\ L \in Nat /\ n \in InHeap(h)
        BY ElementOfSeq DEF Paths, Heap
  <2>2. /\ h[n] \in NodeType /\ ks \in Seq(Nat) /\ Len(ks) \in Nat /\ DOMAIN ks = 1..Len(ks)
        /\ \A i \in 1..Len(ks) : ks[i] \in 1..L
    <3>1. KidsIn(h[n], Len(h))
          BY <2>1, NodeFact
    <3> QED BY <2>1, <3>1, NodeFact DEF KidsIn
  <2>3. Copied(h, path, j, last) = [h[n] EXCEPT !.kids = new]
        BY <1>2 DEF Copied
  <2> HIDE DEF ks, to, n, L
  <2>4. \A i \in 1..Len(ks) : new[i] \in 1..size
    <3>1. L + j + 1 \in 1..size
          BY <1>2, <2>1 DEF L
    <3>2. \A i \in 1..Len(ks) : ks[i] \in 1..size
          BY <2>1, <2>2 DEF L
    <3> QED BY <2>2, <3>1, <3>2
  <2>5. new \in Seq(Nat) /\ Len(new) = Len(ks)
    <3>1. new \in [1..Len(ks) -> Nat]
          BY <2>2, <2>4
    <3> HIDE DEF new
    <3> QED BY <2>2, <3>1, FunctionIsSeq
  <2> HIDE DEF new
  <2>6. [h[n] EXCEPT !.kids = new] \in NodeType /\ [h[n] EXCEPT !.kids = new].kids = new
        BY <2>2, <2>5 DEF NodeType
  <2> QED BY <2>3, <2>4, <2>5, <2>6 DEF KidsIn
<1> QED BY <1>1, <1>2

LEMMA AppendedFact ==
    ASSUME NEW h, Heap(h), NEW s \in Seq(NodeType),
           \A i \in 1..Len(s) : KidsIn(s[i], Len(h) + Len(s))
    PROVE  Heap(h \o s) /\ Grew(h, h \o s) /\ Len(h \o s) = Len(h) + Len(s)
<1> DEFINE g == h \o s
<1>1. /\ h \in Seq(NodeType) /\ Len(h) \in Nat /\ Len(s) \in Nat
      /\ g \in Seq(NodeType) /\ Len(g) = Len(h) + Len(s)
      /\ \A i \in 1..Len(g) : g[i] = IF i <= Len(h) THEN h[i] ELSE s[i - Len(h)]
      BY ConcatProperties DEF Heap
<1> HIDE DEF g
<1>2. ASSUME NEW n \in InHeap(g) PROVE KidsIn(g[n], Len(g))
  <2>1. CASE n <= Len(h)
    <3>1. n \in InHeap(h) /\ g[n] = h[n]
          BY <1>1, <2>1 DEF InHeap
    <3>2. KidsIn(h[n], Len(h))
          BY <3>1 DEF Heap
    <3> QED BY <1>1, <3>1, <3>2 DEF KidsIn
  <2>2. CASE ~(n <= Len(h))
    <3>1. n - Len(h) \in 1..Len(s) /\ g[n] = s[n - Len(h)]
          BY <1>1, <2>2 DEF InHeap
    <3> QED BY <1>1, <3>1
  <2> QED BY <2>1, <2>2
<1>3. Grew(h, g)
      BY <1>1 DEF Grew, InHeap
<1> QED BY <1>1, <1>2, <1>3 DEF Heap, g

(* An edit of the tree appends nodes to the heap and changes none; what it  *)
(* leaves is a heap, with the root it leaves in it.                         *)
LEMMA WideFact ==
    ASSUME NEW h, Heap(h), NEW root \in InHeap(h), NEW box \in BoxType
    PROVE  LET wide == [h EXCEPT ![root] = WidenedRoot(h[root], box)] IN
           Heap(wide) /\ Len(wide) = Len(h)
<1> DEFINE w == WidenedRoot(h[root], box)
           wide == [h EXCEPT ![root] = w]
<1>1. h[root] \in NodeType /\ h[root].region \in BoxType
      BY NodeFact
<1>2. w \in NodeType /\ w.kids = h[root].kids
  <2> DEFINE r == Expand(h[root].region, box)
  <2>1. r \in BoxType
        BY <1>1, BoxFact
  <2>2. w = IF FullyContains(h[root].region, box) THEN h[root] ELSE [h[root] EXCEPT !.region = r]
        BY DEF WidenedRoot
  <2> HIDE DEF w, r
  <2> QED BY <1>1, <2>1, <2>2 DEF NodeType
<1> HIDE DEF w
<1>3. /\ h \in Seq(NodeType) /\ wide \in Seq(NodeType) /\ Len(wide) = Len(h)
      /\ \A n \in InHeap(h) : wide[n] = IF n = root THEN w ELSE h[n]
      BY <1>2, ExceptSeq DEF Heap, InHeap
<1> HIDE DEF wide
<1>4. ASSUME NEW n \in InHeap(h) PROVE KidsIn(wide[n], Len(h))
  <2>1. KidsIn(h[n], Len(h)) /\ KidsIn(h[root], Len(h))
        BY DEF Heap
  <2> QED BY <1>2, <1>3, <2>1 DEF KidsIn
<1> QED BY <1>3, <1>4 DEF Heap, InHeap, wide, w

LEMMA SplitFact ==
    ASSUME NEW node \in NodeType
    PROVE  /\ SplitKids(node) \in Seq(NodeType) /\ Len(SplitKids(node)) = 4
           /\ \A i \in 1..4 : \A size : KidsIn(SplitKids(node)[i], size)
<1>1. node.region \in BoxType /\ node.depth + 1 \in Nat
      BY DEF NodeType
<1>2. ASSUME NEW i \in 1..4
      PROVE  SplitKids(node)[i] \in NodeType /\ SplitKids(node)[i].kids = <<>>
  <2> DEFINE r == Quarter(node.region, i)
             its == TakenBy(node, i)
  <2>1. r \in BoxType /\ its \in Seq(ItemType)
        BY <1>1, BoxFact, TakenFact
  <2>2. SplitKids(node)[i] = [EmptyNode(r, node.depth + 1) EXCEPT !.items = its]
        BY DEF SplitKids
  <2> HIDE DEF r, its
  <2>3. SplitKids(node)[i] = [region |-> r, depth |-> node.depth + 1, items |-> its, kids |-> <<>>]
        BY <2>2 DEF EmptyNode
  <2> QED BY <1>1, <2>1, <2>3 DEF NodeType
<1>3. SplitKids(node) \in [1..4 -> NodeType]
  <2>1. SplitKids(node) = [i \in 1..4 |-> SplitKids(node)[i]]
        BY DEF SplitKids
  <2> QED BY <1>2, <2>1
<1>4. SplitKids(node) \in Seq(NodeType) /\ Len(SplitKids(node)) = 4
      BY <1>3, FunctionIsSeq
<1>5. Len(<<>>) = 0
      OBVIOUS
<1> QED BY <1>2, <1>4, <1>5 DEF KidsIn

(* The nodes an insertion appends: a copy of every node on the path of the  *)
(* box, the last with the box, and the four kids of a leaf that splits.     *)
InsertedAs(h, g, root, zone, box, path, wide, holder, last, more) ==
    /\ path = PathOf(h, root, box)
    /\ wide = [h EXCEPT ![root] = WidenedRoot(h[root], box)]
    /\ holder = [wide[path[Len(path)]] EXCEPT !.items = Append(@, [zone |-> zone, box |-> box])]
    /\ holder \in NodeType
    /\ Len(more) \in Nat /\ Len(g) = Len(h) + Len(path) + Len(more)
    /\ \A j \in 1..Len(path) : g[Len(h) + j] = Copied(wide, path, j, last)
    /\ \A i \in 1..Len(more) : g[Len(h) + Len(path) + i] = more[i]
    /\ \/ last = holder /\ Len(more) = 0
       \/ /\ IsLeaf(holder) /\ holder.depth < MaxDepth
          /\ last = [holder EXCEPT !.items = TakenBy(holder, 0),
                                   !.kids = [i \in 1..4 |-> Len(h) + Len(path) + i]]
          /\ more = SplitKids(holder) /\ Len(more) = 4

LEMMA InsertParts ==
    ASSUME NEW h, Heap(h), NEW root \in InHeap(h), NEW zone \in Zones, NEW box \in BoxType
    PROVE  LET g == InsertCopy(h, root, zone, box) IN
           /\ Heap(g) /\ Grew(h, g) /\ Len(h) + 1 \in InHeap(g)
           /\ \E path, wide, holder, last, more :
                 InsertedAs(h, g, root, zone, box, path, wide, holder, last, more)
<1> DEFINE path   == PathOf(h, root, box)
           depth  == Len(path)
           wide   == [h EXCEPT ![root] = WidenedRoot(h[root], box)]
           at     == path[depth]
           its    == Append(wide[at].items, [zone |-> zone, box |-> box])
           holder == [wide[at] EXCEPT !.items = its]
           splits == IsLeaf(holder) /\ Len(holder.items) > Cap /\ holder.depth < MaxDepth
           base   == Len(h) + depth
           kids   == [i \in 1..4 |-> base + i]
           last   == IF splits THEN [holder EXCEPT !.items = TakenBy(holder, 0), !.kids = kids]
                               ELSE holder
           more   == IF splits THEN SplitKids(holder) ELSE <<>>
           copies == [j \in 1..depth |-> Copied(wide, path, j, last)]
           size   == base + Len(more)
<1>1. InsertCopy(h, root, zone, box)
         = h \o [j \in 1..depth |-> Copied(wide, path, j, last)] \o more
      BY DEF InsertCopy
<1>2. Heap(wide) /\ Len(wide) = Len(h) /\ InHeap(wide) = InHeap(h)
      BY WideFact DEF InHeap
<1> HIDE DEF wide
<1>3. path \in Paths(h) /\ path \in Paths(wide) /\ Len(h) \in Nat
  <2>1. path \in Paths(h)
        BY PathFact
  <2> HIDE DEF path
  <2> QED BY <1>2, <2>1 DEF Paths, Heap
<1> HIDE DEF path
<1>4. depth \in Nat /\ depth >= 1 /\ depth \in 1..depth /\ base \in Nat
      BY <1>3 DEF Paths
<1>5. at \in InHeap(h)
      BY <1>3, <1>4, ElementOfSeq DEF Paths
<1> HIDE DEF at, depth
<1>6. wide[at] \in NodeType /\ KidsIn(wide[at], Len(h)) /\ wide[at].items \in Seq(ItemType)
      BY <1>2, <1>5, NodeFact
<1>7. its \in Seq(ItemType)
  <2> DEFINE it == [zone |-> zone, box |-> box]
             old == wide[at].items
  <2>1. it \in ItemType /\ old \in Seq(ItemType)
        BY <1>6 DEF ItemType
  <2> HIDE DEF it, old
  <2>2. Append(old, it) \in Seq(ItemType)
        BY <2>1
  <2> QED BY <2>2 DEF it, old
<1> HIDE DEF its
<1>8. holder \in NodeType /\ holder.kids = wide[at].kids
      BY <1>6, <1>7 DEF NodeType
<1> HIDE DEF holder
<1>9. /\ more \in Seq(NodeType) /\ Len(more) \in Nat /\ size \in Nat
      /\ \A i \in 1..Len(more) : KidsIn(more[i], size)
      /\ splits => Len(more) = 4
  <2>1. CASE splits
    <3> DEFINE s == SplitKids(holder)
    <3>1. more = s
          BY <2>1
    <3>2. s \in Seq(NodeType) /\ Len(s) = 4 /\ \A i \in 1..4 : KidsIn(s[i], size)
          BY <1>8, SplitFact
    <3> HIDE DEF more, s, base
    <3>3. size \in Nat
          BY <1>4, <3>1, <3>2
    <3> QED BY <1>4, <3>1, <3>2, <3>3
  <2>2. CASE ~splits
    <3>1. more = <<>> /\ <<>> \in Seq(NodeType) /\ Len(<<>>) = 0
          BY <2>2
    <3> HIDE DEF more, splits, base
    <3> QED BY <1>4, <2>2, <3>1
  <2> QED BY <2>1, <2>2
<1>10. last \in NodeType /\ KidsIn(last, size)
  <2>1. CASE splits
    <3> DEFINE taken == TakenBy(holder, 0)
    <3>1. last = [holder EXCEPT !.items = taken, !.kids = kids] /\ Len(more) = 4
          BY <1>9, <2>1
    <3>2. taken \in Seq(ItemType)
          BY <1>8, TakenFact
    <3>3. kids \in [1..4 -> Nat] /\ \A i \in 1..4 : kids[i] \in 1..size
      <4> HIDE DEF more, last, base
      <4>1. size = base + 4
            BY <3>1
      <4> HIDE DEF size
      <4>2. \A i \in 1..4 : base + i \in 1..size /\ base + i \in Nat
            BY <1>4, <4>1
      <4> QED BY <4>2
    <3> HIDE DEF kids, taken, last, size
    <3>4. kids \in Seq(Nat) /\ Len(kids) = 4
      <4>1. kids \in [1..4 -> Nat]
            BY <3>3
      <4> QED BY <4>1, FunctionIsSeq
    <3>5. last \in NodeType /\ last.kids = kids
          BY <1>8, <3>1, <3>2, <3>4 DEF NodeType
    <3> QED BY <3>3, <3>4, <3>5 DEF KidsIn
  <2>2. CASE ~splits
    <3>1. last = holder
          BY <2>2
    <3>2. \A x \in 1..Len(h) : x \in 1..size
      <4> HIDE DEF more
      <4> QED BY <1>3, <1>4, <1>9
    <3> HIDE DEF last, size, splits
    <3> QED BY <1>6, <1>8, <3>1, <3>2 DEF KidsIn
  <2> QED BY <2>1, <2>2
<1> HIDE DEF last, more, splits
<1>11. copies \in Seq(NodeType) /\ Len(copies) = depth /\ \A j \in 1..depth : KidsIn(copies[j], size)
  <2>1. ASSUME NEW j \in 1..depth PROVE copies[j] \in NodeType /\ KidsIn(copies[j], size)
    <3>1. j \in 1..Len(path)
          BY DEF depth
    <3>2. Len(wide) + Len(path) <= size
          BY <1>2, <1>3, <1>4, <1>9 DEF depth
    <3> HIDE DEF size
    <3>3. Copied(wide, path, j, last) \in NodeType /\ KidsIn(Copied(wide, path, j, last), size)
          BY <1>2, <1>3, <1>9, <1>10, <3>1, <3>2, CopiedFact
    <3> QED BY <3>3
  <2>2. copies \in [1..depth -> NodeType]
        BY <2>1
  <2> HIDE DEF copies
  <2> QED BY <1>4, <2>1, <2>2, FunctionIsSeq
<1> DEFINE s == copies \o more
<1>12. InsertCopy(h, root, zone, box) = h \o s
  <2>1. h \in Seq(NodeType) /\ copies \in Seq(NodeType) /\ more \in Seq(NodeType)
        BY <1>9, <1>11 DEF Heap
  <2>2. (h \o copies) \o more = h \o (copies \o more)
    <3> HIDE DEF copies
    <3> QED BY <2>1, ConcatAssociative
  <2> QED BY <1>1, <2>2
<1>13. /\ s \in Seq(NodeType) /\ Len(s) = depth + Len(more)
       /\ \A i \in 1..Len(s) : s[i] = IF i <= depth THEN copies[i] ELSE more[i - depth]
  <2>1. /\ s \in Seq(NodeType) /\ Len(s) = Len(copies) + Len(more)
          /\ \A i \in 1..Len(copies) + Len(more) :
                s[i] = IF i <= Len(copies) THEN copies[i] ELSE more[i - Len(copies)]
          BY <1>9, <1>11, ConcatProperties
  <2> HIDE DEF s
  <2> QED BY <1>11, <2>1
<1> HIDE DEF copies, size
<1>14. s \in Seq(NodeType) /\ Len(s) = depth + Len(more) /\ size = Len(h) + Len(s)
       /\ \A i \in 1..Len(s) : KidsIn(s[i], Len(h) + Len(s))
  <2>2. size = Len(h) + Len(s)
        BY <1>3, <1>4, <1>9, <1>13 DEF size
  <2> HIDE DEF s, base
  <2>3. ASSUME NEW i \in 1..Len(s) PROVE KidsIn(s[i], size)
    <3>1. CASE i <= depth
      <4>1. i \in 1..depth /\ s[i] = copies[i]
            BY <1>4, <1>9, <1>13, <3>1
      <4> QED BY <1>11, <4>1
    <3>2. CASE ~(i <= depth)
      <4>1. i - depth \in 1..Len(more) /\ s[i] = more[i - depth]
            BY <1>4, <1>9, <1>13, <3>2
      <4> QED BY <1>9, <4>1
    <3> QED BY <3>1, <3>2
  <2> QED BY <1>13, <2>2, <2>3
<1> DEFINE g == InsertCopy(h, root, zone, box)
<1> HIDE DEF s, g
<1>15. Heap(g) /\ Grew(h, g) /\ Len(g) = Len(h) + Len(s)
       BY <1>12, <1>14, AppendedFact DEF g
<1>16. Len(h) + 1 \in InHeap(g)
       BY <1>3, <1>4, <1>9, <1>14, <1>15 DEF InHeap
<1>17. \A i \in 1..Len(s) : g[Len(h) + i] = s[i]
  <2>1. h \in Seq(NodeType) /\ s \in Seq(NodeType)
        BY <1>14 DEF Heap
  <2>2. /\ Len(h \o s) = Len(h) + Len(s) /\ Len(h) \in Nat /\ Len(s) \in Nat
        /\ \A i \in 1..Len(h) + Len(s) :
              (h \o s)[i] = IF i <= Len(h) THEN h[i] ELSE s[i - Len(h)]
        BY <2>1, ConcatProperties
  <2>3. ASSUME NEW i \in 1..Len(s) PROVE (h \o s)[Len(h) + i] = s[i]
    <3>1. Len(h) + i \in 1..Len(h) + Len(s) /\ ~(Len(h) + i <= Len(h)) /\ (Len(h) + i) - Len(h) = i
          BY <2>2
    <3> QED BY <2>2, <3>1
  <2> QED BY <1>12, <2>3 DEF g
<1>18. \A j \in 1..Len(path) : g[Len(h) + j] = Copied(wide, path, j, last)
  <2>1. depth = Len(path)
        BY DEF depth
  <2>2. \A j \in 1..depth : j \in 1..Len(s) /\ s[j] = copies[j] /\ copies[j] = Copied(wide, path, j, last)
    <3>1. \A j \in 1..depth : j \in 1..Len(s) /\ j <= depth
          BY <1>4, <1>9, <1>14
    <3>2. \A j \in 1..depth : copies[j] = Copied(wide, path, j, last)
          BY DEF copies
    <3> QED BY <1>13, <3>1, <3>2
  <2> QED BY <1>17, <2>1, <2>2
<1>19. \A i \in 1..Len(more) : g[Len(h) + Len(path) + i] = more[i]
  <2>1. ASSUME NEW i \in 1..Len(more) PROVE g[Len(h) + depth + i] = more[i]
    <3>1. /\ depth + i \in 1..Len(s) /\ ~(depth + i <= depth) /\ (depth + i) - depth = i
          /\ Len(h) + (depth + i) = Len(h) + depth + i
          BY <1>3, <1>4, <1>9, <1>14
    <3>2. s[depth + i] = more[i]
          BY <1>13, <3>1
    <3>3. g[Len(h) + (depth + i)] = s[depth + i]
          BY <1>17, <3>1
    <3> QED BY <3>1, <3>2, <3>3
  <2> QED BY <2>1 DEF depth
<1>20. InsertedAs(h, g, root, zone, box, path, wide, holder, last, more)
  <2>1. path = PathOf(h, root, box) /\ wide = [h EXCEPT ![root] = WidenedRoot(h[root], box)]
        BY DEF path, wide
  <2>2. holder = [wide[path[Len(path)]] EXCEPT !.items = Append(@, [zone |-> zone, box |-> box])]
        BY DEF holder, its, at, depth
  <2>3. Len(more) \in Nat /\ Len(g) = Len(h) + Len(path) + Len(more)
        BY <1>3, <1>4, <1>9, <1>14, <1>15 DEF depth
  <2>4. \/ last = holder /\ Len(more) = 0
        \/ /\ IsLeaf(holder) /\ holder.depth < MaxDepth
           /\ last = [holder EXCEPT !.items = TakenBy(holder, 0),
                                    !.kids = [i \in 1..4 |-> Len(h) + Len(path) + i]]
           /\ more = SplitKids(holder) /\ Len(more) = 4
    <3>1. CASE splits
          BY <1>9, <3>1 DEF splits, last, more, base, depth
    <3>2. CASE ~splits
      <4>1. last = holder /\ more = <<>>
            BY <3>2 DEF last, more
      <4>2. Len(<<>>) = 0
            OBVIOUS
      <4> QED BY <4>1, <4>2
    <3> QED BY <3>1, <3>2
  <2> QED BY <1>8, <1>18, <1>19, <2>1, <2>2, <2>3, <2>4 DEF InsertedAs
<1> QED BY <1>15, <1>16, <1>20 DEF g

LEMMA InsertFact ==
    ASSUME NEW h, Heap(h), NEW root \in InHeap(h), NEW zone \in Zones, NEW box \in BoxType
    PROVE  LET g == InsertCopy(h, root, zone, box) IN
           Heap(g) /\ Grew(h, g) /\ Len(h) + 1 \in InHeap(g)
BY InsertParts

LEMMA WithoutFact ==
    ASSUME NEW node \in NodeType, NEW zone, PlaceOf(node, zone) # 0
    PROVE  Without(node, zone) \in NodeType /\ Without(node, zone).kids = node.kids
<1> DEFINE its == node.items
           p == PlaceOf(node, zone)
<1>1. its \in Seq(ItemType) /\ Len(its) \in Nat /\ DOMAIN its = 1..Len(its)
  <2>1. its \in Seq(ItemType)
        BY DEF NodeType
  <2> QED BY <2>1
<1>2. p \in 1..Len(its)
  <2> DEFINE at == {i \in DOMAIN its : its[i].zone = zone}
  <2>1. at \in SUBSET (1..Len(its)) /\ p = Lowest(at)
        BY <1>1 DEF PlaceOf
  <2> HIDE DEF at, its
  <2>2. p \in 0..Len(its)
        BY <1>1, <2>1, LowestFact
  <2> QED BY <1>1, <2>2
<1> DEFINE new == RemoveAt(its, p)
<1>3. Without(node, zone) = [node EXCEPT !.items = new]
      BY DEF Without
<1> HIDE DEF its, p
<1>4. new \in Seq(ItemType)
  <2> DEFINE a == SubSeq(its, 1, p - 1)
             b == SubSeq(its, p + 1, Len(its))
  <2>1. \A i \in 1..(p - 1) : its[i] \in ItemType
        BY <1>1, <1>2
  <2>2. \A i \in (p + 1)..Len(its) : its[i] \in ItemType
        BY <1>1, <1>2
  <2>3. p - 1 \in Int /\ p + 1 \in Int /\ 1 \in Int /\ Len(its) \in Int
        BY <1>1, <1>2
  <2>4. a \in Seq(ItemType)
        BY <2>1, <2>3, SubSeqProperties
  <2>5. b \in Seq(ItemType)
        BY <2>2, <2>3, SubSeqProperties
  <2>6. new = a \o b
        BY DEF RemoveAt
  <2> HIDE DEF a, b, new
  <2> QED BY <2>4, <2>5, <2>6
<1> HIDE DEF new
<1> QED BY <1>3, <1>4 DEF NodeType

(* The nodes a removal appends: a copy of every node on the path of the box *)
(* down to the one that holds the zone, and of that one without it.         *)
RemovedAs(h, g, root, zone, box, way, last) ==
    /\ HolderOf(h, PathOf(h, root, box), zone) \in 1..Len(PathOf(h, root, box))
    /\ way = SubSeq(PathOf(h, root, box), 1, HolderOf(h, PathOf(h, root, box), zone))
    /\ Len(way) = HolderOf(h, PathOf(h, root, box), zone)
    /\ way \in Paths(h) /\ PlaceOf(h[way[Len(way)]], zone) # 0
    /\ last = Without(h[way[Len(way)]], zone) /\ last \in NodeType
    /\ Len(g) = Len(h) + Len(way)
    /\ \A j \in 1..Len(way) : g[Len(h) + j] = Copied(h, way, j, last)

LEMMA RemoveParts ==
    ASSUME NEW h, Heap(h), NEW root \in InHeap(h), NEW zone, NEW box
    PROVE  LET g == RemoveCopy(h, root, zone, box) IN
           /\ Heap(g) /\ Grew(h, g) /\ RootAfter(h, g, root) \in InHeap(g)
           /\ \/ g = h /\ HolderOf(h, PathOf(h, root, box), zone) = 0
              \/ /\ RootAfter(h, g, root) = Len(h) + 1
                 /\ \E way, last : RemovedAs(h, g, root, zone, box, way, last)
<1> DEFINE path == PathOf(h, root, box)
           at   == HolderOf(h, path, zone)
           last == Without(h[path[at]], zone)
           way  == SubSeq(path, 1, at)
           s    == [j \in 1..at |-> Copied(h, way, j, last)]
           g    == RemoveCopy(h, root, zone, box)
<1>1. g = IF at = 0 THEN h ELSE h \o s
      BY DEF RemoveCopy
<1>2. path \in Paths(h) /\ Len(h) \in Nat /\ path \in Seq(InHeap(h))
  <2>1. path \in Paths(h)
        BY PathFact
  <2> HIDE DEF path
  <2> QED BY <2>1 DEF Paths, Heap
<1> HIDE DEF path
<1>3. at \in 0..Len(path) /\ Len(path) \in Nat /\ (at # 0 => PlaceOf(h[path[at]], zone) # 0)
  <2> DEFINE has == {j \in DOMAIN path : PlaceOf(h[path[j]], zone) # 0}
  <2>1. Len(path) \in Nat /\ has \in SUBSET (1..Len(path)) /\ at = Lowest(has)
        BY <1>2 DEF HolderOf
  <2>2. \A j \in has : PlaceOf(h[path[j]], zone) # 0
        OBVIOUS
  <2> HIDE DEF has, at
  <2> QED BY <2>1, <2>2, LowestFact
<1> HIDE DEF at, g
<1>4. CASE at = 0
  <2>1. g = h
        BY <1>1, <1>4
  <2>2. Grew(h, h)
        BY <1>2 DEF Grew
  <2>3. HolderOf(h, PathOf(h, root, box), zone) = 0
        BY <1>4 DEF at, path
  <2> QED BY <2>1, <2>2, <2>3 DEF RootAfter, g
<1>5. CASE at # 0
  <2>1. at \in 1..Len(path) /\ at \in Nat /\ at >= 1
        BY <1>3, <1>5
  <2>2. path[at] \in InHeap(h)
        BY <1>2, <2>1, ElementOfSeq
  <2>3. last \in NodeType /\ last.kids = h[path[at]].kids /\ KidsIn(h[path[at]], Len(h))
        BY <1>3, <1>5, <2>2, NodeFact, WithoutFact
  <2> HIDE DEF last
  <2>4. way \in Paths(h) /\ Len(way) = at
    <3>1. \A i \in 1..at : path[i] \in InHeap(h)
          BY <1>2, <1>3, ElementOfSeq
    <3>2. way \in Seq(InHeap(h)) /\ Len(way) = at
      <4>1. 1 \in Int /\ at \in Int
            BY <2>1
      <4>2. way \in Seq(InHeap(h)) /\ Len(way) = IF 1 <= at THEN at - 1 + 1 ELSE 0
            BY <3>1, <4>1, SubSeqProperties
      <4> HIDE DEF way
      <4> QED BY <2>1, <4>2
    <3> HIDE DEF way
    <3>3. way # <<>>
          BY <2>1, <3>2
    <3> QED BY <3>2, <3>3 DEF Paths
  <2> HIDE DEF way
  <2> DEFINE size == Len(h) + at
  <2>5. size \in Nat /\ KidsIn(last, size)
    <3>1. size \in Nat /\ \A x \in 1..Len(h) : x \in 1..size
          BY <1>2, <2>1
    <3> HIDE DEF size
    <3> QED BY <2>3, <3>1 DEF KidsIn
  <2>6. ASSUME NEW j \in 1..at PROVE s[j] \in NodeType /\ KidsIn(s[j], size)
    <3>1. j \in 1..Len(way) /\ Len(h) + Len(way) <= size
          BY <1>2, <2>1, <2>4
    <3> HIDE DEF size
    <3>2. Copied(h, way, j, last) \in NodeType /\ KidsIn(Copied(h, way, j, last), size)
          BY <2>3, <2>4, <2>5, <3>1, CopiedFact
    <3> QED BY <3>2
  <2>7. s \in Seq(NodeType) /\ Len(s) = at
    <3>1. s \in [1..at -> NodeType]
          BY <2>6
    <3> HIDE DEF s
    <3> QED BY <2>1, <3>1, FunctionIsSeq
  <2> HIDE DEF s
  <2>8. \A i \in 1..Len(s) : KidsIn(s[i], Len(h) + Len(s))
        BY <2>6, <2>7
  <2>9. Heap(g) /\ Grew(h, g) /\ Len(g) = Len(h) + at
        BY <1>1, <1>5, <2>7, <2>8, AppendedFact
  <2>10. RootAfter(h, g, root) = Len(h) + 1
    <3>1. g # h
          BY <1>2, <2>1, <2>9
    <3> QED BY <3>1 DEF RootAfter
  <2>11. Len(h) + 1 \in InHeap(g)
        BY <1>2, <2>1, <2>9 DEF InHeap
  <2>12. \A j \in 1..at : g[Len(h) + j] = s[j]
    <3>1. h \in Seq(NodeType)
          BY DEF Heap
    <3>2. \A i \in 1..Len(h) + Len(s) : (h \o s)[i] = IF i <= Len(h) THEN h[i] ELSE s[i - Len(h)]
          BY <2>7, <3>1, ConcatProperties
    <3>3. ASSUME NEW j \in 1..at PROVE (h \o s)[Len(h) + j] = s[j]
      <4>1. Len(h) + j \in 1..Len(h) + Len(s) /\ ~(Len(h) + j <= Len(h)) /\ (Len(h) + j) - Len(h) = j
            BY <1>2, <2>1, <2>7
      <4> QED BY <3>2, <4>1
    <3>4. g = h \o s
          BY <1>1, <1>5
    <3> QED BY <3>3, <3>4
  <2>13. way[Len(way)] = path[at]
    <3>1. \A i \in 1..at : path[i] \in InHeap(h)
          BY <1>2, <1>3, ElementOfSeq
    <3>2. 1 \in Int /\ at \in Int /\ at \in 1..(at - 1 + 1) /\ 1 + at - 1 = at
          BY <2>1
    <3>3. \A i \in 1..(at - 1 + 1) : way[i] = path[1 + i - 1]
          BY <3>1, <3>2, SubSeqProperties DEF way
    <3>4. way[at] = path[1 + at - 1]
          BY <3>2, <3>3
    <3> QED BY <2>4, <3>2, <3>4
  <2>14. RemovedAs(h, g, root, zone, box, way, last)
    <3>1. at = HolderOf(h, PathOf(h, root, box), zone) /\ path = PathOf(h, root, box)
          BY DEF at, path
    <3>2. way = SubSeq(path, 1, at) /\ last = Without(h[path[at]], zone)
          BY DEF way, last
    <3>3. \A j \in 1..at : g[Len(h) + j] = Copied(h, way, j, last)
          BY <2>12 DEF s
    <3>4. at \in 1..Len(path) /\ PlaceOf(h[way[Len(way)]], zone) # 0 /\ last = Without(h[way[Len(way)]], zone)
          BY <1>3, <1>5, <2>1, <2>13, <3>2
    <3>5. Len(g) = Len(h) + Len(way)
          BY <2>4, <2>9
    <3> HIDE DEF g
    <3> QED BY <2>3, <2>4, <3>1, <3>2, <3>3, <3>4, <3>5 DEF RemovedAs
  <2> QED BY <2>9, <2>10, <2>11, <2>14 DEF g
<1> QED BY <1>4, <1>5

LEMMA RemoveFact ==
    ASSUME NEW h, Heap(h), NEW root \in InHeap(h), NEW zone, NEW box
    PROVE  LET g == RemoveCopy(h, root, zone, box) IN
           Heap(g) /\ Grew(h, g) /\ RootAfter(h, g, root) \in InHeap(g)
BY RemoveParts

-----------------------------------------------------------------------------
(* Every version has a root in the heap and a time; every record was made   *)
(* by a version; the interval tree holds an entry for every record of a     *)
(* zone that was there, and nothing else.                                   *)
Windows == [from : Int, to : Int]
Records == [version : Nat, validity : Windows, present : BOOLEAN]

Slots(z) == 1..Len(history[z])
EntryOf(z, i) == [low  |-> history[z][i].validity.from, high |-> history[z][i].validity.to,
                  zone |-> z, slot |-> i]

VersionsInv ==
    /\ Heap(nodes)
    /\ roots \in Seq(InHeap(nodes)) /\ Len(roots) # 0
    /\ version_times \in Seq(0..Forever) /\ Len(version_times) = Len(roots)

RecordsInv ==
    /\ history \in [Zones -> Seq(Records)]
    /\ \A z \in Zones : \A i \in Slots(z) :
          /\ history[z][i].version <= Len(roots)
          /\ history[z][i].present => history[z][i].validity.to <= Forever

TreeInv ==
    /\ \A e \in validity_tree :
          /\ e.zone \in Zones /\ e.slot \in Slots(e.zone) /\ history[e.zone][e.slot].present
          /\ e = EntryOf(e.zone, e.slot)
    /\ \A z \in Zones : \A i \in Slots(z) : history[z][i].present => EntryOf(z, i) \in validity_tree

IndexInv == VersionsInv /\ RecordsInv /\ TreeInv

(* What an edit leaves as it was: every node, version and record there was; *)
(* what it adds is of the version it makes.                                 *)
Extends ==
    /\ Grew(nodes, nodes')
    /\ Len(roots') = Len(roots) + 1
    /\ \A v \in 1..Len(roots) : roots'[v] = roots[v] /\ version_times'[v] = version_times[v]
    /\ \A z \in Zones :
          /\ Len(history'[z]) >= Len(history[z])
          /\ \A i \in 1..Len(history'[z]) :
                IF i \in Slots(z) THEN history'[z][i] = history[z][i]
                ELSE history'[z][i].version = Len(roots) + 1
    /\ validity_tree \subseteq validity_tree'
    /\ \A e \in validity_tree' \ validity_tree : e.zone \in Zones /\ e.slot \notin Slots(e.zone)

LEMMA VersionFact ==
    ASSUME VersionsInv
    PROVE  /\ Len(roots) \in Nat /\ LastVersion = Len(roots) /\ LastVersion \in 1..Len(roots)
           /\ \A v \in 1..Len(roots) : roots[v] \in InHeap(nodes) /\ version_times[v] \in 0..Forever
           /\ DOMAIN roots = 1..Len(roots) /\ DOMAIN version_times = 1..Len(roots) /\ Len(nodes) \in Nat
<1>1. /\ roots \in Seq(InHeap(nodes)) /\ version_times \in Seq(0..Forever)
      /\ Len(roots) # 0 /\ Len(version_times) = Len(roots) /\ nodes \in Seq(NodeType)
      BY DEF VersionsInv, Heap
<1> HIDE DEF InHeap
<1>2. Len(roots) \in Nat /\ Len(nodes) \in Nat
      BY <1>1
<1>3. DOMAIN roots = 1..Len(roots) /\ DOMAIN version_times = 1..Len(roots)
      BY <1>1
<1>4. \A v \in 1..Len(roots) : roots[v] \in InHeap(nodes) /\ version_times[v] \in 0..Forever
      BY <1>1, ElementOfSeq
<1> QED BY <1>1, <1>2, <1>3, <1>4 DEF LastVersion

LEMMA RecordFact ==
    ASSUME RecordsInv, NEW z \in Zones
    PROVE  /\ history[z] \in Seq(Records) /\ Len(history[z]) \in Nat /\ DOMAIN history[z] = Slots(z)
           /\ \A i \in Slots(z) : /\ history[z][i] \in Records /\ history[z][i].version \in Nat
                                  /\ history[z][i].validity \in Windows
                                  /\ history[z][i].present \in BOOLEAN
<1>1. history[z] \in Seq(Records)
      BY DEF RecordsInv
<1>2. Len(history[z]) \in Nat /\ DOMAIN history[z] = Slots(z)
      BY <1>1 DEF Slots
<1>3. \A i \in Slots(z) : history[z][i] \in Records
      BY <1>1, ElementOfSeq DEF Slots
<1> QED BY <1>1, <1>2, <1>3 DEF Records

LEMMA CommitFact ==
    ASSUME IndexInv, NEW heap, Heap(heap), Grew(nodes, heap), NEW root \in InHeap(heap),
           NEW at \in 0..Forever, NEW z \in Zones, NEW validity \in Windows,
           NEW present \in BOOLEAN, present => validity.to <= Forever, NEW kind,
           Commit(heap, root, at, z, validity, present, kind)
    PROVE  IndexInv' /\ Extends
<1> DEFINE L == Len(roots)
           N == Len(history[z])
           rec == [version |-> L + 1, validity |-> validity, present |-> present]
           entry == [low |-> validity.from, high |-> validity.to, zone |-> z, slot |-> N + 1]
<1>1. /\ L \in Nat /\ LastVersion = L /\ N \in Nat
      /\ roots \in Seq(InHeap(nodes)) /\ version_times \in Seq(0..Forever)
      /\ Len(version_times) = L /\ Len(nodes) \in Nat
      BY VersionFact, RecordFact DEF IndexInv, VersionsInv
<1>2. /\ nodes' = heap /\ roots' = Append(roots, root) /\ version_times' = Append(version_times, at)
      /\ history' = [history EXCEPT ![z] = Append(@, rec)]
      /\ validity_tree' = IF present THEN validity_tree \cup {entry} ELSE validity_tree
      BY <1>1 DEF Commit
<1>3. rec \in Records
      BY <1>1 DEF Records
<1>4. /\ Len(roots') = L + 1
      /\ \A v \in 1..(L + 1) : roots'[v] = IF v <= L THEN roots[v] ELSE root
  <2> HIDE DEF L
  <2> QED BY <1>1, <1>2 DEF L
<1>5. /\ version_times' \in Seq(0..Forever) /\ Len(version_times') = L + 1
      /\ \A v \in 1..L : version_times'[v] = version_times[v]
      BY <1>1, <1>2
<1>6. \A v \in 1..L : roots[v] \in InHeap(heap)
  <2>1. \A v \in 1..L : roots[v] \in InHeap(nodes)
        BY VersionFact DEF IndexInv
  <2> QED BY <1>1, <2>1 DEF Grew, InHeap, Heap
<1>7. roots' \in Seq(InHeap(heap))
  <2>1. ASSUME NEW v \in 1..(L + 1) PROVE roots'[v] \in InHeap(heap)
    <3>1. v <= L => v \in 1..L
          BY <1>1
    <3> QED BY <1>4, <1>6, <3>1
  <2>2. roots' \in [1..(L + 1) -> InHeap(heap)]
    <3>1. roots' = [v \in 1..(L + 1) |-> roots'[v]]
      <4>1. roots' \in Seq(InHeap(nodes) \cup {root})
        <5>1. roots \in Seq(InHeap(nodes) \cup {root})
              BY <1>1, SeqMonotonic
        <5> HIDE DEF InHeap
        <5> QED BY <1>2, <5>1
      <4> QED BY <1>4, <4>1, LenProperties
    <3> HIDE DEF L
    <3> QED BY <2>1, <3>1
  <2>3. L + 1 \in Nat
        BY <1>1
  <2> HIDE DEF L
  <2> QED BY <2>2, <2>3, FunctionIsSeq
<1> DEFINE H(y) == history'[y]
<1>8. history \in [Zones -> Seq(Records)] /\ history' \in [Zones -> Seq(Records)]
  <2>1. history \in [Zones -> Seq(Records)] /\ history[z] \in Seq(Records)
        BY DEF IndexInv, RecordsInv
  <2> HIDE DEF rec
  <2>2. Append(history[z], rec) \in Seq(Records)
        BY <1>3, <2>1
  <2> QED BY <1>2, <2>1, <2>2
<1>9. ASSUME NEW y \in Zones, y # z PROVE history'[y] = history[y]
      BY <1>2, <1>9
<1>10. /\ Len(history'[z]) = N + 1
       /\ \A i \in 1..(N + 1) : history'[z][i] = IF i <= N THEN history[z][i] ELSE rec
  <2>1. history'[z] = Append(history[z], rec) /\ history[z] \in Seq(Records)
        BY <1>2, <1>8
  <2> HIDE DEF rec
  <2> QED BY <1>1, <1>3, <2>1
<1> HIDE DEF rec, L, N
<1>11. VersionsInv'
  <2>1. L + 1 # 0
        BY <1>1
  <2> QED BY <1>2, <1>4, <1>5, <1>7, <2>1 DEF VersionsInv
<1>12. RecordsInv'
  <2>1. ASSUME NEW y \in Zones, NEW i \in 1..Len(history'[y])
        PROVE  /\ history'[y][i].version <= L + 1
               /\ history'[y][i].present => history'[y][i].validity.to <= Forever
    <3>1. ASSUME i \in Slots(y), history'[y][i] = history[y][i]
          PROVE  /\ history'[y][i].version <= L + 1
                 /\ history'[y][i].present => history'[y][i].validity.to <= Forever
      <4>1. history[y][i].version \in Nat /\ history[y][i].version <= L
            BY <3>1, RecordFact DEF IndexInv, RecordsInv, L
      <4>2. history[y][i].present => history[y][i].validity.to <= Forever
            BY <3>1 DEF IndexInv, RecordsInv
      <4>3. history[y][i].version <= L + 1
            BY <1>1, <4>1
      <4> QED BY <3>1, <4>2, <4>3
    <3>2. CASE y # z
      <4>1. history'[y] = history[y]
            BY <1>9, <3>2
      <4> QED BY <3>1, <4>1 DEF Slots
    <3>3. CASE y = z /\ i <= N
          BY <1>1, <1>10, <3>1, <3>3 DEF Slots, N
    <3>4. CASE y = z /\ ~(i <= N)
      <4>1. history'[y][i] = rec
            BY <1>10, <3>4
      <4>2. L + 1 <= L + 1
            BY <1>1
      <4> QED BY <4>1, <4>2 DEF rec
    <3> QED BY <3>2, <3>3, <3>4
  <2> QED BY <1>4, <1>8, <2>1 DEF RecordsInv, Slots
<1>13. \A y \in Zones : \A i \in Slots(y) :
          /\ i \in Slots(y)' /\ history'[y][i] = history[y][i] /\ EntryOf(y, i)' = EntryOf(y, i)
  <2> SUFFICES ASSUME NEW y \in Zones, NEW i \in Slots(y)
               PROVE  i \in 1..Len(history'[y]) /\ history'[y][i] = history[y][i]
      BY DEF Slots, EntryOf
  <2>1. CASE y # z
        BY <1>9, <2>1 DEF Slots
  <2>2. CASE y = z
    <3>1. i \in 1..N /\ i \in 1..(N + 1) /\ i <= N
          BY <1>1, <2>2 DEF Slots, N
    <3> QED BY <1>10, <2>2, <3>1
  <2> QED BY <2>1, <2>2
<1>14. PICK m : m = N + 1
       OBVIOUS
<1>15. m \in Slots(z)' /\ m \notin Slots(z) /\ history'[z][m] = rec /\ EntryOf(z, m)' = entry
  <2>1. m \in 1..(N + 1) /\ ~(m <= N) /\ m \notin 1..N
        BY <1>1, <1>14
  <2>2. history'[z][m] = rec
        BY <1>10, <2>1
  <2>3. m \in Slots(z)' /\ m \notin Slots(z)
        BY <1>10, <2>1 DEF Slots, N
  <2>4. rec.validity = validity
        BY DEF rec
  <2>5. EntryOf(z, m)' = entry
        BY <1>14, <2>2, <2>4 DEF EntryOf
  <2> QED BY <2>2, <2>3, <2>5
<1>16. TreeInv'
  <2>1. ASSUME NEW e \in validity_tree'
        PROVE  /\ e.zone \in Zones /\ e.slot \in Slots(e.zone)' /\ history'[e.zone][e.slot].present
               /\ e = EntryOf(e.zone, e.slot)'
    <3>1. CASE e \in validity_tree
      <4>1. /\ e.zone \in Zones /\ e.slot \in Slots(e.zone) /\ history[e.zone][e.slot].present
            /\ e = EntryOf(e.zone, e.slot)
            BY <3>1 DEF IndexInv, TreeInv
      <4> QED BY <1>13, <4>1
    <3>2. CASE e \notin validity_tree
      <4>1. e = entry /\ present
            BY <1>2, <3>2
      <4>2. entry.zone = z /\ entry.slot = N + 1
            OBVIOUS
      <4>3. rec.present = present
            BY DEF rec
      <4> HIDE DEF entry
      <4>4. e.zone = z /\ e.slot = m
            BY <1>14, <4>1, <4>2
      <4>5. EntryOf(e.zone, e.slot)' = EntryOf(z, m)' /\ Slots(e.zone)' = Slots(z)'
            BY <4>4 DEF EntryOf, Slots
      <4> QED BY <1>15, <4>1, <4>3, <4>4, <4>5
    <3> QED BY <3>1, <3>2
  <2>2. ASSUME NEW y \in Zones, NEW i \in Slots(y)', history'[y][i].present
        PROVE  EntryOf(y, i)' \in validity_tree'
    <3>1. CASE i \in Slots(y)
      <4>1. history[y][i].present => EntryOf(y, i) \in validity_tree
            BY <3>1 DEF IndexInv, TreeInv
      <4> QED BY <1>2, <1>13, <2>2, <3>1, <4>1
    <3>2. CASE i \notin Slots(y)
      <4>1. y = z
            BY <1>9, <3>2 DEF Slots
      <4>2. i = m
            BY <1>1, <1>10, <1>14, <3>2, <4>1 DEF Slots, N
      <4>3. rec.present = present
            BY DEF rec
      <4>4. history'[z][m] = rec
            BY <1>15
      <4>5. present
            BY <2>2, <4>1, <4>2, <4>3, <4>4
      <4>6. EntryOf(y, i)' = EntryOf(z, m)'
            BY <4>1, <4>2 DEF EntryOf
      <4>7. EntryOf(y, i)' = entry
            BY <1>15, <4>6
      <4> HIDE DEF entry
      <4> QED BY <1>2, <4>5, <4>7
    <3> QED BY <3>1, <3>2
  <2> QED BY <2>1, <2>2 DEF TreeInv
<1>17. Extends
  <2>1. \A v \in 1..L : roots'[v] = roots[v]
        BY <1>1, <1>4
  <2>2. ASSUME NEW y \in Zones
        PROVE  /\ Len(history'[y]) >= Len(history[y])
               /\ \A i \in 1..Len(history'[y]) :
                     IF i \in Slots(y) THEN history'[y][i] = history[y][i]
                     ELSE history'[y][i].version = L + 1
    <3>1. Len(history[y]) \in Nat /\ Len(history[y]) >= Len(history[y])
          BY RecordFact DEF IndexInv
    <3>2. CASE y # z
          BY <1>9, <3>1, <3>2 DEF Slots
    <3>3. CASE y = z
      <4>1. N + 1 >= N
            BY <1>1
      <4>2. ASSUME NEW i \in 1..(N + 1), i \notin Slots(z) PROVE i = m
            BY <1>1, <1>14, <4>2 DEF Slots, N
      <4>3. rec.version = L + 1
            BY DEF rec
      <4>4. \A i \in 1..(N + 1) : IF i \in Slots(z) THEN history'[z][i] = history[z][i]
                                  ELSE history'[z][i].version = L + 1
            BY <1>10, <1>13, <1>15, <4>2, <4>3
      <4> QED BY <1>10, <3>3, <4>1, <4>4 DEF N
    <3> QED BY <3>2, <3>3
  <2>3. \A e \in validity_tree' \ validity_tree : e = entry
        BY <1>2
  <2>4. entry.zone = z /\ entry.slot = N + 1
        OBVIOUS
  <2>5. \A e \in validity_tree' \ validity_tree : e.zone \in Zones /\ e.slot \notin Slots(e.zone)
    <3> HIDE DEF entry
    <3> QED BY <1>14, <1>15, <2>3, <2>4
  <2>6. validity_tree \subseteq validity_tree'
        BY <1>2
  <2> QED BY <1>2, <1>4, <1>5, <2>1, <2>2, <2>5, <2>6 DEF Extends, L
<1> QED BY <1>11, <1>12, <1>16, <1>17 DEF IndexInv

LEMMA InitFact == Init => IndexInv
<1> SUFFICES ASSUME Init PROVE IndexInv
    OBVIOUS
<1> DEFINE node == EmptyNode(World, 0)
<1>1. node \in NodeType /\ node.kids = <<>>
      BY BoxesAssumption DEF EmptyNode, NodeType, BoxType
<1>2. nodes = <<node>> /\ roots = <<1>> /\ version_times = <<0>>
      BY DEF Init
<1> HIDE DEF node
<1>3. nodes \in Seq(NodeType) /\ Len(nodes) = 1 /\ nodes[1] = node
      BY <1>1, <1>2
<1>4. Heap(nodes)
  <2>1. KidsIn(node, 1)
        BY <1>1 DEF KidsIn
  <2>2. \A n \in 1..1 : n = 1
        OBVIOUS
  <2> QED BY <1>3, <2>1, <2>2 DEF Heap, InHeap
<1>5. VersionsInv
  <2>1. 1 \in InHeap(nodes) /\ 0 \in 0..Forever
        BY <1>3, TimesAssumption DEF InHeap
  <2> HIDE DEF InHeap
  <2>2. roots \in Seq(InHeap(nodes)) /\ Len(roots) = 1
        BY <1>2, <2>1
  <2>3. version_times \in Seq(0..Forever) /\ Len(version_times) = 1
        BY <1>2, <2>1
  <2> QED BY <1>4, <2>2, <2>3 DEF VersionsInv
<1>6. \A z \in Zones : history[z] = <<>> /\ Slots(z) = {}
      BY DEF Init, Slots
<1>7. RecordsInv /\ TreeInv
  <2>1. history \in [Zones -> Seq(Records)] /\ validity_tree = {}
        BY DEF Init
  <2> QED BY <1>6, <2>1 DEF RecordsInv, TreeInv
<1> QED BY <1>5, <1>7 DEF IndexInv

LEMMA GrewTwice ==
    ASSUME NEW f, NEW g, NEW h, Heap(f), Heap(g), Heap(h), Grew(f, g), Grew(g, h)
    PROVE  Grew(f, h)
<1>1. Len(f) \in Nat /\ Len(g) \in Nat /\ Len(h) \in Nat
      BY DEF Heap
<1> QED BY <1>1 DEF Grew, InHeap

LEMMA StepFact ==
    ASSUME IndexInv, Next
    PROVE  IndexInv' /\ Extends
<1>1. PICK z \in Zones, at \in Times :
         \/ \E box \in ZoneBoxes, v \in Validities : AddZone(z, box, v, at)
         \/ RemoveZone(z, at)
         \/ \E v \in Validities : UpdateValidity(z, v, at)
      BY DEF Next
<1>2. PICK root, when : root = roots[LastVersion] /\ when = Monotone(at)
      OBVIOUS
<1>3. Heap(nodes) /\ root \in InHeap(nodes) /\ when \in 0..Forever
  <2>1. version_times[LastVersion] \in 0..Forever /\ at \in 0..Forever
        BY VersionFact, TimesAssumption DEF IndexInv
  <2>2. when \in 0..Forever
        BY <1>2, <2>1 DEF Monotone, Greater
  <2> QED BY <1>2, <2>2, VersionFact DEF IndexInv, VersionsInv
<1>4. \A v \in Validities : v \in Windows /\ v.to <= Forever
      BY TimesAssumption DEF Windows
<1>5. Grew(nodes, nodes)
      BY <1>3 DEF Grew, Heap
<1>6. CASE \E box \in ZoneBoxes, v \in Validities : AddZone(z, box, v, at)
  <2>1. PICK box \in ZoneBoxes, v \in Validities : AddZone(z, box, v, at)
        BY <1>6
  <2>2. PICK cleared, base : cleared = CleanBase(z) /\ base = RootAfter(nodes, cleared, root)
        OBVIOUS
  <2>3. Heap(cleared) /\ Grew(nodes, cleared) /\ base \in InHeap(cleared)
    <3>1. CASE ContainsZone(z)
      <4>1. cleared = RemoveCopy(nodes, root, z, live_box[z])
            BY <1>2, <2>2, <3>1 DEF CleanBase
      <4> QED BY <1>3, <2>2, <4>1, RemoveFact
    <3>2. CASE ~ContainsZone(z)
      <4>1. cleared = nodes /\ base = root
            BY <2>2, <3>2 DEF CleanBase, RootAfter
      <4> QED BY <1>3, <1>5, <4>1
    <3> QED BY <3>1, <3>2
  <2>4. PICK heap, new, kind :
           /\ heap = InsertCopy(cleared, base, z, box) /\ new = Len(cleared) + 1
           /\ kind = IF ContainsZone(z) THEN "Replaced" ELSE "Added"
        OBVIOUS
  <2>5. box \in BoxType
        BY BoxesAssumption DEF BoxType
  <2>6. Heap(heap) /\ Grew(cleared, heap) /\ new \in InHeap(heap)
        BY <2>3, <2>4, <2>5, InsertFact
  <2>7. Grew(nodes, heap)
        BY <1>3, <2>3, <2>6, GrewTwice
  <2>8. Commit(heap, new, when, z, v, TRUE, kind)
        BY <1>2, <2>1, <2>2, <2>4 DEF AddZone
  <2> QED BY <1>3, <1>4, <2>6, <2>7, <2>8, CommitFact
<1>7. CASE RemoveZone(z, at)
  <2>1. PICK heap, new : heap = RemoveCopy(nodes, root, z, live_box[z]) /\ new = RootAfter(nodes, heap, root)
        OBVIOUS
  <2>2. Heap(heap) /\ Grew(nodes, heap) /\ new \in InHeap(heap)
        BY <1>3, <2>1, RemoveFact
  <2>3. PICK always : always = [from |-> 0, to |-> Forever]
        OBVIOUS
  <2>4. always \in Windows
        BY <2>3, TimesAssumption DEF Windows
  <2>5. Commit(heap, new, when, z, always, FALSE, "Removed")
        BY <1>2, <1>7, <2>1, <2>3 DEF RemoveZone
  <2> QED BY <1>3, <2>2, <2>4, <2>5, CommitFact
<1>8. CASE \E v \in Validities : UpdateValidity(z, v, at)
  <2>1. PICK v \in Validities : UpdateValidity(z, v, at)
        BY <1>8
  <2>2. PICK heap : heap = nodes
        OBVIOUS
  <2>3. Commit(heap, root, when, z, v, TRUE, "ValidityChanged")
        BY <1>2, <2>1, <2>2 DEF UpdateValidity
  <2> QED BY <1>3, <1>4, <1>5, <2>2, <2>3, CommitFact
<1> QED BY <1>1, <1>6, <1>7, <1>8

LEMMA IndexInvariant == Spec => []IndexInv
<1>1. Init => IndexInv
      BY InitFact
<1>2. IndexInv /\ [Next]_vars => IndexInv'
  <2> SUFFICES ASSUME IndexInv, [Next]_vars PROVE IndexInv'
      OBVIOUS
  <2>1. CASE Next
        BY <2>1, StepFact
  <2>2. CASE UNCHANGED vars
        BY <2>2 DEF vars, IndexInv, VersionsInv, RecordsInv, TreeInv, Slots, EntryOf
  <2> QED BY <2>1, <2>2
<1> QED BY <1>1, <1>2, PTL DEF Spec

-----------------------------------------------------------------------------
(* The record a version reads for a zone is one that some version up to it  *)
(* made.                                                                    *)
LEMMA SlotFact ==
    ASSUME RecordsInv, NEW z \in Zones, NEW v
    PROVE  /\ SlotAsOf(z, v) \in 0..Len(history[z])
           /\ SlotAsOf(z, v) # 0 =>
                 SlotAsOf(z, v) \in Slots(z) /\ history[z][SlotAsOf(z, v)].version <= v
<1> DEFINE made == {i \in DOMAIN history[z] : history[z][i].version <= v}
<1>1. Len(history[z]) \in Nat /\ DOMAIN history[z] = Slots(z) /\ made \in SUBSET (1..Len(history[z]))
      BY RecordFact DEF Slots
<1>2. \A i \in made : i \in Slots(z) /\ history[z][i].version <= v
      BY <1>1
<1> HIDE DEF made
<1>3. Highest(made) \in 0..Len(history[z]) /\ (Highest(made) # 0 => Highest(made) \in made)
      BY <1>1, HighestFact
<1> QED BY <1>2, <1>3 DEF SlotAsOf, made

LEMMA EntryFact ==
    ASSUME IndexInv, NEW z \in Zones, NEW i \in Slots(z)
    PROVE  /\ EntryOf(z, i).zone = z /\ EntryOf(z, i).slot = i
           /\ EntryOf(z, i).low = history[z][i].validity.from /\ EntryOf(z, i).low \in Int
           /\ EntryOf(z, i).high = history[z][i].validity.to /\ EntryOf(z, i).high \in Int
<1>1. history[z][i].validity \in Windows
      BY RecordFact DEF IndexInv
<1>2. history[z][i].validity.from \in Int /\ history[z][i].validity.to \in Int
      BY <1>1 DEF Windows
<1> QED BY <1>2 DEF EntryOf

LEMMA ForceFact == IndexInv => ForceIsFound
<1> SUFFICES ASSUME IndexInv, NEW t \in Times \cup {Forever}
             PROVE  \E v \in {VersionAt(t)} :
                       /\ {e.zone : e \in ActiveZones(t)}
                             = {z \in Zones : PresentAsOf(z, v) /\ ActiveAt(ValidityAsOf(z, v), t)}
                       /\ \A e, f \in ActiveZones(t) : e.zone = f.zone => e = f
    BY DEF ForceIsFound
<1>1. PICK v : v = VersionAt(t)
      OBVIOUS
<1>2. t \in Nat /\ Forever \in Nat
      BY TimesAssumption
<1>3. \A e : e \in ActiveZones(t) <=>
                e \in Stabbing(t) /\ PresentAsOf(e.zone, v) /\ SlotAsOf(e.zone, v) = e.slot
      BY <1>1 DEF ActiveZones, Stabbing
<1>4. \A e \in Stabbing(t) : e \in validity_tree /\ t # Forever /\ e.low < t + 1 /\ t < e.high
      BY DEF Stabbing
<1>5. \A e \in validity_tree :
         e.zone \in Zones /\ e.slot \in Slots(e.zone) /\ e = EntryOf(e.zone, e.slot)
      BY DEF IndexInv, TreeInv
<1>6. ASSUME NEW e \in ActiveZones(t)
      PROVE  e.zone \in Zones /\ PresentAsOf(e.zone, v) /\ ActiveAt(ValidityAsOf(e.zone, v), t)
  <2>1. /\ e \in validity_tree /\ t # Forever /\ e.low < t + 1 /\ t < e.high
        /\ PresentAsOf(e.zone, v) /\ SlotAsOf(e.zone, v) = e.slot
        BY <1>3, <1>4
  <2>2. e.zone \in Zones /\ e.slot \in Slots(e.zone) /\ e = EntryOf(e.zone, e.slot)
        BY <1>5, <2>1
  <2>3. /\ e.low = history[e.zone][e.slot].validity.from /\ e.low \in Int
        /\ e.high = history[e.zone][e.slot].validity.to
        BY <2>2, EntryFact
  <2>4. e.low <= t
        BY <1>2, <2>1, <2>3
  <2> QED BY <2>1, <2>2, <2>3, <2>4 DEF ValidityAsOf, ActiveAt
<1>7. ASSUME NEW z \in Zones, PresentAsOf(z, v), ActiveAt(ValidityAsOf(z, v), t)
      PROVE  \E e \in ActiveZones(t) : e.zone = z
  <2>1. PICK i : i = SlotAsOf(z, v)
        OBVIOUS
  <2>2. i \in Slots(z) /\ history[z][i].present
        BY <1>7, <2>1, SlotFact DEF PresentAsOf, IndexInv
  <2>3. PICK e : e = EntryOf(z, i)
        OBVIOUS
  <2>4. e \in validity_tree /\ e.zone = z /\ e.slot = i
        BY <2>2, <2>3, EntryFact DEF IndexInv, TreeInv
  <2>5. history[z][i].validity.to <= Forever
        BY <2>2 DEF IndexInv, RecordsInv
  <2>6. /\ e.low = history[z][i].validity.from /\ e.low \in Int
        /\ e.high = history[z][i].validity.to /\ e.high \in Int
        BY <2>2, <2>3, EntryFact
  <2>7. e.low <= t /\ t < e.high
        BY <1>7, <2>1, <2>6 DEF ActiveAt, ValidityAsOf
  <2>8. t # Forever /\ e.low < t + 1
        BY <1>2, <2>5, <2>6, <2>7
  <2>9. e \in Stabbing(t)
        BY <2>4, <2>7, <2>8 DEF Stabbing
  <2> QED BY <1>3, <1>7, <2>1, <2>4, <2>9
<1>8. ASSUME NEW e \in ActiveZones(t), NEW f \in ActiveZones(t), e.zone = f.zone PROVE e = f
  <2>1. e = EntryOf(e.zone, e.slot) /\ f = EntryOf(f.zone, f.slot) /\ e.slot = f.slot
        BY <1>3, <1>4, <1>5, <1>8
  <2> QED BY <1>8, <2>1 DEF EntryOf
<1> QED BY <1>1, <1>6, <1>7, <1>8

(* Asked for the zones in force at an instant (active_at), the interval     *)
(* tree, which every edit fills and none empties, and the records, which    *)
(* know of versions, agree, for any zones, windows and late edits.          *)
THEOREM ForceIsAlwaysFound == Spec => []ForceIsFound
BY IndexInvariant, ForceFact, PTL

-----------------------------------------------------------------------------
(* What an edit dated later leaves alone: the version of an instant, the    *)
(* records it reads, and the nodes of its tree.                             *)
LEMMA IterationFound ==
    ASSUME NEW S, NEW x \in S, NEW n \in Nat, NEW f, NEW g \in [0..n -> S], Iterates(g, x, f, n),
           NEW c, c[0] = x, \A d \in 1..n : c[d - 1] \in S => c[d] = f[<<d, c[d - 1]>>]
    PROVE  c[n] = g[n] /\ c[n] \in S
<1> DEFINE T == {m \in Nat : m <= n => c[m] = g[m]}
<1>1. 0 \in T
  <2>1. 0 \in 0..n
        OBVIOUS
  <2>2. g[0] = x
        BY <2>1 DEF Iterates
  <2> QED BY <2>2
<1>2. ASSUME NEW m \in Nat, m \in T PROVE m + 1 \in T
  <2> SUFFICES ASSUME m + 1 <= n PROVE c[m + 1] = g[m + 1]
      OBVIOUS
  <2>1. c[m] = g[m] /\ m \in 0..n /\ m + 1 \in 1..n /\ m + 1 \in 0..n /\ m + 1 # 0 /\ (m + 1) - 1 = m
        BY <1>2
  <2>2. g[m + 1] = f[<<m + 1, g[m]>>]
        BY <2>1 DEF Iterates
  <2>3. c[m] \in S
        BY <2>1
  <2>4. c[m + 1] = f[<<m + 1, c[m]>>]
        BY <2>1, <2>3
  <2> HIDE DEF T
  <2> QED BY <2>1, <2>2, <2>4
<1>3. Nat \subseteq T
  <2> HIDE DEF T
  <2> QED BY <1>1, <1>2, StepByStep
<1>4. c[n] = g[n] /\ n \in 0..n
      BY <1>3
<1> QED BY <1>4

LEMMA VersionStands ==
    ASSUME IndexInv, IndexInv', Extends, NEW t \in Times, t < version_times'[LastVersion']
    PROVE  VersionAt(t)' = VersionAt(t) /\ VersionAt(t) \in 1..Len(roots)
<1> DEFINE L == Len(roots)
           made == {v \in Versions : version_times[v] <= t}
           made2 == {v \in DOMAIN roots' : version_times'[v] <= t}
<1>1. L \in Nat /\ L >= 1 /\ DOMAIN roots = 1..L /\ roots' \in Seq(InHeap(nodes)')
  <2>1. L \in Nat /\ L # 0 /\ DOMAIN roots = 1..L
        BY VersionFact DEF IndexInv, VersionsInv
  <2> HIDE DEF L
  <2> QED BY <2>1 DEF IndexInv, VersionsInv
<1>2. Len(roots') = L + 1 /\ \A v \in 1..L : version_times'[v] = version_times[v]
      BY DEF Extends
<1>3. DOMAIN roots' = 1..(L + 1) /\ LastVersion' = L + 1
      BY <1>1, <1>2 DEF LastVersion
<1>4. t \in Nat /\ version_times'[L + 1] \in Int
  <2>1. version_times' \in Seq(0..Forever) /\ Len(version_times') = Len(roots')
        BY DEF IndexInv, VersionsInv
  <2>2. L + 1 \in 1..Len(version_times')
        BY <1>1, <1>2, <2>1
  <2>3. version_times'[L + 1] \in 0..Forever
        BY <2>1, <2>2, ElementOfSeq
  <2> QED BY <2>3, TimesAssumption
<1>5. made2 = made
  <2>1. \A v \in 1..(L + 1) : v \in 1..L \/ v = L + 1
        BY <1>1
  <2>2. \A v \in 1..L : v \in 1..(L + 1)
        BY <1>1
  <2>3. ~(version_times'[L + 1] <= t)
        BY <1>3, <1>4
  <2> HIDE DEF L
  <2> QED BY <1>1, <1>2, <1>3, <2>1, <2>2, <2>3 DEF Versions
<1>6. VersionAt(t) = Greater(1, Highest(made)) /\ VersionAt(t)' = Greater(1, Highest(made2))
      BY DEF VersionAt, Versions
<1>7. made \in SUBSET (1..L)
      BY <1>1 DEF Versions
<1> HIDE DEF made, made2
<1>8. Highest(made) \in 0..L
      BY <1>1, <1>7, HighestFact
<1> HIDE DEF L
<1>9. Greater(1, Highest(made)) \in 1..L
      BY <1>1, <1>8 DEF Greater
<1> QED BY <1>5, <1>6, <1>9 DEF L

LEMMA SlotStands ==
    ASSUME IndexInv, IndexInv', Extends, NEW z \in Zones, NEW v \in 1..Len(roots)
    PROVE  /\ SlotAsOf(z, v)' = SlotAsOf(z, v)
           /\ PresentAsOf(z, v)' = PresentAsOf(z, v)
           /\ PresentAsOf(z, v) =>
                 SlotAsOf(z, v) \in Slots(z) /\ ValidityAsOf(z, v)' = ValidityAsOf(z, v)
<1> DEFINE made == {i \in DOMAIN history[z] : history[z][i].version <= v}
           made2 == {i \in DOMAIN history'[z] : history'[z][i].version <= v}
<1>1. /\ DOMAIN history[z] = Slots(z) /\ Len(history[z]) \in Nat
      /\ DOMAIN history'[z] = 1..Len(history'[z]) /\ Len(history'[z]) \in Nat
  <2>1. history'[z] \in Seq(Records)
        BY DEF IndexInv, RecordsInv
  <2> QED BY <2>1, RecordFact DEF IndexInv
<1>2. /\ Len(history'[z]) >= Len(history[z])
      /\ \A i \in 1..Len(history'[z]) : IF i \in Slots(z) THEN history'[z][i] = history[z][i]
                                        ELSE history'[z][i].version = Len(roots) + 1
      BY DEF Extends
<1>3. \A i \in Slots(z) : i \in 1..Len(history'[z])
      BY <1>1, <1>2 DEF Slots
<1>4. made2 = made
  <2>1. ~(Len(roots) + 1 <= v)
        BY VersionFact DEF IndexInv
  <2> QED BY <1>1, <1>2, <1>3, <2>1
<1>5. SlotAsOf(z, v)' = SlotAsOf(z, v)
      BY <1>4 DEF SlotAsOf
<1>6. SlotAsOf(z, v) # 0 => SlotAsOf(z, v) \in Slots(z)
      BY SlotFact DEF IndexInv
<1>7. PICK i : i = SlotAsOf(z, v)
      OBVIOUS
<1>8. i # 0 => i \in Slots(z) /\ history'[z][i] = history[z][i]
      BY <1>2, <1>3, <1>6, <1>7
<1>9. /\ PresentAsOf(z, v) <=> i # 0 /\ history[z][i].present
      /\ PresentAsOf(z, v)' <=> i # 0 /\ history'[z][i].present
      BY <1>5, <1>7 DEF PresentAsOf
<1>10. ValidityAsOf(z, v) = history[z][i].validity /\ ValidityAsOf(z, v)' = history'[z][i].validity
      BY <1>5, <1>7 DEF ValidityAsOf
<1>11. PresentAsOf(z, v)' <=> PresentAsOf(z, v)
      BY <1>8, <1>9
<1>12. PresentAsOf(z, v)' = PresentAsOf(z, v)
      BY <1>11 DEF PresentAsOf
<1> QED BY <1>5, <1>7, <1>8, <1>9, <1>10, <1>12

LEMMA KidsStand ==
    ASSUME NEW h, NEW k, Heap(h), Grew(h, k), NEW some \in SUBSET InHeap(h)
    PROVE  Kids(k, some) = Kids(h, some) /\ Kids(h, some) \in SUBSET InHeap(h)
<1>1. \A n \in some : k[n] = h[n]
      BY DEF Grew
<1>2. Kids(k, some) = Kids(h, some)
      BY <1>1 DEF Kids
<1>3. ASSUME NEW n \in some PROVE ToSet(h[n].kids) \subseteq InHeap(h)
  <2>1. DOMAIN h[n].kids = 1..Len(h[n].kids) /\ KidsIn(h[n], Len(h))
        BY NodeFact
  <2> QED BY <2>1 DEF KidsIn, InHeap, ToSet
<1>4. Kids(h, some) \in SUBSET InHeap(h)
  <2> HIDE DEF InHeap
  <2> QED BY <1>3 DEF Kids
<1> QED BY <1>2, <1>4

(* The nodes of a version, stage by stage, are the same in a heap that grew. *)
LEMMA NodesSolved ==
    ASSUME NEW h, NEW k, Heap(h), Grew(h, k), NEW root \in InHeap(h)
    PROVE  \E c : /\ \A d \in 0..MaxDepth : c[d] \in SUBSET InHeap(h)
                  /\ c[0] = {root}
                  /\ \A d \in 1..MaxDepth : c[d] = c[d - 1] \cup Kids(h, c[d - 1])
                  /\ NodesOf(h, root) = c[MaxDepth] /\ NodesOf(k, root) = c[MaxDepth]
<1> DEFINE S == SUBSET InHeap(h)
           f == [x \in (1..MaxDepth) \X S |-> x[2] \cup Kids(h, x[2])]
           Solves(m, c) == c = [d \in 0..MaxDepth |->
                                   IF d = 0 THEN {root} ELSE c[d - 1] \cup Kids(m, c[d - 1])]
           ofH == CHOOSE c : Solves(h, c)
           ofK == CHOOSE c : Solves(k, c)
<1>1. \A s \in S : Kids(h, s) \in S /\ Kids(k, s) = Kids(h, s)
      BY KidsStand
<1>2. f \in [(1..MaxDepth) \X S -> S] /\ {root} \in S /\ MaxDepth \in Nat
      BY <1>1, MaxDepthAssumption
<1>a. PICK first : first = {root}
      OBVIOUS
<1>3. PICK g \in [0..MaxDepth -> S] : Iterates(g, first, f, MaxDepth)
  <2> HIDE DEF f, S
  <2> QED BY <1>2, <1>a, IterationExists
<1>4. ASSUME NEW d \in 1..MaxDepth, NEW s \in S
      PROVE  /\ f[<<d, s>>] = s \cup Kids(h, s) /\ f[<<d, s>>] = s \cup Kids(k, s)
             /\ d \in 0..MaxDepth /\ d - 1 \in 0..MaxDepth /\ d # 0
  <2>1. f[<<d, s>>] = s \cup Kids(h, s)
        OBVIOUS
  <2> HIDE DEF f
  <2>2. d \in 0..MaxDepth /\ d - 1 \in 0..MaxDepth /\ d # 0
        BY <1>2
  <2> QED BY <1>1, <2>1, <2>2
<1> HIDE DEF f, S
<1>5. ASSUME NEW m \in {h, k} PROVE Solves(m, g)
  <2>1. ASSUME NEW d \in 0..MaxDepth
        PROVE  g[d] = IF d = 0 THEN {root} ELSE g[d - 1] \cup Kids(m, g[d - 1])
    <3>1. CASE d = 0
          BY <1>3, <1>a, <3>1 DEF Iterates
    <3>2. CASE d # 0
      <4>1. d \in 1..MaxDepth /\ d - 1 \in 0..MaxDepth
            BY <1>2, <3>2
      <4>2. g[d - 1] \in S
            BY <1>3, <4>1
      <4>3. g[d] = f[<<d, g[d - 1]>>]
            BY <1>3, <3>2 DEF Iterates
      <4> QED BY <1>4, <3>2, <4>1, <4>2, <4>3
    <3> QED BY <3>1, <3>2
  <2> QED BY <1>3, <2>1
<1>6. NodesOf(h, root) = ofH[MaxDepth] /\ NodesOf(k, root) = ofK[MaxDepth]
      BY DEF NodesOf
<1>7. Solves(h, ofH) /\ Solves(k, ofK)
  <2>1. (\E c : Solves(h, c)) /\ (\E c : Solves(k, c))
        BY <1>5
  <2> HIDE DEF Solves
  <2> QED BY <2>1
<1> HIDE DEF ofH, ofK
<1>8. ASSUME NEW m \in {h, k}, NEW c, Solves(m, c)
      PROVE  c[MaxDepth] = g[MaxDepth] /\ c[MaxDepth] \in S
  <2>1. c[0] = first
    <3>1. 0 \in 0..MaxDepth
          BY <1>2
    <3> QED BY <1>8, <1>a, <3>1
  <2>2. ASSUME NEW d \in 1..MaxDepth, c[d - 1] \in S PROVE c[d] = f[<<d, c[d - 1]>>]
    <3>1. d \in 0..MaxDepth /\ d # 0
          BY <1>2
    <3>2. c[d] = c[d - 1] \cup Kids(m, c[d - 1])
          BY <1>8, <3>1
    <3> QED BY <1>4, <2>2, <3>2
  <2> HIDE DEF Solves
  <2>3. first \in S
        BY <1>2, <1>a
  <2> QED BY <1>2, <1>3, <2>1, <2>2, <2>3, IterationFound
<1> HIDE DEF Solves
<1>9. ofH[MaxDepth] = g[MaxDepth] /\ ofH[MaxDepth] \in S /\ ofK[MaxDepth] = g[MaxDepth]
      BY <1>7, <1>8
<1>10. \A d \in 0..MaxDepth : g[d] \in S
       BY <1>3
<1>11. g[0] = {root} /\ \A d \in 1..MaxDepth : g[d] = g[d - 1] \cup Kids(h, g[d - 1])
  <2>1. 0 \in 0..MaxDepth /\ \A d \in 1..MaxDepth : d \in 0..MaxDepth /\ d # 0
        BY <1>2
  <2>2. Solves(h, g)
        BY <1>5
  <2> QED BY <2>1, <2>2 DEF Solves
<1> QED BY <1>6, <1>9, <1>10, <1>11 DEF S

LEMMA NodesStand ==
    ASSUME NEW h, NEW k, Heap(h), Grew(h, k), NEW root \in InHeap(h)
    PROVE  NodesOf(k, root) = NodesOf(h, root) /\ NodesOf(h, root) \in SUBSET InHeap(h)
<1>1. PICK c : /\ \A d \in 0..MaxDepth : c[d] \in SUBSET InHeap(h)
               /\ c[0] = {root}
               /\ \A d \in 1..MaxDepth : c[d] = c[d - 1] \cup Kids(h, c[d - 1])
               /\ NodesOf(h, root) = c[MaxDepth] /\ NodesOf(k, root) = c[MaxDepth]
      BY NodesSolved
<1>2. MaxDepth \in 0..MaxDepth
      BY MaxDepthAssumption
<1> QED BY <1>1, <1>2

SearchedBy(h, root, q, c) ==
    /\ \A d \in 0..MaxDepth : c[d] \in SUBSET InHeap(h)
    /\ c[0] = Hit(h, {root}, q)
    /\ \A d \in 1..MaxDepth : c[d] = c[d - 1] \cup Hit(h, Kids(h, c[d - 1]), q)

LEMMA SearchedSolved ==
    ASSUME NEW h, NEW k, Heap(h), Grew(h, k), NEW root \in InHeap(h), NEW q
    PROVE  \E c : SearchedBy(h, root, q, c) /\ Searched(h, root, q) = c[MaxDepth]
                  /\ Searched(k, root, q) = c[MaxDepth]
<1> DEFINE S == SUBSET InHeap(h)
           f == [x \in (1..MaxDepth) \X S |-> x[2] \cup Hit(h, Kids(h, x[2]), q)]
           Solves(m, c) == c = [d \in 0..MaxDepth |->
                                   IF d = 0 THEN Hit(m, {root}, q)
                                   ELSE c[d - 1] \cup Hit(m, Kids(m, c[d - 1]), q)]
           ofH == CHOOSE c : Solves(h, c)
           ofK == CHOOSE c : Solves(k, c)
<1>0. \A s \in S : Hit(h, s, q) \in S /\ Hit(k, s, q) = Hit(h, s, q)
      BY DEF Hit, Grew
<1>1. \A s \in S : /\ Hit(h, Kids(h, s), q) \in S
                   /\ Hit(k, Kids(k, s), q) = Hit(h, Kids(h, s), q)
  <2>1. \A s \in S : Kids(h, s) \in S /\ Kids(k, s) = Kids(h, s)
        BY KidsStand
  <2> HIDE DEF S
  <2> QED BY <1>0, <2>1
<1>a. PICK first : first = Hit(h, {root}, q)
      OBVIOUS
<1>b. first \in S /\ Hit(k, {root}, q) = first
  <2>1. {root} \in S
        OBVIOUS
  <2> HIDE DEF S
  <2> QED BY <1>0, <1>a, <2>1
<1>2. f \in [(1..MaxDepth) \X S -> S] /\ MaxDepth \in Nat
      BY <1>1, MaxDepthAssumption
<1>3. PICK g \in [0..MaxDepth -> S] : Iterates(g, first, f, MaxDepth)
  <2> HIDE DEF f, S
  <2> QED BY <1>2, <1>b, IterationExists
<1>4. ASSUME NEW d \in 1..MaxDepth, NEW s \in S
      PROVE  /\ f[<<d, s>>] = s \cup Hit(h, Kids(h, s), q) /\ f[<<d, s>>] = s \cup Hit(k, Kids(k, s), q)
             /\ d \in 0..MaxDepth /\ d - 1 \in 0..MaxDepth /\ d # 0
  <2>1. f[<<d, s>>] = s \cup Hit(h, Kids(h, s), q)
        OBVIOUS
  <2> HIDE DEF f
  <2>2. d \in 0..MaxDepth /\ d - 1 \in 0..MaxDepth /\ d # 0
        BY <1>2
  <2> QED BY <1>1, <2>1, <2>2
<1> HIDE DEF f, S
<1>5. ASSUME NEW m \in {h, k} PROVE Solves(m, g)
  <2>1. ASSUME NEW d \in 0..MaxDepth
        PROVE  g[d] = IF d = 0 THEN Hit(m, {root}, q) ELSE g[d - 1] \cup Hit(m, Kids(m, g[d - 1]), q)
    <3>1. CASE d = 0
          BY <1>3, <1>a, <1>b, <3>1 DEF Iterates
    <3>2. CASE d # 0
      <4>1. d \in 1..MaxDepth /\ d - 1 \in 0..MaxDepth
            BY <1>2, <3>2
      <4>2. g[d - 1] \in S
            BY <1>3, <4>1
      <4>3. g[d] = f[<<d, g[d - 1]>>]
            BY <1>3, <3>2 DEF Iterates
      <4> QED BY <1>4, <3>2, <4>1, <4>2, <4>3
    <3> QED BY <3>1, <3>2
  <2> QED BY <1>3, <2>1
<1>6. Searched(h, root, q) = ofH[MaxDepth] /\ Searched(k, root, q) = ofK[MaxDepth]
      BY DEF Searched
<1>7. Solves(h, ofH) /\ Solves(k, ofK)
  <2>1. (\E c : Solves(h, c)) /\ (\E c : Solves(k, c))
        BY <1>5
  <2> HIDE DEF Solves
  <2> QED BY <2>1
<1> HIDE DEF ofH, ofK
<1>8. ASSUME NEW m \in {h, k}, NEW c, Solves(m, c)
      PROVE  c[MaxDepth] = g[MaxDepth] /\ c[MaxDepth] \in S
  <2>1. c[0] = first
    <3>1. 0 \in 0..MaxDepth
          BY <1>2
    <3> QED BY <1>8, <1>a, <1>b, <3>1
  <2>2. ASSUME NEW d \in 1..MaxDepth, c[d - 1] \in S PROVE c[d] = f[<<d, c[d - 1]>>]
    <3>1. d \in 0..MaxDepth /\ d # 0
          BY <1>2
    <3>2. c[d] = c[d - 1] \cup Hit(m, Kids(m, c[d - 1]), q)
          BY <1>8, <3>1
    <3> QED BY <1>4, <2>2, <3>2
  <2> HIDE DEF Solves
  <2> QED BY <1>2, <1>b, <1>3, <2>1, <2>2, IterationFound
<1> HIDE DEF Solves
<1>9. ofH[MaxDepth] = g[MaxDepth] /\ ofH[MaxDepth] \in S /\ ofK[MaxDepth] = g[MaxDepth]
      BY <1>7, <1>8
<1>10. \A d \in 0..MaxDepth : g[d] \in S
       BY <1>3
<1>11. /\ g[0] = Hit(h, {root}, q)
       /\ \A d \in 1..MaxDepth : g[d] = g[d - 1] \cup Hit(h, Kids(h, g[d - 1]), q)
  <2>1. 0 \in 0..MaxDepth /\ \A d \in 1..MaxDepth : d \in 0..MaxDepth /\ d # 0
        BY <1>2
  <2>2. Solves(h, g)
        BY <1>5
  <2> QED BY <2>1, <2>2 DEF Solves
<1> QED BY <1>6, <1>9, <1>10, <1>11 DEF S, SearchedBy

LEMMA SearchedStands ==
    ASSUME NEW h, NEW k, Heap(h), Grew(h, k), NEW root \in InHeap(h), NEW q
    PROVE  Searched(k, root, q) = Searched(h, root, q) /\ Searched(h, root, q) \in SUBSET InHeap(h)
<1>1. PICK c : /\ SearchedBy(h, root, q, c)
               /\ Searched(h, root, q) = c[MaxDepth] /\ Searched(k, root, q) = c[MaxDepth]
      BY SearchedSolved
<1>2. MaxDepth \in 0..MaxDepth
      BY MaxDepthAssumption
<1> QED BY <1>1, <1>2 DEF SearchedBy

LEMMA ItemsStand ==
    ASSUME VersionsInv, Extends, NEW some \in SUBSET InHeap(nodes)
    PROVE  /\ ItemsIn(some)' = ItemsIn(some)
           /\ \A x \in ItemsIn(some) :
                 /\ nodes'[x[1]] = nodes[x[1]]
                 /\ nodes[x[1]].items[x[2]].zone \in Zones
<1>1. \A n \in some : nodes'[n] = nodes[n]
      BY DEF Extends, Grew
<1>2. ItemsIn(some)' = ItemsIn(some)
      BY <1>1 DEF ItemsIn
<1>3. ASSUME NEW x \in ItemsIn(some)
      PROVE  nodes'[x[1]] = nodes[x[1]] /\ nodes[x[1]].items[x[2]].zone \in Zones
  <2>1. PICK n \in some : \E i \in DOMAIN nodes[n].items : x = <<n, i>>
        BY DEF ItemsIn
  <2>2. PICK i \in DOMAIN nodes[n].items : x = <<n, i>>
        BY <2>1
  <2>3. n \in InHeap(nodes) /\ Heap(nodes)
        BY DEF VersionsInv
  <2>4. nodes[n].items \in Seq(ItemType) /\ i \in 1..Len(nodes[n].items)
        BY <2>2, <2>3, NodeFact
  <2>5. nodes[n].items[i] \in ItemType
        BY <2>4, ElementOfSeq
  <2>6. nodes[n].items[i].zone \in Zones
        BY <2>5 DEF ItemType
  <2>7. x[1] = n /\ x[2] = i
        BY <2>2
  <2> QED BY <1>1, <2>6, <2>7
<1> QED BY <1>2, <1>3

LEMMA AnswersFact ==
    ASSUME IndexInv, IndexInv', Extends, NEW t \in Times, t < version_times'[LastVersion']
    PROVE  /\ \A q \in ZoneBoxes : Answers(t, q)' = Answers(t, q)
           /\ ActiveZones(t)' = ActiveZones(t)
           /\ ZoneCountAt(t)' = ZoneCountAt(t)
<1>1. PICK v : v = VersionAt(t)
      OBVIOUS
<1>2. v \in 1..Len(roots) /\ VersionAt(t) = v /\ VersionAt(t)' = v
      BY <1>1, VersionStands
<1>3. PICK r : r = roots[v]
      OBVIOUS
<1>4. r \in InHeap(nodes) /\ roots[v] = r /\ roots'[v] = r
      BY <1>2, <1>3, VersionFact DEF IndexInv, Extends
<1>5. PICK h, k : h = nodes /\ k = nodes'
      OBVIOUS
<1>6. Heap(h) /\ Grew(h, k) /\ r \in InHeap(h)
      BY <1>4, <1>5 DEF IndexInv, VersionsInv, Extends
<1>7. ASSUME NEW q \in ZoneBoxes PROVE Answers(t, q)' = Answers(t, q)
  <2>1. PICK some : some = Searched(h, r, q)
        OBVIOUS
  <2>2. some \in SUBSET InHeap(nodes) /\ Searched(k, r, q) = some
        BY <1>5, <1>6, <2>1, SearchedStands
  <2>3. Searched(nodes, r, q) = some /\ Searched(nodes, r, q)' = some
        BY <1>5, <2>1, <2>2
  <2>4. /\ ItemsIn(some)' = ItemsIn(some)
        /\ \A x \in ItemsIn(some) : /\ nodes'[x[1]] = nodes[x[1]]
                                    /\ nodes[x[1]].items[x[2]].zone \in Zones
        BY <2>2, ItemsStand DEF IndexInv
  <2>5. PICK its : its = ItemsIn(some)
        OBVIOUS
  <2>6. /\ Found(r, q) = {x \in its : Intersects(nodes[x[1]].items[x[2]].box, q)}
        /\ Found(r, q)' = {x \in its : Intersects(nodes'[x[1]].items[x[2]].box, q)}
        BY <2>3, <2>4, <2>5 DEF Found, Intersects
  <2>7. PICK found : found = Found(r, q)
        OBVIOUS
  <2>8. Found(r, q)' = found /\ found \subseteq its
        BY <2>4, <2>5, <2>6, <2>7
  <2>9. ASSUME NEW x \in found
        PROVE  (PresentAsOf(ZoneAt(x), v) /\ ActiveAt(ValidityAsOf(ZoneAt(x), v), t))'
               <=> (PresentAsOf(ZoneAt(x), v) /\ ActiveAt(ValidityAsOf(ZoneAt(x), v), t))
    <3>1. PICK z : z = ZoneAt(x)
          OBVIOUS
    <3>2. z \in Zones /\ ZoneAt(x) = z /\ ZoneAt(x)' = z
          BY <2>4, <2>5, <2>8, <3>1 DEF ZoneAt
    <3>3. /\ PresentAsOf(z, v)' = PresentAsOf(z, v)
          /\ PresentAsOf(z, v) => ValidityAsOf(z, v)' = ValidityAsOf(z, v)
          BY <1>2, <3>2, SlotStands
    <3> QED BY <3>2, <3>3 DEF ActiveAt
  <2>10. /\ \A x : x \in QueryAt(t, q) <=> /\ x \in found
                                           /\ PresentAsOf(ZoneAt(x), v)
                                           /\ ActiveAt(ValidityAsOf(ZoneAt(x), v), t)
         /\ \A x : x \in QueryAt(t, q)' <=> /\ x \in found
                                            /\ PresentAsOf(ZoneAt(x), v)'
                                            /\ ActiveAt(ValidityAsOf(ZoneAt(x), v), t)'
         BY <1>2, <1>4, <2>7, <2>8 DEF QueryAt, ActiveAt
  <2>11. QueryAt(t, q)' = QueryAt(t, q) /\ QueryAt(t, q) \subseteq its
    <3>1. \A x : x \in QueryAt(t, q)' <=> x \in QueryAt(t, q)
          BY <2>9, <2>10
    <3>2. QueryAt(t, q)' = QueryAt(t, q)
          BY <3>1 DEF QueryAt
    <3> QED BY <2>8, <2>10, <3>2
  <2> QED BY <2>4, <2>5, <2>11 DEF Answers
<1>8. ActiveZones(t)' = ActiveZones(t)
  <2>1. /\ \A e : e \in ActiveZones(t) <=> /\ e \in Stabbing(t) /\ PresentAsOf(e.zone, v)
                                           /\ SlotAsOf(e.zone, v) = e.slot
        /\ \A e : e \in ActiveZones(t)' <=> /\ e \in Stabbing(t)' /\ PresentAsOf(e.zone, v)'
                                            /\ SlotAsOf(e.zone, v)' = e.slot
        BY <1>2 DEF ActiveZones
  <2>2. /\ \A e \in Stabbing(t) : e.zone \in Zones /\ e \in Stabbing(t)'
        /\ \A e \in Stabbing(t)' : e.zone \in Zones /\ (e \in Stabbing(t) \/ e.slot \notin Slots(e.zone))
        BY DEF Stabbing, Extends, IndexInv, TreeInv
  <2>3. \A z \in Zones : /\ SlotAsOf(z, v)' = SlotAsOf(z, v) /\ PresentAsOf(z, v)' = PresentAsOf(z, v)
                         /\ PresentAsOf(z, v) => SlotAsOf(z, v) \in Slots(z)
        BY <1>2, SlotStands
  <2>4. \A e : e \in ActiveZones(t)' <=> e \in ActiveZones(t)
        BY <2>1, <2>2, <2>3
  <2> QED BY <2>4 DEF ActiveZones
<1>9. ZoneCountAt(t)' = ZoneCountAt(t)
  <2>1. PICK some : some = NodesOf(h, r)
        OBVIOUS
  <2>2. some \in SUBSET InHeap(nodes) /\ NodesOf(k, r) = some
        BY <1>5, <1>6, <2>1, NodesStand
  <2>3. NodesOf(nodes, r) = some /\ NodesOf(nodes, r)' = some
        BY <1>5, <2>1, <2>2
  <2>4. ItemsIn(some)' = ItemsIn(some)
        BY <2>2, ItemsStand DEF IndexInv
  <2>5. ItemsAt(v) = ItemsIn(some) /\ ItemsAt(v)' = ItemsIn(some)'
        BY <1>4, <2>3 DEF ItemsAt
  <2> QED BY <1>2, <2>4, <2>5 DEF ZoneCountAt
<1> QED BY <1>7, <1>8, <1>9

(* What an edit changes, it changes from its time on: what query_at,        *)
(* active_at and zone_count_at answered about an earlier instant stands,    *)
(* though the versions share nodes, records are read by number and the      *)
(* interval tree holds what every version wrote.                            *)
THEOREM AnswersAlwaysStand == Spec => AnswersStand
<1>1. IndexInv /\ IndexInv' /\ [Next]_vars =>
         [\A t \in Times : t < version_times'[LastVersion'] =>
             /\ \A q \in ZoneBoxes : Answers(t, q)' = Answers(t, q)
             /\ ActiveZones(t)' = ActiveZones(t)
             /\ ZoneCountAt(t)' = ZoneCountAt(t)]_vars
  <2> SUFFICES ASSUME IndexInv, IndexInv', Next, NEW t \in Times, t < version_times'[LastVersion']
               PROVE  /\ \A q \in ZoneBoxes : Answers(t, q)' = Answers(t, q)
                      /\ ActiveZones(t)' = ActiveZones(t)
                      /\ ZoneCountAt(t)' = ZoneCountAt(t)
      OBVIOUS
  <2>1. Extends
        BY StepFact
  <2> QED BY <2>1, AnswersFact
<1> QED BY <1>1, IndexInvariant, PTL DEF Spec, AnswersStand

(* What lies under a node: it is in every set that has the node and, with   *)
(* a node, its kids.                                                        *)
Closed(h, X) == \A n \in X : \A i \in 1..Len(h[n].kids) : h[n].kids[i] \in X
Under(h, n) == {m \in InHeap(h) : \A X \in SUBSET InHeap(h) : n \in X /\ Closed(h, X) => m \in X}

Own(node) == {node.items[i] : i \in 1..Len(node.items)}
Held(h, n) == UNION {Own(h[m]) : m \in Under(h, n)}

(* What is under a node is in every closed set that has the node, and is    *)
(* one.                                                                     *)
LEMMA UnderLeast ==
    ASSUME NEW h, NEW n, NEW X \in SUBSET InHeap(h), n \in X, Closed(h, X)
    PROVE  Under(h, n) \subseteq X
BY DEF Under

LEMMA UnderClosed ==
    ASSUME NEW h, Heap(h), NEW n \in InHeap(h)
    PROVE  n \in Under(h, n) /\ Under(h, n) \in SUBSET InHeap(h) /\ Closed(h, Under(h, n))
<1>1. n \in Under(h, n) /\ Under(h, n) \in SUBSET InHeap(h)
  <2> HIDE DEF InHeap
  <2> QED BY DEF Under
<1>2. ASSUME NEW m \in Under(h, n), NEW i \in 1..Len(h[m].kids) PROVE h[m].kids[i] \in Under(h, n)
  <2>1. m \in InHeap(h)
        BY <1>1
  <2>2. h[m].kids[i] \in InHeap(h)
    <3>1. KidsIn(h[m], Len(h))
          BY <2>1 DEF Heap
    <3> QED BY <3>1 DEF KidsIn, InHeap
  <2>3. ASSUME NEW X \in SUBSET InHeap(h), n \in X, Closed(h, X) PROVE h[m].kids[i] \in X
    <3>1. m \in X
          BY <2>3 DEF Under
    <3> QED BY <2>3, <3>1 DEF Closed
  <2> QED BY <2>2, <2>3 DEF Under
<1> QED BY <1>1, <1>2 DEF Closed

(* What is under a node is the node and what is under its kids; what it     *)
(* holds is its own items and what its kids hold.                           *)
LEMMA UnderKids ==
    ASSUME NEW h, Heap(h), NEW n \in InHeap(h)
    PROVE  /\ \A i \in 1..Len(h[n].kids) :
                 h[n].kids[i] \in InHeap(h) /\ Under(h, h[n].kids[i]) \subseteq Under(h, n)
           /\ \A m \in Under(h, n) :
                 m = n \/ \E i \in 1..Len(h[n].kids) : m \in Under(h, h[n].kids[i])
<1> DEFINE below == {n} \cup UNION {Under(h, h[n].kids[i]) : i \in 1..Len(h[n].kids)}
<1>1. ASSUME NEW i \in 1..Len(h[n].kids)
      PROVE  /\ h[n].kids[i] \in InHeap(h) /\ Under(h, h[n].kids[i]) \subseteq Under(h, n)
  <2>1. h[n].kids[i] \in Under(h, n) /\ Under(h, n) \in SUBSET InHeap(h) /\ Closed(h, Under(h, n))
        BY UnderClosed DEF Closed
  <2> QED BY <2>1, UnderLeast
<1>2. \A i \in 1..Len(h[n].kids) :
         /\ h[n].kids[i] \in Under(h, h[n].kids[i])
         /\ Under(h, h[n].kids[i]) \in SUBSET InHeap(h) /\ Closed(h, Under(h, h[n].kids[i]))
      BY <1>1, UnderClosed
<1>3. n \in below /\ below \in SUBSET InHeap(h)
      BY <1>2
<1>4. ASSUME NEW m \in below, NEW i \in 1..Len(h[m].kids) PROVE h[m].kids[i] \in below
  <2>1. CASE m = n
        BY <1>2, <2>1
  <2>2. CASE m # n
    <3>1. PICK j \in 1..Len(h[n].kids) : m \in Under(h, h[n].kids[j])
          BY <2>2
    <3>2. h[m].kids[i] \in Under(h, h[n].kids[j])
          BY <1>2, <3>1 DEF Closed
    <3> QED BY <3>2
  <2> QED BY <2>1, <2>2
<1>5. Closed(h, below)
  <2> HIDE DEF below
  <2> QED BY <1>4 DEF Closed
<1>6. Under(h, n) \subseteq below
  <2> HIDE DEF below
  <2> QED BY <1>3, <1>5, UnderLeast
<1> QED BY <1>1, <1>6

LEMMA HeldKids ==
    ASSUME NEW h, Heap(h), NEW n \in InHeap(h)
    PROVE  /\ Own(h[n]) \subseteq Held(h, n)
           /\ \A i \in 1..Len(h[n].kids) : Held(h, h[n].kids[i]) \subseteq Held(h, n)
           /\ \A x \in Held(h, n) :
                 x \in Own(h[n]) \/ \E i \in 1..Len(h[n].kids) : x \in Held(h, h[n].kids[i])
<1>1. n \in Under(h, n)
      BY UnderClosed
<1>2. /\ \A i \in 1..Len(h[n].kids) : Under(h, h[n].kids[i]) \subseteq Under(h, n)
      /\ \A m \in Under(h, n) :
            m = n \/ \E i \in 1..Len(h[n].kids) : m \in Under(h, h[n].kids[i])
      BY UnderKids
<1>3. Own(h[n]) \subseteq Held(h, n)
      BY <1>1 DEF Held
<1>4. ASSUME NEW i \in 1..Len(h[n].kids) PROVE Held(h, h[n].kids[i]) \subseteq Held(h, n)
  <2>1. Under(h, h[n].kids[i]) \subseteq Under(h, n)
        BY <1>2
  <2> QED BY <2>1 DEF Held
<1>5. ASSUME NEW x \in Held(h, n)
      PROVE  x \in Own(h[n]) \/ \E i \in 1..Len(h[n].kids) : x \in Held(h, h[n].kids[i])
  <2>1. PICK m \in Under(h, n) : x \in Own(h[m])
        BY DEF Held
  <2>2. CASE m = n
        BY <2>1, <2>2
  <2>3. CASE m # n
    <3>1. PICK i \in 1..Len(h[n].kids) : m \in Under(h, h[n].kids[i])
          BY <1>2, <2>3
    <3>2. x \in Held(h, h[n].kids[i])
          BY <2>1, <3>1 DEF Held
    <3> QED BY <3>2
  <2> QED BY <2>2, <2>3
<1> QED BY <1>3, <1>4, <1>5

(* An edit only appends nodes: nothing changes under a node that was there. *)
LEMMA UnderStands ==
    ASSUME NEW h, NEW g, Heap(h), Heap(g), Grew(h, g), NEW n \in InHeap(h)
    PROVE  Under(g, n) = Under(h, n) /\ Held(g, n) = Held(h, n)
<1>1. InHeap(h) \subseteq InHeap(g) /\ \A m \in InHeap(h) : g[m] = h[m]
  <2>1. Len(h) \in Nat /\ Len(g) \in Nat
        BY DEF Heap
  <2> QED BY <2>1 DEF Grew, InHeap
<1> HIDE DEF InHeap
<1>2. Under(g, n) \subseteq Under(h, n)
  <2>1. n \in Under(h, n) /\ Under(h, n) \in SUBSET InHeap(h) /\ Closed(h, Under(h, n))
        BY UnderClosed
  <2>2. Under(h, n) \in SUBSET InHeap(g) /\ Closed(g, Under(h, n))
        BY <1>1, <2>1 DEF Closed
  <2> QED BY <2>1, <2>2, UnderLeast
<1>3. Under(h, n) \subseteq Under(g, n)
  <2>1. n \in InHeap(g)
        BY <1>1
  <2>2. n \in Under(g, n) /\ Closed(g, Under(g, n))
        BY <2>1, UnderClosed
  <2>4. Under(g, n) \in SUBSET InHeap(h)
    <3>1. Under(h, n) \in SUBSET InHeap(h)
          BY UnderClosed
    <3> QED BY <1>2, <3>1
  <2>3. Closed(h, Under(g, n))
        BY <1>1, <2>2, <2>4 DEF Closed
  <2> QED BY <2>2, <2>3, <2>4, UnderLeast
<1>4. Under(g, n) = Under(h, n) /\ Under(h, n) \in SUBSET InHeap(h)
      BY <1>2, <1>3, UnderClosed
<1>5. \A m \in Under(h, n) : g[m] = h[m]
      BY <1>1, <1>4
<1> QED BY <1>4, <1>5 DEF Held

-----------------------------------------------------------------------------
(* A node as the tree's rules want it.                                      *)
Upright(region) == region.s <= region.n /\ region.w <= region.e

(* Depths go up by one, kids are four and lie within their node.            *)
Shaped(h, n) ==
    /\ Upright(h[n].region)
    /\ h[n].depth <= MaxDepth
    /\ Len(h[n].kids) # 0 => Len(h[n].kids) = 4 /\ h[n].depth < MaxDepth
    /\ \A i \in 1..Len(h[n].kids) :
          /\ h[h[n].kids[i]].depth = h[n].depth + 1
          /\ FullyContains(h[n].region, h[h[n].kids[i]].region)
    /\ \A i, j \in 1..Len(h[n].kids) : h[n].kids[i] = h[n].kids[j] => i = j

(* No zone is twice among the items of a node.                              *)
OncePer(items) == \A i, j \in 1..Len(items) : items[i].zone = items[j].zone => i = j

(* What is held under a node fits it and lies where its box leads.          *)
Placed(h, n) ==
    /\ \A x \in Own(h[n]) : FullyContains(h[n].region, x.box) /\ KidFor(h, h[n], x.box) = 0
    /\ \A i \in 1..Len(h[n].kids) : \A x \in Held(h, h[n].kids[i]) : KidFor(h, h[n], x.box) = i
    /\ OncePer(h[n].items)

Sound(h, n) == Shaped(h, n) /\ Placed(h, n)
SoundHeap(h) == Heap(h) /\ \A n \in InHeap(h) : Sound(h, n)

(* Boxes within boxes.                                                      *)
LEMMA ContainsFact ==
    ASSUME NEW a \in BoxType, NEW b \in BoxType, NEW c \in BoxType,
           FullyContains(a, b), FullyContains(b, c)
    PROVE  FullyContains(a, c)
BY DEF FullyContains, BoxType

LEMMA UprightFact ==
    ASSUME NEW a \in BoxType, NEW b \in BoxType, FullyContains(a, b), Upright(b)
    PROVE  Upright(a)
BY DEF Upright, FullyContains, BoxType

LEMMA SameKidFor ==
    ASSUME NEW h, NEW g, NEW p, NEW q, DOMAIN p.kids = DOMAIN q.kids,
           \A i \in DOMAIN q.kids : g[p.kids[i]].region = h[q.kids[i]].region
    PROVE  \A box : KidFor(g, p, box) = KidFor(h, q, box)
<1> SUFFICES ASSUME NEW box PROVE KidFor(g, p, box) = KidFor(h, q, box)
    OBVIOUS
<1> DEFINE fitG == {i \in DOMAIN p.kids : FullyContains(g[p.kids[i]].region, box)}
           fitH == {i \in DOMAIN q.kids : FullyContains(h[q.kids[i]].region, box)}
<1>1. fitG = fitH
      OBVIOUS
<1> QED BY <1>1 DEF KidFor

(* A node that was sound stays so when nodes are appended.                  *)
LEMMA SoundStands ==
    ASSUME NEW h, NEW g, Heap(h), Heap(g), Grew(h, g), NEW n \in InHeap(h), Sound(h, n)
    PROVE  Sound(g, n)
<1>1. g[n] = h[n] /\ n \in InHeap(g)
  <2>1. Len(h) \in Nat /\ Len(g) \in Nat
        BY DEF Heap
  <2> QED BY <2>1 DEF Grew, InHeap
<1>2. \A i \in 1..Len(h[n].kids) : h[n].kids[i] \in InHeap(h) /\ g[h[n].kids[i]] = h[h[n].kids[i]]
  <2>1. KidsIn(h[n], Len(h))
        BY DEF Heap
  <2> QED BY <2>1 DEF KidsIn, Grew, InHeap
<1>3. \A box : KidFor(g, g[n], box) = KidFor(h, h[n], box)
  <2>1. DOMAIN h[n].kids = 1..Len(h[n].kids)
        BY NodeFact
  <2>2. PICK p : p = h[n]
        OBVIOUS
  <2>3. \A i \in DOMAIN p.kids : g[p.kids[i]].region = h[p.kids[i]].region
        BY <1>2, <2>1, <2>2
  <2>4. \A box : KidFor(g, p, box) = KidFor(h, p, box)
        BY <2>3, SameKidFor
  <2> QED BY <1>1, <2>2, <2>4
<1>4. Shaped(g, n)
      BY <1>1, <1>2 DEF Sound, Shaped
<1>5. \A i \in 1..Len(h[n].kids) : Held(g, h[n].kids[i]) = Held(h, h[n].kids[i])
      BY <1>2, UnderStands
<1>6. Placed(g, n)
      BY <1>1, <1>3, <1>5 DEF Sound, Placed
<1> QED BY <1>4, <1>6 DEF Sound

(* A copied path: what is under each copy is what was under the node, less  *)
(* what was held of a zone and with more of the box.                        *)
CopyOf(h, g, n, b) ==
    /\ g[b].items = h[n].items /\ g[b].depth = h[n].depth
    /\ FullyContains(g[b].region, h[n].region)

Redone(h, g, n, b, z, more) ==
    /\ Sound(g, b)
    /\ Held(g, b) = {x \in Held(h, n) : x.zone # z} \cup more
    /\ Under(g, b) \cap InHeap(h) \subseteq Under(h, n)

Copying(h, g, a, b, c, i, box, z, more) ==
    /\ Heap(h) /\ Heap(g) /\ Grew(h, g) /\ a \in InHeap(h) /\ Sound(h, a)
    /\ b \in InHeap(g) /\ b \notin InHeap(h) /\ c \in InHeap(g) /\ c \notin InHeap(h)
    /\ i \in 1..Len(h[a].kids) /\ i = KidFor(h, h[a], box)
    /\ CopyOf(h, g, a, b)
    /\ Len(g[b].kids) = Len(h[a].kids)
    /\ \A j \in 1..Len(h[a].kids) : g[b].kids[j] = IF j = i THEN c ELSE h[a].kids[j]
    /\ g[c].region = h[h[a].kids[i]].region /\ g[c].depth = h[h[a].kids[i]].depth
    /\ Redone(h, g, h[a].kids[i], c, z, more)
    /\ \A x \in more : x.box = box
    /\ \A x \in Held(h, a) : x.zone = z => x.box = box

(* One copy on the way: its kid on the path is replaced by the copy below.  *)
LEMMA CopyFact ==
    ASSUME NEW h, NEW g, NEW a, NEW b, NEW c, NEW i, NEW box, NEW z, NEW more,
           Copying(h, g, a, b, c, i, box, z, more)
    PROVE  Redone(h, g, a, b, z, more)
<1>a. /\ Heap(h) /\ Heap(g) /\ Grew(h, g) /\ a \in InHeap(h) /\ Sound(h, a)
      /\ b \in InHeap(g) /\ b \notin InHeap(h) /\ c \in InHeap(g) /\ c \notin InHeap(h)
      /\ i \in 1..Len(h[a].kids) /\ i = KidFor(h, h[a], box)
      BY DEF Copying
<1>b. /\ g[b].items = h[a].items /\ g[b].depth = h[a].depth
      /\ FullyContains(g[b].region, h[a].region)
      /\ Len(g[b].kids) = Len(h[a].kids)
      /\ \A j \in 1..Len(h[a].kids) : g[b].kids[j] = IF j = i THEN c ELSE h[a].kids[j]
      BY DEF Copying, CopyOf
<1>c. /\ g[c].region = h[h[a].kids[i]].region /\ g[c].depth = h[h[a].kids[i]].depth
      /\ Held(g, c) = {x \in Held(h, h[a].kids[i]) : x.zone # z} \cup more
      /\ Under(g, c) \cap InHeap(h) \subseteq Under(h, h[a].kids[i])
      BY DEF Copying, Redone
<1>d. (\A x \in more : x.box = box) /\ (\A x \in Held(h, a) : x.zone = z => x.box = box)
      BY DEF Copying
<1> USE <1>a, <1>b, <1>c, <1>d
<1> DEFINE N == Len(h[a].kids)
           K == h[a].kids
           C == g[b].kids
<1>1. /\ N \in Nat /\ \A j \in 1..N : K[j] \in InHeap(h) /\ g[K[j]] = h[K[j]] /\ K[j] \in InHeap(g)
      /\ \A j \in 1..N : K[j] # c
  <2>1. KidsIn(h[a], Len(h)) /\ N \in Nat
        BY NodeFact
  <2>2. \A j \in 1..N : K[j] \in InHeap(h)
        BY <2>1 DEF KidsIn, InHeap
  <2>3. Len(h) \in Nat /\ Len(g) \in Nat /\ Len(h) <= Len(g)
        BY DEF Heap, Grew
  <2>4. \A x \in InHeap(h) : x \in InHeap(g) /\ g[x] = h[x]
        BY <2>3 DEF Grew, InHeap
  <2> QED BY <2>1, <2>2, <2>4
<1>2. /\ h[a].region \in BoxType /\ g[b].region \in BoxType /\ h[a].depth \in Nat
      /\ \A j \in 1..N : h[K[j]].region \in BoxType
      BY <1>1, NodeFact
<1>3. \A j \in 1..N : C[j] = (IF j = i THEN c ELSE K[j]) /\ g[C[j]].region = h[K[j]].region
                      /\ g[C[j]].depth = h[K[j]].depth
      BY <1>1
<1>4. \A y : KidFor(g, g[b], y) = KidFor(h, h[a], y)
  <2>1. DOMAIN g[b].kids = 1..Len(g[b].kids) /\ DOMAIN h[a].kids = 1..Len(h[a].kids)
        BY NodeFact
  <2>2. DOMAIN g[b].kids = DOMAIN h[a].kids
        BY <2>1
  <2>3. \A j \in DOMAIN h[a].kids : g[g[b].kids[j]].region = h[h[a].kids[j]].region
        BY <1>3, <2>1
  <2>4. PICK p, q : p = g[b] /\ q = h[a]
        OBVIOUS
  <2>6. DOMAIN p.kids = DOMAIN q.kids /\ \A j \in DOMAIN q.kids : g[p.kids[j]].region = h[q.kids[j]].region
        BY <2>2, <2>3, <2>4
  <2>5. ASSUME NEW y PROVE KidFor(g, p, y) = KidFor(h, q, y)
    <3>1. {j \in DOMAIN p.kids : FullyContains(g[p.kids[j]].region, y)}
             = {j \in DOMAIN q.kids : FullyContains(h[q.kids[j]].region, y)}
          BY <2>6
    <3> QED BY <3>1 DEF KidFor
  <2> QED BY <2>4, <2>5
<1>5. \A j \in 1..N : j # i => Held(g, C[j]) = Held(h, K[j]) /\ Under(g, C[j]) = Under(h, K[j])
      BY <1>1, <1>3, UnderStands
<1>6. Held(g, C[i]) = {x \in Held(h, K[i]) : x.zone # z} \cup more /\ C[i] = c
      BY <1>3
<1>7. Own(g[b]) = Own(h[a])
      BY DEF Own
<1>8. Shaped(g, b)
  <2>1. Upright(h[a].region) /\ h[a].depth <= MaxDepth /\ (N # 0 => N = 4 /\ h[a].depth < MaxDepth)
        BY DEF Sound, Shaped
  <2>2. Upright(g[b].region)
        BY <1>2, <2>1, UprightFact
  <2>3. \A j \in 1..N : h[K[j]].depth = h[a].depth + 1 /\ FullyContains(h[a].region, h[K[j]].region)
        BY DEF Sound, Shaped
  <2>4. \A j \in 1..N : g[C[j]].depth = g[b].depth + 1 /\ FullyContains(g[b].region, g[C[j]].region)
        BY <1>2, <1>3, <2>3, ContainsFact
  <2>5. \A j, k \in 1..N : C[j] = C[k] => j = k
    <3>1. \A j, k \in 1..N : K[j] = K[k] => j = k
          BY DEF Sound, Shaped
    <3> QED BY <1>1, <1>3, <3>1
  <2> QED BY <2>1, <2>2, <2>4, <2>5 DEF Shaped
<1>9. Placed(g, b)
  <2>1. \A x \in Own(h[a]) : FullyContains(h[a].region, x.box) /\ KidFor(h, h[a], x.box) = 0
        BY DEF Sound, Placed
  <2>2. ASSUME NEW x \in Own(g[b])
        PROVE  FullyContains(g[b].region, x.box) /\ KidFor(g, g[b], x.box) = 0
    <3>1. x.box \in BoxType
      <4>1. h[a].items \in Seq(ItemType) /\ Len(h[a].items) \in Nat
            BY NodeFact
      <4>2. \A j \in 1..Len(h[a].items) : h[a].items[j] \in ItemType
            BY <4>1, ElementOfSeq
      <4>3. x \in ItemType
            BY <1>7, <4>2 DEF Own
      <4> QED BY <4>3 DEF ItemType
    <3> QED BY <1>2, <1>4, <1>7, <2>1, <3>1, ContainsFact
  <2>3. ASSUME NEW j \in 1..N, NEW x \in Held(g, C[j]) PROVE KidFor(g, g[b], x.box) = j
    <3>1. \A y \in Held(h, K[j]) : KidFor(h, h[a], y.box) = j
          BY DEF Sound, Placed
    <3>2. CASE j # i
          BY <1>4, <1>5, <3>1, <3>2
    <3>3. CASE j = i
          BY <1>4, <1>6, <3>1, <3>3
    <3> QED BY <3>2, <3>3
  <2>4. OncePer(g[b].items)
        BY DEF Sound, Placed
  <2> QED BY <2>2, <2>3, <2>4 DEF Placed
<1>10. Held(g, b) = {x \in Held(h, a) : x.zone # z} \cup more
  <2>1. /\ Own(h[a]) \subseteq Held(h, a) /\ \A j \in 1..N : Held(h, K[j]) \subseteq Held(h, a)
        /\ \A x \in Held(h, a) : x \in Own(h[a]) \/ \E j \in 1..N : x \in Held(h, K[j])
        BY HeldKids
  <2>2. /\ Own(g[b]) \subseteq Held(g, b) /\ \A j \in 1..N : Held(g, C[j]) \subseteq Held(g, b)
        /\ \A x \in Held(g, b) : x \in Own(g[b]) \/ \E j \in 1..N : x \in Held(g, C[j])
        BY HeldKids
  <2>3. \A x \in Own(h[a]) : x.zone # z
    <3>1. \A x \in Own(h[a]) : KidFor(h, h[a], x.box) = 0
          BY DEF Sound, Placed
    <3>2. i # 0
          BY <1>1
    <3> QED BY <2>1, <3>1, <3>2
  <2>4. \A j \in 1..N : j # i => \A x \in Held(h, K[j]) : x.zone # z
    <3>1. \A j \in 1..N : \A x \in Held(h, K[j]) : KidFor(h, h[a], x.box) = j
          BY DEF Sound, Placed
    <3> QED BY <2>1, <3>1
  <2> QED BY <1>5, <1>6, <1>7, <2>1, <2>2, <2>3, <2>4
<1>11. Under(g, b) \cap InHeap(h) \subseteq Under(h, a)
  <2>1. \A m \in Under(g, b) : m = b \/ \E j \in 1..N : m \in Under(g, C[j])
        BY UnderKids
  <2>2. \A j \in 1..N : Under(h, K[j]) \subseteq Under(h, a)
        BY UnderKids
  <2> QED BY <1>3, <1>5, <2>1, <2>2
<1> QED BY <1>8, <1>9, <1>10, <1>11 DEF Sound, Redone

-----------------------------------------------------------------------------
(* The path a box selects goes on where a kid holds all of the box, and     *)
(* ends where none does; what has the box lies at its end.                  *)
End(p) == p[Len(p)]
Route(h, p, box) ==
    /\ \A j \in 1..Len(p) : h[p[j]].depth = j - 1
    /\ \A j \in 1..(Len(p) - 1) : /\ KidFor(h, h[p[j]], box) \in 1..Len(h[p[j]].kids)
                                  /\ p[j + 1] = h[p[j]].kids[KidFor(h, h[p[j]], box)]

LEMMA PathsFact ==
    ASSUME NEW h, NEW p \in Paths(h)
    PROVE  /\ p \in Seq(InHeap(h)) /\ Len(p) \in Nat /\ Len(p) # 0 /\ End(p) \in InHeap(h)
           /\ \A j \in 1..Len(p) : p[j] \in InHeap(h)
<1>1. p \in Seq(InHeap(h)) /\ Len(p) \in Nat /\ Len(p) # 0
      BY DEF Paths
<1>2. \A j \in 1..Len(p) : p[j] \in InHeap(h)
  <2> HIDE DEF InHeap
  <2> QED BY <1>1, ElementOfSeq
<1>3. Len(p) \in 1..Len(p)
      BY <1>1
<1> QED BY <1>1, <1>2, <1>3 DEF End

(* One step down a route: where a kid holds the box, the route goes on.     *)
LEMMA RouteGoesOn ==
    ASSUME NEW h, SoundHeap(h), NEW p \in Paths(h), NEW box, Route(h, p, box), NEW d \in Nat,
           Len(p) = d + 1 \/ KidFor(h, h[End(p)], box) = 0
    PROVE  LET q == Down(h, box, p) IN
           /\ q[1] = p[1] /\ Route(h, q, box)
           /\ Len(q) = d + 2 \/ KidFor(h, h[End(q)], box) = 0
<1> DEFINE n == p[Len(p)]
           kid == KidFor(h, h[n], box)
           L == Len(p)
<1>0. Heap(h) /\ n \in InHeap(h) /\ L \in Nat /\ L # 0 /\ p \in Seq(InHeap(h))
      BY PathsFact DEF SoundHeap, End
<1>1. CASE kid = 0
  <2>1. Down(h, box, p) = p
        BY <1>1 DEF Down
  <2> QED BY <1>1, <2>1 DEF End
<1>2. CASE kid # 0
  <2> DEFINE k == h[n].kids[kid]
             q == Append(p, k)
  <2>1. Down(h, box, p) = q /\ L = d + 1
        BY <1>2 DEF Down, End
  <2>2. kid \in 1..Len(h[n].kids) /\ Len(h[n].kids) \in Nat
    <3>1. kid \in 0..Len(h[n].kids)
          BY <1>0, KidFact
    <3>2. Len(h[n].kids) \in Nat
          BY <1>0, NodeFact
    <3> HIDE DEF kid
    <3> QED BY <1>2, <3>1, <3>2
  <2>3. k \in InHeap(h) /\ h[k].depth = h[n].depth + 1
        BY <1>0, <2>2, UnderKids DEF SoundHeap, Sound, Shaped
  <2>4. /\ Len(q) = L + 1 /\ q[L + 1] = k
        /\ \A j \in 1..L : q[j] = p[j]
    <3> HIDE DEF k, InHeap, n
    <3> QED BY <1>0, <2>3
  <2> HIDE DEF q
  <2>5. q[1] = p[1]
        BY <1>0, <2>4
  <2>6. \A j \in 1..Len(q) : h[q[j]].depth = j - 1
    <3>1. \A j \in 1..L : h[p[j]].depth = j - 1
          BY DEF Route
    <3>2. L \in 1..L /\ h[n].depth = L - 1
          BY <1>0, <3>1
    <3>3. h[k].depth = (L + 1) - 1
          BY <1>0, <2>3, <3>2
    <3> HIDE DEF n, k, kid
    <3>4. \A j \in 1..(L + 1) : j \in 1..L \/ j = L + 1
          BY <1>0
    <3> QED BY <2>4, <3>1, <3>3, <3>4
  <2>7. ASSUME NEW j \in 1..(Len(q) - 1)
        PROVE  /\ KidFor(h, h[q[j]], box) \in 1..Len(h[q[j]].kids)
               /\ q[j + 1] = h[q[j]].kids[KidFor(h, h[q[j]], box)]
    <3>1. j \in 1..L /\ q[j] = p[j]
          BY <1>0, <2>4
    <3>2. CASE j = L
          BY <2>2, <2>4, <3>1, <3>2
    <3>3. CASE j # L
      <4>1. j \in 1..(L - 1) /\ j + 1 \in 1..L
            BY <1>0, <3>1, <3>3
      <4> QED BY <2>4, <3>1, <4>1 DEF Route
    <3> QED BY <3>2, <3>3
  <2>8. Len(q) = d + 2
        BY <2>1, <2>4
  <2> QED BY <2>1, <2>5, <2>6, <2>7, <2>8 DEF Route
<1> QED BY <1>1, <1>2

(* The path PathOf computes is a route from the root, and ends where no kid *)
(* holds the box.                                                           *)
LEMMA PathShape ==
    ASSUME NEW h, SoundHeap(h), NEW root \in InHeap(h), h[root].depth = 0, NEW box
    PROVE  LET p == PathOf(h, root, box) IN
           /\ p \in Paths(h) /\ p[1] = root /\ Route(h, p, box)
           /\ KidFor(h, h[End(p)], box) = 0
<1>1. Heap(h)
     BY DEF SoundHeap
<1>2. PICK c : Walks(h, root, box, c)
      BY <1>1, PathSolved
<1>3. /\ \A d \in 0..MaxDepth : c[d] \in Paths(h)
      /\ c[0] = <<root>> /\ \A d \in 1..MaxDepth : c[d] = Down(h, box, c[d - 1])
      /\ PathOf(h, root, box) = c[MaxDepth]
      BY <1>2 DEF Walks
<1> DEFINE Stage(d) == /\ c[d][1] = root /\ Route(h, c[d], box)
                       /\ Len(c[d]) = d + 1 \/ KidFor(h, h[End(c[d])], box) = 0
           T == {d \in Nat : d <= MaxDepth => Stage(d)}
<1>4. 0 \in T
  <2>1. c[0] = <<root>> /\ Len(c[0]) = 1 /\ c[0][1] = root
        BY <1>3
  <2>2. Route(h, c[0], box)
        BY <2>1 DEF Route
  <2> QED BY <2>1, <2>2
<1>5. ASSUME NEW d \in Nat, d \in T PROVE d + 1 \in T
  <2> SUFFICES ASSUME d + 1 <= MaxDepth PROVE Stage(d + 1)
      OBVIOUS
  <2>1. d <= MaxDepth /\ d \in 0..MaxDepth /\ d + 1 \in 1..MaxDepth /\ (d + 1) - 1 = d /\ d + 2 = (d + 1) + 1
        BY MaxDepthAssumption
  <2>2. Stage(d) /\ c[d] \in Paths(h) /\ c[d + 1] = Down(h, box, c[d])
        BY <1>3, <1>5, <2>1
  <2> QED BY <2>1, <2>2, RouteGoesOn
<1>6. MaxDepth \in T
  <2> HIDE DEF T
  <2> QED BY <1>4, <1>5, StepByStep, MaxDepthAssumption
<1>7. PICK p : p = PathOf(h, root, box)
      OBVIOUS
<1>8. p = c[MaxDepth] /\ Stage(MaxDepth) /\ p \in Paths(h)
      BY <1>3, <1>6, <1>7, MaxDepthAssumption
<1>9. p[1] = root /\ Route(h, p, box) /\ (Len(p) = MaxDepth + 1 \/ KidFor(h, h[End(p)], box) = 0)
      BY <1>8
<1>10. KidFor(h, h[End(p)], box) = 0
  <2>1. End(p) \in InHeap(h) /\ Len(p) \in Nat /\ Len(p) # 0 /\ Heap(h)
        BY <1>8, PathsFact DEF SoundHeap
  <2>2. CASE Len(p) = MaxDepth + 1
    <3>1. h[End(p)].depth = MaxDepth
          BY <1>9, <2>1, <2>2, MaxDepthAssumption DEF Route, End
    <3>2. Len(h[End(p)].kids) = 0
          BY <2>1, <3>1, MaxDepthAssumption DEF SoundHeap, Sound, Shaped
    <3>3. KidFor(h, h[End(p)], box) \in 0..0
          BY <2>1, <3>2, KidFact
    <3> QED BY <3>3
  <2> QED BY <1>9, <2>2
<1> QED BY <1>7, <1>8, <1>9, <1>10

(* What a version holds for a box lies at the end of the box's path, and    *)
(* nowhere else.                                                            *)
LEMMA HeldAlong ==
    ASSUME NEW h, SoundHeap(h), NEW p \in Paths(h), NEW x, Route(h, p, x.box), x \in Held(h, p[1])
    PROVE  \A j \in 1..Len(p) : x \in Held(h, p[j])
<1> DEFINE T == {j \in Nat : j + 1 <= Len(p) => x \in Held(h, p[j + 1])}
<1>1. Heap(h) /\ Len(p) \in Nat /\ Len(p) # 0 /\ \A j \in 1..Len(p) : p[j] \in InHeap(h)
      BY PathsFact DEF SoundHeap
<1>2. 0 \in T
      OBVIOUS
<1>3. ASSUME NEW j \in Nat, j \in T PROVE j + 1 \in T
  <2> SUFFICES ASSUME (j + 1) + 1 <= Len(p) PROVE x \in Held(h, p[(j + 1) + 1])
      OBVIOUS
  <2>1. j + 1 \in 1..Len(p) /\ j + 1 \in 1..(Len(p) - 1)
        BY <1>1
  <2>2. PICK i, n : i = j + 1 /\ n = p[i]
        OBVIOUS
  <2>3. n \in InHeap(h) /\ x \in Held(h, n) /\ Sound(h, n)
        BY <1>1, <1>3, <2>1, <2>2 DEF SoundHeap
  <2>4. KidFor(h, h[n], x.box) \in 1..Len(h[n].kids) /\ p[i + 1] = h[n].kids[KidFor(h, h[n], x.box)]
        BY <2>1, <2>2 DEF Route
  <2>5. x \notin Own(h[n])
    <3>1. KidFor(h, h[n], x.box) # 0
          BY <2>4
    <3> QED BY <2>3, <3>1 DEF Sound, Placed
  <2>6. PICK k \in 1..Len(h[n].kids) : x \in Held(h, h[n].kids[k])
        BY <1>1, <2>3, <2>5, HeldKids
  <2>7. KidFor(h, h[n], x.box) = k
        BY <2>3, <2>6 DEF Sound, Placed
  <2> QED BY <2>2, <2>4, <2>6, <2>7
<1>4. Nat \subseteq T
  <2> HIDE DEF T
  <2> QED BY <1>2, <1>3, StepByStep
<1>5. ASSUME NEW j \in 1..Len(p) PROVE x \in Held(h, p[j])
  <2>1. j - 1 \in Nat /\ (j - 1) + 1 = j /\ j <= Len(p)
        BY <1>1
  <2> QED BY <1>4, <2>1
<1> QED BY <1>5

(* Two items with one box lie in one node.                                  *)
LEMMA HolderIsOne ==
    ASSUME NEW h, SoundHeap(h), NEW n \in InHeap(h), NEW m1 \in Under(h, n), NEW m2 \in Under(h, n),
           NEW x1 \in Own(h[m1]), NEW x2 \in Own(h[m2]), x1.box = x2.box
    PROVE  m1 = m2
<1> DEFINE One(a) == \A u, v \in Under(h, a) : x1 \in Own(h[u]) /\ x2 \in Own(h[v]) => u = v
           T == {d \in Nat : \A a \in InHeap(h) : h[a].depth + d >= MaxDepth => One(a)}
<1>0. Heap(h) /\ MaxDepth \in Nat /\ \A a \in InHeap(h) : h[a].depth \in Nat /\ Sound(h, a)
      BY NodeFact, MaxDepthAssumption DEF SoundHeap
<1>1. ASSUME NEW a \in InHeap(h),
             \A i \in 1..Len(h[a].kids) : One(h[a].kids[i])
      PROVE  One(a)
  <2> SUFFICES ASSUME NEW u \in Under(h, a), NEW v \in Under(h, a), x1 \in Own(h[u]), x2 \in Own(h[v])
               PROVE  u = v
      OBVIOUS
  <2>1. /\ u = a \/ \E i \in 1..Len(h[a].kids) : u \in Under(h, h[a].kids[i])
        /\ v = a \/ \E i \in 1..Len(h[a].kids) : v \in Under(h, h[a].kids[i])
        BY <1>0, UnderKids
  <2>2. /\ u = a => KidFor(h, h[a], x1.box) = 0
        /\ v = a => KidFor(h, h[a], x1.box) = 0
        BY <1>0 DEF Sound, Placed
  <2>3. \A i \in 1..Len(h[a].kids) :
           /\ u \in Under(h, h[a].kids[i]) => KidFor(h, h[a], x1.box) = i
           /\ v \in Under(h, h[a].kids[i]) => KidFor(h, h[a], x1.box) = i
    <3> SUFFICES ASSUME NEW i \in 1..Len(h[a].kids)
                 PROVE  /\ u \in Under(h, h[a].kids[i]) => KidFor(h, h[a], x1.box) = i
                        /\ v \in Under(h, h[a].kids[i]) => KidFor(h, h[a], x1.box) = i
        OBVIOUS
    <3>1. \A y \in Held(h, h[a].kids[i]) : KidFor(h, h[a], y.box) = i
          BY <1>0 DEF Sound, Placed
    <3>2. /\ u \in Under(h, h[a].kids[i]) => x1 \in Held(h, h[a].kids[i])
          /\ v \in Under(h, h[a].kids[i]) => x2 \in Held(h, h[a].kids[i])
          BY DEF Held
    <3> QED BY <3>1, <3>2
  <2>4. \A i \in 1..Len(h[a].kids) : i # 0
        OBVIOUS
  <2>5. CASE u = a
        BY <2>1, <2>2, <2>3, <2>4, <2>5
  <2>6. CASE u # a
    <3>1. PICK i \in 1..Len(h[a].kids) : u \in Under(h, h[a].kids[i])
          BY <2>1, <2>6
    <3>2. v \in Under(h, h[a].kids[i])
          BY <2>1, <2>2, <2>3, <2>4, <3>1
    <3> QED BY <1>1, <3>1, <3>2
  <2> QED BY <2>5, <2>6
<1>2. 0 \in T
  <2>1. ASSUME NEW a \in InHeap(h), h[a].depth + 0 >= MaxDepth PROVE One(a)
    <3>1. Len(h[a].kids) = 0
          BY <1>0, <2>1 DEF Sound, Shaped
    <3> QED BY <1>1, <3>1
  <2> HIDE DEF One
  <2> QED BY <2>1
<1>3. ASSUME NEW d \in Nat, d \in T PROVE d + 1 \in T
  <2>1. ASSUME NEW a \in InHeap(h), h[a].depth + (d + 1) >= MaxDepth PROVE One(a)
    <3>1. ASSUME NEW i \in 1..Len(h[a].kids) PROVE One(h[a].kids[i])
      <4>1. h[a].kids[i] \in InHeap(h) /\ h[h[a].kids[i]].depth = h[a].depth + 1
            BY <1>0, UnderKids DEF Sound, Shaped
      <4>2. h[h[a].kids[i]].depth + d >= MaxDepth
            BY <1>0, <2>1, <4>1
      <4> HIDE DEF One
      <4> QED BY <1>3, <4>1, <4>2
    <3> HIDE DEF One
    <3> QED BY <1>1, <3>1
  <2> HIDE DEF One
  <2> QED BY <2>1
<1>4. MaxDepth \in T
  <2> HIDE DEF T
  <2> QED BY <1>0, <1>2, <1>3, StepByStep
<1>5. One(n)
  <2>1. h[n].depth + MaxDepth >= MaxDepth
        BY <1>0
  <2> HIDE DEF One
  <2> QED BY <1>4, <2>1
<1> QED BY <1>5

(* Going down a route, less is under each node and less held. *)
LEMMA RouteNarrows ==
    ASSUME NEW h, SoundHeap(h), NEW p \in Paths(h), NEW box, Route(h, p, box)
    PROVE  \A j \in 1..Len(p) : Under(h, p[j]) \subseteq Under(h, p[1]) /\ Held(h, p[j]) \subseteq Held(h, p[1])
<1> DEFINE In(j) == Under(h, p[j]) \subseteq Under(h, p[1]) /\ Held(h, p[j]) \subseteq Held(h, p[1])
           T == {j \in Nat : j + 1 <= Len(p) => In(j + 1)}
<1>1. Heap(h) /\ Len(p) \in Nat /\ \A j \in 1..Len(p) : p[j] \in InHeap(h)
      BY PathsFact DEF SoundHeap
<1>2. 0 \in T
      OBVIOUS
<1>3. ASSUME NEW j \in Nat, j \in T PROVE j + 1 \in T
  <2> SUFFICES ASSUME (j + 1) + 1 <= Len(p) PROVE In((j + 1) + 1)
      OBVIOUS
  <2>1. j + 1 \in 1..Len(p) /\ j + 1 \in 1..(Len(p) - 1)
        BY <1>1
  <2>2. PICK i, n, m : i = j + 1 /\ n = p[i] /\ m = p[i + 1]
        OBVIOUS
  <2>3. n \in InHeap(h) /\ In(i)
        BY <1>1, <1>3, <2>1, <2>2
  <2>4. PICK k \in 1..Len(h[n].kids) : m = h[n].kids[k]
        BY <2>1, <2>2 DEF Route
  <2>5. Under(h, m) \subseteq Under(h, n) /\ Held(h, m) \subseteq Held(h, n)
        BY <1>1, <2>3, <2>4, UnderKids, HeldKids
  <2> QED BY <2>2, <2>3, <2>5
<1>4. Nat \subseteq T
  <2> HIDE DEF T
  <2> QED BY <1>2, <1>3, StepByStep
<1>5. ASSUME NEW j \in 1..Len(p) PROVE In(j)
  <2>1. j - 1 \in Nat /\ (j - 1) + 1 = j /\ j <= Len(p)
        BY <1>1
  <2> QED BY <1>4, <2>1
<1> QED BY <1>5

(* The copies of a path, each but the last pointing to the next.            *)
Chained(h, g, p, L, N) ==
    /\ L = Len(h) /\ N = Len(p) /\ L + N <= Len(g)
    /\ \A j \in 1..N : /\ g[L + j].depth = h[p[j]].depth
                       /\ j # 1 => g[L + j].region = h[p[j]].region
    /\ \A j \in 1..(N - 1) :
          /\ CopyOf(h, g, p[j], L + j)
          /\ Len(g[L + j].kids) = Len(h[p[j]].kids)
          /\ \A i \in 1..Len(h[p[j]].kids) :
                g[L + j].kids[i] = IF h[p[j]].kids[i] = p[j + 1] THEN L + j + 1 ELSE h[p[j]].kids[i]

(* From the last copy up, every copy of a path holds what its node held,    *)
(* less the zone and with the new item.                                     *)
LEMMA ChainFact ==
    ASSUME NEW h, NEW g, SoundHeap(h), Heap(g), Grew(h, g), NEW L, NEW N,
           NEW p \in Paths(h), NEW box, Route(h, p, box), NEW z, NEW more,
           \A x \in more : x.box = box,
           \A x \in Held(h, p[1]) : x.zone = z => x.box = box,
           Chained(h, g, p, L, N),
           Redone(h, g, p[N], L + N, z, more)
    PROVE  \A j \in 1..N : Redone(h, g, p[j], L + j, z, more)
<1> DEFINE T == {m \in Nat : m < N => Redone(h, g, p[N - m], L + (N - m), z, more)}
<1>1. /\ L = Len(h) /\ N = Len(p) /\ L + N <= Len(g)
      /\ \A j \in 1..N : /\ g[L + j].depth = h[p[j]].depth
                         /\ j # 1 => g[L + j].region = h[p[j]].region
      /\ \A j \in 1..(N - 1) :
            /\ CopyOf(h, g, p[j], L + j)
            /\ Len(g[L + j].kids) = Len(h[p[j]].kids)
            /\ \A i \in 1..Len(h[p[j]].kids) :
                  g[L + j].kids[i] = IF h[p[j]].kids[i] = p[j + 1] THEN L + j + 1 ELSE h[p[j]].kids[i]
      BY DEF Chained
<1>2. /\ Heap(h) /\ N \in Nat /\ N # 0 /\ \A j \in 1..N : p[j] \in InHeap(h)
      /\ L \in Nat /\ Len(g) \in Nat
      BY <1>1, PathsFact DEF SoundHeap, Heap
<1>3. L = Len(h) /\ L + N <= Len(g)
      BY <1>1
<1>4. 0 \in T
  <2>1. N - 0 = N
        BY <1>2
  <2> QED BY <2>1
<1>5. ASSUME NEW m \in Nat, m \in T PROVE m + 1 \in T
  <2> SUFFICES ASSUME m + 1 < N PROVE Redone(h, g, p[N - (m + 1)], L + (N - (m + 1)), z, more)
      OBVIOUS
  <2>1. PICK j : j = N - (m + 1)
        OBVIOUS
  <2>2. j \in 1..N /\ j \in 1..(N - 1) /\ N - m = j + 1 /\ j + 1 \in 1..N /\ j + 1 # 1 /\ m < N
        BY <1>2, <2>1
  <2>3. PICK a, b, c : a = p[j] /\ b = L + j /\ c = L + j + 1
        OBVIOUS
  <2>4. /\ a \in InHeap(h) /\ Sound(h, a)
        /\ b \in InHeap(g) /\ b \notin InHeap(h) /\ c \in InHeap(g) /\ c \notin InHeap(h)
        BY <1>2, <1>3, <2>2, <2>3 DEF SoundHeap, InHeap
  <2>5. PICK i \in 1..Len(h[a].kids) : i = KidFor(h, h[a], box) /\ p[j + 1] = h[a].kids[i]
        BY <1>1, <2>2, <2>3 DEF Route
  <2>6. L + (j + 1) = c
        BY <1>2, <2>2, <2>3
  <2>7. Redone(h, g, h[a].kids[i], c, z, more)
        BY <1>5, <2>2, <2>5, <2>6
  <2>8. CopyOf(h, g, a, b) /\ Len(g[b].kids) = Len(h[a].kids)
        BY <1>1, <2>2, <2>3
  <2>9. \A k \in 1..Len(h[a].kids) : g[b].kids[k] = IF k = i THEN c ELSE h[a].kids[k]
    <3>1. \A k \in 1..Len(h[a].kids) : h[a].kids[k] = h[a].kids[i] <=> k = i
          BY <2>4 DEF Sound, Shaped
    <3>2. \A k \in 1..Len(h[a].kids) :
             g[b].kids[k] = IF h[a].kids[k] = p[j + 1] THEN c ELSE h[a].kids[k]
          BY <1>1, <2>2, <2>3
    <3> QED BY <2>5, <3>1, <3>2
  <2>10. g[c].region = h[h[a].kids[i]].region /\ g[c].depth = h[h[a].kids[i]].depth
         BY <1>1, <2>2, <2>5, <2>6
  <2>11. \A x \in Held(h, a) : x.zone = z => x.box = box
    <3>1. Held(h, a) \subseteq Held(h, p[1])
          BY <1>1, <2>2, <2>3, RouteNarrows
    <3> QED BY <3>1
  <2>12. Redone(h, g, a, b, z, more)
    <3>1. Copying(h, g, a, b, c, i, box, z, more)
          BY <1>2, <2>4, <2>5, <2>7, <2>8, <2>9, <2>10, <2>11 DEF Copying
    <3> QED BY <3>1, CopyFact
  <2> QED BY <2>1, <2>3, <2>12
<1>6. Nat \subseteq T
  <2> HIDE DEF T
  <2> QED BY <1>4, <1>5, StepByStep
<1>7. ASSUME NEW j \in 1..N PROVE Redone(h, g, p[j], L + j, z, more)
  <2>1. N - j \in Nat /\ N - (N - j) = j /\ N - j < N
        BY <1>2
  <2>2. N - j \in T
        BY <1>6, <2>1
  <2>3. Redone(h, g, p[N - (N - j)], L + (N - (N - j)), z, more)
        BY <2>1, <2>2
  <2> QED BY <2>1, <2>3
<1> QED BY <1>7

(* The fields of a copy that is not the last. *)
CopyParts(h, path, j, n, c) ==
    /\ c.items = h[n].items /\ c.depth = h[n].depth /\ c.region = h[n].region
    /\ Len(c.kids) = Len(h[n].kids)
    /\ \A i \in 1..Len(h[n].kids) :
          c.kids[i] = IF h[n].kids[i] = path[j + 1] THEN Len(h) + j + 1 ELSE h[n].kids[i]

LEMMA CopiedParts ==
    ASSUME NEW h, Heap(h), NEW path \in Paths(h), NEW j \in 1..(Len(path) - 1), NEW last,
           NEW c, c = Copied(h, path, j, last), NEW n, n = path[j]
    PROVE  CopyParts(h, path, j, n, c)
<1> DEFINE ks == h[n].kids
           to == path[j + 1]
           L == Len(h)
           new == [i \in DOMAIN ks |-> IF ks[i] = to THEN L + j + 1 ELSE ks[i]]
<1>1. n \in InHeap(h) /\ Len(path) \in Nat /\ j # Len(path) /\ j \in Nat
      BY PathsFact
<1>2. h[n] \in NodeType /\ DOMAIN ks = 1..Len(ks) /\ Len(ks) \in Nat /\ L \in Nat
      /\ \A i \in 1..Len(ks) : ks[i] \in Nat
  <2>1. KidsIn(h[n], L) /\ h[n] \in NodeType /\ DOMAIN ks = 1..Len(ks) /\ Len(ks) \in Nat /\ L \in Nat
        BY <1>1, NodeFact
  <2> QED BY <2>1 DEF KidsIn
<1>3. Copied(h, path, j, last) = [h[n] EXCEPT !.kids = new]
      BY <1>1 DEF Copied
<1> HIDE DEF ks, to, L
<1>4. new \in [1..Len(ks) -> Nat] /\ \A i \in 1..Len(ks) : new[i] = IF ks[i] = to THEN L + j + 1 ELSE ks[i]
      BY <1>1, <1>2
<1> HIDE DEF new
<1>5. Len(new) = Len(ks)
      BY <1>2, <1>4, FunctionIsSeq
<1>7. c.items = h[n].items /\ c.depth = h[n].depth /\ c.region = h[n].region /\ c.kids = new
      BY <1>2, <1>3 DEF NodeType
<1> QED BY <1>4, <1>5, <1>7 DEF ks, to, L, CopyParts

(* What a leaf that splits gives to a quarter, and what it keeps.            *)
Items(s) == {s[i] : i \in 1..Len(s)}

(* One more item.                                                           *)
LEMMA AppendItems ==
    ASSUME NEW S, NEW s \in Seq(S), NEW x \in S
    PROVE  /\ Append(s, x) \in Seq(S) /\ Items(Append(s, x)) = Items(s) \cup {x}
           /\ OncePer(s) /\ (\A y \in Items(s) : y.zone # x.zone) => OncePer(Append(s, x))
<1> DEFINE t == Append(s, x)
           n == Len(s)
<1>1. /\ t \in Seq(S) /\ n \in Nat /\ Len(t) = n + 1 /\ t[n + 1] = x
      /\ \A i \in 1..n : t[i] = s[i]
      OBVIOUS
<1> HIDE DEF t
<1>2. Items(t) = Items(s) \cup {x}
  <2>1. ASSUME NEW i \in 1..Len(t) PROVE t[i] \in Items(s) \cup {x}
    <3>1. i \in 1..n \/ i = n + 1
          BY <1>1
    <3> QED BY <1>1, <3>1 DEF Items
  <2>2. \A i \in 1..n : i \in 1..Len(t)
        BY <1>1
  <2>3. n + 1 \in 1..Len(t)
        BY <1>1
  <2> HIDE DEF n
  <2>4. x \in Items(t)
        BY <1>1, <2>3 DEF Items
  <2>5. Items(s) \subseteq Items(t)
        BY <1>1, <2>2 DEF Items, n
  <2>6. Items(t) \subseteq Items(s) \cup {x}
    <3>1. \A i \in 1..Len(t) : t[i] \in Items(s) \cup {x}
          BY <2>1
    <3>2. \A y \in Items(t) : \E i \in 1..Len(t) : y = t[i]
          BY DEF Items
    <3> QED BY <3>1, <3>2
  <2> QED BY <2>4, <2>5, <2>6
<1>3. ASSUME OncePer(s), \A y \in Items(s) : y.zone # x.zone PROVE OncePer(t)
  <2>1. \A i \in 1..Len(t) : i \in 1..n \/ i = n + 1
        BY <1>1
  <2>2. \A i \in 1..n : t[i].zone # x.zone
        BY <1>1, <1>3 DEF Items
  <2>3. \A i, j \in 1..n : t[i].zone = t[j].zone => i = j
        BY <1>1, <1>3 DEF OncePer
  <2> HIDE DEF n
  <2> QED BY <1>1, <2>1, <2>2, <2>3 DEF OncePer
<1> QED BY <1>1, <1>2, <1>3 DEF t

(* TakenBy keeps exactly the items of a quarter, each zone once.            *)
LEMMA TakenParts ==
    ASSUME NEW node \in NodeType, NEW quarter, OncePer(node.items)
    PROVE  /\ Items(TakenBy(node, quarter))
                 = {x \in Items(node.items) : QuarterOf(node.region, x.box) = quarter}
           /\ OncePer(TakenBy(node, quarter))
<1> DEFINE its == node.items
           N == Len(its)
           Goes(k) == QuarterOf(node.region, its[k].box) = quarter
<1>1. its \in Seq(ItemType) /\ N \in Nat /\ \A k \in 1..N : its[k] \in ItemType
  <2>1. its \in Seq(ItemType)
        BY DEF NodeType
  <2> QED BY <2>1, ElementOfSeq
<1>2. PICK c : /\ \A k \in 0..N : c[k] \in Seq(ItemType)
               /\ c[0] = <<>>
               /\ \A k \in 1..N : c[k] = IF Goes(k) THEN Append(c[k - 1], its[k]) ELSE c[k - 1]
               /\ TakenBy(node, quarter) = c[N]
      BY TakenSolved
<1>3. OncePer(its)
      OBVIOUS
<1> HIDE DEF Goes, N, its
<1> DEFINE Upto(k) == {its[i] : i \in {j \in 1..k : Goes(j)}}
           Stage(k) == Items(c[k]) = Upto(k) /\ OncePer(c[k])
           T == {k \in Nat : k <= N => Stage(k)}
<1>4. 0 \in T
  <2>1. Items(<<>>) = {} /\ Upto(0) = {} /\ OncePer(<<>>)
        BY DEF Items, OncePer
  <2> QED BY <1>2, <2>1
<1>5. ASSUME NEW k \in Nat, k \in T PROVE k + 1 \in T
  <2> SUFFICES ASSUME k + 1 <= N PROVE Stage(k + 1)
      OBVIOUS
  <2>1. k + 1 \in 1..N /\ (k + 1) - 1 = k /\ k \in 0..N /\ k <= N
        BY <1>1
  <2>2. PICK s, x : s = c[k] /\ x = its[k + 1]
        OBVIOUS
  <2>3. s \in Seq(ItemType) /\ x \in ItemType /\ Items(s) = Upto(k) /\ OncePer(s)
        BY <1>1, <1>2, <1>5, <2>1, <2>2
  <2>4. c[k + 1] = IF Goes(k + 1) THEN Append(s, x) ELSE s
        BY <1>2, <2>1, <2>2
  <2>5. \A j \in 1..(k + 1) : j \in 1..k \/ j = k + 1
        OBVIOUS
  <2>6. \A j \in 1..k : j \in 1..(k + 1) /\ j \in 1..N /\ j # k + 1
        BY <1>1, <2>1
  <2>7. k + 1 \in 1..(k + 1)
        OBVIOUS
  <2>8. CASE Goes(k + 1)
    <3>1. Upto(k + 1) = Upto(k) \cup {x}
          BY <2>2, <2>5, <2>6, <2>7, <2>8
    <3>2. \A y \in Upto(k) : y.zone # x.zone
      <4>1. \A j \in 1..k : its[j].zone # x.zone
            BY <1>3, <2>1, <2>2, <2>6 DEF OncePer, N
      <4> QED BY <4>1
    <3> HIDE DEF Upto
    <3>3. Items(Append(s, x)) = Items(s) \cup {x} /\ OncePer(Append(s, x))
          BY <2>3, <3>2, AppendItems
    <3> QED BY <2>3, <2>4, <2>8, <3>1, <3>3
  <2>9. CASE ~Goes(k + 1)
    <3>1. Upto(k + 1) = Upto(k)
          BY <2>5, <2>6, <2>9
    <3> QED BY <2>3, <2>4, <2>9, <3>1
  <2> QED BY <2>8, <2>9
<1>6. N \in T
  <2> HIDE DEF T
  <2> QED BY <1>1, <1>4, <1>5, StepByStep
<1>7. Items(c[N]) = Upto(N) /\ OncePer(c[N])
      BY <1>1, <1>6
<1>8. Upto(N) = {x \in Items(its) : QuarterOf(node.region, x.box) = quarter}
      BY DEF Items, Goes, N
<1> QED BY <1>2, <1>7, <1>8 DEF its

(* A quarter of a region lies in it, and a widened region contains both.    *)
LEMMA QuarterFact ==
    ASSUME NEW r \in BoxType, Upright(r), NEW i \in 1..4
    PROVE  Upright(Quarter(r, i)) /\ FullyContains(r, Quarter(r, i))
<1>1. r.s \in Int /\ r.w \in Int /\ r.n \in Int /\ r.e \in Int /\ r.s <= r.n /\ r.w <= r.e
      BY DEF BoxType, Upright
<1> DEFINE lat == (r.s + r.n) \div 2
           lon == (r.w + r.e) \div 2
<1>2. lat \in Int /\ lon \in Int /\ r.s <= lat /\ lat <= r.n /\ r.w <= lon /\ lon <= r.e
      BY <1>1
<1>3. Quarter(r, i) = CASE i = 1 -> Box(r.s, r.w, lat, lon)
                        [] i = 2 -> Box(r.s, lon, lat, r.e)
                        [] i = 3 -> Box(lat, r.w, r.n, lon)
                        [] i = 4 -> Box(lat, lon, r.n, r.e)
      BY DEF Quarter
<1> HIDE DEF lat, lon
<1>4. i = 1 \/ i = 2 \/ i = 3 \/ i = 4
      OBVIOUS
<1> QED BY <1>1, <1>2, <1>3, <1>4 DEF Box, Upright, FullyContains

LEMMA ExpandFact ==
    ASSUME NEW a \in BoxType, NEW b \in BoxType
    PROVE  FullyContains(Expand(a, b), a) /\ FullyContains(Expand(a, b), b)
BY DEF Expand, Box, Lesser, Greater, FullyContains, BoxType

(* The items of a node as a set, and the kid that holds a box.              *)
LEMMA OwnFact ==
    ASSUME NEW h, Heap(h), NEW n \in InHeap(h)
    PROVE  Own(h[n]) = Items(h[n].items) /\ Own(h[n]) \in SUBSET ItemType
<1>1. h[n].items \in Seq(ItemType) /\ Len(h[n].items) \in Nat
      BY NodeFact
<1>2. \A j \in 1..Len(h[n].items) : h[n].items[j] \in ItemType
      BY <1>1, ElementOfSeq
<1> QED BY <1>2 DEF Own, Items

LEMMA KidContains ==
    ASSUME NEW h, Heap(h), NEW n \in InHeap(h), NEW box, KidFor(h, h[n], box) # 0
    PROVE  /\ KidFor(h, h[n], box) \in 1..Len(h[n].kids)
           /\ FullyContains(h[h[n].kids[KidFor(h, h[n], box)]].region, box)
<1> DEFINE fit == {i \in DOMAIN h[n].kids : FullyContains(h[h[n].kids[i]].region, box)}
<1>1. Len(h[n].kids) \in Nat /\ fit \in SUBSET (1..Len(h[n].kids))
      BY NodeFact
<1>2. \A i \in fit : FullyContains(h[h[n].kids[i]].region, box)
      OBVIOUS
<1>3. KidFor(h, h[n], box) = Lowest(fit)
      BY DEF KidFor
<1> HIDE DEF fit
<1>4. KidFor(h, h[n], box) \in fit
      BY <1>1, <1>3, LowestFact
<1> QED BY <1>1, <1>2, <1>4

(* The last copy when its kids stay: only what it keeps itself is new.      *)
Below(h, n) == UNION {Held(h, h[n].kids[i]) : i \in 1..Len(h[n].kids)}

(* What a node holds is its own and what lies below.                        *)
LEMMA HeldBelow ==
    ASSUME NEW h, Heap(h), NEW n \in InHeap(h)
    PROVE  Held(h, n) = Own(h[n]) \cup Below(h, n)
<1>1. /\ Own(h[n]) \subseteq Held(h, n)
      /\ \A i \in 1..Len(h[n].kids) : Held(h, h[n].kids[i]) \subseteq Held(h, n)
      /\ \A x \in Held(h, n) :
            x \in Own(h[n]) \/ \E i \in 1..Len(h[n].kids) : x \in Held(h, h[n].kids[i])
      BY HeldKids
<1> QED BY <1>1 DEF Below

(* A copy that keeps the kids of its node holds what lay below and its own. *)
LEMMA SameKids ==
    ASSUME NEW h, NEW g, SoundHeap(h), Heap(g), Grew(h, g), NEW n \in InHeap(h),
           NEW b \in InHeap(g), b \notin InHeap(h),
           g[b].kids = h[n].kids, g[b].depth = h[n].depth, OncePer(g[b].items),
           FullyContains(g[b].region, h[n].region),
           \A x \in Own(g[b]) : FullyContains(g[b].region, x.box) /\ KidFor(h, h[n], x.box) = 0
    PROVE  /\ Sound(g, b)
           /\ Held(g, b) = Own(g[b]) \cup Below(h, n)
           /\ Under(g, b) \cap InHeap(h) \subseteq Under(h, n)
<1> DEFINE N == Len(h[n].kids)
           K == h[n].kids
<1>1. /\ Heap(h) /\ Sound(h, n)
      /\ N \in Nat /\ \A j \in 1..N : K[j] \in InHeap(h) /\ g[K[j]] = h[K[j]]
  <2>1. Heap(h) /\ Sound(h, n)
        BY DEF SoundHeap
  <2>2. KidsIn(h[n], Len(h)) /\ N \in Nat
        BY <2>1, NodeFact
  <2>3. \A j \in 1..N : K[j] \in InHeap(h)
        BY <2>2 DEF KidsIn, InHeap
  <2> QED BY <2>1, <2>2, <2>3 DEF Grew
<1>2. \A y : KidFor(g, g[b], y) = KidFor(h, h[n], y)
  <2>1. DOMAIN K = 1..N
        BY <1>1, NodeFact
  <2>2. PICK p, q : p = g[b] /\ q = h[n]
        OBVIOUS
  <2>3. p.kids = q.kids /\ \A j \in DOMAIN q.kids : g[q.kids[j]].region = h[q.kids[j]].region
        BY <1>1, <2>1, <2>2
  <2>4. ASSUME NEW y PROVE KidFor(g, p, y) = KidFor(h, q, y)
    <3>1. {j \in DOMAIN p.kids : FullyContains(g[p.kids[j]].region, y)}
             = {j \in DOMAIN q.kids : FullyContains(h[q.kids[j]].region, y)}
          BY <2>3
    <3> QED BY <3>1 DEF KidFor
  <2> QED BY <2>2, <2>4
<1>3. \A j \in 1..N : Held(g, K[j]) = Held(h, K[j]) /\ Under(g, K[j]) = Under(h, K[j])
      BY <1>1, UnderStands
<1>4. Shaped(g, b)
  <2>1. /\ Upright(h[n].region) /\ h[n].depth <= MaxDepth /\ (N # 0 => N = 4 /\ h[n].depth < MaxDepth)
        /\ \A j \in 1..N : h[K[j]].depth = h[n].depth + 1 /\ FullyContains(h[n].region, h[K[j]].region)
        /\ \A i, j \in 1..N : K[i] = K[j] => i = j
        BY <1>1 DEF Sound, Shaped
  <2>2. /\ g[b].region \in BoxType /\ h[n].region \in BoxType
        /\ \A j \in 1..N : h[K[j]].region \in BoxType
        BY <1>1, NodeFact
  <2>3. Upright(g[b].region)
        BY <2>1, <2>2, UprightFact
  <2>4. \A j \in 1..N : g[K[j]].depth = g[b].depth + 1 /\ FullyContains(g[b].region, g[K[j]].region)
        BY <1>1, <2>1, <2>2, ContainsFact
  <2> QED BY <2>1, <2>3, <2>4 DEF Shaped
<1>5. Placed(g, b)
  <2>1. \A j \in 1..N : \A x \in Held(h, K[j]) : KidFor(h, h[n], x.box) = j
        BY <1>1 DEF Sound, Placed
  <2>2. \A j \in 1..N : \A x \in Held(g, K[j]) : KidFor(g, g[b], x.box) = j
        BY <1>2, <1>3, <2>1
  <2>3. \A x \in Own(g[b]) : FullyContains(g[b].region, x.box) /\ KidFor(g, g[b], x.box) = 0
        BY <1>2
  <2> QED BY <2>2, <2>3 DEF Placed
<1>6. Held(g, b) = Own(g[b]) \cup Below(h, n)
  <2>1. Held(g, b) = Own(g[b]) \cup Below(g, b)
        BY HeldBelow
  <2>2. Below(g, b) = Below(h, n)
        BY <1>3 DEF Below
  <2> QED BY <2>1, <2>2
<1>7. Under(g, b) \cap InHeap(h) \subseteq Under(h, n)
  <2>1. \A m \in Under(g, b) : m = b \/ \E j \in 1..N : m \in Under(g, K[j])
        BY UnderKids
  <2>2. \A j \in 1..N : Under(h, K[j]) \subseteq Under(h, n)
        BY <1>1, UnderKids
  <2> QED BY <1>3, <2>1, <2>2
<1> QED BY <1>4, <1>5, <1>6, <1>7 DEF Sound

(* A node without kids has nothing under it. *)
LEMMA LeafFact ==
    ASSUME NEW h, Heap(h), NEW n \in InHeap(h), Len(h[n].kids) = 0
    PROVE  Under(h, n) = {n} /\ Held(h, n) = Own(h[n]) /\ \A box : KidFor(h, h[n], box) = 0
<1>1. n \in Under(h, n) /\ \A m \in Under(h, n) : m = n
      BY UnderClosed, UnderKids
<1>2. Held(h, n) = Own(h[n])
  <2>1. 1..Len(h[n].kids) = {}
        OBVIOUS
  <2>2. Below(h, n) = {}
        BY <2>1 DEF Below
  <2> QED BY <2>2, HeldBelow
<1>3. \A box : KidFor(h, h[n], box) \in 0..0
      BY KidFact
<1> QED BY <1>1, <1>2, <1>3

(* The last copy when it splits: what it had is dealt to four leaves, or    *)
(* stays.                                                                   *)
Dealt(its, r, q) == {x \in its : QuarterOf(r, x.box) = q}

SplitUp(h, g, b, r, d, its) ==
    /\ g[b].region = r /\ g[b].depth = d /\ Len(g[b].kids) = 4
    /\ Own(g[b]) = Dealt(its, r, 0) /\ OncePer(g[b].items)
    /\ \A i \in 1..4 :
          /\ g[b].kids[i] \in InHeap(g) /\ g[b].kids[i] \notin InHeap(h)
          /\ \A j \in 1..4 : g[b].kids[i] = g[b].kids[j] => i = j
          /\ g[g[b].kids[i]].region = Quarter(r, i) /\ g[g[b].kids[i]].depth = d + 1
          /\ Len(g[g[b].kids[i]].kids) = 0
          /\ Own(g[g[b].kids[i]]) = Dealt(its, r, i) /\ OncePer(g[g[b].kids[i]].items)

(* A box that goes to a quarter fits in it.                                 *)
LEMMA QuarterOfFact ==
    ASSUME NEW r, NEW y
    PROVE  /\ QuarterOf(r, y) \in 0..4
           /\ QuarterOf(r, y) # 0 => FullyContains(Quarter(r, QuarterOf(r, y)), y)
<1> DEFINE fit == {i \in 1..4 : FullyContains(Quarter(r, i), y)}
<1>1. QuarterOf(r, y) = Lowest(fit) /\ \A i \in fit : FullyContains(Quarter(r, i), y)
      BY DEF QuarterOf
<1>2. fit \in SUBSET (1..4) /\ 4 \in Nat
      OBVIOUS
<1> HIDE DEF fit
<1> QED BY <1>1, <1>2, LowestFact

(* A leaf that splits, and its four leaves, are sound and hold what it had. *)
LEMMA SplitSound ==
    ASSUME NEW h, NEW g, Heap(g), NEW b \in InHeap(g), b \notin InHeap(h),
           NEW r \in BoxType, Upright(r), NEW d \in Nat, d < MaxDepth, NEW its,
           \A x \in its : FullyContains(r, x.box),
           SplitUp(h, g, b, r, d, its)
    PROVE  /\ Sound(g, b) /\ \A i \in 1..4 : Sound(g, g[b].kids[i])
           /\ Held(g, b) = its /\ Under(g, b) \cap InHeap(h) = {}
<1>1. PICK k : k = g[b].kids
      OBVIOUS
<1>2. /\ g[b].region = r /\ g[b].depth = d /\ Len(k) = 4
      /\ Own(g[b]) = Dealt(its, r, 0) /\ OncePer(g[b].items)
      /\ \A i \in 1..4 : k[i] \in InHeap(g) /\ k[i] \notin InHeap(h)
      /\ \A i, j \in 1..4 : k[i] = k[j] => i = j
      /\ \A i \in 1..4 : g[k[i]].region = Quarter(r, i) /\ g[k[i]].depth = d + 1
      /\ \A i \in 1..4 : Len(g[k[i]].kids) = 0
      /\ \A i \in 1..4 : Own(g[k[i]]) = Dealt(its, r, i) /\ OncePer(g[k[i]].items)
      BY <1>1 DEF SplitUp
<1>3. DOMAIN g[b].kids = 1..4
      BY <1>1, <1>2, NodeFact
<1>4. \A y : KidFor(g, g[b], y) = QuarterOf(r, y)
  <2> SUFFICES ASSUME NEW y PROVE KidFor(g, g[b], y) = QuarterOf(r, y)
      OBVIOUS
  <2>1. {i \in DOMAIN g[b].kids : FullyContains(g[g[b].kids[i]].region, y)}
           = {i \in 1..4 : FullyContains(Quarter(r, i), y)}
        BY <1>1, <1>2, <1>3
  <2> QED BY <2>1 DEF KidFor, QuarterOf
<1>5. \A i \in 1..4 : /\ Under(g, k[i]) = {k[i]} /\ Held(g, k[i]) = Dealt(its, r, i)
                      /\ \A y : KidFor(g, g[k[i]], y) = 0
      BY <1>2, LeafFact
<1>6. MaxDepth \in Nat
      BY MaxDepthAssumption
<1>7. ASSUME NEW i \in 1..4 PROVE Sound(g, k[i])
  <2>1. Upright(Quarter(r, i))
        BY QuarterFact
  <2>2. d + 1 <= MaxDepth
        BY <1>6
  <2>3. Shaped(g, k[i])
    <3>1. g[k[i]].depth <= MaxDepth /\ Upright(g[k[i]].region)
          BY <1>2, <2>1, <2>2
    <3>2. Len(g[k[i]].kids) = 0 /\ 1..0 = {}
          BY <1>2
    <3> QED BY <3>1, <3>2 DEF Shaped
  <2>4. \A x \in Own(g[k[i]]) : FullyContains(g[k[i]].region, x.box) /\ KidFor(g, g[k[i]], x.box) = 0
    <3>1. \A x \in Dealt(its, r, i) : FullyContains(Quarter(r, i), x.box)
          BY QuarterOfFact DEF Dealt
    <3> QED BY <1>2, <1>5, <3>1
  <2>5. Placed(g, k[i])
    <3>1. Len(g[k[i]].kids) = 0 /\ 1..0 = {}
          BY <1>2
    <3> QED BY <1>2, <2>4, <3>1 DEF Placed
  <2> QED BY <2>3, <2>5 DEF Sound
<1>8. Sound(g, b)
  <2>1. \A i \in 1..4 : g[k[i]].depth = g[b].depth + 1 /\ FullyContains(g[b].region, g[k[i]].region)
    <3>1. \A i \in 1..4 : FullyContains(r, Quarter(r, i))
          BY QuarterFact
    <3> QED BY <1>2, <3>1
  <2>2. d <= MaxDepth
        BY <1>6
  <2>3. Shaped(g, b)
        BY <1>1, <1>2, <2>1, <2>2 DEF Shaped
  <2>4. \A x \in Own(g[b]) : FullyContains(g[b].region, x.box) /\ KidFor(g, g[b], x.box) = 0
        BY <1>2, <1>4 DEF Dealt
  <2>5. \A i \in 1..4 : \A x \in Held(g, k[i]) : KidFor(g, g[b], x.box) = i
        BY <1>4, <1>5 DEF Dealt
  <2>6. Placed(g, b)
        BY <1>1, <1>2, <2>4, <2>5 DEF Placed
  <2> QED BY <2>3, <2>6 DEF Sound
<1>9. Held(g, b) = its
  <2>1. Held(g, b) = Own(g[b]) \cup Below(g, b)
        BY HeldBelow
  <2>2. Below(g, b) = UNION {Dealt(its, r, i) : i \in 1..4}
    <3>1. Below(g, b) = UNION {Held(g, k[i]) : i \in 1..4}
          BY <1>1, <1>2 DEF Below
    <3> QED BY <1>5, <3>1
  <2>3. \A x \in its : QuarterOf(r, x.box) = 0 \/ QuarterOf(r, x.box) \in 1..4
    <3>1. \A x \in its : QuarterOf(r, x.box) \in 0..4
          BY QuarterOfFact
    <3>2. \A q \in 0..4 : q = 0 \/ q \in 1..4
          OBVIOUS
    <3> QED BY <3>1, <3>2
  <2> QED BY <1>2, <2>1, <2>2, <2>3 DEF Dealt
<1>10. Under(g, b) \cap InHeap(h) = {}
  <2>3. \A m \in Under(g, b) : m = b \/ \E i \in 1..Len(g[b].kids) : m \in Under(g, g[b].kids[i])
        BY UnderKids
  <2>1. \A m \in Under(g, b) : m = b \/ \E i \in 1..4 : m \in Under(g, k[i])
        BY <1>1, <1>2, <2>3
  <2>2. \A m \in Under(g, b) : m = b \/ \E i \in 1..4 : m = k[i]
        BY <1>5, <2>1
  <2> QED BY <1>2, <2>2
<1> QED BY <1>1, <1>7, <1>8, <1>9, <1>10

(* What InsertCopy makes of a leaf that splits is just that. *)
SplitInto(g, b, base, node) ==
    /\ g[b] = [node EXCEPT !.items = TakenBy(node, 0), !.kids = [i \in 1..4 |-> base + i]]
    /\ \A i \in 1..4 : g[base + i] = SplitKids(node)[i]

(* The nodes InsertCopy appends for a split are those of SplitUp.           *)
LEMMA SplitParts ==
    ASSUME NEW h, NEW g, Heap(h), Heap(g), NEW b \in InHeap(g),
           NEW base \in Nat, Len(h) <= base, base + 4 <= Len(g),
           NEW holder \in NodeType, OncePer(holder.items), SplitInto(g, b, base, holder)
    PROVE  /\ SplitUp(h, g, b, holder.region, holder.depth, Items(holder.items))
           /\ \A i \in 1..4 : g[b].kids[i] = base + i
<1>1. PICK r, d : r = holder.region /\ d = holder.depth
      OBVIOUS
<1>2. Len(h) \in Nat /\ Len(g) \in Nat
      BY DEF Heap
<1>3. /\ g[b].region = r /\ g[b].depth = d /\ g[b].items = TakenBy(holder, 0)
      /\ g[b].kids = [i \in 1..4 |-> base + i]
      BY <1>1 DEF NodeType, SplitInto
<1>4. g[b].kids \in [1..4 -> Nat] /\ \A i \in 1..4 : g[b].kids[i] = base + i
      BY <1>3
<1>5. Len(g[b].kids) = 4
      BY <1>4, FunctionIsSeq
<1>6. \A i \in 1..4 : base + i \in InHeap(g) /\ base + i \notin InHeap(h)
      BY <1>2 DEF InHeap
<1>7. \A i, j \in 1..4 : base + i = base + j => i = j
      OBVIOUS
<1>8. ASSUME NEW i \in 1..4
      PROVE  /\ g[base + i].region = Quarter(r, i) /\ g[base + i].depth = d + 1
             /\ g[base + i].items = TakenBy(holder, i) /\ g[base + i].kids = <<>>
  <2>1. PICK q, its, n : q = Quarter(r, i) /\ its = TakenBy(holder, i) /\ n = g[base + i]
        OBVIOUS
  <2>2. n = [EmptyNode(q, d + 1) EXCEPT !.items = its]
        BY <1>1, <2>1 DEF SplitKids, SplitInto
  <2>3. n = [region |-> q, depth |-> d + 1, items |-> its, kids |-> <<>>]
        BY <2>2 DEF EmptyNode
  <2>4. n.region = q /\ n.depth = d + 1 /\ n.items = its /\ n.kids = <<>>
        BY <2>3
  <2> QED BY <2>1, <2>4
<1>9. \A q : /\ Items(TakenBy(holder, q)) = Dealt(Items(holder.items), r, q)
             /\ OncePer(TakenBy(holder, q))
      BY <1>1, TakenParts DEF Dealt
<1>10. Own(g[b]) = Dealt(Items(holder.items), r, 0) /\ OncePer(g[b].items)
  <2>1. Own(g[b]) = Items(g[b].items)
        BY OwnFact
  <2>2. PICK its : its = TakenBy(holder, 0)
        OBVIOUS
  <2>3. Items(its) = Dealt(Items(holder.items), r, 0) /\ OncePer(its)
        BY <1>9, <2>2
  <2> QED BY <1>3, <2>1, <2>2, <2>3
<1>11. ASSUME NEW i \in 1..4
       PROVE  /\ Own(g[base + i]) = Dealt(Items(holder.items), r, i) /\ OncePer(g[base + i].items)
              /\ Len(g[base + i].kids) = 0
  <2>1. PICK n : n = base + i
        OBVIOUS
  <2>2. n \in InHeap(g) /\ g[n].items = TakenBy(holder, i) /\ g[n].kids = <<>>
        BY <1>6, <1>8, <2>1
  <2>3. Own(g[n]) = Dealt(Items(holder.items), r, i) /\ OncePer(g[n].items)
        BY <1>9, <2>2, OwnFact
  <2>4. Len(g[n].kids) = 0
        BY <2>2
  <2> QED BY <2>1, <2>3, <2>4
<1>12. PICK its : its = Items(holder.items)
       OBVIOUS
<1>13. ASSUME NEW i \in 1..4
       PROVE  /\ g[b].kids[i] \in InHeap(g) /\ g[b].kids[i] \notin InHeap(h)
              /\ \A j \in 1..4 : g[b].kids[i] = g[b].kids[j] => i = j
              /\ g[g[b].kids[i]].region = Quarter(r, i) /\ g[g[b].kids[i]].depth = d + 1
              /\ Len(g[g[b].kids[i]].kids) = 0
              /\ Own(g[g[b].kids[i]]) = Dealt(its, r, i) /\ OncePer(g[g[b].kids[i]].items)
  <2>1. g[b].kids[i] = base + i /\ \A j \in 1..4 : g[b].kids[j] = base + j
        BY <1>4
  <2>2. PICK n : n = base + i
        OBVIOUS
  <2>3. n \in InHeap(g) /\ n \notin InHeap(h)
        BY <1>6, <2>2
  <2>4. \A j \in 1..4 : g[b].kids[i] = g[b].kids[j] => i = j
        BY <1>7, <2>1
  <2>5. g[n].region = Quarter(r, i) /\ g[n].depth = d + 1
        BY <1>8, <2>2
  <2>6. Len(g[n].kids) = 0 /\ Own(g[n]) = Dealt(its, r, i) /\ OncePer(g[n].items)
        BY <1>11, <1>12, <2>2
  <2>7. g[b].kids[i] = n
        BY <2>1, <2>2
  <2> QED BY <2>3, <2>4, <2>5, <2>6, <2>7
<1> QED BY <1>1, <1>3, <1>4, <1>5, <1>10, <1>12, <1>13 DEF SplitUp

(* Widening the root changes its region only.                               *)
Widens(h, root, box, wide) == wide = [h EXCEPT ![root] = WidenedRoot(h[root], box)]

(* The widened root has the box; its items, depth and kids are as they      *)
(* were.                                                                    *)
LEMMA WideParts ==
    ASSUME NEW h, Heap(h), NEW root \in InHeap(h), NEW box \in BoxType,
           NEW wide, Widens(h, root, box, wide)
    PROVE  /\ Heap(wide) /\ Len(wide) = Len(h)
           /\ FullyContains(wide[root].region, box)
           /\ \A m \in InHeap(h) :
                 /\ wide[m].items = h[m].items /\ wide[m].depth = h[m].depth /\ wide[m].kids = h[m].kids
                 /\ FullyContains(wide[m].region, h[m].region)
                 /\ m # root => wide[m].region = h[m].region
<1>1. Heap(wide) /\ Len(wide) = Len(h)
      BY WideFact DEF Widens
<1>2. \A m \in InHeap(h) : wide[m] = IF m = root THEN WidenedRoot(h[root], box) ELSE h[m]
      BY NodeFact DEF Widens
<1>3. PICK node, w : node = h[root] /\ w = WidenedRoot(node, box)
      OBVIOUS
<1>4. node \in NodeType /\ node.region \in BoxType
      BY <1>3, NodeFact
<1>5. /\ w.items = node.items /\ w.depth = node.depth /\ w.kids = node.kids
      /\ FullyContains(w.region, node.region) /\ FullyContains(w.region, box)
  <2> DEFINE r == Expand(node.region, box)
  <2>1. FullyContains(r, node.region) /\ FullyContains(r, box)
        BY <1>4, ExpandFact
  <2>2. w = IF FullyContains(node.region, box) THEN node ELSE [node EXCEPT !.region = r]
        BY <1>3 DEF WidenedRoot
  <2> HIDE DEF r
  <2>3. CASE FullyContains(node.region, box)
    <3>1. FullyContains(node.region, node.region)
          BY <1>4 DEF FullyContains, BoxType
    <3> QED BY <2>2, <2>3, <3>1
  <2>4. CASE ~FullyContains(node.region, box)
        BY <1>4, <2>1, <2>2, <2>4 DEF NodeType
  <2> QED BY <2>3, <2>4
<1>6. \A m \in InHeap(h) : FullyContains(h[m].region, h[m].region)
  <2>1. \A m \in InHeap(h) : h[m].region \in BoxType
        BY NodeFact
  <2> QED BY <2>1 DEF FullyContains, BoxType
<1>7. ASSUME NEW m \in InHeap(h)
      PROVE  /\ wide[m].items = h[m].items /\ wide[m].depth = h[m].depth /\ wide[m].kids = h[m].kids
             /\ FullyContains(wide[m].region, h[m].region)
             /\ m # root => wide[m].region = h[m].region
  <2>1. CASE m = root
        BY <1>2, <1>3, <1>5, <2>1
  <2>2. CASE m # root
        BY <1>2, <1>6, <2>2
  <2> QED BY <2>1, <2>2
<1> QED BY <1>1, <1>2, <1>3, <1>5, <1>7

(* Where the path of a box ends, the box fits.                              *)
LEMMA EndFits ==
    ASSUME NEW h, SoundHeap(h), NEW p \in Paths(h), NEW box, Route(h, p, box), Len(p) # 1
    PROVE  FullyContains(h[End(p)].region, box)
<1>1. Heap(h) /\ Len(p) \in Nat /\ Len(p) # 0 /\ \A j \in 1..Len(p) : p[j] \in InHeap(h)
      BY PathsFact DEF SoundHeap
<1>2. PICK j : j = Len(p) - 1
      OBVIOUS
<1>3. j \in 1..Len(p) /\ j \in 1..(Len(p) - 1) /\ j + 1 = Len(p)
      BY <1>1, <1>2
<1>4. PICK n : n = p[j]
      OBVIOUS
<1>5. n \in InHeap(h) /\ KidFor(h, h[n], box) \in 1..Len(h[n].kids)
      /\ End(p) = h[n].kids[KidFor(h, h[n], box)]
      BY <1>1, <1>3, <1>4 DEF Route, End
<1>6. KidFor(h, h[n], box) # 0
      BY <1>5
<1> QED BY <1>1, <1>5, <1>6, KidContains

(* The end of the path, with the new item: kept as it is, or split.         *)
WithItem(h, n, zone, box, it, node) ==
    /\ it = [zone |-> zone, box |-> box] /\ it \in ItemType
    /\ \A x \in Held(h, n) : x.zone # zone
    /\ KidFor(h, h[n], box) = 0
    /\ node \in NodeType /\ node.items = Append(h[n].items, it) /\ node.kids = h[n].kids
    /\ node.depth = h[n].depth /\ FullyContains(node.region, h[n].region) /\ FullyContains(node.region, box)

(* The end of the path, copied with the new item.                           *)
LastCopy(h, g, n, b, zone, box, it, node) ==
    /\ SoundHeap(h) /\ Heap(g) /\ Grew(h, g) /\ n \in InHeap(h)
    /\ WithItem(h, n, zone, box, it, node)
    /\ b \in InHeap(g) /\ b \notin InHeap(h)
    /\ \/ g[b] = node
       \/ /\ Len(node.kids) = 0 /\ node.depth < MaxDepth
          /\ SplitUp(h, g, b, node.region, node.depth, Items(node.items))

(* Kept whole or split, the last copy holds what its node held and the new  *)
(* item.                                                                    *)
LEMMA InsertLast ==
    ASSUME NEW h, NEW g, NEW n, NEW b, NEW zone, NEW box, NEW it, NEW node,
           LastCopy(h, g, n, b, zone, box, it, node)
    PROVE  /\ Redone(h, g, n, b, zone, {it})
           /\ g[b] # node => \A i \in 1..4 : Sound(g, g[b].kids[i])
<1>1. /\ SoundHeap(h) /\ Heap(g) /\ Grew(h, g) /\ n \in InHeap(h)
      /\ WithItem(h, n, zone, box, it, node)
      /\ b \in InHeap(g) /\ b \notin InHeap(h)
      /\ \/ g[b] = node
         \/ /\ Len(node.kids) = 0 /\ node.depth < MaxDepth
            /\ SplitUp(h, g, b, node.region, node.depth, Items(node.items))
      BY DEF LastCopy
<1> USE <1>1
<1>2. /\ it = [zone |-> zone, box |-> box] /\ it \in ItemType
      /\ \A x \in Held(h, n) : x.zone # zone
      /\ KidFor(h, h[n], box) = 0
      /\ node \in NodeType /\ node.items = Append(h[n].items, it) /\ node.kids = h[n].kids
      /\ node.depth = h[n].depth /\ FullyContains(node.region, h[n].region) /\ FullyContains(node.region, box)
      BY DEF WithItem
<1> USE <1>2
<1>3. /\ Heap(h) /\ Sound(h, n) /\ h[n].region \in BoxType /\ node.region \in BoxType
      /\ Own(h[n]) = Items(h[n].items) /\ h[n].items \in Seq(ItemType) /\ node.depth \in Nat
      /\ Own(h[n]) \in SUBSET ItemType
  <2>1. Heap(h) /\ Sound(h, n)
        BY DEF SoundHeap
  <2>2. node.region \in BoxType /\ node.depth \in Nat
        BY DEF NodeType
  <2> QED BY <2>1, <2>2, NodeFact, OwnFact
<1>4. it.zone = zone /\ it.box = box
      OBVIOUS
<1>5. Held(h, n) = Own(h[n]) \cup Below(h, n) /\ {x \in Held(h, n) : x.zone # zone} = Held(h, n)
      BY <1>3, HeldBelow
<1>6. /\ Upright(h[n].region) /\ OncePer(h[n].items)
      /\ \A x \in Own(h[n]) : FullyContains(h[n].region, x.box) /\ KidFor(h, h[n], x.box) = 0
      BY <1>3 DEF Sound, Shaped, Placed
<1>7. Items(node.items) = Own(h[n]) \cup {it} /\ OncePer(node.items)
  <2>1. \A y \in Items(h[n].items) : y.zone # it.zone
        BY <1>3, <1>4, <1>5
  <2> QED BY <1>3, <1>6, <2>1, AppendItems
<1>8. \A x \in Items(node.items) : FullyContains(node.region, x.box) /\ KidFor(h, h[n], x.box) = 0
  <2>1. \A x \in Own(h[n]) : x.box \in BoxType
        BY <1>3 DEF ItemType
  <2>2. \A x \in Own(h[n]) : FullyContains(node.region, x.box)
        BY <1>3, <1>6, <2>1, ContainsFact
  <2> QED BY <1>4, <1>6, <1>7, <2>2
<1>9. CASE g[b] = node
  <2>1. Own(g[b]) = Items(node.items)
        BY <1>9, OwnFact
  <2>2. /\ Sound(g, b)
        /\ Held(g, b) = Own(g[b]) \cup Below(h, n)
        /\ Under(g, b) \cap InHeap(h) \subseteq Under(h, n)
    <3>1. \A x \in Own(g[b]) : FullyContains(g[b].region, x.box) /\ KidFor(h, h[n], x.box) = 0
          BY <1>8, <1>9, <2>1
    <3>2. g[b].kids = h[n].kids /\ g[b].depth = h[n].depth /\ OncePer(g[b].items)
          /\ FullyContains(g[b].region, h[n].region)
          BY <1>7, <1>9
    <3> QED BY <3>1, <3>2, SameKids
  <2>3. Held(g, b) = {x \in Held(h, n) : x.zone # zone} \cup {it}
        BY <1>5, <1>7, <2>1, <2>2
  <2> QED BY <1>9, <2>2, <2>3 DEF Redone
<1>10. CASE /\ Len(node.kids) = 0 /\ node.depth < MaxDepth
            /\ SplitUp(h, g, b, node.region, node.depth, Items(node.items))
  <2>1. Upright(node.region)
        BY <1>3, <1>6, UprightFact
  <2>2. PICK r, d, its : r = node.region /\ d = node.depth /\ its = Items(node.items)
        OBVIOUS
  <2>3. /\ r \in BoxType /\ Upright(r) /\ d \in Nat /\ d < MaxDepth
        /\ \A x \in its : FullyContains(r, x.box)
        /\ SplitUp(h, g, b, r, d, its)
        BY <1>3, <1>8, <1>10, <2>1, <2>2
  <2>4. /\ Sound(g, b) /\ \A i \in 1..4 : Sound(g, g[b].kids[i])
        /\ Held(g, b) = its /\ Under(g, b) \cap InHeap(h) = {}
        BY <2>3, SplitSound
  <2>5. Held(h, n) = Own(h[n])
        BY <1>3, <1>10, LeafFact
  <2>6. Held(g, b) = {x \in Held(h, n) : x.zone # zone} \cup {it}
        BY <1>5, <1>7, <2>2, <2>4, <2>5
  <2> QED BY <2>4, <2>6 DEF Redone
<1> QED BY <1>9, <1>10

(* Widening the root changes no path.                                       *)
LEMMA WidePath ==
    ASSUME NEW h, NEW wide, Heap(h), Heap(wide), Len(wide) = Len(h), NEW p \in Paths(h)
    PROVE  p \in Paths(wide)
BY DEF Paths, InHeap

(* Inserting a zone that is not there keeps every node sound, and the new   *)
(* root holds what the old one did and the zone in its box.                 *)
LEMMA InsertSound ==
    ASSUME NEW h, SoundHeap(h), NEW root \in InHeap(h), h[root].depth = 0,
           NEW zone \in Zones, NEW box \in BoxType, \A x \in Held(h, root) : x.zone # zone
    PROVE  LET g == InsertCopy(h, root, zone, box)
               new == Len(h) + 1
           IN  /\ SoundHeap(g) /\ Grew(h, g) /\ new \in InHeap(g) /\ g[new].depth = 0
               /\ Held(g, new) = Held(h, root) \cup {[zone |-> zone, box |-> box]}
<1>1. PICK g : g = InsertCopy(h, root, zone, box)
      OBVIOUS
<1>2. Heap(h) /\ Heap(g) /\ Grew(h, g) /\ Len(h) + 1 \in InHeap(g) /\ Len(h) \in Nat /\ Len(g) \in Nat
      BY <1>1, InsertParts DEF SoundHeap, Heap
<1>3. PICK p, wide, holder, last, more : InsertedAs(h, g, root, zone, box, p, wide, holder, last, more)
      BY <1>1, InsertParts DEF SoundHeap
<1>4. PICK it : it = [zone |-> zone, box |-> box]
      OBVIOUS
<1>5. it \in ItemType /\ it.box = box /\ it.zone = zone
      BY <1>4 DEF ItemType
<1>6. PICK L, N, n, b : L = Len(h) /\ N = Len(p) /\ n = End(p) /\ b = L + N
      OBVIOUS
<1>7. /\ p \in Paths(h) /\ p[1] = root /\ Route(h, p, box) /\ KidFor(h, h[n], box) = 0
  <2>1. p = PathOf(h, root, box)
        BY <1>3 DEF InsertedAs
  <2> QED BY <1>6, <2>1, PathShape
<1>8. N \in Nat /\ N # 0 /\ L \in Nat /\ n \in InHeap(h) /\ n = p[N] /\ \A j \in 1..N : p[j] \in InHeap(h)
      BY <1>2, <1>6, <1>7, PathsFact DEF End
<1>9. /\ Heap(wide) /\ Len(wide) = L
      /\ FullyContains(wide[root].region, box)
      /\ \A m \in InHeap(h) :
            /\ wide[m].items = h[m].items /\ wide[m].depth = h[m].depth /\ wide[m].kids = h[m].kids
            /\ FullyContains(wide[m].region, h[m].region)
            /\ m # root => wide[m].region = h[m].region
  <2>1. Widens(h, root, box, wide)
        BY <1>3 DEF InsertedAs, Widens
  <2> QED BY <1>2, <1>6, <2>1, WideParts
<1>10. \A j \in 1..N : h[p[j]].depth = j - 1 /\ (j # 1 => p[j] # root)
  <2>1. \A j \in 1..N : h[p[j]].depth = j - 1
        BY <1>6, <1>7 DEF Route
  <2> QED BY <2>1
<1>11. /\ holder \in NodeType /\ Len(more) \in Nat /\ Len(g) = L + N + Len(more)
       /\ \A j \in 1..N : g[L + j] = Copied(wide, p, j, last)
       /\ \A i \in 1..Len(more) : g[b + i] = more[i]
       /\ \/ last = holder /\ Len(more) = 0
          \/ /\ IsLeaf(holder) /\ holder.depth < MaxDepth
             /\ last = [holder EXCEPT !.items = TakenBy(holder, 0), !.kids = [i \in 1..4 |-> b + i]]
             /\ more = SplitKids(holder) /\ Len(more) = 4
      BY <1>3, <1>6 DEF InsertedAs
<1>12. /\ holder.items = Append(h[n].items, it) /\ holder.kids = h[n].kids /\ holder.depth = h[n].depth
       /\ holder.region = wide[n].region
  <2>1. holder = [wide[n] EXCEPT !.items = Append(@, it)] /\ wide[n] \in NodeType
    <3>1. n \in InHeap(wide)
          BY <1>6, <1>8, <1>9 DEF InHeap
    <3>2. wide[n] \in NodeType
          BY <1>9, <3>1, NodeFact
    <3> QED BY <1>3, <1>4, <1>6, <1>8, <3>2 DEF InsertedAs
  <2>2. /\ holder.items = Append(wide[n].items, it) /\ holder.kids = wide[n].kids
        /\ holder.depth = wide[n].depth /\ holder.region = wide[n].region
        BY <2>1 DEF NodeType
  <2> QED BY <1>8, <1>9, <2>2
<1>13. FullyContains(holder.region, box) /\ FullyContains(holder.region, h[n].region)
  <2>1. CASE N = 1
        BY <1>7, <1>8, <1>9, <1>12, <2>1
  <2>2. CASE N # 1
    <3>1. FullyContains(h[n].region, box)
          BY <1>6, <1>7, <2>2, EndFits
    <3>2. N \in 1..N
          BY <1>8
    <3>3. wide[n].region = h[n].region
          BY <1>8, <1>9, <1>10, <2>2, <3>2
    <3> QED BY <1>8, <1>9, <1>12, <3>1, <3>3
  <2> QED BY <2>1, <2>2
<1>14. b \in InHeap(g) /\ b \notin InHeap(h) /\ b \in Nat /\ L <= b
       BY <1>2, <1>6, <1>8, <1>11 DEF InHeap
<1>15. g[b] = last
  <2>1. N \in 1..N
        BY <1>8
  <2>2. g[L + N] = Copied(wide, p, N, last)
        BY <1>11, <2>1
  <2> QED BY <1>6, <2>2 DEF Copied
<1>16. \A x \in Held(h, root) : x.zone # zone
      OBVIOUS
<1>17. \A x \in Held(h, n) : x.zone # zone
  <2>1. N \in 1..N
        BY <1>8
  <2>2. Held(h, n) \subseteq Held(h, root)
        BY <1>6, <1>7, <1>8, <2>1, RouteNarrows
  <2> QED BY <1>16, <2>2
<1>18. OncePer(holder.items)
  <2>1. Sound(h, n) /\ Own(h[n]) = Items(h[n].items) /\ h[n].items \in Seq(ItemType)
        BY <1>2, <1>8, NodeFact, OwnFact DEF SoundHeap
  <2>2. \A y \in Items(h[n].items) : y.zone # it.zone
        BY <1>2, <1>5, <1>8, <1>17, <2>1, HeldKids
  <2>3. OncePer(h[n].items)
        BY <2>1 DEF Sound, Placed
  <2> QED BY <1>5, <1>12, <2>1, <2>2, <2>3, AppendItems
<1>19. \/ g[b] = holder /\ Len(more) = 0
       \/ /\ Len(holder.kids) = 0 /\ holder.depth < MaxDepth /\ Len(more) = 4
          /\ SplitUp(h, g, b, holder.region, holder.depth, Items(holder.items))
          /\ \A i \in 1..4 : g[b].kids[i] = b + i
  <2>1. CASE last = holder /\ Len(more) = 0
        BY <1>15, <2>1
  <2>2. CASE /\ IsLeaf(holder) /\ holder.depth < MaxDepth
             /\ last = [holder EXCEPT !.items = TakenBy(holder, 0), !.kids = [i \in 1..4 |-> b + i]]
             /\ more = SplitKids(holder) /\ Len(more) = 4
    <3>1. holder.kids = <<>> /\ Len(holder.kids) = 0
          BY <2>2 DEF IsLeaf
    <3>2. \A i \in 1..4 : g[b + i] = SplitKids(holder)[i]
          BY <1>11, <2>2
    <3>3. g[b] = [holder EXCEPT !.items = TakenBy(holder, 0), !.kids = [i \in 1..4 |-> b + i]]
          BY <1>15, <2>2
    <3>4. b + 4 <= Len(g) /\ Len(h) <= b
      <4>1. Len(g) = L + N + 4
            BY <1>11, <2>2
      <4> QED BY <1>6, <1>8, <4>1
    <3>6. SplitInto(g, b, b, holder) /\ holder \in NodeType
          BY <1>11, <3>2, <3>3 DEF SplitInto
    <3>5. /\ SplitUp(h, g, b, holder.region, holder.depth, Items(holder.items))
          /\ \A i \in 1..4 : g[b].kids[i] = b + i
          BY <1>2, <1>14, <1>18, <3>4, <3>6, SplitParts
    <3> QED BY <2>2, <3>1, <3>5
  <2> QED BY <1>11, <2>1, <2>2
<1>20. /\ Redone(h, g, n, b, zone, {it})
       /\ g[b] # holder => \A i \in 1..4 : Sound(g, g[b].kids[i])
  <2>1. \/ g[b] = holder
        \/ /\ Len(holder.kids) = 0 /\ holder.depth < MaxDepth
           /\ SplitUp(h, g, b, holder.region, holder.depth, Items(holder.items))
        BY <1>19
  <2>2. WithItem(h, n, zone, box, it, holder)
        BY <1>4, <1>5, <1>7, <1>11, <1>12, <1>13, <1>17 DEF WithItem
  <2>3. Heap(g) /\ Grew(h, g) /\ n \in InHeap(h) /\ b \in InHeap(g) /\ b \notin InHeap(h)
        BY <1>2, <1>8, <1>14
  <2>4. LastCopy(h, g, n, b, zone, box, it, holder)
        BY <2>1, <2>2, <2>3 DEF LastCopy
  <2> QED BY <2>4, InsertLast
<1>21. p \in Paths(wide)
       BY <1>2, <1>6, <1>7, <1>9, WidePath
<1>22. ASSUME NEW j \in 1..(N - 1)
       PROVE  /\ j \in 1..N
              /\ CopyOf(h, g, p[j], L + j)
              /\ g[L + j].region = wide[p[j]].region
              /\ Len(g[L + j].kids) = Len(h[p[j]].kids)
              /\ \A i \in 1..Len(h[p[j]].kids) :
                    g[L + j].kids[i] = IF h[p[j]].kids[i] = p[j + 1] THEN L + j + 1 ELSE h[p[j]].kids[i]
  <2>1. j \in 1..N /\ j \in 1..(Len(p) - 1)
        BY <1>6, <1>8
  <2>2. PICK c, m : c = Copied(wide, p, j, last) /\ m = p[j]
        OBVIOUS
  <2>3. m \in InHeap(h) /\ g[L + j] = c
        BY <1>8, <1>11, <2>1, <2>2
  <2>6. Heap(wide)
        BY <1>9
  <2>4. /\ c.items = wide[m].items /\ c.depth = wide[m].depth /\ c.region = wide[m].region
        /\ Len(c.kids) = Len(wide[m].kids)
        /\ \A i \in 1..Len(wide[m].kids) :
              c.kids[i] = IF wide[m].kids[i] = p[j + 1] THEN Len(wide) + j + 1 ELSE wide[m].kids[i]
    <3>1. CopyParts(wide, p, j, m, c)
          BY <1>21, <2>1, <2>2, <2>6, CopiedParts
    <3> QED BY <3>1 DEF CopyParts
  <2>5. /\ wide[m].items = h[m].items /\ wide[m].depth = h[m].depth /\ wide[m].kids = h[m].kids
        /\ FullyContains(wide[m].region, h[m].region) /\ Len(wide) = L
        BY <1>9, <2>3
  <2> QED BY <2>1, <2>2, <2>3, <2>4, <2>5 DEF CopyOf
<1>23. \A j \in 1..N : /\ g[L + j].depth = h[p[j]].depth
                       /\ j # 1 => g[L + j].region = h[p[j]].region
  <2> SUFFICES ASSUME NEW j \in 1..N
               PROVE  /\ g[L + j].depth = h[p[j]].depth
                      /\ j # 1 => g[L + j].region = h[p[j]].region
      OBVIOUS
  <2>1. j # 1 => wide[p[j]].region = h[p[j]].region
        BY <1>8, <1>9, <1>10
  <2>2. CASE j = N
    <3>1. g[b].depth = holder.depth /\ g[b].region = holder.region
          BY <1>19 DEF SplitUp
    <3> QED BY <1>6, <1>8, <1>12, <2>1, <2>2, <3>1
  <2>3. CASE j # N
    <3>1. j \in 1..(N - 1)
          BY <1>8, <2>3
    <3> QED BY <1>22, <2>1, <3>1 DEF CopyOf
  <2> QED BY <2>2, <2>3
<1>24. \A j \in 1..N : Redone(h, g, p[j], L + j, zone, {it})
  <2>1. (\A x \in {it} : x.box = box) /\ (\A x \in Held(h, p[1]) : x.zone = zone => x.box = box)
        BY <1>5, <1>7, <1>16
  <2>2. L + N <= Len(g)
    <3>1. Len(g) = L + N + Len(more) /\ Len(more) \in Nat
          BY <1>11
    <3> QED BY <1>8, <3>1
  <2>3. Chained(h, g, p, L, N)
        BY <1>6, <1>22, <1>23, <2>2 DEF Chained
  <2>4. Redone(h, g, p[N], L + N, zone, {it})
        BY <1>6, <1>8, <1>20
  <2> QED BY <1>2, <1>7, <2>1, <2>3, <2>4, ChainFact
<1>25. SoundHeap(g)
  <2> SUFFICES ASSUME NEW m \in InHeap(g) PROVE Sound(g, m)
      BY <1>2 DEF SoundHeap
  <2>1. CASE m \in InHeap(h)
        BY <1>2, <2>1, SoundStands DEF SoundHeap
  <2>2. CASE m \notin InHeap(h)
    <3>1. m \in (L + 1)..(L + N + Len(more))
          BY <1>2, <1>6, <1>11, <2>2 DEF InHeap
    <3>2. CASE m <= L + N
      <4>1. PICK j : j = m - L
            OBVIOUS
      <4>2. j \in 1..N /\ L + j = m
            BY <1>8, <3>1, <3>2, <4>1
      <4> QED BY <1>24, <4>2 DEF Redone
    <3>3. CASE ~(m <= L + N)
      <4>1. Len(more) # 0 /\ b + Len(more) = L + N + Len(more)
            BY <1>6, <1>8, <1>11, <3>1, <3>3
      <4>2. Len(more) = 4 /\ \A i \in 1..4 : g[b].kids[i] = b + i
            BY <1>19, <4>1
      <4>3. PICK i : i = m - b
            OBVIOUS
      <4>4. i \in 1..4 /\ b + i = m
        <5>1. m \in (L + N + 1)..(L + N + 4)
              BY <1>8, <3>1, <3>3, <4>2
        <5> QED BY <1>6, <1>8, <4>3, <5>1
      <4>5. CASE g[b] # holder
            BY <1>20, <4>2, <4>4, <4>5
      <4>6. CASE g[b] = holder
        <5>1. Len(g[b].kids) = 4 /\ Len(holder.kids) = 0
              BY <1>19, <4>1 DEF SplitUp
        <5>2. 4 # 0 /\ FALSE
              BY <4>6, <5>1
        <5> QED BY <5>2
      <4> QED BY <4>5, <4>6
    <3> QED BY <3>2, <3>3
  <2> QED BY <2>1, <2>2
<1>26. g[L + 1].depth = 0 /\ Held(g, L + 1) = Held(h, root) \cup {it}
  <2>1. 1 \in 1..N
        BY <1>8
  <2>2. Redone(h, g, root, L + 1, zone, {it}) /\ g[L + 1].depth = h[root].depth
        BY <1>7, <1>23, <1>24, <2>1
  <2>3. {x \in Held(h, root) : x.zone # zone} = Held(h, root)
        BY <1>16
  <2> QED BY <2>2, <2>3 DEF Redone
<1> QED BY <1>1, <1>2, <1>4, <1>6, <1>25, <1>26

(* What is left of a node without a zone.                                   *)
LEMMA PlaceFact ==
    ASSUME NEW node \in NodeType, NEW zone
    PROVE  /\ PlaceOf(node, zone) # 0 =>
                 /\ PlaceOf(node, zone) \in 1..Len(node.items)
                 /\ node.items[PlaceOf(node, zone)].zone = zone
           /\ (\E x \in Items(node.items) : x.zone = zone) => PlaceOf(node, zone) # 0
<1> DEFINE at == {i \in DOMAIN node.items : node.items[i].zone = zone}
<1>1. node.items \in Seq(ItemType) /\ Len(node.items) \in Nat /\ DOMAIN node.items = 1..Len(node.items)
  <2>1. node.items \in Seq(ItemType)
        BY DEF NodeType
  <2> QED BY <2>1
<1>2. at \in SUBSET (1..Len(node.items)) /\ PlaceOf(node, zone) = Lowest(at)
      BY <1>1 DEF PlaceOf
<1>3. (\E x \in Items(node.items) : x.zone = zone) => at # {}
      BY <1>1 DEF Items
<1>4. \A i \in at : node.items[i].zone = zone
      OBVIOUS
<1> HIDE DEF at
<1>5. /\ at = {} => Lowest(at) = 0
      /\ at # {} => Lowest(at) \in at /\ Lowest(at) # 0
      BY <1>1, <1>2, LowestFact
<1> QED BY <1>2, <1>3, <1>4, <1>5

(* A sequence without one of its elements, and a node without one of its    *)
(* zones.                                                                   *)
LEMMA RemoveAtFact ==
    ASSUME NEW S, NEW s \in Seq(S), NEW p \in 1..Len(s)
    PROVE  /\ RemoveAt(s, p) \in Seq(S) /\ Len(RemoveAt(s, p)) = Len(s) - 1
           /\ \A i \in 1..(Len(s) - 1) : RemoveAt(s, p)[i] = IF i < p THEN s[i] ELSE s[i + 1]
<1> DEFINE N == Len(s)
           a == SubSeq(s, 1, p - 1)
           b == SubSeq(s, p + 1, N)
<1>1. N \in Nat /\ p \in Nat /\ 1 <= p /\ p <= N
      OBVIOUS
<1>2. a \in Seq(S) /\ Len(a) = p - 1 /\ \A i \in 1..(p - 1) : a[i] = s[i]
      BY <1>1
<1>3. b \in Seq(S) /\ Len(b) = N - p /\ \A i \in 1..(N - p) : b[i] = s[p + i]
      BY <1>1
<1>4. RemoveAt(s, p) = a \o b
      BY DEF RemoveAt
<1> HIDE DEF a, b, N
<1>5. /\ a \o b \in Seq(S) /\ Len(a \o b) = Len(a) + Len(b)
      /\ \A i \in 1..(Len(a) + Len(b)) : (a \o b)[i] = IF i <= Len(a) THEN a[i] ELSE b[i - Len(a)]
      BY <1>2, <1>3, ConcatProperties
<1>6. Len(a) + Len(b) = N - 1
      BY <1>1, <1>2, <1>3
<1>7. ASSUME NEW i \in 1..(N - 1) PROVE (a \o b)[i] = IF i < p THEN s[i] ELSE s[i + 1]
  <2>1. (a \o b)[i] = IF i <= Len(a) THEN a[i] ELSE b[i - Len(a)]
        BY <1>5, <1>6
  <2>2. CASE i < p
    <3>1. i \in 1..(p - 1) /\ i <= p - 1
          BY <1>1, <2>2
    <3> QED BY <1>2, <2>1, <2>2, <3>1
  <2>3. CASE ~(i < p)
    <3>1. i - (p - 1) \in 1..(N - p) /\ ~(i <= p - 1) /\ p + (i - (p - 1)) = i + 1
          BY <1>1, <2>3
    <3> QED BY <1>2, <1>3, <2>1, <2>3, <3>1
  <2> QED BY <2>2, <2>3
<1> QED BY <1>4, <1>5, <1>6, <1>7 DEF N

LEMMA WithoutParts ==
    ASSUME NEW node \in NodeType, NEW zone, PlaceOf(node, zone) # 0, OncePer(node.items)
    PROVE  LET last == Without(node, zone) IN
           /\ last.region = node.region /\ last.depth = node.depth /\ last.kids = node.kids
           /\ Items(last.items) = {x \in Items(node.items) : x.zone # zone}
           /\ OncePer(last.items)
<1> DEFINE its == node.items
           p == PlaceOf(node, zone)
           N == Len(its)
           new == RemoveAt(its, p)
<1>1. its \in Seq(ItemType) /\ N \in Nat
  <2>1. its \in Seq(ItemType)
        BY DEF NodeType
  <2> QED BY <2>1
<1>2. p \in 1..N /\ its[p].zone = zone
      BY PlaceFact
<1>3. Without(node, zone) = [node EXCEPT !.items = new]
      BY DEF Without
<1>4. \A i, j \in 1..N : its[i].zone = its[j].zone => i = j
      BY DEF OncePer
<1> HIDE DEF its, p
<1>5. Len(new) = N - 1 /\ \A i \in 1..(N - 1) : new[i] = IF i < p THEN its[i] ELSE its[i + 1]
      BY <1>1, <1>2, RemoveAtFact
<1> HIDE DEF new, N
<1>6. PICK last : last = Without(node, zone)
      OBVIOUS
<1>7. /\ last.region = node.region /\ last.depth = node.depth /\ last.kids = node.kids
      /\ last.items = new
      BY <1>3, <1>6 DEF NodeType
<1>8. Items(new) = {x \in Items(its) : x.zone # zone}
  <2>1. ASSUME NEW i \in 1..(N - 1) PROVE \E k \in 1..N : k # p /\ new[i] = its[k]
    <3>1. CASE i < p
      <4>1. i \in 1..N /\ i # p
            BY <1>1, <1>2, <3>1
      <4> QED BY <1>5, <3>1, <4>1
    <3>2. CASE ~(i < p)
      <4>1. i + 1 \in 1..N /\ i + 1 # p
            BY <1>1, <1>2, <3>2
      <4> QED BY <1>5, <3>2, <4>1
    <3> QED BY <3>1, <3>2
  <2>2. ASSUME NEW k \in 1..N, k # p PROVE \E i \in 1..(N - 1) : new[i] = its[k]
    <3>1. CASE k < p
      <4>1. k \in 1..(N - 1)
            BY <1>1, <1>2, <3>1
      <4> QED BY <1>5, <3>1, <4>1
    <3>2. CASE ~(k < p)
      <4>1. k - 1 \in 1..(N - 1) /\ ~(k - 1 < p) /\ (k - 1) + 1 = k
            BY <1>1, <1>2, <2>2, <3>2
      <4> QED BY <1>5, <4>1
    <3> QED BY <3>1, <3>2
  <2>3. \A k \in 1..N : its[k].zone # zone <=> k # p
        BY <1>2, <1>4
  <2>4. ASSUME NEW x \in Items(new) PROVE x \in Items(its) /\ x.zone # zone
    <3>1. PICK i \in 1..(N - 1) : x = new[i]
          BY <1>5 DEF Items
    <3>2. PICK k \in 1..N : k # p /\ new[i] = its[k]
          BY <2>1
    <3> QED BY <2>3, <3>1, <3>2 DEF Items, N
  <2>5. ASSUME NEW x \in Items(its), x.zone # zone PROVE x \in Items(new)
    <3>1. PICK k \in 1..N : x = its[k]
          BY DEF Items, N
    <3>2. PICK i \in 1..(N - 1) : new[i] = its[k]
          BY <2>2, <2>3, <2>5, <3>1
    <3> QED BY <1>5, <3>1, <3>2 DEF Items
  <2> QED BY <2>4, <2>5
<1>9. OncePer(new)
  <2>1. ASSUME NEW i \in 1..(N - 1), NEW j \in 1..(N - 1), new[i].zone = new[j].zone PROVE i = j
    <3>1. PICK a, b : a = (IF i < p THEN i ELSE i + 1) /\ b = (IF j < p THEN j ELSE j + 1)
          OBVIOUS
    <3>2. a \in 1..N /\ b \in 1..N /\ (a = b => i = j)
          BY <1>1, <1>2, <3>1
    <3>3. new[i] = its[a] /\ new[j] = its[b]
          BY <1>5, <3>1
    <3> QED BY <1>4, <2>1, <3>2, <3>3
  <2> QED BY <1>5, <2>1 DEF OncePer
<1> QED BY <1>6, <1>7, <1>8, <1>9 DEF its

(* A way down to a node is the way to its parent and one step more.          *)
Prefix(p, at, way) == at \in 1..Len(p) /\ way = SubSeq(p, 1, at)

(* The first steps of a route are a route.                                  *)
LEMMA PrefixRoute ==
    ASSUME NEW h, NEW p \in Paths(h), NEW box, Route(h, p, box), NEW at, NEW way,
           Prefix(p, at, way)
    PROVE  /\ Len(way) = at /\ way[1] = p[1] /\ way[at] = p[at] /\ Route(h, way, box)
<1>0. at \in 1..Len(p) /\ way = SubSeq(p, 1, at)
      BY DEF Prefix
<1>1. p \in Seq(InHeap(h)) /\ Len(p) \in Nat /\ at \in Nat /\ 1 <= at /\ at <= Len(p)
      BY <1>0, PathsFact
<1>2. Len(way) = at /\ \A j \in 1..at : way[j] = p[j]
  <2> HIDE DEF InHeap
  <2> QED BY <1>0, <1>1
<1>3. \A j \in 1..at : j \in 1..Len(p)
      BY <1>1
<1>4. \A j \in 1..(at - 1) : j \in 1..(Len(p) - 1) /\ j \in 1..at /\ j + 1 \in 1..at
      BY <1>1
<1>5. \A j \in 1..at : h[way[j]].depth = j - 1
      BY <1>2, <1>3 DEF Route
<1>6. \A j \in 1..(at - 1) : /\ KidFor(h, h[way[j]], box) \in 1..Len(h[way[j]].kids)
                             /\ way[j + 1] = h[way[j]].kids[KidFor(h, h[way[j]], box)]
      BY <1>2, <1>4 DEF Route
<1>7. 1 \in 1..at /\ at \in 1..at
      BY <1>1
<1> QED BY <1>2, <1>5, <1>6, <1>7 DEF Route

(* What a version holds for a box, the end of the path of the box holds.    *)
LEMMA EndHolds ==
    ASSUME NEW h, SoundHeap(h), NEW p \in Paths(h), NEW x, Route(h, p, x.box), x \in Held(h, p[1]),
           KidFor(h, h[End(p)], x.box) = 0
    PROVE  x \in Own(h[End(p)])
<1>1. Heap(h) /\ Len(p) \in 1..Len(p) /\ End(p) \in InHeap(h) /\ Sound(h, End(p))
  <2>1. Heap(h) /\ Len(p) \in Nat /\ Len(p) # 0 /\ End(p) \in InHeap(h)
        BY PathsFact DEF SoundHeap
  <2> QED BY <2>1 DEF SoundHeap
<1>2. PICK n : n = End(p)
      OBVIOUS
<1>3. x \in Held(h, n)
      BY <1>1, <1>2, HeldAlong DEF End
<1>4. \A i \in 1..Len(h[n].kids) : x \notin Held(h, h[n].kids[i])
  <2>1. \A i \in 1..Len(h[n].kids) : x \in Held(h, h[n].kids[i]) => KidFor(h, h[n], x.box) = i
        BY <1>1, <1>2 DEF Sound, Placed
  <2>2. \A i \in 1..Len(h[n].kids) : i # 0
        OBVIOUS
  <2> QED BY <1>2, <2>1, <2>2
<1> QED BY <1>1, <1>2, <1>3, <1>4, HeldKids

(* A node on the way of a box that loses the zone drawn there.              *)
LEMMA RemoveLast ==
    ASSUME NEW h, NEW g, SoundHeap(h), Heap(g), Grew(h, g), NEW n \in InHeap(h), NEW zone, NEW it,
           \A x \in Held(h, n) : x.zone = zone => x = it,
           PlaceOf(h[n], zone) # 0,
           NEW b \in InHeap(g), b \notin InHeap(h), g[b] = Without(h[n], zone)
    PROVE  Redone(h, g, n, b, zone, {})
<1>1. /\ Heap(h) /\ Sound(h, n) /\ h[n] \in NodeType /\ h[n].region \in BoxType
      /\ Own(h[n]) = Items(h[n].items) /\ Own(g[b]) = Items(g[b].items)
      /\ Held(h, n) = Own(h[n]) \cup Below(h, n)
  <2>1. Heap(h) /\ Sound(h, n)
        BY DEF SoundHeap
  <2> QED BY <2>1, NodeFact, OwnFact, HeldBelow
<1>2. /\ OncePer(h[n].items)
      /\ \A x \in Own(h[n]) : FullyContains(h[n].region, x.box) /\ KidFor(h, h[n], x.box) = 0
      /\ \A i \in 1..Len(h[n].kids) : \A x \in Held(h, h[n].kids[i]) : KidFor(h, h[n], x.box) = i
      BY <1>1 DEF Sound, Placed
<1>3. /\ g[b].region = h[n].region /\ g[b].depth = h[n].depth /\ g[b].kids = h[n].kids
      /\ Items(g[b].items) = {x \in Items(h[n].items) : x.zone # zone}
      /\ OncePer(g[b].items)
      BY <1>1, <1>2, WithoutParts
<1>4. it \in Own(h[n])
  <2>1. PlaceOf(h[n], zone) \in 1..Len(h[n].items) /\ h[n].items[PlaceOf(h[n], zone)].zone = zone
        BY <1>1, PlaceFact
  <2>2. PICK y : y = h[n].items[PlaceOf(h[n], zone)]
        OBVIOUS
  <2>3. y \in Own(h[n]) /\ y.zone = zone
        BY <2>1, <2>2 DEF Own
  <2> QED BY <1>1, <2>3
<1>5. \A x \in Below(h, n) : x.zone # zone
  <2> SUFFICES ASSUME NEW x \in Below(h, n), x.zone = zone PROVE FALSE
      OBVIOUS
  <2>1. x = it
        BY <1>1
  <2>2. PICK i \in 1..Len(h[n].kids) : x \in Held(h, h[n].kids[i])
        BY DEF Below
  <2>3. KidFor(h, h[n], x.box) = i /\ KidFor(h, h[n], x.box) = 0 /\ i # 0
        BY <1>2, <1>4, <2>1, <2>2
  <2> QED BY <2>3
<1>6. FullyContains(h[n].region, h[n].region)
      BY <1>1 DEF FullyContains, BoxType
<1>7. \A x \in Own(g[b]) : FullyContains(g[b].region, x.box) /\ KidFor(h, h[n], x.box) = 0
      BY <1>1, <1>2, <1>3
<1>8. /\ Sound(g, b)
      /\ Held(g, b) = Own(g[b]) \cup Below(h, n)
      /\ Under(g, b) \cap InHeap(h) \subseteq Under(h, n)
      BY <1>3, <1>6, <1>7, SameKids
<1>9. Held(g, b) = {x \in Held(h, n) : x.zone # zone} \cup {}
      BY <1>1, <1>3, <1>5, <1>8
<1> QED BY <1>8, <1>9 DEF Redone

(* Removing a zone where it was drawn keeps every node sound; the new root  *)
(* holds everything but the zone, and the nodes it does not share with the  *)
(* old one lie one on each depth.                                           *)
LEMMA RemoveSound ==
    ASSUME NEW h, SoundHeap(h), NEW root \in InHeap(h), h[root].depth = 0,
           NEW zone, NEW box, NEW it \in Held(h, root), it.zone = zone, it.box = box,
           \A x \in Held(h, root) : x.zone = zone => x = it
    PROVE  LET g == RemoveCopy(h, root, zone, box)
               new == RootAfter(h, g, root)
           IN  /\ SoundHeap(g) /\ Grew(h, g) /\ new \in InHeap(g) /\ g[new].depth = 0
               /\ Held(g, new) = {x \in Held(h, root) : x.zone # zone}
               /\ \A m1, m2 \in Under(g, new) \ Under(h, root) : g[m1].depth = g[m2].depth => m1 = m2
<1>1. PICK g, new : g = RemoveCopy(h, root, zone, box) /\ new = RootAfter(h, g, root)
      OBVIOUS
<1>2. /\ Heap(h) /\ Heap(g) /\ Grew(h, g) /\ new \in InHeap(g) /\ Len(h) \in Nat /\ Len(g) \in Nat
      /\ \/ g = h /\ HolderOf(h, PathOf(h, root, box), zone) = 0
         \/ /\ new = Len(h) + 1
            /\ \E way, last : RemovedAs(h, g, root, zone, box, way, last)
  <2>1. Heap(h)
        BY DEF SoundHeap
  <2>2. /\ Heap(g) /\ Grew(h, g) /\ new \in InHeap(g)
        /\ \/ g = h /\ HolderOf(h, PathOf(h, root, box), zone) = 0
           \/ /\ new = Len(h) + 1
              /\ \E way, last : RemovedAs(h, g, root, zone, box, way, last)
        BY <1>1, <2>1, RemoveParts
  <2> QED BY <2>1, <2>2 DEF Heap
<1>3. PICK p : p = PathOf(h, root, box)
      OBVIOUS
<1>4. /\ p \in Paths(h) /\ p[1] = root /\ Route(h, p, box) /\ KidFor(h, h[End(p)], box) = 0
      BY <1>3, PathShape
<1>5. HolderOf(h, p, zone) # 0
  <2>1. it \in Own(h[End(p)]) /\ End(p) \in InHeap(h) /\ Len(p) \in Nat /\ Len(p) # 0
        BY <1>4, EndHolds, PathsFact
  <2>2. h[End(p)] \in NodeType /\ Own(h[End(p)]) = Items(h[End(p)].items)
        BY <1>2, <2>1, NodeFact, OwnFact
  <2>3. PlaceOf(h[End(p)], zone) # 0
        BY <2>1, <2>2, PlaceFact
  <2> DEFINE has == {j \in DOMAIN p : PlaceOf(h[p[j]], zone) # 0}
  <2>4. DOMAIN p = 1..Len(p)
    <3>1. p \in Seq(InHeap(h))
          BY <1>4, PathsFact
    <3> QED BY <3>1
  <2>5. has \in SUBSET (1..Len(p)) /\ Len(p) \in has
        BY <2>1, <2>3, <2>4 DEF End
  <2>6. HolderOf(h, p, zone) = Lowest(has)
        BY DEF HolderOf
  <2> HIDE DEF has
  <2> QED BY <2>1, <2>5, <2>6, LowestFact
<1>6. PICK way, last : RemovedAs(h, g, root, zone, box, way, last)
      BY <1>2, <1>3, <1>5
<1>7. PICK L, N, n, b : L = Len(h) /\ N = Len(way) /\ n = way[N] /\ b = L + N
      OBVIOUS
<1>8. /\ N \in 1..Len(p) /\ way = SubSeq(p, 1, N) /\ way \in Paths(h)
      /\ PlaceOf(h[n], zone) # 0 /\ last = Without(h[n], zone) /\ Len(g) = L + N
      /\ \A j \in 1..N : g[L + j] = Copied(h, way, j, last)
      BY <1>3, <1>6, <1>7 DEF RemovedAs
<1>9. way[1] = root /\ Route(h, way, box)
  <2>1. PICK at : at = N
        OBVIOUS
  <2>2. Prefix(p, at, way)
        BY <1>8, <2>1 DEF Prefix
  <2>4. p \in Paths(h)
        BY <1>4
  <2>5. Route(h, p, box)
        BY <1>4
  <2>6. way[1] = p[1] /\ Route(h, way, box)
        BY <2>2, <2>4, <2>5, PrefixRoute
  <2> QED BY <1>4, <2>6
<1>10. N \in Nat /\ N # 0 /\ L \in Nat /\ \A j \in 1..N : way[j] \in InHeap(h)
       BY <1>2, <1>7, <1>8, PathsFact
<1>11. n \in InHeap(h) /\ N \in 1..N
       BY <1>7, <1>10
<1>12. b \in InHeap(g) /\ b \notin InHeap(h) /\ L + N <= Len(g) /\ Len(g) = L + N
       BY <1>2, <1>7, <1>8, <1>10 DEF InHeap
<1>13. g[b] = last
  <2>1. g[L + N] = Copied(h, way, N, last)
        BY <1>8, <1>11
  <2> QED BY <1>7, <2>1 DEF Copied
<1>14. Redone(h, g, n, b, zone, {})
  <2>1. Held(h, n) \subseteq Held(h, root)
        BY <1>7, <1>8, <1>9, <1>11, RouteNarrows
  <2>2. \A x \in Held(h, n) : x.zone = zone => x = it
        BY <2>1
  <2>3. g[b] = Without(h[n], zone) /\ PlaceOf(h[n], zone) # 0
        BY <1>8, <1>13
  <2> QED BY <1>2, <1>11, <1>12, <2>2, <2>3, RemoveLast
<1>15. ASSUME NEW j \in 1..(N - 1)
       PROVE  /\ CopyOf(h, g, way[j], L + j)
              /\ g[L + j].region = h[way[j]].region
              /\ Len(g[L + j].kids) = Len(h[way[j]].kids)
              /\ \A i \in 1..Len(h[way[j]].kids) :
                    g[L + j].kids[i] = IF h[way[j]].kids[i] = way[j + 1] THEN L + j + 1 ELSE h[way[j]].kids[i]
  <2>1. j \in 1..N /\ j \in 1..(Len(way) - 1)
        BY <1>7, <1>10
  <2>2. PICK c, m : c = Copied(h, way, j, last) /\ m = way[j]
        OBVIOUS
  <2>3. m \in InHeap(h) /\ g[L + j] = c
        BY <1>8, <1>10, <2>1, <2>2
  <2>4. /\ c.items = h[m].items /\ c.depth = h[m].depth /\ c.region = h[m].region
        /\ Len(c.kids) = Len(h[m].kids)
        /\ \A i \in 1..Len(h[m].kids) :
              c.kids[i] = IF h[m].kids[i] = way[j + 1] THEN Len(h) + j + 1 ELSE h[m].kids[i]
    <3>1. way \in Paths(h)
          BY <1>8
    <3>2. Heap(h)
          BY <1>2
    <3>3. m = way[j] /\ c = Copied(h, way, j, last) /\ j \in 1..(Len(way) - 1)
          BY <2>1, <2>2
    <3>4. CopyParts(h, way, j, m, c)
          BY <3>1, <3>2, <3>3, CopiedParts
    <3> QED BY <3>4 DEF CopyParts
  <2>5. FullyContains(h[m].region, h[m].region)
    <3>1. h[m].region \in BoxType
          BY <1>2, <2>3, NodeFact
    <3> QED BY <3>1 DEF FullyContains, BoxType
  <2> QED BY <1>7, <2>2, <2>3, <2>4, <2>5 DEF CopyOf
<1>16. /\ last.depth = h[n].depth /\ last.region = h[n].region
  <2>1. h[n] \in NodeType /\ OncePer(h[n].items) /\ PlaceOf(h[n], zone) # 0
        BY <1>2, <1>8, <1>11, NodeFact DEF SoundHeap, Sound, Placed
  <2> QED BY <1>8, <2>1, WithoutParts
<1>17. \A j \in 1..N : /\ g[L + j].depth = h[way[j]].depth
                       /\ g[L + j].region = h[way[j]].region
  <2> SUFFICES ASSUME NEW j \in 1..N
               PROVE  g[L + j].depth = h[way[j]].depth /\ g[L + j].region = h[way[j]].region
      OBVIOUS
  <2>1. CASE j = N
        BY <1>7, <1>13, <1>16, <2>1
  <2>2. CASE j # N
    <3>1. j \in 1..(N - 1)
          BY <1>10, <2>2
    <3> QED BY <1>15, <3>1 DEF CopyOf
  <2> QED BY <2>1, <2>2
<1>18. \A j \in 1..N : Redone(h, g, way[j], L + j, zone, {})
  <2>1. (\A x \in {} : x.box = box) /\ (\A x \in Held(h, way[1]) : x.zone = zone => x.box = box)
        BY <1>9
  <2>2. Chained(h, g, way, L, N)
        BY <1>7, <1>12, <1>15, <1>17 DEF Chained
  <2>3. Redone(h, g, way[N], L + N, zone, {})
        BY <1>7, <1>14
  <2>4. way \in Paths(h)
        BY <1>8
  <2> QED BY <1>2, <1>9, <2>1, <2>2, <2>3, <2>4, ChainFact
<1>19. \A m \in InHeap(g) : m \notin InHeap(h) => \E j \in 1..N : m = L + j
  <2> SUFFICES ASSUME NEW m \in InHeap(g), m \notin InHeap(h) PROVE \E j \in 1..N : m = L + j
      OBVIOUS
  <2>1. m - L \in 1..N /\ m = L + (m - L)
        BY <1>2, <1>7, <1>10, <1>12 DEF InHeap
  <2> QED BY <2>1
<1>20. SoundHeap(g)
  <2> SUFFICES ASSUME NEW m \in InHeap(g) PROVE Sound(g, m)
      BY <1>2 DEF SoundHeap
  <2>1. CASE m \in InHeap(h)
        BY <1>2, <2>1, SoundStands DEF SoundHeap
  <2>2. CASE m \notin InHeap(h)
        BY <1>18, <1>19, <2>2 DEF Redone
  <2> QED BY <2>1, <2>2
<1>21. new = L + 1 /\ Redone(h, g, root, L + 1, zone, {}) /\ g[new].depth = 0
  <2>1. 1 \in 1..N
        BY <1>10
  <2>2. Redone(h, g, root, L + 1, zone, {}) /\ g[L + 1].depth = h[root].depth
        BY <1>9, <1>17, <1>18, <2>1
  <2>3. new = Len(h) + 1
        BY <1>2, <1>3, <1>5
  <2> QED BY <1>7, <2>2, <2>3
<1>22. Held(g, new) = {x \in Held(h, root) : x.zone # zone}
  <2>1. Held(g, new) = {x \in Held(h, root) : x.zone # zone} \cup {}
        BY <1>21 DEF Redone
  <2> QED BY <2>1
<1>23. \A m1, m2 \in Under(g, new) \ Under(h, root) : g[m1].depth = g[m2].depth => m1 = m2
  <2> SUFFICES ASSUME NEW m1 \in Under(g, new) \ Under(h, root), NEW m2 \in Under(g, new) \ Under(h, root),
                      g[m1].depth = g[m2].depth
               PROVE  m1 = m2
      OBVIOUS
  <2>1. Under(g, new) \cap InHeap(h) \subseteq Under(h, root) /\ Under(g, new) \subseteq InHeap(g)
        BY <1>2, <1>21, UnderClosed DEF Redone
  <2>2. (\E j \in 1..N : m1 = L + j) /\ (\E j \in 1..N : m2 = L + j)
        BY <1>19, <2>1
  <2>3. PICK j1 \in 1..N, j2 \in 1..N : m1 = L + j1 /\ m2 = L + j2
        BY <2>2
  <2>4. \A j \in 1..N : h[way[j]].depth = j - 1
        BY <1>7, <1>9 DEF Route
  <2>5. g[m1].depth = j1 - 1 /\ g[m2].depth = j2 - 1
        BY <1>17, <2>3, <2>4
  <2> QED BY <2>3, <2>5
<1> QED BY <1>1, <1>2, <1>20, <1>21, <1>22, <1>23

(* What a walk down a version reaches, stage by stage, when it goes on only *)
(* to the nodes of H, and under the others there are none of them.          *)
Stages(h, root, H, c) ==
    /\ \A d \in 0..MaxDepth : c[d] \in SUBSET InHeap(h)
    /\ c[0] = {root} \cap H
    /\ \A d \in 1..MaxDepth : c[d] = c[d - 1] \cup (Kids(h, c[d - 1]) \cap H)

(* The kids of some nodes.                                                  *)
LEMMA KidsFact ==
    ASSUME NEW h, Heap(h), NEW some \in SUBSET InHeap(h)
    PROVE  \A m : m \in Kids(h, some) <=> \E n \in some : \E i \in 1..Len(h[n].kids) : m = h[n].kids[i]
<1> SUFFICES ASSUME NEW m
             PROVE  m \in Kids(h, some) <=> \E n \in some : \E i \in 1..Len(h[n].kids) : m = h[n].kids[i]
    OBVIOUS
<1>1. ASSUME NEW n \in some
      PROVE  m \in ToSet(h[n].kids) <=> \E i \in 1..Len(h[n].kids) : m = h[n].kids[i]
  <2>1. DOMAIN h[n].kids = 1..Len(h[n].kids)
        BY NodeFact
  <2> QED BY <2>1 DEF ToSet
<1>2. m \in Kids(h, some) <=> \E n \in some : m \in ToSet(h[n].kids)
      BY DEF Kids
<1> QED BY <1>1, <1>2

(* After MaxDepth stages a walk has reached everything under the root that  *)
(* it goes on to.                                                           *)
LEMMA StagesFact ==
    ASSUME NEW h, SoundHeap(h), NEW root \in InHeap(h), h[root].depth = 0,
           NEW H \in SUBSET InHeap(h),
           \A n \in InHeap(h) \ H : \A i \in 1..Len(h[n].kids) : h[n].kids[i] \notin H,
           NEW c, Stages(h, root, H, c)
    PROVE  c[MaxDepth] = Under(h, root) \cap H
<1> DEFINE Reached(d) == c[d] \subseteq Under(h, root) /\ c[d] \subseteq H
           Left(d) == \A n \in c[d] : h[n].depth < d =>
                         \A i \in 1..Len(h[n].kids) : h[n].kids[i] \in H => h[n].kids[i] \in c[d]
           T == {d \in Nat : d <= MaxDepth => Reached(d) /\ Left(d)}
<1>1. /\ Heap(h) /\ MaxDepth \in Nat
      /\ \A n \in InHeap(h) : h[n].depth \in Nat /\ Shaped(h, n)
  <2>1. Heap(h) /\ \A n \in InHeap(h) : Shaped(h, n)
        BY DEF SoundHeap, Sound
  <2> QED BY <2>1, NodeFact, MaxDepthAssumption
<1>2. /\ root \in Under(h, root) /\ Under(h, root) \in SUBSET InHeap(h)
      /\ Closed(h, Under(h, root))
      BY <1>1, UnderClosed
<1>3. 0 \in T
  <2>1. c[0] = {root} \cap H
        BY DEF Stages
  <2>2. Reached(0)
        BY <1>2, <2>1
  <2>3. Left(0)
        BY <2>1
  <2> QED BY <2>2, <2>3
<1>4. ASSUME NEW d \in Nat, d \in T PROVE d + 1 \in T
  <2> SUFFICES ASSUME d + 1 <= MaxDepth PROVE Reached(d + 1) /\ Left(d + 1)
      OBVIOUS
  <2>1. d \in 0..MaxDepth /\ d + 1 \in 1..MaxDepth /\ d + 1 \in 0..MaxDepth /\ (d + 1) - 1 = d /\ d <= MaxDepth
        BY <1>1
  <2>2. /\ c[d] \in SUBSET InHeap(h) /\ c[d + 1] = c[d] \cup (Kids(h, c[d]) \cap H)
        /\ c[d + 1] \in SUBSET InHeap(h)
        BY <2>1 DEF Stages
  <2>3. Reached(d) /\ Left(d)
        BY <1>4, <2>1
  <2>4. \A m : m \in Kids(h, c[d]) <=> \E n \in c[d] : \E i \in 1..Len(h[n].kids) : m = h[n].kids[i]
        BY <1>1, <2>2, KidsFact
  <2>5. Kids(h, c[d]) \subseteq Under(h, root)
        BY <1>2, <2>3, <2>4 DEF Closed
  <2>6. Reached(d + 1)
        BY <2>2, <2>3, <2>5
  <2>7. ASSUME NEW n \in c[d + 1], h[n].depth < d + 1, NEW i \in 1..Len(h[n].kids), h[n].kids[i] \in H
        PROVE  h[n].kids[i] \in c[d + 1]
    <3>1. n \in c[d]
      <4>1. CASE n \notin c[d]
        <5>1. PICK m \in c[d] : \E j \in 1..Len(h[m].kids) : n = h[m].kids[j]
              BY <2>2, <2>4, <4>1
        <5>2. PICK j \in 1..Len(h[m].kids) : n = h[m].kids[j]
              BY <5>1
        <5>3. h[n].depth = h[m].depth + 1 /\ m \in InHeap(h) /\ h[m].depth \in Nat
              BY <1>1, <2>2, <5>2 DEF Shaped
        <5>4. h[m].depth < d /\ n \in H
              BY <2>2, <2>7, <4>1, <5>3
        <5> QED BY <2>3, <4>1, <5>2, <5>4
      <4> QED BY <4>1
    <3>2. h[n].kids[i] \in Kids(h, c[d])
          BY <2>4, <3>1
    <3> QED BY <2>2, <2>7, <3>2
  <2> QED BY <2>6, <2>7
<1>5. MaxDepth \in T
  <2> HIDE DEF T
  <2> QED BY <1>1, <1>3, <1>4, StepByStep
<1> DEFINE X == c[MaxDepth] \cup (InHeap(h) \ H)
<1>6. c[MaxDepth] \in SUBSET InHeap(h) /\ Reached(MaxDepth) /\ Left(MaxDepth)
      BY <1>1, <1>5 DEF Stages
<1>7. root \in X
  <2> DEFINE U == {d \in Nat : d <= MaxDepth => {root} \cap H \subseteq c[d]}
  <2>1. 0 \in U
        BY DEF Stages
  <2>2. ASSUME NEW d \in Nat, d \in U PROVE d + 1 \in U
    <3> SUFFICES ASSUME d + 1 <= MaxDepth PROVE {root} \cap H \subseteq c[d + 1]
        OBVIOUS
    <3>1. d + 1 \in 1..MaxDepth /\ (d + 1) - 1 = d /\ d <= MaxDepth
          BY <1>1
    <3>2. c[d + 1] = c[d] \cup (Kids(h, c[d]) \cap H)
          BY <3>1 DEF Stages
    <3> QED BY <2>2, <3>1, <3>2
  <2>3. MaxDepth \in U
    <3> HIDE DEF U
    <3> QED BY <1>1, <2>1, <2>2, StepByStep
  <2> QED BY <1>1, <2>3
<1>8. ASSUME NEW n \in X, NEW i \in 1..Len(h[n].kids) PROVE h[n].kids[i] \in X
  <2>1. n \in InHeap(h) /\ h[n].kids[i] \in InHeap(h)
        BY <1>1, <1>6, UnderKids
  <2>2. CASE n \notin H
        BY <2>1, <2>2
  <2>3. CASE n \in H
    <3>1. n \in c[MaxDepth]
          BY <2>3
    <3>2. h[n].depth < MaxDepth
      <4>1. Len(h[n].kids) # 0
            OBVIOUS
      <4> QED BY <1>1, <2>1, <4>1 DEF Shaped
    <3> QED BY <1>6, <2>1, <3>1, <3>2
  <2> QED BY <2>2, <2>3
<1>9. Under(h, root) \subseteq X
  <2>1. X \in SUBSET InHeap(h)
        BY <1>6
  <2>2. Closed(h, X)
    <3> HIDE DEF X
    <3> QED BY <1>8 DEF Closed
  <2> HIDE DEF X
  <2> QED BY <1>7, <2>1, <2>2, UnderLeast
<1> QED BY <1>6, <1>9

(* A heap is one it grew to.                                                *)
LEMMA SelfGrew ==
    ASSUME NEW h, Heap(h)
    PROVE  Grew(h, h)
BY DEF Grew, Heap

(* The nodes of a version are those under its root.                         *)
LEMMA NodesUnder ==
    ASSUME NEW h, SoundHeap(h), NEW root \in InHeap(h), h[root].depth = 0
    PROVE  NodesOf(h, root) = Under(h, root)
<1>1. Heap(h) /\ Grew(h, h)
      BY SelfGrew DEF SoundHeap
<1>2. PICK c : /\ \A d \in 0..MaxDepth : c[d] \in SUBSET InHeap(h)
               /\ c[0] = {root}
               /\ \A d \in 1..MaxDepth : c[d] = c[d - 1] \cup Kids(h, c[d - 1])
               /\ NodesOf(h, root) = c[MaxDepth] /\ NodesOf(h, root) = c[MaxDepth]
      BY <1>1, NodesSolved
<1>3. \A d \in 1..MaxDepth : Kids(h, c[d - 1]) \subseteq InHeap(h)
  <2> SUFFICES ASSUME NEW d \in 1..MaxDepth PROVE Kids(h, c[d - 1]) \subseteq InHeap(h)
      OBVIOUS
  <2>1. d - 1 \in 0..MaxDepth
        BY MaxDepthAssumption
  <2>2. c[d - 1] \in SUBSET InHeap(h)
        BY <1>2, <2>1
  <2> QED BY <1>1, <2>2, KidsStand
<1>4. PICK H : H = InHeap(h)
      OBVIOUS
<1>5. Stages(h, root, H, c)
  <2> HIDE DEF InHeap
  <2> QED BY <1>2, <1>3, <1>4 DEF Stages
<1>6. H \in SUBSET InHeap(h) /\ \A n \in InHeap(h) \ H : \A i \in 1..Len(h[n].kids) : h[n].kids[i] \notin H
      BY <1>4
<1>7. c[MaxDepth] = Under(h, root) \cap H
      BY <1>5, <1>6, StagesFact
<1>8. Under(h, root) \in SUBSET InHeap(h)
      BY <1>1, UnderClosed
<1> QED BY <1>2, <1>4, <1>7, <1>8

(* What meets a box meets what contains the box.                            *)
LEMMA MeetsFact ==
    ASSUME NEW a \in BoxType, NEW b \in BoxType, NEW q \in BoxType, FullyContains(a, b), Intersects(b, q)
    PROVE  Intersects(a, q)
BY DEF Intersects, FullyContains, BoxType

(* What a query skips: the nodes under the root whose region misses it.     *)
LEMMA SearchedUnder ==
    ASSUME NEW h, SoundHeap(h), NEW root \in InHeap(h), h[root].depth = 0, NEW q \in BoxType
    PROVE  Searched(h, root, q) = {n \in Under(h, root) : Intersects(h[n].region, q)}
<1>1. Heap(h) /\ Grew(h, h)
      BY SelfGrew DEF SoundHeap
<1>2. PICK c : SearchedBy(h, root, q, c) /\ Searched(h, root, q) = c[MaxDepth] /\ Searched(h, root, q) = c[MaxDepth]
      BY <1>1, SearchedSolved
<1>3. PICK H : H = {n \in InHeap(h) : Intersects(h[n].region, q)}
      OBVIOUS
<1>4. \A some \in SUBSET InHeap(h) : Hit(h, some, q) = some \cap H
  <2> HIDE DEF InHeap
  <2> QED BY <1>3 DEF Hit
<1>5. \A d \in 1..MaxDepth : Kids(h, c[d - 1]) \in SUBSET InHeap(h)
  <2> SUFFICES ASSUME NEW d \in 1..MaxDepth PROVE Kids(h, c[d - 1]) \in SUBSET InHeap(h)
      OBVIOUS
  <2>1. d - 1 \in 0..MaxDepth
        BY MaxDepthAssumption
  <2>2. c[d - 1] \in SUBSET InHeap(h)
        BY <1>2, <2>1 DEF SearchedBy
  <2> QED BY <1>1, <2>2, KidsStand
<1>6. Stages(h, root, H, c)
  <2> HIDE DEF InHeap
  <2>1. Hit(h, {root}, q) = {root} \cap H
        BY <1>4
  <2>2. \A d \in 1..MaxDepth : Hit(h, Kids(h, c[d - 1]), q) = Kids(h, c[d - 1]) \cap H
        BY <1>4, <1>5
  <2> QED BY <1>2, <2>1, <2>2 DEF Stages, SearchedBy
<1>7. H \in SUBSET InHeap(h)
      BY <1>3
<1>8. ASSUME NEW n \in InHeap(h) \ H, NEW i \in 1..Len(h[n].kids) PROVE h[n].kids[i] \notin H
  <2>1. h[n].kids[i] \in InHeap(h) /\ FullyContains(h[n].region, h[h[n].kids[i]].region)
        BY <1>1, UnderKids DEF SoundHeap, Sound, Shaped
  <2>2. h[n].region \in BoxType /\ h[h[n].kids[i]].region \in BoxType
        BY <1>1, <2>1, NodeFact
  <2>3. ~Intersects(h[n].region, q)
        BY <1>3
  <2>4. ~Intersects(h[h[n].kids[i]].region, q)
        BY <2>1, <2>2, <2>3, MeetsFact
  <2> QED BY <1>3, <2>4
<1>9. c[MaxDepth] = Under(h, root) \cap H
      BY <1>6, <1>7, <1>8, StagesFact
<1>10. Under(h, root) \in SUBSET InHeap(h)
       BY <1>1, UnderClosed
<1> HIDE DEF InHeap
<1> QED BY <1>2, <1>3, <1>9, <1>10

(* The items of a version, each at its place, are what its root holds, and  *)
(* a query finds those whose box it meets.                                  *)
ItemAt(x) == nodes[x[1]].items[x[2]]
OneEach(held) == \A x, y \in held : x.zone = y.zone => x = y

(* Where the items of some nodes are.                                       *)
LEMMA ItemsFact ==
    ASSUME SoundHeap(nodes), NEW some \in SUBSET InHeap(nodes)
    PROVE  /\ \A x \in ItemsIn(some) : /\ x[1] \in some /\ x[2] \in 1..Len(nodes[x[1]].items)
                                       /\ x = <<x[1], x[2]>> /\ ItemAt(x) \in Own(nodes[x[1]])
                                       /\ ItemAt(x) \in ItemType
           /\ \A n \in some : \A i \in 1..Len(nodes[n].items) : <<n, i>> \in ItemsIn(some)
<1>1. Heap(nodes)
      BY DEF SoundHeap
<1>2. \A n \in some : /\ DOMAIN nodes[n].items = 1..Len(nodes[n].items)
                      /\ \A i \in 1..Len(nodes[n].items) : nodes[n].items[i] \in ItemType
  <2> SUFFICES ASSUME NEW n \in some
               PROVE  /\ DOMAIN nodes[n].items = 1..Len(nodes[n].items)
                      /\ \A i \in 1..Len(nodes[n].items) : nodes[n].items[i] \in ItemType
      OBVIOUS
  <2>1. nodes[n].items \in Seq(ItemType) /\ Len(nodes[n].items) \in Nat
        BY <1>1, NodeFact
  <2> QED BY <2>1, ElementOfSeq
<1>3. ASSUME NEW x \in ItemsIn(some)
      PROVE  /\ x[1] \in some /\ x[2] \in 1..Len(nodes[x[1]].items)
             /\ x = <<x[1], x[2]>> /\ ItemAt(x) \in Own(nodes[x[1]])
             /\ ItemAt(x) \in ItemType
  <2>1. PICK n \in some : \E i \in DOMAIN nodes[n].items : x = <<n, i>>
        BY DEF ItemsIn
  <2>2. PICK i \in DOMAIN nodes[n].items : x = <<n, i>>
        BY <2>1
  <2>3. x[1] = n /\ x[2] = i /\ i \in 1..Len(nodes[n].items)
        BY <1>2, <2>2
  <2>4. ItemAt(x) = nodes[n].items[i]
        BY <2>3 DEF ItemAt
  <2> QED BY <1>2, <2>2, <2>3, <2>4 DEF Own
<1>4. ASSUME NEW n \in some, NEW i \in 1..Len(nodes[n].items) PROVE <<n, i>> \in ItemsIn(some)
  <2>1. i \in DOMAIN nodes[n].items
        BY <1>2
  <2> QED BY <2>1 DEF ItemsIn
<1> QED BY <1>3, <1>4

(* The items of a version are what its root holds, one for each zone, and a *)
(* query finds those whose box meets it.                                    *)
LEMMA VersionItems ==
    ASSUME SoundHeap(nodes), NEW root \in InHeap(nodes), nodes[root].depth = 0,
           OneEach(Held(nodes, root)), NEW its, its = ItemsIn(NodesOf(nodes, root))
    PROVE  /\ \A x \in its : ItemAt(x) \in Held(nodes, root) /\ ZoneAt(x) = ItemAt(x).zone
           /\ \A it \in Held(nodes, root) : \E x \in its : ItemAt(x) = it
           /\ \A x, y \in its : ZoneAt(x) = ZoneAt(y) => x = y
           /\ \A q \in BoxType : Found(root, q) = {x \in its : Intersects(ItemAt(x).box, q)}
<1>1. Heap(nodes)
      BY DEF SoundHeap
<1>2. PICK under : under = Under(nodes, root)
      OBVIOUS
<1>3. NodesOf(nodes, root) = under /\ under \in SUBSET InHeap(nodes) /\ its = ItemsIn(under)
  <2>1. under \in SUBSET InHeap(nodes)
        BY <1>1, <1>2, UnderClosed
  <2> QED BY <1>2, <2>1, NodesUnder
<1>4. /\ \A x \in its : /\ x[1] \in under /\ x[2] \in 1..Len(nodes[x[1]].items)
                        /\ x = <<x[1], x[2]>> /\ ItemAt(x) \in Own(nodes[x[1]])
                        /\ ItemAt(x) \in ItemType
      /\ \A n \in under : \A i \in 1..Len(nodes[n].items) : <<n, i>> \in its
      BY <1>3, ItemsFact
<1>5. \A x \in its : ItemAt(x) \in Held(nodes, root) /\ ZoneAt(x) = ItemAt(x).zone
      BY <1>2, <1>4 DEF Held, ZoneAt, ItemAt
<1>6. ASSUME NEW it \in Held(nodes, root) PROVE \E x \in its : ItemAt(x) = it
  <2>1. PICK n \in under : it \in Own(nodes[n])
        BY <1>2 DEF Held
  <2>2. PICK i \in 1..Len(nodes[n].items) : it = nodes[n].items[i]
        BY <2>1 DEF Own
  <2>3. PICK x : x = <<n, i>>
        OBVIOUS
  <2>4. x \in its /\ x[1] = n /\ x[2] = i
        BY <1>4, <2>3
  <2> QED BY <2>2, <2>4 DEF ItemAt
<1>7. ASSUME NEW x \in its, NEW y \in its, ZoneAt(x) = ZoneAt(y) PROVE x = y
  <2>1. ItemAt(x) = ItemAt(y)
        BY <1>5, <1>7 DEF OneEach
  <2>2. PICK m, n : m = x[1] /\ n = y[1]
        OBVIOUS
  <2>3. m \in Under(nodes, root) /\ n \in Under(nodes, root)
        BY <1>2, <1>4, <2>2
  <2>4. ItemAt(x) \in Own(nodes[m]) /\ ItemAt(y) \in Own(nodes[n]) /\ ItemAt(x).box = ItemAt(y).box
        BY <1>4, <2>1, <2>2
  <2>5. m = n
        BY <2>3, <2>4, HolderIsOne
  <2>6. OncePer(nodes[m].items)
        BY <1>3, <1>2, <2>3 DEF SoundHeap, Sound, Placed
  <2>7. x[2] \in 1..Len(nodes[m].items) /\ y[2] \in 1..Len(nodes[m].items)
        BY <1>4, <2>2, <2>5
  <2>8. nodes[m].items[x[2]].zone = nodes[m].items[y[2]].zone
        BY <2>1, <2>2, <2>5 DEF ItemAt
  <2>9. x[2] = y[2]
        BY <2>6, <2>7, <2>8 DEF OncePer
  <2>10. x = <<x[1], x[2]>> /\ y = <<y[1], y[2]>>
         BY <1>4
  <2> QED BY <2>2, <2>5, <2>9, <2>10
<1>8. ASSUME NEW q \in BoxType
      PROVE  Found(root, q) = {x \in its : Intersects(ItemAt(x).box, q)}
  <2>1. PICK some : some = {n \in under : Intersects(nodes[n].region, q)}
        OBVIOUS
  <2>2. Searched(nodes, root, q) = some /\ some \in SUBSET InHeap(nodes)
    <3> HIDE DEF InHeap
    <3> QED BY <1>2, <1>3, <2>1, SearchedUnder
  <2>3. /\ \A x \in ItemsIn(some) : /\ x[1] \in some /\ x[2] \in 1..Len(nodes[x[1]].items)
                                    /\ x = <<x[1], x[2]>> /\ ItemAt(x) \in Own(nodes[x[1]])
                                    /\ ItemAt(x) \in ItemType
        /\ \A n \in some : \A i \in 1..Len(nodes[n].items) : <<n, i>> \in ItemsIn(some)
        BY <2>2, ItemsFact
  <2>4. ItemsIn(some) \subseteq its
        BY <1>4, <2>1, <2>3
  <2>5. ASSUME NEW x \in its, Intersects(ItemAt(x).box, q) PROVE x \in ItemsIn(some)
    <3>1. x[1] \in InHeap(nodes) /\ ItemAt(x) \in Own(nodes[x[1]]) /\ ItemAt(x).box \in BoxType
          BY <1>3, <1>4 DEF ItemType
    <3>2. FullyContains(nodes[x[1]].region, ItemAt(x).box) /\ nodes[x[1]].region \in BoxType
          BY <1>1, <3>1, NodeFact DEF SoundHeap, Sound, Placed
    <3>3. Intersects(nodes[x[1]].region, q)
          BY <2>5, <3>1, <3>2, MeetsFact
    <3> QED BY <1>4, <2>1, <2>3, <3>3
  <2>6. Found(root, q) = {x \in ItemsIn(some) : Intersects(ItemAt(x).box, q)}
        BY <2>2 DEF Found, ItemAt
  <2> QED BY <2>4, <2>5, <2>6
<1> QED BY <1>5, <1>6, <1>7, <1>8

(* What every version kept is: a root, one item for each zone present, as   *)
(* the records say, in a box some operator drew; and how it came from the   *)
(* one before.                                                              *)
Kinds == {"Added", "Replaced", "Removed", "ValidityChanged"}
Changes == [version : Nat, at : 0..Forever, zone : Zones, kind : Kinds]

(* A version: its root at depth 0 holds one item for each zone the records  *)
(* show present, in a drawn box.                                            *)
VersionTrue(v) ==
    /\ nodes[roots[v]].depth = 0
    /\ OneEach(Held(nodes, roots[v]))
    /\ {it.zone : it \in Held(nodes, roots[v])} = {z \in Zones : PresentAsOf(z, v)}
    /\ \A it \in Held(nodes, roots[v]) : it.box \in ZoneBoxes
    /\ \A z \in Zones : PresentAsOf(z, v) => ValidityAsOf(z, v) \in Validities

(* One node on each depth: a path.                                          *)
OneChain(h, some) == \A m, n \in some : h[m].depth = h[n].depth => m = n

(* An edit: no earlier than the one before, with the same tree when only    *)
(* the validity changes, and with one path of new nodes when a zone is      *)
(* removed.                                                                 *)
EditTrue(v) ==
    /\ version_times[v] <= version_times[v + 1]
    /\ changelog[v].kind = "ValidityChanged" => roots[v + 1] = roots[v]
    /\ changelog[v].kind = "Removed" =>
          OneChain(nodes, Under(nodes, roots[v + 1]) \ Under(nodes, roots[v]))

(* The box remembered of a zone is the one it was last drawn with.          *)
LiveTrue ==
    /\ live_box \in [Zones -> ZoneBoxes \cup {Absent}]
    /\ \A it \in Held(nodes, roots[LastVersion]) : it.box = live_box[it.zone]

(* Together: what every edit keeps of the trees.                            *)
TreeTrue ==
    /\ SoundHeap(nodes)
    /\ changelog \in Seq(Changes) /\ Len(changelog) = Len(roots) - 1
    /\ \A v \in 1..Len(roots) : VersionTrue(v)
    /\ \A v \in 1..(Len(roots) - 1) : EditTrue(v)
    /\ LiveTrue

(* The newest version reads the newest record of every zone.                *)
NewestRead ==
    \A z \in Zones :
        /\ PresentAsOf(z, Len(roots)) <=> ContainsZone(z)
        /\ ContainsZone(z) => ValidityAsOf(z, Len(roots)) = history[z][Len(history[z])].validity

(* The newest version reads the newest record, in the state before a step   *)
(* and in the one after.                                                    *)
LEMMA NowFact == IndexInv => NewestRead
<1> SUFFICES ASSUME IndexInv, NEW z \in Zones
             PROVE  /\ PresentAsOf(z, Len(roots)) <=> ContainsZone(z)
                    /\ ContainsZone(z) =>
                          ValidityAsOf(z, Len(roots)) = history[z][Len(history[z])].validity
    BY DEF NewestRead
<1> DEFINE made == {i \in DOMAIN history[z] : history[z][i].version <= Len(roots)}
           N == Len(history[z])
<1>1. /\ history[z] \in Seq(Records) /\ N \in Nat /\ DOMAIN history[z] = 1..N
      /\ \A i \in 1..N : history[z][i].version <= Len(roots)
      BY RecordFact DEF IndexInv, RecordsInv, Slots
<1>2. made = 1..N
      BY <1>1
<1>3. SlotAsOf(z, Len(roots)) = Highest(made)
      BY DEF SlotAsOf
<1>4. Highest(1..N) = N
  <2>1. 1..N \in SUBSET (1..N)
        OBVIOUS
  <2>2. Highest(1..N) \in 0..N /\ (\A y \in 1..N : y <= Highest(1..N))
        BY <1>1, <2>1, HighestFact
  <2> HIDE DEF N
  <2> QED BY <1>1, <2>2
<1>5. history[z] # <<>> <=> N # 0
      BY <1>1
<1>6. SlotAsOf(z, Len(roots)) = N
      BY <1>2, <1>3, <1>4
<1> QED BY <1>5, <1>6 DEF PresentAsOf, ContainsZone, ValidityAsOf

LEMMA NowAfter == IndexInv' => NewestRead'
BY NowFact, PTL

(* What an edit writes besides the tree.                                    *)
LEMMA CommitParts ==
    ASSUME IndexInv, changelog \in Seq(Changes), Len(changelog) = Len(roots) - 1,
           NEW heap, NEW root \in InHeap(heap), NEW at \in 0..Forever, NEW z \in Zones,
           NEW validity \in Windows, NEW present \in BOOLEAN, NEW kind \in Kinds,
           NEW L, L = Len(roots), Commit(heap, root, at, z, validity, present, kind)
    PROVE  /\ nodes' = heap /\ Len(roots') = L + 1 /\ roots'[L + 1] = root
           /\ version_times'[L + 1] = at
           /\ ContainsZone(z)' <=> present
           /\ history'[z][Len(history'[z])].validity = validity
           /\ \A y \in Zones : y # z => history'[y] = history[y]
           /\ changelog' \in Seq(Changes) /\ Len(changelog') = L
           /\ \A v \in 1..(L - 1) : changelog'[v] = changelog[v]
           /\ changelog'[L].kind = kind
<1> DEFINE N == Len(history[z])
           rec == [version |-> L + 1, validity |-> validity, present |-> present]
           change == [version |-> L + 1, at |-> at, zone |-> z, kind |-> kind]
<1>1. /\ L \in Nat /\ L # 0 /\ LastVersion = L /\ N \in Nat
      /\ roots \in Seq(InHeap(nodes)) /\ version_times \in Seq(0..Forever)
      /\ Len(version_times) = L
      BY VersionFact, RecordFact DEF IndexInv, VersionsInv
<1>2. /\ nodes' = heap /\ roots' = Append(roots, root) /\ version_times' = Append(version_times, at)
      /\ history' = [history EXCEPT ![z] = Append(@, rec)]
      /\ changelog' = Append(changelog, change)
      BY <1>1 DEF Commit
<1>3. Len(roots') = L + 1 /\ roots'[L + 1] = root
  <2>1. roots \in Seq(InHeap(nodes) \cup {root}) /\ Len(roots) = L
        BY <1>1, SeqMonotonic
  <2> HIDE DEF InHeap
  <2> QED BY <1>1, <1>2, <2>1
<1>4. version_times'[L + 1] = at
      BY <1>1, <1>2
<1>5. history \in [Zones -> Seq(Records)]
      BY DEF IndexInv, RecordsInv
<1>6. \A y \in Zones : y # z => history'[y] = history[y]
      BY <1>2, <1>5
<1>7. history'[z] = Append(history[z], rec) /\ history[z] \in Seq(Records)
      BY <1>2, <1>5
<1>8. rec \in Records /\ rec.validity = validity /\ rec.present = present
      BY <1>1 DEF Records
<1>9. Len(history'[z]) = N + 1 /\ history'[z][N + 1] = rec /\ history'[z] # <<>>
  <2> HIDE DEF rec
  <2>1. Len(history'[z]) = N + 1 /\ history'[z][N + 1] = rec
        BY <1>1, <1>7, <1>8
  <2>2. N + 1 # 0 /\ Len(<<>>) = 0
        BY <1>1
  <2> HIDE DEF N
  <2> QED BY <2>1, <2>2
<1>10. change \in Changes /\ change.kind = kind
       BY <1>1 DEF Changes
<1>11. /\ changelog' \in Seq(Changes) /\ Len(changelog') = L
       /\ \A v \in 1..(L - 1) : changelog'[v] = changelog[v]
       /\ changelog'[L] = change
  <2> HIDE DEF change
  <2> QED BY <1>1, <1>2, <1>10
<1>12. ContainsZone(z)' <=> present
  <2> HIDE DEF rec, N
  <2> QED BY <1>8, <1>9 DEF ContainsZone
<1>13. history'[z][Len(history'[z])].validity = validity
       BY <1>8, <1>9
<1>14. changelog'[L].kind = kind
       BY <1>10, <1>11
<1> QED BY <1>2, <1>3, <1>4, <1>6, <1>11, <1>12, <1>13, <1>14

(* What an edit leaves at the root it makes: the zones that were there but  *)
(* the one edited, and that one if it is drawn, each where it is drawn now. *)
Drawn(heap, root, z, present, kind) ==
    LET held == Held(heap, root)
        last == roots[LastVersion]
    IN  /\ SoundHeap(heap) /\ Grew(nodes, heap) /\ root \in InHeap(heap) /\ heap[root].depth = 0
        /\ OneEach(held)
        /\ \A it \in held : it.box \in ZoneBoxes /\ it.box = live_box'[it.zone]
        /\ \A y : y # z => ((\E it \in held : it.zone = y) <=> (\E it \in Held(nodes, last) : it.zone = y))
        /\ (\E it \in held : it.zone = z) <=> present
        /\ live_box' \in [Zones -> ZoneBoxes \cup {Absent}]
        /\ kind = "ValidityChanged" => root = last
        /\ kind = "Removed" => OneChain(heap, Under(heap, root) \ Under(nodes, last))

(* An edit that leaves such a tree keeps the invariant.                     *)
LEMMA EditFact ==
    ASSUME IndexInv, TreeTrue, IndexInv', Extends,
           NEW heap, NEW root, NEW at \in 0..Forever, version_times[LastVersion] <= at,
           NEW z \in Zones, NEW validity \in Windows, NEW present \in BOOLEAN,
           present => validity \in Validities, NEW kind \in Kinds,
           Commit(heap, root, at, z, validity, present, kind), Drawn(heap, root, z, present, kind)
    PROVE  TreeTrue'
<1>1. PICK L, last : L = Len(roots) /\ last = roots[L]
      OBVIOUS
<1>2. /\ L \in Nat /\ L \in 1..L /\ LastVersion = L /\ \A v \in 1..L : roots[v] \in InHeap(nodes)
      BY <1>1, VersionFact DEF IndexInv
<1>3. /\ SoundHeap(nodes) /\ changelog \in Seq(Changes) /\ Len(changelog) = L - 1
      /\ \A v \in 1..L : VersionTrue(v)
      /\ \A v \in 1..(L - 1) : EditTrue(v)
      BY <1>1 DEF TreeTrue
<1>4. /\ SoundHeap(heap) /\ Heap(heap) /\ Heap(nodes) /\ Grew(nodes, heap) /\ root \in InHeap(heap)
      /\ heap[root].depth = 0
      BY <1>3 DEF Drawn, SoundHeap
<1>5. /\ nodes' = heap /\ Len(roots') = L + 1 /\ roots'[L + 1] = root
      /\ version_times'[L + 1] = at
      /\ ContainsZone(z)' <=> present
      /\ history'[z][Len(history'[z])].validity = validity
      /\ \A y \in Zones : y # z => history'[y] = history[y]
      /\ changelog' \in Seq(Changes) /\ Len(changelog') = L
      /\ \A v \in 1..(L - 1) : changelog'[v] = changelog[v]
      /\ changelog'[L].kind = kind
  <2>1. Len(changelog) = Len(roots) - 1
        BY <1>1, <1>3
  <2> QED BY <1>1, <1>3, <1>4, <2>1, CommitParts
<1>6. /\ \A v \in 1..L : roots'[v] = roots[v] /\ version_times'[v] = version_times[v]
      BY <1>1 DEF Extends
<1>7. \A v \in 1..L : /\ Under(heap, roots[v]) = Under(nodes, roots[v])
                      /\ Held(heap, roots[v]) = Held(nodes, roots[v])
                      /\ heap[roots[v]] = nodes[roots[v]]
      BY <1>2, <1>4, UnderStands DEF Grew
<1>8. \A v \in 1..L : /\ Under(nodes, roots[v])' = Under(nodes, roots[v])
                      /\ Held(nodes, roots[v])' = Held(nodes, roots[v])
                      /\ nodes'[roots'[v]] = nodes[roots[v]]
  <2> SUFFICES ASSUME NEW v \in 1..L
               PROVE  /\ Under(nodes', roots'[v]) = Under(nodes, roots[v])
                      /\ Held(nodes', roots'[v]) = Held(nodes, roots[v])
                      /\ nodes'[roots'[v]] = nodes[roots[v]]
      BY DEF Held, Under, Own, Closed, InHeap
  <2> QED BY <1>5, <1>6, <1>7
<1>9. ASSUME NEW v \in 1..L PROVE VersionTrue(v)'
  <2>1. VersionTrue(v)
        BY <1>3
  <2>2. \A y \in Zones : /\ PresentAsOf(y, v)' = PresentAsOf(y, v)
                         /\ PresentAsOf(y, v) => ValidityAsOf(y, v)' = ValidityAsOf(y, v)
        BY <1>1, SlotStands
  <2>3. {y \in Zones : PresentAsOf(y, v)}' = {y \in Zones : PresentAsOf(y, v)}
        BY <2>2
  <2>4. nodes'[roots'[v]].depth = 0
        BY <1>8, <2>1 DEF VersionTrue
  <2>5. PICK held : held = Held(nodes, roots[v])
        OBVIOUS
  <2>6. Held(nodes, roots[v])' = held
        BY <1>8, <2>5
  <2>7. /\ OneEach(held) /\ {it.zone : it \in held} = {y \in Zones : PresentAsOf(y, v)}
        /\ \A it \in held : it.box \in ZoneBoxes
        /\ \A y \in Zones : PresentAsOf(y, v) => ValidityAsOf(y, v) \in Validities
        BY <2>1, <2>5 DEF VersionTrue
  <2> QED BY <2>2, <2>3, <2>4, <2>6, <2>7 DEF VersionTrue, OneEach
<1>10. VersionTrue(L + 1)'
  <2>1. PICK held : held = Held(heap, root)
        OBVIOUS
  <2>2. nodes'[roots'[L + 1]].depth = 0
        BY <1>4, <1>5
  <2>3. Held(nodes, roots[L + 1])' = held
    <3>1. Held(nodes', roots'[L + 1]) = held
          BY <1>5, <2>1
    <3> QED BY <3>1 DEF Held, Under, Own, Closed, InHeap
  <2>4. /\ OneEach(held) /\ \A it \in held : it.box \in ZoneBoxes
        /\ \A y : y # z => ((\E it \in held : it.zone = y) <=> (\E it \in Held(nodes, last) : it.zone = y))
        /\ (\E it \in held : it.zone = z) <=> present
        BY <1>1, <1>2, <2>1 DEF Drawn
  <2>5. /\ {it.zone : it \in Held(nodes, last)} = {y \in Zones : PresentAsOf(y, L)}
        /\ \A y \in Zones : PresentAsOf(y, L) => ValidityAsOf(y, L) \in Validities
        BY <1>1, <1>2, <1>3 DEF VersionTrue
  <2>6. \A y \in Zones : /\ PresentAsOf(y, L) <=> ContainsZone(y)
                         /\ ContainsZone(y) => ValidityAsOf(y, L) = history[y][Len(history[y])].validity
        BY <1>1, NowFact DEF NewestRead
  <2>7. \A y \in Zones :
           /\ PresentAsOf(y, L + 1)' <=> ContainsZone(y)'
           /\ ContainsZone(y)' => ValidityAsOf(y, L + 1)' = history'[y][Len(history'[y])].validity
    <3>1. NewestRead'
          BY NowAfter
    <3> QED BY <1>5, <3>1 DEF NewestRead, PresentAsOf, ValidityAsOf, SlotAsOf
  <2>8. \A y \in Zones : y # z => (ContainsZone(y)' <=> ContainsZone(y))
        BY <1>5 DEF ContainsZone
  <2>9. ASSUME NEW y \in Zones
        PROVE  PresentAsOf(y, L + 1)' <=> \E it \in held : it.zone = y
    <3>1. CASE y = z
          BY <1>5, <2>4, <2>7, <3>1
    <3>2. CASE y # z
      <4>1. (\E it \in Held(nodes, last) : it.zone = y) <=> PresentAsOf(y, L)
            BY <2>5
      <4> QED BY <2>4, <2>6, <2>7, <2>8, <3>2, <4>1
    <3> QED BY <3>1, <3>2
  <2>10. \A it \in held : it.zone \in Zones
    <3> SUFFICES ASSUME NEW it \in held PROVE it.zone \in Zones
        OBVIOUS
    <3>1. CASE it.zone = z
          BY <3>1
    <3>2. CASE it.zone # z
      <4>1. \E x \in Held(nodes, last) : x.zone = it.zone
            BY <2>4, <3>2
      <4> QED BY <2>5, <4>1
    <3> QED BY <3>1, <3>2
  <2>11. {it.zone : it \in held} = {y \in Zones : PresentAsOf(y, L + 1)'}
         BY <2>9, <2>10
  <2>12. ASSUME NEW y \in Zones, PresentAsOf(y, L + 1)'
         PROVE  ValidityAsOf(y, L + 1)' \in Validities
    <3>1. ContainsZone(y)' /\ ValidityAsOf(y, L + 1)' = history'[y][Len(history'[y])].validity
          BY <2>7, <2>12
    <3>2. CASE y = z
          BY <1>5, <3>1, <3>2
    <3>3. CASE y # z
      <4>1. ContainsZone(y) /\ history'[y] = history[y]
            BY <1>5, <2>8, <3>1, <3>3
      <4> QED BY <2>5, <2>6, <3>1, <4>1
    <3> QED BY <3>2, <3>3
  <2> QED BY <2>2, <2>3, <2>4, <2>11, <2>12 DEF VersionTrue, OneEach
<1>11. \A v \in 1..(L - 1) : EditTrue(v)'
  <2> SUFFICES ASSUME NEW v \in 1..(L - 1) PROVE EditTrue(v)'
      OBVIOUS
  <2>1. EditTrue(v) /\ v \in 1..L /\ v + 1 \in 1..L
        BY <1>2, <1>3
  <2>2. changelog'[v] = changelog[v] /\ roots'[v] = roots[v] /\ roots'[v + 1] = roots[v + 1]
        BY <1>5, <1>6, <2>1
  <2>3. version_times'[v] = version_times[v] /\ version_times'[v + 1] = version_times[v + 1]
        BY <1>6, <2>1
  <2>4. PICK some : some = Under(nodes, roots[v + 1]) \ Under(nodes, roots[v])
        OBVIOUS
  <2>5. (Under(nodes, roots[v + 1]) \ Under(nodes, roots[v]))' = some
        BY <1>8, <2>1, <2>4
  <2>6. some \subseteq InHeap(nodes) /\ \A m \in some : nodes'[m] = nodes[m]
    <3>1. roots[v + 1] \in InHeap(nodes)
          BY <1>2, <2>1
    <3>2. some \subseteq InHeap(nodes)
          BY <1>4, <2>4, <3>1, UnderClosed
    <3> QED BY <1>4, <1>5, <3>2 DEF Grew
  <2>7. OneChain(nodes, some) => OneChain(nodes, some)'
        BY <2>6 DEF OneChain
  <2>8. /\ version_times[v] <= version_times[v + 1]
        /\ changelog[v].kind = "ValidityChanged" => roots[v + 1] = roots[v]
        /\ changelog[v].kind = "Removed" => OneChain(nodes, some)
        BY <2>1, <2>4 DEF EditTrue
  <2> QED BY <2>2, <2>3, <2>5, <2>7, <2>8 DEF EditTrue, OneChain
<1>12. EditTrue(L)'
  <2>1. version_times'[L] <= version_times'[L + 1]
        BY <1>1, <1>2, <1>5, <1>6
  <2>2. roots'[L] = last /\ roots'[L + 1] = root
        BY <1>1, <1>2, <1>5, <1>6
  <2>3. kind = "ValidityChanged" => root = last
        BY <1>1, <1>2 DEF Drawn
  <2>4. PICK some : some = Under(heap, root) \ Under(nodes, last)
        OBVIOUS
  <2>5. kind = "Removed" => OneChain(heap, some)
        BY <1>1, <1>2, <2>4 DEF Drawn
  <2>6. (Under(nodes, roots[L + 1]) \ Under(nodes, roots[L]))' = some
    <3>1. Under(nodes, roots[L])' = Under(nodes, last)
          BY <1>1, <1>2, <1>8
    <3>2. Under(nodes', roots'[L + 1]) = Under(heap, root)
          BY <1>5
    <3>3. Under(nodes, roots[L + 1])' = Under(heap, root)
          BY <3>2 DEF Under, Closed, InHeap
    <3> QED BY <2>4, <3>1, <3>3
  <2>7. OneChain(heap, some) => OneChain(nodes, some)'
        BY <1>5 DEF OneChain
  <2> QED BY <1>5, <2>1, <2>2, <2>3, <2>5, <2>6, <2>7 DEF EditTrue, OneChain
<1>13. LiveTrue'
  <2>1. LastVersion' = L + 1
        BY <1>5 DEF LastVersion
  <2>2. PICK held : held = Held(heap, root)
        OBVIOUS
  <2>3. Held(nodes, roots[LastVersion])' = held
    <3>1. Held(nodes', roots'[LastVersion']) = held
          BY <1>5, <2>1, <2>2
    <3> QED BY <3>1 DEF Held, Under, Own, Closed, InHeap, LastVersion
  <2>4. live_box' \in [Zones -> ZoneBoxes \cup {Absent}] /\ \A it \in held : it.box = live_box'[it.zone]
        BY <2>2 DEF Drawn
  <2> QED BY <2>3, <2>4 DEF LiveTrue
<1>14. /\ \A v \in 1..(L + 1) : v \in 1..L \/ v = L + 1
       /\ \A v \in 1..L : v \in 1..(L - 1) \/ v = L
       /\ (L + 1) - 1 = L
       BY <1>2
<1>15. (\A v \in 1..(L + 1) : VersionTrue(v)') /\ (\A v \in 1..L : EditTrue(v)')
       BY <1>9, <1>10, <1>11, <1>12, <1>14
<1>16. SoundHeap(nodes)'
  <2>1. SoundHeap(nodes')
        BY <1>4, <1>5
  <2> QED BY <2>1 DEF SoundHeap, Heap, Sound, Shaped, Placed, KidsIn, InHeap, Held, Under, Own, Closed, KidFor
<1>17. /\ (\A v \in 1..Len(roots) : VersionTrue(v))'
       /\ (\A v \in 1..(Len(roots) - 1) : EditTrue(v))'
  <2>1. Len(roots') = L + 1 /\ Len(roots') - 1 = L
        BY <1>5, <1>14
  <2>2. (\A v \in 1..Len(roots') : VersionTrue(v)') /\ (\A v \in 1..(Len(roots') - 1) : EditTrue(v)')
        BY <1>15, <2>1
  <2> QED BY <2>2
<1> QED BY <1>5, <1>13, <1>14, <1>16, <1>17 DEF TreeTrue

(* The tree before an edit holds a zone exactly when its newest record says *)
(* it is there, and where it was last drawn.                                *)
LEMMA LiveFact ==
    ASSUME IndexInv, TreeTrue, NEW z \in Zones
    PROVE  LET last == roots[LastVersion]
               held == Held(nodes, last)
           IN  /\ SoundHeap(nodes) /\ last \in InHeap(nodes) /\ nodes[last].depth = 0
               /\ OneEach(held)
               /\ \A it \in held : /\ it = [zone |-> it.zone, box |-> live_box[it.zone]]
                                   /\ it.zone \in Zones /\ it.box \in ZoneBoxes
               /\ (\E it \in held : it.zone = z) <=> ContainsZone(z)
<1>1. PICK L, last, held : L = LastVersion /\ last = roots[L] /\ held = Held(nodes, last)
      OBVIOUS
<1>2. L = Len(roots) /\ L \in 1..L /\ last \in InHeap(nodes)
      BY <1>1, VersionFact DEF IndexInv
<1>3. SoundHeap(nodes) /\ Heap(nodes) /\ VersionTrue(L) /\ \A it \in held : it.box = live_box[it.zone]
      BY <1>1, <1>2 DEF TreeTrue, LiveTrue, SoundHeap
<1>4. /\ nodes[last].depth = 0 /\ OneEach(held)
      /\ {it.zone : it \in held} = {y \in Zones : PresentAsOf(y, L)}
      /\ \A it \in held : it.box \in ZoneBoxes
      BY <1>1, <1>3 DEF VersionTrue
<1>5. PresentAsOf(z, L) <=> ContainsZone(z)
      BY <1>2, NowFact DEF NewestRead
<1>6. ASSUME NEW it \in held PROVE it = [zone |-> it.zone, box |-> live_box[it.zone]]
  <2>1. PICK n \in Under(nodes, last) : it \in Own(nodes[n])
        BY <1>1 DEF Held
  <2>2. n \in InHeap(nodes)
        BY <1>2, <1>3, <2>1, UnderClosed
  <2>3. nodes[n].items \in Seq(ItemType) /\ Len(nodes[n].items) \in Nat
        BY <1>3, <2>2, NodeFact
  <2>4. \A i \in 1..Len(nodes[n].items) : nodes[n].items[i] \in ItemType
        BY <2>3, ElementOfSeq
  <2>5. it \in ItemType
        BY <2>1, <2>4 DEF Own
  <2>6. it = [zone |-> it.zone, box |-> it.box]
        BY <2>5 DEF ItemType
  <2> QED BY <1>3, <2>6
<1> QED BY <1>1, <1>2, <1>3, <1>4, <1>5, <1>6

(* The tree an edit starts from, less the zone: what removal leaves.        *)
LEMMA ClearedFact ==
    ASSUME IndexInv, TreeTrue, NEW z \in Zones, ContainsZone(z), NEW last, last = roots[LastVersion],
           NEW heap, heap = RemoveCopy(nodes, last, z, live_box[z]),
           NEW new, new = RootAfter(nodes, heap, last)
    PROVE  /\ SoundHeap(heap) /\ Grew(nodes, heap) /\ new \in InHeap(heap) /\ heap[new].depth = 0
           /\ Held(heap, new) = {x \in Held(nodes, last) : x.zone # z}
           /\ OneChain(heap, Under(heap, new) \ Under(nodes, last))
<1>1. PICK held : held = Held(nodes, last)
      OBVIOUS
<1>2. /\ SoundHeap(nodes) /\ last \in InHeap(nodes) /\ nodes[last].depth = 0
      /\ OneEach(held)
      /\ \A it \in held : /\ it = [zone |-> it.zone, box |-> live_box[it.zone]]
                          /\ it.zone \in Zones /\ it.box \in ZoneBoxes
      /\ (\E it \in held : it.zone = z) <=> ContainsZone(z)
      BY <1>1, LiveFact
<1>3. PICK it \in held : it.zone = z
      BY <1>2
<1>4. PICK box : box = live_box[z]
      OBVIOUS
<1>5. it.box = box
  <2>1. it = [zone |-> it.zone, box |-> live_box[it.zone]]
        BY <1>2
  <2> QED BY <1>3, <1>4, <2>1
<1>6. it \in Held(nodes, last) /\ \A x \in Held(nodes, last) : x.zone = z => x = it
      BY <1>1, <1>2, <1>3 DEF OneEach
<1>7. /\ SoundHeap(heap) /\ Grew(nodes, heap) /\ new \in InHeap(heap) /\ heap[new].depth = 0
      /\ Held(heap, new) = {x \in Held(nodes, last) : x.zone # z}
      /\ \A m1, m2 \in Under(heap, new) \ Under(nodes, last) : heap[m1].depth = heap[m2].depth => m1 = m2
  <2>1. PICK h : h = nodes
        OBVIOUS
  <2>2. /\ SoundHeap(h) /\ last \in InHeap(h) /\ h[last].depth = 0
        BY <1>2, <2>1
  <2>3. it \in Held(h, last) /\ (\A x \in Held(h, last) : x.zone = z => x = it) /\ it.zone = z /\ it.box = box
        BY <1>3, <1>5, <1>6, <2>1
  <2>4. heap = RemoveCopy(h, last, z, box) /\ new = RootAfter(h, heap, last)
        BY <1>4, <2>1
  <2>5. /\ SoundHeap(heap) /\ Grew(h, heap) /\ new \in InHeap(heap) /\ heap[new].depth = 0
        /\ Held(heap, new) = {x \in Held(h, last) : x.zone # z}
        /\ \A m1, m2 \in Under(heap, new) \ Under(h, last) : heap[m1].depth = heap[m2].depth => m1 = m2
        BY <2>2, <2>3, <2>4, RemoveSound
  <2> QED BY <2>1, <2>5
<1> QED BY <1>7 DEF OneChain

(* An edit is dated no earlier than the newest version.                     *)
LEMMA LaterFact ==
    ASSUME IndexInv, NEW at \in Times
    PROVE  Monotone(at) \in 0..Forever /\ version_times[LastVersion] <= Monotone(at)
<1>1. PICK was : was = version_times[LastVersion]
      OBVIOUS
<1>2. was \in 0..Forever /\ at \in 0..Forever
      BY <1>1, VersionFact, TimesAssumption DEF IndexInv
<1> QED BY <1>1, <1>2 DEF Monotone, Greater

(* Adding a zone, drawn before or not, keeps the invariant: what is there   *)
(* of it is removed first.                                                  *)
LEMMA AddFact ==
    ASSUME IndexInv, TreeTrue, IndexInv', Extends, NEW z \in Zones, NEW box \in ZoneBoxes,
           NEW v \in Validities, NEW at \in Times, AddZone(z, box, v, at)
    PROVE  TreeTrue'
<1>1. PICK last, held : last = roots[LastVersion] /\ held = Held(nodes, last)
      OBVIOUS
<1>2. /\ SoundHeap(nodes) /\ last \in InHeap(nodes) /\ nodes[last].depth = 0
      /\ OneEach(held)
      /\ \A it \in held : /\ it = [zone |-> it.zone, box |-> live_box[it.zone]]
                          /\ it.zone \in Zones /\ it.box \in ZoneBoxes
      /\ (\E it \in held : it.zone = z) <=> ContainsZone(z)
      BY <1>1, LiveFact
<1>3. PICK cleared, base : cleared = CleanBase(z) /\ base = RootAfter(nodes, cleared, last)
      OBVIOUS
<1>4. /\ SoundHeap(cleared) /\ Grew(nodes, cleared) /\ base \in InHeap(cleared) /\ cleared[base].depth = 0
      /\ Held(cleared, base) = {x \in held : x.zone # z}
  <2>1. CASE ContainsZone(z)
    <3>1. cleared = RemoveCopy(nodes, last, z, live_box[z])
          BY <1>1, <1>3, <2>1 DEF CleanBase
    <3>2. last = roots[LastVersion] /\ base = RootAfter(nodes, cleared, last)
          BY <1>1, <1>3
    <3>3. /\ SoundHeap(cleared) /\ Grew(nodes, cleared) /\ base \in InHeap(cleared) /\ cleared[base].depth = 0
          /\ Held(cleared, base) = {x \in Held(nodes, last) : x.zone # z}
          /\ OneChain(cleared, Under(cleared, base) \ Under(nodes, last))
          BY <2>1, <3>1, <3>2, ClearedFact
    <3> QED BY <1>1, <3>3
  <2>2. CASE ~ContainsZone(z)
    <3>1. cleared = nodes /\ base = last
          BY <1>3, <2>2 DEF CleanBase, RootAfter
    <3>2. Grew(nodes, nodes)
          BY <1>2, SelfGrew DEF SoundHeap
    <3>3. {x \in held : x.zone # z} = held
          BY <1>2, <2>2
    <3> QED BY <1>1, <1>2, <3>1, <3>2, <3>3
  <2> QED BY <2>1, <2>2
<1>5. PICK heap, new, it : /\ heap = InsertCopy(cleared, base, z, box) /\ new = Len(cleared) + 1
                           /\ it = [zone |-> z, box |-> box]
      OBVIOUS
<1>6. box \in BoxType
      BY BoxesAssumption DEF BoxType
<1>7. /\ SoundHeap(heap) /\ Grew(cleared, heap) /\ new \in InHeap(heap) /\ heap[new].depth = 0
      /\ Held(heap, new) = {x \in held : x.zone # z} \cup {it}
  <2>1. \A x \in Held(cleared, base) : x.zone # z
        BY <1>4
  <2>2. /\ SoundHeap(heap) /\ Grew(cleared, heap) /\ new \in InHeap(heap) /\ heap[new].depth = 0
        /\ Held(heap, new) = Held(cleared, base) \cup {it}
        BY <1>4, <1>5, <1>6, <2>1, InsertSound
  <2> QED BY <1>4, <2>2
<1>8. Grew(nodes, heap)
      BY <1>2, <1>4, <1>7, GrewTwice DEF SoundHeap
<1>9. PICK kind : kind = IF ContainsZone(z) THEN "Replaced" ELSE "Added"
      OBVIOUS
<1>10. Commit(heap, new, Monotone(at), z, v, TRUE, kind) /\ live_box' = [live_box EXCEPT ![z] = box]
       BY <1>1, <1>3, <1>5, <1>9 DEF AddZone
<1>11. live_box' \in [Zones -> ZoneBoxes \cup {Absent}] /\ live_box'[z] = box
       /\ \A y \in Zones : y # z => live_box'[y] = live_box[y]
  <2>1. live_box \in [Zones -> ZoneBoxes \cup {Absent}]
        BY DEF TreeTrue, LiveTrue
  <2> QED BY <1>10, <2>1
<1>12. it.zone = z /\ it.box = box
       BY <1>5
<1>13. PICK after : after = Held(heap, new)
       OBVIOUS
<1>14. \A x : x \in after <=> (x \in held /\ x.zone # z) \/ x = it
       BY <1>7, <1>13
<1>15. OneEach(after)
       BY <1>2, <1>12, <1>14 DEF OneEach
<1>16. ASSUME NEW x \in after PROVE x.box \in ZoneBoxes /\ x.box = live_box'[x.zone]
  <2>1. CASE x = it
        BY <1>11, <1>12, <2>1
  <2>2. CASE x \in held /\ x.zone # z
    <3>1. x = [zone |-> x.zone, box |-> live_box[x.zone]] /\ x.zone \in Zones /\ x.box \in ZoneBoxes
          BY <1>2, <2>2
    <3>2. x.box = live_box[x.zone]
          BY <3>1
    <3> QED BY <1>11, <2>2, <3>1, <3>2
  <2> QED BY <1>14, <2>1, <2>2
<1>17. kind \in Kinds /\ kind # "ValidityChanged" /\ kind # "Removed"
       BY <1>9 DEF Kinds
<1>18. Drawn(heap, new, z, TRUE, kind)
  <2>1. \A y : y # z => ((\E x \in after : x.zone = y) <=> (\E x \in held : x.zone = y))
        BY <1>12, <1>14
  <2>2. \E x \in after : x.zone = z
        BY <1>12, <1>14
  <2> QED BY <1>1, <1>7, <1>8, <1>11, <1>13, <1>15, <1>16, <1>17, <2>1, <2>2 DEF Drawn
<1>19. v \in Windows
       BY TimesAssumption DEF Windows
<1>20. version_times[LastVersion] <= Monotone(at) /\ Monotone(at) \in 0..Forever
       BY LaterFact
<1>21. PICK when : when = Monotone(at)
       OBVIOUS
<1> QED BY <1>10, <1>17, <1>18, <1>19, <1>20, <1>21, EditFact

(* Removing a zone keeps the invariant.                                     *)
LEMMA EraseFact ==
    ASSUME IndexInv, TreeTrue, IndexInv', Extends, NEW z \in Zones, NEW at \in Times, RemoveZone(z, at)
    PROVE  TreeTrue'
<1>1. PICK last, held : last = roots[LastVersion] /\ held = Held(nodes, last)
      OBVIOUS
<1>2. /\ OneEach(held)
      /\ \A it \in held : /\ it = [zone |-> it.zone, box |-> live_box[it.zone]]
                          /\ it.zone \in Zones /\ it.box \in ZoneBoxes
      BY <1>1, LiveFact
<1>3. PICK heap, new : heap = RemoveCopy(nodes, last, z, live_box[z]) /\ new = RootAfter(nodes, heap, last)
      OBVIOUS
<1>4. /\ SoundHeap(heap) /\ Grew(nodes, heap) /\ new \in InHeap(heap) /\ heap[new].depth = 0
      /\ Held(heap, new) = {x \in Held(nodes, last) : x.zone # z}
      /\ OneChain(heap, Under(heap, new) \ Under(nodes, last))
  <2>1. ContainsZone(z)
        BY DEF RemoveZone
  <2> QED BY <1>1, <1>3, <2>1, ClearedFact
<1>5. PICK always, when : always = [from |-> 0, to |-> Forever] /\ when = Monotone(at)
      OBVIOUS
<1>6. Commit(heap, new, when, z, always, FALSE, "Removed") /\ live_box' = live_box
      BY <1>1, <1>3, <1>5 DEF RemoveZone
<1>7. live_box' \in [Zones -> ZoneBoxes \cup {Absent}]
      BY <1>6 DEF TreeTrue, LiveTrue
<1>8. PICK after : after = Held(heap, new)
      OBVIOUS
<1>9. \A x : x \in after <=> x \in held /\ x.zone # z
      BY <1>1, <1>4, <1>8
<1>10. OneEach(after)
       BY <1>2, <1>9 DEF OneEach
<1>11. ASSUME NEW x \in after PROVE x.box \in ZoneBoxes /\ x.box = live_box'[x.zone]
  <2>1. x = [zone |-> x.zone, box |-> live_box[x.zone]] /\ x.box \in ZoneBoxes
        BY <1>2, <1>9
  <2>2. x.box = live_box[x.zone]
        BY <2>1
  <2> QED BY <1>6, <2>1, <2>2
<1>12. Drawn(heap, new, z, FALSE, "Removed")
  <2>1. \A y : y # z => ((\E x \in after : x.zone = y) <=> (\E x \in held : x.zone = y))
        BY <1>9
  <2>2. ~\E x \in after : x.zone = z
        BY <1>9
  <2> QED BY <1>1, <1>4, <1>7, <1>8, <1>10, <1>11, <2>1, <2>2 DEF Drawn
<1>13. always \in Windows
       BY <1>5, TimesAssumption DEF Windows
<1>14. version_times[LastVersion] <= when /\ when \in 0..Forever
       BY <1>5, LaterFact
<1>15. "Removed" \in Kinds
       BY DEF Kinds
<1> QED BY <1>6, <1>12, <1>13, <1>14, <1>15, EditFact

(* A new validity keeps the tree.                                           *)
LEMMA RescheduleFact ==
    ASSUME IndexInv, TreeTrue, IndexInv', Extends, NEW z \in Zones, NEW v \in Validities,
           NEW at \in Times, UpdateValidity(z, v, at)
    PROVE  TreeTrue'
<1>1. PICK heap, last, held : heap = nodes /\ last = roots[LastVersion] /\ held = Held(nodes, last)
      OBVIOUS
<1>2. /\ SoundHeap(nodes) /\ last \in InHeap(nodes) /\ nodes[last].depth = 0
      /\ OneEach(held)
      /\ \A it \in held : /\ it = [zone |-> it.zone, box |-> live_box[it.zone]]
                          /\ it.zone \in Zones /\ it.box \in ZoneBoxes
      /\ (\E it \in held : it.zone = z) <=> ContainsZone(z)
      BY <1>1, LiveFact
<1>3. PICK when : when = Monotone(at)
      OBVIOUS
<1>4. Commit(heap, last, when, z, v, TRUE, "ValidityChanged") /\ live_box' = live_box /\ ContainsZone(z)
      BY <1>1, <1>3 DEF UpdateValidity
<1>5. live_box' \in [Zones -> ZoneBoxes \cup {Absent}]
      BY <1>4 DEF TreeTrue, LiveTrue
<1>6. ASSUME NEW x \in held PROVE x.box \in ZoneBoxes /\ x.box = live_box'[x.zone]
  <2>1. x = [zone |-> x.zone, box |-> live_box[x.zone]] /\ x.box \in ZoneBoxes
        BY <1>2
  <2>2. x.box = live_box[x.zone]
        BY <2>1
  <2> QED BY <1>4, <2>1, <2>2
<1>7. Grew(nodes, nodes)
      BY <1>2, SelfGrew DEF SoundHeap
<1>8. Drawn(heap, last, z, TRUE, "ValidityChanged")
      BY <1>1, <1>2, <1>4, <1>5, <1>6, <1>7 DEF Drawn
<1>9. v \in Windows
      BY TimesAssumption DEF Windows
<1>10. version_times[LastVersion] <= when /\ when \in 0..Forever
       BY <1>3, LaterFact
<1>11. "ValidityChanged" \in Kinds
       BY DEF Kinds
<1> QED BY <1>4, <1>8, <1>9, <1>10, <1>11, EditFact

(* So does every step, and the first state has it.                          *)
LEMMA TreeStep ==
    ASSUME IndexInv, TreeTrue, Next
    PROVE  TreeTrue'
<1>1. IndexInv' /\ Extends
      BY StepFact
<1>2. PICK z \in Zones, at \in Times :
         \/ \E box \in ZoneBoxes, v \in Validities : AddZone(z, box, v, at)
         \/ RemoveZone(z, at)
         \/ \E v \in Validities : UpdateValidity(z, v, at)
      BY DEF Next
<1> QED BY <1>1, <1>2, AddFact, EraseFact, RescheduleFact

LEMMA TreeInit == Init => TreeTrue
<1> SUFFICES ASSUME Init PROVE TreeTrue
    OBVIOUS
<1>1. IndexInv /\ Heap(nodes)
      BY InitFact DEF IndexInv, VersionsInv
<1>2. PICK node : node = EmptyNode(World, 0)
      OBVIOUS
<1>3. node.region = World /\ node.depth = 0 /\ node.items = <<>> /\ node.kids = <<>>
      BY <1>2 DEF EmptyNode
<1>4. nodes = <<node>> /\ roots = <<1>> /\ changelog = <<>>
      BY <1>2 DEF Init
<1>5. Len(nodes) = 1 /\ nodes[1] = node /\ Len(roots) = 1 /\ roots[1] = 1 /\ LastVersion = 1
      BY <1>4 DEF LastVersion
<1>6. Len(<<>>) = 0 /\ 1..0 = {}
      OBVIOUS
<1>7. InHeap(nodes) = {1} /\ 1 \in InHeap(nodes)
      BY <1>5 DEF InHeap
<1>8. Held(nodes, 1) = {}
  <2>1. Under(nodes, 1) \subseteq {1}
        BY <1>1, <1>7, UnderClosed
  <2>2. Own(nodes[1]) = {}
        BY <1>3, <1>5, <1>6 DEF Own
  <2> QED BY <2>1, <2>2 DEF Held
<1>9. Sound(nodes, 1)
  <2>1. Shaped(nodes, 1)
        BY <1>3, <1>5, <1>6, BoxesAssumption, MaxDepthAssumption DEF Shaped, Upright
  <2>2. Own(nodes[1]) = {}
        BY <1>3, <1>5, <1>6 DEF Own
  <2>3. Placed(nodes, 1)
        BY <1>3, <1>5, <1>6, <2>2 DEF Placed, OncePer
  <2> QED BY <2>1, <2>3 DEF Sound
<1>10. SoundHeap(nodes)
       BY <1>1, <1>7, <1>9 DEF SoundHeap
<1>11. VersionTrue(1)
  <2>1. \A z \in Zones : ~PresentAsOf(z, 1)
    <3>1. \A z \in Zones : ~ContainsZone(z)
          BY DEF Init, ContainsZone
    <3> QED BY <1>1, <1>5, <3>1, NowFact DEF NewestRead
  <2> QED BY <1>3, <1>5, <1>8, <2>1 DEF VersionTrue, OneEach
<1>12. LiveTrue
       BY <1>5, <1>8 DEF Init, LiveTrue
<1>13. changelog \in Seq(Changes) /\ Len(changelog) = 0
       BY <1>4
<1>14. (\A v \in 1..1 : v = 1) /\ 1..(1 - 1) = {} /\ 1 - 1 = 0
       OBVIOUS
<1> QED BY <1>5, <1>10, <1>11, <1>12, <1>13, <1>14 DEF TreeTrue

(* The inductive invariant of the versioned index: the records and the      *)
(* interval tree, and every tree kept.                                      *)
LEMMA TreeInvariant == Spec => [](IndexInv /\ TreeTrue)
<1>1. Init => IndexInv /\ TreeTrue
      BY InitFact, TreeInit
<1>2. IndexInv /\ TreeTrue /\ [Next]_vars => (IndexInv /\ TreeTrue)'
  <2> SUFFICES ASSUME IndexInv, TreeTrue, [Next]_vars PROVE IndexInv' /\ TreeTrue'
      OBVIOUS
  <2>1. CASE Next
        BY <2>1, StepFact, TreeStep
  <2>2. CASE UNCHANGED vars
    <3>1. IndexInv'
          BY <2>2 DEF vars, IndexInv, VersionsInv, RecordsInv, TreeInv, Slots, EntryOf
    <3>2. TreeTrue'
      <4>1. /\ nodes' = nodes /\ roots' = roots /\ version_times' = version_times /\ history' = history
            /\ live_box' = live_box /\ changelog' = changelog
            BY <2>2 DEF vars
      <4>2. SoundHeap(nodes)'
        <5>1. SoundHeap(nodes')
              BY <4>1 DEF TreeTrue
        <5> QED BY <5>1 DEF SoundHeap, Heap, Sound, Shaped, Placed, KidsIn, InHeap, Held, Under, Own,
               Closed, KidFor
      <4>3. \A v : Held(nodes, roots[v])' = Held(nodes, roots[v]) /\ Under(nodes, roots[v])' = Under(nodes, roots[v])
            BY <4>1 DEF Held, Under, Own, Closed, InHeap
      <4>4. \A v : \A z \in Zones : /\ PresentAsOf(z, v)' = PresentAsOf(z, v)
                                    /\ ValidityAsOf(z, v)' = ValidityAsOf(z, v)
            BY <4>1 DEF PresentAsOf, ValidityAsOf, SlotAsOf
      <4>5. \A v : VersionTrue(v) => VersionTrue(v)'
            BY <4>1, <4>3, <4>4 DEF VersionTrue, OneEach
      <4>6. \A v : EditTrue(v) => EditTrue(v)'
        <5> SUFFICES ASSUME NEW v, EditTrue(v) PROVE EditTrue(v)'
            OBVIOUS
        <5>1. /\ Under(nodes, roots[v + 1])' = Under(nodes, roots[v + 1])
              /\ Under(nodes, roots[v])' = Under(nodes, roots[v])
              BY <4>3
        <5> QED BY <4>1, <5>1 DEF EditTrue, OneChain
      <4>7. LiveTrue'
        <5>1. PICK l : l = LastVersion
              OBVIOUS
        <5>2. LastVersion' = l
              BY <4>1, <5>1 DEF LastVersion
        <5>3. Held(nodes, roots[LastVersion])' = Held(nodes, roots[LastVersion])
              BY <4>1, <5>1, <5>2 DEF Held, Under, Own, Closed, InHeap
        <5>4. LiveTrue
              BY DEF TreeTrue
        <5> QED BY <4>1, <5>3, <5>4 DEF LiveTrue
      <4> QED BY <4>1, <4>2, <4>5, <4>6, <4>7 DEF TreeTrue
    <3> QED BY <3>1, <3>2
  <2> QED BY <2>1, <2>2
<1> QED BY <1>1, <1>2, PTL DEF Spec

(* A version kept is a finite set of items, one for each zone present, and  *)
(* the box the world of that version gives a zone is its item's.            *)
LEMMA VersionAtFact ==
    ASSUME IndexInv, NEW t
    PROVE  VersionAt(t) \in 1..Len(roots)
<1> DEFINE made == {v \in Versions : version_times[v] <= t}
<1>1. Len(roots) \in Nat /\ Len(roots) \in 1..Len(roots) /\ made \in SUBSET (1..Len(roots))
      BY VersionFact DEF IndexInv, Versions
<1>2. VersionAt(t) = Greater(1, Highest(made))
      BY DEF VersionAt
<1> HIDE DEF made
<1>3. Highest(made) \in 0..Len(roots)
      BY <1>1, HighestFact
<1> QED BY <1>1, <1>2, <1>3 DEF Greater

(* A node has finitely many items.                                          *)
LEMMA ItemsFinite ==
    ASSUME SoundHeap(nodes), NEW some \in SUBSET InHeap(nodes)
    PROVE  IsFiniteSet(ItemsIn(some))
<1> DEFINE row == [n \in InHeap(nodes) |-> {<<n, i>> : i \in 1..Len(nodes[n].items)}]
           rows == {row[n] : n \in InHeap(nodes)}
<1>1. IsFiniteSet(InHeap(nodes))
  <2>1. Len(nodes) \in Nat
        BY DEF SoundHeap, Heap
  <2> QED BY <2>1, FS_Interval DEF InHeap
<1>2. IsFiniteSet(rows)
  <2> HIDE DEF InHeap
  <2>1. row \in [InHeap(nodes) -> rows] /\ \A r \in rows : \E n \in InHeap(nodes) : row[n] = r
        OBVIOUS
  <2> HIDE DEF row, rows
  <2>2. row \in Surjection(InHeap(nodes), rows)
        BY <2>1, Fun_IsSurj
  <2> QED BY <1>1, <2>2, FS_Surjection
<1>3. ASSUME NEW r \in rows PROVE IsFiniteSet(r)
  <2>1. PICK n \in InHeap(nodes) : r = row[n]
        OBVIOUS
  <2>2. PICK L : L = 1..Len(nodes[n].items)
        OBVIOUS
  <2>3. r = {<<n, i>> : i \in L}
    <3> HIDE DEF InHeap
    <3> QED BY <2>1, <2>2
  <2>4. IsFiniteSet(L)
    <3>1. Len(nodes[n].items) \in Nat
          BY NodeFact DEF SoundHeap
    <3> QED BY <2>2, <3>1, FS_Interval
  <2> DEFINE pair == [i \in L |-> <<n, i>>]
  <2>5. pair \in [L -> r] /\ \A x \in r : \E i \in L : pair[i] = x
        BY <2>3
  <2> HIDE DEF pair
  <2>6. pair \in Surjection(L, r)
        BY <2>5, Fun_IsSurj
  <2> QED BY <2>4, <2>6, FS_Surjection
<1>4. IsFiniteSet(UNION rows)
  <2> HIDE DEF rows
  <2> QED BY <1>2, <1>3, FS_UNION
<1>5. ItemsIn(some) \subseteq UNION rows
  <2> SUFFICES ASSUME NEW x \in ItemsIn(some) PROVE x \in UNION rows
      OBVIOUS
  <2>1. /\ x[1] \in some /\ x[2] \in 1..Len(nodes[x[1]].items)
        /\ x = <<x[1], x[2]>>
        BY ItemsFact
  <2>2. PICK n, i : n = x[1] /\ i = x[2]
        OBVIOUS
  <2>3. n \in InHeap(nodes) /\ i \in 1..Len(nodes[n].items) /\ x = <<n, i>>
        BY <2>1, <2>2
  <2> HIDE DEF InHeap
  <2>4. x \in row[n] /\ row[n] \in rows
        BY <2>3
  <2> HIDE DEF row
  <2> QED BY <2>4
<1> QED BY <1>4, <1>5, FS_Subset

(* The world of a version gives every zone present the box of its item.     *)
LEMMA WorldFact ==
    ASSUME IndexInv, TreeTrue, NEW v \in 1..Len(roots), NEW its, its = ItemsAt(v)
    PROVE  /\ \A x \in its : /\ ZoneAt(x) \in Zones /\ PresentAsOf(ZoneAt(x), v)
                             /\ ItemAt(x).box \in ZoneBoxes
                             /\ BoxIn(v, ZoneAt(x)) = ItemAt(x).box
           /\ \A z \in Zones : PresentAsOf(z, v) => \E x \in its : ZoneAt(x) = z
           /\ \A x, y \in its : ZoneAt(x) = ZoneAt(y) => x = y
           /\ \A q \in BoxType : Found(roots[v], q) = {x \in its : Intersects(ItemAt(x).box, q)}
           /\ IsFiniteSet(its)
<1>1. PICK root, held : root = roots[v] /\ held = Held(nodes, root)
      OBVIOUS
<1>2. /\ SoundHeap(nodes) /\ Heap(nodes) /\ root \in InHeap(nodes) /\ nodes[root].depth = 0
      /\ OneEach(held)
      /\ {it.zone : it \in held} = {z \in Zones : PresentAsOf(z, v)}
      /\ \A it \in held : it.box \in ZoneBoxes
      BY <1>1, VersionFact DEF IndexInv, TreeTrue, VersionTrue, SoundHeap
<1>3. its = ItemsIn(NodesOf(nodes, root))
      BY <1>1 DEF ItemsAt
<1>4. /\ \A x \in its : ItemAt(x) \in held /\ ZoneAt(x) = ItemAt(x).zone
      /\ \A it \in held : \E x \in its : ItemAt(x) = it
      /\ \A x, y \in its : ZoneAt(x) = ZoneAt(y) => x = y
      /\ \A q \in BoxType : Found(root, q) = {x \in its : Intersects(ItemAt(x).box, q)}
      BY <1>1, <1>2, <1>3, VersionItems
<1>5. IsFiniteSet(its)
  <2>1. Grew(nodes, nodes)
        BY <1>2, SelfGrew
  <2>2. NodesOf(nodes, root) \in SUBSET InHeap(nodes)
        BY <1>2, <2>1, NodesStand
  <2> QED BY <1>2, <1>3, <2>2, ItemsFinite
<1>6. ASSUME NEW x \in its
      PROVE  ZoneAt(x) \in Zones /\ PresentAsOf(ZoneAt(x), v) /\ ItemAt(x).box \in ZoneBoxes
      BY <1>2, <1>4
<1>7. ASSUME NEW z \in Zones, PresentAsOf(z, v) PROVE \E x \in its : ZoneAt(x) = z
  <2>1. PICK it \in held : it.zone = z
        BY <1>2, <1>7
  <2> QED BY <1>4, <2>1
<1>8. ASSUME NEW x \in its PROVE BoxIn(v, ZoneAt(x)) = ItemAt(x).box
  <2> DEFINE found == {y \in ItemsAt(v) : ZoneAt(y) = ZoneAt(x)}
  <2>1. found = {x}
        BY <1>4
  <2>2. BoxIn(v, ZoneAt(x)) = IF found = {} THEN Absent
                              ELSE LET y == CHOOSE y \in found : TRUE IN nodes[y[1]].items[y[2]].box
        BY DEF BoxIn
  <2> HIDE DEF found
  <2>3. (CHOOSE y \in found : TRUE) = x /\ found # {}
        BY <2>1
  <2> QED BY <2>2, <2>3 DEF ItemAt
<1> QED BY <1>1, <1>4, <1>5, <1>6, <1>7, <1>8

(* The world of a version, zone by zone.                                    *)
LEMMA ZoneOfWorld ==
    ASSUME IndexInv, TreeTrue, NEW v \in 1..Len(roots), NEW w, w = WorldOf(v).zones, NEW z \in Zones
    PROVE  /\ w[z] # Absent <=> PresentAsOf(z, v)
           /\ PresentAsOf(z, v) => /\ w[z].box = BoxIn(v, z) /\ w[z].validity = ValidityAsOf(z, v)
                                   /\ BoxIn(v, z) \in ZoneBoxes /\ ValidityAsOf(z, v) \in Validities
           /\ ~PresentAsOf(z, v) => w[z] = Absent
<1>1. w[z] = IF PresentAsOf(z, v) THEN [box |-> BoxIn(v, z), validity |-> ValidityAsOf(z, v)] ELSE Absent
      BY DEF WorldOf
<1>2. ASSUME PresentAsOf(z, v) PROVE BoxIn(v, z) \in ZoneBoxes /\ ValidityAsOf(z, v) \in Validities
  <2>1. PICK its : its = ItemsAt(v)
        OBVIOUS
  <2>2. PICK x \in its : ZoneAt(x) = z
        BY <1>2, <2>1, WorldFact
  <2>3. BoxIn(v, z) = ItemAt(x).box /\ ItemAt(x).box \in ZoneBoxes
        BY <2>1, <2>2, WorldFact
  <2>4. ValidityAsOf(z, v) \in Validities
        BY <1>2 DEF TreeTrue, VersionTrue
  <2> QED BY <2>3, <2>4
<1>3. ASSUME PresentAsOf(z, v) PROVE w[z] # Absent
  <2>1. [box |-> BoxIn(v, z), validity |-> ValidityAsOf(z, v)] \in [box : ZoneBoxes, validity : Validities]
        BY <1>2, <1>3
  <2> QED BY <1>1, <1>3, <2>1, AbsentAssumption
<1> QED BY <1>1, <1>2, <1>3

(* A query of a version finds the zones whose box it meets, once each, and  *)
(* at an instant those that are in force then.                              *)
LEMMA QueriesFact == IndexInv /\ TreeTrue => QueriesAreTrue
<1> SUFFICES ASSUME IndexInv, TreeTrue PROVE QueriesAreTrue
    OBVIOUS
<1>1. ASSUME NEW v \in 1..Len(roots), NEW q \in ZoneBoxes
      PROVE  \A x : x \in Found(roots[v], q) <=>
                       /\ x \in ItemsAt(v)
                       /\ Intersects(WorldOf(v).zones[ZoneAt(x)].box, q)
  <2> SUFFICES ASSUME NEW x
               PROVE  x \in Found(roots[v], q) <=>
                         x \in ItemsAt(v) /\ Intersects(WorldOf(v).zones[ZoneAt(x)].box, q)
      OBVIOUS
  <2>1. q \in BoxType
        BY BoxesAssumption DEF BoxType
  <2>2. PICK its : its = ItemsAt(v)
        OBVIOUS
  <2>3. Found(roots[v], q) = {y \in its : Intersects(ItemAt(y).box, q)}
        BY <2>1, <2>2, WorldFact
  <2>4. x \in its => WorldOf(v).zones[ZoneAt(x)].box = ItemAt(x).box
    <3> SUFFICES ASSUME x \in its PROVE WorldOf(v).zones[ZoneAt(x)].box = ItemAt(x).box
        OBVIOUS
    <3>1. ZoneAt(x) \in Zones /\ PresentAsOf(ZoneAt(x), v) /\ BoxIn(v, ZoneAt(x)) = ItemAt(x).box
          BY <2>2, WorldFact
    <3>2. PICK z, w : z = ZoneAt(x) /\ w = WorldOf(v).zones
          OBVIOUS
    <3>3. w[z].box = BoxIn(v, z)
          BY <3>1, <3>2, ZoneOfWorld
    <3> QED BY <3>1, <3>2, <3>3
  <2> QED BY <2>2, <2>3, <2>4
<1>2. ASSUME NEW v \in 1..Len(roots)
      PROVE  /\ \A z \in Zones : WorldOf(v).zones[z] # Absent <=> PresentAsOf(z, v)
             /\ \A z \in Zones : PresentAsOf(z, v) => WorldOf(v).zones[z].validity = ValidityAsOf(z, v)
             /\ \A x \in ItemsAt(v) : ZoneAt(x) \in Zones /\ PresentAsOf(ZoneAt(x), v)
             /\ \A z \in Zones : PresentAsOf(z, v) => \E x \in ItemsAt(v) : ZoneAt(x) = z
             /\ \A x, y \in ItemsAt(v) : ZoneAt(x) = ZoneAt(y) => x = y
             /\ IsFiniteSet(ItemsAt(v))
  <2>1. PICK w, its : w = WorldOf(v).zones /\ its = ItemsAt(v)
        OBVIOUS
  <2>2. \A z \in Zones : /\ w[z] # Absent <=> PresentAsOf(z, v)
                         /\ PresentAsOf(z, v) => w[z].validity = ValidityAsOf(z, v)
        BY <2>1, ZoneOfWorld
  <2>3. /\ \A x \in its : ZoneAt(x) \in Zones /\ PresentAsOf(ZoneAt(x), v)
        /\ \A z \in Zones : PresentAsOf(z, v) => \E x \in its : ZoneAt(x) = z
        /\ \A x, y \in its : ZoneAt(x) = ZoneAt(y) => x = y
        /\ IsFiniteSet(its)
        BY <2>1, WorldFact
  <2> QED BY <2>1, <2>2, <2>3
<1>3. ASSUME NEW q \in ZoneBoxes
      PROVE  \E w \in {WorldOf(LastVersion).zones} :
                {ZoneAt(x) : x \in QueryNow(q)} = {z \in Zones : w[z] # Absent /\ Intersects(w[z].box, q)}
  <2>1. PICK v, w, found : v = LastVersion /\ w = WorldOf(v).zones /\ found = Found(roots[v], q)
        OBVIOUS
  <2>2. v \in 1..Len(roots) /\ QueryNow(q) = found
        BY <2>1, VersionFact DEF IndexInv, QueryNow
  <2>3. \A x : x \in found <=> x \in ItemsAt(v) /\ Intersects(w[ZoneAt(x)].box, q)
        BY <1>1, <2>1, <2>2
  <2>4. /\ \A z \in Zones : w[z] # Absent <=> PresentAsOf(z, v)
        /\ \A x \in ItemsAt(v) : ZoneAt(x) \in Zones /\ PresentAsOf(ZoneAt(x), v)
        /\ \A z \in Zones : PresentAsOf(z, v) => \E x \in ItemsAt(v) : ZoneAt(x) = z
        BY <1>2, <2>1, <2>2
  <2>5. {ZoneAt(x) : x \in found} = {z \in Zones : w[z] # Absent /\ Intersects(w[z].box, q)}
        BY <2>3, <2>4
  <2> QED BY <2>1, <2>2, <2>5
<1>4. ASSUME NEW t \in Times \cup {Forever}
      PROVE  \E w \in {WorldOf(VersionAt(t)).zones} :
             LET there == {z \in Zones : w[z] # Absent}
                 force == {z \in there : ActiveAt(w[z].validity, t)}
             IN  /\ \A q \in ZoneBoxes :
                       LET hits == QueryAt(t, q)
                       IN  /\ {ZoneAt(x) : x \in hits} = {z \in force : Intersects(w[z].box, q)}
                           /\ \A x, y \in hits : ZoneAt(x) = ZoneAt(y) => x = y
                 /\ ZoneCountAt(t) = Cardinality(there)
  <2>1. PICK v, w : v = VersionAt(t) /\ w = WorldOf(v).zones
        OBVIOUS
  <2>2. v \in 1..Len(roots)
        BY <2>1, VersionAtFact
  <2>3. PICK its : its = ItemsAt(v)
        OBVIOUS
  <2>4. /\ \A z \in Zones : w[z] # Absent <=> PresentAsOf(z, v)
        /\ \A z \in Zones : PresentAsOf(z, v) => w[z].validity = ValidityAsOf(z, v)
        /\ \A x \in its : ZoneAt(x) \in Zones /\ PresentAsOf(ZoneAt(x), v)
        /\ \A z \in Zones : PresentAsOf(z, v) => \E x \in its : ZoneAt(x) = z
        /\ \A x, y \in its : ZoneAt(x) = ZoneAt(y) => x = y
        /\ IsFiniteSet(its)
        BY <1>2, <2>1, <2>2, <2>3
  <2> DEFINE there == {z \in Zones : w[z] # Absent}
             force == {z \in there : ActiveAt(w[z].validity, t)}
  <2>5. ASSUME NEW q \in ZoneBoxes
        PROVE  /\ {ZoneAt(x) : x \in QueryAt(t, q)} = {z \in force : Intersects(w[z].box, q)}
               /\ \A x, y \in QueryAt(t, q) : ZoneAt(x) = ZoneAt(y) => x = y
    <3>1. PICK found, hits : found = Found(roots[v], q) /\ hits = QueryAt(t, q)
          OBVIOUS
    <3>2. \A x : x \in found <=> x \in its /\ Intersects(w[ZoneAt(x)].box, q)
          BY <1>1, <2>1, <2>2, <2>3, <3>1
    <3>3. hits = {x \in found : PresentAsOf(ZoneAt(x), v) /\ ActiveAt(ValidityAsOf(ZoneAt(x), v), t)}
          BY <2>1, <3>1 DEF QueryAt
    <3>4. \A z \in Zones : PresentAsOf(z, v) => (ActiveAt(ValidityAsOf(z, v), t) <=> ActiveAt(w[z].validity, t))
          BY <2>4
    <3>5. \A x : x \in hits <=> /\ x \in its /\ Intersects(w[ZoneAt(x)].box, q)
                                /\ ActiveAt(w[ZoneAt(x)].validity, t)
          BY <2>4, <3>2, <3>3, <3>4
    <3>6. {ZoneAt(x) : x \in hits} = {z \in force : Intersects(w[z].box, q)}
          BY <2>4, <3>5
    <3>7. \A x, y \in hits : ZoneAt(x) = ZoneAt(y) => x = y
          BY <2>4, <3>5
    <3> QED BY <3>1, <3>6, <3>7
  <2>6. ZoneCountAt(t) = Cardinality(there)
    <3> DEFINE names == [x \in its |-> ZoneAt(x)]
    <3>1. names \in [its -> there] /\ \A z \in there : \E x \in its : names[x] = z
          BY <2>4
    <3>2. \A x, y \in its : names[x] = names[y] => x = y
          BY <2>4
    <3> HIDE DEF names, there
    <3>3. names \in Bijection(its, there)
          BY <3>1, <3>2, Fun_IsBij
    <3>4. ExistsBijection(its, there)
          BY <3>3 DEF ExistsBijection
    <3>5. Cardinality(there) = Cardinality(its)
          BY <2>4, <3>4, FS_Bijection
    <3> QED BY <2>1, <2>3, <3>5 DEF ZoneCountAt
  <2> QED BY <2>1, <2>5, <2>6
<1> QED BY <1>3, <1>4 DEF QueriesAreTrue

(* Every version kept is sound, and the newest is the live one.             *)
LEMMA VersionsFact == IndexInv /\ TreeTrue => VersionsAreSound
<1> SUFFICES ASSUME IndexInv, TreeTrue PROVE VersionsAreSound
    OBVIOUS
<1>1. PICK L : L = Len(roots)
      OBVIOUS
<1>2. /\ L \in Nat /\ LastVersion = L /\ Versions = 1..L /\ Len(version_times) = L
      /\ Len(changelog) = L - 1
      BY <1>1, VersionFact DEF IndexInv, TreeTrue, Versions, VersionsInv
<1>3. SoundHeap(nodes) /\ Heap(nodes)
      BY DEF TreeTrue, SoundHeap
<1>4. ASSUME NEW v \in 1..L
      PROVE  /\ roots[v] \in InHeap(nodes)
             /\ NodesOf(nodes, roots[v]) = Under(nodes, roots[v])
             /\ Under(nodes, roots[v]) \in SUBSET InHeap(nodes)
  <2>1. roots[v] \in InHeap(nodes)
        BY <1>1, VersionFact DEF IndexInv
  <2>2. nodes[roots[v]].depth = 0
        BY <1>1 DEF TreeTrue, VersionTrue
  <2>3. PICK root : root = roots[v]
        OBVIOUS
  <2> QED BY <1>3, <2>1, <2>2, <2>3, NodesUnder, UnderClosed
<1>5. ASSUME NEW v \in 1..L, NEW n \in NodesOf(nodes, roots[v])
      PROVE  /\ \A i \in DOMAIN nodes[n].items : FullyContains(nodes[n].region, nodes[n].items[i].box)
             /\ nodes[n].kids # <<>> => Len(nodes[n].kids) = 4
             /\ \A k \in ToSet(nodes[n].kids) :
                   /\ nodes[k].depth = nodes[n].depth + 1
                   /\ FullyContains(nodes[n].region, nodes[k].region)
  <2>1. n \in InHeap(nodes)
        BY <1>4
  <2>2. Shaped(nodes, n) /\ Placed(nodes, n)
        BY <1>3, <2>1 DEF SoundHeap, Sound
  <2>3. /\ nodes[n].items \in Seq(ItemType) /\ DOMAIN nodes[n].items = 1..Len(nodes[n].items)
        /\ DOMAIN nodes[n].kids = 1..Len(nodes[n].kids) /\ nodes[n].kids \in Seq(Nat)
        BY <1>3, <2>1, NodeFact
  <2>4. \A i \in DOMAIN nodes[n].items : FullyContains(nodes[n].region, nodes[n].items[i].box)
        BY <2>2, <2>3 DEF Placed, Own
  <2>5. nodes[n].kids # <<>> => Len(nodes[n].kids) # 0
        BY <2>3
  <2>6. \A k \in ToSet(nodes[n].kids) : \E i \in 1..Len(nodes[n].kids) : k = nodes[n].kids[i]
        BY <2>3 DEF ToSet
  <2> QED BY <2>2, <2>4, <2>5, <2>6 DEF Shaped
<1>6. ASSUME NEW v \in 1..L
      PROVE  /\ \A x, y \in ItemsAt(v) : ZoneAt(x) = ZoneAt(y) => x = y
             /\ {ZoneAt(x) : x \in ItemsAt(v)} = {z \in Zones : PresentAsOf(z, v)}
  <2>1. PICK its : its = ItemsAt(v)
        OBVIOUS
  <2>2. /\ \A x \in its : ZoneAt(x) \in Zones /\ PresentAsOf(ZoneAt(x), v)
        /\ \A z \in Zones : PresentAsOf(z, v) => \E x \in its : ZoneAt(x) = z
        /\ \A x, y \in its : ZoneAt(x) = ZoneAt(y) => x = y
        BY <1>1, <2>1, WorldFact
  <2> QED BY <2>1, <2>2
<1>7. ASSUME NEW v \in 1..L, v > 1
      PROVE  /\ version_times[v - 1] <= version_times[v]
             /\ changelog[v - 1].kind = "ValidityChanged" => NewNodes(v) = {}
             /\ changelog[v - 1].kind = "Removed" =>
                   \A m, n \in NewNodes(v) : nodes[m].depth = nodes[n].depth => m = n
  <2>1. PICK u : u = v - 1
        OBVIOUS
  <2>2. u \in 1..(L - 1) /\ u \in 1..L /\ v = u + 1 /\ v # 1
        BY <1>2, <1>7, <2>1
  <2>3. EditTrue(u)
        BY <1>1, <2>2 DEF TreeTrue
  <2>4. NewNodes(v) = Under(nodes, roots[u + 1]) \ Under(nodes, roots[u])
    <3>1. NewNodes(v) = NodesOf(nodes, roots[v]) \ NodesOf(nodes, roots[u])
          BY <2>1, <2>2 DEF NewNodes
    <3> QED BY <1>4, <2>2, <3>1
  <2> QED BY <2>1, <2>2, <2>3, <2>4 DEF EditTrue, OneChain
<1> QED BY <1>2, <1>5, <1>6, <1>7 DEF VersionsAreSound

(* Whatever was drawn, redrawn, removed and rescheduled, every version kept *)
(* has one item for each zone that was present then, in the node its box    *)
(* leads to, and every query of every version - by box, by point, or at an  *)
(* instant - answers exactly what the world of that version says. This is   *)
(* what copying a path, splitting a leaf and sharing the rest of the tree   *)
(* must not break.                                                          *)
THEOREM QueriesAlwaysTellTheWorld == Spec => []QueriesTellTheWorld
<1>1. IndexInv /\ TreeTrue => QueriesTellTheWorld
      BY QueriesFact, VersionsFact, ForceFact DEF QueriesTellTheWorld
<1> QED BY <1>1, TreeInvariant, PTL

-----------------------------------------------------------------------------
(* The newest world: every zone where it is drawn, in force as last said.   *)
NowWorld ==
    \A y \in Zones :
       WorldOf(Len(roots)).zones[y]
          = IF ContainsZone(y)
            THEN [box |-> live_box[y], validity |-> history[y][Len(history[y])].validity]
            ELSE Absent

(* The newest world is that, before a step and after it.                    *)
LEMMA NowWorldFact == IndexInv /\ TreeTrue => NowWorld
<1> SUFFICES ASSUME IndexInv, TreeTrue, NEW y \in Zones
             PROVE  WorldOf(Len(roots)).zones[y]
                       = IF ContainsZone(y)
                         THEN [box |-> live_box[y], validity |-> history[y][Len(history[y])].validity]
                         ELSE Absent
    BY DEF NowWorld
<1>1. PICK L, its : L = Len(roots) /\ its = ItemsAt(L)
      OBVIOUS
<1>2. L \in 1..Len(roots) /\ L = LastVersion
      BY <1>1, VersionFact DEF IndexInv
<1>3. WorldOf(L).zones[y] = IF PresentAsOf(y, L) THEN [box |-> BoxIn(L, y), validity |-> ValidityAsOf(y, L)]
                            ELSE Absent
      BY DEF WorldOf
<1>4. /\ PresentAsOf(y, L) <=> ContainsZone(y)
      /\ ContainsZone(y) => ValidityAsOf(y, L) = history[y][Len(history[y])].validity
      BY <1>1, NowFact DEF NewestRead
<1>5. ASSUME PresentAsOf(y, L) PROVE BoxIn(L, y) = live_box[y]
  <2>1. PICK x \in its : ZoneAt(x) = y
        BY <1>1, <1>2, <1>5, WorldFact
  <2>2. BoxIn(L, y) = ItemAt(x).box
        BY <1>1, <1>2, <2>1, WorldFact
  <2>3. PICK root : root = roots[L]
        OBVIOUS
  <2>4. SoundHeap(nodes) /\ root \in InHeap(nodes) /\ nodes[root].depth = 0 /\ OneEach(Held(nodes, root))
        BY <1>2, <2>3, LiveFact
  <2>5. its = ItemsIn(NodesOf(nodes, root))
        BY <1>1, <2>3 DEF ItemsAt
  <2>6. ItemAt(x) \in Held(nodes, root) /\ ZoneAt(x) = ItemAt(x).zone
        BY <2>1, <2>4, <2>5, VersionItems
  <2>7. ItemAt(x).box = live_box[ItemAt(x).zone]
        BY <1>2, <2>3, <2>6 DEF TreeTrue, LiveTrue
  <2> QED BY <2>1, <2>2, <2>6, <2>7
<1> QED BY <1>1, <1>3, <1>4, <1>5

LEMMA NowWorldAfter == IndexInv' /\ TreeTrue' => NowWorld'
BY NowWorldFact, PTL

(* No edit changes an earlier world.                                        *)
LEMMA WorldStands ==
    ASSUME IndexInv, IndexInv', Extends, NEW v \in 1..Len(roots)
    PROVE  WorldOf(v)' = WorldOf(v)
<1>1. PICK root, some : root = roots[v] /\ some = NodesOf(nodes, root)
      OBVIOUS
<1>2. /\ root \in InHeap(nodes) /\ roots'[v] = root /\ version_times'[v] = version_times[v]
      /\ Heap(nodes) /\ Grew(nodes, nodes')
      BY <1>1, VersionFact DEF IndexInv, VersionsInv, Extends
<1>3. some \in SUBSET InHeap(nodes) /\ NodesOf(nodes', root) = some
      BY <1>1, <1>2, NodesStand
<1>4. NodesOf(nodes, roots[v])' = some
  <2>1. NodesOf(nodes', roots'[v]) = some
        BY <1>2, <1>3
  <2> QED BY <2>1 DEF NodesOf, Kids
<1>5. PICK its : its = ItemsIn(some)
      OBVIOUS
<1>6. /\ ItemsIn(some)' = its
      /\ \A x \in its : nodes'[x[1]] = nodes[x[1]]
      BY <1>3, <1>5, ItemsStand DEF IndexInv
<1>7. ItemsAt(v) = its /\ ItemsAt(v)' = its
      BY <1>1, <1>4, <1>5, <1>6 DEF ItemsAt
<1>8. ASSUME NEW z PROVE BoxIn(v, z)' = BoxIn(v, z)
  <2>1. PICK held, after : /\ held = {x \in ItemsAt(v) : ZoneAt(x) = z}
                           /\ after = {x \in ItemsAt(v)' : ZoneAt(x)' = z}
        OBVIOUS
  <2>2. BoxIn(v, z) = IF held = {} THEN Absent
                      ELSE LET x == CHOOSE x \in held : TRUE IN nodes[x[1]].items[x[2]].box
        BY <2>1 DEF BoxIn
  <2>3. BoxIn(v, z)' = IF after = {} THEN Absent
                       ELSE LET x == CHOOSE x \in after : TRUE IN nodes'[x[1]].items[x[2]].box
        BY <2>1 DEF BoxIn
  <2>4. after = held /\ held \subseteq its
        BY <1>6, <1>7, <2>1 DEF ZoneAt
  <2>5. held # {} => (CHOOSE x \in held : TRUE) \in its
        BY <2>4
  <2> QED BY <1>6, <2>2, <2>3, <2>4, <2>5
<1>9. \A z \in Zones : /\ PresentAsOf(z, v)' = PresentAsOf(z, v)
                       /\ PresentAsOf(z, v) => ValidityAsOf(z, v)' = ValidityAsOf(z, v)
      BY SlotStands
<1>10. [z \in Zones |-> IF PresentAsOf(z, v) THEN [box |-> BoxIn(v, z), validity |-> ValidityAsOf(z, v)]
                        ELSE Absent]'
       = [z \in Zones |-> IF PresentAsOf(z, v) THEN [box |-> BoxIn(v, z), validity |-> ValidityAsOf(z, v)]
                          ELSE Absent]
       BY <1>8, <1>9
<1> QED BY <1>2, <1>10 DEF WorldOf

(* The refinement mapping: the worlds of the versions kept, oldest first.   *)
Worlds == [v \in Versions |-> WorldOf(v)]

(* What an edit says of its zone, in the terms of the history of worlds.    *)
WhatIsTold(z, validity, present, what) ==
    what = IF present THEN [box |-> live_box'[z], validity |-> validity] ELSE Absent

(* An edit that is written down, and what it writes of versions and         *)
(* records.                                                                 *)
Committed(L, heap, root, at, z, validity, present, kind) ==
    /\ L = Len(roots) /\ at \in 0..Forever /\ z \in Zones /\ validity \in Windows
    /\ present \in BOOLEAN /\ kind \in Kinds
    /\ Commit(heap, root, at, z, validity, present, kind)

LEMMA CommittedFact ==
    ASSUME IndexInv, TreeTrue, IndexInv', NEW L, NEW heap, NEW root, NEW at, NEW z, NEW validity,
           NEW present, NEW kind, Committed(L, heap, root, at, z, validity, present, kind)
    PROVE  /\ Len(roots') = L + 1 /\ version_times'[L + 1] = at
           /\ ContainsZone(z)' <=> present
           /\ history'[z][Len(history'[z])].validity = validity
           /\ \A y \in Zones : y # z => history'[y] = history[y]
<1>1. changelog \in Seq(Changes) /\ Len(changelog) = Len(roots) - 1
      BY DEF TreeTrue
<1>2. /\ L = Len(roots) /\ at \in 0..Forever /\ z \in Zones /\ validity \in Windows
      /\ present \in BOOLEAN /\ kind \in Kinds
      /\ Commit(heap, root, at, z, validity, present, kind)
      BY DEF Committed
<1>3. root \in InHeap(heap)
  <2>1. nodes' = heap /\ roots' = Append(roots, root)
        BY <1>2 DEF Commit
  <2>2. roots' \in Seq(InHeap(heap)) /\ roots \in Seq(InHeap(nodes)) /\ L \in Nat
        BY <1>2, <2>1, VersionFact DEF IndexInv, VersionsInv, InHeap
  <2>3. roots \in Seq(InHeap(nodes) \cup {root}) /\ Len(roots) = L
        BY <1>2, <2>2, SeqMonotonic
  <2> HIDE DEF InHeap
  <2>4. roots'[L + 1] = root /\ Len(roots') = L + 1
        BY <2>1, <2>2, <2>3
  <2>5. L + 1 \in 1..Len(roots')
        BY <2>2, <2>4
  <2> QED BY <2>2, <2>4, <2>5
<1> QED BY <1>1, <1>2, <1>3, CommitParts

(* An edit adds one world, dated no earlier than the newest, in which one   *)
(* zone changed.                                                            *)
LEMMA WorldAdded ==
    ASSUME IndexInv, TreeTrue, IndexInv', TreeTrue', Extends, NEW z \in Zones, NEW at \in Times,
           NEW heap, NEW root, NEW validity \in Windows, NEW present \in BOOLEAN, NEW kind \in Kinds,
           Commit(heap, root, Monotone(at), z, validity, present, kind),
           \A y \in Zones : y # z => live_box'[y] = live_box[y],
           NEW what, WhatIsTold(z, validity, present, what)
    PROVE  Kept!Edit(at, z, what)
<1>1. PICK L, latest, when : L = Len(roots) /\ latest = WorldOf(L) /\ when = Monotone(at)
      OBVIOUS
<1>2. /\ L \in Nat /\ L \in 1..L /\ LastVersion = L /\ Versions = 1..L
      BY <1>1, VersionFact DEF IndexInv, Versions
<1>3. when \in 0..Forever
      BY <1>1, LaterFact
<1>4. /\ Len(roots') = L + 1 /\ version_times'[L + 1] = when
      /\ ContainsZone(z)' <=> present
      /\ history'[z][Len(history'[z])].validity = validity
      /\ \A y \in Zones : y # z => history'[y] = history[y]
  <2>1. Committed(L, heap, root, when, z, validity, present, kind)
        BY <1>1, <1>3 DEF Committed
  <2> QED BY <2>1, CommittedFact
<1>5. Versions' = 1..(L + 1)
  <2>1. roots' \in Seq(InHeap(nodes'))
        BY DEF IndexInv, VersionsInv, InHeap
  <2> HIDE DEF InHeap
  <2> QED BY <1>4, <2>1 DEF Versions
<1>6. \A v \in 1..L : WorldOf(v)' = WorldOf(v)
      BY <1>1, WorldStands
<1>7. /\ latest.at = version_times[L]
      /\ latest.zones = [y \in Zones |-> latest.zones[y]]
      /\ WorldOf(L + 1)' = [at |-> when, zones |-> [y \in Zones |-> WorldOf(L + 1)'.zones[y]]]
      BY <1>1, <1>4 DEF WorldOf
<1>8. when = IF at < latest.at THEN latest.at ELSE at
      BY <1>1, <1>2, <1>7 DEF Monotone, Greater
<1>9. ASSUME NEW y \in Zones
      PROVE  /\ latest.zones[y] = IF ContainsZone(y)
                                  THEN [box |-> live_box[y], validity |-> history[y][Len(history[y])].validity]
                                  ELSE Absent
             /\ WorldOf(L + 1)'.zones[y] = IF ContainsZone(y)'
                                  THEN [box |-> live_box'[y], validity |-> history'[y][Len(history'[y])].validity]
                                  ELSE Absent
  <2>1. NowWorld /\ NowWorld'
        BY NowWorldFact, NowWorldAfter
  <2>2. WorldOf(Len(roots))' = WorldOf(L + 1)'
        BY <1>4 DEF WorldOf, BoxIn, ItemsAt, PresentAsOf, ValidityAsOf, SlotAsOf
  <2> QED BY <1>1, <2>1, <2>2 DEF NowWorld
<1>10. WorldOf(L + 1)'.zones[z] = what
       BY <1>4, <1>9 DEF WhatIsTold
<1>11. \A y \in Zones : y # z => WorldOf(L + 1)'.zones[y] = latest.zones[y]
  <2> SUFFICES ASSUME NEW y \in Zones, y # z PROVE WorldOf(L + 1)'.zones[y] = latest.zones[y]
      OBVIOUS
  <2>1. history'[y] = history[y] /\ live_box'[y] = live_box[y]
        BY <1>4
  <2>2. ContainsZone(y)' <=> ContainsZone(y)
        BY <2>1 DEF ContainsZone
  <2> QED BY <1>9, <2>1, <2>2
<1>12. PICK new : new = WorldOf(L + 1)'
       OBVIOUS
<1>13. new = [at |-> IF at < latest.at THEN latest.at ELSE at, zones |-> [latest.zones EXCEPT ![z] = what]]
  <2>1. new.zones = [latest.zones EXCEPT ![z] = what]
    <3>1. new.zones = [y \in Zones |-> new.zones[y]] /\ latest.zones = [y \in Zones |-> latest.zones[y]]
          BY <1>7, <1>12
    <3>2. new.zones[z] = what /\ \A y \in Zones : y # z => new.zones[y] = latest.zones[y]
          BY <1>10, <1>11, <1>12
    <3> QED BY <3>1, <3>2
  <2>2. new = [at |-> when, zones |-> new.zones]
        BY <1>7, <1>12
  <2> QED BY <1>8, <2>1, <2>2
<1>14. PICK ws : ws = Worlds
       OBVIOUS
<1>15. /\ ws = [v \in 1..L |-> WorldOf(v)]
       /\ Worlds' = [v \in 1..(L + 1) |-> IF v <= L THEN WorldOf(v) ELSE new]
  <2>1. ws = [v \in 1..L |-> WorldOf(v)]
        BY <1>2, <1>14 DEF Worlds
  <2>2. Worlds' = [v \in 1..(L + 1) |-> WorldOf(v)']
        BY <1>5 DEF Worlds
  <2>3. ASSUME NEW v \in 1..(L + 1) PROVE WorldOf(v)' = IF v <= L THEN WorldOf(v) ELSE new
    <3>1. CASE v <= L
      <4>1. v \in 1..L
            BY <1>2, <3>1
      <4> QED BY <1>6, <3>1, <4>1
    <3>2. CASE ~(v <= L)
      <4>1. v = L + 1
            BY <1>2, <3>2
      <4> QED BY <1>12, <3>2, <4>1
    <3> QED BY <3>1, <3>2
  <2> QED BY <2>1, <2>2, <2>3
<1>16. Len(ws) = L /\ ws[L] = latest
  <2>1. ws[L] = latest
        BY <1>1, <1>2, <1>15
  <2>2. DOMAIN ws = 1..L
        BY <1>15
  <2>3. \A v \in 1..L : ws[v] = WorldOf(v)
        BY <1>15
  <2>4. ws \in [1..L -> {ws[v] : v \in 1..L}]
        BY <1>15
  <2>5. Len(ws) = L
        BY <1>2, <2>4, FunctionIsSeq
  <2> QED BY <2>1, <2>5
<1>17. Worlds' = Append(ws, new)
  <2>1. Append(ws, new) = [v \in 1..(L + 1) |-> IF v <= L THEN ws[v] ELSE new]
    <3>1. DOMAIN ws = 1..L /\ ws = [v \in 1..L |-> ws[v]]
          BY <1>15
    <3>2. ws \in Seq({ws[v] : v \in 1..L})
      <4>1. ws \in [1..L -> {ws[v] : v \in 1..L}]
            BY <1>15
      <4> QED BY <1>2, <4>1, FunctionIsSeq
    <3> QED BY <1>2, <1>16, <3>1, <3>2
  <2>2. \A v \in 1..(L + 1) : v <= L => v \in 1..L
        BY <1>2
  <2> QED BY <1>15, <2>1, <2>2
<1> QED BY <1>13, <1>14, <1>16, <1>17 DEF Kept!Edit, Kept!Latest, Worlds

(* The empty index is the history that begins with the empty world.         *)
LEMMA KeptInit == Init => Kept!Init
<1> SUFFICES ASSUME Init PROVE Kept!Init
    OBVIOUS
<1>1. IndexInv /\ TreeTrue
      BY InitFact, TreeInit
<1>2. roots = <<1>> /\ version_times = <<0>> /\ \A z \in Zones : ~ContainsZone(z)
      BY DEF Init, ContainsZone
<1>3. Len(roots) = 1 /\ Versions = {1} /\ version_times[1] = 0
      BY <1>2 DEF Versions
<1>4. \A z \in Zones : ~PresentAsOf(z, 1)
      BY <1>1, <1>2, <1>3, NowFact DEF NewestRead
<1>5. WorldOf(1) = [at |-> 0, zones |-> [z \in Zones |-> Absent]]
      BY <1>3, <1>4 DEF WorldOf
<1>6. Worlds = <<WorldOf(1)>>
  <2>1. PICK w : w = WorldOf(1)
        OBVIOUS
  <2>2. Worlds = [v \in 1..1 |-> w]
        BY <1>3, <2>1 DEF Worlds
  <2>3. <<w>> = [v \in 1..1 |-> w]
        OBVIOUS
  <2> QED BY <2>1, <2>2, <2>3
<1> QED BY <1>5, <1>6 DEF Kept!Init, Worlds

(* Every edit of the index is an edit of the history of worlds: it draws,   *)
(* erases or reschedules one zone.                                          *)
LEMMA KeptStep ==
    ASSUME IndexInv, TreeTrue, IndexInv', TreeTrue', Extends, Next
    PROVE  Kept!Next
<1>1. PICK z \in Zones, at \in Times :
         \/ \E box \in ZoneBoxes, v \in Validities : AddZone(z, box, v, at)
         \/ RemoveZone(z, at)
         \/ \E v \in Validities : UpdateValidity(z, v, at)
      BY DEF Next
<1>2. PICK L, latest : L = Len(roots) /\ latest = WorldOf(L)
      OBVIOUS
<1>3. L \in Nat /\ L \in 1..L /\ Versions = 1..L /\ LastVersion = L
      BY <1>2, VersionFact DEF IndexInv, Versions
<1>4. Kept!Latest = latest
  <2>1. PICK ws : ws = Worlds
        OBVIOUS
  <2>2. ws = [v \in 1..L |-> WorldOf(v)]
        BY <1>3, <2>1 DEF Worlds
  <2>3. ws \in [1..L -> {ws[v] : v \in 1..L}] /\ ws[L] = latest
        BY <1>2, <1>3, <2>2
  <2>4. Len(ws) = L
        BY <1>3, <2>3, FunctionIsSeq
  <2> QED BY <2>1, <2>3, <2>4 DEF Kept!Latest, Worlds
<1>5. latest.zones[z] = IF ContainsZone(z)
                        THEN [box |-> live_box[z], validity |-> history[z][Len(history[z])].validity]
                        ELSE Absent
      BY <1>2, NowWorldFact DEF NowWorld
<1>6. \A v \in Validities : v \in Windows
      BY TimesAssumption DEF Windows
<1>7. ContainsZone(z) => latest.zones[z] # Absent
  <2>1. PICK w : w = latest.zones
        OBVIOUS
  <2>2. L \in 1..Len(roots) /\ w = WorldOf(L).zones
        BY <1>2, <1>3, <2>1
  <2>3. w[z] # Absent <=> PresentAsOf(z, L)
        BY <2>2, ZoneOfWorld
  <2>4. PresentAsOf(z, L) <=> ContainsZone(z)
        BY <1>2, NowFact DEF NewestRead
  <2> QED BY <2>1, <2>3, <2>4
<1>8. TRUE \in BOOLEAN /\ FALSE \in BOOLEAN /\ \A k \in {"Added", "Replaced", "Removed", "ValidityChanged"} : k \in Kinds
      BY DEF Kinds
<1>9. CASE \E box \in ZoneBoxes, v \in Validities : AddZone(z, box, v, at)
  <2>1. PICK box \in ZoneBoxes, v \in Validities : AddZone(z, box, v, at)
        BY <1>9
  <2>2. PICK heap, root, kind :
           /\ heap = InsertCopy(CleanBase(z), RootAfter(nodes, CleanBase(z), roots[LastVersion]), z, box)
           /\ root = Len(CleanBase(z)) + 1
           /\ kind = IF ContainsZone(z) THEN "Replaced" ELSE "Added"
        OBVIOUS
  <2>3. Commit(heap, root, Monotone(at), z, v, TRUE, kind) /\ live_box' = [live_box EXCEPT ![z] = box]
        BY <2>1, <2>2 DEF AddZone
  <2>4. kind \in Kinds
        BY <1>8, <2>2
  <2>5. live_box'[z] = box /\ \A y \in Zones : y # z => live_box'[y] = live_box[y]
        BY <2>3 DEF TreeTrue, LiveTrue
  <2>6. PICK what : what = [box |-> box, validity |-> v]
        OBVIOUS
  <2>7. WhatIsTold(z, v, TRUE, what)
        BY <2>5, <2>6 DEF WhatIsTold
  <2>8. v \in Windows
        BY <1>6
  <2>9. Kept!Edit(at, z, what)
        BY <1>8, <2>3, <2>4, <2>5, <2>7, <2>8, WorldAdded
  <2>10. what \in Kept!Zone
         BY <2>6 DEF Kept!Zone
  <2> QED BY <2>9, <2>10 DEF Kept!Next, Kept!Draw
<1>10. CASE RemoveZone(z, at)
  <2>1. PICK heap, root, always :
           /\ heap = RemoveCopy(nodes, roots[LastVersion], z, live_box[z])
           /\ root = RootAfter(nodes, heap, roots[LastVersion])
           /\ always = [from |-> 0, to |-> Forever]
        OBVIOUS
  <2>2. Commit(heap, root, Monotone(at), z, always, FALSE, "Removed") /\ live_box' = live_box /\ ContainsZone(z)
        BY <1>10, <2>1 DEF RemoveZone
  <2>3. always \in Windows /\ \A y \in Zones : y # z => live_box'[y] = live_box[y]
        BY <2>1, <2>2, TimesAssumption DEF Windows
  <2>4. PICK what : what = Absent
        OBVIOUS
  <2>5. WhatIsTold(z, always, FALSE, what)
        BY <2>4 DEF WhatIsTold
  <2>6. Kept!Edit(at, z, what)
        BY <1>8, <2>2, <2>3, <2>5, WorldAdded
  <2>7. Kept!Latest.zones[z] # Absent
        BY <1>4, <1>7, <2>2
  <2> QED BY <2>4, <2>6, <2>7 DEF Kept!Next, Kept!Erase
<1>11. CASE \E v \in Validities : UpdateValidity(z, v, at)
  <2>1. PICK v \in Validities : UpdateValidity(z, v, at)
        BY <1>11
  <2>2. PICK heap, root : heap = nodes /\ root = roots[LastVersion]
        OBVIOUS
  <2>3. Commit(heap, root, Monotone(at), z, v, TRUE, "ValidityChanged") /\ live_box' = live_box /\ ContainsZone(z)
        BY <2>1, <2>2 DEF UpdateValidity
  <2>4. v \in Windows /\ \A y \in Zones : y # z => live_box'[y] = live_box[y]
        BY <1>6, <2>3
  <2>5. PICK what : what = [latest.zones[z] EXCEPT !.validity = v]
        OBVIOUS
  <2>6. what = [box |-> live_box[z], validity |-> v]
        BY <1>5, <2>3, <2>5
  <2>7. WhatIsTold(z, v, TRUE, what)
        BY <2>3, <2>6 DEF WhatIsTold
  <2>8. Kept!Edit(at, z, what)
        BY <1>8, <2>3, <2>4, <2>7, WorldAdded
  <2>9. Kept!Latest.zones[z] # Absent /\ what = [Kept!Latest.zones[z] EXCEPT !.validity = v]
        BY <1>4, <1>7, <2>3, <2>5
  <2> QED BY <2>8, <2>9 DEF Kept!Next, Kept!Reschedule
<1> QED BY <1>1, <1>9, <1>10, <1>11

(* The index with its shared trees, records and interval tree is a history  *)
(* of worlds: an edit adds one world, dated no earlier than the newest,     *)
(* that differs from it in the zone edited only; and no earlier world ever  *)
(* changes.                                                                 *)
THEOREM IndexImplementsZoneHistory == Spec => ImplementsZoneHistory
<1>1. Init => Kept!Init
      BY KeptInit
<1>2. /\ IndexInv /\ TreeTrue /\ (IndexInv /\ TreeTrue)' /\ [Next]_vars
      => [Kept!Next]_Worlds
  <2> SUFFICES ASSUME IndexInv, TreeTrue, IndexInv', TreeTrue', [Next]_vars
               PROVE  Kept!Next \/ Worlds' = Worlds
      OBVIOUS
  <2>1. CASE Next
        BY <2>1, StepFact, KeptStep
  <2>2. CASE UNCHANGED vars
        BY <2>2 DEF vars, Worlds, WorldOf, Versions, BoxIn, ItemsAt, ItemsIn, NodesOf, Kids, ZoneAt, PresentAsOf, ValidityAsOf,
           SlotAsOf
  <2> QED BY <2>1, <2>2
<1> QED BY <1>1, <1>2, TreeInvariant, PTL DEF Spec, ImplementsZoneHistory, Kept!Spec, Worlds
=============================================================================
