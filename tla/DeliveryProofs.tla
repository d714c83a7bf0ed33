--------------------------- MODULE DeliveryProofs ---------------------------
(***************************************************************************)
(* What is delivered arrives once and counts as it should: requests over a *)
(* socket (module HttpServer), the batches of an outbox (module Outbox)    *)
(* and the events that reach the alert board (module Board), for any       *)
(* clients, requests, devices, tourists, zones and timings.                *)
(***************************************************************************)
EXTENDS HttpServer, Outbox, Board, FiniteSetTheorems, SequenceTheorems,
        WellFoundedInduction, TLAPS

(***************************************************************************)
(* HttpServer.                                                             *)
(***************************************************************************)
-----------------------------------------------------------------------------
(* The parser.                                                              *)

(* The tests of parse_request refuse exactly the requests that are not well *)
(* formed.                                                                  *)
LEMMA RefusalIsFair ==
    ASSUME NEW r \in Requests
    PROVE  /\ Refusal(r) = 0 <=> WellFormed(r)
           /\ Refusal(r) \in {0, 400, 411, 413, 431, 501}
<1>1. /\ r.head \in Nat /\ r.fields \in Nat /\ r.badField \in 0..r.fields
      /\ r.lengths \in Seq(Int) /\ MaxHeader \in Nat /\ MaxFields \in Nat /\ MaxBody \in Nat
      BY HttpAssumption DEF HttpAssumption
<1>2. BodyLength(r) \in Int /\ Len(r.lengths) \in Nat
      BY <1>1 DEF BodyLength
<1>3. r.fields <= MaxFields => (r.badField \in 1..(MaxFields + 1) <=> r.badField # 0)
      BY <1>1
<1>4. BodyLength(r) \in 0..MaxBody <=> ~(BodyLength(r) < 0) /\ ~(BodyLength(r) > MaxBody)
      BY <1>1, <1>2
<1>5. Len(r.lengths) <= 1 <=> ~(Len(r.lengths) > 1)
      BY <1>2
<1>6. (r.head <= MaxHeader <=> ~(r.head > MaxHeader)) /\ (r.fields <= MaxFields <=> ~(r.fields > MaxFields))
      BY <1>1
<1> QED BY <1>3, <1>4, <1>5, <1>6 DEF Refusal, WellFormed

(* What is still incomplete fits the buffers, what is complete is there,    *)
(* and what is refused deserves it.                                         *)
LEMMA ParseFacts ==
    ASSUME NEW r \in Requests, NEW got \in Nat
    PROVE  /\ Parse(r, got) = Incomplete => got <= MaxHeader + MaxBody
           /\ Parse(r, got) = Complete => WellFormed(r) /\ got >= r.head + BodyLength(r)
           /\ Parse(r, got) \notin {Incomplete, Complete} => ~WellFormed(r) /\ Parse(r, got) # 500
<1>1. r.head \in Nat /\ MaxHeader \in Nat /\ MaxBody \in Nat /\ r.lengths \in Seq(Int)
      BY HttpAssumption DEF HttpAssumption
<1>2. BodyLength(r) \in Int
      BY <1>1 DEF BodyLength
<1>3. CASE got < r.head
  <2>1. got > MaxHeader => ~WellFormed(r)
        BY <1>1, <1>3 DEF WellFormed
  <2> QED BY <1>1, <1>3, <2>1 DEF Parse, Incomplete, Complete
<1>4. CASE ~(got < r.head) /\ Refusal(r) # 0
  <2>1. Parse(r, got) = Refusal(r)
        BY <1>4 DEF Parse
  <2> QED BY <1>4, <2>1, RefusalIsFair DEF Incomplete, Complete
<1>5. CASE ~(got < r.head) /\ Refusal(r) = 0
  <2>1. WellFormed(r)
        BY <1>5, RefusalIsFair
  <2>2. r.head <= MaxHeader /\ BodyLength(r) \in 0..MaxBody
        BY <2>1 DEF WellFormed
  <2>3. Parse(r, got) = IF got < r.head + BodyLength(r) THEN Incomplete ELSE Complete
        BY <1>5 DEF Parse
  <2> QED BY <1>1, <1>2, <2>1, <2>2, <2>3 DEF Incomplete, Complete
<1> QED BY <1>3, <1>4, <1>5

-----------------------------------------------------------------------------
(* One connection.                                                          *)

(* An answer, once given, fits what came; until then what came is no more   *)
(* than the parser takes for incomplete.                                    *)
Fair(c) ==
    /\ {"req", "got", "said", "left", "idle", "age"} \subseteq DOMAIN c
    /\ c.req \in Requests /\ c.got \in Nat
    /\ \/ c.said = <<>> /\ c.got <= MaxHeader + MaxBody
       \/ /\ \E s \in {200, 500} : c.said = <<s>>
          /\ WellFormed(c.req) /\ c.got >= c.req.head + BodyLength(c.req)
       \/ /\ \E s : s \notin {200, 500} /\ c.said = <<s>>
          /\ ~WellFormed(c.req)

(* Times, and what is left to send, decide nothing of this.                 *)
LEMMA FairOfParts ==
    ASSUME NEW c, Fair(c), NEW d,
           {"req", "got", "said", "left", "idle", "age"} \subseteq DOMAIN d,
           d.req = c.req, d.got = c.got, d.said = c.said
    PROVE  Fair(d)
BY DEF Fair

LEMMA AgedIsFair ==
    ASSUME NEW c, Fair(c), NEW d
    PROVE  Fair(Aged(c, d))
BY DEF Fair, Aged

(* recv only looks at a connection that has no answer yet.                  *)
LEMMA ReceivedIsFair ==
    ASSUME NEW c, Fair(c), NEW read \in Received(c)
    PROVE  Fair(read)
<1>1. CASE read = c
      BY <1>1
<1>2. CASE read # c
  <2>1. c.said = <<>> /\ \E n \in 1..Min({Chunk, c.req.head + c.req.sent - c.got}) :
            read \in Respond([c EXCEPT !.got = @ + n, !.idle = 0])
        BY <1>2 DEF Received, Responding
  <2>2. PICK n \in 1..Min({Chunk, c.req.head + c.req.sent - c.got}) :
            read \in Respond([c EXCEPT !.got = @ + n, !.idle = 0])
        BY <2>1
  <2> DEFINE more == [c EXCEPT !.got = @ + n, !.idle = 0]
  <2>3. /\ more.req = c.req /\ more.got = c.got + n /\ more.said = <<>>
        /\ DOMAIN more = DOMAIN c /\ more.req \in Requests /\ more.got \in Nat
        BY <2>1 DEF Fair
  <2> HIDE DEF more
  <2> DEFINE status == Parse(more.req, more.got)
  <2> DEFINE Saying(s) == [more EXCEPT !.said = Append(@, s), !.left = AnswerSize, !.age = 0]
  <2>4. \A s : /\ Saying(s).req = more.req /\ Saying(s).got = more.got /\ Saying(s).said = <<s>>
               /\ DOMAIN Saying(s) = DOMAIN c
        BY <2>3 DEF Fair
  <2>5. /\ status = Incomplete => read = more
        /\ status = Complete => read \in {Saying(200), Saying(500)}
        /\ status \notin {Incomplete, Complete} => read = Saying(status)
        BY <2>2 DEF Respond, more, Incomplete, Complete
  <2> HIDE DEF Saying
  <2>6. CASE status = Incomplete
        BY <2>3, <2>5, <2>6, ParseFacts DEF Fair
  <2>7. CASE status = Complete
        BY <2>3, <2>4, <2>5, <2>7, ParseFacts DEF Fair
  <2>8. CASE status \notin {Incomplete, Complete}
        BY <2>3, <2>4, <2>5, <2>8, ParseFacts DEF Fair, Complete
  <2> QED BY <2>6, <2>7, <2>8
<1> QED BY <1>1, <1>2

LEMMA SentIsFair ==
    ASSUME NEW c, Fair(c), NEW after \in Sent(c)
    PROVE  Fair(after)
<1>1. CASE after = c
      BY <1>1
<1>2. ASSUME NEW n \in 1..c.left, after = [c EXCEPT !.left = @ - n, !.idle = 0]
      PROVE  Fair(after)
  <2>1. DOMAIN after = DOMAIN c /\ after.req = c.req /\ after.got = c.got /\ after.said = c.said
        BY <1>2 DEF Fair
  <2> QED BY <2>1, FairOfParts DEF Fair
<1> QED BY <1>1, <1>2 DEF Sent

-----------------------------------------------------------------------------
(* The loop.                                                                *)

Slots ==
    /\ DOMAIN conns \subseteq Clients
    /\ IsFiniteSet(DOMAIN conns) /\ Cardinality(DOMAIN conns) <= MaxConnections

HInv == Slots /\ \A x \in DOMAIN conns : Fair(conns[x])

LEMMA HInvInit == Init => HInv
<1> SUFFICES ASSUME Init PROVE HInv
    OBVIOUS
<1>1. DOMAIN conns = {}
      BY DEF Init
<1> QED BY <1>1, FS_EmptySet, HttpAssumption DEF HInv, Slots, HttpAssumption

(* A step that keeps the connections it keeps fair.                         *)
LEMMA KeepsFewer ==
    ASSUME HInv, DOMAIN conns' \subseteq DOMAIN conns, \A x \in DOMAIN conns' : Fair(conns'[x])
    PROVE  HInv'
<1>1. IsFiniteSet(DOMAIN conns') /\ Cardinality(DOMAIN conns') <= Cardinality(DOMAIN conns)
      BY FS_Subset DEF HInv, Slots
<1>2. Cardinality(DOMAIN conns) \in Nat /\ Cardinality(DOMAIN conns') \in Nat /\ MaxConnections \in Nat
      BY <1>1, FS_CardinalityType, HttpAssumption DEF HInv, Slots, HttpAssumption
<1> QED BY <1>1, <1>2 DEF HInv, Slots

LEMMA AcceptKeepsHInv ==
    ASSUME HInv, NEW c \in Clients, NEW r \in Requests, Accept(c, r)
    PROVE  HInv'
<1>1. /\ DOMAIN conns' = DOMAIN conns \cup {c} /\ c \notin DOMAIN conns
      /\ \A x \in DOMAIN conns : conns'[x] = conns[x]
      /\ conns'[c] = Opened(r)
      BY DEF Accept
<1>2. Fair(Opened(r))
      BY HttpAssumption DEF HttpAssumption, Fair, Opened
<1>3. IsFiniteSet(DOMAIN conns') /\ Cardinality(DOMAIN conns') = Cardinality(DOMAIN conns) + 1
      BY <1>1, FS_AddElement DEF HInv, Slots
<1>4. Cardinality(DOMAIN conns') <= MaxConnections
      BY <1>3, FS_CardinalityType, HttpAssumption DEF Accept, HInv, Slots, HttpAssumption
<1> QED BY <1>1, <1>2, <1>3, <1>4 DEF HInv, Slots

LEMMA HangUpKeepsHInv ==
    ASSUME HInv, NEW c, HangsUp(c)
    PROVE  HInv'
BY KeepsFewer DEF HangsUp, Restrict, HInv

LEMMA ServeKeepsHInv == HInv /\ Serve => HInv'
<1> SUFFICES ASSUME HInv, Serve PROVE HInv'
    OBVIOUS
<1> DEFINE c == Min(due)
<1>1. \/ HangsUp(c)
      \/ \E read \in Received(conns[c]) : \E after \in Sent(read) :
            conns' = [conns EXCEPT ![c] = after]
      BY DEF Serve
<1> HIDE DEF c
<1>2. CASE HangsUp(c)
      BY <1>2, HangUpKeepsHInv
<1>3. ASSUME NEW read \in Received(conns[c]), NEW after \in Sent(read),
             conns' = [conns EXCEPT ![c] = after]
      PROVE  HInv'
  <2>1. c \in DOMAIN conns => Fair(after)
        BY ReceivedIsFair, SentIsFair DEF HInv
  <2>2. DOMAIN conns' = DOMAIN conns /\ \A x \in DOMAIN conns : Fair(conns'[x])
        BY <1>3, <2>1 DEF HInv
  <2> QED BY <2>2, KeepsFewer
<1> QED BY <1>1, <1>2, <1>3

LEMMA HInvNext == HInv /\ [Next]_vars => HInv'
<1> SUFFICES ASSUME HInv, [Next]_vars PROVE HInv'
    OBVIOUS
<1>1. ASSUME NEW d \in Waits, Poll(d) PROVE HInv'
  <2>1. DOMAIN conns' = DOMAIN conns /\ \A x \in DOMAIN conns : conns'[x] = Aged(conns[x], d)
        BY <1>1 DEF Poll
  <2> QED BY <2>1, KeepsFewer, AgedIsFair DEF HInv
<1>2. ASSUME NEW c \in Clients, NEW r \in Requests, Accept(c, r) PROVE HInv'
      BY <1>2, AcceptKeepsHInv
<1>3. CASE Serve
      BY <1>3, ServeKeepsHInv
<1>4. CASE NoneWaiting \/ EndRound \/ UNCHANGED vars
      BY <1>4 DEF NoneWaiting, EndRound, vars, HInv, Slots
<1> QED BY <1>1, <1>2, <1>3, <1>4 DEF Next

(* For any requests, limits and cuts of the bytes: a request has one answer *)
(* at most, the handler sees it whole and well formed or not at all, one    *)
(* that is refused deserves it, and no more is buffered than the limits     *)
(* allow, on no more connections than there are slots (parse_request and    *)
(* Server::run).                                                            *)
THEOREM RequestsAreAnsweredOnce == Spec => []AnsweredOnce
<1>1. ASSUME HInv PROVE AnsweredOnce
  <2>1. TypeOK
        BY <1>1 DEF HInv, Slots, TypeOK
  <2>2. ASSUME NEW c \in Range(conns)
        PROVE  /\ Len(c.said) <= 1
               /\ c.said = <<>> => c.got <= MaxHeader + MaxBody
               /\ c.said # <<>> =>
                     IF c.said[1] \in {200, 500}
                     THEN WellFormed(c.req) /\ c.got >= c.req.head + BodyLength(c.req)
                     ELSE ~WellFormed(c.req)
    <3>1. Fair(c)
          BY <1>1 DEF HInv, Range
    <3>2. CASE c.said = <<>>
      <4>1. c.got <= MaxHeader + MaxBody
            BY <3>1, <3>2 DEF Fair
      <4> QED BY <3>2, <4>1
    <3>3. ASSUME NEW s, c.said = <<s>> PROVE Len(c.said) = 1 /\ c.said # <<>> /\ c.said[1] = s
          BY <3>3
    <3>4. ASSUME NEW s, c.said = <<s>>
          PROVE  /\ Len(c.said) <= 1
                 /\ c.said # <<>> /\ c.said[1] = s
          BY <3>3, <3>4
    <3>5. CASE \E s \in {200, 500} : c.said = <<s>>
      <4>1. WellFormed(c.req) /\ c.got >= c.req.head + BodyLength(c.req)
            BY <3>1, <3>4, <3>5 DEF Fair
      <4> QED BY <3>4, <3>5, <4>1
    <3>6. CASE \E s : s \notin {200, 500} /\ c.said = <<s>>
      <4>1. ~WellFormed(c.req)
            BY <3>1, <3>4, <3>6 DEF Fair
      <4> QED BY <3>4, <3>6, <4>1
    <3> QED BY <3>1, <3>2, <3>5, <3>6 DEF Fair
  <2> QED BY <2>1, <2>2 DEF AnsweredOnce
<1> QED BY <1>1, HInvInit, HInvNext, PTL DEF Spec

-----------------------------------------------------------------------------
(* Every set of natural numbers with an element has a least one.            *)
LEMMA LeastNatural ==
    ASSUME NEW T \in SUBSET Nat, T # {}
    PROVE  \E x \in T : \A y \in T : x <= y
<1> DEFINE R0 == {p \in Nat \X Nat : p[1] < p[2]}
<1>1. R0 = OpToRel(<, Nat)
      BY DEF OpToRel
<1>2. IsWellFoundedOn(R0, Nat)
      BY <1>1, NatLessThanWellFounded
<1> HIDE DEF R0
<1>3. PICK x \in T : \A y \in T : ~(<<y, x>> \in R0)
      BY <1>2, WFMin
<1>4. ASSUME NEW y \in T, y < x PROVE FALSE
  <2>1. <<y, x>> \in R0
        BY <1>4 DEF R0
  <2> QED BY <1>3, <2>1
<1> QED BY <1>4

(* What 0 has and each natural number passes on, all have.                  *)
LEMMA StepByStep ==
    ASSUME NEW T, 0 \in T, \A n \in Nat : n \in T => n + 1 \in T
    PROVE  Nat \subseteq T
<1> DEFINE left == Nat \ T
<1> SUFFICES ASSUME left # {} PROVE FALSE
    OBVIOUS
<1>1. PICK x \in left : \A y \in left : x <= y
  <2>1. left \in SUBSET Nat
        OBVIOUS
  <2> HIDE DEF left
  <2> QED BY <2>1, LeastNatural
<1>2. x \in Nat /\ x # 0
      OBVIOUS
<1>3. x - 1 \in Nat /\ ~(x <= x - 1) /\ (x - 1) + 1 = x
      BY <1>2
<1>4. x - 1 \notin left
      BY <1>1, <1>3
<1>5. x - 1 \in T
      BY <1>3, <1>4
<1> QED BY <1>3, <1>5

(* Functions defined step by step exist. *)
Iterates(g, x, f, n) == \A d \in 0..n : g[d] = IF d = 0 THEN x ELSE f[<<d, g[d - 1]>>]

LEMMA IterationExists ==
    ASSUME NEW S, NEW x \in S, NEW n \in Nat, NEW f \in [(1..n) \X S -> S]
    PROVE  \E g \in [0..n -> S] : Iterates(g, x, f, n)
<1> DEFINE T == {m \in Nat : m <= n => \E g \in [0..m -> S] : Iterates(g, x, f, m)}
<1>1. 0 \in T
  <2> DEFINE g == [d \in 0..0 |-> x]
  <2>1. g \in [0..0 -> S] /\ \A d \in 0..0 : g[d] = x /\ d = 0
        OBVIOUS
  <2> HIDE DEF g
  <2>2. Iterates(g, x, f, 0)
        BY <2>1 DEF Iterates
  <2> QED BY <2>1, <2>2
<1>2. ASSUME NEW m \in Nat, m \in T PROVE m + 1 \in T
  <2> SUFFICES ASSUME m + 1 <= n PROVE \E g \in [0..(m + 1) -> S] : Iterates(g, x, f, m + 1)
      OBVIOUS
  <2>1. PICK h \in [0..m -> S] : Iterates(h, x, f, m)
        BY <1>2
  <2> DEFINE g == [d \in 0..(m + 1) |-> IF d = m + 1 THEN f[<<m + 1, h[m]>>] ELSE h[d]]
  <2>2. f[<<m + 1, h[m]>>] \in S
    <3>1. h[m] \in S /\ m + 1 \in 1..n
          OBVIOUS
    <3> QED BY <3>1
  <2>3. g \in [0..(m + 1) -> S]
    <3>1. ASSUME NEW d \in 0..(m + 1), d # m + 1 PROVE h[d] \in S
      <4>1. d \in 0..m
            BY <3>1
      <4> QED BY <4>1
    <3> QED BY <2>2, <3>1
  <2>4. ASSUME NEW d \in 0..(m + 1) PROVE g[d] = IF d = 0 THEN x ELSE f[<<d, g[d - 1]>>]
    <3>1. CASE d = m + 1
      <4>1. m \in 0..(m + 1) /\ m # m + 1 /\ d - 1 = m /\ d # 0
            BY <3>1
      <4>2. g[m] = h[m] /\ g[d] = f[<<d, h[m]>>]
            BY <3>1, <4>1
      <4> HIDE DEF g
      <4> QED BY <4>1, <4>2
    <3>2. CASE d # m + 1
      <4>1. d \in 0..m /\ d - 1 # m + 1 /\ (d # 0 => d - 1 \in 0..(m + 1))
            BY <3>2
      <4>2. g[d] = h[d] /\ (d # 0 => g[d - 1] = h[d - 1])
            BY <3>2, <4>1
      <4> HIDE DEF g
      <4> QED BY <2>1, <4>1, <4>2 DEF Iterates
    <3> QED BY <3>1, <3>2
  <2> HIDE DEF g
  <2>5. Iterates(g, x, f, m + 1)
        BY <2>4 DEF Iterates
  <2> QED BY <2>3, <2>5
<1> HIDE DEF T
<1>3. Nat \subseteq T
      BY <1>1, <1>2, StepByStep
<1>4. n \in T
      BY <1>3
<1> QED BY <1>4 DEF T

(***************************************************************************)
(* Outbox.  Whatever a device holds, has on disk or has handed over, and   *)
(* whatever the timeline tells, the device made; what it counted, it can   *)
(* tell apart.                                                             *)
(***************************************************************************)

(* Merge goes through the batch item by item.                               *)
Held(known, I) == [seen : SUBSET (known \cup {Key(x) : x \in I}), admitted : Seq(I)]

Admitted(acc, item) ==
    IF Key(item) \in acc.seen THEN acc
    ELSE [seen |-> acc.seen \cup {Key(item)}, admitted |-> Append(acc.admitted, item)]

(* One item admitted, or not.                                               *)
LEMMA AdmittedFact ==
    ASSUME NEW I, NEW known, NEW acc \in Held(known, I), NEW item \in I
    PROVE  Admitted(acc, item) \in Held(known, I)
BY DEF Held, Admitted

(* The batch item by item, and what Merge makes of it.                      *)
MergedBy(c, batch, known, I) ==
    /\ c[0] = [seen |-> known, admitted |-> <<>>]
    /\ \A n \in 1..Len(batch) : c[n] = Admitted(c[n - 1], batch[n])
    /\ \A n \in 0..Len(batch) : c[n] \in Held(known, I)
    /\ Merge(batch, known) = c[Len(batch)]

(* There is such a sequence of steps.                                       *)
LEMMA MergeSolved ==
    ASSUME NEW I, NEW known, NEW batch \in Seq(I)
    PROVE  \E c : MergedBy(c, batch, known, I)
<1> DEFINE N == Len(batch)
           S == Held(known, I)
           x0 == [seen |-> known, admitted |-> <<>>]
           f == [x \in (1..N) \X S |-> Admitted(x[2], batch[x[1]])]
           Solves(c) == c = [n \in 0..N |->
                              IF n = 0 THEN x0
                              ELSE IF Key(batch[n]) \in c[n - 1].seen THEN c[n - 1]
                              ELSE [seen |-> c[n - 1].seen \cup {Key(batch[n])},
                                    admitted |-> Append(c[n - 1].admitted, batch[n])]]
           c == CHOOSE c : Solves(c)
<1>1. N \in Nat /\ x0 \in S /\ \A n \in 1..N : batch[n] \in I
      BY DEF Held
<1>2. f \in [(1..N) \X S -> S]
  <2> HIDE DEF N, S
  <2>1. \A x \in (1..N) \X S : x[1] \in 1..N /\ x[2] \in S
        OBVIOUS
  <2>2. \A x \in (1..N) \X S : Admitted(x[2], batch[x[1]]) \in S
        BY <1>1, <2>1, AdmittedFact DEF S
  <2> QED BY <2>2
<1>3. PICK g \in [0..N -> S] : Iterates(g, x0, f, N)
  <2> HIDE DEF S, f, N, x0
  <2> QED BY <1>1, <1>2, IterationExists
<1> HIDE DEF x0
<1>4. \A n \in 0..N : g[n] = IF n = 0 THEN x0 ELSE Admitted(g[n - 1], batch[n])
  <2> SUFFICES ASSUME NEW n \in 0..N, n # 0 PROVE g[n] = Admitted(g[n - 1], batch[n])
      BY <1>3 DEF Iterates
  <2>1. n \in 1..N /\ n - 1 \in 0..N
        BY <1>1
  <2>2. g[n - 1] \in S
        BY <2>1
  <2>3. f[<<n, g[n - 1]>>] = Admitted(g[n - 1], batch[n])
        BY <2>1, <2>2
  <2> QED BY <1>3, <2>3 DEF Iterates
<1>5. Solves(g)
  <2> HIDE DEF S, f
  <2> QED BY <1>4 DEF Admitted
<1>6. Solves(c)
  <2> HIDE DEF Solves
  <2> QED BY <1>5
<1>7. Merge(batch, known) = c[N]
      BY DEF Merge, x0
<1> HIDE DEF c
<1>8. c[0] = x0 /\ \A n \in 1..N : c[n] = Admitted(c[n - 1], batch[n])
  <2>1. c[0] = x0
        BY <1>1, <1>6
  <2>2. ASSUME NEW n \in 1..N PROVE c[n] = Admitted(c[n - 1], batch[n])
    <3>1. n \in 0..N /\ n # 0
          BY <1>1
    <3> QED BY <1>6, <3>1 DEF Admitted
  <2> QED BY <2>1, <2>2
<1> HIDE DEF Solves
<1>9. ASSUME NEW n \in 1..N, c[n - 1] \in S PROVE c[n] \in S
      BY <1>1, <1>8, <1>9, AdmittedFact
<1>10. \A n \in 0..N : c[n] \in S
  <2> DEFINE T == {m \in Nat : m <= N => c[m] \in S}
  <2> HIDE DEF S, N
  <2>1. 0 \in T
        BY <1>1, <1>8
  <2>2. ASSUME NEW m \in Nat, m \in T PROVE m + 1 \in T
    <3> SUFFICES ASSUME m + 1 <= N PROVE c[m + 1] \in S
        OBVIOUS
    <3>1. c[m] \in S /\ m + 1 \in 1..N /\ (m + 1) - 1 = m
          BY <1>1, <2>2
    <3> QED BY <1>9, <3>1
  <2>3. Nat \subseteq T
    <3> HIDE DEF T
    <3> QED BY <2>1, <2>2, StepByStep
  <2> QED BY <1>1, <2>3
<1> QED BY <1>7, <1>8, <1>10 DEF x0, MergedBy

(* What devices stamp and the server holds.                                 *)
StampedItems == [stamp : Nat \X Devices, payload : Nat]

Bounded(s, n) == \A i \in DOMAIN s : s[i].stamp[1] <= n

(* The stamps of finitely many items are bounded.                           *)
LEMMA StampsAreBounded ==
    ASSUME NEW s \in Seq(StampedItems)
    PROVE  \E n \in Nat : Bounded(s, n)
<1> DEFINE N == Len(s)
           T == {m \in Nat : m <= N => \E n \in Nat : \A i \in 1..m : s[i].stamp[1] <= n}
<1>1. N \in Nat /\ \A i \in 1..N : s[i].stamp[1] \in Nat
  <2>1. \A i \in 1..N : s[i] \in StampedItems
        OBVIOUS
  <2> QED BY <2>1 DEF StampedItems
<1>2. 0 \in T
      OBVIOUS
<1>3. ASSUME NEW m \in Nat, m \in T PROVE m + 1 \in T
  <2> SUFFICES ASSUME m + 1 <= N PROVE \E n \in Nat : \A i \in 1..(m + 1) : s[i].stamp[1] <= n
      OBVIOUS
  <2>1. PICK n \in Nat : \A i \in 1..m : s[i].stamp[1] <= n
        BY <1>1, <1>3
  <2>2. PICK x \in Nat : x = s[m + 1].stamp[1]
    <3>1. m + 1 \in 1..N
          BY <1>1
    <3> QED BY <1>1, <3>1
  <2>3. ASSUME NEW i \in 1..(m + 1) PROVE s[i].stamp[1] <= n + x
    <3>1. CASE i = m + 1
          BY <2>2, <3>1
    <3>2. CASE i # m + 1
      <4>1. i \in 1..m /\ i \in 1..N
            BY <1>1, <3>2
      <4>2. s[i].stamp[1] <= n /\ s[i].stamp[1] \in Nat
            BY <1>1, <2>1, <4>1
      <4> QED BY <4>2
    <3> QED BY <3>1, <3>2
  <2>4. n + x \in Nat
        OBVIOUS
  <2> QED BY <2>3, <2>4
<1>4. Nat \subseteq T
  <2> HIDE DEF T, N
  <2> QED BY <1>2, <1>3, StepByStep
<1>5. PICK n \in Nat : \A i \in 1..N : s[i].stamp[1] <= n
  <2> HIDE DEF N
  <2>1. N \in T
    <3> HIDE DEF T
    <3> QED BY <1>1, <1>4
  <2>2. N <= N
        BY <1>1
  <2> QED BY <2>1, <2>2
<1>6. DOMAIN s = 1..N
      OBVIOUS
<1> QED BY <1>5, <1>6 DEF Bounded

(* HighCounter is the highest counter, 0 when there is none.                *)
LEMMA HighIsHighest ==
    ASSUME NEW s \in Seq(StampedItems)
    PROVE  /\ HighCounter(s) \in Nat /\ Bounded(s, HighCounter(s))
           /\ \A n \in Nat : Bounded(s, n) => HighCounter(s) <= n
<1> DEFINE C == {0} \cup {s[i].stamp[1] : i \in DOMAIN s}
           T == {n \in Nat : \A x \in C : x <= n}
<1>1. \A x \in C : x \in Nat
  <2>1. \A i \in DOMAIN s : s[i] \in StampedItems
        OBVIOUS
  <2> QED BY <2>1 DEF StampedItems
<1>2. ASSUME NEW n \in Nat PROVE n \in T <=> Bounded(s, n)
  <2>1. n \in T <=> \A x \in C : x <= n
        OBVIOUS
  <2>2. 0 <= n
        OBVIOUS
  <2>3. (\A x \in C : x <= n) <=> \A i \in DOMAIN s : s[i].stamp[1] <= n
        BY <2>2
  <2> HIDE DEF T, C
  <2> QED BY <2>1, <2>3 DEF Bounded
<1>3. PICK n \in T : \A m \in T : n <= m
  <2>1. T # {} /\ T \in SUBSET Nat
        BY <1>2, StampsAreBounded
  <2> HIDE DEF T
  <2> QED BY <2>1, LeastNatural
<1>4. n \in C
  <2> SUFFICES ASSUME n \notin C PROVE FALSE
      OBVIOUS
  <2>1. \A x \in C : x <= n - 1 /\ 0 <= n - 1
    <3>1. \A x \in C : x \in Nat /\ x <= n /\ x # n
          BY <1>1
    <3>2. 0 \in C /\ n \in Nat
          OBVIOUS
    <3> HIDE DEF C
    <3> QED BY <3>1, <3>2
  <2>2. n \in Nat /\ n - 1 \in Nat
        BY <2>1
  <2>3. n - 1 \in T
        BY <2>1, <2>2
  <2> HIDE DEF T
  <2> QED BY <1>3, <2>2, <2>3
<1>5. n \in Nat /\ \A x \in C : n >= x
      BY <1>1, <1>3
<1>6. PICK m : m = Max(C)
      OBVIOUS
<1>7. m \in C /\ \A x \in C : m >= x
  <2> HIDE DEF C
  <2> QED BY <1>4, <1>5, <1>6 DEF Max
<1>8. m = n
  <2> HIDE DEF C
  <2> QED BY <1>1, <1>4, <1>5, <1>7
<1>9. HighCounter(s) = n
      BY <1>6, <1>8 DEF HighCounter
<1> QED BY <1>2, <1>3, <1>5, <1>9

(* The later of two counters.                                               *)
LEMMA LaterCounter ==
    ASSUME NEW a \in Nat, NEW b \in Nat
    PROVE  Max({a, b}) = IF a <= b THEN b ELSE a
<1>1. PICK m : m = IF a <= b THEN b ELSE a
      OBVIOUS
<1>2. m \in {a, b} /\ \A y \in {a, b} : m >= y
      BY <1>1
<1>3. PICK x : x = Max({a, b})
      OBVIOUS
<1>4. x \in {a, b} /\ \A y \in {a, b} : x >= y
      BY <1>2, <1>3 DEF Max
<1>5. x = m
      BY <1>2, <1>4
<1> QED BY <1>1, <1>3, <1>5

-----------------------------------------------------------------------------
(* The order of stamps is total.                                            *)
LEMMA StampsAreOrdered ==
    ASSUME NEW a \in StampedItems, NEW b \in StampedItems
    PROVE  /\ ~BeforeStamp(a, a)
           /\ BeforeStamp(a, b) => ~BeforeStamp(b, a) /\ a.stamp # b.stamp
           /\ a.stamp # b.stamp => BeforeStamp(a, b) \/ BeforeStamp(b, a)
           /\ \A c \in StampedItems : BeforeStamp(a, b) /\ BeforeStamp(b, c) => BeforeStamp(a, c)
<1>1. ASSUME NEW x \in StampedItems
      PROVE  x.stamp[1] \in Nat /\ x.stamp[2] \in Nat /\ x.stamp = <<x.stamp[1], x.stamp[2]>>
  <2>1. PICK n \in Nat, d \in Devices : x.stamp = <<n, d>>
        BY DEF StampedItems
  <2>2. d \in Nat
        BY BoxAssumption DEF BoxAssumption
  <2> QED BY <2>1, <2>2
<1>2. PICK a1 \in Nat, a2 \in Nat, b1 \in Nat, b2 \in Nat :
         a1 = a.stamp[1] /\ a2 = a.stamp[2] /\ b1 = b.stamp[1] /\ b2 = b.stamp[2]
      BY <1>1
<1>3. a.stamp # b.stamp <=> a1 # b1 \/ a2 # b2
      BY <1>1, <1>2
<1>4. BeforeStamp(a, b) <=> a1 < b1 \/ (a1 = b1 /\ a2 < b2)
      BY <1>2 DEF BeforeStamp
<1>5. BeforeStamp(b, a) <=> b1 < a1 \/ (a1 = b1 /\ b2 < a2)
      BY <1>2 DEF BeforeStamp
<1>6. ~BeforeStamp(a, a)
      BY <1>1 DEF BeforeStamp
<1>7. ASSUME NEW c \in StampedItems, BeforeStamp(a, b), BeforeStamp(b, c) PROVE BeforeStamp(a, c)
  <2>1. PICK c1 \in Nat, c2 \in Nat : c1 = c.stamp[1] /\ c2 = c.stamp[2]
        BY <1>1
  <2>2. b1 < c1 \/ (b1 = c1 /\ b2 < c2)
        BY <1>2, <1>7, <2>1 DEF BeforeStamp
  <2>3. a1 < c1 \/ (a1 = c1 /\ a2 < c2)
        BY <1>4, <1>7, <2>2
  <2> QED BY <1>2, <2>1, <2>3 DEF BeforeStamp
<1> QED BY <1>3, <1>4, <1>5, <1>6, <1>7

Distinct(s) == \A i, j \in DOMAIN s : i # j => s[i].stamp # s[j].stamp
InOrder(s)  == \A i, j \in DOMAIN s : i < j => BeforeStamp(s[i], s[j])

(* Items with stamps of their own are sorted into the order of the stamps.  *)
LEMMA SortSorts ==
    ASSUME NEW s \in Seq(StampedItems), Distinct(s)
    PROVE  /\ StableSort(s) \in Seq(StampedItems) /\ InOrder(StableSort(s))
           /\ \A k \in DOMAIN StableSort(s) : \E j \in DOMAIN s : StableSort(s)[k] = s[j]
<1> DEFINE N == Len(s)
           Before(i, j) == BeforeStamp(s[i], s[j])
           Ahead(i, j) == BeforeStamp(s[i], s[j]) \/ (~BeforeStamp(s[j], s[i]) /\ i < j)
           Fore(j) == {i \in DOMAIN s : Ahead(i, j)}
           Place(j) == Cardinality(Fore(j)) + 1
           at(k) == CHOOSE j \in DOMAIN s : Place(j) = k
           sorted == [k \in DOMAIN s |-> s[at(k)]]
<1>1. N \in Nat /\ DOMAIN s = 1..N /\ \A i \in 1..N : s[i] \in StampedItems
      OBVIOUS
<1>2. sorted = StableSort(s)
      BY DEF StableSort
<1> HIDE DEF N
<1>3. ASSUME NEW i \in 1..N, NEW j \in 1..N
      PROVE  /\ Ahead(i, j) <=> Before(i, j)
             /\ ~Before(i, i)
             /\ i # j => Before(i, j) \/ Before(j, i)
             /\ \A m \in 1..N : Before(m, i) /\ Before(i, j) => Before(m, j)
  <2>1. i # j => s[i].stamp # s[j].stamp
        BY <1>1 DEF Distinct
  <2>2. s[i] \in StampedItems /\ s[j] \in StampedItems
        BY <1>1
  <2>3. /\ ~Before(i, i) /\ (Before(i, j) => ~Before(j, i))
        /\ i # j => Before(i, j) \/ Before(j, i)
        BY <2>1, <2>2, StampsAreOrdered
  <2>4. ASSUME NEW m \in 1..N PROVE Before(m, i) /\ Before(i, j) => Before(m, j)
        BY <1>1, <2>2, StampsAreOrdered
  <2>5. Ahead(i, j) <=> Before(i, j)
    <3>1. i = j => ~(i < j)
          BY <1>1
    <3>2. CASE i = j
      <4>1. ~Ahead(i, j)
            BY <2>3, <3>1, <3>2
      <4> QED BY <2>3, <3>2, <4>1
    <3>3. CASE i # j
      <4> QED BY <2>3, <3>3
    <3> QED BY <3>2, <3>3
  <2> QED BY <2>3, <2>4, <2>5
<1>4. ASSUME NEW j \in 1..N PROVE Fore(j) = {i \in 1..N : Before(i, j)}
      BY <1>1, <1>3
<1> HIDE DEF Ahead, Fore
<1>5. ASSUME NEW j \in 1..N
      PROVE  IsFiniteSet(Fore(j)) /\ Cardinality(Fore(j)) \in Nat /\ Place(j) \in 1..N
  <2>1. IsFiniteSet(1..N) /\ Cardinality(1..N) = N
        BY <1>1, FS_Interval
  <2>2. IsFiniteSet((1..N) \ {j}) /\ Cardinality((1..N) \ {j}) = N - 1
        BY <2>1, FS_RemoveElement
  <2>3. Fore(j) \in SUBSET ((1..N) \ {j})
        BY <1>3, <1>4
  <2>4. IsFiniteSet(Fore(j)) /\ Cardinality(Fore(j)) <= N - 1
        BY <2>2, <2>3, FS_Subset
  <2>5. Cardinality(Fore(j)) \in Nat
        BY <2>4, FS_CardinalityType
  <2> QED BY <1>1, <2>4, <2>5
<1>6. ASSUME NEW i \in 1..N, NEW j \in 1..N, Before(i, j) PROVE Place(i) < Place(j)
  <2>1. Fore(i) \in SUBSET Fore(j)
        BY <1>3, <1>4, <1>6
  <2>2. i \in Fore(j) /\ i \notin Fore(i)
        BY <1>3, <1>4, <1>6
  <2>3. Cardinality(Fore(i)) <= Cardinality(Fore(j)) /\ Cardinality(Fore(i)) # Cardinality(Fore(j))
        BY <1>5, <2>1, <2>2, FS_Subset
  <2> QED BY <1>5, <2>3
<1> HIDE DEF Place
<1>7. \A k \in 1..N : \E j \in 1..N : Place(j) = k
  <2> SUFFICES ASSUME NEW k \in 1..N, \A j \in 1..N : Place(j) # k PROVE FALSE
      OBVIOUS
  <2> DEFINE f == [j \in 1..N |-> Place(j)]
  <2>1. f \in [1..N -> (1..N) \ {k}]
        BY <1>5
  <2>2. IsFiniteSet(1..N) /\ Cardinality(1..N) = N
        BY <1>1, FS_Interval
  <2>3. IsFiniteSet((1..N) \ {k}) /\ Cardinality((1..N) \ {k}) < Cardinality(1..N)
    <3>1. IsFiniteSet((1..N) \ {k}) /\ Cardinality((1..N) \ {k}) = N - 1
          BY <2>2, FS_RemoveElement
    <3>2. N - 1 < N
          BY <1>1
    <3> QED BY <2>2, <3>1, <3>2
  <2>4. PICK i \in 1..N, j \in 1..N : i # j /\ f[i] = f[j]
    <3> HIDE DEF f
    <3> QED BY <2>1, <2>2, <2>3, FS_PigeonHole
  <2>5. Place(i) = Place(j) /\ Place(i) \in Int
        BY <1>5, <2>4
  <2>6. Before(i, j) \/ Before(j, i)
        BY <1>3, <2>4
  <2>7. Place(i) < Place(j) \/ Place(j) < Place(i)
        BY <1>6, <2>6
  <2> QED BY <2>5, <2>7
<1>8. ASSUME NEW k \in 1..N PROVE at(k) \in 1..N /\ Place(at(k)) = k
      BY <1>1, <1>7
<1> HIDE DEF at
<1>9. sorted \in [1..N -> StampedItems]
      BY <1>1, <1>8
<1>10. ASSUME NEW k \in 1..N PROVE \E j \in DOMAIN s : sorted[k] = s[j]
      BY <1>1, <1>8
<1>11. ASSUME NEW k \in 1..N, NEW m \in 1..N, k < m PROVE BeforeStamp(sorted[k], sorted[m])
  <2>1. PICK i \in 1..N, j \in 1..N : i = at(k) /\ j = at(m) /\ Place(i) = k /\ Place(j) = m
        BY <1>8
  <2>2. i # j /\ ~(Place(j) < Place(i))
        BY <1>11, <2>1
  <2>3. Before(i, j)
        BY <1>3, <1>6, <2>2
  <2>4. sorted[k] = s[i] /\ sorted[m] = s[j]
        BY <1>1, <2>1
  <2> QED BY <2>3, <2>4
<1> HIDE DEF sorted
<1>12. DOMAIN sorted = 1..N /\ sorted \in Seq(StampedItems)
      BY <1>1, <1>9
<1> QED BY <1>2, <1>10, <1>11, <1>12 DEF InOrder

-----------------------------------------------------------------------------
(* What is admitted is of the batch, new to the server, and once.           *)
Taken(acc, known, batch) ==
    /\ known \subseteq acc.seen
    /\ \A i \in DOMAIN acc.admitted :
          /\ Key(acc.admitted[i]) \in acc.seen \ known
          /\ \E j \in DOMAIN batch : acc.admitted[i] = batch[j]
    /\ \A i, j \in DOMAIN acc.admitted : i # j => Key(acc.admitted[i]) # Key(acc.admitted[j])

(* The next item of the batch, taken or not.                                *)
LEMMA TakenFact ==
    ASSUME NEW I, NEW known, NEW batch \in Seq(I), NEW acc \in Held(known, I),
           Taken(acc, known, batch), NEW k \in DOMAIN batch
    PROVE  Taken(Admitted(acc, batch[k]), known, batch)
<1>1. PICK item : item = batch[k]
      OBVIOUS
<1>2. item \in I
      BY <1>1
<1>3. CASE Key(item) \in acc.seen
      BY <1>1, <1>3 DEF Admitted
<1>4. CASE Key(item) \notin acc.seen
  <2>1. PICK a \in Seq(I) : a = acc.admitted
        BY DEF Held
  <2>2. PICK b : b = Append(a, item)
        OBVIOUS
  <2>3. PICK next : next = Admitted(acc, item)
        OBVIOUS
  <2>4. next.seen = acc.seen \cup {Key(item)} /\ next.admitted = b
        BY <1>4, <2>1, <2>2, <2>3 DEF Admitted
  <2>5. /\ Len(a) \in Nat /\ DOMAIN a = 1..Len(a) /\ DOMAIN b = 1..(Len(a) + 1)
        /\ \A i \in 1..Len(a) : b[i] = a[i]
        /\ b[Len(a) + 1] = item
        BY <1>2, <2>1, <2>2
  <2>6. /\ known \subseteq acc.seen
        /\ \A i \in 1..Len(a) : Key(a[i]) \in acc.seen \ known /\ \E j \in DOMAIN batch : a[i] = batch[j]
        /\ \A i, j \in 1..Len(a) : i # j => Key(a[i]) # Key(a[j])
        BY <2>1, <2>5 DEF Taken
  <2>7. \A i \in DOMAIN b : i \in 1..Len(a) \/ i = Len(a) + 1
        BY <2>5
  <2>8. ASSUME NEW i \in DOMAIN b
        PROVE  Key(b[i]) \in next.seen \ known /\ \E j \in DOMAIN batch : b[i] = batch[j]
    <3>1. CASE i \in 1..Len(a)
          BY <2>4, <2>5, <2>6, <3>1
    <3>2. CASE i = Len(a) + 1
          BY <1>1, <1>4, <2>4, <2>5, <2>6, <3>2
    <3> QED BY <2>7, <3>1, <3>2
  <2>9. ASSUME NEW i \in DOMAIN b, NEW j \in DOMAIN b, i # j PROVE Key(b[i]) # Key(b[j])
    <3>1. CASE i \in 1..Len(a) /\ j \in 1..Len(a)
          BY <2>5, <2>6, <2>9, <3>1
    <3>2. CASE i \in 1..Len(a) /\ j = Len(a) + 1
          BY <1>4, <2>5, <2>6, <3>2
    <3>3. CASE j \in 1..Len(a) /\ i = Len(a) + 1
          BY <1>4, <2>5, <2>6, <3>3
    <3> QED BY <2>7, <2>9, <3>1, <3>2, <3>3
  <2>10. Taken(next, known, batch)
         BY <2>4, <2>6, <2>8, <2>9 DEF Taken
  <2> QED BY <1>1, <2>3, <2>10
<1> QED BY <1>3, <1>4

(* So it is of the whole batch.                                             *)
LEMMA MergeTakes ==
    ASSUME NEW I, NEW known, NEW batch \in Seq(I)
    PROVE  /\ Merge(batch, known).admitted \in Seq(I)
           /\ Taken(Merge(batch, known), known, batch)
<1>1. PICK c : MergedBy(c, batch, known, I)
      BY MergeSolved
<1>2. PICK N \in Nat : N = Len(batch) /\ DOMAIN batch = 1..N
      OBVIOUS
<1>3. /\ c[0] = [seen |-> known, admitted |-> <<>>]
      /\ \A n \in 1..N : c[n] = Admitted(c[n - 1], batch[n])
      /\ \A n \in 0..N : c[n] \in Held(known, I)
      /\ Merge(batch, known) = c[N]
      BY <1>1, <1>2 DEF MergedBy
<1> DEFINE T == {n \in Nat : n <= N => Taken(c[n], known, batch)}
<1>4. 0 \in T
      BY <1>3 DEF Taken
<1>5. ASSUME NEW n \in Nat, n \in T PROVE n + 1 \in T
  <2> SUFFICES ASSUME n + 1 <= N PROVE Taken(c[n + 1], known, batch)
      OBVIOUS
  <2>1. n \in 0..N /\ n + 1 \in 1..N /\ (n + 1) - 1 = n /\ Taken(c[n], known, batch)
        BY <1>5
  <2>2. c[n + 1] = Admitted(c[n], batch[n + 1]) /\ c[n] \in Held(known, I)
        BY <1>3, <2>1
  <2>3. n + 1 \in DOMAIN batch
        BY <1>2, <2>1
  <2> HIDE DEF T
  <2> QED BY <2>1, <2>2, <2>3, TakenFact
<1>6. N \in T
  <2> HIDE DEF T
  <2> QED BY <1>4, <1>5, StepByStep
<1>7. Taken(c[N], known, batch)
  <2>1. N <= N
        OBVIOUS
  <2> QED BY <1>6, <2>1
<1>8. c[N].admitted \in Seq(I)
  <2>1. c[N] \in Held(known, I)
        BY <1>2, <1>3
  <2> QED BY <2>1 DEF Held
<1> QED BY <1>3, <1>7, <1>8

(* The server's clock passes what it observes.                              *)
LEMMA ObservedFact ==
    ASSUME NEW c \in Nat, NEW e \in StampedItems
    PROVE  Observed(c, e) \in Nat /\ Observed(c, e) > c /\ Observed(c, e) > e.stamp[1]
<1>1. PICK x \in Nat : x = e.stamp[1]
      BY DEF StampedItems
<1> QED BY <1>1 DEF Observed

(* And what it observes of a batch, item by item.                           *)
LEMMA AllObservedFact ==
    ASSUME NEW c \in Nat, NEW s \in Seq(StampedItems)
    PROVE  /\ AllObserved(c, s) \in Nat /\ AllObserved(c, s) >= c
           /\ \A i \in DOMAIN s : AllObserved(c, s) > s[i].stamp[1]
<1> DEFINE N == Len(s)
           f == [x \in (1..N) \X Nat |-> Observed(x[2], s[x[1]])]
           Solves(a) == a = [n \in 0..N |-> IF n = 0 THEN c ELSE Observed(a[n - 1], s[n])]
           a == CHOOSE a : Solves(a)
<1>1. N \in Nat /\ DOMAIN s = 1..N /\ \A n \in 1..N : s[n] \in StampedItems
      OBVIOUS
<1>2. AllObserved(c, s) = a[N]
      BY DEF AllObserved
<1> HIDE DEF N
<1>3. f \in [(1..N) \X Nat -> Nat]
  <2>1. \A x \in (1..N) \X Nat : x[1] \in 1..N /\ x[2] \in Nat
        OBVIOUS
  <2>2. \A x \in (1..N) \X Nat : Observed(x[2], s[x[1]]) \in Nat
        BY <1>1, <2>1, ObservedFact
  <2> QED BY <2>2
<1>4. PICK g \in [0..N -> Nat] : Iterates(g, c, f, N)
  <2> HIDE DEF f
  <2> QED BY <1>1, <1>3, IterationExists
<1>5. \A n \in 0..N : g[n] = IF n = 0 THEN c ELSE Observed(g[n - 1], s[n])
  <2> SUFFICES ASSUME NEW n \in 0..N, n # 0 PROVE g[n] = Observed(g[n - 1], s[n])
      BY <1>4 DEF Iterates
  <2>1. n \in 1..N /\ n - 1 \in 0..N
        BY <1>1
  <2>2. g[n - 1] \in Nat
        BY <2>1
  <2>3. f[<<n, g[n - 1]>>] = Observed(g[n - 1], s[n])
        BY <2>1, <2>2
  <2> QED BY <1>4, <2>3 DEF Iterates
<1>6. Solves(g)
  <2> HIDE DEF f
  <2> QED BY <1>5
<1>7. Solves(a)
  <2> HIDE DEF Solves
  <2> QED BY <1>6
<1> HIDE DEF a
<1>8. a[0] = c /\ \A n \in 1..N : a[n] = Observed(a[n - 1], s[n])
  <2>1. a[0] = c
        BY <1>1, <1>7
  <2>2. ASSUME NEW n \in 1..N PROVE a[n] = Observed(a[n - 1], s[n])
    <3>1. n \in 0..N /\ n # 0
          BY <1>1
    <3> QED BY <1>7, <3>1
  <2> QED BY <2>1, <2>2
<1> HIDE DEF Solves
<1> DEFINE P(n) == /\ a[n] \in Nat /\ a[n] >= c
                   /\ \A i \in 1..n : a[n] > s[i].stamp[1]
           T == {n \in Nat : n <= N => P(n)}
<1>9. 0 \in T
      BY <1>8
<1>10. ASSUME NEW n \in Nat, n \in T PROVE n + 1 \in T
  <2> SUFFICES ASSUME n + 1 <= N PROVE P(n + 1)
      OBVIOUS
  <2>1. P(n) /\ n + 1 \in 1..N /\ (n + 1) - 1 = n
        BY <1>1, <1>10
  <2>2. a[n + 1] = Observed(a[n], s[n + 1]) /\ s[n + 1] \in StampedItems
        BY <1>1, <1>8, <2>1
  <2>3. PICK x, y : x = a[n] /\ x \in Nat /\ y = a[n + 1]
        BY <2>1
  <2>4. y \in Nat /\ y > x /\ y > s[n + 1].stamp[1]
        BY <2>2, <2>3, ObservedFact
  <2>5. ASSUME NEW i \in 1..(n + 1) PROVE y > s[i].stamp[1]
    <3>1. CASE i = n + 1
          BY <2>4, <3>1
    <3>2. CASE i # n + 1
      <4>1. i \in 1..n /\ i \in 1..N
            BY <1>1, <3>2
      <4>2. x > s[i].stamp[1]
            BY <2>1, <2>3, <4>1
      <4>3. s[i].stamp[1] \in Nat
            BY <1>1, <4>1 DEF StampedItems
      <4> QED BY <2>3, <2>4, <4>2, <4>3
    <3> QED BY <3>1, <3>2
  <2>6. y >= c
        BY <2>1, <2>3, <2>4
  <2> QED BY <2>3, <2>4, <2>5, <2>6
<1>11. N \in T
  <2> HIDE DEF T
  <2> QED BY <1>1, <1>9, <1>10, StepByStep
<1>12. P(N)
  <2>1. N <= N
        BY <1>1
  <2> HIDE DEF P
  <2> QED BY <1>11, <2>1
<1> QED BY <1>1, <1>2, <1>12

-----------------------------------------------------------------------------
(* The invariant of the outboxes.                                           *)
Outboxes == [counter : Nat, device : Devices, items : Seq(StampedItems)]
Files    == [magic : BOOLEAN, device : Nat, count : Nat, items : Seq(StampedItems)]

BoxTypes ==
    /\ queue \in [Devices -> Outboxes] /\ file \in [Devices -> Files]
    /\ made \in [Devices -> Seq(StampedItems)] /\ sent \subseteq Seq(StampedItems)
    /\ timeline \in Seq(StampedItems) /\ clock \in Nat
    /\ sure \subseteq Devices /\ forgot \subseteq Devices

(* Whatever is held, on the way or told is what its device made.            *)
MadeBy(e, history)  == \E m \in DOMAIN history[e.stamp[2]] : history[e.stamp[2]][m] = e
AllMade(s, history) == \A i \in DOMAIN s : MadeBy(s[i], history)

Truthful ==
    /\ \A d \in Devices :
          /\ queue[d].device = d /\ AllMade(queue[d].items, made)
          /\ Readable(file[d]) => file[d].device = d /\ AllMade(file[d].items, made)
    /\ \A batch \in sent : AllMade(batch, made)
    /\ AllMade(timeline, made)

(* A device that never came back behind its count has counted all it made.  *)
Counting ==
    \A d \in Devices \ forgot :
        InOrder(made[d]) /\ HighCounter(made[d]) <= queue[d].counter

(* What makes a device sure.                                                *)
OnDisk ==
    \A d \in sure : Readable(file[d]) /\ HighCounter(made[d]) <= HighCounter(file[d].items)

TimelineInOrder ==
    InOrder(timeline) /\ \A i \in DOMAIN timeline : clock > timeline[i].stamp[1]

BoxInv == BoxTypes /\ Truthful /\ Counting /\ OnDisk /\ TimelineInOrder

(* An empty file counts nothing.                                            *)
LEMMA NoStamps == HighCounter(<<>>) = 0
<1>1. <<>> \in Seq(StampedItems) /\ Bounded(<<>>, 0) /\ 0 \in Nat
      BY DEF Bounded
<1>2. HighCounter(<<>>) \in Nat /\ HighCounter(<<>>) <= 0
      BY <1>1, HighIsHighest
<1> QED BY <1>2

(* It holds of new outboxes without files.                                  *)
LEMMA BoxInvInit == BoxInit => BoxInv
<1> SUFFICES ASSUME BoxInit PROVE BoxInv
    OBVIOUS
<1>1. \A d \in Devices : EmptyQueue(d) \in Outboxes
      BY DEF EmptyQueue, Outboxes
<1>2. NoFile \in Files /\ ~Readable(NoFile)
      BY DEF NoFile, Files, Readable
<1>3. <<>> \in Seq(StampedItems)
      OBVIOUS
<1>4. BoxTypes
      BY <1>1, <1>2, <1>3 DEF BoxInit, BoxTypes
<1>5. Truthful
      BY <1>2 DEF BoxInit, Truthful, AllMade, EmptyQueue
<1>6. Counting
  <2>1. InOrder(<<>>)
        BY DEF InOrder
  <2> QED BY <2>1, NoStamps DEF BoxInit, Counting, EmptyQueue
<1>7. OnDisk
      BY DEF BoxInit, OnDisk
<1>8. TimelineInOrder
      BY DEF BoxInit, TimelineInOrder, InOrder
<1> QED BY <1>4, <1>5, <1>6, <1>7, <1>8 DEF BoxInv

(* The flags of a file that is written whole, and of one cut short.         *)
LEMMA WrittenWhole ==
    ASSUME NEW q \in Outboxes
    PROVE  Image(q) \in Files /\ Readable(Image(q)) /\ Image(q).device = q.device /\ Image(q).items = q.items
<1>1. PICK s \in Seq(StampedItems), d \in Devices : s = q.items /\ d = q.device
      BY DEF Outboxes
<1>2. Len(s) \in Nat /\ d \in Nat
      BY BoxAssumption DEF BoxAssumption
<1> QED BY <1>1, <1>2 DEF Image, Files, Readable

(* A file cut short shows that it is.                                       *)
LEMMA WrittenInPart ==
    ASSUME NEW q \in Outboxes, NEW f \in CutShort(Image(q))
    PROVE  f \in Files /\ ~Readable(f)
<1>1. PICK s \in Seq(StampedItems), d \in Nat : s = q.items /\ d = q.device
      BY BoxAssumption DEF Outboxes, BoxAssumption
<1>2. CASE f = NoFile
      BY <1>2 DEF NoFile, Files, Readable
<1>3. CASE f # NoFile
  <2>1. PICK n \in 0..(Len(s) - 1) : f = [Image(q) EXCEPT !.items = SubSeq(s, 1, n)]
        BY <1>1, <1>3 DEF CutShort, Image
  <2>2. f = [magic |-> TRUE, device |-> d, count |-> Len(s), items |-> SubSeq(s, 1, n)]
        BY <1>1, <2>1 DEF Image
  <2>3. /\ Len(s) \in Nat /\ n \in Nat /\ n < Len(s)
        /\ SubSeq(s, 1, n) \in Seq(StampedItems) /\ Len(SubSeq(s, 1, n)) = n
    <3>1. Len(s) \in Nat /\ n \in Nat /\ n < Len(s) /\ n <= Len(s)
          OBVIOUS
    <3>2. \A i \in 1..n : s[i] \in StampedItems
          BY <3>1
    <3> QED BY <3>1, <3>2
  <2>4. f \in Files
        BY <2>2, <2>3 DEF Files
  <2>5. Len(f.items) # f.count
        BY <2>2, <2>3
  <2> QED BY <2>4, <2>5 DEF Readable
<1> QED BY <1>2, <1>3

(* What a new queue has loaded.                                             *)
LEMMA LoadedFact ==
    ASSUME NEW d \in Devices, NEW f \in Files, Readable(f) => f.device = d
    PROVE  /\ Loaded(EmptyQueue(d), f) \in Outboxes /\ Loaded(EmptyQueue(d), f).device = d
           /\ ~Readable(f) => Loaded(EmptyQueue(d), f) = EmptyQueue(d)
           /\ Readable(f) => /\ Loaded(EmptyQueue(d), f).items = f.items
                             /\ Loaded(EmptyQueue(d), f).counter = HighCounter(f.items)
<1>1. CASE ~Readable(f)
      BY <1>1 DEF Loaded, EmptyQueue, Outboxes
<1>2. CASE Readable(f)
  <2>1. PICK s \in Seq(StampedItems), n \in Nat : s = f.items /\ n = HighCounter(s)
        BY HighIsHighest DEF Files
  <2>2. Max({0, n}) = n
    <3>1. 0 <= n
          OBVIOUS
    <3> QED BY <3>1, LaterCounter
  <2>3. Loaded(EmptyQueue(d), f) = [counter |-> n, device |-> d, items |-> s]
        BY <1>2, <2>1, <2>2 DEF Loaded, EmptyQueue
  <2> QED BY <1>2, <2>1, <2>3 DEF Outboxes
<1> QED BY <1>1, <1>2

(* An event happens: it is stamped past all that its device counted.        *)
LEMMA BoxKeptByHappen == ASSUME BoxInv, NEW d \in Devices, Happen(d) PROVE BoxInv'
<1>1. BoxTypes /\ Truthful /\ Counting /\ OnDisk /\ TimelineInOrder
      BY DEF BoxInv
<1>2. PICK q \in Outboxes, s \in Seq(StampedItems) : q = queue[d] /\ s = made[d]
      BY <1>1 DEF BoxTypes
<1>3. PICK n \in Nat, x \in Seq(StampedItems) : n = q.counter /\ x = q.items /\ q.device = d
      BY <1>1, <1>2 DEF Outboxes, Truthful
<1>4. PICK e \in StampedItems : e = Stamped(q, Len(made[d]) + 1) /\ e.stamp = <<n + 1, d>>
  <2>1. PICK p \in Nat : p = Len(made[d]) + 1
        BY <1>2
  <2>2. PICK e : e = [stamp |-> <<n + 1, d>>, payload |-> p]
        OBVIOUS
  <2>3. n + 1 \in Nat /\ e.stamp = <<n + 1, d>>
        BY <2>2
  <2>4. e \in StampedItems
        BY <2>2, <2>3 DEF StampedItems
  <2>5. e = Stamped(q, p)
        BY <1>3, <2>2 DEF Stamped
  <2> QED BY <2>1, <2>3, <2>4, <2>5
<1>5. PICK y : y = Append(x, e)
      OBVIOUS
<1>6. y \in Seq(StampedItems) /\ Len(y) = Len(x) + 1 /\ y[Len(y)] = e /\ \A i \in DOMAIN y : (i \in DOMAIN x /\ y[i] = x[i]) \/ y[i] = e
      BY <1>5
<1>7. PICK after : after = [counter |-> n + 1, device |-> d, items |-> y]
      OBVIOUS
<1>8. queue' = [queue EXCEPT ![d] = after]
      BY <1>2, <1>3, <1>4, <1>5, <1>7 DEF Happen, Enqueue
<1>9. after \in Outboxes
      BY <1>6, <1>7 DEF Outboxes
<1>10. queue' \in [Devices -> Outboxes] /\ queue'[d] = after /\ \A c \in Devices : c # d => queue'[c] = queue[c]
       BY <1>1, <1>8, <1>9 DEF BoxTypes
<1>11. queue'[d].items[Len(queue'[d].items)] = e
       BY <1>6, <1>7, <1>10
<1>12. PICK t : t = Append(s, e)
       OBVIOUS
<1>13. /\ t \in Seq(StampedItems) /\ \E m \in DOMAIN t : t[m] = e
       /\ \A m \in DOMAIN s : m \in DOMAIN t /\ t[m] = s[m]
       /\ \A m \in DOMAIN t : (m \in DOMAIN s /\ m < Len(s) + 1) \/ (m = Len(s) + 1 /\ t[m] = e)
       /\ Len(s) \in Nat
  <2>1. /\ t \in Seq(StampedItems) /\ Len(s) \in Nat /\ DOMAIN s = 1..Len(s) /\ DOMAIN t = 1..(Len(s) + 1)
        /\ t[Len(s) + 1] = e /\ \A m \in 1..Len(s) : t[m] = s[m]
        BY <1>12
  <2>2. Len(s) + 1 \in DOMAIN t
        BY <2>1
  <2> QED BY <2>1, <2>2
<1>14. made' = [made EXCEPT ![d] = t]
       BY <1>2, <1>11, <1>12 DEF Happen
<1>15. made' \in [Devices -> Seq(StampedItems)] /\ made'[d] = t /\ \A c \in Devices : c # d => made'[c] = made[c]
       BY <1>1, <1>13, <1>14 DEF BoxTypes
<1>16. UNCHANGED <<file, sent, timeline, clock, forgot>> /\ sure' = sure \ {d}
       BY DEF Happen
<1>17. BoxTypes'
       BY <1>1, <1>10, <1>15, <1>16 DEF BoxTypes
<1>18. ASSUME NEW i \in StampedItems, MadeBy(i, made) PROVE MadeBy(i, made')
  <2>1. i.stamp[2] \in Devices
        BY DEF StampedItems
  <2>2. PICK m \in DOMAIN made[i.stamp[2]] : made[i.stamp[2]][m] = i
        BY <1>18 DEF MadeBy
  <2>3. CASE i.stamp[2] = d
        BY <1>2, <1>13, <1>15, <2>2, <2>3 DEF MadeBy
  <2>4. CASE i.stamp[2] # d
        BY <1>15, <2>1, <2>2, <2>4 DEF MadeBy
  <2> QED BY <2>3, <2>4
<1>19. MadeBy(e, made')
  <2>1. e.stamp[2] = d
        BY <1>4
  <2> QED BY <1>13, <1>15, <2>1 DEF MadeBy
<1>20. ASSUME NEW w \in Seq(StampedItems), AllMade(w, made) PROVE AllMade(w, made')
       BY <1>18, <1>20 DEF AllMade
<1>21. Truthful'
  <2>1. ASSUME NEW c \in Devices PROVE queue'[c].device = c /\ AllMade(queue'[c].items, made')
    <3>1. CASE c = d
      <4>1. AllMade(y, made')
        <5>1. \A i \in DOMAIN x : x[i] \in StampedItems /\ MadeBy(x[i], made)
              BY <1>1, <1>2, <1>3 DEF Truthful, AllMade
        <5>2. \A i \in DOMAIN x : MadeBy(x[i], made')
              BY <1>18, <5>1
        <5> QED BY <1>6, <1>19, <5>2 DEF AllMade
      <4> QED BY <1>7, <1>10, <3>1, <4>1
    <3>2. CASE c # d
      <4>1. queue[c].items \in Seq(StampedItems) /\ queue[c].device = c /\ AllMade(queue[c].items, made)
            BY <1>1 DEF BoxTypes, Outboxes, Truthful
      <4>2. AllMade(queue[c].items, made')
            BY <1>10, <1>18, <3>2, <4>1 DEF AllMade
      <4> QED BY <1>10, <3>2, <4>1, <4>2
    <3> QED BY <3>1, <3>2
  <2>2. ASSUME NEW c \in Devices, Readable(file[c]) PROVE file[c].device = c /\ AllMade(file[c].items, made')
    <3>1. file[c].items \in Seq(StampedItems) /\ file[c].device = c /\ AllMade(file[c].items, made)
          BY <1>1, <2>2 DEF BoxTypes, Files, Truthful
    <3> QED BY <1>16, <1>18, <3>1 DEF AllMade
  <2>3. ASSUME NEW batch \in sent PROVE AllMade(batch, made')
        BY <1>1, <1>20, <2>3 DEF BoxTypes, Truthful
  <2>4. AllMade(timeline, made')
        BY <1>1, <1>16, <1>18 DEF BoxTypes, Truthful, AllMade
  <2> QED BY <1>16, <2>1, <2>2, <2>3, <2>4 DEF Truthful
<1>22. Counting'
  <2> SUFFICES ASSUME NEW c \in Devices, c \notin forgot
               PROVE  InOrder(made'[c]) /\ HighCounter(made'[c]) <= queue'[c].counter
      BY <1>16 DEF Counting, InOrder, HighCounter
  <2>1. InOrder(made[c]) /\ HighCounter(made[c]) <= queue[c].counter
        BY <1>1 DEF Counting
  <2>2. CASE c = d
    <3>1. HighCounter(s) \in Nat /\ Bounded(s, HighCounter(s)) /\ HighCounter(s) <= n
          BY <1>2, <1>3, <2>1, <2>2, HighIsHighest
    <3>2. ASSUME NEW m \in DOMAIN s PROVE s[m].stamp[1] \in Nat /\ s[m].stamp[1] <= n
      <4>1. s[m] \in StampedItems
            BY <1>2
      <4>2. s[m].stamp[1] \in Nat
            BY <4>1 DEF StampedItems
      <4> QED BY <3>1, <4>2 DEF Bounded
    <3>3. \A m \in DOMAIN s : BeforeStamp(s[m], e)
          BY <1>4, <3>2 DEF BeforeStamp
    <3>4. InOrder(t)
      <4> SUFFICES ASSUME NEW i \in DOMAIN t, NEW j \in DOMAIN t, i < j PROVE BeforeStamp(t[i], t[j])
          BY DEF InOrder
      <4>1. i \in DOMAIN s
        <5>1. DOMAIN t \subseteq Int
              BY <1>13
        <5> QED BY <1>13, <5>1
      <4>2. CASE j \in DOMAIN s
            BY <1>2, <1>13, <2>1, <2>2, <4>1, <4>2 DEF InOrder
      <4>3. CASE j \notin DOMAIN s
            BY <1>13, <3>3, <4>1, <4>3
      <4> QED BY <4>2, <4>3
    <3>5. Bounded(t, n + 1)
      <4> SUFFICES ASSUME NEW m \in DOMAIN t PROVE t[m].stamp[1] <= n + 1
          BY DEF Bounded
      <4>1. CASE m \in DOMAIN s
            BY <1>13, <3>2, <4>1
      <4>2. CASE m \notin DOMAIN s
            BY <1>4, <1>13, <4>2
      <4> QED BY <4>1, <4>2
    <3>6. HighCounter(t) <= n + 1
          BY <1>13, <3>5, HighIsHighest
    <3> QED BY <1>7, <1>10, <1>15, <2>2, <3>4, <3>6
  <2>3. CASE c # d
        BY <1>10, <1>15, <2>1, <2>3
  <2> QED BY <2>2, <2>3
<1>23. OnDisk'
  <2> SUFFICES ASSUME NEW c \in sure, c # d
               PROVE  Readable(file[c]) /\ HighCounter(made'[c]) <= HighCounter(file[c].items)
      BY <1>16 DEF OnDisk, Readable, HighCounter
  <2> QED BY <1>1, <1>15 DEF OnDisk, BoxTypes
<1>24. TimelineInOrder'
       BY <1>1, <1>16 DEF TimelineInOrder, InOrder
<1> QED BY <1>17, <1>21, <1>22, <1>23, <1>24 DEF BoxInv

(* The file is written over with what the outbox holds.                     *)
LEMMA BoxKeptByFlush == ASSUME BoxInv, NEW d \in Devices, Flush(d) PROVE BoxInv'
<1>1. BoxTypes /\ Truthful /\ Counting /\ OnDisk /\ TimelineInOrder
      BY DEF BoxInv
<1>2. UNCHANGED <<queue, sent, timeline, clock, made, forgot>>
      BY DEF Flush
<1>3. PICK q \in Outboxes, f \in Files :
         q = queue[d] /\ f = Image(q) /\ Readable(f) /\ f.device = d /\ f.items = q.items
  <2>1. queue[d] \in Outboxes /\ queue[d].device = d
        BY <1>1 DEF BoxTypes, Truthful
  <2> QED BY <2>1, WrittenWhole
<1>4. file' \in [Devices -> Files] /\ file'[d] = f /\ \A c \in Devices : c # d => file'[c] = file[c]
      BY <1>1, <1>3 DEF Flush, BoxTypes
<1>5. /\ sure' \subseteq sure \cup {d}
      /\ d \in sure' => HighCounter(f.items) = HighCounter(made[d])
      BY <1>3 DEF Flush
<1>6. BoxTypes'
      BY <1>1, <1>2, <1>4, <1>5 DEF BoxTypes
<1>7. Truthful'
  <2>1. AllMade(f.items, made)
        BY <1>1, <1>3 DEF Truthful
  <2> QED BY <1>1, <1>2, <1>3, <1>4, <2>1 DEF Truthful
<1>8. Counting'
      BY <1>1, <1>2 DEF Counting
<1>9. OnDisk'
  <2> SUFFICES ASSUME NEW c \in sure'
               PROVE  Readable(file'[c]) /\ HighCounter(made[c]) <= HighCounter(file'[c].items)
      BY <1>2 DEF OnDisk
  <2>1. CASE c = d
    <3>1. HighCounter(f.items) = HighCounter(made[d]) /\ HighCounter(made[d]) \in Nat
          BY <1>1, <1>5, <2>1, HighIsHighest DEF BoxTypes
    <3> QED BY <1>3, <1>4, <2>1, <3>1
  <2>2. CASE c # d
    <3>1. c \in sure /\ c \in Devices
          BY <1>1, <1>5, <2>2 DEF BoxTypes
    <3> QED BY <1>1, <1>4, <2>2, <3>1 DEF OnDisk
  <2> QED BY <2>1, <2>2
<1>10. TimelineInOrder'
       BY <1>1, <1>2 DEF TimelineInOrder
<1> QED BY <1>6, <1>7, <1>8, <1>9, <1>10 DEF BoxInv

(* A restart, with the file as it is or cut short.                          *)
LEMMA BoxKeptByRestarted ==
    ASSUME BoxInv, NEW d \in Devices, NEW f \in Files, Restarted(d, f),
           Readable(f) => f = file[d],
           (sure' = sure /\ f = file[d]) \/ sure' = sure \ {d}
    PROVE  BoxInv'
<1>1. BoxTypes /\ Truthful /\ Counting /\ OnDisk /\ TimelineInOrder
      BY DEF BoxInv
<1>2. UNCHANGED <<sent, timeline, clock, made>>
      BY DEF Restarted
<1>3. PICK q : q = Loaded(EmptyQueue(d), f)
      OBVIOUS
<1>4. Readable(f) => f.device = d /\ AllMade(f.items, made)
      BY <1>1 DEF Truthful
<1>5. /\ q \in Outboxes /\ q.device = d
      /\ ~Readable(f) => q = EmptyQueue(d)
      /\ Readable(f) => q.items = f.items
      BY <1>3, <1>4, LoadedFact
<1>6. /\ queue' \in [Devices -> Outboxes] /\ queue'[d] = q /\ \A c \in Devices : c # d => queue'[c] = queue[c]
      /\ file' \in [Devices -> Files] /\ file'[d] = f /\ \A c \in Devices : c # d => file'[c] = file[c]
      BY <1>1, <1>3, <1>5 DEF Restarted, BoxTypes
<1>7. forgot' = IF q.counter < HighCounter(made[d]) THEN forgot \cup {d} ELSE forgot
      BY <1>6 DEF Restarted
<1>8. sure' \subseteq sure
      OBVIOUS
<1>9. BoxTypes'
      BY <1>1, <1>2, <1>6, <1>7, <1>8 DEF BoxTypes
<1>10. Truthful'
  <2>1. AllMade(q.items, made)
    <3>1. ~Readable(f) => q.items = <<>>
          BY <1>5 DEF EmptyQueue
    <3>2. AllMade(<<>>, made)
          BY DEF AllMade
    <3> QED BY <1>4, <1>5, <3>1, <3>2
  <2>2. ASSUME NEW c \in Devices
        PROVE  /\ queue'[c].device = c /\ AllMade(queue'[c].items, made)
               /\ Readable(file'[c]) => file'[c].device = c /\ AllMade(file'[c].items, made)
    <3>1. CASE c = d
          BY <1>4, <1>5, <1>6, <2>1, <3>1
    <3>2. CASE c # d
          BY <1>1, <1>6, <3>2 DEF Truthful
    <3> QED BY <3>1, <3>2
  <2> QED BY <1>1, <1>2, <2>2 DEF Truthful
<1>11. Counting'
  <2> SUFFICES ASSUME NEW c \in Devices, c \notin forgot'
               PROVE  InOrder(made[c]) /\ HighCounter(made[c]) <= queue'[c].counter
      BY <1>2 DEF Counting
  <2>1. c \notin forgot
        BY <1>7
  <2>2. InOrder(made[c]) /\ HighCounter(made[c]) <= queue[c].counter
        BY <1>1, <2>1 DEF Counting
  <2>3. CASE c = d
    <3>1. ~(q.counter < HighCounter(made[d]))
          BY <1>7, <2>3
    <3>2. q.counter \in Nat /\ HighCounter(made[d]) \in Nat
          BY <1>1, <1>5, HighIsHighest DEF BoxTypes, Outboxes
    <3>3. HighCounter(made[d]) <= q.counter
          BY <3>1, <3>2
    <3> QED BY <1>6, <2>2, <2>3, <3>3
  <2>4. CASE c # d
        BY <1>6, <2>2, <2>4
  <2> QED BY <2>3, <2>4
<1>12. OnDisk'
  <2> SUFFICES ASSUME NEW c \in sure'
               PROVE  Readable(file'[c]) /\ HighCounter(made[c]) <= HighCounter(file'[c].items)
      BY <1>2 DEF OnDisk
  <2>1. c \in sure /\ c \in Devices /\ file'[c] = file[c]
        BY <1>1, <1>6, <1>8 DEF BoxTypes
  <2> QED BY <1>1, <2>1 DEF OnDisk
<1>13. TimelineInOrder'
       BY <1>1, <1>2 DEF TimelineInOrder
<1> QED BY <1>9, <1>10, <1>11, <1>12, <1>13 DEF BoxInv

(* A restart finds the file as it was left.                                 *)
LEMMA BoxKeptByRestart == ASSUME BoxInv, NEW d \in Devices, Restart(d) PROVE BoxInv'
<1>1. file[d] \in Files
      BY DEF BoxInv, BoxTypes
<1> QED BY <1>1, BoxKeptByRestarted DEF Restart

(* Or cut short by the flush it fell into.                                  *)
LEMMA BoxKeptByDieInFlush == ASSUME BoxInv, NEW d \in Devices, DieInFlush(d) PROVE BoxInv'
<1>1. PICK f \in CutShort(Image(queue[d])) : Restarted(d, f)
      BY DEF DieInFlush
<1>2. sure' = sure \ {d}
      BY DEF DieInFlush
<1>3. queue[d] \in Outboxes
      BY DEF BoxInv, BoxTypes
<1>4. f \in Files /\ ~Readable(f)
      BY <1>3, WrittenInPart
<1> QED BY <1>1, <1>2, <1>4, BoxKeptByRestarted

(* A batch is handed over.                                                  *)
LEMMA BoxKeptByDrain == ASSUME BoxInv, NEW d \in Devices, Drain(d) PROVE BoxInv'
<1>1. BoxTypes /\ Truthful /\ Counting /\ OnDisk /\ TimelineInOrder
      BY DEF BoxInv
<1>2. UNCHANGED <<file, timeline, clock, made, sure, forgot>>
      BY DEF Drain
<1>3. PICK q \in Outboxes : q = queue[d] /\ q.device = d
      BY <1>1 DEF BoxTypes, Truthful
<1>4. PICK after : after = [q EXCEPT !.items = <<>>]
      OBVIOUS
<1>5. after \in Outboxes /\ after.device = d /\ after.counter = q.counter /\ after.items = <<>>
  <2>1. q = [counter |-> q.counter, device |-> d, items |-> q.items] /\ q.counter \in Nat
        BY <1>3 DEF Outboxes
  <2>2. after = [counter |-> q.counter, device |-> d, items |-> <<>>]
        BY <1>4, <2>1
  <2>3. <<>> \in Seq(StampedItems)
        OBVIOUS
  <2> QED BY <2>1, <2>2, <2>3 DEF Outboxes
<1>6. queue' = [queue EXCEPT ![d] = after]
      BY <1>3, <1>4 DEF Drain
<1>7. queue' \in [Devices -> Outboxes] /\ queue'[d] = after /\ \A c \in Devices : c # d => queue'[c] = queue[c]
      BY <1>1, <1>5, <1>6 DEF BoxTypes
<1>8. sent' = sent \cup {q.items} /\ q.items \in Seq(StampedItems) /\ AllMade(q.items, made)
      BY <1>1, <1>3 DEF Drain, Outboxes, Truthful
<1>9. BoxTypes'
      BY <1>1, <1>2, <1>7, <1>8 DEF BoxTypes
<1>10. Truthful'
  <2>1. AllMade(<<>>, made)
        BY DEF AllMade
  <2>2. ASSUME NEW c \in Devices PROVE queue'[c].device = c /\ AllMade(queue'[c].items, made)
    <3>1. CASE c = d
          BY <1>5, <1>7, <2>1, <3>1
    <3>2. CASE c # d
          BY <1>1, <1>7, <3>2 DEF Truthful
    <3> QED BY <3>1, <3>2
  <2> QED BY <1>1, <1>2, <1>8, <2>2 DEF Truthful
<1>11. Counting'
  <2> SUFFICES ASSUME NEW c \in Devices, c \notin forgot
               PROVE  InOrder(made[c]) /\ HighCounter(made[c]) <= queue'[c].counter
      BY <1>2 DEF Counting
  <2>1. queue'[c].counter = queue[c].counter
        BY <1>3, <1>5, <1>7
  <2> QED BY <1>1, <2>1 DEF Counting
<1>12. OnDisk' /\ TimelineInOrder'
       BY <1>1, <1>2 DEF OnDisk, TimelineInOrder
<1> QED BY <1>9, <1>10, <1>11, <1>12 DEF BoxInv

(* A batch arrives: late, again, or not.                                    *)
LEMMA BoxKeptByDeliver == ASSUME BoxInv, Deliver PROVE BoxInv'
<1>1. BoxTypes /\ Truthful /\ Counting /\ OnDisk /\ TimelineInOrder
      BY DEF BoxInv
<1>2. UNCHANGED <<queue, file, sent, made, sure, forgot>>
      BY DEF Deliver
<1>3. PICK known : known = {Key(timeline[i]) : i \in DOMAIN timeline}
      OBVIOUS
<1>4. PICK batch \in sent :
         /\ timeline' = StableSort(timeline \o Merge(batch, known).admitted)
         /\ clock' = AllObserved(clock, Merge(batch, known).admitted)
      BY <1>3 DEF Deliver
<1>5. batch \in Seq(StampedItems) /\ AllMade(batch, made)
      BY <1>1 DEF BoxTypes, Truthful
<1>6. PICK a \in Seq(StampedItems) :
         /\ a = Merge(batch, known).admitted
         /\ \A i \in DOMAIN a : Key(a[i]) \notin known /\ \E j \in DOMAIN batch : a[i] = batch[j]
         /\ \A i, j \in DOMAIN a : i # j => Key(a[i]) # Key(a[j])
  <2>1. Merge(batch, known).admitted \in Seq(StampedItems) /\ Taken(Merge(batch, known), known, batch)
        BY <1>5, MergeTakes
  <2> QED BY <2>1 DEF Taken
<1>7. PICK l \in Seq(StampedItems) : l = timeline
      BY <1>1 DEF BoxTypes
<1>8. PICK s : s = l \o a
      OBVIOUS
<1>9. /\ s \in Seq(StampedItems) /\ Len(l) \in Nat /\ Len(a) \in Nat
      /\ DOMAIN l = 1..Len(l) /\ DOMAIN a = 1..Len(a) /\ DOMAIN s = 1..(Len(l) + Len(a))
      /\ \A i \in DOMAIN l : s[i] = l[i]
      /\ \A i \in DOMAIN a : s[Len(l) + i] = a[i]
      BY <1>8
<1>10. ASSUME NEW i \in DOMAIN s
       PROVE  \/ i \in DOMAIN l /\ s[i] = l[i]
              \/ i - Len(l) \in DOMAIN a /\ s[i] = a[i - Len(l)]
  <2>1. CASE i \in DOMAIN l
        BY <1>9, <2>1
  <2>2. CASE i \notin DOMAIN l
    <3>1. i - Len(l) \in DOMAIN a /\ Len(l) + (i - Len(l)) = i
          BY <1>9, <2>2
    <3> QED BY <1>9, <3>1
  <2> QED BY <2>1, <2>2
<1>11. ASSUME NEW i \in DOMAIN l, NEW j \in DOMAIN l, i # j PROVE l[i].stamp # l[j].stamp
  <2>1. i < j \/ j < i
        BY <1>9, <1>11
  <2>2. BeforeStamp(l[i], l[j]) \/ BeforeStamp(l[j], l[i])
        BY <1>1, <1>7, <2>1 DEF TimelineInOrder, InOrder
  <2>3. l[i] \in StampedItems /\ l[j] \in StampedItems
        OBVIOUS
  <2> QED BY <2>2, <2>3, StampsAreOrdered
<1>12. \A i \in DOMAIN l, j \in DOMAIN a : l[i].stamp # a[j].stamp
  <2> SUFFICES ASSUME NEW i \in DOMAIN l, NEW j \in DOMAIN a PROVE l[i].stamp # a[j].stamp
      OBVIOUS
  <2>1. l[i].stamp \in known
        BY <1>3, <1>7 DEF Key
  <2>2. a[j].stamp \notin known
        BY <1>6 DEF Key
  <2> QED BY <2>1, <2>2
<1>13. Distinct(s)
  <2> SUFFICES ASSUME NEW i \in DOMAIN s, NEW j \in DOMAIN s, i # j PROVE s[i].stamp # s[j].stamp
      BY DEF Distinct
  <2>1. CASE i \in DOMAIN l /\ s[i] = l[i]
        BY <1>10, <1>11, <1>12, <2>1
  <2>2. CASE i - Len(l) \in DOMAIN a /\ s[i] = a[i - Len(l)]
    <3>1. CASE j \in DOMAIN l /\ s[j] = l[j]
          BY <1>12, <2>2, <3>1
    <3>2. CASE j - Len(l) \in DOMAIN a /\ s[j] = a[j - Len(l)]
      <4>1. i - Len(l) # j - Len(l)
            BY <1>9
      <4> QED BY <1>6, <2>2, <3>2, <4>1 DEF Key
    <3> QED BY <1>10, <3>1, <3>2
  <2> QED BY <1>10, <2>1, <2>2
<1>14. PICK t : t = StableSort(s)
       OBVIOUS
<1>15. /\ t \in Seq(StampedItems) /\ InOrder(t)
       /\ \A k \in DOMAIN t : \E j \in DOMAIN s : t[k] = s[j]
       BY <1>9, <1>13, <1>14, SortSorts
<1>16. \A k \in DOMAIN t : (\E i \in DOMAIN l : t[k] = l[i]) \/ (\E i \in DOMAIN a : t[k] = a[i])
       BY <1>10, <1>15
<1>17. PICK c \in Nat :
          /\ c = AllObserved(clock, a) /\ c >= clock
          /\ \A i \in DOMAIN a : c > a[i].stamp[1]
       BY <1>1, AllObservedFact DEF BoxTypes
<1>18. timeline' = t /\ clock' = c
       BY <1>4, <1>6, <1>7, <1>8, <1>14, <1>17
<1>19. BoxTypes'
       BY <1>1, <1>2, <1>15, <1>18 DEF BoxTypes
<1>20. Truthful'
  <2>1. AllMade(t, made)
        BY <1>1, <1>5, <1>6, <1>7, <1>16 DEF AllMade, Truthful
  <2> QED BY <1>1, <1>2, <1>18, <2>1 DEF Truthful
<1>21. Counting' /\ OnDisk'
       BY <1>1, <1>2 DEF Counting, OnDisk
<1>22. TimelineInOrder'
  <2>1. ASSUME NEW k \in DOMAIN t PROVE c > t[k].stamp[1]
    <3>1. ASSUME NEW i \in DOMAIN l PROVE c > l[i].stamp[1]
      <4>1. l[i] \in StampedItems
            OBVIOUS
      <4>2. l[i].stamp[1] \in Nat /\ clock > l[i].stamp[1] /\ clock \in Nat
            BY <1>1, <1>7, <4>1 DEF StampedItems, TimelineInOrder, BoxTypes
      <4> QED BY <1>17, <4>2
    <3> QED BY <1>16, <1>17, <3>1
  <2> QED BY <1>15, <1>18, <2>1 DEF TimelineInOrder
<1> QED BY <1>19, <1>20, <1>21, <1>22 DEF BoxInv

(* No step of a device or the server breaks it.                             *)
LEMMA BoxInvNext == ASSUME BoxInv, [BoxNext]_boxVars PROVE BoxInv'
<1>1. CASE UNCHANGED boxVars
      BY <1>1 DEF boxVars, BoxInv, BoxTypes, Truthful, Counting, OnDisk, TimelineInOrder
<1>2. CASE BoxNext
  <2>1. CASE Deliver
        BY <2>1, BoxKeptByDeliver
  <2>2. ASSUME NEW d \in Devices, Happen(d) \/ Flush(d) \/ Restart(d) \/ DieInFlush(d) \/ Drain(d)
        PROVE  BoxInv'
        BY <2>2, BoxKeptByHappen, BoxKeptByFlush, BoxKeptByRestart, BoxKeptByDieInFlush, BoxKeptByDrain
  <2> QED BY <1>2, <2>1, <2>2 DEF BoxNext
<1> QED BY <1>1, <1>2

(* What the invariant says of files, counts and the timeline.               *)
LEMMA BoxInvImplies == ASSUME BoxInv PROVE OutboxIsTrue
<1>1. BoxTypes /\ Truthful /\ Counting /\ OnDisk /\ TimelineInOrder
      BY DEF BoxInv
<1>2. FileIsAllOrNothing
  <2> SUFFICES ASSUME NEW d \in Devices, NEW x \in Devices
               PROVE  /\ Loaded(EmptyQueue(d), Image(queue[d])) =
                            [queue[d] EXCEPT !.counter = HighCounter(queue[d].items)]
                      /\ \A f \in CutShort(Image(queue[d])) : Loaded(queue[x], f) = queue[x]
      BY DEF FileIsAllOrNothing
  <2>1. PICK q \in Outboxes : q = queue[d] /\ q.device = d
        BY <1>1 DEF BoxTypes, Truthful
  <2>2. Readable(Image(q)) /\ Image(q) \in Files /\ Image(q).device = d /\ Image(q).items = q.items
        BY <2>1, WrittenWhole
  <2>3. PICK y \in Outboxes : /\ y = Loaded(EmptyQueue(d), Image(q)) /\ y.device = d
                              /\ y.items = q.items /\ y.counter = HighCounter(q.items)
        BY <2>2, LoadedFact
  <2>4. y = [q EXCEPT !.counter = HighCounter(q.items)]
        BY <2>1, <2>3 DEF Outboxes
  <2>5. \A f \in CutShort(Image(q)) : Loaded(queue[x], f) = queue[x]
        BY WrittenInPart DEF Loaded
  <2> QED BY <2>1, <2>3, <2>4, <2>5
<1>3. CountSurvives
  <2> SUFFICES ASSUME NEW d \in sure
               PROVE  Loaded(EmptyQueue(d), file[d]).counter >= HighCounter(made[d])
      BY DEF CountSurvives
  <2>1. /\ d \in Devices /\ file[d] \in Files /\ made[d] \in Seq(StampedItems)
        /\ Readable(file[d]) /\ file[d].device = d
        /\ HighCounter(made[d]) <= HighCounter(file[d].items)
        BY <1>1 DEF BoxTypes, OnDisk, Truthful
  <2>2. Loaded(EmptyQueue(d), file[d]).counter = HighCounter(file[d].items)
        BY <2>1, LoadedFact
  <2>3. HighCounter(made[d]) \in Nat /\ HighCounter(file[d].items) \in Nat
        BY <2>1, HighIsHighest DEF Files
  <2> QED BY <2>1, <2>2, <2>3
<1>4. TimelineIsTrue
  <2>1. ASSUME NEW d \in Devices \ forgot, NEW batch \in sent, NEW i \in DOMAIN batch,
               batch[i].stamp[2] = d, NEW j \in DOMAIN timeline, Key(timeline[j]) = Key(batch[i])
        PROVE  timeline[j] = batch[i]
    <3>1. timeline[j].stamp = batch[i].stamp
          BY <2>1 DEF Key
    <3>2. MadeBy(batch[i], made) /\ MadeBy(timeline[j], made)
          BY <1>1 DEF Truthful, AllMade
    <3>3. PICK s \in Seq(StampedItems) : s = made[d] /\ InOrder(s)
          BY <1>1 DEF BoxTypes, Counting
    <3>4. PICK m \in DOMAIN s, n \in DOMAIN s : s[m] = batch[i] /\ s[n] = timeline[j]
          BY <2>1, <3>1, <3>2, <3>3 DEF MadeBy
    <3>5. m \in Int /\ n \in Int /\ s[m] \in StampedItems /\ s[n] \in StampedItems
          BY <3>3, <3>4
    <3>6. ~BeforeStamp(s[m], s[n]) /\ ~BeforeStamp(s[n], s[m])
          BY <3>1, <3>4, <3>5, StampsAreOrdered
    <3>7. m = n
          BY <3>3, <3>4, <3>5, <3>6 DEF InOrder
    <3> QED BY <3>4, <3>7
  <2>2. \A d \in Devices \ forgot : \A m, n \in DOMAIN made[d] :
           m < n => BeforeStamp(made[d][m], made[d][n])
        BY <1>1 DEF Counting, InOrder
  <2>3. \A i, j \in DOMAIN timeline :
           (i < j => BeforeStamp(timeline[i], timeline[j])) /\ clock > timeline[i].stamp[1]
        BY <1>1 DEF TimelineInOrder, InOrder
  <2> QED BY <2>1, <2>2, <2>3 DEF TimelineIsTrue
<1> QED BY <1>2, <1>3, <1>4 DEF OutboxIsTrue

(* However batches are repeated, delayed and reordered and wherever a       *)
(* restart falls, files give back all or nothing, a device whose file was   *)
(* written in time knows every stamp it used, and the timeline is in order, *)
(* has no event twice and confuses none (OfflineQueue, Reconciler::merge).  *)
THEOREM OutboxStaysTrue == BoxSpec => []OutboxIsTrue
<1>1. BoxInit => BoxInv
      BY BoxInvInit
<1>2. BoxInv /\ [BoxNext]_boxVars => BoxInv'
      BY BoxInvNext
<1>3. BoxInv => OutboxIsTrue
      BY BoxInvImplies
<1> QED BY <1>1, <1>2, <1>3, PTL DEF BoxSpec

(***************************************************************************)
(* Board.  No forecast outlives what it forecast or its time, and a device *)
(* is at full rate exactly while it should be.                             *)
(***************************************************************************)

(* What is on the board.                                                    *)
States == {"Open", "Acknowledged", "Resolved"}
Standings == {"Outside", "Uncertain", "Inside"}
EventKinds == {"Approaching", "Uncertain", "Enter", "Dwell", "Exit"}
AlertKinds == {"Breach", "Sos", "SignalLost"} \cup EventKinds

AlertFields ==
    [user : Tourists, kind : AlertKinds, zone : Zones \cup {"none"}, severity : Nat,
     state : States, first : Nat, raised : Int, recorded : Int, due : Int]

(* Escalation only raises a severity, and a warning is about a zone.        *)
AlertRecords ==
    {a \in AlertFields :
        a.first <= a.severity /\ (a.kind \in Warnings => a.zone \in Zones)}

Boards == [alerts : Seq(AlertRecords), active : SUBSET Tourists, computed : SUBSET Tourists]

Events == [kind : EventKinds, user : Tourists, zone : Zones, t : Int]

DeviceRecords == [away : BOOLEAN, active : BOOLEAN, stand : [Zones -> Standings], queue : Seq(Events)]

SeriousOpen(b, u) ==
    \E i \in DOMAIN b.alerts :
        b.alerts[i].user = u /\ IsOpen(b.alerts[i]) /\ b.alerts[i].severity >= Serious
SeriousRaised(b, u) ==
    \E i \in DOMAIN b.alerts :
        b.alerts[i].user = u /\ IsOpen(b.alerts[i]) /\ b.alerts[i].first >= Serious

FullRate(b) ==
    \A u \in b.computed : (u \in b.active => SeriousOpen(b, u)) /\ (SeriousRaised(b, u) => u \in b.active)

Sound(b) == b \in Boards /\ FullRate(b)

(* An open warning, and one that nobody took.                               *)
Forecast(a) == a.kind \in Warnings /\ IsOpen(a)
Untaken(a) == a.kind \in Warnings /\ a.state = "Open"

Clear(b, u, z) ==
    \A i \in DOMAIN b.alerts : Forecast(b.alerts[i]) => ~(b.alerts[i].user = u /\ b.alerts[i].zone = z)

(* At n, with the next pass due at s, the warning is young enough or was    *)
(* learnt so lately that the pass has not come; and the pass is as near.    *)
InTime(a, n, s) ==
    \/ s <= a.raised + Ttl + Period /\ n < a.raised + Ttl + Period
    \/ s <= a.recorded + Period /\ n < a.recorded + Period

Timely(b, n, s) == \A i \in DOMAIN b.alerts : Untaken(b.alerts[i]) => InTime(b.alerts[i], n, s)

(* No alert is added and none reopened.                                     *)
Lessens(b, c) ==
    /\ DOMAIN c.alerts = DOMAIN b.alerts
    /\ \A i \in DOMAIN b.alerts :
          /\ c.alerts[i].user = b.alerts[i].user /\ c.alerts[i].kind = b.alerts[i].kind
          /\ c.alerts[i].zone = b.alerts[i].zone /\ c.alerts[i].raised = b.alerts[i].raised
          /\ c.alerts[i].recorded = b.alerts[i].recorded
          /\ IsOpen(c.alerts[i]) => IsOpen(b.alerts[i])
          /\ c.alerts[i].state = "Open" => b.alerts[i].state = "Open"

LEMMA LessensFact ==
    ASSUME NEW b, NEW c, Lessens(b, c)
    PROVE  /\ \A u, z : Clear(b, u, z) => Clear(c, u, z)
           /\ \A n, s : Timely(b, n, s) => Timely(c, n, s)
BY DEF Lessens, Clear, Timely, Forecast, Untaken, InTime

LEMMA LessensThrough ==
    ASSUME NEW b, NEW c, NEW d, Lessens(b, c), Lessens(c, d)
    PROVE  Lessens(b, d)
BY DEF Lessens

(* set_alert_state.                                                         *)
LEMMA SetStatesFact ==
    ASSUME NEW b \in Boards, FullRate(b), NEW which \in SUBSET DOMAIN b.alerts, NEW state \in States,
           state # "Resolved" => state = "Acknowledged" /\ \A i \in which : IsOpen(b.alerts[i])
    PROVE  /\ Sound(SetStates(b, which, state)) /\ Lessens(b, SetStates(b, which, state))
           /\ \A i \in DOMAIN b.alerts :
                 SetStates(b, which, state).alerts[i].state =
                    IF i \in which THEN state ELSE b.alerts[i].state
<1> DEFINE next == [i \in DOMAIN b.alerts |->
                      IF i \in which THEN [b.alerts[i] EXCEPT !.state = state] ELSE b.alerts[i]]
           users == {b.alerts[i].user : i \in which}
           raised == {u \in users : \E i \in DOMAIN next :
                        next[i].user = u /\ IsOpen(next[i]) /\ next[i].severity >= Serious}
<1>1. PICK c : c = SetStates(b, which, state)
      OBVIOUS
<1>2. PICK m \in Nat : DOMAIN b.alerts = 1..m /\ \A i \in 1..m : b.alerts[i] \in AlertRecords
  <2>1. b.alerts \in Seq(AlertRecords)
        BY DEF Boards
  <2>2. Len(b.alerts) \in Nat /\ DOMAIN b.alerts = 1..Len(b.alerts)
        /\ \A i \in 1..Len(b.alerts) : b.alerts[i] \in AlertRecords
        BY <2>1
  <2> QED BY <2>2
<1>3. c = [alerts |-> next, active |-> (b.active \ users) \cup raised,
           computed |-> b.computed \cup users]
      BY <1>1 DEF SetStates
<1>4. ASSUME NEW i \in 1..m
      PROVE  /\ next[i] \in AlertRecords
             /\ next[i].user = b.alerts[i].user /\ next[i].kind = b.alerts[i].kind
             /\ next[i].zone = b.alerts[i].zone /\ next[i].raised = b.alerts[i].raised
             /\ next[i].recorded = b.alerts[i].recorded
             /\ next[i].first = b.alerts[i].first /\ next[i].severity = b.alerts[i].severity
             /\ next[i].state = IF i \in which THEN state ELSE b.alerts[i].state
             /\ i \notin which => next[i] = b.alerts[i]
  <2>1. b.alerts[i] \in AlertRecords /\ i \in DOMAIN b.alerts
        BY <1>2
  <2>2. next[i] = IF i \in which THEN [b.alerts[i] EXCEPT !.state = state] ELSE b.alerts[i]
        BY <2>1
  <2> HIDE DEF next
  <2> QED BY <2>1, <2>2 DEF AlertRecords, AlertFields
<1>5. next \in Seq(AlertRecords) /\ DOMAIN next = 1..m
  <2>1. next \in [1..m -> AlertRecords]
        BY <1>2, <1>4
  <2> HIDE DEF next
  <2>2. DOMAIN next = 1..m
        BY <2>1
  <2> QED BY <2>1, <2>2
<1>6. users \subseteq Tourists /\ raised \subseteq users
  <2>1. \A i \in which : b.alerts[i].user \in Tourists
        BY <1>2 DEF AlertRecords, AlertFields
  <2> QED BY <2>1
<1> HIDE DEF next
<1>7. c \in Boards
      BY <1>3, <1>5, <1>6 DEF Boards
<1>8. Lessens(b, c)
      BY <1>2, <1>3, <1>4, <1>5 DEF Lessens, IsOpen, States
<1>9. \A u \in users : /\ u \in raised <=> SeriousOpen(c, u)
                       /\ SeriousRaised(c, u) => SeriousOpen(c, u)
  <2>1. \A i \in DOMAIN next : next[i].first <= next[i].severity /\ next[i].first \in Nat /\ next[i].severity \in Nat
        BY <1>4, <1>5 DEF AlertRecords, AlertFields
  <2>2. \A u : SeriousRaised(c, u) => SeriousOpen(c, u)
        BY <1>3, <2>1 DEF SeriousRaised, SeriousOpen, Serious
  <2>3. \A u \in users : u \in raised <=> SeriousOpen(c, u)
        BY <1>3 DEF SeriousOpen
  <2> QED BY <2>2, <2>3
<1>10. ASSUME NEW u, u \notin users
       PROVE  (SeriousOpen(b, u) <=> SeriousOpen(c, u)) /\ (SeriousRaised(b, u) <=> SeriousRaised(c, u))
  <2>1. \A i \in 1..m : b.alerts[i].user = u \/ next[i].user = u => next[i] = b.alerts[i]
        BY <1>4, <1>10
  <2> QED BY <1>2, <1>3, <1>5, <2>1 DEF SeriousOpen, SeriousRaised
<1>11. FullRate(c)
  <2> SUFFICES ASSUME NEW u \in c.computed
               PROVE  (u \in c.active => SeriousOpen(c, u)) /\ (SeriousRaised(c, u) => u \in c.active)
      BY DEF FullRate
  <2>1. CASE u \in users
        BY <1>3, <1>9, <2>1
  <2>2. CASE u \notin users
    <3>1. u \in b.computed /\ (u \in c.active <=> u \in b.active)
          BY <1>3, <1>6, <2>2
    <3> QED BY <1>10, <2>2, <3>1 DEF FullRate
  <2> QED BY <2>1, <2>2
<1>12. \A i \in DOMAIN b.alerts : c.alerts[i].state = IF i \in which THEN state ELSE b.alerts[i].state
       BY <1>2, <1>3, <1>4
<1> QED BY <1>1, <1>7, <1>8, <1>11, <1>12 DEF Sound

(* settle_warnings.                                                         *)
LEMMA SettleFact ==
    ASSUME NEW b \in Boards, FullRate(b), NEW u, NEW z
    PROVE  /\ Sound(Settle(b, u, z)) /\ Lessens(b, Settle(b, u, z)) /\ Clear(Settle(b, u, z), u, z)
<1> DEFINE which == {i \in DOMAIN b.alerts :
                       /\ b.alerts[i].user = u /\ b.alerts[i].zone = z
                       /\ b.alerts[i].kind \in Warnings /\ IsOpen(b.alerts[i])}
<1>1. PICK c : c = SetStates(b, which, "Resolved")
      OBVIOUS
<1>2. c = Settle(b, u, z)
      BY <1>1 DEF Settle
<1>3. /\ Sound(c) /\ Lessens(b, c)
      /\ \A i \in DOMAIN b.alerts : c.alerts[i].state = IF i \in which THEN "Resolved" ELSE b.alerts[i].state
  <2>1. which \in SUBSET DOMAIN b.alerts /\ "Resolved" \in States
        BY DEF States
  <2> HIDE DEF which
  <2> QED BY <1>1, <2>1, SetStatesFact
<1>4. Clear(c, u, z)
  <2> SUFFICES ASSUME NEW i \in DOMAIN c.alerts, Forecast(c.alerts[i]),
                      c.alerts[i].user = u, c.alerts[i].zone = z
               PROVE  FALSE
      BY DEF Clear
  <2>1. i \in DOMAIN b.alerts /\ i \in which
        BY <1>3 DEF Lessens, Forecast
  <2> QED BY <1>3, <2>1 DEF Forecast, IsOpen
<1> QED BY <1>2, <1>3, <1>4

-----------------------------------------------------------------------------
(* raise_alert: an alert is added to the end, and nothing else changes.     *)
Adds(b, c, u, kind, z) ==
    /\ c.alerts = Append(b.alerts, c.alerts[Len(b.alerts) + 1])
    /\ c.alerts[Len(b.alerts) + 1].user = u /\ c.alerts[Len(b.alerts) + 1].kind = kind
    /\ c.alerts[Len(b.alerts) + 1].zone = z /\ c.alerts[Len(b.alerts) + 1].recorded = now

LEMMA AddsFact ==
    ASSUME now \in Int, Period \in Nat \ {0}, Ttl \in Nat,
           NEW b \in Boards, NEW c \in Boards, NEW u, NEW kind, NEW z, Adds(b, c, u, kind, z)
    PROVE  /\ \A v, w : Clear(b, v, w) /\ ~(kind \in Warnings /\ v = u /\ w = z) => Clear(c, v, w)
           /\ \A s \in Int : s <= now + Period /\ Timely(b, now, s) => Timely(c, now, s)
<1>1. PICK k : k = Len(b.alerts) + 1
      OBVIOUS
<1>2. PICK a : a = c.alerts[k]
      OBVIOUS
<1>3. b.alerts \in Seq(AlertRecords) /\ c.alerts \in Seq(AlertRecords)
      BY DEF Boards
<1>4. c.alerts = Append(b.alerts, a) /\ a.user = u /\ a.kind = kind /\ a.zone = z /\ a.recorded = now
      BY <1>1, <1>2 DEF Adds
<1>5. /\ DOMAIN c.alerts = 1..k /\ DOMAIN b.alerts = 1..(k - 1) /\ k \in Nat \ {0}
      /\ \A i \in 1..(k - 1) : c.alerts[i] = b.alerts[i]
      BY <1>1, <1>3, <1>4
<1>6. \A i \in DOMAIN c.alerts : (i \in DOMAIN b.alerts /\ c.alerts[i] = b.alerts[i]) \/ c.alerts[i] = a
      BY <1>2, <1>5
<1>7. \A v, w : Clear(b, v, w) /\ ~(kind \in Warnings /\ v = u /\ w = z) => Clear(c, v, w)
      BY <1>4, <1>6 DEF Clear, Forecast
<1>8. ASSUME NEW s \in Int, s <= now + Period, Timely(b, now, s) PROVE Timely(c, now, s)
  <2>1. InTime(a, now, s)
        BY <1>4, <1>8 DEF InTime
  <2> QED BY <1>6, <1>8, <2>1 DEF Timely
<1> QED BY <1>7, <1>8

LEMMA RaiseFact ==
    ASSUME now \in Int, Timeout \in Nat, NEW b \in Boards, FullRate(b), NEW u \in Tourists,
           NEW kind \in AlertKinds, NEW z \in Zones \cup {"none"}, NEW sev \in Nat, NEW t \in Int,
           kind \in Warnings => z \in Zones
    PROVE  Sound(Raise(b, u, kind, z, sev, t)) /\ Adds(b, Raise(b, u, kind, z, sev, t), u, kind, z)
<1>1. PICK c : c = Raise(b, u, kind, z, sev, t)
      OBVIOUS
<1>2. PICK deadline : deadline = IF Worthy(kind, sev) THEN (IF t > now THEN t ELSE now) + Timeout ELSE -1
      OBVIOUS
<1>3. PICK a : a = [user |-> u, kind |-> kind, zone |-> z, severity |-> sev, state |-> "Open",
                    first |-> sev, raised |-> t, recorded |-> now, due |-> deadline]
      OBVIOUS
<1>4. a \in AlertRecords
  <2>1. deadline \in Int
        BY <1>2
  <2> QED BY <1>3, <2>1 DEF AlertRecords, AlertFields, States
<1>5. c = [alerts   |-> Append(b.alerts, a),
           active   |-> IF sev >= Serious THEN b.active \cup {u} ELSE b.active,
           computed |-> IF sev >= Serious THEN b.computed \cup {u} ELSE b.computed]
      BY <1>1, <1>2, <1>3 DEF Raise
<1>6. /\ b.alerts \in Seq(AlertRecords) /\ b.active \subseteq Tourists /\ b.computed \subseteq Tourists
      BY DEF Boards
<1>7. PICK k \in Nat : k = Len(b.alerts)
      BY <1>6
<1>8. /\ c.alerts \in Seq(AlertRecords) /\ DOMAIN c.alerts = 1..(k + 1) /\ DOMAIN b.alerts = 1..k
      /\ c.alerts[k + 1] = a /\ \A i \in 1..k : c.alerts[i] = b.alerts[i]
      BY <1>4, <1>5, <1>6, <1>7
<1>9. c \in Boards
      BY <1>5, <1>6, <1>8 DEF Boards
<1>10. Adds(b, c, u, kind, z)
       BY <1>3, <1>5, <1>7, <1>8 DEF Adds
<1>11. ASSUME NEW v PROVE /\ SeriousOpen(b, v) => SeriousOpen(c, v)
                          /\ v # u \/ sev < Serious => (SeriousRaised(c, v) => SeriousRaised(b, v))
                          /\ v = u /\ sev >= Serious => SeriousOpen(c, v)
  <2>1. ASSUME SeriousOpen(b, v) PROVE SeriousOpen(c, v)
    <3>1. PICK i \in 1..k : b.alerts[i].user = v /\ IsOpen(b.alerts[i]) /\ b.alerts[i].severity >= Serious
          BY <1>8, <2>1 DEF SeriousOpen
    <3>2. c.alerts[i] = b.alerts[i] /\ i \in DOMAIN c.alerts
          BY <1>8
    <3> QED BY <3>1, <3>2 DEF SeriousOpen
  <2>2. ASSUME v # u \/ sev < Serious, SeriousRaised(c, v) PROVE SeriousRaised(b, v)
    <3>1. PICK i \in 1..(k + 1) : c.alerts[i].user = v /\ IsOpen(c.alerts[i]) /\ c.alerts[i].first >= Serious
          BY <1>8, <2>2 DEF SeriousRaised
    <3>2. i # k + 1
          BY <1>3, <1>8, <2>2, <3>1 DEF Serious
    <3> QED BY <1>8, <3>1, <3>2 DEF SeriousRaised
  <2>3. ASSUME v = u, sev >= Serious PROVE SeriousOpen(c, v)
    <3>1. IsOpen(a)
          BY <1>3 DEF IsOpen
    <3>2. k + 1 \in DOMAIN c.alerts
          BY <1>8
    <3>3. c.alerts[k + 1].user = v /\ IsOpen(c.alerts[k + 1]) /\ c.alerts[k + 1].severity >= Serious
          BY <1>3, <1>8, <2>3, <3>1
    <3> QED BY <3>2, <3>3 DEF SeriousOpen
  <2> QED BY <2>1, <2>2, <2>3
<1>12. FullRate(c)
  <2>1. CASE sev >= Serious
        BY <1>5, <1>11, <2>1 DEF FullRate, Serious
  <2>2. CASE sev < Serious
        BY <1>5, <1>11, <2>2 DEF FullRate, Serious
  <2> QED BY <2>1, <2>2 DEF Serious
<1> QED BY <1>1, <1>9, <1>10, <1>12 DEF Sound

(* apply_events, for one event: an entry leaves no forecast of it, and any  *)
(* event but a forecast adds none.                                          *)
Applied(b, c, e) ==
    /\ \A v, w : Clear(b, v, w) /\ ~(e.kind \in Warnings /\ v = e.user /\ w = e.zone) => Clear(c, v, w)
    /\ e.kind = "Enter" => Clear(c, e.user, e.zone)
    /\ \A s \in Int : s <= now + Period /\ Timely(b, now, s) => Timely(c, now, s)

Timed == now \in Int /\ severity \in [Zones -> Nat]

LEMMA ApplyFact ==
    ASSUME Timed, NEW b, Sound(b), NEW e \in Events
    PROVE  Sound(Apply(b, e)) /\ Applied(b, Apply(b, e), e)
<1>1. PICK c : c = Apply(b, e)
      OBVIOUS
<1>2. PICK m : m = IF e.kind \in {"Enter", "Exit"} THEN Settle(b, e.user, e.zone) ELSE b
      OBVIOUS
<1>3. c = IF e.kind = "Exit" \/ (e.kind \in Warnings /\ severity[e.zone] < WarningSeverity) THEN m
          ELSE Raise(m, e.user, AlertKind(e.kind), e.zone, severity[e.zone], e.t)
      BY <1>1, <1>2 DEF Apply
<1>4. /\ e.kind \in EventKinds /\ e.user \in Tourists /\ e.zone \in Zones /\ e.t \in Int
      /\ severity[e.zone] \in Nat /\ b \in Boards /\ FullRate(b)
      BY DEF Events, Timed, Sound
<1>5. /\ Sound(m) /\ (\A v, w : Clear(b, v, w) => Clear(m, v, w))
      /\ (\A n, s : Timely(b, n, s) => Timely(m, n, s))
      /\ e.kind = "Enter" => Clear(m, e.user, e.zone)
  <2>1. CASE e.kind \in {"Enter", "Exit"}
    <3>1. m = Settle(b, e.user, e.zone)
          BY <1>2, <2>1
    <3>2. Sound(m) /\ Lessens(b, m) /\ Clear(m, e.user, e.zone)
          BY <1>4, <3>1, SettleFact
    <3> QED BY <3>2, LessensFact
  <2>2. CASE e.kind \notin {"Enter", "Exit"}
        BY <1>2, <2>2
  <2> QED BY <2>1, <2>2
<1>6. PICK kind : kind = AlertKind(e.kind)
      OBVIOUS
<1>7. kind \in AlertKinds /\ (kind \in Warnings <=> e.kind \in Warnings)
      BY <1>4, <1>6 DEF AlertKind, Warnings, EventKinds, AlertKinds
<1>8. CASE c = m
      BY <1>1, <1>3, <1>5, <1>8 DEF Applied
<1>9. CASE c = Raise(m, e.user, kind, e.zone, severity[e.zone], e.t)
  <2>1. m \in Boards /\ FullRate(m)
        BY <1>5 DEF Sound
  <2>2. now \in Int /\ Timeout \in Nat /\ Period \in Nat \ {0} /\ Ttl \in Nat
        BY BoardAssumption DEF BoardAssumption, Timed
  <2>3. e.zone \in Zones \cup {"none"} /\ (kind \in Warnings => e.zone \in Zones)
        BY <1>4
  <2>4. Sound(c) /\ Adds(m, c, e.user, kind, e.zone)
        BY <1>4, <1>7, <1>9, <2>1, <2>2, <2>3, RaiseFact
  <2>5. c \in Boards
        BY <2>4 DEF Sound
  <2>6. /\ \A v, w : Clear(m, v, w) /\ ~(kind \in Warnings /\ v = e.user /\ w = e.zone) => Clear(c, v, w)
        /\ \A s \in Int : s <= now + Period /\ Timely(m, now, s) => Timely(c, now, s)
        BY <2>1, <2>2, <2>4, <2>5, AddsFact
  <2>7. e.kind = "Enter" => kind \notin Warnings
        BY <1>7 DEF Warnings
  <2>8. Applied(b, c, e)
        BY <1>5, <1>7, <2>6, <2>7 DEF Applied
  <2> QED BY <1>1, <2>4, <2>8
<1> QED BY <1>3, <1>6, <1>8, <1>9

-----------------------------------------------------------------------------
(* reconnect: what a device has to tell, event by event.                    *)
ToldBy(c, b, q) ==
    /\ c[0] = b /\ \A n \in 1..Len(q) : c[n] = Apply(c[n - 1], q[n])
    /\ \A n \in 0..Len(q) : Sound(c[n])
    /\ Told(b, q) = c[Len(q)]

LEMMA ToldSolved ==
    ASSUME Timed, NEW b, Sound(b), NEW q \in Seq(Events)
    PROVE  \E c : ToldBy(c, b, q)
<1> DEFINE S == {x \in Boards : Sound(x)}
           n == Len(q)
           f == [a \in (1..n) \X S |-> Apply(a[2], q[a[1]])]
           Solves(c) == c = [d \in 0 .. Len(q) |-> IF d = 0 THEN b ELSE Apply(c[d - 1], q[d])]
           c == CHOOSE c : Solves(c)
<1>1. n \in Nat /\ \A i \in 1..n : q[i] \in Events
      OBVIOUS
<1>2. \A x \in S, e \in Events : Apply(x, e) \in S
      BY ApplyFact DEF Sound
<1>3. b \in S /\ f \in [(1..n) \X S -> S]
  <2> HIDE DEF n
  <2>1. b \in S
        BY DEF Sound
  <2>2. \A a \in (1..n) \X S : Apply(a[2], q[a[1]]) \in S
    <3> HIDE DEF S
    <3> QED BY <1>1, <1>2
  <2> HIDE DEF S
  <2> QED BY <2>1, <2>2
<1>4. PICK g \in [0..n -> S] : Iterates(g, b, f, n)
  <2> HIDE DEF n, f, S
  <2> QED BY <1>1, <1>3, IterationExists
<1>5. \E y : Solves(y)
  <2>1. ASSUME NEW d \in 0..n PROVE g[d] = IF d = 0 THEN b ELSE Apply(g[d - 1], q[d])
    <3> HIDE DEF S, n
    <3>1. CASE d = 0
          BY <1>4, <3>1 DEF Iterates
    <3>2. CASE d # 0
      <4>1. d \in 1..n /\ d - 1 \in 0..n
            BY <1>1, <3>2
      <4>2. g[d - 1] \in S
            BY <4>1
      <4>3. f[<<d, g[d - 1]>>] = Apply(g[d - 1], q[d])
            BY <4>1, <4>2
      <4>4. g[d] = f[<<d, g[d - 1]>>]
        <5> HIDE DEF f
        <5> QED BY <1>4, <3>2 DEF Iterates
      <4> QED BY <3>2, <4>3, <4>4
    <3> QED BY <3>1, <3>2
  <2>2. Solves(g)
    <3> HIDE DEF S
    <3> QED BY <2>1
  <2> HIDE DEF Solves
  <2> QED BY <2>2
<1>6. Solves(c)
  <2> HIDE DEF Solves
  <2> QED BY <1>5
<1>7. Told(b, q) = c[Len(q)]
      BY DEF Told
<1> HIDE DEF c
<1>8. c[0] = b /\ \A d \in 1..n : c[d] = Apply(c[d - 1], q[d])
  <2>1. c[0] = b
        BY <1>1, <1>6
  <2>2. ASSUME NEW d \in 1..n PROVE c[d] = Apply(c[d - 1], q[d])
    <3>1. d \in 0..Len(q) /\ d # 0
          BY <1>1
    <3> QED BY <1>6, <3>1
  <2> QED BY <2>1, <2>2
<1> HIDE DEF Solves, f
<1> DEFINE T == {d \in Nat : d <= n => c[d] \in S}
<1>9. 0 \in T
  <2> HIDE DEF S
  <2> QED BY <1>3, <1>8
<1>10. ASSUME NEW d \in Nat, d \in T PROVE d + 1 \in T
  <2> SUFFICES ASSUME d + 1 <= n PROVE c[d + 1] \in S
      OBVIOUS
  <2> HIDE DEF S
  <2>1. d + 1 \in 1..n /\ (d + 1) - 1 = d /\ c[d] \in S
        BY <1>1, <1>10
  <2>2. q[d + 1] \in Events /\ c[d + 1] = Apply(c[d], q[d + 1])
        BY <1>1, <1>8, <2>1
  <2> QED BY <1>2, <2>1, <2>2
<1>11. Nat \subseteq T
  <2> HIDE DEF T
  <2> QED BY <1>9, <1>10, StepByStep
<1>12. \A d \in 0..n : c[d] \in S
  <2> HIDE DEF S
  <2> QED BY <1>11
<1>13. ToldBy(c, b, q)
       BY <1>7, <1>8, <1>12 DEF ToldBy
<1> QED BY <1>13

(* Nothing told takes an alert off the board.                               *)
LEMMA ApplyGrows ==
    ASSUME Timed, NEW b, Sound(b), NEW e \in Events
    PROVE  DOMAIN b.alerts \subseteq DOMAIN Apply(b, e).alerts
<1>1. PICK m : m = IF e.kind \in {"Enter", "Exit"} THEN Settle(b, e.user, e.zone) ELSE b
      OBVIOUS
<1>2. m \in Boards /\ DOMAIN m.alerts = DOMAIN b.alerts
  <2>1. b \in Boards /\ FullRate(b)
        BY DEF Sound
  <2> QED BY <1>1, <2>1, SettleFact DEF Sound, Lessens
<1>3. ASSUME NEW kind, NEW sev
      PROVE  DOMAIN m.alerts \subseteq DOMAIN Raise(m, e.user, kind, e.zone, sev, e.t).alerts
  <2>1. PICK a : Raise(m, e.user, kind, e.zone, sev, e.t).alerts = Append(m.alerts, a)
        BY DEF Raise
  <2>2. m.alerts \in Seq(AlertRecords)
        BY <1>2 DEF Boards
  <2>3. DOMAIN Append(m.alerts, a) = 1..(Len(m.alerts) + 1) /\ DOMAIN m.alerts = 1..Len(m.alerts)
        /\ Len(m.alerts) \in Nat
        BY <2>2
  <2> QED BY <2>1, <2>3
<1>4. \/ Apply(b, e) = m
      \/ Apply(b, e) = Raise(m, e.user, AlertKind(e.kind), e.zone, severity[e.zone], e.t)
      BY <1>1 DEF Apply
<1> QED BY <1>2, <1>3, <1>4

LEMMA ToldGrows ==
    ASSUME Timed, NEW b, Sound(b), NEW q \in Seq(Events)
    PROVE  DOMAIN b.alerts \subseteq DOMAIN Told(b, q).alerts
<1>1. PICK c : ToldBy(c, b, q)
      BY ToldSolved
<1>2. PICK n \in Nat : n = Len(q) /\ \A i \in 1..n : q[i] \in Events
      OBVIOUS
<1>3. /\ c[0] = b /\ Told(b, q) = c[n] /\ \A d \in 0..n : Sound(c[d])
      /\ \A d \in 1..n : c[d] = Apply(c[d - 1], q[d])
      BY <1>1, <1>2 DEF ToldBy
<1> DEFINE T == {d \in Nat : d <= n => DOMAIN b.alerts \subseteq DOMAIN c[d].alerts}
<1>4. 0 \in T
      BY <1>3
<1>5. ASSUME NEW d \in Nat, d \in T PROVE d + 1 \in T
  <2> SUFFICES ASSUME d + 1 <= n PROVE DOMAIN b.alerts \subseteq DOMAIN c[d + 1].alerts
      OBVIOUS
  <2>1. d \in 0..n /\ d + 1 \in 1..n /\ (d + 1) - 1 = d /\ DOMAIN b.alerts \subseteq DOMAIN c[d].alerts
        BY <1>2, <1>5
  <2>2. Sound(c[d]) /\ q[d + 1] \in Events /\ c[d + 1] = Apply(c[d], q[d + 1])
        BY <1>2, <1>3, <2>1
  <2>3. DOMAIN c[d].alerts \subseteq DOMAIN c[d + 1].alerts
        BY <2>2, ApplyGrows
  <2> QED BY <2>1, <2>3
<1> HIDE DEF T
<1>6. n \in T
      BY <1>4, <1>5, StepByStep
<1> QED BY <1>3, <1>6 DEF T

(* A device inside a zone has an entry to tell after every forecast of it   *)
(* it tells, and some entry unless it was inside already.                   *)
EntersAfter(q, z, n) == \E j \in n + 1 .. Len(q) : q[j].kind = "Enter" /\ q[j].zone = z

Foretold(q, z) ==
    \A i \in 1..Len(q) : q[i].kind \in Warnings /\ q[i].zone = z => EntersAfter(q, z, i)

Mine(q, u) == \A i \in 1..Len(q) : q[i].user = u

LEMMA ToldFact ==
    ASSUME Timed, NEW b, Sound(b), NEW q \in Seq(Events), NEW u, Mine(q, u)
    PROVE  /\ Sound(Told(b, q))
           /\ \A s \in Int : s <= now + Period /\ Timely(b, now, s) => Timely(Told(b, q), now, s)
           /\ \A v, z : v # u /\ Clear(b, v, z) => Clear(Told(b, q), v, z)
           /\ \A z : Foretold(q, z) /\ (Clear(b, u, z) \/ EntersAfter(q, z, 0)) => Clear(Told(b, q), u, z)
<1>1. PICK c : ToldBy(c, b, q)
      BY ToldSolved
<1>2. PICK n \in Nat : n = Len(q) /\ \A i \in 1..n : q[i] \in Events /\ q[i].user = u
      BY DEF Mine
<1>3. /\ c[0] = b /\ Told(b, q) = c[n] /\ \A d \in 0..n : Sound(c[d])
      /\ \A d \in 1..n : c[d] = Apply(c[d - 1], q[d])
      BY <1>1, <1>2 DEF ToldBy
<1>4. ASSUME NEW d \in Nat, d < n PROVE q[d + 1].user = u /\ Applied(c[d], c[d + 1], q[d + 1])
  <2>1. d \in 0..n /\ d + 1 \in 1..n /\ (d + 1) - 1 = d
        BY <1>4
  <2>2. Sound(c[d]) /\ q[d + 1] \in Events /\ c[d + 1] = Apply(c[d], q[d + 1])
        BY <1>2, <1>3, <2>1
  <2>3. Applied(c[d], Apply(c[d], q[d + 1]), q[d + 1])
        BY <2>2, ApplyFact
  <2> QED BY <1>2, <2>1, <2>2, <2>3
<1>5. ASSUME NEW s \in Int, s <= now + Period, Timely(b, now, s) PROVE Timely(c[n], now, s)
  <2> DEFINE T == {d \in Nat : d <= n => Timely(c[d], now, s)}
  <2>1. 0 \in T
        BY <1>3, <1>5
  <2>2. ASSUME NEW d \in Nat, d \in T PROVE d + 1 \in T
        BY <1>2, <1>4, <1>5, <2>2 DEF Applied
  <2> HIDE DEF T
  <2>3. Nat \subseteq T
        BY <2>1, <2>2, StepByStep
  <2> QED BY <2>3 DEF T
<1>6. ASSUME NEW v, NEW z, v # u, Clear(b, v, z) PROVE Clear(c[n], v, z)
  <2> DEFINE T == {d \in Nat : d <= n => Clear(c[d], v, z)}
  <2>1. 0 \in T
        BY <1>3, <1>6
  <2>2. ASSUME NEW d \in Nat, d \in T PROVE d + 1 \in T
    <3> SUFFICES ASSUME d + 1 <= n PROVE Clear(c[d + 1], v, z)
        OBVIOUS
    <3>1. d < n /\ Clear(c[d], v, z)
          BY <1>2, <2>2
    <3>2. q[d + 1].user = u /\ Applied(c[d], c[d + 1], q[d + 1])
          BY <1>4, <3>1
    <3> QED BY <1>6, <3>1, <3>2 DEF Applied
  <2> HIDE DEF T
  <2>3. Nat \subseteq T
        BY <2>1, <2>2, StepByStep
  <2> QED BY <2>3 DEF T
<1>7. ASSUME NEW z, Foretold(q, z), Clear(b, u, z) \/ EntersAfter(q, z, 0) PROVE Clear(c[n], u, z)
  <2> DEFINE T == {d \in Nat : d <= n => Clear(c[d], u, z) \/ EntersAfter(q, z, d)}
  <2>1. 0 \in T
        BY <1>3, <1>7
  <2>2. ASSUME NEW d \in Nat, d \in T PROVE d + 1 \in T
    <3> SUFFICES ASSUME d + 1 <= n PROVE Clear(c[d + 1], u, z) \/ EntersAfter(q, z, d + 1)
        OBVIOUS
    <3>1. PICK e : e = q[d + 1]
          OBVIOUS
    <3>2. d < n /\ d + 1 \in 1..n
          BY <1>2
    <3>3. /\ e.user = u /\ (e.kind = "Enter" => Clear(c[d + 1], e.user, e.zone))
          /\ Clear(c[d], u, z) /\ ~(e.kind \in Warnings /\ u = e.user /\ z = e.zone) => Clear(c[d + 1], u, z)
          BY <1>4, <3>1, <3>2 DEF Applied
    <3>4. CASE e.kind \in Warnings /\ e.zone = z
          BY <1>2, <1>7, <3>1, <3>2, <3>4 DEF Foretold
    <3>5. CASE ~(e.kind \in Warnings /\ e.zone = z) /\ Clear(c[d], u, z)
          BY <3>3, <3>5
    <3>6. CASE EntersAfter(q, z, d)
      <4>1. PICK j \in d + 1 .. n : q[j].kind = "Enter" /\ q[j].zone = z
            BY <1>2, <3>6 DEF EntersAfter
      <4>2. CASE j = d + 1
            BY <3>1, <3>3, <4>1, <4>2
      <4>3. CASE j # d + 1
        <5>1. j \in (d + 1) + 1 .. Len(q)
              BY <1>2, <4>1, <4>3
        <5> QED BY <4>1, <5>1 DEF EntersAfter
      <4> QED BY <4>2, <4>3
    <3>7. Clear(c[d], u, z) \/ EntersAfter(q, z, d)
          BY <2>2, <3>2
    <3> QED BY <3>4, <3>5, <3>6, <3>7
  <2> HIDE DEF T
  <2>3. n \in T
        BY <2>1, <2>2, StepByStep
  <2>4. ~EntersAfter(q, z, n)
        BY <1>2 DEF EntersAfter
  <2> QED BY <2>3, <2>4 DEF T
<1>8. Sound(c[n])
      BY <1>2, <1>3
<1> QED BY <1>3, <1>5, <1>6, <1>7, <1>8

-----------------------------------------------------------------------------
(* The inductive invariant: the platform's own state has its types, the flag *)
(* follows the alerts, warnings are young or newly learnt, no warning stands *)
(* of a zone somebody is in, and a device away has the entry to tell.        *)
BoardTypes ==
    /\ now \in Int /\ sweep \in Int /\ severity \in [Zones -> Nat] /\ Board \in Boards
    /\ stand \in [Tourists -> [Zones -> Standings]] /\ device \in [Tourists -> DeviceRecords]

Outside(b, st) == \A u \in Tourists, z \in Zones : st[u][z] = "Inside" => Clear(b, u, z)

ToTell(d, here, u) ==
    d.away => /\ Mine(d.queue, u)
              /\ \A z \in Zones : d.stand[z] = "Inside" =>
                    Foretold(d.queue, z) /\ (here[z] = "Inside" \/ EntersAfter(d.queue, z, 0))

BoardInv ==
    /\ BoardTypes /\ FullRate(Board) /\ Outside(Board, stand)
    /\ Timely(Board, now, sweep) /\ sweep <= now + Period
    /\ \A u \in Tourists : ToTell(device[u], stand[u], u)

LEMMA BoardInvInit == BoardInit => BoardInv
<1> SUFFICES ASSUME BoardInit PROVE BoardInv
    OBVIOUS
<1>1. Board \in Boards /\ DOMAIN Board.alerts = {} /\ Board.computed = {}
      BY DEF BoardInit, Board, Boards
<1>2. severity \in [Zones -> Nat]
      BY BoardAssumption DEF BoardInit, BoardAssumption
<1>3. NoDevice \in DeviceRecords /\ ~NoDevice.away
      BY DEF NoDevice, DeviceRecords, Standings
<1>4. BoardTypes
  <2> HIDE DEF NoDevice
  <2> QED BY <1>1, <1>2, <1>3 DEF BoardInit, BoardTypes, Standings
<1>5. FullRate(Board) /\ Outside(Board, stand) /\ Timely(Board, now, sweep)
      BY <1>1 DEF FullRate, Outside, Clear, Timely
<1>6. \A u \in Tourists : ToTell(device[u], stand[u], u)
      BY <1>3 DEF ToTell, BoardInit
<1> QED BY <1>4, <1>5, <1>6, BoardAssumption DEF BoardInv, BoardInit, BoardAssumption

(* What holds of the board a handler puts in place of the one there was.    *)
Kept(b) ==
    /\ Sound(b) /\ (\A u, z : Clear(Board, u, z) => Clear(b, u, z))
    /\ Timely(b, now, sweep)

LEMMA PutFact ==
    ASSUME BoardInv, NEW b, Sound(b), Put(b), UNCHANGED <<now, severity, sweep>>, Timely(b, now, sweep),
           stand' \in [Tourists -> [Zones -> Standings]], device' \in [Tourists -> DeviceRecords],
           Outside(b, stand'), \A u \in Tourists : ToTell(device'[u], stand'[u], u)
    PROVE  BoardInv'
<1>1. Board' = b /\ b \in Boards
  <2>1. b = [alerts |-> b.alerts, active |-> b.active, computed |-> b.computed]
        BY DEF Sound, Boards
  <2> QED BY <2>1 DEF Put, Board, Sound
<1>2. BoardTypes'
      BY <1>1 DEF BoardInv, BoardTypes
<1>3. FullRate(Board)'
      BY <1>1 DEF Sound, FullRate, SeriousOpen, SeriousRaised
<1>4. Outside(Board, stand)'
      BY <1>1 DEF Outside, Clear
<1>5. Timely(Board, now, sweep)'
      BY <1>1 DEF Timely, InTime
<1> QED BY <1>2, <1>3, <1>4, <1>5 DEF BoardInv

LEMMA KeptFact ==
    ASSUME BoardInv, NEW b, Kept(b), Put(b), UNCHANGED <<now, severity, stand, device, sweep>>
    PROVE  BoardInv'
<1>1. Outside(b, stand) /\ Sound(b) /\ Timely(b, now, sweep)
      BY DEF BoardInv, Kept, Outside
<1>2. /\ stand' \in [Tourists -> [Zones -> Standings]] /\ device' \in [Tourists -> DeviceRecords]
      /\ Outside(b, stand') /\ \A u \in Tourists : ToTell(device'[u], stand'[u], u)
      BY <1>1 DEF BoardInv, BoardTypes
<1> QED BY <1>1, <1>2, PutFact

LEMMA BoardFacts ==
    ASSUME BoardInv
    PROVE  /\ Timed /\ Sound(Board) /\ Board \in Boards /\ FullRate(Board)
           /\ now \in Int /\ sweep \in Int /\ Timely(Board, now, sweep) /\ sweep <= now + Period
           /\ Ttl \in Nat /\ Timeout \in Nat /\ Period \in Nat \ {0} /\ DOMAIN alerts = DOMAIN Board.alerts
BY BoardAssumption DEF BoardAssumption, BoardInv, BoardTypes, Timed, Sound, Board

(* An answered signal-lost alert.                                           *)
LEMMA LostFact ==
    ASSUME NEW u, NEW b, Sound(b), DOMAIN alerts \subseteq DOMAIN b.alerts
    PROVE  Sound(SetStates(b, Lost(u), "Resolved")) /\ Lessens(b, SetStates(b, Lost(u), "Resolved"))
<1>1. Lost(u) \in SUBSET DOMAIN b.alerts /\ "Resolved" \in States
      BY DEF Lost, States
<1> QED BY <1>1, SetStatesFact DEF Sound

LEMMA FixInv ==
    ASSUME BoardInv, NEW u \in Tourists, NEW z \in Zones, Fix(u, z)
    PROVE  BoardInv'
<1>1. PICK m \in Moves :
         /\ m[1] = stand[u][z] /\ stand' = [stand EXCEPT ![u][z] = m[3]]
         /\ \E b \in {SetStates(Board, Lost(u), "Resolved")} :
               Put(IF m[2] = "Nothing" THEN b
                   ELSE Apply(b, [kind |-> m[2], user |-> u, zone |-> z, t |-> now]))
      BY DEF Fix
<1>2. PICK b : b = SetStates(Board, Lost(u), "Resolved")
      OBVIOUS
<1>3. PICK e : e = [kind |-> m[2], user |-> u, zone |-> z, t |-> now]
      OBVIOUS
<1>4. PICK c : c = IF m[2] = "Nothing" THEN b ELSE Apply(b, e)
      OBVIOUS
<1>5. /\ UNCHANGED <<now, severity, device, sweep>> /\ ~device[u].away /\ Put(c)
      BY <1>1, <1>2, <1>3, <1>4 DEF Fix
<1>6. Sound(b) /\ Lessens(Board, b)
      BY <1>2, BoardFacts, LostFact
<1>7. /\ m[3] \in Standings /\ (m[2] # "Nothing" => m[2] \in EventKinds)
      /\ m[3] = "Inside" => m[2] = "Enter" \/ (m[1] = "Inside" /\ m[2] \notin Warnings)
      BY DEF Moves, Standings, EventKinds, Warnings
<1>8. /\ Sound(c) /\ Timely(c, now, sweep)
      /\ \A v, w : Clear(Board, v, w) /\ ~(m[2] \in Warnings /\ v = u /\ w = z) => Clear(c, v, w)
      /\ m[2] = "Enter" => Clear(c, u, z)
  <2>1. (\A v, w : Clear(Board, v, w) => Clear(b, v, w)) /\ Timely(b, now, sweep)
        BY <1>6, LessensFact, BoardFacts
  <2>2. CASE m[2] = "Nothing"
        BY <1>4, <1>6, <2>1, <2>2
  <2>3. CASE m[2] # "Nothing"
    <3>1. e \in Events /\ e.kind = m[2] /\ e.user = u /\ e.zone = z
          BY <1>3, <1>7, <2>3, BoardFacts DEF Events
    <3>2. Sound(c) /\ Applied(b, c, e)
      <4>1. Timed
            BY BoardFacts
      <4> QED BY <1>4, <1>6, <2>3, <3>1, <4>1, ApplyFact
    <3> QED BY <2>1, <3>1, <3>2, BoardFacts DEF Applied
  <2> QED BY <2>2, <2>3
<1>9. /\ stand' \in [Tourists -> [Zones -> Standings]] /\ stand'[u][z] = m[3]
      /\ \A v \in Tourists, w \in Zones : v # u \/ w # z => stand'[v][w] = stand[v][w]
      /\ \A v \in Tourists : v # u => stand'[v] = stand[v]
  <2>1. stand \in [Tourists -> [Zones -> Standings]]
        BY DEF BoardInv, BoardTypes
  <2> QED BY <1>1, <1>7, <2>1
<1>10. Outside(c, stand')
  <2> SUFFICES ASSUME NEW v \in Tourists, NEW w \in Zones, stand'[v][w] = "Inside" PROVE Clear(c, v, w)
      BY DEF Outside
  <2>1. CASE v = u /\ w = z
    <3>1. m[2] = "Enter" \/ (stand[v][w] = "Inside" /\ m[2] \notin Warnings)
          BY <1>1, <1>7, <1>9, <2>1
    <3>2. stand[v][w] = "Inside" => Clear(Board, v, w)
          BY DEF BoardInv, Outside
    <3> QED BY <1>8, <2>1, <3>1, <3>2
  <2>2. CASE ~(v = u /\ w = z)
    <3>1. Clear(Board, v, w)
          BY <1>9, <2>2 DEF BoardInv, Outside
    <3> QED BY <1>8, <2>2, <3>1
  <2> QED BY <2>1, <2>2
<1>11. \A v \in Tourists : ToTell(device'[v], stand'[v], v)
  <2> SUFFICES ASSUME NEW v \in Tourists PROVE ToTell(device[v], stand'[v], v)
      BY <1>5
  <2>1. CASE v = u
        BY <1>5, <2>1 DEF ToTell
  <2>2. CASE v # u
        BY <1>9, <2>2 DEF BoardInv
  <2> QED BY <2>1, <2>2
<1>12. device' \in [Tourists -> DeviceRecords]
       BY <1>5 DEF BoardInv, BoardTypes
<1> QED BY <1>5, <1>8, <1>9, <1>10, <1>11, <1>12, PutFact

LEMMA CallInv ==
    ASSUME BoardInv, NEW u \in Tourists, Call(u)
    PROVE  BoardInv'
<1>1. PICK kind \in {"Sos", "SignalLost"}, sev \in {5, 3} : Put(Raise(Board, u, kind, "none", sev, now))
      BY DEF Call, Serious
<1>2. PICK b : b = Raise(Board, u, kind, "none", sev, now)
      OBVIOUS
<1>3. Sound(b) /\ Adds(Board, b, u, kind, "none") /\ kind \notin Warnings
  <2>1. kind \in AlertKinds /\ kind \notin Warnings /\ sev \in Nat
        BY DEF AlertKinds, Warnings
  <2>2. Board \in Boards /\ FullRate(Board) /\ now \in Int /\ Timeout \in Nat
        BY BoardFacts
  <2> QED BY <1>2, <2>1, <2>2, RaiseFact
<1>4. Kept(b)
      BY <1>3, AddsFact, BoardFacts DEF Kept, Sound
<1> QED BY <1>1, <1>2, <1>4, KeptFact DEF Call

LEMMA OperateInv ==
    ASSUME BoardInv, Operate
    PROVE  BoardInv'
<1>1. PICK i \in DOMAIN alerts, st \in {"Acknowledged", "Resolved"} :
         IsOpen(alerts[i]) /\ Put(SetStates(Board, {i}, st))
      BY DEF Operate
<1>2. PICK b : b = SetStates(Board, {i}, st)
      OBVIOUS
<1>3. Sound(b) /\ Lessens(Board, b)
  <2>1. Board \in Boards /\ FullRate(Board) /\ {i} \in SUBSET DOMAIN Board.alerts
        BY BoardFacts
  <2>2. st \in States /\ (st # "Resolved" => st = "Acknowledged" /\ \A j \in {i} : IsOpen(Board.alerts[j]))
        BY <1>1 DEF States, Board
  <2> QED BY <1>2, <2>1, <2>2, SetStatesFact
<1>4. Kept(b)
      BY <1>3, LessensFact, BoardFacts DEF Kept
<1> QED BY <1>1, <1>2, <1>4, KeptFact DEF Operate

(* The steps that leave the board alone.                                    *)
LEMMA AsideFact ==
    ASSUME BoardInv, UNCHANGED <<now, severity, alerts, active, computed, sweep>>,
           stand' \in [Tourists -> [Zones -> Standings]], device' \in [Tourists -> DeviceRecords],
           Outside(Board, stand'), \A u \in Tourists : ToTell(device'[u], stand'[u], u)
    PROVE  BoardInv'
<1>1. Put(Board)
      BY DEF Put, Board
<1>2. Sound(Board) /\ Timely(Board, now, sweep)
      BY DEF BoardInv, BoardTypes, Sound
<1> QED BY <1>1, <1>2, PutFact

LEMMA LeaveInv ==
    ASSUME BoardInv, NEW u \in Tourists, Leave(u)
    PROVE  BoardInv'
<1>1. PICK d : d = [away |-> TRUE, active |-> u \in active, stand |-> stand[u], queue |-> <<>>]
      OBVIOUS
<1>2. /\ device' = [device EXCEPT ![u] = d] /\ stand' = stand
      /\ UNCHANGED <<now, severity, alerts, active, computed, sweep>>
      BY <1>1 DEF Leave
<1>3. stand \in [Tourists -> [Zones -> Standings]] /\ device \in [Tourists -> DeviceRecords]
      BY DEF BoardInv, BoardTypes
<1>4. d \in DeviceRecords
  <2>1. stand[u] \in [Zones -> Standings] /\ (u \in active) \in BOOLEAN
        BY <1>3
  <2> QED BY <1>1, <2>1 DEF DeviceRecords
<1>5. ToTell(d, stand[u], u)
      BY <1>1 DEF ToTell, Mine, Foretold
<1>6. device' \in [Tourists -> DeviceRecords]
      BY <1>2, <1>3, <1>4
<1>7. \A v \in Tourists : ToTell(device'[v], stand'[v], v)
  <2>1. \A v \in Tourists : device'[v] = IF v = u THEN d ELSE device[v]
        BY <1>2, <1>3
  <2> QED BY <1>2, <1>5, <2>1 DEF BoardInv
<1> QED BY <1>2, <1>3, <1>6, <1>7, AsideFact DEF BoardInv

LEMMA RenewInv ==
    ASSUME BoardInv, NEW u \in Tourists, Renew(u)
    PROVE  BoardInv'
<1>1. /\ stand' = [stand EXCEPT ![u] = NoDevice.stand] /\ device' = [device EXCEPT ![u] = NoDevice]
      /\ UNCHANGED <<now, severity, alerts, active, computed, sweep>>
      BY DEF Renew
<1>2. stand \in [Tourists -> [Zones -> Standings]] /\ device \in [Tourists -> DeviceRecords]
      BY DEF BoardInv, BoardTypes
<1>3. /\ NoDevice \in DeviceRecords /\ ~NoDevice.away
      /\ NoDevice.stand \in [Zones -> Standings] /\ \A z \in Zones : NoDevice.stand[z] # "Inside"
      BY DEF NoDevice, DeviceRecords, Standings
<1> HIDE DEF NoDevice
<1>4. /\ stand' \in [Tourists -> [Zones -> Standings]] /\ device' \in [Tourists -> DeviceRecords]
      /\ \A v \in Tourists : stand'[v] = IF v = u THEN NoDevice.stand ELSE stand[v]
      /\ \A v \in Tourists : device'[v] = IF v = u THEN NoDevice ELSE device[v]
      BY <1>1, <1>2, <1>3
<1>5. Outside(Board, stand')
      BY <1>3, <1>4 DEF BoardInv, Outside
<1>6. \A v \in Tourists : ToTell(device'[v], stand'[v], v)
      BY <1>3, <1>4 DEF BoardInv, ToTell
<1> QED BY <1>1, <1>4, <1>5, <1>6, AsideFact

(* One more event to tell.                                                  *)
LEMMA AppendedFact ==
    ASSUME NEW q \in Seq(Events), NEW e \in Events, NEW z
    PROVE  /\ \A u : Mine(q, u) /\ e.user = u => Mine(Append(q, e), u)
           /\ \A n \in Nat : EntersAfter(q, z, n) => EntersAfter(Append(q, e), z, n)
           /\ Foretold(q, z) /\ ~(e.kind \in Warnings /\ e.zone = z) => Foretold(Append(q, e), z)
           /\ e.kind = "Enter" /\ e.zone = z =>
                 Foretold(Append(q, e), z) /\ EntersAfter(Append(q, e), z, 0)
<1>1. PICK n \in Nat : n = Len(q)
      OBVIOUS
<1>2. PICK r : r = Append(q, e)
      OBVIOUS
<1>3. Len(r) = n + 1 /\ r[n + 1] = e /\ \A i \in 1..n : r[i] = q[i]
      BY <1>1, <1>2
<1>4. \A u : Mine(q, u) /\ e.user = u => Mine(r, u)
      BY <1>1, <1>3 DEF Mine
<1>5. ASSUME NEW m \in Nat, EntersAfter(q, z, m) PROVE EntersAfter(r, z, m)
  <2>1. PICK j \in m + 1 .. n : q[j].kind = "Enter" /\ q[j].zone = z
        BY <1>1, <1>5 DEF EntersAfter
  <2>2. j \in m + 1 .. Len(r) /\ r[j] = q[j]
        BY <1>3
  <2> QED BY <2>1, <2>2 DEF EntersAfter
<1>6. ASSUME Foretold(q, z), ~(e.kind \in Warnings /\ e.zone = z) PROVE Foretold(r, z)
  <2> SUFFICES ASSUME NEW i \in 1..Len(r), r[i].kind \in Warnings, r[i].zone = z
               PROVE  EntersAfter(r, z, i)
      BY DEF Foretold
  <2>1. i \in 1..n /\ r[i] = q[i] /\ i \in Nat
        BY <1>3, <1>6
  <2>2. EntersAfter(q, z, i)
        BY <1>1, <1>6, <2>1 DEF Foretold
  <2> QED BY <1>5, <2>1, <2>2
<1>7. ASSUME e.kind = "Enter", e.zone = z PROVE Foretold(r, z) /\ EntersAfter(r, z, 0)
  <2>1. ASSUME NEW i \in 0..n PROVE EntersAfter(r, z, i)
    <3>1. n + 1 \in i + 1 .. Len(r) /\ r[n + 1].kind = "Enter" /\ r[n + 1].zone = z
          BY <1>3, <1>7
    <3> QED BY <3>1 DEF EntersAfter
  <2>2. ASSUME NEW i \in 1..Len(r), r[i].kind \in Warnings PROVE EntersAfter(r, z, i)
    <3>1. i # n + 1
          BY <1>3, <1>7, <2>2 DEF Warnings
    <3>2. i \in 0..n
          BY <1>3, <3>1
    <3> QED BY <2>1, <3>2
  <2> QED BY <2>1, <2>2 DEF Foretold
<1> QED BY <1>2, <1>4, <1>5, <1>6, <1>7

LEMMA DeviceFixInv ==
    ASSUME BoardInv, NEW u \in Tourists, NEW z \in Zones, DeviceFix(u, z)
    PROVE  BoardInv'
<1>1. PICK m \in Moves :
         /\ m[1] = device[u].stand[z] /\ (m[2] = "Nothing" => m[3] # m[1])
         /\ device' = [device EXCEPT ![u].stand[z] = m[3],
                ![u].queue = IF m[2] = "Nothing" THEN @
                  ELSE Append(@, [kind |-> m[2], user |-> u, zone |-> z, t |-> now])]
      BY DEF DeviceFix
<1>2. PICK e : e = [kind |-> m[2], user |-> u, zone |-> z, t |-> now]
      OBVIOUS
<1>3. /\ UNCHANGED <<now, severity, alerts, active, computed, stand, sweep>> /\ device[u].away
      BY DEF DeviceFix
<1>4. /\ device \in [Tourists -> DeviceRecords] /\ stand \in [Tourists -> [Zones -> Standings]] /\ now \in Int
      BY DEF BoardInv, BoardTypes
<1>5. /\ m[3] \in Standings /\ (m[2] # "Nothing" => m[2] \in EventKinds)
      /\ m[3] = "Inside" => m[2] = "Enter" \/ (m[1] = "Inside" /\ m[2] = "Dwell")
      BY <1>1 DEF Moves, Standings, EventKinds
<1>6. PICK d : d = device[u]
      OBVIOUS
<1>7. PICK q : q = IF m[2] = "Nothing" THEN d.queue ELSE Append(d.queue, e)
      OBVIOUS
<1>8. PICK f : f = [d EXCEPT !.stand = [d.stand EXCEPT ![z] = m[3]], !.queue = q]
      OBVIOUS
<1>9. /\ d \in DeviceRecords /\ d.stand \in [Zones -> Standings] /\ d.queue \in Seq(Events) /\ d.away
      BY <1>3, <1>4, <1>6 DEF DeviceRecords
<1>10. /\ device' = [device EXCEPT ![u] = f]
  <2>1. device' = [device EXCEPT ![u].stand[z] = m[3], ![u].queue = q]
        BY <1>1, <1>2, <1>6, <1>7
  <2> QED BY <1>6, <1>8, <1>9, <2>1
<1>11. m[2] # "Nothing" => e \in Events
       BY <1>2, <1>4, <1>5 DEF Events
<1>12. q \in Seq(Events)
       BY <1>7, <1>9, <1>11
<1>13. /\ f \in DeviceRecords /\ f.stand \in [Zones -> Standings] /\ f.queue = q /\ f.away
       /\ f.stand[z] = m[3] /\ \A w \in Zones : w # z => f.stand[w] = d.stand[w]
       BY <1>5, <1>8, <1>9, <1>12 DEF DeviceRecords
<1>14. ToTell(d, stand[u], u)
       BY <1>6 DEF BoardInv
<1>15. ToTell(f, stand[u], u)
  <2>1. CASE m[2] = "Nothing"
    <3>1. q = d.queue /\ m[3] # "Inside"
          BY <1>5, <1>7, <2>1
    <3> QED BY <1>9, <1>13, <1>14, <3>1 DEF ToTell
  <2>2. CASE m[2] # "Nothing"
    <3>1. q = Append(d.queue, e) /\ e \in Events /\ e.user = u /\ e.kind = m[2] /\ e.zone = z
          BY <1>2, <1>7, <1>11, <2>2
    <3>2. Mine(d.queue, u)
          BY <1>9, <1>14 DEF ToTell
    <3>3. Mine(q, u)
          BY <1>9, <3>1, <3>2, AppendedFact
    <3>4. ASSUME NEW w \in Zones, f.stand[w] = "Inside"
          PROVE  Foretold(q, w) /\ (stand[u][w] = "Inside" \/ EntersAfter(q, w, 0))
      <4>1. CASE w = z /\ e.kind = "Enter"
            BY <1>9, <3>1, <4>1, AppendedFact
      <4>2. CASE ~(w = z /\ e.kind = "Enter")
        <5>1. d.stand[w] = "Inside" /\ ~(e.kind \in Warnings /\ e.zone = w)
              BY <1>1, <1>5, <1>6, <1>13, <3>1, <3>4, <4>2 DEF Warnings
        <5>2. Foretold(d.queue, w) /\ (stand[u][w] = "Inside" \/ EntersAfter(d.queue, w, 0))
              BY <1>9, <1>14, <5>1 DEF ToTell
        <5>3. Foretold(q, w)
              BY <1>9, <3>1, <5>1, <5>2, AppendedFact
        <5>4. EntersAfter(d.queue, w, 0) => EntersAfter(q, w, 0)
              BY <1>9, <3>1, AppendedFact
        <5> QED BY <5>2, <5>3, <5>4
      <4> QED BY <4>1, <4>2
    <3> QED BY <1>13, <3>3, <3>4 DEF ToTell
  <2> QED BY <2>1, <2>2
<1>16. device' \in [Tourists -> DeviceRecords] /\ \A v \in Tourists : device'[v] = IF v = u THEN f ELSE device[v]
       BY <1>4, <1>10, <1>13
<1>17. \A v \in Tourists : ToTell(device'[v], stand'[v], v)
       BY <1>3, <1>15, <1>16 DEF BoardInv
<1> QED BY <1>3, <1>4, <1>16, <1>17, AsideFact DEF BoardInv

(* reconnect: what the device tells leaves no forecast of a zone it is in.  *)
LEMMA ReconnectInv ==
    ASSUME BoardInv, NEW u \in Tourists, Reconnect(u)
    PROVE  BoardInv'
<1>1. PICK d : d = device[u]
      OBVIOUS
<1>2. PICK late : late = Told(Board, d.queue)
      OBVIOUS
<1>3. PICK back : back = [late EXCEPT !.active = IF d.active THEN @ \cup {u} ELSE @ \ {u},
                                      !.computed = @ \ {u}]
      OBVIOUS
<1>4. PICK b : b = SetStates(back, Lost(u), "Resolved")
      OBVIOUS
<1>5. /\ d.away /\ Put(b) /\ UNCHANGED <<now, severity, sweep>>
      /\ stand' = [stand EXCEPT ![u] = d.stand] /\ device' = [device EXCEPT ![u] = NoDevice]
      BY <1>1, <1>2, <1>3, <1>4 DEF Reconnect
<1>6. stand \in [Tourists -> [Zones -> Standings]] /\ device \in [Tourists -> DeviceRecords]
      BY DEF BoardInv, BoardTypes
<1>7. /\ d.queue \in Seq(Events) /\ d.stand \in [Zones -> Standings] /\ d.active \in BOOLEAN
      BY <1>1, <1>6 DEF DeviceRecords
<1>8. /\ Mine(d.queue, u)
      /\ \A z \in Zones : d.stand[z] = "Inside" =>
            Foretold(d.queue, z) /\ (stand[u][z] = "Inside" \/ EntersAfter(d.queue, z, 0))
      BY <1>1, <1>5 DEF BoardInv, ToTell
<1>9. /\ Sound(late) /\ Timely(late, now, sweep)
      /\ \A v, z : v # u /\ Clear(Board, v, z) => Clear(late, v, z)
      /\ \A z : Foretold(d.queue, z) /\ (Clear(Board, u, z) \/ EntersAfter(d.queue, z, 0)) => Clear(late, u, z)
  <2>1. /\ Timed /\ Sound(Board) /\ sweep \in Int /\ sweep <= now + Period /\ Timely(Board, now, sweep)
        BY BoardFacts
  <2>2. /\ Sound(late)
        /\ \A s \in Int : s <= now + Period /\ Timely(Board, now, s) => Timely(late, now, s)
        /\ \A v, z : v # u /\ Clear(Board, v, z) => Clear(late, v, z)
        /\ \A z : Foretold(d.queue, z) /\ (Clear(Board, u, z) \/ EntersAfter(d.queue, z, 0))
                 => Clear(late, u, z)
        BY <1>2, <1>7, <1>8, <2>1, ToldFact
  <2> QED BY <2>1, <2>2
<1>10. /\ back \in Boards /\ back.alerts = late.alerts /\ back.computed = late.computed \ {u}
       /\ \A v : v # u => (v \in back.active <=> v \in late.active)
       BY <1>3, <1>7, <1>9 DEF Sound, Boards
<1>11. Sound(back)
       BY <1>9, <1>10 DEF Sound, FullRate, SeriousOpen, SeriousRaised
<1>12. (\A v, z : Clear(late, v, z) => Clear(back, v, z)) /\ Timely(back, now, sweep)
       BY <1>9, <1>10 DEF Clear, Timely
<1>13. DOMAIN alerts \subseteq DOMAIN back.alerts
       BY <1>2, <1>7, <1>8, <1>10, ToldGrows, BoardFacts DEF Board
<1>14. Sound(b) /\ Lessens(back, b)
       BY <1>4, <1>11, <1>13, LostFact
<1>15. (\A v, z : Clear(back, v, z) => Clear(b, v, z)) /\ Timely(b, now, sweep)
       BY <1>12, <1>14, LessensFact
<1>16. NoDevice \in DeviceRecords /\ ~NoDevice.away
       BY DEF NoDevice, DeviceRecords, Standings
<1> HIDE DEF NoDevice
<1>17. /\ stand' \in [Tourists -> [Zones -> Standings]] /\ device' \in [Tourists -> DeviceRecords]
       /\ \A v \in Tourists : stand'[v] = IF v = u THEN d.stand ELSE stand[v]
       /\ \A v \in Tourists : device'[v] = IF v = u THEN NoDevice ELSE device[v]
       BY <1>5, <1>6, <1>7, <1>16
<1>18. Outside(b, stand')
  <2> SUFFICES ASSUME NEW v \in Tourists, NEW z \in Zones, stand'[v][z] = "Inside" PROVE Clear(late, v, z)
      BY <1>12, <1>15 DEF Outside
  <2>1. stand[v][z] = "Inside" => Clear(Board, v, z)
        BY DEF BoardInv, Outside
  <2>2. CASE v = u
        BY <1>8, <1>9, <1>17, <2>1, <2>2
  <2>3. CASE v # u
        BY <1>9, <1>17, <2>1, <2>3
  <2> QED BY <2>2, <2>3
<1>19. \A v \in Tourists : ToTell(device'[v], stand'[v], v)
       BY <1>16, <1>17 DEF BoardInv, ToTell
<1> QED BY <1>5, <1>14, <1>15, <1>17, <1>18, <1>19, PutFact

(* escalate.                                                                *)
LEMMA EscalatedFact ==
    ASSUME NEW b, Sound(b), NEW n
    PROVE  Sound(Escalated(b, n)) /\ Lessens(b, Escalated(b, n))
<1> DEFINE next == [i \in DOMAIN b.alerts |->
              IF b.alerts[i].state = "Open" /\ b.alerts[i].due >= 0 /\ b.alerts[i].due <= n
              THEN [b.alerts[i] EXCEPT !.due = -1,
                      !.severity = IF b.alerts[i].severity < 5 THEN b.alerts[i].severity + 1
                                   ELSE b.alerts[i].severity]
              ELSE b.alerts[i]]
<1>1. PICK c : c = Escalated(b, n)
      OBVIOUS
<1>2. PICK m \in Nat : DOMAIN b.alerts = 1..m /\ \A i \in 1..m : b.alerts[i] \in AlertRecords
  <2>1. b.alerts \in Seq(AlertRecords)
        BY DEF Boards, Sound
  <2>2. Len(b.alerts) \in Nat /\ DOMAIN b.alerts = 1..Len(b.alerts)
        /\ \A i \in 1..Len(b.alerts) : b.alerts[i] \in AlertRecords
        BY <2>1
  <2> QED BY <2>2
<1>3. ASSUME NEW i \in 1..m
      PROVE  /\ next[i] \in AlertRecords
             /\ next[i].user = b.alerts[i].user /\ next[i].kind = b.alerts[i].kind
             /\ next[i].zone = b.alerts[i].zone /\ next[i].raised = b.alerts[i].raised
             /\ next[i].recorded = b.alerts[i].recorded /\ next[i].state = b.alerts[i].state
             /\ next[i].first = b.alerts[i].first /\ next[i].severity >= b.alerts[i].severity
  <2>1. PICK a \in AlertRecords : a = b.alerts[i]
        BY <1>2
  <2>2. PICK s : s = IF a.severity < 5 THEN a.severity + 1 ELSE a.severity
        OBVIOUS
  <2>3. next[i] = IF a.state = "Open" /\ a.due >= 0 /\ a.due <= n
                  THEN [a EXCEPT !.due = -1, !.severity = s] ELSE a
        BY <1>2, <2>1, <2>2
  <2>4. s \in Nat /\ s >= a.severity /\ a.first <= s /\ a.first \in Nat /\ a.severity \in Nat
        BY <2>2 DEF AlertRecords, AlertFields
  <2> HIDE DEF next
  <2>5. CASE next[i] = a
        BY <2>1, <2>4, <2>5
  <2>6. CASE next[i] = [a EXCEPT !.due = -1, !.severity = s]
    <3>1. PICK x : x = [a EXCEPT !.due = -1, !.severity = s]
          OBVIOUS
    <3>2. /\ x.user = a.user /\ x.kind = a.kind /\ x.zone = a.zone /\ x.severity = s /\ x.state = a.state
          /\ x.first = a.first /\ x.raised = a.raised /\ x.recorded = a.recorded /\ x \in AlertFields
      <4>1. a \in AlertFields /\ -1 \in Int
            BY DEF AlertRecords
      <4>2. PICK y : y = [a EXCEPT !.due = -1]
            OBVIOUS
      <4>3. /\ y.user = a.user /\ y.kind = a.kind /\ y.zone = a.zone /\ y.state = a.state
            /\ y.first = a.first /\ y.raised = a.raised /\ y.recorded = a.recorded
            /\ y \in AlertFields
            BY <4>1, <4>2 DEF AlertFields
      <4>4. x = [y EXCEPT !.severity = s]
            BY <3>1, <4>1, <4>2 DEF AlertFields
      <4>5. s \in Nat
            BY <2>4
      <4>6. /\ x.user = y.user /\ x.kind = y.kind /\ x.zone = y.zone /\ x.state = y.state
            /\ x.first = y.first /\ x.raised = y.raised /\ x.recorded = y.recorded
            /\ x.severity = s /\ x \in AlertFields
            BY <4>3, <4>4, <4>5 DEF AlertFields
      <4> QED BY <4>3, <4>6
    <3>3. x \in AlertRecords
          BY <2>4, <3>2 DEF AlertRecords, AlertFields
    <3> QED BY <2>1, <2>4, <2>6, <3>1, <3>2, <3>3
  <2> QED BY <2>3, <2>5, <2>6
<1>4. next \in Seq(AlertRecords) /\ DOMAIN next = 1..m
  <2>1. next \in [1..m -> AlertRecords]
        BY <1>2, <1>3
  <2> HIDE DEF next
  <2>2. DOMAIN next = 1..m
        BY <2>1
  <2> QED BY <2>1, <2>2
<1>5. c = [b EXCEPT !.alerts = next]
      BY <1>1 DEF Escalated
<1> HIDE DEF next
<1>6. c.alerts = next /\ c.active = b.active /\ c.computed = b.computed /\ c \in Boards
      BY <1>4, <1>5 DEF Sound, Boards
<1>7. Lessens(b, c)
      BY <1>2, <1>3, <1>4, <1>6 DEF Lessens, IsOpen
<1>8. ASSUME NEW u PROVE /\ SeriousOpen(b, u) => SeriousOpen(c, u)
                         /\ SeriousRaised(c, u) => SeriousRaised(b, u)
  <2>1. \A i \in 1..m : /\ next[i].severity \in Nat /\ b.alerts[i].severity \in Nat
                       /\ next[i].first = b.alerts[i].first
        BY <1>2, <1>3 DEF AlertRecords, AlertFields
  <2>2. ASSUME SeriousOpen(b, u) PROVE SeriousOpen(c, u)
    <3>1. PICK i \in 1..m : b.alerts[i].user = u /\ IsOpen(b.alerts[i]) /\ b.alerts[i].severity >= Serious
          BY <1>2, <2>2 DEF SeriousOpen
    <3>2. next[i].user = u /\ IsOpen(next[i]) /\ next[i].severity >= Serious
          BY <1>3, <2>1, <3>1 DEF IsOpen, Serious
    <3> QED BY <1>4, <1>6, <3>2 DEF SeriousOpen
  <2>3. SeriousRaised(c, u) => SeriousRaised(b, u)
        BY <1>2, <1>3, <1>4, <1>6 DEF SeriousRaised, IsOpen
  <2> QED BY <2>2, <2>3
<1>9. FullRate(c)
      BY <1>6, <1>8 DEF Sound, FullRate
<1> QED BY <1>1, <1>6, <1>7, <1>9 DEF Sound

(* expire_warnings: the warnings left untaken are young.                    *)
LEMMA ExpiredFact ==
    ASSUME NEW b, Sound(b), NEW n \in Int
    PROVE  Sound(Expired(b, n)) /\ Lessens(b, Expired(b, n)) /\ Timely(Expired(b, n), n, n + Period)
<1> DEFINE which == {i \in DOMAIN b.alerts :
                       /\ b.alerts[i].kind \in Warnings /\ b.alerts[i].state = "Open"
                       /\ n - b.alerts[i].raised > Ttl}
<1>1. PICK c : c = SetStates(b, which, "Resolved")
      OBVIOUS
<1>2. c = Expired(b, n)
      BY <1>1 DEF Expired
<1>3. /\ Sound(c) /\ Lessens(b, c)
      /\ \A i \in DOMAIN b.alerts : c.alerts[i].state = IF i \in which THEN "Resolved" ELSE b.alerts[i].state
  <2>1. which \in SUBSET DOMAIN b.alerts /\ "Resolved" \in States
        BY DEF States
  <2>2. b \in Boards /\ FullRate(b)
        BY DEF Sound
  <2> HIDE DEF which
  <2> QED BY <1>1, <2>1, <2>2, SetStatesFact
<1>4. Timely(c, n, n + Period)
  <2> SUFFICES ASSUME NEW i \in DOMAIN c.alerts, Untaken(c.alerts[i]) PROVE InTime(c.alerts[i], n, n + Period)
      BY DEF Timely
  <2>1. /\ i \in DOMAIN b.alerts /\ b.alerts[i].kind \in Warnings /\ b.alerts[i].state = "Open"
        /\ c.alerts[i].raised = b.alerts[i].raised
        BY <1>3 DEF Lessens, Untaken
  <2>2. i \notin which
        BY <1>3, <2>1 DEF Untaken
  <2>3. b.alerts[i].raised \in Int
    <3>1. b.alerts \in Seq(AlertRecords)
          BY DEF Sound, Boards
    <3>2. b.alerts[i] \in AlertRecords
          BY <2>1, <3>1
    <3> QED BY <3>2 DEF AlertRecords, AlertFields
  <2>4. ~(n - b.alerts[i].raised > Ttl)
        BY <2>1, <2>2
  <2> QED BY <2>1, <2>3, <2>4, BoardAssumption DEF InTime, BoardAssumption
<1> QED BY <1>2, <1>3, <1>4

LEMMA TickInv ==
    ASSUME BoardInv, Tick
    PROVE  BoardInv'
<1>1. PICK n \in now + 1 .. MaxTime :
         /\ now' = n
         /\ Put(IF n >= sweep THEN Expired(Escalated(Board, n), n) ELSE Escalated(Board, n))
         /\ sweep' = IF n >= sweep THEN n + Period ELSE sweep
         /\ UNCHANGED <<severity, stand, device, trips>>
      BY DEF Tick
<1>2. PICK e : e = Escalated(Board, n)
      OBVIOUS
<1>3. PICK b : b = IF n >= sweep THEN Expired(e, n) ELSE e
      OBVIOUS
<1>4. /\ now \in Int /\ sweep \in Int /\ n \in Int /\ n > now /\ Period \in Nat \ {0} /\ Ttl \in Nat
      /\ Sound(Board) /\ Timely(Board, now, sweep) /\ sweep <= now + Period
      BY <1>1, BoardFacts, BoardAssumption DEF BoardAssumption
<1>5. Sound(e) /\ Lessens(Board, e)
      BY <1>2, <1>4, EscalatedFact
<1>6. /\ Sound(b) /\ Lessens(Board, b) /\ Timely(b, n, sweep') /\ sweep' \in Int /\ sweep' <= n + Period
  <2>1. CASE n >= sweep
    <3>1. Sound(b) /\ Lessens(e, b) /\ Timely(b, n, n + Period)
          BY <1>3, <1>4, <1>5, <2>1, ExpiredFact
    <3> QED BY <1>1, <1>4, <1>5, <2>1, <3>1, LessensThrough
  <2>2. CASE ~(n >= sweep)
    <3>1. b = e /\ sweep' = sweep /\ n < sweep
          BY <1>1, <1>3, <1>4, <2>2
    <3>2. Timely(e, now, sweep)
          BY <1>4, <1>5, LessensFact
    <3>3. ASSUME NEW i \in DOMAIN e.alerts, InTime(e.alerts[i], now, sweep) PROVE InTime(e.alerts[i], n, sweep)
      <4>1. e.alerts[i] \in AlertRecords
        <5>1. e.alerts \in Seq(AlertRecords)
              BY <1>5 DEF Sound, Boards
        <5> QED BY <5>1
      <4>2. e.alerts[i].raised \in Int /\ e.alerts[i].recorded \in Int
            BY <4>1 DEF AlertRecords, AlertFields
      <4> QED BY <1>4, <3>1, <3>3, <4>2 DEF InTime
    <3>4. Timely(e, n, sweep)
          BY <3>2, <3>3 DEF Timely
    <3> QED BY <1>4, <1>5, <3>1, <3>4
  <2> QED BY <2>1, <2>2
<1>7. Board' = b /\ b \in Boards
  <2>1. b = [alerts |-> b.alerts, active |-> b.active, computed |-> b.computed] /\ b \in Boards
        BY <1>6 DEF Sound, Boards
  <2> QED BY <1>1, <1>2, <1>3, <2>1 DEF Put, Board
<1>8. BoardTypes'
      BY <1>1, <1>4, <1>6, <1>7 DEF BoardInv, BoardTypes
<1>9. FullRate(Board)'
      BY <1>6, <1>7 DEF Sound, FullRate, SeriousOpen, SeriousRaised
<1>10. Outside(Board, stand)'
  <2>1. Outside(b, stand)
        BY <1>6, LessensFact DEF BoardInv, Outside
  <2> QED BY <1>1, <1>7, <2>1 DEF Outside, Clear
<1>11. Timely(Board, now, sweep)'
       BY <1>1, <1>6, <1>7 DEF Timely, InTime
<1>12. (\A u \in Tourists : ToTell(device[u], stand[u], u))'
       BY <1>1 DEF BoardInv
<1>13. (sweep <= now + Period)'
       BY <1>1, <1>6
<1> QED BY <1>8, <1>9, <1>10, <1>11, <1>12, <1>13 DEF BoardInv

LEMMA BoardInvNext == ASSUME BoardInv, [BoardNext]_boardVars PROVE BoardInv'
<1>1. CASE UNCHANGED boardVars
  <2>1. Put(Board) /\ Kept(Board) /\ UNCHANGED <<now, severity, stand, device, sweep>>
        BY <1>1, BoardFacts DEF boardVars, Put, Board, Kept
  <2> QED BY <2>1, KeptFact
<1>2. ASSUME NEW u \in Tourists, Call(u) \/ Leave(u) \/ Reconnect(u) \/ Renew(u) PROVE BoardInv'
      BY <1>2, CallInv, LeaveInv, ReconnectInv, RenewInv
<1>3. ASSUME NEW u \in Tourists, NEW z \in Zones, Fix(u, z) \/ DeviceFix(u, z) PROVE BoardInv'
      BY <1>3, FixInv, DeviceFixInv
<1> QED BY <1>1, <1>2, <1>3, OperateInv, TickInv DEF BoardNext

LEMMA BoardInvImplies == ASSUME BoardInv PROVE BoardIsTrue
<1>1. \A i \in DOMAIN alerts : alerts[i] \in AlertRecords
  <2>1. alerts \in Seq(AlertRecords)
        BY DEF BoardInv, BoardTypes, Board, Boards
  <2> QED BY <2>1
<1>2. ForecastsAreSettled
  <2> SUFFICES ASSUME NEW i \in DOMAIN alerts, alerts[i].kind \in Warnings, IsOpen(alerts[i])
               PROVE  /\ stand[alerts[i].user][alerts[i].zone] # "Inside"
                      /\ alerts[i].state = "Open" =>
                            now < alerts[i].raised + Ttl + Period \/ now < alerts[i].recorded + Period
      BY DEF ForecastsAreSettled
  <2>1. PICK a \in AlertRecords : a = alerts[i] /\ Board.alerts[i] = a /\ i \in DOMAIN Board.alerts
        BY <1>1 DEF Board
  <2>2. a.user \in Tourists /\ a.zone \in Zones
        BY <2>1 DEF AlertRecords, AlertFields
  <2>3. ~Clear(Board, a.user, a.zone)
        BY <2>1 DEF Clear, Forecast
  <2>4. stand[a.user][a.zone] # "Inside"
        BY <2>2, <2>3 DEF BoardInv, Outside
  <2>5. a.state = "Open" => InTime(a, now, sweep)
        BY <2>1 DEF BoardInv, Timely, Untaken
  <2> QED BY <2>1, <2>4, <2>5 DEF InTime
<1>3. FullRateFollowsAlerts
      BY DEF FullRateFollowsAlerts, BoardInv, FullRate, SeriousOpen, SeriousRaised, Board
<1> QED BY <1>2, <1>3 DEF BoardIsTrue

(* For any tourists, zones, severities and timings, no open forecast is of a *)
(* zone its tourist is inside, seen live or told late, none untaken outlives *)
(* its time and the wait for the next pass, and a device is at full rate     *)
(* exactly while a serious alert is open, unless it has just put its own     *)
(* copy over the flag.                                                       *)
THEOREM BoardStaysTrue == BoardSpec => []BoardIsTrue
<1>1. BoardInit => BoardInv
      BY BoardInvInit
<1>2. BoardInv /\ [BoardNext]_boardVars => BoardInv'
      BY BoardInvNext
<1>3. BoardInv => BoardIsTrue
      BY BoardInvImplies
<1> QED BY <1>1, <1>2, <1>3, PTL DEF BoardSpec
=============================================================================
