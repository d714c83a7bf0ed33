--------------------------- MODULE DispatchProofs ---------------------------
(***************************************************************************)
(* Theorems of module Dispatch, for any units, places, roads and limits:   *)
(* units are where they were sent, only free units are recommended, plans  *)
(* can be carried out, nothing goes back to an earlier stage, and what was *)
(* signed off stays so.                                                    *)
(***************************************************************************)
EXTENDS Dispatch, TLAPS, FiniteSetTheorems

-----------------------------------------------------------------------------
(* The inductive invariant. *)

AlertStates == {"None", "Closed"} \cup OpenStates
CaseStates == {"None", "Resolved"} \cup Unresolved

(* Incidents never outnumber the alerts already routed, so that the next    *)
(* one has an id.                                                           *)
Shape ==
    /\ raisedAlerts \in Nat /\ made \in Nat /\ raisedAlerts <= MaxAlerts
    /\ batch \subseteq 1 .. raisedAlerts
    /\ made + Cardinality(batch) <= raisedAlerts
    /\ phase = "route" <=> batch # {}
    /\ phase \in {"idle", "route"} => plan = {}
    /\ touched \in Seq(1 .. made)
    /\ live \subseteq 1 .. made /\ closed \subseteq Ids

Tables ==
    /\ alert \in [Ids -> AlertStates] /\ case \in [Ids -> CaseStates]
    /\ members \in [Ids -> SUBSET (1 .. raisedAlerts)]
    /\ recommended \in [Ids -> Units \cup {None}] /\ responder \in [Ids -> Units \cup {None}]
    /\ available \subseteq Units /\ assigned \in [Units -> Ids \cup {None}]
    /\ plan \subseteq (1 .. made) \X Units

Book ==
    /\ \A i \in Ids : i > made => case[i] = "None"
    /\ \A i \in Ids : i \in closed <=> case[i] = "Resolved"
    /\ \A a \in 1 .. raisedAlerts : alert[a] # "None"

(* Only registered units are available or in the field.                     *)
Roster ==
    /\ registered \subseteq Units /\ available \subseteq registered
    /\ \A u \in Units : assigned[u] # None => u \in registered

IInv ==
    Shape /\ Tables /\ Book /\ Roster /\ UnitsAreWhereTheyAreSent /\ RecommendedIsFree /\ ResolvedIsHandled

LEMMA Domains ==
    /\ MaxAlerts \in Nat /\ Ids = 1 .. MaxAlerts /\ None = 0 /\ None \notin Ids
    /\ Units \subseteq Nat \ {0} /\ None \notin Units
BY DispatchAssumption DEF DispatchAssumption, Ids, None

LEMMA InvInit == Init => IInv
<1> SUFFICES ASSUME Init PROVE IInv
    OBVIOUS
<1>1. Shape
      BY Domains, FS_EmptySet DEF Init, Shape
<1>2. Tables
      BY Domains DEF Init, Tables, AlertStates, CaseStates
<1>3. Book /\ Roster /\ UnitsAreWhereTheyAreSent /\ RecommendedIsFree /\ ResolvedIsHandled
      BY Domains DEF Init, Book, Roster, UnitsAreWhereTheyAreSent, RecommendedIsFree, ResolvedIsHandled,
         Undecided, Unresolved
<1> QED BY <1>1, <1>2, <1>3 DEF IInv

(* A recommended unit is one of those offered. *)
LEMMA RecommendIsOffered ==
    ASSUME NEW i, NEW free, NEW stand
    PROVE  Recommend(i, free, stand) \in free \cup {None}
BY DEF Recommend, Nearest

LEMMA RecommendAllIsOffered ==
    ASSUME Tables, NEW R, NEW free \in SUBSET Units, NEW stand, RecommendAll(R, free, stand)
    PROVE  /\ recommended' \in [Ids -> Units \cup {None}]
           /\ \A i \in Ids : i \in R => recommended'[i] \in free \cup {None}
           /\ \A i \in Ids : i \notin R => recommended'[i] = recommended[i]
<1>1. \A i \in Ids : recommended'[i] = IF i \in R THEN Recommend(i, free, stand) ELSE recommended[i]
      BY DEF RecommendAll
<1>2. recommended' = [i \in Ids |-> recommended'[i]]
      BY DEF RecommendAll
<1>3. \A i \in Ids : i \in R => recommended'[i] \in free \cup {None}
      BY <1>1, RecommendIsOffered
<1>4. \A i \in Ids : i \notin R => recommended'[i] = recommended[i]
      BY <1>1
<1>5. \A i \in Ids : recommended'[i] \in Units \cup {None}
      BY <1>3, <1>4 DEF Tables
<1> QED BY <1>2, <1>3, <1>4, <1>5

-----------------------------------------------------------------------------
(* Steps that leave units and cases alone. *)

LEMMA AlertsStep ==
    ASSUME IInv, NEW A, NEW s \in AlertStates \ {"None"}, SetAlerts(A, s),
           \A i \in closed : A \cap members[i] # {} => s = "Closed",
           phase' = phase,
           UNCHANGED <<raisedAlerts, incidents, cases, units, queues>>
    PROVE  IInv'
<1>1. \A a \in Ids : alert'[a] = IF a \in A THEN s ELSE alert[a]
      BY DEF SetAlerts
<1>2. alert' \in [Ids -> AlertStates]
      BY DEF SetAlerts, IInv, Tables
<1>3. UNCHANGED <<raisedAlerts, made, members, live, closed, case, recommended, responder, registered,
                  available, assigned, batch, touched, plan>>
      BY DEF incidents, cases, units, queues
<1>4. Shape' /\ Tables' /\ Book' /\ Roster'
  <2>1. 1 .. raisedAlerts \subseteq Ids
        BY Domains DEF IInv, Shape
  <2> QED BY <1>1, <1>2, <1>3, <2>1 DEF IInv, Shape, Tables, Book, Roster
<1>5. UnitsAreWhereTheyAreSent' /\ RecommendedIsFree'
      BY <1>3 DEF IInv, UnitsAreWhereTheyAreSent, RecommendedIsFree, Undecided
<1>6. ResolvedIsHandled'
  <2>1. ASSUME NEW i \in Ids, case[i] = "Resolved", NEW a \in members[i]
        PROVE  alert'[a] = "Closed"
    <3>1. i \in closed /\ alert[a] = "Closed" /\ a \in Ids
          BY <2>1, Domains DEF IInv, ResolvedIsHandled, Tables, Shape
    <3> QED BY <1>1, <2>1, <3>1
  <2>2. \A i \in Ids : case[i] = "Resolved" => i \in closed
        BY DEF IInv, ResolvedIsHandled
  <2> QED BY <1>3, <2>1, <2>2 DEF ResolvedIsHandled
<1> QED BY <1>4, <1>5, <1>6 DEF IInv

-----------------------------------------------------------------------------
(* The correlator. *)

LEMMA ReportStep ==
    ASSUME IInv, NEW last \in raisedAlerts + 1 .. MaxAlerts, NEW time, NEW where,
           Report(last, time, where)
    PROVE  IInv'
<1>1. /\ phase = "idle" /\ phase' = "route" /\ raisedAlerts' = last /\ batch' = Fresh(last) /\ live' \subseteq live
      /\ alert' = [a \in Ids |-> IF a \in Fresh(last) THEN "Open" ELSE alert[a]]
      /\ UNCHANGED <<made, members, closed, case, recommended, responder, registered,
                     available, assigned, touched, plan>>
      BY DEF Report, cases, units
<1>a. batch = {} /\ plan = {}
      BY DEF Report, IInv, Shape
<1>2. /\ raisedAlerts \in Nat /\ last \in Nat /\ raisedAlerts < last /\ last <= MaxAlerts
      /\ made \in Nat /\ made <= raisedAlerts
      BY <1>a, Domains, FS_EmptySet DEF IInv, Shape
<1>3. Fresh(last) = raisedAlerts + 1 .. last
      BY DEF Fresh
<1>4. Cardinality(Fresh(last)) = last - raisedAlerts
      BY <1>2, <1>3, FS_Interval
<1>5. Shape'
  <2>1. batch' \subseteq 1 .. last /\ batch' # {}
        BY <1>1, <1>2, <1>3
  <2>2. made + Cardinality(batch') <= last
        BY <1>1, <1>2, <1>4
  <2>3. live' \subseteq 1 .. made /\ closed \subseteq Ids /\ touched \in Seq(1 .. made)
        BY <1>1 DEF IInv, Shape
  <2> QED BY <1>1, <1>2, <1>a, <2>1, <2>2, <2>3 DEF Shape
<1>6. Tables'
  <2>1. members \in [Ids -> SUBSET (1 .. last)]
        BY <1>2 DEF IInv, Tables
  <2>2. alert' \in [Ids -> AlertStates]
        BY <1>1 DEF IInv, Tables, AlertStates, OpenStates
  <2> QED BY <1>1, <2>1, <2>2 DEF IInv, Tables
<1>7. Roster' /\ UnitsAreWhereTheyAreSent' /\ RecommendedIsFree'
      BY <1>1 DEF IInv, Roster, UnitsAreWhereTheyAreSent, RecommendedIsFree, Undecided
<1>b. Book'
  <2>1. \A a \in 1 .. last : a \in Ids /\ (a \in Fresh(last) \/ a \in 1 .. raisedAlerts)
        BY <1>2, <1>3, Domains
  <2>2. \A a \in 1 .. last : alert'[a] # "None"
        BY <1>1, <2>1 DEF IInv, Book
  <2> QED BY <1>1, <2>2 DEF IInv, Book
<1>8. ResolvedIsHandled'
  <2>1. \A i \in Ids : \A a \in members[i] : a \in Ids /\ a \notin Fresh(last)
        BY <1>2, <1>3, Domains DEF IInv, Tables
  <2> QED BY <1>1, <2>1 DEF IInv, ResolvedIsHandled
<1> QED BY <1>5, <1>6, <1>7, <1>8, <1>b DEF IInv

LEMMA ClusterOfBatch ==
    ASSUME NEW a, batch # {}
    PROVE  Cluster(a) \subseteq batch /\ Cluster(a) # {}
<1>1. CASE a \in batch
      BY <1>1 DEF Cluster
<1>2. CASE a \notin batch
      BY <1>2 DEF Cluster
<1> QED BY <1>1, <1>2 DEF Cluster

LEMMA RouteStep == IInv /\ Route => IInv'
<1> SUFFICES ASSUME IInv, Route PROVE IInv'
    OBVIOUS
<1> DEFINE C == Cluster(Min(batch))
<1>1. phase = "route" /\ batch # {} /\ C \subseteq batch /\ C # {}
      BY ClusterOfBatch DEF Route, IInv, Shape
<1>2. /\ batch' = batch \ C /\ phase' = IF batch = C THEN "touch" ELSE "route"
      /\ UNCHANGED <<raisedAlerts, alert, closed, case, recommended, responder, registered, available,
                     assigned, plan>>
      BY DEF Route, alerts, cases, units
<1>3. \/ \E i \in Host(C) :
            /\ members' = [members EXCEPT ![i] = members[i] \cup C]
            /\ touched' = Append(touched, i) /\ made' = made /\ live' = live
      \/ /\ made' = made + 1 /\ members' = [members EXCEPT ![made + 1] = C]
         /\ live' = live \cup {made + 1} /\ touched' = Append(touched, made + 1)
      BY DEF Route
<1> HIDE DEF C
<1>4. /\ IsFiniteSet(batch) /\ IsFiniteSet(batch') /\ C \subseteq 1 .. raisedAlerts
      /\ Cardinality(batch') \in Nat /\ Cardinality(batch) \in Nat
      /\ Cardinality(batch') < Cardinality(batch)
  <2>1. IsFiniteSet(1 .. raisedAlerts) /\ batch \in SUBSET (1 .. raisedAlerts)
        BY FS_Interval DEF IInv, Shape
  <2>2. IsFiniteSet(batch) /\ batch' \in SUBSET batch /\ batch' # batch
        BY <1>1, <1>2, <2>1, FS_Subset
  <2>3. IsFiniteSet(batch') /\ Cardinality(batch') <= Cardinality(batch)
        /\ (Cardinality(batch) = Cardinality(batch') => batch = batch')
        BY <2>2, FS_Subset
  <2> QED BY <1>1, <2>1, <2>2, <2>3, FS_CardinalityType
<1>5. made \in Nat /\ raisedAlerts \in Nat /\ made < raisedAlerts /\ raisedAlerts <= MaxAlerts
      /\ made + Cardinality(batch) <= raisedAlerts
      BY <1>4 DEF IInv, Shape
<1>6. \A i \in Host(C) : i \in 1 .. made /\ i \in Ids /\ i \notin closed
      BY <1>5, Domains DEF Host, CanAbsorb, IInv, Shape
<1>7. made + 1 \in Ids /\ made + 1 \notin closed
      BY <1>5, Domains DEF IInv, Book
<1>8. /\ made' \in Nat /\ made' >= made /\ made' + Cardinality(batch') <= raisedAlerts
      /\ live' \subseteq 1 .. made' /\ touched' \in Seq(1 .. made')
  <2>1. CASE \E i \in Host(C) : touched' = Append(touched, i) /\ made' = made /\ live' = live
        BY <1>4, <1>5, <1>6, <2>1 DEF IInv, Shape
  <2>2. CASE /\ made' = made + 1 /\ live' = live \cup {made + 1}
             /\ touched' = Append(touched, made + 1)
    <3>1. touched \in Seq(1 .. made')
          BY <1>5, <2>2 DEF IInv, Shape
    <3>2. touched' \in Seq(1 .. made')
          BY <1>5, <2>2, <3>1
    <3> QED BY <1>4, <1>5, <2>2, <3>2 DEF IInv, Shape
  <2> QED BY <1>3, <2>1, <2>2
<1>9. /\ members' \in [Ids -> SUBSET (1 .. raisedAlerts)]
      /\ \A i \in closed : members'[i] = members[i]
      BY <1>3, <1>4, <1>6, <1>7 DEF IInv, Tables, Shape
<1>10. Shape'
  <2>1. batch' \subseteq 1 .. raisedAlerts /\ (phase' = "route" <=> batch' # {})
    <3>1. CASE batch = C
          BY <1>2, <3>1
    <3>2. CASE batch # C
      <4>1. batch' # {}
            BY <1>1, <1>2, <3>2
      <4> QED BY <1>2, <3>2, <4>1 DEF IInv, Shape
    <3> QED BY <3>1, <3>2
  <2> QED BY <1>2, <1>8, <2>1 DEF IInv, Shape
<1>11. Tables'
      BY <1>2, <1>5, <1>8, <1>9 DEF IInv, Tables
<1>12. Book' /\ Roster' /\ UnitsAreWhereTheyAreSent' /\ RecommendedIsFree'
      BY <1>2, <1>5, <1>8, Domains DEF IInv, Book, Roster, UnitsAreWhereTheyAreSent, RecommendedIsFree, Undecided
<1>13. ResolvedIsHandled'
      BY <1>2, <1>9 DEF IInv, ResolvedIsHandled
<1> QED BY <1>10, <1>11, <1>12, <1>13 DEF IInv

LEMMA TouchStep == IInv /\ Touch => IInv'
<1> SUFFICES ASSUME IInv, Touch PROVE IInv'
    OBVIOUS
<1> DEFINE i == Head(touched)
           R == IF case[i] = "None" THEN {i} ELSE {i} \cap Undecided
<1>1. /\ phase = "touch" /\ phase' = phase /\ touched # <<>> /\ touched' = Tail(touched)
      /\ UNCHANGED <<raisedAlerts, alert, made, members, live, closed, responder, registered, available,
                     assigned, batch>>
      BY DEF Touch, incidents, units
<1>2. i \in 1 .. made /\ touched' \in Seq(1 .. made)
      BY <1>1 DEF IInv, Shape
<1>3. made \in Nat /\ made <= MaxAlerts /\ i \in Ids
  <2>1. batch = {}
        BY <1>1 DEF IInv, Shape
  <2> QED BY <1>2, <2>1, FS_EmptySet, Domains DEF IInv, Shape
<1>4. RecommendAll(R, available, post)
      BY DEF Touch
<1>5. \/ case[i] = "None" /\ case' = [case EXCEPT ![i] = "Open"]
      \/ case[i] # "None" /\ case' = case
      BY DEF Touch
<1>6. plan' \subseteq (1 .. made) \X Units
  <2>1. CASE case[i] = "None"
    <3>1. plan' = {} \/ (Recommend(i, available, post) # None
                         /\ plan' = {<<i, Recommend(i, available, post)>>})
          BY <2>1 DEF Touch
    <3>2. Recommend(i, available, post) \in Units \cup {None}
          BY RecommendIsOffered DEF IInv, Tables
    <3> QED BY <1>2, <3>1, <3>2
  <2>2. CASE case[i] # "None"
        BY <2>2 DEF Touch, IInv, Tables
  <2> QED BY <2>1, <2>2
<1> HIDE DEF i
<1>7. /\ recommended' \in [Ids -> Units \cup {None}]
      /\ \A j \in Ids : j \in R => recommended'[j] \in available \cup {None}
      /\ \A j \in Ids : j \notin R => recommended'[j] = recommended[j]
      BY <1>4, RecommendAllIsOffered DEF IInv, Tables
<1>8. Shape'
      BY <1>1, <1>2 DEF IInv, Shape
<1>9. Tables'
      BY <1>1, <1>3, <1>5, <1>6, <1>7 DEF IInv, Tables, CaseStates, Unresolved
<1>10. Book'
      BY <1>1, <1>2, <1>3, <1>5 DEF IInv, Book, Tables
<1>11. Roster' /\ UnitsAreWhereTheyAreSent'
      BY <1>1, <1>3, <1>5 DEF IInv, Roster, UnitsAreWhereTheyAreSent, Tables
<1>12. RecommendedIsFree'
  <2>1. SUFFICES ASSUME NEW j \in Ids, case'[j] \in Unresolved, responder[j] = None,
                        recommended'[j] # None
                 PROVE  recommended'[j] \in available
        BY <1>1 DEF RecommendedIsFree, Undecided
  <2>2. CASE j \in R
        BY <1>7, <2>1, <2>2
  <2>3. CASE j \notin R
    <3>1. j # i \/ case[i] # "None"
          BY <2>3
    <3>2. case'[j] = case[j]
          BY <1>3, <1>5, <3>1 DEF IInv, Tables
    <3>3. j \in Undecided
          BY <2>1, <3>2 DEF Undecided
    <3> QED BY <1>7, <2>1, <2>3, <3>3 DEF IInv, RecommendedIsFree
  <2> QED BY <2>2, <2>3
<1>13. ResolvedIsHandled'
      BY <1>1, <1>3, <1>5 DEF IInv, ResolvedIsHandled, Tables
<1> QED BY <1>8, <1>9, <1>10, <1>11, <1>12, <1>13 DEF IInv

-----------------------------------------------------------------------------
(* Cases and units. *)

LEMMA AssignStep ==
    ASSUME IInv, NEW i \in 1 .. made, NEW u \in Units, Assignable(i, u), Assign(i, u),
           phase # "route", phase' # "route", plan' \subseteq plan, phase' = "idle" => plan' = {}
    PROVE  IInv'
<1> DEFINE previous == responder[i]
           free == (available \cup Freed(previous)) \ {u}
<1>1. /\ available' = free /\ assigned' = Sent(i, u)
      /\ responder' = [responder EXCEPT ![i] = u] /\ case' = [case EXCEPT ![i] = "Dispatched"]
      /\ SetAlerts(AlertsInHand(i), "Dispatched")
      /\ RecommendAll(Disappointed(i, u), free, post)
      /\ UNCHANGED <<raisedAlerts, made, members, live, closed, registered, batch, touched>>
      BY DEF Assign, incidents
<1>2. /\ i \in Ids /\ case[i] \in Unresolved /\ u \in available /\ previous \in Units \cup {None}
      /\ free \subseteq Units /\ u # None
  <2>1. batch = {}
        BY DEF IInv, Shape
  <2>2. i \in Ids
        BY <2>1, FS_EmptySet, Domains DEF IInv, Shape
  <2> QED BY <2>2, Domains DEF Assignable, IInv, Tables, Freed
<1>3. /\ assigned[u] = None /\ previous # u
      /\ case[i] = "Dispatched" <=> previous # None
      /\ \A v \in Units : assigned[v] = i <=> previous = v
  <2>1. assigned[u] = None
        BY <1>2 DEF IInv, UnitsAreWhereTheyAreSent
  <2>2. case[i] = "Dispatched" <=> previous # None
        BY <1>2 DEF IInv, UnitsAreWhereTheyAreSent, Unresolved
  <2>3. \A v \in Units : assigned[v] = i <=> previous = v
        BY <1>2, <2>2, Domains DEF IInv, UnitsAreWhereTheyAreSent
  <2> QED BY <1>2, <2>1, <2>2, <2>3, Domains
<1>4. \A v \in Units : assigned'[v] = IF v = u THEN i ELSE IF v = previous THEN None ELSE assigned[v]
      BY <1>1 DEF Sent
<1>5. assigned' \in [Units -> Ids \cup {None}]
      BY <1>1, <1>2 DEF Sent, IInv, Tables
<1>6. \A v \in Units : v \in available' <=> v # u /\ (v \in available \/ v = previous)
      BY <1>1, Domains DEF Freed
<1>7. \A j \in Ids : /\ responder'[j] = IF j = i THEN u ELSE responder[j]
                     /\ case'[j] = IF j = i THEN "Dispatched" ELSE case[j]
      BY <1>1, <1>2 DEF IInv, Tables
<1> HIDE DEF free, previous
<1>8. UnitsAreWhereTheyAreSent'
  <2>1. ASSUME NEW v \in Units, NEW j \in Ids
        PROVE  assigned'[v] = j <=> case'[j] = "Dispatched" /\ responder'[j] = v
    <3>1. assigned[v] = j <=> case[j] = "Dispatched" /\ responder[j] = v
          BY DEF IInv, UnitsAreWhereTheyAreSent
    <3> QED BY <1>2, <1>3, <1>4, <1>7, <3>1, Domains DEF previous
  <2>2. \A j \in Ids : case'[j] = "Dispatched" => responder'[j] # None
        BY <1>2, <1>7 DEF IInv, UnitsAreWhereTheyAreSent
  <2>3. \A j \in Ids : responder'[j] # None => case'[j] \in {"Dispatched", "Resolved"}
        BY <1>7 DEF IInv, UnitsAreWhereTheyAreSent
  <2>4. \A v \in Units : v \in available' => assigned'[v] = None
        BY <1>4, <1>6 DEF IInv, UnitsAreWhereTheyAreSent
  <2>5. available' \subseteq Units
        BY <1>1, <1>2
  <2> QED BY <2>1, <2>2, <2>3, <2>4, <2>5 DEF UnitsAreWhereTheyAreSent
<1>9. /\ recommended' \in [Ids -> Units \cup {None}]
      /\ \A j \in Ids : j \in Disappointed(i, u) => recommended'[j] \in free \cup {None}
      /\ \A j \in Ids : j \notin Disappointed(i, u) => recommended'[j] = recommended[j]
      BY <1>1, <1>2, RecommendAllIsOffered DEF IInv
<1>10. RecommendedIsFree'
  <2>1. SUFFICES ASSUME NEW j \in Ids, j \in Undecided', recommended'[j] # None
                 PROVE  recommended'[j] \in available'
        BY DEF RecommendedIsFree, Undecided
  <2>2. j # i /\ j \in Undecided
        BY <1>2, <1>7, <2>1 DEF Undecided
  <2>3. CASE j \in Disappointed(i, u)
        BY <1>1, <1>9, <2>1, <2>3
  <2>4. CASE j \notin Disappointed(i, u)
    <3>1. recommended'[j] = recommended[j] /\ recommended[j] # u
          BY <1>9, <2>2, <2>4 DEF Disappointed
    <3>2. recommended[j] \in available /\ recommended[j] \in Units
          BY <2>1, <2>2, <3>1 DEF IInv, RecommendedIsFree, Tables
    <3> QED BY <1>6, <3>1, <3>2
  <2> QED BY <2>3, <2>4
<1>11. \A a \in Ids : alert'[a] = IF a \in AlertsInHand(i) THEN "Dispatched" ELSE alert[a]
      BY <1>1 DEF SetAlerts
<1>12. alert' \in [Ids -> AlertStates]
      BY <1>1 DEF SetAlerts, IInv, Tables, AlertStates, OpenStates
<1>13. ResolvedIsHandled'
  <2>1. ASSUME NEW j \in Ids, case'[j] = "Resolved" PROVE j \in closed' /\ \A a \in members'[j] : alert'[a] = "Closed"
    <3>1. case[j] = "Resolved"
          BY <1>7, <2>1
    <3>2. j \in closed /\ \A a \in members[j] : a \in Ids /\ alert[a] = "Closed"
          BY <3>1, Domains DEF IInv, ResolvedIsHandled, Tables, Shape
    <3>3. \A a \in members[j] : a \notin AlertsInHand(i)
          BY <3>2 DEF AlertsInHand, OpenStates
    <3> QED BY <1>1, <1>11, <3>2, <3>3
  <2> QED BY <2>1 DEF ResolvedIsHandled
<1>14. Shape'
      BY <1>1 DEF IInv, Shape
<1>15. Book'
  <2>1. \A j \in Ids : j > made => case'[j] = "None"
    <3>1. i <= made /\ made \in Nat
          BY DEF IInv, Shape
    <3>2. \A j \in Ids : j > made => j # i
          BY <3>1
    <3> QED BY <1>7, <3>2 DEF IInv, Book
  <2>2. \A j \in Ids : j \in closed <=> case'[j] = "Resolved"
        BY <1>2, <1>7 DEF IInv, Book, Unresolved
  <2>3. \A a \in 1 .. raisedAlerts : alert'[a] # "None"
    <3>1. \A a \in 1 .. raisedAlerts : a \in Ids
          BY Domains DEF IInv, Shape
    <3> QED BY <1>11, <3>1 DEF IInv, Book
  <2> QED BY <1>1, <2>1, <2>2, <2>3 DEF Book
<1>16. Tables'
  <2>1. case' \in [Ids -> CaseStates] /\ responder' \in [Ids -> Units \cup {None}]
        BY <1>1, <1>2 DEF IInv, Tables, CaseStates, Unresolved
  <2> QED BY <1>1, <1>2, <1>5, <1>9, <1>12, <2>1 DEF IInv, Tables
<1>17. Roster'
  <2>1. previous # None => previous \in registered
    <3>1. ASSUME previous # None PROVE assigned[previous] = i
          BY <1>2, <1>3, <3>1
    <3> QED BY <1>2, <3>1, Domains DEF IInv, Roster
  <2>2. available' \subseteq registered
        BY <1>1, <1>2, <1>6, <2>1, Domains DEF IInv, Roster
  <2>3. \A v \in Units : assigned'[v] # None => v \in registered
        BY <1>2, <1>4 DEF IInv, Roster
  <2> QED BY <1>1, <2>2, <2>3 DEF IInv, Roster
<1> QED BY <1>8, <1>10, <1>13, <1>14, <1>15, <1>16, <1>17 DEF IInv

LEMMA ResolveStep == ASSUME IInv, NEW i \in Ids, ResolveIncident(i) PROVE IInv'
<1> DEFINE sent == responder[i]
           free == available \cup Freed(sent)
<1>1. /\ case[i] \in Unresolved /\ case' = [case EXCEPT ![i] = "Resolved"]
      /\ closed' = closed \cup {i} /\ live' = live \ {i} /\ available' = free
      /\ assigned' = [u \in Units |-> IF u = sent THEN None ELSE assigned[u]]
      /\ SetAlerts(AlertsToClose(i), "Closed")
      /\ RecommendAll(Undecided \ {i}, free, post)
      /\ UNCHANGED <<phase, raisedAlerts, made, members, responder, registered, batch, touched, plan>>
      BY DEF ResolveIncident, queues
<1>2. sent \in Units \cup {None} /\ free \subseteq Units /\ available \subseteq free
      BY DEF IInv, Tables, Freed
<1>3. \A u \in Units : u \in free <=> u \in available \/ u = sent
      BY Domains DEF Freed
<1>4. /\ case[i] = "Dispatched" <=> sent # None
      /\ \A u \in Units : assigned[u] = i <=> sent = u
      BY <1>1, <1>2, Domains DEF IInv, UnitsAreWhereTheyAreSent, Unresolved
<1> HIDE DEF free, sent
<1>5. \A j \in Ids : case'[j] = IF j = i THEN "Resolved" ELSE case[j]
      BY <1>1 DEF IInv, Tables
<1>6. \A u \in Units : assigned'[u] = IF u = sent THEN None ELSE assigned[u]
      BY <1>1
<1>7. UnitsAreWhereTheyAreSent'
  <2>1. ASSUME NEW u \in Units, NEW j \in Ids
        PROVE  assigned'[u] = j <=> case'[j] = "Dispatched" /\ responder'[j] = u
    <3>1. assigned[u] = j <=> case[j] = "Dispatched" /\ responder[j] = u
          BY DEF IInv, UnitsAreWhereTheyAreSent
    <3> QED BY <1>1, <1>4, <1>5, <1>6, <3>1, Domains
  <2>2. \A j \in Ids : /\ case'[j] = "Dispatched" => responder'[j] # None
                       /\ responder'[j] # None => case'[j] \in {"Dispatched", "Resolved"}
        BY <1>1, <1>5 DEF IInv, UnitsAreWhereTheyAreSent
  <2>3. \A u \in available' : assigned'[u] = None
        BY <1>1, <1>2, <1>3, <1>6 DEF IInv, UnitsAreWhereTheyAreSent
  <2> QED BY <2>1, <2>2, <2>3 DEF UnitsAreWhereTheyAreSent
<1>8. /\ recommended' \in [Ids -> Units \cup {None}]
      /\ \A j \in Ids : j \in Undecided \ {i} => recommended'[j] \in free \cup {None}
      BY <1>1, <1>2, RecommendAllIsOffered DEF IInv
<1>9. RecommendedIsFree'
  <2>1. \A j \in Ids : j \in Undecided' => j \in Undecided \ {i}
        BY <1>1, <1>5 DEF Undecided, Unresolved
  <2> QED BY <1>1, <1>8, <2>1 DEF RecommendedIsFree, Undecided
<1>10. \A a \in Ids : alert'[a] = IF a \in AlertsToClose(i) THEN "Closed" ELSE alert[a]
      BY <1>1 DEF SetAlerts
<1>11. alert' \in [Ids -> AlertStates]
      BY <1>1 DEF SetAlerts, IInv, Tables, AlertStates
<1>12. \A j \in Ids : \A a \in members[j] : a \in Ids
      BY Domains DEF IInv, Tables, Shape
<1>13. \A a \in members[i] : alert'[a] = "Closed"
  <2>1. \A a \in members[i] : a \in Ids /\ alert[a] \in AlertStates /\ alert[a] # "None"
        BY <1>12 DEF IInv, Tables, Book
  <2> QED BY <1>10, <2>1 DEF AlertsToClose, AlertsInHand, AlertStates
<1>14. ResolvedIsHandled'
  <2>1. ASSUME NEW j \in Ids, case'[j] = "Resolved"
        PROVE  j \in closed' /\ \A a \in members[j] : alert'[a] = "Closed"
    <3>1. CASE j = i
          BY <1>1, <1>13, <3>1
    <3>2. CASE j # i
      <4>1. j \in closed /\ \A a \in members[j] : alert[a] = "Closed"
            BY <1>5, <2>1, <3>2 DEF IInv, ResolvedIsHandled
      <4> QED BY <1>1, <1>10, <1>12, <4>1
    <3> QED BY <3>1, <3>2
  <2> QED BY <1>1, <2>1 DEF ResolvedIsHandled
<1>15. Shape'
      BY <1>1 DEF IInv, Shape
<1>16. Book'
  <2>1. \A j \in Ids : j > made => case'[j] = "None"
    <3>1. case[i] # "None"
          BY <1>1 DEF Unresolved
    <3>2. \A j \in Ids : j > made => j # i
          BY <3>1 DEF IInv, Book
    <3> QED BY <1>5, <3>2 DEF IInv, Book
  <2>2. \A j \in Ids : j \in closed' <=> case'[j] = "Resolved"
        BY <1>1, <1>5 DEF IInv, Book
  <2>3. \A a \in 1 .. raisedAlerts : alert'[a] # "None"
    <3>1. \A a \in 1 .. raisedAlerts : a \in Ids
          BY Domains DEF IInv, Shape
    <3> QED BY <1>10, <3>1 DEF IInv, Book
  <2> QED BY <1>1, <2>1, <2>2, <2>3 DEF Book
<1>17. Tables'
  <2>1. case' \in [Ids -> CaseStates] /\ assigned' \in [Units -> Ids \cup {None}]
        BY <1>1 DEF IInv, Tables, CaseStates
  <2> QED BY <1>1, <1>2, <1>8, <1>11, <2>1 DEF IInv, Tables
<1>18. Roster'
  <2>1. sent # None => sent \in registered
    <3>1. ASSUME sent # None PROVE assigned[sent] = i
          BY <1>2, <1>4, <3>1
    <3> QED BY <1>2, <3>1, Domains DEF IInv, Roster
  <2>2. available' \subseteq registered
        BY <1>1, <1>2, <1>3, <2>1, Domains DEF IInv, Roster
  <2> QED BY <1>1, <1>6, <2>2 DEF IInv, Roster
<1> QED BY <1>7, <1>9, <1>14, <1>15, <1>16, <1>17, <1>18 DEF IInv

LEMMA AcknowledgeStep == ASSUME IInv, NEW i \in Ids, AcknowledgeIncident(i) PROVE IInv'
<1>1. /\ case[i] \in Unresolved
      /\ case' = [case EXCEPT ![i] = IF case[i] = "Open" THEN "Acknowledged" ELSE case[i]]
      /\ SetAlerts(AlertsToAcknowledge(i), "Acknowledged")
      /\ UNCHANGED <<phase, raisedAlerts, made, members, live, closed, recommended, responder, registered,
                     available, assigned, batch, touched, plan>>
      BY DEF AcknowledgeIncident, incidents, units, queues
<1>2. \A j \in Ids : case'[j] = IF j = i /\ case[i] = "Open" THEN "Acknowledged" ELSE case[j]
      BY <1>1 DEF IInv, Tables
<1>3. \A a \in Ids : alert'[a] = IF a \in AlertsToAcknowledge(i) THEN "Acknowledged" ELSE alert[a]
      BY <1>1 DEF SetAlerts
<1>4. alert' \in [Ids -> AlertStates] /\ case' \in [Ids -> CaseStates]
      BY <1>1 DEF SetAlerts, IInv, Tables, AlertStates, OpenStates, CaseStates, Unresolved
<1>5. Shape' /\ Tables' /\ Roster'
      BY <1>1, <1>4 DEF IInv, Shape, Tables, Roster
<1>6. Book'
  <2>1. 1 .. raisedAlerts \subseteq Ids
        BY Domains DEF IInv, Shape
  <2> QED BY <1>1, <1>2, <1>3, <2>1 DEF IInv, Book, Unresolved
<1>7. UnitsAreWhereTheyAreSent'
      BY <1>1, <1>2 DEF IInv, UnitsAreWhereTheyAreSent
<1>8. RecommendedIsFree'
  <2>1. \A j \in Ids : j \in Undecided' => j \in Undecided
        BY <1>1, <1>2 DEF Undecided
  <2> QED BY <1>1, <2>1 DEF IInv, RecommendedIsFree, Undecided
<1>9. ResolvedIsHandled'
  <2>1. \A j \in Ids : \A a \in members[j] : a \in Ids
        BY Domains DEF IInv, Tables, Shape
  <2> QED BY <1>1, <1>2, <1>3, <2>1 DEF IInv, ResolvedIsHandled, AlertsToAcknowledge
<1> QED BY <1>5, <1>6, <1>7, <1>8, <1>9 DEF IInv

-----------------------------------------------------------------------------
(* Plans and the pool. *)

LEMMA UndecidedIsMade == ASSUME IInv PROVE Undecided \subseteq 1 .. made
<1> SUFFICES ASSUME NEW i \in Ids, case[i] \in Unresolved PROVE i \in 1 .. made
    BY DEF Undecided
<1>1. i \in Nat \ {0} /\ made \in Nat /\ ~(i > made)
      BY Domains DEF IInv, Shape, Book, Unresolved
<1> QED BY <1>1

LEMMA PlanStep == IInv /\ PlanDispatch => IInv'
<1> SUFFICES ASSUME IInv, PlanDispatch PROVE IInv'
    OBVIOUS
<1>1. /\ phase = "idle" /\ phase' = "plan" /\ plan' \subseteq Undecided \X available
      /\ UNCHANGED <<raisedAlerts, alert, made, members, live, closed, case, recommended, responder,
                     registered, available, assigned, batch, touched>>
      BY DEF PlanDispatch, Matchings, Pairs, alerts, incidents, cases, units
<1>2. plan' \subseteq (1 .. made) \X Units
      BY <1>1, UndecidedIsMade DEF IInv, Tables
<1>3. Shape' /\ Tables'
      BY <1>1, <1>2 DEF IInv, Shape, Tables
<1>4. Book' /\ Roster' /\ UnitsAreWhereTheyAreSent' /\ RecommendedIsFree' /\ ResolvedIsHandled'
      BY <1>1 DEF IInv, Book, Roster, UnitsAreWhereTheyAreSent, RecommendedIsFree, ResolvedIsHandled, Undecided
<1> QED BY <1>3, <1>4 DEF IInv

LEMMA CarryOutStep == ASSUME IInv, NEW x \in plan, CarryOut(x) PROVE IInv'
<1> DEFINE i == x[1]
           u == x[2]
<1>1. i \in 1 .. made /\ u \in Units
      BY DEF IInv, Tables
<1>2. Assignable(i, u) /\ Assign(i, u) /\ plan' \subseteq plan
      BY DEF CarryOut
<1>3. phase \notin {"idle", "route"}
      BY DEF IInv, Shape
<1>4. phase' # "route" /\ (phase' = "idle" => plan' = {})
      BY <1>3 DEF CarryOut
<1> HIDE DEF i, u
<1> QED BY <1>1, <1>2, <1>3, <1>4, AssignStep

LEMMA PoolStep ==
    ASSUME IInv, NEW free \in SUBSET Units, NEW stand, RecommendAll(Undecided, free, stand),
           available' = free, free \subseteq registered',
           registered \subseteq registered', registered' \subseteq Units,
           \A u \in free : assigned[u] = None,
           UNCHANGED <<phase, alerts, incidents, case, responder, assigned, queues>>
    PROVE  IInv'
<1>1. UNCHANGED <<raisedAlerts, alert, made, members, live, closed, batch, touched, plan>>
      BY DEF alerts, incidents, queues
<1>2. /\ recommended' \in [Ids -> Units \cup {None}]
      /\ \A i \in Ids : i \in Undecided => recommended'[i] \in free \cup {None}
      BY RecommendAllIsOffered DEF IInv
<1>3. Shape' /\ Tables'
      BY <1>1, <1>2 DEF IInv, Shape, Tables
<1>4. Book' /\ Roster' /\ ResolvedIsHandled'
      BY <1>1 DEF IInv, Book, Roster, ResolvedIsHandled
<1>5. UnitsAreWhereTheyAreSent'
      BY DEF IInv, UnitsAreWhereTheyAreSent
<1>6. RecommendedIsFree'
      BY <1>2 DEF RecommendedIsFree, Undecided
<1> QED BY <1>3, <1>4, <1>5, <1>6 DEF IInv

LEMMA CreateStep == ASSUME IInv, NEW u \in Units, NEW p, CreateResponder(u, p) PROVE IInv'
<1> DEFINE free == available \cup {u}
<1>1. /\ registered' = registered \cup {u} /\ available' = free /\ RecommendAll(Undecided, free, post')
      /\ UNCHANGED <<phase, alerts, incidents, case, responder, assigned, queues>>
      BY DEF CreateResponder
<1>2. free \in SUBSET Units /\ free \subseteq registered' /\ registered' \subseteq Units
      BY <1>1 DEF IInv, Roster, Tables
<1>3. \A v \in free : assigned[v] = None
      BY DEF CreateResponder, IInv, Roster, UnitsAreWhereTheyAreSent
<1> HIDE DEF free
<1> QED BY <1>1, <1>2, <1>3, PoolStep

LEMMA AvailableStep ==
    ASSUME IInv, NEW u \in Units, NEW on \in BOOLEAN, SetResponderAvailable(u, on) PROVE IInv'
<1> DEFINE free == available'
<1>1. /\ u \in registered /\ free = IF on THEN available \cup {u} ELSE available \ {u}
      /\ on => assigned[u] = None
      /\ RecommendAll(Undecided, free, post) /\ registered' = registered
      /\ UNCHANGED <<phase, alerts, incidents, case, responder, assigned, queues>>
      BY DEF SetResponderAvailable
<1>2. free \in SUBSET Units /\ free \subseteq registered /\ registered \subseteq Units
      BY <1>1 DEF IInv, Roster, Tables
<1>3. \A v \in free : assigned[v] = None
      BY <1>1 DEF IInv, UnitsAreWhereTheyAreSent
<1>4. available' = free
      OBVIOUS
<1> HIDE DEF free
<1> QED BY <1>1, <1>2, <1>3, <1>4, PoolStep

-----------------------------------------------------------------------------
(* The invariant. *)

LEMMA IdleStep ==
    ASSUME IInv, UNCHANGED <<alerts, incidents, cases, registered, available, assigned, queues>>,
           phase' = phase \/ (phase = "touch" /\ plan = {} /\ phase' = "idle")
    PROVE  IInv'
<1>1. UNCHANGED <<raisedAlerts, alert, made, members, live, closed, case, recommended, responder, batch,
                  touched, plan>>
      BY DEF alerts, incidents, cases, queues
<1>2. Shape' /\ Tables'
      BY <1>1 DEF IInv, Shape, Tables
<1>3. Book' /\ Roster' /\ UnitsAreWhereTheyAreSent' /\ RecommendedIsFree' /\ ResolvedIsHandled'
      BY <1>1 DEF IInv, Book, Roster, UnitsAreWhereTheyAreSent, RecommendedIsFree, ResolvedIsHandled, Undecided
<1> QED BY <1>2, <1>3 DEF IInv

LEMMA AlertAcknowledgeStep == ASSUME IInv, NEW a \in Ids, AcknowledgeAlert(a) PROVE IInv'
<1>1. /\ alert[a] = "Open" /\ SetAlerts({a}, "Acknowledged") /\ phase' = phase
      /\ UNCHANGED <<raisedAlerts, incidents, cases, units, queues>>
      BY DEF AcknowledgeAlert
<1>2. \A i \in closed : a \notin members[i]
      BY <1>1 DEF IInv, Book, Shape, ResolvedIsHandled
<1>3. "Acknowledged" \in AlertStates \ {"None"}
      BY DEF AlertStates, OpenStates
<1> QED BY <1>1, <1>2, <1>3, AlertsStep

LEMMA AlertResolveStep == ASSUME IInv, NEW a \in Ids, ResolveAlert(a) PROVE IInv'
<1>1. /\ SetAlerts({a}, "Closed") /\ phase' = phase
      /\ UNCHANGED <<raisedAlerts, incidents, cases, units, queues>>
      BY DEF ResolveAlert
<1>2. "Closed" \in AlertStates \ {"None"}
      BY DEF AlertStates
<1> QED BY <1>1, <1>2, AlertsStep

LEMMA AssignIncidentStep == ASSUME IInv, NEW i \in Ids, NEW u, AssignIncident(i, u) PROVE IInv'
<1>1. /\ phase = "idle" /\ plan = {} /\ Assignable(i, u) /\ Assign(i, u) /\ phase' = phase /\ plan' = plan
      BY DEF AssignIncident, IInv, Shape
<1>2. u \in Units
      BY <1>1 DEF Assignable, IInv, Tables
<1>3. i \in 1 .. made
      BY <1>1, Domains DEF Assignable, IInv, Shape, Book, Unresolved
<1> QED BY <1>1, <1>2, <1>3, AssignStep

LEMMA InvNext == IInv /\ [Next]_vars => IInv'
<1> SUFFICES ASSUME IInv, [Next]_vars PROVE IInv'
    OBVIOUS
<1>1. CASE Tick
      BY <1>1, IdleStep DEF Tick, units
<1>2. CASE Route
      BY <1>2, RouteStep
<1>3. CASE Touch
      BY <1>3, TouchStep
<1>4. CASE Touched
      BY <1>4, IdleStep DEF Touched, units
<1>5. CASE PlanDispatch
      BY <1>5, PlanStep
<1>6. CASE \E x \in plan : CarryOut(x)
      BY <1>6, CarryOutStep
<1>7. CASE \E last \in raisedAlerts + 1 .. MaxAlerts, time \in 1 .. now :
              \E where \in [Fresh(last) -> Sites] : Report(last, time, where)
      BY <1>7, ReportStep
<1>8. CASE \E i \in Ids : AcknowledgeIncident(i)
      BY <1>8, AcknowledgeStep
<1>9. CASE \E i \in Ids : ResolveIncident(i)
      BY <1>9, ResolveStep
<1>10. CASE \E i \in Ids : AssignRecommended(i) \/ \E u \in Units : AssignIncident(i, u)
      BY <1>10, AssignIncidentStep DEF AssignRecommended
<1>11. CASE \E a \in Ids : AcknowledgeAlert(a) \/ ResolveAlert(a)
      BY <1>11, AlertAcknowledgeStep, AlertResolveStep
<1>12. CASE \E u \in Units, on \in BOOLEAN : SetResponderAvailable(u, on)
      BY <1>12, AvailableStep
<1>13. CASE \E u \in Units, p \in Posts : CreateResponder(u, p)
      BY <1>13, CreateStep
<1>14. CASE \E u \in Units, p \in Posts : SetResponderPosition(u, p)
      BY <1>14, IdleStep DEF SetResponderPosition
<1>15. CASE UNCHANGED vars
      BY <1>15, IdleStep DEF vars, units
<1> QED BY <1>1, <1>2, <1>3, <1>4, <1>5, <1>6, <1>7, <1>8, <1>9, <1>10, <1>11, <1>12, <1>13, <1>14, <1>15
        DEF Next

(* The inductive invariant holds in every behaviour of the dispatch desk.   *)
THEOREM Invariant == Spec => []IInv
BY InvInit, InvNext, PTL DEF Spec

(* A unit is in the field for the one case that names it, and is never lost *)
(* when it is called back, replaced or released: assign_incident,           *)
(* resolve_incident, set_responder_available in any order.                  *)
THEOREM UnitsAreSent == Spec => []UnitsAreWhereTheyAreSent
<1>1. IInv => UnitsAreWhereTheyAreSent
      BY DEF IInv
<1> QED BY <1>1, Invariant, PTL

(* The unit an undecided case recommends can be sent.                       *)
THEOREM RecommendationsAreFree == Spec => []RecommendedIsFree
<1>1. IInv => RecommendedIsFree
      BY DEF IInv
<1> QED BY <1>1, Invariant, PTL

(* No alert of a resolved incident is left on the board.                    *)
THEOREM ResolvedAreHandled == Spec => []ResolvedIsHandled
<1>1. IInv => ResolvedIsHandled
      BY DEF IInv
<1> QED BY <1>1, Invariant, PTL

-----------------------------------------------------------------------------
(* What was signed off. *)

(* The correlator gives a closed incident no alert. *)
LEMMA RouteSparesTheClosed ==
    ASSUME IInv, Route, NEW i \in closed PROVE members'[i] = members[i]
<1> DEFINE C == Cluster(Min(batch))
<1>1. /\ closed \subseteq Ids /\ members \in [Ids -> SUBSET (1 .. raisedAlerts)]
      /\ case[i] = "Resolved"
      BY DEF IInv, Shape, Tables, Book
<1>2. i <= made /\ made \in Nat
      BY <1>1, Domains DEF IInv, Shape, Book
<1>3. \/ \E j \in Host(C) : members' = [members EXCEPT ![j] = members[j] \cup C]
      \/ members' = [members EXCEPT ![made + 1] = C]
      BY DEF Route
<1>4. \A j \in Host(C) : j # i
      BY DEF Host, CanAbsorb
<1>5. made + 1 # i
      BY <1>1, <1>2, Domains
<1> QED BY <1>1, <1>3, <1>4, <1>5

LEMMA OthersKeepMembers == Next => Route \/ (members' = members /\ closed \subseteq closed')
<1> SUFFICES ASSUME Next PROVE Route \/ (members' = members /\ closed \subseteq closed')
    OBVIOUS
<1>1. CASE Tick \/ Touch \/ Touched \/ PlanDispatch
      BY <1>1 DEF Tick, Touch, Touched, PlanDispatch, incidents
<1>2. CASE \E x \in plan : CarryOut(x)
      BY <1>2 DEF CarryOut, Assign, incidents
<1>3. CASE \E last \in raisedAlerts + 1 .. MaxAlerts, time \in 1 .. now :
              \E where \in [Fresh(last) -> Sites] : Report(last, time, where)
      BY <1>3 DEF Report
<1>4. CASE \E i \in Ids : AcknowledgeIncident(i) \/ ResolveIncident(i)
      BY <1>4 DEF AcknowledgeIncident, ResolveIncident, incidents
<1>5. CASE \E i \in Ids : AssignRecommended(i) \/ \E u \in Units : AssignIncident(i, u)
      BY <1>5 DEF AssignRecommended, AssignIncident, Assign, incidents
<1>6. CASE \E a \in Ids : AcknowledgeAlert(a) \/ ResolveAlert(a)
      BY <1>6 DEF AcknowledgeAlert, ResolveAlert, incidents
<1>7. CASE \E u \in Units : \/ \E on \in BOOLEAN : SetResponderAvailable(u, on)
                            \/ \E p \in Posts : CreateResponder(u, p) \/ SetResponderPosition(u, p)
      BY <1>7 DEF SetResponderAvailable, CreateResponder, SetResponderPosition, incidents
<1>8. CASE Route
      BY <1>8
<1> QED BY <1>1, <1>2, <1>3, <1>4, <1>5, <1>6, <1>7, <1>8 DEF Next

(* An incident signed off takes no more alerts and is never reopened,       *)
(* whatever Correlator::ingest is given and the operators do.               *)
THEOREM SignedOffIsFinal == Spec => SignedOff
<1>1. IInv /\ IInv' /\ [Next]_vars => [SignedOffStays]_vars
  <2> SUFFICES ASSUME IInv, IInv', Next PROVE SignedOffStays
      OBVIOUS
  <2>1. closed \subseteq closed' /\ \A i \in closed : members'[i] = members[i]
    <3>1. CASE Route
          BY <3>1, RouteSparesTheClosed DEF Route
    <3>2. CASE members' = members /\ closed \subseteq closed'
          BY <3>2
    <3> QED BY <3>1, <3>2, OthersKeepMembers
  <2>2. \A i \in closed' : case'[i] = "Resolved"
        BY DEF IInv, Shape, Book
  <2> QED BY <2>1, <2>2 DEF SignedOffStays
<1> QED BY <1>1, Invariant, PTL DEF Spec, SignedOff
-----------------------------------------------------------------------------
(* One incident for each alert. *)

(* An alert waits to be routed or is in one incident; the ids not used yet  *)
(* have no alerts.                                                          *)
Membership ==
    /\ \A a \in 1 .. raisedAlerts : a \in batch \/ \E i \in Ids : a \in members[i]
    /\ \A i \in Ids : members[i] \cap batch = {}
    /\ \A i, j \in Ids : i # j => members[i] \cap members[j] = {}
    /\ \A i \in Ids : i > made => members[i] = {}

InHand(i) == \E k \in 1 .. Len(touched) : touched[k] = i

(* An alert knows its incident, or its incident has still to be handled.    *)
Told ==
    /\ joined \in [Ids -> Ids \cup {None}]
    /\ \A a, i \in Ids : joined[a] = i => a \in members[i]
    /\ \A i \in Ids : \A a \in members[i] : joined[a] = i \/ InHand(i)
    /\ phase \in {"idle", "plan"} => touched = <<>>

LEMMA MembershipInit == Init => Membership /\ Told
BY Domains DEF Init, Membership, Told

(* A batch is of alerts that no incident has.                               *)
LEMMA ReportKeepsMembership ==
    ASSUME IInv, Membership, Told, NEW last \in raisedAlerts + 1 .. MaxAlerts, NEW time, NEW where,
           Report(last, time, where)
    PROVE  Membership' /\ Told'
<1>1. /\ batch' = raisedAlerts + 1 .. last /\ raisedAlerts' = last /\ phase' = "route"
      /\ UNCHANGED <<joined, made, members, touched>>
      BY DEF Report, Fresh
<1>2. batch = {} /\ raisedAlerts \in Nat /\ last \in Nat
      BY DEF Report, IInv, Shape
<1>3. \A i \in Ids : members[i] \subseteq 1 .. raisedAlerts
      BY DEF IInv, Tables
<1>4. Membership'
  <2>1. \A a \in 1 .. last : a \in 1 .. raisedAlerts \/ a \in raisedAlerts + 1 .. last
        BY <1>2
  <2>2. \A i \in Ids : members[i] \cap (raisedAlerts + 1 .. last) = {}
        BY <1>2, <1>3
  <2> QED BY <1>1, <1>2, <2>1, <2>2 DEF Membership
<1>5. Told'
      BY <1>1 DEF Told, InHand
<1> QED BY <1>4, <1>5

(* A cluster goes to one incident, old or new, and that one is handed over. *)
LEMMA RouteKeepsMembership == IInv /\ Membership /\ Told /\ Route => Membership' /\ Told'
<1> SUFFICES ASSUME IInv, Membership, Told, Route PROVE Membership' /\ Told'
    OBVIOUS
<1> DEFINE C == Cluster(Min(batch))
<1>1. /\ phase = "route" /\ batch # {} /\ C \subseteq batch /\ C # {}
      /\ batch' = batch \ C /\ phase' \in {"touch", "route"}
      /\ UNCHANGED <<raisedAlerts, joined>>
      BY ClusterOfBatch DEF Route, IInv, Shape, alerts
<1>2. \/ \E i \in Host(C) :
            /\ members' = [members EXCEPT ![i] = members[i] \cup C]
            /\ touched' = Append(touched, i) /\ made' = made
      \/ /\ made' = made + 1 /\ members' = [members EXCEPT ![made + 1] = C]
         /\ touched' = Append(touched, made + 1)
      BY DEF Route
<1> HIDE DEF C
<1>3. /\ made \in Nat /\ made < MaxAlerts /\ MaxAlerts \in Nat
      /\ members \in [Ids -> SUBSET (1 .. raisedAlerts)] /\ touched \in Seq(Ids)
  <2>1. /\ raisedAlerts \in Nat /\ made \in Nat /\ raisedAlerts <= MaxAlerts
        /\ IsFiniteSet(1 .. raisedAlerts) /\ batch \in SUBSET (1 .. raisedAlerts)
        /\ made + Cardinality(batch) <= raisedAlerts /\ touched \in Seq(1 .. made)
        BY FS_Interval DEF IInv, Shape
  <2>2. IsFiniteSet(batch) /\ Cardinality(batch) \in Nat /\ Cardinality(batch) # 0
        BY <1>1, <2>1, FS_Subset, FS_CardinalityType, FS_EmptySet
  <2>3. 1 .. made \subseteq Ids
        BY <2>1, <2>2, Domains
  <2>4. touched \in Seq(Ids)
        BY <2>1, <2>3
  <2> QED BY <2>1, <2>2, <2>4, Domains DEF IInv, Tables
<1>4. PICK i \in Ids :
          /\ members' = [members EXCEPT ![i] = members[i] \cup C]
          /\ touched' = Append(touched, i)
          /\ made' \in Nat /\ i <= made' /\ made <= made'
  <2>1. CASE \E i \in Host(C) :
            /\ members' = [members EXCEPT ![i] = members[i] \cup C]
            /\ touched' = Append(touched, i) /\ made' = made
    <3>1. PICK i \in Host(C) : /\ members' = [members EXCEPT ![i] = members[i] \cup C]
                               /\ touched' = Append(touched, i)
          BY <2>1
    <3>2. i \in Ids /\ i <= made
          BY <1>3, Domains DEF Host, CanAbsorb, IInv, Shape
    <3>3. made' = made
          BY <2>1
    <3>4. made' \in Nat /\ i <= made' /\ made <= made'
          BY <1>3, <3>2, <3>3
    <3> QED BY <3>1, <3>2, <3>4
  <2>2. CASE /\ made' = made + 1 /\ members' = [members EXCEPT ![made + 1] = C]
             /\ touched' = Append(touched, made + 1)
    <3>1. made + 1 \in Ids /\ made + 1 > made
          BY <1>3, Domains
    <3>2. members[made + 1] \cup C = C
          BY <3>1 DEF Membership
    <3>3. members' = [members EXCEPT ![made + 1] = members[made + 1] \cup C]
          BY <2>2, <3>2
    <3>4. made' \in Nat /\ made + 1 <= made' /\ made <= made'
          BY <1>3, <2>2
    <3> QED BY <2>2, <3>1, <3>3, <3>4
  <2> QED BY <1>2, <2>1, <2>2
<1>5. \A j \in Ids : members'[j] = IF j = i THEN members[i] \cup C ELSE members[j]
      BY <1>3, <1>4
<1>6. Membership'
  <2>1. ASSUME NEW a \in 1 .. raisedAlerts PROVE a \in batch' \/ \E j \in Ids : a \in members'[j]
        BY <1>1, <1>5 DEF Membership
  <2>2. ASSUME NEW j \in Ids PROVE members'[j] \cap batch' = {}
        BY <1>1, <1>5 DEF Membership
  <2>3. ASSUME NEW j \in Ids, NEW k \in Ids, j # k PROVE members'[j] \cap members'[k] = {}
        BY <1>1, <1>5, <2>3 DEF Membership
  <2>4. ASSUME NEW j \in Ids, j > made' PROVE members'[j] = {}
    <3>1. j \in Nat /\ i \in Nat /\ j # i /\ j > made
          BY <1>3, <1>4, <2>4, Domains
    <3> QED BY <1>5, <3>1 DEF Membership
  <2> QED BY <1>1, <2>1, <2>2, <2>3, <2>4 DEF Membership
<1>7. Told'
  <2>1. \A j \in Ids : InHand(j) => InHand(j)'
        BY <1>3, <1>4 DEF InHand
  <2>2. InHand(i)'
    <3>1. Len(touched') = Len(touched) + 1 /\ touched'[Len(touched) + 1] = i /\ Len(touched) \in Nat
          BY <1>3, <1>4
    <3> QED BY <3>1 DEF InHand
  <2>3. ASSUME NEW j \in Ids, NEW a \in members'[j] PROVE joined[a] = j \/ InHand(j)'
        BY <1>5, <2>1, <2>2 DEF Told
  <2>4. ASSUME NEW a \in Ids, NEW j \in Ids, joined[a] = j PROVE a \in members'[j]
        BY <1>5, <2>4 DEF Told
  <2> QED BY <1>1, <2>3, <2>4 DEF Told
<1> QED BY <1>6, <1>7

(* An incident that is handled tells the alerts that have joined it.        *)
LEMMA TouchKeepsMembership == IInv /\ Membership /\ Told /\ Touch => Membership' /\ Told'
<1> SUFFICES ASSUME IInv, Membership, Told, Touch PROVE Membership' /\ Told'
    OBVIOUS
<1> DEFINE i == Head(touched)
<1>1. /\ phase = "touch" /\ phase' = "touch" /\ touched # <<>> /\ touched' = Tail(touched)
      /\ joined' = [a \in Ids |-> IF a \in members[i] /\ joined[a] = None THEN i ELSE joined[a]]
      /\ UNCHANGED <<raisedAlerts, batch, made, members>>
      BY DEF Touch, JoinAll, incidents
<1>2. i \in Ids /\ i = touched[1]
  <2>1. made \in Nat /\ touched \in Seq(1 .. made) /\ made <= MaxAlerts
    <3>1. batch = {}
          BY <1>1 DEF IInv, Shape
    <3> QED BY <3>1, FS_EmptySet, Domains DEF IInv, Shape
  <2> QED BY <1>1, <2>1, Domains
<1>3. \A j \in Ids : InHand(j) /\ j # i => InHand(j)'
  <2> SUFFICES ASSUME NEW j \in Ids, j # i, NEW k \in 1 .. Len(touched), touched[k] = j
               PROVE  InHand(j)'
      BY DEF InHand
  <2>1. Len(touched) \in Nat /\ touched \in Seq(1 .. made)
        BY DEF IInv, Shape
  <2>2. k # 1 /\ k - 1 \in 1 .. Len(touched') /\ touched'[k - 1] = j
        BY <1>1, <1>2, <2>1
  <2> QED BY <2>2 DEF InHand
<1>4. joined' \in [Ids -> Ids \cup {None}]
      BY <1>1, <1>2 DEF Told
<1> HIDE DEF i
<1>5. ASSUME NEW a \in Ids, NEW j \in Ids, joined'[a] = j PROVE a \in members[j]
      BY <1>1, <1>5 DEF Told
<1>6. ASSUME NEW j \in Ids, NEW a \in members[j] PROVE joined'[a] = j \/ InHand(j)'
  <2>1. a \in Ids
        BY Domains DEF IInv, Tables, Shape
  <2>2. joined[a] = None \/ (joined[a] \in Ids /\ joined[a] = j)
        BY <2>1 DEF Told, Membership
  <2>3. CASE j = i
        BY <1>1, <2>1, <2>2, <2>3, Domains
  <2>4. CASE j # i
        BY <1>1, <1>3, <2>1, <2>4, Domains DEF Told, Membership
  <2> QED BY <2>3, <2>4
<1>7. Told'
      BY <1>1, <1>4, <1>5, <1>6 DEF Told
<1> QED BY <1>1, <1>7 DEF Membership

LEMMA MembershipNext == IInv /\ Membership /\ Told /\ [Next]_vars => Membership' /\ Told'
<1> SUFFICES ASSUME IInv, Membership, Told, [Next]_vars PROVE Membership' /\ Told'
    OBVIOUS
<1> DEFINE Quiet == /\ UNCHANGED <<raisedAlerts, batch, made, members, joined, touched>>
                    /\ phase' \in {"idle", "plan"} => phase \in {"idle", "plan"} \/ touched = <<>>
<1>1. ASSUME Quiet PROVE Membership' /\ Told'
      BY <1>1 DEF Membership, Told, InHand
<1>2. CASE Route
      BY <1>2, RouteKeepsMembership
<1>3. CASE Touch
      BY <1>3, TouchKeepsMembership
<1>4. CASE \E last \in raisedAlerts + 1 .. MaxAlerts, time \in 1 .. now :
              \E where \in [Fresh(last) -> Sites] : Report(last, time, where)
      BY <1>4, ReportKeepsMembership
<1>5. CASE Tick \/ Touched \/ PlanDispatch
      BY <1>1, <1>5 DEF Tick, Touched, PlanDispatch, alerts, incidents, queues
<1>6. CASE \E x \in plan : CarryOut(x)
  <2>1. PICK x \in plan : CarryOut(x)
        BY <1>6
  <2>2. UNCHANGED <<raisedAlerts, batch, made, members, joined, touched>>
        BY <2>1 DEF CarryOut, Assign, incidents
  <2>3. phase' \in {"idle", "plan"} => phase \in {"idle", "plan"}
        BY <2>1 DEF CarryOut
  <2> QED BY <1>1, <2>2, <2>3
<1>7. CASE \E i \in Ids : \/ AcknowledgeIncident(i) \/ ResolveIncident(i) \/ AssignRecommended(i)
                          \/ \E u \in Units : AssignIncident(i, u)
  <2>1. phase = "idle" /\ UNCHANGED <<raisedAlerts, batch, made, members, joined, touched>>
        BY <1>7 DEF AcknowledgeIncident, ResolveIncident, AssignRecommended, AssignIncident, Assign,
                    incidents, queues
  <2> QED BY <1>1, <2>1
<1>8. CASE \E a \in Ids : AcknowledgeAlert(a) \/ ResolveAlert(a)
      BY <1>1, <1>8 DEF AcknowledgeAlert, ResolveAlert, incidents, queues
<1>9. CASE \E u \in Units : \/ \E on \in BOOLEAN : SetResponderAvailable(u, on)
                            \/ \E p \in Posts : CreateResponder(u, p) \/ SetResponderPosition(u, p)
      BY <1>1, <1>9 DEF SetResponderAvailable, CreateResponder, SetResponderPosition, alerts, incidents, queues
<1>10. CASE UNCHANGED vars
      BY <1>1, <1>10 DEF vars, alerts, incidents, queues
<1> QED BY <1>2, <1>3, <1>4, <1>5, <1>6, <1>7, <1>8, <1>9, <1>10 DEF Next

(* Between two handlers every alert is in one incident and knows it, whoever *)
(* it was reported with and however batches were cut into clusters:          *)
(* Correlator::ingest and after_incident_touched.                            *)
THEOREM AlertsHaveOneIncident == Spec => []OneIncidentEach
<1>1. IInv /\ Membership /\ Told => OneIncidentEach
  <2> SUFFICES ASSUME IInv, Membership, Told, phase = "idle", NEW a \in 1 .. raisedAlerts
               PROVE  joined[a] \in Ids /\ \A i \in Ids : a \in members[i] <=> joined[a] = i
      BY DEF OneIncidentEach
  <2>1. batch = {} /\ a \in Ids
        BY Domains DEF IInv, Shape
  <2>2. \A i \in Ids : ~InHand(i)
        BY DEF Told, InHand
  <2> QED BY <2>1, <2>2 DEF Membership, Told
<1> QED BY <1>1, Invariant, MembershipInit, MembershipNext, PTL DEF Spec
-----------------------------------------------------------------------------
(* Plans. *)

(* No case and no unit is in two pairs.                                     *)
Disjoint(M) == \A x, y \in M : x[1] = y[1] \/ x[2] = y[2] => x = y

Planned == Disjoint(plan) /\ PlanHolds

(* A step that leaves no pair to carry out.                                 *)
LEMMA NothingPlanned ==
    ASSUME plan' = {}
    PROVE  Planned'
BY DEF Planned, Disjoint, PlanHolds

(* A new case with automatic dispatch plans for the unit it recommends.     *)
LEMMA TouchPlans ==
    ASSUME IInv, Touch
    PROVE  Planned'
<1>1. PICK i, u : i = Head(touched) /\ u = Recommend(i, available, post)
      OBVIOUS
<1>2. CASE plan' = {}
      BY <1>2, NothingPlanned
<1>3. CASE plan' # {}
  <2>1. plan = {} /\ case[i] = "None" /\ case' = [case EXCEPT ![i] = "Open"] /\ available' = available
        BY <1>1, <1>3 DEF Touch, units
  <2>2. u # None /\ plan' = {<<i, u>>}
        BY <1>1, <1>3, <2>1 DEF Touch
  <2>3. u \in available
        BY <1>1, <2>2, RecommendIsOffered
  <2>4. i \in Ids
    <3>1. phase = "touch" /\ touched # <<>>
          BY DEF Touch
    <3>2. batch = {}
          BY <3>1 DEF IInv, Shape
    <3>3. made \in Nat /\ made <= MaxAlerts /\ i \in 1 .. made
          BY <1>1, <3>1, <3>2, FS_EmptySet, Domains DEF IInv, Shape
    <3> QED BY <3>3, Domains
  <2>5. case'[i] = "Open"
        BY <2>1, <2>4 DEF IInv, Tables
  <2>6. PlanHolds'
        BY <2>1, <2>2, <2>3, <2>5 DEF PlanHolds, Assignable, Unresolved
  <2>7. Disjoint(plan')
        BY <2>2 DEF Disjoint
  <2> QED BY <2>6, <2>7 DEF Planned, Disjoint
<1> QED BY <1>2, <1>3

(* What assign_optimal proposes is a matching of open cases and free units. *)
LEMMA DispatchPlans ==
    ASSUME PlanDispatch
    PROVE  Planned'
<1>1. plan' \in Matchings /\ case' = case /\ available' = available
      BY DEF PlanDispatch, cases, units
<1>2. plan' \subseteq Pairs /\ Disjoint(plan')
      BY <1>1 DEF Matchings, Disjoint
<1>3. \A x \in Pairs : case[x[1]] \in Unresolved /\ x[2] \in available
      BY DEF Pairs, Undecided
<1>4. PlanHolds'
      BY <1>1, <1>2, <1>3 DEF PlanHolds, Assignable
<1> QED BY <1>2, <1>4 DEF Planned, Disjoint

(* One pair carried out takes neither case nor unit from another.           *)
LEMMA CarryOutSpares ==
    ASSUME IInv, Planned, NEW x \in plan, CarryOut(x)
    PROVE  Planned'
<1>1. PICK free : /\ free = (available \cup Freed(responder[x[1]])) \ {x[2]}
                  /\ available' = free
                  /\ case' = [case EXCEPT ![x[1]] = "Dispatched"]
                  /\ plan' = plan \ {x}
      BY DEF CarryOut, Assign
<1>2. ASSUME NEW y \in plan, y # x PROVE case'[y[1]] \in Unresolved /\ y[2] \in available'
  <2>1. y[1] # x[1] /\ y[2] # x[2]
        BY <1>2 DEF Planned, Disjoint
  <2>2. case[y[1]] \in Unresolved /\ y[2] \in available
        BY DEF Planned, PlanHolds, Assignable
  <2>3. case'[y[1]] = case[y[1]]
    <3>1. y[1] \in Ids
      <4>1. made \in Nat /\ made <= MaxAlerts
        <5>1. batch \in SUBSET (1 .. raisedAlerts) /\ raisedAlerts \in Nat /\ IsFiniteSet(1 .. raisedAlerts)
              BY FS_Interval DEF IInv, Shape
        <5>2. Cardinality(batch) \in Nat
              BY <5>1, FS_Subset, FS_CardinalityType
        <5> QED BY <5>2, Domains DEF IInv, Shape
      <4>2. y[1] \in 1 .. made
            BY DEF IInv, Tables
      <4> QED BY <4>1, <4>2, Domains
    <3> QED BY <1>1, <2>1, <3>1 DEF IInv, Tables
  <2>4. y[2] \in available'
        BY <1>1, <2>1, <2>2
  <2> QED BY <2>2, <2>3, <2>4
<1>3. PlanHolds'
      BY <1>1, <1>2 DEF PlanHolds, Assignable
<1>4. Disjoint(plan')
      BY <1>1 DEF Planned, Disjoint
<1> QED BY <1>3, <1>4 DEF Planned, Disjoint

LEMMA PlannedNext == IInv /\ Planned /\ [Next]_vars => Planned'
<1> SUFFICES ASSUME IInv, Planned, [Next]_vars PROVE Planned'
    OBVIOUS
<1>1. CASE Touch
      BY <1>1, TouchPlans
<1>2. CASE PlanDispatch
      BY <1>2, DispatchPlans
<1>3. CASE \E x \in plan : CarryOut(x)
      BY <1>3, CarryOutSpares
<1>4. ASSUME phase \in {"idle", "route"}, plan' = plan PROVE Planned'
      BY <1>4, NothingPlanned DEF IInv, Shape
<1>5. CASE Tick \/ Route
      BY <1>4, <1>5 DEF Tick, Route, queues
<1>6. CASE Touched
      BY <1>6, NothingPlanned DEF Touched, queues
<1>7. CASE \E last \in raisedAlerts + 1 .. MaxAlerts, time \in 1 .. now :
              \E where \in [Fresh(last) -> Sites] : Report(last, time, where)
      BY <1>4, <1>7 DEF Report
<1>8. CASE \E i \in Ids : \/ AcknowledgeIncident(i) \/ ResolveIncident(i) \/ AssignRecommended(i)
                          \/ \E u \in Units : AssignIncident(i, u)
      BY <1>4, <1>8 DEF AcknowledgeIncident, ResolveIncident, AssignRecommended, AssignIncident, queues
<1>9. CASE \E a \in Ids : AcknowledgeAlert(a) \/ ResolveAlert(a)
      BY <1>4, <1>9 DEF AcknowledgeAlert, ResolveAlert, queues
<1>10. CASE \E u \in Units : \/ \E on \in BOOLEAN : SetResponderAvailable(u, on)
                             \/ \E p \in Posts : CreateResponder(u, p) \/ SetResponderPosition(u, p)
      BY <1>4, <1>10 DEF SetResponderAvailable, CreateResponder, SetResponderPosition, queues
<1>11. CASE UNCHANGED vars
      BY <1>11 DEF vars, cases, units, queues, Planned, Disjoint, PlanHolds, Assignable
<1> QED BY <1>1, <1>2, <1>3, <1>5, <1>6, <1>7, <1>8, <1>9, <1>10, <1>11 DEF Next

(* A pair of an accepted plan can still be sent when its turn comes: the    *)
(* pairs carried out before it took neither its case nor its unit, and a    *)
(* new case is dispatched a unit that is free (plan_dispatch with apply,    *)
(* after_incident_touched).                                                 *)
THEOREM PlansCanBeCarriedOut == Spec => []PlanHolds
<1>1. Init => Planned
      BY DEF Init, Planned, Disjoint, PlanHolds
<1>2. Planned => PlanHolds
      BY DEF Planned
<1> QED BY <1>1, <1>2, Invariant, PlannedNext, PTL DEF Spec

-----------------------------------------------------------------------------
(* Stages. *)

(* An alert not raised yet has no state.                                    *)
Unraised == \A a \in Ids : a > raisedAlerts => alert[a] = "None"

LEMMA Ranks ==
    /\ AlertRank["None"] = 0 /\ AlertRank["Open"] = 1 /\ AlertRank["Acknowledged"] = 2
    /\ AlertRank["Dispatched"] = 3 /\ AlertRank["Closed"] = 4
    /\ CaseRank["None"] = 0 /\ CaseRank["Open"] = 1 /\ CaseRank["Acknowledged"] = 2
    /\ CaseRank["Dispatched"] = 3 /\ CaseRank["Resolved"] = 4
<1>1. ASSUME NEW s \in {"None", "Closed"} \cup OpenStates
      PROVE  AlertRank[s] = CASE s = "None" -> 0 [] s = "Open" -> 1 [] s = "Acknowledged" -> 2
                              [] s = "Dispatched" -> 3 [] s = "Closed" -> 4
      BY DEF AlertRank
<1>2. ASSUME NEW s \in {"None", "Resolved"} \cup Unresolved
      PROVE  CaseRank[s] = CASE s = "None" -> 0 [] s = "Open" -> 1 [] s = "Acknowledged" -> 2
                             [] s = "Dispatched" -> 3 [] s = "Resolved" -> 4
      BY DEF CaseRank
<1> QED BY <1>1, <1>2 DEF OpenStates, Unresolved

(* No alert goes back, and none is raised but by raise_alert.               *)
AlertsMove == Unraised' /\ \A a \in Ids : AlertRank[alert[a]] <= AlertRank[alert'[a]]

CasesMove == \A i \in Ids : CaseRank[case[i]] <= CaseRank[case'[i]]

LEMMA RankRange ==
    ASSUME IInv, NEW i \in Ids
    PROVE  AlertRank[alert[i]] \in 0 .. 4 /\ CaseRank[case[i]] \in 0 .. 4
<1>1. alert[i] \in AlertStates /\ case[i] \in CaseStates
      BY DEF IInv, Tables
<1> QED BY <1>1, Ranks DEF AlertStates, CaseStates, OpenStates, Unresolved

LEMMA AlertsStay ==
    ASSUME IInv, Unraised, UNCHANGED <<raisedAlerts, alert>>
    PROVE  AlertsMove
<1>1. \A a \in Ids : AlertRank[alert[a]] <= AlertRank[alert[a]]
      BY RankRange
<1> QED BY <1>1 DEF AlertsMove, Unraised

LEMMA CasesStay ==
    ASSUME IInv, case' = case
    PROVE  CasesMove
<1>1. \A i \in Ids : CaseRank[case[i]] <= CaseRank[case[i]]
      BY RankRange
<1> QED BY <1>1 DEF CasesMove

(* Alerts on the board are given a later state.                             *)
LEMMA SetAlertsMoves ==
    ASSUME IInv, Unraised, raisedAlerts' = raisedAlerts, NEW A, NEW s, SetAlerts(A, s),
           s \in {"Acknowledged", "Dispatched", "Closed"},
           \A a \in Ids : a \in A => alert[a] \in OpenStates,
           s = "Acknowledged" => \A a \in Ids : a \in A => alert[a] = "Open"
    PROVE  AlertsMove
<1>1. \A a \in Ids : alert'[a] = IF a \in A THEN s ELSE alert[a]
      BY DEF SetAlerts
<1>2. Unraised'
      BY <1>1 DEF Unraised, OpenStates
<1>3. ASSUME NEW a \in Ids PROVE AlertRank[alert[a]] <= AlertRank[alert'[a]]
  <2>1. CASE a \in A
    <3>1. alert'[a] = s /\ alert[a] \in OpenStates
          BY <1>1, <2>1
    <3>2. s = "Acknowledged" => alert[a] = "Open"
          BY <2>1
    <3> QED BY <3>1, <3>2, Ranks DEF OpenStates
  <2>2. CASE a \notin A
    <3>1. alert'[a] = alert[a]
          BY <1>1, <2>2
    <3> QED BY <3>1, RankRange
  <2> QED BY <2>1, <2>2
<1> QED BY <1>2, <1>3 DEF AlertsMove

(* Only alerts that have no state yet are raised.                           *)
LEMMA ReportMoves ==
    ASSUME IInv, Unraised, NEW last \in raisedAlerts + 1 .. MaxAlerts, NEW time, NEW where,
           Report(last, time, where)
    PROVE  AlertsMove
<1>1. /\ raisedAlerts \in Nat /\ last \in Nat /\ raisedAlerts < last /\ raisedAlerts' = last
      /\ \A a \in Ids : alert'[a] = IF a \in raisedAlerts + 1 .. last THEN "Open" ELSE alert[a]
      BY DEF IInv, Shape, Report, Fresh
<1>2. \A a \in Ids : a \in Nat
      BY Domains
<1>3. ASSUME NEW a \in Ids, a > last PROVE alert'[a] = "None"
      BY <1>1, <1>2, <1>3 DEF Unraised
<1>4. ASSUME NEW a \in Ids PROVE AlertRank[alert[a]] <= AlertRank[alert'[a]]
  <2>1. CASE a \in raisedAlerts + 1 .. last
    <3>1. alert[a] = "None" /\ alert'[a] = "Open"
          BY <1>1, <1>2, <2>1 DEF Unraised
    <3> QED BY <3>1, Ranks
  <2>2. CASE a \notin raisedAlerts + 1 .. last
    <3>1. alert'[a] = alert[a]
          BY <1>1, <2>2
    <3> QED BY <3>1, RankRange
  <2> QED BY <2>1, <2>2
<1>5. Unraised'
      BY <1>1, <1>3 DEF Unraised
<1> QED BY <1>4, <1>5 DEF AlertsMove

(* One case changes.                                                        *)
LEMMA OneCaseMoves ==
    ASSUME IInv, NEW i, NEW s, case' = [case EXCEPT ![i] = s],
           i \in Ids => CaseRank[case[i]] <= CaseRank[s]
    PROVE  CasesMove
<1>1. \A j \in Ids : case'[j] = IF j = i THEN s ELSE case[j]
      BY DEF IInv, Tables
<1>2. ASSUME NEW j \in Ids PROVE CaseRank[case[j]] <= CaseRank[case'[j]]
  <2>1. CASE j = i
        BY <1>1, <2>1
  <2>2. CASE j # i
    <3>1. case'[j] = case[j]
          BY <1>1, <2>2
    <3> QED BY <3>1, RankRange
  <2> QED BY <2>1, <2>2
<1> QED BY <1>2 DEF CasesMove

(* A case still to be resolved has not gone further than "Dispatched".      *)
LEMMA UnresolvedRank ==
    ASSUME NEW s \in Unresolved
    PROVE  CaseRank[s] <= CaseRank["Dispatched"] /\ CaseRank[s] <= CaseRank["Resolved"]
BY Ranks DEF Unresolved

LEMMA AssignMoves ==
    ASSUME IInv, Unraised, NEW i, NEW u, Assignable(i, u), Assign(i, u)
    PROVE  AlertsMove /\ CasesMove
<1>1. /\ raisedAlerts' = raisedAlerts /\ case' = [case EXCEPT ![i] = "Dispatched"]
      /\ SetAlerts(AlertsInHand(i), "Dispatched")
      BY DEF Assign
<1>2. AlertsMove
      BY <1>1, SetAlertsMoves DEF AlertsInHand
<1>3. CaseRank[case[i]] <= CaseRank["Dispatched"]
      BY UnresolvedRank DEF Assignable
<1> QED BY <1>1, <1>2, <1>3, OneCaseMoves

LEMMA StagesNext == IInv /\ Unraised /\ [Next]_vars => AlertsMove /\ CasesMove
<1> SUFFICES ASSUME IInv, Unraised, [Next]_vars PROVE AlertsMove /\ CasesMove
    OBVIOUS
<1>1. CASE Tick \/ Route \/ Touched \/ PlanDispatch \/ UNCHANGED vars
      BY <1>1, AlertsStay, CasesStay DEF Tick, Route, Touched, PlanDispatch, vars, alerts, cases
<1>2. CASE Touch
  <2>1. PICK i : i = Head(touched)
        OBVIOUS
  <2>2. case' = case \/ (case[i] = "None" /\ case' = [case EXCEPT ![i] = "Open"])
        BY <1>2, <2>1 DEF Touch
  <2>3. CaseRank["None"] <= CaseRank["Open"]
        BY Ranks
  <2>4. CasesMove
        BY <2>2, <2>3, CasesStay, OneCaseMoves
  <2> QED BY <1>2, <2>4, AlertsStay DEF Touch
<1>3. ASSUME NEW x \in plan, CarryOut(x) PROVE AlertsMove /\ CasesMove
      BY <1>3, AssignMoves DEF CarryOut
<1>4. ASSUME NEW last \in raisedAlerts + 1 .. MaxAlerts, NEW time, NEW where, Report(last, time, where)
      PROVE  AlertsMove /\ CasesMove
      BY <1>4, ReportMoves, CasesStay DEF Report, cases
<1>5. ASSUME NEW i \in Ids, AcknowledgeIncident(i) PROVE AlertsMove /\ CasesMove
  <2>1. /\ case[i] \in Unresolved /\ raisedAlerts' = raisedAlerts
        /\ case' = [case EXCEPT ![i] = IF case[i] = "Open" THEN "Acknowledged" ELSE case[i]]
        /\ SetAlerts(AlertsToAcknowledge(i), "Acknowledged")
        BY <1>5 DEF AcknowledgeIncident
  <2>2. AlertsMove
        BY <2>1, SetAlertsMoves DEF AlertsToAcknowledge, OpenStates
  <2>3. PICK s : s = IF case[i] = "Open" THEN "Acknowledged" ELSE case[i]
        OBVIOUS
  <2>4. CaseRank[case[i]] <= CaseRank[s]
    <3>1. CASE case[i] = "Open"
          BY <2>3, <3>1, Ranks
    <3>2. CASE case[i] # "Open"
      <4>1. s = case[i]
            BY <2>3, <3>2
      <4> QED BY <4>1, RankRange
    <3> QED BY <3>1, <3>2
  <2> QED BY <2>1, <2>2, <2>3, <2>4, OneCaseMoves
<1>6. ASSUME NEW i \in Ids, ResolveIncident(i) PROVE AlertsMove /\ CasesMove
  <2>1. /\ case[i] \in Unresolved /\ raisedAlerts' = raisedAlerts
        /\ case' = [case EXCEPT ![i] = "Resolved"]
        /\ SetAlerts(AlertsToClose(i), "Closed")
        BY <1>6 DEF ResolveIncident
  <2>2. AlertsMove
        BY <2>1, SetAlertsMoves DEF AlertsToClose, AlertsInHand
  <2>3. CaseRank[case[i]] <= CaseRank["Resolved"]
        BY <2>1, UnresolvedRank
  <2> QED BY <2>1, <2>2, <2>3, OneCaseMoves
<1>7. ASSUME NEW i \in Ids, NEW u, AssignIncident(i, u) PROVE AlertsMove /\ CasesMove
      BY <1>7, AssignMoves DEF AssignIncident
<1>8. ASSUME NEW a \in Ids, AcknowledgeAlert(a) \/ ResolveAlert(a) PROVE AlertsMove /\ CasesMove
  <2>1. CASE AcknowledgeAlert(a)
    <3>1. /\ alert[a] = "Open" /\ raisedAlerts' = raisedAlerts /\ case' = case
          /\ SetAlerts({a}, "Acknowledged")
          BY <2>1 DEF AcknowledgeAlert, cases
    <3>2. \A b \in Ids : b \in {a} => alert[b] \in OpenStates /\ alert[b] = "Open"
          BY <3>1 DEF OpenStates
    <3> QED BY <3>1, <3>2, SetAlertsMoves, CasesStay
  <2>2. CASE ResolveAlert(a)
    <3>1. /\ alert[a] \in OpenStates /\ raisedAlerts' = raisedAlerts /\ case' = case
          /\ SetAlerts({a}, "Closed")
          BY <2>2 DEF ResolveAlert, cases
    <3>2. \A b \in Ids : b \in {a} => alert[b] \in OpenStates
          BY <3>1
    <3> QED BY <3>1, <3>2, SetAlertsMoves, CasesStay
  <2> QED BY <1>8, <2>1, <2>2
<1>9. CASE \E u \in Units : \/ \E on \in BOOLEAN : SetResponderAvailable(u, on)
                            \/ \E p \in Posts : CreateResponder(u, p) \/ SetResponderPosition(u, p)
      BY <1>9, AlertsStay, CasesStay
      DEF SetResponderAvailable, CreateResponder, SetResponderPosition, alerts, cases
<1> QED BY <1>1, <1>2, <1>3, <1>4, <1>5, <1>6, <1>7, <1>8, <1>9 DEF Next, AssignRecommended

(* No handler takes an alert or a case back to an earlier stage, in         *)
(* whatever order batches, operators, plans and resolutions come: an        *)
(* acknowledgement after a dispatch, or an assignment after an alert was    *)
(* closed on its own, leaves the later stage standing                       *)
(* (acknowledge_incident, assign_incident, resolve_incident).               *)
THEOREM StagesMoveForward == Spec => MovesForward
<1>1. Init => Unraised
      BY DEF Init, Unraised
<1>2. IInv /\ Unraised /\ [Next]_vars => Unraised'
      BY StagesNext DEF AlertsMove
<1>3. IInv /\ Unraised /\ [Next]_vars => [NothingGoesBack]_vars
      BY StagesNext DEF AlertsMove, CasesMove, NothingGoesBack
<1> QED BY <1>1, <1>2, <1>3, Invariant, PTL DEF Spec, MovesForward
=============================================================================
