------------------------------ MODULE Dispatch ------------------------------
(***************************************************************************)
(* Incidents and the units sent to them: alert::Correlator folds alerts    *)
(* that are near in space and time into incidents, app::Platform keeps a   *)
(* case for each incident (recommendation, assignment, resolution) and the *)
(* dispatch::ResponderPool knows which unit is free.                       *)
(*                                                                         *)
(* Only alerts an operator must act on reach the correlator, and no other  *)
(* alert is modelled here.  A batch of alerts is routed cluster by cluster *)
(* and the touched incidents are handled one by one, as the two loops of   *)
(* correlate() do; an accepted plan is carried out pair by pair.  No other *)
(* handler runs in between (phase # "idle").                               *)
(***************************************************************************)
EXTENDS Integers, Sequences, FiniteSets, FiniteSetsExt

CONSTANTS
    MaxAlerts,      \* bound of the instance
    MaxNow,         \* bound of the instance
    Units,          \* responder ids, from 1
    Places,         \* positions, on a line of integers, with a road junction each
    Sites, Posts,   \* the places where alerts come from, and where units stand
    Island,         \* the places no road connects with the others
    Radius, Window, \* CorrelationConfig: space_radius_m, time_window_ms
    AutoDispatch    \* the values of PlatformConfig::auto_dispatch, a set of Booleans

ASSUME DispatchAssumption ==
    /\ MaxAlerts \in Nat /\ MaxNow \in Nat
    /\ Units \subseteq Nat \ {0}
    /\ Places \subseteq Int /\ Sites \cup Posts \cup Island \subseteq Places
    /\ Radius \in Nat /\ Window \in Nat /\ AutoDispatch \subseteq BOOLEAN

VARIABLES
    now,            \* Platform::now_ms_
    phase,          \* "idle", "route", "touch" or "plan"
    raisedAlerts,   \* the alerts raised so far are 1 .. raisedAlerts
    alert,          \* Alert::state: "None", "Open", "Acknowledged", "Dispatched", "Closed"
    at, raised,     \* Alert::position, raised_ms
    joined,         \* Alert::incident, 0 for none
    batch,          \* the fresh alerts not routed yet
    made,           \* the incidents created so far are 1 .. made
    members,        \* Incident::alerts
    centroid,       \* Incident::centroid, scaled
    live,           \* Correlator::open_idx_
    closed,         \* the incidents with status Closed
    touched,        \* what Correlator::ingest has returned and is not handled yet
    case,           \* IncidentCase::state, "None" before the case exists
    acked,          \* the cases with acknowledged_ms set
    recommended,    \* IncidentCase::recommended, 0 for none
    responder,      \* IncidentCase::responder, 0 for none
    registered,     \* the units of ResponderPool
    available,      \* Responder::available, the set of units where it is set
    assigned,       \* ResponderInfo::assigned, 0 for none
    post,           \* Responder::pos
    plan            \* the pairs of an accepted plan not carried out yet

alerts == <<raisedAlerts, alert, at, raised, joined>>
incidents == <<made, members, centroid, live, closed>>
cases == <<case, acked, recommended, responder>>
units == <<registered, available, assigned, post>>
queues == <<batch, touched, plan>>
vars == <<now, phase, alerts, incidents, cases, units, queues>>

Ids == 1 .. MaxAlerts       \* of alerts, and of incidents: no more than alerts

None == 0                   \* kNoId

-----------------------------------------------------------------------------
(* Space and time. *)

Gap(x, y) == IF x <= y THEN y - x ELSE x - y

Scale == 12                 \* makes the mean of up to four places exact

At(a) == Scale * at[a]

Centroid(A) == MapThenSumSet(At, A) \div Cardinality(A)

Near(a, b) ==
    /\ Gap(at[a], at[b]) <= Radius
    /\ Gap(raised[a], raised[b]) <= Window

-----------------------------------------------------------------------------
(* The correlator. *)

(* Everything linked to alert a by a chain of near alerts of the batch.     *)
Cluster(a) ==
    {b \in batch : \A S \in SUBSET batch :
        a \in S /\ (\A x \in S, y \in batch : Near(x, y) => y \in S) => b \in S}

LastUpdate(i) == Max({raised[a] : a \in members[i]})

(* Mutant of CanAbsorb: an incident signed off takes more alerts. *)
CanAbsorbClosed(i, C) ==
    /\ i \in 1 .. made
    /\ Gap(Centroid(C), centroid[i]) <= Scale * Radius

(* Near enough, and not quiet for longer than the window.  That the cluster *)
(* may be older than the incident by more than the window is not tested.    *)
CanAbsorb(i, C) ==
    /\ i \in live /\ i \notin closed
    /\ Min({raised[a] : a \in C}) - LastUpdate(i) <= Window
    /\ Gap(Centroid(C), centroid[i]) <= Scale * Radius

(* The nearest of them, the latest of equally near ones. *)
Host(C) ==
    {i \in Ids :
        /\ CanAbsorb(i, C)
        /\ \A j \in Ids : CanAbsorb(j, C) =>
              LET di == Gap(Centroid(C), centroid[i])
                  dj == Gap(Centroid(C), centroid[j])
              IN  di < dj \/ (di = dj /\ j <= i)}

(* The alerts of a batch are the next ones, up to last. *)
Fresh(last) == raisedAlerts + 1 .. last

(* raise_alert for each alert of a batch, and the start of ingest, which    *)
(* drops from the scanned set what has been quiet for the window.  The      *)
(* alerts of a batch share a time; those from one user's fix, which may be  *)
(* an offline device's from some time ago, share a place.                   *)
Report(last, time, where) ==
    /\ phase = "idle"
    /\ \A a, b \in Fresh(last) : time < now => where[a] = where[b]
    /\ phase' = "route"
    /\ raisedAlerts' = last
    /\ alert' = [a \in Ids |-> IF a \in Fresh(last) THEN "Open" ELSE alert[a]]
    /\ at' = [a \in Ids |-> IF a \in Fresh(last) THEN where[a] ELSE at[a]]
    /\ raised' = [a \in Ids |-> IF a \in Fresh(last) THEN time ELSE raised[a]]
    /\ batch' = Fresh(last)
    /\ live' = {i \in live : i \notin closed /\ time - LastUpdate(i) <= Window}
    /\ UNCHANGED <<now, joined, made, members, centroid, closed, touched, cases, units, plan>>

(* ingest, one cluster: it joins an incident or opens one. *)
Route ==
    /\ phase = "route"
    /\ \E C \in {Cluster(Min(batch))} :
          /\ batch' = batch \ C
          /\ phase' = IF batch = C THEN "touch" ELSE "route"
          /\ \/ \E i \in Host(C) :
                   /\ members' = [members EXCEPT ![i] = @ \cup C]
                   /\ centroid' = [centroid EXCEPT ![i] = Centroid(members[i] \cup C)]
                   /\ touched' = Append(touched, i)
                   /\ UNCHANGED <<made, live>>
             \/ /\ Host(C) = {}
                /\ made' = made + 1
                /\ members' = [members EXCEPT ![made + 1] = C]
                /\ centroid' = [centroid EXCEPT ![made + 1] = Centroid(C)]
                /\ live' = live \cup {made + 1}
                /\ touched' = Append(touched, made + 1)
    /\ UNCHANGED <<now, alerts, closed, cases, units, plan>>

-----------------------------------------------------------------------------
(* Recommendation. *)

(* The road junction nearest to the incident. *)
Junction(i) ==
    CHOOSE p \in Places : \A q \in Places :
        Gap(Scale * p, centroid[i]) <= Gap(Scale * q, centroid[i])

RoadDistance(p, i) == Gap(p, Junction(i))

Reachable(p, i) == p \in Island <=> Junction(i) \in Island

(* The free unit with the shortest way, the first of equally near ones,     *)
(* when the units stand at their places in stand.                           *)
Nearest(i, free, stand) ==
    {u \in free :
        /\ Reachable(stand[u], i)
        /\ \A v \in free : Reachable(stand[v], i) =>
              \/ RoadDistance(stand[u], i) < RoadDistance(stand[v], i)
              \/ RoadDistance(stand[u], i) = RoadDistance(stand[v], i) /\ u <= v}

Recommend(i, free, stand) ==
    IF Nearest(i, free, stand) = {} THEN None ELSE CHOOSE u \in Nearest(i, free, stand) : TRUE

Unresolved == {"Open", "Acknowledged", "Dispatched"}

(* The cases of R are recommended a unit of free. *)
RecommendAll(R, free, stand) ==
    recommended' = [i \in Ids |-> IF i \in R THEN Recommend(i, free, stand) ELSE recommended[i]]

Undecided == {i \in Ids : case[i] \in Unresolved /\ responder[i] = None}

-----------------------------------------------------------------------------
(* Cases. *)

OpenStates == {"Open", "Acknowledged", "Dispatched"}

(* set_alert_state for the alerts of A. *)
SetAlerts(A, s) == alert' = [a \in Ids |-> IF a \in A THEN s ELSE alert[a]]

(* Mutant of JoinAll: only the alert that opened the incident is told. *)
JoinFirst(i) ==
    joined' = [a \in Ids |->
                  IF a = Min(members[i]) /\ joined[a] = None THEN i ELSE joined[a]]

JoinAll(i) ==
    joined' = [a \in Ids |-> IF a \in members[i] /\ joined[a] = None THEN i ELSE joined[a]]

(* after_incident_touched, for one incident. *)
Touch ==
    /\ phase = "touch" /\ plan = {} /\ touched # <<>>
    /\ LET i == Head(touched) IN
          /\ JoinAll(i)
          /\ touched' = Tail(touched)
          /\ IF case[i] = "None"
             THEN /\ case' = [case EXCEPT ![i] = "Open"]
                  /\ RecommendAll({i}, available, post)
                  /\ \E auto \in AutoDispatch :
                        plan' = IF auto /\ Recommend(i, available, post) # None
                                THEN {<<i, Recommend(i, available, post)>>} ELSE {}
             ELSE /\ RecommendAll({i} \cap Undecided, available, post)
                  /\ UNCHANGED <<case, plan>>
    /\ UNCHANGED <<now, phase, raisedAlerts, alert, at, raised, incidents, acked, responder, units, batch>>

Touched ==
    /\ phase = "touch" /\ plan = {} /\ touched = <<>>
    /\ phase' = "idle"
    /\ UNCHANGED <<now, alerts, incidents, cases, units, queues>>

AlertsInHand(i) == {a \in members[i] : alert[a] \in OpenStates}

(* acknowledge_incident does not touch alerts already dispatched. *)
AlertsToAcknowledge(i) == {a \in members[i] : alert[a] = "Open"}

AcknowledgeIncident(i) ==
    /\ phase = "idle" /\ case[i] \in Unresolved /\ i \notin acked
    /\ acked' = acked \cup {i}
    /\ case' = [case EXCEPT ![i] = IF @ = "Open" THEN "Acknowledged" ELSE @]
    /\ SetAlerts(AlertsToAcknowledge(i), "Acknowledged")
    /\ UNCHANGED <<now, phase, raisedAlerts, at, raised, joined, incidents, recommended, responder,
                   units, queues>>

(* free_responder, if there is a unit to free. *)
Freed(u) == {u} \ {None}

(* Mutant of Sent: the unit sent before keeps its assignment. *)
SentWithoutRecall(i, u) == [assigned EXCEPT ![u] = i]

Sent(i, u) ==
    [v \in Units |-> IF v = u THEN i ELSE IF v = responder[i] THEN None ELSE assigned[v]]

(* Mutant of Disappointed: nobody is recommended another unit. *)
DisappointedNobody(i, u) == {}

(* The other cases that were recommended the unit just sent. *)
Disappointed(i, u) == {j \in Undecided \ {i} : recommended[j] = u}

(* assign_incident, past its checks: a unit sent before is called back. *)
Assign(i, u) ==
    LET free == (available \cup Freed(responder[i])) \ {u} IN
    /\ available' = free
    /\ assigned' = Sent(i, u)
    /\ responder' = [responder EXCEPT ![i] = u]
    /\ case' = [case EXCEPT ![i] = "Dispatched"]
    /\ SetAlerts(AlertsInHand(i), "Dispatched")
    /\ RecommendAll(Disappointed(i, u), free, post)
    /\ UNCHANGED <<now, raisedAlerts, at, raised, joined, incidents, acked, registered, post,
                   batch, touched>>

Assignable(i, u) == case[i] \in Unresolved /\ u \in available

(* An operator names a unit, or takes the recommended one. *)
AssignIncident(i, u) ==
    /\ phase = "idle" /\ Assignable(i, u)
    /\ Assign(i, u)
    /\ UNCHANGED <<phase, plan>>

AssignRecommended(i) == AssignIncident(i, recommended[i])

(* Mutant of AlertsToClose: alerts already dispatched stay on the board. *)
AlertsToCloseUndispatched(i) == {a \in members[i] : alert[a] \in {"Open", "Acknowledged"}}

AlertsToClose(i) == AlertsInHand(i)

ResolveIncident(i) ==
    /\ phase = "idle" /\ case[i] \in Unresolved
    /\ case' = [case EXCEPT ![i] = "Resolved"]
    /\ closed' = closed \cup {i}
    /\ live' = live \ {i}
    /\ available' = available \cup Freed(responder[i])
    /\ assigned' = [u \in Units |-> IF u = responder[i] THEN None ELSE assigned[u]]
    /\ SetAlerts(AlertsToClose(i), "Closed")
    /\ RecommendAll(Undecided \ {i}, available \cup Freed(responder[i]), post)
    /\ UNCHANGED <<now, phase, raisedAlerts, at, raised, joined, made, members, centroid, acked, responder,
                   registered, post, queues>>

(* An operator handles one alert: the incident is not told. *)
AcknowledgeAlert(a) ==
    /\ phase = "idle" /\ alert[a] = "Open"
    /\ SetAlerts({a}, "Acknowledged")
    /\ UNCHANGED <<now, phase, raisedAlerts, at, raised, joined, incidents, cases, units, queues>>

ResolveAlert(a) ==
    /\ phase = "idle" /\ alert[a] \in OpenStates
    /\ SetAlerts({a}, "Closed")
    /\ UNCHANGED <<now, phase, raisedAlerts, at, raised, joined, incidents, cases, units, queues>>

-----------------------------------------------------------------------------
(* Plans. *)

Pairs == {x \in Undecided \X available : Reachable(post[x[2]], x[1])}

Matchings == {M \in SUBSET Pairs : \A x, y \in M : x[1] = y[1] \/ x[2] = y[2] => x = y}

Cost(x) == RoadDistance(post[x[2]], x[1])

(* assign_optimal: as many incidents as can be reached, by the least travel. *)
Optimal(M) ==
    \A N \in Matchings :
        \/ Cardinality(N) < Cardinality(M)
        \/ Cardinality(N) = Cardinality(M) /\ MapThenSumSet(Cost, M) <= MapThenSumSet(Cost, N)

(* plan_dispatch with apply: each pair goes through assign_incident, whose  *)
(* checks it passes (PlanHolds).                                            *)
PlanDispatch ==
    /\ phase = "idle"
    /\ plan' \in {M \in Matchings : M # {} /\ Optimal(M)}
    /\ phase' = "plan"
    /\ UNCHANGED <<now, alerts, incidents, cases, units, batch, touched>>

CarryOut(x) ==
    /\ x \in plan /\ Assignable(x[1], x[2])
    /\ plan' = plan \ {x}
    /\ phase' = IF phase = "plan" /\ plan = {x} THEN "idle" ELSE phase
    /\ Assign(x[1], x[2])

-----------------------------------------------------------------------------
(* Units. *)

CreateResponder(u, p) ==
    /\ phase = "idle" /\ u \notin registered
    /\ registered' = registered \cup {u}
    /\ available' = available \cup {u}
    /\ post' = [post EXCEPT ![u] = p]
    /\ RecommendAll(Undecided, available \cup {u}, post')
    /\ UNCHANGED <<now, phase, alerts, incidents, case, acked, responder, assigned, queues>>

(* A unit in the field cannot be made available; it can be made unavailable. *)
SetResponderAvailable(u, on) ==
    /\ phase = "idle" /\ u \in registered
    /\ on => assigned[u] = None
    /\ available' = IF on THEN available \cup {u} ELSE available \ {u}
    /\ RecommendAll(Undecided, available', post)
    /\ UNCHANGED <<now, phase, alerts, incidents, case, acked, responder, registered, assigned, post,
                   queues>>

(* Recommendations are left alone. *)
SetResponderPosition(u, p) ==
    /\ phase = "idle" /\ u \in registered
    /\ post' = [post EXCEPT ![u] = p]
    /\ UNCHANGED <<now, phase, alerts, incidents, cases, registered, available, assigned, queues>>

-----------------------------------------------------------------------------
Init ==
    /\ now = 1 /\ phase = "idle"
    /\ raisedAlerts = 0 /\ batch = {} /\ touched = <<>> /\ plan = {}
    /\ alert = [a \in Ids |-> "None"] /\ at = [a \in Ids |-> 0] /\ raised = [a \in Ids |-> 0]
    /\ joined = [a \in Ids |-> None]
    /\ made = 0 /\ members = [i \in Ids |-> {}] /\ centroid = [i \in Ids |-> 0] /\ live = {} /\ closed = {}
    /\ case = [i \in Ids |-> "None"] /\ acked = {}
    /\ recommended = [i \in Ids |-> None] /\ responder = [i \in Ids |-> None]
    /\ registered = {} /\ available = {}
    /\ assigned = [u \in Units |-> None] /\ post = [u \in Units |-> 0]

Tick ==
    /\ phase = "idle" /\ now < MaxNow
    /\ now' = now + 1
    /\ UNCHANGED <<phase, alerts, incidents, cases, units, queues>>

Next ==
    \/ Tick \/ Route \/ Touch \/ Touched \/ PlanDispatch
    \/ \E x \in plan : CarryOut(x)
    \/ \E last \in raisedAlerts + 1 .. MaxAlerts, time \in 1 .. now :
          \E where \in [Fresh(last) -> Sites] : Report(last, time, where)
    \/ \E i \in Ids :
          \/ AcknowledgeIncident(i) \/ ResolveIncident(i) \/ AssignRecommended(i)
          \/ \E u \in Units : AssignIncident(i, u)
    \/ \E a \in Ids : AcknowledgeAlert(a) \/ ResolveAlert(a)
    \/ \E u \in Units :
          \/ \E on \in BOOLEAN : SetResponderAvailable(u, on)
          \/ \E p \in Posts : CreateResponder(u, p) \/ SetResponderPosition(u, p)

Spec == Init /\ [][Next]_vars

-----------------------------------------------------------------------------
(* Properties. *)

(* Every variable stays in its domain. *)
TypeOK ==
    /\ now \in Nat /\ phase \in {"idle", "route", "touch", "plan"}
    /\ raisedAlerts \in 0 .. MaxAlerts /\ made \in 0 .. MaxAlerts
    /\ alert \in [Ids -> {"None", "Closed"} \cup OpenStates]
    /\ at \in [Ids -> Int] /\ raised \in [Ids -> Nat]
    /\ joined \in [Ids -> Ids \cup {None}]
    /\ batch \subseteq Ids /\ live \subseteq Ids /\ closed \subseteq Ids /\ acked \subseteq Ids
    /\ members \in [Ids -> SUBSET Ids] /\ centroid \in [Ids -> Int]
    /\ case \in [Ids -> {"None", "Resolved"} \cup Unresolved]
    /\ recommended \in [Ids -> Units \cup {None}] /\ responder \in [Ids -> Units \cup {None}]
    /\ registered \subseteq Units /\ available \subseteq Units
    /\ assigned \in [Units -> Ids \cup {None}] /\ post \in [Units -> Int]
    /\ plan \subseteq Ids \X Units

(* A unit is in the field for at most one case, the one that names it; it   *)
(* comes back when the case is resolved or given to another unit, and no    *)
(* unit is lost on the way (assign_incident, resolve_incident,              *)
(* free_responder, set_responder_available).                                *)
UnitsAreWhereTheyAreSent ==
    /\ \A u \in Units, i \in Ids :
          assigned[u] = i <=> case[i] = "Dispatched" /\ responder[i] = u
    /\ \A i \in Ids : case[i] = "Dispatched" => responder[i] # None
    /\ \A i \in Ids : responder[i] # None => case[i] \in {"Dispatched", "Resolved"}
    /\ \A u \in available : assigned[u] = None

(* An undecided case recommends a unit that can be sent (recommend and its  *)
(* callers).                                                                *)
RecommendedIsFree ==
    \A i \in Undecided : recommended[i] # None => recommended[i] \in available

(* Every alert raised belongs to exactly one incident, and knows it         *)
(* (Correlator::ingest, after_incident_touched).                            *)
OneIncidentEach ==
    phase = "idle" =>
        \A a \in 1 .. raisedAlerts :
            joined[a] \in Ids /\ \A i \in Ids : a \in members[i] <=> joined[a] = i

(* Resolving an incident leaves none of its alerts on the board, whatever   *)
(* order its alerts came, were handled and were dispatched in.              *)
ResolvedIsHandled ==
    \A i \in Ids : case[i] = "Resolved" =>
        i \in closed /\ \A a \in members[i] : alert[a] = "Closed"

(* An incident signed off takes no more alerts and is never reopened        *)
(* (Correlator::close, ingest).                                             *)
SignedOffStays ==
    \A i \in closed : i \in closed' /\ members'[i] = members[i] /\ case'[i] = "Resolved"

SignedOff == [][SignedOffStays]_vars

AlertRank == [s \in {"None", "Closed"} \cup OpenStates |->
    CASE s = "None" -> 0 [] s = "Open" -> 1 [] s = "Acknowledged" -> 2
      [] s = "Dispatched" -> 3 [] s = "Closed" -> 4]

CaseRank == [s \in {"None", "Resolved"} \cup Unresolved |->
    CASE s = "None" -> 0 [] s = "Open" -> 1 [] s = "Acknowledged" -> 2
      [] s = "Dispatched" -> 3 [] s = "Resolved" -> 4]

(* No handler, called in whatever order, takes an alert or a case back to   *)
(* an earlier stage.                                                        *)
NothingGoesBack ==
    \A i \in Ids : AlertRank[alert[i]] <= AlertRank[alert'[i]] /\ CaseRank[case[i]] <= CaseRank[case'[i]]

MovesForward == [][NothingGoesBack]_vars

(* Carrying out one pair of a plan leaves the others valid (plan_dispatch). *)
PlanHolds == \A x \in plan : Assignable(x[1], x[2])

(* What the recommendation says it is: the nearest unit available now.      *)
RecommendsNearest ==
    phase = "idle" => \A i \in Undecided : recommended[i] = Recommend(i, available, post)
=============================================================================
