------------------------------ MODULE Cohesion ------------------------------
(* One group: group::CohesionMonitor::update and the pass of the platform    *)
(* that drives it (Platform::run_cohesion, src/app/platform.cpp), with every *)
(* operation that changes what the pass sees or forgets what it saw.         *)
(*                                                                          *)
(* A place is a point on a line.  "Seen" is what the pass tests of a member: *)
(* sharing, with a fix in this session, and the device not offline.  The     *)
(* group's alerts are counted by subject: a member for a Straggler alert,    *)
(* TheGroup for a GroupFragmented one.                                       *)
EXTENDS Integers, Sequences, FiniteSets, FiniteSetsExt, SequencesExt

CONSTANTS
    Users,        \* tourists that may belong to the group
    TheGroup,     \* the subject of a GroupFragmented alert
    Places,       \* where a tourist may be
    Thresholds,   \* group::CohesionConfig: records [proximity, straggler, confirm]
    Interval,     \* PlatformConfig::cohesion_interval_ms
    Gap,          \* longest time between two calls of Platform::tick
    MaxNow,       \* bound: the clock of the model stops here
    MaxChanges    \* bound: how often the monitor is rebuilt

ASSUME CohesionAssumption ==
    /\ TheGroup \notin Users
    /\ Places \subseteq Int
    /\ Thresholds \subseteq [proximity : Nat, straggler : Nat, confirm : Nat]
    /\ Interval \in Nat
    /\ Gap \in Nat \ {0}
    /\ MaxNow \in Nat
    /\ MaxChanges \in Nat

Subjects == Users \cup {TheGroup}

VARIABLES
    now,          \* Platform::now_ms_
    due,          \* next_cohesion_ms_
    place,        \* last_fix of who shares, has a fix and is online
    members,      \* GroupRecord::members, in the order they joined
    cfg,          \* GroupRecord::cfg
    changes,      \* how many times the monitor was rebuilt
    apart,        \* GroupRecord::stragglers; TheGroup when it is fragmented
    since,        \* Straggler::since_ms; fragmented_since
    alerted,      \* the stragglers whose separation outlasted confirm_ms
    unsettled,    \* open alerts of the group, by subject
    (* what only the properties read *)
    together,     \* the last time a subject was looked at and not found apart
    strayed,      \* since when a tourist has been away from his party, looked at or not
    warned,       \* who had an alert since he was last found together
    carried       \* subjects with alerts open when the monitor was rebuilt

group    == <<members, cfg, changes>>
record   == <<apart, since, alerted>>
history  == <<together, strayed, warned, carried>>
vars     == <<now, due, place, group, record, unsettled, history>>

-----------------------------------------------------------------------------
(* What the monitor computes of the members it is given.                     *)

(* Whom the pass can see. *)
seen == DOMAIN place

Distance(x, y) == IF x <= y THEN y - x ELSE x - y

Watched == ToSet(members) \cap seen

Near(u, v) == Distance(place[u], place[v]) <= cfg.proximity

(* Everyone linked to u by a chain of near ones of S: no part of S that has u *)
(* and not him is away from the rest.                                         *)
Component(S, u) ==
    {v \in S : \A T \in SUBSET (S \ {v}) :
        u \in T => \E x \in T, y \in S \ T : Near(x, y)}

Components == {Component(S, u) : S \in {Watched}, u \in Watched}

(* Who of C comes first in the order the members joined in. *)
First(order, C) == CHOOSE i \in DOMAIN order :
    order[i] \in C /\ \A j \in DOMAIN order : order[j] \in C => i <= j

(* The largest component, of equally large ones the one with the member who *)
(* joined first.                                                            *)
Largest(comps, order) ==
    CHOOSE C \in comps : \A D \in comps \ {C} :
        \/ Cardinality(D) < Cardinality(C)
        \/ Cardinality(D) = Cardinality(C) /\ First(order, C) < First(order, D)

(* The party proper. *)
Party == Largest(Components, members)

(* Beyond straggler_m of the centroid of party P. *)
Beyond(P, u) ==
    Distance(Cardinality(P) * place[u], SumFunctionOnSet(place, P)) > Cardinality(P) * cfg.straggler

TooFew == Cardinality(Watched) < 2

(* Not of the party and beyond the threshold. *)
Stragglers(P) == {u \in Watched \ P : Beyond(P, u)}

Fragmented(P) == Watched # P

(* The stragglers there are, whether or not a pass looks at them. *)
Strays == IF TooFew THEN {} ELSE UNION {Stragglers(P) : P \in {Party}}

-----------------------------------------------------------------------------
(* The pass of the platform, at time t.                                      *)

(* Since when each of F, found apart now, has been found apart. *)
Since(t, F) ==
    [s \in Subjects |->
        IF s \notin F THEN 0 ELSE IF s \in apart THEN since[s] ELSE t]

(* Mutant of Outlasted: the clock of the group, who has been split for longer. *)
OutlastedByGroup(t, F, s) == t - Since(t, F)[TheGroup] >= cfg.confirm

Outlasted(t, F, s) == t - Since(t, F)[s] >= cfg.confirm

(* The alerts of a pass that finds F apart: one for each straggler, and one *)
(* for a split when nobody straggles and no such alert is open.             *)
Raised(t, F) ==
    {s \in F :
        /\ Outlasted(t, F, s)
        /\ IF s = TheGroup
           THEN F = {TheGroup} /\ unsettled[TheGroup] = 0
           ELSE s \notin alerted}

(* Mutant of Alerted: who has had his alert is not remembered. *)
AlertedNow(t, F) == Raised(t, F) \cap Users

Alerted(t, F) == (Raised(t, F) \cup alerted) \cap F \cap Users

(* The monitor's MemberRejoined event. *)
Rejoined(F) == TheGroup \in apart /\ TheGroup \notin F

(* Mutant of Settled: only the GroupFragmented alert is resolved. *)
SettledGroupOnly(F) == [unsettled EXCEPT ![TheGroup] = IF Rejoined(F) THEN 0 ELSE @]

(* All open alerts of a group that is whole again are resolved. *)
Settled(F) == IF Rejoined(F) THEN [s \in Subjects |-> 0] ELSE unsettled

(* With fewer than two members to look at the pass forgets its stragglers   *)
(* and leaves the monitor as it was.                                        *)
LookAtTooFew(t) ==
    /\ TooFew
    /\ apart' = apart \ Users
    /\ since' = [s \in Subjects |-> IF s \in Users THEN 0 ELSE since[s]]
    /\ alerted' = {}
    /\ together' = [s \in Subjects |-> IF s \in Users THEN t ELSE together[s]]
    /\ warned' = warned \ Users
    /\ UNCHANGED <<unsettled, carried>>

LookAtParty(t) ==
    /\ ~TooFew
    /\ \E P \in {Party} :
       \E F \in {Stragglers(P) \cup (IF Fragmented(P) THEN {TheGroup} ELSE {})} :
          /\ apart' = F
          /\ since' = Since(t, F)
          /\ alerted' = Alerted(t, F)
          /\ unsettled' = [s \in Subjects |->
                              Settled(F)[s] + (IF s \in Raised(t, F) THEN 1 ELSE 0)]
          /\ together' = [s \in Subjects |-> IF s \in F THEN together[s] ELSE t]
          /\ warned' = (warned \cup Raised(t, F)) \cap F
          /\ carried' = IF Rejoined(F) THEN {} ELSE carried

-----------------------------------------------------------------------------
(* The operations.                                                           *)

(* For who is with his party after the step, strayed follows the clock. *)
Strayed ==
    \E S \in {Strays'} : strayed' = [u \in Users |-> IF u \in S THEN strayed[u] ELSE now']

(* Mutant of NextPass: the interval is counted twice. *)
NextPassLate(t) == t + 2 * Interval + Gap

NextPass(t) == t + Interval

(* Platform::tick. *)
Tick ==
    \E t \in now + 1 .. now + Gap :
        /\ t <= MaxNow
        /\ now' = t
        /\ IF t >= due
           THEN (LookAtTooFew(t) \/ LookAtParty(t)) /\ due' = NextPass(t)
           ELSE UNCHANGED <<due, record, unsettled, together, warned, carried>>
        /\ UNCHANGED <<place, group>>
        /\ Strayed

(* A fix of a user who shares, the first of a session or after a trip       *)
(* offline included: he is seen, and where he is.                           *)
Report(u, p) ==
    /\ u \in seen => place[u] # p
    /\ place' = [v \in seen \cup {u} |-> IF v = u THEN p ELSE place[v]]
    /\ UNCHANGED <<now, due, group, record, unsettled, together, warned, carried>>
    /\ Strayed

Unseen(u) == place' = [v \in seen \ {u} |-> place[v]]

GoOffline(u) ==
    /\ u \in seen
    /\ Unseen(u)
    /\ UNCHANGED <<now, due, group, record, unsettled, together, warned, carried>>
    /\ Strayed

(* rebuild_monitor: a new monitor, no stragglers, not fragmented.  The      *)
(* group's alerts stay as they are.                                         *)
Rebuild ==
    /\ changes < MaxChanges
    /\ changes' = changes + 1
    /\ apart' = {}
    /\ since' = [s \in Subjects |-> 0]
    /\ alerted' = {}
    /\ UNCHANGED <<now, due, unsettled>>
    /\ together' = [s \in Subjects |-> now]
    /\ strayed' = [u \in Users |-> now]
    /\ warned' = {}
    /\ carried' = {s \in Subjects : unsettled[s] > 0}

(* Who was not seen may have been sharing, offline or without a fix.  The   *)
(* monitor of his group is rebuilt.                                         *)
StopSharing(u) ==
    /\ Unseen(u)
    /\ \/ u \in ToSet(members) /\ Rebuild /\ UNCHANGED <<members, cfg>>
       \/ /\ u \notin ToSet(members)
          /\ UNCHANGED <<now, due, group, record, unsettled, history>>

AddMember(u) ==
    /\ u \notin ToSet(members)
    /\ members' = Append(members, u)
    /\ Rebuild
    /\ UNCHANGED <<cfg, place>>

(* Also what add_member does first to the group a user leaves for another. *)
RemoveMember(u) ==
    /\ u \in ToSet(members)
    /\ members' = SelectSeq(members, LAMBDA v : v # u)
    /\ Rebuild
    /\ UNCHANGED <<cfg, place>>

SetGroupThresholds(c) ==
    /\ cfg' = c
    /\ Rebuild
    /\ UNCHANGED <<members, place>>

(* An operator resolves an alert. *)
ResolveAlert(s) ==
    /\ unsettled[s] > 0
    /\ unsettled' = [unsettled EXCEPT ![s] = @ - 1]
    /\ UNCHANGED <<now, due, place, group, record, history>>

(* A group as create_group and add_member leave it, before anyone shares.   *)
Init ==
    /\ now = 0
    /\ due = 0
    /\ place = [u \in {} |-> 0]
    /\ members \in SetToAllKPermutations(Users)
    /\ cfg \in Thresholds
    /\ changes = 0
    /\ apart = {}
    /\ since = [s \in Subjects |-> 0]
    /\ alerted = {}
    /\ unsettled = [s \in Subjects |-> 0]
    /\ together = [s \in Subjects |-> 0]
    /\ strayed = [u \in Users |-> 0]
    /\ warned = {}
    /\ carried = {}

Next ==
    \/ Tick
    \/ \E u \in Users, p \in Places : Report(u, p)
    \/ \E u \in Users : GoOffline(u) \/ StopSharing(u) \/ AddMember(u) \/ RemoveMember(u)
    \/ \E c \in Thresholds : SetGroupThresholds(c)
    \/ \E s \in Subjects : ResolveAlert(s)

Spec == Init /\ [][Next]_vars

-----------------------------------------------------------------------------
(* Properties.                                                               *)

TypeOK ==
    /\ now \in Nat
    /\ due \in Nat
    /\ seen \subseteq Users
    /\ place \in [seen -> Places]
    /\ members \in Seq(Users)
    /\ cfg \in Thresholds
    /\ changes \in 0 .. MaxChanges
    /\ apart \subseteq Subjects
    /\ since \in [Subjects -> Nat]
    /\ alerted \subseteq apart \ {TheGroup}
    /\ unsettled \in [Subjects -> Nat]

(* An alert is raised only after a separation that outlasted confirm_ms: no *)
(* pass that could tell found the subject together for that long ("measures *)
(* how long it has lasted and raises the alert only once it has outlasted   *)
(* confirm_ms", run_cohesion).                                              *)
SeparationIsConfirmed ==
    [][\A s \in Subjects :
        unsettled'[s] > unsettled[s] => now' - together[s] > cfg.confirm]_vars

(* The longest time between two passes; with an interval of 0 every tick is *)
(* one.                                                                     *)
Wait == IF Interval = 0 THEN Gap ELSE Interval + Gap - 1

(* A member who stays away from the party, however he moves meanwhile, has  *)
(* his alert after confirm_ms and the two passes it takes to see him go and *)
(* to see him gone, as long as the group itself is not changed.             *)
StragglerIsAlertedInTime ==
    \A u \in Users :
        now - strayed[u] >= cfg.confirm + 2 * Wait - 1 => u \in alerted

(* One separation of a member raises one alert, also after an operator has  *)
(* resolved that alert (the alerted flag run_cohesion carries over).        *)
OneAlertPerSeparation ==
    [][\A u \in Users : unsettled'[u] > unsettled[u] => u \notin warned]_vars

(* While the monitor finds the group whole, none of its alerts is open, but *)
(* those raised before the monitor was last rebuilt.                        *)
SettledWhenWhole ==
    TheGroup \notin apart => \A s \in Subjects : unsettled[s] > 0 => s \in carried

(* The pass resolves a member's alert when he is back with his party        *)
(* ("separation resolved, close the alert", MemberRejoined).                *)
LostIsNotRejoined ==
    [][\A u \in Users :
        now' # now /\ unsettled'[u] < unsettled[u] => u \in seen \ Strays]_vars
=============================================================================
