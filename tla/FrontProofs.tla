---------------------------- MODULE FrontProofs -----------------------------
(***************************************************************************)
(* Theorems of what stands in front of the platform, for any accounts,     *)
(* incidents, requests, rates and locks: the two gates grant what the       *)
(* documented table grants, a session acts for who signed in with it, a     *)
(* request is served by right, whoever is shown a position is on record,    *)
(* nobody gets more than the rate, guessing passwords is bounded, and a     *)
(* story is told on time.                                                   *)
(***************************************************************************)
EXTENDS MCFront, SequenceTheorems, FiniteSetTheorems, WellFoundedInduction, TLAPS

-----------------------------------------------------------------------------
(* The gates against the table. *)

Me(u) == [id |-> u, role |-> users[u].role]

Staff(u) == users[u].role \in {Admin, Operator}

(* A unit that holds a case is on it, and opens who is affected.            *)
LEMMA HoldsFact ==
    ASSUME NEW u \in Ids, NEW i \in 1..Len(cases)
    PROVE  Holds(world, Me(u), cases[i]) <=> users[u].role = Responder /\ OnCase(u, i)
BY DEF Me, Holds, UnitOf, world, OnCase, Ids

LEMMA ViewFact ==
    ASSUME NEW u \in Ids, NEW s
    PROVE  MayViewLocation(world, Me(u), s) <=>
              s = u \/ Staff(u) \/ (users[u].role = Responder /\ Assigned(u, s))
<1>1. MayViewLocation(world, Me(u), s) <=>
          s = u \/ Staff(u) \/ \E i \in 1..Len(cases) :
             cases[i].open /\ Holds(world, Me(u), cases[i]) /\ s \in cases[i].affected
      BY DEF MayViewLocation, Me, IsStaff, Staff, world
<1>2. (\E i \in 1..Len(cases) :
           cases[i].open /\ Holds(world, Me(u), cases[i]) /\ s \in cases[i].affected)
      <=> users[u].role = Responder /\ Assigned(u, s)
      BY HoldsFact DEF Assigned, OnCase
<1> QED BY <1>1, <1>2

LEMMA IncidentViewFact ==
    ASSUME NEW u \in Ids, NEW x \in 1..Len(cases)
    PROVE  /\ IncidentView(world, Me(u), cases[x]) = "Full" <=>
                 Staff(u) \/ (users[u].role = Responder /\ OnCase(u, x))
           /\ IncidentView(world, Me(u), cases[x]) # "None" <=> Right(u, "incident_read", x)
<1>1. IsStaff(Me(u)) <=> Staff(u)
      BY DEF Me, IsStaff, Staff
<1>2. /\ IncidentView(world, Me(u), cases[x]) = "Full" <=> Staff(u) \/ Holds(world, Me(u), cases[x])
      /\ IncidentView(world, Me(u), cases[x]) # "None" <=>
            Staff(u) \/ Holds(world, Me(u), cases[x]) \/ u \in cases[x].affected
      BY <1>1 DEF IncidentView, Me
<1> QED BY <1>2, HoldsFact DEF Right, Staff

(* The endpoint that an operation belongs to, and what its gate asks. *)
LEMMA ApiGateOf ==
    ASSUME NEW w, NEW me, NEW x, NEW op
    PROVE  /\ op \in UserOps => (ApiGate(w, op, me, x) <=> UsersApi(w, op, me, x))
           /\ op \in IncidentOps => (ApiGate(w, op, me, x) <=> IncidentsApi(w, op, me, x))
           /\ op \in GroupOps \cup {"zone_detail", "plan", "history", "evidence", "stats",
                                    "settings_read", "scenario"}
              => (ApiGate(w, op, me, x) <=> IsStaff(me))
           /\ op \in {"zone_change", "audit", "settings_change"}
              => (ApiGate(w, op, me, x) <=> me.role = Admin)
           /\ op = "units_read" => (ApiGate(w, op, me, x) <=> IsStaff(me) \/ me.role = Responder)
           /\ op \in AlertOps \cup ConsoleOps
                    \cup {"zones_read", "unit_create", "unit_available", "unit_move"}
              => ApiGate(w, op, me, x)
<1> USE DEF UserOps, GroupOps, ZoneOps, AlertOps, IncidentOps, UnitOps
<1>1. op \in UserOps => ApiGate(w, op, me, x) = UsersApi(w, op, me, x)
      BY DEF ApiGate
<1>2. op \in IncidentOps => ApiGate(w, op, me, x) = IncidentsApi(w, op, me, x)
      BY DEF ApiGate
<1>3. /\ op \in GroupOps => ApiGate(w, op, me, x) = GroupsApi(me)
      /\ op = "plan" => ApiGate(w, op, me, x) = DispatchApi(me)
      /\ op = "scenario" => ApiGate(w, op, me, x) = ScenarioApi(me)
      BY DEF ApiGate
<1>4. /\ op = "history" => ApiGate(w, op, me, x) = HistoryApi(me)
      /\ op = "evidence" => ApiGate(w, op, me, x) = EvidenceApi(me)
      /\ op = "stats" => ApiGate(w, op, me, x) = StatsApi(me)
      /\ op = "audit" => ApiGate(w, op, me, x) = AuditApi(me)
      BY DEF ApiGate
<1>5. /\ op \in ZoneOps => ApiGate(w, op, me, x) = ZonesApi(op, me)
      /\ op \in UnitOps => ApiGate(w, op, me, x) = RespondersApi(op, me)
      /\ op \in {"settings_read", "settings_change"} => ApiGate(w, op, me, x) = SettingsApi(op, me)
      BY DEF ApiGate
<1>6. op \in AlertOps \cup ConsoleOps => ApiGate(w, op, me, x) = TRUE
      BY DEF ApiGate, AlertsApi, ConsoleOps
<1>7. /\ GroupsApi(me) = IsStaff(me) /\ DispatchApi(me) = IsStaff(me) /\ ScenarioApi(me) = IsStaff(me)
      /\ HistoryApi(me) = IsStaff(me) /\ EvidenceApi(me) = IsStaff(me) /\ StatsApi(me) = IsStaff(me)
      /\ AuditApi(me) = (me.role = Admin)
      BY DEF GroupsApi, DispatchApi, ScenarioApi, HistoryApi, EvidenceApi, StatsApi, AuditApi
<1>8. /\ op = "zones_read" => ZonesApi(op, me) = TRUE
      /\ op = "zone_detail" => ZonesApi(op, me) = IsStaff(me)
      /\ op = "zone_change" => ZonesApi(op, me) = (me.role = Admin)
      BY DEF ZonesApi
<1>9. /\ op = "settings_read" => SettingsApi(op, me) = IsStaff(me)
      /\ op = "settings_change" => SettingsApi(op, me) = (me.role = Admin)
      BY DEF SettingsApi
<1>10. /\ op = "units_read" => RespondersApi(op, me) = (IsStaff(me) \/ me.role = Responder)
       /\ op \in {"unit_create", "unit_available", "unit_move"} => RespondersApi(op, me) = TRUE
      BY DEF RespondersApi
<1> HIDE DEF UserOps, IncidentOps
<1>11. op \in GroupOps \cup {"zone_detail", "plan", "history", "evidence", "stats", "settings_read", "scenario"}
       => ApiGate(w, op, me, x) = IsStaff(me)
      BY <1>3, <1>4, <1>5, <1>7, <1>8, <1>9
<1>12. op \in {"zone_change", "audit", "settings_change"} => ApiGate(w, op, me, x) = (me.role = Admin)
      BY <1>4, <1>5, <1>7, <1>8, <1>9
<1>13. op = "units_read" => ApiGate(w, op, me, x) = (IsStaff(me) \/ me.role = Responder)
      BY <1>5, <1>10
<1>14. op \in {"zones_read", "unit_create", "unit_available", "unit_move"} => ApiGate(w, op, me, x) = TRUE
      BY <1>5, <1>8, <1>10
<1> HIDE DEF GroupOps, AlertOps
<1> QED BY <1>1, <1>2, <1>6, <1>11, <1>12, <1>13, <1>14

(* For any accounts and incidents: what changes the world, the platform's   *)
(* gate alone passes exactly who has the documented right to it and is not  *)
(* withheld.                                                                *)
LEMMA PlatformGateFact ==
    ASSUME NEW u \in Ids, NEW x, NEW op \in Commands
    PROVE  PlatformGate(world, op, Me(u), x) <=> Right(u, op, x) /\ ~Withheld(u, op)
<1>1. CASE op \in {"user_create", "user_active", "zone_change", "unit_create"}
      BY <1>1 DEF PlatformGate, OnlyAdmin, Right, Me, Withheld
<1>2. CASE op \in {"consent", "sharing", "fix", "sos"}
      BY <1>2 DEF PlatformGate, OnlySelf, Self, Right, Me, Withheld
<1>3. CASE op \in {"user_rename", "user_password", "battery", "erase"}
      BY <1>3 DEF PlatformGate, AdminOrSelf, Self, Right, Me, Withheld
<1>4. CASE op \in {"group_change", "alert_close", "incident_assign", "plan"}
      BY <1>4 DEF PlatformGate, OnlyStaff, Right, Me, IsStaff, Withheld
<1>5. CASE op \in {"incident_ack", "incident_resolve"}
  <2>1. PlatformGate(world, op, Me(u), x) <=>
            Staff(u) \/ (x \in 1..Len(cases) /\ Holds(world, Me(u), cases[x]))
        BY <1>5 DEF PlatformGate, StaffOrUnitOn, world, Staff, IsStaff, Me
  <2>2. OnCase(u, x) => x \in 1..Len(cases)
        BY DEF OnCase
  <2>3. x \in 1..Len(cases) /\ Holds(world, Me(u), cases[x]) <=> users[u].role = Responder /\ OnCase(u, x)
        BY <2>2, HoldsFact
  <2> QED BY <1>5, <2>1, <2>3 DEF Right, Staff, Withheld
<1>6. CASE op \in {"unit_available", "unit_move"}
  <2>1. OwnUnit(world, Me(u), x) <=> users[u].role = Responder /\ users[u].unit = x
        BY DEF OwnUnit, UnitOf, world, Me, Ids
  <2>2. CASE op = "unit_available"
        BY <2>1, <2>2 DEF PlatformGate, IsStaff, Me, Right, Withheld
  <2>3. CASE op = "unit_move"
        BY <2>1, <2>3 DEF PlatformGate, OnlyAdmin, Me, Right, Withheld, Admin, Operator, Responder
  <2> QED BY <1>6, <2>2, <2>3
<1> QED BY <1>1, <1>2, <1>3, <1>4, <1>5, <1>6 DEF Commands

(* What the endpoint refuses of these the table does not grant either.      *)
LEMMA ApiGatePasses ==
    ASSUME NEW u \in Ids, NEW x, NEW op \in Commands, Right(u, op, x)
    PROVE  ApiGate(world, op, Me(u), x)
<1>1. Me(u).role = users[u].role /\ (IsStaff(Me(u)) <=> Staff(u))
      BY DEF Me, IsStaff, Staff
<1>2. CASE op \in UserOps
  <2>1. op \notin {"user_read", "trail_read"}
        BY DEF Commands
  <2>2. UsersApi(world, op, Me(u), x)
        BY <1>1, <2>1 DEF UsersApi, Right
  <2> QED BY <1>2, <2>2, ApiGateOf
<1>3. CASE op \in {"group_change", "plan"}
  <2>1. Staff(u)
        BY <1>3 DEF Right, Staff
  <2> QED BY <1>1, <1>3, <2>1, ApiGateOf DEF GroupOps
<1>4. CASE op = "zone_change"
  <2>1. users[u].role = Admin
        BY <1>4 DEF Right
  <2> QED BY <1>1, <1>4, <2>1, ApiGateOf
<1>5. CASE op \in {"incident_ack", "incident_assign", "incident_resolve"}
  <2>1. IncidentsApi(world, op, Me(u), x)
        BY <1>5 DEF IncidentsApi
  <2> QED BY <1>5, <2>1, ApiGateOf DEF IncidentOps
<1>6. CASE op \in {"alert_close", "unit_create", "unit_available", "unit_move"}
      BY <1>6, ApiGateOf DEF AlertOps
<1> QED BY <1>2, <1>3, <1>4, <1>5, <1>6 DEF Commands, UserOps

(* What changes nothing the endpoint's gate alone decides.                  *)
LEMMA ReadGate ==
    ASSUME NEW u \in Ids, NEW x, NEW op \in Operations \ Commands
    PROVE  /\ PlatformGate(world, op, Me(u), x) = TRUE
           /\ ApiGate(world, op, Me(u), x) <=> Right(u, op, x) /\ ~Withheld(u, op)
<1>1. PlatformGate(world, op, Me(u), x) = TRUE
      BY DEF PlatformGate, Commands
<1>2. ~Withheld(u, op)
      BY DEF Withheld, Commands
<1>3. Me(u).role = users[u].role /\ (IsStaff(Me(u)) <=> Staff(u))
      BY DEF Me, IsStaff, Staff
<1>4. CASE op \in {"user_read", "trail_read"}
  <2>1. ApiGate(world, op, Me(u), x) <=> UsersApi(world, op, Me(u), x)
        BY <1>4, ApiGateOf DEF UserOps
  <2>2. /\ op = "user_read" => (UsersApi(world, op, Me(u), x) <=> Staff(u) \/ MayViewLocation(world, Me(u), x))
        /\ op = "trail_read" => (UsersApi(world, op, Me(u), x) <=> MayViewLocation(world, Me(u), x))
        BY <1>3 DEF UsersApi
  <2>3. Right(u, op, x) <=> Staff(u) \/ u = x \/ (users[u].role = Responder /\ Assigned(u, x))
        BY <1>4 DEF Right, Staff
  <2> QED BY <1>1, <1>2, <1>4, <2>1, <2>2, <2>3, ViewFact
<1>5. CASE op \in {"groups_read", "zone_detail", "history", "evidence", "stats", "settings_read", "scenario"}
  <2>1. Right(u, op, x) <=> Staff(u)
        BY <1>5 DEF Right, Staff
  <2> QED BY <1>1, <1>2, <1>3, <1>5, <2>1, ApiGateOf DEF GroupOps
<1>6. CASE op \in {"audit", "settings_change"}
  <2>1. Right(u, op, x) <=> users[u].role = Admin
        BY <1>6 DEF Right
  <2> QED BY <1>1, <1>2, <1>3, <1>6, <2>1, ApiGateOf
<1>7. CASE op = "units_read"
  <2>1. Right(u, op, x) <=> Staff(u) \/ users[u].role = Responder
        BY <1>7 DEF Right, Staff
  <2> QED BY <1>1, <1>2, <1>3, <1>7, <2>1, ApiGateOf
<1>8. CASE op \in IncidentOps
  <2>1. ApiGate(world, op, Me(u), x) <=> IncidentsApi(world, op, Me(u), x)
        BY <1>8, ApiGateOf
  <2>2. CASE op = "incident_read"
    <3>1. ApiGate(world, op, Me(u), x) <=> x \in 1..Len(cases) /\ IncidentView(world, Me(u), cases[x]) # "None"
          BY <2>1, <2>2 DEF IncidentsApi, world
    <3>2. Right(u, op, x) => x \in 1..Len(cases)
          BY <2>2 DEF Right
    <3> QED BY <1>1, <1>2, <2>2, <3>1, <3>2, IncidentViewFact
  <2>3. CASE op = "incidents_read"
    <3>1. IncidentsApi(world, op, Me(u), x) /\ Right(u, op, x)
          BY <2>3 DEF IncidentsApi, Right
    <3> QED BY <1>1, <1>2, <2>1, <3>1
  <2> QED BY <1>8, <2>2, <2>3 DEF IncidentOps, Commands
<1>9. CASE op \in {"zones_read", "alerts_read"} \cup ConsoleOps
  <2>1. Right(u, op, x)
        BY <1>9 DEF Right, ConsoleOps
  <2> QED BY <1>1, <1>2, <1>9, <2>1, ApiGateOf DEF AlertOps
<1> QED BY <1>1, <1>4, <1>5, <1>6, <1>7, <1>8, <1>9
        DEF Operations, UserOps, GroupOps, ZoneOps, AlertOps, UnitOps, Commands

(* For any accounts and incidents: an account passes both gates of an       *)
(* operation exactly when it has the documented right to it and is not      *)
(* withheld.                                                                *)
LEMMA GateFact ==
    ASSUME NEW u \in Ids, NEW x, NEW op \in Operations
    PROVE  Passes(op, Me(u), x) <=> Right(u, op, x) /\ ~Withheld(u, op)
<1>1. CASE op \in Commands
      BY <1>1, PlatformGateFact, ApiGatePasses DEF Passes
<1>2. CASE op \notin Commands
      BY <1>2, ReadGate DEF Passes
<1> QED BY <1>1, <1>2

-----------------------------------------------------------------------------
(* The accounts. *)

Names ==
    {"admin", "operator", "responder", "tourist"} \cup {Actors[i] : i \in 1..Len(Actors)} \cup NewAccounts

Accounts == [name : Names, role : {Admin, Operator, Responder, Tourist}, unit : Nat,
             active : BOOLEAN, sharing : BOOLEAN]

(* The four accounts every world begins with are there.                     *)
Begun(us) ==
    /\ us \in Seq(Accounts)
    /\ Len(us) >= 4
    /\ \A i \in 1..4 : us[i].name = BuiltIn[i].name

(* Nobody goes and nobody changes name.                                     *)
Extends(old, new) ==
    /\ new \in Seq(Accounts) /\ Len(new) >= Len(old)
    /\ \A i \in 1..Len(old) : new[i].name = old[i].name

LEMMA ExtendsBegun ==
    ASSUME NEW old, NEW new, Begun(old), Extends(old, new) PROVE Begun(new)
<1>1. Len(old) \in Nat /\ Len(new) \in Nat /\ Len(old) >= 4 /\ Len(new) >= Len(old)
      BY DEF Begun, Extends
<1> QED BY <1>1 DEF Begun, Extends

LEMMA AccountType ==
    ASSUME NEW name \in Names, NEW role \in {Admin, Operator, Responder, Tourist}, NEW unit \in Nat
    PROVE  Account(name, role, unit) \in Accounts
BY DEF Account, Accounts

LEMMA BuiltInFact == Begun(BuiltIn) /\ Len(BuiltIn) = 4
<1>1. /\ Account("admin", Admin, NoUnit) \in Accounts
      /\ Account("operator", Operator, NoUnit) \in Accounts
      /\ Account("responder", Responder, 1) \in Accounts
      /\ Account("tourist", Tourist, NoUnit) \in Accounts
      BY AccountType DEF Names, NoUnit
<1>2. BuiltIn \in Seq(Accounts) /\ Len(BuiltIn) = 4
      BY <1>1 DEF BuiltIn
<1> QED BY <1>2 DEF Begun

LEMMA StagedFact == ASSUME NEW us \in Seq(Accounts) PROVE Extends(us, Staged(us))
<1>1. Cast \in Seq(Accounts)
  <2>1. Len(Actors) \in Nat /\ \A i \in 1..Len(Actors) : Actors[i] \in Names
        BY AccessAssumption DEF AccessAssumption, Names
  <2>2. \A i \in 1..Len(Actors) : Account(Actors[i], Tourist, NoUnit) \in Accounts
        BY <2>1, AccountType DEF NoUnit
  <2> QED BY <2>1, <2>2 DEF Cast
<1>2. Len(us) \in Nat /\ Len(Cast) \in Nat
      BY <1>1
<1>3. /\ us \o Cast \in Seq(Accounts) /\ Len(us \o Cast) = Len(us) + Len(Cast)
      /\ \A i \in 1..Len(us) + Len(Cast) :
            (us \o Cast)[i] = IF i <= Len(us) THEN us[i] ELSE Cast[i - Len(us)]
      BY <1>1, ConcatProperties
<1>4. Extends(us, us \o Cast)
      BY <1>2, <1>3 DEF Extends
<1>5. Extends(us, us)
      BY <1>2 DEF Extends
<1> QED BY <1>4, <1>5 DEF Staged

(* What every command but a reload does to the accounts.                    *)
Grows == Extends(users, users')

LEMMA ChangeGrows ==
    ASSUME Begun(users), NEW x \in Ids, NEW b \in Accounts,
           b.name = users[x].name, users' = [users EXCEPT ![x] = b]
    PROVE  Grows
<1>1. users \in Seq(Accounts) /\ Len(users) \in Nat
      BY DEF Begun
<1>2. /\ users' \in Seq(Accounts) /\ Len(users') = Len(users)
      /\ \A i \in Ids : users'[i] = IF i = x THEN b ELSE users[i]
      BY <1>1 DEF Ids
<1> QED BY <1>1, <1>2 DEF Grows, Extends, Ids

(* What the steps but reloads do to the sessions. *)
Sessions ==
    \/ UNCHANGED signed
    \/ \E who : Drop(who)
    \/ \E who : \E u \in Named(who) :
          sessions' = Updated(sessions, {who}, u) /\ outlived' = outlived \ {who}

LEMMA SameSessions == ASSUME UNCHANGED signed PROVE Sessions
BY DEF Sessions

(* What changes neither accounts nor sessions.                              *)
LEMMA QuietGrows == ASSUME Begun(users), UNCHANGED <<users, signed>> PROVE Grows /\ Sessions
BY DEF Grows, Extends, Begun, Sessions

LEMMA AppendGrows ==
    ASSUME Begun(users), NEW name \in Names, NEW role \in NewRoles,
           users' = Append(users, Account(name, role, NoUnit))
    PROVE  Grows
<1> DEFINE a == Account(name, role, NoUnit)
<1>1. a \in Accounts
  <2>1. role \in {Admin, Operator, Responder, Tourist} /\ NoUnit \in Nat
        BY AccessAssumption DEF AccessAssumption, NoUnit
  <2> QED BY <2>1, AccountType
<1>2. users \in Seq(Accounts) /\ Len(users) \in Nat
      BY DEF Begun
<1> HIDE DEF a
<1>3. /\ users' \in Seq(Accounts) /\ Len(users') = Len(users) + 1
      /\ \A i \in 1..Len(users') : users'[i] = IF i <= Len(users) THEN users[i] ELSE a
      BY <1>1, <1>2 DEF a
<1> QED BY <1>1, <1>2, <1>3 DEF Grows, Extends

LEMMA RequestsGrow ==
    ASSUME Begun(users), NEW who
    PROVE  /\ \A op \in Polled : \A x : Poll(who, op, x) => Grows /\ Sessions
           /\ \A op \in {"user_read", "trail_read", "history"} : \A x : Read(who, op, x) => Grows /\ Sessions
           /\ \A name \in NewAccounts, role \in NewRoles : CreateUser(who, name, role) => Grows /\ Sessions
           /\ \A x \in Ids, on \in BOOLEAN : SetActive(who, x, on) => Grows /\ Sessions
           /\ \A x \in Ids : Share(who, x) => Grows /\ Sessions
           /\ \A x : Assign(who, x) \/ Resolve(who, x) => Grows /\ Sessions
<1>1. ASSUME NEW op \in Polled, NEW x, Poll(who, op, x) PROVE Grows /\ Sessions
      BY <1>1, QuietGrows DEF Poll, Answer
<1>2. ASSUME NEW op \in {"user_read", "trail_read", "history"}, NEW x, Read(who, op, x) PROVE Grows /\ Sessions
  <2>1. UNCHANGED users
        BY <1>2 DEF Read
  <2>2. UNCHANGED signed
        BY <1>2 DEF Read, Answer
  <2> QED BY <2>1, <2>2, QuietGrows
<1>3. ASSUME NEW name \in NewAccounts, NEW role \in NewRoles, CreateUser(who, name, role) PROVE Grows /\ Sessions
  <2>1. /\ UNCHANGED signed
        /\ UNCHANGED users \/ users' = Append(users, Account(name, role, NoUnit))
        BY <1>3 DEF CreateUser, Answer
  <2> QED BY <2>1, QuietGrows, AppendGrows DEF Names, Sessions
<1>4. ASSUME NEW x \in Ids, NEW on \in BOOLEAN, SetActive(who, x, on) PROVE Grows /\ Sessions
  <2>1. /\ UNCHANGED signed
        /\ UNCHANGED users \/ users' = [users EXCEPT ![x].active = on, ![x].sharing = (@ /\ on)]
        BY <1>4 DEF SetActive, Answer
  <2>2. CASE users' = [users EXCEPT ![x].active = on, ![x].sharing = (@ /\ on)]
    <3>1. users[x] \in Accounts /\ x \in DOMAIN users
          BY DEF Begun, Ids
    <3> DEFINE b == [users[x] EXCEPT !.active = on, !.sharing = (@ /\ on)]
    <3>2. b \in Accounts /\ b.name = users[x].name
          BY <3>1 DEF Accounts
    <3>3. users' = [users EXCEPT ![x] = b]
          BY <2>2, <3>1 DEF Accounts
    <3> HIDE DEF b
    <3>4. Grows
          BY <3>2, <3>3, ChangeGrows
    <3> QED BY <2>1, <3>4, SameSessions
  <2> QED BY <2>1, <2>2, QuietGrows
<1>5. ASSUME NEW x \in Ids, Share(who, x) PROVE Grows /\ Sessions
  <2>1. /\ UNCHANGED signed
        /\ UNCHANGED users \/ users' = [users EXCEPT ![x].sharing = ~@]
        BY <1>5 DEF Share, Answer
  <2>2. CASE users' = [users EXCEPT ![x].sharing = ~@]
    <3>1. users[x] \in Accounts /\ x \in DOMAIN users
          BY DEF Begun, Ids
    <3> DEFINE b == [users[x] EXCEPT !.sharing = ~@]
    <3>2. b \in Accounts /\ b.name = users[x].name
          BY <3>1 DEF Accounts
    <3>3. users' = [users EXCEPT ![x] = b]
          BY <2>2, <3>1 DEF Accounts
    <3> HIDE DEF b
    <3>4. Grows
          BY <3>2, <3>3, ChangeGrows
    <3> QED BY <2>1, <3>4, SameSessions
  <2> QED BY <2>1, <2>2, QuietGrows
<1>6. ASSUME NEW x, Assign(who, x) \/ Resolve(who, x) PROVE Grows /\ Sessions
      BY <1>6, QuietGrows DEF Assign, Resolve, Answer
<1> QED BY <1>1, <1>2, <1>3, <1>4, <1>5, <1>6

(* The accounts and sessions of all steps but reloads.                      *)
LEMMA NextGrows ==
    ASSUME Begun(users), [Next]_vars, \A who \in people : ~Reload(who)
    PROVE  Grows /\ Sessions
<1>1. ASSUME NEW who, NEW u \in Ids, Login(who, u) PROVE Grows /\ Sessions
  <2>1. UNCHANGED users /\ u \in Named(who) /\ sessions' = Updated(sessions, {who}, u)
            /\ outlived' = outlived \ {who}
        BY <1>1 DEF Login, platform
  <2>2. Grows
        BY <2>1 DEF Grows, Extends, Begun, platform
  <2> QED BY <2>1, <2>2 DEF Sessions
<1>2. ASSUME NEW who, Refuse(who) \/ Logout(who) PROVE Grows /\ Sessions
  <2>1. UNCHANGED users /\ Drop(who)
        BY <1>2 DEF Refuse, Logout, platform
  <2> QED BY <2>1 DEF Grows, Extends, Begun, Sessions
<1>3. CASE Simulate
  <2>1. UNCHANGED signed /\ \E i \in 1..Len(Actors) : \E u \in Named(Actors[i]) :
            users' = [users EXCEPT ![u].sharing = TRUE]
        BY <1>3 DEF Simulate
  <2>2. PICK u \in Ids : users' = [users EXCEPT ![u].sharing = TRUE]
        BY <2>1 DEF Named
  <2>3. users[u] \in Accounts /\ u \in DOMAIN users
        BY DEF Begun, Ids
  <2> DEFINE b == [users[u] EXCEPT !.sharing = TRUE]
  <2>4. b \in Accounts /\ b.name = users[u].name
        BY <2>3 DEF Accounts
  <2>5. users' = [users EXCEPT ![u] = b]
        BY <2>2, <2>3 DEF Accounts
  <2> HIDE DEF b
  <2>6. Grows
        BY <2>4, <2>5, ChangeGrows
  <2>7. Sessions
        BY <2>1, SameSessions
  <2> QED BY <2>6, <2>7
<1>4. CASE Incident \/ Pass(1) \/ UNCHANGED vars
      BY <1>4, QuietGrows DEF Incident, Pass, vars, platform
<1>5. ASSUME NEW who \in people, Console(who) PROVE Grows /\ Sessions
  <2>1. CASE (\E u \in Ids : Login(who, u)) \/ Refuse(who) \/ Logout(who)
        BY <1>1, <1>2, <2>1
  <2>2. CASE \/ \E op \in Polled \ {"incident_read"} : Poll(who, op, 0)
             \/ \E x \in CaseIds : Poll(who, "incident_read", x) \/ Assign(who, x) \/ Resolve(who, x)
        BY <2>2, RequestsGrow DEF Polled
  <2>3. CASE \/ \E op \in {"user_read", "trail_read"}, x \in Tourists : Read(who, op, x)
             \/ Read(who, "history", 0)
        BY <2>3, RequestsGrow
  <2>4. CASE \/ \E x \in UNION {Named(n) : n \in Switched}, on \in BOOLEAN : SetActive(who, x, on)
             \/ \E x \in Tourists : Share(who, x)
             \/ \E name \in NewAccounts, role \in NewRoles : CreateUser(who, name, role)
    <3>1. UNION {Named(n) : n \in Switched} \subseteq Ids /\ Tourists \subseteq Ids
          BY DEF Named, Tourists
    <3> QED BY <2>4, <3>1, RequestsGrow
  <2> QED BY <1>5, <2>1, <2>2, <2>3, <2>4 DEF Console
<1> QED BY <1>3, <1>4, <1>5 DEF Next

-----------------------------------------------------------------------------
(* Sessions. *)

AccInv == Begun(users) /\ IdentityKept

(* Accounts keep their number and their name: a session still points to the *)
(* one that signed in.                                                      *)
LEMMA GrowsKeepsAccInv ==
    ASSUME AccInv, Grows, Sessions
    PROVE  AccInv'
<1>1. /\ users' \in Seq(Accounts) /\ Len(users) \in Nat /\ Len(users') \in Nat /\ Ids \subseteq Ids'
      /\ \A i \in Ids : users'[i].name = users[i].name
      BY DEF AccInv, Begun, Grows, Extends, Ids
<1>2. Begun(users')
      BY ExtendsBegun DEF AccInv, Grows
<1>3. ASSUME NEW who \in DOMAIN sessions \ outlived, sessions'[who] = sessions[who]
      PROVE  sessions'[who] \in Ids' /\ users'[sessions'[who]].name = who
      BY <1>1, <1>3 DEF AccInv, IdentityKept
<1>4. IdentityKept'
  <2>1. CASE UNCHANGED signed
        BY <1>3, <2>1 DEF IdentityKept, signed
  <2>2. ASSUME NEW w, Drop(w) PROVE IdentityKept'
        BY <1>3, <2>2 DEF Drop, Restrict, IdentityKept
  <2>3. ASSUME NEW w, NEW u \in Named(w), sessions' = Updated(sessions, {w}, u), outlived' = outlived \ {w}
        PROVE  IdentityKept'
    <3>1. u \in Ids' /\ users'[u].name = w
          BY <1>1 DEF Named
    <3>2. \A who \in DOMAIN sessions' :
              IF who = w THEN sessions'[who] = u ELSE who \in DOMAIN sessions /\ sessions'[who] = sessions[who]
          BY <2>3 DEF Updated
    <3> QED BY <1>3, <2>3, <3>1, <3>2 DEF IdentityKept
  <2> QED BY <2>1, <2>2, <2>3 DEF Sessions
<1> QED BY <1>2, <1>4 DEF AccInv

(* A load begins with the four accounts, or where the zone file cannot be   *)
(* read with those that are there, and adds the story's own.                *)
LEMMA RunFact ==
    ASSUME Begun(users), NEW anew \in BOOLEAN, NEW zoned \in BOOLEAN, Run(anew, zoned)
    PROVE  Extends(IF anew THEN BuiltIn ELSE users, users')
<1> DEFINE before == IF anew THEN BuiltIn ELSE users
<1>1. before \in Seq(Accounts) /\ users' = IF zoned THEN Staged(before) ELSE before
      BY BuiltInFact DEF Begun, Run
<1> HIDE DEF before
<1>2. Extends(before, before)
      BY <1>1 DEF Extends
<1>3. Extends(before, Staged(before))
      BY <1>1, StagedFact
<1>4. Extends(before, users')
      BY <1>1, <1>2, <1>3
<1> QED BY <1>4 DEF before

(* Whatever becomes of the sessions, those that are not of a run-time       *)
(* account of an earlier world name one of the four, which every world      *)
(* begins with, or an account of a world that was kept.                     *)
LEMMA ReloadedSessions ==
    ASSUME AccInv, NEW who \in DOMAIN sessions, NEW anew \in BOOLEAN,
           Extends(IF anew THEN BuiltIn ELSE users, users'),
           EndSessions(who, anew) \/ LeaveSessions(anew)
    PROVE  AccInv'
<1> DEFINE before == IF anew THEN BuiltIn ELSE users
<1>1. Begun(before) /\ Begun(users) /\ Extends(before, users')
      BY BuiltInFact DEF AccInv
<1>2. Begun(users')
      BY <1>1, ExtendsBegun
<1>3. ASSUME NEW w \in DOMAIN sessions, w \notin Aged(anew)
      PROVE  sessions[w] \in Ids' /\ users'[sessions[w]].name = w
  <2>1. w \notin outlived /\ (anew => ~(sessions[w] > Len(BuiltIn)))
        BY <1>3 DEF Aged
  <2>2. sessions[w] \in Ids /\ users[sessions[w]].name = w
        BY <2>1 DEF AccInv, IdentityKept
  <2>3. CASE ~anew
        BY <1>1, <2>2, <2>3 DEF Extends, Begun, Ids
  <2>4. CASE anew
    <3>1. sessions[w] \in 1..4
          BY <1>1, <2>1, <2>2, <2>4, BuiltInFact DEF Ids, Begun
    <3>2. BuiltIn[sessions[w]].name = w
          BY <1>1, <2>2, <3>1 DEF Begun
    <3>3. Extends(BuiltIn, users')
          BY <1>1, <2>4
    <3>4. Len(users') \in Nat /\ Len(users') >= 4 /\ users'[sessions[w]].name = BuiltIn[sessions[w]].name
          BY <3>1, <3>3, BuiltInFact DEF Extends
    <3> QED BY <3>1, <3>2, <3>4 DEF Ids
  <2> QED BY <2>3, <2>4
<1>4. /\ DOMAIN sessions' \ outlived' \subseteq DOMAIN sessions \ Aged(anew)
      /\ \A w \in DOMAIN sessions' : sessions'[w] = sessions[w]
      BY DEF EndSessions, SessionsKept, LeaveSessions
<1> QED BY <1>2, <1>3, <1>4 DEF AccInv, IdentityKept

LEMMA ReloadKeepsAccInv == ASSUME AccInv, NEW who, Reload(who) PROVE AccInv'
<1>1. who \in DOMAIN sessions
      BY DEF Reload, Present
<1>2. CASE Load(who)
  <2>1. PICK anew, zoned \in BOOLEAN : Run(anew, zoned) /\ (EndSessions(who, anew) \/ LeaveSessions(anew))
        BY <1>2 DEF Load
  <2> QED BY <1>1, <2>1, RunFact, ReloadedSessions DEF AccInv
<1>3. CASE Reset(who)
  <2>1. CASE \E anew, zoned \in BOOLEAN : Run(anew, zoned) /\ EndSessions(who, anew)
    <3>1. PICK anew, zoned \in BOOLEAN : Run(anew, zoned) /\ EndSessions(who, anew)
          BY <2>1
    <3> QED BY <1>1, <3>1, RunFact, ReloadedSessions DEF AccInv
  <2>2. CASE UNCHANGED platform /\ EndSessions(who, FALSE)
    <3>1. Extends(users, users')
          BY <2>2 DEF platform, Extends, AccInv, Begun
    <3> QED BY <1>1, <2>2, <3>1, ReloadedSessions
  <2> QED BY <1>3, <2>1, <2>2 DEF Reset
<1>4. CASE UNCHANGED <<users, signed>>
      BY <1>4, QuietGrows, GrowsKeepsAccInv DEF AccInv
<1>5. Load(who) \/ Reset(who) \/ UNCHANGED <<users, signed>>
      BY DEF Reload, Answer, platform
<1> QED BY <1>2, <1>3, <1>4, <1>5

LEMMA AccInvInit == Init => AccInv
<1> SUFFICES ASSUME Init PROVE AccInv
    OBVIOUS
<1>1. Begun(BuiltIn) /\ Begun(Staged(BuiltIn))
      BY BuiltInFact, StagedFact, ExtendsBegun DEF Begun
<1>2. Begun(users)
      BY <1>1 DEF Init
<1>3. DOMAIN sessions = {}
      BY DEF Init
<1> QED BY <1>2, <1>3 DEF AccInv, IdentityKept

LEMMA AccInvNext == AccInv /\ [Next]_vars => AccInv'
<1> SUFFICES ASSUME AccInv, [Next]_vars PROVE AccInv'
    OBVIOUS
<1>1. CASE \E who \in people : Reload(who)
      BY <1>1, ReloadKeepsAccInv
<1>2. CASE \A who \in people : ~Reload(who)
      BY <1>2, NextGrows, GrowsKeepsAccInv DEF AccInv
<1> QED BY <1>1, <1>2

(* For any accounts, scenarios and people: a session acts for the account   *)
(* that signed in with it, also after a load or a reset has built the       *)
(* accounts again and whether it succeeded or not, unless it is of an       *)
(* account registered at run time in an earlier world (session_for and the  *)
(* scenario endpoint of Api::route).                                        *)
THEOREM SessionsKeepIdentity == Spec => []IdentityKept
<1>1. AccInv => IdentityKept
      BY DEF AccInv
<1> QED BY <1>1, AccInvInit, AccInvNext, PTL DEF Spec

-----------------------------------------------------------------------------
(* Requests. *)

(* For any accounts and incidents an account passes both gates of a request *)
(* exactly when the documented table grants it, an operator's moving of a   *)
(* unit apart; and what changes the world the platform's gate alone refuses *)
(* the others (Api::route, and the check at the top of every Platform       *)
(* call).                                                                   *)
THEOREM GatesGrantTheTable == Spec => []GatesKeepTheTable
<1>1. GatesKeepTheTable
  <2>1. ASSUME NEW u \in Ids, NEW x \in Nat, NEW op \in Operations
        PROVE  Passes(op, [id |-> u, role |-> users[u].role], x) <=> Right(u, op, x) /\ ~Withheld(u, op)
        BY GateFact DEF Me
  <2>2. ASSUME NEW u \in Ids, NEW x \in Nat, NEW op \in Commands
        PROVE  PlatformGate(world, op, [id |-> u, role |-> users[u].role], x) => Right(u, op, x)
        BY PlatformGateFact DEF Me
  <2> QED BY <2>1, <2>2 DEF GatesKeepTheTable
<1> QED BY <1>1, PTL DEF Spec

(* What ServedByRight asks of a step. *)
Served ==
    asked'.code = 200 =>
         \E u \in Ids :
            /\ asked'.me = u
            /\ asked'.by \notin outlived => users[u].name = asked'.by
            /\ Right(u, asked'.op, asked'.x)
            /\ \A s \in asked'.shows \ {u} :
                  \/ users[u].role \in {Admin, Operator}
                  \/ /\ users[u].role = Responder
                     /\ IF asked'.op = "incident_read" THEN OnCase(u, asked'.x)
                        ELSE Assigned(u, s)

(* Somebody else's position that an answer to account u may show. *)
Allowed(u, op, x, s) ==
    s = u \/ Staff(u) \/ (users[u].role = Responder /\ IF op = "incident_read" THEN OnCase(u, x) ELSE Assigned(u, s))

LEMMA AnswerFact ==
    ASSUME IdentityKept, NEW who, Present(who), NEW op, NEW x, NEW code, NEW shows,
           Reply(who, op, x, code, shows),
           code = 200 => /\ Right(sessions[who], op, x)
                         /\ \A s \in shows : Allowed(sessions[who], op, x, s)
    PROVE  Served
<1>1. /\ sessions[who] \in Ids
      /\ who \notin outlived => users[sessions[who]].name = who
      BY DEF Present, Ended, IdentityKept
<1>2. asked' = [op |-> op, by |-> who, x |-> x, code |-> code, me |-> sessions[who], shows |-> shows]
      BY DEF Reply
<1> QED BY <1>1, <1>2 DEF Served, Allowed, Staff

LEMMA CallerFact ==
    ASSUME NEW who, Present(who)
    PROVE  sessions[who] \in Ids /\ Caller(who) = Me(sessions[who])
BY DEF Present, Ended, Caller, Me

(* What the endpoint's gate of a read passes the table grants.              *)
LEMMA ReadRight ==
    ASSUME NEW u \in Ids, NEW op \in Polled \cup {"user_read", "trail_read", "history", "scenario"}, NEW x,
           ApiGate(world, op, Me(u), x)
    PROVE  Right(u, op, x)
<1>1. op \in Operations \ Commands
      BY DEF Polled, Operations, Commands, UserOps, AlertOps, IncidentOps, ConsoleOps
<1> QED BY <1>1, ReadGate

LEMMA PollServed ==
    ASSUME IdentityKept, NEW who, NEW op \in Polled, NEW x, Poll(who, op, x)
    PROVE  Served
<1> DEFINE u == sessions[who]
           ok == ApiGate(world, op, Me(u), x)
           shown == CASE ~ok -> {}
                      [] op \in {"live", "users_read"} -> ShownSharing(Me(u))
                      [] op = "alerts_read" -> ShownAlerts(Me(u))
                      [] op = "incident_read" -> ShownIncident(Me(u), x)
<1>1. Present(who)
      BY DEF Poll
<1>2. u \in Ids /\ Caller(who) = Me(u)
      BY <1>1, CallerFact
<1>3. Answer(who, op, x, IF ok THEN 200 ELSE 403, shown)
      BY <1>2 DEF Poll
<1>4. ASSUME ok PROVE Right(u, op, x) /\ \A s \in shown : Allowed(u, op, x, s)
  <2>1. Right(u, op, x)
        BY <1>2, <1>4, ReadRight
  <2>2. CASE op \in {"live", "users_read"}
    <3>1. shown = ShownSharing(Me(u))
          BY <1>4, <2>2
    <3> QED BY <1>2, <2>1, <2>2, <3>1, ViewFact DEF ShownSharing, Allowed
  <2>3. CASE op = "alerts_read"
    <3>1. shown = ShownAlerts(Me(u))
          BY <1>4, <2>3
    <3> QED BY <2>1, <3>1 DEF ShownAlerts, Allowed, IsStaff, Staff, Me
  <2>4. CASE op = "incident_read"
    <3>1. shown = ShownIncident(Me(u), x)
          BY <1>4, <2>4
    <3>2. x \in 1..Len(cases)
          BY <2>1, <2>4 DEF Right
    <3>3. IncidentView(world, Me(u), cases[x]) = "Full" => Staff(u) \/ (users[u].role = Responder /\ OnCase(u, x))
          BY <1>2, <3>2, IncidentViewFact
    <3>4. \A s \in shown : s = u \/ IncidentView(world, Me(u), cases[x]) = "Full"
      <4>1. Me(u).id = u
            BY DEF Me
      <4> HIDE DEF shown, ok, u
      <4> QED BY <3>1, <4>1 DEF ShownIncident
    <3>5. \A s \in shown : Allowed(u, op, x, s)
          BY <2>4, <3>3, <3>4 DEF Allowed
    <3> QED BY <2>1, <3>5
  <2> QED BY <2>2, <2>3, <2>4 DEF Polled
<1> HIDE DEF shown, ok
<1> QED BY <1>1, <1>3, <1>4, AnswerFact DEF Answer

LEMMA ReadServed ==
    ASSUME IdentityKept, NEW who, NEW op \in {"user_read", "trail_read", "history"}, NEW x, Read(who, op, x)
    PROVE  Served
<1> DEFINE u == sessions[who]
           ok == ApiGate(world, op, Me(u), x)
<1>1. Present(who)
      BY DEF Read
<1>2. u \in Ids /\ Caller(who) = Me(u)
      BY <1>1, CallerFact
<1>3. ok => Right(u, op, x)
      BY <1>2, ReadRight
<1>4. CASE op = "user_read"
  <2>1. Answer(who, op, x, IF ok THEN 200 ELSE 403,
               IF ok /\ MayViewLocation(world, Me(u), x) /\ users[x].sharing THEN {x} \cap Tourists ELSE {})
        BY <1>2, <1>4 DEF Read
  <2>2. MayViewLocation(world, Me(u), x) => Allowed(u, op, x, x)
        BY <1>2, <1>4, ViewFact DEF Allowed
  <2> HIDE DEF ok
  <2> QED BY <1>1, <1>3, <2>1, <2>2, AnswerFact DEF Answer
<1>5. CASE op = "trail_read"
  <2>1. Answer(who, op, x, IF ok THEN 200 ELSE 403, IF ok THEN {x} \cap Tourists ELSE {})
        BY <1>2, <1>5 DEF Read
  <2>2. ok => MayViewLocation(world, Me(u), x)
    <3>1. ok <=> UsersApi(world, op, Me(u), x)
          BY <1>5, ApiGateOf DEF UserOps
    <3> QED BY <1>5, <3>1 DEF UsersApi
  <2>3. ok => Allowed(u, op, x, x)
        BY <1>2, <1>5, <2>2, ViewFact DEF Allowed
  <2> HIDE DEF ok
  <2> QED BY <1>1, <1>3, <2>1, <2>3, AnswerFact DEF Answer
<1>6. CASE op = "history"
  <2>1. Answer(who, op, x, IF ok THEN 200 ELSE 403, IF ok THEN ShownHistory ELSE {})
        BY <1>2, <1>6 DEF Read
  <2>2. ok => \A s : Allowed(u, op, x, s)
        BY <1>3, <1>6 DEF Right, Allowed, Staff
  <2> HIDE DEF ok
  <2> QED BY <1>1, <1>3, <2>1, <2>2, AnswerFact DEF Answer
<1> QED BY <1>4, <1>5, <1>6

LEMMA CommandServed ==
    ASSUME IdentityKept, NEW who, Present(who), NEW op \in Operations, NEW x, NEW also \in BOOLEAN,
           Answer(who, op, x, IF Passes(op, Caller(who), x) /\ also THEN 200 ELSE 403, {})
    PROVE  Served
<1>1. sessions[who] \in Ids /\ Caller(who) = Me(sessions[who])
      BY CallerFact
<1>2. Passes(op, Caller(who), x) => Right(sessions[who], op, x)
      BY <1>1, GateFact
<1> QED BY <1>2, AnswerFact DEF Answer

LEMMA ConsoleServed == ASSUME IdentityKept, NEW who, Console(who) PROVE Served
<1>1. CASE (\E u \in Ids : Login(who, u)) \/ Refuse(who) \/ Logout(who)
  <2>1. asked' = NoAnswer \/ asked' = [NoAnswer EXCEPT !.by = who, !.code = 401]
        BY <1>1 DEF Login, Refuse, Logout
  <2>2. NoAnswer.code = 0 /\ [NoAnswer EXCEPT !.by = who, !.code = 401].code = 401
        BY DEF NoAnswer
  <2>3. asked'.code \in {0, 401}
        BY <2>1, <2>2
  <2> QED BY <2>3 DEF Served
<1>2. CASE Reload(who)
  <2>1. Present(who)
        BY <1>2 DEF Reload
  <2>2. sessions[who] \in Ids /\ Caller(who) = Me(sessions[who])
        BY <2>1, CallerFact
  <2>3. CASE ApiGate(world, "scenario", Caller(who), 0)
    <3>1. Right(sessions[who], "scenario", 0)
          BY <2>2, <2>3, ReadRight
    <3>2. \E code : Reply(who, "scenario", 0, code, {})
          BY <1>2, <2>3 DEF Reload, Load, Reset
    <3> QED BY <2>1, <3>1, <3>2, AnswerFact
  <2>4. CASE ~ApiGate(world, "scenario", Caller(who), 0)
        BY <1>2, <2>4 DEF Reload, Answer, Reply, Served
  <2> QED BY <2>3, <2>4
<1>3. CASE \/ \E op \in Polled \ {"incident_read"} : Poll(who, op, 0)
           \/ \E x \in CaseIds : Poll(who, "incident_read", x)
  <2>1. "incident_read" \in Polled
        BY DEF Polled
  <2> QED BY <1>3, <2>1, PollServed
<1>4. CASE \/ \E op \in {"user_read", "trail_read"}, x \in Tourists : Read(who, op, x)
           \/ Read(who, "history", 0)
      BY <1>4, ReadServed
<1>5. CASE \/ \E x \in CaseIds : Assign(who, x) \/ Resolve(who, x)
           \/ \E name \in NewAccounts, role \in NewRoles : CreateUser(who, name, role)
           \/ \E x \in UNION {Named(n) : n \in Switched}, on \in BOOLEAN : SetActive(who, x, on)
           \/ \E x \in Tourists : Share(who, x)
  <2>1. {"incident_assign", "incident_resolve", "user_create", "user_active", "sharing"} \subseteq Operations
        BY DEF Operations, IncidentOps, UserOps
  <2>2. ASSUME NEW x, Assign(who, x) PROVE Served
        BY <2>1, <2>2, CommandServed DEF Assign
  <2>3. ASSUME NEW x, Resolve(who, x) PROVE Served
        BY <2>1, <2>3, CommandServed DEF Resolve
  <2>4. ASSUME NEW name, NEW role, CreateUser(who, name, role) PROVE Served
        BY <2>1, <2>4, CommandServed DEF CreateUser
  <2>5. ASSUME NEW x, NEW on, SetActive(who, x, on) PROVE Served
    <3>1. Answer(who, "user_active", x, IF Passes("user_active", Caller(who), x) /\ TRUE THEN 200 ELSE 403, {})
          BY <2>5 DEF SetActive
    <3> QED BY <2>1, <2>5, <3>1, CommandServed DEF SetActive
  <2>6. ASSUME NEW x, Share(who, x) PROVE Served
        BY <2>1, <2>6, CommandServed DEF Share
  <2> QED BY <1>5, <2>2, <2>3, <2>4, <2>5, <2>6
<1> QED BY <1>1, <1>2, <1>3, <1>4, <1>5 DEF Console

(* For any accounts, incidents and scenarios: a request is served only when *)
(* the account its session names has the documented right to it, the one    *)
(* that signed in but for the exceptions above, and shows another's         *)
(* position only to staff and to the responder on the person's incident     *)
(* (Api::route, Platform::may_view_location, incident_view).                *)
THEOREM RequestsAreServedByRight == Spec => ServedByRight
<1>1. AccInv /\ [Next]_vars => [Served]_vars
  <2> SUFFICES ASSUME AccInv, Next PROVE Served
      OBVIOUS
  <2>1. CASE \E who \in people : Console(who)
        BY <2>1, ConsoleServed DEF AccInv
  <2>2. CASE Incident \/ Simulate \/ Pass(1)
        BY <2>2 DEF Incident, Simulate, Pass, NoAnswer, Served
  <2> QED BY <2>1, <2>2 DEF Next
<1>2. Spec => [][Served]_vars
      BY <1>1, AccInvInit, AccInvNext, PTL DEF Spec
<1> QED BY <1>2 DEF ServedByRight, Served

-----------------------------------------------------------------------------
(* The access log. *)

Views == {"live", "list", "alerts", "incident"}

IsRead(r) == r = [t |-> r.t, actor |-> r.actor, subject |-> r.subject, what |-> r.what, allowed |-> r.allowed]

Key(r) == <<r.actor, r.subject, r.what>>

(* What a read that was not refused is logged with.                         *)
Granted == TRUE

(* Each poll in the table of last polls but for those of an earlier world   *)
(* has a record of its time, or one it is a repeat of.                      *)
LogInv ==
    /\ now \in Nat
    /\ \A r \in access : IsRead(r) /\ r.t \in Nat /\ r.t <= now
    /\ \A k \in DOMAIN liveAudit \ leftOver :
          /\ liveAudit[k] \in Nat
          /\ \E r \in access : /\ r.allowed = Granted /\ k = Key(r)
                             /\ r.t <= liveAudit[k] /\ liveAudit[k] <= r.t + Repeat

(* A record of this read that is at most a minute old. *)
Recent(log, me, subject, what, ok) ==
    \E r \in log : /\ r.actor = me.id /\ r.subject = subject /\ r.what = what /\ r.allowed = ok
                   /\ r.t \in Nat /\ r.t <= now /\ now - r.t <= Repeat

LEMMA RecordFact ==
    ASSUME NEW me, NEW subject, NEW what, NEW ok
    PROVE  LET r == Record(me, subject, what, ok) IN
           /\ IsRead(r) /\ r.t = now /\ r.actor = me.id /\ r.subject = subject
           /\ r.what = what /\ r.allowed = ok
BY DEF Record, IsRead

LEMMA RepeatFact ==
    ASSUME NEW r, IsRead(r), NEW me, NEW subject, NEW what, NEW ok,
           [r EXCEPT !.t = now] = Record(me, subject, what, ok)
    PROVE  r.actor = me.id /\ r.subject = subject /\ r.what = what /\ r.allowed = ok
<1> DEFINE e == [r EXCEPT !.t = now]
<1>1. e.actor = r.actor /\ e.subject = r.subject /\ e.what = r.what /\ e.allowed = r.allowed
      BY DEF IsRead
<1>2. e = Record(me, subject, what, ok)
      OBVIOUS
<1> HIDE DEF e
<1> QED BY <1>1, <1>2, RecordFact

LEMMA AuditFact ==
    ASSUME LogInv, NEW me, NEW subject, NEW what, NEW ok
    PROVE  LET log == AuditAccess(access, me, subject, what, ok) IN
           /\ access \subseteq log
           /\ \A r \in log : r \in access \/ r = Record(me, subject, what, ok)
           /\ me.id # subject => Recent(log, me, subject, what, ok)
<1> DEFINE log == AuditAccess(access, me, subject, what, ok)
           new == Record(me, subject, what, ok)
<1>1. /\ access \subseteq log
      /\ \A r \in log : r \in access \/ r = new
      BY DEF AuditAccess
<1>2. ASSUME me.id # subject PROVE Recent(log, me, subject, what, ok)
  <2>1. CASE \E r \in access : now - r.t <= Repeat /\ [r EXCEPT !.t = now] = new
    <3>1. PICK r \in access : now - r.t <= Repeat /\ [r EXCEPT !.t = now] = new
          BY <2>1
    <3>2. r \in log /\ IsRead(r) /\ r.t \in Nat /\ r.t <= now
          BY <1>1 DEF LogInv
    <3> QED BY <3>1, <3>2, RepeatFact DEF Recent
  <2>2. CASE ~\E r \in access : now - r.t <= Repeat /\ [r EXCEPT !.t = now] = new
    <3>1. new \in log
          BY <1>2, <2>2 DEF AuditAccess
    <3>2. /\ new.t = now /\ new.actor = me.id /\ new.subject = subject
          /\ new.what = what /\ new.allowed = ok
          BY RecordFact
    <3>3. now \in Nat /\ Repeat \in Nat
          BY AccessAssumption DEF LogInv, AccessAssumption
    <3> HIDE DEF new, log
    <3> QED BY <3>1, <3>2, <3>3 DEF Recent
  <2> QED BY <2>1, <2>2
<1> QED BY <1>1, <1>2

(* What AuditedInTime asks of a step. *)
OnRecord(me, s) ==
    \E r \in access' : /\ r.actor = me /\ r.subject = s /\ r.allowed
                       /\ r.t <= now' /\ r.t + AuditEvery + Repeat >= now'
Audited ==
    \A s \in asked'.shows \ {asked'.me} :
        \/ asked'.op \in Polled /\ <<asked'.me, s, ViewName[asked'.op]>> \in leftOver'
        \/ OnRecord(asked'.me, s)

LEMMA RecentAudited ==
    ASSUME LogInv, NEW me, NEW s, NEW what, Recent(access', me, s, what, Granted), UNCHANGED now
    PROVE  OnRecord(me.id, s)
<1>1. PICK r \in access' : /\ r.actor = me.id /\ r.subject = s /\ r.allowed = Granted
                           /\ r.t \in Nat /\ r.t <= now /\ now - r.t <= Repeat
      BY DEF Recent
<1>2. r.t + AuditEvery + Repeat >= now
      BY <1>1, AccessAssumption DEF LogInv, AccessAssumption
<1> QED BY <1>1, <1>2 DEF Granted, OnRecord

(* Reads logged each time leave the polls' table as it is.                  *)
LEMMA LogGrows ==
    ASSUME LogInv, UNCHANGED <<now, liveAudit, leftOver>>, access \subseteq access',
           \A r \in access' : r \in access \/ (IsRead(r) /\ r.t = now)
    PROVE  LogInv'
BY DEF LogInv

LEMMA ReadLogs ==
    ASSUME LogInv, NEW who, NEW op \in {"user_read", "trail_read", "history"}, NEW x, Read(who, op, x)
    PROVE  LogInv' /\ Audited
<1> DEFINE me == Caller(who)
           ok == ApiGate(world, op, me, x)
           vis == MayViewLocation(world, me, x)
<1>1. UNCHANGED <<now, liveAudit, leftOver>> /\ asked'.me = me.id
  <2>1. \E code, shows : Answer(who, op, x, code, shows)
    <3>1. CASE op = "user_read"
          BY <3>1 DEF Read
    <3>2. CASE op = "trail_read"
          BY <3>2 DEF Read
    <3>3. CASE op = "history"
          BY <3>3 DEF Read
    <3> QED BY <3>1, <3>2, <3>3
  <2>2. UNCHANGED polls
        BY DEF Read
  <2> QED BY <2>1, <2>2 DEF Answer, Reply, Caller, polls
<1>2. CASE op = "history"
  <2>1. /\ asked'.shows = IF ok THEN ShownHistory ELSE {}
        /\ access' = IF ok THEN access \cup UNION {AuditAccess(access, me, s, op, Granted) : s \in ShownHistory}
                     ELSE access
    <3>1. Answer(who, op, x, IF ok THEN 200 ELSE 403, IF ok THEN ShownHistory ELSE {})
          BY <1>2 DEF Read
    <3>2. asked'.shows = IF ok THEN ShownHistory ELSE {}
      <4> HIDE DEF ok
      <4> QED BY <3>1 DEF Answer, Reply
    <3>3. access' = IF ok THEN access \cup UNION {AuditAccess(access, me, s, op, TRUE) : s \in ShownHistory}
                    ELSE access
          BY <1>2 DEF Read
    <3> QED BY <3>2, <3>3 DEF Granted
  <2>2. access \subseteq access' /\ \A r \in access' : r \in access \/ \E s : r = Record(me, s, op, Granted)
        BY <2>1, AuditFact
  <2>3. LogInv'
        BY <1>1, <2>2, LogGrows, RecordFact
  <2>4. ASSUME NEW s \in asked'.shows \ {me.id} PROVE Recent(access', me, s, op, Granted)
    <3>1. ok /\ s \in ShownHistory
          BY <2>1
    <3>2. AuditAccess(access, me, s, op, Granted) \subseteq access'
          BY <2>1, <3>1
    <3>3. Recent(AuditAccess(access, me, s, op, Granted), me, s, op, Granted)
          BY <2>4, AuditFact
    <3> QED BY <3>2, <3>3 DEF Recent
  <2> QED BY <1>1, <2>3, <2>4, RecentAudited DEF Audited
<1>3. CASE op \in {"user_read", "trail_read"}
  <2>1. /\ access' = access \/ access' = AuditAccess(access, me, x, op, vis)
        /\ asked'.shows # {} => /\ asked'.shows \subseteq {x} /\ vis
                                /\ access' = AuditAccess(access, me, x, op, vis)
    <3>1. CASE op = "user_read"
          BY <3>1 DEF Read, Answer, Reply
    <3>2. CASE op = "trail_read"
      <4>1. ok => vis
        <5>1. ok <=> UsersApi(world, op, me, x)
              BY <3>2, ApiGateOf DEF UserOps
        <5> QED BY <3>2, <5>1 DEF UsersApi
      <4>2. /\ access' = AuditAccess(access, me, x, op, vis)
            /\ asked'.shows = IF ok THEN {x} \cap Tourists ELSE {}
        <5>1. Answer(who, op, x, IF ok THEN 200 ELSE 403, IF ok THEN {x} \cap Tourists ELSE {})
              BY <3>2 DEF Read
        <5>2. access' = AuditAccess(access, me, x, op, vis)
              BY <3>2 DEF Read
        <5> HIDE DEF ok, me, vis
        <5> QED BY <5>1, <5>2 DEF Answer, Reply
      <4> HIDE DEF ok, me, vis
      <4> QED BY <4>1, <4>2
    <3> QED BY <1>3, <3>1, <3>2
  <2>2. access \subseteq access' /\ \A r \in access' : r \in access \/ r = Record(me, x, op, vis)
        BY <2>1, AuditFact
  <2>3. LogInv'
        BY <1>1, <2>2, LogGrows, RecordFact
  <2>4. ASSUME NEW s \in asked'.shows \ {me.id} PROVE Recent(access', me, s, op, Granted)
    <3>1. s = x /\ vis /\ access' = AuditAccess(access, me, x, op, vis)
          BY <2>1
    <3>2. vis = Granted
          BY <3>1 DEF MayViewLocation, Granted
    <3> HIDE DEF me, vis
    <3> QED BY <2>4, <3>1, <3>2, AuditFact
  <2> QED BY <1>1, <2>3, <2>4, RecentAudited DEF Audited
<1> QED BY <1>2, <1>3

LEMMA PollLogs ==
    ASSUME LogInv, NEW who, NEW op \in Polled, NEW x, Poll(who, op, x)
    PROVE  LogInv' /\ Audited
<1> DEFINE me == Caller(who)
           view == ViewName[op]
           shown == asked'.shows
           due == DueViews(me, shown, view)
           keys == {<<me.id, s, view>> : s \in due}
<1>1. /\ UNCHANGED now /\ asked'.me = me.id /\ asked'.op = op
      /\ access' = access \cup UNION {AuditAccess(access, me, s, view, Granted) : s \in due}
      /\ liveAudit' = Updated(liveAudit, keys, now)
      /\ leftOver' = leftOver \ keys
      BY DEF Poll, Answer, Reply, AuditViews, Caller, Granted
<1>2. now \in Nat /\ Repeat \in Nat /\ AuditEvery \in Nat
      BY AccessAssumption DEF LogInv, AccessAssumption
<1> HIDE DEF me, view, shown
<1>3. /\ access \subseteq access'
      /\ \A r \in access' : r \in access \/ \E s \in due : r = Record(me, s, view, Granted)
      BY <1>1, AuditFact
<1>4. ASSUME NEW s \in due PROVE Recent(access', me, s, view, Granted)
  <2>1. me.id # s
        BY DEF DueViews
  <2>2. Recent(AuditAccess(access, me, s, view, Granted), me, s, view, Granted)
        BY <2>1, AuditFact
  <2> QED BY <1>1, <2>2 DEF Recent
<1>5. /\ DOMAIN liveAudit' = keys \cup DOMAIN liveAudit
      /\ \A k \in DOMAIN liveAudit' : liveAudit'[k] = IF k \in keys THEN now ELSE liveAudit[k]
      BY <1>1 DEF Updated
<1>6. LogInv'
  <2>1. \A r \in access' : IsRead(r) /\ r.t \in Nat /\ r.t <= now
        BY <1>2, <1>3, RecordFact DEF LogInv
  <2>2. ASSUME NEW k \in DOMAIN liveAudit' \ leftOver'
        PROVE  /\ liveAudit'[k] \in Nat
               /\ \E r \in access' : /\ r.allowed = Granted /\ k = Key(r)
                                   /\ r.t <= liveAudit'[k] /\ liveAudit'[k] <= r.t + Repeat
    <3>1. CASE k \in keys
      <4>1. PICK s \in due : k = <<me.id, s, view>>
            BY <3>1
      <4>2. PICK r \in access' : /\ r.actor = me.id /\ r.subject = s /\ r.what = view /\ r.allowed = Granted
                                /\ r.t \in Nat /\ r.t <= now /\ now - r.t <= Repeat
            BY <1>4 DEF Recent
      <4>3. k = Key(r)
            BY <4>1, <4>2 DEF Key
      <4>4. now <= r.t + Repeat
            BY <1>2, <4>2
      <4>5. liveAudit'[k] = now
            BY <1>5, <3>1
      <4> QED BY <1>2, <4>2, <4>3, <4>4, <4>5
    <3>2. CASE k \notin keys
      <4>1. k \in DOMAIN liveAudit \ leftOver /\ liveAudit'[k] = liveAudit[k]
            BY <1>1, <1>5, <2>2, <3>2
      <4> QED BY <1>3, <4>1 DEF LogInv
    <3> QED BY <3>1, <3>2
  <2> QED BY <1>1, <1>2, <2>1, <2>2 DEF LogInv
<1>7. ASSUME NEW s \in shown \ {me.id}
      PROVE  <<me.id, s, view>> \in leftOver' \/ OnRecord(me.id, s)
  <2>1. CASE s \in due
        BY <1>1, <1>4, <2>1, RecentAudited
  <2>2. CASE s \notin due
    <3> DEFINE k == <<me.id, s, view>>
    <3>1. k \in DOMAIN liveAudit /\ now - liveAudit[k] <= AuditEvery /\ now >= liveAudit[k]
          BY <2>2 DEF due, DueViews
    <3>2. k \notin keys
          BY <2>2
    <3>3. CASE k \in leftOver
          BY <1>1, <3>2, <3>3
    <3>4. CASE k \notin leftOver
      <4>1. liveAudit[k] \in Nat
            BY <3>1, <3>4 DEF LogInv
      <4>2. PICK r \in access : /\ r.allowed = Granted /\ k = Key(r)
                               /\ r.t <= liveAudit[k] /\ liveAudit[k] <= r.t + Repeat
            BY <3>1, <3>4 DEF LogInv
      <4>3. r \in access' /\ r.actor = me.id /\ r.subject = s /\ r.t \in Nat
            BY <1>3, <4>2 DEF Key, LogInv
      <4> HIDE DEF k
      <4>4. r.t <= now' /\ r.t + AuditEvery + Repeat >= now'
            BY <1>1, <1>2, <3>1, <4>1, <4>2, <4>3
      <4>5. r.allowed
            BY <4>2 DEF Granted
      <4> QED BY <4>3, <4>4, <4>5 DEF OnRecord
    <3> QED BY <3>3, <3>4
  <2> QED BY <2>1, <2>2
<1> QED BY <1>1, <1>6, <1>7 DEF Audited, shown, view

(* What leaves the log, the table and the clock alone. *)
LEMMA QuietLogs ==
    ASSUME LogInv, UNCHANGED <<access, polls, now>> PROVE LogInv'
BY DEF LogInv, polls

LEMMA CommandLogs ==
    ASSUME LogInv, UNCHANGED <<access, polls>>, NEW who, NEW op, NEW x, NEW code, Answer(who, op, x, code, {})
    PROVE  LogInv' /\ Audited
<1>1. UNCHANGED now /\ asked'.shows = {}
      BY DEF Answer, Reply
<1> QED BY <1>1, QuietLogs DEF Audited

(* A new world's log is empty, and the polls are gone or of an earlier one. *)
LEMMA ReloadLogs ==
    ASSUME LogInv, NEW who, Reload(who)
    PROVE  LogInv' /\ Audited
<1>1. ASSUME NEW anew \in BOOLEAN, EndSessions(who, anew) \/ LeaveSessions(anew),
             IF anew THEN access' = {} /\ now' = 0 ELSE UNCHANGED <<access, now>>
      PROVE  LogInv'
  <2>1. /\ now' \in Nat /\ \A r \in access' : IsRead(r) /\ r.t \in Nat /\ r.t <= now'
        BY <1>1 DEF LogInv
  <2>2. CASE EndSessions(who, anew)
    <3>1. DOMAIN liveAudit' = {}
          BY <2>2 DEF EndSessions, PollsKept
    <3> QED BY <2>1, <3>1 DEF LogInv
  <2>3. CASE LeaveSessions(anew)
    <3>1. CASE anew
      <4>1. DOMAIN liveAudit' \ leftOver' = {}
            BY <2>3, <3>1 DEF LeaveSessions
      <4> QED BY <2>1, <4>1 DEF LogInv
    <3>2. CASE ~anew
          BY <1>1, <2>3, <3>2, QuietLogs DEF LeaveSessions, polls
    <3> QED BY <3>1, <3>2
  <2> QED BY <1>1, <2>2, <2>3
<1>2. CASE Load(who) \/ Reset(who)
  <2>1. asked'.shows = {}
    <3>1. \E code : Reply(who, "scenario", 0, code, {})
          BY <1>2 DEF Load, Reset
    <3> QED BY <3>1 DEF Reply
  <2>2. \/ UNCHANGED platform /\ EndSessions(who, FALSE)
        \/ \E anew, zoned \in BOOLEAN : Run(anew, zoned) /\ (EndSessions(who, anew) \/ LeaveSessions(anew))
        BY <1>2 DEF Load, Reset
  <2>3. LogInv'
        BY <1>1, <2>2 DEF Run, platform
  <2> QED BY <2>1, <2>3 DEF Audited
<1>3. CASE Answer(who, "scenario", 0, 403, {}) /\ UNCHANGED <<platform, polls>>
      BY <1>3, CommandLogs DEF platform
<1> QED BY <1>2, <1>3 DEF Reload

LEMMA NoAnswerAudited == ASSUME asked'.shows = {} PROVE Audited
BY DEF Audited

LEMMA ConsoleLogs == ASSUME LogInv, NEW who, Console(who) PROVE LogInv' /\ Audited
<1>1. CASE (\E u \in Ids : Login(who, u)) \/ Refuse(who) \/ Logout(who)
  <2>1. /\ UNCHANGED <<access, polls, now>>
        /\ asked' = NoAnswer \/ asked' = [NoAnswer EXCEPT !.by = who, !.code = 401]
        BY <1>1 DEF Login, Refuse, Logout, platform
  <2>2. LogInv'
        BY <2>1, QuietLogs
  <2>3. NoAnswer.shows = {} /\ [NoAnswer EXCEPT !.by = who, !.code = 401].shows = {}
        BY DEF NoAnswer
  <2>4. asked'.shows = {}
        BY <2>1, <2>3
  <2> QED BY <2>2, <2>4, NoAnswerAudited
<1>2. CASE Reload(who)
      BY <1>2, ReloadLogs
<1>3. CASE \/ \E op \in Polled \ {"incident_read"} : Poll(who, op, 0)
           \/ \E x \in CaseIds : Poll(who, "incident_read", x)
  <2>1. "incident_read" \in Polled
        BY DEF Polled
  <2> QED BY <1>3, <2>1, PollLogs
<1>4. CASE \/ \E op \in {"user_read", "trail_read"}, x \in Tourists : Read(who, op, x)
           \/ Read(who, "history", 0)
      BY <1>4, ReadLogs
<1>5. CASE \/ \E x \in CaseIds : Assign(who, x) \/ Resolve(who, x)
           \/ \E name \in NewAccounts, role \in NewRoles : CreateUser(who, name, role)
           \/ \E x \in UNION {Named(n) : n \in Switched}, on \in BOOLEAN : SetActive(who, x, on)
           \/ \E x \in Tourists : Share(who, x)
  <2>1. ASSUME NEW x, Assign(who, x) PROVE LogInv' /\ Audited
        BY <2>1, CommandLogs DEF Assign
  <2>2. ASSUME NEW x, Resolve(who, x) PROVE LogInv' /\ Audited
        BY <2>2, CommandLogs DEF Resolve
  <2>3. ASSUME NEW name, NEW role, CreateUser(who, name, role) PROVE LogInv' /\ Audited
        BY <2>3, CommandLogs DEF CreateUser
  <2>4. ASSUME NEW x, NEW on, SetActive(who, x, on) PROVE LogInv' /\ Audited
        BY <2>4, CommandLogs DEF SetActive
  <2>5. ASSUME NEW x, Share(who, x) PROVE LogInv' /\ Audited
        BY <2>5, CommandLogs DEF Share
  <2> QED BY <1>5, <2>1, <2>2, <2>3, <2>4, <2>5
<1> QED BY <1>1, <1>2, <1>3, <1>4, <1>5 DEF Console

(* For any accounts, polls and reads: whoever was just shown another        *)
(* person's position has a record of it in the access log of this world not *)
(* older than the polling interval and the time of a repeat, but where a    *)
(* load that failed left the poll of an earlier world (Api::audit_view,     *)
(* Platform::audit_access).                                                 *)
THEOREM ReadsAreOnRecord == Spec => AuditedInTime
<1>1. Init => LogInv
  <2> SUFFICES ASSUME Init PROVE LogInv
      OBVIOUS
  <2>1. access = {} /\ DOMAIN liveAudit = {} /\ now = 0
        BY DEF Init
  <2> QED BY <2>1 DEF LogInv
<1>2. LogInv /\ Next => LogInv' /\ Audited
  <2> SUFFICES ASSUME LogInv, Next PROVE LogInv' /\ Audited
      OBVIOUS
  <2>1. CASE \E who \in people : Console(who)
        BY <2>1, ConsoleLogs
  <2>2. CASE Incident \/ Simulate
        BY <2>2, QuietLogs, NoAnswerAudited DEF Incident, Simulate, NoAnswer
  <2>3. CASE Pass(1)
    <3>1. UNCHANGED <<access, liveAudit, leftOver>> /\ now' = now + 1 /\ asked'.shows = {}
          BY <2>3 DEF Pass, NoAnswer, polls
    <3>2. now' \in Nat /\ \A r \in access : r.t \in Nat /\ r.t <= now'
          BY <3>1 DEF LogInv
    <3> QED BY <3>1, <3>2, NoAnswerAudited DEF LogInv
  <2> QED BY <2>1, <2>2, <2>3 DEF Next
<1>3. LogInv /\ UNCHANGED vars => LogInv'
      BY QuietLogs DEF vars, platform
<1>4. Spec => [][Audited]_vars
      BY <1>1, <1>2, <1>3, PTL DEF Spec
<1> QED BY <1>4 DEF AuditedInTime, Audited, OnRecord

-----------------------------------------------------------------------------
(* Rate limits.  What a watched client was granted and what its buckets     *)
(* still hold never exceed together a burst and the rate.                   *)

BucketKinds == {"a", "n", "s", "login"}
IsKey(k) == R!Kind(k) \in BucketKinds

Buckets(bs) ==
    /\ IsFiniteSet(DOMAIN bs)
    /\ \A k \in DOMAIN bs : IsKey(k) /\ bs[k] \in [tokens : Nat, age : 0..Idle + 1]

Busy(bs) == {k \in DOMAIN bs : bs[k].age <= Idle}

LEMMA RatesFact ==
    /\ LabCost \in Nat /\ Idle \in Nat /\ TableSize \in Nat /\ TableSize >= 3
    /\ \A k : IsKey(k) => /\ Rate[R!Kind(k)] \in Nat /\ Burst[R!Kind(k)] \in Nat
                          /\ Burst[R!Kind(k)] <= (Idle + 1) * Rate[R!Kind(k)]
BY FrontAssumption DEF FrontAssumption, IsKey, BucketKinds

LEMMA LeastFact ==
    ASSUME NEW a \in Int, NEW b \in Int
    PROVE  R!Min({a, b}) = IF a <= b THEN a ELSE b
<1> DEFINE m == IF a <= b THEN a ELSE b
<1>1. m \in {a, b} /\ \A y \in {a, b} : m <= y
      OBVIOUS
<1>2. \A x \in {a, b} : (\A y \in {a, b} : x <= y) => x = m
      OBVIOUS
<1> HIDE DEF m
<1>3. R!Min({a, b}) = m
      BY <1>1, <1>2 DEF R!Min
<1> QED BY <1>3 DEF m

(* A bucket holds at most a burst, and one left alone for long all of it.   *)
LEMMA FilledFact ==
    ASSUME NEW bs, Buckets(bs), NEW k, IsKey(k)
    PROVE  /\ R!Filled(bs, k) \in Nat /\ R!Filled(bs, k) <= Burst[R!Kind(k)]
           /\ k \notin Busy(bs) => R!Filled(bs, k) = Burst[R!Kind(k)]
<1> DEFINE r == Rate[R!Kind(k)]
           b == Burst[R!Kind(k)]
<1>1. r \in Nat /\ b \in Nat /\ b <= (Idle + 1) * r /\ Idle \in Nat
      BY RatesFact
<1>2. CASE k \notin DOMAIN bs
      BY <1>1, <1>2 DEF R!Filled
<1>3. CASE k \in DOMAIN bs
  <2> DEFINE t == bs[k].tokens
             a == bs[k].age
  <2>1. t \in Nat /\ a \in 0..Idle + 1
        BY <1>3 DEF Buckets
  <2>2. a * r \in Nat /\ t + a * r \in Int
        BY <1>1, <2>1
  <2>3. R!Filled(bs, k) = IF b <= t + a * r THEN b ELSE t + a * r
        BY <1>1, <1>3, <2>2, LeastFact DEF R!Filled
  <2>4. k \notin Busy(bs) => a = Idle + 1
        BY <1>1, <1>3, <2>1 DEF Busy
  <2> HIDE DEF r, b, t, a
  <2>5. a = Idle + 1 => b <= t + a * r
        BY <1>1, <2>1, <2>2
  <2>6. R!Filled(bs, k) \in Nat /\ R!Filled(bs, k) <= b /\ (k \notin Busy(bs) => R!Filled(bs, k) = b)
        BY <1>1, <2>1, <2>2, <2>3, <2>4, <2>5
  <2> QED BY <2>6 DEF b
<1> QED BY <1>2, <1>3

LEMMA SameCardinality == \A X : R!Cardinality(X) = Cardinality(X)
BY DEF R!Cardinality, Cardinality

(* Too big a table is swept of idle buckets, and emptied if that is not     *)
(* enough.                                                                  *)
LEMMA PrunedFact ==
    ASSUME NEW bs, Buckets(bs)
    PROVE  LET kept == R!Pruned(bs) IN
           /\ Buckets(kept) /\ DOMAIN kept \subseteq DOMAIN bs
           /\ \A k \in DOMAIN kept : kept[k] = bs[k]
           /\ Busy(bs) \subseteq DOMAIN kept \/ (DOMAIN kept = {} /\ Cardinality(Busy(bs)) > TableSize)
<1> DEFINE rest == R!Restrict(bs, {k \in DOMAIN bs : bs[k].age <= Idle})
           kept == R!Pruned(bs)
<1>1. DOMAIN rest = Busy(bs) /\ \A k \in DOMAIN rest : rest[k] = bs[k]
      BY DEF R!Restrict, Busy
<1>2. Busy(bs) \subseteq DOMAIN bs /\ IsFiniteSet(Busy(bs))
      BY FS_Subset DEF Busy, Buckets
<1>3. DOMAIN <<>> = {}
      OBVIOUS
<1>4. Cardinality(Busy(bs)) \in Nat /\ TableSize \in Nat
      BY <1>2, FS_CardinalityType, RatesFact
<1>5. CASE kept = bs
      BY <1>2, <1>5
<1>6. CASE kept = rest
      BY <1>1, <1>2, <1>6 DEF Buckets
<1>7. CASE kept = <<>> /\ ~R!Fits(rest)
  <2> HIDE DEF rest
  <2>1. ~(Cardinality(DOMAIN rest) <= TableSize)
        BY <1>7, SameCardinality DEF R!Fits
  <2>2. Cardinality(Busy(bs)) > TableSize
        BY <1>1, <1>4, <2>1
  <2> QED BY <1>3, <1>7, <2>2, FS_EmptySet DEF Buckets
<1> QED BY <1>5, <1>6, <1>7 DEF R!Pruned

(* What a charge leaves, for as long as the table is not emptied: no bucket *)
(* holds more, and the one charged less what was granted.                   *)
Held(bs, after) == Busy(bs) \subseteq Busy(after) /\ \A k : IsKey(k) => R!Filled(after, k) <= R!Filled(bs, k)

Emptied(bs, after, key) == DOMAIN after \subseteq {key} /\ Cardinality(Busy(bs)) > TableSize

LEMMA TakeFact ==
    ASSUME NEW bs, Buckets(bs), NEW key, IsKey(key), NEW cost \in Nat
    PROVE  LET after == R!Take(bs, key, cost) IN
           /\ Buckets(after) /\ DOMAIN after \subseteq DOMAIN bs \cup {key}
           /\ Busy(after) \subseteq Busy(bs) \cup {key}
           /\ \/ Emptied(bs, after, key)
              \/ /\ Held(bs, after)
                 /\ R!Grants(bs, key, cost) => R!Filled(after, key) + cost <= R!Filled(bs, key)
<1> DEFINE kept == R!Pruned(bs)
           full == R!Filled(kept, key)
           left == full - (IF full >= cost THEN cost ELSE 0)
           after == R!Take(bs, key, cost)
<1>1. /\ Buckets(kept) /\ DOMAIN kept \subseteq DOMAIN bs
      /\ \A k \in DOMAIN kept : kept[k] = bs[k]
      /\ Busy(bs) \subseteq DOMAIN kept \/ (DOMAIN kept = {} /\ Cardinality(Busy(bs)) > TableSize)
      BY PrunedFact
<1>2. full \in Nat /\ left \in Nat /\ left <= full /\ full <= Burst[R!Kind(key)]
  <2>1. full \in Nat /\ full <= Burst[R!Kind(key)]
        BY <1>1, FilledFact
  <2> QED BY <2>1
<1>3. /\ DOMAIN after = DOMAIN kept \cup {key}
      /\ \A k \in DOMAIN after : after[k] = IF k = key THEN [tokens |-> left, age |-> 0] ELSE kept[k]
      BY DEF R!Take
<1>4. R!Grants(bs, key, cost) <=> full >= cost
      BY DEF R!Grants
<1>5. Idle \in Nat /\ Rate[R!Kind(key)] \in Nat /\ Burst[R!Kind(key)] \in Nat
      BY RatesFact
<1>6. left = full - (IF full >= cost THEN cost ELSE 0)
      OBVIOUS
<1> HIDE DEF kept, full, left, after
<1>7. Buckets(after)
  <2>1. IsFiniteSet(DOMAIN after)
        BY <1>1, <1>3, FS_AddElement DEF Buckets
  <2>2. \A k \in DOMAIN after : after[k] \in [tokens : Nat, age : 0..Idle + 1]
        BY <1>1, <1>2, <1>3, <1>5 DEF Buckets
  <2>3. \A k \in DOMAIN after : IsKey(k)
        BY <1>1, <1>3 DEF Buckets
  <2> QED BY <2>1, <2>2, <2>3 DEF Buckets
<1>8. Busy(after) \subseteq Busy(bs) \cup {key}
      BY <1>1, <1>3 DEF Busy
<1>9. R!Filled(after, key) = left
  <2>1. R!Filled(after, key) = R!Min({Burst[R!Kind(key)], left + 0 * Rate[R!Kind(key)]})
        BY <1>3 DEF R!Filled
  <2>2. left + 0 * Rate[R!Kind(key)] = left
        BY <1>2, <1>5
  <2> QED BY <1>2, <1>5, <2>1, <2>2, LeastFact
<1>10. CASE Busy(bs) \subseteq DOMAIN kept
  <2>1. ASSUME NEW k, IsKey(k) PROVE R!Filled(kept, k) <= R!Filled(bs, k)
    <3>1. /\ R!Filled(kept, k) \in Nat /\ R!Filled(kept, k) <= Burst[R!Kind(k)]
          /\ k \notin Busy(bs) => R!Filled(bs, k) = Burst[R!Kind(k)]
          BY <1>1, <2>1, FilledFact
    <3>2. k \in Busy(bs) => R!Filled(kept, k) = R!Filled(bs, k)
          BY <1>1, <1>10 DEF R!Filled, Busy
    <3> QED BY <3>1, <3>2
  <2>2. ASSUME NEW k, IsKey(k) PROVE R!Filled(after, k) <= R!Filled(bs, k)
    <3>1. R!Filled(kept, k) <= R!Filled(bs, k) /\ R!Filled(bs, k) \in Nat /\ R!Filled(kept, k) \in Nat
          BY <1>1, <2>1, <2>2, FilledFact
    <3>2. CASE k = key
          BY <1>2, <1>9, <3>1, <3>2 DEF full
    <3>3. CASE k # key
      <4>1. R!Filled(after, k) = R!Filled(kept, k)
            BY <1>3, <3>3 DEF R!Filled
      <4> QED BY <3>1, <4>1
    <3> QED BY <3>2, <3>3
  <2>3. Busy(bs) \subseteq Busy(after)
    <3>1. ASSUME NEW k \in Busy(bs) PROVE k \in DOMAIN after /\ after[k].age <= Idle
          BY <1>1, <1>3, <1>5, <1>10 DEF Busy
    <3> QED BY <3>1 DEF Busy
  <2>4. R!Grants(bs, key, cost) => R!Filled(after, key) + cost <= R!Filled(bs, key)
    <3>1. full <= R!Filled(bs, key) /\ R!Filled(bs, key) \in Nat
          BY <2>1, FilledFact DEF full
    <3> QED BY <1>2, <1>4, <1>6, <1>9, <3>1
  <2>5. Held(bs, after)
        BY <2>2, <2>3 DEF Held
  <2> QED BY <1>1, <1>3, <1>7, <1>8, <2>4, <2>5 DEF after
<1>11. CASE DOMAIN kept = {} /\ Cardinality(Busy(bs)) > TableSize
  <2>1. Emptied(bs, after, key)
        BY <1>3, <1>11 DEF Emptied
  <2> QED BY <1>1, <1>3, <1>7, <1>8, <2>1 DEF after
<1> QED BY <1>1, <1>10, <1>11

(* A request's charges, one after another. *)
Charged(bs, after, key, cost, pass) ==
    /\ Buckets(after) /\ DOMAIN after \subseteq DOMAIN bs \cup {key}
    /\ Busy(after) \subseteq Busy(bs) \cup {key}
    /\ \/ Emptied(bs, after, key)
       \/ Held(bs, after) /\ (pass => R!Filled(after, key) + cost <= R!Filled(bs, key))

LEMMA ChargeOneFact ==
    ASSUME NEW bs, Buckets(bs), NEW pass \in BOOLEAN, NEW key, IsKey(key), NEW cost \in Nat
    PROVE  LET after == R!ChargeOne([buckets |-> bs, pass |-> pass], key, cost) IN
           /\ after = [buckets |-> after.buckets, pass |-> after.pass] /\ after.pass \in BOOLEAN
           /\ after.pass => pass
           /\ ~pass => after.buckets = bs
           /\ Charged(bs, after.buckets, key, cost, after.pass)
<1> DEFINE after == R!ChargeOne([buckets |-> bs, pass |-> pass], key, cost)
<1>1. CASE ~pass
  <2>1. after = [buckets |-> bs, pass |-> pass]
        BY <1>1 DEF R!ChargeOne
  <2>2. Held(bs, bs)
    <3>1. \A k : IsKey(k) => R!Filled(bs, k) <= R!Filled(bs, k)
          BY FilledFact
    <3> QED BY <3>1 DEF Held
  <2> QED BY <1>1, <2>1, <2>2 DEF Charged
<1>2. CASE pass
  <2>1. after = [buckets |-> R!Take(bs, key, cost), pass |-> R!Grants(bs, key, cost)]
        BY <1>2 DEF R!ChargeOne
  <2>2. R!Grants(bs, key, cost) \in BOOLEAN
        BY DEF R!Grants
  <2>3. Charged(bs, R!Take(bs, key, cost), key, cost, R!Grants(bs, key, cost))
        BY TakeFact DEF Charged
  <2> QED BY <1>2, <2>1, <2>2, <2>3
<1> QED BY <1>1, <1>2

(* The buckets a request is charged to. *)
KeysOfRequest(req) == {R!AddressOf(req), R!BudgetOf(req), <<"login">>}

LEMMA AddedFact ==
    ASSUME NEW X, IsFiniteSet(X), NEW x
    PROVE  /\ IsFiniteSet(X \cup {x}) /\ Cardinality(X) \in Nat
           /\ Cardinality(X \cup {x}) \in Nat /\ Cardinality(X \cup {x}) <= Cardinality(X) + 1
<1>1. IsFiniteSet(X \cup {x}) /\ Cardinality(X) \in Nat
      BY FS_AddElement, FS_CardinalityType
<1>2. Cardinality(X \cup {x}) = IF x \in X THEN Cardinality(X) ELSE Cardinality(X) + 1
      BY FS_AddElement
<1> QED BY <1>1, <1>2

LEMMA RequestKeys ==
    ASSUME NEW req
    PROVE  /\ IsKey(R!AddressOf(req)) /\ IsKey(R!BudgetOf(req)) /\ IsKey(<<"login">>)
           /\ R!Cost(req) \in Nat
           /\ \A X : X \subseteq KeysOfRequest(req) => IsFiniteSet(X) /\ Cardinality(X) <= TableSize
<1>1. IsKey(R!AddressOf(req)) /\ IsKey(R!BudgetOf(req)) /\ IsKey(<<"login">>)
      BY DEF IsKey, BucketKinds, R!Kind, R!AddressOf, R!BudgetOf
<1>2. R!Cost(req) \in Nat
      BY RatesFact DEF R!Cost
<1>3. ASSUME NEW X, X \subseteq KeysOfRequest(req) PROVE IsFiniteSet(X) /\ Cardinality(X) <= TableSize
  <2> DEFINE a == R!AddressOf(req)
             b == R!BudgetOf(req)
             c == <<"login">>
  <2> HIDE DEF a, b, c
  <2>1. IsFiniteSet({a}) /\ Cardinality({a}) <= 1
    <3>1. IsFiniteSet({a}) /\ Cardinality({a}) = 1
          BY FS_Singleton, Zenon
    <3> QED BY <3>1
  <2> DEFINE both == {a} \cup {b}
             all == both \cup {c}
  <2>2. IsFiniteSet(both) /\ Cardinality(both) <= 2
    <3>1. /\ IsFiniteSet({a} \cup {b}) /\ Cardinality({a}) \in Nat /\ Cardinality({a} \cup {b}) \in Nat
          /\ Cardinality({a} \cup {b}) <= Cardinality({a}) + 1
          BY <2>1, AddedFact, Zenon
    <3> HIDE DEF both
    <3>2. IsFiniteSet(both) /\ Cardinality({a}) \in Nat /\ Cardinality(both) \in Nat /\ Cardinality(both) <= Cardinality({a}) + 1
          BY <3>1 DEF both
    <3> QED BY <2>1, <3>2
  <2> HIDE DEF both
  <2>3. IsFiniteSet(all) /\ Cardinality(all) <= 3
    <3>1. /\ IsFiniteSet(both \cup {c}) /\ Cardinality(both) \in Nat /\ Cardinality(both \cup {c}) \in Nat
          /\ Cardinality(both \cup {c}) <= Cardinality(both) + 1
          BY <2>2, AddedFact, Zenon
    <3> HIDE DEF all
    <3>2. IsFiniteSet(all) /\ Cardinality(both) \in Nat /\ Cardinality(all) \in Nat /\ Cardinality(all) <= Cardinality(both) + 1
          BY <3>1 DEF all
    <3> QED BY <2>2, <3>2
  <2>4. X \subseteq all
        BY <1>3 DEF KeysOfRequest, a, b, c, both
  <2> HIDE DEF all
  <2>5. IsFiniteSet(X) /\ Cardinality(X) <= Cardinality(all)
        BY <2>3, <2>4, FS_Subset
  <2>6. Cardinality(X) \in Nat /\ Cardinality(all) \in Nat /\ Cardinality(all) <= 3
        BY <2>3, <2>5, FS_CardinalityType
  <2> QED BY <2>5, <2>6, RatesFact
<1> QED BY <1>1, <1>2, <1>3

(* A table that loses none of its busy buckets was not emptied on the way:  *)
(* only the request's own would be in it after that, and they are too few.  *)
LEMMA ChargeFact ==
    ASSUME NEW bs, Buckets(bs), NEW req
    PROVE  LET c == R!Charge(bs, req)
               after == c.buckets
           IN  /\ Buckets(after)
               /\ Busy(bs) \subseteq DOMAIN after =>
                     /\ \A k : IsKey(k) => R!Filled(after, k) <= R!Filled(bs, k)
                     /\ c.pass => R!Filled(after, R!AddressOf(req)) + R!Cost(req) <= R!Filled(bs, R!AddressOf(req))
                     /\ c.pass /\ req.kind # "file" =>
                           R!Filled(after, R!BudgetOf(req)) + R!Cost(req) <= R!Filled(bs, R!BudgetOf(req))
                     /\ c.pass /\ req.kind = "login" =>
                           R!Filled(after, <<"login">>) + 1 <= R!Filled(bs, <<"login">>)
<1> DEFINE ka == R!AddressOf(req)
           kb == R!BudgetOf(req)
           kl == <<"login">>
           cost == R!Cost(req)
           K == KeysOfRequest(req)
           one == R!ChargeOne([buckets |-> bs, pass |-> Granted], ka, cost)
           two == IF req.kind = "file" THEN one ELSE R!ChargeOne(one, kb, cost)
           three == IF req.kind = "login" THEN R!ChargeOne(two, kl, 1) ELSE two
<1>1. /\ IsKey(ka) /\ IsKey(kb) /\ IsKey(kl) /\ cost \in Nat /\ ka \in K /\ kb \in K /\ kl \in K
      /\ \A X : X \subseteq K => IsFiniteSet(X) /\ Cardinality(X) <= TableSize
      BY RequestKeys DEF KeysOfRequest
<1>2. R!Charge(bs, req) = three
      BY DEF R!Charge, Granted
<1>3. Held(bs, bs) /\ \A b : Buckets(b) => Held(b, b)
  <2>1. \A b : Buckets(b) => \A k : IsKey(k) => R!Filled(b, k) <= R!Filled(b, k)
        BY FilledFact
  <2> QED BY <2>1 DEF Held
<1> HIDE DEF ka, kb, kl, cost, K
<1>4. /\ one = [buckets |-> one.buckets, pass |-> one.pass] /\ one.pass \in BOOLEAN
      /\ Charged(bs, one.buckets, ka, cost, one.pass)
  <2>1. Granted \in BOOLEAN
        BY DEF Granted
  <2> QED BY <1>1, <2>1, ChargeOneFact
<1> HIDE DEF one
<1>5. /\ two = [buckets |-> two.buckets, pass |-> two.pass] /\ two.pass \in BOOLEAN
      /\ two.pass => one.pass
      /\ \/ two.buckets = one.buckets /\ req.kind = "file"
         \/ Charged(one.buckets, two.buckets, kb, cost, two.pass)
  <2>1. CASE req.kind = "file"
        BY <1>4, <2>1
  <2>2. CASE req.kind # "file"
    <3>1. Buckets(one.buckets)
          BY <1>4 DEF Charged
    <3>2. two = R!ChargeOne([buckets |-> one.buckets, pass |-> one.pass], kb, cost)
          BY <1>4, <2>2
    <3> QED BY <1>1, <1>4, <3>1, <3>2, ChargeOneFact
  <2> QED BY <2>1, <2>2
<1> HIDE DEF two
<1>6. Buckets(one.buckets) /\ Buckets(two.buckets)
      BY <1>4, <1>5 DEF Charged
<1>7. /\ three.pass \in BOOLEAN
      /\ three.pass => two.pass
      /\ \/ three.buckets = two.buckets /\ req.kind # "login"
         \/ Charged(two.buckets, three.buckets, kl, 1, three.pass)
  <2>1. CASE req.kind # "login"
        BY <1>5, <2>1
  <2>2. CASE req.kind = "login"
    <3>1. three = R!ChargeOne([buckets |-> two.buckets, pass |-> two.pass], kl, 1)
          BY <1>5, <2>2
    <3> QED BY <1>1, <1>5, <1>6, <3>1, ChargeOneFact
  <2> QED BY <2>1, <2>2
<1> HIDE DEF three
<1>8. Buckets(three.buckets)
      BY <1>6, <1>7 DEF Charged
<1>9. /\ Busy(one.buckets) \subseteq Busy(bs) \cup K /\ Busy(two.buckets) \subseteq Busy(bs) \cup K
      BY <1>1, <1>4, <1>5 DEF Charged
<1>10. ASSUME Busy(bs) \subseteq DOMAIN three.buckets
       PROVE  /\ ~Emptied(bs, one.buckets, ka) /\ ~Emptied(one.buckets, two.buckets, kb)
              /\ ~Emptied(two.buckets, three.buckets, kl)
  <2>1. ASSUME NEW b, Busy(b) \subseteq Busy(bs) \cup K, DOMAIN three.buckets \subseteq K,
               Cardinality(Busy(b)) > TableSize
        PROVE  FALSE
    <3>1. Busy(b) \subseteq K
          BY <1>10, <2>1
    <3>2. IsFiniteSet(Busy(b)) /\ Cardinality(Busy(b)) <= TableSize
          BY <1>1, <3>1
    <3> QED BY <2>1, <3>2, FS_CardinalityType, RatesFact
  <2>2. ASSUME Emptied(two.buckets, three.buckets, kl) PROVE FALSE
        BY <1>1, <1>9, <2>1, <2>2 DEF Emptied
  <2>3. DOMAIN three.buckets \subseteq DOMAIN two.buckets \cup K
        BY <1>1, <1>7 DEF Charged
  <2>4. ASSUME Emptied(one.buckets, two.buckets, kb) PROVE FALSE
        BY <1>1, <1>9, <2>1, <2>3, <2>4 DEF Emptied
  <2>5. DOMAIN two.buckets \subseteq DOMAIN one.buckets \cup K
        BY <1>1, <1>5 DEF Charged
  <2>6. ASSUME Emptied(bs, one.buckets, ka) PROVE FALSE
    <3>1. Busy(bs) \subseteq Busy(bs) \cup K /\ DOMAIN three.buckets \subseteq K /\ Cardinality(Busy(bs)) > TableSize
          BY <1>1, <2>3, <2>5, <2>6 DEF Emptied
    <3> QED BY <2>1, <3>1
  <2> QED BY <2>2, <2>4, <2>6
<1>11. ASSUME Busy(bs) \subseteq DOMAIN three.buckets
       PROVE  /\ Held(bs, one.buckets) /\ (one.pass => R!Filled(one.buckets, ka) + cost <= R!Filled(bs, ka))
              /\ Held(one.buckets, two.buckets)
              /\ two.pass /\ req.kind # "file" => R!Filled(two.buckets, kb) + cost <= R!Filled(one.buckets, kb)
              /\ Held(two.buckets, three.buckets)
              /\ three.pass /\ req.kind = "login" => R!Filled(three.buckets, kl) + 1 <= R!Filled(two.buckets, kl)
       BY <1>3, <1>4, <1>5, <1>6, <1>7, <1>10, <1>11 DEF Charged
<1>12. ASSUME NEW k, IsKey(k)
       PROVE  /\ R!Filled(bs, k) \in Nat /\ R!Filled(one.buckets, k) \in Nat
              /\ R!Filled(two.buckets, k) \in Nat /\ R!Filled(three.buckets, k) \in Nat
       BY <1>6, <1>8, <1>12, FilledFact
<1>13. ASSUME Busy(bs) \subseteq DOMAIN three.buckets
       PROVE  /\ \A k : IsKey(k) => R!Filled(three.buckets, k) <= R!Filled(bs, k)
              /\ three.pass => R!Filled(three.buckets, ka) + cost <= R!Filled(bs, ka)
              /\ three.pass /\ req.kind # "file" => R!Filled(three.buckets, kb) + cost <= R!Filled(bs, kb)
              /\ three.pass /\ req.kind = "login" => R!Filled(three.buckets, kl) + 1 <= R!Filled(bs, kl)
  <2>1. ASSUME NEW k, IsKey(k)
        PROVE  /\ R!Filled(three.buckets, k) <= R!Filled(two.buckets, k)
               /\ R!Filled(two.buckets, k) <= R!Filled(one.buckets, k)
               /\ R!Filled(one.buckets, k) <= R!Filled(bs, k)
        BY <1>11, <1>13, <2>1 DEF Held
  <2>2. three.pass => one.pass /\ two.pass
        BY <1>5, <1>7
  <2>3. \A k : IsKey(k) => R!Filled(three.buckets, k) <= R!Filled(bs, k)
        BY <1>12, <2>1
  <2>4. three.pass => R!Filled(three.buckets, ka) + cost <= R!Filled(bs, ka)
        BY <1>1, <1>11, <1>12, <1>13, <2>1, <2>2
  <2>5. three.pass /\ req.kind # "file" => R!Filled(three.buckets, kb) + cost <= R!Filled(bs, kb)
        BY <1>1, <1>11, <1>12, <1>13, <2>1, <2>2
  <2>6. three.pass /\ req.kind = "login" => R!Filled(three.buckets, kl) + 1 <= R!Filled(bs, kl)
        BY <1>1, <1>11, <1>12, <1>13, <2>1, <2>2
  <2> QED BY <2>3, <2>4, <2>5, <2>6
<1> QED BY <1>2, <1>8, <1>13 DEF ka, kb, kl, cost

Watches == [of : {"nobody"} \cup {req.origin : req \in Requests},
            elapsed : Nat, spent : Nat, unnamed : Nat, logins : Nat]

(* What was granted and what is left, together. *)
Budget(granted, key) ==
    granted + R!Filled(buckets, key) <= Burst[R!Kind(key)] + watch.elapsed * Rate[R!Kind(key)]

RateInv ==
    /\ Buckets(buckets)
    /\ watch \in Watches
    /\ watch.of # "nobody" => /\ Budget(watch.spent, <<"a", watch.of>>)
                              /\ Budget(watch.unnamed, <<"n", watch.of>>)
                              /\ Budget(watch.logins, <<"login">>)

LEMMA WatchKeys ==
    /\ \A x : IsKey(<<"a", x>>) /\ R!Kind(<<"a", x>>) = "a"
    /\ \A x : IsKey(<<"n", x>>) /\ R!Kind(<<"n", x>>) = "n"
    /\ IsKey(<<"login">>) /\ R!Kind(<<"login">>) = "login"
BY DEF IsKey, BucketKinds, R!Kind

(* Behind a trusted proxy or not, a request counts for where it comes from. *)
LEMMA ClientFact == ASSUME NEW req \in Requests PROVE R!ClientOf(req) = req.origin
<1>1. IF req.peer \in Proxies THEN req.headers = <<req.origin>> /\ req.origin \in Plausible
      ELSE req.peer = req.origin
      BY FrontAssumption DEF FrontAssumption
<1> QED BY <1>1 DEF R!ClientOf

LEMMA HandleKeepsRateInv ==
    ASSUME RateInv, NEW req \in Requests, R!Handle(req)
    PROVE  RateInv'
<1> DEFINE c == R!Charge(buckets, req)
           lost == \E k \in DOMAIN buckets : k \notin DOMAIN c.buckets /\ buckets[k].age <= Idle
<1>1. buckets' = c.buckets /\ watch' = IF lost THEN R!NoWatch ELSE IF c.pass THEN R!Counted(req) ELSE watch
      BY DEF R!Handle
<1>2. Buckets(buckets) /\ watch \in Watches
      BY DEF RateInv
<1>3. Buckets(buckets')
      BY <1>1, <1>2, ChargeFact
<1>4. CASE lost
  <2>1. watch' = [of |-> "nobody", elapsed |-> 0, spent |-> 0, unnamed |-> 0, logins |-> 0]
        BY <1>1, <1>4 DEF R!NoWatch
  <2>2. watch' \in Watches /\ watch'.of = "nobody"
        BY <2>1 DEF Watches
  <2> QED BY <1>3, <2>2 DEF RateInv
<1>5. CASE ~lost
  <2> DEFINE mine == req.origin = watch.of
             cost == R!Cost(req)
             spent == IF c.pass /\ mine THEN watch.spent + cost ELSE watch.spent
             unnamed == IF c.pass /\ mine /\ req.kind # "file" /\ req.token \notin Tokens
                        THEN watch.unnamed + cost ELSE watch.unnamed
             logins == IF c.pass /\ req.kind = "login" THEN watch.logins + 1 ELSE watch.logins
             ka == <<"a", watch.of>>
             kn == <<"n", watch.of>>
             kl == <<"login">>
  <2>1. watch.elapsed \in Nat /\ watch.spent \in Nat /\ watch.unnamed \in Nat /\ watch.logins \in Nat /\ cost \in Nat
        BY <1>2, RequestKeys DEF Watches
  <2>2. watch' = [of |-> watch.of, elapsed |-> watch.elapsed, spent |-> spent, unnamed |-> unnamed, logins |-> logins]
    <3>1. CASE c.pass
      <4>1. watch' = [watch EXCEPT
                 !.spent   = IF mine THEN @ + cost ELSE @,
                 !.unnamed = IF mine /\ req.kind # "file" /\ req.token \notin Tokens THEN @ + cost ELSE @,
                 !.logins  = IF req.kind = "login" THEN @ + 1 ELSE @]
            BY <1>1, <1>5, <3>1 DEF R!Counted
      <4> HIDE DEF c, cost, mine
      <4> QED BY <1>2, <3>1, <4>1 DEF Watches
    <3>2. CASE ~c.pass
      <4>1. watch' = watch
            BY <1>1, <1>5, <3>2
      <4> HIDE DEF c, cost, mine
      <4> QED BY <1>2, <3>2, <4>1 DEF Watches
    <3> QED BY <3>1, <3>2
  <2>3. Busy(buckets) \subseteq DOMAIN c.buckets
        BY <1>5 DEF Busy
  <2>4. /\ \A k : IsKey(k) => R!Filled(buckets', k) <= R!Filled(buckets, k)
        /\ c.pass => R!Filled(buckets', R!AddressOf(req)) + cost <= R!Filled(buckets, R!AddressOf(req))
        /\ c.pass /\ req.kind # "file" =>
              R!Filled(buckets', R!BudgetOf(req)) + cost <= R!Filled(buckets, R!BudgetOf(req))
        /\ c.pass /\ req.kind = "login" => R!Filled(buckets', kl) + 1 <= R!Filled(buckets, kl)
        BY <1>1, <1>2, <2>3, ChargeFact
  <2>5. /\ mine => R!AddressOf(req) = ka
        /\ mine /\ req.token \notin Tokens => R!BudgetOf(req) = kn
        BY ClientFact DEF R!AddressOf, R!BudgetOf
  <2>6. \A k : IsKey(k) => R!Filled(buckets', k) \in Nat /\ R!Filled(buckets, k) \in Nat
        BY <1>2, <1>3, FilledFact
  <2>7. IsKey(ka) /\ IsKey(kn) /\ IsKey(kl)
        BY WatchKeys
  <2> HIDE DEF c, mine, cost, ka, kn, kl
  <2>8. /\ spent + R!Filled(buckets', ka) <= watch.spent + R!Filled(buckets, ka)
        /\ spent \in Nat
        BY <2>1, <2>4, <2>5, <2>6, <2>7
  <2>9. /\ unnamed + R!Filled(buckets', kn) <= watch.unnamed + R!Filled(buckets, kn)
        /\ unnamed \in Nat
        BY <2>1, <2>4, <2>5, <2>6, <2>7
  <2>10. /\ logins + R!Filled(buckets', kl) <= watch.logins + R!Filled(buckets, kl)
         /\ logins \in Nat
        BY <2>1, <2>4, <2>6, <2>7
  <2> HIDE DEF spent, unnamed, logins
  <2>11. watch' \in Watches
        BY <1>2, <2>1, <2>2, <2>8, <2>9, <2>10 DEF Watches
  <2>12. /\ watch'.of = watch.of /\ watch'.elapsed = watch.elapsed
         /\ watch'.spent = spent /\ watch'.unnamed = unnamed /\ watch'.logins = logins
        BY <2>2
  <2>13. ASSUME watch.of # "nobody"
         PROVE  Budget(watch.spent, ka)' /\ Budget(watch.unnamed, kn)' /\ Budget(watch.logins, kl)'
    <3>1. /\ watch.spent + R!Filled(buckets, ka) <= Burst[R!Kind(ka)] + watch.elapsed * Rate[R!Kind(ka)]
          /\ watch.unnamed + R!Filled(buckets, kn) <= Burst[R!Kind(kn)] + watch.elapsed * Rate[R!Kind(kn)]
          /\ watch.logins + R!Filled(buckets, kl) <= Burst[R!Kind(kl)] + watch.elapsed * Rate[R!Kind(kl)]
          BY <2>13 DEF RateInv, Budget, ka, kn, kl
    <3>2. \A k \in {ka, kn, kl} : Burst[R!Kind(k)] + watch.elapsed * Rate[R!Kind(k)] \in Nat
          BY <2>1, <2>7, RatesFact
    <3>3. /\ spent + R!Filled(buckets', ka) <= Burst[R!Kind(ka)] + watch.elapsed * Rate[R!Kind(ka)]
          /\ unnamed + R!Filled(buckets', kn) <= Burst[R!Kind(kn)] + watch.elapsed * Rate[R!Kind(kn)]
          /\ logins + R!Filled(buckets', kl) <= Burst[R!Kind(kl)] + watch.elapsed * Rate[R!Kind(kl)]
          BY <2>1, <2>6, <2>7, <2>8, <2>9, <2>10, <3>1, <3>2
    <3>4. ka' = ka /\ kn' = kn
          BY <2>12 DEF ka, kn
    <3> QED BY <2>12, <3>3, <3>4 DEF Budget, kl
  <2> QED BY <1>3, <2>11, <2>12, <2>13 DEF RateInv, ka, kn, kl
<1> QED BY <1>4, <1>5

LEMMA ElapseKeepsRateInv == ASSUME RateInv, R!Elapse PROVE RateInv'
<1>1. Buckets(buckets) /\ watch \in Watches /\ Idle \in Nat
      BY RatesFact DEF RateInv
<1>2. /\ DOMAIN buckets' = DOMAIN buckets
      /\ \A k \in DOMAIN buckets : /\ buckets'[k] \in [tokens : Nat, age : 0..Idle + 1]
                                   /\ buckets'[k].tokens = buckets[k].tokens
                                   /\ buckets'[k].age \in {buckets[k].age, buckets[k].age + 1}
  <2>1. buckets' = [k \in DOMAIN buckets |-> [buckets[k] EXCEPT !.age = R!Min({@ + 1, Idle + 1})]]
        BY DEF R!Elapse
  <2>2. ASSUME NEW k \in DOMAIN buckets
        PROVE  /\ buckets'[k] \in [tokens : Nat, age : 0..Idle + 1]
               /\ buckets'[k].tokens = buckets[k].tokens
               /\ buckets'[k].age \in {buckets[k].age, buckets[k].age + 1}
    <3> DEFINE e == buckets[k]
               a == R!Min({e.age + 1, Idle + 1})
    <3>1. e \in [tokens : Nat, age : 0..Idle + 1]
          BY <1>1 DEF Buckets
    <3>2. a = IF e.age + 1 <= Idle + 1 THEN e.age + 1 ELSE Idle + 1
          BY <1>1, <3>1, LeastFact
    <3>3. a \in 0..Idle + 1 /\ a \in {e.age, e.age + 1}
          BY <1>1, <3>1, <3>2
    <3>4. buckets'[k] = [e EXCEPT !.age = a]
          BY <2>1
    <3> HIDE DEF e, a
    <3>5. buckets'[k] \in [tokens : Nat, age : 0..Idle + 1] /\ buckets'[k].tokens = e.tokens /\ buckets'[k].age = a
          BY <3>1, <3>3, <3>4
    <3> QED BY <3>3, <3>5 DEF e
  <2> QED BY <2>1, <2>2
<1>3. Buckets(buckets')
      BY <1>1, <1>2 DEF Buckets
<1>4. ASSUME NEW k, IsKey(k) PROVE R!Filled(buckets', k) <= R!Filled(buckets, k) + Rate[R!Kind(k)]
  <2> DEFINE r == Rate[R!Kind(k)]
             b == Burst[R!Kind(k)]
  <2>1. r \in Nat /\ b \in Nat
        BY <1>4, RatesFact
  <2>2. CASE k \notin DOMAIN buckets
        BY <1>2, <2>1, <2>2 DEF R!Filled
  <2>3. CASE k \in DOMAIN buckets
    <3> DEFINE t == buckets[k].tokens
               a == buckets[k].age
               a2 == buckets'[k].age
    <3>1. t \in Nat /\ a \in Nat /\ a2 \in {a, a + 1} /\ buckets'[k].tokens = t
          BY <1>1, <1>2, <2>3 DEF Buckets
    <3>2. /\ R!Filled(buckets, k) = R!Min({b, t + a * r})
          /\ R!Filled(buckets', k) = R!Min({b, t + a2 * r})
          BY <1>2, <2>3, <3>1 DEF R!Filled
    <3> HIDE DEF r, b, t, a, a2
    <3>3. a * r \in Nat /\ a2 * r \in {a * r, a * r + r}
          BY <2>1, <3>1
    <3>4. /\ R!Filled(buckets, k) = IF b <= t + a * r THEN b ELSE t + a * r
          /\ R!Filled(buckets', k) = IF b <= t + a2 * r THEN b ELSE t + a2 * r
          BY <2>1, <3>1, <3>2, <3>3, LeastFact
    <3>5. R!Filled(buckets', k) <= R!Filled(buckets, k) + r
          BY <2>1, <3>1, <3>3, <3>4
    <3> QED BY <3>5 DEF r
  <2> QED BY <2>2, <2>3
<1>5. CASE watch.of = "nobody"
      BY <1>1, <1>3, <1>5 DEF R!Elapse, RateInv
<1>6. CASE watch.of # "nobody"
  <2>1. /\ watch' \in Watches /\ watch'.of = watch.of /\ watch'.elapsed = watch.elapsed + 1
        /\ watch'.spent = watch.spent /\ watch'.unnamed = watch.unnamed /\ watch'.logins = watch.logins
        /\ watch.elapsed \in Nat /\ watch.spent \in Nat /\ watch.unnamed \in Nat /\ watch.logins \in Nat
    <3>1. watch' = [watch EXCEPT !.elapsed = @ + 1]
          BY <1>6 DEF R!Elapse
    <3> QED BY <1>1, <3>1 DEF Watches
  <2>2. ASSUME NEW k, IsKey(k), NEW granted \in Nat, Budget(granted, k)
        PROVE  granted + R!Filled(buckets', k) <= Burst[R!Kind(k)] + watch'.elapsed * Rate[R!Kind(k)]
    <3> DEFINE r == Rate[R!Kind(k)]
               b == Burst[R!Kind(k)]
               e == watch.elapsed
               f == R!Filled(buckets, k)
               g == R!Filled(buckets', k)
    <3>1. /\ r \in Nat /\ b \in Nat /\ e \in Nat /\ f \in Nat /\ g \in Nat /\ g <= f + r
          /\ granted + f <= b + e * r /\ watch'.elapsed = e + 1
          BY <1>1, <1>3, <1>4, <2>1, <2>2, RatesFact, FilledFact DEF Budget
    <3> HIDE DEF r, b, e, f, g
    <3>2. e * r \in Nat /\ (e + 1) * r = e * r + r
          BY <3>1
    <3>3. granted + g <= b + (e + 1) * r
          BY <3>1, <3>2
    <3> QED BY <3>1, <3>3 DEF r, b, g
  <2>3. /\ Budget(watch.spent, <<"a", watch.of>>)' /\ Budget(watch.unnamed, <<"n", watch.of>>)'
        /\ Budget(watch.logins, <<"login">>)'
        BY <1>6, <2>1, <2>2, WatchKeys DEF RateInv, Budget
  <2> QED BY <1>3, <2>1, <2>3 DEF RateInv
<1> QED BY <1>5, <1>6

LEMMA WatchKeepsRateInv == ASSUME RateInv, NEW req \in Requests, R!Watch(req.origin) PROVE RateInv'
<1>1. /\ UNCHANGED buckets /\ Buckets(buckets)
      /\ watch' = [of |-> req.origin, elapsed |-> 0, spent |-> 0, unnamed |-> 0, logins |-> 0]
      BY DEF R!Watch, R!NoWatch, RateInv
<1>2. watch' \in Watches /\ watch'.elapsed = 0 /\ watch'.spent = 0 /\ watch'.unnamed = 0 /\ watch'.logins = 0
      BY <1>1 DEF Watches
<1>3. ASSUME NEW k, IsKey(k) PROVE 0 + R!Filled(buckets', k) <= Burst[R!Kind(k)] + 0 * Rate[R!Kind(k)]
      BY <1>1, <1>3, FilledFact, RatesFact
<1>4. /\ Budget(watch.spent, <<"a", watch.of>>)' /\ Budget(watch.unnamed, <<"n", watch.of>>)'
      /\ Budget(watch.logins, <<"login">>)'
      BY <1>2, <1>3, WatchKeys DEF Budget
<1> QED BY <1>1, <1>2, <1>4 DEF RateInv

LEMMA RateInvInit == ASSUME R!Init PROVE RateInv
<1>1. DOMAIN buckets = {} /\ watch = [of |-> "nobody", elapsed |-> 0, spent |-> 0, unnamed |-> 0, logins |-> 0]
      BY DEF R!Init, R!NoWatch
<1>2. watch \in Watches /\ watch.of = "nobody"
      BY <1>1 DEF Watches
<1> QED BY <1>1, <1>2, FS_EmptySet DEF RateInv, Buckets

(* For any requests, rates and bursts, with a proxy or not: over any        *)
(* stretch of time nobody gets more through than a burst and the rate,      *)
(* whatever tables are swept and whatever headers are made up (Api::limit,  *)
(* Api::take, Api::client_of).                                              *)
THEOREM RatesAreHeld == FrontSpec => []RateIsHeld
<1> DEFINE I == part = "rates" => RateInv
<1>1. FrontInit => I
      BY RateInvInit DEF FrontInit
<1>2. I /\ [FrontNext]_allVars => I'
  <2> SUFFICES ASSUME I, [FrontNext]_allVars, part' = "rates" PROVE RateInv'
      OBVIOUS
  <2>1. part = "rates" /\ (R!Next \/ UNCHANGED <<buckets, watch>>)
        BY DEF FrontNext, allVars, rateVars
  <2>2. CASE R!Next
        BY <2>1, <2>2, HandleKeepsRateInv, ElapseKeepsRateInv, WatchKeepsRateInv DEF R!Next
  <2>3. CASE UNCHANGED <<buckets, watch>>
        BY <2>1, <2>3 DEF RateInv, Budget, R!Filled
  <2> QED BY <2>1, <2>2, <2>3
<1>3. I => RateIsHeld
  <2> SUFFICES ASSUME RateInv, watch.of # "nobody" PROVE R!RateIsHeld
      BY DEF RateIsHeld, R!RateIsHeld
  <2>1. ASSUME NEW k, IsKey(k), NEW granted \in Nat, Budget(granted, k)
        PROVE  granted <= Burst[R!Kind(k)] + watch.elapsed * Rate[R!Kind(k)]
    <3>1. R!Filled(buckets, k) \in Nat /\ watch.elapsed \in Nat /\ Rate[R!Kind(k)] \in Nat /\ Burst[R!Kind(k)] \in Nat
          BY <2>1, FilledFact, RatesFact DEF RateInv, Watches
    <3>2. Burst[R!Kind(k)] + watch.elapsed * Rate[R!Kind(k)] \in Nat
          BY <3>1
    <3> QED BY <2>1, <3>1, <3>2 DEF Budget
  <2>2. watch.spent \in Nat /\ watch.unnamed \in Nat /\ watch.logins \in Nat
        BY DEF RateInv, Watches
  <2> QED BY <2>1, <2>2, WatchKeys DEF RateInv, R!RateIsHeld
<1> QED BY <1>1, <1>2, <1>3, PTL DEF FrontSpec

-----------------------------------------------------------------------------
(* Signing in.  The failures a lock's entry does not count are as old as    *)
(* the lock holds: the entry was cleared by a lock that has since run out,  *)
(* or its failures were forgiven or forgotten, which takes longer.          *)

Entries == [failures : Nat, age : Nat, locked : Nat]

Paced(e, s, limit, hold) ==
    /\ e \in Entries /\ s \in Seq(Nat) /\ Len(s) <= limit
    /\ e.failures < limit /\ e.failures <= Len(s)
    /\ e.locked = 0 \/ e.locked + e.age <= hold
    /\ e.failures < Len(s) => s[e.failures + 1] + e.locked >= hold
    /\ s # <<>> => s[1] >= hold \/ s[1] >= e.age
    /\ \A i, j \in 1..Len(s) : i <= j => s[i] <= s[j]

GuessInv ==
    /\ watched \in S!Keys
    /\ Paced(S!Entry(throttle, watched), seen, Limit[S!Kind(watched)], LockFor[S!Kind(watched)])

LEMMA LocksFact ==
    /\ Forgive \in Nat /\ Forget \in Nat /\ Forgive <= Forget
    /\ \A k \in S!Keys : /\ Limit[S!Kind(k)] \in Nat \ {0}
                         /\ LockFor[S!Kind(k)] \in Nat /\ LockFor[S!Kind(k)] <= Forgive
<1>1. \A k \in S!Keys : S!Kind(k) \in {"ip", "u|ip", "u"}
      BY DEF S!Keys, S!KeysOf, S!Kind
<1> QED BY <1>1, FrontAssumption DEF FrontAssumption

LEMMA LesserFact ==
    ASSUME NEW a \in Int, NEW b \in Int
    PROVE  /\ S!Min({a, b}) = IF a <= b THEN a ELSE b
           /\ S!Max({a, b}) = IF a <= b THEN b ELSE a
<1> DEFINE m == IF a <= b THEN a ELSE b
           n == IF a <= b THEN b ELSE a
<1>1. /\ m \in {a, b} /\ \A y \in {a, b} : m <= y
      /\ n \in {a, b} /\ \A y \in {a, b} : n >= y
      OBVIOUS
<1>2. /\ \A x \in {a, b} : (\A y \in {a, b} : x <= y) => x = m
      /\ \A x \in {a, b} : (\A y \in {a, b} : x >= y) => x = n
      OBVIOUS
<1> HIDE DEF m, n
<1>3. S!Min({a, b}) = m
      BY <1>1, <1>2 DEF S!Min
<1>4. S!Max({a, b}) = n
      BY <1>1, <1>2 DEF S!Max
<1> QED BY <1>3, <1>4 DEF m, n

(* A function on 1..n is a sequence. *)
LEMMA FunctionIsSeq ==
    ASSUME NEW Some, NEW n \in Nat, NEW f \in [1..n -> Some]
    PROVE  f \in Seq(Some) /\ Len(f) = n
<1>1. f \in Seq(Some)
      BY SeqDef
<1>2. DOMAIN f = 1..n /\ DOMAIN f = 1..Len(f) /\ Len(f) \in Nat
      BY <1>1, LenProperties
<1> DEFINE m == Len(f)
<1>3. m \in Nat /\ \A i \in Nat : i \in 1..m <=> i \in 1..n
      BY <1>2
<1> HIDE DEF m
<1>4. (m >= 1 => m <= n) /\ (n >= 1 => n <= m)
      BY <1>3
<1>5. m = n
      BY <1>3, <1>4
<1> QED BY <1>1, <1>5 DEF m

(* One more failure before the newest of them. *)
Before(s, n) == <<0>> \o SubSeq(s, 1, n)

LEMMA BeforeFact ==
    ASSUME NEW s \in Seq(Nat), NEW n \in 0..Len(s)
    PROVE  /\ Before(s, n) \in Seq(Nat) /\ Len(Before(s, n)) = n + 1 /\ Before(s, n)[1] = 0
           /\ \A i \in 2..n + 1 : Before(s, n)[i] = s[i - 1]
<1> DEFINE r == SubSeq(s, 1, n)
<1>1. r \in Seq(Nat) /\ Len(r) = n /\ \A i \in 1..n : r[i] = s[i]
  <2>1. n \in Nat /\ 1 \in Int /\ \A i \in 1..n : s[i] \in Nat
    <3>1. Len(s) \in Nat /\ \A i \in 1..Len(s) : s[i] \in Nat
          OBVIOUS
    <3> QED BY <3>1
  <2>2. /\ r \in Seq(Nat) /\ Len(r) = IF 1 <= n THEN n - 1 + 1 ELSE 0
        /\ \A i \in 1..(n - 1 + 1) : r[i] = s[1 + i - 1]
        BY <2>1, SubSeqProperties
  <2> HIDE DEF r
  <2>3. n - 1 + 1 = n /\ Len(r) = n
        BY <2>1, <2>2
  <2>4. \A i \in 1..n : 1 + i - 1 = i
        BY <2>1
  <2> QED BY <2>2, <2>3, <2>4
<1>2. <<0>> \in Seq(Nat) /\ Len(<<0>>) = 1 /\ <<0>>[1] = 0
      OBVIOUS
<1> HIDE DEF r
<1>3. /\ <<0>> \o r \in Seq(Nat) /\ Len(<<0>> \o r) = 1 + n
      /\ \A i \in 1..1 + n : (<<0>> \o r)[i] = IF i <= 1 THEN <<0>>[i] ELSE r[i - 1]
      BY <1>1, <1>2, ConcatProperties
<1>4. Before(s, n) = <<0>> \o r
      BY DEF Before, r
<1> DEFINE b == <<0>> \o r
<1> HIDE DEF b
<1>5. b \in Seq(Nat) /\ Len(b) = 1 + n /\ \A i \in 1..1 + n : b[i] = IF i <= 1 THEN <<0>>[i] ELSE r[i - 1]
      BY <1>3 DEF b
<1>6. n \in Nat
      OBVIOUS
<1>7. Len(b) = n + 1 /\ b[1] = 0
      BY <1>2, <1>5, <1>6
<1>8. ASSUME NEW i \in 2..n + 1 PROVE b[i] = s[i - 1]
  <2>1. i \in 1..1 + n /\ ~(i <= 1) /\ i - 1 \in 1..n
        BY <1>6
  <2> QED BY <1>1, <1>5, <2>1
<1> QED BY <1>4, <1>5, <1>7, <1>8 DEF b

LEMMA FailureKeepsPace ==
    ASSUME NEW limit \in Nat \ {0}, NEW hold \in Nat, hold <= Forgive, Forgive \in Nat,
           NEW e, NEW s, Paced(e, s, limit, hold), e.locked = 0,
           NEW kind, limit = Limit[kind], hold = LockFor[kind]
    PROVE  Paced(S!Failed(e, kind), Before(s, S!Min({Len(s), limit - 1})), limit, hold)
<1> DEFINE n == IF Len(s) <= limit - 1 THEN Len(s) ELSE limit - 1
           t == Before(s, n)
           counted == (IF e.age > Forgive THEN 0 ELSE e.failures) + 1
           f == S!Failed(e, kind)
<1>1. e.failures \in Nat /\ e.age \in Nat /\ s \in Seq(Nat) /\ Len(s) \in Nat
      BY DEF Paced, Entries
<1>2. S!Min({Len(s), limit - 1}) = n /\ n \in 0..Len(s)
  <2> DEFINE m == Len(s)
             k == limit - 1
  <2>1. m \in Nat /\ k \in Nat /\ n = IF m <= k THEN m ELSE k
        BY <1>1
  <2> HIDE DEF m, k, n
  <2>2. n \in 0..m
        BY <2>1
  <2>3. m \in Int /\ k \in Int
        BY <2>1
  <2>4. S!Min({m, k}) = n
        BY <2>1, <2>3, LesserFact
  <2> QED BY <2>2, <2>4 DEF m, k
<1>3. /\ t \in Seq(Nat) /\ Len(t) = n + 1 /\ t[1] = 0 /\ \A i \in 2..n + 1 : t[i] = s[i - 1]
      BY <1>1, <1>2, BeforeFact
<1>4. /\ e.failures < limit /\ e.failures <= Len(s)
      /\ e.failures < Len(s) => s[e.failures + 1] >= hold
      /\ s # <<>> => s[1] >= hold \/ s[1] >= e.age
      /\ \A i, j \in 1..Len(s) : i <= j => s[i] <= s[j]
      /\ \A i \in 1..Len(s) : s[i] \in Nat
      BY <1>1 DEF Paced
<1>5. f = IF counted >= limit
          THEN [failures |-> 0, age |-> 0, locked |-> hold]
          ELSE [failures |-> counted, age |-> 0, locked |-> 0]
      BY DEF S!Failed
<1> HIDE DEF f, t
<1>6. t # <<>> /\ t[1] >= 0
      BY <1>3
<1>7. \A i, j \in 1..Len(t) : i <= j => t[i] <= t[j]
  <2> SUFFICES ASSUME NEW i \in 1..n + 1, NEW j \in 1..n + 1, i <= j PROVE t[i] <= t[j]
      BY <1>3
  <2>1. CASE i = 1
    <3>1. j \in 1..Len(t)
          BY <1>3
    <3>2. t[j] \in Nat
          BY <1>3, <3>1, ElementOfSeq
    <3> QED BY <1>3, <2>1, <3>2
  <2>2. CASE i # 1
    <3>1. i - 1 \in 1..Len(s) /\ j - 1 \in 1..Len(s) /\ i - 1 <= j - 1
          BY <1>1, <1>2, <2>2
    <3>2. t[i] = s[i - 1] /\ t[j] = s[j - 1]
          BY <1>2, <1>3, <2>2
    <3> QED BY <1>4, <3>1, <3>2
  <2> QED BY <2>1, <2>2
<1>8. CASE counted >= limit
  <2> SUFFICES Paced(f, t, limit, hold)
      BY <1>2 DEF f, t
  <2>1. f \in Entries /\ f.failures = 0 /\ f.age = 0 /\ f.locked = hold
        BY <1>5, <1>8 DEF Entries
  <2>2. Len(t) <= limit /\ f.failures < limit /\ f.failures <= Len(t)
        BY <1>1, <1>2, <1>3, <2>1
  <2>3. t[f.failures + 1] + f.locked >= hold
        BY <1>3, <2>1
  <2> QED BY <1>3, <1>6, <1>7, <2>1, <2>2, <2>3 DEF Paced
<1>9. CASE counted < limit
  <2> SUFFICES Paced(f, t, limit, hold)
      BY <1>2 DEF f, t
  <2>1. f = [failures |-> counted, age |-> 0, locked |-> 0] /\ counted \in Nat
        BY <1>1, <1>5, <1>9
  <2>2. f \in Entries /\ f.failures = counted /\ f.age = 0 /\ f.locked = 0
        BY <2>1 DEF Entries
  <2>3. counted <= n + 1
    <3> DEFINE m == Len(s)
    <3>1. m \in Nat /\ n = IF m <= limit - 1 THEN m ELSE limit - 1
          BY <1>1
    <3>2. counted = 1 \/ counted = e.failures + 1
          OBVIOUS
    <3>3. e.failures < limit /\ e.failures <= m
          BY <1>4
    <3> HIDE DEF m, n, counted
    <3> QED BY <1>1, <3>1, <3>2, <3>3
  <2>4. ASSUME counted < n + 1 PROVE t[counted + 1] >= hold
    <3>1. t[counted + 1] = s[counted] /\ counted \in 1..Len(s)
      <4>1. counted \in 1..n
        <5>1. counted \in Nat /\ counted >= 1
              BY <1>1
        <5> HIDE DEF counted
        <5> QED BY <1>1, <1>2, <2>4, <5>1
      <4> HIDE DEF counted
      <4>2. counted + 1 \in 2..n + 1 /\ (counted + 1) - 1 = counted
            BY <1>2, <4>1
      <4>3. t[counted + 1] = s[(counted + 1) - 1]
            BY <1>3, <4>2
      <4> QED BY <1>1, <1>2, <4>1, <4>2, <4>3
    <3>2. CASE e.age > Forgive
      <4>1. counted = 1 /\ s # <<>>
            BY <1>1, <3>1, <3>2
      <4>2. s[1] \in Nat /\ (s[1] >= hold \/ s[1] >= e.age)
            BY <1>4, <3>1, <4>1
      <4> HIDE DEF counted
      <4> QED BY <1>1, <3>1, <3>2, <4>1, <4>2
    <3>3. CASE ~(e.age > Forgive)
      <4>1. counted = e.failures + 1
            BY <3>3
      <4> HIDE DEF counted
      <4>2. e.failures < Len(s)
            BY <1>1, <3>1, <4>1
      <4> QED BY <1>4, <3>1, <4>1, <4>2
    <3> QED BY <3>2, <3>3
  <2>5. Len(t) <= limit
        BY <1>1, <1>2, <1>3
  <2> HIDE DEF counted
  <2>6. f.locked + 0 = 0 /\ (f.failures < Len(t) => t[f.failures + 1] + f.locked >= hold)
    <3>1. ASSUME counted < Len(t) PROVE t[counted + 1] \in Nat /\ t[counted + 1] >= hold
      <4>1. t[counted + 1] >= hold
            BY <1>3, <2>4, <3>1
      <4>2. counted + 1 \in 1..Len(t)
            BY <1>3, <2>1, <3>1
      <4>3. t[counted + 1] \in Nat
            BY <1>3, <4>2, ElementOfSeq
      <4> QED BY <4>1, <4>3
    <3>2. \A x \in Nat : x >= hold => x + 0 >= hold
          OBVIOUS
    <3> QED BY <2>2, <3>1, <3>2
  <2> QED BY <1>2, <1>3, <1>6, <1>7, <1>9, <2>2, <2>3, <2>5, <2>6 DEF Paced
<1> QED BY <1>1, <1>8, <1>9

LEMMA ElapseKeepsPace ==
    ASSUME NEW limit \in Nat \ {0}, NEW hold \in Nat, NEW e, NEW s, Paced(e, s, limit, hold),
           NEW f \in Entries, f.failures = e.failures, f.age <= e.age + 1,
           f.locked = IF e.locked = 0 THEN 0 ELSE e.locked - 1
    PROVE  Paced(f, [i \in DOMAIN s |-> S!Older(s[i], hold)], limit, hold)
<1> DEFINE t == [i \in DOMAIN s |-> S!Older(s[i], hold)]
<1>1. e.failures \in Nat /\ e.age \in Nat /\ e.locked \in Nat /\ s \in Seq(Nat) /\ Len(s) \in Nat
      BY DEF Paced, Entries
<1>2. /\ e.failures < limit /\ e.failures <= Len(s) /\ Len(s) <= limit
      /\ e.locked = 0 \/ e.locked + e.age <= hold
      /\ e.failures < Len(s) => s[e.failures + 1] + e.locked >= hold
      /\ s # <<>> => s[1] >= hold \/ s[1] >= e.age
      /\ \A i, j \in 1..Len(s) : i <= j => s[i] <= s[j]
      BY DEF Paced
<1>3. \A i \in 1..Len(s) : s[i] \in Nat
      BY <1>1
<1>4. \A x \in Nat : S!Older(x, hold) = IF x + 1 <= hold THEN x + 1 ELSE hold
      BY LesserFact DEF S!Older
<1>5. \A i \in 1..Len(s) : t[i] = IF s[i] + 1 <= hold THEN s[i] + 1 ELSE hold
      BY <1>1, <1>3, <1>4
<1>6. DOMAIN t = 1..Len(s) /\ \A i \in 1..Len(s) : t[i] \in Nat
  <2>1. DOMAIN t = 1..Len(s)
        BY <1>1
  <2>2. \A i \in 1..Len(s) : s[i] + 1 \in Nat
        BY <1>3
  <2> HIDE DEF t
  <2> QED BY <1>5, <2>1, <2>2
<1>7. t = [i \in 1..Len(s) |-> t[i]]
      BY <1>1
<1> HIDE DEF t
<1>8. t \in Seq(Nat) /\ Len(t) = Len(s)
  <2> DEFINE m == Len(s)
  <2>1. m \in Nat /\ t \in [1..m -> Nat]
        BY <1>1, <1>6, <1>7
  <2> HIDE DEF m
  <2> QED BY <2>1, FunctionIsSeq DEF m
<1>9. \A i, j \in 1..Len(t) : i <= j => t[i] <= t[j]
  <2> SUFFICES ASSUME NEW i \in 1..Len(s), NEW j \in 1..Len(s), i <= j PROVE t[i] <= t[j]
      BY <1>8
  <2>1. PICK a, b : a = s[i] /\ b = s[j]
        OBVIOUS
  <2>2. a \in Nat /\ b \in Nat /\ a <= b
        BY <1>2, <1>3, <2>1
  <2>3. /\ t[i] = IF a + 1 <= hold THEN a + 1 ELSE hold
        /\ t[j] = IF b + 1 <= hold THEN b + 1 ELSE hold
        BY <1>5, <2>1
  <2> QED BY <2>2, <2>3
<1>10. f.age \in Nat /\ (f.locked = 0 \/ f.locked + f.age <= hold)
  <2>1. PICK a, l, b : a = e.age /\ l = e.locked /\ b = f.age
        OBVIOUS
  <2>2. a \in Nat /\ l \in Nat /\ b \in Nat /\ b <= a + 1 /\ (l = 0 \/ l + a <= hold)
    <3>1. a \in Nat /\ l \in Nat /\ (l = 0 \/ l + a <= hold)
          BY <1>1, <1>2, <2>1
    <3>2. b \in Nat
          BY <2>1 DEF Entries
    <3>3. b <= a + 1
          BY <2>1
    <3> QED BY <3>1, <3>2, <3>3
  <2>3. PICK m : m = f.locked
        OBVIOUS
  <2>4. m = IF l = 0 THEN 0 ELSE l - 1
        BY <2>1, <2>3
  <2>5. l # 0 => m + b <= hold
    <3> SUFFICES ASSUME l # 0 PROVE m + b <= hold
        OBVIOUS
    <3>1. m = l - 1 /\ l + a <= hold
          BY <2>2, <2>4
    <3>2. m + b <= (l - 1) + (a + 1)
          BY <2>2, <3>1
    <3> QED BY <2>2, <3>1, <3>2
  <2>6. b \in Nat /\ (m = 0 \/ m + b <= hold)
        BY <2>2, <2>4, <2>5
  <2> QED BY <2>1, <2>3, <2>6
<1>11. f.failures < Len(t) => t[f.failures + 1] + f.locked >= hold
  <2> DEFINE k == e.failures + 1
  <2>0. f.failures = e.failures /\ Len(t) = Len(s)
        BY <1>1, <1>8
  <2> SUFFICES ASSUME e.failures < Len(s) PROVE t[k] + f.locked >= hold
      BY <2>0
  <2>1. k \in 1..Len(s) /\ s[k] + e.locked >= hold
    <3> DEFINE m == Len(s)
    <3>1. e.failures \in Nat /\ m \in Nat /\ e.failures < m
          BY <1>1
    <3> HIDE DEF m
    <3>2. k \in 1..m
          BY <3>1
    <3> QED BY <1>2, <3>2 DEF m
  <2> HIDE DEF k
  <2>2. PICK x, l : x = s[k] /\ l = e.locked
        OBVIOUS
  <2>3. x \in Nat /\ l \in Nat /\ x + l >= hold
        BY <1>1, <1>3, <2>1, <2>2
  <2>4. /\ t[k] = IF x + 1 <= hold THEN x + 1 ELSE hold
        /\ f.locked = IF l = 0 THEN 0 ELSE l - 1
        BY <1>5, <2>1, <2>2
  <2> QED BY <2>3, <2>4
<1>12. t # <<>> => t[1] >= hold \/ t[1] >= f.age
  <2> SUFFICES ASSUME t # <<>> PROVE t[1] >= hold \/ t[1] >= f.age
      OBVIOUS
  <2>1. 1 \in 1..Len(s) /\ s # <<>>
        BY <1>1, <1>8
  <2>2. s[1] \in Nat /\ t[1] = IF s[1] + 1 <= hold THEN s[1] + 1 ELSE hold
        BY <1>3, <1>5, <2>1
  <2> QED BY <1>1, <1>2, <1>10, <2>1, <2>2
<1>13. Paced(f, t, limit, hold)
      BY <1>2, <1>8, <1>9, <1>10, <1>11, <1>12 DEF Paced
<1> QED BY <1>13 DEF t

Absent == [failures |-> 0, age |-> Forget + 1, locked |-> 0]

(* What was idle long enough to be forgotten holds no lock, and its         *)
(* failures are long past.                                                  *)
LEMMA ForgettingKeepsPace ==
    ASSUME NEW limit \in Nat \ {0}, NEW hold \in Nat, Forget \in Nat, hold <= Forget,
           NEW e, NEW s, Paced(e, s, limit, hold), e.age > Forget
    PROVE  Paced(Absent, s, limit, hold)
<1>1. s \in Seq(Nat) /\ Len(s) \in Nat /\ Len(s) <= limit /\ e.age \in Nat
      BY DEF Paced, Entries
<1>2. s # <<>> => s[1] >= hold \/ s[1] >= e.age
      BY DEF Paced
<1>3. Absent \in Entries /\ Absent.failures = 0 /\ Absent.locked = 0
      BY DEF Absent, Entries
<1>4. s # <<>> => s[1] \in Nat
      BY <1>1
<1>5. s # <<>> => s[1] >= hold
      BY <1>1, <1>2, <1>4
<1>6. 0 < Len(s) => s # <<>>
      BY <1>1
<1>7. Absent.failures < Len(s) => s[Absent.failures + 1] + Absent.locked >= hold
      BY <1>3, <1>4, <1>5, <1>6
<1>8. \A i, j \in 1..Len(s) : i <= j => s[i] <= s[j]
      BY DEF Paced
<1> QED BY <1>1, <1>3, <1>5, <1>7, <1>8 DEF Paced

LEMMA ClearedHasPace ==
    ASSUME NEW limit \in Nat \ {0}, NEW hold \in Nat, Forget \in Nat
    PROVE  Paced(Absent, <<>>, limit, hold)
<1>1. Absent \in Entries /\ Absent.failures = 0 /\ Absent.locked = 0
      BY DEF Absent, Entries
<1>2. <<>> \in Seq(Nat) /\ Len(<<>>) = 0
      OBVIOUS
<1> QED BY <1>1, <1>2 DEF Paced

-----------------------------------------------------------------------------
WatchedEntry(t) == S!Entry(t, watched)

LEMMA WatchedFact ==
    ASSUME GuessInv
    PROVE  LET kind == S!Kind(watched) IN
           /\ Limit[kind] \in Nat \ {0} /\ LockFor[kind] \in Nat
           /\ LockFor[kind] <= Forgive /\ LockFor[kind] <= Forget
           /\ Forgive \in Nat /\ Forget \in Nat
           /\ Paced(WatchedEntry(throttle), seen, Limit[kind], LockFor[kind])
           /\ WatchedEntry(throttle) \in Entries /\ seen \in Seq(Nat)
BY LocksFact DEF GuessInv, WatchedEntry, Paced

LEMMA AbsentFact == \A t : watched \notin DOMAIN t => WatchedEntry(t) = Absent
BY DEF WatchedEntry, S!Entry, Absent

LEMMA SweptFact ==
    ASSUME GuessInv
    PROVE  LET e == WatchedEntry(S!Swept(throttle)) IN
           /\ Paced(e, seen, Limit[S!Kind(watched)], LockFor[S!Kind(watched)])
           /\ WatchedEntry(throttle).locked = 0 => e.locked = 0
<1> DEFINE t == S!Swept(throttle)
           e == WatchedEntry(throttle)
<1>1. \/ WatchedEntry(t) = e
      \/ WatchedEntry(t) = Absent /\ watched \in DOMAIN throttle /\ ~(throttle[watched].age <= Forget)
  <2>1. CASE t = throttle
        BY <2>1
  <2>2. CASE t # throttle
    <3>1. t = [k \in {k \in DOMAIN throttle : throttle[k].age <= Forget} |-> throttle[k]]
          BY <2>2 DEF S!Swept, S!Restrict
    <3> HIDE DEF t
    <3>2. CASE watched \in DOMAIN t
          BY <3>1, <3>2 DEF WatchedEntry, S!Entry
    <3>3. CASE watched \notin DOMAIN t
          BY <3>1, <3>3, AbsentFact DEF WatchedEntry, S!Entry
    <3> QED BY <3>2, <3>3
  <2> QED BY <2>1, <2>2
<1>2. CASE WatchedEntry(t) = e
      BY <1>2, WatchedFact
<1>3. CASE WatchedEntry(t) = Absent /\ watched \in DOMAIN throttle /\ ~(throttle[watched].age <= Forget)
  <2>1. e = throttle[watched]
        BY <1>3 DEF WatchedEntry, S!Entry
  <2>2. e.age \in Nat /\ e.age > Forget
        BY <1>3, <2>1, WatchedFact DEF Entries
  <2>3. Absent.locked = 0
        BY DEF Absent
  <2> QED BY <1>3, <2>2, <2>3, WatchedFact, ForgettingKeepsPace
<1> QED BY <1>1, <1>2, <1>3

LEMMA WrongPasswordKeepsPace ==
    ASSUME GuessInv, NEW u \in Users, NEW a \in Addresses, S!WrongPassword(u, a)
    PROVE  GuessInv'
<1> DEFINE kind == S!Kind(watched)
           t == S!Swept(throttle)
<1>1. watched' = watched /\ watched \in S!Keys /\ throttle' = S!Failure(t, u, a)
      BY DEF S!WrongPassword, GuessInv
<1>2. /\ Paced(WatchedEntry(t), seen, Limit[kind], LockFor[kind])
      /\ WatchedEntry(throttle).locked = 0 => WatchedEntry(t).locked = 0
      BY SweptFact
<1>3. GuessInv' <=> Paced(WatchedEntry(throttle'), seen', Limit[kind], LockFor[kind])
      BY <1>1 DEF GuessInv, WatchedEntry
<1>4. CASE watched \in S!KeysOf(u, a)
  <2>1. WatchedEntry(throttle') = S!Failed(WatchedEntry(t), kind)
    <3> HIDE DEF t
    <3> QED BY <1>1, <1>4 DEF WatchedEntry, S!Entry, S!Failure
  <2>2. WatchedEntry(throttle) \in Entries /\ ~(WatchedEntry(throttle).locked > 0)
        BY <1>4, WatchedFact DEF S!WrongPassword, S!Free, S!Locked, WatchedEntry
  <2>3. WatchedEntry(throttle).locked = 0
        BY <2>2 DEF Entries
  <2>4. seen' = Before(seen, S!Min({Len(seen), Limit[kind] - 1}))
        BY <1>4 DEF S!WrongPassword, Before
  <2>5. Limit[kind] \in Nat \ {0} /\ LockFor[kind] \in Nat /\ LockFor[kind] <= Forgive /\ Forgive \in Nat
        BY WatchedFact
  <2> HIDE DEF t, kind
  <2> QED BY <1>2, <1>3, <2>1, <2>3, <2>4, <2>5, FailureKeepsPace
<1>5. CASE watched \notin S!KeysOf(u, a)
  <2>1. WatchedEntry(throttle') = WatchedEntry(t)
    <3> HIDE DEF t
    <3> QED BY <1>1, <1>5 DEF WatchedEntry, S!Entry, S!Failure
  <2>2. seen' = seen
        BY <1>5 DEF S!WrongPassword
  <2> QED BY <1>2, <1>3, <2>1, <2>2
<1> QED BY <1>4, <1>5

LEMMA RightPasswordKeepsPace ==
    ASSUME GuessInv, NEW u \in Users, NEW a \in Addresses, S!RightPassword(u, a)
    PROVE  GuessInv'
<1> DEFINE kind == S!Kind(watched)
           cleared == {<<"u|ip", u, a>>, <<"u", u>>}
<1>1. /\ watched' = watched /\ watched \in S!Keys
      /\ throttle' = [k \in DOMAIN throttle \ cleared |-> throttle[k]]
      /\ seen' = IF watched \in cleared THEN <<>> ELSE seen
      BY DEF S!RightPassword, S!Success, S!Restrict, GuessInv
<1>2. GuessInv' <=> Paced(WatchedEntry(throttle'), seen', Limit[kind], LockFor[kind])
      BY <1>1 DEF GuessInv, WatchedEntry
<1>3. /\ Limit[kind] \in Nat \ {0} /\ LockFor[kind] \in Nat /\ Forget \in Nat
      /\ Paced(WatchedEntry(throttle), seen, Limit[kind], LockFor[kind])
      BY WatchedFact
<1> HIDE DEF kind, cleared
<1>4. CASE watched \in cleared
  <2>1. watched \notin DOMAIN throttle'
        BY <1>1, <1>4
  <2> QED BY <1>1, <1>2, <1>3, <1>4, <2>1, AbsentFact, ClearedHasPace
<1>5. CASE watched \notin cleared
  <2>1. WatchedEntry(throttle') = WatchedEntry(throttle)
        BY <1>1, <1>5 DEF WatchedEntry, S!Entry
  <2> QED BY <1>1, <1>2, <1>3, <1>5, <2>1
<1> QED BY <1>4, <1>5

LEMMA ElapseKeepsGuesses == ASSUME GuessInv, S!Elapse PROVE GuessInv'
<1> DEFINE kind == S!Kind(watched)
           e == WatchedEntry(throttle)
           f == WatchedEntry(throttle')
<1>1. /\ watched' = watched /\ watched \in S!Keys
      /\ throttle' = [k \in DOMAIN throttle |->
            [throttle[k] EXCEPT !.age = S!Older(@, Forget + 1), !.locked = S!Max({0, @ - 1})]]
      /\ seen' = [i \in DOMAIN seen |-> S!Older(seen[i], LockFor[kind])]
      BY DEF S!Elapse, GuessInv
<1>2. GuessInv' <=> Paced(f, seen', Limit[kind], LockFor[kind])
      BY <1>1 DEF GuessInv, WatchedEntry
<1>3. /\ Limit[kind] \in Nat \ {0} /\ LockFor[kind] \in Nat /\ Forget \in Nat
      /\ Paced(e, seen, Limit[kind], LockFor[kind]) /\ e \in Entries
      BY WatchedFact
<1>4. /\ f \in Entries /\ f.failures = e.failures /\ f.age <= e.age + 1
      /\ f.locked = IF e.locked = 0 THEN 0 ELSE e.locked - 1
  <2>1. CASE watched \notin DOMAIN throttle
    <3>1. e = Absent /\ f = Absent
          BY <1>1, <2>1, AbsentFact
    <3>2. Absent.locked = 0
          BY DEF Absent
    <3>3. e.age \in Nat
          BY <1>3 DEF Entries
    <3> HIDE DEF e, f
    <3> QED BY <1>3, <3>1, <3>2, <3>3
  <2>2. CASE watched \in DOMAIN throttle
    <3> DEFINE older == S!Older(e.age, Forget + 1)
               left == S!Max({0, e.locked - 1})
    <3>1. f = [e EXCEPT !.age = older, !.locked = left]
          BY <1>1, <2>2 DEF WatchedEntry, S!Entry
    <3>2. e.age \in Nat /\ e.locked \in Nat
          BY <1>3 DEF Entries
    <3>3. older = IF e.age + 1 <= Forget + 1 THEN e.age + 1 ELSE Forget + 1
          BY <1>3, <3>2, LesserFact DEF S!Older
    <3>4. left = IF e.locked = 0 THEN 0 ELSE e.locked - 1
      <4> DEFINE x == e.locked - 1
      <4>1. x \in Int /\ (e.locked = 0 => ~(0 <= x)) /\ (e.locked # 0 => 0 <= x)
            BY <3>2
      <4>2. left = S!Max({0, x}) /\ 0 \in Int
            OBVIOUS
      <4>3. left = IF e.locked = 0 THEN 0 ELSE x
        <5> HIDE DEF x, left
        <5> QED BY <4>1, <4>2, LesserFact
      <4> QED BY <4>3
    <3>5. older <= e.age + 1
          BY <1>3, <3>2, <3>3
    <3>6. older \in Nat /\ left \in Nat
          BY <1>3, <3>2, <3>3, <3>4
    <3> HIDE DEF older, left, e, f
    <3> QED BY <1>3, <3>1, <3>4, <3>5, <3>6 DEF Entries
  <2> QED BY <2>1, <2>2
<1> HIDE DEF kind, e, f
<1> QED BY <1>1, <1>2, <1>3, <1>4, ElapseKeepsPace

LEMMA GuessInvInit == ASSUME S!Init PROVE GuessInv
<1>1. seen = <<>> /\ watched \in S!Keys /\ DOMAIN throttle = {}
      BY DEF S!Init
<1>2. Limit[S!Kind(watched)] \in Nat \ {0} /\ LockFor[S!Kind(watched)] \in Nat /\ Forget \in Nat
      BY <1>1, LocksFact
<1>3. S!Entry(throttle, watched) = Absent
      BY <1>1, AbsentFact DEF WatchedEntry
<1> QED BY <1>1, <1>2, <1>3, ClearedHasPace DEF GuessInv

LEMMA GuessInvNext == ASSUME GuessInv, S!Next PROVE GuessInv'
BY WrongPasswordKeepsPace, RightPasswordKeepsPace, ElapseKeepsGuesses DEF S!Next

(* The oldest of as many failures as are allowed is one the entry does not  *)
(* count, if no lock holds: they have not locked it again.                  *)
LEMMA OldestIsOld ==
    ASSUME GuessInv, NEW u \in Users, NEW a \in Addresses, S!WrongPassword(u, a),
           watched \in S!KeysOf(u, a), Len(seen) = Limit[S!Kind(watched)]
    PROVE  seen[Len(seen)] >= LockFor[S!Kind(watched)]
<1> DEFINE e == WatchedEntry(throttle)
           limit == Limit[S!Kind(watched)]
           hold == LockFor[S!Kind(watched)]
<1>1. Paced(e, seen, limit, hold) /\ e \in Entries /\ limit \in Nat \ {0} /\ hold \in Nat
      BY WatchedFact
<1>2. e.locked = 0
  <2>1. ~(e.locked > 0)
        BY DEF S!WrongPassword, S!Free, S!Locked, WatchedEntry
  <2> QED BY <1>1, <2>1 DEF Entries
<1> HIDE DEF e, hold
<1>3. /\ e.failures \in Nat /\ e.failures < Len(seen) /\ seen \in Seq(Nat) /\ Len(seen) \in Nat
      /\ seen[e.failures + 1] + e.locked >= hold
      /\ \A i, j \in 1..Len(seen) : i <= j => seen[i] <= seen[j]
      BY <1>1 DEF Paced, Entries
<1> DEFINE k == e.failures + 1
           n == Len(seen)
<1>4. k \in 1..n /\ n \in 1..n /\ k <= n
      BY <1>3
<1>5. seen[k] \in Nat /\ seen[n] \in Nat
      BY <1>3, <1>4, ElementOfSeq
<1>6. seen[k] >= hold
      BY <1>1, <1>2, <1>3, <1>5
<1> HIDE DEF k, n
<1>7. seen[k] <= seen[n]
      BY <1>3, <1>4 DEF n
<1>8. seen[n] >= hold
      BY <1>1, <1>5, <1>6, <1>7
<1> QED BY <1>8 DEF n, hold

(* For any accounts, addresses, limits and locks, as long as no lock holds  *)
(* longer than failures count: against an address, an account from one      *)
(* address, or an account from everywhere, a lock's worth of failures and   *)
(* one more take at least as long as the lock holds, whatever succeeds, is  *)
(* forgiven or is swept in between (Api::route's login, Api::throttle_).    *)
THEOREM GuessingIsBounded == FrontSpec => GuessesAreBounded
<1> DEFINE I == part = "locks" => GuessInv
           Late == (seen' # seen /\ seen' # <<>> /\ Head(seen') = 0 /\ Len(seen) = Limit[S!Kind(watched)]
                    /\ \E u \in Users, a \in Addresses : S!WrongPassword(u, a) /\ watched \in S!KeysOf(u, a))
                   => seen[Len(seen)] >= LockFor[S!Kind(watched)]
<1>1. FrontInit => I
      BY GuessInvInit DEF FrontInit
<1>2. I /\ [FrontNext]_allVars => I'
  <2> SUFFICES ASSUME I, [FrontNext]_allVars, part' = "locks" PROVE GuessInv'
      OBVIOUS
  <2>1. part = "locks" /\ (S!Next \/ UNCHANGED lockVars)
        BY DEF FrontNext, allVars
  <2>2. CASE S!Next
        BY <2>1, <2>2, GuessInvNext
  <2>3. CASE UNCHANGED lockVars
        BY <2>1, <2>3 DEF lockVars, GuessInv, S!Entry
  <2> QED BY <2>1, <2>2, <2>3
<1>3. I /\ [FrontNext]_allVars => [Late]_S!vars
  <2> SUFFICES ASSUME I, [FrontNext]_allVars, ~UNCHANGED S!vars PROVE Late
      OBVIOUS
  <2>1. part = "locks"
        BY DEF FrontNext, allVars, lockVars, S!vars
  <2> QED BY <2>1, OldestIsOld
<1>4. FrontSpec => [][Late]_S!vars
      BY <1>1, <1>2, <1>3, PTL DEF FrontSpec
<1> QED BY <1>4 DEF GuessesAreBounded, S!GuessesAreBounded

-----------------------------------------------------------------------------
(* The scenario clock.  A script is in order, so the steps done are always  *)
(* the first ones of it, and those that are due.                            *)

(* Every set of natural numbers has a least element. *)
LEMMA LeastNatural ==
    ASSUME NEW T \in SUBSET Nat, T # {}
    PROVE  \E x \in T : \A y \in T : x <= y
<1> DEFINE R0 == {p \in Nat \X Nat : p[1] < p[2]}
<1>1. R0 = OpToRel(<, Nat)
      BY DEF OpToRel
<1>2. IsWellFoundedOn(R0, Nat)
      BY <1>1, NatLessThanWellFounded
<1> HIDE DEF R0
<1>3. PICK x \in T : \A y \in T : ~(<<y, x>> \in R0)
      BY <1>2, WFMin
<1>4. ASSUME NEW y \in T, y < x PROVE FALSE
  <2>1. <<y, x>> \in R0
        BY <1>4 DEF R0
  <2> QED BY <1>3, <2>1
<1> QED BY <1>4

LEMMA StoryFact ==
    ASSUME NEW story \in Told
    PROVE  LET d == Catalogue[story].duration
               acts == Catalogue[story].script
           IN  /\ d \in Nat /\ Len(acts) \in Nat /\ DOMAIN acts = 1..Len(acts)
               /\ \A i \in 1..Len(acts) : acts[i].at \in 0..d
               /\ \A i, j \in 1..Len(acts) : i <= j => acts[i].at <= acts[j].at
               /\ \A m \in 0..Len(acts) : C!Takes(C!After(C!FreshWorld, acts, 0, m))
BY StoryAssumption DEF StoryAssumption

(* What is due by a time is a prefix of the script. *)
LEMMA DueIsPrefix ==
    ASSUME NEW story \in Told, NEW t \in Nat
    PROVE  LET acts == Catalogue[story].script IN
           \E m \in 0..Len(acts) : \A i \in 1..Len(acts) : i <= m <=> acts[i].at <= t
<1> DEFINE acts == Catalogue[story].script
           n == Len(acts)
           late == {i \in 1..n : ~(acts[i].at <= t)}
<1>1. /\ n \in Nat /\ \A i \in 1..n : acts[i].at \in Nat
      /\ \A i, j \in 1..n : i <= j => acts[i].at <= acts[j].at
      BY StoryFact
<1> HIDE DEF acts, n
<1>2. CASE late = {}
  <2>1. n \in 0..n /\ \A i \in 1..n : i <= n <=> acts[i].at <= t
        BY <1>1, <1>2
  <2> QED BY <2>1 DEF acts, n
<1>3. CASE late # {}
  <2>1. late \in SUBSET Nat
        BY <1>1
  <2>2. PICK x \in late : \A y \in late : x <= y
        BY <1>3, <2>1, LeastNatural
  <2> DEFINE m == x - 1
  <2>3. x \in 1..n /\ ~(acts[x].at <= t) /\ m \in 0..n
        BY <1>1, <2>2
  <2>4. ASSUME NEW i \in 1..n PROVE i <= m <=> acts[i].at <= t
    <3>1. CASE i <= m
      <4>1. ~(x <= i)
            BY <1>1, <2>3, <3>1
      <4> QED BY <2>2, <3>1, <4>1
    <3>2. CASE ~(i <= m)
      <4>1. x <= i
            BY <1>1, <2>3, <3>2
      <4>2. acts[x].at <= acts[i].at /\ acts[x].at \in Nat /\ acts[i].at \in Nat
            BY <1>1, <2>3, <4>1
      <4> QED BY <2>3, <3>2, <4>2
    <3> QED BY <3>1, <3>2
  <2> QED BY <2>3, <2>4 DEF acts, n
<1> QED BY <1>2, <1>3

(* What a script makes of a world, step by step: a function defined on the  *)
(* first steps of it has one solution, which After reads at its end.        *)
Telling(w, acts, from, count, p) ==
    p = [k \in 0..count |-> IF k = 0 THEN w ELSE C!Perform(p[k - 1], acts[from + k])]

LEMMA TellingExists ==
    ASSUME NEW w, NEW acts, NEW from, NEW count \in Nat
    PROVE  \E p : Telling(w, acts, from, count, p)
<1> DEFINE T == {c \in Nat : ~\E p : Telling(w, acts, from, c, p)}
<1> SUFFICES ASSUME T # {} PROVE FALSE
    OBVIOUS
<1>1. PICK c \in T : \A y \in T : c <= y
  <2>1. T \in SUBSET Nat
        OBVIOUS
  <2> HIDE DEF T
  <2> QED BY <2>1, LeastNatural
<1>2. c \in Nat
      OBVIOUS
<1>3. CASE c = 0
  <2> DEFINE p == [k \in 0..0 |-> w]
  <2>1. p = [k \in 0..0 |-> IF k = 0 THEN w ELSE C!Perform(p[k - 1], acts[from + k])]
    <3>1. \A k \in 0..0 : k = 0
          OBVIOUS
    <3> QED BY <3>1
  <2>2. Telling(w, acts, from, c, p)
        BY <1>3, <2>1 DEF Telling
  <2> QED BY <2>2
<1>4. CASE c # 0
  <2>1. c - 1 \in Nat /\ ~(c <= c - 1)
        BY <1>2, <1>4
  <2>2. c - 1 \notin T
        BY <1>1, <2>1
  <2>3. PICK q : Telling(w, acts, from, c - 1, q)
        BY <2>1, <2>2
  <2> DEFINE p == [k \in 0..c |-> IF k = c THEN C!Perform(q[c - 1], acts[from + c]) ELSE q[k]]
  <2>4. ASSUME NEW k \in 0..c
        PROVE  p[k] = IF k = 0 THEN w ELSE C!Perform(p[k - 1], acts[from + k])
    <3>1. CASE k = c
      <4>1. p[k] = C!Perform(q[c - 1], acts[from + k])
            BY <3>1
      <4>2. k # 0 /\ k - 1 \in 0..c /\ k - 1 # c
            BY <1>2, <1>4, <3>1
      <4>3. p[k - 1] = q[k - 1]
            BY <4>2
      <4> HIDE DEF p
      <4> QED BY <3>1, <4>1, <4>2, <4>3
    <3>2. CASE k # c
      <4>1. k \in 0..(c - 1)
            BY <1>2, <3>2
      <4>2. p[k] = q[k]
            BY <3>2
      <4>3. q[k] = IF k = 0 THEN w ELSE C!Perform(q[k - 1], acts[from + k])
            BY <2>3, <4>1 DEF Telling
      <4>4. k # 0 => p[k - 1] = q[k - 1]
        <5>1. ASSUME k # 0 PROVE k - 1 \in 0..c /\ k - 1 # c
              BY <1>2, <4>1, <5>1
        <5> QED BY <5>1
      <4> HIDE DEF p
      <4> QED BY <4>2, <4>3, <4>4
    <3> QED BY <3>1, <3>2
  <2>5. p = [k \in 0..c |-> p[k]]
        OBVIOUS
  <2>6. Telling(w, acts, from, c, p)
    <3> HIDE DEF p
    <3> QED BY <2>4, <2>5 DEF Telling
  <2> QED BY <2>6
<1> QED BY <1>3, <1>4

LEMMA TellingIsOne ==
    ASSUME NEW w, NEW acts, NEW from, NEW c \in Nat, NEW d \in 0..c, NEW p, NEW q,
           Telling(w, acts, from, c, p), Telling(w, acts, from, d, q)
    PROVE  \A k \in 0..d : p[k] = q[k]
<1> DEFINE T == {k \in 0..d : p[k] # q[k]}
<1> SUFFICES ASSUME T # {} PROVE FALSE
    OBVIOUS
<1>1. PICK k \in T : \A y \in T : k <= y
  <2>1. T \in SUBSET Nat
        OBVIOUS
  <2> HIDE DEF T
  <2> QED BY <2>1, LeastNatural
<1>2. k \in 0..d /\ k \in 0..c /\ p[k] # q[k]
      OBVIOUS
<1>3. p[k] = IF k = 0 THEN w ELSE C!Perform(p[k - 1], acts[from + k])
      BY <1>2 DEF Telling
<1>4. q[k] = IF k = 0 THEN w ELSE C!Perform(q[k - 1], acts[from + k])
      BY <1>2 DEF Telling
<1>5. CASE k = 0
      BY <1>2, <1>3, <1>4, <1>5
<1>6. CASE k # 0
  <2>1. k - 1 \in 0..d /\ ~(k <= k - 1)
        BY <1>2, <1>6
  <2>2. k - 1 \notin T
        BY <1>1, <2>1
  <2>3. p[k - 1] = q[k - 1]
        BY <2>1, <2>2
  <2> HIDE DEF T
  <2> QED BY <1>2, <1>3, <1>4, <1>6, <2>3
<1> QED BY <1>5, <1>6

LEMMA AfterFact ==
    ASSUME NEW w, NEW acts, NEW from, NEW c \in Nat, NEW d \in 0..c, NEW p,
           Telling(w, acts, from, c, p)
    PROVE  C!After(w, acts, from, d) = p[d]
<1> DEFINE q == CHOOSE x : Telling(w, acts, from, d, x)
<1>1. d \in Nat /\ d \in 0..d
      OBVIOUS
<1>2. Telling(w, acts, from, d, q)
      BY <1>1, TellingExists
<1>3. C!After(w, acts, from, d) = q[d]
      BY DEF C!After, Telling
<1> HIDE DEF q
<1> QED BY <1>1, <1>2, <1>3, TellingIsOne

(* Nothing done is the world as it was; done in two pieces is done at once. *)
LEMMA NothingDone == ASSUME NEW w, NEW acts, NEW from PROVE C!After(w, acts, from, 0) = w
<1>1. PICK p : Telling(w, acts, from, 0, p)
      BY TellingExists
<1>2. C!After(w, acts, from, 0) = p[0]
      BY <1>1, AfterFact
<1> QED BY <1>1, <1>2 DEF Telling

LEMMA DoneInPieces ==
    ASSUME NEW w, NEW acts, NEW m \in Nat, NEW n \in Nat
    PROVE  C!After(C!After(w, acts, 0, m), acts, m, n) = C!After(w, acts, 0, m + n)
<1>1. PICK p : Telling(w, acts, 0, m + n, p)
      BY TellingExists
<1> DEFINE r == [k \in 0..n |-> p[m + k]]
           v == C!After(w, acts, 0, m)
<1>2. v = p[m] /\ C!After(w, acts, 0, m + n) = p[m + n]
      BY <1>1, AfterFact
<1> HIDE DEF v
<1>3. ASSUME NEW k \in 0..n
      PROVE  r[k] = IF k = 0 THEN v ELSE C!Perform(r[k - 1], acts[m + k])
  <2>1. m + k \in 0..(m + n) /\ r[k] = p[m + k]
        OBVIOUS
  <2>2. CASE k = 0
        BY <1>2, <2>2
  <2>3. CASE k # 0
    <3>1. k - 1 \in 0..n /\ m + k # 0 /\ (m + k) - 1 = m + (k - 1) /\ 0 + (m + k) = m + k
          BY <2>3
    <3>2. r[k - 1] = p[m + (k - 1)]
          BY <3>1
    <3>3. p[m + k] = IF m + k = 0 THEN w ELSE C!Perform(p[(m + k) - 1], acts[0 + (m + k)])
          BY <1>1, <2>1 DEF Telling
    <3> HIDE DEF r
    <3> QED BY <2>1, <2>3, <3>1, <3>2, <3>3
  <2> QED BY <2>2, <2>3
<1>4. r = [k \in 0..n |-> r[k]]
      OBVIOUS
<1>5. r[n] = p[m + n]
      OBVIOUS
<1> HIDE DEF r
<1>6. Telling(v, acts, m, n, r)
      BY <1>3, <1>4 DEF Telling
<1>7. C!After(v, acts, m, n) = r[n]
      BY <1>6, AfterFact
<1> QED BY <1>2, <1>5, <1>7 DEF v

LEMMA SameCount == \A X : C!Cardinality(X) = Cardinality(X)
BY DEF C!Cardinality, Cardinality

(* The steps done by a time, as a prefix. *)
Done(acts, m, t) == \A i \in 1..Len(acts) : i <= m <=> acts[i].at <= t

ClockInv ==
    /\ id \in Told /\ clock \in Nat /\ next \in 0..Len(C!Script)
    /\ IF clock = 0 THEN next = 0 ELSE Done(C!Script, next, clock)
    /\ state = "finished" => clock > 0 /\ clock >= C!Duration
    /\ accum \in Nat /\ speed \in Nat /\ credit \in Nat
    /\ accum <= credit /\ accum <= C!Backlog
    /\ played = C!After(C!FreshWorld, C!Script, 0, next)

LEMMA FewestFact ==
    ASSUME NEW a \in Int, NEW b \in Int
    PROVE  C!Fewest({a, b}) = IF a <= b THEN a ELSE b
<1> DEFINE m == IF a <= b THEN a ELSE b
<1>1. m \in {a, b} /\ \A y \in {a, b} : m <= y
      OBVIOUS
<1>2. \A x \in {a, b} : (\A y \in {a, b} : x <= y) => x = m
      OBVIOUS
<1> HIDE DEF m
<1>3. C!Fewest({a, b}) = m
      BY <1>1, <1>2 DEF C!Fewest
<1> QED BY <1>3 DEF m

LEMMA FewestOfThree ==
    ASSUME NEW a \in Int, NEW b \in Int, NEW c \in Int
    PROVE  LET x == C!Fewest({a, b, c}) IN x \in {a, b, c} /\ x <= a /\ x <= b /\ x <= c
<1> DEFINE m == IF a <= b /\ a <= c THEN a ELSE IF b <= c THEN b ELSE c
<1>1. m \in {a, b, c} /\ \A y \in {a, b, c} : m <= y
      OBVIOUS
<1>2. \E x \in {a, b, c} : \A y \in {a, b, c} : x <= y
  <2> HIDE DEF m
  <2> QED BY <1>1
<1> QED BY <1>2 DEF C!Fewest

(* n seconds play what is due by then and was not done, in one piece or     *)
(* many.                                                                    *)
LEMMA TicksKeepTime ==
    ASSUME ClockInv, NEW n \in Nat, C!Ticks(n)
    PROVE  /\ clock' = clock + n /\ next' \in 0..Len(C!Script)
           /\ IF clock' = 0 THEN next' = 0 ELSE Done(C!Script, next', clock')
           /\ played' = C!After(C!FreshWorld, C!Script, 0, next')
           /\ state' = "finished" => \/ clock' > 0 /\ clock' >= C!Duration
                                     \/ n = 0 /\ state = "finished"
<1> DEFINE acts == C!Script
           size == Len(acts)
           t == clock + n
<1>1. /\ id \in Told /\ clock \in Nat /\ next \in 0..size /\ t \in Nat /\ size \in Nat
      /\ DOMAIN acts = 1..size /\ C!Duration \in Nat /\ \A i \in 1..size : acts[i].at \in Nat
      BY StoryFact DEF ClockInv, C!Script, C!Duration
<1>2. clock' = t
      BY DEF C!Ticks
<1>3. state' = "finished" => \/ clock' > 0 /\ clock' >= C!Duration
                             \/ n = 0 /\ state = "finished"
  <2>1. state' = IF n > 0 /\ clock + n >= C!Duration THEN "finished" ELSE state
        BY DEF C!Ticks
  <2>2. CASE n > 0 /\ clock + n >= C!Duration
        BY <1>1, <1>2, <2>2
  <2>3. CASE ~(n > 0 /\ clock + n >= C!Duration) /\ n = 0
        BY <2>1, <2>3
  <2>4. CASE ~(n > 0 /\ clock + n >= C!Duration) /\ n # 0
        BY <1>1, <1>2, <2>1, <2>4 DEF ClockInv
  <2> QED BY <2>2, <2>3, <2>4
<1>6. ASSUME NEW k \in Nat, next' = next + k, played' = C!After(played, acts, next, k)
      PROVE  played' = C!After(C!FreshWorld, acts, 0, next')
  <2>1. played = C!After(C!FreshWorld, acts, 0, next) /\ next \in Nat
        BY <1>1 DEF ClockInv
  <2> HIDE DEF acts
  <2> QED BY <1>6, <2>1, DoneInPieces
<1>4. CASE n = 0
  <2>1. next' = next
        BY <1>1, <1>4 DEF C!Ticks
  <2>3. played' = C!After(C!FreshWorld, acts, 0, next')
    <3>1. next' = next + 0 /\ played' = C!After(played, acts, next, 0)
          BY <1>1, <1>4 DEF C!Ticks
    <3> HIDE DEF acts
    <3> QED BY <1>6, <3>1
  <2>2. clock' = clock
        BY <1>1, <1>2, <1>4
  <2> QED BY <1>1, <1>2, <1>3, <2>1, <2>2, <2>3 DEF ClockInv
<1>5. CASE n # 0
  <2>1. PICK m \in 0..size : Done(acts, m, t)
    <3>1. acts = Catalogue[id].script
          BY DEF C!Script
    <3> QED BY <1>1, <3>1, DueIsPrefix DEF Done
  <2>2. next <= m
    <3>1. CASE next = 0
          BY <3>1
    <3>2. CASE next # 0
      <4>1. clock # 0 /\ Done(acts, next, clock) /\ next \in 1..size
            BY <1>1, <3>2 DEF ClockInv
      <4>2. acts[next].at <= clock /\ acts[next].at \in Nat
            BY <1>1, <4>1 DEF Done
      <4>3. acts[next].at <= t
            BY <1>1, <4>2
      <4> QED BY <1>1, <2>1, <4>1, <4>3 DEF Done
    <3> QED BY <3>1, <3>2
  <2>3. {i \in DOMAIN acts : i > next /\ acts[i].at <= t} = next + 1..m
    <3> HIDE DEF acts, t, size
    <3>1. ASSUME NEW i PROVE i \in {k \in DOMAIN acts : k > next /\ acts[k].at <= t} <=> i \in next + 1..m
          BY <1>1, <2>1 DEF Done, size
    <3> QED BY <3>1
  <2>4. C!DueBy(t) = m - next
    <3>1. C!DueBy(t) = Cardinality(next + 1..m)
          BY <2>3, SameCount, Zenon DEF C!DueBy
    <3>2. next + 1 \in Int /\ m \in Int
          BY <1>1, <2>1
    <3> QED BY <1>1, <2>1, <2>2, <3>1, <3>2, FS_Interval
  <2>5. next' = m
    <3>1. next' = next + C!DueBy(t)
          BY <1>5 DEF C!Ticks
    <3> QED BY <1>1, <2>1, <2>4, <3>1
  <2>6. clock' # 0
        BY <1>1, <1>2, <1>5
  <2>7. played' = C!After(C!FreshWorld, acts, 0, next')
    <3>1. C!DueBy(t) \in Nat
          BY <1>1, <2>1, <2>2, <2>4
    <3>2. next' = next + C!DueBy(t) /\ played' = C!After(played, acts, next, C!DueBy(t))
          BY <1>5 DEF C!Ticks
    <3> HIDE DEF acts, t
    <3> QED BY <1>6, <3>1, <3>2
  <2> QED BY <1>2, <1>3, <2>1, <2>5, <2>6, <2>7
<1> QED BY <1>4, <1>5

LEMMA StepKeepsTime == ASSUME ClockInv, NEW n \in Nat, C!Step(n) PROVE ClockInv'
<1> DEFINE left == C!TicksToEnd
           k == C!Fewest({n, left})
<1>1. clock \in Nat /\ C!Duration \in Nat
      BY StoryFact DEF ClockInv, C!Duration
<1>2. left \in Nat \ {0}
      BY <1>1 DEF C!TicksToEnd
<1>3. k \in Nat
      BY <1>2, FewestFact
<1>4. C!Ticks(k) /\ UNCHANGED <<id, accum, speed, credit>> /\ state # "finished"
      BY DEF C!Step
<1>5. C!Script' = C!Script /\ C!Duration' = C!Duration /\ C!Backlog' = C!Backlog
      BY <1>4 DEF C!Script, C!Duration, C!Backlog
<1> HIDE DEF k
<1>6. /\ clock' = clock + k /\ next' \in 0..Len(C!Script)
      /\ IF clock' = 0 THEN next' = 0 ELSE Done(C!Script, next', clock')
      /\ played' = C!After(C!FreshWorld, C!Script, 0, next')
      /\ state' = "finished" => clock' > 0 /\ clock' >= C!Duration
      BY <1>3, <1>4, TicksKeepTime
<1>7. clock' \in Nat
      BY <1>1, <1>3, <1>6
<1> QED BY <1>4, <1>5, <1>6, <1>7 DEF ClockInv

LEMMA AdvanceKeepsTime ==
    ASSUME ClockInv, NEW seconds \in Elapsed, C!Advance(seconds)
    PROVE  ClockInv'
<1> DEFINE paid == seconds * speed
           owed == accum + paid
<1>1. /\ clock \in Nat /\ C!Duration \in Nat /\ speed \in Nat /\ accum \in Nat /\ credit \in Nat
      /\ accum <= credit /\ seconds \in Nat
      BY StoryFact, StoryAssumption DEF ClockInv, C!Duration, StoryAssumption
<1>2. paid \in Nat
      BY <1>1
<1>3. PICK ticks \in {C!Fewest({owed \div 4, C!TicksPerCall, C!TicksToEnd})} :
          /\ C!Ticks(ticks)
          /\ accum' = IF owed - 4 * ticks > C!Backlog THEN 0 ELSE owed - 4 * ticks
          /\ credit' = C!Fewest({credit + paid - 4 * ticks, C!Backlog + 4})
      BY DEF C!Advance
<1>4. UNCHANGED <<id, speed>> /\ state # "finished"
      BY DEF C!Advance
<1> HIDE DEF paid
<1>5. ticks \in Nat /\ 4 * ticks <= owed
  <2> DEFINE q == owed \div 4
             left == C!TicksToEnd
  <2>1. q \in Nat /\ 4 * q <= owed
        BY <1>1, <1>2
  <2>2. left \in Nat /\ C!TicksPerCall \in Nat
        BY <1>1 DEF C!TicksToEnd, C!TicksPerCall
  <2>3. ticks = C!Fewest({q, C!TicksPerCall, left})
        BY <1>3
  <2> HIDE DEF q, left, owed
  <2>4. ticks \in {q, C!TicksPerCall, left} /\ ticks <= q
    <3> DEFINE tpc == C!TicksPerCall
    <3>1. q \in Int /\ tpc \in Int /\ left \in Int
          BY <2>1, <2>2
    <3> HIDE DEF tpc
    <3>2. LET x == C!Fewest({q, tpc, left}) IN x \in {q, tpc, left} /\ x <= q
          BY <3>1, FewestOfThree
    <3> QED BY <2>3, <3>2 DEF tpc
  <2>5. owed \in Nat
        BY <1>1, <1>2 DEF owed
  <2> QED BY <2>1, <2>2, <2>4, <2>5
<1>6. accum' \in Nat /\ credit' \in Nat /\ accum' <= credit' /\ accum' <= C!Backlog
  <2> DEFINE rest == owed - 4 * ticks
             due == credit + paid - 4 * ticks
  <2>1. rest \in Nat /\ due \in Nat /\ rest <= due /\ C!Backlog = 20
        BY <1>1, <1>2, <1>5 DEF C!Backlog
  <2>2. accum' = IF rest > 20 THEN 0 ELSE rest
        BY <1>3, <2>1
  <2>3. credit' = C!Fewest({due, 24})
        BY <1>3, <2>1
  <2> HIDE DEF rest, due
  <2>4. credit' = IF due <= 24 THEN due ELSE 24
        BY <2>1, <2>3, FewestFact
  <2> QED BY <2>1, <2>2, <2>4
<1>7. C!Script' = C!Script /\ C!Duration' = C!Duration /\ C!Backlog' = C!Backlog
      BY <1>4 DEF C!Script, C!Duration, C!Backlog
<1>8. /\ clock' = clock + ticks /\ next' \in 0..Len(C!Script)
      /\ IF clock' = 0 THEN next' = 0 ELSE Done(C!Script, next', clock')
      /\ played' = C!After(C!FreshWorld, C!Script, 0, next')
      /\ state' = "finished" => clock' > 0 /\ clock' >= C!Duration
      BY <1>3, <1>4, <1>5, TicksKeepTime
<1>9. clock' \in Nat
      BY <1>1, <1>5, <1>8
<1>10. id' \in Told /\ speed' \in Nat
      BY <1>1, <1>4 DEF ClockInv
<1> QED BY <1>6, <1>7, <1>8, <1>9, <1>10 DEF ClockInv

LEMMA BeginKeepsTime ==
    ASSUME speed \in Nat, NEW story \in Told, C!Begin(story), UNCHANGED speed
    PROVE  ClockInv'
<1>1. /\ id' = story /\ state' = "paused" /\ accum' = 0 /\ next' = 0 /\ clock' = 0 /\ credit' = 0
      BY DEF C!Begin
<1>2. Len(C!Script)' \in Nat
      BY <1>1, StoryFact DEF C!Script
<1>3. played' = C!After(C!FreshWorld, C!Script', 0, next')
  <2>1. played' = C!FreshWorld
        BY DEF C!Begin
  <2> QED BY <1>1, <2>1, NothingDone
<1> QED BY <1>1, <1>2, <1>3 DEF ClockInv, C!Backlog, C!FreshWorld

LEMMA ButtonsKeepTime ==
    ASSUME ClockInv, C!Start \/ C!Pause \/ C!Resume
    PROVE  ClockInv'
<1>1. state' # "finished" /\ UNCHANGED <<id, accum, speed, next, clock, played, credit>>
      BY DEF C!Start, C!Pause, C!Resume
<1> QED BY <1>1 DEF ClockInv, C!Script, C!Duration, C!Backlog, Done

LEMMA SpeedKeepsTime == ASSUME ClockInv, NEW x \in Speeds, C!SetSpeed(x) PROVE ClockInv'
<1> DEFINE least == IF x < C!MinSpeed THEN C!MinSpeed ELSE x
<1>1. x \in Nat
      BY StoryAssumption DEF StoryAssumption
<1>2. least \in Nat /\ C!MaxSpeed \in Nat
      BY <1>1 DEF C!MinSpeed, C!MaxSpeed
<1>3. speed' = C!Fewest({C!MaxSpeed, least})
      BY DEF C!SetSpeed
<1> HIDE DEF least
<1>4. speed' \in Nat
      BY <1>2, <1>3, FewestFact
<1>5. UNCHANGED <<id, state, accum, next, clock, played, credit>>
      BY DEF C!SetSpeed
<1> QED BY <1>4, <1>5 DEF ClockInv, C!Script, C!Duration, C!Backlog, Done

LEMMA ClockInvNext == ASSUME ClockInv, C!Next PROVE ClockInv'
<1>1. ASSUME NEW s \in Told, C!Load(s) PROVE ClockInv'
      BY <1>1, BeginKeepsTime DEF C!Load, ClockInv
<1>2. CASE C!Reset
      BY <1>2, BeginKeepsTime DEF C!Reset, ClockInv
<1>3. CASE C!Start \/ C!Pause \/ C!Resume
      BY <1>3, ButtonsKeepTime
<1>4. ASSUME NEW x \in Speeds, C!SetSpeed(x) PROVE ClockInv'
      BY <1>4, SpeedKeepsTime
<1>5. ASSUME NEW n \in Steps, C!Step(n) PROVE ClockInv'
  <2>1. n \in Nat
        BY StoryAssumption DEF StoryAssumption
  <2> QED BY <1>5, <2>1, StepKeepsTime
<1>6. ASSUME NEW seconds \in Elapsed, C!Advance(seconds) PROVE ClockInv'
      BY <1>6, AdvanceKeepsTime
<1> QED BY <1>1, <1>2, <1>3, <1>4, <1>5, <1>6 DEF C!Next

LEMMA ClockInvInit == ASSUME C!Init PROVE ClockInv
<1>1. /\ id \in Told /\ accum = 0 /\ speed = 4 /\ next = 0 /\ clock = 0 /\ credit = 0 /\ state # "finished"
      BY DEF C!Init
<1>2. Len(C!Script) \in Nat
      BY <1>1, StoryFact DEF C!Script
<1>3. played = C!After(C!FreshWorld, C!Script, 0, next)
  <2>1. played = C!FreshWorld
        BY DEF C!Init
  <2> QED BY <1>1, <2>1, NothingDone
<1> QED BY <1>1, <1>2, <1>3 DEF ClockInv, C!Backlog

(* The steps done are those that are due: as many, and all when the story   *)
(* is over.                                                                 *)
LEMMA PrefixIsOnTime == ASSUME ClockInv PROVE C!RunKeepsTime
<1> DEFINE acts == C!Script
           size == Len(acts)
<1>1. /\ id \in Told /\ clock \in Nat /\ next \in 0..size /\ size \in Nat
      /\ DOMAIN acts = 1..size /\ C!Duration \in Nat /\ \A i \in 1..size : acts[i].at \in 0..C!Duration
      BY StoryFact DEF ClockInv, C!Script, C!Duration
<1>2. ASSUME clock > 0 PROVE next = C!Cardinality({i \in DOMAIN acts : acts[i].at <= clock})
  <2>1. Done(acts, next, clock)
        BY <1>1, <1>2 DEF ClockInv
  <2>2. {i \in DOMAIN acts : acts[i].at <= clock} = 1..next
    <3> HIDE DEF acts, size
    <3>1. ASSUME NEW i PROVE i \in {k \in DOMAIN acts : acts[k].at <= clock} <=> i \in 1..next
          BY <1>1, <2>1 DEF Done, size
    <3> QED BY <3>1
  <2>3. C!Cardinality({i \in DOMAIN acts : acts[i].at <= clock}) = Cardinality(1..next)
        BY <2>2, SameCount, Zenon
  <2>4. 1 \in Int /\ next \in Int
        BY <1>1
  <2>5. Cardinality(1..next) = next
    <3>1. Cardinality(1..next) = IF 1 > next THEN 0 ELSE next - 1 + 1
          BY <2>4, FS_Interval
    <3>2. next \in Nat
          BY <1>1
    <3> QED BY <3>1, <3>2
  <2> QED BY <2>3, <2>5
<1>3. ASSUME state = "finished" PROVE next = size /\ clock >= C!Duration
  <2>1. clock > 0 /\ clock >= C!Duration /\ Done(acts, next, clock)
        BY <1>1, <1>3 DEF ClockInv
  <2> HIDE DEF acts
  <2>2. CASE size = 0
        BY <1>1, <2>1, <2>2
  <2>3. CASE size # 0
    <3>1. size \in 1..size /\ acts[size].at <= clock
          BY <1>1, <2>1, <2>3
    <3>2. size <= next
          BY <2>1, <3>1 DEF Done
    <3>3. next <= size /\ next \in Nat
          BY <1>1
    <3> HIDE DEF size
    <3> QED BY <1>1, <2>1, <3>2, <3>3
  <2> QED BY <2>2, <2>3
<1>4. C!ScriptIsOnTime
      BY <1>2, <1>3 DEF C!ScriptIsOnTime
<1>5. C!TimeIsPaidFor
  <2>1. accum \in Nat /\ credit \in Nat /\ accum <= credit /\ accum <= C!Backlog
        BY DEF ClockInv
  <2> QED BY <2>1 DEF C!TimeIsPaidFor
<1>6. C!EveryStepTakes
  <2>1. C!Takes(C!After(C!FreshWorld, acts, 0, next))
        BY <1>1, StoryFact DEF C!Script
  <2>2. played = C!After(C!FreshWorld, acts, 0, next)
        BY DEF ClockInv
  <2> HIDE DEF acts
  <2> QED BY <2>1, <2>2 DEF C!EveryStepTakes
<1> QED BY <1>4, <1>5, <1>6 DEF C!RunKeepsTime

(* For any stories in order, speeds and calls: every step due has been done *)
(* and no other, none of them refused, a finished story is told to its end, *)
(* and no second is played that was not paid for since the story was loaded *)
(* (ScenarioRunner::advance, step, reset, tick_once).                       *)
THEOREM StoriesKeepTime == FrontSpec => []RunKeepsTime
<1> DEFINE I == part = "clock" => ClockInv
<1>1. FrontInit => I
      BY ClockInvInit DEF FrontInit
<1>2. I /\ [FrontNext]_allVars => I'
  <2> SUFFICES ASSUME I, [FrontNext]_allVars, part' = "clock" PROVE ClockInv'
      OBVIOUS
  <2>1. part = "clock" /\ (C!Next \/ UNCHANGED clockVars)
        BY DEF FrontNext, allVars
  <2>2. CASE C!Next
        BY <2>1, <2>2, ClockInvNext
  <2>3. CASE UNCHANGED clockVars
        BY <2>1, <2>3 DEF clockVars, ClockInv, C!Script, C!Duration, C!Backlog, Done
  <2> QED BY <2>1, <2>2, <2>3
<1>3. I => RunKeepsTime
      BY PrefixIsOnTime DEF RunKeepsTime
<1> QED BY <1>1, <1>2, <1>3, PTL DEF FrontSpec
=============================================================================
