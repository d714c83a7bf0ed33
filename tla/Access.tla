-------------------------------- MODULE Access --------------------------------
(***************************************************************************)
(* The console's sessions: app::Api::handle/route with its session table   *)
(* and the log of location reads, over a world of accounts and incidents   *)
(* that a scenario load or reset replaces.                                 *)
(*                                                                         *)
(* The clock here is the platform's own, by which reads are logged and     *)
(* which a load sets back to 0.  Session expiry runs on the wall clock,    *)
(* which a scenario's speed makes independent of it: here a session may be *)
(* found expired whenever it is presented.                                 *)
(***************************************************************************)
EXTENDS Naturals, Sequences, FiniteSets, Functions

(* Who may do what.  Two gates stand in front of every operation: the       *)
(* endpoint's own in app::Api::route and the one at the top of the          *)
(* app::Platform call the endpoint makes.  Both are read here as predicates *)
(* of the caller, the operation and its target in a world                   *)
(*   w == [users, cases]                                                    *)
(* of accounts [name, role, unit, active, sharing] and incident cases       *)
(* [affected, unit, open].  Accounts and units are numbered from 1; NoUnit  *)
(* is the code's kNoId.                                                     *)

Admin == "admin"
Operator == "operator"
Responder == "responder"
Tourist == "tourist"

NoUnit == 0

(* A caller is an account and the role its session was given for this      *)
(* request (Principal).                                                    *)
IsStaff(me) == me.role \in {Admin, Operator}

UnitOf(w, u) == IF u \in 1..Len(w.users) THEN w.users[u].unit ELSE NoUnit

Holds(w, me, c) ==
    /\ me.role = Responder
    /\ UnitOf(w, me.id) # NoUnit
    /\ c.unit = UnitOf(w, me.id)

-----------------------------------------------------------------------------
(* Platform::may_view_location, and as if a resolved incident still        *)
(* opened it.                                                              *)
MayViewLocationForGood(w, me, subject) ==
    \/ me.id = subject
    \/ IsStaff(me)
    \/ \E i \in 1..Len(w.cases) : Holds(w, me, w.cases[i]) /\ subject \in w.cases[i].affected
MayViewLocation(w, me, subject) ==
    \/ me.id = subject
    \/ IsStaff(me)
    \/ \E i \in 1..Len(w.cases) :
          /\ w.cases[i].open
          /\ Holds(w, me, w.cases[i])
          /\ subject \in w.cases[i].affected

(* api.cpp incident_view.                                                  *)
IncidentView(w, me, c) ==
    IF IsStaff(me) \/ Holds(w, me, c) THEN "Full"
    ELSE IF me.id \in c.affected THEN "Own" ELSE "None"

-----------------------------------------------------------------------------
(* The endpoint's gate, one operator per group of endpoints of Api::route. *)
(* TRUE where the endpoint leaves the decision to the platform.            *)
Self(me, x) == me.id = x

UsersApi(w, op, me, x) ==
    CASE op = "user_create" -> me.role = Admin
      [] op = "user_read" -> IsStaff(me) \/ MayViewLocation(w, me, x)
      [] op = "trail_read" -> MayViewLocation(w, me, x)
      [] OTHER -> TRUE

GroupsApi(me) == IsStaff(me)

ZonesApi(op, me) ==
    CASE op = "zones_read" -> TRUE
      [] op = "zone_detail" -> IsStaff(me)
      [] OTHER -> me.role = Admin

AlertsApi(op) == TRUE

IncidentsApi(w, op, me, x) ==
    op = "incident_read" => /\ x \in 1..Len(w.cases)
                            /\ IncidentView(w, me, w.cases[x]) # "None"

DispatchApi(me) == IsStaff(me)

RespondersApi(op, me) ==
    op = "units_read" => IsStaff(me) \/ me.role = Responder

HistoryApi(me) == IsStaff(me)
EvidenceApi(me) == IsStaff(me)
AuditApi(me) == me.role = Admin
StatsApi(me) == IsStaff(me)
SettingsApi(op, me) == IF op = "settings_read" THEN IsStaff(me) ELSE me.role = Admin
ScenarioApi(me) == IsStaff(me)

UserOps == {"user_create", "user_read", "trail_read", "user_active",
            "user_rename", "user_password", "consent", "sharing", "fix", "sos",
            "battery", "erase"}
GroupOps == {"groups_read", "group_change"}
ZoneOps == {"zones_read", "zone_detail", "zone_change"}
AlertOps == {"alerts_read", "alert_close"}
IncidentOps == {"incidents_read", "incident_read", "incident_ack",
                "incident_assign", "incident_resolve"}
UnitOps == {"units_read", "unit_create", "unit_available", "unit_move"}
ConsoleOps == {"live", "users_read", "roads", "events", "lab", "bench"}

ApiGate(w, op, me, x) ==
    CASE op \in UserOps -> UsersApi(w, op, me, x)
      [] op \in GroupOps -> GroupsApi(me)
      [] op \in ZoneOps -> ZonesApi(op, me)
      [] op \in AlertOps -> AlertsApi(op)
      [] op \in IncidentOps -> IncidentsApi(w, op, me, x)
      [] op = "plan" -> DispatchApi(me)
      [] op \in UnitOps -> RespondersApi(op, me)
      [] op = "history" -> HistoryApi(me)
      [] op = "evidence" -> EvidenceApi(me)
      [] op = "audit" -> AuditApi(me)
      [] op = "stats" -> StatsApi(me)
      [] op \in {"settings_read", "settings_change"} -> SettingsApi(op, me)
      [] op = "scenario" -> ScenarioApi(me)
      [] OTHER -> TRUE

-----------------------------------------------------------------------------
(* The platform's own gate, one operator per kind of Platform call.        *)
OnlyAdmin(me) == me.role = Admin
AdminOrSelf(me, x) == me.role = Admin \/ Self(me, x)
OnlySelf(me, x) == Self(me, x)
OnlyStaff(me) == IsStaff(me)
StaffOrUnitOn(w, me, x) ==
    IsStaff(me) \/ (x \in 1..Len(w.cases) /\ Holds(w, me, w.cases[x]))
OwnUnit(w, me, x) == me.role = Responder /\ UnitOf(w, me.id) = x

PlatformGate(w, op, me, x) ==
    CASE op \in {"user_create", "user_active", "zone_change", "unit_create"} -> OnlyAdmin(me)
      [] op \in {"consent", "sharing", "fix", "sos"} -> OnlySelf(me, x)
      [] op \in {"user_rename", "user_password", "battery", "erase"} -> AdminOrSelf(me, x)
      [] op \in {"group_change", "alert_close", "incident_assign", "plan"} -> OnlyStaff(me)
      [] op \in {"incident_ack", "incident_resolve"} -> StaffOrUnitOn(w, me, x)
      [] op = "unit_available" -> IsStaff(me) \/ OwnUnit(w, me, x)
      [] op = "unit_move" -> OnlyAdmin(me) \/ OwnUnit(w, me, x)
      [] OTHER -> TRUE

(* The operations that change the world through a call of the platform.    *)
Commands == {"user_create", "user_active", "user_rename", "user_password",
             "consent", "sharing", "fix", "sos", "battery", "erase",
             "group_change", "zone_change", "alert_close", "incident_ack",
             "incident_assign", "incident_resolve", "plan", "unit_create",
             "unit_available", "unit_move"}

Operations == UserOps \cup GroupOps \cup ZoneOps \cup AlertOps \cup IncidentOps
              \cup UnitOps \cup ConsoleOps
              \cup {"plan", "history", "evidence", "audit", "stats",
                    "settings_read", "settings_change", "scenario"}

-----------------------------------------------------------------------------
(* The console. *)

CONSTANTS Pairs,       \* which two people use the console, by account name
          Actors,      \* names of the simulated tourists of the scenario
          Preloaded,   \* may a scenario be loaded at start-up (--scenario none)
          NewAccounts, \* names an administrator may register at run time
          NewRoles,    \* and the roles it may give them
          Switched,    \* names it deactivates and reactivates
          AuditEvery,  \* a polled view is logged once in this time (600 s)
          Repeat,      \* a repeated read within this time is one (60 s)
          MaxNow, MaxCalls  \* bounds: the clock, requests made

ASSUME AccessAssumption ==
    /\ AuditEvery \in Nat /\ Repeat \in Nat /\ Repeat <= AuditEvery
    /\ Actors \in Seq(STRING) /\ NewAccounts \cap {Actors[i] : i \in 1..Len(Actors)} = {}
    /\ Preloaded \subseteq BOOLEAN /\ NewRoles \subseteq {Admin, Operator, Responder, Tourist}

VARIABLES
    users,      \* Platform::users_: accounts in the order they were created
    cases,      \* Platform::cases_: who is affected, the unit sent, open or not
    access,     \* Platform::access_: reads of somebody's location
    now,        \* Platform::now_ms_
    sessions,   \* Api::sessions_: whose browser -> the account's number
    liveAudit,  \* Api::live_audit_: <<actor, subject, view>> -> last logged poll
    people,     \* the people at the console, by the account each signs in to
    loaded,     \* ScenarioRunner::id_ names a story
    calls,      \* how many requests were made (bounded)
    asked,      \* history: the last request and what its answer showed
    outlived,   \* history: whose session is of a run-time account of an earlier world
    leftOver    \* history: the entries of live_audit_ written in an earlier world

platform == <<users, cases, access, now, loaded>>
signed == <<sessions, outlived>>
polls == <<liveAudit, leftOver>>
core == <<platform, signed, polls, people, calls>>
vars == <<platform, signed, polls, people, calls, asked>>
world == [users |-> users, cases |-> cases]

-----------------------------------------------------------------------------
Account(name, role, unit) ==
    [name |-> name, role |-> role, unit |-> unit, active |-> TRUE, sharing |-> FALSE]

(* staff_from_environment and build_world: every world starts with the      *)
(* same four accounts in the same order, the responder's on unit 1.         *)
BuiltIn == << Account("admin", Admin, NoUnit), Account("operator", Operator, NoUnit),
              Account("responder", Responder, 1), Account("tourist", Tourist, NoUnit) >>

(* ScenarioRunner::load creates the simulated tourists that are not there   *)
(* yet; they have no password, so nobody signs in as one of them.           *)
Cast == [i \in 1..Len(Actors) |-> Account(Actors[i], Tourist, NoUnit)]
Staged(us) ==
    IF \E u \in 1..Len(us), i \in 1..Len(Actors) : us[u].name = Actors[i] THEN us ELSE us \o Cast

Ids == 1..Len(users)
Named(name) == {u \in Ids : users[u].name = name}
MaySignIn(u) == users[u].active /\ users[u].name \notin {Actors[i] : i \in 1..Len(Actors)}

Caller(who) == [id |-> sessions[who], role |-> users[sessions[who]].role]

(* f with value v at keys. *)
Updated(f, keys, v) == [k \in keys \cup DOMAIN f |-> IF k \in keys THEN v ELSE f[k]]

NoAnswer == [op |-> "none", by |-> "nobody", x |-> 0, code |-> 0, me |-> 0, shows |-> {}]

Init ==
    /\ loaded \in Preloaded /\ users = IF loaded THEN Staged(BuiltIn) ELSE BuiltIn
    /\ cases = <<>> /\ access = {} /\ now = 0 /\ calls = 0
    /\ sessions = <<>> /\ liveAudit = <<>> /\ people \in Pairs
    /\ outlived = {} /\ leftOver = {}
    /\ asked = NoAnswer

-----------------------------------------------------------------------------
(* Platform::authenticate and Api::login_token.                             *)
Login(who, u) ==
    /\ who \notin DOMAIN sessions
    /\ u \in Named(who) /\ MaySignIn(u)
    /\ sessions' = Updated(sessions, {who}, u) /\ outlived' = outlived \ {who}
    /\ asked' = NoAnswer
    /\ UNCHANGED <<platform, polls, people, calls>>

(* Api::session_for: a session of a missing or deactivated account is      *)
(* refused and erased when it is next presented, and any session may be     *)
(* found idle or open for too long then.                                    *)
Ended(who) == sessions[who] \notin Ids \/ ~users[sessions[who]].active

Drop(who) == /\ sessions' = Restrict(sessions, DOMAIN sessions \ {who})
             /\ outlived' = outlived \ {who}

Refuse(who) ==
    /\ who \in DOMAIN sessions
    /\ Drop(who)
    /\ asked' = [NoAnswer EXCEPT !.by = who, !.code = 401]
    /\ UNCHANGED <<platform, polls, people, calls>>

Logout(who) ==
    /\ who \in DOMAIN sessions /\ ~Ended(who)
    /\ Drop(who)
    /\ asked' = NoAnswer
    /\ UNCHANGED <<platform, polls, people, calls>>

-----------------------------------------------------------------------------
(* The log of reads.                                                        *)
Record(me, subject, what, ok) ==
    [t |-> now, actor |-> me.id, subject |-> subject, what |-> what, allowed |-> ok]

(* Platform::audit_access: nothing for one's own data, and a repeat within  *)
(* a minute is one read.  Its scan stops after 64 newer records; the worlds *)
(* checked never hold so many within a minute.                              *)
AuditAccess(log, me, subject, what, ok) ==
    IF (me.id = subject /\ ok)
       \/ \E r \in log : /\ now - r.t <= Repeat
                         /\ [r EXCEPT !.t = now] = Record(me, subject, what, ok)
    THEN log
    ELSE log \cup {Record(me, subject, what, ok)}

(* Api::audit_view: those of the polled subjects that are due to be logged. *)
DueViews(me, shown, view) ==
    {s \in shown : /\ s # me.id
                   /\ LET k == <<me.id, s, view>> IN
                      ~(/\ k \in DOMAIN liveAudit
                        /\ now - liveAudit[k] <= AuditEvery
                        /\ now >= liveAudit[k])}

AuditViews(me, shown, view) ==
    LET due == DueViews(me, shown, view)
        keys == {<<me.id, s, view>> : s \in due}
    IN /\ access' = access \cup UNION {AuditAccess(access, me, s, view, TRUE) : s \in due}
       /\ liveAudit' = Updated(liveAudit, keys, now)
       /\ leftOver' = leftOver \ keys

-----------------------------------------------------------------------------
(* What an answer shows of people's positions, by endpoint.                 *)
Tourists == {u \in Ids : users[u].role = Tourist}

(* GET /api/live and GET /api/users: write_user with the location.          *)
ShownSharing(me) == {u \in Tourists : MayViewLocation(world, me, u) /\ users[u].sharing}

(* GET /api/alerts: every alert for staff, one's own for others.            *)
ShownAlerts(me) ==
    {s \in UNION {cases[i].affected : i \in 1..Len(cases)} : IsStaff(me) \/ s = me.id}

(* GET /api/incidents/{id}: all of it or one's own part.                    *)
ShownIncident(me, x) ==
    IF IncidentView(world, me, cases[x]) = "Full" THEN cases[x].affected ELSE {me.id}

(* GET /api/history: every tourist with a position kept.                    *)
ShownHistory == {u \in Tourists : users[u].sharing}

Reply(who, op, x, code, shows) ==
    /\ calls < MaxCalls
    /\ calls' = IF code = 200 THEN calls + 1 ELSE calls
    /\ asked' = [op |-> op, by |-> who, x |-> x, code |-> code,
                 me |-> sessions[who], shows |-> shows]
    /\ UNCHANGED people

(* What every endpoint but the scenario's leaves alone.                     *)
Answer(who, op, x, code, shows) ==
    Reply(who, op, x, code, shows) /\ UNCHANGED <<now, loaded, signed>>

Present(who) == who \in DOMAIN sessions /\ ~Ended(who)

Polled == {"live", "users_read", "alerts_read", "incident_read"}
ViewName == [op \in Polled |->
    CASE op = "live" -> "live" [] op = "users_read" -> "list"
      [] op = "alerts_read" -> "alerts" [] op = "incident_read" -> "incident"]

(* The polled views, each subject logged once in AuditEvery.                *)
Poll(who, op, x) ==
    /\ Present(who)
    /\ LET me == Caller(who)
           ok == ApiGate(world, op, me, x)
           shown == CASE ~ok -> {}
                      [] op \in {"live", "users_read"} -> ShownSharing(me)
                      [] op = "alerts_read" -> ShownAlerts(me)
                      [] op = "incident_read" -> ShownIncident(me, x)
       IN /\ Answer(who, op, x, IF ok THEN 200 ELSE 403, shown)
          /\ AuditViews(me, shown, ViewName[op])
    /\ UNCHANGED <<users, cases>>

(* A profile, a trail and the history are logged at every read, and a       *)
(* refused profile or trail is logged as refused.                           *)
Read(who, op, x) ==
    /\ Present(who)
    /\ LET me == Caller(who)
           ok == ApiGate(world, op, me, x)
           vis == MayViewLocation(world, me, x)
       IN CASE op = "user_read" ->
                 /\ Answer(who, op, x, IF ok THEN 200 ELSE 403,
                           IF ok /\ vis /\ users[x].sharing THEN {x} \cap Tourists ELSE {})
                 /\ access' = IF ok THEN AuditAccess(access, me, x, op, vis) ELSE access
            [] op = "trail_read" ->
                 /\ Answer(who, op, x, IF ok THEN 200 ELSE 403, IF ok THEN {x} \cap Tourists ELSE {})
                 /\ access' = AuditAccess(access, me, x, op, vis)
            [] op = "history" ->
                 /\ Answer(who, op, x, IF ok THEN 200 ELSE 403, IF ok THEN ShownHistory ELSE {})
                 /\ access' = IF ok THEN access \cup UNION {AuditAccess(access, me, s, op, TRUE) :
                                                           s \in ShownHistory}
                              ELSE access
    /\ UNCHANGED <<users, cases, polls>>

-----------------------------------------------------------------------------
(* The commands that change what later requests may see.                    *)
Passes(op, me, x) == ApiGate(world, op, me, x) /\ PlatformGate(world, op, me, x)

CreateUser(who, name, role) ==
    /\ Present(who)
    /\ LET ok == Passes("user_create", Caller(who), 0) /\ Named(name) = {} IN
       /\ users' = IF ok THEN Append(users, Account(name, role, NoUnit)) ELSE users
       /\ Answer(who, "user_create", 0, IF ok THEN 200 ELSE 403, {})
    /\ UNCHANGED <<cases, access, polls>>

(* Platform::set_active; deactivating someone who shares stops the sharing. *)
SetActive(who, x, on) ==
    /\ Present(who) /\ users[x].active # on
    /\ LET ok == Passes("user_active", Caller(who), x) IN
       /\ users' = IF ok THEN [users EXCEPT ![x].active = on, ![x].sharing = (@ /\ on)] ELSE users
       /\ Answer(who, "user_active", x, IF ok THEN 200 ELSE 403, {})
    /\ UNCHANGED <<cases, access, polls>>

(* start_sharing and stop_sharing of one's own account (consent is given).  *)
Share(who, x) ==
    /\ Present(who)
    /\ LET ok == Passes("sharing", Caller(who), x) /\ users[x].role = Tourist IN
       /\ users' = IF ok THEN [users EXCEPT ![x].sharing = ~@] ELSE users
       /\ Answer(who, "sharing", x, IF ok THEN 200 ELSE 403, {})
    /\ UNCHANGED <<cases, access, polls>>

Assign(who, x) ==
    /\ Present(who)
    /\ LET ok == Passes("incident_assign", Caller(who), x) /\ cases[x].open IN
       /\ cases' = IF ok THEN [cases EXCEPT ![x].unit = 1] ELSE cases
       /\ Answer(who, "incident_assign", x, IF ok THEN 200 ELSE 403, {})
    /\ UNCHANGED <<users, access, polls>>

Resolve(who, x) ==
    /\ Present(who)
    /\ LET ok == Passes("incident_resolve", Caller(who), x) /\ cases[x].open IN
       /\ cases' = IF ok THEN [cases EXCEPT ![x].open = FALSE] ELSE cases
       /\ Answer(who, "incident_resolve", x, IF ok THEN 200 ELSE 403, {})
    /\ UNCHANGED <<users, access, polls>>

(* What a reload leaves of the sessions and of the polls; a version that    *)
(* lets the other sessions stay.                                            *)
SessionsLeftAlone(who, id) == Updated(sessions, {who}, id)
SessionsKept(who, id) == [w \in {who} |-> id]
PollsKept == <<>>

(* ScenarioRunner::load of a story it knows.  `anew': the zone file could    *)
(* be read, and rebuild_ has replaced the platform; `zoned': the platform     *)
(* then has the two zones the stories are set in.  Without them the load    *)
(* fails, after the rebuild.                                                *)
Run(anew, zoned) ==
    LET before == IF anew THEN BuiltIn ELSE users IN
    /\ users' = IF zoned THEN Staged(before) ELSE before
    /\ IF anew THEN cases' = <<>> /\ access' = {} /\ now' = 0
       ELSE UNCHANGED <<cases, access, now>>
    /\ loaded' = (loaded \/ zoned)

(* Every session and every live_audit_ entry goes, and the caller's session *)
(* is put back under the same account number with a fresh start.            *)
Aged(anew) == outlived \cup {w \in DOMAIN sessions : anew /\ sessions[w] > Len(BuiltIn)}

EndSessions(who, anew) ==
    /\ sessions' = SessionsKept(who, sessions[who]) /\ outlived' = Aged(anew) \cap {who}
    /\ liveAudit' = PollsKept /\ leftOver' = {}

LeaveSessions(anew) ==
    /\ UNCHANGED <<sessions, liveAudit>> /\ outlived' = Aged(anew)
    /\ leftOver' = IF anew THEN DOMAIN liveAudit ELSE leftOver

(* POST /api/scenario/load: a load that fails is answered before the        *)
(* sessions are looked at.                                                  *)
Load(who) ==
    \E anew, zoned \in BOOLEAN :
        /\ Run(anew, zoned)
        /\ IF zoned THEN EndSessions(who, anew) ELSE LeaveSessions(anew)
        /\ Reply(who, "scenario", 0, IF zoned THEN 200 ELSE 400, {})

(* POST /api/scenario/reset: nothing is rebuilt where no story was loaded,  *)
(* and whether the load succeeds is not asked.                              *)
Reset(who) ==
    /\ \/ ~loaded /\ UNCHANGED platform /\ EndSessions(who, FALSE)
       \/ loaded /\ \E anew, zoned \in BOOLEAN : Run(anew, zoned) /\ EndSessions(who, anew)
    /\ Reply(who, "scenario", 0, 200, {})

Reload(who) ==
    /\ Present(who)
    /\ IF ApiGate(world, "scenario", Caller(who), 0) THEN Load(who) \/ Reset(who)
       ELSE Answer(who, "scenario", 0, 403, {}) /\ UNCHANGED <<platform, polls>>

-----------------------------------------------------------------------------
(* The rest of the platform: an incident opens for everyone who shares, a   *)
(* simulated tourist starts sharing, and the two clocks advance.            *)
Incident ==
    /\ cases = <<>> /\ \E u \in Tourists : users[u].sharing
    /\ cases' = << [affected |-> {u \in Tourists : users[u].sharing},
                    unit |-> NoUnit, open |-> TRUE] >>
    /\ asked' = NoAnswer
    /\ UNCHANGED <<users, access, now, loaded, signed, polls, people, calls>>

Simulate ==
    /\ \E i \in 1..Len(Actors) : \E u \in Named(Actors[i]) :
          /\ ~users[u].sharing /\ users[u].active
          /\ users' = [users EXCEPT ![u].sharing = TRUE]
    /\ asked' = NoAnswer
    /\ UNCHANGED <<cases, access, now, loaded, signed, polls, people, calls>>

Pass(d) ==
    /\ now + d <= MaxNow /\ now' = now + d
    /\ asked' = NoAnswer
    /\ UNCHANGED <<users, cases, access, loaded, signed, polls, people, calls>>

CaseIds == 1..Len(cases)

(* What a person at the console does.                                       *)
Console(who) ==
    \/ \E u \in Ids : Login(who, u)
    \/ Refuse(who) \/ Logout(who) \/ Reload(who)
    \/ \E op \in Polled \ {"incident_read"} : Poll(who, op, 0)
    \/ \E x \in CaseIds : Poll(who, "incident_read", x) \/ Assign(who, x) \/ Resolve(who, x)
    \/ \E op \in {"user_read", "trail_read"}, x \in Tourists : Read(who, op, x)
    \/ Read(who, "history", 0)
    \/ \E name \in NewAccounts, role \in NewRoles : CreateUser(who, name, role)
    \/ \E x \in UNION {Named(n) : n \in Switched}, on \in BOOLEAN : SetActive(who, x, on)
    \/ \E x \in Tourists : Share(who, x)

Next ==
    \/ \E who \in people : Console(who)
    \/ Incident \/ Simulate
    \/ Pass(1)

Spec == Init /\ [][Next]_vars

-----------------------------------------------------------------------------
(* A session acts for the account that signed in with it, also after a load *)
(* or a reset has built the accounts again, whether it succeeded or not     *)
(* (session_for, and the scenario endpoint that replaces the accounts the   *)
(* sessions point into).  Two kinds are excepted, of accounts registered at *)
(* run time: those a load that failed left as they were, and that of the    *)
(* caller of a load or reset.                                               *)
IdentityKept ==
    \A who \in DOMAIN sessions \ outlived :
        /\ sessions[who] \in Ids
        /\ users[sessions[who]].name = who

(* Without the exceptions, what the comments of the scenario endpoint say:  *)
(* "fresh world: user ids are rebuilt", "staff accounts are recreated with  *)
(* the same ids".  Not so in the code: an account registered after the      *)
(* rebuild takes the number that a session of the old world still names.    *)
SessionsNameTheirUser ==
    \A who \in DOMAIN sessions :
        sessions[who] \in Ids => users[sessions[who]].name = who

(* The documented right of an account to a request (the table "Who" of the  *)
(* technical documentation).                                                *)
Assigned(u, x) ==
    \E i \in 1..Len(cases) :
        cases[i].open /\ cases[i].unit # NoUnit /\ cases[i].unit = users[u].unit
        /\ x \in cases[i].affected
OnCase(u, x) ==
    x \in 1..Len(cases) /\ cases[x].unit # NoUnit /\ cases[x].unit = users[u].unit

Right(u, op, x) ==
    LET role == users[u].role
        staff == role \in {Admin, Operator}
    IN CASE op \in {"user_create", "user_active", "zone_change", "unit_create", "audit",
                    "settings_change"} -> role = Admin
         [] op \in {"consent", "sharing", "fix", "sos"} -> u = x
         [] op \in {"battery", "erase", "user_rename", "user_password"} -> u = x \/ role = Admin
         [] op \in {"user_read", "trail_read"} ->
               staff \/ u = x \/ (role = Responder /\ Assigned(u, x))
         [] op \in {"groups_read", "group_change", "zone_detail", "alert_close",
                    "incident_assign", "plan", "history", "evidence", "stats",
                    "settings_read", "scenario"} -> staff
         [] op = "incident_read" ->
               /\ x \in 1..Len(cases)
               /\ staff \/ (role = Responder /\ OnCase(u, x)) \/ u \in cases[x].affected
         [] op \in {"incident_ack", "incident_resolve"} ->
               staff \/ (role = Responder /\ OnCase(u, x))
         [] op = "units_read" -> staff \/ role = Responder
         [] op \in {"unit_available", "unit_move"} ->
               staff \/ (role = Responder /\ users[u].unit = x)
         [] OTHER -> TRUE

(* A request is served only when the account its session names has the      *)
(* documented right to it, the account that signed in but for the           *)
(* exceptions of IdentityKept, and shows somebody else's position only to   *)
(* staff and to a responder whose unit is on an incident of that person,    *)
(* through a profile, trail or map only while that incident is open         *)
(* (Api::route's gates, MayViewLocation and incident_view).                 *)
ServedByRight ==
    [][asked'.code = 200 =>
         \E u \in Ids :
            /\ asked'.me = u
            /\ asked'.by \notin outlived => users[u].name = asked'.by
            /\ Right(u, asked'.op, asked'.x)
            /\ \A s \in asked'.shows \ {u} :
                  \/ users[u].role \in {Admin, Operator}
                  \/ /\ users[u].role = Responder
                     /\ IF asked'.op = "incident_read" THEN OnCase(u, asked'.x)
                        ELSE Assigned(u, s)]_vars

(* The one place where the code is stricter than the table: an operator may *)
(* not move a unit (Platform::set_responder_position), where the table has  *)
(* "update: A O / own unit".                                                *)
Withheld(u, op) == op = "unit_move" /\ users[u].role = Operator

(* The two gates together pass exactly who the table grants the request,    *)
(* whatever it is about, but for what is withheld; and for what changes the *)
(* world the platform's gate alone refuses the others: the second gate does *)
(* not lean on the first.                                                   *)
GatesKeepTheTable ==
    \A u \in Ids, x \in Nat :
        LET me == [id |-> u, role |-> users[u].role] IN
        /\ \A op \in Operations : Passes(op, me, x) <=> Right(u, op, x) /\ ~Withheld(u, op)
        /\ \A op \in Commands : PlatformGate(world, op, me, x) => Right(u, op, x)

(* Whoever was just shown another person's position has a record of it in   *)
(* this world's access log not older than the polling interval, and the     *)
(* time in which a repeat counts as one read, before (audit_view's table of *)
(* last polls against audit_access's log).  Polls of an earlier world, left *)
(* by a load that failed, are excepted: they stand for the record until     *)
(* they are as old.                                                         *)
AuditedInTime ==
    [][\A s \in asked'.shows \ {asked'.me} :
        \/ asked'.op \in Polled /\ <<asked'.me, s, ViewName[asked'.op]>> \in leftOver'
        \/ \E r \in access' :
              /\ r.actor = asked'.me /\ r.subject = s /\ r.allowed
              /\ r.t <= now' /\ r.t + AuditEvery + Repeat >= now']_vars

=============================================================================
