-------------------------------- MODULE Board --------------------------------
(***************************************************************************)
(* The alert board of app::Platform: what zone events raise and settle,    *)
(* what operators close, what expires and escalates with time, and the     *)
(* flag that puts a user's device at full rate, which a device takes away  *)
(* in its copy of the user's state and brings back.                        *)
(*                                                                         *)
(* The engine is one standing per user and zone.  A fix that causes        *)
(* several events is several steps at one time.  An approach too far ahead *)
(* to be reported changes nothing on the board.                            *)
(***************************************************************************)
EXTENDS Integers, Sequences

CONSTANTS
    Tourists,
    Zones, Severities,  \* zones that raise alerts (not safe, not synthetic); what they may have
    WarningSeverity,    \* warning_min_severity
    BreachSeverity,     \* incident_min_breach_severity
    Ttl, Timeout,       \* warning_ttl_ms, escalation_timeout_ms
    Period,             \* from one retention pass to the next
    MaxOnBoard, MaxQueued, MaxTrips, MaxTime    \* bounds of the instance

(* A warning lives for warning_ttl_ms; the retention pass comes every minute. *)
ASSUME BoardAssumption ==
    /\ Severities \subseteq Nat /\ Ttl \in Nat /\ Timeout \in Nat /\ MaxTime \in Nat
    /\ Period \in Nat \ {0}

VARIABLES
    now,
    severity,   \* zone -> Zone::severity
    alerts,     \* Platform::alerts_
    active,     \* the users with Tourist::alert_active
    stand,      \* user -> zone -> ZoneState::confirmed, on the server
    device,     \* user -> DeviceAgent, with the alert_active it was handed
    trips,
    sweep,      \* next_retention_ms_
    computed    \* history: the users whose flag the server computed last

boardVars == <<now, severity, alerts, active, stand, device, trips, sweep, computed>>

Serious == 3

NoDevice == [away |-> FALSE, active |-> FALSE, stand |-> [z \in Zones |-> "Outside"], queue |-> <<>>]

Warnings == {"Approaching", "Uncertain"}

(* alert_is_open; dismissed alerts count as resolved. *)
IsOpen(a) == a.state # "Resolved"

(* incident_worthy. *)
Worthy(kind, sev) == kind \notin Warnings /\ (kind = "Breach" => sev >= BreachSeverity)

(* The board as a value: what handlers that do several things pass on. *)
Board == [alerts |-> alerts, active |-> active, computed |-> computed]

(* raise_alert; due is where EscalationTracker::arm puts it. *)
Raise(b, u, kind, z, sev, t) ==
    LET due == IF Worthy(kind, sev) THEN (IF t > now THEN t ELSE now) + Timeout ELSE -1
    IN  [alerts   |-> Append(b.alerts,
                         [user |-> u, kind |-> kind, zone |-> z, severity |-> sev, state |-> "Open",
                          first |-> sev, raised |-> t, recorded |-> now, due |-> due]),
         active   |-> IF sev >= Serious THEN b.active \cup {u} ELSE b.active,
         computed |-> IF sev >= Serious THEN b.computed \cup {u} ELSE b.computed]

\* Mutant of SetStates: an acknowledged alert does not count as open.
SetStatesSeen(b, which, state) ==
    LET next  == [i \in DOMAIN b.alerts |->
                     IF i \in which THEN [b.alerts[i] EXCEPT !.state = state] ELSE b.alerts[i]]
        users == {b.alerts[i].user : i \in which}
    IN  [alerts   |-> next,
         active   |-> (b.active \ users) \cup
                      {u \in users : \E i \in DOMAIN next :
                          next[i].user = u /\ next[i].state = "Open" /\ next[i].severity >= Serious},
         computed |-> b.computed \cup users]

(* set_alert_state, for the alerts at which, one after the other. *)
SetStates(b, which, state) ==
    LET next  == [i \in DOMAIN b.alerts |->
                     IF i \in which THEN [b.alerts[i] EXCEPT !.state = state] ELSE b.alerts[i]]
        users == {b.alerts[i].user : i \in which}
    IN  [alerts   |-> next,
         active   |-> (b.active \ users) \cup
                      {u \in users : \E i \in DOMAIN next :
                          next[i].user = u /\ IsOpen(next[i]) /\ next[i].severity >= Serious},
         computed |-> b.computed \cup users]

(* settle_warnings. *)
Settle(b, u, z) ==
    SetStates(b, {i \in DOMAIN b.alerts :
                     /\ b.alerts[i].user = u /\ b.alerts[i].zone = z
                     /\ b.alerts[i].kind \in Warnings /\ IsOpen(b.alerts[i])}, "Resolved")

AlertKind(event) == IF event = "Enter" THEN "Breach" ELSE event

(* apply_events, for one event. *)
Apply(b, e) ==
    LET settled == IF e.kind \in {"Enter", "Exit"} THEN Settle(b, e.user, e.zone) ELSE b
    IN  IF e.kind = "Exit" \/ (e.kind \in Warnings /\ severity[e.zone] < WarningSeverity) THEN settled
        ELSE Raise(settled, e.user, AlertKind(e.kind), e.zone, severity[e.zone], e.t)

(* What a device has to tell, one event after the other. *)
Told(b, events) ==
    LET after[n \in 0 .. Len(events)] ==
            IF n = 0 THEN b ELSE Apply(after[n - 1], events[n])
    IN  after[Len(events)]

(* What the engine may report of a standing, and where that leaves it. *)
Moves ==
    {<<"Outside", "Approaching", "Outside">>, <<"Outside", "Uncertain", "Uncertain">>,
     <<"Outside", "Enter", "Inside">>, <<"Uncertain", "Enter", "Inside">>,
     <<"Inside", "Dwell", "Inside">>, <<"Inside", "Exit", "Outside">>,
     <<"Inside", "Exit", "Uncertain">>, <<"Uncertain", "Nothing", "Outside">>}
    \cup {<<s, "Nothing", s>> : s \in {"Outside", "Uncertain", "Inside"}}

BoardInit ==
    /\ severity \in [Zones -> Severities]
    /\ now = 0 /\ alerts = <<>> /\ active = {} /\ computed = {} /\ sweep = 0 /\ trips = 0
    /\ stand = [u \in Tourists |-> [z \in Zones |-> "Outside"]]
    /\ device = [u \in Tourists |-> NoDevice]

Put(b) == alerts' = b.alerts /\ active' = b.active /\ computed' = b.computed

Room == Len(alerts) < MaxOnBoard

Lost(u) ==
    {i \in DOMAIN alerts :
        alerts[i].user = u /\ alerts[i].kind = "SignalLost" /\ IsOpen(alerts[i])}

(* A fix received online answers a lost signal, and may cause an event. *)
Fix(u, z) ==
    /\ ~ device[u].away
    /\ \E m \in Moves :
          /\ m[1] = stand[u][z] /\ (m[2] = "Nothing" \/ Room)
          /\ stand' = [stand EXCEPT ![u][z] = m[3]]
          /\ \E b \in {SetStates(Board, Lost(u), "Resolved")} :
                Put(IF m[2] = "Nothing" THEN b
                    ELSE Apply(b, [kind |-> m[2], user |-> u, zone |-> z, t |-> now]))
    /\ UNCHANGED <<now, severity, device, trips, sweep>>

(* raise_sos, and detect_anomalies where it finds a signal lost. *)
Call(u) ==
    /\ Room
    /\ \/ Put(Raise(Board, u, "Sos", "none", 5, now))
       \/ Lost(u) = {} /\ Put(Raise(Board, u, "SignalLost", "none", Serious, now))
    /\ UNCHANGED <<now, severity, stand, device, trips, sweep>>

(* acknowledge_alert and resolve_alert.  Assigning a unit leaves an alert in  *)
(* another open state, which nothing here tells from acknowledged.            *)
Operate ==
    /\ \E i \in DOMAIN alerts :
          /\ IsOpen(alerts[i])
          /\ \E s \in {"Acknowledged", "Resolved"} :
                /\ s = "Acknowledged" => alerts[i].state = "Open"
                /\ Put(SetStates(Board, {i}, s))
    /\ UNCHANGED <<now, severity, stand, device, trips, sweep>>

(* go_offline. *)
Leave(u) ==
    /\ ~ device[u].away /\ trips < MaxTrips
    /\ trips' = trips + 1
    /\ device' = [device EXCEPT ![u] =
          [away |-> TRUE, active |-> u \in active, stand |-> stand[u], queue |-> <<>>]]
    /\ UNCHANGED <<now, severity, alerts, active, stand, sweep, computed>>

(* device_fix: the events wait on the device. *)
DeviceFix(u, z) ==
    /\ device[u].away /\ Len(device[u].queue) < MaxQueued
    /\ \E m \in Moves :
          /\ m[1] = device[u].stand[z] /\ (m[2] = "Nothing" => m[3] # m[1])
          /\ device' = [device EXCEPT ![u].stand[z] = m[3],
                           ![u].queue = IF m[2] = "Nothing" THEN @
                             ELSE Append(@, [kind |-> m[2], user |-> u, zone |-> z, t |-> now])]
    /\ UNCHANGED <<now, severity, alerts, active, stand, trips, sweep, computed>>

(* reconnect: the events are applied late, then the device's copy of the    *)
(* user takes the place of the server's, then a lost signal is answered.    *)
Reconnect(u) ==
    LET d    == device[u]
        late == Told(Board, d.queue)
        back == [late EXCEPT !.active = IF d.active THEN @ \cup {u} ELSE @ \ {u},
                             !.computed = @ \ {u}]
    IN  /\ d.away /\ Len(alerts) + Len(d.queue) <= MaxOnBoard
        /\ Put(SetStates(back, Lost(u), "Resolved"))
        /\ stand' = [stand EXCEPT ![u] = d.stand]
        /\ device' = [device EXCEPT ![u] = NoDevice]
        /\ UNCHANGED <<now, severity, trips, sweep>>

(* stop_sharing and start_sharing: the standings are forgotten unreported. *)
Renew(u) ==
    /\ stand' = [stand EXCEPT ![u] = NoDevice.stand]
    /\ device' = [device EXCEPT ![u] = NoDevice]
    /\ UNCHANGED <<now, severity, alerts, active, trips, sweep, computed>>

(* escalate. *)
Escalated(b, n) ==
    [b EXCEPT !.alerts = [i \in DOMAIN b.alerts |->
        LET a == b.alerts[i]
        IN  IF a.state = "Open" /\ a.due >= 0 /\ a.due <= n
            THEN [a EXCEPT !.due = -1, !.severity = IF a.severity < 5 THEN a.severity + 1 ELSE a.severity]
            ELSE a]]

(* expire_warnings. *)
Expired(b, n) ==
    SetStates(b, {i \in DOMAIN b.alerts :
                     /\ b.alerts[i].kind \in Warnings /\ b.alerts[i].state = "Open"
                     /\ n - b.alerts[i].raised > Ttl}, "Resolved")

(* tick. *)
Tick ==
    \E n \in now + 1 .. MaxTime :
        /\ now' = n
        /\ Put(IF n >= sweep THEN Expired(Escalated(Board, n), n) ELSE Escalated(Board, n))
        /\ sweep' = IF n >= sweep THEN n + Period ELSE sweep
        /\ UNCHANGED <<severity, stand, device, trips>>

BoardNext ==
    \/ \E u \in Tourists : Call(u) \/ Leave(u) \/ Reconnect(u) \/ Renew(u)
    \/ \E u \in Tourists, z \in Zones : Fix(u, z) \/ DeviceFix(u, z)
    \/ Operate
    \/ Tick

BoardSpec == BoardInit /\ [][BoardNext]_boardVars

----------------------------------------------------------------------------

(* No forecast stands once it has come true, whether the entry is seen live   *)
(* or learned late, and none that nobody took outlives its time by more than  *)
(* the wait for the next pass.                                                *)
ForecastsAreSettled ==
    \A i \in DOMAIN alerts :
        LET a == alerts[i]
        IN  a.kind \in Warnings /\ IsOpen(a) =>
               /\ stand[a.user][a.zone] # "Inside"
               /\ a.state = "Open" => now < a.raised + Ttl + Period \/ now < a.recorded + Period

(* Unless a device has just put its own copy over it, the flag is up while an *)
(* alert raised as serious is open, and down when none is serious: a device   *)
(* neither sleeps through an emergency nor drains its battery after one.      *)
FullRateFollowsAlerts ==
    \A u \in computed :
        /\ u \in active => \E i \in DOMAIN alerts :
              alerts[i].user = u /\ IsOpen(alerts[i]) /\ alerts[i].severity >= Serious
        /\ (\E i \in DOMAIN alerts :
              alerts[i].user = u /\ IsOpen(alerts[i]) /\ alerts[i].first >= Serious) => u \in active

BoardIsTrue == ForecastsAreSettled /\ FullRateFollowsAlerts

=============================================================================
