------------------------------ MODULE Tracking -------------------------------
(***************************************************************************)
(* The tracking half of app::Platform: consent and sessions, the ingestion *)
(* of position fixes, the per-user trail, the device that evaluates alone  *)
(* while it is offline and hands its work back, the detection of lost      *)
(* signals, erasure and retention.                                         *)
(*                                                                         *)
(* Every handler runs to completion before the next one, so one handler is *)
(* one action.  The geofencing engine (module Evaluator) is abstracted to  *)
(* one zone: whether the user is confirmed inside, since when, and the     *)
(* newest position it was given.  Requests the code refuses change only    *)
(* counters and are not modelled.                                          *)
(***************************************************************************)
EXTENDS Lamport, Integers, FiniteSets

CONSTANTS
    Users,              \* tourists; also the ids their devices derive from
    MaxFutureSkew,      \* how far ahead of now a fix may claim to be
    Skews,              \* device clock errors, device minus server
    Seqs,               \* client sequence numbers of fixes; 0 = none sent
    SignalGap,          \* silence after which the signal counts as lost
    QuietGap,           \* the same for a battery-aware device
    BatterySettings,    \* the values a user may set battery_aware to
    TrailRetention,
    TrailMax,           \* trail_max_points
    MaxTime, MaxTrips, MaxQueue, MaxTrail    \* bounds of the instance

ASSUME TrackingAssumption ==
    /\ Users \subseteq Nat
    /\ MaxFutureSkew \in Nat /\ Skews \subseteq Int
    /\ Seqs \subseteq Nat
    /\ SignalGap \in Nat /\ QuietGap \in Nat /\ SignalGap <= QuietGap
    /\ BatterySettings \subseteq BOOLEAN
    /\ TrailRetention \in Nat /\ TrailMax \in Nat
    /\ MaxTime \in Nat /\ MaxTrips \in Nat /\ MaxQueue \in Nat /\ MaxTrail \in Nat

VARIABLES
    now,        \* Platform::now_ms_
    \* User
    active, consent, sharing, connected, battery,       \* sets of users
    started,    \* session_started_ms
    \* Tracked
    hasFix,     \* set of users
    lastT,      \* last_fix_ms
    lastSeq,
    engine,     \* Tourist
    anomaly,
    signal,     \* signal_alert
    trail,
    \* DeviceAgent
    offline,    \* set of users with a device agent
    device,
    trips,      \* how often each user went offline (bound)
    \* Reconciler and alerts
    seen,       \* Reconciler::seen_
    open,       \* SignalLost alerts not yet closed, by the time they were raised
    told        \* history: users whose logged zone events leave them inside

user == <<active, consent, sharing, connected, battery, started>>
tracked == <<hasFix, lastT, lastSeq, engine, anomaly, signal, trail>>
agents == <<offline, device, trips>>
vars == <<now, user, tracked, agents, seen, open, told>>

-----------------------------------------------------------------------------
(* The engine. `since' is a history field: the server time at which the     *)
(* stay really began.                                                       *)

FreshEngine == [inside |-> FALSE, entered |-> 0, since |-> 0, heard |-> {}]

(* zone_states.clear(): the stay is forgotten, the pings are not. *)
ForgetZones(e) == [inside |-> FALSE, entered |-> 0, since |-> 0, heard |-> e.heard]

(* A fix stamped t, taken at server time true, that leaves the user inside  *)
(* or not.                                                                  *)
Evaluate(e, t, true, inside) ==
    [inside  |-> inside,
     entered |-> IF ~inside THEN 0 ELSE IF e.inside THEN e.entered ELSE t,
     since   |-> IF ~inside THEN 0 ELSE IF e.inside THEN e.since ELSE true,
     heard   |-> {t}]

Crossing(inside) == IF inside THEN "Enter" ELSE "Exit"

(* The device's times put on the server's clock. *)
Rebased(e, skew) ==
    [inside  |-> e.inside,
     entered |-> IF e.inside THEN e.entered - skew ELSE 0,
     since   |-> e.since,
     heard   |-> {t - skew : t \in e.heard}]

-----------------------------------------------------------------------------
(* The trail: a vector of points, searched as std::upper_bound and          *)
(* std::lower_bound search it, whether it is ordered or not.                *)

Point(t, known) == [t |-> t, known |-> known]

(* The search over positions 1 .. n, where `below' are those it steps past: *)
(* a first position and a count left, halved until nothing is left.         *)
Halved(span, below) ==
    LET half == span.count \div 2
    IN  IF span.count = 0 THEN span
        ELSE IF span.first + half + 1 \in below
        THEN [first |-> span.first + half + 1, count |-> span.count - half - 1]
        ELSE [first |-> span.first, count |-> half]

PartitionPoint(n, below) ==
    LET after[step \in 0 .. n] ==
            IF step = 0 THEN [first |-> 0, count |-> n] ELSE Halved(after[step - 1], below)
    IN  after[n].first

UpperBound(s, t) == PartitionPoint(Len(s), {i \in DOMAIN s : s[i].t <= t})
LowerBound(s, t) == PartitionPoint(Len(s), {i \in DOMAIN s : s[i].t < t})

InsertByTime(s, p) == InsertAt(s, UpperBound(s, p.t) + 1, p)

Trimmed(s) == IF Len(s) > TrailMax THEN SubSeq(s, Len(s) - TrailMax + 1, Len(s)) ELSE s

Retained(s, cutoff) == SubSeq(s, LowerBound(s, cutoff) + 1, Len(s))

(* position_at: the last point before t that was known at t, as a set.      *)
PositionAt(s, t) ==
    LET known == {i \in 1 .. UpperBound(s, t) : s[i].known <= t}
    IN  IF known = {} THEN {} ELSE {s[Max(known)]}

Ordered(s) == \A i, j \in 1 .. Len(s) : i < j => s[i].t <= s[j].t

-----------------------------------------------------------------------------
(* Devices. *)

DeviceId(u) == u + 1

NoDevice == [queue |-> EmptyQueue(0), skew |-> 0, engine |-> FreshEngine]

NewDevice(u, skew) ==
    [queue |-> EmptyQueue(DeviceId(u)), skew |-> skew, engine |-> engine[u]]

Payload(kind, t) == [kind |-> kind, t |-> t]

-----------------------------------------------------------------------------
(* Sessions. *)

Init ==
    /\ now = 0
    /\ active = Users /\ consent = {} /\ sharing = {} /\ connected = Users
    /\ battery = {}
    /\ started = [u \in Users |-> 0]
    /\ hasFix = {}
    /\ lastT = [u \in Users |-> 0]
    /\ lastSeq = [u \in Users |-> 0]
    /\ engine = [u \in Users |-> FreshEngine]
    /\ anomaly = [u \in Users |-> "None"]
    /\ signal = [u \in Users |-> {}]
    /\ trail = [u \in Users |-> <<>>]
    /\ offline = {}
    /\ device = [u \in Users |-> NoDevice]
    /\ trips = [u \in Users |-> 0]
    /\ seen = {}
    /\ open = [u \in Users |-> {}]
    /\ told = {}

(* stop_sharing: zone state and the device are discarded; the trail stays.  *)
EndSession(u) ==
    /\ sharing' = sharing \ {u}
    /\ engine' = [engine EXCEPT ![u] = ForgetZones(@)]
    /\ told' = told \ {u}
    /\ connected' = connected \cup {u}
    /\ offline' = offline \ {u}
    /\ device' = [device EXCEPT ![u] = NoDevice]
    /\ UNCHANGED <<started, hasFix, lastT, lastSeq, anomaly, signal, trail, trips>>

StopSharing(u) ==
    /\ u \in sharing
    /\ EndSession(u)
    /\ UNCHANGED <<now, active, consent, battery, seen, open>>

Sessions == <<sharing, connected, started, tracked, agents, told>>

(* set_consent: withdrawal stops the session first. *)
SetConsent(u, value) ==
    /\ value # (u \in consent)
    /\ IF ~value /\ u \in sharing THEN EndSession(u) ELSE UNCHANGED Sessions
    /\ consent' = IF value THEN consent \cup {u} ELSE consent \ {u}
    /\ UNCHANGED <<now, active, battery, seen, open>>

(* Mutant of SetActive: a deactivated user's session goes on. *)
SetActiveOnly(u, value) ==
    /\ active' = IF value THEN active \cup {u} ELSE active \ {u}
    /\ UNCHANGED <<now, consent, battery, seen, open, Sessions>>

(* set_active: deactivation stops the session first. *)
SetActive(u, value) ==
    /\ IF ~value /\ u \in sharing THEN EndSession(u) ELSE UNCHANGED Sessions
    /\ active' = IF value THEN active \cup {u} ELSE active \ {u}
    /\ UNCHANGED <<now, consent, battery, seen, open>>

(* Mutant of StartSharing: the open signal-lost alert is forgotten. *)
StartSharingForgetsAlert(u) ==
    /\ u \in active \cap consent /\ u \notin sharing
    /\ sharing' = sharing \cup {u}
    /\ started' = [started EXCEPT ![u] = now]
    /\ engine' = [engine EXCEPT ![u] = FreshEngine]
    /\ hasFix' = hasFix \ {u}
    /\ lastSeq' = [lastSeq EXCEPT ![u] = 0]
    /\ anomaly' = [anomaly EXCEPT ![u] = "None"]
    /\ signal' = [signal EXCEPT ![u] = {}]
    /\ UNCHANGED <<now, active, consent, connected, battery, lastT, trail, agents, seen, open, told>>

StartSharing(u) ==
    /\ u \in active \cap consent /\ u \notin sharing
    /\ sharing' = sharing \cup {u}
    /\ started' = [started EXCEPT ![u] = now]
    /\ engine' = [engine EXCEPT ![u] = FreshEngine]
    /\ hasFix' = hasFix \ {u}
    /\ lastSeq' = [lastSeq EXCEPT ![u] = 0]
    /\ anomaly' = [anomaly EXCEPT ![u] = "None"]
    /\ UNCHANGED <<now, active, consent, connected, battery,
                   lastT, signal, trail, agents, seen, open, told>>

SetBatteryAware(u, value) ==
    /\ battery' = IF value THEN battery \cup {u} ELSE battery \ {u}
    /\ UNCHANGED <<now, active, consent, sharing, connected, started,
                   tracked, agents, seen, open, told>>

EraseHistory(u) ==
    /\ trail' = [trail EXCEPT ![u] = <<>>]
    /\ UNCHANGED <<now, user, hasFix, lastT, lastSeq, engine, anomaly, signal,
                   agents, seen, open, told>>

(* resolve_alert by an operator: signal_alert keeps naming the closed alert. *)
ResolveAlert(u) ==
    /\ open[u] # {}
    /\ \E a \in open[u] : open' = [open EXCEPT ![u] = @ \ {a}]
    /\ UNCHANGED <<now, user, tracked, agents, seen, told>>

-----------------------------------------------------------------------------
(* Fixes received online.  `moved' says whether the position differs from   *)
(* the last one, `inside' what the engine confirms.                         *)

Admissible(u, t) ==
    /\ u \in (sharing \cap consent \cap active) \ offline
    /\ started[u] <= t /\ t <= now + MaxFutureSkew

Duplicate(u, t, seq, moved) ==
    /\ u \in hasFix
    /\ \/ seq # 0 /\ seq = lastSeq[u]
       \/ t = lastT[u] /\ ~moved

OutOfOrder(u, t, seq) ==
    /\ u \in hasFix
    /\ \/ t < lastT[u]
       \/ seq # 0 /\ lastSeq[u] # 0 /\ seq < lastSeq[u]

(* An older fix goes into the history and nowhere else. *)
RecordLate(u, t, seq, moved) ==
    /\ Admissible(u, t) /\ ~Duplicate(u, t, seq, moved) /\ OutOfOrder(u, t, seq)
    /\ Len(trail[u]) < MaxTrail
    /\ trail' = [trail EXCEPT ![u] = InsertByTime(@, Point(t, now))]
    /\ UNCHANGED <<now, user, hasFix, lastT, lastSeq, engine, anomaly, signal,
                   agents, seen, open, told>>

(* The alert a contact answers, and the anomaly it ends. *)
Answered(u) == [open EXCEPT ![u] = @ \ signal[u]]

AcceptFix(u, t, seq, moved, inside) ==
    /\ Admissible(u, t) /\ ~Duplicate(u, t, seq, moved) /\ ~OutOfOrder(u, t, seq)
    /\ trail' = [trail EXCEPT ![u] = Trimmed(Append(@, Point(t, now)))]
    /\ engine' = [engine EXCEPT ![u] = Evaluate(@, t, t, inside)]
    /\ hasFix' = hasFix \cup {u}
    /\ lastT' = [lastT EXCEPT ![u] = t]
    /\ lastSeq' = IF seq # 0 THEN [lastSeq EXCEPT ![u] = seq] ELSE lastSeq
    /\ open' = Answered(u)
    /\ signal' = [signal EXCEPT ![u] = {}]
    /\ anomaly' = [anomaly EXCEPT ![u] = IF @ = "SignalLost" THEN "None" ELSE @]
    /\ told' = IF inside THEN told \cup {u} ELSE told \ {u}
    /\ UNCHANGED <<now, user, agents, seen>>

-----------------------------------------------------------------------------
(* Offline devices. *)

GoOffline(u, skew) ==
    /\ u \in sharing \ offline
    /\ trips[u] < MaxTrips
    /\ trips' = [trips EXCEPT ![u] = @ + 1]
    /\ offline' = offline \cup {u}
    /\ device' = [device EXCEPT ![u] = NewDevice(u, skew)]
    /\ connected' = connected \ {u}
    /\ UNCHANGED <<now, active, consent, sharing, battery, started, tracked, seen, open, told>>

(* device_fix: evaluated on the device, under the device's clock, and       *)
(* queued with the events it caused.                                        *)
DeviceFix(u, inside) ==
    LET d == device[u]
        t == now + d.skew
        withFix == Enqueue(d.queue, Payload("Fix", t))
    IN  /\ u \in offline
        /\ Len(d.queue.items) < MaxQueue
        /\ device' = [device EXCEPT ![u] =
              [queue  |-> IF inside = d.engine.inside THEN withFix
                          ELSE Enqueue(withFix, Payload(Crossing(inside), t)),
               skew   |-> d.skew,
               engine |-> Evaluate(d.engine, t, now, inside)]]
        /\ UNCHANGED <<now, user, tracked, offline, trips, seen, open, told>>

(* Mutant of SyncedPoint: stored as if it had been known when it happened. *)
SyncedPointBackdated(item, skew) == Point(item.payload.t - skew, item.payload.t - skew)

SyncedPoint(item, skew) == Point(item.payload.t - skew, now)

(* The fixes among the items, each put into the trail. *)
WithSynced(s, items, skew) ==
    LET after[n \in 0 .. Len(items)] ==
            IF n = 0 THEN s
            ELSE IF items[n].payload.kind = "Fix"
            THEN InsertByTime(after[n - 1], SyncedPoint(items[n], skew))
            ELSE after[n - 1]
    IN  after[Len(items)]

(* The last zone event among the items. *)
LastEvent(items) ==
    LET events == {i \in DOMAIN items : items[i].payload.kind # "Fix"}
    IN  IF events = {} THEN "None" ELSE items[Max(events)].payload.kind

(* reconnect: the server admits what it does not hold, corrects the times   *)
(* by the skew, applies fixes to the trail and events to the log, and takes *)
(* over the device's engine.  The link's retries merge the same batch again *)
(* and find it held.                                                        *)
Reconnect(u) ==
    LET d        == device[u]
        merged   == Merge(d.queue.items, seen)
        admitted == merged.admitted
        fixes    == {i \in DOMAIN admitted : admitted[i].payload.kind = "Fix"}
    IN  /\ u \in offline
        /\ offline' = offline \ {u}
        /\ device' = [device EXCEPT ![u] = NoDevice]
        /\ connected' = connected \cup {u}
        /\ seen' = merged.seen
        /\ trail' = [trail EXCEPT ![u] = WithSynced(@, admitted, d.skew)]
        /\ lastT' = [lastT EXCEPT ![u] = Max({@} \cup {SyncedPoint(admitted[i], d.skew).t : i \in fixes})]
        /\ told' = IF LastEvent(admitted) = "None" THEN told
                   ELSE IF LastEvent(admitted) = "Enter" THEN told \cup {u}
                   ELSE told \ {u}
        /\ engine' = [engine EXCEPT ![u] = Rebased(d.engine, d.skew)]
        /\ hasFix' = hasFix \cup {u}
        /\ lastSeq' = [lastSeq EXCEPT ![u] = 0]
        /\ open' = Answered(u)
        /\ signal' = [signal EXCEPT ![u] = {}]
        /\ anomaly' = [anomaly EXCEPT ![u] = "None"]
        /\ UNCHANGED <<now, active, consent, sharing, battery, started, trips>>

-----------------------------------------------------------------------------
(* tick: anomalies of every tracked user, then retention when it is due.    *)

Gap(u) == IF u \in battery THEN QuietGap ELSE SignalGap

SignalLost(u, time) == \A t \in engine[u].heard : time - t > Gap(u)

(* What detect_anomalies may leave as the confirmed anomaly: a lost signal  *)
(* is confirmed at once; other readings depend on positions and on how long *)
(* they have lasted.                                                        *)
Detected(u, time) ==
    IF u \notin sharing \cap hasFix THEN {anomaly[u]}
    ELSE IF SignalLost(u, time) THEN {"SignalLost"}
    ELSE {anomaly[u], "None", "Other"}

NewlyLost(before, after) == after = "SignalLost" /\ before # "SignalLost"

Tick ==
    LET time == now + 1 IN
    /\ time <= MaxTime
    /\ now' = time
    /\ \E found \in [Users -> {"None", "SignalLost", "Other"}] :
          /\ \A u \in Users : found[u] \in Detected(u, time)
          /\ anomaly' = found
          /\ signal' = [u \in Users |-> IF NewlyLost(anomaly[u], found[u]) THEN {time} ELSE signal[u]]
          /\ open' = [u \in Users |-> IF NewlyLost(anomaly[u], found[u]) THEN open[u] \cup {time}
                                      ELSE open[u]]
    /\ \E due \in BOOLEAN :
          trail' = IF due THEN [u \in Users |-> Retained(trail[u], time - TrailRetention)] ELSE trail
    /\ UNCHANGED <<user, hasFix, lastT, lastSeq, engine, agents, seen, told>>

FixTimes == 0 .. MaxTime + MaxFutureSkew

Next ==
    \/ Tick
    \/ \E u \in Users :
          \/ StartSharing(u) \/ StopSharing(u) \/ EraseHistory(u) \/ ResolveAlert(u) \/ Reconnect(u)
          \/ \E value \in BOOLEAN : SetConsent(u, value) \/ SetActive(u, value) \/ DeviceFix(u, value)
          \/ \E value \in BatterySettings : SetBatteryAware(u, value)
          \/ \E skew \in Skews : GoOffline(u, skew)
          \/ \E t \in FixTimes, seq \in Seqs, moved \in BOOLEAN :
                \/ RecordLate(u, t, seq, moved)
                \/ \E inside \in BOOLEAN : AcceptFix(u, t, seq, moved, inside)

Spec == Init /\ [][Next]_vars

-----------------------------------------------------------------------------
(* Properties. *)

(* Every variable stays in its domain: in particular the reconciler's       *)
(* duplicate keys are <<counter, device>> pairs.                            *)
TypeOK ==
    /\ now \in Nat
    /\ active \subseteq Users /\ consent \subseteq Users /\ sharing \subseteq Users
    /\ connected \subseteq Users /\ battery \subseteq Users
    /\ hasFix \subseteq Users /\ offline \subseteq Users /\ told \subseteq Users
    /\ started \in [Users -> Nat] /\ lastT \in [Users -> Int] /\ lastSeq \in [Users -> Nat]
    /\ \A u \in Users :
          /\ engine[u].inside \in BOOLEAN /\ engine[u].entered \in Int
          /\ engine[u].since \in Int /\ engine[u].heard \subseteq Int
          /\ anomaly[u] \in {"None", "SignalLost", "Other"}
          /\ signal[u] \subseteq Nat /\ open[u] \subseteq Nat
          /\ \A p \in Range(trail[u]) : p \in [t : Int, known : Nat]
    /\ trips \in [Users -> Nat]
    /\ seen \subseteq Nat \X Nat

(* Nobody is tracked without consent and an active account, only a tracked  *)
(* user has a device working offline, and the dashboard's connection flag   *)
(* says exactly that (set_consent, set_active, stop_sharing, go_offline,    *)
(* reconnect).                                                              *)
ConsentGates ==
    /\ sharing \subseteq active \cap consent
    /\ offline \subseteq sharing
    /\ connected = Users \ offline

(* A position enters the trail only while its user shares with consent, and *)
(* only if it was taken in the running session, whether it came at once,    *)
(* late or from a device's queue (ingest_fix, reconnect, stop_sharing).     *)
PositionNeedsASession ==
    \A u \in Users : \A p \in Range(trail'[u]) \ Range(trail[u]) :
        u \in sharing \cap consent \cap active /\ started[u] <= p.t

PositionsNeedASession == [][PositionNeedsASession]_vars

(* What a historical query answers about a time that has passed does not    *)
(* change: nothing learnt later shows up in it, and what was known stays    *)
(* until erasure, retention or the cap removes it (position_at, ingest_fix, *)
(* reconnect).  Only for a trail in time order, which the search relies on. *)
PastStays ==
    \A u \in Users, t \in 0 .. now - 1 :
        Ordered(trail[u]) /\ Ordered(trail'[u]) =>
            PositionAt(trail'[u], t) \in {PositionAt(trail[u], t), {}}

PastIsStable == [][PastStays]_vars

(* The engine the server holds agrees with the zone events it has logged:   *)
(* handing the state to a device and back loses no crossing and repeats     *)
(* none (go_offline, device_fix, merge, reconnect).                         *)
ToldIsAdopted == \A u \in Users : engine[u].inside <=> u \in told

(* An open signal-lost alert is the one the next contact will resolve, so   *)
(* hearing from a user leaves no such alert open (detect_anomalies,         *)
(* ingest_fix, reconnect, start_sharing).                                   *)
SignalAnswered == \A u \in Users : open[u] \subseteq signal[u]

(* The trail is in time order (the binary searches rely on it). *)
TrailOrdered == \A u \in Users : Ordered(trail[u])

(* While the server evaluates a user's fixes, the entry time it counts the  *)
(* dwell limit from is the server time at which the stay began.             *)
EntryTimeIsServerTime ==
    \A u \in sharing \ offline : engine[u].inside => engine[u].entered = engine[u].since

(* Phones a minute behind the server: for the Skews of a configuration, which *)
(* cannot name a negative number.                                             *)
MCBehind == {-1}
=============================================================================
