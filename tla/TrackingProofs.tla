--------------------------- MODULE TrackingProofs ---------------------------
(***************************************************************************)
(* Theorems of module Tracking, for every set of users and every value of  *)
(* the constants: consent gates tracking, an open signal-lost alert is the *)
(* one the next contact answers, the engine a device hands back agrees     *)
(* with the zone events it queued, no answer about a time that has passed  *)
(* changes for a trail in order, and only the running session adds to a    *)
(* trail.  The last three follow what the queue, the merge, the binary     *)
(* searches and the synchronisation compute, step by step.                 *)
(***************************************************************************)
EXTENDS Tracking, SequenceTheorems, WellFoundedInduction, TLAPS

-----------------------------------------------------------------------------
(* Consent gates tracking. *)

LEMMA GatesInit == Init => ConsentGates
BY DEF Init, ConsentGates

LEMMA EndSessionGates ==
    ASSUME NEW u \in Users, ConsentGates, EndSession(u)
    PROVE  /\ sharing' \subseteq (active \cap consent) \ {u}
           /\ offline' \subseteq sharing'
           /\ connected' = Users \ offline'
BY DEF ConsentGates, EndSession

LEMMA GatesNext == ConsentGates /\ [Next]_vars => ConsentGates'
<1> SUFFICES ASSUME ConsentGates, [Next]_vars PROVE ConsentGates'
    OBVIOUS
<1>1. CASE Tick
      BY <1>1 DEF ConsentGates, Tick, user, agents
<1>2. ASSUME NEW u \in Users, StartSharing(u) PROVE ConsentGates'
      BY <1>2 DEF ConsentGates, StartSharing, agents
<1>3. ASSUME NEW u \in Users, StopSharing(u) PROVE ConsentGates'
      BY <1>3, EndSessionGates DEF ConsentGates, StopSharing
<1>4. ASSUME NEW u \in Users, EraseHistory(u) \/ ResolveAlert(u) PROVE ConsentGates'
      BY <1>4 DEF ConsentGates, EraseHistory, ResolveAlert, user, agents
<1>5. ASSUME NEW u \in Users, Reconnect(u) PROVE ConsentGates'
      BY <1>5 DEF ConsentGates, Reconnect
<1>6. ASSUME NEW u \in Users, NEW value \in BOOLEAN, SetConsent(u, value) PROVE ConsentGates'
      BY <1>6, EndSessionGates DEF ConsentGates, SetConsent, Sessions, agents
<1>7. ASSUME NEW u \in Users, NEW value \in BOOLEAN, SetActive(u, value) PROVE ConsentGates'
      BY <1>7, EndSessionGates DEF ConsentGates, SetActive, Sessions, agents
<1>8. ASSUME NEW u \in Users, NEW value \in BOOLEAN, DeviceFix(u, value) PROVE ConsentGates'
      BY <1>8 DEF ConsentGates, DeviceFix, user
<1>9. ASSUME NEW u \in Users, NEW value \in BatterySettings, SetBatteryAware(u, value)
      PROVE  ConsentGates'
      BY <1>9 DEF ConsentGates, SetBatteryAware, agents
<1>10. ASSUME NEW u \in Users, NEW skew \in Skews, GoOffline(u, skew) PROVE ConsentGates'
      BY <1>10 DEF ConsentGates, GoOffline
<1>11. ASSUME NEW u \in Users, NEW t, NEW seq, NEW moved, RecordLate(u, t, seq, moved)
       PROVE  ConsentGates'
      BY <1>11 DEF ConsentGates, RecordLate, user, agents
<1>12. ASSUME NEW u \in Users, NEW t, NEW seq, NEW moved, NEW inside,
              AcceptFix(u, t, seq, moved, inside)
       PROVE  ConsentGates'
      BY <1>12 DEF ConsentGates, AcceptFix, user, agents
<1>13. CASE UNCHANGED vars
      BY <1>13 DEF ConsentGates, vars, user, agents
<1> QED BY <1>1, <1>2, <1>3, <1>4, <1>5, <1>6, <1>7, <1>8, <1>9, <1>10, <1>11, <1>12, <1>13 DEF Next

(* Nobody is ever tracked without consent and an active account, and only a *)
(* tracked user has a device working offline (set_consent, set_active,      *)
(* stop_sharing, go_offline, reconnect).                                    *)
THEOREM ConsentGatesTracking == Spec => []ConsentGates
BY GatesInit, GatesNext, PTL DEF Spec


-----------------------------------------------------------------------------
(* Contact answers a lost signal.  An open alert can outlive the anomaly    *)
(* that raised it only if the reading turns from lost to not lost without   *)
(* a fix.  The newest ping does not change without one, so silence only     *)
(* grows: Silence says that a user with an open alert is still lost.        *)

Clocks ==
    /\ now \in Int
    /\ DOMAIN engine = Users /\ DOMAIN device = Users
    /\ \A u \in Users :
          /\ engine[u].heard \subseteq Int
          /\ device[u].engine.heard \subseteq Int
          /\ device[u].skew \in Int

LEMMA EngineHeard ==
    /\ FreshEngine.heard = {}
    /\ \A e : ForgetZones(e).heard = e.heard
    /\ \A e, t, true, inside : Evaluate(e, t, true, inside).heard = {t}
    /\ \A e, skew : Rebased(e, skew).heard = {t - skew : t \in e.heard}
BY DEF FreshEngine, ForgetZones, Evaluate, Rebased

LEMMA DeviceFields ==
    /\ NoDevice.engine = FreshEngine /\ NoDevice.skew = 0
    /\ \A u, skew : NewDevice(u, skew).engine = engine[u] /\ NewDevice(u, skew).skew = skew
BY DEF NoDevice, NewDevice

LEMMA ClocksInit == Init => Clocks
BY EngineHeard, DeviceFields DEF Init, Clocks

LEMMA EndSessionClocks ==
    ASSUME NEW u \in Users, Clocks, EndSession(u), now' = now
    PROVE  Clocks'
BY EngineHeard, DeviceFields DEF Clocks, EndSession

LEMMA ClocksNext == Clocks /\ [Next]_vars => Clocks'
<1> SUFFICES ASSUME Clocks, [Next]_vars PROVE Clocks'
    OBVIOUS
<1>1. CASE Tick
      BY <1>1 DEF Clocks, Tick, agents
<1>2. ASSUME NEW u \in Users, StartSharing(u) PROVE Clocks'
      BY <1>2, EngineHeard DEF Clocks, StartSharing, agents
<1>3. ASSUME NEW u \in Users, StopSharing(u) PROVE Clocks'
      BY <1>3, EndSessionClocks DEF StopSharing
<1>4. ASSUME NEW u \in Users, EraseHistory(u) \/ ResolveAlert(u) PROVE Clocks'
      BY <1>4 DEF Clocks, EraseHistory, ResolveAlert, tracked, agents
<1>5. ASSUME NEW u \in Users, Reconnect(u) PROVE Clocks'
  <2>1. /\ now' = now
        /\ engine' = [engine EXCEPT ![u] = Rebased(device[u].engine, device[u].skew)]
        /\ device' = [device EXCEPT ![u] = NoDevice]
        BY <1>5 DEF Reconnect
  <2>2. Rebased(device[u].engine, device[u].skew).heard \subseteq Int
        BY EngineHeard DEF Clocks
  <2> QED BY <2>1, <2>2, EngineHeard, DeviceFields DEF Clocks
<1>6. ASSUME NEW u \in Users, NEW value \in BOOLEAN, SetConsent(u, value) \/ SetActive(u, value)
      PROVE  Clocks'
  <2>1. now' = now /\ (EndSession(u) \/ UNCHANGED <<engine, device>>)
        BY <1>6 DEF SetConsent, SetActive, Sessions, tracked, agents
  <2> QED BY <2>1, EndSessionClocks DEF Clocks
<1>7. ASSUME NEW u \in Users, NEW value \in BOOLEAN, DeviceFix(u, value) PROVE Clocks'
  <2>1. PICK q : /\ now' = now /\ engine' = engine
                 /\ device' = [device EXCEPT ![u] =
                       [queue |-> q, skew |-> device[u].skew,
                        engine |-> Evaluate(device[u].engine, now + device[u].skew, now, value)]]
        BY <1>7 DEF DeviceFix, tracked
  <2>2. now + device[u].skew \in Int
        BY DEF Clocks
  <2> QED BY <2>1, <2>2, EngineHeard DEF Clocks
<1>8. ASSUME NEW u \in Users, NEW value \in BatterySettings, SetBatteryAware(u, value) PROVE Clocks'
      BY <1>8 DEF Clocks, SetBatteryAware, tracked, agents
<1>9. ASSUME NEW u \in Users, NEW skew \in Skews, GoOffline(u, skew) PROVE Clocks'
      BY <1>9, DeviceFields, TrackingAssumption DEF Clocks, GoOffline, tracked, TrackingAssumption
<1>10. ASSUME NEW u \in Users, NEW t, NEW seq, NEW moved, RecordLate(u, t, seq, moved)
       PROVE  Clocks'
      BY <1>10 DEF Clocks, RecordLate, agents
<1>11. ASSUME NEW u \in Users, NEW t \in FixTimes, NEW seq, NEW moved, NEW inside,
              AcceptFix(u, t, seq, moved, inside)
       PROVE  Clocks'
  <2>1. t \in Int
        BY TrackingAssumption DEF FixTimes, TrackingAssumption
  <2> QED BY <1>11, <2>1, EngineHeard DEF Clocks, AcceptFix, agents
<1>12. CASE UNCHANGED vars
      BY <1>12 DEF Clocks, vars, tracked, agents
<1> QED BY <1>1, <1>2, <1>3, <1>4, <1>5, <1>6, <1>7, <1>8, <1>9, <1>10, <1>11, <1>12 DEF Next

-----------------------------------------------------------------------------
(* Silence: a tracked user's open alert means that the signal is lost still. *)
Silence ==
    \A u \in sharing \cap hasFix :
        open[u] # {} => /\ anomaly[u] = "SignalLost"
                        /\ \A t \in engine[u].heard : now - t > SignalGap

Domains == DOMAIN open = Users /\ DOMAIN signal = Users /\ DOMAIN anomaly = Users

Contact == Clocks /\ Domains /\ battery = {} /\ sharing \subseteq Users /\ SignalAnswered /\ Silence

LEMMA ContactInit == Init => Contact
BY ClocksInit DEF Contact, Domains, Init, SignalAnswered, Silence

(* Whoever stops sharing keeps the alert, and is no longer tracked. *)
LEMMA EndSessionContact ==
    ASSUME NEW u \in Users, Contact, EndSession(u), now' = now, open' = open, battery' = battery, Clocks'
    PROVE  Contact'
<1>1. /\ sharing' = sharing \ {u} /\ hasFix' = hasFix /\ anomaly' = anomaly /\ signal' = signal
      /\ engine' = [engine EXCEPT ![u] = ForgetZones(engine[u])]
      BY DEF EndSession
<1> QED BY <1>1 DEF Contact, Domains, SignalAnswered, Silence, Clocks

LEMMA TickContact ==
    ASSUME Contact, Tick, Clocks'
    PROVE  Contact'
<1>1. PICK found \in [Users -> {"None", "SignalLost", "Other"}] :
        /\ \A u \in Users : found[u] \in Detected(u, now + 1)
        /\ anomaly' = found
        /\ signal' = [u \in Users |-> IF NewlyLost(anomaly[u], found[u]) THEN {now + 1} ELSE signal[u]]
        /\ open' = [u \in Users |-> IF NewlyLost(anomaly[u], found[u]) THEN open[u] \cup {now + 1}
                                    ELSE open[u]]
      BY DEF Tick
<1>2. /\ now' = now + 1 /\ sharing' = sharing /\ battery' = battery
      /\ hasFix' = hasFix /\ engine' = engine
      BY DEF Tick, user
<1>3. ASSUME NEW u \in Users
      PROVE  SignalLost(u, now + 1) <=> \A t \in engine[u].heard : (now + 1) - t > SignalGap
  <2>1. Gap(u) = SignalGap
        BY DEF Contact, Gap
  <2> QED BY <2>1, Zenon DEF SignalLost
<1>4. ASSUME NEW u \in Users, NewlyLost(anomaly[u], found[u])
      PROVE  /\ u \in sharing \cap hasFix /\ open[u] = {} /\ found[u] = "SignalLost"
             /\ \A t \in engine[u].heard : (now + 1) - t > SignalGap
  <2>1. found[u] = "SignalLost" /\ anomaly[u] # "SignalLost"
        BY <1>4 DEF NewlyLost
  <2>2. u \in sharing \cap hasFix /\ SignalLost(u, now + 1)
        BY <1>1, <2>1 DEF Detected
  <2>3. open[u] = {}
        BY <2>1, <2>2 DEF Contact, Silence
  <2> QED BY <1>3, <2>1, <2>2, <2>3
<1>5. SignalAnswered'
      BY <1>1, <1>4 DEF Contact, SignalAnswered
<1>6. ASSUME NEW u \in Users, u \in sharing \cap hasFix, open[u] # {}
      PROVE  found[u] = "SignalLost" /\ \A t \in engine[u].heard : (now + 1) - t > SignalGap
  <2>1. \A t \in engine[u].heard : t \in Int /\ now - t > SignalGap
        BY <1>6 DEF Contact, Silence, Clocks
  <2>2. \A t \in engine[u].heard : (now + 1) - t > SignalGap
        BY <2>1, TrackingAssumption DEF Contact, Clocks, TrackingAssumption
  <2>3. SignalLost(u, now + 1)
        BY <2>2, <1>3 DEF Contact
  <2> QED BY <1>1, <1>6, <2>2, <2>3 DEF Detected
<1>7. Silence'
  <2>1. ASSUME NEW u \in Users, u \in sharing \cap hasFix, open'[u] # {}
        PROVE  /\ anomaly'[u] = "SignalLost"
               /\ \A t \in engine'[u].heard : now' - t > SignalGap
    <3>1. CASE NewlyLost(anomaly[u], found[u])
          BY <1>1, <1>2, <1>4, <3>1
    <3>2. CASE ~NewlyLost(anomaly[u], found[u])
          BY <1>1, <1>2, <1>6, <2>1, <3>2
    <3> QED BY <3>1, <3>2
  <2> QED BY <1>2, <2>1 DEF Contact, Silence
<1> QED BY <1>1, <1>2, <1>5, <1>7 DEF Contact, Domains

LEMMA ContactNext ==
    ASSUME BatterySettings \subseteq {FALSE}
    PROVE  Contact /\ [Next]_vars => Contact'
<1> SUFFICES ASSUME Contact, [Next]_vars PROVE Contact'
    OBVIOUS
<1>0. Clocks'
      BY ClocksNext DEF Contact
<1>1. CASE Tick
      BY <1>0, <1>1, TickContact
<1>2. ASSUME NEW u \in Users, StartSharing(u) PROVE Contact'
      BY <1>0, <1>2 DEF Contact, Domains, SignalAnswered, Silence, Clocks, StartSharing
<1>3. ASSUME NEW u \in Users, StopSharing(u) PROVE Contact'
      BY <1>0, <1>3, EndSessionContact DEF StopSharing
<1>4. ASSUME NEW u \in Users, EraseHistory(u) PROVE Contact'
      BY <1>0, <1>4 DEF Contact, Domains, SignalAnswered, Silence, EraseHistory, user
<1>5. ASSUME NEW u \in Users, ResolveAlert(u) PROVE Contact'
      BY <1>0, <1>5 DEF Contact, Domains, SignalAnswered, Silence, ResolveAlert, user, tracked
<1>6. ASSUME NEW u \in Users, Reconnect(u) PROVE Contact'
  <2>1. /\ now' = now /\ sharing' = sharing /\ battery' = battery
        /\ hasFix' = hasFix \cup {u}
        /\ open' = [open EXCEPT ![u] = open[u] \ signal[u]]
        /\ signal' = [signal EXCEPT ![u] = {}]
        /\ anomaly' = [anomaly EXCEPT ![u] = "None"]
        BY <1>6 DEF Reconnect, Answered
  <2>2. \A v \in Users : v # u => engine'[v] = engine[v]
        BY <1>6 DEF Reconnect, Contact, Clocks
  <2> QED BY <1>0, <2>1, <2>2 DEF Contact, Domains, SignalAnswered, Silence
<1>7. ASSUME NEW u \in Users, NEW value \in BOOLEAN, SetConsent(u, value) \/ SetActive(u, value)
      PROVE  Contact'
  <2>1. /\ now' = now /\ open' = open /\ battery' = battery
        /\ EndSession(u) \/ UNCHANGED <<sharing, tracked>>
        BY <1>7 DEF SetConsent, SetActive, Sessions
  <2> QED BY <1>0, <2>1, EndSessionContact DEF Contact, Domains, SignalAnswered, Silence, tracked
<1>8. ASSUME NEW u \in Users, NEW value \in BOOLEAN, DeviceFix(u, value) PROVE Contact'
      BY <1>0, <1>8 DEF Contact, Domains, SignalAnswered, Silence, DeviceFix, user, tracked
<1>9. ASSUME NEW u \in Users, NEW value \in BatterySettings, SetBatteryAware(u, value) PROVE Contact'
  <2>1. value = FALSE
        OBVIOUS
  <2> QED BY <1>0, <1>9, <2>1 DEF Contact, Domains, SignalAnswered, Silence, SetBatteryAware, tracked
<1>10. ASSUME NEW u \in Users, NEW skew \in Skews, GoOffline(u, skew) PROVE Contact'
      BY <1>0, <1>10 DEF Contact, Domains, SignalAnswered, Silence, GoOffline, tracked
<1>11. ASSUME NEW u \in Users, NEW t, NEW seq, NEW moved, RecordLate(u, t, seq, moved)
       PROVE  Contact'
      BY <1>0, <1>11 DEF Contact, Domains, SignalAnswered, Silence, RecordLate, user
<1>12. ASSUME NEW u \in Users, NEW t \in FixTimes, NEW seq, NEW moved, NEW inside,
              AcceptFix(u, t, seq, moved, inside)
       PROVE  Contact'
  <2>1. /\ now' = now /\ sharing' = sharing /\ battery' = battery
        /\ hasFix' = hasFix \cup {u}
        /\ open' = [open EXCEPT ![u] = open[u] \ signal[u]]
        /\ signal' = [signal EXCEPT ![u] = {}]
        /\ DOMAIN anomaly' = DOMAIN anomaly
        /\ \A v \in Users : v # u => anomaly'[v] = anomaly[v] /\ engine'[v] = engine[v]
        BY <1>12 DEF AcceptFix, Answered, user, Contact, Clocks, Domains
  <2> QED BY <1>0, <2>1 DEF Contact, Domains, SignalAnswered, Silence
<1>13. CASE UNCHANGED vars
      BY <1>0, <1>13 DEF Contact, Domains, SignalAnswered, Silence, vars, user, tracked
<1> QED BY <1>1, <1>2, <1>3, <1>4, <1>5, <1>6, <1>7, <1>8, <1>9, <1>10, <1>11, <1>12, <1>13 DEF Next

(* As long as nobody turns battery_aware on, an open signal-lost alert is   *)
(* the one the next contact resolves (detect_anomalies, ingest_fix,         *)
(* reconnect, start_sharing).  The hypothesis is needed: a longer gap ends  *)
(* the anomaly and leaves its alert open.                                   *)
THEOREM SignalIsAnswered ==
    ASSUME BatterySettings \subseteq {FALSE}
    PROVE  Spec => []SignalAnswered
<1>1. Contact => SignalAnswered
      BY DEF Contact
<1> QED BY <1>1, ContactInit, ContactNext, PTL DEF Spec

-----------------------------------------------------------------------------
(* Naturals, and functions defined step by step.                            *)

(* Every set of natural numbers with an element has a least one.            *)
LEMMA LeastNatural ==
    ASSUME NEW T \in SUBSET Nat, T # {}
    PROVE  \E x \in T : \A y \in T : x <= y
<1> DEFINE R0 == {p \in Nat \X Nat : p[1] < p[2]}
<1>1. R0 = OpToRel(<, Nat)
      BY DEF OpToRel
<1>2. IsWellFoundedOn(R0, Nat)
      BY <1>1, NatLessThanWellFounded
<1> HIDE DEF R0
<1>3. PICK x \in T : \A y \in T : ~(<<y, x>> \in R0)
      BY <1>2, WFMin
<1>4. ASSUME NEW y \in T, y < x PROVE FALSE
  <2>1. <<y, x>> \in R0
        BY <1>4 DEF R0
  <2> QED BY <1>3, <2>1
<1> QED BY <1>4

(* What 0 has and each natural number passes on, all have.                  *)
LEMMA StepByStep ==
    ASSUME NEW T, 0 \in T, \A n \in Nat : n \in T => n + 1 \in T
    PROVE  Nat \subseteq T
<1> DEFINE left == Nat \ T
<1> SUFFICES ASSUME left # {} PROVE FALSE
    OBVIOUS
<1>1. PICK x \in left : \A y \in left : x <= y
  <2>1. left \in SUBSET Nat
        OBVIOUS
  <2> HIDE DEF left
  <2> QED BY <2>1, LeastNatural
<1>2. x \in Nat /\ x # 0
      OBVIOUS
<1>3. x - 1 \in Nat /\ ~(x <= x - 1) /\ (x - 1) + 1 = x
      BY <1>2
<1>4. x - 1 \notin left
      BY <1>1, <1>3
<1>5. x - 1 \in T
      BY <1>3, <1>4
<1> QED BY <1>3, <1>5

(* The last of some positions is one of them. *)
LEMMA MaxFact ==
    ASSUME NEW n \in Nat, NEW S \in SUBSET (1..n), S # {}
    PROVE  Max(S) \in S /\ \A y \in S : y <= Max(S)
<1> DEFINE over == {n - y : y \in S}
<1>1. \A x \in S : x \in 1..n
      OBVIOUS
<1>2. over \in SUBSET Nat /\ over # {}
  <2>1. \A y \in S : n - y \in Nat
        BY <1>1
  <2> QED BY <2>1
<1>3. PICK x \in over : \A y \in over : x <= y
  <2> HIDE DEF over
  <2> QED BY <1>2, LeastNatural
<1>4. PICK m \in S : x = n - m
      OBVIOUS
<1>5. ASSUME NEW y \in S PROVE m >= y
  <2>1. n - m <= n - y
        BY <1>3, <1>4
  <2> QED BY <1>1, <2>1
<1>6. Max(S) \in S /\ \A y \in S : Max(S) >= y
      BY <1>5 DEF Max
<1>7. PICK k : k = Max(S)
      OBVIOUS
<1>8. k \in 1..n /\ \A y \in S : y \in 1..n /\ k >= y
      BY <1>1, <1>6, <1>7
<1>9. \A y \in S : y <= k
      BY <1>8
<1> QED BY <1>6, <1>7, <1>9

(* Functions defined step by step exist. *)
Iterates(g, x, f, n) == \A d \in 0..n : g[d] = IF d = 0 THEN x ELSE f[<<d, g[d - 1]>>]

LEMMA IterationExists ==
    ASSUME NEW S, NEW x \in S, NEW n \in Nat, NEW f \in [(1..n) \X S -> S]
    PROVE  \E g \in [0..n -> S] : Iterates(g, x, f, n)
<1> DEFINE T == {m \in Nat : m <= n => \E g \in [0..m -> S] : Iterates(g, x, f, m)}
<1>1. 0 \in T
  <2> DEFINE g == [d \in 0..0 |-> x]
  <2>1. g \in [0..0 -> S] /\ \A d \in 0..0 : g[d] = x /\ d = 0
        OBVIOUS
  <2> HIDE DEF g
  <2>2. Iterates(g, x, f, 0)
        BY <2>1 DEF Iterates
  <2> QED BY <2>1, <2>2
<1>2. ASSUME NEW m \in Nat, m \in T PROVE m + 1 \in T
  <2> SUFFICES ASSUME m + 1 <= n PROVE \E g \in [0..(m + 1) -> S] : Iterates(g, x, f, m + 1)
      OBVIOUS
  <2>1. PICK h \in [0..m -> S] : Iterates(h, x, f, m)
        BY <1>2
  <2> DEFINE g == [d \in 0..(m + 1) |-> IF d = m + 1 THEN f[<<m + 1, h[m]>>] ELSE h[d]]
  <2>2. f[<<m + 1, h[m]>>] \in S
    <3>1. h[m] \in S /\ m + 1 \in 1..n
          OBVIOUS
    <3> QED BY <3>1
  <2>3. g \in [0..(m + 1) -> S]
    <3>1. ASSUME NEW d \in 0..(m + 1), d # m + 1 PROVE h[d] \in S
      <4>1. d \in 0..m
            BY <3>1
      <4> QED BY <4>1
    <3> QED BY <2>2, <3>1
  <2>4. ASSUME NEW d \in 0..(m + 1) PROVE g[d] = IF d = 0 THEN x ELSE f[<<d, g[d - 1]>>]
    <3>1. CASE d = m + 1
      <4>1. m \in 0..(m + 1) /\ m # m + 1 /\ d - 1 = m /\ d # 0
            BY <3>1
      <4>2. g[m] = h[m] /\ g[d] = f[<<d, h[m]>>]
            BY <3>1, <4>1
      <4> HIDE DEF g
      <4> QED BY <4>1, <4>2
    <3>2. CASE d # m + 1
      <4>1. d \in 0..m /\ d - 1 # m + 1 /\ (d # 0 => d - 1 \in 0..(m + 1))
            BY <3>2
      <4>2. g[d] = h[d] /\ (d # 0 => g[d - 1] = h[d - 1])
            BY <3>2, <4>1
      <4> HIDE DEF g
      <4> QED BY <2>1, <4>1, <4>2 DEF Iterates
    <3> QED BY <3>1, <3>2
  <2> HIDE DEF g
  <2>5. Iterates(g, x, f, m + 1)
        BY <2>4 DEF Iterates
  <2> QED BY <2>3, <2>5
<1> HIDE DEF T
<1>3. Nat \subseteq T
      BY <1>1, <1>2, StepByStep
<1>4. n \in T
      BY <1>3
<1> QED BY <1>4 DEF T

-----------------------------------------------------------------------------
(* Merge goes through the batch item by item.                               *)
Held(known, I) == [seen : SUBSET (known \cup {Key(x) : x \in I}), admitted : Seq(I)]

Admitted(acc, item) ==
    IF Key(item) \in acc.seen THEN acc
    ELSE [seen |-> acc.seen \cup {Key(item)}, admitted |-> Append(acc.admitted, item)]

(* One item admitted, or not.                                               *)
LEMMA AdmittedFact ==
    ASSUME NEW I, NEW known, NEW acc \in Held(known, I), NEW item \in I
    PROVE  Admitted(acc, item) \in Held(known, I)
BY DEF Held, Admitted

(* The batch item by item, and what Merge makes of it.                      *)
MergedBy(c, batch, known, I) ==
    /\ c[0] = [seen |-> known, admitted |-> <<>>]
    /\ \A n \in 1..Len(batch) : c[n] = Admitted(c[n - 1], batch[n])
    /\ \A n \in 0..Len(batch) : c[n] \in Held(known, I)
    /\ Merge(batch, known) = c[Len(batch)]

(* There is such a sequence of steps.                                       *)
LEMMA MergeSolved ==
    ASSUME NEW I, NEW known, NEW batch \in Seq(I)
    PROVE  \E c : MergedBy(c, batch, known, I)
<1> DEFINE N == Len(batch)
           S == Held(known, I)
           x0 == [seen |-> known, admitted |-> <<>>]
           f == [x \in (1..N) \X S |-> Admitted(x[2], batch[x[1]])]
           Solves(c) == c = [n \in 0..N |->
                              IF n = 0 THEN x0
                              ELSE IF Key(batch[n]) \in c[n - 1].seen THEN c[n - 1]
                              ELSE [seen |-> c[n - 1].seen \cup {Key(batch[n])},
                                    admitted |-> Append(c[n - 1].admitted, batch[n])]]
           c == CHOOSE c : Solves(c)
<1>1. N \in Nat /\ x0 \in S /\ \A n \in 1..N : batch[n] \in I
      BY DEF Held
<1>2. f \in [(1..N) \X S -> S]
  <2> HIDE DEF N, S
  <2>1. \A x \in (1..N) \X S : x[1] \in 1..N /\ x[2] \in S
        OBVIOUS
  <2>2. \A x \in (1..N) \X S : Admitted(x[2], batch[x[1]]) \in S
        BY <1>1, <2>1, AdmittedFact DEF S
  <2> QED BY <2>2
<1>3. PICK g \in [0..N -> S] : Iterates(g, x0, f, N)
  <2> HIDE DEF S, f, N, x0
  <2> QED BY <1>1, <1>2, IterationExists
<1> HIDE DEF x0
<1>4. \A n \in 0..N : g[n] = IF n = 0 THEN x0 ELSE Admitted(g[n - 1], batch[n])
  <2> SUFFICES ASSUME NEW n \in 0..N, n # 0 PROVE g[n] = Admitted(g[n - 1], batch[n])
      BY <1>3 DEF Iterates
  <2>1. n \in 1..N /\ n - 1 \in 0..N
        BY <1>1
  <2>2. g[n - 1] \in S
        BY <2>1
  <2>3. f[<<n, g[n - 1]>>] = Admitted(g[n - 1], batch[n])
        BY <2>1, <2>2
  <2> QED BY <1>3, <2>3 DEF Iterates
<1>5. Solves(g)
  <2> HIDE DEF S, f
  <2> QED BY <1>4 DEF Admitted
<1>6. Solves(c)
  <2> HIDE DEF Solves
  <2> QED BY <1>5
<1>7. Merge(batch, known) = c[N]
      BY DEF Merge, x0
<1> HIDE DEF c
<1>8. c[0] = x0 /\ \A n \in 1..N : c[n] = Admitted(c[n - 1], batch[n])
  <2>1. c[0] = x0
        BY <1>1, <1>6
  <2>2. ASSUME NEW n \in 1..N PROVE c[n] = Admitted(c[n - 1], batch[n])
    <3>1. n \in 0..N /\ n # 0
          BY <1>1
    <3> QED BY <1>6, <3>1 DEF Admitted
  <2> QED BY <2>1, <2>2
<1> HIDE DEF Solves
<1>9. ASSUME NEW n \in 1..N, c[n - 1] \in S PROVE c[n] \in S
      BY <1>1, <1>8, <1>9, AdmittedFact
<1>10. \A n \in 0..N : c[n] \in S
  <2> DEFINE T == {m \in Nat : m <= N => c[m] \in S}
  <2> HIDE DEF S, N
  <2>1. 0 \in T
        BY <1>1, <1>8
  <2>2. ASSUME NEW m \in Nat, m \in T PROVE m + 1 \in T
    <3> SUFFICES ASSUME m + 1 <= N PROVE c[m + 1] \in S
        OBVIOUS
    <3>1. c[m] \in S /\ m + 1 \in 1..N /\ (m + 1) - 1 = m
          BY <1>1, <2>2
    <3> QED BY <1>9, <3>1
  <2>3. Nat \subseteq T
    <3> HIDE DEF T
    <3> QED BY <2>1, <2>2, StepByStep
  <2> QED BY <1>1, <2>3
<1> QED BY <1>7, <1>8, <1>10 DEF x0, MergedBy

(* Nothing is held afterwards but what was held and what the batch has. *)
LEMMA MergeSeen ==
    ASSUME NEW I, NEW known, NEW batch \in Seq(I)
    PROVE  /\ Merge(batch, known).seen \subseteq known \cup {Key(batch[i]) : i \in 1..Len(batch)}
           /\ Merge(batch, known).admitted \in Seq(I)
<1> DEFINE J == {batch[i] : i \in 1..Len(batch)}
<1>1. batch \in Seq(J)
      OBVIOUS
<1>2. PICK c : MergedBy(c, batch, known, J)
  <2> HIDE DEF J
  <2> QED BY <1>1, MergeSolved
<1>3. Merge(batch, known) \in Held(known, J)
      BY <1>2 DEF MergedBy
<1>4. Merge(batch, known).seen \subseteq known \cup {Key(x) : x \in J}
      BY <1>3 DEF Held
<1>5. Merge(batch, known).admitted \in Seq(I)
  <2>1. PICK d : MergedBy(d, batch, known, I)
        BY MergeSolved
  <2> QED BY <2>1 DEF Held, MergedBy
<1> QED BY <1>4, <1>5

(* A batch whose items are new to the server, and told apart by their       *)
(* stamps, is admitted whole.                                               *)
LEMMA MergeFresh ==
    ASSUME NEW I, NEW known, NEW batch \in Seq(I),
           \A i \in 1..Len(batch) : Key(batch[i]) \notin known,
           \A i, j \in 1..Len(batch) : Key(batch[i]) = Key(batch[j]) => i = j
    PROVE  Merge(batch, known).admitted = batch
<1>0. PICK c : MergedBy(c, batch, known, I)
      BY MergeSolved
<1>1. /\ c[0] = [seen |-> known, admitted |-> <<>>]
      /\ \A n \in 1..Len(batch) : c[n] = Admitted(c[n - 1], batch[n])
      /\ \A n \in 0..Len(batch) : c[n] \in Held(known, I)
      /\ Merge(batch, known) = c[Len(batch)]
      BY <1>0 DEF MergedBy
<1> DEFINE N == Len(batch)
           P(n) == /\ Len(c[n].admitted) = n
                   /\ \A i \in 1..n : c[n].admitted[i] = batch[i]
                   /\ \A s \in c[n].seen : s \in known \/ \E i \in 1..n : s = Key(batch[i])
           T == {n \in Nat : n <= N => P(n)}
<1>2. N \in Nat
      OBVIOUS
<1>3. 0 \in T
  <2>1. c[0].admitted = <<>> /\ c[0].seen = known
        BY <1>1
  <2> QED BY <2>1
<1>4. ASSUME NEW n \in Nat, n \in T PROVE n + 1 \in T
  <2> SUFFICES ASSUME n + 1 <= N PROVE P(n + 1)
      OBVIOUS
  <2>1. /\ n \in 0..N /\ n + 1 \in 1..N /\ (n + 1) - 1 = n
        /\ P(n)
        BY <1>2, <1>4
  <2>2. Key(batch[n + 1]) \notin c[n].seen
    <3> SUFFICES ASSUME Key(batch[n + 1]) \in c[n].seen PROVE FALSE
        OBVIOUS
    <3>1. PICK i \in 1..n : Key(batch[n + 1]) = Key(batch[i])
          BY <2>1
    <3>2. i \in 1..N /\ i # n + 1
          BY <2>1
    <3> QED BY <2>1, <3>1, <3>2
  <2>3. /\ c[n + 1].seen = c[n].seen \cup {Key(batch[n + 1])}
        /\ c[n + 1].admitted = Append(c[n].admitted, batch[n + 1])
    <3>1. c[n + 1] = Admitted(c[n], batch[n + 1])
          BY <1>1, <2>1
    <3>2. PICK acc, item : acc = c[n] /\ item = batch[n + 1]
          OBVIOUS
    <3> HIDE DEF N, T, P
    <3>3. Admitted(acc, item) = [seen |-> acc.seen \cup {Key(item)}, admitted |-> Append(acc.admitted, item)]
          BY <2>2, <3>2 DEF Admitted
    <3> QED BY <3>1, <3>2, <3>3
  <2>4. c[n].admitted \in Seq(I) /\ batch[n + 1] \in I
        BY <1>1, <2>1 DEF Held
  <2>5. Len(c[n + 1].admitted) = n + 1 /\ \A i \in 1..(n + 1) : c[n + 1].admitted[i] = batch[i]
        BY <2>1, <2>3, <2>4
  <2>6. ASSUME NEW s \in c[n + 1].seen PROVE s \in known \/ \E i \in 1..(n + 1) : s = Key(batch[i])
    <3>1. \A i \in 1..n : i \in 1..(n + 1)
          BY <2>1
    <3>2. n + 1 \in 1..(n + 1)
          BY <2>1
    <3> QED BY <2>1, <2>3, <3>1, <3>2
  <2> QED BY <2>5, <2>6
<1>5. Nat \subseteq T
  <2> HIDE DEF T
  <2> QED BY <1>3, <1>4, StepByStep
<1>6. P(N)
      BY <1>2, <1>5
<1>7. c[N] \in Held(known, I)
      BY <1>1, <1>2
<1>8. c[N].admitted \in Seq(I)
      BY <1>7 DEF Held
<1> QED BY <1>1, <1>6, <1>8, SeqEqual

(* What a device queues.                                                    *)
Payloads == [kind : {"Fix", "Enter", "Exit"}, t : Int]
QueueItems == [stamp : Nat \X Nat, payload : Payloads]

(* A device's queue: it stamped its items 1, 2, ... with its own id.        *)
Queued(q, u) ==
    /\ q.items \in Seq(QueueItems) /\ q.counter = Len(q.items) /\ q.device = u + 1
    /\ \A i \in 1..Len(q.items) : q.items[i].stamp = <<i, u + 1>>

(* One more item is stamped with the next count.                            *)
LEMMA EnqueueFact ==
    ASSUME NEW u \in Users, NEW q, Queued(q, u), NEW p \in Payloads
    PROVE  /\ Queued(Enqueue(q, p), u)
           /\ \E item \in QueueItems : item.payload = p /\ Enqueue(q, p).items = Append(q.items, item)
<1>1. u \in Nat
      BY TrackingAssumption DEF TrackingAssumption
<1>2. PICK L, item : L = Len(q.items) /\ item = [stamp |-> <<L + 1, u + 1>>, payload |-> p]
      OBVIOUS
<1>3. L \in Nat /\ q.items \in Seq(QueueItems)
      BY <1>2 DEF Queued
<1>4. item \in QueueItems /\ item.payload = p /\ item.stamp = <<L + 1, u + 1>>
      BY <1>1, <1>2, <1>3 DEF QueueItems
<1>5. PICK e : e = Enqueue(q, p)
      OBVIOUS
<1>6. e.counter = L + 1 /\ e.device = u + 1 /\ e.items = Append(q.items, item)
      BY <1>2, <1>5 DEF Enqueue, Stamped, Queued
<1>7. e.items \in Seq(QueueItems) /\ Len(e.items) = L + 1
      BY <1>2, <1>3, <1>4, <1>6
<1>8. ASSUME NEW i \in 1..Len(e.items) PROVE e.items[i].stamp = <<i, u + 1>>
  <2>1. CASE i = L + 1
        BY <1>2, <1>3, <1>4, <1>6, <2>1
  <2>2. CASE i # L + 1
    <3>1. i \in 1..L
          BY <1>3, <1>7, <2>2
    <3>2. e.items[i] = q.items[i]
          BY <1>2, <1>3, <1>4, <1>6, <3>1
    <3> QED BY <1>2, <3>1, <3>2 DEF Queued
  <2> QED BY <2>1, <2>2
<1> QED BY <1>4, <1>5, <1>6, <1>7, <1>8 DEF Queued

(* Fixes tell nothing; the last of the events decides. *)
LEMMA LastEventFact ==
    ASSUME NEW items \in Seq(QueueItems), NEW item \in QueueItems
    PROVE  /\ LastEvent(<<>>) = "None"
           /\ item.payload.kind = "Fix" => LastEvent(Append(items, item)) = LastEvent(items)
           /\ item.payload.kind # "Fix" => LastEvent(Append(items, item)) = item.payload.kind
<1> DEFINE N == Len(items)
           more == Append(items, item)
           Events(s) == {i \in DOMAIN s : s[i].payload.kind # "Fix"}
<1>1. N \in Nat /\ DOMAIN items = 1..N
      OBVIOUS
<1>2. Len(more) = N + 1 /\ DOMAIN more = 1..(N + 1) /\ more[N + 1] = item /\ \A i \in 1..N : more[i] = items[i]
      BY <1>1
<1> HIDE DEF more, N
<1>3. LastEvent(<<>>) = "None"
      BY DEF LastEvent
<1>4. ASSUME item.payload.kind = "Fix" PROVE LastEvent(more) = LastEvent(items)
  <2>1. Events(more) = Events(items)
    <3>1. ASSUME NEW i PROVE i \in Events(more) <=> i \in Events(items)
      <4>1. CASE i \in 1..N
        <5>1. i \in 1..(N + 1) /\ more[i] = items[i]
              BY <1>1, <1>2, <4>1
        <5> QED BY <1>1, <1>2, <4>1, <5>1
      <4>2. CASE i = N + 1
            BY <1>1, <1>2, <1>4, <4>2
      <4>3. CASE i \notin 1..N /\ i # N + 1
            BY <1>1, <1>2, <4>3
      <4> QED BY <4>1, <4>2, <4>3
    <3> HIDE DEF Events
    <3> QED BY <3>1
  <2>2. CASE Events(items) = {}
        BY <2>1, <2>2 DEF LastEvent
  <2>3. CASE Events(items) # {}
    <3>1. PICK m : m = Max(Events(items))
          OBVIOUS
    <3>2. Events(items) \in SUBSET (1..N)
          BY <1>1
    <3>3. m \in Events(items)
      <4> HIDE DEF Events
      <4> QED BY <1>1, <2>3, <3>1, <3>2, MaxFact
    <3>4. more[m] = items[m]
          BY <1>1, <1>2, <3>3
    <3>5. LastEvent(items) = items[m].payload.kind
          BY <2>3, <3>1 DEF LastEvent
    <3>6. LastEvent(more) = more[m].payload.kind
          BY <2>1, <2>3, <3>1 DEF LastEvent
    <3> QED BY <3>4, <3>5, <3>6
  <2> QED BY <2>2, <2>3
<1>5. ASSUME item.payload.kind # "Fix" PROVE LastEvent(more) = item.payload.kind
  <2>1. N + 1 \in Events(more)
        BY <1>1, <1>2, <1>5
  <2>2. PICK m : m = Max(Events(more))
        OBVIOUS
  <2>3. Events(more) \in SUBSET (1..(N + 1)) /\ Events(more) # {}
        BY <1>2, <2>1
  <2>4. m \in Events(more) /\ N + 1 <= m
    <3>1. PICK n, E : n = N + 1 /\ E = Events(more)
          OBVIOUS
    <3>2. n \in Nat /\ E \in SUBSET (1..n) /\ E # {} /\ n \in E
          BY <1>1, <2>1, <2>3, <3>1
    <3>3. Max(E) \in E /\ \A y \in E : y <= Max(E)
          BY <3>2, MaxFact
    <3> QED BY <2>2, <3>1, <3>2, <3>3
  <2>5. m = N + 1
        BY <1>1, <2>3, <2>4
  <2>6. LastEvent(more) = more[m].payload.kind
        BY <2>2, <2>3 DEF LastEvent
  <2> QED BY <1>2, <2>5, <2>6
<1> QED BY <1>3, <1>4, <1>5 DEF more

-----------------------------------------------------------------------------
(* A user is told of as the engine has it: the server's, and the device's   *)
(* as soon as the events it queued arrive.  That needs the device's stamps  *)
(* to be new to the server, which they are on the first trip only.          *)
Unheard(u) == \A s \in seen : s[2] # u + 1

Agreed(u) ==
    LET last == LastEvent(device[u].queue.items)
    IN  /\ engine[u].inside <=> u \in told
        /\ u \in offline =>
              (device[u].engine.inside <=> last = "Enter" \/ (last = "None" /\ u \in told))

ToldOf(u) ==
    /\ trips[u] \in Nat /\ engine[u].inside \in BOOLEAN
    /\ u \in offline => /\ trips[u] # 0 /\ Queued(device[u].queue, u)
                        /\ device[u].engine.inside \in BOOLEAN
    /\ u \in told => u \in sharing
    /\ trips[u] = 0 \/ (trips[u] = 1 /\ u \in offline) => Unheard(u)
    /\ trips[u] <= 1 => Agreed(u)

(* The inductive invariant of what the server has been told.                *)
ToldInv ==
    /\ Clocks /\ ConsentGates /\ DOMAIN trips = Users
    /\ \A u \in Users : ToldOf(u)

(* Nobody is inside, nobody is told, nothing is held.                       *)
LEMMA ToldInit == Init => ToldInv
<1> SUFFICES ASSUME Init PROVE ToldInv
    OBVIOUS
<1>1. Clocks /\ ConsentGates
      BY ClocksInit, GatesInit
<1>2. \A u \in Users : ToldOf(u)
  <2> SUFFICES ASSUME NEW u \in Users PROVE ToldOf(u)
      OBVIOUS
  <2>1. /\ trips[u] = 0 /\ engine[u].inside = FALSE /\ offline = {} /\ told = {} /\ seen = {}
        BY DEF Init, FreshEngine
  <2>2. u \notin offline /\ u \notin told
        BY <2>1
  <2>3. Unheard(u)
        BY <2>1 DEF Unheard
  <2>4. Agreed(u)
        BY <2>1, <2>2 DEF Agreed
  <2>5. engine[u].inside \in BOOLEAN
        BY <2>1, Zenon
  <2>6. trips[u] \in Nat
        BY <2>1
  <2> QED BY <2>2, <2>3, <2>4, <2>5, <2>6, Zenon DEF ToldOf
<1> QED BY <1>1, <1>2 DEF ToldInv, Init

(* Whoever a step does not touch stays as told. *)
Untouched(v) ==
    /\ engine'[v] = engine[v] /\ device'[v] = device[v] /\ trips'[v] = trips[v]
    /\ v \in offline' <=> v \in offline
    /\ v \in told' <=> v \in told
    /\ v \in sharing' <=> v \in sharing
    /\ Unheard(v) => Unheard(v)'

(* For whoever a step leaves as he is, what is told stays true.             *)
LEMMA UntouchedFact ==
    ASSUME NEW v \in Users, ToldOf(v), Untouched(v)
    PROVE  ToldOf(v)'
<1>1. Agreed(v) => Agreed(v)'
      BY DEF Untouched, Agreed, LastEvent
<1> QED BY <1>1 DEF Untouched, ToldOf

(* A step of one user leaves the others as they are. *)
LEMMA OneAtATime ==
    ASSUME NEW u \in Users, ToldInv, Clocks', ConsentGates', DOMAIN trips' = Users,
           \A v \in Users : v # u => Untouched(v), ToldOf(u)'
    PROVE  ToldInv'
<1>1. \A v \in Users : v # u => ToldOf(v)'
      BY UntouchedFact DEF ToldInv
<1>2. \A v \in Users : ToldOf(v)'
      BY <1>1
<1> QED BY <1>2 DEF ToldInv

(* A session that ends, online or offline.                                  *)
LEMMA EndSessionTold ==
    ASSUME NEW u \in Users, ToldInv, EndSession(u), UNCHANGED seen, Clocks', ConsentGates'
    PROVE  ToldInv'
<1>1. /\ engine' = [engine EXCEPT ![u] = ForgetZones(engine[u])]
      /\ told' = told \ {u} /\ sharing' = sharing \ {u} /\ offline' = offline \ {u}
      /\ device' = [device EXCEPT ![u] = NoDevice] /\ trips' = trips /\ seen' = seen
      BY DEF EndSession
<1>2. DOMAIN engine = Users /\ DOMAIN device = Users /\ DOMAIN trips = Users /\ ToldOf(u)
      BY DEF ToldInv, Clocks
<1>3. \A v \in Users : v # u => Untouched(v)
      BY <1>1, <1>2 DEF Untouched, Unheard
<1>4. engine'[u].inside = FALSE /\ u \notin offline' /\ u \notin told' /\ trips'[u] = trips[u]
      BY <1>1, <1>2 DEF ForgetZones
<1>5. Unheard(u) => Unheard(u)'
      BY <1>1 DEF Unheard
<1>6. Agreed(u)'
      BY <1>4 DEF Agreed
<1>7. engine'[u].inside \in BOOLEAN
      BY <1>4, Zenon
<1>8. trips'[u] \in Nat /\ (trips'[u] = 0 => Unheard(u)')
      BY <1>2, <1>4, <1>5 DEF ToldOf
<1>9. ToldOf(u)'
      BY <1>4, <1>6, <1>7, <1>8, Zenon DEF ToldOf
<1> QED BY <1>1, <1>2, <1>3, <1>9, OneAtATime

(* A step that touches none of this. *)
LEMMA NothingTold ==
    ASSUME ToldInv, Clocks', ConsentGates',
           UNCHANGED <<engine, device, trips, offline, told, sharing, seen>>
    PROVE  ToldInv'
<1>1. \A v \in Users : Untouched(v)
      BY DEF Untouched, Unheard
<1>2. \A v \in Users : ToldOf(v)'
      BY <1>1, UntouchedFact DEF ToldInv
<1> QED BY <1>2 DEF ToldInv

(* A session that starts.                                                   *)
LEMMA StartTold ==
    ASSUME NEW u \in Users, ToldInv, StartSharing(u), Clocks', ConsentGates'
    PROVE  ToldInv'
<1>1. /\ engine' = [engine EXCEPT ![u] = FreshEngine]
      /\ told' = told /\ sharing' = sharing \cup {u} /\ offline' = offline
      /\ device' = device /\ trips' = trips /\ seen' = seen /\ u \notin sharing
      BY DEF StartSharing, agents
<1>2. /\ DOMAIN engine = Users /\ DOMAIN trips = Users /\ ToldOf(u) /\ offline \subseteq sharing
      BY DEF ToldInv, Clocks, ConsentGates
<1>3. \A v \in Users : v # u => Untouched(v)
      BY <1>1, <1>2 DEF Untouched, Unheard
<1>4. engine'[u].inside = FALSE /\ u \notin offline' /\ u \notin told' /\ trips'[u] = trips[u]
      BY <1>1, <1>2 DEF FreshEngine, ToldOf
<1>5. Unheard(u) => Unheard(u)'
      BY <1>1 DEF Unheard
<1>6. Agreed(u)'
      BY <1>4 DEF Agreed
<1>7. engine'[u].inside \in BOOLEAN
      BY <1>4, Zenon
<1>8. trips'[u] \in Nat /\ (trips'[u] = 0 => Unheard(u)')
      BY <1>2, <1>4, <1>5 DEF ToldOf
<1>9. ToldOf(u)'
      BY <1>4, <1>6, <1>7, <1>8, Zenon DEF ToldOf
<1> QED BY <1>1, <1>2, <1>3, <1>9, OneAtATime

(* A fix the server takes.                                                  *)
LEMMA AcceptTold ==
    ASSUME NEW u \in Users, ToldInv, NEW t, NEW seq, NEW moved, NEW inside \in BOOLEAN,
           AcceptFix(u, t, seq, moved, inside), Clocks', ConsentGates'
    PROVE  ToldInv'
<1>1. /\ engine' = [engine EXCEPT ![u] = Evaluate(engine[u], t, t, inside)]
      /\ told' = IF inside THEN told \cup {u} ELSE told \ {u}
      /\ sharing' = sharing /\ offline' = offline
      /\ device' = device /\ trips' = trips /\ seen' = seen
      BY DEF AcceptFix, user, agents
<1>2. /\ DOMAIN engine = Users /\ DOMAIN trips = Users /\ ToldOf(u)
      BY DEF ToldInv, Clocks
<1>3. u \in sharing /\ u \notin offline
      BY DEF AcceptFix, Admissible
<1>4. \A v \in Users : v # u => Untouched(v)
      BY <1>1, <1>2 DEF Untouched, Unheard
<1>5. Evaluate(engine[u], t, t, inside).inside = inside
      BY DEF Evaluate
<1>6. engine'[u].inside = inside /\ (inside <=> u \in told') /\ u \notin offline' /\ u \in sharing'
      BY <1>1, <1>2, <1>3, <1>5
<1>7. Agreed(u)'
      BY <1>6 DEF Agreed
<1>8. engine'[u].inside \in BOOLEAN
      BY <1>6, Zenon
<1>9. trips'[u] \in Nat /\ (trips'[u] = 0 => Unheard(u)')
      BY <1>1, <1>2 DEF ToldOf, Unheard
<1>10. ToldOf(u)'
      BY <1>6, <1>7, <1>8, <1>9, Zenon DEF ToldOf
<1> QED BY <1>1, <1>2, <1>4, <1>10, OneAtATime

(* A device that goes offline takes the engine with it and starts an empty  *)
(* queue.                                                                   *)
LEMMA GoOfflineTold ==
    ASSUME NEW u \in Users, ToldInv, NEW skew, GoOffline(u, skew), Clocks', ConsentGates'
    PROVE  ToldInv'
<1>1. /\ engine' = engine /\ told' = told /\ sharing' = sharing /\ offline' = offline \cup {u}
      /\ device' = [device EXCEPT ![u] = NewDevice(u, skew)]
      /\ trips' = [trips EXCEPT ![u] = trips[u] + 1] /\ seen' = seen
      BY DEF GoOffline, tracked
<1>2. /\ DOMAIN device = Users /\ DOMAIN trips = Users /\ ToldOf(u) /\ u \notin offline
      BY DEF ToldInv, Clocks, GoOffline
<1>3. \A v \in Users : v # u => Untouched(v)
      BY <1>1, <1>2 DEF Untouched, Unheard
<1>4. PICK n : n = NewDevice(u, skew)
      OBVIOUS
<1>5. n.engine = engine[u] /\ n.queue = EmptyQueue(u + 1)
      BY <1>4 DEF NewDevice, DeviceId
<1>6. Queued(n.queue, u) /\ LastEvent(n.queue.items) = "None"
  <2>1. n.queue.items = <<>> /\ n.queue.counter = 0 /\ n.queue.device = u + 1
        BY <1>5 DEF EmptyQueue
  <2>2. LastEvent(<<>>) = "None"
        BY DEF LastEvent
  <2> QED BY <2>1, <2>2 DEF Queued
<1>7. trips[u] \in Nat /\ trips'[u] = trips[u] + 1 /\ device'[u] = n
      BY <1>1, <1>2, <1>4 DEF ToldOf
<1>8. trips'[u] \in Nat /\ trips'[u] # 0 /\ (trips'[u] <= 1 => trips[u] = 0)
      BY <1>7
<1>9. trips[u] = 0 => Unheard(u) /\ (engine[u].inside <=> u \in told)
      BY <1>2 DEF ToldOf, Agreed
<1>10. engine[u].inside \in BOOLEAN
      BY <1>2 DEF ToldOf
<1>11. trips'[u] = 1 => Unheard(u)'
      BY <1>1, <1>7, <1>8, <1>9 DEF Unheard
<1>12. trips'[u] <= 1 => Agreed(u)'
      BY <1>1, <1>5, <1>6, <1>7, <1>8, <1>9 DEF Agreed
<1>13. u \in told => u \in sharing
      BY <1>2 DEF ToldOf
<1>14. device'[u].engine.inside \in BOOLEAN /\ engine'[u].inside \in BOOLEAN
      BY <1>1, <1>5, <1>7, <1>10, Zenon
<1>15. ToldOf(u)'
  <2>1. Queued(device[u].queue, u)' <=> Queued(device'[u].queue, u)
        BY DEF Queued
  <2> QED BY <1>1, <1>6, <1>7, <1>8, <1>11, <1>12, <1>13, <1>14, <2>1, Zenon DEF ToldOf
<1> QED BY <1>1, <1>2, <1>3, <1>15, OneAtATime

(* The last event in the queue is the one queued last; a fix is none.       *)
LEMMA QueueTells ==
    ASSUME NEW u \in Users, NEW w, Queued(w, u), NEW p \in Payloads
    PROVE  /\ Queued(Enqueue(w, p), u)
           /\ p.kind = "Fix" => LastEvent(Enqueue(w, p).items) = LastEvent(w.items)
           /\ p.kind # "Fix" => LastEvent(Enqueue(w, p).items) = p.kind
<1>1. /\ Queued(Enqueue(w, p), u)
      /\ \E item \in QueueItems : item.payload = p /\ Enqueue(w, p).items = Append(w.items, item)
      BY EnqueueFact
<1>2. PICK item \in QueueItems : item.payload = p /\ Enqueue(w, p).items = Append(w.items, item)
      BY <1>1
<1>3. w.items \in Seq(QueueItems)
      BY DEF Queued
<1>4. /\ item.payload.kind = "Fix" => LastEvent(Append(w.items, item)) = LastEvent(w.items)
      /\ item.payload.kind # "Fix" => LastEvent(Append(w.items, item)) = item.payload.kind
      BY <1>3, LastEventFact
<1> QED BY <1>1, <1>2, <1>4

(* A fix on the device: the queue gets its crossing, if there is one.       *)
LEMMA DeviceFixQueue ==
    ASSUME NEW u \in Users, NEW d, Queued(d.queue, u),
           NEW t \in Int, NEW inside \in BOOLEAN,
           NEW q, q = IF inside = d.engine.inside THEN Enqueue(d.queue, Payload("Fix", t))
                      ELSE Enqueue(Enqueue(d.queue, Payload("Fix", t)), Payload(Crossing(inside), t))
    PROVE  /\ Queued(q, u)
           /\ LastEvent(q.items) = IF inside = d.engine.inside THEN LastEvent(d.queue.items)
                                   ELSE IF inside THEN "Enter" ELSE "Exit"
<1>1. PICK p, w : p = Payload("Fix", t) /\ w = Enqueue(d.queue, p)
      OBVIOUS
<1>2. p \in Payloads /\ p.kind = "Fix"
      BY <1>1 DEF Payload, Payloads
<1>3. Queued(w, u) /\ LastEvent(w.items) = LastEvent(d.queue.items)
      BY <1>1, <1>2, QueueTells
<1>4. PICK e, kind : kind = Crossing(inside) /\ e = Payload(kind, t)
      OBVIOUS
<1>5. kind = IF inside THEN "Enter" ELSE "Exit"
      BY <1>4 DEF Crossing
<1>6. e \in Payloads /\ e.kind = kind /\ kind # "Fix"
      BY <1>4, <1>5 DEF Payload, Payloads
<1>7. Queued(Enqueue(w, e), u) /\ LastEvent(Enqueue(w, e).items) = kind
      BY <1>3, <1>6, QueueTells
<1>8. q = IF inside = d.engine.inside THEN w ELSE Enqueue(w, e)
      BY <1>1, <1>4
<1> QED BY <1>3, <1>5, <1>7, <1>8

(* The device evaluates a fix alone and queues what it saw.                 *)
LEMMA DeviceFixTold ==
    ASSUME NEW u \in Users, ToldInv, NEW inside \in BOOLEAN, DeviceFix(u, inside), Clocks', ConsentGates'
    PROVE  ToldInv'
<1>1. PICK d, t, q, n :
         /\ d = device[u] /\ t = now + d.skew
         /\ q = IF inside = d.engine.inside THEN Enqueue(d.queue, Payload("Fix", t))
                ELSE Enqueue(Enqueue(d.queue, Payload("Fix", t)), Payload(Crossing(inside), t))
         /\ n = [queue |-> q, skew |-> d.skew, engine |-> Evaluate(d.engine, t, now, inside)]
      OBVIOUS
<1>2. /\ u \in offline /\ engine' = engine /\ told' = told /\ sharing' = sharing /\ offline' = offline
      /\ device' = [device EXCEPT ![u] = n]
      /\ trips' = trips /\ seen' = seen
      BY <1>1 DEF DeviceFix, tracked, user
<1>3. /\ DOMAIN device = Users /\ DOMAIN trips = Users /\ ToldOf(u) /\ t \in Int
      BY <1>1 DEF ToldInv, Clocks
<1>4. \A v \in Users : v # u => Untouched(v)
      BY <1>2, <1>3 DEF Untouched, Unheard
<1>5. Queued(d.queue, u) /\ d.engine.inside \in BOOLEAN
      BY <1>1, <1>2, <1>3 DEF ToldOf
<1>6. /\ Queued(q, u)
      /\ LastEvent(q.items) = IF inside = d.engine.inside THEN LastEvent(d.queue.items)
                              ELSE IF inside THEN "Enter" ELSE "Exit"
      BY <1>1, <1>3, <1>5, DeviceFixQueue
<1>7. device'[u] = n /\ n.queue = q /\ n.engine.inside = inside
      BY <1>1, <1>2, <1>3 DEF Evaluate
<1>8. Unheard(u) => Unheard(u)'
      BY <1>2 DEF Unheard
<1>9. Agreed(u) => Agreed(u)'
  <2> SUFFICES ASSUME Agreed(u) PROVE Agreed(u)'
      OBVIOUS
  <2>1. /\ engine[u].inside <=> u \in told
        /\ d.engine.inside <=> \/ LastEvent(d.queue.items) = "Enter"
                               \/ LastEvent(d.queue.items) = "None" /\ u \in told
        BY <1>1, <1>2 DEF Agreed
  <2>2. inside <=> LastEvent(q.items) = "Enter" \/ (LastEvent(q.items) = "None" /\ u \in told)
        BY <1>5, <1>6, <2>1
  <2> QED BY <1>2, <1>7, <2>1, <2>2 DEF Agreed
<1>10. device'[u].engine.inside \in BOOLEAN
       BY <1>7, Zenon
<1>11. ToldOf(u)'
  <2>1. Queued(device[u].queue, u)' <=> Queued(device'[u].queue, u)
        BY DEF Queued
  <2>2. Queued(device'[u].queue, u)
        BY <1>6, <1>7
  <2> QED BY <1>2, <1>3, <1>8, <1>9, <1>10, <2>1, <2>2 DEF ToldOf
<1> QED BY <1>2, <1>3, <1>4, <1>11, OneAtATime

(* Back online on a first trip: all the device queued is new to the server. *)
LEMMA ReconnectTold ==
    ASSUME NEW u \in Users, ToldInv, Reconnect(u), Clocks', ConsentGates'
    PROVE  ToldInv'
<1>1. PICK d, batch, admitted, e :
         /\ d = device[u] /\ batch = d.queue.items
         /\ admitted = Merge(batch, seen).admitted
         /\ e = Rebased(d.engine, d.skew)
      OBVIOUS
<1>2. /\ u \in offline /\ offline' = offline \ {u}
      /\ engine' = [engine EXCEPT ![u] = e]
      /\ device' = [device EXCEPT ![u] = NoDevice]
      /\ sharing' = sharing /\ trips' = trips /\ seen' = Merge(batch, seen).seen
      /\ told' = IF LastEvent(admitted) = "None" THEN told
                 ELSE IF LastEvent(admitted) = "Enter" THEN told \cup {u}
                 ELSE told \ {u}
      BY <1>1 DEF Reconnect
<1>3. /\ DOMAIN engine = Users /\ DOMAIN device = Users /\ DOMAIN trips = Users /\ ToldOf(u)
      /\ offline \subseteq sharing
      BY DEF ToldInv, Clocks, ConsentGates
<1>4. /\ trips[u] \in Nat /\ trips[u] # 0 /\ Queued(d.queue, u) /\ d.engine.inside \in BOOLEAN
      BY <1>1, <1>2, <1>3 DEF ToldOf
<1>5. /\ batch \in Seq(QueueItems)
      /\ \A i \in 1..Len(batch) : Key(batch[i]) = <<i, u + 1>>
      BY <1>1, <1>4 DEF Queued, Key
<1>6. \A s \in seen' : s \in seen \/ s[2] = u + 1
  <2>1. seen' \subseteq seen \cup {Key(batch[i]) : i \in 1..Len(batch)}
        BY <1>2, <1>5, MergeSeen
  <2> QED BY <1>5, <2>1
<1>7. ASSUME NEW v \in Users, v # u PROVE Untouched(v)
  <2>1. Unheard(v) => Unheard(v)'
    <3>1. u \in Nat /\ v \in Nat
          BY TrackingAssumption DEF TrackingAssumption
    <3>2. v + 1 # u + 1
          BY <1>7, <3>1
    <3> QED BY <1>6, <3>2 DEF Unheard
  <2>2. v \in told' <=> v \in told
        BY <1>2, <1>7
  <2> QED BY <1>2, <1>3, <1>7, <2>1, <2>2 DEF Untouched
<1>8. e.inside = d.engine.inside /\ engine'[u] = e /\ u \notin offline' /\ u \in sharing'
      BY <1>1, <1>2, <1>3 DEF Rebased
<1>9. ASSUME trips[u] <= 1 PROVE Agreed(u)'
  <2>1. trips[u] = 1
        BY <1>4, <1>9
  <2>2. Unheard(u) /\ Agreed(u)
        BY <1>2, <1>3, <1>9, <2>1 DEF ToldOf
  <2>3. admitted = batch
    <3>1. \A i \in 1..Len(batch) : Key(batch[i]) \notin seen
      <4>1. \A s \in seen : s[2] # u + 1
            BY <2>2 DEF Unheard
      <4> QED BY <1>5, <4>1
    <3>2. \A i, j \in 1..Len(batch) : Key(batch[i]) = Key(batch[j]) => i = j
          BY <1>5
    <3> QED BY <1>1, <1>5, <3>1, <3>2, MergeFresh
  <2>4. d.engine.inside <=> LastEvent(batch) = "Enter" \/ (LastEvent(batch) = "None" /\ u \in told)
        BY <1>1, <1>2, <2>2 DEF Agreed
  <2>5. e.inside <=> u \in told'
        BY <1>2, <1>8, <2>3, <2>4
  <2> QED BY <1>8, <2>5 DEF Agreed
<1>10. engine'[u].inside \in BOOLEAN
       BY <1>4, <1>8, Zenon
<1>11. trips'[u] \in Nat /\ trips'[u] # 0 /\ (trips'[u] <= 1 => Agreed(u)')
       BY <1>2, <1>4, <1>9
<1>12. ToldOf(u)'
       BY <1>8, <1>10, <1>11, Zenon DEF ToldOf
<1> QED BY <1>2, <1>3, <1>7, <1>12, OneAtATime

(* Every step keeps it.                                                     *)
LEMMA ToldNext == ToldInv /\ [Next]_vars => ToldInv'
<1> SUFFICES ASSUME ToldInv, [Next]_vars PROVE ToldInv'
    OBVIOUS
<1>0. Clocks' /\ ConsentGates'
      BY ClocksNext, GatesNext DEF ToldInv
<1>1. CASE Tick
      BY <1>0, <1>1, NothingTold DEF Tick, user, agents
<1>2. ASSUME NEW u \in Users, StartSharing(u) PROVE ToldInv'
      BY <1>0, <1>2, StartTold
<1>3. ASSUME NEW u \in Users, StopSharing(u) PROVE ToldInv'
      BY <1>0, <1>3, EndSessionTold DEF StopSharing
<1>4. ASSUME NEW u \in Users, EraseHistory(u) \/ ResolveAlert(u) PROVE ToldInv'
      BY <1>0, <1>4, NothingTold DEF EraseHistory, ResolveAlert, user, tracked, agents
<1>5. ASSUME NEW u \in Users, Reconnect(u) PROVE ToldInv'
      BY <1>0, <1>5, ReconnectTold
<1>6. ASSUME NEW u \in Users, NEW value \in BOOLEAN, SetConsent(u, value) \/ SetActive(u, value)
      PROVE  ToldInv'
  <2>1. seen' = seen /\ (EndSession(u) \/ UNCHANGED <<sharing, tracked, agents, told>>)
        BY <1>6 DEF SetConsent, SetActive, Sessions
  <2>2. CASE EndSession(u)
        BY <1>0, <2>1, <2>2, EndSessionTold
  <2>3. CASE UNCHANGED <<sharing, tracked, agents, told>>
        BY <1>0, <2>1, <2>3, NothingTold DEF tracked, agents
  <2> QED BY <2>1, <2>2, <2>3
<1>7. ASSUME NEW u \in Users, NEW value \in BOOLEAN, DeviceFix(u, value) PROVE ToldInv'
      BY <1>0, <1>7, DeviceFixTold
<1>8. ASSUME NEW u \in Users, NEW value \in BatterySettings, SetBatteryAware(u, value) PROVE ToldInv'
      BY <1>0, <1>8, NothingTold DEF SetBatteryAware, tracked, agents
<1>9. ASSUME NEW u \in Users, NEW skew \in Skews, GoOffline(u, skew) PROVE ToldInv'
      BY <1>0, <1>9, GoOfflineTold
<1>10. ASSUME NEW u \in Users, NEW t, NEW seq, NEW moved, RecordLate(u, t, seq, moved)
       PROVE  ToldInv'
      BY <1>0, <1>10, NothingTold DEF RecordLate, user, agents
<1>11. ASSUME NEW u \in Users, NEW t, NEW seq, NEW moved, NEW inside \in BOOLEAN,
              AcceptFix(u, t, seq, moved, inside)
       PROVE  ToldInv'
       BY <1>0, <1>11, AcceptTold
<1>12. CASE UNCHANGED vars
       BY <1>0, <1>12, NothingTold DEF vars, user, tracked, agents
<1> QED BY <1>1, <1>2, <1>3, <1>4, <1>5, <1>6, <1>7, <1>8, <1>9, <1>10, <1>11, <1>12 DEF Next

(* Told and adopted agree for whoever has been offline at most once.        *)
ToldOnFirstTrip == \A u \in Users : trips[u] <= 1 => (engine[u].inside <=> u \in told)

(* As long as a user has gone offline at most once, the engine the server   *)
(* holds has him inside exactly if the last zone event it logged of him     *)
(* says so, whatever was evaluated online and on the device, and whether or *)
(* not he is offline just now (go_offline, device_fix, merge, reconnect). A *)
(* second trip breaks it: its stamps start over and the merge takes its     *)
(* events for copies.                                                       *)
THEOREM FirstTripIsTold == Spec => []ToldOnFirstTrip
<1>1. ToldInv => ToldOnFirstTrip
      BY DEF ToldInv, ToldOf, Agreed, ToldOnFirstTrip
<1> QED BY <1>1, ToldInit, ToldNext, PTL DEF Spec

(* Nobody goes offline more often than the instance allows.                 *)
LEMMA TripsBounded == Spec => [](\A u \in Users : trips[u] \in Nat /\ trips[u] <= MaxTrips)
<1> DEFINE Few == DOMAIN trips = Users /\ \A u \in Users : trips[u] \in Nat /\ trips[u] <= MaxTrips
<1>1. Init => Few
      BY TrackingAssumption DEF Init, TrackingAssumption
<1>2. Few /\ [Next]_vars => Few'
  <2> SUFFICES ASSUME Few, [Next]_vars PROVE Few'
      OBVIOUS
  <2> DEFINE Leaves(u) == trips[u] < MaxTrips /\ trips' = [trips EXCEPT ![u] = trips[u] + 1]
  <2>1. trips' = trips \/ \E u \in Users : Leaves(u)
    <3>1. CASE Tick
          BY <3>1 DEF Tick, agents
    <3>2. ASSUME NEW u \in Users,
                 \/ StartSharing(u) \/ StopSharing(u) \/ EraseHistory(u) \/ ResolveAlert(u) \/ Reconnect(u)
                 \/ \E value \in BOOLEAN : DeviceFix(u, value)
                 \/ \E value \in BatterySettings : SetBatteryAware(u, value)
          PROVE  trips' = trips
          BY <3>2 DEF StartSharing, StopSharing, EndSession, EraseHistory, ResolveAlert, Reconnect,
                      DeviceFix, SetBatteryAware, agents
    <3>3. ASSUME NEW u \in Users, NEW value \in BOOLEAN, SetConsent(u, value) \/ SetActive(u, value)
          PROVE  trips' = trips
          BY <3>3 DEF SetConsent, SetActive, EndSession, Sessions, agents
    <3>4. ASSUME NEW u \in Users, NEW t, NEW seq, NEW moved,
                 RecordLate(u, t, seq, moved) \/ \E inside \in BOOLEAN : AcceptFix(u, t, seq, moved, inside)
          PROVE  trips' = trips
          BY <3>4 DEF RecordLate, AcceptFix, agents
    <3>5. ASSUME NEW u \in Users, NEW skew, GoOffline(u, skew)
          PROVE  Leaves(u)
          BY <3>5 DEF GoOffline
    <3>6. CASE UNCHANGED vars
          BY <3>6 DEF vars, agents
    <3> HIDE DEF Leaves
    <3> QED BY <3>1, <3>2, <3>3, <3>4, <3>5, <3>6 DEF Next
  <2>2. MaxTrips \in Nat
        BY TrackingAssumption DEF TrackingAssumption
  <2> QED BY <2>1, <2>2
<1>3. Few => \A u \in Users : trips[u] \in Nat /\ trips[u] <= MaxTrips
      OBVIOUS
<1> QED BY <1>1, <1>2, <1>3, PTL DEF Spec

(* The property the runs check, where nobody goes offline twice.            *)
THEOREM FirstTripIsAdopted ==
    ASSUME MaxTrips <= 1
    PROVE  Spec => []ToldIsAdopted
<1> DEFINE Few == \A u \in Users : trips[u] \in Nat /\ trips[u] <= MaxTrips
<1>1. Few /\ ToldOnFirstTrip => ToldIsAdopted
      BY TrackingAssumption DEF ToldOnFirstTrip, ToldIsAdopted, TrackingAssumption
<1>2. Spec => []Few
      BY TripsBounded
<1> QED BY <1>1, <1>2, FirstTripIsTold, PTL

-----------------------------------------------------------------------------
(* The binary searches of the trail.                                        *)

(* Where a search may be.                                                   *)
Spans(n) == [first : 0..n, count : 0..n]

(* One halving: what is left shrinks, and still holds the end of a prefix.  *)
LEMMA HalvedFact ==
    ASSUME NEW n \in Nat, NEW below \in SUBSET (1..n), NEW span \in Spans(n)
    PROVE  /\ Halved(span, below) \in Spans(n)
           /\ span.count # 0 => Halved(span, below).count < span.count
           /\ span.count = 0 => Halved(span, below) = span
           /\ \A k \in 0..n : below = 1..k /\ span.first <= k /\ k <= span.first + span.count =>
                 /\ Halved(span, below).first <= k
                 /\ k <= Halved(span, below).first + Halved(span, below).count
<1>1. PICK first, count, half, next : /\ first = span.first /\ count = span.count
                                      /\ half = count \div 2 /\ next = Halved(span, below)
      OBVIOUS
<1>2. first \in 0..n /\ count \in 0..n
      BY <1>1 DEF Spans
<1>3. CASE count = 0
      BY <1>1, <1>3 DEF Halved
<1>4. CASE count # 0
  <2>1. half \in Nat /\ half < count
        BY <1>1, <1>2, <1>4
  <2>2. CASE first + half + 1 \in below
    <3>1. next = [first |-> first + half + 1, count |-> count - half - 1]
          BY <1>1, <1>4, <2>2 DEF Halved
    <3>2. next.first = first + half + 1 /\ next.count = count - half - 1
          BY <3>1
    <3>3. first + half + 1 \in 1..n
          BY <2>2
    <3>4. next \in Spans(n)
          BY <1>2, <2>1, <3>1, <3>3 DEF Spans
    <3>5. \A k \in 0..n : below = 1..k => first + half + 1 <= k
          BY <2>2
    <3> QED BY <1>1, <1>2, <1>4, <2>1, <3>2, <3>4, <3>5
  <2>3. CASE first + half + 1 \notin below
    <3>1. next = [first |-> first, count |-> half]
          BY <1>1, <1>4, <2>3 DEF Halved
    <3>2. next.first = first /\ next.count = half
          BY <3>1
    <3>3. next \in Spans(n)
          BY <1>2, <2>1, <3>1 DEF Spans
    <3>4. \A k \in 0..n : below = 1..k => ~(first + half + 1 <= k)
          BY <1>2, <2>1, <2>3
    <3> QED BY <1>1, <1>2, <1>4, <2>1, <3>2, <3>3, <3>4
  <2> QED BY <2>2, <2>3
<1> QED BY <1>3, <1>4

(* The search, step by step. *)
Searched(c, n, below) ==
    /\ \A d \in 0..n : c[d] \in Spans(n)
    /\ c[0] = [first |-> 0, count |-> n]
    /\ \A d \in Nat : d + 1 <= n => c[d + 1] = Halved(c[d], below)
    /\ PartitionPoint(n, below) = c[n].first

(* There is such a search.                                                  *)
LEMMA SearchSolved ==
    ASSUME NEW n \in Nat, NEW below \in SUBSET (1..n)
    PROVE  \E c : Searched(c, n, below)
<1> DEFINE S == Spans(n)
           x == [first |-> 0, count |-> n]
           f == [a \in (1..n) \X S |-> Halved(a[2], below)]
           Solves(c) == c = [step \in 0 .. n |-> IF step = 0 THEN x ELSE Halved(c[step - 1], below)]
           c == CHOOSE c : Solves(c)
<1>1. x \in S
      BY DEF Spans
<1>2. f \in [(1..n) \X S -> S]
      BY HalvedFact
<1>3. PICK g \in [0..n -> S] : Iterates(g, x, f, n)
  <2> HIDE DEF S, f, x
  <2> QED BY <1>1, <1>2, IterationExists
<1>4. \E y : Solves(y)
  <2>1. ASSUME NEW d \in 0..n
        PROVE  g[d] = IF d = 0 THEN x ELSE Halved(g[d - 1], below)
    <3>1. CASE d = 0
          BY <1>3, <3>1 DEF Iterates
    <3>2. CASE d # 0
      <4>1. d \in 1..n /\ d - 1 \in 0..n
            BY <3>2
      <4>2. g[d - 1] \in S
            BY <4>1
      <4>3. f[<<d, g[d - 1]>>] = Halved(g[d - 1], below)
            BY <4>1, <4>2
      <4>4. g[d] = f[<<d, g[d - 1]>>]
            BY <1>3, <3>2 DEF Iterates
      <4> QED BY <3>2, <4>3, <4>4
    <3> QED BY <3>1, <3>2
  <2> HIDE DEF S, f, x
  <2>2. Solves(g)
        BY <2>1
  <2> QED BY <2>2
<1>5. Solves(c)
  <2> HIDE DEF Solves
  <2> QED BY <1>4
<1>6. PartitionPoint(n, below) = c[n].first
      BY DEF PartitionPoint
<1> HIDE DEF c
<1>7. c[0] = x /\ \A d \in Nat : d + 1 <= n => c[d + 1] = Halved(c[d], below)
  <2>1. c[0] = x
        BY <1>5
  <2>2. ASSUME NEW d \in Nat, d + 1 <= n PROVE c[d + 1] = Halved(c[d], below)
    <3>1. d + 1 \in 0..n /\ d + 1 # 0 /\ (d + 1) - 1 = d
          BY <2>2
    <3> QED BY <1>5, <3>1
  <2> QED BY <2>1, <2>2
<1> HIDE DEF Solves, f
<1> DEFINE T == {d \in Nat : d <= n => c[d] \in Spans(n)}
<1>8. 0 \in T
      BY <1>1, <1>7
<1>9. ASSUME NEW d \in Nat, d \in T PROVE d + 1 \in T
      BY <1>7, <1>9, HalvedFact
<1>10. Nat \subseteq T
  <2> HIDE DEF T
  <2> QED BY <1>8, <1>9, StepByStep
<1>11. \A d \in 0..n : c[d] \in Spans(n)
       BY <1>10
<1>12. Searched(c, n, below)
       BY <1>6, <1>7, <1>11 DEF Searched
<1> QED BY <1>12

(* The search stays within the positions; stepping past 1 .. k, it ends at k. *)
LEMMA SearchFact ==
    ASSUME NEW n \in Nat, NEW below \in SUBSET (1..n)
    PROVE  /\ PartitionPoint(n, below) \in 0..n
           /\ \A k \in 0..n : below = 1..k => PartitionPoint(n, below) = k
<1>1. PICK c : Searched(c, n, below)
      BY SearchSolved
<1>2. /\ \A d \in 0..n : c[d] \in Spans(n)
      /\ c[0] = [first |-> 0, count |-> n]
      /\ \A d \in Nat : d + 1 <= n => c[d + 1] = Halved(c[d], below)
      /\ PartitionPoint(n, below) = c[n].first
      BY <1>1 DEF Searched
<1>3. PartitionPoint(n, below) \in 0..n
  <2>1. c[n] \in Spans(n)
        BY <1>2
  <2> QED BY <1>2, <2>1 DEF Spans
<1>4. ASSUME NEW k \in 0..n, below = 1..k PROVE c[n].first = k
  <2> DEFINE Left(d) == /\ c[d].count <= n - d
                        /\ c[d].first <= k /\ k <= c[d].first + c[d].count
             T == {d \in Nat : d <= n => Left(d)}
  <2>1. 0 \in T
        BY <1>2
  <2>2. ASSUME NEW d \in Nat, d \in T PROVE d + 1 \in T
    <3> SUFFICES ASSUME d + 1 <= n PROVE Left(d + 1)
        OBVIOUS
    <3>1. PICK s, t : s = c[d] /\ t = c[d + 1]
          OBVIOUS
    <3>2. Left(d) /\ t = Halved(s, below) /\ s \in Spans(n)
          BY <1>2, <2>2, <3>1
    <3>3. s.count <= n - d /\ s.first <= k /\ k <= s.first + s.count
          BY <3>1, <3>2
    <3>4. /\ t \in Spans(n) /\ t.first <= k /\ k <= t.first + t.count
          /\ s.count # 0 => t.count < s.count
          /\ s.count = 0 => t = s
          BY <1>4, <3>2, <3>3, HalvedFact
    <3>5. s.count \in 0..n /\ t.count \in 0..n
          BY <3>2, <3>4 DEF Spans
    <3>6. t.count <= n - (d + 1)
          BY <3>3, <3>4, <3>5
    <3> QED BY <3>1, <3>4, <3>6
  <2>3. Nat \subseteq T
    <3> HIDE DEF T
    <3> QED BY <2>1, <2>2, StepByStep
  <2>4. Left(n) /\ c[n] \in Spans(n)
        BY <1>2, <2>3
  <2>5. PICK first, count : first = c[n].first /\ count = c[n].count
        OBVIOUS
  <2>6. first \in 0..n /\ count \in 0..n /\ count <= n - n /\ first <= k /\ k <= first + count
        BY <2>4, <2>5 DEF Spans
  <2> QED BY <2>5, <2>6
<1> QED BY <1>2, <1>3, <1>4

-----------------------------------------------------------------------------
(* Trails.                                                                  *)

(* The points of a trail.                                                   *)
Points == [t : Int, known : Int]

(* The fields of the points of a trail.                                     *)
LEMMA PointsFact ==
    ASSUME NEW s \in Seq(Points)
    PROVE  /\ Len(s) \in Nat /\ DOMAIN s = 1..Len(s)
           /\ \A i \in 1..Len(s) : s[i] \in Points /\ s[i].t \in Int /\ s[i].known \in Int
<1>1. \A i \in 1..Len(s) : s[i] \in Points
      OBVIOUS
<1>2. \A p \in Points : p.t \in Int /\ p.known \in Int
      BY DEF Points
<1> QED BY <1>1, <1>2

(* Times that are in order come up to t in a prefix.                        *)
LEMMA PrefixFact ==
    ASSUME NEW n \in Nat, NEW S \in SUBSET (1..n),
           \A i, j \in 1..n : i < j /\ j \in S => i \in S
    PROVE  \E k \in 0..n : S = 1..k
<1>1. CASE S = {}
      BY <1>1
<1>2. CASE S # {}
  <2>1. PICK k : k = Max(S)
        OBVIOUS
  <2>2. k \in S /\ \A y \in S : y <= k
        BY <1>2, <2>1, MaxFact
  <2>3. k \in 1..n
        BY <2>2
  <2>4. ASSUME NEW i \in 1..n PROVE i \in S <=> i <= k
    <3>1. i < k => i \in S
          BY <2>2, <2>3
    <3>2. k \in Nat /\ i \in Nat
          BY <2>3
    <3> QED BY <2>2, <3>1, <3>2
  <2>5. \A i \in S : i \in 1..n
        OBVIOUS
  <2>6. \A i : i \in S <=> i \in 1..k
    <3>1. \A i : i \in 1..k <=> i \in 1..n /\ i <= k
          BY <2>3
    <3> QED BY <2>4, <2>5, <3>1
  <2>7. S = 1..k
        BY <2>6
  <2> QED BY <2>3, <2>7
<1> QED BY <1>1, <1>2

(* Upper and lower bounds are positions; in a trail in order, those up to   *)
(* the upper bound are the points up to the time.                           *)
LEMMA BoundsFact ==
    ASSUME NEW s \in Seq(Points), NEW t \in Int
    PROVE  /\ UpperBound(s, t) \in 0..Len(s) /\ LowerBound(s, t) \in 0..Len(s)
           /\ Ordered(s) => \A i \in 1..Len(s) : i <= UpperBound(s, t) <=> s[i].t <= t
<1>1. PICK n, S, R : n = Len(s) /\ S = {i \in DOMAIN s : s[i].t <= t} /\ R = {i \in DOMAIN s : s[i].t < t}
      OBVIOUS
<1>2. n \in Nat /\ DOMAIN s = 1..n /\ \A i \in 1..n : s[i].t \in Int
      BY <1>1, PointsFact
<1>3. S \in SUBSET (1..n) /\ R \in SUBSET (1..n)
      BY <1>1, <1>2
<1>4. UpperBound(s, t) = PartitionPoint(n, S) /\ LowerBound(s, t) = PartitionPoint(n, R)
      BY <1>1 DEF UpperBound, LowerBound
<1>5. UpperBound(s, t) \in 0..n /\ LowerBound(s, t) \in 0..n
      BY <1>2, <1>3, <1>4, SearchFact
<1>6. ASSUME Ordered(s), NEW i \in 1..n PROVE i <= UpperBound(s, t) <=> s[i].t <= t
  <2>1. \A j, l \in 1..n : j < l => s[j].t <= s[l].t
        BY <1>1, <1>6 DEF Ordered
  <2>2. \A j, l \in 1..n : j < l /\ l \in S => j \in S
        BY <1>1, <1>2, <2>1
  <2>3. PICK k \in 0..n : S = 1..k
        BY <1>2, <1>3, <2>2, PrefixFact
  <2>4. UpperBound(s, t) = k
        BY <1>2, <1>3, <1>4, <2>3, SearchFact
  <2>5. i \in S <=> s[i].t <= t
        BY <1>1, <1>2
  <2> QED BY <2>3, <2>4, <2>5
<1> QED BY <1>1, <1>5, <1>6

(* What a trail knew at t of the time up to t. *)
Known(s, t) == {i \in 1..Len(s) : s[i].t <= t /\ s[i].known <= t}

(* In a trail in order, position_at is the last point known.                *)
LEMMA PositionFact ==
    ASSUME NEW s \in Seq(Points), Ordered(s), NEW t \in Int
    PROVE  PositionAt(s, t) = IF Known(s, t) = {} THEN {} ELSE {s[Max(Known(s, t))]}
<1>1. UpperBound(s, t) \in 0..Len(s) /\ \A i \in 1..Len(s) : i <= UpperBound(s, t) <=> s[i].t <= t
      BY BoundsFact
<1>2. {i \in 1 .. UpperBound(s, t) : s[i].known <= t} = Known(s, t)
      BY <1>1 DEF Known
<1> QED BY <1>2 DEF PositionAt

(* A trail that keeps, in their order, the points after the first m, and    *)
(* has otherwise points learnt after t.                                     *)
Carried(s, s2, m, e, t) ==
    /\ m \in 0..Len(s)
    /\ \A i \in (m + 1)..Len(s) : e[i] \in 1..Len(s2) /\ s2[e[i]] = s[i]
    /\ \A i, j \in (m + 1)..Len(s) : i < j => e[i] < e[j]
    /\ \A j \in 1..Len(s2) : s2[j].known > t \/ \E i \in (m + 1)..Len(s) : j = e[i]

(* Such a trail answers about t what it did, or nothing any more.           *)
LEMMA CarriedPast ==
    ASSUME NEW s \in Seq(Points), NEW s2 \in Seq(Points), Ordered(s), Ordered(s2),
           NEW t \in Int, NEW m, NEW e, Carried(s, s2, m, e, t)
    PROVE  /\ PositionAt(s2, t) \in {PositionAt(s, t), {}}
           /\ m = 0 => PositionAt(s2, t) = PositionAt(s, t)
<1>1. PICK n, n2, K, K2 : n = Len(s) /\ n2 = Len(s2) /\ K = Known(s, t) /\ K2 = Known(s2, t)
      OBVIOUS
<1>2. /\ n \in Nat /\ n2 \in Nat /\ K \in SUBSET (1..n) /\ K2 \in SUBSET (1..n2)
      /\ \A i \in 1..n : i \in K <=> s[i].t <= t /\ s[i].known <= t
      /\ \A i \in 1..n2 : i \in K2 <=> s2[i].t <= t /\ s2[i].known <= t
      /\ \A j \in 1..n2 : s2[j].known \in Int
  <2>1. n \in Nat /\ n2 \in Nat /\ \A j \in 1..n2 : s2[j].known \in Int
        BY <1>1, PointsFact
  <2>2. K \in SUBSET (1..n) /\ K2 \in SUBSET (1..n2)
        BY <1>1 DEF Known
  <2>3. /\ \A i \in 1..n : i \in K <=> s[i].t <= t /\ s[i].known <= t
        /\ \A i \in 1..n2 : i \in K2 <=> s2[i].t <= t /\ s2[i].known <= t
        BY <1>1 DEF Known
  <2> QED BY <2>1, <2>2, <2>3
<1>3. /\ m \in 0..n
      /\ \A i \in (m + 1)..n : e[i] \in 1..n2 /\ s2[e[i]] = s[i]
      /\ \A i, j \in (m + 1)..n : i < j => e[i] < e[j]
      /\ \A j \in 1..n2 : s2[j].known > t \/ \E i \in (m + 1)..n : j = e[i]
      BY <1>1 DEF Carried
<1>4. /\ PositionAt(s, t) = IF K = {} THEN {} ELSE {s[Max(K)]}
      /\ PositionAt(s2, t) = IF K2 = {} THEN {} ELSE {s2[Max(K2)]}
      BY <1>1, PositionFact
<1>5. ASSUME NEW j \in K2 PROVE \E i \in K : i \in (m + 1)..n /\ j = e[i]
  <2>1. j \in 1..n2 /\ s2[j].t <= t /\ s2[j].known <= t /\ ~(s2[j].known > t)
        BY <1>2
  <2>2. PICK i \in (m + 1)..n : j = e[i]
        BY <1>3, <2>1
  <2>3. i \in 1..n /\ s2[j] = s[i]
        BY <1>3, <2>2
  <2> QED BY <1>2, <2>1, <2>2, <2>3
<1>6. ASSUME NEW i \in K, i > m PROVE i \in (m + 1)..n /\ e[i] \in K2
  <2>1. i \in 1..n /\ i \in (m + 1)..n
        BY <1>2, <1>3, <1>6
  <2> QED BY <1>2, <1>3, <2>1
<1>7. CASE K2 = {}
  <2>1. m = 0 => K = {}
    <3>1. \A i \in K : i > 0
          BY <1>2
    <3> QED BY <1>6, <1>7, <3>1
  <2> QED BY <1>4, <1>7, <2>1
<1>8. CASE K2 # {}
  <2>1. PICK i0 \in K : i0 \in (m + 1)..n
        BY <1>5, <1>8
  <2>2. PICK x, y : x = Max(K) /\ y = Max(K2)
        OBVIOUS
  <2>3. x \in K /\ \A i \in K : i <= x
        BY <1>2, <2>1, <2>2, MaxFact
  <2>4. y \in K2 /\ \A j \in K2 : j <= y
        BY <1>2, <1>8, <2>2, MaxFact
  <2>5. x > m /\ x \in 1..n
        BY <1>2, <1>3, <2>1, <2>3
  <2>6. x \in (m + 1)..n /\ e[x] \in K2
        BY <1>6, <2>3, <2>5
  <2>7. PICK i \in K : i \in (m + 1)..n /\ y = e[i]
        BY <1>5, <2>4
  <2>8. i = x
    <3>1. i <= x /\ e[x] <= e[i]
          BY <2>3, <2>4, <2>6, <2>7
    <3>2. i < x => e[i] < e[x]
          BY <1>3, <2>6, <2>7
    <3>3. e[i] \in Nat /\ e[x] \in Nat
          BY <1>3, <2>6, <2>7
    <3> QED BY <2>5, <2>7, <3>1, <3>2, <3>3
  <2>9. s2[y] = s[x]
        BY <1>3, <2>6, <2>7, <2>8
  <2> QED BY <1>4, <1>8, <2>1, <2>2, <2>9
<1> QED BY <1>7, <1>8

(* A trail with one point more, after the first k. *)
Inserted(s, k, p, r) ==
    /\ r \in Seq(Points) /\ Len(r) = Len(s) + 1
    /\ \A i \in 1..k : r[i] = s[i]
    /\ r[k + 1] = p
    /\ \A i \in (k + 1)..Len(s) : r[i + 1] = s[i]

(* InsertAt, point by point.                                                *)
LEMMA InsertParts ==
    ASSUME NEW s \in Seq(Points), NEW k \in 0..Len(s), NEW p \in Points,
           NEW r, r = InsertAt(s, k + 1, p)
    PROVE  Inserted(s, k, p, r)
<1>1. PICK n, a, b : n = Len(s) /\ a = SubSeq(s, 1, k) /\ b = SubSeq(s, k + 1, n)
      OBVIOUS
<1>2. n \in Nat /\ k \in 0..n
      BY <1>1
<1>3. a \in Seq(Points) /\ Len(a) = k /\ \A i \in 1..k : a[i] = s[i]
      BY <1>1, <1>2
<1>4. b \in Seq(Points) /\ Len(b) = n - k /\ \A i \in 1..(n - k) : b[i] = s[k + i]
      BY <1>1, <1>2
<1>5. r = a \o <<p>> \o b
  <2>1. (k + 1) - 1 = k
        BY <1>2
  <2> QED BY <1>1, <2>1 DEF InsertAt
<1>6. PICK c : c = a \o <<p>>
      OBVIOUS
<1>7. c \in Seq(Points) /\ Len(c) = k + 1 /\ c[k + 1] = p /\ \A i \in 1..k : c[i] = a[i]
      BY <1>2, <1>3, <1>6
<1>8. r = c \o b
      BY <1>5, <1>6
<1>9. /\ r \in Seq(Points) /\ Len(r) = n + 1
      /\ \A i \in 1..(k + 1) : r[i] = c[i]
      /\ \A i \in (k + 2)..(n + 1) : r[i] = b[i - (k + 1)]
  <2>7. c \in Seq(Points) /\ b \in Seq(Points)
        BY <1>4, <1>7
  <2>1. r \in Seq(Points) /\ Len(r) = Len(c) + Len(b)
        BY <1>8, <2>7, ConcatProperties
  <2>2. \A i \in 1..(Len(c) + Len(b)) : r[i] = IF i <= Len(c) THEN c[i] ELSE b[i - Len(c)]
        BY <1>8, <2>7, ConcatProperties
  <2>3. Len(c) + Len(b) = n + 1
        BY <1>2, <1>4, <1>7
  <2>4. \A i \in 1..(n + 1) : r[i] = IF i <= k + 1 THEN c[i] ELSE b[i - (k + 1)]
        BY <1>7, <2>2, <2>3
  <2>5. ASSUME NEW i \in 1..(k + 1) PROVE r[i] = c[i]
    <3>1. i \in 1..(n + 1) /\ i <= k + 1
          BY <1>2
    <3> QED BY <2>4, <3>1
  <2>6. ASSUME NEW i \in (k + 2)..(n + 1) PROVE r[i] = b[i - (k + 1)]
    <3>1. i \in 1..(n + 1) /\ ~(i <= k + 1)
          BY <1>2
    <3> QED BY <2>4, <3>1
  <2> QED BY <2>1, <2>3, <2>5, <2>6
<1>10. \A i \in 1..k : r[i] = s[i]
       BY <1>2, <1>3, <1>7, <1>9
<1>11. r[k + 1] = p
       BY <1>2, <1>7, <1>9
<1>12. ASSUME NEW i \in (k + 1)..n PROVE r[i + 1] = s[i]
  <2>1. i + 1 \in (k + 2)..(n + 1) /\ (i + 1) - (k + 1) = i - k /\ i - k \in 1..(n - k) /\ k + (i - k) = i
        BY <1>2
  <2>2. r[i + 1] = b[i - k]
        BY <1>9, <2>1
  <2>3. b[i - k] = s[i]
        BY <1>4, <2>1
  <2> QED BY <2>2, <2>3
<1> QED BY <1>1, <1>9, <1>10, <1>11, <1>12 DEF Inserted

(* A point put into any trail.                                              *)
LEMMA InsertType ==
    ASSUME NEW s \in Seq(Points), NEW p \in Points
    PROVE  InsertByTime(s, p) \in Seq(Points)
<1>1. PICK k, r : k = UpperBound(s, p.t) /\ r = InsertAt(s, k + 1, p)
      OBVIOUS
<1>2. p.t \in Int
      BY DEF Points
<1>3. k \in 0..Len(s)
      BY <1>1, <1>2, BoundsFact
<1>4. Inserted(s, k, p, r)
      BY <1>1, <1>3, InsertParts
<1> QED BY <1>1, <1>4 DEF InsertByTime, Inserted

(* A point learnt after t, put in its place, changes nothing about t.       *)
LEMMA InsertPast ==
    ASSUME NEW s \in Seq(Points), Ordered(s), NEW p \in Points, NEW r, r = InsertByTime(s, p)
    PROVE  /\ r \in Seq(Points) /\ Ordered(r)
           /\ \A t \in Int : p.known > t => PositionAt(r, t) = PositionAt(s, t)
<1>1. PICK n, k : n = Len(s) /\ k = UpperBound(s, p.t)
      OBVIOUS
<1>2. p.t \in Int /\ p.known \in Int
      BY DEF Points
<1>3. /\ n \in Nat /\ k \in 0..n
      /\ \A i \in 1..n : s[i].t \in Int /\ (i <= k <=> s[i].t <= p.t)
      BY <1>1, <1>2, BoundsFact, PointsFact
<1>4. r = InsertAt(s, k + 1, p)
      BY <1>1 DEF InsertByTime
<1>5. /\ r \in Seq(Points) /\ Len(r) = n + 1
      /\ \A i \in 1..k : r[i] = s[i]
      /\ r[k + 1] = p
      /\ \A i \in (k + 1)..n : r[i + 1] = s[i]
  <2>1. k \in 0..Len(s)
        BY <1>1, <1>3
  <2>2. Inserted(s, k, p, r)
        BY <1>4, <2>1, InsertParts
  <2> QED BY <1>1, <2>2 DEF Inserted
<1>6. \A i \in 1..(n + 1) : \/ i \in 1..k /\ r[i] = s[i]
                            \/ i = k + 1 /\ r[i] = p
                            \/ i - 1 \in (k + 1)..n /\ r[i] = s[i - 1]
  <2> SUFFICES ASSUME NEW i \in 1..(n + 1), i \notin 1..k, i # k + 1
               PROVE  i - 1 \in (k + 1)..n /\ r[i] = s[i - 1]
      BY <1>5
  <2>1. i - 1 \in (k + 1)..n /\ (i - 1) + 1 = i
        BY <1>3
  <2> QED BY <1>5, <2>1
<1>7. \A i, j \in 1..n : i < j => s[i].t <= s[j].t
      BY <1>1 DEF Ordered
<1>8. Ordered(r)
  <2> SUFFICES ASSUME NEW i \in 1..(n + 1), NEW j \in 1..(n + 1), i < j
               PROVE  r[i].t <= r[j].t
      BY <1>5 DEF Ordered
  <2>1. CASE i \in 1..k /\ r[i] = s[i]
    <3>1. CASE j \in 1..k /\ r[j] = s[j]
          BY <1>3, <1>7, <2>1, <3>1
    <3>2. CASE j = k + 1 /\ r[j] = p
          BY <1>3, <2>1, <3>2
    <3>3. CASE j - 1 \in (k + 1)..n /\ r[j] = s[j - 1]
      <4>1. i < j - 1 /\ i \in 1..n /\ j - 1 \in 1..n
            BY <1>3, <2>1, <3>3
      <4> QED BY <1>7, <2>1, <3>3, <4>1
    <3> QED BY <1>6, <3>1, <3>2, <3>3
  <2>2. CASE i = k + 1 /\ r[i] = p
    <3>1. j - 1 \in (k + 1)..n /\ r[j] = s[j - 1]
          BY <1>3, <1>6, <2>2
    <3>2. j - 1 \in 1..n /\ ~(j - 1 <= k)
          BY <1>3, <3>1
    <3> QED BY <1>2, <1>3, <2>2, <3>1, <3>2
  <2>3. CASE i - 1 \in (k + 1)..n /\ r[i] = s[i - 1]
    <3>1. j - 1 \in (k + 1)..n /\ r[j] = s[j - 1]
          BY <1>3, <1>6, <2>3
    <3>2. i - 1 \in 1..n /\ j - 1 \in 1..n /\ i - 1 < j - 1
          BY <1>3, <2>3, <3>1
    <3> QED BY <1>7, <2>3, <3>1, <3>2
  <2> QED BY <1>6, <2>1, <2>2, <2>3
<1>9. ASSUME NEW t \in Int, p.known > t PROVE PositionAt(r, t) = PositionAt(s, t)
  <2>1. PICK e : e = [i \in 1..n |-> IF i <= k THEN i ELSE i + 1]
        OBVIOUS
  <2>2. \A i \in 1..n : e[i] = IF i <= k THEN i ELSE i + 1
        BY <2>1
  <2>3. ASSUME NEW i \in 1..n PROVE e[i] \in 1..(n + 1) /\ r[e[i]] = s[i]
    <3>1. CASE i <= k
          BY <1>3, <1>5, <2>2, <3>1
    <3>2. CASE ~(i <= k)
      <4>1. i \in (k + 1)..n /\ e[i] = i + 1
            BY <1>3, <2>2, <3>2
      <4> QED BY <1>3, <1>5, <4>1
    <3> QED BY <3>1, <3>2
  <2>4. ASSUME NEW i \in 1..n, NEW j \in 1..n, i < j PROVE e[i] < e[j]
        BY <1>3, <2>2, <2>4
  <2>5. ASSUME NEW j \in 1..(n + 1) PROVE r[j].known > t \/ \E i \in 1..n : j = e[i]
    <3>1. CASE j \in 1..k
          BY <1>3, <2>2, <3>1
    <3>2. CASE j = k + 1 /\ r[j] = p
          BY <1>9, <3>2
    <3>3. CASE j - 1 \in (k + 1)..n
      <4>1. j - 1 \in 1..n /\ e[j - 1] = j
            BY <1>3, <2>2, <3>3
      <4> QED BY <4>1
    <3> QED BY <1>6, <3>1, <3>2, <3>3
  <2>6. Carried(s, r, 0, e, t)
        BY <1>1, <1>3, <1>5, <2>3, <2>4, <2>5 DEF Carried
  <2>7. Ordered(s)
        OBVIOUS
  <2> QED BY <1>5, <1>8, <2>6, <2>7, CarriedPast
<1> QED BY <1>5, <1>8, <1>9

(* Without its first points, a trail knows less or the same.                *)
LEMMA SuffixPast ==
    ASSUME NEW s \in Seq(Points), Ordered(s), NEW m \in 0..Len(s),
           NEW r, r = SubSeq(s, m + 1, Len(s))
    PROVE  /\ r \in Seq(Points) /\ Ordered(r)
           /\ \A t \in Int : PositionAt(r, t) \in {PositionAt(s, t), {}}
<1>1. PICK n : n = Len(s)
      OBVIOUS
<1>2. n \in Nat /\ m \in 0..n
      BY <1>1
<1>3. r \in Seq(Points) /\ Len(r) = n - m /\ \A i \in 1..(n - m) : r[i] = s[m + i]
      BY <1>1, <1>2
<1>4. Ordered(r)
      BY <1>1, <1>2, <1>3 DEF Ordered
<1>5. ASSUME NEW t \in Int PROVE PositionAt(r, t) \in {PositionAt(s, t), {}}
  <2>1. PICK e : e = [i \in 1..n |-> i - m]
        OBVIOUS
  <2>2. \A i \in (m + 1)..n : e[i] = i - m /\ i - m \in 1..(n - m) /\ r[i - m] = s[i]
    <3>1. \A i \in (m + 1)..n : i \in 1..n /\ i - m \in 1..(n - m) /\ m + (i - m) = i
          BY <1>2
    <3> QED BY <1>3, <2>1, <3>1
  <2>3. \A i, j \in (m + 1)..n : i < j => e[i] < e[j]
        BY <1>2, <2>2
  <2>4. ASSUME NEW j \in 1..(n - m) PROVE \E i \in (m + 1)..n : j = e[i]
    <3>1. m + j \in (m + 1)..n /\ j = (m + j) - m
          BY <1>2
    <3> QED BY <2>2, <3>1
  <2>5. Carried(s, r, m, e, t)
        BY <1>1, <1>2, <1>3, <2>2, <2>3, <2>4 DEF Carried
  <2>6. Ordered(s)
        OBVIOUS
  <2> QED BY <1>3, <1>4, <2>5, <2>6, CarriedPast
<1> QED BY <1>3, <1>4, <1>5

(* A new point at the end, and the oldest ones cut off.                     *)
LEMMA AppendPast ==
    ASSUME NEW s \in Seq(Points), NEW p \in Points, NEW r, r = Trimmed(Append(s, p))
    PROVE  /\ r \in Seq(Points)
           /\ \A t \in Int : Ordered(s) /\ Ordered(r) /\ p.known > t =>
                 PositionAt(r, t) \in {PositionAt(s, t), {}}
<1>1. PICK n, q, c : /\ n = Len(s) /\ q = Append(s, p)
                     /\ c = IF n + 1 > TrailMax THEN n + 1 - TrailMax ELSE 0
      OBVIOUS
<1>2. n \in Nat /\ TrailMax \in Nat /\ c \in 0..(n + 1)
      BY <1>1, TrackingAssumption DEF TrackingAssumption
<1>3. /\ q \in Seq(Points) /\ Len(q) = n + 1 /\ q[n + 1] = p
      /\ \A i \in 1..n : q[i] = s[i]
      BY <1>1
<1>4. r \in Seq(Points) /\ Len(r) = n + 1 - c /\ \A i \in 1..(n + 1 - c) : r[i] = q[c + i]
  <2>1. CASE n + 1 > TrailMax
    <3>1. c = n + 1 - TrailMax /\ (n + 1) - TrailMax + 1 = c + 1
          BY <1>1, <1>2, <2>1
    <3>2. r = SubSeq(q, Len(q) - TrailMax + 1, Len(q))
          BY <1>1, <1>3, <2>1 DEF Trimmed
    <3>3. r = SubSeq(q, c + 1, n + 1)
          BY <1>3, <3>1, <3>2
    <3> QED BY <1>2, <1>3, <3>3
  <2>2. CASE ~(n + 1 > TrailMax)
    <3>1. r = q /\ c = 0
          BY <1>1, <1>3, <2>2 DEF Trimmed
    <3> QED BY <1>2, <1>3, <3>1
  <2> QED BY <2>1, <2>2
<1>5. ASSUME NEW t \in Int, Ordered(s), Ordered(r), p.known > t
      PROVE  PositionAt(r, t) \in {PositionAt(s, t), {}}
  <2>1. PICK m, e : m = (IF c <= n THEN c ELSE n) /\ e = [i \in 1..n |-> i - c]
        OBVIOUS
  <2>2. m \in 0..n /\ \A i \in (m + 1)..n : m = c /\ i \in 1..n
        BY <1>2, <2>1
  <2>3. ASSUME NEW i \in (m + 1)..n PROVE e[i] = i - c /\ e[i] \in 1..(n + 1 - c) /\ r[e[i]] = s[i]
    <3>1. e[i] = i - c /\ i - c \in 1..(n + 1 - c) /\ c + (i - c) = i
          BY <1>2, <2>1, <2>2
    <3> QED BY <1>3, <1>4, <2>2, <3>1
  <2>4. \A i, j \in (m + 1)..n : i < j => e[i] < e[j]
        BY <1>2, <2>2, <2>3
  <2>5. ASSUME NEW j \in 1..(n + 1 - c) PROVE r[j].known > t \/ \E i \in (m + 1)..n : j = e[i]
    <3>1. CASE c + j = n + 1
          BY <1>3, <1>4, <1>5, <3>1
    <3>2. CASE c + j # n + 1
      <4>1. c + j \in (m + 1)..n /\ (c + j) - c = j
            BY <1>2, <2>1, <3>2
      <4>2. e[c + j] = (c + j) - c
            BY <2>3, <4>1
      <4> QED BY <4>1, <4>2
    <3> QED BY <3>1, <3>2
  <2>6. Carried(s, r, m, e, t)
        BY <1>1, <1>4, <2>2, <2>3, <2>4, <2>5 DEF Carried
  <2> QED BY <1>4, <1>5, <2>6, CarriedPast
<1> QED BY <1>4, <1>5

-----------------------------------------------------------------------------
(* What a device brings: one fix after the other goes into the trail.       *)
Synced(s, item, skew) ==
    IF item.payload.kind = "Fix" THEN InsertByTime(s, SyncedPoint(item, skew)) ELSE s

(* The items one by one, and what WithSynced makes of them.                 *)
SyncedBy(c, s, items, skew) ==
    /\ c[0] = s /\ \A d \in 1..Len(items) : c[d] = Synced(c[d - 1], items[d], skew)
    /\ \A d \in 0..Len(items) : c[d] \in Seq(Points)
    /\ WithSynced(s, items, skew) = c[Len(items)]

(* A synchronised point is learnt now.                                      *)
LEMMA SyncedPointFact ==
    ASSUME now \in Int, NEW item \in QueueItems, NEW skew \in Int
    PROVE  SyncedPoint(item, skew) \in Points /\ SyncedPoint(item, skew).known = now
<1>1. item.payload.t \in Int
      BY DEF QueueItems, Payloads
<1> QED BY <1>1 DEF SyncedPoint, Point, Points

(* One item.                                                                *)
LEMMA SyncedFact ==
    ASSUME now \in Int, NEW s \in Seq(Points), NEW item \in QueueItems, NEW skew \in Int
    PROVE  /\ Synced(s, item, skew) \in Seq(Points)
           /\ Ordered(s) => /\ Ordered(Synced(s, item, skew))
                            /\ \A t \in Int : t < now => PositionAt(Synced(s, item, skew), t) = PositionAt(s, t)
<1>1. PICK p : p = SyncedPoint(item, skew)
      OBVIOUS
<1>2. p \in Points /\ p.known = now
      BY <1>1, SyncedPointFact
<1>3. PICK r : r = InsertByTime(s, p)
      OBVIOUS
<1>4. r \in Seq(Points)
      BY <1>2, <1>3, InsertType
<1>5. ASSUME Ordered(s) PROVE Ordered(r) /\ \A t \in Int : t < now => PositionAt(r, t) = PositionAt(s, t)
  <2>1. Ordered(r) /\ \A t \in Int : p.known > t => PositionAt(r, t) = PositionAt(s, t)
        BY <1>2, <1>3, <1>5, InsertPast
  <2> QED BY <1>2, <2>1
<1>6. Synced(s, item, skew) = IF item.payload.kind = "Fix" THEN r ELSE s
      BY <1>1, <1>3 DEF Synced
<1> QED BY <1>4, <1>5, <1>6

(* There is such a sequence of steps.                                       *)
LEMMA SyncedSolved ==
    ASSUME now \in Int, NEW s \in Seq(Points), NEW items \in Seq(QueueItems), NEW skew \in Int
    PROVE  \E c : SyncedBy(c, s, items, skew)
<1> DEFINE S == Seq(Points)
           n == Len(items)
           f == [a \in (1..n) \X S |-> Synced(a[2], items[a[1]], skew)]
           Solves(c) == c = [d \in 0 .. Len(items) |->
                               IF d = 0 THEN s
                               ELSE IF items[d].payload.kind = "Fix"
                               THEN InsertByTime(c[d - 1], SyncedPoint(items[d], skew))
                               ELSE c[d - 1]]
           c == CHOOSE c : Solves(c)
<1>1. n \in Nat /\ \A i \in 1..n : items[i] \in QueueItems
      OBVIOUS
<1>2. f \in [(1..n) \X S -> S]
      BY <1>1, SyncedFact
<1>3. PICK g \in [0..n -> S] : Iterates(g, s, f, n)
  <2> HIDE DEF n, f
  <2> QED BY <1>1, <1>2, IterationExists
<1>4. \E y : Solves(y)
  <2>1. ASSUME NEW d \in 0..n
        PROVE  g[d] = IF d = 0 THEN s ELSE Synced(g[d - 1], items[d], skew)
    <3>1. CASE d = 0
          BY <1>3, <3>1 DEF Iterates
    <3>2. CASE d # 0
      <4>1. d \in 1..n /\ d - 1 \in 0..n
            BY <1>1, <3>2
      <4>2. g[d - 1] \in S
            BY <4>1
      <4>3. f[<<d, g[d - 1]>>] = Synced(g[d - 1], items[d], skew)
            BY <4>1, <4>2
      <4>4. g[d] = f[<<d, g[d - 1]>>]
            BY <1>3, <3>2 DEF Iterates
      <4> QED BY <3>2, <4>3, <4>4
    <3> QED BY <3>1, <3>2
  <2>2. Solves(g)
        BY <2>1 DEF Synced
  <2> QED BY <2>2
<1>5. Solves(c)
  <2> HIDE DEF Solves
  <2> QED BY <1>4
<1>6. WithSynced(s, items, skew) = c[Len(items)]
      BY DEF WithSynced
<1> HIDE DEF c
<1>7. c[0] = s /\ \A d \in 1..n : c[d] = Synced(c[d - 1], items[d], skew)
  <2>1. c[0] = s
        BY <1>1, <1>5
  <2>2. ASSUME NEW d \in 1..n PROVE c[d] = Synced(c[d - 1], items[d], skew)
    <3>1. d \in 0..Len(items) /\ d # 0
          BY <1>1
    <3> QED BY <1>5, <3>1 DEF Synced
  <2> QED BY <2>1, <2>2
<1> HIDE DEF Solves, f
<1> DEFINE T == {d \in Nat : d <= n => c[d] \in Seq(Points)}
<1>8. 0 \in T
      BY <1>7
<1>9. ASSUME NEW d \in Nat, d \in T PROVE d + 1 \in T
  <2> SUFFICES ASSUME d + 1 <= n PROVE c[d + 1] \in Seq(Points)
      OBVIOUS
  <2>1. d + 1 \in 1..n /\ (d + 1) - 1 = d /\ c[d] \in Seq(Points)
        BY <1>1, <1>9
  <2>2. items[d + 1] \in QueueItems /\ c[d + 1] = Synced(c[d], items[d + 1], skew)
        BY <1>1, <1>7, <2>1
  <2> QED BY <2>1, <2>2, SyncedFact
<1>10. Nat \subseteq T
  <2> HIDE DEF T
  <2> QED BY <1>8, <1>9, StepByStep
<1>11. \A d \in 0..n : c[d] \in Seq(Points)
       BY <1>10
<1>12. SyncedBy(c, s, items, skew)
       BY <1>6, <1>7, <1>11 DEF SyncedBy
<1> QED BY <1>12

(* All of it is learnt now, and changes nothing about what has passed.      *)
SyncedKeeps(s, r) ==
    /\ r \in Seq(Points)
    /\ Ordered(s) => /\ Ordered(r)
                     /\ \A t \in Int : t < now => PositionAt(r, t) = PositionAt(s, t)

LEMMA SyncedPast ==
    ASSUME now \in Int, NEW s \in Seq(Points), NEW items \in Seq(QueueItems), NEW skew \in Int,
           NEW r, r = WithSynced(s, items, skew)
    PROVE  SyncedKeeps(s, r)
<1>1. PICK n : n = Len(items)
      OBVIOUS
<1>2. n \in Nat /\ \A i \in 1..n : items[i] \in QueueItems
      BY <1>1
<1>3. PICK c : SyncedBy(c, s, items, skew)
      BY SyncedSolved
<1>4. /\ c[0] = s /\ \A d \in 1..n : c[d] = Synced(c[d - 1], items[d], skew)
      /\ \A d \in 0..n : c[d] \in Seq(Points)
      /\ r = c[n]
      BY <1>1, <1>3 DEF SyncedBy
<1>5. r \in Seq(Points)
      BY <1>2, <1>4
<1>6. ASSUME Ordered(s) PROVE Ordered(r) /\ \A t \in Int : t < now => PositionAt(r, t) = PositionAt(s, t)
  <2> DEFINE P(d) == Ordered(c[d]) /\ \A t \in Int : t < now => PositionAt(c[d], t) = PositionAt(s, t)
             T == {d \in Nat : d <= n => P(d)}
  <2>1. 0 \in T
        BY <1>4, <1>6
  <2>2. ASSUME NEW d \in Nat, d \in T PROVE d + 1 \in T
    <3> SUFFICES ASSUME d + 1 <= n PROVE P(d + 1)
        OBVIOUS
    <3>1. d + 1 \in 1..n /\ d \in 0..n /\ (d + 1) - 1 = d /\ P(d)
          BY <1>2, <2>2
    <3>2. PICK a, b, item : a = c[d] /\ b = c[d + 1] /\ item = items[d + 1]
          OBVIOUS
    <3>3. a \in Seq(Points) /\ item \in QueueItems /\ b = Synced(a, item, skew)
          BY <1>2, <1>4, <3>1, <3>2
    <3>4. Ordered(a) /\ \A t \in Int : t < now => PositionAt(a, t) = PositionAt(s, t)
          BY <3>1, <3>2
    <3>5. Ordered(b) /\ \A t \in Int : t < now => PositionAt(b, t) = PositionAt(a, t)
          BY <3>3, <3>4, SyncedFact
    <3> QED BY <3>2, <3>4, <3>5
  <2>3. Nat \subseteq T
    <3> HIDE DEF T
    <3> QED BY <2>1, <2>2, StepByStep
  <2>4. P(n)
        BY <1>2, <2>3
  <2> QED BY <1>4, <2>4
<1> QED BY <1>5, <1>6 DEF SyncedKeeps

-----------------------------------------------------------------------------
(* Every step, and the theorem.                                             *)

(* Trails are sequences of points, whatever their order.                    *)
TrailInv ==
    /\ ToldInv
    /\ DOMAIN trail = Users /\ \A u \in Users : trail[u] \in Seq(Points)

(* From one trail to the next: nothing changes about the time up to now,    *)
(* unless it is dropped.                                                    *)
PastKept(s, r) ==
    /\ r \in Seq(Points)
    /\ \A t \in 0 .. now - 1 : Ordered(s) /\ Ordered(r) => PositionAt(r, t) \in {PositionAt(s, t), {}}

TrailStep == DOMAIN trail' = Users /\ \A u \in Users : PastKept(trail[u], trail'[u])

(* No trail changes.                                                        *)
LEMMA SameTrail ==
    ASSUME TrailInv, UNCHANGED trail
    PROVE  TrailStep
BY DEF TrailInv, TrailStep, PastKept

(* One trail changes.                                                       *)
LEMMA OneTrail ==
    ASSUME TrailInv, NEW u \in Users, NEW r, PastKept(trail[u], r), trail' = [trail EXCEPT ![u] = r]
    PROVE  TrailStep
<1>1. DOMAIN trail = Users /\ \A v \in Users : trail[v] \in Seq(Points)
      BY DEF TrailInv
<1>2. \A v \in Users : trail'[v] = IF v = u THEN r ELSE trail[v]
      BY <1>1
<1>3. \A v \in Users : PastKept(trail[v], trail[v])
      BY <1>1 DEF PastKept
<1>4. \A v \in Users : PastKept(trail[v], trail'[v])
      BY <1>2, <1>3
<1> QED BY <1>1, <1>4 DEF TrailStep

(* An older fix, put in its place.                                          *)
LEMMA RecordTrail ==
    ASSUME TrailInv, NEW u \in Users, NEW t \in Int, NEW seq, NEW moved, RecordLate(u, t, seq, moved)
    PROVE  TrailStep
<1>1. PICK s, p, r : s = trail[u] /\ p = Point(t, now) /\ r = InsertByTime(s, p)
      OBVIOUS
<1>2. now \in Int /\ s \in Seq(Points)
      BY <1>1 DEF TrailInv, ToldInv, Clocks
<1>3. p \in Points /\ p.known = now
      BY <1>1, <1>2 DEF Point, Points
<1>4. r \in Seq(Points)
      BY <1>1, <1>2, <1>3, InsertType
<1>5. ASSUME NEW a \in 0 .. now - 1, Ordered(s) PROVE PositionAt(r, a) = PositionAt(s, a)
  <2>1. a \in Int /\ p.known > a
        BY <1>2, <1>3
  <2> QED BY <1>1, <1>2, <1>3, <1>5, <2>1, InsertPast
<1>6. PastKept(s, r)
      BY <1>4, <1>5 DEF PastKept
<1>7. trail' = [trail EXCEPT ![u] = r]
      BY <1>1 DEF RecordLate
<1> QED BY <1>1, <1>6, <1>7, OneTrail

(* A new fix at the end.                                                    *)
LEMMA AcceptTrail ==
    ASSUME TrailInv, NEW u \in Users, NEW t \in Int, NEW seq, NEW moved, NEW inside,
           AcceptFix(u, t, seq, moved, inside)
    PROVE  TrailStep
<1>1. PICK s, p, r : s = trail[u] /\ p = Point(t, now) /\ r = Trimmed(Append(s, p))
      OBVIOUS
<1>2. now \in Int /\ s \in Seq(Points)
      BY <1>1 DEF TrailInv, ToldInv, Clocks
<1>3. p \in Points /\ p.known = now
      BY <1>1, <1>2 DEF Point, Points
<1>4. /\ r \in Seq(Points)
      /\ \A a \in Int : Ordered(s) /\ Ordered(r) /\ p.known > a => PositionAt(r, a) \in {PositionAt(s, a), {}}
      BY <1>1, <1>2, <1>3, AppendPast
<1>5. \A a \in 0 .. now - 1 : a \in Int /\ p.known > a
      BY <1>2, <1>3
<1>6. PastKept(s, r)
      BY <1>4, <1>5 DEF PastKept
<1>7. trail' = [trail EXCEPT ![u] = r]
      BY <1>1 DEF AcceptFix
<1> QED BY <1>1, <1>6, <1>7, OneTrail

(* What is admitted comes from the batch.                                   *)
LEMMA MergeAdmits ==
    ASSUME NEW I, NEW known, NEW batch \in Seq(I)
    PROVE  Merge(batch, known).admitted \in Seq(I)
<1>1. PICK c : MergedBy(c, batch, known, I)
      BY MergeSolved
<1>2. Len(batch) \in 0..Len(batch)
      OBVIOUS
<1> QED BY <1>1, <1>2 DEF MergedBy, Held

(* What a device brings.                                                    *)
LEMMA ReconnectTrail ==
    ASSUME TrailInv, NEW u \in Users, Reconnect(u)
    PROVE  TrailStep
<1>1. PICK s, d, admitted, r : /\ s = trail[u] /\ d = device[u]
                               /\ admitted = Merge(d.queue.items, seen).admitted
                               /\ r = WithSynced(s, admitted, d.skew)
      OBVIOUS
<1>2. u \in offline
      BY DEF Reconnect
<1>3. now \in Int /\ s \in Seq(Points) /\ d.skew \in Int
      BY <1>1 DEF TrailInv, ToldInv, Clocks
<1>4. d.queue.items \in Seq(QueueItems)
      BY <1>1, <1>2 DEF TrailInv, ToldInv, ToldOf, Queued
<1>5. admitted \in Seq(QueueItems)
      BY <1>1, <1>4, MergeAdmits
<1>6. /\ r \in Seq(Points)
      /\ Ordered(s) => \A t \in Int : t < now => PositionAt(r, t) = PositionAt(s, t)
  <2>1. r = WithSynced(s, admitted, d.skew)
        BY <1>1
  <2>2. PICK skew \in Int : skew = d.skew
        BY <1>3
  <2>3. SyncedKeeps(s, r)
        BY <1>3, <1>5, <2>1, <2>2, SyncedPast
  <2> QED BY <2>3 DEF SyncedKeeps
<1>7. \A a \in 0 .. now - 1 : a \in Int /\ a < now
      BY <1>3
<1>8. PastKept(s, r)
      BY <1>6, <1>7 DEF PastKept
<1>9. trail' = [trail EXCEPT ![u] = r]
      BY <1>1 DEF Reconnect
<1> QED BY <1>1, <1>8, <1>9, OneTrail

(* Erasure.                                                                 *)
LEMMA EraseTrail ==
    ASSUME TrailInv, NEW u \in Users, EraseHistory(u)
    PROVE  TrailStep
<1>1. ASSUME NEW t \in 0 .. now - 1 PROVE PositionAt(<<>>, t) = {}
  <2>1. <<>> \in Seq(Points) /\ Ordered(<<>>) /\ Known(<<>>, t) = {}
        BY DEF Ordered, Known
  <2>2. t \in Int
        OBVIOUS
  <2> QED BY <2>1, <2>2, PositionFact
<1>2. PastKept(trail[u], <<>>)
      BY <1>1 DEF PastKept
<1>3. trail' = [trail EXCEPT ![u] = <<>>]
      BY DEF EraseHistory
<1> QED BY <1>2, <1>3, OneTrail

(* Retention.                                                               *)
LEMMA TickTrail ==
    ASSUME TrailInv, Tick
    PROVE  TrailStep
<1>1. now \in Int /\ DOMAIN trail = Users /\ \A u \in Users : trail[u] \in Seq(Points)
      BY DEF TrailInv, ToldInv, Clocks
<1>2. PICK cutoff : cutoff = (now + 1) - TrailRetention
      OBVIOUS
<1>3. cutoff \in Int
      BY <1>1, <1>2, TrackingAssumption DEF TrackingAssumption
<1>4. trail' = trail \/ (DOMAIN trail' = Users /\ \A u \in Users : trail'[u] = Retained(trail[u], cutoff))
  <2>1. trail' = trail \/ trail' = [u \in Users |-> Retained(trail[u], (now + 1) - TrailRetention)]
        BY DEF Tick
  <2> QED BY <1>2, <2>1
<1>5. ASSUME NEW u \in Users PROVE PastKept(trail[u], Retained(trail[u], cutoff))
  <2>1. PICK s, m, r : s = trail[u] /\ m = LowerBound(s, cutoff) /\ r = SubSeq(s, m + 1, Len(s))
        OBVIOUS
  <2>2. s \in Seq(Points)
        BY <1>1, <2>1
  <2>3. m \in 0..Len(s)
        BY <1>3, <2>1, <2>2, BoundsFact
  <2>4. r \in Seq(Points)
        BY <2>1, <2>2, <2>3
  <2>5. Ordered(s) => \A t \in Int : PositionAt(r, t) \in {PositionAt(s, t), {}}
        BY <2>1, <2>2, <2>3, SuffixPast
  <2>6. \A t \in 0 .. now - 1 : t \in Int
        OBVIOUS
  <2>7. PastKept(s, r)
        BY <2>4, <2>5, <2>6 DEF PastKept
  <2> QED BY <2>1, <2>7 DEF Retained
<1>6. CASE trail' = trail
      BY <1>6, SameTrail
<1>7. CASE DOMAIN trail' = Users /\ \A u \in Users : trail'[u] = Retained(trail[u], cutoff)
      BY <1>5, <1>7 DEF TrailStep
<1> QED BY <1>4, <1>6, <1>7

(* Every step.                                                              *)
LEMMA TrailNext == TrailInv /\ [Next]_vars => TrailStep
<1> SUFFICES ASSUME TrailInv, [Next]_vars PROVE TrailStep
    OBVIOUS
<1>1. CASE Tick
      BY <1>1, TickTrail
<1>2. ASSUME NEW u \in Users, StartSharing(u) PROVE TrailStep
      BY <1>2, SameTrail DEF StartSharing
<1>3. ASSUME NEW u \in Users, StopSharing(u) PROVE TrailStep
      BY <1>3, SameTrail DEF StopSharing, EndSession
<1>4. ASSUME NEW u \in Users, EraseHistory(u) PROVE TrailStep
      BY <1>4, EraseTrail
<1>5. ASSUME NEW u \in Users, ResolveAlert(u) PROVE TrailStep
      BY <1>5, SameTrail DEF ResolveAlert, tracked
<1>6. ASSUME NEW u \in Users, Reconnect(u) PROVE TrailStep
      BY <1>6, ReconnectTrail
<1>7. ASSUME NEW u \in Users, NEW value \in BOOLEAN, SetConsent(u, value) \/ SetActive(u, value)
      PROVE  TrailStep
  <2>1. EndSession(u) \/ UNCHANGED Sessions
        BY <1>7 DEF SetConsent, SetActive
  <2> QED BY <2>1, SameTrail DEF EndSession, Sessions, tracked
<1>8. ASSUME NEW u \in Users, NEW value \in BOOLEAN, DeviceFix(u, value) PROVE TrailStep
      BY <1>8, SameTrail DEF DeviceFix, tracked
<1>9. ASSUME NEW u \in Users, NEW value \in BatterySettings, SetBatteryAware(u, value) PROVE TrailStep
      BY <1>9, SameTrail DEF SetBatteryAware, tracked
<1>10. ASSUME NEW u \in Users, NEW skew \in Skews, GoOffline(u, skew) PROVE TrailStep
       BY <1>10, SameTrail DEF GoOffline, tracked
<1>11. ASSUME NEW u \in Users, NEW t \in FixTimes, NEW seq, NEW moved, RecordLate(u, t, seq, moved)
       PROVE  TrailStep
  <2>1. t \in Int
        BY DEF FixTimes
  <2> QED BY <1>11, <2>1, RecordTrail
<1>12. ASSUME NEW u \in Users, NEW t \in FixTimes, NEW seq, NEW moved, NEW inside,
              AcceptFix(u, t, seq, moved, inside)
       PROVE  TrailStep
  <2>1. t \in Int
        BY DEF FixTimes
  <2> QED BY <1>12, <2>1, AcceptTrail
<1>13. CASE UNCHANGED vars
       BY <1>13, SameTrail DEF vars, tracked
<1> QED BY <1>1, <1>2, <1>3, <1>4, <1>5, <1>6, <1>7, <1>8, <1>9, <1>10, <1>11, <1>12, <1>13 DEF Next

(* No step changes what a trail in time order answers about a time that has *)
(* passed, except that a point dropped by erasure, retention or the cap is  *)
(* answered no more: late fixes and whatever a device brings back are put   *)
(* in their place and are not known before now, also when a reconnection    *)
(* puts in many at once (position_at, ingest_fix, reconnect,                *)
(* enforce_retention, erase_history).                                       *)
THEOREM PastStaysAsKnown == Spec => PastIsStable
<1>1. Init => TrailInv
      BY ToldInit DEF Init, TrailInv
<1>2. TrailInv /\ [Next]_vars => TrailInv'
      BY TrailNext, ToldNext DEF TrailInv, TrailStep, PastKept
<1>3. TrailInv /\ [Next]_vars => PastStays
      BY TrailNext DEF TrailStep, PastKept, PastStays
<1>4. TrailInv /\ [Next]_vars => [PastStays]_vars
      BY <1>3
<1> QED BY <1>1, <1>2, <1>4, PTL DEF Spec, PastIsStable

-----------------------------------------------------------------------------
(* Sessions.                                                                *)

(* What a device queues, taken since a time of the server's clock.          *)
ItemsSince(from, skew) == {item \in QueueItems : from <= item.payload.t - skew}

(* The points of r are points of s, or taken since the time.                *)
AddsSince(s, r, from) ==
    \A j \in 1..Len(r) : (\E i \in 1..Len(s) : r[j] = s[i]) \/ from <= r[j].t

(* A session has begun, and a device has queued nothing from before it.     *)
SessionOf(u) ==
    /\ started[u] \in Int /\ started[u] <= now
    /\ u \in offline => device[u].queue.items \in Seq(ItemsSince(started[u], device[u].skew))

SessionInv == TrailInv /\ DOMAIN started = Users /\ \A u \in Users : SessionOf(u)

LEMMA SessionInit == Init => SessionInv
BY ToldInit DEF Init, SessionInv, TrailInv, SessionOf

(* Whoever's session and device a step leaves alone.                        *)
LEMMA SessionKept ==
    ASSUME now \in Int, now' \in Int, now <= now', NEW v \in Users, SessionOf(v),
           started'[v] = started[v], v \in offline' => v \in offline /\ device'[v] = device[v]
    PROVE  SessionOf(v)'
BY DEF SessionOf

(* One more item, taken now.                                                *)
LEMMA QueuedSince ==
    ASSUME NEW u \in Users, NEW q, Queued(q, u), NEW from \in Int, NEW skew \in Int,
           q.items \in Seq(ItemsSince(from, skew)),
           NEW p \in Payloads, from <= p.t - skew
    PROVE  /\ Queued(Enqueue(q, p), u)
           /\ Enqueue(q, p).items \in Seq(ItemsSince(from, skew))
<1>1. PICK item \in QueueItems : item.payload = p /\ Enqueue(q, p).items = Append(q.items, item)
      BY EnqueueFact
<1>2. item \in ItemsSince(from, skew)
      BY <1>1 DEF ItemsSince
<1>3. PICK I : I = ItemsSince(from, skew)
      OBVIOUS
<1>4. Append(q.items, item) \in Seq(I)
      BY <1>2, <1>3
<1> QED BY <1>1, <1>3, <1>4, EnqueueFact

(* A device's fix is taken now, and so is what crosses with it.             *)
LEMMA DeviceFixSession ==
    ASSUME SessionInv, NEW u \in Users, NEW inside \in BOOLEAN, DeviceFix(u, inside)
    PROVE  SessionOf(u)'
<1>1. PICK d, t, first, second :
          /\ d = device[u] /\ t = now + d.skew
          /\ first = Enqueue(d.queue, Payload("Fix", t))
          /\ second = Enqueue(first, Payload(Crossing(inside), t))
      OBVIOUS
<1>2. /\ u \in offline /\ now \in Int /\ d.skew \in Int /\ Queued(d.queue, u)
      /\ started[u] \in Int /\ started[u] <= now /\ DOMAIN device = Users
      /\ d.queue.items \in Seq(ItemsSince(started[u], d.skew))
      BY <1>1 DEF DeviceFix, SessionInv, SessionOf, TrailInv, ToldInv, ToldOf, Clocks
<1>3. t \in Int /\ started[u] <= t - d.skew
      BY <1>1, <1>2
<1>4. /\ Payload("Fix", t) \in Payloads /\ Payload("Fix", t).t = t
      /\ Payload(Crossing(inside), t) \in Payloads /\ Payload(Crossing(inside), t).t = t
      BY <1>3 DEF Payload, Payloads, Crossing
<1>5. Queued(first, u) /\ first.items \in Seq(ItemsSince(started[u], d.skew))
      BY <1>1, <1>2, <1>3, <1>4, QueuedSince
<1>6. second.items \in Seq(ItemsSince(started[u], d.skew))
      BY <1>1, <1>2, <1>3, <1>4, <1>5, QueuedSince
<1>7. /\ now' = now /\ started' = started
      /\ device'[u].queue \in {first, second} /\ device'[u].skew = d.skew
      BY <1>1, <1>2 DEF DeviceFix, user
<1>8. device'[u].queue.items \in Seq(ItemsSince(started[u], d.skew))
      BY <1>5, <1>6, <1>7
<1>9. SessionOf(u)' <=> /\ started'[u] \in Int /\ started'[u] <= now'
                        /\ u \in offline' => device'[u].queue.items \in Seq(ItemsSince(started'[u], device'[u].skew))
      BY DEF SessionOf, ItemsSince, QueueItems, Payloads
<1> QED BY <1>2, <1>7, <1>8, <1>9

(* Every step.                                                              *)
LEMMA SessionNext == SessionInv /\ [Next]_vars => SessionInv'
<1> SUFFICES ASSUME SessionInv, [Next]_vars PROVE SessionInv'
    OBVIOUS
<1>a. TrailInv /\ TrailInv'
  <2>1. TrailInv /\ ToldInv
        BY DEF SessionInv, TrailInv
  <2> QED BY <2>1, TrailNext, ToldNext DEF TrailInv, TrailStep, PastKept
<1>0. /\ TrailInv' /\ now \in Int /\ now' \in Int /\ DOMAIN started = Users /\ DOMAIN device = Users
      /\ \A v \in Users : SessionOf(v)
      /\ offline \subseteq sharing
  <2>1. now \in Int /\ DOMAIN device = Users /\ offline \subseteq sharing
        BY <1>a DEF TrailInv, ToldInv, Clocks, ConsentGates
  <2>2. now' \in Int
        BY <1>a DEF TrailInv, ToldInv, Clocks
  <2> QED BY <1>a, <2>1, <2>2 DEF SessionInv
<1>1. ASSUME now <= now', started' = started, offline' \subseteq offline,
             \A v \in offline' : device'[v] = device[v]
      PROVE  SessionInv'
  <2>1. \A v \in Users : SessionOf(v)'
        BY <1>0, <1>1, SessionKept
  <2> QED BY <1>0, <1>1, <2>1 DEF SessionInv
<1>2. ASSUME NEW u \in Users, now' = now, DOMAIN started' = Users, SessionOf(u)',
             \A v \in Users : v # u => /\ started'[v] = started[v]
                                       /\ v \in offline' => v \in offline /\ device'[v] = device[v]
      PROVE  SessionInv'
  <2>1. \A v \in Users : v # u => SessionOf(v)'
        BY <1>0, <1>2, SessionKept
  <2>2. \A v \in Users : SessionOf(v)'
        BY <1>2, <2>1
  <2> QED BY <1>0, <1>2, <2>2 DEF SessionInv
<1>3. CASE Tick
      BY <1>0, <1>1, <1>3 DEF Tick, user, agents
<1>4. ASSUME NEW u \in Users, StartSharing(u) PROVE SessionInv'
  <2>1. /\ u \notin offline /\ offline' = offline /\ device' = device /\ now' = now
        /\ started' = [started EXCEPT ![u] = now]
        BY <1>0, <1>4 DEF StartSharing, agents
  <2>2. SessionOf(u)'
        BY <1>0, <2>1 DEF SessionOf
  <2> QED BY <1>0, <1>2, <2>1, <2>2
<1>5. ASSUME NEW u \in Users, EndSession(u), now' = now PROVE SessionInv'
      BY <1>0, <1>1, <1>5 DEF EndSession
<1>6. ASSUME NEW u \in Users, StopSharing(u) PROVE SessionInv'
      BY <1>5, <1>6 DEF StopSharing
<1>7. ASSUME NEW u \in Users, EraseHistory(u) \/ ResolveAlert(u) PROVE SessionInv'
      BY <1>0, <1>1, <1>7 DEF EraseHistory, ResolveAlert, user, agents
<1>8. ASSUME NEW u \in Users, Reconnect(u) PROVE SessionInv'
      BY <1>0, <1>1, <1>8 DEF Reconnect
<1>9. ASSUME NEW u \in Users, NEW value \in BOOLEAN, SetConsent(u, value) \/ SetActive(u, value)
      PROVE  SessionInv'
  <2>1. now' = now /\ (EndSession(u) \/ UNCHANGED Sessions)
        BY <1>9 DEF SetConsent, SetActive
  <2>2. CASE UNCHANGED Sessions
        BY <1>0, <1>1, <2>1, <2>2 DEF Sessions, agents
  <2> QED BY <1>5, <2>1, <2>2
<1>10. ASSUME NEW u \in Users, NEW value \in BOOLEAN, DeviceFix(u, value) PROVE SessionInv'
  <2>1. /\ now' = now /\ started' = started /\ offline' = offline
        /\ \A v \in Users : v # u => device'[v] = device[v]
        BY <1>0, <1>10 DEF DeviceFix, user
  <2>2. SessionOf(u)'
        BY <1>10, DeviceFixSession
  <2> QED BY <1>0, <1>2, <2>1, <2>2
<1>11. ASSUME NEW u \in Users, NEW value \in BatterySettings, SetBatteryAware(u, value) PROVE SessionInv'
       BY <1>0, <1>1, <1>11 DEF SetBatteryAware, agents
<1>12. ASSUME NEW u \in Users, NEW skew \in Skews, GoOffline(u, skew) PROVE SessionInv'
  <2>1. /\ now' = now /\ started' = started /\ offline' = offline \cup {u}
        /\ device' = [device EXCEPT ![u] = NewDevice(u, skew)]
        BY <1>12 DEF GoOffline
  <2>2. device'[u].queue.items = <<>>
        BY <1>0, <2>1 DEF NewDevice, EmptyQueue
  <2>3. SessionOf(u)'
    <3>1. started'[u] \in Int /\ started'[u] <= now'
          BY <1>0, <2>1 DEF SessionOf
    <3>2. <<>> \in Seq(ItemsSince(started'[u], device'[u].skew))
          OBVIOUS
    <3> QED BY <2>2, <3>1, <3>2 DEF SessionOf
  <2> QED BY <1>0, <1>2, <2>1, <2>3
<1>13. ASSUME NEW u \in Users, NEW t, NEW seq, NEW moved, RecordLate(u, t, seq, moved) PROVE SessionInv'
       BY <1>0, <1>1, <1>13 DEF RecordLate, user, agents
<1>14. ASSUME NEW u \in Users, NEW t, NEW seq, NEW moved, NEW inside, AcceptFix(u, t, seq, moved, inside)
       PROVE  SessionInv'
       BY <1>0, <1>1, <1>14 DEF AcceptFix, user, agents
<1>15. CASE UNCHANGED vars
       BY <1>0, <1>1, <1>15 DEF vars, user, agents
<1> QED BY <1>3, <1>4, <1>6, <1>7, <1>8, <1>9, <1>10, <1>11, <1>12, <1>13, <1>14, <1>15 DEF Next

(* One point put into a trail.                                              *)
LEMMA InsertAdds ==
    ASSUME NEW s \in Seq(Points), NEW p \in Points, NEW from \in Int, from <= p.t
    PROVE  AddsSince(s, InsertByTime(s, p), from)
<1>1. PICK n, k, r : n = Len(s) /\ k = UpperBound(s, p.t) /\ r = InsertAt(s, k + 1, p)
      OBVIOUS
<1>2. p.t \in Int
      BY DEF Points
<1>3. n \in Nat /\ k \in 0..n /\ k \in 0..Len(s)
      BY <1>1, <1>2, BoundsFact
<1>4. Inserted(s, k, p, r)
      BY <1>1, <1>3, InsertParts
<1>5. /\ Len(r) = n + 1 /\ \A i \in 1..k : r[i] = s[i]
      /\ r[k + 1] = p /\ \A i \in (k + 1)..n : r[i + 1] = s[i]
      BY <1>1, <1>4 DEF Inserted
<1>6. ASSUME NEW j \in 1..(n + 1) PROVE (\E i \in 1..n : r[j] = s[i]) \/ from <= r[j].t
  <2>1. CASE j \in 1..k
        BY <1>3, <1>5, <2>1
  <2>2. CASE j = k + 1
        BY <1>5, <2>2
  <2>3. CASE j \notin 1..k /\ j # k + 1
    <3>1. j - 1 \in (k + 1)..n /\ j - 1 \in 1..n /\ (j - 1) + 1 = j
          BY <1>3, <2>3
    <3> QED BY <1>5, <3>1
  <2> QED BY <2>1, <2>2, <2>3
<1>7. AddsSince(s, r, from)
      BY <1>1, <1>5, <1>6 DEF AddsSince
<1> QED BY <1>1, <1>7 DEF InsertByTime

(* Part of a trail.                                                         *)
LEMMA PartAdds ==
    ASSUME NEW s \in Seq(Points), NEW m \in 0..Len(s), NEW from
    PROVE  AddsSince(s, SubSeq(s, m + 1, Len(s)), from)
<1>1. PICK n, r : n = Len(s) /\ r = SubSeq(s, m + 1, n)
      OBVIOUS
<1>2. n \in Nat /\ m \in 0..n
      BY <1>1
<1>3. Len(r) = n - m /\ \A j \in 1..(n - m) : r[j] = s[m + j]
      BY <1>1, <1>2
<1>4. \A j \in 1..(n - m) : m + j \in 1..n
      BY <1>2
<1>5. \A j \in 1..(n - m) : \E i \in 1..n : r[j] = s[i]
      BY <1>3, <1>4
<1>6. AddsSince(s, r, from)
      BY <1>1, <1>3, <1>5 DEF AddsSince
<1> QED BY <1>1, <1>6

(* One point at the end, and the oldest ones cut off.                       *)
LEMMA AppendAdds ==
    ASSUME NEW s \in Seq(Points), NEW p \in Points, NEW from, from <= p.t
    PROVE  AddsSince(s, Trimmed(Append(s, p)), from)
<1>1. PICK n, q : n = Len(s) /\ q = Append(s, p)
      OBVIOUS
<1>2. n \in Nat /\ q \in Seq(Points) /\ Len(q) = n + 1 /\ q[n + 1] = p /\ \A i \in 1..n : q[i] = s[i]
      BY <1>1
<1>3. ASSUME NEW i \in 1..(n + 1) PROVE (\E h \in 1..n : q[i] = s[h]) \/ from <= q[i].t
  <2>1. i \in 1..n \/ i = n + 1
        BY <1>2
  <2> QED BY <1>2, <2>1
<1>4. PICK r : r = Trimmed(q)
      OBVIOUS
<1>5. AddsSince(q, r, from)
  <2>1. CASE Len(q) > TrailMax
    <3>1. PICK m : m = Len(q) - TrailMax
          OBVIOUS
    <3>2. TrailMax \in Nat
          BY TrackingAssumption DEF TrackingAssumption
    <3>3. m \in 0..Len(q)
          BY <1>2, <2>1, <3>1, <3>2
    <3>4. r = SubSeq(q, m + 1, Len(q))
          BY <1>4, <2>1, <3>1 DEF Trimmed
    <3> QED BY <1>2, <3>3, <3>4, PartAdds
  <2>2. CASE ~(Len(q) > TrailMax)
    <3>1. r = q
          BY <1>4, <2>2 DEF Trimmed
    <3> QED BY <3>1 DEF AddsSince
  <2> QED BY <2>1, <2>2
<1>6. ASSUME NEW j \in 1..Len(r) PROVE (\E h \in 1..n : r[j] = s[h]) \/ from <= r[j].t
  <2>1. (\E i \in 1..(n + 1) : r[j] = q[i]) \/ from <= r[j].t
        BY <1>2, <1>5 DEF AddsSince
  <2>2. ASSUME NEW i \in 1..(n + 1), r[j] = q[i] PROVE (\E h \in 1..n : r[j] = s[h]) \/ from <= r[j].t
        BY <1>3, <2>2
  <2> QED BY <2>1, <2>2
<1>7. AddsSince(s, r, from)
      BY <1>1, <1>6 DEF AddsSince
<1> QED BY <1>1, <1>4, <1>7

(* What a device brings, one item after the other.                          *)
LEMMA SyncedAdds ==
    ASSUME now \in Int, NEW s \in Seq(Points), NEW from \in Int, NEW skew \in Int,
           NEW items \in Seq(ItemsSince(from, skew))
    PROVE  AddsSince(s, WithSynced(s, items, skew), from)
<1>1. PICK n : n = Len(items)
      OBVIOUS
<1>2. n \in Nat /\ \A i \in 1..n : items[i] \in ItemsSince(from, skew)
      BY <1>1
<1>3. items \in Seq(QueueItems)
  <2>1. \A i \in 1..n : items[i] \in QueueItems
        BY <1>2 DEF ItemsSince
  <2>2. items \in [1..n -> QueueItems]
        BY <1>1, <1>2, <2>1
  <2> QED BY <1>2, <2>2
<1>4. PICK c : SyncedBy(c, s, items, skew)
      BY <1>3, SyncedSolved
<1>5. /\ c[0] = s /\ \A d \in 1..n : c[d] = Synced(c[d - 1], items[d], skew)
      /\ \A d \in 0..n : c[d] \in Seq(Points)
      /\ WithSynced(s, items, skew) = c[n]
      BY <1>1, <1>4 DEF SyncedBy
<1> DEFINE T == {d \in Nat : d <= n => AddsSince(s, c[d], from)}
<1>6. 0 \in T
  <2>1. AddsSince(s, s, from)
        BY DEF AddsSince
  <2> QED BY <1>5, <2>1
<1>7. ASSUME NEW d \in Nat, d \in T PROVE d + 1 \in T
  <2> SUFFICES ASSUME d + 1 <= n PROVE AddsSince(s, c[d + 1], from)
      OBVIOUS
  <2>1. d + 1 \in 1..n /\ d \in 0..n /\ (d + 1) - 1 = d /\ AddsSince(s, c[d], from)
        BY <1>2, <1>7
  <2>2. PICK a, b, item : a = c[d] /\ b = c[d + 1] /\ item = items[d + 1]
        OBVIOUS
  <2>3. a \in Seq(Points) /\ b = Synced(a, item, skew) /\ AddsSince(s, a, from)
        BY <1>5, <2>1, <2>2
  <2>4. item \in QueueItems /\ from <= item.payload.t - skew
        BY <1>2, <2>1, <2>2 DEF ItemsSince
  <2>5. AddsSince(a, b, from)
    <3>1. PICK p : p = SyncedPoint(item, skew)
          OBVIOUS
    <3>2. p \in Points /\ from <= p.t
          BY <2>4, <3>1, SyncedPointFact DEF SyncedPoint, Point
    <3>3. AddsSince(a, InsertByTime(a, p), from)
          BY <2>3, <3>2, InsertAdds
    <3>4. AddsSince(a, a, from)
          BY DEF AddsSince
    <3> QED BY <2>3, <3>1, <3>3, <3>4 DEF Synced
  <2>6. AddsSince(s, b, from)
        BY <2>3, <2>5 DEF AddsSince
  <2> QED BY <2>2, <2>6
<1>8. Nat \subseteq T
  <2> HIDE DEF T
  <2> QED BY <1>6, <1>7, StepByStep
<1>9. AddsSince(s, c[n], from)
      BY <1>2, <1>8
<1> QED BY <1>5, <1>9

(* A user's trail loses points at most, or gains points of his running      *)
(* session.                                                                 *)
Loses(s, r) == \A j \in 1..Len(r) : \E i \in 1..Len(s) : r[j] = s[i]

GainsOf(u) ==
    \/ Loses(trail[u], trail'[u])
    \/ u \in sharing \cap consent \cap active /\ AddsSince(trail[u], trail'[u], started[u])

(* Part of a trail adds nothing.                                            *)
LEMMA PartLoses ==
    ASSUME NEW s \in Seq(Points), NEW m \in 0..Len(s)
    PROVE  Loses(s, SubSeq(s, m + 1, Len(s)))
<1>1. PICK n, r : n = Len(s) /\ r = SubSeq(s, m + 1, n)
      OBVIOUS
<1>2. n \in Nat /\ m \in 0..n
      BY <1>1
<1>3. Len(r) = n - m /\ \A j \in 1..(n - m) : r[j] = s[m + j]
      BY <1>1, <1>2
<1>4. \A j \in 1..(n - m) : m + j \in 1..n
      BY <1>2
<1>5. Loses(s, r)
      BY <1>1, <1>3, <1>4 DEF Loses
<1> QED BY <1>1, <1>5

(* What a device brings was taken in the session.                           *)
LEMMA ReconnectGains ==
    ASSUME SessionInv, NEW u \in Users, Reconnect(u)
    PROVE  u \in sharing \cap consent \cap active /\ AddsSince(trail[u], trail'[u], started[u])
<1>1. PICK s, d, admitted : /\ s = trail[u] /\ d = device[u]
                            /\ admitted = Merge(d.queue.items, seen).admitted
      OBVIOUS
<1>2. u \in offline /\ u \in sharing \cap consent \cap active
      BY DEF Reconnect, SessionInv, TrailInv, ToldInv, ConsentGates
<1>3. now \in Int /\ s \in Seq(Points) /\ d.skew \in Int /\ started[u] \in Int /\ DOMAIN trail = Users
      BY <1>1 DEF SessionInv, SessionOf, TrailInv, ToldInv, Clocks
<1>4. PICK I : I = ItemsSince(started[u], d.skew)
      OBVIOUS
<1>5. d.queue.items \in Seq(I)
      BY <1>1, <1>2, <1>4 DEF SessionInv, SessionOf
<1>6. admitted \in Seq(I)
      BY <1>1, <1>5, MergeAdmits
<1>7. AddsSince(s, WithSynced(s, admitted, d.skew), started[u])
      BY <1>3, <1>4, <1>6, SyncedAdds
<1>8. trail' = [trail EXCEPT ![u] = WithSynced(s, admitted, d.skew)]
      BY <1>1 DEF Reconnect
<1>9. trail'[u] = WithSynced(s, admitted, d.skew)
      BY <1>3, <1>8
<1> QED BY <1>1, <1>2, <1>7, <1>9

(* A fix received online is one of the session.                             *)
LEMMA FixGains ==
    ASSUME SessionInv, NEW u \in Users, NEW t \in Int, NEW seq, NEW moved, NEW inside,
           RecordLate(u, t, seq, moved) \/ AcceptFix(u, t, seq, moved, inside)
    PROVE  u \in sharing \cap consent \cap active /\ AddsSince(trail[u], trail'[u], started[u])
<1>1. PICK s, p : s = trail[u] /\ p = Point(t, now)
      OBVIOUS
<1>2. u \in sharing \cap consent \cap active /\ started[u] <= t
      BY DEF RecordLate, AcceptFix, Admissible
<1>3. now \in Int /\ s \in Seq(Points) /\ started[u] \in Int /\ DOMAIN trail = Users
      BY <1>1 DEF SessionInv, SessionOf, TrailInv, ToldInv, Clocks
<1>4. p \in Points /\ p.t = t
      BY <1>1, <1>3 DEF Point, Points
<1>5. AddsSince(s, InsertByTime(s, p), started[u])
      BY <1>2, <1>3, <1>4, InsertAdds
<1>6. AddsSince(s, Trimmed(Append(s, p)), started[u])
      BY <1>2, <1>3, <1>4, AppendAdds
<1>7. trail' = [trail EXCEPT ![u] = InsertByTime(s, p)] \/ trail' = [trail EXCEPT ![u] = Trimmed(Append(s, p))]
      BY <1>1 DEF RecordLate, AcceptFix
<1>8. trail'[u] = InsertByTime(s, p) \/ trail'[u] = Trimmed(Append(s, p))
      BY <1>3, <1>7
<1> QED BY <1>1, <1>2, <1>5, <1>6, <1>8

(* Every step.                                                              *)
LEMMA GainsNext == SessionInv /\ [Next]_vars => \A u \in Users : GainsOf(u)
<1> SUFFICES ASSUME SessionInv, [Next]_vars PROVE \A u \in Users : GainsOf(u)
    OBVIOUS
<1>0. now \in Int /\ DOMAIN trail = Users /\ \A v \in Users : trail[v] \in Seq(Points)
      BY DEF SessionInv, TrailInv, ToldInv, Clocks
<1>1. ASSUME NEW v, trail'[v] = trail[v] PROVE GainsOf(v)
      BY <1>1 DEF GainsOf, Loses
<1>2. CASE UNCHANGED trail
      BY <1>1, <1>2
<1>3. CASE Tick
  <2>1. PICK cutoff : cutoff = (now + 1) - TrailRetention
        OBVIOUS
  <2>2. cutoff \in Int
        BY <1>0, <2>1, TrackingAssumption DEF TrackingAssumption
  <2>3. trail' = trail \/ trail' = [v \in Users |-> Retained(trail[v], cutoff)]
        BY <1>3, <2>1 DEF Tick
  <2>4. ASSUME NEW v \in Users, trail' = [w \in Users |-> Retained(trail[w], cutoff)] PROVE GainsOf(v)
    <3>1. PICK s, m : s = trail[v] /\ m = LowerBound(s, cutoff)
          OBVIOUS
    <3>2. s \in Seq(Points) /\ m \in 0..Len(s)
          BY <1>0, <2>2, <3>1, BoundsFact
    <3>3. trail'[v] = SubSeq(s, m + 1, Len(s))
          BY <2>4, <3>1 DEF Retained
    <3>4. Loses(s, SubSeq(s, m + 1, Len(s)))
          BY <3>2, PartLoses
    <3> QED BY <3>1, <3>3, <3>4 DEF GainsOf
  <2> QED BY <1>2, <2>3, <2>4
<1>4. ASSUME NEW u \in Users, EraseHistory(u) PROVE \A v \in Users : GainsOf(v)
  <2>1. trail' = [trail EXCEPT ![u] = <<>>]
        BY <1>4 DEF EraseHistory
  <2>2. Loses(trail[u], <<>>)
        BY DEF Loses
  <2>3. trail'[u] = <<>> /\ \A v \in Users : v # u => trail'[v] = trail[v]
        BY <1>0, <2>1
  <2> QED BY <1>1, <2>2, <2>3 DEF GainsOf
<1>5. ASSUME NEW u \in Users, NEW r, trail' = [trail EXCEPT ![u] = r],
             u \in sharing \cap consent \cap active, AddsSince(trail[u], trail'[u], started[u])
      PROVE  \A v \in Users : GainsOf(v)
  <2>1. \A v \in Users : v # u => trail'[v] = trail[v]
        BY <1>0, <1>5
  <2>2. GainsOf(u)
        BY <1>5 DEF GainsOf
  <2> QED BY <1>1, <2>1, <2>2
<1>6. ASSUME NEW u \in Users, Reconnect(u) PROVE \A v \in Users : GainsOf(v)
  <2>1. PICK r : trail' = [trail EXCEPT ![u] = r]
        BY <1>6 DEF Reconnect
  <2> QED BY <1>5, <1>6, <2>1, ReconnectGains
<1>7. ASSUME NEW u \in Users, NEW t \in FixTimes, NEW seq, NEW moved, NEW inside,
             RecordLate(u, t, seq, moved) \/ AcceptFix(u, t, seq, moved, inside)
      PROVE  \A v \in Users : GainsOf(v)
  <2>1. t \in Int
        BY DEF FixTimes
  <2>2. PICK r : trail' = [trail EXCEPT ![u] = r]
        BY <1>7 DEF RecordLate, AcceptFix
  <2> QED BY <1>5, <1>7, <2>1, <2>2, FixGains
<1>8. ASSUME NEW u \in Users, StartSharing(u) \/ StopSharing(u) \/ ResolveAlert(u) PROVE UNCHANGED trail
      BY <1>8 DEF StartSharing, StopSharing, EndSession, ResolveAlert, tracked
<1>9. ASSUME NEW u \in Users, NEW value \in BOOLEAN, SetConsent(u, value) \/ SetActive(u, value) \/ DeviceFix(u, value)
      PROVE  UNCHANGED trail
      BY <1>9 DEF SetConsent, SetActive, DeviceFix, EndSession, Sessions, tracked
<1>10. ASSUME NEW u \in Users, NEW value \in BatterySettings, SetBatteryAware(u, value) PROVE UNCHANGED trail
       BY <1>10 DEF SetBatteryAware, tracked
<1>11. ASSUME NEW u \in Users, NEW skew \in Skews, GoOffline(u, skew) PROVE UNCHANGED trail
       BY <1>11 DEF GoOffline, tracked
<1>12. CASE UNCHANGED vars
       BY <1>2, <1>12 DEF vars, tracked
<1>13. CASE \E u \in Users, t \in FixTimes, seq \in Seqs, moved \in BOOLEAN :
               \/ RecordLate(u, t, seq, moved)
               \/ \E inside \in BOOLEAN : AcceptFix(u, t, seq, moved, inside)
       BY <1>7, <1>13
<1> QED BY <1>2, <1>3, <1>4, <1>6, <1>8, <1>9, <1>10, <1>11, <1>12, <1>13 DEF Next

(* A position enters the trail only while its user shares with consent and  *)
(* is active, and only if it was taken in the running session: whether it   *)
(* came at once, late, or from the queue of a device that was offline with  *)
(* a clock of its own, and whatever sessions, withdrawals and               *)
(* deactivations came before (ingest_fix, reconnect, stop_sharing).         *)
THEOREM TrailsGrowInSessions == Spec => PositionsNeedASession
<1>1. SessionInv /\ [Next]_vars => [PositionNeedsASession]_vars
  <2> SUFFICES ASSUME SessionInv, [Next]_vars, NEW u \in Users,
                      NEW p \in Range(trail'[u]) \ Range(trail[u])
               PROVE  u \in sharing \cap consent \cap active /\ started[u] <= p.t
      BY DEF PositionNeedsASession
  <2>1. trail[u] \in Seq(Points) /\ trail'[u] \in Seq(Points)
        BY TrailNext DEF SessionInv, TrailInv, TrailStep, PastKept
  <2>2. PICK j \in 1..Len(trail'[u]) : p = trail'[u][j]
        BY <2>1 DEF Range
  <2>3. ~ \E i \in 1..Len(trail[u]) : p = trail[u][i]
        BY <2>1 DEF Range
  <2>4. GainsOf(u)
        BY GainsNext
  <2> QED BY <2>2, <2>3, <2>4 DEF GainsOf, Loses, AddsSince
<1> QED BY <1>1, SessionInit, SessionNext, PTL DEF Spec, PositionsNeedASession
=============================================================================
