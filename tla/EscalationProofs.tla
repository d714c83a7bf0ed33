-------------------------- MODULE EscalationProofs --------------------------
(***************************************************************************)
(* Theorems of module Escalation, for any set of alerts, timeout, grid and *)
(* number of slots: the wheel holds exactly the timers of the alerts on    *)
(* the clock and counts them, tracker and platform agree on who is         *)
(* waiting, and together they implement Deadlines.                         *)
(***************************************************************************)
EXTENDS Escalation, FiniteSetTheorems, TLAPS

-----------------------------------------------------------------------------
(* Arithmetic of the grid. *)

LEMMA DivBounds ==
    ASSUME NEW n \in Nat, NEW T \in Nat \ {0}
    PROVE  /\ n \div T \in Nat
           /\ (n \div T) * T <= n
           /\ n < (n \div T) * T + T
BY SMTT(30)

LEMMA TimesMonotone ==
    ASSUME NEW a \in Nat, NEW b \in Nat, NEW T \in Nat \ {0}, a <= b
    PROVE  a * T <= b * T
BY SMTT(30)

LEMMA DivLower ==
    ASSUME NEW n \in Nat, NEW T \in Nat \ {0}, NEW k \in Nat, k * T <= n
    PROVE  k <= n \div T
<1>1. SUFFICES ASSUME n \div T < k PROVE FALSE
      BY DivBounds, SMTT(30)
<1> DEFINE q == n \div T
<1>2. q \in Nat /\ n < q * T + T
      BY DivBounds
<1> HIDE DEF q
<1>3. q + 1 <= k
      BY <1>1, <1>2 DEF q
<1>4. (q + 1) * T <= k * T
      BY <1>2, <1>3, TimesMonotone
<1>5. (q + 1) * T = q * T + T
      BY <1>2, SMTT(30)
<1> QED BY <1>2, <1>4, <1>5, SMTT(30)

LEMMA SlotOfIsASlot == \A t \in Nat : SlotOf(t) \in SlotIds
<1>1. ASSUME NEW n \in Nat, NEW T \in Nat \ {0} PROVE n % T \in 0 .. T - 1
      BY SMTT(30)
<1> QED BY <1>1, EscalationAssumption DEF SlotOf, SlotIds, EscalationAssumption

LEMMA CeilDivNat == \A d \in Nat : CeilDiv(d) \in Nat
<1> SUFFICES ASSUME NEW d \in Nat, d > 0 PROVE (d + TickMs - 1) \div TickMs \in Nat
    BY DEF CeilDiv
<1>1. TickMs \in Nat \ {0} /\ d + TickMs - 1 \in Nat
      BY EscalationAssumption DEF EscalationAssumption
<1> QED BY <1>1, DivBounds

(* A deadline still to come expires on a tick still to come. *)
LEMMA CeilDivAfter ==
    ASSUME NEW d \in Nat, NEW k \in Nat, k * TickMs < d
    PROVE  k < CeilDiv(d)
<1>1. TickMs \in Nat \ {0}
      BY EscalationAssumption DEF EscalationAssumption
<1>2. k * TickMs \in Nat /\ (k + 1) * TickMs = k * TickMs + TickMs
      BY <1>1, SMTT(30)
<1>3. d > 0 /\ d + TickMs - 1 \in Nat /\ (k + 1) * TickMs <= d + TickMs - 1
      BY <1>1, <1>2
<1>4. k + 1 <= (d + TickMs - 1) \div TickMs
      BY <1>1, <1>3, DivLower
<1> QED BY <1>1, <1>3, <1>4, DivBounds DEF CeilDiv

-----------------------------------------------------------------------------
(* The inductive invariant. *)

Numbers ==
    /\ now \in Nat /\ cur \in Nat
    /\ cur * TickMs <= now
    /\ deadline \in [Alerts -> Nat]

Between ==
    /\ phase \in {"idle", "tick", "advance"}
    /\ phase # "advance" => fired = {}
    /\ fired \subseteq Alerts
    /\ \A a \in fired : status[a] = "Armed"

Tables ==
    /\ alert \in [Alerts -> {"None", "Open", "Acknowledged", "Closed"}]
    /\ status \in [Alerts -> {"Unknown", "Armed", "Acknowledged", "Escalated"}]
    /\ \A a \in Alerts : alert[a] = "None" => status[a] = "Unknown"
    /\ wheel \in [SlotIds -> SUBSET [id : Alerts, expiry : Nat]]

(* Nothing has fired early, and outside tick() the wheel has caught up.     *)
Punctual ==
    /\ \A a \in Alerts : a \in fired \/ status[a] = "Escalated" => deadline[a] <= now
    /\ phase = "idle" => now < cur * TickMs + TickMs

IInv == Numbers /\ Between /\ Tables /\ ArmedIsOpen /\ Punctual /\ WheelHoldsWaiting

LEMMA InvInit == Init => IInv
BY EscalationAssumption DEF Init, IInv, Numbers, Between, Tables, ArmedIsOpen, Punctual, WheelHoldsWaiting, Waiting,
   EscalationAssumption

(* A waiting alert's timer is where cancel() will look for it. *)
LEMMA ExpiryOfWaiting ==
    ASSUME IInv, NEW a \in Alerts, Waiting(a)
    PROVE  ExpiryTick(deadline[a]) = CeilDiv(deadline[a])
BY CeilDivNat DEF IInv, Numbers, WheelHoldsWaiting, ExpiryTick

LEMMA ArmStep ==
    ASSUME IInv, NEW a \in Alerts, NEW raised \in Nat, now <= raised,
           status[a] = "Unknown", Arm(a, raised), phase # "advance",
           phase' = phase, now' = now, alert' = [alert EXCEPT ![a] = "Open"], escalated' = escalated
    PROVE  IInv'
<1> DEFINE d == raised + Timeout
           t == CeilDiv(d)
<1>1. d \in Nat /\ now < d
      BY EscalationAssumption DEF EscalationAssumption, IInv, Numbers
<1>2. cur * TickMs < d
  <2>1. cur * TickMs \in Nat
        BY EscalationAssumption, SMTT(30) DEF EscalationAssumption, IInv, Numbers
  <2> QED BY <1>1, <2>1 DEF IInv, Numbers
<1>3. t \in Nat /\ cur < t
      BY <1>1, <1>2, CeilDivNat, CeilDivAfter DEF IInv, Numbers
<1>4. SlotOf(t) \in SlotIds
      BY <1>3, SlotOfIsASlot
<1>5. ExpiryTick(d) = t
      BY <1>3 DEF ExpiryTick, IInv, Numbers
<1>6. /\ status' = [status EXCEPT ![a] = "Armed"]
      /\ deadline' = [deadline EXCEPT ![a] = d]
      /\ wheel' = [wheel EXCEPT ![SlotOf(t)] = wheel[SlotOf(t)] \cup {Entry(a, t)}]
      /\ cur' = cur /\ fired' = fired
      BY <1>5 DEF Arm, Schedule
<1> HIDE DEF d, t
<1>7. a \notin fired
      BY DEF IInv, Between
<1>8. deadline'[a] = d /\ CeilDiv(deadline'[a]) = t
      BY <1>6 DEF t, IInv, Numbers
<1>9. Numbers'
      BY <1>1, <1>6 DEF IInv, Numbers
<1>10. Between'
      BY <1>6 DEF IInv, Between, Tables
<1>11. Tables'
      BY <1>3, <1>4, <1>6 DEF IInv, Tables, Entry
<1>12. ArmedIsOpen' /\ Punctual'
      BY <1>6, <1>7 DEF IInv, Tables, ArmedIsOpen, Punctual, Numbers
<1>13. ASSUME NEW b \in Alerts, Waiting(b)'
       PROVE  /\ CeilDiv(deadline'[b]) > cur'
              /\ Entry(b, CeilDiv(deadline'[b])) \in wheel'[SlotOf(CeilDiv(deadline'[b]))]
  <2>1. CASE b = a
        BY <1>3, <1>4, <1>6, <1>8, <2>1 DEF IInv, Tables
  <2>2. CASE b # a
    <3>1. Waiting(b) /\ deadline'[b] = deadline[b]
          BY <1>6, <1>13, <2>2 DEF Waiting, IInv, Tables, Numbers
    <3>2. CeilDiv(deadline[b]) > cur /\ CeilDiv(deadline[b]) \in Nat
          BY <3>1, CeilDivNat DEF IInv, WheelHoldsWaiting, Numbers
    <3>3. SlotOf(CeilDiv(deadline[b])) \in SlotIds
          BY <3>2, SlotOfIsASlot
    <3> QED BY <1>6, <3>1, <3>2, <3>3 DEF IInv, WheelHoldsWaiting, Tables
  <2> QED BY <2>1, <2>2
<1>14. ASSUME NEW s \in SlotIds, NEW e \in wheel'[s]
       PROVE  Waiting(e.id)' /\ e.expiry = CeilDiv(deadline'[e.id]) /\ s = SlotOf(e.expiry)
  <2>1. CASE e \in wheel[s]
    <3>1. e.id \in Alerts /\ Waiting(e.id) /\ e.expiry = CeilDiv(deadline[e.id]) /\ s = SlotOf(e.expiry)
          BY <2>1 DEF IInv, WheelHoldsWaiting, Tables
    <3>2. e.id # a
          BY <3>1 DEF Waiting
    <3> QED BY <1>6, <3>1, <3>2 DEF Waiting, IInv, Tables, Numbers
  <2>2. CASE e \notin wheel[s]
    <3>1. s = SlotOf(t) /\ e = Entry(a, t)
          BY <1>4, <1>6, <2>2 DEF IInv, Tables
    <3>2. e.id = a /\ e.expiry = t
          BY <3>1 DEF Entry
    <3>3. Waiting(a)'
          BY <1>6, <1>7 DEF Waiting, IInv, Tables
    <3> QED BY <1>8, <3>1, <3>2, <3>3
  <2> QED BY <2>1, <2>2
<1> QED BY <1>9, <1>10, <1>11, <1>12, <1>13, <1>14 DEF IInv, WheelHoldsWaiting

LEMMA AcknowledgeStep ==
    ASSUME IInv, NEW a \in Alerts, NEW s \in {"Acknowledged", "Closed"}, AcknowledgeTimer(a),
           phase # "advance", phase' = phase, now' = now, alert' = [alert EXCEPT ![a] = s],
           alert[a] # "None", escalated' = escalated
    PROVE  IInv'
<1>1. CASE status[a] # "Armed"
  <2>1. UNCHANGED <<status, deadline, cur, wheel, fired>>
        BY <1>1 DEF AcknowledgeTimer, tracker, timers
  <2> QED BY <1>1, <2>1 DEF IInv, Numbers, Between, Tables, ArmedIsOpen, Punctual,
        WheelHoldsWaiting, Waiting
<1>2. CASE status[a] = "Armed"
  <2> DEFINE t == CeilDiv(deadline[a])
  <2>1. Waiting(a)
        BY <1>2 DEF Waiting, IInv, Between
  <2>2. t \in Nat /\ SlotOf(t) \in SlotIds
        BY CeilDivNat, SlotOfIsASlot DEF IInv, Numbers
  <2>3. /\ status' = [status EXCEPT ![a] = "Acknowledged"]
        /\ wheel' = [wheel EXCEPT ![SlotOf(t)] = wheel[SlotOf(t)] \ {Entry(a, t)}]
        /\ UNCHANGED <<deadline, cur, fired>>
        BY <1>2, <2>1, ExpiryOfWaiting DEF AcknowledgeTimer, CancelTimer
  <2> HIDE DEF t
  <2>4. Numbers'
        BY <2>3 DEF IInv, Numbers
  <2>5. Between'
        BY <2>3 DEF IInv, Between
  <2>6. Tables'
        BY <2>2, <2>3 DEF IInv, Tables
  <2>7. ArmedIsOpen' /\ Punctual'
        BY <2>3 DEF IInv, Tables, ArmedIsOpen, Punctual
  <2>8. ASSUME NEW b \in Alerts, Waiting(b)'
        PROVE  /\ CeilDiv(deadline'[b]) > cur'
               /\ Entry(b, CeilDiv(deadline'[b])) \in wheel'[SlotOf(CeilDiv(deadline'[b]))]
    <3>1. b # a /\ Waiting(b)
          BY <2>3, <2>8 DEF Waiting, IInv, Tables
    <3>2. Entry(b, CeilDiv(deadline[b])) # Entry(a, t)
          BY <3>1 DEF Entry
    <3>3. SlotOf(CeilDiv(deadline[b])) \in SlotIds
          BY SlotOfIsASlot, CeilDivNat DEF IInv, Numbers
    <3> QED BY <2>2, <2>3, <3>1, <3>2, <3>3 DEF IInv, WheelHoldsWaiting, Tables
  <2>9. ASSUME NEW q \in SlotIds, NEW e \in wheel'[q]
        PROVE  Waiting(e.id)' /\ e.expiry = CeilDiv(deadline'[e.id]) /\ q = SlotOf(e.expiry)
    <3>1. e \in wheel[q]
          BY <2>2, <2>3 DEF IInv, Tables
    <3>2. e \in [id : Alerts, expiry : Nat] /\ Waiting(e.id)
          /\ e.expiry = CeilDiv(deadline[e.id]) /\ q = SlotOf(e.expiry)
          BY <3>1 DEF IInv, WheelHoldsWaiting, Tables
    <3>3. e.id # a
      <4>1. SUFFICES ASSUME e.id = a PROVE FALSE
            OBVIOUS
      <4>2. e = Entry(a, t) /\ q = SlotOf(t)
            BY <3>2, <4>1 DEF Entry, t
      <4> QED BY <2>2, <2>3, <4>2 DEF IInv, Tables
    <3> QED BY <2>3, <3>2, <3>3 DEF Waiting, IInv, Tables
  <2> QED BY <2>4, <2>5, <2>6, <2>7, <2>8, <2>9 DEF IInv, WheelHoldsWaiting
<1> QED BY <1>1, <1>2

(* A deadline that expires by tick k is not after tick k. *)
LEMMA CeilDivBy ==
    ASSUME NEW d \in Nat, NEW k \in Nat, CeilDiv(d) <= k
    PROVE  d <= k * TickMs
<1>1. TickMs \in Nat \ {0} /\ k * TickMs \in Nat
      BY EscalationAssumption, SMTT(30) DEF EscalationAssumption
<1>2. ~(k * TickMs < d)
      BY CeilDivAfter, CeilDivNat
<1> QED BY <1>1, <1>2

LEMMA AdvanceTickStep == IInv /\ AdvanceTick => IInv'
<1> SUFFICES ASSUME IInv, AdvanceTick PROVE IInv'
    OBVIOUS
<1> DEFINE t == cur + 1
<1>1. t \in Nat /\ SlotOf(t) \in SlotIds
      BY SlotOfIsASlot DEF IInv, Numbers
<1>2. /\ phase = "advance" /\ cur < Target /\ cur' = t
      /\ wheel' = [wheel EXCEPT ![SlotOf(t)] = wheel[SlotOf(t)] \ Due(t)]
      /\ fired' = fired \cup {e.id : e \in Due(t)}
      /\ UNCHANGED <<now, phase, alert, severity, escalated, status, deadline>>
      BY DEF AdvanceTick, board, tracker
<1>3. t * TickMs <= now
  <2>1. TickMs \in Nat \ {0} /\ now \in Nat /\ Target \in Nat /\ Target * TickMs <= now
        BY EscalationAssumption, DivBounds DEF EscalationAssumption, IInv, Numbers, Target
  <2>2. t <= Target
        BY <1>1, <1>2, <2>1 DEF IInv, Numbers
  <2> DEFINE x == t * TickMs
             y == Target * TickMs
  <2>3. x \in Nat /\ y \in Nat /\ x <= y /\ y <= now
        BY <1>1, <2>1, <2>2, TimesMonotone, SMTT(30)
  <2> HIDE DEF x, y
  <2>4. x <= now
        BY <2>1, <2>3
  <2> QED BY <2>4 DEF x
<1> HIDE DEF t
<1>4. \A e \in Due(t) : /\ e \in wheel[SlotOf(t)] /\ e.expiry <= t
                        /\ e.id \in Alerts /\ Waiting(e.id) /\ e.expiry = CeilDiv(deadline[e.id])
      BY <1>1 DEF Due, IInv, Tables, WheelHoldsWaiting
<1>5. Numbers'
      BY <1>1, <1>2, <1>3 DEF IInv, Numbers
<1>6. Between'
      BY <1>2, <1>4 DEF IInv, Between, Waiting
<1>7. Tables'
      BY <1>1, <1>2 DEF IInv, Tables
<1>8. ArmedIsOpen'
      BY <1>2 DEF IInv, ArmedIsOpen
<1>9. Punctual'
  <2>1. ASSUME NEW e \in Due(t) PROVE deadline[e.id] <= now
    <3>1. deadline[e.id] \in Nat /\ CeilDiv(deadline[e.id]) <= t
          BY <1>4 DEF IInv, Numbers
    <3>2. deadline[e.id] <= t * TickMs
          BY <1>1, <3>1, CeilDivBy
    <3>3. t * TickMs \in Nat /\ now \in Nat
          BY <1>1, EscalationAssumption, SMTT(30) DEF EscalationAssumption, IInv, Numbers
    <3> DEFINE x == t * TickMs
    <3>4. deadline[e.id] <= x /\ x <= now /\ x \in Nat
          BY <3>2, <3>3, <1>3
    <3> HIDE DEF x
    <3> QED BY <3>1, <3>3, <3>4
  <2> QED BY <1>2, <2>1 DEF IInv, Punctual
<1>10. ASSUME NEW b \in Alerts, Waiting(b)'
       PROVE  /\ CeilDiv(deadline'[b]) > cur'
              /\ Entry(b, CeilDiv(deadline'[b])) \in wheel'[SlotOf(CeilDiv(deadline'[b]))]
  <2> DEFINE c == CeilDiv(deadline[b])
             e == Entry(b, c)
  <2>1. Waiting(b) /\ b \notin {f.id : f \in Due(t)}
        BY <1>2, <1>10 DEF Waiting
  <2>2. c \in Nat /\ c > cur /\ SlotOf(c) \in SlotIds /\ e \in wheel[SlotOf(c)]
        BY <2>1, CeilDivNat, SlotOfIsASlot DEF IInv, WheelHoldsWaiting, Numbers
  <2>3. e.id = b /\ e.expiry = c
        BY DEF Entry
  <2> HIDE DEF c, e
  <2>4. e \notin Due(t)
        BY <2>1, <2>3
  <2>5. c # t
        BY <2>2, <2>3, <2>4, <1>1 DEF Due
  <2>6. c > t
        BY <2>2, <2>5 DEF t, IInv, Numbers
  <2>7. e \in wheel'[SlotOf(c)]
        BY <1>1, <1>2, <2>2, <2>4 DEF IInv, Tables
  <2> QED BY <1>2, <2>6, <2>7 DEF c, e
<1>11. ASSUME NEW s \in SlotIds, NEW e \in wheel'[s]
       PROVE  Waiting(e.id)' /\ e.expiry = CeilDiv(deadline'[e.id]) /\ s = SlotOf(e.expiry)
  <2>1. e \in wheel[s] /\ (s = SlotOf(t) => e \notin Due(t))
        BY <1>1, <1>2 DEF IInv, Tables
  <2>2. /\ e \in [id : Alerts, expiry : Nat]
        /\ Waiting(e.id) /\ e.expiry = CeilDiv(deadline[e.id]) /\ s = SlotOf(e.expiry)
        BY <2>1 DEF IInv, Tables, WheelHoldsWaiting
  <2>3. ASSUME NEW f \in Due(t), f.id = e.id PROVE FALSE
    <3>1. f \in wheel[SlotOf(t)] /\ f \in [id : Alerts, expiry : Nat] /\ f.expiry = e.expiry
          /\ SlotOf(t) = SlotOf(f.expiry)
          BY <1>1, <1>4, <2>2, <2>3 DEF IInv, Tables, WheelHoldsWaiting
    <3>2. f = e /\ s = SlotOf(t)
          BY <2>2, <2>3, <3>1
    <3> QED BY <2>1, <3>2
  <2> QED BY <1>2, <2>2, <2>3 DEF Waiting
<1> QED BY <1>5, <1>6, <1>7, <1>8, <1>9, <1>10, <1>11 DEF IInv, WheelHoldsWaiting

LEMMA EscalateStep == IInv /\ Escalate => IInv'
<1> SUFFICES ASSUME IInv, Escalate PROVE IInv'
    OBVIOUS
<1>1. Escalating = fired
      BY DEF Escalating, IInv, Between
<1> DEFINE fate(F) == [a \in Alerts |-> IF a \in F THEN "Escalated" ELSE status[a]]
           gone(F) == escalated \cup {a \in F : alert[a] = "Open"}
<1>a. status' = fate(Escalating) /\ escalated' = gone(Escalating)
      BY DEF Escalate
<1> HIDE DEF fate, gone
<1>b. status' = fate(fired) /\ escalated' = gone(fired)
      BY <1>1, <1>a
<1> USE DEF fate, gone
<1>2. /\ phase' = "idle" /\ fired' = {}
      /\ status' = [a \in Alerts |-> IF a \in fired THEN "Escalated" ELSE status[a]]
      /\ escalated' = escalated \cup {a \in fired : alert[a] = "Open"}
      /\ UNCHANGED <<now, alert, deadline, cur, wheel>>
      BY <1>b DEF Escalate
<1> HIDE DEF fate, gone
<1>3. \A a \in Alerts : Waiting(a)' <=> Waiting(a)
      BY <1>2 DEF Waiting
<1>4. Numbers' /\ Between' /\ Tables'
      BY <1>2 DEF IInv, Numbers, Between, Tables
<1>5. ArmedIsOpen'
      BY <1>2 DEF IInv, Between, ArmedIsOpen
<1>6. Punctual'
  <2>1. TickMs \in Nat \ {0} /\ Target \in Nat /\ now < Target * TickMs + TickMs
        BY EscalationAssumption, DivBounds DEF EscalationAssumption, Target, IInv, Numbers
  <2>2. Target <= cur /\ cur \in Nat /\ now \in Nat
        BY <2>1 DEF Escalate, IInv, Numbers
  <2> DEFINE x == Target * TickMs
             y == cur * TickMs
  <2>3. x \in Nat /\ y \in Nat /\ x <= y /\ now < x + TickMs
        BY <2>1, <2>2, TimesMonotone, SMTT(30)
  <2> HIDE DEF x, y
  <2>4. now < y + TickMs
        BY <2>1, <2>2, <2>3
  <2> QED BY <1>2, <2>4 DEF y, IInv, Punctual
<1>7. WheelHoldsWaiting'
      BY <1>2, <1>3 DEF IInv, WheelHoldsWaiting, Tables
<1> QED BY <1>4, <1>5, <1>6, <1>7 DEF IInv

LEMMA InvNext == IInv /\ [Next]_vars => IInv'
<1> SUFFICES ASSUME IInv, [Next]_vars PROVE IInv'
    OBVIOUS
<1>1. CASE AdvanceBegins
  <2>1. /\ phase = "tick" /\ phase' = "advance"
        /\ UNCHANGED <<now, alert, escalated, status, deadline, cur, wheel, fired>>
        BY <1>1 DEF AdvanceBegins, board, tracker, timers
  <2> QED BY <2>1 DEF IInv, Numbers, Between, Tables, ArmedIsOpen, Punctual, WheelHoldsWaiting,
        Waiting
<1>2. CASE AdvanceTick
      BY <1>2, AdvanceTickStep
<1>3. CASE Escalate
      BY <1>3, EscalateStep
<1>4. ASSUME NEW time \in 0 .. MaxNow, TickBegins(time) PROVE IInv'
  <2>1. /\ phase = "idle" /\ phase' = "tick" /\ now <= time /\ now' = time /\ time \in Nat
        /\ UNCHANGED <<alert, escalated, status, deadline, cur, wheel, fired>>
        BY <1>4, EscalationAssumption DEF TickBegins, board, tracker, timers, EscalationAssumption
  <2>2. Numbers'
    <3> DEFINE x == cur * TickMs
    <3>1. x \in Nat /\ x <= now
          BY EscalationAssumption, SMTT(30) DEF IInv, Numbers, EscalationAssumption
    <3>2. cur' * TickMs = x
          BY <2>1
    <3> HIDE DEF x
    <3>3. x <= now'
          BY <2>1, <3>1 DEF IInv, Numbers
    <3> QED BY <2>1, <3>2, <3>3 DEF IInv, Numbers
  <2>3. Punctual'
        BY <2>1 DEF IInv, Numbers, Punctual
  <2> QED BY <2>1, <2>2, <2>3 DEF IInv, Between, Tables, ArmedIsOpen, WheelHoldsWaiting, Waiting
<1>5. ASSUME NEW a \in Alerts, NEW s \in {"Acknowledged", "Closed"}, SetAlertState(a, s)
      PROVE  IInv'
  <2>1. /\ AcknowledgeTimer(a) /\ phase # "advance" /\ phase' = phase /\ now' = now
        /\ alert' = [alert EXCEPT ![a] = s] /\ alert[a] # "None" /\ escalated' = escalated
        BY <1>5 DEF SetAlertState, OpenStates
  <2> QED BY <2>1, AcknowledgeStep
<1>6. ASSUME NEW a \in Alerts, NEW sev \in {3, 5}, NEW worthy \in BOOLEAN,
             NEW raised \in now .. now + Ahead, Raise(a, sev, worthy, raised)
      PROVE  IInv'
  <2>1. /\ phase # "advance" /\ phase' = phase /\ now' = now /\ alert[a] = "None"
        /\ alert' = [alert EXCEPT ![a] = "Open"] /\ escalated' = escalated
        BY <1>6 DEF Raise
  <2>2. raised \in Nat /\ now <= raised
        BY EscalationAssumption DEF EscalationAssumption, IInv, Numbers
  <2>3. status[a] = "Unknown"
        BY <2>1 DEF IInv, Tables
  <2>4. CASE worthy
    <3>1. Arm(a, raised)
          BY <1>6, <2>4 DEF Raise
    <3> QED BY <2>1, <2>2, <2>3, <3>1, ArmStep
  <2>5. CASE ~worthy
    <3>1. UNCHANGED <<status, deadline, cur, wheel, fired>>
          BY <1>6, <2>5 DEF Raise, tracker, timers
    <3> QED BY <2>1, <2>3, <3>1 DEF IInv, Numbers, Between, Tables, ArmedIsOpen, Punctual,
          WheelHoldsWaiting, Waiting
  <2> QED BY <2>4, <2>5
<1>7. CASE UNCHANGED vars
      BY <1>7 DEF vars, board, tracker, timers, IInv, Numbers, Between, Tables, ArmedIsOpen,
        Punctual, WheelHoldsWaiting, Waiting
<1> QED BY <1>1, <1>2, <1>3, <1>4, <1>5, <1>6, <1>7 DEF Next

LEMMA Invariant == Spec => []IInv
BY InvInit, InvNext, PTL DEF Spec

-----------------------------------------------------------------------------
(* The theorems. *)

(* The wheel holds one timer for each alert on the clock, where advance()   *)
(* and cancel() look for it, and no other.                                  *)
THEOREM WheelIsSound == Spec => []WheelHoldsWaiting
<1>1. IInv => WheelHoldsWaiting
      BY DEF IInv
<1> QED BY <1>1, Invariant, PTL

(* An armed alert is open and an escalated one was escalated on the board   *)
(* (raise_alert, set_alert_state, escalate).                                *)
THEOREM TrackerAgrees == Spec => []ArmedIsOpen
<1>1. IInv => ArmedIsOpen
      BY DEF IInv
<1> QED BY <1>1, Invariant, PTL

LEMMA ExpiryInTime ==
    ASSUME NEW d \in Nat, NEW k \in Nat, k < CeilDiv(d)
    PROVE  k * TickMs < d
<1>1. TickMs \in Nat \ {0}
      BY EscalationAssumption DEF EscalationAssumption
<1>2. d > 0 /\ d + TickMs - 1 \in Nat /\ CeilDiv(d) = (d + TickMs - 1) \div TickMs
      BY <1>1 DEF CeilDiv
<1> DEFINE q == (d + TickMs - 1) \div TickMs
           x == q * TickMs
           y == k * TickMs
<1>3. q \in Nat /\ x <= d + TickMs - 1 /\ k + 1 <= q
      BY <1>1, <1>2, DivBounds
<1> HIDE DEF q
<1>4. x \in Nat /\ y \in Nat /\ (k + 1) * TickMs = y + TickMs
      BY <1>1, <1>3, SMTT(30)
<1>5. (k + 1) * TickMs <= x
      BY <1>1, <1>3, TimesMonotone
<1> HIDE DEF x, y
<1>6. y < d
      BY <1>1, <1>3, <1>4, <1>5
<1> QED BY <1>6 DEF y

(* No alert escalates before its deadline; none is still on the clock a     *)
(* whole wheel tick after it once tick() has returned.                      *)
THEOREM EscalationIsPunctual == Spec => []EscalatesOnTime
<1>1. ASSUME IInv PROVE EscalatesOnTime
  <2>1. ASSUME NEW a \in Alerts, phase = "idle", status[a] = "Armed"
        PROVE  now < deadline[a] + TickMs
    <3>1. Waiting(a)
          BY <1>1, <2>1 DEF IInv, Between, Waiting
    <3>2. deadline[a] \in Nat /\ cur \in Nat /\ cur < CeilDiv(deadline[a])
          BY <1>1, <3>1, CeilDivNat DEF IInv, Numbers, WheelHoldsWaiting
    <3> DEFINE y == cur * TickMs
    <3>3. y < deadline[a]
          BY <3>2, ExpiryInTime
    <3>4. now < y + TickMs
          BY <1>1, <2>1 DEF IInv, Punctual
    <3>5. y \in Nat /\ TickMs \in Nat /\ now \in Nat
          BY <1>1, EscalationAssumption, SMTT(30) DEF IInv, Numbers, EscalationAssumption
    <3> HIDE DEF y
    <3> QED BY <3>2, <3>3, <3>4, <3>5
  <2>2. \A a \in Alerts : status[a] = "Escalated" => deadline[a] <= now
        BY <1>1 DEF IInv, Punctual
  <2> QED BY <2>1, <2>2 DEF EscalatesOnTime
<1> QED BY <1>1, Invariant, PTL

-----------------------------------------------------------------------------
(* The refinement. *)

States == [a \in Alerts |-> AbstractState(a)]
Ats == [a \in Alerts |-> AbstractAt(a)]

LEMMA StepStutters ==
    ASSUME UNCHANGED <<status, deadline, cur>>, \A a \in Alerts : Waiting(a)' <=> Waiting(a)
    PROVE  UNCHANGED <<cur, States, Ats>>
<1>1. ASSUME NEW a \in Alerts PROVE AbstractState(a)' = AbstractState(a)
  <2>1. status'[a] = status[a] /\ (status[a] = "Armed" => (a \in fired' <=> a \in fired))
        BY DEF Waiting
  <2>2. CASE status[a] = "Armed"
        BY <2>1, <2>2 DEF AbstractState
  <2>3. CASE status[a] # "Armed"
        BY <2>1, <2>3 DEF AbstractState
  <2> QED BY <2>2, <2>3
<1>2. ASSUME NEW a \in Alerts PROVE AbstractAt(a)' = AbstractAt(a)
      BY DEF AbstractAt, CeilDiv
<1> QED BY <1>1, <1>2 DEF States, Ats

LEMMA ArmSets ==
    ASSUME IInv, IInv', NEW a \in Alerts, NEW raised \in Nat, status[a] = "Unknown", Arm(a, raised)
    PROVE  D!Set(a)
<1> DEFINE d == raised + Timeout
<1>1. /\ status' = [status EXCEPT ![a] = "Armed"]
      /\ deadline' = [deadline EXCEPT ![a] = d]
      /\ cur' = cur /\ fired' = fired
      BY DEF Arm, Schedule
<1> HIDE DEF d
<1>2. a \notin fired /\ Waiting(a)'
      BY <1>1 DEF Waiting, IInv, Between, Tables
<1>3. AbstractState(a) = "none" /\ AbstractState(a)' = "waiting"
      BY <1>1, <1>2 DEF AbstractState, Waiting, IInv, Tables
<1>4. AbstractAt(a)' \in Nat /\ AbstractAt(a)' > cur
      BY <1>1, <1>2, CeilDivNat DEF AbstractAt, IInv, WheelHoldsWaiting, Numbers, Waiting
<1>5. ASSUME NEW b \in Alerts, b # a
      PROVE  AbstractState(b)' = AbstractState(b) /\ AbstractAt(b)' = AbstractAt(b)
  <2>1. status'[b] = status[b] /\ deadline'[b] = deadline[b] /\ fired' = fired
        BY <1>1, <1>5 DEF IInv, Tables, Numbers
  <2> QED BY <2>1 DEF AbstractState, AbstractAt, CeilDiv
<1>6. /\ States[a] = "none" /\ States'[a] = "waiting"
      /\ Ats'[a] \in Nat /\ Ats'[a] > cur
      BY <1>3, <1>4 DEF States, Ats
<1>7. States' = [States EXCEPT ![a] = "waiting"]
      BY <1>3, <1>5 DEF States
<1>8. Ats' = [Ats EXCEPT ![a] = Ats'[a]]
      BY <1>5 DEF Ats
<1> QED BY <1>1, <1>6, <1>7, <1>8 DEF D!Set, States, Ats

LEMMA AcknowledgeCancels ==
    ASSUME IInv, NEW a \in Alerts, phase # "advance", AcknowledgeTimer(a)
    PROVE  D!Cancel(a) \/ UNCHANGED <<cur, States, Ats>>
<1>1. CASE status[a] # "Armed"
  <2>1. UNCHANGED <<status, deadline, cur, fired>>
        BY <1>1 DEF AcknowledgeTimer, tracker, timers
  <2> QED BY <2>1, StepStutters DEF Waiting
<1>2. CASE status[a] = "Armed"
  <2>1. status' = [status EXCEPT ![a] = "Acknowledged"] /\ UNCHANGED <<deadline, cur, fired>>
        BY <1>2 DEF AcknowledgeTimer
  <2>2. AbstractState(a) = "waiting" /\ AbstractState(a)' = "cancelled"
        BY <1>2, <2>1 DEF AbstractState, IInv, Tables, Between
  <2>3. ASSUME NEW b \in Alerts, b # a PROVE AbstractState(b)' = AbstractState(b)
        BY <2>1, <2>3 DEF AbstractState, IInv, Tables
  <2>4. ASSUME NEW b \in Alerts PROVE AbstractAt(b)' = AbstractAt(b)
    <3>1. deadline' = deadline /\ (status'[b] = "Unknown" <=> status[b] = "Unknown")
          BY <1>2, <2>1 DEF IInv, Tables
    <3> QED BY <3>1 DEF AbstractAt, CeilDiv
  <2>5. States[a] = "waiting" /\ States' = [States EXCEPT ![a] = "cancelled"] /\ Ats' = Ats
        BY <2>2, <2>3, <2>4 DEF States, Ats
  <2> QED BY <2>1, <2>5 DEF D!Cancel, States, Ats
<1> QED BY <1>1, <1>2

LEMMA AdvancePasses == ASSUME IInv, AdvanceTick PROVE D!Pass
<1> DEFINE t == cur + 1
<1>1. t \in Nat /\ SlotOf(t) \in SlotIds
      BY SlotOfIsASlot DEF IInv, Numbers
<1>2. cur' = t /\ fired' = fired \cup {e.id : e \in Due(t)} /\ UNCHANGED <<status, deadline>>
      BY DEF AdvanceTick, tracker
<1> HIDE DEF t
<1>3. ASSUME NEW a \in Alerts
      PROVE  a \in {e.id : e \in Due(t)} <=> Waiting(a) /\ CeilDiv(deadline[a]) <= t
  <2>1. ASSUME NEW e \in Due(t), e.id = a PROVE Waiting(a) /\ CeilDiv(deadline[a]) <= t
        BY <1>1, <2>1 DEF Due, IInv, WheelHoldsWaiting
  <2>2. ASSUME Waiting(a), CeilDiv(deadline[a]) <= t PROVE \E e \in Due(t) : e.id = a
    <3> DEFINE c == CeilDiv(deadline[a])
               e == Entry(a, c)
    <3>1. c \in Nat /\ c > cur /\ c <= t /\ e \in wheel[SlotOf(c)]
          BY <2>2, CeilDivNat DEF IInv, WheelHoldsWaiting, Numbers
    <3>2. e.id = a /\ e.expiry = c
          BY DEF Entry
    <3> HIDE DEF c, e
    <3>3. c = t
          BY <3>1, <1>1 DEF t, IInv, Numbers
    <3>4. e \in Due(t)
          BY <3>1, <3>2, <3>3 DEF Due
    <3> QED BY <3>2, <3>4
  <2> QED BY <2>1, <2>2
<1>4. ASSUME NEW a \in Alerts
      PROVE  AbstractState(a)' = IF AbstractState(a) = "waiting" /\ AbstractAt(a) <= t
                                 THEN "fired" ELSE AbstractState(a)
  <2>1. CASE status[a] = "Armed"
    <3>1. AbstractAt(a) = CeilDiv(deadline[a]) /\ (Waiting(a) <=> a \notin fired)
          BY <2>1 DEF AbstractAt, Waiting
    <3>2. AbstractState(a) = IF a \in fired THEN "fired" ELSE "waiting"
          BY <2>1 DEF AbstractState
    <3>3. AbstractState(a)' = IF a \in fired' THEN "fired" ELSE "waiting"
          BY <1>2, <2>1 DEF AbstractState
    <3>4. a \in fired' <=> a \in fired \/ (a \notin fired /\ CeilDiv(deadline[a]) <= t)
          BY <1>2, <1>3, <3>1
    <3> QED BY <3>1, <3>2, <3>3, <3>4
  <2>2. CASE status[a] # "Armed"
        BY <1>2, <2>2 DEF AbstractState, IInv, Tables
  <2> QED BY <2>1, <2>2
<1>5. \A a \in Alerts : AbstractAt(a)' = AbstractAt(a)
      BY <1>2 DEF AbstractAt, CeilDiv
<1>6. Ats' = Ats
      BY <1>5 DEF Ats
<1>7. States' = [a \in Alerts |-> IF States[a] = "waiting" /\ Ats[a] <= cur + 1
                                  THEN "fired" ELSE States[a]]
      BY <1>4 DEF States, Ats, t
<1> QED BY <1>2, <1>6, <1>7 DEF D!Pass, States, Ats, t

(* Wheel and tracker are a set of deadlines: each is set at most once, for  *)
(* a tick to come, and fires at exactly that tick unless it was cancelled   *)
(* before (schedule, cancel, advance, arm, acknowledge).                    *)
THEOREM WheelImplementsDeadlines == Spec => ImplementsDeadlines
<1>1. Init => D!Init
      BY DEF Init, D!Init, AbstractState, AbstractAt
<1>2. ASSUME IInv, IInv', [Next]_vars PROVE [D!Next]_(D!vars)
  <2>0. UNCHANGED <<cur, States, Ats>> => UNCHANGED D!vars
        BY DEF D!vars, States, Ats
  <2>1. CASE AdvanceBegins
        BY <2>0, <2>1, StepStutters DEF AdvanceBegins, tracker, timers, Waiting
  <2>2. CASE AdvanceTick
        BY <1>2, <2>2, AdvancePasses DEF D!Next
  <2>3. CASE Escalate
    <3>1. /\ status' = [a \in Alerts |-> IF a \in Escalating THEN "Escalated" ELSE status[a]]
          /\ fired' = {} /\ UNCHANGED <<deadline, cur>>
          BY <2>3 DEF Escalate
    <3>2. \A a \in Alerts : a \in Escalating <=> a \in fired /\ status[a] = "Armed"
          BY <1>2 DEF Escalating
    <3>3. \A a \in fired : status[a] = "Armed"
          BY <1>2 DEF IInv, Between
    <3>4. ASSUME NEW a \in Alerts
          PROVE  AbstractState(a)' = AbstractState(a) /\ AbstractAt(a)' = AbstractAt(a)
      <4>1. status'[a] = IF a \in fired THEN "Escalated" ELSE status[a]
            BY <3>1, <3>2, <3>3
      <4> QED BY <3>1, <3>3, <4>1 DEF AbstractState, AbstractAt, CeilDiv
    <3>5. UNCHANGED <<cur, States, Ats>>
          BY <3>1, <3>4 DEF States, Ats
    <3> QED BY <2>0, <3>5
  <2>4. ASSUME NEW time \in 0 .. MaxNow, TickBegins(time) PROVE UNCHANGED D!vars
        BY <2>0, <2>4, StepStutters DEF TickBegins, tracker, timers, Waiting
  <2>5. ASSUME NEW a \in Alerts, NEW s \in {"Acknowledged", "Closed"}, SetAlertState(a, s)
        PROVE  [D!Next]_(D!vars)
    <3>1. phase # "advance" /\ AcknowledgeTimer(a)
          BY <2>5 DEF SetAlertState
    <3> QED BY <1>2, <2>0, <3>1, AcknowledgeCancels DEF D!Next
  <2>6. ASSUME NEW a \in Alerts, NEW sev \in {3, 5}, NEW worthy \in BOOLEAN,
               NEW raised \in now .. now + Ahead, Raise(a, sev, worthy, raised)
        PROVE  [D!Next]_(D!vars)
    <3>1. raised \in Nat /\ status[a] = "Unknown"
          BY <1>2, <2>6, EscalationAssumption DEF EscalationAssumption, IInv, Numbers, Tables, Raise
    <3>2. CASE worthy
      <4>1. Arm(a, raised)
            BY <2>6, <3>2 DEF Raise
      <4> QED BY <1>2, <3>1, <4>1, ArmSets DEF D!Next
    <3>3. CASE ~worthy
      <4>1. UNCHANGED <<status, deadline, cur, fired>>
            BY <2>6, <3>3 DEF Raise, tracker, timers
      <4> QED BY <2>0, <4>1, StepStutters DEF Waiting
    <3> QED BY <3>2, <3>3
  <2>7. CASE UNCHANGED vars
        BY <2>0, <2>7, StepStutters DEF vars, tracker, timers, Waiting
  <2> QED BY <1>2, <2>1, <2>2, <2>3, <2>4, <2>5, <2>6, <2>7 DEF Next
<1> QED BY <1>1, <1>2, Invariant, PTL DEF Spec, ImplementsDeadlines, D!Spec

-----------------------------------------------------------------------------
(* Severity. *)

EscalatedLeftTheClock ==
    /\ severity \in [Alerts -> 0 .. 5]
    /\ escalated \subseteq Alerts
    /\ \A a \in escalated : status[a] = "Escalated"

LEMMA EscalatedLeftInit == Init => EscalatedLeftTheClock
BY DEF Init, EscalatedLeftTheClock

LEMMA StatusIsFinal ==
    ASSUME IInv, [Next]_vars, NEW a \in Alerts, status[a] = "Escalated"
    PROVE  status'[a] = "Escalated"
<1>1. ASSUME NEW b \in Alerts, NEW raised, Arm(b, raised) PROVE status'[a] = "Escalated"
      BY <1>1 DEF Arm, tracker, IInv, Tables
<1>2. ASSUME NEW b \in Alerts, AcknowledgeTimer(b) PROVE status'[a] = "Escalated"
      BY <1>2 DEF AcknowledgeTimer, tracker, IInv, Tables
<1>3. ASSUME NEW b \in Alerts, NEW sev, NEW worthy, NEW raised, Raise(b, sev, worthy, raised)
      PROVE  status'[a] = "Escalated"
      BY <1>1, <1>3 DEF Raise, tracker
<1>4. ASSUME NEW b \in Alerts, NEW s, SetAlertState(b, s) PROVE status'[a] = "Escalated"
      BY <1>2, <1>4 DEF SetAlertState
<1>5. CASE Escalate
      BY <1>5 DEF Escalate
<1>6. CASE UNCHANGED status
      BY <1>6
<1> QED BY <1>3, <1>4, <1>5, <1>6 DEF Next, vars, tracker, AdvanceBegins, AdvanceTick, TickBegins

LEMMA EscalatedLeftNext == IInv /\ EscalatedLeftTheClock /\ [Next]_vars => EscalatedLeftTheClock'
<1> SUFFICES ASSUME IInv, EscalatedLeftTheClock, [Next]_vars PROVE EscalatedLeftTheClock'
    OBVIOUS
<1>1. \A a \in escalated : status'[a] = "Escalated"
      BY StatusIsFinal DEF EscalatedLeftTheClock
<1>2. CASE Escalate
  <2>1. /\ status' = [a \in Alerts |-> IF a \in Escalating THEN "Escalated" ELSE status[a]]
        /\ escalated' = escalated \cup {a \in Escalating : alert[a] = "Open"}
        BY <1>2 DEF Escalate
  <2>2. Escalating \subseteq Alerts
        BY DEF Escalating, IInv, Between
  <2>3. \A a \in Alerts : severity'[a] = IF a \in Escalating /\ alert[a] = "Open"
                                         THEN Bumped(severity[a]) ELSE severity[a]
        BY <1>2 DEF Escalate
  <2>4. \A n \in 0 .. 5 : Bumped(n) \in 0 .. 5
        BY DEF Bumped
  <2>5. severity' \in [Alerts -> 0 .. 5]
    <3>1. \A a \in Alerts : severity'[a] \in 0 .. 5
          BY <2>3, <2>4 DEF EscalatedLeftTheClock
    <3>2. severity' = [a \in Alerts |-> severity'[a]]
          BY <1>2 DEF Escalate
    <3> QED BY <3>1, <3>2
  <2> QED BY <1>1, <2>1, <2>2, <2>5 DEF EscalatedLeftTheClock
<1>3. ASSUME NEW a \in Alerts, NEW sev \in {3, 5}, NEW worthy, NEW raised, Raise(a, sev, worthy, raised)
      PROVE  EscalatedLeftTheClock'
      BY <1>1, <1>3 DEF Raise, EscalatedLeftTheClock
<1>4. CASE UNCHANGED <<severity, escalated>>
      BY <1>1, <1>4 DEF EscalatedLeftTheClock
<1> QED BY <1>2, <1>3, <1>4 DEF Next, vars, board, AdvanceBegins, AdvanceTick, TickBegins, SetAlertState

(* Severity is raised at most once in an alert's life, by one, and never    *)
(* for an alert someone has acknowledged (escalate).                        *)
THEOREM SeverityIsRaisedOnce == Spec => EscalatedOnce
<1>1. ASSUME IInv, EscalatedLeftTheClock, [Next]_vars PROVE [RaisedOnce]_vars
  <2>1. CASE Escalate
    <3>1. ASSUME NEW a \in Alerts, alert[a] # "None", severity'[a] # severity[a]
          PROVE  /\ severity'[a] = severity[a] + 1
                 /\ alert[a] = "Open" /\ a \notin escalated /\ a \in escalated'
      <4>1. severity'[a] = IF a \in Escalating /\ alert[a] = "Open"
                           THEN Bumped(severity[a]) ELSE severity[a]
            BY <2>1 DEF Escalate
      <4>2. a \in Escalating /\ alert[a] = "Open" /\ severity'[a] = Bumped(severity[a])
            BY <3>1, <4>1
      <4>3. severity'[a] = severity[a] + 1
            BY <3>1, <4>2 DEF Bumped
      <4>4. a \notin escalated
            BY <1>1, <4>2 DEF Escalating, EscalatedLeftTheClock
      <4>5. a \in escalated'
            BY <2>1, <4>2 DEF Escalate
      <4> QED BY <4>2, <4>3, <4>4, <4>5
    <3> QED BY <3>1 DEF RaisedOnce
  <2>2. ASSUME NEW b \in Alerts, NEW sev \in {3, 5}, NEW worthy, NEW raised, Raise(b, sev, worthy, raised)
        PROVE  RaisedOnce
        BY <1>1, <2>2 DEF Raise, RaisedOnce, EscalatedLeftTheClock
  <2>3. CASE UNCHANGED severity
        BY <2>3 DEF RaisedOnce
  <2> QED BY <1>1, <2>1, <2>2, <2>3 DEF Next, vars, board, AdvanceBegins, AdvanceTick, TickBegins, SetAlertState
<1>2. Spec => []EscalatedLeftTheClock
      BY Invariant, EscalatedLeftInit, EscalatedLeftNext, PTL DEF Spec
<1> QED BY <1>1, <1>2, Invariant, PTL DEF Spec, EscalatedOnce

-----------------------------------------------------------------------------
(* The count. *)

WaitingAlerts == {a \in Alerts : Waiting(a)}

Counted == IsFiniteSet(WaitingAlerts) /\ count = Cardinality(WaitingAlerts)

LEMMA CountedInit == Init => Counted
<1> SUFFICES ASSUME Init PROVE Counted
    OBVIOUS
<1>1. WaitingAlerts = {} /\ count = 0
      BY DEF Init, WaitingAlerts, Waiting
<1> QED BY <1>1, FS_EmptySet DEF Counted

LEMMA CountedSame ==
    ASSUME Counted, count' = count, \A a \in Alerts : Waiting(a)' <=> Waiting(a)
    PROVE  Counted'
<1>1. WaitingAlerts' = WaitingAlerts
      BY DEF WaitingAlerts
<1> QED BY <1>1 DEF Counted

(* arm: one more alert waits. *)
LEMMA ArmCounts ==
    ASSUME IInv, Counted, NEW a \in Alerts, NEW raised, Arm(a, raised)
    PROVE  Counted'
<1>1. CASE status[a] # "Unknown"
      BY <1>1, CountedSame DEF Arm, tracker, timers, Waiting
<1>2. CASE status[a] = "Unknown"
  <2>1. status' = [status EXCEPT ![a] = "Armed"] /\ fired' = fired /\ count' = count + 1
        BY <1>2 DEF Arm, Schedule
  <2>2. a \notin WaitingAlerts /\ a \notin fired
        BY <1>2 DEF WaitingAlerts, Waiting, IInv, Between
  <2>3. \A b \in Alerts : Waiting(b)' <=> Waiting(b) \/ b = a
        BY <2>1, <2>2 DEF Waiting, IInv, Tables
  <2>4. WaitingAlerts' = WaitingAlerts \cup {a}
        BY <2>3 DEF WaitingAlerts
  <2> QED BY <2>1, <2>2, <2>4, FS_AddElement DEF Counted
<1> QED BY <1>1, <1>2

(* acknowledge: cancel finds the timer and takes it away. *)
LEMMA AcknowledgeCounts ==
    ASSUME IInv, Counted, phase # "advance", NEW a \in Alerts, AcknowledgeTimer(a)
    PROVE  Counted'
<1>1. CASE status[a] # "Armed"
      BY <1>1, CountedSame DEF AcknowledgeTimer, tracker, timers, Waiting
<1>2. CASE status[a] = "Armed"
  <2>1. PICK t, e, slot : t = CeilDiv(deadline[a]) /\ e = Entry(a, t) /\ slot = SlotOf(t)
        OBVIOUS
  <2>2. Waiting(a) /\ a \in WaitingAlerts
        BY <1>2 DEF Waiting, WaitingAlerts, IInv, Between
  <2>3. ExpiryTick(deadline[a]) = t /\ e \in wheel[slot]
        BY <2>1, <2>2, ExpiryOfWaiting DEF IInv, WheelHoldsWaiting
  <2>4. count' = count - 1
        BY <1>2, <2>1, <2>3 DEF AcknowledgeTimer, CancelTimer
  <2>5. status' = [status EXCEPT ![a] = "Acknowledged"] /\ fired' = fired
        BY <1>2 DEF AcknowledgeTimer
  <2>6. \A b \in Alerts : Waiting(b)' <=> Waiting(b) /\ b # a
        BY <2>5 DEF Waiting, IInv, Tables
  <2>7. WaitingAlerts' = WaitingAlerts \ {a}
        BY <2>6 DEF WaitingAlerts
  <2> QED BY <2>2, <2>4, <2>7, FS_RemoveElement DEF Counted
<1> QED BY <1>1, <1>2

(* advance: every timer that fires is that of one waiting alert. *)
LEMMA AdvanceCounts ==
    ASSUME IInv, Counted, AdvanceTick
    PROVE  Counted'
<1>1. PICK t, fires, ids : t = cur + 1 /\ fires = Due(t) /\ ids = {e.id : e \in fires}
      OBVIOUS
<1>2. /\ count' = count - Cardinality(fires) /\ fired' = fired \cup ids
      /\ status' = status
      BY <1>1 DEF AdvanceTick, tracker
<1>3. t \in Nat /\ SlotOf(t) \in SlotIds
      BY <1>1, SlotOfIsASlot DEF IInv, Numbers
<1>4. \A e \in fires : /\ e \in [id : Alerts, expiry : Nat] /\ Waiting(e.id)
                   /\ e.expiry = CeilDiv(deadline[e.id])
      BY <1>1, <1>3 DEF Due, IInv, Tables, WheelHoldsWaiting
<1>5. ids \in SUBSET WaitingAlerts
      BY <1>1, <1>4 DEF WaitingAlerts
<1>6. WaitingAlerts' = WaitingAlerts \ ids
      BY <1>2 DEF WaitingAlerts, Waiting
<1>7. IsFiniteSet(ids) /\ IsFiniteSet(WaitingAlerts)
      BY <1>5, FS_Subset DEF Counted
<1>8. Cardinality(fires) = Cardinality(ids)
  <2> DEFINE f == [a \in ids |-> Entry(a, CeilDiv(deadline[a]))]
  <2>1. ASSUME NEW e \in fires PROVE e.id \in ids /\ e = Entry(e.id, CeilDiv(deadline[e.id]))
        BY <1>1, <1>4 DEF Entry
  <2>2. \A a \in ids : f[a] \in fires
        BY <1>1, <2>1
  <2>3. \A a, b \in ids : f[a] = f[b] => a = b
        BY DEF Entry
  <2>4. \A e \in fires : f[e.id] = e
        BY <2>1
  <2>5. f \in [ids -> fires] /\ \A e \in fires : \E a \in ids : f[a] = e
        BY <2>1, <2>2, <2>4
  <2> HIDE DEF f
  <2>6. f \in Bijection(ids, fires)
        BY <2>3, <2>5 DEF Bijection, Injection, Surjection, IsInjective
  <2>7. ExistsBijection(ids, fires)
        BY <2>6 DEF ExistsBijection
  <2> QED BY <1>7, <2>7, FS_Bijection
<1>9. WaitingAlerts \cap ids = ids
      BY <1>5
<1>10. IsFiniteSet(WaitingAlerts \ ids) /\ Cardinality(WaitingAlerts \ ids) = Cardinality(WaitingAlerts) - Cardinality(ids)
       BY <1>7, <1>9, FS_Difference
<1> QED BY <1>2, <1>6, <1>8, <1>10 DEF Counted

(* escalate: what has fired no longer waits. *)
LEMMA EscalateCounts ==
    ASSUME IInv, Counted, Escalate
    PROVE  Counted'
<1>1. /\ status' = [a \in Alerts |-> IF a \in Escalating THEN "Escalated" ELSE status[a]]
      /\ fired' = {} /\ count' = count
      BY DEF Escalate
<1>2. ASSUME NEW a \in Alerts PROVE Waiting(a)' <=> Waiting(a)
  <2>1. a \in Escalating <=> a \in fired
        BY DEF Escalating, IInv, Between
  <2>2. status'[a] = IF a \in fired THEN "Escalated" ELSE status[a]
        BY <1>1, <2>1
  <2> QED BY <1>1, <2>2 DEF Waiting
<1> QED BY <1>1, <1>2, CountedSame

LEMMA CountedNext == IInv /\ Counted /\ [Next]_vars => Counted'
<1> SUFFICES ASSUME IInv, Counted, [Next]_vars PROVE Counted'
    OBVIOUS
<1>1. CASE AdvanceTick
      BY <1>1, AdvanceCounts
<1>2. CASE Escalate
      BY <1>2, EscalateCounts
<1>3. ASSUME UNCHANGED <<status, fired, count>> PROVE Counted'
      BY <1>3, CountedSame DEF Waiting
<1>4. CASE AdvanceBegins \/ UNCHANGED vars
      BY <1>3, <1>4 DEF AdvanceBegins, vars, tracker, timers
<1>5. ASSUME NEW time, TickBegins(time) PROVE Counted'
      BY <1>3, <1>5 DEF TickBegins, tracker, timers
<1>6. ASSUME NEW a \in Alerts, NEW s, SetAlertState(a, s) PROVE Counted'
  <2>1. phase # "advance" /\ AcknowledgeTimer(a)
        BY <1>6 DEF SetAlertState
  <2> QED BY <2>1, AcknowledgeCounts
<1>7. ASSUME NEW a \in Alerts, NEW sev, NEW worthy, NEW raised, Raise(a, sev, worthy, raised) PROVE Counted'
  <2>1. Arm(a, raised) \/ UNCHANGED <<status, fired, count>>
        BY <1>7 DEF Raise, tracker, timers
  <2> QED BY <1>3, <2>1, ArmCounts
<1> QED BY <1>1, <1>2, <1>4, <1>5, <1>6, <1>7 DEF Next

(* tracked() is the number of alerts on the clock, whatever was scheduled,  *)
(* cancelled and fired, on whichever slots the timers met: each timer is    *)
(* taken off the count exactly once (TimerWheel::schedule, cancel,          *)
(* advance).                                                                *)
THEOREM CountIsTrue == Spec => []PendingIsTrue
<1>1. Counted => PendingIsTrue
      BY DEF Counted, WaitingAlerts, PendingIsTrue
<1> QED BY <1>1, Invariant, CountedInit, CountedNext, PTL DEF Spec

(* Every variable stays in its domain, the count included.                  *)
THEOREM TypeCorrect == Spec => []TypeOK
<1>1. IInv /\ EscalatedLeftTheClock /\ Counted => TypeOK
  <2> SUFFICES ASSUME IInv, EscalatedLeftTheClock, Counted PROVE TypeOK
      OBVIOUS
  <2>1. count \in Int
        BY FS_CardinalityType DEF Counted
  <2> QED BY <2>1 DEF TypeOK, IInv, Numbers, Between, Tables, EscalatedLeftTheClock
<1> QED BY <1>1, Invariant, EscalatedLeftInit, EscalatedLeftNext, CountedInit, CountedNext, PTL DEF Spec
=============================================================================
