----------------------------- MODULE Escalation -----------------------------
(***************************************************************************)
(* Alert escalation: ds::TimerWheel (a hashed timing wheel), the           *)
(* alert::EscalationTracker that keeps one status and one deadline per     *)
(* alert beside it, and their use by app::Platform (raise_alert,           *)
(* set_alert_state, tick, escalate).                                       *)
(*                                                                         *)
(* A slot holds a set of entries: the order within a slot is not           *)
(* meaningful, and the tracker never schedules an alert twice.  The        *)
(* wheel walks tick by tick inside advance(); each of its ticks is a step  *)
(* here, during which no other handler runs (phase = "advance").           *)
(***************************************************************************)
EXTENDS Integers, FiniteSets

CONSTANTS
    Alerts,
    Timeout,        \* escalation_timeout_ms
    TickMs, Slots,  \* the wheel's grid and size
    Ahead,          \* how far in the future an alert may be dated
    MaxNow          \* bound of the instance

ASSUME EscalationAssumption ==
    /\ Timeout \in Nat \ {0} /\ TickMs \in Nat \ {0} /\ Slots \in Nat \ {0}
    /\ Ahead \in Nat /\ MaxNow \in Nat

VARIABLES
    now,        \* Platform::now_ms_
    phase,      \* "idle", "tick" (detection before escalation) or "advance"
    alert,      \* AlertRecord::a.state: "None", "Open", "Acknowledged", "Closed"
    severity,   \* AlertRecord::a.severity
    escalated,  \* AlertRecord::escalated, the set of alerts where it is set
    status,     \* EscalationTracker::status_, "Unknown" when there is no record
    deadline,   \* Record::deadline
    cur,        \* TimerWheel::cur_tick_
    wheel,      \* TimerWheel::wheel_
    count,      \* TimerWheel::count_
    fired       \* the ids advance() has collected so far

board == <<alert, severity, escalated>>
tracker == <<status, deadline>>
timers == <<cur, wheel, count, fired>>
vars == <<now, phase, board, tracker, timers>>

-----------------------------------------------------------------------------
(* The wheel. *)

CeilDiv(d) == IF d <= 0 THEN 0 ELSE (d + TickMs - 1) \div TickMs

(* Mutant of ExpiryTick: a deadline between two ticks is rounded down. *)
ExpiryTickFloor(d) == IF d \div TickMs <= cur THEN cur + 1 ELSE d \div TickMs

(* The first tick at or after the deadline; an overdue one is next. *)
ExpiryTick(d) == IF CeilDiv(d) <= cur THEN cur + 1 ELSE CeilDiv(d)

SlotIds == 0 .. Slots - 1

SlotOf(t) == t % Slots

Entry(a, t) == [id |-> a, expiry |-> t]

Schedule(a, d) ==
    /\ wheel' = [wheel EXCEPT ![SlotOf(ExpiryTick(d))] = @ \cup {Entry(a, ExpiryTick(d))}]
    /\ count' = count + 1

CancelTimer(a, d) ==
    LET slot == SlotOf(ExpiryTick(d))
        e    == Entry(a, ExpiryTick(d))
    IN  /\ wheel' = [wheel EXCEPT ![slot] = @ \ {e}]
        /\ count' = IF e \in wheel[slot] THEN count - 1 ELSE count

(* Mutant of Due: everything in the slot fires, whatever its revolution. *)
DueAnyRevolution(t) == wheel[SlotOf(t)]

(* Mutant of Due: the entry of the very tick waits another revolution. *)
DueTooLate(t) == {e \in wheel[SlotOf(t)] : e.expiry < t}

(* What the wheel fires when it lands on tick t. *)
Due(t) == {e \in wheel[SlotOf(t)] : e.expiry <= t}

-----------------------------------------------------------------------------
(* The tracker. *)

(* arm: a no-op for an alert that is already tracked. *)
Arm(a, raised) ==
    IF status[a] # "Unknown" THEN UNCHANGED <<tracker, timers>>
    ELSE /\ status' = [status EXCEPT ![a] = "Armed"]
         /\ deadline' = [deadline EXCEPT ![a] = raised + Timeout]
         /\ Schedule(a, raised + Timeout)
         /\ UNCHANGED <<cur, fired>>

(* acknowledge: the timer is cancelled at once. *)
AcknowledgeTimer(a) ==
    IF status[a] # "Armed" THEN UNCHANGED <<tracker, timers>>
    ELSE /\ status' = [status EXCEPT ![a] = "Acknowledged"]
         /\ CancelTimer(a, deadline[a])
         /\ UNCHANGED <<deadline, cur, fired>>

-----------------------------------------------------------------------------
(* The platform. *)

Init ==
    /\ now = 0 /\ phase = "idle"
    /\ alert = [a \in Alerts |-> "None"]
    /\ severity = [a \in Alerts |-> 0]
    /\ escalated = {}
    /\ status = [a \in Alerts |-> "Unknown"]
    /\ deadline = [a \in Alerts |-> 0]
    /\ cur = 0 /\ wheel = [s \in SlotIds |-> {}] /\ count = 0 /\ fired = {}

OpenStates == {"Open", "Acknowledged"}

(* raise_alert: only alerts an operator must act on are put on the clock,   *)
(* dated no earlier than now.                                               *)
Raise(a, sev, worthy, raised) ==
    /\ phase \in {"idle", "tick"}
    /\ alert[a] = "None"
    /\ raised + Timeout + TickMs <= MaxNow
    /\ alert' = [alert EXCEPT ![a] = "Open"]
    /\ severity' = [severity EXCEPT ![a] = sev]
    /\ IF worthy THEN Arm(a, raised) ELSE UNCHANGED <<tracker, timers>>
    /\ UNCHANGED <<now, phase, escalated>>

(* set_alert_state, from acknowledgement, assignment, resolution, dismissal *)
(* or the system's own handlers.                                            *)
SetAlertState(a, s) ==
    /\ phase \in {"idle", "tick"}
    /\ alert[a] \in OpenStates /\ s # alert[a]
    /\ alert' = [alert EXCEPT ![a] = s]
    /\ AcknowledgeTimer(a)
    /\ UNCHANGED <<now, phase, severity, escalated>>

(* tick: the clock moves, detection may raise and settle alerts, then the   *)
(* wheel is advanced and what it fired escalates.                           *)
TickBegins(time) ==
    /\ phase = "idle" /\ now <= time
    /\ now' = time /\ phase' = "tick"
    /\ UNCHANGED <<board, tracker, timers>>

Target == now \div TickMs

AdvanceBegins ==
    /\ phase = "tick" /\ phase' = "advance"
    /\ UNCHANGED <<now, board, tracker, timers>>

AdvanceTick ==
    /\ phase = "advance" /\ cur < Target
    /\ cur' = cur + 1
    /\ wheel' = [wheel EXCEPT ![SlotOf(cur + 1)] = @ \ Due(cur + 1)]
    /\ count' = count - Cardinality(Due(cur + 1))
    /\ fired' = fired \cup {e.id : e \in Due(cur + 1)}
    /\ UNCHANGED <<now, phase, board, tracker>>

Escalating == {a \in fired : status[a] = "Armed"}

(* Mutant of Bumped. *)
BumpedTwice(sev) == IF sev < 4 THEN sev + 2 ELSE 5

Bumped(sev) == IF sev < 5 THEN sev + 1 ELSE sev

Escalate ==
    /\ phase = "advance" /\ cur >= Target
    /\ status' = [a \in Alerts |-> IF a \in Escalating THEN "Escalated" ELSE status[a]]
    /\ escalated' = escalated \cup {a \in Escalating : alert[a] = "Open"}
    /\ severity' = [a \in Alerts |->
                       IF a \in Escalating /\ alert[a] = "Open"
                       THEN Bumped(severity[a]) ELSE severity[a]]
    /\ fired' = {}
    /\ phase' = "idle"
    /\ UNCHANGED <<now, alert, deadline, cur, wheel, count>>

Next ==
    \/ AdvanceBegins \/ AdvanceTick \/ Escalate
    \/ \E time \in 0 .. MaxNow : TickBegins(time)
    \/ \E a \in Alerts :
          \/ \E s \in {"Acknowledged", "Closed"} : SetAlertState(a, s)
          \/ \E sev \in {3, 5}, worthy \in BOOLEAN, raised \in now .. now + Ahead :
                Raise(a, sev, worthy, raised)

(* The server's loop calls tick for ever with a clock that goes on, though  *)
(* two ticks may fall in one instant (hence strong fairness), and a tick    *)
(* that has begun ends.                                                     *)
Passes == \E time \in 0 .. MaxNow : time > now /\ TickBegins(time)

Fairness == SF_vars(Passes) /\ WF_vars(AdvanceBegins) /\ WF_vars(AdvanceTick) /\ WF_vars(Escalate)

Spec == Init /\ [][Next]_vars

FairSpec == Spec /\ Fairness

-----------------------------------------------------------------------------
(* Properties. *)

(* Every variable stays in its domain. *)
TypeOK ==
    /\ now \in Nat /\ phase \in {"idle", "tick", "advance"}
    /\ alert \in [Alerts -> {"None", "Open", "Acknowledged", "Closed"}]
    /\ severity \in [Alerts -> 0 .. 5]
    /\ escalated \subseteq Alerts /\ fired \subseteq Alerts
    /\ status \in [Alerts -> {"Unknown", "Armed", "Acknowledged", "Escalated"}]
    /\ deadline \in [Alerts -> Nat]
    /\ cur \in Nat /\ count \in Int
    /\ wheel \in [SlotIds -> SUBSET [id : Alerts, expiry : Nat]]

Waiting(a) == status[a] = "Armed" /\ a \notin fired

(* The wheel holds exactly one timer for each alert on the clock, in the    *)
(* slot where the wheel will look for it and not yet overdue, and none for  *)
(* any other (schedule, cancel and advance agree on slots).                 *)
WheelHoldsWaiting ==
    /\ \A a \in Alerts : Waiting(a) =>
          /\ CeilDiv(deadline[a]) > cur
          /\ Entry(a, CeilDiv(deadline[a])) \in wheel[SlotOf(CeilDiv(deadline[a]))]
    /\ \A s \in SlotIds : \A e \in wheel[s] :
          /\ Waiting(e.id)
          /\ e.expiry = CeilDiv(deadline[e.id]) /\ s = SlotOf(e.expiry)

(* Whatever fires escalates an alert nobody has touched: an armed alert is  *)
(* open, so platform and tracker never disagree on who is waiting           *)
(* (raise_alert, set_alert_state, escalate).                                *)
ArmedIsOpen == \A a \in Alerts :
    /\ status[a] = "Armed" => alert[a] = "Open"
    /\ status[a] = "Escalated" => a \in escalated

(* tracked() counts the alerts still on the clock and nothing else. *)
PendingIsTrue == count = Cardinality({a \in Alerts : Waiting(a)})

(* No alert escalates before its deadline, and between two calls of tick    *)
(* none is still on the clock a whole wheel tick after it.                  *)
EscalatesOnTime ==
    \A a \in Alerts :
        /\ status[a] = "Escalated" => deadline[a] <= now
        /\ phase = "idle" /\ status[a] = "Armed" => now < deadline[a] + TickMs

(* An alert's severity is raised at most once, by one, and never for an     *)
(* alert that someone has acknowledged.                                     *)
RaisedOnce ==
    \A a \in Alerts :
        alert[a] # "None" /\ severity'[a] # severity[a] =>
            /\ severity'[a] = severity[a] + 1
            /\ alert[a] = "Open" /\ a \notin escalated /\ a \in escalated'

EscalatedOnce == [][RaisedOnce]_vars

(* An alert on the clock does not stay there: it escalates or someone       *)
(* handles it.                                                              *)
NoAlertForgotten == \A a \in Alerts : status[a] = "Armed" ~> status[a] # "Armed"

(* The wheel and the tracker implement Deadlines. *)
AbstractState(a) ==
    CASE status[a] = "Unknown"      -> "none"
      [] status[a] = "Acknowledged" -> "cancelled"
      [] status[a] = "Escalated"    -> "fired"
      [] status[a] = "Armed"        -> IF a \in fired THEN "fired" ELSE "waiting"

AbstractAt(a) == IF status[a] = "Unknown" THEN 0 ELSE CeilDiv(deadline[a])

D == INSTANCE Deadlines WITH
        tick  <- cur,
        state <- [a \in Alerts |-> AbstractState(a)],
        at    <- [a \in Alerts |-> AbstractAt(a)]

ImplementsDeadlines == D!Spec
=============================================================================
