------------------------------ MODULE Deadlines ------------------------------
(***************************************************************************)
(* What alert escalation promises, with no wheel and no hash table: every  *)
(* alert has at most one deadline in its life, and the tick at which the   *)
(* deadline is reached fires exactly the deadlines then due that were not  *)
(* cancelled before.                                                       *)
(***************************************************************************)
EXTENDS Naturals

CONSTANT Alerts

VARIABLES
    tick,       \* the last tick boundary that has been processed
    state,      \* [Alerts -> {"none", "waiting", "cancelled", "fired"}]
    at          \* the tick at which a waiting alert fires

vars == <<tick, state, at>>

Init ==
    /\ tick = 0
    /\ state = [a \in Alerts |-> "none"]
    /\ at = [a \in Alerts |-> 0]

(* The deadline is any tick to come. *)
Set(a) ==
    /\ state[a] = "none"
    /\ state' = [state EXCEPT ![a] = "waiting"]
    /\ at' = [at EXCEPT ![a] = at'[a]]
    /\ at'[a] \in Nat /\ at'[a] > tick
    /\ UNCHANGED tick

Cancel(a) ==
    /\ state[a] = "waiting"
    /\ state' = [state EXCEPT ![a] = "cancelled"]
    /\ UNCHANGED <<tick, at>>

Pass ==
    /\ tick' = tick + 1
    /\ state' = [a \in Alerts |->
                    IF state[a] = "waiting" /\ at[a] <= tick + 1 THEN "fired" ELSE state[a]]
    /\ UNCHANGED at

Next ==
    \/ Pass
    \/ \E a \in Alerts : Cancel(a) \/ Set(a)

Spec == Init /\ [][Next]_vars
=============================================================================
