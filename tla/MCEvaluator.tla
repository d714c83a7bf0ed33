----------------------------- MODULE MCEvaluator -----------------------------
(* Instances of Evaluator for TLC.  Distances are in units of 10 m or so:    *)
(* an entry margin of 1, an exit margin of 2, accuracies 1 (open sky), 3     *)
(* (multipath) and 9 (unusable), a query radius of 3 for someone at rest.    *)
EXTENDS Evaluator

MCZeroMargins == [z \in Zones |-> 0]
MCSeverity == [z \in Zones |-> 1 + z]
MCTiers == <<[dist |-> 6, interval |-> 2], [dist |-> 30, interval |-> 4],
             [dist |-> 99, interval |-> 8]>>
MCAlwaysOrLate == {<<0, 99>>, <<0, 2>>}
MCAlways == {<<0, 99>>}

OneFix(acc, speed, sd, box, near, leads) ==
    [acc |-> acc, speed |-> speed, sd |-> [z \in Zones |-> sd],
     box |-> [z \in Zones |-> box], near |-> [z \in Zones |-> near],
     leads |-> [z \in Zones |-> leads]]

(* One zone: deep inside, inside but not deep, on the edge, outside in the   *)
(* dead band, clearly outside, walking towards it, outside the query window, *)
(* a multipath fix near the boundary, an unusable fix.                       *)
MCFixes == {
    OneFix(1, 0, -4, 0, TRUE, FALSE), OneFix(1, 0, 0, 0, TRUE, FALSE),
    OneFix(1, 0, 2, 1, TRUE, FALSE),  OneFix(1, 0, 3, 3, TRUE, FALSE),
    OneFix(1, 2, 4, 4, TRUE, TRUE),   OneFix(1, 0, 7, 5, FALSE, FALSE),
    OneFix(3, 0, -2, 0, TRUE, FALSE), OneFix(9, 0, 0, 0, TRUE, FALSE)}

(* Two zones that compete for one candidate slot. *)
Obs(sd, box, near) == [sd |-> sd, box |-> box, near |-> near]
MCObservations == {Obs(-4, 0, TRUE), Obs(0, 0, TRUE), Obs(3, 3, TRUE), Obs(7, 5, FALSE)}
MCPairFixes ==
    {[acc |-> 1, speed |-> 0, sd |-> [z \in Zones |-> o[z].sd],
      box |-> [z \in Zones |-> o[z].box], near |-> [z \in Zones |-> o[z].near],
      leads |-> [z \in Zones |-> FALSE]] : o \in [Zones -> MCObservations]}
=============================================================================
