----------------------------- MODULE MCCohesion -----------------------------
(* Instances of Cohesion for TLC: three tourists who are alike, two settings *)
(* of a group's thresholds.                                                  *)
EXTENDS Cohesion

CONSTANTS u1, u2, u3

Party3 == {u1, u2, u3}
Party2 == {u1, u2}
Alike == Permutations(Users)

Slow == [proximity |-> 1, straggler |-> 2, confirm |-> 1]
Lax  == [proximity |-> 2, straggler |-> 2, confirm |-> 0]
Both == {Slow, Lax}
OnlySlow == {Slow}
=============================================================================
