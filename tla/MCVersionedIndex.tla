-------------------------- MODULE MCVersionedIndex --------------------------
(***************************************************************************)
(* Two zones drawn, moved, rescheduled and erased in any order and at any  *)
(* time, late edits included, on a world whose leaves hold one item: a box *)
(* in a quarter, one in a quarter of it, one across the middle, and one    *)
(* that pokes out of the world.                                            *)
(***************************************************************************)
EXTENDS VersionedIndex

MCWorld == Box(0, 0, 8, 8)
MCBoxes == {Box(0, 0, 1, 1), Box(0, 0, 3, 3), Box(3, 3, 5, 5), Box(7, 7, 12, 12)}
MCValidities == {[from |-> 0, to |-> Forever], [from |-> 1, to |-> 2]}
============================================================================
