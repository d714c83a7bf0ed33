---------------------------- MODULE ZoneHistory ----------------------------
(***************************************************************************)
(* What the versioned index promises: a sequence of worlds, one per        *)
(* effective edit, each dated, none ever changed.  A world gives every     *)
(* zone its box and validity, or Absent.  Edits that come late are dated   *)
(* as of the newest world.                                                 *)
(***************************************************************************)
EXTENDS Integers, Sequences

CONSTANTS Zones, Times, Boxes, Validities, Absent

VARIABLE worlds

Zone == [box : Boxes, validity : Validities]
Latest == worlds[Len(worlds)]

(* The only way to change the past is to add to it. *)
Edit(at, z, what) ==
    worlds' = Append(worlds, [at    |-> IF at < Latest.at THEN Latest.at ELSE at,
                              zones |-> [Latest.zones EXCEPT ![z] = what]])

Draw(at, z) == \E what \in Zone : Edit(at, z, what)

Erase(at, z) == Latest.zones[z] # Absent /\ Edit(at, z, Absent)

Reschedule(at, z) ==
    /\ Latest.zones[z] # Absent
    /\ \E v \in Validities : Edit(at, z, [Latest.zones[z] EXCEPT !.validity = v])

Init == worlds = <<[at |-> 0, zones |-> [z \in Zones |-> Absent]]>>

Next == \E at \in Times, z \in Zones : Draw(at, z) \/ Erase(at, z) \/ Reschedule(at, z)

Spec == Init /\ [][Next]_worlds

============================================================================
