------------------------------- MODULE Scenario -------------------------------
(***************************************************************************)
(* app::ScenarioRunner: the scripted stories and the clock that plays them. *)
(* A tick is one second of scenario time; unplayed time is counted in      *)
(* quarters of a second, what 1 s of real time is worth at the lowest      *)
(* speed.  Of the platform the model keeps what a script's steps rely on;  *)
(* where the actors walk is left out.                                      *)
(***************************************************************************)
EXTENDS Integers, Sequences, FiniteSets

CONSTANTS Catalogue,    \* story -> [duration, script]
          Stories,      \* which of the catalogue are loaded
          Speeds,       \* speeds the console may set, in quarters (4: real time)
          Elapsed,      \* real seconds between two calls of advance
          Steps,        \* how many ticks the console may step at once
          Overtime      \* bound: ticks played past the end of a story

VARIABLES
    id, state, accum, speed,   \* ScenarioRunner's members of these names
    next,       \* Script::next_action: how many of the actions are done
    now,        \* Platform::now_ms_, in ticks
    world,      \* what the script has built in the platform so far
    credit      \* history: time paid for by real time or steps, and not played

vars == <<id, state, accum, speed, next, now, world, credit>>

MinSpeed == 1
MaxSpeed == 240
TicksPerCall == 240      \* advance's bound
Backlog == 20            \* more than 5 s left over is dropped

-----------------------------------------------------------------------------
(* The part of the platform the steps rely on, and what each step does to   *)
(* it.  A step the platform refuses is counted: the runner ignores it.      *)
FreshWorld == [groups |-> {}, members |-> {}, sharing |-> {}, offline |-> {},
               zones |-> 0, refused |-> 0]

Allowed(w, a) ==
    CASE a.kind = "Join"            -> a.group \in w.groups
      [] a.kind = "GoOffline"       -> a.who \in w.sharing
      [] a.kind = "Reconnect"       -> a.who \in w.offline
      [] OTHER                      -> TRUE

Effect(w, a) ==
    CASE a.kind = "CreateGroup"     -> [w EXCEPT !.groups = @ \cup {a.group}]
      [] a.kind = "Join"            -> [w EXCEPT !.members = @ \cup {<<a.who, a.group>>}]
      [] a.kind = "ConsentAndShare" -> [w EXCEPT !.sharing = @ \cup {a.who}]
      [] a.kind = "GoOffline"       -> [w EXCEPT !.offline = @ \cup {a.who}]
      [] a.kind = "Reconnect"       -> [w EXCEPT !.offline = @ \ {a.who}]
      [] a.kind = "CreateZone"      -> [w EXCEPT !.zones = @ + 1]
      [] OTHER                      -> w

Perform(w, a) == IF Allowed(w, a) THEN Effect(w, a) ELSE [w EXCEPT !.refused = @ + 1]

(* What a script makes of a world, from one of its steps on. *)
After(w, acts, from, count) ==
    LET played[k \in 0..count] ==
            IF k = 0 THEN w ELSE Perform(played[k - 1], acts[from + k])
    IN  played[count]

Script == Catalogue[id].script
Duration == Catalogue[id].duration

(* tick_once, n times: the actions due by then, in the order of the script. *)
(* The story is finished when its last second has been played.              *)
DueBy(t) == Cardinality({i \in DOMAIN Script : i > next /\ Script[i].at <= t})
Ticks(n) ==
    LET done == IF n = 0 THEN 0 ELSE DueBy(now + n) IN
    /\ now' = now + n
    /\ next' = next + done
    /\ world' = After(world, Script, next, done)
    /\ state' = IF n > 0 /\ now + n >= Duration THEN "finished" ELSE state

\* A tick that ends the story is the last of its call.
TicksToEnd == IF now >= Duration THEN 1 ELSE Duration - now
Fewest(S) == CHOOSE x \in S : \A y \in S : x <= y

-----------------------------------------------------------------------------
Loaded == state # "idle"

\* A version that plays the time left over in the story before.
BeginInDebt(story) ==
    /\ id' = story /\ state' = "paused" /\ next' = 0
    /\ now' = 0 /\ world' = FreshWorld /\ credit' = 0 /\ UNCHANGED accum

(* load and reset: the world is rebuilt, the story starts over, paused.     *)
(* Speed survives.  The zone file is the one of the start-up: a story that   *)
(* could be loaded once can be loaded again, and where none can the runner  *)
(* stays idle.  What the failing load does to the platform is in Access.    *)
Begin(story) ==
    /\ id' = story /\ state' = "paused" /\ accum' = 0 /\ next' = 0
    /\ now' = 0 /\ world' = FreshWorld /\ credit' = 0

Load(story) == Begin(story) /\ UNCHANGED speed
Reset == Loaded /\ Begin(id) /\ UNCHANGED speed

Start == Loaded /\ state' = "running"
         /\ UNCHANGED <<id, accum, speed, next, now, world, credit>>
Pause == state = "running" /\ state' = "paused"
         /\ UNCHANGED <<id, accum, speed, next, now, world, credit>>
Resume == state = "paused" /\ state' = "running"
          /\ UNCHANGED <<id, accum, speed, next, now, world, credit>>

SetSpeed(x) == /\ speed' = Fewest({MaxSpeed, IF x < MinSpeed THEN MinSpeed ELSE x})
               /\ UNCHANGED <<id, state, accum, next, now, world, credit>>

(* step: while not running, and never past the end.                         *)
Step(n) ==
    /\ state = "paused" /\ now < Duration + Overtime
    /\ \E ticks \in {Fewest({n, TicksToEnd})} : Ticks(ticks)
    /\ UNCHANGED <<id, accum, speed, credit>>

(* advance: the ticks the elapsed time pays for, at most 240 a call; a      *)
(* backlog of more than 5 s after that is dropped.                          *)
Advance(seconds) ==
    /\ state = "running" /\ now < Duration + Overtime
    /\ LET owed == accum + seconds * speed IN
       \E ticks \in {Fewest({owed \div 4, TicksPerCall, TicksToEnd})} :
          /\ Ticks(ticks)
          /\ accum' = IF owed - 4 * ticks > Backlog THEN 0 ELSE owed - 4 * ticks
          /\ credit' = Fewest({credit + seconds * speed - 4 * ticks, Backlog + 4})
    /\ UNCHANGED <<id, speed>>

Init ==
    /\ id \in Stories /\ state \in {"idle", "paused"} /\ accum = 0 /\ speed = 4
    /\ next = 0 /\ now = 0 /\ world = FreshWorld /\ credit = 0

Next ==
    \/ \E s \in Stories : Load(s)
    \/ Reset \/ Start \/ Pause \/ Resume
    \/ \E x \in Speeds : SetSpeed(x)
    \/ \E n \in Steps : Step(n)
    \/ \E seconds \in Elapsed : Advance(seconds)

Spec == Init /\ [][Next]_vars

-----------------------------------------------------------------------------
(* Every action due is done and no other, in whatever pieces the clock      *)
(* came, and a finished story has told all of it.                           *)
ScriptIsOnTime ==
    /\ now > 0 => next = Cardinality({i \in DOMAIN Script : Script[i].at <= now})
    /\ state = "finished" => next = Len(Script) /\ now >= Duration

(* Stories overlap in the walkthrough: no step comes before the one it      *)
(* relies on, and who joined, shared or went silent is who the story says.  *)
Takes(w) ==
    /\ w.refused = 0
    /\ \A m \in w.members : m[1][1] = m[2]
    /\ w.offline \subseteq w.sharing
EveryStepTakes == Takes(world)

(* Scenario time is paid for by real time at the speed set, from the load   *)
(* on: nothing a pause, a reset or a stall left over is played later, but   *)
(* for what advance kept.                                                   *)
TimeIsPaidFor == credit >= accum /\ accum <= Backlog

(* tests/app/scenario_test.cpp and the presenter rely on it: the same       *)
(* second of the same story is the same scene.                              *)
RunKeepsTime == ScriptIsOnTime /\ EveryStepTakes /\ TimeIsPaidFor

=============================================================================
