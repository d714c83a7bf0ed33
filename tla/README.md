# A TLA+ development of SafeTrail

SafeTrail tracks tourists who consent to it, tells them and the operators when
they enter, approach or overstay in hazard zones, notices lost signals and
separated groups, gathers alerts into incidents and sends units to them.  This
directory models the program's core logic, checks it with TLC on small
instances, and proves its main properties with TLAPS for every value of the
parameters.

The program is C++17, in memory, and single-threaded: `net::Server::run` polls
its sockets, lets `app::Api` handle one complete request, and calls a tick
function after every poll.  Handlers never overlap.  What is hard is therefore
not data races but *histories*: fixes that come late, twice or with another
clock; a device that works alone and hands its state back; timers against
operators; decisions that go stale; state kept in two places; and data
structures that long sequences of edits must not wear out.

## 1. Inventory

| Part | State it keeps | Operations | What makes it correct |
|---|---|---|---|
| `fence::HysteresisState` | phase, agree counter (8 bits), pending and inside times | `update`, `reset_clear` | an entry or exit needs a run of agreeing samples and a dwell time; a flapping signal reports nothing |
| `fence::Evaluator` | per tourist and zone: machine, confirmed containment, entry time, what was reported | `on_fix` over candidates of the index, reconciliation of the rest | events tell the confirmed containment; one dwell overrun per stay; no state survives its zone |
| `geo::` | zones with holes | validation, containment, `classify` | independent tests agree; a definite verdict is safe |
| `power::AdaptiveSampler` | interval | `next_interval` from the nearest zone seen | samples often enough not to miss an entry |
| `track::` tourist, trajectory, anomaly | last fix, pings, anomaly and its confirmation | `push`, classifiers | a lost signal is confirmed, and answered on contact |
| `app::Platform`, tracking | users (active, consent, sharing), trail, device agents | consent, sessions, `ingest_fix`, `go_offline`, `device_fix`, `reconnect`, erasure, retention, history | nobody is tracked without consent; history does not change |
| `app::Platform`, alert board | alerts, `alert_active` | raise, settle, expire, escalate, close | no forecast outlives its reason; full rate exactly while it is serious |
| `sync::OfflineQueue`, `Reconciler` | Lamport clock, queue, file, seen stamps, merged log | `enqueue`, `drain`, `merge`, `flush_to_disk`, `load_from_disk` | a told event is adopted exactly once, in causal order, restarts included |
| `ds::TimerWheel`, `alert::EscalationTracker` | slots, hand, count; record per alert | `schedule`, `cancel`, `advance`; `raise`, `acknowledge`, `advance` | one cancellable deadline per alert; nothing early, late, twice or forgotten |
| `alert::Correlator` | incidents, merge set | `ingest`, `close` | every alert in one incident; a signed-off incident is final |
| `app::Platform`, incidents | cases, alerts, units (`pool_`, `rinfo_`) | acknowledge, assign, resolve, plan, unit management | a unit is where it was sent, exactly once; only free units are recommended |
| `dispatch::assigner` | none | `assign_optimal`, `assign_greedy` | a cheapest matching that covers what can be covered |
| `group::CohesionMonitor`, group service | members, thresholds, stragglers with their clocks, alerts | `update` in `run_cohesion`; membership and thresholds | separations confirmed, alerted once and in time, settled when over |
| `ds::RollbackDSU` | forest, ranks, sizes, undo stack | unite, rollback, components | the forest is that of the unions in force |
| `index::VersionedIndex` | versions, path-copied quadtree, records | add, update, remove, `query_at`, `record_as_of` | a question about the past is answered with the zones of then |
| spatial indexes, containers | R-tree, quadtree, k-d tree, geohash; hash table, interval tree, ring | build, insert, remove, query | the answer of brute force, after any edits |
| `graph::` | road graph, snap index | edits, files, shortest paths, matching | exact, and paths that end |
| `evidence::MerkleLog`, digital id | entries, tree | append, proofs, save, load | proofs are accepted exactly when true |
| `jurisdiction::Hierarchy` | tree of regions | build, resolve | the deepest region that contains the point |
| `app::Api` | sessions, polls, throttles, buckets | routes | a session names the user who signed in; the documented rights and no more |
| `net::http::Server` | connections | the poll loop | one answer each; every slot comes back |
| `app::ScenarioRunner` | script, clock, backlog | load, start, pause, reset, speed, advance | the story is replayed as written, at the speed set |
| `app/lab`, `viz`, `bench`, `sim`, `util`, `web` | none of their own | demonstrations, rendering, parsing, driving tests | not state machines |

Interactions.  A fix enters through `ingest_fix`, which records it in the trail
and lets the evaluator turn it into zone events; those, anomalies and group
separations become alerts (`raise_alert`), which are put on the escalation
clock, given to the correlator (`correlate`), gathered into incidents, and give
each incident a case with a recommended unit (`after_incident_touched`).  Staff
act on alerts and cases; resolving closes both.  While a device is offline it
owns a copy of the tourist's engine state, zones and index; `reconnect` merges
its queue into the log and adopts its state.  `tick` runs anomaly detection,
cohesion, escalation and retention, in this order.  The console's routes check
a session and the caller's role, then call the platform, which checks again; a
scenario load replaces the whole platform under the sessions.

The hard behaviours are listed one by one, with their source lines and the
properties that cover them, under "hazards" in PROJECT.json.

## 2. Modules

| Module | Models | Depends on |
|---|---|---|
| `Hysteresis` | the hysteresis machine and `classify`, as operators | |
| `Evaluator`, `EvaluatorProofs` | `Evaluator::on_fix`, zones created, changed and deleted, sessions, the sampler | `Hysteresis` |
| `Lamport` | stamps, the queue's `enqueue`, the total order of the reconciler | |
| `Tracking`, `TrackingProofs` | the platform's tracking half | `Lamport` |
| `Outbox` | queues with files, restarts, batches on their way, the merged timeline; its proofs are in `DeliveryProofs` | `Lamport` |
| `Board` | alerts of zone events, forecasts, expiry, escalated severity, `alert_active`; its proofs are in `DeliveryProofs` | |
| `Deadlines` | the abstract specification: a set of cancellable deadlines | |
| `Escalation`, `EscalationProofs` | timer wheel, tracker and the platform's `escalate`; implements `Deadlines` | `Deadlines` |
| `Dispatch`, `DispatchProofs` | correlator, cases, alerts, units, plans | |
| `Cohesion`, `CohesionProofs` | cohesion monitor and group service | |
| `Connectivity` | `RollbackDSU`; its proofs are in `CohesionProofs` | |
| `ZoneHistory` | the abstract specification: a sequence of dated worlds that is only added to | |
| `VersionedIndex`, `VersionedIndexProofs` | the path-copied quadtree, validity records and the queries; implements `ZoneHistory` | `ZoneHistory`, `Boxes` |
| `Boxes`, `RTree`, `Quadtree`, `Geohash`, `KdTree` | the spatial indexes, node by node | `Boxes` |
| `Containers` | `HashMap`, `IntervalTree`, `CircularBuffer` | |
| `Structures` | all of these edited together | the two rows above |
| `Roads` | road graph, its file, `PriorityQueue`, Dijkstra and A* as step functions | |
| `RoadNetwork` | a graph that is edited, saved and loaded, and searches step by step | `Roads` |
| `Planner` | `hungarian`, Kuhn's augmenting paths, cost matrix, optimal and greedy plans | `Roads` |
| `Geometry` | segments, rings, polygons with holes, ray casting, winding numbers | |
| `Drawing` | a zone drawn vertex by vertex; validation, the sweep, `classify` | `Geometry` |
| `Hierarchy` | jurisdictions | `Geometry` |
| `Evidence` | the Merkle log, its proofs, its file, identity codes; its theorem is in `CohesionProofs` | |
| `Access` | the two gates of every request; sessions, accounts, the audit of location reads, scenario load | |
| `SignIn`, `RateLimit` | the three locks on passwords; the token buckets | |
| `Scenario` | the runner's clock and the world its steps act on | |
| `MCFront`, `FrontProofs` | the four above in one instance, with the scripts of `scenario.cpp` | the rows above |
| `HttpServer` | the poll loop with its connections and clients | |
| `DeliveryProofs` | theorems of `HttpServer`, `Outbox` and `Board`: what is delivered arrives once and counts as it should | the three |
| `MC*` | instances for TLC | |

One handler of the code is one action, because handlers run to completion;
where a handler walks a list and the walk can meet what it changes itself
(`Correlator::ingest`, `plan_dispatch`, `TimerWheel::advance`, `escalate`), it
is a phase with one action per round, and no request is handled in between.
Requests that are refused before they change anything are left out, except where
the refusal is what a property is about (`Access`, `HttpServer`).  Two change what
they refuse to change.  A scenario load may answer 400 after it has replaced the
platform; `Access` has that outcome.  A settings request may keep what it stored
before the field it refuses (section 5).

*Evaluator.*  Distances are integers.  A fix is a record of what the engine can
learn of it for each zone: signed distance, distance to the bounding box,
whether the index query reaches it, whether the heading leads there; the
assumption `FixAssumption` ties them together as geometry does (a box contains
its zone; what the query misses is farther than its radius).  The variables are
those of `track::ZoneState`; the history variables rebuild from the events
alone what a reader of the log would believe.

*Tracking.*  The engine is abstracted to one zone: inside or not, since when by
whose clock.  Time is a counter; a device's clock differs by a skew.

*Outbox.*  The file is written in place, and a death on the way leaves it cut
short; a batch once drained may be delivered again and in any order.  History variables
keep what each device made (`made`) and whether its file could still restore
its count (`sure`, `forgot`).

*Board.*  The engine is one standing per user and zone; `computed` is the set
of users whose flag was last set by the server and not by a device's copy.

*Escalation.*  The wheel is modelled slot by slot, with the round trip of the
hand, `cancel`'s search in a slot, and the second check in
`EscalationTracker::advance`.  `Timeout`, `TickMs` and `Slots` are parameters.

*Dispatch.*  Places are on a line with one junction each; places of `Island`
have no road to the others.  Alert kinds are reduced to what the correlator and
the cases look at.  `assign_optimal` is modelled by what it promises (a
cheapest matching that reaches as many as can be reached); that the code's
algorithm keeps the promise is what `Planner` shows.

*Cohesion.*  Places are on a line; `place` is a function on those tourists the
pass can see.  `RollbackDSU` is modelled by the components it returns, which
`Connectivity` justifies.  The monitor's `was_fragmented_` and the record's
`fragmented` change together, and are one member, `TheGroup`, of `apart`.
`prev_stragglers_` influences only `StragglerDetected` events, which the
platform does not use.

*VersionedIndex.*  Nodes are allocated and never changed; a version is a root.
An edit copies the path to the item, widens the root when a box pokes out of
the world, and records validity in the interval tree, modelled as a set.  The heap
is a sequence that only grows, so a node is shared exactly when two versions lead
to the same index of it.

*Indexes, containers, graphs.*  Coordinates are integers, and the structures
are the code's: which item a split moves, which slot a probe takes, where a
tombstone stays, how the heap's array is ordered.  Ties are broken as the code
breaks them.

*Drawing, Hierarchy.*  The predicates are exact in integers; the code's
tolerances (1e-14 and 1e-9 degrees) are below one unit of the grid.

*Evidence.*  A hash of a pair is the pair: no two inputs collide.  The code's
recursions over ranges of leaves are functions on ranges, its loops are functions
of the number of turns, so that they can be reasoned about.

*Access.*  A session is a name mapped to the account number it was given.
Expiry may happen whenever the session is presented: the wall clock is not the
platform's.  `ApiGate` is the endpoint's test and `PlatformGate` that of the
platform call; an operation passes when both do.  `ServedByRight` compares the
result with the table of rights in the technical documentation.  A load has three
outcomes: it succeeds; it fails after the platform was replaced, because the zone
file lacks the two zones of the stories, and leaves the sessions and the table of
last polls as they were; or the file cannot be read and the old platform stays.
`Load` lets any of them happen at any time.  A reset succeeds whatever the load in it
did, and without a story rebuilds nothing but ends the sessions (`Reset`).  Two
history variables say what a failed load leaves behind: `outlived`, whose session is
of an account registered at run time in an earlier world, and `leftOver`, the polls
of an earlier world.

*Scenario.*  The zone file is the one the server started with, so a story that could
be loaded once can be loaded again, and where none can the runner stays idle.  A file
that is exchanged while a story plays is in `Access` only.

*HttpServer.*  A request is abstracted to what the parser tests; bytes are
counted.  Between two steps of the loop, clients send, read or do neither.

## 3. Runs

| Run | Question | Bounds |
|---|---|---|
| `evaluator_flapping` | Is what is reported confirmed, complete and prompt, whatever fixes come and whatever is done to the zone? | one zone (zones do not interact without a cap), eight kinds of fix, four times, two samples to confirm, counter modulo 4 |
| `evaluator_capped` | Does a stay end when it is over and only then, also when the zone is dropped by the candidate cap or no longer returned by the index? | two zones, one slot |
| `tracking` | Consent, adoption of what a device told, lost signals, stable history | one user, time 0..3, one trip, two trail points |
| `tracking_second_trip` | *violation*: does a second trip hand over its events? | two trips |
| `escalation` | Does the wheel with its tracker implement `Deadlines`; does every alert left alone escalate, in time and once? | two alerts, two slots of two units, timeout 3, clock to 9 |
| `dispatch` | Units, recommendations, membership, resolution | two alerts, two units, three places, one off the network |
| `cohesion` | Are separations confirmed, alerted in time and once, settled when over? | three alike tourists (symmetry), three places, two settings, one rebuild, clock to 3 |
| `versions` | Does the versioned index implement `ZoneHistory`, and answer with the zones of then? | two zones, four boxes, leaves of one item, depth 2, four versions, edits at any time |
| `http` | Is each request answered once, and does each slot come back? | three clients, two slots, five kinds of request, timeouts of one and two units |
| `front` | Do sessions, rights, locks, rates and the scenario clock hold? | one part at a time: three calls at the console by two people, up to two accounts registered, as tourist or administrator, every outcome of a load; five scripts; one account from two addresses; five requests of eight kinds |
| `algorithms` | Do structures, searches, plans, shapes, jurisdictions, the log, components, the outbox and the board do what a plain definition says? | one part at a time; see below |
| `nesting` | *violation*: does a region hold all that is nested in it? | three regions with borders that touch at vertices |

`front` and `algorithms` put parts that share no state into one instance: the
variable `part` says which one a behaviour is about, and the variables of the
others are `Off`.  Their state spaces add and do not multiply.

Why these bounds are enough to be interesting.  In the evaluator, the dwell
time, the confirmation count and the counter's width are all reached and
exceeded within four times, and a zone's window can end inside a stay.  In
`tracking`, three units of time let a fix be on time, late and from the future,
a session end and begin again, a whole offline trip fit, and retention drop a
point.  On the wheel of two slots, timeouts span more than one revolution and a
tick can skip up to four wheel ticks, so a slot holds timers of different
revolutions and the hand passes several in one call.  In `dispatch`, two alerts
and two units give every way to merge or split, reassign, recall and plan.  In
`cohesion`, three tourists give a party and a straggler, a split without
straggler, and ties; the confirmation time and the bound of
`StragglerIsAlertedInTime` are reached before the clock ends.  In `versions`, a
box in a quarter, one in a quarter of it, one across the middle and one that
leaves the world make every branch of insertion happen: split, descent, item
kept at a node, widening.  In `http`, a chunk is shorter than a header with its
body, so requests arrive in pieces, and a third client waits for a slot.

In `algorithms`: seventeen boxes that touch, coincide and leave the grid, bulk
built and then edited twice, give R-trees of three levels, a quadtree at its
depth limit and tables that rehash; road graphs have equal routes, roads of no
length and unreachable corners; plans have fewer, as many and more units than
incidents; outlines have up to six vertices on a lattice and two holes; eight
shapes give every set of three regions in every order; the log has up to five
records, so sizes on both sides of a power of two; five elements reach rank 2.
The outbox has two devices of two events and one restart, the board one tourist
and zone, two severities, two alerts, one trip.

Bounds that only keep a model finite carry names (`MaxNow`, `MaxTime`,
`MaxTrips`, `MaxQueue`, `MaxTrail`, `MaxAlerts`, `MaxChanges`, `MaxVersions`,
`MaxCalls`, `MaxMade`, ...).  Deadlock is checked where the system goes on for
ever within its bounds; runs whose parts come to an end (all vertices drawn, all
versions made) say `CHECK_DEADLOCK FALSE`.  `front` tells states apart without
the last answer (a VIEW): no action reads it, and properties about an answer are
action properties, evaluated on the step that gives it.

Fairness.  `escalation`: `WF` on the rounds of a pass (`AdvanceBegins`,
`AdvanceTick`, `Escalate`), because the handler's own loops run to their end;
`SF` on `Passes`, a call of `Platform::tick` with a later time, because the
server's loop calls tick after every poll, whatever requests come in between,
and the clock goes on.  `http`: `WF` on the loop and `SF` on rounds that take
time: poll returns at once only when a socket is ready, and of endlessly many
rounds endlessly many take time.  Nothing is assumed of operators, tourists or
clients, who may fall silent for ever.

## 4. What is proved

All theorems hold for every value of the constants that satisfies the named
assumption of the module (`EvaluatorAssumption` and so on): parameters are
natural numbers of the sort the code's types and validation give.  None of the
invariants of the runs is inductive as it stands; what each needs is named here.

* `EvaluatorProofs`: every property of `Evaluator` but `SamplesOftenEnough`,
  which is false; the ones no run
  carries among them (type correctness, `ReconciledAfterFix`, `Alternation`,
  `NoUncertainFlood`).  An event is right only if the
  machine's counters, the store and the history agree.  The invariant is
  `TypeOK` and, for each zone, `ZoneInv` (phase against confirmed containment,
  counters against runs of samples), `StepInv` (the events of the last step
  against the change it made) and `SettledInv` (no entry without a zone).  In
  `ZoneInv`, `ClearRun` says that a machine on its way out counts exactly the fixes
  seen beyond the exit margin; from it follows that a stay ends (`StaysEndWhenLeft`).
  Each step is followed through the machine's branches once, in lemmas about the
  operators, and then lifted to the actions.
* `TrackingProofs`: `ConsentGates`, inductive with the domains of the device
  agents, and `SignalAnswered` with the invariant `Contact`, which adds
  (`Silence`) that a tracked user with an open alert is in the anomaly and has been
  silent longer than the gap.  `ToldIsAdopted` on the first trip (`FirstTripIsTold`
  for users of any model who have made one trip, `FirstTripIsAdopted` with the
  hypothesis `MaxTrips <= 1` that the run has too; what a second trip does is
  section 5): `ToldInv` says that until a user is back from his first trip no stamp
  of his device has been seen (`Unheard`), and that the engine has a user inside
  exactly when he was told of, the device's engine as soon as the last event it
  queued arrives (`Agreed`).  `PastIsStable`: `TrailInv`
  keeps trails sequences of points, and each step is shown to add behind, to cut, or
  to filter a trail, none of which moves what was known of a past instant.
  `PositionsNeedASession`, which no run carries: `SessionInv` says that what a device
  away has queued was taken, on the clock it then had, after the running session began;
  a step adds to a trail only points of the session (`AddsSince`), however many items
  the reconnect merges.
* `EscalationProofs`: `WheelHoldsWaiting`, `ArmedIsOpen`, `EscalatesOnTime`,
  `EscalatedOnce` and the refinement `ImplementsDeadlines`.  To
  `WheelHoldsWaiting` and `ArmedIsOpen` the invariant adds that the hand is never
  ahead of the clock (`Numbers`), that between two calls of tick it is less than a
  wheel tick behind and what fired was due (`Punctual`), and what the phases of a
  pass hold (`Between`); the arithmetic (`CeilDiv`, slots) is in lemmas of its own.
  `TypeOK` and `PendingIsTrue`, which no run carries: `Counted` adds
  that the alerts on the clock are finitely many, without assuming it of `Alerts`, and the
  timers a slot fires correspond one to one to the alerts they belong to.
* `DispatchProofs`: all the properties of the run.  For units, cases and sign-off
  the invariant adds `Shape`, `Tables`, `Book`
  (incidents against cases, the merge set against closed incidents) and `Roster`
  (units on duty, in the field, registered).  For `OneIncidentEach` it adds
  `Membership` (every alert raised waits to be routed or is in one incident, and
  incidents do not overlap, also when several are absorbed in one round) and `Told`
  (an alert knows its incident unless that incident is still to be handled).
  Two that no run carries: `PlanHolds` with `Disjoint` (no two pairs of a
  plan share a case or a unit, so sending one takes neither from another), and
  `MovesForward` with `Unraised` (alerts not raised yet have no state to go back to).
* `CohesionProofs`, groups: all the properties of the run.  The invariant adds that a
  separation was first seen
  after the last time there was none, and that the code's flag knows of every
  alert of the separation.  For `StragglerIsAlertedInTime` it adds that the clock
  has not come to the next pass (`Paced`) and what the last pass saw of one who has
  strayed since (`Followed`): the delay is `confirm_ms` and at most two passes.
  The proofs use of the geometry only that a straggler
  is not of the party, so they hold for any notion of distance.
* `CohesionProofs`, components: `ForestIsTrue`.  That the forest now is that of the
  unions in force is not inductive: a rollback must give back a forest that was
  right.  `DsuInv` says that there are forests, one for each length of the undo stack,
  each of them right for the unions it stands for (`Stood`: finding leads to the same
  root exactly for joined elements, ranks grow on every way up, a root of rank r has
  at least 2^r below it), and that each entry of the stack undoes the next
  to the one before.
* `CohesionProofs`, evidence: `LogIsTamperEvident`, for logs of every length and
  proofs of any form.  The invariant is only that whatever was ever
  the log is a sequence of records; the work is in the lemmas about the
  verifiers, which climb level by level while trees are split range by range.
  Level k of a tree of n leaves has a node per 2^k of them and one for what is left
  (`Node`, `NodeUp`); a node's hash tells all its leaves (`RangeTells`).
  *Sound*: what `verify` holds before each step, if it is to end at the root, is the
  hash of a node, and the turns it took say of which (`StepLeads`, `CodesAreSound`);
  `verify_consistency` traced backwards from the two roots shows that the two
  logs agree under the node it climbed from (`LevelBack`, `GrowthSound`).
  *Complete*: the siblings that `path` and `subproof` list are those along the
  way the verifier climbs, levels without a sibling skipped as it skips them
  (`PlaceUp`, `WayVerifies`, `GrowthWay`, `GrowthComplete`).
* `DeliveryProofs`, requests: `AnsweredOnce`.  The invariant says of each connection
  (`Fair`) that an answer once given fits the bytes that came, and that until then
  what came is no more than the parser takes for incomplete; and of the table
  (`Slots`) that its connections are clients' and no more than `MaxConnections`.
* `DeliveryProofs`, outbox: `OutboxIsTrue`.  `BoxInv` adds to the types that whatever
  is held, on disk, on its way or told was made by the device it names
  (`Truthful`); that a device which never came back behind its count has counted all
  it made (`Counting`); that the file of a device called sure knows the highest
  stamp (`OnDisk`); and that the timeline is in Lamport order and the
  server's clock beyond it (`TimelineInOrder`).  Merging is a filter and a sort, and the lemmas say what
  each keeps.
* `DeliveryProofs`, board: `BoardIsTrue`.  `BoardInv` states what is promised of forecasts as who is
  inside has none open (`Outside`), and none nobody took meets the next sweep too late
  (`Timely`, `InTime`).  It adds that a device that is away and inside a zone has an
  entry to tell after every forecast it tells (`ToTell`), because only with it does a
  reconnect leave the board right.
* `VersionedIndexProofs`: all the properties of the run.  For `ForceIsFound`, now a part of
  `QueriesTellTheWorld`, and `AnswersStand` the invariant
  `IndexInv` says that every node's kids are in the heap and every root too
  (`VersionsInv`), that records are of versions made (`RecordsInv`), and that the
  interval tree holds an entry for every record of a zone that was there, and
  nothing else (`TreeInv`).  Every edit keeps it and `Extends` what was: nodes,
  roots, times and records are added to and not changed, and what is added to the
  records is of the new version.  From this the answers follow: an instant
  before the edit's time sees the version it saw, the version reads the record it
  read, and the traversal visits the nodes it visited, because no kid leads out of
  the old heap.
  `QueriesTellTheWorld` and `ImplementsZoneHistory` need that the tree is right.
  `TreeTrue` adds that what is held under a node fits its region and lies under the kid its
  box leads to, and that depths go up by one (`SoundHeap`); that a version holds one item
  for each zone the records show present (`VersionTrue`); that an edit is no earlier than
  the one before and keeps the tree when only a validity changes (`EditTrue`); and that
  the newest version holds the boxes last drawn (`LiveTrue`).  The refinement maps a version to a dated
  world; an edit adds one world, and nothing else is a step of `ZoneHistory`.
* `FrontProofs`, sessions: `IdentityKept` and `ServedByRight`, for any accounts and
  roles registered at run time and any outcome of a load or reset.  `AccInv` adds that
  every world begins with the built-in accounts in the same order (`Begun`), so the
  number a session of one of them keeps is the same person's.  Sessions of accounts
  registered at run time are the same person's until a load replaces the accounts;
  those that outlive it are the exception the property names (`outlived`, section 5).
  `GatesKeepTheTable` compares both gates with the documented table, in both
  directions and for targets of any number, with the one operation that is withheld
  (`Withheld`).  `AuditedInTime` follows from `LogInv`: an entry in the table of last
  polls stands for a record in the log of this world, unless it is left over
  (`leftOver`) from the world before.
* `FrontProofs`, rates: `RateIsHeld`.  The invariant `RateInv` says that what a client
  was granted since it is watched and what its bucket holds is at most the burst and
  the rate times the time elapsed.  A bucket may be dropped by age, when it would be full
  anyway, or with a table that is emptied because all it holds are busy.  The latter
  ends the watch (the code's own exception); the proof shows that as long as no busy
  bucket is lost the table was not emptied on the way, because it holds more buckets
  (`TableSize`) than one request is charged to.
* `FrontProofs`, locks: `GuessesAreBounded`.  `GuessInv` ties the table's entry to the
  history of the last failures (`Paced`): when the entry counts fewer failures than
  were seen, those it does not count are at least as old as the lock holds, for they
  were cleared by a lock that has run out, or were forgiven or forgotten, which takes
  longer.
* `FrontProofs`, stories: `RunKeepsTime`.  `ClockInv` says that the steps done are exactly
  those due and that the world is what telling these steps from the start makes of it;
  `DoneInPieces` shows that a story told in any pieces is the story told in one, and
  `StoryAssumption`, which TLC evaluates on the five scripts, that told in one piece every
  step takes.

Assumptions the code has to justify.  `FrontAssumption`: a bucket idle for 600 s is full
at the rates and bursts of `src/app/api.cpp`; the locks of 60 and 300 s are shorter than the
900 s failures count and these shorter than the 3600 s after which they are dropped; tables hold
50,000.  `TimesAssumption`: instants and ends of windows are not beyond `Forever`, `INT64_MAX`.
`BoxesAssumption`: boxes are on the integer grid, and
the world is one whose edges are in order.  `AbsentAssumption`: no record is taken for none.
`BoardAssumption`: severities and times are natural numbers, and the sweep has a period.
`BoxAssumption`: devices are numbers.  `DsuAssumption`: there are finitely many elements.
`LogAssumption`: the bounds of the log's model are numbers; the theorem does not depend on how large.  `StoryAssumption`: checked, not assumed.

Induction.  The library's induction theorems take an operator and cannot be instantiated by the
installed provers.  All but three of the proof modules go around them: `LeastNatural` derives from
the well-foundedness of `<`, as a set of pairs, that every set of naturals has a least
element, and `StepByStep` from this that a set with 0 and all successors has them
all.  With it, functions defined step by step (`PathOf`, `TakenBy`, `NodesOf`, `Searched`,
`Find`, `MTH`, `Climb`) are shown to exist, to be one, and to stay in a set
(`IterationExists`, `WalksAgree`, `HashesExist`, `TurnsExist`).  Definitions declared
RECURSIVE remain out of reach.

Only model-checked: liveness (`NoAlertForgotten`, `EveryConnectionEnds`), which
the prover cannot do; and, in the run `algorithms`, `StructuresAgree`, `RoadsAreTrue`,
`PlansAreOptimal`, `ShapesAgree` and `OwnerIsFound`, that is `Structures`, `RoadNetwork`,
`Planner`, `Drawing` and `Hierarchy`, whose definitions are RECURSIVE.

## 5. Where the code differs from what it says

Two runs show a disagreement with the repository's own words:

* `tracking_second_trip`: `go_offline` makes a fresh queue, whose stamps repeat
  those of the first trip; the reconciler drops them as repeats.
* `nesting`: an edge that crosses a concave bay between two vertices of the outer
  region touches its border and never crosses it, so the inner region is nested in
  one that does not hold it, and a position in the bay has no owner.  Districts
  whose borders do not meet in this way are the run `algorithms`.

More were met and have no run.  The first six are stated as properties in
the modules and not named in any configuration; adding the name to one shows
the counterexample.

* `SamplesOftenEnough` (`Evaluator`): the distance given to the sampler is the
  nearest among the zones inside the query window, and 1e12 when there is none,
  so a device may sleep past a zone just outside the window.
* `TrailOrdered` (`Tracking`): `ingest_fix` appends behind a fix that was dated up
  to `max_future_skew_ms` ahead in an earlier session.
* `EntryTimeIsServerTime` (`Tracking`): `reconnect` shifts by the skew also entry
  times the server stamped itself.
* `RecommendsNearest` (`Dispatch`): moving a unit, or recalling one by assigning
  another, does not recompute the recommendations of other cases.
* `LostIsNotRejoined` (`Cohesion`): a straggler who goes offline is left out of
  the pass, the rest is whole, and his open alert is resolved with "member
  rejoined".
* `SessionsNameTheirUser` (`Access`): sessions name accounts by number, and "fresh
  world: user ids are rebuilt" (`src/app/api.cpp:1405`), for which all sessions are
  ended.  Not when the load fails: it is answered (line 1404) after the platform was
  replaced and before the sessions are looked at.  Somebody registered at run time
  stays signed in under a number that the next account to be registered gets.  Nor for
  the caller: his session is put back under its old number, "staff accounts are recreated with
  the same ids" (line 1407), which holds for the built-in staff and not for an
  administrator registered at run time, whose number in the new world is nobody's,
  a simulated tourist's or the next account's.  `IdentityKept` and `ServedByRight`
  except both (`outlived`).
* The failed load also leaves the table of last polls, beside an empty access log and
  a clock at 0.  A poll it holds keeps later ones off the new log for the ten minutes
  after its time on the new clock, so a location is read without a record.
  `AuditedInTime` excepts these polls (`leftOver`) until they are logged again.
* The other way round, a reset without a story, or a load that cannot read the zone file,
  empties that table and keeps the log; a poll then counts as the first and may
  be dropped by `audit_access` as a repeat of a record up to a minute old.  So the bound
  of `AuditedInTime` is ten minutes and one.
* An operator may not move a unit (`src/app/platform.cpp:1135`), where the table of
  endpoints lets operators update units (`COMPLETE_TECHNICAL_DOCUMENTATION.md:125`).  It is
  the only right of the table that is withheld (`Withheld`).
* `battery_aware` turned on during a lost signal leaves its alert open for ever,
  because the next loss overwrites `signal_alert`.  `SignalAnswered` is about users
  who leave that setting alone (`BatterySettings`).
* `src/app/api.cpp:629-631` says one attacker cannot lock an account for everyone;
  but failures are counted until a success or until the table is pruned, and one
  address, waiting out its own locks, reaches the account's limit alone.
* `src/app/platform.cpp:754`: that a device leaves the full rate when no serious alert is
  open does not hold from a reconnect on, which puts the device's older copy of
  `alert_active` over the flag the late events have just set.  A severity raised
  from 2 to 3 by escalation does not set it either.  `FullRateFollowsAlerts` counts a user
  from the next change of his alerts, and severities as they were raised.
* A forecast that was acknowledged never expires; `ForecastsAreSettled` bounds the age of
  open ones.
* A queue drained and then flushed has a file without events, and the events
  carry its counter: after a restart the stamps begin again.  `CountSurvives` is
  about devices whose file was written before they handed over.
* A position in an enclave of one region that is covered by a block nested in
  it has no owner, and one on a common border of two goes to the one of smaller area.
  `DeepestIsFound` leaves both out.
* `PATCH /api/settings` keeps the fields it had stored before it refuses a later one.
* `src/fence/evaluator.cpp:231-235` reads a zone the index did not return as a clear
  exit because the query radius exceeds the default exit margin.  A zone file may set
  a margin of up to 1e6 m (`src/fence/zone.cpp:127-128`), and the distance read is that of the
  bounding box; the exit then comes later.  `ExitIsPrompt` is about margins
  within the query window (`MarginsInWindow`).
* `triage.hpp:28` puts an SOS before everything; a waiting alert overtakes it after
  200 minutes.

## 6. What is not modelled

`app/lab`, `viz`, `bench` and `sim` show, draw, measure and drive what is modelled
here and keep no state of their own.  Parsing and formatting (JSON, HTML, GeoJSON,
OSM, URLs), password hashing, SHA-256, projections and great-circle distances are
data no property reads.  The numerical filters of `track::anomaly` and the triage
score are floating-point formulas with no control to check.  Of `app::Api` the
bodies of requests and answers are left out, of `Platform` the building of a world
from files, names, notes and log texts.  The ranking of incidents and the lowest
common ancestor of jurisdictions are sorts and walks for display.

## 7. What comes next

The models are complete to this extent; what is left are proofs of what `algorithms`
checks of the spatial indexes, searches, plans and shapes.  As for `Evidence`, that
begins with writing the recursions as functions; the quadtree's lemmas of
`VersionedIndexProofs` are the pattern for the other trees.
