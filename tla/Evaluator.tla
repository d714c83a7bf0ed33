------------------------------ MODULE Evaluator ------------------------------
(***************************************************************************)
(* fence::Evaluator for one tourist: a position fix is pruned by the       *)
(* spatial index to a set of candidate zones, each candidate in force is   *)
(* measured and run through its hysteresis machine, differences from the   *)
(* previously confirmed containment become events, zones the index did not *)
(* return are reconciled, and the sampling interval for the next fix is    *)
(* chosen.  Administrators create, update and delete zones in between.     *)
(*                                                                         *)
(* A fix abstracts a position to what the engine measures from it, per     *)
(* zone: the signed distance to the boundary, the distance to the bounding *)
(* box, whether the index returns the zone, and whether the projected      *)
(* position lies inside.  FixAssumption states the geometry that ties      *)
(* these together.                                                         *)
(*                                                                         *)
(* `hist' is a history variable: what an observer who sees only the fixes  *)
(* and the emitted events can tell.  No action reads it.                   *)
(***************************************************************************)
EXTENDS Hysteresis, FiniteSets, FiniteSetsExt, Sequences

CONSTANTS
    Zones,              \* zone ids the store may hand out
    Severity,           \* [Zones -> Nat]
    ZoneEnterMargin,    \* [Zones -> Nat], 0 = inherit EnterMargin
    ZoneExitMargin,     \* [Zones -> Nat], 0 = inherit ExitMargin
    EnterMargin, ExitMargin,
    Windows,            \* validity windows an administrator may set, <<from, to>>
    Dwells,             \* dwell limits an administrator may set; 0 = none
    Policy,             \* EvaluatorConfig::candidate_policy
    MaxCandidates,
    MinQueryRadius, MaxQueryRadius,
    Horizon,            \* prediction_horizon_s
    UnusableAccuracy,
    Tiers,              \* SamplerConfig::tiers, nearest first
    AlertInterval, FastSpeed, MinInterval,
    Fixes,              \* the fixes a device may send
    Times               \* the timestamps they may carry

Radius(f) ==
    LET r == f.acc + f.speed * Horizon
    IN  IF r < MinQueryRadius THEN MinQueryRadius
        ELSE IF r > MaxQueryRadius THEN MaxQueryRadius ELSE r

FixType == [acc : Nat, speed : Nat, sd : [Zones -> Int], box : [Zones -> Nat],
            near : [Zones -> BOOLEAN], leads : [Zones -> BOOLEAN]]

(* A bounding box contains its zone, and the index query is a box around   *)
(* the disc of radius Radius(f): what it misses is farther than that.      *)
FixAssumption ==
    /\ Fixes \subseteq FixType
    /\ \A f \in Fixes, z \in Zones :
          /\ f.box[z] <= IF f.sd[z] > 0 THEN f.sd[z] ELSE 0
          /\ ~f.near[z] => f.box[z] > Radius(f)

ASSUME EvaluatorAssumption ==
    /\ Zones \subseteq Nat
    /\ Severity \in [Zones -> Nat]
    /\ ZoneEnterMargin \in [Zones -> Nat]
    /\ ZoneExitMargin \in [Zones -> Nat]
    /\ EnterMargin \in Nat /\ ExitMargin \in Nat
    /\ \A w \in Windows : w \in Int \X Int /\ w[1] < w[2]
    /\ Dwells \subseteq Nat
    /\ Policy \in {"ExactAlways", "NearestFirstCapped"}
    /\ MaxCandidates \in Nat
    /\ MinQueryRadius \in Nat /\ MaxQueryRadius \in Nat /\ Horizon \in Nat
    /\ UnusableAccuracy \in Nat /\ UnusableAccuracy <= MaxQueryRadius
    /\ Len(Tiers) > 0 /\ \A i \in 1 .. Len(Tiers) : Tiers[i] \in [dist : Nat, interval : Nat]
    /\ \A i \in 1 .. Len(Tiers) : Tiers[i].dist <= Tiers[Len(Tiers)].dist
    /\ AlertInterval \in Nat /\ FastSpeed \in Nat /\ MinInterval \in Nat
    /\ Times \subseteq Nat
    /\ FixAssumption

VARIABLES
    zone,       \* ZoneStore: [status, from, to, dwell] per id
    zs,         \* Tourist::zone_states, with .tracked = "an entry exists"
    lastFix,    \* time of the last fix handed to the evaluator
    interval,   \* AdaptiveSampler::current_interval_ms_
    out,        \* events of the last step, per zone
    seen,       \* how the last step looked at each zone (ZoneState::seen_epoch)
    hist        \* history variable, per zone

vars == <<zone, zs, lastFix, interval, out, seen, hist>>

EventKind == {"ZoneEnter", "ZoneExit", "ZoneUncertain", "ZoneApproaching", "DwellExceeded"}

ZoneStateType ==
    [tracked : BOOLEAN, hyst : HysteresisState, confirmed : Containment,
     entered : Int, dwellReported : BOOLEAN, approachReported : BOOLEAN]

NoState ==
    [tracked |-> FALSE, hyst |-> FreshHysteresis, confirmed |-> "Outside",
     entered |-> 0, dwellReported |-> FALSE, approachReported |-> FALSE]

-----------------------------------------------------------------------------
(* Zones in force, and the candidates of a fix. *)

Live(z) == zone[z].status = "live"

InForce(z, t) == Live(z) /\ zone[z].from <= t /\ t < zone[z].to

Usable(f) == 0 < f.acc /\ f.acc < UnusableAccuracy

Candidates(f) == {z \in Zones : Live(z) /\ f.near[z]}

(* The cut under NearestFirstCapped: nearest box first, then the more       *)
(* severe, then the lower id.                                               *)
RanksBefore(y, z, f) ==
    \/ f.box[y] < f.box[z]
    \/ f.box[y] = f.box[z] /\ Severity[y] > Severity[z]
    \/ f.box[y] = f.box[z] /\ Severity[y] = Severity[z] /\ y < z

Dropped(f) ==
    IF Policy = "NearestFirstCapped"
    THEN {z \in Candidates(f) :
            Cardinality({y \in Candidates(f) : RanksBefore(y, z, f)}) >= MaxCandidates}
    ELSE {}

Examined(f, t) == {z \in Candidates(f) \ Dropped(f) : InForce(z, t)}

-----------------------------------------------------------------------------
(* One zone's part of an evaluation.  Each operator returns the new zone    *)
(* state and the events emitted for that zone.                              *)

Step(s, events) == [state |-> s, events |-> events]

UpdateZoneState(s, z, raw, sd, t) ==
    Update(s.hyst, raw, sd, t,
           IF ZoneEnterMargin[z] > 0 THEN ZoneEnterMargin[z] ELSE EnterMargin,
           IF ZoneExitMargin[z] > 0 THEN ZoneExitMargin[z] ELSE ExitMargin)

TransitionEvents(before, after) ==
    IF before = after THEN {}
    ELSE IF after = "Inside" THEN {"ZoneEnter"}
    ELSE IF before = "Inside" THEN {"ZoneExit"}
    ELSE IF after = "Uncertain" THEN {"ZoneUncertain"} ELSE {}

(* Mutant of Transition: every look re-arms the dwell report. *)
TransitionRearms(s, u, t) ==
    Step([tracked |-> TRUE, hyst |-> u.hyst, confirmed |-> u.confirmed,
          entered |-> IF s.confirmed # "Inside" THEN t ELSE s.entered,
          dwellReported |-> FALSE, approachReported |-> FALSE],
         TransitionEvents(s.confirmed, u.confirmed))

(* emit_transition, after the machine has moved to u.hyst. *)
Transition(s, u, t) ==
    LET changed == u.confirmed # s.confirmed
        entered == changed /\ u.confirmed = "Inside"
    IN  Step([tracked          |-> TRUE,
              hyst             |-> u.hyst,
              confirmed        |-> u.confirmed,
              entered          |-> IF entered THEN t ELSE s.entered,
              dwellReported    |-> ~entered /\ s.dwellReported,
              approachReported |-> ~changed /\ s.approachReported],
             TransitionEvents(s.confirmed, u.confirmed))

Overstays(s, z, t) ==
    /\ s.confirmed = "Inside" /\ ~s.dwellReported
    /\ zone[z].dwell > 0
    /\ t - s.entered > zone[z].dwell

(* Moving at walking to running speed, outside, and the heading leads in    *)
(* within the prediction horizon.                                           *)
Approaches(s, z, f) ==
    /\ s.confirmed = "Outside" /\ ~s.approachReported
    /\ f.speed \in 1 .. 7 /\ f.sd[z] > 0
    /\ f.sd[z] <= f.speed * Horizon
    /\ f.leads[z]

Examine(z, f, t) ==
    LET u  == UpdateZoneState(zs[z], z, Classify(f.sd[z], f.acc), f.sd[z], t)
        tr == Transition(zs[z], u, t)
        dw == Overstays(tr.state, z, t)
        ap == Approaches(tr.state, z, f)
    IN  Step([[tr.state EXCEPT !.dwellReported = @ \/ dw] EXCEPT !.approachReported = @ \/ ap],
             tr.events \cup (IF dw THEN {"DwellExceeded"} ELSE {})
                       \cup (IF ap THEN {"ZoneApproaching"} ELSE {}))

(* reconcile: the zone went out of force, or was deleted. *)
Close(z) == Step(NoState, IF zs[z].confirmed = "Inside" THEN {"ZoneExit"} ELSE {})

(* Mutant of OutOfWindow: what the index does not return stays as it is. *)
OutOfWindowForgotten(z, f, t) == Step(zs[z], {})

(* reconcile: in force but not returned by the index, a certain Outside at  *)
(* the distance of its bounding box.  A settled entry is discarded.         *)
OutOfWindow(z, f, t) ==
    LET u  == UpdateZoneState(zs[z], z, "Outside", f.box[z], t)
        tr == Transition(zs[z], u, t)
    IN  IF tr.state.confirmed = "Outside" /\ u.hyst.phase = "Outside"
        THEN Step(NoState, tr.events) ELSE tr

Sight == {"examined", "skipped", "closed", "unreturned"}

SightOf(z, f, t) ==
    IF z \in Examined(f, t) THEN "examined"
    ELSE IF z \in Dropped(f) \/ ~zs[z].tracked THEN "skipped"
    ELSE IF ~InForce(z, t) THEN "closed"
    ELSE "unreturned"

Evaluation(z, f, t) ==
    CASE SightOf(z, f, t) = "examined"      -> Examine(z, f, t)
      [] SightOf(z, f, t) = "closed"        -> Close(z)
      [] SightOf(z, f, t) = "unreturned" -> OutOfWindow(z, f, t)
      [] SightOf(z, f, t) = "skipped"       -> Step(zs[z], {})

-----------------------------------------------------------------------------
(* The sampler: the interval for the next fix from the nearest zone seen.   *)

Far == Tiers[Len(Tiers)].dist

Distance(sd) == IF sd < 0 THEN -sd ELSE sd

Nearest(f, t) ==
    Min({Far} \cup {Distance(f.sd[z]) : z \in Examined(f, t)}
              \cup {f.box[z] : z \in {y \in Examined(f, t) : f.box[y] > 0}})

TierInterval(d) ==
    LET i == CHOOSE i \in 1 .. Len(Tiers) :
                d <= Tiers[i].dist /\ \A j \in 1 .. i - 1 : d > Tiers[j].dist
    IN  Tiers[i].interval

SampleInterval(f, t, alertActive) ==
    LET base == IF alertActive THEN AlertInterval ELSE TierInterval(Nearest(f, t))
        fast == IF f.speed > FastSpeed THEN (base * FastSpeed) \div f.speed ELSE base
    IN  IF fast < MinInterval THEN MinInterval ELSE fast

-----------------------------------------------------------------------------
(* History: what the observations and the events alone determine.           *)
(*   open    the events so far place the tourist inside the zone            *)
(*   deep    length of the current run of fixes clearly inside the entry    *)
(*           margin, saturating at CountMod                                 *)
(*   clear   the same for fixes clearly outside the exit margin             *)
(*   attempt time of the first deep fix since a fix that was certainly not  *)
(*           deep; None if there is none                                    *)
(*   hazy    ZoneUncertain was reported, and not cleared since by           *)
(*           ConfirmSamples clear fixes or by the zone leaving force        *)
(*   dwelt   DwellExceeded was reported for the current stay                *)

None == -1

NoHistory == [open |-> FALSE, deep |-> 0, clear |-> 0, attempt |-> None,
              hazy |-> FALSE, dwelt |-> FALSE]

HistoryType ==
    [open : BOOLEAN, deep : 0 .. CountMod, clear : 0 .. CountMod,
     attempt : Times \cup {None}, hazy : BOOLEAN, dwelt : BOOLEAN]

Longer(n) == IF n < CountMod THEN n + 1 ELSE n

Enters(z, raw, sd) ==
    raw # "Uncertain" /\
    sd < -(IF ZoneEnterMargin[z] > 0 THEN ZoneEnterMargin[z] ELSE EnterMargin)

Clears(z, raw, sd) ==
    raw # "Uncertain" /\
    sd > (IF ZoneExitMargin[z] > 0 THEN ZoneExitMargin[z] ELSE ExitMargin)

Observe(h, z, raw, sd, t, events) ==
    LET deep  == Enters(z, raw, sd)
        clear == IF Clears(z, raw, sd) THEN Longer(h.clear) ELSE 0
    IN  [open    |-> "ZoneEnter" \in events \/ (h.open /\ "ZoneExit" \notin events),
         deep    |-> IF deep THEN Longer(h.deep) ELSE 0,
         clear   |-> clear,
         attempt |-> IF deep THEN (IF h.attempt = None THEN t ELSE h.attempt)
                     ELSE IF raw = "Uncertain" THEN h.attempt ELSE None,
         hazy    |-> "ZoneUncertain" \in events \/ (h.hazy /\ clear < ConfirmSamples),
         dwelt   |-> "DwellExceeded" \in events
                        \/ (h.dwelt /\ "ZoneEnter" \notin events)]

History(z, f, t, events) ==
    IF z \in Dropped(f) THEN hist[z]
    ELSE IF ~InForce(z, t)
    THEN [NoHistory EXCEPT !.open = hist[z].open /\ "ZoneExit" \notin events]
    ELSE Observe(hist[z], z, Classify(f.sd[z], f.acc), f.sd[z], t, events)

-----------------------------------------------------------------------------
Quiet ==
    /\ out' = [z \in Zones |-> {}]
    /\ seen' = [z \in Zones |-> "skipped"]

Init ==
    /\ zone = [z \in Zones |-> [status |-> "absent", from |-> 0, to |-> 0, dwell |-> 0]]
    /\ zs = [z \in Zones |-> NoState]
    /\ lastFix = 0
    /\ interval = 0
    /\ out = [z \in Zones |-> {}]
    /\ seen = [z \in Zones |-> "skipped"]
    /\ hist = [z \in Zones |-> NoHistory]

(* Evaluator::evaluate on a fix no older than the last accepted one. *)
EvaluateUsable(f, t, alertActive) ==
    /\ t >= lastFix
    /\ Usable(f)
    /\ lastFix' = t
    /\ interval' = SampleInterval(f, t, alertActive)
    /\ seen' = [z \in Zones |-> SightOf(z, f, t)]
    /\ LET e == [z \in Zones |-> Evaluation(z, f, t)]
       IN  /\ zs' = [z \in Zones |-> e[z].state]
           /\ out' = [z \in Zones |-> e[z].events]
           /\ hist' = [z \in Zones |-> History(z, f, t, e[z].events)]
    /\ UNCHANGED zone

(* The usability gate: a hopeless fix changes nothing but the last-fix time. *)
RejectNoisy(f, t) ==
    /\ t >= lastFix
    /\ ~Usable(f)
    /\ lastFix' = t
    /\ Quiet
    /\ UNCHANGED <<zone, zs, interval, hist>>

(* stop_sharing and the next start_sharing: entries are discarded, not       *)
(* exited, and the new session's fixes need not follow the old session's.    *)
NewSession(t) ==
    /\ lastFix' = t
    /\ zs' = [z \in Zones |-> NoState]
    /\ interval' = 0
    /\ Quiet
    /\ hist' = [z \in Zones |-> NoHistory]
    /\ UNCHANGED zone

(* ZoneStore::add gives the next id, so ids are never used twice. *)
CreateZone(z, w, d) ==
    /\ zone[z].status = "absent"
    /\ \A y \in Zones : y < z => zone[y].status # "absent"
    /\ zone' = [zone EXCEPT ![z] = [status |-> "live", from |-> w[1], to |-> w[2], dwell |-> d]]
    /\ Quiet
    /\ UNCHANGED <<zs, lastFix, interval, hist>>

(* update_zone; set_zone_validity and set_zone_dwell keep the other field.   *)
UpdateZone(z, w, d) ==
    /\ Live(z)
    /\ zone' = [zone EXCEPT ![z].from = w[1], ![z].to = w[2], ![z].dwell = d]
    /\ Quiet
    /\ UNCHANGED <<zs, lastFix, interval, hist>>

DeleteZone(z) ==
    /\ Live(z)
    /\ zone' = [zone EXCEPT ![z].status = "deleted"]
    /\ Quiet
    /\ UNCHANGED <<zs, lastFix, interval, hist>>

Next ==
    \/ \E f \in Fixes, t \in Times, alertActive \in BOOLEAN :
          EvaluateUsable(f, t, alertActive)
    \/ \E f \in Fixes, t \in Times : RejectNoisy(f, t)
    \/ \E t \in Times : NewSession(t)
    \/ \E z \in Zones, w \in Windows, d \in Dwells : CreateZone(z, w, d)
    \/ \E z \in Zones, w \in Windows, d \in Dwells : UpdateZone(z, w, d)
    \/ \E z \in Zones : DeleteZone(z)

Spec == Init /\ [][Next]_vars
-----------------------------------------------------------------------------
(* Correctness. *)

ZoneRecord == [status : {"absent", "live", "deleted"}, from : Int, to : Int, dwell : Nat]

(* Every variable keeps to its domain; in particular agree_count_ never      *)
(* leaves the range of its integer type.                                     *)
TypeOK ==
    /\ zone \in [Zones -> ZoneRecord]
    /\ zs \in [Zones -> ZoneStateType]
    /\ lastFix \in Nat
    /\ interval \in Nat
    /\ out \in [Zones -> SUBSET EventKind]
    /\ seen \in [Zones -> Sight]
    /\ hist \in [Zones -> HistoryType]

(* "State is not an event": the containment the engine holds is exactly the  *)
(* one a consumer rebuilds from the Enter and Exit events, through re-used   *)
(* entries, discarded entries, closed zones and skipped candidates.          *)
EventsTellContainment ==
    \A z \in Zones : hist[z].open <=> zs[z].confirmed = "Inside"

(* Enter and Exit alternate: emit_transition and the close in reconcile      *)
(* between them never repeat an Enter or emit an Exit without an Enter.      *)
Alternates ==
    \A z \in Zones :
       /\ "ZoneEnter" \in out'[z] => ~hist[z].open /\ "ZoneExit" \notin out'[z]
       /\ "ZoneExit" \in out'[z] => hist[z].open

Alternation == [][Alternates]_vars

(* Flapping suppression, entry: an Enter is emitted only at the end of       *)
(* ConfirmSamples consecutive fixes beyond the entry margin, MinDwell or     *)
(* more after the attempt began.                                             *)
EnterIsConfirmed ==
    \A z \in Zones : Enabled /\ "ZoneEnter" \in out[z] =>
        /\ hist[z].deep >= ConfirmSamples
        /\ hist[z].attempt # None
        /\ lastFix - hist[z].attempt >= MinDwell

(* Flapping suppression, exit: as long as a zone is in force, an Exit is     *)
(* emitted only after ConfirmSamples consecutive fixes beyond the exit       *)
(* margin; an Uncertain verdict never ends a stay.                           *)
ExitIsConfirmed ==
    \A z \in Zones : Enabled /\ "ZoneExit" \in out[z] /\ InForce(z, lastFix) =>
        hist[z].clear >= ConfirmSamples

(* Flapping suppression, both ways. *)
ChangesAreConfirmed == EnterIsConfirmed /\ ExitIsConfirmed

(* No zone's exit margin reaches beyond the index's query window, outside of *)
(* which only the distance of the bounding box is known.                     *)
MarginsInWindow ==
    \A z \in Zones :
        LET margin == IF ZoneExitMargin[z] > 0 THEN ZoneExitMargin[z] ELSE ExitMargin
        IN  margin <= MinQueryRadius /\ margin <= MaxQueryRadius

(* Suppression never becomes a stay that does not end: a tourist seen beyond *)
(* the exit margin for ConfirmSamples fixes is reported out, also where the  *)
(* index no longer returns the zone (provided the run is shorter than the    *)
(* range of agree_count_); and nobody is left inside a zone that is deleted  *)
(* or out of force, except a candidate dropped by the cap.                   *)
ExitIsPrompt ==
    \A z \in Zones :
        /\ /\ Enabled /\ MarginsInWindow
           /\ hist[z].clear >= ConfirmSamples /\ hist[z].clear >= 2
           /\ hist[z].clear < CountMod
           => ~hist[z].open
        /\ seen[z] # "skipped" /\ ~InForce(z, lastFix) => ~hist[z].open

(* A stay ends when it is over and only then: the engine and the log agree   *)
(* on it, no fix that loses the zone, and no cap that drops it, makes it     *)
(* last or cuts it short (reconcile and the candidate cap in evaluate).      *)
StaysEndWhenLeft == EventsTellContainment /\ ExitIsConfirmed /\ ExitIsPrompt

(* Suppression never becomes a missed breach: a tourist seen deep inside for *)
(* ConfirmSamples fixes and MinDwell is reported inside, provided the run is *)
(* shorter than the range of agree_count_.                                   *)
EntryIsPrompt ==
    \A z \in Zones :
        /\ Enabled
        /\ seen[z] = "examined"
        /\ hist[z].deep >= ConfirmSamples /\ hist[z].deep >= 2
        /\ hist[z].deep < CountMod
        /\ lastFix - hist[z].attempt >= MinDwell
        => zs[z].confirmed = "Inside"

(* The Uncertain band is filtered too: no second ZoneUncertain until the     *)
(* first was cleared by ConfirmSamples clear fixes or by the zone closing.   *)
UncertainOnce ==
    \A z \in Zones : Enabled /\ "ZoneUncertain" \in out'[z] => ~hist[z].hazy

NoUncertainFlood == [][UncertainOnce]_vars

(* A stay is reported as too long at most once, even when the limit is       *)
(* changed during the stay, and never after it ended; and every stay whose   *)
(* zone is examined when it has lasted longer than the limit was reported,   *)
(* a second stay as well as the first.                                       *)
DwellOnce ==
    \A z \in Zones :
       /\ "DwellExceeded" \in out'[z] =>
             /\ hist'[z].open
             /\ ~hist[z].dwelt \/ "ZoneEnter" \in out'[z]
       /\ /\ seen'[z] = "examined" /\ hist'[z].open
          /\ zone[z].dwell > 0 /\ lastFix' - zs'[z].entered > zone[z].dwell
          => hist'[z].dwelt

OneDwellPerStay == [][DwellOnce]_vars

(* The reconciliation of step 9: after a usable fix nobody is left inside a  *)
(* zone that is deleted or out of force, except a candidate dropped by the   *)
(* cap; and an entry the fix did not examine survives only while unsettled.  *)
ReconciledAfterFix ==
    \A z \in Zones : zs[z].tracked /\ seen[z] # "skipped" =>
        /\ InForce(z, lastFix)
        /\ \/ seen[z] = "examined"
           \/ zs[z].confirmed # "Outside"
           \/ zs[z].hyst.phase # "Outside"

(* adaptive_sampler.hpp: the distance fed to the sampler under-estimates, so *)
(* "the sampler errs toward sampling more often, never less": a tourist in   *)
(* reach of a tier's distance from a zone in force is sampled at least as    *)
(* often as that tier asks.  Not so in the code: zones the query does not    *)
(* return are not counted.                                                   *)
SamplesOftenEnough ==
    [][\A f \in Fixes, t \in Times, alertActive \in BOOLEAN :
          EvaluateUsable(f, t, alertActive) =>
            \A z \in Zones : InForce(z, t) =>
               interval' <= TierInterval(Min({Far, Distance(f.sd[z])}))]_vars
=============================================================================
