----------------------------- MODULE Hysteresis -----------------------------
(***************************************************************************)
(* Boundary-flapping suppression: fence::HysteresisState, one machine per  *)
(* (tourist, zone) pair, and the three-valued containment verdict that     *)
(* feeds it (geo::classify).  Distances are whole metres, negative inside  *)
(* a zone; times are whole ticks.  The machine is a pure step function:    *)
(* Update returns the next machine and the containment it is willing to    *)
(* report.                                                                 *)
(*                                                                         *)
(* Left out: suppressed_ and inside_since_ms_, which only feed statistics. *)
(***************************************************************************)
EXTENDS Integers

CONSTANTS
    ConfirmSamples,   \* HysteresisConfig::confirm_samples
    MinDwell,         \* HysteresisConfig::min_dwell_ms, in ticks
    CountMod,         \* 2^width of agree_count_, a uint8_t: 256 in the build
    Enabled           \* HysteresisConfig::enabled; FALSE is the naive baseline

ASSUME HysteresisAssumption ==
    /\ CountMod \in Nat
    /\ ConfirmSamples \in 1 .. CountMod - 1
    /\ MinDwell \in Nat
    /\ Enabled \in BOOLEAN

Containment == {"Inside", "Outside", "Uncertain"}

Phase == {"Outside", "Ambiguous", "EnteringPending", "Inside", "ExitingPending"}

(* The verdict of one fix on one zone: definite only if the whole accuracy  *)
(* disc lies on one side of the boundary.                                   *)
Classify(sd, acc) ==
    CASE sd < -acc -> "Inside"
      [] sd > acc  -> "Outside"
      [] OTHER     -> "Uncertain"

HysteresisState ==
    [phase : Phase, from : {"Outside", "Ambiguous"},
     agree : 0 .. CountMod - 1, since : Int]

FreshHysteresis ==
    [phase |-> "Outside", from |-> "Outside", agree |-> 0, since |-> 0]

Result(h, c) == [hyst |-> h, confirmed |-> c]

(* What an unconfirmed entry keeps reporting. *)
BeforeEntry(from) == IF from = "Ambiguous" THEN "Uncertain" ELSE "Outside"

(* Move to a phase, with no run in progress. *)
Settle(h, phase) == [phase |-> phase, from |-> h.from, agree |-> 0, since |-> h.since]

Agree(h) == [h EXCEPT !.agree = (h.agree + 1) % CountMod]

UpdateNaive(h, raw) ==
    Result([h EXCEPT !.phase = IF raw = "Inside" THEN "Inside" ELSE "Outside"], raw)

(* Mutant of UpdateUncertain: an Uncertain verdict completes a pending exit. *)
UpdateUncertainEndsExit(h) ==
    IF h.phase = "Inside" THEN Result(Settle(h, "Inside"), "Inside")
    ELSE Result(Settle(h, "Ambiguous"), "Uncertain")

(* An Uncertain verdict interrupts every confirmation run: it cancels a     *)
(* pending exit, and turns a pending entry into one that started in the     *)
(* ambiguous band without restarting its dwell clock.                       *)
UpdateUncertain(h) ==
    CASE h.phase \in {"Inside", "ExitingPending"} ->
            Result(Settle(h, "Inside"), "Inside")
      [] h.phase = "EnteringPending" ->
            Result([Settle(h, h.phase) EXCEPT !.from = "Ambiguous"], "Uncertain")
      [] h.phase \in {"Outside", "Ambiguous"} ->
            Result(Settle(h, "Ambiguous"), "Uncertain")

(* Mutant of BeginEntry: the first agreeing fix is not counted. *)
BeginEntryUncounted(h, t) ==
    Result([phase |-> "EnteringPending", from |-> h.phase, agree |-> 0, since |-> t],
           BeforeEntry(h.phase))

BeginEntry(h, t) ==
    Result([phase |-> "EnteringPending", from |-> h.phase, agree |-> 1, since |-> t],
           BeforeEntry(h.phase))

ContinueEntry(h, t) ==
    IF /\ Agree(h).agree >= ConfirmSamples
       /\ t - h.since >= MinDwell
    THEN Result(Settle(h, "Inside"), "Inside")
    ELSE Result(Agree(h), BeforeEntry(h.from))

(* One more fix clearly outside, while `reported' is what is shown. *)
ContinueClearing(h, reported) ==
    IF Agree(h).agree >= ConfirmSamples
    THEN Result(Settle(h, "Outside"), "Outside")
    ELSE Result(Agree(h), reported)

UpdateCertain(h, deepIn, clearOut, t) ==
    CASE h.phase = "Outside" ->
            IF deepIn THEN BeginEntry(h, t) ELSE Result(h, "Outside")
      [] h.phase = "Ambiguous" ->
            IF deepIn THEN BeginEntry(h, t)
            ELSE IF clearOut THEN ContinueClearing(h, "Uncertain")
            ELSE Result(Settle(h, "Ambiguous"), "Uncertain")
      [] h.phase = "EnteringPending" ->
            IF deepIn THEN ContinueEntry(h, t)
            ELSE Result(Settle(h, h.from), BeforeEntry(h.from))
      [] h.phase = "Inside" ->
            IF clearOut
            THEN Result([Settle(h, "ExitingPending") EXCEPT !.agree = 1], "Inside")
            ELSE Result(h, "Inside")
      [] h.phase = "ExitingPending" ->
            IF clearOut THEN ContinueClearing(h, "Inside")
            ELSE Result(Settle(h, "Inside"), "Inside")

(* HysteresisState::update for a zone with the given margins. *)
Update(h, raw, sd, t, enterMargin, exitMargin) ==
    IF ~Enabled THEN UpdateNaive(h, raw)
    ELSE IF raw = "Uncertain" THEN UpdateUncertain(h)
    ELSE UpdateCertain(h, sd < -enterMargin, sd > exitMargin, t)
=============================================================================
