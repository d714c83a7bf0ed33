--------------------------- MODULE EvaluatorProofs ---------------------------
(***************************************************************************)
(* Theorems about Evaluator for every set of zones, fixes, margins,        *)
(* confirmation counts and integer widths.  The inductive invariant        *)
(* couples each hysteresis machine with the history of its observations:   *)
(* agree_count_ is at most the run it is counting, and the dwell clock is  *)
(* the start of the entry attempt.                                         *)
(***************************************************************************)
EXTENDS Evaluator, WellFoundedInduction, TLAPS

(* The machine m, the containment c confirmed last and the history k agree. *)
ConfirmedMatchesPhase(m, c) ==
    /\ c = "Inside" <=> m.phase \in {"Inside", "ExitingPending"}
    /\ c = "Uncertain" <=> \/ m.phase = "Ambiguous"
                           \/ m.phase = "EnteringPending" /\ m.from = "Ambiguous"

EntryRun(m, k) ==
    /\ m.phase = "EnteringPending" =>
          /\ m.agree <= k.deep
          /\ k.deep < CountMod => m.agree = k.deep
          /\ k.attempt = m.since /\ k.attempt # None
    /\ k.deep > 0 => m.phase \in {"EnteringPending", "Inside"}
    /\ m.phase \in {"Outside", "Ambiguous"} => k.attempt = None

ClearRun(m, k) ==
    /\ m.phase \in {"Ambiguous", "ExitingPending"} => m.agree <= k.clear
    /\ MarginsInWindow =>
          /\ m.phase = "Inside" => k.clear = 0
          /\ m.phase = "ExitingPending" /\ k.clear < CountMod =>
                m.agree = k.clear /\ (k.clear >= 2 => k.clear < ConfirmSamples)

Haze(c, k) == c = "Outside" => ~k.hazy

Coupled(m, c, k) ==
    ConfirmedMatchesPhase(m, c) /\ EntryRun(m, k) /\ ClearRun(m, k) /\ Haze(c, k)

-----------------------------------------------------------------------------
(* Longer saturates inside 0 .. CountMod. *)
LEMMA LongerBounds ==
    ASSUME NEW n \in 0 .. CountMod
    PROVE  /\ Longer(n) \in 1 .. CountMod
           /\ n < CountMod => Longer(n) = n + 1
           /\ n = CountMod => Longer(n) = CountMod
  BY HysteresisAssumption, SMT DEF Longer

(* agree_count_ + 1, wrapped. *)
LEMMA AgreeBounds ==
    ASSUME NEW h \in HysteresisState
    PROVE  /\ Agree(h).agree \in 0 .. CountMod - 1
           /\ Agree(h).agree <= h.agree + 1
           /\ h.agree + 1 < CountMod => Agree(h).agree = h.agree + 1
           /\ Agree(h).phase = h.phase /\ Agree(h).from = h.from /\ Agree(h).since = h.since
           /\ Agree(h) \in HysteresisState
  <1>1. h.agree \in 0 .. CountMod - 1 /\ CountMod \in Nat /\ CountMod > 0
    BY HysteresisAssumption, SMT DEF HysteresisState
  <1>2. Agree(h) = [h EXCEPT !.agree = (h.agree + 1) % CountMod]
    BY DEF Agree
  <1>3. (h.agree + 1) % CountMod \in 0 .. CountMod - 1
    BY <1>1, SMT
  <1>4. h.agree + 1 < CountMod => (h.agree + 1) % CountMod = h.agree + 1
    BY <1>1, SMT
  <1>5. (h.agree + 1) % CountMod <= h.agree + 1
    BY <1>1, <1>3, <1>4, SMT
  <1> QED
    BY <1>1, <1>2, <1>3, <1>4, <1>5, SMT DEF HysteresisState

(* Settle moves the machine to a phase and forgets the run. *)
LEMMA SettleFields ==
    ASSUME NEW h \in HysteresisState, NEW p \in Phase
    PROVE  /\ Settle(h, p) \in HysteresisState
           /\ Settle(h, p).phase = p /\ Settle(h, p).agree = 0
           /\ Settle(h, p).from = h.from /\ Settle(h, p).since = h.since
  <1>1. 0 \in 0 .. CountMod - 1
    BY HysteresisAssumption, SMT
  <1> QED BY <1>1, SMT DEF Settle, HysteresisState

LEMMA ResultFields ==
    ASSUME NEW h, NEW c
    PROVE  Result(h, c).hyst = h /\ Result(h, c).confirmed = c
  BY SMT DEF Result

(* The machine and its report keep to their types, whatever it is fed. *)
LEMMA UpdateType ==
    ASSUME NEW h \in HysteresisState, NEW raw \in Containment, NEW sd \in Int,
           NEW t \in Int, NEW em, NEW xm
    PROVE  /\ Update(h, raw, sd, t, em, xm).hyst \in HysteresisState
           /\ Update(h, raw, sd, t, em, xm).confirmed \in Containment
  <1>1. Agree(h) \in HysteresisState
    BY AgreeBounds
  <1>2. 0 \in 0 .. CountMod - 1 /\ 1 \in 0 .. CountMod - 1
    BY HysteresisAssumption, SMT
  <1>3. h.phase \in Phase /\ h.from \in {"Outside", "Ambiguous"}
    BY DEF HysteresisState
  <1>4. \A p \in Phase : Settle(h, p) \in HysteresisState
    BY SettleFields
  <1>5. \A g, c : Result(g, c).hyst = g /\ Result(g, c).confirmed = c
    BY ResultFields
  <1>6. BeforeEntry(h.phase) \in Containment /\ BeforeEntry(h.from) \in Containment
    BY DEF BeforeEntry, Containment
  <1>7. CASE ~Enabled
    BY <1>7, SMT DEF Update, UpdateNaive, Result, HysteresisState, Containment, Phase
  <1>8. CASE Enabled /\ raw = "Uncertain"
    <2>1. Update(h, raw, sd, t, em, xm) = UpdateUncertain(h)
      BY <1>8 DEF Update
    <2>2. [Settle(h, h.phase) EXCEPT !.from = "Ambiguous"] \in HysteresisState
      BY <1>3, <1>4, SMT DEF HysteresisState
    <2> QED BY <1>3, <1>4, <1>5, <2>1, <2>2, SMT DEF UpdateUncertain, Phase, Containment
  <1>9. CASE Enabled /\ raw # "Uncertain"
    <2> DEFINE d == sd < -em
               x == sd > xm
    <2>1. Update(h, raw, sd, t, em, xm) = UpdateCertain(h, d, x, t)
      BY <1>9 DEF Update
    <2>2. h.phase \in {"Outside", "Ambiguous"} =>
             [phase |-> "EnteringPending", from |-> h.phase, agree |-> 1, since |-> t] \in HysteresisState
      BY <1>2, SMT DEF HysteresisState, Phase
    <2>3. [Settle(h, "ExitingPending") EXCEPT !.agree = 1] \in HysteresisState
      BY <1>2, <1>4, SMT DEF HysteresisState, Phase
    <2> HIDE DEF d, x
    <2>4. CASE h.phase \in {"Outside", "Ambiguous"}
      BY <1>1, <1>4, <1>5, <1>6, <2>1, <2>2, <2>4, SMT
         DEF UpdateCertain, BeginEntry, ContinueClearing, Phase, Containment
    <2>5. CASE h.phase = "EnteringPending"
      BY <1>1, <1>3, <1>4, <1>5, <1>6, <2>1, <2>5, SMT
         DEF UpdateCertain, ContinueEntry, Phase, Containment
    <2>6. CASE h.phase \in {"Inside", "ExitingPending"}
      BY <1>1, <1>4, <1>5, <2>1, <2>3, <2>6, SMT
         DEF UpdateCertain, ContinueClearing, Phase, Containment
    <2> QED BY <1>3, <2>4, <2>5, <2>6 DEF Phase
  <1> QED BY <1>7, <1>8, <1>9
-----------------------------------------------------------------------------
(* What one observation does to the history. *)
LEMMA ObserveFields ==
    ASSUME NEW k \in HistoryType, NEW z \in Zones, NEW raw \in Containment, NEW sd \in Int,
           NEW t \in Times, NEW events
    PROVE  LET kk == Observe(k, z, raw, sd, t, events)
           IN  /\ kk \in HistoryType
               /\ kk.open <=> "ZoneEnter" \in events \/ (k.open /\ "ZoneExit" \notin events)
               /\ kk.deep = IF Enters(z, raw, sd) THEN Longer(k.deep) ELSE 0
               /\ kk.clear = IF Clears(z, raw, sd) THEN Longer(k.clear) ELSE 0
               /\ kk.attempt = IF Enters(z, raw, sd)
                               THEN (IF k.attempt = None THEN t ELSE k.attempt)
                               ELSE IF raw = "Uncertain" THEN k.attempt ELSE None
               /\ kk.hazy <=> "ZoneUncertain" \in events \/ (k.hazy /\ kk.clear < ConfirmSamples)
               /\ kk.dwelt <=> "DwellExceeded" \in events
                                 \/ (k.dwelt /\ "ZoneEnter" \notin events)
  <1> DEFINE kk == Observe(k, z, raw, sd, t, events)
             o == "ZoneEnter" \in events \/ (k.open /\ "ZoneExit" \notin events)
             d == IF Enters(z, raw, sd) THEN Longer(k.deep) ELSE 0
             c == IF Clears(z, raw, sd) THEN Longer(k.clear) ELSE 0
             a == IF Enters(z, raw, sd) THEN (IF k.attempt = None THEN t ELSE k.attempt)
                  ELSE IF raw = "Uncertain" THEN k.attempt ELSE None
             h == "ZoneUncertain" \in events \/ (k.hazy /\ c < ConfirmSamples)
             w == "DwellExceeded" \in events \/ (k.dwelt /\ "ZoneEnter" \notin events)
  <1>1. /\ k.deep \in 0 .. CountMod /\ k.clear \in 0 .. CountMod
        /\ k.attempt \in Times \cup {None}
    BY DEF HistoryType
  <1>2. Longer(k.deep) \in 0 .. CountMod /\ Longer(k.clear) \in 0 .. CountMod /\ 0 \in 0 .. CountMod
    BY <1>1, LongerBounds, HysteresisAssumption, SMT
  <1>3. kk = [open |-> o, deep |-> d, clear |-> c, attempt |-> a, hazy |-> h, dwelt |-> w]
    BY Zenon DEF Observe
  <1>4. o \in BOOLEAN /\ h \in BOOLEAN /\ w \in BOOLEAN
    BY Zenon
  <1>5. d \in 0 .. CountMod /\ c \in 0 .. CountMod /\ a \in Times \cup {None}
    BY <1>1, <1>2
  <1> HIDE DEF o, d, c, a, h, w, kk
  <1>6. kk \in HistoryType
    BY <1>3, <1>4, <1>5, SMT DEF HistoryType
  <1>7. /\ kk.open = o /\ kk.deep = d /\ kk.clear = c
        /\ kk.attempt = a /\ kk.hazy = h /\ kk.dwelt = w
    BY <1>3, SMT
  <1>8. kk.hazy <=> "ZoneUncertain" \in events \/ (k.hazy /\ kk.clear < ConfirmSamples)
    BY <1>7, Zenon DEF h
  <1>9. /\ kk.open <=> "ZoneEnter" \in events \/ (k.open /\ "ZoneExit" \notin events)
        /\ kk.dwelt <=> "DwellExceeded" \in events \/ (k.dwelt /\ "ZoneEnter" \notin events)
    BY <1>7, Zenon DEF o, w
  <1> QED BY <1>6, <1>7, <1>8, <1>9, Zenon DEF kk, d, c, a

(* One update keeps machine, report and history coupled, and every entry     *)
(* and exit it confirms has the run it needs.  `deep' and `clear' are what   *)
(* the machine is told; the history may see a fix as clear that the machine, *)
(* told only the distance of the bounding box, does not.                     *)
LEMMA UpdateCoupled ==
    ASSUME Enabled,
           NEW m \in HysteresisState, NEW c \in Containment, NEW k \in HistoryType,
           Coupled(m, c, k),
           NEW z \in Zones, NEW raw \in Containment, NEW sd \in Int, NEW t \in Times,
           NEW deep \in BOOLEAN, NEW clear \in BOOLEAN,
           raw # "Uncertain" => deep = Enters(z, raw, sd),
           clear /\ raw # "Uncertain" => Clears(z, raw, sd),
           MarginsInWindow /\ raw # "Uncertain" /\ Clears(z, raw, sd) => clear,
           ~(deep /\ clear),
           NEW u,
           u = IF raw = "Uncertain" THEN UpdateUncertain(m) ELSE UpdateCertain(m, deep, clear, t),
           NEW events,
           "ZoneUncertain" \in events => u.confirmed = "Uncertain"
    PROVE  LET kk == Observe(k, z, raw, sd, t, events)
           IN  /\ Coupled(u.hyst, u.confirmed, kk)
               /\ u.confirmed = "Inside" /\ c # "Inside" =>
                     /\ kk.deep >= ConfirmSamples
                     /\ kk.attempt # None /\ t - kk.attempt >= MinDwell
               /\ u.confirmed # "Inside" /\ c = "Inside" => kk.clear >= ConfirmSamples
               /\ u.confirmed = "Uncertain" /\ c # "Uncertain" => ~k.hazy
               /\ kk.deep >= ConfirmSamples /\ kk.deep >= 2 /\ kk.deep < CountMod
                     /\ t - kk.attempt >= MinDwell => u.confirmed = "Inside"
  <1> DEFINE kk == Observe(k, z, raw, sd, t, events)
  <1>k. /\ kk.deep = IF Enters(z, raw, sd) THEN Longer(k.deep) ELSE 0
        /\ kk.clear = IF Clears(z, raw, sd) THEN Longer(k.clear) ELSE 0
        /\ kk.attempt = IF Enters(z, raw, sd)
                        THEN (IF k.attempt = None THEN t ELSE k.attempt)
                        ELSE IF raw = "Uncertain" THEN k.attempt ELSE None
        /\ kk.hazy => "ZoneUncertain" \in events \/ (k.hazy /\ kk.clear < ConfirmSamples)
    BY ObserveFields
  <1>t. /\ m.phase \in Phase /\ m.from \in {"Outside", "Ambiguous"}
        /\ m.agree \in 0 .. CountMod - 1 /\ m.since \in Int
        /\ k.deep \in 0 .. CountMod /\ k.clear \in 0 .. CountMod
        /\ k.attempt \in Times \cup {None} /\ t \in Nat /\ None \notin Nat
        /\ Times \subseteq Nat
        /\ CountMod \in Nat /\ ConfirmSamples \in 1 .. CountMod - 1 /\ MinDwell \in Nat
    BY HysteresisAssumption, EvaluatorAssumption, SMT DEF HysteresisState, HistoryType, None
  <1>l. /\ Longer(k.deep) \in 1 .. CountMod /\ (k.deep < CountMod => Longer(k.deep) = k.deep + 1)
        /\ (k.deep = CountMod => Longer(k.deep) = CountMod)
        /\ Longer(k.clear) \in 1 .. CountMod /\ (k.clear < CountMod => Longer(k.clear) = k.clear + 1)
        /\ (k.clear = CountMod => Longer(k.clear) = CountMod)
    BY <1>t, LongerBounds
  <1>a. /\ Agree(m).agree \in 0 .. CountMod - 1 /\ Agree(m).agree <= m.agree + 1
        /\ m.agree + 1 < CountMod => Agree(m).agree = m.agree + 1
        /\ Agree(m).phase = m.phase /\ Agree(m).from = m.from /\ Agree(m).since = m.since
    BY AgreeBounds
  <1>s. \A p \in Phase : /\ Settle(m, p).phase = p /\ Settle(m, p).agree = 0
                         /\ Settle(m, p).from = m.from /\ Settle(m, p).since = m.since
    BY SettleFields
  <1>r. \A g, d : Result(g, d).hyst = g /\ Result(g, d).confirmed = d
    BY ResultFields
  <1>c. /\ ConfirmedMatchesPhase(m, c) /\ EntryRun(m, k) /\ ClearRun(m, k) /\ Haze(c, k)
    BY DEF Coupled
  <1>o. c \in {"Inside", "Uncertain", "Outside"}
    BY DEF Containment
  <1>y. kk.deep \in 0 .. CountMod /\ kk.clear \in 0 .. CountMod /\ kk.attempt \in Times \cup {None}
    BY ObserveFields DEF HistoryType
  <1> HIDE DEF kk
  <1> SUFFICES /\ Coupled(u.hyst, u.confirmed, kk)
               /\ u.confirmed = "Inside" /\ c # "Inside" =>
                     /\ kk.deep >= ConfirmSamples
                     /\ kk.attempt # None /\ t - kk.attempt >= MinDwell
               /\ u.confirmed # "Inside" /\ c = "Inside" => kk.clear >= ConfirmSamples
               /\ u.confirmed = "Uncertain" /\ c # "Uncertain" => ~k.hazy
               /\ kk.deep >= ConfirmSamples /\ kk.deep >= 2 /\ kk.deep < CountMod
                     /\ t - kk.attempt >= MinDwell => u.confirmed = "Inside"
    BY DEF kk
  <1>1. CASE raw = "Uncertain"
    <2>1. u = UpdateUncertain(m) /\ ~Enters(z, raw, sd) /\ ~Clears(z, raw, sd)
      BY <1>1 DEF Enters, Clears
    <2>2. kk.deep = 0 /\ kk.clear = 0 /\ kk.attempt = k.attempt
      BY <1>1, <1>k, <2>1
    <2>3. CASE m.phase \in {"Inside", "ExitingPending"}
      <3>1. u = Result(Settle(m, "Inside"), "Inside")
        BY <2>1, <2>3 DEF UpdateUncertain
      <3> QED BY <1>r, <1>s, <1>t, <1>c, <1>o, <2>2, <2>3, <3>1, SMT
              DEF Coupled, ConfirmedMatchesPhase, EntryRun, ClearRun, Haze, Phase
    <2>4. CASE m.phase = "EnteringPending"
      <3>1. u = Result([Settle(m, m.phase) EXCEPT !.from = "Ambiguous"], "Uncertain")
        BY <2>1, <2>4 DEF UpdateUncertain
      <3>2. /\ u.hyst.phase = "EnteringPending" /\ u.hyst.from = "Ambiguous"
            /\ u.hyst.agree = 0 /\ u.hyst.since = m.since /\ u.confirmed = "Uncertain"
        BY <2>4, <3>1, SMT DEF Settle, Result
      <3> QED BY <1>t, <1>c, <1>o, <2>2, <2>4, <3>2, SMT
              DEF Coupled, ConfirmedMatchesPhase, EntryRun, ClearRun, Haze, Phase
    <2>5. CASE m.phase \in {"Outside", "Ambiguous"}
      <3>1. u = Result(Settle(m, "Ambiguous"), "Uncertain")
        BY <2>1, <2>5 DEF UpdateUncertain
      <3> QED BY <1>r, <1>s, <1>t, <1>c, <1>o, <2>2, <2>5, <3>1, SMT
              DEF Coupled, ConfirmedMatchesPhase, EntryRun, ClearRun, Haze, Phase
    <2> QED BY <1>t, <2>3, <2>4, <2>5 DEF Phase
  <1>2. CASE raw # "Uncertain" /\ deep
    <2>1. u = UpdateCertain(m, TRUE, clear, t) /\ Enters(z, raw, sd)
      BY <1>2
    <2>2. kk.deep = Longer(k.deep) /\ kk.attempt = IF k.attempt = None THEN t ELSE k.attempt
      BY <1>k, <2>1
    <2>3. ~kk.hazy \/ k.hazy \/ "ZoneUncertain" \in events
      BY <1>k
    <2>c. MarginsInWindow => kk.clear = 0
      BY <1>2, <1>k
    <2>4. m.phase \in {"Outside", "Ambiguous"} => k.deep = 0 /\ k.attempt = None
      BY <1>c, <1>t, SMT DEF EntryRun
    <2>5. CASE m.phase \in {"Outside", "Ambiguous"}
      <3>1. u = Result([phase |-> "EnteringPending", from |-> m.phase, agree |-> 1, since |-> t],
                       BeforeEntry(m.phase))
        BY <2>1, <2>5 DEF UpdateCertain, BeginEntry
      <3>2. kk.deep = 1 /\ kk.attempt = t
        BY <1>l, <1>t, <2>2, <2>4, <2>5, SMT
      <3>3. u.confirmed = c /\ (c = "Outside" => "ZoneUncertain" \notin events)
        BY <1>c, <1>o, <1>r, <2>5, <3>1 DEF ConfirmedMatchesPhase, BeforeEntry
      <3> QED BY <1>r, <1>t, <1>c, <1>o, <2>3, <2>5, <3>1, <3>2, <3>3, SMT
              DEF Coupled, ConfirmedMatchesPhase, EntryRun, ClearRun, Haze
    <2>6. CASE m.phase = "EnteringPending"
      <3>1. u = ContinueEntry(m, t)
        BY <2>1, <2>6 DEF UpdateCertain
      <3>2. /\ kk.deep >= Agree(m).agree /\ kk.attempt = m.since /\ kk.attempt # None
            /\ kk.deep < CountMod => Agree(m).agree = kk.deep
        BY <1>a, <1>c, <1>l, <1>t, <2>2, <2>6, SMT DEF EntryRun
      <3>3. CASE Agree(m).agree >= ConfirmSamples /\ t - m.since >= MinDwell
        <4>1. u = Result(Settle(m, "Inside"), "Inside")
          BY <3>1, <3>3 DEF ContinueEntry
        <4> QED BY <1>r, <1>s, <1>a, <1>t, <1>y, <2>c, <3>2, <3>3, <4>1, SMT
                DEF Coupled, ConfirmedMatchesPhase, EntryRun, ClearRun, Haze, Phase
      <3>4. CASE ~(Agree(m).agree >= ConfirmSamples /\ t - m.since >= MinDwell)
        <4>1. u = Result(Agree(m), BeforeEntry(m.from))
          BY <3>1, <3>4 DEF ContinueEntry
        <4>2. u.confirmed = c /\ (c = "Outside" => "ZoneUncertain" \notin events) /\ c # "Inside"
          BY <1>c, <1>o, <1>r, <1>t, <2>6, <4>1 DEF ConfirmedMatchesPhase, BeforeEntry
        <4>3. /\ u.hyst.phase = "EnteringPending" /\ u.hyst.from = m.from
              /\ u.hyst.since = m.since /\ u.hyst.agree = Agree(m).agree
          BY <1>a, <1>r, <2>6, <4>1
        <4> QED BY <1>a, <1>t, <1>c, <2>3, <2>6, <3>2, <3>4, <4>2, <4>3, SMT
                DEF Coupled, ConfirmedMatchesPhase, EntryRun, ClearRun, Haze
      <3> QED BY <3>3, <3>4
    <2>7. CASE m.phase \in {"Inside", "ExitingPending"}
      <3>1. c = "Inside"
        BY <1>c, <2>7 DEF ConfirmedMatchesPhase
      <3>2. CASE ~clear
        <4>1. /\ u.hyst.phase = "Inside" /\ u.confirmed = "Inside"
          BY <1>r, <1>s, <2>1, <2>7, <3>2 DEF UpdateCertain, Phase
        <4> QED BY <2>c, <3>1, <4>1, SMT
                DEF Coupled, ConfirmedMatchesPhase, EntryRun, ClearRun, Haze
      <3>3. ~clear
        BY <1>2
      <3> QED BY <3>2, <3>3
    <2> QED BY <1>t, <2>5, <2>6, <2>7 DEF Phase
  <1>3. CASE raw # "Uncertain" /\ ~deep
    <2>1. u = UpdateCertain(m, FALSE, clear, t) /\ ~Enters(z, raw, sd)
      BY <1>3
    <2>2. /\ kk.deep = 0 /\ kk.attempt = None
          /\ clear => kk.clear = Longer(k.clear)
          /\ kk.clear >= 0
      BY <1>3, <1>k, <1>y, <2>1, SMT
    <2>3. ~kk.hazy \/ (k.hazy /\ kk.clear < ConfirmSamples) \/ "ZoneUncertain" \in events
      BY <1>k
    <2>c. MarginsInWindow /\ ~clear => kk.clear = 0
      BY <1>3, <1>k
    <2>4. CASE m.phase = "Outside"
      <3>1. u = Result(m, "Outside")
        BY <2>1, <2>4 DEF UpdateCertain
      <3> QED BY <1>c, <1>o, <1>r, <1>t, <2>2, <2>3, <2>4, <3>1, SMT
              DEF Coupled, ConfirmedMatchesPhase, EntryRun, ClearRun, Haze
    <2>5. CASE m.phase \in {"Ambiguous", "ExitingPending"} /\ clear
      <3>1. u = ContinueClearing(m, c) /\ c # "Outside"
        BY <1>c, <1>o, <2>1, <2>5 DEF UpdateCertain, ConfirmedMatchesPhase
      <3>2. kk.clear >= Agree(m).agree
        BY <1>a, <1>c, <1>l, <1>t, <2>2, <2>5, SMT DEF ClearRun
      <3>3. CASE Agree(m).agree >= ConfirmSamples
        <4>1. u = Result(Settle(m, "Outside"), "Outside")
          BY <3>1, <3>3 DEF ContinueClearing
        <4>2. kk.clear >= ConfirmSamples
          BY <1>a, <1>t, <1>y, <3>2, <3>3, SMT
        <4>3. u.confirmed = "Outside" /\ ~kk.hazy
          BY <1>r, <1>t, <1>y, <2>3, <4>1, <4>2, SMT
        <4>4. u.hyst.phase = "Outside"
          BY <1>r, <1>s, <4>1 DEF Phase
        <4> QED BY <2>2, <4>2, <4>3, <4>4, SMT
                DEF Coupled, ConfirmedMatchesPhase, EntryRun, ClearRun, Haze
      <3>4. CASE ~(Agree(m).agree >= ConfirmSamples)
        <4>1. u = Result(Agree(m), c)
          BY <3>1, <3>4 DEF ContinueClearing
        <4>2. u.confirmed = c /\ u.hyst.phase = m.phase /\ u.hyst.from = m.from
              /\ u.hyst.agree = Agree(m).agree
          BY <1>a, <1>r, <4>1
        <4>3. ConfirmedMatchesPhase(u.hyst, u.confirmed)
          BY <1>c, <4>2 DEF ConfirmedMatchesPhase
        <4>4. EntryRun(u.hyst, kk)
          <5>1. u.hyst.phase # "EnteringPending"
            BY <2>5, <4>2
          <5>2. ~(kk.deep > 0) /\ kk.attempt = None
            BY <2>2, SMT
          <5> QED BY <5>1, <5>2, Zenon DEF EntryRun
        <4>5. MarginsInWindow /\ m.phase = "ExitingPending" /\ kk.clear < CountMod =>
                 Agree(m).agree = kk.clear
          BY <1>a, <1>c, <1>l, <1>t, <2>2, <2>5, SMT DEF ClearRun
        <4>6. ClearRun(u.hyst, kk) /\ Haze(u.confirmed, kk)
          <5>1. Haze(u.confirmed, kk)
            BY <3>1, <4>2 DEF Haze
          <5>2. MarginsInWindow /\ m.phase = "ExitingPending" /\ kk.clear < CountMod =>
                   kk.clear < ConfirmSamples
            BY <1>a, <1>t, <1>y, <3>4, <4>5, SMT
          <5>3. m.phase # "Inside"
            BY <2>5
          <5> QED BY <1>a, <1>t, <1>y, <3>2, <3>4, <4>2, <4>5, <5>1, <5>2, <5>3, SMT
                  DEF ClearRun
        <4> QED BY <2>2, <4>2, <4>3, <4>4, <4>6, SMT DEF Coupled
      <3> QED BY <3>3, <3>4
    <2>6. CASE m.phase = "Ambiguous" /\ ~clear
      <3>1. u = Result(Settle(m, "Ambiguous"), "Uncertain") /\ c = "Uncertain"
        BY <1>c, <2>1, <2>6 DEF UpdateCertain, ConfirmedMatchesPhase
      <3> QED BY <1>r, <1>s, <2>2, <3>1, SMT
              DEF Coupled, ConfirmedMatchesPhase, EntryRun, ClearRun, Haze, Phase
    <2>7. CASE m.phase = "EnteringPending"
      <3>1. u = Result(Settle(m, m.from), BeforeEntry(m.from))
        BY <2>1, <2>7 DEF UpdateCertain
      <3>2. u.confirmed = c /\ u.hyst.phase = m.from /\ u.hyst.agree = 0
        BY <1>c, <1>o, <1>r, <1>s, <1>t, <2>7, <3>1
           DEF ConfirmedMatchesPhase, BeforeEntry, Phase
      <3>3. c = "Outside" => ~kk.hazy
        BY <1>c, <2>3, <3>2 DEF Haze
      <3> QED BY <1>c, <1>o, <1>t, <2>2, <2>7, <3>2, <3>3, SMT
              DEF Coupled, ConfirmedMatchesPhase, EntryRun, ClearRun, Haze
    <2>8. CASE m.phase = "Inside" \/ (m.phase = "ExitingPending" /\ ~clear)
      <3>1. c = "Inside"
        BY <1>c, <2>8 DEF ConfirmedMatchesPhase
      <3>2. CASE m.phase = "Inside" /\ clear
        <4>1. u = Result([Settle(m, "ExitingPending") EXCEPT !.agree = 1], "Inside")
          BY <2>1, <3>2 DEF UpdateCertain
        <4>2. u.hyst.phase = "ExitingPending" /\ u.hyst.agree = 1 /\ u.confirmed = "Inside"
          BY <4>1, SMT DEF Settle, Result
        <4>3. kk.clear >= 1 /\ (MarginsInWindow => kk.clear = 1)
          BY <1>c, <1>l, <1>t, <2>2, <3>2, SMT DEF ClearRun
        <4> QED BY <2>2, <3>1, <4>2, <4>3, SMT
                DEF Coupled, ConfirmedMatchesPhase, EntryRun, ClearRun, Haze
      <3>3. CASE ~(m.phase = "Inside" /\ clear)
        <4>1. u.hyst.phase = "Inside" /\ u.confirmed = "Inside"
          BY <1>r, <1>s, <2>1, <2>8, <3>3 DEF UpdateCertain, Phase
        <4>2. MarginsInWindow => kk.clear = 0
          BY <2>8, <2>c, <3>3
        <4> QED BY <2>2, <3>1, <4>1, <4>2, SMT
                DEF Coupled, ConfirmedMatchesPhase, EntryRun, ClearRun, Haze
      <3> QED BY <3>2, <3>3
    <2> QED BY <1>t, <2>4, <2>5, <2>6, <2>7, <2>8 DEF Phase
  <1> QED BY <1>1, <1>2, <1>3

-----------------------------------------------------------------------------
(* The inductive invariant, zone by zone.                                    *)

StateInv(s, k) ==
    /\ k.open <=> s.confirmed = "Inside"
    /\ ~s.tracked => s = NoState
    /\ s.confirmed = "Inside" => (k.dwelt <=> s.dwellReported)
    /\ Enabled => Coupled(s.hyst, s.confirmed, k)

ZoneInv(z) == StateInv(zs[z], hist[z])

(* The properties of the last step's events, zone by zone. *)
StepInv(z) ==
    Enabled =>
      /\ "ZoneEnter" \in out[z] =>
            /\ hist[z].deep >= ConfirmSamples
            /\ hist[z].attempt # None /\ lastFix - hist[z].attempt >= MinDwell
      /\ "ZoneExit" \in out[z] /\ InForce(z, lastFix) => hist[z].clear >= ConfirmSamples
      /\ /\ seen[z] = "examined"
         /\ hist[z].deep >= ConfirmSamples /\ hist[z].deep >= 2 /\ hist[z].deep < CountMod
         /\ lastFix - hist[z].attempt >= MinDwell
         => zs[z].confirmed = "Inside"

SettledInv(z) ==
    zs[z].tracked /\ seen[z] # "skipped" =>
      /\ InForce(z, lastFix)
      /\ \/ seen[z] = "examined"
         \/ zs[z].confirmed # "Outside"
         \/ zs[z].hyst.phase # "Outside"

IInv == TypeOK /\ \A z \in Zones : ZoneInv(z) /\ StepInv(z) /\ SettledInv(z)
-----------------------------------------------------------------------------
(* The zone's margins are not negative, so a fix cannot be deep and clear.   *)
LEMMA MarginsDisjoint ==
    ASSUME NEW z \in Zones, NEW raw, NEW sd \in Int
    PROVE  /\ ~(Enters(z, raw, sd) /\ Clears(z, raw, sd))
           /\ Enters(z, raw, sd) => sd <= 0
           /\ (IF ZoneEnterMargin[z] > 0 THEN ZoneEnterMargin[z] ELSE EnterMargin) \in Nat
           /\ (IF ZoneExitMargin[z] > 0 THEN ZoneExitMargin[z] ELSE ExitMargin) \in Nat
  <1> DEFINE em == IF ZoneEnterMargin[z] > 0 THEN ZoneEnterMargin[z] ELSE EnterMargin
             xm == IF ZoneExitMargin[z] > 0 THEN ZoneExitMargin[z] ELSE ExitMargin
  <1>1. em \in Nat /\ xm \in Nat
    BY EvaluatorAssumption
  <1>2. (Enters(z, raw, sd) => sd < -em) /\ (Clears(z, raw, sd) => sd > xm)
    BY DEF Enters, Clears
  <1>3. em \in Nat /\ xm \in Nat /\ ~(sd < -em /\ sd > xm) /\ (sd < -em => sd <= 0)
    <2> HIDE DEF em, xm
    <2> QED BY <1>1, SMT
  <1> HIDE DEF em, xm
  <1>4. ~(Enters(z, raw, sd) /\ Clears(z, raw, sd)) /\ (Enters(z, raw, sd) => sd <= 0)
    BY <1>2, <1>3
  <1> QED BY <1>1, <1>4 DEF em, xm

(* The events of a change of the confirmed containment. *)
LEMMA TransitionEventsFacts ==
    ASSUME NEW c \in Containment, NEW d \in Containment
    PROVE  LET ev == TransitionEvents(c, d)
           IN  /\ ev \subseteq {"ZoneEnter", "ZoneExit", "ZoneUncertain"}
               /\ "ZoneEnter" \in ev <=> c # "Inside" /\ d = "Inside"
               /\ "ZoneExit" \in ev <=> c = "Inside" /\ d # "Inside"
               /\ "ZoneUncertain" \in ev <=> c = "Outside" /\ d = "Uncertain"
  BY DEF TransitionEvents, Containment

(* What a look leaves behind: u from the machine, the events, the history.   *)
Looked(s, k, t, u, events, kk) ==
    /\ u.hyst \in HysteresisState /\ u.confirmed \in Containment
    /\ kk \in HistoryType
    /\ kk.open <=> u.confirmed = "Inside"
    /\ Enabled => Coupled(u.hyst, u.confirmed, kk)
    /\ events \subseteq EventKind
    /\ "ZoneEnter" \in events <=> s.confirmed # "Inside" /\ u.confirmed = "Inside"
    /\ "ZoneExit" \in events <=> s.confirmed = "Inside" /\ u.confirmed # "Inside"
    /\ Enabled /\ "ZoneUncertain" \in events => ~k.hazy
    /\ Enabled /\ "ZoneEnter" \in events =>
          /\ kk.deep >= ConfirmSamples
          /\ kk.attempt # None /\ t - kk.attempt >= MinDwell
    /\ Enabled /\ "ZoneExit" \in events => kk.clear >= ConfirmSamples
    /\ Enabled /\ kk.deep >= ConfirmSamples /\ kk.deep >= 2 /\ kk.deep < CountMod
          /\ t - kk.attempt >= MinDwell => u.confirmed = "Inside"

(* Looking at one zone once: the machine moves, the change of containment    *)
(* and perhaps a dwell or approach event is emitted, the history observes.   *)
(* The machine may be told a distance m smaller than the true one.           *)
LEMMA LookPreserves ==
    ASSUME NEW s \in ZoneStateType, NEW k \in HistoryType, StateInv(s, k),
           NEW z \in Zones, NEW raw \in Containment, NEW m \in Int, NEW sd \in Int,
           NEW t \in Times,
           raw # "Uncertain" => Enters(z, raw, m) = Enters(z, raw, sd),
           Clears(z, raw, m) => Clears(z, raw, sd),
           MarginsInWindow /\ Clears(z, raw, sd) => Clears(z, raw, m),
           NEW extra \in SUBSET {"DwellExceeded", "ZoneApproaching"},
           NEW u, u = UpdateZoneState(s, z, raw, m, t),
           NEW events, events = TransitionEvents(s.confirmed, u.confirmed) \cup extra,
           NEW kk, kk = Observe(k, z, raw, sd, t, events)
    PROVE  Looked(s, k, t, u, events, kk)
  <1> DEFINE em == IF ZoneEnterMargin[z] > 0 THEN ZoneEnterMargin[z] ELSE EnterMargin
             xm == IF ZoneExitMargin[z] > 0 THEN ZoneExitMargin[z] ELSE ExitMargin
  <1>1. u = Update(s.hyst, raw, m, t, em, xm)
    BY DEF UpdateZoneState
  <1>2. s.hyst \in HysteresisState /\ s.confirmed \in Containment /\ t \in Int
    BY EvaluatorAssumption, SMT DEF ZoneStateType
  <1>3. u.hyst \in HysteresisState /\ u.confirmed \in Containment
    BY <1>1, <1>2, UpdateType
  <1>4. /\ TransitionEvents(s.confirmed, u.confirmed)
              \subseteq {"ZoneEnter", "ZoneExit", "ZoneUncertain"}
        /\ "ZoneEnter" \in events <=> s.confirmed # "Inside" /\ u.confirmed = "Inside"
        /\ "ZoneExit" \in events <=> s.confirmed = "Inside" /\ u.confirmed # "Inside"
        /\ "ZoneUncertain" \in events <=> s.confirmed = "Outside" /\ u.confirmed = "Uncertain"
    BY <1>2, <1>3, TransitionEventsFacts
  <1>5. events \subseteq EventKind
    BY <1>4 DEF EventKind
  <1>6. kk \in HistoryType /\ (kk.open <=> "ZoneEnter" \in events \/ (k.open /\ "ZoneExit" \notin events))
    BY ObserveFields
  <1>7. kk.open <=> u.confirmed = "Inside"
    BY <1>4, <1>6 DEF StateInv
  <1>8. ASSUME Enabled
        PROVE  /\ Coupled(u.hyst, u.confirmed, kk)
               /\ "ZoneUncertain" \in events => ~k.hazy
               /\ "ZoneEnter" \in events =>
                     /\ kk.deep >= ConfirmSamples
                     /\ kk.attempt # None /\ t - kk.attempt >= MinDwell
               /\ "ZoneExit" \in events => kk.clear >= ConfirmSamples
               /\ kk.deep >= ConfirmSamples /\ kk.deep >= 2 /\ kk.deep < CountMod
                     /\ t - kk.attempt >= MinDwell => u.confirmed = "Inside"
    <2> DEFINE deep == m < -em /\ raw # "Uncertain"
               clear == m > xm /\ raw # "Uncertain"
    <2>1. deep = Enters(z, raw, m) /\ clear = Clears(z, raw, m)
      BY DEF Enters, Clears
    <2>2. u = IF raw = "Uncertain" THEN UpdateUncertain(s.hyst)
              ELSE UpdateCertain(s.hyst, deep, clear, t)
      BY <1>1, <1>8 DEF Update
    <2>3. deep \in BOOLEAN /\ clear \in BOOLEAN /\ ~(deep /\ clear)
      BY <2>1, MarginsDisjoint
    <2>4. Coupled(s.hyst, s.confirmed, k)
      BY <1>8 DEF StateInv
    <2>5. "ZoneUncertain" \in events => u.confirmed = "Uncertain"
      BY <1>4
    <2> HIDE DEF deep, clear, em, xm
    <2>6. /\ raw # "Uncertain" => deep = Enters(z, raw, sd)
          /\ clear /\ raw # "Uncertain" => Clears(z, raw, sd)
          /\ MarginsInWindow /\ raw # "Uncertain" /\ Clears(z, raw, sd) => clear
      BY <2>1
    <2>7. /\ Coupled(u.hyst, u.confirmed, kk)
          /\ u.confirmed = "Inside" /\ s.confirmed # "Inside" =>
                /\ kk.deep >= ConfirmSamples
                /\ kk.attempt # None /\ t - kk.attempt >= MinDwell
          /\ u.confirmed # "Inside" /\ s.confirmed = "Inside" => kk.clear >= ConfirmSamples
          /\ u.confirmed = "Uncertain" /\ s.confirmed # "Uncertain" => ~k.hazy
          /\ kk.deep >= ConfirmSamples /\ kk.deep >= 2 /\ kk.deep < CountMod
                /\ t - kk.attempt >= MinDwell => u.confirmed = "Inside"
      BY <1>2, <1>8, <2>2, <2>3, <2>4, <2>5, <2>6, UpdateCoupled
    <2> QED BY <1>4, <2>7
  <1> QED BY <1>3, <1>4, <1>5, <1>6, <1>7, <1>8 DEF Looked
-----------------------------------------------------------------------------
(* What the index does not return is certainly outside: the query box covers *)
(* the whole accuracy disc.                                                  *)
LEMMA NotNearIsOutside ==
    ASSUME NEW f \in Fixes, NEW z \in Zones, Usable(f), ~f.near[z]
    PROVE  /\ Classify(f.sd[z], f.acc) = "Outside" /\ f.box[z] > 0 /\ f.box[z] <= f.sd[z]
           /\ f.box[z] > MinQueryRadius \/ f.box[z] > MaxQueryRadius
  <1>1. /\ f.acc \in Nat /\ f.speed \in Nat /\ f.sd[z] \in Int /\ f.box[z] \in Nat
        /\ f.box[z] <= IF f.sd[z] > 0 THEN f.sd[z] ELSE 0
        /\ f.box[z] > Radius(f)
    BY EvaluatorAssumption DEF FixAssumption, FixType
  <1>2. /\ 0 < f.acc /\ f.acc < UnusableAccuracy
        /\ UnusableAccuracy \in Nat /\ UnusableAccuracy <= MaxQueryRadius
        /\ MinQueryRadius \in Nat /\ MaxQueryRadius \in Nat /\ Horizon \in Nat
    BY EvaluatorAssumption DEF Usable
  <1>3. f.speed * Horizon \in Nat
    BY <1>1, <1>2, SMT
  <1>4. /\ Radius(f) \in Nat /\ Radius(f) >= f.acc
        /\ Radius(f) >= MinQueryRadius \/ Radius(f) >= MaxQueryRadius
    <2> DEFINE reach == f.speed * Horizon
    <2>1. Radius(f) = IF f.acc + reach < MinQueryRadius THEN MinQueryRadius
                      ELSE IF f.acc + reach > MaxQueryRadius THEN MaxQueryRadius
                      ELSE f.acc + reach
      BY DEF Radius
    <2>2. reach \in Nat
      BY <1>3
    <2> HIDE DEF reach
    <2> QED BY <1>1, <1>2, <2>1, <2>2, SMT
  <1>5. /\ f.sd[z] > f.acc /\ f.box[z] > 0 /\ f.box[z] <= f.sd[z] /\ ~(f.sd[z] < -f.acc)
        /\ f.box[z] > MinQueryRadius \/ f.box[z] > MaxQueryRadius
    BY <1>1, <1>2, <1>4, SMT
  <1> QED BY <1>5 DEF Classify

LEMMA FreshState ==
    /\ NoState \in ZoneStateType /\ NoHistory \in HistoryType
    /\ NoState.hyst.phase = "Outside" /\ NoState.hyst.from = "Outside"
    /\ NoState.confirmed = "Outside" /\ NoState.tracked = FALSE
    /\ NoHistory.open = FALSE /\ NoHistory.deep = 0 /\ NoHistory.attempt = None
    /\ NoHistory.hazy = FALSE
  BY HysteresisAssumption, SMT DEF NoState, NoHistory, ZoneStateType, HistoryType,
     HysteresisState, FreshHysteresis, Phase, Containment, None

LEMMA ClosedHistory == [NoHistory EXCEPT !.open = FALSE] = NoHistory
  <1>1. NoHistory \in HistoryType /\ NoHistory.open = FALSE
    BY FreshState
  <1> QED BY <1>1, SMT DEF HistoryType

(* Any history without an open stay, a deep run or haze fits the empty state. *)
LEMMA FreshStateInv ==
    ASSUME NEW k \in HistoryType, ~k.open, k.deep = 0, k.attempt = None, ~k.hazy
    PROVE  StateInv(NoState, k)
  <1>1. EntryRun(NoState.hyst, k)
    BY FreshState, SMT DEF EntryRun
  <1> QED BY <1>1, FreshState, Zenon
          DEF StateInv, Coupled, ConfirmedMatchesPhase, ClearRun, Haze

(* How a zone is looked at decides what is known about it. *)
LEMMA SightFacts ==
    ASSUME NEW f \in Fixes, NEW t \in Times, NEW z \in Zones
    PROVE  /\ SightOf(z, f, t) \in Sight
           /\ SightOf(z, f, t) = "examined" => InForce(z, t) /\ z \notin Dropped(f)
           /\ SightOf(z, f, t) = "closed" => ~InForce(z, t) /\ z \notin Dropped(f)
           /\ SightOf(z, f, t) = "unreturned" =>
                 InForce(z, t) /\ z \notin Dropped(f) /\ ~f.near[z]
           /\ SightOf(z, f, t) = "skipped" /\ z \notin Dropped(f) =>
                 ~zs[z].tracked /\ (InForce(z, t) => ~f.near[z])
  BY DEF SightOf, Sight, Examined, Candidates, InForce

(* What one evaluation must preserve for one zone. *)
Preserved(e, kk, z, f, t) ==
    /\ e.state \in ZoneStateType /\ e.events \subseteq EventKind /\ kk \in HistoryType
    /\ StateInv(e.state, kk)
    /\ "ZoneEnter" \in e.events => ~hist[z].open /\ "ZoneExit" \notin e.events
    /\ "ZoneExit" \in e.events => hist[z].open
    /\ Enabled /\ "ZoneUncertain" \in e.events => ~hist[z].hazy
    /\ "DwellExceeded" \in e.events =>
          kk.open /\ (~hist[z].dwelt \/ "ZoneEnter" \in e.events)
    /\ SightOf(z, f, t) = "examined" /\ kk.open
          /\ zone[z].dwell > 0 /\ t - e.state.entered > zone[z].dwell => kk.dwelt
    /\ Enabled /\ "ZoneEnter" \in e.events =>
          /\ kk.deep >= ConfirmSamples
          /\ kk.attempt # None /\ t - kk.attempt >= MinDwell
    /\ Enabled /\ "ZoneExit" \in e.events /\ InForce(z, t) => kk.clear >= ConfirmSamples
    /\ Enabled /\ SightOf(z, f, t) = "examined"
          /\ kk.deep >= ConfirmSamples /\ kk.deep >= 2 /\ kk.deep < CountMod
          /\ t - kk.attempt >= MinDwell => e.state.confirmed = "Inside"
    /\ e.state.tracked /\ SightOf(z, f, t) # "skipped" =>
          /\ InForce(z, t)
          /\ \/ SightOf(z, f, t) = "examined"
             \/ e.state.confirmed # "Outside"
             \/ e.state.hyst.phase # "Outside"

(* What emit_transition makes of the machine's new state u.                  *)
Transitioned(tr, s, u) ==
    /\ tr.state \in ZoneStateType
    /\ tr.state.tracked = TRUE
    /\ tr.state.hyst = u.hyst /\ tr.state.confirmed = u.confirmed
    /\ tr.state.dwellReported <=>
          ~(u.confirmed # s.confirmed /\ u.confirmed = "Inside") /\ s.dwellReported
    /\ tr.events = TransitionEvents(s.confirmed, u.confirmed)

(* Only an Enter re-arms the dwell report. *)
LEMMA TransitionFields ==
    ASSUME NEW s \in ZoneStateType, NEW t \in Int,
           NEW u, u.hyst \in HysteresisState, u.confirmed \in Containment
    PROVE  Transitioned(Transition(s, u, t), s, u)
  <1> DEFINE dw == ~(u.confirmed # s.confirmed /\ u.confirmed = "Inside") /\ s.dwellReported
             ap == ~(u.confirmed # s.confirmed) /\ s.approachReported
             en == IF u.confirmed # s.confirmed /\ u.confirmed = "Inside" THEN t ELSE s.entered
             r == [tracked |-> TRUE, hyst |-> u.hyst, confirmed |-> u.confirmed,
                   entered |-> en, dwellReported |-> dw, approachReported |-> ap]
  <1>1. Transition(s, u, t) = Step(r, TransitionEvents(s.confirmed, u.confirmed))
    BY Zenon DEF Transition
  <1>2. Transition(s, u, t).state = r
        /\ Transition(s, u, t).events = TransitionEvents(s.confirmed, u.confirmed)
    <2> HIDE DEF r
    <2> QED BY <1>1, SMT DEF Step
  <1>3. dw \in BOOLEAN /\ ap \in BOOLEAN /\ en \in Int
    BY DEF ZoneStateType
  <1>4. (dw <=> ~(u.confirmed # s.confirmed /\ u.confirmed = "Inside") /\ s.dwellReported)
    OBVIOUS
  <1> HIDE DEF dw, ap, en
  <1>5. r \in ZoneStateType
    BY <1>3, SMT DEF ZoneStateType
  <1>6. /\ r.tracked = TRUE /\ r.hyst = u.hyst /\ r.confirmed = u.confirmed
        /\ r.dwellReported = dw
    BY SMT
  <1> HIDE DEF r
  <1> QED BY <1>2, <1>4, <1>5, <1>6, Zenon DEF Transitioned

LEMMA ExaminePreserves ==
    ASSUME NEW f \in Fixes, NEW t \in Times, NEW z \in Zones,
           zs[z] \in ZoneStateType, hist[z] \in HistoryType, ZoneInv(z),
           SightOf(z, f, t) = "examined"
    PROVE  Preserved(Evaluation(z, f, t), History(z, f, t, Evaluation(z, f, t).events), z, f, t)
  <1> DEFINE raw == Classify(f.sd[z], f.acc)
             u  == UpdateZoneState(zs[z], z, raw, f.sd[z], t)
             tr == Transition(zs[z], u, t)
             dw == Overstays(tr.state, z, t)
             ap == Approaches(tr.state, z, f)
             extra == (IF dw THEN {"DwellExceeded"} ELSE {})
                         \cup (IF ap THEN {"ZoneApproaching"} ELSE {})
             events == TransitionEvents(zs[z].confirmed, u.confirmed) \cup extra
             kk == Observe(hist[z], z, raw, f.sd[z], t, events)
             st == [[tr.state EXCEPT !.dwellReported = @ \/ dw] EXCEPT !.approachReported = @ \/ ap]
  <1>1. f.sd[z] \in Int /\ raw \in Containment /\ t \in Int
    BY EvaluatorAssumption DEF FixAssumption, FixType, Classify, Containment
  <1>2. extra \in SUBSET {"DwellExceeded", "ZoneApproaching"}
    OBVIOUS
  <1>3. StateInv(zs[z], hist[z])
    BY DEF ZoneInv
  <1> HIDE DEF u, extra, events, raw, kk
  <1>l. Looked(zs[z], hist[z], t, u, events, kk)
    <2>1. u = UpdateZoneState(zs[z], z, raw, f.sd[z], t)
      BY DEF u
    <2>2. events = TransitionEvents(zs[z].confirmed, u.confirmed) \cup extra
      BY DEF events
    <2>3. kk = Observe(hist[z], z, raw, f.sd[z], t, events)
      BY DEF kk
    <2> HIDE DEF tr, dw, ap, st
    <2> QED BY <1>1, <1>2, <1>3, <2>1, <2>2, <2>3, LookPreserves
  <1>4. /\ u.hyst \in HysteresisState /\ u.confirmed \in Containment
        /\ kk \in HistoryType
        /\ kk.open <=> u.confirmed = "Inside"
        /\ Enabled => Coupled(u.hyst, u.confirmed, kk)
        /\ events \subseteq EventKind
        /\ "ZoneEnter" \in events <=> zs[z].confirmed # "Inside" /\ u.confirmed = "Inside"
        /\ "ZoneExit" \in events <=> zs[z].confirmed = "Inside" /\ u.confirmed # "Inside"
        /\ Enabled /\ "ZoneUncertain" \in events => ~hist[z].hazy
        /\ Enabled /\ "ZoneEnter" \in events =>
              /\ kk.deep >= ConfirmSamples
              /\ kk.attempt # None /\ t - kk.attempt >= MinDwell
        /\ Enabled /\ "ZoneExit" \in events => kk.clear >= ConfirmSamples
        /\ Enabled /\ kk.deep >= ConfirmSamples /\ kk.deep >= 2 /\ kk.deep < CountMod
              /\ t - kk.attempt >= MinDwell => u.confirmed = "Inside"
    BY <1>l DEF Looked
  <1>5. /\ tr.state \in ZoneStateType /\ tr.state.tracked = TRUE
        /\ tr.state.hyst = u.hyst /\ tr.state.confirmed = u.confirmed
        /\ tr.state.dwellReported <=>
              ~(u.confirmed # zs[z].confirmed /\ u.confirmed = "Inside") /\ zs[z].dwellReported
        /\ tr.events = TransitionEvents(zs[z].confirmed, u.confirmed)
    <2>1. Transitioned(tr, zs[z], u)
      <3> HIDE DEF dw, ap, st
      <3> QED BY <1>1, <1>4, TransitionFields
    <2> HIDE DEF tr
    <2> QED BY <2>1, Zenon DEF Transitioned
  <1>6. Evaluation(z, f, t) = Step(st, events)
    <2>1. Evaluation(z, f, t) = Examine(z, f, t)
      BY DEF Evaluation
    <2>2. Examine(z, f, t) = Step(st, tr.events \cup (IF dw THEN {"DwellExceeded"} ELSE {})
                                              \cup (IF ap THEN {"ZoneApproaching"} ELSE {}))
      BY Zenon DEF Examine, u, raw
    <2>3. tr.events \cup (IF dw THEN {"DwellExceeded"} ELSE {})
                    \cup (IF ap THEN {"ZoneApproaching"} ELSE {}) = events
      <3> HIDE DEF dw, ap, tr
      <3> QED BY <1>5 DEF events, extra
    <2> QED BY <2>1, <2>2, <2>3
  <1>7. Evaluation(z, f, t).state = st /\ Evaluation(z, f, t).events = events
    <2> HIDE DEF st
    <2> QED BY <1>6, SMT DEF Step
  <1>8. History(z, f, t, events) = kk
    BY SightFacts DEF History, kk, raw
  <1>9. dw \in BOOLEAN /\ ap \in BOOLEAN
    BY DEF Overstays, Approaches
  <1>10. "DwellExceeded" \in events <=> dw
    <2>1. zs[z].confirmed \in Containment
      BY SMT DEF ZoneStateType
    <2>2. TransitionEvents(zs[z].confirmed, u.confirmed) \subseteq {"ZoneEnter", "ZoneExit", "ZoneUncertain"}
      BY <1>4, <2>1, TransitionEventsFacts
    <2> HIDE DEF dw, ap
    <2> QED BY <2>2 DEF events, extra
  <1>11. /\ dw => u.confirmed = "Inside" /\ ~tr.state.dwellReported
         /\ u.confirmed = "Inside" /\ ~tr.state.dwellReported
               /\ zone[z].dwell > 0 /\ t - tr.state.entered > zone[z].dwell => dw
    BY <1>5 DEF Overstays
  <1> HIDE DEF dw, ap, tr
  <1>12. /\ st \in ZoneStateType /\ st.tracked = TRUE
         /\ st.hyst = u.hyst /\ st.confirmed = u.confirmed
         /\ st.entered = tr.state.entered
         /\ st.dwellReported <=> tr.state.dwellReported \/ dw
    <2> DEFINE g == [tr.state EXCEPT !.dwellReported = @ \/ dw]
               b == tr.state.dwellReported \/ dw
               a == g.approachReported \/ ap
    <2>1. b \in BOOLEAN /\ a \in BOOLEAN
      BY Zenon
    <2>2. g = [tr.state EXCEPT !.dwellReported = b]
      BY Zenon
    <2>3. st = [g EXCEPT !.approachReported = a]
      BY Zenon
    <2>4. b <=> tr.state.dwellReported \/ dw
      OBVIOUS
    <2> HIDE DEF g, b, a, st
    <2>5. /\ g \in ZoneStateType /\ g.tracked = TRUE /\ g.hyst = u.hyst
          /\ g.confirmed = u.confirmed /\ g.entered = tr.state.entered /\ g.dwellReported = b
      BY <1>5, <2>1, <2>2, SMT DEF ZoneStateType
    <2>6. /\ st \in ZoneStateType /\ st.tracked = TRUE /\ st.hyst = u.hyst
          /\ st.confirmed = u.confirmed /\ st.entered = tr.state.entered /\ st.dwellReported = b
      BY <2>1, <2>3, <2>5, SMT DEF ZoneStateType
    <2> QED BY <2>4, <2>6, Zenon
  <1> HIDE DEF st
  <1>13. kk.dwelt <=> "DwellExceeded" \in events \/ (hist[z].dwelt /\ "ZoneEnter" \notin events)
    BY <1>1, ObserveFields DEF kk
  <1>14. st.confirmed = "Inside" => (kk.dwelt <=> st.dwellReported)
    BY <1>3, <1>4, <1>5, <1>10, <1>12, <1>13 DEF StateInv
  <1>15. StateInv(st, kk)
    BY <1>4, <1>12, <1>14, Zenon DEF StateInv
  <1>16. "DwellExceeded" \in events => kk.open /\ (~hist[z].dwelt \/ "ZoneEnter" \in events)
    BY <1>3, <1>4, <1>5, <1>10, <1>11 DEF StateInv
  <1>o. kk.open /\ zone[z].dwell > 0 /\ t - st.entered > zone[z].dwell => kk.dwelt
    BY <1>4, <1>11, <1>12, <1>14
  <1>17. (hist[z].open <=> zs[z].confirmed = "Inside") /\ InForce(z, t)
    BY <1>3, SightFacts DEF StateInv
  <1> QED BY <1>4, <1>7, <1>8, <1>12, <1>15, <1>16, <1>o, <1>17 DEF Preserved
LEMMA ClosePreserves ==
    ASSUME NEW f \in Fixes, NEW t \in Times, NEW z \in Zones,
           zs[z] \in ZoneStateType, hist[z] \in HistoryType, ZoneInv(z),
           SightOf(z, f, t) = "closed"
    PROVE  Preserved(Evaluation(z, f, t), History(z, f, t, Evaluation(z, f, t).events), z, f, t)
  <1> DEFINE events == IF zs[z].confirmed = "Inside" THEN {"ZoneExit"} ELSE {}
             op == hist[z].open /\ "ZoneExit" \notin events
             kk == [NoHistory EXCEPT !.open = op]
  <1>1. Evaluation(z, f, t) = Step(NoState, events)
    BY DEF Evaluation, Close
  <1>2. Evaluation(z, f, t).state = NoState /\ Evaluation(z, f, t).events = events
    <2> HIDE DEF events
    <2> QED BY <1>1, SMT DEF Step
  <1>3. ~InForce(z, t) /\ z \notin Dropped(f)
    BY SightFacts
  <1>4. History(z, f, t, events) = kk
    BY <1>3, Zenon DEF History
  <1>5. hist[z].open <=> zs[z].confirmed = "Inside"
    BY DEF ZoneInv, StateInv
  <1>6. op = FALSE
    BY <1>5
  <1>7. /\ "ZoneExit" \in events => hist[z].open
        /\ "ZoneEnter" \notin events /\ "ZoneUncertain" \notin events /\ "DwellExceeded" \notin events
        /\ events \subseteq EventKind
    BY <1>5 DEF EventKind
  <1> HIDE DEF events, op
  <1>8. /\ kk \in HistoryType /\ kk.open = FALSE /\ kk.deep = 0 /\ kk.attempt = None
        /\ kk.hazy = FALSE
    <2>1. kk = NoHistory
      BY <1>6, ClosedHistory
    <2> QED BY <2>1, FreshState
  <1> HIDE DEF kk
  <1>9. StateInv(NoState, kk)
    BY <1>8, FreshStateInv
  <1> QED BY <1>2, <1>3, <1>4, <1>7, <1>8, <1>9, FreshState DEF Preserved

LEMMA SkipPreserves ==
    ASSUME NEW f \in Fixes, NEW t \in Times, NEW z \in Zones, Usable(f),
           zs[z] \in ZoneStateType, hist[z] \in HistoryType, ZoneInv(z),
           SightOf(z, f, t) = "skipped"
    PROVE  Preserved(Evaluation(z, f, t), History(z, f, t, Evaluation(z, f, t).events), z, f, t)
  <1> DEFINE kk == History(z, f, t, {})
  <1>1. Evaluation(z, f, t).state = zs[z] /\ Evaluation(z, f, t).events = {}
    <2>1. Evaluation(z, f, t) = Step(zs[z], {})
      BY DEF Evaluation
    <2> QED BY <2>1, SMT DEF Step
  <1>2. kk \in HistoryType /\ StateInv(zs[z], kk)
    <2>1. CASE z \in Dropped(f)
      BY <2>1 DEF History, ZoneInv
    <2>2. CASE z \notin Dropped(f)
      <3>1. ~zs[z].tracked /\ (InForce(z, t) => ~f.near[z])
        BY <2>2, SightFacts
      <3>2. zs[z] = NoState /\ ~hist[z].open /\ (Enabled => Coupled(NoState.hyst, "Outside", hist[z]))
        BY <3>1, FreshState DEF ZoneInv, StateInv
      <3>3. CASE ~InForce(z, t)
        <4> DEFINE op == hist[z].open /\ "ZoneExit" \notin {}
        <4>1. kk = [NoHistory EXCEPT !.open = op]
          BY <2>2, <3>3, Zenon DEF History
        <4>2. op = FALSE
          BY <3>2
        <4> HIDE DEF op, kk
        <4>3. /\ kk \in HistoryType /\ kk.open = FALSE /\ kk.deep = 0 /\ kk.attempt = None
              /\ kk.hazy = FALSE
          <5>1. kk = NoHistory
            BY <4>1, <4>2, ClosedHistory
          <5> QED BY <5>1, FreshState
        <4> QED BY <3>2, <4>3, FreshStateInv
      <3>4. CASE InForce(z, t)
        <4>1. /\ Classify(f.sd[z], f.acc) = "Outside"
              /\ f.box[z] > 0 /\ f.box[z] <= f.sd[z]
              /\ f.sd[z] \in Int /\ f.box[z] \in Nat
          BY <3>1, <3>4, NotNearIsOutside, EvaluatorAssumption DEF FixAssumption, FixType
        <4>2. kk = Observe(hist[z], z, "Outside", f.sd[z], t, {})
          BY <2>2, <3>4, <4>1 DEF History
        <4>3. ~Enters(z, "Outside", f.sd[z])
          BY <4>1, MarginsDisjoint, SMT
        <4>4. "Outside" \in Containment
          BY DEF Containment
        <4> HIDE DEF kk
        <4>5. /\ kk \in HistoryType /\ ~kk.open /\ kk.deep = 0 /\ kk.attempt = None
              /\ kk.hazy => hist[z].hazy
          BY <3>2, <4>1, <4>2, <4>3, <4>4, ObserveFields
        <4>6. CASE Enabled
          <5>1. ~kk.hazy
            BY <3>2, <4>5, <4>6 DEF Coupled, Haze
          <5> QED BY <3>2, <4>5, <5>1, FreshStateInv
        <4>7. CASE ~Enabled
          BY <3>2, <4>5, <4>7, FreshState DEF StateInv
        <4> QED BY <4>6, <4>7
      <3> QED BY <3>3, <3>4
    <2> QED BY <2>1, <2>2
  <1> HIDE DEF kk
  <1>3. /\ "ZoneEnter" \notin {} /\ "ZoneExit" \notin {} /\ "ZoneUncertain" \notin {}
        /\ "DwellExceeded" \notin {} /\ {} \subseteq EventKind
    OBVIOUS
  <1> QED BY <1>1, <1>2, <1>3, Zenon DEF Preserved, kk

LEMMA OutOfWindowPreserves ==
    ASSUME NEW f \in Fixes, NEW t \in Times, NEW z \in Zones, Usable(f),
           zs[z] \in ZoneStateType, hist[z] \in HistoryType, ZoneInv(z),
           SightOf(z, f, t) = "unreturned"
    PROVE  Preserved(Evaluation(z, f, t), History(z, f, t, Evaluation(z, f, t).events), z, f, t)
  <1> DEFINE u  == UpdateZoneState(zs[z], z, "Outside", f.box[z], t)
             tr == Transition(zs[z], u, t)
             events == TransitionEvents(zs[z].confirmed, u.confirmed)
             kk == Observe(hist[z], z, "Outside", f.sd[z], t, events)
             gone == u.confirmed = "Outside" /\ u.hyst.phase = "Outside"
  <1> HIDE DEF u, tr, events, kk, gone
  <1>1. /\ Classify(f.sd[z], f.acc) = "Outside"
        /\ f.box[z] > 0 /\ f.box[z] <= f.sd[z]
        /\ f.sd[z] \in Int /\ f.box[z] \in Int /\ t \in Int
        /\ InForce(z, t) /\ z \notin Dropped(f)
        /\ f.box[z] > MinQueryRadius \/ f.box[z] > MaxQueryRadius
    <2>1. InForce(z, t) /\ z \notin Dropped(f) /\ ~f.near[z]
      BY SightFacts
    <2>2. f.sd[z] \in Int /\ f.box[z] \in Nat /\ t \in Nat
      BY EvaluatorAssumption DEF FixAssumption, FixType
    <2>3. f.box[z] \in Int /\ t \in Int
      BY <2>2, SMT
    <2> QED BY <2>1, <2>2, <2>3, NotNearIsOutside
  <1>2. /\ ~Enters(z, "Outside", f.sd[z]) /\ ~Enters(z, "Outside", f.box[z])
        /\ Clears(z, "Outside", f.box[z]) => Clears(z, "Outside", f.sd[z])
        /\ MarginsInWindow => Clears(z, "Outside", f.box[z])
    <2> DEFINE xm == IF ZoneExitMargin[z] > 0 THEN ZoneExitMargin[z] ELSE ExitMargin
    <2>1. ~Enters(z, "Outside", f.sd[z]) /\ ~Enters(z, "Outside", f.box[z]) /\ xm \in Nat
      <3>1. /\ Enters(z, "Outside", f.sd[z]) => f.sd[z] <= 0
            /\ Enters(z, "Outside", f.box[z]) => f.box[z] <= 0
            /\ xm \in Nat
        BY <1>1, MarginsDisjoint
      <3>2. ~(f.sd[z] <= 0) /\ ~(f.box[z] <= 0)
        BY <1>1, SMT
      <3> QED BY <3>1, <3>2
    <2>2. /\ Clears(z, "Outside", f.box[z]) <=> f.box[z] > xm
          /\ Clears(z, "Outside", f.sd[z]) <=> f.sd[z] > xm
      BY DEF Clears
    <2>3. f.box[z] > xm => f.sd[z] > xm
      <3> HIDE DEF xm
      <3> QED BY <1>1, <2>1, SMT
    <2>4. MarginsInWindow => f.box[z] > xm
      <3>1. MarginsInWindow => xm <= MinQueryRadius /\ xm <= MaxQueryRadius
        BY DEF MarginsInWindow
      <3>2. MinQueryRadius \in Nat /\ MaxQueryRadius \in Nat
        BY EvaluatorAssumption
      <3> HIDE DEF xm
      <3> QED BY <1>1, <2>1, <3>1, <3>2, SMT
    <2> QED BY <2>1, <2>2, <2>3, <2>4
  <1>3. StateInv(zs[z], hist[z])
    BY DEF ZoneInv
  <1>l. Looked(zs[z], hist[z], t, u, events, kk)
    <2>1. events = TransitionEvents(zs[z].confirmed, u.confirmed) \cup {}
      BY DEF events
    <2>2. {} \in SUBSET {"DwellExceeded", "ZoneApproaching"} /\ "Outside" \in Containment
      BY DEF Containment
    <2>3. u = UpdateZoneState(zs[z], z, "Outside", f.box[z], t)
          /\ kk = Observe(hist[z], z, "Outside", f.sd[z], t, events)
      BY DEF u, kk
    <2>4. /\ "Outside" # "Uncertain" =>
                Enters(z, "Outside", f.box[z]) = Enters(z, "Outside", f.sd[z])
      <3>1. Enters(z, "Outside", f.box[z]) \in BOOLEAN /\ Enters(z, "Outside", f.sd[z]) \in BOOLEAN
        BY DEF Enters
      <3> QED BY <1>2, <3>1
    <2> QED BY <1>1, <1>2, <1>3, <2>1, <2>2, <2>3, <2>4, LookPreserves
  <1>4. kk.dwelt <=> hist[z].dwelt /\ "ZoneEnter" \notin events
    <2>1. "DwellExceeded" \notin events
      BY DEF TransitionEvents, events
    <2>2. "Outside" \in Containment
      BY DEF Containment
    <2> QED BY <1>1, <2>1, <2>2, ObserveFields DEF kk
  <1>5. "DwellExceeded" \notin events
    BY DEF TransitionEvents, events
  <1>6. /\ tr.state \in ZoneStateType /\ tr.state.tracked = TRUE
        /\ tr.state.hyst = u.hyst /\ tr.state.confirmed = u.confirmed
        /\ tr.state.dwellReported <=>
              ~(u.confirmed # zs[z].confirmed /\ u.confirmed = "Inside") /\ zs[z].dwellReported
        /\ tr.events = events
    <2>1. u.hyst \in HysteresisState /\ u.confirmed \in Containment
      BY <1>l DEF Looked
    <2>2. events = TransitionEvents(zs[z].confirmed, u.confirmed)
      BY DEF events
    <2>3. tr = Transition(zs[z], u, t) /\ t \in Int
      BY <1>1 DEF tr
    <2>4. Transitioned(tr, zs[z], u)
      BY <2>1, <2>3, TransitionFields
    <2> QED BY <2>2, <2>4, Zenon DEF Transitioned
  <1>7. History(z, f, t, events) = kk
    BY <1>1 DEF History, kk
  <1>8. StateInv(tr.state, kk)
    BY <1>3, <1>4, <1>6, <1>l DEF StateInv, Looked
  <1>9. Evaluation(z, f, t) = IF gone THEN Step(NoState, tr.events) ELSE tr
    <2>1. Evaluation(z, f, t) = OutOfWindow(z, f, t)
      BY DEF Evaluation
    <2>2. OutOfWindow(z, f, t) = IF tr.state.confirmed = "Outside" /\ u.hyst.phase = "Outside"
                                THEN Step(NoState, tr.events) ELSE tr
      BY DEF OutOfWindow, u, tr
    <2> QED BY <1>6, <2>1, <2>2 DEF gone
  <1>10. (hist[z].open <=> zs[z].confirmed = "Inside") /\ events \subseteq EventKind
    BY <1>3, <1>l DEF StateInv, Looked
  <1>11. CASE gone
    <2>1. Evaluation(z, f, t).state = NoState /\ Evaluation(z, f, t).events = events
      <3>1. Evaluation(z, f, t) = Step(NoState, tr.events)
        BY <1>9, <1>11
      <3>2. Step(NoState, tr.events).state = NoState /\ Step(NoState, tr.events).events = tr.events
        BY SMT DEF Step
      <3> QED BY <1>6, <3>1, <3>2
    <2>2. kk \in HistoryType /\ ~kk.open
      BY <1>11, <1>l DEF Looked, gone
    <2>3. kk.deep = 0 /\ kk.attempt = None
      BY <1>1, <1>2, ObserveFields DEF kk, Containment
    <2>4. Enabled => ~kk.hazy
      BY <1>11, <1>l DEF Looked, Coupled, Haze, gone
    <2>5. StateInv(NoState, kk)
      <3>1. CASE Enabled
        BY <2>2, <2>3, <2>4, <3>1, FreshStateInv
      <3>2. CASE ~Enabled
        BY <2>2, <3>2, FreshState DEF StateInv
      <3> QED BY <3>1, <3>2
    <2> QED BY <1>1, <1>5, <1>7, <1>10, <1>l, <2>1, <2>5, FreshState DEF Preserved, Looked
  <1>12. CASE ~gone
    <2>1. Evaluation(z, f, t).state = tr.state /\ Evaluation(z, f, t).events = events
      BY <1>6, <1>9, <1>12
    <2> QED BY <1>1, <1>5, <1>6, <1>7, <1>8, <1>10, <1>12, <1>l, <2>1 DEF Preserved, Looked, gone
  <1> QED BY <1>11, <1>12

LEMMA EvaluationPreserves ==
    ASSUME NEW f \in Fixes, NEW t \in Times, NEW z \in Zones, Usable(f),
           zs[z] \in ZoneStateType, hist[z] \in HistoryType, ZoneInv(z)
    PROVE  Preserved(Evaluation(z, f, t), History(z, f, t, Evaluation(z, f, t).events), z, f, t)
  <1>1. SightOf(z, f, t) \in Sight
    BY SightFacts
  <1> QED BY <1>1, ExaminePreserves, ClosePreserves, SkipPreserves, OutOfWindowPreserves DEF Sight
-----------------------------------------------------------------------------
(* The sampler returns an interval: the tier search always ends. *)
LEMMA SmallestNat ==
    ASSUME NEW S, S \subseteq Nat, S # {}
    PROVE  \E m \in S : \A y \in S : m <= y
  <1>1. PICK m \in S : \A y \in S : ~(<<y, m>> \in OpToRel(<, Nat))
    BY NatLessThanWellFounded, WFMin, Zenon
  <1>2. \A y \in S : ~(y < m)
    BY <1>1 DEF OpToRel
  <1>3. \A y \in S : m <= y
    BY <1>2, SMT
  <1> QED BY <1>3

LEMMA MinInSet ==
    ASSUME NEW S, S \subseteq Nat, S # {}
    PROVE  Min(S) \in S /\ \A y \in S : Min(S) <= y
  BY SmallestNat DEF Min

LEMMA TierIntervalType ==
    ASSUME NEW d \in Nat, d <= Far
    PROVE  TierInterval(d) \in Nat
  <1>n. Len(Tiers) \in Nat /\ Len(Tiers) > 0
    BY EvaluatorAssumption
  <1> DEFINE S == {i \in 1 .. Len(Tiers) : d <= Tiers[i].dist}
  <1>1. S \subseteq Nat /\ Len(Tiers) \in S
    BY <1>n, SMT DEF Far
  <1>2. PICK i \in S : \A j \in S : i <= j
    BY <1>1, SmallestNat
  <1>t. \A j \in 1 .. Len(Tiers) : Tiers[j].dist \in Nat /\ Tiers[j].interval \in Nat
    BY EvaluatorAssumption
  <1>3. i \in 1 .. Len(Tiers) /\ d <= Tiers[i].dist /\ \A j \in 1 .. i - 1 : d > Tiers[j].dist
    BY <1>n, <1>2, <1>t, SMT
  <1> QED BY <1>3, <1>t DEF TierInterval

LEMMA SampleIntervalType ==
    ASSUME NEW f \in Fixes, NEW t \in Times, NEW alertActive \in BOOLEAN
    PROVE  SampleInterval(f, t, alertActive) \in Nat
  <1> DEFINE S == {Far} \cup {Distance(f.sd[z]) : z \in Examined(f, t)}
                        \cup {f.box[z] : z \in {y \in Examined(f, t) : f.box[y] > 0}}
  <1>1. f.speed \in Nat /\ \A z \in Zones : f.sd[z] \in Int /\ f.box[z] \in Nat
    BY EvaluatorAssumption DEF FixAssumption, FixType
  <1>2. Far \in Nat
    <2>1. Len(Tiers) \in Nat /\ Len(Tiers) > 0
      BY EvaluatorAssumption
    <2>2. Len(Tiers) \in 1 .. Len(Tiers)
      BY <2>1, SMT
    <2> QED BY <2>2, EvaluatorAssumption DEF Far
  <1>3. Examined(f, t) \subseteq Zones
    BY DEF Examined, Candidates
  <1>4. \A z \in Zones : Distance(f.sd[z]) \in Nat
    BY <1>1, SMT DEF Distance
  <1>5. S \subseteq Nat /\ Far \in S
    BY <1>1, <1>2, <1>3, <1>4
  <1>6. Nearest(f, t) \in Nat /\ Nearest(f, t) <= Far
    <2>1. Nearest(f, t) = Min(S)
      BY DEF Nearest
    <2> HIDE DEF S
    <2> QED BY <1>5, <2>1, MinInSet
  <1> DEFINE base == IF alertActive THEN AlertInterval ELSE TierInterval(Nearest(f, t))
             fast == IF f.speed > FastSpeed THEN (base * FastSpeed) \div f.speed ELSE base
  <1>7. base \in Nat
    BY <1>6, TierIntervalType, EvaluatorAssumption
  <1>8. fast \in Int
    <2> HIDE DEF base
    <2>1. base * FastSpeed \in Int /\ (f.speed > FastSpeed => f.speed > 0)
      BY <1>1, <1>7, EvaluatorAssumption, SMT
    <2> QED BY <1>1, <1>7, <2>1, SMT
  <1>9. SampleInterval(f, t, alertActive) = IF fast < MinInterval THEN MinInterval ELSE fast
    BY DEF SampleInterval
  <1>10. MinInterval \in Nat
    BY EvaluatorAssumption
  <1> HIDE DEF fast
  <1> QED BY <1>8, <1>9, <1>10, SMT
-----------------------------------------------------------------------------
(* The initial states satisfy the invariant. *)
LEMMA InitIInv == ASSUME Init PROVE IInv
  <1>1. \A z \in Zones : zs[z] = NoState /\ hist[z] = NoHistory /\ out[z] = {}
                         /\ seen[z] = "skipped"
    BY DEF Init
  <1>2. TypeOK
    <2>1. zone \in [Zones -> ZoneRecord]
      BY SMT DEF Init, ZoneRecord
    <2>2. NoState \in ZoneStateType /\ NoHistory \in HistoryType
      BY FreshState
    <2>3. {} \in SUBSET EventKind /\ "skipped" \in Sight
      BY DEF Sight
    <2> QED BY <2>1, <2>2, <2>3 DEF Init, TypeOK
  <1>3. StateInv(NoState, NoHistory)
    <2>1. CASE Enabled
      BY <2>1, FreshState, FreshStateInv
    <2>2. CASE ~Enabled
      BY <2>2, FreshState DEF StateInv
    <2> QED BY <2>1, <2>2
  <1>4. ASSUME NEW z \in Zones PROVE ZoneInv(z) /\ StepInv(z) /\ SettledInv(z)
    BY <1>1, <1>3 DEF ZoneInv, StepInv, SettledInv
  <1> QED BY <1>2, <1>4 DEF IInv

(* A usable fix, zone by zone. *)
LEMMA EvaluateUsableStep ==
    ASSUME IInv, NEW f \in Fixes, NEW t \in Times, NEW alertActive \in BOOLEAN,
           EvaluateUsable(f, t, alertActive)
    PROVE  IInv' /\ Alternates /\ UncertainOnce /\ DwellOnce
  <1>1. ASSUME NEW z \in Zones
        PROVE  /\ zs'[z] = Evaluation(z, f, t).state
               /\ out'[z] = Evaluation(z, f, t).events
               /\ hist'[z] = History(z, f, t, Evaluation(z, f, t).events)
               /\ seen'[z] = SightOf(z, f, t)
               /\ Preserved(Evaluation(z, f, t),
                            History(z, f, t, Evaluation(z, f, t).events), z, f, t)
    <2>1. zs[z] \in ZoneStateType /\ hist[z] \in HistoryType /\ ZoneInv(z) /\ Usable(f)
      BY DEF IInv, TypeOK, EvaluateUsable
    <2>2. /\ zs'[z] = Evaluation(z, f, t).state
          /\ out'[z] = Evaluation(z, f, t).events
          /\ hist'[z] = History(z, f, t, Evaluation(z, f, t).events)
          /\ seen'[z] = SightOf(z, f, t)
      BY DEF EvaluateUsable
    <2> QED BY <2>1, <2>2, EvaluationPreserves
  <1>2. lastFix' = t /\ zone' = zone
    BY DEF EvaluateUsable
  <1>3. ASSUME NEW z \in Zones PROVE Preserved([state |-> zs'[z], events |-> out'[z]], hist'[z], z, f, t)
    <2>1. /\ [state |-> zs'[z], events |-> out'[z]].state = zs'[z]
          /\ [state |-> zs'[z], events |-> out'[z]].events = out'[z]
      BY SMT
    <2> QED BY <1>1, <2>1, ZenonT(30) DEF Preserved
  <1>4. ASSUME NEW z \in Zones
        PROVE  /\ zs'[z] \in ZoneStateType /\ out'[z] \subseteq EventKind
               /\ hist'[z] \in HistoryType
               /\ StateInv(zs'[z], hist'[z])
               /\ "ZoneEnter" \in out'[z] => ~hist[z].open /\ "ZoneExit" \notin out'[z]
               /\ "ZoneExit" \in out'[z] => hist[z].open
               /\ Enabled /\ "ZoneUncertain" \in out'[z] => ~hist[z].hazy
               /\ "DwellExceeded" \in out'[z] =>
                     hist'[z].open /\ (~hist[z].dwelt \/ "ZoneEnter" \in out'[z])
               /\ seen'[z] = "examined" /\ hist'[z].open
                     /\ zone[z].dwell > 0 /\ t - zs'[z].entered > zone[z].dwell => hist'[z].dwelt
               /\ Enabled /\ "ZoneEnter" \in out'[z] =>
                     /\ hist'[z].deep >= ConfirmSamples
                     /\ hist'[z].attempt # None /\ t - hist'[z].attempt >= MinDwell
               /\ Enabled /\ "ZoneExit" \in out'[z] /\ InForce(z, t) =>
                     hist'[z].clear >= ConfirmSamples
               /\ Enabled /\ seen'[z] = "examined"
                     /\ hist'[z].deep >= ConfirmSamples /\ hist'[z].deep >= 2
                     /\ hist'[z].deep < CountMod
                     /\ t - hist'[z].attempt >= MinDwell => zs'[z].confirmed = "Inside"
               /\ zs'[z].tracked /\ seen'[z] # "skipped" =>
                     /\ InForce(z, t)
                     /\ \/ seen'[z] = "examined"
                        \/ zs'[z].confirmed # "Outside"
                        \/ zs'[z].hyst.phase # "Outside"
    BY <1>1, Zenon DEF Preserved
  <1>5. TypeOK'
    <2>1. zs' = [z \in Zones |-> zs'[z]] /\ out' = [z \in Zones |-> out'[z]]
          /\ hist' = [z \in Zones |-> hist'[z]] /\ seen' = [z \in Zones |-> seen'[z]]
      BY DEF EvaluateUsable
    <2>2. \A z \in Zones : seen'[z] \in Sight
      BY <1>1, SightFacts
    <2>3. /\ zs' \in [Zones -> ZoneStateType] /\ out' \in [Zones -> SUBSET EventKind]
          /\ hist' \in [Zones -> HistoryType] /\ seen' \in [Zones -> Sight]
      BY <1>4, <2>1, <2>2
    <2>4. zone' \in [Zones -> ZoneRecord] /\ lastFix' \in Nat
      BY <1>2, EvaluatorAssumption DEF IInv, TypeOK
    <2>5. interval' \in Nat
      BY SampleIntervalType DEF EvaluateUsable
    <2> QED BY <2>3, <2>4, <2>5 DEF TypeOK
  <1>6. ASSUME NEW z \in Zones PROVE InForce(z, t) <=> InForce(z, lastFix)'
    BY <1>2 DEF InForce, Live
  <1>7. ASSUME NEW z \in Zones PROVE (ZoneInv(z) /\ StepInv(z) /\ SettledInv(z))'
    <2>1. ZoneInv(z)'
      BY <1>4 DEF ZoneInv
    <2>2. StepInv(z)'
      BY <1>2, <1>4, <1>6 DEF StepInv
    <2>3. SettledInv(z)'
      BY <1>4, <1>6 DEF SettledInv
    <2> QED BY <2>1, <2>2, <2>3
  <1>8. IInv'
    BY <1>5, <1>7 DEF IInv
  <1>9. Alternates /\ UncertainOnce /\ DwellOnce
    BY <1>2, <1>4 DEF Alternates, UncertainOnce, DwellOnce
  <1> QED BY <1>8, <1>9

(* A step that evaluates nothing emits nothing. *)
LEMMA QuietStep ==
    ASSUME TypeOK', Quiet,
           \A z \in Zones : ZoneInv(z)'
    PROVE  IInv' /\ Alternates /\ UncertainOnce /\ DwellOnce
  <1>1. \A z \in Zones : out'[z] = {} /\ seen'[z] = "skipped"
    BY DEF Quiet
  <1>2. \A z \in Zones : StepInv(z)' /\ SettledInv(z)'
    BY <1>1 DEF StepInv, SettledInv
  <1>3. Alternates /\ UncertainOnce /\ DwellOnce
    BY <1>1 DEF Alternates, UncertainOnce, DwellOnce
  <1> QED BY <1>2, <1>3 DEF IInv

(* Every step keeps the invariant and the action properties. *)
LEMMA NextIInv ==
    ASSUME IInv, Next
    PROVE  IInv' /\ Alternates /\ UncertainOnce /\ DwellOnce
  <1>q. ASSUME Quiet PROVE out' \in [Zones -> SUBSET EventKind] /\ seen' \in [Zones -> Sight]
    <2>1. {} \in SUBSET EventKind /\ "skipped" \in Sight
      BY DEF Sight
    <2> QED BY <1>q, <2>1 DEF Quiet
  <1>u. ASSUME UNCHANGED <<zs, hist>> PROVE \A z \in Zones : ZoneInv(z)'
    BY <1>u DEF ZoneInv, IInv
  <1>1. ASSUME NEW f \in Fixes, NEW t \in Times, NEW alertActive \in BOOLEAN,
               EvaluateUsable(f, t, alertActive)
        PROVE  IInv' /\ Alternates /\ UncertainOnce /\ DwellOnce
    BY <1>1, EvaluateUsableStep
  <1>2. ASSUME NEW f \in Fixes, NEW t \in Times, RejectNoisy(f, t)
        PROVE  IInv' /\ Alternates /\ UncertainOnce /\ DwellOnce
    <2>1. TypeOK'
      BY <1>2, <1>q, EvaluatorAssumption DEF RejectNoisy, TypeOK, IInv
    <2> QED BY <1>2, <1>u, <2>1, QuietStep DEF RejectNoisy
  <1>3. ASSUME NEW t \in Times, NewSession(t)
        PROVE  IInv' /\ Alternates /\ UncertainOnce /\ DwellOnce
    <2>1. TypeOK'
      BY <1>3, <1>q, FreshState, EvaluatorAssumption DEF NewSession, TypeOK, IInv
    <2>2. StateInv(NoState, NoHistory)
      <3>1. CASE Enabled
        BY <3>1, FreshState, FreshStateInv
      <3>2. CASE ~Enabled
        BY <3>2, FreshState DEF StateInv
      <3> QED BY <3>1, <3>2
    <2>3. \A z \in Zones : ZoneInv(z)'
      BY <1>3, <2>2 DEF NewSession, ZoneInv
    <2> QED BY <1>3, <2>1, <2>3, QuietStep DEF NewSession
  <1>w. ASSUME NEW z \in Zones, NEW w \in Windows, NEW d \in Dwells
        PROVE  w[1] \in Int /\ w[2] \in Int /\ d \in Nat
    BY EvaluatorAssumption
  <1>4. ASSUME NEW z \in Zones, NEW w \in Windows, NEW d \in Dwells, CreateZone(z, w, d)
        PROVE  IInv' /\ Alternates /\ UncertainOnce /\ DwellOnce
    <2>1. zone' \in [Zones -> ZoneRecord]
      BY <1>4, <1>w DEF CreateZone, TypeOK, IInv, ZoneRecord
    <2>2. TypeOK'
      BY <1>4, <1>q, <2>1 DEF CreateZone, TypeOK, IInv
    <2> QED BY <1>4, <1>u, <2>2, QuietStep DEF CreateZone
  <1>5. ASSUME NEW z \in Zones, NEW w \in Windows, NEW d \in Dwells, UpdateZone(z, w, d)
        PROVE  IInv' /\ Alternates /\ UncertainOnce /\ DwellOnce
    <2>1. zone' \in [Zones -> ZoneRecord]
      BY <1>5, <1>w, ZenonT(30) DEF UpdateZone, TypeOK, IInv, ZoneRecord
    <2>2. TypeOK'
      BY <1>5, <1>q, <2>1 DEF UpdateZone, TypeOK, IInv
    <2> QED BY <1>5, <1>u, <2>2, QuietStep DEF UpdateZone
  <1>6. ASSUME NEW z \in Zones, DeleteZone(z)
        PROVE  IInv' /\ Alternates /\ UncertainOnce /\ DwellOnce
    <2>1. zone' \in [Zones -> ZoneRecord]
      BY <1>6 DEF DeleteZone, TypeOK, IInv, ZoneRecord
    <2>2. TypeOK'
      BY <1>6, <1>q, <2>1 DEF DeleteZone, TypeOK, IInv
    <2> QED BY <1>6, <1>u, <2>2, QuietStep DEF DeleteZone
  <1> QED BY <1>1, <1>2, <1>3, <1>4, <1>5, <1>6 DEF Next
-----------------------------------------------------------------------------
(* The inductive invariant holds throughout. *)
LEMMA Invariant == Spec => []IInv
  <1>1. Init => IInv
    BY InitIInv
  <1>2. IInv /\ [Next]_vars => IInv'
    <2>1. CASE Next
      BY <2>1, NextIInv
    <2>2. ASSUME IInv, UNCHANGED vars PROVE IInv'
      <3>1. TypeOK'
        BY <2>2 DEF IInv, TypeOK, vars
      <3>2. \A z \in Zones : ZoneInv(z)' /\ StepInv(z)' /\ SettledInv(z)'
        BY <2>2 DEF IInv, ZoneInv, StepInv, SettledInv, InForce, Live, vars
      <3> QED BY <3>1, <3>2 DEF IInv
    <2> QED BY <2>1, <2>2
  <1> QED BY <1>1, <1>2, PTL DEF Spec

(* Every variable of the evaluator keeps to its domain; agree_count_ never   *)
(* leaves its integer type, and the sampler's tier search always finds one.  *)
THEOREM TypeCorrect == Spec => []TypeOK
  <1>1. IInv => TypeOK
    BY DEF IInv
  <1> QED BY <1>1, Invariant, PTL

(* "State is not an event": the engine's confirmed containment is the one    *)
(* Flapping suppression: an Enter is the end of a confirmed entry attempt.   *)
THEOREM EnterConfirmed == Spec => []EnterIsConfirmed
  <1>1. IInv => EnterIsConfirmed
    BY DEF IInv, StepInv, EnterIsConfirmed
  <1> QED BY <1>1, Invariant, PTL

(* Flapping suppression: an Exit from a zone in force is the end of a run of *)
(* fixes clearly outside.                                                    *)
THEOREM ExitConfirmed == Spec => []ExitIsConfirmed
  <1>1. IInv => ExitIsConfirmed
    BY DEF IInv, StepInv, ExitIsConfirmed
  <1> QED BY <1>1, Invariant, PTL

(* Flapping suppression, both ways.                                          *)
THEOREM ChangesConfirmed == Spec => []ChangesAreConfirmed
  <1>1. EnterIsConfirmed /\ ExitIsConfirmed => ChangesAreConfirmed
    BY DEF ChangesAreConfirmed
  <1> QED BY <1>1, EnterConfirmed, ExitConfirmed, PTL

(* Suppression delays an Enter by no more than ConfirmSamples and MinDwell,  *)
(* for every run of deep fixes shorter than the range of agree_count_.       *)
THEOREM EntryPrompt == Spec => []EntryIsPrompt
  <1>1. IInv => EntryIsPrompt
    BY DEF IInv, StepInv, EntryIsPrompt
  <1> QED BY <1>1, Invariant, PTL

(* For any zones and fixes a stay ends when it is over and only then: the    *)
(* engine and the log agree on it, a run of clear fixes ends it within       *)
(* ConfirmSamples also where the index no longer returns the zone, nothing   *)
(* less does while the zone is in force, and none outlasts its zone          *)
(* (reconcile, the candidate cap and the hysteresis of an exit).             *)
THEOREM StaysEnd == Spec => []StaysEndWhenLeft
  <1>1. ASSUME IInv PROVE StaysEndWhenLeft
    <2>1. EventsTellContainment
      BY <1>1 DEF IInv, ZoneInv, StateInv, EventsTellContainment
    <2>2. ExitIsConfirmed
      BY <1>1 DEF IInv, StepInv, ExitIsConfirmed
    <2>3. ASSUME NEW z \in Zones, Enabled, MarginsInWindow, hist[z].open,
                 hist[z].clear >= ConfirmSamples, hist[z].clear >= 2, hist[z].clear < CountMod
          PROVE  FALSE
      <3>1. Coupled(zs[z].hyst, zs[z].confirmed, hist[z]) /\ zs[z].confirmed = "Inside"
        BY <1>1, <2>3 DEF IInv, ZoneInv, StateInv
      <3>2. zs[z].hyst.phase \in {"Inside", "ExitingPending"} /\ ClearRun(zs[z].hyst, hist[z])
        BY <3>1 DEF Coupled, ConfirmedMatchesPhase
      <3>3. hist[z].clear \in Nat /\ ConfirmSamples \in Nat
        BY <1>1, HysteresisAssumption, SMT DEF IInv, TypeOK, HistoryType
      <3> QED BY <2>3, <3>2, <3>3, SMT DEF ClearRun
    <2>4. ASSUME NEW z \in Zones, seen[z] # "skipped", ~InForce(z, lastFix) PROVE ~hist[z].open
      <3>1. ~zs[z].tracked
        BY <1>1, <2>4 DEF IInv, SettledInv
      <3> QED BY <1>1, <3>1, FreshState DEF IInv, ZoneInv, StateInv
    <2>5. ExitIsPrompt
      BY <2>3, <2>4 DEF ExitIsPrompt
    <2> QED BY <2>1, <2>2, <2>5 DEF StaysEndWhenLeft
  <1> QED BY <1>1, Invariant, PTL

(* Reconciliation leaves no settled or out-of-force entry behind.            *)
THEOREM Reconciled == Spec => []ReconciledAfterFix
  <1>1. IInv => ReconciledAfterFix
    BY DEF IInv, SettledInv, ReconciledAfterFix
  <1> QED BY <1>1, Invariant, PTL

(* Enter and Exit alternate, whatever happens to the zone in between.        *)
THEOREM EnterExitAlternate == Spec => Alternation
  <1>1. IInv /\ [Next]_vars => [Alternates]_vars
    BY NextIInv
  <1> QED BY <1>1, Invariant, PTL DEF Spec, Alternation

(* The Uncertain band is suppressed like the boundary itself.                *)
THEOREM NoFlood == Spec => NoUncertainFlood
  <1>1. IInv /\ [Next]_vars => [UncertainOnce]_vars
    BY NextIInv
  <1> QED BY <1>1, Invariant, PTL DEF Spec, NoUncertainFlood

(* One DwellExceeded for every overlong stay examined, and none outside one. *)
THEOREM DwellReportedOnce == Spec => OneDwellPerStay
  <1>1. IInv /\ [Next]_vars => [DwellOnce]_vars
    BY NextIInv
  <1> QED BY <1>1, Invariant, PTL DEF Spec, OneDwellPerStay
=============================================================================
