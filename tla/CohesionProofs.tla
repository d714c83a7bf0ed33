--------------------------- MODULE CohesionProofs ---------------------------
(***************************************************************************)
(* Theorems of module Cohesion, for any tourists, places and thresholds:   *)
(* alerts follow confirmed separations, one each, and none but those older *)
(* than the last change of the group is open while the group is whole.     *)
(* Of module Connectivity, the forest its parties are found with: for any  *)
(* elements, unions and rollbacks it joins what is joined in force.  And,  *)
(* with the same lemmas on loops and powers of two, of module Evidence:    *)
(* for logs of any length, what verifies against a root is true of the log *)
(* the root is of, and what is true verifies.                              *)
(***************************************************************************)
EXTENDS Cohesion, Connectivity, Evidence, FiniteSetTheorems, WellFoundedInduction, TLAPS

Typed ==
    /\ now \in Nat
    /\ cfg \in Thresholds
    /\ since \in [Subjects -> Nat]
    /\ unsettled \in [Subjects -> Nat]
    /\ together \in [Subjects -> Nat]

(* A separation was first seen after the last time there was none. *)
Clocked ==
    /\ \A s \in Subjects : together[s] <= now
    /\ \A s \in apart \cap Subjects : together[s] < since[s] /\ since[s] <= now

(* The code's flag knows of every alert of the separation. *)
Remembered == warned \cap Users \subseteq alerted

IInv == Typed /\ Clocked /\ Remembered /\ SettledWhenWhole

-----------------------------------------------------------------------------
(* What a pass finds and raises. *)

LEMMA SubjectsFact == TheGroup \in Subjects /\ Users \subseteq Subjects /\ TheGroup \notin Users
BY CohesionAssumption DEF CohesionAssumption, Subjects

(* A straggler is outside the party, so the group is fragmented. *)
LEMMA StragglersSplit ==
    ASSUME NEW P, Stragglers(P) # {}
    PROVE  Fragmented(P)
BY DEF Stragglers, Fragmented

(* An alert is raised for what is apart, no earlier than confirm_ms after   *)
(* it was first seen apart, and for a tourist only once.                    *)
LEMMA RaisedFacts ==
    ASSUME NEW t, NEW F, NEW s \in Raised(t, F)
    PROVE  s \in F /\ Outlasted(t, F, s) /\ (s # TheGroup => s \notin alerted)
BY DEF Raised

LEMMA SinceType ==
    ASSUME NEW t \in Nat, NEW F, Typed
    PROVE  Since(t, F) \in [Subjects -> Nat]
BY DEF Since, Typed

LEMMA RaisedIsConfirmed ==
    ASSUME NEW t \in Nat, NEW F, NEW s \in Raised(t, F), s \in Subjects, now < t, Typed, Clocked
    PROVE  t - together[s] > cfg.confirm
<1>1. s \in F /\ t - Since(t, F)[s] >= cfg.confirm
      BY RaisedFacts DEF Outlasted
<1>2. cfg.confirm \in Nat
      BY CohesionAssumption DEF CohesionAssumption, Typed
<1>3. CASE s \in apart
      <2>1. Since(t, F)[s] = since[s] /\ together[s] < since[s]
            BY <1>1, <1>3 DEF Since, Clocked
      <2> QED BY <1>1, <1>2, <2>1 DEF Typed
<1>4. CASE s \notin apart
      <2>1. Since(t, F)[s] = t /\ together[s] <= now
            BY <1>1, <1>4 DEF Since, Clocked
      <2> QED BY <1>1, <1>2, <2>1 DEF Typed
<1> QED BY <1>3, <1>4

-----------------------------------------------------------------------------
(* A pass that looks at the party and finds F apart, stragglers only if the *)
(* group is fragmented.                                                     *)

Pass(t, F) ==
    /\ F \cap Users # {} => TheGroup \in F
    /\ apart' = F
    /\ since' = Since(t, F)
    /\ alerted' = Alerted(t, F)
    /\ unsettled' = [s \in Subjects |->
                        Settled(F)[s] + (IF s \in Raised(t, F) THEN 1 ELSE 0)]
    /\ together' = [s \in Subjects |-> IF s \in F THEN together[s] ELSE t]
    /\ warned' = (warned \cup Raised(t, F)) \cap F
    /\ carried' = IF Rejoined(F) THEN {} ELSE carried

LEMMA LookAtPartyIsPass ==
    ASSUME NEW t, LookAtParty(t)
    PROVE  \E F : Pass(t, F)
<1> DEFINE F(P) == Stragglers(P) \cup (IF Fragmented(P) THEN {TheGroup} ELSE {})
<1>1. PICK P : /\ apart' = F(P)
               /\ since' = Since(t, F(P))
               /\ alerted' = Alerted(t, F(P))
               /\ unsettled' = [s \in Subjects |->
                                   Settled(F(P))[s] + (IF s \in Raised(t, F(P)) THEN 1 ELSE 0)]
               /\ together' = [s \in Subjects |-> IF s \in F(P) THEN together[s] ELSE t]
               /\ warned' = (warned \cup Raised(t, F(P))) \cap F(P)
               /\ carried' = IF Rejoined(F(P)) THEN {} ELSE carried
      BY Zenon DEF LookAtParty
<1>2. F(P) \cap Users # {} => TheGroup \in F(P)
      <2>1. F(P) \cap Users # {} => Stragglers(P) # {} 
            BY SubjectsFact
      <2> QED BY <2>1, StragglersSplit
<1> HIDE DEF F
<1> QED BY <1>1, <1>2, Zenon DEF Pass

(* What a pass at time t keeps of the invariant. *)
LEMMA PassKeepsInvariant ==
    ASSUME NEW t \in Nat, NEW F, IInv, now < t, now' = t, UNCHANGED cfg, Pass(t, F)
    PROVE  IInv'
<1>1. Typed'
      <2>1. since' \in [Subjects -> Nat]
            BY SinceType DEF IInv, Pass
      <2>2. Settled(F) \in [Subjects -> Nat]
            BY DEF Settled, IInv, Typed
      <2>3. unsettled' \in [Subjects -> Nat]
            BY <2>2 DEF Pass
      <2>4. together' \in [Subjects -> Nat]
            BY DEF Pass, IInv, Typed
      <2> QED BY <2>1, <2>3, <2>4 DEF Typed, IInv
<1>2. Clocked'
      <2>1. \A s \in Subjects : together'[s] <= t
            BY DEF Pass, IInv, Typed, Clocked
      <2>2. ASSUME NEW s \in F \cap Subjects
            PROVE  together'[s] < since'[s] /\ since'[s] <= t
            <3>1. together'[s] = together[s] /\ since'[s] = Since(t, F)[s]
                  BY DEF Pass
            <3>2. Since(t, F)[s] = IF s \in apart THEN since[s] ELSE t
                  BY DEF Since
            <3> QED BY <3>1, <3>2 DEF IInv, Typed, Clocked
      <2> QED BY <2>1, <2>2 DEF Clocked, Pass
<1>3. Remembered'
      BY DEF Remembered, Pass, Alerted, IInv
<1>4. SettledWhenWhole'
      <2> SUFFICES ASSUME TheGroup \notin F, NEW s \in Subjects, unsettled'[s] > 0
                   PROVE  s \in carried'
          BY DEF SettledWhenWhole, Pass
      <2>1. s \notin F
            BY SubjectsFact DEF Pass, Subjects
      <2>2. unsettled'[s] = Settled(F)[s]
            <3>1. s \notin Raised(t, F)
                  BY <2>1, RaisedFacts
            <3>2. unsettled'[s] = Settled(F)[s] + 0
                  BY <3>1 DEF Pass
            <3>3. Settled(F)[s] \in Nat
                  BY DEF Settled, IInv, Typed
            <3> QED BY <3>2, <3>3
      <2>3. CASE TheGroup \in apart
            BY <2>2, <2>3 DEF Settled, Rejoined
      <2>4. CASE TheGroup \notin apart
            BY <2>2, <2>4 DEF Settled, Rejoined, IInv, SettledWhenWhole, Pass
      <2> QED BY <2>3, <2>4
<1> QED BY <1>1, <1>2, <1>3, <1>4 DEF IInv

LEMMA TooFewKeepsInvariant ==
    ASSUME NEW t \in Nat, IInv, now < t, now' = t, UNCHANGED cfg, LookAtTooFew(t)
    PROVE  IInv'
<1>1. Typed'
      BY DEF Typed, IInv, LookAtTooFew
<1>2. Clocked'
      BY SubjectsFact DEF Clocked, Typed, IInv, LookAtTooFew, Subjects
<1>3. Remembered' /\ SettledWhenWhole'
      BY SubjectsFact DEF Remembered, SettledWhenWhole, IInv, LookAtTooFew
<1> QED BY <1>1, <1>2, <1>3 DEF IInv

-----------------------------------------------------------------------------
(* The invariant.                                                            *)

LEMMA InitInvariant == Init => IInv
BY SubjectsFact DEF Init, IInv, Typed, Clocked, Remembered, SettledWhenWhole

LEMMA RebuildKeepsInvariant ==
    ASSUME IInv, Rebuild, cfg' \in Thresholds
    PROVE  IInv'
<1>1. Typed'
      BY DEF Typed, IInv, Rebuild
<1>2. Clocked' /\ Remembered' /\ SettledWhenWhole'
      BY DEF Clocked, Remembered, SettledWhenWhole, Typed, IInv, Rebuild
<1> QED BY <1>1, <1>2 DEF IInv

LEMMA TickKeepsInvariant == IInv /\ Tick => IInv'
<1> SUFFICES ASSUME IInv, Tick PROVE IInv'
    OBVIOUS
<1>1. PICK t \in now + 1 .. now + Gap :
          /\ now' = t
          /\ UNCHANGED group
          /\ \/ LookAtTooFew(t) \/ LookAtParty(t)
             \/ UNCHANGED <<record, unsettled, together, warned, carried>>
      BY DEF Tick
<1>2. t \in Nat /\ now < t /\ UNCHANGED cfg
      BY <1>1, CohesionAssumption DEF IInv, Typed, group, CohesionAssumption
<1>3. CASE LookAtTooFew(t)
      BY <1>1, <1>2, <1>3, TooFewKeepsInvariant
<1>4. CASE LookAtParty(t)
      <2>1. PICK F : Pass(t, F)
            BY <1>4, LookAtPartyIsPass
      <2> QED BY <1>1, <1>2, <2>1, PassKeepsInvariant
<1>5. CASE UNCHANGED <<record, unsettled, together, warned, carried>>
      <2>1. Typed' /\ Clocked'
            BY <1>1, <1>2, <1>5 DEF record, Typed, Clocked, IInv
      <2>2. Remembered' /\ SettledWhenWhole'
            BY <1>5 DEF record, Remembered, SettledWhenWhole, IInv
      <2> QED BY <2>1, <2>2 DEF IInv
<1> QED BY <1>1, <1>3, <1>4, <1>5

LEMMA StepKeepsInvariant == IInv /\ [Next]_vars => IInv'
<1> SUFFICES ASSUME IInv, [Next]_vars PROVE IInv'
    OBVIOUS
<1> DEFINE Quiet == UNCHANGED <<now, cfg, record, unsettled, together, warned, carried>>
<1>1. ASSUME Quiet PROVE IInv'
      BY <1>1 DEF record, IInv, Typed, Clocked, Remembered, SettledWhenWhole
<1>2. CASE Tick
      BY <1>2, TickKeepsInvariant
<1>3. ASSUME NEW u \in Users, NEW p \in Places, Report(u, p) PROVE IInv'
      BY <1>1, <1>3 DEF Report, group
<1>4. ASSUME NEW u \in Users, GoOffline(u) \/ StopSharing(u) PROVE IInv'
      <2>1. CASE GoOffline(u)
            BY <1>1, <2>1 DEF GoOffline, group
      <2>2. CASE StopSharing(u)
            BY <1>1, <2>2, RebuildKeepsInvariant DEF StopSharing, group, history, IInv, Typed
      <2> QED BY <1>4, <2>1, <2>2
<1>5. ASSUME NEW u \in Users, AddMember(u) \/ RemoveMember(u) PROVE IInv'
      BY <1>5, RebuildKeepsInvariant DEF AddMember, RemoveMember, IInv, Typed
<1>6. ASSUME NEW c \in Thresholds, SetGroupThresholds(c) PROVE IInv'
      BY <1>6, RebuildKeepsInvariant DEF SetGroupThresholds
<1>7. ASSUME NEW s \in Subjects, ResolveAlert(s) PROVE IInv'
      <2>1. Typed'
            BY <1>7 DEF ResolveAlert, IInv, Typed, group, record, history
      <2>2. Clocked' /\ Remembered'
            BY <1>7 DEF ResolveAlert, IInv, Clocked, Remembered, record, history
      <2>3. SettledWhenWhole'
            BY <1>7 DEF ResolveAlert, IInv, Typed, SettledWhenWhole, record, history
      <2> QED BY <2>1, <2>2, <2>3 DEF IInv
<1>8. CASE UNCHANGED vars
      BY <1>1, <1>8 DEF vars, group, history
<1> QED BY <1>2, <1>3, <1>4, <1>5, <1>6, <1>7, <1>8 DEF Next

LEMMA Invariant == Spec => []IInv
BY InitInvariant, StepKeepsInvariant, PTL DEF Spec

-----------------------------------------------------------------------------
(* What follows from it.                                                     *)

(* The only steps that raise an alert are passes that look at the party. *)
LEMMA AlertsComeFromPasses ==
    ASSUME IInv, [Next]_vars, NEW s \in Subjects, unsettled'[s] > unsettled[s]
    PROVE  \E t, F : t \in Nat /\ now < t /\ now' = t /\ s \in Raised(t, F)
<1>1. Tick
      <2>1. \A r \in Subjects : unsettled[r] \in Nat
            BY DEF IInv, Typed
      <2>2. ~UNCHANGED unsettled
            BY <2>1
      <2>3. ASSUME NEW r \in Subjects, ResolveAlert(r) PROVE FALSE
            <3>1. unsettled' = [unsettled EXCEPT ![r] = @ - 1]
                  BY <2>3 DEF ResolveAlert
            <3> QED BY <3>1, <2>1 DEF IInv, Typed
      <2> QED BY <2>2, <2>3 DEF Next, vars, Report, GoOffline, StopSharing, AddMember, RemoveMember,
                                SetGroupThresholds, Rebuild
<1>2. PICK t \in now + 1 .. now + Gap :
          now' = t /\ (LookAtTooFew(t) \/ LookAtParty(t) \/ UNCHANGED unsettled)
      BY <1>1 DEF Tick
<1>3. t \in Nat /\ now < t
      BY CohesionAssumption DEF IInv, Typed, CohesionAssumption
<1>4. unsettled[s] \in Nat /\ ~UNCHANGED unsettled
      BY DEF IInv, Typed
<1>5. PICK F : Pass(t, F)
      BY <1>2, <1>4, LookAtPartyIsPass DEF LookAtTooFew
<1>6. s \in Raised(t, F)
      <2> SUFFICES ASSUME s \notin Raised(t, F) PROVE FALSE
          OBVIOUS
      <2>1. unsettled'[s] = Settled(F)[s] + 0
            <3>1. unsettled' = [r \in Subjects |->
                                  Settled(F)[r] + (IF r \in Raised(t, F) THEN 1 ELSE 0)]
                  BY <1>5 DEF Pass
            <3> QED BY <3>1
      <2>2. Settled(F)[s] \in {0, unsettled[s]}
            BY DEF Settled
      <2> QED BY <1>4, <2>1, <2>2
<1> QED BY <1>2, <1>3, <1>6

(* For any tourists, thresholds and moves: no alert is open while the       *)
(* monitor finds the group whole, but those older than its last change.     *)
THEOREM WholeGroupsAreSettled == Spec => []SettledWhenWhole
BY Invariant, PTL DEF IInv

(* For any tourists, thresholds and moves: run_cohesion raises an alert     *)
(* only for a separation that has outlasted confirm_ms.                     *)
THEOREM SeparationsAreConfirmed == Spec => SeparationIsConfirmed
<1>1. IInv /\ [Next]_vars =>
          [\A s \in Subjects :
              unsettled'[s] > unsettled[s] => now' - together[s] > cfg.confirm]_vars
      <2> SUFFICES ASSUME IInv, [Next]_vars, NEW s \in Subjects, unsettled'[s] > unsettled[s]
                   PROVE  now' - together[s] > cfg.confirm
          OBVIOUS
      <2>1. PICK t, F : t \in Nat /\ now < t /\ now' = t /\ s \in Raised(t, F)
            BY AlertsComeFromPasses
      <2> QED BY <2>1, RaisedIsConfirmed DEF IInv
<1> QED BY <1>1, Invariant, PTL DEF Spec, SeparationIsConfirmed

(* For any tourists, thresholds and moves: one separation of a tourist from *)
(* his group raises one alert.                                              *)
THEOREM SeparationsAlertOnce == Spec => OneAlertPerSeparation
<1>1. IInv /\ [Next]_vars =>
          [\A u \in Users : unsettled'[u] > unsettled[u] => u \notin warned]_vars
      <2> SUFFICES ASSUME IInv, [Next]_vars, NEW u \in Users, unsettled'[u] > unsettled[u]
                   PROVE  u \notin warned
          OBVIOUS
      <2>1. PICK t, F : u \in Raised(t, F)
            BY AlertsComeFromPasses, SubjectsFact
      <2>2. u \notin alerted
            BY <2>1, RaisedFacts, SubjectsFact
      <2> QED BY <2>2 DEF IInv, Remembered
<1> QED BY <1>1, Invariant, PTL DEF Spec, OneAlertPerSeparation


-----------------------------------------------------------------------------
(* A straggler is seen to be one, and then seen to have been one for long   *)
(* enough.                                                                  *)

(* The last pass; before the first one, a time before the start. *)
LastPass == due - Interval

(* The clock has not come to the next pass, unless every tick makes one or  *)
(* none has been made.                                                      *)
Paced ==
    /\ due \in Nat
    /\ due <= now + Interval
    /\ now < due \/ (now = due /\ (Interval = 0 \/ now = 0))

(* What the last pass saw of u, who has been away since strayed[u].         *)
Followed(u) ==
    /\ strayed[u] \in Nat /\ strayed[u] <= now
    /\ u \notin apart => LastPass <= strayed[u]
    /\ u \in apart => since[u] <= strayed[u] + Wait
    /\ u \in apart \ alerted => LastPass - since[u] < cfg.confirm

Looked == IInv /\ Paced /\ \A u \in Users : Followed(u)

(* No pass is later than Wait after the last, nor than Wait after the start. *)
LEMMA PassesAreSpaced ==
    ASSUME IInv, Paced, NEW t \in now + 1 .. now + Gap, due <= t
    PROVE  /\ t <= Wait \/ t <= LastPass + Wait
           /\ LastPass + Wait \in Int /\ Wait \in Nat \ {0}
BY CohesionAssumption DEF CohesionAssumption, IInv, Typed, Paced, LastPass, Wait

(* The strays depend on where the members are, and on nothing else.         *)
LEMMA StraysFact ==
    ASSUME UNCHANGED <<place, members, cfg>>
    PROVE  Strays' = Strays
<1>1. Watched' = Watched
      BY DEF Watched, seen
<1>2. Components' = Components
      BY DEF Watched, seen, Component, Components, Near, Distance
<1>3. Party' = Party
      BY <1>2 DEF Party
<1>4. \A P : Stragglers(P)' = Stragglers(P)
      BY <1>1 DEF Stragglers, Beyond
<1> QED BY <1>1, <1>3, <1>4 DEF Strays, TooFew

(* Whom a pass finds apart it also finds to be a stray; who is none after   *)
(* it is timed from it.                                                     *)
LEMMA PassFollows ==
    ASSUME IInv, Paced, NEW t \in now + 1 .. now + Gap, due <= t, now' = t, due' = NextPass(t),
           UNCHANGED <<place, group>>, Strayed, LookAtTooFew(t) \/ LookAtParty(t),
           NEW u \in Users, Followed(u)
    PROVE  Followed(u)'
<1>1. Strays' = Strays /\ UNCHANGED cfg
      BY StraysFact DEF group
<1>2. strayed'[u] = IF u \in Strays THEN strayed[u] ELSE t
      BY <1>1 DEF Strayed
<1>3. /\ now \in Nat /\ t \in Nat /\ now < t /\ cfg.confirm \in Nat /\ LastPass' = t
      /\ u # TheGroup /\ u \in Subjects /\ since[u] \in Nat
      BY CohesionAssumption, SubjectsFact DEF CohesionAssumption, IInv, Typed, LastPass, NextPass
<1>4. strayed'[u] \in Nat /\ strayed'[u] <= t /\ strayed[u] <= strayed'[u]
      BY <1>2, <1>3 DEF Followed
<1>5. CASE LookAtTooFew(t)
  <2>1. u \notin apart' /\ u \notin Strays
        BY <1>5 DEF LookAtTooFew, Strays
  <2> QED BY <1>2, <1>3, <1>4, <2>1 DEF Followed
<1>6. CASE LookAtParty(t)
  <2>1. PICK F : /\ apart' = F /\ since' = Since(t, F) /\ alerted' = Alerted(t, F)
                 /\ u \in F <=> u \in Strays
    <3>1. PICK P \in {Party} : \E F \in {Stragglers(P) \cup (IF Fragmented(P) THEN {TheGroup} ELSE {})} :
              apart' = F /\ since' = Since(t, F) /\ alerted' = Alerted(t, F)
          BY <1>6 DEF LookAtParty
    <3>2. Strays = Stragglers(P)
          BY <1>6, <3>1 DEF LookAtParty, Strays
    <3> QED BY <1>3, <3>1, <3>2
  <2>2. since'[u] = IF u \notin F THEN 0 ELSE IF u \in apart THEN since[u] ELSE t
        BY <1>3, <2>1 DEF Since
  <2>3. CASE u \notin F
        BY <1>2, <1>3, <1>4, <2>1, <2>3 DEF Followed
  <2>4. CASE u \in F
    <3>1. since'[u] <= strayed'[u] + Wait
      <4>1. strayed'[u] = strayed[u] /\ Wait \in Nat
            BY <1>2, <2>1, <2>4, PassesAreSpaced
      <4>2. CASE u \in apart
            BY <2>2, <2>4, <4>1, <4>2 DEF Followed
      <4>3. CASE u \notin apart
        <5>1. LastPass <= strayed[u] /\ strayed[u] \in Nat
              BY <4>3 DEF Followed
        <5>2. since'[u] = t
              BY <2>2, <2>4, <4>3
        <5>3. LastPass \in Int
              BY CohesionAssumption DEF CohesionAssumption, LastPass, Paced
        <5> QED BY <1>3, <4>1, <5>1, <5>2, <5>3, PassesAreSpaced
      <4> QED BY <4>2, <4>3
    <3>2. u \notin alerted' => LastPass' - since'[u] < cfg'.confirm
      <4> SUFFICES ASSUME u \notin alerted' PROVE t - since'[u] < cfg.confirm
          BY <1>1, <1>3
      <4>1. ~Outlasted(t, F, u)
            BY <1>3, <2>1, <2>4 DEF Alerted, Raised
      <4> QED BY <1>3, <2>1, <2>2, <4>1 DEF Outlasted
    <3> QED BY <1>3, <1>4, <2>1, <2>4, <3>1, <3>2 DEF Followed
  <2> QED BY <2>3, <2>4
<1> QED BY <1>5, <1>6

LEMMA TickIsLooked == Looked /\ Tick => Looked'
<1> SUFFICES ASSUME Looked, Tick PROVE Looked'
    OBVIOUS
<1>1. PICK t \in now + 1 .. now + Gap :
          /\ now' = t
          /\ IF t >= due
             THEN (LookAtTooFew(t) \/ LookAtParty(t)) /\ due' = NextPass(t)
             ELSE UNCHANGED <<due, record, unsettled, together, warned, carried>>
          /\ UNCHANGED <<place, group>>
          /\ Strayed
      BY DEF Tick
<1>2. t \in Nat /\ now < t /\ now \in Nat /\ due \in Nat
      BY CohesionAssumption DEF CohesionAssumption, Looked, IInv, Typed, Paced
<1>3. CASE t >= due
  <2>1. Paced'
        BY <1>1, <1>2, <1>3, CohesionAssumption DEF CohesionAssumption, NextPass, Paced
  <2>2. ASSUME NEW u \in Users PROVE Followed(u)'
        BY <1>1, <1>2, <1>3, PassFollows DEF Looked
  <2> QED BY <2>1, <2>2, TickKeepsInvariant DEF Looked
<1>4. CASE t < due
  <2>1. Paced'
        BY <1>1, <1>2, <1>4, CohesionAssumption DEF CohesionAssumption, Looked, Paced
  <2>2. ASSUME NEW u \in Users PROVE Followed(u)'
    <3>1. UNCHANGED <<due, apart, since, alerted, cfg>>
          BY <1>1, <1>2, <1>4 DEF record, group
    <3>2. strayed'[u] \in {strayed[u], t}
          BY <1>1 DEF Strayed
    <3>3. /\ strayed[u] \in Nat /\ strayed[u] <= now /\ since[u] \in Nat
          /\ LastPass \in Int /\ Wait \in Nat /\ LastPass' = LastPass
          BY <3>1, SubjectsFact, CohesionAssumption DEF CohesionAssumption, Looked, IInv, Typed, Followed,
                                                        Paced, LastPass, Wait
    <3>4. strayed'[u] \in Nat /\ strayed'[u] <= now' /\ strayed[u] <= strayed'[u]
          BY <1>1, <1>2, <3>2, <3>3
    <3> QED BY <3>1, <3>3, <3>4 DEF Looked, Followed
  <2> QED BY <2>1, <2>2, TickKeepsInvariant DEF Looked
<1> QED BY <1>2, <1>3, <1>4

LEMMA StepIsLooked == Looked /\ [Next]_vars => Looked'
<1> SUFFICES ASSUME Looked, [Next]_vars PROVE Looked'
    OBVIOUS
<1>1. IInv' /\ now \in Nat /\ due \in Nat
      BY StepKeepsInvariant DEF Looked, IInv, Typed, Paced
<1>2. ASSUME UNCHANGED <<now, due>> PROVE Paced'
      BY <1>2 DEF Looked, Paced
<1>3. ASSUME UNCHANGED <<now, due, apart, since, alerted, cfg>>,
             \A u \in Users : strayed'[u] \in {strayed[u], now}
      PROVE  Looked'
  <2>1. ASSUME NEW u \in Users PROVE Followed(u)'
    <3>1. /\ strayed[u] \in Nat /\ strayed[u] <= now /\ since[u] \in Nat
          /\ LastPass \in Int /\ Wait \in Nat /\ LastPass' = LastPass
          BY <1>1, <1>3, SubjectsFact, CohesionAssumption
          DEF CohesionAssumption, Looked, IInv, Typed, Followed, LastPass, Wait
    <3>2. strayed'[u] \in Nat /\ strayed'[u] <= now' /\ strayed[u] <= strayed'[u]
          BY <1>1, <1>3, <3>1
    <3> QED BY <1>1, <1>3, <3>1, <3>2 DEF Looked, Followed
  <2> QED BY <1>1, <1>2, <1>3, <2>1 DEF Looked
<1>4. ASSUME Rebuild PROVE Looked'
  <2>1. /\ now' = now /\ due' = due /\ apart' = {} /\ alerted' = {}
        /\ strayed' = [u \in Users |-> now]
        BY <1>4 DEF Rebuild
  <2>2. ASSUME NEW u \in Users PROVE Followed(u)'
    <3>1. LastPass' <= now
          BY <1>1, <2>1, CohesionAssumption DEF CohesionAssumption, Looked, Paced, LastPass
    <3> QED BY <1>1, <2>1, <3>1 DEF Followed
  <2> QED BY <1>1, <1>2, <2>1, <2>2 DEF Looked
<1>5. CASE Tick
      BY <1>5, TickIsLooked
<1>6. ASSUME NEW u \in Users, NEW p \in Places, Report(u, p) PROVE Looked'
      BY <1>3, <1>6 DEF Report, Strayed, group, record
<1>7. ASSUME NEW u \in Users, GoOffline(u) \/ StopSharing(u) \/ AddMember(u) \/ RemoveMember(u)
      PROVE  Looked'
  <2>1. CASE GoOffline(u)
        BY <1>3, <2>1 DEF GoOffline, Strayed, group, record
  <2>2. CASE ~Rebuild /\ StopSharing(u)
        BY <1>3, <2>2 DEF StopSharing, group, record, history
  <2> QED BY <1>4, <1>7, <2>1, <2>2 DEF StopSharing, AddMember, RemoveMember
<1>8. ASSUME NEW c \in Thresholds, SetGroupThresholds(c) PROVE Looked'
      BY <1>4, <1>8 DEF SetGroupThresholds
<1>9. ASSUME NEW s \in Subjects, ResolveAlert(s) PROVE Looked'
      BY <1>3, <1>9 DEF ResolveAlert, group, record, history
<1>10. CASE UNCHANGED vars
      BY <1>3, <1>10 DEF vars, group, record, history
<1> QED BY <1>5, <1>6, <1>7, <1>8, <1>9, <1>10 DEF Next

(* For any tourists, thresholds, intervals and moves: who stays away from   *)
(* the party, in an unchanged group, has his alert after confirm_ms and the *)
(* two passes of run_cohesion that see him go and see him gone.             *)
THEOREM StragglersAreAlerted == Spec => []StragglerIsAlertedInTime
<1>1. Init => Looked
      BY InitInvariant, CohesionAssumption
      DEF CohesionAssumption, Init, Looked, Paced, Followed, LastPass
<1>2. Looked => StragglerIsAlertedInTime
  <2> SUFFICES ASSUME Looked, NEW u \in Users, u \notin alerted
               PROVE  ~(now - strayed[u] >= cfg.confirm + 2 * Wait - 1)
      BY DEF StragglerIsAlertedInTime
  <2>1. /\ strayed[u] \in Nat /\ now \in Nat /\ due \in Nat /\ cfg.confirm \in Nat
        /\ since[u] \in Nat /\ Followed(u)
        BY CohesionAssumption, SubjectsFact
        DEF CohesionAssumption, Looked, IInv, Typed, Followed, Paced
  <2>2. /\ LastPass \in Int /\ Wait \in Nat \ {0}
        /\ now - LastPass <= Wait - 1 \/ now = 0
        BY <2>1, CohesionAssumption DEF CohesionAssumption, Looked, Paced, LastPass, Wait
  <2>3. CASE now = 0
        BY <2>1, <2>2, <2>3
  <2>4. CASE u \notin apart
        BY <2>1, <2>2, <2>4 DEF Followed
  <2>5. CASE u \in apart
        BY <2>1, <2>2, <2>5 DEF Followed
  <2> QED BY <2>3, <2>4, <2>5
<1> QED BY <1>1, <1>2, StepIsLooked, PTL DEF Spec

-----------------------------------------------------------------------------
(* Connectivity: the forest.                                                *)

(* Every set of natural numbers with an element has a least one.            *)
LEMMA LeastNatural ==
    ASSUME NEW T \in SUBSET Nat, T # {}
    PROVE  \E x \in T : \A y \in T : x <= y
<1> DEFINE R0 == {p \in Nat \X Nat : p[1] < p[2]}
<1>1. R0 = OpToRel(<, Nat)
      BY DEF OpToRel
<1>2. IsWellFoundedOn(R0, Nat)
      BY <1>1, NatLessThanWellFounded
<1> HIDE DEF R0
<1>3. PICK x \in T : \A y \in T : ~(<<y, x>> \in R0)
      BY <1>2, WFMin
<1>4. ASSUME NEW y \in T, y < x PROVE FALSE
  <2>1. <<y, x>> \in R0
        BY <1>4 DEF R0
  <2> QED BY <1>3, <2>1
<1> QED BY <1>4

(* What 0 has and each natural number passes on, all have.                  *)
LEMMA StepByStep ==
    ASSUME NEW T, 0 \in T, \A n \in Nat : n \in T => n + 1 \in T
    PROVE  Nat \subseteq T
<1> DEFINE left == Nat \ T
<1> SUFFICES ASSUME left # {} PROVE FALSE
    OBVIOUS
<1>1. PICK x \in left : \A y \in left : x <= y
  <2>1. left \in SUBSET Nat
        OBVIOUS
  <2> HIDE DEF left
  <2> QED BY <2>1, LeastNatural
<1>2. x \in Nat /\ x # 0
      OBVIOUS
<1>3. x - 1 \in Nat /\ ~(x <= x - 1) /\ (x - 1) + 1 = x
      BY <1>2
<1>4. x - 1 \notin left
      BY <1>1, <1>3
<1>5. x - 1 \in T
      BY <1>3, <1>4
<1> QED BY <1>3, <1>5

(* Functions defined step by step exist. *)
Iterates(g, x, f, n) == \A d \in 0..n : g[d] = IF d = 0 THEN x ELSE f[<<d, g[d - 1]>>]

LEMMA IterationExists ==
    ASSUME NEW S, NEW x \in S, NEW n \in Nat, NEW f \in [(1..n) \X S -> S]
    PROVE  \E g \in [0..n -> S] : Iterates(g, x, f, n)
<1> DEFINE T == {m \in Nat : m <= n => \E g \in [0..m -> S] : Iterates(g, x, f, m)}
<1>1. 0 \in T
  <2> DEFINE g == [d \in 0..0 |-> x]
  <2>1. g \in [0..0 -> S] /\ \A d \in 0..0 : g[d] = x /\ d = 0
        OBVIOUS
  <2> HIDE DEF g
  <2>2. Iterates(g, x, f, 0)
        BY <2>1 DEF Iterates
  <2> QED BY <2>1, <2>2
<1>2. ASSUME NEW m \in Nat, m \in T PROVE m + 1 \in T
  <2> SUFFICES ASSUME m + 1 <= n PROVE \E g \in [0..(m + 1) -> S] : Iterates(g, x, f, m + 1)
      OBVIOUS
  <2>1. PICK h \in [0..m -> S] : Iterates(h, x, f, m)
        BY <1>2
  <2> DEFINE g == [d \in 0..(m + 1) |-> IF d = m + 1 THEN f[<<m + 1, h[m]>>] ELSE h[d]]
  <2>2. f[<<m + 1, h[m]>>] \in S
    <3>1. h[m] \in S /\ m + 1 \in 1..n
          OBVIOUS
    <3> QED BY <3>1
  <2>3. g \in [0..(m + 1) -> S]
    <3>1. ASSUME NEW d \in 0..(m + 1), d # m + 1 PROVE h[d] \in S
      <4>1. d \in 0..m
            BY <3>1
      <4> QED BY <4>1
    <3> QED BY <2>2, <3>1
  <2>4. ASSUME NEW d \in 0..(m + 1) PROVE g[d] = IF d = 0 THEN x ELSE f[<<d, g[d - 1]>>]
    <3>1. CASE d = m + 1
      <4>1. m \in 0..(m + 1) /\ m # m + 1 /\ d - 1 = m /\ d # 0
            BY <3>1
      <4>2. g[m] = h[m] /\ g[d] = f[<<d, h[m]>>]
            BY <3>1, <4>1
      <4> HIDE DEF g
      <4> QED BY <4>1, <4>2
    <3>2. CASE d # m + 1
      <4>1. d \in 0..m /\ d - 1 # m + 1 /\ (d # 0 => d - 1 \in 0..(m + 1))
            BY <3>2
      <4>2. g[d] = h[d] /\ (d # 0 => g[d - 1] = h[d - 1])
            BY <3>2, <4>1
      <4> HIDE DEF g
      <4> QED BY <2>1, <4>1, <4>2 DEF Iterates
    <3> QED BY <3>1, <3>2
  <2> HIDE DEF g
  <2>5. Iterates(g, x, f, m + 1)
        BY <2>4 DEF Iterates
  <2> QED BY <2>3, <2>5
<1> HIDE DEF T
<1>3. Nat \subseteq T
      BY <1>1, <1>2, StepByStep
<1>4. n \in T
      BY <1>3
<1> QED BY <1>4 DEF T

-----------------------------------------------------------------------------
(* The steps of a walk.                                                     *)
Walks(w, f, n, x) == \A k \in 0..n : w[k] = IF k = 0 THEN x ELSE f[w[k - 1]]

LEMMA WalksAgree ==
    ASSUME NEW f, NEW x, NEW n \in Nat, NEW m \in Nat, NEW v, NEW w,
           Walks(v, f, n, x), Walks(w, f, m, x), n <= m
    PROVE  v[n] = w[n]
<1> DEFINE T == {k \in Nat : k <= n => v[k] = w[k]}
<1>1. 0 \in T
      BY DEF Walks
<1>2. ASSUME NEW k \in Nat, k \in T PROVE k + 1 \in T
  <2> SUFFICES ASSUME k + 1 <= n PROVE v[k + 1] = w[k + 1]
      OBVIOUS
  <2>1. v[k] = w[k]
        BY <1>2
  <2>2. k + 1 \in 0..n /\ k + 1 \in 0..m /\ k + 1 # 0 /\ (k + 1) - 1 = k
        OBVIOUS
  <2>3. v[k + 1] = f[v[k]]
        BY <2>2 DEF Walks
  <2>4. w[k + 1] = f[w[k]]
        BY <2>2 DEF Walks
  <2> QED BY <2>1, <2>3, <2>4
<1>3. n \in T
  <2> HIDE DEF T
  <2> QED BY <1>1, <1>2, StepByStep
<1>4. n <= n
      OBVIOUS
<1> QED BY <1>3, <1>4

LEMMA AfterWalks ==
    ASSUME NEW S, NEW f \in [S -> S], NEW x \in S, NEW n \in Nat
    PROVE  \E w : Walks(w, f, n, x) /\ w[n] = After(f, n, x) /\ w[n] \in S
<1> DEFINE h == [p \in (1..n) \X S |-> f[p[2]]]
           Solves(w) == w = [k \in 0..n |-> IF k = 0 THEN x ELSE f[w[k - 1]]]
           w == CHOOSE w : Solves(w)
<1>1. h \in [(1..n) \X S -> S]
  <2>1. \A p \in (1..n) \X S : f[p[2]] \in S
        OBVIOUS
  <2> QED BY <2>1
<1>2. PICK g \in [0..n -> S] : Iterates(g, x, h, n)
  <2> HIDE DEF h
  <2> QED BY <1>1, IterationExists
<1>3. \A k \in 0..n : g[k] = IF k = 0 THEN x ELSE f[g[k - 1]]
  <2> SUFFICES ASSUME NEW k \in 0..n, k # 0 PROVE g[k] = f[g[k - 1]]
      BY <1>2 DEF Iterates
  <2>1. k \in 1..n /\ k - 1 \in 0..n
        OBVIOUS
  <2>2. g[k - 1] \in S
        BY <2>1
  <2>3. h[<<k, g[k - 1]>>] = f[g[k - 1]]
        BY <2>1, <2>2
  <2> QED BY <1>2, <2>3 DEF Iterates
<1>4. Solves(g)
  <2> HIDE DEF h
  <2> QED BY <1>3
<1>5. Solves(w)
  <2> HIDE DEF Solves
  <2> QED BY <1>4
<1>6. After(f, n, x) = w[n]
      BY DEF After
<1> HIDE DEF w
<1>7. Walks(w, f, n, x) /\ DOMAIN w = 0..n
  <2>1. DOMAIN w = 0..n
        BY <1>5
  <2>2. \A k \in 0..n : w[k] = IF k = 0 THEN x ELSE f[w[k - 1]]
        BY <1>5
  <2> QED BY <2>1, <2>2 DEF Walks
<1> DEFINE T == {k \in Nat : k <= n => w[k] \in S}
<1>8. 0 \in T
      BY <1>7 DEF Walks
<1>9. ASSUME NEW k \in Nat, k \in T PROVE k + 1 \in T
  <2> SUFFICES ASSUME k + 1 <= n PROVE w[k + 1] \in S
      OBVIOUS
  <2>1. w[k] \in S
        BY <1>9
  <2>2. k + 1 \in 0..n /\ k + 1 # 0 /\ (k + 1) - 1 = k
        OBVIOUS
  <2>3. w[k + 1] = f[w[k]]
        BY <1>7, <2>2 DEF Walks
  <2> QED BY <2>1, <2>3
<1>10. Nat \subseteq T
  <2> HIDE DEF T
  <2> QED BY <1>8, <1>9, StepByStep
<1>11. \A k \in 0..n : w[k] \in S
  <2> SUFFICES ASSUME NEW k \in 0..n PROVE w[k] \in S
      OBVIOUS
  <2>1. k \in T /\ k <= n
    <3> HIDE DEF T
    <3> QED BY <1>10
  <2> QED BY <2>1
<1>12. n \in 0..n
      OBVIOUS
<1> QED BY <1>6, <1>7, <1>11, <1>12

(* One more step goes one step further.                                     *)
LEMMA AfterSteps ==
    ASSUME NEW S, NEW f \in [S -> S], NEW x \in S, NEW n \in Nat
    PROVE  /\ After(f, 0, x) = x
           /\ After(f, n, x) \in S
           /\ After(f, n + 1, x) = f[After(f, n, x)]
<1>1. PICK v : Walks(v, f, n, x) /\ v[n] = After(f, n, x) /\ v[n] \in S
      BY AfterWalks
<1>2. PICK m \in Nat : m = n + 1 /\ n <= m /\ m \in 0..m /\ m # 0 /\ m - 1 = n
      OBVIOUS
<1>3. PICK w : Walks(w, f, m, x) /\ w[m] = After(f, m, x)
      BY AfterWalks
<1>4. PICK zero \in Nat : zero = 0 /\ zero \in 0..zero
      OBVIOUS
<1>5. PICK z : Walks(z, f, zero, x) /\ z[zero] = After(f, zero, x)
      BY AfterWalks
<1>6. z[zero] = x
      BY <1>4, <1>5 DEF Walks
<1>7. v[n] = w[n]
      BY <1>1, <1>2, <1>3, WalksAgree
<1>8. w[m] = f[w[n]]
      BY <1>2, <1>3 DEF Walks
<1> QED BY <1>1, <1>2, <1>3, <1>4, <1>5, <1>6, <1>7, <1>8

(* Powers of two.                                                           *)
LEMMA PowersOfTwo ==
    /\ Power(0) = 1
    /\ \A n \in Nat : Power(n) \in Nat /\ Power(n + 1) = 2 * Power(n)
<1>1. PICK f : f = [k \in Nat |-> 2 * k]
      OBVIOUS
<1>2. f \in [Nat -> Nat] /\ \A k \in Nat : f[k] = 2 * k
      BY <1>1
<1>3. \A n : Power(n) = After(f, n, 1)
      BY <1>1 DEF Power
<1>4. PICK one : one = 1
      OBVIOUS
<1>5. PICK N : N = Nat
      OBVIOUS
<1>6. f \in [N -> N] /\ one \in N
      BY <1>2, <1>4, <1>5
<1>7. ASSUME NEW n \in Nat
      PROVE  After(f, 0, one) = one /\ After(f, n, one) \in N /\ After(f, n + 1, one) = f[After(f, n, one)]
      BY <1>6, AfterSteps
<1>8. After(f, 0, one) = one
  <2>1. 0 \in Nat
        OBVIOUS
  <2> QED BY <1>7, <2>1
<1> QED BY <1>2, <1>3, <1>4, <1>5, <1>7, <1>8

-----------------------------------------------------------------------------
(* A forest s with the root r[x] over each x, k unions after the start.     *)
Class(r, x) == {y \in Elements : r[y] = r[x]}

Linked(C, J) ==
    \A T \in SUBSET C :
        T # {} /\ T # C => \E e \in J : e \cap T # {} /\ e \cap (C \ T) # {}

Shaped(s, r) ==
    /\ s = [parent |-> s.parent, rank |-> s.rank, size |-> s.size]
    /\ s.parent \in [Elements -> Elements] /\ s.rank \in [Elements -> Nat] /\ s.size \in [Elements -> Nat]
    /\ r \in [Elements -> Elements]
    /\ \A x \in Elements : s.parent[r[x]] = r[x] /\ r[s.parent[x]] = r[x] /\ (s.parent[x] = x => r[x] = x)

Ranked(s, r, k) ==
    \A x \in Elements : /\ s.parent[x] # x => s.rank[x] < s.rank[s.parent[x]]
                        /\ r[x] # x => s.rank[x] < s.rank[r[x]]
                        /\ s.rank[x] <= k

Sized(s, r) ==
    \A x \in Elements : /\ s.size[r[x]] = Cardinality(Class(r, x))
                        /\ Power(s.rank[r[x]]) <= s.size[r[x]]

Counted(r, c) == c = Cardinality({r[x] : x \in Elements})

Joined(r, J) ==
    /\ \A e \in J : \E x \in Elements : e \subseteq Class(r, x)
    /\ \A x \in Elements : Linked(Class(r, x), J)

Stands(s, r, J, k, c) == Shaped(s, r) /\ Ranked(s, r, k) /\ Sized(s, r) /\ Counted(r, c) /\ Joined(r, J)

(* Roots are their own.                                                     *)
LEMMA RootsAreRoots ==
    ASSUME NEW s, NEW r, Shaped(s, r), NEW x \in Elements
    PROVE  r[x] \in Elements /\ r[r[x]] = r[x]
BY DEF Shaped

(* The way up: a level of rank a step, until the root.                      *)
LEMMA TheWayUp ==
    ASSUME NEW s, NEW r, NEW k, Shaped(s, r), Ranked(s, r, k), NEW x \in Elements, NEW m \in Nat
    PROVE  /\ After(s.parent, m, x) \in Elements
           /\ r[After(s.parent, m, x)] = r[x]
           /\ After(s.parent, m, x) # r[x] => m <= s.rank[After(s.parent, m, x)]
<1> DEFINE at(n) == After(s.parent, n, x)
           T == {n \in Nat : r[at(n)] = r[x] /\ (at(n) # r[x] => n <= s.rank[at(n)])}
<1>1. s.parent \in [Elements -> Elements] /\ s.rank \in [Elements -> Nat]
      BY DEF Shaped
<1>2. ASSUME NEW n \in Nat
      PROVE  at(0) = x /\ at(n) \in Elements /\ at(n + 1) = s.parent[at(n)]
  <2>1. PICK f : f = s.parent /\ f \in [Elements -> Elements]
        BY <1>1
  <2>2. After(f, 0, x) = x /\ After(f, n, x) \in Elements /\ After(f, n + 1, x) = f[After(f, n, x)]
        BY <2>1, AfterSteps
  <2> QED BY <2>1, <2>2
<1> HIDE DEF at
<1>3. 0 \in T
  <2>1. 0 \in Nat
        OBVIOUS
  <2>2. at(0) = x
        BY <1>2, <2>1
  <2>3. s.rank[x] \in Nat
        BY <1>1
  <2> QED BY <2>2, <2>3
<1>4. ASSUME NEW n \in Nat, n \in T PROVE n + 1 \in T
  <2>1. PICK a \in Elements : a = at(n) /\ at(n + 1) = s.parent[a]
        BY <1>2
  <2>2. r[a] = r[x] /\ (a # r[x] => n <= s.rank[a])
        BY <1>4, <2>1
  <2>3. PICK b \in Elements : b = s.parent[a] /\ r[b] = r[a]
        BY <1>1 DEF Shaped
  <2>4. ASSUME b # r[x] PROVE n + 1 <= s.rank[b]
    <3>1. a # r[x]
          BY <2>2, <2>3, <2>4 DEF Shaped
    <3>2. b # a
          BY <2>2, <2>3, <3>1 DEF Shaped
    <3>3. s.rank[a] < s.rank[b] /\ s.rank[a] \in Nat /\ s.rank[b] \in Nat
          BY <1>1, <2>3, <3>2 DEF Ranked
    <3> QED BY <2>2, <3>1, <3>3
  <2> QED BY <2>1, <2>2, <2>3, <2>4
<1>5. m \in T
  <2> HIDE DEF T
  <2> QED BY <1>3, <1>4, StepByStep
<1> QED BY <1>2, <1>5 DEF at

(* Enough steps lead to the root.                                           *)
LEMMA TheRootIsReached ==
    ASSUME NEW s, NEW r, NEW k, Shaped(s, r), Ranked(s, r, k), NEW x \in Elements,
           NEW m \in Nat, s.rank[r[x]] <= m
    PROVE  After(s.parent, m, x) = r[x]
<1>1. PICK a \in Elements : a = After(s.parent, m, x) /\ r[a] = r[x] /\ (a # r[x] => m <= s.rank[a])
      BY TheWayUp
<1> SUFFICES ASSUME a # r[x] PROVE FALSE
    BY <1>1
<1>2. r[a] # a /\ r[a] \in Elements
      BY <1>1, RootsAreRoots
<1>3. s.rank[a] < s.rank[r[a]] /\ s.rank[a] \in Nat /\ s.rank[r[a]] \in Nat
      BY <1>2 DEF Ranked, Shaped
<1> QED BY <1>1, <1>3

-----------------------------------------------------------------------------
(* Hang, on a forest. *)
Hung(s, low, high) ==
    [parent |-> [s.parent EXCEPT ![low] = high],
     rank   |-> [s.rank EXCEPT ![high] = IF s.rank[low] = s.rank[high] THEN s.rank[high] + 1 ELSE s.rank[high]],
     size   |-> [s.size EXCEPT ![high] = s.size[high] + s.size[low]]]

Reroot(r, low, high) == [x \in Elements |-> IF r[x] = low THEN high ELSE r[x]]

(* Two roots, the first to go below the second. *)
Fits(s, r, low, high) ==
    /\ low \in Elements /\ high \in Elements /\ low # high
    /\ r[low] = low /\ r[high] = high /\ s.rank[low] <= s.rank[high]

LEMMA HungKeepsShape ==
    ASSUME NEW s, NEW r, NEW low, NEW high, Shaped(s, r), Fits(s, r, low, high)
    PROVE  Shaped(Hung(s, low, high), Reroot(r, low, high))
<1> DEFINE t == Hung(s, low, high)
           q == Reroot(r, low, high)
<1>1. /\ t = [parent |-> t.parent, rank |-> t.rank, size |-> t.size]
      /\ t.parent = [s.parent EXCEPT ![low] = high]
      /\ t.rank = [s.rank EXCEPT ![high] = IF s.rank[low] = s.rank[high] THEN s.rank[high] + 1 ELSE s.rank[high]]
      /\ t.size = [s.size EXCEPT ![high] = s.size[high] + s.size[low]]
      BY DEF Hung
<1>2. /\ s.parent \in [Elements -> Elements] /\ s.rank \in [Elements -> Nat] /\ s.size \in [Elements -> Nat]
      /\ r \in [Elements -> Elements] /\ low \in Elements /\ high \in Elements /\ low # high
      /\ r[low] = low /\ r[high] = high
      BY DEF Shaped, Fits
<1>3. q \in [Elements -> Elements] /\ \A x \in Elements : q[x] = IF r[x] = low THEN high ELSE r[x]
      BY <1>2 DEF Reroot
<1> HIDE DEF t, q
<1>4. t.parent \in [Elements -> Elements] /\ t.rank \in [Elements -> Nat] /\ t.size \in [Elements -> Nat]
      BY <1>1, <1>2
<1>5. ASSUME NEW x \in Elements
      PROVE  t.parent[q[x]] = q[x] /\ q[t.parent[x]] = q[x] /\ (t.parent[x] = x => q[x] = x)
  <2>1. /\ s.parent[r[x]] = r[x] /\ r[s.parent[x]] = r[x] /\ (s.parent[x] = x => r[x] = x)
        /\ s.parent[high] = high /\ r[x] \in Elements /\ s.parent[x] \in Elements
        BY <1>2 DEF Shaped
  <2>2. \A y \in Elements : t.parent[y] = IF y = low THEN high ELSE s.parent[y]
        BY <1>1, <1>2
  <2> QED BY <1>2, <1>3, <2>1, <2>2
<1>6. Shaped(t, q)
      BY <1>1, <1>3, <1>4, <1>5 DEF Shaped
<1> QED BY <1>6 DEF t, q

LEMMA HungKeepsRanks ==
    ASSUME NEW s, NEW r, NEW low, NEW high, NEW k \in Nat, Shaped(s, r), Fits(s, r, low, high), Ranked(s, r, k)
    PROVE  Ranked(Hung(s, low, high), Reroot(r, low, high), k + 1)
<1> DEFINE t == Hung(s, low, high)
           q == Reroot(r, low, high)
<1>1. /\ s.parent \in [Elements -> Elements] /\ s.rank \in [Elements -> Nat]
      /\ r \in [Elements -> Elements] /\ low \in Elements /\ high \in Elements /\ low # high
      /\ r[low] = low /\ r[high] = high /\ s.rank[low] <= s.rank[high]
      /\ s.parent[high] = high
      BY DEF Shaped, Fits
<1>2. /\ \A y \in Elements : t.parent[y] = IF y = low THEN high ELSE s.parent[y]
      /\ \A y \in Elements : y # high => t.rank[y] = s.rank[y]
      /\ t.rank[high] = IF s.rank[low] = s.rank[high] THEN s.rank[high] + 1 ELSE s.rank[high]
      /\ \A y \in Elements : q[y] = IF r[y] = low THEN high ELSE r[y]
      BY <1>1 DEF Hung, Reroot
<1> HIDE DEF t, q
<1>3. /\ t.rank[high] \in Nat /\ s.rank[high] <= t.rank[high] /\ s.rank[low] < t.rank[high]
      /\ t.rank[high] <= s.rank[high] + 1
      BY <1>1, <1>2
<1>4. ASSUME NEW x \in Elements
      PROVE  /\ t.parent[x] # x => t.rank[x] < t.rank[t.parent[x]]
             /\ q[x] # x => t.rank[x] < t.rank[q[x]]
             /\ t.rank[x] <= k + 1
  <2>1. /\ s.parent[x] # x => s.rank[x] < s.rank[s.parent[x]]
        /\ r[x] # x => s.rank[x] < s.rank[r[x]]
        /\ s.rank[x] <= k /\ s.rank[high] <= k /\ s.rank[x] \in Nat
        BY <1>1 DEF Ranked
  <2>2. CASE x = high
        BY <1>1, <1>2, <1>3, <2>1, <2>2
  <2>3. CASE x # high
    <3>1. t.rank[x] = s.rank[x]
          BY <1>2, <2>3
    <3>2. t.rank[x] <= k + 1
          BY <2>1, <3>1
    <3>3. t.parent[x] # x => t.rank[x] < t.rank[t.parent[x]]
      <4>1. CASE x = low
            BY <1>2, <1>3, <3>1, <4>1
      <4>2. CASE x # low
        <5>1. PICK p \in Elements : p = s.parent[x] /\ t.parent[x] = p
              BY <1>1, <1>2, <4>2
        <5>2. s.rank[p] \in Nat /\ s.rank[p] <= t.rank[p] /\ t.rank[p] \in Nat
              BY <1>1, <1>2, <1>3
        <5> QED BY <2>1, <3>1, <5>1, <5>2
      <4> QED BY <4>1, <4>2
    <3>4. q[x] # x => t.rank[x] < t.rank[q[x]]
      <4>1. CASE r[x] = low
        <5>1. q[x] = high
              BY <1>2, <4>1
        <5>2. s.rank[x] <= s.rank[low] /\ s.rank[low] \in Nat
              BY <1>1, <2>1, <4>1
        <5> QED BY <1>3, <2>1, <3>1, <5>1, <5>2
      <4>2. CASE r[x] # low
        <5>1. PICK p \in Elements : p = r[x] /\ q[x] = p
              BY <1>1, <1>2, <4>2
        <5>2. s.rank[p] \in Nat /\ s.rank[p] <= t.rank[p] /\ t.rank[p] \in Nat
              BY <1>1, <1>2, <1>3
        <5> QED BY <2>1, <3>1, <5>1, <5>2
      <4> QED BY <4>1, <4>2
    <3> QED BY <3>2, <3>3, <3>4
  <2> QED BY <2>2, <2>3
<1>5. Ranked(t, q, k + 1)
      BY <1>4 DEF Ranked
<1> QED BY <1>5 DEF t, q

(* The trees after a root went below another.                               *)
LEMMA ClassesMerge ==
    ASSUME NEW s, NEW r, NEW low, NEW high, Shaped(s, r), Fits(s, r, low, high), NEW x \in Elements
    PROVE  LET q == Reroot(r, low, high)
           IN  /\ r[x] \in {low, high} => q[x] = high /\ Class(q, x) = Class(r, low) \cup Class(r, high)
               /\ r[x] \notin {low, high} => q[x] = r[x] /\ Class(q, x) = Class(r, x)
<1> DEFINE q == Reroot(r, low, high)
<1>1. /\ low # high /\ r[low] = low /\ r[high] = high
      /\ \A y \in Elements : q[y] = IF r[y] = low THEN high ELSE r[y]
      BY DEF Fits, Reroot, Shaped
<1> HIDE DEF q
<1>2. ASSUME r[x] \in {low, high} PROVE q[x] = high /\ Class(q, x) = Class(r, low) \cup Class(r, high)
  <2>1. q[x] = high
        BY <1>1, <1>2
  <2>2. \A y \in Elements : q[y] = high <=> r[y] = low \/ r[y] = high
        BY <1>1
  <2> QED BY <1>1, <2>1, <2>2 DEF Class
<1>3. ASSUME r[x] \notin {low, high} PROVE q[x] = r[x] /\ Class(q, x) = Class(r, x)
  <2>1. q[x] = r[x]
        BY <1>1, <1>3
  <2>2. \A y \in Elements : q[y] = r[x] <=> r[y] = r[x]
        BY <1>1, <1>3
  <2> QED BY <2>1, <2>2 DEF Class
<1> QED BY <1>2, <1>3 DEF q

LEMMA ClassesAreFinite ==
    ASSUME NEW r, NEW x
    PROVE  IsFiniteSet(Class(r, x)) /\ Cardinality(Class(r, x)) \in Nat
<1>1. Class(r, x) \in SUBSET Elements
      BY DEF Class
<1>2. IsFiniteSet(Class(r, x))
      BY <1>1, DsuAssumption, FS_Subset
<1> QED BY <1>2, FS_CardinalityType

(* A raised rank is paid for by the size.                                   *)
LEMMA HungKeepsSizes ==
    ASSUME NEW s, NEW r, NEW low, NEW high, Shaped(s, r), Fits(s, r, low, high), Sized(s, r)
    PROVE  Sized(Hung(s, low, high), Reroot(r, low, high))
<1> DEFINE t == Hung(s, low, high)
           q == Reroot(r, low, high)
<1>1. /\ s.rank \in [Elements -> Nat] /\ s.size \in [Elements -> Nat]
      /\ r \in [Elements -> Elements] /\ low \in Elements /\ high \in Elements /\ low # high
      /\ r[low] = low /\ r[high] = high /\ s.rank[low] <= s.rank[high]
      BY DEF Shaped, Fits
<1>2. /\ \A y \in Elements : y # high => t.rank[y] = s.rank[y] /\ t.size[y] = s.size[y]
      /\ t.rank[high] = IF s.rank[low] = s.rank[high] THEN s.rank[high] + 1 ELSE s.rank[high]
      /\ t.size[high] = s.size[high] + s.size[low]
      BY <1>1 DEF Hung
<1>3. /\ s.size[low] = Cardinality(Class(r, low)) /\ s.size[high] = Cardinality(Class(r, high))
      /\ Power(s.rank[low]) <= s.size[low] /\ Power(s.rank[high]) <= s.size[high]
      BY <1>1 DEF Sized
<1>4. Cardinality(Class(r, low) \cup Class(r, high)) = s.size[high] + s.size[low]
  <2>1. Class(r, low) \cap Class(r, high) = {}
        BY <1>1 DEF Class
  <2>2. IsFiniteSet(Class(r, low)) /\ IsFiniteSet(Class(r, high))
        BY ClassesAreFinite
  <2>3. Cardinality(Class(r, low) \cup Class(r, high)) =
          Cardinality(Class(r, low)) + Cardinality(Class(r, high)) - Cardinality(Class(r, low) \cap Class(r, high))
        BY <2>2, FS_Union
  <2>4. Cardinality(Class(r, low) \cap Class(r, high)) = 0
        BY <2>1, FS_EmptySet
  <2> QED BY <1>1, <1>3, <2>3, <2>4
<1>5. Power(t.rank[high]) <= t.size[high]
  <2>1. PICK a \in Nat : a = s.rank[low]
        BY <1>1
  <2>2. PICK b \in Nat : b = s.rank[high]
        BY <1>1
  <2>3. Power(a) \in Nat /\ Power(b) \in Nat /\ Power(b + 1) = 2 * Power(b)
        BY PowersOfTwo
  <2>4. s.size[low] \in Nat /\ s.size[high] \in Nat
        BY <1>1
  <2>5. CASE a = b
    <3>1. Power(t.rank[high]) = 2 * Power(b)
          BY <1>2, <2>1, <2>2, <2>3, <2>5
    <3>2. Power(b) <= s.size[low] /\ Power(b) <= s.size[high]
          BY <1>3, <2>1, <2>2, <2>5
    <3> QED BY <1>2, <2>3, <2>4, <3>1, <3>2
  <2>6. CASE a # b
    <3>1. Power(t.rank[high]) = Power(b)
          BY <1>2, <2>1, <2>2, <2>6
    <3>2. Power(b) <= s.size[high]
          BY <1>3, <2>2
    <3> QED BY <1>2, <2>3, <2>4, <3>1, <3>2
  <2> QED BY <2>5, <2>6
<1>6. ASSUME NEW x \in Elements
      PROVE  t.size[q[x]] = Cardinality(Class(q, x)) /\ Power(t.rank[q[x]]) <= t.size[q[x]]
  <2>1. CASE r[x] \in {low, high}
    <3>1. q[x] = high /\ Class(q, x) = Class(r, low) \cup Class(r, high)
          BY <2>1, ClassesMerge
    <3> HIDE DEF t, q
    <3> QED BY <1>2, <1>4, <1>5, <3>1
  <2>2. CASE r[x] \notin {low, high}
    <3>1. q[x] = r[x] /\ Class(q, x) = Class(r, x)
          BY <2>2, ClassesMerge
    <3> HIDE DEF t, q
    <3>2. PICK y \in Elements : y = r[x] /\ y # high
          BY <1>1, <2>2
    <3>3. t.rank[y] = s.rank[y] /\ t.size[y] = s.size[y]
          BY <1>2, <3>2
    <3>4. s.size[y] = Cardinality(Class(r, x)) /\ Power(s.rank[y]) <= s.size[y]
          BY <3>2 DEF Sized
    <3> QED BY <3>1, <3>2, <3>3, <3>4
  <2> QED BY <2>1, <2>2
<1> HIDE DEF t, q
<1>7. Sized(t, q)
      BY <1>6 DEF Sized
<1> QED BY <1>7 DEF t, q

(* One root less.                                                           *)
LEMMA HungKeepsTheCount ==
    ASSUME NEW s, NEW r, NEW low, NEW high, NEW c, Shaped(s, r), Fits(s, r, low, high), Counted(r, c)
    PROVE  c \in Int /\ Counted(Reroot(r, low, high), c - 1)
<1> DEFINE q == Reroot(r, low, high)
           old == {r[x] : x \in Elements}
           new == {q[x] : x \in Elements}
<1>1. /\ r \in [Elements -> Elements] /\ low \in Elements /\ high \in Elements /\ low # high
      /\ r[low] = low /\ r[high] = high
      BY DEF Shaped, Fits
<1>2. \A y \in Elements : q[y] = IF r[y] = low THEN high ELSE r[y]
      BY <1>1 DEF Reroot
<1> HIDE DEF q
<1>3. new = old \ {low}
  <2>1. ASSUME NEW y \in new PROVE y \in old \ {low}
    <3>1. PICK x \in Elements : y = q[x]
          OBVIOUS
    <3>2. y = high \/ (y = r[x] /\ y # low)
          BY <1>2, <3>1
    <3> QED BY <1>1, <3>2
  <2>2. ASSUME NEW y \in old, y # low PROVE y \in new
    <3>1. PICK x \in Elements : y = r[x]
          OBVIOUS
    <3>2. q[x] = y
          BY <1>2, <2>2, <3>1
    <3> QED BY <3>2
  <2> QED BY <2>1, <2>2
<1>4. low \in old
      BY <1>1
<1>5. IsFiniteSet(old)
  <2>1. old \in SUBSET Elements
        BY <1>1
  <2> QED BY <2>1, DsuAssumption, FS_Subset
<1> HIDE DEF old, new
<1>6. Cardinality(old) \in Nat /\ Cardinality(new) = Cardinality(old) - 1
      BY <1>3, <1>4, <1>5, FS_CardinalityType, FS_RemoveElement
<1>7. c = Cardinality(old)
      BY DEF Counted, old
<1> QED BY <1>6, <1>7 DEF Counted, new, q

-----------------------------------------------------------------------------
(* More was joined, and the rest hangs together as it did.                  *)
LEMMA LinkedByMore ==
    ASSUME NEW C, NEW J, NEW K, J \subseteq K, Linked(C, J)
    PROVE  Linked(C, K)
BY DEF Linked

(* Two parts that hang together, and a union of one of each.                *)
LEMMA TwoMakeOne ==
    ASSUME NEW A, NEW B, NEW J, NEW e, Linked(A, J), Linked(B, J),
           NEW a \in A, NEW b \in B, a \in e, b \in e, e \in J
    PROVE  Linked(A \cup B, J)
<1> SUFFICES ASSUME NEW T \in SUBSET (A \cup B), T # {}, T # A \cup B
             PROVE  \E f \in J : f \cap T # {} /\ f \cap ((A \cup B) \ T) # {}
    BY DEF Linked
<1>1. CASE T \cap A # {} /\ T \cap A # A
  <2>1. PICK f \in J : f \cap (T \cap A) # {} /\ f \cap (A \ (T \cap A)) # {}
        BY <1>1 DEF Linked
  <2> QED BY <2>1
<1>2. CASE T \cap B # {} /\ T \cap B # B
  <2>1. PICK f \in J : f \cap (T \cap B) # {} /\ f \cap (B \ (T \cap B)) # {}
        BY <1>2 DEF Linked
  <2> QED BY <2>1
<1>3. CASE T \cap A = {} /\ T \cap B = B
  <2>1. b \in T /\ a \notin T
        BY <1>3
  <2> QED BY <2>1
<1>4. CASE T \cap A = A /\ T \cap B = {}
  <2>1. a \in T /\ b \notin T
        BY <1>4
  <2> QED BY <2>1
<1>5. ~(T \cap A = {} /\ T \cap B = {})
      OBVIOUS
<1>6. ~(T \cap A = A /\ T \cap B = B)
      OBVIOUS
<1> QED BY <1>1, <1>2, <1>3, <1>4, <1>5, <1>6

(* Only what was joined is together, and all of it.                         *)
LEMMA HungKeepsTheUnions ==
    ASSUME NEW s, NEW r, NEW low, NEW high, NEW J, NEW x \in Elements, NEW y \in Elements,
           Shaped(s, r), Fits(s, r, low, high), Joined(r, J), {r[x], r[y]} = {low, high}
    PROVE  Joined(Reroot(r, low, high), J \cup {{x, y}})
<1> DEFINE q == Reroot(r, low, high)
           K == J \cup {{x, y}}
<1>1. r[low] = low /\ r[high] = high /\ low \in Elements /\ high \in Elements
      BY DEF Fits
<1>2. PICK both : both = Class(r, low) \cup Class(r, high)
      OBVIOUS
<1>3. ASSUME NEW z \in Elements
      PROVE  /\ r[z] \in {low, high} => Class(q, z) = both
             /\ r[z] \notin {low, high} => Class(q, z) = Class(r, z)
             /\ Class(r, z) \subseteq Class(q, z)
  <2>1. /\ r[z] \in {low, high} => Class(q, z) = both
        /\ r[z] \notin {low, high} => Class(q, z) = Class(r, z)
        BY <1>2, ClassesMerge
  <2>2. r[z] \in {low, high} => Class(r, z) \subseteq both
        BY <1>1, <1>2 DEF Class
  <2> QED BY <2>1, <2>2
<1>4. x \in both /\ y \in both
      BY <1>1, <1>2 DEF Class
<1> HIDE DEF q
<1>5. ASSUME NEW e \in K PROVE \E z \in Elements : e \subseteq Class(q, z)
  <2>1. CASE e \in J
    <3>1. PICK z \in Elements : e \subseteq Class(r, z)
          BY <2>1 DEF Joined
    <3>2. Class(r, z) \subseteq Class(q, z)
          BY <1>3
    <3> QED BY <3>1, <3>2
  <2>2. CASE e = {x, y}
    <3>1. Class(q, x) = both
          BY <1>3
    <3> QED BY <1>4, <2>2, <3>1
  <2> QED BY <2>1, <2>2
<1>6. Linked(both, K)
  <2>1. \A z \in Elements : Linked(Class(r, z), K)
    <3>1. \A z \in Elements : Linked(Class(r, z), J)
          BY DEF Joined
    <3>2. J \subseteq K
          OBVIOUS
    <3> HIDE DEF K
    <3> QED BY <3>1, <3>2, LinkedByMore
  <2>2. Linked(Class(r, low), K) /\ Linked(Class(r, high), K)
        BY <1>1, <2>1
  <2>3. {x, y} \in K
        OBVIOUS
  <2>4. PICK e : e = {x, y}
        OBVIOUS
  <2>5. PICK A : A = Class(r, low)
        OBVIOUS
  <2>6. PICK B : B = Class(r, high)
        OBVIOUS
  <2>7. \/ x \in A /\ y \in B
        \/ y \in A /\ x \in B
        BY <1>1, <2>5, <2>6 DEF Class
  <2> HIDE DEF K
  <2>8. Linked(A \cup B, K)
        BY <2>2, <2>3, <2>4, <2>5, <2>6, <2>7, TwoMakeOne
  <2> QED BY <1>2, <2>5, <2>6, <2>8
<1>7. ASSUME NEW z \in Elements PROVE Linked(Class(q, z), K)
  <2>1. Linked(Class(r, z), K)
    <3>1. Linked(Class(r, z), J)
          BY DEF Joined
    <3>2. J \subseteq K
          OBVIOUS
    <3> HIDE DEF K
    <3> QED BY <3>1, <3>2, LinkedByMore
  <2> HIDE DEF K
  <2> QED BY <1>3, <1>6, <2>1
<1> HIDE DEF K
<1>8. Joined(q, K)
      BY <1>5, <1>7 DEF Joined
<1> QED BY <1>8 DEF q, K

(* The entry that takes it back.                                            *)
LEMMA HungIsUndone ==
    ASSUME NEW s, NEW r, NEW low, NEW high, Shaped(s, r), Fits(s, r, low, high)
    PROVE  Undone([child |-> low, parent |-> s.parent[low], root |-> high, rank |-> s.rank[high]],
                  Hung(s, low, high)) = s
<1> DEFINE u == [child |-> low, parent |-> s.parent[low], root |-> high, rank |-> s.rank[high]]
           t == Hung(s, low, high)
<1>1. /\ s.parent \in [Elements -> Elements] /\ s.rank \in [Elements -> Nat] /\ s.size \in [Elements -> Nat]
      /\ low \in Elements /\ high \in Elements /\ low # high
      /\ s = [parent |-> s.parent, rank |-> s.rank, size |-> s.size]
      BY DEF Shaped, Fits
<1>2. [t.parent EXCEPT ![u.child] = u.parent] = s.parent
      BY <1>1 DEF Hung
<1>3. [t.rank EXCEPT ![u.root] = u.rank] = s.rank
      BY <1>1 DEF Hung
<1>4. [t.size EXCEPT ![u.root] = t.size[u.root] - t.size[u.child]] = s.size
  <2>1. t.size = [s.size EXCEPT ![high] = s.size[high] + s.size[low]] /\ u.root = high /\ u.child = low
        BY DEF Hung
  <2>2. s.size[high] \in Nat /\ s.size[low] \in Nat
        BY <1>1
  <2>3. t.size[high] - t.size[low] = s.size[high]
        BY <1>1, <2>1, <2>2
  <2> QED BY <1>1, <2>1, <2>3
<1>5. Undone(u, t) = [parent |-> [t.parent EXCEPT ![u.child] = u.parent],
                      rank |-> [t.rank EXCEPT ![u.root] = u.rank],
                      size |-> [t.size EXCEPT ![u.root] = t.size[u.root] - t.size[u.child]]]
      BY DEF Undone
<1> HIDE DEF u, t
<1>6. Undone(u, t) = s
      BY <1>1, <1>2, <1>3, <1>4, <1>5
<1> QED BY <1>6 DEF u, t

-----------------------------------------------------------------------------
(* What the undo stack remembers: past[k] is the forest after the first k   *)
(* of the unions in force, and each entry leads from one to the one before. *)
Entries == [child : Elements, parent : Elements, root : Elements, rank : Nat]

Joins(d, k) == {d[i] : i \in 1..k}

Stood(f, d, k, c) == \E r : Stands(f, r, Joins(d, k), k, c)

PastIsKept(past, u, d, c) ==
    /\ \A k \in 0..Len(u) : Stood(past[k], d, k, c + (Len(u) - k))
    /\ \A k \in 1..Len(u) : Undone(u[k], past[k]) = past[k - 1]

DsuTypes ==
    /\ undo \in Seq(Entries) /\ done \in Seq(SUBSET Elements) /\ Len(done) = Len(undo)
    /\ components \in Int

DsuInv == DsuTypes /\ \E past : past[Len(undo)] = Forest /\ PastIsKept(past, undo, done, components)

(* Each element a tree of its own.                                          *)
LEMMA SinglesStand ==
    ASSUME NEW s, NEW d,
           s = [parent |-> [x \in Elements |-> x], rank |-> [x \in Elements |-> 0], size |-> [x \in Elements |-> 1]]
    PROVE  Stood(s, d, 0, Cardinality(Elements)) /\ Cardinality(Elements) \in Int
<1> DEFINE r == [x \in Elements |-> x]
<1>1. r \in [Elements -> Elements] /\ \A x \in Elements : r[x] = x
      OBVIOUS
<1>2. s.parent = r /\ s.rank = [x \in Elements |-> 0] /\ s.size = [x \in Elements |-> 1]
      OBVIOUS
<1>3. s = [parent |-> s.parent, rank |-> s.rank, size |-> s.size]
      OBVIOUS
<1> HIDE DEF r
<1>4. Shaped(s, r)
      BY <1>1, <1>2, <1>3 DEF Shaped
<1>5. Ranked(s, r, 0)
      BY <1>1, <1>2 DEF Ranked
<1>6. \A x \in Elements : Class(r, x) = {x}
      BY <1>1 DEF Class
<1>7. Sized(s, r)
  <2>1. \A x \in Elements : Cardinality(Class(r, x)) = 1
        BY <1>6, FS_Singleton
  <2>2. \A x \in Elements : s.size[r[x]] = 1 /\ s.rank[r[x]] = 0
        BY <1>1, <1>2
  <2> QED BY <2>1, <2>2, PowersOfTwo DEF Sized
<1>8. Counted(r, Cardinality(Elements))
  <2>1. {r[x] : x \in Elements} = Elements
        BY <1>1
  <2> QED BY <2>1 DEF Counted
<1>9. Joined(r, Joins(d, 0))
  <2>1. Joins(d, 0) = {}
        BY DEF Joins
  <2>2. \A x \in Elements : Linked(Class(r, x), Joins(d, 0))
        BY <1>6 DEF Linked
  <2> QED BY <2>1, <2>2 DEF Joined
<1>10. Cardinality(Elements) \in Int
      BY DsuAssumption, FS_CardinalityType
<1> QED BY <1>4, <1>5, <1>7, <1>8, <1>9, <1>10 DEF Stood, Stands

(* One union more.                                                          *)
LEMMA HungStands ==
    ASSUME NEW s, NEW r, NEW low, NEW high, NEW J, NEW k \in Nat, NEW c, NEW x \in Elements, NEW y \in Elements,
           Stands(s, r, J, k, c), Fits(s, r, low, high), {r[x], r[y]} = {low, high}
    PROVE  c \in Int /\ Stands(Hung(s, low, high), Reroot(r, low, high), J \cup {{x, y}}, k + 1, c - 1)
<1>1. Shaped(s, r) /\ Ranked(s, r, k) /\ Sized(s, r) /\ Counted(r, c) /\ Joined(r, J)
      BY DEF Stands
<1>2. Shaped(Hung(s, low, high), Reroot(r, low, high))
      BY <1>1, HungKeepsShape
<1>3. Ranked(Hung(s, low, high), Reroot(r, low, high), k + 1)
      BY <1>1, HungKeepsRanks
<1>4. Sized(Hung(s, low, high), Reroot(r, low, high))
      BY <1>1, HungKeepsSizes
<1>5. c \in Int /\ Counted(Reroot(r, low, high), c - 1)
      BY <1>1, HungKeepsTheCount
<1>6. Joined(Reroot(r, low, high), J \cup {{x, y}})
      BY <1>1, HungKeepsTheUnions
<1> QED BY <1>2, <1>3, <1>4, <1>5, <1>6 DEF Stands

(* The forest in force, its roots and what find answers.                    *)
LEMMA FindIsTheRoot ==
    ASSUME DsuInv
    PROVE  \E r : /\ Stands(Forest, r, Joins(done, Len(undo)), Len(undo), components)
                  /\ \A x \in Elements : Find(x) = r[x] /\ After(parent, rank[r[x]], x) = r[x]
<1>1. PICK past : past[Len(undo)] = Forest /\ PastIsKept(past, undo, done, components)
      BY DEF DsuInv
<1>2. PICK n \in Nat : n = Len(undo)
      BY DEF DsuInv, DsuTypes
<1>3. components \in Int
      BY DEF DsuInv, DsuTypes
<1>4. n \in 0..n /\ components + (n - n) = components
      BY <1>2, <1>3
<1>5. Stood(past[n], done, n, components)
      BY <1>1, <1>2, <1>4 DEF PastIsKept
<1>6. PICK r : Stands(Forest, r, Joins(done, n), n, components)
      BY <1>1, <1>2, <1>5 DEF Stood
<1>7. Shaped(Forest, r) /\ Ranked(Forest, r, n)
      BY <1>6 DEF Stands
<1>8. Forest.parent = parent /\ Forest.rank = rank
      BY DEF Forest
<1>9. ASSUME NEW x \in Elements
      PROVE  Find(x) = r[x] /\ After(parent, rank[r[x]], x) = r[x]
  <2>1. PICK m \in Nat : m = rank[r[x]] /\ m <= n
        BY <1>7, <1>8 DEF Shaped, Ranked
  <2>2. m <= m
        OBVIOUS
  <2>3. After(Forest.parent, m, x) = r[x]
        BY <1>7, <1>8, <2>1, <2>2, TheRootIsReached
  <2>4. After(Forest.parent, n, x) = r[x]
        BY <1>7, <1>8, <2>1, TheRootIsReached
  <2> QED BY <1>2, <1>8, <2>1, <2>3, <2>4 DEF Find
<1> QED BY <1>2, <1>6, <1>9

(* The newest first: back through the past.                                 *)
LEMMA TakenBackIsThePast ==
    ASSUME NEW past, past[Len(undo)] = Forest, PastIsKept(past, undo, done, components),
           undo \in Seq(Entries), NEW mark \in 0..Len(undo)
    PROVE  TakenBack(Forest, mark) = past[mark]
<1>1. PICK n \in Nat : n = Len(undo)
      OBVIOUS
<1>2. PICK m \in Nat : m = n - mark /\ m <= n /\ n - m = mark
  <2>1. mark \in 0..n
        BY <1>1
  <2>2. n - mark \in Nat /\ n - mark <= n /\ n - (n - mark) = mark
        BY <2>1
  <2> QED BY <2>2
<1> DEFINE Solves(b) == b = [k \in 0..m |-> IF k = 0 THEN Forest ELSE Undone(undo[(n + 1) - k], b[k - 1])]
           back == CHOOSE b : Solves(b)
           g == [k \in 0..m |-> past[n - k]]
<1>3. ASSUME NEW k \in 0..m, k # 0
      PROVE  past[n - k] = Undone(undo[(n + 1) - k], past[n - (k - 1)])
  <2>1. PICK i \in 1..n : i = (n + 1) - k /\ i = n - (k - 1) /\ i - 1 = n - k
        BY <1>2, <1>3
  <2>2. Undone(undo[i], past[i]) = past[i - 1]
        BY <1>1 DEF PastIsKept
  <2> QED BY <2>1, <2>2
<1>4. Solves(g)
  <2>1. ASSUME NEW k \in 0..m
        PROVE  past[n - k] = IF k = 0 THEN Forest ELSE Undone(undo[(n + 1) - k], g[k - 1])
    <3>1. CASE k = 0
      <4>1. n - k = n
            BY <3>1
      <4> QED BY <1>1, <3>1, <4>1
    <3>2. CASE k # 0
      <4>1. k - 1 \in 0..m
            BY <3>2
      <4>2. g[k - 1] = past[n - (k - 1)]
            BY <4>1
      <4> HIDE DEF g
      <4> QED BY <1>3, <3>2, <4>2
    <3> QED BY <3>1, <3>2
  <2>2. g = [k \in 0..m |-> past[n - k]]
        OBVIOUS
  <2> HIDE DEF g
  <2> QED BY <2>1, <2>2
<1>5. Solves(back)
  <2> HIDE DEF Solves
  <2> QED BY <1>4
<1>6. TakenBack(Forest, mark) = back[m]
      BY <1>1, <1>2 DEF TakenBack
<1> HIDE DEF back
<1>7. \A k \in 0..m : back[k] = IF k = 0 THEN Forest ELSE Undone(undo[(n + 1) - k], back[k - 1])
      BY <1>5
<1> HIDE DEF Solves
<1> DEFINE T == {k \in Nat : k <= m => back[k] = past[n - k]}
<1>8. 0 \in T
  <2>1. n - 0 = n /\ 0 \in 0..m
        OBVIOUS
  <2> QED BY <1>1, <1>7, <2>1
<1>9. ASSUME NEW k \in Nat, k \in T PROVE k + 1 \in T
  <2> SUFFICES ASSUME k + 1 <= m PROVE back[k + 1] = past[n - (k + 1)]
      OBVIOUS
  <2>1. back[k] = past[n - k]
        BY <1>9
  <2>2. PICK j \in 0..m : j = k + 1 /\ j # 0 /\ j - 1 = k
        OBVIOUS
  <2>3. back[j] = Undone(undo[(n + 1) - j], back[j - 1])
        BY <1>7, <2>2
  <2>4. past[n - j] = Undone(undo[(n + 1) - j], past[n - (j - 1)])
        BY <1>3, <2>2
  <2> QED BY <2>1, <2>2, <2>3, <2>4
<1>10. m \in T
  <2> HIDE DEF T
  <2> QED BY <1>8, <1>9, StepByStep
<1>11. m <= m
      OBVIOUS
<1> QED BY <1>2, <1>6, <1>10, <1>11

-----------------------------------------------------------------------------
LEMMA DsuStarts == DsuInit => DsuInv
<1> SUFFICES ASSUME DsuInit PROVE DsuInv
    OBVIOUS
<1>1. DsuTypes
  <2>1. components \in Int
        BY SinglesStand DEF DsuInit
  <2> QED BY <2>1 DEF DsuInit, DsuTypes
<1>2. Forest = [parent |-> [x \in Elements |-> x], rank |-> [x \in Elements |-> 0], size |-> [x \in Elements |-> 1]]
      BY DEF DsuInit, Forest
<1>3. Stood(Forest, done, 0, components)
      BY <1>2, SinglesStand DEF DsuInit
<1>4. Len(undo) = 0 /\ components + (0 - 0) = components
      BY <1>1 DEF DsuInit, DsuTypes
<1> DEFINE past == [k \in 0..0 |-> Forest]
<1>5. past[0] = Forest
      OBVIOUS
<1> HIDE DEF past
<1>6. PastIsKept(past, undo, done, components)
      BY <1>3, <1>4, <1>5 DEF PastIsKept
<1> QED BY <1>1, <1>4, <1>5, <1>6 DEF DsuInv

(* What was joined before stays the same.                                   *)
LEMMA JoinsOfMore ==
    ASSUME NEW d \in Seq(SUBSET Elements), NEW e \in SUBSET Elements
    PROVE  /\ Append(d, e) \in Seq(SUBSET Elements) /\ Len(Append(d, e)) = Len(d) + 1
           /\ \A k \in 0..Len(d) : Joins(Append(d, e), k) = Joins(d, k)
           /\ Joins(Append(d, e), Len(d) + 1) = Joins(d, Len(d)) \cup {e}
<1>1. PICK n \in Nat : n = Len(d)
      OBVIOUS
<1>2. PICK a : a = Append(d, e)
      OBVIOUS
<1>3. a \in Seq(SUBSET Elements) /\ Len(a) = n + 1
      BY <1>1, <1>2
<1>4. (\A i \in 1..n : a[i] = d[i]) /\ a[n + 1] = e
      BY <1>1, <1>2
<1>5. ASSUME NEW k \in 0..n PROVE Joins(a, k) = Joins(d, k)
  <2>1. \A i \in 1..k : i \in 1..n
        OBVIOUS
  <2>2. \A i \in 1..k : a[i] = d[i]
        BY <1>4, <2>1
  <2> QED BY <2>2 DEF Joins
<1>6. Joins(a, n + 1) = Joins(d, n) \cup {e}
  <2>1. 1..(n + 1) = 1..n \cup {n + 1}
        OBVIOUS
  <2>2. Joins(a, n + 1) = {a[i] : i \in 1..n} \cup {a[n + 1]}
        BY <2>1 DEF Joins
  <2>3. {a[i] : i \in 1..n} = {d[i] : i \in 1..n}
        BY <1>4
  <2> QED BY <1>4, <2>2, <2>3 DEF Joins
<1> QED BY <1>1, <1>2, <1>3, <1>5, <1>6

(* One union more in force: the past gets longer.                           *)
LEMMA HangRemembers ==
    ASSUME DsuInv, NEW x \in Elements, NEW y \in Elements, NEW r, NEW low, NEW high,
           Stands(Forest, r, Joins(done, Len(undo)), Len(undo), components),
           Fits(Forest, r, low, high), {r[x], r[y]} = {low, high},
           Hang(low, high), done' = Append(done, {x, y})
    PROVE  DsuInv'
<1>1. DsuTypes
      BY DEF DsuInv
<1>2. PICK n \in Nat : n = Len(undo) /\ n = Len(done) /\ (n + 1) - 1 = n
      BY <1>1 DEF DsuTypes
<1>3. PICK past : past[n] = Forest /\ PastIsKept(past, undo, done, components)
      BY <1>2 DEF DsuInv
<1>4. PICK u : u = [child |-> low, parent |-> parent[low], root |-> high, rank |-> rank[high]]
      OBVIOUS
<1>5. Shaped(Forest, r)
      BY DEF Stands
<1>6. Forest.parent = parent /\ Forest.rank = rank /\ Forest.size = size
      BY DEF Forest
<1>7. u \in Entries
  <2>1. low \in Elements /\ high \in Elements /\ parent[low] \in Elements /\ rank[high] \in Nat
        BY <1>5, <1>6 DEF Shaped, Fits
  <2> QED BY <1>4, <2>1 DEF Entries
<1>8. undo' = Append(undo, u)
      BY <1>4 DEF Hang
<1>9. Forest' = Hung(Forest, low, high)
  <2>1. /\ parent' = [parent EXCEPT ![low] = high]
        /\ size' = [size EXCEPT ![high] = size[high] + size[low]]
        /\ rank' = [rank EXCEPT ![high] = IF rank[low] = rank[high] THEN rank[high] + 1 ELSE rank[high]]
        BY DEF Hang
  <2> QED BY <2>1 DEF Forest, Hung
<1>10. components' = components - 1 /\ components \in Int
       BY <1>1 DEF Hang, DsuTypes
<1>11. /\ undo' \in Seq(Entries) /\ Len(undo') = n + 1
       /\ \A k \in 1..n : undo'[k] = undo[k]
       /\ undo'[n + 1] = u
       BY <1>1, <1>2, <1>7, <1>8 DEF DsuTypes
<1>12. /\ done' \in Seq(SUBSET Elements) /\ Len(done') = n + 1
       /\ \A k \in 0..n : Joins(done', k) = Joins(done, k)
       /\ Joins(done', n + 1) = Joins(done, n) \cup {{x, y}}
  <2>1. PICK e \in SUBSET Elements : e = {x, y}
        OBVIOUS
  <2>2. done \in Seq(SUBSET Elements) /\ done' = Append(done, e)
        BY <1>1, <2>1 DEF DsuTypes
  <2>3. PICK d \in Seq(SUBSET Elements) : d = done /\ Len(d) = n
        BY <1>2, <2>2
  <2>4. /\ Append(d, e) \in Seq(SUBSET Elements) /\ Len(Append(d, e)) = Len(d) + 1
        /\ \A k \in 0..Len(d) : Joins(Append(d, e), k) = Joins(d, k)
        /\ Joins(Append(d, e), Len(d) + 1) = Joins(d, Len(d)) \cup {e}
        BY JoinsOfMore
  <2>5. done' = Append(d, e)
        BY <2>2, <2>3
  <2> HIDE DEF Joins
  <2> QED BY <2>1, <2>3, <2>4, <2>5
<1>13. DsuTypes'
       BY <1>10, <1>11, <1>12 DEF DsuTypes
<1>14. Stood(Forest', done', n + 1, components')
  <2>1. Stands(Hung(Forest, low, high), Reroot(r, low, high), Joins(done, n) \cup {{x, y}}, n + 1, components - 1)
        BY <1>2, HungStands
  <2> QED BY <1>9, <1>10, <1>12, <2>1 DEF Stood
<1>15. Undone(u, Forest') = Forest
       BY <1>4, <1>5, <1>6, <1>9, HungIsUndone
<1>16. PICK new : new = Forest'
       OBVIOUS
<1> DEFINE later == [k \in 0..(n + 1) |-> IF k = n + 1 THEN new ELSE past[k]]
<1>17. later[n + 1] = new /\ \A k \in 0..n : later[k] = past[k]
       OBVIOUS
<1> HIDE DEF later
<1>18. ASSUME NEW k \in 0..(n + 1) PROVE Stood(later[k], done', k, components' + ((n + 1) - k))
  <2>1. CASE k = n + 1
    <3>1. components' + ((n + 1) - k) = components'
          BY <1>10, <2>1
    <3> QED BY <1>14, <1>16, <1>17, <2>1, <3>1
  <2>2. CASE k # n + 1
    <3>1. k \in 0..n /\ components' + ((n + 1) - k) = components + (n - k)
          BY <1>10, <2>2
    <3>2. Stood(past[k], done, k, components + (n - k))
          BY <1>2, <1>3, <3>1 DEF PastIsKept
    <3>3. Joins(done', k) = Joins(done, k)
          BY <1>12, <3>1
    <3> QED BY <1>17, <3>1, <3>2, <3>3 DEF Stood
  <2> QED BY <2>1, <2>2
<1>19. ASSUME NEW k \in 1..(n + 1) PROVE Undone(undo'[k], later[k]) = later[k - 1]
  <2>1. CASE k = n + 1
    <3>1. n \in 0..n /\ k - 1 = n
          BY <2>1
    <3> QED BY <1>3, <1>11, <1>15, <1>16, <1>17, <2>1, <3>1
  <2>2. CASE k # n + 1
    <3>1. k \in 1..n /\ k \in 0..n /\ k - 1 \in 0..n
          BY <2>2
    <3>2. Undone(undo[k], past[k]) = past[k - 1]
          BY <1>2, <1>3, <3>1 DEF PastIsKept
    <3> QED BY <1>11, <1>17, <3>1, <3>2
  <2> QED BY <2>1, <2>2
<1>20. PastIsKept(later, undo', done', components')
       BY <1>11, <1>18, <1>19 DEF PastIsKept
<1> QED BY <1>11, <1>13, <1>16, <1>17, <1>20 DEF DsuInv

LEMMA UniteRemembers ==
    ASSUME DsuInv, NEW x \in Elements, NEW y \in Elements, Unite(x, y)
    PROVE  DsuInv'
<1>1. PICK r : /\ Stands(Forest, r, Joins(done, Len(undo)), Len(undo), components)
               /\ \A z \in Elements : Find(z) = r[z]
      BY FindIsTheRoot
<1>2. PICK a : a = r[x]
      OBVIOUS
<1>3. PICK b : b = r[y]
      OBVIOUS
<1>4. /\ a # b /\ done' = Append(done, {x, y})
      /\ IF rank[a] < rank[b] THEN Hang(a, b) ELSE Hang(b, a)
      BY <1>1, <1>2, <1>3 DEF Unite
<1>5. Shaped(Forest, r) /\ Forest.rank = rank
      BY <1>1 DEF Stands, Forest
<1>6. a \in Elements /\ r[a] = a /\ b \in Elements /\ r[b] = b
      BY <1>2, <1>3, <1>5, RootsAreRoots
<1>7. rank[a] \in Nat /\ rank[b] \in Nat
      BY <1>5, <1>6 DEF Shaped
<1>8. {r[x], r[y]} = {a, b} /\ {r[x], r[y]} = {b, a}
      BY <1>2, <1>3
<1>9. CASE rank[a] < rank[b]
  <2>1. Fits(Forest, r, a, b) /\ Hang(a, b)
        BY <1>4, <1>5, <1>6, <1>7, <1>9 DEF Fits
  <2> QED BY <1>1, <1>4, <1>8, <2>1, HangRemembers
<1>10. CASE ~(rank[a] < rank[b])
  <2>1. Fits(Forest, r, b, a) /\ Hang(b, a)
        BY <1>4, <1>5, <1>6, <1>7, <1>10 DEF Fits
  <2> QED BY <1>1, <1>4, <1>8, <2>1, HangRemembers
<1> QED BY <1>9, <1>10

(* A part of the past is in force again.                                    *)
LEMMA RollbackRemembers ==
    ASSUME DsuInv, NEW mark \in 0..(Len(undo) - 1), RollbackTo(mark)
    PROVE  DsuInv'
<1>1. DsuTypes
      BY DEF DsuInv
<1>2. PICK n \in Nat : n = Len(undo) /\ n = Len(done)
      BY <1>1 DEF DsuTypes
<1>3. mark \in Nat /\ mark \in 0..n /\ mark \in 0..Len(undo)
      BY <1>2
<1>4. PICK past : past[n] = Forest /\ PastIsKept(past, undo, done, components)
      BY <1>2 DEF DsuInv
<1>5. TakenBack(Forest, mark) = past[mark]
      BY <1>1, <1>2, <1>3, <1>4, TakenBackIsThePast DEF DsuTypes
<1>6. /\ parent' = past[mark].parent /\ rank' = past[mark].rank /\ size' = past[mark].size
      /\ components' = components + (n - mark)
      /\ undo' = SubSeq(undo, 1, mark) /\ done' = SubSeq(done, 1, mark)
      BY <1>2, <1>5 DEF RollbackTo
<1>7. Forest' = past[mark]
  <2>1. Stood(past[mark], done, mark, components + (n - mark))
        BY <1>2, <1>3, <1>4 DEF PastIsKept
  <2>2. PICK s : s = past[mark]
        OBVIOUS
  <2>3. s = [parent |-> s.parent, rank |-> s.rank, size |-> s.size]
        BY <2>1, <2>2 DEF Stood, Stands, Shaped
  <2> QED BY <1>6, <2>2, <2>3 DEF Forest
<1>8. /\ undo' \in Seq(Entries) /\ Len(undo') = mark
      /\ \A k \in 1..mark : undo'[k] = undo[k]
      BY <1>1, <1>2, <1>3, <1>6 DEF DsuTypes
<1>9. /\ done' \in Seq(SUBSET Elements) /\ Len(done') = mark
      /\ \A k \in 1..mark : done'[k] = done[k]
      BY <1>1, <1>2, <1>3, <1>6 DEF DsuTypes
<1>10. components \in Int /\ components' \in Int
       BY <1>1, <1>3, <1>6 DEF DsuTypes
<1>11. DsuTypes'
       BY <1>8, <1>9, <1>10 DEF DsuTypes
<1>12. ASSUME NEW k \in 0..mark PROVE Stood(past[k], done', k, components' + (mark - k))
  <2>1. k \in 0..n /\ components' + (mark - k) = components + (n - k)
        BY <1>3, <1>6, <1>10
  <2>2. Stood(past[k], done, k, components + (n - k))
        BY <1>2, <1>4, <2>1 DEF PastIsKept
  <2>3. Joins(done', k) = Joins(done, k)
    <3>1. \A i \in 1..k : i \in 1..mark
          BY <1>3
    <3>2. \A i \in 1..k : done'[i] = done[i]
          BY <1>9, <3>1
    <3> QED BY <3>2 DEF Joins
  <2> QED BY <2>1, <2>2, <2>3 DEF Stood
<1>13. ASSUME NEW k \in 1..mark PROVE Undone(undo'[k], past[k]) = past[k - 1]
  <2>1. k \in 1..n
        BY <1>3
  <2> QED BY <1>2, <1>4, <1>8, <2>1 DEF PastIsKept
<1>14. PastIsKept(past, undo', done', components')
       BY <1>8, <1>12, <1>13 DEF PastIsKept
<1> QED BY <1>7, <1>8, <1>11, <1>14 DEF DsuInv

(* What was joined is one tree, and nothing else is.                        *)
LEMMA DsuInvSaysTrue ==
    ASSUME DsuInv
    PROVE  ForestIsTrue
<1>1. PICK r : /\ Stands(Forest, r, Joins(done, Len(undo)), Len(undo), components)
               /\ \A x \in Elements : Find(x) = r[x] /\ After(parent, rank[r[x]], x) = r[x]
      BY FindIsTheRoot
<1>2. PICK J : J = Joins(done, Len(undo))
      OBVIOUS
<1>3. Shaped(Forest, r) /\ Sized(Forest, r) /\ Counted(r, components) /\ Joined(r, J)
      BY <1>1, <1>2 DEF Stands
<1>4. Forest.parent = parent /\ Forest.rank = rank /\ Forest.size = size
      BY DEF Forest
<1>5. J = {done[i] : i \in DOMAIN done}
  <2>1. DOMAIN done = 1..Len(undo)
        BY DEF DsuInv, DsuTypes
  <2> QED BY <1>2, <2>1 DEF Joins
<1>6. \A x \in Elements : TreeOf(x) = Class(r, x)
      BY <1>1 DEF TreeOf, Class
<1>7. \A i \in DOMAIN done : \E x \in Elements : done[i] \subseteq TreeOf(x)
  <2>1. \A e \in J : \E x \in Elements : e \subseteq Class(r, x)
        BY <1>3 DEF Joined
  <2> QED BY <1>5, <1>6, <2>1
<1>8. components = Cardinality({Find(x) : x \in Elements})
  <2>1. {Find(x) : x \in Elements} = {r[x] : x \in Elements}
        BY <1>1
  <2> QED BY <1>3, <2>1 DEF Counted
<1>9. ASSUME NEW x \in Elements
      PROVE  /\ Connected(TreeOf(x))
             /\ parent[Find(x)] = Find(x)
             /\ size[Find(x)] = Cardinality(TreeOf(x))
             /\ After(parent, rank[Find(x)], x) = Find(x)
             /\ Power(rank[Find(x)]) <= size[Find(x)]
  <2>1. Find(x) = r[x] /\ After(parent, rank[r[x]], x) = r[x] /\ TreeOf(x) = Class(r, x)
        BY <1>1, <1>6
  <2>2. Connected(Class(r, x))
    <3>1. PICK C : C = Class(r, x)
          OBVIOUS
    <3>2. Linked(C, J)
          BY <1>3, <3>1 DEF Joined
    <3>3. Connected(C)
          BY <1>5, <3>2 DEF Linked, Connected
    <3> QED BY <3>1, <3>3
  <2>3. parent[r[x]] = r[x]
        BY <1>3, <1>4 DEF Shaped
  <2>4. size[r[x]] = Cardinality(Class(r, x)) /\ Power(rank[r[x]]) <= size[r[x]]
        BY <1>3, <1>4 DEF Sized
  <2> QED BY <2>1, <2>2, <2>3, <2>4
<1> QED BY <1>7, <1>8, <1>9 DEF ForestIsTrue

(* After any unions and rollbacks, each to any mark, the forest joins what  *)
(* the unions still in force join and nothing else; its counts and sizes    *)
(* are theirs and its ranks bound the way up (RollbackDSU::unite and        *)
(* rollback_to), for any finite set of elements.                            *)
THEOREM ForestStaysTrue == DsuSpec => []ForestIsTrue
<1>1. DsuInit => DsuInv
      BY DsuStarts
<1>2. DsuInv /\ [DsuNext]_dsuVars => DsuInv'
  <2> SUFFICES ASSUME DsuInv, [DsuNext]_dsuVars PROVE DsuInv'
      OBVIOUS
  <2>1. CASE \E x, y \in Elements : Unite(x, y)
        BY <2>1, UniteRemembers
  <2>2. CASE \E mark \in 0..(Len(undo) - 1) : RollbackTo(mark)
        BY <2>2, RollbackRemembers
  <2>3. CASE UNCHANGED dsuVars
        BY <2>3 DEF dsuVars, DsuInv, DsuTypes, Forest
  <2> QED BY <2>1, <2>2, <2>3 DEF DsuNext
<1>3. DsuInv => ForestIsTrue
      BY DsuInvSaysTrue
<1> QED BY <1>1, <1>2, <1>3, PTL DEF DsuSpec

(***************************************************************************)
(* Evidence.  Level k of a tree of n leaves has a node for each 2^k of     *)
(* them, the last one for what is left (Node).  A proof that verifies      *)
(* climbs these levels: its hash at each of them is that of a node, and    *)
(* which one says where the leaf is (StepLeads, LevelBack).  A proof that  *)
(* is made holds the siblings along that very way (PlaceUp, GrowthWay).    *)
(***************************************************************************)
-----------------------------------------------------------------------------
(* Loops, halves and powers of two.                                         *)
LEMMA RoundsSteps ==
    ASSUME NEW S, NEW f \in [S -> S], NEW x \in S, NEW n \in Nat
    PROVE  /\ Rounds(f, 0, x) = x
           /\ Rounds(f, n, x) \in S
           /\ Rounds(f, n + 1, x) = f[Rounds(f, n, x)]
<1>1. \A k : Rounds(f, k, x) = After(f, k, x)
      BY DEF Rounds, After
<1>2. After(f, 0, x) = x /\ After(f, n, x) \in S /\ After(f, n + 1, x) = f[After(f, n, x)]
      BY AfterSteps
<1> QED BY <1>1, <1>2

LEMMA HalfFacts ==
    ASSUME NEW k \in Nat
    PROVE  /\ Half(k) \in Nat /\ Half(k) <= k /\ (k # 0 => Half(k) < k)
           /\ Odd(k) => k = 2 * Half(k) + 1
           /\ ~ Odd(k) => k = 2 * Half(k)
<1>1. Half(k) \in Nat /\ k % 2 \in 0..1 /\ k = 2 * Half(k) + (k % 2)
      BY DEF Half
<1> QED BY <1>1 DEF Odd

LEMMA OddHalf ==
    ASSUME NEW i \in Nat
    PROVE  /\ ~ Odd(2 * i) /\ Half(2 * i) = i
           /\ Odd(2 * i + 1) /\ Half(2 * i + 1) = i
BY DEF Odd, Half

Shifted(x, n) == Rounds([k \in Nat |-> Half(k)], n, x)

LEMMA ShiftedSteps ==
    ASSUME NEW x \in Nat, NEW n \in Nat
    PROVE  Shifted(x, 0) = x /\ Shifted(x, n) \in Nat /\ Shifted(x, n + 1) = Half(Shifted(x, n))
<1>1. PICK N : N = Nat
      OBVIOUS
<1>2. PICK f : f = [k \in Nat |-> Half(k)]
      OBVIOUS
<1>3. \A k \in Nat : Half(k) \in Nat
      BY HalfFacts
<1>4. f \in [N -> N] /\ \A k \in Nat : f[k] = Half(k)
      BY <1>1, <1>2, <1>3
<1>5. PICK y : y = x
      OBVIOUS
<1>6. \A k : Shifted(x, k) = Rounds(f, k, y)
      BY <1>2, <1>5 DEF Shifted
<1>7. f \in [N -> N] /\ y \in N
      BY <1>1, <1>4, <1>5
<1>8. Rounds(f, 0, y) = y /\ Rounds(f, n, y) \in N /\ Rounds(f, n + 1, y) = f[Rounds(f, n, y)]
      BY <1>7, RoundsSteps
<1> QED BY <1>1, <1>4, <1>5, <1>6, <1>8

LEMMA PowersGrow ==
    ASSUME NEW n \in Nat
    PROVE  Power(n) \in Nat /\ n < Power(n) /\ Power(n) # 0
<1> DEFINE T == {k \in Nat : k < Power(k)}
<1>1. 0 \in T
      BY PowersOfTwo
<1>2. ASSUME NEW k \in Nat, k \in T PROVE k + 1 \in T
  <2>1. PICK p \in Nat : p = Power(k) /\ Power(k + 1) = 2 * p
        BY PowersOfTwo
  <2>2. k < p
        BY <1>2, <2>1
  <2> QED BY <2>1, <2>2
<1>3. n \in T
  <2> HIDE DEF T
  <2> QED BY <1>1, <1>2, StepByStep
<1>4. Power(n) \in Nat
      BY PowersOfTwo
<1> QED BY <1>3, <1>4

(* What is left of x after n halvings.                                      *)
LEMMA ShiftedRange ==
    ASSUME NEW x \in Nat, NEW n \in Nat
    PROVE  Shifted(x, n) * Power(n) <= x /\ x < (Shifted(x, n) + 1) * Power(n)
<1> DEFINE T == {k \in Nat : Shifted(x, k) * Power(k) <= x /\ x < (Shifted(x, k) + 1) * Power(k)}
<1>1. 0 \in T
  <2>1. 0 \in Nat
        OBVIOUS
  <2>2. Shifted(x, 0) = x /\ Power(0) = 1
        BY <2>1, PowersOfTwo, ShiftedSteps
  <2>3. x * 1 = x /\ (x + 1) * 1 = x + 1
        OBVIOUS
  <2> QED BY <2>2, <2>3
<1>2. ASSUME NEW k \in Nat, k \in T PROVE k + 1 \in T
  <2>1. PICK p \in Nat : p = Power(k) /\ Power(k + 1) = 2 * p
        BY PowersOfTwo
  <2>2. PICK s \in Nat : s = Shifted(x, k) /\ Shifted(x, k + 1) = Half(s)
    <3>1. Shifted(x, k) \in Nat /\ Shifted(x, k + 1) = Half(Shifted(x, k))
          BY ShiftedSteps
    <3> QED BY <3>1
  <2>3. s * p <= x /\ x < (s + 1) * p
        BY <1>2, <2>1, <2>2
  <2>4. PICK h \in Nat : h = Half(s) /\ (s = 2 * h \/ s = 2 * h + 1)
        BY HalfFacts
  <2>5. h * (2 * p) = (2 * h) * p /\ (h + 1) * (2 * p) = (2 * h) * p + 2 * p
        OBVIOUS
  <2>6. PICK q \in Nat : q = (2 * h) * p
        OBVIOUS
  <2>7. CASE s = 2 * h
    <3>1. s * p = q /\ (s + 1) * p = q + p
          BY <2>6, <2>7
    <3> QED BY <2>1, <2>2, <2>3, <2>4, <2>5, <2>6, <3>1
  <2>8. CASE s = 2 * h + 1
    <3>1. s * p = q + p /\ (s + 1) * p = q + 2 * p
          BY <2>6, <2>8
    <3> QED BY <2>1, <2>2, <2>3, <2>4, <2>5, <2>6, <3>1
  <2> QED BY <2>4, <2>7, <2>8
<1>3. n \in T
  <2> HIDE DEF T
  <2> QED BY <1>1, <1>2, StepByStep
<1> QED BY <1>3

(* Nothing, once the power is above it, and so after as many halvings.      *)
LEMMA ShiftedAway ==
    ASSUME NEW x \in Nat, NEW n \in Nat
    PROVE  /\ Shifted(x, n) = 0 <=> x < Power(n)
           /\ Shifted(x, x) = 0
<1>1. ASSUME NEW k \in Nat PROVE Shifted(x, k) = 0 <=> x < Power(k)
  <2>1. PICK p \in Nat : p = Power(k)
        BY PowersOfTwo
  <2>2. PICK s \in Nat : s = Shifted(x, k)
        BY ShiftedSteps
  <2>3. s * p <= x /\ x < (s + 1) * p
        BY <2>1, <2>2, ShiftedRange
  <2>4. s = 0 => x < p
        BY <2>3
  <2>5. ASSUME s # 0 PROVE p <= x
    <3>1. PICK r \in Nat : s = r + 1
          BY <2>5
    <3>2. s * p = r * p + p /\ r * p \in Nat
          BY <3>1
    <3> QED BY <2>3, <3>2
  <2> QED BY <2>1, <2>2, <2>4, <2>5
<1>2. x < Power(x)
      BY PowersGrow
<1> QED BY <1>1, <1>2

LEMMA ShiftedOrder ==
    ASSUME NEW a \in Nat, NEW b \in Nat, a <= b, NEW n \in Nat
    PROVE  Shifted(a, n) <= Shifted(b, n)
<1> DEFINE T == {k \in Nat : Shifted(a, k) <= Shifted(b, k)}
<1>1. 0 \in T
  <2>1. 0 \in Nat
        OBVIOUS
  <2> QED BY <2>1, ShiftedSteps
<1>2. ASSUME NEW k \in Nat, k \in T PROVE k + 1 \in T
  <2>1. PICK x \in Nat : x = Shifted(a, k) /\ Shifted(a, k + 1) = Half(x)
    <3>1. Shifted(a, k) \in Nat /\ Shifted(a, k + 1) = Half(Shifted(a, k))
          BY ShiftedSteps
    <3> QED BY <3>1
  <2>2. PICK y \in Nat : y = Shifted(b, k) /\ Shifted(b, k + 1) = Half(y)
    <3>1. Shifted(b, k) \in Nat /\ Shifted(b, k + 1) = Half(Shifted(b, k))
          BY ShiftedSteps
    <3> QED BY <3>1
  <2>3. x <= y
        BY <1>2, <2>1, <2>2
  <2>4. Half(x) <= Half(y)
        BY <2>3 DEF Half
  <2> QED BY <2>1, <2>2, <2>4
<1>3. n \in T
  <2> HIDE DEF T
  <2> QED BY <1>1, <1>2, StepByStep
<1> QED BY <1>3

(* Where a range is split.                                                  *)
LEMMA SplitFacts ==
    ASSUME NEW s \in Nat, 2 <= s
    PROVE  /\ SplitAt(s) \in Nat /\ 1 <= SplitAt(s) /\ SplitAt(s) < s
           /\ \A j \in Nat : Power(j) < s /\ s <= Power(j + 1) => SplitAt(s) = Power(j)
<1>1. PICK f : f = [k \in Nat |-> IF 2 * k < s THEN 2 * k ELSE k]
      OBVIOUS
<1>2. PICK N : N = Nat
      OBVIOUS
<1>3. f \in [N -> N] /\ \A k \in Nat : f[k] = IF 2 * k < s THEN 2 * k ELSE k
      BY <1>1, <1>2
<1>4. PICK one : one = 1
      OBVIOUS
<1>5. f \in [N -> N] /\ one \in N
      BY <1>2, <1>3, <1>4
<1> DEFINE at(n) == Rounds(f, n, one)
<1>6. ASSUME NEW n \in Nat PROVE at(0) = 1 /\ at(n) \in Nat /\ at(n + 1) = f[at(n)]
  <2>1. at(0) = one /\ at(n) \in N /\ at(n + 1) = f[at(n)]
        BY <1>5, RoundsSteps
  <2> QED BY <1>2, <1>4, <2>1
<1>7. SplitAt(s) = at(s)
      BY <1>1, <1>4 DEF SplitAt
<1> HIDE DEF at
<1>8. 1 <= at(s) /\ at(s) < s
  <2> DEFINE T == {n \in Nat : 1 <= at(n) /\ at(n) < s}
  <2>1. 0 \in T
    <3>1. 0 \in Nat
          OBVIOUS
    <3> QED BY <1>6, <3>1
  <2>2. ASSUME NEW n \in Nat, n \in T PROVE n + 1 \in T
    <3>1. PICK k \in Nat : k = at(n) /\ at(n + 1) = f[k]
          BY <1>6
    <3>2. 1 <= k /\ k < s
          BY <2>2, <3>1
    <3>3. f[k] = IF 2 * k < s THEN 2 * k ELSE k
          BY <1>3
    <3> QED BY <3>1, <3>2, <3>3
  <2>3. s \in T
    <3> HIDE DEF T
    <3> QED BY <2>1, <2>2, StepByStep
  <2> QED BY <2>3
<1>9. ASSUME NEW j \in Nat, Power(j) < s, s <= Power(j + 1) PROVE at(s) = Power(j)
  <2>1. PICK top \in Nat : top = Power(j) /\ Power(j + 1) = 2 * top
        BY PowersOfTwo
  <2>2. \A i \in Nat : i < j => 2 * Power(i) < s
    <3> DEFINE T == {d \in Nat : \A i \in Nat : i + d = j => Power(i) <= top}
    <3>1. 0 \in T
          BY <2>1
    <3>2. ASSUME NEW d \in Nat, d \in T PROVE d + 1 \in T
      <4> SUFFICES ASSUME NEW i \in Nat, i + (d + 1) = j PROVE Power(i) <= top
          OBVIOUS
      <4>1. PICK p \in Nat : p = Power(i) /\ Power(i + 1) = 2 * p
            BY PowersOfTwo
      <4>2. i + 1 \in Nat /\ (i + 1) + d = j
            OBVIOUS
      <4>3. Power(i + 1) <= top
            BY <3>2, <4>2
      <4> QED BY <4>1, <4>3
    <3> HIDE DEF T
    <3>3. Nat \subseteq T
          BY <3>1, <3>2, StepByStep
    <3> SUFFICES ASSUME NEW i \in Nat, i < j PROVE 2 * Power(i) < s
        OBVIOUS
    <3>4. PICK d \in Nat : (i + 1) + d = j
      <4>1. j - (i + 1) \in Nat /\ (i + 1) + (j - (i + 1)) = j
            OBVIOUS
      <4> QED BY <4>1
    <3>5. d \in T
          BY <3>3
    <3>6. Power(i + 1) <= top
          BY <3>4, <3>5 DEF T
    <3>7. PICK p \in Nat : p = Power(i) /\ Power(i + 1) = 2 * p
          BY PowersOfTwo
    <3> QED BY <1>9, <2>1, <3>6, <3>7
  <2> DEFINE T == {n \in Nat : (n <= j => at(n) = Power(n)) /\ (j <= n => at(n) = Power(j))}
  <2>3. 0 \in T
    <3>1. 0 \in Nat
          OBVIOUS
    <3>2. at(0) = Power(0)
          BY <1>6, <3>1, PowersOfTwo
    <3> QED BY <3>2
  <2>4. ASSUME NEW n \in Nat, n \in T PROVE n + 1 \in T
    <3>1. PICK k \in Nat : k = at(n) /\ at(n + 1) = f[k]
          BY <1>6
    <3>2. f[k] = IF 2 * k < s THEN 2 * k ELSE k
          BY <1>3
    <3>3. CASE n < j
      <4>1. k = Power(n) /\ 2 * k < s
            BY <2>2, <2>4, <3>1, <3>3
      <4>2. at(n + 1) = Power(n + 1)
            BY <3>1, <3>2, <4>1, PowersOfTwo
      <4> QED BY <3>3, <4>2
    <3>4. CASE ~ (n < j)
      <4>1. k = top /\ ~ (2 * k < s)
            BY <1>9, <2>1, <2>4, <3>1, <3>4
      <4>2. at(n + 1) = Power(j)
            BY <2>1, <3>1, <3>2, <4>1
      <4> QED BY <3>4, <4>2
    <3> QED BY <3>3, <3>4
  <2>5. s \in T
    <3> HIDE DEF T
    <3> QED BY <2>3, <2>4, StepByStep
  <2>6. j <= s
    <3>1. j < top /\ top < s
          BY <1>9, <2>1, PowersGrow
    <3> QED BY <2>1, <3>1
  <2> QED BY <2>5, <2>6
<1>10. at(s) \in Nat
       BY <1>6
<1> QED BY <1>7, <1>8, <1>9, <1>10

-----------------------------------------------------------------------------
(* The hash of a range, from those of its parts.                            *)
Ranges(lv) == (0..Len(lv)) \X (0..Len(lv))

SplitOf(r) == SplitAt(r[2] - r[1])

HashOf(g, lv, r) ==
    IF r[2] <= r[1] THEN <<>>
    ELSE IF r[2] = r[1] + 1 THEN lv[r[2]]
    ELSE Pair(g[<<r[1], r[1] + SplitOf(r)>>], g[<<r[1] + SplitOf(r), r[2]>>])

(* The parts are shorter.                                                   *)
LEMMA PartsFact ==
    ASSUME NEW N \in Nat, NEW lo \in 0..N, NEW hi \in 0..N, lo + 2 <= hi
    PROVE  LET cut == lo + SplitAt(hi - lo)
           IN  cut \in 0..N /\ lo < cut /\ cut < hi /\ SplitAt(hi - lo) \in Nat
<1>1. PICK s \in Nat : s = hi - lo /\ 2 <= s
  <2>1. hi - lo \in Nat /\ 2 <= hi - lo
        OBVIOUS
  <2> QED BY <2>1
<1>2. PICK k \in Nat : k = SplitAt(s) /\ 1 <= k /\ k < s
  <2>1. SplitAt(s) \in Nat /\ 1 <= SplitAt(s) /\ SplitAt(s) < s
        BY <1>1, SplitFacts
  <2> QED BY <2>1
<1>3. lo + k \in 0..N /\ lo < lo + k /\ lo + k < hi
      BY <1>1, <1>2
<1> QED BY <1>1, <1>2, <1>3

LEMMA HashOfShorter ==
    ASSUME NEW lv, Len(lv) \in Nat, NEW f, NEW g, NEW r \in Ranges(lv),
           \A q \in Ranges(lv) : q[2] - q[1] < r[2] - r[1] => f[q] = g[q]
    PROVE  HashOf(f, lv, r) = HashOf(g, lv, r)
<1>1. PICK lo \in 0..Len(lv), hi \in 0..Len(lv) : r = <<lo, hi>> /\ r[1] = lo /\ r[2] = hi
      BY DEF Ranges
<1>2. CASE lo + 2 <= hi
  <2>1. PICK cut \in 0..Len(lv) : cut = lo + SplitOf(r) /\ lo < cut /\ cut < hi
        BY <1>1, <1>2, PartsFact DEF SplitOf
  <2>2. PICK a \in Ranges(lv) : a = <<lo, cut>> /\ a[2] - a[1] < r[2] - r[1]
    <3>1. <<lo, cut>> \in Ranges(lv) /\ cut - lo < hi - lo
          BY <2>1 DEF Ranges
    <3> QED BY <1>1, <3>1
  <2>3. PICK b \in Ranges(lv) : b = <<cut, hi>> /\ b[2] - b[1] < r[2] - r[1]
    <3>1. <<cut, hi>> \in Ranges(lv) /\ hi - cut < hi - lo
          BY <2>1 DEF Ranges
    <3> QED BY <1>1, <3>1
  <2>4. f[a] = g[a] /\ f[b] = g[b]
        BY <2>2, <2>3
  <2> QED BY <1>1, <2>1, <2>2, <2>3, <2>4 DEF HashOf
<1>3. CASE ~ (lo + 2 <= hi)
  <2>1. hi <= lo \/ hi = lo + 1
        BY <1>3
  <2> QED BY <1>1, <2>1 DEF HashOf
<1> QED BY <1>2, <1>3

LEMMA HashesExist ==
    ASSUME NEW lv, Len(lv) \in Nat
    PROVE  \E g : g = [r \in Ranges(lv) |-> HashOf(g, lv, r)]
<1> DEFINE Up(g, d) == \A r \in Ranges(lv) : r[2] <= r[1] + d => g[r] = HashOf(g, lv, r)
           T == {d \in Nat : \E g : Up(g, d)}
<1>0. \A r \in Ranges(lv) : r[1] \in Nat /\ r[2] \in Nat /\ r[2] <= Len(lv)
      BY DEF Ranges
<1>1. 0 \in T
  <2> DEFINE g == [r \in Ranges(lv) |-> <<>>]
  <2>1. ASSUME NEW r \in Ranges(lv), r[2] <= r[1] + 0 PROVE g[r] = HashOf(g, lv, r)
    <3>1. r[2] <= r[1]
          BY <1>0, <2>1
    <3>2. HashOf(g, lv, r) = <<>>
          BY <3>1 DEF HashOf
    <3> QED BY <3>2
  <2> HIDE DEF g
  <2>2. Up(g, 0)
        BY <2>1
  <2> QED BY <2>2
<1>2. ASSUME NEW d \in Nat, d \in T PROVE d + 1 \in T
  <2>1. PICK g : Up(g, d)
        BY <1>2
  <2> DEFINE h == [r \in Ranges(lv) |-> IF r[2] = r[1] + (d + 1) THEN HashOf(g, lv, r) ELSE g[r]]
  <2>2. \A r \in Ranges(lv) : h[r] = IF r[2] = r[1] + (d + 1) THEN HashOf(g, lv, r) ELSE g[r]
        OBVIOUS
  <2> HIDE DEF h
  <2>3. ASSUME NEW r \in Ranges(lv), r[2] <= r[1] + (d + 1) PROVE h[r] = HashOf(h, lv, r)
    <3>1. \A q \in Ranges(lv) : q[2] - q[1] < r[2] - r[1] => g[q] = h[q]
      <4> SUFFICES ASSUME NEW q \in Ranges(lv), q[2] - q[1] < r[2] - r[1] PROVE g[q] = h[q]
          OBVIOUS
      <4>1. q[2] # q[1] + (d + 1)
            BY <1>0, <2>3
      <4> QED BY <2>2, <4>1
    <3>2. HashOf(g, lv, r) = HashOf(h, lv, r)
          BY <3>1, HashOfShorter
    <3>3. CASE r[2] = r[1] + (d + 1)
          BY <2>2, <3>2, <3>3
    <3>4. CASE r[2] # r[1] + (d + 1)
      <4>1. r[2] <= r[1] + d
            BY <1>0, <2>3, <3>4
      <4> QED BY <2>1, <2>2, <3>2, <3>4, <4>1
    <3> QED BY <3>3, <3>4
  <2>4. Up(h, d + 1)
        BY <2>3
  <2> QED BY <2>4
<1> HIDE DEF T
<1>3. Len(lv) \in T
      BY <1>1, <1>2, StepByStep
<1>4. PICK g : Up(g, Len(lv))
      BY <1>3 DEF T
<1>5. \A r \in Ranges(lv) : g[r] = HashOf(g, lv, r)
      BY <1>0, <1>4
<1> DEFINE h == [r \in Ranges(lv) |-> g[r]]
<1>6. \A r \in Ranges(lv) : h[r] = g[r]
      OBVIOUS
<1>7. h = [r \in Ranges(lv) |-> HashOf(g, lv, r)]
      BY <1>5
<1> HIDE DEF h
<1>8. \A r \in Ranges(lv) : HashOf(g, lv, r) = HashOf(h, lv, r)
      BY <1>6, HashOfShorter
<1>9. h = [r \in Ranges(lv) |-> HashOf(h, lv, r)]
      BY <1>7, <1>8
<1> QED BY <1>9

LEMMA MthSolved ==
    ASSUME NEW lv, Len(lv) \in Nat, NEW lo \in 0..Len(lv), NEW hi \in 0..Len(lv)
    PROVE  /\ hi <= lo => MTH(lv, lo, hi) = <<>>
           /\ hi = lo + 1 => MTH(lv, lo, hi) = lv[hi]
           /\ lo + 2 <= hi =>
                MTH(lv, lo, hi) = Pair(MTH(lv, lo, lo + SplitAt(hi - lo)), MTH(lv, lo + SplitAt(hi - lo), hi))
<1> DEFINE Solves(g) == g = [r \in (0..Len(lv)) \X (0..Len(lv)) |->
                LET k == SplitAt(r[2] - r[1])
                IN  IF r[2] <= r[1] THEN <<>>
                    ELSE IF r[2] = r[1] + 1 THEN lv[r[2]]
                    ELSE Pair(g[<<r[1], r[1] + k>>], g[<<r[1] + k, r[2]>>])]
           g == CHOOSE g : Solves(g)
<1>1. \A x, y : MTH(lv, x, y) = g[<<x, y>>]
      BY DEF MTH
<1>2. \A h : Solves(h) <=> h = [r \in Ranges(lv) |-> HashOf(h, lv, r)]
      BY DEF Ranges, HashOf, SplitOf
<1>3. \E h : Solves(h)
  <2> HIDE DEF Solves
  <2> QED BY <1>2, HashesExist
<1>4. Solves(g)
  <2> HIDE DEF Solves
  <2> QED BY <1>3
<1> HIDE DEF g
<1>5. g = [r \in Ranges(lv) |-> HashOf(g, lv, r)]
  <2> HIDE DEF Solves
  <2> QED BY <1>2, <1>4
<1> HIDE DEF Solves
<1>6. <<lo, hi>> \in Ranges(lv)
      BY DEF Ranges
<1>7. g[<<lo, hi>>] = HashOf(g, lv, <<lo, hi>>)
  <2>1. \A r \in Ranges(lv) : g[r] = HashOf(g, lv, r)
        BY <1>5
  <2> QED BY <1>6, <2>1
<1>8. CASE hi <= lo
      BY <1>1, <1>7, <1>8 DEF HashOf
<1>9. CASE hi = lo + 1
      BY <1>1, <1>7, <1>9 DEF HashOf
<1>10. CASE lo + 2 <= hi
      BY <1>1, <1>7, <1>10 DEF HashOf, SplitOf
<1> QED BY <1>8, <1>9, <1>10

-----------------------------------------------------------------------------
(* Two hashes of the same range are equal exactly when the leaves are.      *)
LEMMA RangeTells ==
    ASSUME NEW lv, NEW lw, Len(lv) \in Nat, Len(lw) \in Nat,
           NEW lo \in Nat, NEW hi \in Nat, hi <= Len(lv), hi <= Len(lw), lo <= hi
    PROVE  MTH(lv, lo, hi) = MTH(lw, lo, hi) <=> \A x \in (lo + 1)..hi : lv[x] = lw[x]
<1> DEFINE Tells(a, b) == MTH(lv, a, b) = MTH(lw, a, b) <=> \A x \in (a + 1)..b : lv[x] = lw[x]
           T == {d \in Nat : \A a, b \in 0..hi : a <= b /\ b <= a + d => Tells(a, b)}
<1>1. 0 \in T
  <2> SUFFICES ASSUME NEW a \in 0..hi, NEW b \in 0..hi, a <= b, b <= a + 0 PROVE Tells(a, b)
      OBVIOUS
  <2>1. a = b /\ b <= a /\ a \in 0..Len(lv) /\ b \in 0..Len(lv) /\ a \in 0..Len(lw) /\ b \in 0..Len(lw)
        OBVIOUS
  <2>2. MTH(lv, a, b) = <<>> /\ MTH(lw, a, b) = <<>>
        BY <2>1, MthSolved
  <2>3. (a + 1)..b = {}
        BY <2>1
  <2> QED BY <2>2, <2>3
<1>2. ASSUME NEW d \in Nat, d \in T PROVE d + 1 \in T
  <2> SUFFICES ASSUME NEW a \in 0..hi, NEW b \in 0..hi, a <= b, b <= a + (d + 1) PROVE Tells(a, b)
      OBVIOUS
  <2>1. a \in 0..Len(lv) /\ b \in 0..Len(lv) /\ a \in 0..Len(lw) /\ b \in 0..Len(lw)
        OBVIOUS
  <2>2. CASE b <= a
    <3>1. MTH(lv, a, b) = <<>> /\ MTH(lw, a, b) = <<>>
          BY <2>1, <2>2, MthSolved
    <3>2. (a + 1)..b = {}
          BY <2>2
    <3> QED BY <3>1, <3>2
  <2>3. CASE b = a + 1
    <3>1. MTH(lv, a, b) = lv[b] /\ MTH(lw, a, b) = lw[b]
          BY <2>1, <2>3, MthSolved
    <3>2. (a + 1)..b = {b}
          BY <2>3
    <3> QED BY <3>1, <3>2
  <2>4. CASE a + 2 <= b
    <3>1. PICK cut \in 0..hi : cut = a + SplitAt(b - a) /\ a < cut /\ cut < b
          BY <2>4, PartsFact
    <3>2. MTH(lv, a, b) = Pair(MTH(lv, a, cut), MTH(lv, cut, b))
          BY <2>1, <2>4, <3>1, MthSolved
    <3>3. MTH(lw, a, b) = Pair(MTH(lw, a, cut), MTH(lw, cut, b))
          BY <2>1, <2>4, <3>1, MthSolved
    <3>4. \A x, y, z, w : Pair(x, y) = Pair(z, w) <=> x = z /\ y = w
          BY DEF Pair
    <3>5. Tells(a, cut) /\ Tells(cut, b)
      <4>1. a <= cut /\ cut <= a + d /\ cut <= b /\ b <= cut + d
            BY <3>1
      <4> HIDE DEF Tells
      <4> QED BY <1>2, <3>1, <4>1
    <3>6. (a + 1)..b = ((a + 1)..cut) \cup ((cut + 1)..b)
          BY <3>1
    <3>7. MTH(lv, a, b) = MTH(lw, a, b)
            <=> MTH(lv, a, cut) = MTH(lw, a, cut) /\ MTH(lv, cut, b) = MTH(lw, cut, b)
          BY <3>2, <3>3, <3>4
    <3>8. (\A x \in (a + 1)..b : lv[x] = lw[x])
            <=> (\A x \in (a + 1)..cut : lv[x] = lw[x]) /\ (\A x \in (cut + 1)..b : lv[x] = lw[x])
          BY <3>6
    <3> QED BY <3>5, <3>7, <3>8
  <2> HIDE DEF Tells
  <2>5. b <= a \/ b = a + 1 \/ a + 2 <= b
        OBVIOUS
  <2> QED BY <2>2, <2>3, <2>4, <2>5
<1>3. hi \in T
  <2> HIDE DEF T
  <2> QED BY <1>1, <1>2, StepByStep
<1>4. Tells(lo, hi)
  <2>1. lo \in 0..hi /\ hi \in 0..hi /\ hi <= lo + hi
        OBVIOUS
  <2> HIDE DEF Tells
  <2> QED BY <1>3, <2>1
<1> QED BY <1>4

-----------------------------------------------------------------------------
(* The nodes: the ith of level j stands for the ith Power(j) leaves, or for *)
(* what there is of them.                                                   *)
Cap(n, k) == IF k <= n THEN k ELSE n

Node(lv, j, i) == MTH(lv, i * Power(j), Cap(Len(lv), (i + 1) * Power(j)))

(* There is an ith node of a level up to the one over the last leaf.        *)
LEMMA LevelFact ==
    ASSUME NEW x \in Nat, NEW j \in Nat, NEW i \in Nat
    PROVE  i <= Shifted(x, j) <=> i * Power(j) <= x
<1>1. PICK p \in Nat : p = Power(j) /\ p # 0
      BY PowersGrow
<1>2. PICK s \in Nat : s = Shifted(x, j) /\ s * p <= x /\ x < (s + 1) * p
  <2>1. Shifted(x, j) \in Nat
        BY ShiftedSteps
  <2>2. Shifted(x, j) * p <= x /\ x < (Shifted(x, j) + 1) * p
        BY <1>1, ShiftedRange
  <2> QED BY <2>1, <2>2
<1>3. ASSUME i <= s PROVE i * p <= x
  <2>1. PICK d \in Nat : s = i + d
    <3>1. s - i \in Nat /\ s = i + (s - i)
          BY <1>3
    <3> QED BY <3>1
  <2>2. s * p = i * p + d * p /\ d * p \in Nat /\ i * p \in Nat
        BY <2>1
  <2> QED BY <1>2, <2>2
<1>4. ASSUME ~ (i <= s) PROVE ~ (i * p <= x)
  <2>1. PICK d \in Nat : i = (s + 1) + d
    <3>1. i - (s + 1) \in Nat /\ i = (s + 1) + (i - (s + 1))
          BY <1>4
    <3> QED BY <3>1
  <2>2. i * p = (s + 1) * p + d * p /\ d * p \in Nat /\ (s + 1) * p \in Nat
        BY <2>1
  <2> QED BY <1>2, <2>2
<1> QED BY <1>1, <1>2, <1>3, <1>4

LEMMA NodeLeaf ==
    ASSUME NEW lv, Len(lv) \in Nat, NEW i \in Nat, i < Len(lv)
    PROVE  Node(lv, 0, i) = lv[i + 1]
<1>1. Power(0) = 1
      BY PowersOfTwo
<1>2. i * 1 = i /\ (i + 1) * 1 = i + 1 /\ Cap(Len(lv), i + 1) = i + 1
      BY DEF Cap
<1>3. Node(lv, 0, i) = MTH(lv, i, i + 1)
      BY <1>1, <1>2 DEF Node
<1>4. i \in 0..Len(lv) /\ i + 1 \in 0..Len(lv)
      OBVIOUS
<1> QED BY <1>3, <1>4, MthSolved

(* A node and the two below it, or the one.                                 *)
LEMMA NodeUp ==
    ASSUME NEW lv, NEW x \in Nat, Len(lv) = x + 1, NEW j \in Nat, NEW i \in Nat, 2 * i <= Shifted(x, j)
    PROVE  /\ 2 * i + 1 <= Shifted(x, j) =>
                Node(lv, j + 1, i) = Pair(Node(lv, j, 2 * i), Node(lv, j, 2 * i + 1))
           /\ ~ (2 * i + 1 <= Shifted(x, j)) => Node(lv, j + 1, i) = Node(lv, j, 2 * i)
<1>1. PICK p \in Nat : p = Power(j) /\ p # 0 /\ Power(j + 1) = 2 * p
      BY PowersGrow, PowersOfTwo
<1>0. p # 0
      BY <1>1
<1>2. PICK lo \in Nat : lo = i * (2 * p) /\ lo = (2 * i) * p
  <2>1. i * (2 * p) \in Nat /\ i * (2 * p) = (2 * i) * p
        OBVIOUS
  <2> QED BY <2>1
<1>3. /\ (i + 1) * (2 * p) = lo + 2 * p
      /\ (2 * i + 1) * p = lo + p
      /\ ((2 * i + 1) + 1) * p = lo + 2 * p
      BY <1>2
<1>4. 2 * i \in Nat /\ 2 * i + 1 \in Nat
      OBVIOUS
<1>5. PICK n \in Nat : n = Len(lv) /\ n = x + 1
      OBVIOUS
<1>6. lo < n
  <2>1. (2 * i) * p <= x
        BY <1>1, <1>4, LevelFact
  <2> QED BY <1>2, <1>5, <2>1
<1>7. 2 * i + 1 <= Shifted(x, j) <=> lo + p < n
  <2>1. 2 * i + 1 <= Shifted(x, j) <=> (2 * i + 1) * p <= x
        BY <1>1, <1>4, LevelFact
  <2> QED BY <1>3, <1>5, <2>1
<1>8. Node(lv, j + 1, i) = MTH(lv, lo, Cap(n, lo + 2 * p))
      BY <1>1, <1>2, <1>3, <1>5 DEF Node
<1>9. Node(lv, j, 2 * i) = MTH(lv, lo, Cap(n, lo + p))
      BY <1>1, <1>2, <1>3, <1>5 DEF Node
<1>10. Node(lv, j, 2 * i + 1) = MTH(lv, lo + p, Cap(n, lo + 2 * p))
      BY <1>1, <1>2, <1>3, <1>5 DEF Node
<1>11. CASE lo + p < n
  <2>1. PICK hi \in Nat : hi = Cap(n, lo + 2 * p) /\ lo + p < hi /\ hi <= lo + 2 * p /\ hi <= n
        BY <1>0, <1>11 DEF Cap
  <2>2. Cap(n, lo + p) = lo + p
        BY <1>11 DEF Cap
  <2>3. PICK s \in Nat : s = hi - lo /\ p < s /\ s <= 2 * p /\ 2 <= s
    <3>1. hi - lo \in Nat /\ p < hi - lo /\ hi - lo <= 2 * p /\ 2 <= hi - lo
          BY <1>0, <2>1
    <3> QED BY <3>1
  <2>4. SplitAt(s) = p
        BY <1>1, <2>3, SplitFacts
  <2>5. lo \in 0..n /\ hi \in 0..n /\ lo + 2 <= hi
    <3>1. lo + 2 <= hi
          BY <2>3
    <3>2. lo <= n /\ hi <= n
          BY <2>1, <3>1
    <3> QED BY <3>1, <3>2
  <2>6. MTH(lv, lo, hi) = Pair(MTH(lv, lo, lo + p), MTH(lv, lo + p, hi))
    <3>1. SplitAt(hi - lo) = p
          BY <2>3, <2>4
    <3>2. lo + 2 <= hi =>
             MTH(lv, lo, hi) = Pair(MTH(lv, lo, lo + SplitAt(hi - lo)), MTH(lv, lo + SplitAt(hi - lo), hi))
          BY <1>5, <2>5, MthSolved
    <3> QED BY <2>5, <3>1, <3>2
  <2> QED BY <1>7, <1>8, <1>9, <1>10, <1>11, <2>1, <2>2, <2>6
<1>12. CASE ~ (lo + p < n)
  <2>1. Cap(n, lo + p) = n /\ Cap(n, lo + 2 * p) = n
    <3>1. n <= lo + p
          BY <1>12
    <3>2. n <= lo + 2 * p
          BY <1>0, <3>1
    <3> QED BY <3>1, <3>2 DEF Cap
  <2> QED BY <1>7, <1>8, <1>9, <1>12, <2>1
<1> QED BY <1>11, <1>12

LEMMA NodeRoot ==
    ASSUME NEW lv, NEW x \in Nat, Len(lv) = x + 1, NEW j \in Nat, Shifted(x, j) = 0
    PROVE  Node(lv, j, 0) = MTH(lv, 0, Len(lv))
<1>1. PICK p \in Nat : p = Power(j) /\ x < p
      BY PowersGrow, ShiftedAway
<1>2. 0 * p = 0 /\ (0 + 1) * p = p
      OBVIOUS
<1>3. Cap(Len(lv), p) = Len(lv)
      BY <1>1 DEF Cap
<1> QED BY <1>1, <1>2, <1>3 DEF Node

-----------------------------------------------------------------------------
(* Halvings follow one another.                                             *)
LEMMA ShiftedOn ==
    ASSUME NEW x \in Nat, NEW j \in Nat, NEW d \in Nat
    PROVE  Shifted(Shifted(x, j), d) = Shifted(x, j + d)
<1> DEFINE T == {k \in Nat : Shifted(Shifted(x, j), k) = Shifted(x, j + k)}
<1>1. PICK f \in Nat : f = Shifted(x, j)
  <2>1. Shifted(x, j) \in Nat
        BY ShiftedSteps
  <2> QED BY <2>1
<1>2. 0 \in T
  <2>1. 0 \in Nat /\ j + 0 = j
        OBVIOUS
  <2>2. Shifted(f, 0) = f
        BY <2>1, ShiftedSteps
  <2> QED BY <1>1, <2>1, <2>2
<1>3. ASSUME NEW k \in Nat, k \in T PROVE k + 1 \in T
  <2>1. Shifted(f, k + 1) = Half(Shifted(f, k))
        BY ShiftedSteps
  <2>2. PICK i \in Nat : i = j + k /\ i + 1 = j + (k + 1)
        OBVIOUS
  <2>3. Shifted(x, i + 1) = Half(Shifted(x, i))
        BY ShiftedSteps
  <2> QED BY <1>1, <1>3, <2>1, <2>2, <2>3
<1>4. d \in T
  <2> HIDE DEF T
  <2> QED BY <1>2, <1>3, StepByStep
<1> QED BY <1>4

(* Nothing is lost in halving an even number.                               *)
LEMMA EvenRun ==
    ASSUME NEW f \in Nat, NEW d \in Nat, \A t \in Nat : t < d => ~ Odd(Shifted(f, t))
    PROVE  f = Shifted(f, d) * Power(d)
<1> DEFINE T == {k \in Nat : k <= d => f = Shifted(f, k) * Power(k)}
<1>1. 0 \in T
  <2>1. 0 \in Nat /\ f * 1 = f
        OBVIOUS
  <2>2. Shifted(f, 0) = f /\ Power(0) = 1
        BY <2>1, ShiftedSteps, PowersOfTwo
  <2> QED BY <2>1, <2>2
<1>2. ASSUME NEW k \in Nat, k \in T PROVE k + 1 \in T
  <2> SUFFICES ASSUME k + 1 <= d PROVE f = Shifted(f, k + 1) * Power(k + 1)
      OBVIOUS
  <2>1. Shifted(f, k) \in Nat /\ Shifted(f, k + 1) = Half(Shifted(f, k))
        BY ShiftedSteps
  <2>2. PICK s \in Nat : s = Shifted(f, k) /\ ~ Odd(s)
        BY <2>1
  <2>3. PICK h \in Nat : h = Half(s) /\ s = 2 * h
        BY <2>2, HalfFacts
  <2>4. PICK p \in Nat : p = Power(k) /\ Power(k + 1) = 2 * p
        BY PowersOfTwo
  <2>5. f = (2 * h) * p
    <3>1. k <= d /\ k \in T
          BY <1>2
    <3>2. f = Shifted(f, k) * Power(k)
          BY <3>1
    <3> QED BY <2>2, <2>3, <2>4, <3>2
  <2>6. (2 * h) * p = h * (2 * p)
        OBVIOUS
  <2> QED BY <2>1, <2>2, <2>3, <2>4, <2>5, <2>6
<1>3. d \in T
  <2> HIDE DEF T
  <2> QED BY <1>1, <1>2, StepByStep
<1> QED BY <1>3

(* How far up a last node without sibling is raised.                        *)
RunsTo(f, d) == Odd(Shifted(f, d)) /\ \A t \in Nat : t < d => ~ Odd(Shifted(f, t))

LEMMA RunEnds ==
    ASSUME NEW f \in Nat, f # 0
    PROVE  \E d \in Nat : RunsTo(f, d)
<1> DEFINE T == {d \in Nat : Odd(Shifted(f, d))}
<1>1. T # {}
  <2> SUFFICES ASSUME T = {} PROVE FALSE
      OBVIOUS
  <2>1. f = Shifted(f, f) * Power(f)
        BY EvenRun
  <2>2. Shifted(f, f) = 0
        BY ShiftedAway
  <2>3. 0 * Power(f) = 0
        BY PowersOfTwo
  <2> QED BY <2>1, <2>2, <2>3
<1>2. T \in SUBSET Nat
      OBVIOUS
<1> HIDE DEF T
<1>3. PICK d \in T : \A t \in T : d <= t
      BY <1>1, <1>2, LeastNatural
<1>4. d \in Nat /\ Odd(Shifted(f, d)) /\ \A t \in Nat : t < d => ~ Odd(Shifted(f, t))
      BY <1>3 DEF T
<1> QED BY <1>4 DEF RunsTo

LEMMA LiftedSteps ==
    ASSUME NEW f \in Nat, NEW s \in Nat, NEW n \in Nat
    PROVE  LET step == [w \in Nat \X Nat |-> IF Odd(w[1]) THEN w ELSE <<Half(w[1]), Half(w[2])>>]
               at(k) == Rounds(step, k, <<f, s>>)
           IN  /\ at(0) = <<f, s>> /\ Lifted(f, s) = at(f)
               /\ at(n) \in Nat \X Nat
               /\ at(n + 1) = IF Odd(at(n)[1]) THEN at(n) ELSE <<Half(at(n)[1]), Half(at(n)[2])>>
<1> DEFINE step == [w \in Nat \X Nat |-> IF Odd(w[1]) THEN w ELSE <<Half(w[1]), Half(w[2])>>]
           at(k) == Rounds(step, k, <<f, s>>)
<1>1. Lifted(f, s) = at(f)
      BY DEF Lifted
<1>2. \A w \in Nat \X Nat : step[w] = IF Odd(w[1]) THEN w ELSE <<Half(w[1]), Half(w[2])>>
      OBVIOUS
<1>3. \A w \in Nat \X Nat : step[w] \in Nat \X Nat
  <2> SUFFICES ASSUME NEW w \in Nat \X Nat PROVE step[w] \in Nat \X Nat
      OBVIOUS
  <2>1. w[1] \in Nat /\ w[2] \in Nat
        OBVIOUS
  <2>2. Half(w[1]) \in Nat /\ Half(w[2]) \in Nat
        BY <2>1, HalfFacts
  <2> QED BY <1>2, <2>2
<1>4. step \in [Nat \X Nat -> Nat \X Nat]
      BY <1>3
<1> HIDE DEF step
<1>5. PICK S : S = Nat \X Nat
      OBVIOUS
<1>6. PICK x : x = <<f, s>>
      OBVIOUS
<1>7. step \in [S -> S] /\ x \in S
      BY <1>4, <1>5, <1>6
<1>8. Rounds(step, 0, x) = x /\ Rounds(step, n, x) \in S /\ Rounds(step, n + 1, x) = step[Rounds(step, n, x)]
      BY <1>7, RoundsSteps
<1>9. at(0) = <<f, s>> /\ at(n) \in Nat \X Nat /\ at(n + 1) = step[at(n)]
      BY <1>5, <1>6, <1>8
<1>10. at(n + 1) = IF Odd(at(n)[1]) THEN at(n) ELSE <<Half(at(n)[1]), Half(at(n)[2])>>
       BY <1>2, <1>9
<1> QED BY <1>1, <1>9, <1>10 DEF step

LEMMA LiftedFact ==
    ASSUME NEW f \in Nat, NEW s \in Nat
    PROVE  /\ Odd(f) => Lifted(f, s) = <<f, s>>
           /\ \A d \in Nat : RunsTo(f, d) /\ f = s => Lifted(f, s) = <<Shifted(f, d), Shifted(f, d)>>
<1>0. PICK step : step = [w \in Nat \X Nat |-> IF Odd(w[1]) THEN w ELSE <<Half(w[1]), Half(w[2])>>]
      OBVIOUS
<1> DEFINE at(k) == Rounds(step, k, <<f, s>>)
<1>1. ASSUME NEW n \in Nat
      PROVE  /\ at(0) = <<f, s>> /\ Lifted(f, s) = at(f)
             /\ at(n) \in Nat \X Nat
             /\ at(n + 1) = IF Odd(at(n)[1]) THEN at(n) ELSE <<Half(at(n)[1]), Half(at(n)[2])>>
      BY <1>0, LiftedSteps
<1> HIDE DEF at
<1>2. at(0) = <<f, s>> /\ Lifted(f, s) = at(f)
  <2>1. 0 \in Nat
        OBVIOUS
  <2> QED BY <1>1, <2>1
<1>3. ASSUME Odd(f) PROVE Lifted(f, s) = <<f, s>>
  <2> DEFINE T == {k \in Nat : at(k) = <<f, s>>}
  <2>1. 0 \in T
        BY <1>2
  <2>2. ASSUME NEW k \in Nat, k \in T PROVE k + 1 \in T
    <3>1. at(k) = <<f, s>>
          BY <2>2
    <3>2. at(k + 1) = at(k)
      <4>1. at(k)[1] = f
            BY <3>1
      <4> QED BY <1>1, <1>3, <4>1
    <3> QED BY <3>1, <3>2
  <2>3. f \in T
    <3> HIDE DEF T
    <3> QED BY <2>1, <2>2, StepByStep
  <2> QED BY <1>2, <2>3
<1>4. ASSUME NEW d \in Nat, RunsTo(f, d), f = s PROVE Lifted(f, s) = <<Shifted(f, d), Shifted(f, d)>>
  <2> DEFINE up(k) == <<Shifted(f, k), Shifted(f, k)>>
             T == {k \in Nat : (k <= d => at(k) = up(k)) /\ (d <= k => at(k) = up(d))}
  <2>1. 0 \in T
    <3>1. 0 \in Nat
          OBVIOUS
    <3>2. Shifted(f, 0) = f
          BY <3>1, ShiftedSteps
    <3>3. up(0) = <<f, f>> /\ (d <= 0 => d = 0)
          BY <3>2
    <3> QED BY <1>2, <1>4, <3>1, <3>3
  <2>2. ASSUME NEW k \in Nat, k \in T PROVE k + 1 \in T
    <3>1. CASE k < d
      <4>1. at(k) = <<Shifted(f, k), Shifted(f, k)>> /\ ~ Odd(Shifted(f, k))
            BY <1>4, <2>2, <3>1 DEF RunsTo
      <4>2. at(k)[1] = Shifted(f, k) /\ at(k)[2] = Shifted(f, k)
            BY <4>1
      <4>3. at(k + 1) = <<Half(Shifted(f, k)), Half(Shifted(f, k))>>
            BY <1>1, <4>1, <4>2
      <4>4. Shifted(f, k + 1) = Half(Shifted(f, k))
            BY ShiftedSteps
      <4>5. at(k + 1) = up(k + 1)
            BY <4>3, <4>4
      <4>6. k + 1 <= d /\ (d <= k + 1 => k + 1 = d)
            BY <3>1
      <4> QED BY <4>5, <4>6
    <3>2. CASE ~ (k < d)
      <4>1. d <= k /\ d <= k + 1 /\ ~ (k + 1 <= d)
            BY <3>2
      <4>2. at(k) = up(d)
            BY <2>2, <4>1
      <4>3. Odd(at(k)[1])
        <5>1. at(k)[1] = Shifted(f, d)
              BY <4>2
        <5> QED BY <1>4, <5>1 DEF RunsTo
      <4>4. at(k + 1) = at(k)
            BY <1>1, <4>3
      <4> QED BY <4>1, <4>2, <4>4
    <3> QED BY <3>1, <3>2
  <2>3. f \in T
    <3> HIDE DEF T
    <3> QED BY <2>1, <2>2, StepByStep
  <2>4. d <= f
    <3>1. f = Shifted(f, d) * Power(d)
          BY <1>4, EvenRun DEF RunsTo
    <3>2. PICK p \in Nat : p = Power(d) /\ d < p
          BY PowersGrow
    <3>3. Shifted(f, d) \in Nat
          BY ShiftedSteps
    <3>4. Shifted(f, d) # 0
          BY <1>4, <3>3 DEF RunsTo, Odd
    <3>5. PICK r \in Nat : Shifted(f, d) = r + 1
      <4>1. Shifted(f, d) - 1 \in Nat /\ (Shifted(f, d) - 1) + 1 = Shifted(f, d)
            BY <3>3, <3>4
      <4> QED BY <4>1
    <3>6. f = r * p + p /\ r * p \in Nat
      <4>1. (r + 1) * p = r * p + p /\ r * p \in Nat
            OBVIOUS
      <4> QED BY <3>1, <3>2, <3>5, <4>1
    <3> QED BY <3>2, <3>6
  <2> QED BY <1>2, <2>3, <2>4
<1> QED BY <1>3, <1>4

(* From the last node of a level to that of the level where it has a        *)
(* sibling: one and the same hash.                                          *)
LEMMA LiftedTo ==
    ASSUME NEW lv, NEW x \in Nat, Len(lv) = x + 1, NEW j \in Nat, NEW f \in Nat, f = Shifted(x, j), f # 0
    PROVE  \E k \in Nat : /\ j <= k /\ Lifted(f, f) = <<Shifted(x, k), Shifted(x, k)>>
                          /\ Odd(Shifted(x, k)) /\ \A t \in Nat : j <= t /\ t < k => ~ Odd(Shifted(x, t))
                          /\ Node(lv, k, Shifted(x, k)) = Node(lv, j, f)
<1>1. PICK d \in Nat : RunsTo(f, d)
      BY RunEnds
<1>2. Lifted(f, f) = <<Shifted(f, d), Shifted(f, d)>>
      BY <1>1, LiftedFact
<1>3. \A t \in Nat : Shifted(f, t) = Shifted(x, j + t)
      BY ShiftedOn
<1>4. PICK k \in Nat : k = j + d /\ j <= k
      OBVIOUS
<1>5. ASSUME NEW t \in Nat, j <= t, t < k PROVE ~ Odd(Shifted(x, t))
  <2>1. PICK i \in Nat : t = j + i /\ i < d
    <3>1. t - j \in Nat /\ t = j + (t - j) /\ t - j < d
          BY <1>4, <1>5
    <3> QED BY <3>1
  <2> QED BY <1>1, <1>3, <2>1 DEF RunsTo
<1> DEFINE T == {i \in Nat : i <= d => Node(lv, j + i, Shifted(x, j + i)) = Node(lv, j, f)}
<1>6. 0 \in T
  <2>1. j + 0 = j
        OBVIOUS
  <2> QED BY <2>1
<1>7. ASSUME NEW i \in Nat, i \in T PROVE i + 1 \in T
  <2> SUFFICES ASSUME i + 1 <= d PROVE Node(lv, j + (i + 1), Shifted(x, j + (i + 1))) = Node(lv, j, f)
      OBVIOUS
  <2>1. PICK t \in Nat : t = j + i /\ t + 1 = j + (i + 1) /\ j <= t /\ t < k
        BY <1>4
  <2>2. Node(lv, t, Shifted(x, t)) = Node(lv, j, f) /\ ~ Odd(Shifted(x, t))
        BY <1>5, <1>7, <2>1
  <2>3. Shifted(x, t) \in Nat /\ Shifted(x, t + 1) = Half(Shifted(x, t))
        BY ShiftedSteps
  <2>4. PICK h \in Nat : h = Shifted(x, t + 1) /\ Shifted(x, t) = 2 * h
        BY <2>2, <2>3, HalfFacts
  <2>5. 2 * h <= Shifted(x, t) /\ ~ (2 * h + 1 <= Shifted(x, t))
        BY <2>4
  <2>6. Node(lv, t + 1, h) = Node(lv, t, 2 * h)
        BY <2>5, NodeUp
  <2> QED BY <2>1, <2>2, <2>4, <2>6
<1>8. d \in T
  <2> HIDE DEF T
  <2> QED BY <1>6, <1>7, StepByStep
<1>9. Odd(Shifted(x, k)) /\ Lifted(f, f) = <<Shifted(x, k), Shifted(x, k)>>
      BY <1>1, <1>2, <1>3, <1>4 DEF RunsTo
<1>10. Node(lv, k, Shifted(x, k)) = Node(lv, j, f)
       BY <1>4, <1>8
<1> QED BY <1>4, <1>5, <1>9, <1>10


-----------------------------------------------------------------------------
(* A proof is checked step by step.                                         *)
Standing(h, f, s) == [ok |-> TRUE, h |-> h, fn |-> f, sn |-> s]
Failed(h, f, s) == [ok |-> FALSE, h |-> h, fn |-> f, sn |-> s]

Steps(at, v, path, n) == \A k \in 0..n : at[k] = IF k = 0 THEN v ELSE VerifyStep(at[k - 1], path[k])

AreSteps(at, v, path, n) == at = [k \in 0..n |-> IF k = 0 THEN v ELSE VerifyStep(at[k - 1], path[k])]

LEMMA StepsExist ==
    ASSUME NEW v, NEW path, NEW n \in Nat
    PROVE  \E at : AreSteps(at, v, path, n)
<1> DEFINE T == {m \in Nat : \E g : Steps(g, v, path, m)}
<1>1. 0 \in T
  <2> DEFINE g == [k \in 0..0 |-> v]
  <2>1. Steps(g, v, path, 0)
        BY DEF Steps
  <2> QED BY <2>1
<1>2. ASSUME NEW m \in Nat, m \in T PROVE m + 1 \in T
  <2>1. PICK g : Steps(g, v, path, m)
        BY <1>2
  <2> DEFINE h == [k \in 0..(m + 1) |-> IF k = m + 1 THEN VerifyStep(g[m], path[m + 1]) ELSE g[k]]
  <2>2. \A k \in 0..(m + 1) : h[k] = IF k = m + 1 THEN VerifyStep(g[m], path[m + 1]) ELSE g[k]
        OBVIOUS
  <2> HIDE DEF h
  <2>3. Steps(h, v, path, m + 1)
    <3> SUFFICES ASSUME NEW k \in 0..(m + 1)
                 PROVE  h[k] = IF k = 0 THEN v ELSE VerifyStep(h[k - 1], path[k])
        BY DEF Steps
    <3>1. CASE k = m + 1
      <4>1. m \in 0..(m + 1) /\ m # m + 1 /\ k - 1 = m /\ k # 0
            BY <3>1
      <4> QED BY <2>2, <3>1, <4>1
    <3>2. CASE k # m + 1
      <4>1. k \in 0..m
            BY <3>2
      <4>2. h[k] = g[k]
            BY <2>2, <3>2
      <4>3. CASE k = 0
            BY <2>1, <4>1, <4>2, <4>3 DEF Steps
      <4>4. CASE k # 0
        <5>1. k - 1 \in 0..(m + 1) /\ k - 1 # m + 1
              BY <4>1, <4>4
        <5>2. h[k - 1] = g[k - 1]
              BY <2>2, <5>1
        <5> QED BY <2>1, <4>1, <4>2, <4>4, <5>2 DEF Steps
      <4> QED BY <4>3, <4>4
    <3> QED BY <3>1, <3>2
  <2> QED BY <2>3
<1>3. n \in T
  <2> HIDE DEF T
  <2> QED BY <1>1, <1>2, StepByStep
<1>4. PICK g : Steps(g, v, path, n)
      BY <1>3
<1> DEFINE at == [k \in 0..n |-> g[k]]
<1>5. \A k \in 0..n : k # 0 => k - 1 \in 0..n
      OBVIOUS
<1>6. \A k \in 0..n : at[k] = IF k = 0 THEN v ELSE VerifyStep(at[k - 1], path[k])
      BY <1>4, <1>5 DEF Steps
<1>7. at = [k \in 0..n |-> IF k = 0 THEN v ELSE VerifyStep(at[k - 1], path[k])]
  <2>1. at = [k \in 0..n |-> at[k]]
        OBVIOUS
  <2> HIDE DEF at
  <2> QED BY <1>6, <2>1
<1> QED BY <1>7 DEF AreSteps

LEMMA StepsSolved ==
    ASSUME NEW v, NEW path, Len(path) \in Nat
    PROVE  \E at : Steps(at, v, path, Len(path)) /\ VerifySteps(v, path) = at[Len(path)]
<1> DEFINE at == CHOOSE at : AreSteps(at, v, path, Len(path))
<1>1. VerifySteps(v, path) = at[Len(path)]
      BY DEF VerifySteps, AreSteps
<1>2. \E g : AreSteps(g, v, path, Len(path))
      BY StepsExist
<1>3. AreSteps(at, v, path, Len(path))
      BY <1>2
<1> HIDE DEF at
<1>4. \A k \in 0..Len(path) : at[k] = IF k = 0 THEN v ELSE VerifyStep(at[k - 1], path[k])
      BY <1>3 DEF AreSteps
<1> QED BY <1>1, <1>4 DEF Steps

LEMMA StepsAgree ==
    ASSUME NEW v, NEW path, NEW other, NEW n \in Nat, NEW m \in Nat, n <= m, NEW g, NEW h,
           \A k \in 1..n : path[k] = other[k],
           Steps(g, v, path, n), Steps(h, v, other, m)
    PROVE  g[n] = h[n]
<1> DEFINE T == {k \in Nat : k <= n => g[k] = h[k]}
<1>1. 0 \in T
      BY DEF Steps
<1>2. ASSUME NEW k \in Nat, k \in T PROVE k + 1 \in T
  <2> SUFFICES ASSUME k + 1 <= n PROVE g[k + 1] = h[k + 1]
      OBVIOUS
  <2>1. g[k] = h[k]
        BY <1>2
  <2>2. k + 1 \in 0..n /\ k + 1 \in 0..m /\ k + 1 # 0 /\ (k + 1) - 1 = k /\ k + 1 \in 1..n
        OBVIOUS
  <2>3. g[k + 1] = VerifyStep(g[k], path[k + 1])
        BY <2>2 DEF Steps
  <2>4. h[k + 1] = VerifyStep(h[k], other[k + 1])
        BY <2>2 DEF Steps
  <2> QED BY <2>1, <2>2, <2>3, <2>4
<1>3. n \in T
  <2> HIDE DEF T
  <2> QED BY <1>1, <1>2, StepByStep
<1> QED BY <1>3

LEMMA NoSteps ==
    ASSUME NEW v
    PROVE  VerifySteps(v, <<>>) = v
<1>1. PICK e : e = <<>>
      OBVIOUS
<1>2. Len(e) = 0
      BY <1>1
<1>3. PICK at : Steps(at, v, e, Len(e)) /\ VerifySteps(v, e) = at[Len(e)]
      BY <1>2, StepsSolved
<1>4. at[0] = v
      BY <1>2, <1>3 DEF Steps
<1> QED BY <1>1, <1>2, <1>3, <1>4

LEMMA StepsAppended ==
    ASSUME NEW v, NEW S, NEW path \in Seq(S), NEW p \in S
    PROVE  VerifySteps(v, Append(path, p)) = VerifyStep(VerifySteps(v, path), p)
<1>2. PICK n \in Nat : n = Len(path)
      OBVIOUS
<1>3. PICK more : more = Append(path, p)
      OBVIOUS
<1>4. Len(more) = n + 1 /\ more[n + 1] = p /\ \A k \in 1..n : path[k] = more[k]
      BY <1>2, <1>3
<1>5. PICK g : Steps(g, v, path, n) /\ VerifySteps(v, path) = g[n]
      BY <1>2, StepsSolved
<1>6. PICK h : Steps(h, v, more, n + 1) /\ VerifySteps(v, more) = h[n + 1]
  <2>1. Len(more) \in Nat
        BY <1>4
  <2> QED BY <1>4, <2>1, StepsSolved
<1>7. g[n] = h[n]
  <2>1. n + 1 \in Nat /\ n <= n + 1
        OBVIOUS
  <2> QED BY <1>4, <1>5, <1>6, <2>1, StepsAgree
<1>8. h[n + 1] = VerifyStep(h[n], more[n + 1])
  <2>1. n + 1 \in 0..(n + 1) /\ n + 1 # 0 /\ (n + 1) - 1 = n
        OBVIOUS
  <2> QED BY <1>6, <2>1 DEF Steps
<1> QED BY <1>3, <1>4, <1>5, <1>6, <1>7, <1>8

(* What a step does, and what it needs.                                     *)
LEMMA StepOn ==
    ASSUME NEW h, NEW f, NEW s, s # 0, NEW p
    PROVE  /\ Odd(f) \/ f = s =>
                 VerifyStep(Standing(h, f, s), p)
                    = Standing(Pair(p, h), Half(Lifted(f, s)[1]), Half(Lifted(f, s)[2]))
           /\ ~ Odd(f) /\ f # s =>
                 VerifyStep(Standing(h, f, s), p) = Standing(Pair(h, p), Half(f), Half(s))
      BY DEF VerifyStep, Standing

LEMMA StepNeeds ==
    ASSUME NEW h, NEW f, NEW s, NEW p
    PROVE  /\ \E h2, f2, s2 : VerifyStep(Failed(h, f, s), p) = Failed(h2, f2, s2)
           /\ \E h2, f2, s2 :
                 \/ VerifyStep(Standing(h, f, s), p) = Failed(h2, f2, s2)
                 \/ s # 0 /\ VerifyStep(Standing(h, f, s), p) = Standing(h2, f2, s2)
<1>1. VerifyStep(Failed(h, f, s), p) = Failed(h, f, s)
      BY DEF VerifyStep, Failed
<1>2. CASE s = 0
  <2>1. VerifyStep(Standing(h, f, s), p) = Failed(h, f, s)
        BY <1>2 DEF VerifyStep, Standing, Failed
  <2> QED BY <1>1, <2>1
<1>3. CASE s # 0
      BY <1>1, <1>3, StepOn
<1> QED BY <1>2, <1>3

LEMMA StateTells ==
    ASSUME NEW h1, NEW f1, NEW s1, NEW h2, NEW f2, NEW s2
    PROVE  /\ Standing(h1, f1, s1) = Standing(h2, f2, s2) => h1 = h2 /\ f1 = f2 /\ s1 = s2
           /\ Standing(h1, f1, s1) # Failed(h2, f2, s2)
<1>1. /\ Standing(h1, f1, s1).ok = TRUE /\ Standing(h1, f1, s1).h = h1
      /\ Standing(h1, f1, s1).fn = f1 /\ Standing(h1, f1, s1).sn = s1
      BY DEF Standing
<1>2. /\ Standing(h2, f2, s2).h = h2 /\ Standing(h2, f2, s2).fn = f2 /\ Standing(h2, f2, s2).sn = s2
      BY DEF Standing
<1>3. Failed(h2, f2, s2).ok = FALSE
      BY DEF Failed
<1>4. Standing(h1, f1, s1) # Failed(h2, f2, s2)
      BY <1>1, <1>3
<1> QED BY <1>1, <1>2, <1>4

(* The sibling of a node that has one, and the hash of both.                *)
Sibling(lv, k, g) == Node(lv, k, IF Odd(g) THEN g - 1 ELSE g + 1)

Both(g, h, p) == IF Odd(g) THEN Pair(p, h) ELSE Pair(h, p)

LEMMA BothTell ==
    ASSUME NEW lv, NEW x \in Nat, Len(lv) = x + 1, NEW k \in Nat, NEW g \in Nat,
           g <= Shifted(x, k), Odd(g) \/ g # Shifted(x, k), NEW h, NEW p
    PROVE  /\ Half(g) \in Nat /\ Half(g) <= Shifted(x, k + 1)
           /\ Node(lv, k + 1, Half(g)) = Both(g, Node(lv, k, g), Sibling(lv, k, g))
           /\ Both(g, h, p) = Node(lv, k + 1, Half(g)) <=> h = Node(lv, k, g) /\ p = Sibling(lv, k, g)
<1>1. PICK i \in Nat : i = Half(g) /\ (Odd(g) => g = 2 * i + 1) /\ (~ Odd(g) => g = 2 * i)
      BY HalfFacts
<1>2. PICK s \in Nat : s = Shifted(x, k)
  <2>1. Shifted(x, k) \in Nat
        BY ShiftedSteps
  <2> QED BY <2>1
<1>3. 2 * i <= s /\ 2 * i + 1 <= s
      BY <1>1, <1>2
<1>4. Node(lv, k + 1, i) = Pair(Node(lv, k, 2 * i), Node(lv, k, 2 * i + 1))
      BY <1>2, <1>3, NodeUp
<1>5. \A a, b, c, d : Pair(a, b) = Pair(c, d) <=> a = c /\ b = d
      BY DEF Pair
<1>6. i <= Shifted(x, k + 1)
  <2>1. Shifted(x, k + 1) = Half(s)
        BY <1>2, ShiftedSteps
  <2>2. Half(s) \in Nat /\ (Odd(s) => s = 2 * Half(s) + 1) /\ (~ Odd(s) => s = 2 * Half(s))
        BY HalfFacts
  <2> QED BY <1>3, <2>1, <2>2
<1>7. Node(lv, k + 1, i) = Both(g, Node(lv, k, g), Sibling(lv, k, g))
  <2>1. CASE Odd(g)
    <3>1. g = 2 * i + 1 /\ g - 1 = 2 * i
          BY <1>1, <2>1
    <3> QED BY <1>4, <2>1, <3>1 DEF Both, Sibling
  <2>2. CASE ~ Odd(g)
    <3>1. g = 2 * i /\ g + 1 = 2 * i + 1
          BY <1>1, <2>2
    <3> QED BY <1>4, <2>2, <3>1 DEF Both, Sibling
  <2> QED BY <2>1, <2>2
<1>8. Both(g, h, p) = Both(g, Node(lv, k, g), Sibling(lv, k, g)) <=> h = Node(lv, k, g) /\ p = Sibling(lv, k, g)
      BY <1>5 DEF Both
<1> QED BY <1>1, <1>6, <1>7, <1>8

(* A step from a node of level j: from that node, or from the one it is     *)
(* raised to, to the node above.                                            *)
Rise(x, j, f, k, g) ==
    /\ j <= k /\ g <= Shifted(x, k) /\ (Odd(g) \/ g # Shifted(x, k))
    /\ \/ k = j /\ g = f
       \/ /\ f = Shifted(x, j) /\ g = Shifted(x, k)
          /\ \A t \in Nat : j <= t /\ t < k => ~ Odd(Shifted(x, t))

LEMMA StepFromLevel ==
    ASSUME NEW lv, NEW x \in Nat, Len(lv) = x + 1, NEW j \in Nat, NEW f \in Nat, f <= Shifted(x, j),
           Shifted(x, j) # 0, NEW h, NEW p
    PROVE  \E k \in Nat, g \in Nat :
              /\ Rise(x, j, f, k, g) /\ Node(lv, k, g) = Node(lv, j, f)
              /\ VerifyStep(Standing(h, f, Shifted(x, j)), p)
                    = Standing(Both(g, h, p), Half(g), Shifted(x, k + 1))
<1>1. PICK s \in Nat : s = Shifted(x, j) /\ s # 0 /\ Shifted(x, j + 1) = Half(s)
  <2>1. Shifted(x, j) \in Nat /\ Shifted(x, j + 1) = Half(Shifted(x, j))
        BY ShiftedSteps
  <2> QED BY <2>1
<1>2. CASE ~ Odd(f) /\ f # s
  <2>1. VerifyStep(Standing(h, f, s), p) = Standing(Pair(h, p), Half(f), Half(s))
        BY <1>1, <1>2, StepOn
  <2>2. Rise(x, j, f, j, f)
        BY <1>1, <1>2 DEF Rise
  <2>3. Both(f, h, p) = Pair(h, p)
        BY <1>2 DEF Both
  <2> QED BY <1>1, <2>1, <2>2, <2>3
<1>3. CASE Odd(f)
  <2>1. Lifted(f, s) = <<f, s>>
        BY <1>3, LiftedFact
  <2>2. VerifyStep(Standing(h, f, s), p) = Standing(Pair(p, h), Half(Lifted(f, s)[1]), Half(Lifted(f, s)[2]))
        BY <1>1, <1>3, StepOn
  <2>6. Lifted(f, s)[1] = f /\ Lifted(f, s)[2] = s
        BY <2>1
  <2>3. VerifyStep(Standing(h, f, s), p) = Standing(Pair(p, h), Half(f), Half(s))
        BY <2>2, <2>6
  <2>4. Rise(x, j, f, j, f)
        BY <1>1, <1>3 DEF Rise
  <2>5. Both(f, h, p) = Pair(p, h)
        BY <1>3 DEF Both
  <2> QED BY <1>1, <2>3, <2>4, <2>5
<1>4. CASE ~ Odd(f) /\ f = s
  <2>1. PICK k \in Nat : /\ j <= k /\ Lifted(f, f) = <<Shifted(x, k), Shifted(x, k)>>
                         /\ Odd(Shifted(x, k)) /\ \A t \in Nat : j <= t /\ t < k => ~ Odd(Shifted(x, t))
                         /\ Node(lv, k, Shifted(x, k)) = Node(lv, j, f)
        BY <1>1, <1>4, LiftedTo
  <2>2. PICK g \in Nat : g = Shifted(x, k) /\ Shifted(x, k + 1) = Half(g)
    <3>1. Shifted(x, k) \in Nat /\ Shifted(x, k + 1) = Half(Shifted(x, k))
          BY ShiftedSteps
    <3> QED BY <3>1
  <2>3. VerifyStep(Standing(h, f, s), p) = Standing(Pair(p, h), Half(Lifted(f, s)[1]), Half(Lifted(f, s)[2]))
        BY <1>1, <1>4, StepOn
  <2>7. Lifted(f, s)[1] = g /\ Lifted(f, s)[2] = g
        BY <1>4, <2>1, <2>2
  <2>4. VerifyStep(Standing(h, f, s), p) = Standing(Pair(p, h), Half(g), Half(g))
        BY <2>3, <2>7
  <2>5. Rise(x, j, f, k, g)
        BY <1>1, <1>4, <2>1, <2>2 DEF Rise
  <2>6. Both(g, h, p) = Pair(p, h)
        BY <2>1, <2>2 DEF Both
  <2> QED BY <1>1, <2>1, <2>2, <2>4, <2>5, <2>6
<1> QED BY <1>2, <1>3, <1>4

(* What verifies against the root is the leaf, in its place.                *)
Leads(lv, x, leaf, index, v) ==
    \/ \E h, f, s : v = Failed(h, f, s)
    \/ \E j \in Nat : \E f \in Nat : \E h :
          /\ v = Standing(h, f, Shifted(x, j)) /\ f <= Shifted(x, j)
          /\ h = Node(lv, j, f) => leaf = Node(lv, 0, index)

LEMMA StepLeads ==
    ASSUME NEW lv, NEW x \in Nat, Len(lv) = x + 1, NEW leaf, NEW index, NEW v, NEW p, Leads(lv, x, leaf, index, v)
    PROVE  Leads(lv, x, leaf, index, VerifyStep(v, p))
<1>1. CASE \E h, f, s : v = Failed(h, f, s)
  <2>1. PICK h, f, s : v = Failed(h, f, s)
        BY <1>1
  <2>2. \E h2, f2, s2 : VerifyStep(v, p) = Failed(h2, f2, s2)
        BY <2>1, StepNeeds
  <2> QED BY <2>2 DEF Leads
<1>2. CASE ~ \E h, f, s : v = Failed(h, f, s)
  <2>1. PICK j \in Nat : \E f \in Nat : \E h :
          /\ v = Standing(h, f, Shifted(x, j)) /\ f <= Shifted(x, j)
          /\ h = Node(lv, j, f) => leaf = Node(lv, 0, index)
        BY <1>2 DEF Leads
  <2>2. PICK f \in Nat : \E h :
          /\ v = Standing(h, f, Shifted(x, j)) /\ f <= Shifted(x, j)
          /\ h = Node(lv, j, f) => leaf = Node(lv, 0, index)
        BY <2>1
  <2>3. PICK h :
          /\ v = Standing(h, f, Shifted(x, j)) /\ f <= Shifted(x, j)
          /\ h = Node(lv, j, f) => leaf = Node(lv, 0, index)
        BY <2>2
  <2>4. CASE Shifted(x, j) = 0
    <3>1. PICK s : s = Shifted(x, j)
          OBVIOUS
    <3>2. \E h2, f2, s2 : VerifyStep(Standing(h, f, s), p) = Failed(h2, f2, s2)
      <4>1. s = 0
            BY <2>4, <3>1
      <4> QED BY <4>1, StepNeeds
    <3> QED BY <2>3, <3>1, <3>2 DEF Leads
  <2>5. CASE Shifted(x, j) # 0
    <3>1. PICK k \in Nat, g \in Nat :
              /\ Rise(x, j, f, k, g) /\ Node(lv, k, g) = Node(lv, j, f)
              /\ VerifyStep(Standing(h, f, Shifted(x, j)), p) = Standing(Both(g, h, p), Half(g), Shifted(x, k + 1))
          BY <2>3, <2>5, StepFromLevel
    <3>2. g <= Shifted(x, k) /\ (Odd(g) \/ g # Shifted(x, k))
          BY <3>1 DEF Rise
    <3>3. /\ Half(g) \in Nat /\ Half(g) <= Shifted(x, k + 1)
          /\ Node(lv, k + 1, Half(g)) = Both(g, Node(lv, k, g), Sibling(lv, k, g))
          /\ Both(g, h, p) = Node(lv, k + 1, Half(g)) <=> h = Node(lv, k, g) /\ p = Sibling(lv, k, g)
          BY <3>2, BothTell
    <3>4. Both(g, h, p) = Node(lv, k + 1, Half(g)) => leaf = Node(lv, 0, index)
          BY <2>3, <3>1, <3>3
    <3>5. k + 1 \in Nat
          OBVIOUS
    <3> QED BY <2>3, <3>1, <3>3, <3>4, <3>5 DEF Leads
  <2> QED BY <2>4, <2>5
<1> QED BY <1>1, <1>2

Accepted(v, root) == v.ok /\ v.sn = 0 /\ v.h = root

LEMMA InclusionSound ==
    ASSUME NEW lv, NEW x \in Nat, Len(lv) = x + 1, NEW index \in Nat, index <= x, NEW leaf,
           NEW path, Len(path) \in Nat,
           Accepted(VerifySteps(Standing(leaf, index, x), path), MTH(lv, 0, Len(lv)))
    PROVE  leaf = lv[index + 1]
<1>1. PICK v : v = Standing(leaf, index, x)
      OBVIOUS
<1>2. PICK n \in Nat : n = Len(path)
      OBVIOUS
<1>3. PICK at : Steps(at, v, path, n) /\ VerifySteps(v, path) = at[n]
      BY <1>2, StepsSolved
<1> DEFINE T == {k \in Nat : k <= n => Leads(lv, x, leaf, index, at[k])}
<1>4. 0 \in T
  <2>1. at[0] = v
        BY <1>3 DEF Steps
  <2>2. 0 \in Nat
        OBVIOUS
  <2>3. x = Shifted(x, 0)
        BY <2>2, ShiftedSteps
  <2>4. v = Standing(leaf, index, Shifted(x, 0)) /\ index <= Shifted(x, 0)
        BY <1>1, <2>3
  <2>5. Leads(lv, x, leaf, index, v)
        BY <2>2, <2>4 DEF Leads
  <2> QED BY <2>1, <2>5
<1>5. ASSUME NEW k \in Nat, k \in T PROVE k + 1 \in T
  <2> SUFFICES ASSUME k + 1 <= n PROVE Leads(lv, x, leaf, index, at[k + 1])
      OBVIOUS
  <2>1. k + 1 \in 0..n /\ k + 1 # 0 /\ (k + 1) - 1 = k
        OBVIOUS
  <2>2. at[k + 1] = VerifyStep(at[k], path[k + 1])
        BY <1>3, <2>1 DEF Steps
  <2>3. Leads(lv, x, leaf, index, at[k])
        BY <1>5
  <2> QED BY <2>2, <2>3, StepLeads
<1>6. n \in T
  <2> HIDE DEF T
  <2> QED BY <1>4, <1>5, StepByStep
<1>7. Leads(lv, x, leaf, index, at[n])
      BY <1>6
<1>8. Accepted(at[n], MTH(lv, 0, Len(lv)))
      BY <1>1, <1>3
<1>9. ~ \E h, f, s : at[n] = Failed(h, f, s)
  <2> SUFFICES ASSUME NEW h, NEW f, NEW s, at[n] = Failed(h, f, s) PROVE FALSE
      OBVIOUS
  <2>1. at[n].ok
        BY <1>8 DEF Accepted
  <2>2. Failed(h, f, s).ok = FALSE
        BY DEF Failed
  <2> QED BY <2>1, <2>2
<1>10. PICK j \in Nat : \E f \in Nat : \E h :
          /\ at[n] = Standing(h, f, Shifted(x, j)) /\ f <= Shifted(x, j)
          /\ h = Node(lv, j, f) => leaf = Node(lv, 0, index)
       BY <1>7, <1>9 DEF Leads
<1>11. PICK f \in Nat : \E h :
          /\ at[n] = Standing(h, f, Shifted(x, j)) /\ f <= Shifted(x, j)
          /\ h = Node(lv, j, f) => leaf = Node(lv, 0, index)
       BY <1>10
<1>12. PICK h :
          /\ at[n] = Standing(h, f, Shifted(x, j)) /\ f <= Shifted(x, j)
          /\ h = Node(lv, j, f) => leaf = Node(lv, 0, index)
       BY <1>11
<1>13. Shifted(x, j) = 0 /\ h = MTH(lv, 0, Len(lv))
       BY <1>8, <1>12 DEF Accepted, Standing
<1>14. f = 0
       BY <1>12, <1>13
<1>15. h = Node(lv, j, 0)
       BY <1>13, NodeRoot
<1>16. leaf = Node(lv, 0, index)
       BY <1>12, <1>14, <1>15
<1> QED BY <1>16, NodeLeaf

(* The hashes in a log: what two of them make up is one of them only if     *)
(* both are.                                                                *)
Hashes(lv) == {MTH(lv, r[1], r[2]) : r \in Ranges(lv)}

LEMMA LeavesFact ==
    ASSUME NEW S, NEW l \in Seq(S)
    PROVE  /\ Len(l) \in Nat /\ Len(Leaves(l)) = Len(l)
           /\ \A k \in 1..Len(l) : Leaves(l)[k] = LeafHash(l[k])
<1>1. PICK n \in Nat : n = Len(l) /\ DOMAIN l = 1..n
      OBVIOUS
<1>2. Leaves(l) = [k \in 1..n |-> LeafHash(l[k])]
      BY <1>1 DEF Leaves
<1>3. DOMAIN Leaves(l) = 1..n /\ \A k \in 1..n : Leaves(l)[k] = LeafHash(l[k])
      BY <1>2
<1>4. Len(Leaves(l)) = n
      BY <1>2, <1>1
<1> QED BY <1>1, <1>3, <1>4

LEMMA HashesTell ==
    ASSUME NEW S, NEW l \in Seq(S)
    PROVE  /\ \A a, b : Pair(a, b) \in Hashes(Leaves(l)) => a \in Hashes(Leaves(l)) /\ b \in Hashes(Leaves(l))
           /\ \A e : LeafHash(e) \in Hashes(Leaves(l)) => \E k \in DOMAIN l : l[k] = e
<1>1. PICK n \in Nat : n = Len(l) /\ DOMAIN l = 1..n
      OBVIOUS
<1>2. PICK lv : lv = Leaves(l) /\ Len(lv) = n /\ \A k \in 1..n : lv[k] = LeafHash(l[k])
      BY <1>1, LeavesFact
<1>3. ASSUME NEW h, h \in Hashes(lv)
      PROVE  \/ h = <<>>
             \/ \E k \in 1..n : h = LeafHash(l[k])
             \/ \E a \in Hashes(lv), b \in Hashes(lv) : h = Pair(a, b)
  <2>1. PICK lo \in 0..n, hi \in 0..n : h = MTH(lv, lo, hi)
        BY <1>2, <1>3 DEF Hashes, Ranges
  <2>2. CASE hi <= lo
        BY <1>2, <2>1, <2>2, MthSolved
  <2>3. CASE hi = lo + 1
    <3>1. hi \in 1..n
          BY <2>3
    <3>2. hi = lo + 1 => MTH(lv, lo, hi) = lv[hi]
          BY <1>2, MthSolved
    <3> QED BY <1>2, <2>1, <2>3, <3>1, <3>2
  <2>4. CASE lo + 2 <= hi
    <3>1. PICK cut \in 0..n : cut = lo + SplitAt(hi - lo)
          BY <2>4, PartsFact
    <3>2. h = Pair(MTH(lv, lo, cut), MTH(lv, cut, hi))
          BY <1>2, <2>1, <2>4, <3>1, MthSolved
    <3>3. MTH(lv, lo, cut) \in Hashes(lv) /\ MTH(lv, cut, hi) \in Hashes(lv)
      <4>1. <<lo, cut>> \in Ranges(lv) /\ <<cut, hi>> \in Ranges(lv)
            BY <1>2 DEF Ranges
      <4> QED BY <4>1 DEF Hashes
    <3> QED BY <3>2, <3>3
  <2>5. hi <= lo \/ hi = lo + 1 \/ lo + 2 <= hi
        OBVIOUS
  <2> QED BY <2>2, <2>3, <2>4, <2>5
<1>4. ASSUME NEW a, NEW b, Pair(a, b) \in Hashes(lv) PROVE a \in Hashes(lv) /\ b \in Hashes(lv)
  <2>1. Pair(a, b) # <<>> /\ \A e : Pair(a, b) # LeafHash(e)
        BY DEF Pair, LeafHash
  <2>2. PICK c \in Hashes(lv), d \in Hashes(lv) : Pair(a, b) = Pair(c, d)
        BY <1>3, <1>4, <2>1
  <2>3. a = c /\ b = d
        BY <2>2 DEF Pair
  <2> QED BY <2>3
<1>5. ASSUME NEW e, LeafHash(e) \in Hashes(lv) PROVE \E k \in 1..n : l[k] = e
  <2>1. LeafHash(e) # <<>> /\ \A a, b : LeafHash(e) # Pair(a, b)
        BY DEF Pair, LeafHash
  <2>2. PICK k \in 1..n : LeafHash(e) = LeafHash(l[k])
        BY <1>3, <1>5, <2>1
  <2>3. e = l[k]
        BY <2>2 DEF LeafHash
  <2> QED BY <2>3
<1> QED BY <1>1, <1>2, <1>4, <1>5

Uses(H, leaf, v) ==
    \/ \E h, f, s : v = Failed(h, f, s)
    \/ \E h, f, s : v = Standing(h, f, s) /\ (h \in H => leaf \in H)

LEMMA StepUses ==
    ASSUME NEW H, \A a, b : Pair(a, b) \in H => a \in H /\ b \in H, NEW leaf, NEW v, NEW p, Uses(H, leaf, v)
    PROVE  Uses(H, leaf, VerifyStep(v, p))
<1>1. CASE \E h, f, s : v = Failed(h, f, s)
  <2>1. PICK h, f, s : v = Failed(h, f, s)
        BY <1>1
  <2>2. \E h2, f2, s2 : VerifyStep(v, p) = Failed(h2, f2, s2)
        BY <2>1, StepNeeds
  <2> QED BY <2>2 DEF Uses
<1>2. CASE ~ \E h, f, s : v = Failed(h, f, s)
  <2>1. PICK h, f, s : v = Standing(h, f, s) /\ (h \in H => leaf \in H)
        BY <1>2 DEF Uses
  <2>2. CASE s = 0
    <3>1. \E h2, f2, s2 : VerifyStep(Standing(h, f, s), p) = Failed(h2, f2, s2)
          BY <2>2, StepNeeds
    <3> QED BY <2>1, <3>1 DEF Uses
  <2>3. CASE s # 0 /\ (Odd(f) \/ f = s)
    <3>1. VerifyStep(Standing(h, f, s), p) = Standing(Pair(p, h), Half(Lifted(f, s)[1]), Half(Lifted(f, s)[2]))
          BY <2>3, StepOn
    <3> QED BY <2>1, <3>1 DEF Uses
  <2>4. CASE s # 0 /\ ~ (Odd(f) \/ f = s)
    <3>1. VerifyStep(Standing(h, f, s), p) = Standing(Pair(h, p), Half(f), Half(s))
          BY <2>4, StepOn
    <3> QED BY <2>1, <3>1 DEF Uses
  <2> QED BY <2>2, <2>3, <2>4
<1> QED BY <1>1, <1>2

LEMMA InclusionUses ==
    ASSUME NEW H, \A a, b : Pair(a, b) \in H => a \in H /\ b \in H, NEW leaf, NEW f, NEW s,
           NEW path, Len(path) \in Nat, NEW root, root \in H,
           Accepted(VerifySteps(Standing(leaf, f, s), path), root)
    PROVE  leaf \in H
<1>1. PICK v : v = Standing(leaf, f, s)
      OBVIOUS
<1>2. PICK n \in Nat : n = Len(path)
      OBVIOUS
<1>3. PICK at : Steps(at, v, path, n) /\ VerifySteps(v, path) = at[n]
      BY <1>2, StepsSolved
<1> DEFINE T == {k \in Nat : k <= n => Uses(H, leaf, at[k])}
<1>4. 0 \in T
  <2>1. at[0] = v
        BY <1>3 DEF Steps
  <2>2. Uses(H, leaf, v)
        BY <1>1 DEF Uses
  <2> QED BY <2>1, <2>2
<1>5. ASSUME NEW k \in Nat, k \in T PROVE k + 1 \in T
  <2> SUFFICES ASSUME k + 1 <= n PROVE Uses(H, leaf, at[k + 1])
      OBVIOUS
  <2>1. k + 1 \in 0..n /\ k + 1 # 0 /\ (k + 1) - 1 = k
        OBVIOUS
  <2>2. at[k + 1] = VerifyStep(at[k], path[k + 1])
        BY <1>3, <2>1 DEF Steps
  <2>3. Uses(H, leaf, at[k])
        BY <1>5
  <2> QED BY <2>2, <2>3, StepUses
<1>6. n \in T
  <2> HIDE DEF T
  <2> QED BY <1>4, <1>5, StepByStep
<1>7. Uses(H, leaf, at[n]) /\ Accepted(at[n], root)
      BY <1>1, <1>3, <1>6
<1>8. ASSUME NEW h, NEW g, NEW w, at[n] = Failed(h, g, w) PROVE FALSE
  <2>1. at[n].ok
        BY <1>7 DEF Accepted
  <2>2. Failed(h, g, w).ok = FALSE
        BY DEF Failed
  <2> QED BY <1>8, <2>1, <2>2
<1>9. PICK h, g, w : at[n] = Standing(h, g, w) /\ (h \in H => leaf \in H)
      BY <1>7, <1>8 DEF Uses
<1>10. h = root
       BY <1>7, <1>9 DEF Accepted, Standing
<1> QED BY <1>9, <1>10

(* Whatever code is presented: its record is one of the log, and in its     *)
(* place if the size is the log's.                                          *)
LEMMA CodesAreSound ==
    ASSUME NEW S, NEW l \in Seq(S), NEW e, NEW qr, qr.index \in Nat, qr.size \in Nat, Len(qr.path) \in Nat,
           VerifyQr(qr, e, Root(l))
    PROVE  (\E k \in DOMAIN l : l[k] = e) /\ (qr.size = Len(l) => l[qr.index + 1] = e)
<1>1. PICK lv : lv = Leaves(l) /\ Len(lv) \in Nat /\ Len(lv) = Len(l) /\ \A k \in 1..Len(l) : lv[k] = LeafHash(l[k])
      BY LeavesFact
<1>2. PICK i, s, path : i = qr.index /\ s = qr.size - 1 /\ path = qr.path
      OBVIOUS
<1>3. i \in Nat /\ s \in Nat /\ i <= s /\ Len(path) \in Nat
      BY <1>2 DEF VerifyQr
<1>4. PICK leaf : leaf = LeafHash(e)
      OBVIOUS
<1>5. PICK root : root = MTH(lv, 0, Len(lv)) /\ root = Root(l)
      BY <1>1 DEF Root
<1>6. Accepted(VerifySteps(Standing(leaf, i, s), path), root)
  <2>1. Verify(qr, leaf, root)
        BY <1>4, <1>5 DEF VerifyQr
  <2>2. [ok |-> TRUE, h |-> leaf, fn |-> qr.index, sn |-> qr.size - 1] = Standing(leaf, i, s)
        BY <1>2 DEF Standing
  <2> QED BY <1>2, <2>1, <2>2 DEF Verify, Accepted
<1>7. \E k \in DOMAIN l : l[k] = e
  <2>1. PICK H : H = Hashes(lv)
        OBVIOUS
  <2>2. \A a, b : Pair(a, b) \in H => a \in H /\ b \in H
        BY <1>1, <2>1, HashesTell
  <2>3. root \in H
    <3>1. <<0, Len(lv)>> \in Ranges(lv)
          BY <1>1 DEF Ranges
    <3> QED BY <1>5, <2>1, <3>1 DEF Hashes
  <2>4. leaf \in H
        BY <1>3, <1>6, <2>2, <2>3, InclusionUses
  <2> QED BY <1>1, <1>4, <2>1, <2>4, HashesTell
<1>8. ASSUME qr.size = Len(l) PROVE l[qr.index + 1] = e
  <2>1. Len(lv) = s + 1
        BY <1>1, <1>2, <1>8
  <2>2. leaf = lv[i + 1]
        BY <1>3, <1>5, <1>6, <2>1, InclusionSound
  <2>3. i + 1 \in 1..Len(l)
        BY <1>1, <1>3, <2>1
  <2>4. LeafHash(e) = LeafHash(l[i + 1])
        BY <1>1, <1>4, <2>2, <2>3
  <2> QED BY <1>2, <2>4 DEF LeafHash
<1> QED BY <1>7, <1>8

-----------------------------------------------------------------------------
(* The proofs the log makes: from a leaf, or from the end of an older log,  *)
(* to a range around it, the hashes beside the way.                         *)
Spots(lv, c) == (c..Len(lv)) \X (0..Len(lv)) \X (0..Len(lv))

WayTo(g, lv, E, base, c, t) ==
    LET k == SplitAt(t[3] - t[2])
    IN  IF t \in E THEN base[t]
        ELSE IF t[1] < k + c THEN Append(g[<<t[1], t[2], t[2] + k>>], MTH(lv, t[2] + k, t[3]))
        ELSE Append(g[<<t[1] - k, t[2] + k, t[3]>>], MTH(lv, t[2], t[2] + k))

AreWays(g, lv, E, base, c) == g = [t \in Spots(lv, c) |-> WayTo(g, lv, E, base, c, t)]

Begins(lv, E, base, c) ==
    /\ Len(lv) \in Nat /\ c \in 0..1
    /\ \A t \in Spots(lv, c) : t \notin E => t[2] + 2 <= t[3]
    /\ \A t \in E : base[t] \in Seq(Hashes(lv))

LEMMA SpotsFact ==
    ASSUME NEW lv, NEW E, NEW base, NEW c, Begins(lv, E, base, c), NEW t \in Spots(lv, c), t \notin E
    PROVE  \E k \in Nat :
              /\ k = SplitAt(t[3] - t[2]) /\ 1 <= k /\ k < t[3] - t[2]
              /\ t[1] \in Nat /\ t[2] \in Nat /\ t[3] \in Nat
              /\ <<t[1], t[2], t[2] + k>> \in Spots(lv, c)
              /\ ~ (t[1] < k + c) => <<t[1] - k, t[2] + k, t[3]>> \in Spots(lv, c)
              /\ MTH(lv, t[2] + k, t[3]) \in Hashes(lv) /\ MTH(lv, t[2], t[2] + k) \in Hashes(lv)
<1>1. PICK n \in Nat : n = Len(lv)
      BY DEF Begins
<1>2. c \in 0..1 /\ t[1] \in c..n /\ t[2] \in 0..n /\ t[3] \in 0..n /\ t[2] + 2 <= t[3]
      BY <1>1 DEF Begins, Spots
<1>3. PICK k \in Nat : k = SplitAt(t[3] - t[2]) /\ t[2] + k \in 0..n /\ t[2] < t[2] + k /\ t[2] + k < t[3]
      BY <1>2, PartsFact
<1>4. <<t[1], t[2], t[2] + k>> \in Spots(lv, c)
      BY <1>1, <1>2, <1>3 DEF Spots
<1>5. ASSUME ~ (t[1] < k + c) PROVE <<t[1] - k, t[2] + k, t[3]>> \in Spots(lv, c)
  <2>1. t[1] - k \in c..n
        BY <1>2, <1>3, <1>5
  <2> QED BY <1>1, <1>2, <1>3, <2>1 DEF Spots
<1>6. MTH(lv, t[2] + k, t[3]) \in Hashes(lv)
  <2>1. <<t[2] + k, t[3]>> \in Ranges(lv)
        BY <1>1, <1>2, <1>3 DEF Ranges
  <2> QED BY <2>1 DEF Hashes
<1>7. MTH(lv, t[2], t[2] + k) \in Hashes(lv)
  <2>1. <<t[2], t[2] + k>> \in Ranges(lv)
        BY <1>1, <1>2, <1>3 DEF Ranges
  <2> QED BY <2>1 DEF Hashes
<1>8. 1 <= k /\ k < t[3] - t[2]
      BY <1>2, <1>3
<1>9. t[1] \in Nat /\ t[2] \in Nat /\ t[3] \in Nat
      BY <1>2
<1>10. /\ k = SplitAt(t[3] - t[2]) /\ 1 <= k /\ k < t[3] - t[2]
       /\ t[1] \in Nat /\ t[2] \in Nat /\ t[3] \in Nat
       /\ <<t[1], t[2], t[2] + k>> \in Spots(lv, c)
       /\ ~ (t[1] < k + c) => <<t[1] - k, t[2] + k, t[3]>> \in Spots(lv, c)
       /\ MTH(lv, t[2] + k, t[3]) \in Hashes(lv) /\ MTH(lv, t[2], t[2] + k) \in Hashes(lv)
      BY <1>3, <1>4, <1>5, <1>6, <1>7, <1>8, <1>9
<1> QED BY <1>10

LEMMA WayToShorter ==
    ASSUME NEW lv, NEW E, NEW base, NEW c, Begins(lv, E, base, c), NEW t \in Spots(lv, c), NEW f, NEW g,
           \A q \in Spots(lv, c) : q[3] - q[2] < t[3] - t[2] => f[q] = g[q] /\ g[q] \in Seq(Hashes(lv))
    PROVE  /\ WayTo(f, lv, E, base, c, t) = WayTo(g, lv, E, base, c, t)
           /\ WayTo(g, lv, E, base, c, t) \in Seq(Hashes(lv))
<1>1. CASE t \in E
      BY <1>1 DEF WayTo, Begins
<1>2. CASE t \notin E
  <2>1. PICK k \in Nat :
              /\ k = SplitAt(t[3] - t[2]) /\ 1 <= k /\ k < t[3] - t[2]
              /\ t[1] \in Nat /\ t[2] \in Nat /\ t[3] \in Nat
              /\ <<t[1], t[2], t[2] + k>> \in Spots(lv, c)
              /\ ~ (t[1] < k + c) => <<t[1] - k, t[2] + k, t[3]>> \in Spots(lv, c)
              /\ MTH(lv, t[2] + k, t[3]) \in Hashes(lv) /\ MTH(lv, t[2], t[2] + k) \in Hashes(lv)
        BY <1>2, SpotsFact
  <2>2. CASE t[1] < k + c
    <3>1. PICK q \in Spots(lv, c) : q = <<t[1], t[2], t[2] + k>>
          BY <2>1
    <3>2. q[3] - q[2] < t[3] - t[2]
          BY <2>1, <3>1
    <3>3. f[q] = g[q] /\ g[q] \in Seq(Hashes(lv))
          BY <3>2
    <3>4. WayTo(f, lv, E, base, c, t) = Append(f[q], MTH(lv, t[2] + k, t[3]))
          BY <1>2, <2>1, <2>2, <3>1 DEF WayTo
    <3>5. WayTo(g, lv, E, base, c, t) = Append(g[q], MTH(lv, t[2] + k, t[3]))
          BY <1>2, <2>1, <2>2, <3>1 DEF WayTo
    <3> QED BY <2>1, <3>3, <3>4, <3>5
  <2>3. CASE ~ (t[1] < k + c)
    <3>1. PICK q \in Spots(lv, c) : q = <<t[1] - k, t[2] + k, t[3]>>
          BY <2>1, <2>3
    <3>2. q[3] - q[2] < t[3] - t[2]
          BY <2>1, <3>1
    <3>3. f[q] = g[q] /\ g[q] \in Seq(Hashes(lv))
          BY <3>2
    <3>4. WayTo(f, lv, E, base, c, t) = Append(f[q], MTH(lv, t[2], t[2] + k))
          BY <1>2, <2>1, <2>3, <3>1 DEF WayTo
    <3>5. WayTo(g, lv, E, base, c, t) = Append(g[q], MTH(lv, t[2], t[2] + k))
          BY <1>2, <2>1, <2>3, <3>1 DEF WayTo
    <3> QED BY <2>1, <3>3, <3>4, <3>5
  <2> QED BY <2>2, <2>3
<1> QED BY <1>1, <1>2

LEMMA WaysExist ==
    ASSUME NEW lv, NEW E, NEW base, NEW c, Begins(lv, E, base, c)
    PROVE  \E g : AreWays(g, lv, E, base, c) /\ \A t \in Spots(lv, c) : g[t] \in Seq(Hashes(lv))
<1> DEFINE Done(g, t) == g[t] = WayTo(g, lv, E, base, c, t) /\ g[t] \in Seq(Hashes(lv))
           Up(g, d) == \A t \in Spots(lv, c) : t[3] <= t[2] + d => Done(g, t)
           T == {d \in Nat : \E g : Up(g, d)}
<1>0. \A t \in Spots(lv, c) : t[2] \in Nat /\ t[3] \in Nat /\ t[3] <= Len(lv) /\ Len(lv) \in Nat
      BY DEF Spots, Begins
<1>1. 0 \in T
  <2> DEFINE g == [t \in Spots(lv, c) |-> base[t]]
  <2>1. ASSUME NEW t \in Spots(lv, c), t[3] <= t[2] + 0 PROVE Done(g, t)
    <3>1. t \in E /\ base[t] \in Seq(Hashes(lv))
          BY <1>0, <2>1 DEF Begins
    <3>2. WayTo(g, lv, E, base, c, t) = base[t]
          BY <3>1 DEF WayTo
    <3> QED BY <3>1, <3>2
  <2> HIDE DEF g
  <2>2. Up(g, 0)
        BY <2>1
  <2> QED BY <2>2
<1>2. ASSUME NEW d \in Nat, d \in T PROVE d + 1 \in T
  <2>1. PICK g : Up(g, d)
        BY <1>2
  <2> DEFINE h == [t \in Spots(lv, c) |-> IF t[3] = t[2] + (d + 1) THEN WayTo(g, lv, E, base, c, t) ELSE g[t]]
  <2>2. \A t \in Spots(lv, c) : h[t] = IF t[3] = t[2] + (d + 1) THEN WayTo(g, lv, E, base, c, t) ELSE g[t]
        OBVIOUS
  <2> HIDE DEF h
  <2>3. ASSUME NEW t \in Spots(lv, c), t[3] <= t[2] + (d + 1) PROVE Done(h, t)
    <3>1. \A q \in Spots(lv, c) : q[3] - q[2] < t[3] - t[2] => h[q] = g[q] /\ g[q] \in Seq(Hashes(lv))
      <4> SUFFICES ASSUME NEW q \in Spots(lv, c), q[3] - q[2] < t[3] - t[2]
                   PROVE  h[q] = g[q] /\ g[q] \in Seq(Hashes(lv))
          OBVIOUS
      <4>1. PICK b \in Nat, e \in Nat, y \in Nat, z \in Nat : b = q[2] /\ e = q[3] /\ y = t[2] /\ z = t[3]
            BY <1>0
      <4>2. e # b + (d + 1) /\ e <= b + d
            BY <2>3, <4>1
      <4>3. q[3] # q[2] + (d + 1) /\ q[3] <= q[2] + d
            BY <4>1, <4>2
      <4> QED BY <2>1, <2>2, <4>3
    <3>2. WayTo(h, lv, E, base, c, t) = WayTo(g, lv, E, base, c, t)
          /\ WayTo(g, lv, E, base, c, t) \in Seq(Hashes(lv))
          BY <3>1, WayToShorter
    <3>3. CASE t[3] = t[2] + (d + 1)
          BY <2>2, <3>2, <3>3
    <3>4. CASE t[3] # t[2] + (d + 1)
      <4>1. t[3] <= t[2] + d
            BY <1>0, <2>3, <3>4
      <4> QED BY <2>1, <2>2, <3>2, <3>4, <4>1
    <3> QED BY <3>3, <3>4
  <2>4. Up(h, d + 1)
        BY <2>3
  <2> HIDE DEF Up
  <2> QED BY <2>4
<1> HIDE DEF T
<1>3. PICK n \in Nat : n = Len(lv)
      BY DEF Begins
<1>4. n \in T
      BY <1>1, <1>2, StepByStep
<1>5. PICK g : Up(g, n)
      BY <1>4 DEF T
<1>6. \A t \in Spots(lv, c) : Done(g, t)
      BY <1>0, <1>3, <1>5
<1> DEFINE h == [t \in Spots(lv, c) |-> g[t]]
<1>7. \A t \in Spots(lv, c) : h[t] = g[t] /\ h[t] \in Seq(Hashes(lv))
      BY <1>6
<1>8. h = [t \in Spots(lv, c) |-> WayTo(g, lv, E, base, c, t)]
      BY <1>6
<1> HIDE DEF h
<1>9. \A t \in Spots(lv, c) : WayTo(g, lv, E, base, c, t) = WayTo(h, lv, E, base, c, t)
      BY <1>7, WayToShorter
<1>10. h = [t \in Spots(lv, c) |-> WayTo(h, lv, E, base, c, t)]
      BY <1>8, <1>9
<1> QED BY <1>7, <1>10 DEF AreWays

(* From level to level the way grows by the sibling, if there is one.       *)
PlaceAt(lv, i, c, j) ==
    <<(i + c) - Shifted(i, j) * Power(j), Shifted(i, j) * Power(j), Cap(Len(lv), (Shifted(i, j) + 1) * Power(j))>>

LEMMA PlaceFact ==
    ASSUME NEW lv, NEW x \in Nat, Len(lv) = x + 1, NEW c \in 0..1, NEW i \in Nat, i <= x, NEW j \in Nat
    PROVE  PlaceAt(lv, i, c, j) \in Spots(lv, c)
<1>1. PICK p \in Nat : p = Power(j)
      BY PowersOfTwo
<1>2. PICK k \in Nat : k = Shifted(i, j) /\ k * p <= i /\ i < (k + 1) * p
  <2>1. Shifted(i, j) \in Nat
        BY ShiftedSteps
  <2>2. Shifted(i, j) * p <= i /\ i < (Shifted(i, j) + 1) * p
        BY <1>1, ShiftedRange
  <2> QED BY <2>1, <2>2
<1>3. PICK lo \in Nat : lo = k * p /\ lo <= i
  <2>1. k * p \in Nat
        OBVIOUS
  <2> QED BY <1>2, <2>1
<1>4. PICK hi \in Nat : hi = Cap(Len(lv), (k + 1) * p) /\ hi <= x + 1
  <2>1. (k + 1) * p \in Nat
        OBVIOUS
  <2> QED BY <2>1 DEF Cap
<1>5. PlaceAt(lv, i, c, j) = <<(i + c) - lo, lo, hi>>
      BY <1>1, <1>2, <1>3, <1>4 DEF PlaceAt
<1>6. (i + c) - lo \in c..(x + 1) /\ lo \in 0..(x + 1) /\ hi \in 0..(x + 1)
      BY <1>3, <1>4
<1> QED BY <1>5, <1>6 DEF Spots

HasSibling(x, i, k) == Odd(Shifted(i, k)) \/ Shifted(i, k) # Shifted(x, k)

WayGrows(g, lv, E, c, x, i, j) ==
    /\ ~ HasSibling(x, i, j) => PlaceAt(lv, i, c, j + 1) = PlaceAt(lv, i, c, j)
    /\ HasSibling(x, i, j) /\ PlaceAt(lv, i, c, j + 1) \notin E =>
          g[PlaceAt(lv, i, c, j + 1)] = Append(g[PlaceAt(lv, i, c, j)], Sibling(lv, j, Shifted(i, j)))
    /\ HasSibling(x, i, j) => PlaceAt(lv, i, c, j + 1)[2] + 1 < PlaceAt(lv, i, c, j + 1)[3]

LEMMA PlaceUp ==
    ASSUME NEW lv, NEW x \in Nat, Len(lv) = x + 1, NEW c \in 0..1, NEW i \in Nat, i <= x, NEW j \in Nat,
           NEW E, NEW base, NEW g, Begins(lv, E, base, c), AreWays(g, lv, E, base, c)
    PROVE  WayGrows(g, lv, E, c, x, i, j)
<1> SUFFICES
           /\ ~ (Odd(Shifted(i, j)) \/ Shifted(i, j) # Shifted(x, j)) =>
                 PlaceAt(lv, i, c, j + 1) = PlaceAt(lv, i, c, j)
           /\ (Odd(Shifted(i, j)) \/ Shifted(i, j) # Shifted(x, j)) /\ PlaceAt(lv, i, c, j + 1) \notin E =>
                 g[PlaceAt(lv, i, c, j + 1)] = Append(g[PlaceAt(lv, i, c, j)], Sibling(lv, j, Shifted(i, j)))
           /\ Odd(Shifted(i, j)) \/ Shifted(i, j) # Shifted(x, j) =>
                 PlaceAt(lv, i, c, j + 1)[2] + 1 < PlaceAt(lv, i, c, j + 1)[3]
    BY DEF WayGrows, HasSibling
<1>1. PICK p \in Nat : p = Power(j) /\ p # 0 /\ Power(j + 1) = 2 * p
      BY PowersGrow, PowersOfTwo
<1>0. p # 0
      BY <1>1
<1>2. PICK k \in Nat : k = Shifted(i, j) /\ k * p <= i /\ i < (k + 1) * p /\ Shifted(i, j + 1) = Half(k)
  <2>1. Shifted(i, j) \in Nat /\ Shifted(i, j + 1) = Half(Shifted(i, j))
        BY ShiftedSteps
  <2>2. Shifted(i, j) * p <= i /\ i < (Shifted(i, j) + 1) * p
        BY <1>1, ShiftedRange
  <2> QED BY <2>1, <2>2
<1>3. PICK h \in Nat : h = Half(k) /\ (Odd(k) => k = 2 * h + 1) /\ (~ Odd(k) => k = 2 * h)
      BY HalfFacts
<1>4. PICK s \in Nat : s = Shifted(x, j) /\ k <= s
  <2>1. Shifted(x, j) \in Nat
        BY ShiftedSteps
  <2>2. i \in Nat /\ i <= x
        OBVIOUS
  <2>3. Shifted(i, j) <= Shifted(x, j)
        BY <2>2, ShiftedOrder
  <2> QED BY <1>2, <2>1, <2>3
<1>5. PICK n \in Nat : n = Len(lv) /\ n = x + 1
      OBVIOUS
<1>6. PICK lo \in Nat : lo = k * p /\ (k + 1) * p = lo + p /\ ((k + 1) + 1) * p = lo + 2 * p
  <2>1. k * p \in Nat /\ (k + 1) * p = k * p + p /\ ((k + 1) + 1) * p = k * p + 2 * p
        OBVIOUS
  <2> QED BY <2>1
<1>7. PICK up \in Nat : up = h * (2 * p) /\ up = (2 * h) * p /\ (h + 1) * (2 * p) = up + 2 * p /\ (2 * h + 1) * p = up + p
  <2>1. /\ h * (2 * p) \in Nat /\ h * (2 * p) = (2 * h) * p
        /\ (h + 1) * (2 * p) = h * (2 * p) + 2 * p /\ (2 * h + 1) * p = h * (2 * p) + p
        OBVIOUS
  <2> QED BY <2>1
<1>8. PlaceAt(lv, i, c, j) = <<(i + c) - lo, lo, Cap(n, lo + p)>>
      BY <1>1, <1>2, <1>5, <1>6 DEF PlaceAt
<1>9. PlaceAt(lv, i, c, j + 1) = <<(i + c) - up, up, Cap(n, up + 2 * p)>>
      BY <1>1, <1>2, <1>3, <1>5, <1>7 DEF PlaceAt
<1>10. lo <= i /\ i < lo + p /\ lo < n
      BY <1>2, <1>5, <1>6
<1>11. k + 1 <= s <=> lo + p < n
  <2>1. PICK m \in Nat : m = k + 1
        OBVIOUS
  <2>2. m <= Shifted(x, j) <=> m * Power(j) <= x
        BY LevelFact
  <2>3. m * p = lo + p
        BY <1>6, <2>1
  <2>4. m <= s <=> lo + p <= x
        BY <1>1, <1>4, <2>2, <2>3
  <2> QED BY <1>5, <2>1, <2>4
<1>12. PICK t : t = PlaceAt(lv, i, c, j + 1)
      OBVIOUS
<1>13. PICK hi \in Nat : hi = Cap(n, up + 2 * p) /\ hi <= n
      BY DEF Cap
<1>14. t = <<(i + c) - up, up, hi>> /\ t[1] = (i + c) - up /\ t[2] = up /\ t[3] = hi
      BY <1>9, <1>12, <1>13
<1>15. t \in Spots(lv, c)
      BY <1>12, PlaceFact
<1>16. g[t] = WayTo(g, lv, E, base, c, t)
      BY <1>15 DEF AreWays
<1>17. CASE ~ Odd(k) /\ k = s
  <2>1. ~ (lo + p < n) /\ up = lo
    <3>1. k = 2 * h /\ ~ (k + 1 <= s)
          BY <1>3, <1>17
    <3>2. lo = (2 * h) * p
          BY <1>6, <3>1
    <3> QED BY <1>7, <1>11, <3>1, <3>2
  <2>2. Cap(n, lo + p) = n /\ Cap(n, up + 2 * p) = n
        BY <1>0, <2>1 DEF Cap
  <2> QED BY <1>2, <1>4, <1>8, <1>9, <1>17, <2>1, <2>2
<1>18. CASE Odd(k)
  <2>1. k = 2 * h + 1 /\ lo = up + p /\ k - 1 = 2 * h
    <3>1. k = 2 * h + 1
          BY <1>3, <1>18
    <3>2. lo = (2 * h + 1) * p
          BY <1>6, <3>1
    <3>3. lo = up + p
          BY <1>7, <3>2
    <3> QED BY <3>1, <3>3
  <2>2. hi = Cap(n, lo + p) /\ lo < hi /\ hi <= lo + p
    <3>1. up + 2 * p = lo + p
          BY <2>1
    <3> QED BY <1>0, <1>10, <1>13, <3>1 DEF Cap
  <2>3. SplitAt(hi - up) = p
    <3>1. PICK d \in Nat : d = hi - up /\ p < d /\ d <= 2 * p /\ 2 <= d
      <4>1. 1 <= p /\ up + p < hi /\ hi <= (up + p) + p
            BY <1>1, <2>1, <2>2
      <4>2. hi - up \in Nat /\ p < hi - up /\ hi - up <= 2 * p /\ 2 <= hi - up
            BY <4>1
      <4> QED BY <4>2
    <3> QED BY <1>1, <3>1, SplitFacts
  <2>4. ~ ((i + c) - up < p + c) /\ ((i + c) - up) - p = (i + c) - lo
        BY <1>10, <2>1
  <2>5. t \notin E => g[t] = Append(g[<<(i + c) - lo, lo, hi>>], MTH(lv, up, lo))
        BY <1>14, <1>16, <2>1, <2>3, <2>4 DEF WayTo
  <2>6. Sibling(lv, j, k) = MTH(lv, up, lo)
    <3>1. (2 * h) * Power(j) = up /\ (2 * h + 1) * Power(j) = lo
          BY <1>1, <1>7, <2>1
    <3>2. Cap(n, lo) = lo
          BY <1>10 DEF Cap
    <3> QED BY <1>5, <1>18, <2>1, <3>1, <3>2 DEF Sibling, Node
  <2>7. t[2] + 1 < t[3]
    <3>1. 1 <= p /\ up + p < hi
          BY <1>1, <2>1, <2>2
    <3> QED BY <1>14, <3>1
  <2> QED BY <1>2, <1>8, <1>12, <1>18, <2>2, <2>5, <2>6, <2>7
<1>19. CASE ~ Odd(k) /\ k # s
  <2>1. k = 2 * h /\ lo = up /\ k + 1 <= s
    <3>1. k = 2 * h /\ k + 1 <= s
          BY <1>3, <1>4, <1>19
    <3>2. lo = (2 * h) * p
          BY <1>6, <3>1
    <3>3. lo = up
          BY <1>7, <3>2
    <3> QED BY <3>1, <3>3
  <2>2. lo + p < n /\ Cap(n, lo + p) = lo + p
        BY <1>11, <2>1 DEF Cap
  <2>3. hi = Cap(n, lo + 2 * p) /\ lo + p < hi /\ hi <= lo + 2 * p
    <3>1. hi = Cap(n, lo + 2 * p)
          BY <1>13, <2>1
    <3> QED BY <1>0, <2>2, <3>1 DEF Cap
  <2>4. SplitAt(hi - up) = p
    <3>1. PICK d \in Nat : d = hi - up /\ p < d /\ d <= 2 * p /\ 2 <= d
      <4>1. hi - up \in Nat /\ p < hi - up /\ hi - up <= 2 * p /\ 2 <= hi - up
            BY <1>0, <2>1, <2>3
      <4> QED BY <4>1
    <3> QED BY <1>1, <3>1, SplitFacts
  <2>5. (i + c) - up < p + c /\ (i + c) - up = (i + c) - lo
        BY <1>10, <2>1
  <2>6. t \notin E => g[t] = Append(g[<<(i + c) - lo, lo, lo + p>>], MTH(lv, lo + p, hi))
        BY <1>14, <1>16, <2>1, <2>4, <2>5 DEF WayTo
  <2>7. Sibling(lv, j, k) = MTH(lv, lo + p, hi)
    <3>1. (k + 1) * Power(j) = lo + p /\ ((k + 1) + 1) * Power(j) = lo + 2 * p
          BY <1>1, <1>6
    <3> QED BY <1>5, <1>19, <2>3, <3>1 DEF Sibling, Node
  <2>8. t[2] + 1 < t[3]
        BY <1>0, <1>14, <2>1, <2>3
  <2> QED BY <1>2, <1>4, <1>8, <1>12, <1>19, <2>2, <2>6, <2>7, <2>8
<1> QED BY <1>2, <1>4, <1>17, <1>18, <1>19

LEMMA WaysTyped ==
    ASSUME NEW lv, NEW E, NEW base, NEW c, Begins(lv, E, base, c), NEW g, AreWays(g, lv, E, base, c)
    PROVE  \A t \in Spots(lv, c) : g[t] = WayTo(g, lv, E, base, c, t) /\ g[t] \in Seq(Hashes(lv))
<1> DEFINE T == {d \in Nat : \A t \in Spots(lv, c) : t[3] <= t[2] + d => g[t] \in Seq(Hashes(lv))}
<1>0. \A t \in Spots(lv, c) : t[2] \in Nat /\ t[3] \in Nat /\ t[3] <= Len(lv) /\ Len(lv) \in Nat
      BY DEF Spots, Begins
<1>1. \A t \in Spots(lv, c) : g[t] = WayTo(g, lv, E, base, c, t)
      BY DEF AreWays
<1>2. 0 \in T
  <2> SUFFICES ASSUME NEW t \in Spots(lv, c), t[3] <= t[2] + 0 PROVE g[t] \in Seq(Hashes(lv))
      OBVIOUS
  <2>1. t \in E /\ base[t] \in Seq(Hashes(lv))
        BY <1>0 DEF Begins
  <2>2. WayTo(g, lv, E, base, c, t) = base[t]
        BY <2>1 DEF WayTo
  <2> QED BY <1>1, <2>1, <2>2
<1>3. ASSUME NEW d \in Nat, d \in T PROVE d + 1 \in T
  <2> SUFFICES ASSUME NEW t \in Spots(lv, c), t[3] <= t[2] + (d + 1) PROVE g[t] \in Seq(Hashes(lv))
      OBVIOUS
  <2>1. \A q \in Spots(lv, c) : q[3] - q[2] < t[3] - t[2] => g[q] = g[q] /\ g[q] \in Seq(Hashes(lv))
    <3> SUFFICES ASSUME NEW q \in Spots(lv, c), q[3] - q[2] < t[3] - t[2] PROVE g[q] \in Seq(Hashes(lv))
        OBVIOUS
    <3>1. PICK b \in Nat, e \in Nat, y \in Nat, z \in Nat : b = q[2] /\ e = q[3] /\ y = t[2] /\ z = t[3]
          BY <1>0
    <3>2. e <= b + d
          BY <3>1
    <3> QED BY <1>3, <3>1, <3>2
  <2>2. WayTo(g, lv, E, base, c, t) \in Seq(Hashes(lv))
        BY <2>1, WayToShorter
  <2> QED BY <1>1, <2>2
<1>4. PICK n \in Nat : n = Len(lv)
      BY DEF Begins
<1>5. n \in T
  <2> HIDE DEF T
  <2> QED BY <1>2, <1>3, StepByStep
<1>6. \A t \in Spots(lv, c) : g[t] \in Seq(Hashes(lv))
      BY <1>0, <1>4, <1>5
<1> QED BY <1>1, <1>6

Short(lv) == {t \in Spots(lv, 0) : t[3] <= t[2] + 1}

LEMMA InclusionWay ==
    ASSUME NEW lv, Len(lv) \in Nat
    PROVE  \E g, base :
              /\ Begins(lv, Short(lv), base, 0) /\ AreWays(g, lv, Short(lv), base, 0)
              /\ \A t \in Short(lv) : base[t] = <<>>
              /\ \A m, lo, hi : InclusionPath(lv, m, lo, hi) = g[<<m, lo, hi>>]
<1> DEFINE Body(g, t) == LET k == SplitAt(t[3] - t[2])
                         IN  IF t[3] <= t[2] + 1 THEN <<>>
                             ELSE IF t[1] < k THEN Append(g[<<t[1], t[2], t[2] + k>>], MTH(lv, t[2] + k, t[3]))
                             ELSE Append(g[<<t[1] - k, t[2] + k, t[3]>>], MTH(lv, t[2], t[2] + k))
           Solves(g) == g = [t \in (0..Len(lv)) \X (0..Len(lv)) \X (0..Len(lv)) |-> Body(g, t)]
           g == CHOOSE g : Solves(g)
<1>1. \A m, lo, hi : InclusionPath(lv, m, lo, hi) = g[<<m, lo, hi>>]
      BY DEF InclusionPath
<1>2. PICK base : base = [t \in Short(lv) |-> <<>>]
      OBVIOUS
<1>3. \A t \in Short(lv) : base[t] = <<>>
      BY <1>2
<1>4. Begins(lv, Short(lv), base, 0)
  <2>1. \A t \in Spots(lv, 0) : t \notin Short(lv) => t[2] + 2 <= t[3]
    <3> SUFFICES ASSUME NEW t \in Spots(lv, 0), t \notin Short(lv) PROVE t[2] + 2 <= t[3]
        OBVIOUS
    <3>1. t[2] \in Nat /\ t[3] \in Nat
          BY DEF Spots
    <3> QED BY <3>1 DEF Short
  <2>2. \A t \in Short(lv) : base[t] \in Seq(Hashes(lv))
    <3>1. <<>> \in Seq(Hashes(lv))
          OBVIOUS
    <3> QED BY <1>3, <3>1
  <2> QED BY <2>1, <2>2 DEF Begins
<1>5. ASSUME NEW h, NEW t \in Spots(lv, 0) PROVE Body(h, t) = WayTo(h, lv, Short(lv), base, 0, t)
  <2>1. CASE t \in Short(lv)
    <3>1. t[3] <= t[2] + 1
          BY <2>1 DEF Short
    <3> QED BY <1>3, <2>1, <3>1 DEF WayTo
  <2>2. CASE t \notin Short(lv)
    <3>1. PICK k \in Nat : k = SplitAt(t[3] - t[2]) /\ k + 0 = k
      <4>1. t[2] \in Nat /\ t[3] \in Nat /\ t[2] + 2 <= t[3]
            BY <1>4, <2>2 DEF Begins, Spots
      <4>2. t[3] - t[2] \in Nat /\ 2 <= t[3] - t[2]
            BY <4>1
      <4>3. SplitAt(t[3] - t[2]) \in Nat
            BY <4>2, SplitFacts
      <4> QED BY <4>3
    <3>2. ~ (t[3] <= t[2] + 1)
          BY <2>2 DEF Short
    <3>3. t[1] < k + 0 <=> t[1] < k
          BY <3>1
    <3> QED BY <2>2, <3>1, <3>2, <3>3 DEF WayTo
  <2> QED BY <2>1, <2>2
<1> HIDE DEF Body
<1>6. \A h : Solves(h) <=> AreWays(h, lv, Short(lv), base, 0)
      BY <1>5 DEF AreWays, Spots
<1>7. \E h : Solves(h)
  <2> HIDE DEF Solves
  <2> QED BY <1>4, <1>6, WaysExist
<1>8. Solves(g)
  <2> HIDE DEF Solves
  <2> QED BY <1>7
<1>9. AreWays(g, lv, Short(lv), base, 0)
  <2> HIDE DEF g, Solves
  <2> QED BY <1>6, <1>8
<1> HIDE DEF g, Solves
<1> QED BY <1>1, <1>3, <1>4, <1>9

-----------------------------------------------------------------------------
(* A way that is gone: from level j a node is the last of its level, and    *)
(* has no sibling, up to level k.                                           *)
Pending(x, i, j, k) ==
    j <= k /\ \A t \in Nat : j <= t /\ t < k => Shifted(i, t) = Shifted(x, t) /\ ~ Odd(Shifted(x, t))

LEMMA PendingSame ==
    ASSUME NEW x \in Nat, NEW i \in Nat, NEW j \in Nat, NEW k \in Nat, Pending(x, i, j, k), j < k
    PROVE  Shifted(i, k) = Shifted(x, k)
<1>1. PICK t \in Nat : k = t + 1
  <2>1. k - 1 \in Nat /\ k = (k - 1) + 1
        OBVIOUS
  <2> QED BY <2>1
<1>2. Shifted(i, t) = Shifted(x, t)
      BY <1>1 DEF Pending
<1>3. Shifted(i, t + 1) = Half(Shifted(i, t))
      BY ShiftedSteps
<1>4. Shifted(x, t + 1) = Half(Shifted(x, t))
      BY ShiftedSteps
<1> QED BY <1>1, <1>2, <1>3, <1>4

LEMMA PendingOn ==
    ASSUME NEW x \in Nat, NEW i \in Nat, NEW j \in Nat, NEW k \in Nat, Pending(x, i, j, k), ~ HasSibling(x, i, k)
    PROVE  Pending(x, i, j, k + 1)
<1>1. Shifted(i, k) = Shifted(x, k) /\ ~ Odd(Shifted(x, k))
      BY DEF HasSibling
<1>2. ASSUME NEW t \in Nat, j <= t, t < k + 1 PROVE Shifted(i, t) = Shifted(x, t) /\ ~ Odd(Shifted(x, t))
  <2>1. t < k \/ t = k
        BY <1>2
  <2> QED BY <1>1, <1>2, <2>1 DEF Pending
<1>3. j <= k + 1
      BY DEF Pending
<1> QED BY <1>2, <1>3 DEF Pending

(* The step from there is the one beside the way.                           *)
LEMMA RiseFrom ==
    ASSUME NEW x \in Nat, NEW i \in Nat, NEW j \in Nat, NEW k \in Nat, Pending(x, i, j, k), HasSibling(x, i, k),
           NEW m \in Nat, NEW g, Rise(x, j, Shifted(i, j), m, g)
    PROVE  m = k /\ g = Shifted(i, k)
<1>1. j <= k /\ j <= m /\ (Odd(g) \/ g # Shifted(x, m))
      BY DEF Pending, Rise
<1>2. CASE j = k
  <2>1. CASE m = j /\ g = Shifted(i, j)
        BY <1>2, <2>1
  <2>2. CASE ~ (m = j /\ g = Shifted(i, j))
    <3>1. /\ Shifted(i, j) = Shifted(x, j) /\ g = Shifted(x, m)
          /\ \A t \in Nat : j <= t /\ t < m => ~ Odd(Shifted(x, t))
          BY <2>2 DEF Rise
    <3>2. Odd(Shifted(x, k))
          BY <1>2, <3>1 DEF HasSibling
    <3>3. ~ (k < m)
          BY <1>2, <3>1, <3>2
    <3>4. m = k
          BY <1>1, <1>2, <3>3
    <3> QED BY <1>2, <3>1, <3>4
  <2> QED BY <2>1, <2>2
<1>3. CASE j < k
  <2>1. Shifted(i, j) = Shifted(x, j) /\ ~ Odd(Shifted(x, j)) /\ Shifted(i, k) = Shifted(x, k)
        BY <1>3, PendingSame DEF Pending
  <2>2. Odd(Shifted(x, k))
        BY <2>1 DEF HasSibling
  <2>3. ~ (m = j /\ g = Shifted(i, j))
        BY <1>1, <2>1
  <2>4. g = Shifted(x, m) /\ \A t \in Nat : j <= t /\ t < m => ~ Odd(Shifted(x, t))
        BY <2>3 DEF Rise
  <2>5. Odd(Shifted(x, m))
        BY <1>1, <2>4
  <2>6. ~ (m < k)
        BY <1>1, <2>5 DEF Pending
  <2>7. ~ (k < m)
        BY <1>1, <2>2, <2>4
  <2>8. m = k
        BY <2>6, <2>7
  <2> QED BY <2>1, <2>4, <2>8
<1> QED BY <1>1, <1>2, <1>3

Reaches(lv, x, i, k, v) ==
    \E j \in Nat : /\ Pending(x, i, j, k)
                   /\ v = Standing(Node(lv, j, Shifted(i, j)), Shifted(i, j), Shifted(x, j))

LEMMA ReachesOn ==
    ASSUME NEW lv, NEW x \in Nat, Len(lv) = x + 1, NEW i \in Nat, i <= x, NEW k \in Nat, NEW v,
           Reaches(lv, x, i, k, v), HasSibling(x, i, k)
    PROVE  Reaches(lv, x, i, k + 1, VerifyStep(v, Sibling(lv, k, Shifted(i, k))))
<1>1. PICK j \in Nat : /\ Pending(x, i, j, k)
                       /\ v = Standing(Node(lv, j, Shifted(i, j)), Shifted(i, j), Shifted(x, j))
      BY DEF Reaches
<1>2. PICK f \in Nat : f = Shifted(i, j) /\ f <= Shifted(x, j)
  <2>1. Shifted(i, j) \in Nat
        BY ShiftedSteps
  <2>2. Shifted(i, j) <= Shifted(x, j)
        BY ShiftedOrder
  <2> QED BY <2>1, <2>2
<1>3. PICK a \in Nat : a = Shifted(i, k) /\ a <= Shifted(x, k) /\ Shifted(i, k + 1) = Half(a)
  <2>1. Shifted(i, k) \in Nat /\ Shifted(i, k + 1) = Half(Shifted(i, k))
        BY ShiftedSteps
  <2>2. Shifted(i, k) <= Shifted(x, k)
        BY ShiftedOrder
  <2> QED BY <2>1, <2>2
<1>4. Shifted(x, j) # 0
  <2> SUFFICES ASSUME Shifted(x, j) = 0 PROVE FALSE
      OBVIOUS
  <2>1. j <= k
        BY <1>1 DEF Pending
  <2>2. PICK d \in Nat : k = j + d
    <3>1. k - j \in Nat /\ k = j + (k - j)
          BY <2>1
    <3> QED BY <3>1
  <2>3. PICK z \in Nat : z = 0
        OBVIOUS
  <2>4. Shifted(z, d) = Shifted(x, k)
    <3>1. Shifted(Shifted(x, j), d) = Shifted(x, j + d)
          BY ShiftedOn
    <3> QED BY <2>2, <2>3, <3>1
  <2>5. Shifted(z, d) = 0
    <3>1. Shifted(z, d) = 0 <=> z < Power(d)
          BY ShiftedAway
    <3>2. d < Power(d) /\ Power(d) \in Nat
          BY PowersGrow
    <3> QED BY <2>3, <3>1, <3>2
  <2>6. a = 0 /\ Shifted(x, k) = 0
        BY <1>3, <2>4, <2>5
  <2>7. ~ Odd(0)
        BY DEF Odd
  <2> QED BY <1>3, <2>6, <2>7 DEF HasSibling
<1>5. PICK h, p : h = Node(lv, j, f) /\ p = Sibling(lv, k, Shifted(i, k))
      OBVIOUS
<1>6. PICK m \in Nat, g \in Nat :
              /\ Rise(x, j, f, m, g) /\ Node(lv, m, g) = Node(lv, j, f)
              /\ VerifyStep(Standing(h, f, Shifted(x, j)), p) = Standing(Both(g, h, p), Half(g), Shifted(x, m + 1))
      BY <1>2, <1>4, StepFromLevel
<1>7. m = k /\ g = a
  <2>1. Rise(x, j, Shifted(i, j), m, g)
        BY <1>2, <1>6
  <2>2. m = k /\ g = Shifted(i, k)
        BY <1>1, <1>3, <2>1, RiseFrom
  <2> QED BY <1>3, <2>2
<1>8. Node(lv, k + 1, Half(a)) = Both(a, Node(lv, k, a), Sibling(lv, k, a))
  <2>1. a <= Shifted(x, k) /\ (Odd(a) \/ a # Shifted(x, k))
        BY <1>3 DEF HasSibling
  <2> QED BY <2>1, BothTell
<1>9. VerifyStep(v, p) = Standing(Node(lv, k + 1, Half(a)), Half(a), Shifted(x, k + 1))
      BY <1>1, <1>2, <1>3, <1>5, <1>6, <1>7, <1>8
<1>10. Pending(x, i, k + 1, k + 1)
  <2>1. k + 1 <= k + 1 /\ \A t \in Nat : ~ (k + 1 <= t /\ t < k + 1)
        OBVIOUS
  <2> QED BY <2>1 DEF Pending
<1>11. k + 1 \in Nat
       OBVIOUS
<1> QED BY <1>3, <1>5, <1>9, <1>10, <1>11 DEF Reaches

LEMMA WayVerifies ==
    ASSUME NEW lv, NEW x \in Nat, Len(lv) = x + 1, NEW i \in Nat, i <= x
    PROVE  /\ InclusionPath(lv, i, 0, x + 1) \in Seq(Hashes(lv))
           /\ Accepted(VerifySteps(Standing(lv[i + 1], i, x), InclusionPath(lv, i, 0, x + 1)), MTH(lv, 0, x + 1))
<1>1. PICK g, base :
              /\ Begins(lv, Short(lv), base, 0) /\ AreWays(g, lv, Short(lv), base, 0)
              /\ \A t \in Short(lv) : base[t] = <<>>
              /\ \A m, lo, hi : InclusionPath(lv, m, lo, hi) = g[<<m, lo, hi>>]
      BY InclusionWay
<1>2. PICK c \in 0..1 : c = 0
      OBVIOUS
<1>3. PICK E : E = Short(lv) /\ Begins(lv, E, base, c) /\ AreWays(g, lv, E, base, c)
      BY <1>1, <1>2
<1>4. PICK v : v = Standing(lv[i + 1], i, x)
      OBVIOUS
<1> DEFINE Place(k) == PlaceAt(lv, i, c, k)
           T == {k \in Nat : Reaches(lv, x, i, k, VerifySteps(v, g[Place(k)]))}
<1>5. \A k \in Nat : Place(k) \in Spots(lv, c)
      BY PlaceFact
<1>6. \A t \in Spots(lv, c) : g[t] = WayTo(g, lv, E, base, c, t) /\ g[t] \in Seq(Hashes(lv))
      BY <1>3, WaysTyped
<1>7. \A w : VerifySteps(w, <<>>) = w
      BY NoSteps
<1>8. 0 \in T
  <2>1. 0 \in Nat
        OBVIOUS
  <2>2. Shifted(i, 0) = i /\ Shifted(x, 0) = x /\ Power(0) = 1
        BY <2>1, ShiftedSteps, PowersOfTwo
  <2>3. Place(0) = <<0, i, i + 1>>
    <3>1. i * 1 = i /\ (i + 1) * 1 = i + 1 /\ (i + c) - i = 0 /\ Cap(x + 1, i + 1) = i + 1
          BY <1>2 DEF Cap
    <3> QED BY <2>2, <3>1 DEF PlaceAt
  <2>4. Place(0) \in E
    <3>1. Place(0) \in Spots(lv, 0)
          BY <1>2, <1>5, <2>1
    <3>2. Place(0)[3] <= Place(0)[2] + 1
          BY <2>3
    <3> QED BY <1>3, <3>1, <3>2 DEF Short
  <2>5. g[Place(0)] = <<>>
    <3>1. g[Place(0)] = WayTo(g, lv, E, base, c, Place(0))
          BY <1>5, <1>6, <2>1
    <3>2. WayTo(g, lv, E, base, c, Place(0)) = base[Place(0)]
          BY <2>4 DEF WayTo
    <3> QED BY <1>1, <1>3, <2>4, <3>1, <3>2
  <2>6. VerifySteps(v, g[Place(0)]) = v
        BY <1>7, <2>5
  <2>7. Node(lv, 0, i) = lv[i + 1]
        BY NodeLeaf
  <2>8. Pending(x, i, 0, 0)
        BY DEF Pending
  <2>9. Reaches(lv, x, i, 0, v)
        BY <1>4, <2>1, <2>2, <2>7, <2>8 DEF Reaches
  <2> QED BY <2>1, <2>6, <2>9
<1>9. ASSUME NEW k \in Nat, k \in T PROVE k + 1 \in T
  <2>0. WayGrows(g, lv, E, c, x, i, k)
        BY <1>3, PlaceUp
  <2>1. Reaches(lv, x, i, k, VerifySteps(v, g[Place(k)]))
        BY <1>9
  <2>2. CASE ~ HasSibling(x, i, k)
    <3>1. Place(k + 1) = Place(k)
          BY <2>0, <2>2 DEF WayGrows
    <3>2. Reaches(lv, x, i, k + 1, VerifySteps(v, g[Place(k)]))
          BY <2>1, <2>2, PendingOn DEF Reaches
    <3> QED BY <3>1, <3>2
  <2>3. CASE HasSibling(x, i, k)
    <3>1. PICK p : p = Sibling(lv, k, Shifted(i, k))
          OBVIOUS
    <3>2. /\ Place(k + 1) \notin E => g[Place(k + 1)] = Append(g[Place(k)], p)
          /\ Place(k + 1)[2] + 1 < Place(k + 1)[3]
          BY <2>0, <2>3, <3>1 DEF WayGrows
    <3>3. Place(k + 1) \notin E
      <4>1. Place(k + 1)[2] \in Nat /\ Place(k + 1)[3] \in Nat
        <5>1. k + 1 \in Nat
              OBVIOUS
        <5>2. PICK t \in Spots(lv, c) : t = Place(k + 1)
              BY <1>5, <5>1
        <5>3. t[2] \in Nat /\ t[3] \in Nat
              BY DEF Spots
        <5> QED BY <5>2, <5>3
      <4>2. ~ (Place(k + 1)[3] <= Place(k + 1)[2] + 1)
            BY <3>2, <4>1
      <4> QED BY <1>3, <4>2 DEF Short
    <3>4. PICK path : path = g[Place(k)] /\ path \in Seq(Hashes(lv))
          BY <1>5, <1>6
    <3>5. VerifySteps(v, Append(path, p)) = VerifyStep(VerifySteps(v, path), p)
      <4>1. PICK S : S = Hashes(lv) \cup {p}
            OBVIOUS
      <4>2. path \in Seq(S) /\ p \in S
            BY <3>4, <4>1
      <4> QED BY <4>2, StepsAppended
    <3>6. Reaches(lv, x, i, k + 1, VerifyStep(VerifySteps(v, path), p))
          BY <2>1, <2>3, <3>1, <3>4, ReachesOn
    <3>7. g[Place(k + 1)] = Append(path, p)
          BY <3>2, <3>3, <3>4
    <3>8. Reaches(lv, x, i, k + 1, VerifySteps(v, g[Place(k + 1)]))
          BY <3>5, <3>6, <3>7
    <3> HIDE DEF Place
    <3> QED BY <3>8
  <2> QED BY <2>2, <2>3
<1>10. x \in T
  <2> HIDE DEF T
  <2> QED BY <1>8, <1>9, StepByStep
<1>11. Reaches(lv, x, i, x, VerifySteps(v, g[Place(x)]))
       BY <1>10
<1>12. Shifted(x, x) = 0 /\ Shifted(i, x) = 0
  <2>1. Shifted(x, x) = 0
        BY ShiftedAway
  <2>2. Shifted(i, x) <= Shifted(x, x)
        BY ShiftedOrder
  <2>3. Shifted(i, x) \in Nat
        BY ShiftedSteps
  <2> QED BY <2>1, <2>2, <2>3
<1>13. Place(x) = <<i, 0, x + 1>>
  <2>1. PICK p \in Nat : p = Power(x) /\ x < p
        BY PowersGrow
  <2>2. 0 * p = 0 /\ (0 + 1) * p = p /\ (i + c) - 0 = i /\ Cap(x + 1, p) = x + 1
        BY <1>2, <2>1 DEF Cap
  <2> QED BY <1>12, <2>1, <2>2 DEF PlaceAt
<1>14. PICK path : path = InclusionPath(lv, i, 0, x + 1) /\ path = g[Place(x)] /\ path \in Seq(Hashes(lv))
       BY <1>1, <1>5, <1>6, <1>13
<1>15. PICK j \in Nat : /\ Pending(x, i, j, x)
                        /\ VerifySteps(v, path) = Standing(Node(lv, j, Shifted(i, j)), Shifted(i, j), Shifted(x, j))
       BY <1>11, <1>14 DEF Reaches
<1>16. Shifted(x, j) = 0
  <2>1. PICK f \in Nat : f = Shifted(x, j)
    <3>1. Shifted(x, j) \in Nat
          BY ShiftedSteps
    <3> QED BY <3>1
  <2>2. PICK d \in Nat : x = j + d
    <3>1. j <= x
          BY <1>15 DEF Pending
    <3>2. x - j \in Nat /\ x = j + (x - j)
          BY <3>1
    <3> QED BY <3>2
  <2>3. \A t \in Nat : Shifted(f, t) = Shifted(x, j + t)
        BY <2>1, ShiftedOn
  <2>4. ASSUME NEW t \in Nat, t < d PROVE ~ Odd(Shifted(f, t))
    <3>1. j + t \in Nat /\ j <= j + t /\ j + t < x
          BY <2>2, <2>4
    <3>2. ~ Odd(Shifted(x, j + t))
          BY <1>15, <3>1 DEF Pending
    <3> QED BY <2>3, <3>2
  <2>5. f = Shifted(f, d) * Power(d)
        BY <2>4, EvenRun
  <2>6. Shifted(f, d) = 0
        BY <1>12, <2>2, <2>3
  <2>7. 0 * Power(d) = 0
        BY PowersOfTwo
  <2> QED BY <2>1, <2>5, <2>6, <2>7
<1>17. Shifted(i, j) = 0
  <2>1. Shifted(i, j) \in Nat
        BY ShiftedSteps
  <2>2. Shifted(i, j) <= Shifted(x, j)
        BY ShiftedOrder
  <2> QED BY <1>16, <2>1, <2>2
<1>18. Node(lv, j, 0) = MTH(lv, 0, x + 1)
       BY <1>16, NodeRoot
<1>19. Accepted(VerifySteps(v, path), MTH(lv, 0, x + 1))
       BY <1>15, <1>16, <1>17, <1>18 DEF Accepted, Standing
<1> QED BY <1>4, <1>14, <1>19

(* The code made for a record of the log verifies.                          *)
LEMMA CodesAreGood ==
    ASSUME NEW S, NEW l \in Seq(S), NEW i \in Nat, i < Len(l)
    PROVE  /\ Prove(l, i).index = i /\ Prove(l, i).size = Len(l) /\ Prove(l, i).path \in Seq(Hashes(Leaves(l)))
           /\ VerifyQr(Prove(l, i), l[i + 1], Root(l))
<1>1. PICK lv : lv = Leaves(l) /\ Len(lv) \in Nat /\ Len(lv) = Len(l) /\ \A k \in 1..Len(l) : lv[k] = LeafHash(l[k])
      BY LeavesFact
<1>2. PICK x \in Nat : Len(lv) = x + 1 /\ i <= x
  <2>1. Len(lv) - 1 \in Nat /\ Len(lv) = (Len(lv) - 1) + 1 /\ i <= Len(lv) - 1
        BY <1>1
  <2> QED BY <2>1
<1>3. PICK path : path = InclusionPath(lv, i, 0, x + 1)
      OBVIOUS
<1>4. path \in Seq(Hashes(lv)) /\ Accepted(VerifySteps(Standing(lv[i + 1], i, x), path), MTH(lv, 0, x + 1))
      BY <1>2, <1>3, WayVerifies
<1>5. PICK code : code = Prove(l, i)
      OBVIOUS
<1>6. code.index = i /\ code.size = x + 1 /\ code.path = path
      BY <1>1, <1>2, <1>3, <1>5 DEF Prove
<1>7. lv[i + 1] = LeafHash(l[i + 1])
  <2>1. i + 1 \in 1..Len(l)
        BY <1>1
  <2> QED BY <1>1, <2>1
<1>8. Root(l) = MTH(lv, 0, x + 1)
      BY <1>1, <1>2 DEF Root
<1>9. [ok |-> TRUE, h |-> LeafHash(l[i + 1]), fn |-> code.index, sn |-> code.size - 1] = Standing(lv[i + 1], i, x)
  <2>1. (x + 1) - 1 = x
        OBVIOUS
  <2> QED BY <1>6, <1>7, <2>1 DEF Standing
<1>10. Verify(code, LeafHash(l[i + 1]), Root(l)) /\ code.index < code.size
  <2>1. code.index < code.size
        BY <1>2, <1>6
  <2> QED BY <1>4, <1>6, <1>8, <1>9, <2>1 DEF Verify, Accepted
<1> QED BY <1>1, <1>2, <1>4, <1>5, <1>6, <1>10 DEF VerifyQr

-----------------------------------------------------------------------------
(* Growth: where the way of an older log starts, and the hash there.        *)
Ended(lv) == {t \in Spots(lv, 1) : t[3] <= t[2] + t[1]}

LEMMA SubproofWay ==
    ASSUME NEW lv, Len(lv) \in Nat
    PROVE  \E g, base :
              /\ Begins(lv, Ended(lv), base, 1) /\ AreWays(g, lv, Ended(lv), base, 1)
              /\ \A t \in Ended(lv) : base[t] = IF t[2] = 0 THEN <<>> ELSE <<MTH(lv, t[2], t[3])>>
              /\ \A m, lo, hi : Subproof(lv, m, lo, hi) = g[<<m, lo, hi>>]
<1> DEFINE Body(g, t) == LET k == SplitAt(t[3] - t[2])
                         IN  IF t[3] <= t[2] + t[1] THEN IF t[2] = 0 THEN <<>> ELSE <<MTH(lv, t[2], t[3])>>
                             ELSE IF t[1] <= k THEN Append(g[<<t[1], t[2], t[2] + k>>], MTH(lv, t[2] + k, t[3]))
                             ELSE Append(g[<<t[1] - k, t[2] + k, t[3]>>], MTH(lv, t[2], t[2] + k))
           Solves(g) == g = [t \in (1..Len(lv)) \X (0..Len(lv)) \X (0..Len(lv)) |-> Body(g, t)]
           g == CHOOSE g : Solves(g)
<1>1. \A m, lo, hi : Subproof(lv, m, lo, hi) = g[<<m, lo, hi>>]
      BY DEF Subproof
<1>2. PICK base : base = [t \in Ended(lv) |-> IF t[2] = 0 THEN <<>> ELSE <<MTH(lv, t[2], t[3])>>]
      OBVIOUS
<1>3. \A t \in Ended(lv) : base[t] = IF t[2] = 0 THEN <<>> ELSE <<MTH(lv, t[2], t[3])>>
      BY <1>2
<1>4. Begins(lv, Ended(lv), base, 1)
  <2>1. \A t \in Spots(lv, 1) : t \notin Ended(lv) => t[2] + 2 <= t[3]
    <3> SUFFICES ASSUME NEW t \in Spots(lv, 1), t \notin Ended(lv) PROVE t[2] + 2 <= t[3]
        OBVIOUS
    <3>1. t[1] \in Nat /\ 1 <= t[1] /\ t[2] \in Nat /\ t[3] \in Nat
          BY DEF Spots
    <3> QED BY <3>1 DEF Ended
  <2>2. \A t \in Ended(lv) : base[t] \in Seq(Hashes(lv))
    <3> SUFFICES ASSUME NEW t \in Ended(lv) PROVE base[t] \in Seq(Hashes(lv))
        OBVIOUS
    <3>1. <<t[2], t[3]>> \in Ranges(lv)
          BY DEF Ended, Spots, Ranges
    <3>2. MTH(lv, t[2], t[3]) \in Hashes(lv)
          BY <3>1 DEF Hashes
    <3>3. PICK h \in Hashes(lv) : h = MTH(lv, t[2], t[3])
          BY <3>2
    <3>4. <<>> \in Seq(Hashes(lv)) /\ <<h>> \in Seq(Hashes(lv))
          OBVIOUS
    <3> QED BY <1>3, <3>3, <3>4
  <2> QED BY <2>1, <2>2 DEF Begins
<1>5. ASSUME NEW h, NEW t \in Spots(lv, 1) PROVE Body(h, t) = WayTo(h, lv, Ended(lv), base, 1, t)
  <2>1. CASE t \in Ended(lv)
    <3>1. t[3] <= t[2] + t[1]
          BY <2>1 DEF Ended
    <3> QED BY <1>3, <2>1, <3>1 DEF WayTo
  <2>2. CASE t \notin Ended(lv)
    <3>1. PICK k \in Nat : k = SplitAt(t[3] - t[2])
      <4>1. t[2] \in Nat /\ t[3] \in Nat /\ t[2] + 2 <= t[3]
            BY <1>4, <2>2 DEF Begins, Spots
      <4>2. t[3] - t[2] \in Nat /\ 2 <= t[3] - t[2]
            BY <4>1
      <4>3. SplitAt(t[3] - t[2]) \in Nat
            BY <4>2, SplitFacts
      <4> QED BY <4>3
    <3>2. ~ (t[3] <= t[2] + t[1])
          BY <2>2 DEF Ended
    <3>3. t[1] < k + 1 <=> t[1] <= k
      <4>1. t[1] \in Nat
            BY DEF Spots
      <4> QED BY <4>1
    <3> QED BY <2>2, <3>1, <3>2, <3>3 DEF WayTo
  <2> QED BY <2>1, <2>2
<1> HIDE DEF Body
<1>6. \A h : Solves(h) <=> AreWays(h, lv, Ended(lv), base, 1)
      BY <1>5 DEF AreWays, Spots
<1>7. \E h : Solves(h)
  <2> HIDE DEF Solves
  <2> QED BY <1>4, <1>6, WaysExist
<1>8. Solves(g)
  <2> HIDE DEF Solves
  <2> QED BY <1>7
<1>9. AreWays(g, lv, Ended(lv), base, 1)
  <2> HIDE DEF g, Solves
  <2> QED BY <1>6, <1>8
<1> HIDE DEF g, Solves
<1> QED BY <1>1, <1>3, <1>4, <1>9

LEMMA OddRun ==
    ASSUME NEW f \in Nat, NEW d \in Nat, \A t \in Nat : t < d => Odd(Shifted(f, t))
    PROVE  f + 1 = (Shifted(f, d) + 1) * Power(d)
<1> DEFINE T == {k \in Nat : k <= d => f + 1 = (Shifted(f, k) + 1) * Power(k)}
<1>1. 0 \in T
  <2>1. 0 \in Nat /\ (f + 1) * 1 = f + 1
        OBVIOUS
  <2>2. Shifted(f, 0) = f /\ Power(0) = 1
        BY <2>1, ShiftedSteps, PowersOfTwo
  <2> QED BY <2>1, <2>2
<1>2. ASSUME NEW k \in Nat, k \in T PROVE k + 1 \in T
  <2> SUFFICES ASSUME k + 1 <= d PROVE f + 1 = (Shifted(f, k + 1) + 1) * Power(k + 1)
      OBVIOUS
  <2>1. Shifted(f, k) \in Nat /\ Shifted(f, k + 1) = Half(Shifted(f, k))
        BY ShiftedSteps
  <2>2. PICK s \in Nat : s = Shifted(f, k) /\ Odd(s)
        BY <2>1
  <2>3. PICK h \in Nat : h = Half(s) /\ s = 2 * h + 1
        BY <2>2, HalfFacts
  <2>4. PICK p \in Nat : p = Power(k) /\ Power(k + 1) = 2 * p
        BY PowersOfTwo
  <2>5. f + 1 = ((2 * h + 1) + 1) * p
    <3>1. k <= d /\ k \in T
          BY <1>2
    <3>2. f + 1 = (Shifted(f, k) + 1) * Power(k)
          BY <3>1
    <3> QED BY <2>2, <2>3, <2>4, <3>2
  <2>6. ((2 * h + 1) + 1) * p = (h + 1) * (2 * p)
        OBVIOUS
  <2> QED BY <2>1, <2>2, <2>3, <2>4, <2>5, <2>6
<1>3. d \in T
  <2> HIDE DEF T
  <2> QED BY <1>1, <1>2, StepByStep
<1> QED BY <1>3

LEMMA RebasedSteps ==
    ASSUME NEW f \in Nat, NEW s \in Nat, NEW n \in Nat
    PROVE  LET step == [w \in Nat \X Nat |-> IF Odd(w[1]) THEN <<Half(w[1]), Half(w[2])>> ELSE w]
               at(k) == Rounds(step, k, <<f, s>>)
           IN  /\ at(0) = <<f, s>> /\ Rebase(f, s) = at(f)
               /\ at(n) \in Nat \X Nat
               /\ at(n + 1) = IF Odd(at(n)[1]) THEN <<Half(at(n)[1]), Half(at(n)[2])>> ELSE at(n)
<1> DEFINE step == [w \in Nat \X Nat |-> IF Odd(w[1]) THEN <<Half(w[1]), Half(w[2])>> ELSE w]
           at(k) == Rounds(step, k, <<f, s>>)
<1>1. Rebase(f, s) = at(f)
      BY DEF Rebase
<1>2. \A w \in Nat \X Nat : step[w] = IF Odd(w[1]) THEN <<Half(w[1]), Half(w[2])>> ELSE w
      OBVIOUS
<1>3. \A w \in Nat \X Nat : step[w] \in Nat \X Nat
  <2> SUFFICES ASSUME NEW w \in Nat \X Nat PROVE step[w] \in Nat \X Nat
      OBVIOUS
  <2>1. w[1] \in Nat /\ w[2] \in Nat
        OBVIOUS
  <2>2. Half(w[1]) \in Nat /\ Half(w[2]) \in Nat
        BY <2>1, HalfFacts
  <2> QED BY <1>2, <2>2
<1>4. step \in [Nat \X Nat -> Nat \X Nat]
      BY <1>3
<1> HIDE DEF step
<1>5. PICK S : S = Nat \X Nat
      OBVIOUS
<1>6. PICK x : x = <<f, s>>
      OBVIOUS
<1>7. step \in [S -> S] /\ x \in S
      BY <1>4, <1>5, <1>6
<1>8. Rounds(step, 0, x) = x /\ Rounds(step, n, x) \in S /\ Rounds(step, n + 1, x) = step[Rounds(step, n, x)]
      BY <1>7, RoundsSteps
<1>9. at(0) = <<f, s>> /\ at(n) \in Nat \X Nat /\ at(n + 1) = step[at(n)]
      BY <1>5, <1>6, <1>8
<1>10. at(n + 1) = IF Odd(at(n)[1]) THEN <<Half(at(n)[1]), Half(at(n)[2])>> ELSE at(n)
       BY <1>2, <1>9
<1> QED BY <1>1, <1>9, <1>10 DEF step

(* At the root of the last full tree of the older log.                      *)
Rebased(i, x, t) ==
    /\ Rebase(i, x) = <<Shifted(i, t), Shifted(x, t)>>
    /\ ~ Odd(Shifted(i, t)) /\ i + 1 = (Shifted(i, t) + 1) * Power(t)

LEMMA RebaseFact ==
    ASSUME NEW i \in Nat, NEW x \in Nat
    PROVE  \E t \in Nat : Rebased(i, x, t)
<1>0. PICK step : step = [w \in Nat \X Nat |-> IF Odd(w[1]) THEN <<Half(w[1]), Half(w[2])>> ELSE w]
      OBVIOUS
<1> DEFINE at(k) == Rounds(step, k, <<i, x>>)
<1>1. ASSUME NEW n \in Nat
      PROVE  /\ at(0) = <<i, x>> /\ Rebase(i, x) = at(i)
             /\ at(n) \in Nat \X Nat
             /\ at(n + 1) = IF Odd(at(n)[1]) THEN <<Half(at(n)[1]), Half(at(n)[2])>> ELSE at(n)
      BY <1>0, RebasedSteps
<1> HIDE DEF at
<1>2. at(0) = <<i, x>> /\ Rebase(i, x) = at(i)
  <2>1. 0 \in Nat
        OBVIOUS
  <2> QED BY <1>1, <2>1
<1>3. \E t \in Nat : t <= i /\ ~ Odd(Shifted(i, t)) /\ \A u \in Nat : u < t => Odd(Shifted(i, u))
  <2> DEFINE U == {u \in Nat : ~ Odd(Shifted(i, u))}
  <2>1. i \in U
    <3>1. Shifted(i, i) = 0
          BY ShiftedAway
    <3>2. ~ Odd(0)
          BY DEF Odd
    <3> QED BY <3>1, <3>2
  <2>2. U \in SUBSET Nat
        OBVIOUS
  <2> HIDE DEF U
  <2>3. PICK t \in U : \A u \in U : t <= u
        BY <2>1, <2>2, LeastNatural
  <2>4. t \in Nat /\ t <= i /\ ~ Odd(Shifted(i, t))
        BY <2>1, <2>3 DEF U
  <2>5. \A u \in Nat : u < t => Odd(Shifted(i, u))
        BY <2>3, <2>4 DEF U
  <2> QED BY <2>4, <2>5
<1>4. PICK t \in Nat : t <= i /\ ~ Odd(Shifted(i, t)) /\ \A u \in Nat : u < t => Odd(Shifted(i, u))
      BY <1>3
<1> DEFINE up(k) == <<Shifted(i, k), Shifted(x, k)>>
           T == {k \in Nat : (k <= t => at(k) = up(k)) /\ (t <= k => at(k) = up(t))}
<1>5. 0 \in T
  <2>1. 0 \in Nat
        OBVIOUS
  <2>2. Shifted(i, 0) = i /\ Shifted(x, 0) = x
        BY <2>1, ShiftedSteps
  <2>3. up(0) = <<i, x>> /\ (t <= 0 => t = 0)
        BY <2>2
  <2> QED BY <1>2, <2>1, <2>3
<1>6. ASSUME NEW k \in Nat, k \in T PROVE k + 1 \in T
  <2>1. CASE k < t
    <3>1. at(k) = <<Shifted(i, k), Shifted(x, k)>> /\ Odd(Shifted(i, k))
          BY <1>4, <1>6, <2>1
    <3>2. at(k)[1] = Shifted(i, k) /\ at(k)[2] = Shifted(x, k)
          BY <3>1
    <3>3. at(k + 1) = <<Half(Shifted(i, k)), Half(Shifted(x, k))>>
          BY <1>1, <3>1, <3>2
    <3>4. Shifted(i, k + 1) = Half(Shifted(i, k))
          BY ShiftedSteps
    <3>5. Shifted(x, k + 1) = Half(Shifted(x, k))
          BY ShiftedSteps
    <3>6. at(k + 1) = up(k + 1)
          BY <3>3, <3>4, <3>5
    <3>7. k + 1 <= t /\ (t <= k + 1 => k + 1 = t)
          BY <2>1
    <3> QED BY <3>6, <3>7
  <2>2. CASE ~ (k < t)
    <3>1. t <= k /\ t <= k + 1 /\ ~ (k + 1 <= t)
          BY <2>2
    <3>2. at(k) = up(t)
          BY <1>6, <3>1
    <3>3. ~ Odd(at(k)[1])
      <4>1. at(k)[1] = Shifted(i, t)
            BY <3>2
      <4> QED BY <1>4, <4>1
    <3>4. at(k + 1) = at(k)
          BY <1>1, <3>3
    <3> QED BY <3>1, <3>2, <3>4
  <2> QED BY <2>1, <2>2
<1>7. i \in T
  <2> HIDE DEF T
  <2> QED BY <1>5, <1>6, StepByStep
<1>8. Rebase(i, x) = <<Shifted(i, t), Shifted(x, t)>>
      BY <1>2, <1>4, <1>7
<1>9. i + 1 = (Shifted(i, t) + 1) * Power(t)
      BY <1>4, OddRun
<1> QED BY <1>4, <1>8, <1>9 DEF Rebased

-----------------------------------------------------------------------------
(* The climb from there, turn by turn.                                      *)
Turns(at, v, proof, n) == \A k \in 0..n : at[k] = IF k = 0 THEN v ELSE ClimbStep(at[k - 1], proof)

AreTurns(at, v, proof, n) == at = [k \in 0..n |-> IF k = 0 THEN v ELSE ClimbStep(at[k - 1], proof)]

LEMMA TurnsExist ==
    ASSUME NEW v, NEW proof, NEW n \in Nat
    PROVE  \E at : AreTurns(at, v, proof, n)
<1> DEFINE T == {m \in Nat : \E g : Turns(g, v, proof, m)}
<1>1. 0 \in T
  <2> DEFINE g == [k \in 0..0 |-> v]
  <2>1. Turns(g, v, proof, 0)
        BY DEF Turns
  <2> QED BY <2>1
<1>2. ASSUME NEW m \in Nat, m \in T PROVE m + 1 \in T
  <2>1. PICK g : Turns(g, v, proof, m)
        BY <1>2
  <2> DEFINE h == [k \in 0..(m + 1) |-> IF k = m + 1 THEN ClimbStep(g[m], proof) ELSE g[k]]
  <2>2. \A k \in 0..(m + 1) : h[k] = IF k = m + 1 THEN ClimbStep(g[m], proof) ELSE g[k]
        OBVIOUS
  <2> HIDE DEF h
  <2>3. Turns(h, v, proof, m + 1)
    <3> SUFFICES ASSUME NEW k \in 0..(m + 1)
                 PROVE  h[k] = IF k = 0 THEN v ELSE ClimbStep(h[k - 1], proof)
        BY DEF Turns
    <3>1. CASE k = m + 1
      <4>1. m \in 0..(m + 1) /\ m # m + 1 /\ k - 1 = m /\ k # 0
            BY <3>1
      <4> QED BY <2>2, <3>1, <4>1
    <3>2. CASE k # m + 1
      <4>1. k \in 0..m
            BY <3>2
      <4>2. h[k] = g[k]
            BY <2>2, <3>2
      <4>3. CASE k = 0
            BY <2>1, <4>1, <4>2, <4>3 DEF Turns
      <4>4. CASE k # 0
        <5>1. k - 1 \in 0..(m + 1) /\ k - 1 # m + 1
              BY <4>1, <4>4
        <5>2. h[k - 1] = g[k - 1]
              BY <2>2, <5>1
        <5> QED BY <2>1, <4>1, <4>2, <4>4, <5>2 DEF Turns
      <4> QED BY <4>3, <4>4
    <3> QED BY <3>1, <3>2
  <2> QED BY <2>3
<1>3. n \in T
  <2> HIDE DEF T
  <2> QED BY <1>1, <1>2, StepByStep
<1>4. PICK g : Turns(g, v, proof, n)
      BY <1>3
<1> DEFINE at == [k \in 0..n |-> g[k]]
<1>5. \A k \in 0..n : k # 0 => k - 1 \in 0..n
      OBVIOUS
<1>6. \A k \in 0..n : at[k] = IF k = 0 THEN v ELSE ClimbStep(at[k - 1], proof)
      BY <1>4, <1>5 DEF Turns
<1>7. at = [k \in 0..n |-> IF k = 0 THEN v ELSE ClimbStep(at[k - 1], proof)]
  <2>1. at = [k \in 0..n |-> at[k]]
        OBVIOUS
  <2> HIDE DEF at
  <2> QED BY <1>6, <2>1
<1> QED BY <1>7 DEF AreTurns

LEMMA TurnsSolved ==
    ASSUME NEW v, NEW proof, v.last \in Nat
    PROVE  \E at : Climb(v, proof) = at[v.last] /\ at[0] = v /\ \A k \in Nat : k < v.last => at[k + 1] = ClimbStep(at[k], proof)
<1> DEFINE at == CHOOSE at : AreTurns(at, v, proof, v.last)
<1>1. Climb(v, proof) = at[v.last]
      BY DEF Climb, AreTurns
<1>2. \E g : AreTurns(g, v, proof, v.last)
      BY TurnsExist
<1>3. AreTurns(at, v, proof, v.last)
      BY <1>2
<1> HIDE DEF at
<1>4. \A k \in 0..v.last : at[k] = IF k = 0 THEN v ELSE ClimbStep(at[k - 1], proof)
      BY <1>3 DEF AreTurns
<1>5. ASSUME NEW k \in Nat, k < v.last PROVE at[k + 1] = ClimbStep(at[k], proof)
  <2>1. k + 1 \in 0..v.last /\ k + 1 # 0 /\ (k + 1) - 1 = k
        BY <1>5
  <2> QED BY <1>4, <2>1
<1>6. at[0] = v
      BY <1>4
<1> QED BY <1>1, <1>5, <1>6

Turn(node, last, it, h1, h2) == [ok |-> TRUE, node |-> node, last |-> last, it |-> it, h1 |-> h1, h2 |-> h2]
Lost(it, h1, h2) == [ok |-> FALSE, node |-> 0, last |-> 0, it |-> it, h1 |-> h1, h2 |-> h2]

LEMMA LostStays ==
    ASSUME NEW it, NEW h1, NEW h2, NEW proof
    PROVE  ClimbStep(Lost(it, h1, h2), proof) = Lost(it, h1, h2)
    BY DEF ClimbStep, Lost

(* Where the node has no sibling nothing is taken.                          *)
LEMMA TurnAlone ==
    ASSUME NEW node \in Nat, NEW last \in Nat, node = last, ~ Odd(node), NEW it, NEW h1, NEW h2, NEW proof
    PROVE  ClimbStep(Turn(node, last, it, h1, h2), proof) = Turn(Half(node), Half(last), it, h1, h2)
<1>1. CASE node = 0
  <2>1. Half(0) = 0
        BY DEF Half
  <2>2. ClimbStep(Turn(node, last, it, h1, h2), proof) = Turn(node, last, it, h1, h2)
        BY <1>1 DEF ClimbStep, Turn
  <2> QED BY <1>1, <2>1, <2>2
<1>2. CASE node # 0
  <2>1. node >= last
        OBVIOUS
  <2> QED BY <1>2, <2>1 DEF ClimbStep, Climbed, Turn
<1> QED BY <1>1, <1>2

(* Where it has one a hash of the proof is taken, if there is any left.     *)
LEMMA TurnPaired ==
    ASSUME NEW node \in Nat, NEW last \in Nat, node <= last, Odd(node) \/ node # last,
           NEW it, NEW h1, NEW h2, NEW proof
    PROVE  /\ it > Len(proof) => ClimbStep(Turn(node, last, it, h1, h2), proof) = Lost(it, h1, h2)
           /\ ~ (it > Len(proof)) /\ Odd(node) =>
                 ClimbStep(Turn(node, last, it, h1, h2), proof)
                    = Turn(Half(node), Half(last), it + 1, Pair(proof[it], h1), Pair(proof[it], h2))
           /\ ~ (it > Len(proof)) /\ ~ Odd(node) =>
                 ClimbStep(Turn(node, last, it, h1, h2), proof)
                    = Turn(Half(node), Half(last), it + 1, h1, Pair(h2, proof[it]))
<1>1. ~ (node = 0 /\ last = 0) /\ ~ (node # 0 /\ ~ Odd(node) /\ node >= last)
  <2>1. ~ Odd(0)
        BY DEF Odd
  <2> QED BY <2>1
<1>2. it > Len(proof) => ClimbStep(Turn(node, last, it, h1, h2), proof) = Lost(it, h1, h2)
      BY <1>1 DEF ClimbStep, Turn, Lost
<1>3. ~ (it > Len(proof)) /\ Odd(node) =>
         ClimbStep(Turn(node, last, it, h1, h2), proof)
            = Turn(Half(node), Half(last), it + 1, Pair(proof[it], h1), Pair(proof[it], h2))
      BY <1>1 DEF ClimbStep, Took, Turn
<1>4. ~ (it > Len(proof)) /\ ~ Odd(node) =>
         ClimbStep(Turn(node, last, it, h1, h2), proof)
            = Turn(Half(node), Half(last), it + 1, h1, Pair(h2, proof[it]))
      BY <1>1 DEF ClimbStep, Took, Turn
<1> QED BY <1>2, <1>3, <1>4

(* The last node of a level, a left child, is the node above as well.       *)
LEMMA NodeAlone ==
    ASSUME NEW lv, NEW x \in Nat, Len(lv) = x + 1, NEW k \in Nat, NEW g \in Nat, g = Shifted(x, k), ~ Odd(g)
    PROVE  Node(lv, k + 1, Half(g)) = Node(lv, k, g)
<1>1. PICK h \in Nat : h = Half(g) /\ g = 2 * h
      BY HalfFacts
<1>2. 2 * h <= Shifted(x, k) /\ ~ (2 * h + 1 <= Shifted(x, k))
      BY <1>1
<1>3. Node(lv, k + 1, h) = Node(lv, k, 2 * h)
      BY <1>2, NodeUp
<1> QED BY <1>1, <1>3

(* What the two logs have in common to the left of the way.                 *)
Agree(lo, ln, i, k) == \A y \in 1..(Shifted(i, k) * Power(k)) : lo[y] = ln[y]

Logs(lo, ln, i, x) == i \in Nat /\ x \in Nat /\ i < x /\ Len(lo) = i + 1 /\ Len(ln) = x + 1

LEMMA LeftTells ==
    ASSUME NEW lo, NEW ln, NEW i, NEW x, Logs(lo, ln, i, x), NEW k \in Nat, Odd(Shifted(i, k))
    PROVE  /\ Agree(lo, ln, i, k + 1) /\ Sibling(lo, k, Shifted(i, k)) = Sibling(ln, k, Shifted(i, k)) => Agree(lo, ln, i, k)
           /\ (\A y \in 1..(i + 1) : lo[y] = ln[y]) => Sibling(lo, k, Shifted(i, k)) = Sibling(ln, k, Shifted(i, k))
<1>0. i \in Nat /\ x \in Nat /\ i < x /\ Len(lo) = i + 1 /\ Len(ln) = x + 1
      BY DEF Logs
<1>1. PICK p \in Nat : p = Power(k) /\ Power(k + 1) = 2 * p
      BY PowersOfTwo
<1>2. PICK a \in Nat : a = Shifted(i, k) /\ Odd(a) /\ a * p <= i /\ Shifted(i, k + 1) = Half(a)
  <2>1. Shifted(i, k) \in Nat /\ Shifted(i, k + 1) = Half(Shifted(i, k))
        BY <1>0, ShiftedSteps
  <2>2. Shifted(i, k) * p <= i
        BY <1>0, <1>1, ShiftedRange
  <2> QED BY <2>1, <2>2
<1>3. PICK h \in Nat : h = Half(a) /\ a = 2 * h + 1
      BY <1>2, HalfFacts
<1>4. PICK q \in Nat : q = h * (2 * p) /\ (2 * h) * p = q /\ (2 * h + 1) * p = q + p
  <2>1. h * (2 * p) \in Nat /\ (2 * h) * p = h * (2 * p) /\ (2 * h + 1) * p = h * (2 * p) + p
        OBVIOUS
  <2> QED BY <2>1
<1>5. a * p = q + p /\ q + p <= i
  <2>1. a * p = (2 * h + 1) * p
        BY <1>3
  <2> QED BY <1>2, <1>4, <2>1
<1>6. Cap(i + 1, q + p) = q + p /\ Cap(x + 1, q + p) = q + p
      BY <1>0, <1>5 DEF Cap
<1>7. Sibling(lo, k, a) = MTH(lo, q, q + p) /\ Sibling(ln, k, a) = MTH(ln, q, q + p)
  <2>1. a - 1 = 2 * h
        BY <1>3
  <2>2. (2 * h) * Power(k) = q /\ (2 * h + 1) * Power(k) = q + p
        BY <1>1, <1>4
  <2> QED BY <1>0, <1>2, <1>6, <2>1, <2>2 DEF Sibling, Node
<1>8. Sibling(lo, k, a) = Sibling(ln, k, a) <=> \A y \in (q + 1)..(q + p) : lo[y] = ln[y]
  <2>1. PICK hi \in Nat : hi = q + p /\ hi <= Len(lo) /\ hi <= Len(ln) /\ q <= hi
        BY <1>0, <1>5
  <2>2. Len(lo) \in Nat /\ Len(ln) \in Nat
        BY <1>0
  <2>3. MTH(lo, q, hi) = MTH(ln, q, hi) <=> \A y \in (q + 1)..hi : lo[y] = ln[y]
        BY <2>1, <2>2, RangeTells
  <2> QED BY <1>7, <2>1, <2>3
<1>9. Agree(lo, ln, i, k + 1) <=> \A y \in 1..q : lo[y] = ln[y]
      BY <1>1, <1>2, <1>3, <1>4 DEF Agree
<1>10. Agree(lo, ln, i, k) <=> \A y \in 1..(q + p) : lo[y] = ln[y]
      BY <1>1, <1>2, <1>5 DEF Agree
<1>11. \A y \in 1..(q + p) : y \in 1..q \/ y \in (q + 1)..(q + p)
      OBVIOUS
<1>12. \A y \in (q + 1)..(q + p) : y \in 1..(i + 1)
      BY <1>0, <1>5
<1> QED BY <1>2, <1>8, <1>9, <1>10, <1>11, <1>12

LEMMA EvenAgree ==
    ASSUME NEW lo, NEW ln, NEW i \in Nat, NEW k \in Nat, ~ Odd(Shifted(i, k)), Agree(lo, ln, i, k + 1)
    PROVE  Agree(lo, ln, i, k)
<1>1. PICK p \in Nat : p = Power(k) /\ Power(k + 1) = 2 * p
      BY PowersOfTwo
<1>2. PICK a \in Nat : a = Shifted(i, k) /\ ~ Odd(a) /\ Shifted(i, k + 1) = Half(a)
  <2>1. Shifted(i, k) \in Nat /\ Shifted(i, k + 1) = Half(Shifted(i, k))
        BY ShiftedSteps
  <2> QED BY <2>1
<1>3. PICK h \in Nat : h = Half(a) /\ a = 2 * h
      BY <1>2, HalfFacts
<1>4. (2 * h) * p = h * (2 * p)
      OBVIOUS
<1>5. Shifted(i, k) * Power(k) = (2 * h) * p
      BY <1>1, <1>2, <1>3
<1>6. Shifted(i, k + 1) * Power(k + 1) = h * (2 * p)
      BY <1>1, <1>2, <1>3
<1>7. Shifted(i, k) * Power(k) = Shifted(i, k + 1) * Power(k + 1)
      BY <1>4, <1>5, <1>6
<1> QED BY <1>7 DEF Agree

Match(lo, ln, i, k, h1, h2) ==
    h1 = Node(lo, k, Shifted(i, k)) /\ h2 = Node(ln, k, Shifted(i, k)) /\ Agree(lo, ln, i, k)

(* If the climb is right after a turn it was right before.                  *)
LEMMA LevelBack ==
    ASSUME NEW lo, NEW ln, NEW i, NEW x, Logs(lo, ln, i, x), NEW k \in Nat, NEW a \in Nat, a = Shifted(i, k),
           NEW h1, NEW h2, NEW p
    PROVE  /\ ~ HasSibling(x, i, k) /\ Match(lo, ln, i, k + 1, h1, h2) => Match(lo, ln, i, k, h1, h2)
           /\ HasSibling(x, i, k) /\ Odd(a) /\ Match(lo, ln, i, k + 1, Pair(p, h1), Pair(p, h2)) =>
                 Match(lo, ln, i, k, h1, h2)
           /\ HasSibling(x, i, k) /\ ~ Odd(a) /\ Match(lo, ln, i, k + 1, h1, Pair(h2, p)) =>
                 Match(lo, ln, i, k, h1, h2)
<1>0. i \in Nat /\ x \in Nat /\ i < x /\ i <= x /\ Len(lo) = i + 1 /\ Len(ln) = x + 1
      BY DEF Logs
<1>1. Shifted(i, k + 1) = Half(a) /\ a <= Shifted(x, k) /\ a <= Shifted(i, k)
  <2>1. Shifted(i, k + 1) = Half(Shifted(i, k))
        BY <1>0, ShiftedSteps
  <2>2. Shifted(i, k) <= Shifted(x, k)
        BY <1>0, ShiftedOrder
  <2> QED BY <2>1, <2>2
<1>2. ~ Odd(a) => Node(lo, k + 1, Half(a)) = Node(lo, k, a)
      BY <1>0, NodeAlone
<1>3. ASSUME ~ HasSibling(x, i, k), Match(lo, ln, i, k + 1, h1, h2) PROVE Match(lo, ln, i, k, h1, h2)
  <2>1. ~ Odd(a) /\ a = Shifted(x, k)
        BY <1>3 DEF HasSibling
  <2>2. Node(ln, k + 1, Half(a)) = Node(ln, k, a)
        BY <1>0, <2>1, NodeAlone
  <2>3. Agree(lo, ln, i, k)
        BY <1>0, <1>3, <2>1, EvenAgree DEF Match
  <2> QED BY <1>1, <1>2, <1>3, <2>1, <2>2, <2>3 DEF Match
<1>4. ASSUME HasSibling(x, i, k), Odd(a), Match(lo, ln, i, k + 1, Pair(p, h1), Pair(p, h2))
      PROVE  Match(lo, ln, i, k, h1, h2)
  <2>1. Both(a, h1, p) = Pair(p, h1) /\ Both(a, h2, p) = Pair(p, h2)
        BY <1>4 DEF Both
  <2>2. h1 = Node(lo, k, a) /\ p = Sibling(lo, k, a)
    <3>1. Both(a, h1, p) = Node(lo, k + 1, Half(a))
          BY <1>1, <1>4, <2>1 DEF Match
    <3>2. /\ Half(a) \in Nat /\ Half(a) <= Shifted(i, k + 1)
          /\ Node(lo, k + 1, Half(a)) = Both(a, Node(lo, k, a), Sibling(lo, k, a))
          /\ Both(a, h1, p) = Node(lo, k + 1, Half(a)) <=> h1 = Node(lo, k, a) /\ p = Sibling(lo, k, a)
          BY <1>0, <1>1, <1>4, BothTell
    <3> QED BY <3>1, <3>2
  <2>3. h2 = Node(ln, k, a) /\ p = Sibling(ln, k, a)
    <3>1. Both(a, h2, p) = Node(ln, k + 1, Half(a))
          BY <1>1, <1>4, <2>1 DEF Match
    <3>2. /\ Half(a) \in Nat /\ Half(a) <= Shifted(x, k + 1)
          /\ Node(ln, k + 1, Half(a)) = Both(a, Node(ln, k, a), Sibling(ln, k, a))
          /\ Both(a, h2, p) = Node(ln, k + 1, Half(a)) <=> h2 = Node(ln, k, a) /\ p = Sibling(ln, k, a)
          BY <1>0, <1>1, <1>4, BothTell
    <3> QED BY <3>1, <3>2
  <2>4. Agree(lo, ln, i, k)
    <3>1. Agree(lo, ln, i, k + 1) /\ Sibling(lo, k, Shifted(i, k)) = Sibling(ln, k, Shifted(i, k))
          BY <1>4, <2>2, <2>3 DEF Match
    <3>2. Odd(Shifted(i, k))
          BY <1>4
    <3> QED BY <3>1, <3>2, LeftTells
  <2> QED BY <2>2, <2>3, <2>4 DEF Match
<1>5. ASSUME HasSibling(x, i, k), ~ Odd(a), Match(lo, ln, i, k + 1, h1, Pair(h2, p))
      PROVE  Match(lo, ln, i, k, h1, h2)
  <2>1. Both(a, h2, p) = Pair(h2, p)
        BY <1>5 DEF Both
  <2>2. h2 = Node(ln, k, a)
    <3>1. Both(a, h2, p) = Node(ln, k + 1, Half(a))
          BY <1>1, <1>5, <2>1 DEF Match
    <3>2. Odd(a) \/ a # Shifted(x, k)
          BY <1>5 DEF HasSibling
    <3>3. /\ Half(a) \in Nat /\ Half(a) <= Shifted(x, k + 1)
          /\ Node(ln, k + 1, Half(a)) = Both(a, Node(ln, k, a), Sibling(ln, k, a))
          /\ Both(a, h2, p) = Node(ln, k + 1, Half(a)) <=> h2 = Node(ln, k, a) /\ p = Sibling(ln, k, a)
          BY <1>0, <1>1, <3>2, BothTell
    <3> QED BY <3>1, <3>3
  <2>3. h1 = Node(lo, k, a)
        BY <1>1, <1>2, <1>5 DEF Match
  <2>4. Agree(lo, ln, i, k)
        BY <1>0, <1>5, EvenAgree DEF Match
  <2> QED BY <2>2, <2>3, <2>4 DEF Match
<1> QED BY <1>3, <1>4, <1>5

Traces(lo, ln, i, x, t, g1, g2, k, v) ==
    \/ \E it, h1, h2 : v = Lost(it, h1, h2)
    \/ \E it, h1, h2 :
          /\ v = Turn(Shifted(i, k), Shifted(x, k), it, h1, h2)
          /\ Match(lo, ln, i, k, h1, h2) => Match(lo, ln, i, t, g1, g2)

LEMMA TracesOn ==
    ASSUME NEW lo, NEW ln, NEW i, NEW x, Logs(lo, ln, i, x), NEW t, NEW g1, NEW g2, NEW k \in Nat, NEW v, NEW proof,
           Traces(lo, ln, i, x, t, g1, g2, k, v)
    PROVE  Traces(lo, ln, i, x, t, g1, g2, k + 1, ClimbStep(v, proof))
<1>1. CASE \E it, h1, h2 : v = Lost(it, h1, h2)
      BY <1>1, LostStays DEF Traces
<1>2. CASE ~ \E it, h1, h2 : v = Lost(it, h1, h2)
  <2>1. PICK it, h1, h2 :
          /\ v = Turn(Shifted(i, k), Shifted(x, k), it, h1, h2)
          /\ Match(lo, ln, i, k, h1, h2) => Match(lo, ln, i, t, g1, g2)
        BY <1>2 DEF Traces
  <2>2. PICK a \in Nat : a = Shifted(i, k) /\ Shifted(i, k + 1) = Half(a)
    <3>1. Shifted(i, k) \in Nat /\ Shifted(i, k + 1) = Half(Shifted(i, k))
          BY ShiftedSteps DEF Logs
    <3> QED BY <3>1
  <2>3. PICK s \in Nat : s = Shifted(x, k) /\ Shifted(x, k + 1) = Half(s) /\ a <= s
    <3>1. Shifted(x, k) \in Nat /\ Shifted(x, k + 1) = Half(Shifted(x, k))
          BY ShiftedSteps DEF Logs
    <3>2. Shifted(i, k) <= Shifted(x, k)
      <4>1. i \in Nat /\ x \in Nat /\ i <= x
            BY DEF Logs
      <4> QED BY <4>1, ShiftedOrder
    <3> QED BY <2>2, <3>1, <3>2
  <2>4. v = Turn(a, s, it, h1, h2)
        BY <2>1, <2>2, <2>3
  <2>5. CASE ~ HasSibling(x, i, k)
    <3>1. a = s /\ ~ Odd(a)
          BY <2>2, <2>3, <2>5 DEF HasSibling
    <3>2. ClimbStep(v, proof) = Turn(Half(a), Half(s), it, h1, h2)
          BY <2>4, <3>1, TurnAlone
    <3>3. Match(lo, ln, i, k + 1, h1, h2) => Match(lo, ln, i, k, h1, h2)
          BY <2>2, <2>5, LevelBack
    <3> QED BY <2>1, <2>2, <2>3, <3>2, <3>3 DEF Traces
  <2>6. CASE HasSibling(x, i, k)
    <3>1. Odd(a) \/ a # s
          BY <2>2, <2>3, <2>6 DEF HasSibling
    <3>2. PICK p : p = proof[it]
          OBVIOUS
    <3>3. /\ it > Len(proof) => ClimbStep(Turn(a, s, it, h1, h2), proof) = Lost(it, h1, h2)
          /\ ~ (it > Len(proof)) /\ Odd(a) =>
                 ClimbStep(Turn(a, s, it, h1, h2), proof) = Turn(Half(a), Half(s), it + 1, Pair(p, h1), Pair(p, h2))
          /\ ~ (it > Len(proof)) /\ ~ Odd(a) =>
                 ClimbStep(Turn(a, s, it, h1, h2), proof) = Turn(Half(a), Half(s), it + 1, h1, Pair(h2, p))
          BY <2>3, <3>1, <3>2, TurnPaired
    <3>4. CASE it > Len(proof)
          BY <2>4, <3>3, <3>4 DEF Traces
    <3>5. CASE ~ (it > Len(proof)) /\ Odd(a)
      <4>1. ClimbStep(v, proof) = Turn(Half(a), Half(s), it + 1, Pair(p, h1), Pair(p, h2))
            BY <2>4, <3>3, <3>5
      <4>2. Match(lo, ln, i, k + 1, Pair(p, h1), Pair(p, h2)) => Match(lo, ln, i, k, h1, h2)
            BY <2>2, <2>6, <3>5, LevelBack
      <4> QED BY <2>1, <2>2, <2>3, <4>1, <4>2 DEF Traces
    <3>6. CASE ~ (it > Len(proof)) /\ ~ Odd(a)
      <4>1. ClimbStep(v, proof) = Turn(Half(a), Half(s), it + 1, h1, Pair(h2, p))
            BY <2>4, <3>3, <3>6
      <4>2. Match(lo, ln, i, k + 1, h1, Pair(h2, p)) => Match(lo, ln, i, k, h1, h2)
            BY <2>2, <2>6, <3>6, LevelBack
      <4> QED BY <2>1, <2>2, <2>3, <4>1, <4>2 DEF Traces
    <3> QED BY <3>4, <3>5, <3>6
  <2> QED BY <2>5, <2>6
<1> QED BY <1>1, <1>2

(* The check, from where it starts.                                         *)
Climbing(a, s, r, proof) == IF a = 0 THEN Turn(a, s, 1, r, r) ELSE Turn(a, s, 2, proof[1], proof[1])

Arrives(end, r1, r2, proof) == end.ok /\ end.h1 = r1 /\ end.h2 = r2 /\ end.it = Len(proof) + 1

LEMMA GrowthUnfolds ==
    ASSUME NEW i \in Nat, NEW x \in Nat, i < x, NEW t \in Nat, Rebased(i, x, t), NEW a, NEW s,
           a = Shifted(i, t), s = Shifted(x, t), NEW r1, NEW r2, NEW proof
    PROVE  VerifyConsistency(i + 1, r1, x + 1, r2, proof)
             <=> (a # 0 => proof # <<>>) /\ Arrives(Climb(Climbing(a, s, r1, proof), proof), r1, r2, proof)
<1>1. (i + 1) - 1 = i /\ (x + 1) - 1 = x /\ ~ (i + 1 > x + 1) /\ i + 1 # x + 1 /\ i + 1 # 0
      OBVIOUS
<1>2. PICK q : q = Rebase(i, x) /\ q[1] = a /\ q[2] = s
  <2>1. Rebase(i, x) = <<a, s>>
        BY DEF Rebased
  <2> QED BY <2>1
<1> DEFINE start(it, h) == [ok |-> TRUE, node |-> q[1], last |-> q[2], it |-> it, h1 |-> h, h2 |-> h]
           first == IF q[1] = 0 THEN start(1, r1) ELSE start(2, proof[1])
<1>3. first = Climbing(a, s, r1, proof)
      BY <1>2 DEF Climbing, Turn
<1> HIDE DEF first, start
<1>4. VerifyConsistency(i + 1, r1, x + 1, r2, proof)
        <=> (q[1] # 0 => proof # <<>>) /\ Arrives(Climb(first, proof), r1, r2, proof)
      BY <1>1, <1>2 DEF VerifyConsistency, Arrives, first, start
<1> QED BY <1>2, <1>3, <1>4

(* The hash the climb starts from is that of the rest of the older log.     *)
LEMMA StartTells ==
    ASSUME NEW lo, NEW ln, NEW i, NEW x, Logs(lo, ln, i, x), NEW t \in Nat, Rebased(i, x, t)
    PROVE  /\ Node(ln, t, Shifted(i, t)) = MTH(ln, Shifted(i, t) * Power(t), i + 1)
           /\ Node(lo, t, Shifted(i, t)) = Node(ln, t, Shifted(i, t))
                 <=> \A y \in (Shifted(i, t) * Power(t) + 1)..(i + 1) : lo[y] = ln[y]
           /\ Shifted(i, t) * Power(t) \in 0..(i + 1)
<1>0. i \in Nat /\ x \in Nat /\ i < x /\ Len(lo) = i + 1 /\ Len(ln) = x + 1
      BY DEF Logs
<1>1. PICK p \in Nat : p = Power(t)
      BY PowersOfTwo
<1>2. PICK a \in Nat : a = Shifted(i, t) /\ i + 1 = (a + 1) * p
  <2>1. Shifted(i, t) \in Nat
        BY <1>0, ShiftedSteps
  <2> QED BY <1>1, <2>1 DEF Rebased
<1>3. PICK q \in Nat : q = a * p /\ (a + 1) * p = q + p
  <2>1. a * p \in Nat /\ (a + 1) * p = a * p + p
        OBVIOUS
  <2> QED BY <2>1
<1>4. PICK n \in Nat : n = i + 1 /\ n <= Len(lo) /\ n <= Len(ln) /\ q <= n /\ Len(lo) \in Nat /\ Len(ln) \in Nat
  <2>1. i + 1 = q + p
        BY <1>2, <1>3
  <2> QED BY <1>0, <2>1
<1>5. Cap(Len(lo), n) = n /\ Cap(Len(ln), n) = n
      BY <1>4 DEF Cap
<1>6. Node(lo, t, a) = MTH(lo, q, n) /\ Node(ln, t, a) = MTH(ln, q, n)
      BY <1>1, <1>2, <1>3, <1>4, <1>5 DEF Node
<1>7. MTH(lo, q, n) = MTH(ln, q, n) <=> \A y \in (q + 1)..n : lo[y] = ln[y]
      BY <1>4, RangeTells
<1>8. q \in 0..n
      BY <1>4
<1> QED BY <1>1, <1>2, <1>3, <1>4, <1>6, <1>7, <1>8

(* Only the beginning of the newer log proves to be one.                    *)
LEMMA GrowthSound ==
    ASSUME NEW lo, NEW ln, NEW i, NEW x, Logs(lo, ln, i, x), NEW proof,
           VerifyConsistency(i + 1, MTH(lo, 0, i + 1), x + 1, MTH(ln, 0, x + 1), proof)
    PROVE  \A y \in 1..(i + 1) : lo[y] = ln[y]
<1>0. i \in Nat /\ x \in Nat /\ i < x /\ i <= x /\ Len(lo) = i + 1 /\ Len(ln) = x + 1
      BY DEF Logs
<1>1. PICK t \in Nat : Rebased(i, x, t)
      BY <1>0, RebaseFact
<1>2. PICK a \in Nat : a = Shifted(i, t)
  <2>1. Shifted(i, t) \in Nat
        BY <1>0, ShiftedSteps
  <2> QED BY <2>1
<1>3. PICK s \in Nat : s = Shifted(x, t)
  <2>1. Shifted(x, t) \in Nat
        BY <1>0, ShiftedSteps
  <2> QED BY <2>1
<1>4. PICK r1, r2 : r1 = MTH(lo, 0, i + 1) /\ r2 = MTH(ln, 0, x + 1)
      OBVIOUS
<1>5. PICK v : v = Climbing(a, s, r1, proof)
      OBVIOUS
<1>6. Arrives(Climb(v, proof), r1, r2, proof)
  <2>1. VerifyConsistency(i + 1, r1, x + 1, r2, proof)
        BY <1>4
  <2> QED BY <1>0, <1>1, <1>2, <1>3, <1>5, <2>1, GrowthUnfolds
<1>7. PICK it, g : v = Turn(a, s, it, g, g)
      BY <1>5 DEF Climbing
<1>8. v.last = s
      BY <1>7 DEF Turn
<1>9. PICK at : Climb(v, proof) = at[s] /\ at[0] = v /\ \A k \in Nat : k < s => at[k + 1] = ClimbStep(at[k], proof)
  <2>1. v.last \in Nat
        BY <1>8
  <2>2. \E at : /\ Climb(v, proof) = at[v.last] /\ at[0] = v
                /\ \A k \in Nat : k < v.last => at[k + 1] = ClimbStep(at[k], proof)
        BY <2>1, TurnsSolved
  <2> QED BY <1>8, <2>2
<1> DEFINE T == {k \in Nat : k <= s => Traces(lo, ln, i, x, t, g, g, t + k, at[k])}
<1>10. 0 \in T
  <2>1. t + 0 = t
        OBVIOUS
  <2>2. Traces(lo, ln, i, x, t, g, g, t, v)
        BY <1>2, <1>3, <1>7 DEF Traces
  <2> QED BY <1>9, <2>1, <2>2
<1>11. ASSUME NEW k \in Nat, k \in T PROVE k + 1 \in T
  <2> SUFFICES ASSUME k + 1 <= s PROVE Traces(lo, ln, i, x, t, g, g, t + (k + 1), at[k + 1])
      OBVIOUS
  <2>1. PICK m \in Nat : m = t + k /\ m + 1 = t + (k + 1)
        OBVIOUS
  <2>2. Traces(lo, ln, i, x, t, g, g, m, at[k])
        BY <1>11, <2>1
  <2>3. at[k + 1] = ClimbStep(at[k], proof)
        BY <1>9
  <2>4. Traces(lo, ln, i, x, t, g, g, m + 1, ClimbStep(at[k], proof))
        BY <2>2, TracesOn
  <2> QED BY <2>1, <2>3, <2>4
<1>12. s \in T
  <2> HIDE DEF T
  <2> QED BY <1>10, <1>11, StepByStep
<1>13. PICK m \in Nat : m = t + s /\ Traces(lo, ln, i, x, t, g, g, m, at[s])
       BY <1>12
<1>14. Shifted(x, m) = 0 /\ Shifted(i, m) = 0
  <2>1. Shifted(Shifted(x, t), s) = Shifted(x, t + s)
        BY <1>0, ShiftedOn
  <2>2. Shifted(s, s) = 0
        BY ShiftedAway
  <2>3. Shifted(x, m) = 0
        BY <1>3, <1>13, <2>1, <2>2
  <2>4. Shifted(i, m) <= Shifted(x, m)
        BY <1>0, ShiftedOrder
  <2>5. Shifted(i, m) \in Nat
        BY <1>0, ShiftedSteps
  <2> QED BY <2>3, <2>4, <2>5
<1>15. ASSUME NEW it2, NEW h1, NEW h2, at[s] = Lost(it2, h1, h2) PROVE FALSE
  <2>1. at[s].ok
        BY <1>6, <1>9 DEF Arrives
  <2>2. Lost(it2, h1, h2).ok = FALSE
        BY DEF Lost
  <2> QED BY <1>15, <2>1, <2>2
<1>16. PICK it2, h1, h2 :
          /\ at[s] = Turn(Shifted(i, m), Shifted(x, m), it2, h1, h2)
          /\ Match(lo, ln, i, m, h1, h2) => Match(lo, ln, i, t, g, g)
       BY <1>13, <1>15 DEF Traces
<1>17. h1 = r1 /\ h2 = r2
       BY <1>6, <1>9, <1>16 DEF Arrives, Turn
<1>18. Match(lo, ln, i, m, h1, h2)
  <2>1. h1 = Node(lo, m, 0)
        BY <1>0, <1>4, <1>14, <1>17, NodeRoot
  <2>2. h2 = Node(ln, m, 0)
        BY <1>0, <1>4, <1>14, <1>17, NodeRoot
  <2>3. Agree(lo, ln, i, m)
    <3>1. PICK p \in Nat : p = Power(m)
          BY PowersOfTwo
    <3>2. 0 * p = 0 /\ 1..0 = {}
          OBVIOUS
    <3> QED BY <1>14, <3>1, <3>2 DEF Agree
  <2> QED BY <1>14, <2>1, <2>2, <2>3 DEF Match
<1>19. Match(lo, ln, i, t, g, g)
       BY <1>16, <1>18
<1>20. PICK q \in 0..(i + 1) : q = Shifted(i, t) * Power(t)
       BY <1>1, StartTells
<1>21. \A y \in 1..q : lo[y] = ln[y]
       BY <1>19, <1>20 DEF Match, Agree
<1>22. \A y \in (q + 1)..(i + 1) : lo[y] = ln[y]
  <2>1. Node(lo, t, Shifted(i, t)) = Node(ln, t, Shifted(i, t))
        BY <1>19 DEF Match
  <2>2. Node(lo, t, Shifted(i, t)) = Node(ln, t, Shifted(i, t))
           <=> \A y \in (Shifted(i, t) * Power(t) + 1)..(i + 1) : lo[y] = ln[y]
        BY <1>1, StartTells
  <2> QED BY <1>20, <2>1, <2>2
<1>23. \A y \in 1..(i + 1) : y \in 1..q \/ y \in (q + 1)..(i + 1)
       BY <1>0
<1> QED BY <1>21, <1>22, <1>23

-----------------------------------------------------------------------------
(* The proof a log makes of its growth: from the start of the climb on the  *)
(* siblings beside the way.                                                 *)
LEMMA BeyondStart ==
    ASSUME NEW i \in Nat, NEW t \in Nat, ~ Odd(Shifted(i, t)), i + 1 = (Shifted(i, t) + 1) * Power(t),
           NEW k \in Nat, t < k
    PROVE  i + 1 < (Shifted(i, k) + 1) * Power(k)
<1> DEFINE T == {m \in Nat : t < m => i + 1 < (Shifted(i, m) + 1) * Power(m)}
<1>1. 0 \in T
      OBVIOUS
<1>2. ASSUME NEW m \in Nat, m \in T PROVE m + 1 \in T
  <2> SUFFICES ASSUME t < m + 1 PROVE i + 1 < (Shifted(i, m + 1) + 1) * Power(m + 1)
      OBVIOUS
  <2>1. PICK p \in Nat : p = Power(m) /\ p # 0 /\ Power(m + 1) = 2 * p
        BY PowersGrow, PowersOfTwo
  <2>2. PICK a \in Nat : a = Shifted(i, m) /\ Shifted(i, m + 1) = Half(a)
    <3>1. Shifted(i, m) \in Nat /\ Shifted(i, m + 1) = Half(Shifted(i, m))
          BY ShiftedSteps
    <3> QED BY <3>1
  <2>3. PICK h \in Nat : h = Half(a) /\ (Odd(a) => a = 2 * h + 1) /\ (~ Odd(a) => a = 2 * h)
        BY HalfFacts
  <2>4. PICK q \in Nat : q = h * (2 * p) /\ (h + 1) * (2 * p) = q + 2 * p /\ ((2 * h) + 1) * p = q + p
                         /\ ((2 * h + 1) + 1) * p = q + 2 * p
    <3>1. /\ h * (2 * p) \in Nat /\ (h + 1) * (2 * p) = h * (2 * p) + 2 * p
          /\ ((2 * h) + 1) * p = h * (2 * p) + p /\ ((2 * h + 1) + 1) * p = h * (2 * p) + 2 * p
          OBVIOUS
    <3> QED BY <3>1
  <2>5. (Shifted(i, m + 1) + 1) * Power(m + 1) = q + 2 * p
        BY <2>1, <2>2, <2>3, <2>4
  <2>6. PICK z : z = (Shifted(i, m) + 1) * Power(m)
        OBVIOUS
  <2>7. CASE Odd(a)
    <3>1. z = q + 2 * p
          BY <2>1, <2>2, <2>3, <2>4, <2>6, <2>7
    <3>2. t < m
      <4>1. t # m
            BY <2>2, <2>7
      <4> QED BY <4>1
    <3>3. i + 1 < z
          BY <1>2, <2>6, <3>2
    <3> QED BY <2>5, <3>1, <3>3
  <2>8. CASE ~ Odd(a)
    <3>1. z = q + p
          BY <2>1, <2>2, <2>3, <2>4, <2>6, <2>8
    <3>2. i + 1 <= z
      <4>1. CASE t = m
            BY <2>6, <3>1, <4>1
      <4>2. CASE t < m
            BY <1>2, <2>6, <3>1, <4>2
      <4> QED BY <4>1, <4>2
    <3> QED BY <2>1, <2>5, <3>1, <3>2
  <2> QED BY <2>7, <2>8
<1>3. k \in T
  <2> HIDE DEF T
  <2> QED BY <1>1, <1>2, StepByStep
<1> QED BY <1>3

LEMMA EndedFact ==
    ASSUME NEW ln, NEW i \in Nat, NEW x \in Nat, i < x, Len(ln) = x + 1, NEW k \in Nat
    PROVE  /\ PlaceAt(ln, i, 1, k) \in Spots(ln, 1)
           /\ PlaceAt(ln, i, 1, k) \in Ended(ln) <=> (Shifted(i, k) + 1) * Power(k) = i + 1
<1>1. PICK p \in Nat : p = Power(k)
      BY PowersOfTwo
<1>2. PICK a \in Nat : a = Shifted(i, k) /\ a * p <= i /\ i < (a + 1) * p
  <2>1. Shifted(i, k) \in Nat
        BY ShiftedSteps
  <2>2. Shifted(i, k) * p <= i /\ i < (Shifted(i, k) + 1) * p
        BY <1>1, ShiftedRange
  <2> QED BY <2>1, <2>2
<1>3. PICK q \in Nat : q = a * p /\ q <= i
  <2>1. a * p \in Nat
        OBVIOUS
  <2> QED BY <1>2, <2>1
<1>4. PICK e \in Nat : e = (a + 1) * p /\ i < e
  <2>1. (a + 1) * p \in Nat
        OBVIOUS
  <2> QED BY <1>2, <2>1
<1>5. PICK hi \in Nat : hi = Cap(x + 1, e)
      BY DEF Cap
<1>6. PICK spot : spot = PlaceAt(ln, i, 1, k)
      OBVIOUS
<1>7. spot = <<(i + 1) - q, q, hi>>
      BY <1>1, <1>2, <1>3, <1>4, <1>5, <1>6 DEF PlaceAt
<1>8. spot \in Spots(ln, 1)
  <2>1. PICK c \in 0..1 : c = 1
        OBVIOUS
  <2>2. PlaceAt(ln, i, c, k) \in Spots(ln, c)
        BY PlaceFact
  <2> QED BY <1>6, <2>1, <2>2
<1>9. spot \in Ended(ln) <=> hi <= q + ((i + 1) - q)
      BY <1>7, <1>8 DEF Ended
<1>10. q + ((i + 1) - q) = i + 1
       BY <1>3
<1>11. hi <= i + 1 <=> e = i + 1
       BY <1>4, <1>5 DEF Cap
<1> QED BY <1>1, <1>2, <1>4, <1>6, <1>8, <1>9, <1>10, <1>11

Grown(W, ln, i, x, t) ==
    /\ \A k \in Nat : W[k] \in Seq(Hashes(ln))
    /\ W[t] = IF Shifted(i, t) = 0 THEN <<>> ELSE <<Node(ln, t, Shifted(i, t))>>
    /\ \A k \in Nat : t <= k =>
          W[k + 1] = IF HasSibling(x, i, k) THEN Append(W[k], Sibling(ln, k, Shifted(i, k))) ELSE W[k]
    /\ \A k \in Nat : Shifted(x, k) = 0 => W[k] = Subproof(ln, i + 1, 0, x + 1)

LEMMA GrowthWay ==
    ASSUME NEW lo, NEW ln, NEW i, NEW x, Logs(lo, ln, i, x), NEW t \in Nat, Rebased(i, x, t)
    PROVE  \E W : Grown(W, ln, i, x, t)
<1>0. i \in Nat /\ x \in Nat /\ i < x /\ i <= x /\ Len(ln) = x + 1 /\ Len(ln) \in Nat
      BY DEF Logs
<1>1. PICK g, base :
              /\ Begins(ln, Ended(ln), base, 1) /\ AreWays(g, ln, Ended(ln), base, 1)
              /\ \A u \in Ended(ln) : base[u] = IF u[2] = 0 THEN <<>> ELSE <<MTH(ln, u[2], u[3])>>
              /\ \A m, a, b : Subproof(ln, m, a, b) = g[<<m, a, b>>]
      BY <1>0, SubproofWay
<1>2. PICK c \in 0..1 : c = 1
      OBVIOUS
<1>3. PICK E : E = Ended(ln) /\ Begins(ln, E, base, c) /\ AreWays(g, ln, E, base, c)
      BY <1>1, <1>2
<1>4. PICK W : W = [k \in Nat |-> g[PlaceAt(ln, i, c, k)]]
      OBVIOUS
<1>5. \A k \in Nat : W[k] = g[PlaceAt(ln, i, c, k)]
      BY <1>4
<1>6. \A u \in Spots(ln, c) : g[u] = WayTo(g, ln, E, base, c, u) /\ g[u] \in Seq(Hashes(ln))
      BY <1>3, WaysTyped
<1>7. ASSUME NEW k \in Nat
      PROVE  PlaceAt(ln, i, c, k) \in Spots(ln, c) /\ (PlaceAt(ln, i, c, k) \in E <=> (Shifted(i, k) + 1) * Power(k) = i + 1)
      BY <1>0, <1>2, <1>3, EndedFact
<1>8. ~ Odd(Shifted(i, t)) /\ i + 1 = (Shifted(i, t) + 1) * Power(t)
      BY DEF Rebased
<1>9. \A k \in Nat : W[k] \in Seq(Hashes(ln))
      BY <1>5, <1>6, <1>7
<1>10. W[t] = IF Shifted(i, t) = 0 THEN <<>> ELSE <<Node(ln, t, Shifted(i, t))>>
  <2>1. PICK u : u = PlaceAt(ln, i, c, t)
        OBVIOUS
  <2>2. u \in E /\ u \in Spots(ln, c)
        BY <1>7, <1>8, <2>1
  <2>3. W[t] = base[u]
    <3>1. WayTo(g, ln, E, base, c, u) = base[u]
          BY <2>2 DEF WayTo
    <3> QED BY <1>5, <1>6, <2>1, <2>2, <3>1
  <2>4. W[t] = IF u[2] = 0 THEN <<>> ELSE <<MTH(ln, u[2], u[3])>>
        BY <1>1, <1>3, <2>2, <2>3
  <2>5. PICK p \in Nat : p = Power(t) /\ p # 0
        BY PowersGrow
  <2>6. PICK a \in Nat : a = Shifted(i, t)
    <3>1. Shifted(i, t) \in Nat
          BY <1>0, ShiftedSteps
    <3> QED BY <3>1
  <2>7. u[2] = a * p /\ u[3] = Cap(Len(ln), (a + 1) * p)
        BY <2>1, <2>5, <2>6 DEF PlaceAt
  <2>8. MTH(ln, u[2], u[3]) = Node(ln, t, a)
        BY <2>5, <2>7 DEF Node
  <2>9. a * p = 0 <=> a = 0
    <3>1. CASE a = 0
          BY <3>1
    <3>2. CASE a # 0
      <4>1. PICK b \in Nat : a = b + 1
        <5>1. a - 1 \in Nat /\ a = (a - 1) + 1
              BY <3>2
        <5> QED BY <5>1
      <4>2. (b + 1) * p = b * p + p /\ b * p \in Nat
            OBVIOUS
      <4>3. a * p = b * p + p
            BY <4>1, <4>2
      <4> QED BY <2>5, <3>2, <4>2, <4>3
    <3> QED BY <3>1, <3>2
  <2> QED BY <2>4, <2>6, <2>7, <2>8, <2>9
<1>11. ASSUME NEW k \in Nat, t <= k
       PROVE  W[k + 1] = IF HasSibling(x, i, k) THEN Append(W[k], Sibling(ln, k, Shifted(i, k))) ELSE W[k]
  <2>1. WayGrows(g, ln, E, c, x, i, k)
        BY <1>0, <1>3, PlaceUp
  <2>2. PlaceAt(ln, i, c, k + 1) \notin E
    <3>1. PICK m \in Nat : m = k + 1 /\ t < m
          BY <1>11
    <3>2. i + 1 < (Shifted(i, m) + 1) * Power(m)
          BY <1>0, <1>8, <3>1, BeyondStart
    <3>3. (Shifted(i, m) + 1) * Power(m) # i + 1
      <4>1. i + 1 \in Nat
            BY <1>0
      <4>2. PICK z : z = (Shifted(i, m) + 1) * Power(m)
            OBVIOUS
      <4> QED BY <3>2, <4>1, <4>2
    <3> QED BY <1>7, <3>1, <3>3
  <2>3. k + 1 \in Nat
        OBVIOUS
  <2>4. W[k + 1] = g[PlaceAt(ln, i, c, k + 1)] /\ W[k] = g[PlaceAt(ln, i, c, k)]
        BY <1>5, <2>3
  <2> QED BY <2>1, <2>2, <2>4 DEF WayGrows
<1>12. ASSUME NEW k \in Nat, Shifted(x, k) = 0 PROVE W[k] = Subproof(ln, i + 1, 0, x + 1)
  <2>1. Shifted(i, k) = 0
    <3>1. Shifted(i, k) <= Shifted(x, k)
          BY <1>0, ShiftedOrder
    <3>2. Shifted(i, k) \in Nat
          BY <1>0, ShiftedSteps
    <3> QED BY <1>12, <3>1, <3>2
  <2>2. PICK p \in Nat : p = Power(k) /\ x < p
    <3>1. Power(k) \in Nat
          BY PowersGrow
    <3>2. x < Power(k)
          BY <1>0, <1>12, ShiftedAway
    <3> QED BY <3>1, <3>2
  <2>3. 0 * p = 0 /\ (0 + 1) * p = p /\ (i + c) - 0 = i + 1 /\ Cap(x + 1, p) = x + 1
        BY <1>0, <1>2, <2>2 DEF Cap
  <2>4. PlaceAt(ln, i, c, k) = <<i + 1, 0, x + 1>>
        BY <1>0, <2>1, <2>2, <2>3 DEF PlaceAt
  <2> QED BY <1>1, <1>5, <2>4
<1>13. Grown(W, ln, i, x, t)
       BY <1>9, <1>10, <1>11, <1>12 DEF Grown
<1> QED BY <1>13

Extends(s, u) == Len(s) <= Len(u) /\ \A y \in 1..Len(s) : u[y] = s[y]

LEMMA GrownExtends ==
    ASSUME NEW W, NEW ln, NEW i, NEW x, NEW t \in Nat, Grown(W, ln, i, x, t), NEW k \in Nat, t <= k, NEW d \in Nat
    PROVE  Extends(W[k], W[k + d])
<1> DEFINE T == {m \in Nat : Extends(W[k], W[k + m])}
<1>0. \A m \in Nat : W[m] \in Seq(Hashes(ln)) /\ Len(W[m]) \in Nat
      BY DEF Grown
<1>1. 0 \in T
  <2>1. k + 0 = k
        OBVIOUS
  <2>2. Extends(W[k], W[k])
        BY <1>0 DEF Extends
  <2> QED BY <2>1, <2>2
<1>2. ASSUME NEW m \in Nat, m \in T PROVE m + 1 \in T
  <2>1. PICK n \in Nat : n = k + m /\ n + 1 = k + (m + 1) /\ t <= n
        OBVIOUS
  <2>2. Extends(W[k], W[n])
        BY <1>2, <2>1
  <2>3. W[n + 1] = IF HasSibling(x, i, n) THEN Append(W[n], Sibling(ln, n, Shifted(i, n))) ELSE W[n]
        BY <2>1 DEF Grown
  <2>4. Extends(W[k], W[n + 1])
    <3>1. CASE ~ HasSibling(x, i, n)
          BY <2>2, <2>3, <3>1
    <3>2. CASE HasSibling(x, i, n)
      <4>1. PICK s, p : s = W[n] /\ p = Sibling(ln, n, Shifted(i, n))
            OBVIOUS
      <4>2. s \in Seq(Hashes(ln)) /\ Len(s) \in Nat /\ Len(W[k]) \in Nat
            BY <1>0, <4>1
      <4>3. Len(Append(s, p)) = Len(s) + 1 /\ \A y \in 1..Len(s) : Append(s, p)[y] = s[y]
            BY <4>2
      <4>4. W[n + 1] = Append(s, p)
            BY <2>3, <3>2, <4>1
      <4>5. Extends(W[k], s)
            BY <2>2, <4>1
      <4> QED BY <4>2, <4>3, <4>4, <4>5 DEF Extends
    <3> QED BY <3>1, <3>2
  <2> QED BY <2>1, <2>4
<1>3. d \in T
  <2> HIDE DEF T
  <2> QED BY <1>1, <1>2, StepByStep
<1> QED BY <1>3

(* The log proves its growth from every log it has grown from.              *)
LEMMA GrowthComplete ==
    ASSUME NEW lo, NEW ln, NEW i, NEW x, Logs(lo, ln, i, x), \A y \in 1..(i + 1) : lo[y] = ln[y]
    PROVE  VerifyConsistency(i + 1, MTH(lo, 0, i + 1), x + 1, MTH(ln, 0, x + 1), Subproof(ln, i + 1, 0, x + 1))
<1>0. i \in Nat /\ x \in Nat /\ i < x /\ i <= x /\ Len(lo) = i + 1 /\ Len(ln) = x + 1
      BY DEF Logs
<1>1. PICK t \in Nat : Rebased(i, x, t)
      BY <1>0, RebaseFact
<1>2. PICK W : Grown(W, ln, i, x, t)
      BY <1>1, GrowthWay
<1>3. \A k \in Nat : W[k] \in Seq(Hashes(ln)) /\ Len(W[k]) \in Nat
      BY <1>2 DEF Grown
<1>4. PICK a \in Nat : a = Shifted(i, t)
  <2>1. Shifted(i, t) \in Nat
        BY <1>0, ShiftedSteps
  <2> QED BY <2>1
<1>5. PICK s \in Nat : s = Shifted(x, t)
  <2>1. Shifted(x, t) \in Nat
        BY <1>0, ShiftedSteps
  <2> QED BY <2>1
<1>6. PICK m \in Nat : m = t + s /\ t <= m
      OBVIOUS
<1>7. Shifted(x, m) = 0 /\ Shifted(i, m) = 0
  <2>1. Shifted(Shifted(x, t), s) = Shifted(x, t + s)
        BY <1>0, ShiftedOn
  <2>2. Shifted(s, s) = 0
        BY ShiftedAway
  <2>3. Shifted(x, m) = 0
        BY <1>5, <1>6, <2>1, <2>2
  <2>4. Shifted(i, m) <= Shifted(x, m)
        BY <1>0, ShiftedOrder
  <2>5. Shifted(i, m) \in Nat
        BY <1>0, ShiftedSteps
  <2> QED BY <2>3, <2>4, <2>5
<1>8. PICK proof : proof = Subproof(ln, i + 1, 0, x + 1)
      OBVIOUS
<1>9. W[m] = proof
      BY <1>2, <1>7, <1>8 DEF Grown
<1>10. \A k \in Nat : t <= k /\ k <= m => Extends(W[k], proof)
  <2> SUFFICES ASSUME NEW k \in Nat, t <= k, k <= m PROVE Extends(W[k], proof)
      OBVIOUS
  <2>1. PICK d \in Nat : m = k + d
    <3>1. m - k \in Nat /\ m = k + (m - k)
          OBVIOUS
    <3> QED BY <3>1
  <2>2. Extends(W[k], W[k + d])
        BY <1>2, GrownExtends
  <2> QED BY <1>9, <2>1, <2>2
<1>11. PICK r1, r2 : r1 = MTH(lo, 0, i + 1) /\ r2 = MTH(ln, 0, x + 1)
       OBVIOUS
<1>12. Node(lo, t, a) = Node(ln, t, a)
  <2>1. PICK q \in 0..(i + 1) : q = Shifted(i, t) * Power(t)
        BY <1>1, StartTells
  <2>2. \A y \in (q + 1)..(i + 1) : y \in 1..(i + 1)
        BY <1>0
  <2>3. \A y \in (q + 1)..(i + 1) : lo[y] = ln[y]
        BY <2>2
  <2>4. Node(lo, t, Shifted(i, t)) = Node(ln, t, Shifted(i, t))
           <=> \A y \in (Shifted(i, t) * Power(t) + 1)..(i + 1) : lo[y] = ln[y]
        BY <1>1, StartTells
  <2> QED BY <1>4, <2>1, <2>3, <2>4
<1>13. Extends(W[t], proof)
       BY <1>6, <1>10
<1>14. a = 0 => W[t] = <<>> /\ r1 = Node(lo, t, 0)
  <2>1. ASSUME a = 0 PROVE r1 = Node(lo, t, 0)
        BY <1>0, <1>4, <1>11, <2>1, NodeRoot
  <2>2. a = 0 => W[t] = <<>>
        BY <1>2, <1>4 DEF Grown
  <2> QED BY <2>1, <2>2
<1>15. a # 0 => W[t] = <<Node(ln, t, a)>> /\ proof # <<>> /\ proof[1] = Node(ln, t, a)
  <2> SUFFICES ASSUME a # 0 PROVE W[t] = <<Node(ln, t, a)>> /\ proof # <<>> /\ proof[1] = Node(ln, t, a)
      OBVIOUS
  <2>1. PICK h, w : h = Node(ln, t, a) /\ w = W[t] /\ w = <<h>>
        BY <1>2, <1>4 DEF Grown
  <2>2. Len(w) = 1 /\ w[1] = h
        BY <2>1
  <2>3. 1 <= Len(proof) /\ proof[1] = w[1]
        BY <1>13, <2>1, <2>2 DEF Extends
  <2>4. proof # <<>>
        BY <2>3
  <2> QED BY <2>1, <2>2, <2>3, <2>4
<1>16. PICK v : v = Climbing(a, s, r1, proof)
       OBVIOUS
<1> DEFINE Right(k) == Turn(Shifted(i, k), Shifted(x, k), Len(W[k]) + 1, Node(lo, k, Shifted(i, k)), Node(ln, k, Shifted(i, k)))
<1>17. v = Right(t)
  <2>1. CASE a = 0
    <3>1. v = Turn(a, s, 1, r1, r1)
          BY <1>16, <2>1 DEF Climbing
    <3>2. PICK w : w = <<>> /\ w = W[t]
          BY <1>14, <2>1
    <3>3. Len(w) + 1 = 1
          BY <3>2
    <3>4. r1 = Node(lo, t, a) /\ r1 = Node(ln, t, a)
          BY <1>12, <1>14, <2>1
    <3> QED BY <1>4, <1>5, <3>1, <3>2, <3>3, <3>4
  <2>2. CASE a # 0
    <3>1. v = Turn(a, s, 2, proof[1], proof[1])
          BY <1>16, <2>2 DEF Climbing
    <3>2. PICK h, w : h = Node(ln, t, a) /\ w = W[t] /\ w = <<h>>
          BY <1>15, <2>2
    <3>3. Len(w) + 1 = 2
          BY <3>2
    <3>4. proof[1] = Node(lo, t, a) /\ proof[1] = Node(ln, t, a)
          BY <1>12, <1>15, <2>2
    <3> QED BY <1>4, <1>5, <3>1, <3>2, <3>3, <3>4
  <2> QED BY <2>1, <2>2
<1>18. v.last = s
       BY <1>5, <1>17 DEF Turn
<1>19. PICK at : Climb(v, proof) = at[s] /\ at[0] = v /\ \A k \in Nat : k < s => at[k + 1] = ClimbStep(at[k], proof)
  <2>1. v.last \in Nat
        BY <1>18
  <2>2. \E at : /\ Climb(v, proof) = at[v.last] /\ at[0] = v
                /\ \A k \in Nat : k < v.last => at[k + 1] = ClimbStep(at[k], proof)
        BY <2>1, TurnsSolved
  <2> QED BY <1>18, <2>2
<1>20. ASSUME NEW k \in Nat, t <= k, k < m PROVE ClimbStep(Right(k), proof) = Right(k + 1)
  <2>1. PICK b \in Nat : b = Shifted(i, k) /\ Shifted(i, k + 1) = Half(b)
    <3>1. Shifted(i, k) \in Nat /\ Shifted(i, k + 1) = Half(Shifted(i, k))
          BY <1>0, ShiftedSteps
    <3> QED BY <3>1
  <2>2. PICK e \in Nat : e = Shifted(x, k) /\ Shifted(x, k + 1) = Half(e) /\ b <= e
    <3>1. Shifted(x, k) \in Nat /\ Shifted(x, k + 1) = Half(Shifted(x, k))
          BY <1>0, ShiftedSteps
    <3>2. Shifted(i, k) <= Shifted(x, k)
          BY <1>0, ShiftedOrder
    <3> QED BY <2>1, <3>1, <3>2
  <2>3. PICK h1, h2 : h1 = Node(lo, k, b) /\ h2 = Node(ln, k, b)
        OBVIOUS
  <2>4. PICK w : w = W[k] /\ w \in Seq(Hashes(ln)) /\ Len(w) \in Nat
        BY <1>3
  <2>5. Right(k) = Turn(b, e, Len(w) + 1, h1, h2)
        BY <2>1, <2>2, <2>3, <2>4
  <2>6. W[k + 1] = IF HasSibling(x, i, k) THEN Append(w, Sibling(ln, k, b)) ELSE w
        BY <1>2, <1>20, <2>1, <2>4 DEF Grown
  <2>7. Right(k + 1) = Turn(Half(b), Half(e), Len(W[k + 1]) + 1, Node(lo, k + 1, Half(b)), Node(ln, k + 1, Half(b)))
        BY <2>1, <2>2
  <2>8. ~ Odd(b) => Node(lo, k + 1, Half(b)) = h1
        BY <1>0, <2>1, <2>3, NodeAlone
  <2> HIDE DEF Right
  <2>9. CASE ~ HasSibling(x, i, k)
    <3>1. b = e /\ ~ Odd(b)
          BY <2>1, <2>2, <2>9 DEF HasSibling
    <3>2. Node(ln, k + 1, Half(b)) = h2
          BY <1>0, <2>2, <2>3, <3>1, NodeAlone
    <3>3. ClimbStep(Right(k), proof) = Turn(Half(b), Half(e), Len(w) + 1, h1, h2)
          BY <2>5, <3>1, TurnAlone
    <3> QED BY <2>6, <2>7, <2>8, <2>9, <3>1, <3>2, <3>3
  <2>10. CASE HasSibling(x, i, k)
    <3>1. Odd(b) \/ b # e
          BY <2>1, <2>2, <2>10 DEF HasSibling
    <3>2. PICK p : p = Sibling(ln, k, b)
          OBVIOUS
    <3>3. PICK it \in Nat : it = Len(w) + 1
          BY <2>4
    <3>4. Len(W[k + 1]) = it /\ W[k + 1][it] = p
      <4>1. W[k + 1] = Append(w, p)
            BY <2>6, <2>10, <3>2
      <4>2. Len(Append(w, p)) = Len(w) + 1 /\ Append(w, p)[Len(w) + 1] = p
            BY <2>4
      <4> QED BY <3>3, <4>1, <4>2
    <3>5. it <= Len(proof) /\ proof[it] = p
      <4>1. k + 1 \in Nat /\ t <= k + 1 /\ k + 1 <= m
            BY <1>20
      <4>2. Extends(W[k + 1], proof)
            BY <1>10, <4>1
      <4>3. it \in 1..it
            BY <2>4, <3>3
      <4> QED BY <3>4, <4>2, <4>3 DEF Extends
    <3>6. Len(proof) \in Nat /\ ~ (it > Len(proof))
      <4>1. Len(proof) \in Nat
            BY <1>3, <1>9
      <4> QED BY <3>5, <4>1
    <3>7. Node(ln, k + 1, Half(b)) = Both(b, h2, p)
      <4>1. /\ Half(b) \in Nat /\ Half(b) <= Shifted(x, k + 1)
            /\ Node(ln, k + 1, Half(b)) = Both(b, Node(ln, k, b), Sibling(ln, k, b))
            /\ Both(b, h2, p) = Node(ln, k + 1, Half(b)) <=> h2 = Node(ln, k, b) /\ p = Sibling(ln, k, b)
            BY <1>0, <2>2, <3>1, BothTell
      <4> QED BY <2>3, <3>2, <4>1
    <3>8. CASE Odd(b)
      <4>1. ClimbStep(Right(k), proof) = Turn(Half(b), Half(e), it + 1, Pair(p, h1), Pair(p, h2))
        <5>1. ClimbStep(Turn(b, e, it, h1, h2), proof)
                 = Turn(Half(b), Half(e), it + 1, Pair(proof[it], h1), Pair(proof[it], h2))
              BY <2>2, <3>1, <3>6, <3>8, TurnPaired
        <5> QED BY <2>5, <3>3, <3>5, <5>1
      <4>2. Node(ln, k + 1, Half(b)) = Pair(p, h2)
            BY <3>7, <3>8 DEF Both
      <4>3. p = Sibling(lo, k, b)
        <5>1. Odd(Shifted(i, k))
              BY <2>1, <3>8
        <5>2. Sibling(lo, k, Shifted(i, k)) = Sibling(ln, k, Shifted(i, k))
              BY <5>1, LeftTells
        <5> QED BY <2>1, <3>2, <5>2
      <4>4. Node(lo, k + 1, Half(b)) = Pair(p, h1)
        <5>1. b <= Shifted(i, k)
              BY <2>1
        <5>2. /\ Half(b) \in Nat /\ Half(b) <= Shifted(i, k + 1)
              /\ Node(lo, k + 1, Half(b)) = Both(b, Node(lo, k, b), Sibling(lo, k, b))
              /\ Both(b, h1, p) = Node(lo, k + 1, Half(b)) <=> h1 = Node(lo, k, b) /\ p = Sibling(lo, k, b)
              BY <1>0, <3>8, <5>1, BothTell
        <5> QED BY <2>3, <3>8, <4>3, <5>2 DEF Both
      <4> QED BY <2>7, <3>4, <4>1, <4>2, <4>4
    <3>9. CASE ~ Odd(b)
      <4>1. ClimbStep(Right(k), proof) = Turn(Half(b), Half(e), it + 1, h1, Pair(h2, p))
        <5>1. ClimbStep(Turn(b, e, it, h1, h2), proof)
                 = Turn(Half(b), Half(e), it + 1, h1, Pair(h2, proof[it]))
              BY <2>2, <3>1, <3>6, <3>9, TurnPaired
        <5> QED BY <2>5, <3>3, <3>5, <5>1
      <4>2. Node(ln, k + 1, Half(b)) = Pair(h2, p)
            BY <3>7, <3>9 DEF Both
      <4> QED BY <2>7, <2>8, <3>4, <3>9, <4>1, <4>2
    <3> QED BY <3>8, <3>9
  <2> QED BY <2>9, <2>10
<1> HIDE DEF Right
<1> DEFINE T == {k \in Nat : k <= s => at[k] = Right(t + k)}
<1>21. 0 \in T
  <2>1. t + 0 = t
        OBVIOUS
  <2> QED BY <1>17, <1>19, <2>1
<1>22. ASSUME NEW k \in Nat, k \in T PROVE k + 1 \in T
  <2> SUFFICES ASSUME k + 1 <= s PROVE at[k + 1] = Right(t + (k + 1))
      OBVIOUS
  <2>1. PICK n \in Nat : n = t + k /\ n + 1 = t + (k + 1) /\ t <= n /\ n < m
        BY <1>6
  <2>2. at[k] = Right(n)
        BY <1>22, <2>1
  <2>3. at[k + 1] = ClimbStep(at[k], proof)
        BY <1>19
  <2> QED BY <1>20, <2>1, <2>2, <2>3
<1>23. s \in T
  <2> HIDE DEF T
  <2> QED BY <1>21, <1>22, StepByStep
<1>24. at[s] = Right(m)
       BY <1>6, <1>23
<1>25. Right(m) = Turn(0, 0, Len(proof) + 1, r1, r2)
  <2>1. r1 = Node(lo, m, 0)
        BY <1>0, <1>7, <1>11, NodeRoot
  <2>2. r2 = Node(ln, m, 0)
        BY <1>0, <1>7, <1>11, NodeRoot
  <2> QED BY <1>7, <1>9, <2>1, <2>2 DEF Right
<1>26. Arrives(Climb(v, proof), r1, r2, proof)
       BY <1>19, <1>24, <1>25 DEF Arrives, Turn
<1>27. VerifyConsistency(i + 1, r1, x + 1, r2, proof)
       BY <1>0, <1>1, <1>4, <1>5, <1>15, <1>16, <1>26, GrowthUnfolds
<1> QED BY <1>8, <1>11, <1>27

-----------------------------------------------------------------------------
(* The log in use.                                                          *)

LEMMA PresentedFact ==
    ASSUME NEW S, NEW idx, NEW sz \in Nat, NEW path \in Seq(S),
           NEW qr \in Presented([index |-> idx, size |-> sz, path |-> path])
    PROVE  qr.index \in Nat /\ qr.size \in Nat /\ Len(qr.path) \in Nat
<1>1. PICK code : code = [index |-> idx, size |-> sz, path |-> path]
      OBVIOUS
<1>2. PICK i \in 0..MaxLog, n \in {code.size, code.size + 1},
           p \in {code.path} \cup (IF code.path = <<>> THEN {} ELSE {Tail(code.path)}) :
              qr = [index |-> i, size |-> n, path |-> p]
      BY <1>1 DEF Presented
<1>3. qr.index = i /\ qr.size = n /\ qr.path = p
      BY <1>1, <1>2
<1>4. i \in Nat
      BY LogAssumption
<1>5. n \in Nat
      BY <1>1, <1>2
<1>6. p \in Seq(S)
  <2>1. CASE path = <<>>
        BY <1>1, <1>2, <2>1
  <2>2. CASE path # <<>>
        BY <1>1, <1>2, <2>2
  <2> QED BY <2>1, <2>2
<1>7. Len(p) \in Nat
      BY <1>6
<1> QED BY <1>3, <1>4, <1>5, <1>7

LEMMA CodesOfLogs ==
    ASSUME NEW made \in Seq(Records), NEW l \in Seq(Records)
    PROVE  CodesAreExact(made, l)
<1> SUFFICES ASSUME NEW i \in DOMAIN made
             PROVE  /\ made = l => VerifyQr(Prove(made, i - 1), made[i], Root(l))
                    /\ \A qr \in Presented(Prove(made, i - 1)), e \in Records :
                          VerifyQr(qr, e, Root(l)) =>
                             /\ \E k \in DOMAIN l : l[k] = e
                             /\ qr.size = Len(l) => l[qr.index + 1] = e
    BY DEF CodesAreExact
<1>1. PICK d \in Nat : d = i - 1 /\ i = d + 1 /\ d < Len(made)
  <2>1. i - 1 \in Nat /\ i = (i - 1) + 1 /\ i - 1 < Len(made)
        OBVIOUS
  <2> QED BY <2>1
<1>2. PICK H : H = Hashes(Leaves(made))
      OBVIOUS
<1>3. /\ Prove(made, d).index = d /\ Prove(made, d).size = Len(made) /\ Prove(made, d).path \in Seq(H)
      /\ VerifyQr(Prove(made, d), made[d + 1], Root(made))
      BY <1>1, <1>2, CodesAreGood
<1>4. PICK code, path : /\ code = Prove(made, i - 1) /\ path = code.path
                        /\ code = [index |-> i - 1, size |-> Len(made), path |-> path]
  <2>1. PICK code : code = Prove(made, i - 1)
        OBVIOUS
  <2>2. code = [index |-> i - 1, size |-> Len(made), path |-> code.path]
        BY <2>1 DEF Prove
  <2> QED BY <2>1, <2>2
<1>5. path \in Seq(H)
      BY <1>1, <1>3, <1>4
<1>6. made = l => VerifyQr(code, made[i], Root(l))
      BY <1>1, <1>3, <1>4
<1>7. ASSUME NEW qr \in Presented(code), NEW e \in Records, VerifyQr(qr, e, Root(l))
      PROVE  (\E k \in DOMAIN l : l[k] = e) /\ (qr.size = Len(l) => l[qr.index + 1] = e)
  <2>1. Len(made) \in Nat
        OBVIOUS
  <2>2. qr.index \in Nat /\ qr.size \in Nat /\ Len(qr.path) \in Nat
        BY <1>4, <1>5, <1>7, <2>1, PresentedFact
  <2> QED BY <1>7, <2>2, CodesAreSound
<1> QED BY <1>4, <1>6, <1>7

(* A prefix, entry by entry.                                                *)
LEMMA PrefixFact ==
    ASSUME NEW S, NEW a \in Seq(S), NEW b \in Seq(S)
    PROVE  IsPrefixOf(a, b) <=> Len(a) <= Len(b) /\ \A y \in 1..Len(a) : a[y] = b[y]
<1>1. PICK n \in Nat : n = Len(a) /\ DOMAIN a = 1..n
      OBVIOUS
<1>2. PICK c : c = SubSeq(b, 1, n)
      OBVIOUS
<1>3. ASSUME n <= Len(b) PROVE c \in Seq(S) /\ Len(c) = n /\ \A y \in 1..n : c[y] = b[y]
      BY <1>1, <1>2, <1>3
<1>4. ASSUME n <= Len(b), \A y \in 1..n : a[y] = b[y] PROVE a = c
      BY <1>1, <1>3, <1>4
<1> QED BY <1>1, <1>2, <1>3, <1>4 DEF IsPrefixOf

LEMMA LeavesTell ==
    ASSUME NEW S, NEW a \in Seq(S), NEW b \in Seq(S), NEW y, y \in DOMAIN a, y \in DOMAIN b
    PROVE  Leaves(a)[y] = Leaves(b)[y] <=> a[y] = b[y]
<1>1. Leaves(a)[y] = LeafHash(a[y]) /\ Leaves(b)[y] = LeafHash(b[y])
      BY DEF Leaves
<1>2. LeafHash(a[y]) = LeafHash(b[y]) <=> a[y] = b[y]
      BY DEF LeafHash
<1> QED BY <1>1, <1>2

(* The cases of verify_consistency that need no climb.                      *)
LEMMA GrowthApart ==
    ASSUME NEW old \in Nat, NEW new \in Nat, NEW r1, NEW r2, NEW proof
    PROVE  /\ old > new => ~ VerifyConsistency(old, r1, new, r2, proof)
           /\ old = new => (VerifyConsistency(old, r1, new, r2, proof) <=> proof = <<>> /\ r1 = r2)
           /\ old = 0 /\ new > 0 => VerifyConsistency(old, r1, new, r2, proof)
<1>1. ASSUME old > new PROVE ~ VerifyConsistency(old, r1, new, r2, proof)
      BY <1>1 DEF VerifyConsistency
<1>2. ASSUME old = new PROVE VerifyConsistency(old, r1, new, r2, proof) <=> proof = <<>> /\ r1 = r2
      BY <1>2 DEF VerifyConsistency
<1>3. ASSUME old = 0, new > 0 PROVE VerifyConsistency(old, r1, new, r2, proof)
      BY <1>3 DEF VerifyConsistency
<1> QED BY <1>1, <1>2, <1>3

(* Whatever proves the growth of a log to another, it is a prefix of it;    *)
(* and a prefix is proved to be one.                                        *)
Same(a, b, n) == \A y \in 1..n : a[y] = b[y]

LEMMA GrowthTells ==
    ASSUME NEW S, NEW a \in Seq(S), NEW b \in Seq(S), NEW proof,
           VerifyConsistency(Len(a), Root(a), Len(b), Root(b), proof)
    PROVE  IsPrefixOf(a, b)
<1>1. PICK la, lb : la = Leaves(a) /\ lb = Leaves(b)
      OBVIOUS
<1>2. PICK n, m : n = Len(a) /\ m = Len(b) /\ n \in Nat /\ m \in Nat /\ Len(la) = n /\ Len(lb) = m
      BY <1>1, LeavesFact
<1>3. \A y \in 1..n : y <= m => (la[y] = lb[y] <=> a[y] = b[y])
  <2> SUFFICES ASSUME NEW y \in 1..n, y <= m PROVE la[y] = lb[y] <=> a[y] = b[y]
      OBVIOUS
  <2>1. y \in DOMAIN a /\ y \in DOMAIN b
        BY <1>2
  <2> QED BY <1>1, <2>1, LeavesTell
<1>4. PICK r1, r2 : r1 = Root(a) /\ r2 = Root(b) /\ r1 = MTH(la, 0, n) /\ r2 = MTH(lb, 0, m)
      BY <1>1, <1>2 DEF Root
<1>5. VerifyConsistency(n, r1, m, r2, proof)
      BY <1>2, <1>4
<1>6. n <= m
      BY <1>2, <1>5, GrowthApart
<1>7. Same(la, lb, n)
  <2>1. CASE n = 0
        BY <2>1 DEF Same
  <2>2. CASE n = m
    <3>1. MTH(la, 0, n) = MTH(lb, 0, n)
          BY <1>2, <1>4, <1>5, <2>2, GrowthApart
    <3>2. MTH(la, 0, n) = MTH(lb, 0, n) <=> \A y \in (0 + 1)..n : la[y] = lb[y]
          BY <1>2, <2>2, RangeTells
    <3> QED BY <3>1, <3>2 DEF Same
  <2>3. CASE n # 0 /\ n # m
    <3>1. PICK i, x : i \in Nat /\ x \in Nat /\ n = i + 1 /\ m = x + 1 /\ i < x
      <4>1. n - 1 \in Nat /\ m - 1 \in Nat /\ n = (n - 1) + 1 /\ m = (m - 1) + 1 /\ n - 1 < m - 1
            BY <1>2, <1>6, <2>3
      <4> QED BY <4>1
    <3>2. Logs(la, lb, i, x)
          BY <1>2, <3>1 DEF Logs
    <3>3. VerifyConsistency(i + 1, MTH(la, 0, i + 1), x + 1, MTH(lb, 0, x + 1), proof)
          BY <1>4, <1>5, <3>1
    <3>4. \A y \in 1..(i + 1) : la[y] = lb[y]
          BY <3>2, <3>3, GrowthSound
    <3> QED BY <3>1, <3>4 DEF Same
  <2> QED BY <2>1, <2>2, <2>3
<1>8. \A y \in 1..n : a[y] = b[y]
      BY <1>2, <1>3, <1>6, <1>7 DEF Same
<1> QED BY <1>2, <1>6, <1>8, PrefixFact

LEMMA GrowthIsProved ==
    ASSUME NEW S, NEW a \in Seq(S), NEW b \in Seq(S), IsPrefixOf(a, b)
    PROVE  VerifyConsistency(Len(a), Root(a), Len(b), Root(b), ProveConsistency(b, Len(a)))
<1>1. PICK la, lb : la = Leaves(a) /\ lb = Leaves(b)
      OBVIOUS
<1>2. PICK n, m : n = Len(a) /\ m = Len(b) /\ n \in Nat /\ m \in Nat /\ Len(la) = n /\ Len(lb) = m
      BY <1>1, LeavesFact
<1>3. n <= m /\ \A y \in 1..n : a[y] = b[y]
      BY <1>2, PrefixFact
<1>4. \A y \in 1..n : la[y] = lb[y]
  <2> SUFFICES ASSUME NEW y \in 1..n PROVE la[y] = lb[y]
      OBVIOUS
  <2>1. y \in DOMAIN a /\ y \in DOMAIN b /\ a[y] = b[y]
        BY <1>2, <1>3
  <2> QED BY <1>1, <2>1, LeavesTell
<1>5. PICK r1, r2 : r1 = Root(a) /\ r2 = Root(b) /\ r1 = MTH(la, 0, n) /\ r2 = MTH(lb, 0, m)
      BY <1>1, <1>2 DEF Root
<1>6. PICK proof : proof = ProveConsistency(b, n)
      OBVIOUS
<1>7. VerifyConsistency(n, r1, m, r2, proof)
  <2>1. CASE n = m
    <3>1. proof = <<>>
          BY <1>2, <1>6, <2>1 DEF ProveConsistency
    <3>2. MTH(la, 0, n) = MTH(lb, 0, n) <=> \A y \in (0 + 1)..n : la[y] = lb[y]
          BY <1>2, <2>1, RangeTells
    <3>3. MTH(la, 0, n) = MTH(lb, 0, n)
          BY <1>4, <3>2
    <3> QED BY <1>2, <1>5, <2>1, <3>1, <3>3, GrowthApart
  <2>2. CASE n = 0 /\ n # m
        BY <1>2, <2>2, GrowthApart
  <2>3. CASE n # 0 /\ n # m
    <3>1. PICK i, x : i \in Nat /\ x \in Nat /\ n = i + 1 /\ m = x + 1 /\ i < x
      <4>1. n - 1 \in Nat /\ m - 1 \in Nat /\ n = (n - 1) + 1 /\ m = (m - 1) + 1 /\ n - 1 < m - 1
            BY <1>2, <1>3, <2>3
      <4> QED BY <4>1
    <3>2. Logs(la, lb, i, x)
          BY <1>2, <3>1 DEF Logs
    <3>3. \A y \in 1..(i + 1) : la[y] = lb[y]
          BY <1>4, <3>1
    <3>4. proof = Subproof(lb, n, 0, m)
          BY <1>1, <1>2, <1>3, <1>6, <2>3 DEF ProveConsistency
    <3>5. VerifyConsistency(i + 1, MTH(la, 0, i + 1), x + 1, MTH(lb, 0, x + 1), Subproof(lb, i + 1, 0, x + 1))
          BY <3>2, <3>3, GrowthComplete
    <3> QED BY <1>5, <3>1, <3>4, <3>5
  <2> QED BY <2>1, <2>2, <2>3
<1> QED BY <1>2, <1>5, <1>6, <1>7

(* Everything that was ever the log is a sequence of records.               *)
LogInv ==
    /\ log \in Seq(Records)
    /\ published \subseteq Seq(Records)
    /\ disk \in [magic : BOOLEAN, count : Nat, entries : Seq(Records), trailing : BOOLEAN]

LEMMA LogInvTells ==
    ASSUME LogInv PROVE LogIsTamperEvident
<1>1. <<>> \in Seq(Records)
      OBVIOUS
<1>2. ASSUME NEW made \in published \cup {log}, NEW l \in published \cup {log} PROVE CodesAreExact(made, l)
  <2>1. made \in Seq(Records) /\ l \in Seq(Records)
        BY <1>2 DEF LogInv
  <2> QED BY <2>1, CodesOfLogs
<1>3. ASSUME NEW old \in published \cup {<<>>} PROVE ProvesGrowth(old)
  <2>1. old \in Seq(Records) /\ log \in Seq(Records)
        BY <1>1, <1>3 DEF LogInv
  <2>2. VerifyConsistency(Len(old), Root(old), Len(log), Root(log), ProveConsistency(log, Len(old)))
           <=> IsPrefixOf(old, log)
    <3>1. ASSUME IsPrefixOf(old, log)
          PROVE  VerifyConsistency(Len(old), Root(old), Len(log), Root(log), ProveConsistency(log, Len(old)))
          BY <2>1, <3>1, GrowthIsProved
    <3>2. ASSUME VerifyConsistency(Len(old), Root(old), Len(log), Root(log), ProveConsistency(log, Len(old)))
          PROVE  IsPrefixOf(old, log)
          BY <2>1, <3>2, GrowthTells
    <3> QED BY <3>1, <3>2
  <2>3. ASSUME NEW other \in published,
               VerifyConsistency(Len(old), Root(old), Len(log), Root(log), ProveConsistency(other, Len(old)))
        PROVE  IsPrefixOf(old, log)
        BY <2>1, <2>3, GrowthTells
  <2> QED BY <2>2, <2>3 DEF ProvesGrowth
<1> QED BY <1>2, <1>3 DEF LogIsTamperEvident

LEMMA LogInvInit ==
    LogInit => LogInv
<1>1. <<>> \in Seq(Records)
      OBVIOUS
<1> QED BY <1>1 DEF LogInit, LogInv, NoLogFile

(* Damage takes away from the entries of a file, and adds none.             *)
LEMMA DamagedEntries ==
    ASSUME NEW f \in [magic : BOOLEAN, count : Nat, entries : Seq(Records), trailing : BOOLEAN],
           NEW g \in Damaged(f)
    PROVE  g.entries \in Seq(Records)
<1>1. CASE g = f
      BY <1>1
<1>2. CASE g = [f EXCEPT !.magic = FALSE]
      BY <1>2
<1>3. CASE g = [f EXCEPT !.trailing = TRUE]
      BY <1>3
<1>4. CASE \E n \in 0..(Len(f.entries) - 1) : g = [f EXCEPT !.entries = SubSeq(@, 1, n)]
  <2>1. PICK l : l = f.entries /\ l \in Seq(Records) /\ Len(l) \in Nat
        OBVIOUS
  <2>2. PICK n : n \in 0..(Len(l) - 1) /\ g = [f EXCEPT !.entries = SubSeq(l, 1, n)]
        BY <1>4, <2>1
  <2>3. n \in Nat /\ n <= Len(l)
        BY <2>1, <2>2
  <2>4. SubSeq(l, 1, n) \in Seq(Records)
        BY <2>1, <2>3
  <2>5. g.entries = SubSeq(l, 1, n)
        BY <2>2
  <2> QED BY <2>4, <2>5
<1> QED BY <1>1, <1>2, <1>3, <1>4 DEF Damaged

LEMMA LogInvNext ==
    LogInv /\ [LogNext]_logVars => LogInv'
<1> SUFFICES ASSUME LogInv, [LogNext]_logVars PROVE LogInv'
    OBVIOUS
<1> USE DEF LogInv
<1>1. CASE AppendRecord
  <2>1. log' \in Seq(Records)
        BY <1>1 DEF AppendRecord
  <2> QED BY <1>1, <2>1 DEF AppendRecord
<1>2. CASE Publish
      BY <1>2 DEF Publish
<1>3. CASE Save
  <2>1. Len(log) \in Nat
        OBVIOUS
  <2>2. disk' \in [magic : BOOLEAN, count : Nat, entries : Seq(Records), trailing : BOOLEAN]
        BY <1>3, <2>1 DEF Save, SavedLog
  <2> QED BY <1>3, <2>2 DEF Save
<1>4. CASE Load
  <2>1. PICK f \in Damaged(disk) : log' = LoadedLog(log, f)
        BY <1>4 DEF Load
  <2>2. f.entries \in Seq(Records)
        BY <2>1, DamagedEntries
  <2>3. log' \in Seq(Records)
        BY <2>1, <2>2 DEF LoadedLog
  <2> QED BY <1>4, <2>3 DEF Load
<1>5. CASE UNCHANGED logVars
      BY <1>5 DEF logVars
<1> QED BY <1>1, <1>2, <1>3, <1>4, <1>5 DEF LogNext

(* verify_qr and verify_consistency, for logs of every length and whatever  *)
(* is presented to them: a code verifies only for a record of the log its   *)
(* root is of, a log proves its growth from a published root exactly when   *)
(* it has grown from it, though it was saved, damaged and reloaded.         *)
THEOREM LogStaysTamperEvident == LogSpec => []LogIsTamperEvident
<1>1. LogInv => LogIsTamperEvident
      BY LogInvTells
<1> QED BY LogInvInit, LogInvNext, <1>1, PTL DEF LogSpec

=============================================================================
