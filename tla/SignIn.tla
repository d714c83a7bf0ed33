-------------------------------- MODULE SignIn --------------------------------
(***************************************************************************)
(* Signing in: Api::route's login, with the three locks it keeps (per      *)
(* address, per account and address, per account everywhere), on the wall  *)
(* clock.  Times are kept as ages.                                         *)
(***************************************************************************)
EXTENDS Integers, Sequences, FiniteSets, FiniteSetsExt, Functions

CONSTANTS Users, Addresses,
          Limit, LockFor,     \* by kind of lock: failures allowed, how long it holds
          Forgive,            \* failures this long ago no longer count (900 s)
          Forget, TableSize   \* entries idle this long are dropped from a table this big

VARIABLES
    throttle,   \* Api::throttle_: key -> failures, age of the last, time still locked
    watched,    \* history: the key whose counted failures `seen` keeps
    seen        \* history: their ages, newest first, since what clears them

vars == <<throttle, watched, seen>>

-----------------------------------------------------------------------------
KeysOf(u, a) == {<<"ip", a>>, <<"u|ip", u, a>>, <<"u", u>>}     \* the three rules
Keys == UNION {KeysOf(u, a) : u \in Users, a \in Addresses}
Kind(k) == k[1]

Entry(t, k) == IF k \in DOMAIN t THEN t[k] ELSE [failures |-> 0, age |-> Forget + 1, locked |-> 0]
Locked(k) == Entry(throttle, k).locked > 0

(* The table is swept of idle entries only when a failure finds it too big. *)
Swept(t) ==
    IF Cardinality(DOMAIN t) > TableSize
    THEN Restrict(t, {k \in DOMAIN t : t[k].age <= Forget})
    ELSE t

Failed(e, kind) ==
    LET counted == (IF e.age > Forgive THEN 0 ELSE e.failures) + 1
    IN  IF counted >= Limit[kind]
        THEN [failures |-> 0, age |-> 0, locked |-> LockFor[kind]]
        ELSE [failures |-> counted, age |-> 0, locked |-> e.locked]

Failure(t, u, a) ==
    [k \in KeysOf(u, a) \cup DOMAIN t |-> IF k \in KeysOf(u, a) THEN Failed(Entry(t, k), Kind(k)) ELSE t[k]]

\* A version that clears the address as well.
SuccessClearsAll(t, u, a) == Restrict(t, DOMAIN t \ KeysOf(u, a))

(* A success clears what counts against the account, not the address.       *)
Success(t, u, a) == Restrict(t, DOMAIN t \ {<<"u|ip", u, a>>, <<"u", u>>})

(* While any of the three locks holds, an attempt is refused and not        *)
(* counted: nothing changes, so the locked case is no step.                 *)
Free(u, a) == \A k \in KeysOf(u, a) : ~Locked(k)

WrongPassword(u, a) ==
    /\ Free(u, a)
    /\ throttle' = Failure(Swept(throttle), u, a)
    /\ seen' = IF watched \in KeysOf(u, a)
               THEN <<0>> \o SubSeq(seen, 1, Min({Len(seen), Limit[Kind(watched)] - 1}))
               ELSE seen
    /\ UNCHANGED watched

RightPassword(u, a) ==
    /\ Free(u, a)
    /\ throttle' = Success(throttle, u, a)
    /\ seen' = IF watched \in {<<"u|ip", u, a>>, <<"u", u>>} THEN <<>> ELSE seen
    /\ UNCHANGED watched

-----------------------------------------------------------------------------
Older(age, cap) == Min({age + 1, cap})
Elapse ==
    /\ throttle' = [k \in DOMAIN throttle |->
          [throttle[k] EXCEPT !.age = Older(@, Forget + 1), !.locked = Max({0, @ - 1})]]
    /\ seen' = [i \in DOMAIN seen |-> Older(seen[i], LockFor[Kind(watched)])]
    /\ UNCHANGED watched

Init ==
    /\ throttle = <<>> /\ seen = <<>>
    /\ watched \in Keys

Next ==
    \/ \E u \in Users, a \in Addresses : WrongPassword(u, a) \/ RightPassword(u, a)
    \/ Elapse

Spec == Init /\ [][Next]_vars

-----------------------------------------------------------------------------
(* api.cpp:627-631: guessing is bounded, whatever is forgotten, forgiven or *)
(* cleared in between.  Against one address, one account from one address,  *)
(* or one account from everywhere, a lock's worth of failures and one more  *)
(* take at least as long as the lock holds.                                 *)
GuessesAreBounded ==
    [][ (seen' # seen /\ seen' # <<>> /\ Head(seen') = 0 /\ Len(seen) = Limit[Kind(watched)]
         /\ \E u \in Users, a \in Addresses : WrongPassword(u, a) /\ watched \in KeysOf(u, a))
        => seen[Len(seen)] >= LockFor[Kind(watched)] ]_vars

=============================================================================
