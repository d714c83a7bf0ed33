------------------------------ MODULE Evidence ------------------------------
(***************************************************************************)
(* The identity log in use (evidence/merkle_log, evidence/digital_id): an  *)
(* authority appends records, publishes roots, prints QR codes, saves the  *)
(* log and reloads it, sometimes from an older file or a damaged one.  A   *)
(* responder without signal checks a code against a root it has cached; an *)
(* auditor checks a root against an older one.                             *)
(***************************************************************************)
EXTENDS Integers, Sequences, FiniteSets

(***************************************************************************)
(* evidence::MerkleLog as values: the RFC 6962 tree, its proofs and their  *)
(* verification.  A hash is a term - <<>> of nothing, <<e>> of an entry,   *)
(* <<l, r>> of two hashes - so that two are equal only if they were made   *)
(* the same way: what SHA-256 with separate leaf and node prefixes is      *)
(* trusted for.  Entries and leaves count from 0.                          *)
(***************************************************************************)
LeafHash(e) == <<e>>
Pair(l, r) == <<l, r>>
Leaves(entries) == [i \in DOMAIN entries |-> LeafHash(entries[i])]

(* A loop with the body f, n rounds of it. *)
Rounds(f, n, x) ==
    LET at[k \in 0..n] == IF k = 0 THEN x ELSE f[at[k - 1]]
    IN  at[n]

(* The largest power of two below n; k is doubled fewer than n times. *)
SplitAt(n) == Rounds([k \in Nat |-> IF 2 * k < n THEN 2 * k ELSE k], n, 1)

(* mth over leaves [lo, hi). *)
MTH(lv, lo, hi) ==
    LET mth[r \in (0..Len(lv)) \X (0..Len(lv))] ==
            LET k == SplitAt(r[2] - r[1])
            IN  IF r[2] <= r[1] THEN <<>>
                ELSE IF r[2] = r[1] + 1 THEN lv[r[2]]
                ELSE Pair(mth[<<r[1], r[1] + k>>], mth[<<r[1] + k, r[2]>>])
    IN  mth[<<lo, hi>>]

Root(entries) == MTH(Leaves(entries), 0, Len(entries))

(* path: the siblings of leaf m of [lo, hi), from the leaf up. *)
InclusionPath(lv, m, lo, hi) ==
    LET path[t \in (0..Len(lv)) \X (0..Len(lv)) \X (0..Len(lv))] ==
            LET k == SplitAt(t[3] - t[2])
            IN  IF t[3] <= t[2] + 1 THEN <<>>
                ELSE IF t[1] < k THEN Append(path[<<t[1], t[2], t[2] + k>>], MTH(lv, t[2] + k, t[3]))
                ELSE Append(path[<<t[1] - k, t[2] + k, t[3]>>], MTH(lv, t[2], t[2] + k))
    IN  path[<<m, lo, hi>>]

(* subproof for the first m leaves of [lo, hi).  The verifier knows the root  *)
(* of the old log itself (the flag b): on the left edge, from leaf 0.         *)
Subproof(lv, m, lo, hi) ==
    LET sub[t \in (1..Len(lv)) \X (0..Len(lv)) \X (0..Len(lv))] ==
            LET k == SplitAt(t[3] - t[2])
            IN  IF t[3] <= t[2] + t[1] THEN IF t[2] = 0 THEN <<>> ELSE <<MTH(lv, t[2], t[3])>>
                ELSE IF t[1] <= k THEN Append(sub[<<t[1], t[2], t[2] + k>>], MTH(lv, t[2] + k, t[3]))
                ELSE Append(sub[<<t[1] - k, t[2] + k, t[3]>>], MTH(lv, t[2], t[2] + k))
    IN  sub[<<m, lo, hi>>]

Prove(entries, index) ==
    [index |-> index, size |-> Len(entries),
     path  |-> IF index < Len(entries) THEN InclusionPath(Leaves(entries), index, 0, Len(entries))
               ELSE <<>>]

ProveConsistency(entries, old) ==
    IF old = 0 \/ old >= Len(entries) THEN <<>>
    ELSE Subproof(Leaves(entries), old, 0, Len(entries))

----------------------------------------------------------------------------
(* Verification, from the proof alone. *)

Odd(n) == n % 2 = 1
Half(n) == n \div 2

(* Up past the levels at which the node is a left child without a sibling.    *)
Lifted(fn, sn) ==
    Rounds([q \in Nat \X Nat |-> IF Odd(q[1]) THEN q ELSE <<Half(q[1]), Half(q[2])>>], fn, <<fn, sn>>)

(* Mutant of VerifyStep: the last node of a level is taken for a left child.  *)
VerifyStepByBit(v, p) ==
    IF ~ v.ok \/ v.sn = 0 THEN [v EXCEPT !.ok = FALSE]
    ELSE [v EXCEPT !.h = IF Odd(v.fn) THEN Pair(p, v.h) ELSE Pair(v.h, p),
                   !.fn = Half(v.fn), !.sn = Half(v.sn)]
VerifyStep(v, p) ==
    LET up == Lifted(v.fn, v.sn)
    IN  IF ~ v.ok \/ v.sn = 0 THEN [v EXCEPT !.ok = FALSE]
        ELSE IF Odd(v.fn) \/ v.fn = v.sn
             THEN [v EXCEPT !.h = Pair(p, v.h), !.fn = Half(up[1]), !.sn = Half(up[2])]
             ELSE [v EXCEPT !.h = Pair(v.h, p), !.fn = Half(v.fn), !.sn = Half(v.sn)]

VerifySteps(v, path) ==
    LET at[k \in 0..Len(path)] == IF k = 0 THEN v ELSE VerifyStep(at[k - 1], path[k])
    IN  at[Len(path)]

(* InclusionProof::verify. *)
Verify(proof, leaf, root) ==
    LET end == VerifySteps([ok |-> TRUE, h |-> leaf, fn |-> proof.index, sn |-> proof.size - 1],
                           proof.path)
    IN  proof.index < proof.size /\ end.ok /\ end.sn = 0 /\ end.h = root

(* verify_consistency climbs with two hashes, the old root's and the new      *)
(* root's; each turn may take one hash from the proof.                        *)
Rebase(node, last) ==
    Rounds([q \in Nat \X Nat |-> IF Odd(q[1]) THEN <<Half(q[1]), Half(q[2])>> ELSE q], node, <<node, last>>)

Took(v, h1, h2) == [v EXCEPT !.it = @ + 1, !.h1 = h1, !.h2 = h2,
                             !.node = Half(@), !.last = Half(@)]
Climbed(v) == [v EXCEPT !.node = Half(@), !.last = Half(@)]

ClimbStep(v, proof) ==
    IF v.node = 0 /\ v.last = 0 THEN v
    ELSE IF v.node # 0 /\ ~ Odd(v.node) /\ v.node >= v.last THEN Climbed(v)
    ELSE IF v.it > Len(proof) THEN [v EXCEPT !.ok = FALSE, !.node = 0, !.last = 0]
    ELSE LET p == proof[v.it]
         IN  IF Odd(v.node) THEN Took(v, Pair(p, v.h1), Pair(p, v.h2))
             ELSE Took(v, v.h1, Pair(v.h2, p))

(* last is 0 after fewer than last halvings. *)
Climb(v, proof) ==
    LET at[k \in 0..v.last] == IF k = 0 THEN v ELSE ClimbStep(at[k - 1], proof)
    IN  at[v.last]

VerifyConsistency(old, oldRoot, new, newRoot, proof) ==
    LET at == Rebase(old - 1, new - 1)
        start(it, h) == [ok |-> TRUE, node |-> at[1], last |-> at[2], it |-> it, h1 |-> h, h2 |-> h]
        end == Climb(IF at[1] = 0 THEN start(1, oldRoot) ELSE start(2, proof[1]), proof)
    IN  IF old > new THEN FALSE
        ELSE IF old = new THEN proof = <<>> /\ oldRoot = newRoot
        ELSE IF old = 0 THEN TRUE
        ELSE /\ at[1] # 0 => proof # <<>>
             /\ end.ok /\ end.h1 = oldRoot /\ end.h2 = newRoot /\ end.it = Len(proof) + 1

----------------------------------------------------------------------------
(* The log in use. *)

CONSTANTS Records,     \* the identity records there may be
          MaxLog,      \* how long the log may grow
          MaxRoots,    \* how many roots are published
          MaxSaved     \* how long a log that is saved may be

ASSUME LogAssumption == MaxLog \in Nat /\ MaxSaved \in Nat

VARIABLES log,         \* entries_
          published,   \* what the log was at each published root
          disk         \* the file

logVars == <<log, published, disk>>

(* The file: a count and the entries it holds. *)
NoLogFile == [magic |-> FALSE, count |-> 0, entries |-> <<>>, trailing |-> FALSE]
SavedLog(l) == [magic |-> TRUE, count |-> Len(l), entries |-> l, trailing |-> FALSE]

(* load: into a log of its own, adopted when all of it parsed. *)
WholeLog(f) == f.magic /\ Len(f.entries) = f.count /\ ~ f.trailing
LoadedLog(l, f) == IF WholeLog(f) THEN f.entries ELSE l

LogInit == log = <<>> /\ published = {} /\ disk = NoLogFile

AppendRecord == /\ Len(log) < MaxLog
                /\ \E e \in Records : log' = Append(log, e)
                /\ UNCHANGED <<published, disk>>

Publish == /\ log # <<>> /\ Cardinality(published) < MaxRoots
           /\ published' = published \cup {log}
           /\ UNCHANGED <<log, disk>>

Save == /\ Len(log) <= MaxSaved
        /\ disk' = SavedLog(log)
        /\ UNCHANGED <<log, published>>

(* Cut short, with a foreign header, or with bytes after the end. *)
Damaged(f) == {f, [f EXCEPT !.magic = FALSE], [f EXCEPT !.trailing = TRUE]}
              \cup {[f EXCEPT !.entries = SubSeq(@, 1, n)] : n \in 0..(Len(f.entries) - 1)}
Load == /\ \E f \in Damaged(disk) : log' = LoadedLog(log, f)
        /\ UNCHANGED <<published, disk>>

LogNext == AppendRecord \/ Publish \/ Save \/ Load

LogSpec == LogInit /\ [][LogNext]_logVars

----------------------------------------------------------------------------

(* verify_qr. *)
VerifyQr(qr, record, root) == qr.index < qr.size /\ Verify(qr, LeafHash(record), root)

IsPrefixOf(a, b) == Len(a) <= Len(b) /\ a = SubSeq(b, 1, Len(a))

(* A code made by encode_qr verifies offline, for the record it was made for, *)
(* against the root of the log it was made from, at every size, a power of     *)
(* two or not; and whatever record, place, size or path is presented, what     *)
(* verifies against a root is a record of that log - at the true size, in      *)
(* that very place.                                                            *)
Presented(qr) == {[index |-> i, size |-> n, path |-> p] :
                     i \in 0..MaxLog, n \in {qr.size, qr.size + 1},
                     p \in {qr.path} \cup (IF qr.path = <<>> THEN {} ELSE {Tail(qr.path)})}
CodesAreExact(made, l) ==
    LET root == Root(l)
    IN  \A i \in DOMAIN made :
            LET code == Prove(made, i - 1)
            IN  /\ made = l => VerifyQr(code, made[i], root)
                /\ \A qr \in Presented(code), e \in Records :
                      VerifyQr(qr, e, root) =>
                         /\ \E k \in DOMAIN l : l[k] = e
                         /\ qr.size = Len(l) => l[qr.index + 1] = e

(* The log proves its growth from every published root exactly when it has    *)
(* grown from it: a log that was rewritten - here by reloading an older file  *)
(* and going on - proves nothing, with its own proof or that of an honest log. *)
ProvesGrowth(old) ==
    /\ VerifyConsistency(Len(old), Root(old), Len(log), Root(log),
                         ProveConsistency(log, Len(old)))
          <=> IsPrefixOf(old, log)
    /\ \A other \in published :
          VerifyConsistency(Len(old), Root(old), Len(log), Root(log),
                            ProveConsistency(other, Len(old))) => IsPrefixOf(old, log)

LogIsTamperEvident ==
    /\ \A made, l \in published \cup {log} : l # <<>> => CodesAreExact(made, l)
    /\ \A old \in published \cup {<<>>} : ProvesGrowth(old)

=============================================================================
