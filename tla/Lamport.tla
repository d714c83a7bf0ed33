------------------------------- MODULE Lamport -------------------------------
(***************************************************************************)
(* sync::OfflineQueue and sync::Reconciler as values.  A device stamps     *)
(* every item it queues with its own counter; the server admits an item    *)
(* once per stamp <<counter, device>>, whatever batch it comes in.         *)
(***************************************************************************)
EXTENDS Naturals, Sequences, SequencesExt

(* OfflineQueue: a logical clock and the unsynced items. *)
EmptyQueue(dev) == [counter |-> 0, device |-> dev, items |-> <<>>]

Stamped(q, payload) == [stamp |-> <<q.counter + 1, q.device>>, payload |-> payload]

(* Mutant of Enqueue: the events of a fix share the stamp of the fix. *)
EnqueueUnticked(q, payload) ==
    [counter |-> IF payload.kind = "Fix" THEN q.counter + 1 ELSE q.counter,
     device  |-> q.device,
     items   |-> Append(q.items,
                        [stamp |-> <<IF payload.kind = "Fix" THEN q.counter + 1 ELSE q.counter,
                                     q.device>>,
                         payload |-> payload])]

(* append: tick, stamp, push. *)
Enqueue(q, payload) ==
    [counter |-> q.counter + 1,
     device  |-> q.device,
     items   |-> Append(q.items, Stamped(q, payload))]

Key(item) == item.stamp

(* Reconciler::merge: what the server holds afterwards, and what is new. *)
Merge(batch, seen) ==
    LET after[n \in 0 .. Len(batch)] ==
            IF n = 0 THEN [seen |-> seen, admitted |-> <<>>]
            ELSE IF Key(batch[n]) \in after[n - 1].seen THEN after[n - 1]
            ELSE [seen     |-> after[n - 1].seen \cup {Key(batch[n])},
                  admitted |-> Append(after[n - 1].admitted, batch[n])]
    IN  after[Len(batch)]
=============================================================================
