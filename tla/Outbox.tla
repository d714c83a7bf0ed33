-------------------------------- MODULE Outbox --------------------------------
(***************************************************************************)
(* The outbox of a device that restarts (sync::OfflineQueue with its file) *)
(* and the server's timeline (sync::Reconciler), with links that deliver a *)
(* batch late, again or never.  A restart makes a new queue and loads the  *)
(* file; a flush may be cut short by one.                                  *)
(***************************************************************************)
EXTENDS Lamport, Integers, FiniteSets, FiniteSetsExt

CONSTANTS Devices, MaxMade, MaxSent, MaxRestarts

(* DeviceId is a number. *)
ASSUME BoxAssumption == Devices \subseteq Nat

VARIABLES
    queue,      \* device -> its OfflineQueue
    file,       \* device -> what its file holds
    sent,       \* the batches drained: any may be on its way, for ever
    timeline,   \* Reconciler::timeline_; seen_ is the set of its keys
    clock,      \* Reconciler::clock_
    made,       \* history: device -> its events, in the order they happened
    sure,       \* history: the devices whose file holds the last event they stamped
    forgot,     \* history: the devices that came back behind a stamp they had used
    restarts    \* restarts so far (bounded)

boxVars == <<queue, file, sent, timeline, clock, made, sure, forgot, restarts>>

NoFile == [magic |-> FALSE, device |-> 0, count |-> 0, items |-> <<>>]

(* flush_to_disk. *)
Image(q) == [magic |-> TRUE, device |-> q.device, count |-> Len(q.items),
             items |-> q.items]

(* What a cut leaves: less than the header, or fewer whole events than counted. *)
CutShort(f) == {NoFile} \cup {[f EXCEPT !.items = SubSeq(@, 1, n)] : n \in 0 .. Len(f.items) - 1}

Readable(f) == f.magic /\ Len(f.items) = f.count

HighCounter(items) == Max({0} \cup {items[i].stamp[1] : i \in DOMAIN items})

\* Mutant of Loaded: the counter is not taken from the events loaded.
LoadedUncounted(q, f) ==
    IF Readable(f) THEN [counter |-> q.counter, device |-> f.device, items |-> f.items] ELSE q

(* load_from_disk: parsed into a queue of its own, and adopted whole or not. *)
Loaded(q, f) ==
    IF Readable(f)
    THEN [counter |-> Max({q.counter, HighCounter(f.items)}),
          device |-> f.device, items |-> f.items]
    ELSE q

(* LamportClock::before, and observe. *)
BeforeStamp(a, b) ==
    \/ a.stamp[1] < b.stamp[1]
    \/ a.stamp[1] = b.stamp[1] /\ a.stamp[2] < b.stamp[2]
Observed(c, e) == (IF e.stamp[1] > c THEN e.stamp[1] ELSE c) + 1

AllObserved(c, items) ==
    LET after[n \in 0 .. Len(items)] ==
            IF n = 0 THEN c ELSE Observed(after[n - 1], items[n])
    IN  after[Len(items)]

(* std::stable_sort by before: what comes to place k has k - 1 ahead of it. *)
StableSort(s) ==
    LET Ahead(i, j) ==
            BeforeStamp(s[i], s[j]) \/ (~BeforeStamp(s[j], s[i]) /\ i < j)
        Place(j) == Cardinality({i \in DOMAIN s : Ahead(i, j)}) + 1
    IN  [k \in DOMAIN s |-> s[CHOOSE j \in DOMAIN s : Place(j) = k]]

BoxInit ==
    /\ queue = [d \in Devices |-> EmptyQueue(d)]
    /\ file = [d \in Devices |-> NoFile]
    /\ sent = {} /\ timeline = <<>> /\ clock = 0
    /\ made = [d \in Devices |-> <<>>]
    /\ sure = {} /\ forgot = {} /\ restarts = 0

Happen(d) ==
    /\ Len(made[d]) < MaxMade
    /\ queue' = [queue EXCEPT ![d] = Enqueue(@, Len(made[d]) + 1)]
    /\ made' = [made EXCEPT ![d] = Append(@, queue'[d].items[Len(queue'[d].items)])]
    /\ sure' = sure \ {d}
    /\ UNCHANGED <<file, sent, timeline, clock, forgot, restarts>>

Flush(d) ==
    /\ file' = [file EXCEPT ![d] = Image(queue[d])]
    /\ sure' = IF HighCounter(queue[d].items) = HighCounter(made[d]) THEN sure \cup {d} ELSE sure \ {d}
    /\ UNCHANGED <<queue, sent, timeline, clock, made, forgot, restarts>>

Restarted(d, f) ==
    /\ restarts < MaxRestarts
    /\ restarts' = restarts + 1
    /\ file' = [file EXCEPT ![d] = f]
    /\ queue' = [queue EXCEPT ![d] = Loaded(EmptyQueue(d), f)]
    /\ forgot' = IF queue'[d].counter < HighCounter(made[d]) THEN forgot \cup {d} ELSE forgot
    /\ UNCHANGED <<sent, timeline, clock, made>>

Restart(d) == Restarted(d, file[d]) /\ UNCHANGED sure

(* The device dies in a flush, which has truncated the file. *)
DieInFlush(d) ==
    /\ \E f \in CutShort(Image(queue[d])) : Restarted(d, f)
    /\ sure' = sure \ {d}

Drain(d) ==
    /\ queue[d].items # <<>> /\ Cardinality(sent) < MaxSent
    /\ sent' = sent \cup {queue[d].items}
    /\ queue' = [queue EXCEPT ![d].items = <<>>]
    /\ UNCHANGED <<file, timeline, clock, made, sure, forgot, restarts>>

Deliver ==
    /\ \E batch \in sent :
          LET merged == Merge(batch, {Key(timeline[i]) : i \in DOMAIN timeline})
          IN  /\ timeline' = StableSort(timeline \o merged.admitted)
              /\ clock' = AllObserved(clock, merged.admitted)
    /\ UNCHANGED <<queue, file, sent, made, sure, forgot, restarts>>

BoxNext ==
    \/ \E d \in Devices : Happen(d) \/ Flush(d) \/ Restart(d) \/ DieInFlush(d) \/ Drain(d)
    \/ Deliver

BoxSpec == BoxInit /\ [][BoxNext]_boxVars

----------------------------------------------------------------------------

(* The file of a queue gives all of it back, its counter with it, and a file  *)
(* cut short changes nothing: these events exist nowhere else.                *)
FileIsAllOrNothing ==
    \A d \in Devices, q \in {queue[x] : x \in Devices} :
        /\ queue[d].items # <<>> =>
              Loaded(EmptyQueue(d), Image(queue[d])) =
                 [queue[d] EXCEPT !.counter = HighCounter(queue[d].items)]
        /\ \A f \in CutShort(Image(queue[d])) : Loaded(q, f) = q

(* A device whose file was written after the last event it stamped and before *)
(* that event was handed over comes back knowing every stamp it used.         *)
CountSurvives ==
    \A d \in sure : Loaded(EmptyQueue(d), file[d]).counter >= HighCounter(made[d])

(* However batches are repeated, delayed and reordered, the timeline is in     *)
(* Lamport order with no event twice; and what a device stamped while it knew  *)
(* its count is told apart from all else it made, in the order it happened.    *)
TimelineIsTrue ==
    /\ \A i, j \in DOMAIN timeline :
          /\ i < j => BeforeStamp(timeline[i], timeline[j])
          /\ clock > timeline[i].stamp[1]
    /\ \A d \in Devices \ forgot :
          /\ \A m, n \in DOMAIN made[d] :
                m < n => BeforeStamp(made[d][m], made[d][n])
          /\ \A batch \in sent : \A i \in DOMAIN batch :
                batch[i].stamp[2] = d =>
                   \A j \in DOMAIN timeline :
                      Key(timeline[j]) = Key(batch[i]) => timeline[j] = batch[i]

OutboxIsTrue == FileIsAllOrNothing /\ CountSurvives /\ TimelineIsTrue

=============================================================================
