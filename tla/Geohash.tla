------------------------------- MODULE Geohash -------------------------------
(***************************************************************************)
(* index::Geohash: records sorted by the Morton key of their centre, and a *)
(* query that scans the keys between its own two corners, padded by half   *)
(* the largest record's extent.  Coordinates are doubled here, so centres  *)
(* and half extents are integers.                                          *)
(***************************************************************************)
EXTENDS Boxes, Sequences, SequencesExt

CONSTANTS GBits,    \* kBits per axis
          GWorld    \* the domain the keys quantize: [kLatMin, kLatMin + kLatSpan] ...

MaxCell == 2 ^ GBits - 1

(* A doubled coordinate to its cell, clamped to the domain. *)
Cell(c, min, max) ==
    LET cell == ((c - 2 * min) * MaxCell) \div (2 * (max - min))
    IN  IF c <= 2 * min THEN 0 ELSE IF c >= 2 * max THEN MaxCell ELSE cell

(* spread and interleave: the bits of the latitude at odd places, those of *)
(* the longitude at even ones.                                             *)
Bit(v, i) == (v \div (2 ^ i)) % 2
Interleaved(lat, lon) ==
    FoldLeft(LAMBDA key, i : key + Bit(lat, i - 1) * 2 ^ (2 * i - 1)
                                 + Bit(lon, i - 1) * 2 ^ (2 * i - 2),
             0, [i \in 1..GBits |-> i])
Morton(lat2, lon2) ==
    Interleaved(Cell(lat2, GWorld.s, GWorld.n), Cell(lon2, GWorld.w, GWorld.e))

Record(it) == [key |-> Morton(it.box.s + it.box.n, it.box.w + it.box.e),
               id |-> it.id, box |-> it.box]

EmptyGeohash == [recs |-> <<>>, halfLat |-> 0, halfLon |-> 0]

(* note_extent, with half extents doubled: the whole extent. *)
Noted(g, box) == [g EXCEPT !.halfLat = Greater(@, box.n - box.s),
                           !.halfLon = Greater(@, box.e - box.w)]

GInsert(g, it) ==
    LET r  == Record(it)
        at == Cardinality({i \in DOMAIN g.recs : g.recs[i].key <= r.key}) + 1
    IN  Noted([g EXCEPT !.recs = InsertAt(@, at, r)], it.box)

(* Equal keys keep no promised order in build's sort; here, that of insertion. *)
GBuild(items) == FoldLeft(GInsert, EmptyGeohash, items)

ExtentsOf(recs) == FoldLeft(LAMBDA g, r : Noted(g, r.box), EmptyGeohash, recs)

GRemove(g, id) ==
    LET recs == SelectSeq(g.recs, LAMBDA r : r.id # id)
    IN  IF Len(recs) = Len(g.recs) THEN g ELSE [ExtentsOf(recs) EXCEPT !.recs = recs]

GQuery(g, q) ==
    LET lo == Morton(2 * q.s - g.halfLat, 2 * q.w - g.halfLon)
        hi == Morton(2 * q.n + g.halfLat, 2 * q.e + g.halfLon)
    IN  SelectSeq(g.recs, LAMBDA r : lo <= r.key /\ r.key <= hi /\ Intersects(r.box, q))

Sorted(recs) == \A i \in 1..(Len(recs) - 1) : recs[i].key <= recs[i + 1].key

(* ---- the blob a device carries ---------------------------------------- *)

Serialized(g) == [magic |-> TRUE, count |-> Len(g.recs), halfLat |-> g.halfLat,
                  halfLon |-> g.halfLon, body |-> g.recs, trailing |-> FALSE]

(* deserialize: a blob that fails any test leaves the index as it was. *)
Acceptable(blob) ==
    /\ blob.magic
    /\ blob.count = Len(blob.body)
    /\ \A i \in DOMAIN blob.body : /\ blob.body[i].box.s <= blob.body[i].box.n
                                   /\ blob.body[i].box.w <= blob.body[i].box.e
    /\ ~ blob.trailing
    /\ Sorted(blob.body)

Deserialized(g, blob) ==
    IF Acceptable(blob)
    THEN [recs |-> blob.body, halfLat |-> blob.halfLat, halfLon |-> blob.halfLon]
    ELSE g

(* What a transfer may do to a blob: another file, a cut or a doubled body, a *)
(* count that does not fit, bytes after the end, two records swapped, a box   *)
(* turned inside out.                                                         *)
Damaged(blob) ==
    {[blob EXCEPT !.magic = FALSE], [blob EXCEPT !.count = @ + 1],
     [blob EXCEPT !.body = @ \o @],
     [blob EXCEPT !.trailing = TRUE]}
    \cup {[blob EXCEPT !.body = SubSeq(@, 1, k)] : k \in 0..(Len(blob.body) - 1)}
    \cup {[blob EXCEPT !.body = Reverse(@)] : x \in {b \in {1} : blob.body[1].key
                                                    # blob.body[Len(blob.body)].key}}
    \cup {[blob EXCEPT !.body[i].box.s = blob.body[i].box.n + 1] : i \in DOMAIN blob.body}

(* check of the array the binary searches rely on, and of the padding. *)
GeohashSound(g) ==
    /\ Sorted(g.recs)
    /\ ExtentsOf(g.recs).halfLat = g.halfLat /\ ExtentsOf(g.recs).halfLon = g.halfLon

(* A blob restores the index it was made from, and a damaged one changes nothing. *)
BlobRestores(g) ==
    /\ Deserialized(EmptyGeohash, Serialized(g)) = g
    /\ g.recs # <<>> =>
          \A blob \in Damaged(Serialized(g)) : Deserialized(EmptyGeohash, blob) = EmptyGeohash

============================================================================
