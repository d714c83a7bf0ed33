------------------------------- MODULE Boxes -------------------------------
(***************************************************************************)
(* Axis-aligned boxes on a grid of integer coordinates (geo::Bbox): what   *)
(* every spatial index stores.  A box is [s, w, n, e]; it is closed, so    *)
(* boxes that only touch intersect.  Regions are split in the middle, so   *)
(* the grid of a model has to be wide enough for its depth of splits.      *)
(***************************************************************************)
EXTENDS Integers, FiniteSets

Box(s, w, n, e) == [s |-> s, w |-> w, n |-> n, e |-> e]

Lesser(a, b) == IF a < b THEN a ELSE b
Greater(a, b) == IF a < b THEN b ELSE a

(* Bbox::contains of a point <<lat, lon>>. *)
HasPoint(b, p) == /\ b.s <= p[1] /\ p[1] <= b.n
                  /\ b.w <= p[2] /\ p[2] <= b.e

Intersects(a, b) == /\ a.s <= b.n /\ b.s <= a.n
                    /\ a.w <= b.e /\ b.w <= a.e

FullyContains(outer, inner) ==
    /\ outer.s <= inner.s /\ inner.n <= outer.n
    /\ outer.w <= inner.w /\ inner.e <= outer.e

(* Bbox::expand: the smallest box with both in it. *)
Expand(a, b) == Box(Lesser(a.s, b.s), Lesser(a.w, b.w),
                    Greater(a.n, b.n), Greater(a.e, b.e))

Area(b) == (b.n - b.s) * (b.e - b.w)
Enlargement(a, b) == Area(Expand(a, b)) - Area(a)

(* The four quarters of a region, in the order the quadtrees try them. *)
Quarter(r, i) ==
    LET lat == (r.s + r.n) \div 2
        lon == (r.w + r.e) \div 2
    IN  CASE i = 1 -> Box(r.s, r.w, lat, lon)
          [] i = 2 -> Box(r.s, lon, lat, r.e)
          [] i = 3 -> Box(lat, r.w, r.n, lon)
          [] i = 4 -> Box(lat, lon, r.n, r.e)

============================================================================
