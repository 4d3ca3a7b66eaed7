------------------------------- MODULE RingBuffer -------------------------------
(***************************************************************************)
(* The growing, then sliding buffer behind both tiers of a series          *)
(* (cmd/nodedata/series.go: appendRaw and raw, appendCapped and coarseOf). *)
(* A full buffer doubles its capacity up to Limit + Slack; at that capacity *)
(* the newest Limit - 1 points are copied to the front instead, so that    *)
(* nothing is allocated.  Readers see the newest Limit points.  Prune drops *)
(* the oldest points in place.                                             *)
(*                                                                         *)
(* A definition marked "Faulty:" is a plausible mistake in the code of the *)
(* definition after it; nothing uses it (see FleetPoller).                 *)
(***************************************************************************)
EXTENDS Integers, Sequences

CONSTANTS
    Point,    \* the points appended
    Limit,    \* maxPointsPerMetric, maxCoarsePoints
    Slack,    \* rawSlack, coarseSlack
    MinCap    \* the first capacity: 64, 16

\* Not an ASSUME: each tier of a series is an instance with its own constants.
RingAssumption == Limit \in Nat \ {0} /\ Slack \in Nat /\ MinCap \in Nat \ {0}

VARIABLES
    buf,  \* the slice
    cap   \* its capacity

vars == <<buf, cap>>

CapMax == Limit + Slack
Smaller(a, b) == IF a < b THEN a ELSE b
Larger(a, b) == IF a > b THEN a ELSE b

\* The capacity after growing.
Grown == Smaller(Larger(2 * cap, MinCap), CapMax)

\* The last k points moved to the front.
Kept(k) == SubSeq(buf, Len(buf) - k + 1, Len(buf))

Init == buf = <<>> /\ cap = 0

\* There is room.
Plain(p) ==
    /\ Len(buf) < cap
    /\ buf' = Append(buf, p)
    /\ UNCHANGED cap

\* Full and long enough: slide.
Slide(p) ==
    /\ Len(buf) = cap /\ Len(buf) >= Limit
    /\ buf' = Append(Kept(Limit - 1), p)
    /\ UNCHANGED cap

\* Full and still short: reallocate.
Grow(p) ==
    /\ Len(buf) = cap /\ Len(buf) < Limit
    /\ cap' = Grown
    /\ buf' = Append(buf, p)

Put(p) == Plain(p) \/ Slide(p) \/ Grow(p)

\* Prune: the k oldest points are dropped; the capacity stays.
Trim(k) ==
    /\ buf' = SubSeq(buf, k + 1, Len(buf))
    /\ UNCHANGED cap

Next == (\E p \in Point : Put(p)) \/ \E k \in 1 .. Len(buf) : Trim(k)
Spec == Init /\ [][Next]_vars

-----------------------------------------------------------------------------
\* raw and coarseOf: the points a reader sees.
Visible == IF Len(buf) > Limit THEN SubSeq(buf, Len(buf) - Limit + 1, Len(buf)) ELSE buf

\* The type invariant: append never has to allocate behind appendRaw's back.
TypeOK == buf \in Seq(Point) /\ cap \in 0 .. CapMax /\ Len(buf) <= cap

W == INSTANCE WindowQueue WITH win <- Visible

\* series.go, raw and appendRaw: through every growth, slide and cut, readers
\* see exactly the newest Limit points appended and not cut off.
ShowsNewest == W!Spec
=============================================================================
