------------------------------- MODULE Deviation -------------------------------
(***************************************************************************)
(* The statistics of internal/deviation: the scale sigma of the difference *)
(* between a sample and the one a lag before it, for each lag and hour of  *)
(* the day, with the samples of an anomaly left out, and the deviation z   *)
(* of a new sample.  Times and values are integers; a scale is in units of *)
(* 1/Unit, a centre in halves, z in twentieths as ZInt8 keeps it.          *)
(***************************************************************************)
EXTENDS ZScores

CONSTANTS
    Lags,                        \* LagSeconds
    HourLen, HoursPerDay,        \* 3600 and 24
    MinDiffs, HighConf, MinSpan, \* MinDiffsForZ, HighConfN, MinBaselineSpan
    ShrinkK,                     \* shrinkK
    TolMin, TolMax               \* limits of LagTolerance

ASSUME DeviationAssumption ==
    /\ Lags \in Seq(Nat \ {0})
    /\ {HourLen, HoursPerDay, MinDiffs, MinSpan} \subseteq Nat \ {0}
    /\ {HighConf, ShrinkK, TolMin, TolMax} \subseteq Nat /\ TolMin <= TolMax

Unit == 1000
ClampZ == 120
Never == -1                      \* no anomaly: the zero time

AtLeast(x, y) == IF x < y THEN y ELSE x
AtMost(x, y) == IF x > y THEN y ELSE x

HourOf(t) == (t \div HourLen) % HoursPerDay
LagTolerance(H) == AtMost(AtLeast(H \div 8, TolMin), TolMax)
Dist(hist, i, target) == Abs(hist[i].ts - target)

-----------------------------------------------------------------------------
(* What is left out *)

From(hist, since) == Cardinality({i \in DOMAIN hist : hist[i].ts >= since})

Enough(hist, since) == TRUE

\* enoughAfterExclusion: twice MinDiffs samples remain in the current hour.
EnoughAfter(hist, since) ==
    Cardinality({i \in DOMAIN hist : /\ hist[i].ts < since
                                     /\ HourOf(hist[i].ts) = HourOf(Last(hist).ts)}) >= 2 * MinDiffs

\* More than a quarter of the history is no anomaly but the new normal.
Excluded(hist, since) ==
    IF since # Never /\ (4 * From(hist, since) > Len(hist) \/ ~EnoughAfter(hist, since))
    THEN Never ELSE since

-----------------------------------------------------------------------------
(* Differences *)

\* The first sample from j on that is not before target.
AdvanceTo(hist, j, target) ==
    CHOOSE k \in j..Len(hist) : hist[k].ts >= target /\ \A m \in j..(k - 1) : hist[m].ts < target

\* Of the two around target the nearer one, the later one when they tie.
StayAt(hist, j, target) == j
Nearer(hist, j, target) ==
    IF j > 1 /\ Dist(hist, j - 1, target) < Dist(hist, j, target) THEN j - 1 ELSE j

\* A sample of the anomaly, or one whose target is before the history.
Skipped(hist, lag, since, i) ==
    (since # Never /\ hist[i].ts >= since) \/ hist[i].ts - lag < hist[1].ts

\* One scan over the samples: where j stands after each of them; it never goes back.
Scan(hist, lag, since) ==
    LET j[i \in 0..Len(hist)] ==
          IF i = 0 THEN 1
          ELSE IF Skipped(hist, lag, since, i) THEN j[i - 1]
          ELSE AdvanceTo(hist, j[i - 1], hist[i].ts - lag)
    IN  j

\* Each sample with the one that the scan finds for it, if that is near enough.
Pairs(hist, lag, since) ==
    LET j == Scan(hist, lag, since)
        found == {<<i, Nearer(hist, j[i], hist[i].ts - lag)>> :
                    i \in {i \in DOMAIN hist : ~Skipped(hist, lag, since, i)}}
    IN  {p \in found : Dist(hist, p[2], hist[p[1]].ts - lag) <= LagTolerance(lag)}

\* The differences of an hour, in the order of the samples.
Diffs(hist, lag, since, hour) ==
    LET in == {p \in Pairs(hist, lag, since) : HourOf(hist[p[1]].ts) = hour}
        Nth(k) == CHOOSE p \in in : Cardinality({q \in in : q[1] <= p[1]}) = k
        Diff(p) == hist[p[1]].v - hist[p[2]].v
    IN  [k \in 1..Cardinality(in) |-> Diff(Nth(k))]

-----------------------------------------------------------------------------
(* Summary of sorted differences *)

\* sort.Float64s: each place shows the element of that rank.
Rank(s, i) == Cardinality({j \in DOMAIN s : s[j] < s[i] \/ (s[j] = s[i] /\ j <= i)})
Sorted(s) == [k \in DOMAIN s |-> s[CHOOSE i \in DOMAIN s : Rank(s, i) = k]]
Median2(s) ==
    LET n == Len(s) IN IF n % 2 = 1 THEN 2 * s[n \div 2 + 1] ELSE s[n \div 2] + s[n \div 2 + 1]

\* The quantile k/q, interpolated, times q.
Quantile(s, k, q) ==
    LET at == k * (Len(s) - 1)
        lo == at \div q + 1
    IN  s[lo] * q + (IF at % q = 0 THEN 0 ELSE (s[lo + 1] - s[lo]) * (at % q))
Spread(s, q, minN) == IF Len(s) < minN THEN 0 ELSE Quantile(s, q - 1, q) - Quantile(s, 1, q)

\* The smallest distance of two different values; at least 1, as they are integers.
Resolution(s) ==
    LET gaps == {s[i + 1] - s[i] : i \in {i \in 1..(Len(s) - 1) : s[i] < s[i + 1]}}
    IN  IF gaps = {} THEN 1 ELSE CHOOSE g \in gaps : \A h \in gaps : g <= h

\* The largest of three robust scales; the resolution or a twentieth of the
\* centre for differences that are all alike; at least the resolution.
RobustScale(s) ==
    LET centre2 == Median2(s)
        mad == Median2(Sorted([i \in DOMAIN s |-> Abs(2 * s[i] - centre2)]))
        widest == AtLeast((14826 * mad) \div 40,
                  AtLeast((Spread(s, 4, 4) * 250000) \div 1349,
                          (Spread(s, 10, 10) * 100000) \div 2563))
        floor == Unit * Resolution(s)
    IN  AtLeast(IF widest = 0 THEN (Abs(centre2) * Unit) \div 40 ELSE widest, floor)

\* ComputeSigmaLagInto, for one hour.
SigmaOf(hist, lag, since, hour) ==
    LET s == Sorted(Diffs(hist, lag, Excluded(hist, since), hour))
        span == Last(hist).ts - hist[1].ts
    IN  [n |-> Len(s), low |-> Len(s) < HighConf,
         ready |-> span >= lag /\ span >= MinSpan /\ Len(s) >= MinDiffs,
         centre2 |-> IF s = <<>> THEN 0 ELSE Median2(s),
         sigma |-> IF s = <<>> THEN 1 ELSE RobustScale(s)]

-----------------------------------------------------------------------------
(* The deviation of a sample *)

\* Series.Lookup: the nearest sample, if within the tolerance.
Lookup(hist, target, tol) ==
    LET near == {i \in DOMAIN hist : Dist(hist, i, target) <= tol}
    IN  IF near = {} THEN 0
        ELSE CHOOSE i \in near : \A j \in near \ {i} :
               \/ Dist(hist, i, target) < Dist(hist, j, target)
               \/ Dist(hist, i, target) = Dist(hist, j, target) /\ i > j

\* Z for the last sample; small differences are nothing, small samples shrink.
ZOf(hist, lag, ls, minDelta) ==
    LET now == Last(hist)
        p == Lookup(hist, now.ts - lag, LagTolerance(lag))
        effect2 == 2 * (now.v - hist[p].v) - ls.centre2
        z == (10 * Abs(effect2) * Unit * ls.n) \div (ls.sigma * (ls.n + ShrinkK))
    IN  IF ~ls.ready \/ p = 0 THEN NaN
        ELSE IF Abs(effect2) < 2 * minDelta THEN 0
        ELSE IF effect2 < 0 THEN -AtMost(z, ClampZ) ELSE AtMost(z, ClampZ)
=============================================================================
