------------------------------ MODULE SeriesTiers ------------------------------
(***************************************************************************)
(* One series of nodedata's in-memory store (cmd/nodedata/series.go): the  *)
(* raw tier of recent points, the coarse tier with the first point of each *)
(* bucket, the open bucket's worst value and the sparse peaks.             *)
(*                                                                         *)
(* Series share nothing but the lock and the list of pending peaks, so one *)
(* is enough.  Times are counted in fractions of a second: a raw point     *)
(* keeps its time, a coarse point only the second, and Sec units make a    *)
(* second.  Each tier is a RingBuffer; raw and coarse are the points of it *)
(* that readers see.  Values are integers.                                 *)
(*                                                                         *)
(* A definition marked "Faulty:" is a plausible mistake in the code of the *)
(* definition after it; nothing uses it (see FleetPoller).                 *)
(***************************************************************************)
EXTENDS Integers, Sequences, FiniteSets, SequencesExt

CONSTANTS
    Value,       \* sample values
    Dir,         \* metrics.Lookup(id).Direction(): 1 or -1
    Floor,       \* metrics.Lookup(id).MinDelta
    Sec,         \* units of time per second
    Step,        \* coarseStepSec: seconds per bucket
    MaxRaw,      \* maxPointsPerMetric
    MaxCoarse,   \* maxCoarsePoints
    RawSlack,    \* rawSlack
    CoarseSlack, \* coarseSlack
    MinCap,      \* the first capacity of a buffer
    Retention,   \* coarseRetention, in seconds
    Gap,         \* distances of a sample from the newest one
    MaxTime      \* bound of the model: the last time of a sample

ASSUME SeriesAssumption ==
    /\ Value \subseteq Int /\ Dir \in {1, -1} /\ Floor \in Nat
    /\ Sec \in Nat \ {0} /\ Step \in Nat \ {0}
    /\ MaxRaw \in Nat \ {0} /\ MaxCoarse \in Nat \ {0}
    /\ RawSlack \in Nat /\ CoarseSlack \in Nat /\ MinCap \in Nat \ {0}
    /\ Retention \in Nat /\ Retention >= Step  \* 30 days, 5 minutes
    /\ Gap \subseteq Int /\ MaxTime \in Nat /\ MaxTime >= Sec

VARIABLES
    rbuf,     \* data: the buffer of the raw tier, a sequence of [n, v]
    rcap,     \* its capacity
    cbuf,     \* coarse: the buffer of the coarse tier, a sequence of [t, v]
    ccap,     \* its capacity
    peaks,    \* the peaks: sequence of [t, p]
    open,     \* the open bucket: {} or one [t, v, worst]
    pend,     \* peaks not yet taken for the disk
    clock     \* time of the newest sample offered

vars == <<rbuf, rcap, cbuf, ccap, peaks, open, pend, clock>>

RawRing == INSTANCE RingBuffer
    WITH Point <- [n : Int, v : Value], Limit <- MaxRaw, Slack <- RawSlack, buf <- rbuf, cap <- rcap
CoarseRing == INSTANCE RingBuffer
    WITH Point <- [t : Int, v : Value], Limit <- MaxCoarse, Slack <- CoarseSlack, buf <- cbuf, cap <- ccap

raw == RawRing!Visible
coarse == CoarseRing!Visible

Unix(n) == n \div Sec
BucketOf(t) == t \div Step
UnixCeil(n) == (n + Sec - 1) \div Sec

\* Faulty: one point too many.
NewestAndOne(s, n) == IF Len(s) > n + 1 THEN SubSeq(s, Len(s) - n, Len(s)) ELSE s

\* The peaks have no buffer of their own: they are cut to the newest n.
Newest(s, n) == IF Len(s) > n THEN SubSeq(s, Len(s) - n + 1, Len(s)) ELSE s
Abs(x) == IF x < 0 THEN -x ELSE x
Worse(a, b) == (a - b) * Dir > 0

Init ==
    /\ rbuf = <<>> /\ rcap = 0 /\ cbuf = <<>> /\ ccap = 0 /\ peaks = <<>>
    /\ open = {} /\ pend = <<>>
    /\ clock = Sec

-----------------------------------------------------------------------------
(* Add *)

\* Faulty: the floor itself is not enough.
PeakAboveFloor(ob) ==
    IF Floor > 0 /\ Abs(ob.worst - ob.v) > Floor THEN <<[t |-> ob.t, p |-> ob.worst]>> ELSE <<>>

\* The peak closeBucketLocked records for a bucket, if it is worth one.
PeakOf(ob) ==
    IF Floor > 0 /\ Abs(ob.worst - ob.v) >= Floor THEN <<[t |-> ob.t, p |-> ob.worst]>> ELSE <<>>

\* appendPeak: only later than the last one.
AppendPeak(pk, new) ==
    IF new # <<>> /\ (\A i \in DOMAIN pk : i = Len(pk) => pk[i].t < new[1].t)
    THEN Newest(pk \o new, MaxCoarse) ELSE pk

\* A sample opens a new bucket: the previous one is closed first.
OpenBucket(t, v) ==
    LET closed == IF open = {} THEN <<>> ELSE PeakOf(CHOOSE ob \in open : TRUE)
    IN  /\ peaks' = AppendPeak(peaks, closed)
        /\ pend' = pend \o closed
        /\ CoarseRing!Put([t |-> t, v |-> v])
        /\ open' = {[t |-> t, v |-> v, worst |-> v]}

\* A sample falls into the current bucket, which nobody may be keeping.
FollowBucket(v) ==
    /\ open' = {[ob EXCEPT !.worst = IF Worse(v, ob.worst) THEN v ELSE ob.worst] : ob \in open}
    /\ UNCHANGED <<cbuf, ccap, peaks, pend>>

\* Faulty: the sample is taken whatever its time.
NeverBackwards(n) == FALSE

\* The wall clock stepped back behind the newest raw point.
Backwards(n) == IF raw = <<>> THEN FALSE ELSE n < Last(raw).n

\* A sample of a later bucket than the newest coarse point.
NewBucket(n) == IF coarse = <<>> THEN TRUE ELSE BucketOf(Unix(n)) > BucketOf(Last(coarse).t)

\* Add, for one sample; one from before the newest is dropped.
Add(n, v) ==
    /\ n \in Sec .. MaxTime
    /\ clock' = n
    /\ \/ /\ Backwards(n)
          /\ UNCHANGED <<rbuf, rcap, cbuf, ccap, peaks, open, pend>>
       \/ /\ ~Backwards(n)
          /\ RawRing!Put([n |-> n, v |-> v])
          /\ IF NewBucket(n) THEN OpenBucket(Unix(n), v) ELSE FollowBucket(v)

-----------------------------------------------------------------------------
(* The rest *)

\* TakePeaks: the caller writes them to the history.
TakePeaks ==
    /\ pend # <<>>
    /\ pend' = <<>>
    /\ UNCHANGED <<rbuf, rcap, cbuf, ccap, peaks, open, clock>>

\* A restart that finds everything flushed: only what is on disk comes back
\* (AddCoarse, AddPeak); the raw tier and the open bucket are gone.
Restart ==
    /\ raw # <<>> /\ pend = <<>>
    /\ rbuf' = <<>> /\ rcap' = 0 /\ open' = {}
    /\ UNCHANGED <<cbuf, ccap, peaks, pend, clock>>

\* Prune(before): delete a dead series, or trim what is too old.
LastTime == IF raw = <<>> THEN Last(coarse).t * Sec
            ELSE IF Last(coarse).t * Sec > Last(raw).n THEN Last(coarse).t * Sec ELSE Last(raw).n

\* sort.Search and copy: what is left of a tier from time t on.
From(s, t) == SubSeq(s, Cardinality({i \in DOMAIN s : s[i].t < t}) + 1, Len(s))

\* A dead series goes altogether.
Drop ==
    rbuf' = <<>> /\ rcap' = 0 /\ cbuf' = <<>> /\ ccap' = 0 /\ open' = {} /\ peaks' = <<>>

Prune(before) ==
    /\ coarse # <<>>
    /\ IF LastTime < before
       THEN Drop
       ELSE LET cut == (LastTime - Retention * Sec) \div Sec
            IN  /\ CoarseRing!Trim(Len(cbuf) - Len(From(cbuf, cut)))
                /\ peaks' = From(peaks, cut)
                /\ UNCHANGED <<rbuf, rcap, open>>
    /\ UNCHANGED <<pend, clock>>

\* collectLoop takes the peaks after every Add, so none waits at the next one.
Next ==
    \/ pend = <<>> /\ \E d \in Gap, v \in Value : Add(clock + d, v)
    \/ TakePeaks
    \/ Restart
    \/ \E before \in {clock - Retention * Sec, clock + Sec} : Prune(before)

Spec == Init /\ [][Next]_vars

-----------------------------------------------------------------------------
(* Queries *)

\* Range(from, to): raw points, and coarse ones where raw does not reach (the
\* code lists each tier in its own order, which Sorted describes).
RangeCoarse(from, to) ==
    LET upto == IF raw # <<>> /\ raw[1].n < to THEN UnixCeil(raw[1].n) - 1 ELSE Unix(to)
    IN  {c \in ToSet(coarse) : c.t >= UnixCeil(from) /\ c.t <= upto}
RangeRaw(from, to) == {r \in ToSet(raw) : r.n >= from /\ r.n <= to}

\* Faulty: only what was sampled into the coarse tier.
NoWorstValues == {}

\* The peaks, as worst values of their buckets.
PeakValues == ToSet(peaks)

\* The values Worst(from, to) chooses from, and the worst of them.
WorstOf(from, to) ==
    LET upto == IF raw = <<>> THEN Unix(to)
                ELSE IF Unix(raw[1].n) - 1 > Unix(to) THEN Unix(to) ELSE Unix(raw[1].n) - 1
        Old(x) == x.t >= UnixCeil(from) /\ x.t <= upto
        early == raw = <<>> \/ from < raw[1].n
    IN  {r.v : r \in RangeRaw(from, to)}
          \cup {c.v : c \in {c \in ToSet(coarse) : early /\ Old(c)}}
          \cup {k.p : k \in {k \in PeakValues : early /\ Old(k)}}
Worst(from, to) ==
    LET all == WorstOf(from, to) IN CHOOSE v \in all : \A w \in all : ~Worse(w, v)

\* Faulty: the first point at or after the target, without its left neighbour.
NextIn(times, key, target) ==
    LET at == Cardinality({i \in DOMAIN times : times[i] < key}) + 1
    IN  IF times = <<>> THEN {} ELSE IF at > Len(times) THEN {at - 1} ELSE {at}

\* Lookup(target, tol): sort.Search and the two neighbours, in one tier whose
\* points have the given times.  nearestCoarse searches by whole seconds.
NearestIn(times, key, target) ==
    LET at == Cardinality({i \in DOMAIN times : times[i] < key}) + 1
        D(i) == Abs(times[i] - target)
    IN  IF times = <<>> THEN {}
        ELSE IF at > Len(times) \/ (at > 1 /\ D(at - 1) < D(at)) THEN {at - 1} ELSE {at}

RawTimes == [i \in DOMAIN raw |-> raw[i].n]
CoarseTimes == [i \in DOMAIN coarse |-> coarse[i].t * Sec]

\* The answer as a set: empty, or the value and its distance from the target.
Lookup(target, tol) ==
    LET inRaw == {[v |-> raw[i].v, d |-> Abs(raw[i].n - target)] :
                    i \in NearestIn(RawTimes, target, target)}
        inCoarse == {[v |-> coarse[i].v, d |-> Abs(CoarseTimes[i] - target)] :
                       i \in NearestIn(CoarseTimes, Unix(target) * Sec, target)}
        best == IF inCoarse # {} /\ (\A r \in inRaw : \A c \in inCoarse : c.d < r.d)
                THEN inCoarse ELSE inRaw
    IN  {b \in best : b.d <= tol}

-----------------------------------------------------------------------------
(* Properties *)

\* The type invariant.
TypeOK ==
    /\ RawRing!TypeOK /\ CoarseRing!TypeOK
    /\ \A i \in DOMAIN peaks : peaks[i].t \in 1 .. MaxTime /\ peaks[i].p \in Value
    /\ Len(peaks) <= MaxCoarse
    /\ Cardinality(open) <= 1 /\ Len(pend) <= 1 /\ clock \in Sec .. MaxTime

\* series.go, Add, Range, Lookup: what every binary search relies on, whatever
\* the wall clock does: raw is in order, the buckets of coarse and the times of
\* the peaks are strictly increasing, and the open bucket is the newest one.
Sorted ==
    /\ \A i \in 2..Len(raw) : raw[i-1].n <= raw[i].n
    /\ \A i \in 2..Len(coarse) : BucketOf(coarse[i-1].t) < BucketOf(coarse[i].t)
    /\ \A i \in 2..Len(peaks) : peaks[i-1].t < peaks[i].t
    /\ \A ob \in open : coarse # <<>> /\ ob.t = Last(coarse).t /\ ob.v = Last(coarse).v

\* series.go, worstBuckets and Prune: a peak always has its bucket: the coarse
\* tier still holds the point of its time, unless that has been pushed out.
PeakHasBucket ==
    \A i \in DOMAIN peaks :
        \/ coarse # <<>> /\ peaks[i].t < coarse[1].t
        \/ \E j \in DOMAIN coarse : coarse[j].t = peaks[i].t /\ coarse[j].v # peaks[i].p

\* series.go, Lookup: the value returned is that of a stored point, and no
\* stored point is nearer to the target by a second or more; nothing is
\* returned only if there is no point within the tolerance.
LookupIsNearest ==
    \A target \in 0 .. MaxTime : \A tol \in {Sec, MaxTime} :
        LET found == Lookup(target, tol)
            dists == {Abs(raw[i].n - target) : i \in DOMAIN raw}
                       \cup {Abs(CoarseTimes[i] - target) : i \in DOMAIN coarse}
        IN  /\ \A f \in found : f.d <= tol /\ f.d \in dists /\ \A d \in dists : f.d < d + Sec
            /\ found = {} => \A d \in dists : d + Sec > tol

\* series.go:377 (comment in Range): the coarse tier only fills in what is
\* earlier than the raw tier, so the oldest raw point is not shown a second time
\* by the coarse point it was copied to.
RangeFillsEarlierOnly ==
    raw # <<>> =>
        \A c \in RangeCoarse(0, raw[1].n + 1) : c # [t |-> Unix(raw[1].n), v |-> raw[1].v]
=============================================================================
