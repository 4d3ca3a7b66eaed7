----------------------------- MODULE SeriesHistory -----------------------------
(***************************************************************************)
(* SeriesTiers with a history variable: every sample accepted since the    *)
(* series began, with the life (between restarts) it was accepted in.      *)
(***************************************************************************)
EXTENDS SeriesTiers

CONSTANTS
    MaxSamples,  \* bound of the model: samples offered
    MaxLives     \* bound of the model: lives

VARIABLES accepted, life, offered

hvars == <<vars, accepted, life, offered>>

HInit == Init /\ accepted = <<>> /\ life = 1 /\ offered = 0

HNext ==
    \/ \E d \in Gap, v \in Value :
         /\ pend = <<>> /\ offered < MaxSamples
         /\ Add(clock + d, v)
         /\ accepted' = IF Backwards(clock + d)
                        THEN accepted
                        ELSE Append(accepted, [n |-> clock + d, v |-> v, life |-> life])
         /\ offered' = offered + 1
         /\ UNCHANGED life
    \/ TakePeaks /\ UNCHANGED <<accepted, life, offered>>
    \/ life < MaxLives /\ Restart /\ life' = life + 1 /\ UNCHANGED <<accepted, offered>>
    \/ \E before \in {clock - Retention * Sec, clock + Sec} :
         /\ Prune(before)
         /\ accepted' = IF coarse' = <<>> THEN <<>> ELSE accepted
         /\ UNCHANGED <<life, offered>>

HSpec == HInit /\ [][HNext]_hvars

-----------------------------------------------------------------------------
\* The samples of a coarse point's bucket.
InBucket(c) == {i \in DOMAIN accepted : BucketOf(Unix(accepted[i].n)) = BucketOf(c.t)}
WorstIn(I) == CHOOSE v \in {accepted[i].v : i \in I} : \A i \in I : ~Worse(accepted[i].v, v)
\* One life saw the bucket from its first sample to the next bucket.
WatchedWhole(c) ==
    \E l \in 1..life :
        /\ \A i \in InBucket(c) : accepted[i].life = l
        /\ \E i \in DOMAIN accepted :
              accepted[i].life = l /\ BucketOf(Unix(accepted[i].n)) > BucketOf(c.t)

\* What the peaks should say of a closed bucket.
PeakRight(c) ==
    LET w == WorstIn(InBucket(c))
    IN  IF Floor > 0 /\ Abs(w - c.v) >= Floor
        THEN \E k \in ToSet(peaks) : k.t = c.t /\ k.p = w
        ELSE \A k \in ToSet(peaks) : k.t # c.t

\* The samples of this life, behind those of earlier ones.
Mine == SubSeq(accepted, Cardinality({i \in DOMAIN accepted : accepted[i].life < life}) + 1, Len(accepted))

Closed == {c \in ToSet(coarse) : c.t < Last(coarse).t}

-----------------------------------------------------------------------------
(* Properties *)

\* series.go, raw and appendRaw: readers of the raw tier see exactly the newest
\* MaxRaw samples of this life, through every growth and slide of its buffer.
RawShowsNewest ==
    raw = Newest([i \in 1 .. Len(Mine) |-> [n |-> Mine[i].n, v |-> Mine[i].v]], MaxRaw)

\* series.go: the three tiers fit together, whatever the clock and Prune do.
TiersAgree == TypeOK /\ Sorted /\ PeakHasBucket /\ RawShowsNewest

\* series.go, Add: a coarse point is the first sample of its bucket.
CoarseIsFirst ==
    \A c \in ToSet(coarse) :
        \E i \in InBucket(c) :
            /\ Unix(accepted[i].n) = c.t /\ accepted[i].v = c.v
            /\ \A j \in InBucket(c) : i <= j

\* series.go:71, closeBucketLocked: a bucket that was opened, filled and closed
\* in one life has a peak exactly when its worst sample is far enough from its first one.
PeaksExact == \A c \in Closed : WatchedWhole(c) => PeakRight(c)

\* series.go, Add and closeBucketLocked: the tier of buckets says what the samples were.
BucketsExact == CoarseIsFirst /\ PeaksExact

\* series.go:71 (comment of cpeak): every bucket has its worst value recorded.
PeakOfEveryBucket == \A c \in Closed : PeakRight(c)

\* The setting of Worst: one life so far, no two samples in one second, and a
\* raw tier that reaches back behind the newest bucket (24 hours against 5 minutes).
OneLife == \A i \in DOMAIN accepted : accepted[i].life = life
SecondsApart == \A i, j \in DOMAIN accepted : i # j => Unix(accepted[i].n) # Unix(accepted[j].n)
RawIsLong == Len(raw) < MaxRaw \/ BucketOf(Unix(raw[1].n)) < BucketOf(Last(coarse).t)

\* series.go, Worst: over a stretch of whole buckets that ends now the answer
\* misses the worst sample by less than the floor, although raw points, coarse
\* points and peaks each cover a part of it.
WorstIsTrue ==
    (Floor > 0 /\ coarse # <<>> /\ OneLife /\ SecondsApart /\ RawIsLong) =>
        \A c \in ToSet(coarse) :
            LET mine == {i \in DOMAIN accepted : BucketOf(Unix(accepted[i].n)) >= BucketOf(c.t)}
            IN  Abs(Worst(c.t * Sec, MaxTime) - WorstIn(mine)) < Floor
=============================================================================
