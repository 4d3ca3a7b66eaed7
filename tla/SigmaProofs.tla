------------------------------ MODULE SigmaProofs ------------------------------
(* Proofs about the baseline of a metric, for any lags, hours, limits, noise and *)
(* fault.  First the scan, a pointer that only moves forward: it pairs each      *)
(* sample with the one that a look-up finds, over any gaps.  Then the            *)
(* statistics, which are defined for every history and whose scale is positive.  *)
(* Last the loop of marks: a mark is as old as it was made to be, and since the  *)
(* fault has been seen in time no sample of it is in the baseline.               *)
(* The second half is about what is made of the deviations and of the checks: no *)
(* problem is lost on the way to the chain, the rows and the health line.        *)
EXTENDS SigmaHistory, Verdicts, FiniteSetTheorems, WellFoundedInduction, NaturalsInduction, TLAPS

-----------------------------------------------------------------------------
(* Natural numbers *)

\* Every set of natural numbers that is not empty has a least element.
LEMMA LeastNat ==
    ASSUME NEW S \in SUBSET Nat, S # {}
    PROVE  \E n \in S : \A k \in S : n <= k
<1>1. PICK x \in S : \A y \in S : <<y, x>> \notin OpToRel(<, Nat)
  BY NatLessThanWellFounded, WFMin, Zenon
<1>2. \A y \in S : ~ (y < x)
  BY <1>1 DEF OpToRel
<1>3. ASSUME NEW k \in S PROVE x <= k
  <2>1. x \in Nat /\ k \in Nat /\ ~ (k < x)
    BY <1>2
  <2> QED
    BY <2>1
<1> QED
  BY <1>3

\* A set of numbers up to N that has 0 and with each number below N the next has them all.
LEMMA AllUpTo ==
    ASSUME NEW N \in Nat, NEW S, 0 \in S, \A n \in S : n \in 0..(N - 1) => n + 1 \in S
    PROVE  0..N \subseteq S
<1> DEFINE Out == {n \in 0..N : n \notin S}
<1>1. SUFFICES ASSUME Out # {} PROVE FALSE
  OBVIOUS
<1>2. Out \in SUBSET Nat
  OBVIOUS
<1> HIDE DEF Out
<1>3. PICK n \in Out : \A k \in Out : n <= k
  BY <1>1, <1>2, LeastNat
<1>4. n \in 0..N /\ n \notin S /\ n # 0
  BY <1>3 DEF Out
<1>5. n - 1 \in 0..(N - 1) /\ (n - 1) + 1 = n /\ n - 1 < n
  BY <1>4
<1>6. n - 1 \notin Out
  BY <1>3, <1>5
<1>7. n - 1 \in S
  BY <1>5, <1>6 DEF Out
<1> QED
  BY <1>4, <1>5, <1>7

-----------------------------------------------------------------------------
(* The scan *)

Point == [ts : Nat, v : Int]
\* The samples are in the order of their times.
Ordered(h) == \A i, j \in 1..Len(h) : i < j => h[i].ts < h[j].ts
History(h) == h \in Seq(Point) /\ h # <<>> /\ Ordered(h)

LEMMA Tolerable == ASSUME NEW lag \in Nat PROVE LagTolerance(lag) \in Nat
<1>1. lag \div 8 \in Nat
  OBVIOUS
<1> QED
  BY <1>1, DeviationAssumption DEF LagTolerance, AtMost, AtLeast

LEMMA HistoryIs ==
    ASSUME NEW h, History(h)
    PROVE  /\ Len(h) \in Nat \ {0} /\ DOMAIN h = 1..Len(h)
           /\ \A i \in 1..Len(h) : h[i].ts \in Nat /\ h[i].v \in Int
<1>1. h \in Seq(Point) /\ h # <<>>
  BY DEF History
<1>2. \A i \in 1..Len(h) : h[i] \in Point
  BY <1>1
<1>3. \A i \in 1..Len(h) : h[i].ts \in Nat /\ h[i].v \in Int
  BY <1>2 DEF Point
<1> QED
  BY <1>1, <1>3

\* From any place up to sample i there is a first sample that is not before the target of i.
LEMMA AdvanceToIs ==
    ASSUME NEW h, History(h), NEW lag \in Nat, NEW i \in 1..Len(h), NEW p \in 1..i
    PROVE  LET target == h[i].ts - lag
               k == AdvanceTo(h, p, target)
           IN  k \in p..i /\ h[k].ts >= target /\ \A m \in p..(k - 1) : h[m].ts < target
<1> DEFINE target == h[i].ts - lag
           At == {k \in p..Len(h) : h[k].ts >= target}
<1>1. Len(h) \in Nat /\ p \in Nat /\ i \in Nat /\ \A m \in 1..Len(h) : h[m].ts \in Nat
  BY HistoryIs
<1>2. target \in Int /\ h[i].ts >= target /\ i \in p..Len(h)
  BY <1>1
<1>3. At \in SUBSET Nat /\ i \in At
  BY <1>1, <1>2
<1> HIDE DEF At
<1>4. PICK k \in At : \A m \in At : k <= m
  BY <1>3, LeastNat
<1> HIDE DEF target
<1>5. k \in p..i /\ h[k].ts >= target /\ k \in p..Len(h)
  BY <1>1, <1>3, <1>4 DEF At
<1>6. ASSUME NEW m \in p..(k - 1) PROVE h[m].ts < target
  <2>1. m \in p..Len(h) /\ m \in 1..Len(h) /\ m < k /\ m \in Nat /\ k \in Nat
    BY <1>1, <1>5
  <2>2. m \notin At
    BY <1>4, <2>1
  <2> QED
    BY <1>1, <1>2, <2>1, <2>2 DEF At
<1> DEFINE Is(n) == h[n].ts >= target /\ \A m \in p..(n - 1) : h[m].ts < target
<1>7. k \in p..Len(h) /\ Is(k)
  BY <1>5, <1>6
<1>8. AdvanceTo(h, p, target) = CHOOSE n \in p..Len(h) : Is(n)
  BY DEF AdvanceTo
<1>9. \A n \in p..Len(h) : Is(n) => n = k
  <2> SUFFICES ASSUME NEW n \in p..Len(h), Is(n), n # k PROVE FALSE
    OBVIOUS
  <2>1. n \in Nat /\ k \in Nat /\ n \in 1..Len(h) /\ k \in 1..Len(h) /\ h[n].ts \in Nat /\ h[k].ts \in Nat
    BY <1>1, <1>5
  <2>2. CASE n < k
    <3>1. n \in p..(k - 1)
      BY <2>1, <2>2
    <3> QED
      BY <1>2, <1>6, <2>1, <3>1 DEF target
  <2>3. CASE k < n
    <3>1. k \in p..(n - 1)
      BY <1>5, <2>1, <2>3
    <3> QED
      BY <1>2, <1>5, <2>1, <3>1 DEF target
  <2> QED
    BY <2>1, <2>2, <2>3
<1> HIDE DEF Is
<1>10. AdvanceTo(h, p, target) = k
  BY <1>7, <1>8, <1>9
<1> QED
  BY <1>5, <1>6, <1>10 DEF target

\* One step of the scan, and a scan of the first n samples.
Move(h, lag, since, p, i) == IF Skipped(h, lag, since, i) THEN p ELSE AdvanceTo(h, p, h[i].ts - lag)
Scans(j, h, lag, since, n) ==
    /\ j \in [0..n -> 1..Len(h)] /\ j[0] = 1
    /\ \A i \in 1..n : j[i] <= i /\ j[i] = Move(h, lag, since, j[i - 1], i)

LEMMA ScanExists ==
    ASSUME NEW h, History(h), NEW lag \in Nat, NEW since
    PROVE  \E j : Scans(j, h, lag, since, Len(h))
<1> DEFINE N == Len(h)
           S == {n \in 0..N : \E j : Scans(j, h, lag, since, n)}
<1>1. N \in Nat \ {0}
  BY HistoryIs
<1>2. 0 \in S
  <2> DEFINE j == [i \in 0..0 |-> 1]
  <2>1. j \in [0..0 -> 1..N] /\ j[0] = 1
    BY <1>1
  <2>2. Scans(j, h, lag, since, 0)
    BY <2>1 DEF Scans
  <2> HIDE DEF j
  <2> QED
    BY <1>1, <2>2
<1>3. ASSUME NEW n \in S, n \in 0..(N - 1) PROVE n + 1 \in S
  <2>1. PICK j : Scans(j, h, lag, since, n)
    OBVIOUS
  <2>2. j \in [0..n -> 1..N] /\ j[0] = 1 /\ \A i \in 1..n : j[i] <= i /\ j[i] = Move(h, lag, since, j[i - 1], i)
    BY <2>1 DEF Scans
  <2>3. n \in Nat /\ n + 1 \in 1..N /\ n + 1 \in 0..N
    BY <1>1, <1>3
  <2>4. j[n] \in 1..(n + 1)
    <3>1. j[n] \in 1..N
      BY <2>2, <2>3
    <3>2. n = 0 \/ n \in 1..n
      BY <2>3
    <3> QED
      BY <1>1, <2>2, <2>3, <3>1, <3>2
  <2> DEFINE p == Move(h, lag, since, j[n], n + 1)
             g == [i \in 0..(n + 1) |-> IF i = n + 1 THEN p ELSE j[i]]
  <2>5. p \in 1..N /\ p <= n + 1
    <3>1. CASE Skipped(h, lag, since, n + 1)
      BY <1>1, <2>2, <2>3, <2>4, <3>1 DEF Move
    <3>2. CASE ~Skipped(h, lag, since, n + 1)
      <4> DEFINE k == AdvanceTo(h, j[n], h[n + 1].ts - lag)
      <4>1. k \in j[n]..(n + 1)
        BY <2>3, <2>4, AdvanceToIs
      <4>2. p = k
        BY <3>2 DEF Move
      <4> HIDE DEF k, p
      <4> QED
        BY <1>1, <2>3, <2>4, <4>1, <4>2
    <3> QED
      BY <3>1, <3>2
  <2> HIDE DEF p
  <2>6. g \in [0..(n + 1) -> 1..N] /\ g[0] = 1
    <3>1. ASSUME NEW i \in 0..(n + 1) PROVE g[i] \in 1..N
      <4>1. i = n + 1 \/ i \in 0..n
        BY <2>3
      <4> QED
        BY <2>2, <2>5, <4>1
    <3>2. g[0] = 1
      BY <2>2, <2>3
    <3> QED
      BY <3>1, <3>2
  <2>7. ASSUME NEW i \in 1..(n + 1) PROVE g[i] <= i /\ g[i] = Move(h, lag, since, g[i - 1], i)
    <3>1. CASE i = n + 1
      <4>1. i \in 0..(n + 1) /\ i - 1 = n /\ n \in 0..(n + 1) /\ n # n + 1
        BY <2>3, <3>1
      <4>2. g[i] = p /\ g[i - 1] = j[n]
        BY <3>1, <4>1
      <4> QED
        BY <2>5, <3>1, <4>2 DEF p
    <3>2. CASE i # n + 1
      <4>1. i \in 1..n /\ i \in 0..(n + 1) /\ i - 1 \in 0..(n + 1) /\ i - 1 # n + 1
        BY <2>3, <3>2
      <4>2. g[i] = j[i] /\ g[i - 1] = j[i - 1]
        BY <3>2, <4>1
      <4> QED
        BY <2>2, <4>1, <4>2
    <3> QED
      BY <3>1, <3>2
  <2>8. Scans(g, h, lag, since, n + 1)
    <3> HIDE DEF g
    <3> QED
      BY <2>6, <2>7 DEF Scans
  <2> HIDE DEF g
  <2> QED
    BY <2>3, <2>8
<1>4. N \in S
  <2> HIDE DEF S, N
  <2>1. 0..N \subseteq S
    BY <1>1, <1>2, <1>3, AllUpTo
  <2> QED
    BY <1>1, <2>1
<1> QED
  BY <1>4

\* What the definition of the scan says exists: there is a function that it defines.
LEMMA ScanIs ==
    ASSUME NEW h, History(h), NEW lag \in Nat, NEW since
    PROVE  LET j == Scan(h, lag, since)
           IN  j[0] = 1 /\ \A i \in 1..Len(h) : j[i] = Move(h, lag, since, j[i - 1], i)
<1> DEFINE N == Len(h)
           F(f) == [i \in 0..N |->
                      IF i = 0 THEN 1
                      ELSE IF Skipped(h, lag, since, i) THEN f[i - 1]
                      ELSE AdvanceTo(h, f[i - 1], h[i].ts - lag)]
<1>1. Scan(h, lag, since) = CHOOSE f : f = F(f)
  BY DEF Scan
<1>2. \E f : f = F(f)
  <2>1. PICK j : Scans(j, h, lag, since, N)
    BY ScanExists
  <2>2. j \in [0..N -> 1..N] /\ j[0] = 1 /\ \A i \in 1..N : j[i] = Move(h, lag, since, j[i - 1], i)
    BY <2>1 DEF Scans
  <2>3. N \in Nat
    BY HistoryIs
  <2>4. ASSUME NEW i \in 0..N PROVE j[i] = F(j)[i]
    <3>1. CASE i = 0
      BY <2>2, <3>1
    <3>2. CASE i # 0
      <4>1. i \in 1..N
        BY <2>3, <3>2
      <4>2. j[i] = Move(h, lag, since, j[i - 1], i)
        BY <2>2, <4>1
      <4> QED
        BY <3>2, <4>2 DEF Move
    <3> QED
      BY <3>1, <3>2
  <2>5. j = F(j)
    BY <2>2, <2>4
  <2> QED
    BY <2>5
<1>3. Scan(h, lag, since) = F(Scan(h, lag, since))
  <2> HIDE DEF F
  <2> QED
    BY <1>1, <1>2
<1>4. N \in Nat \ {0}
  BY HistoryIs
<1> DEFINE j == Scan(h, lag, since)
<1> HIDE DEF j
<1>5. j = F(j)
  BY <1>3 DEF j
<1>6. j[0] = 1
  BY <1>4, <1>5
<1>7. ASSUME NEW i \in 1..N PROVE j[i] = Move(h, lag, since, j[i - 1], i)
  <2>1. i \in 0..N /\ i # 0
    BY <1>4
  <2>2. F(j)[i] = IF Skipped(h, lag, since, i) THEN j[i - 1] ELSE AdvanceTo(h, j[i - 1], h[i].ts - lag)
    BY <2>1
  <2> HIDE DEF F
  <2> QED
    BY <1>5, <2>2 DEF Move
<1> QED
  BY <1>6, <1>7 DEF j

\* After each sample the pointer is not behind it, and all that is before it is too early.
LEMMA PlaceIs ==
    ASSUME NEW h, History(h), NEW lag \in Nat, NEW since, NEW i \in 1..Len(h)
    PROVE  LET p == Scan(h, lag, since)[i]
           IN  /\ p \in 1..i /\ \A m \in 1..(p - 1) : h[m].ts < h[i].ts - lag
               /\ ~Skipped(h, lag, since, i) => h[p].ts >= h[i].ts - lag
<1> DEFINE j == Scan(h, lag, since)
           N == Len(h)
           Behind(n) == n > 0 => j[n] \in 1..n /\ \A m \in 1..(j[n] - 1) : h[m].ts < h[n].ts - lag
           S == {n \in 0..N : Behind(n)}
<1>1. j[0] = 1 /\ \A n \in 1..N : j[n] = Move(h, lag, since, j[n - 1], n)
  BY ScanIs
<1>2. N \in Nat \ {0} /\ \A m \in 1..N : h[m].ts \in Nat
  BY HistoryIs
<1>3. Ordered(h)
  BY DEF History
<1> HIDE DEF j, N
\* From the place of the sample before to that of the next.
<1>4. ASSUME NEW n \in 0..(N - 1), Behind(n)
      PROVE  /\ Behind(n + 1)
             /\ ~Skipped(h, lag, since, n + 1) => h[j[n + 1]].ts >= h[n + 1].ts - lag
  <2>1. n \in Nat /\ n + 1 \in 1..N /\ (n > 0 => n \in 1..N) /\ (n + 1) - 1 = n
    BY <1>2
  <2>2. j[n] \in 1..(n + 1)
    BY <1>1, <1>4, <2>1
  <2>3. j[n + 1] = Move(h, lag, since, j[n], n + 1)
    BY <1>1, <2>1
  <2>4. \A m \in 1..(j[n] - 1) : h[m].ts < h[n + 1].ts - lag
    <3> SUFFICES ASSUME NEW m \in 1..(j[n] - 1) PROVE h[m].ts < h[n + 1].ts - lag
      OBVIOUS
    <3>1. n > 0
      BY <1>1, <2>1, <2>2
    <3>2. h[m].ts < h[n].ts - lag
      BY <1>4, <3>1
    <3>3. n \in 1..Len(h) /\ n + 1 \in 1..Len(h) /\ n < n + 1
      BY <2>1, <3>1 DEF N
    <3>4. h[n].ts < h[n + 1].ts
      BY <1>3, <3>3 DEF Ordered
    <3>5. m \in 1..N
      BY <1>2, <2>1, <2>2
    <3> QED
      BY <1>2, <2>1, <3>1, <3>2, <3>4, <3>5
  <2>5. CASE Skipped(h, lag, since, n + 1)
    <3>1. j[n + 1] = j[n]
      BY <2>3, <2>5 DEF Move
    <3> QED
      BY <2>1, <2>2, <2>4, <2>5, <3>1
  <2>6. CASE ~Skipped(h, lag, since, n + 1)
    <3>1. j[n + 1] = AdvanceTo(h, j[n], h[n + 1].ts - lag)
      BY <2>3, <2>6 DEF Move
    <3>2. n + 1 \in 1..Len(h)
      BY <2>1 DEF N
    <3>3. /\ j[n + 1] \in j[n]..(n + 1) /\ h[j[n + 1]].ts >= h[n + 1].ts - lag
          /\ \A m \in j[n]..(j[n + 1] - 1) : h[m].ts < h[n + 1].ts - lag
      BY <2>2, <3>1, <3>2, AdvanceToIs
    <3>4. ASSUME NEW m \in 1..(j[n + 1] - 1) PROVE h[m].ts < h[n + 1].ts - lag
      <4>1. m \in 1..(j[n] - 1) \/ m \in j[n]..(j[n + 1] - 1)
        BY <2>1, <2>2, <3>3
      <4> QED
        BY <2>4, <3>3, <4>1
    <3>5. j[n + 1] \in 1..(n + 1)
      BY <2>1, <2>2, <3>3
    <3> QED
      BY <3>3, <3>4, <3>5
  <2> QED
    BY <2>5, <2>6
<1>5. 0 \in S
  BY <1>2
<1>6. \A n \in S : n \in 0..(N - 1) => n + 1 \in S
  <2> SUFFICES ASSUME NEW n \in S, n \in 0..(N - 1) PROVE n + 1 \in S
    OBVIOUS
  <2>1. Behind(n) /\ n + 1 \in 0..N
    BY <1>2
  <2>2. Behind(n + 1)
    BY <1>4, <2>1
  <2> QED
    BY <2>1, <2>2
<1> HIDE DEF S
<1>7. 0..N \subseteq S
  BY <1>2, <1>5, <1>6, AllUpTo
<1>8. i - 1 \in 0..(N - 1) /\ (i - 1) + 1 = i /\ i - 1 \in 0..N
  BY <1>2 DEF N
<1>9. Behind(i - 1)
  BY <1>7, <1>8 DEF S
<1>10. /\ Behind((i - 1) + 1)
       /\ ~Skipped(h, lag, since, (i - 1) + 1) => h[j[(i - 1) + 1]].ts >= h[(i - 1) + 1].ts - lag
  BY <1>4, <1>8, <1>9
<1>11. i > 0
  BY <1>2 DEF N
<1> QED
  BY <1>8, <1>10, <1>11 DEF j

-----------------------------------------------------------------------------
(* Pairs *)

LEMMA Distance ==
    ASSUME NEW h, History(h), NEW i \in 1..Len(h), NEW t \in Int
    PROVE  /\ Dist(h, i, t) \in Nat
           /\ h[i].ts >= t => Dist(h, i, t) = h[i].ts - t
           /\ h[i].ts < t => Dist(h, i, t) = t - h[i].ts
<1>1. h[i].ts \in Nat
  BY HistoryIs
<1> QED
  BY <1>1 DEF Dist, Abs

\* Of the place and the sample before it, the nearer one is nearer than any other.
LEMMA NearerIs ==
    ASSUME NEW h, History(h), NEW t \in Int, NEW p \in 1..Len(h), h[p].ts >= t,
           \A m \in 1..(p - 1) : h[m].ts < t
    PROVE  LET best == Nearer(h, p, t)
           IN  /\ best \in 1..Len(h)
               /\ \A i \in 1..Len(h) : i # best =>
                    \/ Dist(h, best, t) < Dist(h, i, t)
                    \/ Dist(h, best, t) = Dist(h, i, t) /\ best > i
<1> DEFINE best == Nearer(h, p, t)
           D(i) == Dist(h, i, t)
<1>1. Len(h) \in Nat \ {0} /\ p \in Nat /\ \A i \in 1..Len(h) : h[i].ts \in Nat
  BY HistoryIs
<1>2. \A i, k \in 1..Len(h) : i < k => h[i].ts < h[k].ts
  BY DEF History, Ordered
<1>3. best = IF p > 1 /\ D(p - 1) < D(p) THEN p - 1 ELSE p
  BY DEF Nearer
<1>4. best \in 1..Len(h) /\ best \in Nat
  <2> HIDE DEF best, D
  <2> QED
    BY <1>1, <1>3
<1>5. \A i \in 1..Len(h) : /\ D(i) \in Nat
                           /\ h[i].ts >= t => D(i) = h[i].ts - t
                           /\ h[i].ts < t => D(i) = t - h[i].ts
  BY Distance
<1> HIDE DEF best, D
<1>6. \A i \in 1..Len(h) : i > p => D(p) < D(i)
  <2> SUFFICES ASSUME NEW i \in 1..Len(h), i > p PROVE D(p) < D(i)
    OBVIOUS
  <2>1. h[p].ts < h[i].ts /\ h[i].ts \in Nat /\ h[p].ts \in Nat
    BY <1>1, <1>2
  <2>2. D(i) = h[i].ts - t /\ D(p) = h[p].ts - t
    BY <1>5, <2>1
  <2> QED
    BY <2>1, <2>2
<1>7. \A i \in 1..Len(h) : i < p - 1 => D(p - 1) < D(i)
  <2> SUFFICES ASSUME NEW i \in 1..Len(h), i < p - 1 PROVE D(p - 1) < D(i)
    OBVIOUS
  <2>1. p - 1 \in 1..Len(h) /\ p - 1 \in 1..(p - 1) /\ i \in 1..(p - 1)
    BY <1>1
  <2>2. h[i].ts < h[p - 1].ts /\ h[i].ts \in Nat /\ h[p - 1].ts \in Nat /\ h[i].ts < t /\ h[p - 1].ts < t
    BY <1>1, <1>2, <2>1
  <2>3. D(i) = t - h[i].ts /\ D(p - 1) = t - h[p - 1].ts
    BY <1>5, <2>1, <2>2
  <2> QED
    BY <2>2, <2>3
<1>8. ASSUME NEW i \in 1..Len(h), i # best
      PROVE  D(best) < D(i) \/ (D(best) = D(i) /\ best > i)
  <2>1. i \in Nat /\ D(i) \in Nat /\ D(p) \in Nat /\ (i > p \/ i = p \/ i = p - 1 \/ i < p - 1)
    BY <1>1, <1>5
  <2>2. CASE p > 1 /\ D(p - 1) < D(p)
    <3>1. best = p - 1 /\ p - 1 \in 1..Len(h)
      BY <1>1, <1>3, <2>2
    <3>2. D(p - 1) \in Nat /\ i # p - 1
      BY <1>5, <1>8, <3>1
    <3>3. D(p - 1) < D(i)
      BY <1>6, <1>7, <2>1, <2>2, <3>2
    <3> QED
      BY <3>1, <3>3
  <2>3. CASE ~(p > 1 /\ D(p - 1) < D(p))
    <3>1. best = p /\ i # p
      BY <1>3, <1>8, <2>3
    <3>2. CASE i > p
      BY <1>6, <3>1, <3>2
    <3>3. CASE i < p
      <4>1. p > 1 /\ p - 1 \in 1..Len(h)
        BY <1>1, <2>1, <3>3
      <4>2. D(p - 1) \in Nat /\ D(p) <= D(p - 1)
        BY <1>5, <2>1, <2>3, <4>1
      <4>3. D(p) <= D(i)
        BY <1>7, <2>1, <3>1, <3>3, <4>2
      <4> QED
        BY <2>1, <3>1, <3>3, <4>3
    <3> QED
      BY <1>1, <2>1, <3>1, <3>2, <3>3
  <2> QED
    BY <2>2, <2>3
<1> QED
  BY <1>4, <1>8 DEF best, D

\* What is nearer than any other is what Lookup finds, if it is near enough.
LEMMA LookupIs ==
    ASSUME NEW h, History(h), NEW t \in Int, NEW tol \in Nat, NEW best \in 1..Len(h),
           \A i \in 1..Len(h) : i # best =>
             \/ Dist(h, best, t) < Dist(h, i, t)
             \/ Dist(h, best, t) = Dist(h, i, t) /\ best > i
    PROVE  Lookup(h, t, tol) = IF Dist(h, best, t) <= tol THEN best ELSE 0
<1> DEFINE D(i) == Dist(h, i, t)
           near == {i \in 1..Len(h) : D(i) <= tol}
           Is(i) == \A k \in near \ {i} : D(i) < D(k) \/ (D(i) = D(k) /\ i > k)
<1>1. DOMAIN h = 1..Len(h) /\ Len(h) \in Nat
  BY HistoryIs
<1>2. \A i \in 1..Len(h) : D(i) \in Nat
  BY Distance
<1>3. Lookup(h, t, tol) = IF near = {} THEN 0 ELSE CHOOSE i \in near : Is(i)
  BY <1>1 DEF Lookup
<1> HIDE DEF D
<1>4. \A i \in 1..Len(h) : i # best => D(best) < D(i) \/ (D(best) = D(i) /\ best > i)
  BY DEF D
<1>5. CASE D(best) <= tol
  <2>1. best \in near /\ Is(best)
    BY <1>4, <1>5
  <2>2. \A i \in near : Is(i) => i = best
    <3> SUFFICES ASSUME NEW i \in near, Is(i), i # best PROVE FALSE
      OBVIOUS
    <3>1. D(i) < D(best) \/ (D(i) = D(best) /\ i > best)
      BY <2>1
    <3>2. D(best) < D(i) \/ (D(best) = D(i) /\ best > i)
      BY <1>4
    <3>3. D(i) \in Nat /\ D(best) \in Nat /\ i \in Nat /\ best \in Nat
      BY <1>2
    <3> QED
      BY <3>1, <3>2, <3>3
  <2> HIDE DEF near, Is
  <2>3. Lookup(h, t, tol) = best
    BY <1>3, <2>1, <2>2
  <2> QED
    BY <1>5, <2>3 DEF D
<1>6. CASE ~(D(best) <= tol)
  <2>1. ASSUME NEW i \in 1..Len(h) PROVE ~(D(i) <= tol)
    <3>1. D(i) \in Nat /\ D(best) \in Nat /\ (i = best \/ D(best) <= D(i))
      BY <1>2, <1>4
    <3> QED
      BY <1>6, <3>1
  <2>2. near = {}
    BY <2>1
  <2> HIDE DEF near
  <2> QED
    BY <1>3, <1>6, <2>2 DEF D
<1> QED
  BY <1>5, <1>6

LEMMA PairsFindNearest ==
    ASSUME NEW h, History(h), NEW lag \in Nat
    PROVE  LET nearest == {<<k, Lookup(h, h[k].ts - lag, LagTolerance(lag))>> :
                             k \in {k \in DOMAIN h : h[k].ts - lag >= h[1].ts}}
           IN  Pairs(h, lag, Never) = {q \in nearest : q[2] # 0}
<1> DEFINE tol == LagTolerance(lag)
           T(k) == h[k].ts - lag
           Best(k) == Nearer(h, Scan(h, lag, Never)[k], T(k))
           L(k) == Lookup(h, T(k), tol)
           K == {k \in DOMAIN h : T(k) >= h[1].ts}
           U == {k \in DOMAIN h : ~Skipped(h, lag, Never, k)}
<1>1. /\ Len(h) \in Nat \ {0} /\ DOMAIN h = 1..Len(h) /\ tol \in Nat
      /\ \A i \in 1..Len(h) : h[i].ts \in Nat /\ T(i) \in Int
  <2>1. tol \in Nat
    BY Tolerable
  <2>2. Len(h) \in Nat \ {0} /\ DOMAIN h = 1..Len(h) /\ \A i \in 1..Len(h) : h[i].ts \in Nat
    BY HistoryIs
  <2> QED
    BY <2>1, <2>2
<1>2. U = K
  <2>1. 1 \in 1..Len(h) /\ h[1].ts \in Nat
    BY <1>1
  <2> QED
    BY <1>1, <2>1 DEF Skipped
<1>3. ASSUME NEW k \in K PROVE Best(k) \in 1..Len(h) /\ L(k) = IF Dist(h, Best(k), T(k)) <= tol THEN Best(k) ELSE 0
  <2>1. k \in 1..Len(h) /\ ~Skipped(h, lag, Never, k) /\ T(k) \in Int
    BY <1>1, <1>2
  <2> DEFINE p == Scan(h, lag, Never)[k]
  <2>2. p \in 1..k /\ h[p].ts >= T(k) /\ \A m \in 1..(p - 1) : h[m].ts < T(k)
    BY <2>1, PlaceIs
  <2>3. p \in 1..Len(h)
    <3> HIDE DEF p
    <3> QED
      BY <1>1, <2>1, <2>2
  <2> HIDE DEF p, T
  <2> DEFINE best == Nearer(h, p, T(k))
  <2>4. /\ best \in 1..Len(h)
        /\ \A i \in 1..Len(h) : i # best =>
             Dist(h, best, T(k)) < Dist(h, i, T(k)) \/ (Dist(h, best, T(k)) = Dist(h, i, T(k)) /\ best > i)
    BY <2>1, <2>2, <2>3, NearerIs
  <2> HIDE DEF best, tol
  <2>5. Lookup(h, T(k), tol) = IF Dist(h, best, T(k)) <= tol THEN best ELSE 0
    BY <1>1, <2>1, <2>4, LookupIs
  <2> QED
    BY <2>4, <2>5 DEF best, p
<1>4. Pairs(h, lag, Never) = {q \in {<<k, Best(k)>> : k \in U} : Dist(h, q[2], T(q[1])) <= tol}
  BY DEF Pairs
<1> HIDE DEF T, Best, L, K, U, tol
<1>5. {q \in {<<k, Best(k)>> : k \in U} : Dist(h, q[2], T(q[1])) <= tol} = {q \in {<<k, L(k)>> : k \in K} : q[2] # 0}
  <2>1. ASSUME NEW k \in K, Dist(h, Best(k), T(k)) <= tol PROVE L(k) = Best(k) /\ L(k) # 0
    BY <1>1, <1>3, <2>1
  <2>2. ASSUME NEW k \in K, L(k) # 0 PROVE L(k) = Best(k) /\ Dist(h, Best(k), T(k)) <= tol
    BY <1>3, <2>2
  <2> QED
    BY <1>2, <2>1, <2>2
<1> QED
  BY <1>4, <1>5 DEF T, L, K, tol

-----------------------------------------------------------------------------
(* Ranks *)

RankIn(S, R, x) == Cardinality({y \in S : y = x \/ <<y, x>> \in R})

\* In a finite set with a total order R, each number up to its size is a rank.
LEMMA RankExists ==
    ASSUME NEW S, IsFiniteSet(S), NEW R,
           \A x \in S, y \in S : x # y => (<<x, y>> \in R <=> ~(<<y, x>> \in R)),
           \A x \in S, y \in S, z \in S : <<x, y>> \in R /\ <<y, z>> \in R => <<x, z>> \in R,
           NEW k \in 1..Cardinality(S)
    PROVE  \E x \in S : RankIn(S, R, x) = k
<1> DEFINE Upto(x) == {y \in S : y = x \/ <<y, x>> \in R}
           n == Cardinality(S)
           f == [x \in S |-> Cardinality(Upto(x))]
<1>1. n \in Nat
  BY FS_CardinalityType
<1>2. ASSUME NEW x \in S PROVE IsFiniteSet(Upto(x)) /\ Cardinality(Upto(x)) \in 1..n
  <2>1. Upto(x) \subseteq S /\ x \in Upto(x)
    OBVIOUS
  <2> HIDE DEF Upto
  <2>2. IsFiniteSet(Upto(x)) /\ Cardinality(Upto(x)) <= n
    BY <2>1, FS_Subset
  <2>3. Cardinality(Upto(x)) \in Nat /\ Cardinality(Upto(x)) # 0
    BY <2>1, <2>2, FS_CardinalityType, FS_EmptySet
  <2> QED
    BY <1>1, <2>2, <2>3
<1>3. ASSUME NEW x \in S, NEW y \in S, x # y, <<x, y>> \in R
      PROVE  Cardinality(Upto(x)) # Cardinality(Upto(y))
  <2>1. ~(<<y, x>> \in R)
    BY <1>3
  <2>2. Upto(x) \subseteq Upto(y) /\ y \in Upto(y) /\ y \notin Upto(x)
    BY <1>3, <2>1
  <2> HIDE DEF Upto
  <2> QED
    BY <1>2, <2>2, FS_Subset
<1>4. f \in [S -> 1..n]
  <2> HIDE DEF Upto
  <2> QED
    BY <1>2
<1>5. f \in Injection(S, 1..n)
  <2>1. ASSUME NEW x \in S, NEW y \in S, x # y PROVE f[x] # f[y]
    <3>1. <<x, y>> \in R \/ <<y, x>> \in R
      BY <2>1
    <3> HIDE DEF Upto
    <3> QED
      BY <1>3, <2>1, <3>1
  <2> HIDE DEF f
  <2> QED
    BY <1>4, <2>1 DEF Injection, IsInjective
<1>6. IsFiniteSet(1..n) /\ Cardinality(1..n) = n
  BY <1>1, FS_Interval
<1> HIDE DEF f
<1>7. f \in Surjection(S, 1..n)
  BY <1>5, <1>6, FS_Injection
<1>8. PICK x \in S : f[x] = k
  BY <1>7 DEF Surjection
<1> QED
  BY <1>8 DEF f, RankIn

\* The sorted sequence has the elements of the given one, and its length.
LEMMA SortedIs ==
    ASSUME NEW s \in Seq(Int)
    PROVE  /\ Sorted(s) \in Seq(Int) /\ Len(Sorted(s)) = Len(s)
           /\ \A i, k \in 1..Len(s) : Sorted(s)[i] \in Int /\ Sorted(s)[k] \in Int
<1> DEFINE N == Len(s)
           D == 1..N
           R == {q \in D \X D : s[q[1]] < s[q[2]] \/ (s[q[1]] = s[q[2]] /\ q[1] < q[2])}
<1>1. N \in Nat /\ DOMAIN s = D /\ \A i \in D : s[i] \in Int
  OBVIOUS
<1>2. IsFiniteSet(D) /\ Cardinality(D) = N
  <2>1. IsFiniteSet(1..N) /\ Cardinality(1..N) = IF 1 > N THEN 0 ELSE N - 1 + 1
    BY <1>1, FS_Interval
  <2> HIDE DEF N
  <2> QED
    BY <1>1, <2>1
<1>3. \A x \in D, y \in D : <<x, y>> \in R <=> (s[x] < s[y] \/ (s[x] = s[y] /\ x < y))
  OBVIOUS
<1>4. \A x \in D : x \in Nat
  BY <1>1
<1> HIDE DEF R, D
<1>5. \A x \in D, y \in D : x # y => (<<x, y>> \in R <=> ~(<<y, x>> \in R))
  BY <1>1, <1>3, <1>4
<1>6. \A x \in D, y \in D, z \in D : <<x, y>> \in R /\ <<y, z>> \in R => <<x, z>> \in R
  BY <1>1, <1>3, <1>4
<1>7. ASSUME NEW k \in D PROVE \E i \in D : Rank(s, i) = k
  <2>1. k \in 1..Cardinality(D)
    BY <1>2 DEF D
  <2>2. PICK i \in D : RankIn(D, R, i) = k
    BY ONLY <1>2, <1>5, <1>6, <2>1, RankExists
  <2>3. {y \in D : y = i \/ <<y, i>> \in R} = {j \in D : s[j] < s[i] \/ (s[j] = s[i] /\ j <= i)}
    <3> SUFFICES ASSUME NEW y \in D
                 PROVE  (y = i \/ <<y, i>> \in R) <=> (s[y] < s[i] \/ (s[y] = s[i] /\ y <= i))
      OBVIOUS
    <3>1. <<y, i>> \in R <=> (s[y] < s[i] \/ (s[y] = s[i] /\ y < i))
      BY <1>3
    <3>2. y \in Nat /\ i \in Nat /\ s[y] \in Int /\ s[i] \in Int
      BY <1>1, <1>4
    <3> QED
      BY <3>1, <3>2
  <2> QED
    BY <1>1, <2>2, <2>3 DEF Rank, RankIn
<1>8. ASSUME NEW k \in D PROVE s[CHOOSE i \in D : Rank(s, i) = k] \in Int
  BY <1>1, <1>7
<1>9. Sorted(s) = [k \in D |-> s[CHOOSE i \in D : Rank(s, i) = k]]
  BY <1>1 DEF Sorted
<1>10. Sorted(s) \in [1..N -> Int]
  BY <1>8, <1>9 DEF D
<1> HIDE DEF N
<1>11. Sorted(s) \in Seq(Int) /\ Len(Sorted(s)) = N /\ \A i \in 1..N : Sorted(s)[i] \in Int
  BY <1>1, <1>10
<1> QED
  BY <1>11 DEF N

-----------------------------------------------------------------------------
(* The statistics *)

LEMMA PairsAre ==
    ASSUME NEW h, History(h), NEW lag \in Nat, NEW since, NEW q \in Pairs(h, lag, since)
    PROVE  /\ q[1] \in 1..Len(h) /\ q[2] \in 1..Len(h) /\ q = <<q[1], q[2]>>
           /\ ~Skipped(h, lag, since, q[1])
           /\ q[2] = Nearer(h, Scan(h, lag, since)[q[1]], h[q[1]].ts - lag)
<1>1. /\ Len(h) \in Nat \ {0} /\ DOMAIN h = 1..Len(h) /\ \A i \in 1..Len(h) : h[i].ts \in Nat
  BY HistoryIs
<1> DEFINE j == Scan(h, lag, since)
<1>2. PICK i \in DOMAIN h : ~Skipped(h, lag, since, i) /\ q = <<i, Nearer(h, j[i], h[i].ts - lag)>>
  BY DEF Pairs
<1>3. i \in 1..Len(h) /\ h[i].ts - lag \in Int
  BY <1>1, <1>2
<1> DEFINE p == j[i]
<1>4. p \in 1..i /\ (\A m \in 1..(p - 1) : h[m].ts < h[i].ts - lag) /\ h[p].ts >= h[i].ts - lag
  BY <1>2, <1>3, PlaceIs
<1> HIDE DEF p
<1>5. p \in 1..Len(h)
  BY <1>1, <1>3, <1>4
<1>6. Nearer(h, p, h[i].ts - lag) \in 1..Len(h)
  BY <1>3, <1>4, <1>5, NearerIs
<1> QED
  BY <1>2, <1>3, <1>6 DEF p

\* There is at most one difference for each sample.
LEMMA DiffsAre ==
    ASSUME NEW h, History(h), NEW lag \in Nat, NEW since, NEW hour
    PROVE  Diffs(h, lag, since, hour) \in Seq(Int) /\ Len(Diffs(h, lag, since, hour)) \in 0..Len(h)
<1> DEFINE in == {p \in Pairs(h, lag, since) : HourOf(h[p[1]].ts) = hour}
           n == Cardinality(in)
           R == {q \in in \X in : q[1][1] < q[2][1]}
           Nth(k) == CHOOSE p \in in : Cardinality({q \in in : q[1] <= p[1]}) = k
           Diff(p) == h[p[1]].v - h[p[2]].v
           f == [p \in in |-> p[1]]
<1>1. Len(h) \in Nat /\ \A i \in 1..Len(h) : h[i].v \in Int
  BY HistoryIs
<1>2. \A p \in in : p[1] \in 1..Len(h) /\ p[2] \in 1..Len(h)
  BY PairsAre
<1>3. \A p \in in, q \in in : p[1] = q[1] => p = q
  <2> SUFFICES ASSUME NEW p \in in, NEW q \in in, p[1] = q[1] PROVE p = q
    OBVIOUS
  <2>1. p = <<p[1], p[2]>> /\ p[2] = Nearer(h, Scan(h, lag, since)[p[1]], h[p[1]].ts - lag)
    BY PairsAre
  <2>2. q = <<q[1], q[2]>> /\ q[2] = Nearer(h, Scan(h, lag, since)[q[1]], h[q[1]].ts - lag)
    BY PairsAre
  <2> QED
    BY <2>1, <2>2
<1>4. \A p \in in, q \in in : <<p, q>> \in R <=> p[1] < q[1]
  OBVIOUS
<1> HIDE DEF in, R
<1>5. f \in Injection(in, 1..Len(h))
  <2>1. f \in [in -> 1..Len(h)] /\ \A p \in in, q \in in : f[p] = f[q] => p = q
    BY <1>2, <1>3
  <2> HIDE DEF f
  <2> QED
    BY <2>1 DEF Injection, IsInjective
<1>6. IsFiniteSet(in) /\ n <= Len(h)
  <2> HIDE DEF f
  <2>1. IsFiniteSet(1..Len(h)) /\ Cardinality(1..Len(h)) = Len(h)
    <3>1. Len(h) \in Nat
      BY <1>1
    <3>2. \A b \in Nat : IsFiniteSet(1..b) /\ Cardinality(1..b) = b
      <4> TAKE b \in Nat
      <4>1. IsFiniteSet(1..b) /\ Cardinality(1..b) = IF 1 > b THEN 0 ELSE b - 1 + 1
        BY FS_Interval
      <4> QED
        BY <4>1
    <3> QED
      BY <3>1, <3>2
  <2> QED
    BY <1>5, <2>1, FS_Injection
<1>7. n \in Nat
  BY <1>6, FS_CardinalityType
<1>8. ASSUME NEW k \in 1..n PROVE Diff(Nth(k)) \in Int
  <2>1. \A p \in in, q \in in : p # q => (<<p, q>> \in R <=> ~(<<q, p>> \in R))
    BY <1>2, <1>3, <1>4
  <2>2. \A p \in in, q \in in, r \in in : <<p, q>> \in R /\ <<q, r>> \in R => <<p, r>> \in R
    BY <1>2, <1>4
  <2>3. PICK p \in in : RankIn(in, R, p) = k
    BY ONLY <1>6, <2>1, <2>2, k \in 1..n, RankExists DEF n
  <2>4. {q \in in : q = p \/ <<q, p>> \in R} = {q \in in : q[1] <= p[1]}
    <3> SUFFICES ASSUME NEW q \in in PROVE (q = p \/ <<q, p>> \in R) <=> q[1] <= p[1]
      OBVIOUS
    <3>1. q[1] \in Nat /\ p[1] \in Nat /\ (<<q, p>> \in R <=> q[1] < p[1]) /\ (q[1] = p[1] => q = p)
      BY <1>1, <1>2, <1>3, <1>4
    <3> QED
      BY <3>1
  <2>5. Nth(k) \in in
    BY <2>3, <2>4 DEF RankIn
  <2> HIDE DEF Nth
  <2> QED
    BY <1>1, <1>2, <2>5
<1>9. Diffs(h, lag, since, hour) = [k \in 1..n |-> Diff(Nth(k))]
  BY DEF Diffs, in
<1> HIDE DEF Diff, Nth, n
<1>10. Diffs(h, lag, since, hour) \in [1..n -> Int]
  BY <1>8, <1>9
<1> QED
  BY <1>1, <1>6, <1>7, <1>10 DEF n

LEMMA ResolutionIs == ASSUME NEW s \in Seq(Int) PROVE Resolution(s) \in Nat \ {0}
<1> DEFINE gaps == {s[i + 1] - s[i] : i \in {i \in 1..(Len(s) - 1) : s[i] < s[i + 1]}}
<1>1. gaps \in SUBSET (Nat \ {0})
  <2> SUFFICES ASSUME NEW i \in 1..(Len(s) - 1), s[i] < s[i + 1] PROVE s[i + 1] - s[i] \in Nat \ {0}
    OBVIOUS
  <2>1. i \in 1..Len(s) /\ i + 1 \in 1..Len(s)
    OBVIOUS
  <2>2. s[i] \in Int /\ s[i + 1] \in Int
    BY <2>1
  <2> QED
    BY <2>2
<1>2. Resolution(s) = IF gaps = {} THEN 1 ELSE CHOOSE g \in gaps : \A h \in gaps : g <= h
  BY DEF Resolution
<1> HIDE DEF gaps
<1>3. CASE gaps = {}
  BY <1>2, <1>3
<1>4. CASE gaps # {}
  <2>1. \E g \in gaps : \A h \in gaps : g <= h
    BY <1>1, <1>4, LeastNat
  <2> QED
    BY <1>1, <1>2, <1>4, <2>1
<1> QED
  BY <1>3, <1>4

LEMMA MedianIs == ASSUME NEW s \in Seq(Int), s # <<>> PROVE Median2(s) \in Int
<1> DEFINE n == Len(s)
<1>1. n \in Nat \ {0} /\ \A i \in 1..n : s[i] \in Int
  OBVIOUS
<1>2. CASE n % 2 = 1
  <2>1. n \div 2 + 1 \in 1..n
    BY <1>1, <1>2
  <2> HIDE DEF n
  <2>2. s[n \div 2 + 1] \in Int
    BY <1>1, <2>1
  <2>3. 2 * s[n \div 2 + 1] \in Int
    BY <2>2
  <2> QED
    BY <1>2, <2>3 DEF Median2, n
<1>3. CASE n % 2 # 1
  <2>1. n \div 2 \in 1..n /\ n \div 2 + 1 \in 1..n
    BY <1>1, <1>3
  <2> HIDE DEF n
  <2>2. s[n \div 2] \in Int /\ s[n \div 2 + 1] \in Int
    BY <1>1, <2>1
  <2> QED
    BY <1>3, <2>2 DEF Median2, n
<1> QED
  BY <1>2, <1>3

\* The quarters and the tenths lie within the sequence.
LEMMA QuantileIs ==
    ASSUME NEW s \in Seq(Int), s # <<>>, NEW q \in {4, 10}, NEW k \in {1, q - 1}
    PROVE  Quantile(s, k, q) \in Int
<1> DEFINE n == Len(s)
           at == k * (n - 1)
           lo == at \div q + 1
<1>1. n \in Nat \ {0} /\ \A i \in 1..n : s[i] \in Int
  OBVIOUS
<1>2. at \in Nat /\ lo \in 1..n /\ (at % q # 0 => lo + 1 \in 1..n)
  <2> HIDE DEF n
  <2>1. CASE q = 4 /\ k = 1
    BY <1>1, <2>1
  <2>2. CASE q = 4 /\ k = 3
    BY <1>1, <2>2
  <2>3. CASE q = 10 /\ k = 1
    BY <1>1, <2>3
  <2>4. CASE q = 10 /\ k = 9
    BY <1>1, <2>4
  <2> QED
    BY <2>1, <2>2, <2>3, <2>4
<1>3. Quantile(s, k, q) = s[lo] * q + (IF at % q = 0 THEN 0 ELSE (s[lo + 1] - s[lo]) * (at % q))
  BY DEF Quantile
<1>4. q \in Nat /\ at % q \in Int
  <2> HIDE DEF at
  <2> QED
    BY <1>2
<1> HIDE DEF at, lo, n
<1>5. s[lo] \in Int /\ (at % q # 0 => s[lo + 1] \in Int)
  BY <1>1, <1>2
<1>6. s[lo] * q \in Int
  BY <1>4, <1>5
<1>7. CASE at % q = 0
  BY <1>3, <1>6, <1>7
<1>8. CASE at % q # 0
  <2>1. (s[lo + 1] - s[lo]) * (at % q) \in Int
    BY <1>4, <1>5, <1>8
  <2> QED
    BY <1>3, <1>6, <1>8, <2>1
<1> QED
  BY <1>7, <1>8

LEMMA SpreadIs ==
    ASSUME NEW s \in Seq(Int), s # <<>>, NEW q \in {4, 10}, NEW m
    PROVE  Spread(s, q, m) \in Int
<1>1. Quantile(s, q - 1, q) \in Int /\ Quantile(s, 1, q) \in Int
  BY QuantileIs
<1> QED
  BY <1>1 DEF Spread

\* The scale is at least the resolution, which is positive.
LEMMA ScaleIs == ASSUME NEW s \in Seq(Int), s # <<>> PROVE RobustScale(s) \in Nat \ {0}
<1> DEFINE centre2 == Median2(s)
           devs == [i \in DOMAIN s |-> Abs(2 * s[i] - centre2)]
           mad == Median2(Sorted(devs))
           a == (14826 * mad) \div 40
           b == (Spread(s, 4, 4) * 250000) \div 1349
           c == (Spread(s, 10, 10) * 100000) \div 2563
           widest == AtLeast(a, AtLeast(b, c))
           floor == Unit * Resolution(s)
           d == (Abs(centre2) * Unit) \div 40
<1>1. centre2 \in Int
  BY MedianIs
<1>2. mad \in Int
  <2> HIDE DEF centre2
  <2>1. devs \in Seq(Int) /\ Len(devs) = Len(s)
    <3>1. \A i \in 1..Len(s) : Abs(2 * s[i] - centre2) \in Int
      BY <1>1 DEF Abs
    <3> QED
      BY <3>1
  <2> HIDE DEF devs
  <2>2. Sorted(devs) \in Seq(Int) /\ Len(Sorted(devs)) = Len(s)
    BY <2>1, SortedIs
  <2>3. Sorted(devs) # <<>>
    BY <2>2
  <2> QED
    BY <2>2, <2>3, MedianIs
<1>3. Spread(s, 4, 4) \in Int /\ Spread(s, 10, 10) \in Int
  BY SpreadIs
<1> HIDE DEF centre2, mad
<1>4. a \in Int /\ b \in Int /\ c \in Int
  BY <1>2, <1>3
<1>5. d \in Int
  BY <1>1 DEF Abs, Unit
<1>6. floor \in Nat \ {0}
  BY ResolutionIs DEF Unit
<1>7. RobustScale(s) = AtLeast(IF widest = 0 THEN d ELSE widest, floor)
  BY DEF RobustScale, centre2, mad
<1> HIDE DEF a, b, c, d, floor
<1>8. widest \in Int
  BY <1>4 DEF AtLeast
<1> HIDE DEF widest
<1> QED
  BY <1>5, <1>6, <1>7, <1>8 DEF AtLeast

\* The table divides by a positive scale, and counts no more differences than samples.
LEMMA SigmaOfIs ==
    ASSUME NEW h, History(h), NEW lag \in Nat, NEW since, NEW hour
    PROVE  SigmaOf(h, lag, since, hour).sigma > 0 /\ SigmaOf(h, lag, since, hour).n \in 0..Len(h)
<1> DEFINE d == Diffs(h, lag, Excluded(h, since), hour)
           s == Sorted(d)
<1>1. d \in Seq(Int) /\ Len(d) \in 0..Len(h)
  BY DiffsAre
<1> HIDE DEF d
<1>2. s \in Seq(Int) /\ Len(s) = Len(d)
  BY <1>1, SortedIs
<1> HIDE DEF s
<1>3. (IF s = <<>> THEN 1 ELSE RobustScale(s)) > 0
  BY <1>2, ScaleIs
<1>4. /\ SigmaOf(h, lag, since, hour).sigma = (IF s = <<>> THEN 1 ELSE RobustScale(s))
      /\ SigmaOf(h, lag, since, hour).n = Len(s)
  BY DEF SigmaOf, s, d
<1> QED
  BY <1>1, <1>2, <1>3, <1>4

-----------------------------------------------------------------------------
(* The history *)

LEMMA SampleIs == ASSUME NEW t \in Nat, NEW f PROVE Sample(t, f) \in Point /\ Sample(t, f).ts = t
<1>1. Len(Noise) \in Nat \ {0} /\ \A i \in 1..Len(Noise) : Noise[i] \in Int
  BY SigmaAssumption
<1>2. (t % Len(Noise)) + 1 \in 1..Len(Noise)
  BY <1>1
<1>3. Noise[(t % Len(Noise)) + 1] \in Int
  BY <1>1, <1>2
<1>4. Noise[(t % Len(Noise)) + 1] + (IF f THEN Jump ELSE 0) \in Int
  BY <1>3, SigmaAssumption
<1> QED
  BY <1>4 DEF Sample, Point

\* A sample that is later than all the others leaves the history in order.
LEMMA AppendIs ==
    ASSUME NEW h, History(h), NEW p \in Point, Last(h).ts < p.ts
    PROVE  History(Append(h, p)) /\ Last(Append(h, p)) = p
<1> DEFINE n == Len(h)
           a == Append(h, p)
<1>1. n \in Nat \ {0} /\ \A i \in 1..n : h[i].ts \in Nat
  BY HistoryIs
<1>2. h \in Seq(Point) /\ Ordered(h) /\ Last(h) = h[n]
  BY DEF History, Last
<1>3. a \in Seq(Point) /\ Len(a) = n + 1 /\ (\A i \in 1..n : a[i] = h[i]) /\ a[n + 1] = p
  BY <1>1, <1>2
<1> HIDE DEF a
<1>4. p.ts \in Nat
  BY DEF Point
<1>5. ASSUME NEW i \in 1..n PROVE h[i].ts < p.ts
  <2>1. i = n \/ i < n
    BY <1>1
  <2>2. n \in 1..n /\ n \in 1..Len(h) /\ i \in 1..Len(h)
    BY <1>1
  <2>3. i < n => h[i].ts < h[n].ts
    BY <1>2, <2>2 DEF Ordered
  <2> QED
    BY <1>1, <1>2, <1>4, <2>1, <2>2, <2>3
<1>6. ASSUME NEW i \in 1..(n + 1), NEW k \in 1..(n + 1), i < k PROVE a[i].ts < a[k].ts
  <2>1. i \in 1..n /\ (k = n + 1 \/ k \in 1..n)
    BY <1>1, <1>6
  <2>2. CASE k = n + 1
    BY <1>3, <1>5, <2>1, <2>2
  <2>3. CASE k \in 1..n
    <3>1. h[i].ts < h[k].ts
      BY <1>2, <1>6, <2>1, <2>3 DEF Ordered
    <3> QED
      BY <1>3, <2>1, <2>3, <3>1
  <2> QED
    BY <2>1, <2>2, <2>3
<1>7. Ordered(a)
  BY <1>3, <1>6 DEF Ordered
<1>8. a # <<>> /\ Last(a) = p
  BY <1>1, <1>3 DEF Last
<1> QED
  BY <1>3, <1>7, <1>8 DEF History, a

\* What is too old is in front.
LEMMA KeptIs ==
    ASSUME NEW h, History(h), NEW t \in Nat
    PROVE  LET k == Kept(h, t)
           IN  /\ k # <<>> => History(k) /\ Last(k) = Last(h) /\ k[1].ts > t - Retain
               /\ Last(h).ts > t - Retain => k # <<>>
<1> DEFINE n == Len(h)
           old == {i \in DOMAIN h : h[i].ts <= t - Retain}
           New == {i \in 1..n : h[i].ts > t - Retain} \cup {n + 1}
           k == Kept(h, t)
<1>1. n \in Nat \ {0} /\ DOMAIN h = 1..n /\ \A i \in 1..n : h[i].ts \in Nat
  BY HistoryIs
<1>2. h \in Seq(Point) /\ Ordered(h) /\ Last(h) = h[n]
  BY DEF History, Last
<1>3. t - Retain \in Int
  BY SigmaAssumption
<1>4. New \in SUBSET Nat /\ New # {}
  BY <1>1
<1> HIDE DEF New
<1>5. PICK m \in New : \A i \in New : m <= i
  BY <1>4, LeastNat
<1>6. m \in 1..(n + 1) /\ (m \in 1..n => h[m].ts > t - Retain)
  BY <1>1, <1>5 DEF New
<1>7. old = 1..(m - 1)
  <2> SUFFICES ASSUME NEW i \in 1..n PROVE h[i].ts <= t - Retain <=> i < m
    BY <1>1, <1>6
  <2>1. i \in Nat /\ m \in Nat /\ h[i].ts \in Nat
    BY <1>1, <1>6
  <2>2. CASE i < m
    <3>1. i \notin New
      BY <1>5, <2>1, <2>2
    <3> QED
      BY <1>3, <2>1, <2>2, <3>1 DEF New
  <2>3. CASE ~(i < m)
    <3>1. m \in 1..n
      BY <1>1, <1>6, <2>1, <2>3
    <3>2. m = i \/ m < i
      BY <2>1, <2>3
    <3>3. m < i => h[m].ts < h[i].ts
      BY <1>2, <3>1 DEF Ordered
    <3>4. h[m].ts \in Nat
      BY <1>1, <3>1
    <3> QED
      BY <1>3, <1>6, <2>1, <2>3, <3>1, <3>2, <3>3, <3>4
  <2> QED
    BY <2>2, <2>3
<1> HIDE DEF old
<1>8. Cardinality(old) = m - 1
  <2>1. m - 1 \in Int /\ m - 1 >= 0
    BY <1>1, <1>6
  <2>2. Cardinality(1..(m - 1)) = IF 1 > m - 1 THEN 0 ELSE (m - 1) - 1 + 1
    BY <2>1, FS_Interval
  <2> QED
    BY <1>7, <2>1, <2>2
<1>9. k = SubSeq(h, m, n)
  <2>1. Cardinality(old) + 1 = m
    BY <1>1, <1>6, <1>8
  <2> QED
    BY <2>1 DEF Kept, old
<1> HIDE DEF k, n
<1>10. k \in Seq(Point) /\ Len(k) = (n - m) + 1 /\ \A i \in 1..((n - m) + 1) : k[i] = h[(m + i) - 1]
  BY <1>1, <1>2, <1>6, <1>9 DEF n
<1>11. ASSUME k # <<>> PROVE History(k) /\ Last(k) = Last(h) /\ k[1].ts > t - Retain
  <2>1. m \in 1..n
    <3>1. Len(k) \in Nat /\ Len(k) # 0
      BY <1>10, <1>11
    <3> QED
      BY <1>1, <1>6, <1>10, <3>1
  <2>2. Len(k) \in Nat \ {0} /\ Len(k) \in 1..Len(k) /\ (m + Len(k)) - 1 = n /\ (m + 1) - 1 = m /\ 1 \in 1..Len(k)
    <3>1. n \in Nat /\ m \in Nat /\ m <= n /\ Len(k) = (n - m) + 1
      BY <1>1, <1>10, <2>1
    <3>2. Len(k) \in Nat \ {0}
      BY <3>1
    <3> QED
      BY <3>1, <3>2
  <2>3. Last(k) = h[n] /\ k[1] = h[m]
    BY <1>10, <2>2 DEF Last
  <2>4. ASSUME NEW i \in 1..Len(k), NEW j \in 1..Len(k), i < j PROVE k[i].ts < k[j].ts
    <3>1. (m + i) - 1 \in 1..n /\ (m + j) - 1 \in 1..n /\ (m + i) - 1 < (m + j) - 1
      BY <1>1, <1>10, <2>1, <2>2, <2>4
    <3>2. h[(m + i) - 1].ts < h[(m + j) - 1].ts
      BY <1>2, <3>1 DEF Ordered, n
    <3> QED
      BY <1>10, <3>2
  <2>5. Ordered(k)
    BY <2>4 DEF Ordered
  <2> QED
    BY <1>2, <1>6, <1>10, <1>11, <2>1, <2>3, <2>5 DEF History, n
<1>12. ASSUME Last(h).ts > t - Retain PROVE k # <<>>
  <2>1. n \in New
    <3>1. n \in 1..n /\ h[n].ts > t - Retain
      BY <1>1, <1>2, <1>12
    <3> QED
      BY <3>1 DEF New
  <2>2. m <= n /\ m \in Nat
    BY <1>4, <1>5, <2>1
  <2>3. Len(k) > 0
    BY <1>1, <1>10, <2>2
  <2> QED
    BY <2>3
<1> QED
  BY <1>11, <1>12 DEF k

-----------------------------------------------------------------------------
(* The invariant *)

\* The samples are in order and within the retention.
HistoryInv ==
    /\ now \in Nat /\ fault \in BOOLEAN /\ restarts \in Nat
    /\ History(hist) /\ Last(hist).ts <= now /\ hist[1].ts > now - Retain
\* A mark is as old as it was made: at least Backdate before now.
MarkInv ==
    /\ alarm \in BOOLEAN /\ frozen \in {Never} \cup 0..now
    /\ frozen # Never => alarm /\ frozen <= AtLeast(now - Backdate, 0)
TableInv == \A i \in LagIdx : sigma[i].sigma > 0 /\ sigma[i].n \in 0..Len(hist)
\* Since a fault has been seen it is marked, from Backdate before that.
SeenInv ==
    /\ began \in {Never} \cup Nat
    /\ seen # Never => /\ seen \in 0..now /\ frozen # Never
                       /\ frozen <= AtLeast(seen - Backdate, 0)
IInv == HistoryInv /\ MarkInv /\ TableInv /\ SeenInv

LEMMA LagIs == \A i \in LagIdx : Lags[i] \in Nat \ {0}
<1>1. Lags \in Seq(Nat \ {0})
  BY DeviationAssumption
<1> QED
  BY <1>1 DEF LagIdx

LEMMA TableIs ==
    ASSUME NEW h, History(h), NEW since, NEW hour
    PROVE  \A i \in LagIdx : /\ Refreshed(h, since, hour)[i].sigma > 0
                             /\ Refreshed(h, since, hour)[i].n \in 0..Len(h)
<1> SUFFICES ASSUME NEW i \in LagIdx
             PROVE  /\ Refreshed(h, since, hour)[i].sigma > 0
                    /\ Refreshed(h, since, hour)[i].n \in 0..Len(h)
  OBVIOUS
<1>1. Lags[i] \in Nat
  BY LagIs
<1>2. SigmaOf(h, Lags[i], since, hour).sigma > 0 /\ SigmaOf(h, Lags[i], since, hour).n \in 0..Len(h)
  BY <1>1, SigmaOfIs
<1>3. Refreshed(h, since, hour)[i] = SigmaOf(h, Lags[i], since, hour)
  BY DEF Refreshed
<1> QED
  BY <1>2, <1>3

LEMMA MarksGrow ==
    ASSUME NEW x \in Nat, NEW y \in Nat, x <= y
    PROVE  /\ AtLeast(x - Backdate, 0) \in 0..x
           /\ AtLeast(x - Backdate, 0) <= AtLeast(y - Backdate, 0)
BY SigmaAssumption DEF AtLeast

LEMMA InitHolds == HInit => IInv
<1> SUFFICES ASSUME HInit PROVE IInv
  OBVIOUS
<1>1. /\ now = 0 /\ fault = FALSE /\ hist = <<Sample(0, FALSE)>> /\ frozen = Never
      /\ sigma = Refreshed(hist, Never, HourOf(1)) /\ alarm = FALSE /\ began = Never /\ seen = Never
      /\ restarts = 0
  BY DEF HInit, Init
<1> DEFINE p == Sample(0, FALSE)
<1>2. p \in Point /\ p.ts = 0
  BY SampleIs
<1> HIDE DEF p
<1>3. hist = <<p>> /\ hist \in Seq(Point) /\ Len(hist) = 1 /\ hist[1] = p
  <2>1. hist = <<p>>
    BY <1>1 DEF p
  <2> QED
    BY <1>2, <2>1
<1>4. History(hist)
  BY <1>3 DEF History, Ordered
<1>5. HistoryInv
  <2>1. Last(hist) = p
    BY <1>3 DEF Last
  <2>2. Retain \in Nat \ {0}
    BY SigmaAssumption
  <2>3. Last(hist).ts <= now /\ hist[1].ts > now - Retain
    <3>1. Last(hist).ts = 0 /\ hist[1].ts = 0
      BY <1>2, <1>3, <2>1
    <3>2. now = 0
      BY <1>1
    <3>3. 0 <= 0 /\ 0 > 0 - Retain
      BY <2>2
    <3> QED
      BY <3>1, <3>2, <3>3
  <2> QED
    BY <1>1, <1>4, <2>3 DEF HistoryInv
<1>6. TableInv
  BY <1>1, <1>4, TableIs DEF TableInv
<1> QED
  BY <1>1, <1>5, <1>6 DEF IInv, MarkInv, SeenInv

\* A round of sigmaLoop adds a sample, and computes the table from what is kept.
LEMMA TickHistory == IInv /\ Tick => HistoryInv' /\ TableInv'
<1> SUFFICES ASSUME IInv, Tick PROVE HistoryInv' /\ TableInv'
  OBVIOUS
<1> DEFINE p == Sample(now + 1, fault)
           h == Append(hist, p)
<1>1. now \in Nat /\ fault \in BOOLEAN /\ restarts \in Nat /\ History(hist) /\ Last(hist).ts <= now
  BY DEF IInv, HistoryInv
<1>2. now' = now + 1 /\ hist' = Kept(h, now + 1) /\ fault' = fault /\ restarts' = restarts
      /\ sigma' = Refreshed(hist', frozen', HourOf(now' + 1))
  BY DEF Tick
<1>3. p \in Point /\ p.ts = now + 1
  BY <1>1, SampleIs
<1>4. Last(hist).ts \in Nat
  BY <1>1, HistoryIs DEF Last
<1>5. Last(hist).ts < p.ts
  BY <1>1, <1>3, <1>4
<1> HIDE DEF p
<1>6. History(h) /\ Last(h) = p
  BY <1>1, <1>3, <1>5, AppendIs
<1> HIDE DEF h
<1> DEFINE k == Kept(h, now + 1)
<1>7. /\ k # <<>> => History(k) /\ Last(k) = Last(h) /\ k[1].ts > (now + 1) - Retain
      /\ Last(h).ts > (now + 1) - Retain => k # <<>>
  BY <1>1, <1>6, KeptIs
<1> HIDE DEF k
<1>8. Last(h).ts > (now + 1) - Retain
  BY <1>1, <1>3, <1>6, SigmaAssumption
<1>9. hist' = k
  BY <1>2 DEF k
<1>10. History(hist') /\ Last(hist').ts = now' /\ hist'[1].ts > now' - Retain
  BY <1>2, <1>3, <1>6, <1>7, <1>8, <1>9
<1>11. HistoryInv'
  BY <1>1, <1>2, <1>10 DEF HistoryInv
<1>12. \A i \in LagIdx : sigma'[i].sigma > 0 /\ sigma'[i].n \in 0..Len(hist')
  BY <1>2, <1>10, TableIs
<1> QED
  BY <1>11, <1>12 DEF TableInv, LagIdx

LEMMA TickMarks ==
    IInv /\ Tick =>
      /\ MarkInv' /\ alarm' \in BOOLEAN /\ now' = now + 1 /\ now \in Nat
      /\ frozen # Never /\ alarm' => frozen' = frozen
      /\ frozen = Never /\ alarm' => frozen' = AtLeast(now' - Backdate, 0)
      /\ alarm' => frozen' # Never
<1> SUFFICES ASSUME IInv, Tick
             PROVE  /\ MarkInv' /\ alarm' \in BOOLEAN /\ now' = now + 1 /\ now \in Nat
                    /\ frozen # Never /\ alarm' => frozen' = frozen
                    /\ frozen = Never /\ alarm' => frozen' = AtLeast(now' - Backdate, 0)
                    /\ alarm' => frozen' # Never
  OBVIOUS
<1>1. now \in Nat /\ frozen \in {Never} \cup 0..now /\ (frozen # Never => frozen <= AtLeast(now - Backdate, 0))
  BY DEF IInv, HistoryInv, MarkInv
<1>2. now' = now + 1 /\ frozen' = Marked(alarm', now')
  BY DEF Tick
<1>3. alarm' \in BOOLEAN
  BY DEF Tick
<1>4. /\ AtLeast(now - Backdate, 0) <= AtLeast(now' - Backdate, 0)
      /\ AtLeast(now - Backdate, 0) \in 0..now /\ AtLeast(now' - Backdate, 0) \in 0..now'
  BY <1>1, <1>2, MarksGrow
<1>5. CASE alarm'
  <2>1. frozen' = IF frozen # Never THEN frozen ELSE AtLeast(now' - Backdate, 0)
    BY <1>2, <1>5 DEF Marked
  <2>2. CASE frozen # Never
    <3>1. frozen' = frozen /\ frozen \in 0..now
      BY <1>1, <2>1, <2>2
    <3>2. frozen' \in 0..now' /\ frozen' <= AtLeast(now' - Backdate, 0) /\ frozen' # Never
      BY <1>1, <1>2, <1>4, <2>2, <3>1
    <3>3. MarkInv'
      BY <1>3, <1>5, <3>2 DEF MarkInv
    <3> QED
      BY <1>1, <1>2, <1>3, <2>2, <3>1, <3>2, <3>3
  <2>3. CASE frozen = Never
    <3>1. frozen' = AtLeast(now' - Backdate, 0) /\ frozen' # Never
      BY <1>1, <1>2, <1>4, <2>1, <2>3 DEF Never
    <3>2. frozen' \in 0..now' /\ frozen' <= AtLeast(now' - Backdate, 0)
      BY <1>4, <3>1
    <3>3. MarkInv'
      BY <1>3, <1>5, <3>2 DEF MarkInv
    <3> QED
      BY <1>1, <1>2, <1>3, <2>3, <3>1, <3>3
  <2> QED
    BY <2>2, <2>3
<1>6. CASE ~alarm'
  <2>1. frozen' = Never
    BY <1>2, <1>6 DEF Marked
  <2> QED
    BY <1>1, <1>2, <1>3, <1>6, <2>1 DEF MarkInv
<1> QED
  BY <1>5, <1>6

\* A restart keeps what is not too old, and forgets the marks.
LEMMA RestartHolds == IInv /\ Restart => HistoryInv' /\ MarkInv' /\ TableInv' /\ now' \in Nat
<1> SUFFICES ASSUME IInv, Restart PROVE HistoryInv' /\ MarkInv' /\ TableInv' /\ now' \in Nat
  OBVIOUS
<1>1. now \in Nat /\ fault \in BOOLEAN /\ restarts \in Nat /\ History(hist) /\ Last(hist).ts <= now /\ alarm \in BOOLEAN
  BY DEF IInv, HistoryInv, MarkInv
<1>2. PICK gap \in 0..MaxGap : now' = now + gap /\ hist' = Kept(hist, now') /\ hist' # <<>>
  BY DEF Restart
<1>3. frozen' = Never /\ sigma' = Refreshed(hist', Never, HourOf(now' + 1)) /\ fault' = fault /\ alarm' = alarm
      /\ restarts' = restarts + 1
  BY DEF Restart
<1>4. now' \in Nat /\ now <= now'
  BY <1>1, <1>2, SigmaAssumption
<1>5. History(hist') /\ Last(hist') = Last(hist) /\ hist'[1].ts > now' - Retain
  BY <1>1, <1>2, <1>4, KeptIs
<1>6. Last(hist).ts \in Nat
  BY <1>1, HistoryIs DEF Last
<1>7. HistoryInv'
  BY <1>1, <1>3, <1>4, <1>5, <1>6 DEF HistoryInv
<1>8. \A i \in LagIdx : sigma'[i].sigma > 0 /\ sigma'[i].n \in 0..Len(hist')
  BY <1>3, <1>5, TableIs
<1> QED
  BY <1>1, <1>3, <1>4, <1>7, <1>8 DEF MarkInv, TableInv, LagIdx

LEMMA IInvStep == IInv /\ [HNext]_hvars => IInv'
<1> SUFFICES ASSUME IInv, [HNext]_hvars PROVE IInv'
  OBVIOUS
<1>1. began' \in {Never} \cup Nat
  <2>1. now \in Nat /\ began \in {Never} \cup Nat
    BY DEF IInv, HistoryInv, SeenInv
  <2>2. began' = began \/ began' = Never \/ began' = now + 1
    BY DEF HNext, hvars
  <2> QED
    BY <2>1, <2>2
<1>2. CASE HNext /\ Tick
  <2>1. HistoryInv' /\ TableInv' /\ MarkInv'
    BY <1>2, TickHistory, TickMarks
  <2>2. /\ alarm' \in BOOLEAN /\ now' = now + 1 /\ now \in Nat
        /\ frozen # Never /\ alarm' => frozen' = frozen
        /\ frozen = Never /\ alarm' => frozen' = AtLeast(now' - Backdate, 0)
        /\ alarm' => frozen' # Never
    BY <1>2, TickMarks
  <2>3. now' # now
    BY <2>2
  <2>4. seen' = Never \/ (alarm' /\ seen' = IF seen = Never THEN now' ELSE seen)
    BY <1>2, <2>2, <2>3 DEF HNext
  <2>5. frozen \in {Never} \cup 0..now /\ (frozen # Never => frozen <= AtLeast(now - Backdate, 0))
    BY DEF IInv, MarkInv
  <2>6. seen # Never => seen \in 0..now /\ frozen # Never /\ frozen <= AtLeast(seen - Backdate, 0)
    BY DEF IInv, SeenInv
  <2>7. ASSUME seen' # Never
        PROVE  seen' \in 0..now' /\ frozen' # Never /\ frozen' <= AtLeast(seen' - Backdate, 0)
    <3>1. alarm' /\ seen' = IF seen = Never THEN now' ELSE seen
      BY <2>4, <2>7
    <3>2. CASE seen # Never
      BY <2>2, <2>6, <3>1, <3>2
    <3>3. CASE seen = Never
      <4>1. seen' = now' /\ now' \in Nat
        BY <2>2, <3>1, <3>3
      <4>2. AtLeast(now - Backdate, 0) <= AtLeast(now' - Backdate, 0) /\ AtLeast(now' - Backdate, 0) \in 0..now'
        BY <2>2, <4>1, MarksGrow
      <4>3. AtLeast(now - Backdate, 0) \in 0..now
        BY <2>2, MarksGrow
      <4>4. frozen' <= AtLeast(now' - Backdate, 0)
        BY <2>2, <2>5, <3>1, <4>2, <4>3
      <4>5. seen' \in 0..now'
        BY <4>1
      <4>6. frozen' # Never
        BY <2>2, <3>1
      <4> QED
        BY <4>1, <4>4, <4>5, <4>6
    <3> QED
      BY <3>2, <3>3
  <2> QED
    BY <1>1, <2>1, <2>7 DEF IInv, SeenInv
<1>3. CASE HNext /\ Restart
  <2>1. HistoryInv' /\ MarkInv' /\ TableInv'
    BY <1>3, RestartHolds
  <2>3. seen' = Never
    <3>1. restarts \in Nat /\ restarts' = restarts + 1
      BY <1>3 DEF IInv, HistoryInv, Restart
    <3>2. restarts' # restarts
      BY <3>1
    <3> QED
      BY <1>3, <3>2 DEF HNext
  <2> QED
    BY <1>1, <2>1, <2>3 DEF IInv, SeenInv
<1>4. CASE HNext /\ FaultChanges
  <2>1. UNCHANGED <<now, hist, frozen, sigma, alarm, restarts>> /\ fault' = ~fault
    BY <1>4 DEF FaultChanges
  <2>2. seen' = Never \/ seen' = seen
    BY <1>4, <2>1 DEF HNext
  <2> QED
    BY <1>1, <2>1, <2>2 DEF IInv, HistoryInv, MarkInv, TableInv, SeenInv, LagIdx
<1>5. CASE UNCHANGED hvars
  BY <1>5 DEF IInv, HistoryInv, MarkInv, TableInv, SeenInv, LagIdx, hvars, vars
<1> QED
  BY <1>2, <1>3, <1>4, <1>5 DEF HNext, Next

\* What the invariant says, in the words of the properties.
LEMMA TypeHolds == IInv => TypeOK
<1> SUFFICES ASSUME IInv PROVE TypeOK
  OBVIOUS
<1>1. History(hist) /\ hist # <<>> /\ Ordered(hist)
  BY DEF IInv, HistoryInv, History
<1>2. Len(hist) \in Nat /\ \A i \in 2..Len(hist) : i - 1 \in 1..Len(hist) /\ i \in 1..Len(hist) /\ i - 1 < i
  BY <1>1, HistoryIs
<1>3. \A i \in 2..Len(hist) : hist[i - 1].ts < hist[i].ts
  BY <1>1, <1>2 DEF Ordered
<1> QED
  BY <1>1, <1>3 DEF IInv, HistoryInv, MarkInv, TableInv, TypeOK

LEMMA PairsHold == IInv => PairsAreNearest
<1> SUFFICES ASSUME IInv, NEW i \in LagIdx
             PROVE  LET lag == Lags[i]
                        nearest == {<<k, Lookup(hist, hist[k].ts - lag, LagTolerance(lag))>> :
                                     k \in {k \in DOMAIN hist : hist[k].ts - lag >= hist[1].ts}}
                    IN  Pairs(hist, lag, Never) = {q \in nearest : q[2] # 0}
  BY DEF PairsAreNearest
<1>1. History(hist) /\ Lags[i] \in Nat
  BY LagIs DEF IInv, HistoryInv
<1> QED
  BY <1>1, PairsFindNearest

LEMMA BaselineHolds == IInv => BaselineBeforeFault
<1> SUFFICES ASSUME IInv, InTime, Excluded(hist, frozen) = frozen,
                    NEW i \in LagIdx, NEW q \in Pairs(hist, Lags[i], frozen)
             PROVE  hist[q[1]].ts < began
  BY TypeHolds DEF BaselineBeforeFault
<1>1. History(hist) /\ Lags[i] \in Nat
  BY LagIs DEF IInv, HistoryInv
<1>2. q[1] \in 1..Len(hist) /\ ~Skipped(hist, Lags[i], frozen, q[1])
  BY <1>1, PairsAre
<1>3. began \in Nat /\ seen \in Nat /\ seen - began < Backdate
      /\ frozen # Never /\ frozen <= AtLeast(seen - Backdate, 0) /\ frozen \in Nat
  BY DEF IInv, SeenInv, HistoryInv, MarkInv, InTime
<1>4. ~(hist[q[1]].ts >= frozen) /\ hist[q[1]].ts \in Nat
  BY <1>1, <1>2, <1>3, HistoryIs DEF Skipped
<1>5. frozen <= began
  BY <1>3, SigmaAssumption DEF AtLeast
<1> QED
  BY <1>3, <1>4, <1>5

LEMMA IInvHolds == HSpec => []IInv
BY InitHolds, IInvStep, PTL DEF HSpec

\* deviation.go:140: over any history that a machine with gaps and restarts leaves, the scan
\* for sigma pairs each sample with the one that Z looks up.
THEOREM ScanFindsNearest == HSpec => []PairsAreNearest
BY IInvHolds, PairsHold, PTL

\* heatmap.go:36: for any fault, noise, lags and retention, sigma is that of the history
\* before the fault as long as that is reported in time and is not the new normal.
THEOREM FaultStaysOut == HSpec => []BaselineBeforeFault
BY IInvHolds, BaselineHolds, PTL
-----------------------------------------------------------------------------
(* The checks of one look at a machine, whatever the kernel says: each has a    *)
(* level, and an id that some row takes.                                        *)

Letters == {"T", "C", "M", "D", "N", "F", "S", "E"}
Levels == 0..2
IsId(id) == id[1] \in Letters
IsCheck(c) == IsId(c.id) /\ c.level \in Levels

LEMMA LevelsAre == 0 \in Levels /\ 1 \in Levels /\ 2 \in Levels
BY DEF Levels

LEMMA Lettered ==
    ASSUME NEW n
    PROVE  /\ IsId(<<"T", n>>) /\ IsId(<<"C", n>>) /\ IsId(<<"M", n>>) /\ IsId(<<"D", n>>)
           /\ IsId(<<"N", n>>) /\ IsId(<<"F", n>>) /\ IsId(<<"S", n>>) /\ IsId(<<"E", n>>)
BY DEF Letters, IsId

LEMMA GradeIs ==
    ASSUME NEW v, NEW warn, NEW fail
    PROVE  Grade(v, warn, fail) \in Levels
BY DEF Grade, Levels

LEMMA FoundIs ==
    ASSUME NEW id, IsId(id), NEW read, NEW level, level \in Levels
    PROVE  IsCheck(Found(id, read, level))
BY DEF Found, IsCheck, Levels

LEMMA JudgedIs ==
    ASSUME NEW id, IsId(id), NEW read, NEW v, NEW warn, NEW fail
    PROVE  IsCheck(Judged(id, read, v, warn, fail))
<1>1. (IF read THEN Grade(v, warn, fail) ELSE 0) \in Levels
  BY GradeIs, LevelsAre
<1> QED
  BY <1>1, FoundIs DEF Judged

LEMMA PercentIs ==
    ASSUME NEW id, IsId(id), NEW read, NEW v, NEW warn, NEW fail
    PROVE  IsCheck(Percent(id, read, v, warn, fail))
BY JudgedIs DEF Percent

LEMMA ShareIs ==
    ASSUME NEW id, IsId(id), NEW read, NEW a, NEW b, NEW warn, NEW fail
    PROVE  IsCheck(Share(id, read, a, b, warn, fail))
BY PercentIs DEF Share

LEMMA GrownIs ==
    ASSUME NEW id, IsId(id), NEW c, NEW growth, growth \in Levels, NEW history, history \in Levels
    PROVE  IsCheck(Grown(id, c, growth, history))
<1>1. (IF c.cur > c.base THEN growth ELSE IF c.cur > 0 THEN history ELSE 0) \in Levels
  BY LevelsAre
<1> QED
  BY <1>1, FoundIs DEF Grown

LEMMA TimeIs == ASSUME NEW k, NEW c \in TimeChecks(k) PROVE IsCheck(c)
<1> DEFINE l1 == IF k.year < 2020 \/ k.year > 2050 THEN 2 ELSE 0
           l2 == IF k.uptime < 600 THEN 1 ELSE 0
           l3 == IF k.clock \in {"jiffies", "acpi_pm"} THEN 1 ELSE 0
<1>1. l1 \in Levels /\ l2 \in Levels /\ l3 \in Levels
  BY LevelsAre
<1>2. c \in {Found(<<"T", "01">>, TRUE, l1), Found(<<"T", "02">>, k.uptime # Missing, l2),
             Found(<<"T", "03">>, k.clock # "", l3)}
  BY Zenon DEF TimeChecks
<1> HIDE DEF l1, l2, l3
<1> QED
  BY <1>1, <1>2, FoundIs, Lettered, Zenon

LEMMA CPUIs == ASSUME NEW k, NEW c \in CPUChecks(k) PROVE IsCheck(c)
<1> DEFINE l == IF k.cores = 0 THEN 2 ELSE 0
           Part(n, i, warn, fail) ==
             Percent(<<"C", n>>, ShareKnown(k.cpu1, k.cpu2), CpuShare(k.cpu1, k.cpu2, i), warn, fail)
<1>1. l \in Levels
  BY LevelsAre
<1>2. c \in { Found(<<"C", "01">>, TRUE, l),
              Judged(<<"C", "02">>, k.load # Missing /\ k.cores > 0, k.load \div k.cores, 2, 4),
              Part("03", 8, 5, 15), Part("04", 5, 20, 40), Part("05", 7, 15, 30), Part("06", 3, 30, 60),
              Judged(<<"C", "07">>, k.psiCpu # Missing, k.psiCpu, 20, 50) }
  BY Zenon DEF CPUChecks
<1>3. \A n, i, warn, fail : IsCheck(Part(n, i, warn, fail))
  BY PercentIs, Lettered, Zenon
<1> HIDE DEF l, Part
<1>4. IsCheck(Found(<<"C", "01">>, TRUE, l))
  BY <1>1, FoundIs, Lettered, Zenon
<1>5. IsCheck(Judged(<<"C", "02">>, k.load # Missing /\ k.cores > 0, k.load \div k.cores, 2, 4))
  BY JudgedIs, Lettered, Zenon
<1>6. IsCheck(Judged(<<"C", "07">>, k.psiCpu # Missing, k.psiCpu, 20, 50))
  BY JudgedIs, Lettered, Zenon
<1> QED
  BY <1>2, <1>3, <1>4, <1>5, <1>6, ZenonT(60)

LEMMA MemoryIs == ASSUME NEW k, NEW c \in MemoryChecks(k) PROVE IsCheck(c)
BY FoundIs, JudgedIs, ShareIs, GrownIs, Lettered, LevelsAre, ZenonT(60) DEF MemoryChecks

LEMMA DiskIs == ASSUME NEW k, NEW c \in DiskIOChecks(k) PROVE IsCheck(c)
<1> DEFINE some == k.disks1 # <<>>
           both == DOMAIN k.disks1 \cap DOMAIN k.disks2
           waits == Max({0} \union {Await(k.disks1[d], k.disks2[d]) : d \in both})
           flying == Max({0} \union {k.disks1[d].inflight : d \in DOMAIN k.disks1})
           locked == IF \E m \in k.mounts : m.real /\ m.ro THEN 2 ELSE 0
           d1 == Percent(<<"D", "01">>, k.root.read, Space(k.root), 85, 95)
           d2 == Share(<<"D", "02">>, k.root.read, k.root.files - k.root.filesFree, k.root.files, 85, 95)
           d3 == Found(<<"D", "03">>, TRUE, locked)
           d4 == Judged(<<"D", "04">>, k.psiIo # Missing, k.psiIo, 20, 50)
           d5 == Found(<<"D", "05">>, some, 0)
           d6 == Judged(<<"D", "06">>, some, flying, 64, 256)
           d7 == Judged(<<"D", "07">>, some, waits, 50, 200)
           d8 == Judged(<<"D", "08">>, k.blocked # Missing, k.blocked, 4, 16)
<1>1. c \in {d1, d2, d3, d4, d5, d6, d7, d8}
  BY Zenon DEF DiskIOChecks
<1>2. locked \in Levels
  BY LevelsAre
<1> HIDE DEF some, waits, flying, locked
<1>3. IsCheck(d1)
  BY PercentIs, Lettered, Zenon
<1>4. IsCheck(d2)
  BY ShareIs, Lettered, Zenon
<1>5. IsCheck(d3)
  BY <1>2, FoundIs, Lettered, Zenon
<1>6. IsCheck(d4)
  BY JudgedIs, Lettered, Zenon
<1>7. IsCheck(d5)
  BY FoundIs, Lettered, LevelsAre, Zenon
<1>8. IsCheck(d6)
  BY JudgedIs, Lettered, Zenon
<1>9. IsCheck(d7)
  BY JudgedIs, Lettered, Zenon
<1>10. IsCheck(d8)
  BY JudgedIs, Lettered, Zenon
<1> HIDE DEF d1, d2, d3, d4, d5, d6, d7, d8
<1> QED
  BY <1>1, <1>3, <1>4, <1>5, <1>6, <1>7, <1>8, <1>9, <1>10

LEMMA FilesystemIs == ASSUME NEW k, NEW c \in FilesystemChecks(k) PROVE IsCheck(c)
<1> DEFINE others == {m \in k.mounts : m.real /\ ~m.isRoot /\ m.fs.read}
           fullest == Max({0} \union {Space(m.fs) : m \in others})
           l1 == IF k.writable THEN 0 ELSE 2
           l3 == IF k.filesMax > HugeMax THEN 0 ELSE Grade(Pct(k.files, k.filesMax), 1000 * 70, 1000 * 90)
           f1 == Found(<<"F", "01">>, TRUE, l1)
           f2 == Percent(<<"F", "02">>, TRUE, fullest, 85, 95)
           f3 == Found(<<"F", "03">>, k.files # Missing, l3)
<1>1. c \in {f1, f2, f3}
  BY Zenon DEF FilesystemChecks
<1>2. l1 \in Levels /\ l3 \in Levels
  BY LevelsAre, GradeIs
<1> HIDE DEF fullest, l1, l3
<1>3. IsCheck(f1)
  BY <1>2, FoundIs, Lettered, Zenon
<1>4. IsCheck(f2)
  BY PercentIs, Lettered, Zenon
<1>5. IsCheck(f3)
  BY <1>2, FoundIs, Lettered, Zenon
<1> HIDE DEF f1, f2, f3
<1> QED
  BY <1>1, <1>3, <1>4, <1>5

LEMMA NetworkIs == ASSUME NEW k, NEW c \in NetworkChecks(k) PROVE IsCheck(c)
<1> DEFINE l1 == IF k.nics \intersect {"up", "unknown"} = {} THEN 2 ELSE 0
           l2 == IF k.softnet > 0 THEN 2 ELSE 0
<1>1. l1 \in Levels /\ l2 \in Levels
  BY LevelsAre
<1>2. c \in { Found(<<"N", "01">>, TRUE, l1),
              Found(<<"N", "02">>, k.softnet # Missing, l2),
              Judged(<<"N", "03">>, k.tx.packets >= MinPkts, Pct(k.tx.lost, k.tx.packets), 10, 100),
              Share(<<"N", "04">>, k.tcp.out > 0, k.tcp.retrans, k.tcp.out, 1, 5),
              Grown(<<"N", "05">>, k.listen, 1, 0),
              Share(<<"N", "06">>, k.arp # Missing /\ k.arpMax > 0, k.arp, k.arpMax, 70, 90) }
  BY Zenon DEF NetworkChecks
<1> HIDE DEF l1, l2
<1> QED
  BY <1>1, <1>2, FoundIs, JudgedIs, ShareIs, GrownIs, Lettered, LevelsAre, ZenonT(60)

LEMMA ConntrackIs == ASSUME NEW k, NEW c \in ConntrackChecks(k) PROVE IsCheck(c)
BY FoundIs, ShareIs, GrownIs, Lettered, LevelsAre, ZenonT(60) DEF ConntrackChecks

LEMMA SocketIs == ASSUME NEW k, NEW c \in SocketChecks(k) PROVE IsCheck(c)
BY ShareIs, Lettered, ZenonT(60) DEF SocketChecks

LEMMA ErrorsIs == ASSUME NEW k, NEW c \in ErrorsChecks(k) PROVE IsCheck(c)
<1> DEFINE l == IF k.taint \subseteq k.taintBase THEN 0 ELSE 1
<1>1. l \in Levels
  BY LevelsAre
<1>2. c \in { Found(<<"E", "01">>, k.taintRead, l),
              Share(<<"E", "02">>, k.pidMax > 0 /\ k.pids > 0, k.pids, k.pidMax, 70, 90) }
  BY Zenon DEF ErrorsChecks
<1> HIDE DEF l
<1> QED
  BY <1>1, <1>2, FoundIs, ShareIs, Lettered, Zenon

LEMMA LateIs == ASSUME NEW id, IsId(id), NEW c \in Late(id) PROVE IsCheck(c)
BY LevelsAre DEF Late, IsCheck

\* A category that is late has one check, which is one of Letters too.
LEMMA ChecksAre ==
    ASSUME NEW k, NEW late, NEW c \in Checks(k, late)
    PROVE  IsCheck(c)
<1>1. \/ c \in TimeChecks(k) \union CPUChecks(k) \union MemoryChecks(k) \union DiskIOChecks(k)
            \union FilesystemChecks(k) \union NetworkChecks(k) \union ConntrackChecks(k)
            \union SocketChecks(k) \union ErrorsChecks(k)
      \/ \E id \in {<<"T", "ime/Sync">>, <<"C", "PU">>, <<"M", "emory">>, <<"D", "isk/IO">>, <<"N", "etwork">>,
                    <<"F", "ilesystem">>, <<"C", "onntrack">>, <<"S", "ocket">>, <<"E", "rrors">>} : c \in Late(id)
  BY DEF Checks
<1>2. \A id \in {<<"T", "ime/Sync">>, <<"C", "PU">>, <<"M", "emory">>, <<"D", "isk/IO">>, <<"N", "etwork">>,
                 <<"F", "ilesystem">>, <<"C", "onntrack">>, <<"S", "ocket">>, <<"E", "rrors">>} : IsId(id)
  BY DEF IsId, Letters
<1> QED
  BY <1>1, <1>2, LateIs, TimeIs, CPUIs, MemoryIs, DiskIs, FilesystemIs, NetworkIs, ConntrackIs, SocketIs, ErrorsIs

-----------------------------------------------------------------------------
(* Rows and chain *)

\* Each check has exactly one row.
LEMMA OneRow ==
    ASSUME NEW c, IsCheck(c)
    PROVE  \E r \in Resource : \A q \in Resource : InRow(c.id, q) <=> q = r
<1>1. CASE c.id \in {<<"F", "01">>, <<"F", "02">>}
  BY <1>1 DEF InRow, Resource
<1>2. CASE c.id \notin {<<"F", "01">>, <<"F", "02">>}
  <2>1. \A q \in Resource : InRow(c.id, q) <=> c.id[1] \in LettersOf(q)
    BY <1>2 DEF InRow
  <2>2. \E r \in Resource : \A q \in Resource : c.id[1] \in LettersOf(q) <=> q = r
    BY DEF IsCheck, IsId, Letters, LettersOf, Resource
  <2> QED
    BY <2>1, <2>2
<1> QED
  BY <1>1, <1>2

\* The level of a row is that of its worst check, or a warning for a metric.
LEMMA RowIs ==
    ASSUME NEW w, NEW checks, \A c \in checks : IsCheck(c), NEW r
    PROVE  /\ Row(w, checks, r).checks = {c \in checks : InRow(c.id, r) /\ c.level > 0}
           /\ \A c \in Row(w, checks, r).checks : Row(w, checks, r).level >= c.level
           /\ Row(w, checks, r).level = 2 => \E c \in Row(w, checks, r).checks : c.level = 2
           /\ Row(w, checks, r).notable # {} => Row(w, checks, r).level >= 1
           /\ Row(w, checks, r).level > 0 /\ Row(w, checks, r).checks = {} => Row(w, checks, r).notable # {}
           /\ Row(w, checks, r).level \in -1..2
           /\ \A b \in Range(Metrics(r)) : Fresh(w, b) /\ Notable(w, b) =>
                b \in Row(w, checks, r).notable /\ b \in Row(w, checks, r).facts
           /\ \A b \in Row(w, checks, r).notable : b \in Range(Metrics(r)) /\ Fresh(w, b) /\ Notable(w, b)
<1> DEFINE raised == {c \in checks : InRow(c.id, r) /\ c.level > 0}
           fresh == {b \in Range(Metrics(r)) : Fresh(w, b)}
           notable == {b \in fresh : Notable(w, b)}
           mine == {c \in checks : InRow(c.id, r)}
           levels == {c.level : c \in raised} \union (IF notable # {} THEN {1} ELSE {})
           level == IF levels # {} THEN Max(levels) ELSE IF fresh = {} /\ mine = {} THEN -1 ELSE 0
<1>1. {c \in mine : c.level > 0} = raised
  OBVIOUS
<1>2. Row(w, checks, r).checks = raised /\ Row(w, checks, r).notable = notable
      /\ Row(w, checks, r).level = level
  BY <1>1 DEF Row
<1>3. \A c \in raised : c.level \in {1, 2} /\ c.level \in levels
  BY DEF IsCheck, Levels
<1>4. levels \subseteq {1, 2} /\ (notable # {} => 1 \in levels)
  BY <1>3
<1>5. levels # {} => Max(levels) \in levels /\ \A n \in levels : Max(levels) >= n
  <2>1. levels # {} => \E x \in levels : \A y \in levels : x >= y
    BY <1>4
  <2> QED
    BY <2>1 DEF Max
<1>6. \A n \in levels : (n = 1 /\ notable # {}) \/ \E c \in raised : c.level = n
  OBVIOUS
<1>7. level \in -1..2 /\ (level > 0 => level \in levels) /\ \A n \in levels : level >= n
  <2>1. CASE levels = {}
    BY <2>1
  <2>2. CASE levels # {}
    <3>1. level = Max(levels)
      BY <2>2
    <3> HIDE DEF level, levels
    <3>2. level \in levels /\ level \in {1, 2}
      BY <1>4, <1>5, <2>2, <3>1
    <3> QED
      BY <1>5, <2>2, <3>1, <3>2
  <2> QED
    BY <2>1, <2>2
<1>8. \A b \in Range(Metrics(r)) : Fresh(w, b) /\ Notable(w, b) =>
          b \in Row(w, checks, r).notable /\ b \in Row(w, checks, r).facts
  BY DEF Row
<1>9. \A b \in notable : b \in Range(Metrics(r)) /\ Fresh(w, b) /\ Notable(w, b)
  OBVIOUS
<1> HIDE DEF levels, level, notable, fresh, mine
<1> QED
  BY <1>2, <1>3, <1>4, <1>6, <1>7, <1>8, <1>9

\* The items that others than Causal make.
LEMMA ChainsAre ==
    ASSUME NEW checks, NEW devs, NEW procs, NEW chain \in Chains(checks, devs, procs)
    PROVE  \E items : FromL0(checks) \subseteq items /\ FromDeviations(devs) \subseteq items /\ chain \in Cut(items)
<1>1. PICK a \in OneOf(devs, procs, "CPU"), b \in OneOf(devs, procs, "IO"),
           c \in OneOf(devs, procs, "Mem"), d \in OneOf(devs, procs, "Net") :
             chain \in Cut(FromL0(checks) \union FromDeviations(devs) \union a \union b \union c \union d)
  <2> DEFINE I(a, b, c, d) == FromL0(checks) \union FromDeviations(devs) \union a \union b \union c \union d
  <2>1. Chains(checks, devs, procs) =
          UNION {Cut(I(a, b, c, d)) : a \in OneOf(devs, procs, "CPU"), b \in OneOf(devs, procs, "IO"),
                                      c \in OneOf(devs, procs, "Mem"), d \in OneOf(devs, procs, "Net")}
    BY DEF Chains
  <2> HIDE DEF I
  <2>2. \E a \in OneOf(devs, procs, "CPU"), b \in OneOf(devs, procs, "IO"),
           c \in OneOf(devs, procs, "Mem"), d \in OneOf(devs, procs, "Net") : chain \in Cut(I(a, b, c, d))
    BY <2>1, SMT
  <2> QED
    BY <2>2, Zenon DEF I
<1> QED
  BY <1>1

\* An item is in the chain, or the chain is full of items no less severe.
LEMMA CutIs ==
    ASSUME NEW items, NEW chain \in Cut(items), NEW i \in items
    PROVE  /\ chain \subseteq items
           /\ i \in chain \/ (Cardinality(chain) = MaxItems /\ \A j \in chain : i.level <= j.level)
BY DEF Cut, kSubset

LEMMA FailedInChain ==
    ASSUME NEW checks, NEW devs, NEW procs, NEW chain \in Chains(checks, devs, procs),
           NEW c \in checks, IsCheck(c), c.level > 0
    PROVE  \/ \E i \in chain : i.head = c.id /\ i.level = c.level
           \/ Cardinality(chain) = MaxItems /\ \A i \in chain : i.level >= c.level
<1> DEFINE item == [level |-> c.level, class |-> "", head |-> c.id, metrics |-> {}, culprits |-> <<>>]
<1>1. item \in FromL0(checks)
  BY DEF FromL0
<1> HIDE DEF item
<1>2. PICK items : chain \in Cut(items) /\ item \in items
  BY <1>1, ChainsAre
<1>3. item \in chain \/ (Cardinality(chain) = MaxItems /\ \A j \in chain : item.level <= j.level)
  BY <1>2, CutIs
<1>4. item.head = c.id /\ item.level = c.level
  BY DEF item
<1> QED
  BY <1>3, <1>4

-----------------------------------------------------------------------------
(* The answer of a look *)

Asked(m) == Checks(m.k, m.late)
Told(m, chain, culprit) ==
    [checks |-> Asked(m), chain |-> chain, rows |-> Use(View(m), Asked(m)),
     status |-> Status(Asked(m), chain), culprit |-> culprit]

\* Only a machine is looked at, and what is answered is about it.
VInv == /\ machine = NoMachine => answer = Unasked
        /\ machine # NoMachine => Sound(machine)
        /\ answer # Unasked =>
             \E chain, culprit : /\ chain \in Chains(Asked(machine), Devs(machine), machine.procs)
                                /\ answer = Told(machine, chain, culprit)

LEMMA VInvStep == VInv /\ [VerdictsNext]_verdictVars => VInv'
<1> SUFFICES ASSUME VInv, [VerdictsNext]_verdictVars PROVE VInv'
  OBVIOUS
<1>1. ASSUME NEW m, Look(m) PROVE VInv'
  BY <1>1 DEF VInv, Look
<1>2. CASE Answer
  <2>1. \E chain, culprit : /\ chain \in Chains(Asked(machine), Devs(machine), machine.procs)
                            /\ answer' = Told(machine, chain, culprit)
    BY <1>2, Zenon DEF Answer, Asked, Told
  <2>2. machine' = machine /\ machine # NoMachine
    BY <1>2 DEF Answer
  <2> QED
    BY <2>1, <2>2, Zenon DEF VInv
<1>3. CASE Delivered
  BY <1>3 DEF VInv, Delivered
<1>4. CASE UNCHANGED verdictVars
  BY <1>4, Zenon DEF VInv, verdictVars
<1> QED
  BY <1>1, <1>2, <1>3, <1>4, Zenon DEF VerdictsNext

\* A check that failed has its one row, no better than it, and its place in the chain.
LEMMA ProblemHasRow ==
    ASSUME NEW w, NEW checks, \A c \in checks : IsCheck(c), NEW c \in checks, c.level > 0
    PROVE  \E r \in Resource : /\ {q \in Resource : c \in Use(w, checks)[q].checks} = {r}
                               /\ Use(w, checks)[r].level >= c.level
<1>1. PICK r \in Resource : \A q \in Resource : InRow(c.id, q) <=> q = r
  BY OneRow
<1>2. \A q \in Resource : Use(w, checks)[q] = Row(w, checks, q)
  BY DEF Use
<1>3. \A q \in Resource : Row(w, checks, q).checks = {d \in checks : InRow(d.id, q) /\ d.level > 0}
  BY RowIs
<1>4. Row(w, checks, r).level >= c.level
  BY <1>1, <1>3, RowIs
<1> QED
  BY <1>1, <1>2, <1>3, <1>4

LEMMA HealthAndRows ==
    ASSUME NEW w, NEW checks, \A c \in checks : IsCheck(c), NEW chain
    PROVE  (Status(checks, chain) = "DOWN") <=> (\E r \in Resource : Use(w, checks)[r].level = 2)
<1>1. \A q \in Resource : Use(w, checks)[q] = Row(w, checks, q)
  BY DEF Use
<1>0. ASSUME NEW q \in Resource
      PROVE  /\ Row(w, checks, q).level \in -1..2
             /\ Row(w, checks, q).level = 2 => \E c \in Row(w, checks, q).checks : c.level = 2
             /\ \A c \in Row(w, checks, q).checks : c \in checks
  <2>1. Row(w, checks, q).checks = {c \in checks : InRow(c.id, q) /\ c.level > 0}
    BY RowIs
  <2>2. Row(w, checks, q).level \in -1..2
    BY RowIs
  <2>3. Row(w, checks, q).level = 2 => \E c \in Row(w, checks, q).checks : c.level = 2
    BY RowIs
  <2> QED
    BY <2>1, <2>2, <2>3
<1>2. (Status(checks, chain) = "DOWN") <=> \E c \in checks : c.level >= 2
  BY DEF Status
<1>3. ASSUME NEW c \in checks, c.level >= 2 PROVE \E r \in Resource : Use(w, checks)[r].level = 2
  <2>1. c.level = 2
    BY <1>3 DEF IsCheck, Levels
  <2>2. PICK r \in Resource : Use(w, checks)[r].level >= c.level
    BY <2>1, ProblemHasRow
  <2>3. Use(w, checks)[r].level \in -1..2
    BY <1>1, <1>0
  <2> QED
    BY <2>1, <2>2, <2>3
<1>4. ASSUME NEW r \in Resource, Use(w, checks)[r].level = 2 PROVE \E c \in checks : c.level >= 2
  <2>1. PICK c \in Row(w, checks, r).checks : c.level = 2
    BY <1>1, <1>4, <1>0
  <2>2. c \in checks
    BY <1>0
  <2> QED
    BY <2>1, <2>2
<1> QED
  BY <1>2, <1>3, <1>4

LEMMA ShownIs == VInv => EveryProblemShown
<1> SUFFICES ASSUME VInv, Answered PROVE EveryProblemShown
  BY DEF EveryProblemShown
<1> DEFINE checks == Asked(machine)
           w == View(machine)
<1>1. PICK chain, culprit : /\ chain \in Chains(checks, Devs(machine), machine.procs)
                            /\ answer = Told(machine, chain, culprit)
  BY Zenon DEF VInv, Answered
<1>2. \A c \in checks : IsCheck(c)
  BY ChecksAre DEF Asked
<1>3a. answer = [checks |-> checks, chain |-> chain, rows |-> Use(w, checks),
                 status |-> Status(checks, chain), culprit |-> culprit]
  BY <1>1, Zenon DEF Told
<1> HIDE DEF checks, w
<1>3. answer.checks = checks /\ answer.chain = chain /\ answer.rows = Use(w, checks)
      /\ answer.status = Status(checks, chain)
  BY <1>3a
<1>4. ASSUME NEW c \in Problems
      PROVE  LET rows == {r \in Resource : c \in answer.rows[r].checks}
             IN  /\ Cardinality(rows) = 1
                 /\ \A r \in rows : answer.rows[r].level >= c.level
                 /\ \/ \E i \in answer.chain : i.head = c.id /\ i.level = c.level
                    \/ Cardinality(answer.chain) = MaxItems /\ \A i \in answer.chain : i.level >= c.level
  <2> DEFINE rows == {r \in Resource : c \in answer.rows[r].checks}
  <2>1. c \in checks /\ c.level > 0
    BY <1>3, <1>4 DEF Problems
  <2>2. PICK r : rows = {r} /\ answer.rows[r].level >= c.level
    BY <1>2, <1>3, <2>1, ProblemHasRow
  <2>3. Cardinality(rows) = 1
    BY <2>2, FS_Singleton, Zenon
  <2>4. \/ \E i \in answer.chain : i.head = c.id /\ i.level = c.level
        \/ Cardinality(answer.chain) = MaxItems /\ \A i \in answer.chain : i.level >= c.level
    BY <1>1, <1>2, <1>3, <2>1, FailedInChain
  <2> QED
    BY <2>2, <2>3, <2>4
<1>5. (answer.status = "DOWN") = (\E r \in Resource : answer.rows[r].level = 2)
  <2>1. (answer.status = "DOWN") <=> (\E r \in Resource : answer.rows[r].level = 2)
    BY <1>2, <1>3, HealthAndRows
  <2> QED
    BY <2>1
<1> QED
  BY <1>4, <1>5 DEF EveryProblemShown

-----------------------------------------------------------------------------
(* The last minute of a metric *)

\* What is over its hard line is in trouble.
LEMMA HardIsConcern ==
    ASSUME NEW w, w.cores \in Nat, NEW b, NEW v \in Int, OverHardLine(w, b, v)
    PROVE  InConcern(w, b, v)
<1>1. AtLeastOne(w.cores) \in Nat
  BY DEF AtLeastOne
<1>2. CASE b = "cpu.core_top1"
  BY <1>2 DEF OverHardLine, InConcern
<1>3. CASE b \in {"psi.cpu.some10", "psi.io.some10"}
  BY <1>3 DEF OverHardLine, InConcern
<1>4. CASE b = "procs_running"
  BY <1>1, <1>4 DEF OverHardLine, InConcern
<1>5. CASE b \in {"psi.mem.some10", "swap.out"}
  BY <1>5 DEF OverHardLine, InConcern
<1>6. CASE b \in {"net.softnet_drop", "net.rx_drop", "net.tx_drop", "net.rx_errs"}
  BY <1>6 DEF OverHardLine, InConcern
<1>7. b \in {"cpu.core_top1", "psi.cpu.some10", "psi.io.some10", "procs_running", "psi.mem.some10", "swap.out",
             "net.softnet_drop", "net.rx_drop", "net.tx_drop", "net.rx_errs"}
  BY DEF OverHardLine
<1> QED
  BY <1>2, <1>3, <1>4, <1>5, <1>6, <1>7

\* The points of a metric in the view are those of the machine.
LEMMA ViewIs ==
    ASSUME NEW m, Sound(m)
    PROVE  LET w == View(m)
           IN  /\ w.cores \in Nat
               /\ \A b \in DOMAIN w.points :
                    /\ w.points[b] \in Seq(Reading)
                    /\ \A i, j \in DOMAIN w.points[b] : i <= j => w.points[b][j].age <= w.points[b][i].age
<1> DEFINE bases == {id[1] : id \in {i \in DOMAIN m.metrics : Whole(i)}}
<1>1. View(m).cores = m.cores /\ View(m).points = [b \in bases |-> m.metrics[<<b, "">>].points]
  BY DEF View
<1>2. ASSUME NEW b \in bases PROVE <<b, "">> \in DOMAIN m.metrics
  <2>1. PICK id \in DOMAIN m.metrics : Whole(id) /\ b = id[1]
    OBVIOUS
  <2>2. id = <<id[1], id[2]>>
    BY Zenon DEF Sound
  <2>3. id = <<b, "">>
    BY <2>1, <2>2 DEF Whole
  <2> QED
    BY <2>1, <2>3
<1>3. DOMAIN View(m).points = bases /\ \A b \in bases : View(m).points[b] = m.metrics[<<b, "">>].points
  BY <1>1
<1>4. ASSUME NEW b \in bases
      PROVE  /\ View(m).points[b] \in Seq(Reading)
             /\ \A i, j \in DOMAIN View(m).points[b] : i <= j => View(m).points[b][j].age <= View(m).points[b][i].age
  <2>1. LET p == m.metrics[<<b, "">>].points
        IN  p \in Seq(Reading) /\ \A i, j \in DOMAIN p : i <= j => p[j].age <= p[i].age
    BY <1>2, Zenon DEF Sound
  <2> QED
    BY <1>3, <2>1
<1> QED
  BY <1>1, <1>3, <1>4 DEF Sound

\* If a minute is fresh and all of it is on one side of a line, so is the value now.
LEMMA MinuteHasNow ==
    ASSUME NEW points \in Seq(Reading),
           \A i, j \in DOMAIN points : i <= j => points[j].age <= points[i].age,
           Minute(points) # {}
    PROVE  Len(points) \in Minute(points) /\ Last(points) = points[Len(points)]
<1>1. PICK i \in DOMAIN points : points[i].age <= Hold
  BY DEF Minute
<1>2. i \in 1..Len(points) /\ Len(points) \in DOMAIN points /\ i <= Len(points)
  OBVIOUS
<1>3. points[Len(points)].age <= points[i].age
  BY <1>2
<1>4. points[Len(points)].age \in Nat /\ points[i].age \in Nat /\ Hold \in Nat
  <2>1. points[Len(points)] \in Reading /\ points[i] \in Reading
    BY <1>2
  <2>2. Hold \in Nat
    BY UseAssumption
  <2> QED
    BY <2>1, <2>2 DEF Reading
<1> QED
  BY <1>1, <1>2, <1>3, <1>4 DEF Minute, Last

LEMMA PinnedIs == VInv => PinnedIsSeen
<1> SUFFICES ASSUME VInv, Answered, NEW r \in Resource
             PROVE  LET w == View(machine)
                        row == answer.rows[r]
                        Recent(b) == Minute(w.points[b])
                        Covered(b) == /\ Fresh(w, b) /\ Cardinality(Recent(b)) >= 2
                                      /\ 4 * w.points[b][Min(Recent(b))].age >= 3 * Hold
                    IN  /\ \A b \in Range(Metrics(r)) \intersect DOMAIN w.points :
                             Covered(b) /\ (\A i \in Recent(b) : OverHardLine(w, b, w.points[b][i].v)) =>
                                row.level >= 1 /\ b \in row.facts
                        /\ row.level > 0 /\ row.checks = {} => row.notable # {}
                        /\ \A b \in row.notable :
                             Covered(b) /\ \A i \in Recent(b) : InConcern(w, b, w.points[b][i].v)
  BY Zenon DEF PinnedIsSeen
<1> DEFINE checks == Asked(machine)
           w == View(machine)
           row == answer.rows[r]
           Recent(b) == Minute(w.points[b])
           Covered(b) == /\ Fresh(w, b) /\ Cardinality(Recent(b)) >= 2
                         /\ 4 * w.points[b][Min(Recent(b))].age >= 3 * Hold
<1>1. PICK chain, culprit : answer = Told(machine, chain, culprit)
  BY Zenon DEF VInv, Answered
<1>2. \A c \in checks : IsCheck(c)
  BY ChecksAre DEF Asked
<1>3. answer.rows = Use(w, checks)
  BY <1>1 DEF Told
<1>4. /\ w.cores \in Nat
      /\ \A b \in DOMAIN w.points :
           /\ w.points[b] \in Seq(Reading)
           /\ \A i, j \in DOMAIN w.points[b] : i <= j => w.points[b][j].age <= w.points[b][i].age
  BY ViewIs, Zenon DEF VInv, Answered
<1> HIDE DEF checks, w
<1>5. row = Row(w, checks, r)
  BY <1>3 DEF Use
<1> HIDE DEF row
<1>6. ASSUME NEW b \in Range(Metrics(r)) \intersect DOMAIN w.points, Covered(b),
             \A i \in Recent(b) : OverHardLine(w, b, w.points[b][i].v)
      PROVE  row.level >= 1 /\ b \in row.facts
  <2>1. Recent(b) # {}
    <3>1. Cardinality({}) = 0
      BY FS_EmptySet
    <3> QED
      BY <1>6, <3>1
  <2>2. Len(w.points[b]) \in Recent(b) /\ Last(w.points[b]) = w.points[b][Len(w.points[b])]
    BY <1>4, <2>1, MinuteHasNow
  <2>3. OverHardLine(w, b, Value(w, b))
    BY <1>6, <2>2, Zenon DEF Value
  <2>4. ForAMinute(w, b, "hard")
    BY <1>6, <2>3, Zenon DEF ForAMinute, Troubled
  <2>5. Fresh(w, b) /\ Notable(w, b)
    BY <1>6, <2>4, Zenon DEF Notable
  <2>6. b \in row.notable /\ b \in row.facts
    BY <1>2, <1>5, <2>5, RowIs
  <2>7. row.notable # {} => row.level >= 1
    BY <1>2, <1>5, RowIs
  <2> QED
    BY <2>6, <2>7
<1>7. row.level > 0 /\ row.checks = {} => row.notable # {}
  BY <1>2, <1>5, RowIs
<1>8. ASSUME NEW b \in row.notable
      PROVE  Covered(b) /\ \A i \in Recent(b) : InConcern(w, b, w.points[b][i].v)
  <2>1. Fresh(w, b) /\ Notable(w, b)
    BY <1>2, <1>5, <1>8, RowIs
  <2>2. \E line \in {"hard", "concern"} : ForAMinute(w, b, line)
    BY <2>1, Zenon DEF Notable
  <2>3. PICK line \in {"hard", "concern"} : ForAMinute(w, b, line)
    BY <2>2
  <2>4. Covered(b) /\ \A i \in Recent(b) : Troubled(w, b, w.points[b][i].v, line)
    BY <2>1, <2>3, Zenon DEF ForAMinute
  <2>5. ASSUME NEW i \in Recent(b) PROVE InConcern(w, b, w.points[b][i].v)
    <3>1. i \in DOMAIN w.points[b] /\ b \in DOMAIN w.points
      BY <2>1, <2>5 DEF Minute, Fresh, Known
    <3>2. w.points[b][i].v \in Int
      <4>1. w.points[b] \in Seq(Reading)
        BY <1>4, <3>1
      <4>2. w.points[b][i] \in Reading
        BY <3>1, <4>1
      <4> QED
        BY <4>2 DEF Reading
    <3>3. CASE line = "hard"
      <4>1. OverHardLine(w, b, w.points[b][i].v)
        BY <2>4, <2>5, <3>3 DEF Troubled
      <4> QED
        BY <1>4, <3>2, <4>1, HardIsConcern
    <3>4. CASE line = "concern"
      BY <2>4, <2>5, <3>4 DEF Troubled
    <3> QED
      BY <3>3, <3>4
  <2> QED
    BY <2>4, <2>5
<1> QED
  BY <1>6, <1>7, <1>8, Zenon DEF w, row

-----------------------------------------------------------------------------
(* The largest of the deviations *)

\* Of finitely many one has the largest value: the one that the fewest are above.
LEMMA OneIsLargest ==
    ASSUME NEW S, IsFiniteSet(S), S # {}, NEW f \in [S -> Int]
    PROVE  \E x \in S : \A y \in S : f[y] <= f[x]
<1> DEFINE Above(x) == {y \in S : f[y] > f[x]}
           Counts == {Cardinality(Above(x)) : x \in S}
<1>1. \A x \in S : IsFiniteSet(Above(x)) /\ Cardinality(Above(x)) \in Nat
  <2>1. \A x \in S : Above(x) \subseteq S
    OBVIOUS
  <2> HIDE DEF Above
  <2> QED
    BY <2>1, FS_Subset, FS_CardinalityType
<1>2. ASSUME NEW x \in S, NEW y \in S, f[y] > f[x] PROVE Cardinality(Above(y)) < Cardinality(Above(x))
  <2>1. Above(y) \subseteq Above(x) /\ y \in Above(x) /\ y \notin Above(y)
    BY <1>2
  <2> HIDE DEF Above
  <2> QED
    BY <1>1, <2>1, FS_Subset
<1> HIDE DEF Above
<1>3. PICK x \in S : \A y \in S : Cardinality(Above(x)) <= Cardinality(Above(y))
  <2>1. Counts \in SUBSET Nat /\ Counts # {}
    BY <1>1
  <2>2. PICK n \in Counts : \A k \in Counts : n <= k
    BY <2>1, LeastNat
  <2> QED
    BY <2>2
<1>4. ASSUME NEW y \in S PROVE f[y] <= f[x]
  <2>1. SUFFICES ASSUME f[y] > f[x] PROVE FALSE
    OBVIOUS
  <2>2. Cardinality(Above(y)) < Cardinality(Above(x))
    BY <1>2, <2>1
  <2> QED
    BY <1>1, <1>3, <2>2
<1> QED
  BY <1>3, <1>4

LEMMA AbsIsNat == ASSUME NEW x \in Int PROVE Abs(x) \in Nat
BY DEF Abs

\* The peak of deviations is one of them, or NaN.
LEMMA PeakIsInt ==
    ASSUME NEW z \in Seq(Int)
    PROVE  PeakOf(z) \in Int
<1> DEFINE known == {i \in DOMAIN z : z[i] # NaN}
           Best(i) == \A j \in known : Abs(z[j]) < Abs(z[i]) \/ (Abs(z[j]) = Abs(z[i]) /\ i <= j)
<1>1. PeakOf(z) = IF known = {} THEN NaN ELSE z[CHOOSE i \in known : Best(i)]
  BY Zenon DEF PeakOf
<1>2. CASE known = {}
  BY <1>1, <1>2 DEF NaN
<1>3. CASE known # {}
  <2>1. known \subseteq 1..Len(z) /\ IsFiniteSet(known)
    <3>1. known \subseteq 1..Len(z) /\ IsFiniteSet(1..Len(z))
      BY FS_Interval
    <3> HIDE DEF known
    <3> QED
      BY <3>1, FS_Subset
  <2>2. \A i \in known : i \in Nat /\ z[i] \in Int /\ Abs(z[i]) \in Nat
    BY <2>1, AbsIsNat
  <2> DEFINE f == [i \in known |-> Abs(z[i])]
  <2>3. f \in [known -> Int]
    BY <2>2
  <2> HIDE DEF known
  <2>4. PICK x \in known : \A y \in known : f[y] <= f[x]
    BY <1>3, <2>1, <2>3, OneIsLargest
  <2> DEFINE Tops == {i \in known : Abs(z[i]) = Abs(z[x])}
  <2>5. Tops \in SUBSET Nat /\ Tops # {}
    BY <2>2
  <2>6. PICK n \in Tops : \A k \in Tops : n <= k
    BY <2>5, LeastNat
  <2>7. Best(n)
    BY <2>2, <2>4, <2>6
  <2>8. (CHOOSE i \in known : Best(i)) \in known
    BY <2>6, <2>7
  <2> QED
    BY <1>1, <1>3, <2>2, <2>8
<1> QED
  BY <1>2, <1>3

\* Deviations of finitely many metrics, each a sequence of numbers.
AreDevs(devs) == IsFiniteSet(DOMAIN devs) /\ \A id \in DOMAIN devs : devs[id].z \in Seq(Int)

LEMMA DevsAre == ASSUME NEW m, Sound(m) PROVE AreDevs(Devs(m))
<1>1. DOMAIN Devs(m) \subseteq DOMAIN m.metrics /\ \A id \in DOMAIN Devs(m) : Devs(m)[id].z = m.metrics[id].z
  BY DEF Devs
<1>2. IsFiniteSet(DOMAIN m.metrics) /\ \A id \in DOMAIN m.metrics : m.metrics[id].z \in Seq(Int)
  BY Zenon DEF Sound
<1>3. IsFiniteSet(DOMAIN Devs(m))
  BY <1>1, <1>2, FS_Subset
<1> QED
  BY <1>1, <1>2, <1>3 DEF AreDevs

LEMMA LargestExists ==
    ASSUME NEW devs, AreDevs(devs), NEW ids \in SUBSET DOMAIN devs, ids # {}
    PROVE  Largest(devs, ids) # {}
<1> DEFINE f == [id \in ids |-> Size(devs, id)]
<1>1. f \in [ids -> Int]
  BY PeakIsInt, AbsIsNat DEF AreDevs, Size
<1>2. IsFiniteSet(ids)
  BY FS_Subset DEF AreDevs
<1>3. PICK x \in ids : \A y \in ids : f[y] <= f[x]
  BY <1>1, <1>2, OneIsLargest
<1> QED
  BY <1>3 DEF Largest

-----------------------------------------------------------------------------
(* Items of a class *)

\* No metric is in two classes.
LEMMA OneClass ==
    ASSUME NEW c \in Class, NEW d \in Class, NEW b, b \in Members(c), b \in Members(d)
    PROVE  c = d
<1>1. CASE c = "CPU"
  BY <1>1 DEF Class, Members
<1>2. CASE c = "IO"
  BY <1>2 DEF Class, Members
<1>3. CASE c = "Mem"
  BY <1>3 DEF Class, Members
<1>4. CASE c = "Net"
  BY <1>4 DEF Class, Members
<1> QED
  BY <1>1, <1>2, <1>3, <1>4 DEF Class

\* Somebody is blamed, or nobody: there is always an answer.
LEMMA SomeAnswer ==
    ASSUME NEW class \in Class, NEW devs, NEW procs, NEW ts, NEW lags
    PROVE  Attribute(class, devs, procs, ts, lags) # {}
<1>1. AttributeCPU(devs, procs, ts, lags) # {}
  BY Zenon DEF AttributeCPU
<1>2. AttributeMem(devs, procs, ts) # {}
  BY Zenon DEF AttributeMem
<1>3. AttributeNet(devs, ts) # {}
  BY DEF AttributeNet
<1>4. AttributeIO(devs, procs, ts, lags) # {}
  BY DEF AttributeIO
<1> QED
  BY <1>1, <1>2, <1>3, <1>4, Zenon DEF Attribute, Class

\* An item of a class is about all that deviates of it, whoever leads.
LEMMA ClassItemIs ==
    ASSUME NEW devs, NEW procs, NEW class, NEW i \in ClassItems(devs, procs, class)
    PROVE  i.metrics = OfClass(devs, class) /\ i.level = LevelOf(devs, OfClass(devs, class))
BY DEF ClassItems

LEMMA ClassHasItem ==
    ASSUME NEW devs, AreDevs(devs), NEW procs, NEW class \in Class,
           NEW id \in OfClass(devs, class), MayLead(devs, procs, id)
    PROVE  ClassItems(devs, procs, class) # {}
<1> DEFINE ts == OfClass(devs, class)
           able == {j \in ts : MayLead(devs, procs, j)}
<1>1. able \in SUBSET DOMAIN devs /\ able # {}
  BY DEF OfClass, Triggered
<1>2. PICK h \in Heads(devs, procs, ts) : TRUE
  BY <1>1, LargestExists, Zenon DEF Heads
<1>3. PICK c \in Attribute(class, devs, procs, ts, LagsOver(devs[FamilyHead(ts, h)].z)) : TRUE
  BY SomeAnswer
<1> DEFINE head == FamilyHead(ts, h)
           item == [level |-> LevelOf(devs, ts), class |-> class, head |-> head, metrics |-> ts, culprits |-> c]
           Items(g) == {[level |-> LevelOf(devs, ts), class |-> class, head |-> g, metrics |-> ts, culprits |-> d] :
                          d \in Attribute(class, devs, procs, ts, LagsOver(devs[g].z))}
<1>4. item \in Items(head)
  BY <1>3
<1>5. ClassItems(devs, procs, class) = UNION {Items(g) : g \in {FamilyHead(ts, j) : j \in Heads(devs, procs, ts)}}
  BY DEF ClassItems
<1> HIDE DEF Items, item, ts
<1> QED
  BY <1>2, <1>4, <1>5

\* One of them is chosen, if there is any.
LEMMA OneOfIs ==
    ASSUME NEW devs, NEW procs, NEW class, NEW x \in OneOf(devs, procs, class)
    PROVE  /\ \A i \in x : i.metrics = OfClass(devs, class) /\ i.level = LevelOf(devs, OfClass(devs, class))
           /\ \A i, j \in x : i = j
           /\ ClassItems(devs, procs, class) # {} => x # {}
<1>1. CASE ClassItems(devs, procs, class) = {}
  BY <1>1 DEF OneOf
<1>2. CASE ClassItems(devs, procs, class) # {}
  <2>1. PICK i \in ClassItems(devs, procs, class) : x = {i}
    BY <1>2 DEF OneOf
  <2> QED
    BY <2>1, ClassItemIs
<1> QED
  BY <1>1, <1>2

LEMMA LevelGrows ==
    ASSUME NEW devs, NEW ids, NEW id \in ids
    PROVE  LevelOf(devs, ids) >= LevelOf(devs, {id})
BY DEF LevelOf

-----------------------------------------------------------------------------
(* Items of their own *)

LEMMA OwnItemIs ==
    ASSUME NEW devs, NEW i \in FromDeviations(devs)
    PROVE  \E id \in Triggered(devs) : /\ i.metrics = {id} /\ id[1] \notin Classified
                                       /\ i = [level |-> LevelOf(devs, {id}), class |-> "", head |-> id,
                                               metrics |-> {id}, culprits |-> <<>>]
<1> DEFINE rest == [id \in Rest(devs) |-> devs[id]]
<1>1. PICK id \in Triggered(rest) :
        i = [level |-> LevelOf(devs, {id}), class |-> "", head |-> id, metrics |-> {id}, culprits |-> <<>>]
  BY DEF FromDeviations
<1>2. id \in Rest(devs) /\ id \in Triggered(devs)
  BY DEF Triggered, Rest
<1>3. id[1] \notin Classified
  BY <1>2 DEF Rest
<1> QED
  BY <1>1, <1>2, <1>3

\* A level that is not fine for all the deviations is not fine for the rest of them.
LEMMA GateOfRest ==
    ASSUME NEW devs, NEW id, id[1] \notin Classified, AbsGate(devs, id)
    PROVE  AbsGate([j \in Rest(devs) |-> devs[j]], id)
<1>1. id[1] \notin {"mem.available", "mem.free", "swap.used", "disk.await_w", "disk.await_r", "disk.riops",
                    "disk.wiops", "cpu.user", "cpu.sys", "cpu.iowait"}
  BY DEF Classified, Class, Members
<1> DEFINE rest == [j \in Rest(devs) |-> devs[j]]
           used == <<"fs.used_pct", "">>
<1>2. CASE id[1] = "fs.avail"
  <2>1. \A d : AbsGate(d, id) <=> (used \in DOMAIN d => d[used].v >= 75)
    BY <1>2 DEF AbsGate
  <2>2. used \in DOMAIN rest => used \in DOMAIN devs /\ rest[used] = devs[used]
    BY DEF Rest
  <2> QED
    BY <2>1, <2>2
<1>3. CASE id[1] # "fs.avail"
  BY <1>1, <1>3 DEF AbsGate
<1> QED
  BY <1>2, <1>3

LEMMA HasOwnItem ==
    ASSUME NEW devs, NEW id \in Triggered(devs), id[1] \notin Classified, Alone(id), AbsGate(devs, id)
    PROVE  \E i \in FromDeviations(devs) : i.metrics = {id} /\ i.level = LevelOf(devs, {id})
<1> DEFINE rest == [j \in Rest(devs) |-> devs[j]]
           item == [level |-> LevelOf(devs, {id}), class |-> "", head |-> id, metrics |-> {id}, culprits |-> <<>>]
<1>1. id \in Rest(devs)
  BY DEF Rest, Alone, Triggered
<1>2. id \in Triggered(rest)
  BY <1>1 DEF Triggered
<1>3. AbsGate(rest, id)
  BY GateOfRest
<1>4. item \in FromDeviations(devs)
  BY <1>2, <1>3 DEF FromDeviations
<1> QED
  BY <1>4

-----------------------------------------------------------------------------
(* Nothing is lost *)

\* What a chain is made of, x having the items of the classes.
Parts(checks, devs, x) == FromL0(checks) \union FromDeviations(devs) \union UNION {x[c] : c \in Class}

\* The parts of a chain: each failed check, each metric on its own, an item of each class.
LEMMA PartsAre ==
    ASSUME NEW checks, NEW devs, NEW procs, NEW chain \in Chains(checks, devs, procs)
    PROVE  \E x : /\ \A c \in Class : x[c] \in OneOf(devs, procs, c)
                  /\ chain \in Cut(Parts(checks, devs, x))
<1> DEFINE I(a, b, c, d) == FromL0(checks) \union FromDeviations(devs) \union a \union b \union c \union d
<1>1. Chains(checks, devs, procs) =
        UNION {Cut(I(a, b, c, d)) : a \in OneOf(devs, procs, "CPU"), b \in OneOf(devs, procs, "IO"),
                                    c \in OneOf(devs, procs, "Mem"), d \in OneOf(devs, procs, "Net")}
  BY DEF Chains
<1> HIDE DEF I
<1>2. PICK a \in OneOf(devs, procs, "CPU"), b \in OneOf(devs, procs, "IO"),
           c \in OneOf(devs, procs, "Mem"), d \in OneOf(devs, procs, "Net") : chain \in Cut(I(a, b, c, d))
  BY <1>1, SMT
<1> DEFINE x == [e \in Class |-> IF e = "CPU" THEN a ELSE IF e = "IO" THEN b ELSE IF e = "Mem" THEN c ELSE d]
<1>3. x["CPU"] = a /\ x["IO"] = b /\ x["Mem"] = c /\ x["Net"] = d
  BY DEF Class
<1>4. UNION {x[e] : e \in Class} = a \union b \union c \union d
  BY <1>3 DEF Class
<1>5. \A e \in Class : x[e] \in OneOf(devs, procs, e)
  BY <1>2, <1>3 DEF Class
<1> HIDE DEF x
<1>6. I(a, b, c, d) = Parts(checks, devs, x)
  BY <1>4 DEF I, Parts
<1> QED
  BY <1>2, <1>5, <1>6

\* Levels are numbers in all of them.
LEMMA LevelsOfParts ==
    ASSUME NEW checks, \A c \in checks : IsCheck(c), NEW devs, NEW procs,
           NEW x, \A c \in Class : x[c] \in OneOf(devs, procs, c),
           NEW i \in Parts(checks, devs, x)
    PROVE  i.level \in Levels
<1>1. \A ids : LevelOf(devs, ids) \in Levels
  BY DEF LevelOf, Levels
<1>2. CASE i \in FromL0(checks)
  <2>1. PICK c \in checks : i = [level |-> c.level, class |-> "", head |-> c.id, metrics |-> {}, culprits |-> <<>>]
    BY <1>2 DEF FromL0
  <2> QED
    BY <2>1 DEF IsCheck
<1>3. CASE i \in FromDeviations(devs)
  <2>1. PICK id \in Triggered(devs) : i = [level |-> LevelOf(devs, {id}), class |-> "", head |-> id,
                                          metrics |-> {id}, culprits |-> <<>>]
    BY <1>3, OwnItemIs
  <2> QED
    BY <1>1, <2>1
<1>4. CASE i \in UNION {x[c] : c \in Class}
  <2>1. PICK c \in Class : i \in x[c]
    BY <1>4
  <2>2. i.level = LevelOf(devs, OfClass(devs, c))
    BY <2>1, OneOfIs
  <2> QED
    BY <1>1, <2>2
<1> QED
  BY <1>2, <1>3, <1>4 DEF Parts

\* A metric that counts is in exactly one of the parts, at its own level or a worse one.
LEMMA OnePart ==
    ASSUME NEW checks, NEW devs, AreDevs(devs), NEW procs,
           NEW x, \A c \in Class : x[c] \in OneOf(devs, procs, c),
           NEW id \in Triggered(devs), Alone(id), AbsGate(devs, id)
    PROVE  \E i \in Parts(checks, devs, x) : /\ id \in i.metrics /\ i.level >= LevelOf(devs, {id})
                                            /\ \A j \in Parts(checks, devs, x) : id \in j.metrics => j = i
<1> DEFINE items == Parts(checks, devs, x)
<1>0. items = FromL0(checks) \union FromDeviations(devs) \union UNION {x[c] : c \in Class}
  BY DEF Parts
<1> HIDE DEF items
<1>1. ASSUME NEW j \in FromL0(checks) PROVE id \notin j.metrics
  <2>1. PICK c \in checks : j = [level |-> c.level, class |-> "", head |-> c.id, metrics |-> {}, culprits |-> <<>>]
    BY DEF FromL0
  <2> QED
    BY <2>1
<1>2. \A j \in FromDeviations(devs) : id \in j.metrics =>
        /\ id[1] \notin Classified
        /\ j = [level |-> LevelOf(devs, {id}), class |-> "", head |-> id, metrics |-> {id}, culprits |-> <<>>]
  <2> SUFFICES ASSUME NEW j \in FromDeviations(devs), id \in j.metrics
               PROVE  /\ id[1] \notin Classified
                      /\ j = [level |-> LevelOf(devs, {id}), class |-> "", head |-> id, metrics |-> {id}, culprits |-> <<>>]
    OBVIOUS
  <2>1. PICK d \in Triggered(devs) : /\ j.metrics = {d} /\ d[1] \notin Classified
                                     /\ j = [level |-> LevelOf(devs, {d}), class |-> "", head |-> d,
                                             metrics |-> {d}, culprits |-> <<>>]
    BY OwnItemIs
  <2>2. d = id
    BY <2>1
  <2> QED
    BY <2>1, <2>2, Zenon
<1>3. \A c \in Class : \A j \in x[c] : /\ j.metrics = OfClass(devs, c) /\ j.level = LevelOf(devs, OfClass(devs, c))
                                       /\ \A k \in x[c] : k = j
  BY OneOfIs
<1>4. \A c \in Class : id \in OfClass(devs, c) <=> id[1] \in Members(c)
  BY DEF OfClass
<1>5. CASE id[1] \in Classified
  <2>1. PICK c \in Class : id[1] \in Members(c)
    BY <1>5 DEF Classified
  <2>2. MayLead(devs, procs, id)
    BY DEF MayLead
  <2>3. x[c] # {}
    BY <1>4, <2>1, <2>2, ClassHasItem, OneOfIs
  <2>4. PICK i \in x[c] : TRUE
    BY <2>3
  <2>5. i \in items /\ id \in i.metrics
    BY <1>0, <1>3, <1>4, <2>1, <2>4
  <2>6. i.level >= LevelOf(devs, {id})
    BY <1>3, <1>4, <2>1, <2>4, LevelGrows
  <2>7. ASSUME NEW j \in items, id \in j.metrics PROVE j = i
    <3>1. j \notin FromL0(checks) /\ j \notin FromDeviations(devs)
      BY <1>1, <1>2, <1>5, <2>7
    <3>2. PICK d \in Class : j \in x[d]
      BY <1>0, <2>7, <3>1
    <3>3. d = c
      BY <1>3, <1>4, <2>1, <2>7, <3>2, OneClass
    <3> QED
      BY <1>3, <2>4, <3>2, <3>3
  <2> QED
    BY <2>5, <2>6, <2>7 DEF items
<1>6. CASE id[1] \notin Classified
  <2>1. PICK i \in FromDeviations(devs) : i.metrics = {id} /\ i.level = LevelOf(devs, {id})
    BY <1>6, HasOwnItem
  <2>2. ASSUME NEW j \in items, id \in j.metrics PROVE j = i
    <3>1. j \notin FromL0(checks)
      BY <1>1, <2>2
    <3>2. \A d \in Class : j \notin x[d]
      BY <1>3, <1>4, <1>6, <2>2 DEF Classified
    <3>3. j \in FromDeviations(devs)
      BY <1>0, <2>2, <3>1, <3>2
    <3>4. id \in i.metrics
      BY <2>1
    <3> QED
      BY <1>2, <2>1, <2>2, <3>3, <3>4, Zenon
  <2>3. i.level >= LevelOf(devs, {id})
    BY <2>1, LevelGrows DEF LevelOf
  <2>4. i \in items /\ id \in i.metrics
    BY <1>0, <2>1
  <2> QED
    BY <2>2, <2>3, <2>4 DEF items
<1> QED
  BY <1>5, <1>6 DEF items

LEMMA LostIs == VInv => NothingLost
<1> SUFFICES ASSUME VInv, Answered PROVE NothingLost
  BY DEF NothingLost
<1> DEFINE devs == Devs(machine)
<1>1. PICK chain, culprit : /\ chain \in Chains(Asked(machine), devs, machine.procs)
                            /\ answer = Told(machine, chain, culprit)
  BY Zenon DEF VInv, Answered
<1>2. answer.chain = chain
  BY <1>1, Zenon DEF Told
<1>3. AreDevs(devs)
  BY DevsAre DEF VInv, Answered
<1>3a. \A c \in Asked(machine) : IsCheck(c)
  BY ChecksAre DEF Asked
<1> HIDE DEF devs
<1>4. ASSUME NEW id \in Triggered(devs), Alone(id), AbsGate(devs, id)
      PROVE  LET with == {i \in chain : id \in i.metrics}
             IN  \/ Cardinality(with) = 1
                 \/ with = {} /\ Cardinality(chain) = MaxItems /\ \A i \in chain : i.level >= LevelOf(devs, {id})
  <2> DEFINE with == {i \in chain : id \in i.metrics}
  <2>1. PICK x : /\ \A c \in Class : x[c] \in OneOf(devs, machine.procs, c)
                 /\ chain \in Cut(Parts(Asked(machine), devs, x))
    BY <1>1, PartsAre
  <2> DEFINE items == Parts(Asked(machine), devs, x)
  <2>2a. \A j \in items : j.level \in Levels
    BY <1>3a, <2>1, LevelsOfParts
  <2>2b. chain \in Cut(items)
    BY <2>1
  <2>2. \E i \in Parts(Asked(machine), devs, x) :
          /\ id \in i.metrics /\ i.level >= LevelOf(devs, {id})
          /\ \A j \in Parts(Asked(machine), devs, x) : id \in j.metrics => j = i
    <3>1. \A c \in Class : x[c] \in OneOf(devs, machine.procs, c)
      BY <2>1
    <3>2. Alone(id) /\ AbsGate(devs, id)
      BY <1>4
    <3> QED
      BY <1>3, <3>1, <3>2, OnePart
  <2>2c. PICK i \in items : /\ id \in i.metrics /\ i.level >= LevelOf(devs, {id})
                           /\ \A j \in items : id \in j.metrics => j = i
    BY <2>2
  <2> HIDE DEF items
  <2>3. /\ chain \subseteq items
        /\ i \in chain \/ (Cardinality(chain) = MaxItems /\ \A j \in chain : i.level <= j.level)
    BY <2>2b, <2>2c, CutIs
  <2>4. CASE i \in chain
    <3>1. with = {i}
      BY <2>2c, <2>3, <2>4
    <3>2. Cardinality(with) = 1
      BY <3>1, FS_Singleton, Zenon
    <3> QED
      BY <3>2
  <2>5. CASE i \notin chain
    <3>1. with = {}
      BY <2>2c, <2>3, <2>5
    <3>2. \A j \in chain : i.level <= j.level /\ i.level \in Int /\ j.level \in Int
      BY <2>2a, <2>3, <2>5 DEF Levels
    <3>3. LevelOf(devs, {id}) \in Int
      BY DEF LevelOf
    <3>4. \A j \in chain : j.level >= LevelOf(devs, {id})
      BY <2>2c, <3>2, <3>3
    <3> QED
      BY <2>3, <2>5, <3>1, <3>4
  <2> QED
    BY <2>4, <2>5
<1> QED
  BY <1>2, <1>4 DEF NothingLost, devs

LEMMA VInvHolds == VerdictsSpec => []VInv
<1>1. VerdictsInit => VInv
  BY DEF VerdictsInit, VInv
<1> QED
  BY <1>1, VInvStep, PTL DEF VerdictsSpec

\* use.go:181: for any readings of the kernel and any metrics, a check that failed is in one
\* row that is no better and has its place in the chain, and /health.txt agrees with the rows.
THEOREM ProblemsShown == VerdictsSpec => []EveryProblemShown
BY VInvHolds, ShownIs, PTL

\* use.go:465: whatever is usual for a metric, for any points that are in order, one that
\* stays over its hard line lights the row; a row without a failed check is lit by metrics
\* in trouble at every point of the last minute, of which three quarters are covered.
THEOREM PinnedLights == VerdictsSpec => []PinnedIsSeen
BY VInvHolds, PinnedIs, PTL

\* causal.go:149: for any deviations of finitely many metrics, each that counts is reported
\* once, or the chain is full of what is no less severe.
THEOREM NoneIsLost == VerdictsSpec => []NothingLost
BY VInvHolds, LostIs, PTL
==============================================================================
