------------------------------ MODULE SeriesProofs ------------------------------
(* Proofs about a series, for any values, limits, slacks, steps and retention,  *)
(* and whatever the wall clock does.  First the buffer of one tier alone: Ring  *)
(* implements WindowQueue.  Then the series: TInv says what the buffers, the    *)
(* peaks, the open bucket and the accepted samples have to do with each other, so*)
(* that the tiers agree.  Then Lookup, which relies on the order of the tiers.  *)
(* Then the buckets: BInv says what the newest, the open and the closed buckets *)
(* tell of the samples, so that they are exact.  Last the worst of many buckets: *)
(* with WInv, that no bucket is left out, the three tiers together show it.     *)
EXTENDS SeriesHistory, FiniteSetTheorems, SequenceTheorems, WellFoundedInduction, NaturalsInduction, TLAPS

-----------------------------------------------------------------------------
(* The newest elements of a sequence *)

\* They are the sequence without its first d elements.
Rest(w, s, d) == d \in 0..Len(s) /\ Len(w) = Len(s) - d /\ \A i \in 1..Len(w) : w[i] = s[d + i]

LEMMA RestOf ==
    ASSUME NEW S, NEW s \in Seq(S), NEW d \in 0..Len(s)
    PROVE  SubSeq(s, d + 1, Len(s)) \in Seq(S) /\ Rest(SubSeq(s, d + 1, Len(s)), s, d)
<1>1. Len(s) \in Nat
  OBVIOUS
<1> QED
  BY <1>1 DEF Rest

LEMMA SameRest ==
    ASSUME NEW S, NEW s \in Seq(S), NEW w \in Seq(S), NEW v \in Seq(S), NEW d, Rest(w, s, d), Rest(v, s, d)
    PROVE  w = v
BY SeqEqual DEF Rest

LEMMA NewestIs ==
    ASSUME NEW S, NEW s \in Seq(S), NEW L \in Nat
    PROVE  LET d == IF Len(s) > L THEN Len(s) - L ELSE 0
           IN  Newest(s, L) \in Seq(S) /\ Rest(Newest(s, L), s, d) /\ Len(Newest(s, L)) <= L
<1>1. Len(s) \in Nat
  OBVIOUS
<1>2. CASE Len(s) > L
  <2> DEFINE d == Len(s) - L
  <2>1. d \in 0..Len(s) /\ Newest(s, L) = SubSeq(s, d + 1, Len(s))
    BY <1>1, <1>2 DEF Newest
  <2>2. Newest(s, L) \in Seq(S) /\ Rest(Newest(s, L), s, d)
    BY <2>1, RestOf
  <2>3. Len(Newest(s, L)) <= L
    BY <1>1, <1>2, <2>2 DEF Rest
  <2> QED
    BY <1>2, <2>2, <2>3
<1>3. CASE ~(Len(s) > L)
  <2>1. Newest(s, L) = s
    BY <1>3 DEF Newest
  <2> QED
    BY <1>1, <1>3, <2>1 DEF Rest
<1> QED
  BY <1>2, <1>3

\* One more element, whatever came before the newest.
LEMMA NewestAppend ==
    ASSUME NEW S, NEW s \in Seq(S), NEW p \in S, NEW L \in Nat \ {0}
    PROVE  Newest(Append(Newest(s, L), p), L) = Newest(Append(s, p), L)
<1> DEFINE w == Newest(s, L)
           a == Append(w, p)
           b == Append(s, p)
<1>1. CASE Len(s) <= L
  BY <1>1 DEF Newest
<1>2. CASE Len(s) > L
  <2> DEFINE d == Len(s) - L
  <2>1. w \in Seq(S) /\ Rest(w, s, d) /\ Len(w) = L /\ Len(s) \in Nat /\ d \in Nat
    BY <1>2, NewestIs DEF Rest
  <2> HIDE DEF w
  <2>2. /\ a \in Seq(S) /\ Len(a) = L + 1 /\ \A i \in 1..L : a[i] = w[i]
        /\ a[L + 1] = p
    BY <2>1, AppendProperties
  <2>3. /\ b \in Seq(S) /\ Len(b) = d + L + 1 /\ \A i \in 1..Len(s) : b[i] = s[i]
        /\ b[d + L + 1] = p
    BY <2>1, AppendProperties
  <2> DEFINE x == Newest(a, L)
             y == Newest(b, L)
  <2> HIDE DEF a, b, d
  <2>4. x \in Seq(S) /\ Rest(x, a, 1) /\ Len(x) = L
    <3>1. Len(a) > L /\ Len(a) - L = 1
      BY <2>2
    <3>2. x \in Seq(S) /\ Rest(x, a, 1)
      BY <2>2, <3>1, NewestIs
    <3> QED
      BY <2>2, <3>2 DEF Rest
  <2>5. y \in Seq(S) /\ Rest(y, b, d + 1) /\ Len(y) = L
    <3>1. Len(b) > L /\ Len(b) - L = d + 1
      BY <2>1, <2>3
    <3>2. y \in Seq(S) /\ Rest(y, b, d + 1)
      BY <2>3, <3>1, NewestIs
    <3>3. Len(y) = Len(b) - (d + 1)
      BY <3>2 DEF Rest
    <3> HIDE DEF y
    <3>4. Len(y) = L
      BY <2>1, <2>3, <3>3
    <3> QED
      BY <3>2, <3>4
  <2> HIDE DEF x, y
  <2>6. ASSUME NEW i \in 1..L PROVE x[i] = y[i]
    <3>1. x[i] = a[1 + i] /\ y[i] = b[(d + 1) + i]
      BY <2>4, <2>5 DEF Rest
    <3>2. CASE i = L
      <4>1. 1 + i = L + 1 /\ (d + 1) + i = d + L + 1
        BY <2>1, <3>2
      <4> QED
        BY <2>2, <2>3, <3>1, <4>1
    <3>3. CASE i # L
      <4>1. 1 + i \in 1..L /\ (d + 1) + i \in 1..Len(s) /\ (d + 1) + i = d + (1 + i)
        BY <2>1, <3>3 DEF d
      <4>2. w[1 + i] = s[d + (1 + i)]
        BY <2>1, <4>1 DEF Rest
      <4> QED
        BY <2>2, <2>3, <3>1, <4>1, <4>2
    <3> QED
      BY <3>2, <3>3
  <2>7. x = y
    BY <2>4, <2>5, <2>6, SeqEqual
  <2> QED
    BY <2>7 DEF a, b, x, y, w
<1>3. Len(s) \in Nat
  OBVIOUS
<1> QED
  BY <1>1, <1>2, <1>3

\* series.go, appendRaw: the slide keeps what readers see.
LEMMA SlideShows ==
    ASSUME NEW S, NEW b \in Seq(S), NEW p \in S, NEW L \in Nat \ {0}, Len(b) >= L
    PROVE  LET a == Append(SubSeq(b, Len(b) - (L - 1) + 1, Len(b)), p)
           IN  /\ a \in Seq(S) /\ Len(a) = L
               /\ Newest(a, L) = Newest(Append(b, p), L)
               /\ Rest(a, Append(b, p), Len(b) - (L - 1))
<1> DEFINE d == Len(b) - (L - 1)
           k == SubSeq(b, d + 1, Len(b))
           a == Append(k, p)
           c == Append(b, p)
<1>1. Len(b) \in Nat /\ d \in 1..Len(b) + 1 /\ Len(b) = d + (L - 1) /\ d \in Nat
  OBVIOUS
<1>2. k \in Seq(S) /\ Len(k) = L - 1 /\ \A i \in 1..L - 1 : k[i] = b[d + i]
  <2> HIDE DEF d
  <2> QED
    BY <1>1
<1> HIDE DEF k
<1>3. a \in Seq(S) /\ Len(a) = L /\ a[L] = p /\ \A i \in 1..L - 1 : a[i] = k[i]
  BY <1>2, AppendProperties
<1>4. c \in Seq(S) /\ Len(c) = d + L /\ c[d + L] = p /\ \A i \in 1..Len(b) : c[i] = b[i]
  <2>1. Len(b) + 1 = d + L
    BY <1>1
  <2> QED
    BY <2>1, AppendProperties
<1> HIDE DEF a, c, d
<1>5. Rest(a, c, d)
  <2>1. ASSUME NEW i \in 1..L PROVE a[i] = c[d + i]
    <3>1. CASE i = L
      BY <1>3, <1>4, <3>1
    <3>2. CASE i # L
      <4>1. i \in 1..L - 1 /\ d + i \in 1..Len(b)
        BY <1>1, <3>2
      <4> QED
        BY <1>2, <1>3, <1>4, <4>1
    <3> QED
      BY <3>1, <3>2
  <2>2. d \in 0..Len(c) /\ Len(a) = Len(c) - d
    BY <1>1, <1>3, <1>4
  <2> QED
    BY <1>3, <2>1, <2>2 DEF Rest
<1>6. Newest(a, L) = a
  BY <1>3 DEF Newest
<1>7. Newest(c, L) \in Seq(S) /\ Rest(Newest(c, L), c, d)
  <2>1. Len(c) > L /\ Len(c) - L = d
    BY <1>1, <1>4
  <2> QED
    BY <1>4, <2>1, NewestIs
<1>8. Newest(c, L) = a
  BY <1>3, <1>4, <1>5, <1>7, SameRest
<1> QED
  BY <1>3, <1>5, <1>6, <1>8 DEF a, c, k, d

\* Prune: what readers see of a buffer without its first k points.
LEMMA TrimShows ==
    ASSUME NEW S, NEW b \in Seq(S), NEW k \in 0..Len(b), NEW L \in Nat \ {0}
    PROVE  LET v == Newest(b, L)
               w == Newest(SubSeq(b, k + 1, Len(b)), L)
           IN  w = v \/ \E j \in 1..Len(v) : w = SubSeq(v, j + 1, Len(v))
<1> DEFINE n == Len(b)
           c == SubSeq(b, k + 1, n)
           v == Newest(b, L)
           w == Newest(c, L)
           e == IF n > L THEN n - L ELSE 0
<1>1. n \in Nat /\ k \in Nat /\ k <= n /\ e \in 0..n
  OBVIOUS
<1>2. c \in Seq(S) /\ Rest(c, b, k)
  BY RestOf
<1>3. v \in Seq(S) /\ Rest(v, b, e) /\ Len(v) <= L
  BY NewestIs
<1> HIDE DEF c, v
<1>4. Len(c) = n - k /\ \A i \in 1..Len(c) : c[i] = b[k + i]
  BY <1>2 DEF Rest
<1>5. Len(v) = n - e /\ \A i \in 1..Len(v) : v[i] = b[e + i]
  BY <1>3 DEF Rest
<1>6. CASE n - k > L
  <2>1. n > L /\ e = n - L
    BY <1>1, <1>6
  <2>2. w \in Seq(S) /\ Rest(w, c, (n - k) - L)
    BY <1>2, <1>4, <1>6, NewestIs
  <2> HIDE DEF w
  <2>3. Len(w) = L /\ \A i \in 1..L : w[i] = c[((n - k) - L) + i]
    BY <1>1, <1>4, <1>6, <2>2 DEF Rest
  <2>4. ASSUME NEW i \in 1..L PROVE w[i] = v[i]
    <3> DEFINE m == ((n - k) - L) + i
    <3>1. m \in 1..Len(c) /\ k + m = e + i /\ i \in 1..Len(v)
      BY <1>1, <1>4, <1>5, <1>6, <2>1
    <3>2. w[i] = c[m]
      BY <2>3
    <3> HIDE DEF m, e
    <3>3. c[m] = b[k + m] /\ v[i] = b[e + i]
      BY <1>4, <1>5, <3>1
    <3> QED
      BY <3>1, <3>2, <3>3
  <2>5. Len(v) = L
    BY <1>1, <1>5, <2>1
  <2>6. w = v
    BY <1>3, <2>2, <2>3, <2>4, <2>5, SeqEqual
  <2> QED
    BY <2>6 DEF w, v, c
<1>7. CASE ~(n - k > L)
  <2>1. w = c /\ k >= e
    BY <1>1, <1>4, <1>7 DEF Newest
  <2> HIDE DEF w, e
  <2>2. CASE k = e
    <3>1. c = v
      BY <1>2, <1>3, <2>2, SameRest
    <3> QED
      BY <2>1, <3>1 DEF w, v, c
  <2>3. CASE k # e
    <3> DEFINE j == k - e
               u == SubSeq(v, j + 1, Len(v))
    <3>1. j \in 1..Len(v) /\ j \in 0..Len(v)
      BY <1>1, <1>5, <2>1, <2>3
    <3>2. u \in Seq(S) /\ Len(u) = Len(v) - j /\ \A i \in 1..Len(u) : u[i] = v[j + i]
      <4> HIDE DEF j
      <4> QED
        BY <1>3, <3>1, RestOf DEF Rest
    <3> HIDE DEF u
    <3>3. Len(u) = Len(c)
      BY <1>1, <1>4, <1>5, <3>1, <3>2
    <3>4. ASSUME NEW i \in 1..Len(c) PROVE u[i] = c[i]
      <4>1. j + i \in 1..Len(v) /\ e + (j + i) = k + i
        BY <1>1, <1>4, <1>5, <3>1
      <4> QED
        BY <1>4, <1>5, <3>2, <3>3, <4>1
    <3>5. u = c
      BY <1>2, <3>2, <3>3, <3>4, SeqEqual
    <3> QED
      BY <2>1, <3>1, <3>5 DEF u, w, v, c
  <2> QED
    BY <2>2, <2>3
<1> QED
  BY <1>1, <1>6, <1>7

\* What appending a point does, in whichever way.
LEMMA PutShows ==
    ASSUME NEW S, NEW b \in Seq(S), NEW p \in S, NEW L \in Nat \ {0}, NEW a,
           \/ a = Append(b, p)
           \/ Len(b) >= L /\ a = Append(SubSeq(b, Len(b) - (L - 1) + 1, Len(b)), p)
    PROVE  /\ Newest(a, L) = Newest(Append(Newest(b, L), p), L)
           /\ a \in Seq(S) /\ Len(a) \in Nat \ {0} /\ a[Len(a)] = p
           /\ \E d \in 0..Len(b) : Rest(a, Append(b, p), d)
<1> DEFINE c == Append(b, p)
<1>1. c \in Seq(S) /\ Len(c) = Len(b) + 1 /\ c[Len(b) + 1] = p /\ Len(b) \in Nat
  BY AppendProperties
<1> HIDE DEF c
<1>2. CASE a = c
  BY <1>1, <1>2, NewestAppend DEF Rest, c
<1>3. CASE Len(b) >= L /\ a = Append(SubSeq(b, Len(b) - (L - 1) + 1, Len(b)), p)
  <2> DEFINE d == Len(b) - (L - 1)
  <2>1. a \in Seq(S) /\ Len(a) = L /\ Newest(a, L) = Newest(c, L) /\ Rest(a, c, d)
    BY <1>3, SlideShows DEF c
  <2>2. L \in 1..Len(a) /\ d + L = Len(b) + 1 /\ d \in 0..Len(b)
    BY <1>1, <1>3, <2>1
  <2>3. a[L] = p
    BY <1>1, <2>1, <2>2 DEF Rest
  <2> QED
    BY <2>1, <2>2, <2>3, NewestAppend DEF c
<1> QED
  BY <1>2, <1>3 DEF c

-----------------------------------------------------------------------------
(* The buffer of one tier *)

CONSTANTS Point, Limit, Slack, FirstCap
VARIABLES buf, cap
Ring == INSTANCE RingBuffer WITH MinCap <- FirstCap

\* The buffer never outgrows its capacity, nor the capacity CapMax.
THEOREM TypeInvariant == ASSUME Ring!RingAssumption PROVE Ring!Spec => []Ring!TypeOK
<1> USE DEF Ring!RingAssumption
<1>1. Ring!Init => Ring!TypeOK
  BY Ring!RingAssumption DEF Ring!Init, Ring!TypeOK, Ring!CapMax
<1>2. Ring!TypeOK /\ [Ring!Next]_Ring!vars => Ring!TypeOK'
  <2> SUFFICES ASSUME Ring!TypeOK, [Ring!Next]_Ring!vars PROVE Ring!TypeOK'
    OBVIOUS
  <2> USE Ring!RingAssumption DEF Ring!TypeOK, Ring!CapMax
  <2>1. CASE UNCHANGED Ring!vars
    BY <2>1 DEF Ring!vars
  <2>2. ASSUME NEW p \in Point, Ring!Plain(p) PROVE Ring!TypeOK'
    BY <2>2 DEF Ring!Plain
  <2>3. ASSUME NEW p \in Point, Ring!Slide(p) PROVE Ring!TypeOK'
    <3>1. Ring!Kept(Limit - 1) \in Seq(Point) /\ Len(Ring!Kept(Limit - 1)) = Limit - 1
      BY <2>3 DEF Ring!Slide, Ring!Kept
    <3> QED
      BY <2>3, <3>1 DEF Ring!Slide
  <2>4. ASSUME NEW p \in Point, Ring!Grow(p) PROVE Ring!TypeOK'
    <3>1. Ring!Grown \in 0 .. Ring!CapMax /\ Ring!Grown > cap
      BY <2>4 DEF Ring!Grow, Ring!Grown, Ring!Smaller, Ring!Larger
    <3> QED
      BY <2>4, <3>1 DEF Ring!Grow
  <2>5. ASSUME NEW k \in 1 .. Len(buf), Ring!Trim(k) PROVE Ring!TypeOK'
    <3>1. buf' \in Seq(Point) /\ Len(buf') = Len(buf) - k
      BY <2>5 DEF Ring!Trim
    <3> QED
      BY <2>5, <3>1 DEF Ring!Trim
  <2> QED
    BY <2>1, <2>2, <2>3, <2>4, <2>5 DEF Ring!Next, Ring!Put
<1> QED
  BY <1>1, <1>2, PTL DEF Ring!Spec

\* Readers see the newest Limit points through every growth, slide and cut.
THEOREM Refinement == ASSUME Ring!RingAssumption PROVE Ring!Spec => Ring!ShowsNewest
<1>1. Ring!Init => Ring!W!Init
  BY Ring!RingAssumption DEF Ring!RingAssumption, Ring!Init, Ring!W!Init, Ring!Visible
<1>2. Ring!TypeOK /\ [Ring!Next]_Ring!vars => [Ring!W!Next]_Ring!Visible
  <2> SUFFICES ASSUME Ring!TypeOK, [Ring!Next]_Ring!vars
               PROVE  Ring!W!Next \/ Ring!Visible' = Ring!Visible
    OBVIOUS
  <2>1. /\ Ring!Visible = Newest(buf, Limit) /\ Ring!Visible' = Newest(buf', Limit)
        /\ \A s : Ring!W!Newest(s, Limit) = Newest(s, Limit)
        /\ buf \in Seq(Point) /\ Limit \in Nat \ {0}
    BY Ring!RingAssumption DEF Ring!RingAssumption, Ring!TypeOK, Ring!Visible, Ring!W!Newest, Newest
  <2>2. CASE UNCHANGED Ring!vars
    BY <2>2 DEF Ring!vars, Ring!Visible
  <2>3. ASSUME NEW p \in Point, Ring!Put(p) PROVE Ring!W!Put(p)
    <3>1. \/ buf' = Append(buf, p)
          \/ /\ Len(buf) >= Limit
             /\ buf' = Append(SubSeq(buf, Len(buf) - (Limit - 1) + 1, Len(buf)), p)
      BY <2>3 DEF Ring!Put, Ring!Plain, Ring!Slide, Ring!Grow, Ring!Kept
    <3>2. Newest(buf', Limit) = Newest(Append(Newest(buf, Limit), p), Limit)
      BY <2>1, <3>1, PutShows
    <3> QED
      BY <2>1, <3>2 DEF Ring!W!Put
  <2>4. ASSUME NEW k \in 1 .. Len(buf), Ring!Trim(k)
        PROVE  Ring!Visible' = Ring!Visible \/ \E j \in 1 .. Len(Ring!Visible) : Ring!W!Trim(j)
    <3>1. k \in 0..Len(buf) /\ buf' = SubSeq(buf, k + 1, Len(buf))
      BY <2>4 DEF Ring!Trim
    <3> QED
      BY <2>1, <3>1, TrimShows DEF Ring!W!Trim
  <2> QED
    BY <2>2, <2>3, <2>4 DEF Ring!Next, Ring!W!Next
<1> QED
  BY <1>1, <1>2, TypeInvariant, PTL DEF Ring!Spec, Ring!ShowsNewest, Ring!W!Spec

-----------------------------------------------------------------------------
(* The buffers of a series *)

RawPoint == [n : Int, v : Value]
CoarsePoint == [t : Int, v : Value]
Peak == [t : 1..MaxTime, p : Value]

LEMMA Tiers ==
    ASSUME RawRing!TypeOK, CoarseRing!TypeOK
    PROVE  /\ rbuf \in Seq(RawPoint) /\ raw = Newest(rbuf, MaxRaw)
           /\ cbuf \in Seq(CoarsePoint) /\ coarse = Newest(cbuf, MaxCoarse)
           /\ MaxRaw \in Nat \ {0} /\ MaxCoarse \in Nat \ {0}
           /\ coarse \in Seq(CoarsePoint) /\ \E d \in Nat : Rest(coarse, cbuf, d)
           /\ raw \in Seq(RawPoint) /\ \E d \in Nat : Rest(raw, rbuf, d)
           /\ Len(rbuf) > 0 => Len(raw) > 0 /\ raw[Len(raw)] = rbuf[Len(rbuf)]
           /\ Len(cbuf) > 0 => Len(coarse) > 0 /\ coarse[Len(coarse)] = cbuf[Len(cbuf)]
<1>1. /\ rbuf \in Seq(RawPoint) /\ raw = Newest(rbuf, MaxRaw)
      /\ cbuf \in Seq(CoarsePoint) /\ coarse = Newest(cbuf, MaxCoarse)
      /\ MaxRaw \in Nat \ {0} /\ MaxCoarse \in Nat \ {0}
  BY SeriesAssumption DEF RawRing!TypeOK, CoarseRing!TypeOK, RawPoint, CoarsePoint, raw, coarse,
     RawRing!Visible, CoarseRing!Visible, Newest
<1>2. ASSUME NEW S, NEW s \in Seq(S), NEW L \in Nat \ {0}
      PROVE  /\ Newest(s, L) \in Seq(S) /\ \E d \in Nat : Rest(Newest(s, L), s, d)
             /\ Len(s) > 0 => Len(Newest(s, L)) > 0 /\ Newest(s, L)[Len(Newest(s, L))] = s[Len(s)]
  <2> DEFINE w == Newest(s, L)
             d == IF Len(s) > L THEN Len(s) - L ELSE 0
  <2>1. w \in Seq(S) /\ Rest(w, s, d) /\ Len(w) <= L /\ Len(s) \in Nat /\ d \in Nat
    BY NewestIs
  <2>2. Len(s) > 0 => d < Len(s)
    OBVIOUS
  <2> HIDE DEF w, d
  <2>3. Len(w) = Len(s) - d /\ \A i \in 1..Len(w) : w[i] = s[d + i]
    BY <2>1 DEF Rest
  <2>4. ASSUME Len(s) > 0 PROVE Len(w) > 0 /\ w[Len(w)] = s[Len(s)]
    <3>1. Len(w) \in 1..Len(w) /\ d + Len(w) = Len(s)
      BY <2>1, <2>2, <2>3, <2>4
    <3> QED
      BY <2>3, <3>1
  <2> QED
    BY <2>1, <2>4 DEF w
<1> QED
  BY <1>1, <1>2

\* series.go, appendRaw and appendCapped.
LEMMA RawPuts ==
    ASSUME RawRing!TypeOK, NEW p \in RawPoint, RawRing!Put(p)
    PROVE  /\ RawRing!TypeOK' /\ raw' = Newest(Append(raw, p), MaxRaw)
           /\ Len(rbuf') \in Nat \ {0} /\ rbuf'[Len(rbuf')] = p
           /\ \E d \in 0..Len(rbuf) : Rest(rbuf', Append(rbuf, p), d)
<1>1. /\ rbuf \in Seq(RawPoint) /\ raw = Newest(rbuf, MaxRaw) /\ raw' = Newest(rbuf', MaxRaw)
      /\ MaxRaw \in Nat \ {0} /\ RawSlack \in Nat /\ MinCap \in Nat \ {0}
      /\ rcap \in 0..MaxRaw + RawSlack /\ Len(rbuf) \in Nat /\ Len(rbuf) <= rcap
  BY SeriesAssumption DEF RawRing!TypeOK, RawRing!CapMax, RawPoint, raw, RawRing!Visible, Newest
<1>2. \/ rbuf' = Append(rbuf, p)
      \/ Len(rbuf) >= MaxRaw /\ rbuf' = Append(SubSeq(rbuf, Len(rbuf) - (MaxRaw - 1) + 1, Len(rbuf)), p)
  BY DEF RawRing!Put, RawRing!Plain, RawRing!Slide, RawRing!Grow, RawRing!Kept
<1>3. /\ Newest(rbuf', MaxRaw) = Newest(Append(Newest(rbuf, MaxRaw), p), MaxRaw)
      /\ rbuf' \in Seq(RawPoint) /\ Len(rbuf') \in Nat \ {0} /\ rbuf'[Len(rbuf')] = p
      /\ \E d \in 0..Len(rbuf) : Rest(rbuf', Append(rbuf, p), d)
  BY <1>1, <1>2, PutShows
<1>4. rcap' \in 0..MaxRaw + RawSlack /\ Len(rbuf') <= rcap'
  <2>1. CASE RawRing!Plain(p)
    BY <1>1, <2>1, AppendProperties DEF RawRing!Plain
  <2>2. CASE RawRing!Slide(p)
    <3>1. Len(rbuf') = MaxRaw /\ Len(rbuf) >= MaxRaw /\ Len(rbuf) = rcap /\ rcap' = rcap
      BY <1>1, <2>2, SlideShows DEF RawRing!Slide, RawRing!Kept
    <3> QED
      BY <1>1, <3>1
  <2>3. CASE RawRing!Grow(p)
    <3>1. rcap' \in 0..MaxRaw + RawSlack /\ rcap' > rcap
      BY <1>1, <2>3 DEF RawRing!Grow, RawRing!Grown, RawRing!Smaller, RawRing!Larger, RawRing!CapMax
    <3>2. Len(rbuf') = Len(rbuf) + 1
      BY <1>1, <2>3, AppendProperties DEF RawRing!Grow
    <3> QED
      BY <1>1, <3>1, <3>2
  <2> QED
    BY <2>1, <2>2, <2>3 DEF RawRing!Put
<1> QED
  BY <1>1, <1>3, <1>4 DEF RawRing!TypeOK, RawRing!CapMax, RawPoint

LEMMA CoarsePuts ==
    ASSUME CoarseRing!TypeOK, NEW p \in CoarsePoint, CoarseRing!Put(p)
    PROVE  /\ CoarseRing!TypeOK' /\ coarse' = Newest(Append(coarse, p), MaxCoarse)
           /\ Len(cbuf') \in Nat \ {0} /\ cbuf'[Len(cbuf')] = p
           /\ \E d \in 0..Len(cbuf) : Rest(cbuf', Append(cbuf, p), d)
<1>1. /\ cbuf \in Seq(CoarsePoint) /\ coarse = Newest(cbuf, MaxCoarse) /\ coarse' = Newest(cbuf', MaxCoarse)
      /\ MaxCoarse \in Nat \ {0} /\ CoarseSlack \in Nat /\ MinCap \in Nat \ {0}
      /\ ccap \in 0..MaxCoarse + CoarseSlack /\ Len(cbuf) \in Nat /\ Len(cbuf) <= ccap
  BY SeriesAssumption
     DEF CoarseRing!TypeOK, CoarseRing!CapMax, CoarsePoint, coarse, CoarseRing!Visible, Newest
<1>2. \/ cbuf' = Append(cbuf, p)
      \/ /\ Len(cbuf) >= MaxCoarse
         /\ cbuf' = Append(SubSeq(cbuf, Len(cbuf) - (MaxCoarse - 1) + 1, Len(cbuf)), p)
  BY DEF CoarseRing!Put, CoarseRing!Plain, CoarseRing!Slide, CoarseRing!Grow, CoarseRing!Kept
<1>3. /\ Newest(cbuf', MaxCoarse) = Newest(Append(Newest(cbuf, MaxCoarse), p), MaxCoarse)
      /\ cbuf' \in Seq(CoarsePoint) /\ Len(cbuf') \in Nat \ {0} /\ cbuf'[Len(cbuf')] = p
      /\ \E d \in 0..Len(cbuf) : Rest(cbuf', Append(cbuf, p), d)
  BY <1>1, <1>2, PutShows
<1>4. ccap' \in 0..MaxCoarse + CoarseSlack /\ Len(cbuf') <= ccap'
  <2>1. CASE CoarseRing!Plain(p)
    BY <1>1, <2>1, AppendProperties DEF CoarseRing!Plain
  <2>2. CASE CoarseRing!Slide(p)
    <3>1. Len(cbuf') = MaxCoarse /\ Len(cbuf) >= MaxCoarse /\ Len(cbuf) = ccap /\ ccap' = ccap
      BY <1>1, <2>2, SlideShows DEF CoarseRing!Slide, CoarseRing!Kept
    <3> QED
      BY <1>1, <3>1
  <2>3. CASE CoarseRing!Grow(p)
    <3>1. ccap' \in 0..MaxCoarse + CoarseSlack /\ ccap' > ccap
      BY <1>1, <2>3
         DEF CoarseRing!Grow, CoarseRing!Grown, CoarseRing!Smaller, CoarseRing!Larger, CoarseRing!CapMax
    <3>2. Len(cbuf') = Len(cbuf) + 1
      BY <1>1, <2>3, AppendProperties DEF CoarseRing!Grow
    <3> QED
      BY <1>1, <3>1, <3>2
  <2> QED
    BY <2>1, <2>2, <2>3 DEF CoarseRing!Put
<1> QED
  BY <1>1, <1>3, <1>4 DEF CoarseRing!TypeOK, CoarseRing!CapMax, CoarsePoint

\* Prune: what is left is behind what readers saw, or part of it.
LEMMA CoarseTrims ==
    ASSUME CoarseRing!TypeOK, NEW k \in Nat, k < Len(cbuf), CoarseRing!Trim(k)
    PROVE  /\ CoarseRing!TypeOK' /\ Rest(cbuf', cbuf, k)
           /\ \E d \in Nat : Rest(coarse', coarse, d)
<1>1. /\ cbuf \in Seq(CoarsePoint) /\ coarse = Newest(cbuf, MaxCoarse) /\ coarse' = Newest(cbuf', MaxCoarse)
      /\ MaxCoarse \in Nat \ {0} /\ k \in 0..Len(cbuf) /\ cbuf' = SubSeq(cbuf, k + 1, Len(cbuf))
      /\ ccap' = ccap /\ ccap \in 0..MaxCoarse + CoarseSlack /\ Len(cbuf) <= ccap /\ Len(cbuf) \in Nat
  BY SeriesAssumption
     DEF CoarseRing!TypeOK, CoarseRing!CapMax, CoarsePoint, coarse, CoarseRing!Visible, Newest, CoarseRing!Trim
<1>2. cbuf' \in Seq(CoarsePoint) /\ Rest(cbuf', cbuf, k)
  BY <1>1, RestOf
<1>3. Len(cbuf') = Len(cbuf) - k
  BY <1>2 DEF Rest
<1>4. CoarseRing!TypeOK'
  <2>1. Len(cbuf') <= ccap'
    BY <1>1, <1>3, SeriesAssumption
  <2> QED
    BY <1>1, <1>2, <2>1 DEF CoarseRing!TypeOK, CoarseRing!CapMax, CoarsePoint
<1>5. coarse' = coarse \/ \E j \in 1..Len(coarse) : coarse' = SubSeq(coarse, j + 1, Len(coarse))
  BY <1>1, TrimShows
<1>6. coarse \in Seq(CoarsePoint)
  BY <1>1, NewestIs
<1>7. CASE coarse' = coarse
  <2>1. Rest(coarse', coarse, 0)
    BY <1>6, <1>7 DEF Rest
  <2> QED
    BY <1>2, <1>4, <2>1
<1>8. ASSUME NEW j \in 1..Len(coarse), coarse' = SubSeq(coarse, j + 1, Len(coarse))
      PROVE  \E d \in Nat : Rest(coarse', coarse, d)
  <2>1. j \in 0..Len(coarse)
    OBVIOUS
  <2> QED
    BY <1>6, <1>8, <2>1, RestOf
<1> QED
  BY <1>2, <1>4, <1>5, <1>7, <1>8

-----------------------------------------------------------------------------
(* Times and orders *)

LEMMA Seconds ==
    /\ \A n \in Sec..MaxTime : n \in Nat /\ Unix(n) \in 1..MaxTime
    /\ \A t \in Nat, r \in Int : (t * Sec - r * Sec) \div Sec = t - r
    /\ \A n \in Nat, r \in Int : (n - r * Sec) \div Sec = Unix(n) - r
<1>1. ASSUME NEW n \in Sec..MaxTime PROVE n \in Nat /\ Unix(n) \in 1..MaxTime
  BY SeriesAssumption DEF Unix
<1>2. ASSUME NEW t \in Nat, NEW r \in Int PROVE (t * Sec - r * Sec) \div Sec = t - r
  BY SeriesAssumption
<1>3. ASSUME NEW n \in Nat, NEW r \in Int PROVE (n - r * Sec) \div Sec = Unix(n) - r
  BY SeriesAssumption DEF Unix
<1> QED
  BY <1>1, <1>2, <1>3, Zenon

LEMMA Buckets ==
    ASSUME NEW t \in Nat, NEW u \in Nat
    PROVE  /\ BucketOf(t) \in Nat /\ BucketOf(u) \in Nat
           /\ t <= u => BucketOf(t) <= BucketOf(u)
           /\ BucketOf(t) < BucketOf(u) => t < u
           /\ BucketOf(t) <= BucketOf(u) => t < u + Step
<1>1. BucketOf(t) \in Nat /\ BucketOf(u) \in Nat
  BY SeriesAssumption DEF BucketOf
<1>2. /\ t <= u => BucketOf(t) <= BucketOf(u)
      /\ u <= t => BucketOf(u) <= BucketOf(t)
  BY SeriesAssumption DEF BucketOf
<1>3. BucketOf(t) <= BucketOf(u) => t < u + Step
  <2> DEFINE a == BucketOf(t)
             b == BucketOf(u)
  <2>1. t < a * Step + Step /\ b * Step <= u /\ Step \in Nat
    BY SeriesAssumption DEF BucketOf
  <2>2. a <= b => a * Step <= b * Step
    BY <1>1, <2>1
  <2>3. a * Step \in Nat /\ b * Step \in Nat
    BY <1>1, <2>1
  <2> HIDE DEF a, b
  <2>4. a <= b => t < u + Step
    BY <2>1, <2>2, <2>3
  <2> QED
    BY <2>4 DEF a, b
<1>4. BucketOf(t) < BucketOf(u) => t < u
  <2> HIDE DEF BucketOf
  <2> QED
    BY <1>1, <1>2
<1> QED
  BY <1>1, <1>2, <1>3, <1>4, Zenon

\* Each element of s is in relation R to every later one.
Ordered(s, R) == \A i, j \in 1..Len(s) : i < j => <<s[i], s[j]>> \in R

LEMMA OrderedRest ==
    ASSUME NEW S, NEW s \in Seq(S), NEW R, Ordered(s, R), NEW w, NEW d, Rest(w, s, d)
    PROVE  Ordered(w, R)
<1> SUFFICES ASSUME NEW i \in 1..Len(w), NEW j \in 1..Len(w), i < j PROVE <<w[i], w[j]>> \in R
  BY DEF Ordered
<1>1. /\ d \in 0..Len(s) /\ Len(w) = Len(s) - d /\ Len(s) \in Nat
      /\ w[i] = s[d + i] /\ w[j] = s[d + j]
  BY DEF Rest
<1>2. d + i \in 1..Len(s) /\ d + j \in 1..Len(s) /\ d + i < d + j
  BY <1>1
<1> QED
  BY <1>1, <1>2 DEF Ordered

LEMMA OrderedAppend ==
    ASSUME NEW S, NEW s \in Seq(S), NEW p \in S, NEW R, Ordered(s, R),
           \A i \in 1..Len(s) : <<s[i], p>> \in R
    PROVE  Append(s, p) \in Seq(S) /\ Ordered(Append(s, p), R)
<1>1. /\ Append(s, p) \in Seq(S) /\ Len(Append(s, p)) = Len(s) + 1 /\ Len(s) \in Nat
      /\ \A i \in 1..Len(s) : Append(s, p)[i] = s[i]
      /\ Append(s, p)[Len(s) + 1] = p
  BY AppendProperties
<1>2. \A i \in 1..Len(s) + 1 : i \in 1..Len(s) \/ i = Len(s) + 1
  BY <1>1
<1> HIDE DEF Ordered
<1> SUFFICES ASSUME NEW i \in 1..Len(s) + 1, NEW j \in 1..Len(s) + 1, i < j
             PROVE  <<Append(s, p)[i], Append(s, p)[j]>> \in R
  BY <1>1 DEF Ordered
<1>3. i \in 1..Len(s)
  BY <1>1
<1> QED
  BY <1>1, <1>2, <1>3 DEF Ordered

-----------------------------------------------------------------------------
(* The invariant *)

RawOrder == {x \in RawPoint \X RawPoint : x[1].n <= x[2].n}
BucketOrder == {x \in CoarsePoint \X CoarsePoint : BucketOf(x[1].t) < BucketOf(x[2].t)}
PeakOrder == {x \in Peak \X Peak : x[1].t < x[2].t}

Typed ==
    /\ RawRing!TypeOK /\ \A i \in 1..Len(rbuf) : rbuf[i].n \in Sec..MaxTime
    /\ CoarseRing!TypeOK /\ \A i \in 1..Len(cbuf) : cbuf[i].t \in 1..MaxTime
    /\ peaks \in Seq(Peak) /\ Len(peaks) <= MaxCoarse
    /\ open = {} \/ \E ob \in [t : 1..MaxTime, v : Value, worst : Value] : open = {ob}
    /\ pend \in Seq(Peak) /\ Len(pend) <= 1
    /\ clock \in Sec..MaxTime

InOrder == Ordered(rbuf, RawOrder) /\ Ordered(cbuf, BucketOrder) /\ Ordered(peaks, PeakOrder)

\* The newest point of each tier and the open bucket.
Ends ==
    /\ \A ob \in open : /\ Len(cbuf) > 0
                        /\ ob.t = cbuf[Len(cbuf)].t /\ ob.v = cbuf[Len(cbuf)].v
    /\ Len(rbuf) > 0 => /\ Len(cbuf) > 0
                        /\ BucketOf(Unix(rbuf[Len(rbuf)].n)) <= BucketOf(cbuf[Len(cbuf)].t)

HasBucket(C, k) ==
    \/ Len(C) > 0 /\ k.t < C[1].t
    \/ \E j \in 1..Len(C) : C[j].t = k.t /\ C[j].v # k.p

Paired == \A i \in 1..Len(peaks) : HasBucket(coarse, peaks[i])

\* The samples of earlier lives are the first m.
Earlier(m) == \A i \in 1..Len(accepted) : accepted[i].life < life <=> i <= m

Lives ==
    /\ life \in Nat \ {0}
    /\ accepted \in Seq([n : Sec..MaxTime, v : Value, life : 1..life])
    /\ \E m \in 0..Len(accepted) : Earlier(m)

TInv == Typed /\ InOrder /\ Ends /\ Paired /\ Lives /\ RawShowsNewest

\* What is behind the first points still holds the bucket of each peak.
LEMMA BucketStays ==
    ASSUME NEW C \in Seq(CoarsePoint), Ordered(C, BucketOrder), \A i \in 1..Len(C) : C[i].t \in Nat,
           NEW D, NEW d, Rest(D, C, d), Len(D) > 0,
           NEW k \in Peak, HasBucket(C, k)
    PROVE  HasBucket(D, k)
<1>1. /\ Len(C) \in Nat /\ d \in 0..Len(C) /\ Len(D) = Len(C) - d /\ k.t \in Int
      /\ \A i \in 1..Len(D) : D[i] = C[d + i]
  BY DEF Rest, Peak
<1>2. 1 \in 1..Len(D) /\ d + 1 \in 1..Len(C) /\ D[1] = C[d + 1]
  BY <1>1
<1>3. \A i \in 1..Len(C) : i < d + 1 => C[i].t < C[d + 1].t
  <2> SUFFICES ASSUME NEW i \in 1..Len(C), i < d + 1 PROVE C[i].t < C[d + 1].t
    OBVIOUS
  <2>1. BucketOf(C[i].t) < BucketOf(C[d + 1].t)
    BY <1>2 DEF Ordered, BucketOrder
  <2>2. C[i].t \in Nat /\ C[d + 1].t \in Nat
    BY <1>2
  <2> QED
    BY <2>1, <2>2, Buckets
<1>4. CASE Len(C) > 0 /\ k.t < C[1].t
  <2>1. 1 \in 1..Len(C) /\ (1 < d + 1 \/ d + 1 = 1)
    BY <1>1, <1>4
  <2>2. C[1].t \in Nat /\ C[d + 1].t \in Nat /\ (C[1].t < C[d + 1].t \/ C[1].t = C[d + 1].t)
    BY <1>2, <1>3, <2>1
  <2>3. k.t < D[1].t
    BY <1>1, <1>2, <1>4, <2>2
  <2> QED
    BY <2>3 DEF HasBucket
<1>5. CASE \E j \in 1..Len(C) : C[j].t = k.t /\ C[j].v # k.p
  <2>1. PICK j \in 1..Len(C) : C[j].t = k.t /\ C[j].v # k.p
    BY <1>5
  <2>2. CASE j < d + 1
    BY <1>2, <1>3, <2>1, <2>2 DEF HasBucket
  <2>3. CASE ~(j < d + 1)
    <3> DEFINE i == j - d
    <3>1. i \in 1..Len(D) /\ d + i = j
      BY <1>1, <2>3
    <3> HIDE DEF i
    <3>2. D[i].t = k.t /\ D[i].v # k.p
      BY <1>1, <2>1, <3>1
    <3> QED
      BY <3>1, <3>2 DEF HasBucket
  <2> QED
    BY <2>2, <2>3
<1> QED
  BY <1>4, <1>5 DEF HasBucket

\* The bucket of a peak that is in C is in a longer C.
LEMMA BucketAppended ==
    ASSUME NEW C \in Seq(CoarsePoint), NEW p \in CoarsePoint, NEW k, HasBucket(C, k)
    PROVE  HasBucket(Append(C, p), k)
<1>1. Len(Append(C, p)) = Len(C) + 1 /\ Len(C) \in Nat /\ \A i \in 1..Len(C) : Append(C, p)[i] = C[i]
  BY AppendProperties
<1>2. \A i \in 1..Len(C) : i \in 1..Len(Append(C, p))
  BY <1>1
<1>3. Len(C) > 0 => 1 \in 1..Len(C) /\ Len(Append(C, p)) > 0
  BY <1>1
<1> QED
  BY <1>1, <1>2, <1>3 DEF HasBucket

\* What readers see of each tier.
LEMMA SeenInOrder ==
    ASSUME TInv
    PROVE  /\ Ordered(raw, RawOrder) /\ Ordered(coarse, BucketOrder)
           /\ \A i \in 1..Len(coarse) : coarse[i].t \in 1..MaxTime
<1>1. /\ rbuf \in Seq(RawPoint) /\ cbuf \in Seq(CoarsePoint)
      /\ \E d \in Nat : Rest(coarse, cbuf, d)
      /\ \E d \in Nat : Rest(raw, rbuf, d)
  BY Tiers DEF TInv, Typed
<1>2. Ordered(raw, RawOrder) /\ Ordered(coarse, BucketOrder)
  BY <1>1, OrderedRest DEF TInv, InOrder
<1>3. PICK d \in Nat : Rest(coarse, cbuf, d)
  BY <1>1
<1>4. ASSUME NEW i \in 1..Len(coarse) PROVE coarse[i].t \in 1..MaxTime
  <2>1. coarse[i] = cbuf[d + i] /\ Len(coarse) = Len(cbuf) - d
    BY <1>3 DEF Rest
  <2>2. Len(cbuf) \in Nat
    BY <1>1
  <2>3. d + i \in 1..Len(cbuf)
    BY <2>1, <2>2
  <2> QED
    BY <2>1, <2>3 DEF TInv, Typed
<1> QED
  BY <1>2, <1>4

-----------------------------------------------------------------------------
(* Every step keeps the invariant *)

LEMMA StartsAgreeing == HInit => TInv
<1> SUFFICES ASSUME HInit PROVE TInv
  OBVIOUS
<1>1. /\ rbuf = <<>> /\ rcap = 0 /\ cbuf = <<>> /\ ccap = 0 /\ peaks = <<>> /\ open = {} /\ pend = <<>>
      /\ clock = Sec /\ accepted = <<>> /\ life = 1
  BY DEF HInit, Init
<1>2. Typed
  BY <1>1, SeriesAssumption
     DEF Typed, RawRing!TypeOK, CoarseRing!TypeOK, RawRing!CapMax, CoarseRing!CapMax
<1>3. InOrder /\ Ends /\ Lives
  BY <1>1 DEF InOrder, Ordered, Ends, Lives, Earlier
<1>4. Paired
  BY <1>1 DEF Paired
<1>5. RawShowsNewest
  <2>1. raw = <<>>
    BY <1>1, SeriesAssumption DEF raw, RawRing!Visible
  <2>2. {i \in DOMAIN accepted : accepted[i].life < life} = {}
    BY <1>1
  <2>3. Mine = <<>>
    BY <1>1, <2>2, FS_EmptySet DEF Mine
  <2> QED
    BY <2>1, <2>3, SeriesAssumption DEF RawShowsNewest, Newest
<1> QED
  BY <1>2, <1>3, <1>4, <1>5 DEF TInv

\* The samples of this life are those behind the first m.
LEMMA MineIs ==
    ASSUME NEW S, NEW q \in Seq(S), NEW l, NEW m \in 0..Len(q), \A i \in 1..Len(q) : q[i].life < l <=> i <= m
    PROVE  SubSeq(q, Cardinality({i \in DOMAIN q : q[i].life < l}) + 1, Len(q)) = SubSeq(q, m + 1, Len(q))
<1>1. Len(q) \in Nat /\ DOMAIN q = 1..Len(q)
  OBVIOUS
<1>2. {i \in DOMAIN q : q[i].life < l} = 1..m
  BY <1>1
<1>3. Cardinality(1..m) = m
  BY <1>1, FS_Interval
<1> QED
  BY <1>2, <1>3

Points(q) == [i \in 1..Len(q) |-> [n |-> q[i].n, v |-> q[i].v]]

LEMMA PointsAppend ==
    ASSUME NEW S, NEW q \in Seq(S), NEW e \in S, \A x \in S : [n |-> x.n, v |-> x.v] \in RawPoint
    PROVE  /\ Points(q) \in Seq(RawPoint)
           /\ Points(Append(q, e)) = Append(Points(q), [n |-> e.n, v |-> e.v])
<1> DEFINE a == Append(q, e)
           u == Points(a)
           w == Append(Points(q), [n |-> e.n, v |-> e.v])
<1>1. a \in Seq(S) /\ Len(a) = Len(q) + 1 /\ Len(q) \in Nat /\ a[Len(q) + 1] = e
      /\ \A i \in 1..Len(q) : a[i] = q[i]
  BY AppendProperties
<1> HIDE DEF a
<1>2. Points(q) \in Seq(RawPoint) /\ Len(Points(q)) = Len(q)
  BY <1>1 DEF Points
<1>3. u \in Seq(RawPoint) /\ Len(u) = Len(q) + 1
  BY <1>1 DEF Points
<1>4. w \in Seq(RawPoint) /\ Len(w) = Len(q) + 1 /\ w[Len(q) + 1] = [n |-> e.n, v |-> e.v]
      /\ \A i \in 1..Len(q) : w[i] = Points(q)[i]
  <2>1. [n |-> e.n, v |-> e.v] \in RawPoint
    OBVIOUS
  <2> HIDE DEF Points
  <2> QED
    BY <1>1, <1>2, <2>1, AppendProperties
<1>5. ASSUME NEW i \in 1..Len(q) + 1 PROVE u[i] = w[i]
  <2>1. u[i] = [n |-> a[i].n, v |-> a[i].v]
    BY <1>1 DEF Points
  <2>2. CASE i = Len(q) + 1
    BY <1>1, <1>4, <2>1, <2>2
  <2>3. CASE i # Len(q) + 1
    <3>1. i \in 1..Len(q)
      BY <1>1, <2>3
    <3>2. Points(q)[i] = [n |-> q[i].n, v |-> q[i].v]
      BY <3>1 DEF Points
    <3> QED
      BY <1>1, <1>4, <2>1, <3>1, <3>2
  <2> QED
    BY <2>2, <2>3
<1> HIDE DEF u, w
<1>6. u = w
  BY <1>3, <1>4, <1>5, SeqEqual
<1> QED
  BY <1>2, <1>6 DEF u, w, a

\* A sample of this life is accepted.
LEMMA AddHistory ==
    ASSUME TInv, NEW n \in Sec..MaxTime, NEW v \in Value,
           raw' = Newest(Append(raw, [n |-> n, v |-> v]), MaxRaw),
           accepted' = Append(accepted, [n |-> n, v |-> v, life |-> life]), life' = life
    PROVE  Lives' /\ RawShowsNewest'
<1> DEFINE S == [n : Sec..MaxTime, v : Value, life : 1..life]
           e == [n |-> n, v |-> v, life |-> life]
           p == [n |-> n, v |-> v]
<1>1. life \in Nat \ {0} /\ accepted \in Seq(S) /\ Len(accepted) \in Nat /\ e \in S
      /\ MaxRaw \in Nat \ {0}
  BY SeriesAssumption DEF TInv, Lives
<1>2. PICK m \in 0..Len(accepted) : \A i \in 1..Len(accepted) : accepted[i].life < life <=> i <= m
  BY DEF TInv, Lives, Earlier
<1>3. e.n = n /\ e.v = v /\ e.life = life /\ p \in RawPoint /\ \A x \in S : [n |-> x.n, v |-> x.v] \in RawPoint
  BY SeriesAssumption DEF RawPoint
<1> HIDE DEF e
<1>4. /\ accepted' \in Seq(S) /\ Len(accepted') = Len(accepted) + 1 /\ accepted'[Len(accepted) + 1] = e
      /\ accepted' = Append(accepted, e)
      /\ \A i \in 1..Len(accepted) : accepted'[i] = accepted[i]
  BY <1>1, AppendProperties DEF e
<1>5. m \in 0..Len(accepted') /\ \A i \in 1..Len(accepted') : accepted'[i].life < life <=> i <= m
  <2>1. m \in 0..Len(accepted')
    BY <1>1, <1>4
  <2>2. ASSUME NEW i \in 1..Len(accepted') PROVE accepted'[i].life < life <=> i <= m
    <3>1. CASE i = Len(accepted) + 1
      BY <1>1, <1>3, <1>4, <3>1
    <3>2. CASE i # Len(accepted) + 1
      <4>1. i \in 1..Len(accepted)
        BY <1>1, <1>4, <3>2
      <4> QED
        BY <1>2, <1>4, <4>1
    <3> QED
      BY <3>1, <3>2
  <2> QED
    BY <2>1, <2>2
<1>6. Lives'
  BY <1>1, <1>4, <1>5 DEF Lives, Earlier
<1> DEFINE q == SubSeq(accepted, m + 1, Len(accepted))
           r == SubSeq(accepted', m + 1, Len(accepted'))
<1>7. Mine = q /\ Mine' = r
  <2>1. Mine = q
    BY <1>1, <1>2, MineIs DEF Mine
  <2>2. r = SubSeq(accepted', Cardinality({i \in DOMAIN accepted' : accepted'[i].life < life}) + 1, Len(accepted'))
    <3> DEFINE a == accepted'
    <3>1. a \in Seq(S) /\ m \in 0..Len(a) /\ \A i \in 1..Len(a) : a[i].life < life <=> i <= m
      BY <1>4, <1>5
    <3> HIDE DEF a
    <3>2. SubSeq(a, Cardinality({i \in DOMAIN a : a[i].life < life}) + 1, Len(a)) = SubSeq(a, m + 1, Len(a))
      BY <3>1, MineIs
    <3> QED
      BY <3>2 DEF a
  <2> QED
    BY <2>1, <2>2 DEF Mine
<1>8. q \in Seq(S) /\ Rest(q, accepted, m)
  BY <1>1, RestOf
<1>9. r \in Seq(S) /\ Rest(r, accepted', m)
  BY <1>4, <1>5, RestOf
<1> HIDE DEF q, r
<1>10. r = Append(q, e)
  <2> DEFINE w == Append(q, e)
  <2>1. w \in Seq(S) /\ Len(w) = Len(q) + 1 /\ w[Len(q) + 1] = e /\ \A i \in 1..Len(q) : w[i] = q[i]
    BY <1>1, <1>8, AppendProperties
  <2> HIDE DEF w
  <2>2. Len(q) = Len(accepted) - m /\ Len(r) = Len(q) + 1 /\ Len(q) \in Nat
    BY <1>1, <1>4, <1>8, <1>9 DEF Rest
  <2>3. ASSUME NEW i \in 1..Len(r) PROVE r[i] = w[i]
    <3>1. r[i] = accepted'[m + i]
      BY <1>9 DEF Rest
    <3>2. CASE i = Len(q) + 1
      <4>1. m + i = Len(accepted) + 1
        BY <1>1, <2>2, <3>2
      <4> QED
        BY <1>4, <2>1, <3>1, <3>2, <4>1
    <3>3. CASE i # Len(q) + 1
      <4>1. i \in 1..Len(q) /\ m + i \in 1..Len(accepted)
        <5>1. i \in Nat /\ i >= 1 /\ i <= Len(q) /\ m \in Nat
          BY <2>2, <3>3
        <5>2. m + i <= Len(accepted) /\ m + i >= 1
          BY <1>1, <2>2, <5>1
        <5> QED
          BY <1>1, <2>2, <5>1, <5>2
      <4>2. q[i] = accepted[m + i]
        BY <1>8, <4>1 DEF Rest
      <4> QED
        BY <1>4, <2>1, <3>1, <4>1, <4>2
    <3> QED
      BY <3>2, <3>3
  <2>4. r = w
    BY <1>9, <2>1, <2>2, <2>3, SeqEqual
  <2> QED
    BY <2>4 DEF w
<1>11. Points(q) \in Seq(RawPoint) /\ Points(r) = Append(Points(q), p)
  <2>1. Points(q) \in Seq(RawPoint) /\ Points(Append(q, e)) = Append(Points(q), [n |-> e.n, v |-> e.v])
    BY <1>1, <1>3, <1>8, PointsAppend
  <2> QED
    BY <1>3, <1>10, <2>1
<1>12. raw = Newest(Points(q), MaxRaw)
  BY <1>7 DEF TInv, RawShowsNewest, Points
<1> HIDE DEF p
<1>13. raw' = Newest(Points(r), MaxRaw)
  <2>1. raw' = Newest(Append(raw, p), MaxRaw)
    BY DEF p
  <2>2. Newest(Append(Newest(Points(q), MaxRaw), p), MaxRaw) = Newest(Append(Points(q), p), MaxRaw)
    BY <1>1, <1>3, <1>11, NewestAppend
  <2> QED
    BY <1>11, <1>12, <2>1, <2>2
<1>14. RawShowsNewest'
  BY <1>7, <1>13 DEF RawShowsNewest, Points
<1> QED
  BY <1>6, <1>14

\* series.go, Add: the raw tier takes a sample that is not from before its newest.
LEMMA AddRaw ==
    ASSUME TInv, NEW n \in Sec..MaxTime, NEW v \in Value, ~Backwards(n), RawRing!Put([n |-> n, v |-> v])
    PROVE  /\ RawRing!TypeOK' /\ raw' = Newest(Append(raw, [n |-> n, v |-> v]), MaxRaw)
           /\ \A i \in 1..Len(rbuf') : rbuf'[i].n \in Sec..MaxTime
           /\ Ordered(rbuf', RawOrder)
           /\ Len(rbuf') > 0 /\ rbuf'[Len(rbuf')].n = n
<1> DEFINE p == [n |-> n, v |-> v]
           b == Append(rbuf, p)
<1>1. p \in RawPoint /\ p.n = n /\ n \in Nat
  BY SeriesAssumption DEF RawPoint
<1>2. /\ RawRing!TypeOK /\ CoarseRing!TypeOK /\ rbuf \in Seq(RawPoint) /\ Len(rbuf) \in Nat
      /\ \A i \in 1..Len(rbuf) : rbuf[i].n \in Sec..MaxTime
      /\ Ordered(rbuf, RawOrder)
  BY Tiers DEF TInv, Typed, InOrder
<1>3. /\ RawRing!TypeOK' /\ raw' = Newest(Append(raw, p), MaxRaw)
      /\ Len(rbuf') \in Nat \ {0} /\ rbuf'[Len(rbuf')] = p
      /\ \E d \in 0..Len(rbuf) : Rest(rbuf', b, d)
  BY <1>1, <1>2, RawPuts
<1>4. \A i \in 1..Len(rbuf) : rbuf[i].n <= n
  <2> SUFFICES ASSUME NEW i \in 1..Len(rbuf) PROVE rbuf[i].n <= n
    OBVIOUS
  <2>1. Len(rbuf) > 0 /\ Len(rbuf) \in 1..Len(rbuf)
    BY <1>2
  <2>2. Len(raw) > 0 /\ raw[Len(raw)] = rbuf[Len(rbuf)]
    BY <1>2, <2>1, Tiers
  <2>3. ~(n < rbuf[Len(rbuf)].n)
    BY <2>2 DEF Backwards, Last
  <2>4. i = Len(rbuf) \/ rbuf[i].n <= rbuf[Len(rbuf)].n
    <3>1. i < Len(rbuf) => <<rbuf[i], rbuf[Len(rbuf)]>> \in RawOrder
      BY <1>2, <2>1 DEF Ordered
    <3>2. i < Len(rbuf) \/ i = Len(rbuf)
      BY <1>2
    <3> QED
      BY <3>1, <3>2 DEF RawOrder
  <2>5. rbuf[i].n \in Nat /\ rbuf[Len(rbuf)].n \in Nat
    BY <1>2, <2>1, SeriesAssumption
  <2> QED
    BY <1>1, <2>3, <2>4, <2>5
<1>5. \A i \in 1..Len(rbuf) : <<rbuf[i], p>> \in RawOrder
  BY <1>1, <1>2, <1>4 DEF RawOrder
<1> HIDE DEF p
<1>6. b \in Seq(RawPoint) /\ Ordered(b, RawOrder)
  BY <1>1, <1>2, <1>5, OrderedAppend
<1>7. /\ Len(b) = Len(rbuf) + 1 /\ b[Len(rbuf) + 1] = p
      /\ \A i \in 1..Len(rbuf) : b[i] = rbuf[i]
  BY <1>1, <1>2, AppendProperties
<1> HIDE DEF b
<1>8. PICK d \in 0..Len(rbuf) : Rest(rbuf', b, d)
  BY <1>3
<1>9. Ordered(rbuf', RawOrder)
  BY <1>6, <1>8, OrderedRest
<1>10. ASSUME NEW i \in 1..Len(rbuf') PROVE rbuf'[i].n \in Sec..MaxTime
  <2>1. rbuf'[i] = b[d + i] /\ Len(rbuf') = Len(b) - d
    BY <1>8 DEF Rest
  <2>2. d + i \in 1..Len(rbuf) \/ d + i = Len(rbuf) + 1
    BY <1>2, <1>7, <2>1
  <2> QED
    BY <1>1, <1>2, <1>7, <2>1, <2>2
<1> QED
  BY <1>1, <1>3, <1>9, <1>10 DEF p

\* series.go, Add: a new bucket is later than all that the tier holds.
LEMMA AddCoarse ==
    ASSUME TInv, NEW t \in 1..MaxTime, NEW v \in Value,
           coarse = <<>> \/ BucketOf(t) > BucketOf(Last(coarse).t),
           CoarseRing!Put([t |-> t, v |-> v])
    PROVE  /\ CoarseRing!TypeOK'
           /\ \A i \in 1..Len(cbuf') : cbuf'[i].t \in 1..MaxTime
           /\ Ordered(cbuf', BucketOrder)
           /\ Len(cbuf') > 0 /\ cbuf'[Len(cbuf')] = [t |-> t, v |-> v]
           /\ \A k \in Peak : HasBucket(coarse, k) => HasBucket(coarse', k)
<1> DEFINE p == [t |-> t, v |-> v]
           b == Append(cbuf, p)
           c == Append(coarse, p)
<1>1. p \in CoarsePoint /\ p.t = t /\ t \in Nat
  BY SeriesAssumption DEF CoarsePoint
<1>2. /\ RawRing!TypeOK /\ CoarseRing!TypeOK /\ cbuf \in Seq(CoarsePoint) /\ Len(cbuf) \in Nat
      /\ \A i \in 1..Len(cbuf) : cbuf[i].t \in 1..MaxTime
      /\ Ordered(cbuf, BucketOrder)
      /\ coarse \in Seq(CoarsePoint) /\ Len(coarse) \in Nat /\ MaxCoarse \in Nat \ {0}
  BY Tiers DEF TInv, Typed, InOrder
<1>3. /\ Ordered(coarse, BucketOrder) /\ \A i \in 1..Len(coarse) : coarse[i].t \in 1..MaxTime
  BY SeenInOrder
<1>4. /\ CoarseRing!TypeOK' /\ coarse' = Newest(c, MaxCoarse)
      /\ Len(cbuf') \in Nat \ {0} /\ cbuf'[Len(cbuf')] = p
      /\ \E d \in 0..Len(cbuf) : Rest(cbuf', b, d)
  BY <1>1, <1>2, CoarsePuts
<1>5. ASSUME NEW s \in Seq(CoarsePoint), Ordered(s, BucketOrder), \A i \in 1..Len(s) : s[i].t \in 1..MaxTime,
             Len(s) > 0 => Len(coarse) > 0 /\ coarse[Len(coarse)] = s[Len(s)]
      PROVE  \A i \in 1..Len(s) : <<s[i], p>> \in BucketOrder
  <2> SUFFICES ASSUME NEW i \in 1..Len(s) PROVE BucketOf(s[i].t) < BucketOf(p.t)
    BY <1>1 DEF BucketOrder
  <2>1. Len(s) \in 1..Len(s) /\ Len(s) > 0
    OBVIOUS
  <2>2. BucketOf(t) > BucketOf(s[Len(s)].t)
    BY <1>5, <2>1 DEF Last
  <2>3. i = Len(s) \/ BucketOf(s[i].t) < BucketOf(s[Len(s)].t)
    <3>1. i < Len(s) => <<s[i], s[Len(s)]>> \in BucketOrder
      BY <1>5, <2>1 DEF Ordered
    <3>2. i < Len(s) \/ i = Len(s)
      OBVIOUS
    <3> QED
      BY <3>1, <3>2 DEF BucketOrder
  <2>4. s[i].t \in Nat /\ s[Len(s)].t \in Nat
    BY <1>5, <2>1
  <2>5. BucketOf(s[i].t) \in Nat /\ BucketOf(s[Len(s)].t) \in Nat /\ BucketOf(t) \in Nat
    BY <1>1, <2>4, Buckets
  <2> QED
    BY <1>1, <2>2, <2>3, <2>5
<1>6. \A i \in 1..Len(cbuf) : <<cbuf[i], p>> \in BucketOrder
  BY <1>2, <1>5, Tiers
<1>7. \A i \in 1..Len(coarse) : <<coarse[i], p>> \in BucketOrder
  BY <1>2, <1>3, <1>5
<1> HIDE DEF p
<1>8. b \in Seq(CoarsePoint) /\ Ordered(b, BucketOrder)
  BY <1>1, <1>2, <1>6, OrderedAppend
<1>9. c \in Seq(CoarsePoint) /\ Ordered(c, BucketOrder)
  BY <1>1, <1>2, <1>3, <1>7, OrderedAppend
<1>10. /\ Len(b) = Len(cbuf) + 1 /\ b[Len(cbuf) + 1] = p /\ \A i \in 1..Len(cbuf) : b[i] = cbuf[i]
       /\ Len(c) = Len(coarse) + 1 /\ c[Len(coarse) + 1] = p /\ \A i \in 1..Len(coarse) : c[i] = coarse[i]
  BY <1>1, <1>2, AppendProperties
<1>11. \A k : HasBucket(coarse, k) => HasBucket(c, k)
  BY <1>1, <1>2, BucketAppended
<1> HIDE DEF b, c
<1>12. PICK d \in 0..Len(cbuf) : Rest(cbuf', b, d)
  BY <1>4
<1>13. Ordered(cbuf', BucketOrder)
  BY <1>8, <1>12, OrderedRest
<1>14. ASSUME NEW i \in 1..Len(cbuf') PROVE cbuf'[i].t \in 1..MaxTime
  <2>1. cbuf'[i] = b[d + i] /\ Len(cbuf') = Len(b) - d
    BY <1>12 DEF Rest
  <2>2. d + i \in 1..Len(cbuf) \/ d + i = Len(cbuf) + 1
    BY <1>2, <1>10, <2>1
  <2> QED
    BY <1>1, <1>2, <1>10, <2>1, <2>2
<1>15. ASSUME NEW k \in Peak, HasBucket(coarse, k) PROVE HasBucket(coarse', k)
  <2>1. \A i \in 1..Len(c) : c[i].t \in Nat
    <3>1. \A i \in 1..Len(c) : i \in 1..Len(coarse) \/ i = Len(coarse) + 1
      BY <1>2, <1>10
    <3> QED
      BY <1>1, <1>3, <1>10, <3>1
  <2> DEFINE w == Newest(c, MaxCoarse)
  <2>2. w \in Seq(CoarsePoint) /\ \E e \in Nat : Rest(w, c, e) /\ (e > 0 => Len(c) = e + MaxCoarse)
    <3> DEFINE e == IF Len(c) > MaxCoarse THEN Len(c) - MaxCoarse ELSE 0
    <3>1. w \in Seq(CoarsePoint) /\ Rest(w, c, e)
      BY <1>2, <1>9, NewestIs
    <3>2. e \in Nat /\ (e > 0 => Len(c) = e + MaxCoarse)
      BY <1>2, <1>10
    <3> HIDE DEF e, w
    <3> QED
      BY <3>1, <3>2
  <2> HIDE DEF w
  <2>3. PICK e \in Nat : Rest(w, c, e) /\ (e > 0 => Len(c) = e + MaxCoarse)
    BY <2>2
  <2>4. Len(w) > 0
    BY <1>2, <1>10, <2>3 DEF Rest
  <2>5. HasBucket(w, k)
    BY <1>9, <1>11, <1>15, <2>1, <2>3, <2>4, BucketStays
  <2> QED
    BY <1>4, <2>5 DEF w
<1> QED
  BY <1>4, <1>13, <1>14, <1>15 DEF p

\* series.go, closeBucketLocked and appendPeak.
LEMMA ClosePeaks ==
    ASSUME TInv
    PROVE  LET closed == IF open = {} THEN <<>> ELSE PeakOf(CHOOSE ob \in open : TRUE)
               pk     == AppendPeak(peaks, closed)
           IN  /\ closed \in Seq(Peak) /\ Len(closed) <= 1
               /\ pk \in Seq(Peak) /\ Len(pk) <= MaxCoarse /\ Ordered(pk, PeakOrder)
               /\ \A i \in 1..Len(pk) : HasBucket(coarse, pk[i])
<1> DEFINE closed == IF open = {} THEN <<>> ELSE PeakOf(CHOOSE ob \in open : TRUE)
           pk == AppendPeak(peaks, closed)
<1>1. /\ peaks \in Seq(Peak) /\ Len(peaks) \in Nat /\ Len(peaks) <= MaxCoarse /\ Ordered(peaks, PeakOrder)
      /\ MaxCoarse \in Nat \ {0} /\ \A i \in 1..Len(peaks) : HasBucket(coarse, peaks[i])
  BY SeriesAssumption DEF TInv, Typed, InOrder, Paired
<1>2. CASE closed = <<>>
  <2>1. pk = peaks
    BY <1>2 DEF AppendPeak
  <2> HIDE DEF closed, pk
  <2>2. closed \in Seq(Peak) /\ Len(closed) <= 1
    BY <1>2
  <2>3. /\ pk \in Seq(Peak) /\ Len(pk) <= MaxCoarse /\ Ordered(pk, PeakOrder)
        /\ \A i \in 1..Len(pk) : HasBucket(coarse, pk[i])
    BY <1>1, <2>1
  <2> QED
    BY <2>2, <2>3 DEF closed, pk
<1>3. CASE closed # <<>>
  <2>1. PICK ob \in [t : 1..MaxTime, v : Value, worst : Value] : open = {ob}
    BY <1>3 DEF TInv, Typed
  <2> DEFINE k == [t |-> ob.t, p |-> ob.worst]
  <2>2. (CHOOSE x \in open : TRUE) = ob
    BY <2>1
  <2>3. closed = <<k>> /\ Floor > 0 /\ Abs(ob.worst - ob.v) >= Floor
    BY <1>3, <2>1, <2>2 DEF PeakOf
  <2>4. k \in Peak /\ k.t = ob.t /\ k.p = ob.worst
    BY DEF Peak
  <2> HIDE DEF k
  <2>5. HasBucket(coarse, k)
    <3>1. ob.worst # ob.v
      <4>1. Abs(0) = 0 /\ Floor \in Nat
        BY SeriesAssumption DEF Abs
      <4>2. ob.worst \in Int /\ ob.v \in Int
        BY SeriesAssumption
      <4>3. ob.worst = ob.v => ob.worst - ob.v = 0
        BY <4>2
      <4> QED
        BY <2>3, <4>1, <4>3
    <3>2. Len(cbuf) > 0 /\ ob.t = cbuf[Len(cbuf)].t /\ ob.v = cbuf[Len(cbuf)].v
      BY <2>1 DEF TInv, Ends
    <3>3. Len(coarse) > 0 /\ coarse[Len(coarse)] = cbuf[Len(cbuf)] /\ coarse \in Seq(CoarsePoint)
      BY <3>2, Tiers DEF TInv, Typed
    <3>4. Len(coarse) \in 1..Len(coarse)
      BY <3>3
    <3> QED
      BY <2>4, <3>1, <3>2, <3>3, <3>4 DEF HasBucket
  <2>6. closed \in Seq(Peak) /\ Len(closed) = 1 /\ closed[1] = k /\ peaks \o closed = Append(peaks, k)
    <3> HIDE DEF closed
    <3>1. <<k>> \in Seq(Peak) /\ peaks \o <<k>> = Append(peaks, k)
      BY <1>1, <2>4
    <3> QED
      BY <2>3, <3>1
  <2> DEFINE a == Append(peaks, k)
  <2>7. CASE pk = peaks
    <3> HIDE DEF closed, pk
    <3>1. /\ pk \in Seq(Peak) /\ Len(pk) <= MaxCoarse /\ Ordered(pk, PeakOrder)
          /\ \A i \in 1..Len(pk) : HasBucket(coarse, pk[i])
      BY <1>1, <2>7
    <3> QED
      BY <2>6, <3>1 DEF closed, pk
  <2>8. CASE pk # peaks
    <3>1. /\ pk = Newest(peaks \o closed, MaxCoarse)
          /\ \A i \in DOMAIN peaks : i = Len(peaks) => peaks[i].t < closed[1].t
      BY <2>8 DEF AppendPeak
    <3> HIDE DEF closed, pk
    <3>2. \A i \in 1..Len(peaks) : <<peaks[i], k>> \in PeakOrder
      <4> SUFFICES ASSUME NEW i \in 1..Len(peaks) PROVE peaks[i].t < k.t
        BY <1>1, <2>4 DEF PeakOrder
      <4>1. Len(peaks) \in 1..Len(peaks)
        BY <1>1
      <4>2. peaks[Len(peaks)].t < k.t
        BY <1>1, <2>6, <3>1, <4>1
      <4>3. i = Len(peaks) \/ peaks[i].t < peaks[Len(peaks)].t
        <5>1. i < Len(peaks) => <<peaks[i], peaks[Len(peaks)]>> \in PeakOrder
          BY <1>1, <4>1 DEF Ordered
        <5>2. i < Len(peaks) \/ i = Len(peaks)
          BY <1>1
        <5> QED
          BY <5>1, <5>2 DEF PeakOrder
      <4>4. peaks[i].t \in Int /\ peaks[Len(peaks)].t \in Int /\ k.t \in Int
        <5>1. peaks[i] \in Peak /\ peaks[Len(peaks)] \in Peak
          BY <1>1, <4>1
        <5> QED
          BY <2>4, <5>1 DEF Peak
      <4> QED
        BY <4>2, <4>3, <4>4
    <3>3. a \in Seq(Peak) /\ Ordered(a, PeakOrder)
      BY <1>1, <2>4, <3>2, OrderedAppend
    <3>4. /\ Len(a) = Len(peaks) + 1 /\ a[Len(peaks) + 1] = k /\ \A i \in 1..Len(peaks) : a[i] = peaks[i]
      BY <1>1, <2>4, AppendProperties
    <3>5. pk = Newest(a, MaxCoarse)
      BY <2>6, <3>1
    <3> HIDE DEF a
    <3>6. \A i \in 1..Len(a) : HasBucket(coarse, a[i])
      <4>1. \A i \in 1..Len(a) : i \in 1..Len(peaks) \/ i = Len(peaks) + 1
        BY <1>1, <3>4
      <4> QED
        BY <1>1, <2>5, <3>4, <4>1
    <3> DEFINE e == IF Len(a) > MaxCoarse THEN Len(a) - MaxCoarse ELSE 0
    <3>7. pk \in Seq(Peak) /\ Rest(pk, a, e) /\ Len(pk) <= MaxCoarse
      BY <1>1, <3>3, <3>5, NewestIs
    <3> HIDE DEF e
    <3>8. Ordered(pk, PeakOrder)
      BY <3>3, <3>7, OrderedRest
    <3>9. ASSUME NEW i \in 1..Len(pk) PROVE HasBucket(coarse, pk[i])
      <4>1. pk[i] = a[e + i] /\ Len(pk) = Len(a) - e /\ e \in 0..Len(a)
        BY <3>7 DEF Rest
      <4>2. e + i \in 1..Len(a)
        BY <1>1, <3>4, <4>1
      <4> QED
        BY <3>6, <4>1, <4>2
    <3> QED
      BY <2>6, <3>7, <3>8, <3>9 DEF closed, pk
  <2> QED
    BY <2>7, <2>8
<1> QED
  BY <1>2, <1>3

\* series.go, Add: dropped, or taken by both tiers.
LEMMA AddKeeps ==
    ASSUME TInv, NEW n, NEW v \in Value, pend = <<>>, Add(n, v), life' = life,
           accepted' = IF Backwards(n) THEN accepted ELSE Append(accepted, [n |-> n, v |-> v, life |-> life])
    PROVE  TInv'
<1>1. n \in Sec..MaxTime /\ clock' = n
  BY DEF Add
<1>2. CASE /\ Backwards(n) /\ accepted' = accepted
           /\ UNCHANGED <<rbuf, rcap, cbuf, ccap, peaks, open, pend>>
  BY <1>1, <1>2
     DEF TInv, Typed, InOrder, Ends, Paired, Lives, Earlier, RawShowsNewest, Mine, Ordered, raw, coarse,
         RawRing!TypeOK, CoarseRing!TypeOK, RawRing!Visible, CoarseRing!Visible
<1>3. CASE ~Backwards(n) /\ RawRing!Put([n |-> n, v |-> v])
           /\ IF NewBucket(n) THEN OpenBucket(Unix(n), v) ELSE FollowBucket(v)
  <2>1. /\ RawRing!TypeOK' /\ raw' = Newest(Append(raw, [n |-> n, v |-> v]), MaxRaw)
        /\ \A i \in 1..Len(rbuf') : rbuf'[i].n \in Sec..MaxTime
        /\ Ordered(rbuf', RawOrder)
        /\ Len(rbuf') > 0 /\ rbuf'[Len(rbuf')].n = n
    BY <1>1, <1>3, AddRaw
  <2>2. Lives' /\ RawShowsNewest'
    <3>1. accepted' = Append(accepted, [n |-> n, v |-> v, life |-> life])
      BY <1>3
    <3> QED
      BY <1>1, <2>1, <3>1, AddHistory
  <2> DEFINE t == Unix(n)
  <2>3. t \in 1..MaxTime /\ t \in Nat /\ BucketOf(t) \in Nat
    <3>1. t \in 1..MaxTime /\ t \in Nat
      BY <1>1, Seconds
    <3> HIDE DEF t
    <3> QED
      BY <3>1, Buckets
  <2>4. CASE NewBucket(n) /\ OpenBucket(t, v)
    <3> DEFINE closed == IF open = {} THEN <<>> ELSE PeakOf(CHOOSE ob \in open : TRUE)
               p == [t |-> t, v |-> v]
    <3>1. /\ peaks' = AppendPeak(peaks, closed) /\ pend' = pend \o closed
          /\ open' = {[t |-> t, v |-> v, worst |-> v]} /\ CoarseRing!Put(p)
      BY <2>4 DEF OpenBucket
    <3>2. /\ closed \in Seq(Peak) /\ Len(closed) <= 1
          /\ peaks' \in Seq(Peak) /\ Len(peaks') <= MaxCoarse /\ Ordered(peaks', PeakOrder)
          /\ \A i \in 1..Len(peaks') : HasBucket(coarse, peaks'[i])
      BY <3>1, ClosePeaks
    <3> HIDE DEF closed, t
    <3>3. coarse = <<>> \/ BucketOf(t) > BucketOf(Last(coarse).t)
      BY <2>4 DEF NewBucket, t
    <3>4. /\ CoarseRing!TypeOK' /\ \A i \in 1..Len(cbuf') : cbuf'[i].t \in 1..MaxTime
          /\ Ordered(cbuf', BucketOrder)
          /\ Len(cbuf') > 0 /\ cbuf'[Len(cbuf')] = p
          /\ \A k \in Peak : HasBucket(coarse, k) => HasBucket(coarse', k)
      BY <2>3, <3>1, <3>3, AddCoarse
    <3>5. pend' \in Seq(Peak) /\ Len(pend') <= 1
      <4>1. <<>> \o closed = closed
        BY <3>2
      <4> QED
        BY <3>1, <3>2, <4>1
    <3>6. Typed'
      <4>1. [t |-> t, v |-> v, worst |-> v] \in [t : 1..MaxTime, v : Value, worst : Value]
        BY <2>3
      <4> QED
        BY <1>1, <2>1, <3>1, <3>2, <3>4, <3>5, <4>1 DEF Typed
    <3>7. InOrder'
      BY <2>1, <3>2, <3>4 DEF InOrder
    <3>8. Ends'
      <4>1. BucketOf(Unix(rbuf'[Len(rbuf')].n)) = BucketOf(cbuf'[Len(cbuf')].t)
        BY <2>1, <3>4 DEF t
      <4>2. BucketOf(cbuf'[Len(cbuf')].t) \in Nat
        BY <2>3, <3>4
      <4> QED
        BY <3>1, <3>4, <4>1, <4>2 DEF Ends
    <3>9. Paired'
      <4>1. \A i \in 1..Len(peaks') : peaks'[i] \in Peak
        BY <3>2
      <4> QED
        BY <3>2, <3>4, <4>1 DEF Paired
    <3> QED
      BY <2>2, <3>6, <3>7, <3>8, <3>9 DEF TInv
  <2>5. CASE ~NewBucket(n) /\ FollowBucket(v)
    <3>1. /\ open' = {[ob EXCEPT !.worst = IF Worse(v, ob.worst) THEN v ELSE ob.worst] : ob \in open}
          /\ cbuf' = cbuf /\ ccap' = ccap /\ peaks' = peaks /\ pend' = pend /\ coarse' = coarse
      BY <2>5 DEF FollowBucket, coarse, CoarseRing!Visible
    <3>2. \/ open' = {} /\ open = {}
          \/ \E ob, o2 \in [t : 1..MaxTime, v : Value, worst : Value] :
                 open = {ob} /\ open' = {o2} /\ o2.t = ob.t /\ o2.v = ob.v
      <4>1. CASE open = {}
        BY <3>1, <4>1
      <4>2. ASSUME NEW ob \in [t : 1..MaxTime, v : Value, worst : Value], open = {ob}
            PROVE  \E o2 \in [t : 1..MaxTime, v : Value, worst : Value] :
                       open' = {o2} /\ o2.t = ob.t /\ o2.v = ob.v
        <5> DEFINE o2 == [ob EXCEPT !.worst = IF Worse(v, ob.worst) THEN v ELSE ob.worst]
        <5>1. open' = {o2}
          BY <3>1, <4>2
        <5>2. o2 \in [t : 1..MaxTime, v : Value, worst : Value] /\ o2.t = ob.t /\ o2.v = ob.v
          OBVIOUS
        <5> QED
          BY <5>1, <5>2
      <4> QED
        BY <4>1, <4>2 DEF TInv, Typed
    <3>3. Len(cbuf) > 0 /\ BucketOf(t) <= BucketOf(cbuf[Len(cbuf)].t)
      <4>1. coarse # <<>> /\ ~(BucketOf(t) > BucketOf(Last(coarse).t))
        BY <2>5 DEF NewBucket
      <4>2. Len(cbuf) > 0
        <5>1. /\ cbuf \in Seq(CoarsePoint) /\ coarse \in Seq(CoarsePoint)
              /\ \E d \in Nat : Rest(coarse, cbuf, d)
          BY Tiers DEF TInv, Typed
        <5>2. PICK d \in Nat : d \in 0..Len(cbuf) /\ Len(coarse) = Len(cbuf) - d
          BY <5>1 DEF Rest
        <5>3. Len(coarse) # 0 /\ Len(cbuf) \in Nat
          BY <4>1, <5>1
        <5> QED
          BY <5>2, <5>3
      <4>3. coarse[Len(coarse)] = cbuf[Len(cbuf)] /\ Len(cbuf) \in 1..Len(cbuf)
        BY <4>2, Tiers DEF TInv, Typed
      <4>4. cbuf[Len(cbuf)].t \in Nat
        BY <4>3 DEF TInv, Typed
      <4>5. BucketOf(cbuf[Len(cbuf)].t) \in Nat
        BY <4>4, Buckets
      <4> QED
        BY <2>3, <4>1, <4>2, <4>3, <4>5 DEF Last
    <3> HIDE DEF t
    <3>4. Typed'
      <4>1. CoarseRing!TypeOK'
        BY <3>1 DEF TInv, Typed, CoarseRing!TypeOK
      <4>2. open' = {} \/ \E ob \in [t : 1..MaxTime, v : Value, worst : Value] : open' = {ob}
        BY <3>2
      <4> QED
        BY <1>1, <2>1, <3>1, <4>1, <4>2 DEF TInv, Typed
    <3>5. InOrder'
      BY <2>1, <3>1 DEF TInv, InOrder
    <3>6. Ends'
      <4>1. BucketOf(Unix(rbuf'[Len(rbuf')].n)) <= BucketOf(cbuf'[Len(cbuf')].t)
        BY <2>1, <3>1, <3>3 DEF t
      <4>2. \A ob \in open' : ob.t = cbuf'[Len(cbuf')].t /\ ob.v = cbuf'[Len(cbuf')].v
        BY <3>1, <3>2 DEF TInv, Ends
      <4> QED
        BY <3>1, <3>3, <4>1, <4>2 DEF Ends
    <3>7. Paired'
      BY <3>1 DEF TInv, Paired
    <3> QED
      BY <2>2, <3>4, <3>5, <3>6, <3>7 DEF TInv
  <2> QED
    BY <1>3, <2>4, <2>5
<1> QED
  BY <1>2, <1>3 DEF Add

\* sort.Search: what is too early is the beginning of what is in order.
LEMMA Segment ==
    ASSUME NEW n \in Nat, NEW I \in SUBSET (1..n), \A i \in I : \A j \in 1..n : j < i => j \in I
    PROVE  /\ Cardinality(I) \in 0..n
           /\ \A i \in 1..n : i \in I <=> i <= Cardinality(I)
<1> DEFINE m == Cardinality(I)
<1>1. \A k \in Nat : IsFiniteSet(1..k) /\ Cardinality(1..k) = k
  BY FS_Interval
<1>2. ASSUME NEW k \in Nat, NEW J \in SUBSET (1..k)
      PROVE  /\ IsFiniteSet(J) /\ Cardinality(J) \in Nat /\ Cardinality(J) <= k
             /\ Cardinality(J) = k => J = 1..k
  <2> DEFINE N == 1..k
  <2>1. IsFiniteSet(N) /\ Cardinality(N) = k /\ J \in SUBSET N
    BY <1>1
  <2> HIDE DEF N
  <2>2. IsFiniteSet(J) /\ Cardinality(J) <= k /\ (Cardinality(J) = k => J = N)
    BY <2>1, FS_Subset
  <2>3. Cardinality(J) \in Nat
    BY <2>2, FS_CardinalityType
  <2> QED
    BY <2>2, <2>3 DEF N
<1>3. IsFiniteSet(I) /\ m \in Nat /\ m <= n
  BY <1>2
<1>4. ASSUME NEW i \in I PROVE i \in 1..m
  <2> DEFINE N == 1..i
  <2>1. i \in Nat /\ i \in 1..n /\ N \subseteq I
    OBVIOUS
  <2>2. Cardinality(N) = i
    BY <1>1, <2>1
  <2>3. N \in SUBSET I
    BY <2>1
  <2> HIDE DEF N
  <2>4. Cardinality(N) <= m
    BY <1>3, <2>3, FS_Subset
  <2> HIDE DEF m
  <2> QED
    BY <1>3, <2>1, <2>2, <2>4
<1>5. I \in SUBSET (1..m)
  BY <1>4
<1>6. I = 1..m
  BY <1>2, <1>3, <1>5
<1> HIDE DEF m
<1>7. m \in 0..n /\ \A i \in 1..n : i \in I <=> i <= m
  BY <1>3, <1>6
<1> QED
  BY <1>7 DEF m

\* sort.Search and copy: what is not too early is left.
LEMMA FromCuts ==
    ASSUME NEW S, NEW s \in Seq(S), NEW t \in Int, \A i \in 1..Len(s) : s[i].t \in Int,
           \A i, j \in 1..Len(s) : i < j => s[i].t <= s[j].t
    PROVE  \E m \in 0..Len(s) : /\ From(s, t) \in Seq(S) /\ Rest(From(s, t), s, m)
                                /\ \A i \in 1..Len(s) : s[i].t < t <=> i <= m
<1> DEFINE I == {i \in DOMAIN s : s[i].t < t}
           n == Len(s)
           m == Cardinality(I)
<1>1. n \in Nat /\ DOMAIN s = 1..n
  OBVIOUS
<1>2. I \in SUBSET (1..n) /\ \A i \in I : \A j \in 1..n : j < i => j \in I
  BY <1>1
<1>3. \A i \in 1..n : i \in I <=> s[i].t < t
  BY <1>1
<1>4. m \in 0..n /\ \A i \in 1..n : i \in I <=> i <= m
  <2> HIDE DEF I, n
  <2> QED
    BY <1>1, <1>2, Segment
<1>5. From(s, t) = SubSeq(s, m + 1, Len(s))
  BY DEF From
<1> HIDE DEF I, m
<1>6. From(s, t) \in Seq(S) /\ Rest(From(s, t), s, m)
  BY <1>4, <1>5, RestOf
<1> QED
  BY <1>3, <1>4, <1>6

\* The newest bucket is not older than the retention: the raw tier is at most one
\* bucket ahead of it.
LEMMA NewestStays ==
    ASSUME TInv, Len(cbuf) > 0
    PROVE  LET cut == (LastTime - Retention * Sec) \div Sec
           IN  cut \in Int /\ ~(cbuf[Len(cbuf)].t < cut)
<1> DEFINE t == cbuf[Len(cbuf)].t
           n == rbuf[Len(rbuf)].n
<1>1. /\ cbuf \in Seq(CoarsePoint) /\ rbuf \in Seq(RawPoint) /\ raw \in Seq(RawPoint)
      /\ coarse[Len(coarse)] = cbuf[Len(cbuf)] /\ Len(rbuf) \in Nat
      /\ Len(rbuf) > 0 => Len(raw) > 0 /\ raw[Len(raw)] = rbuf[Len(rbuf)]
      /\ \E d \in Nat : Rest(raw, rbuf, d)
  BY Tiers DEF TInv, Typed
<1>2. Len(cbuf) \in 1..Len(cbuf) /\ t \in 1..MaxTime
  BY <1>1 DEF TInv, Typed
<1>3. t \in Nat /\ Retention \in Nat /\ Step \in Nat /\ Step <= Retention
  BY <1>2, SeriesAssumption
<1>4. raw # <<>> => Len(rbuf) > 0
  <2>1. PICK d \in Nat : d \in 0..Len(rbuf) /\ Len(raw) = Len(rbuf) - d
    BY <1>1 DEF Rest
  <2>2. raw # <<>> => Len(raw) # 0
    BY <1>1
  <2> QED
    BY <1>1, <2>1, <2>2
<1>5. LastTime = t * Sec \/ (Len(rbuf) > 0 /\ LastTime = n)
  BY <1>1, <1>4 DEF LastTime, Last
<1> HIDE DEF t, n
<1>6. CASE LastTime = t * Sec
  <2>1. (t * Sec - Retention * Sec) \div Sec = t - Retention
    BY <1>3, Seconds
  <2>2. ~(t < t - Retention) /\ t - Retention \in Int
    BY <1>3
  <2> QED
    BY <1>6, <2>1, <2>2 DEF t
<1>7. CASE Len(rbuf) > 0 /\ LastTime = n
  <2>1. Len(rbuf) \in 1..Len(rbuf)
    BY <1>1, <1>7
  <2>2. n \in Sec..MaxTime /\ BucketOf(Unix(n)) <= BucketOf(t)
    BY <1>7, <2>1 DEF TInv, Typed, Ends, t, n
  <2>3. n \in Nat /\ Unix(n) \in Nat
    BY <2>2, Seconds
  <2>4. Unix(n) < t + Step
    BY <1>3, <2>2, <2>3, Buckets
  <2>5. (n - Retention * Sec) \div Sec = Unix(n) - Retention
    BY <1>3, <2>3, Seconds
  <2>6. ~(t < Unix(n) - Retention) /\ Unix(n) - Retention \in Int
    BY <1>3, <2>3, <2>4
  <2> QED
    BY <1>7, <2>5, <2>6 DEF t
<1> QED
  BY <1>5, <1>6, <1>7

\* series.go, Prune: both tiers lose what is too old; something is left.
LEMMA PruneCuts ==
    ASSUME TInv, NEW before, Prune(before), ~(LastTime < before)
    PROVE  LET cut == (LastTime - Retention * Sec) \div Sec
           IN  /\ cut \in Int /\ peaks' = From(peaks, cut)
               /\ rbuf' = rbuf /\ rcap' = rcap /\ open' = open
               /\ CoarseRing!TypeOK' /\ RawRing!TypeOK' /\ raw' = raw
               /\ Ordered(cbuf', BucketOrder) /\ \A i \in 1..Len(cbuf') : cbuf'[i].t \in 1..MaxTime
               /\ Len(cbuf') > 0 /\ cbuf'[Len(cbuf')] = cbuf[Len(cbuf)]
               /\ Len(coarse') > 0 /\ \E d \in Nat : Rest(coarse', coarse, d)
               /\ \A j \in 1..Len(coarse') : ~(coarse'[j].t < cut)
<1> DEFINE cut == (LastTime - Retention * Sec) \div Sec
<1>1. /\ CoarseRing!Trim(Len(cbuf) - Len(From(cbuf, cut))) /\ peaks' = From(peaks, cut)
      /\ rbuf' = rbuf /\ rcap' = rcap /\ open' = open /\ coarse # <<>>
  BY DEF Prune
<1>2. /\ cbuf \in Seq(CoarsePoint) /\ Len(cbuf) \in Nat /\ coarse \in Seq(CoarsePoint)
      /\ \E d \in Nat : Rest(coarse, cbuf, d)
      /\ CoarseRing!TypeOK /\ Ordered(cbuf, BucketOrder)
      /\ \A i \in 1..Len(cbuf) : cbuf[i].t \in 1..MaxTime
  <2>1. /\ RawRing!TypeOK /\ CoarseRing!TypeOK /\ Ordered(cbuf, BucketOrder)
        /\ \A i \in 1..Len(cbuf) : cbuf[i].t \in 1..MaxTime
    BY DEF TInv, Typed, InOrder
  <2>2. cbuf \in Seq(CoarsePoint) /\ coarse \in Seq(CoarsePoint) /\ \E d \in Nat : Rest(coarse, cbuf, d)
    BY <2>1, Tiers
  <2>3. Len(cbuf) \in Nat
    BY <2>2
  <2> QED
    BY <2>1, <2>2, <2>3, Zenon
<1>3. Len(cbuf) > 0
  <2>1. PICK d \in Nat : d \in 0..Len(cbuf) /\ Len(coarse) = Len(cbuf) - d
    BY <1>2 DEF Rest
  <2>2. Len(coarse) # 0
    BY <1>1, <1>2
  <2> QED
    BY <1>2, <2>1, <2>2
<1>4. cut \in Int /\ ~(cbuf[Len(cbuf)].t < cut)
  BY <1>3, NewestStays
<1> HIDE DEF cut
<1>5. \A i \in 1..Len(cbuf) : cbuf[i].t \in Nat
  BY <1>2
<1>6. \A i, j \in 1..Len(cbuf) : i < j => cbuf[i].t <= cbuf[j].t
  <2> SUFFICES ASSUME NEW i \in 1..Len(cbuf), NEW j \in 1..Len(cbuf), i < j PROVE cbuf[i].t <= cbuf[j].t
    OBVIOUS
  <2>1. BucketOf(cbuf[i].t) < BucketOf(cbuf[j].t)
    BY <1>2 DEF Ordered, BucketOrder
  <2>2. cbuf[i].t < cbuf[j].t
    BY <1>5, <2>1, Buckets
  <2> QED
    BY <1>5, <2>2
<1>7. PICK k \in 0..Len(cbuf) : /\ Rest(From(cbuf, cut), cbuf, k)
                                /\ \A i \in 1..Len(cbuf) : cbuf[i].t < cut <=> i <= k
  <2>1. \A i \in 1..Len(cbuf) : cbuf[i].t \in Int
    BY <1>5
  <2> QED
    BY <1>2, <1>4, <1>6, <2>1, FromCuts
<1>8. k < Len(cbuf) /\ k \in Nat
  <2>1. Len(cbuf) \in 1..Len(cbuf)
    BY <1>2, <1>3
  <2>2. ~(Len(cbuf) <= k)
    BY <1>4, <1>7, <2>1
  <2> QED
    BY <1>2, <2>2
<1>9. CoarseRing!Trim(k)
  <2>1. Len(cbuf) - Len(From(cbuf, cut)) = k
    BY <1>2, <1>7 DEF Rest
  <2> QED
    BY <1>1, <2>1
<1>10. /\ CoarseRing!TypeOK' /\ Rest(cbuf', cbuf, k) /\ \E d \in Nat : Rest(coarse', coarse, d)
  BY <1>2, <1>8, <1>9, CoarseTrims
<1>11. Len(cbuf') = Len(cbuf) - k /\ \A i \in 1..Len(cbuf') : cbuf'[i] = cbuf[k + i]
  BY <1>10 DEF Rest
<1>12. /\ Len(cbuf') \in 1..Len(cbuf') /\ k + Len(cbuf') = Len(cbuf) /\ Len(cbuf') > 0
       /\ \A i \in 1..Len(cbuf') : k + i \in 1..Len(cbuf) /\ ~(k + i <= k)
  BY <1>2, <1>8, <1>11
<1>13. \A i \in 1..Len(cbuf') : cbuf'[i].t \in 1..MaxTime /\ ~(cbuf'[i].t < cut)
  BY <1>2, <1>7, <1>11, <1>12
<1>14. cbuf'[Len(cbuf')] = cbuf[Len(cbuf)]
  BY <1>11, <1>12
<1>15. Ordered(cbuf', BucketOrder)
  BY <1>2, <1>10, OrderedRest
<1>16. RawRing!TypeOK' /\ raw' = raw
  BY <1>1 DEF TInv, Typed, RawRing!TypeOK, raw, RawRing!Visible
<1>17. Len(coarse') > 0 /\ \A j \in 1..Len(coarse') : ~(coarse'[j].t < cut)
  <2>1. coarse' = Newest(cbuf', MaxCoarse) /\ cbuf' \in Seq(CoarsePoint) /\ MaxCoarse \in Nat \ {0}
    BY <1>10, SeriesAssumption
       DEF coarse, CoarseRing!Visible, Newest, CoarseRing!TypeOK, CoarsePoint
  <2> DEFINE e == IF Len(cbuf') > MaxCoarse THEN Len(cbuf') - MaxCoarse ELSE 0
  <2>2. Rest(coarse', cbuf', e)
    BY <2>1, NewestIs
  <2>3. e < Len(cbuf') /\ e \in Nat /\ Len(cbuf') \in Nat
    BY <1>12, <2>1
  <2> HIDE DEF e
  <2>4. Len(coarse') = Len(cbuf') - e /\ \A j \in 1..Len(coarse') : coarse'[j] = cbuf'[e + j]
    BY <2>2 DEF Rest
  <2>5. Len(coarse') > 0 /\ \A j \in 1..Len(coarse') : e + j \in 1..Len(cbuf')
    BY <2>3, <2>4
  <2> QED
    BY <1>13, <2>4, <2>5
<1> QED
  BY <1>1, <1>4, <1>10, <1>12, <1>13, <1>14, <1>15, <1>16, <1>17 DEF cut

\* The times of peaks in order.
LEMMA PeaksRise ==
    ASSUME NEW q \in Seq(Peak), Ordered(q, PeakOrder)
    PROVE  /\ \A i \in 1..Len(q) : q[i].t \in Int
           /\ \A i, j \in 1..Len(q) : i < j => q[i].t <= q[j].t
<1>1. \A i \in 1..Len(q) : q[i] \in Peak
  OBVIOUS
<1>2. \A i \in 1..Len(q) : q[i].t \in Int
  BY <1>1 DEF Peak
<1>3. ASSUME NEW i \in 1..Len(q), NEW j \in 1..Len(q), i < j PROVE q[i].t <= q[j].t
  <2>1. q[i].t < q[j].t
    BY <1>3 DEF Ordered, PeakOrder
  <2> QED
    BY <1>2, <2>1
<1> QED
  BY <1>2, <1>3

\* series.go, Prune: a dead series goes, the others lose what is too old.
LEMMA PruneKeeps ==
    ASSUME TInv, NEW before, Prune(before), life' = life,
           accepted' = IF coarse' = <<>> THEN <<>> ELSE accepted
    PROVE  TInv'
<1>1. pend' = pend /\ clock' = clock /\ coarse # <<>>
  BY DEF Prune
<1>2. CASE Drop
  <2>1. rbuf' = <<>> /\ rcap' = 0 /\ cbuf' = <<>> /\ ccap' = 0 /\ open' = {} /\ peaks' = <<>>
    BY <1>2 DEF Drop
  <2>2. raw' = <<>> /\ coarse' = <<>>
    BY <2>1, SeriesAssumption DEF raw, coarse, RawRing!Visible, CoarseRing!Visible
  <2>3. accepted' = <<>>
    BY <2>2
  <2>4. Typed'
    BY <1>1, <2>1, SeriesAssumption
       DEF TInv, Typed, RawRing!TypeOK, CoarseRing!TypeOK, RawRing!CapMax, CoarseRing!CapMax
  <2>5. InOrder' /\ Ends' /\ Paired'
    BY <2>1 DEF InOrder, Ordered, Ends, Paired
  <2>6. Lives'
    <3>0. ASSUME NEW R PROVE <<>> \in Seq(R) /\ Len(<<>>) = 0
      OBVIOUS
    <3>1. accepted' \in Seq([n : Sec..MaxTime, v : Value, life : 1..life']) /\ Len(accepted') = 0
      BY <2>3, <3>0, Zenon
    <3>2. 0 \in 0..Len(accepted') /\ \A i \in 1..Len(accepted') : FALSE
      BY <3>1
    <3>3. life' \in Nat \ {0}
      BY DEF TInv, Lives
    <3> QED
      BY <3>1, <3>2, <3>3 DEF Lives, Earlier
  <2>7. RawShowsNewest'
    <3>1. {i \in DOMAIN accepted' : accepted'[i].life < life'} = {}
      BY <2>3
    <3>2. Mine' = <<>>
      BY <2>3, <3>1, FS_EmptySet DEF Mine
    <3> QED
      BY <2>2, <3>2, SeriesAssumption DEF RawShowsNewest, Newest
  <2> QED
    BY <2>4, <2>5, <2>6, <2>7 DEF TInv
<1>3. CASE ~(LastTime < before)
  <2> DEFINE cut == (LastTime - Retention * Sec) \div Sec
  <2>1. /\ cut \in Int /\ peaks' = From(peaks, cut)
        /\ rbuf' = rbuf /\ rcap' = rcap /\ open' = open
        /\ CoarseRing!TypeOK' /\ RawRing!TypeOK' /\ raw' = raw
        /\ Ordered(cbuf', BucketOrder) /\ \A i \in 1..Len(cbuf') : cbuf'[i].t \in 1..MaxTime
        /\ Len(cbuf') > 0 /\ cbuf'[Len(cbuf')] = cbuf[Len(cbuf)]
        /\ Len(coarse') > 0 /\ \E d \in Nat : Rest(coarse', coarse, d)
    BY <1>3, PruneCuts
  <2> HIDE DEF cut
  <2>2. /\ coarse \in Seq(CoarsePoint) /\ Ordered(coarse, BucketOrder)
        /\ \A i \in 1..Len(coarse) : coarse[i].t \in Nat
        /\ peaks \in Seq(Peak) /\ Len(peaks) <= MaxCoarse /\ Ordered(peaks, PeakOrder)
    <3>1. RawRing!TypeOK /\ CoarseRing!TypeOK
      BY DEF TInv, Typed
    <3>2. peaks \in Seq(Peak) /\ Len(peaks) <= MaxCoarse /\ Ordered(peaks, PeakOrder)
      BY DEF TInv, Typed, InOrder
    <3>3. Ordered(coarse, BucketOrder) /\ \A i \in 1..Len(coarse) : coarse[i].t \in 1..MaxTime
      BY SeenInOrder
    <3>4. coarse \in Seq(CoarsePoint)
      BY <3>1, Tiers
    <3>5. \A i \in 1..Len(coarse) : coarse[i].t \in Nat
      BY <3>3
    <3> QED
      BY <3>2, <3>3, <3>4, <3>5, Zenon
  <2>3. accepted' = accepted
    BY <2>1
  <2>4. PICK m \in 0..Len(peaks) : peaks' \in Seq(Peak) /\ Rest(peaks', peaks, m)
    <3>1. \A i \in 1..Len(peaks) : peaks[i].t \in Int
      BY <2>2, PeaksRise
    <3>2. \A i, j \in 1..Len(peaks) : i < j => peaks[i].t <= peaks[j].t
      BY <2>2, PeaksRise
    <3>3. \E m \in 0..Len(peaks) : From(peaks, cut) \in Seq(Peak) /\ Rest(From(peaks, cut), peaks, m)
      BY <2>1, <2>2, <3>1, <3>2, FromCuts
    <3> QED
      BY <2>1, <3>3
  <2>5. /\ Len(peaks') = Len(peaks) - m /\ Len(peaks) \in Nat
        /\ \A i \in 1..Len(peaks') : peaks'[i] = peaks[m + i]
    BY <2>2, <2>4 DEF Rest
  <2>6. Len(peaks') <= MaxCoarse
    BY <2>2, <2>5, SeriesAssumption
  <2>7. Typed'
    BY <1>1, <2>1, <2>4, <2>6 DEF TInv, Typed
  <2>8. InOrder'
    <3>1. Ordered(peaks', PeakOrder)
      BY <2>2, <2>4, OrderedRest
    <3> QED
      BY <2>1, <3>1 DEF TInv, InOrder
  <2>9. Ends'
    BY <2>1 DEF TInv, Ends
  <2>10. Paired'
    <3> SUFFICES ASSUME NEW i \in 1..Len(peaks') PROVE HasBucket(coarse', peaks'[i])
      BY DEF Paired
    <3>1. m + i \in 1..Len(peaks) /\ peaks'[i] = peaks[m + i]
      BY <2>5
    <3>2. peaks[m + i] \in Peak /\ HasBucket(coarse, peaks[m + i])
      BY <2>2, <3>1 DEF TInv, Paired
    <3>3. PICK d \in Nat : Rest(coarse', coarse, d)
      BY <2>1
    <3> DEFINE k == peaks[m + i]
    <3>4. k \in Peak /\ HasBucket(coarse, k)
      BY <3>2
    <3> HIDE DEF k
    <3>5. HasBucket(coarse', k)
      BY <2>1, <2>2, <3>3, <3>4, BucketStays
    <3> QED
      BY <3>1, <3>5 DEF k
  <2>11. Lives' /\ RawShowsNewest'
    BY <2>1, <2>3 DEF TInv, Lives, Earlier, RawShowsNewest, Mine
  <2> QED
    BY <2>7, <2>8, <2>9, <2>10, <2>11 DEF TInv
<1> QED
  BY <1>2, <1>3 DEF Prune

\* main.go: the process starts again with what the history holds.
LEMMA RestartKeeps ==
    ASSUME TInv, Restart, life' = life + 1, accepted' = accepted
    PROVE  TInv'
<1>1. /\ rbuf' = <<>> /\ rcap' = 0 /\ open' = {} /\ cbuf' = cbuf /\ ccap' = ccap /\ peaks' = peaks
      /\ pend' = pend /\ clock' = clock
  BY DEF Restart
<1>2. raw' = <<>> /\ coarse' = coarse
  BY <1>1, SeriesAssumption DEF raw, coarse, RawRing!Visible, CoarseRing!Visible
<1>3. Typed'
  <2>1. CoarseRing!TypeOK'
    BY <1>1 DEF TInv, Typed, CoarseRing!TypeOK
  <2>2. RawRing!TypeOK'
    BY <1>1, SeriesAssumption DEF RawRing!TypeOK, RawRing!CapMax
  <2> QED
    BY <1>1, <2>1, <2>2 DEF TInv, Typed
<1>4. InOrder' /\ Ends' /\ Paired'
  BY <1>1, <1>2 DEF TInv, InOrder, Ordered, Ends, Paired
<1> DEFINE S == [n : Sec..MaxTime, v : Value, life : 1..life + 1]
           q == accepted
           l == life + 1
<1>5. life \in Nat \ {0} /\ q \in Seq([n : Sec..MaxTime, v : Value, life : 1..life])
  BY DEF TInv, Lives
<1>6. Len(q) \in Nat /\ \A i \in 1..Len(q) : q[i] \in [n : Sec..MaxTime, v : Value, life : 1..life]
  <2> DEFINE R == [n : Sec..MaxTime, v : Value, life : 1..life]
  <2> HIDE DEF R, q
  <2>1. q \in Seq(R)
    BY <1>5 DEF R
  <2>2. Len(q) \in Nat /\ \A i \in 1..Len(q) : q[i] \in R
    BY <2>1
  <2> QED
    BY <2>2 DEF R
<1>7. [n : Sec..MaxTime, v : Value, life : 1..life] \subseteq S
  BY <1>5
<1>8. q \in Seq(S)
  <2> DEFINE R == [n : Sec..MaxTime, v : Value, life : 1..life]
  <2> HIDE DEF R, S, q
  <2>1. q \in Seq(R) /\ R \subseteq S
    BY <1>5, <1>7 DEF R
  <2> QED
    BY <2>1
<1>9. Len(q) \in 0..Len(q) /\ \A i \in 1..Len(q) : q[i].life < l <=> i <= Len(q)
  BY <1>5, <1>6
<1>10. life' = l /\ accepted' = q /\ l \in Nat \ {0}
  BY <1>5
<1>11. Lives'
  <2>1. Earlier(Len(q))'
    BY <1>9, <1>10 DEF Earlier
  <2>2. \E m \in 0..Len(accepted') : Earlier(m)'
    BY <1>9, <1>10, <2>1
  <2>3. accepted' \in Seq([n : Sec..MaxTime, v : Value, life : 1..life'])
    BY <1>8, <1>10
  <2> QED
    BY <1>10, <2>2, <2>3 DEF Lives
<1>12. Mine' = <<>>
  <2> HIDE DEF S, q, l
  <2>1. SubSeq(q, Cardinality({i \in DOMAIN q : q[i].life < l}) + 1, Len(q)) = SubSeq(q, Len(q) + 1, Len(q))
    BY <1>8, <1>9, MineIs
  <2>2. Mine' = SubSeq(q, Cardinality({i \in DOMAIN q : q[i].life < l}) + 1, Len(q))
    BY <1>10 DEF Mine
  <2>3. SubSeq(q, Len(q) + 1, Len(q)) = <<>>
    BY <1>6, <1>8
  <2> QED
    BY <2>1, <2>2, <2>3
<1>13. RawShowsNewest'
  BY <1>2, <1>12, SeriesAssumption DEF RawShowsNewest, Newest
<1> QED
  BY <1>3, <1>4, <1>11, <1>13 DEF TInv

LEMMA TiersStayAgreeing == TInv /\ [HNext]_hvars => TInv'
<1> SUFFICES ASSUME TInv, [HNext]_hvars PROVE TInv'
  OBVIOUS
<1>1. ASSUME NEW d \in Gap, NEW v \in Value,
             /\ pend = <<>> /\ Add(clock + d, v) /\ life' = life
             /\ accepted' = IF Backwards(clock + d) THEN accepted
                            ELSE Append(accepted, [n |-> clock + d, v |-> v, life |-> life])
      PROVE  TInv'
  BY <1>1, AddKeeps
<1>2. CASE Restart /\ life' = life + 1 /\ accepted' = accepted
  BY <1>2, RestartKeeps
<1>3. ASSUME NEW before, Prune(before), life' = life, accepted' = IF coarse' = <<>> THEN <<>> ELSE accepted
      PROVE  TInv'
  BY <1>3, PruneKeeps
<1>4. CASE (TakePeaks \/ UNCHANGED vars) /\ UNCHANGED <<accepted, life>>
  <2>1. /\ UNCHANGED <<rbuf, rcap, cbuf, ccap, peaks, open, clock, accepted, life>>
        /\ pend' = pend \/ pend' = <<>>
    BY <1>4 DEF TakePeaks, vars
  <2>2. pend' \in Seq(Peak) /\ Len(pend') <= 1
    <3>1. <<>> \in Seq(Peak) /\ Len(<<>>) <= 1
      OBVIOUS
    <3> QED
      BY <2>1, <3>1, Zenon DEF TInv, Typed
  <2> QED
    BY <2>1, <2>2
       DEF TInv, Typed, InOrder, Ends, Paired, Lives, Earlier, RawShowsNewest, Mine, Ordered, raw, coarse,
           RawRing!TypeOK, CoarseRing!TypeOK, RawRing!Visible, CoarseRing!Visible
<1> QED
  BY <1>1, <1>2, <1>3, <1>4 DEF HNext, hvars

LEMMA AgreementImplied == TInv => TiersAgree
<1> SUFFICES ASSUME TInv PROVE TiersAgree
  OBVIOUS
<1>1. /\ raw \in Seq(RawPoint) /\ coarse \in Seq(CoarsePoint) /\ peaks \in Seq(Peak)
      /\ Ordered(raw, RawOrder) /\ Ordered(coarse, BucketOrder) /\ Ordered(peaks, PeakOrder)
  BY Tiers, SeenInOrder DEF TInv, Typed, InOrder
<1>2. TypeOK
  <2>1. \A i \in DOMAIN peaks : peaks[i].t \in 1..MaxTime /\ peaks[i].p \in Value
    <3>1. \A i \in DOMAIN peaks : peaks[i] \in Peak
      BY <1>1
    <3> QED
      BY <3>1 DEF Peak
  <2>2. Cardinality(open) <= 1
    <3>1. CASE open = {}
      BY <3>1, FS_EmptySet
    <3>2. ASSUME NEW ob, open = {ob} PROVE Cardinality(open) <= 1
      BY <3>2, FS_Singleton
    <3> QED
      BY <3>1, <3>2 DEF TInv, Typed
  <2> QED
    BY <2>1, <2>2 DEF TInv, Typed, TypeOK
<1>3. ASSUME NEW S, NEW s \in Seq(S), NEW R, Ordered(s, R), NEW i \in 2..Len(s)
      PROVE  <<s[i - 1], s[i]>> \in R
  <2>1. i \in 1..Len(s) /\ i - 1 \in 1..Len(s) /\ i - 1 < i
    OBVIOUS
  <2> QED
    BY <1>3, <2>1 DEF Ordered
<1>4. ASSUME NEW ob \in open PROVE coarse # <<>> /\ ob.t = Last(coarse).t /\ ob.v = Last(coarse).v
  <2>1. Len(cbuf) > 0 /\ ob.t = cbuf[Len(cbuf)].t /\ ob.v = cbuf[Len(cbuf)].v
    BY DEF TInv, Ends
  <2>2. Len(coarse) > 0 /\ coarse[Len(coarse)] = cbuf[Len(cbuf)]
    BY <2>1, Tiers DEF TInv, Typed
  <2> QED
    BY <1>1, <2>1, <2>2 DEF Last
<1>5. Sorted
  <2>1. \A i \in 2..Len(raw) : <<raw[i - 1], raw[i]>> \in RawOrder
    BY <1>1, <1>3
  <2>2. \A i \in 2..Len(coarse) : <<coarse[i - 1], coarse[i]>> \in BucketOrder
    BY <1>1, <1>3
  <2>3. \A i \in 2..Len(peaks) : <<peaks[i - 1], peaks[i]>> \in PeakOrder
    BY <1>1, <1>3
  <2> QED
    BY <1>4, <2>1, <2>2, <2>3 DEF Sorted, RawOrder, BucketOrder, PeakOrder
<1>6. PeakHasBucket
  <2> SUFFICES ASSUME NEW i \in DOMAIN peaks
               PROVE  \/ coarse # <<>> /\ peaks[i].t < coarse[1].t
                      \/ \E j \in DOMAIN coarse : coarse[j].t = peaks[i].t /\ coarse[j].v # peaks[i].p
    BY DEF PeakHasBucket
  <2>1. HasBucket(coarse, peaks[i]) /\ DOMAIN coarse = 1..Len(coarse)
    BY <1>1 DEF TInv, Paired
  <2>2. Len(coarse) > 0 => coarse # <<>>
    BY <1>1
  <2> QED
    BY <2>1, <2>2 DEF HasBucket
<1> QED
  BY <1>2, <1>5, <1>6 DEF TInv, TiersAgree

\* series.go: for any values, floor, step, sizes and slacks of the buffers and retention
\* of at least one bucket, and whatever the wall clock, Prune and restarts do, both tiers,
\* the peaks and the open bucket fit together, and readers of the raw tier see exactly the
\* newest samples of this life.
THEOREM TiersAlwaysAgree == HSpec => []TiersAgree
<1> QED
  BY StartsAgreeing, TiersStayAgreeing, AgreementImplied, PTL DEF HSpec

-----------------------------------------------------------------------------
(* Queries *)

\* Lookup, in one tier: a point, and no other is nearer by a second.
LEMMA NearestIs ==
    ASSUME NEW times \in Seq(Int), \A i, j \in 1..Len(times) : i < j => times[i] <= times[j],
           NEW key \in Int, NEW target \in Int, key <= target, target < key + Sec
    PROVE  /\ times = <<>> => NearestIn(times, key, target) = {}
           /\ times # <<>> =>
                \E j \in 1..Len(times) :
                    /\ NearestIn(times, key, target) = {j}
                    /\ \A i \in 1..Len(times) : Abs(times[j] - target) < Abs(times[i] - target) + Sec
<1> DEFINE n == Len(times)
           I == {i \in DOMAIN times : times[i] < key}
           m == Cardinality(I)
           D(i) == Abs(times[i] - target)
<1>1. n \in Nat /\ DOMAIN times = 1..n /\ (times = <<>> <=> n = 0) /\ \A i \in 1..n : times[i] \in Int
  OBVIOUS
<1>2. I \in SUBSET (1..n) /\ \A i \in I : \A j \in 1..n : j < i => j \in I
  BY <1>1
<1>3. m \in 0..n /\ \A i \in 1..n : times[i] < key <=> i <= m
  <2>1. \A i \in 1..n : i \in I <=> times[i] < key
    BY <1>1
  <2> HIDE DEF I, n
  <2>2. n \in Nat
    BY <1>1
  <2>3. m \in 0..n /\ \A i \in 1..n : i \in I <=> i <= m
    BY <1>2, <2>2, Segment
  <2> QED
    BY <2>1, <2>3
<1>4. NearestIn(times, key, target) =
        IF times = <<>> THEN {}
        ELSE IF m + 1 > n \/ (m + 1 > 1 /\ D((m + 1) - 1) < D(m + 1)) THEN {(m + 1) - 1} ELSE {m + 1}
  BY DEF NearestIn
<1>5. \A x \in Int : Abs(x) \in Int /\ Abs(x) >= 0 /\ (x >= 0 => Abs(x) = x) /\ (x <= 0 => Abs(x) = -x)
  BY DEF Abs
<1>6. Sec \in Nat /\ Sec > 0
  BY SeriesAssumption
<1>7. \A i \in 1..n : D(i) \in Int /\ D(i) >= 0
  BY <1>1, <1>5
<1> HIDE DEF m, I
\* Those on the left: the last is the nearest.
<1>8. ASSUME NEW i \in 1..n, i <= m PROVE m \in 1..n /\ D(m) <= D(i)
  <2>1. m \in 1..n /\ (i = m \/ i < m)
    BY <1>1, <1>3, <1>8
  <2>2. times[i] <= times[m] /\ times[m] < key
    BY <1>1, <1>3, <2>1
  <2>3. D(m) = target - times[m] /\ D(i) = target - times[i]
    <3>1. /\ times[m] \in Int /\ times[i] \in Int
          /\ times[m] - target \in Int /\ times[m] - target <= 0
          /\ times[i] - target \in Int /\ times[i] - target <= 0
      BY <1>1, <2>1, <2>2
    <3>2. D(m) = -(times[m] - target) /\ D(i) = -(times[i] - target)
      BY <1>5, <3>1
    <3> HIDE DEF D
    <3> QED
      BY <3>1, <3>2
  <2> QED
    BY <1>1, <2>1, <2>2, <2>3
\* Those on the right: the first is the nearest, or less than a second away.
<1>9. ASSUME NEW i \in 1..n, ~(i <= m) PROVE m + 1 \in 1..n /\ D(m + 1) < D(i) + Sec
  <2>1. m + 1 \in 1..n /\ (i = m + 1 \/ m + 1 < i) /\ ~(m + 1 <= m)
    BY <1>1, <1>3, <1>9
  <2>2. times[m + 1] <= times[i] /\ ~(times[m + 1] < key) /\ times[m + 1] \in Int /\ times[i] \in Int
    BY <1>1, <1>3, <2>1
  <2>3. CASE times[m + 1] >= target
    <3>1. /\ times[m + 1] - target \in Int /\ times[m + 1] - target >= 0
          /\ times[i] - target \in Int /\ times[i] - target >= 0
      BY <2>2, <2>3
    <3>2. D(m + 1) = times[m + 1] - target /\ D(i) = times[i] - target
      BY <1>5, <3>1
    <3> HIDE DEF D
    <3> QED
      BY <1>6, <2>1, <2>2, <3>2
  <2>4. CASE times[m + 1] < target
    <3>1. D(m + 1) = target - times[m + 1]
      <4>1. times[m + 1] - target \in Int /\ times[m + 1] - target <= 0
        BY <2>2, <2>4
      <4>2. D(m + 1) = -(times[m + 1] - target)
        BY <1>5, <4>1
      <4> HIDE DEF D
      <4> QED
        BY <2>2, <4>2
    <3>2. D(i) \in Int /\ D(i) >= 0
      BY <1>7
    <3> HIDE DEF D
    <3> QED
      BY <1>6, <2>1, <2>2, <3>1, <3>2
  <2> QED
    BY <2>2, <2>3, <2>4
<1> HIDE DEF D
<1>10. ASSUME times # <<>>
       PROVE  \E j \in 1..n : NearestIn(times, key, target) = {j} /\ \A i \in 1..n : D(j) < D(i) + Sec
  <2>0. m \in Nat /\ m + 1 \in Nat /\ (m + 1) - 1 = m /\ n > 0
    BY <1>1, <1>3, <1>10
  <2>1. CASE m + 1 > n
    <3>1. m \in 1..n /\ \A i \in 1..n : i <= m
      BY <1>1, <1>3, <2>0, <2>1
    <3>2. NearestIn(times, key, target) = {m}
      BY <1>4, <1>10, <2>0, <2>1
    <3>3. \A i \in 1..n : D(m) < D(i) + Sec
      BY <1>6, <1>7, <1>8, <3>1
    <3> QED
      BY <3>1, <3>2, <3>3
  <2>2. CASE m + 1 > 1 /\ D(m) < D(m + 1) /\ ~(m + 1 > n)
    <3>1. m \in 1..n /\ m + 1 \in 1..n
      BY <1>1, <1>3, <2>0, <2>2
    <3>2. NearestIn(times, key, target) = {m}
      BY <1>4, <1>10, <2>0, <2>2
    <3>3. \A i \in 1..n : D(m) < D(i) + Sec
      BY <1>6, <1>7, <1>8, <1>9, <2>2, <3>1
    <3> QED
      BY <3>1, <3>2, <3>3
  <2>3. CASE ~(m + 1 > n) /\ ~(m + 1 > 1 /\ D(m) < D(m + 1))
    <3>1. m + 1 \in 1..n
      BY <1>1, <1>3, <2>0, <2>3
    <3>2. NearestIn(times, key, target) = {m + 1}
      BY <1>4, <1>10, <2>0, <2>3
    <3>3. ASSUME NEW i \in 1..n PROVE D(m + 1) < D(i) + Sec
      <4>1. CASE i <= m
        <5>1. m \in 1..n /\ D(m) <= D(i)
          BY <1>8, <4>1
        <5>2. m + 1 > 1
          BY <5>1
        <5> QED
          BY <1>6, <1>7, <2>3, <3>1, <5>1, <5>2
      <4> QED
        BY <1>9, <4>1
    <3> QED
      BY <3>1, <3>2, <3>3
  <2> QED
    BY <2>0, <2>1, <2>2, <2>3
<1> QED
  BY <1>4, <1>10 DEF D

LEMMA LookupFinds == TInv => LookupIsNearest
<1> SUFFICES ASSUME TInv, NEW target \in 0..MaxTime, NEW tol \in {Sec, MaxTime}
             PROVE  LET found == Lookup(target, tol)
                        dists == {Abs(raw[i].n - target) : i \in DOMAIN raw}
                                   \cup {Abs(CoarseTimes[i] - target) : i \in DOMAIN coarse}
                    IN  /\ \A f \in found : f.d <= tol /\ f.d \in dists /\ \A d \in dists : f.d < d + Sec
                        /\ found = {} => \A d \in dists : d + Sec > tol
  BY DEF LookupIsNearest
<1> DEFINE near == {Abs(raw[i].n - target) : i \in DOMAIN raw}
           far == {Abs(CoarseTimes[i] - target) : i \in DOMAIN coarse}
           inRaw == {[v |-> raw[i].v, d |-> Abs(raw[i].n - target)] : i \in NearestIn(RawTimes, target, target)}
           inCoarse == {[v |-> coarse[i].v, d |-> Abs(CoarseTimes[i] - target)] :
                          i \in NearestIn(CoarseTimes, Unix(target) * Sec, target)}
           best == IF inCoarse # {} /\ (\A r \in inRaw : \A c \in inCoarse : c.d < r.d)
                   THEN inCoarse ELSE inRaw
<1>1. /\ raw \in Seq(RawPoint) /\ coarse \in Seq(CoarsePoint)
      /\ Ordered(raw, RawOrder) /\ Ordered(coarse, BucketOrder)
      /\ \A i \in 1..Len(coarse) : coarse[i].t \in 1..MaxTime
  BY Tiers, SeenInOrder DEF TInv, Typed
<1>2. target \in Int /\ Sec \in Nat /\ Sec > 0 /\ tol \in Int /\ MaxTime \in Nat
  BY SeriesAssumption
<1>3. Unix(target) * Sec \in Int /\ Unix(target) * Sec <= target /\ target < Unix(target) * Sec + Sec
  BY <1>2, SeriesAssumption DEF Unix
<1>4. \A x \in Int : Abs(x) \in Int
  BY DEF Abs
<1>5. /\ RawTimes \in Seq(Int) /\ Len(RawTimes) = Len(raw) /\ \A i \in 1..Len(raw) : RawTimes[i] = raw[i].n
      /\ \A i, j \in 1..Len(RawTimes) : i < j => RawTimes[i] <= RawTimes[j]
  <2>1. Len(raw) \in Nat /\ DOMAIN raw = 1..Len(raw) /\ \A i \in 1..Len(raw) : raw[i] \in RawPoint
    BY <1>1
  <2>2. \A i \in 1..Len(raw) : raw[i].n \in Int
    BY <2>1 DEF RawPoint
  <2>3. RawTimes \in Seq(Int) /\ Len(RawTimes) = Len(raw) /\ \A i \in 1..Len(raw) : RawTimes[i] = raw[i].n
    BY <2>1, <2>2 DEF RawTimes
  <2>4. \A i, j \in 1..Len(raw) : i < j => raw[i].n <= raw[j].n
    BY <1>1 DEF Ordered, RawOrder
  <2> QED
    BY <2>3, <2>4
<1>6. /\ CoarseTimes \in Seq(Int) /\ Len(CoarseTimes) = Len(coarse)
      /\ \A i, j \in 1..Len(CoarseTimes) : i < j => CoarseTimes[i] <= CoarseTimes[j]
  <2>1. Len(coarse) \in Nat /\ DOMAIN coarse = 1..Len(coarse)
    BY <1>1
  <2>2. \A i \in 1..Len(coarse) : coarse[i].t \in Nat /\ coarse[i].t * Sec \in Int
    BY <1>1, <1>2
  <2>3. /\ CoarseTimes \in Seq(Int) /\ Len(CoarseTimes) = Len(coarse)
        /\ \A i \in 1..Len(coarse) : CoarseTimes[i] = coarse[i].t * Sec
    BY <2>1, <2>2 DEF CoarseTimes
  <2>4. \A i, j \in 1..Len(coarse) : i < j => coarse[i].t < coarse[j].t
    <3> SUFFICES ASSUME NEW i \in 1..Len(coarse), NEW j \in 1..Len(coarse), i < j
                 PROVE  coarse[i].t < coarse[j].t
      OBVIOUS
    <3>1. BucketOf(coarse[i].t) < BucketOf(coarse[j].t)
      BY <1>1 DEF Ordered, BucketOrder
    <3> QED
      BY <2>2, <3>1, Buckets
  <2>5. \A a \in Nat, b \in Nat : a < b => a * Sec <= b * Sec
    BY <1>2, SeriesAssumption
  <2> QED
    BY <2>2, <2>3, <2>4, <2>5
<1>7. /\ near \subseteq Int /\ (inRaw = {} => near = {})
      /\ inRaw # {} => \E f : inRaw = {f} /\ f.d \in near /\ \A d \in near : f.d < d + Sec
  <2>0. DOMAIN raw = 1..Len(raw) /\ (\A i \in 1..Len(raw) : raw[i] \in RawPoint)
        /\ target <= target /\ target < target + Sec
    BY <1>1, <1>2
  <2>1. DOMAIN raw = 1..Len(raw) /\ \A i \in 1..Len(raw) : raw[i].n \in Int
    BY <2>0 DEF RawPoint
  <2>2. near \subseteq Int
    BY <1>2, <1>4, <2>1
  <2>3. CASE RawTimes = <<>>
    <3>1. NearestIn(RawTimes, target, target) = {}
      BY <1>2, <1>5, <2>0, <2>3, NearestIs
    <3>2. DOMAIN raw = {}
      BY <1>1, <1>5, <2>3
    <3> QED
      BY <2>2, <3>1, <3>2
  <2>4. CASE RawTimes # <<>>
    <3>1. \E j \in 1..Len(RawTimes) :
             /\ NearestIn(RawTimes, target, target) = {j}
             /\ \A i \in 1..Len(RawTimes) : Abs(RawTimes[j] - target) < Abs(RawTimes[i] - target) + Sec
      BY <1>2, <1>5, <2>0, <2>4, NearestIs
    <3>2. PICK j \in 1..Len(raw) :
             /\ NearestIn(RawTimes, target, target) = {j}
             /\ \A i \in 1..Len(raw) : Abs(raw[j].n - target) < Abs(raw[i].n - target) + Sec
      BY <1>5, <3>1
    <3> DEFINE f == [v |-> raw[j].v, d |-> Abs(raw[j].n - target)]
    <3>3. inRaw = {f}
      BY <3>2
    <3>4. f.d = Abs(raw[j].n - target)
      OBVIOUS
    <3>5. f.d \in near /\ \A d \in near : f.d < d + Sec
      BY <2>1, <3>2, <3>4
    <3> HIDE DEF f, near, inRaw
    <3> QED
      BY <2>2, <3>3, <3>5
  <2> QED
    BY <2>3, <2>4
<1>8. /\ far \subseteq Int /\ (inCoarse = {} => far = {})
      /\ inCoarse # {} => \E f : inCoarse = {f} /\ f.d \in far /\ \A d \in far : f.d < d + Sec
  <2> DEFINE key == Unix(target) * Sec
  <2>1. DOMAIN coarse = 1..Len(coarse) /\ \A i \in 1..Len(coarse) : CoarseTimes[i] \in Int
    BY <1>1, <1>6
  <2>2. far \subseteq Int
    BY <1>2, <1>4, <2>1
  <2>3. CASE CoarseTimes = <<>>
    <3>1. NearestIn(CoarseTimes, key, target) = {}
      BY <1>2, <1>3, <1>6, <2>3, NearestIs
    <3>2. DOMAIN coarse = {}
      BY <1>1, <1>6, <2>3
    <3> QED
      BY <2>2, <3>1, <3>2
  <2>4. CASE CoarseTimes # <<>>
    <3>1. \E j \in 1..Len(CoarseTimes) :
             /\ NearestIn(CoarseTimes, key, target) = {j}
             /\ \A i \in 1..Len(CoarseTimes) : Abs(CoarseTimes[j] - target) < Abs(CoarseTimes[i] - target) + Sec
      BY <1>2, <1>3, <1>6, <2>4, NearestIs
    <3>2. PICK j \in 1..Len(coarse) :
             /\ NearestIn(CoarseTimes, key, target) = {j}
             /\ \A i \in 1..Len(coarse) : Abs(CoarseTimes[j] - target) < Abs(CoarseTimes[i] - target) + Sec
      BY <1>6, <3>1
    <3> DEFINE f == [v |-> coarse[j].v, d |-> Abs(CoarseTimes[j] - target)]
    <3>3. inCoarse = {f}
      BY <3>2
    <3>4. f.d = Abs(CoarseTimes[j] - target)
      OBVIOUS
    <3>5. f.d \in far /\ \A d \in far : f.d < d + Sec
      BY <2>1, <3>2, <3>4
    <3> HIDE DEF f, far, inCoarse
    <3> QED
      BY <2>2, <3>3, <3>5
  <2> QED
    BY <2>3, <2>4
<1> HIDE DEF near, far, inRaw, inCoarse
<1>9. /\ best = {} => near \cup far = {}
      /\ best # {} => \E f : best = {f} /\ f.d \in near \cup far /\ \A d \in near \cup far : f.d < d + Sec
  <2>1. CASE inRaw = {}
    BY <1>7, <1>8, <2>1
  <2>2. CASE inRaw # {} /\ inCoarse = {}
    BY <1>7, <1>8, <2>2
  <2>3. CASE inRaw # {} /\ inCoarse # {}
    <3>1. PICK r : inRaw = {r} /\ r.d \in near /\ \A d \in near : r.d < d + Sec
      BY <1>7, <2>3
    <3>2. PICK c : inCoarse = {c} /\ c.d \in far /\ \A d \in far : c.d < d + Sec
      BY <1>8, <2>3
    <3>3. r.d \in Int /\ c.d \in Int
      BY <1>7, <1>8, <3>1, <3>2
    <3>4. CASE c.d < r.d
      <4>1. best = {c}
        BY <3>1, <3>2, <3>4
      <4>2. \A d \in near \cup far : c.d < d + Sec
        <5>1. ASSUME NEW d \in near PROVE c.d < d + Sec
          <6>1. r.d < d + Sec /\ d \in Int
            BY <1>7, <3>1
          <6> QED
            BY <1>2, <3>3, <3>4, <6>1
        <5> QED
          BY <3>2, <5>1
      <4> HIDE DEF best
      <4> QED
        BY <3>2, <4>1, <4>2
    <3>5. CASE ~(c.d < r.d)
      <4>1. best = {r}
        BY <3>1, <3>2, <3>5
      <4>2. \A d \in near \cup far : r.d < d + Sec
        <5>1. ASSUME NEW d \in far PROVE r.d < d + Sec
          <6>1. c.d < d + Sec /\ d \in Int
            BY <1>8, <3>2
          <6> QED
            BY <1>2, <3>3, <3>5, <6>1
        <5> QED
          BY <3>1, <5>1
      <4> HIDE DEF best
      <4> QED
        BY <3>1, <4>1, <4>2
    <3> QED
      BY <3>4, <3>5
  <2> QED
    BY <2>1, <2>2, <2>3
<1>10. Lookup(target, tol) = {b \in best : b.d <= tol}
  BY DEF Lookup, best, inRaw, inCoarse
<1> HIDE DEF best
<1>11. \A f \in Lookup(target, tol) :
           f.d <= tol /\ f.d \in near \cup far /\ \A d \in near \cup far : f.d < d + Sec
  BY <1>9, <1>10
<1>12. ASSUME Lookup(target, tol) = {}, NEW d \in near \cup far PROVE d + Sec > tol
  <2>1. PICK f : best = {f} /\ f.d \in near \cup far /\ f.d < d + Sec
    BY <1>9, <1>12
  <2>2. ~(f.d <= tol)
    BY <1>10, <1>12, <2>1
  <2>3. d \in Int /\ f.d \in Int
    BY <1>7, <1>8, <1>12, <2>1
  <2> QED
    BY <1>2, <2>1, <2>2, <2>3
<1> QED
  BY <1>11, <1>12 DEF near, far

\* series.go, Lookup: for any sizes, step and retention, the two binary searches in two
\* units of time return a stored point, and none is nearer by a second or more.
THEOREM LookupIsRight == HSpec => []LookupIsNearest
<1> QED
  BY StartsAgreeing, TiersStayAgreeing, LookupFinds, PTL DEF HSpec

-----------------------------------------------------------------------------
(* What the buckets say of the samples *)

\* Of samples a, buckets C, peaks P, open buckets O, newest raw points b and life l.
BucketAt(a, i) == BucketOf(Unix(a[i].n))
In(a, c) == {i \in 1..Len(a) : BucketAt(a, i) = BucketOf(c.t)}
AllOf(a, c, l) == \A i \in In(a, c) : a[i].life = l
LaterOf(a, c, l) == \E i \in 1..Len(a) : a[i].life = l /\ BucketAt(a, i) > BucketOf(c.t)
WorstIs(a, I, w) == (\E i \in I : a[i].v = w) /\ (\A i \in I : ~Worse(a[i].v, w))
PeakSays(P, c, w) ==
    IF Floor > 0 /\ Abs(w - c.v) >= Floor
    THEN \E x \in 1..Len(P) : P[x].t = c.t /\ P[x].p = w
    ELSE \A x \in 1..Len(P) : P[x].t # c.t

\* No sample is of a later bucket than the newest one.
NoLater(a, C) ==
    Len(a) > 0 => Len(C) > 0 /\ \A i \in 1..Len(a) : BucketAt(a, i) <= BucketOf(C[Len(C)].t)
\* No sample of this life is later than the newest raw point.
RawIsLast(a, l, b) == \A i \in 1..Len(a) : a[i].life = l => Len(b) > 0 /\ a[i].n <= b[Len(b)].n
FirstIs(a, C) ==
    \A j \in 1..Len(C) : \E i \in In(a, C[j]) :
        Unix(a[i].n) = C[j].t /\ a[i].v = C[j].v /\ \A k \in In(a, C[j]) : i <= k
\* The newest bucket has no peak yet.
PeaksClosed(P, C) == \A x \in 1..Len(P) : Len(C) > 0 /\ P[x].t < C[Len(C)].t
\* The open bucket has the worst sample, if it saw all of them.
OpenExact(a, l, C, O) ==
    Len(C) > 0 /\ AllOf(a, C[Len(C)], l) => \E ob \in O : WorstIs(a, In(a, C[Len(C)]), ob.worst)
\* What one life has seen alone it has closed.
MineWatched(a, l, C) == \A j \in 1..Len(C) : j < Len(C) /\ AllOf(a, C[j], l) => LaterOf(a, C[j], l)
PeaksRight(a, l, C, P) ==
    \A j \in 1..Len(C) : \A k \in 1..l :
        j < Len(C) /\ AllOf(a, C[j], k) /\ LaterOf(a, C[j], k) =>
            \E w : WorstIs(a, In(a, C[j]), w) /\ PeakSays(P, C[j], w)

BInv ==
    /\ NoLater(accepted, coarse) /\ RawIsLast(accepted, life, rbuf)
    /\ FirstIs(accepted, coarse) /\ PeaksClosed(peaks, coarse)
    /\ OpenExact(accepted, life, coarse, open)
    /\ MineWatched(accepted, life, coarse) /\ PeaksRight(accepted, life, coarse, peaks)

Sample(l) == [n : Sec..MaxTime, v : Value, life : 1..l]

LEMMA UnixGrows == \A m \in Nat, n \in Nat : Unix(m) \in Nat /\ (m <= n => Unix(m) <= Unix(n))
<1> SUFFICES ASSUME NEW m \in Nat, NEW n \in Nat PROVE Unix(m) \in Nat /\ (m <= n => Unix(m) <= Unix(n))
  OBVIOUS
<1> QED
  BY SeriesAssumption DEF Unix

LEMMA SampleTimes ==
    ASSUME NEW l, NEW a \in Seq(Sample(l)), NEW i \in 1..Len(a)
    PROVE  /\ a[i].n \in Nat /\ a[i].n \in Sec..MaxTime /\ a[i].v \in Int /\ a[i].life \in 1..l
           /\ Unix(a[i].n) \in Nat /\ BucketAt(a, i) \in Nat
<1>1. a[i] \in Sample(l)
  OBVIOUS
<1>2. a[i].n \in Sec..MaxTime /\ a[i].v \in Int /\ a[i].life \in 1..l
  BY <1>1, SeriesAssumption DEF Sample
<1>3. a[i].n \in Nat /\ Unix(a[i].n) \in Nat
  BY <1>2, Seconds, UnixGrows
<1> QED
  BY <1>2, <1>3, Buckets DEF BucketAt

\* One more sample.
LEMMA InAppend ==
    ASSUME NEW S, NEW a \in Seq(S), NEW e \in S, NEW c
    PROVE  LET z == Append(a, e)
           IN  /\ Len(z) = Len(a) + 1 /\ z[Len(z)] = e /\ BucketAt(z, Len(z)) = BucketOf(Unix(e.n))
               /\ \A i \in 1..Len(a) : i \in 1..Len(z) /\ z[i] = a[i] /\ BucketAt(z, i) = BucketAt(a, i)
               /\ \A i \in 1..Len(z) : i \in 1..Len(a) \/ i = Len(z)
               /\ In(a, c) \subseteq In(z, c) /\ In(z, c) \subseteq In(a, c) \cup {Len(z)}
               /\ Len(z) \in In(z, c) <=> BucketOf(Unix(e.n)) = BucketOf(c.t)
<1> DEFINE z == Append(a, e)
<1>1. Len(z) = Len(a) + 1 /\ z[Len(a) + 1] = e /\ Len(a) \in Nat /\ \A i \in 1..Len(a) : z[i] = a[i]
  BY AppendProperties
<1> HIDE DEF z
<1>2. /\ \A i \in 1..Len(a) : i \in 1..Len(z)
      /\ \A i \in 1..Len(z) : i \in 1..Len(a) \/ i = Len(z)
      /\ Len(z) \in 1..Len(z)
  BY <1>1
<1>3. /\ BucketAt(z, Len(z)) = BucketOf(Unix(e.n))
      /\ \A i \in 1..Len(a) : BucketAt(z, i) = BucketAt(a, i)
  BY <1>1 DEF BucketAt
<1>4. /\ In(a, c) \subseteq In(z, c) /\ In(z, c) \subseteq In(a, c) \cup {Len(z)}
      /\ Len(z) \in In(z, c) <=> BucketOf(Unix(e.n)) = BucketOf(c.t)
  BY <1>2, <1>3 DEF In
<1> QED
  BY <1>1, <1>2, <1>3, <1>4 DEF z

\* A sample that is not from before the others of its life changes nothing for the
\* buckets that are closed.
LEMMA SampleAdded ==
    ASSUME NEW l \in Nat \ {0}, NEW a \in Seq(Sample(l)), NEW e \in Sample(l), e.life = l,
           \A i \in 1..Len(a) : a[i].life = l => a[i].n <= e.n,
           NEW C \in Seq(CoarsePoint), \A i \in 1..Len(C) : C[i].t \in 1..MaxTime, NEW P,
           FirstIs(a, C), MineWatched(a, l, C), PeaksRight(a, l, C, P)
    PROVE  LET z == Append(a, e) IN FirstIs(z, C) /\ MineWatched(z, l, C) /\ PeaksRight(z, l, C, P)
<1> DEFINE z == Append(a, e)
<1>1. z \in Seq(Sample(l)) /\ Len(a) \in Nat /\ Len(C) \in Nat
  BY AppendProperties
<1>2. /\ Len(z) = Len(a) + 1 /\ z[Len(z)] = e /\ BucketAt(z, Len(z)) = BucketOf(Unix(e.n))
      /\ \A i \in 1..Len(a) : i \in 1..Len(z) /\ z[i] = a[i] /\ BucketAt(z, i) = BucketAt(a, i)
      /\ \A i \in 1..Len(z) : i \in 1..Len(a) \/ i = Len(z)
  BY InAppend
<1>3. ASSUME NEW c
      PROVE  /\ In(a, c) \subseteq In(z, c) /\ In(z, c) \subseteq In(a, c) \cup {Len(z)}
             /\ Len(z) \in In(z, c) <=> BucketOf(Unix(e.n)) = BucketOf(c.t)
  BY InAppend
<1> HIDE DEF z
<1>4. \A c : In(a, c) \subseteq 1..Len(a)
  BY DEF In
<1>5. FirstIs(z, C)
  <2> SUFFICES ASSUME NEW j \in 1..Len(C)
               PROVE  \E i \in In(z, C[j]) :
                          Unix(z[i].n) = C[j].t /\ z[i].v = C[j].v /\ \A k \in In(z, C[j]) : i <= k
    BY DEF FirstIs
  <2>1. PICK i \in In(a, C[j]) : Unix(a[i].n) = C[j].t /\ a[i].v = C[j].v /\ \A k \in In(a, C[j]) : i <= k
    BY DEF FirstIs
  <2>2. i \in In(z, C[j]) /\ z[i] = a[i] /\ i \in 1..Len(a)
    BY <1>2, <1>3, <1>4
  <2>3. \A k \in In(z, C[j]) : k \in In(a, C[j]) \/ k = Len(z)
    BY <1>3
  <2>4. i <= Len(z)
    BY <1>1, <1>2, <2>2
  <2> QED
    BY <2>1, <2>2, <2>3, <2>4
<1>6. ASSUME NEW c, NEW k, AllOf(z, c, k) PROVE AllOf(a, c, k)
  BY <1>2, <1>3, <1>4, <1>6 DEF AllOf
<1>7. ASSUME NEW c, NEW k, LaterOf(a, c, k) PROVE LaterOf(z, c, k)
  BY <1>2, <1>7 DEF LaterOf
<1>8. MineWatched(z, l, C)
  BY <1>6, <1>7 DEF MineWatched
<1>9. PeaksRight(z, l, C, P)
  <2> SUFFICES ASSUME NEW j \in 1..Len(C), NEW k \in 1..l,
                      j < Len(C), AllOf(z, C[j], k), LaterOf(z, C[j], k)
               PROVE  \E w : WorstIs(z, In(z, C[j]), w) /\ PeakSays(P, C[j], w)
    BY DEF PeaksRight
  <2> DEFINE c == C[j]
  <2>1. AllOf(a, c, k) /\ c.t \in Nat
    BY <1>6
  <2> HIDE DEF c
  <2>2. AllOf(a, c, l) => LaterOf(a, c, l)
    BY DEF MineWatched, c
  <2>3. Len(z) \notin In(z, c)
    <3> SUFFICES ASSUME Len(z) \in In(z, c) PROVE FALSE
      OBVIOUS
    <3>1. BucketOf(Unix(e.n)) = BucketOf(c.t) /\ k = l
      BY <1>2, <1>3 DEF AllOf, c
    <3>2. PICK i \in 1..Len(a) : a[i].life = l /\ BucketAt(a, i) > BucketOf(c.t)
      BY <2>1, <2>2, <3>1 DEF LaterOf
    <3>3. a[i].n <= e.n
      BY <3>2
    <3>4. a[i].n \in Nat /\ Unix(a[i].n) \in Nat /\ BucketAt(a, i) \in Nat
      BY SampleTimes
    <3>5. e.n \in Sec..MaxTime
      BY DEF Sample
    <3>6. e.n \in Nat /\ Unix(e.n) \in Nat
      BY <3>5, Seconds, UnixGrows
    <3>7. Unix(a[i].n) <= Unix(e.n)
      BY <3>3, <3>4, <3>6, UnixGrows
    <3>8. BucketAt(a, i) <= BucketOf(Unix(e.n)) /\ BucketOf(Unix(e.n)) \in Nat
      BY <3>4, <3>6, <3>7, Buckets DEF BucketAt
    <3> QED
      BY <3>1, <3>2, <3>4, <3>8
  <2>4. In(z, c) = In(a, c)
    BY <1>3, <2>3
  <2>5. LaterOf(a, c, k)
    <3>1. PICK i \in 1..Len(z) : z[i].life = k /\ BucketAt(z, i) > BucketOf(c.t)
      BY DEF LaterOf, c
    <3>2. CASE i \in 1..Len(a)
      BY <1>2, <3>1, <3>2 DEF LaterOf
    <3>3. CASE i = Len(z)
      BY <1>2, <2>1, <2>2, <3>1, <3>3
    <3> QED
      BY <1>2, <3>2, <3>3
  <2>6. PICK w : WorstIs(a, In(a, c), w) /\ PeakSays(P, c, w)
    BY <2>1, <2>5 DEF PeaksRight, c
  <2>7. WorstIs(z, In(z, c), w)
    BY <1>2, <1>4, <2>4, <2>6 DEF WorstIs
  <2> QED
    BY <2>6, <2>7 DEF c
<1> QED
  BY <1>5, <1>8, <1>9 DEF z

\* A sample that opens no bucket: the worst of the open one follows.
LEMMA SampleFollows ==
    ASSUME NEW l \in Nat \ {0}, NEW a \in Seq(Sample(l)), NEW e \in Sample(l), e.life = l,
           \A i \in 1..Len(a) : a[i].life = l => a[i].n <= e.n,
           NEW C \in Seq(CoarsePoint), \A i \in 1..Len(C) : C[i].t \in 1..MaxTime,
           Len(C) > 0, BucketOf(Unix(e.n)) <= BucketOf(C[Len(C)].t),
           NEW O \in SUBSET [t : 1..MaxTime, v : Value, worst : Value],
           NoLater(a, C), FirstIs(a, C), OpenExact(a, l, C, O)
    PROVE  /\ NoLater(Append(a, e), C)
           /\ OpenExact(Append(a, e), l, C,
                        {[ob EXCEPT !.worst = IF Worse(e.v, ob.worst) THEN e.v ELSE ob.worst] : ob \in O})
<1> DEFINE z == Append(a, e)
           c == C[Len(C)]
           N == {[ob EXCEPT !.worst = IF Worse(e.v, ob.worst) THEN e.v ELSE ob.worst] : ob \in O}
<1>1. Len(a) \in Nat /\ Len(C) \in 1..Len(C) /\ c.t \in Nat /\ BucketOf(c.t) \in Nat
  <2>1. Len(a) \in Nat /\ Len(C) \in 1..Len(C)
    OBVIOUS
  <2>2. c.t \in Nat
    BY <2>1
  <2> HIDE DEF c
  <2> QED
    BY <2>1, <2>2, Buckets
<1>2. /\ Len(z) = Len(a) + 1 /\ z[Len(z)] = e /\ BucketAt(z, Len(z)) = BucketOf(Unix(e.n))
      /\ \A i \in 1..Len(a) : i \in 1..Len(z) /\ z[i] = a[i] /\ BucketAt(z, i) = BucketAt(a, i)
      /\ \A i \in 1..Len(z) : i \in 1..Len(a) \/ i = Len(z)
      /\ In(a, c) \subseteq In(z, c) /\ In(z, c) \subseteq In(a, c) \cup {Len(z)}
      /\ Len(z) \in In(z, c) <=> BucketOf(Unix(e.n)) = BucketOf(c.t)
  BY InAppend
<1>3. NoLater(z, C)
  <2>1. \A i \in 1..Len(a) : Len(a) > 0
    BY <1>1
  <2> QED
    BY <1>2, <2>1 DEF NoLater
<1>4. In(a, c) \subseteq 1..Len(a)
  BY DEF In
<1> HIDE DEF z, c, N
<1>5. ASSUME AllOf(z, c, l) PROVE \E o2 \in N : WorstIs(z, In(z, c), o2.worst)
  <2>1. AllOf(a, c, l)
    BY <1>2, <1>4, <1>5 DEF AllOf
  <2>2. PICK ob \in O : WorstIs(a, In(a, c), ob.worst)
    BY <1>1, <2>1 DEF OpenExact, c
  <2>3. PICK i \in In(a, c) : a[i].life = l
    BY <1>1, <2>1 DEF FirstIs, AllOf, c
  <2>4. Len(z) \in In(z, c)
    <3>1. a[i].n <= e.n /\ a[i].n \in Nat /\ BucketAt(a, i) = BucketOf(c.t) /\ i \in 1..Len(a)
      BY <1>4, <2>3, SampleTimes DEF In
    <3>2. e.n \in Sec..MaxTime
      BY DEF Sample
    <3>3. e.n \in Nat
      BY <3>2, Seconds
    <3>4. Unix(a[i].n) <= Unix(e.n) /\ Unix(a[i].n) \in Nat /\ Unix(e.n) \in Nat
      BY <3>1, <3>3, UnixGrows
    <3>5. BucketOf(c.t) <= BucketOf(Unix(e.n)) /\ BucketOf(Unix(e.n)) \in Nat
      BY <3>1, <3>4, Buckets DEF BucketAt
    <3>6. BucketOf(Unix(e.n)) <= BucketOf(c.t)
      BY DEF c
    <3>7. BucketOf(Unix(e.n)) = BucketOf(c.t)
      BY <1>1, <3>5, <3>6
    <3> QED
      BY <1>2, <3>7
  <2> DEFINE o2 == [ob EXCEPT !.worst = IF Worse(e.v, ob.worst) THEN e.v ELSE ob.worst]
             w == IF Worse(e.v, ob.worst) THEN e.v ELSE ob.worst
  <2>5. o2 \in N
    BY DEF N
  <2>6. WorstIs(z, In(z, c), w)
    <3>1. ob.worst \in Int /\ e.v \in Int /\ Dir \in {1, -1}
      BY SeriesAssumption DEF Sample
    <3>2. \A i2 \in In(a, c) : a[i2].v \in Int /\ z[i2] = a[i2]
      BY <1>2, <1>4, SampleTimes
    <3>3. \A x \in Int : ~Worse(x, ob.worst) => ~Worse(x, w)
      BY <3>1 DEF Worse
    <3>4. ~Worse(e.v, w)
      BY <3>1 DEF Worse
    <3>5. ASSUME NEW i2 \in In(z, c) PROVE ~Worse(z[i2].v, w)
      <4>1. CASE i2 = Len(z)
        BY <1>2, <3>4, <4>1
      <4>2. CASE i2 \in In(a, c)
        <5>1. ~Worse(a[i2].v, ob.worst) /\ a[i2].v \in Int
          BY <2>2, <3>2, <4>2 DEF WorstIs
        <5> HIDE DEF w
        <5> QED
          BY <3>2, <3>3, <4>2, <5>1
      <4> QED
        BY <1>2, <4>1, <4>2
    <3>6. \E i2 \in In(z, c) : z[i2].v = w
      <4>1. CASE Worse(e.v, ob.worst)
        BY <1>2, <2>4, <4>1
      <4>2. CASE ~Worse(e.v, ob.worst)
        BY <1>2, <2>2, <3>2, <4>2 DEF WorstIs
      <4> QED
        BY <4>1, <4>2
    <3> HIDE DEF w
    <3> QED
      BY <3>5, <3>6 DEF WorstIs
  <2>7. o2.worst = w
    OBVIOUS
  <2> QED
    BY <2>5, <2>6, <2>7
<1>6. OpenExact(z, l, C, N)
  BY <1>5 DEF OpenExact, c
<1> QED
  BY <1>3, <1>6 DEF z, N

LEMMA Intervals == \A n \in Nat : IsFiniteSet(1..n) /\ Cardinality(1..n) = n
<1> SUFFICES ASSUME NEW n \in Nat PROVE IsFiniteSet(1..n) /\ Cardinality(1..n) = n
  OBVIOUS
<1> QED
  BY FS_Interval

\* appendPeak: the peak that falls out of the list has no bucket left, for there are no
\* more buckets than peaks.
LEMMA PeakStays ==
    ASSUME NEW D \in Seq(CoarsePoint), Len(D) <= MaxCoarse,
           NEW q \in Seq(Peak), Ordered(q, PeakOrder), Len(q) <= MaxCoarse + 1,
           \A x \in 1..Len(q) : HasBucket(D, q[x]),
           Ordered(D, BucketOrder), \A i \in 1..Len(D) : D[i].t \in 1..MaxTime,
           NEW j \in 1..Len(D), NEW y \in 1..Len(q), q[y].t = D[j].t
    PROVE  \E x \in 1..Len(Newest(q, MaxCoarse)) : Newest(q, MaxCoarse)[x] = q[y]
<1> DEFINE w == Newest(q, MaxCoarse)
           e == IF Len(q) > MaxCoarse THEN Len(q) - MaxCoarse ELSE 0
<1>0. \A n \in Nat : IsFiniteSet(1..n) /\ Cardinality(1..n) = n
  BY Intervals
<1>1. Len(q) \in Nat /\ Len(D) \in Nat /\ MaxCoarse \in Nat \ {0}
  BY SeriesAssumption
<1>2. e \in {0, 1} /\ (e = 1 => Len(q) = MaxCoarse + 1)
  BY <1>1
<1>3. Rest(w, q, e)
  BY <1>1, NewestIs
<1> HIDE DEF w, e
<1>4. Len(w) = Len(q) - e /\ \A i \in 1..Len(w) : w[i] = q[e + i]
  BY <1>3 DEF Rest
<1>5. CASE y > e
  <2>1. y - e \in 1..Len(w) /\ e + (y - e) = y
    BY <1>1, <1>2, <1>4, <1>5
  <2>2. w[y - e] = q[y]
    BY <1>4, <2>1
  <2> QED
    BY <2>1, <2>2 DEF w
<1>6. CASE ~(y > e)
  <2>1. e = 1 /\ y = 1 /\ Len(q) = MaxCoarse + 1
    BY <1>1, <1>2, <1>6
  <2>2. \A x \in 1..Len(q) : q[x] \in Peak /\ q[x].t \in Int
    <3>1. \A x \in 1..Len(q) : q[x] \in Peak
      OBVIOUS
    <3> QED
      BY <3>1 DEF Peak
  <2>3. \A x \in 1..Len(q), z \in 1..Len(q) : x < z => q[x].t < q[z].t
    BY DEF Ordered, PeakOrder
  <2>4. \A i \in 1..Len(D) : D[i].t \in Nat
    OBVIOUS
  <2>5. 1 \in 1..Len(D) /\ D[1].t <= D[j].t
    <3>1. 1 \in 1..Len(D) /\ (j = 1 \/ 1 < j)
      OBVIOUS
    <3>2. 1 < j => BucketOf(D[1].t) < BucketOf(D[j].t)
      BY <3>1 DEF Ordered, BucketOrder
    <3>3. 1 < j => D[1].t < D[j].t
      BY <2>4, <3>1, <3>2, Buckets
    <3> QED
      BY <2>4, <3>1, <3>3
  <2>6. ASSUME NEW x \in 1..Len(q) PROVE \E i \in 1..Len(D) : D[i].t = q[x].t
    <3>1. ~(q[x].t < D[1].t)
      <4>1. x = 1 \/ 1 < x
        OBVIOUS
      <4>2. 1 \in 1..Len(q) /\ (x = 1 \/ q[1].t < q[x].t)
        BY <2>1, <2>3, <4>1
      <4>3. q[1].t = D[j].t
        BY <2>1
      <4> QED
        BY <2>2, <2>4, <2>5, <4>2, <4>3
    <3> QED
      BY <3>1 DEF HasBucket
  <2> DEFINE S == 1..Len(q)
             T == 1..Len(D)
             f == [x \in S |-> CHOOSE i \in T : D[i].t = q[x].t]
  <2>7. \A x \in S : f[x] \in T /\ D[f[x]].t = q[x].t
    BY <2>6
  <2>8. f \in [S -> T]
    BY <2>7
  <2>9. IsFiniteSet(S) /\ IsFiniteSet(T) /\ Cardinality(S) = Len(q) /\ Cardinality(T) = Len(D)
    BY <1>0, <1>1
  <2>10. Cardinality(T) < Cardinality(S)
    <3> HIDE DEF S, T
    <3> QED
      BY <1>1, <2>1, <2>9
  <2>11. \E x, z \in S : x # z /\ f[x] = f[z]
    <3> HIDE DEF S, T, f
    <3> QED
      BY <2>8, <2>9, <2>10, FS_PigeonHole
  <2>12. PICK x \in S, z \in S : x # z /\ f[x] = f[z]
    BY <2>11
  <2>13. q[x].t = q[z].t
    BY <2>7, <2>12
  <2>14. q[x].t < q[z].t \/ q[z].t < q[x].t
    <3>1. x < z \/ z < x
      BY <2>12
    <3> QED
      BY <2>3, <3>1
  <2> QED
    BY <2>2, <2>13, <2>14
<1> QED
  BY <1>5, <1>6

\* Sample e joins the samples a of life l and opens bucket p: of the buckets C and p all but the
\* first d are left (D), and of the peaks P all that have one (Q), with that of the open bucket.
Opening(l, a, e, C, p, D, d, P, Q, O) ==
    /\ l \in Nat \ {0} /\ a \in Seq(Sample(l)) /\ e \in Sample(l) /\ e.life = l
    /\ \A i \in 1..Len(a) : a[i].life = l => a[i].n <= e.n
    /\ C \in Seq(CoarsePoint) /\ Ordered(C, BucketOrder) /\ \A i \in 1..Len(C) : C[i].t \in 1..MaxTime
    /\ p \in CoarsePoint /\ p.t = Unix(e.n) /\ p.v = e.v
    /\ \A i \in 1..Len(C) : BucketOf(C[i].t) < BucketOf(p.t)
    /\ d \in 0..Len(C) /\ Rest(D, Append(C, p), d)
    /\ \A x \in 1..Len(Q) : \/ \E y \in 1..Len(P) : Q[x] = P[y]
                            \/ Len(C) > 0 /\ Q[x].t = C[Len(C)].t
    /\ \A y \in 1..Len(P), j \in 1..Len(D) : D[j].t = P[y].t => \E x \in 1..Len(Q) : Q[x] = P[y]
    /\ \A ob \in O : Len(C) > 0 => PeakSays(Q, C[Len(C)], ob.worst)
    /\ \A x \in 1..Len(P) : P[x].t \in Nat
    /\ NoLater(a, C) /\ FirstIs(a, C) /\ PeaksClosed(P, C) /\ OpenExact(a, l, C, O)
    /\ MineWatched(a, l, C) /\ PeaksRight(a, l, C, P)

\* The bucket before it is closed, and its peak recorded.
LEMMA BucketOpens ==
    ASSUME NEW l, NEW a, NEW e, NEW C, NEW p, NEW D, NEW d, NEW P, NEW Q, NEW O,
           Opening(l, a, e, C, p, D, d, P, Q, O)
    PROVE  LET z == Append(a, e)
           IN  /\ NoLater(z, D) /\ FirstIs(z, D) /\ PeaksClosed(Q, D)
               /\ OpenExact(z, l, D, {[t |-> p.t, v |-> e.v, worst |-> e.v]})
               /\ MineWatched(z, l, D) /\ PeaksRight(z, l, D, Q)
<1> USE DEF Opening
<1> DEFINE z == Append(a, e)
           m == Len(C)
<1>1. m \in Nat /\ Len(a) \in Nat /\ (m > 0 => m \in 1..m)
  OBVIOUS
<1>2. /\ Len(z) = Len(a) + 1 /\ z[Len(z)] = e /\ BucketAt(z, Len(z)) = BucketOf(Unix(e.n))
      /\ \A i \in 1..Len(a) : i \in 1..Len(z) /\ z[i] = a[i] /\ BucketAt(z, i) = BucketAt(a, i)
      /\ \A i \in 1..Len(z) : i \in 1..Len(a) \/ i = Len(z)
  BY InAppend
<1>3. ASSUME NEW c
      PROVE  /\ In(a, c) \subseteq In(z, c) /\ In(z, c) \subseteq In(a, c) \cup {Len(z)}
             /\ Len(z) \in In(z, c) <=> BucketOf(Unix(e.n)) = BucketOf(c.t)
  BY InAppend
<1>4. FirstIs(z, C) /\ MineWatched(z, l, C) /\ PeaksRight(z, l, C, P)
  BY SampleAdded
\* The buckets that are left, and the new one.
<1>5. /\ Len(D) \in Nat /\ Len(D) > 0 /\ Len(D) = m + 1 - d /\ D[Len(D)] = p
      /\ \A j \in 1..Len(D) : j < Len(D) => d + j \in 1..m /\ D[j] = C[d + j]
  <2>1. Len(Append(C, p)) = m + 1 /\ Append(C, p)[m + 1] = p /\ \A i \in 1..m : Append(C, p)[i] = C[i]
    BY AppendProperties
  <2>2. Len(D) = m + 1 - d /\ \A j \in 1..Len(D) : D[j] = Append(C, p)[d + j]
    BY <2>1 DEF Rest
  <2> HIDE DEF m
  <2>3. Len(D) \in 1..Len(D) /\ d + Len(D) = m + 1 /\ \A j \in 1..Len(D) : j < Len(D) => d + j \in 1..m
    <3> m \in Nat /\ d \in 0..m
      BY <1>1 DEF m
    <3> QED
      BY <2>2
  <2>4. Len(D) \in Nat /\ Len(D) > 0
    BY <2>3
  <2> QED
    BY <2>1, <2>2, <2>3, <2>4
<1>6. p.t \in Nat /\ BucketOf(p.t) \in Nat /\ Len(z) \in 1..Len(z)
  <2>1. e.n \in Sec..MaxTime
    BY DEF Sample
  <2>2. p.t \in Nat
    BY <2>1, Seconds, UnixGrows
  <2> QED
    BY <1>1, <1>2, <2>2, Buckets
<1>7. \A i \in 1..m : C[i].t \in Nat /\ BucketOf(C[i].t) \in Nat
  <2> SUFFICES ASSUME NEW i \in 1..m PROVE C[i].t \in Nat /\ BucketOf(C[i].t) \in Nat
    OBVIOUS
  <2>1. C[i].t \in Nat
    OBVIOUS
  <2> QED
    BY <2>1, Buckets
<1>8. \A i \in 1..Len(a) : BucketAt(a, i) \in Nat
  BY SampleTimes
<1>9. \A c : In(a, c) \subseteq 1..Len(a)
  BY DEF In
<1> HIDE DEF z
\* Every earlier sample is of an earlier bucket than the new one.
<1>10. ASSUME NEW i \in 1..Len(a) PROVE m > 0 /\ BucketAt(a, i) <= BucketOf(C[m].t) /\ BucketAt(a, i) < BucketOf(p.t)
  <2>1. m > 0 /\ BucketAt(a, i) <= BucketOf(C[m].t)
    <3>1. Len(a) > 0
      BY <1>1
    <3> QED
      BY <3>1 DEF NoLater
  <2>2. BucketOf(C[m].t) < BucketOf(p.t)
    BY <1>1, <2>1
  <2> HIDE DEF m
  <2>3. m \in 1..m
    BY <1>1, <2>1
  <2> QED
    BY <1>6, <1>7, <1>8, <2>1, <2>2, <2>3
<1>11. NoLater(z, D)
  <2>1. ASSUME NEW i \in 1..Len(z) PROVE BucketAt(z, i) <= BucketOf(p.t)
    <3>1. CASE i = Len(z)
      BY <1>2, <1>6, <3>1
    <3>2. CASE i \in 1..Len(a)
      BY <1>2, <1>6, <1>8, <1>10, <3>2
    <3> QED
      BY <1>2, <3>1, <3>2
  <2> QED
    BY <1>5, <2>1 DEF NoLater
<1>12. In(z, p) = {Len(z)}
  <2>1. In(a, p) = {}
    BY <1>6, <1>8, <1>10 DEF In
  <2> QED
    BY <1>3, <2>1
<1>13. FirstIs(z, D)
  <2> SUFFICES ASSUME NEW j \in 1..Len(D)
               PROVE  \E i \in In(z, D[j]) :
                          Unix(z[i].n) = D[j].t /\ z[i].v = D[j].v /\ \A k \in In(z, D[j]) : i <= k
    BY DEF FirstIs
  <2>1. CASE j < Len(D)
    <3>1. PICK x \in 1..m : D[j] = C[x]
      BY <1>5, <2>1
    <3> QED
      BY <1>4, <3>1 DEF FirstIs
  <2>2. CASE j = Len(D)
    <3>1. Len(z) \in In(z, p) /\ \A k \in In(z, p) : Len(z) <= k
      BY <1>6, <1>12
    <3>2. Unix(z[Len(z)].n) = p.t /\ z[Len(z)].v = p.v
      BY <1>2
    <3> QED
      BY <1>5, <2>2, <3>1, <3>2
  <2>3. j < Len(D) \/ j = Len(D)
    BY <1>5
  <2> QED
    BY <2>1, <2>2, <2>3
<1>14. OpenExact(z, l, D, {[t |-> p.t, v |-> e.v, worst |-> e.v]})
  <2> DEFINE ob == [t |-> p.t, v |-> e.v, worst |-> e.v]
  <2>1. ~Worse(e.v, e.v)
    <3>1. e.v \in Int /\ Dir \in {1, -1}
      BY SeriesAssumption DEF Sample
    <3> QED
      BY <3>1 DEF Worse
  <2>2. WorstIs(z, In(z, p), e.v)
    BY <1>2, <1>12, <2>1 DEF WorstIs
  <2>3. ob.worst = e.v /\ ob \in {ob}
    OBVIOUS
  <2> HIDE DEF ob
  <2>4. \E o2 \in {ob} : WorstIs(z, In(z, p), o2.worst)
    BY <2>2, <2>3
  <2> QED
    BY <1>5, <2>4 DEF OpenExact, ob
<1>15. MineWatched(z, l, D)
  <2> SUFFICES ASSUME NEW j \in 1..Len(D), j < Len(D) PROVE LaterOf(z, D[j], l)
    BY DEF MineWatched
  <2>1. BucketOf(D[j].t) < BucketOf(p.t)
    BY <1>5
  <2>2. z[Len(z)].life = l /\ BucketAt(z, Len(z)) > BucketOf(D[j].t)
    BY <1>2, <1>5, <1>6, <1>7, <2>1
  <2> QED
    BY <1>6, <2>2 DEF LaterOf
<1>16. PeaksClosed(Q, D)
  <2> SUFFICES ASSUME NEW x \in 1..Len(Q) PROVE Q[x].t < p.t
    BY <1>5 DEF PeaksClosed
  <2>1. ASSUME Len(C) > 0 PROVE C[m].t < p.t
    BY <1>1, <1>6, <1>7, <2>1, Buckets
  <2>2. CASE Len(C) > 0 /\ Q[x].t = C[Len(C)].t
    BY <2>1, <2>2
  <2>3. CASE \E y \in 1..Len(P) : Q[x] = P[y]
    <3>1. PICK y \in 1..Len(P) : Q[x] = P[y]
      BY <2>3
    <3>2. Len(C) > 0 /\ P[y].t < C[m].t /\ P[y].t \in Nat
      BY DEF PeaksClosed
    <3>3. C[m].t \in Nat
      BY <1>1, <1>7, <3>2
    <3> QED
      BY <1>6, <2>1, <3>1, <3>2, <3>3
  <2> QED
    BY <2>2, <2>3
<1>17. PeaksRight(z, l, D, Q)
  <2> SUFFICES ASSUME NEW j \in 1..Len(D), NEW k \in 1..l,
                      j < Len(D), AllOf(z, D[j], k), LaterOf(z, D[j], k)
               PROVE  \E w : WorstIs(z, In(z, D[j]), w) /\ PeakSays(Q, D[j], w)
    BY DEF PeaksRight
  <2> DEFINE x == d + j
  <2>1. x \in 1..m /\ D[j] = C[x]
    BY <1>5
  <2> HIDE DEF x, m
  <2>2. CASE x < m
    <3>1. AllOf(z, C[x], k) /\ LaterOf(z, C[x], k)
      BY <2>1
    <3>2. PICK w : WorstIs(z, In(z, C[x]), w) /\ PeakSays(P, C[x], w)
      BY <1>4, <2>1, <2>2, <3>1 DEF PeaksRight, m
    <3>3. C[x].t < C[m].t /\ m \in 1..m
      <4>1. m \in 1..m
        BY <1>1, <2>1
      <4>2. BucketOf(C[x].t) < BucketOf(C[m].t)
        BY <2>1, <2>2, <4>1 DEF Ordered, BucketOrder, m
      <4> QED
        BY <1>7, <2>1, <4>1, <4>2, Buckets
    <3>4. ASSUME NEW y \in 1..Len(Q), Q[y].t = C[x].t PROVE \E y2 \in 1..Len(P) : P[y2] = Q[y]
      <4>1. C[x].t \in Nat /\ C[m].t \in Nat
        BY <1>7, <2>1, <3>3
      <4>2. ~(Q[y].t = C[m].t)
        BY <3>3, <3>4, <4>1
      <4> QED
        BY <4>2 DEF m
    <3>5. ASSUME NEW y \in 1..Len(P), P[y].t = C[x].t PROVE \E y2 \in 1..Len(Q) : Q[y2] = P[y]
      <4>1. D[j].t = P[y].t
        BY <2>1, <3>5
      <4> QED
        BY <4>1
    <3>6. PeakSays(Q, C[x], w)
      <4>1. CASE Floor > 0 /\ Abs(w - C[x].v) >= Floor
        <5>1. PICK y \in 1..Len(P) : P[y].t = C[x].t /\ P[y].p = w
          BY <3>2, <4>1 DEF PeakSays
        <5>2. PICK y2 \in 1..Len(Q) : Q[y2] = P[y]
          BY <3>5, <5>1
        <5> QED
          BY <4>1, <5>1, <5>2 DEF PeakSays
      <4>2. CASE ~(Floor > 0 /\ Abs(w - C[x].v) >= Floor)
        <5>1. \A y \in 1..Len(P) : P[y].t # C[x].t
          BY <3>2, <4>2 DEF PeakSays
        <5>2. \A y \in 1..Len(Q) : Q[y].t # C[x].t
          BY <3>4, <5>1
        <5> QED
          BY <4>2, <5>2 DEF PeakSays
      <4> QED
        BY <4>1, <4>2
    <3> QED
      BY <2>1, <3>2, <3>6
  <2>3. CASE x = m
    <3>1. AllOf(z, C[m], k) /\ LaterOf(z, C[m], k) /\ D[j] = C[m] /\ m > 0 /\ m \in 1..m
      BY <1>1, <2>1, <2>3
    <3>2. Len(z) \notin In(z, C[m])
      <4>1. BucketOf(C[m].t) < BucketOf(p.t)
        BY <3>1 DEF m
      <4> QED
        BY <1>3, <1>6, <1>7, <3>1, <4>1
    <3>3. In(z, C[m]) = In(a, C[m])
      BY <1>3, <3>2
    <3>4. AllOf(a, C[m], k)
      BY <1>2, <1>9, <3>1, <3>3 DEF AllOf
    <3>5. k = l
      <4>1. PICK i \in 1..Len(z) : z[i].life = k /\ BucketAt(z, i) > BucketOf(C[m].t)
        BY <3>1 DEF LaterOf
      <4>2. CASE i \in 1..Len(a)
        BY <1>2, <1>7, <1>8, <1>10, <3>1, <4>1, <4>2
      <4>3. CASE i = Len(z)
        BY <1>2, <4>1, <4>3
      <4> QED
        BY <1>2, <4>2, <4>3
    <3>6. PICK ob \in O : WorstIs(a, In(a, C[m]), ob.worst)
      BY <3>1, <3>4, <3>5 DEF OpenExact, m
    <3>7. WorstIs(z, In(z, C[m]), ob.worst)
      BY <1>2, <1>9, <3>3, <3>6 DEF WorstIs
    <3>8. PeakSays(Q, C[m], ob.worst)
      BY <3>1 DEF m
    <3> QED
      BY <3>1, <3>7, <3>8
  <2> QED
    BY <1>1, <2>1, <2>2, <2>3
<1> QED
  BY <1>11, <1>13, <1>14, <1>15, <1>16, <1>17 DEF z

\* series.go, closeBucketLocked and appendPeak: the peaks after a bucket is closed.
LEMMA PeakFiled ==
    ASSUME NEW C \in Seq(CoarsePoint), Len(C) > 0, \A i \in 1..Len(C) : C[i].t \in 1..MaxTime,
           NEW P \in Seq(Peak), Ordered(P, PeakOrder), Len(P) <= MaxCoarse, PeaksClosed(P, C),
           \A x \in 1..Len(P) : HasBucket(C, P[x]),
           NEW ob \in [t : 1..MaxTime, v : Value, worst : Value], ob.t = C[Len(C)].t, ob.v = C[Len(C)].v,
           NEW D \in Seq(CoarsePoint), Len(D) <= MaxCoarse, Ordered(D, BucketOrder),
           \A i \in 1..Len(D) : D[i].t \in 1..MaxTime,
           \A k \in Peak : HasBucket(C, k) => HasBucket(D, k)
    PROVE  LET Q == AppendPeak(P, PeakOf(ob))
           IN  /\ \A x \in 1..Len(Q) : (\E y \in 1..Len(P) : Q[x] = P[y]) \/ Q[x].t = C[Len(C)].t
               /\ \A y \in 1..Len(P), j \in 1..Len(D) : D[j].t = P[y].t => \E x \in 1..Len(Q) : Q[x] = P[y]
               /\ PeakSays(Q, C[Len(C)], ob.worst)
<1> DEFINE c == C[Len(C)]
           k == [t |-> ob.t, p |-> ob.worst]
           Q == AppendPeak(P, PeakOf(ob))
           F == Floor > 0 /\ Abs(ob.worst - c.v) >= Floor
<1>1. /\ Len(C) \in 1..Len(C) /\ Len(P) \in Nat /\ MaxCoarse \in Nat \ {0}
      /\ k \in Peak /\ k.t = c.t /\ k.p = ob.worst /\ ob.v = c.v /\ ob.t = c.t
  <2>1. Len(C) \in 1..Len(C) /\ Len(P) \in Nat /\ MaxCoarse \in Nat \ {0}
    BY SeriesAssumption
  <2>2. k \in Peak /\ k.t = ob.t /\ k.p = ob.worst
    BY DEF Peak
  <2> QED
    BY <2>1, <2>2
<1>2. \A x \in 1..Len(P) : P[x] \in Peak /\ P[x].t < c.t /\ P[x].t \in Nat
  <2>1. \A x \in 1..Len(P) : P[x] \in Peak
    OBVIOUS
  <2> QED
    BY <2>1 DEF PeaksClosed, Peak
<1>3. c.t \in Nat
  BY <1>1
<1> HIDE DEF c
<1>4. CASE ~F
  <2>1. PeakOf(ob) = <<>>
    BY <1>1, <1>4 DEF PeakOf
  <2>2. Q = P
    BY <2>1 DEF AppendPeak
  <2>3. PeakSays(P, c, ob.worst)
    <3>1. \A x \in 1..Len(P) : P[x].t # c.t
      BY <1>2, <1>3
    <3> QED
      BY <1>4, <3>1 DEF PeakSays
  <2> HIDE DEF Q
  <2> QED
    BY <2>2, <2>3 DEF Q, c
<1>5. CASE F
  <2> DEFINE q == Append(P, k)
             e == IF Len(q) > MaxCoarse THEN Len(q) - MaxCoarse ELSE 0
             w == Newest(q, MaxCoarse)
  <2>1. PeakOf(ob) = <<k>>
    BY <1>1, <1>5 DEF PeakOf
  <2>2. Q = w
    <3>1. <<k>> # <<>> /\ <<k>>[1] = k /\ P \o <<k>> = q
      BY <1>1
    <3>2. \A i \in DOMAIN P : i = Len(P) => P[i].t < k.t
      BY <1>1, <1>2
    <3> HIDE DEF k, q
    <3> QED
      BY <2>1, <3>1, <3>2 DEF AppendPeak
  <2>3. /\ Len(q) = Len(P) + 1 /\ q[Len(q)] = k /\ q \in Seq(Peak)
        /\ \A i \in 1..Len(P) : q[i] = P[i]
    BY <1>1, AppendProperties
  <2>4. Ordered(q, PeakOrder)
    <3>1. \A i \in 1..Len(P) : <<P[i], k>> \in PeakOrder
      BY <1>1, <1>2 DEF PeakOrder
    <3> HIDE DEF k
    <3> QED
      BY <1>1, <3>1, OrderedAppend
  <2>5. HasBucket(C, k)
    <3>1. ob.worst # c.v
      <4>1. Abs(0) = 0 /\ Floor \in Nat
        BY SeriesAssumption DEF Abs
      <4>2. ob.worst \in Int /\ c.v \in Int
        BY <1>1, SeriesAssumption
      <4>3. ob.worst = c.v => ob.worst - c.v = 0
        BY <4>2
      <4> QED
        BY <1>5, <4>1, <4>3
    <3> QED
      BY <1>1, <3>1 DEF HasBucket, c
  <2> HIDE DEF k, q
  <2>6. \A i \in 1..Len(q) : i \in 1..Len(P) \/ i = Len(q)
    BY <1>1, <2>3
  <2>7. \A i \in 1..Len(q) : HasBucket(D, q[i])
    BY <1>1, <1>2, <2>3, <2>5, <2>6
  <2>8. w \in Seq(Peak) /\ Rest(w, q, e)
    BY <1>1, <2>3, NewestIs
  <2>9. e \in Nat /\ e < Len(q) /\ Len(q) \in Nat /\ Len(q) <= MaxCoarse + 1
    BY <1>1, <2>3
  <2> HIDE DEF e, w
  <2>10. Len(w) = Len(q) - e /\ \A i \in 1..Len(w) : w[i] = q[e + i]
    BY <2>8 DEF Rest
  <2>11. \A x \in 1..Len(w) : e + x \in 1..Len(q)
    BY <2>9, <2>10
  <2>12. Len(w) \in 1..Len(w) /\ e + Len(w) = Len(q)
    BY <2>9, <2>10
  <2>13. ASSUME NEW x \in 1..Len(w) PROVE (\E y \in 1..Len(P) : w[x] = P[y]) \/ w[x].t = c.t
    <3>1. w[x] = q[e + x] /\ e + x \in 1..Len(q)
      BY <2>10, <2>11
    <3> QED
      BY <1>1, <2>3, <2>6, <3>1
  <2>14. ASSUME NEW y \in 1..Len(P), NEW j \in 1..Len(D), D[j].t = P[y].t
         PROVE  \E x \in 1..Len(w) : w[x] = P[y]
    <3>1. y \in 1..Len(q) /\ q[y] = P[y]
      BY <1>1, <2>3
    <3>2. q[y].t = D[j].t
      BY <2>14, <3>1
    <3>3. \E x \in 1..Len(Newest(q, MaxCoarse)) : Newest(q, MaxCoarse)[x] = q[y]
      BY <2>3, <2>4, <2>7, <2>9, <3>1, <3>2, PeakStays
    <3> QED
      BY <3>1, <3>3 DEF w
  <2>15. PeakSays(w, c, ob.worst)
    <3>1. w[Len(w)] = k
      BY <2>3, <2>10, <2>12
    <3>2. w[Len(w)].t = c.t /\ w[Len(w)].p = ob.worst
      BY <1>1, <3>1
    <3> QED
      BY <1>5, <2>12, <3>2 DEF PeakSays
  <2> HIDE DEF Q
  <2> QED
    BY <2>2, <2>13, <2>14, <2>15 DEF Q, c
<1> QED
  BY <1>4, <1>5

\* What TInv says of the state, in the terms of this part.
LEMMA Fits ==
    ASSUME TInv
    PROVE  /\ coarse \in Seq(CoarsePoint) /\ Ordered(coarse, BucketOrder)
           /\ \A i \in 1..Len(coarse) : coarse[i].t \in 1..MaxTime
           /\ Len(coarse) \in Nat /\ (coarse = <<>> <=> Len(coarse) = 0)
           /\ Last(coarse) = coarse[Len(coarse)]
           /\ (Len(coarse) > 0 <=> Len(cbuf) > 0) /\ (Len(cbuf) > 0 => coarse[Len(coarse)] = cbuf[Len(cbuf)])
           /\ life \in Nat \ {0} /\ accepted \in Seq(Sample(life))
           /\ (raw = <<>> <=> Len(rbuf) = 0) /\ (Len(rbuf) > 0 => Last(raw) = rbuf[Len(rbuf)])
           /\ Len(rbuf) \in Nat /\ \A i \in 1..Len(rbuf) : rbuf[i].n \in Nat
           /\ peaks \in Seq(Peak) /\ Ordered(peaks, PeakOrder) /\ Len(peaks) <= MaxCoarse
           /\ \A x \in 1..Len(peaks) : peaks[x] \in Peak /\ peaks[x].t \in Nat
           /\ open \in SUBSET [t : 1..MaxTime, v : Value, worst : Value]
<1>1. RawRing!TypeOK /\ CoarseRing!TypeOK /\ peaks \in Seq(Peak) /\ Len(peaks) <= MaxCoarse
      /\ Ordered(peaks, PeakOrder)
  BY DEF TInv, Typed, InOrder
<1>2. /\ rbuf \in Seq(RawPoint) /\ cbuf \in Seq(CoarsePoint)
      /\ coarse \in Seq(CoarsePoint) /\ \E d \in Nat : Rest(coarse, cbuf, d)
      /\ raw \in Seq(RawPoint) /\ \E d \in Nat : Rest(raw, rbuf, d)
      /\ Len(rbuf) > 0 => Len(raw) > 0 /\ raw[Len(raw)] = rbuf[Len(rbuf)]
      /\ Len(cbuf) > 0 => Len(coarse) > 0 /\ coarse[Len(coarse)] = cbuf[Len(cbuf)]
  BY <1>1, Tiers
<1>3. /\ Len(rbuf) \in Nat /\ Len(cbuf) \in Nat /\ Len(coarse) \in Nat /\ Len(raw) \in Nat
      /\ (coarse = <<>> <=> Len(coarse) = 0) /\ (raw = <<>> <=> Len(raw) = 0)
  BY <1>2
<1>4. Ordered(coarse, BucketOrder) /\ \A i \in 1..Len(coarse) : coarse[i].t \in 1..MaxTime
  BY SeenInOrder
<1>5. Len(coarse) > 0 <=> Len(cbuf) > 0
  <2>1. PICK d \in Nat : d \in 0..Len(cbuf) /\ Len(coarse) = Len(cbuf) - d
    BY <1>2 DEF Rest
  <2> QED
    BY <1>2, <1>3, <2>1
<1>6. Len(raw) > 0 <=> Len(rbuf) > 0
  <2>1. PICK d \in Nat : d \in 0..Len(rbuf) /\ Len(raw) = Len(rbuf) - d
    BY <1>2 DEF Rest
  <2> QED
    BY <1>2, <1>3, <2>1
<1>7. Last(coarse) = coarse[Len(coarse)] /\ Last(raw) = raw[Len(raw)]
  BY DEF Last
<1>8. life \in Nat \ {0} /\ accepted \in Seq(Sample(life))
  BY DEF TInv, Lives, Sample
<1>9. \A i \in 1..Len(rbuf) : rbuf[i].n \in Nat
  BY Seconds DEF TInv, Typed
<1>10. \A x \in 1..Len(peaks) : peaks[x] \in Peak /\ peaks[x].t \in Nat
  <2>1. \A x \in 1..Len(peaks) : peaks[x] \in Peak
    BY <1>1
  <2> QED
    BY <2>1 DEF Peak
<1>11. open \in SUBSET [t : 1..MaxTime, v : Value, worst : Value]
  BY DEF TInv, Typed
<1>12. raw = <<>> <=> Len(rbuf) = 0
  BY <1>3, <1>6
<1>13. Len(rbuf) > 0 => Last(raw) = rbuf[Len(rbuf)]
  BY <1>2, <1>7
<1>14. Len(cbuf) > 0 => coarse[Len(coarse)] = cbuf[Len(cbuf)]
  BY <1>2
<1> QED
  BY <1>1, <1>2, <1>3, <1>4, <1>5, <1>7, <1>8, <1>9, <1>10, <1>11, <1>12, <1>13, <1>14, Zenon

-----------------------------------------------------------------------------
(* Every step keeps what the buckets say *)

\* Nothing is said of an empty series.
LEMMA EmptyExact ==
    ASSUME NEW a, NEW l, NEW b, NEW C, NEW P, NEW O, Len(a) = 0, Len(C) = 0, Len(P) = 0
    PROVE  /\ NoLater(a, C) /\ RawIsLast(a, l, b) /\ FirstIs(a, C) /\ PeaksClosed(P, C)
           /\ OpenExact(a, l, C, O) /\ MineWatched(a, l, C) /\ PeaksRight(a, l, C, P)
<1>1. \A i : ~(i \in 1..0)
  OBVIOUS
<1> QED
  BY <1>1 DEF NoLater, RawIsLast, FirstIs, PeaksClosed, OpenExact, MineWatched, PeaksRight

LEMMA StartsExact == HInit => BInv
<1> SUFFICES ASSUME HInit PROVE BInv
  OBVIOUS
<1>1. rbuf = <<>> /\ cbuf = <<>> /\ peaks = <<>> /\ accepted = <<>>
  BY DEF HInit, Init
<1>2. coarse = <<>>
  BY <1>1, SeriesAssumption DEF coarse, CoarseRing!Visible
<1>3. Len(coarse) = 0 /\ Len(accepted) = 0 /\ Len(peaks) = 0
  BY <1>1, <1>2
<1> QED
  BY <1>3, EmptyExact DEF BInv

LEMMA FollowExact ==
    ASSUME TInv, BInv, NEW n \in Sec..MaxTime, NEW v \in Value, ~Backwards(n), ~NewBucket(n),
           FollowBucket(v), life' = life, accepted' = Append(accepted, [n |-> n, v |-> v, life |-> life])
    PROVE  /\ NoLater(accepted', coarse') /\ FirstIs(accepted', coarse') /\ PeaksClosed(peaks', coarse')
           /\ OpenExact(accepted', life', coarse', open')
           /\ MineWatched(accepted', life', coarse') /\ PeaksRight(accepted', life', coarse', peaks')
<1> DEFINE e == [n |-> n, v |-> v, life |-> life]
           O2 == {[ob EXCEPT !.worst = IF Worse(v, ob.worst) THEN v ELSE ob.worst] : ob \in open}
<1>1. /\ coarse' = coarse /\ peaks' = peaks /\ open' = O2
  BY DEF FollowBucket, coarse, CoarseRing!Visible
<1>2. /\ coarse \in Seq(CoarsePoint) /\ \A i \in 1..Len(coarse) : coarse[i].t \in 1..MaxTime
      /\ life \in Nat \ {0} /\ accepted \in Seq(Sample(life))
      /\ open \in SUBSET [t : 1..MaxTime, v : Value, worst : Value]
      /\ Last(coarse) = coarse[Len(coarse)] /\ (coarse = <<>> <=> Len(coarse) = 0)
  BY Fits
<1>3. e \in Sample(life) /\ e.life = life /\ e.n = n /\ e.v = v
  BY <1>2 DEF Sample
<1>4. \A i \in 1..Len(accepted) : accepted[i].life = life => accepted[i].n <= n
  <2> SUFFICES ASSUME NEW i \in 1..Len(accepted), accepted[i].life = life PROVE accepted[i].n <= n
    OBVIOUS
  <2>1. Len(rbuf) > 0 /\ accepted[i].n <= rbuf[Len(rbuf)].n
    BY DEF BInv, RawIsLast
  <2>2. raw # <<>> /\ Last(raw) = rbuf[Len(rbuf)] /\ Len(rbuf) \in 1..Len(rbuf) /\ rbuf[Len(rbuf)].n \in Nat
    BY <2>1, Fits
  <2>3. ~(n < rbuf[Len(rbuf)].n)
    BY <2>2 DEF Backwards
  <2>4. n \in Nat /\ accepted[i].n \in Nat
    BY <1>2, Seconds, SampleTimes
  <2> QED
    BY <2>1, <2>2, <2>3, <2>4
<1>5. Len(coarse) > 0 /\ BucketOf(Unix(n)) <= BucketOf(coarse[Len(coarse)].t)
  <2>1. coarse # <<>> /\ ~(BucketOf(Unix(n)) > BucketOf(coarse[Len(coarse)].t))
    BY <1>2 DEF NewBucket
  <2>2. Len(coarse) \in 1..Len(coarse) /\ Len(coarse) > 0
    BY <1>2, <2>1
  <2>3. coarse[Len(coarse)].t \in Nat /\ n \in Nat
    <3>1. coarse[Len(coarse)].t \in 1..MaxTime
      BY <1>2, <2>2
    <3>2. n \in Nat
      BY Seconds
    <3> QED
      BY <3>1, <3>2
  <2>4. BucketOf(coarse[Len(coarse)].t) \in Nat /\ BucketOf(Unix(n)) \in Nat
    BY <2>3, UnixGrows, Buckets
  <2> QED
    BY <2>1, <2>2, <2>4
<1>6. accepted' = Append(accepted, e)
  OBVIOUS
<1> HIDE DEF e
<1>7. FirstIs(Append(accepted, e), coarse) /\ MineWatched(Append(accepted, e), life, coarse)
      /\ PeaksRight(Append(accepted, e), life, coarse, peaks)
  <2>1. FirstIs(accepted, coarse) /\ MineWatched(accepted, life, coarse) /\ PeaksRight(accepted, life, coarse, peaks)
    BY DEF BInv
  <2> QED
    BY <1>2, <1>3, <1>4, <2>1, SampleAdded
<1>8. NoLater(Append(accepted, e), coarse) /\ OpenExact(Append(accepted, e), life, coarse, O2)
  <2>1. NoLater(accepted, coarse) /\ FirstIs(accepted, coarse) /\ OpenExact(accepted, life, coarse, open)
    BY DEF BInv
  <2> DEFINE O3 == {[ob EXCEPT !.worst = IF Worse(e.v, ob.worst) THEN e.v ELSE ob.worst] : ob \in open}
  <2>2. NoLater(Append(accepted, e), coarse) /\ OpenExact(Append(accepted, e), life, coarse, O3)
    BY <1>2, <1>3, <1>4, <1>5, <2>1, SampleFollows
  <2>3. O3 = O2
    BY <1>3
  <2> QED
    BY <2>2, <2>3
<1>9. PeaksClosed(peaks, coarse)
  BY DEF BInv
<1> HIDE DEF O2
<1> QED
  BY <1>1, <1>6, <1>7, <1>8, <1>9

LEMMA OpenIsExact ==
    ASSUME TInv, BInv, NEW n \in Sec..MaxTime, NEW v \in Value, ~Backwards(n), NewBucket(n),
           OpenBucket(Unix(n), v), life' = life,
           accepted' = Append(accepted, [n |-> n, v |-> v, life |-> life])
    PROVE  /\ NoLater(accepted', coarse') /\ FirstIs(accepted', coarse') /\ PeaksClosed(peaks', coarse')
           /\ OpenExact(accepted', life', coarse', open')
           /\ MineWatched(accepted', life', coarse') /\ PeaksRight(accepted', life', coarse', peaks')
<1> DEFINE e == [n |-> n, v |-> v, life |-> life]
           p == [t |-> Unix(n), v |-> v]
           b == Append(coarse, p)
           d == IF Len(b) > MaxCoarse THEN Len(b) - MaxCoarse ELSE 0
           c == coarse[Len(coarse)]
<1>1. /\ coarse \in Seq(CoarsePoint) /\ \A i \in 1..Len(coarse) : coarse[i].t \in 1..MaxTime
      /\ Ordered(coarse, BucketOrder) /\ Len(coarse) \in Nat
      /\ life \in Nat \ {0} /\ accepted \in Seq(Sample(life))
      /\ open \in SUBSET [t : 1..MaxTime, v : Value, worst : Value]
      /\ Last(coarse) = coarse[Len(coarse)] /\ (coarse = <<>> <=> Len(coarse) = 0)
  BY Fits
<1>2. e \in Sample(life) /\ e.life = life /\ e.n = n /\ e.v = v
  BY <1>1 DEF Sample
<1>3. \A i \in 1..Len(accepted) : accepted[i].life = life => accepted[i].n <= n
  <2> SUFFICES ASSUME NEW i \in 1..Len(accepted), accepted[i].life = life PROVE accepted[i].n <= n
    OBVIOUS
  <2>1. Len(rbuf) > 0 /\ accepted[i].n <= rbuf[Len(rbuf)].n
    BY DEF BInv, RawIsLast
  <2>2. raw # <<>> /\ Last(raw) = rbuf[Len(rbuf)] /\ Len(rbuf) \in 1..Len(rbuf) /\ rbuf[Len(rbuf)].n \in Nat
    BY <2>1, Fits
  <2>3. ~(n < rbuf[Len(rbuf)].n)
    BY <2>2 DEF Backwards
  <2>4. n \in Nat /\ accepted[i].n \in Nat
    BY <1>1, Seconds, SampleTimes
  <2> QED
    BY <2>1, <2>2, <2>3, <2>4
<1>4. p \in CoarsePoint /\ p.t = Unix(n) /\ p.v = v /\ Unix(n) \in 1..MaxTime /\ Unix(n) \in Nat /\ n \in Nat
  <2>1. Unix(n) \in 1..MaxTime /\ n \in Nat
    BY Seconds
  <2>2. Unix(n) \in Nat
    BY <2>1, UnixGrows
  <2> QED
    BY <2>1, <2>2 DEF CoarsePoint
\* What is left of the buckets, and the new one.
<1>5. CoarseRing!Put(p)
  BY DEF OpenBucket
<1>6. coarse' = Newest(b, MaxCoarse) /\ CoarseRing!TypeOK
  <2>1. CoarseRing!TypeOK
    BY DEF TInv, Typed
  <2> HIDE DEF p
  <2> QED
    BY <1>4, <1>5, <2>1, CoarsePuts
<1>7. \A i \in 1..Len(coarse) : coarse[i].t \in Nat /\ BucketOf(coarse[i].t) \in Nat
  <2> SUFFICES ASSUME NEW i \in 1..Len(coarse) PROVE coarse[i].t \in Nat /\ BucketOf(coarse[i].t) \in Nat
    OBVIOUS
  <2>1. coarse[i].t \in Nat
    BY <1>1
  <2> QED
    BY <2>1, Buckets
<1>8. \A i \in 1..Len(coarse) : BucketOf(coarse[i].t) < BucketOf(Unix(n))
  <2> SUFFICES ASSUME NEW i \in 1..Len(coarse) PROVE BucketOf(coarse[i].t) < BucketOf(Unix(n))
    OBVIOUS
  <2>1. Len(coarse) \in 1..Len(coarse) /\ (i = Len(coarse) \/ i < Len(coarse))
    BY <1>1
  <2>2. BucketOf(Unix(n)) > BucketOf(c.t)
    BY <1>1, <2>1 DEF NewBucket
  <2>3. i < Len(coarse) => BucketOf(coarse[i].t) < BucketOf(c.t)
    BY <1>1, <2>1 DEF Ordered, BucketOrder
  <2>4. BucketOf(Unix(n)) \in Nat
    BY <1>4, Buckets
  <2> QED
    BY <1>7, <2>1, <2>2, <2>3, <2>4
<1>9. b \in Seq(CoarsePoint) /\ Len(b) = Len(coarse) + 1 /\ Ordered(b, BucketOrder)
      /\ \A i \in 1..Len(b) : b[i].t \in 1..MaxTime
  <2>1. \A i \in 1..Len(coarse) : <<coarse[i], p>> \in BucketOrder
    <3>1. \A i \in 1..Len(coarse) : coarse[i] \in CoarsePoint
      BY <1>1
    <3> QED
      BY <1>4, <1>8, <3>1 DEF BucketOrder
  <2> HIDE DEF p
  <2>2. b \in Seq(CoarsePoint) /\ Ordered(b, BucketOrder)
    BY <1>1, <1>4, <2>1, OrderedAppend
  <2>3. /\ Len(b) = Len(coarse) + 1 /\ b[Len(coarse) + 1] = p
        /\ \A i \in 1..Len(coarse) : b[i] = coarse[i]
    BY <1>1, <1>4, AppendProperties
  <2> HIDE DEF b
  <2>4. ASSUME NEW i \in 1..Len(b) PROVE b[i].t \in 1..MaxTime
    <3>1. i \in 1..Len(coarse) \/ i = Len(coarse) + 1
      BY <1>1, <2>3
    <3> QED
      BY <1>1, <1>4, <2>3, <3>1
  <2> QED
    BY <2>2, <2>3, <2>4
<1>10. MaxCoarse \in Nat \ {0} /\ d \in 0..Len(coarse)
  <2>1. MaxCoarse \in Nat \ {0}
    BY SeriesAssumption
  <2> HIDE DEF b
  <2> QED
    BY <1>1, <1>9, <2>1
<1>11. coarse' \in Seq(CoarsePoint) /\ Rest(coarse', b, d) /\ Len(coarse') <= MaxCoarse
  <2> HIDE DEF b
  <2> QED
    BY <1>6, <1>9, <1>10, NewestIs
<1> HIDE DEF d
<1>12. Ordered(coarse', BucketOrder) /\ \A i \in 1..Len(coarse') : coarse'[i].t \in 1..MaxTime
  <2> HIDE DEF b
  <2>1. Ordered(coarse', BucketOrder)
    BY <1>9, <1>11, OrderedRest
  <2>2. ASSUME NEW i \in 1..Len(coarse') PROVE coarse'[i].t \in 1..MaxTime
    <3>1. coarse'[i] = b[d + i] /\ Len(coarse') = Len(b) - d /\ d \in 0..Len(b)
      BY <1>11 DEF Rest
    <3>2. d + i \in 1..Len(b)
      BY <1>1, <1>9, <1>10, <3>1
    <3> QED
      BY <1>9, <3>1, <3>2
  <2> QED
    BY <2>1, <2>2
\* The peaks.
<1>13. /\ peaks \in Seq(Peak) /\ Ordered(peaks, PeakOrder) /\ Len(peaks) <= MaxCoarse
       /\ \A x \in 1..Len(peaks) : peaks[x] \in Peak /\ peaks[x].t \in Nat
       /\ PeaksClosed(peaks, coarse) /\ \A x \in 1..Len(peaks) : HasBucket(coarse, peaks[x])
  BY Fits DEF BInv, TInv, Paired
<1>14. \A k \in Peak : HasBucket(coarse, k) => HasBucket(coarse', k)
  <2>1. coarse = <<>> \/ BucketOf(Unix(n)) > BucketOf(Last(coarse).t)
    BY DEF NewBucket
  <2> QED
    BY <1>4, <1>5, <2>1, AddCoarse
<1>15. /\ \A x \in 1..Len(peaks') : \/ \E y \in 1..Len(peaks) : peaks'[x] = peaks[y]
                                    \/ Len(coarse) > 0 /\ peaks'[x].t = c.t
       /\ \A y \in 1..Len(peaks), j \in 1..Len(coarse') :
              coarse'[j].t = peaks[y].t => \E x \in 1..Len(peaks') : peaks'[x] = peaks[y]
       /\ \A ob \in open : Len(coarse) > 0 => PeakSays(peaks', c, ob.worst)
  <2>1. CASE open = {}
    <3>1. peaks' = peaks
      BY <2>1 DEF OpenBucket, AppendPeak
    <3> QED
      BY <2>1, <3>1
  <2>2. ASSUME NEW ob \in [t : 1..MaxTime, v : Value, worst : Value], open = {ob}
        PROVE  /\ \A x \in 1..Len(peaks') : \/ \E y \in 1..Len(peaks) : peaks'[x] = peaks[y]
                                            \/ Len(coarse) > 0 /\ peaks'[x].t = c.t
               /\ \A y \in 1..Len(peaks), j \in 1..Len(coarse') :
                      coarse'[j].t = peaks[y].t => \E x \in 1..Len(peaks') : peaks'[x] = peaks[y]
               /\ \A o2 \in open : Len(coarse) > 0 => PeakSays(peaks', c, o2.worst)
    <3>1. (CHOOSE x \in open : TRUE) = ob /\ open # {}
      BY <2>2
    <3>2. peaks' = AppendPeak(peaks, PeakOf(ob))
      BY <3>1 DEF OpenBucket
    <3>3. Len(coarse) > 0 /\ ob.t = c.t /\ ob.v = c.v
      <4>1. Len(cbuf) > 0 /\ ob.t = cbuf[Len(cbuf)].t /\ ob.v = cbuf[Len(cbuf)].v
        BY <2>2 DEF TInv, Ends
      <4> QED
        BY <4>1, Fits
    <3> DEFINE D == coarse'
               Q == AppendPeak(peaks, PeakOf(ob))
    <3>4. /\ D \in Seq(CoarsePoint) /\ Len(D) <= MaxCoarse /\ Ordered(D, BucketOrder)
          /\ \A i \in 1..Len(D) : D[i].t \in 1..MaxTime
          /\ \A k \in Peak : HasBucket(coarse, k) => HasBucket(D, k)
      BY <1>11, <1>12, <1>14
    <3> HIDE DEF D
    <3>5. /\ \A x \in 1..Len(Q) : (\E y \in 1..Len(peaks) : Q[x] = peaks[y]) \/ Q[x].t = coarse[Len(coarse)].t
          /\ \A y \in 1..Len(peaks), j \in 1..Len(D) : D[j].t = peaks[y].t => \E x \in 1..Len(Q) : Q[x] = peaks[y]
          /\ PeakSays(Q, coarse[Len(coarse)], ob.worst)
      BY <1>1, <1>13, <3>3, <3>4, PeakFiled
    <3> HIDE DEF Q
    <3>6. peaks' = Q
      BY <3>2 DEF Q
    <3> QED
      BY <2>2, <3>3, <3>5, <3>6 DEF D
  <2> QED
    BY <2>1, <2>2 DEF TInv, Typed
<1>16. accepted' = Append(accepted, e) /\ open' = {[t |-> p.t, v |-> v, worst |-> v]}
  BY <1>4 DEF OpenBucket
<1> DEFINE D == coarse'
           Q == peaks'
<1>17. /\ NoLater(accepted, coarse) /\ FirstIs(accepted, coarse) /\ OpenExact(accepted, life, coarse, open)
       /\ MineWatched(accepted, life, coarse) /\ PeaksRight(accepted, life, coarse, peaks)
  BY DEF BInv
<1>18. /\ Rest(D, Append(coarse, p), d)
       /\ \A x \in 1..Len(Q) : \/ \E y \in 1..Len(peaks) : Q[x] = peaks[y]
                               \/ Len(coarse) > 0 /\ Q[x].t = coarse[Len(coarse)].t
       /\ \A y \in 1..Len(peaks), j \in 1..Len(D) : D[j].t = peaks[y].t => \E x \in 1..Len(Q) : Q[x] = peaks[y]
       /\ \A ob \in open : Len(coarse) > 0 => PeakSays(Q, coarse[Len(coarse)], ob.worst)
  BY <1>11, <1>15
<1> HIDE DEF D, Q, e, p, c, b
<1>19. p.t = Unix(e.n) /\ p.v = e.v /\ \A i \in 1..Len(coarse) : BucketOf(coarse[i].t) < BucketOf(p.t)
  BY <1>2, <1>4, <1>8
<1>20. \A i \in 1..Len(accepted) : accepted[i].life = life => accepted[i].n <= e.n
  BY <1>2, <1>3
<1>21. (\A x \in 1..Len(peaks) : peaks[x].t \in Nat) /\ PeaksClosed(peaks, coarse)
  BY <1>13
<1>23. /\ life \in Nat \ {0} /\ accepted \in Seq(Sample(life)) /\ e \in Sample(life) /\ e.life = life
       /\ coarse \in Seq(CoarsePoint) /\ Ordered(coarse, BucketOrder)
       /\ \A i \in 1..Len(coarse) : coarse[i].t \in 1..MaxTime
       /\ p \in CoarsePoint /\ d \in 0..Len(coarse)
  BY <1>1, <1>2, <1>4, <1>10
<1>22. Opening(life, accepted, e, coarse, p, D, d, peaks, Q, open)
  BY <1>17, <1>18, <1>19, <1>20, <1>21, <1>23 DEF Opening
<1>24. LET z == Append(accepted, e)
       IN  /\ NoLater(z, D) /\ FirstIs(z, D) /\ PeaksClosed(Q, D)
           /\ OpenExact(z, life, D, {[t |-> p.t, v |-> e.v, worst |-> e.v]})
           /\ MineWatched(z, life, D) /\ PeaksRight(z, life, D, Q)
  BY <1>22, BucketOpens
<1> QED
  BY <1>2, <1>16, <1>24 DEF D, Q

LEMMA AddExact ==
    ASSUME TInv, BInv, NEW n, NEW v \in Value, Add(n, v), life' = life,
           accepted' = IF Backwards(n) THEN accepted ELSE Append(accepted, [n |-> n, v |-> v, life |-> life])
    PROVE  BInv'
<1>1. n \in Sec..MaxTime
  BY DEF Add
<1>2. CASE Backwards(n) /\ accepted' = accepted /\ UNCHANGED <<rbuf, rcap, cbuf, ccap, peaks, open, pend>>
  <2>1. coarse' = coarse
    BY <1>2 DEF coarse, CoarseRing!Visible
  <2> QED
    BY <1>2, <2>1 DEF BInv
<1>3. CASE ~Backwards(n) /\ RawRing!Put([n |-> n, v |-> v])
           /\ IF NewBucket(n) THEN OpenBucket(Unix(n), v) ELSE FollowBucket(v)
  <2> DEFINE e == [n |-> n, v |-> v, life |-> life]
  <2>1. accepted' = Append(accepted, e)
    BY <1>3
  <2>2. /\ NoLater(accepted', coarse') /\ FirstIs(accepted', coarse') /\ PeaksClosed(peaks', coarse')
        /\ OpenExact(accepted', life', coarse', open')
        /\ MineWatched(accepted', life', coarse') /\ PeaksRight(accepted', life', coarse', peaks')
    BY <1>1, <1>3, <2>1, FollowExact, OpenIsExact
  <2>3. Len(rbuf') > 0 /\ rbuf'[Len(rbuf')].n = n
    BY <1>1, <1>3, AddRaw
  <2>4. ASSUME NEW i \in 1..Len(accepted'), accepted'[i].life = life' PROVE accepted'[i].n <= n
    <3> HIDE DEF e
    <3>1. life \in Nat \ {0} /\ accepted \in Seq(Sample(life)) /\ e \in Sample(life) /\ e.n = n
      BY <1>1, Fits DEF e, Sample
    <3>2. /\ accepted'[Len(accepted')] = e
          /\ \A k \in 1..Len(accepted) : accepted'[k] = accepted[k]
          /\ \A k \in 1..Len(accepted') : k \in 1..Len(accepted) \/ k = Len(accepted')
      BY <2>1, <3>1, InAppend
    <3>3. n \in Nat
      BY <1>1, Seconds
    <3>4. CASE i \in 1..Len(accepted)
      <4>1. Len(rbuf) > 0 /\ accepted[i].n <= rbuf[Len(rbuf)].n
        BY <2>4, <3>2, <3>4 DEF BInv, RawIsLast
      <4>2. raw # <<>> /\ Last(raw) = rbuf[Len(rbuf)] /\ Len(rbuf) \in 1..Len(rbuf) /\ rbuf[Len(rbuf)].n \in Nat
        BY <4>1, Fits
      <4>3. ~(n < rbuf[Len(rbuf)].n)
        BY <1>3, <4>2 DEF Backwards
      <4>4. accepted[i].n \in Nat
        BY <3>1, <3>4, SampleTimes
      <4> QED
        BY <3>2, <3>3, <3>4, <4>1, <4>2, <4>3, <4>4
    <3>5. CASE i = Len(accepted')
      BY <3>1, <3>2, <3>3, <3>5
    <3> QED
      BY <3>2, <3>4, <3>5
  <2>5. RawIsLast(accepted', life', rbuf')
    BY <2>3, <2>4 DEF RawIsLast
  <2> QED
    BY <2>2, <2>5 DEF BInv
<1> QED
  BY <1>2, <1>3 DEF Add

\* Cutting early buckets, and the peaks of as early ones.
LEMMA CutExact ==
    ASSUME NEW l, NEW a, NEW C \in Seq(CoarsePoint), NEW D, NEW d, Rest(D, C, d), Len(D) > 0,
           NEW P \in Seq(Peak), NEW Q, NEW m, Rest(Q, P, m), NEW cut,
           \A j \in 1..Len(D) : ~(D[j].t < cut), \A y \in 1..Len(P) : P[y].t < cut <=> y <= m,
           NEW O, NoLater(a, C), FirstIs(a, C), PeaksClosed(P, C), OpenExact(a, l, C, O),
           MineWatched(a, l, C), PeaksRight(a, l, C, P)
    PROVE  /\ NoLater(a, D) /\ FirstIs(a, D) /\ PeaksClosed(Q, D) /\ OpenExact(a, l, D, O)
           /\ MineWatched(a, l, D) /\ PeaksRight(a, l, D, Q)
<1>1. /\ Len(C) \in Nat /\ d \in 0..Len(C) /\ Len(D) = Len(C) - d
      /\ \A j \in 1..Len(D) : D[j] = C[d + j]
      /\ Len(P) \in Nat /\ m \in 0..Len(P) /\ Len(Q) = Len(P) - m
      /\ \A x \in 1..Len(Q) : Q[x] = P[m + x]
  BY DEF Rest
<1>2. /\ Len(C) > 0 /\ D[Len(D)] = C[Len(C)]
      /\ \A j \in 1..Len(D) : d + j \in 1..Len(C) /\ (j < Len(D) => d + j < Len(C))
      /\ \A x \in 1..Len(Q) : m + x \in 1..Len(P)
  <2>1. Len(D) \in 1..Len(D) /\ d + Len(D) = Len(C) /\ Len(C) > 0
    BY <1>1
  <2>2. \A j \in 1..Len(D) : d + j \in 1..Len(C) /\ (j < Len(D) => d + j < Len(C))
    BY <1>1
  <2>3. \A x \in 1..Len(Q) : m + x \in 1..Len(P)
    BY <1>1
  <2> QED
    BY <1>1, <2>1, <2>2, <2>3
<1>3. NoLater(a, D)
  BY <1>2 DEF NoLater
<1>4. FirstIs(a, D)
  <2> SUFFICES ASSUME NEW j \in 1..Len(D)
               PROVE  \E i \in In(a, D[j]) :
                          Unix(a[i].n) = D[j].t /\ a[i].v = D[j].v /\ \A k \in In(a, D[j]) : i <= k
    BY DEF FirstIs
  <2>1. PICK x \in 1..Len(C) : D[j] = C[x]
    BY <1>1, <1>2
  <2> QED
    BY <2>1 DEF FirstIs
<1>5. PeaksClosed(Q, D)
  BY <1>1, <1>2 DEF PeaksClosed
<1>6. OpenExact(a, l, D, O)
  BY <1>2 DEF OpenExact
<1>7. MineWatched(a, l, D)
  BY <1>1, <1>2 DEF MineWatched
<1>8. PeaksRight(a, l, D, Q)
  <2> SUFFICES ASSUME NEW j \in 1..Len(D), NEW k \in 1..l,
                      j < Len(D), AllOf(a, D[j], k), LaterOf(a, D[j], k)
               PROVE  \E w : WorstIs(a, In(a, D[j]), w) /\ PeakSays(Q, D[j], w)
    BY DEF PeaksRight
  <2> DEFINE c == D[j]
  <2>1. PICK x \in 1..Len(C) : c = C[x] /\ x < Len(C)
    BY <1>1, <1>2
  <2> HIDE DEF c
  <2>2. PICK w : WorstIs(a, In(a, c), w) /\ PeakSays(P, c, w)
    BY <2>1 DEF PeaksRight, c
  <2>3. ASSUME NEW y \in 1..Len(P), P[y].t = c.t PROVE \E x2 \in 1..Len(Q) : Q[x2] = P[y]
    <3>1. ~(P[y].t < cut)
      BY <2>3 DEF c
    <3>2. y - m \in 1..Len(Q) /\ m + (y - m) = y
      BY <1>1, <3>1
    <3> QED
      BY <1>1, <3>2
  <2>4. ASSUME NEW x2 \in 1..Len(Q) PROVE \E y \in 1..Len(P) : Q[x2] = P[y]
    BY <1>1, <1>2
  <2>5. PeakSays(Q, c, w)
    <3>1. CASE Floor > 0 /\ Abs(w - c.v) >= Floor
      <4>1. PICK y \in 1..Len(P) : P[y].t = c.t /\ P[y].p = w
        BY <2>2, <3>1 DEF PeakSays
      <4>2. PICK x2 \in 1..Len(Q) : Q[x2] = P[y]
        BY <2>3, <4>1
      <4> QED
        BY <3>1, <4>1, <4>2 DEF PeakSays
    <3>2. CASE ~(Floor > 0 /\ Abs(w - c.v) >= Floor)
      <4>1. \A y \in 1..Len(P) : P[y].t # c.t
        BY <2>2, <3>2 DEF PeakSays
      <4>2. \A x2 \in 1..Len(Q) : Q[x2].t # c.t
        BY <2>4, <4>1
      <4> QED
        BY <3>2, <4>2 DEF PeakSays
    <3> QED
      BY <3>1, <3>2
  <2> QED
    BY <2>2, <2>5 DEF c
<1> QED
  BY <1>3, <1>4, <1>5, <1>6, <1>7, <1>8

LEMMA PruneExact ==
    ASSUME TInv, BInv, NEW before, Prune(before), life' = life,
           accepted' = IF coarse' = <<>> THEN <<>> ELSE accepted
    PROVE  BInv'
<1>1. CASE Drop
  <2>1. cbuf' = <<>> /\ peaks' = <<>>
    BY <1>1 DEF Drop
  <2>2. coarse' = <<>>
    BY <2>1, SeriesAssumption DEF coarse, CoarseRing!Visible
  <2> DEFINE C == coarse'
             P == peaks'
             a == accepted'
  <2>3. Len(C) = 0 /\ Len(P) = 0 /\ Len(a) = 0
    BY <2>1, <2>2
  <2> HIDE DEF C, P, a
  <2>4. \A l, b, O : /\ NoLater(a, C) /\ RawIsLast(a, l, b) /\ FirstIs(a, C) /\ PeaksClosed(P, C)
                     /\ OpenExact(a, l, C, O) /\ MineWatched(a, l, C) /\ PeaksRight(a, l, C, P)
    BY <2>3, EmptyExact
  <2> QED
    BY <2>4 DEF BInv, C, P, a
<1>2. CASE ~(LastTime < before)
  <2> DEFINE cut == (LastTime - Retention * Sec) \div Sec
             D == coarse'
             Q == peaks'
  <2>1. /\ cut \in Int /\ Q = From(peaks, cut) /\ rbuf' = rbuf /\ open' = open
        /\ Len(D) > 0 /\ (\E d \in Nat : Rest(D, coarse, d)) /\ \A j \in 1..Len(D) : ~(D[j].t < cut)
    BY <1>2, PruneCuts
  <2>2. accepted' = accepted
    BY <2>1
  <2> HIDE DEF cut, D, Q
  <2>3. coarse \in Seq(CoarsePoint) /\ peaks \in Seq(Peak) /\ Ordered(peaks, PeakOrder)
    BY Fits
  <2>4. PICK d \in Nat : Rest(D, coarse, d)
    BY <2>1
  <2>5. PICK m \in 0..Len(peaks) : /\ Rest(Q, peaks, m)
                                   /\ \A y \in 1..Len(peaks) : peaks[y].t < cut <=> y <= m
    <3>1. /\ \A i \in 1..Len(peaks) : peaks[i].t \in Int
          /\ \A i, j \in 1..Len(peaks) : i < j => peaks[i].t <= peaks[j].t
      BY <2>3, PeaksRise
    <3> QED
      BY <2>1, <2>3, <3>1, FromCuts
  <2>6. /\ NoLater(accepted, coarse) /\ FirstIs(accepted, coarse) /\ PeaksClosed(peaks, coarse)
        /\ OpenExact(accepted, life, coarse, open)
        /\ MineWatched(accepted, life, coarse) /\ PeaksRight(accepted, life, coarse, peaks)
    BY DEF BInv
  <2>7. /\ NoLater(accepted, D) /\ FirstIs(accepted, D) /\ PeaksClosed(Q, D)
        /\ OpenExact(accepted, life, D, open)
        /\ MineWatched(accepted, life, D) /\ PeaksRight(accepted, life, D, Q)
    BY <2>1, <2>3, <2>4, <2>5, <2>6, CutExact
  <2>8. RawIsLast(accepted', life', rbuf')
    BY <2>1, <2>2 DEF BInv
  <2> QED
    BY <2>1, <2>2, <2>7, <2>8 DEF BInv, D, Q
<1> QED
  BY <1>1, <1>2 DEF Prune

\* A new life has no samples yet.
LEMMA RestartExact ==
    ASSUME TInv, BInv, Restart, life' = life + 1, accepted' = accepted
    PROVE  BInv'
<1> DEFINE l == life + 1
           a == accepted
           C == coarse
           P == peaks
<1>1. coarse' = C /\ peaks' = P /\ accepted' = a /\ life' = l
  BY DEF Restart, coarse, CoarseRing!Visible
<1>2. life \in Nat \ {0} /\ a \in Seq(Sample(life)) /\ l = life + 1
  BY Fits
<1>3. /\ NoLater(a, C) /\ FirstIs(a, C) /\ PeaksClosed(P, C) /\ PeaksRight(a, life, C, P)
  BY DEF BInv
<1>4. ASSUME NEW b, NEW O
      PROVE  RawIsLast(a, l, b) /\ OpenExact(a, l, C, O) /\ MineWatched(a, l, C) /\ PeaksRight(a, l, C, P)
  <2> HIDE DEF l, a, C, P
  <2>1. \A i \in 1..Len(a) : a[i].life # l
    <3> SUFFICES ASSUME NEW i \in 1..Len(a) PROVE a[i].life # l
      OBVIOUS
    <3>1. a[i].life \in 1..life
      BY <1>2, SampleTimes
    <3> QED
      BY <1>2, <3>1
  <2>2. \A j \in 1..Len(C) : ~AllOf(a, C[j], l)
    <3> SUFFICES ASSUME NEW j \in 1..Len(C) PROVE ~AllOf(a, C[j], l)
      OBVIOUS
    <3>1. PICK i \in In(a, C[j]) : TRUE
      BY <1>3 DEF FirstIs
    <3>2. i \in 1..Len(a)
      BY DEF In
    <3> QED
      BY <2>1, <3>1, <3>2 DEF AllOf
  <2>3. RawIsLast(a, l, b)
    BY <2>1 DEF RawIsLast
  <2>4. OpenExact(a, l, C, O)
    <3>1. C \in Seq(CoarsePoint)
      BY Fits DEF C
    <3>2. Len(C) > 0 => Len(C) \in 1..Len(C)
      BY <3>1
    <3> QED
      BY <2>2, <3>2 DEF OpenExact
  <2>5. MineWatched(a, l, C)
    BY <2>2 DEF MineWatched
  <2>6. PeaksRight(a, l, C, P)
    <3>1. \A k \in 1..l : k \in 1..life \/ k = l
      BY <1>2
    <3> QED
      BY <1>3, <2>2, <3>1 DEF PeaksRight
  <2> QED
    BY <2>3, <2>4, <2>5, <2>6
<1> HIDE DEF l, a, C, P
<1> QED
  BY <1>1, <1>3, <1>4 DEF BInv

LEMMA BucketsStayExact == TInv /\ BInv /\ [HNext]_hvars => BInv'
<1> SUFFICES ASSUME TInv, BInv, [HNext]_hvars PROVE BInv'
  OBVIOUS
<1>1. ASSUME NEW d \in Gap, NEW v \in Value,
             /\ pend = <<>> /\ Add(clock + d, v) /\ life' = life
             /\ accepted' = IF Backwards(clock + d) THEN accepted
                            ELSE Append(accepted, [n |-> clock + d, v |-> v, life |-> life])
      PROVE  BInv'
  BY <1>1, AddExact
<1>2. CASE Restart /\ life' = life + 1 /\ accepted' = accepted
  BY <1>2, RestartExact
<1>3. ASSUME NEW before, Prune(before), life' = life, accepted' = IF coarse' = <<>> THEN <<>> ELSE accepted
      PROVE  BInv'
  BY <1>3, PruneExact
<1>4. CASE (TakePeaks \/ UNCHANGED vars) /\ UNCHANGED <<accepted, life>>
  <2>1. UNCHANGED <<rbuf, cbuf, peaks, open, accepted, life>>
    BY <1>4 DEF TakePeaks, vars
  <2>2. coarse' = coarse
    BY <2>1 DEF coarse, CoarseRing!Visible
  <2> QED
    BY <2>1, <2>2 DEF BInv
<1> QED
  BY <1>1, <1>2, <1>3, <1>4 DEF HNext, hvars

LEMMA ExactImplied == TInv /\ BInv => BucketsExact
<1> SUFFICES ASSUME TInv, BInv PROVE BucketsExact
  OBVIOUS
<1> DEFINE a == accepted
           C == coarse
           P == peaks
<1>1. /\ C \in Seq(CoarsePoint) /\ Len(C) \in Nat /\ Last(C) = C[Len(C)]
      /\ \A i \in 1..Len(C) : C[i].t \in 1..MaxTime
      /\ life \in Nat \ {0} /\ a \in Seq(Sample(life)) /\ P \in Seq(Peak)
  BY Fits
<1>2. FirstIs(a, C) /\ PeaksRight(a, life, C, P)
  BY DEF BInv
<1>3. /\ DOMAIN a = 1..Len(a) /\ DOMAIN C = 1..Len(C) /\ DOMAIN P = 1..Len(P)
      /\ ToSet(C) = {C[j] : j \in 1..Len(C)} /\ ToSet(P) = {P[x] : x \in 1..Len(P)}
  BY <1>1 DEF ToSet
<1>4. \A c : InBucket(c) = In(a, c)
  BY <1>3 DEF InBucket, In, BucketAt
<1>5. CoarseIsFirst
  BY <1>2, <1>3, <1>4 DEF CoarseIsFirst, FirstIs
<1>6. ASSUME NEW I \in SUBSET (1..Len(a)), NEW w, WorstIs(a, I, w) PROVE WorstIn(I) = w
  <2>1. \A i \in 1..Len(a) : a[i].v \in Int
    BY <1>1, SampleTimes
  <2> HIDE DEF a
  <2>2. w \in {a[i].v : i \in I} /\ \A i \in I : ~Worse(a[i].v, w)
    BY <1>6 DEF WorstIs
  <2>3. ASSUME NEW u \in {a[i].v : i \in I}, \A i \in I : ~Worse(a[i].v, u) PROVE u = w
    <3>1. ~Worse(u, w) /\ ~Worse(w, u) /\ u \in Int /\ w \in Int
      BY <2>1, <2>2, <2>3
    <3> QED
      BY <3>1, SeriesAssumption DEF Worse
  <2>4. (CHOOSE u \in {a[i].v : i \in I} : \A i \in I : ~Worse(a[i].v, u)) = w
    BY <2>2, <2>3
  <2> QED
    BY <2>4 DEF WorstIn, a
<1>7. ASSUME NEW c \in Closed, WatchedWhole(c) PROVE PeakRight(c)
  <2>1. PICK j \in 1..Len(C) : c = C[j] /\ c.t < C[Len(C)].t
    BY <1>1, <1>3 DEF Closed
  <2>2. j < Len(C)
    <3>1. C[j].t < C[Len(C)].t /\ C[j].t \in Nat
      BY <1>1, <2>1
    <3>2. j # Len(C)
      BY <3>1
    <3> HIDE DEF C
    <3> QED
      BY <1>1, <3>2
  <2>3. PICK k \in 1..life : AllOf(a, c, k) /\ LaterOf(a, c, k)
    BY <1>3, <1>4, <1>7 DEF WatchedWhole, AllOf, LaterOf, BucketAt
  <2>4. PICK w : WorstIs(a, In(a, c), w) /\ PeakSays(P, c, w)
    BY <1>2, <2>1, <2>2, <2>3 DEF PeaksRight
  <2>5. WorstIn(InBucket(c)) = w
    <3>1. In(a, c) \in SUBSET (1..Len(a))
      BY DEF In
    <3> QED
      BY <1>4, <1>6, <2>4, <3>1
  <2> QED
    BY <1>3, <2>4, <2>5 DEF PeakRight, PeakSays
<1> QED
  BY <1>5, <1>7 DEF BucketsExact, PeaksExact

\* series.go, Add and closeBucketLocked: for any values, floor, step, sizes and slacks of
\* the buffers, and whatever the wall clock, Prune and restarts do, a coarse point is the
\* first sample of its bucket, and a bucket that one life opened, filled and closed has a
\* peak exactly when its worst sample is far enough from the first one.
THEOREM BucketsAreExact == HSpec => []BucketsExact
<1> QED
  BY StartsAgreeing, TiersStayAgreeing, StartsExact, BucketsStayExact, ExactImplied, PTL DEF HSpec

-----------------------------------------------------------------------------
(* What the three tiers together say of the worst *)

\* Every sample is of this life.
Own(a, l) == \A i \in 1..Len(a) : a[i].life = l
\* The samples of this life were accepted in the order of their times.
InTime(a, l) ==
    \A i, j \in 1..Len(a) : i <= j /\ a[i].life = l /\ a[j].life = l => a[i].n <= a[j].n
\* In the first life no bucket is left out behind the oldest one.
Covers(a, C) ==
    \A i \in 1..Len(a) : Len(C) > 0 /\ BucketAt(a, i) >= BucketOf(C[1].t) =>
        \E j \in 1..Len(C) : BucketOf(C[j].t) = BucketAt(a, i)
WInv == InTime(accepted, life) /\ (Own(accepted, life) => Covers(accepted, coarse))

\* Cutting early buckets leaves none out behind.
LEMMA CutCovers ==
    ASSUME NEW l, NEW a \in Seq(Sample(l)), NEW C \in Seq(CoarsePoint), Ordered(C, BucketOrder),
           \A j \in 1..Len(C) : C[j].t \in Nat,
           NEW D, NEW d, Rest(D, C, d), Covers(a, C)
    PROVE  Covers(a, D)
<1> SUFFICES ASSUME NEW i \in 1..Len(a), Len(D) > 0, BucketAt(a, i) >= BucketOf(D[1].t)
             PROVE  \E j \in 1..Len(D) : BucketOf(D[j].t) = BucketAt(a, i)
  BY DEF Covers
<1> DEFINE B(j) == BucketOf(C[j].t)
<1>1. /\ Len(C) \in Nat /\ d \in 0..Len(C) /\ Len(D) = Len(C) - d
      /\ \A j \in 1..Len(D) : D[j] = C[d + j]
  BY DEF Rest
<1>2. D[1] = C[d + 1] /\ 1 \in 1..Len(C) /\ d + 1 \in 1..Len(C)
  BY <1>1
<1>3. \A j \in 1..Len(C) : B(j) \in Nat
  BY Buckets
<1>4. \A j, k \in 1..Len(C) : j < k => B(j) < B(k)
  BY DEF Ordered, BucketOrder
<1>5. BucketAt(a, i) \in Nat
  BY SampleTimes
<1>6. BucketAt(a, i) >= B(d + 1)
  BY <1>2
<1> HIDE DEF B
<1>7. B(1) <= B(d + 1)
  BY <1>1, <1>2, <1>3, <1>4
<1>8. BucketAt(a, i) >= B(1)
  BY <1>2, <1>3, <1>5, <1>6, <1>7
<1>9. PICK j \in 1..Len(C) : B(j) = BucketAt(a, i)
  BY <1>2, <1>8 DEF Covers, B
<1>10. ~(j < d + 1)
  BY <1>2, <1>3, <1>4, <1>5, <1>6, <1>9
<1>11. j - d \in 1..Len(D) /\ d + (j - d) = j
  BY <1>1, <1>10
<1>12. D[j - d] = C[j]
  BY <1>1, <1>11
<1> QED
  BY <1>9, <1>11, <1>12 DEF B

\* A sample that is not from before the others of its life comes behind them.
LEMMA AddInTime ==
    ASSUME NEW l \in Nat \ {0}, NEW a \in Seq(Sample(l)), NEW e \in Sample(l), e.life = l, InTime(a, l),
           \A i \in 1..Len(a) : a[i].life = l => a[i].n <= e.n
    PROVE  InTime(Append(a, e), l)
<1> DEFINE z == Append(a, e)
<1>1. /\ Len(a) \in Nat /\ Len(z) = Len(a) + 1 /\ z[Len(z)] = e
      /\ \A i \in 1..Len(a) : z[i] = a[i]
      /\ \A i \in 1..Len(z) : i \in 1..Len(a) \/ i = Len(z)
  BY InAppend
<1> HIDE DEF z
<1>2. e.n \in Nat
  BY Seconds DEF Sample
<1> SUFFICES ASSUME NEW i \in 1..Len(z), NEW j \in 1..Len(z), i <= j, z[i].life = l, z[j].life = l
             PROVE  z[i].n <= z[j].n
  BY DEF InTime, z
<1>3. CASE j \in 1..Len(a)
  <2>1. i \in 1..Len(a)
    BY <1>1, <1>3
  <2> QED
    BY <1>1, <1>3, <2>1 DEF InTime
<1>4. CASE j = Len(z)
  BY <1>1, <1>2, <1>4
<1> QED
  BY <1>1, <1>3, <1>4

LEMMA AddCovers ==
    ASSUME TInv, BInv, WInv, NEW n, NEW v \in Value, Add(n, v), life' = life,
           accepted' = IF Backwards(n) THEN accepted ELSE Append(accepted, [n |-> n, v |-> v, life |-> life])
    PROVE  WInv'
<1>1. n \in Sec..MaxTime /\ n \in Nat
  BY Seconds DEF Add
<1>2. CASE Backwards(n) /\ accepted' = accepted /\ UNCHANGED <<cbuf, ccap>>
  <2>1. coarse' = coarse
    BY <1>2 DEF coarse, CoarseRing!Visible
  <2> QED
    BY <1>2, <2>1 DEF WInv
<1>3. CASE ~Backwards(n) /\ RawRing!Put([n |-> n, v |-> v])
           /\ IF NewBucket(n) THEN OpenBucket(Unix(n), v) ELSE FollowBucket(v)
  <2> DEFINE e == [n |-> n, v |-> v, life |-> life]
             a == accepted
             z == Append(a, e)
             C == coarse
  <2>1. accepted' = z
    BY <1>3
  <2>2. /\ life \in Nat \ {0} /\ a \in Seq(Sample(life)) /\ e \in Sample(life) /\ e.n = n /\ e.life = life
        /\ C \in Seq(CoarsePoint) /\ Ordered(C, BucketOrder) /\ Len(C) \in Nat /\ Last(C) = C[Len(C)]
        /\ (C = <<>> <=> Len(C) = 0) /\ \A i \in 1..Len(C) : C[i].t \in 1..MaxTime /\ C[i].t \in Nat
    BY <1>1, Fits DEF e, Sample
  <2>3. \A i \in 1..Len(a) : a[i].life = life => a[i].n <= n
    <3> SUFFICES ASSUME NEW i \in 1..Len(a), a[i].life = life PROVE a[i].n <= n
      OBVIOUS
    <3>1. Len(rbuf) > 0 /\ a[i].n <= rbuf[Len(rbuf)].n
      BY DEF BInv, RawIsLast
    <3>2. raw # <<>> /\ Last(raw) = rbuf[Len(rbuf)] /\ Len(rbuf) \in 1..Len(rbuf) /\ rbuf[Len(rbuf)].n \in Nat
      BY <3>1, Fits
    <3>3. ~(n < rbuf[Len(rbuf)].n) /\ a[i].n \in Nat
      BY <1>3, <2>2, <3>2, SampleTimes DEF Backwards
    <3> QED
      BY <1>1, <3>1, <3>2, <3>3
  <2>4. NoLater(a, C) /\ FirstIs(a, C) /\ InTime(a, life) /\ (Own(a, life) => Covers(a, C))
    BY DEF BInv, WInv
  <2>5. NewBucket(n) <=> (C = <<>> \/ BucketOf(Unix(n)) > BucketOf(C[Len(C)].t))
    BY <2>2 DEF NewBucket
  <2> HIDE DEF e, a, C
  <2>6. InTime(z, life)
    BY <2>2, <2>3, <2>4, AddInTime
  <2>7. /\ Len(a) \in Nat /\ Len(z) = Len(a) + 1 /\ z[Len(z)] = e
        /\ BucketAt(z, Len(z)) = BucketOf(Unix(n))
        /\ \A i \in 1..Len(a) : i \in 1..Len(z) /\ z[i] = a[i] /\ BucketAt(z, i) = BucketAt(a, i)
        /\ \A i \in 1..Len(z) : i \in 1..Len(a) \/ i = Len(z)
        /\ z \in Seq(Sample(life))
    BY <2>2, InAppend
  <2>8. Unix(n) \in Nat /\ Unix(n) \in 1..MaxTime /\ BucketOf(Unix(n)) \in Nat
    <3>1. Unix(n) \in Nat /\ Unix(n) \in 1..MaxTime
      BY <1>1, Seconds, UnixGrows
    <3> QED
      BY <3>1, Buckets
  <2> HIDE DEF z
  <2>9. ASSUME Own(z, life) PROVE Own(a, life) /\ Covers(a, C)
    BY <2>4, <2>7, <2>9 DEF Own
  <2>10. CASE ~NewBucket(n) /\ coarse' = C
    <3>1. ASSUME Own(z, life) PROVE Covers(z, C)
      <4> SUFFICES ASSUME NEW i \in 1..Len(z), Len(C) > 0, BucketAt(z, i) >= BucketOf(C[1].t)
                   PROVE  \E j \in 1..Len(C) : BucketOf(C[j].t) = BucketAt(z, i)
        BY DEF Covers
      <4>1. CASE i \in 1..Len(a)
        BY <2>7, <2>9, <3>1, <4>1 DEF Covers
      <4>2. CASE i = Len(z)
        <5>1. Len(C) \in 1..Len(C) /\ BucketOf(Unix(n)) <= BucketOf(C[Len(C)].t)
          <6>1. Len(C) \in 1..Len(C) /\ ~(BucketOf(Unix(n)) > BucketOf(C[Len(C)].t))
            BY <2>2, <2>5, <2>10
          <6>2. BucketOf(C[Len(C)].t) \in Nat
            BY <2>2, <6>1, Buckets
          <6> QED
            BY <2>8, <6>1, <6>2
        <5>2. PICK k \in In(a, C[Len(C)]) : TRUE
          BY <2>4, <5>1 DEF FirstIs
        <5>3. k \in 1..Len(a) /\ BucketAt(a, k) = BucketOf(C[Len(C)].t)
          BY <5>2 DEF In
        <5>4. a[k].n <= n /\ a[k].n \in Nat
          BY <2>2, <2>3, <2>9, <3>1, <5>3, SampleTimes DEF Own
        <5>5. Unix(a[k].n) <= Unix(n) /\ Unix(a[k].n) \in Nat
          BY <1>1, <5>4, UnixGrows
        <5>6. BucketAt(a, k) <= BucketOf(Unix(n)) /\ BucketAt(a, k) \in Nat
          BY <2>8, <5>5, Buckets DEF BucketAt
        <5>7. BucketOf(C[Len(C)].t) = BucketAt(z, i)
          BY <2>7, <2>8, <4>2, <5>1, <5>3, <5>6
        <5> QED
          BY <5>1, <5>7
      <4> QED
        BY <2>7, <4>1, <4>2
    <3> QED
      BY <2>1, <2>6, <2>10, <3>1 DEF WInv
  <2>11. CASE NewBucket(n) /\ CoarseRing!Put([t |-> Unix(n), v |-> v])
    <3> DEFINE p == [t |-> Unix(n), v |-> v]
               b == Append(C, p)
               d == IF Len(b) > MaxCoarse THEN Len(b) - MaxCoarse ELSE 0
    <3>1. p \in CoarsePoint /\ p.t = Unix(n)
      BY <2>8, SeriesAssumption DEF CoarsePoint
    <3> HIDE DEF p
    <3>2. b \in Seq(CoarsePoint) /\ Len(b) = Len(C) + 1 /\ b[Len(C) + 1] = p
          /\ \A i \in 1..Len(C) : b[i] = C[i]
      BY <2>2, <3>1, AppendProperties
    <3>3. coarse' = Newest(b, MaxCoarse)
      <4>1. CoarseRing!TypeOK
        BY DEF TInv, Typed
      <4> QED
        BY <2>11, <3>1, <4>1, CoarsePuts DEF p, C
    <3>4. Ordered(b, BucketOrder)
      <4>1. ASSUME NEW i \in 1..Len(C) PROVE <<C[i], p>> \in BucketOrder
        <5>1. Len(C) \in 1..Len(C) /\ BucketOf(Unix(n)) > BucketOf(C[Len(C)].t)
          BY <2>2, <2>5, <2>11
        <5>2. i = Len(C) \/ BucketOf(C[i].t) < BucketOf(C[Len(C)].t)
          <6>1. i < Len(C) => <<C[i], C[Len(C)]>> \in BucketOrder
            BY <2>2, <5>1 DEF Ordered
          <6>2. i < Len(C) \/ i = Len(C)
            BY <2>2
          <6> QED
            BY <6>1, <6>2 DEF BucketOrder
        <5>3. BucketOf(C[i].t) \in Nat /\ BucketOf(C[Len(C)].t) \in Nat
          BY <2>2, <5>1, Buckets
        <5>4. BucketOf(C[i].t) < BucketOf(p.t)
          BY <2>8, <3>1, <5>1, <5>2, <5>3
        <5> QED
          BY <2>2, <3>1, <5>4 DEF BucketOrder
      <4> QED
        BY <2>2, <3>1, <4>1, OrderedAppend
    <3>5. \A j \in 1..Len(b) : b[j].t \in Nat
      <4>1. \A j \in 1..Len(b) : j \in 1..Len(C) \/ j = Len(C) + 1
        BY <2>2, <3>2
      <4> QED
        BY <2>2, <2>8, <3>1, <3>2, <4>1
    <3>6. Rest(coarse', b, d)
      <4>1. MaxCoarse \in Nat
        BY SeriesAssumption
      <4> HIDE DEF b
      <4> QED
        BY <3>2, <3>3, <4>1, NewestIs
    <3> HIDE DEF b, d
    <3>7. ASSUME Own(z, life) PROVE Covers(z, b)
      <4> SUFFICES ASSUME NEW i \in 1..Len(z), BucketAt(z, i) >= BucketOf(b[1].t)
                   PROVE  \E j \in 1..Len(b) : BucketOf(b[j].t) = BucketAt(z, i)
        BY DEF Covers
      <4>1. CASE i \in 1..Len(a)
        <5>1. Len(C) > 0 /\ 1 \in 1..Len(C) /\ b[1] = C[1]
          BY <2>2, <2>4, <2>7, <3>2, <4>1 DEF NoLater
        <5>2. PICK j \in 1..Len(C) : BucketOf(C[j].t) = BucketAt(z, i)
          BY <2>7, <2>9, <3>7, <4>1, <5>1 DEF Covers
        <5>3. j \in 1..Len(b) /\ b[j] = C[j]
          BY <2>2, <3>2
        <5> QED
          BY <5>2, <5>3
      <4>2. CASE i = Len(z)
        <5>1. Len(C) + 1 \in 1..Len(b)
          BY <2>2, <3>2
        <5> QED
          BY <2>7, <3>1, <3>2, <4>2, <5>1
      <4> QED
        BY <2>7, <4>1, <4>2
    <3>8. ASSUME Own(z, life) PROVE Covers(z, coarse')
      BY <2>7, <3>2, <3>4, <3>5, <3>6, <3>7, <3>8, CutCovers
    <3> QED
      BY <2>1, <2>6, <3>8 DEF WInv
  <2>12. coarse' = C \/ NewBucket(n)
    BY <1>3 DEF FollowBucket, coarse, CoarseRing!Visible, C
  <2>13. NewBucket(n) => CoarseRing!Put([t |-> Unix(n), v |-> v])
    BY <1>3 DEF OpenBucket
  <2> QED
    BY <2>10, <2>11, <2>12, <2>13
<1> QED
  BY <1>2, <1>3 DEF Add

LEMMA StaysCovered == TInv /\ BInv /\ WInv /\ [HNext]_hvars => WInv'
<1> SUFFICES ASSUME TInv, BInv, WInv, [HNext]_hvars PROVE WInv'
  OBVIOUS
<1>0. /\ life \in Nat \ {0} /\ accepted \in Seq(Sample(life)) /\ coarse \in Seq(CoarsePoint)
      /\ Ordered(coarse, BucketOrder) /\ \A i \in 1..Len(coarse) : coarse[i].t \in 1..MaxTime
  BY Fits
<1>1. ASSUME NEW d \in Gap, NEW v \in Value,
             /\ pend = <<>> /\ Add(clock + d, v) /\ life' = life
             /\ accepted' = IF Backwards(clock + d) THEN accepted
                            ELSE Append(accepted, [n |-> clock + d, v |-> v, life |-> life])
      PROVE  WInv'
  BY <1>1, AddCovers
<1>2. CASE Restart /\ life' = life + 1 /\ accepted' = accepted
  <2> DEFINE l == life + 1
  <2>1. \A i \in 1..Len(accepted) : accepted[i].life # l
    <3>1. ASSUME NEW i \in 1..Len(accepted) PROVE accepted[i].life # life + 1
      <4>1. accepted[i].life \in 1..life
        BY <1>0, SampleTimes
      <4> QED
        BY <1>0, <4>1
    <3> QED
      BY <3>1
  <2> HIDE DEF l
  <2>2. InTime(accepted, l)
    BY <2>1 DEF InTime
  <2>3. Own(accepted, l) => \A C : Covers(accepted, C)
    BY <2>1 DEF Own, Covers
  <2> QED
    BY <1>2, <2>2, <2>3 DEF WInv, l
<1>3. ASSUME NEW before, Prune(before), life' = life, accepted' = IF coarse' = <<>> THEN <<>> ELSE accepted
      PROVE  WInv'
  <2>1. CASE Drop
    <3>1. coarse' = <<>>
      BY <2>1, SeriesAssumption DEF Drop, coarse, CoarseRing!Visible
    <3>2. accepted' = <<>>
      BY <1>3, <3>1
    <3>3. \A i : ~(i \in 1..Len(<<>>))
      OBVIOUS
    <3>4. \A l : InTime(<<>>, l)
      BY <3>3 DEF InTime
    <3>5. \A C : Covers(<<>>, C)
      BY <3>3 DEF Covers
    <3> QED
      BY <3>2, <3>4, <3>5 DEF WInv
  <2>2. CASE ~(LastTime < before)
    <3>1. Len(coarse') > 0 /\ \E d \in Nat : Rest(coarse', coarse, d)
      BY <1>3, <2>2, PruneCuts
    <3>2. accepted' = accepted
      BY <1>3, <3>1
    <3>3. \A i \in 1..Len(coarse) : coarse[i].t \in Nat
      BY <1>0
    <3> DEFINE D == coarse'
    <3>4. PICK d \in Nat : Rest(D, coarse, d)
      BY <3>1
    <3> HIDE DEF D
    <3>5. Covers(accepted, coarse) => Covers(accepted, D)
      BY <1>0, <3>3, <3>4, CutCovers
    <3> QED
      BY <1>3, <3>2, <3>5 DEF WInv, D
  <2> QED
    BY <1>3, <2>1, <2>2 DEF Prune
<1>4. CASE (TakePeaks \/ UNCHANGED vars) /\ UNCHANGED <<accepted, life>>
  <2>1. UNCHANGED <<cbuf, accepted, life>>
    BY <1>4 DEF TakePeaks, vars
  <2>2. coarse' = coarse
    BY <2>1 DEF coarse, CoarseRing!Visible
  <2> QED
    BY <2>1, <2>2 DEF WInv
<1> QED
  BY <1>1, <1>2, <1>3, <1>4 DEF HNext, hvars

\* Every set of natural numbers that is not empty has a least element.
LEMMA LeastNat ==
    ASSUME NEW S \in SUBSET Nat, S # {}
    PROVE  \E n \in S : \A k \in S : n <= k
<1>1. PICK x \in S : \A y \in S : <<y, x>> \notin OpToRel(<, Nat)
  BY NatLessThanWellFounded, WFMin, Zenon
<1>2. \A y \in S : ~ (y < x)
  BY <1>1 DEF OpToRel
<1>3. ASSUME NEW k \in S PROVE x <= k
  <2>1. x \in Nat /\ k \in Nat /\ ~ (k < x)
    BY <1>2
  <2> QED
    BY <2>1
<1> QED
  BY <1>3

LEMMA WorseIs == \A x, y \in Int : Worse(x, y) <=> IF Dir = 1 THEN x > y ELSE x < y
<1> SUFFICES ASSUME NEW x \in Int, NEW y \in Int
             PROVE  Worse(x, y) <=> IF Dir = 1 THEN x > y ELSE x < y
  OBVIOUS
<1>1. CASE Dir = 1
  BY <1>1 DEF Worse
<1>2. CASE Dir = -1
  BY <1>2 DEF Worse
<1> QED
  BY <1>1, <1>2, SeriesAssumption

\* Of finitely many values one is the worst.
LEMMA WorstExists ==
    ASSUME NEW S \in SUBSET Int, IsFiniteSet(S), S # {}
    PROVE  \E w \in S : \A u \in S : ~Worse(u, w)
<1> DEFINE Above(x) == {u \in S : Worse(u, x)}
           N == {Cardinality(Above(x)) : x \in S}
<1>1. \A x : IsFiniteSet(Above(x)) /\ Cardinality(Above(x)) \in Nat
  <2> SUFFICES ASSUME NEW x PROVE IsFiniteSet(Above(x)) /\ Cardinality(Above(x)) \in Nat
    OBVIOUS
  <2>1. Above(x) \subseteq S
    OBVIOUS
  <2> HIDE DEF Above
  <2> QED
    BY <2>1, FS_Subset, FS_CardinalityType
<1>2. \A x, u \in S : Worse(u, x) => Above(u) \subseteq Above(x) /\ u \in Above(x) /\ u \notin Above(u)
  <2> SUFFICES ASSUME NEW x \in S, NEW u \in S, Worse(u, x)
               PROVE  Above(u) \subseteq Above(x) /\ u \in Above(x) /\ u \notin Above(u)
    OBVIOUS
  <2>1. ~Worse(u, u) /\ \A y \in S : Worse(y, u) => Worse(y, x)
    BY WorseIs
  <2> QED
    BY <2>1
<1> HIDE DEF Above
<1>3. N \in SUBSET Nat /\ N # {}
  BY <1>1
<1>4. PICK n \in N : \A k \in N : n <= k
  BY <1>3, LeastNat
<1>5. PICK w \in S : n = Cardinality(Above(w))
  OBVIOUS
<1>6. ASSUME NEW u \in S, Worse(u, w) PROVE FALSE
  <2>1. Above(u) \subseteq Above(w) /\ Above(u) # Above(w)
    BY <1>2, <1>6
  <2>2. Cardinality(Above(u)) < Cardinality(Above(w))
    <3>1. Cardinality(Above(u)) <= Cardinality(Above(w)) /\ Cardinality(Above(u)) # Cardinality(Above(w))
      BY <1>1, <2>1, FS_Subset
    <3> QED
      BY <1>1, <3>1
  <2>3. n <= Cardinality(Above(u))
    BY <1>4
  <2> QED
    BY <1>1, <1>5, <2>2, <2>3
<1> QED
  BY <1>6

\* The worst of some samples is a value of theirs, and there is only one.
LEMMA WorstInIs ==
    ASSUME NEW l, accepted \in Seq(Sample(l)), NEW I \in SUBSET (1..Len(accepted)), NEW w,
           WorstIs(accepted, I, w)
    PROVE  WorstIn(I) = w
<1> DEFINE a == accepted
<1>1. \A i \in 1..Len(a) : a[i].v \in Int
  BY SampleTimes
<1> HIDE DEF a
<1>2. w \in {a[i].v : i \in I} /\ \A i \in I : ~Worse(a[i].v, w)
  BY DEF WorstIs, a
<1>3. ASSUME NEW u \in {a[i].v : i \in I}, \A i \in I : ~Worse(a[i].v, u) PROVE u = w
  <2>1. ~Worse(u, w) /\ ~Worse(w, u) /\ u \in Int /\ w \in Int
    BY <1>1, <1>2, <1>3 DEF a
  <2> QED
    BY <2>1, SeriesAssumption DEF Worse
<1>4. (CHOOSE u \in {a[i].v : i \in I} : \A i \in I : ~Worse(a[i].v, u)) = w
  BY <1>2, <1>3
<1> QED
  BY <1>4 DEF WorstIn, a

\* In the first life the raw tier is the end of all samples.
LEMMA RawIsRest ==
    ASSUME TInv, Own(accepted, life)
    PROVE  \E k \in 0..Len(accepted) :
               /\ Len(raw) = Len(accepted) - k /\ (k = 0 \/ Len(raw) = MaxRaw)
               /\ \A i \in 1..Len(raw) : raw[i].n = accepted[k + i].n /\ raw[i].v = accepted[k + i].v
<1> DEFINE a == accepted
           k == IF Len(a) > MaxRaw THEN Len(a) - MaxRaw ELSE 0
<1>1. /\ life \in Nat \ {0} /\ a \in Seq(Sample(life)) /\ Len(a) \in Nat /\ MaxRaw \in Nat \ {0}
  BY Fits, SeriesAssumption
<1>2. \A i \in 1..Len(a) : a[i].life < life <=> i <= 0
  <2> SUFFICES ASSUME NEW i \in 1..Len(a) PROVE a[i].life < life <=> i <= 0
    OBVIOUS
  <2>1. a[i].life = life /\ i > 0
    BY DEF Own
  <2> QED
    BY <1>1, <2>1
<1>3. Mine = SubSeq(a, 1, Len(a))
  <2>1. 0 \in 0..Len(a)
    BY <1>1
  <2>2. Mine = SubSeq(a, 0 + 1, Len(a))
    BY <1>1, <1>2, <2>1, MineIs DEF Mine
  <2> QED
    BY <2>2
<1>4. Rest(Mine, a, 0) /\ Mine \in Seq(Sample(life))
  <2>1. 0 \in 0..Len(a) /\ 0 + 1 = 1
    BY <1>1
  <2> QED
    BY <1>1, <1>3, <2>1, RestOf
<1> DEFINE q == Points(Mine)
<1>5. q \in Seq(RawPoint) /\ Len(q) = Len(a) /\ \A i \in 1..Len(a) : q[i] = [n |-> a[i].n, v |-> a[i].v]
  <2>1. Len(Mine) = Len(a) /\ \A i \in 1..Len(a) : Mine[i] = a[i]
    BY <1>1, <1>4 DEF Rest
  <2>2. \A i \in 1..Len(a) : [n |-> a[i].n, v |-> a[i].v] \in RawPoint
    <3> SUFFICES ASSUME NEW i \in 1..Len(a) PROVE [n |-> a[i].n, v |-> a[i].v] \in RawPoint
      OBVIOUS
    <3>1. a[i] \in Sample(life) /\ a[i].n \in Nat
      BY <1>1, SampleTimes
    <3> QED
      BY <3>1 DEF Sample, RawPoint
  <2>3. q = [i \in 1..Len(a) |-> [n |-> a[i].n, v |-> a[i].v]]
    BY <2>1 DEF Points
  <2> QED
    BY <1>1, <2>2, <2>3
<1>6. raw = Newest(q, MaxRaw)
  BY DEF TInv, RawShowsNewest, Points
<1> HIDE DEF q
<1>7. Rest(raw, q, k) /\ Len(raw) <= MaxRaw
  BY <1>1, <1>5, <1>6, NewestIs
<1>8. k \in 0..Len(a) /\ Len(raw) = Len(a) - k /\ \A i \in 1..Len(raw) : raw[i] = q[k + i]
  BY <1>5, <1>7 DEF Rest
<1>9. k = 0 \/ Len(raw) = MaxRaw
  BY <1>1, <1>8
<1>10. \A i \in 1..Len(raw) : raw[i].n = a[k + i].n /\ raw[i].v = a[k + i].v
  <2> SUFFICES ASSUME NEW i \in 1..Len(raw) PROVE raw[i].n = a[k + i].n /\ raw[i].v = a[k + i].v
    OBVIOUS
  <2> HIDE DEF k
  <2>1. k + i \in 1..Len(a)
    BY <1>1, <1>8
  <2>2. q[k + i] = [n |-> a[k + i].n, v |-> a[k + i].v]
    BY <1>5, <2>1
  <2>3. raw[i] = q[k + i]
    BY <1>8
  <2> QED
    BY <2>2, <2>3
<1> HIDE DEF k
<1> QED
  BY <1>8, <1>9, <1>10

\* Whole seconds, and what is before a point of the raw tier.
LEMMA SecondsSplit ==
    ASSUME NEW t \in Nat, NEW n \in Nat
    PROVE  /\ UnixCeil(t * Sec) = t /\ t * Sec \in Nat
           /\ t <= Unix(n) => t * Sec <= n
           /\ t * Sec <= n => t <= Unix(n)
<1>1. UnixCeil(t * Sec) = t /\ t * Sec \in Nat
  BY SeriesAssumption DEF UnixCeil
<1>2. (t <= Unix(n) => t * Sec <= n) /\ (t * Sec <= n => t <= Unix(n))
  <2> DEFINE u == Unix(n)
  <2>1. u \in Nat /\ u * Sec <= n /\ n < u * Sec + Sec /\ Sec \in Nat \ {0}
    BY SeriesAssumption DEF Unix
  <2> HIDE DEF u
  <2>2. t <= u => t * Sec <= u * Sec
    BY <2>1
  <2>3. u + 1 <= t => (u + 1) * Sec <= t * Sec
    BY <2>1
  <2>4. (u + 1) * Sec = u * Sec + Sec /\ u * Sec \in Nat
    BY <2>1
  <2>5. t <= u => t * Sec <= n
    BY <1>1, <2>1, <2>2, <2>4
  <2>6. t * Sec <= n => ~(u + 1 <= t)
    BY <1>1, <2>1, <2>3, <2>4
  <2> QED
    BY <2>1, <2>5, <2>6 DEF u
<1> QED
  BY <1>1, <1>2

\* series.go, Worst: the values that it looks at.
LEMMA WorstChooses ==
    ASSUME TInv, Len(raw) > 0, NEW t \in Nat, NEW y
    PROVE  y \in WorstOf(t * Sec, MaxTime) <=>
               \/ \E i \in 1..Len(raw) : raw[i].v = y /\ t * Sec <= raw[i].n
               \/ \E j \in 1..Len(coarse) : coarse[j].v = y /\ t <= coarse[j].t /\ coarse[j].t < Unix(raw[1].n)
               \/ \E x \in 1..Len(peaks) : peaks[x].p = y /\ t <= peaks[x].t /\ peaks[x].t < Unix(raw[1].n)
<1>1. /\ raw \in Seq(RawPoint) /\ Len(raw) \in Nat /\ raw # <<>>
      /\ \A i \in 1..Len(raw) : raw[i].n \in Sec..MaxTime
  <2>1. /\ RawRing!TypeOK /\ CoarseRing!TypeOK /\ \A i \in 1..Len(rbuf) : rbuf[i].n \in Sec..MaxTime
    BY DEF TInv, Typed
  <2>2. raw \in Seq(RawPoint) /\ rbuf \in Seq(RawPoint) /\ \E d \in Nat : Rest(raw, rbuf, d)
    BY <2>1, Tiers
  <2>3. PICK d \in Nat : Rest(raw, rbuf, d)
    BY <2>2
  <2>4. ASSUME NEW i \in 1..Len(raw) PROVE raw[i].n \in Sec..MaxTime
    <3>1. Len(rbuf) \in Nat /\ d \in 0..Len(rbuf) /\ Len(raw) = Len(rbuf) - d /\ raw[i] = rbuf[d + i]
      <4>1. /\ d \in 0..Len(rbuf) /\ Len(raw) = Len(rbuf) - d
            /\ \A m \in 1..Len(raw) : raw[m] = rbuf[d + m]
        BY <2>3 DEF Rest
      <4>2. Len(rbuf) \in Nat
        BY <2>2
      <4> QED
        BY <4>1, <4>2
    <3>2. d + i \in 1..Len(rbuf)
      BY <3>1
    <3> QED
      BY <2>1, <3>1, <3>2
  <2> QED
    BY <2>2, <2>4
<1> DEFINE u == Unix(raw[1].n)
           from == t * Sec
<1>2. raw[1].n \in Nat /\ raw[1].n \in Sec..MaxTime /\ u \in Nat /\ u <= Unix(MaxTime) /\ Unix(MaxTime) \in Int
  <2>1. raw[1].n \in Sec..MaxTime /\ raw[1].n \in Nat
    <3>1. 1 \in 1..Len(raw)
      BY <1>1
    <3> QED
      BY <1>1, <3>1, Seconds
  <2>2. MaxTime \in Nat /\ raw[1].n <= MaxTime
    BY <2>1, SeriesAssumption
  <2> QED
    BY <2>1, <2>2, UnixGrows
<1>3. UnixCeil(from) = t /\ from \in Nat /\ (from <= raw[1].n <=> t <= u)
  BY <1>2, SecondsSplit
<1>4. /\ ToSet(raw) = {raw[i] : i \in 1..Len(raw)}
      /\ ToSet(coarse) = {coarse[j] : j \in 1..Len(coarse)} /\ ToSet(peaks) = {peaks[x] : x \in 1..Len(peaks)}
  BY <1>1, Fits DEF ToSet
<1>5. /\ \A j \in 1..Len(coarse) : coarse[j].t \in Int
      /\ \A x \in 1..Len(peaks) : peaks[x].t \in Int
  BY Fits
<1>6. (IF raw = <<>> THEN Unix(MaxTime)
       ELSE IF Unix(raw[1].n) - 1 > Unix(MaxTime) THEN Unix(MaxTime) ELSE Unix(raw[1].n) - 1) = u - 1
  BY <1>1, <1>2
<1>7. \A s \in Int : t <= s /\ s <= u - 1 <=> t <= s /\ s < u
  BY <1>2
<1>8. \A s \in Int : t <= s /\ s < u => from < raw[1].n
  <2> SUFFICES ASSUME NEW s \in Int, t <= s, s < u PROVE from < raw[1].n
    OBVIOUS
  <2>1. s \in Nat /\ s + 1 \in Nat /\ t + 1 <= u /\ t + 1 \in Nat
    BY <1>2
  <2>2. (t + 1) * Sec <= raw[1].n
    BY <1>2, <2>1, SecondsSplit
  <2>3. (t + 1) * Sec = from + Sec /\ Sec \in Nat \ {0}
    BY SeriesAssumption
  <2> HIDE DEF from
  <2> QED
    BY <1>2, <1>3, <2>2, <2>3
<1> HIDE DEF u, from
<1>9. y \in WorstOf(from, MaxTime) <=>
          \/ y \in {r.v : r \in {r \in ToSet(raw) : r.n >= from /\ r.n <= MaxTime}}
          \/ y \in {c.v : c \in {c \in ToSet(coarse) :
                       (raw = <<>> \/ from < raw[1].n) /\ c.t >= t /\ c.t <= u - 1}}
          \/ y \in {k.p : k \in {k \in ToSet(peaks) :
                       (raw = <<>> \/ from < raw[1].n) /\ k.t >= t /\ k.t <= u - 1}}
  BY <1>3, <1>6 DEF WorstOf, RangeRaw, PeakValues
<1>10. y \in {r.v : r \in {r \in ToSet(raw) : r.n >= from /\ r.n <= MaxTime}} <=>
           \E i \in 1..Len(raw) : raw[i].v = y /\ from <= raw[i].n
  <2>1. \A i \in 1..Len(raw) : raw[i].n <= MaxTime /\ raw[i].n \in Int
    BY <1>1, SeriesAssumption
  <2> QED
    BY <1>3, <1>4, <2>1
<1>11. y \in {c.v : c \in {c \in ToSet(coarse) :
                        (raw = <<>> \/ from < raw[1].n) /\ c.t >= t /\ c.t <= u - 1}} <=>
           \E j \in 1..Len(coarse) : coarse[j].v = y /\ t <= coarse[j].t /\ coarse[j].t < u
  BY <1>1, <1>4, <1>5, <1>7, <1>8
<1>12. y \in {k.p : k \in {k \in ToSet(peaks) :
                        (raw = <<>> \/ from < raw[1].n) /\ k.t >= t /\ k.t <= u - 1}} <=>
           \E x \in 1..Len(peaks) : peaks[x].p = y /\ t <= peaks[x].t /\ peaks[x].t < u
  BY <1>1, <1>4, <1>5, <1>7, <1>8
<1> QED
  BY <1>9, <1>10, <1>11, <1>12 DEF u, from

\* A peak of a bucket that the coarse tier still reaches is the worst sample of it.
LEMMA PeakIsWorst ==
    ASSUME TInv, BInv, Own(accepted, life), NEW x \in 1..Len(peaks), Len(coarse) > 0,
           coarse[1].t <= peaks[x].t
    PROVE  \E i \in 1..Len(accepted) :
               accepted[i].v = peaks[x].p /\ BucketAt(accepted, i) = BucketOf(peaks[x].t)
<1> DEFINE a == accepted
           C == coarse
           P == peaks
<1>1. /\ C \in Seq(CoarsePoint) /\ Len(C) \in Nat /\ \A j \in 1..Len(C) : C[j].t \in Nat
      /\ life \in Nat \ {0} /\ a \in Seq(Sample(life))
      /\ P \in Seq(Peak) /\ Ordered(P, PeakOrder) /\ \A y \in 1..Len(P) : P[y].t \in Nat
  <2>1. \A j \in 1..Len(C) : C[j].t \in 1..MaxTime
    BY Fits
  <2> QED
    BY <2>1, Fits
<1>2. HasBucket(C, P[x]) /\ P[x].t < C[Len(C)].t /\ PeaksRight(a, life, C, P) /\ MineWatched(a, life, C)
  BY DEF TInv, Paired, BInv, PeaksClosed
<1> HIDE DEF a, C, P
<1>3. 1 \in 1..Len(C) /\ C[1].t <= P[x].t
  BY <1>1 DEF C, P
<1>4. PICK j \in 1..Len(C) : C[j].t = P[x].t
  <2>1. ~(P[x].t < C[1].t)
    BY <1>1, <1>3 DEF P
  <2> QED
    BY <1>2, <2>1 DEF HasBucket
<1>5. j < Len(C)
  <2>1. C[j].t < C[Len(C)].t /\ C[j].t \in Nat
    BY <1>1, <1>2, <1>4
  <2>2. j # Len(C)
    BY <2>1
  <2> QED
    BY <1>1, <2>2
<1>6. AllOf(a, C[j], life)
  BY DEF AllOf, In, Own, a
<1>7. LaterOf(a, C[j], life)
  BY <1>2, <1>5, <1>6 DEF MineWatched
<1>8. life \in 1..life
  BY <1>1
<1>9. PICK w : WorstIs(a, In(a, C[j]), w) /\ PeakSays(P, C[j], w)
  BY <1>2, <1>5, <1>6, <1>7, <1>8 DEF PeaksRight
<1>10. x \in 1..Len(P) /\ P[x].t = C[j].t
  BY <1>4 DEF P
<1>11. PICK y \in 1..Len(P) : P[y].t = C[j].t /\ P[y].p = w
  BY <1>9, <1>10 DEF PeakSays
<1>12. x = y
  <2>1. ~(x < y) /\ ~(y < x)
    <3>1. /\ x < y => <<P[x], P[y]>> \in PeakOrder
          /\ y < x => <<P[y], P[x]>> \in PeakOrder
      BY <1>1, <1>10, <1>11 DEF Ordered
    <3>2. (x < y => P[x].t < P[y].t) /\ (y < x => P[y].t < P[x].t)
      BY <3>1 DEF PeakOrder
    <3>3. P[x].t = P[y].t /\ P[x].t \in Nat
      BY <1>1, <1>10, <1>11
    <3> QED
      BY <3>2, <3>3
  <2>2. x \in Nat /\ y \in Nat
    BY <1>1, <1>10
  <2> QED
    BY <2>1, <2>2
<1>13. PICK i \in In(a, C[j]) : a[i].v = w
  BY <1>9 DEF WorstIs
<1>14. i \in 1..Len(a) /\ BucketAt(a, i) = BucketOf(C[j].t)
  BY <1>13 DEF In
<1> QED
  BY <1>4, <1>11, <1>12, <1>13, <1>14 DEF a, P

\* Of a bucket that is older than the raw tier, the coarse point or the peak says the
\* worst, but for less than the floor.
LEMMA OldIsSeen ==
    ASSUME TInv, BInv, WInv, Own(accepted, life), Floor > 0, NEW c \in 1..Len(coarse),
           NEW i \in 1..Len(accepted), BucketAt(accepted, i) >= BucketOf(coarse[c].t),
           BucketAt(accepted, i) < BucketOf(coarse[Len(coarse)].t),
           \A k \in 1..Len(accepted) : BucketAt(accepted, k) >= BucketOf(coarse[c].t) =>
               ~Worse(accepted[k].v, accepted[i].v)
    PROVE  \E t \in Nat, y \in Int :
               /\ coarse[c].t <= t /\ t <= Unix(accepted[i].n) /\ Abs(y - accepted[i].v) < Floor
               /\ \/ \E j \in 1..Len(coarse) : coarse[j].t = t /\ coarse[j].v = y
                  \/ \E x \in 1..Len(peaks) : peaks[x].t = t /\ peaks[x].p = y
<1> DEFINE a == accepted
           C == coarse
           P == peaks
           B(k) == BucketOf(C[k].t)
           v == a[i].v
<1>1. /\ C \in Seq(CoarsePoint) /\ Len(C) \in Nat /\ Ordered(C, BucketOrder)
      /\ \A j \in 1..Len(C) : C[j].t \in Nat /\ C[j].v \in Int
      /\ life \in Nat \ {0} /\ a \in Seq(Sample(life))
      /\ \A k \in 1..Len(a) : a[k].v \in Int /\ BucketAt(a, k) \in Nat /\ a[k].n \in Nat /\ Unix(a[k].n) \in Nat
  <2>1. C \in Seq(CoarsePoint) /\ \A j \in 1..Len(C) : C[j].t \in 1..MaxTime
    BY Fits
  <2>2. \A j \in 1..Len(C) : C[j].t \in Nat /\ C[j].v \in Int
    <3> SUFFICES ASSUME NEW j \in 1..Len(C) PROVE C[j].t \in Nat /\ C[j].v \in Int
      OBVIOUS
    <3> HIDE DEF C
    <3>1. C[j] \in CoarsePoint /\ C[j].t \in 1..MaxTime
      BY <2>1
    <3> QED
      <4>1. C[j].v \in Value
        BY <3>1 DEF CoarsePoint
      <4>2. C[j].v \in Int
        BY <4>1, SeriesAssumption
      <4>3. C[j].t \in Nat
        BY <3>1
      <4> QED
        BY <4>2, <4>3
  <2>3. life \in Nat \ {0} /\ a \in Seq(Sample(life))
    BY Fits
  <2>4. \A k \in 1..Len(a) : a[k].v \in Int /\ BucketAt(a, k) \in Nat /\ a[k].n \in Nat /\ Unix(a[k].n) \in Nat
    BY <2>3, SampleTimes
  <2> QED
    BY <2>2, <2>3, <2>4, Fits
<1>2. /\ FirstIs(a, C) /\ PeaksRight(a, life, C, P) /\ MineWatched(a, life, C)
      /\ InTime(a, life) /\ Covers(a, C)
  BY DEF BInv, WInv
<1>3. /\ \A j \in 1..Len(C) : B(j) \in Nat
      /\ \A j, k \in 1..Len(C) : j < k => B(j) < B(k)
  BY <1>1, Buckets DEF Ordered, BucketOrder
<1>4. c \in 1..Len(C) /\ i \in 1..Len(a) /\ BucketAt(a, i) >= B(c) /\ BucketAt(a, i) < B(Len(C))
      /\ \A k \in 1..Len(a) : BucketAt(a, k) >= B(c) => ~Worse(a[k].v, v)
  OBVIOUS
<1> HIDE DEF a, C, P, B
<1>5. 1 \in 1..Len(C) /\ Len(C) \in 1..Len(C) /\ B(1) <= B(c)
  <2>1. 1 \in 1..Len(C) /\ Len(C) \in 1..Len(C) /\ (1 = c \/ 1 < c)
    BY <1>1, <1>4
  <2> QED
    BY <1>3, <1>4, <2>1
<1>6. PICK j \in 1..Len(C) : B(j) = BucketAt(a, i)
  <2>1. BucketAt(a, i) >= B(1)
    BY <1>1, <1>3, <1>4, <1>5
  <2>2. Len(C) > 0 /\ BucketAt(a, i) >= BucketOf(C[1].t)
    BY <1>1, <1>5, <2>1 DEF B
  <2> QED
    BY <1>2, <1>4, <2>2 DEF Covers, B
<1>7. j < Len(C) /\ ~(j < c)
  <2>1. j # Len(C)
    BY <1>3, <1>4, <1>5, <1>6
  <2>2. ~(j < c)
    BY <1>1, <1>3, <1>4, <1>6
  <2> QED
    BY <1>1, <2>1, <2>2
<1>8. C[c].t <= C[j].t
  <2>1. c = j \/ B(c) < B(j)
    BY <1>1, <1>3, <1>4, <1>7
  <2>2. B(c) < B(j) => C[c].t < C[j].t
    BY <1>1, <1>4, Buckets DEF B
  <2> QED
    BY <1>1, <1>4, <2>1, <2>2
<1>9. i \in In(a, C[j])
  BY <1>4, <1>6 DEF In, B
<1>10. C[j].t <= Unix(a[i].n)
  <2>1. PICK f \in In(a, C[j]) : Unix(a[f].n) = C[j].t /\ \A k \in In(a, C[j]) : f <= k
    BY <1>2 DEF FirstIs
  <2>2. f \in 1..Len(a) /\ f <= i /\ a[f].life = life /\ a[i].life = life
    BY <1>4, <1>9, <2>1 DEF In, Own, a
  <2>3. a[f].n <= a[i].n
    BY <1>2, <1>4, <2>2 DEF InTime
  <2> QED
    BY <1>1, <1>4, <2>1, <2>2, <2>3, UnixGrows
<1>11. AllOf(a, C[j], life)
  BY DEF AllOf, In, Own, a
<1>12. LaterOf(a, C[j], life)
  BY <1>2, <1>7, <1>11 DEF MineWatched
<1>13. PICK w : WorstIs(a, In(a, C[j]), w) /\ PeakSays(P, C[j], w)
  <2>1. life \in 1..life
    BY <1>1
  <2> QED
    BY <1>2, <1>7, <1>11, <1>12, <2>1 DEF PeaksRight
<1>14. w = v /\ v \in Int
  <2>1. PICK f \in In(a, C[j]) : a[f].v = w
    BY <1>13 DEF WorstIs
  <2>2. f \in 1..Len(a) /\ BucketAt(a, f) = B(j)
    BY <2>1 DEF In, B
  <2>3. BucketAt(a, f) >= B(c)
    BY <1>4, <1>6, <2>2
  <2>4. ~Worse(w, v) /\ ~Worse(v, w)
    BY <1>4, <1>9, <1>13, <2>1, <2>2, <2>3 DEF WorstIs
  <2>5. w \in Int /\ v \in Int
    BY <1>1, <1>4, <2>1, <2>2
  <2> QED
    BY <2>4, <2>5, WorseIs
<1>15. CASE Abs(w - C[j].v) >= Floor
  <2>1. PICK x \in 1..Len(P) : P[x].t = C[j].t /\ P[x].p = v
    BY <1>13, <1>14, <1>15 DEF PeakSays
  <2>2. Abs(v - v) < Floor
    BY <1>14 DEF Abs
  <2> QED
    BY <1>1, <1>8, <1>10, <1>14, <2>1, <2>2 DEF a, C, P
<1>16. CASE ~(Abs(w - C[j].v) >= Floor)
  <2>1. Abs(C[j].v - v) < Floor
    BY <1>1, <1>14, <1>16, SeriesAssumption DEF Abs
  <2> QED
    BY <1>1, <1>8, <1>10, <2>1 DEF a, C
<1> QED
  BY <1>15, <1>16

LEMMA WorstIsFound == TInv /\ BInv /\ WInv => WorstIsTrue
<1> SUFFICES ASSUME TInv, BInv, WInv, Floor > 0, coarse # <<>>, OneLife, SecondsApart, RawIsLong,
                    NEW p \in ToSet(coarse)
             PROVE  LET mine == {i \in DOMAIN accepted : BucketOf(Unix(accepted[i].n)) >= BucketOf(p.t)}
                    IN  Abs(Worst(p.t * Sec, MaxTime) - WorstIn(mine)) < Floor
  BY DEF WorstIsTrue
<1> DEFINE a == accepted
           C == coarse
           b == BucketOf(p.t)
           I == {i \in 1..Len(a) : BucketAt(a, i) >= b}
           V == {a[i].v : i \in I}
           W == WorstOf(p.t * Sec, MaxTime)
           S(i) == Unix(a[i].n)
<1>1. /\ C \in Seq(CoarsePoint) /\ Len(C) \in Nat /\ Last(C) = C[Len(C)]
      /\ \A j \in 1..Len(C) : C[j].t \in Nat
      /\ life \in Nat \ {0} /\ a \in Seq(Sample(life)) /\ Len(a) \in Nat
      /\ \A i \in 1..Len(a) : /\ a[i].v \in Int /\ BucketAt(a, i) \in Nat /\ a[i].n \in Nat /\ S(i) \in Nat
                              /\ BucketAt(a, i) = BucketOf(S(i))
  <2>1. \A j \in 1..Len(C) : C[j].t \in 1..MaxTime
    BY Fits
  <2>2. \A j \in 1..Len(C) : C[j].t \in Nat
    BY <2>1
  <2>3. life \in Nat \ {0} /\ a \in Seq(Sample(life))
    BY Fits
  <2>4. \A i \in 1..Len(a) : /\ a[i].v \in Int /\ BucketAt(a, i) \in Nat /\ a[i].n \in Nat /\ S(i) \in Nat
                             /\ BucketAt(a, i) = BucketOf(S(i))
    BY <2>3, SampleTimes DEF BucketAt
  <2> QED
    BY <2>2, <2>3, <2>4, Fits
<1>2. PICK c \in 1..Len(C) : p = C[c]
  BY <1>1 DEF ToSet
<1>3. Own(a, life) /\ FirstIs(a, C) /\ InTime(a, life)
  BY <1>1 DEF OneLife, Own, BInv, WInv
<1>4. p.t \in Nat /\ b \in Nat
  BY <1>1, <1>2, Buckets
<1>5. {i \in DOMAIN accepted : BucketOf(Unix(accepted[i].n)) >= BucketOf(p.t)} = I
  BY <1>1 DEF BucketAt
<1>6. PICK f \in In(a, C[c]) : Unix(a[f].n) = C[c].t /\ \A k \in In(a, C[c]) : f <= k
  BY <1>3 DEF FirstIs
<1>7. f \in 1..Len(a) /\ S(f) = p.t /\ f \in I
  BY <1>1, <1>2, <1>4, <1>6 DEF In
<1>8. \A i \in 1..Len(a), j \in 1..Len(a) : i <= j => a[i].n <= a[j].n
  BY <1>3 DEF InTime, Own
<1> HIDE DEF S
<1>9. \A i \in I : p.t <= S(i)
  <2> SUFFICES ASSUME NEW i \in I PROVE p.t <= S(i)
    OBVIOUS
  <2>1. i \in 1..Len(a) /\ BucketAt(a, i) >= b
    OBVIOUS
  <2>2. CASE BucketAt(a, i) = b
    <3>1. i \in In(a, C[c])
      BY <1>2, <2>1, <2>2 DEF In
    <3>2. a[f].n <= a[i].n
      BY <1>6, <1>7, <1>8, <2>1, <3>1
    <3>3. S(f) <= S(i)
      BY <1>1, <1>7, <2>1, <3>2, UnixGrows DEF S
    <3> QED
      BY <1>7, <3>3
  <2>3. CASE b < BucketAt(a, i)
    <3>1. BucketOf(p.t) < BucketOf(S(i)) /\ S(i) \in Nat
      BY <1>1, <2>1, <2>3
    <3>2. p.t < S(i)
      BY <1>4, <3>1, Buckets
    <3> QED
      BY <1>4, <3>1, <3>2
  <2> QED
    BY <1>1, <1>4, <2>1, <2>2, <2>3
<1>10. \A s \in Nat : p.t <= s => b <= BucketOf(s)
  BY <1>4, Buckets
<1> HIDE DEF a, C, b
<1>11. IsFiniteSet(V) /\ V \in SUBSET Int /\ V # {}
  <2>1. I \subseteq 1..Len(a) /\ IsFiniteSet(I)
    BY <1>1, Intervals, FS_Subset
  <2>2. V \in SUBSET Int /\ V # {}
    BY <1>1, <1>7, <2>1
  <2> DEFINE g == [i \in I |-> a[i].v]
  <2>3. g \in Surjection(I, V)
    BY DEF Surjection
  <2> HIDE DEF I, V, g
  <2>4. IsFiniteSet(V)
    BY <2>1, <2>3, FS_Surjection
  <2> QED
    BY <2>2, <2>4
<1>12. PICK w \in V : \A u \in V : ~Worse(u, w)
  <2> HIDE DEF V
  <2> QED
    BY <1>11, WorstExists
<1>13. WorstIn(I) = w
  <2>1. I \in SUBSET (1..Len(accepted)) /\ WorstIs(accepted, I, w)
    BY <1>12 DEF WorstIs, a
  <2> QED
    BY <1>1, <2>1, WorstInIs DEF a
<1>14. Len(raw) > 0 /\ raw # <<>>
  <2>1. Len(rbuf) > 0
    BY <1>3, <1>7 DEF BInv, RawIsLast, Own, a
  <2>2. RawRing!TypeOK /\ CoarseRing!TypeOK
    BY DEF TInv, Typed
  <2> QED
    BY <2>1, <2>2, Tiers, Fits
<1>15. PICK k \in 0..Len(a) : /\ Len(raw) = Len(a) - k /\ (k = 0 \/ Len(raw) = MaxRaw)
                              /\ \A m \in 1..Len(raw) : raw[m].n = a[k + m].n /\ raw[m].v = a[k + m].v
  BY <1>3, RawIsRest DEF a
<1>16. \A y : y \in W <=>
          \/ \E m \in 1..Len(raw) : raw[m].v = y /\ p.t * Sec <= raw[m].n
          \/ \E j \in 1..Len(C) : C[j].v = y /\ p.t <= C[j].t /\ C[j].t < Unix(raw[1].n)
          \/ \E x \in 1..Len(peaks) : peaks[x].p = y /\ p.t <= peaks[x].t /\ peaks[x].t < Unix(raw[1].n)
  BY <1>4, <1>14, WorstChooses DEF C
<1> HIDE DEF W
\* What Worst looks at are samples of those buckets.
<1>17. ASSUME NEW y \in W PROVE y \in V
  <2>1. ASSUME NEW m \in 1..Len(raw), raw[m].v = y, p.t * Sec <= raw[m].n PROVE y \in V
    <3>1. k + m \in 1..Len(a) /\ raw[m].n = a[k + m].n /\ raw[m].v = a[k + m].v
      BY <1>1, <1>15
    <3>2. p.t <= S(k + m)
      BY <1>1, <1>4, <2>1, <3>1, SecondsSplit DEF S
    <3>3. k + m \in I
      BY <1>1, <1>10, <3>1, <3>2
    <3> QED
      BY <2>1, <3>1, <3>3
  <2>2. ASSUME NEW j \in 1..Len(C), C[j].v = y, p.t <= C[j].t PROVE y \in V
    <3>1. PICK i \in In(a, C[j]) : a[i].v = C[j].v
      BY <1>3 DEF FirstIs
    <3>2. i \in 1..Len(a) /\ BucketAt(a, i) = BucketOf(C[j].t)
      BY <3>1 DEF In
    <3>3. i \in I
      BY <1>1, <1>10, <2>2, <3>2
    <3> QED
      BY <2>2, <3>1, <3>3
  <2>3. ASSUME NEW x \in 1..Len(peaks), peaks[x].p = y, p.t <= peaks[x].t PROVE y \in V
    <3>1. 1 \in 1..Len(C) /\ C[1].t <= p.t /\ Len(C) > 0
      <4>1. 1 \in 1..Len(C) /\ (c = 1 \/ 1 < c)
        BY <1>1
      <4>2. C[1].t \in Nat /\ C[c].t \in Nat
        BY <1>1, <4>1
      <4>3. 1 < c => BucketOf(C[1].t) < BucketOf(C[c].t)
        BY <4>1, Fits DEF Ordered, BucketOrder, C
      <4>4. 1 < c => C[1].t < C[c].t
        BY <4>2, <4>3, Buckets
      <4> QED
        BY <1>1, <1>2, <4>1, <4>2, <4>4
    <3>2. peaks[x].t \in Nat
      BY Fits
    <3>3. C[1].t <= peaks[x].t
      BY <1>1, <1>4, <2>3, <3>1, <3>2
    <3>4. PICK i \in 1..Len(a) : a[i].v = peaks[x].p /\ BucketAt(a, i) = BucketOf(peaks[x].t)
      BY <1>3, <3>1, <3>3, PeakIsWorst DEF a, C
    <3>5. i \in I
      BY <1>1, <1>10, <2>3, <3>2, <3>4
    <3> QED
      BY <2>3, <3>4, <3>5
  <2> QED
    BY <1>16, <2>1, <2>2, <2>3
\* One of them is the worst, or nearly.
<1>18. PICK i \in I : a[i].v = w
  BY <1>12
<1>19. i \in 1..Len(a) /\ BucketAt(a, i) >= b /\ w \in Int
  BY <1>1, <1>18
<1>20. \E y \in W : y \in Int /\ Abs(y - w) < Floor
  <2>1. CASE k < i
    <3>1. i - k \in 1..Len(raw) /\ k + (i - k) = i
      BY <1>1, <1>15, <1>19, <2>1
    <3>2. raw[i - k].v = w /\ raw[i - k].n = a[i].n
      BY <1>15, <1>18, <3>1
    <3>3. p.t * Sec <= a[i].n
      BY <1>1, <1>4, <1>9, <1>18, <1>19, SecondsSplit DEF S
    <3>4. w \in W
      BY <1>16, <3>1, <3>2, <3>3
    <3>5. Abs(w - w) < Floor
      BY <1>19 DEF Abs
    <3> QED
      BY <1>19, <3>4, <3>5
  <2>2. CASE ~(k < i)
    <3>1. k + 1 \in 1..Len(a) /\ i # k + 1 /\ i <= k + 1 /\ 1 \in 1..Len(raw) /\ Len(raw) = MaxRaw
      <4>1. k \in Nat /\ i \in Nat /\ Len(a) \in Nat /\ 1 <= i /\ i <= k
        BY <1>1, <1>19, <2>2
      <4>2. Len(raw) = Len(a) - k /\ Len(raw) > 0 /\ (k = 0 \/ Len(raw) = MaxRaw)
        BY <1>14, <1>15
      <4>3. Len(raw) \in Nat
        BY <4>1, <4>2
      <4>4. Len(raw) = MaxRaw
        BY <4>1, <4>2
      <4>5. 1 \in 1..Len(raw)
        BY <4>2, <4>3
      <4>6. k + 1 \in 1..Len(a) /\ i # k + 1 /\ i <= k + 1
        BY <4>1, <4>2
      <4> QED
        BY <4>4, <4>5, <4>6
    <3>2. raw[1].n = a[k + 1].n
      BY <1>15, <3>1
    <3>3. S(i) < S(k + 1) /\ S(k + 1) \in Nat
      <4>1. a[i].n <= a[k + 1].n
        BY <1>8, <1>19, <3>1
      <4>2. S(i) <= S(k + 1) /\ S(i) \in Nat /\ S(k + 1) \in Nat
        BY <1>1, <1>19, <3>1, <4>1, UnixGrows DEF S
      <4>3. S(i) # S(k + 1)
        <5>1. DOMAIN accepted = 1..Len(accepted)
          BY <1>1 DEF a
        <5>2. \A x, y \in 1..Len(accepted) : x # y => Unix(accepted[x].n) # Unix(accepted[y].n)
          BY <5>1 DEF SecondsApart
        <5> QED
          BY <1>19, <3>1, <5>2 DEF S, a
      <4> QED
        BY <4>2, <4>3
    <3>4. BucketAt(a, i) < BucketOf(C[Len(C)].t)
      <4>1. ~(Len(raw) < MaxRaw)
        BY <1>1, <1>15, <3>1
      <4>2. BucketOf(S(k + 1)) < BucketOf(C[Len(C)].t)
        BY <1>1, <3>2, <4>1 DEF RawIsLong, S, C
      <4>3. BucketAt(a, i) <= BucketOf(S(k + 1)) /\ BucketOf(S(k + 1)) \in Nat
        <5>1. S(i) \in Nat /\ S(k + 1) \in Nat /\ S(i) <= S(k + 1) /\ BucketAt(a, i) = BucketOf(S(i))
          BY <1>1, <1>19, <3>3
        <5> DEFINE s1 == S(i)
                   s2 == S(k + 1)
        <5> HIDE DEF s1, s2
        <5>2. s1 \in Nat /\ s2 \in Nat /\ s1 <= s2
          BY <5>1 DEF s1, s2
        <5>3. BucketOf(s1) <= BucketOf(s2) /\ BucketOf(s2) \in Nat
          BY <5>2, Buckets
        <5> QED
          BY <5>1, <5>3 DEF s1, s2
      <4>4. BucketOf(C[Len(C)].t) \in Nat
        <5>1. Len(C) \in 1..Len(C)
          BY <1>1
        <5> QED
          BY <1>1, <5>1, Buckets
      <4> QED
        BY <1>1, <1>19, <4>2, <4>3, <4>4
    <3>5. \A m \in 1..Len(a) : BucketAt(a, m) >= BucketOf(C[c].t) => ~Worse(a[m].v, a[i].v)
      BY <1>2, <1>12, <1>18 DEF b
    <3>6. PICK t \in Nat, y \in Int :
              /\ C[c].t <= t /\ t <= S(i) /\ Abs(y - a[i].v) < Floor
              /\ \/ \E j \in 1..Len(C) : C[j].t = t /\ C[j].v = y
                 \/ \E x \in 1..Len(peaks) : peaks[x].t = t /\ peaks[x].p = y
      <4>1. BucketAt(a, i) >= BucketOf(C[c].t)
        BY <1>2, <1>19 DEF b
      <4> QED
        BY <1>3, <1>19, <3>4, <3>5, <4>1, OldIsSeen DEF a, C, S
    <3>7. p.t <= t /\ t < Unix(raw[1].n)
      <4>1. Unix(raw[1].n) = S(k + 1) /\ S(i) \in Nat
        BY <1>1, <1>19, <3>2 DEF S
      <4> QED
        BY <1>2, <3>3, <3>6, <4>1
    <3>8. y \in W
      BY <1>16, <3>6, <3>7
    <3> QED
      BY <1>18, <3>6, <3>8
  <2> QED
    BY <2>1, <2>2
<1>21. PICK y \in W : y \in Int /\ Abs(y - w) < Floor
  BY <1>20
<1>22. \E z \in W : \A u \in W : ~Worse(u, z)
  <2>1. W \subseteq V
    BY <1>17
  <2> HIDE DEF V
  <2>2. W \in SUBSET Int /\ IsFiniteSet(W) /\ W # {}
    BY <1>11, <1>21, <2>1, FS_Subset
  <2> QED
    BY <2>2, WorstExists
<1> DEFINE z == Worst(p.t * Sec, MaxTime)
<1>23. z \in W /\ \A u \in W : ~Worse(u, z)
  BY <1>22 DEF Worst, W
<1> HIDE DEF z
<1>24. z \in Int /\ w \in Int /\ ~Worse(z, w) /\ ~Worse(y, z)
  BY <1>11, <1>12, <1>17, <1>23
<1>25. Abs(z - w) < Floor
  <2>1. Floor \in Nat
    BY SeriesAssumption
  <2>2. /\ Dir = 1 => ~(z > w) /\ ~(y > z)
        /\ Dir # 1 => ~(z < w) /\ ~(y < z)
    BY <1>21, <1>24, WorseIs
  <2> QED
    BY <1>21, <1>24, <2>1, <2>2 DEF Abs
<1> QED
  BY <1>5, <1>13, <1>25 DEF z

\* series.go, Worst: for any values, floor, step, sizes and slacks, over whole buckets up
\* to now the answer misses the worst sample by less than the floor, as long as the
\* series was not restarted, no two samples share a second, and the raw tier reaches
\* back behind the newest bucket.
THEOREM WorstStaysTrue == HSpec => []WorstIsTrue
<1>1. HInit => WInv
  <2> SUFFICES ASSUME HInit PROVE WInv
    OBVIOUS
  <2>1. accepted = <<>>
    BY DEF HInit
  <2>2. \A i : ~(i \in 1..Len(accepted))
    BY <2>1
  <2> QED
    BY <2>2 DEF WInv, InTime, Covers
<1> QED
  BY <1>1, StartsAgreeing, TiersStayAgreeing, StartsExact, BucketsStayExact, StaysCovered, WorstIsFound, PTL
     DEF HSpec
=============================================================================
