------------------------------ MODULE HistoryProofs ------------------------------
(***************************************************************************)
(* Proofs about HistoryStore: nothing that is due stays unsaved, no step   *)
(* makes an item of the disk unreadable, and what the program has kept in  *)
(* memory is readable from the disk when it leaves the memory.             *)
(***************************************************************************)
EXTENDS HistoryStore, FiniteSetTheorems, FunctionTheorems, WellFoundedInduction, NaturalsInduction, TLAPS

(* Numbers, days and slots *)

\* Every set of natural numbers that is not empty has a least element.
LEMMA LeastNat ==
    ASSUME NEW S \in SUBSET Nat, S # {}
    PROVE  \E n \in S : \A k \in S : n <= k
<1>1. PICK x \in S : \A y \in S : <<y, x>> \notin OpToRel(<, Nat)
  BY NatLessThanWellFounded, WFMin, Zenon
<1>2. \A y \in S : ~ (y < x)
  BY <1>1 DEF OpToRel
<1>3. ASSUME NEW k \in S PROVE x <= k
  <2>1. x \in Nat /\ k \in Nat /\ ~ (k < x)
    BY <1>2
  <2> QED
    BY <2>1
<1> QED
  BY <1>3

LEMMA MinOf ==
    ASSUME NEW S \in SUBSET Nat, S # {}
    PROVE  Min(S) \in S /\ \A y \in S : Min(S) <= y
<1>1. PICK n \in S : \A k \in S : n <= k
  BY LeastNat
<1> QED
  BY <1>1 DEF Min

LEMMA MaxOf ==
    ASSUME NEW n \in Nat, NEW S \in SUBSET (0 .. n), S # {}
    PROVE  Max(S) \in S /\ \A y \in S : y <= Max(S)
<1> DEFINE T == {n - y : y \in S}
<1>1. T \in SUBSET Nat /\ T # {}
  <2>1. \A y \in S : n - y \in Nat
    OBVIOUS
  <2> QED
    BY <2>1
<1>2. PICK k \in T : \A j \in T : k <= j
  BY <1>1, LeastNat
<1>3. PICK y \in S : k = n - y
  BY <1>2
<1>4. ASSUME NEW z \in S PROVE z <= y
  <2>1. n - y <= n - z
    BY <1>2, <1>3
  <2> QED
    BY <2>1
<1> QED
  BY <1>3, <1>4 DEF Max

LEMMA DivBounds ==
    ASSUME NEW t \in Nat, NEW b \in Nat \ {0}
    PROVE  t \div b \in Nat /\ b * (t \div b) <= t /\ t < b * (t \div b) + b
OBVIOUS

LEMMA DivMonotone ==
    ASSUME NEW s \in Nat, NEW t \in Nat, s <= t, NEW b \in Nat \ {0}
    PROVE  s \div b <= t \div b
<1> DEFINE p == s \div b
           q == t \div b
<1>1. p \in Nat /\ b * p <= s /\ s < b * p + b
  BY DivBounds
<1>2. q \in Nat /\ b * q <= t /\ t < b * q + b
  BY DivBounds
<1> HIDE DEF p, q
<1>3. SUFFICES ASSUME q + 1 <= p PROVE FALSE
  BY <1>1, <1>2 DEF p, q
<1>4. b * (q + 1) <= b * p
  BY <1>1, <1>2, <1>3
<1>5. b * (q + 1) = b * q + b
  BY <1>2
<1> QED
  BY <1>1, <1>2, <1>4, <1>5

\* Slots and days are numbers that grow with the time.
LEMMA TimesGrow ==
    /\ \A t \in Nat : Slot(t) \in Nat /\ Day(t) \in Nat /\ Oldest(t) \in Int /\ Oldest(t) < Day(t)
    /\ \A s, t \in Nat : s <= t => Slot(s) <= Slot(t) /\ Day(s) <= Day(t) /\ Oldest(s) <= Oldest(t)
<1>1. ASSUME NEW t \in Nat
      PROVE  Slot(t) \in Nat /\ Day(t) \in Nat /\ Oldest(t) \in Int /\ Oldest(t) < Day(t)
  <2>1. Slot(t) \in Nat /\ Day(t) \in Nat
    BY DivBounds, HistoryAssumption DEF Slot, Day
  <2> QED
    BY <2>1, HistoryAssumption DEF Oldest
<1>2. ASSUME NEW s \in Nat, NEW t \in Nat, s <= t
      PROVE  Slot(s) <= Slot(t) /\ Day(s) <= Day(t) /\ Oldest(s) <= Oldest(t)
  <2>1. Slot(s) <= Slot(t) /\ Day(s) <= Day(t)
    BY <1>2, DivMonotone, HistoryAssumption DEF Slot, Day
  <2> QED
    BY <2>1, <1>1, HistoryAssumption DEF Oldest
<1> QED
  BY <1>1, <1>2

\* What is of the same slot is less than a slot apart.
LEMMA SameSlot ==
    ASSUME NEW s \in Nat, NEW t \in Nat, Slot(s) = Slot(t)
    PROVE  t < s + SlotLen
<1> DEFINE p == s \div SlotLen
           q == t \div SlotLen
<1>1. p \in Nat /\ SlotLen * p <= s
  BY DivBounds, HistoryAssumption
<1>2. q \in Nat /\ t < SlotLen * q + SlotLen
  BY DivBounds, HistoryAssumption
<1>3. p = q
  BY DEF Slot
<1> HIDE DEF p, q
<1>4. SlotLen * p = SlotLen * q /\ SlotLen * p \in Nat /\ SlotLen \in Nat
  BY <1>1, <1>3, HistoryAssumption
<1> QED
  BY <1>1, <1>2, <1>4

\* What is a slot old is within the retention.
LEMMA SlotWithinRetention ==
    ASSUME NEW s \in Nat, NEW t \in Nat, t - SlotLen <= s
    PROVE  Oldest(t) <= Day(s)
<1> DEFINE p == s \div DayLen
           q == t \div DayLen
<1>1. p \in Nat /\ DayLen * p <= s /\ s < DayLen * p + DayLen
  BY DivBounds, HistoryAssumption
<1>2. q \in Nat /\ DayLen * q <= t
  BY DivBounds, HistoryAssumption
<1>3. p = Day(s) /\ q = Day(t)
  BY DEF Day
<1> HIDE DEF p, q
<1>4. q <= p + 1
  <2>1. SUFFICES ASSUME p + 2 <= q PROVE FALSE
    BY <1>1, <1>2
  <2>2. DayLen \in Nat /\ DayLen * p \in Nat /\ DayLen * q \in Nat /\ SlotLen \in Nat /\ SlotLen <= DayLen
    BY <1>1, <1>2, HistoryAssumption
  <2>3. DayLen * (p + 2) <= DayLen * q
    BY <2>1, <2>2, <1>1, <1>2
  <2>4. DayLen * (p + 2) = DayLen * p + 2 * DayLen
    BY <2>2, <1>1
  <2> QED
    BY <2>2, <2>3, <2>4, <1>1, <1>2
<1> QED
  BY <1>1, <1>2, <1>3, <1>4, HistoryAssumption DEF Oldest

\* No day of the retention is before the first.
LEMMA FirstDays ==
    ASSUME NEW t \in Nat, FirstRound <= t
    PROVE  1 <= t /\ 1 <= Oldest(t) /\ 1 <= Day(t)
<1> DEFINE q == t \div DayLen
<1>1. q \in Nat /\ t < DayLen * q + DayLen /\ q = Day(t)
  BY DivBounds, HistoryAssumption DEF Day
<1> HIDE DEF q
<1> DEFINE r == Retain + 1
<1>2. r \in Nat /\ DayLen \in Nat \ {0} /\ r * DayLen <= t /\ r >= 2
  BY HistoryAssumption
<1>5. Oldest(t) = q - r + 1
  BY <1>1, HistoryAssumption DEF Oldest
<1> HIDE DEF r
<1>3. r <= q
  <2>1. SUFFICES ASSUME q + 1 <= r PROVE FALSE
    BY <1>1, <1>2
  <2>2. (q + 1) * DayLen <= r * DayLen
    BY <2>1, <1>1, <1>2
  <2>3. (q + 1) * DayLen = DayLen * q + DayLen
    BY <1>1, <1>2
  <2>4. DayLen * q \in Nat /\ r * DayLen \in Nat
    BY <1>1, <1>2
  <2> QED
    BY <2>2, <2>3, <2>4, <1>1, <1>2
<1>4. r * DayLen >= 1
  BY <1>2
<1> QED
  BY <1>1, <1>2, <1>3, <1>4, <1>5

-----------------------------------------------------------------------------
(* Lines and batches *)

Held(lines) == UNION {lines[n] : n \in DOMAIN lines}

\* The items there can be at time n.
Items(n) == [id : Series, t : FirstRound .. n, k : {"v", "p"}]

LEMMA ItemFacts ==
    ASSUME NEW n \in Nat, NEW i \in Items(n)
    PROVE  i.id \in Series /\ i.t \in Nat /\ FirstRound <= i.t /\ i.t <= n /\ i.k \in {"v", "p"}
BY HistoryAssumption DEF Items

LEMMA ItemsGrow ==
    ASSUME NEW m \in Nat, NEW n \in Nat, m <= n
    PROVE  Items(m) \subseteq Items(n)
<1>1. FirstRound .. m \subseteq FirstRound .. n
  BY HistoryAssumption
<1> QED
  BY <1>1 DEF Items

\* The times of a batch are finitely many.
LEMMA BatchTimes ==
    ASSUME NEW n \in Nat, NEW S \in SUBSET Items(n)
    PROVE  /\ Times(S) \in SUBSET (0 .. n) /\ IsFiniteSet(Times(S)) /\ Cardinality(Times(S)) \in Nat
           /\ S # {} => /\ FirstTime(S) \in Times(S)
                        /\ \E i \in S : i.t = FirstTime(S)
                        /\ \A i \in S : FirstTime(S) <= i.t
<1>1. Times(S) \in SUBSET (0 .. n)
  BY ItemFacts DEF Times
<1>2. IsFiniteSet(0 .. n)
  BY FS_Interval
<1>3. IsFiniteSet(Times(S)) /\ Cardinality(Times(S)) \in Nat
  BY <1>1, <1>2, FS_Subset, FS_CardinalityType
<1>4. ASSUME S # {}
      PROVE  /\ FirstTime(S) \in Times(S)
             /\ \E i \in S : i.t = FirstTime(S)
             /\ \A i \in S : FirstTime(S) <= i.t
  <2>1. Times(S) # {} /\ Times(S) \in SUBSET Nat
    BY <1>1, <1>4 DEF Times
  <2>2. FirstTime(S) \in Times(S) /\ \A y \in Times(S) : FirstTime(S) <= y
    BY <2>1, MinOf DEF FirstTime
  <2> QED
    BY <2>2 DEF Times
<1> QED
  BY <1>1, <1>3, <1>4

\* Ranks follow the times.
LEMMA RankOrder ==
    ASSUME NEW n \in Nat, NEW S \in SUBSET Items(n), NEW i \in S, NEW j \in S
    PROVE  /\ Rank(i, S) \in 1 .. Cardinality(Times(S))
           /\ i.t < j.t => Rank(i, S) < Rank(j, S)
           /\ Rank(i, S) < Rank(j, S) => i.t < j.t
           /\ Rank(i, S) = Rank(j, S) => i.t = j.t
<1> DEFINE T == Times(S)
           B(t) == {u \in T : u < t}
<1>1. T \in SUBSET (0 .. n) /\ IsFiniteSet(T) /\ Cardinality(T) \in Nat
  BY BatchTimes
<1>2. \A x \in S : x.t \in T
  BY DEF Times
<1>3. \A x \in S : Rank(x, S) = Cardinality(B(x.t)) + 1
  BY DEF Rank
<1> HIDE DEF T
<1>13. \A t \in T : t \in Nat
  BY <1>1
<1>4. ASSUME NEW t \in T
      PROVE  /\ IsFiniteSet(B(t)) /\ Cardinality(B(t)) \in Nat
             /\ Cardinality(B(t)) < Cardinality(T)
  <2>1. B(t) \in SUBSET T
    OBVIOUS
  <2>2. t \notin B(t)
    BY <1>1
  <2>3. IsFiniteSet(B(t)) /\ Cardinality(B(t)) \in Nat /\ Cardinality(B(t)) <= Cardinality(T)
        /\ Cardinality(B(t)) # Cardinality(T)
    BY <1>1, <2>1, <2>2, FS_Subset, FS_CardinalityType
  <2> QED
    BY <2>3, <1>1
<1>5. ASSUME NEW s \in T, NEW t \in T, s < t
      PROVE  Cardinality(B(s)) < Cardinality(B(t))
  <2>1. B(s) \in SUBSET B(t)
    <3>1. ASSUME NEW u \in T, u < s PROVE u < t
      BY <1>13, <1>5, <3>1
    <3> QED
      BY <3>1
  <2>2. s \in B(t) /\ s \notin B(s)
    BY <1>13, <1>5
  <2>3. /\ Cardinality(B(s)) \in Nat /\ Cardinality(B(t)) \in Nat
        /\ Cardinality(B(s)) <= Cardinality(B(t)) /\ Cardinality(B(s)) # Cardinality(B(t))
    BY <1>4, <2>1, <2>2, FS_Subset
  <2> QED
    BY <2>3
<1> HIDE DEF B
<1>6. i.t \in T /\ j.t \in T /\ i.t \in Nat /\ j.t \in Nat
  BY <1>13, <1>2
<1>7. /\ Rank(i, S) = Cardinality(B(i.t)) + 1
      /\ Rank(j, S) = Cardinality(B(j.t)) + 1
  BY <1>3
<1>8. Cardinality(B(i.t)) \in Nat /\ Cardinality(B(j.t)) \in Nat /\ Cardinality(B(i.t)) < Cardinality(T)
  BY <1>4, <1>6
<1>9. i.t < j.t => Cardinality(B(i.t)) < Cardinality(B(j.t))
  BY <1>5, <1>6
<1>10. j.t < i.t => Cardinality(B(j.t)) < Cardinality(B(i.t))
  BY <1>5, <1>6
<1>11. Rank(i, S) \in 1 .. Cardinality(T)
  BY <1>1, <1>7, <1>8
<1>12. /\ i.t < j.t => Rank(i, S) < Rank(j, S)
       /\ Rank(i, S) < Rank(j, S) => i.t < j.t
       /\ Rank(i, S) = Rank(j, S) => i.t = j.t
  BY <1>6, <1>7, <1>8, <1>9, <1>10
<1> QED
  BY <1>11, <1>12 DEF T

\* Each rank is taken.
LEMMA RanksTaken ==
    ASSUME NEW n \in Nat, NEW S \in SUBSET Items(n), NEW k \in 1 .. Cardinality(Times(S))
    PROVE  \E i \in S : Rank(i, S) = k
<1> DEFINE T == Times(S)
           C == Cardinality(T)
           r == [t \in T |-> Cardinality({u \in T : u < t}) + 1]
<1>1. T \in SUBSET (0 .. n) /\ IsFiniteSet(T) /\ C \in Nat
  BY BatchTimes
<1>2. \A t \in T : \E i \in S : i.t = t
  BY DEF Times
<1>3. \A i \in S : i.t \in T /\ r[i.t] = Rank(i, S)
  BY DEF Rank, Times
<1>4. r \in [T -> 1 .. C]
  <2>1. ASSUME NEW t \in T PROVE r[t] \in 1 .. C
    <3>1. PICK i \in S : i.t = t
      BY <1>2
    <3>2. Rank(i, S) \in 1 .. C
      BY RankOrder
    <3> QED
      BY <3>1, <3>2, <1>3
  <2> QED
    BY <2>1
<1>5. ASSUME NEW s \in T, NEW t \in T, r[s] = r[t] PROVE s = t
  <2>1. PICK i \in S, j \in S : i.t = s /\ j.t = t
    BY <1>2
  <2>2. Rank(i, S) = Rank(j, S)
    BY <2>1, <1>3, <1>5
  <2> QED
    BY <2>1, <2>2, RankOrder
<1>6. IsFiniteSet(1 .. C) /\ Cardinality(1 .. C) = C
  BY <1>1, FS_Interval
<1>7. r \in Injection(T, 1 .. C)
  BY <1>4, <1>5 DEF Injection, IsInjective
<1>8. r \in Surjection(T, 1 .. C)
  BY <1>1, <1>6, <1>7, FS_Injection
<1>9. PICK t \in T : r[t] = k
  BY <1>8 DEF Surjection
<1> QED
  BY <1>2, <1>3, <1>9

\* The lines of a batch: each item in the line of its rank, no line empty.
LEMMA BatchLines ==
    ASSUME NEW n \in Nat, NEW S \in SUBSET Items(n)
    PROVE  /\ AsLines(S) \in Seq(SUBSET S) /\ Len(AsLines(S)) = Cardinality(Times(S))
           /\ Len(AsLines(S)) \in Nat
           /\ \A i \in S : /\ Rank(i, S) \in DOMAIN AsLines(S)
                           /\ i \in AsLines(S)[Rank(i, S)]
           /\ \A m \in DOMAIN AsLines(S) : /\ AsLines(S)[m] # Torn
                                           /\ \A i \in AsLines(S)[m] : i \in S /\ Rank(i, S) = m
<1> DEFINE C == Cardinality(Times(S))
           Line(m) == {i \in S : Rank(i, S) = m}
<1>1. C \in Nat
  BY BatchTimes
<1>2. AsLines(S) = [m \in 1 .. C |-> Line(m)]
  BY DEF AsLines
<1>3. \A m \in 1 .. C : Line(m) \in SUBSET S /\ Line(m) # {}
  BY RanksTaken
<1>4. \A i \in S : Rank(i, S) \in 1 .. C
  BY RankOrder
<1>5. AsLines(S) \in Seq(SUBSET S) /\ Len(AsLines(S)) = C /\ DOMAIN AsLines(S) = 1 .. C
  BY <1>1, <1>2, <1>3
<1> QED
  BY <1>1, <1>2, <1>3, <1>4, <1>5 DEF Torn

\* new holds the items of old, in the same places, and behind them what is new: all
\* that an append may do to a file.
Extends(new, old) ==
    /\ \A i \in DOMAIN old : old[i] # Torn => i \in DOMAIN new /\ new[i] = old[i]
    /\ \A j \in DOMAIN new : \/ j \in DOMAIN old /\ new[j] = old[j]
                             \/ \A i \in DOMAIN old : old[i] # Torn => i < j

LEMMA ExtendsSelf == ASSUME NEW old PROVE Extends(old, old)
BY DEF Extends

LEMMA ExtendsTransitive ==
    ASSUME NEW a, NEW b, NEW c, Extends(b, a), Extends(c, b)
    PROVE  Extends(c, a)
<1>1. ASSUME NEW i \in DOMAIN a, a[i] # Torn PROVE i \in DOMAIN c /\ c[i] = a[i]
  BY <1>1 DEF Extends
<1>2. ASSUME NEW j \in DOMAIN c
      PROVE  \/ j \in DOMAIN a /\ c[j] = a[j]
             \/ \A i \in DOMAIN a : a[i] # Torn => i < j
  <2>1. CASE j \in DOMAIN b /\ c[j] = b[j]
    <3>1. \/ j \in DOMAIN a /\ b[j] = a[j]
          \/ \A i \in DOMAIN a : a[i] # Torn => i < j
      BY <2>1 DEF Extends
    <3> QED
      BY <2>1, <3>1
  <2>2. CASE \A i \in DOMAIN b : b[i] # Torn => i < j
    <3>1. ASSUME NEW i \in DOMAIN a, a[i] # Torn PROVE i < j
      <4>1. i \in DOMAIN b /\ b[i] = a[i]
        BY <3>1 DEF Extends
      <4> QED
        BY <2>2, <3>1, <4>1
    <3> QED
      BY <3>1
  <2>3. (j \in DOMAIN b /\ c[j] = b[j]) \/ \A i \in DOMAIN b : b[i] # Torn => i < j
    BY DEF Extends
  <2> QED
    BY <2>1, <2>2, <2>3
<1> QED
  BY <1>1, <1>2 DEF Extends

LEMMA ExtendsHolds ==
    ASSUME NEW a, NEW b, Extends(b, a)
    PROVE  Held(a) \subseteq Held(b)
<1>1. ASSUME NEW i \in DOMAIN a, NEW x \in a[i] PROVE x \in Held(b)
  <2>1. a[i] # Torn
    BY DEF Torn
  <2> QED
    BY <2>1 DEF Extends, Held
<1> QED
  BY <1>1 DEF Held

LEMMA HeldIn ==
    ASSUME NEW U, NEW lines \in Seq(SUBSET U)
    PROVE  /\ Held(lines) \subseteq U /\ Held(lines) = UNION ToSet(lines)
           /\ DOMAIN lines = 1 .. Len(lines) /\ Len(lines) \in Nat
           /\ \A n \in DOMAIN lines : lines[n] \subseteq Held(lines)
BY DEF Held, ToSet

LEMMA SeqWiden ==
    ASSUME NEW U, NEW V, U \subseteq V, NEW lines \in Seq(SUBSET U)
    PROVE  lines \in Seq(SUBSET V)
<1>1. lines \in [1 .. Len(lines) -> SUBSET U] /\ Len(lines) \in Nat
  OBVIOUS
<1>2. SUBSET U \subseteq SUBSET V
  OBVIOUS
<1>3. lines \in [1 .. Len(lines) -> SUBSET V]
  BY <1>1, <1>2
<1> QED
  BY <1>1, <1>3

\* What Joined makes of a file and the lines appended to it.
LEMMA JoinedLines ==
    ASSUME NEW U, NEW old \in Seq(SUBSET U), NEW new \in Seq(SUBSET U)
    PROVE  /\ Joined(old, new) \in Seq(SUBSET U)
           /\ Extends(Joined(old, new), old)
           /\ Held(Joined(old, new)) \subseteq Held(old) \cup Held(new)
           /\ old = <<>> \/ Last(old) # Torn => Joined(old, new) = old \o new
           /\ new # <<>> /\ (\A m \in DOMAIN new : new[m] # Torn) =>
                 old = <<>> \/ Last(old) # Torn \/ Joined(old, new) # old
<1> DEFINE J == Joined(old, new)
           n == Len(old)
           k == Len(new)
<1>1. n \in Nat /\ k \in Nat /\ DOMAIN old = 1 .. n /\ DOMAIN new = 1 .. k
  OBVIOUS
<1>2. CASE J = old \o new /\ (old = <<>> \/ new = <<>> \/ Last(old) # Torn)
  <2>1. J \in Seq(SUBSET U) /\ Len(J) = n + k /\ DOMAIN J = 1 .. (n + k)
    BY <1>2
  <2>2. \A i \in 1 .. n : J[i] = old[i]
    BY <1>2
  <2>3. \A i \in (n + 1) .. (n + k) : J[i] = new[i - n]
    BY <1>2
  <2>4. Extends(J, old)
    BY <1>1, <2>1, <2>2 DEF Extends
  <2>5. Held(J) \subseteq Held(old) \cup Held(new)
    <3>1. ASSUME NEW i \in 1 .. (n + k) PROVE J[i] \subseteq Held(old) \cup Held(new)
      <4>1. CASE i \in 1 .. n
        BY <1>1, <2>2, <4>1 DEF Held
      <4>2. CASE i \in (n + 1) .. (n + k)
        <5>1. i - n \in 1 .. k
          BY <1>1, <4>2
        <5> QED
          BY <1>1, <2>3, <4>2, <5>1 DEF Held
      <4> QED
        BY <1>1, <4>1, <4>2
    <3> QED
      BY <2>1, <3>1 DEF Held
  <2>6. new = <<>> /\ old # <<>> => new = <<>>
    OBVIOUS
  <2> QED
    BY <1>2, <2>1, <2>4, <2>5
<1>3. CASE /\ old # <<>> /\ new # <<>> /\ Last(old) = Torn
           /\ J = IF new = <<Torn>> THEN old ELSE Front(old) \o Tail(new)
  <2>1. n >= 1 /\ k >= 1 /\ old[n] = Torn
    BY <1>3, <1>1 DEF Last
  <2>2. CASE new = <<Torn>>
    <3>1. J = old
      BY <1>3, <2>2
    <3>2. \E m \in DOMAIN new : new[m] = Torn
      BY <2>2
    <3> QED
      BY <1>3, <3>1, <3>2, ExtendsSelf
  <2>3. CASE new # <<Torn>>
    <3> DEFINE F == Front(old)
               T == Tail(new)
    <3>1. J = F \o T
      BY <1>3, <2>3
    <3>2. F \in Seq(SUBSET U) /\ Len(F) = n - 1 /\ \A i \in 1 .. (n - 1) : F[i] = old[i]
      BY <1>1, <2>1 DEF Front
    <3>3. T \in Seq(SUBSET U) /\ Len(T) = k - 1 /\ \A i \in 1 .. (k - 1) : T[i] = new[i + 1]
      BY <1>1, <1>3, <2>1
    <3> HIDE DEF F, T, J
    <3>9. J \in Seq(SUBSET U) /\ Len(J) = (n - 1) + (k - 1)
      BY <1>1, <2>1, <3>1, <3>2, <3>3
    <3>10. ASSUME NEW i \in 1 .. (n - 1) PROVE J[i] = F[i]
      BY <1>1, <2>1, <3>1, <3>2, <3>3
    <3>11. ASSUME NEW i \in n .. ((n - 1) + (k - 1)) PROVE J[i] = T[i - (n - 1)]
      BY <1>1, <2>1, <3>1, <3>2, <3>3
    <3> HIDE DEF n, k
    <3>4. /\ J \in Seq(SUBSET U) /\ Len(J) = (n - 1) + (k - 1)
          /\ \A i \in 1 .. (n - 1) : J[i] = F[i]
          /\ \A i \in n .. ((n - 1) + (k - 1)) : J[i] = T[i - (n - 1)]
      BY <3>9, <3>10, <3>11
    <3>5. DOMAIN J = 1 .. ((n - 1) + (k - 1))
      BY <3>4
    <3>6. Extends(J, old)
      <4>1. ASSUME NEW i \in DOMAIN old, old[i] # Torn PROVE i \in 1 .. (n - 1)
        BY <1>1, <2>1, <4>1
      <4>2. ASSUME NEW i \in 1 .. (n - 1) PROVE i \in DOMAIN J /\ J[i] = old[i]
        BY <1>1, <2>1, <3>2, <3>4, <3>5
      <4>3. ASSUME NEW j \in DOMAIN J, j \notin 1 .. (n - 1), NEW i \in 1 .. (n - 1) PROVE i < j
        BY <1>1, <2>1, <3>5, <4>3
      <4>4. 1 .. (n - 1) \subseteq DOMAIN old
        BY <1>1
      <4> QED
        BY <4>1, <4>2, <4>3, <4>4 DEF Extends
    <3>7. Held(J) \subseteq Held(old) \cup Held(new)
      <4>1. ASSUME NEW i \in DOMAIN J PROVE J[i] \subseteq Held(old) \cup Held(new)
        <5>1. CASE i \in 1 .. (n - 1)
          <6>1. i \in DOMAIN old /\ J[i] = old[i]
            BY <1>1, <3>2, <3>4, <5>1
          <6> QED
            BY <6>1 DEF Held
        <5>2. CASE i \in n .. ((n - 1) + (k - 1))
          <6>1. i - (n - 1) \in 1 .. (k - 1) /\ J[i] = T[i - (n - 1)]
            BY <1>1, <2>1, <3>4, <5>2
          <6>2. J[i] = new[i - (n - 1) + 1] /\ i - (n - 1) + 1 \in DOMAIN new
            BY <1>1, <2>1, <3>3, <6>1
          <6> QED
            BY <6>2 DEF Held
        <5> QED
          BY <1>1, <2>1, <3>5, <5>1, <5>2
      <4> QED
        BY <4>1 DEF Held
    <3>8. ASSUME J = old PROVE \E m \in DOMAIN new : new[m] = Torn
      <4>1. n = (n - 1) + (k - 1)
        BY <3>4, <3>8 DEF n
      <4>2. k = 2
        BY <1>1, <2>1, <4>1
      <4>3. J[n] = T[1] /\ T[1] = new[2]
        BY <1>1, <2>1, <3>3, <3>4, <4>1, <4>2
      <4> QED
        BY <1>1, <2>1, <3>8, <4>2, <4>3
    <3> QED
      BY <1>3, <2>1, <3>4, <3>6, <3>7, <3>8 DEF J, n
  <2> QED
    BY <2>2, <2>3
<1>4. \/ J = old \o new /\ (old = <<>> \/ new = <<>> \/ Last(old) # Torn)
      \/ /\ old # <<>> /\ new # <<>> /\ Last(old) = Torn
         /\ J = IF new = <<Torn>> THEN old ELSE Front(old) \o Tail(new)
  BY DEF Joined
<1>5. ASSUME new = <<>> PROVE J = old \o new
  BY <1>5 DEF Joined
<1> QED
  BY <1>2, <1>3, <1>4

-----------------------------------------------------------------------------
(* What Load makes of some days *)

\* The lines of some days.
Lined(L, n) ==
    /\ DOMAIN L \subseteq Nat
    /\ \A d \in DOMAIN L : L[d] \in Seq(SUBSET Items(n))

LEMMA LinedFacts ==
    ASSUME NEW n \in Nat, NEW L, Lined(L, n), NEW d \in DOMAIN L
    PROVE  /\ d \in Nat /\ Held(L[d]) \subseteq Items(n)
           /\ \A i \in DOMAIN L[d] : i \in Nat /\ L[d][i] \subseteq Items(n)
<1>1. L[d] \in Seq(SUBSET Items(n)) /\ d \in Nat
  BY DEF Lined
<1>2. /\ Held(L[d]) \subseteq Items(n) /\ DOMAIN L[d] = 1 .. Len(L[d]) /\ Len(L[d]) \in Nat
      /\ \A i \in DOMAIN L[d] : L[d][i] \subseteq Held(L[d])
  BY <1>1, HeldIn
<1>3. ASSUME NEW i \in DOMAIN L[d] PROVE i \in Nat /\ L[d][i] \subseteq Items(n)
  BY <1>2
<1> QED
  BY <1>1, <1>2, <1>3

LEMMA LoadedPlace ==
    ASSUME NEW L, NEW x
    PROVE  x \in LoadedFrom(L) <=>
              \E d \in DOMAIN L : \E i \in DOMAIN L[d] :
                  x \in L[d][i] /\ (x.k = "p" \/ ~Late(L, d, i, x))
BY DEF LoadedFrom

LEMMA LoadedIsHeld ==
    ASSUME NEW L, NEW x \in LoadedFrom(L)
    PROVE  \E d \in DOMAIN L : x \in Held(L[d])
BY LoadedPlace DEF Held

\* The files grow, and no point that is new comes to lie before a newer one of its
\* series: what was loaded is still loaded, unless its day has gone.
LEMMA GrowthKeepsLoaded ==
    ASSUME NEW n \in Nat, NEW L, NEW M, Lined(L, n), Lined(M, n),
           \A e \in DOMAIN M : \/ e \notin DOMAIN L /\ M[e] = <<>>
                               \/ e \in DOMAIN L /\ Extends(M[e], L[e]),
           \A e \in DOMAIN M : \A y \in Points(Held(M[e])) :
               \/ e \in DOMAIN L /\ y \in Held(L[e])
               \/ \A d \in DOMAIN L : d > e =>
                     \A z \in Points(Held(L[d])) : z.id = y.id => Slot(z.t) > Slot(y.t),
           NEW x \in LoadedFrom(L)
    PROVE  x \in LoadedFrom(M) \/ \E d \in DOMAIN L \ DOMAIN M : x \in Held(L[d])
<1>0. PICK d \in DOMAIN L : \E i \in DOMAIN L[d] : x \in L[d][i] /\ (x.k = "p" \/ ~Late(L, d, i, x))
  BY LoadedPlace
<1>1. PICK i \in DOMAIN L[d] : x \in L[d][i] /\ (x.k = "p" \/ ~Late(L, d, i, x))
  BY <1>0
<1>2. x \in Held(L[d]) /\ L[d][i] # Torn
  BY <1>1 DEF Held, Torn
<1>3. SUFFICES ASSUME d \in DOMAIN M PROVE x \in LoadedFrom(M)
  BY <1>2
<1>4. Extends(M[d], L[d])
  BY <1>3
<1>5. i \in DOMAIN M[d] /\ M[d][i] = L[d][i]
  BY <1>2, <1>4 DEF Extends
<1>6. SUFFICES ASSUME x.k # "p", Late(M, d, i, x) PROVE FALSE
  BY <1>1, <1>3, <1>5, LoadedPlace
<1>7. x \in Items(n) /\ d \in Nat
  BY <1>2, LinedFacts
<1>8. x \in Points(Held(L[d])) /\ Slot(x.t) \in Nat
  BY <1>2, <1>6, <1>7, ItemFacts, TimesGrow DEF Points
<1>13. PICK e \in DOMAIN M : \E j \in DOMAIN M[e] :
          /\ e < d \/ (e = d /\ j < i)
          /\ \E y \in Points(M[e][j]) : y.id = x.id /\ Slot(y.t) >= Slot(x.t)
  BY <1>6 DEF Late
<1>9. PICK j \in DOMAIN M[e] :
          /\ e < d \/ (e = d /\ j < i)
          /\ \E y \in Points(M[e][j]) : y.id = x.id /\ Slot(y.t) >= Slot(x.t)
  BY <1>13
<1>10. PICK y \in Points(M[e][j]) : y.id = x.id /\ Slot(y.t) >= Slot(x.t)
  BY <1>9
<1>11. CASE e = d /\ j < i
  <2>1. i \in Nat /\ j \in Nat
    BY <1>3, <1>5, <1>9, <1>11, LinedFacts
  <2>2. ~ (i < j)
    BY <2>1, <1>11
  <2>3. j \in DOMAIN L[d] /\ M[d][j] = L[d][j]
    BY <1>2, <1>4, <1>9, <1>11, <2>2 DEF Extends
  <2>4. Late(L, d, i, x)
    BY <1>10, <1>11, <2>3 DEF Late
  <2> QED
    BY <1>1, <1>6, <2>4
<1>12. CASE e < d
  <2>1. y \in Points(Held(M[e]))
    BY <1>9, <1>10 DEF Held, Points
  <2>2. y \in Items(n) /\ e \in Nat
    BY <2>1, <1>9, LinedFacts DEF Points
  <2>3. Slot(y.t) \in Nat
    BY <2>2, ItemFacts, TimesGrow
  <2>4. CASE e \in DOMAIN L /\ y \in Held(L[e])
    <3>1. PICK m \in DOMAIN L[e] : y \in L[e][m]
      BY <2>4 DEF Held
    <3>2. y \in Points(L[e][m])
      BY <3>1, <1>10 DEF Points
    <3>3. Late(L, d, i, x)
      BY <1>10, <1>12, <2>4, <3>1, <3>2 DEF Late
    <3> QED
      BY <1>1, <1>6, <3>3
  <2>5. CASE \A c \in DOMAIN L : c > e =>
                \A z \in Points(Held(L[c])) : z.id = y.id => Slot(z.t) > Slot(y.t)
    <3>1. d > e
      BY <1>7, <1>12, <2>2
    <3>2. Slot(x.t) > Slot(y.t)
      BY <1>8, <1>10, <2>5, <3>1
    <3> QED
      BY <3>2, <1>8, <1>10, <2>3
  <2> QED
    BY <1>9, <2>1, <2>4, <2>5
<1> QED
  BY <1>9, <1>11, <1>12

\* One day loses what is behind some line: what is still there is still loaded.
LEMMA ShrinkingKeepsLoaded ==
    ASSUME NEW n \in Nat, NEW L, NEW M, Lined(L, n), Lined(M, n), DOMAIN M = DOMAIN L,
           NEW c \in DOMAIN L, \A e \in DOMAIN L : e # c => M[e] = L[e],
           Extends(L[c], M[c]), NEW x \in LoadedFrom(L), x \in Held(M[c])
    PROVE  x \in LoadedFrom(M)
<1>0. PICK d \in DOMAIN L : \E i \in DOMAIN L[d] : x \in L[d][i] /\ (x.k = "p" \/ ~Late(L, d, i, x))
  BY LoadedPlace
<1>1. PICK i \in DOMAIN L[d] : x \in L[d][i] /\ (x.k = "p" \/ ~Late(L, d, i, x))
  BY <1>0
<1>2. ASSUME NEW e \in DOMAIN M, NEW j \in DOMAIN M[e], M[e][j] # Torn
      PROVE  j \in DOMAIN L[e] /\ M[e][j] = L[e][j]
  BY <1>2 DEF Extends
<1>3. ASSUME NEW e \in DOMAIN M, NEW j \in DOMAIN M[e], Late(M, e, j, x)
      PROVE  Late(L, e, j, x)
  <2>4. PICK f \in DOMAIN M : \E h \in DOMAIN M[f] :
            /\ f < e \/ (f = e /\ h < j)
            /\ \E y \in Points(M[f][h]) : y.id = x.id /\ Slot(y.t) >= Slot(x.t)
    BY <1>3 DEF Late
  <2>1. PICK h \in DOMAIN M[f] :
            /\ f < e \/ (f = e /\ h < j)
            /\ \E y \in Points(M[f][h]) : y.id = x.id /\ Slot(y.t) >= Slot(x.t)
    BY <2>4
  <2>2. M[f][h] # Torn
    BY <2>1 DEF Points, Torn
  <2>3. f \in DOMAIN L /\ h \in DOMAIN L[f] /\ M[f][h] = L[f][h]
    BY <1>2, <2>2
  <2> QED
    BY <2>1, <2>3 DEF Late
<1>4. CASE i \in DOMAIN M[d] /\ M[d][i] = L[d][i]
  BY <1>1, <1>3, <1>4, LoadedPlace
<1>5. CASE ~ (i \in DOMAIN M[d] /\ M[d][i] = L[d][i])
  <2>1. d = c
    BY <1>5
  <2>2. \A h \in DOMAIN M[c] : M[c][h] # Torn => h < i
    BY <1>5, <2>1 DEF Extends
  <2>3. PICK j \in DOMAIN M[c] : x \in M[c][j]
    BY DEF Held
  <2>4. M[c][j] # Torn
    BY <2>3 DEF Torn
  <2>5. j < i /\ j \in DOMAIN L[c] /\ M[c][j] = L[c][j]
    BY <1>2, <2>2, <2>4
  <2>6. CASE x.k = "p"
    BY <2>3, <2>6, LoadedPlace
  <2>7. CASE x.k # "p"
    <3>1. x \in Items(n)
      BY <1>1, LinedFacts
    <3>2. x \in Points(L[c][j]) /\ Slot(x.t) \in Nat
      BY <2>3, <2>5, <2>7, <3>1, ItemFacts, TimesGrow DEF Points
    <3>3. Slot(x.t) >= Slot(x.t)
      BY <3>2
    <3>4. Late(L, d, i, x)
      BY <2>1, <2>5, <3>2, <3>3 DEF Late
    <3> QED
      BY <1>1, <2>7, <3>4
  <2> QED
    BY <2>6, <2>7
<1> QED
  BY <1>4, <1>5

\* Of the points of a series that the files hold, Load returns one that is of the same
\* slot as any of them, or of a later one.
LEMMA LoadedCovers ==
    ASSUME NEW n \in Nat, NEW L, Lined(L, n), NEW d \in DOMAIN L, NEW y \in Points(Held(L[d]))
    PROVE  \E z \in Points(LoadedFrom(L)) : z.id = y.id /\ Slot(z.t) >= Slot(y.t)
<1> DEFINE Has(S) == \E w \in Points(S) : w.id = y.id /\ Slot(w.t) >= Slot(y.t)
           D == {e \in DOMAIN L : \E i \in DOMAIN L[e] : Has(L[e][i])}
<1>1. Slot(y.t) \in Nat
  <2>1. y \in Items(n)
    BY LinedFacts DEF Points
  <2> QED
    BY <2>1, ItemFacts, TimesGrow
<1>2. d \in D
  <2>1. PICK i \in DOMAIN L[d] : y \in L[d][i]
    BY DEF Held, Points
  <2>2. y \in Points(L[d][i]) /\ Slot(y.t) >= Slot(y.t)
    BY <2>1, <1>1 DEF Points
  <2> QED
    BY <2>2
<1>3. D \in SUBSET Nat /\ D # {}
  BY <1>2 DEF Lined
<1>4. PICK e \in D : \A f \in D : e <= f
  BY <1>3, LeastNat
<1> DEFINE J == {i \in DOMAIN L[e] : Has(L[e][i])}
<1>5. J \in SUBSET Nat /\ J # {}
  BY <1>4, LinedFacts
<1>6. PICK j \in J : \A h \in J : j <= h
  BY <1>5, LeastNat
<1>7. PICK w \in Points(L[e][j]) : w.id = y.id /\ Slot(w.t) >= Slot(y.t)
  BY <1>6
<1>8. w \in Items(n) /\ Slot(w.t) \in Nat
  <2>1. w \in Items(n)
    BY <1>4, <1>6, <1>7, LinedFacts DEF Points
  <2> QED
    BY <2>1, ItemFacts, TimesGrow
<1>9. ~Late(L, e, j, w)
  <2>1. SUFFICES ASSUME NEW f \in DOMAIN L, NEW h \in DOMAIN L[f], f < e \/ (f = e /\ h < j),
                        NEW v \in Points(L[f][h]), v.id = w.id, Slot(v.t) >= Slot(w.t)
                 PROVE  FALSE
    BY DEF Late
  <2>2. v \in Items(n)
    BY LinedFacts DEF Points
  <2>3. Slot(v.t) \in Nat
    BY <2>2, ItemFacts, TimesGrow
  <2>4. Slot(v.t) >= Slot(y.t)
    BY <1>1, <1>7, <1>8, <2>1, <2>3
  <2>5. Has(L[f][h])
    BY <1>7, <2>1, <2>4
  <2>6. f \in D /\ e \in Nat /\ f \in Nat
    BY <1>3, <1>4, <2>5
  <2>7. f = e
    BY <1>4, <2>1, <2>6
  <2>8. h \in J /\ h \in Nat /\ j \in Nat
    BY <1>5, <1>6, <2>5, <2>7
  <2> QED
    BY <1>6, <2>1, <2>7, <2>8, <2>6
<1>10. w \in LoadedFrom(L) /\ w.k = "v"
  BY <1>4, <1>6, <1>7, <1>9, LoadedPlace DEF Points
<1> QED
  BY <1>7, <1>10 DEF Points

-----------------------------------------------------------------------------
(* The inductive invariant: types *)

Files(f, n) ==
    /\ DOMAIN f \subseteq 1 .. Day(n)
    /\ \A d \in DOMAIN f : f[d] \in Seq(SUBSET Items(n))

Writers(n) ==
    [at : {"idle", "append", "peaks"}, points : SUBSET Points(Items(n)),
     peaks : SUBSET Peaks(Items(n - 1)), t : 0 .. n, ok : BOOLEAN]

Jobs(n) ==
    [today : 0 .. Day(n), todo : SUBSET (1 .. Day(n)), at : {"none", "look", "rename", "remove"}]

Typing ==
    /\ now \in Nat /\ FirstRound <= now
    /\ phase \in {"off", "loading", "on", "closing", "closed"} /\ ticked \in BOOLEAN
    /\ bucket \in [Series -> 0 .. now]
    /\ open \in SUBSET Series /\ \A m \in open : FirstRound <= bucket[m]
    /\ Points(pend) \subseteq Items(now) /\ Peaks(pend) \subseteq Items(now - 1)
    /\ pend = Points(pend) \cup Peaks(pend)
    /\ slot \in 0 .. Slot(now)
    /\ thread \in [Threads -> Writers(now)]
    /\ file \in {Closed} \cup 1 .. Day(now)
    /\ Files(plain, now) /\ Files(gz, now) /\ Files(tmp, now)
    /\ waiting \in SUBSET (0 .. Day(now)) /\ job \in Jobs(now)
    /\ faults \in 0 .. MaxFaults

\* What there can be at some time there can be later.
LEMMA TypesGrow ==
    ASSUME NEW m \in Nat, NEW n \in Nat, FirstRound <= m, m <= n
    PROVE  /\ Items(m) \subseteq Items(n) /\ Items(m - 1) \subseteq Items(n - 1)
           /\ Items(m - 1) \subseteq Items(m)
           /\ 0 .. m \subseteq 0 .. n
           /\ 0 .. Slot(m) \subseteq 0 .. Slot(n) /\ 0 .. Day(m) \subseteq 0 .. Day(n)
           /\ 1 .. Day(m) \subseteq 1 .. Day(n)
           /\ Writers(m) \subseteq Writers(n) /\ Jobs(m) \subseteq Jobs(n)
           /\ \A f : Files(f, m) => Files(f, n)
<1>1. m - 1 \in Nat /\ n - 1 \in Nat /\ m - 1 <= n - 1 /\ m - 1 <= m
  BY FirstDays
<1>2. Items(m) \subseteq Items(n) /\ Items(m - 1) \subseteq Items(n - 1) /\ Items(m - 1) \subseteq Items(m)
  BY <1>1, ItemsGrow
<1>3. Slot(m) \in Nat /\ Slot(n) \in Nat /\ Slot(m) <= Slot(n)
      /\ Day(m) \in Nat /\ Day(n) \in Nat /\ Day(m) <= Day(n)
  BY TimesGrow
<1>4. /\ 0 .. m \subseteq 0 .. n
      /\ 0 .. Slot(m) \subseteq 0 .. Slot(n) /\ 0 .. Day(m) \subseteq 0 .. Day(n)
      /\ 1 .. Day(m) \subseteq 1 .. Day(n)
  BY <1>3
<1>5. Writers(m) \subseteq Writers(n)
  <2>1. Points(Items(m)) \subseteq Points(Items(n)) /\ Peaks(Items(m - 1)) \subseteq Peaks(Items(n - 1))
    BY <1>2 DEF Points, Peaks
  <2>2. SUBSET Points(Items(m)) \subseteq SUBSET Points(Items(n))
        /\ SUBSET Peaks(Items(m - 1)) \subseteq SUBSET Peaks(Items(n - 1))
    BY <2>1
  <2>3. ASSUME NEW w \in Writers(m) PROVE w \in Writers(n)
    <3>1. w.t \in 0 .. n /\ w.points \in SUBSET Points(Items(n)) /\ w.peaks \in SUBSET Peaks(Items(n - 1))
      BY <2>2, <1>4 DEF Writers
    <3> QED
      BY <3>1 DEF Writers
  <2> QED
    BY <2>3
<1>6. Jobs(m) \subseteq Jobs(n)
  <2>1. SUBSET (1 .. Day(m)) \subseteq SUBSET (1 .. Day(n))
    BY <1>4
  <2>2. ASSUME NEW j \in Jobs(m) PROVE j \in Jobs(n)
    <3>1. j.today \in 0 .. Day(n) /\ j.todo \in SUBSET (1 .. Day(n))
      BY <1>4, <2>1 DEF Jobs
    <3> QED
      BY <3>1 DEF Jobs
  <2> QED
    BY <2>2
<1>7. ASSUME NEW f, Files(f, m) PROVE Files(f, n)
  <2>1. \A d \in DOMAIN f : f[d] \in Seq(SUBSET Items(n))
    BY <1>2, <1>7, SeqWiden DEF Files
  <2> QED
    BY <1>4, <1>7, <2>1 DEF Files
<1> QED
  BY <1>2, <1>4, <1>5, <1>6, <1>7

-----------------------------------------------------------------------------
(* What a write does to the files *)

Given(f, d) == IF d \in DOMAIN f THEN f[d] ELSE <<>>

\* The lines are appended to the file of day d.
Grown(lines, d) ==
    /\ Files(plain', now) /\ Files(gz', now)
    /\ DOMAIN gz' \subseteq DOMAIN gz
    /\ \A e \in DOMAIN gz' : gz'[e] = gz[e]
    /\ \A e \in DOMAIN gz : e >= Oldest(now) => e \in DOMAIN gz'
    /\ \A e \in DOMAIN plain' : e # d => e \in DOMAIN plain /\ plain'[e] = plain[e]
    /\ \A e \in DOMAIN plain : e >= Oldest(now) => e \in DOMAIN plain'
    /\ d \notin DOMAIN plain' => file = d /\ d \notin DOMAIN plain
    /\ d \in DOMAIN plain' => plain'[d] = Joined(Given(plain, d), lines)

LEMMA WriteGrows ==
    ASSUME Typing, NEW t \in Nat, FirstRound <= t, t <= now,
           NEW lines \in Seq(SUBSET Items(now)),
           plain' = Appended(Day(t), t, lines), gz' = Opened(Day(t), t).gz
    PROVE  Grown(lines, Day(t))
<1> DEFINE d == Day(t)
           F == Opened(d, t).plain
           G == Opened(d, t).gz
           X == Expired(t)
<1>1. /\ Files(plain, now) /\ Files(gz, now) /\ now \in Nat
      /\ Oldest(t) \in Int /\ Oldest(t) <= Oldest(now) /\ Oldest(now) \in Int
      /\ d \in Nat /\ Oldest(t) < d /\ 1 <= d /\ d <= Day(now) /\ Day(now) \in Nat
  BY TimesGrow, FirstDays DEF Typing
<1>2. \A x \in X : x < Oldest(t)
  BY DEF Expired
<1>3. \A x \in DOMAIN plain \cup DOMAIN gz : x \in Nat
  BY <1>1 DEF Files
<1>4. \A x \in DOMAIN plain \cup DOMAIN gz : x >= Oldest(now) => x \notin X
  <2>1. ASSUME NEW x \in DOMAIN plain \cup DOMAIN gz, x >= Oldest(now), x \in X PROVE FALSE
    <3>1. x \in Nat /\ x < Oldest(t)
      BY <1>2, <1>3, <2>1
    <3> QED
      BY <1>1, <2>1, <3>1
  <2> QED
    BY <2>1
<1>5. d \notin X
  BY <1>1, <1>2
<1> HIDE DEF X
<1>6. /\ DOMAIN G \subseteq DOMAIN gz
      /\ \A e \in DOMAIN G : G[e] = gz[e]
      /\ \A e \in DOMAIN gz : e >= Oldest(now) => e \in DOMAIN G
  <2>1. CASE file = d
    BY <2>1 DEF Opened
  <2>2. CASE file # d
    <3>1. G = [x \in DOMAIN gz \ X |-> gz[x]]
      BY <2>2 DEF Opened, X
    <3> QED
      BY <3>1, <1>4
  <2> QED
    BY <2>1, <2>2
<1>7. /\ \A e \in DOMAIN F : e # d => e \in DOMAIN plain /\ F[e] = plain[e]
      /\ \A e \in DOMAIN plain : e >= Oldest(now) => e \in DOMAIN F
      /\ d \notin DOMAIN F => file = d /\ d \notin DOMAIN plain
      /\ d \in DOMAIN F => F[d] = Given(plain, d)
  <2>1. CASE file = d
    BY <2>1 DEF Opened, Given
  <2>2. CASE file # d
    <3> DEFINE all == IF d \in DOMAIN plain THEN plain ELSE With(plain, d, <<>>)
    <3>1. F = [x \in DOMAIN all \ X |-> all[x]]
      BY <2>2 DEF Opened, X
    <3>2. /\ DOMAIN all = DOMAIN plain \cup {d}
          /\ \A e \in DOMAIN plain : all[e] = plain[e]
          /\ all[d] = Given(plain, d)
      BY DEF With, Given
    <3> HIDE DEF all, F
    <3>3. DOMAIN F = (DOMAIN plain \cup {d}) \ X /\ \A e \in DOMAIN F : F[e] = all[e]
      BY <3>1, <3>2
    <3> QED
      BY <3>2, <3>3, <1>4, <1>5
  <2> QED
    BY <2>1, <2>2
<1>8. plain' = IF d \in DOMAIN F THEN With(F, d, Joined(F[d], lines)) ELSE F
  BY DEF Appended
<1>9. gz' = G
  OBVIOUS
<1> HIDE DEF F, G
<1>10. /\ DOMAIN plain' = DOMAIN F
       /\ \A e \in DOMAIN F : e # d => plain'[e] = F[e]
       /\ d \in DOMAIN F => plain'[d] = Joined(F[d], lines)
  BY <1>8 DEF With
<1>11. Given(plain, d) \in Seq(SUBSET Items(now))
  BY <1>1 DEF Given, Files
<1>12. Joined(Given(plain, d), lines) \in Seq(SUBSET Items(now))
  BY <1>11, JoinedLines
<1>13. Files(gz', now)
  BY <1>1, <1>6, <1>9 DEF Files
<1>14. Files(plain', now)
  <2>1. ASSUME NEW e \in DOMAIN plain'
        PROVE  e \in 1 .. Day(now) /\ plain'[e] \in Seq(SUBSET Items(now))
    <3>1. CASE e = d
      BY <1>1, <1>7, <1>10, <1>12, <3>1
    <3>2. CASE e # d
      BY <1>1, <1>7, <1>10, <2>1, <3>2 DEF Files
    <3> QED
      BY <3>1, <3>2
  <2> QED
    BY <2>1 DEF Files
<1> HIDE DEF d
<1> QED
  BY <1>6, <1>7, <1>9, <1>10, <1>13, <1>14 DEF Grown, d

\* The lines of the days within the retention.
LEMMA LinesLined ==
    ASSUME Typing
    PROVE  /\ Lined(Lines, now) /\ DOMAIN Lines = Oldest(now) .. Day(now)
           /\ \A d \in DOMAIN Lines : d \in Nat /\ Lines[d] = Content(d) /\ Oldest(now) <= d /\ d <= Day(now)
           /\ \A d \in DOMAIN Lines : Content(d) \in Seq(SUBSET Items(now))
<1>1. now \in Nat /\ Oldest(now) \in Int /\ 1 <= Oldest(now) /\ Day(now) \in Nat
  BY TimesGrow, FirstDays DEF Typing
<1>2. DOMAIN Lines = Oldest(now) .. Day(now) /\ \A d \in DOMAIN Lines : Lines[d] = Content(d)
  BY DEF Lines
<1>3. \A d : Content(d) \in Seq(SUBSET Items(now))
  BY DEF Typing, Files, Content
<1>4. \A d \in Oldest(now) .. Day(now) : d \in Nat /\ Oldest(now) <= d /\ d <= Day(now)
  BY <1>1
<1> QED
  BY <1>2, <1>3, <1>4 DEF Lined

\* How the lines that Load reads change: each file is extended, by items of S if it
\* is the one of day d.
LinesGrow(S, d) ==
    /\ Lined(Lines', now) /\ DOMAIN Lines' = DOMAIN Lines
    /\ \A e \in DOMAIN Lines : /\ Extends(Lines'[e], Lines[e])
                               /\ Held(Lines'[e]) \subseteq Held(Lines[e]) \cup (IF e = d THEN S ELSE {})

LEMMA GrownLines ==
    ASSUME Typing, now' = now, NEW S \in SUBSET Items(now), NEW lines \in Seq(SUBSET S),
           NEW d, Grown(lines, d)
    PROVE  LinesGrow(S, d)
<1>1. DOMAIN Lines' = DOMAIN Lines /\ \A e \in DOMAIN Lines : Lines'[e] = Content(e)'
  BY DEF Lines
<1>2. \A e : Content(e)' \in Seq(SUBSET Items(now))
  BY DEF Grown, Files, Content
<1>3. Lined(Lines', now)
  BY <1>1, <1>2, LinesLined DEF Lined
<1>4. lines \in Seq(SUBSET Items(now)) /\ Held(lines) \subseteq S
  BY SeqWiden, HeldIn
<1>5. ASSUME NEW e \in DOMAIN Lines
      PROVE  /\ Extends(Content(e)', Content(e))
             /\ Held(Content(e)') \subseteq Held(Content(e)) \cup (IF e = d THEN S ELSE {})
  <2>1. e >= Oldest(now) /\ Content(e) \in Seq(SUBSET Items(now))
    BY LinesLined
  <2>2. CASE e \in DOMAIN gz
    <3>1. Content(e)' = Content(e)
      BY <2>1, <2>2 DEF Grown, Content
    <3> QED
      BY <3>1, ExtendsSelf
  <2>3. CASE e \notin DOMAIN gz /\ e # d
    <3>1. Content(e)' = Content(e)
      BY <2>1, <2>3 DEF Grown, Content
    <3> QED
      BY <3>1, ExtendsSelf
  <2>4. CASE e \notin DOMAIN gz /\ e = d /\ d \in DOMAIN plain'
    <3>1. Content(e)' = Joined(Content(e), lines)
      BY <2>1, <2>4 DEF Grown, Content, Given
    <3> QED
      <4>1. /\ Extends(Joined(Content(e), lines), Content(e))
            /\ Held(Joined(Content(e), lines)) \subseteq Held(Content(e)) \cup Held(lines)
        BY <1>4, <2>1, JoinedLines
      <4> QED
        BY <1>4, <2>4, <3>1, <4>1
  <2>5. CASE e \notin DOMAIN gz /\ e = d /\ d \notin DOMAIN plain'
    <3>1. Content(e)' = Content(e)
      BY <2>1, <2>5 DEF Grown, Content
    <3> QED
      BY <3>1, ExtendsSelf
  <2> QED
    BY <2>2, <2>3, <2>4, <2>5
<1> QED
  BY <1>1, <1>3, <1>5, LinesLined DEF LinesGrow

-----------------------------------------------------------------------------
(* The inductive invariant: what is on its way, and what is on the disk *)

\* The points that collectLoop has not written yet, and those that shutdown has not.
Coming == Points(pend) \cup (IF thread["loop"].at = "append" THEN thread["loop"].points ELSE {})
Left == IF thread["main"].at = "append" THEN thread["main"].points ELSE {}

\* The points that Load would read in the file of a day.
OnDisk(d) == Points(Held(Lines[d]))

\* Who is at work in which phase; what shutdown has taken is older than what comes.
Phases ==
    /\ phase \in {"off", "loading"} => pend = {} /\ \A x \in Threads : thread[x].at = "idle"
    /\ phase = "off" => job = NoJob /\ waiting = {} /\ file = Closed
    /\ \A x \in Threads : thread[x].at = "idle" => thread[x].points = {} /\ thread[x].peaks = {}
    /\ \A x \in Threads : thread[x].at # "idle" => thread[x].t = now
    /\ pend # {} => thread["loop"].at = "idle"
    /\ thread["main"].at # "idle" => phase = "closing"
    /\ phase \in {"closing", "closed"} =>
          /\ thread["main"].t <= now /\ now <= thread["main"].t + 1
          /\ \A i \in Points(pend) : i.t >= thread["main"].t
    /\ Left # {} \/ thread["main"].peaks # {} => \A j \in Coming : j.t >= thread["main"].t

\* What is unsaved is of one slot, and no more than a slot old; a batch has one point
\* of a series and a slot at most.
Unsaved ==
    /\ \A i \in Points(pend) : Slot(i.t) = slot /\ slot = Slot(thread["loop"].t)
    /\ Points(pend) # {} /\ phase = "on" =>
          thread["loop"].t = now \/ (thread["loop"].t = now - 1 /\ ~ticked)
    /\ \A i \in Coming \cup Left : now - SlotLen <= i.t /\ bucket[i.id] >= i.t
    /\ \A i, j \in Coming : i.id = j.id => i = j \/ Slot(i.t) # Slot(j.t)
    /\ \A i, j \in Left : i.id = j.id => i = j \/ Slot(i.t) # Slot(j.t)
    /\ \A i \in Left, j \in Coming : i.id = j.id => Slot(i.t) < Slot(j.t)

\* What is on the disk is of the slot of the bucket or older, and older than what
\* comes; beside what shutdown has taken there may be newer points.
Stored ==
    \A d \in DOMAIN Lines : \A z \in OnDisk(d) :
        /\ phase # "off" => Slot(z.t) <= Slot(bucket[z.id])
        /\ \A i \in Coming : d <= Day(i.t) /\ (z.id = i.id => Slot(z.t) < Slot(i.t))
        /\ \A i \in Left : z.id = i.id =>
              /\ Slot(z.t) # Slot(i.t)
              /\ \A j \in Left : d > Day(j.t) => Slot(z.t) > Slot(i.t)

\* Only days that are over are compressed, and the copy that is about to be renamed
\* is what the plain file was when it was begun.
Compaction ==
    /\ \A d \in DOMAIN gz : d < Day(now) /\ \A i \in Coming : d < Day(i.t)
    /\ \A d \in waiting \cup {job.today} : \A i \in Coming : d <= Day(i.t)
    /\ job.at = "rename" =>
          /\ Current \in DOMAIN tmp /\ Current \notin DOMAIN gz /\ Current < job.today
          /\ Current >= Oldest(now) =>
                /\ Current \in DOMAIN plain /\ Extends(plain[Current], tmp[Current])
                /\ phase # "closing" => plain[Current] = tmp[Current]
    /\ job.at = "remove" => Current \in DOMAIN gz \/ Current < Oldest(now)
    /\ job.at \in {"rename", "remove"} => job.todo # {}
    /\ file = Closed \/ file \in DOMAIN plain \cup DOMAIN gz \/ file < Oldest(now)

IInv == Typing /\ Phases /\ Unsaved /\ Stored /\ Compaction

\* The file in work is one of the list.
LEMMA CurrentIsDay ==
    ASSUME Typing, job.todo # {}
    PROVE  Current \in job.todo /\ Current \in Nat /\ Current \in 1 .. Day(now)
<1>1. job.todo \in SUBSET (1 .. Day(now)) /\ Day(now) \in Nat
  BY TimesGrow DEF Typing, Jobs
<1>2. job.todo \in SUBSET Nat
  BY <1>1
<1>3. Min(job.todo) \in job.todo
  BY <1>2, MinOf
<1> QED
  BY <1>1, <1>2, <1>3 DEF Current

-----------------------------------------------------------------------------
(* Threads and batches *)

LEMMA ThreadFacts ==
    ASSUME Typing, NEW x \in Threads
    PROVE  /\ thread[x].at \in {"idle", "append", "peaks"}
           /\ thread[x].points \in SUBSET Points(Items(now)) /\ thread[x].points \in SUBSET Items(now)
           /\ thread[x].peaks \in SUBSET Peaks(Items(now - 1)) /\ thread[x].peaks \in SUBSET Items(now)
           /\ thread[x].t \in 0 .. now /\ thread[x].ok \in BOOLEAN
<1>1. thread[x] \in Writers(now) /\ now \in Nat /\ FirstRound <= now
  BY DEF Typing
<1>2. /\ thread[x].at \in {"idle", "append", "peaks"}
      /\ thread[x].points \in SUBSET Points(Items(now))
      /\ thread[x].peaks \in SUBSET Peaks(Items(now - 1))
      /\ thread[x].t \in 0 .. now /\ thread[x].ok \in BOOLEAN
  BY <1>1 DEF Writers
<1>3. Points(Items(now)) \subseteq Items(now) /\ Peaks(Items(now - 1)) \subseteq Items(now)
  BY <1>1, TypesGrow DEF Points, Peaks
<1> QED
  BY <1>2, <1>3

LEMMA ComingItems ==
    ASSUME Typing, NEW i \in Coming \cup Left
    PROVE  i \in Items(now) /\ i.k = "v" /\ i.t \in Nat /\ FirstRound <= i.t /\ i.t <= now
           /\ i.id \in Series /\ Slot(i.t) \in Nat /\ Day(i.t) \in Nat
<1>1. \A x \in Threads : thread[x].points \in SUBSET Points(Items(now))
  BY ThreadFacts
<1>2. i \in Items(now) /\ i.k = "v"
  BY <1>1 DEF Coming, Left, Typing, Points, Threads
<1> QED
  BY <1>2, ItemFacts, TimesGrow DEF Typing

LEMMA OnDiskItems ==
    ASSUME Typing, NEW d \in DOMAIN Lines, NEW z \in OnDisk(d)
    PROVE  z \in Items(now) /\ z.k = "v" /\ z.t \in Nat /\ FirstRound <= z.t /\ z.t <= now
           /\ z.id \in Series /\ Slot(z.t) \in Nat /\ d \in Nat
<1>1. z \in Held(Lines[d]) /\ z.k = "v" /\ now \in Nat
  BY DEF OnDisk, Points, Typing
<1>2. z \in Items(now) /\ d \in Nat
  BY <1>1, LinesLined, LinedFacts
<1> QED
  BY <1>1, <1>2, ItemFacts, TimesGrow

\* A thread goes on from the points to the peaks.
LEMMA PointsDone ==
    ASSUME Typing, NEW x \in Threads, NEW ok \in BOOLEAN,
           thread' = [thread EXCEPT ![x].at = "peaks", ![x].ok = ok]
    PROVE  /\ thread' \in [Threads -> Writers(now)]
           /\ thread'[x].at = "peaks" /\ thread'[x].points = thread[x].points
           /\ thread'[x].peaks = thread[x].peaks /\ thread'[x].t = thread[x].t /\ thread'[x].ok = ok
           /\ \A y \in Threads : y # x => thread'[y] = thread[y]
<1>1. thread \in [Threads -> Writers(now)]
  BY DEF Typing
<1>2. thread' = [thread EXCEPT ![x] = [[thread[x] EXCEPT !.at = "peaks"] EXCEPT !.ok = ok]]
  BY <1>1
<1> DEFINE w == [[thread[x] EXCEPT !.at = "peaks"] EXCEPT !.ok = ok]
<1>3. w \in Writers(now) /\ w.at = "peaks" /\ w.points = thread[x].points
      /\ w.peaks = thread[x].peaks /\ w.t = thread[x].t /\ w.ok = ok
  BY <1>1 DEF Writers
<1> HIDE DEF w
<1> QED
  BY <1>1, <1>2, <1>3 DEF w

\* A thread is done with its batch.
LEMMA PeaksDone ==
    ASSUME Typing, NEW x \in Threads,
           thread' = [thread EXCEPT ![x] = [Idle EXCEPT !.t = thread[x].t]]
    PROVE  /\ thread' \in [Threads -> Writers(now)]
           /\ thread'[x].at = "idle" /\ thread'[x].points = {} /\ thread'[x].peaks = {}
           /\ thread'[x].t = thread[x].t /\ thread'[x].ok = TRUE
           /\ \A y \in Threads : y # x => thread'[y] = thread[y]
<1>1. thread \in [Threads -> Writers(now)]
  BY DEF Typing
<1> DEFINE w == [Idle EXCEPT !.t = thread[x].t]
<1>2. thread[x].t \in 0 .. now /\ 0 \in 0 .. now
  BY ThreadFacts DEF Typing
<1>3. Idle \in Writers(now)
  BY <1>2 DEF Idle, Writers
<1>4. w \in Writers(now)
  BY <1>2, <1>3 DEF Writers
<1>5. w.at = "idle" /\ w.points = {} /\ w.peaks = {} /\ w.t = thread[x].t /\ w.ok = TRUE
  BY <1>3 DEF Idle, Writers
<1> HIDE DEF w
<1> QED
  BY <1>1, <1>4, <1>5 DEF w

\* A thread takes a batch.
LEMMA BatchTaken ==
    ASSUME Typing, NEW x \in Threads, NEW S \in SUBSET Points(Items(now)),
           NEW P \in SUBSET Peaks(Items(now - 1)),
           thread' = [thread EXCEPT ![x] =
                         [at |-> "append", points |-> S, peaks |-> P, t |-> now, ok |-> TRUE]]
    PROVE  /\ thread' \in [Threads -> Writers(now)]
           /\ thread'[x].at = "append" /\ thread'[x].points = S /\ thread'[x].peaks = P
           /\ thread'[x].t = now /\ thread'[x].ok = TRUE
           /\ \A y \in Threads : y # x => thread'[y] = thread[y]
<1>1. thread \in [Threads -> Writers(now)] /\ now \in 0 .. now
  BY DEF Typing
<1> DEFINE w == [at |-> "append", points |-> S, peaks |-> P, t |-> now, ok |-> TRUE]
<1>2. w \in Writers(now)
  BY <1>1 DEF Writers
<1>3. w.at = "append" /\ w.points = S /\ w.peaks = P /\ w.t = now /\ w.ok = TRUE
  OBVIOUS
<1> HIDE DEF w
<1> QED
  BY <1>1, <1>2, <1>3 DEF w

\* A write that was made, and one that was not.
Wrote(S, d) ==
    \E lines \in Seq(SUBSET S) :
        /\ Grown(lines, d) /\ (faults' = faults => lines = AsLines(S))
        /\ file' = d /\ waiting' \in {waiting, waiting \cup {d}}
Quiet == plain' = plain /\ gz' = gz /\ waiting' = waiting /\ file' \in {file, Closed}

LEMMA TornLines ==
    ASSUME NEW n \in Nat, NEW S \in SUBSET Items(n), NEW lines \in TornBatches(S)
    PROVE  lines \in Seq(SUBSET S)
<1>1. AsLines(S) \in Seq(SUBSET S) /\ Len(AsLines(S)) \in Nat
  BY BatchLines
<1>2. PICK m \in 0 .. Len(AsLines(S)) - 1 : lines = SubSeq(AsLines(S), 1, m) \o <<Torn>>
  BY DEF TornBatches
<1>3. SubSeq(AsLines(S), 1, m) \in Seq(SUBSET S)
  BY <1>1, <1>2
<1>4. <<Torn>> \in Seq(SUBSET S)
  BY DEF Torn
<1> QED
  BY <1>2, <1>3, <1>4

LEMMA WriteEffect ==
    ASSUME Typing, NEW S \in SUBSET Items(now), NEW t \in Nat, FirstRound <= t, t <= now,
           NEW ok \in BOOLEAN, Write(S, Day(t), t, ok)
    PROVE  /\ faults' \in 0 .. MaxFaults
           /\ ok <=> faults' = faults
           /\ Wrote(S, Day(t)) \/ (Quiet /\ file' = Closed /\ file # Day(t) /\ ~ok)
<1>1. now \in Nat /\ faults \in 0 .. MaxFaults /\ MaxFaults \in Nat
  BY HistoryAssumption DEF Typing
<1>2. S \in SUBSET Items(now)
  OBVIOUS
<1>3. ASSUME NEW lines \in Seq(SUBSET S), Written(Day(t), t, lines)
      PROVE  Grown(lines, Day(t)) /\ file' = Day(t) /\ waiting' \in {waiting, waiting \cup {Day(t)}}
  <2>1. lines \in Seq(SUBSET Items(now))
    BY SeqWiden
  <2>2. plain' = Appended(Day(t), t, lines) /\ gz' = Opened(Day(t), t).gz
        /\ file' = Day(t) /\ waiting' \in {waiting, waiting \cup {Day(t)}}
    BY <1>3 DEF Written
  <2> QED
    BY <2>1, <2>2, WriteGrows
<1>4. CASE ok /\ Written(Day(t), t, AsLines(S)) /\ faults' = faults
  <2>1. AsLines(S) \in Seq(SUBSET S)
    BY <1>1, BatchLines
  <2> QED
    BY <1>1, <1>3, <1>4, <2>1 DEF Wrote
<1>5. CASE ~ok /\ faults < MaxFaults /\ faults' = faults + 1
           /\ ((\E lines \in TornBatches(S) : Written(Day(t), t, lines)) \/ Written(Day(t), t, <<>>))
  <2>1. PICK lines \in Seq(SUBSET S) : Written(Day(t), t, lines)
    <3>1. <<>> \in Seq(SUBSET S)
      OBVIOUS
    <3>2. \A lines \in TornBatches(S) : lines \in Seq(SUBSET S)
      BY <1>1, TornLines
    <3> QED
      BY <1>5, <3>1, <3>2
  <2>2. faults' \in 0 .. MaxFaults /\ faults' # faults
    BY <1>1, <1>5
  <2> QED
    BY <1>3, <1>5, <2>1, <2>2 DEF Wrote
<1>6. CASE ~ok /\ faults < MaxFaults /\ faults' = faults + 1
           /\ file # Day(t) /\ file' = Closed /\ UNCHANGED <<plain, gz, waiting>>
  <2>1. faults' \in 0 .. MaxFaults /\ faults' # faults
    BY <1>1, <1>6
  <2> QED
    BY <1>6, <2>1 DEF Quiet
<1> QED
  BY <1>4, <1>5, <1>6 DEF Write

-----------------------------------------------------------------------------
(* The writes keep the invariant *)

Rest == UNCHANGED <<now, phase, ticked, bucket, open, pend, slot, tmp, job>>

LEMMA PointsEffect ==
    ASSUME Typing, Phases, NEW x \in Threads, AppendPoints(x)
    PROVE  /\ Rest /\ thread[x].at = "append" /\ faults' \in 0 .. MaxFaults
           /\ thread' \in [Threads -> Writers(now)]
           /\ thread'[x].at = "peaks" /\ thread'[x].points = thread[x].points
           /\ thread'[x].peaks = thread[x].peaks /\ thread'[x].t = thread[x].t
           /\ thread'[x].ok <=> faults' = faults
           /\ \A y \in Threads : y # x => thread'[y] = thread[y]
           /\ \/ Quiet /\ (thread[x].points = {} \/ faults' # faults)
              \/ thread[x].points # {} /\ Wrote(thread[x].points, Day(FirstTime(thread[x].points)))
<1> DEFINE S == thread[x].points
           t == FirstTime(S)
<1>1. PICK ok \in BOOLEAN :
          /\ thread' = [thread EXCEPT ![x].at = "peaks", ![x].ok = ok]
          /\ \/ S = {} /\ ok /\ UNCHANGED <<file, plain, gz, waiting, faults>>
             \/ S # {} /\ Write(S, Day(t), t, ok)
  BY DEF AppendPoints
<1>2. Rest /\ thread[x].at = "append"
  BY DEF AppendPoints, Rest
<1>3. S \in SUBSET Items(now) /\ now \in Nat /\ faults \in 0 .. MaxFaults
  BY ThreadFacts DEF Typing
<1>4. ASSUME S # {} PROVE t \in Nat /\ FirstRound <= t /\ t <= now
  <2>1. PICK i \in S : i.t = t
    BY <1>3, <1>4, BatchTimes
  <2>2. i \in Items(now)
    BY <1>3
  <2> QED
    BY <1>3, <2>1, <2>2, ItemFacts
<1>5. /\ thread' \in [Threads -> Writers(now)]
      /\ thread'[x].at = "peaks" /\ thread'[x].points = thread[x].points
      /\ thread'[x].peaks = thread[x].peaks /\ thread'[x].t = thread[x].t /\ thread'[x].ok = ok
      /\ \A y \in Threads : y # x => thread'[y] = thread[y]
  BY <1>1, PointsDone
<1>6. CASE S = {} /\ ok /\ UNCHANGED <<file, plain, gz, waiting, faults>>
  BY <1>2, <1>3, <1>5, <1>6 DEF Quiet
<1>7. CASE S # {} /\ Write(S, Day(t), t, ok)
  <2>1. /\ faults' \in 0 .. MaxFaults
        /\ ok <=> faults' = faults
        /\ Wrote(S, Day(t)) \/ (Quiet /\ file' = Closed /\ file # Day(t) /\ ~ok)
    BY <1>3, <1>4, <1>7, WriteEffect
  <2> QED
    BY <1>2, <1>5, <1>7, <2>1
<1> QED
  BY <1>1, <1>6, <1>7

LEMMA PeaksEffect ==
    ASSUME Typing, Phases, NEW x \in Threads, AppendPeaks(x)
    PROVE  /\ Rest /\ thread[x].at = "peaks" /\ faults' \in 0 .. MaxFaults
           /\ thread' \in [Threads -> Writers(now)]
           /\ thread'[x].at = "idle" /\ thread'[x].points = {}
           /\ thread'[x].peaks = {} /\ thread'[x].t = thread[x].t
           /\ \A y \in Threads : y # x => thread'[y] = thread[y]
           /\ \/ Quiet /\ (thread[x].peaks = {} \/ faults' # faults)
              \/ thread[x].peaks # {} /\ Wrote(thread[x].peaks, Day(now))
<1> DEFINE S == thread[x].peaks
<1>1. PICK ok \in BOOLEAN :
          /\ thread' = [thread EXCEPT ![x] = [Idle EXCEPT !.t = thread[x].t]]
          /\ \/ S = {} /\ ok /\ UNCHANGED <<file, plain, gz, waiting, faults>>
             \/ S # {} /\ Write(S, Day(thread[x].t), thread[x].t, ok)
  BY DEF AppendPeaks
<1>2. Rest /\ thread[x].at = "peaks"
  BY DEF AppendPeaks, Rest
<1>3. S \in SUBSET Items(now) /\ now \in Nat /\ faults \in 0 .. MaxFaults /\ FirstRound <= now /\ now <= now
  BY ThreadFacts DEF Typing
<1>4. thread[x].t = now
  BY <1>2 DEF Phases
<1>5. /\ thread' \in [Threads -> Writers(now)]
      /\ thread'[x].at = "idle" /\ thread'[x].points = {} /\ thread'[x].peaks = {}
      /\ thread'[x].t = thread[x].t
      /\ \A y \in Threads : y # x => thread'[y] = thread[y]
  BY <1>1, PeaksDone
<1>6. CASE S = {} /\ ok /\ UNCHANGED <<file, plain, gz, waiting, faults>>
  BY <1>2, <1>3, <1>5, <1>6 DEF Quiet
<1>7. CASE S # {} /\ Write(S, Day(now), now, ok)
  <2>1. /\ faults' \in 0 .. MaxFaults
        /\ ok <=> faults' = faults
        /\ Wrote(S, Day(now)) \/ (Quiet /\ file' = Closed /\ file # Day(now) /\ ~ok)
    BY <1>3, <1>7, WriteEffect
  <2> QED
    BY <1>2, <1>5, <1>7, <2>1
<1> QED
  BY <1>1, <1>4, <1>6, <1>7

LEMMA SameLines ==
    ASSUME now' = now, plain' = plain, gz' = gz
    PROVE  Lines' = Lines /\ \A d : OnDisk(d)' = OnDisk(d)
<1>1. \A d : Content(d)' = Content(d)
  BY DEF Content
<1>2. Lines' = Lines
  BY <1>1 DEF Lines
<1> QED
  BY <1>2 DEF OnDisk

\* Where what was written has gone.
LEMMA WroteLines ==
    ASSUME Typing, now' = now, NEW S \in SUBSET Items(now), NEW d, Wrote(S, d)
    PROVE  /\ LinesGrow(S, d)
           /\ DOMAIN Lines' = DOMAIN Lines
           /\ \A e \in DOMAIN Lines : \A z \in OnDisk(e)' :
                 z \in OnDisk(e) \/ (e = d /\ z \in Points(S))
<1>1. PICK lines \in Seq(SUBSET S) : Grown(lines, d)
  BY DEF Wrote
<1>2. LinesGrow(S, d)
  BY <1>1, GrownLines
<1> QED
  BY <1>2 DEF LinesGrow, OnDisk, Points

LEMMA WroteTypes ==
    ASSUME Typing, now' = now, NEW S, NEW d \in 1 .. Day(now), Wrote(S, d) \/ Quiet
    PROVE  /\ Files(plain', now) /\ Files(gz', now) /\ file' \in {Closed} \cup 1 .. Day(now)
           /\ waiting' \in SUBSET (0 .. Day(now))
<1>1. CASE Quiet
  BY <1>1 DEF Quiet, Typing
<1>2. CASE Wrote(S, d)
  <2>1. Files(plain', now) /\ Files(gz', now) /\ file' = d /\ waiting' \in {waiting, waiting \cup {d}}
    BY <1>2 DEF Wrote, Grown
  <2>2. d \in 0 .. Day(now) /\ waiting \in SUBSET (0 .. Day(now))
    BY DEF Typing
  <2> QED
    BY <2>1, <2>2
<1> QED
  BY <1>1, <1>2

\* The compaction in progress does not mind what is written to another day, or to any
\* while shutdown is at work.
LEMMA WroteCompaction ==
    ASSUME Typing, Compaction, now' = now, phase' = phase, tmp' = tmp, job' = job,
           NEW S \in SUBSET Items(now), NEW d \in 1 .. Day(now), Wrote(S, d),
           phase # "closing" /\ job.at = "rename" => Current < d,
           Coming' \subseteq Coming, Coming' = {} \/ \A i \in Coming' : d <= Day(i.t)
    PROVE  Compaction'
<1>1. PICK lines \in Seq(SUBSET S) :
          Grown(lines, d) /\ file' = d /\ waiting' \in {waiting, waiting \cup {d}}
  BY DEF Wrote
<1>2. Current' = Current
  BY DEF Current
<1>3. (\A e \in DOMAIN gz : e < Day(now) /\ \A i \in Coming : e < Day(i.t))'
  BY <1>1 DEF Grown, Compaction
<1>4. (\A e \in waiting \cup {job.today} : \A i \in Coming : e <= Day(i.t))'
  BY <1>1 DEF Compaction
<1>5. ASSUME job.at = "rename"
      PROVE  /\ Current \in DOMAIN tmp' /\ Current \notin DOMAIN gz' /\ Current < job.today
             /\ Current >= Oldest(now) =>
                   /\ Current \in DOMAIN plain' /\ Extends(plain'[Current], tmp[Current])
                   /\ phase # "closing" => plain'[Current] = tmp[Current]
  <2>1. Current \in DOMAIN tmp' /\ Current \notin DOMAIN gz' /\ Current < job.today
    BY <1>1, <1>5 DEF Compaction, Grown
  <2>2. ASSUME Current >= Oldest(now)
        PROVE  /\ Current \in DOMAIN plain' /\ Extends(plain'[Current], tmp[Current])
               /\ phase # "closing" => plain'[Current] = tmp[Current]
    <3>1. /\ Current \in DOMAIN plain /\ Extends(plain[Current], tmp[Current])
          /\ phase # "closing" => plain[Current] = tmp[Current]
      BY <1>5, <2>2 DEF Compaction
    <3>2. Current \in DOMAIN plain'
      BY <1>1, <2>2, <3>1 DEF Grown
    <3>3. CASE Current # d
      BY <1>1, <3>1, <3>2, <3>3 DEF Grown
    <3>4. CASE Current = d
      <4>1. phase = "closing"
        <5>1. ~ (d < d)
          BY TimesGrow DEF Typing
        <5> QED
          BY <1>5, <3>4, <5>1
      <4>2. plain'[Current] = Joined(plain[Current], lines)
        BY <1>1, <3>1, <3>2, <3>4 DEF Grown, Given
      <4>3. plain[Current] \in Seq(SUBSET Items(now)) /\ lines \in Seq(SUBSET Items(now))
        BY <1>1, <3>1, SeqWiden DEF Typing, Files
      <4>4. Extends(plain'[Current], plain[Current])
        <5>1. Extends(Joined(plain[Current], lines), plain[Current])
          BY <4>3, JoinedLines
        <5> QED
          BY <4>2, <5>1
      <4> QED
        BY <3>1, <3>2, <4>1, <4>4, ExtendsTransitive
    <3> QED
      BY <3>3, <3>4
  <2> QED
    BY <2>1, <2>2
<1>6. (job.at = "remove" => Current \in DOMAIN gz \/ Current < Oldest(now))'
  <2>1. ASSUME job.at = "remove", Current \in DOMAIN gz PROVE Current \in DOMAIN gz' \/ Current < Oldest(now)
    <3>1. Current \in Nat /\ Oldest(now) \in Int
      BY <2>1, TimesGrow DEF Typing, Files
    <3> QED
      BY <1>1, <2>1, <3>1 DEF Grown
  <2> QED
    BY <1>2, <2>1 DEF Compaction
<1>7. d \in DOMAIN plain' \cup DOMAIN gz' \/ d < Oldest(now)
  <2>1. CASE d \in DOMAIN plain'
    BY <2>1
  <2>2. CASE d \notin DOMAIN plain'
    <3>1. file = d /\ d \notin DOMAIN plain
      BY <1>1, <2>2 DEF Grown
    <3>2. d # Closed /\ d \in Nat /\ Oldest(now) \in Int
      BY TimesGrow DEF Closed, Typing
    <3>3. d \in DOMAIN gz \/ d < Oldest(now)
      BY <3>1, <3>2 DEF Compaction
    <3> QED
      BY <1>1, <3>2, <3>3 DEF Grown
  <2> QED
    BY <2>1, <2>2
<1> QED
  BY <1>1, <1>2, <1>3, <1>4, <1>5, <1>6, <1>7 DEF Compaction

\* A write that failed altogether.
LEMMA QuietCompaction ==
    ASSUME Typing, Compaction, now' = now, phase' = phase, tmp' = tmp, job' = job, Quiet,
           Coming' \subseteq Coming
    PROVE  Compaction'
<1>1. Current' = Current
  BY DEF Current
<1> QED
  BY <1>1 DEF Compaction, Quiet

LEMMA WritingThread ==
    ASSUME NEW x \in Threads
    PROVE  x = "main" \/ x = "loop"
BY DEF Threads

\* AppendPoints by collectLoop: nothing comes any more, what has come is on the disk.
LEMMA LoopPoints ==
    ASSUME IInv, AppendPoints("loop")
    PROVE  IInv'
<1> DEFINE S == thread["loop"].points
           d == Day(FirstTime(S))
<1>0. "loop" \in Threads /\ "main" \in Threads /\ Typing /\ Phases /\ Unsaved /\ Stored /\ Compaction
  BY DEF IInv, Threads
<1>1. /\ Rest /\ thread["loop"].at = "append" /\ faults' \in 0 .. MaxFaults
      /\ thread' \in [Threads -> Writers(now)]
      /\ thread'["loop"].at = "peaks"
      /\ thread'["loop"].peaks = thread["loop"].peaks /\ thread'["loop"].t = thread["loop"].t
      /\ thread'["main"] = thread["main"]
      /\ Quiet \/ (S # {} /\ Wrote(S, d))
  BY <1>0, PointsEffect
<1>2. now' = now /\ phase' = phase /\ pend' = pend /\ bucket' = bucket /\ slot' = slot /\ ticked' = ticked
      /\ tmp' = tmp /\ job' = job /\ open' = open
  BY <1>1 DEF Rest
<1>3. pend = {} /\ Points(pend) = {} /\ Coming = S /\ Coming' = {} /\ Left' = Left
  BY <1>0, <1>1, <1>2 DEF Phases, Coming, Left, Points
<1>4. S \in SUBSET Items(now) /\ now \in Nat
  BY <1>0, ThreadFacts DEF Typing
<1>5. ASSUME S # {}
      PROVE  /\ d \in 1 .. Day(now) /\ \E i \in Coming : d = Day(i.t)
  <2>1. PICK i \in S : i.t = FirstTime(S)
    BY <1>4, <1>5, BatchTimes
  <2>2. i.t \in Nat /\ FirstRound <= i.t /\ i.t <= now
    BY <1>4, <2>1, ItemFacts
  <2>3. Day(i.t) \in Nat /\ 1 <= Day(i.t) /\ Day(i.t) <= Day(now) /\ Day(now) \in Nat
    BY <1>4, <2>2, TimesGrow, FirstDays
  <2> QED
    BY <1>3, <2>1, <2>3
<1>6. Typing'
  <2>1. /\ Files(plain', now) /\ Files(gz', now) /\ file' \in {Closed} \cup 1 .. Day(now)
        /\ waiting' \in SUBSET (0 .. Day(now))
    BY <1>0, <1>1, <1>2, <1>5, WroteTypes DEF Quiet, Typing
  <2> QED
    BY <1>0, <1>1, <1>2, <2>1 DEF Typing
<1>7. Phases'
  BY <1>0, <1>1, <1>2, <1>3 DEF Phases, Threads
<1>8. Unsaved'
  BY <1>0, <1>1, <1>2, <1>3 DEF Unsaved
<1>9. Stored'
  <2>1. CASE Quiet
    BY <1>0, <1>2, <1>3, <2>1, SameLines DEF Stored, Quiet
  <2>2. CASE S # {} /\ Wrote(S, d)
    <3> HIDE DEF d, S
    <3>1. /\ DOMAIN Lines' = DOMAIN Lines
          /\ \A e \in DOMAIN Lines : \A z \in OnDisk(e)' :
                 z \in OnDisk(e) \/ (e = d /\ z \in Points(S))
      BY <1>0, <1>2, <1>4, <2>2, WroteLines
    <3>2. ASSUME NEW e \in DOMAIN Lines, NEW z \in OnDisk(e)'
          PROVE  /\ phase # "off" => Slot(z.t) <= Slot(bucket[z.id])
                 /\ \A i \in Left : z.id = i.id =>
                       /\ Slot(z.t) # Slot(i.t)
                       /\ \A j \in Left : e > Day(j.t) => Slot(z.t) > Slot(i.t)
      <4>1. CASE z \in OnDisk(e)
        BY <1>0, <4>1 DEF Stored
      <4>2. CASE z \in Points(S)
        <5>1. z \in Coming
          BY <1>3, <4>2 DEF Points
        <5>2. z.t <= bucket[z.id] /\ z.t \in Nat /\ bucket[z.id] \in Nat /\ Slot(z.t) \in Nat
          BY <1>0, <5>1, ComingItems DEF Unsaved, Typing
        <5>3. Slot(z.t) <= Slot(bucket[z.id])
          BY <5>2, TimesGrow
        <5>4. ASSUME NEW i \in Left, z.id = i.id PROVE Slot(i.t) < Slot(z.t) /\ Slot(i.t) \in Nat
          BY <1>0, <5>1, <5>4, ComingItems DEF Unsaved
        <5> QED
          BY <5>2, <5>3, <5>4
      <4> QED
        BY <3>1, <4>1, <4>2
    <3> QED
      BY <1>2, <1>3, <3>1, <3>2 DEF Stored
  <2> QED
    BY <1>1, <2>1, <2>2
<1>10. Compaction'
  <2>1. CASE Quiet
    BY <1>0, <1>2, <1>3, <2>1, QuietCompaction
  <2>2. CASE S # {} /\ Wrote(S, d)
    <3>1. PICK i \in Coming : d = Day(i.t)
      BY <1>5, <2>2
    <3>2. d \in 1 .. Day(now)
      BY <1>5, <2>2
    <3> HIDE DEF d, S
    <3>3. ASSUME job.at = "rename" PROVE Current < d
      <4>1. Current < job.today /\ job.today <= Day(i.t)
        BY <1>0, <3>3 DEF Compaction
      <4>2. Current \in Nat /\ job.today \in Nat /\ d \in Nat
        BY <1>0, <3>2, <3>3 DEF Compaction, Typing, Files, Jobs
      <4> QED
        BY <3>1, <4>1, <4>2
    <3> QED
      BY <1>0, <1>2, <1>3, <1>4, <2>2, <3>2, <3>3, WroteCompaction
  <2> QED
    BY <1>1, <2>1, <2>2
<1> QED
  BY <1>6, <1>7, <1>8, <1>9, <1>10 DEF IInv

\* AppendPoints by the flush of shutdown: what it writes is older than what comes.
LEMMA MainPoints ==
    ASSUME IInv, AppendPoints("main")
    PROVE  IInv'
<1> DEFINE S == thread["main"].points
           d == Day(FirstTime(S))
<1>0. "loop" \in Threads /\ "main" \in Threads /\ Typing /\ Phases /\ Unsaved /\ Stored /\ Compaction
  BY DEF IInv, Threads
<1>1. /\ Rest /\ thread["main"].at = "append" /\ faults' \in 0 .. MaxFaults
      /\ thread' \in [Threads -> Writers(now)]
      /\ thread'["main"].at = "peaks"
      /\ thread'["main"].peaks = thread["main"].peaks /\ thread'["main"].t = thread["main"].t
      /\ thread'["loop"] = thread["loop"]
      /\ Quiet \/ (S # {} /\ Wrote(S, d))
  BY <1>0, PointsEffect
<1>2. now' = now /\ phase' = phase /\ pend' = pend /\ bucket' = bucket /\ slot' = slot /\ ticked' = ticked
      /\ tmp' = tmp /\ job' = job /\ open' = open
  BY <1>1 DEF Rest
<1>3. Coming' = Coming /\ Left = S /\ Left' = {} /\ phase = "closing" /\ thread["main"].t = now
  BY <1>0, <1>1, <1>2 DEF Phases, Coming, Left, Points
<1>4. S \in SUBSET Items(now) /\ now \in Nat
  BY <1>0, ThreadFacts DEF Typing
<1>5. ASSUME S # {}
      PROVE  d \in 1 .. Day(now) /\ \A i \in Coming : d <= Day(i.t)
  <2>1. PICK i \in S : i.t = FirstTime(S)
    BY <1>4, <1>5, BatchTimes
  <2>2. i.t \in Nat /\ FirstRound <= i.t /\ i.t <= now
    BY <1>4, <2>1, ItemFacts
  <2>3. Day(i.t) \in Nat /\ 1 <= Day(i.t) /\ Day(i.t) <= Day(now) /\ Day(now) \in Nat
    BY <1>4, <2>2, TimesGrow, FirstDays
  <2>4. ASSUME NEW j \in Coming PROVE Day(i.t) <= Day(j.t)
    <3>1. j.t >= now /\ j.t \in Nat
      BY <1>0, <1>3, <1>5, ComingItems DEF Phases
    <3>2. i.t <= j.t
      BY <1>4, <2>2, <3>1
    <3> QED
      BY <2>2, <3>1, <3>2, TimesGrow
  <2> QED
    BY <2>1, <2>3, <2>4
<1>6. Typing'
  <2>1. /\ Files(plain', now) /\ Files(gz', now) /\ file' \in {Closed} \cup 1 .. Day(now)
        /\ waiting' \in SUBSET (0 .. Day(now))
    BY <1>0, <1>1, <1>2, <1>5, WroteTypes DEF Quiet, Typing
  <2> QED
    BY <1>0, <1>1, <1>2, <2>1 DEF Typing
<1>7. Phases'
  BY <1>0, <1>1, <1>2, <1>3 DEF Phases, Threads
<1>8. Unsaved'
  BY <1>0, <1>1, <1>2, <1>3 DEF Unsaved
<1>9. Stored'
  <2>1. CASE Quiet
    BY <1>0, <1>2, <1>3, <2>1, SameLines DEF Stored, Quiet
  <2>2. CASE S # {} /\ Wrote(S, d)
    <3>0. \A i \in Coming : d <= Day(i.t)
      BY <1>5, <2>2
    <3> HIDE DEF d, S
    <3>1. /\ DOMAIN Lines' = DOMAIN Lines
          /\ \A e \in DOMAIN Lines : \A z \in OnDisk(e)' :
                 z \in OnDisk(e) \/ (e = d /\ z \in Points(S))
      BY <1>0, <1>2, <1>4, <2>2, WroteLines
    <3>2. ASSUME NEW e \in DOMAIN Lines, NEW z \in OnDisk(e)'
          PROVE  /\ phase # "off" => Slot(z.t) <= Slot(bucket[z.id])
                 /\ \A i \in Coming : e <= Day(i.t) /\ (z.id = i.id => Slot(z.t) < Slot(i.t))
      <4>1. CASE z \in OnDisk(e)
        BY <1>0, <4>1 DEF Stored
      <4>2. CASE e = d /\ z \in Points(S)
        <5>1. z \in Left
          BY <1>3, <4>2 DEF Points
        <5>2. z.t <= bucket[z.id] /\ z.t \in Nat /\ bucket[z.id] \in Nat /\ Slot(z.t) \in Nat
          BY <1>0, <5>1, ComingItems DEF Unsaved, Typing
        <5>3. Slot(z.t) <= Slot(bucket[z.id])
          BY <5>2, TimesGrow
        <5>4. ASSUME NEW i \in Coming, z.id = i.id PROVE Slot(z.t) < Slot(i.t)
          BY <1>0, <5>1, <5>4 DEF Unsaved
        <5> QED
          BY <3>0, <4>2, <5>3, <5>4
      <4> QED
        BY <3>1, <4>1, <4>2
    <3> QED
      BY <1>2, <1>3, <3>1, <3>2 DEF Stored
  <2> QED
    BY <1>1, <2>1, <2>2
<1>10. Compaction'
  <2>1. CASE Quiet
    BY <1>0, <1>2, <1>3, <2>1, QuietCompaction
  <2>2. CASE S # {} /\ Wrote(S, d)
    <3>1. d \in 1 .. Day(now) /\ \A i \in Coming : d <= Day(i.t)
      BY <1>5, <2>2
    <3> HIDE DEF d, S
    <3> QED
      BY <1>0, <1>2, <1>3, <1>4, <2>2, <3>1, WroteCompaction
  <2> QED
    BY <1>1, <2>1, <2>2
<1> QED
  BY <1>6, <1>7, <1>8, <1>9, <1>10 DEF IInv

\* AppendPeaks: no point is written.
LEMMA AnyPeaks ==
    ASSUME IInv, NEW x \in Threads, AppendPeaks(x)
    PROVE  IInv'
<1> DEFINE S == thread[x].peaks
           d == Day(now)
<1>0. "loop" \in Threads /\ "main" \in Threads /\ Typing /\ Phases /\ Unsaved /\ Stored /\ Compaction
  BY DEF IInv, Threads
<1>1. /\ Rest /\ thread[x].at = "peaks" /\ faults' \in 0 .. MaxFaults
      /\ thread' \in [Threads -> Writers(now)]
      /\ thread'[x].at = "idle" /\ thread'[x].points = {}
      /\ thread'[x].peaks = {} /\ thread'[x].t = thread[x].t
      /\ \A y \in Threads : y # x => thread'[y] = thread[y]
      /\ Quiet \/ (S # {} /\ Wrote(S, d))
  BY <1>0, PeaksEffect
<1>2. now' = now /\ phase' = phase /\ pend' = pend /\ bucket' = bucket /\ slot' = slot /\ ticked' = ticked
      /\ tmp' = tmp /\ job' = job /\ open' = open
  BY <1>1 DEF Rest
<1>3. Coming' = Coming /\ Left' = Left
  <2>1. CASE x = "main"
    BY <1>0, <1>1, <1>2, <2>1 DEF Coming, Left
  <2>2. CASE x = "loop"
    BY <1>0, <1>1, <1>2, <2>2 DEF Coming, Left
  <2> QED
    BY <2>1, <2>2, WritingThread
<1>4. S \in SUBSET Items(now) /\ now \in Nat /\ d \in Nat
  BY <1>0, ThreadFacts, TimesGrow DEF Typing
<1>5. d \in 1 .. Day(now)
  BY <1>0, <1>4, FirstDays DEF Typing
<1>6. Points(S) = {}
  BY <1>0, ThreadFacts DEF Points, Peaks
<1>7. Typing'
  <2>1. /\ Files(plain', now) /\ Files(gz', now) /\ file' \in {Closed} \cup 1 .. Day(now)
        /\ waiting' \in SUBSET (0 .. Day(now))
    BY <1>0, <1>1, <1>2, <1>5, WroteTypes
  <2> QED
    BY <1>0, <1>1, <1>2, <2>1 DEF Typing
<1>8. Phases'
  <2>1. \A y \in Threads : \/ thread'[y].at = "idle" /\ thread'[y].points = {} /\ thread'[y].peaks = {}
                           \/ thread'[y] = thread[y]
    BY <1>1
  <2>2. thread'["main"].t = thread["main"].t
    BY <1>0, <1>1
  <2>3. thread["loop"].at = "idle" => thread'["loop"].at = "idle"
    BY <1>0, <2>1
  <2> QED
    BY <1>0, <1>1, <1>2, <1>3, <2>1, <2>2, <2>3 DEF Phases
<1>9. Unsaved'
  <2>1. thread'["loop"].t = thread["loop"].t
    BY <1>0, <1>1
  <2> QED
    BY <1>0, <1>2, <1>3, <2>1 DEF Unsaved
<1>10. Stored'
  <2>1. CASE Quiet
    BY <1>0, <1>2, <1>3, <2>1, SameLines DEF Stored, Quiet
  <2>2. CASE S # {} /\ Wrote(S, d)
    <3>1. /\ DOMAIN Lines' = DOMAIN Lines
          /\ \A e \in DOMAIN Lines : \A z \in OnDisk(e)' :
                 z \in OnDisk(e) \/ (e = d /\ z \in Points(S))
      BY <1>0, <1>2, <1>4, <2>2, WroteLines
    <3>2. \A e \in DOMAIN Lines : \A z \in OnDisk(e)' : z \in OnDisk(e)
      BY <1>6, <3>1
    <3> QED
      BY <1>0, <1>2, <1>3, <3>1, <3>2 DEF Stored
  <2> QED
    BY <1>1, <2>1, <2>2
<1>11. Compaction'
  <2>1. CASE Quiet
    BY <1>0, <1>2, <1>3, <2>1, QuietCompaction
  <2>2. CASE S # {} /\ Wrote(S, d)
    <3>1. ASSUME phase # "closing", job.at = "rename" PROVE Current < d
      <4>1. Current < job.today /\ job.today <= d /\ job.today \in Nat
        BY <1>0, <3>1 DEF Compaction, Typing, Jobs
      <4>2. Current \in Nat
        BY <1>0, <3>1 DEF Compaction, Typing, Files
      <4> QED
        BY <1>4, <4>1, <4>2
    <3>2. ASSUME NEW i \in Coming PROVE d <= Day(i.t)
      <4>1. CASE x = "main"
        <5>1. thread["main"].t = now /\ i.t >= thread["main"].t /\ i.t <= now /\ i.t \in Nat
          BY <1>0, <1>1, <2>2, <4>1, ComingItems DEF Phases
        <5>2. i.t = now
          BY <1>4, <5>1
        <5> QED
          BY <1>4, <5>2
      <4>2. CASE x = "loop"
        BY <1>0, <1>1, <4>2 DEF Coming, Phases, Points
      <4> QED
        BY <4>1, <4>2, WritingThread
    <3> QED
      BY <1>0, <1>2, <1>3, <1>4, <1>5, <2>2, <3>1, <3>2, WroteCompaction
  <2> QED
    BY <1>1, <2>1, <2>2
<1> QED
  BY <1>7, <1>8, <1>9, <1>10, <1>11 DEF IInv

-----------------------------------------------------------------------------
(* The rounds keep the invariant *)

\* A round: what Add has kept comes in addition to what has come before.
LEMMA TickEffect ==
    ASSUME IInv, Tick
    PROVE  \E K \in SUBSET Series :
              /\ \A m \in K : Slot(now) > Slot(bucket[m])
              /\ bucket' = [m \in Series |-> IF m \in K THEN now ELSE bucket[m]]
              /\ open' = open \cup K
              /\ Coming' = Coming \cup {Point(m, now) : m \in K}
              /\ thread["loop"].at = "idle" /\ Coming = Points(pend)
              /\ Points(pend') = Coming' \/ Points(pend') = {}
              /\ \/ /\ pend' # {} => thread'["loop"].at = "idle"
                    /\ thread' = [thread EXCEPT !["loop"].t = now] /\ slot' = slot
                    /\ Points(pend') = Coming'
                    /\ Coming' # {} => Slot(now) = slot
                 \/ /\ pend' = {} /\ slot' = Slot(now)
                    /\ \E P \in SUBSET Peaks(Items(now - 1)) :
                          thread' = [thread EXCEPT !["loop"] =
                             [at |-> "append", points |-> Coming', peaks |-> P,
                              t |-> now, ok |-> TRUE]]
              /\ Peaks(pend') \subseteq Items(now - 1) /\ pend' = Points(pend') \cup Peaks(pend')
<1>0. Typing /\ Phases /\ now \in Nat /\ FirstRound <= now /\ "loop" \in Threads /\ thread["loop"].at = "idle"
      /\ thread \in [Threads -> Writers(now)]
  BY DEF IInv, Tick, Typing, Threads
<1>1. PICK seen \in SUBSET Series :
          LET kept == {m \in seen : Slot(now) > Slot(bucket[m])}
          IN  /\ bucket' = [m \in Series |-> IF m \in kept THEN now ELSE bucket[m]]
              /\ open' = open \cup kept
              /\ \E spiked \in {{}, kept \cap open} :
                    Persist({Point(m, now) : m \in kept} \cup {Peak(m, bucket[m]) : m \in spiked})
  BY DEF Tick
<1> DEFINE K == {m \in seen : Slot(now) > Slot(bucket[m])}
<1>2. PICK spiked \in {{}, K \cap open} :
          Persist({Point(m, now) : m \in K} \cup {Peak(m, bucket[m]) : m \in spiked})
  BY <1>1
<1> DEFINE new == {Point(m, now) : m \in K}
           N == {Peak(m, bucket[m]) : m \in spiked}
           all == pend \cup (new \cup N)
<1>3. K \in SUBSET Series /\ \A m \in K : Slot(now) > Slot(bucket[m])
  OBVIOUS
<1>4. spiked \subseteq K /\ spiked \subseteq open
  OBVIOUS
<1>5. /\ bucket' = [m \in Series |-> IF m \in K THEN now ELSE bucket[m]]
      /\ open' = open \cup K
  BY <1>1
<1> HIDE DEF K
<1>6. N \subseteq Peaks(Items(now - 1))
  <2>1. ASSUME NEW m \in spiked PROVE Peak(m, bucket[m]) \in Peaks(Items(now - 1))
    <3>1. m \in Series /\ FirstRound <= bucket[m] /\ bucket[m] \in Nat /\ FirstRound \in Nat
      BY <1>0, <1>3, <1>4, HistoryAssumption DEF Typing
    <3>2. Slot(now) > Slot(bucket[m])
      BY <1>3, <1>4
    <3>3. Slot(now) \in Nat /\ Slot(bucket[m]) \in Nat
      BY <1>0, <3>1, TimesGrow
    <3>4. ~ (now <= bucket[m])
      BY <1>0, <3>1, <3>2, <3>3, TimesGrow
    <3>5. bucket[m] \in FirstRound .. (now - 1)
      BY <1>0, <3>1, <3>4
    <3> QED
      BY <3>1, <3>5 DEF Peak, Peaks, Items
  <2> QED
    BY <2>1
<1>7. new \subseteq Points(Items(now))
  <2>1. now \in FirstRound .. now
    BY <1>0, HistoryAssumption
  <2> QED
    BY <1>3, <2>1 DEF Point, Points, Items
<1>8. Points(all) = Points(pend) \cup new /\ Peaks(all) = Peaks(pend) \cup N /\ all = Points(all) \cup Peaks(all)
  BY <1>0, <1>6, <1>7 DEF Points, Peaks, Typing
<1>9. Coming = Points(pend)
  BY <1>0 DEF Coming
<1>10. Peaks(all) \in SUBSET Peaks(Items(now - 1))
  BY <1>0, <1>6, <1>8 DEF Typing, Peaks
<1> HIDE DEF new, N, all
<1>11. CASE ~Due(all) /\ pend' = all /\ thread' = [thread EXCEPT !["loop"].t = now] /\ slot' = slot
  <2>1. thread'["loop"].at = "idle"
    BY <1>0, <1>11 DEF Writers
  <2>2. Coming' = Points(all)
    BY <1>11, <2>1 DEF Coming
  <2>3. Coming' # {} => Slot(now) = slot
    BY <1>11, <2>2 DEF Due
  <2> QED
    BY <1>0, <1>3, <1>5, <1>8, <1>9, <1>10, <1>11, <2>1, <2>2, <2>3 DEF new, Peaks
<1>12. CASE /\ pend' = {} /\ slot' = Slot(now)
            /\ thread' = [thread EXCEPT !["loop"] =
                   [at |-> "append", points |-> Points(all), peaks |-> Peaks(all),
                    t |-> now, ok |-> TRUE]]
  <2>1. thread'["loop"].at = "append" /\ thread'["loop"].points = Points(all)
    BY <1>0, <1>12
  <2>2. Points(pend') = {} /\ Peaks(pend') = {}
    BY <1>12 DEF Points, Peaks
  <2>3. Coming' = Points(all)
    BY <2>1, <2>2 DEF Coming
  <2> QED
    BY <1>0, <1>3, <1>5, <1>8, <1>9, <1>10, <1>12, <2>2, <2>3 DEF new
<1>13. \/ ~Due(all) /\ pend' = all /\ thread' = [thread EXCEPT !["loop"].t = now] /\ slot' = slot
       \/ /\ pend' = {} /\ slot' = Slot(now)
          /\ thread' = [thread EXCEPT !["loop"] =
                   [at |-> "append", points |-> Points(all), peaks |-> Peaks(all),
                    t |-> now, ok |-> TRUE]]
  BY <1>2 DEF Persist, Taken, all, new, N
<1> QED
  BY <1>11, <1>12, <1>13

LEMMA TickKeeps ==
    ASSUME IInv, Tick
    PROVE  IInv'
<1>0. "loop" \in Threads /\ "main" \in Threads /\ Typing /\ Phases /\ Unsaved /\ Stored /\ Compaction
  BY DEF IInv, Threads
<1>1. PICK K \in SUBSET Series :
              /\ \A m \in K : Slot(now) > Slot(bucket[m])
              /\ bucket' = [m \in Series |-> IF m \in K THEN now ELSE bucket[m]]
              /\ open' = open \cup K
              /\ Coming' = Coming \cup {Point(m, now) : m \in K}
              /\ thread["loop"].at = "idle" /\ Coming = Points(pend)
              /\ Points(pend') = Coming' \/ Points(pend') = {}
              /\ \/ /\ pend' # {} => thread'["loop"].at = "idle"
                    /\ thread' = [thread EXCEPT !["loop"].t = now] /\ slot' = slot
                    /\ Points(pend') = Coming'
                    /\ Coming' # {} => Slot(now) = slot
                 \/ /\ pend' = {} /\ slot' = Slot(now)
                    /\ \E P \in SUBSET Peaks(Items(now - 1)) :
                          thread' = [thread EXCEPT !["loop"] =
                             [at |-> "append", points |-> Coming', peaks |-> P,
                              t |-> now, ok |-> TRUE]]
              /\ Peaks(pend') \subseteq Items(now - 1) /\ pend' = Points(pend') \cup Peaks(pend')
  BY TickEffect
<1>2. /\ now' = now /\ phase' = phase /\ ticked' = TRUE /\ phase \in {"on", "closing", "closed"}
      /\ file' = file /\ plain' = plain /\ gz' = gz /\ tmp' = tmp /\ waiting' = waiting
      /\ job' = job /\ faults' = faults
  BY DEF Tick, disk
<1>3. now \in Nat /\ FirstRound <= now /\ thread \in [Threads -> Writers(now)] /\ Slot(now) \in Nat
      /\ Day(now) \in Nat /\ slot \in 0 .. Slot(now)
  BY <1>0, TimesGrow DEF Typing
\* the items that are new
<1>4. ASSUME NEW i \in Coming', i \notin Coming
      PROVE  i \in Items(now) /\ i.k = "v" /\ i.t = now /\ i.id \in K /\ bucket'[i.id] = now
             /\ i = Point(i.id, now)
  <2>1. PICK m \in K : i = Point(m, now)
    BY <1>1, <1>4
  <2>2. i.id = m /\ i.t = now /\ i.k = "v" /\ now \in FirstRound .. now
    BY <1>3, <2>1, HistoryAssumption DEF Point
  <2> QED
    BY <1>1, <2>1, <2>2 DEF Point, Items
<1>5. Coming' \subseteq Items(now)
  BY <1>0, <1>4, ComingItems
<1>6. /\ thread' \in [Threads -> Writers(now)] /\ thread'["main"] = thread["main"]
      /\ thread'["loop"].t = now
      /\ thread'["loop"].at = "idle" => thread'["loop"].points = {} /\ thread'["loop"].peaks = {}
      /\ pend' # {} => thread'["loop"].at = "idle"
  <2>1. CASE thread' = [thread EXCEPT !["loop"].t = now] /\ (pend' # {} => thread'["loop"].at = "idle")
    <3> DEFINE w == [thread["loop"] EXCEPT !.t = now]
    <3>1. now \in 0 .. now
      BY <1>3
    <3>2. w \in Writers(now) /\ w.points = thread["loop"].points /\ w.peaks = thread["loop"].peaks /\ w.t = now
      BY <1>0, <1>3, <3>1 DEF Writers
    <3>3. thread' = [thread EXCEPT !["loop"] = w]
      BY <1>0, <1>3, <2>1
    <3>4. thread["loop"].points = {} /\ thread["loop"].peaks = {}
      BY <1>0, <1>1 DEF Phases
    <3> HIDE DEF w
    <3>5. /\ thread' \in [Threads -> Writers(now)] /\ thread'["main"] = thread["main"]
          /\ thread'["loop"] = w
      BY <1>0, <1>3, <3>2, <3>3
    <3> QED
      BY <2>1, <3>2, <3>4, <3>5
  <2>2. CASE /\ pend' = {}
             /\ \E P \in SUBSET Peaks(Items(now - 1)) :
                   thread' = [thread EXCEPT !["loop"] =
                             [at |-> "append", points |-> Coming', peaks |-> P,
                              t |-> now, ok |-> TRUE]]
    <3>1. PICK P \in SUBSET Peaks(Items(now - 1)) :
                   thread' = [thread EXCEPT !["loop"] =
                             [at |-> "append", points |-> Coming', peaks |-> P,
                              t |-> now, ok |-> TRUE]]
      BY <2>2
    <3> DEFINE C == Coming'
    <3>2. C \in SUBSET Points(Items(now))
      <4>1. \A i \in C : i \in Items(now) /\ i.k = "v"
        BY <1>0, <1>4, ComingItems
      <4> QED
        BY <4>1 DEF Points
    <3>3. thread' = [thread EXCEPT !["loop"] =
                             [at |-> "append", points |-> C, peaks |-> P, t |-> now, ok |-> TRUE]]
      BY <3>1
    <3> HIDE DEF C
    <3>4. /\ thread' \in [Threads -> Writers(now)]
          /\ thread'["loop"].at = "append" /\ thread'["loop"].t = now
          /\ \A y \in Threads : y # "loop" => thread'[y] = thread[y]
      BY <1>0, <3>2, <3>3, BatchTaken
    <3> QED
      BY <1>0, <2>2, <3>4
  <2> QED
    BY <1>1, <2>1, <2>2
<1>7. Left' = Left
  BY <1>6 DEF Left
<1>8. \A m \in Series : bucket[m] \in Nat /\ bucket'[m] \in 0 .. now /\ bucket[m] <= bucket'[m]
                        /\ Slot(bucket[m]) \in Nat /\ Slot(bucket[m]) <= Slot(bucket'[m])
  <2>1. ASSUME NEW m \in Series
        PROVE  bucket[m] \in Nat /\ bucket'[m] \in 0 .. now /\ bucket[m] <= bucket'[m]
               /\ Slot(bucket[m]) \in Nat /\ Slot(bucket[m]) <= Slot(bucket'[m])
    <3>1. bucket[m] \in 0 .. now
      BY <1>0 DEF Typing
    <3>2. bucket'[m] = IF m \in K THEN now ELSE bucket[m]
      BY <1>1
    <3>3. bucket[m] \in Nat /\ bucket'[m] \in 0 .. now /\ bucket[m] <= bucket'[m]
      BY <1>3, <3>1, <3>2
    <3> QED
      BY <3>3, TimesGrow
  <2> QED
    BY <2>1
\* the parts of the invariant
<1>9. Typing'
  <2>1. bucket' \in [Series -> 0 .. now]
    BY <1>1, <1>8
  <2>2. \A m \in open' : m \in Series /\ FirstRound <= bucket'[m]
    BY <1>0, <1>1, <1>3 DEF Typing
  <2>3. slot' \in 0 .. Slot(now)
    BY <1>1, <1>3
  <2>4. Points(pend') \subseteq Items(now)
    BY <1>1, <1>5
  <2> QED
    BY <1>0, <1>1, <1>2, <1>6, <2>1, <2>2, <2>3, <2>4 DEF Typing, Points, Peaks
<1>10. Phases'
  <2>1. \A x \in Threads : x = "main" \/ x = "loop"
    BY DEF Threads
  <2>2. ASSUME phase \in {"closing", "closed"} PROVE \A i \in Points(pend') : i.t >= thread["main"].t
    <3>1. \A i \in Coming' : i.t >= thread["main"].t
      <4>1. ASSUME NEW i \in Coming' PROVE i.t >= thread["main"].t
        <5>1. CASE i \in Coming
          BY <1>0, <1>1, <2>2, <5>1 DEF Phases
        <5>2. CASE i \notin Coming
          BY <1>0, <1>4, <2>2, <5>2 DEF Phases
        <5> QED
          BY <5>1, <5>2
      <4> QED
        BY <4>1
    <3> QED
      BY <1>1, <3>1
  <2>3. ASSUME Left # {} \/ thread["main"].peaks # {} PROVE \A j \in Coming' : j.t >= thread["main"].t
    <3>1. thread["main"].at # "idle"
      BY <1>0, <2>3 DEF Phases, Left
    <3>2. thread["main"].t = now
      BY <1>0, <3>1 DEF Phases
    <3>3. ASSUME NEW j \in Coming' PROVE j.t >= thread["main"].t
      <4>1. CASE j \in Coming
        BY <1>0, <2>3, <4>1 DEF Phases
      <4>2. CASE j \notin Coming
        BY <1>3, <1>4, <3>2, <4>2
      <4> QED
        BY <4>1, <4>2
    <3> QED
      BY <3>3
  <2>4. phase \notin {"off", "loading"}
    BY <1>2
  <2> QED
    BY <1>0, <1>2, <1>6, <1>7, <2>1, <2>2, <2>3, <2>4 DEF Phases
<1>11. \A i \in Coming : bucket[i.id] >= i.t /\ Slot(i.t) <= Slot(bucket[i.id]) /\ Slot(i.t) \in Nat
                         /\ bucket[i.id] \in Nat /\ i.id \in Series
  <2>1. ASSUME NEW i \in Coming
        PROVE  bucket[i.id] >= i.t /\ Slot(i.t) <= Slot(bucket[i.id]) /\ Slot(i.t) \in Nat
               /\ bucket[i.id] \in Nat /\ i.id \in Series
    <3>1. i.t \in Nat /\ i.id \in Series /\ Slot(i.t) \in Nat
      BY <1>0, ComingItems
    <3>2. bucket[i.id] >= i.t /\ bucket[i.id] \in Nat
      BY <1>0, <1>8, <3>1 DEF Unsaved
    <3> QED
      BY <3>1, <3>2, TimesGrow
  <2> QED
    BY <2>1
<1>12. \A i \in Left : bucket[i.id] >= i.t /\ Slot(i.t) <= Slot(bucket[i.id]) /\ Slot(i.t) \in Nat
                         /\ bucket[i.id] \in Nat /\ i.id \in Series /\ i.t \in Nat
  <2>1. ASSUME NEW i \in Left
        PROVE  bucket[i.id] >= i.t /\ Slot(i.t) <= Slot(bucket[i.id]) /\ Slot(i.t) \in Nat
               /\ bucket[i.id] \in Nat /\ i.id \in Series /\ i.t \in Nat
    <3>1. i.t \in Nat /\ i.id \in Series /\ Slot(i.t) \in Nat
      BY <1>0, ComingItems
    <3>2. bucket[i.id] >= i.t /\ bucket[i.id] \in Nat
      BY <1>0, <1>8, <3>1 DEF Unsaved
    <3> QED
      BY <3>1, <3>2, TimesGrow
  <2> QED
    BY <2>1
<1>13. ASSUME NEW i \in Coming', i \notin Coming
       PROVE  Slot(bucket[i.id]) < Slot(i.t) /\ i.id \in Series
  BY <1>1, <1>4, <1>13
<1>14. Unsaved'
  <2>1. \A i \in Points(pend') : Slot(i.t) = slot' /\ slot' = Slot(thread'["loop"].t)
    <3>1. CASE slot' = slot /\ Points(pend') = Coming' /\ (Coming' # {} => Slot(now) = slot)
      <4>1. ASSUME NEW i \in Coming' PROVE Slot(i.t) = slot
        <5>1. CASE i \in Coming
          BY <1>0, <1>1, <5>1 DEF Unsaved
        <5>2. CASE i \notin Coming
          BY <1>4, <3>1, <5>2
        <5> QED
          BY <5>1, <5>2
      <4> QED
        BY <1>6, <3>1, <4>1
    <3>2. CASE pend' = {}
      BY <3>2 DEF Points
    <3> QED
      BY <1>1, <3>1, <3>2
  <2>2. \A i \in Coming' \cup Left : now - SlotLen <= i.t /\ bucket'[i.id] >= i.t
    <3>1. ASSUME NEW i \in Coming' \cup Left PROVE now - SlotLen <= i.t /\ bucket'[i.id] >= i.t
      <4>1. CASE i \in Coming \cup Left
        <5>1. now - SlotLen <= i.t /\ bucket[i.id] >= i.t /\ i.t \in Nat /\ i.id \in Series
          BY <1>0, <4>1, ComingItems DEF Unsaved
        <5>2. bucket[i.id] <= bucket'[i.id] /\ bucket[i.id] \in Nat /\ bucket'[i.id] \in Nat
          BY <1>8, <5>1
        <5> QED
          BY <5>1, <5>2
      <4>2. CASE i \notin Coming \cup Left
        BY <1>3, <1>4, <3>1, <4>2, HistoryAssumption
      <4> QED
        BY <4>1, <4>2
    <3> QED
      BY <3>1
  <2>3. \A i, j \in Coming' : i.id = j.id => i = j \/ Slot(i.t) # Slot(j.t)
    <3>1. ASSUME NEW i \in Coming', NEW j \in Coming', i.id = j.id, i \in Coming, j \notin Coming
          PROVE  Slot(i.t) # Slot(j.t)
      <4>1. Slot(i.t) <= Slot(bucket[i.id]) /\ Slot(bucket[i.id]) < Slot(j.t) /\ Slot(i.t) \in Nat
            /\ Slot(bucket[i.id]) \in Nat
        BY <1>8, <1>11, <1>13, <3>1
      <4>2. Slot(j.t) \in Nat
        BY <1>3, <1>4, <3>1
      <4> QED
        BY <4>1, <4>2
    <3>2. ASSUME NEW i \in Coming', NEW j \in Coming', i.id = j.id, i \notin Coming, j \notin Coming
          PROVE  i = j
      BY <1>4, <3>2
    <3>3. ASSUME NEW i \in Coming, NEW j \in Coming, i.id = j.id
          PROVE  i = j \/ Slot(i.t) # Slot(j.t)
      BY <1>0, <3>3 DEF Unsaved
    <3> QED
      BY <3>1, <3>2, <3>3
  <2>4. \A i \in Left, j \in Coming' : i.id = j.id => Slot(i.t) < Slot(j.t)
    <3>1. ASSUME NEW i \in Left, NEW j \in Coming', i.id = j.id PROVE Slot(i.t) < Slot(j.t)
      <4>1. CASE j \in Coming
        BY <1>0, <3>1, <4>1 DEF Unsaved
      <4>2. CASE j \notin Coming
        <5>1. Slot(i.t) <= Slot(bucket[i.id]) /\ Slot(bucket[i.id]) < Slot(j.t) /\ Slot(i.t) \in Nat
              /\ Slot(bucket[i.id]) \in Nat
          BY <1>8, <1>12, <1>13, <3>1, <4>2
        <5>2. Slot(j.t) \in Nat
          BY <1>3, <1>4, <4>2
        <5> QED
          BY <5>1, <5>2
      <4> QED
        BY <4>1, <4>2
    <3> QED
      BY <3>1
  <2>5. \A i, j \in Left : i.id = j.id => i = j \/ Slot(i.t) # Slot(j.t)
    BY <1>0 DEF Unsaved

  <2> QED
    BY <1>2, <1>6, <1>7, <2>1, <2>2, <2>3, <2>4, <2>5 DEF Unsaved
<1>15. Stored'
  <2>1. Lines' = Lines /\ \A d : OnDisk(d)' = OnDisk(d)
    BY <1>2, SameLines
  <2>2. ASSUME NEW d \in DOMAIN Lines, NEW z \in OnDisk(d)
        PROVE  /\ Slot(z.t) <= Slot(bucket'[z.id])
               /\ \A i \in Coming' : d <= Day(i.t) /\ (z.id = i.id => Slot(z.t) < Slot(i.t))
    <3>1. z.id \in Series /\ Slot(z.t) \in Nat /\ d <= Day(now)
      BY <1>0, OnDiskItems, LinesLined
    <3>2. Slot(z.t) <= Slot(bucket[z.id])
      BY <1>0, <1>2 DEF Stored
    <3>3. Slot(bucket[z.id]) \in Nat /\ Slot(bucket'[z.id]) \in Nat /\ Slot(bucket[z.id]) <= Slot(bucket'[z.id])
      BY <1>8, <3>1, TimesGrow
    <3>4. ASSUME NEW i \in Coming' PROVE d <= Day(i.t) /\ (z.id = i.id => Slot(z.t) < Slot(i.t))
      <4>1. CASE i \in Coming
        BY <1>0, <4>1 DEF Stored
      <4>2. CASE i \notin Coming
        <5>1. i.t = now /\ Slot(bucket[i.id]) < Slot(i.t)
          BY <1>4, <1>13, <4>2
        <5> QED
          BY <1>3, <3>1, <3>2, <3>3, <5>1
      <4> QED
        BY <4>1, <4>2
    <3> QED
      BY <3>1, <3>2, <3>3, <3>4
  <2> QED
    BY <1>0, <1>2, <1>7, <2>1, <2>2 DEF Stored
<1>16. Compaction'
  <2>1. ASSUME NEW i \in Coming', i \notin Coming PROVE Day(i.t) = Day(now)
    BY <1>4, <2>1
  <2>2. \A d \in DOMAIN gz : d < Day(now) /\ \A i \in Coming' : d < Day(i.t)
    BY <1>0, <2>1 DEF Compaction
  <2>3. \A d \in waiting \cup {job.today} : \A i \in Coming' : d <= Day(i.t)
    <3>1. \A d \in waiting \cup {job.today} : d <= Day(now)
      BY <1>0, <1>3 DEF Typing, Jobs
    <3> QED
      BY <1>0, <2>1, <3>1 DEF Compaction
  <2>4. Current' = Current
    BY <1>2 DEF Current
  <2> QED
    BY <1>0, <1>2, <2>2, <2>3, <2>4 DEF Compaction
<1> QED
  BY <1>9, <1>10, <1>14, <1>15, <1>16 DEF IInv

-----------------------------------------------------------------------------
(* Start, stop and time keep the invariant *)

\* What Load returns are items that there can be.
LEMMA LoadedItems ==
    ASSUME Typing, NEW x \in Loaded
    PROVE  x \in Items(now)
<1>1. PICK d \in DOMAIN Lines : x \in Held(Lines[d])
  BY LoadedIsHeld DEF Loaded
<1> QED
  BY <1>1, LinesLined, LinedFacts DEF Typing

LEMMA NewestOfPoints ==
    ASSUME NEW n \in Nat, NEW S \in SUBSET Items(n)
    PROVE  NewestOf(S) \in 0 .. n /\ \A i \in S : i.t <= NewestOf(S)
<1>1. CASE S = {}
  BY <1>1 DEF NewestOf
<1>2. CASE S # {}
  <2>1. Times(S) \in SUBSET (0 .. n) /\ Times(S) # {}
    BY <1>2, BatchTimes DEF Times
  <2>2. Max(Times(S)) \in Times(S) /\ \A y \in Times(S) : y <= Max(Times(S))
    BY <2>1, MaxOf
  <2> QED
    BY <1>2, <2>1, <2>2 DEF NewestOf, Times
<1> QED
  BY <1>1, <1>2

\* Load fills the buckets with the newest point of each series: none on the disk is
\* of a later slot.
LEMMA StartKeeps ==
    ASSUME IInv, Start
    PROVE  IInv'
<1>0. "loop" \in Threads /\ "main" \in Threads /\ Typing /\ Phases /\ Unsaved /\ Stored /\ Compaction
  BY DEF IInv, Threads
<1>1. /\ phase = "off" /\ phase' = "loading"
      /\ bucket' = [m \in Series |-> NewestOf({i \in Points(Loaded) : i.id = m})] /\ open' = {}
      /\ pend' = {} /\ slot' = 0 /\ job' = NewJob(Day(now))
      /\ now' = now /\ ticked' = ticked /\ thread' = thread /\ file' = file /\ plain' = plain
      /\ gz' = gz /\ tmp' = tmp /\ waiting' = waiting /\ faults' = faults
  BY DEF Start, disk
<1>2. now \in Nat /\ Slot(now) \in Nat /\ Day(now) \in Nat
  BY <1>0, TimesGrow DEF Typing
<1>3. \A x \in Threads : thread[x].at = "idle"
  BY <1>0, <1>1 DEF Phases
<1>4. Points(pend') = {} /\ Peaks(pend') = {} /\ Coming' = {} /\ Left' = {}
  BY <1>0, <1>1, <1>3 DEF Points, Peaks, Coming, Left
<1>5. \A m \in Series : bucket'[m] \in 0 .. now
                        /\ \A i \in Points(Loaded) : i.id = m => i.t <= bucket'[m]
  <2>1. ASSUME NEW m \in Series
        PROVE  bucket'[m] \in 0 .. now /\ \A i \in Points(Loaded) : i.id = m => i.t <= bucket'[m]
    <3> DEFINE S == {i \in Points(Loaded) : i.id = m}
    <3>1. S \in SUBSET Items(now)
      BY <1>0, LoadedItems DEF Points
    <3>2. bucket'[m] = NewestOf(S)
      BY <1>1
    <3>3. NewestOf(S) \in 0 .. now /\ \A i \in S : i.t <= NewestOf(S)
      BY <1>2, <3>1, NewestOfPoints
    <3> QED
      BY <3>2, <3>3
  <2> QED
    BY <2>1
<1>6. Typing'
  <2>1. bucket' \in [Series -> 0 .. now]
    BY <1>1, <1>5
  <2>2. job' \in Jobs(now)
    BY <1>0, <1>1, <1>2 DEF NewJob, Jobs, Typing, Files
  <2>3. slot' \in 0 .. Slot(now)
    BY <1>1, <1>2
  <2> QED
    BY <1>0, <1>1, <1>4, <2>1, <2>2, <2>3 DEF Typing
<1>7. Phases'
  BY <1>0, <1>1, <1>3, <1>4 DEF Phases
<1>8. Unsaved'
  BY <1>4 DEF Unsaved
<1>9. Stored'
  <2>1. Lines' = Lines /\ \A d : OnDisk(d)' = OnDisk(d)
    BY <1>1, SameLines
  <2>2. ASSUME NEW d \in DOMAIN Lines, NEW z \in OnDisk(d) PROVE Slot(z.t) <= Slot(bucket'[z.id])
    <3>1. PICK w \in Points(LoadedFrom(Lines)) : w.id = z.id /\ Slot(w.t) >= Slot(z.t)
      BY <1>0, <1>2, LinesLined, LoadedCovers DEF OnDisk
    <3>2. w \in Points(Loaded) /\ w \in Items(now)
      BY <1>0, <3>1, LoadedItems DEF Loaded, Points
    <3>3. w.t \in Nat /\ w.id \in Series /\ z.id \in Series
      BY <1>2, <3>1, <3>2, ItemFacts
    <3>4. w.t <= bucket'[z.id] /\ bucket'[z.id] \in Nat
      BY <1>5, <3>1, <3>2, <3>3
    <3>5. Slot(w.t) <= Slot(bucket'[z.id]) /\ Slot(w.t) \in Nat /\ Slot(bucket'[z.id]) \in Nat
      BY <3>3, <3>4, TimesGrow
    <3>6. Slot(z.t) \in Nat
      BY <1>0, OnDiskItems
    <3> QED
      BY <3>1, <3>5, <3>6
  <2> QED
    BY <1>4, <2>1, <2>2 DEF Stored
<1>10. Compaction'
  <2>1. job'.at = "look"
    BY <1>1 DEF NewJob
  <2> QED
    BY <1>0, <1>1, <1>4, <2>1 DEF Compaction
<1> QED
  BY <1>6, <1>7, <1>8, <1>9, <1>10 DEF IInv

\* What was unsaved is what shutdown has to write.
LEMMA StopKeeps ==
    ASSUME IInv, Stop
    PROVE  IInv'
<1>0. "loop" \in Threads /\ "main" \in Threads /\ Typing /\ Phases /\ Unsaved /\ Stored /\ Compaction
  BY DEF IInv, Threads
<1>1. /\ phase = "on" /\ phase' = "closing" /\ pend' = {}
      /\ thread' = [thread EXCEPT !["main"] =
            [at |-> "append", points |-> Points(pend), peaks |-> Peaks(pend), t |-> now, ok |-> TRUE]]
      /\ now' = now /\ ticked' = ticked /\ bucket' = bucket /\ open' = open /\ slot' = slot
      /\ file' = file /\ plain' = plain /\ gz' = gz /\ tmp' = tmp /\ waiting' = waiting
      /\ job' = job /\ faults' = faults
  BY DEF Stop, disk
<1>2. now \in Nat
  BY <1>0 DEF Typing
<1>3. /\ thread' \in [Threads -> Writers(now)]
      /\ thread'["main"].at = "append" /\ thread'["main"].points = Points(pend)
      /\ thread'["main"].peaks = Peaks(pend) /\ thread'["main"].t = now
      /\ thread'["loop"] = thread["loop"]
  <2>1. Points(pend) \in SUBSET Points(Items(now)) /\ Peaks(pend) \in SUBSET Peaks(Items(now - 1))
    BY <1>0 DEF Typing, Points, Peaks
  <2>2. \A y \in Threads : y # "main" => thread'[y] = thread[y]
    BY <1>0, <1>1, <2>1, BatchTaken
  <2> QED
    BY <1>0, <1>1, <2>1, <2>2, BatchTaken
<1>4. thread["main"].at = "idle"
  BY <1>0, <1>1 DEF Phases
<1>5. Points(pend') = {} /\ Peaks(pend') = {} /\ Left = {} /\ Left' = Points(pend)
  BY <1>1, <1>3, <1>4 DEF Points, Peaks, Left
<1>6. Coming' \subseteq Coming /\ Left' \subseteq Coming
  BY <1>1, <1>3, <1>5 DEF Coming
<1>7. pend = {} \/ Coming' = {}
  BY <1>0, <1>3, <1>5 DEF Phases, Coming
<1>8. pend = {} => Left' = {} /\ thread'["main"].peaks = {}
  BY <1>3, <1>5 DEF Points, Peaks
<1>9. Typing'
  BY <1>0, <1>1, <1>3, <1>5 DEF Typing
<1>10. Phases'
  <2>1. \A x \in Threads : x = "main" \/ x = "loop"
    BY DEF Threads
  <2>2. now <= now /\ now <= now + 1
    BY <1>2
  <2> QED
    BY <1>0, <1>1, <1>3, <1>5, <1>7, <1>8, <2>1, <2>2 DEF Phases
<1>11. Unsaved'
  BY <1>0, <1>1, <1>3, <1>5, <1>6, <1>7, <1>8 DEF Unsaved
<1>12. Stored'
  <2>1. Lines' = Lines /\ \A d : OnDisk(d)' = OnDisk(d)
    BY <1>1, SameLines
  <2>2. ASSUME NEW d \in DOMAIN Lines, NEW z \in OnDisk(d)
        PROVE  \A i \in Left' : /\ z.id = i.id => Slot(z.t) # Slot(i.t)
                                /\ ~ (d > Day(i.t))
    <3>1. ASSUME NEW i \in Left' PROVE (z.id = i.id => Slot(z.t) # Slot(i.t)) /\ ~ (d > Day(i.t))
      <4>1. d <= Day(i.t) /\ (z.id = i.id => Slot(z.t) < Slot(i.t))
        BY <1>0, <1>6 DEF Stored
      <4>2. d \in Nat /\ Day(i.t) \in Nat /\ Slot(z.t) \in Nat /\ Slot(i.t) \in Nat
        BY <1>0, <1>6, ComingItems, OnDiskItems
      <4> QED
        BY <4>1, <4>2
    <3> QED
      BY <3>1
  <2> QED
    BY <1>0, <1>1, <1>6, <2>1, <2>2 DEF Stored
<1>13. Compaction'
  <2>1. Current' = Current
    BY <1>1 DEF Current
  <2> QED
    BY <1>0, <1>1, <1>6, <2>1 DEF Compaction
<1> QED
  BY <1>9, <1>10, <1>11, <1>12, <1>13 DEF IInv

LEMMA CloseKeeps ==
    ASSUME IInv, Close
    PROVE  IInv'
<1>0. "loop" \in Threads /\ "main" \in Threads /\ Typing /\ Phases /\ Unsaved /\ Stored /\ Compaction
  BY DEF IInv, Threads
<1>1. /\ phase = "closing" /\ thread["main"].at = "idle" /\ job = NoJob
      /\ phase' = "closed" /\ file' = Closed /\ UNCHANGED <<now, ticked, memory, disk, waiting, job, faults>>
  BY DEF Close
<1>2. Coming' = Coming /\ Left' = Left /\ Lines' = Lines /\ \A d : OnDisk(d)' = OnDisk(d)
  BY <1>1, SameLines DEF memory, disk, Coming, Left
<1>3. Typing'
  BY <1>0, <1>1 DEF Typing, memory, disk
<1>4. Phases'
  BY <1>0, <1>1, <1>2 DEF Phases, memory
<1>5. Unsaved'
  BY <1>0, <1>1, <1>2 DEF Unsaved, memory
<1>6. Stored'
  BY <1>0, <1>1, <1>2 DEF Stored, memory
<1>7. Compaction'
  BY <1>0, <1>1, <1>2 DEF Compaction, memory, disk, NoJob
<1> QED
  BY <1>3, <1>4, <1>5, <1>6, <1>7 DEF IInv

\* The files after a kill, which may break off a write of points.
LEMMA CrashFiles ==
    ASSUME IInv, Crash
    PROVE  /\ phase' = "off" /\ faults' \in 0 .. MaxFaults
           /\ \/ plain' = plain /\ gz' = gz
              \/ \E x \in Threads : \E lines \in Seq(SUBSET thread[x].points) :
                    /\ thread[x].at = "append" /\ thread[x].points # {}
                    /\ Grown(lines, Day(FirstTime(thread[x].points)))
<1>0. Typing /\ now \in Nat /\ faults \in 0 .. MaxFaults /\ MaxFaults \in Nat
  BY HistoryAssumption DEF IInv, Typing
<1>1. Gone /\ faults < MaxFaults /\ faults' = faults + 1
  BY DEF Crash
<1>2. faults' \in 0 .. MaxFaults /\ phase' = "off"
  BY <1>0, <1>1 DEF Gone
<1>3. CASE plain' = plain /\ gz' = gz
  BY <1>2, <1>3
<1>4. CASE ~ (plain' = plain /\ gz' = gz)
  <2>1. PICK x \in Threads :
             LET S == thread[x].points
             IN  /\ thread[x].at = "append" /\ S # {}
                 /\ \E lines \in TornBatches(S) :
                       /\ plain' = Appended(Day(FirstTime(S)), FirstTime(S), lines)
                       /\ gz' = Opened(Day(FirstTime(S)), FirstTime(S)).gz
    BY <1>4 DEF Crash
  <2> DEFINE S == thread[x].points
             t == FirstTime(S)
  <2>2. PICK lines \in TornBatches(S) : plain' = Appended(Day(t), t, lines) /\ gz' = Opened(Day(t), t).gz
    BY <2>1
  <2>3. S \in SUBSET Items(now) /\ S # {} /\ thread[x].at = "append"
    BY <1>0, <2>1, ThreadFacts
  <2>4. t \in Nat /\ FirstRound <= t /\ t <= now
    <3>1. PICK i \in S : i.t = t
      BY <1>0, <2>3, BatchTimes
    <3>2. i \in Items(now)
      BY <2>3
    <3> QED
      BY <1>0, <3>1, <3>2, ItemFacts
  <2>5. lines \in Seq(SUBSET S)
    BY <1>0, <2>3, TornLines
  <2> HIDE DEF S, t
  <2>6. lines \in Seq(SUBSET Items(now))
    BY <2>3, <2>5, SeqWiden
  <2>7. Grown(lines, Day(t))
    BY <1>0, <2>2, <2>4, <2>6, WriteGrows
  <2> QED
    BY <1>2, <2>3, <2>5, <2>7 DEF S, t
<1> QED
  BY <1>3, <1>4

\* The end of the process: what was on its way is gone.
LEMMA GoneKeeps ==
    ASSUME IInv, Exit \/ Crash
    PROVE  IInv'
<1>0. "loop" \in Threads /\ "main" \in Threads /\ Typing /\ Phases /\ Unsaved /\ Stored /\ Compaction
  BY DEF IInv, Threads
<1>1. /\ Gone /\ faults' \in 0 .. MaxFaults
      /\ \/ plain' = plain /\ gz' = gz
         \/ \E lines, d : Grown(lines, d)
  <2>1. CASE Exit
    BY <1>0, <2>1 DEF Exit, Typing
  <2>2. CASE Crash
    BY <2>2, CrashFiles DEF Crash
  <2> QED
    BY <2>1, <2>2
<1>2. /\ phase' = "off" /\ bucket' = [m \in Series |-> 0] /\ open' = {} /\ pend' = {} /\ slot' = 0
      /\ thread' = [x \in Threads |-> Idle]
      /\ file' = Closed /\ waiting' = {} /\ job' = NoJob
      /\ now' = now /\ ticked' = ticked /\ tmp' = tmp
  BY <1>1 DEF Gone
<1>3. now \in Nat /\ Slot(now) \in Nat /\ Day(now) \in Nat
  BY <1>0, TimesGrow DEF Typing
<1>4. \A x \in Threads : thread'[x].at = "idle" /\ thread'[x].points = {} /\ thread'[x].peaks = {}
  BY <1>2 DEF Idle
<1>5. Points(pend') = {} /\ Peaks(pend') = {} /\ Coming' = {} /\ Left' = {}
  BY <1>0, <1>2, <1>4 DEF Points, Peaks, Coming, Left
<1>6. Files(plain', now) /\ Files(gz', now) /\ \A d \in DOMAIN gz' : d \in DOMAIN gz
  BY <1>0, <1>1 DEF Grown, Typing
<1>7. Typing'
  <2>1. Idle \in Writers(now)
    BY <1>3 DEF Idle, Writers
  <2>2. NoJob \in Jobs(now)
    BY <1>3 DEF NoJob, Jobs
  <2>3. 0 \in 0 .. now /\ 0 \in 0 .. Slot(now)
    BY <1>3
  <2>4. thread' \in [Threads -> Writers(now)] /\ bucket' \in [Series -> 0 .. now]
    BY <1>2, <2>1, <2>3
  <2> QED
    BY <1>0, <1>1, <1>2, <1>5, <1>6, <2>2, <2>3, <2>4 DEF Typing
<1>8. Phases'
  BY <1>0, <1>2, <1>4, <1>5 DEF Phases
<1>9. Unsaved'
  BY <1>5 DEF Unsaved
<1>10. Stored'
  BY <1>2, <1>5 DEF Stored
<1>11. Compaction'
  <2>1. job'.at = "none" /\ file' = Closed
    BY <1>2 DEF NoJob
  <2>2. \A d \in DOMAIN gz' : d < Day(now)
    BY <1>0, <1>6 DEF Compaction
  <2> QED
    BY <1>2, <1>5, <2>1, <2>2 DEF Compaction
<1> QED
  BY <1>7, <1>8, <1>9, <1>10, <1>11 DEF IInv

\* The lines when a round goes by: a day may fall out of the retention, and a new one
\* has nothing yet.
LEMMA AdvanceLines ==
    ASSUME Typing, now' = now + 1, plain' = plain, gz' = gz
    PROVE  /\ Lined(Lines', now + 1)
           /\ \A e \in DOMAIN Lines' : \/ e \in DOMAIN Lines /\ Lines'[e] = Lines[e]
                                       \/ e \notin DOMAIN Lines /\ Lines'[e] = <<>>
           /\ DOMAIN Lines \ DOMAIN Lines' \subseteq 1 .. Oldest(now') - 1
<1>1. now \in Nat /\ now + 1 \in Nat /\ now <= now + 1 /\ FirstRound <= now /\ FirstRound <= now + 1
  BY HistoryAssumption DEF Typing
<1>2. /\ Oldest(now) \in Int /\ Oldest(now + 1) \in Int /\ Oldest(now) <= Oldest(now + 1)
      /\ Day(now) \in Nat /\ Day(now + 1) \in Nat /\ Day(now) <= Day(now + 1)
      /\ 1 <= Oldest(now) /\ 1 <= Oldest(now + 1)
  BY <1>1, TimesGrow, FirstDays
<1>3. DOMAIN Lines = Oldest(now) .. Day(now) /\ DOMAIN Lines' = Oldest(now + 1) .. Day(now + 1)
  BY DEF Lines
<1>4. \A e : Content(e)' = Content(e)
  BY DEF Content
<1>5. /\ \A e \in DOMAIN Lines : Lines[e] = Content(e)
      /\ \A e \in DOMAIN Lines' : Lines'[e] = Content(e)
  BY <1>4 DEF Lines
<1>6. ASSUME NEW e \in DOMAIN Lines'
      PROVE  \/ e \in DOMAIN Lines /\ Lines'[e] = Lines[e]
             \/ e \notin DOMAIN Lines /\ Lines'[e] = <<>>
  <2>1. CASE e \in DOMAIN Lines
    BY <1>5, <2>1
  <2>2. CASE e \notin DOMAIN Lines
    <3>1. e \in Nat /\ e > Day(now)
      BY <1>2, <1>3, <2>2
    <3>2. e \notin DOMAIN plain /\ e \notin DOMAIN gz
      <4>1. DOMAIN plain \subseteq 1 .. Day(now) /\ DOMAIN gz \subseteq 1 .. Day(now)
        BY DEF Typing, Files
      <4>2. e \notin 1 .. Day(now)
        BY <1>2, <3>1
      <4> QED
        BY <4>1, <4>2
    <3> QED
      BY <1>5, <2>2, <3>2 DEF Content
  <2> QED
    BY <2>1, <2>2
<1>7. Lined(Lines', now + 1)
  <2>1. \A e : Content(e) \in Seq(SUBSET Items(now))
    BY DEF Typing, Files, Content
  <2>2. Items(now) \subseteq Items(now + 1)
    BY <1>1, ItemsGrow
  <2>3. \A e : Content(e) \in Seq(SUBSET Items(now + 1))
    BY <2>1, <2>2, SeqWiden
  <2> QED
    BY <1>2, <1>3, <1>5, <2>3 DEF Lined
<1>8. DOMAIN Lines \ DOMAIN Lines' \subseteq 1 .. Oldest(now') - 1
  BY <1>2, <1>3
<1> QED
  BY <1>6, <1>7, <1>8

LEMMA AdvanceKeeps ==
    ASSUME IInv, Advance
    PROVE  IInv'
<1>0. "loop" \in Threads /\ "main" \in Threads /\ Typing /\ Phases /\ Unsaved /\ Stored /\ Compaction
  BY DEF IInv, Threads
<1>1. /\ phase # "loading" /\ (phase = "on" => ticked)
      /\ phase \in {"closing", "closed"} => now = thread["main"].t
      /\ \A x \in Threads : thread[x].at = "idle"
      /\ now' = now + 1 /\ ticked' = FALSE
      /\ phase' = phase /\ bucket' = bucket /\ open' = open /\ pend' = pend /\ slot' = slot
      /\ thread' = thread /\ file' = file /\ plain' = plain /\ gz' = gz /\ tmp' = tmp
      /\ waiting' = waiting /\ job' = job /\ faults' = faults
  BY DEF Advance, memory, disk
<1>2. now \in Nat /\ FirstRound <= now /\ now <= now + 1 /\ now + 1 \in Nat /\ FirstRound <= now + 1
  BY <1>0, HistoryAssumption DEF Typing
<1>3. /\ Oldest(now) \in Int /\ Oldest(now + 1) \in Int /\ Oldest(now) <= Oldest(now + 1)
      /\ Day(now) \in Nat /\ Day(now + 1) \in Nat /\ Day(now) <= Day(now + 1)
  BY <1>2, TimesGrow
<1>4. Coming' = Coming /\ Left' = Left /\ Left = {} /\ Coming = Points(pend)
  BY <1>0, <1>1 DEF Coming, Left
<1>5. Typing'
  <2> DEFINE n == now + 1
  <2>1. n \in Nat /\ now <= n /\ FirstRound <= n /\ now' = n
    BY <1>1, <1>2
  <2> HIDE DEF n
  <2>2. /\ Items(now) \subseteq Items(n) /\ Items(now - 1) \subseteq Items(n - 1)
        /\ 0 .. now \subseteq 0 .. n
        /\ 0 .. Slot(now) \subseteq 0 .. Slot(n) /\ 0 .. Day(now) \subseteq 0 .. Day(n)
        /\ 1 .. Day(now) \subseteq 1 .. Day(n)
        /\ Writers(now) \subseteq Writers(n) /\ Jobs(now) \subseteq Jobs(n)
        /\ \A f : Files(f, now) => Files(f, n)
    BY <1>2, <2>1, TypesGrow
  <2>3. bucket \in [Series -> 0 .. n] /\ thread \in [Threads -> Writers(n)]
    BY <1>0, <2>2 DEF Typing
  <2>4. slot \in 0 .. Slot(n) /\ file \in {Closed} \cup 1 .. Day(n)
        /\ waiting \in SUBSET (0 .. Day(n)) /\ job \in Jobs(n)
        /\ Files(plain, n) /\ Files(gz, n) /\ Files(tmp, n)
        /\ Points(pend) \subseteq Items(n) /\ Peaks(pend) \subseteq Items(n - 1)
    BY <1>0, <2>2 DEF Typing
  <2> QED
    BY <1>0, <1>1, <2>1, <2>3, <2>4 DEF Typing
<1>6. Phases'
  <2>1. ASSUME phase \in {"closing", "closed"} PROVE thread["main"].t <= now + 1 /\ now + 1 <= thread["main"].t + 1
    BY <1>1, <1>2, <2>1
  <2> QED
    BY <1>0, <1>1, <1>4, <2>1 DEF Phases
<1>7. Unsaved'
  <2>1. ASSUME NEW i \in Coming PROVE (now + 1) - SlotLen <= i.t
    <3>1. i \in Points(pend) /\ pend # {} /\ i.t \in Nat /\ i.t <= now /\ SlotLen \in Nat /\ SlotLen >= 1
      BY <1>0, <1>4, ComingItems, HistoryAssumption DEF Points
    <3>2. CASE phase = "on"
      <4>1. Slot(i.t) = Slot(thread["loop"].t) /\ thread["loop"].t = now
        BY <1>0, <1>1, <3>1, <3>2 DEF Unsaved
      <4>2. now < i.t + SlotLen
        BY <1>2, <3>1, <4>1, SameSlot
      <4> QED
        BY <1>2, <3>1, <4>2
    <3>3. CASE phase \in {"closing", "closed"}
      <4>1. i.t >= now
        BY <1>0, <1>1, <3>1, <3>3 DEF Phases
      <4> QED
        BY <1>2, <3>1, <4>1
    <3>4. phase \notin {"off", "loading"}
      BY <1>0, <3>1 DEF Phases
    <3> QED
      BY <1>0, <3>2, <3>3, <3>4 DEF Typing
  <2>2. Points(pend) # {} /\ phase = "on" => thread["loop"].t = (now + 1) - 1
    BY <1>0, <1>1, <1>2 DEF Unsaved
  <2>3. (Points(pend) # {} /\ phase = "on" =>
           thread["loop"].t = now \/ (thread["loop"].t = now - 1 /\ ~ticked))'
    BY <1>1, <2>2
  <2>4. (\A i \in Coming \cup Left : now - SlotLen <= i.t /\ bucket[i.id] >= i.t)'
    <3>1. \A i \in Coming : bucket[i.id] >= i.t
      BY <1>0 DEF Unsaved
    <3>2. \A i \in Coming : now' - SlotLen <= i.t
      BY <1>1, <2>1
    <3> QED
      BY <1>1, <1>4, <3>1, <3>2
  <2>5. (\A i \in Points(pend) : Slot(i.t) = slot /\ slot = Slot(thread["loop"].t))'
    BY <1>0, <1>1 DEF Unsaved
  <2> QED
    BY <1>0, <1>4, <2>3, <2>4, <2>5 DEF Unsaved
<1>8. Stored'
  <2>1. \A e \in DOMAIN Lines' : \/ e \in DOMAIN Lines /\ Lines'[e] = Lines[e]
                                 \/ e \notin DOMAIN Lines /\ Lines'[e] = <<>>
    BY <1>0, <1>1, AdvanceLines
  <2>2. \A e \in DOMAIN Lines' : \A z \in OnDisk(e)' : e \in DOMAIN Lines /\ z \in OnDisk(e)
    BY <2>1 DEF OnDisk, Points, Held
  <2> QED
    BY <1>0, <1>1, <1>4, <2>2 DEF Stored
<1>9. Compaction'
  <2>1. \A d \in DOMAIN gz : d \in Nat /\ d < Day(now + 1)
    BY <1>0, <1>3 DEF Compaction, Typing, Files
  <2>2. Current' = Current
    BY <1>1 DEF Current
  <2>3. \A d \in Int : d >= Oldest(now + 1) => d >= Oldest(now)
    BY <1>3
  <2>4. \A d \in Int : d < Oldest(now) => d < Oldest(now + 1)
    BY <1>3
  <2>5. file \in Int
    BY <1>0, <1>3 DEF Typing, Closed
  <2>6. job.at = "rename" => Current \in Int
    BY <1>0 DEF Compaction, Typing, Files
  <2>7. ASSUME job.at = "remove", Current \notin DOMAIN gz PROVE Current < Oldest(now + 1)
    <3>1. Current < Oldest(now)
      BY <1>0, <2>7 DEF Compaction
    <3>2. Current \in Int
      BY <1>0, <2>7, CurrentIsDay DEF Compaction
    <3> QED
      BY <2>4, <3>1, <3>2
  <2> QED
    BY <1>0, <1>1, <1>4, <2>1, <2>2, <2>3, <2>4, <2>5, <2>6, <2>7 DEF Compaction
<1> QED
  BY <1>5, <1>6, <1>7, <1>8, <1>9 DEF IInv

-----------------------------------------------------------------------------
(* The compaction keeps the invariant *)

\* The next file of the list, and the same file in the next step.
LEMMA JobSteps ==
    ASSUME Typing, job.todo # {}
    PROVE  /\ NextFile \in Jobs(now) /\ NextFile.at = "look" /\ NextFile.today = job.today
           /\ \A at \in {"rename", "remove"} :
                 /\ [job EXCEPT !.at = at] \in Jobs(now) /\ [job EXCEPT !.at = at].at = at
                 /\ [job EXCEPT !.at = at].today = job.today
                 /\ [job EXCEPT !.at = at].todo = job.todo
<1>1. job \in Jobs(now)
  BY DEF Typing
<1>2. job.todo \ {Current} \in SUBSET (1 .. Day(now))
  BY <1>1 DEF Jobs
<1>3. NextFile \in Jobs(now) /\ NextFile.at = "look" /\ NextFile.today = job.today
  BY <1>1, <1>2 DEF Jobs, NextFile
<1>4. ASSUME NEW at \in {"rename", "remove"}
      PROVE  /\ [job EXCEPT !.at = at] \in Jobs(now) /\ [job EXCEPT !.at = at].at = at
             /\ [job EXCEPT !.at = at].today = job.today
             /\ [job EXCEPT !.at = at].todo = job.todo
  BY <1>1 DEF Jobs
<1> QED
  BY <1>3, <1>4

\* The steps of a compaction: what is past the retention or can be read in its
\* compressed form is removed, nothing happens to what is read, a copy is made, or the
\* copy takes the place of the plain file.
Removed ==
    /\ gz' = gz /\ job'.at = "look"
    /\ Current \in DOMAIN gz \/ Current < Oldest(now)
    /\ plain' = Without(plain, Current)
Untouched == plain' = plain /\ gz' = gz /\ job'.at \in {"none", "look"}
Copied ==
    /\ plain' = plain /\ gz' = gz /\ job'.at = "rename" /\ job'.todo = job.todo
    /\ job'.today = job.today
    /\ Current \in DOMAIN plain /\ Current \notin DOMAIN gz /\ Current < job.today
    /\ tmp' = With(tmp, Current, plain[Current])
Renamed ==
    /\ job.at = "rename" /\ plain' = plain /\ gz' = With(gz, Current, tmp[Current])
    /\ job'.at = "remove" /\ job'.todo = job.todo

LEMMA CompactEffect ==
    ASSUME Typing, Compaction, Compact
    PROVE  /\ job # NoJob /\ faults' \in 0 .. MaxFaults
           /\ UNCHANGED <<now, ticked, bucket, open, pend, slot, thread, file, waiting>>
           /\ phase' = phase \/ (phase = "loading" /\ phase' = "on")
           /\ job' \in Jobs(now) /\ job'.today \in {job.today, 0}
           /\ job'.at \in {"rename", "remove"} => job.todo # {}
           /\ Files(tmp', now)
           /\ Removed \/ Untouched \/ Copied \/ Renamed
<1>1. /\ job # NoJob
      /\ UNCHANGED <<now, ticked, bucket, open, pend, slot, thread, file, waiting>>
  BY DEF Compact, memory
<1>2. faults \in 0 .. MaxFaults /\ MaxFaults \in Nat /\ Day(now) \in Nat
      /\ Files(plain, now) /\ Files(gz, now) /\ Files(tmp, now)
  BY HistoryAssumption, TimesGrow DEF Typing
<1>3. Files(Without(tmp, Current), now)
  BY <1>2 DEF Files, Without
<1>4. CASE job.todo # {} /\ job.at = "look" /\ Skip /\ UNCHANGED <<faults, phase>>
  <2>1. job' = NextFile /\ tmp' = Without(tmp, Current) /\ gz' = gz
    BY <1>4 DEF Skip
  <2>2. /\ job' \in Jobs(now) /\ job'.at = "look" /\ job'.today = job.today
    BY <1>4, <2>1, JobSteps
  <2>3. Removed \/ Untouched
    BY <1>4, <2>1, <2>2 DEF Skip, Removed, Untouched
  <2> QED
    BY <1>1, <1>2, <1>3, <1>4, <2>1, <2>2, <2>3
<1>5. CASE job.todo # {} /\ job.at = "look" /\ Copy /\ UNCHANGED phase
  <2>1. plain' = plain /\ gz' = gz /\ Current \in DOMAIN plain /\ Current \notin DOMAIN gz /\ Current < job.today
    BY <1>5 DEF Copy
  <2>2. CASE tmp' = With(tmp, Current, plain[Current]) /\ job' = [job EXCEPT !.at = "rename"] /\ faults' = faults
    <3>1. job' \in Jobs(now) /\ job'.at = "rename" /\ job'.today = job.today /\ job'.todo = job.todo
      BY <1>5, <2>2, JobSteps
    <3>2. Copied
      BY <2>1, <2>2, <3>1 DEF Copied
    <3>3. Files(tmp', now)
      BY <1>2, <2>1, <2>2 DEF Files, With
    <3> QED
      BY <1>1, <1>2, <1>5, <2>2, <3>1, <3>2, <3>3
  <2>3. CASE faults < MaxFaults /\ faults' = faults + 1 /\ tmp' = Without(tmp, Current) /\ job' = NextFile
    <3>1. /\ job' \in Jobs(now) /\ job'.at = "look" /\ job'.today = job.today
      BY <1>5, <2>3, JobSteps
    <3>2. Untouched /\ faults' \in 0 .. MaxFaults
      BY <1>2, <2>1, <2>3, <3>1 DEF Untouched
    <3> QED
      BY <1>1, <1>3, <1>5, <2>3, <3>1, <3>2
  <2> QED
    BY <1>5, <2>2, <2>3 DEF Copy
<1>6. CASE job.todo # {} /\ job.at = "rename" /\ Rename /\ UNCHANGED <<faults, phase>>
  <2>1. job' = [job EXCEPT !.at = "remove"] /\ plain' = plain /\ gz' = With(gz, Current, tmp[Current])
        /\ tmp' = Without(tmp, Current)
    BY <1>6 DEF Rename
  <2>2. job' \in Jobs(now) /\ job'.at = "remove" /\ job'.today = job.today /\ job'.todo = job.todo
    BY <1>6, <2>1, JobSteps
  <2>3. Renamed
    BY <1>6, <2>1, <2>2 DEF Renamed
  <2> QED
    BY <1>1, <1>2, <1>3, <1>6, <2>1, <2>2, <2>3
<1>7. CASE job.todo # {} /\ job.at = "remove" /\ RemovePlain /\ UNCHANGED <<faults, phase>>
  <2>1. job' = NextFile /\ plain' = Without(plain, Current) /\ gz' = gz /\ tmp' = tmp
    BY <1>7 DEF RemovePlain
  <2>2. /\ job' \in Jobs(now) /\ job'.at = "look" /\ job'.today = job.today
    BY <1>7, <2>1, JobSteps
  <2>3. Removed
    BY <1>7, <2>1, <2>2 DEF Removed, Compaction
  <2> QED
    BY <1>1, <1>2, <1>7, <2>1, <2>2, <2>3
<1>8. CASE /\ job' = NoJob
           /\ phase' = IF phase = "loading" THEN "on" ELSE phase
           /\ UNCHANGED <<disk, faults>>
  <2>1. job' \in Jobs(now) /\ job'.at = "none" /\ job'.today = 0
    BY <1>2, <1>8 DEF NoJob, Jobs
  <2>2. Untouched /\ tmp' = tmp
    BY <1>8, <2>1 DEF Untouched, disk
  <2> QED
    BY <1>1, <1>2, <1>8, <2>1, <2>2
<1> QED
  BY <1>4, <1>5, <1>6, <1>7, <1>8 DEF Compact

\* What Load reads does not change, but for a copy that takes the place of the file
\* it was made of: only while shutdown is at work may that file have grown since.
LEMMA CompactLines ==
    ASSUME Typing, Compaction, Compact
    PROVE  \/ Lines' = Lines
           \/ /\ job.at = "rename" /\ Current \in DOMAIN Lines
              /\ Lined(Lines', now) /\ DOMAIN Lines' = DOMAIN Lines
              /\ \A e \in DOMAIN Lines : e # Current => Lines'[e] = Lines[e]
              /\ Lines'[Current] = tmp[Current] /\ Extends(Lines[Current], Lines'[Current])
              /\ phase = "closing"
<1>1. now' = now /\ (Removed \/ Untouched \/ Copied \/ Renamed)
  BY CompactEffect
<1>2. DOMAIN Lines' = DOMAIN Lines /\ \A e \in DOMAIN Lines : Lines'[e] = Content(e)' /\ Lines[e] = Content(e)
  BY <1>1 DEF Lines
<1>3. CASE (Untouched \/ Copied)
  BY <1>1, <1>3, SameLines DEF Untouched, Copied
<1>4. CASE Removed
  <2>1. \A e \in DOMAIN Lines : Content(e)' = Content(e)
    <3>1. ASSUME NEW e \in DOMAIN Lines PROVE Content(e)' = Content(e)
      <4>1. gz' = gz /\ plain' = Without(plain, Current)
            /\ (Current \in DOMAIN gz \/ Current < Oldest(now))
        BY <1>4 DEF Removed
      <4>2. CASE e # Current
        BY <4>1, <4>2 DEF Content, Without
      <4>3. CASE e = Current
        <5>1. e \in Nat /\ Oldest(now) <= e /\ Oldest(now) \in Int
          BY LinesLined, TimesGrow DEF Typing
        <5>2. e \in DOMAIN gz
          BY <4>1, <4>3, <5>1
        <5> QED
          BY <4>1, <5>2 DEF Content
      <4> QED
        BY <4>2, <4>3
    <3> QED
      BY <3>1
  <2> QED
    BY <1>1, <2>1 DEF Lines
<1>5. CASE Renamed
  <2>1. /\ job.at = "rename" /\ plain' = plain /\ gz' = With(gz, Current, tmp[Current])
        /\ Current \notin DOMAIN gz /\ Current \in DOMAIN tmp
    BY <1>5 DEF Renamed, Compaction
  <2>2. \A e : Content(e)' = IF e = Current THEN tmp[Current] ELSE Content(e)
    BY <2>1 DEF Content, With
  <2>3. CASE Current \notin DOMAIN Lines
    <3>1. \A e \in DOMAIN Lines : Content(e)' = Content(e)
      BY <2>2, <2>3
    <3> QED
      BY <1>1, <3>1 DEF Lines
  <2>4. CASE Current \in DOMAIN Lines
    <3>1. Current >= Oldest(now)
      BY <2>4, LinesLined, TimesGrow DEF Typing
    <3>2. /\ Current \in DOMAIN plain /\ Extends(plain[Current], tmp[Current])
          /\ phase # "closing" => plain[Current] = tmp[Current]
      BY <2>1, <3>1 DEF Compaction
    <3>3. Lines[Current] = plain[Current] /\ Lines'[Current] = tmp[Current]
      BY <1>2, <2>1, <2>2, <2>4, <3>2 DEF Content
    <3>4. \A e \in DOMAIN Lines : e # Current => Lines'[e] = Lines[e]
      BY <1>2, <2>2
    <3>5. CASE phase # "closing"
      <4>1. \A e \in DOMAIN Lines : Content(e)' = Content(e)
        BY <1>2, <3>2, <3>3, <3>4, <3>5
      <4> QED
        BY <1>1, <4>1 DEF Lines
    <3>6. CASE phase = "closing"
      <4>1. tmp[Current] \in Seq(SUBSET Items(now))
        BY <2>1 DEF Typing, Files
      <4>2. Lined(Lines', now)
        <5>1. \A e \in DOMAIN Lines : Lines'[e] \in Seq(SUBSET Items(now))
          BY <3>3, <3>4, <4>1, LinesLined
        <5> QED
          BY <1>2, <5>1, LinesLined DEF Lined
      <4> QED
        BY <1>2, <2>1, <2>4, <3>2, <3>3, <3>4, <3>6, <4>2
    <3> QED
      BY <3>5, <3>6
  <2> QED
    BY <2>3, <2>4
<1> QED
  BY <1>1, <1>3, <1>4, <1>5

LEMMA CompactKeeps ==
    ASSUME IInv, Compact
    PROVE  IInv'
<1>0. "loop" \in Threads /\ "main" \in Threads /\ Typing /\ Phases /\ Unsaved /\ Stored /\ Compaction
  BY DEF IInv, Threads
<1>1. /\ job # NoJob /\ faults' \in 0 .. MaxFaults
      /\ now' = now /\ ticked' = ticked /\ bucket' = bucket /\ open' = open /\ pend' = pend
      /\ slot' = slot /\ thread' = thread /\ file' = file /\ waiting' = waiting
      /\ phase' = phase \/ (phase = "loading" /\ phase' = "on")
      /\ job' \in Jobs(now) /\ job'.today \in {job.today, 0}
      /\ job'.at \in {"rename", "remove"} => job.todo # {}
      /\ Files(tmp', now)
      /\ Removed \/ Untouched \/ Copied \/ Renamed
  BY <1>0, CompactEffect
<1>2. Coming' = Coming /\ Left' = Left
  BY <1>1 DEF Coming, Left
<1>3. Oldest(now) \in Int /\ Day(now) \in Nat /\ phase # "off"
  BY <1>0, <1>1, TimesGrow DEF Typing, Phases
<1>4. Typing'
  <2>1. Files(plain', now) /\ Files(gz', now)
    <3>1. Files(plain, now) /\ Files(gz, now) /\ Files(tmp, now)
      BY <1>0 DEF Typing
    <3>2. Files(Without(plain, Current), now)
      BY <3>1 DEF Files, Without
    <3>3. CASE Renamed
      <4>1. Current \in DOMAIN tmp /\ gz' = With(gz, Current, tmp[Current]) /\ plain' = plain
        BY <1>0, <3>3 DEF Renamed, Compaction
      <4> QED
        BY <3>1, <4>1 DEF Files, With
    <3> QED
      BY <1>1, <3>1, <3>2, <3>3 DEF Removed, Untouched, Copied
  <2>2. phase' \in {"off", "loading", "on", "closing", "closed"}
    BY <1>0, <1>1 DEF Typing
  <2> QED
    BY <1>0, <1>1, <2>1, <2>2 DEF Typing
<1>5. Phases'
  <2>1. phase' # "off" /\ (phase' = "loading" => phase = "loading")
        /\ (phase = "closing" <=> phase' = "closing")
        /\ (phase = "closed" <=> phase' = "closed")
    BY <1>1, <1>3
  <2> QED
    BY <1>0, <1>1, <1>2, <2>1 DEF Phases
<1>6. Unsaved'
  <2>1. Points(pend) # {} => phase' = phase
    BY <1>0, <1>1 DEF Phases, Points
  <2> QED
    BY <1>0, <1>1, <1>2, <2>1 DEF Unsaved
<1>7. Stored'
  <2>1. DOMAIN Lines' = DOMAIN Lines /\ \A d \in DOMAIN Lines : OnDisk(d)' \subseteq OnDisk(d)
    <3>1. CASE Lines' = Lines
      BY <3>1 DEF OnDisk
    <3>2. CASE /\ DOMAIN Lines' = DOMAIN Lines
               /\ \A e \in DOMAIN Lines : e # Current => Lines'[e] = Lines[e]
               /\ Extends(Lines[Current], Lines'[Current])
      BY <3>2, ExtendsHolds DEF OnDisk, Points
    <3> QED
      BY <1>0, <3>1, <3>2, CompactLines
  <2> QED
    BY <1>0, <1>1, <1>2, <1>3, <2>1 DEF Stored
<1>8. Compaction'
  <2>1. job.today \in 0 .. Day(now) /\ job.today \in Nat
    BY <1>0, <1>3 DEF Typing, Jobs
  <2>2. \A i \in Coming : Day(i.t) \in Nat
    BY <1>0, ComingItems
  <2>3. (\A d \in DOMAIN gz : d < Day(now) /\ \A i \in Coming : d < Day(i.t))'
    <3>1. CASE gz' = gz
      BY <1>0, <1>1, <1>2, <3>1 DEF Compaction
    <3>2. CASE Renamed
      <4>1. Current \in DOMAIN tmp /\ Current < job.today /\ DOMAIN gz' = DOMAIN gz \cup {Current}
        BY <1>0, <3>2 DEF Renamed, Compaction, With
      <4>2. Current \in Nat
        BY <1>0, <4>1 DEF Typing, Files
      <4>3. Current < Day(now) /\ \A i \in Coming : Current < Day(i.t)
        <5>1. \A i \in Coming : job.today <= Day(i.t)
          BY <1>0 DEF Compaction
        <5> QED
          BY <1>3, <2>1, <2>2, <4>1, <4>2, <5>1
      <4> QED
        BY <1>0, <1>1, <1>2, <4>1, <4>3 DEF Compaction
    <3> QED
      BY <1>1, <3>1, <3>2 DEF Removed, Untouched, Copied
  <2>4. (\A d \in waiting \cup {job.today} : \A i \in Coming : d <= Day(i.t))'
    BY <1>0, <1>1, <1>2, <2>2 DEF Compaction
  <2>5. ASSUME job'.at = "rename"
        PROVE  /\ Current' = Current /\ Current \in DOMAIN tmp' /\ Current \notin DOMAIN gz' /\ Current < job'.today
               /\ Current \in DOMAIN plain' /\ Extends(plain'[Current], tmp'[Current])
               /\ plain'[Current] = tmp'[Current]
    <3>1. Copied
      BY <1>1, <2>5 DEF Removed, Untouched, Renamed
    <3>2. Current' = Current
      BY <3>1 DEF Copied, Current
    <3> QED
      BY <3>1, <3>2, ExtendsSelf DEF Copied, With
  <2>6. ASSUME job'.at = "remove" PROVE Current' = Current /\ Current \in DOMAIN gz'
    BY <1>1, <2>6 DEF Removed, Untouched, Copied, Renamed, Current, With
  <2>7. job'.at \in {"rename", "remove"} => job'.todo # {}
    BY <1>1 DEF Removed, Untouched, Copied, Renamed
  <2>8. file = Closed \/ file \in DOMAIN plain' \cup DOMAIN gz' \/ file < Oldest(now)
    <3>1. file = Closed \/ file \in DOMAIN plain \cup DOMAIN gz \/ file < Oldest(now)
      BY <1>0 DEF Compaction
    <3> QED
      BY <1>1, <3>1 DEF Removed, Untouched, Copied, Renamed, With, Without
  <2> QED
    BY <1>1, <2>3, <2>4, <2>5, <2>6, <2>7, <2>8 DEF Compaction
<1> QED
  BY <1>4, <1>5, <1>6, <1>7, <1>8 DEF IInv
\* A compaction begins.
LEMMA BeginKeeps ==
    ASSUME IInv, BeginJob
    PROVE  IInv'
<1>0. Typing /\ Phases /\ Unsaved /\ Stored /\ Compaction
  BY DEF IInv
<1>1. PICK today \in waiting : job' = NewJob(today) /\ waiting' = waiting \ {today}
  BY DEF BeginJob
<1>2. UNCHANGED <<now, phase, ticked, bucket, open, pend, slot, thread, file, plain, gz, tmp, faults>>
  BY DEF BeginJob, memory, disk
<1>3. Coming' = Coming /\ Left' = Left /\ Lines' = Lines /\ \A d : OnDisk(d)' = OnDisk(d)
  BY <1>2, SameLines DEF Coming, Left
<1>4. job' \in Jobs(now) /\ job'.at = "look" /\ job'.today = today
  BY <1>0, <1>1 DEF NewJob, Jobs, Typing, Files
<1>5. Typing'
  BY <1>0, <1>1, <1>2, <1>4 DEF Typing
<1>6. Phases'
  BY <1>0, <1>1, <1>2, <1>3 DEF Phases
<1>7. Unsaved'
  BY <1>0, <1>2, <1>3 DEF Unsaved
<1>8. Stored'
  BY <1>0, <1>2, <1>3 DEF Stored
<1>9. Compaction'
  BY <1>0, <1>1, <1>2, <1>3, <1>4 DEF Compaction
<1> QED
  BY <1>5, <1>6, <1>7, <1>8, <1>9 DEF IInv

-----------------------------------------------------------------------------
(* The invariant *)

LEMMA InitHolds == Init => IInv
<1> SUFFICES ASSUME Init PROVE IInv
  OBVIOUS
<1>1. now = FirstRound /\ FirstRound \in Nat /\ MaxFaults \in Nat /\ Slot(now) \in Nat /\ Day(now) \in Nat
  BY HistoryAssumption, TimesGrow DEF Init
<1>2. /\ \A x \in Threads : thread[x].at = "idle" /\ thread[x].points = {} /\ thread[x].peaks = {}
      /\ "main" \in Threads /\ "loop" \in Threads
  BY DEF Init, Idle, Threads
<1>3. Points(pend) = {} /\ Peaks(pend) = {} /\ Coming = {} /\ Left = {}
  BY <1>2 DEF Init, Points, Peaks, Coming, Left
<1>4. Typing
  <2>1. Idle \in Writers(now)
    BY <1>1 DEF Idle, Writers
  <2>2. NoJob \in Jobs(now)
    BY <1>1 DEF NoJob, Jobs
  <2>3. Files(NoFiles, now)
    BY DEF NoFiles, Files
  <2>4. 0 \in 0 .. now /\ 0 \in 0 .. Slot(now) /\ 0 \in 0 .. MaxFaults /\ FirstRound <= now
    BY <1>1
  <2>5. bucket \in [Series -> 0 .. now] /\ thread \in [Threads -> Writers(now)]
    BY <2>1, <2>4 DEF Init
  <2> QED
    BY <1>1, <1>3, <2>2, <2>3, <2>4, <2>5 DEF Init, Typing
<1>5. Phases
  BY <1>2, <1>3 DEF Init, Phases
<1>6. Unsaved
  BY <1>3 DEF Unsaved
<1>7. Stored
  BY <1>3 DEF Init, Stored
<1>8. Compaction
  <2>1. job.at = "none" /\ file = Closed /\ DOMAIN gz = {}
    BY DEF Init, NoJob, NoFiles
  <2> QED
    BY <1>3, <2>1 DEF Compaction
<1> QED
  BY <1>4, <1>5, <1>6, <1>7, <1>8 DEF IInv

LEMMA SameKeeps ==
    ASSUME IInv, UNCHANGED vars
    PROVE  IInv'
<1>1. /\ now' = now /\ phase' = phase /\ ticked' = ticked /\ bucket' = bucket /\ open' = open
      /\ pend' = pend /\ slot' = slot /\ thread' = thread /\ file' = file /\ plain' = plain
      /\ gz' = gz /\ tmp' = tmp /\ waiting' = waiting /\ job' = job /\ faults' = faults
  BY DEF vars
<1>2. Coming' = Coming /\ Left' = Left /\ Lines' = Lines /\ (\A d : OnDisk(d)' = OnDisk(d)) /\ Current' = Current
  BY <1>1, SameLines DEF Coming, Left, Current
<1>3. Typing'
  BY <1>1 DEF IInv, Typing
<1>4. Phases'
  BY <1>1, <1>2 DEF IInv, Phases
<1>5. Unsaved'
  BY <1>1, <1>2 DEF IInv, Unsaved
<1>6. Stored'
  BY <1>1, <1>2 DEF IInv, Stored
<1>7. Compaction'
  BY <1>1, <1>2 DEF IInv, Compaction
<1> QED
  BY <1>3, <1>4, <1>5, <1>6, <1>7 DEF IInv

\* Every step keeps it.
LEMMA StepKeeps == IInv /\ [Next]_vars => IInv'
<1> SUFFICES ASSUME IInv, [Next]_vars PROVE IInv'
  OBVIOUS
<1>1. CASE Start
  BY <1>1, StartKeeps
<1>2. CASE Stop
  BY <1>2, StopKeeps
<1>3. CASE Close
  BY <1>3, CloseKeeps
<1>4. CASE Exit \/ Crash
  BY <1>4, GoneKeeps
<1>5. CASE Advance
  BY <1>5, AdvanceKeeps
<1>6. CASE Tick
  BY <1>6, TickKeeps
<1>7. CASE \E x \in Threads : AppendPoints(x) \/ AppendPeaks(x)
  BY <1>7, WritingThread, LoopPoints, MainPoints, AnyPeaks
<1>8. CASE BeginJob
  BY <1>8, BeginKeeps
<1>9. CASE Compact
  BY <1>9, CompactKeeps
<1>10. CASE UNCHANGED vars
  BY <1>10, SameKeeps
<1> QED
  BY <1>1, <1>2, <1>3, <1>4, <1>5, <1>6, <1>7, <1>8, <1>9, <1>10 DEF Next

\* The inductive invariant holds in every reachable state: what is on its way, what is
\* on the disk and what a compaction has in hand fit together (persist, flushHistory,
\* compactOld).
THEOREM InvariantHolds == Spec => []IInv
BY InitHolds, StepKeeps, PTL DEF Spec
-----------------------------------------------------------------------------
(* Safety *)

LEMMA TypesHold == IInv => TypeOK
<1> SUFFICES ASSUME IInv PROVE TypeOK
  OBVIOUS
<1>0. Typing
  BY DEF IInv
<1>1. /\ now \in Nat /\ FirstRound \in Nat /\ FirstRound >= 1 /\ FirstRound <= now
      /\ Slot(now) \in Nat /\ Day(now) \in Nat
  <2>1. 1 <= FirstRound
    BY FirstDays, HistoryAssumption
  <2> QED
    BY <1>0, <2>1, TimesGrow, HistoryAssumption DEF Typing
<1>2. ASSUME NEW i \in Items(now)
      PROVE  i = [id |-> i.id, t |-> i.t, k |-> i.k] /\ i.id \in Series /\ i.t \in 1 .. now /\ i.k \in {"v", "p"}
  BY <1>1, <1>2 DEF Items
<1>3. ASSUME NEW i \in Items(now - 1)
      PROVE  i = [id |-> i.id, t |-> i.t, k |-> i.k] /\ i.id \in Series /\ i.t \in 1 .. now - 1 /\ i.k \in {"v", "p"}
  BY <1>1, <1>3 DEF Items
<1>4. pend \subseteq [id : Series, t : 1 .. now, k : {"v", "p"}]
  <2>1. \A i \in pend : i \in Items(now)
    BY <1>0, <1>1, TypesGrow DEF Typing
  <2> QED
    BY <1>2, <2>1
<1>5. ASSUME NEW x \in Threads
      PROVE  /\ thread[x].at \in {"idle", "append", "peaks"}
             /\ thread[x].points \subseteq [id : Series, t : 1 .. now, k : {"v"}]
             /\ thread[x].peaks \subseteq [id : Series, t : 1 .. now - 1, k : {"p"}]
  <2>1. thread[x].at \in {"idle", "append", "peaks"}
        /\ (\A i \in thread[x].points : i \in Items(now) /\ i.k = "v")
        /\ (\A i \in thread[x].peaks : i \in Items(now - 1) /\ i.k = "p")
    BY <1>0, ThreadFacts DEF Points, Peaks
  <2>2. thread[x].points \subseteq [id : Series, t : 1 .. now, k : {"v"}]
    BY <1>2, <2>1
  <2>3. thread[x].peaks \subseteq [id : Series, t : 1 .. now - 1, k : {"p"}]
    BY <1>3, <2>1
  <2> QED
    BY <2>1, <2>2, <2>3
<1>6. DOMAIN plain \cup DOMAIN gz \cup DOMAIN tmp \subseteq 1 .. Day(now)
  BY <1>0 DEF Typing, Files
<1>7. job.todo \subseteq Nat /\ waiting \subseteq Nat
  BY <1>0, <1>1 DEF Typing, Jobs
<1> QED
  BY <1>0, <1>1, <1>4, <1>5, <1>6, <1>7 DEF TypeOK, Typing

\* SavedInTime: the types hold; when a round is over, what is unsaved is of the current
\* slot, so that a kill loses no more than five minutes (the comment of shutdown); and
\* a clean stop leaves nothing unsaved but what has been kept after the signal.
THEOREM NothingDueStaysUnsaved == Spec => []SavedInTime
<1>1. IInv => SavedInTime
  <2> SUFFICES ASSUME IInv PROVE SavedInTime
    OBVIOUS
  <2>1. UnsavedIsRecent
    BY DEF IInv, Unsaved, UnsavedIsRecent
  <2>2. StopSaves
    BY DEF IInv, Phases, StopSaves
  <2> QED
    BY <2>1, <2>2, TypesHold DEF SavedInTime
<1> QED
  BY <1>1, InvariantHolds, PTL
-----------------------------------------------------------------------------
(* What has been saved stays *)

\* The points of a batch go to the day of the first of them: none of the days behind
\* that one holds an older point of the same series.
LEMMA BatchComesLast ==
    ASSUME IInv, NEW x \in Threads, thread[x].at = "append", thread[x].points # {},
           NEW y \in thread[x].points, NEW e \in DOMAIN Lines, NEW z \in OnDisk(e),
           e > Day(FirstTime(thread[x].points)), z.id = y.id
    PROVE  Slot(z.t) > Slot(y.t)
<1> DEFINE S == thread[x].points
<1>0. Typing /\ Stored
  BY DEF IInv
<1>1. S \in SUBSET Items(now) /\ now \in Nat
  BY <1>0, ThreadFacts DEF Typing
<1>2. PICK j \in S : j.t = FirstTime(S)
  BY <1>1, BatchTimes
<1>3. e \in Nat
  BY <1>0, LinesLined
<1>4. CASE x = "loop"
  <2>1. j \in Coming
    BY <1>2, <1>4 DEF Coming
  <2>2. e <= Day(j.t) /\ Day(j.t) \in Nat
    BY <1>0, <2>1, ComingItems DEF Stored
  <2> QED
    BY <1>2, <1>3, <2>2
<1>5. CASE x = "main"
  <2>1. j \in Left /\ y \in Left
    BY <1>2, <1>5 DEF Left
  <2> QED
    BY <1>0, <1>2, <2>1 DEF Stored
<1> QED
  BY <1>4, <1>5, WritingThread

\* A write, whole or broken off, takes nothing from what is read back.
LEMMA WriteKeepsLoaded ==
    ASSUME IInv, now' = now, NEW S, NEW d, LinesGrow(S, d),
           \/ Points(S) = {}
           \/ \E x \in Threads : /\ thread[x].at = "append" /\ thread[x].points # {}
                                 /\ S = thread[x].points /\ d = Day(FirstTime(S))
    PROVE  Loaded \subseteq Loaded'
<1>0. Typing /\ now \in Nat /\ Lined(Lines, now)
  BY LinesLined DEF IInv, Typing
<1>1. /\ Lined(Lines', now) /\ DOMAIN Lines' = DOMAIN Lines
      /\ \A e \in DOMAIN Lines : /\ Extends(Lines'[e], Lines[e])
                                 /\ Held(Lines'[e]) \subseteq Held(Lines[e]) \cup (IF e = d THEN S ELSE {})
  BY DEF LinesGrow
<1>2. ASSUME NEW e \in DOMAIN Lines', NEW y \in Points(Held(Lines'[e])), y \notin Held(Lines[e]),
             NEW c \in DOMAIN Lines, c > e, NEW z \in Points(Held(Lines[c])), z.id = y.id
      PROVE  Slot(z.t) > Slot(y.t)
  <2>1. y \in S /\ e = d /\ y \in Points(S)
    BY <1>1, <1>2 DEF Points
  <2>2. PICK x \in Threads : /\ thread[x].at = "append" /\ thread[x].points # {}
                             /\ S = thread[x].points /\ d = Day(FirstTime(S))
    BY <2>1
  <2>3. z \in OnDisk(c)
    BY DEF OnDisk
  <2> QED
    BY <1>2, <2>1, <2>2, <2>3, BatchComesLast
<1> DEFINE M == Lines'
<1>3. /\ Lined(M, now)
      /\ \A e \in DOMAIN M : \/ e \notin DOMAIN Lines /\ M[e] = <<>>
                             \/ e \in DOMAIN Lines /\ Extends(M[e], Lines[e])
      /\ \A e \in DOMAIN M : \A y \in Points(Held(M[e])) :
               \/ e \in DOMAIN Lines /\ y \in Held(Lines[e])
               \/ \A c \in DOMAIN Lines : c > e =>
                     \A z \in Points(Held(Lines[c])) : z.id = y.id => Slot(z.t) > Slot(y.t)
      /\ DOMAIN Lines \ DOMAIN M = {}
  BY <1>1, <1>2
<1>4. Loaded' = LoadedFrom(M)
  BY DEF Loaded
<1> HIDE DEF M
<1>5. \A x \in LoadedFrom(Lines) : x \in LoadedFrom(M)
  BY <1>0, <1>3, GrowthKeepsLoaded
<1> QED
  BY <1>4, <1>5 DEF Loaded

LEMMA SameLoaded ==
    ASSUME now' = now, plain' = plain, gz' = gz
    PROVE  Loaded' = Loaded
BY SameLines DEF Loaded

\* A write of points, and one of peaks.
LEMMA AppendKeepsLoaded ==
    ASSUME IInv, NEW x \in Threads, AppendPoints(x) \/ AppendPeaks(x)
    PROVE  Loaded \subseteq Loaded'
<1>0. Typing /\ Phases /\ now \in Nat
  BY DEF IInv, Typing
<1>1. CASE AppendPoints(x)
  <2> DEFINE S == thread[x].points
  <2>1. now' = now /\ thread[x].at = "append" /\ (Quiet \/ (S # {} /\ Wrote(S, Day(FirstTime(S)))))
    BY <1>0, <1>1, PointsEffect DEF Rest
  <2>2. S \in SUBSET Items(now)
    BY <1>0, ThreadFacts
  <2>3. CASE Quiet
    BY <2>1, <2>3, SameLoaded DEF Quiet
  <2>4. CASE S # {} /\ Wrote(S, Day(FirstTime(S)))
    <3>1. LinesGrow(S, Day(FirstTime(S)))
      BY <1>0, <2>1, <2>2, <2>4, WroteLines
    <3> QED
      BY <2>1, <2>4, <3>1, WriteKeepsLoaded
  <2> QED
    BY <2>1, <2>3, <2>4
<1>2. CASE AppendPeaks(x)
  <2> DEFINE S == thread[x].peaks
  <2>1. now' = now /\ (Quiet \/ (S # {} /\ Wrote(S, Day(now))))
    BY <1>0, <1>2, PeaksEffect DEF Rest
  <2>2. S \in SUBSET Items(now) /\ Points(S) = {}
    BY <1>0, ThreadFacts DEF Points, Peaks
  <2>3. CASE Quiet
    BY <2>1, <2>3, SameLoaded DEF Quiet
  <2>4. CASE S # {} /\ Wrote(S, Day(now))
    <3>1. LinesGrow(S, Day(now))
      BY <1>0, <2>1, <2>2, <2>4, WroteLines
    <3> QED
      BY <2>1, <2>2, <3>1, WriteKeepsLoaded
  <2> QED
    BY <2>1, <2>3, <2>4
<1> QED
  BY <1>1, <1>2

LEMMA CrashKeepsLoaded ==
    ASSUME IInv, Crash
    PROVE  Loaded \subseteq Loaded'
<1>0. Typing /\ now \in Nat /\ now' = now
  BY DEF IInv, Typing, Crash, Gone
<1>1. CASE plain' = plain /\ gz' = gz
  BY <1>0, <1>1, SameLoaded
<1>2. CASE \E x \in Threads : \E lines \in Seq(SUBSET thread[x].points) :
                /\ thread[x].at = "append" /\ thread[x].points # {}
                /\ Grown(lines, Day(FirstTime(thread[x].points)))
  <2>1. PICK x \in Threads : \E lines \in Seq(SUBSET thread[x].points) :
                /\ thread[x].at = "append" /\ thread[x].points # {}
                /\ Grown(lines, Day(FirstTime(thread[x].points)))
    BY <1>2
  <2> DEFINE S == thread[x].points
  <2>2. PICK lines \in Seq(SUBSET S) :
                /\ thread[x].at = "append" /\ S # {}
                /\ Grown(lines, Day(FirstTime(S)))
    BY <2>1
  <2>3. S \in SUBSET Items(now)
    BY <1>0, ThreadFacts
  <2>4. LinesGrow(S, Day(FirstTime(S)))
    BY <1>0, <2>2, <2>3, GrownLines
  <2> QED
    BY <1>0, <2>2, <2>4, WriteKeepsLoaded
<1> QED
  BY <1>1, <1>2, CrashFiles

LEMMA AdvanceKeepsLoaded ==
    ASSUME IInv, Advance, NEW i \in Loaded, i \notin Loaded'
    PROVE  OutOfDate(i)
<1>0. Typing /\ now \in Nat /\ now' = now + 1 /\ plain' = plain /\ gz' = gz
  BY DEF IInv, Typing, Advance, disk
<1> DEFINE n == now + 1
           M == Lines'
<1>1. /\ Lined(M, n)
      /\ \A e \in DOMAIN M : \/ e \in DOMAIN Lines /\ M[e] = Lines[e]
                             \/ e \notin DOMAIN Lines /\ M[e] = <<>>
      /\ DOMAIN Lines \ DOMAIN M \subseteq 1 .. Oldest(now') - 1
  BY <1>0, AdvanceLines
<1>2. n \in Nat /\ now <= n
  BY <1>0
<1>3. Loaded' = LoadedFrom(M)
  BY DEF Loaded
<1> HIDE DEF n, M
<1>4. Lined(Lines, n)
  <2>1. \A d \in DOMAIN Lines : Lines[d] \in Seq(SUBSET Items(now)) /\ d \in Nat
    BY <1>0, LinesLined
  <2>2. Items(now) \subseteq Items(n)
    BY <1>0, <1>2, ItemsGrow
  <2> QED
    BY <2>1, <2>2, SeqWiden DEF Lined
<1>5. \A e \in DOMAIN M : \/ e \notin DOMAIN Lines /\ M[e] = <<>>
                          \/ e \in DOMAIN Lines /\ Extends(M[e], Lines[e])
  BY <1>1, ExtendsSelf
<1>6. \A e \in DOMAIN M : \A y \in Points(Held(M[e])) : e \in DOMAIN Lines /\ y \in Held(Lines[e])
  BY <1>1 DEF Points, Held
<1>7. i \in LoadedFrom(M) \/ \E d \in DOMAIN Lines \ DOMAIN M : i \in Held(Lines[d])
  BY <1>1, <1>2, <1>4, <1>5, <1>6, GrowthKeepsLoaded DEF Loaded
<1>8. PICK d \in DOMAIN Lines \ DOMAIN M : i \in Held(Lines[d])
  BY <1>3, <1>7
<1>9. Lines[d] = Content(d) /\ Content(d) \in Seq(SUBSET Items(now))
  BY <1>0, LinesLined
<1>10. i \in UNION ToSet(Content(d))
  BY <1>8, <1>9, HeldIn
<1> QED
  BY <1>1, <1>8, <1>10 DEF OutOfDate

LEMMA CompactKeepsLoaded ==
    ASSUME IInv, Compact, NEW i \in Loaded, i \notin Loaded'
    PROVE  CopiedBefore(i)
<1>0. Typing /\ Compaction /\ now \in Nat
  BY DEF IInv, Typing
<1>1. Lines' # Lines
  BY DEF Loaded
<1> DEFINE M == Lines'
           c == Current
<1>2. /\ job.at = "rename" /\ c \in DOMAIN Lines
      /\ Lined(M, now) /\ DOMAIN M = DOMAIN Lines
      /\ \A e \in DOMAIN Lines : e # c => M[e] = Lines[e]
      /\ M[c] = tmp[c] /\ Extends(Lines[c], M[c])
      /\ phase = "closing"
  BY <1>0, <1>1, CompactLines
<1>3. Loaded' = LoadedFrom(M) /\ i \in LoadedFrom(Lines) /\ Lined(Lines, now)
  BY <1>0, LinesLined DEF Loaded
<1>4. tmp[c] \in Seq(SUBSET Items(now))
  BY <1>0, <1>2 DEF Compaction, Typing, Files
<1> HIDE DEF M, c
<1>5. i \notin Held(M[c])
  BY <1>0, <1>2, <1>3, ShrinkingKeepsLoaded
<1>6. Held(tmp[c]) = UNION ToSet(tmp[c])
  BY <1>4, HeldIn
<1>7. i \notin UNION ToSet(tmp[c])
  BY <1>2, <1>5, <1>6
<1> QED
  BY <1>2, <1>7 DEF CopiedBefore, c

\* DiskKeepsItems: no step of a compaction, of a write or of the end of the process
\* takes an item from what Load would read, but for a file past the retention, and for
\* one that shutdown wrote to after it had been copied (compactOld, expire, files).
THEOREM SavedStays == Spec => DiskKeepsItems
<1>1. ASSUME IInv, [Next]_vars
      PROVE  [\A i \in Loaded \ Loaded' : OutOfDate(i) \/ CopiedBefore(i)]_<<now, disk>>
  <2>1. CASE Advance
    BY <1>1, <2>1, AdvanceKeepsLoaded
  <2>2. CASE Crash
    BY <1>1, <2>2, CrashKeepsLoaded
  <2>3. CASE \E x \in Threads : AppendPoints(x) \/ AppendPeaks(x)
    BY <1>1, <2>3, AppendKeepsLoaded
  <2>4. CASE Compact
    BY <1>1, <2>4, CompactKeepsLoaded
  <2>5. CASE Start \/ Stop \/ Close \/ Exit \/ Tick \/ BeginJob \/ UNCHANGED vars
    <3>1. now' = now /\ plain' = plain /\ gz' = gz
      BY <2>5 DEF Start, Stop, Close, Exit, Gone, Tick, BeginJob, vars, disk
    <3> QED
      BY <3>1, SameLoaded
  <2> QED
    BY <1>1, <2>1, <2>2, <2>3, <2>4, <2>5 DEF Next
<1> QED
  BY <1>1, InvariantHolds, PTL DEF Spec, DiskKeepsItems
-----------------------------------------------------------------------------
(* What has been kept reaches the disk *)

\* What a write without an error has appended is read back, if nothing that is as new
\* lies before it.
LEMMA WrittenIsLoaded ==
    ASSUME IInv, now' = now, NEW S \in SUBSET Items(now), NEW d \in DOMAIN Lines,
           d \notin DOMAIN gz, d \in DOMAIN plain', Grown(AsLines(S), d), ~BehindTorn,
           NEW i \in S,
           \/ i.k = "p"
           \/ /\ \A e \in DOMAIN Lines : e <= d =>
                    \A y \in OnDisk(e) : y.id = i.id => Slot(y.t) < Slot(i.t)
              /\ \A y \in S : y.id = i.id /\ y.t < i.t => Slot(y.t) < Slot(i.t)
    PROVE  i \in Loaded'
<1> DEFINE old == Given(plain, d)
           new == AsLines(S)
           p == Len(old) + Rank(i, S)
           M == Lines'
<1>0. Typing /\ now \in Nat /\ d \in Nat /\ Lined(Lines, now)
  BY LinesLined DEF IInv, Typing
<1>1. /\ new \in Seq(SUBSET S) /\ Len(new) \in Nat
      /\ Rank(i, S) \in DOMAIN new /\ i \in new[Rank(i, S)]
      /\ \A m \in DOMAIN new : new[m] # Torn /\ \A y \in new[m] : y \in S /\ Rank(y, S) = m
  BY <1>0, BatchLines
<1>2. old \in Seq(SUBSET Items(now)) /\ new \in Seq(SUBSET Items(now)) /\ Len(old) \in Nat
  <2>1. old \in Seq(SUBSET Items(now))
    BY <1>0 DEF Given, Typing, Files
  <2> QED
    BY <1>1, <2>1, SeqWiden
<1>3. plain'[d] = Joined(old, new)
  BY DEF Grown
<1>4. Joined(old, new) = old \o new
  <2>1. old = <<>> \/ Last(old) # Torn \/ Joined(old, new) = old
    BY <1>3 DEF BehindTorn, Given
  <2>2. new # <<>>
    BY <1>1
  <2> HIDE DEF old, new
  <2>3. old = <<>> \/ Last(old) # Torn \/ Joined(old, new) # old
    BY <1>1, <1>2, <2>2, JoinedLines
  <2>4. old = <<>> \/ Last(old) # Torn
    BY <2>1, <2>3
  <2> QED
    BY <2>4 DEF Joined
<1>5. DOMAIN M = DOMAIN Lines /\ M[d] = old \o new /\ Lines[d] = old
  <2>1. d \notin DOMAIN gz'
    BY DEF Grown
  <2>2. Content(d)' = plain'[d] /\ Content(d) = old
    BY <2>1 DEF Content, Given
  <2> QED
    BY <1>3, <1>4, <2>2 DEF Lines
<1>6. \A e \in DOMAIN M : \A z \in Points(Held(M[e])) : z \in OnDisk(e) \/ e = d
  <2>1. LinesGrow(S, d)
    BY <1>0, <1>1, GrownLines
  <2> QED
    BY <2>1 DEF LinesGrow, OnDisk, Points
<1>7. Loaded' = LoadedFrom(M)
  BY DEF Loaded
<1>8. Rank(i, S) \in Nat /\ DOMAIN new = 1 .. Len(new) /\ 1 <= Rank(i, S) /\ Rank(i, S) <= Len(new)
  BY <1>1
<1> HIDE DEF old, new, M
<1>9. p \in DOMAIN M[d] /\ M[d][p] = new[Rank(i, S)]
  BY <1>2, <1>5, <1>8
<1> HIDE DEF p
<1>10. ASSUME i.k # "p" PROVE ~Late(M, d, p, i)
  <2>1. SUFFICES ASSUME NEW e \in DOMAIN M, NEW j \in DOMAIN M[e], e < d \/ (e = d /\ j < p),
                        NEW y \in Points(M[e][j]), y.id = i.id, Slot(y.t) >= Slot(i.t)
                 PROVE  FALSE
    BY DEF Late
  <2>2. i \in Items(now) /\ i.t \in Nat /\ Slot(i.t) \in Nat /\ e \in Nat
    <3>1. i \in Items(now)
      OBVIOUS
    <3> QED
      BY <1>0, <1>5, <2>1, <3>1, ItemFacts, TimesGrow, LinesLined
  <2>3. ASSUME y \in OnDisk(e) PROVE FALSE
    <3>1. e <= d
      BY <1>0, <2>1, <2>2
    <3>2. Slot(y.t) < Slot(i.t)
      BY <1>5, <1>10, <2>1, <2>3, <3>1
    <3>3. Slot(y.t) \in Nat
      BY <1>0, <1>5, <2>1, <2>3, OnDiskItems
    <3> QED
      BY <2>1, <2>2, <3>2, <3>3
  <2>4. y \in Points(Held(M[e]))
    BY <2>1 DEF Points, Held
  <2>5. e = d /\ j < p
    BY <1>0, <1>6, <2>1, <2>2, <2>3, <2>4
  <2>6. CASE j \in DOMAIN old
    <3>1. M[d][j] = old[j]
      BY <1>2, <1>5, <2>6
    <3>2. y \in OnDisk(e)
      BY <1>5, <2>1, <2>5, <2>6, <3>1 DEF OnDisk, Points, Held
    <3> QED
      BY <2>3, <3>2
  <2>7. CASE j \notin DOMAIN old
    <3>1. j \in 1 .. Len(old) + Len(new) /\ DOMAIN old = 1 .. Len(old)
      BY <1>1, <1>2, <1>5, <2>1, <2>5
    <3> DEFINE m == j - Len(old)
    <3>2. m \in 1 .. Len(new) /\ M[d][j] = new[m] /\ m \in Nat
      BY <1>1, <1>2, <1>5, <2>7, <3>1
    <3>3. m < Rank(i, S)
      BY <1>2, <1>8, <2>5, <3>1 DEF p
    <3> HIDE DEF m
    <3>4. y \in S /\ Rank(y, S) = m
      BY <1>1, <1>8, <2>1, <2>5, <3>2 DEF Points
    <3>5. y.t < i.t
      BY <1>0, <3>3, <3>4, RankOrder
    <3>6. Slot(y.t) < Slot(i.t) /\ Slot(y.t) \in Nat
      <4>1. y \in Items(now)
        BY <3>4
      <4> QED
        BY <1>0, <1>10, <2>1, <3>4, <3>5, <4>1, ItemFacts, TimesGrow
    <3> QED
      BY <2>1, <2>2, <3>6
  <2> QED
    BY <2>6, <2>7
<1> QED
  BY <1>1, <1>5, <1>7, <1>9, <1>10, LoadedPlace

\* The file of a batch that has been written.
LEMMA BatchIsInFile ==
    ASSUME IInv, NEW lines, NEW d, Grown(lines, d), d \in DOMAIN Lines, d \notin DOMAIN gz
    PROVE  d \in DOMAIN plain'
<1>1. SUFFICES ASSUME d \notin DOMAIN plain' PROVE FALSE
  OBVIOUS
<1>2. Typing /\ Compaction
  BY DEF IInv
<1>3. file = d /\ d \notin DOMAIN plain
  BY <1>1 DEF Grown
<1>4. d \in Nat /\ Oldest(now) <= d /\ Oldest(now) \in Int
  BY <1>2, LinesLined, TimesGrow DEF Typing
<1> QED
  BY <1>2, <1>3, <1>4 DEF Compaction, Closed

\* The points of a batch, as it is written.
LEMMA PointsAreSaved ==
    ASSUME IInv, NEW x \in Threads, AppendPoints(x), NEW i \in thread[x].points,
           ~WriteFailed, ~BehindTorn, ~Overtaken(i), ~Reopened
    PROVE  i \in Loaded'
<1> DEFINE S == thread[x].points
           d == Day(FirstTime(S))
<1>0. Typing /\ Phases /\ Unsaved /\ Stored /\ Compaction /\ now \in Nat
  BY DEF IInv, Typing
<1>1. thread[x].at = "append" /\ now' = now /\ phase' = phase /\ Wrote(S, d)
  BY <1>0, PointsEffect DEF Rest, WriteFailed
<1>2. Grown(AsLines(S), d) /\ file' = d
  BY <1>1 DEF Wrote, WriteFailed
<1>3. S \in SUBSET Items(now)
  BY <1>0, ThreadFacts
<1>4. PICK j \in S : j.t = FirstTime(S)
  BY <1>0, <1>3, BatchTimes
<1>5. \A y \in S : /\ y \in Items(now) /\ y.k = "v" /\ y.t \in Nat /\ FirstRound <= y.t /\ y.t <= now
                   /\ Slot(y.t) \in Nat /\ now - SlotLen <= y.t
                   /\ x = "loop" => y \in Coming
                   /\ x = "main" => y \in Left
  <2>1. ASSUME NEW y \in S
        PROVE  y \in Coming \cup Left /\ (x = "loop" => y \in Coming) /\ (x = "main" => y \in Left)
    BY <1>1, WritingThread DEF Coming, Left
  <2>2. \A y \in S : y \in Coming \cup Left
    BY <2>1
  <2>3. \A y \in Coming \cup Left : now - SlotLen <= y.t
    BY <1>0 DEF Unsaved
  <2> QED
    BY <1>0, <2>1, <2>2, <2>3, ComingItems
<1>6. d = Day(j.t) /\ d \in Nat
  BY <1>4, <1>5, TimesGrow
<1>7. d \in DOMAIN Lines
  <2>1. Oldest(now) <= Day(j.t)
    BY <1>0, <1>4, <1>5, SlotWithinRetention
  <2>2. Day(j.t) <= Day(now) /\ Day(now) \in Nat /\ Oldest(now) \in Int
    BY <1>0, <1>4, <1>5, TimesGrow
  <2> HIDE DEF d
  <2> QED
    BY <1>0, <1>6, <2>1, <2>2, LinesLined
<1>8. d \notin DOMAIN gz
  <2>1. CASE x = "loop"
    <3>1. j \in Coming
      BY <1>4, <1>5, <2>1
    <3>2. \A e \in DOMAIN gz : e < Day(j.t)
      BY <1>0, <3>1 DEF Compaction
    <3>3. ~ (Day(j.t) < Day(j.t))
      BY <1>6
    <3> HIDE DEF d
    <3> QED
      BY <1>6, <3>2, <3>3
  <2>2. CASE x = "main"
    <3>1. phase = "closing"
      BY <1>0, <1>1, <2>2 DEF Phases
    <3> QED
      BY <1>2, <3>1 DEF Reopened
  <2> QED
    BY <2>1, <2>2, WritingThread
<1>9. d \in DOMAIN plain'
  BY <1>2, <1>7, <1>8, BatchIsInFile
<1>10. \A e \in DOMAIN Lines : \A y \in OnDisk(e) : y.id = i.id => Slot(y.t) < Slot(i.t)
  <2>1. CASE x = "loop"
    BY <1>0, <1>5, <2>1 DEF Stored
  <2>2. CASE x = "main"
    <3>1. phase = "closing" /\ i \in Left
      BY <1>0, <1>1, <1>5, <2>2 DEF Phases
    <3>2. ASSUME NEW e \in DOMAIN Lines, NEW y \in OnDisk(e), y.id = i.id, ~ (Slot(y.t) < Slot(i.t))
          PROVE  FALSE
      <4>1. Slot(y.t) # Slot(i.t)
        BY <1>0, <3>1, <3>2 DEF Stored
      <4>2. Slot(y.t) \in Nat /\ Slot(i.t) \in Nat /\ i.t \in Nat
        BY <1>0, <1>5, OnDiskItems
      <4>3. Slot(y.t) > Slot(i.t)
        BY <3>2, <4>1, <4>2
      <4>4. PICK z \in Points(LoadedFrom(Lines)) : z.id = y.id /\ Slot(z.t) >= Slot(y.t)
        BY <1>0, LinesLined, LoadedCovers DEF OnDisk
      <4>5. z \in Points(Loaded) /\ z \in Items(now)
        BY <1>0, <4>4, LoadedItems DEF Loaded, Points
      <4>6. z.t \in Nat /\ Slot(z.t) \in Nat
        BY <1>0, <4>5, ItemFacts, TimesGrow
      <4>7. Slot(z.t) > Slot(i.t)
        BY <4>2, <4>3, <4>4, <4>6
      <4>8. z.t > i.t
        BY <4>2, <4>6, <4>7, TimesGrow
      <4> QED
        BY <3>1, <3>2, <4>4, <4>5, <4>8 DEF Overtaken
    <3> QED
      BY <3>2
  <2> QED
    BY <2>1, <2>2, WritingThread
<1>11. \A y \in S : y.id = i.id /\ y.t < i.t => Slot(y.t) < Slot(i.t)
  <2>1. ASSUME NEW y \in S, y.id = i.id, y.t < i.t PROVE Slot(y.t) < Slot(i.t)
    <3>1. y # i /\ y.t \in Nat /\ i.t \in Nat /\ Slot(y.t) \in Nat /\ Slot(i.t) \in Nat
      BY <1>5, <2>1
    <3>2. Slot(y.t) # Slot(i.t)
      BY <1>0, <1>5, <2>1, <3>1, WritingThread DEF Unsaved
    <3>3. Slot(y.t) <= Slot(i.t)
      BY <2>1, <3>1, TimesGrow
    <3> QED
      BY <3>1, <3>2, <3>3
  <2> QED
    BY <2>1
<1> HIDE DEF d
<1> QED
  BY <1>1, <1>2, <1>3, <1>7, <1>8, <1>9, <1>10, <1>11, WrittenIsLoaded

\* The peaks of a batch: no peak is out of order.
LEMMA PeaksAreSaved ==
    ASSUME IInv, NEW x \in Threads, AppendPeaks(x), NEW i \in thread[x].peaks,
           ~WriteFailed, ~BehindTorn
    PROVE  i \in Loaded'
<1> DEFINE S == thread[x].peaks
<1>0. Typing /\ Phases /\ Compaction /\ now \in Nat
  BY DEF IInv, Typing
<1>1. now' = now /\ Wrote(S, Day(now))
  BY <1>0, PeaksEffect DEF Rest, WriteFailed
<1>2. Grown(AsLines(S), Day(now))
  BY <1>1 DEF Wrote, WriteFailed
<1>3. S \in SUBSET Items(now) /\ i.k = "p"
  BY <1>0, ThreadFacts DEF Peaks
<1>4. Day(now) \in DOMAIN Lines
  <2>1. Oldest(now) < Day(now) /\ Oldest(now) \in Int /\ Day(now) \in Nat
    BY <1>0, TimesGrow
  <2> QED
    BY <1>0, <2>1, LinesLined
<1>5. Day(now) \notin DOMAIN gz
  <2>1. ~ (Day(now) < Day(now))
    BY <1>0, TimesGrow
  <2> QED
    BY <1>0, <2>1 DEF Compaction
<1>6. Day(now) \in DOMAIN plain'
  BY <1>2, <1>4, <1>5, BatchIsInFile
<1> QED
  BY <1>1, <1>2, <1>3, <1>4, <1>5, <1>6, WrittenIsLoaded
\* What is in memory, with or without the threads having moved.
MemoryOf(waits, threads) ==
    waits \cup (UNION {threads[x].peaks : x \in Threads})
          \cup (UNION {threads[x].points : x \in {x \in Threads : threads[x].at = "append"}})

LEMMA MemoryPlace ==
    ASSUME NEW waits, NEW threads, NEW i
    PROVE  i \in MemoryOf(waits, threads) <=>
              \/ i \in waits
              \/ \E x \in Threads : \/ i \in threads[x].peaks
                                    \/ i \in threads[x].points /\ threads[x].at = "append"
<1> DEFINE P == UNION {threads[x].peaks : x \in Threads}
           Q == UNION {threads[x].points : x \in {x \in Threads : threads[x].at = "append"}}
<1>1. i \in P <=> \E x \in Threads : i \in threads[x].peaks
  OBVIOUS
<1>2. i \in Q <=> \E x \in Threads : i \in threads[x].points /\ threads[x].at = "append"
  OBVIOUS
<1>3. MemoryOf(waits, threads) = waits \cup P \cup Q
  BY DEF MemoryOf
<1> HIDE DEF P, Q
<1> QED
  BY <1>1, <1>2, <1>3

LEMMA InMemoryPlace ==
    ASSUME NEW i
    PROVE  /\ i \in InMemory <=>
                 \/ i \in pend
                 \/ \E x \in Threads : \/ i \in thread[x].peaks
                                       \/ i \in thread[x].points /\ thread[x].at = "append"
           /\ i \in InMemory' <=>
                 \/ i \in pend'
                 \/ \E x \in Threads : \/ i \in thread'[x].peaks
                                       \/ i \in thread'[x].points /\ thread'[x].at = "append"
<1>1. InMemory = MemoryOf(pend, thread) /\ InMemory' = MemoryOf(pend', thread')
  BY DEF InMemory, MemoryOf
<1>2. i \in MemoryOf(pend, thread) <=>
                 \/ i \in pend
                 \/ \E x \in Threads : \/ i \in thread[x].peaks
                                       \/ i \in thread[x].points /\ thread[x].at = "append"
  BY MemoryPlace
<1>3. i \in MemoryOf(pend', thread') <=>
                 \/ i \in pend'
                 \/ \E x \in Threads : \/ i \in thread'[x].peaks
                                       \/ i \in thread'[x].points /\ thread'[x].at = "append"
  BY MemoryPlace
<1> QED
  BY <1>1, <1>2, <1>3

\* A round of collectLoop takes up what is unsaved, or keeps it.
LEMMA TickKeepsMemory ==
    ASSUME IInv, Tick
    PROVE  InMemory \subseteq InMemory'
<1>0. "loop" \in Threads /\ "main" \in Threads /\ Typing /\ Phases
  BY DEF IInv, Threads
<1>1. thread["loop"].at = "idle" /\ thread \in [Threads -> Writers(now)]
  BY <1>0 DEF Tick, Typing
<1>2. PICK new : Persist(new)
  BY DEF Tick
<1> DEFINE all == pend \cup new
<1>3. CASE ~Due(all) /\ pend' = all /\ thread' = [thread EXCEPT !["loop"].t = now]
  <2>1. \A x \in Threads : thread'[x].at = thread[x].at /\ thread'[x].points = thread[x].points
                           /\ thread'[x].peaks = thread[x].peaks
    BY <1>0, <1>1, <1>3 DEF Writers
  <2> QED
    BY <1>3, <2>1, InMemoryPlace
<1>4. CASE /\ pend' = {}
           /\ thread' = [thread EXCEPT !["loop"] =
                   [at |-> "append", points |-> Points(all), peaks |-> Peaks(all),
                    t |-> now, ok |-> TRUE]]
  <2>1. /\ thread'["loop"].at = "append" /\ thread'["loop"].points = Points(all)
        /\ thread'["loop"].peaks = Peaks(all) /\ thread'["main"] = thread["main"]
    BY <1>0, <1>1, <1>4
  <2>2. thread["loop"].peaks = {}
    BY <1>0, <1>1 DEF Phases
  <2>3. ASSUME NEW i \in InMemory PROVE i \in InMemory'
    <3>1. CASE i \in pend
      <4>1. i \in Points(all) \/ i \in Peaks(all)
        BY <1>0, <3>1 DEF Typing, Points, Peaks
      <4> QED
        BY <1>0, <2>1, <4>1, InMemoryPlace
    <3>2. CASE i \notin pend
      <4>1. i \in thread["main"].peaks \/ (i \in thread["main"].points /\ thread["main"].at = "append")
        BY <1>1, <2>2, <2>3, <3>2, WritingThread, InMemoryPlace
      <4> QED
        BY <1>0, <2>1, <4>1, InMemoryPlace
    <3> QED
      BY <3>1, <3>2
  <2> QED
    BY <2>3
<1> QED
  BY <1>2, <1>3, <1>4 DEF Persist, Taken

\* What shutdown takes over.
LEMMA StopKeepsMemory ==
    ASSUME IInv, Stop
    PROVE  InMemory \subseteq InMemory'
<1>0. "loop" \in Threads /\ "main" \in Threads /\ Typing /\ Phases
  BY DEF IInv, Threads
<1>1. /\ phase = "on" /\ thread \in [Threads -> Writers(now)]
      /\ thread' = [thread EXCEPT !["main"] =
            [at |-> "append", points |-> Points(pend), peaks |-> Peaks(pend), t |-> now, ok |-> TRUE]]
  BY <1>0 DEF Stop, Typing
<1>2. /\ thread'["main"].at = "append" /\ thread'["main"].points = Points(pend)
      /\ thread'["main"].peaks = Peaks(pend) /\ thread'["loop"] = thread["loop"]
  BY <1>0, <1>1
<1>3. thread["main"].at = "idle" /\ thread["main"].peaks = {}
  BY <1>0, <1>1 DEF Phases
<1>4. ASSUME NEW i \in InMemory PROVE i \in InMemory'
  <2>1. CASE i \in pend
    <3>1. i \in Points(pend) \/ i \in Peaks(pend)
      BY <1>0, <2>1 DEF Typing
    <3> QED
      BY <1>0, <1>2, <3>1, InMemoryPlace
  <2>2. CASE i \notin pend
    <3>1. i \in thread["loop"].peaks \/ (i \in thread["loop"].points /\ thread["loop"].at = "append")
      BY <1>3, <1>4, <2>2, WritingThread, InMemoryPlace
    <3> QED
      BY <1>0, <1>2, <3>1, InMemoryPlace
  <2> QED
    BY <2>1, <2>2
<1> QED
  BY <1>4

\* An append takes from memory what it has written.
LEMMA AppendTakes ==
    ASSUME IInv, NEW x \in Threads, AppendPoints(x) \/ AppendPeaks(x), NEW i \in InMemory, i \notin InMemory'
    PROVE  \/ AppendPoints(x) /\ i \in thread[x].points
           \/ AppendPeaks(x) /\ i \in thread[x].peaks
<1>0. Typing /\ Phases
  BY DEF IInv
<1>1. pend' = pend /\ \A y \in Threads : y # x => thread'[y] = thread[y]
  BY <1>0, PointsEffect, PeaksEffect DEF Rest
<1>2. \/ i \in thread[x].peaks
      \/ i \in thread[x].points /\ thread[x].at = "append"
  BY <1>1, InMemoryPlace
<1>3. CASE AppendPoints(x)
  <2>1. thread'[x].peaks = thread[x].peaks
    BY <1>0, <1>3, PointsEffect
  <2> QED
    BY <1>2, <1>3, <2>1, InMemoryPlace
<1>4. CASE AppendPeaks(x)
  <2>1. thread[x].at = "peaks"
    BY <1>4 DEF AppendPeaks
  <2> QED
    BY <1>2, <1>4, <2>1
<1> QED
  BY <1>3, <1>4

\* MemoryReachesDisk: what Add has kept stays in memory until Load would read it back;
\* it is lost only with the process, by a failed write of its own batch, at the end of a
\* torn line, or when collectLoop runs past a shutdown (persist, flushHistory, Append).
THEOREM KeptIsSaved == Spec => MemoryReachesDisk
<1>1. ASSUME IInv, [Next]_vars
      PROVE  [\A i \in InMemory \ InMemory' :
                 i \in Loaded' \/ Killed \/ WriteFailed \/ BehindTorn \/ Overtaken(i) \/ Reopened]_vars
  <2>1. CASE Start
    <3>1. InMemory = {}
      BY <1>1, <2>1 DEF IInv, Phases, InMemory, Start
    <3> QED
      BY <3>1
  <2>2. CASE Stop
    BY <1>1, <2>2, StopKeepsMemory
  <2>3. CASE Tick
    BY <1>1, <2>3, TickKeepsMemory
  <2>4. CASE Exit \/ Crash
    BY <2>4 DEF Exit, Crash, Gone, Killed
  <2>5. CASE \E x \in Threads : AppendPoints(x) \/ AppendPeaks(x)
    <3>1. PICK x \in Threads : AppendPoints(x) \/ AppendPeaks(x)
      BY <2>5
    <3>2. ASSUME NEW i \in InMemory, i \notin InMemory'
          PROVE  i \in Loaded' \/ Killed \/ WriteFailed \/ BehindTorn \/ Overtaken(i) \/ Reopened
      BY <1>1, <3>1, <3>2, AppendTakes, PointsAreSaved, PeaksAreSaved
    <3> QED
      BY <3>2
  <2>6. CASE Close \/ Advance \/ BeginJob \/ Compact \/ UNCHANGED vars
    <3>1. pend' = pend /\ thread' = thread
      BY <2>6 DEF Close, Advance, BeginJob, Compact, vars, memory
    <3>2. InMemory' = InMemory
      BY <3>1 DEF InMemory
    <3> QED
      BY <3>2
  <2> QED
    BY <1>1, <2>1, <2>2, <2>3, <2>4, <2>5, <2>6 DEF Next
<1> QED
  BY <1>1, InvariantHolds, PTL DEF Spec, MemoryReachesDisk
====
