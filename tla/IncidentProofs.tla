----------------------------- MODULE IncidentProofs -----------------------------
(* What the incident recorder promises, for any conclusions, limits and ticks: *)
(* the limits of its captures, the evidence it keeps, the end of its sessions  *)
(* and the time lines it writes.                                               *)
EXTENDS IncidentHistory, FiniteSetTheorems, SequenceTheorems, TLAPS

-----------------------------------------------------------------------------
(* The inductive invariant of the limits *)

Attempt == [t : Nat, class : Class, sig : {Sig(it) : it \in Item}]

Ats == [i \in 1..Len(attempts) |-> attempts[i].t]
Classes == [i \in 1..Len(attempts) |-> attempts[i].class]
Sigs == [i \in 1..Len(attempts) |-> attempts[i].sig]

\* Some conclusions are still to be looked at when one is in hand.
DueTyped ==
    /\ now \in Nat /\ due \in Seq(Item)
    /\ loop \in {"capture", "expire", "session"} => due # <<>>

AttemptsTyped ==
    /\ attempts \in Seq(Attempt)
    /\ \A i \in 1..Len(attempts) : attempts[i].t <= now
    /\ \A i, j \in 1..Len(attempts) : i < j => attempts[i].t <= attempts[j].t

\* times are those of the newest attempts, and no attempt of the last hour is missing.
RecentAre(times) ==
    LET before == Len(attempts) - Len(times)
    IN  /\ times \in Seq(Nat) /\ before >= 0
        /\ \A i \in 1..Len(times) : times[i] = attempts[before + i].t
        /\ \A i \in 1..before : now - attempts[i].t >= Hour

\* f has the time of the last of the attempts for each key.
LastIn(f, keys, times) ==
    /\ \A i \in DOMAIN keys : keys[i] \in DOMAIN f /\ times[i] <= f[keys[i]]
    /\ \A k \in DOMAIN f : \E i \in DOMAIN keys : keys[i] = k /\ times[i] = f[k]

SkippedTrue ==
    \A s \in skipped : s.after \in 0..Len(attempts) /\ HeldBack(s.it, s.after, now)

LInv ==
    /\ DueTyped /\ AttemptsTyped /\ RecentAre(recent)
    /\ LastIn(lastSig, Sigs, Ats) /\ LastIn(lastClass, Classes, Ats)
    /\ HoursKept /\ GapsKept /\ SkippedTrue

-----------------------------------------------------------------------------
(* The sliding hour *)

LEMMA Numbers ==
    /\ IncidentKeep \in Nat \ {0} /\ SigCool \in Nat \ {0} /\ MinGap \in Nat \ {0}
    /\ Hour \in Nat \ {0} /\ MaxPerHour \in Nat \ {0} /\ MaxDuration \in Nat \ {0}
    /\ GoneRounds \in Nat \ {0} /\ MaxOpen \in Nat /\ MaxTime \in Nat
BY RecorderAssumption

\* A part of 1..n that holds what is below any of its elements is 1..m.
LEMMA Prefix ==
    ASSUME NEW n \in Nat, NEW S \in SUBSET (1..n), \A i \in S : \A j \in 1..i : j \in S
    PROVE  Cardinality(S) \in 0..n /\ S = 1..Cardinality(S)
<1>1. IsFiniteSet(1..n) /\ Cardinality(1..n) = n
  BY FS_Interval
<1>2. IsFiniteSet(S) /\ Cardinality(S) <= n
  BY <1>1, FS_Subset
<1>3. Cardinality(S) \in Nat
  BY <1>2, FS_CardinalityType
<1>4. \A i \in S : i <= Cardinality(S)
  <2>1. SUFFICES ASSUME NEW i \in S
                 PROVE  i <= Cardinality(S)
    OBVIOUS
  <2>2. i \in Nat /\ 1..i \in SUBSET S
    OBVIOUS
  <2>3. Cardinality(1..i) = i
    BY <2>2, FS_Interval
  <2> QED
    BY <1>2, <2>2, <2>3, FS_Subset
<1>5. S \in SUBSET (1..Cardinality(S))
  BY <1>3, <1>4
<1>6. IsFiniteSet(1..Cardinality(S)) /\ Cardinality(1..Cardinality(S)) = Cardinality(S)
  BY <1>3, FS_Interval
<1>7. S = 1..Cardinality(S)
  BY <1>5, <1>6, FS_Subset
<1> QED
  BY <1>2, <1>3, <1>7

LEMMA AttemptAt ==
    ASSUME AttemptsTyped
    PROVE  /\ Len(attempts) \in Nat
           /\ \A i \in 1..Len(attempts) : attempts[i] \in Attempt /\ attempts[i].t \in Nat /\ attempts[i].t <= now
<1>1. \A i \in 1..Len(attempts) : attempts[i] \in Attempt
  BY DEF AttemptsTyped
<1>2. \A a \in Attempt : a.t \in Nat
  BY DEF Attempt
<1> QED
  BY <1>1, <1>2 DEF AttemptsTyped

\* Pruning leaves the times within the hour.
LEMMA Pruned ==
    ASSUME now \in Nat, AttemptsTyped, RecentAre(recent)
    PROVE  /\ RecentAre(LastHour)
           /\ \A i \in 1..Len(LastHour) : now - LastHour[i] < Hour
<1> DEFINE old == {i \in DOMAIN recent : now - recent[i] >= Hour}
           m == Cardinality(old)
           n == Len(recent)
           before == Len(attempts) - Len(recent)
<1>1. recent \in Seq(Nat) /\ n \in Nat /\ DOMAIN recent = 1..n /\ before \in Nat /\ Len(attempts) \in Nat
  BY DEF RecentAre, AttemptsTyped
<1>2. \A i \in 1..n : recent[i] = attempts[before + i].t
  BY DEF RecentAre
<1>3. \A i \in 1..n : before + i \in 1..Len(attempts) /\ attempts[before + i].t \in Nat
  BY <1>1, AttemptAt
<1>4. \A i \in old : \A j \in 1..i : j \in old
  <2>1. SUFFICES ASSUME NEW i \in old, NEW j \in 1..i, j # i
                 PROVE  j \in old
    OBVIOUS
  <2>2. i \in 1..n /\ j \in 1..n /\ before + j < before + i
    BY <1>1, <2>1
  <2>3. recent[j] <= recent[i]
    BY <1>1, <1>2, <1>3, <2>2 DEF AttemptsTyped
  <2>4. recent[j] \in Nat /\ recent[i] \in Nat
    BY <1>1, <2>2
  <2> QED
    BY <1>1, <2>1, <2>2, <2>3, <2>4, Numbers
<1>5. m \in 0..n /\ old = 1..m
  BY <1>1, <1>4, Prefix
<1>6. LastHour = SubSeq(recent, m + 1, n)
  BY DEF LastHour
<1>7. \A i \in 1..n : i <= m <=> now - recent[i] >= Hour
  BY <1>1, <1>5
<1> HIDE DEF m, old, n
<1>8. LastHour \in Seq(Nat) /\ Len(LastHour) = n - m /\ \A i \in 1..n - m : LastHour[i] = recent[m + i]
  BY <1>1, <1>5, <1>6, SubSeqProperties
<1>9. \A i \in 1..Len(LastHour) : now - LastHour[i] < Hour
  <2>1. SUFFICES ASSUME NEW i \in 1..Len(LastHour)
                 PROVE  now - LastHour[i] < Hour
    OBVIOUS
  <2>2. m + i \in 1..n /\ ~(m + i <= m) /\ LastHour[i] = recent[m + i] /\ recent[m + i] \in Nat
    BY <1>1, <1>5, <1>8
  <2> QED
    BY <1>7, <2>2, Numbers
<1>10. \A i \in 1..Len(LastHour) : LastHour[i] = attempts[before + m + i].t
  <2>1. SUFFICES ASSUME NEW i \in 1..Len(LastHour)
                 PROVE  LastHour[i] = attempts[before + m + i].t
    OBVIOUS
  <2>2. m + i \in 1..n /\ before + m + i = before + (m + i)
    BY <1>1, <1>5, <1>8
  <2> QED
    BY <1>2, <1>8, <2>2 DEF n
<1>11. \A i \in 1..before + m : now - attempts[i].t >= Hour
  <2>1. SUFFICES ASSUME NEW i \in 1..before + m, ~(i <= before)
                 PROVE  now - attempts[i].t >= Hour
    BY <1>1, <1>5 DEF RecentAre
  <2>2. i - before \in 1..n /\ i - before <= m /\ before + (i - before) = i
    BY <1>1, <1>5, <2>1
  <2> QED
    BY <1>2, <1>7, <2>2 DEF n
<1>12. Len(attempts) - Len(LastHour) = before + m
  BY <1>1, <1>5, <1>8 DEF n
<1>13. before + m >= 0
  BY <1>1, <1>5
<1> HIDE DEF before
<1> QED
  BY <1>8, <1>9, <1>10, <1>11, <1>12, <1>13 DEF RecentAre

\* What recent counts is what the attempts say.
LEMMA Counted ==
    ASSUME now \in Nat, AttemptsTyped, RecentAre(recent)
    PROVE  /\ IsFiniteSet(InHour(now, Len(attempts)))
           /\ Cardinality(InHour(now, Len(attempts))) = Len(LastHour)
<1> DEFINE before == Len(attempts) - Len(LastHour)
           all == Len(attempts)
<1>1. RecentAre(LastHour) /\ \A i \in 1..Len(LastHour) : now - LastHour[i] < Hour
  BY Pruned
<1>2. before \in Nat /\ all \in Nat /\ Len(LastHour) \in Nat /\ all = before + Len(LastHour)
  BY <1>1 DEF RecentAre, AttemptsTyped
<1>3. \A i \in 1..all : attempts[i].t \in Nat /\ attempts[i].t <= now
  BY AttemptAt
<1>4. \A i \in 1..before : now - attempts[i].t >= Hour
  BY <1>1 DEF RecentAre
<1>5. \A i \in 1..all : i > before => now - attempts[i].t < Hour
  <2>1. SUFFICES ASSUME NEW i \in 1..all, i > before
                 PROVE  now - attempts[i].t < Hour
    OBVIOUS
  <2>2. i - before \in 1..Len(LastHour) /\ before + (i - before) = i
    BY <1>2, <2>1
  <2>3. LastHour[i - before] = attempts[before + (i - before)].t
    BY <1>1, <2>2 DEF RecentAre
  <2> QED
    BY <1>1, <2>2, <2>3
<1> HIDE DEF before, all
<1>6. \A i \in 1..all : (attempts[i].t \in (now - Hour + 1)..now) <=> i > before
  BY <1>2, <1>3, <1>4, <1>5, Numbers
<1>7. InHour(now, all) = (before + 1)..all
  BY <1>2, <1>6 DEF InHour
<1>8. Cardinality((before + 1)..all) = all - before /\ IsFiniteSet((before + 1)..all)
  <2> DEFINE b == before + 1
  <2>1. b \in Int /\ all \in Int /\ (b > all => before = all)
        /\ (IF b > all THEN 0 ELSE all - b + 1) = all - before
    BY <1>2
  <2> HIDE DEF b
  <2>2. IsFiniteSet(b..all) /\ Cardinality(b..all) = IF b > all THEN 0 ELSE all - b + 1
    BY <2>1, FS_Interval
  <2>3. IsFiniteSet(b..all) /\ Cardinality(b..all) = all - before
    BY <2>1, <2>2
  <2> QED
    BY <2>3 DEF b
<1>9. all - before = Len(LastHour)
  BY <1>2
<1> QED
  BY <1>7, <1>8, <1>9 DEF all

-----------------------------------------------------------------------------
(* The limits when a conclusion is looked at *)

\* The last attempts with a key hold back the next one.
LEMMA WithinMeans ==
    ASSUME NEW f, NEW keys, NEW times, LastIn(f, keys, times), NEW k, NEW span \in Nat,
           now \in Nat, DOMAIN keys \subseteq DOMAIN times, \A i \in DOMAIN times : times[i] \in Nat
    PROVE  /\ Within(f, k, span) => \E i \in DOMAIN keys : keys[i] = k /\ now - times[i] < span
           /\ ~Within(f, k, span) => \A i \in DOMAIN keys : keys[i] = k => now - times[i] >= span
<1>1. ASSUME Within(f, k, span)
      PROVE  \E i \in DOMAIN keys : keys[i] = k /\ now - times[i] < span
  BY <1>1 DEF Within, LastIn
<1>2. ASSUME ~Within(f, k, span), NEW i \in DOMAIN keys, keys[i] = k
      PROVE  now - times[i] >= span
  <2>1. k \in DOMAIN f /\ times[i] <= f[k] /\ ~(now - f[k] < span)
    BY <1>2 DEF Within, LastIn
  <2>2. PICK j \in DOMAIN keys : times[j] = f[k]
    BY <2>1 DEF LastIn
  <2>3. times[i] \in Nat /\ times[j] \in Nat
    OBVIOUS
  <2>4. times[i] <= times[j] /\ ~(now - times[j] < span)
    BY <2>1, <2>2
  <2> QED
    BY <2>3, <2>4
<1> QED
  BY <1>1, <1>2

LEMMA ColumnsTyped ==
    ASSUME AttemptsTyped
    PROVE  /\ DOMAIN Sigs = 1..Len(attempts) /\ DOMAIN Classes = 1..Len(attempts)
           /\ DOMAIN Ats = 1..Len(attempts) /\ \A i \in DOMAIN Ats : Ats[i] \in Nat
           /\ \A i \in 1..Len(attempts) : /\ Sigs[i] = attempts[i].sig /\ Classes[i] = attempts[i].class
                                          /\ Ats[i] = attempts[i].t
<1>1. \A i \in DOMAIN Ats : Ats[i] \in Nat
  BY AttemptAt DEF Ats
<1> QED
  BY <1>1 DEF Sigs, Classes, Ats

\* What Tick takes for a limit is one.
LEMMA CoolMeans ==
    ASSUME LInv, NEW it
    PROVE  Cool(it) <=> HeldBack(it, Len(attempts), now)
<1>1. now \in Nat /\ AttemptsTyped /\ RecentAre(recent)
  BY DEF LInv, DueTyped
<1>2. ASSUME NEW k
      PROVE  Within(lastSig, k, SigCool)
             <=> \E i \in 1..Len(attempts) : attempts[i].sig = k /\ now - attempts[i].t < SigCool
  <2>1. /\ Within(lastSig, k, SigCool)
              => \E i \in DOMAIN Sigs : Sigs[i] = k /\ now - Ats[i] < SigCool
        /\ ~Within(lastSig, k, SigCool)
              => \A i \in DOMAIN Sigs : Sigs[i] = k => now - Ats[i] >= SigCool
    <3>1. LastIn(lastSig, Sigs, Ats) /\ SigCool \in Nat
      BY Numbers DEF LInv
    <3>2. DOMAIN Sigs \subseteq DOMAIN Ats /\ \A i \in DOMAIN Ats : Ats[i] \in Nat
      BY <1>1, ColumnsTyped
    <3> QED
      BY <1>1, <3>1, <3>2, WithinMeans
  <2>2. \A i \in 1..Len(attempts) : now - attempts[i].t >= SigCool => ~(now - attempts[i].t < SigCool)
    BY <1>1, AttemptAt, Numbers
  <2> QED
    BY <1>1, <2>1, <2>2, ColumnsTyped
<1>3. Within(lastClass, it.class, MinGap)
      <=> \E i \in 1..Len(attempts) : attempts[i].class = it.class /\ now - attempts[i].t < MinGap
  <2>1. /\ Within(lastClass, it.class, MinGap)
              => \E i \in DOMAIN Classes : Classes[i] = it.class /\ now - Ats[i] < MinGap
        /\ ~Within(lastClass, it.class, MinGap)
              => \A i \in DOMAIN Classes : Classes[i] = it.class => now - Ats[i] >= MinGap
    BY <1>1, ColumnsTyped, WithinMeans, Numbers DEF LInv
  <2>2. \A i \in 1..Len(attempts) : now - attempts[i].t >= MinGap => ~(now - attempts[i].t < MinGap)
    BY <1>1, AttemptAt, Numbers
  <2> QED
    BY <1>1, <2>1, <2>2, ColumnsTyped
<1>4. Cardinality(InHour(now, Len(attempts))) = Len(LastHour)
  BY <1>1, Counted
<1> QED
  BY <1>2, <1>3, <1>4 DEF Cool, HeldBack

\* What held a warning back stays what it was.
LEMMA HeldBackStays ==
    ASSUME NEW n, \A i \in 1..n : attempts'[i] = attempts[i], NEW it, NEW t, HeldBack(it, n, t)
    PROVE  HeldBack(it, n, t)'
<1>1. InHour(t, n)' = InHour(t, n)
  BY DEF InHour
<1> QED
  BY <1>1 DEF HeldBack

LEMMA SkippedStays ==
    ASSUME SkippedTrue, AttemptsTyped, now' = now, skipped' \subseteq skipped,
           Len(attempts') \in Nat, Len(attempts) <= Len(attempts'),
           \A i \in 1..Len(attempts) : attempts'[i] = attempts[i]
    PROVE  SkippedTrue'
<1>1. SUFFICES ASSUME NEW s \in skipped
               PROVE  s.after \in 0..Len(attempts') /\ HeldBack(s.it, s.after, now)'
  BY DEF SkippedTrue
<1> DEFINE n == s.after
           it == s.it
<1>2. n \in 0..Len(attempts) /\ HeldBack(it, n, now) /\ Len(attempts) \in Nat
  BY AttemptAt DEF SkippedTrue
<1>3. n \in 0..Len(attempts') /\ \A i \in 1..n : attempts'[i] = attempts[i]
  BY <1>2
<1> HIDE DEF n, it
<1>4. HeldBack(it, n, now)'
  <2> DEFINE t == now
  <2>1. HeldBack(it, n, t)
    BY <1>2
  <2>2. t = now'
    OBVIOUS
  <2> HIDE DEF t
  <2>3. InHour(now, n)' = InHour(now, n)
    BY <1>3 DEF InHour
  <2> QED
    BY <1>2, <1>3, <2>3 DEF HeldBack
<1> QED
  BY <1>3, <1>4 DEF n, it

-----------------------------------------------------------------------------
(* One attempt more *)

LEMMA StampKept ==
    ASSUME NEW f, NEW keys, NEW times, NEW keys1, NEW times1, NEW n \in Nat, NEW k, NEW t \in Nat,
           LastIn(f, keys, times), DOMAIN keys = 1..n, \A i \in 1..n : times[i] \in Nat /\ times[i] <= t,
           DOMAIN keys1 = 1..n + 1, \A i \in 1..n : keys1[i] = keys[i] /\ times1[i] = times[i],
           keys1[n + 1] = k, times1[n + 1] = t
    PROVE  LastIn(Set(f, k, t), keys1, times1)
<1> DEFINE g == Set(f, k, t)
<1>1. DOMAIN g = DOMAIN f \cup {k} /\ g[k] = t /\ \A x \in DOMAIN f \ {k} : g[x] = f[x]
  BY DEF Set
<1>2. n + 1 \in 1..n + 1 /\ 1..n + 1 = 1..n \cup {n + 1} /\ t <= t
  OBVIOUS
<1> HIDE DEF g
<1>3. ASSUME NEW i \in 1..n + 1
      PROVE  keys1[i] \in DOMAIN g /\ times1[i] <= g[keys1[i]]
  <2>1. CASE i = n + 1
    BY <1>1, <1>2, <2>1
  <2>2. CASE i \in 1..n
    BY <1>1, <2>2 DEF LastIn
  <2> QED
    BY <1>2, <2>1, <2>2
<1>4. ASSUME NEW x \in DOMAIN g
      PROVE  \E i \in 1..n + 1 : keys1[i] = x /\ times1[i] = g[x]
  <2>1. CASE x = k
    BY <1>1, <1>2, <2>1
  <2>2. CASE x \in DOMAIN f \ {k}
    <3>1. PICK i \in 1..n : keys[i] = x /\ times[i] = f[x]
      BY <2>2 DEF LastIn
    <3> QED
      BY <1>1, <1>2, <2>2, <3>1
  <2> QED
    BY <1>1, <2>1, <2>2
<1> QED
  BY <1>3, <1>4 DEF LastIn, g

\* The conclusion in hand is attempted.
Attempts(it) ==
    attempts' = Append(attempts, [t |-> now, class |-> it.class, sig |-> Sig(it)])

LEMMA OneMore ==
    ASSUME now \in Nat, AttemptsTyped, NEW it \in Item, Attempts(it)
    PROVE  /\ attempts' \in Seq(Attempt) /\ Len(attempts') = Len(attempts) + 1 /\ Len(attempts) \in Nat
           /\ \A i \in 1..Len(attempts) : attempts'[i] = attempts[i]
           /\ attempts'[Len(attempts) + 1].t = now
           /\ attempts'[Len(attempts) + 1].class = it.class
           /\ attempts'[Len(attempts) + 1].sig = Sig(it)
<1> DEFINE a == [t |-> now, class |-> it.class, sig |-> Sig(it)]
<1>1. a.t = now /\ a.class = it.class /\ a.sig = Sig(it)
  OBVIOUS
<1>2. a \in Attempt
  BY DEF Attempt, Class
<1>3. attempts \in Seq(Attempt)
  BY DEF AttemptsTyped
<1>4. attempts' = Append(attempts, a)
  BY DEF Attempts
<1> HIDE DEF a
<1>5. attempts' \in Seq(Attempt) /\ Len(attempts') = Len(attempts) + 1 /\ Len(attempts) \in Nat
      /\ (\A i \in 1..Len(attempts) : attempts'[i] = attempts[i]) /\ attempts'[Len(attempts) + 1] = a
  BY <1>2, <1>3, <1>4, AppendProperties
<1> QED
  BY <1>1, <1>5

LEMMA OneMoreTyped ==
    ASSUME now \in Nat, AttemptsTyped, NEW it \in Item, Attempts(it), now' = now
    PROVE  AttemptsTyped'
<1> DEFINE n == Len(attempts)
<1>1. n \in Nat /\ attempts' \in Seq(Attempt) /\ Len(attempts') = n + 1
      /\ (\A i \in 1..n : attempts'[i] = attempts[i]) /\ attempts'[n + 1].t = now
  BY OneMore
<1>2. \A i \in 1..n : attempts[i].t \in Nat /\ attempts[i].t <= now
  BY AttemptAt
<1>3. \A i \in 1..n + 1 : i = n + 1 \/ i \in 1..n
  BY <1>1
<1>4. \A i, j \in 1..n : i < j => attempts[i].t <= attempts[j].t
  BY DEF AttemptsTyped
<1> HIDE DEF n
<1>5. \A i \in 1..n + 1 : attempts'[i].t \in Nat /\ attempts'[i].t <= now
  BY <1>1, <1>2, <1>3
<1>6. \A i, j \in 1..n + 1 : i < j => attempts'[i].t <= attempts'[j].t
  <2>1. SUFFICES ASSUME NEW i \in 1..n + 1, NEW j \in 1..n + 1, i < j
                 PROVE  attempts'[i].t <= attempts'[j].t
    OBVIOUS
  <2>2. i \in 1..n
    BY <1>1, <2>1
  <2>3. CASE j = n + 1
    BY <1>1, <1>2, <2>2, <2>3
  <2>4. CASE j \in 1..n
    BY <1>1, <1>4, <2>1, <2>2, <2>4
  <2> QED
    BY <1>3, <2>3, <2>4
<1> QED
  BY <1>1, <1>5, <1>6 DEF AttemptsTyped

LEMMA OneMoreHours ==
    ASSUME now \in Nat, AttemptsTyped, NEW it \in Item, Attempts(it), RecentAre(recent), HoursKept,
           Len(LastHour) < MaxPerHour, now' = now
    PROVE  HoursKept'
<1> DEFINE n == Len(attempts)
<1>1. n \in Nat /\ Len(attempts') = n + 1 /\ (\A i \in 1..n : attempts'[i] = attempts[i])
      /\ attempts'[n + 1].t = now
  BY OneMore
<1>2. \A i \in 1..n : attempts[i].t \in Nat /\ attempts[i].t <= now
  BY AttemptAt
<1>3. Len(LastHour) \in Nat /\ IsFiniteSet(InHour(now, n)) /\ Cardinality(InHour(now, n)) = Len(LastHour)
  BY Counted, Pruned DEF RecentAre
<1>4. \A i \in 1..n : Cardinality(InHour(attempts[i].t, n)) <= MaxPerHour
  BY DEF HoursKept
<1> HIDE DEF n
<1>5. 1..n + 1 = 1..n \cup {n + 1} /\ n + 1 \notin 1..n
  BY <1>1
<1> DEFINE In(t) == {i \in 1..n + 1 : attempts'[i].t \in (t - Hour + 1)..t}
<1>6. In(now) = InHour(now, n) \cup {n + 1}
  <2>1. now \in (now - Hour + 1)..now
    BY Numbers
  <2> QED
    BY <1>1, <1>5, <2>1 DEF InHour
<1>7. Cardinality(In(now)) <= MaxPerHour
  <2> DEFINE S == InHour(now, n)
  <2>1. IsFiniteSet(S) /\ Cardinality(S) = Len(LastHour)
    BY <1>3
  <2> HIDE DEF S
  <2>2. Cardinality(S \cup {n + 1}) \in {Cardinality(S), Cardinality(S) + 1}
    BY <2>1, FS_AddElement
  <2>3. Cardinality(S \cup {n + 1}) <= MaxPerHour
    BY <1>3, <2>1, <2>2, Numbers
  <2> QED
    BY <1>6, <2>3 DEF S
<1>8. ASSUME NEW t \in Nat, t < now
      PROVE  In(t) = InHour(t, n)
  <2>1. now \notin (t - Hour + 1)..t
    BY <1>8, Numbers
  <2> QED
    BY <1>1, <1>5, <2>1 DEF InHour
<1>9. ASSUME NEW i \in 1..n + 1
      PROVE  Cardinality(In(attempts'[i].t)) <= MaxPerHour
  <2>1. CASE attempts'[i].t = now
    BY <1>7, <2>1
  <2>2. CASE attempts'[i].t # now
    <3>1. i \in 1..n /\ attempts'[i] = attempts[i]
      BY <1>1, <1>5, <2>2
    <3>2. attempts[i].t \in Nat /\ attempts[i].t < now
      BY <1>2, <2>2, <3>1
    <3>3. Cardinality(InHour(attempts[i].t, n)) <= MaxPerHour
      BY <1>4, <3>1
    <3>4. In(attempts[i].t) = InHour(attempts[i].t, n)
      BY <1>8, <3>2
    <3> QED
      BY <3>1, <3>3, <3>4
  <2> QED
    BY <2>1, <2>2
<1> QED
  BY <1>1, <1>9 DEF HoursKept, InHour

LEMMA OneMoreGaps ==
    ASSUME now \in Nat, AttemptsTyped, NEW it \in Item, Attempts(it), GapsKept,
           ~HeldBack(it, Len(attempts), now), now' = now
    PROVE  GapsKept'
<1> DEFINE n == Len(attempts)
<1>1. n \in Nat /\ Len(attempts') = n + 1 /\ (\A i \in 1..n : attempts'[i] = attempts[i])
      /\ attempts'[n + 1].t = now /\ attempts'[n + 1].class = it.class /\ attempts'[n + 1].sig = Sig(it)
  BY OneMore
<1>2. \A i \in 1..n : attempts[i].t \in Nat
  BY AttemptAt
<1>3. \A i \in 1..n : /\ attempts[i].sig = Sig(it) => ~(now - attempts[i].t < SigCool)
                      /\ attempts[i].class = it.class => ~(now - attempts[i].t < MinGap)
  BY DEF HeldBack
<1> HIDE DEF n
<1>4. \A i \in 1..n : /\ attempts[i].sig = Sig(it) => now - attempts[i].t >= SigCool
                      /\ attempts[i].class = it.class => now - attempts[i].t >= MinGap
  BY <1>2, <1>3, Numbers
<1>5. \A i, j \in 1..n : i < j =>
          /\ attempts[i].class = attempts[j].class => attempts[j].t - attempts[i].t >= MinGap
          /\ attempts[i].sig = attempts[j].sig => attempts[j].t - attempts[i].t >= SigCool
  BY DEF GapsKept, n
<1>6. ASSUME NEW i \in 1..n + 1, NEW j \in 1..n + 1, i < j
      PROVE  /\ attempts'[i].class = attempts'[j].class => attempts'[j].t - attempts'[i].t >= MinGap
             /\ attempts'[i].sig = attempts'[j].sig => attempts'[j].t - attempts'[i].t >= SigCool
  <2>1. i \in 1..n /\ attempts'[i] = attempts[i] /\ (j = n + 1 \/ j \in 1..n)
    BY <1>1, <1>6
  <2>2. CASE j = n + 1
    BY <1>1, <1>4, <2>1, <2>2
  <2>3. CASE j \in 1..n
    BY <1>1, <1>5, <1>6, <2>1, <2>3
  <2> QED
    BY <2>1, <2>2, <2>3
<1> QED
  BY <1>1, <1>6 DEF GapsKept

LEMMA OneMoreRecent ==
    ASSUME now \in Nat, AttemptsTyped, NEW it \in Item, Attempts(it), RecentAre(recent),
           recent' = Append(LastHour, now), now' = now
    PROVE  RecentAre(recent)'
<1> DEFINE n == Len(attempts)
           m == Len(LastHour)
           before == n - m
<1>1. n \in Nat /\ Len(attempts') = n + 1 /\ (\A i \in 1..n : attempts'[i] = attempts[i])
      /\ attempts'[n + 1].t = now
  BY OneMore
<1>2. LastHour \in Seq(Nat) /\ m \in Nat /\ before >= 0
      /\ (\A i \in 1..m : LastHour[i] = attempts[before + i].t)
      /\ (\A i \in 1..before : now - attempts[i].t >= Hour)
  BY Pruned DEF RecentAre
<1>3. recent' \in Seq(Nat) /\ Len(recent') = m + 1 /\ (\A i \in 1..m : recent'[i] = LastHour[i])
      /\ recent'[m + 1] = now
  BY <1>2, AppendProperties
<1> HIDE DEF n, m
<1>4. Len(attempts') - Len(recent') = before /\ before \in Nat /\ before + (m + 1) = n + 1
  BY <1>1, <1>2, <1>3
<1>5. \A i \in 1..m + 1 : recent'[i] = attempts'[before + i].t
  <2>1. SUFFICES ASSUME NEW i \in 1..m + 1
                 PROVE  recent'[i] = attempts'[before + i].t
    OBVIOUS
  <2>2. CASE i = m + 1
    <3>1. before + i = n + 1 /\ recent'[i] = now
      BY <1>3, <1>4, <2>2
    <3> HIDE DEF before
    <3> QED
      BY <1>1, <3>1
  <2>3. CASE i \in 1..m
    <3>1. before + i \in 1..n
      BY <1>1, <1>2, <1>4, <2>3
    <3> QED
      BY <1>1, <1>2, <1>3, <2>3, <3>1
  <2>4. i = m + 1 \/ i \in 1..m
    BY <1>2
  <2> QED
    BY <2>2, <2>3, <2>4
<1>6. \A i \in 1..before : now - attempts'[i].t >= Hour
  <2>1. \A i \in 1..before : i \in 1..n
    BY <1>1, <1>2, <1>4
  <2> QED
    BY <1>1, <1>2, <2>1
<1> HIDE DEF before
<1> QED
  BY <1>3, <1>4, <1>5, <1>6 DEF RecentAre

LEMMA OneMoreStamped ==
    ASSUME now \in Nat, AttemptsTyped, NEW it \in Item, Attempts(it),
           LastIn(lastSig, Sigs, Ats), LastIn(lastClass, Classes, Ats),
           lastSig' = Set(lastSig, Sig(it), now), lastClass' = Set(lastClass, it.class, now)
    PROVE  LastIn(lastSig, Sigs, Ats)' /\ LastIn(lastClass, Classes, Ats)'
<1> DEFINE n == Len(attempts)
<1>1. n \in Nat /\ Len(attempts') = n + 1 /\ (\A i \in 1..n : attempts'[i] = attempts[i])
      /\ attempts'[n + 1].t = now /\ attempts'[n + 1].class = it.class /\ attempts'[n + 1].sig = Sig(it)
  BY OneMore
<1>2. DOMAIN Sigs = 1..n /\ DOMAIN Classes = 1..n
      /\ \A i \in 1..n : Ats[i] \in Nat /\ Ats[i] <= now
  BY AttemptAt, ColumnsTyped
<1> HIDE DEF n
<1>3. /\ DOMAIN Sigs' = 1..n + 1 /\ DOMAIN Classes' = 1..n + 1
      /\ \A i \in 1..n : Sigs'[i] = Sigs[i] /\ Classes'[i] = Classes[i] /\ Ats'[i] = Ats[i]
      /\ Sigs'[n + 1] = Sig(it) /\ Classes'[n + 1] = it.class /\ Ats'[n + 1] = now
  BY <1>1 DEF Sigs, Classes, Ats, n
<1>4. LastIn(Set(lastSig, Sig(it), now), Sigs', Ats')
  BY <1>1, <1>2, <1>3, StampKept
<1>5. LastIn(Set(lastClass, it.class, now), Classes', Ats')
  BY <1>1, <1>2, <1>3, StampKept
<1> QED
  BY <1>4, <1>5

-----------------------------------------------------------------------------
(* The limits hold *)

\* The conclusions still to be looked at are some of the last ones.
LEMMA Rest ==
    ASSUME due \in Seq(Item), due # <<>>
    PROVE  Tail(due) \in Seq(Item) /\ Head(due) \in Item
BY HeadTailProperties

LEMMA FreshDue ==
    ASSUME NEW c \in Chain
    PROVE  (IF c = NoChain THEN <<>> ELSE c) \in Seq(Item)
<1>1. CASE c # NoChain
  <2>1. c \in Seq(Range(c)) /\ Range(c) \subseteq Item
    BY <1>1, RecorderAssumption DEF Item
  <2> QED
    BY <1>1, <2>1
<1> QED
  BY <1>1

LEMMA LStarts ==
    ASSUME HInit
    PROVE  LInv
<1>1. Init /\ attempts = <<>> /\ skipped = {}
  BY DEF HInit
<1>2. Len(attempts) = 0 /\ 1..0 = {}
  BY <1>1
<1>3. DueTyped /\ AttemptsTyped /\ RecentAre(recent)
  BY <1>1, <1>2 DEF Init, DueTyped, AttemptsTyped, RecentAre
<1>4. DOMAIN lastSig = {} /\ DOMAIN lastClass = {} /\ DOMAIN Sigs = {} /\ DOMAIN Classes = {}
  BY <1>1, <1>2 DEF Init, Nowhere, Sigs, Classes
<1> QED
  BY <1>1, <1>2, <1>3, <1>4 DEF LInv, LastIn, HoursKept, GapsKept, SkippedTrue

\* A tick only makes the attempts older.
LEMMA TickLimits ==
    ASSUME LInv, NEW c \in Chain, NEW delay \in 1..2, HTick(c, delay)
    PROVE  LInv'
<1>1. now \in Nat /\ now' \in Nat /\ now' > now /\ due' \in Seq(Item) /\ loop' = "look"
  BY FreshDue DEF LInv, DueTyped, HTick, Tick
<1>2. attempts' = attempts /\ recent' = recent /\ lastSig' = lastSig /\ lastClass' = lastClass /\ skipped' = {}
  BY DEF HTick, Tick
<1>3. \A i \in 1..Len(attempts) : attempts[i].t \in Nat /\ attempts[i].t <= now
  BY AttemptAt DEF LInv
<1>4. AttemptsTyped'
  <2>1. \A i \in 1..Len(attempts) : attempts[i].t <= now'
    BY <1>1, <1>3
  <2> QED
    BY <1>2, <2>1 DEF LInv, AttemptsTyped
<1>5. RecentAre(recent)'
  <2> DEFINE before == Len(attempts) - Len(recent)
  <2>1. before \in Int /\ before <= Len(attempts) /\ Len(attempts) \in Nat
    BY DEF LInv, RecentAre, AttemptsTyped
  <2>2. \A i \in 1..before : now - attempts[i].t >= Hour
    BY DEF LInv, RecentAre
  <2> HIDE DEF before
  <2>3. \A i \in 1..before : now' - attempts[i].t >= Hour
    BY <1>1, <1>3, <2>1, <2>2, Numbers
  <2> QED
    BY <1>2, <2>3 DEF LInv, RecentAre, before
<1> QED
  BY <1>1, <1>2, <1>4, <1>5
     DEF LInv, DueTyped, LastIn, Sigs, Classes, Ats, HoursKept, InHour, GapsKept, SkippedTrue

LEMMA HoldBackLimits ==
    ASSUME LInv, HoldBack, skipped' = skipped \cup {[it |-> Head(due), after |-> Len(attempts)]},
           attempts' = attempts
    PROVE  LInv'
<1>1. now' = now /\ recent' = LastHour /\ lastSig' = lastSig /\ lastClass' = lastClass
      /\ due' = Tail(due) /\ loop' = loop /\ loop = "look" /\ due # <<>>
  BY DEF HoldBack
<1>2. HeldBack(Head(due), Len(attempts), now)
  BY CoolMeans DEF HoldBack
<1>3. Len(attempts) \in Nat /\ now \in Nat
  BY AttemptAt DEF LInv, DueTyped
<1>4. SkippedTrue'
  <2> DEFINE new == [it |-> Head(due), after |-> Len(attempts)]
  <2>1. new.it = Head(due) /\ new.after = Len(attempts)
    OBVIOUS
  <2>2. new.after \in 0..Len(attempts) /\ HeldBack(new.it, new.after, now)
    BY <1>2, <1>3, <2>1
  <2> HIDE DEF new
  <2>3. \A s \in skipped \cup {new} : s.after \in 0..Len(attempts) /\ HeldBack(s.it, s.after, now)
    BY <2>2 DEF LInv, SkippedTrue
  <2> QED
    BY <1>1, <2>3 DEF SkippedTrue, HeldBack, InHour, new
<1>5. RecentAre(LastHour)
  BY Pruned DEF LInv, DueTyped
<1>6. DueTyped'
  BY <1>1, Rest DEF LInv, DueTyped
<1>7. AttemptsTyped' /\ RecentAre(recent)'
  BY <1>1, <1>5 DEF LInv, AttemptsTyped, RecentAre
<1> QED
  BY <1>1, <1>4, <1>6, <1>7
     DEF LInv, LastIn, Sigs, Classes, Ats, HoursKept, InHour, GapsKept

LEMMA ChooseLimits ==
    ASSUME LInv, Choose, Attempts(Head(due)), skipped' = skipped
    PROVE  LInv'
<1> DEFINE it == Head(due)
<1>1. now' = now /\ recent' = Append(LastHour, now) /\ due' = due /\ due # <<>> /\ due \in Seq(Item)
      /\ lastSig' = Set(lastSig, Sig(it), now) /\ lastClass' = Set(lastClass, it.class, now)
  BY DEF Choose, LInv, DueTyped
<1>2. it \in Item /\ now \in Nat /\ AttemptsTyped /\ RecentAre(recent)
  BY <1>1, Rest DEF LInv, DueTyped
<1>3. ~Cool(it) /\ ~HeldBack(it, Len(attempts), now)
  BY CoolMeans DEF Choose
<1>4. Attempts(it)
  OBVIOUS
<1> HIDE DEF it
<1>5. Len(LastHour) < MaxPerHour
  <2>1. ~(Len(LastHour) >= MaxPerHour)
    BY <1>3 DEF Cool
  <2>2. Len(LastHour) \in Nat
    BY <1>2, Pruned DEF RecentAre
  <2> QED
    BY <2>1, <2>2, Numbers
<1>6. AttemptsTyped'
  BY <1>1, <1>2, <1>4, OneMoreTyped
<1>7. RecentAre(recent)'
  BY <1>1, <1>2, <1>4, OneMoreRecent
<1>8. LastIn(lastSig, Sigs, Ats)' /\ LastIn(lastClass, Classes, Ats)'
  BY <1>1, <1>2, <1>4, OneMoreStamped DEF LInv
<1>9. HoursKept'
  BY <1>1, <1>2, <1>4, <1>5, OneMoreHours DEF LInv
<1>10. GapsKept'
  BY <1>1, <1>2, <1>3, <1>4, OneMoreGaps DEF LInv
<1>11. SkippedTrue'
  <2>1. Len(attempts') \in Nat /\ Len(attempts) <= Len(attempts')
        /\ \A i \in 1..Len(attempts) : attempts'[i] = attempts[i]
    BY <1>2, <1>4, OneMore
  <2> QED
    BY <1>1, <1>2, <2>1, SkippedStays DEF LInv
<1>12. DueTyped'
  BY <1>1, <1>2 DEF DueTyped
<1> QED
  BY <1>6, <1>7, <1>8, <1>9, <1>10, <1>11, <1>12 DEF LInv

\* No other step touches what Tick counts.
LEMMA ElsewhereLimits ==
    ASSUME LInv, now' = now, attempts' = attempts, recent' = recent,
           lastSig' = lastSig, lastClass' = lastClass, DueTyped', skipped' \subseteq skipped
    PROVE  LInv'
<1>1. AttemptsTyped' /\ RecentAre(recent)'
  BY DEF LInv, AttemptsTyped, RecentAre
<1>2. SkippedTrue'
  BY DEF LInv, SkippedTrue, HeldBack, InHour
<1> QED
  BY <1>1, <1>2 DEF LInv, LastIn, Sigs, Classes, Ats, HoursKept, InHour, GapsKept

Manually == \E h \in Handler : ManualWrite(h) \/ ManualRename(h) \/ ManualExpire(h)

LEMMA OtherDue ==
    ASSUME DueTyped, LoopStep \/ Manually
    PROVE  DueTyped'
<1>1. CASE PassBy \/ CaptureFails \/ StartSession
  BY <1>1, Rest DEF PassBy, CaptureFails, StartSession, DueTyped
<1>2. CASE LookDone \/ CaptureDue \/ ExpireDue
  BY <1>2 DEF LookDone, CaptureDue, ExpireDue, DueTyped, loopVars
<1>3. CASE AdvanceSessions \/ FinishRead \/ FinishWrite \/ TickDone
  BY <1>3 DEF AdvanceSessions, FinishRead, FinishWrite, TickDone, DueTyped, loopVars
<1>4. CASE Manually
  BY <1>4 DEF Manually, ManualWrite, ManualRename, ManualExpire, DueTyped, loopVars
<1> QED
  BY <1>1, <1>2, <1>3, <1>4 DEF LoopStep

LEMMA OtherLimits ==
    ASSUME LInv, LoopStep \/ Manually, attempts' = attempts, skipped' \subseteq skipped
    PROVE  LInv'
<1>1. DueTyped'
  BY OtherDue DEF LInv
<1>2. now' = now /\ recent' = recent /\ lastSig' = lastSig /\ lastClass' = lastClass
  BY DEF LoopStep, PassBy, LookDone, CaptureDue, CaptureFails, ExpireDue, StartSession, AdvanceSessions,
         FinishRead, FinishWrite, TickDone, Manually, ManualWrite, ManualRename, ManualExpire, loopVars
<1> QED
  BY <1>1, <1>2, ElsewhereLimits

\* A new life starts without any.
LEMMA RestartLimits ==
    ASSUME LInv, Restart, attempts' = <<>>, skipped' = {}
    PROVE  LInv'
<1>1. now' = now /\ now \in Nat /\ loop' = "wait" /\ due' = <<>> /\ recent' = <<>>
      /\ DOMAIN lastSig' = {} /\ DOMAIN lastClass' = {}
  BY DEF Restart, LInv, DueTyped, Nowhere
<1>2. Len(attempts') = 0 /\ 1..0 = {}
  OBVIOUS
<1>3. DueTyped' /\ AttemptsTyped' /\ RecentAre(recent)'
  BY <1>1, <1>2 DEF DueTyped, AttemptsTyped, RecentAre
<1>4. DOMAIN Sigs' = {} /\ DOMAIN Classes' = {}
  BY <1>2 DEF Sigs, Classes
<1> QED
  BY <1>1, <1>2, <1>3, <1>4 DEF LInv, LastIn, HoursKept, GapsKept, SkippedTrue

LEMMA LInductive ==
    ASSUME LInv, [HNext]_hvars
    PROVE  LInv'
<1>1. CASE UNCHANGED hvars
  <2>1. DueTyped' /\ now' = now /\ attempts' = attempts /\ recent' = recent
        /\ lastSig' = lastSig /\ lastClass' = lastClass /\ skipped' = skipped
    BY <1>1 DEF hvars, vars, loopVars, LInv, DueTyped
  <2> QED
    BY <2>1, ElsewhereLimits
<1>2. CASE \E c \in Chain, delay \in 1..2 : HTick(c, delay)
  BY <1>2, TickLimits
<1>3. CASE HLook
  BY <1>3, HoldBackLimits, ChooseLimits DEF HLook, Attempts
<1>4. CASE (LoopStep \/ Manually) /\ attempts' = attempts /\ skipped' \subseteq skipped
  BY <1>4, OtherLimits
<1>5. CASE Restart /\ attempts' = <<>> /\ skipped' = {}
  BY <1>5, RestartLimits
<1> QED
  BY <1>1, <1>2, <1>3, <1>4, <1>5 DEF HNext, Manually

\* LimitsExact (incident.go:109): for any conclusions, any limits and late ticks, in
\* every life of the recorder.
THEOREM LimitsHold == HSpec => []LimitsExact
<1>1. HInit => LInv
  BY LStarts
<1>2. LInv /\ [HNext]_hvars => LInv'
  BY LInductive
<1>3. LInv => LimitsExact
  BY DEF LInv, LimitsExact, SkippedTrue
<1> QED
  BY <1>1, <1>2, <1>3, PTL DEF HSpec

-----------------------------------------------------------------------------
(* The open sessions *)

SampleSet ==
    [phase : {"onset", "during", "recovery"}, covers : Seq(Nat), at : Nat,
     note : {"", "gone", "still there"}]
Session ==
    [class : Class, t0 : Nat, nextIdx : 1..Len(Offsets) + 1, goneFor : Nat, samples : Seq(SampleSet)]

OpenTyped(id, s) ==
    /\ s \in Session /\ s.samples # <<>>
    /\ s.t0 <= now /\ id = Id(s.t0, s.class)

SessionsTyped ==
    /\ IsFiniteSet(DOMAIN sessions) /\ Cardinality(DOMAIN sessions) <= MaxOpen
    /\ \A id \in DOMAIN sessions : OpenTyped(id, sessions[id])

\* The sessions that ended wait to be written back, each once.
EndedTyped ==
    /\ ended \in Seq(DOMAIN sessions)
    /\ \A i, j \in 1..Len(ended) : i # j => ended[i] # ended[j]
    /\ held # NoId => ended # <<>> /\ held = Head(ended)
    /\ loop # "finish" => ended = <<>> /\ held = NoId

StampsTyped ==
    /\ DOMAIN lastSig \subseteq {Sig(it) : it \in Item} /\ Range(lastSig) \subseteq Times
    /\ DOMAIN lastClass \subseteq Class /\ Range(lastClass) \subseteq Times

LoopTyped ==
    /\ loop \in {"wait", "look", "capture", "expire", "session", "advance", "finish"}
    /\ IF due = <<>> THEN loop \in {"wait", "look", "advance", "finish"}
       ELSE loop \in {"look", "capture", "expire", "session"}

BaseTyped ==
    /\ now \in Times /\ faults \in 0..MaxFaults
    /\ LoopTyped /\ StampsTyped /\ \A s \in skipped : s.it \in Item

SInv == BaseTyped /\ DueTyped /\ SessionsTyped /\ EndedTyped

-----------------------------------------------------------------------------
(* The evidence *)

Working == loop \in {"look", "capture", "expire", "session"}

\* What is gone was replaced by enough newer pieces.
Kept ==
    /\ IsFiniteSet(published) /\ DOMAIN files \subseteq published
    /\ \A id \in published \ DOMAIN files :
          Cardinality({o \in published : Older(id, o)}) >= IncidentKeep

\* A time line that was written belongs to an earlier tick while the loop captures.
Lines ==
    /\ \A id \in written : id \in Nat \X Class /\ id[1] <= now /\ (Working => id[1] < now)
    /\ \A id \in written \cap DOMAIN files : files[id] # <<>>
    /\ \A id \in DOMAIN files : files[id] # <<>> => id \in written

ManualIds == manual \in [Handler -> [at : {"idle", "rename", "expire"}, id : Int \X {"manual"}]]

EInv == Kept /\ Lines /\ ManualIds

-----------------------------------------------------------------------------
(* The end of the sessions *)

Past == IF loop \in {"finish", "wait"} THEN Len(ticks) ELSE Len(ticks) - 1

TickRecord == [t : Nat, active : SUBSET Class]

TicksTyped ==
    /\ ticks \in Seq(TickRecord)
    /\ \A i \in 1..Len(ticks) : ticks[i].t <= now
    /\ loop # "wait" => /\ ticks # <<>> /\ Last(ticks).t = now /\ Last(ticks).active = Active
                        /\ \A i \in 1..Len(due) : due[i].class \in Active

\* goneFor counts the last ticks that did not see the class.
GoneExact(s) ==
    /\ s.goneFor <= Past
    /\ \A i \in Past - s.goneFor + 1 .. Past : ticks[i].t > s.t0 /\ s.class \notin ticks[i].active
    /\ s.goneFor < Past => \/ ticks[Past - s.goneFor].t <= s.t0
                           \/ s.class \in ticks[Past - s.goneFor].active

EndsExact(id, s) ==
    /\ Done(s) => id \in Range(ended)
    /\ id \in Range(ended) => Done(s) /\ Over(s, now - s.t0)
    /\ loop \in {"finish", "wait"} /\ ~Done(s) => ~Over(s, now - s.t0)
    /\ loop # "wait" /\ s.t0 = now => s.class \in Active

GInv ==
    /\ TicksTyped
    /\ \A id \in DOMAIN sessions : GoneExact(sessions[id]) /\ EndsExact(id, sessions[id])

-----------------------------------------------------------------------------
(* The time lines *)

\* tl is as it should be when the offsets before the n-th are covered and nothing is
\* sampled later than e.
Line(tl, n, e) ==
    /\ PhasesGood(tl) /\ CoversGood(tl) /\ Covers(tl) = {Offsets[k] : k \in 1..n - 1}
    /\ \A i \in 1..Len(tl) : tl[i].at <= e
    /\ \A k \in 1..n - 1 : Offsets[k] <= Last(tl).at
    /\ \A k \in n..Len(Offsets) : Offsets[k] > Last(tl).at

\* No tick so far has reached the n-th offset.
Unreached(n, t0) == \A k \in n..Len(Offsets), i \in 1..Past : ticks[i].t - t0 < Offsets[k]

TimelineOpen(s) ==
    /\ Line(s.samples, s.nextIdx, now - s.t0)
    /\ Unreached(s.nextIdx, s.t0) /\ Prompt(s.t0, s.samples)

FilesGood ==
    \A id \in DOMAIN files : files[id] # <<>> =>
        TimelineGood(files[id]) /\ Last(files[id]).phase = "recovery"

TInv == FilesGood /\ \A id \in DOMAIN sessions : TimelineOpen(sessions[id])

-----------------------------------------------------------------------------
(* What advancing a session does *)

LEMMA OffsetsAre ==
    /\ Offsets \in Seq(Nat) /\ Len(Offsets) \in Nat
    /\ \A k \in 1..Len(Offsets) : Offsets[k] \in Nat /\ Offsets[k] > 0
    /\ \A i, j \in 1..Len(Offsets) : i < j => Offsets[i] < Offsets[j]
<1>1. Offsets \in Seq(Nat \ {0}) /\ \A i, j \in 1..Len(Offsets) : i < j => Offsets[i] < Offsets[j]
  BY RecorderAssumption
<1>2. \A k \in 1..Len(Offsets) : Offsets[k] \in Nat \ {0}
  BY <1>1
<1> QED
  BY <1>1, <1>2

\* A part of a..b that holds what is below any of its elements is an interval.
LEMMA LowPart ==
    ASSUME NEW a \in Int, NEW b \in Int, NEW S \in SUBSET (a..b), \A i \in S : \A j \in a..i : j \in S
    PROVE  Cardinality(S) \in Nat /\ S = a..a + Cardinality(S) - 1
<1>1. IsFiniteSet(a..b)
  BY FS_Interval
<1>2. IsFiniteSet(S)
  BY <1>1, FS_Subset
<1>3. Cardinality(S) \in Nat
  BY <1>2, FS_CardinalityType
<1>4. \A i \in S : i <= a + Cardinality(S) - 1
  <2>1. SUFFICES ASSUME NEW i \in S
                 PROVE  i <= a + Cardinality(S) - 1
    OBVIOUS
  <2>2. i \in Int /\ a <= i /\ a..i \in SUBSET S
    OBVIOUS
  <2>3. Cardinality(a..i) = i - a + 1
    BY <2>2, FS_Interval
  <2>4. Cardinality(a..i) <= Cardinality(S)
    BY <1>2, <2>2, FS_Subset
  <2> QED
    BY <1>3, <2>2, <2>3, <2>4
<1> DEFINE z == a + Cardinality(S) - 1
<1>5. z \in Int /\ S \in SUBSET (a..z)
  BY <1>3, <1>4
<1>6. IsFiniteSet(a..z) /\ Cardinality(a..z) = Cardinality(S)
  <2>1. (IF a > z THEN 0 ELSE z - a + 1) = Cardinality(S)
    BY <1>3
  <2> HIDE DEF z
  <2> QED
    BY <1>5, <2>1, FS_Interval
<1> HIDE DEF z
<1>7. S = a..z
  BY <1>5, <1>6, FS_Subset
<1> QED
  BY <1>3, <1>7 DEF z

LEMMA SessionFields ==
    ASSUME NEW s \in Session
    PROVE  /\ s.class \in Class /\ s.t0 \in Nat /\ s.nextIdx \in 1..Len(Offsets) + 1
           /\ s.goneFor \in Nat /\ s.samples \in Seq(SampleSet)
BY DEF Session

\* Covered returns the offsets from nextIdx on that are not above elapsed.
LEMMA CoveredIs ==
    ASSUME NEW s \in Session, NEW e \in Nat
    PROVE  LET c == Covered(s, e)
               n == s.nextIdx
           IN  /\ c \in Seq(Nat) /\ n + Len(c) \in n..Len(Offsets) + 1
               /\ \A i \in 1..Len(c) : c[i] = Offsets[n + i - 1] /\ c[i] <= e
               /\ \A k \in n + Len(c)..Len(Offsets) : Offsets[k] > e
<1> DEFINE R == Reached(s, e)
           n == s.nextIdx
           all == Len(Offsets)
           r == Cardinality(R)
           c == Covered(s, e)
<1>1. n \in 1..all + 1 /\ all \in Nat /\ n \in Nat
  BY SessionFields, OffsetsAre
<1>2. R \in SUBSET (n..all) /\ \A k \in n..all : k \in R <=> Offsets[k] <= e
  <2>1. \A k \in n..all : Offsets[k] \in Nat
    BY <1>1, OffsetsAre
  <2> QED
    BY <2>1 DEF Reached
<1> HIDE DEF R
<1>3. \A i \in R : \A j \in n..i : j \in R
  <2>1. SUFFICES ASSUME NEW i \in R, NEW j \in n..i, j < i
                 PROVE  j \in R
    BY <1>1, <1>2
  <2>2. i \in 1..all /\ j \in 1..all /\ j \in n..all
    BY <1>1, <1>2
  <2>3. Offsets[j] < Offsets[i] /\ Offsets[i] <= e /\ Offsets[j] \in Nat /\ Offsets[i] \in Nat
    BY <1>2, <2>1, <2>2, OffsetsAre
  <2> QED
    BY <1>2, <2>2, <2>3
<1>4. r \in Nat /\ R = n..n + r - 1
  <2>1. n \in Int /\ all \in Int
    BY <1>1
  <2> HIDE DEF n, all
  <2> QED
    BY <1>2, <1>3, <2>1, LowPart
<1>5. c = SubSeq(Offsets, n, n + r - 1)
  BY DEF Covered, R
<1> HIDE DEF r, c, n, all
<1>6. n + r - 1 <= all
  <2>1. CASE r = 0
    BY <1>1, <2>1
  <2>2. CASE r > 0
    <3>1. n + r - 1 \in R
      BY <1>1, <1>4, <2>2
    <3>2. n + r - 1 \in n..all
      BY <1>2, <3>1
    <3> QED
      BY <1>1, <3>2
  <2> QED
    BY <1>4, <2>1, <2>2
<1>7. c \in Seq(Nat) /\ Len(c) = r /\ \A i \in 1..r : c[i] = Offsets[n + i - 1]
  <2> DEFINE z == n + r - 1
  <2>1. z \in Int /\ n \in Int /\ z - n + 1 = r /\ (n <= z <=> r > 0) /\ n >= 1 /\ z <= all
    BY <1>1, <1>4, <1>6
  <2>2. c = SubSeq(Offsets, n, z)
    BY <1>5
  <2> HIDE DEF z
  <2>3. \A i \in n..z : Offsets[i] \in Nat
    BY <1>1, <2>1, OffsetsAre DEF all
  <2>4. /\ c \in Seq(Nat) /\ Len(c) = (IF n <= z THEN z - n + 1 ELSE 0)
        /\ \A i \in 1..z - n + 1 : c[i] = Offsets[n + i - 1]
    BY <2>1, <2>2, <2>3, SubSeqProperties
  <2> QED
    BY <1>4, <2>1, <2>4
<1>9. \A i \in 1..r : Offsets[n + i - 1] <= e
  <2>1. SUFFICES ASSUME NEW i \in 1..r
                 PROVE  Offsets[n + i - 1] <= e
    OBVIOUS
  <2>2. n + i - 1 \in R /\ n + i - 1 \in n..all
    BY <1>1, <1>4, <1>6
  <2> QED
    BY <1>2, <2>2
<1>10. \A k \in n + r..all : Offsets[k] > e
  <2>1. SUFFICES ASSUME NEW k \in n + r..all
                 PROVE  Offsets[k] > e
    OBVIOUS
  <2>2. k \in n..all /\ k \notin R /\ k \in 1..all
    BY <1>1, <1>4
  <2>3. Offsets[k] \in Nat /\ ~(Offsets[k] <= e)
    BY <1>2, <2>2, OffsetsAre DEF all
  <2> QED
    BY <2>3
<1> QED
  <2>1. Len(c) = r /\ r \in Nat /\ n + r \in n..all + 1
    BY <1>1, <1>4, <1>6, <1>7
  <2>2. \A i \in 1..Len(c) : c[i] = Offsets[n + i - 1] /\ c[i] <= e
    BY <1>7, <1>9
  <2>3. \A k \in n + Len(c)..all : Offsets[k] > e
    BY <1>10, <2>1
  <2>4. c \in Seq(Nat) /\ n + Len(c) \in n..all + 1
    BY <1>7, <2>1
  <2> QED
    BY <2>2, <2>3, <2>4 DEF n, all, c

\* The samples after an advance: one that covers what was reached, one at the end.
Sampled(tl, c, e) == IF c = <<>> THEN tl ELSE Append(tl, Sample("during", c, e, ""))
Closed(tl, over, e) == IF over THEN Append(tl, Sample("recovery", <<>>, e, Note(e))) ELSE tl

LEMMA SamplesTyped ==
    ASSUME NEW tl \in Seq(SampleSet), tl # <<>>, NEW e \in Nat, NEW c \in Seq(Nat), NEW over \in BOOLEAN
    PROVE  /\ Sampled(tl, c, e) \in Seq(SampleSet) /\ Sampled(tl, c, e) # <<>>
           /\ Closed(tl, over, e) \in Seq(SampleSet) /\ Closed(tl, over, e) # <<>>
<1> DEFINE a == Sample("during", c, e, "")
           b == Sample("recovery", <<>>, e, Note(e))
<1>1. a \in SampleSet /\ b \in SampleSet
  <2>1. <<>> \in Seq(Nat) /\ Note(e) \in {"", "gone", "still there"}
    BY DEF Note
  <2> QED
    BY <2>1, Zenon DEF Sample, SampleSet
<1> HIDE DEF a, b
<1>2. Append(tl, a) \in Seq(SampleSet) /\ Append(tl, a) # <<>> /\ Append(tl, b) \in Seq(SampleSet) /\ Append(tl, b) # <<>>
  BY <1>1, AppendProperties
<1> QED
  <2>1. Sampled(tl, c, e) \in {tl, Append(tl, a)}
    BY DEF Sampled, a
  <2>2. Closed(tl, over, e) \in {tl, Append(tl, b)}
    BY DEF Closed, b
  <2> QED
    BY <1>2, <2>1, <2>2

LEMMA AdvancedIs ==
    ASSUME now \in Nat, NEW s \in Session, s.samples # <<>>, s.t0 <= now
    PROVE  LET a == Advanced(s)
               e == now - s.t0
               c == Covered(s, e)
               over == GoneFor(s) >= GoneRounds \/ e >= MaxDuration
           IN  /\ a \in Session /\ a.samples # <<>>
               /\ a.class = s.class /\ a.t0 = s.t0 /\ a.goneFor = GoneFor(s)
               /\ a.nextIdx = s.nextIdx + Len(c)
               /\ a.samples = Closed(Sampled(s.samples, c, e), over, e)
<1> DEFINE e == now - s.t0
           c == Covered(s, e)
           over == GoneFor(s) >= GoneRounds \/ e >= MaxDuration
           f == During(s, e)
           d == [f EXCEPT !.goneFor = GoneFor(s)]
           tl == Sampled(s.samples, c, e)
<1>1. e \in Nat /\ over \in BOOLEAN
  BY SessionFields
<1>2. c \in Seq(Nat) /\ s.nextIdx + Len(c) \in 1..Len(Offsets) + 1 /\ s.nextIdx \in Nat
      /\ (c = <<>> => s.nextIdx + Len(c) = s.nextIdx)
  BY <1>1, CoveredIs, SessionFields, OffsetsAre
<1>3. GoneFor(s) \in Nat
  BY SessionFields DEF GoneFor
<1>4. tl \in Seq(SampleSet) /\ tl # <<>> /\ Closed(tl, over, e) \in Seq(SampleSet) /\ Closed(tl, over, e) # <<>>
  <2>1. tl \in Seq(SampleSet) /\ tl # <<>>
    BY <1>1, <1>2, SamplesTyped, SessionFields
  <2> HIDE DEF tl, over, e
  <2> QED
    BY <1>1, <1>2, <2>1, SamplesTyped
<1>5. f = [s EXCEPT !.nextIdx = s.nextIdx + Len(c), !.samples = tl]
  <2>1. CASE c = <<>>
    <3>1. f = s /\ tl = s.samples
      BY <2>1 DEF During, Sampled
    <3>2. [s EXCEPT !.nextIdx = s.nextIdx, !.samples = s.samples] = s
      BY DEF Session
    <3> QED
      BY <1>2, <2>1, <3>1, <3>2
  <2>2. CASE c # <<>>
    BY <2>2 DEF During, Sampled
  <2> QED
    BY <2>1, <2>2
<1> HIDE DEF c, over, f, tl
<1>6. /\ d \in Session /\ d.class = s.class /\ d.t0 = s.t0 /\ d.goneFor = GoneFor(s)
      /\ d.nextIdx = s.nextIdx + Len(c) /\ d.samples = tl
  BY <1>2, <1>3, <1>4, <1>5 DEF Session
<1>7. Over(d, e) = over
  BY <1>6 DEF Over, over
<1>8. Advanced(s) = [d EXCEPT !.samples = Closed(tl, over, e)]
  <2>1. Advanced(s) = IF Over(d, e) THEN [d EXCEPT !.samples = Append(d.samples, Sample("recovery", <<>>, e, Note(e)))]
                      ELSE d
    BY DEF Advanced, f
  <2>2. [d EXCEPT !.samples = d.samples] = d
    BY <1>6 DEF Session
  <2> HIDE DEF d, e
  <2> QED
    BY <1>6, <1>7, <2>1, <2>2 DEF Closed
<1> HIDE DEF d, e
<1> QED
  BY <1>4, <1>6, <1>8 DEF Session, c, over, e, tl

-----------------------------------------------------------------------------
(* The sessions are well formed *)

LEMMA InDue ==
    ASSUME DueTyped, due # <<>>
    PROVE  Head(due).class \in Class /\ Sig(Head(due)) \in {Sig(it) : it \in Item} /\ Head(due) \in Item
BY Rest DEF DueTyped, Class

LEMMA RestrictStays ==
    ASSUME NEW f, NEW S
    PROVE  DOMAIN Restrict(f, DOMAIN f \ S) = DOMAIN f \ S
           /\ \A x \in DOMAIN f \ S : Restrict(f, DOMAIN f \ S)[x] = f[x]
BY DEF Restrict

LEMMA SetInTimes ==
    ASSUME NEW f, Range(f) \subseteq Times, NEW k, NEW t \in Times
    PROVE  Range(Set(f, k, t)) \subseteq Times
<1>1. SUFFICES ASSUME NEW x \in DOMAIN Set(f, k, t)
               PROVE  Set(f, k, t)[x] \in Times
  BY DEF Range
<1>2. x = k \/ x \in DOMAIN f
  BY DEF Set
<1>3. \A y \in DOMAIN f : f[y] \in Times
  BY DEF Range
<1> QED
  BY <1>2, <1>3 DEF Set

\* Nothing but the loop touches what the loop keeps.
LEMMA SElsewhere ==
    ASSUME SInv, loop' = loop, UNCHANGED loopVars, now' = now, faults' \in 0..MaxFaults, skipped' = skipped
    PROVE  SInv'
<1>1. BaseTyped' /\ DueTyped'
  BY DEF SInv, BaseTyped, DueTyped, LoopTyped, StampsTyped, loopVars
<1>2. SessionsTyped' /\ EndedTyped'
  BY DEF SInv, SessionsTyped, OpenTyped, EndedTyped, loopVars
<1> QED
  BY <1>1, <1>2 DEF SInv

LEMMA Fails ==
    ASSUME SInv, MayFail
    PROVE  faults' \in 0..MaxFaults
BY RecorderAssumption DEF SInv, BaseTyped, MayFail

LEMMA SStarts ==
    ASSUME HInit
    PROVE  SInv
<1>1. Init /\ skipped = {}
  BY DEF HInit
<1>2. DOMAIN sessions = {} /\ DOMAIN lastSig = {} /\ DOMAIN lastClass = {}
  BY <1>1 DEF Init, Nowhere
<1>3. BaseTyped /\ DueTyped
  BY <1>1, <1>2, RecorderAssumption
     DEF Init, BaseTyped, DueTyped, LoopTyped, StampsTyped, Times, Range
<1>4. SessionsTyped
  BY <1>2, FS_EmptySet, Numbers DEF SessionsTyped
<1>5. EndedTyped
  BY <1>1 DEF Init, EndedTyped
<1> QED
  BY <1>3, <1>4, <1>5 DEF SInv

LEMMA STick ==
    ASSUME SInv, NEW c \in Chain, NEW delay \in 1..2, HTick(c, delay)
    PROVE  SInv'
<1>1. now \in Nat /\ now' \in Times /\ now' \in Nat /\ now' > now /\ due' \in Seq(Item) /\ loop' = "look"
      /\ loop = "wait" /\ skipped' = {}
  BY FreshDue, Numbers DEF SInv, BaseTyped, DueTyped, HTick, Tick, Times
<1>2. UNCHANGED <<lastSig, lastClass, sessions, ended, held, faults>>
  BY DEF HTick, Tick
<1>3. BaseTyped' /\ DueTyped'
  BY <1>1, <1>2 DEF SInv, BaseTyped, DueTyped, LoopTyped, StampsTyped
<1>4. SessionsTyped'
  <2>1. ASSUME NEW id \in DOMAIN sessions
        PROVE  OpenTyped(id, sessions[id])'
    BY <1>1, <1>2, <2>1, SessionFields DEF SInv, SessionsTyped, OpenTyped
  <2> QED
    BY <1>2, <2>1 DEF SInv, SessionsTyped
<1>5. EndedTyped'
  BY <1>1, <1>2 DEF SInv, EndedTyped
<1> QED
  BY <1>3, <1>4, <1>5 DEF SInv

\* A conclusion is looked at, or not captured: the next one.
LEMMA SLook ==
    ASSUME SInv, UNCHANGED <<now, lastSig, lastClass, sessions, ended, held>>, due # <<>>,
           due' = Tail(due), loop' = "look", faults' \in 0..MaxFaults, \A s \in skipped' : s.it \in Item,
           loop # "finish"
    PROVE  SInv'
<1>1. DueTyped'
  BY Rest DEF SInv, DueTyped
<1>2. BaseTyped'
  BY DEF SInv, BaseTyped, LoopTyped, StampsTyped
<1>3. SessionsTyped' /\ EndedTyped'
  BY DEF SInv, SessionsTyped, OpenTyped, EndedTyped
<1> QED
  BY <1>1, <1>2, <1>3 DEF SInv

LEMMA SChoose ==
    ASSUME SInv, Choose, skipped' = skipped
    PROVE  SInv'
<1>1. now' = now /\ loop' = "capture" /\ due' = due /\ due # <<>> /\ loop # "finish"
      /\ UNCHANGED <<sessions, ended, held, faults>>
      /\ lastSig' = Set(lastSig, Sig(Head(due)), now) /\ lastClass' = Set(lastClass, Head(due).class, now)
  BY DEF Choose
<1>2. DueTyped'
  BY <1>1 DEF SInv, DueTyped
<1>3. StampsTyped'
  <2>1. now \in Times /\ StampsTyped
    BY DEF SInv, BaseTyped
  <2>2. Head(due).class \in Class /\ Sig(Head(due)) \in {Sig(it) : it \in Item}
    BY <1>1, InDue DEF SInv
  <2> QED
    <3>1. Range(Set(lastSig, Sig(Head(due)), now)) \subseteq Times
      BY <2>1, SetInTimes DEF StampsTyped
    <3>2. Range(Set(lastClass, Head(due).class, now)) \subseteq Times
      BY <2>1, SetInTimes DEF StampsTyped
    <3>3. DOMAIN lastSig' = DOMAIN lastSig \cup {Sig(Head(due))}
          /\ DOMAIN lastClass' = DOMAIN lastClass \cup {Head(due).class}
      BY <1>1 DEF Set
    <3> QED
      BY <1>1, <2>1, <2>2, <3>1, <3>2, <3>3 DEF StampsTyped
<1>4. BaseTyped'
  BY <1>1, <1>3 DEF SInv, BaseTyped, LoopTyped
<1>5. SessionsTyped' /\ EndedTyped'
  BY <1>1 DEF SInv, SessionsTyped, OpenTyped, EndedTyped
<1> QED
  BY <1>2, <1>4, <1>5 DEF SInv

\* The loop goes on without touching the rest.
LEMMA SGoesOn ==
    ASSUME SInv, UNCHANGED <<loopVars, now, faults>>, skipped' \subseteq skipped,
           \/ loop = "look" /\ due = <<>> /\ loop' = "advance"
           \/ loop = "capture" /\ loop' = "expire"
           \/ loop = "expire" /\ loop' = "session"
           \/ loop = "finish" /\ ended = <<>> /\ loop' = "wait"
    PROVE  SInv'
<1>1. BaseTyped' /\ DueTyped'
  BY DEF SInv, BaseTyped, DueTyped, LoopTyped, StampsTyped, loopVars
<1>2. SessionsTyped' /\ EndedTyped'
  BY DEF SInv, SessionsTyped, OpenTyped, EndedTyped, loopVars
<1> QED
  BY <1>1, <1>2 DEF SInv

LEMMA NewSessionTyped ==
    ASSUME NEW class \in Class, now \in Nat
    PROVE  LET s == NewSession(class, now)
           IN  /\ OpenTyped(Id(now, class), s) /\ s.class = class /\ s.t0 = now /\ s.goneFor = 0 /\ s.nextIdx = 1
               /\ s.samples = <<Sample("onset", <<>>, 0, "")>>
<1> DEFINE o == Sample("onset", <<>>, 0, "")
           s == NewSession(class, now)
<1>1. o \in SampleSet
  <2>1. <<>> \in Seq(Nat) /\ 0 \in Nat
    OBVIOUS
  <2> QED
    BY <2>1, Zenon DEF Sample, SampleSet
<1> HIDE DEF o
<1>2. <<o>> \in Seq(SampleSet) /\ <<o>> # <<>>
  BY <1>1
<1>3. 1 \in 1..Len(Offsets) + 1 /\ 0 \in Nat
  BY OffsetsAre
<1>4. s = [class |-> class, t0 |-> now, nextIdx |-> 1, goneFor |-> 0, samples |-> <<o>>]
  BY DEF NewSession, o
<1>5. s.class = class /\ s.t0 = now /\ s.goneFor = 0 /\ s.nextIdx = 1 /\ s.samples = <<o>>
  BY <1>4
<1>6. s \in Session
  BY <1>2, <1>3, <1>4 DEF Session
<1> HIDE DEF s
<1> QED
  <2>1. s.samples # <<>> /\ s.t0 <= now /\ Id(now, class) = Id(s.t0, s.class)
    BY <1>2, <1>5
  <2> QED
    BY <1>5, <1>6, <2>1 DEF OpenTyped, s, o

LEMMA SStartSession ==
    ASSUME SInv, StartSession, skipped' = skipped
    PROVE  SInv'
<1> DEFINE class == Head(due).class
           id1 == Id(now, class)
           s1 == NewSession(class, now)
<1>1. due # <<>> /\ loop = "session" /\ loop' = "look" /\ due' = Tail(due) /\ now' = now /\ now \in Nat
      /\ UNCHANGED <<lastSig, lastClass, ended, held, faults>>
  BY DEF StartSession, SInv, DueTyped
<1>2. class \in Class /\ OpenTyped(id1, s1)
  BY <1>1, InDue, NewSessionTyped DEF SInv
<1>3. \/ sessions' = sessions
      \/ ~(Cardinality(DOMAIN sessions) >= MaxOpen) /\ sessions' = Set(sessions, id1, s1)
  BY DEF StartSession
<1> HIDE DEF class, id1, s1
<1>4. SessionsTyped'
  <2>1. CASE sessions' = sessions
    BY <1>1, <2>1 DEF SInv, SessionsTyped, OpenTyped
  <2>2. CASE ~(Cardinality(DOMAIN sessions) >= MaxOpen) /\ sessions' = Set(sessions, id1, s1)
    <3>1. IsFiniteSet(DOMAIN sessions) /\ \A id \in DOMAIN sessions : OpenTyped(id, sessions[id])
      BY DEF SInv, SessionsTyped
    <3>2. Cardinality(DOMAIN sessions) \in Nat
      BY <3>1, FS_CardinalityType
    <3>3. DOMAIN sessions' = DOMAIN sessions \cup {id1}
      BY <2>2 DEF Set
    <3>4. IsFiniteSet(DOMAIN sessions') /\ Cardinality(DOMAIN sessions') <= MaxOpen
      <4> DEFINE D == DOMAIN sessions
      <4>1. IsFiniteSet(D) /\ DOMAIN sessions' = D \cup {id1}
        BY <3>1, <3>3
      <4>2. Cardinality(D) \in Nat /\ ~(Cardinality(D) >= MaxOpen)
        BY <2>2, <3>2
      <4> HIDE DEF D
      <4>3. IsFiniteSet(D \cup {id1})
            /\ (Cardinality(D \cup {id1}) = Cardinality(D) \/ Cardinality(D \cup {id1}) = Cardinality(D) + 1)
        BY <4>1, FS_AddElement
      <4> DEFINE m == Cardinality(D)
                 k == Cardinality(D \cup {id1})
      <4>4. m \in Nat /\ ~(m >= MaxOpen) /\ (k = m \/ k = m + 1)
        BY <4>2, <4>3
      <4> HIDE DEF m, k
      <4>5. k <= MaxOpen
        BY <4>4, Numbers
      <4> QED
        BY <4>1, <4>3, <4>5 DEF k
    <3>5. ASSUME NEW id \in DOMAIN sessions'
          PROVE  OpenTyped(id, sessions[id])'
      <4>1. OpenTyped(id, sessions'[id])
        <5>1. CASE id = id1
          BY <1>2, <2>2, <3>3, <5>1 DEF Set
        <5>2. CASE id # id1
          <6>1. id \in DOMAIN sessions /\ sessions'[id] = sessions[id]
            BY <2>2, <3>3, <5>2 DEF Set
          <6> QED
            BY <3>1, <6>1
        <5> QED
          BY <5>1, <5>2
      <4> QED
        BY <1>1, <4>1 DEF OpenTyped
    <3> QED
      BY <3>4, <3>5 DEF SessionsTyped
  <2> QED
    BY <1>3, <2>1, <2>2
<1>5. DueTyped'
  BY <1>1, Rest DEF SInv, DueTyped
<1>6. BaseTyped'
  BY <1>1 DEF SInv, BaseTyped, LoopTyped, StampsTyped
<1>7. EndedTyped'
  BY <1>1 DEF SInv, EndedTyped
<1> QED
  BY <1>4, <1>5, <1>6, <1>7 DEF SInv

\* advanceSessions keeps the sessions and picks those that are over.
LEMMA AdvancedOpen ==
    ASSUME SInv, NEW id \in DOMAIN sessions
    PROVE  OpenTyped(id, Advanced(sessions[id]))
<1> DEFINE s == sessions[id]
<1>1. now \in Nat /\ OpenTyped(id, s)
  BY DEF SInv, DueTyped, SessionsTyped
<1> HIDE DEF s
<1> QED
  BY <1>1, AdvancedIs DEF OpenTyped, s

LEMMA Picked ==
    ASSUME NEW S, IsFiniteSet(S), NEW q \in SetToSeqs(S)
    PROVE  /\ q \in Seq(S) /\ Range(q) = S
           /\ \A i, j \in 1..Len(q) : i # j => q[i] # q[j]
<1> DEFINE n == Cardinality(S)
<1>1. n \in Nat
  BY FS_CardinalityType
<1>2. q \in [1..n -> S] /\ \A i, j \in 1..n : i # j => q[i] # q[j]
  BY DEF SetToSeqs
<1>3. q \in Seq(S) /\ Len(q) = n
  BY <1>1, <1>2
<1>4. Range(q) = S
  <2>1. q \in Injection(1..n, S)
    BY <1>2 DEF Injection, IsInjective
  <2>2. IsFiniteSet(1..n) /\ Cardinality(1..n) = n
    BY <1>1, FS_Interval
  <2>3. q \in Surjection(1..n, S)
    BY <2>1, <2>2, FS_Injection
  <2> QED
    BY <1>2, <2>3 DEF Surjection, Range
<1> QED
  BY <1>2, <1>3, <1>4

LEMMA SAdvance ==
    ASSUME SInv, AdvanceSessions, skipped' = skipped
    PROVE  SInv'
<1> DEFINE over == {id \in DOMAIN sessions : Done(sessions'[id])}
<1>1. loop = "advance" /\ loop' = "finish" /\ UNCHANGED <<now, due, lastSig, lastClass, held, faults>>
      /\ DOMAIN sessions' = DOMAIN sessions /\ (\A id \in DOMAIN sessions : sessions'[id] = Advanced(sessions[id]))
      /\ ended' \in SetToSeqs(over)
  BY DEF AdvanceSessions
<1>2. SessionsTyped'
  <2>1. ASSUME NEW id \in DOMAIN sessions
        PROVE  OpenTyped(id, sessions[id])'
    BY <1>1, AdvancedOpen DEF OpenTyped
  <2> QED
    BY <1>1, <2>1 DEF SInv, SessionsTyped
<1>3. over \in SUBSET (DOMAIN sessions) /\ IsFiniteSet(DOMAIN sessions)
  BY DEF SInv, SessionsTyped
<1>4. IsFiniteSet(over)
  BY <1>3, FS_Subset
<1> HIDE DEF over
<1>5. EndedTyped'
  <2>1. ended' \in Seq(over) /\ \A i, j \in 1..Len(ended') : i # j => ended'[i] # ended'[j]
    BY <1>1, <1>4, Picked
  <2>2. ended' \in Seq(DOMAIN sessions)
    BY <1>3, <2>1
  <2>3. held' = NoId
    BY <1>1 DEF SInv, EndedTyped
  <2> QED
    BY <1>1, <2>1, <2>2, <2>3 DEF EndedTyped
<1>6. BaseTyped' /\ DueTyped'
  BY <1>1 DEF SInv, BaseTyped, DueTyped, LoopTyped, StampsTyped
<1> QED
  BY <1>2, <1>5, <1>6 DEF SInv

LEMMA EndedFacts ==
    ASSUME EndedTyped, ended # <<>>
    PROVE  /\ Head(ended) \in DOMAIN sessions
           /\ Tail(ended) \in Seq(DOMAIN sessions \ {Head(ended)})
           /\ \A i, j \in 1..Len(Tail(ended)) : i # j => Tail(ended)[i] # Tail(ended)[j]
           /\ Range(ended) = Range(Tail(ended)) \cup {Head(ended)}
<1> DEFINE D == DOMAIN sessions
           q == Tail(ended)
           n == Len(q)
<1>1. ended \in Seq(D) /\ Len(ended) \in Nat /\ Len(ended) # 0 /\ Head(ended) = ended[1]
  BY DEF EndedTyped
<1>2. /\ Head(ended) \in D /\ q \in Seq(D) /\ n = Len(ended) - 1 /\ n \in Nat
      /\ \A i \in 1..n : q[i] = ended[i + 1]
  BY <1>1, HeadTailProperties
<1> HIDE DEF q, n
<1>3. \A i, j \in 1..Len(ended) : i # j => ended[i] # ended[j]
  BY DEF EndedTyped
<1>4. \A i \in 1..n : i + 1 \in 1..Len(ended) /\ 1 \in 1..Len(ended) /\ i + 1 # 1
  BY <1>1, <1>2
<1>5. \A i, j \in 1..n : i # j => i + 1 # j + 1
  BY <1>2
<1>6. \A i, j \in 1..n : i # j => q[i] # q[j]
  BY <1>2, <1>3, <1>4, <1>5
<1>7. \A i \in 1..n : q[i] \in D \ {Head(ended)}
  <2>1. SUFFICES ASSUME NEW i \in 1..n
                 PROVE  q[i] \in D \ {Head(ended)}
    OBVIOUS
  <2>2. q[i] \in D
    BY <1>2 DEF n
  <2>3. q[i] # ended[1]
    BY <1>2, <1>3, <1>4
  <2> QED
    BY <1>1, <2>2, <2>3
<1>8. q \in Seq(D \ {Head(ended)})
  BY <1>2, <1>7 DEF n
<1>9. Range(ended) = Range(q) \cup {Head(ended)}
  <2>1. Range(q) = {q[i] : i \in 1..n} /\ Range(ended) = {ended[i] : i \in 1..Len(ended)}
    BY <1>1, <1>2 DEF Range, n
  <2>2. \A i \in 1..Len(ended) : i = 1 \/ (i - 1 \in 1..n /\ (i - 1) + 1 = i)
    BY <1>1, <1>2
  <2>3. ASSUME NEW x \in Range(ended)
        PROVE  x \in Range(q) \cup {Head(ended)}
    <3>1. PICK i \in 1..Len(ended) : x = ended[i]
      BY <2>1
    <3>2. i = 1 \/ x = q[i - 1]
      BY <1>2, <2>2, <3>1
    <3> QED
      BY <1>1, <2>1, <2>2, <3>1, <3>2
  <2>4. Range(q) \subseteq Range(ended) /\ Head(ended) \in Range(ended)
    BY <1>1, <1>2, <1>4, <2>1
  <2> QED
    BY <2>3, <2>4
<1> QED
  BY <1>2, <1>6, <1>8, <1>9 DEF q, n

\* The first of the sessions that ended is dropped.
Drops == ended' = Tail(ended) /\ sessions' = Restrict(sessions, DOMAIN sessions \ {Head(ended)})

LEMMA DropsOne ==
    ASSUME Drops
    PROVE  /\ DOMAIN sessions' = DOMAIN sessions \ {Head(ended)}
           /\ \A id \in DOMAIN sessions' : sessions'[id] = sessions[id]
BY DEF Drops, Restrict

LEMMA SDrops ==
    ASSUME SInv, Drops, ended # <<>>, held' = NoId, loop = "finish", loop' = loop,
           UNCHANGED <<now, due, lastSig, lastClass, skipped>>, faults' \in 0..MaxFaults
    PROVE  SInv'
<1>1. BaseTyped' /\ DueTyped'
  BY DEF SInv, BaseTyped, DueTyped, LoopTyped, StampsTyped
<1>2. EndedTyped'
  BY DropsOne, EndedFacts DEF SInv, EndedTyped, Drops
<1>3. SessionsTyped'
  <2>1. IsFiniteSet(DOMAIN sessions) /\ Cardinality(DOMAIN sessions) <= MaxOpen
    BY DEF SInv, SessionsTyped
  <2>2. IsFiniteSet(DOMAIN sessions') /\ Cardinality(DOMAIN sessions') <= Cardinality(DOMAIN sessions)
    BY <2>1, DropsOne, FS_Subset
  <2>3. Cardinality(DOMAIN sessions') \in Nat /\ Cardinality(DOMAIN sessions) \in Nat
    BY <2>1, <2>2, FS_CardinalityType
  <2>4. Cardinality(DOMAIN sessions') <= MaxOpen
    BY <2>1, <2>2, <2>3, Numbers
  <2>5. \A id \in DOMAIN sessions' : OpenTyped(id, sessions[id])'
    BY DropsOne DEF SInv, SessionsTyped, OpenTyped
  <2> QED
    BY <2>2, <2>4, <2>5 DEF SessionsTyped
<1> QED
  BY <1>1, <1>2, <1>3 DEF SInv

LEMMA SFinishRead ==
    ASSUME SInv, FinishRead, skipped' = skipped
    PROVE  SInv'
<1>1. loop = "finish" /\ loop' = loop /\ ended # <<>> /\ held = NoId
      /\ UNCHANGED <<now, due, lastSig, lastClass, faults>>
  BY DEF FinishRead
<1>2. CASE held' = Head(ended) /\ UNCHANGED <<ended, sessions>>
  <2>1. BaseTyped' /\ DueTyped' /\ SessionsTyped'
    BY <1>1, <1>2 DEF SInv, BaseTyped, DueTyped, LoopTyped, StampsTyped, SessionsTyped, OpenTyped
  <2>2. EndedTyped'
    BY <1>1, <1>2 DEF SInv, EndedTyped
  <2> QED
    BY <2>1, <2>2 DEF SInv
<1>3. CASE Drops /\ held' = held
  <2>1. faults' \in 0..MaxFaults
    BY <1>1 DEF SInv, BaseTyped
  <2> QED
    BY <1>1, <1>3, <2>1, SDrops
<1> QED
  BY <1>2, <1>3 DEF FinishRead, Drops

LEMMA HeldIs ==
    ASSUME SInv, held # NoId
    PROVE  ended # <<>> /\ held = Head(ended) /\ held \in DOMAIN sessions /\ held \in Range(ended)
<1>1. ended # <<>> /\ held = Head(ended) /\ EndedTyped
  BY DEF SInv, EndedTyped
<1> QED
  BY <1>1, EndedFacts

LEMMA SFinishWrite ==
    ASSUME SInv, FinishWrite, skipped' = skipped
    PROVE  SInv'
<1>1. loop = "finish" /\ loop' = loop /\ held # NoId /\ held' = NoId
      /\ UNCHANGED <<now, due, lastSig, lastClass>> /\ (faults' = faults \/ MayFail)
  BY DEF FinishWrite
<1>2. ended # <<>> /\ Drops
  BY <1>1, HeldIs DEF FinishWrite, Drops
<1>3. faults' \in 0..MaxFaults
  BY <1>1, Fails DEF SInv, BaseTyped
<1> QED
  BY <1>1, <1>2, <1>3, SDrops

LEMMA SRestart ==
    ASSUME SInv, Restart, skipped' = {}
    PROVE  SInv'
<1>1. now' = now /\ loop' = "wait" /\ due' = <<>> /\ ended' = <<>> /\ held' = NoId
      /\ DOMAIN sessions' = {} /\ DOMAIN lastSig' = {} /\ DOMAIN lastClass' = {} /\ MayFail
  BY DEF Restart, Nowhere
<1>2. BaseTyped' /\ DueTyped'
  BY <1>1, Fails DEF SInv, BaseTyped, DueTyped, LoopTyped, StampsTyped, Range
<1>3. SessionsTyped' /\ EndedTyped'
  BY <1>1, FS_EmptySet, Numbers DEF SessionsTyped, EndedTyped
<1> QED
  BY <1>2, <1>3 DEF SInv

LEMMA SLoopStep ==
    ASSUME SInv, LoopStep \/ Manually, skipped' = IF LookDone THEN {} ELSE skipped
    PROVE  SInv'
<1>1. CASE LookDone
  <2>1. loop = "look" /\ due = <<>> /\ loop' = "advance" /\ UNCHANGED <<loopVars, now, faults>> /\ skipped' = {}
    BY <1>1 DEF LookDone
  <2> QED
    BY <2>1, SGoesOn
<1>2. CASE PassBy \/ CaptureFails
  <2>1. ~LookDone
    BY <1>2 DEF LookDone, PassBy, CaptureFails
  <2>2. UNCHANGED <<now, lastSig, lastClass, sessions, ended, held>> /\ due' = Tail(due) /\ loop' = "look"
        /\ loop # "finish" /\ (faults' = faults \/ MayFail) /\ due # <<>>
    BY <1>2 DEF PassBy, CaptureFails, SInv, DueTyped
  <2>3. faults' \in 0..MaxFaults /\ \A s \in skipped : s.it \in Item
    BY <2>2, Fails DEF SInv, BaseTyped
  <2> QED
    BY <2>1, <2>2, <2>3, SLook
<1>3. CASE (CaptureDue \/ ExpireDue \/ TickDone) /\ ~LookDone
  <2>1. UNCHANGED <<loopVars, now, faults>> /\ skipped' = skipped
        /\ \/ loop = "capture" /\ loop' = "expire"
           \/ loop = "expire" /\ loop' = "session"
           \/ loop = "finish" /\ ended = <<>> /\ loop' = "wait"
    BY <1>3 DEF CaptureDue, ExpireDue, TickDone
  <2> QED
    BY <2>1, SGoesOn
<1>4. CASE StartSession \/ AdvanceSessions \/ FinishRead \/ FinishWrite
  <2>1. ~LookDone
    BY <1>4 DEF LookDone, StartSession, AdvanceSessions, FinishRead, FinishWrite
  <2> QED
    BY <1>4, <2>1, SStartSession, SAdvance, SFinishRead, SFinishWrite
<1>5. CASE Manually /\ ~LookDone
  <2>1. loop' = loop /\ UNCHANGED loopVars /\ now' = now /\ faults' = faults
    BY <1>5 DEF Manually, ManualWrite, ManualRename, ManualExpire
  <2>2. faults' \in 0..MaxFaults
    BY <2>1 DEF SInv, BaseTyped
  <2> QED
    BY <1>5, <2>1, <2>2, SElsewhere
<1> QED
  BY <1>1, <1>2, <1>3, <1>4, <1>5 DEF LoopStep

LEMMA SInductive ==
    ASSUME SInv, [HNext]_hvars
    PROVE  SInv'
<1>1. CASE UNCHANGED hvars
  <2>1. loop' = loop /\ UNCHANGED loopVars /\ now' = now /\ faults' \in 0..MaxFaults /\ skipped' = skipped
    BY <1>1 DEF hvars, vars, SInv, BaseTyped
  <2> QED
    BY <2>1, SElsewhere
<1>2. CASE \E c \in Chain, delay \in 1..2 : HTick(c, delay)
  BY <1>2, STick
<1>3. CASE HLook
  <2>1. CASE HoldBack /\ skipped' = skipped \cup {[it |-> Head(due), after |-> Len(attempts)]}
    <3> DEFINE new == [it |-> Head(due), after |-> Len(attempts)]
    <3>1. UNCHANGED <<now, lastSig, lastClass, sessions, ended, held, faults>> /\ due' = Tail(due)
          /\ loop' = "look" /\ loop # "finish" /\ due # <<>>
      BY <2>1 DEF HoldBack
    <3>2. new.it \in Item
      BY <3>1, InDue DEF SInv
    <3> HIDE DEF new
    <3>3. faults' \in 0..MaxFaults /\ \A s \in skipped \cup {new} : s.it \in Item
      BY <3>1, <3>2 DEF SInv, BaseTyped
    <3> QED
      BY <2>1, <3>1, <3>3, SLook DEF new
  <2>2. CASE Choose /\ skipped' = skipped
    BY <2>2, SChoose
  <2> QED
    BY <1>3, <2>1, <2>2 DEF HLook
<1>4. CASE (LoopStep \/ Manually) /\ skipped' = IF LookDone THEN {} ELSE skipped
  BY <1>4, SLoopStep
<1>5. CASE Restart /\ skipped' = {}
  BY <1>5, SRestart
<1> QED
  BY <1>1, <1>2, <1>3, <1>4, <1>5 DEF HNext, Manually

LEMMA STypeOK ==
    ASSUME SInv
    PROVE  TypeOK
<1>1. Range(due) \subseteq Item
  BY DEF SInv, DueTyped, Range
<1>2. {s.it : s \in skipped} \subseteq Item
  BY DEF SInv, BaseTyped
<1>3. ASSUME NEW id \in DOMAIN sessions
      PROVE  /\ sessions[id].t0 = id[1] /\ sessions[id].class = id[2]
             /\ sessions[id].nextIdx \in 1..Len(Offsets) + 1
  <2>1. OpenTyped(id, sessions[id])
    BY DEF SInv, SessionsTyped
  <2> QED
    BY <2>1, SessionFields DEF OpenTyped, Id
<1>4. Range(ended) \subseteq DOMAIN sessions
  BY DEF SInv, EndedTyped, Range
<1>5. held \in DOMAIN sessions \cup {NoId}
  BY HeldIs
<1>6. Range(due) \cup {s.it : s \in skipped} \subseteq Item
  BY <1>1, <1>2
<1> QED
  BY <1>3, <1>4, <1>5, <1>6 DEF SInv, BaseTyped, LoopTyped, StampsTyped, SessionsTyped, TypeOK

LEMMA Sessions == HSpec => []SInv
<1>1. HInit => SInv
  BY SStarts
<1>2. SInv /\ [HNext]_hvars => SInv'
  BY SInductive
<1> QED
  BY <1>1, <1>2, PTL DEF HSpec

-----------------------------------------------------------------------------
(* No evidence and no time line is lost *)

\* What HNext notes after a step of the loop or of a handler.
Notes ==
    /\ published' = published \cup DOMAIN files'
    /\ written' = written \cup {id \in DOMAIN files' : files'[id] # <<>>}

LEMMA NotesNothing ==
    ASSUME Kept, Lines, Notes, files' = files
    PROVE  published' = published /\ written' = written
BY DEF Kept, Lines, Notes

\* Newer pieces stay newer when others are published.
LEMMA Growing ==
    ASSUME NEW S, NEW T, S \subseteq T, IsFiniteSet(T), NEW id,
           Cardinality({o \in S : Older(id, o)}) >= IncidentKeep
    PROVE  Cardinality({o \in T : Older(id, o)}) >= IncidentKeep
<1> DEFINE a == {o \in S : Older(id, o)}
           b == {o \in T : Older(id, o)}
<1>1. IsFiniteSet(b)
  BY FS_Subset
<1>2. a \in SUBSET b
  OBVIOUS
<1> HIDE DEF a, b
<1>3. IsFiniteSet(a) /\ Cardinality(a) <= Cardinality(b)
  BY <1>1, <1>2, FS_Subset
<1>4. Cardinality(a) \in Nat /\ Cardinality(b) \in Nat
  BY <1>1, <1>3, FS_CardinalityType
<1>5. Cardinality(a) >= IncidentKeep
  BY DEF a
<1>6. Cardinality(b) >= IncidentKeep
  BY <1>3, <1>4, <1>5, Numbers
<1> QED
  BY <1>6 DEF b

LEMMA KeptSame ==
    ASSUME Kept, files' = files, published' = published
    PROVE  Kept'
BY DEF Kept, Older

LEMMA KeptPut ==
    ASSUME Kept, NEW id, NEW tl, files' = Set(files, id, tl), published' = published \cup DOMAIN files'
    PROVE  Kept'
<1>1. DOMAIN files' = DOMAIN files \cup {id} /\ published' = published \cup {id}
  BY DEF Set, Kept
<1>2. IsFiniteSet(published')
  BY <1>1, FS_AddElement DEF Kept
<1>3. ASSUME NEW x \in published' \ DOMAIN files'
      PROVE  Cardinality({o \in published' : Older(x, o)}) >= IncidentKeep
  <2>1. Cardinality({o \in published : Older(x, o)}) >= IncidentKeep
    BY <1>1 DEF Kept
  <2> QED
    BY <1>1, <1>2, <2>1, Growing
<1> QED
  BY <1>1, <1>2, <1>3 DEF Kept, Older

LEMMA ExpiredIs ==
    ASSUME files' = Expired(files)
    PROVE  /\ DOMAIN files' \subseteq DOMAIN files
           /\ \A id \in DOMAIN files' : files'[id] = files[id]
           /\ \A id \in DOMAIN files \ DOMAIN files' : id \in Surplus(files)
BY DEF Expired, Restrict

LEMMA KeptExpire ==
    ASSUME Kept, files' = Expired(files), published' = published \cup DOMAIN files'
    PROVE  Kept'
<1>1. DOMAIN files' \subseteq DOMAIN files /\ published' = published /\ DOMAIN files \subseteq published
      /\ IsFiniteSet(published)
  BY ExpiredIs DEF Kept
<1>2. ASSUME NEW x \in published \ DOMAIN files'
      PROVE  Cardinality({o \in published : Older(x, o)}) >= IncidentKeep
  <2>1. CASE x \in DOMAIN files
    <3>1. Cardinality({o \in DOMAIN files : Older(x, o)}) >= IncidentKeep
      BY <1>2, <2>1, ExpiredIs DEF Surplus
    <3> QED
      BY <1>1, <3>1, Growing
  <2>2. CASE x \notin DOMAIN files
    BY <2>2 DEF Kept
  <2> QED
    BY <2>1, <2>2
<1> QED
  BY <1>1, <1>2 DEF Kept, Older

\* A step that does not lead into the captures of a tick.
Onward == now' = now /\ (loop' \in {"look", "capture", "expire", "session"} => Working)

LEMMA LinesSame ==
    ASSUME Lines, files' = files, written' = written,
           Onward \/ (now \in Nat /\ now' \in Nat /\ now' > now)
    PROVE  Lines'
<1>1. ASSUME NEW id \in written
      PROVE  id \in Nat \X Class /\ id[1] <= now' /\ (Working' => id[1] < now')
  <2>1. id \in Nat \X Class /\ id[1] \in Nat /\ id[1] <= now /\ (Working => id[1] < now)
    BY DEF Lines
  <2>2. CASE Onward
    BY <2>1, <2>2 DEF Onward, Working
  <2>3. CASE now \in Nat /\ now' \in Nat /\ now' > now
    BY <2>1, <2>3
  <2> QED
    BY <2>2, <2>3
<1> QED
  BY <1>1 DEF Lines

LEMMA LinesCapture ==
    ASSUME Lines, Onward, NEW id, id \notin written, files' = Set(files, id, <<>>), Notes
    PROVE  Lines'
<1>1. DOMAIN files' = DOMAIN files \cup {id} /\ files'[id] = <<>>
      /\ \A x \in DOMAIN files : x # id => files'[x] = files[x]
  BY DEF Set
<1>2. written' = written
  BY <1>1 DEF Notes, Lines
<1>3. \A x \in written : x \in Nat \X Class /\ x[1] <= now' /\ (Working' => x[1] < now')
  BY DEF Lines, Onward, Working
<1> QED
  BY <1>1, <1>2, <1>3 DEF Lines

LEMMA LinesExpire ==
    ASSUME Lines, Onward, files' = Expired(files), Notes
    PROVE  Lines'
<1>1. written' = written
  BY ExpiredIs DEF Notes, Lines
<1>2. \A x \in written : x \in Nat \X Class /\ x[1] <= now' /\ (Working' => x[1] < now')
  BY DEF Lines, Onward, Working
<1> QED
  BY <1>1, <1>2, ExpiredIs DEF Lines

LEMMA LinesWrite ==
    ASSUME Lines, ~Working', now' = now, NEW id \in Nat \X Class, id[1] <= now, NEW tl, tl # <<>>,
           files' = Set(files, id, tl), Notes
    PROVE  Lines'
<1>1. DOMAIN files' = DOMAIN files \cup {id} /\ files'[id] = tl
      /\ \A x \in DOMAIN files : x # id => files'[x] = files[x]
  BY DEF Set
<1>2. written' = written \cup {id}
  BY <1>1 DEF Notes, Lines
<1>3. \A x \in written' : x \in Nat \X Class /\ x[1] <= now' /\ (Working' => x[1] < now')
  BY <1>2 DEF Lines
<1> QED
  BY <1>1, <1>2, <1>3 DEF Lines

LEMMA IdleTyped == Idle \in [at : {"idle", "rename", "expire"}, id : Int \X {"manual"}]
BY DEF Idle, Manual, NoId

LEMMA EStarts ==
    ASSUME HInit
    PROVE  EInv
<1>1. DOMAIN files = {} /\ published = {} /\ written = {} /\ manual = [h \in Handler |-> Idle]
  BY DEF HInit, Init, Nowhere
<1>2. Kept /\ Lines
  BY <1>1, FS_EmptySet DEF Kept, Lines
<1>3. ManualIds
  BY <1>1, IdleTyped DEF ManualIds
<1> QED
  BY <1>2, <1>3 DEF EInv

\* Steps that leave the files alone.
LEMMA EElsewhere ==
    ASSUME EInv, files' = files, published' = published, written' = written, ManualIds',
           Onward \/ (now \in Nat /\ now' \in Nat /\ now' > now)
    PROVE  EInv'
BY KeptSame, LinesSame DEF EInv

LEMMA ELoopStep ==
    ASSUME SInv, EInv, LoopStep, Notes
    PROVE  EInv'
<1>1. manual' = manual /\ now' = now
  BY DEF LoopStep, PassBy, LookDone, CaptureDue, CaptureFails, ExpireDue, StartSession, AdvanceSessions,
         FinishRead, FinishWrite, TickDone, loopVars
<1>2. ManualIds'
  BY <1>1 DEF EInv, ManualIds
<1>3. CASE files' = files
  <2>1. Onward
    BY <1>1 DEF Onward, Working, LoopStep, PassBy, LookDone, CaptureDue, CaptureFails, ExpireDue,
       StartSession, AdvanceSessions, FinishRead, FinishWrite, TickDone, loopVars
  <2> QED
    BY <1>2, <1>3, <2>1, NotesNothing, EElsewhere DEF EInv
<1>4. CASE CaptureDue
  <2> DEFINE id == Id(now, Head(due).class)
  <2>1. Working /\ Onward /\ files' = Set(files, id, <<>>)
    BY <1>4 DEF CaptureDue, Working, Onward
  <2>2. id[1] = now /\ now \in Nat
    BY DEF Id, SInv, DueTyped
  <2> HIDE DEF id
  <2>3. id \notin written
    BY <2>1, <2>2 DEF EInv, Lines
  <2>4. Kept' /\ Lines'
    BY <2>1, <2>3, KeptPut, LinesCapture DEF EInv, Notes
  <2> QED
    BY <1>2, <2>4 DEF EInv
<1>5. CASE ExpireDue
  <2>1. Onward /\ files' = Expired(files)
    BY <1>5 DEF ExpireDue, Working, Onward
  <2>2. Kept' /\ Lines'
    BY <2>1, KeptExpire, LinesExpire DEF EInv, Notes
  <2> QED
    BY <1>2, <2>2 DEF EInv
<1>6. CASE FinishWrite /\ files' = Set(files, held, TimelineOf(held))
  <2>1. held \in DOMAIN sessions /\ loop' = "finish"
    BY <1>6, HeldIs DEF FinishWrite
  <2>2. OpenTyped(held, sessions[held])
    BY <2>1 DEF SInv, SessionsTyped
  <2> DEFINE s == sessions[held]
  <2>3. s.samples # <<>> /\ held = <<s.t0, s.class>> /\ s.t0 \in Nat /\ s.class \in Class /\ s.t0 <= now
    BY <2>2, SessionFields DEF OpenTyped, Id
  <2>4. held \in Nat \X Class /\ held[1] <= now
    <3> HIDE DEF s
    <3> QED
      BY <2>3
  <2>5. TimelineOf(held) # <<>>
    BY <2>3 DEF TimelineOf
  <2>6. ~Working'
    BY <2>1 DEF Working
  <2>7. Kept' /\ Lines'
    BY <1>1, <1>6, <2>4, <2>5, <2>6, KeptPut, LinesWrite DEF EInv, Notes
  <2> QED
    BY <1>2, <2>7 DEF EInv
<1>7. files' = files \/ CaptureDue \/ ExpireDue \/ (FinishWrite /\ files' = Set(files, held, TimelineOf(held)))
  BY DEF LoopStep, PassBy, LookDone, CaptureFails, StartSession, AdvanceSessions,
         FinishRead, FinishWrite, TickDone, loopVars
<1> QED
  BY <1>3, <1>4, <1>5, <1>6, <1>7

LEMMA EManually ==
    ASSUME SInv, EInv, Manually, Notes
    PROVE  EInv'
<1>1. Onward
  BY DEF Onward, Working, Manually, ManualWrite, ManualRename, ManualExpire
<1>2. SUFFICES ASSUME NEW h \in Handler, ManualWrite(h) \/ ManualRename(h) \/ ManualExpire(h)
               PROVE  EInv'
  BY DEF Manually
<1>3. CASE ManualWrite(h)
  <2>1. files' = files
    BY <1>3 DEF ManualWrite
  <2>2. ManualIds'
    <3>1. Manual("rename", Id(now, "manual")) \in [at : {"idle", "rename", "expire"}, id : Int \X {"manual"}]
      BY DEF Manual, Id, SInv, DueTyped
    <3> QED
      BY <1>3, <3>1 DEF ManualWrite, EInv, ManualIds
  <2> QED
    BY <1>1, <2>1, <2>2, NotesNothing, EElsewhere DEF EInv
<1>4. CASE ManualRename(h)
  <2> DEFINE id == manual[h].id
  <2>1. id[2] = "manual"
    BY <1>2 DEF EInv, ManualIds
  <2>2. ManualIds'
    <3>1. manual' = [manual EXCEPT ![h].at = "expire"] \/ manual' = [manual EXCEPT ![h] = Idle]
      BY <1>4 DEF ManualRename, Goto
    <3> QED
      BY <3>1, IdleTyped DEF EInv, ManualIds
  <2>3. CASE files' = files
    BY <1>1, <2>2, <2>3, NotesNothing, EElsewhere DEF EInv
  <2>4. CASE files' = Set(files, id, <<>>)
    <3> HIDE DEF id
    <3>1. id \notin written
      BY <2>1, ClassAssumption DEF EInv, Lines
    <3>2. Kept' /\ Lines'
      BY <1>1, <2>4, <3>1, KeptPut, LinesCapture DEF EInv, Notes
    <3> QED
      BY <2>2, <3>2 DEF EInv
  <2> QED
    BY <1>4, <2>3, <2>4 DEF ManualRename
<1>5. CASE ManualExpire(h)
  <2>1. files' = Expired(files)
    BY <1>5 DEF ManualExpire
  <2>2. ManualIds'
    BY <1>5, IdleTyped DEF ManualExpire, EInv, ManualIds
  <2>3. Kept' /\ Lines'
    BY <1>1, <2>1, KeptExpire, LinesExpire DEF EInv, Notes
  <2> QED
    BY <2>2, <2>3 DEF EInv
<1> QED
  BY <1>2, <1>3, <1>4, <1>5

LEMMA EInductive ==
    ASSUME SInv, EInv, [HNext]_hvars
    PROVE  EInv'
<1>1. CASE UNCHANGED hvars
  <2>1. files' = files /\ published' = published /\ written' = written /\ manual' = manual
        /\ now' = now /\ loop' = loop
    BY <1>1 DEF hvars, vars
  <2>2. ManualIds' /\ Onward
    BY <2>1 DEF EInv, ManualIds, Onward, Working
  <2> QED
    BY <2>1, <2>2, EElsewhere
<1>2. CASE \E c \in Chain, delay \in 1..2 : HTick(c, delay)
  <2>1. PICK c \in Chain, delay \in 1..2 : HTick(c, delay)
    BY <1>2
  <2>2. files' = files /\ published' = published /\ written' = written /\ manual' = manual
        /\ now' = now + delay
    BY <2>1 DEF HTick, Tick
  <2>3. now \in Nat /\ now' \in Nat /\ now' > now
    BY <2>2 DEF SInv, DueTyped
  <2>4. ManualIds'
    BY <2>2 DEF EInv, ManualIds
  <2> QED
    BY <2>2, <2>3, <2>4, EElsewhere
<1>3. CASE HLook
  <2>1. files' = files /\ published' = published /\ written' = written /\ manual' = manual
        /\ now' = now /\ Working
    BY <1>3 DEF HLook, HoldBack, Choose, Working
  <2>2. ManualIds' /\ Onward
    BY <2>1 DEF EInv, ManualIds, Onward
  <2> QED
    BY <2>1, <2>2, EElsewhere
<1>4. CASE (LoopStep \/ Manually) /\ Notes
  BY <1>4, ELoopStep, EManually
<1>5. CASE Restart /\ published' = published /\ written' = written
  <2>1. files' = files /\ now' = now /\ loop' = "wait" /\ manual' = [h \in Handler |-> Idle]
    BY <1>5 DEF Restart
  <2>2. Onward
    BY <2>1 DEF Onward
  <2>3. ManualIds'
    BY <2>1, IdleTyped DEF ManualIds
  <2> QED
    BY <1>5, <2>1, <2>2, <2>3, EElsewhere
<1> QED
  BY <1>1, <1>2, <1>3, <1>4, <1>5 DEF HNext, Manually, Notes

\* EvidenceKept (incident.go:574, snapshot.go:236): for any conclusions, any number of
\* handlers and pieces kept, whatever fails and wherever the process ends.
THEOREM EvidenceIsKept == HSpec => []EvidenceKept
<1>1. HInit => EInv
  BY EStarts
<1>2. SInv /\ EInv /\ [HNext]_hvars => EInv'
  BY EInductive
<1>3. EInv => EvidenceKept
  BY DEF EInv, Kept, Lines, EvidenceKept
<1> QED
  BY <1>1, <1>2, <1>3, Sessions, PTL DEF HSpec

-----------------------------------------------------------------------------
(* A session ends when it is due, and only then *)

LEMMA SampledIs ==
    ASSUME NEW tl \in Seq(SampleSet), tl # <<>>, NEW e \in Nat, NEW c \in Seq(Nat), c # <<>>
    PROVE  LET u == Sampled(tl, c, e)
           IN  /\ Len(u) = Len(tl) + 1 /\ \A i \in 1..Len(tl) : u[i] = tl[i]
               /\ u[Len(tl) + 1].phase = "during" /\ u[Len(tl) + 1].covers = c /\ u[Len(tl) + 1].at = e
               /\ Last(u) = u[Len(tl) + 1]
<1> DEFINE o == Sample("during", c, e, "")
           u == Sampled(tl, c, e)
<1>1. o \in SampleSet
  <2>1. "during" \in {"onset", "during", "recovery"} /\ "" \in {"", "gone", "still there"}
    OBVIOUS
  <2> QED
    BY <2>1, Zenon DEF Sample, SampleSet
<1>2. o.phase = "during" /\ o.covers = c /\ o.at = e
  BY DEF Sample
<1>3. u = Append(tl, o)
  BY DEF Sampled
<1> HIDE DEF o, u
<1>4. Len(u) = Len(tl) + 1 /\ (\A i \in 1..Len(tl) : u[i] = tl[i]) /\ u[Len(tl) + 1] = o
  BY <1>1, <1>3, AppendProperties
<1>5. Last(u) = u[Len(tl) + 1]
  BY <1>4 DEF Last
<1> QED
  BY <1>2, <1>4, <1>5 DEF u

LEMMA ClosedIs ==
    ASSUME NEW tl \in Seq(SampleSet), tl # <<>>, NEW e \in Nat
    PROVE  LET u == Closed(tl, TRUE, e)
           IN  /\ Len(u) = Len(tl) + 1 /\ \A i \in 1..Len(tl) : u[i] = tl[i]
               /\ u[Len(tl) + 1].phase = "recovery" /\ u[Len(tl) + 1].covers = <<>> /\ u[Len(tl) + 1].at = e
               /\ Last(u) = u[Len(tl) + 1]
<1> DEFINE o == Sample("recovery", <<>>, e, Note(e))
           u == Closed(tl, TRUE, e)
<1>1. o \in SampleSet
  <2>1. Note(e) \in {"", "gone", "still there"} /\ <<>> \in Seq(Nat) /\ "recovery" \in {"onset", "during", "recovery"}
    BY DEF Note
  <2> QED
    BY <2>1, Zenon DEF Sample, SampleSet
<1>2. o.phase = "recovery" /\ o.covers = <<>> /\ o.at = e
  BY DEF Sample
<1>3. u = Append(tl, o)
  BY DEF Closed
<1> HIDE DEF o, u
<1>4. Len(u) = Len(tl) + 1 /\ (\A i \in 1..Len(tl) : u[i] = tl[i]) /\ u[Len(tl) + 1] = o
  BY <1>1, <1>3, AppendProperties
<1>5. Last(u) = u[Len(tl) + 1]
  BY <1>4 DEF Last
<1> QED
  BY <1>2, <1>4, <1>5 DEF u

\* The last sample tells whether a session is over.
LEMMA DoneMeansOver ==
    ASSUME now \in Nat, NEW s \in Session, s.samples # <<>>, s.t0 <= now, ~Done(s)
    PROVE  /\ Done(Advanced(s)) <=> GoneFor(s) >= GoneRounds \/ now - s.t0 >= MaxDuration
           /\ Over(Advanced(s), now - s.t0) <=> GoneFor(s) >= GoneRounds \/ now - s.t0 >= MaxDuration
<1> DEFINE a == Advanced(s)
           e == now - s.t0
           c == Covered(s, e)
           over == GoneFor(s) >= GoneRounds \/ e >= MaxDuration
           tl == Sampled(s.samples, c, e)
<1>1. a.samples = Closed(tl, over, e) /\ a.goneFor = GoneFor(s)
  BY AdvancedIs
<1>2. s.samples \in Seq(SampleSet) /\ e \in Nat /\ c \in Seq(Nat) /\ over \in BOOLEAN
  BY SessionFields, CoveredIs
<1> HIDE DEF e, c, over
<1>3. tl \in Seq(SampleSet) /\ tl # <<>>
  BY <1>2, SamplesTyped
<1>4. Last(tl).phase # "recovery"
  <2>1. CASE c = <<>>
    BY <2>1 DEF Sampled, Done
  <2>2. CASE c # <<>>
    BY <1>2, <2>2, SampledIs
  <2> QED
    BY <2>1, <2>2
<1> HIDE DEF tl, a
<1>5. CASE over
  <2>1. a.samples = Closed(tl, TRUE, e)
    BY <1>1, <1>5 DEF Closed
  <2> QED
    <3>1. Last(a.samples).phase = "recovery"
      <4> DEFINE u == Closed(tl, TRUE, e)
      <4>1. u[Len(tl) + 1].phase = "recovery" /\ Last(u) = u[Len(tl) + 1]
        BY <1>2, <1>3, ClosedIs
      <4> HIDE DEF u
      <4>2. Last(u).phase = "recovery"
        BY <4>1
      <4> QED
        BY <2>1, <4>2 DEF u
    <3>2. Done(a) /\ Over(a, e)
      BY <1>1, <1>5, <3>1 DEF Done, Over, over
    <3> QED
      BY <1>5, <3>2 DEF over, e, a
<1>6. CASE ~over
  <2>1. a.samples = tl
    BY <1>1, <1>6 DEF Closed
  <2> QED
    BY <1>1, <1>4, <1>6, <2>1 DEF Done, Over, over, e, a
<1> QED
  BY <1>5, <1>6

LEMMA OpenAt ==
    ASSUME SInv, NEW id \in DOMAIN sessions
    PROVE  LET s == sessions[id]
           IN  /\ now \in Nat /\ s \in Session /\ s.samples # <<>> /\ s.t0 <= now /\ s.t0 \in Nat
               /\ s.goneFor \in Nat /\ s.class \in Class /\ id = Id(s.t0, s.class)
<1>1. now \in Nat /\ OpenTyped(id, sessions[id])
  BY DEF SInv, DueTyped, SessionsTyped
<1> QED
  BY <1>1, SessionFields DEF OpenTyped

LEMMA GStarts ==
    ASSUME HInit
    PROVE  GInv
<1>1. DOMAIN sessions = {} /\ ticks = <<>> /\ loop = "wait"
  BY DEF HInit, Init, Nowhere
<1> QED
  BY <1>1 DEF GInv, TicksTyped

\* A step between the ticks, or between the looks of one tick.
LEMMA GElsewhere ==
    ASSUME SInv, GInv, UNCHANGED <<ticks, sessions, now, ended, chain>>,
           \/ loop' = loop
           \/ loop \notin {"finish", "wait"} /\ loop' \notin {"finish", "wait"}
           \/ loop = "finish" /\ loop' = "wait" /\ ended = <<>>,
           due' = due \/ (due # <<>> /\ due' = Tail(due))
    PROVE  GInv'
<1>1. Past' = Past /\ Active' = Active /\ (loop' \in {"finish", "wait"} => loop \in {"finish", "wait"})
      /\ (loop' # "wait" => loop # "wait")
  BY DEF Past, Active
<1>2. TicksTyped'
  <2>1. ASSUME loop' # "wait", NEW i \in 1..Len(due')
        PROVE  due'[i].class \in Active
    <3>1. loop # "wait" /\ \A j \in 1..Len(due) : due[j].class \in Active
      BY <1>1, <2>1 DEF GInv, TicksTyped
    <3>2. due \in Seq(Item)
      BY DEF SInv, DueTyped
    <3>3. CASE due' = due
      BY <2>1, <3>1, <3>3
    <3>4. CASE due # <<>> /\ due' = Tail(due)
      <4>1. Len(due') = Len(due) - 1 /\ Len(due) \in Nat /\ \A j \in 1..Len(due') : due'[j] = due[j + 1]
        BY <3>2, <3>4, HeadTailProperties
      <4>2. i + 1 \in 1..Len(due) /\ due'[i] = due[i + 1]
        BY <2>1, <4>1
      <4> QED
        BY <3>1, <4>2
    <3> QED
      BY <3>3, <3>4
  <2> QED
    BY <1>1, <2>1 DEF GInv, TicksTyped
<1>3. ASSUME NEW id \in DOMAIN sessions
      PROVE  GoneExact(sessions[id])' /\ EndsExact(id, sessions[id])'
  <2>1. GoneExact(sessions[id]) /\ EndsExact(id, sessions[id])
    BY DEF GInv
  <2>2. GoneExact(sessions[id])'
    BY <1>1, <2>1 DEF GoneExact
  <2>3. EndsExact(id, sessions[id])'
    BY <1>1, <2>1 DEF EndsExact, Done, Over
  <2> QED
    BY <2>2, <2>3
<1> QED
  BY <1>2, <1>3 DEF GInv

LEMMA TickAt ==
    ASSUME TicksTyped
    PROVE  Len(ticks) \in Nat
           /\ \A i \in 1..Len(ticks) : ticks[i] \in TickRecord /\ ticks[i].t \in Nat /\ ticks[i].t <= now
<1>1. ticks \in Seq(TickRecord) /\ \A i \in 1..Len(ticks) : ticks[i] \in TickRecord
  BY DEF TicksTyped
<1>2. \A k \in TickRecord : k.t \in Nat
  BY DEF TickRecord
<1> QED
  BY <1>1, <1>2 DEF TicksTyped

LEMMA GTick ==
    ASSUME SInv, GInv, NEW c \in Chain, NEW delay \in 1..2, HTick(c, delay)
    PROVE  GInv'
<1> DEFINE k == [t |-> now', active |-> ActiveOf(c)]
           n == Len(ticks)
<1>1. loop = "wait" /\ loop' = "look" /\ chain' = c /\ now \in Nat /\ now' \in Nat /\ now' > now
      /\ UNCHANGED <<sessions, ended>> /\ ticks' = Append(ticks, k) /\ due' = IF c = NoChain THEN <<>> ELSE c
  BY DEF HTick, Tick, SInv, DueTyped
<1>2. ActiveOf(c) \subseteq Class /\ Active' = ActiveOf(c)
  <2>1. CASE c = NoChain
    BY <1>1, <2>1 DEF ActiveOf, Active
  <2>2. CASE c # NoChain
    <3>1. Range(c) \subseteq Item
      BY <2>2 DEF Item
    <3> QED
      BY <1>1, <2>2, <3>1 DEF ActiveOf, Active, Class
  <2> QED
    BY <2>1, <2>2
<1>3. k \in TickRecord /\ k.t = now' /\ k.active = Active'
  BY <1>1, <1>2 DEF TickRecord
<1> HIDE DEF k
<1>4. ticks' \in Seq(TickRecord) /\ ticks' # <<>> /\ Len(ticks') = n + 1 /\ n \in Nat
      /\ (\A i \in 1..n : ticks'[i] = ticks[i]) /\ ticks'[n + 1] = k
  BY <1>1, <1>3, AppendProperties DEF GInv, TicksTyped
<1>5. \A i \in 1..n : ticks[i].t \in Nat /\ ticks[i].t <= now
  BY TickAt DEF GInv
<1>6. Past = n /\ Past' = n
  BY <1>1, <1>4 DEF Past
<1>7. TicksTyped'
  <2>1. \A i \in 1..n + 1 : ticks'[i].t <= now'
    <3>1. SUFFICES ASSUME NEW i \in 1..n + 1
                   PROVE  ticks'[i].t <= now'
      OBVIOUS
    <3>2. CASE i = n + 1
      BY <1>1, <1>3, <1>4, <3>2
    <3>3. CASE i \in 1..n
      BY <1>1, <1>4, <1>5, <3>3
    <3> QED
      BY <1>4, <3>2, <3>3
  <2>2. Last(ticks') = k
    BY <1>4 DEF Last
  <2>3. \A i \in 1..Len(due') : due'[i].class \in Active'
    <3>1. CASE c = NoChain
      BY <1>1, <3>1
    <3>2. CASE c # NoChain
      <4>1. \A i \in 1..Len(c) : c[i] \in Range(c)
        <5>1. c \in Seq(Range(c))
          BY <3>2, RecorderAssumption
        <5> QED
          BY <5>1
      <4> QED
        BY <1>1, <1>2, <3>2, <4>1 DEF ActiveOf
    <3> QED
      BY <3>1, <3>2
  <2> QED
    BY <1>3, <1>4, <2>1, <2>2, <2>3 DEF TicksTyped
<1>8. ASSUME NEW id \in DOMAIN sessions
      PROVE  GoneExact(sessions[id])' /\ EndsExact(id, sessions[id])'
  <2> DEFINE s == sessions[id]
  <2>1. s.goneFor \in Nat /\ s.t0 \in Nat /\ s.t0 <= now /\ GoneExact(s) /\ EndsExact(id, s)
    BY OpenAt DEF GInv
  <2>2. s' = s
    BY <1>1
  <2> HIDE DEF s
  <2>3. /\ s.goneFor <= n
        /\ \A i \in n - s.goneFor + 1 .. n : ticks'[i].t > s.t0 /\ s.class \notin ticks'[i].active
        /\ s.goneFor < n => ticks'[n - s.goneFor].t <= s.t0 \/ s.class \in ticks'[n - s.goneFor].active
    <3>1. /\ s.goneFor <= n
          /\ \A i \in n - s.goneFor + 1 .. n : ticks[i].t > s.t0 /\ s.class \notin ticks[i].active
          /\ s.goneFor < n => ticks[n - s.goneFor].t <= s.t0 \/ s.class \in ticks[n - s.goneFor].active
      BY <1>6, <2>1 DEF GoneExact
    <3>2. \A i \in n - s.goneFor + 1 .. n : i \in 1..n
      BY <1>4, <2>1, <3>1
    <3>3. s.goneFor < n => n - s.goneFor \in 1..n
      BY <1>4, <2>1
    <3> HIDE DEF n
    <3> QED
      BY <1>4, <3>1, <3>2, <3>3
  <2>4. GoneExact(s)'
    BY <1>6, <2>2, <2>3 DEF GoneExact
  <2>5. s.t0 # now'
    BY <1>1, <2>1
  <2>6. EndsExact(id, s)'
    <3>1. ended = <<>> /\ Range(ended) = {}
      BY <1>1 DEF SInv, EndedTyped, Range
    <3>2. ~Done(s) /\ Range(ended)' = {}
      BY <1>1, <2>1, <3>1 DEF EndsExact
    <3> QED
      BY <1>1, <2>2, <2>5, <3>2 DEF EndsExact, Done
  <2> QED
    BY <2>4, <2>6 DEF s
<1> QED
  BY <1>1, <1>7, <1>8 DEF GInv

LEMMA GStartSession ==
    ASSUME SInv, GInv, StartSession, ticks' = ticks
    PROVE  GInv'
<1> DEFINE class == Head(due).class
           id1 == Id(now, class)
           s1 == NewSession(class, now)
<1>1. due # <<>> /\ due \in Seq(Item) /\ loop = "session" /\ loop' = "look" /\ due' = Tail(due)
      /\ now \in Nat /\ UNCHANGED <<now, ended, chain, ticks>>
  BY DEF StartSession, SInv, DueTyped
<1>2. CASE sessions' = sessions
  BY <1>1, <1>2, GElsewhere
<1>3. CASE sessions' = Set(sessions, id1, s1)
  <2>1. class \in Class
    BY <1>1, InDue DEF SInv
  <2>2. s1.class = class /\ s1.t0 = now /\ s1.goneFor = 0 /\ s1.samples = <<Sample("onset", <<>>, 0, "")>>
    BY <1>1, <2>1, NewSessionTyped
  <2>3. class \in Active
    <3>1. \A i \in 1..Len(due) : due[i].class \in Active
      BY <1>1 DEF GInv, TicksTyped
    <3>2. 1 \in 1..Len(due) /\ Head(due) = due[1]
      BY <1>1
    <3> QED
      BY <3>1, <3>2
  <2>4. ~Done(s1)
    <3> DEFINE o == Sample("onset", <<>>, 0, "")
    <3>1. o.phase = "onset"
      BY DEF Sample
    <3>2. s1.samples = <<o>>
      BY <2>2
    <3> HIDE DEF o, s1
    <3>3. Last(s1.samples) = o
      BY <3>2 DEF Last
    <3>4. Last(s1.samples).phase = "onset"
      BY <3>1, <3>3
    <3> QED
      BY <3>4 DEF Done
  <2> HIDE DEF class, s1, id1
  <2>5. Past' = Past /\ Active' = Active /\ Past = Len(ticks) - 1 /\ ticks # <<>> /\ Last(ticks).t = now
    BY <1>1 DEF Past, Active, GInv, TicksTyped
  <2>6. Past \in Nat /\ Last(ticks) = ticks[Len(ticks)] /\ \A i \in 1..Past : ticks[i].t <= now
    BY <2>5, TickAt DEF GInv, TicksTyped, Last
  <2>7. TicksTyped'
    <3>1. \A i \in 1..Len(due') : due'[i].class \in Active
      <4>1. Len(due') = Len(due) - 1 /\ Len(due) \in Nat /\ \A j \in 1..Len(due') : due'[j] = due[j + 1]
        BY <1>1, HeadTailProperties
      <4>2. \A i \in 1..Len(due') : i + 1 \in 1..Len(due)
        BY <4>1
      <4> QED
        BY <1>1, <4>1, <4>2 DEF GInv, TicksTyped
    <3> QED
      BY <1>1, <2>5, <3>1 DEF GInv, TicksTyped
  <2>8. ASSUME NEW id \in DOMAIN sessions'
        PROVE  GoneExact(sessions[id])' /\ EndsExact(id, sessions[id])'
    <3>1. CASE id = id1
      <4>1. sessions'[id] = s1
        BY <1>3, <3>1 DEF Set
      <4>2. GoneExact(sessions[id])'
        <5>1. 0 <= Past /\ Past - 0 + 1..Past = {} /\ (0 < Past => Past - 0 \in 1..Past)
          BY <2>6
        <5>2. 0 < Past => ticks[Past - 0].t <= now
          BY <2>6, <5>1
        <5> QED
          BY <1>1, <2>2, <2>5, <4>1, <5>1, <5>2 DEF GoneExact
      <4>3. EndsExact(id, sessions[id])'
        <5>1. Range(ended)' = {}
          BY <1>1 DEF SInv, EndedTyped, Range
        <5>2. ~Done(sessions[id])'
          BY <2>4, <4>1 DEF Done
        <5> QED
          BY <1>1, <2>2, <2>3, <2>5, <4>1, <5>1, <5>2 DEF EndsExact
      <4> QED
        BY <4>2, <4>3
    <3>2. CASE id # id1
      <4>1. id \in DOMAIN sessions /\ sessions'[id] = sessions[id]
        BY <1>3, <3>2 DEF Set
      <4>2. GoneExact(sessions[id]) /\ EndsExact(id, sessions[id])
        BY <4>1 DEF GInv
      <4>3. GoneExact(sessions[id])'
        BY <1>1, <2>5, <4>1, <4>2 DEF GoneExact
      <4>4. EndsExact(id, sessions[id])'
        BY <1>1, <2>5, <4>1, <4>2 DEF EndsExact, Done, Over
      <4> QED
        BY <4>3, <4>4
    <3> QED
      BY <3>1, <3>2
  <2> QED
    BY <2>7, <2>8 DEF GInv
<1> QED
  BY <1>2, <1>3 DEF StartSession

LEMMA GAdvance ==
    ASSUME SInv, GInv, AdvanceSessions, ticks' = ticks
    PROVE  GInv'
<1> DEFINE n == Len(ticks)
           over == {id \in DOMAIN sessions : Done(sessions'[id])}
<1>1. loop = "advance" /\ loop' = "finish" /\ UNCHANGED <<now, due, chain, ticks>>
      /\ DOMAIN sessions' = DOMAIN sessions /\ (\A id \in DOMAIN sessions : sessions'[id] = Advanced(sessions[id]))
      /\ ended' \in SetToSeqs(over)
  BY DEF AdvanceSessions
<1>2. Range(ended') = over
  <2>1. IsFiniteSet(DOMAIN sessions) /\ over \in SUBSET (DOMAIN sessions)
    BY DEF SInv, SessionsTyped
  <2>2. IsFiniteSet(over)
    BY <2>1, FS_Subset
  <2> HIDE DEF over
  <2> QED
    BY <1>1, <2>2, Picked
<1>3. /\ ticks # <<>> /\ Last(ticks).t = now /\ Last(ticks).active = Active /\ Active' = Active
      /\ n \in Nat /\ n # 0 /\ Last(ticks) = ticks[n] /\ Past = n - 1 /\ Past' = n
  BY <1>1, TickAt DEF GInv, TicksTyped, Active, Past, Last
<1>4. TicksTyped'
  BY <1>1, <1>3 DEF GInv, TicksTyped
<1> HIDE DEF n
<1>5. ASSUME NEW id \in DOMAIN sessions
      PROVE  GoneExact(sessions[id])' /\ EndsExact(id, sessions[id])'
  <2> DEFINE s == sessions[id]
             a == Advanced(s)
  <2>1. now \in Nat /\ s \in Session /\ s.samples # <<>> /\ s.t0 <= now /\ s.t0 \in Nat /\ s.goneFor \in Nat
    BY OpenAt
  <2>2. GoneExact(s) /\ EndsExact(id, s)
    BY DEF GInv
  <2>3. ~Done(s)
    <3>1. Range(ended) = {}
      BY <1>1 DEF SInv, EndedTyped, Range
    <3> QED
      BY <2>2, <3>1 DEF EndsExact
  <2>4. sessions'[id] = a
    BY <1>1
  <2> HIDE DEF s
  <2>5. a.class = s.class /\ a.t0 = s.t0 /\ a.goneFor = GoneFor(s)
    BY <2>1, AdvancedIs
  <2>6. Over(a, now - a.t0) <=> Done(a)
    BY <2>1, <2>3, <2>5, DoneMeansOver
  <2> HIDE DEF a
  <2>7. EndsExact(id, sessions[id])'
    <3>1. id \in Range(ended') <=> Done(a)
      BY <1>2, <2>4 DEF over
    <3>2. s.t0 = now => s.class \in Active
      BY <1>1, <2>2 DEF EndsExact
    <3>3. /\ Done(sessions[id])' <=> Done(a)
          /\ Over(sessions[id], now - sessions[id].t0)' <=> Over(a, now - a.t0)
      BY <1>1, <2>4 DEF Done, Over
    <3> QED
      BY <1>1, <1>3, <2>4, <2>5, <2>6, <3>1, <3>2, <3>3 DEF EndsExact
  <2>8. CASE s.class \in Active
    <3>1. a.goneFor = 0
      BY <2>5, <2>8 DEF GoneFor
    <3>2. 0 <= n /\ n - 0 + 1..n = {} /\ n - 0 = n
      BY <1>3
    <3>3. s.class \in ticks[n - 0].active
      BY <1>3, <2>8, <3>2
    <3> QED
      BY <1>1, <1>3, <2>4, <2>5, <2>7, <3>1, <3>2, <3>3 DEF GoneExact
  <2>9. CASE s.class \notin Active
    <3> DEFINE g == s.goneFor
    <3>1. a.goneFor = g + 1
      BY <2>5, <2>9 DEF GoneFor
    <3>2. /\ g <= n - 1
          /\ \A i \in n - 1 - g + 1 .. n - 1 : ticks[i].t > s.t0 /\ s.class \notin ticks[i].active
          /\ g < n - 1 => ticks[n - 1 - g].t <= s.t0 \/ s.class \in ticks[n - 1 - g].active
      BY <1>3, <2>2 DEF GoneExact
    <3>3. ticks[n].t > s.t0 /\ s.class \notin ticks[n].active
      <4>1. s.t0 # now
        BY <1>1, <2>2, <2>9 DEF EndsExact
      <4> QED
        BY <1>3, <2>1, <2>9, <4>1
    <3>4. g \in Nat /\ g + 1 <= n /\ n - (g + 1) = n - 1 - g /\ (g + 1 < n => g < n - 1)
          /\ \A i \in n - (g + 1) + 1 .. n : i = n \/ i \in n - 1 - g + 1 .. n - 1
      BY <1>3, <2>1, <3>2
    <3> HIDE DEF g
    <3>5. \A i \in n - (g + 1) + 1 .. n : ticks[i].t > s.t0 /\ s.class \notin ticks[i].active
      BY <3>2, <3>3, <3>4
    <3>6. g + 1 < n => ticks[n - (g + 1)].t <= s.t0 \/ s.class \in ticks[n - (g + 1)].active
      BY <3>2, <3>4
    <3>7. GoneExact(sessions[id])'
      BY <1>1, <1>3, <2>4, <2>5, <3>1, <3>4, <3>5, <3>6 DEF GoneExact
    <3> QED
      BY <2>7, <3>7
  <2> QED
    BY <2>8, <2>9
<1> QED
  BY <1>1, <1>4, <1>5 DEF GInv

LEMMA GDrops ==
    ASSUME SInv, GInv, Drops, ended # <<>>, loop = "finish", UNCHANGED <<loop, now, due, chain, ticks>>
    PROVE  GInv'
<1>1. Past' = Past /\ Active' = Active
  BY DEF Past, Active
<1>2. TicksTyped'
  BY <1>1 DEF GInv, TicksTyped
<1>3. Range(ended) = Range(ended') \cup {Head(ended)} /\ Head(ended) \notin DOMAIN sessions'
  BY EndedFacts, DropsOne DEF SInv, Drops
<1>4. ASSUME NEW id \in DOMAIN sessions'
      PROVE  GoneExact(sessions[id])' /\ EndsExact(id, sessions[id])'
  <2>1. id \in DOMAIN sessions /\ sessions'[id] = sessions[id]
    BY DropsOne
  <2>2. GoneExact(sessions[id]) /\ EndsExact(id, sessions[id])
    BY <2>1 DEF GInv
  <2>3. id \in Range(ended') <=> id \in Range(ended)
    BY <1>3
  <2>4. GoneExact(sessions[id])'
    BY <1>1, <2>1, <2>2 DEF GoneExact
  <2>5. EndsExact(id, sessions[id])'
    BY <1>1, <2>1, <2>2, <2>3 DEF EndsExact, Done, Over
  <2> QED
    BY <2>4, <2>5
<1> QED
  BY <1>2, <1>4 DEF GInv

LEMMA GInductive ==
    ASSUME SInv, GInv, [HNext]_hvars
    PROVE  GInv'
<1>1. CASE \E c \in Chain, delay \in 1..2 : HTick(c, delay)
  BY <1>1, GTick
<1>2. CASE HLook
  <2>1. UNCHANGED <<ticks, sessions, now, ended, chain>> /\ loop = "look" /\ loop' \in {"look", "capture"}
        /\ (due' = due \/ (due # <<>> /\ due' = Tail(due)))
    BY <1>2 DEF HLook, HoldBack, Choose
  <2> QED
    BY <2>1, GElsewhere
<1>3. CASE StartSession /\ ticks' = ticks
  BY <1>3, GStartSession
<1>4. CASE AdvanceSessions /\ ticks' = ticks
  BY <1>4, GAdvance
<1>5. CASE Restart /\ ticks' = <<>>
  <2>1. loop' = "wait" /\ DOMAIN sessions' = {}
    BY <1>5 DEF Restart, Nowhere
  <2> QED
    BY <1>5, <2>1 DEF GInv, TicksTyped
<1>6. CASE (FinishRead \/ FinishWrite) /\ ticks' = ticks
  <2>1. loop = "finish" /\ UNCHANGED <<loop, now, due, chain, ticks>>
    BY <1>6 DEF FinishRead, FinishWrite
  <2>2. CASE UNCHANGED <<ended, sessions>>
    BY <2>1, <2>2, GElsewhere
  <2>3. CASE Drops /\ ended # <<>>
    BY <2>1, <2>3, GDrops
  <2>4. FinishRead => (Drops /\ ended # <<>>) \/ UNCHANGED <<ended, sessions>>
    BY DEF FinishRead, Drops
  <2>5. FinishWrite => Drops /\ ended # <<>>
    BY HeldIs DEF FinishWrite, Drops
  <2> QED
    BY <1>6, <2>2, <2>3, <2>4, <2>5
<1>7. CASE (PassBy \/ LookDone \/ CaptureDue \/ CaptureFails \/ ExpireDue \/ TickDone) /\ ticks' = ticks
  <2>1. UNCHANGED <<ticks, sessions, now, ended, chain>> /\ (due' = due \/ (due # <<>> /\ due' = Tail(due)))
    BY <1>7 DEF PassBy, LookDone, CaptureDue, CaptureFails, ExpireDue, TickDone, loopVars, SInv, DueTyped
  <2>2. \/ loop \notin {"finish", "wait"} /\ loop' \notin {"finish", "wait"}
        \/ loop = "finish" /\ loop' = "wait" /\ ended = <<>>
    BY <1>7 DEF PassBy, LookDone, CaptureDue, CaptureFails, ExpireDue, TickDone
  <2> QED
    BY <2>1, <2>2, GElsewhere
<1>8. CASE Manually /\ ticks' = ticks
  <2>1. UNCHANGED <<ticks, sessions, now, ended, chain, loop, due>>
    BY <1>8 DEF Manually, ManualWrite, ManualRename, ManualExpire, loopVars
  <2> QED
    BY <2>1, GElsewhere
<1>9. CASE UNCHANGED hvars
  <2>1. UNCHANGED <<ticks, sessions, now, ended, chain, loop, due>>
    BY <1>9 DEF hvars, vars, loopVars
  <2> QED
    BY <2>1, GElsewhere
<1> QED
  BY <1>1, <1>2, <1>3, <1>4, <1>5, <1>6, <1>7, <1>8, <1>9 DEF HNext, Manually, LoopStep

\* goneFor is what AbsentFor asks of the ticks.
LEMMA AbsentMeans ==
    ASSUME TicksTyped, NEW s, s.goneFor \in Nat, s.t0 \in Nat, GoneExact(s), Past = Len(ticks)
    PROVE  AbsentFor(s.class, s.t0, GoneRounds) <=> s.goneFor >= GoneRounds
<1> DEFINE n == Len(ticks)
           g == s.goneFor
<1>1. n \in Nat /\ g \in Nat /\ GoneRounds \in Nat /\ GoneRounds # 0
  BY TickAt, Numbers
<1>2. /\ g <= n
      /\ \A i \in n - g + 1 .. n : ticks[i].t > s.t0 /\ s.class \notin ticks[i].active
      /\ g < n => ticks[n - g].t <= s.t0 \/ s.class \in ticks[n - g].active
  BY DEF GoneExact
<1> HIDE DEF n, g
<1>3. CASE g >= GoneRounds
  <2>1. n >= GoneRounds /\ \A i \in n - GoneRounds + 1 .. n : i \in n - g + 1 .. n
    BY <1>1, <1>2, <1>3
  <2>2. \A i \in n - GoneRounds + 1 .. n : ticks[i].t > s.t0 /\ s.class \notin ticks[i].active
    BY <1>2, <2>1
  <2> QED
    BY <1>3, <2>1, <2>2 DEF AbsentFor, n, g
<1>4. CASE ~(g >= GoneRounds)
  <2>1. SUFFICES ASSUME n >= GoneRounds,
                        \A i \in n - GoneRounds + 1 .. n : ticks[i].t > s.t0 /\ s.class \notin ticks[i].active
                 PROVE  FALSE
    BY <1>4 DEF AbsentFor, n, g
  <2>2. g < n /\ n - g \in n - GoneRounds + 1 .. n /\ n - g \in 1..n
    BY <1>1, <1>4, <2>1
  <2>3. ticks[n - g].t > s.t0 /\ s.class \notin ticks[n - g].active
    BY <2>1, <2>2
  <2>4. ticks[n - g].t <= s.t0
    BY <1>2, <2>2, <2>3
  <2>5. ticks[n - g].t \in Nat
    BY <2>2, TickAt DEF n
  <2> QED
    BY <2>3, <2>4, <2>5
<1> QED
  BY <1>3, <1>4

LEMMA GMeans ==
    ASSUME SInv, GInv
    PROVE  SessionEnds
<1>1. ASSUME NEW id \in DOMAIN sessions, loop \in {"finish", "wait"}
      PROVE  LET s == sessions[id]
             IN  /\ s.t0 \in Nat /\ s.goneFor \in Nat /\ EndsExact(id, s) /\ now \in Nat
                 /\ AbsentFor(s.class, s.t0, GoneRounds) <=> s.goneFor >= GoneRounds
  <2> DEFINE s == sessions[id]
  <2>1. s.t0 \in Nat /\ s.goneFor \in Nat /\ now \in Nat /\ GoneExact(s) /\ EndsExact(id, s) /\ TicksTyped
    BY OpenAt DEF GInv
  <2>2. Past = Len(ticks)
    BY <1>1 DEF Past
  <2> HIDE DEF s
  <2>3. AbsentFor(s.class, s.t0, GoneRounds) <=> s.goneFor >= GoneRounds
    BY <2>1, <2>2, AbsentMeans
  <2> QED
    BY <2>1, <2>3 DEF s
<1>2. ASSUME loop = "wait", NEW id \in DOMAIN sessions
      PROVE  /\ now - sessions[id].t0 < MaxDuration
             /\ ~AbsentFor(sessions[id].class, sessions[id].t0, GoneRounds)
  <2>1. Range(ended) = {}
    BY <1>2 DEF SInv, EndedTyped, Range
  <2>2. ~Over(sessions[id], now - sessions[id].t0)
    BY <1>1, <1>2, <2>1 DEF EndsExact
  <2>3. ~(sessions[id].goneFor >= GoneRounds) /\ ~(now - sessions[id].t0 >= MaxDuration)
    BY <2>2 DEF Over
  <2> QED
    BY <1>1, <1>2, <2>3, Numbers
<1>3. ASSUME NEW id \in Range(ended)
      PROVE  \/ now - sessions[id].t0 >= MaxDuration
             \/ AbsentFor(sessions[id].class, sessions[id].t0, GoneRounds)
  <2>1. loop = "finish" /\ id \in DOMAIN sessions
    BY <1>3 DEF SInv, EndedTyped, Range
  <2>2. Over(sessions[id], now - sessions[id].t0)
    BY <1>1, <1>3, <2>1 DEF EndsExact
  <2> QED
    BY <1>1, <2>1, <2>2 DEF Over
<1> QED
  BY <1>2, <1>3, STypeOK DEF SessionEnds

\* SessionEnds (snapshot.go:181): for any conclusions, any GoneRounds, MaxDuration and
\* MaxOpen and any late ticks; with the type invariant.
THEOREM SessionsEnd == HSpec => []SessionEnds
<1>1. HInit => GInv
  BY GStarts
<1>2. SInv /\ GInv /\ [HNext]_hvars => GInv'
  BY GInductive
<1>3. SInv /\ GInv => SessionEnds
  BY GMeans
<1> QED
  BY <1>1, <1>2, <1>3, Sessions, PTL DEF HSpec

-----------------------------------------------------------------------------
(* The time lines *)

LEMMA SampleAt ==
    ASSUME NEW tl \in Seq(SampleSet)
    PROVE  /\ Len(tl) \in Nat
           /\ \A i \in 1..Len(tl) : tl[i] \in SampleSet /\ tl[i].at \in Nat /\ tl[i].covers \in Seq(Nat)
<1>1. \A i \in 1..Len(tl) : tl[i] \in SampleSet
  OBVIOUS
<1>2. \A x \in SampleSet : x.at \in Nat /\ x.covers \in Seq(Nat)
  BY DEF SampleSet
<1> QED
  BY <1>1, <1>2

LEMMA InRange ==
    ASSUME NEW S, NEW c \in Seq(S)
    PROVE  Range(c) = {c[i] : i \in 1..Len(c)}
BY DEF Range

\* One sample more.
LEMMA LinePhases ==
    ASSUME NEW tl \in Seq(SampleSet), tl # <<>>, NEW u \in Seq(SampleSet), Len(u) = Len(tl) + 1,
           \A i \in 1..Len(tl) : u[i] = tl[i], u[Len(tl) + 1].phase # "onset",
           Last(tl).phase # "recovery", Last(tl).at <= u[Len(tl) + 1].at, PhasesGood(tl)
    PROVE  PhasesGood(u)
<1> DEFINE m == Len(tl)
<1>1. m \in Nat /\ m # 0 /\ Last(tl) = tl[m]
  BY DEF Last
<1>2. tl[1].phase = "onset" /\ (\A i \in 2..m : tl[i].phase # "onset")
      /\ \A i \in 1..m - 1 : tl[i].phase # "recovery" /\ tl[i].at <= tl[i+1].at
  BY DEF PhasesGood
<1> HIDE DEF m
<1>3. \A i \in 2..m + 1 : u[i].phase # "onset"
  <2>1. SUFFICES ASSUME NEW i \in 2..m + 1
                 PROVE  u[i].phase # "onset"
    OBVIOUS
  <2>2. CASE i = m + 1
    BY <2>2 DEF m
  <2>3. CASE i \in 2..m
    <3>1. u[i] = tl[i]
      BY <1>1, <2>3 DEF m
    <3> QED
      BY <1>2, <2>3, <3>1
  <2> QED
    BY <1>1, <2>2, <2>3
<1>4. ASSUME NEW i \in 1..m
      PROVE  u[i].phase # "recovery" /\ u[i].at <= u[i+1].at
  <2>1. u[i] = tl[i]
    BY DEF m
  <2>2. CASE i = m
    BY <1>1, <2>1, <2>2 DEF m
  <2>3. CASE i \in 1..m - 1
    <3>1. i + 1 \in 1..m
      BY <1>1, <2>3
    <3>2. u[i+1] = tl[i+1]
      BY <3>1 DEF m
    <3> QED
      BY <1>2, <2>1, <2>3, <3>2
  <2> QED
    BY <1>1, <2>2, <2>3
<1>5. u[1].phase = "onset"
  BY <1>1, <1>2 DEF m
<1>6. Len(u) = m + 1 /\ (m + 1) - 1 = m
  BY <1>1 DEF m
<1> QED
  BY <1>3, <1>4, <1>5, <1>6 DEF PhasesGood

LEMMA LineCovers ==
    ASSUME NEW tl \in Seq(SampleSet), tl # <<>>, NEW u \in Seq(SampleSet), Len(u) = Len(tl) + 1,
           \A i \in 1..Len(tl) : u[i] = tl[i], CoversGood(tl),
           NEW c, c = u[Len(tl) + 1].covers, \A o \in Range(c) : o <= u[Len(tl) + 1].at,
           \A k, l \in 1..Len(c) : k < l => c[k] < c[l],
           \A o \in Covers(tl), x \in Range(c) : o < x
    PROVE  CoversGood(u) /\ Covers(u) = Covers(tl) \cup Range(c)
<1> DEFINE m == Len(tl)
<1>1. m \in Nat /\ Len(u) = m + 1
  OBVIOUS
<1>2. \A j \in 1..m : Range(tl[j].covers) \subseteq Covers(tl)
  BY DEF Covers
<1>3. \A i \in 1..m :
        /\ \A o \in Range(tl[i].covers) : o <= tl[i].at
        /\ \A k, l \in 1..Len(tl[i].covers) : k < l => tl[i].covers[k] < tl[i].covers[l]
        /\ \A j \in 1..i - 1 : \A o \in Range(tl[j].covers), x \in Range(tl[i].covers) : o < x
  BY DEF CoversGood
<1>4. \A i \in 1..m : u[i] = tl[i]
  OBVIOUS
<1>5. Covers(u) = Covers(tl) \cup Range(c)
  <2>1. ASSUME NEW x \in Covers(u)
        PROVE  x \in Covers(tl) \cup Range(c)
    <3>1. PICK i \in 1..m + 1 : x \in Range(u[i].covers)
      BY <1>1 DEF Covers
    <3>2. CASE i = m + 1
      BY <3>1, <3>2
    <3>3. CASE i \in 1..m
      BY <1>2, <1>4, <3>1, <3>3
    <3> QED
      BY <1>1, <3>2, <3>3
  <2>2. ASSUME NEW x \in Covers(tl) \cup Range(c)
        PROVE  x \in Covers(u)
    <3>1. CASE x \in Range(c)
      <4>1. m + 1 \in 1..Len(u) /\ x \in Range(u[m + 1].covers)
        BY <1>1, <3>1
      <4> QED
        BY <4>1 DEF Covers
    <3>2. CASE x \in Covers(tl)
      <4>1. PICK i \in 1..m : x \in Range(tl[i].covers)
        BY <3>2 DEF Covers
      <4>2. i \in 1..Len(u) /\ u[i] = tl[i]
        BY <1>1, <1>4
      <4> QED
        BY <4>1, <4>2 DEF Covers
    <3> QED
      BY <3>1, <3>2
  <2> QED
    BY <2>1, <2>2
<1> HIDE DEF m
<1>6. ASSUME NEW i \in 1..m + 1
      PROVE  /\ \A o \in Range(u[i].covers) : o <= u[i].at
             /\ \A k, l \in 1..Len(u[i].covers) : k < l => u[i].covers[k] < u[i].covers[l]
             /\ \A j \in 1..i - 1 : \A o \in Range(u[j].covers), x \in Range(u[i].covers) : o < x
  <2>1. CASE i = m + 1
    <3>1. u[i].covers = c /\ \A o \in Range(c) : o <= u[i].at
      BY <2>1 DEF m
    <3>2. \A j \in 1..i - 1 : j \in 1..m /\ u[j] = tl[j]
      BY <1>1, <1>4, <2>1
    <3>3. \A j \in 1..i - 1 : Range(u[j].covers) \subseteq Covers(tl)
      BY <1>2, <3>2 DEF m
    <3>4. \A j \in 1..i - 1 : \A o \in Range(u[j].covers), x \in Range(c) : o < x
      BY <3>3
    <3> QED
      BY <3>1, <3>4
  <2>2. CASE i \in 1..m
    <3>1. u[i] = tl[i] /\ \A j \in 1..i - 1 : u[j] = tl[j]
      BY <1>1, <1>4, <2>2
    <3> QED
      BY <1>3, <2>2, <3>1
  <2> QED
    BY <1>1, <2>1, <2>2
<1> QED
  BY <1>1, <1>5, <1>6 DEF CoversGood

LEMMA LineSampled ==
    ASSUME NEW s \in Session, s.samples # <<>>, Last(s.samples).phase # "recovery", NEW e \in Nat,
           Line(s.samples, s.nextIdx, e)
    PROVE  LET c == Covered(s, e)
               n == s.nextIdx + Len(c)
           IN  Line(Sampled(s.samples, c, e), n, e) /\ \A k \in n..Len(Offsets) : Offsets[k] > e
<1> DEFINE tl == s.samples
           n0 == s.nextIdx
           c == Covered(s, e)
           n == n0 + Len(c)
           u == Sampled(tl, c, e)
           m == Len(tl)
<1>1. tl \in Seq(SampleSet) /\ m \in Nat /\ m # 0 /\ tl # <<>> /\ n0 \in 1..Len(Offsets) + 1 /\ n0 \in Nat
      /\ Last(tl) = tl[m] /\ Last(tl).at \in Nat
  <2>1. tl \in Seq(SampleSet) /\ tl # <<>> /\ n0 \in 1..Len(Offsets) + 1
    BY SessionFields
  <2>2. Last(tl) = tl[m] /\ m \in Nat /\ m # 0
    BY <2>1 DEF Last
  <2> HIDE DEF tl, m
  <2>3. tl[m].at \in Nat
    BY <2>1, <2>2, SampleAt DEF m
  <2> QED
    BY <2>1, <2>2, <2>3, OffsetsAre
<1>2. /\ c \in Seq(Nat) /\ Len(c) \in Nat /\ n \in n0..Len(Offsets) + 1
      /\ \A i \in 1..Len(c) : c[i] = Offsets[n0 + i - 1] /\ c[i] <= e
      /\ \A k \in n..Len(Offsets) : Offsets[k] > e
  BY CoveredIs
<1>3. /\ PhasesGood(tl) /\ CoversGood(tl) /\ Covers(tl) = {Offsets[k] : k \in 1..n0 - 1}
      /\ \A i \in 1..m : tl[i].at <= e
      /\ \A k \in 1..n0 - 1 : Offsets[k] <= Last(tl).at
      /\ \A k \in n0..Len(Offsets) : Offsets[k] > Last(tl).at
      /\ Last(tl).phase # "recovery"
  BY DEF Line
<1> HIDE DEF tl, c, n0
<1>4. CASE c = <<>>
  <2>1. u = tl /\ n = n0
    BY <1>1, <1>4 DEF Sampled
  <2> QED
    BY <1>2, <1>3, <2>1 DEF Line, tl, c, n0
<1>5. CASE c # <<>>
  <2>1. u \in Seq(SampleSet)
    BY <1>1, <1>2, SamplesTyped
  <2>2. /\ Len(u) = m + 1 /\ (\A i \in 1..m : u[i] = tl[i])
        /\ u[m + 1].phase = "during" /\ u[m + 1].covers = c /\ u[m + 1].at = e /\ Last(u) = u[m + 1]
    BY <1>1, <1>2, <1>5, SampledIs
  <2> HIDE DEF u
  <2>3. Last(tl).at <= e
    BY <1>1, <1>3
  <2>4. PhasesGood(u)
    BY <1>1, <1>3, <2>1, <2>2, <2>3, LinePhases
  <2>5. \A i \in 1..Len(c) : n0 + i - 1 \in 1..Len(Offsets) /\ n0 + i - 1 \in n0..n - 1 /\ n - 1 <= Len(Offsets)
    BY <1>1, <1>2, OffsetsAre
  <2>6. \A k, l \in 1..Len(c) : k < l => c[k] < c[l]
    <3>1. SUFFICES ASSUME NEW k \in 1..Len(c), NEW l \in 1..Len(c), k < l
                   PROVE  c[k] < c[l]
      OBVIOUS
    <3>2. n0 + k - 1 < n0 + l - 1
      BY <1>1, <1>2, <3>1
    <3>3. Offsets[n0 + k - 1] < Offsets[n0 + l - 1]
      BY <2>5, <3>2, OffsetsAre
    <3> QED
      BY <1>2, <3>3
  <2>7. Range(c) = {c[i] : i \in 1..Len(c)}
    BY <1>2, InRange
  <2>8. \A o \in Range(c) : o <= u[m + 1].at
    BY <1>2, <2>2, <2>7
  <2>9. \A o \in Covers(tl), x \in Range(c) : o < x
    <3>1. SUFFICES ASSUME NEW k \in 1..n0 - 1, NEW i \in 1..Len(c)
                   PROVE  Offsets[k] < c[i]
      BY <1>3, <2>7
    <3>2. k \in 1..Len(Offsets) /\ k < n0 + i - 1
      <4>1. Len(Offsets) \in Nat /\ n0 \in 1..Len(Offsets) + 1 /\ Len(c) \in Nat
        BY <1>1, <1>2, OffsetsAre
      <4> QED
        BY <4>1
    <3>3. Offsets[k] < Offsets[n0 + i - 1]
      BY <2>5, <3>2, OffsetsAre
    <3> QED
      BY <1>2, <3>3
  <2>10. CoversGood(u) /\ Covers(u) = Covers(tl) \cup Range(c)
    <3>1. c = u[Len(tl) + 1].covers /\ Len(u) = Len(tl) + 1 /\ (\A i \in 1..Len(tl) : u[i] = tl[i])
          /\ tl \in Seq(SampleSet) /\ tl # <<>> /\ CoversGood(tl)
          /\ \A o \in Range(c) : o <= u[Len(tl) + 1].at
      BY <1>1, <1>3, <2>2, <2>8
    <3> HIDE DEF m
    <3> QED
      BY <2>1, <2>6, <2>9, <3>1, LineCovers
  <2>11. Covers(u) = {Offsets[k] : k \in 1..n - 1}
    <3>1. ASSUME NEW k \in 1..n - 1
          PROVE  Offsets[k] \in Covers(tl) \cup Range(c)
      <4>1. CASE k \in 1..n0 - 1
        BY <1>3, <4>1
      <4>2. CASE k \notin 1..n0 - 1
        <5>1. k - n0 + 1 \in 1..Len(c) /\ n0 + (k - n0 + 1) - 1 = k
          BY <1>1, <1>2, <4>2
        <5>2. c[k - n0 + 1] = Offsets[k]
          BY <1>2, <5>1
        <5> QED
          BY <2>7, <5>1, <5>2
      <4> QED
        BY <4>1, <4>2
    <3>2. \A k \in 1..n0 - 1 : k \in 1..n - 1
      BY <1>1, <1>2
    <3>3. \A i \in 1..Len(c) : n0 + i - 1 \in 1..n - 1
      BY <1>1, <1>2
    <3>4. Covers(tl) \cup Range(c) \subseteq {Offsets[k] : k \in 1..n - 1}
      BY <1>2, <1>3, <2>7, <3>2, <3>3
    <3> QED
      BY <2>10, <3>1, <3>4
  <2>12. \A k \in 1..n - 1 : Offsets[k] <= e
    <3>1. SUFFICES ASSUME NEW k \in 1..n - 1
                   PROVE  Offsets[k] <= e
      OBVIOUS
    <3>2. CASE k \in 1..n0 - 1
      <4>1. Offsets[k] <= Last(tl).at /\ Offsets[k] \in Nat
        BY <1>1, <1>3, <3>2, OffsetsAre
      <4> QED
        BY <1>1, <2>3, <4>1
    <3>3. CASE k \notin 1..n0 - 1
      <4>1. k - n0 + 1 \in 1..Len(c) /\ n0 + (k - n0 + 1) - 1 = k
        BY <1>1, <1>2, <3>3
      <4> QED
        BY <1>2, <4>1
    <3> QED
      BY <3>2, <3>3
  <2>13. \A i \in 1..Len(u) : u[i].at <= e
    <3>1. \A i \in 1..m + 1 : i = m + 1 \/ i \in 1..m
      BY <1>1
    <3>2. u[m + 1].at <= e
      BY <2>2
    <3> QED
      BY <1>3, <2>2, <3>1, <3>2
  <2> HIDE DEF n
  <2>14. Line(u, n, e)
    BY <1>2, <2>2, <2>4, <2>10, <2>11, <2>12, <2>13 DEF Line
  <2> QED
    BY <1>2, <2>14 DEF tl, c, n0, n, u
<1> QED
  BY <1>4, <1>5

LEMMA LineClosed ==
    ASSUME NEW tl \in Seq(SampleSet), tl # <<>>, Last(tl).phase # "recovery", NEW n \in Nat, NEW e \in Nat,
           n \in 1..Len(Offsets) + 1, Line(tl, n, e), \A k \in n..Len(Offsets) : Offsets[k] > e
    PROVE  Line(Closed(tl, TRUE, e), n, e)
<1> DEFINE u == Closed(tl, TRUE, e)
           m == Len(tl)
           c == <<>>
<1>1. m \in Nat /\ m # 0 /\ Last(tl) = tl[m]
  BY DEF Last
<1>2. Last(tl).at \in Nat
  BY <1>1, SampleAt
<1>3. u \in Seq(SampleSet)
  <2>1. TRUE \in BOOLEAN /\ <<>> \in Seq(Nat)
    OBVIOUS
  <2> QED
    BY <2>1, SamplesTyped
<1>4. /\ Len(u) = m + 1 /\ (\A i \in 1..m : u[i] = tl[i])
      /\ u[m + 1].phase = "recovery" /\ u[m + 1].covers = c /\ u[m + 1].at = e /\ Last(u) = u[m + 1]
  BY ClosedIs
<1> HIDE DEF u
<1>5. /\ PhasesGood(tl) /\ CoversGood(tl) /\ Covers(tl) = {Offsets[k] : k \in 1..n - 1}
      /\ \A i \in 1..m : tl[i].at <= e
      /\ \A k \in 1..n - 1 : Offsets[k] <= Last(tl).at
  BY DEF Line
<1>6. Last(tl).at <= e
  BY <1>1, <1>5
<1>7. PhasesGood(u)
  BY <1>3, <1>4, <1>5, <1>6, LinePhases
<1>8. Range(c) = {} /\ Len(c) = 0 /\ 1..Len(c) = {}
  BY DEF Range
<1>9. CoversGood(u) /\ Covers(u) = Covers(tl)
  <2> HIDE DEF c
  <2>1. CoversGood(u) /\ Covers(u) = Covers(tl) \cup Range(c)
    BY <1>3, <1>4, <1>5, <1>8, LineCovers
  <2> QED
    BY <1>8, <2>1
<1>10. \A k \in 1..n - 1 : Offsets[k] <= e
  <2>1. \A k \in 1..n - 1 : Offsets[k] <= Last(tl).at /\ Offsets[k] \in Nat
    BY <1>5, OffsetsAre
  <2> QED
    BY <1>2, <1>6, <2>1
<1>11. \A i \in 1..Len(u) : u[i].at <= e
  <2>1. \A i \in 1..m + 1 : i = m + 1 \/ i \in 1..m
    BY <1>1
  <2>2. u[m + 1].at <= e
    BY <1>4
  <2> QED
    BY <1>4, <1>5, <2>1, <2>2
<1> QED
  BY <1>4, <1>5, <1>7, <1>9, <1>10, <1>11 DEF Line, u

LEMMA PromptMore ==
    ASSUME NEW t0, NEW tl, NEW u, NEW m \in Nat, Len(tl) = m, Len(u) = m + 1, \A i \in 1..m : u[i] = tl[i],
           Prompt(t0, tl),
           \A o \in Range(u[m + 1].covers) : ~\E k \in 1..Len(ticks) : ticks[k].t - t0 \in o..u[m + 1].at - 1
    PROVE  Prompt(t0, u)
<1>1. \A i \in 1..m + 1 : i = m + 1 \/ i \in 1..m
  OBVIOUS
<1> QED
  BY <1>1 DEF Prompt

\* The tick at hand is the first to reach the offsets that it covers.
LEMMA AdvancedLine ==
    ASSUME SInv, GInv, NEW id \in DOMAIN sessions, TimelineOpen(sessions[id]), loop = "advance"
    PROVE  LET s == sessions[id]
               a == Advanced(s)
           IN  /\ Line(a.samples, a.nextIdx, now - s.t0) /\ Prompt(s.t0, a.samples)
               /\ \A k \in a.nextIdx..Len(Offsets), i \in 1..Past + 1 : ticks[i].t - s.t0 < Offsets[k]
<1> DEFINE s == sessions[id]
           a == Advanced(s)
           e == now - s.t0
           c == Covered(s, e)
           over == GoneFor(s) >= GoneRounds \/ e >= MaxDuration
           n == s.nextIdx + Len(c)
           tl == Sampled(s.samples, c, e)
           t0 == s.t0
           m == Len(ticks)
<1>1. now \in Nat /\ s \in Session /\ s.samples # <<>> /\ t0 <= now /\ t0 \in Nat /\ e \in Nat
  BY OpenAt
<1>2. Line(s.samples, s.nextIdx, e) /\ Unreached(s.nextIdx, t0) /\ Prompt(t0, s.samples)
  BY DEF TimelineOpen
<1>3. Last(s.samples).phase # "recovery"
  <2>1. Range(ended) = {}
    BY DEF SInv, EndedTyped, Range
  <2> QED
    BY <2>1 DEF GInv, EndsExact, Done
<1> HIDE DEF s, e, t0
<1>4. a.samples = Closed(tl, over, e) /\ a.nextIdx = n
  BY <1>1, AdvancedIs DEF e, t0
<1> HIDE DEF a, over
<1>5. /\ c \in Seq(Nat) /\ Len(c) \in Nat /\ s.nextIdx \in 1..Len(Offsets) + 1 /\ n \in s.nextIdx..Len(Offsets) + 1
      /\ \A i \in 1..Len(c) : c[i] = Offsets[s.nextIdx + i - 1]
      /\ \A k \in n..Len(Offsets) : Offsets[k] > e
  BY <1>1, CoveredIs, SessionFields
<1>6. Line(tl, n, e)
  BY <1>1, <1>2, <1>3, LineSampled
<1>7. tl \in Seq(SampleSet) /\ tl # <<>> /\ s.samples \in Seq(SampleSet) /\ Len(s.samples) \in Nat
  <2>1. s.samples \in Seq(SampleSet)
    BY <1>1, SessionFields
  <2>2. TRUE \in BOOLEAN /\ c \in Seq(Nat)
    BY <1>5
  <2> HIDE DEF c
  <2>3. Sampled(s.samples, c, e) \in Seq(SampleSet) /\ Sampled(s.samples, c, e) # <<>>
    BY <1>1, <2>1, <2>2, SamplesTyped
  <2> QED
    BY <2>1, <2>3
<1>8. m \in Nat /\ m # 0 /\ Past = m - 1 /\ ticks[m].t = now /\ \A i \in 1..m : ticks[i].t \in Nat
  BY TickAt DEF GInv, TicksTyped, Past, Last
<1>9. \A k \in s.nextIdx..Len(Offsets), i \in 1..m - 1 : ticks[i].t - t0 < Offsets[k]
  BY <1>2, <1>8 DEF Unreached
<1>10. \A k \in n..Len(Offsets), i \in 1..Past + 1 : ticks[i].t - t0 < Offsets[k]
  <2>1. SUFFICES ASSUME NEW k \in n..Len(Offsets), NEW i \in 1..m
                 PROVE  ticks[i].t - t0 < Offsets[k]
    BY <1>8
  <2>2. k \in s.nextIdx..Len(Offsets) /\ k \in 1..Len(Offsets)
    <3>1. Len(Offsets) \in Nat
      BY OffsetsAre
    <3> HIDE DEF c
    <3> QED
      BY <1>5, <3>1
  <2>3. CASE i = m
    <3>1. Offsets[k] > now - t0 /\ Offsets[k] \in Nat
      BY <1>5, <2>2, OffsetsAre DEF e, t0
    <3> QED
      BY <1>1, <1>8, <2>3, <3>1
  <2>4. CASE i \in 1..m - 1
    BY <1>9, <2>2, <2>4
  <2> QED
    BY <1>8, <2>3, <2>4
<1>11. Prompt(t0, tl)
  <2>1. CASE c = <<>>
    BY <1>2, <2>1 DEF Sampled
  <2>2. CASE c # <<>>
    <3> DEFINE l == Len(s.samples)
    <3>1. /\ Len(tl) = l + 1 /\ (\A i \in 1..l : tl[i] = s.samples[i])
          /\ tl[l + 1].covers = c /\ tl[l + 1].at = e
      BY <1>1, <1>5, <1>7, <2>2, SampledIs
    <3>2. ASSUME NEW o \in Range(c), NEW k \in 1..m, ticks[k].t - t0 \in o..e - 1
          PROVE  FALSE
      <4>1. PICK j \in 1..Len(c) : o = c[j]
        BY <1>5, InRange
      <4>2. s.nextIdx + j - 1 \in s.nextIdx..Len(Offsets) /\ o = Offsets[s.nextIdx + j - 1]
            /\ s.nextIdx + j - 1 \in 1..Len(Offsets)
        <5>1. Len(Offsets) \in Nat
          BY OffsetsAre
        <5> HIDE DEF c
        <5> QED
          BY <1>5, <4>1, <5>1
      <4>3. CASE k = m
        BY <1>1, <1>8, <3>2, <4>3 DEF e, t0
      <4>4. CASE k \in 1..m - 1
        <5>1. ticks[k].t - t0 < o
          BY <1>9, <4>2, <4>4
        <5>2. o \in Nat /\ ticks[k].t \in Nat
          BY <1>8, <4>2, OffsetsAre
        <5> QED
          BY <1>1, <3>2, <5>1, <5>2
      <4> QED
        BY <1>8, <4>3, <4>4
    <3> HIDE DEF tl, c, m
    <3>3. \A o \in Range(tl[l + 1].covers) : ~\E k \in 1..m : ticks[k].t - t0 \in o..tl[l + 1].at - 1
      BY <3>1, <3>2
    <3> HIDE DEF l
    <3>4. l \in Nat /\ Len(s.samples) = l
      BY <1>7 DEF l
    <3> QED
      BY <1>2, <3>1, <3>3, <3>4, PromptMore DEF m
  <2> QED
    BY <2>1, <2>2
<1>12. Last(tl).phase # "recovery"
  <2>1. CASE c = <<>>
    BY <1>3, <2>1 DEF Sampled
  <2>2. CASE c # <<>>
    BY <1>1, <1>5, <1>7, <2>2, SampledIs
  <2> QED
    BY <2>1, <2>2
<1>13. n \in Nat /\ n \in 1..Len(Offsets) + 1
  <2>1. Len(Offsets) \in Nat
    BY OffsetsAre
  <2> HIDE DEF c
  <2> QED
    BY <1>5, <2>1
<1> HIDE DEF tl, n, m, c
<1>14. CASE over
  <2>1. a.samples = Closed(tl, TRUE, e)
    BY <1>4, <1>14 DEF Closed
  <2>2. Line(a.samples, n, e)
    BY <1>1, <1>5, <1>6, <1>7, <1>12, <1>13, <2>1, LineClosed
  <2>3. Prompt(t0, a.samples)
    <3> DEFINE l == Len(tl)
               u == a.samples
    <3>1. l \in Nat /\ Len(u) = l + 1 /\ (\A i \in 1..l : u[i] = tl[i]) /\ u[l + 1].covers = <<>>
      <4> DEFINE v == Closed(tl, TRUE, e)
      <4>1. l \in Nat
        BY <1>7
      <4>2. Len(v) = l + 1 /\ (\A i \in 1..l : v[i] = tl[i]) /\ v[l + 1].covers = <<>>
        BY <1>1, <1>7, ClosedIs
      <4> HIDE DEF v, l
      <4> QED
        BY <2>1, <4>1, <4>2 DEF v
    <3>2. Range(u[l + 1].covers) = {}
      BY <3>1 DEF Range
    <3> HIDE DEF l, u
    <3>3. Len(tl) = l
      BY DEF l
    <3>4. Prompt(t0, u)
      BY <1>11, <3>1, <3>2, <3>3, PromptMore
    <3> QED
      BY <3>4 DEF u
  <2> QED
    BY <1>4, <1>10, <2>2, <2>3 DEF a, e, s, t0
<1>15. CASE ~over
  <2>1. a.samples = tl
    BY <1>4, <1>15 DEF Closed
  <2> QED
    BY <1>4, <1>6, <1>10, <1>11, <2>1 DEF a, e, s, t0
<1> QED
  BY <1>14, <1>15

LEMMA TAdvance ==
    ASSUME SInv, GInv, TInv, AdvanceSessions, ticks' = ticks
    PROVE  TInv'
<1>1. loop = "advance" /\ loop' = "finish" /\ now' = now /\ files' = files
      /\ DOMAIN sessions' = DOMAIN sessions /\ (\A id \in DOMAIN sessions : sessions'[id] = Advanced(sessions[id]))
  BY DEF AdvanceSessions
<1>2. Past' = Past + 1
  BY <1>1, TickAt DEF Past, GInv
<1>3. ASSUME NEW id \in DOMAIN sessions
      PROVE  TimelineOpen(sessions[id])'
  <2> DEFINE a == Advanced(sessions[id])
  <2>1. a.t0 = sessions[id].t0
    BY OpenAt, AdvancedIs
  <2>2. TimelineOpen(sessions[id])
    BY DEF TInv
  <2>3. /\ Line(a.samples, a.nextIdx, now - a.t0) /\ Prompt(a.t0, a.samples)
        /\ \A k \in a.nextIdx..Len(Offsets), i \in 1..Past + 1 : ticks[i].t - a.t0 < Offsets[k]
    BY <1>1, <2>1, <2>2, AdvancedLine
  <2>4. sessions'[id] = a
    BY <1>1
  <2> HIDE DEF a
  <2> QED
    BY <1>1, <1>2, <2>3, <2>4 DEF TimelineOpen, Unreached, Prompt
<1> QED
  BY <1>1, <1>3 DEF TInv, FilesGood

LEMMA LineMonotone ==
    ASSUME NEW tl \in Seq(SampleSet), NEW n, NEW e \in Int, NEW f \in Int, e <= f, Line(tl, n, e)
    PROVE  Line(tl, n, f)
<1>1. \A i \in 1..Len(tl) : tl[i].at \in Nat
  BY SampleAt
<1> QED
  BY <1>1 DEF Line

LEMMA TTick ==
    ASSUME SInv, GInv, TInv, NEW c \in Chain, NEW delay \in 1..2, HTick(c, delay)
    PROVE  TInv'
<1> DEFINE n == Len(ticks)
           k1 == [t |-> now', active |-> ActiveOf(c)]
<1>1. loop = "wait" /\ loop' = "look" /\ now \in Nat /\ now' \in Nat /\ now' > now
      /\ UNCHANGED <<sessions, files>> /\ ticks' = Append(ticks, k1)
  BY DEF HTick, Tick, SInv, DueTyped
<1>2. n \in Nat /\ ticks \in Seq(TickRecord) /\ k1.t = now'
  BY TickAt DEF GInv, TicksTyped
<1>3. Len(ticks') = n + 1 /\ (\A i \in 1..n : ticks'[i] = ticks[i]) /\ ticks'[n + 1].t = now'
  <2> HIDE DEF k1
  <2> QED
    BY <1>1, <1>2, AppendProperties
<1>4. Past = n /\ Past' = n
  BY <1>1, <1>2, <1>3 DEF Past
<1> HIDE DEF n
<1>5. ASSUME NEW id \in DOMAIN sessions
      PROVE  TimelineOpen(sessions[id])'
  <2> DEFINE s == sessions[id]
             tl == s.samples
             t0 == s.t0
  <2>1. s \in Session /\ t0 \in Nat /\ t0 <= now /\ tl \in Seq(SampleSet)
    BY OpenAt, SessionFields
  <2>2. Line(tl, s.nextIdx, now - t0) /\ Unreached(s.nextIdx, t0) /\ Prompt(t0, tl)
    BY DEF TInv, TimelineOpen
  <2>3. s' = s
    BY <1>1
  <2> HIDE DEF s
  <2>4. Line(tl, s.nextIdx, now' - t0)
    <3>1. now - t0 \in Int /\ now' - t0 \in Int /\ now - t0 <= now' - t0
      BY <1>1, <2>1
    <3> HIDE DEF tl, t0
    <3> QED
      BY <2>1, <2>2, <3>1, LineMonotone
  <2>5. Unreached(s.nextIdx, t0)'
    BY <1>3, <1>4, <2>2, <2>3 DEF Unreached
  <2>6. ASSUME NEW i \in 1..Len(tl), NEW o \in Range(tl[i].covers), NEW k \in 1..n + 1,
               ticks'[k].t - t0 \in o..tl[i].at - 1
        PROVE  FALSE
    <3>1. CASE k \in 1..n
      BY <1>3, <2>2, <2>6, <3>1 DEF Prompt, n
    <3>2. CASE k = n + 1
      <4>1. tl[i].at <= now - t0 /\ tl[i].at \in Nat
        BY <2>1, <2>2, SampleAt DEF Line
      <4>2. ticks'[k].t = now'
        BY <1>3, <3>2
      <4>3. now' - t0 <= tl[i].at - 1
        <5>1. now' - t0 \in o..tl[i].at - 1
          BY <2>6, <4>2
        <5> QED
          BY <5>1
      <4> QED
        BY <1>1, <2>1, <4>1, <4>3
    <3> QED
      BY <1>2, <3>1, <3>2 DEF n
  <2>7. Prompt(t0, tl)'
    BY <1>3, <2>3, <2>6 DEF Prompt
  <2> QED
    BY <2>3, <2>4, <2>5, <2>7 DEF TimelineOpen, s
<1> QED
  BY <1>1, <1>5 DEF TInv, FilesGood

\* Steps that change neither the sessions nor the ticks, or that drop a session.
LEMMA TFewer ==
    ASSUME TInv, ticks' = ticks, Past' = Past, now' = now, DOMAIN sessions' \subseteq DOMAIN sessions,
           \A id \in DOMAIN sessions' : sessions'[id] = sessions[id], FilesGood'
    PROVE  TInv'
<1>1. ASSUME NEW id \in DOMAIN sessions'
      PROVE  TimelineOpen(sessions[id])'
  <2>1. TimelineOpen(sessions[id]) /\ sessions'[id] = sessions[id]
    BY DEF TInv
  <2> QED
    BY <2>1 DEF TimelineOpen, Unreached, Prompt
<1> QED
  BY <1>1 DEF TInv

LEMMA FilesGoodPut ==
    ASSUME FilesGood, NEW id, NEW tl, files' = Set(files, id, tl),
           tl = <<>> \/ (TimelineGood(tl) /\ Last(tl).phase = "recovery")
    PROVE  FilesGood'
<1>1. DOMAIN files' = DOMAIN files \cup {id} /\ files'[id] = tl
      /\ \A x \in DOMAIN files : x # id => files'[x] = files[x]
  BY DEF Set
<1> QED
  BY <1>1 DEF FilesGood

LEMMA FilesGoodExpire ==
    ASSUME FilesGood, files' = Expired(files)
    PROVE  FilesGood'
BY ExpiredIs DEF FilesGood

LEMMA LineIsGood ==
    ASSUME NEW tl, NEW n \in 1..Len(Offsets) + 1, NEW e, Line(tl, n, e), Last(tl).at \in Nat
    PROVE  TimelineGood(tl)
<1>1. Range(Offsets) = {Offsets[k] : k \in 1..Len(Offsets)} /\ Len(Offsets) \in Nat
  BY OffsetsAre, InRange
<1>2. Covers(tl) = {Offsets[k] : k \in 1..n - 1} /\ PhasesGood(tl) /\ CoversGood(tl)
      /\ (\A k \in 1..n - 1 : Offsets[k] <= Last(tl).at)
      /\ (\A k \in n..Len(Offsets) : Offsets[k] > Last(tl).at)
  BY DEF Line
<1>3. \A k \in 1..Len(Offsets) : k \in 1..n - 1 \/ k \in n..Len(Offsets)
  BY <1>1
<1>4. \A k \in 1..n - 1 : k \in 1..Len(Offsets)
  BY <1>1
<1>5. \A k \in n..Len(Offsets) : ~(Offsets[k] <= Last(tl).at)
  <2>1. \A k \in n..Len(Offsets) : k \in 1..Len(Offsets)
    BY <1>1
  <2>2. \A k \in n..Len(Offsets) : Offsets[k] \in Nat
    BY <2>1, OffsetsAre
  <2> QED
    BY <1>2, <2>2
<1>6. {Offsets[k] : k \in 1..n - 1} = {o \in Range(Offsets) : o <= Last(tl).at}
  BY <1>1, <1>2, <1>3, <1>4, <1>5
<1> QED
  BY <1>2, <1>6 DEF TimelineGood

LEMMA OpenIsGood ==
    ASSUME SInv, TInv, NEW id \in DOMAIN sessions
    PROVE  TimelineGood(sessions[id].samples) /\ Prompt(id[1], sessions[id].samples)
<1> DEFINE s == sessions[id]
<1>1. s \in Session /\ s.samples # <<>> /\ id = Id(s.t0, s.class) /\ TimelineOpen(s)
  BY OpenAt DEF TInv
<1> HIDE DEF s
<1>2. s.samples \in Seq(SampleSet) /\ s.nextIdx \in 1..Len(Offsets) + 1
  BY <1>1, SessionFields
<1>3. Last(s.samples).at \in Nat
  <2> DEFINE tl == s.samples
  <2>1. Len(tl) \in 1..Len(tl) /\ tl \in Seq(SampleSet)
    BY <1>1, <1>2
  <2> HIDE DEF tl
  <2>2. tl[Len(tl)].at \in Nat
    BY <2>1, SampleAt
  <2> QED
    BY <2>2 DEF Last, tl
<1>4. Line(s.samples, s.nextIdx, now - s.t0) /\ Prompt(s.t0, s.samples) /\ id[1] = s.t0
  BY <1>1 DEF TimelineOpen, Id
<1> QED
  BY <1>2, <1>3, <1>4, LineIsGood DEF s

LEMMA TStarts ==
    ASSUME HInit
    PROVE  TInv
<1>1. DOMAIN sessions = {} /\ DOMAIN files = {}
  BY DEF HInit, Init, Nowhere
<1> QED
  BY <1>1 DEF TInv, FilesGood

LEMMA NewLine ==
    ASSUME SInv, TicksTyped, NEW class \in Class
    PROVE  TimelineOpen(NewSession(class, now))
<1> DEFINE o == Sample("onset", <<>>, 0, "")
           s == NewSession(class, now)
           tl == <<o>>
<1>1. now \in Nat
  BY DEF SInv, DueTyped
<1>2. s.t0 = now /\ s.nextIdx = 1 /\ s.samples = tl
  BY <1>1, NewSessionTyped
<1>3. o.phase = "onset" /\ o.covers = <<>> /\ o.at = 0
  BY DEF Sample
<1> HIDE DEF o, s
<1>4. Len(tl) = 1 /\ tl[1] = o /\ Last(tl) = o /\ 1..1 = {1} /\ 2..1 = {} /\ 1..1 - 1 = {} /\ 1 - 1 = 0 /\ 1..0 = {}
  BY DEF Last
<1>5. Range(o.covers) = {} /\ Len(o.covers) = 0
  BY <1>3 DEF Range
<1> HIDE DEF tl
<1>6. PhasesGood(tl)
  BY <1>3, <1>4 DEF PhasesGood
<1>7. CoversGood(tl) /\ Covers(tl) = {}
  BY <1>4, <1>5 DEF CoversGood, Covers
<1>8. \A k \in 1..Len(Offsets) : Offsets[k] > 0 /\ Offsets[k] \in Nat
  BY OffsetsAre
<1>9. Line(tl, 1, 0)
  BY <1>3, <1>4, <1>6, <1>7, <1>8 DEF Line
<1>10. Unreached(1, now)
  <2>1. \A i \in 1..Past : ticks[i].t \in Nat /\ ticks[i].t <= now
    BY TickAt DEF Past
  <2>2. \A k \in 1..Len(Offsets), i \in 1..Past : ticks[i].t - now < Offsets[k]
    BY <1>1, <1>8, <2>1
  <2> QED
    BY <2>2 DEF Unreached
<1>11. Prompt(now, tl)
  BY <1>4, <1>5 DEF Prompt
<1>12. now - s.t0 = 0
  BY <1>1, <1>2
<1>13. TimelineOpen(s)
  BY <1>2, <1>9, <1>10, <1>11, <1>12 DEF TimelineOpen
<1> QED
  BY <1>13 DEF s

LEMMA TStartSession ==
    ASSUME SInv, GInv, TInv, StartSession, ticks' = ticks
    PROVE  TInv'
<1> DEFINE class == Head(due).class
           id1 == Id(now, class)
           s1 == NewSession(class, now)
<1>1. due # <<>> /\ loop = "session" /\ loop' = "look" /\ now' = now /\ files' = files
  BY DEF StartSession, SInv, DueTyped
<1>2. Past' = Past /\ FilesGood'
  BY <1>1 DEF Past, TInv, FilesGood
<1>3. CASE sessions' = sessions
  BY <1>1, <1>2, <1>3, TFewer
<1>4. CASE sessions' = Set(sessions, id1, s1)
  <2>1. class \in Class
    BY <1>1, InDue DEF SInv
  <2>2. TimelineOpen(s1)
    BY <2>1, NewLine DEF GInv
  <2> HIDE DEF s1, id1
  <2>3. ASSUME NEW id \in DOMAIN sessions'
        PROVE  TimelineOpen(sessions[id])'
    <3>1. PICK s : sessions'[id] = s /\ TimelineOpen(s)
      BY <1>4, <2>2 DEF Set, TInv
    <3> QED
      BY <1>1, <1>2, <3>1 DEF TimelineOpen, Unreached, Prompt
  <2> QED
    BY <1>2, <2>3 DEF TInv
<1> QED
  BY <1>3, <1>4 DEF StartSession

LEMMA TFinishWrite ==
    ASSUME SInv, GInv, TInv, FinishWrite, ticks' = ticks
    PROVE  TInv'
<1>1. loop = "finish" /\ loop' = loop /\ now' = now /\ Drops /\ ended # <<>> /\ held \in Range(ended) /\ held \in DOMAIN sessions
  BY HeldIs DEF FinishWrite, Drops
<1>2. Past' = Past /\ DOMAIN sessions' \subseteq DOMAIN sessions
      /\ \A id \in DOMAIN sessions' : sessions'[id] = sessions[id]
  BY <1>1, DropsOne DEF Past
<1>3. FilesGood'
  <2>1. Last(TimelineOf(held)).phase = "recovery"
    BY <1>1 DEF GInv, EndsExact, Done, TimelineOf
  <2>2. TimelineGood(TimelineOf(held))
    BY <1>1, OpenIsGood DEF TimelineOf
  <2>3. CASE files' = Set(files, held, TimelineOf(held))
    BY <2>1, <2>2, <2>3, FilesGoodPut DEF TInv
  <2>4. CASE files' = files
    BY <2>4 DEF TInv, FilesGood
  <2> QED
    BY <2>3, <2>4 DEF FinishWrite
<1> QED
  BY <1>1, <1>2, <1>3, TFewer

\* Steps that leave the sessions and the ticks alone and put no time line into a file.
LEMMA TElsewhere ==
    ASSUME TInv, UNCHANGED <<ticks, sessions, now>>, Past' = Past,
           \/ files' = files
           \/ files' = Expired(files)
           \/ \E id : files' = Set(files, id, <<>>)
    PROVE  TInv'
<1>1. FilesGood
  BY DEF TInv
<1>2. CASE files' = files
  <2>1. FilesGood'
    BY <1>1, <1>2 DEF FilesGood
  <2> QED
    BY <2>1, TFewer
<1>3. CASE files' = Expired(files)
  <2>1. FilesGood'
    BY <1>1, <1>3, FilesGoodExpire
  <2> QED
    BY <2>1, TFewer
<1>4. CASE \E id : files' = Set(files, id, <<>>)
  <2>1. PICK id : files' = Set(files, id, <<>>)
    BY <1>4
  <2>2. FilesGood'
    BY <1>1, <2>1, FilesGoodPut
  <2> QED
    BY <2>2, TFewer
<1> QED
  BY <1>2, <1>3, <1>4

LEMMA TInductive ==
    ASSUME SInv, GInv, TInv, [HNext]_hvars
    PROVE  TInv'
<1>1. CASE \E c \in Chain, delay \in 1..2 : HTick(c, delay)
  BY <1>1, TTick
<1>2. CASE HLook
  <2>1. UNCHANGED <<ticks, sessions, now, files>> /\ loop = "look" /\ loop' \in {"look", "capture"}
    BY <1>2 DEF HLook, HoldBack, Choose
  <2>2. Past' = Past
    BY <2>1 DEF Past
  <2> QED
    BY <2>1, <2>2, TElsewhere
<1>3. CASE StartSession /\ ticks' = ticks
  BY <1>3, TStartSession
<1>4. CASE AdvanceSessions /\ ticks' = ticks
  BY <1>4, TAdvance
<1>5. CASE Restart /\ ticks' = <<>>
  <2>1. DOMAIN sessions' = {} /\ files' = files
    BY <1>5 DEF Restart, Nowhere
  <2> QED
    BY <2>1 DEF TInv, FilesGood
<1>6. CASE FinishRead /\ ticks' = ticks
  <2>1. loop' = loop /\ now' = now /\ files' = files
        /\ (sessions' = sessions \/ (Drops /\ ended # <<>>))
    BY <1>6 DEF FinishRead, Drops
  <2>2. Past' = Past /\ FilesGood'
    BY <1>6, <2>1 DEF Past, TInv, FilesGood
  <2>3. CASE sessions' = sessions
    BY <1>6, <2>1, <2>2, <2>3, TFewer
  <2>4. CASE Drops /\ ended # <<>>
    <3>1. DOMAIN sessions' \subseteq DOMAIN sessions /\ \A id \in DOMAIN sessions' : sessions'[id] = sessions[id]
      BY <2>4, DropsOne
    <3> QED
      BY <1>6, <2>1, <2>2, <3>1, TFewer
  <2> QED
    BY <2>1, <2>3, <2>4
<1>7. CASE FinishWrite /\ ticks' = ticks
  BY <1>7, TFinishWrite
<1>8. CASE (PassBy \/ LookDone \/ CaptureDue \/ CaptureFails \/ ExpireDue \/ TickDone) /\ ticks' = ticks
  <2>1. /\ UNCHANGED <<ticks, sessions, now>>
        /\ files' = files \/ files' = Expired(files) \/ \E id : files' = Set(files, id, <<>>)
    BY <1>8 DEF PassBy, LookDone, CaptureDue, CaptureFails, ExpireDue, TickDone, loopVars
  <2>2. loop \in {"finish", "wait"} <=> loop' \in {"finish", "wait"}
    BY <1>8 DEF PassBy, LookDone, CaptureDue, CaptureFails, ExpireDue, TickDone
  <2>3. Past' = Past
    BY <2>1, <2>2 DEF Past
  <2> QED
    BY <2>1, <2>3, TElsewhere
<1>9. CASE Manually /\ ticks' = ticks
  <2>1. /\ UNCHANGED <<ticks, sessions, now, loop>>
        /\ files' = files \/ files' = Expired(files) \/ \E id : files' = Set(files, id, <<>>)
    BY <1>9 DEF Manually, ManualWrite, ManualRename, ManualExpire, loopVars
  <2>2. Past' = Past
    BY <2>1 DEF Past
  <2> QED
    BY <2>1, <2>2, TElsewhere
<1>10. CASE UNCHANGED hvars
  <2>1. UNCHANGED <<ticks, sessions, now, loop, files>>
    BY <1>10 DEF hvars, vars, loopVars
  <2>2. Past' = Past
    BY <2>1 DEF Past
  <2> QED
    BY <2>1, <2>2, TElsewhere
<1> QED
  BY <1>1, <1>2, <1>3, <1>4, <1>5, <1>6, <1>7, <1>8, <1>9, <1>10 DEF HNext, Manually, LoopStep

\* TimelineExact (snapshot.go:181): for any offsets, any conclusions, any late
\* ticks and any restarts and failed captures and write-backs.
THEOREM TimelinesExact == HSpec => []TimelineExact
<1>1. HInit => GInv /\ TInv
  BY GStarts, TStarts
<1>2. SInv /\ GInv /\ [HNext]_hvars => GInv'
  BY GInductive
<1>3. SInv /\ GInv /\ TInv /\ [HNext]_hvars => TInv'
  BY TInductive
<1>4. SInv /\ TInv => TimelineExact
  BY OpenIsGood DEF TInv, FilesGood, TimelineExact
<1> QED
  BY <1>1, <1>2, <1>3, <1>4, Sessions, PTL DEF HSpec
=============================================================================
