------------------------------ MODULE ServiceProofs ------------------------------
(* Proofs about the service log, for any services, looks and thresholds, through  *)
(* stops, crashes and restarts: the maps agree with each other (IInv), and they   *)
(* count exactly what the rounds of this life saw (CountInv), so that the list is *)
(* the debounced sightings and the last words of an event are true.  Debounced    *)
(* says what ListedAfter says for any set of rounds; the lemmas about it are the  *)
(* arithmetic of the two thresholds, without the log.  AInv says what the log     *)
(* says of now, of each round of this life and of each minute after a clean stop, *)
(* so that the answers of the look-ups are true.                                  *)
EXTENDS ServiceHistory, FiniteSetTheorems, SequenceTheorems, TLAPS

\* What the log may hold at time t.
Entry(t) ==
    [ts : 1..t, kind : {"up", "down"}]
      \union [ts : 1..t, kind : {"appear", "restart"}, id : Service]
      \union [ts : 1..t, kind : {"vanish"}, id : Service, last : RSS, peak : RSS, seenAt : 1..t]

Typed ==
    /\ now \in Nat \ {0} /\ startAt \in 0..now /\ lives \in Nat
    /\ phase \in {"off", "on", "closing"} /\ due \in BOOLEAN
    /\ phase # "off" => startAt > 0
    /\ cur \in Sighting
    /\ missing \in [Service -> Nat] /\ seenRounds \in [Service -> Nat]
    /\ peakRSS \in [Service -> Nat] /\ lastSeen \in [Service -> Nat]
    /\ events \in Seq(Entry(now))

\* What the maps hold of a listed service; the last two make up its last words.
Listed(s) ==
    /\ missing[s] < VanishConfirm
    /\ missing[s] > 0 => seenRounds[s] = 0
    /\ peakRSS[s] \in RSS /\ peakRSS[s] >= cur[s].rss
    /\ startAt > 0 /\ lastSeen[s] \in startAt..now

Unlisted(s) ==
    missing[s] = 0 /\ peakRSS[s] = 0 /\ lastSeen[s] = 0 /\ seenRounds[s] < MinSeen

Agree == \A s \in Service : IF s \in DOMAIN cur THEN Listed(s) ELSE Unlisted(s)

IInv == Typed /\ Agree

-----------------------------------------------------------------------------
(* Sightings and events *)

LEMMA Sightings ==
    ASSUME NEW obs \in Sighting
    PROVE  /\ DOMAIN obs \subseteq Service
           /\ \A s \in DOMAIN obs : obs[s] \in Look /\ obs[s].rss \in RSS /\ obs[s].rss \in Nat \ {0}
BY ServiceLogAssumption DEF Sighting, RSS

LEMMA NobodySeen == NoService \in Sighting /\ DOMAIN NoService = {}
BY DEF NoService, Sighting

LEMMA EntriesGrow ==
    ASSUME NEW t \in Nat, NEW u \in Nat, t <= u
    PROVE  Entry(t) \subseteq Entry(u)
<1>1. 1..t \subseteq 1..u
  OBVIOUS
<1> QED
  BY <1>1 DEF Entry

LEMMA SeqGrows ==
    ASSUME NEW S, NEW T, S \subseteq T, NEW q \in Seq(S)
    PROVE  q \in Seq(T)
OBVIOUS

\* What expiry leaves is a part of the log.
LEMMA Expired ==
    ASSUME NEW S, NEW evs \in Seq(S), NEW t
    PROVE  Expire(evs, t) \in Seq(S)
<1> DEFINE old == {i \in 1..Len(evs) : \A j \in 1..i : evs[j].ts < t - Retain}
<1>1. Len(evs) \in Nat /\ IsFiniteSet(1..Len(evs)) /\ Cardinality(1..Len(evs)) = Len(evs)
  <2>1. Len(evs) \in Nat
    OBVIOUS
  <2>2. /\ IsFiniteSet(1..Len(evs))
        /\ Cardinality(1..Len(evs)) = IF 1 > Len(evs) THEN 0 ELSE Len(evs) - 1 + 1
    BY <2>1, FS_Interval
  <2> QED
    BY <2>1, <2>2
<1>2. IsFiniteSet(old) /\ Cardinality(old) <= Len(evs)
  BY <1>1, FS_Subset, old \subseteq 1..Len(evs)
<1>3. Cardinality(old) \in 0..Len(evs)
  BY <1>1, <1>2, FS_CardinalityType
<1>4. SubSeq(evs, Cardinality(old) + 1, Len(evs)) \in Seq(S)
  <2>1. \A i \in Cardinality(old) + 1 .. Len(evs) : evs[i] \in S
    BY <1>1, <1>3
  <2> DEFINE from == Cardinality(old) + 1
  <2>2. from \in Int /\ Len(evs) \in Int /\ \A i \in from .. Len(evs) : evs[i] \in S
    BY <1>1, <1>3, <2>1
  <2> HIDE DEF from
  <2> QED
    BY <2>2, SubSeqProperties DEF from
<1> QED
  BY <1>4 DEF Expire

\* An event that is not too old survives expiry.
LEMMA ExpiryKeeps ==
    ASSUME NEW S, NEW evs \in Seq(S), NEW t, NEW p \in 1..Len(evs), ~(evs[p].ts < t - Retain)
    PROVE  \E i \in 1..Len(Expire(evs, t)) : Expire(evs, t)[i] = evs[p]
<1> DEFINE old == {i \in 1..Len(evs) : \A j \in 1..i : evs[j].ts < t - Retain}
           c   == Cardinality(old)
<1>1. Len(evs) \in Nat /\ p \in Nat
  OBVIOUS
<1>2. old \subseteq 1..p-1
  <2> SUFFICES ASSUME NEW i \in old PROVE i \in 1..p-1
    OBVIOUS
  <2>1. i \in 1..Len(evs) /\ ~(p \in 1..i)
    OBVIOUS
  <2> QED
    BY <1>1, <2>1
<1>3. IsFiniteSet(1..p-1) /\ Cardinality(1..p-1) <= p-1
  <2>1. /\ IsFiniteSet(1..p-1)
        /\ Cardinality(1..p-1) = IF 1 > p-1 THEN 0 ELSE (p-1) - 1 + 1
    <3>1. 1 \in Int /\ p-1 \in Int
      BY <1>1
    <3> QED
      BY <3>1, FS_Interval
  <2> QED
    BY <1>1, <2>1
<1>4. IsFiniteSet(old) /\ c <= Cardinality(1..p-1)
  BY <1>2, <1>3, FS_Subset
<1>5. c \in Nat /\ Cardinality(1..p-1) \in Nat
  BY <1>3, <1>4, FS_CardinalityType
<1> HIDE DEF old, c
<1>6. c \in 0..p-1
  BY <1>1, <1>3, <1>4, <1>5
<1>7. /\ p - c \in 1..Len(SubSeq(evs, c + 1, Len(evs)))
      /\ SubSeq(evs, c + 1, Len(evs))[p - c] = evs[p]
  BY <1>1, <1>6
<1> QED
  BY <1>7 DEF Expire, old, c

\* Any finite set has a sequence of its elements.
LEMMA Sequence ==
    ASSUME NEW S, IsFiniteSet(S)
    PROVE  /\ SetToSeq(S) \in Seq(S)
           /\ \A x \in S : \E i \in 1..Len(SetToSeq(S)) : SetToSeq(S)[i] = x
<1> DEFINE n == Cardinality(S)
           q == SetToSeq(S)
<1>1. n \in Nat /\ ExistsBijection(1..n, S)
  BY FS_CardinalityType
<1>2. \E f \in [1..n -> S] : IsInjective(f)
  BY <1>1 DEF ExistsBijection, Bijection, Injection, IsInjective
<1>3. q \in [1..n -> S] /\ IsInjective(q)
  BY <1>2 DEF SetToSeq
<1>4. q \in Injection(1..n, S) /\ Cardinality(1..n) = n
  BY <1>1, <1>3, FS_Interval DEF Injection
<1>5. q \in Surjection(1..n, S)
  BY <1>4, FS_Injection
<1> QED
  BY <1>1, <1>3, <1>5 DEF Surjection

-----------------------------------------------------------------------------
(* nodedata starts, stops and crashes *)

LEMMA Starts == Init => IInv
<1> SUFFICES ASSUME Init
             PROVE  IInv
  OBVIOUS
<1>1. Typed
  <2>1. <<>> \in Seq(Entry(now)) /\ Zeros \in [Service -> Nat] /\ cur \in Sighting
    BY NobodySeen DEF Init, Zeros
  <2>2. /\ now = 1 /\ startAt = 0 /\ lives = 0 /\ phase = "off" /\ due = FALSE /\ events = <<>>
        /\ missing = Zeros /\ seenRounds = Zeros /\ peakRSS = Zeros /\ lastSeen = Zeros
    BY DEF Init
  <2>3. events \in Seq(Entry(now))
    BY <2>1, <2>2
  <2>4. /\ missing \in [Service -> Nat] /\ seenRounds \in [Service -> Nat]
        /\ peakRSS \in [Service -> Nat] /\ lastSeen \in [Service -> Nat]
    BY <2>1, <2>2, Zenon
  <2>5. /\ now \in Nat \ {0} /\ startAt \in 0..now /\ lives \in Nat
        /\ phase \in {"off", "on", "closing"} /\ due \in BOOLEAN
        /\ phase # "off" => startAt > 0
    <3>1. now \in Nat \ {0} /\ startAt \in 0..now /\ lives \in Nat
      BY <2>2
    <3>2. phase = "off" /\ due = FALSE
      BY <2>2
    <3>3. due \in BOOLEAN
      BY <3>2
    <3> QED
      BY <3>1, <3>2, <3>3
  <2> QED
    BY <2>1, <2>3, <2>4, <2>5 DEF Typed
<1>2. Agree
  BY NobodySeen, ServiceLogAssumption DEF Init, Agree, Unlisted, Zeros
<1> QED
  BY <1>1, <1>2 DEF IInv

LEMMA LoadKeeps ==
    ASSUME IInv, Load
    PROVE  IInv'
<1>1. events' \in Seq(Entry(now'))
  <2>1. Expire(events, now) \in Seq(Entry(now)) /\ Up(now) \in Entry(now)
    BY Expired DEF IInv, Typed, Up, Entry
  <2> QED
    BY <2>1, AppendProperties DEF Load
<1>2. Typed'
  BY <1>1, NobodySeen DEF Load, IInv, Typed, Zeros
<1>3. Agree'
  BY NobodySeen, ServiceLogAssumption DEF Load, Agree, Unlisted, Zeros
<1> QED
  BY <1>2, <1>3 DEF IInv

LEMMA CloseKeeps ==
    ASSUME IInv, Close
    PROVE  IInv'
<1>1. events' \in Seq(Entry(now'))
  <2>1. events \in Seq(Entry(now)) /\ Down(now) \in Entry(now)
    BY DEF IInv, Typed, Down, Entry
  <2> QED
    BY <2>1, AppendProperties DEF Close
<1>2. Typed'
  BY <1>1 DEF Close, IInv, Typed
<1>3. Agree'
  BY DEF Close, IInv, Agree, Listed, Unlisted
<1> QED
  BY <1>2, <1>3 DEF IInv

LEMMA StopKeeps ==
    ASSUME IInv, Exit \/ Crash
    PROVE  IInv'
<1>1. Typed'
  BY DEF Exit, Crash, IInv, Typed
<1>2. Agree'
  BY DEF Exit, Crash, IInv, Agree, Listed, Unlisted
<1> QED
  BY <1>1, <1>2 DEF IInv

LEMMA MinuteKeeps ==
    ASSUME IInv, Minute
    PROVE  IInv'
<1>1. now' = now + 1 /\ now \in Nat /\ startAt \in 0..now /\ events' = events /\ startAt' = startAt
  BY DEF Minute, IInv, Typed
<1>2. events' \in Seq(Entry(now'))
  <2>1. Entry(now) \subseteq Entry(now')
    BY <1>1, EntriesGrow
  <2> QED
    BY <1>1, <2>1, SeqGrows DEF IInv, Typed
<1>3. Typed'
  BY <1>1, <1>2 DEF Minute, IInv, Typed
<1>4. Agree'
  BY <1>1 DEF Minute, IInv, Agree, Listed, Unlisted
<1> QED
  BY <1>3, <1>4 DEF IInv

-----------------------------------------------------------------------------
(* A round *)

\* A service that was listed when its last words were spoken.
LEMMA Words ==
    ASSUME IInv, NEW s \in DOMAIN cur
    PROVE  LastWords(s) \in Entry(now)
<1>1. s \in Service /\ cur[s].rss \in RSS
  BY Sightings DEF IInv, Typed
<1>2. peakRSS[s] \in RSS /\ lastSeen[s] \in 1..now /\ now \in 1..now
  BY <1>1 DEF IInv, Typed, Agree, Listed
<1> QED
  BY <1>1, <1>2 DEF LastWords, Vanish, Entry

LEMMA EventsOfRound ==
    ASSUME IInv, NEW obs \in Sighting, phase # "off"
    PROVE  RoundEvents(obs) \in Seq(Entry(now))
<1> DEFINE new == Admitted(obs) \union Restarted(obs)
           seen == SetToSeq(new)
           gone == SetToSeq(Vanishing(obs))
<1>1. new \subseteq Service /\ Vanishing(obs) \subseteq DOMAIN cur /\ DOMAIN cur \subseteq Service
  BY Sightings DEF IInv, Typed, Admitted, Restarted, Vanishing
<1>2. IsFiniteSet(new) /\ IsFiniteSet(Vanishing(obs))
  BY <1>1, FS_Subset, ServiceLogAssumption
<1>3. seen \in Seq(new) /\ gone \in Seq(Vanishing(obs))
  BY <1>2, Sequence
<1>4. now \in 1..now /\ startAt \in 1..now
  BY DEF IInv, Typed
<1> HIDE DEF new, seen, gone
<1>5. [i \in 1..Len(seen) |->
          IF seen[i] \notin Admitted(obs) THEN Restart(seen[i], now)
          ELSE Appear(seen[i], IF Learning THEN startAt ELSE now)] \in Seq(Entry(now))
  <2>1. Len(seen) \in Nat /\ \A i \in 1..Len(seen) : seen[i] \in Service
    BY <1>1, <1>3
  <2>2. \A i \in 1..Len(seen) : /\ Restart(seen[i], now) \in Entry(now)
                                /\ Appear(seen[i], IF Learning THEN startAt ELSE now) \in Entry(now)
    BY <1>4, <2>1 DEF Restart, Appear, Entry
  <2> QED
    BY <2>1, <2>2
<1>6. [i \in 1..Len(gone) |-> LastWords(gone[i])] \in Seq(Entry(now))
  <2>1. Len(gone) \in Nat /\ \A i \in 1..Len(gone) : gone[i] \in DOMAIN cur
    BY <1>1, <1>3
  <2> QED
    BY <2>1, Words
<1> QED
  BY <1>5, <1>6, ConcatProperties DEF RoundEvents, new, seen, gone

LEMMA UpdateTypes ==
    ASSUME IInv, NEW obs \in Sighting, Update(obs)
    PROVE  Typed'
<1>1. events' \in Seq(Entry(now'))
  <2>1. events \o RoundEvents(obs) \in Seq(Entry(now))
    BY EventsOfRound, ConcatProperties DEF Update, IInv, Typed
  <2> QED
    BY <2>1, Expired DEF Update
<1>2. cur' \in Sighting
  <2>1. DOMAIN cur' \subseteq Service /\ \A s \in DOMAIN cur' : cur'[s] \in Look
    BY Sightings DEF Update, IInv, Typed, Admitted
  <2>2. cur' \in [DOMAIN cur' -> Look]
    BY <2>1 DEF Update
  <2> QED
    BY <2>1, <2>2 DEF Sighting
<1>3. missing' \in [Service -> Nat] /\ seenRounds' \in [Service -> Nat]
  BY DEF Update, NextMissing, NextSeenRounds, IInv, Typed
<1>4. peakRSS' \in [Service -> Nat] /\ lastSeen' \in [Service -> Nat]
  <2>1. \A s \in DOMAIN obs : obs[s].rss \in Nat
    BY Sightings
  <2>2. Seen(obs) \subseteq DOMAIN obs
    BY DEF Seen, Admitted
  <2> QED
    BY <2>1, <2>2 DEF Update, NextPeak, Greater, IInv, Typed
<1> QED
  BY <1>1, <1>2, <1>3, <1>4 DEF Update, IInv, Typed

LEMMA UpdateAgrees ==
    ASSUME IInv, NEW obs \in Sighting, Update(obs), NEW s \in Service
    PROVE  IF s \in DOMAIN cur' THEN Listed(s)' ELSE Unlisted(s)'
<1>1. /\ missing'[s] = NextMissing(obs)[s] /\ seenRounds'[s] = NextSeenRounds(obs)[s]
      /\ peakRSS'[s] = NextPeak(obs)[s]
      /\ lastSeen'[s] = IF s \in Vanishing(obs) THEN 0 ELSE IF s \in Seen(obs) THEN now ELSE lastSeen[s]
      /\ DOMAIN cur' = (DOMAIN cur \union Admitted(obs)) \ Vanishing(obs)
      /\ s \in DOMAIN cur' => cur'[s] = IF s \in DOMAIN obs THEN obs[s] ELSE cur[s]
      /\ now' = now /\ startAt' = startAt
  BY DEF Update
<1>2. /\ missing[s] \in Nat /\ seenRounds[s] \in Nat /\ peakRSS[s] \in Nat /\ lastSeen[s] \in Nat
      /\ now \in Nat /\ startAt \in 1..now /\ VanishConfirm \in Nat \ {0} /\ MinSeen \in Nat \ {0}
  BY ServiceLogAssumption DEF Update, IInv, Typed
<1>3. CASE s \in DOMAIN cur /\ s \in DOMAIN obs
  <2>1. s \in Seen(obs) /\ s \notin Vanishing(obs) /\ s \in DOMAIN cur' /\ cur'[s] = obs[s]
    BY <1>1, <1>3 DEF Seen, Vanishing
  <2>2. Listed(s) /\ obs[s].rss \in RSS /\ obs[s].rss \in Nat
    BY <1>3, Sightings DEF IInv, Agree
  <2> QED
    BY <1>1, <1>2, <2>1, <2>2 DEF Listed, NextMissing, NextSeenRounds, NextPeak, Greater
<1>4. CASE s \in DOMAIN cur /\ s \notin DOMAIN obs
  <2>1. Listed(s) /\ s \notin Seen(obs) /\ s \notin Admitted(obs)
    BY <1>4 DEF IInv, Agree, Seen, Admitted
  <2>2. CASE s \in Vanishing(obs)
    BY <1>1, <1>2, <1>4, <2>1, <2>2 DEF Unlisted, NextMissing, NextSeenRounds, NextPeak
  <2>3. CASE s \notin Vanishing(obs)
    <3>1. missing[s] + 1 < VanishConfirm /\ s \in DOMAIN cur' /\ cur'[s] = cur[s]
      BY <1>1, <1>2, <1>4, <2>3 DEF Vanishing
    <3> QED
      BY <1>1, <1>2, <1>4, <2>1, <2>3, <3>1 DEF Listed, NextMissing, NextSeenRounds, NextPeak
  <2> QED
    BY <2>2, <2>3
<1>5. CASE s \notin DOMAIN cur
  <2>1. Unlisted(s) /\ s \notin Vanishing(obs)
    BY <1>5 DEF IInv, Agree, Vanishing
  <2>2. CASE s \in Admitted(obs)
    <3>1. /\ s \in DOMAIN obs /\ s \in Seen(obs) /\ s \in DOMAIN cur' /\ cur'[s] = obs[s]
          /\ obs[s].rss \in RSS /\ obs[s].rss \in Nat
      BY <1>1, <2>1, <2>2, Sightings DEF Admitted, Seen
    <3> QED
      BY <1>1, <1>2, <2>1, <3>1 DEF Listed, Unlisted, NextMissing, NextSeenRounds, NextPeak, Greater
  <2>3. CASE s \notin Admitted(obs)
    <3>1. s \notin Seen(obs) /\ s \notin DOMAIN cur' /\ (s \in DOMAIN obs => seenRounds[s] + 1 < MinSeen)
      BY <1>1, <1>2, <1>5, <2>3 DEF Admitted, Seen
    <3> QED
      BY <1>1, <1>2, <1>5, <2>1, <3>1 DEF Unlisted, NextMissing, NextSeenRounds, NextPeak
  <2> QED
    BY <2>2, <2>3
<1> QED
  BY <1>3, <1>4, <1>5

-----------------------------------------------------------------------------
(* The theorem *)

LEMMA Inductive == IInv /\ [Next]_vars => IInv'
<1> SUFFICES ASSUME IInv, [Next]_vars
             PROVE  IInv'
  OBVIOUS
<1>1. CASE UNCHANGED vars
  BY <1>1 DEF vars, IInv, Typed, Agree, Listed, Unlisted
<1>2. ASSUME NEW obs \in Sighting, Update(obs)
      PROVE  IInv'
  <2>1. Agree'
    BY <1>2, UpdateAgrees DEF Agree
  <2> QED
    BY <1>2, <2>1, UpdateTypes DEF IInv
<1> QED
  BY <1>1, <1>2, LoadKeeps, CloseKeeps, StopKeeps, MinuteKeeps DEF Next

LEMMA Implied == IInv => MapsAgree
<1> SUFFICES ASSUME IInv
             PROVE  MapsAgree
  OBVIOUS
<1>1. ASSUME NEW i \in 1..Len(events)
      PROVE  /\ events[i].ts \in 1 .. now
             /\ events[i].kind \in {"up", "down"} \/ events[i].id \in Service
             /\ events[i].kind = "vanish" =>
                   events[i].last \in RSS /\ events[i].peak \in RSS /\ events[i].seenAt \in 1 .. now
  <2>1. events[i] \in Entry(now)
    BY DEF IInv, Typed
  <2> QED
    BY <2>1 DEF Entry
<1>2. TypeOK
  BY <1>1 DEF IInv, Typed, TypeOK
<1>3. DOMAIN cur \subseteq Service
  BY Sightings DEF IInv, Typed
<1> QED
  BY <1>2, <1>3 DEF MapsAgree, IInv, Agree, Listed, Unlisted

\* MapsAgree (servicelog.go, Update) for any services, looks, thresholds and retention,
\* any order of sightings and any number of stops, crashes and restarts.
THEOREM MapsAlwaysAgree == Spec => []MapsAgree
<1>1. Init => IInv
  BY Starts
<1>2. IInv /\ [Next]_vars => IInv'
  BY Inductive
<1>3. IInv => MapsAgree
  BY Implied
<1> QED
  BY <1>1, <1>2, <1>3, PTL DEF Spec
-----------------------------------------------------------------------------
(* The debounce, for a set W of rounds that saw the service *)

\* ListedAfter, as a fact about the rounds that saw the service.
Debounced(W, k) ==
    \E i \in MinSeen..k :
        /\ \A x \in i - MinSeen + 1 .. i : x \in W
        /\ \A j \in i + VanishConfirm .. k : \E x \in j - VanishConfirm + 1 .. j : x \in W

\* Later rounds do not matter.
LEMMA PrefixDecides ==
    ASSUME NEW W, NEW V, NEW k \in Nat, \A x \in 1..k : x \in W <=> x \in V
    PROVE  Debounced(W, k) => Debounced(V, k)
<1>1. MinSeen \in Nat \ {0} /\ VanishConfirm \in Nat \ {0}
  BY ServiceLogAssumption
<1> SUFFICES ASSUME NEW i \in MinSeen..k,
                    \A x \in i - MinSeen + 1 .. i : x \in W,
                    \A j \in i + VanishConfirm .. k : \E x \in j - VanishConfirm + 1 .. j : x \in W
             PROVE  /\ \A x \in i - MinSeen + 1 .. i : x \in V
                    /\ \A j \in i + VanishConfirm .. k : \E x \in j - VanishConfirm + 1 .. j : x \in V
  BY DEF Debounced
<1>2. \A x \in i - MinSeen + 1 .. i : x \in 1..k
  BY <1>1
<1>3. \A j \in i + VanishConfirm .. k : \A x \in j - VanishConfirm + 1 .. j : x \in 1..k
  BY <1>1
<1> QED
  BY <1>2, <1>3

\* A listed service that is seen stays listed.
LEMMA SeenStays ==
    ASSUME NEW W, NEW n \in Nat, Debounced(W, n), n + 1 \in W
    PROVE  Debounced(W, n + 1)
<1>1. MinSeen \in Nat \ {0} /\ VanishConfirm \in Nat \ {0}
  BY ServiceLogAssumption
<1>2. PICK i \in MinSeen..n :
        /\ \A x \in i - MinSeen + 1 .. i : x \in W
        /\ \A j \in i + VanishConfirm .. n : \E x \in j - VanishConfirm + 1 .. j : x \in W
  BY DEF Debounced
<1>3. ASSUME NEW j \in i + VanishConfirm .. n + 1
      PROVE  \E x \in j - VanishConfirm + 1 .. j : x \in W
  <2>1. CASE j = n + 1
    <3>1. n + 1 \in j - VanishConfirm + 1 .. j
      BY <1>1, <2>1
    <3> QED
      BY <3>1
  <2>2. CASE j # n + 1
    <3>1. j \in i + VanishConfirm .. n
      BY <1>1, <2>2
    <3> QED
      BY <1>2, <3>1
  <2> QED
    BY <2>1, <2>2
<1>4. i \in MinSeen..n + 1
  BY <1>1
<1> QED
  BY <1>2, <1>3, <1>4 DEF Debounced

\* A listed service that was last seen m rounds ago, and is missed once more,
\* stays listed exactly while that makes fewer than VanishConfirm rounds.
LEMMA MissedCounts ==
    ASSUME NEW W, NEW n \in Nat, NEW m \in Nat, Debounced(W, n),
           m < n, n - m \in W, \A x \in n - m + 1 .. n + 1 : x \notin W
    PROVE  Debounced(W, n + 1) <=> m + 1 < VanishConfirm
<1>1. MinSeen \in Nat \ {0} /\ VanishConfirm \in Nat \ {0}
  BY ServiceLogAssumption
<1>2. ASSUME m + 1 < VanishConfirm PROVE Debounced(W, n + 1)
  <2>1. PICK i \in MinSeen..n :
          /\ \A x \in i - MinSeen + 1 .. i : x \in W
          /\ \A j \in i + VanishConfirm .. n : \E x \in j - VanishConfirm + 1 .. j : x \in W
    BY DEF Debounced
  <2>2. ASSUME NEW j \in i + VanishConfirm .. n + 1
        PROVE  \E x \in j - VanishConfirm + 1 .. j : x \in W
    <3>1. CASE j = n + 1
      <4>1. n - m \in j - VanishConfirm + 1 .. j
        BY <1>1, <1>2, <3>1
      <4> QED
        BY <4>1
    <3>2. CASE j # n + 1
      <4>1. j \in i + VanishConfirm .. n
        BY <1>1, <3>2
      <4> QED
        BY <2>1, <4>1
    <3> QED
      BY <3>1, <3>2
  <2>3. i \in MinSeen..n + 1
    BY <1>1
  <2> QED
    BY <2>1, <2>2, <2>3 DEF Debounced
<1>3. ASSUME ~(m + 1 < VanishConfirm), Debounced(W, n + 1) PROVE FALSE
  <2>1. PICK i \in MinSeen..n + 1 :
          /\ \A x \in i - MinSeen + 1 .. i : x \in W
          /\ \A j \in i + VanishConfirm .. n + 1 : \E x \in j - VanishConfirm + 1 .. j : x \in W
    BY <1>3 DEF Debounced
  <2>2. i \in W
    <3>1. i \in i - MinSeen + 1 .. i
      BY <1>1
    <3> QED
      BY <2>1, <3>1
  <2>3. i <= n - m
    <3>1. i \notin n - m + 1 .. n + 1
      BY <2>2
    <3> QED
      BY <1>1, <3>1
  <2>4. n + 1 \in i + VanishConfirm .. n + 1
    BY <1>1, <1>3, <2>3
  <2>5. PICK x \in (n + 1) - VanishConfirm + 1 .. n + 1 : x \in W
    BY <2>1, <2>4
  <2>6. x \in n - m + 1 .. n + 1
    BY <1>1, <1>3, <2>5
  <2> QED
    BY <2>5, <2>6
<1> QED
  BY <1>2, <1>3

\* A service that is not listed, seen for the last r rounds and no longer, is
\* listed by one more sighting exactly when that makes MinSeen.
LEMMA SeenCounts ==
    ASSUME NEW W, NEW n \in Nat, NEW r \in Nat, ~Debounced(W, n), r <= n,
           \A x \in n - r + 1 .. n : x \in W, r < n => n - r \notin W, n + 1 \in W
    PROVE  Debounced(W, n + 1) <=> r + 1 >= MinSeen
<1>1. MinSeen \in Nat \ {0} /\ VanishConfirm \in Nat \ {0}
  BY ServiceLogAssumption
<1>2. ASSUME r + 1 >= MinSeen PROVE Debounced(W, n + 1)
  <2>1. \A x \in (n + 1) - MinSeen + 1 .. n + 1 : x \in W
    <3> SUFFICES ASSUME NEW x \in (n + 1) - MinSeen + 1 .. n + 1 PROVE x \in W
      OBVIOUS
    <3>1. x = n + 1 \/ x \in n - r + 1 .. n
      BY <1>1, <1>2
    <3> QED
      BY <3>1
  <2>2. n + 1 \in MinSeen..n + 1
    BY <1>1, <1>2
  <2>3. (n + 1) + VanishConfirm .. n + 1 = {}
    BY <1>1
  <2> QED
    BY <2>1, <2>2, <2>3 DEF Debounced
<1>3. ASSUME ~(r + 1 >= MinSeen), Debounced(W, n + 1) PROVE FALSE
  <2>1. PICK i \in MinSeen..n + 1 :
          /\ \A x \in i - MinSeen + 1 .. i : x \in W
          /\ \A j \in i + VanishConfirm .. n + 1 : \E x \in j - VanishConfirm + 1 .. j : x \in W
    BY <1>3 DEF Debounced
  <2>2. CASE i = n + 1
    <3>1. r < n /\ n - r \in i - MinSeen + 1 .. i
      BY <1>1, <1>3, <2>2
    <3> QED
      BY <2>1, <3>1
  <2>3. CASE i # n + 1
    <3>1. i \in MinSeen..n
      BY <1>1, <2>3
    <3>2. \A j \in i + VanishConfirm .. n : j \in i + VanishConfirm .. n + 1
      BY <1>1
    <3> QED
      BY <2>1, <3>1, <3>2 DEF Debounced
  <2> QED
    BY <2>2, <2>3
<1> QED
  BY <1>2, <1>3

\* A service that is not listed and not seen does not become listed.
LEMMA UnseenStaysOff ==
    ASSUME NEW W, NEW n \in Nat, ~Debounced(W, n), n + 1 \notin W
    PROVE  ~Debounced(W, n + 1)
<1>1. MinSeen \in Nat \ {0} /\ VanishConfirm \in Nat \ {0}
  BY ServiceLogAssumption
<1> SUFFICES ASSUME NEW i \in MinSeen..n + 1,
                    \A x \in i - MinSeen + 1 .. i : x \in W,
                    \A j \in i + VanishConfirm .. n + 1 : \E x \in j - VanishConfirm + 1 .. j : x \in W
             PROVE  FALSE
  BY DEF Debounced
<1>2. i # n + 1
  <2>1. i \in i - MinSeen + 1 .. i
    BY <1>1
  <2> QED
    BY <2>1
<1>3. i \in MinSeen..n /\ \A j \in i + VanishConfirm .. n : j \in i + VanishConfirm .. n + 1
  BY <1>1, <1>2
<1> QED
  BY <1>3 DEF Debounced
-----------------------------------------------------------------------------
(* The counters of the log and the rounds of this life *)

RoundsTyped == rounds \in Seq([t : Nat, obs : Sighting])

SeenRounds(s) == {k \in 1..N : SeenIn(s, k)}

\* The listing of s began in round b, and the peak is its largest size since.
PeakSince(s, b) ==
    /\ b \in SeenRounds(s)
    /\ \A j \in b..N : Debounced(SeenRounds(s), j)
    /\ b > 1 => ~Debounced(SeenRounds(s), b - 1)
    /\ \E j \in b..N : j \in SeenRounds(s) /\ peakRSS[s] = rounds[j].obs[s].rss
    /\ \A j \in b..N : j \in SeenRounds(s) => rounds[j].obs[s].rss <= peakRSS[s]

\* A listed service was last seen missing[s] rounds ago, as the maps have it.
ListedCounts(s) ==
    LET k == N - missing[s]
    IN  /\ Debounced(SeenRounds(s), N)
        /\ missing[s] < N /\ k \in SeenRounds(s)
        /\ \A x \in k + 1 .. N : x \notin SeenRounds(s)
        /\ cur[s] = rounds[k].obs[s] /\ lastSeen[s] = rounds[k].t
        /\ \E b \in 1..N : PeakSince(s, b)

\* An unlisted service was seen in exactly the last seenRounds[s] rounds.
UnlistedCounts(s) ==
    /\ ~Debounced(SeenRounds(s), N)
    /\ seenRounds[s] <= N
    /\ \A x \in N - seenRounds[s] + 1 .. N : x \in SeenRounds(s)
    /\ seenRounds[s] < N => N - seenRounds[s] \notin SeenRounds(s)

Counted(s) == IF s \in DOMAIN cur THEN ListedCounts(s) ELSE UnlistedCounts(s)

CountInv == RoundsTyped /\ (Running => \A s \in Service : Counted(s))

\* A round that saw s saw how it looked.
LEMMA SeenLooks ==
    ASSUME RoundsTyped, NEW s, NEW j \in SeenRounds(s)
    PROVE  /\ s \in DOMAIN rounds[j].obs /\ rounds[j].obs \in Sighting
           /\ rounds[j].obs[s].rss \in Nat
<1>1. j \in 1..Len(rounds) /\ s \in DOMAIN rounds[j].obs
  BY DEF SeenRounds, SeenIn, N
<1>2. rounds[j] \in [t : Nat, obs : Sighting]
  BY <1>1, ElementOfSeq DEF RoundsTyped
<1>3. rounds[j].obs \in Sighting
  BY <1>2
<1> QED
  BY <1>1, <1>3, Sightings

\* One more round: who was seen before is unchanged.
LEMMA OneMoreRound ==
    ASSUME RoundsTyped, NEW saw \in Sighting, NEW s \in Service, NEW n \in Nat, n = N, now \in Nat,
           rounds' = Append(rounds, [t |-> now, obs |-> saw])
    PROVE  /\ N' = n + 1 /\ RoundsTyped'
           /\ \A x \in 1..n : rounds'[x] = rounds[x]
           /\ rounds'[n + 1] = [t |-> now, obs |-> saw]
           /\ \A x \in 1..n : x \in SeenRounds(s)' <=> x \in SeenRounds(s)
           /\ n + 1 \in SeenRounds(s)' <=> s \in DOMAIN saw
           /\ SeenRounds(s) \subseteq 1..n /\ SeenRounds(s)' \subseteq 1..n + 1
           /\ \A k \in 0..n : Debounced(SeenRounds(s)', k) <=> Debounced(SeenRounds(s), k)
<1> DEFINE p == Append(rounds, [t |-> now, obs |-> saw])
           R == [t : Nat, obs : Sighting]
<1>1. [t |-> now, obs |-> saw] \in R
  OBVIOUS
<1>2. /\ p \in Seq(R) /\ Len(p) = n + 1 /\ p[n + 1] = [t |-> now, obs |-> saw]
      /\ \A x \in 1..n : p[x] = rounds[x]
  BY <1>1 DEF RoundsTyped, N
<1>3. /\ N' = n + 1 /\ RoundsTyped' /\ rounds'[n + 1] = [t |-> now, obs |-> saw]
      /\ \A x \in 1..n : rounds'[x] = rounds[x]
  BY <1>2 DEF N, RoundsTyped
<1> HIDE DEF p, R
<1>4. /\ SeenRounds(s) = {x \in 1..n : s \in DOMAIN rounds[x].obs}
      /\ SeenRounds(s)' = {x \in 1..n + 1 : s \in DOMAIN rounds'[x].obs}
  BY <1>3 DEF SeenRounds, SeenIn
<1>5. /\ \A x \in 1..n : x \in SeenRounds(s)' <=> x \in SeenRounds(s)
      /\ n + 1 \in SeenRounds(s)' <=> s \in DOMAIN saw
  <2>1. n + 1 \in 1..n + 1 /\ \A x \in 1..n : x \in 1..n + 1
    OBVIOUS
  <2>2. rounds'[n + 1].obs = saw
    <3>1. rounds'[n + 1] = [t |-> now, obs |-> saw]
      BY <1>3
    <3>2. [t |-> now, obs |-> saw].obs = saw
      OBVIOUS
    <3> QED
      BY <3>1, <3>2, Zenon
  <2>3. n + 1 \in SeenRounds(s)' <=> s \in DOMAIN saw
    BY <1>4, <2>1, <2>2, Zenon
  <2>4. ASSUME NEW x \in 1..n
        PROVE  x \in SeenRounds(s)' <=> x \in SeenRounds(s)
    <3>1. rounds'[x] = rounds[x]
      BY <1>3
    <3> QED
      BY <1>4, <2>1, <3>1, Zenon
  <2> QED
    BY <2>3, <2>4
<1>6. SeenRounds(s) \subseteq 1..n /\ SeenRounds(s)' \subseteq 1..n + 1
  BY <1>4
<1>7. ASSUME NEW k \in 0..n
      PROVE  Debounced(SeenRounds(s)', k) <=> Debounced(SeenRounds(s), k)
  <2>1. k \in Nat /\ \A x \in 1..k : x \in SeenRounds(s)' <=> x \in SeenRounds(s)
    BY <1>5
  <2> DEFINE W == SeenRounds(s)
             V == SeenRounds(s)'
  <2>2. \A x \in 1..k : x \in V <=> x \in W
    BY <2>1
  <2> HIDE DEF W, V
  <2>3. Debounced(V, k) => Debounced(W, k)
    BY <2>1, <2>2, PrefixDecides
  <2>4. Debounced(W, k) => Debounced(V, k)
    BY <2>1, <2>2, PrefixDecides
  <2> QED
    BY <2>3, <2>4 DEF W, V
<1> QED
  BY <1>3, <1>5, <1>6, <1>7

\* What a round does to the maps of one service.
LEMMA UpdateOf ==
    ASSUME IInv, NEW obs \in Sighting, Update(obs), NEW s \in Service
    PROVE  /\ missing'[s] = NextMissing(obs)[s] /\ seenRounds'[s] = NextSeenRounds(obs)[s]
           /\ peakRSS'[s] = NextPeak(obs)[s]
           /\ lastSeen'[s] = IF s \in Vanishing(obs) THEN 0 ELSE IF s \in Seen(obs) THEN now ELSE lastSeen[s]
           /\ DOMAIN cur' = (DOMAIN cur \union Admitted(obs)) \ Vanishing(obs)
           /\ s \in DOMAIN cur' => cur'[s] = IF s \in DOMAIN obs THEN obs[s] ELSE cur[s]
           /\ missing[s] \in Nat /\ seenRounds[s] \in Nat /\ peakRSS[s] \in Nat /\ now \in Nat
           /\ phase' = phase /\ phase # "off"
           /\ s \in DOMAIN cur => Listed(s)
           /\ s \notin DOMAIN cur => Unlisted(s)
           /\ s \in DOMAIN obs => obs[s].rss \in Nat \ {0}
<1>1. s \in DOMAIN obs => obs[s].rss \in Nat \ {0}
  BY Sightings
<1> QED
  BY <1>1 DEF Update, IInv, Typed, Agree
\* The facts a round step rests on, with the new round spelled out.
LEMMA RoundFacts ==
    ASSUME IInv, CountInv, NEW saw \in Sighting, HUpdate(saw), NEW s \in Service, NEW n \in Nat, n = N
    PROVE  /\ N' = n + 1 /\ RoundsTyped'
           /\ \A x \in 1..n : rounds'[x] = rounds[x]
           /\ rounds'[n + 1].obs = saw /\ rounds'[n + 1].t = now
           /\ \A x \in 1..n : x \in SeenRounds(s)' <=> x \in SeenRounds(s)
           /\ n + 1 \in SeenRounds(s)' <=> s \in DOMAIN saw
           /\ SeenRounds(s) \subseteq 1..n /\ SeenRounds(s)' \subseteq 1..n + 1
           /\ \A k \in 0..n : Debounced(SeenRounds(s)', k) <=> Debounced(SeenRounds(s), k)
           /\ Counted(s)
<1>1. /\ rounds' = Append(rounds, [t |-> now, obs |-> saw]) /\ phase # "off" /\ now \in Nat
      /\ RoundsTyped
  BY DEF HUpdate, Update, IInv, Typed, CountInv
<1>2. Counted(s)
  BY <1>1 DEF CountInv, Running
<1>3. /\ N' = n + 1 /\ RoundsTyped'
      /\ \A x \in 1..n : rounds'[x] = rounds[x]
      /\ rounds'[n + 1] = [t |-> now, obs |-> saw]
      /\ \A x \in 1..n : x \in SeenRounds(s)' <=> x \in SeenRounds(s)
      /\ n + 1 \in SeenRounds(s)' <=> s \in DOMAIN saw
      /\ SeenRounds(s) \subseteq 1..n /\ SeenRounds(s)' \subseteq 1..n + 1
      /\ \A k \in 0..n : Debounced(SeenRounds(s)', k) <=> Debounced(SeenRounds(s), k)
  BY <1>1, OneMoreRound, Zenon
<1>4. [t |-> now, obs |-> saw].obs = saw /\ [t |-> now, obs |-> saw].t = now
  OBVIOUS
<1>5. rounds'[n + 1].obs = saw /\ rounds'[n + 1].t = now
  BY <1>3, <1>4, Zenon
<1> QED
  BY <1>2, <1>3, <1>5, Zenon

\* servicelog.go, Update: a listed service that the round saw.
LEMMA ListedIsSeen ==
    ASSUME IInv, CountInv, NEW saw \in Sighting, HUpdate(saw), NEW s \in Service,
           s \in DOMAIN cur, s \in DOMAIN saw
    PROVE  Counted(s)'
<1> DEFINE W == SeenRounds(s)
           V == SeenRounds(s)'
<1>1. PICK n \in Nat : n = N
  BY DEF CountInv, RoundsTyped, N
<1>2. Update(saw)
  BY DEF HUpdate
<1>3. s \in Seen(saw) /\ s \notin Vanishing(saw)
  BY DEF Seen, Vanishing
<1>4. /\ missing'[s] = 0 /\ peakRSS'[s] = Greater(peakRSS[s], saw[s].rss) /\ lastSeen'[s] = now
      /\ s \in DOMAIN cur' /\ cur'[s] = saw[s]
      /\ peakRSS[s] \in Nat /\ saw[s].rss \in Nat
  BY <1>2, <1>3, UpdateOf DEF NextMissing, NextPeak
<1>5. /\ N' = n + 1 /\ \A x \in 1..n : rounds'[x] = rounds[x]
      /\ rounds'[n + 1].obs = saw /\ rounds'[n + 1].t = now
      /\ \A x \in 1..n : x \in V <=> x \in W
      /\ n + 1 \in V /\ W \subseteq 1..n /\ V \subseteq 1..n + 1
      /\ \A k \in 0..n : Debounced(V, k) <=> Debounced(W, k)
  BY <1>1, RoundFacts
<1>6. ListedCounts(s)
  BY <1>1, RoundFacts DEF Counted
<1>7. Debounced(W, n)
  BY <1>1, <1>6 DEF ListedCounts
<1> HIDE DEF W, V
<1>8. Debounced(V, n + 1)
  BY <1>5, <1>7, SeenStays
<1>9. PICK b \in 1..N : PeakSince(s, b)
  BY <1>6 DEF ListedCounts
<1>10. /\ b \in 1..n /\ b \in W
       /\ \A j \in b..n : Debounced(W, j)
       /\ b > 1 => ~Debounced(W, b - 1)
       /\ \E j \in b..n : j \in W /\ peakRSS[s] = rounds[j].obs[s].rss
       /\ \A j \in b..n : j \in W => rounds[j].obs[s].rss <= peakRSS[s]
  BY <1>1, <1>9 DEF PeakSince, W
<1>11. PeakSince(s, b)'
  <2>1. b \in V /\ (b > 1 => ~Debounced(V, b - 1))
    BY <1>5, <1>10
  <2>2. \A j \in b..n + 1 : Debounced(V, j)
    <3> SUFFICES ASSUME NEW j \in b..n + 1 PROVE Debounced(V, j)
      OBVIOUS
    <3>1. CASE j = n + 1
      BY <1>8, <3>1
    <3>2. CASE j # n + 1
      BY <1>5, <1>10, <3>2
    <3> QED
      BY <3>1, <3>2
  <2>3. \E j \in b..n + 1 : j \in V /\ peakRSS'[s] = rounds'[j].obs[s].rss
    <3>1. CASE peakRSS[s] > saw[s].rss
      <4>1. PICK j \in b..n : j \in W /\ peakRSS[s] = rounds[j].obs[s].rss
        BY <1>10
      <4>2. j \in b..n + 1 /\ j \in V /\ rounds'[j] = rounds[j]
        BY <1>5, <1>10, <4>1
      <4>3. peakRSS'[s] = rounds'[j].obs[s].rss
        BY <1>4, <3>1, <4>1, <4>2 DEF Greater
      <4> QED
        BY <4>2, <4>3
    <3>2. CASE ~(peakRSS[s] > saw[s].rss)
      <4>1. n + 1 \in b..n + 1
        BY <1>10
      <4>2. peakRSS'[s] = rounds'[n + 1].obs[s].rss
        BY <1>4, <1>5, <3>2 DEF Greater
      <4> QED
        BY <1>5, <4>1, <4>2
    <3> QED
      BY <3>1, <3>2
  <2>4. ASSUME NEW j \in b..n + 1, j \in V
        PROVE  rounds'[j].obs[s].rss <= peakRSS'[s]
    <3>1. peakRSS'[s] >= peakRSS[s] /\ peakRSS'[s] >= saw[s].rss /\ peakRSS'[s] \in Nat
      BY <1>4 DEF Greater
    <3>2. CASE j = n + 1
      BY <1>4, <1>5, <3>1, <3>2
    <3>3. CASE j # n + 1
      <4>1. j \in b..n /\ j \in W /\ rounds'[j] = rounds[j]
        BY <1>5, <1>10, <2>4, <3>3
      <4>2. PICK x \in Nat : x = rounds[j].obs[s].rss
        BY <4>1, SeenLooks DEF W, CountInv
      <4>3. x <= peakRSS[s]
        BY <1>10, <4>1, <4>2
      <4>4. x <= peakRSS'[s]
        BY <1>4, <3>1, <4>3
      <4> QED
        BY <4>1, <4>2, <4>4
    <3> QED
      BY <3>2, <3>3
  <2> QED
    BY <1>5, <2>1, <2>2, <2>3, <2>4 DEF PeakSince, V
<1>12. ListedCounts(s)'
  <2>1. N' - missing'[s] = n + 1 /\ missing'[s] < N' /\ b \in 1..N'
    BY <1>4, <1>5, <1>10
  <2>2. \A x \in n + 2 .. N' : x \notin V
    BY <1>5
  <2> QED
    BY <1>4, <1>5, <1>8, <1>11, <2>1, <2>2 DEF ListedCounts, V
<1> QED
  BY <1>4, <1>12 DEF Counted
\* servicelog.go, Update: a listed service that the round missed, too few times yet.
LEMMA ListedIsMissed ==
    ASSUME IInv, CountInv, NEW saw \in Sighting, HUpdate(saw), NEW s \in Service,
           s \in DOMAIN cur, s \notin DOMAIN saw, s \notin Vanishing(saw)
    PROVE  Counted(s)'
<1> DEFINE W == SeenRounds(s)
           V == SeenRounds(s)'
           m == missing[s]
<1>1. PICK n \in Nat : n = N
  BY DEF CountInv, RoundsTyped, N
<1>2. Update(saw)
  BY DEF HUpdate
<1>3. s \notin Seen(saw) /\ s \notin Admitted(saw)
  BY DEF Seen, Admitted
<1>4. /\ missing'[s] = m + 1 /\ peakRSS'[s] = peakRSS[s] /\ lastSeen'[s] = lastSeen[s]
      /\ s \in DOMAIN cur' /\ cur'[s] = cur[s] /\ m \in Nat /\ m + 1 < VanishConfirm
  <2>1. VanishConfirm \in Nat /\ m \in Nat /\ ~(m + 1 >= VanishConfirm)
    BY <1>2, UpdateOf, ServiceLogAssumption DEF Vanishing
  <2>2. /\ missing'[s] = NextMissing(saw)[s] /\ peakRSS'[s] = NextPeak(saw)[s]
        /\ lastSeen'[s] = lastSeen[s]
        /\ s \in DOMAIN cur' /\ cur'[s] = cur[s]
    BY <1>2, <1>3, UpdateOf
  <2>3. NextMissing(saw)[s] = m + 1 /\ NextPeak(saw)[s] = peakRSS[s]
    BY <1>3 DEF NextMissing, NextPeak
  <2> QED
    BY <2>1, <2>2, <2>3
<1>5. /\ N' = n + 1 /\ \A x \in 1..n : rounds'[x] = rounds[x]
      /\ \A x \in 1..n : x \in V <=> x \in W
      /\ n + 1 \notin V /\ W \subseteq 1..n /\ V \subseteq 1..n + 1
      /\ \A k \in 0..n : Debounced(V, k) <=> Debounced(W, k)
  BY <1>1, RoundFacts
<1>6. ListedCounts(s)
  BY <1>1, RoundFacts DEF Counted
<1>7. /\ Debounced(W, n) /\ m < n /\ n - m \in W
      /\ \A x \in n - m + 1 .. n : x \notin W
      /\ cur[s] = rounds[n - m].obs[s] /\ lastSeen[s] = rounds[n - m].t
  BY <1>1, <1>6 DEF ListedCounts
<1> HIDE DEF W, V, m
<1>8. Debounced(V, n + 1)
  <2>1. n - m \in V /\ \A x \in n - m + 1 .. n + 1 : x \notin V
    BY <1>4, <1>5, <1>7
  <2>2. Debounced(V, n)
    BY <1>5, <1>7
  <2> QED
    BY <1>4, <1>7, <2>1, <2>2, MissedCounts
<1>9. PICK b \in 1..N : PeakSince(s, b)
  BY <1>6 DEF ListedCounts
<1>10. /\ b \in 1..n /\ b \in W
       /\ \A j \in b..n : Debounced(W, j)
       /\ b > 1 => ~Debounced(W, b - 1)
       /\ \E j \in b..n : j \in W /\ peakRSS[s] = rounds[j].obs[s].rss
       /\ \A j \in b..n : j \in W => rounds[j].obs[s].rss <= peakRSS[s]
  BY <1>1, <1>9 DEF PeakSince, W
<1>11. PeakSince(s, b)'
  <2>1. b \in V /\ (b > 1 => ~Debounced(V, b - 1))
    BY <1>5, <1>10
  <2>2. \A j \in b..n + 1 : Debounced(V, j)
    <3> SUFFICES ASSUME NEW j \in b..n + 1 PROVE Debounced(V, j)
      OBVIOUS
    <3>1. CASE j = n + 1
      BY <1>8, <3>1
    <3>2. CASE j # n + 1
      BY <1>5, <1>10, <3>2
    <3> QED
      BY <3>1, <3>2
  <2>3. \E j \in b..n + 1 : j \in V /\ peakRSS'[s] = rounds'[j].obs[s].rss
    <3>1. PICK j \in b..n : j \in W /\ peakRSS[s] = rounds[j].obs[s].rss
      BY <1>10
    <3>2. j \in b..n + 1 /\ j \in V /\ rounds'[j] = rounds[j]
      BY <1>5, <1>10, <3>1
    <3> QED
      BY <1>4, <3>1, <3>2
  <2>4. ASSUME NEW j \in b..n + 1, j \in V
        PROVE  rounds'[j].obs[s].rss <= peakRSS'[s]
    <3>1. j \in b..n /\ j \in W /\ rounds'[j] = rounds[j]
      BY <1>5, <1>10, <2>4
    <3> QED
      BY <1>4, <1>10, <3>1
  <2> QED
    BY <1>5, <2>1, <2>2, <2>3, <2>4 DEF PeakSince, V
<1>12. ListedCounts(s)'
  <2>1. N' - missing'[s] = n - m /\ missing'[s] < N' /\ b \in 1..N'
    BY <1>4, <1>5, <1>7, <1>10
  <2>2. \A x \in n - m + 1 .. N' : x \notin V
    BY <1>4, <1>5, <1>7
  <2>3. n - m \in V /\ rounds'[n - m] = rounds[n - m]
    BY <1>4, <1>5, <1>7
  <2>4. cur'[s] = rounds'[n - m].obs[s] /\ lastSeen'[s] = rounds'[n - m].t
    BY <1>4, <1>7, <2>3
  <2> QED
    BY <1>5, <1>8, <1>11, <2>1, <2>2, <2>3, <2>4 DEF ListedCounts, V
<1> QED
  BY <1>4, <1>12 DEF Counted

\* servicelog.go, Update: a listed service that the round missed once too often.
LEMMA ListedVanishes ==
    ASSUME IInv, CountInv, NEW saw \in Sighting, HUpdate(saw), NEW s \in Service,
           s \in Vanishing(saw)
    PROVE  Counted(s)'
<1> DEFINE W == SeenRounds(s)
           V == SeenRounds(s)'
           m == missing[s]
<1>1. PICK n \in Nat : n = N
  BY DEF CountInv, RoundsTyped, N
<1>2. Update(saw)
  BY DEF HUpdate
<1>3. s \in DOMAIN cur /\ s \notin DOMAIN saw
  BY DEF Vanishing
<1>4. /\ seenRounds'[s] = 0 /\ s \notin DOMAIN cur' /\ m \in Nat /\ ~(m + 1 < VanishConfirm)
  <2>1. VanishConfirm \in Nat /\ m \in Nat /\ m + 1 >= VanishConfirm
    BY <1>2, UpdateOf, ServiceLogAssumption DEF Vanishing
  <2>2. seenRounds'[s] = NextSeenRounds(saw)[s] /\ s \notin DOMAIN cur'
    BY <1>2, UpdateOf
  <2>3. NextSeenRounds(saw)[s] = 0
    BY <1>3 DEF NextSeenRounds
  <2> QED
    BY <2>1, <2>2, <2>3
<1>5. /\ N' = n + 1
      /\ \A x \in 1..n : x \in V <=> x \in W
      /\ n + 1 \notin V /\ W \subseteq 1..n
      /\ \A k \in 0..n : Debounced(V, k) <=> Debounced(W, k)
  BY <1>1, <1>3, RoundFacts
<1>6. /\ Debounced(W, n) /\ m < n /\ n - m \in W
      /\ \A x \in n - m + 1 .. n : x \notin W
  BY <1>1, <1>3, RoundFacts DEF Counted, ListedCounts
<1> HIDE DEF W, V, m
<1>7. ~Debounced(V, n + 1)
  <2>1. n - m \in V /\ \A x \in n - m + 1 .. n + 1 : x \notin V
    BY <1>4, <1>5, <1>6
  <2>2. Debounced(V, n)
    BY <1>5, <1>6
  <2> QED
    BY <1>4, <1>6, <2>1, <2>2, MissedCounts
<1>8. UnlistedCounts(s)'
  BY <1>4, <1>5, <1>7 DEF UnlistedCounts, V
<1> QED
  BY <1>4, <1>8 DEF Counted

\* servicelog.go, Update: an unlisted service that the round lists.
LEMMA UnlistedIsAdmitted ==
    ASSUME IInv, CountInv, NEW saw \in Sighting, HUpdate(saw), NEW s \in Service,
           s \in Admitted(saw)
    PROVE  Counted(s)'
<1> DEFINE W == SeenRounds(s)
           V == SeenRounds(s)'
           r == seenRounds[s]
<1>1. PICK n \in Nat : n = N
  BY DEF CountInv, RoundsTyped, N
<1>2. Update(saw)
  BY DEF HUpdate
<1>3. /\ s \notin DOMAIN cur /\ s \in DOMAIN saw /\ r + 1 >= MinSeen
      /\ s \in Seen(saw) /\ s \notin Vanishing(saw)
  BY DEF Admitted, Seen, Vanishing
<1>4. /\ missing'[s] = 0 /\ lastSeen'[s] = now /\ peakRSS'[s] = saw[s].rss
      /\ s \in DOMAIN cur' /\ cur'[s] = saw[s] /\ r \in Nat /\ saw[s].rss \in Nat
  <2>1. peakRSS[s] = 0 /\ saw[s].rss \in Nat \ {0} /\ r \in Nat
    BY <1>2, <1>3, UpdateOf DEF Unlisted
  <2>2. /\ missing'[s] = NextMissing(saw)[s] /\ peakRSS'[s] = NextPeak(saw)[s]
        /\ lastSeen'[s] = now /\ s \in DOMAIN cur' /\ cur'[s] = saw[s]
    BY <1>2, <1>3, UpdateOf
  <2>3. NextMissing(saw)[s] = 0 /\ NextPeak(saw)[s] = saw[s].rss
    BY <1>3, <2>1 DEF NextMissing, NextPeak, Greater
  <2> QED
    BY <2>1, <2>2, <2>3
<1>5. /\ N' = n + 1
      /\ rounds'[n + 1].obs = saw /\ rounds'[n + 1].t = now
      /\ \A x \in 1..n : x \in V <=> x \in W
      /\ n + 1 \in V /\ W \subseteq 1..n /\ V \subseteq 1..n + 1
      /\ \A k \in 0..n : Debounced(V, k) <=> Debounced(W, k)
  BY <1>1, <1>3, RoundFacts
<1>6. /\ ~Debounced(W, n) /\ r <= n
      /\ \A x \in n - r + 1 .. n : x \in W
      /\ r < n => n - r \notin W
  BY <1>1, <1>3, RoundFacts DEF Counted, UnlistedCounts
<1> HIDE DEF W, V, r
<1>7. ~Debounced(V, n)
  BY <1>5, <1>6
<1>8. Debounced(V, n + 1)
  <2>1. /\ \A x \in n - r + 1 .. n : x \in V
        /\ r < n => n - r \notin V
    BY <1>4, <1>5, <1>6
  <2> QED
    BY <1>3, <1>4, <1>5, <1>6, <1>7, <2>1, SeenCounts
<1>9. PeakSince(s, n + 1)'
  <2>1. n + 1 > 1 => ~Debounced(V, n)
    BY <1>7
  <2>2. \A j \in n + 1 .. n + 1 : j = n + 1
    OBVIOUS
  <2>3. /\ n + 1 \in n + 1 .. n + 1 /\ peakRSS'[s] = rounds'[n + 1].obs[s].rss
        /\ rounds'[n + 1].obs[s].rss <= peakRSS'[s]
    BY <1>4, <1>5
  <2>4. \A j \in n + 1 .. n + 1 : Debounced(V, j) /\ rounds'[j].obs[s].rss <= peakRSS'[s]
    BY <1>8, <2>2, <2>3
  <2>5. (n + 1) - 1 = n
    OBVIOUS
  <2> QED
    BY <1>5, <2>1, <2>3, <2>4, <2>5 DEF PeakSince, V
<1>10. ListedCounts(s)'
  <2>1. N' - missing'[s] = n + 1 /\ missing'[s] < N' /\ n + 1 \in 1..N'
    BY <1>4, <1>5
  <2>2. \A x \in n + 2 .. N' : x \notin V
    BY <1>5
  <2> QED
    BY <1>4, <1>5, <1>8, <1>9, <2>1, <2>2 DEF ListedCounts, V
<1> QED
  BY <1>4, <1>10 DEF Counted

\* servicelog.go, Update: an unlisted service that stays unlisted.
LEMMA UnlistedStays ==
    ASSUME IInv, CountInv, NEW saw \in Sighting, HUpdate(saw), NEW s \in Service,
           s \notin DOMAIN cur, s \notin Admitted(saw)
    PROVE  Counted(s)'
<1> DEFINE W == SeenRounds(s)
           V == SeenRounds(s)'
           r == seenRounds[s]
<1>1. PICK n \in Nat : n = N
  BY DEF CountInv, RoundsTyped, N
<1>2. Update(saw)
  BY DEF HUpdate
<1>3. /\ s \notin DOMAIN cur' /\ r \in Nat
      /\ seenRounds'[s] = IF s \in DOMAIN saw THEN r + 1 ELSE 0
  BY <1>2, UpdateOf DEF NextSeenRounds
<1>4. s \in DOMAIN saw => ~(r + 1 >= MinSeen)
  BY DEF Admitted
<1>5. /\ N' = n + 1
      /\ \A x \in 1..n : x \in V <=> x \in W
      /\ n + 1 \in V <=> s \in DOMAIN saw
      /\ W \subseteq 1..n
      /\ \A k \in 0..n : Debounced(V, k) <=> Debounced(W, k)
  BY <1>1, RoundFacts
<1>6. /\ ~Debounced(W, n) /\ r <= n
      /\ \A x \in n - r + 1 .. n : x \in W
      /\ r < n => n - r \notin W
  BY <1>1, RoundFacts DEF Counted, UnlistedCounts
<1> HIDE DEF W, V, r
<1>7. ~Debounced(V, n)
  BY <1>5, <1>6
<1>8. CASE s \in DOMAIN saw
  <2>1. /\ \A x \in n - r + 1 .. n : x \in V
        /\ r < n => n - r \notin V
    BY <1>3, <1>5, <1>6
  <2>2. ~Debounced(V, n + 1)
    BY <1>3, <1>4, <1>5, <1>6, <1>7, <1>8, <2>1, SeenCounts
  <2>3. \A x \in n - r + 1 .. n + 1 : x \in V
    BY <1>3, <1>5, <1>8, <2>1
  <2>4. N' - seenRounds'[s] = n - r /\ seenRounds'[s] <= N' /\ (seenRounds'[s] < N' <=> r < n)
    BY <1>3, <1>5, <1>6, <1>8
  <2> QED
    BY <1>3, <1>5, <2>1, <2>2, <2>3, <2>4 DEF Counted, UnlistedCounts, V
<1>9. CASE s \notin DOMAIN saw
  <2>1. ~Debounced(V, n + 1) /\ n + 1 \notin V
    BY <1>5, <1>7, <1>9, UnseenStaysOff
  <2> QED
    BY <1>3, <1>5, <1>9, <2>1 DEF Counted, UnlistedCounts, V
<1> QED
  BY <1>8, <1>9
-----------------------------------------------------------------------------
(* The list is what the rounds of this life say, in every state *)

\* servicelog.go, Update: each service is counted through a round.
LEMMA RoundCounts ==
    ASSUME IInv, CountInv, NEW saw \in Sighting, HUpdate(saw)
    PROVE  CountInv'
<1>1. PICK n \in Nat : n = N
  BY DEF CountInv, RoundsTyped, N
<1>2. ASSUME NEW s \in Service PROVE Counted(s)'
  <2>1. s \in Vanishing(saw) => s \in DOMAIN cur
    BY DEF Vanishing
  <2>2. s \in Admitted(saw) => s \notin DOMAIN cur
    BY DEF Admitted
  <2> QED
    BY <2>1, <2>2, ListedIsSeen, ListedIsMissed, ListedVanishes, UnlistedIsAdmitted, UnlistedStays
<1>3. RoundsTyped'
  <2>1. Append(rounds, [t |-> now, obs |-> saw]) \in Seq([t : Nat, obs : Sighting])
    <3>1. [t |-> now, obs |-> saw] \in [t : Nat, obs : Sighting]
      BY DEF IInv, Typed
    <3> QED
      BY <3>1, AppendProperties DEF CountInv, RoundsTyped
  <2> QED
    BY <2>1, Zenon DEF HUpdate, RoundsTyped
<1> QED
  BY <1>2, <1>3 DEF CountInv

\* main.go: a life starts without rounds, with empty maps.
LEMMA LoadCounts ==
    ASSUME Load, rounds' = <<>>
    PROVE  CountInv'
<1>1. N' = 0 /\ RoundsTyped'
  BY DEF N, RoundsTyped
<1>2. ASSUME NEW s \in Service PROVE Counted(s)'
  <2>1. s \notin DOMAIN cur' /\ seenRounds'[s] = 0
    BY NobodySeen DEF Load, Zeros
  <2>2. ~Debounced(SeenRounds(s)', 0)
    BY ServiceLogAssumption DEF Debounced
  <2> QED
    BY <1>1, <2>1, <2>2 DEF Counted, UnlistedCounts
<1> QED
  BY <1>1, <1>2 DEF CountInv

\* Stops, crashes and the clock leave the maps and the rounds alone.
LEMMA OthersCount ==
    ASSUME CountInv, UNCHANGED <<rounds, cur, missing, seenRounds, peakRSS, lastSeen>>,
           Running' => Running
    PROVE  CountInv'
<1>1. N' = N /\ RoundsTyped'
  BY DEF N, CountInv, RoundsTyped
<1>2. ASSUME NEW s \in Service, Counted(s) PROVE Counted(s)'
  <2>1. SeenRounds(s)' = SeenRounds(s)
    BY <1>1 DEF SeenRounds, SeenIn
  <2>2. \A b \in 1..N : PeakSince(s, b) => PeakSince(s, b)'
    BY <1>1, <2>1 DEF PeakSince
  <2> QED
    BY <1>1, <1>2, <2>1, <2>2 DEF Counted, ListedCounts, UnlistedCounts
<1> QED
  BY <1>1, <1>2 DEF CountInv

LEMMA CountsKept == IInv /\ CountInv /\ [HNext]_hvars => CountInv'
<1> SUFFICES ASSUME IInv, CountInv, [HNext]_hvars PROVE CountInv'
  OBVIOUS
<1>1. CASE \E saw \in Sighting : HUpdate(saw)
  BY <1>1, RoundCounts
<1>2. CASE Load /\ rounds' = <<>>
  BY <1>2, LoadCounts
<1>3. CASE (Close \/ Exit \/ Crash \/ Minute) /\ UNCHANGED rounds
  BY <1>3, OthersCount DEF Close, Exit, Crash, Minute, Running
<1>4. CASE UNCHANGED hvars
  BY <1>4, OthersCount DEF hvars, vars, Running
<1> QED
  BY <1>1, <1>2, <1>3, <1>4 DEF HNext

LEMMA HistoryHolds == HSpec => [](IInv /\ CountInv)
<1>1. HInit => IInv /\ CountInv
  BY Starts DEF HInit, Init, CountInv, Running, RoundsTyped
<1>2. [HNext]_hvars => [Next]_vars
  BY DEF HNext, HUpdate, hvars, Next
<1>3. IInv /\ CountInv /\ [HNext]_hvars => (IInv /\ CountInv)'
  BY <1>2, Inductive, CountsKept
<1> QED
  BY <1>1, <1>3, PTL DEF HSpec

\* A service is listed after a round as its sightings up to then say.
LEMMA ListedIsDebounced ==
    ASSUME RoundsTyped, NEW s, NEW k \in 0..N
    PROVE  ListedAfter(s, k) <=> Debounced(SeenRounds(s), k)
<1>1. N \in Nat /\ MinSeen \in Nat \ {0} /\ VanishConfirm \in Nat \ {0}
  BY ServiceLogAssumption DEF RoundsTyped, N
<1>2. ASSUME NEW i \in MinSeen..k
      PROVE  /\ AllSeen(s, i - MinSeen + 1, i) <=>
                   \A x \in i - MinSeen + 1 .. i : x \in SeenRounds(s)
             /\ \A j \in i + VanishConfirm .. k :
                   ~NoneSeen(s, j - VanishConfirm + 1, j) <=>
                     \E x \in j - VanishConfirm + 1 .. j : x \in SeenRounds(s)
  <2>1. \A x \in i - MinSeen + 1 .. i : x \in 1..N
    BY <1>1
  <2>2. \A j \in i + VanishConfirm .. k : \A x \in j - VanishConfirm + 1 .. j : x \in 1..N
    BY <1>1
  <2> QED
    BY <2>1, <2>2 DEF AllSeen, NoneSeen, SeenRounds
<1> QED
  BY <1>2 DEF ListedAfter, Debounced

\* servicelog.go, Update: for any services, looks, thresholds and pattern of sightings,
\* through stops, crashes and restarts, the list is exactly the debounced sightings.
THEOREM ListIsDebounced == HSpec => []DebounceExact
<1>1. IInv /\ CountInv => DebounceExact
  <2> SUFFICES ASSUME CountInv, Running, NEW s \in Service
               PROVE  s \in DOMAIN cur <=> ListedAfter(s, N)
    BY DEF DebounceExact
  <2>1. N \in 0..N /\ RoundsTyped /\ Counted(s)
    BY DEF CountInv, RoundsTyped, N
  <2>2. ListedAfter(s, N) <=> Debounced(SeenRounds(s), N)
    BY <2>1, ListedIsDebounced
  <2> QED
    BY <2>1, <2>2 DEF Counted, ListedCounts, UnlistedCounts
<1> QED
  BY <1>1, HistoryHolds, PTL
-----------------------------------------------------------------------------
(* Last words *)

LEMMA ConcatRight ==
    ASSUME NEW S, NEW a \in Seq(S), NEW b \in Seq(S), NEW i \in 1..Len(b)
    PROVE  Len(a) + i \in 1..Len(a \o b) /\ (a \o b)[Len(a) + i] = b[i]
OBVIOUS

\* servicelog.go, Update: the log keeps the last words of what it has just dropped.
LEMMA WordsAreKept ==
    ASSUME IInv, NEW saw \in Sighting, Update(saw), NEW s \in Vanishing(saw)
    PROVE  \E i \in 1..Len(events') : events'[i] = LastWords(s)
<1> DEFINE new  == Admitted(saw) \union Restarted(saw)
           seen == SetToSeq(new)
           gone == SetToSeq(Vanishing(saw))
           e1 == [i \in 1..Len(seen) |->
                    IF seen[i] \notin Admitted(saw) THEN Restart(seen[i], now)
                    ELSE Appear(seen[i], IF Learning THEN startAt ELSE now)]
           e2 == [i \in 1..Len(gone) |-> LastWords(gone[i])]
           all == events \o RoundEvents(saw)
<1>1. new \subseteq Service /\ Vanishing(saw) \subseteq DOMAIN cur /\ DOMAIN cur \subseteq Service
  BY Sightings DEF IInv, Typed, Admitted, Restarted, Vanishing
<1>2. IsFiniteSet(new) /\ IsFiniteSet(Vanishing(saw))
  BY <1>1, FS_Subset, ServiceLogAssumption
<1>3. /\ Len(seen) \in Nat /\ Len(gone) \in Nat
      /\ \E i \in 1..Len(gone) : gone[i] = s
  <2>1. seen \in Seq(new) /\ gone \in Seq(Vanishing(saw))
    BY <1>2, Sequence
  <2>2. \E i \in 1..Len(gone) : gone[i] = s
    BY <1>2, Sequence
  <2> HIDE DEF new, seen, gone
  <2> QED
    BY <2>1, <2>2
<1>4. PICK g \in 1..Len(gone) : gone[g] = s
  BY <1>3
<1>5. RoundEvents(saw) = e1 \o e2
  BY DEF RoundEvents
<1> HIDE DEF new, seen, gone
<1>6. /\ Len(e1) = Len(seen) /\ Len(e2) = Len(gone) /\ e2[g] = LastWords(s)
  BY <1>3, <1>4
<1>7. events \in Seq(Entry(now)) /\ RoundEvents(saw) \in Seq(Entry(now)) /\ now \in Nat
  BY EventsOfRound DEF Update, IInv, Typed
<1>8. /\ Len(seen) + g \in 1..Len(RoundEvents(saw))
      /\ RoundEvents(saw)[Len(seen) + g] = LastWords(s)
  <2> DEFINE E == {e1[i] : i \in 1..Len(seen)} \union {e2[i] : i \in 1..Len(gone)}
  <2>1. e1 \in [1..Len(seen) -> E] /\ e2 \in [1..Len(gone) -> E]
    OBVIOUS
  <2> HIDE DEF e1, e2, E
  <2>2. e1 \in Seq(E) /\ e2 \in Seq(E)
    BY <1>3, <2>1
  <2>3. g \in 1..Len(e2)
    BY <1>4, <1>6
  <2>4. Len(e1) + g \in 1..Len(e1 \o e2) /\ (e1 \o e2)[Len(e1) + g] = e2[g]
    BY <2>2, <2>3, ConcatRight
  <2> QED
    BY <1>5, <1>6, <2>4
<1> HIDE DEF e1, e2
<1>9. PICK p \in 1..Len(all) : all[p] = LastWords(s)
  <2>1. /\ Len(events) + (Len(seen) + g) \in 1..Len(all)
        /\ all[Len(events) + (Len(seen) + g)] = LastWords(s)
    <3>1. Len(seen) + g \in 1..Len(RoundEvents(saw))
      BY <1>8
    <3> QED
      BY <1>7, <1>8, <3>1, ConcatRight
  <2> QED
    BY <2>1
<1>10. all \in Seq(Entry(now))
  BY <1>7, ConcatProperties
<1>11. events' = Expire(all, now)
  BY DEF Update, Reported
<1>12. ~(all[p].ts < now - Retain)
  BY <1>7, <1>9, ServiceLogAssumption DEF LastWords, Vanish
<1> HIDE DEF all
<1>13. \E i \in 1..Len(Expire(all, now)) : Expire(all, now)[i] = all[p]
  BY <1>10, <1>12, ExpiryKeeps
<1> QED
  BY <1>9, <1>11, <1>13

\* The round that the properties take for the last sighting is the one the maps have.
LEMMA LastSighting ==
    ASSUME RoundsTyped, NEW s, NEW k \in SeenRounds(s), \A x \in k + 1 .. N : x \notin SeenRounds(s)
    PROVE  k = CHOOSE i \in 1..N : SeenIn(s, i) /\ NoneSeen(s, i + 1, N)
<1> DEFINE Latest(i) == SeenIn(s, i) /\ NoneSeen(s, i + 1, N)
<1>1. N \in Nat
  BY DEF RoundsTyped, N
<1>2. k \in 1..N /\ SeenIn(s, k)
  BY DEF SeenRounds
<1>3. Latest(k)
  BY <1>1, <1>2 DEF SeenRounds, NoneSeen
<1>4. ASSUME NEW i \in 1..N, Latest(i) PROVE i = k
  <2>1. ~(i < k)
    BY <1>1, <1>2, <1>4 DEF NoneSeen
  <2>2. ~(k < i)
    BY <1>1, <1>2, <1>3, <1>4 DEF NoneSeen
  <2> QED
    BY <1>2, <2>1, <2>2
<1> QED
  BY <1>2, <1>3, <1>4

\* The listing that lasted to round k began in the round the peak is taken from.
LEMMA ListingBegan ==
    ASSUME RoundsTyped, NEW s, NEW b \in 1..N, PeakSince(s, b), NEW k \in b..N
    PROVE  ListedSince(s, k) = b
<1> DEFINE Began(i) == (\A j \in i..k : ListedAfter(s, j)) /\ (i > 1 => ~ListedAfter(s, i - 1))
<1>1. N \in Nat
  BY DEF RoundsTyped, N
<1>2. \A j \in 0..N : ListedAfter(s, j) <=> Debounced(SeenRounds(s), j)
  BY ListedIsDebounced
<1>3. b \in 1..k /\ Began(b)
  <2>1. \A j \in b..k : ListedAfter(s, j)
    BY <1>1, <1>2 DEF PeakSince
  <2>2. b > 1 => ~ListedAfter(s, b - 1)
    BY <1>1, <1>2 DEF PeakSince
  <2> QED
    BY <2>1, <2>2
<1>4. ASSUME NEW i \in 1..k, Began(i) PROVE i = b
  <2>1. ~(i < b)
    <3> SUFFICES ASSUME i < b PROVE FALSE
      OBVIOUS
    <3>1. b - 1 \in i..k /\ b > 1
      BY <1>1
    <3> QED
      BY <1>3, <1>4, <3>1
  <2>2. ~(b < i)
    <3> SUFFICES ASSUME b < i PROVE FALSE
      OBVIOUS
    <3>1. i - 1 \in b..k /\ i > 1
      BY <1>1
    <3> QED
      BY <1>3, <1>4, <3>1
  <2> QED
    BY <1>1, <2>1, <2>2
<1> QED
  BY <1>3, <1>4 DEF ListedSince

\* servicelog.go, Update: last sighting and peak are those of this listing.
LEMMA WordsAreTrue ==
    ASSUME IInv, CountInv, HNext, NEW s \in Service
    PROVE  LastWordsAre(s)
<1> SUFFICES ASSUME s \in DOMAIN cur, s \notin DOMAIN cur', Running, due
             PROVE  LastWordsAre(s)
  BY DEF LastWordsAre
<1>1. PICK saw \in Sighting : HUpdate(saw)
  BY DEF HNext, Load, Close, Exit, Crash, Minute, Running
<1>2. Update(saw) /\ s \in Vanishing(saw)
  BY <1>1, UpdateOf DEF HUpdate
<1>3. PICK w \in 1..Len(events') : events'[w] = LastWords(s)
  BY <1>2, WordsAreKept
<1>4. RoundsTyped /\ ListedCounts(s)
  BY DEF CountInv, Counted
<1> DEFINE k == N - missing[s]
<1>5. /\ k \in SeenRounds(s) /\ \A x \in k + 1 .. N : x \notin SeenRounds(s)
      /\ cur[s] = rounds[k].obs[s] /\ lastSeen[s] = rounds[k].t
  BY <1>4 DEF ListedCounts
<1>6. PICK b \in 1..N : PeakSince(s, b)
  BY <1>4 DEF ListedCounts
<1>7. N \in Nat /\ k \in 1..N
  BY <1>4, <1>5 DEF RoundsTyped, N, SeenRounds
<1> HIDE DEF k
<1>8. b \in 1..k
  BY <1>5, <1>6, <1>7 DEF PeakSince
<1>9. k = CHOOSE i \in 1..N : SeenIn(s, i) /\ NoneSeen(s, i + 1, N)
  BY <1>4, <1>5, LastSighting
<1>10. ListedSince(s, k) = b
  BY <1>4, <1>6, <1>7, <1>8, ListingBegan
<1> DEFINE sizes == {rounds[j].obs[s].rss : j \in {j \in b..k : SeenIn(s, j)}}
<1>11. peakRSS[s] \in sizes
  <2>1. PICK j \in b..N : j \in SeenRounds(s) /\ peakRSS[s] = rounds[j].obs[s].rss
    BY <1>6 DEF PeakSince
  <2>2. j \in b..k /\ SeenIn(s, j)
    BY <1>5, <1>7, <1>8, <2>1 DEF SeenRounds
  <2> QED
    BY <2>1, <2>2
<1>12. \A z \in sizes : z <= peakRSS[s]
  <2> SUFFICES ASSUME NEW j \in b..k, SeenIn(s, j)
               PROVE  rounds[j].obs[s].rss <= peakRSS[s]
    OBVIOUS
  <2>1. j \in b..N /\ j \in SeenRounds(s)
    BY <1>7, <1>8 DEF SeenRounds
  <2> QED
    BY <1>6, <2>1 DEF PeakSince
<1>13. LET e == events'[w]
       IN  /\ e.kind = "vanish" /\ e.id = s /\ e.ts = now
           /\ e.seenAt = rounds[k].t
           /\ e.last = rounds[k].obs[s].rss
           /\ e.peak = peakRSS[s]
  BY <1>3, <1>5 DEF LastWords, Vanish
<1> HIDE DEF sizes
<1>14. \E i \in 1..Len(events') :
          LET e == events'[i]
          IN  /\ e.kind = "vanish" /\ e.id = s /\ e.ts = now
              /\ e.seenAt = rounds[k].t
              /\ e.last = rounds[k].obs[s].rss
              /\ e.peak \in sizes /\ \A z \in sizes : z <= e.peak
  BY <1>11, <1>12, <1>13
<1> QED
  BY <1>9, <1>10, <1>14 DEF LastWordsAre, sizes

\* servicelog.go, Update: for any services, looks and thresholds, the last words of every
\* vanish event are those of the last sighting, with the peak of this listing.
THEOREM VanishesTellTruth == HSpec => LastWordsTrue
<1>1. IInv /\ CountInv /\ [HNext]_hvars => [\A s \in Service : LastWordsAre(s)]_hvars
  BY WordsAreTrue
<1> QED
  BY <1>1, HistoryHolds, PTL DEF HSpec, LastWordsTrue
-----------------------------------------------------------------------------
(* What a look-up finds in a log q at time t: the events before the first later one *)

Till(q, t) == {i \in 1..Len(q) : \A j \in 1..i : q[j].ts <= t}

Gone(e, s) == Of(e, s) /\ e.kind = "vanish"
There(e, s) == Of(e, s) /\ e.kind # "vanish"

\* The last that is known of s is that it was there; ... that it had gone.
SaysThere(q, s, t) == \A i \in Till(q, t) : Gone(q[i], s) => \E j \in Till(q, t) : i < j /\ There(q[j], s)
SaysGone(q, s, t) == \A i \in Till(q, t) : There(q[i], s) => \E j \in Till(q, t) : i < j /\ Gone(q[j], s)

\* If anything is known of services, nodedata has been stopped since, after the last start.
Closed(q, t, d) == q[d].kind = "down" /\ \A j \in Till(q, t) : d < j => q[j].kind # "up" /\ q[j].ts <= q[d].ts
SaysClosed(q, t) ==
    \A i \in Till(q, t) : q[i].kind \notin {"up", "down"} => \E d \in Till(q, t) : Closed(q, t, d)

\* Positions of a longer log.
LEMMA TillLonger ==
    ASSUME NEW S, NEW a \in Seq(S), NEW b \in Seq(S), NEW t
    PROVE  /\ a \o b \in Seq(S) /\ Len(a \o b) = Len(a) + Len(b)
           /\ \A i \in 1..Len(a) : (a \o b)[i] = a[i] /\ (i \in Till(a \o b, t) <=> i \in Till(a, t))
           /\ \A i \in Till(a \o b, t) :
                 \/ i \in Till(a, t)
                 \/ \E k \in 1..Len(b) : i = Len(a) + k /\ (a \o b)[i] = b[k] /\ b[k].ts <= t
<1> DEFINE q == a \o b
<1>1. /\ q \in Seq(S) /\ Len(q) = Len(a) + Len(b) /\ Len(a) \in Nat /\ Len(b) \in Nat
      /\ \A i \in 1..Len(a) : q[i] = a[i]
      /\ \A k \in 1..Len(b) : q[Len(a) + k] = b[k]
  OBVIOUS
<1> HIDE DEF q
<1>2. ASSUME NEW i \in 1..Len(a) PROVE i \in Till(q, t) <=> i \in Till(a, t)
  <2>1. i \in 1..Len(q) /\ \A j \in 1..i : j \in 1..Len(a) /\ q[j] = a[j]
    BY <1>1
  <2> QED
    BY <2>1 DEF Till
<1>3. ASSUME NEW i \in Till(q, t), i \notin Till(a, t)
      PROVE  \E k \in 1..Len(b) : i = Len(a) + k /\ q[i] = b[k] /\ b[k].ts <= t
  <2>1. i \in 1..Len(q) /\ i \notin 1..Len(a) /\ q[i].ts <= t
    BY <1>2, <1>3 DEF Till
  <2>2. i - Len(a) \in 1..Len(b) /\ i = Len(a) + (i - Len(a))
    BY <1>1, <2>1
  <2> QED
    BY <1>1, <2>1, <2>2
<1> QED
  BY <1>1, <1>2, <1>3 DEF q

\* A part of 1..n that holds what is below any of its elements is 1..m.
LEMMA Prefix ==
    ASSUME NEW n \in Nat, NEW S \in SUBSET (1..n), \A i \in S : \A j \in 1..i : j \in S
    PROVE  Cardinality(S) \in 0..n /\ S = 1..Cardinality(S)
<1>1. IsFiniteSet(1..n) /\ Cardinality(1..n) = n
  BY FS_Interval
<1>2. IsFiniteSet(S) /\ Cardinality(S) <= n
  BY <1>1, FS_Subset
<1>3. Cardinality(S) \in Nat
  BY <1>2, FS_CardinalityType
<1>4. \A i \in S : i <= Cardinality(S)
  <2>1. SUFFICES ASSUME NEW i \in S
                 PROVE  i <= Cardinality(S)
    OBVIOUS
  <2>2. i \in Nat /\ 1..i \in SUBSET S
    OBVIOUS
  <2>3. Cardinality(1..i) = i
    BY <2>2, FS_Interval
  <2> QED
    BY <1>2, <2>2, <2>3, FS_Subset
<1>5. S \in SUBSET (1..Cardinality(S))
  BY <1>3, <1>4
<1>6. IsFiniteSet(1..Cardinality(S)) /\ Cardinality(1..Cardinality(S)) = Cardinality(S)
  BY <1>3, FS_Interval
<1>7. S = 1..Cardinality(S)
  BY <1>5, <1>6, FS_Subset
<1> QED
  BY <1>2, <1>3, <1>7

\* p is the log q without its first c events, all of them too old at time u.
Cut(p, q, c, u) ==
    /\ c \in 0..Len(q) /\ Len(p) = Len(q) - c
    /\ \A i \in 1..Len(p) : p[i] = q[c + i]
    /\ \A i \in 1..c : q[i].ts < u - Retain
    /\ c < Len(q) => ~(q[c + 1].ts < u - Retain)

\* servicelog.go, expireLocked: what is dropped is a prefix, up to the first event that
\* is young enough.
LEMMA ExpiryCuts ==
    ASSUME NEW S, NEW q \in Seq(S), NEW u
    PROVE  \E c \in 0..Len(q) : Cut(Expire(q, u), q, c, u)
<1> DEFINE old == {i \in 1..Len(q) : \A j \in 1..i : q[j].ts < u - Retain}
           c == Cardinality(old)
<1>1. Len(q) \in Nat
  OBVIOUS
<1>2. old \in SUBSET (1..Len(q)) /\ \A i \in old : \A j \in 1..i : j \in old
  <2>1. ASSUME NEW i \in old, NEW j \in 1..i PROVE j \in old
    <3>1. j \in 1..Len(q) /\ \A k \in 1..j : k \in 1..i
      BY <1>1
    <3> QED
      BY <3>1
  <2> QED
    BY <2>1
<1> HIDE DEF old
<1>3. c \in 0..Len(q) /\ old = 1..c
  BY <1>1, <1>2, Prefix
<1> HIDE DEF c
<1>4. \A i \in 1..c : q[i].ts < u - Retain
  <2> SUFFICES ASSUME NEW i \in 1..c PROVE q[i].ts < u - Retain
    OBVIOUS
  <2>1. i \in old /\ i \in 1..i
    BY <1>3
  <2> QED
    BY <2>1 DEF old
<1>5. c < Len(q) => ~(q[c + 1].ts < u - Retain)
  <2> SUFFICES ASSUME c < Len(q), q[c + 1].ts < u - Retain PROVE FALSE
    OBVIOUS
  <2>1. c + 1 \in 1..Len(q) /\ \A j \in 1..c + 1 : j \in 1..c \/ j = c + 1
    BY <1>1, <1>3
  <2>2. c + 1 \in old
    BY <1>4, <2>1 DEF old
  <2> QED
    BY <1>3, <2>2
<1> DEFINE p == SubSeq(q, c + 1, Len(q))
<1>6. Len(p) = Len(q) - c /\ \A i \in 1..Len(p) : p[i] = q[c + i]
  BY <1>1, <1>3
<1>7. Expire(q, u) = p
  BY DEF Expire, c, old
<1> QED
  BY <1>3, <1>4, <1>5, <1>6, <1>7 DEF Cut

\* Events of a log carry times.
Timed(S) == \A e \in S : e.ts \in Int

\* What is found after expiry was found before, and what was found and is left is found.
LEMMA TillCut ==
    ASSUME NEW S, Timed(S), NEW q \in Seq(S), NEW p \in Seq(S), NEW c, NEW u \in Int, Cut(p, q, c, u),
           NEW t \in Int
    PROVE  /\ \A i \in Till(p, t) : c + i \in Till(q, t) /\ p[i] = q[c + i]
           /\ \A j \in Till(q, t) : j > c => j - c \in Till(p, t) /\ p[j - c] = q[j]
<1>1. /\ Len(q) \in Nat /\ c \in 0..Len(q) /\ Len(p) = Len(q) - c /\ Retain \in Int
      /\ \A i \in 1..Len(p) : p[i] = q[c + i]
      /\ \A i \in 1..c : q[i].ts < u - Retain
      /\ c < Len(q) => ~(q[c + 1].ts < u - Retain)
      /\ \A i \in 1..Len(q) : q[i].ts \in Int
  BY ServiceLogAssumption DEF Cut, Timed
<1>2. ASSUME NEW i \in Till(p, t) PROVE c + i \in Till(q, t) /\ p[i] = q[c + i]
  <2>1. i \in 1..Len(p) /\ \A j \in 1..i : p[j].ts <= t
    BY <1>2 DEF Till
  <2>2. c + i \in 1..Len(q) /\ p[i] = q[c + i]
    BY <1>1, <2>1
  <2>3. ASSUME NEW j \in 1..c + i PROVE q[j].ts <= t
    <3>1. CASE j > c
      <4>1. j - c \in 1..i /\ j - c \in 1..Len(p) /\ c + (j - c) = j
        BY <1>1, <2>1, <3>1
      <4> QED
        BY <1>1, <2>1, <4>1
    <3>2. CASE j <= c
      <4>1. q[c + 1].ts <= t
        <5>1. 1 \in 1..i /\ 1 \in 1..Len(p)
          BY <1>1, <2>1
        <5> QED
          BY <1>1, <2>1, <5>1
      <4>2. j \in 1..c /\ c < Len(q) /\ j \in 1..Len(q) /\ c + 1 \in 1..Len(q)
        BY <1>1, <2>1, <3>2
      <4>3. q[j].ts \in Int /\ q[c + 1].ts \in Int /\ q[j].ts < u - Retain /\ ~(q[c + 1].ts < u - Retain)
        BY <1>1, <4>2
      <4> QED
        BY <1>1, <4>1, <4>3
    <3> QED
      BY <1>1, <2>1, <3>1, <3>2
  <2> QED
    BY <2>2, <2>3 DEF Till
<1>3. ASSUME NEW j \in Till(q, t), j > c PROVE j - c \in Till(p, t) /\ p[j - c] = q[j]
  <2>1. j \in 1..Len(q) /\ \A k \in 1..j : q[k].ts <= t
    BY <1>3 DEF Till
  <2>2. j - c \in 1..Len(p) /\ c + (j - c) = j
    BY <1>1, <1>3, <2>1
  <2>3. \A k \in 1..j - c : k \in 1..Len(p) /\ c + k \in 1..j
    BY <1>1, <1>3, <2>1
  <2> QED
    BY <1>1, <2>1, <2>2, <2>3 DEF Till
<1> QED
  BY <1>2, <1>3

\* Expiry changes no answer, but for dropping the question.
LEMMA CutSays ==
    ASSUME NEW S, Timed(S), NEW q \in Seq(S), NEW p \in Seq(S), NEW c, NEW u \in Int, Cut(p, q, c, u),
           NEW t \in Int
    PROVE  /\ \A s : SaysThere(q, s, t) => SaysThere(p, s, t)
           /\ \A s : SaysGone(q, s, t) => SaysGone(p, s, t)
           /\ SaysClosed(q, t) => SaysClosed(p, t)
<1>1. /\ Len(q) \in Nat /\ c \in 0..Len(q) /\ Len(p) = Len(q) - c /\ Retain \in Int
      /\ \A i \in 1..c : q[i].ts < u - Retain
      /\ c < Len(q) => ~(q[c + 1].ts < u - Retain)
      /\ \A i \in 1..Len(q) : q[i].ts \in Int
      /\ Till(p, t) \subseteq 1..Len(p) /\ Till(q, t) \subseteq 1..Len(q)
  BY ServiceLogAssumption DEF Cut, Timed, Till
<1>2. /\ \A i \in Till(p, t) : c + i \in Till(q, t) /\ p[i] = q[c + i]
      /\ \A j \in Till(q, t) : j > c => j - c \in Till(p, t) /\ p[j - c] = q[j]
  BY TillCut
<1>3. ASSUME NEW s, SaysThere(q, s, t), NEW i \in Till(p, t), Gone(p[i], s)
      PROVE  \E j \in Till(p, t) : i < j /\ There(p[j], s)
  <2>1. PICK j \in Till(q, t) : c + i < j /\ There(q[j], s)
    BY <1>2, <1>3 DEF SaysThere
  <2>2. j > c /\ i < j - c
    BY <1>1, <2>1
  <2> QED
    BY <1>2, <2>1, <2>2
<1>4. ASSUME NEW s, SaysGone(q, s, t), NEW i \in Till(p, t), There(p[i], s)
      PROVE  \E j \in Till(p, t) : i < j /\ Gone(p[j], s)
  <2>1. PICK j \in Till(q, t) : c + i < j /\ Gone(q[j], s)
    BY <1>2, <1>4 DEF SaysGone
  <2>2. j > c /\ i < j - c
    BY <1>1, <2>1
  <2> QED
    BY <1>2, <2>1, <2>2
<1>5. ASSUME SaysClosed(q, t), NEW i \in Till(p, t), p[i].kind \notin {"up", "down"}
      PROVE  \E d \in Till(p, t) : Closed(p, t, d)
  <2>1. PICK d \in Till(q, t) : Closed(q, t, d)
    BY <1>2, <1>5 DEF SaysClosed
  <2>2. d > c
    <3> SUFFICES ASSUME d <= c PROVE FALSE
      BY <1>1
    <3>1. d \in 1..c /\ c < Len(q) /\ d \in 1..Len(q) /\ c + 1 \in 1..Len(q) /\ c + 1 \in 1..c + i /\ d < c + 1
      BY <1>1
    <3>2. c + 1 \in Till(q, t)
      <4>1. c + i \in Till(q, t)
        BY <1>2
      <4>2. \A k \in 1..c + 1 : k \in 1..c + i
        BY <1>1
      <4> QED
        BY <3>1, <4>1, <4>2 DEF Till
    <3>3. q[c + 1].ts <= q[d].ts
      BY <2>1, <3>1, <3>2 DEF Closed
    <3>4. q[c + 1].ts \in Int /\ q[d].ts \in Int /\ q[d].ts < u - Retain /\ ~(q[c + 1].ts < u - Retain)
      BY <1>1, <3>1
    <3> QED
      BY <1>1, <3>3, <3>4
  <2>3. d - c \in Till(p, t) /\ p[d - c] = q[d]
    BY <1>2, <2>2
  <2>4. ASSUME NEW j \in Till(p, t), d - c < j PROVE p[j].kind # "up" /\ p[j].ts <= q[d].ts
    <3>1. c + j \in Till(q, t) /\ p[j] = q[c + j] /\ d < c + j
      BY <1>1, <1>2, <2>4
    <3> QED
      BY <2>1, <3>1 DEF Closed
  <2> QED
    BY <2>1, <2>3, <2>4 DEF Closed
<1> QED
  BY <1>3, <1>4, <1>5 DEF SaysThere, SaysGone, SaysClosed

\* Events that say nothing of the kind leave an answer as it is.
LEMMA LongerSays ==
    ASSUME NEW S, NEW a \in Seq(S), NEW b \in Seq(S), NEW t \in Int
    PROVE  /\ \A s : (SaysThere(a, s, t) /\ \A k \in 1..Len(b) : (b[k].ts <= t => ~Gone(b[k], s)))
                       => SaysThere(a \o b, s, t)
           /\ \A s : (SaysGone(a, s, t) /\ \A k \in 1..Len(b) : (b[k].ts <= t => ~There(b[k], s)))
                       => SaysGone(a \o b, s, t)
           /\ (SaysClosed(a, t) /\ \A k \in 1..Len(b) : ~(b[k].ts <= t))
                => SaysClosed(a \o b, t)
<1> DEFINE q == a \o b
<1>1. /\ \A i \in Till(a, t) : q[i] = a[i] /\ i \in Till(q, t)
      /\ \A i \in Till(q, t) :
            \/ i \in Till(a, t)
            \/ \E k \in 1..Len(b) : q[i] = b[k] /\ b[k].ts <= t
  <2>1. Till(a, t) \subseteq 1..Len(a)
    BY DEF Till
  <2>2. \A i \in 1..Len(a) : q[i] = a[i] /\ (i \in Till(q, t) <=> i \in Till(a, t))
    BY TillLonger
  <2>3. \A i \in Till(q, t) : i \in Till(a, t) \/ \E k \in 1..Len(b) : q[i] = b[k] /\ b[k].ts <= t
    BY TillLonger
  <2> QED
    BY <2>1, <2>2, <2>3
<1> HIDE DEF q
<1>2. ASSUME NEW s, SaysThere(a, s, t), \A k \in 1..Len(b) : b[k].ts <= t => ~Gone(b[k], s)
      PROVE  SaysThere(q, s, t)
  BY <1>1, <1>2 DEF SaysThere
<1>3. ASSUME NEW s, SaysGone(a, s, t), \A k \in 1..Len(b) : b[k].ts <= t => ~There(b[k], s)
      PROVE  SaysGone(q, s, t)
  BY <1>1, <1>3 DEF SaysGone
<1>4. ASSUME SaysClosed(a, t), \A k \in 1..Len(b) : ~(b[k].ts <= t)
      PROVE  SaysClosed(q, t)
  <2>1. \A i \in Till(q, t) : i \in Till(a, t)
    BY <1>1, <1>4
  <2>2. ASSUME NEW d \in Till(a, t), Closed(a, t, d) PROVE Closed(q, t, d)
    BY <1>1, <2>1, <2>2 DEF Closed
  <2> SUFFICES ASSUME NEW i \in Till(q, t), q[i].kind \notin {"up", "down"}
               PROVE  \E d \in Till(q, t) : Closed(q, t, d)
    BY DEF SaysClosed
  <2>3. i \in Till(a, t) /\ q[i] = a[i]
    BY <1>1, <2>1
  <2>4. PICK d \in Till(a, t) : Closed(a, t, d)
    BY <1>4, <2>3 DEF SaysClosed
  <2> QED
    BY <1>1, <2>2, <2>4
<1> QED
  BY <1>2, <1>3, <1>4 DEF q

-----------------------------------------------------------------------------
(* The events of a round *)

LEMMA EntryFacts ==
    ASSUME NEW t \in Nat
    PROVE  /\ Timed(Entry(t)) /\ \A e \in Entry(t) : e.ts \in 1..t
           /\ \A q \in Seq(Entry(t)) : \A i \in 1..Len(q) : q[i].ts \in 1..t
           /\ \A q \in Seq(Entry(t)) : Till(q, t) = 1..Len(q)
<1>1. \A e \in Entry(t) : e.ts \in 1..t
  BY DEF Entry
<1>2. ASSUME NEW q \in Seq(Entry(t)) PROVE \A i \in 1..Len(q) : q[i].ts \in 1..t
  BY <1>1
<1>3. ASSUME NEW q \in Seq(Entry(t)) PROVE Till(q, t) = 1..Len(q)
  <2>1. Len(q) \in Nat
    OBVIOUS
  <2>2. \A i \in 1..Len(q) : \A j \in 1..i : j \in 1..Len(q)
    BY <2>1
  <2>3. \A i \in 1..Len(q) : q[i].ts <= t
    BY <1>2
  <2> QED
    BY <2>2, <2>3 DEF Till
<1> QED
  BY <1>1, <1>2, <1>3 DEF Timed

\* The two parts of what a round logs: what it found, and what it misses.
LEMMA RoundParts ==
    ASSUME IInv, NEW saw \in Sighting, Update(saw)
    PROVE  \E seen \in Seq(Admitted(saw) \union Restarted(saw)), gone \in Seq(Vanishing(saw)) :
              /\ \A x \in Admitted(saw) \union Restarted(saw) : \E i \in 1..Len(seen) : seen[i] = x
              /\ \A x \in Vanishing(saw) : \E i \in 1..Len(gone) : gone[i] = x
              /\ Len(RoundEvents(saw)) = Len(seen) + Len(gone)
              /\ \A i \in 1..Len(seen) :
                    RoundEvents(saw)[i] =
                       IF seen[i] \notin Admitted(saw) THEN Restart(seen[i], now)
                       ELSE Appear(seen[i], IF Learning THEN startAt ELSE now)
              /\ \A i \in 1..Len(gone) : RoundEvents(saw)[Len(seen) + i] = LastWords(gone[i])
<1> DEFINE new  == Admitted(saw) \union Restarted(saw)
           seen == SetToSeq(new)
           gone == SetToSeq(Vanishing(saw))
           e1 == [i \in 1..Len(seen) |->
                    IF seen[i] \notin Admitted(saw) THEN Restart(seen[i], now)
                    ELSE Appear(seen[i], IF Learning THEN startAt ELSE now)]
           e2 == [i \in 1..Len(gone) |-> LastWords(gone[i])]
<1>1. new \subseteq Service /\ Vanishing(saw) \subseteq DOMAIN cur /\ DOMAIN cur \subseteq Service
  BY Sightings DEF IInv, Typed, Admitted, Restarted, Vanishing
<1>2. IsFiniteSet(new) /\ IsFiniteSet(Vanishing(saw))
  BY <1>1, FS_Subset, ServiceLogAssumption
<1>3. /\ seen \in Seq(new) /\ \A x \in new : \E i \in 1..Len(seen) : seen[i] = x
      /\ gone \in Seq(Vanishing(saw)) /\ \A x \in Vanishing(saw) : \E i \in 1..Len(gone) : gone[i] = x
  BY <1>2, Sequence
<1>4. RoundEvents(saw) = e1 \o e2
  BY DEF RoundEvents
<1> HIDE DEF seen, gone
<1>5. Len(seen) \in Nat /\ Len(gone) \in Nat
  <2> HIDE DEF new
  <2> QED
    BY <1>3
<1> DEFINE E == {e1[i] : i \in 1..Len(seen)} \union {e2[i] : i \in 1..Len(gone)}
<1>6. e1 \in [1..Len(seen) -> E] /\ e2 \in [1..Len(gone) -> E]
  OBVIOUS
<1>7. /\ \A i \in 1..Len(seen) :
            e1[i] = IF seen[i] \notin Admitted(saw) THEN Restart(seen[i], now)
                    ELSE Appear(seen[i], IF Learning THEN startAt ELSE now)
      /\ \A i \in 1..Len(gone) : e2[i] = LastWords(gone[i])
  OBVIOUS
<1> HIDE DEF e1, e2, E
<1>8. e1 \in Seq(E) /\ e2 \in Seq(E) /\ Len(e1) = Len(seen) /\ Len(e2) = Len(gone)
  BY <1>5, <1>6
<1>9. /\ Len(e1 \o e2) = Len(seen) + Len(gone)
      /\ \A i \in 1..Len(seen) : (e1 \o e2)[i] = e1[i]
      /\ \A i \in 1..Len(gone) : (e1 \o e2)[Len(seen) + i] = e2[i]
  BY <1>5, <1>8
<1>10. /\ Len(RoundEvents(saw)) = Len(seen) + Len(gone)
       /\ \A i \in 1..Len(seen) :
             RoundEvents(saw)[i] = IF seen[i] \notin Admitted(saw) THEN Restart(seen[i], now)
                                   ELSE Appear(seen[i], IF Learning THEN startAt ELSE now)
       /\ \A i \in 1..Len(gone) : RoundEvents(saw)[Len(seen) + i] = LastWords(gone[i])
  <2>1. \A i \in 1..Len(seen) : RoundEvents(saw)[i] = e1[i]
    BY <1>4, <1>9, Zenon
  <2>2. \A i \in 1..Len(gone) : RoundEvents(saw)[Len(seen) + i] = e2[i]
    BY <1>4, <1>9, Zenon
  <2> QED
    BY <1>4, <1>7, <1>9, <2>1, <2>2, Zenon
<1> QED
  BY <1>3, <1>10, Zenon

\* servicelog.go, Update: which events a round logs of service s.
LEMMA RoundSays ==
    ASSUME IInv, NEW saw \in Sighting, Update(saw), NEW s
    PROVE  /\ RoundEvents(saw) \in Seq(Entry(now))
           /\ \A k \in 1..Len(RoundEvents(saw)) :
                 LET e == RoundEvents(saw)[k]
                 IN  /\ e.kind \notin {"up", "down"}
                     /\ e.ts = now \/ e.ts = startAt
                     /\ Gone(e, s) => s \in Vanishing(saw) /\ e.ts = now
                     /\ There(e, s) => s \in Admitted(saw) \union Restarted(saw)
                     /\ There(e, s) /\ e.ts # now => s \in Admitted(saw) /\ Learning
           /\ s \in Admitted(saw) => \E k \in 1..Len(RoundEvents(saw)) : There(RoundEvents(saw)[k], s)
           /\ s \in Vanishing(saw) =>
                 \E k \in 1..Len(RoundEvents(saw)) :
                    Gone(RoundEvents(saw)[k], s) /\ RoundEvents(saw)[k].ts = now
<1> DEFINE r == RoundEvents(saw)
           at == IF Learning THEN startAt ELSE now
           new == Admitted(saw) \union Restarted(saw)
<1>1. r \in Seq(Entry(now)) /\ phase # "off"
  BY EventsOfRound DEF Update
<1>2. PICK seen \in Seq(new), gone \in Seq(Vanishing(saw)) :
         /\ \A x \in new : \E i \in 1..Len(seen) : seen[i] = x
         /\ \A x \in Vanishing(saw) : \E i \in 1..Len(gone) : gone[i] = x
         /\ Len(r) = Len(seen) + Len(gone)
         /\ \A i \in 1..Len(seen) :
               r[i] = IF seen[i] \notin Admitted(saw) THEN Restart(seen[i], now) ELSE Appear(seen[i], at)
         /\ \A i \in 1..Len(gone) : r[Len(seen) + i] = LastWords(gone[i])
  BY RoundParts
<1> HIDE DEF r
<1>3. /\ \A x : Restart(x, now).ts = now /\ There(Restart(x, now), x) /\ Restart(x, now).id = x
                /\ Restart(x, now).kind = "restart"
      /\ \A x : Appear(x, at).ts = at /\ There(Appear(x, at), x) /\ Appear(x, at).id = x
                /\ Appear(x, at).kind = "appear"
      /\ \A x : LastWords(x).ts = now /\ Gone(LastWords(x), x) /\ LastWords(x).id = x
                /\ LastWords(x).kind = "vanish"
  BY DEF Restart, Appear, LastWords, Vanish, There, Gone, Of
<1>4. at = startAt \/ at = now
  OBVIOUS
<1>5. at # now => Learning
  OBVIOUS
<1> HIDE DEF at
<1>6. Len(seen) \in Nat /\ Len(gone) \in Nat
  <2> HIDE DEF new
  <2> QED
    OBVIOUS
<1>7. ASSUME NEW k \in 1..Len(r)
      PROVE  /\ r[k].kind \notin {"up", "down"}
             /\ r[k].ts = now \/ r[k].ts = startAt
             /\ Gone(r[k], s) => s \in Vanishing(saw) /\ r[k].ts = now
             /\ There(r[k], s) => s \in Admitted(saw) \union Restarted(saw)
             /\ There(r[k], s) /\ r[k].ts # now => s \in Admitted(saw) /\ Learning
  <2>1. CASE k \in 1..Len(seen)
    <3>1. seen[k] \in new
      BY <1>2, <2>1
    <3>2. CASE seen[k] \in Admitted(saw)
      <4>1. r[k] = Appear(seen[k], at)
        BY <1>2, <2>1, <3>2
      <4>2. r[k].kind = "appear" /\ r[k].id = seen[k] /\ r[k].ts = at
        BY <1>3, <4>1
      <4> QED
        BY <1>4, <1>5, <3>1, <3>2, <4>2 DEF There, Gone, Of
    <3>3. CASE seen[k] \notin Admitted(saw)
      <4>1. r[k] = Restart(seen[k], now)
        BY <1>2, <2>1, <3>3
      <4>2. r[k].kind = "restart" /\ r[k].id = seen[k] /\ r[k].ts = now
        BY <1>3, <4>1
      <4> QED
        BY <3>1, <4>2 DEF There, Gone, Of
    <3> QED
      BY <3>2, <3>3
  <2>2. CASE k \notin 1..Len(seen)
    <3>1. k - Len(seen) \in 1..Len(gone) /\ k = Len(seen) + (k - Len(seen))
      BY <1>2, <1>6, <2>2
    <3>2. PICK i \in 1..Len(gone) : k = Len(seen) + i
      BY <3>1
    <3>3. r[k] = LastWords(gone[i]) /\ gone[i] \in Vanishing(saw)
      BY <1>2, <3>2
    <3>4. r[k].kind = "vanish" /\ r[k].id = gone[i] /\ r[k].ts = now
      BY <1>3, <3>3
    <3> QED
      BY <3>3, <3>4 DEF There, Gone, Of
  <2> QED
    BY <2>1, <2>2
<1>8. ASSUME s \in Admitted(saw) PROVE \E k \in 1..Len(r) : There(r[k], s)
  <2>1. PICK i \in 1..Len(seen) : seen[i] = s
    BY <1>2, <1>8
  <2>2. i \in 1..Len(r) /\ r[i] = Appear(s, at)
    BY <1>2, <1>6, <1>8, <2>1
  <2> QED
    BY <1>3, <2>2
<1>9. ASSUME s \in Vanishing(saw) PROVE \E k \in 1..Len(r) : Gone(r[k], s) /\ r[k].ts = now
  <2>1. PICK i \in 1..Len(gone) : gone[i] = s
    BY <1>2, <1>9
  <2>2. r[Len(seen) + i] = LastWords(s)
    BY <1>2, <2>1, Zenon
  <2>3. Len(r) = Len(seen) + Len(gone) /\ i \in 1..Len(gone)
    BY <1>2
  <2>4. Len(seen) + i \in 1..Len(r)
    BY <1>6, <2>3
  <2> QED
    BY <1>3, <2>2, <2>4
<1> QED
  BY <1>1, <1>7, <1>8, <1>9 DEF r

-----------------------------------------------------------------------------
(* What the log says, in every state *)

\* After every stop the log has the start of this life, at time t.
SaysOn(q, t) == \A d \in 1..Len(q) : q[d].kind = "down" => \E u \in Till(q, t) : d < u /\ q[u].kind = "up"

\* The log has a stop at time t, and no start since.
SaysOff(q, t) ==
    \E d \in 1..Len(q) :
        q[d].kind = "down" /\ q[d].ts = t /\ \A j \in d + 1 .. Len(q) : q[j].kind # "up"

\* Service s was listed after round k of this life.
Was(s, k) == Debounced(SeenRounds(s), k)

\* ... was not, between two listings, and the later one is not dated back.
Between(s, k) ==
    /\ ~Was(s, k) /\ \E j \in 1..k : Was(s, j)
    /\ \A j \in k..N : Was(s, j) => rounds[j].t - startAt >= LearnPeriod

\* The rounds are of this life, and the next one is of a later minute.
Dates == \A k \in 1..N : rounds[k].t \in startAt..now /\ (due => rounds[k].t < now)

\* No minute without nodedata is one of this life.
OffPast == \A m \in off : m[1] \in Nat /\ m[1] < now /\ (Running => m[1] < startAt)

ListSays ==
    \A s \in Service :
        /\ s \in DOMAIN cur => SaysThere(events, s, now)
        /\ s \notin DOMAIN cur /\ (\E k \in 1..N : Was(s, k)) => SaysGone(events, s, now)

\* What was listed and is not, within the retention, has left its last words.
VanishKept ==
    \A s \in Service \ DOMAIN cur : \A k \in 1..N :
        Was(s, k) /\ rounds[k].t >= now - Retain =>
            \E i \in 1..Len(events) : Gone(events[i], s) /\ events[i].ts >= rounds[k].t

RoundsSay ==
    \A s \in Service : \A k \in 1..N :
        /\ Was(s, k) => SaysThere(events, s, rounds[k].t)
        /\ Between(s, k) => SaysGone(events, s, rounds[k].t)

StopsSay ==
    /\ phase = "on" => SaysOn(events, startAt)
    /\ phase = "closing" => SaysOff(events, now)
    /\ phase = "off" /\ clean => SaysClosed(events, now)

GapsSay == \A m \in off : m[2] => SaysClosed(events, m[1])

AInv == Dates /\ OffPast /\ ListSays /\ VanishKept /\ RoundsSay /\ StopsSay /\ GapsSay

LEMMA CutStops ==
    ASSUME NEW S, Timed(S), NEW q \in Seq(S), NEW p \in Seq(S), NEW c, NEW u \in Int, Cut(p, q, c, u)
    PROVE  /\ \A t \in Int : SaysOn(q, t) => SaysOn(p, t)
           /\ SaysOff(q, u) => SaysOff(p, u)
<1>1. /\ Len(q) \in Nat /\ c \in 0..Len(q) /\ Len(p) = Len(q) - c /\ Retain \in Nat
      /\ \A i \in 1..Len(p) : p[i] = q[c + i] /\ c + i \in 1..Len(q)
      /\ \A i \in 1..c : q[i].ts < u - Retain
      /\ \A i \in 1..Len(q) : q[i].ts \in Int
  <2>1. Len(q) \in Nat /\ c \in 0..Len(q) /\ Len(p) = Len(q) - c /\ Retain \in Nat
    BY ServiceLogAssumption DEF Cut
  <2>2. \A i \in 1..Len(p) : c + i \in 1..Len(q)
    BY <2>1
  <2> QED
    BY <2>1, <2>2 DEF Cut, Timed
<1>2. ASSUME NEW t \in Int, SaysOn(q, t), NEW d \in 1..Len(p), p[d].kind = "down"
      PROVE  \E v \in Till(p, t) : d < v /\ p[v].kind = "up"
  <2>1. PICK v \in Till(q, t) : c + d < v /\ q[v].kind = "up"
    BY <1>1, <1>2 DEF SaysOn
  <2>2. v \in Int /\ v > c /\ d < v - c
    BY <1>1, <2>1 DEF Till
  <2>3. v - c \in Till(p, t) /\ p[v - c] = q[v]
    BY <2>2, TillCut
  <2> QED
    BY <2>1, <2>2, <2>3
<1>3. ASSUME SaysOff(q, u) PROVE SaysOff(p, u)
  <2>1. PICK d \in 1..Len(q) : q[d].kind = "down" /\ q[d].ts = u /\ \A j \in d + 1 .. Len(q) : q[j].kind # "up"
    BY <1>3 DEF SaysOff
  <2>2. ~(d \in 1..c)
    <3>1. ~(u < u - Retain)
      BY <1>1
    <3> QED
      BY <1>1, <2>1, <3>1
  <2>3. d - c \in 1..Len(p) /\ c + (d - c) = d
    BY <1>1, <2>2
  <2>4. \A j \in (d - c) + 1 .. Len(p) : j \in 1..Len(p) /\ c + j \in d + 1 .. Len(q)
    BY <1>1, <2>3
  <2>5. p[d - c] = q[d] /\ \A j \in (d - c) + 1 .. Len(p) : p[j].kind # "up"
    BY <1>1, <2>1, <2>3, <2>4
  <2> DEFINE e == d - c
  <2>6. e \in 1..Len(p) /\ p[e].kind = "down" /\ p[e].ts = u /\ \A j \in e + 1 .. Len(p) : p[j].kind # "up"
    BY <2>1, <2>3, <2>5
  <2> QED
    BY <2>6 DEF SaysOff
<1> QED
  BY <1>2, <1>3 DEF SaysOn

LEMMA LongerStops ==
    ASSUME NEW S, NEW a \in Seq(S), NEW b \in Seq(S), NEW t,
           \A k \in 1..Len(b) : b[k].kind \notin {"up", "down"}
    PROVE  /\ SaysOn(a, t) => SaysOn(a \o b, t)
           /\ SaysOff(a, t) => SaysOff(a \o b, t)
<1> DEFINE q == a \o b
<1>1. /\ Len(q) = Len(a) + Len(b) /\ Len(a) \in Nat /\ Len(b) \in Nat
      /\ \A i \in 1..Len(a) : q[i] = a[i]
      /\ \A k \in 1..Len(b) : q[Len(a) + k] = b[k]
  OBVIOUS
<1>2. \A i \in Till(a, t) : i \in Till(q, t) /\ q[i] = a[i]
  <2>1. Till(a, t) \subseteq 1..Len(a)
    BY DEF Till
  <2> QED
    BY <2>1, TillLonger
<1> HIDE DEF q
<1>3. \A i \in 1..Len(q) : i \in 1..Len(a) \/ q[i].kind \notin {"up", "down"}
  <2> SUFFICES ASSUME NEW i \in 1..Len(q), i \notin 1..Len(a) PROVE q[i].kind \notin {"up", "down"}
    OBVIOUS
  <2>1. i - Len(a) \in 1..Len(b) /\ i = Len(a) + (i - Len(a))
    BY <1>1
  <2> QED
    BY <1>1, <2>1
<1>4. ASSUME SaysOn(a, t) PROVE SaysOn(q, t)
  BY <1>1, <1>2, <1>3, <1>4 DEF SaysOn
<1>5. ASSUME SaysOff(a, t) PROVE SaysOff(q, t)
  <2>1. PICK d \in 1..Len(a) : a[d].kind = "down" /\ a[d].ts = t /\ \A j \in d + 1 .. Len(a) : a[j].kind # "up"
    BY <1>5 DEF SaysOff
  <2>2. d \in 1..Len(q) /\ q[d] = a[d]
    BY <1>1
  <2>3. ASSUME NEW j \in d + 1 .. Len(q) PROVE q[j].kind # "up"
    <3>1. j \in 1..Len(q)
      BY <1>1
    <3>2. CASE j \in 1..Len(a)
      <4>1. j \in d + 1 .. Len(a)
        BY <1>1, <3>2
      <4> QED
        BY <1>1, <2>1, <3>2, <4>1
    <3> QED
      BY <1>3, <3>1, <3>2
  <2> QED
    BY <2>1, <2>2, <2>3 DEF SaysOff
<1> QED
  BY <1>4, <1>5 DEF q
-----------------------------------------------------------------------------
(* A round keeps what the log says *)

\* servicelog.go, Update: expiry changes none of the answers.
LEMMA RoundExpires ==
    ASSUME IInv, NEW saw \in Sighting, Update(saw), NEW all, all = events \o RoundEvents(saw), NEW t \in Int
    PROVE  /\ events \in Seq(Entry(now)) /\ RoundEvents(saw) \in Seq(Entry(now)) /\ all \in Seq(Entry(now))
           /\ events' \in Seq(Entry(now))
           /\ \A s : SaysThere(all, s, t) => SaysThere(events', s, t)
           /\ \A s : SaysGone(all, s, t) => SaysGone(events', s, t)
           /\ SaysClosed(all, t) => SaysClosed(events', t)
           /\ SaysOn(all, t) => SaysOn(events', t)
           /\ SaysOff(all, now) => SaysOff(events', now)
<1>1. /\ events \in Seq(Entry(now)) /\ RoundEvents(saw) \in Seq(Entry(now)) /\ now \in Nat
      /\ events' = IF Reported(saw) THEN Expire(all, now) ELSE all
  BY EventsOfRound DEF Update, IInv, Typed
<1>2. all \in Seq(Entry(now)) /\ Timed(Entry(now))
  BY <1>1, ConcatProperties, EntryFacts
<1>3. CASE events' = all
  BY <1>1, <1>2, <1>3
<1>4. CASE events' = Expire(all, now)
  <2>1. events' \in Seq(Entry(now)) /\ \E c \in 0..Len(all) : Cut(events', all, c, now)
    BY <1>2, <1>4, Expired, ExpiryCuts
  <2>2. PICK c : Cut(events', all, c, now)
    BY <2>1
  <2> DEFINE p == events'
  <2>3. p \in Seq(Entry(now)) /\ Cut(p, all, c, now) /\ now \in Int
    BY <1>1, <2>1, <2>2
  <2> HIDE DEF p
  <2>4. /\ \A s : SaysThere(all, s, t) => SaysThere(p, s, t)
        /\ \A s : SaysGone(all, s, t) => SaysGone(p, s, t)
        /\ SaysClosed(all, t) => SaysClosed(p, t)
    BY <1>2, <2>3, CutSays
  <2>5. (SaysOn(all, t) => SaysOn(p, t)) /\ (SaysOff(all, now) => SaysOff(p, now))
    BY <1>2, <2>3, CutStops
  <2> QED
    BY <1>1, <1>2, <2>1, <2>4, <2>5 DEF p
<1> QED
  BY <1>1, <1>3, <1>4

\* servicelog.go, Update: what the log says now agrees with the new list.
LEMMA RoundListed ==
    ASSUME IInv, ListSays, NEW saw \in Sighting, Update(saw), NEW s \in Service
    PROVE  /\ s \in DOMAIN cur' => SaysThere(events', s, now)
           /\ s \in Vanishing(saw) => SaysGone(events', s, now)
           /\ s \notin DOMAIN cur /\ s \notin DOMAIN cur' /\ SaysGone(events, s, now) => SaysGone(events', s, now)
<1> DEFINE r == RoundEvents(saw)
           all == events \o r
<1>1. /\ events \in Seq(Entry(now)) /\ r \in Seq(Entry(now)) /\ all \in Seq(Entry(now)) /\ now \in Nat
      /\ SaysThere(all, s, now) => SaysThere(events', s, now)
      /\ SaysGone(all, s, now) => SaysGone(events', s, now)
      /\ DOMAIN cur' = (DOMAIN cur \union Admitted(saw)) \ Vanishing(saw)
  <2>1. now \in Nat /\ now \in Int
    BY DEF IInv, Typed
  <2> QED
    BY <2>1, RoundExpires DEF Update
<1>2. /\ \A k \in 1..Len(r) : /\ Gone(r[k], s) => s \in Vanishing(saw)
                              /\ There(r[k], s) => s \in Admitted(saw) \union Restarted(saw)
      /\ s \in Admitted(saw) => \E k \in 1..Len(r) : There(r[k], s)
      /\ s \in Vanishing(saw) => \E k \in 1..Len(r) : Gone(r[k], s)
  BY RoundSays
<1> HIDE DEF r
<1>3. /\ Len(all) = Len(events) + Len(r) /\ Len(events) \in Nat /\ Len(r) \in Nat
      /\ \A k \in 1..Len(r) : Len(events) + k \in 1..Len(all) /\ all[Len(events) + k] = r[k]
      /\ \A i \in 1..Len(all) : i \in 1..Len(events) \/ \E k \in 1..Len(r) : all[i] = r[k]
  <2>1. /\ Len(all) = Len(events) + Len(r) /\ Len(events) \in Nat /\ Len(r) \in Nat
        /\ \A k \in 1..Len(r) : Len(events) + k \in 1..Len(all) /\ all[Len(events) + k] = r[k]
    BY <1>1
  <2> HIDE DEF all
  <2>2. ASSUME NEW i \in 1..Len(all), i \notin 1..Len(events) PROVE \E k \in 1..Len(r) : all[i] = r[k]
    <3>1. i - Len(events) \in 1..Len(r) /\ i = Len(events) + (i - Len(events))
      BY <2>1, <2>2
    <3> QED
      BY <2>1, <3>1
  <2> QED
    BY <2>1, <2>2
<1>4. Till(all, now) = 1..Len(all)
  BY <1>1, EntryFacts
<1>5. ASSUME s \in Admitted(saw), s \notin Vanishing(saw) PROVE SaysThere(all, s, now)
  <2>1. PICK k \in 1..Len(r) : There(r[k], s)
    BY <1>2, <1>5
  <2> HIDE DEF all
  <2>2. \A i \in 1..Len(all) : Gone(all[i], s) => i \in 1..Len(events) /\ i < Len(events) + k
    <3> SUFFICES ASSUME NEW i \in 1..Len(all), Gone(all[i], s)
                 PROVE  i \in 1..Len(events) /\ i < Len(events) + k
      OBVIOUS
    <3>1. \A l \in 1..Len(r) : ~Gone(r[l], s)
      BY <1>2, <1>5
    <3>2. i \in 1..Len(events)
      BY <1>3, <3>1
    <3> QED
      BY <1>3, <3>2
  <2> QED
    BY <1>3, <1>4, <2>1, <2>2 DEF SaysThere
<1>6. ASSUME s \in Vanishing(saw) PROVE SaysGone(all, s, now)
  <2>1. PICK k \in 1..Len(r) : Gone(r[k], s)
    BY <1>2, <1>6
  <2>2. s \notin Admitted(saw) \union Restarted(saw)
    BY <1>6 DEF Vanishing, Admitted, Restarted
  <2> HIDE DEF all
  <2>3. \A i \in 1..Len(all) : There(all[i], s) => i \in 1..Len(events) /\ i < Len(events) + k
    <3> SUFFICES ASSUME NEW i \in 1..Len(all), There(all[i], s)
                 PROVE  i \in 1..Len(events) /\ i < Len(events) + k
      OBVIOUS
    <3>1. \A l \in 1..Len(r) : ~There(r[l], s)
      BY <1>2, <2>2
    <3>2. i \in 1..Len(events)
      BY <1>3, <3>1
    <3> QED
      BY <1>3, <3>2
  <2> QED
    BY <1>3, <1>4, <2>1, <2>3 DEF SaysGone
<1>7. ASSUME s \in DOMAIN cur, s \notin Vanishing(saw) PROVE SaysThere(all, s, now)
  <2>1. SaysThere(events, s, now) /\ \A k \in 1..Len(r) : ~Gone(r[k], s)
    <3>1. DOMAIN cur \subseteq Service
      BY Sightings DEF IInv, Typed
    <3> QED
      BY <1>2, <1>7 DEF ListSays
  <2> QED
    BY <1>1, <2>1, LongerSays
<1>8. ASSUME s \notin DOMAIN cur, s \notin Admitted(saw), SaysGone(events, s, now) PROVE SaysGone(all, s, now)
  <2>1. \A k \in 1..Len(r) : ~There(r[k], s)
    BY <1>2, <1>8 DEF Restarted
  <2> QED
    BY <1>1, <1>8, <2>1, LongerSays
<1> HIDE DEF all
<1>9. s \in Vanishing(saw) => s \in DOMAIN cur
  BY DEF Vanishing
<1> QED
  BY <1>1, <1>5, <1>6, <1>7, <1>8, <1>9

\* servicelog.go, Update: what is off the list left its last words, until they expire.
LEMMA RoundKeepsWords ==
    ASSUME IInv, NEW saw \in Sighting, Update(saw), NEW s \in Service, s \notin DOMAIN cur',
           NEW t \in Nat, t <= now, t >= now - Retain,
           s \notin DOMAIN cur => \E i \in 1..Len(events) : Gone(events[i], s) /\ events[i].ts >= t
    PROVE  \E i \in 1..Len(events') : Gone(events'[i], s) /\ events'[i].ts >= t
<1> DEFINE r == RoundEvents(saw)
           all == events \o r
<1>1. /\ events \in Seq(Entry(now)) /\ r \in Seq(Entry(now)) /\ all \in Seq(Entry(now)) /\ now \in Nat
      /\ DOMAIN cur' = (DOMAIN cur \union Admitted(saw)) \ Vanishing(saw)
      /\ events' = all \/ events' = Expire(all, now)
  <2>1. now \in Nat /\ now \in Int
    BY DEF IInv, Typed
  <2> QED
    BY <2>1, RoundExpires DEF Update
<1>2. PICK p \in 1..Len(all) : Gone(all[p], s) /\ all[p].ts >= t
  <2>1. CASE s \in DOMAIN cur
    <3>1. s \in Vanishing(saw)
      BY <1>1, <2>1
    <3>2. PICK k \in 1..Len(r) : Gone(r[k], s) /\ r[k].ts = now
      BY <3>1, RoundSays
    <3>3. Len(events) + k \in 1..Len(all) /\ all[Len(events) + k] = r[k]
      BY <1>1, ConcatRight
    <3> HIDE DEF all, r
    <3>4. Gone(all[Len(events) + k], s) /\ all[Len(events) + k].ts >= t
      BY <1>1, <3>2, <3>3
    <3> QED
      BY <3>3, <3>4
  <2>2. CASE s \notin DOMAIN cur
    <3>1. PICK i \in 1..Len(events) : Gone(events[i], s) /\ events[i].ts >= t
      BY <2>2
    <3>2. i \in 1..Len(all) /\ all[i] = events[i]
      BY <1>1
    <3> HIDE DEF all, r
    <3> QED
      BY <3>1, <3>2
  <2> QED
    BY <2>1, <2>2
<1> HIDE DEF all, r
<1>3. ~(all[p].ts < now - Retain)
  <2>1. all[p].ts \in Int /\ now - Retain \in Int
    <3>1. all[p].ts \in 1..now
      BY <1>1, EntryFacts
    <3> QED
      BY <1>1, <3>1, ServiceLogAssumption
  <2> QED
    BY <1>1, <1>2, <2>1
<1>4. CASE events' = all
  BY <1>2, <1>4
<1>5. CASE events' = Expire(all, now)
  <2>1. PICK i \in 1..Len(Expire(all, now)) : Expire(all, now)[i] = all[p]
    BY <1>1, <1>3, ExpiryKeeps
  <2> QED
    BY <1>2, <1>5, <2>1
<1> QED
  BY <1>1, <1>4, <1>5
\* The rounds of this life with the new one.
LEMMA RoundWas ==
    ASSUME IInv, CountInv, NEW saw \in Sighting, HUpdate(saw), NEW s \in Service, NEW n \in Nat, n = N
    PROVE  /\ N' = n + 1 /\ \A x \in 1..n : rounds'[x] = rounds[x]
           /\ rounds'[n + 1].t = now
           /\ \A k \in 0..n : Was(s, k)' <=> Was(s, k)
           /\ Was(s, n + 1)' <=> s \in DOMAIN cur'
<1>1. /\ N' = n + 1 /\ \A x \in 1..n : rounds'[x] = rounds[x]
      /\ rounds'[n + 1].t = now
      /\ \A k \in 0..n : Debounced(SeenRounds(s)', k) <=> Debounced(SeenRounds(s), k)
  BY RoundFacts
<1>2. Counted(s)' /\ phase' # "off"
  <2>1. CountInv' /\ phase' = phase /\ phase # "off"
    BY RoundCounts DEF HUpdate, Update
  <2> QED
    BY <2>1 DEF CountInv, Running
<1>3. Debounced(SeenRounds(s)', n + 1) <=> s \in DOMAIN cur'
  BY <1>1, <1>2 DEF Counted, ListedCounts, UnlistedCounts
<1> QED
  BY <1>1, <1>3 DEF Was

\* servicelog.go, Update and StateAt: a round adds nothing to what the log says of the
\* rounds before it, but what is dated back.
LEMMA RoundSaysPast ==
    ASSUME IInv, CountInv, Dates, ListSays, RoundsSay, NEW saw \in Sighting, HUpdate(saw)
    PROVE  RoundsSay'
<1>1. PICK n \in Nat : n = N
  BY DEF CountInv, RoundsTyped, N
<1>2. Update(saw) /\ due /\ now \in Nat /\ startAt' = startAt /\ startAt \in 0..now
  BY DEF HUpdate, Update, IInv, Typed
<1> SUFFICES ASSUME NEW s \in Service, NEW k \in 1..N'
             PROVE  /\ Was(s, k)' => SaysThere(events', s, rounds'[k].t)
                    /\ Between(s, k)' => SaysGone(events', s, rounds'[k].t)
  BY DEF RoundsSay
<1>3. /\ N' = n + 1 /\ \A x \in 1..n : rounds'[x] = rounds[x]
      /\ rounds'[n + 1].t = now
      /\ \A x \in 0..n : Was(s, x)' <=> Was(s, x)
      /\ Was(s, n + 1)' <=> s \in DOMAIN cur'
  BY <1>1, RoundWas
<1>4. /\ Between(s, k)' => /\ ~Was(s, k)' /\ \E j \in 1..k : Was(s, j)'
                           /\ \A j \in k..n + 1 : Was(s, j)' => rounds'[j].t - startAt >= LearnPeriod
  BY <1>2, <1>3 DEF Between, Was, SeenRounds
<1>5. CASE k = n + 1
  <2>1. Was(s, k)' => SaysThere(events', s, now)
    BY <1>2, <1>3, <1>5, RoundListed
  <2>2. ASSUME Between(s, k)' PROVE SaysGone(events', s, now)
    <3>1. s \notin DOMAIN cur'
      BY <1>3, <1>4, <1>5, <2>2
    <3>2. PICK j \in 1..n + 1 : Was(s, j)'
      BY <1>4, <1>5, <2>2
    <3>3. j \in 1..N /\ Was(s, j)
      BY <1>1, <1>3, <3>1, <3>2
    <3>4. CASE s \in DOMAIN cur
      <4>1. s \in Vanishing(saw)
        BY <1>2, <3>1, <3>4, UpdateOf
      <4> QED
        BY <1>2, <4>1, RoundListed
    <3>5. CASE s \notin DOMAIN cur
      <4>1. SaysGone(events, s, now)
        BY <3>3, <3>5 DEF ListSays
      <4> QED
        BY <1>2, <3>1, <3>5, <4>1, RoundListed
    <3> QED
      BY <3>4, <3>5
  <2> QED
    BY <1>3, <1>5, <2>1, <2>2
<1>6. CASE k # n + 1
  <2>1. k \in 1..n
    BY <1>3, <1>6
  <2> DEFINE t == rounds[k].t
             r == RoundEvents(saw)
  <2>2. t \in startAt..now /\ t < now /\ t \in Int /\ rounds'[k].t = t
    <3>1. t \in startAt..now /\ t < now /\ rounds'[k] = rounds[k]
      BY <1>1, <1>2, <1>3, <2>1 DEF Dates
    <3> QED
      BY <1>2, <3>1
  <2> HIDE DEF t
  <2>3. /\ events \in Seq(Entry(now)) /\ r \in Seq(Entry(now))
        /\ SaysThere(events \o r, s, t) => SaysThere(events', s, t)
        /\ SaysGone(events \o r, s, t) => SaysGone(events', s, t)
    BY <1>2, <2>2, RoundExpires
  <2>4. \A l \in 1..Len(r) : /\ Gone(r[l], s) => r[l].ts = now
                             /\ There(r[l], s) /\ r[l].ts # now => s \in Admitted(saw) /\ Learning
    BY <1>2, RoundSays
  <2> HIDE DEF r
  <2>5. ASSUME Was(s, k)' PROVE SaysThere(events', s, t)
    <3>1. SaysThere(events, s, t)
      BY <1>1, <1>3, <2>1, <2>5 DEF RoundsSay, t
    <3>2. \A l \in 1..Len(r) : (r[l].ts <= t => ~Gone(r[l], s))
      BY <1>2, <2>2, <2>4
    <3> QED
      BY <2>2, <2>3, <3>1, <3>2, LongerSays
  <2>6. ASSUME Between(s, k)' PROVE SaysGone(events', s, t)
    <3>1. Between(s, k)
      <4>1. ~Was(s, k)
        BY <1>3, <1>4, <2>1, <2>6
      <4>2. PICK j \in 1..k : Was(s, j)'
        BY <1>4, <2>6
      <4>3. j \in 0..n /\ Was(s, j)
        BY <1>3, <2>1, <4>2
      <4>4. ASSUME NEW i \in k..n, Was(s, i) PROVE rounds[i].t - startAt >= LearnPeriod
        <5>1. i \in 0..n /\ i \in 1..n /\ i \in k..n + 1
          BY <2>1
        <5> QED
          BY <1>3, <1>4, <2>6, <4>4, <5>1
      <4> QED
        BY <1>1, <4>1, <4>2, <4>3, <4>4 DEF Between
    <3>2. SaysGone(events, s, t)
      BY <1>1, <2>1, <3>1 DEF RoundsSay, t
    <3>3. ~(s \in Admitted(saw) /\ Learning)
      <4> SUFFICES ASSUME s \in Admitted(saw), Learning PROVE FALSE
        OBVIOUS
      <4>1. s \notin DOMAIN cur
        BY DEF Admitted
      <4>2. s \in DOMAIN cur'
        BY <1>2, <4>1, UpdateOf DEF Vanishing
      <4>3. n + 1 \in k..n + 1
        BY <2>1
      <4>4. now - startAt >= LearnPeriod
        BY <1>3, <1>4, <2>6, <4>2, <4>3
      <4> QED
        BY <1>2, <4>4, ServiceLogAssumption DEF Learning
    <3>4. \A l \in 1..Len(r) : (r[l].ts <= t => ~There(r[l], s))
      BY <1>2, <2>2, <2>4, <3>3
    <3> QED
      BY <2>2, <2>3, <3>2, <3>4, LongerSays
  <2> QED
    BY <2>2, <2>5, <2>6
<1> QED
  BY <1>5, <1>6

LEMMA RoundAnswers ==
    ASSUME IInv, CountInv, AInv, NEW saw \in Sighting, HUpdate(saw)
    PROVE  AInv'
<1>1. PICK n \in Nat : n = N
  BY DEF CountInv, RoundsTyped, N
<1>2. /\ Update(saw) /\ due /\ due' = FALSE /\ now \in Nat /\ startAt \in 0..now /\ startAt > 0
      /\ now' = now /\ startAt' = startAt /\ phase' = phase /\ phase # "off" /\ off' = off
      /\ rounds' = Append(rounds, [t |-> now, obs |-> saw])
  BY DEF HUpdate, Update, IInv, Typed
<1>3. N' = n + 1 /\ (\A x \in 1..n : rounds'[x] = rounds[x]) /\ rounds'[n + 1].t = now
  BY <1>1, <1>2 DEF N, CountInv, RoundsTyped
<1>4. Dates'
  <2>1. ASSUME NEW k \in 1..N' PROVE rounds'[k].t \in startAt..now
    <3>1. CASE k = n + 1
      <4>1. rounds'[k].t = now
        BY <1>3, <3>1
      <4>2. now \in startAt..now
        BY <1>2
      <4> QED
        BY <4>1, <4>2
    <3>2. CASE k # n + 1
      BY <1>1, <1>3, <3>2 DEF AInv, Dates
    <3> QED
      BY <3>1, <3>2
  <2> QED
    BY <1>2, <2>1 DEF Dates
<1>5. OffPast'
  BY <1>2 DEF AInv, OffPast, Running
<1>6. RoundsSay'
  BY RoundSaysPast DEF AInv
<1>7. ListSays' /\ VanishKept'
  <2> SUFFICES ASSUME NEW s \in Service
               PROVE  /\ s \in DOMAIN cur' => SaysThere(events', s, now)
                      /\ s \notin DOMAIN cur' /\ (\E k \in 1..N' : Was(s, k)') => SaysGone(events', s, now)
                      /\ s \notin DOMAIN cur' => \A k \in 1..N' :
                           Was(s, k)' /\ rounds'[k].t >= now - Retain =>
                              \E i \in 1..Len(events') : Gone(events'[i], s) /\ events'[i].ts >= rounds'[k].t
    BY <1>2 DEF ListSays, VanishKept
  <2>1. /\ \A x \in 0..n : Was(s, x)' <=> Was(s, x)
        /\ Was(s, n + 1)' <=> s \in DOMAIN cur'
        /\ s \in DOMAIN cur /\ s \notin DOMAIN cur' => s \in Vanishing(saw)
    <3>1. DOMAIN cur' = (DOMAIN cur \union Admitted(saw)) \ Vanishing(saw)
      BY <1>2, UpdateOf
    <3> QED
      BY <1>1, <3>1, RoundWas
  <2>2. ASSUME s \notin DOMAIN cur', NEW k \in 1..N', Was(s, k)' PROVE k \in 1..N /\ k \in 1..n /\ Was(s, k)
    <3>1. k # n + 1
      BY <2>1, <2>2
    <3>2. k \in 1..n /\ k \in 0..n
      BY <1>3, <3>1
    <3> QED
      BY <1>1, <2>1, <2>2, <3>2
  <2>3. ASSUME s \notin DOMAIN cur', NEW k \in 1..N', Was(s, k)' PROVE SaysGone(events', s, now)
    <3>1. CASE s \in DOMAIN cur
      BY <1>2, <2>1, <2>3, <3>1, RoundListed DEF AInv
    <3>2. CASE s \notin DOMAIN cur
      <4>1. SaysGone(events, s, now)
        BY <2>2, <2>3, <3>2 DEF AInv, ListSays
      <4> QED
        BY <1>2, <2>3, <3>2, <4>1, RoundListed DEF AInv
    <3> QED
      BY <3>1, <3>2
  <2>4. ASSUME s \notin DOMAIN cur', NEW k \in 1..N', Was(s, k)', rounds'[k].t >= now - Retain
        PROVE  \E i \in 1..Len(events') : Gone(events'[i], s) /\ events'[i].ts >= rounds'[k].t
    <3>1. k \in 1..N /\ k \in 1..n /\ Was(s, k) /\ rounds'[k] = rounds[k]
      BY <1>3, <2>2, <2>4
    <3> DEFINE t == rounds[k].t
    <3>2. t \in Nat /\ t <= now /\ t >= now - Retain
      <4>1. t \in startAt..now
        BY <3>1 DEF AInv, Dates
      <4>2. t >= now - Retain
        BY <2>4, <3>1
      <4> QED
        BY <1>2, <4>1, <4>2
    <3>3. s \notin DOMAIN cur => \E i \in 1..Len(events) : Gone(events[i], s) /\ events[i].ts >= t
      BY <2>4, <3>1 DEF AInv, VanishKept
    <3> HIDE DEF t
    <3>4. \E i \in 1..Len(events') : Gone(events'[i], s) /\ events'[i].ts >= t
      BY <1>2, <2>4, <3>2, <3>3, RoundKeepsWords
    <3> QED
      BY <3>1, <3>4 DEF t
  <2>5. s \in DOMAIN cur' => SaysThere(events', s, now)
    BY <1>2, RoundListed DEF AInv
  <2> QED
    BY <2>3, <2>4, <2>5
<1> DEFINE r == RoundEvents(saw)
<1>8. /\ events \in Seq(Entry(now)) /\ r \in Seq(Entry(now))
      /\ \A t \in Int : SaysClosed(events \o r, t) => SaysClosed(events', t)
      /\ \A t \in Int : SaysOn(events \o r, t) => SaysOn(events', t)
      /\ SaysOff(events \o r, now) => SaysOff(events', now)
  <2>1. now \in Int
    BY <1>2
  <2> QED
    BY <1>2, <2>1, RoundExpires
<1>9. \A k \in 1..Len(r) : r[k].kind \notin {"up", "down"}
  BY <1>2, RoundSays
<1>10. \A k \in 1..Len(r) : r[k].ts = now \/ r[k].ts = startAt
  BY <1>2, RoundSays
<1> HIDE DEF r
<1>11. StopsSay'
  <2>1. /\ phase = "on" => SaysOn(events, startAt)
        /\ phase = "closing" => SaysOff(events, now)
    BY DEF AInv, StopsSay
  <2>2. /\ phase = "on" => SaysOn(events \o r, startAt)
        /\ phase = "closing" => SaysOff(events \o r, now)
    BY <1>8, <1>9, <2>1, LongerStops
  <2>3. startAt \in Int
    BY <1>2
  <2> QED
    BY <1>2, <1>8, <2>2, <2>3 DEF StopsSay
<1>12. GapsSay'
  <2> SUFFICES ASSUME NEW m \in off, m[2] PROVE SaysClosed(events', m[1])
    BY <1>2 DEF GapsSay
  <2> DEFINE t == m[1]
  <2>1. t \in Nat /\ t < startAt /\ SaysClosed(events, t)
    BY <1>2 DEF AInv, OffPast, GapsSay, Running
  <2> HIDE DEF t
  <2>2. t \in Int /\ \A k \in 1..Len(r) : ~(r[k].ts <= t)
    BY <1>2, <1>10, <2>1
  <2>3. SaysClosed(events \o r, t)
    BY <1>8, <2>1, <2>2, LongerSays
  <2> QED
    BY <1>8, <2>2, <2>3 DEF t
<1> QED
  BY <1>4, <1>5, <1>6, <1>7, <1>11, <1>12 DEF AInv
-----------------------------------------------------------------------------
(* Starts, stops, crashes and the clock keep what the log says *)

\* A single event that is of no service.
LEMMA OneMoreEvent ==
    ASSUME NEW S, NEW q \in Seq(S), NEW e \in S, e.kind \in {"up", "down"}, NEW t \in Int
    PROVE  /\ Append(q, e) = q \o <<e>> /\ <<e>> \in Seq(S)
           /\ \A s : SaysThere(q, s, t) => SaysThere(Append(q, e), s, t)
           /\ \A s : SaysGone(q, s, t) => SaysGone(Append(q, e), s, t)
           /\ SaysClosed(q, t) /\ ~(e.ts <= t) => SaysClosed(Append(q, e), t)
<1> DEFINE b == <<e>>
<1>1. b \in Seq(S) /\ Len(b) = 1 /\ b[1] = e /\ Append(q, e) = q \o b
  OBVIOUS
<1>2. \A k \in 1..Len(b) : b[k] = e
  BY <1>1
<1>3. \A s : ~Gone(e, s) /\ ~There(e, s)
  BY DEF Gone, There, Of
<1> HIDE DEF b
<1>4. /\ \A s : SaysThere(q, s, t) => SaysThere(q \o b, s, t)
      /\ \A s : SaysGone(q, s, t) => SaysGone(q \o b, s, t)
      /\ SaysClosed(q, t) /\ ~(e.ts <= t) => SaysClosed(q \o b, t)
  BY <1>1, <1>2, <1>3, LongerSays
<1> QED
  BY <1>1, <1>4 DEF b

\* The rounds of this life are the same.
LEMMA SameRounds ==
    ASSUME UNCHANGED <<rounds, startAt>>
    PROVE  /\ N' = N /\ \A s, k : (Was(s, k)' <=> Was(s, k)) /\ (Between(s, k)' <=> Between(s, k))
<1>1. N' = N /\ \A s : SeenRounds(s)' = SeenRounds(s)
  BY DEF N, SeenRounds, SeenIn
<1>2. \A s, k : Was(s, k)' <=> Was(s, k)
  BY <1>1 DEF Was
<1> QED
  BY <1>1, <1>2 DEF Between

LEMMA LoadAnswers ==
    ASSUME IInv, AInv, Load, rounds' = <<>>, off' = off
    PROVE  AInv'
<1>1. /\ now \in Nat /\ now > 0 /\ now' = now /\ startAt' = now /\ phase' = "on" /\ DOMAIN cur' = {}
      /\ events \in Seq(Entry(now)) /\ N' = 0
  BY NobodySeen DEF IInv, Typed, Load, N
<1> DEFINE p == Expire(events, now)
           e == Up(now)
<1>2. /\ p \in Seq(Entry(now)) /\ events' = Append(p, e) /\ Timed(Entry(now))
      /\ \E c \in 0..Len(events) : Cut(p, events, c, now)
  BY <1>1, Expired, ExpiryCuts, EntryFacts DEF Load
<1>3. e \in Entry(now) /\ e.kind = "up" /\ e.ts = now
  BY <1>1 DEF Up, Entry
<1> HIDE DEF p, e
<1>4. Dates' /\ OffPast' /\ ListSays' /\ VanishKept' /\ RoundsSay'
  BY <1>1 DEF AInv, Dates, OffPast, ListSays, VanishKept, RoundsSay, Running
<1>5. SaysOn(Append(p, e), now)
  <2> DEFINE q == Append(p, e)
  <2>1. q \in Seq(Entry(now)) /\ Len(q) = Len(p) + 1 /\ Len(p) \in Nat /\ q[Len(p) + 1] = e
    BY <1>2, <1>3, AppendProperties
  <2> HIDE DEF q
  <2>2. Till(q, now) = 1..Len(q)
    BY <1>1, <2>1, EntryFacts
  <2>3. \A d \in 1..Len(q) : q[d].kind = "down" => d < Len(p) + 1
    BY <1>3, <2>1
  <2>4. Len(p) + 1 \in 1..Len(q)
    BY <2>1
  <2> QED
    BY <1>3, <2>1, <2>2, <2>3, <2>4 DEF SaysOn, q
<1>6. StopsSay'
  BY <1>1, <1>2, <1>5 DEF StopsSay
<1>7. GapsSay'
  <2> SUFFICES ASSUME NEW m \in off, m[2] PROVE SaysClosed(events', m[1])
    BY DEF GapsSay
  <2> DEFINE t == m[1]
  <2>1. t \in Nat /\ t < now /\ SaysClosed(events, t)
    BY DEF AInv, OffPast, GapsSay
  <2> HIDE DEF t
  <2>2. PICK c : Cut(p, events, c, now)
    BY <1>2
  <2>3. SaysClosed(p, t)
    BY <1>1, <1>2, <2>1, <2>2, CutSays
  <2>4. ~(e.ts <= t)
    BY <1>1, <1>3, <2>1
  <2>5. p \in Seq(Entry(now)) /\ e \in Entry(now) /\ e.kind \in {"up", "down"} /\ t \in Int
    BY <1>2, <1>3, <2>1
  <2>6. SaysClosed(Append(p, e), t)
    BY <2>3, <2>4, <2>5, OneMoreEvent
  <2> QED
    BY <1>2, <2>6 DEF t
<1> QED
  BY <1>4, <1>6, <1>7 DEF AInv

LEMMA CloseAnswers ==
    ASSUME IInv, AInv, Close, UNCHANGED <<rounds, off>>
    PROVE  AInv'
<1>1. /\ now \in Nat /\ startAt \in 1..now /\ now' = now /\ startAt' = startAt /\ due' = due
      /\ phase = "on" /\ phase' = "closing" /\ cur' = cur /\ rounds' = rounds /\ off' = off
      /\ events \in Seq(Entry(now))
  BY DEF IInv, Typed, Close
<1> DEFINE e == Down(now)
<1>2. events' = Append(events, e)
  BY DEF Close
<1>3. e \in Entry(now) /\ e.kind = "down" /\ e.ts = now
  BY <1>1 DEF Down, Entry
<1> HIDE DEF e
<1>4. /\ \A t \in Int : \A s : SaysThere(events, s, t) => SaysThere(events', s, t)
      /\ \A t \in Int : \A s : SaysGone(events, s, t) => SaysGone(events', s, t)
      /\ \A t \in Int : SaysClosed(events, t) /\ ~(now <= t) => SaysClosed(events', t)
  BY <1>1, <1>2, <1>3, OneMoreEvent
<1>5. N' = N /\ \A s, k : (Was(s, k)' <=> Was(s, k)) /\ (Between(s, k)' <=> Between(s, k))
  BY <1>1, SameRounds
<1>6. Dates' /\ OffPast'
  BY <1>1, <1>5 DEF AInv, Dates, OffPast, Running
<1>7. ListSays'
  BY <1>1, <1>4, <1>5 DEF AInv, ListSays
<1>8. Len(events') = Len(events) + 1 /\ Len(events) \in Nat /\ events'[Len(events) + 1] = e
      /\ \A i \in 1..Len(events) : events'[i] = events[i] /\ i \in 1..Len(events')
  BY <1>1, <1>2, <1>3, AppendProperties
<1>9. VanishKept'
  BY <1>1, <1>5, <1>8 DEF AInv, VanishKept
<1>10. RoundsSay'
  <2>1. \A k \in 1..N : rounds[k].t \in Int
    BY <1>1 DEF AInv, Dates
  <2> QED
    BY <1>1, <1>4, <1>5, <2>1 DEF AInv, RoundsSay
<1>11. StopsSay'
  <2>1. Len(events) + 1 \in 1..Len(events') /\ (Len(events) + 1) + 1 .. Len(events') = {}
    BY <1>8
  <2>2. SaysOff(events', now)
    BY <1>3, <1>8, <2>1 DEF SaysOff
  <2> QED
    BY <1>1, <2>2 DEF StopsSay
<1>12. GapsSay'
  <2> SUFFICES ASSUME NEW m \in off, m[2] PROVE SaysClosed(events', m[1])
    BY <1>1 DEF GapsSay
  <2> DEFINE t == m[1]
  <2>1. t \in Nat /\ t < now /\ SaysClosed(events, t)
    BY DEF AInv, OffPast, GapsSay
  <2> HIDE DEF t
  <2>2. SaysClosed(events', t)
    BY <1>1, <1>4, <2>1
  <2> QED
    BY <2>2 DEF t
<1> QED
  BY <1>6, <1>7, <1>9, <1>10, <1>11, <1>12 DEF AInv

\* main.go: a clean stop leaves a log that ends with it; a crash claims nothing.
LEMMA StopAnswers ==
    ASSUME IInv, AInv, Exit \/ (Crash /\ ~clean'), UNCHANGED <<rounds, off>>
    PROVE  AInv'
<1>1. /\ now \in Nat /\ now' = now /\ startAt' = startAt /\ due' = due
      /\ phase' = "off" /\ cur' = cur /\ events' = events /\ rounds' = rounds /\ off' = off
      /\ events \in Seq(Entry(now)) /\ (clean' => phase = "closing")
  BY DEF IInv, Typed, Exit, Crash
<1>2. N' = N /\ \A s, k : (Was(s, k)' <=> Was(s, k)) /\ (Between(s, k)' <=> Between(s, k))
  BY <1>1, SameRounds
<1>3. Dates' /\ OffPast' /\ ListSays' /\ VanishKept' /\ RoundsSay' /\ GapsSay'
  BY <1>1, <1>2 DEF AInv, Dates, OffPast, ListSays, VanishKept, RoundsSay, GapsSay, Running
<1>4. ASSUME phase = "closing" PROVE SaysClosed(events, now)
  <2>1. PICK d \in 1..Len(events) : /\ events[d].kind = "down" /\ events[d].ts = now
                                    /\ \A j \in d + 1 .. Len(events) : events[j].kind # "up"
    BY <1>4 DEF AInv, StopsSay, SaysOff
  <2>2. Till(events, now) = 1..Len(events) /\ \A j \in 1..Len(events) : events[j].ts <= now
    BY <1>1, EntryFacts
  <2>3. Len(events) \in Nat
    BY <1>1
  <2>4. \A j \in 1..Len(events) : d < j => j \in d + 1 .. Len(events)
    BY <2>3
  <2> QED
    BY <2>1, <2>2, <2>4 DEF SaysClosed, Closed
<1>5. StopsSay'
  BY <1>1, <1>4 DEF StopsSay
<1> QED
  BY <1>3, <1>5 DEF AInv

LEMMA MinuteAnswers ==
    ASSUME IInv, AInv, Minute, rounds' = rounds, clean' = clean,
           off' = off \/ (phase = "off" /\ off' = off \union {<<now, clean>>})
    PROVE  AInv'
<1>1. /\ now \in Nat /\ startAt \in 0..now /\ now' = now + 1 /\ startAt' = startAt
      /\ phase' = phase /\ cur' = cur /\ events' = events
      /\ events \in Seq(Entry(now)) /\ phase # "closing"
  BY DEF IInv, Typed, Minute
<1>2. N' = N /\ \A s, k : (Was(s, k)' <=> Was(s, k)) /\ (Between(s, k)' <=> Between(s, k))
  BY <1>1, SameRounds
<1>3. Till(events, now + 1) = Till(events, now)
  <2>1. Entry(now) \subseteq Entry(now + 1)
    BY <1>1, EntriesGrow
  <2>2. events \in Seq(Entry(now + 1)) /\ now + 1 \in Nat
    BY <1>1, <2>1, SeqGrows
  <2> QED
    BY <1>1, <2>2, EntryFacts
<1>4. \A k \in 1..N : rounds[k].t \in startAt..now
  BY DEF AInv, Dates
<1>5. Dates'
  BY <1>1, <1>2, <1>4 DEF Dates
<1>6. OffPast'
  <2>1. ASSUME NEW m \in off PROVE m[1] \in Nat /\ m[1] < now + 1 /\ (Running => m[1] < startAt)
    BY <1>1 DEF AInv, OffPast
  <2>2. phase = "off" => ~Running
    BY DEF Running
  <2>3. now < now + 1 /\ <<now, clean>>[1] = now
    BY <1>1
  <2> QED
    BY <1>1, <2>1, <2>2, <2>3 DEF OffPast, Running
<1>7. /\ \A s : SaysThere(events, s, now + 1) <=> SaysThere(events, s, now)
      /\ \A s : SaysGone(events, s, now + 1) <=> SaysGone(events, s, now)
      /\ SaysClosed(events, now + 1) <=> SaysClosed(events, now)
  BY <1>3 DEF SaysThere, SaysGone, SaysClosed, Closed
<1>8. ListSays'
  BY <1>1, <1>2, <1>7 DEF AInv, ListSays
<1>9. VanishKept'
  <2>1. \A k \in 1..N : rounds[k].t >= (now + 1) - Retain => rounds[k].t >= now - Retain
    BY <1>1, <1>4, ServiceLogAssumption
  <2> QED
    BY <1>1, <1>2, <2>1 DEF AInv, VanishKept
<1>10. RoundsSay'
  BY <1>1, <1>2 DEF AInv, RoundsSay
<1>11. StopsSay'
  BY <1>1, <1>7 DEF AInv, StopsSay
<1>12. GapsSay'
  <2>1. <<now, clean>>[1] = now /\ <<now, clean>>[2] = clean
    OBVIOUS
  <2> QED
    BY <1>1, <2>1 DEF AInv, StopsSay, GapsSay
<1> QED
  BY <1>5, <1>6, <1>8, <1>9, <1>10, <1>11, <1>12 DEF AInv

LEMMA AnswersKept == IInv /\ CountInv /\ AInv /\ [HNext]_hvars => AInv'
<1> SUFFICES ASSUME IInv, CountInv, AInv, [HNext]_hvars PROVE AInv'
  OBVIOUS
<1>1. CASE \E saw \in Sighting : HUpdate(saw)
  BY <1>1, RoundAnswers
<1>2. CASE Load /\ rounds' = <<>> /\ off' = off
  BY <1>2, LoadAnswers
<1>3. CASE Close /\ UNCHANGED <<rounds, off>>
  BY <1>3, CloseAnswers
<1>4. CASE (Exit \/ (Crash /\ ~clean')) /\ UNCHANGED <<rounds, off>>
  BY <1>4, StopAnswers
<1>5. CASE /\ Minute /\ rounds' = rounds /\ clean' = clean
           /\ off' = off \/ (phase = "off" /\ off' = off \union {<<now, clean>>})
  BY <1>5, MinuteAnswers
<1>6. CASE UNCHANGED hvars
  <2>1. UNCHANGED <<now, phase, due, startAt, cur, events, rounds, off, clean>>
    BY <1>6 DEF hvars, vars
  <2>2. N' = N /\ \A s, k : (Was(s, k)' <=> Was(s, k)) /\ (Between(s, k)' <=> Between(s, k))
    BY <2>1, SameRounds
  <2> QED
    BY <2>1, <2>2 DEF AInv, Dates, OffPast, ListSays, VanishKept, RoundsSay, StopsSay, GapsSay, Running
<1> QED
  BY <1>1, <1>2, <1>3, <1>4, <1>5, <1>6 DEF HNext
-----------------------------------------------------------------------------
(* What the look-ups answer *)

LEMMA Greatest ==
    ASSUME NEW n \in Nat, NEW I \in SUBSET (1..n), I # {}
    PROVE  \E m \in I : (\A j \in I : j <= m) /\ m = CHOOSE i \in I : \A j \in I : j <= i
<1> DEFINE D == {j \in 1..n : \E i \in I : j <= i}
           m == Cardinality(D)
<1>1. D \in SUBSET (1..n) /\ \A i \in D : \A j \in 1..i : j \in D
  <2>1. ASSUME NEW i \in D, NEW j \in 1..i PROVE j \in D
    <3>1. PICK k \in I : i <= k
      OBVIOUS
    <3>2. j \in 1..n /\ j <= k
      BY <3>1
    <3> QED
      BY <3>2
  <2> QED
    BY <2>1
<1>2. I \subseteq D
  OBVIOUS
<1>3. m \in 0..n /\ D = 1..m
  <2> HIDE DEF D
  <2> QED
    BY <1>1, Prefix
<1>4. m \in D
  <2>1. PICK i \in I : i \in D
    BY <1>2
  <2> HIDE DEF D, m
  <2> QED
    BY <1>3, <2>1
<1>5. PICK i \in I : m <= i
  BY <1>4
<1>6. \A j \in I : j <= m /\ j \in Nat
  <2> HIDE DEF D, m
  <2> QED
    BY <1>2, <1>3
<1> HIDE DEF D, m
<1>7. i = m
  BY <1>3, <1>5, <1>6
<1>8. m \in I /\ (\A j \in I : j <= m) /\ \A k \in I : (\A j \in I : j <= k) => k = m
  BY <1>3, <1>5, <1>6, <1>7
<1>9. m = CHOOSE k \in I : \A j \in I : j <= k
  BY <1>8
<1> QED
  BY <1>8, <1>9

\* stateAtLocked: two positions decide, that of the newest start or stop and that
\* of the newest event of the service.
LEMMA AnswerAt ==
    ASSUME Len(events) \in Nat, NEW s, NEW t
    PROVE  LET K     == Till(events, t)
               watch == {i \in K : events[i].kind \in {"up", "down"}}
               mine  == {i \in K : Of(events[i], s)}
           IN  /\ watch # {} => \E w \in watch : /\ \A j \in watch : j <= w
                                                 /\ events[w].kind = "down" => StateAt(s, t) = "unknown"
               /\ mine = {} => StateAt(s, t) = "unknown"
               /\ mine # {} /\ (\A w \in watch : events[w].kind = "down" =>
                                    \E j \in watch : ~(j <= w))
                    => \E m \in mine : /\ \A j \in mine : j <= m
                                       /\ StateAt(s, t) = IF events[m].kind = "vanish" THEN "no" ELSE "yes"
<1> DEFINE K == Till(events, t)
           watch == {i \in K : events[i].kind \in {"up", "down"}}
           mine == {i \in K : Of(events[i], s)}
           Top(I) == CHOOSE i \in I : \A j \in I : j <= i
<1>1. StateAt(s, t) =
          IF watch # {} /\ events[Top(watch)].kind = "down" THEN "unknown"
          ELSE IF mine = {} THEN "unknown"
          ELSE IF events[Top(mine)].kind = "vanish" THEN "no" ELSE "yes"
  BY DEF StateAt, UpTo, Till
<1>2. watch \in SUBSET (1..Len(events)) /\ mine \in SUBSET (1..Len(events))
  BY DEF Till
<1> HIDE DEF watch, mine
<1>3. watch # {} => Top(watch) \in watch /\ \A j \in watch : j <= Top(watch)
  BY <1>2, Greatest
<1>4. mine # {} => Top(mine) \in mine /\ \A j \in mine : j <= Top(mine)
  BY <1>2, Greatest
<1> HIDE DEF Top
<1>5. watch # {} => \E w \in watch : /\ \A j \in watch : j <= w
                                     /\ events[w].kind = "down" => StateAt(s, t) = "unknown"
  BY <1>1, <1>3
<1>6. mine = {} => StateAt(s, t) = "unknown"
  BY <1>1
<1>7. mine # {} /\ (\A w \in watch : events[w].kind = "down" => \E j \in watch : ~(j <= w))
        => \E m \in mine : /\ \A j \in mine : j <= m
                           /\ StateAt(s, t) = IF events[m].kind = "vanish" THEN "no" ELSE "yes"
  BY <1>1, <1>3, <1>4
<1> QED
  BY <1>5, <1>6, <1>7 DEF watch, mine

\* A minute that nodedata was stopped in is unknown.
LEMMA ClosedIsUnknown ==
    ASSUME Len(events) \in Nat, NEW s, NEW t, SaysClosed(events, t)
    PROVE  StateAt(s, t) = "unknown"
<1> DEFINE K == Till(events, t)
           watch == {i \in K : events[i].kind \in {"up", "down"}}
           mine == {i \in K : Of(events[i], s)}
<1>1. CASE mine = {}
  BY <1>1, AnswerAt
<1>2. CASE mine # {}
  <2>1. PICK i \in K : events[i].kind \notin {"up", "down"}
    BY <1>2 DEF Of
  <2>2. PICK d \in K : events[d].kind = "down" /\ \A j \in K : d < j => events[j].kind # "up"
    BY <2>1 DEF SaysClosed, Closed
  <2>3. d \in watch /\ K \subseteq Int
    BY <2>2 DEF Till
  <2>4. PICK w \in watch : (\A j \in watch : j <= w) /\ (events[w].kind = "down" => StateAt(s, t) = "unknown")
    BY <2>3, AnswerAt
  <2>5. w = d \/ d < w
    BY <2>3, <2>4
  <2>6. events[w].kind = "down"
    BY <2>2, <2>5
  <2> QED
    BY <2>4, <2>6
<1> QED
  BY <1>1, <1>2

\* In this life, the newest event of the service decides.
LEMMA NewestDecides ==
    ASSUME Len(events) \in Nat, NEW s, NEW t \in Int, startAt \in Int, startAt <= t,
           \A i \in 1..Len(events) : events[i].ts \in Int,
           SaysOn(events, startAt), StillKept(s, t)
    PROVE  /\ SaysThere(events, s, t) => StateAt(s, t) = "yes"
           /\ SaysGone(events, s, t) => StateAt(s, t) = "no"
<1> DEFINE K == Till(events, t)
           watch == {i \in K : events[i].kind \in {"up", "down"}}
           mine == {i \in K : Of(events[i], s)}
<1>1. K \subseteq 1..Len(events) /\ K \subseteq Int /\ mine # {}
  BY DEF StillKept, Till
<1>2. Till(events, startAt) \subseteq K
  <2> SUFFICES ASSUME NEW i \in Till(events, startAt) PROVE i \in K
    OBVIOUS
  <2>1. i \in 1..Len(events) /\ \A j \in 1..i : j \in 1..Len(events) /\ events[j].ts <= startAt
    BY DEF Till
  <2>2. \A j \in 1..i : events[j].ts <= t
    BY <2>1
  <2> QED
    BY <2>1, <2>2 DEF Till
<1>3. ASSUME NEW w \in watch, events[w].kind = "down"
      PROVE  \E j \in watch : ~(j <= w)
  <2>1. PICK u \in Till(events, startAt) : w < u /\ events[u].kind = "up"
    BY <1>1, <1>3 DEF SaysOn
  <2>2. u \in watch /\ ~(u <= w)
    BY <1>1, <1>2, <2>1
  <2> QED
    BY <2>2
<1>4. PICK m \in mine : /\ \A j \in mine : j <= m
                        /\ StateAt(s, t) = IF events[m].kind = "vanish" THEN "no" ELSE "yes"
  BY <1>1, <1>3, AnswerAt
<1>5. \A j \in K : m < j => ~Of(events[j], s)
  BY <1>1, <1>4
<1>6. ASSUME SaysThere(events, s, t) PROVE events[m].kind # "vanish"
  BY <1>4, <1>5, <1>6 DEF SaysThere, Gone, There
<1>7. ASSUME SaysGone(events, s, t) PROVE events[m].kind = "vanish"
  BY <1>4, <1>5, <1>7 DEF SaysGone, Gone, There
<1> QED
  BY <1>4, <1>6, <1>7

LEMMA AnswersHold == HSpec => [](IInv /\ CountInv /\ AInv)
<1>1. HInit => IInv /\ CountInv /\ AInv
  <2> SUFFICES ASSUME HInit PROVE IInv /\ CountInv /\ AInv
    OBVIOUS
  <2>1. /\ events = <<>> /\ Len(events) = 0 /\ 1..0 = {} /\ N = 0 /\ phase = "off" /\ off = {}
        /\ DOMAIN cur = {}
    BY NobodySeen DEF HInit, Init, N
  <2>2. IInv /\ CountInv
    BY Starts DEF HInit, Init, CountInv, Running, RoundsTyped
  <2>3. Till(events, now) = {}
    BY <2>1 DEF Till
  <2>4. AInv
    BY <2>1, <2>3
       DEF AInv, Dates, OffPast, ListSays, VanishKept, RoundsSay, StopsSay, GapsSay, SaysClosed
  <2> QED
    BY <2>2, <2>4
<1>2. [HNext]_hvars => [Next]_vars
  BY DEF HNext, HUpdate, hvars, Next
<1>3. IInv /\ CountInv /\ AInv /\ [HNext]_hvars => (IInv /\ CountInv /\ AInv)'
  BY <1>2, Inductive, CountsKept, AnswersKept
<1> QED
  BY <1>1, <1>3, PTL DEF HSpec

\* What the log and the list say gives the answers.
LEMMA AnswersImplied == IInv /\ CountInv /\ AInv => AnswersTrue
<1> SUFFICES ASSUME IInv, CountInv, AInv PROVE AnswersTrue
  OBVIOUS
<1>1. /\ now \in Nat /\ startAt \in Nat /\ N \in Nat /\ Len(events) \in Nat /\ RoundsTyped
      /\ events \in Seq(Entry(now)) /\ \A k \in 1..N : rounds[k].t \in startAt..now
  BY DEF IInv, Typed, CountInv, RoundsTyped, N, AInv, Dates
<1>2. (\A i \in 1..Len(events) : events[i].ts \in Int) /\ Till(events, now) = 1..Len(events)
  BY <1>1, EntryFacts
<1>3. \A s : \A k \in 0..N : ListedAfter(s, k) <=> Was(s, k)
  BY <1>1, ListedIsDebounced DEF Was
<1>4. StateAtTellsList
  <2> SUFFICES ASSUME phase = "on", NEW s \in Service, NEW k \in 1..N, StillKept(s, rounds[k].t)
               PROVE  /\ ListedAfter(s, k) => StateAt(s, rounds[k].t) = "yes"
                      /\ (/\ ~ListedAfter(s, k)
                          /\ \E j \in 1..k : ListedAfter(s, j)
                          /\ \A j \in k..N : ListedAfter(s, j) => rounds[j].t - startAt >= LearnPeriod)
                            => StateAt(s, rounds[k].t) = "no"
    BY DEF StateAtTellsList
  <2> DEFINE t == rounds[k].t
  <2>1. t \in Int /\ startAt \in Int /\ startAt <= t
    BY <1>1
  <2>2. SaysOn(events, startAt)
    BY DEF AInv, StopsSay
  <2> HIDE DEF t
  <2>3. StillKept(s, t)
    BY DEF t
  <2>4. /\ SaysThere(events, s, t) => StateAt(s, t) = "yes"
        /\ SaysGone(events, s, t) => StateAt(s, t) = "no"
    BY <1>1, <1>2, <2>1, <2>2, <2>3, NewestDecides
  <2>5. /\ Was(s, k) => SaysThere(events, s, t)
        /\ Between(s, k) => SaysGone(events, s, t)
    BY DEF AInv, RoundsSay, t
  <2>6. \A j \in 1..k : j \in 0..N
    BY <1>1
  <2>7. \A j \in k..N : j \in 0..N
    BY <1>1
  <2>8. k \in 0..N
    BY <1>1
  <2>9. (/\ ~ListedAfter(s, k)
         /\ \E j \in 1..k : ListedAfter(s, j)
         /\ \A j \in k..N : ListedAfter(s, j) => rounds[j].t - startAt >= LearnPeriod)
          => Between(s, k)
    BY <1>3, <2>6, <2>7, <2>8 DEF Between
  <2>10. ListedAfter(s, k) => Was(s, k)
    BY <1>3, <2>8
  <2> QED
    BY <2>4, <2>5, <2>9, <2>10 DEF t
<1>5. CleanGapUnknown
  <2> SUFFICES ASSUME NEW m \in off, m[2], NEW s \in Service PROVE StateAt(s, m[1]) = "unknown"
    BY DEF CleanGapUnknown
  <2>1. SaysClosed(events, m[1])
    BY DEF AInv, GapsSay
  <2> QED
    BY <1>1, <2>1, ClosedIsUnknown
<1>6. NoSilentLossInLife
  <2> SUFFICES ASSUME NEW s \in Service, s \notin DOMAIN cur,
                      NEW k \in 1..N, ListedAfter(s, k), rounds[k].t >= now - Retain
               PROVE  s \in Vanished
    BY DEF NoSilentLossInLife
  <2>1. Was(s, k)
    <3>1. k \in 0..N
      BY <1>1
    <3> QED
      BY <1>3, <3>1
  <2>2. PICK i \in 1..Len(events) : Gone(events[i], s)
    BY <2>1 DEF AInv, VanishKept
  <2>3. SaysGone(events, s, now)
    BY <2>1 DEF AInv, ListSays
  <2> DEFINE mine == {j \in 1..Len(events) : Of(events[j], s)}
  <2>4. i \in mine /\ mine \in SUBSET (1..Len(events))
    BY <2>2 DEF Gone
  <2> HIDE DEF mine
  <2>5. PICK m \in mine : \A j \in mine : j <= m
    BY <1>1, <2>4, Greatest
  <2>6. m \in 1..Len(events) /\ Of(events[m], s) /\ \A j \in m + 1 .. Len(events) : ~Of(events[j], s)
    <3>1. \A j \in m + 1 .. Len(events) : j \in 1..Len(events) /\ ~(j <= m)
      BY <1>1, <2>4
    <3> QED
      BY <2>5, <3>1 DEF mine
  <2>7. \A j \in 1..Len(events) : m < j => j \in m + 1 .. Len(events)
    BY <1>1, <2>6
  <2>8. events[m].kind = "vanish" /\ events[m].id = s
    BY <1>2, <2>3, <2>6, <2>7 DEF SaysGone, There, Gone, Of
  <2> QED
    BY <2>6, <2>8 DEF Vanished
<1> QED
  BY <1>4, <1>5, <1>6 DEF AnswersTrue

\* servicelog.go, StateAt and Vanished: for any services, looks, thresholds, learning
\* period and retention, through clean stops, crashes and restarts, the answers of the
\* log agree with what the rounds saw.
THEOREM AnswersAreTrue == HSpec => []AnswersTrue
<1> QED
  BY AnswersHold, AnswersImplied, PTL
=============================================================================
