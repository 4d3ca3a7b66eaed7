------------------------------- MODULE ServiceLog -------------------------------
(***************************************************************************)
(* The service event log of nodedata serve (cmd/nodedata: servicelog.go,   *)
(* serviceLoop of main.go): which services are listed, what appeared,      *)
(* vanished or restarted, and when nodedata itself was watching.           *)
(*                                                                         *)
(* Time counts the minutes of serviceLoop: one round per unit.  A round    *)
(* sees an arbitrary set of services, each with its start time and its     *)
(* memory (RSS); the other fields of a service only travel along.  The     *)
(* file services.jsonl and the events in memory are one sequence: every    *)
(* append goes to both and every rewrite is renamed into place (a write    *)
(* that fails is not modelled).  A crash loses the maps, not the events.   *)
(*                                                                         *)
(* A definition marked "Faulty:" is a plausible mistake in the code of the *)
(* definition after it; nothing uses it (see FleetPoller).                 *)
(***************************************************************************)
EXTENDS Integers, Sequences, FiniteSets, SequencesExt

CONSTANTS
    Service,        \* service identities (name and ports)
    Look,           \* how a service may look: records of its start time and its RSS
    MinSeen,        \* minSeenRounds
    VanishConfirm,  \* vanishConfirm
    LearnPeriod,    \* learnPeriod, in rounds
    Retain,         \* retention of events, in rounds
    MaxTime,        \* bound of the model: the clock stops here
    MaxLives        \* bound of the model: starts of nodedata

ASSUME ServiceLogAssumption ==
    /\ IsFiniteSet(Service)
    /\ MinSeen \in Nat \ {0} /\ VanishConfirm \in Nat \ {0}
    /\ LearnPeriod \in Nat \ {0} /\ Retain \in Nat
    /\ \A x \in Look : x.rss \in Nat \ {0}
    /\ MaxTime \in Nat /\ MaxLives \in Nat

VARIABLES
    now,       \* the clock
    phase,     \* "off", "on", "closing" (Close done, the process not gone yet)
    due,       \* serviceLoop's next round is due
    startAt,   \* ServiceLog.startAt
    cur,       \* ServiceLog.cur: listed service |-> how it was last seen
    missing,   \* ServiceLog.missing (0: no entry)
    seenRounds,\* ServiceLog.seenRounds (0: no entry)
    peakRSS,   \* ServiceLog.peakRSS (0: no entry)
    lastSeen,  \* ServiceLog.lastSeen (0: no entry)
    events,    \* ServiceLog.events and the file
    lives      \* starts so far

vars == <<now, phase, due, startAt, cur, missing, seenRounds, peakRSS, lastSeen,
          events, lives>>

RSS == {x.rss : x \in Look}
Sighting == UNION {[S -> Look] : S \in SUBSET Service}
Zeros == [s \in Service |-> 0]
NoService == [s \in {} |-> 0]

Init ==
    /\ now = 1 /\ phase = "off" /\ due = FALSE /\ startAt = 0
    /\ cur = NoService
    /\ missing = Zeros /\ seenRounds = Zeros /\ peakRSS = Zeros /\ lastSeen = Zeros
    /\ events = <<>> /\ lives = 0

-----------------------------------------------------------------------------
(* Events *)

Up(t) == [ts |-> t, kind |-> "up"]
Down(t) == [ts |-> t, kind |-> "down"]
Appear(s, t) == [ts |-> t, kind |-> "appear", id |-> s]
Restart(s, t) == [ts |-> t, kind |-> "restart", id |-> s]
Vanish(s, t, last, peak, seen) ==
    [ts |-> t, kind |-> "vanish", id |-> s, last |-> last, peak |-> peak, seenAt |-> seen]

Of(e, s) == e.kind \in {"appear", "restart", "vanish"} /\ e.id = s

\* expireLocked: drop the prefix of events older than the retention.
Expire(evs, t) ==
    LET old == {i \in 1..Len(evs) : \A j \in 1..i : evs[j].ts < t - Retain}
    IN  SubSeq(evs, Cardinality(old) + 1, Len(evs))

-----------------------------------------------------------------------------
(* nodedata starts, stops and crashes *)

\* NewServiceLog and Load: empty maps, the events of the file, an "up" event.
Load ==
    /\ phase = "off" /\ lives < MaxLives
    /\ phase' = "on" /\ due' = TRUE /\ startAt' = now /\ lives' = lives + 1
    /\ cur' = NoService
    /\ missing' = Zeros /\ seenRounds' = Zeros /\ peakRSS' = Zeros /\ lastSeen' = Zeros
    /\ events' = Append(Expire(events, now), Up(now))
    /\ UNCHANGED now

\* Close, run by shutdown().  serviceLoop is not joined: a round that is due
\* may still come after the "down" event.
Close ==
    /\ phase = "on"
    /\ phase' = "closing"
    /\ events' = Append(events, Down(now))
    /\ UNCHANGED <<now, due, startAt, cur, missing, seenRounds, peakRSS, lastSeen, lives>>

\* main returns.
Exit ==
    /\ phase = "closing"
    /\ phase' = "off"
    /\ UNCHANGED <<now, due, startAt, cur, missing, seenRounds, peakRSS, lastSeen, events, lives>>

\* SIGKILL, OOM or power failure: no Close.
Crash ==
    /\ phase = "on"
    /\ phase' = "off"
    /\ UNCHANGED <<now, due, startAt, cur, missing, seenRounds, peakRSS, lastSeen, events, lives>>

\* A minute passes, with nodedata running or not.
Minute ==
    /\ now < MaxTime
    /\ phase = "off" \/ (phase = "on" /\ ~due)
    /\ now' = now + 1
    /\ due' = (phase = "on")
    /\ UNCHANGED <<phase, startAt, cur, missing, seenRounds, peakRSS, lastSeen, events, lives>>

-----------------------------------------------------------------------------
(* Update: one round of serviceLoop *)

Learning == now - startAt < LearnPeriod

\* Services that have now been seen often enough in a row to be listed.
Admitted(obs) == {s \in DOMAIN obs \ DOMAIN cur : seenRounds[s] + 1 >= MinSeen}

\* Listed services seen in this round, or listed by it.
Seen(obs) == (DOMAIN obs \cap DOMAIN cur) \cup Admitted(obs)

\* Listed services with a new start time.
Restarted(obs) == {s \in DOMAIN obs \cap DOMAIN cur : obs[s].start # cur[s].start}

\* Listed services unseen for VanishConfirm rounds in a row.
Vanishing(obs) == {s \in DOMAIN cur \ DOMAIN obs : missing[s] + 1 >= VanishConfirm}

Greater(a, b) == IF a > b THEN a ELSE b

\* What a "vanish" event reports.
LastWords(s) == Vanish(s, now, cur[s].rss, peakRSS[s], lastSeen[s])

\* The events of a round, in the order they are appended.
RoundEvents(obs) ==
    LET seen == SetToSeq(Admitted(obs) \cup Restarted(obs))
        gone == SetToSeq(Vanishing(obs))
    IN  [i \in 1..Len(seen) |->
            IF seen[i] \notin Admitted(obs) THEN Restart(seen[i], now)
            ELSE Appear(seen[i], IF Learning THEN startAt ELSE now)]
        \o
        [i \in 1..Len(gone) |-> LastWords(gone[i])]

\* Update returns something: not so for what appears while learning.
Reported(obs) ==
    Restarted(obs) # {} \/ Vanishing(obs) # {} \/ (Admitted(obs) # {} /\ ~Learning)

\* Faulty: a service not seen keeps its count.
NextSeenRoundsKept(obs) ==
    [s \in Service |->
        IF s \in DOMAIN obs \ DOMAIN cur THEN seenRounds[s] + 1 ELSE seenRounds[s]]

\* seenRounds: rounds in a row, counted while a service is not listed.
NextSeenRounds(obs) ==
    [s \in Service |->
        IF s \notin DOMAIN obs THEN 0
        ELSE IF s \in DOMAIN cur THEN seenRounds[s] ELSE seenRounds[s] + 1]

\* Faulty: the entry of a vanished service stays.
NextMissingKept(obs) ==
    [s \in Service |->
        IF s \in Seen(obs) THEN 0 ELSE IF s \in DOMAIN cur THEN missing[s] + 1 ELSE missing[s]]

\* missing: rounds in a row without a listed service.
NextMissing(obs) ==
    [s \in Service |->
        IF s \in Seen(obs) \cup Vanishing(obs) THEN 0
        ELSE IF s \in DOMAIN cur THEN missing[s] + 1 ELSE missing[s]]

\* Faulty: the peak of a vanished service stays.
NextPeakKept(obs) ==
    [s \in Service |->
        IF s \in Seen(obs) THEN Greater(peakRSS[s], obs[s].rss) ELSE peakRSS[s]]

\* peakRSS: the largest size of this listing.
NextPeak(obs) ==
    [s \in Service |->
        IF s \in Vanishing(obs) THEN 0
        ELSE IF s \in Seen(obs) THEN Greater(peakRSS[s], obs[s].rss) ELSE peakRSS[s]]

Update(obs) ==
    LET all  == events \o RoundEvents(obs)
        gone == Vanishing(obs)
        seen == Seen(obs)
    IN  /\ phase \in {"on", "closing"} /\ due
        /\ cur' = [s \in (DOMAIN cur \cup Admitted(obs)) \ gone |->
                      IF s \in DOMAIN obs THEN obs[s] ELSE cur[s]]
        /\ seenRounds' = NextSeenRounds(obs)
        /\ missing' = NextMissing(obs)
        /\ peakRSS' = NextPeak(obs)
        /\ lastSeen' = [s \in Service |->
                          IF s \in gone THEN 0 ELSE IF s \in seen THEN now ELSE lastSeen[s]]
        /\ events' = IF Reported(obs) THEN Expire(all, now) ELSE all
        /\ due' = FALSE
        /\ UNCHANGED <<now, phase, startAt, lives>>

Next == Load \/ Close \/ Exit \/ Crash \/ Minute \/ \E obs \in Sighting : Update(obs)

Spec == Init /\ [][Next]_vars

-----------------------------------------------------------------------------
(* Queries *)

\* Faulty: the events of the moment itself are left out.
UpToEarlier(t) == {i \in 1..Len(events) : \A j \in 1..i : events[j].ts < t}

\* The events before the first one later than t.
UpTo(t) == {i \in 1..Len(events) : \A j \in 1..i : events[j].ts <= t}

\* stateAtLocked: the newest of them decide.
StateAt(s, t) ==
    LET upto  == UpTo(t)
        watch == {i \in upto : events[i].kind \in {"up", "down"}}
        mine  == {i \in upto : Of(events[i], s)}
        Newest(I) == events[CHOOSE i \in I : \A j \in I : j <= i]
    IN  IF watch # {} /\ Newest(watch).kind = "down" THEN "unknown"
        ELSE IF mine = {} THEN "unknown"
        ELSE IF Newest(mine).kind = "vanish" THEN "no" ELSE "yes"

\* Vanished: services whose last event is "vanish" and that are not listed.
Vanished ==
    {s \in Service \ DOMAIN cur :
        \E i \in 1..Len(events) :
            /\ events[i].kind = "vanish" /\ events[i].id = s
            /\ \A j \in i+1..Len(events) : ~Of(events[j], s)}

\* ChangesSince(0): the positions of the events it reports as appearances
\* during downtime.
UpsBefore(i) == {j \in 1..i-1 : events[j].kind = "up"}
AtLastUp(i) == \E j \in UpsBefore(i) : events[j].ts = events[i].ts /\ \A k \in UpsBefore(i) : k <= j
WasThere(i) ==
    \E j \in 1..i-1 :
        /\ events[j].kind = "appear" /\ events[j].id = events[i].id
        /\ \A k \in j+1..i-1 : ~(events[k].kind = "vanish" /\ events[k].id = events[i].id)
DuringDowntime ==
    {i \in 1..Len(events) :
        events[i].kind = "appear" /\ AtLastUp(i)
        /\ Cardinality(UpsBefore(i)) > 1 /\ ~WasThere(i)}

-----------------------------------------------------------------------------
(* Properties *)

\* The type invariant.
TypeOK ==
    /\ now \in Nat /\ startAt \in Nat /\ lives \in Nat
    /\ phase \in {"off", "on", "closing"} /\ due \in BOOLEAN
    /\ cur \in Sighting
    /\ missing \in [Service -> Nat] /\ seenRounds \in [Service -> Nat]
    /\ peakRSS \in [Service -> Nat] /\ lastSeen \in [Service -> Nat]
    /\ \A i \in 1..Len(events) :
          /\ events[i].ts \in 1 .. now
          /\ events[i].kind \in {"up", "down"} \/ events[i].id \in Service
          /\ events[i].kind = "vanish" =>
                events[i].last \in RSS /\ events[i].peak \in RSS /\ events[i].seenAt \in 1 .. now

\* servicelog.go, Update: the maps agree with each other in every order of
\* sightings.  A listed service has been missed fewer than VanishConfirm times
\* and has a peak no smaller than its last size; an unlisted one has left no
\* entry behind that would count towards its next listing or its last words.
MapsAgree ==
    TypeOK /\ \A s \in Service :
        /\ s \in DOMAIN cur =>
              /\ missing[s] < VanishConfirm
              /\ peakRSS[s] >= cur[s].rss
              /\ lastSeen[s] \in startAt .. now
              /\ missing[s] > 0 => seenRounds[s] = 0
        /\ s \notin DOMAIN cur =>
              /\ missing[s] = 0 /\ peakRSS[s] = 0 /\ lastSeen[s] = 0
              /\ seenRounds[s] < MinSeen
=============================================================================
