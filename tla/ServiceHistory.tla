----------------------------- MODULE ServiceHistory -----------------------------
(***************************************************************************)
(* ServiceLog with history variables: what every round of this life saw,   *)
(* which services were ever listed, and the minutes nobody was watching.   *)
(* The event log is judged against them.                                   *)
(***************************************************************************)
EXTENDS ServiceLog

VARIABLES
    rounds,   \* the rounds of this life: sequence of [t, obs]
    ever,     \* services listed in an earlier step, in any life
    stopAt,   \* when nodedata last stopped
    clean,    \* ... and whether it did so with Close
    off       \* <<minute, clean>>: whole minutes without nodedata

hvars == <<vars, rounds, ever, stopAt, clean, off>>

HInit ==
    /\ Init
    /\ rounds = <<>> /\ ever = {} /\ stopAt = 0 /\ clean = TRUE /\ off = {}

HUpdate(obs) ==
    /\ Update(obs)
    /\ rounds' = Append(rounds, [t |-> now, obs |-> obs])
    /\ ever' = ever \cup DOMAIN cur
    /\ UNCHANGED <<stopAt, clean, off>>

HNext ==
    \/ \E obs \in Sighting : HUpdate(obs)
    \/ Load /\ rounds' = <<>> /\ ever' = ever \cup DOMAIN cur /\ UNCHANGED <<stopAt, clean, off>>
    \/ (Close \/ Exit) /\ stopAt' = now /\ clean' = TRUE /\ UNCHANGED <<rounds, ever, off>>
    \/ Crash /\ stopAt' = now /\ clean' = FALSE /\ UNCHANGED <<rounds, ever, off>>
    \/ /\ Minute
       /\ off' = IF phase = "off" /\ lives > 0 /\ now > stopAt THEN off \cup {<<now, clean>>} ELSE off
       /\ UNCHANGED <<rounds, ever, stopAt, clean>>

HSpec == HInit /\ [][HNext]_hvars

-----------------------------------------------------------------------------
(* The list as it should be after round k of this life *)

SeenIn(s, k) == s \in DOMAIN rounds[k].obs
AllSeen(s, i, j) == \A k \in i..j : SeenIn(s, k)
NoneSeen(s, i, j) == \A k \in i..j : ~SeenIn(s, k)

\* s has been seen MinSeen rounds in a row up to some round, and since then
\* never been missed VanishConfirm rounds in a row.
ListedAfter(s, k) ==
    \E i \in MinSeen..k :
        /\ AllSeen(s, i - MinSeen + 1, i)
        /\ \A j \in i + VanishConfirm .. k : ~NoneSeen(s, j - VanishConfirm + 1, j)

\* The round in which the listing that lasted to round k began.
ListedSince(s, k) ==
    CHOOSE i \in 1..k :
        /\ \A j \in i..k : ListedAfter(s, j)
        /\ i > 1 => ~ListedAfter(s, i - 1)

N == Len(rounds)
Running == phase # "off"

-----------------------------------------------------------------------------
(* Properties *)

\* servicelog.go, Update: the list is exactly the debounced sightings of this
\* life, whatever the pattern of sightings.
DebounceExact == Running => \A s \in Service : s \in DOMAIN cur <=> ListedAfter(s, N)

\* A step that takes s off the list reports the last sighting and the peak.
LastWordsAre(s) ==
    s \in DOMAIN cur /\ s \notin DOMAIN cur' /\ Running /\ due
      => LET k == CHOOSE k \in 1..N : SeenIn(s, k) /\ NoneSeen(s, k + 1, N)
             sizes == {rounds[j].obs[s].rss :
                         j \in {j \in ListedSince(s, k)..k : SeenIn(s, j)}}
         IN  \E i \in 1..Len(events') :
                 LET e == events'[i]
                 IN  /\ e.kind = "vanish" /\ e.id = s /\ e.ts = now
                     /\ e.seenAt = rounds[k].t
                     /\ e.last = rounds[k].obs[s].rss
                     /\ e.peak \in sizes /\ \A z \in sizes : z <= e.peak

\* servicelog.go, Update: the last words of a vanish event are those of the last
\* round that saw the service, and its peak is the largest size seen in this
\* listing, not one left over from an earlier listing.
LastWordsTrue == [][\A s \in Service : LastWordsAre(s)]_hvars

\* The log still holds an event of the service up to that time, and not behind a later
\* one: an appearance that is dated back outlives what was logged before it.
StillKept(s, t) ==
    \E i \in 1..Len(events) : Of(events[i], s) /\ \A j \in 1..i : events[j].ts <= t

\* servicelog.go, StateAt: while the look-up still finds an event of the service up to
\* a minute of this life, the answer for that minute is "yes" if the service was
\* listed, and "no" between two listings, unless the later listing fell into the
\* learning period and is dated back.
StateAtTellsList ==
    phase = "on" => \A s \in Service : \A k \in 1..N :
        StillKept(s, rounds[k].t) =>
            /\ ListedAfter(s, k) => StateAt(s, rounds[k].t) = "yes"
            /\ (/\ ~ListedAfter(s, k)
                /\ \E j \in 1..k : ListedAfter(s, j)
                /\ \A j \in k..N : ListedAfter(s, j) => rounds[j].t - startAt >= LearnPeriod)
                  => StateAt(s, rounds[k].t) = "no"

\* servicesapi.go:43: a service that was listed in this life is either still
\* listed or shown as vanished, until its vanish event is older than the retention.
NoSilentLossInLife ==
    Running => \A s \in Service :
        (\E k \in 1..N : ListedAfter(s, k) /\ rounds[k].t >= now - Retain)
            => s \in DOMAIN cur \cup Vanished

\* servicelog.go:125: after a clean stop, the minutes without nodedata are
\* "unknown" for every service, in the life that follows and in later ones.
CleanGapUnknown == \A m \in off : m[2] => \A s \in Service : StateAt(s, m[1]) = "unknown"

\* servicelog.go, StateAt and Vanished: the answers of the log agree with what the
\* rounds saw, while nodedata ran and across a clean stop.
AnswersTrue == StateAtTellsList /\ CleanGapUnknown /\ NoSilentLossInLife

\* servicelog.go:10: "unknown" is for the minutes nodedata was not running: no
\* such minute is reported as "yes" or "no".
GapUnknown == \A m \in off : \A s \in Service : StateAt(s, m[1]) = "unknown"

\* servicelog.go:10: ... and only for those: the state of a service in a minute
\* of this life, within the retention, in which it was listed is known.
ListedIsKnown ==
    phase = "on" => \A s \in Service : \A k \in 1..N :
        ListedAfter(s, k) /\ rounds[k].t >= now - Retain => StateAt(s, rounds[k].t) # "unknown"

\* DESIGN.md:264, servicesapi.go:43: a service that is gone stays in the table:
\* once listed it is listed or shown as vanished, or was seen too recently to tell.
NoSilentLoss ==
    Running /\ N >= VanishConfirm /\ ~due =>
        \A s \in ever : NoneSeen(s, 1, N) => s \in DOMAIN cur \cup Vanished

\* servicelog.go:370 (comment of DuringDowntime): a service reported to have
\* appeared during downtime is seen for the first time since the restart.
DowntimeMeansFirst ==
    \A i \in DuringDowntime : \A j \in 1..i-1 :
        Of(events[j], events[i].id) => \E k \in j+1..i-1 : events[k].kind = "up"
=============================================================================
