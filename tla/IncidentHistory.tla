----------------------------- MODULE IncidentHistory -----------------------------
(***************************************************************************)
(* IncidentRecorder with history variables of this life: the ticks, the    *)
(* attempts to capture and what was held back; and of all lives: the       *)
(* evidence ever published and the time lines written.                     *)
(***************************************************************************)
EXTENDS IncidentRecorder

VARIABLES
    ticks,      \* sequence of [t, active]: those of this life
    attempts,   \* sequence of [t, class, sig]: those of this life
    skipped,    \* set of [it, after]: the warnings of this tick that were held back,
                \* each with the number of attempts by then
    published,  \* ids of all evidence ever renamed into place
    written     \* ids whose time line was written back

hvars == <<vars, ticks, attempts, skipped, published, written>>

HInit == Init /\ ticks = <<>> /\ attempts = <<>> /\ skipped = {} /\ published = {} /\ written = {}

ActiveOf(c) == IF c = NoChain THEN {} ELSE {it.class : it \in Range(c)}

HTick(c, delay) ==
    /\ Tick(c, delay)
    /\ ticks' = Append(ticks, [t |-> now', active |-> ActiveOf(c)])
    /\ skipped' = {}
    /\ UNCHANGED <<attempts, published, written>>

HLook ==
    /\ \/ /\ HoldBack
          /\ skipped' = skipped \cup {[it |-> Head(due), after |-> Len(attempts)]}
          /\ UNCHANGED attempts
       \/ /\ Choose
          /\ attempts' = Append(attempts, [t |-> now, class |-> Head(due).class, sig |-> Sig(Head(due))])
          /\ UNCHANGED skipped
    /\ UNCHANGED <<ticks, published, written>>

HNext ==
    \/ \E c \in Chain, delay \in 1..2 : HTick(c, delay)
    \/ HLook
    \/ /\ LoopStep \/ \E h \in Handler : ManualWrite(h) \/ ManualRename(h) \/ ManualExpire(h)
       /\ published' = published \cup DOMAIN files'
       /\ written' = written \cup {id \in DOMAIN files' : files'[id] # <<>>}
       /\ skipped' = IF LookDone THEN {} ELSE skipped
       /\ UNCHANGED <<ticks, attempts>>
    \/ /\ Restart
       /\ ticks' = <<>> /\ attempts' = <<>> /\ skipped' = {}
       /\ UNCHANGED <<published, written>>

HSpec == HInit /\ [][HNext]_hvars

-----------------------------------------------------------------------------
(* Properties *)

TypeOK ==
    /\ now \in Times
    /\ loop \in {"wait", "look", "capture", "expire", "session", "advance", "finish"}
    /\ IF due = <<>> THEN loop \in {"wait", "look", "advance", "finish"}
       ELSE loop \in {"look", "capture", "expire", "session"}
    /\ Range(due) \cup {s.it : s \in skipped} \subseteq Item
    /\ DOMAIN lastSig \subseteq {Sig(it) : it \in Item} /\ Range(lastSig) \subseteq Times
    /\ DOMAIN lastClass \subseteq Class /\ Range(lastClass) \subseteq Times
    /\ \A id \in DOMAIN sessions :
         /\ sessions[id].t0 = id[1] /\ sessions[id].class = id[2]
         /\ sessions[id].nextIdx \in 1..Len(Offsets) + 1
    /\ Cardinality(DOMAIN sessions) <= MaxOpen
    /\ Range(ended) \subseteq DOMAIN sessions /\ held \in DOMAIN sessions \cup {NoId}
    /\ faults \in 0..MaxFaults

InHour(t, n) == {i \in 1..n : attempts[i].t \in (t - Hour + 1)..t}

\* One of the first n attempts holds back what is the case at t.
HeldBack(it, n, t) ==
    \/ \E i \in 1..n : attempts[i].sig = Sig(it) /\ t - attempts[i].t < SigCool
    \/ \E i \in 1..n : attempts[i].class = it.class /\ t - attempts[i].t < MinGap
    \/ Cardinality(InHour(t, n)) >= MaxPerHour

HoursKept ==
    \A i \in 1..Len(attempts) : Cardinality(InHour(attempts[i].t, Len(attempts))) <= MaxPerHour
GapsKept ==
    \A i, j \in 1..Len(attempts) : i < j =>
        LET gap == attempts[j].t - attempts[i].t
        IN  /\ attempts[i].class = attempts[j].class => gap >= MinGap
            /\ attempts[i].sig = attempts[j].sig => gap >= SigCool

\* incident.go, Tick: in one life no hour has more than MaxPerHour attempts, two
\* attempts of a class are MinGap apart and two of a signature SigCool; and a
\* warning is held back only by attempts that were made before, captured or failed.
LimitsExact == HoursKept /\ GapsKept /\ \A s \in skipped : HeldBack(s.it, s.after, now)

Covers(tl) == UNION {Range(tl[i].covers) : i \in 1..Len(tl)}

\* One onset, in front, and no sample after a recovery.
PhasesGood(tl) ==
    /\ tl[1].phase = "onset" /\ \A i \in 2..Len(tl) : tl[i].phase # "onset"
    /\ \A i \in 1..Len(tl) - 1 : tl[i].phase # "recovery" /\ tl[i].at <= tl[i+1].at

\* No offset is covered twice, none out of order and none too early.
CoversGood(tl) ==
    \A i \in 1..Len(tl) :
        LET c == tl[i].covers
        IN  /\ \A o \in Range(c) : o <= tl[i].at
            /\ \A k, l \in 1..Len(c) : k < l => c[k] < c[l]
            /\ \A j \in 1..i - 1 : \A o \in Range(tl[j].covers), u \in Range(c) : o < u

TimelineGood(tl) ==
    /\ PhasesGood(tl) /\ CoversGood(tl)
    /\ Covers(tl) = {o \in Range(Offsets) : o <= Last(tl).at}

\* The first tick that reached an offset sampled it.
Prompt(t0, tl) ==
    \A i \in 1..Len(tl) : \A o \in Range(tl[i].covers) :
        ~\E k \in 1..Len(ticks) : ticks[k].t - t0 \in o..tl[i].at - 1

\* snapshot.go, advanceSessions: a time line has one onset, then every offset it
\* lived to see, once, in order, at the first tick that reaches it, and on disk it
\* ends with its only recovery; no sample stands for an offset twice.
TimelineExact ==
    /\ \A id \in DOMAIN files : files[id] # <<>> =>
          TimelineGood(files[id]) /\ Last(files[id]).phase = "recovery"
    /\ \A id \in DOMAIN sessions :
          TimelineGood(sessions[id].samples) /\ Prompt(id[1], sessions[id].samples)

AbsentFor(class, t0, n) ==
    /\ Len(ticks) >= n
    /\ \A i \in Len(ticks) - n + 1 .. Len(ticks) : ticks[i].t > t0 /\ class \notin ticks[i].active

\* snapshot.go, advanceSessions: between two ticks a session is open exactly while its
\* class has not been absent from GoneRounds diagnoses in a row and it is younger
\* than MaxDuration, and at most MaxOpen are open.
SessionEnds ==
    /\ TypeOK
    /\ loop = "wait" => \A id \in DOMAIN sessions :
          /\ now - sessions[id].t0 < MaxDuration
          /\ ~AbsentFor(sessions[id].class, sessions[id].t0, GoneRounds)
    /\ \A id \in Range(ended) :
          \/ now - sessions[id].t0 >= MaxDuration
          \/ AbsentFor(sessions[id].class, sessions[id].t0, GoneRounds)

\* incident.go, expire and snapshot.go, finishSession: evidence disappears only when
\* IncidentKeep newer pieces were published, and a time line that was written back
\* stays in its evidence, whatever captures, expiries and write-backs interleave.
EvidenceKept ==
    /\ \A id \in published \ DOMAIN files :
          Cardinality({o \in published : Older(id, o)}) >= IncidentKeep
    /\ \A id \in written \cap DOMAIN files : files[id] # <<>>

\* CHANGELOG.md:1172: a hundred pieces are kept: with no capture in progress there
\* are no more.
AtMostKept ==
    (loop = "wait" /\ \A h \in Handler : At(h, "idle")) => Cardinality(DOMAIN files) <= IncidentKeep

\* snapshot.go:222: the recovery sample says that the fault is still there only if
\* the diagnosis of that tick still has it.
StillThereIsTrue ==
    \A id \in Range(ended) :
        Last(sessions[id].samples).note = "still there" => sessions[id].class \in Active
=============================================================================
