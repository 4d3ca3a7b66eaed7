---------------------------- MODULE IncidentRecorder ----------------------------
(***************************************************************************)
(* The incident recorder (incident.go, snapshot.go).  Every 15 s one       *)
(* goroutine, the loop, runs the diagnosis and captures evidence for the   *)
(* conclusions that no limit holds back; each capture opens a session that *)
(* samples a time line and writes it into the evidence when it ends.  HTTP *)
(* handlers capture by hand at any time.  Both expire old evidence.        *)
(* Time runs in ticks of the loop; now.Sub uses the monotonic clock.       *)
(***************************************************************************)
EXTENDS Integers, Sequences, FiniteSets, FiniteSetsExt, SequencesExt

CONSTANTS
    Chain,        \* the conclusions a run of the diagnosis may return: sequences of
                  \* [class, culprit, warn], warn = at least a warning
    NoChain,      \* ... or nil
    SlugOrder,    \* class |-> its place in the order of file names; "manual" too
    Handler,      \* goroutines that serve a manual capture
    IncidentKeep, SigCool, MinGap, Hour, MaxPerHour,
    Offsets,      \* snapshotOffsets, an ascending sequence
    MaxDuration, GoneRounds, MaxOpen,
    ManualAt,     \* ticks in which somebody captures by hand: a bound of the model
    MaxTime, MaxFaults   \* bounds of the model

ASSUME RecorderAssumption ==
    /\ {IncidentKeep, SigCool, MinGap, Hour, MaxPerHour, MaxDuration, GoneRounds} \subseteq Nat \ {0}
    /\ MaxOpen \in Nat /\ MaxTime \in Nat /\ MaxFaults \in Nat
    /\ Offsets \in Seq(Nat \ {0}) /\ \A i, j \in 1..Len(Offsets) : i < j => Offsets[i] < Offsets[j]
    /\ \A c \in Chain \ {NoChain} : c \in Seq(Range(c))

VARIABLES
    now,        \* the tick the loop is in
    loop,       \* where the loop stands: "wait", "look", "capture", "expire", "session", "advance", "finish"
    chain,      \* the result of this tick's diagnosis
    due,        \* conclusions of this tick still to be looked at, with the one at hand
    lastSig, lastClass,   \* time of the last attempt by signature and by class
    recent,     \* times of the attempts of the last hour
    sessions,   \* open sessions: id |-> [class, t0, nextIdx, goneFor, samples]
    ended,      \* sessions done in this tick, not written back yet
    held,       \* evidence read by finishSession, to be written back
    files,      \* evidence on disk: id |-> its time line, <<>> for none
    tmps,       \* temporary files of the handlers' captures
    manual,     \* handler |-> [at, id]
    faults      \* failures and restarts so far

loopVars == <<chain, due, lastSig, lastClass, recent, sessions, ended, held>>
vars == <<now, loop, loopVars, files, tmps, manual, faults>>

-----------------------------------------------------------------------------
Item == UNION {Range(c) : c \in Chain \ {NoChain}}
Class == {it.class : it \in Item}

\* A capture by hand has no class; every class has a slug of its own for the file names.
ASSUME ClassAssumption == "manual" \notin Class

Sig(it) == <<it.class, it.culprit>>
Id(t, class) == <<t, class>>
NoId == <<-1, "manual">>
Times == 0..MaxTime
Nowhere == <<>>       \* a function with an empty domain

\* file names sort by second, then by the slug of the class
Older(a, b) == a[1] < b[1] \/ (a[1] = b[1] /\ SlugOrder[a[2]] < SlugOrder[b[2]])

Manual(at, id) == [at |-> at, id |-> id]
Idle == Manual("idle", NoId)

Init ==
    /\ now = 0 /\ loop = "wait" /\ chain = <<>> /\ due = <<>>
    /\ lastSig = Nowhere /\ lastClass = Nowhere /\ recent = <<>>
    /\ sessions = Nowhere /\ ended = <<>> /\ held = NoId
    /\ files = Nowhere /\ tmps = {} /\ manual = [h \in Handler |-> Idle]
    /\ faults = 0

\* Expire: keep the IncidentKeep newest names.
SurplusNewest(f) == {id \in DOMAIN f : Cardinality({o \in DOMAIN f : Older(o, id)}) >= IncidentKeep}
Surplus(f) == {id \in DOMAIN f : Cardinality({o \in DOMAIN f : Older(id, o)}) >= IncidentKeep}
Expired(f) == Restrict(f, DOMAIN f \ Surplus(f))

MayFail == faults < MaxFaults /\ faults' = faults + 1

-----------------------------------------------------------------------------
(* Tick: the conclusions are looked at one by one *)

Within(f, k, span) == k \in DOMAIN f /\ now - f[k] < span

\* The times are ascending: those that are still within the hour are at the end.
LastHour ==
    SubSeq(recent, Cardinality({i \in DOMAIN recent : now - recent[i] >= Hour}) + 1, Len(recent))

CoolNoClass(it) == Within(lastSig, Sig(it), SigCool) \/ Len(LastHour) >= MaxPerHour

Cool(it) ==
    \/ Within(lastSig, Sig(it), SigCool)
    \/ Within(lastClass, it.class, MinGap)
    \/ Len(LastHour) >= MaxPerHour

Set(f, k, v) == [x \in DOMAIN f \cup {k} |-> IF x = k THEN v ELSE f[x]]

Tick(c, delay) ==
    /\ loop = "wait"
    /\ now + delay <= MaxTime
    /\ now' = now + delay
    /\ chain' = c /\ due' = IF c = NoChain THEN <<>> ELSE c
    /\ loop' = "look"
    /\ UNCHANGED <<lastSig, lastClass, recent, sessions, ended, held, files, tmps, manual, faults>>

\* Not a warning.
PassBy ==
    /\ loop = "look" /\ due # <<>>
    /\ ~Head(due).warn
    /\ due' = Tail(due)
    /\ UNCHANGED <<now, loop, chain, lastSig, lastClass, recent, sessions, ended, held,
                   files, tmps, manual, faults>>

HoldBack ==
    /\ loop = "look" /\ due # <<>>
    /\ Head(due).warn /\ Cool(Head(due))
    /\ due' = Tail(due) /\ recent' = LastHour
    /\ UNCHANGED <<now, loop, chain, lastSig, lastClass, sessions, ended, held,
                   files, tmps, manual, faults>>

\* The stamps are set before the capture, which may fail.
Choose ==
    /\ loop = "look" /\ due # <<>>
    /\ Head(due).warn /\ ~Cool(Head(due))
    /\ lastSig' = Set(lastSig, Sig(Head(due)), now)
    /\ lastClass' = Set(lastClass, Head(due).class, now)
    /\ recent' = Append(LastHour, now)
    /\ loop' = "capture"
    /\ UNCHANGED <<now, chain, due, sessions, ended, held, files, tmps, manual, faults>>

LookDone ==
    /\ loop = "look" /\ due = <<>>
    /\ loop' = "advance"
    /\ UNCHANGED <<now, loopVars, files, tmps, manual, faults>>

-----------------------------------------------------------------------------
(* Capture by the loop: collect, write a temporary file, rename it, expire *)

CaptureDue ==
    /\ loop = "capture"
    /\ files' = Set(files, Id(now, Head(due).class), <<>>)
    /\ loop' = "expire"
    /\ UNCHANGED <<now, loopVars, tmps, manual, faults>>

CaptureFails ==
    /\ loop = "capture" /\ MayFail
    /\ due' = Tail(due) /\ loop' = "look"
    /\ UNCHANGED <<now, chain, lastSig, lastClass, recent, sessions, ended, held,
                   files, tmps, manual>>

ExpireDue ==
    /\ loop = "expire"
    /\ files' = Expired(files)
    /\ loop' = "session"
    /\ UNCHANGED <<now, loopVars, tmps, manual, faults>>

Sample(phase, covers, at, note) == [phase |-> phase, covers |-> covers, at |-> at, note |-> note]
NewSession(class, t0) ==
    [class |-> class, t0 |-> t0, nextIdx |-> 1, goneFor |-> 0,
     samples |-> <<Sample("onset", <<>>, 0, "")>>]

\* startSession drops the session when MaxOpen are open.
StartSession ==
    /\ loop = "session"
    /\ LET class == Head(due).class
       IN  sessions' = IF Cardinality(DOMAIN sessions) >= MaxOpen THEN sessions
                       ELSE Set(sessions, Id(now, class), NewSession(class, now))
    /\ due' = Tail(due) /\ loop' = "look"
    /\ UNCHANGED <<now, chain, lastSig, lastClass, recent, ended, held,
                   files, tmps, manual, faults>>

-----------------------------------------------------------------------------
(* advanceSessions, deferred to the end of Tick *)

Active == IF chain = NoChain THEN {} ELSE {it.class : it \in Range(chain)}

CoveredFirst(s, elapsed) ==
    IF s.nextIdx <= Len(Offsets) /\ elapsed >= Offsets[s.nextIdx] THEN <<Offsets[s.nextIdx]>> ELSE <<>>
\* The offsets reached and not sampled yet: one sample covers them all.
Reached(s, elapsed) == {k \in s.nextIdx..Len(Offsets) : elapsed >= Offsets[k]}
Covered(s, elapsed) == SubSeq(Offsets, s.nextIdx, s.nextIdx + Cardinality(Reached(s, elapsed)) - 1)

During(s, elapsed) ==
    LET c == Covered(s, elapsed)
    IN  IF c = <<>> THEN s
        ELSE [s EXCEPT !.nextIdx = @ + Len(c),
                       !.samples = Append(@, Sample("during", c, elapsed, ""))]

GoneForKept(s) == IF s.class \in Active THEN s.goneFor ELSE s.goneFor + 1
GoneFor(s) == IF s.class \in Active THEN 0 ELSE s.goneFor + 1

Over(s, elapsed) == s.goneFor >= GoneRounds \/ elapsed >= MaxDuration
Note(elapsed) == IF elapsed >= MaxDuration THEN "still there" ELSE "gone"

Advanced(s) ==
    LET e == now - s.t0
        d == [During(s, e) EXCEPT !.goneFor = GoneFor(s)]
    IN  IF Over(d, e) THEN [d EXCEPT !.samples = Append(@, Sample("recovery", <<>>, e, Note(e)))]
        ELSE d
Done(s) == Last(s.samples).phase = "recovery"

AdvanceSessions ==
    /\ loop = "advance"
    /\ sessions' = [id \in DOMAIN sessions |-> Advanced(sessions[id])]
    /\ ended' \in SetToSeqs({id \in DOMAIN sessions : Done(sessions'[id])})
    /\ loop' = "finish"
    /\ UNCHANGED <<now, chain, due, lastSig, lastClass, recent, held,
                   files, tmps, manual, faults>>

-----------------------------------------------------------------------------
(* finishSession: read the evidence, write it back with the time line.  The
   session leaves the map in the same step as the read: only the loop sees it. *)

FinishRead ==
    /\ loop = "finish" /\ ended # <<>> /\ held = NoId
    /\ LET id == Head(ended)
       IN  IF id \in DOMAIN files
           THEN held' = id /\ UNCHANGED <<ended, sessions>>
           ELSE /\ ended' = Tail(ended)
                /\ sessions' = Restrict(sessions, DOMAIN sessions \ {id})
                /\ UNCHANGED held
    /\ UNCHANGED <<now, loop, chain, due, lastSig, lastClass, recent,
                   files, tmps, manual, faults>>

TimelineOf(id) == sessions[id].samples

FinishWrite ==
    /\ loop = "finish" /\ held # NoId
    /\ \/ files' = Set(files, held, TimelineOf(held)) /\ UNCHANGED faults
       \/ MayFail /\ UNCHANGED files
    /\ held' = NoId
    /\ ended' = Tail(ended)
    /\ sessions' = Restrict(sessions, DOMAIN sessions \ {held})
    /\ UNCHANGED <<now, loop, chain, due, lastSig, lastClass, recent, tmps, manual>>

TickDone ==
    /\ loop = "finish" /\ ended = <<>>
    /\ loop' = "wait"
    /\ UNCHANGED <<now, loopVars, files, tmps, manual, faults>>

-----------------------------------------------------------------------------
(* A manual capture (POST /api/incidents).  Its id is the second it starts in,
   so two handlers of one second write the same temporary file. *)

At(h, step) == manual[h].at = step
Goto(h, step) == manual' = [manual EXCEPT ![h].at = step]

ManualWrite(h) ==
    /\ At(h, "idle") /\ now \in ManualAt
    /\ LET id == Id(now, "manual")
       IN  /\ tmps' = tmps \cup {id}
           /\ manual' = [manual EXCEPT ![h] = Manual("rename", id)]
    /\ UNCHANGED <<now, loop, loopVars, files, faults>>

\* The rename fails, and the handler answers 500, when the other one was faster.
ManualRename(h) ==
    /\ At(h, "rename")
    /\ LET id == manual[h].id
       IN  IF id \in tmps
           THEN /\ tmps' = tmps \ {id}
                /\ files' = Set(files, id, <<>>)
                /\ Goto(h, "expire")
           ELSE /\ manual' = [manual EXCEPT ![h] = Idle]
                /\ UNCHANGED <<files, tmps>>
    /\ UNCHANGED <<now, loop, loopVars, faults>>

ManualExpire(h) ==
    /\ At(h, "expire")
    /\ files' = Expired(files)
    /\ manual' = [manual EXCEPT ![h] = Idle]
    /\ UNCHANGED <<now, loop, loopVars, tmps, faults>>

-----------------------------------------------------------------------------
\* nodedata stops or is killed, and starts again: only the directory survives.
Restart ==
    /\ MayFail
    /\ loop' = "wait" /\ chain' = <<>> /\ due' = <<>>
    /\ lastSig' = Nowhere /\ lastClass' = Nowhere /\ recent' = <<>>
    /\ sessions' = Nowhere /\ ended' = <<>> /\ held' = NoId
    /\ manual' = [h \in Handler |-> Idle]
    /\ UNCHANGED <<now, files, tmps>>

\* goroutines: the loop, which alone touches the stamps and the sessions, and the
\* handlers
LoopStep ==
    \/ PassBy \/ LookDone
    \/ CaptureDue \/ CaptureFails \/ ExpireDue \/ StartSession
    \/ AdvanceSessions \/ FinishRead \/ FinishWrite \/ TickDone

Next ==
    \/ \E c \in Chain, delay \in 1..2 : Tick(c, delay)
    \/ HoldBack \/ Choose \/ LoopStep
    \/ \E h \in Handler : ManualWrite(h) \/ ManualRename(h) \/ ManualExpire(h)
    \/ Restart

Spec == Init /\ [][Next]_vars
=============================================================================
