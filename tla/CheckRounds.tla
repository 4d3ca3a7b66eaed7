------------------------------ MODULE CheckRounds ------------------------------
(***************************************************************************)
(* The rounds of the L0 checks (check_bg.go, check.go: Run).  A round      *)
(* starts one goroutine for each category, waits for all of them or for    *)
(* the timeout, and collects the slice.  A goroutine that is late goes on: *)
(* it still writes the slice of its round, and still holds the mutex of    *)
(* the write probe, whose result is kept for five minutes.  Of the nine    *)
(* categories one, "probe", probes (Filesystem); "other" stands for any.   *)
(***************************************************************************)
EXTENDS Integers, Sequences, FiniteSetsExt, Functions

CONSTANTS
    MaxRounds, MaxProbes   \* bounds of the model

ASSUME RoundsAssumption == {MaxRounds, MaxProbes} \subseteq Nat

Category == <<"other", "probe">>
Cats == {"other", "probe"}
Level == 0..2
NoTask == [round |-> 0, cat |-> "probe"]

VARIABLES
    runner,      \* main goroutine: "idle", "wait", "test", "append", "exit"
    round,
    idx,         \* the category Run collects next
    tasks,       \* goroutines that have not ended: [round, cat] |-> [at, level]
    out,         \* the slice of the current round: category |-> [level, total]
    result,      \* FullResult under construction: [cats, exit]
    latest,      \* the last result published
    probe,       \* [owner, fresh, level]: mutex and kept result of the write probe
    probes

vars == <<runner, round, idx, tasks, out, result, latest, probe, probes>>

Zero == [level |-> 0, total |-> 0]
TimedOut == [level |-> 1, total |-> 1]
NoResult == [cats |-> <<>>, exit |-> 0]

Init ==
    /\ runner = "idle" /\ round = 0 /\ idx = 1
    /\ tasks = [t \in {} |-> 0] /\ out = [c \in Cats |-> Zero]
    /\ result = NoResult /\ latest = NoResult
    /\ probe = [owner |-> NoTask, fresh |-> FALSE, level |-> 0] /\ probes = 0

Id(r, c) == [round |-> r, cat |-> c]
NowAt(t, at, level) == tasks' = [tasks EXCEPT ![t] = [at |-> at, level |-> level]]

-----------------------------------------------------------------------------
(* Run, in the goroutine of the ticker *)

RoundBegins ==
    /\ runner = "idle" /\ round < MaxRounds
    /\ round' = round + 1
    /\ LET new == {Id(round', c) : c \in Cats}
       IN  tasks' = [t \in DOMAIN tasks \union new |-> IF t \in new THEN [at |-> "start", level |-> 0] ELSE tasks[t]]
    /\ runner' = "wait"
    /\ UNCHANGED <<idx, out, result, latest, probe, probes>>

\* All done, or ctx.Done: the timeout may strike while goroutines hang.
AllDone == \A t \in DOMAIN tasks : t.round # round
MayCollect == TRUE
Collect ==
    /\ runner = "wait" /\ MayCollect
    /\ runner' = "test"
    /\ UNCHANGED <<round, idx, tasks, out, result, latest, probe, probes>>

\* A category without checks did not finish: it is replaced.
Test ==
    /\ runner = "test"
    /\ out' = IF out[Category[idx]].total = 0 THEN [out EXCEPT ![Category[idx]] = TimedOut] ELSE out
    /\ runner' = "append"
    /\ UNCHANGED <<round, idx, tasks, result, latest, probe, probes>>

AppendCategory ==
    /\ runner = "append"
    /\ result' = [result EXCEPT !.cats = Append(@, out[Category[idx]])]
    /\ runner' = "exit"
    /\ UNCHANGED <<round, idx, tasks, out, latest, probe, probes>>

LastExit(exit, level) == level
WorseExit(exit, level) == IF level > exit THEN level ELSE exit

\* Nothing reads the slice once Run has returned.
Discarded == result' = NoResult /\ idx' = 1 /\ out' = [c \in Cats |-> Zero]

\* The level is read from the slice again, not from the category just appended.
Exit ==
    /\ runner = "exit"
    /\ LET exit == WorseExit(result.exit, out[Category[idx]].level)
           res  == [result EXCEPT !.exit = exit]
       IN  IF idx < Len(Category)
           THEN /\ result' = res /\ idx' = idx + 1 /\ runner' = "test"
                /\ UNCHANGED <<latest, out>>
           ELSE /\ latest' = res /\ runner' = "idle" /\ Discarded
    /\ UNCHANGED <<round, tasks, probe, probes>>

-----------------------------------------------------------------------------
(* The goroutines of the categories *)

\* out[i] = fn(ctx) is no atomic store: a late goroutine races with Run, and what
\* Run reads in between has some fields of either.
Stores(t, level) ==
    IF t.round # round \/ runner = "idle" THEN UNCHANGED out
    ELSE out' = [out EXCEPT ![t.cat] = [level |-> level, total |-> 1]]
Ends(t) == tasks' = Restrict(tasks, DOMAIN tasks \ {t})

Tear(t) ==
    /\ tasks[t].at = "store" /\ t.round = round /\ runner \notin {"wait", "idle"}
    /\ \/ out' = [out EXCEPT ![t.cat].level = tasks[t].level]
       \/ out' = [out EXCEPT ![t.cat].total = 1]
    /\ UNCHANGED <<runner, round, idx, tasks, result, latest, probe, probes>>

Store(t) ==
    /\ tasks[t].at = "store"
    /\ Stores(t, tasks[t].level)
    /\ Ends(t)
    /\ UNCHANGED <<runner, round, idx, result, latest, probe, probes>>

\* Any other category judges what it reads.
Check(t) ==
    /\ t.cat = "other" /\ tasks[t].at = "start"
    /\ \E level \in Level : NowAt(t, "store", level)
    /\ UNCHANGED <<runner, round, idx, out, result, latest, probe, probes>>

\* writeProbe: with the mutex held, the kept result or a new write.
ProbeLock(t) ==
    /\ t.cat = "probe" /\ tasks[t].at = "start" /\ probe.owner = NoTask
    /\ IF probe.fresh
       THEN NowAt(t, "store", probe.level) /\ UNCHANGED probe
       ELSE NowAt(t, "write", 0) /\ probe' = [probe EXCEPT !.owner = t, !.fresh = TRUE]
    /\ UNCHANGED <<runner, round, idx, out, result, latest, probes>>

Unlocked(level) == [probe EXCEPT !.owner = NoTask, !.level = level]

\* The file system answers, in its own time: writable or not.
ProbeDone(t) ==
    /\ tasks[t].at = "write"
    /\ \E level \in {0, 2} :
         /\ probe' = Unlocked(level)
         /\ NowAt(t, "store", level)
    /\ UNCHANGED <<runner, round, idx, out, result, latest, probes>>

\* Five minutes pass.
ProbeAges ==
    /\ probe.fresh /\ probes < MaxProbes
    /\ probe' = [probe EXCEPT !.fresh = FALSE] /\ probes' = probes + 1
    /\ UNCHANGED <<runner, round, idx, tasks, out, result, latest>>

-----------------------------------------------------------------------------
RunStep == RoundBegins \/ Collect \/ Test \/ AppendCategory \/ Exit
TaskStep(t) == Check(t) \/ ProbeLock(t) \/ ProbeDone(t) \/ Store(t) \/ Tear(t)

Next ==
    \/ RunStep
    \/ \E t \in DOMAIN tasks : TaskStep(t)
    \/ ProbeAges

Spec == Init /\ [][Next]_vars
=============================================================================
