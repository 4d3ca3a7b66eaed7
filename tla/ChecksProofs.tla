------------------------------ MODULE ChecksProofs ------------------------------
(* A category that was done in time is published as it was, and when all were *)
(* the exit code is the worst of their levels: for any number of rounds, and   *)
(* however many goroutines of earlier rounds still hang, store or hold the     *)
(* mutex of the write probe.  The last part is about BaselineHistory: what the *)
(* starting points of the counters hide, and what a new process finds.         *)
EXTENDS CheckHistory, BaselineHistory, TLAPS

Task == [at : {"start", "write", "store"}, level : Level]
Outcome == [level : Level, total : 0..1]
Collecting == {"test", "append", "exit"}

Typed ==
    /\ runner \in {"idle", "wait"} \union Collecting /\ idx \in 1..2 /\ round \in Nat
    /\ \A t \in DOMAIN tasks :
         t = Id(t.round, t.cat) /\ t.round \in 1..round /\ t.cat \in Cats /\ tasks[t] \in Task
    /\ out \in [Cats -> Outcome] /\ collected \in [Cats -> Outcome]
    /\ probe = [owner |-> probe.owner, fresh |-> probe.fresh, level |-> probe.level]
    /\ probe.level \in Level
    /\ probe.owner # NoTask => probe.owner \in DOMAIN tasks /\ tasks[probe.owner].at = "write"
    /\ result = [cats |-> result.cats, exit |-> result.exit]

Running(c) == Id(round, c) \in DOMAIN tasks

\* Between rounds, and while Run waits, nothing has been collected; a category that
\* has stored its checks has no goroutine left that could store them again.
BeforeCollecting ==
    runner \notin Collecting =>
        /\ result = NoResult /\ idx = 1
        /\ runner = "idle" => out = [c \in Cats |-> Zero] /\ collected = out
        /\ runner = "wait" => \A c \in Cats : out[c].total = 1 => ~Running(c)

\* What was done in time stays in the slice as it was while Run collects.
Unchanged ==
    runner \in Collecting => \A c \in Cats : InTime(c) => out[c] = collected[c] /\ ~Running(c)

Appended == IF runner = "exit" THEN idx ELSE idx - 1
SoFar == result.exit = IF idx = 1 THEN 0 ELSE collected["other"].level

\* What Run has collected: the categories in their order, and the worst level of those
\* that are behind it.
Collected ==
    runner \in Collecting =>
        /\ result.cats \in Seq(Outcome) /\ Len(result.cats) = Appended
        /\ \A i \in 1..Appended : InTime(Category[i]) => result.cats[i] = collected[Category[i]]
        /\ (\A c \in Cats : InTime(c)) => SoFar

IInv == Typed /\ BeforeCollecting /\ Unchanged /\ Collected

-----------------------------------------------------------------------------
LEMMA TwoCategories ==
    Category[1] = "other" /\ Category[2] = "probe" /\ Len(Category) = 2 /\ DOMAIN Category = 1..2
BY DEF Category

LEMMA Starts == HInit => IInv
BY DEF HInit, Init, IInv, Typed, BeforeCollecting, Unchanged, Collected, Collecting, Zero, Outcome,
       Level, NoTask, NoResult

LEMMA Stutters == IInv /\ UNCHANGED hvars => IInv'
BY DEF hvars, vars, IInv, Typed, BeforeCollecting, Unchanged, Collected, Running, InTime, Appended, SoFar

-----------------------------------------------------------------------------
(* Run *)

LEMMA RoundBeginsKeeps ==
    ASSUME IInv, RoundBegins, collected' = collected
    PROVE  IInv'
<1> DEFINE new == {Id(round', c) : c \in Cats}
<1>1. /\ runner = "idle" /\ runner' = "wait" /\ round' = round + 1 /\ round \in Nat
      /\ DOMAIN tasks' = DOMAIN tasks \union new
      /\ \A t \in new : tasks'[t] = [at |-> "start", level |-> 0]
      /\ \A t \in DOMAIN tasks : tasks'[t] = IF t \in new THEN [at |-> "start", level |-> 0] ELSE tasks[t]
      /\ UNCHANGED <<idx, out, result, latest, probe, probes, collected>>
  BY DEF RoundBegins, IInv, Typed
<1>2. \A t \in DOMAIN tasks : t \notin new
  BY <1>1 DEF IInv, Typed, Id
<1>3. \A t \in new : t = Id(t.round, t.cat) /\ t.round \in 1..round' /\ t.cat \in Cats
  BY <1>1 DEF Id
<1>4. Typed'
  BY <1>1, <1>2, <1>3 DEF IInv, Typed, Task, Level, Id, Collecting
<1>5. BeforeCollecting'
  BY <1>1 DEF IInv, BeforeCollecting, Collecting, Zero
<1>6. Unchanged' /\ Collected'
  BY <1>1 DEF Unchanged, Collected, Collecting
<1> QED
  BY <1>4, <1>5, <1>6 DEF IInv

LEMMA CollectKeeps ==
    ASSUME IInv, Collect, collected' = out
    PROVE  IInv'
<1>1. /\ runner = "wait" /\ runner' = "test" /\ idx' = 1 /\ result' = NoResult
      /\ UNCHANGED <<round, idx, tasks, out, result, probe>>
  BY DEF Collect, IInv, BeforeCollecting, Collecting
<1>2. Typed'
  BY <1>1 DEF IInv, Typed, Collecting
<1>3. BeforeCollecting' /\ Unchanged'
  BY <1>1 DEF IInv, BeforeCollecting, Unchanged, Collecting, InTime, Running
<1>4. Collected'
  <2>1. result'.cats = <<>> /\ result'.exit = 0 /\ Appended' = 0
    BY <1>1 DEF NoResult, Appended
  <2>2. result'.cats \in Seq(Outcome) /\ Len(result'.cats) = 0
    BY <2>1
  <2>3. SoFar'
    BY <1>1, <2>1 DEF SoFar
  <2>4. \A i \in 1..Appended' : FALSE
    BY <2>1
  <2> QED
    BY <2>1, <2>2, <2>3, <2>4 DEF Collected
<1> QED
  BY <1>2, <1>3, <1>4 DEF IInv

LEMMA TestKeeps ==
    ASSUME IInv, Test, collected' = collected
    PROVE  IInv'
<1> DEFINE cat == Category[idx]
<1>1. /\ runner = "test" /\ runner' = "append" /\ cat \in Cats /\ idx \in 1..2
      /\ UNCHANGED <<round, idx, tasks, result, probe, collected>>
  BY TwoCategories DEF Test, IInv, Typed, Cats
<1>2. /\ out' \in [Cats -> Outcome]
      /\ \A c \in Cats : out[c].total = 1 => out'[c] = out[c]
  BY <1>1 DEF Test, IInv, Typed, Outcome, TimedOut, Level
<1>3. Typed'
  BY <1>1, <1>2 DEF IInv, Typed, Collecting
<1>4. BeforeCollecting' /\ Unchanged'
  BY <1>1, <1>2 DEF IInv, BeforeCollecting, Unchanged, Collecting, InTime, Running
<1>5. Collected'
  BY <1>1 DEF IInv, Collected, Collecting, Appended, SoFar, InTime
<1> QED
  BY <1>3, <1>4, <1>5 DEF IInv

LEMMA AppendKeeps ==
    ASSUME IInv, AppendCategory, collected' = collected
    PROVE  IInv'
<1> DEFINE cat == Category[idx]
<1>1. /\ runner = "append" /\ runner' = "exit" /\ cat \in Cats /\ idx \in 1..2
      /\ result' = [result EXCEPT !.cats = Append(@, out[cat])]
      /\ UNCHANGED <<round, idx, tasks, out, probe, collected>>
  BY TwoCategories DEF AppendCategory, IInv, Typed, Cats
<1>0. /\ result'.cats = Append(result.cats, out[cat]) /\ result'.exit = result.exit
      /\ result' = [cats |-> result'.cats, exit |-> result'.exit]
  BY <1>1 DEF IInv, Typed
<1>2. /\ result.cats \in Seq(Outcome) /\ Len(result.cats) = idx - 1
      /\ \A i \in 1..(idx - 1) : InTime(Category[i]) => result.cats[i] = collected[Category[i]]
      /\ (\A c \in Cats : InTime(c)) => SoFar
      /\ out[cat] \in Outcome /\ (InTime(cat) => out[cat] = collected[cat])
  BY <1>1 DEF IInv, Typed, Unchanged, Collected, Collecting, Appended
<1>3. /\ result'.cats \in Seq(Outcome) /\ Len(result'.cats) = idx
      /\ result'.cats[idx] = out[cat]
      /\ \A i \in 1..(idx - 1) : result'.cats[i] = result.cats[i]
  <2>1. idx - 1 \in Nat /\ Len(Append(result.cats, out[cat])) = idx
    BY <1>1, <1>2
  <2> QED
    BY <1>0, <1>2, <2>1
<1>4. Typed'
  BY <1>0, <1>1 DEF IInv, Typed, Collecting
<1>5. BeforeCollecting' /\ Unchanged'
  BY <1>1 DEF IInv, BeforeCollecting, Unchanged, Collecting, InTime, Running
<1>6. \A i \in 1..idx : InTime(Category[i]) => result'.cats[i] = collected[Category[i]]
  BY <1>1, <1>2, <1>3
<1>7. Collected'
  BY <1>0, <1>1, <1>2, <1>3, <1>6 DEF Collected, Appended, SoFar, InTime
<1> QED
  BY <1>4, <1>5, <1>7 DEF IInv

\* The exit code after one category, or after both.
LEMMA ExitOf ==
    ASSUME IInv, Exit, \A c \in Cats : InTime(c)
    PROVE  LET exit == WorseExit(result.exit, out[Category[idx]].level)
           IN  /\ idx = 1 => exit = collected["other"].level
               /\ idx = 2 => exit = WorseExit(collected["other"].level, collected["probe"].level)
<1>1. /\ runner \in Collecting /\ \A c \in Cats : out[c] = collected[c]
      /\ SoFar /\ \A c \in Cats : collected[c].level \in Level
  BY DEF Exit, IInv, Typed, Unchanged, Collected, Collecting, Outcome
<1> QED
  BY <1>1, TwoCategories DEF SoFar, WorseExit, Cats, Level

LEMMA ExitKeeps ==
    ASSUME IInv, Exit, collected' = IF runner' = "idle" THEN out' ELSE collected
    PROVE  IInv'
<1> DEFINE exit == WorseExit(result.exit, out[Category[idx]].level)
<1>1. runner = "exit" /\ UNCHANGED <<round, tasks, probe>> /\ idx \in 1..2
      /\ result = [cats |-> result.cats, exit |-> result.exit]
  BY DEF Exit, IInv, Typed
<1>2. CASE idx = 1
  <2>1. /\ result' = [cats |-> result.cats, exit |-> exit] /\ idx' = 2 /\ runner' = "test"
        /\ out' = out /\ collected' = collected
    BY <1>1, <1>2, TwoCategories DEF Exit
  <2>2. Typed'
    BY <1>1, <2>1 DEF IInv, Typed, Collecting
  <2>3. BeforeCollecting' /\ Unchanged'
    BY <1>1, <2>1 DEF IInv, BeforeCollecting, Unchanged, Collecting, InTime, Running
  <2>4. Appended = 1 /\ Appended' = 1
    BY <1>1, <1>2, <2>1 DEF Appended
  <2>5. Collected'
    BY <1>1, <1>2, <2>1, <2>4, ExitOf DEF IInv, Collected, Collecting, SoFar, InTime
  <2> QED
    BY <2>2, <2>3, <2>5 DEF IInv
<1>3. CASE idx = 2
  <2>1. runner' = "idle" /\ Discarded /\ collected' = out'
    BY <1>1, <1>3, TwoCategories DEF Exit
  <2>2. Typed'
    BY <1>1, <2>1 DEF IInv, Typed, Discarded, NoResult, Zero, Outcome, Level
  <2>3. BeforeCollecting' /\ Unchanged' /\ Collected'
    BY <2>1 DEF BeforeCollecting, Unchanged, Collected, Collecting, Discarded
  <2> QED
    BY <2>2, <2>3 DEF IInv
<1> QED
  BY <1>1, <1>2, <1>3

-----------------------------------------------------------------------------
(* The goroutines of the categories *)

\* A step of one goroutine that leaves Run, the mutex and the slice alone.
LEMMA TaskKeeps ==
    ASSUME IInv, NEW t \in DOMAIN tasks, t # probe.owner,
           UNCHANGED <<runner, round, idx, result, latest, out, collected>>,
           probe' = probe \/ (probe'.owner = t /\ probe'.level = probe.level /\ tasks'[t].at = "write"),
           probe' = [owner |-> probe'.owner, fresh |-> probe'.fresh, level |-> probe'.level],
           DOMAIN tasks' = DOMAIN tasks, tasks'[t] \in Task,
           \A u \in DOMAIN tasks \ {t} : tasks'[u] = tasks[u]
    PROVE  IInv'
<1>1. Typed'
  BY DEF IInv, Typed
<1>2. BeforeCollecting' /\ Unchanged' /\ Collected'
  BY DEF IInv, BeforeCollecting, Unchanged, Collected, InTime, Running, Appended, SoFar
<1> QED
  BY <1>1, <1>2 DEF IInv

LEMMA CheckKeeps ==
    ASSUME IInv, NEW t \in DOMAIN tasks, Check(t), collected' = collected
    PROVE  IInv'
<1>1. PICK level \in Level : NowAt(t, "store", level)
  BY DEF Check
<1>2. /\ DOMAIN tasks' = DOMAIN tasks /\ tasks'[t] \in Task
      /\ \A u \in DOMAIN tasks \ {t} : tasks'[u] = tasks[u]
  BY <1>1 DEF NowAt, Task
<1>3. t # probe.owner
  BY DEF Check, IInv, Typed, Id, NoTask
<1> QED
  BY <1>2, <1>3, TaskKeeps DEF Check, IInv, Typed

LEMMA ProbeLockKeeps ==
    ASSUME IInv, NEW t \in DOMAIN tasks, ProbeLock(t), collected' = collected
    PROVE  IInv'
<1>1. t # NoTask
  BY DEF IInv, Typed, Id, NoTask
<1>2. CASE probe.fresh
  <2>1. /\ DOMAIN tasks' = DOMAIN tasks /\ tasks'[t] \in Task /\ probe' = probe
        /\ \A u \in DOMAIN tasks \ {t} : tasks'[u] = tasks[u]
    BY <1>2 DEF ProbeLock, NowAt, Task, IInv, Typed
  <2> QED
    BY <1>1, <2>1, TaskKeeps DEF ProbeLock, IInv, Typed
<1>3. CASE ~probe.fresh
  <2>1. /\ DOMAIN tasks' = DOMAIN tasks /\ tasks'[t] = [at |-> "write", level |-> 0]
        /\ \A u \in DOMAIN tasks \ {t} : tasks'[u] = tasks[u]
    BY <1>3 DEF ProbeLock, NowAt
  <2>2. probe' = [owner |-> t, fresh |-> TRUE, level |-> probe.level]
    BY <1>3 DEF ProbeLock, IInv, Typed
  <2>3. tasks'[t] \in Task
    BY <2>1 DEF Task, Level
  <2> QED
    BY <1>1, <2>1, <2>2, <2>3, TaskKeeps DEF ProbeLock
<1> QED
  BY <1>2, <1>3

LEMMA ProbeDoneKeeps ==
    ASSUME IInv, NEW t \in DOMAIN tasks, ProbeDone(t), collected' = collected
    PROVE  IInv'
<1>1. PICK level \in {0, 2} : probe' = Unlocked(level) /\ NowAt(t, "store", level)
  BY DEF ProbeDone
<1>2. /\ DOMAIN tasks' = DOMAIN tasks /\ tasks'[t] \in Task
      /\ \A u \in DOMAIN tasks \ {t} : tasks'[u] = tasks[u]
  BY <1>1 DEF NowAt, Task, Level
<1>3. probe' = [owner |-> NoTask, fresh |-> probe.fresh, level |-> level]
  BY <1>1 DEF Unlocked, IInv, Typed
<1>4. Typed'
  BY <1>2, <1>3 DEF ProbeDone, IInv, Typed, Level
<1>5. BeforeCollecting' /\ Unchanged' /\ Collected'
  BY <1>2 DEF ProbeDone, IInv, BeforeCollecting, Unchanged, Collected, InTime, Running, Appended, SoFar
<1> QED
  BY <1>4, <1>5 DEF IInv

\* A late goroutine writes the slice only in a place that was not done in time.
LEMMA WritesKeep ==
    ASSUME IInv, NEW t \in DOMAIN tasks, t.round = round,
           runner \in Collecting, out' \in [Cats -> Outcome],
           \A c \in Cats \ {t.cat} : out'[c] = out[c],
           DOMAIN tasks' \subseteq DOMAIN tasks,
           UNCHANGED <<runner, round, idx, result, collected>>
    PROVE  BeforeCollecting' /\ Unchanged' /\ Collected'
<1>1. Running(t.cat) /\ t.cat \in Cats
  BY DEF Running, IInv, Typed
<1>2. ~InTime(t.cat)
  BY <1>1 DEF IInv, Unchanged
<1>3. Unchanged'
  BY <1>2 DEF IInv, Unchanged, InTime, Running
<1>4. BeforeCollecting' /\ Collected'
  BY DEF IInv, BeforeCollecting, Collected, InTime, Appended, SoFar
<1> QED
  BY <1>3, <1>4

LEMMA TearKeeps ==
    ASSUME IInv, NEW t \in DOMAIN tasks, Tear(t), collected' = collected
    PROVE  IInv'
<1>1. /\ t.round = round /\ runner \in Collecting /\ t.cat \in Cats /\ tasks[t].level \in Level
      /\ UNCHANGED <<runner, round, idx, tasks, result, latest, probe, probes>>
  BY DEF Tear, IInv, Typed, Task
<1>2. out' \in [Cats -> Outcome] /\ \A c \in Cats \ {t.cat} : out'[c] = out[c]
  <2>1. CASE out' = [out EXCEPT ![t.cat].level = tasks[t].level]
    BY <1>1, <2>1 DEF IInv, Typed, Outcome
  <2>2. CASE out' = [out EXCEPT ![t.cat].total = 1]
    BY <1>1, <2>2 DEF IInv, Typed, Outcome
  <2> QED
    BY <2>1, <2>2 DEF Tear
<1>3. Typed'
  BY <1>1, <1>2 DEF IInv, Typed
<1> QED
  BY <1>1, <1>2, <1>3, WritesKeep DEF IInv

LEMMA StoreKeeps ==
    ASSUME IInv, NEW t \in DOMAIN tasks, Store(t), collected' = collected
    PROVE  IInv'
<1>1. /\ DOMAIN tasks' = DOMAIN tasks \ {t} /\ \A u \in DOMAIN tasks' : tasks'[u] = tasks[u]
      /\ UNCHANGED <<runner, round, idx, result, latest, probe, probes>>
      /\ t = Id(t.round, t.cat) /\ t.cat \in Cats /\ tasks[t].level \in Level /\ t # probe.owner
  BY DEF Store, Ends, Restrict, IInv, Typed, Task, NoTask, Id
<1>2. CASE t.round # round \/ runner = "idle"
  <2>1. out' = out
    BY <1>2 DEF Store, Stores
  <2>2. Typed'
    BY <1>1, <2>1 DEF IInv, Typed
  <2> QED
    BY <1>1, <2>1, <2>2 DEF IInv, BeforeCollecting, Unchanged, Collected, Collecting, InTime, Running, Appended, SoFar
<1>3. CASE t.round = round /\ runner # "idle"
  <2>1. out' = [out EXCEPT ![t.cat] = [level |-> tasks[t].level, total |-> 1]]
    BY <1>3 DEF Store, Stores
  <2>2. out' \in [Cats -> Outcome] /\ \A c \in Cats \ {t.cat} : out'[c] = out[c]
    BY <1>1, <2>1 DEF IInv, Typed, Outcome
  <2>3. Typed'
    BY <1>1, <2>2 DEF IInv, Typed
  <2>4. CASE runner = "wait"
    <3>1. \A c \in Cats : Running(c)' <=> Running(c) /\ c # t.cat
      BY <1>1, <1>3 DEF Running, Id
    <3> QED
      BY <1>1, <2>2, <2>3, <2>4, <3>1 DEF IInv, BeforeCollecting, Unchanged, Collected, Collecting
  <2>5. CASE runner \in Collecting
    BY <1>1, <1>3, <2>2, <2>3, <2>5, WritesKeep DEF IInv
  <2> QED
    BY <1>3, <2>4, <2>5 DEF IInv, Typed
<1> QED
  BY <1>2, <1>3

LEMMA ProbeAgesKeeps ==
    ASSUME IInv, ProbeAges, collected' = collected
    PROVE  IInv'
<1>1. /\ probe' = [owner |-> probe.owner, fresh |-> FALSE, level |-> probe.level]
      /\ UNCHANGED <<runner, round, idx, tasks, out, result, latest>>
  BY DEF ProbeAges, IInv, Typed
<1>2. Typed'
  BY <1>1 DEF IInv, Typed
<1>3. BeforeCollecting' /\ Unchanged' /\ Collected'
  BY <1>1 DEF IInv, BeforeCollecting, Unchanged, Collected, InTime, Running, Appended, SoFar
<1> QED
  BY <1>2, <1>3 DEF IInv

\* The history variable follows the slice between rounds, where nobody writes it.
LEMMA TasksKeep ==
    ASSUME IInv, NEW t \in DOMAIN tasks, TaskStep(t), HNext
    PROVE  IInv'
<1>1. runner' = runner
  BY DEF TaskStep, Check, ProbeLock, ProbeDone, Store, Tear
<1>2. runner = "idle" => out' = out
  BY DEF TaskStep, Check, ProbeLock, ProbeDone, Store, Stores, Tear
<1>3. collected' = collected
  BY <1>1, <1>2 DEF HNext, IInv, BeforeCollecting, Collecting
<1> QED
  BY <1>3, CheckKeeps, ProbeLockKeeps, ProbeDoneKeeps, StoreKeeps, TearKeeps DEF TaskStep

LEMMA Inductive == IInv /\ [HNext]_hvars => IInv'
<1> SUFFICES ASSUME IInv, [HNext]_hvars
             PROVE  IInv'
  OBVIOUS
<1>1. CASE UNCHANGED hvars
  BY <1>1, Stutters
<1>2. ASSUME HNext, RunStep
      PROVE  IInv'
  <2>1. CASE RoundBegins
    BY <1>2, <2>1, RoundBeginsKeeps DEF HNext, RoundBegins
  <2>2. CASE Collect
    BY <1>2, <2>2, CollectKeeps DEF HNext, Collect
  <2>3. CASE Test
    BY <1>2, <2>3, TestKeeps DEF HNext, Test
  <2>4. CASE AppendCategory
    BY <1>2, <2>4, AppendKeeps DEF HNext, AppendCategory
  <2>5. CASE Exit
    BY <1>2, <2>5, ExitKeeps DEF HNext, Exit
  <2> QED
    BY <1>2, <2>1, <2>2, <2>3, <2>4, <2>5 DEF RunStep
<1>3. ASSUME HNext, NEW t \in DOMAIN tasks, TaskStep(t)
      PROVE  IInv'
  BY <1>3, TasksKeep
<1>4. ASSUME HNext, ProbeAges
      PROVE  IInv'
  <2>1. collected' = collected
    BY <1>4 DEF HNext, ProbeAges, IInv, BeforeCollecting, Collecting
  <2> QED
    BY <1>4, <2>1, ProbeAgesKeeps
<1> QED
  BY <1>1, <1>2, <1>3, <1>4 DEF HNext, Next

-----------------------------------------------------------------------------
(* What is published *)

LEMMA WellTyped == IInv => TypeOK
BY TwoCategories DEF IInv, Typed, TypeOK, Collecting, Task, Outcome

LEMMA WorstOfTwo ==
    ASSUME NEW a \in Level, NEW b \in Level
    PROVE  Max({a, b}) = WorseExit(a, b)
<1>1. \E m \in {a, b} : \A n \in {a, b} : m >= n
  BY DEF Level
<1> QED
  BY <1>1 DEF Max, WorseExit, Level

PublishedExactly ==
    Published =>
        /\ Len(latest'.cats) = Len(Category)
        /\ \A i \in DOMAIN Category :
             InTime(Category[i]) => latest'.cats[i] = collected[Category[i]]
        /\ (\A c \in Cats : InTime(c)) => latest'.exit = Max(Levels(latest'.cats))

LEMMA ExitPublishes ==
    ASSUME IInv, Exit, idx = 2
    PROVE  PublishedExactly
<1> DEFINE exit == WorseExit(result.exit, out[Category[idx]].level)
<1>1. latest' = [cats |-> result.cats, exit |-> exit]
  BY TwoCategories DEF Exit, IInv, Typed
<1>2. /\ result.cats \in Seq(Outcome) /\ Len(result.cats) = 2
      /\ \A i \in 1..2 : InTime(Category[i]) => result.cats[i] = collected[Category[i]]
  BY DEF Exit, IInv, Collected, Collecting, Appended
<1>3. ASSUME \A c \in Cats : InTime(c)
      PROVE  exit = Max(Levels(result.cats))
  <2>1. exit = WorseExit(collected["other"].level, collected["probe"].level)
    BY <1>3, ExitOf
  <2>2. result.cats[1] = collected["other"] /\ result.cats[2] = collected["probe"]
    BY <1>2, <1>3, TwoCategories DEF Cats
  <2>3. DOMAIN result.cats = 1..2
    BY <1>2
  <2>4. Levels(result.cats) = {collected["other"].level, collected["probe"].level}
    BY <2>2, <2>3 DEF Levels
  <2>5. collected["other"].level \in Level /\ collected["probe"].level \in Level
    BY DEF IInv, Typed, Outcome, Cats
  <2> QED
    BY <2>1, <2>4, <2>5, WorstOfTwo
<1> QED
  BY <1>1, <1>2, <1>3, TwoCategories DEF PublishedExactly

\* Only the last Exit of a round publishes.
LEMMA StepPublishes ==
    ASSUME IInv, [HNext]_hvars
    PROVE  PublishedExactly
<1>1. CASE Exit
  <2>1. CASE idx = 1
    BY <1>1, <2>1, TwoCategories DEF Exit, PublishedExactly, Published
  <2>2. CASE idx = 2
    BY <1>1, <2>2, ExitPublishes
  <2> QED
    BY <2>1, <2>2 DEF IInv, Typed
<1>2. CASE ~Exit
  BY <1>2 DEF PublishedExactly, Published, HNext, Next, RunStep, RoundBegins, Collect, Test, AppendCategory,
         TaskStep, Check, ProbeLock, ProbeDone, Store, Tear, ProbeAges, hvars, vars
<1> QED
  BY <1>1, <1>2

\* ResultExact (check.go, Run): for any number of rounds and any goroutines that are
\* late, those of earlier rounds included.
THEOREM Exact == HSpec => ResultExact
<1>1. HInit => IInv
  BY Starts
<1>2. IInv /\ [HNext]_hvars => IInv'
  BY Inductive
<1>3. IInv => TypeOK
  BY WellTyped
<1>4. IInv /\ [HNext]_hvars => [PublishedExactly]_hvars
  BY StepPublishes
<1> QED
  BY <1>1, <1>2, <1>3, <1>4, PTL DEF HSpec, ResultExact, PublishedExactly
-----------------------------------------------------------------------------
(* The baseline: the manual one in force is the one on disk, whichever write   *)
(* or removal fails and wherever the process ends, for requests that come one  *)
(* after the other; and no growth of a counter is hidden, for goroutines that  *)
(* judge one after the other.  For any counters and, where the theorem does    *)
(* not say otherwise, any number of goroutines and of requests at a time.      *)

Request == [at : {"idle", "save", "apply", "clear"}, vals : Vals]
Checking == [at : {"idle", "base", "judge"}, key : Key \union {None}, cur : Value, base : Value]

\* BaselineTypeOK, and the types of what a goroutine carries from one step to the next.
BaselineTyped ==
    /\ counter \in [Key -> Value]
    /\ bl \in Vals \union {None} /\ disk \in Vals \union {None}
    /\ first \in Vals /\ loaded \in BOOLEAN
    /\ check \in [Checker -> Checking]
    /\ \A c \in Checker : check[c].at # "idle" => check[c].key \in Key
    /\ request \in [Handler -> Request]
    /\ restarts \in Nat

\* What a request has done by the time it stands at each of its steps: the file is
\* written before it takes effect, and memory is cleared before the file goes.
InStep(h) ==
    /\ request[h].at \in {"idle", "save"} => bl \in {None, disk}
    /\ request[h].at = "apply" => disk = request[h].vals
    /\ request[h].at = "clear" => bl = None

\* No request is served before LoadBaseline.
ServedWhenLoaded == \A h \in Handler : ~loaded => request[h].at = "idle"

\* The inductive invariant for requests served by h alone.
BaselineInv(h) == BaselineTyped /\ InStep(h) /\ ServedWhenLoaded

-----------------------------------------------------------------------------
(* What the growth of a counter is judged by *)

\* The values of a copy of the manual baseline that is not outdated.
Below(vals, count) == vals # None => \A k \in DOMAIN vals : vals[k] <= count[k]

Fresh == "bl" \notin outdated

UpToDate ==
    /\ Fresh => Below(bl, counter)
    /\ "disk" \notin outdated => Below(disk, counter)
    /\ \A h \in Handler : h \notin outdated => Below(request[h].vals, counter)

\* No baseline is in force and no request served before LoadBaseline.
NothingLoaded == ~loaded => (bl = None /\ \A h \in Handler : request[h].at = "idle")

\* A starting point that hides nothing of what lies above v.
StartsBelow(k, v) ==
    /\ (Known(bl, k) /\ Fresh) => bl[k] <= v
    /\ ~Known(bl, k) => (k \in DOMAIN first /\ first[k] <= v)

\* The starting point found is the one that is still in force.
BaseIsCurrent(c) ==
    LET k == check[c].key
    IN  /\ Known(bl, k) => check[c].base = bl[k]
        /\ ~Known(bl, k) => (k \in DOMAIN first /\ check[c].base = first[k])

\* A reading since the last new start.
ReadingTrue(c) ==
    LET k == check[c].key
    IN  /\ check[c].at # "idle"
        /\ (Known(bl, k) /\ Fresh) => bl[k] <= check[c].cur
        /\ check[c].at = "judge" => BaseIsCurrent(c)

\* A reading of more than what was judged since then.
GrowthTrue(c) ==
    LET k == check[c].key
    IN  c \in reading /\ judged[k] # None /\ judged[k] < check[c].cur

JudgedTrue(k) == judged[k] # None => (judged[k] \in Value /\ StartsBelow(k, judged[k]))

\* Nothing was judged since the last new start while a reading from before it is judged.
LateTrue(c) == (check[c].at # "idle" /\ c \notin reading) => \A k \in Key : judged[k] = None

\* The inductive invariant for counters judged by one goroutine after the other.
GInv ==
    /\ BaselineTyped /\ UpToDate /\ NothingLoaded
    /\ \A c \in reading : c \in Checker /\ ReadingTrue(c)
    /\ \A c \in grown : GrowthTrue(c)
    /\ judged \in [Key -> Value \union {None}]
    /\ \A k \in Key : JudgedTrue(k)
    /\ \A c \in Checker : LateTrue(c)

-----------------------------------------------------------------------------
(* Values of some of the counters *)

LEMMA Restricted ==
    ASSUME counter \in [Key -> Value], NEW K \in SUBSET Key
    PROVE  Restrict(counter, K) \in Vals
BY DEF Restrict, Vals

LEMMA Extended ==
    ASSUME NEW vals \in Vals, NEW k \in Key, NEW v \in Value
    PROVE  Set(vals, k, v) \in Vals
<1>1. PICK K \in SUBSET Key : vals \in [K -> Value]
  BY DEF Vals
<1>2. Set(vals, k, v) \in [K \union {k} -> Value]
  BY <1>1 DEF Set
<1> QED
  BY <1>2 DEF Vals

LEMMA Nothing == NoVals \in Vals
BY DEF NoVals, Vals

LEMMA ZeroCounts == 0 \in Value
BY BaselineAssumption DEF Value

-----------------------------------------------------------------------------
(* The steps *)

LEMMA BaselineStarts ==
    ASSUME NEW h, Handler = {h}, BaselineHInit
    PROVE  BaselineInv(h)
<1> USE Nothing, ZeroCounts
<1>1. BaselineInit
  BY DEF BaselineHInit
<1>2. Quiet \in Request /\ Unread \in Checking
  BY DEF Quiet, Unread, Request, Checking
<1>3. check \in [Checker -> Checking] /\ request \in [Handler -> Request]
  BY <1>1, <1>2 DEF BaselineInit
<1>4. \A c \in Checker : check[c].at = "idle"
  BY <1>1 DEF BaselineInit, Unread
<1>5. request[h].at = "idle"
  BY <1>1 DEF BaselineInit, Quiet
<1> QED
  BY <1>1, <1>3, <1>4, <1>5 DEF BaselineInit, BaselineInv, BaselineTyped, InStep, ServedWhenLoaded

LEMMA LookUpTyped ==
    ASSUME BaselineTyped, NEW c \in Checker, LookUp(c)
    PROVE  BaselineTyped'
<1> DEFINE key == check[c].key
           cur == check[c].cur
<1>1. key \in Key /\ cur \in Value
  BY DEF LookUp, BaselineTyped, Checking
<1>2. FirstAfter(key, cur) \in Vals
  BY <1>1, Extended DEF BaselineTyped, FirstAfter
<1>3. BaseOf(key, cur) \in Value
  BY <1>1 DEF BaselineTyped, BaseOf, Known, Vals
<1> QED
  BY <1>1, <1>2, <1>3 DEF LookUp, BaselineTyped, bounds, Checking

LEMMA JudgeTyped ==
    ASSUME BaselineTyped, NEW c \in Checker, Judge(c)
    PROVE  BaselineTyped'
<1>1. check[c].key \in Key /\ check[c].cur \in Value
  BY DEF Judge, BaselineTyped, Checking
<1>2. Restarted(check[c].key, check[c].base, check[c].cur) \in Vals
  BY <1>1, Extended DEF BaselineTyped, Restarted
<1> QED
  BY <1>2, ZeroCounts DEF Judge, BaselineTyped, bounds, Checking, Unread

LEMMA CountTyped ==
    ASSUME BaselineTyped, NEW k \in Key, Count(k) \/ Reset(k)
    PROVE  BaselineTyped'
<1>1. counter' \in [Key -> Value]
  BY ZeroCounts, BaselineAssumption DEF BaselineTyped, Count, Reset, Value
<1> QED
  BY <1>1 DEF Count, Reset, BaselineTyped, blVars, bounds

LEMMA NewProcessTyped ==
    ASSUME BaselineTyped, NEW reboot \in BOOLEAN, NewProcess(reboot)
    PROVE  BaselineTyped'
<1> USE Nothing, ZeroCounts
<1>1. Quiet \in Request /\ Unread \in Checking
  BY DEF Quiet, Unread, Request, Checking
<1>2. restarts' \in Nat
  BY DEF NewProcess, BaselineTyped
<1> QED
  BY <1>1, <1>2 DEF NewProcess, BaselineTyped, Unread

LEMMA Steps ==
    ASSUME BaselineTyped, NEW h \in Handler,
           NEW at \in {"idle", "save", "apply", "clear"}, NEW vals \in Vals, Step(h, at, vals)
    PROVE  request' \in [Handler -> Request] /\ request'[h] = [at |-> at, vals |-> vals]
BY DEF BaselineTyped, Step, Request

\* A request keeps values of counters only, and changes the baseline to nothing else.
LEMMA RequestTyped ==
    ASSUME BaselineTyped, NEW h \in Handler,
           SaveBegin(h) \/ SaveWrite(h) \/ SaveApply(h) \/ ClearMemory(h) \/ ClearDisk(h)
    PROVE  BaselineTyped'
<1>1. \A K \in SUBSET Key : Restrict(counter, K) \in Vals
  BY Restricted DEF BaselineTyped
<1>2. request[h].vals \in Vals
  BY DEF BaselineTyped, Request
<1>3. request' \in [Handler -> Request]
  BY <1>1, <1>2, Nothing, Steps
     DEF SaveBegin, Snapshot, SaveWrite, WriteFailed, SaveApply, ClearMemory, ClearDisk
<1>4. bl' \in Vals \union {None} /\ disk' \in Vals \union {None}
  BY <1>2 DEF SaveBegin, SaveWrite, SaveApply, ClearMemory, ClearDisk, BaselineTyped, blVars
<1> QED
  BY <1>3, <1>4 DEF SaveBegin, SaveWrite, SaveApply, ClearMemory, ClearDisk, BaselineTyped, blVars, bounds

LEMMA TypedKept ==
    ASSUME BaselineTyped, BaselineNext
    PROVE  BaselineTyped'
<1>1. ASSUME NEW c \in Checker, NEW k \in Key, Read(c, k)
      PROVE  BaselineTyped'
  BY <1>1, ZeroCounts DEF Read, BaselineTyped, blVars, bounds, Checking
<1>2. CASE LoadBaseline
  BY <1>2 DEF LoadBaseline, BaselineTyped, bounds
<1> QED
  BY <1>1, <1>2, LookUpTyped, JudgeTyped, CountTyped, NewProcessTyped, RequestTyped DEF BaselineNext

-----------------------------------------------------------------------------
(* The steps of the one request *)

LEMMA SaveBeginKeeps ==
    ASSUME NEW h, Handler = {h}, BaselineInv(h), SaveBegin(h)
    PROVE  (InStep(h) /\ ServedWhenLoaded)'
<1>1. PICK K \in SUBSET Key : Step(h, "save", Restrict(counter, K))
  BY DEF SaveBegin, Snapshot
<1>2. request'[h].at = "save"
  BY <1>1 DEF BaselineInv, BaselineTyped, Step
<1> QED
  BY <1>2 DEF SaveBegin, BaselineInv, InStep, ServedWhenLoaded, blVars

\* Written and still to be applied, or failed and given up.
LEMMA SaveWriteKeeps ==
    ASSUME NEW h, Handler = {h}, BaselineInv(h), SaveWrite(h)
    PROVE  (InStep(h) /\ ServedWhenLoaded)'
<1>1. request[h].vals \in Vals /\ bl \in {None, disk} /\ loaded
  BY DEF SaveWrite, BaselineInv, BaselineTyped, InStep, ServedWhenLoaded, Request
<1>2. CASE disk' = request[h].vals /\ Step(h, "apply", request[h].vals)
  <2>1. request'[h] = [at |-> "apply", vals |-> request[h].vals]
    BY <1>1, <1>2, Steps DEF BaselineInv
  <2> QED
    BY <1>1, <1>2, <2>1 DEF SaveWrite, InStep, ServedWhenLoaded
<1>3. CASE disk' = disk /\ WriteFailed(h)
  <2>1. request'[h] = [at |-> "idle", vals |-> NoVals]
    BY <1>3, Nothing, Steps DEF BaselineInv, WriteFailed
  <2> QED
    BY <1>1, <1>3, <2>1 DEF SaveWrite, InStep, ServedWhenLoaded
<1> QED
  BY <1>2, <1>3 DEF SaveWrite

LEMMA SaveApplyKeeps ==
    ASSUME NEW h, Handler = {h}, BaselineInv(h), SaveApply(h)
    PROVE  (InStep(h) /\ ServedWhenLoaded)'
<1>1. bl' = disk /\ disk' = disk
  BY DEF SaveApply, BaselineInv, InStep
<1>2. request'[h] = [at |-> "idle", vals |-> NoVals]
  BY Nothing, Steps DEF SaveApply, BaselineInv
<1> QED
  BY <1>1, <1>2 DEF SaveApply, InStep, ServedWhenLoaded

LEMMA ClearKeeps ==
    ASSUME NEW h, Handler = {h}, BaselineInv(h), ClearMemory(h) \/ ClearDisk(h)
    PROVE  (InStep(h) /\ ServedWhenLoaded)'
<1>1. CASE ClearMemory(h)
  <2>1. request'[h] = [at |-> "clear", vals |-> NoVals]
    BY <1>1, Nothing, Steps DEF ClearMemory, BaselineInv
  <2> QED
    BY <1>1, <2>1 DEF ClearMemory, InStep, ServedWhenLoaded
<1>2. CASE ClearDisk(h)
  <2>1. request'[h] = [at |-> "idle", vals |-> NoVals]
    BY <1>2, Nothing, Steps DEF ClearDisk, BaselineInv
  <2> QED
    BY <1>2, <2>1 DEF ClearDisk, BaselineInv, InStep, ServedWhenLoaded
<1> QED
  BY <1>1, <1>2

-----------------------------------------------------------------------------
(* The baseline is durable *)

LEMMA BaselineInductive ==
    ASSUME NEW h, Handler = {h}, BaselineInv(h), [BaselineHNext]_baselineHVars
    PROVE  BaselineInv(h)'
<1>1. CASE UNCHANGED baselineHVars
  BY <1>1 DEF baselineHVars, baselineVars, blVars, bounds, BaselineInv, BaselineTyped, InStep, ServedWhenLoaded
<1>2. CASE BaselineNext
  <2> SUFFICES (InStep(h) /\ ServedWhenLoaded)'
    BY <1>2, TypedKept DEF BaselineInv
  <2>1. CASE \E k \in Key : Count(k) \/ Reset(k)
    BY <2>1 DEF Count, Reset, BaselineInv, InStep, ServedWhenLoaded, blVars
  <2>2. CASE \E c \in Checker : LookUp(c) \/ Judge(c) \/ \E k \in Key : Read(c, k)
    BY <2>2 DEF LookUp, Judge, Read, BaselineInv, InStep, ServedWhenLoaded, blVars
  <2>3. CASE \E reboot \in BOOLEAN : NewProcess(reboot)
    BY <2>3 DEF NewProcess, InStep, ServedWhenLoaded, Quiet
  <2>4. CASE LoadBaseline
    BY <2>4 DEF LoadBaseline, BaselineInv, InStep, ServedWhenLoaded
  <2>5. CASE SaveBegin(h) \/ SaveWrite(h) \/ SaveApply(h) \/ ClearMemory(h) \/ ClearDisk(h)
    BY <2>5, SaveBeginKeeps, SaveWriteKeeps, SaveApplyKeeps, ClearKeeps
  <2> QED
    BY <1>2, <2>1, <2>2, <2>3, <2>4, <2>5 DEF BaselineNext
<1> QED
  BY <1>1, <1>2 DEF BaselineHNext

LEMMA Implied ==
    ASSUME NEW h, Handler = {h}, BaselineInv(h)
    PROVE  BaselineDurable
BY DEF BaselineInv, BaselineTyped, InStep, BaselineDurable, BaselineTypeOK, Request

\* BaselineDurable (check/baseline.go:165) when requests to /api/baseline do not overlap:
\* for any counters and values, any number of goroutines that judge them, and any
\* failures, reboots and restarts.
THEOREM Durable ==
    ASSUME NEW h, Handler = {h}
    PROVE  BaselineHSpec => []BaselineDurable
<1>1. BaselineHInit => BaselineInv(h)
  BY BaselineStarts
<1>2. BaselineInv(h) /\ [BaselineHNext]_baselineHVars => BaselineInv(h)'
  BY BaselineInductive
<1>3. BaselineInv(h) => BaselineDurable
  BY Implied
<1> QED
  BY <1>1, <1>2, <1>3, PTL DEF BaselineHSpec
-----------------------------------------------------------------------------
(* How old the copies are *)

LEMMA HStarts ==
    ASSUME BaselineHInit
    PROVE  GInv
<1> USE Nothing, ZeroCounts
<1>1. BaselineInit
  BY DEF BaselineHInit
<1>2. Quiet \in Request /\ Unread \in Checking
  BY DEF Quiet, Unread, Request, Checking
<1>3. check \in [Checker -> Checking] /\ request \in [Handler -> Request]
  BY <1>1, <1>2 DEF BaselineInit
<1>4. \A c \in Checker : check[c].at = "idle"
  BY <1>1 DEF BaselineInit, Unread
<1>5. \A h \in Handler : request[h].at = "idle" /\ request[h].vals = NoVals
  BY <1>1 DEF BaselineInit, Quiet
<1>6. BaselineTyped
  BY <1>1, <1>3, <1>4 DEF BaselineInit, BaselineTyped
<1>7. UpToDate
  BY <1>1, <1>5 DEF BaselineInit, UpToDate, Below, NoVals
<1> QED
  BY <1>1, <1>4, <1>5, <1>6, <1>7 DEF BaselineInit, BaselineHInit, GInv, NothingLoaded, JudgedTrue, LateTrue

\* What lay below the counters lies below them until one of them falls.
LEMMA StillBelow ==
    ASSUME BaselineTyped, BaselineTyped', ~Falls, NEW vals \in Vals \union {None}, Below(vals, counter)
    PROVE  Below(vals, counter')
<1>1. SUFFICES ASSUME vals # None, NEW k \in DOMAIN vals
               PROVE  vals[k] <= counter'[k]
  BY DEF Below
<1>2. k \in Key /\ vals[k] \in Value
  BY <1>1 DEF Vals
<1>3. counter[k] \in Value /\ counter'[k] \in Value
  BY <1>2 DEF BaselineTyped
<1>4. ~(counter'[k] < counter[k]) /\ vals[k] <= counter[k]
  BY <1>1, <1>2 DEF Falls, Below
<1> QED
  BY <1>2, <1>3, <1>4, BaselineAssumption DEF Value

LEMMA Bottom == \A count : Below(None, count) /\ Below(NoVals, count)
BY DEF Below, NoVals

\* Without a request that moves or a baseline that is loaded the copies stay as they are.
LEMMA NoCopy ==
    ASSUME ~Falls, loaded' => loaded, request' = request
    PROVE  NextOutdated = outdated
BY DEF NextOutdated

\* The one request that moves decides what is copied.
LEMMA OneCopy ==
    ASSUME BaselineTyped, ~Falls, loaded' = loaded, NEW h \in Handler, NEW at, NEW vals, Step(h, at, vals),
           at # request[h].at
    PROVE  NextOutdated = CASE at = "save" -> outdated \ {h}
                            [] at = "apply" -> Copied(h, "disk")
                            [] request[h].at = "apply" -> Copied(h, "bl")
                            [] OTHER -> outdated
<1>1. request'[h].at = at
  BY DEF BaselineTyped, Step
<1>2. \A x \in Handler : request[x].at # request'[x].at <=> x = h
  BY <1>1 DEF BaselineTyped, Step
<1>3. (CHOOSE x \in Handler : request[x].at # request'[x].at) = h
  BY <1>2
<1> QED
  BY <1>1, <1>2, <1>3 DEF NextOutdated

LEMMA Others ==
    ASSUME BaselineTyped, NEW h \in Handler, NEW at, NEW vals, Step(h, at, vals)
    PROVE  request'[h].vals = vals /\ \A x \in Handler \ {h} : request'[x] = request[x]
<1>1. [at |-> at, vals |-> vals].vals = vals
  OBVIOUS
<1> QED
  BY <1>1 DEF BaselineTyped, Step

\* The copies after a step, when those of the requests are those of one request and the rest.
LEMMA Assembled ==
    ASSUME NEW h \in Handler,
           Fresh' => Below(bl', counter'),
           "disk" \notin outdated' => Below(disk', counter'),
           h \notin outdated' => Below(request'[h].vals, counter'),
           \A x \in Handler \ {h} : request'[x] = request[x],
           \A x \in Handler \ {h} : x \notin outdated' => x \notin outdated,
           \A x \in Handler : x \notin outdated => Below(request[x].vals, counter')
    PROVE  UpToDate'
BY DEF UpToDate

\* The copies that are left alone.
LEMMA RestUpToDate ==
    ASSUME BaselineTyped, BaselineTyped', UpToDate, ~Falls
    PROVE  /\ Fresh => Below(bl, counter')
           /\ "disk" \notin outdated => Below(disk, counter')
           /\ \A h \in Handler : h \notin outdated => Below(request[h].vals, counter')
<1>1. \A h \in Handler : request[h].vals \in Vals
  BY DEF BaselineTyped, Request
<1> QED
  BY <1>1, StillBelow DEF BaselineTyped, UpToDate

LEMMA SaveBeginUpToDate ==
    ASSUME BaselineTyped, BaselineTyped', UpToDate, ~Falls, NEW h \in Handler, SaveBegin(h), outdated' = NextOutdated
    PROVE  UpToDate'
<1>1. PICK K \in SUBSET Key : Step(h, "save", Restrict(counter, K))
  BY DEF SaveBegin, Snapshot
<1> DEFINE snapshot == Restrict(counter, K)
<1>2. Below(snapshot, counter')
  <2>1. counter' = counter /\ \A k \in Key : counter[k] <= counter[k]
    BY BaselineAssumption DEF SaveBegin, BaselineTyped, Value
  <2> QED
    BY <2>1 DEF Below, Restrict
<1>3. Step(h, "save", snapshot)
  BY <1>1
<1> HIDE DEF snapshot
<1>4. bl' = bl /\ disk' = disk /\ loaded' = loaded /\ "save" # request[h].at
  BY DEF SaveBegin, blVars
<1>5. outdated' = outdated \ {h}
  <2>1. NextOutdated = CASE "save" = "save" -> outdated \ {h}
                         [] "save" = "apply" -> Copied(h, "disk")
                         [] request[h].at = "apply" -> Copied(h, "bl")
                         [] OTHER -> outdated
    BY <1>3, <1>4, OneCopy
  <2> QED
    BY <1>4, <2>1 DEF SaveBegin
<1>6. request'[h].vals = snapshot /\ \A x \in Handler \ {h} : request'[x] = request[x]
  BY <1>3, Others
<1>7. Fresh' => Below(bl', counter')
  BY <1>4, <1>5, RestUpToDate, CopiesAssumption DEF Fresh
<1>8. "disk" \notin outdated' => Below(disk', counter')
  BY <1>4, <1>5, RestUpToDate, CopiesAssumption
<1> QED
  BY <1>2, <1>5, <1>6, <1>7, <1>8, RestUpToDate, Assembled

LEMMA SaveWriteUpToDate ==
    ASSUME BaselineTyped, BaselineTyped', UpToDate, ~Falls, NEW h \in Handler, SaveWrite(h), outdated' = NextOutdated
    PROVE  UpToDate'
<1>1. bl' = bl /\ loaded' = loaded /\ request[h].at = "save"
  BY DEF SaveWrite
<1>2. CASE disk' = request[h].vals /\ Step(h, "apply", request[h].vals)
  <2>1. outdated' = Copied(h, "disk")
    BY <1>1, <1>2, OneCopy
  <2>2. request'[h].vals = request[h].vals /\ \A x \in Handler \ {h} : request'[x] = request[x]
    BY <1>2, Others
  <2>3. Fresh' => Below(bl', counter')
    BY <1>1, <2>1, RestUpToDate, CopiesAssumption DEF Fresh, Copied
  <2>4. "disk" \notin outdated' => Below(disk', counter')
    BY <1>2, <2>1, RestUpToDate, CopiesAssumption DEF Copied
  <2>5. \A x \in Handler : x \notin outdated' => x \notin outdated
    BY <2>1, CopiesAssumption DEF Copied
  <2> QED
    BY <2>2, <2>3, <2>4, <2>5, RestUpToDate, Assembled
<1>3. CASE disk' = disk /\ WriteFailed(h)
  <2>1. Step(h, "idle", NoVals)
    BY <1>3 DEF WriteFailed
  <2>2. outdated' = outdated
    BY <1>1, <2>1, OneCopy
  <2>3. request'[h].vals = NoVals /\ \A x \in Handler \ {h} : request'[x] = request[x]
    BY <2>1, Others
  <2> QED
    BY <1>1, <1>3, <2>2, <2>3, RestUpToDate, Bottom, Assembled DEF Fresh
<1> QED
  BY <1>2, <1>3 DEF SaveWrite

LEMMA SaveApplyUpToDate ==
    ASSUME BaselineTyped, BaselineTyped', UpToDate, ~Falls, NEW h \in Handler, SaveApply(h), outdated' = NextOutdated
    PROVE  UpToDate'
<1>1. bl' = request[h].vals /\ disk' = disk /\ loaded' = loaded /\ request[h].at = "apply"
      /\ Step(h, "idle", NoVals)
  BY DEF SaveApply
<1>2. outdated' = Copied(h, "bl")
  BY <1>1, OneCopy
<1>3. request'[h].vals = NoVals /\ \A x \in Handler \ {h} : request'[x] = request[x]
  BY <1>1, Others
<1>4. Fresh' => Below(bl', counter')
  BY <1>1, <1>2, RestUpToDate DEF Fresh, Copied
<1>5. "disk" \notin outdated' => Below(disk', counter')
  BY <1>1, <1>2, RestUpToDate DEF Copied
<1>6. \A x \in Handler : x \notin outdated' => x \notin outdated
  BY <1>2, CopiesAssumption DEF Copied
<1> QED
  BY <1>3, <1>4, <1>5, <1>6, RestUpToDate, Bottom, Assembled

LEMMA ClearUpToDate ==
    ASSUME BaselineTyped, BaselineTyped', UpToDate, ~Falls, NEW h \in Handler, ClearMemory(h) \/ ClearDisk(h),
           outdated' = NextOutdated
    PROVE  UpToDate'
<1>1. PICK at \in {"clear", "idle"} : Step(h, at, NoVals) /\ at # request[h].at
                                      /\ request[h].at \in {"clear", "idle"}
  BY DEF ClearMemory, ClearDisk
<1>2. loaded' = loaded /\ bl' \in {None, bl} /\ disk' \in {None, disk}
  BY DEF ClearMemory, ClearDisk
<1>3. outdated' = outdated
  BY <1>1, <1>2, OneCopy
<1>4. request'[h].vals = NoVals /\ \A x \in Handler \ {h} : request'[x] = request[x]
  BY <1>1, Others
<1>5. Fresh' => Below(bl', counter')
  BY <1>2, <1>3, RestUpToDate, Bottom DEF Fresh
<1>6. "disk" \notin outdated' => Below(disk', counter')
  BY <1>2, <1>3, RestUpToDate, Bottom
<1> QED
  BY <1>3, <1>4, <1>5, <1>6, RestUpToDate, Bottom, Assembled

LEMMA NewProcessUpToDate ==
    ASSUME BaselineTyped, BaselineTyped', UpToDate, ~Falls, NEW reboot \in BOOLEAN, NewProcess(reboot),
           outdated' = NextOutdated
    PROVE  UpToDate'
<1>1. bl' = None /\ disk' = disk /\ ~loaded'
      /\ \A h \in Handler : request'[h].at = "idle" /\ request'[h].vals = NoVals
  BY DEF NewProcess, Quiet
<1>2. "disk" \in outdated' <=> "disk" \in outdated
  <2>1. CASE \E h \in Handler : request[h].at # request'[h].at
    <3> DEFINE x == CHOOSE h \in Handler : request[h].at # request'[h].at
    <3>1. x \in Handler
      BY <2>1
    <3>2. request'[x].at = "idle"
      BY <1>1, <3>1
    <3>3. outdated' = CASE request'[x].at = "save" -> outdated \ {x}
                        [] request'[x].at = "apply" -> Copied(x, "disk")
                        [] request[x].at = "apply" -> Copied(x, "bl")
                        [] OTHER -> outdated
      BY <1>1, <2>1 DEF NextOutdated
    <3>4. outdated' = IF request[x].at = "apply" THEN Copied(x, "bl") ELSE outdated
      BY <3>2, <3>3
    <3> QED
      BY <3>4 DEF Copied
  <2> QED
    BY <1>1, <2>1 DEF NextOutdated
<1> QED
  BY <1>1, <1>2, RestUpToDate, Bottom DEF UpToDate, Fresh

LEMMA LoadUpToDate ==
    ASSUME BaselineTyped, BaselineTyped', UpToDate, ~Falls, LoadBaseline, outdated' = NextOutdated
    PROVE  UpToDate'
<1>1. outdated' = Copied("disk", "bl") /\ request' = request /\ disk' = disk /\ bl' \in {disk, None}
  BY DEF LoadBaseline, NextOutdated
<1> QED
  BY <1>1, RestUpToDate, Bottom, CopiesAssumption DEF UpToDate, Fresh, Copied

LEMMA UpToDateKept ==
    ASSUME BaselineTyped, BaselineTyped', UpToDate, BaselineHNext
    PROVE  UpToDate'
<1>1. outdated' = NextOutdated /\ BaselineNext
  BY DEF BaselineHNext
<1>2. CASE Falls
  BY <1>1, <1>2 DEF NextOutdated, UpToDate, Fresh
<1>3. CASE ~Falls
  <2>1. CASE request' = request /\ bl' = bl /\ disk' = disk /\ loaded' = loaded
    BY <1>1, <1>3, <2>1, NoCopy, RestUpToDate DEF UpToDate, Fresh
  <2>2. CASE \E k \in Key : Count(k) \/ Reset(k)
    BY <2>1, <2>2 DEF Count, Reset, blVars
  <2>3. CASE \E c \in Checker : LookUp(c) \/ Judge(c) \/ \E k \in Key : Read(c, k)
    BY <2>1, <2>3 DEF LookUp, Judge, Read, blVars
  <2>4. CASE \E reboot \in BOOLEAN : NewProcess(reboot)
    BY <1>1, <1>3, <2>4, NewProcessUpToDate
  <2>5. CASE LoadBaseline
    BY <1>1, <1>3, <2>5, LoadUpToDate
  <2>6. CASE \E h \in Handler : SaveBegin(h) \/ SaveWrite(h) \/ SaveApply(h)
                                \/ ClearMemory(h) \/ ClearDisk(h)
    BY <1>1, <1>3, <2>6, SaveBeginUpToDate, SaveWriteUpToDate, SaveApplyUpToDate, ClearUpToDate
  <2> QED
    BY <1>1, <2>2, <2>3, <2>4, <2>5, <2>6 DEF BaselineNext
<1> QED
  BY <1>2, <1>3
-----------------------------------------------------------------------------
(* What was read and judged since the last new start *)

LEMMA NothingLoadedKept ==
    ASSUME BaselineTyped, NothingLoaded, BaselineNext
    PROVE  NothingLoaded'
<1>1. CASE \E k \in Key : Count(k) \/ Reset(k)
  BY <1>1 DEF Count, Reset, NothingLoaded, blVars
<1>2. CASE \E c \in Checker : LookUp(c) \/ Judge(c) \/ \E k \in Key : Read(c, k)
  BY <1>2 DEF LookUp, Judge, Read, NothingLoaded, blVars
<1>3. CASE \E reboot \in BOOLEAN : NewProcess(reboot)
  BY <1>3 DEF NewProcess, NothingLoaded, Quiet
<1>4. CASE LoadBaseline
  BY <1>4 DEF LoadBaseline, NothingLoaded
<1>5. CASE \E h \in Handler : SaveBegin(h) \/ SaveWrite(h) \/ SaveApply(h)
                              \/ ClearMemory(h) \/ ClearDisk(h)
  BY <1>5 DEF SaveBegin, SaveWrite, SaveApply, ClearMemory, ClearDisk, NothingLoaded, blVars
<1> QED
  BY <1>1, <1>2, <1>3, <1>4, <1>5 DEF BaselineNext

\* What was read and judged, apart from the copies.
Told ==
    /\ \A c \in reading : c \in Checker /\ ReadingTrue(c)
    /\ \A c \in grown : GrowthTrue(c)
    /\ judged \in [Key -> Value \union {None}]
    /\ \A k \in Key : JudgedTrue(k)
    /\ \A c \in Checker : LateTrue(c)

\* A new start forgets all of it.
LEMMA Forgotten ==
    ASSUME BaselineHNext, NewStart
    PROVE  Told'
<1>1. judged' = [k \in Key |-> None] /\ reading' = {} /\ grown' = {}
  BY DEF BaselineHNext
<1> QED
  BY <1>1 DEF Told, JudgedTrue, LateTrue

\* Between two new starts the manual baseline and its age stay as they are.
LEMMA SameBaseline ==
    ASSUME BaselineTyped, GInv, BaselineHNext, ~NewStart
    PROVE  /\ bl' = bl /\ restarts' = restarts /\ ~Falls
           /\ bl # None => (Fresh' <=> Fresh)
<1>1. bl' = bl /\ restarts' = restarts /\ ~Falls /\ ~Applies
  BY DEF NewStart
<1>2. outdated' = NextOutdated /\ BaselineNext
  BY DEF BaselineHNext
<1>3. SUFFICES ASSUME bl # None
               PROVE  Fresh' <=> Fresh
  BY <1>1
<1>4. loaded
  BY <1>3 DEF GInv, NothingLoaded
<1>5. CASE request' = request
  BY <1>1, <1>2, <1>4, <1>5, NoCopy DEF Fresh
<1>6. CASE \E k \in Key : Count(k) \/ Reset(k)
  BY <1>5, <1>6 DEF Count, Reset
<1>7. CASE \E c \in Checker : LookUp(c) \/ Judge(c) \/ \E k \in Key : Read(c, k)
  BY <1>5, <1>7 DEF LookUp, Judge, Read
<1>8. CASE \E reboot \in BOOLEAN : NewProcess(reboot)
  BY <1>1, <1>3, <1>8 DEF NewProcess
<1>9. CASE LoadBaseline
  BY <1>4, <1>9 DEF LoadBaseline
<1>10. ASSUME NEW h \in Handler,
              SaveBegin(h) \/ SaveWrite(h) \/ SaveApply(h) \/ ClearMemory(h) \/ ClearDisk(h)
       PROVE  Fresh' <=> Fresh
  <2>1. PICK at \in {"save", "apply", "idle", "clear"}, vals \in Vals \union {NoVals} :
           Step(h, at, vals) /\ at # request[h].at
    <3>1. request[h].vals \in Vals
      BY DEF BaselineTyped, Request
    <3>2. \A K \in SUBSET Key : Restrict(counter, K) \in Vals
      BY Restricted DEF BaselineTyped
    <3> QED
      BY <1>10, <3>1, <3>2
         DEF SaveBegin, Snapshot, SaveWrite, WriteFailed, SaveApply, ClearMemory, ClearDisk
  <2>2. request'[h].at = at
    BY <2>1 DEF BaselineTyped, Step
  <2>3. ~(request[h].at = "apply" /\ at = "idle")
    BY <1>1, <2>2 DEF Applies
  <2>4. request[h].at = "apply" => at = "idle"
    <3>1. [at |-> at, vals |-> vals].at = at /\ [at |-> "idle", vals |-> NoVals].at = "idle"
      OBVIOUS
    <3>2. request[h].at = "apply" => SaveApply(h)
      BY <1>10 DEF SaveBegin, SaveWrite, ClearMemory, ClearDisk
    <3>3. SaveApply(h) => request'[h].at = "idle"
      BY DEF SaveApply, Step, BaselineTyped
    <3> QED
      BY <2>2, <3>2, <3>3
  <2>5. loaded' = loaded
    BY <1>10 DEF SaveBegin, SaveWrite, SaveApply, ClearMemory, ClearDisk, blVars
  <2>6. NextOutdated = CASE at = "save" -> outdated \ {h}
                         [] at = "apply" -> Copied(h, "disk")
                         [] request[h].at = "apply" -> Copied(h, "bl")
                         [] OTHER -> outdated
    BY <1>1, <2>1, <2>5, OneCopy
  <2> QED
    BY <1>2, <2>3, <2>4, <2>6, CopiesAssumption DEF Fresh, Copied
<1> QED
  BY <1>2, <1>6, <1>7, <1>8, <1>9, <1>10 DEF BaselineNext

\* No step of the kernel and of a request changes what a goroutine has read.
LEMMA ElsewhereTold ==
    ASSUME BaselineTyped, GInv, BaselineHNext, ~NewStart, check' = check, first' = first
    PROVE  Told'
<1>1. bl' = bl /\ (bl # None => (Fresh' <=> Fresh))
  BY SameBaseline
<1>2. Judges = {} /\ Reads = {} /\ ReadsMore = {}
  BY DEF Judges, Reads, ReadsMore, Moves
<1>3. reading' = reading /\ grown' = grown
  BY <1>2 DEF BaselineHNext
<1>4. judged' = judged
  BY <1>2 DEF BaselineHNext, GInv
<1>5. \A k \in Key : Known(bl, k)' <=> Known(bl, k)
  BY <1>1 DEF Known
<1> QED
  BY <1>1, <1>3, <1>4 DEF GInv, Told, ReadingTrue, GrowthTrue, JudgedTrue, LateTrue, StartsBelow, BaseIsCurrent, Known

\* The checker at work and what it has read.
LEMMA AtWork ==
    ASSUME GInv, NEW c \in Checker, check[c].at # "idle"
    PROVE  check[c].key \in Key /\ check[c].cur \in Value /\ check[c].base \in Value
BY DEF GInv, BaselineTyped, Checking

LEMMA ReadTold ==
    ASSUME NEW c, Checker = {c}, GInv, BaselineHNext, ~NewStart, NEW k \in Key, Read(c, k)
    PROVE  Told'
<1>1. bl' = bl /\ (bl # None => (Fresh' <=> Fresh)) /\ first' = first
  BY SameBaseline DEF GInv, Read, blVars
<1>2. check[c].at = "idle" /\ check'[c].at = "base" /\ check'[c].key = k /\ check'[c].cur = counter[k]
  BY DEF Read, GInv, BaselineTyped
<1>3. reading = {} /\ grown = {}
  BY <1>2 DEF GInv, ReadingTrue, GrowthTrue
<1>4. Judges = {} /\ Reads = {c}
  BY <1>2 DEF Judges, Reads, Moves
<1>5. reading' = {c} /\ grown' = ReadsMore /\ judged' = judged
  BY <1>3, <1>4 DEF BaselineHNext, GInv
<1>6. (Known(bl, k) /\ Fresh) => bl[k] <= counter[k]
  BY DEF GInv, UpToDate, Below, Known
<1>7. ReadingTrue(c)'
  BY <1>1, <1>2, <1>6 DEF ReadingTrue, Known
<1>8. \A x \in grown' : GrowthTrue(x)'
  <2>1. SUFFICES ASSUME c \in ReadsMore
                 PROVE  GrowthTrue(c)'
    BY <1>4, <1>5 DEF ReadsMore
  <2>2. judged[k] # None /\ counter[k] > judged[k]
    BY <1>2, <2>1 DEF ReadsMore
  <2>3. judged[k] \in Value /\ counter[k] \in Value
    BY <2>2 DEF GInv, BaselineTyped
  <2>4. judged[k] < counter[k]
    BY <2>2, <2>3, BaselineAssumption DEF Value
  <2> QED
    BY <1>2, <1>5, <2>2, <2>4 DEF GrowthTrue
<1>9. \A x \in Key : JudgedTrue(x)'
  BY <1>1, <1>5 DEF GInv, JudgedTrue, StartsBelow, Known
<1> QED
  BY <1>5, <1>7, <1>8, <1>9 DEF Told, GInv, LateTrue

\* The implicit baseline is only extended when a starting point is looked up.
LEMMA LookUpTold ==
    ASSUME NEW c, Checker = {c}, GInv, BaselineHNext, ~NewStart, LookUp(c)
    PROVE  Told'
<1> DEFINE k == check[c].key
           cur == check[c].cur
<1>1. bl' = bl /\ (bl # None => (Fresh' <=> Fresh))
  BY SameBaseline DEF GInv
<1>2. check[c].at = "base" /\ check'[c].at = "judge" /\ check'[c].key = k /\ check'[c].cur = cur
      /\ check'[c].base = BaseOf(k, cur) /\ first' = FirstAfter(k, cur)
  BY DEF LookUp, GInv, BaselineTyped
<1>3. Judges = {} /\ Reads = {} /\ ReadsMore = {}
  BY <1>2 DEF Judges, Reads, ReadsMore, Moves
<1>4. reading' = reading /\ grown' = grown /\ judged' = judged
  BY <1>3 DEF BaselineHNext, GInv
<1>5. BaseIsCurrent(c)'
  BY <1>1, <1>2 DEF BaseIsCurrent, BaseOf, FirstAfter, Known, Set
<1>6. \A x \in Key : x \in DOMAIN first => (x \in DOMAIN first' /\ first'[x] = first[x])
  BY <1>2 DEF FirstAfter, Set
<1>7. \A x \in Key : JudgedTrue(x)'
  BY <1>1, <1>4, <1>6 DEF GInv, JudgedTrue, StartsBelow, Known
<1>8. c \in reading => ReadingTrue(c)'
  BY <1>1, <1>2, <1>5 DEF GInv, ReadingTrue, Known
<1>9. c \in grown => GrowthTrue(c)'
  BY <1>2, <1>4 DEF GInv, GrowthTrue
<1>10. LateTrue(c)'
  BY <1>2, <1>4 DEF GInv, LateTrue
<1>11. grown' \subseteq reading' /\ reading' \subseteq {c} /\ judged' \in [Key -> Value \union {None}]
  BY <1>4 DEF GInv, GrowthTrue
<1> QED
  BY <1>4, <1>7, <1>8, <1>9, <1>10, <1>11 DEF Told

\* What was judged is a starting point for what is read later.
LEMMA JudgeTold ==
    ASSUME NEW c, Checker = {c}, GInv, BaselineHNext, ~NewStart, Judge(c)
    PROVE  Told'
<1> DEFINE k == check[c].key
           cur == check[c].cur
           base == check[c].base
<1>1. bl' = bl /\ (bl # None => (Fresh' <=> Fresh)) /\ restarts' = restarts
  BY SameBaseline DEF GInv
<1>2. check[c].at = "judge" /\ check'[c].at = "idle" /\ first' = Restarted(k, base, cur)
  BY DEF Judge, GInv, BaselineTyped, Unread
<1>3. k \in Key /\ cur \in Value /\ base \in Value
  BY <1>2, AtWork
<1>4. Judges = {c} /\ Reads = {} /\ ReadsMore = {}
  BY <1>1, <1>2 DEF Judges, Reads, ReadsMore, Moves
<1>5. reading' = {} /\ grown' = {}
  BY <1>4 DEF BaselineHNext, GInv, GrowthTrue
<1>6. judged' = [x \in Key |-> IF c \in reading /\ x = k THEN cur ELSE judged[x]]
  <2>1. (CHOOSE x \in Judges : TRUE) = c
    BY <1>4
  <2>2. \A x \in Key : (\E y \in Judges \cap reading : check[y].key = x) <=> (c \in reading /\ x = k)
    BY <1>4
  <2>3. judged' = [x \in Key |-> IF \E y \in Judges \cap reading : check[y].key = x
                                 THEN check[CHOOSE y \in Judges : TRUE].cur ELSE judged[x]]
    BY DEF BaselineHNext
  <2> QED
    BY <2>1, <2>2, <2>3
<1>7. judged' \in [Key -> Value \union {None}]
  BY <1>3, <1>6 DEF GInv
<1>8. \A x \in Key \ {k} : x \in DOMAIN first => (x \in DOMAIN first' /\ first'[x] = first[x])
  BY <1>2 DEF Restarted, Set
<1>9. ASSUME NEW x \in Key
      PROVE  JudgedTrue(x)'
  <2>1. CASE c \notin reading
    <3>1. judged'[x] = None
      BY <1>2, <1>6, <2>1 DEF GInv, LateTrue
    <3> QED
      BY <3>1 DEF JudgedTrue
  <2>2. CASE c \in reading /\ x # k
    <3>1. judged'[x] = judged[x]
      BY <1>6, <2>2
    <3> QED
      BY <1>1, <1>8, <2>2, <3>1 DEF GInv, JudgedTrue, StartsBelow, Known
  <2>3. CASE c \in reading /\ x = k
    <3>1. judged'[x] = cur
      BY <1>6, <2>3
    <3>2. ReadingTrue(c) /\ BaseIsCurrent(c)
      BY <1>2, <2>3 DEF GInv, ReadingTrue
    <3>3. (Known(bl, k) /\ Fresh) => bl[k] <= cur
      BY <3>2 DEF ReadingTrue
    <3>4. ~Known(bl, k) => (k \in DOMAIN first' /\ first'[k] <= cur)
      <4>1. CASE cur < base
        <5>1. k \in DOMAIN first' /\ first'[k] = cur
          BY <1>2, <4>1 DEF Restarted, Set
        <5> QED
          BY <1>3, <5>1, BaselineAssumption DEF Value
      <4>2. CASE ~(cur < base)
        <5>1. first' = first
          BY <1>2, <4>2 DEF Restarted
        <5>2. base <= cur
          BY <1>3, <4>2, BaselineAssumption DEF Value
        <5> QED
          BY <3>2, <5>1, <5>2 DEF BaseIsCurrent
      <4> QED
        BY <4>1, <4>2
    <3> QED
      BY <1>1, <1>3, <2>3, <3>1, <3>3, <3>4 DEF JudgedTrue, StartsBelow, Known
  <2> QED
    BY <2>1, <2>2, <2>3
<1>10. LateTrue(c)'
  BY <1>2 DEF LateTrue
<1> QED
  BY <1>5, <1>7, <1>9, <1>10 DEF Told

LEMMA ToldKept ==
    ASSUME NEW c, Checker = {c}, GInv, BaselineHNext
    PROVE  Told'
<1>1. CASE NewStart
  BY <1>1, Forgotten
<1>2. CASE ~NewStart
  <2>1. restarts' # restarts + 1
    BY <1>2 DEF NewStart, GInv, BaselineTyped
  <2>2. CASE \E k \in Key : Read(c, k)
    BY <1>2, <2>2, ReadTold
  <2>3. CASE LookUp(c) \/ Judge(c)
    BY <1>2, <2>3, LookUpTold, JudgeTold
  <2>4. CASE check' = check /\ first' = first
    BY <1>2, <2>4, ElsewhereTold DEF GInv
  <2>5. CASE \E reboot \in BOOLEAN : NewProcess(reboot)
    BY <2>1, <2>5 DEF NewProcess
  <2> QED
    BY <2>2, <2>3, <2>4, <2>5
       DEF BaselineHNext, BaselineNext, Count, Reset, LoadBaseline, SaveBegin, SaveWrite, SaveApply, ClearMemory, ClearDisk, blVars
<1> QED
  BY <1>1, <1>2

LEMMA GInductive ==
    ASSUME NEW c, Checker = {c}, GInv, [BaselineHNext]_baselineHVars
    PROVE  GInv'
<1>1. CASE UNCHANGED baselineHVars
  BY <1>1 DEF baselineHVars, baselineVars, blVars, bounds, GInv, BaselineTyped, UpToDate, NothingLoaded, Fresh, ReadingTrue,
              GrowthTrue, JudgedTrue, LateTrue, StartsBelow, BaseIsCurrent, Known
<1>2. CASE BaselineHNext
  <2>1. BaselineTyped'
    BY <1>2, TypedKept DEF BaselineHNext, GInv
  <2>2. UpToDate'
    BY <1>2, <2>1, UpToDateKept DEF GInv
  <2>3. NothingLoaded'
    BY <1>2, NothingLoadedKept DEF BaselineHNext, GInv
  <2> QED
    BY <1>2, <2>1, <2>2, <2>3, ToldKept DEF Told, GInv
<1> QED
  BY <1>1, <1>2

\* The starting point of what is judged lies below what was judged before.
LEMMA GrowthReported ==
    ASSUME GInv, NEW c \in Judges \cap grown
    PROVE  SeesGrowth(c)
<1> DEFINE k == check[c].key
           cur == check[c].cur
           base == check[c].base
<1>1. c \in Checker /\ check[c].at = "judge" /\ c \in reading
  BY DEF Judges, Moves, GInv, GrowthTrue
<1>2. k \in Key /\ cur \in Value /\ base \in Value
  BY <1>1, AtWork
<1>3. BaseIsCurrent(c)
  BY <1>1 DEF GInv, ReadingTrue
<1>4. judged[k] \in Value /\ judged[k] < cur /\ StartsBelow(k, judged[k])
  BY <1>2 DEF GInv, GrowthTrue, JudgedTrue
<1>5. SUFFICES ASSUME Known(bl, k) => Fresh
               PROVE  Growth(c) > 0
  BY DEF SeesGrowth, Fresh
<1>6. base <= judged[k]
  BY <1>3, <1>4, <1>5 DEF BaseIsCurrent, StartsBelow
<1> HIDE DEF k, cur, base
<1>7. cur - base > 0 /\ ~(cur < base)
  BY <1>2, <1>4, <1>6, BaselineAssumption DEF Value
<1> QED
  BY <1>7 DEF Growth, Delta, k, cur, base

\* GrowthSeen (check/baseline.go:82) for counters judged by one goroutine after the
\* other: no growth above what was judged is hidden, whatever requests change, clear or
\* fail to write the manual baseline, however often the counters fall and nodedata starts
\* again.
THEOREM GrowthIsSeen ==
    ASSUME NEW only, Checker = {only}
    PROVE  BaselineHSpec => GrowthSeen
<1>1. BaselineHInit => GInv
  BY HStarts
<1>2. GInv /\ [BaselineHNext]_baselineHVars => GInv'
  BY GInductive
<1>3. GInv /\ [BaselineHNext]_baselineHVars => [\A c \in Judges \cap grown : SeesGrowth(c)]_baselineHVars
  BY GrowthReported
<1> QED
  BY <1>1, <1>2, <1>3, PTL DEF BaselineHSpec, GrowthSeen
=============================================================================
