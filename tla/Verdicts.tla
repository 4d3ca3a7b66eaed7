------------------------------- MODULE Verdicts -------------------------------
(***************************************************************************)
(* What one look at a machine makes of it: the L0 checks, the chain of     *)
(* diagnosis, the five rows of USE and the line of /health.txt, which all  *)
(* start from the same readings and must not contradict each other.        *)
(* A machine is k, the kernel's readings; late, the categories whose       *)
(* checks did not finish; metrics, an id |-> [points, z, breadth];         *)
(* procs; cores and kind.                                                  *)
(***************************************************************************)
EXTENDS HardChecks, Diagnosis, UseRows

CONSTANTS
    NoMachine, Unasked            \* no machine, no answer yet

VARIABLES machine, answer
verdictVars == <<machine, answer>>

VerdictsInit == machine = NoMachine /\ answer = Unasked

\* latestDeviationsAt: one deviation for each metric with a point in the last hour.
Devs(m) ==
    [id \in {i \in DOMAIN m.metrics : m.metrics[i].points # <<>> /\ Last(m.metrics[i].points).age <= 3600} |->
        [v |-> Last(m.metrics[id].points).v, z |-> m.metrics[id].z, breadth |-> m.metrics[id].breadth]]

\* What the rows look at: whole metrics only.
View(m) ==
    LET bases == {id[1] : id \in {i \in DOMAIN m.metrics : Whole(i)}}
    IN  [cores |-> m.cores, kind |-> m.kind,
         points |-> [b \in bases |-> m.metrics[<<b, "">>].points],
         z |-> [b \in {c \in bases : <<c, "">> \in DOMAIN Devs(m)} |-> m.metrics[<<b, "">>].z]]

\* healthLine: the worse of the checks and the items of a class; the first culprit
\* with a pid, the items in the order of the chain.
Status(checks, chain) ==
    IF \E c \in checks : c.level >= 2 THEN "DOWN"
    ELSE IF (\E c \in checks : c.level = 1) \/ (\E i \in chain : i.class # "") THEN "WARN" ELSE "NORMAL"

Pids(item) == SelectSeq(item.culprits, LAMBDA c : c.pid > 0)
Culprits(chain) ==
    LET blaming == {i \in chain : i.class # "" /\ Pids(i) # <<>>}
        first == {i \in blaming : \A j \in blaming : j.level <= i.level}
    IN  IF first = {} THEN {0} ELSE {Pids(i)[1].pid : i \in first}

-----------------------------------------------------------------------------
\* Metrics are finitely many, each with its points in order and its deviations.
Reading == [age : Nat, v : Int]
Sound(m) ==
    /\ m.cores \in Nat /\ IsFiniteSet(DOMAIN m.metrics)
    /\ \A id \in DOMAIN m.metrics :
         LET points == m.metrics[id].points
         IN  /\ id = <<id[1], id[2]>> /\ m.metrics[id].z \in Seq(Int)
             /\ points \in Seq(Reading) /\ \A i, j \in DOMAIN points : i <= j => points[j].age <= points[i].age

Look(m) ==
    /\ machine = NoMachine /\ Sound(m)
    /\ machine' = m
    /\ UNCHANGED answer

Answer ==
    /\ machine # NoMachine /\ answer = Unasked
    /\ LET checks == Checks(machine.k, machine.late)
       IN  \E chain \in Chains(checks, Devs(machine), machine.procs) :
             \E culprit \in Culprits(chain) :
               answer' = [checks |-> checks, chain |-> chain, rows |-> Use(View(machine), checks),
                          status |-> Status(checks, chain), culprit |-> culprit]
    /\ UNCHANGED machine

Delivered ==
    /\ answer # Unasked
    /\ machine' = NoMachine /\ answer' = Unasked

VerdictsNext == (\E m : Look(m)) \/ Answer \/ Delivered

VerdictsSpec == VerdictsInit /\ [][VerdictsNext]_verdictVars

-----------------------------------------------------------------------------
(* Properties *)

Answered == answer # Unasked
Problems == {c \in answer.checks : c.level > 0}

\* Every metric that is worse than usual, at a level that is not fine, and more than
\* evidence, is in exactly one item of the chain, unless the chain is full of items
\* no less severe (diagnosis.go: Diagnose).
NothingLost ==
    Answered =>
      LET devs == Devs(machine)
          bad == {id \in Triggered(devs) : Alone(id) /\ AbsGate(devs, id)}
          With(id) == {i \in answer.chain : id \in i.metrics}
      IN  \A id \in bad :
            \/ Cardinality(With(id)) = 1
            \/ With(id) = {} /\ Cardinality(answer.chain) = MaxItems
               /\ \A i \in answer.chain : i.level >= LevelOf(devs, {id})

\* A process that changed comes before one that was always like that, and is not left
\* out for it; a throttled process is a victim and nobody is blamed beside it; when
\* steal leads no process is blamed (causal.go: rankProcs, attributeCPU, attributeIO).
Processes(item) == SelectSeq(item.culprits, LAMBDA c : c.kind = "process")
TierOf(devs, item, p) ==
    Verdict(devs, <<IF item.class = "CPU" THEN "proc.cpu" ELSE "proc.io", p.key>>, LagsOver(devs[item.head].z)).tier
CauseFirst ==
    Answered =>
      \A item \in {i \in answer.chain : i.class \in {"CPU", "IO"}} :
        LET devs == Devs(machine)
            blamed == Processes(item)
            Named(p) == \E n \in DOMAIN blamed : blamed[n].pid = p.pid
            using == {p \in Range(machine.procs) : IF item.class = "CPU" THEN p.cpu >= 20 ELSE p.io >= Kilo}
            victims == {p \in Range(machine.procs) : Throttled(p) /\ p.cpu >= 5}
        IN  IF item.class = "CPU" /\ (Leads(devs, item.metrics, "cpu.steal") \/ victims # {})
            THEN blamed = <<>> /\ Len(item.culprits) = 1
            ELSE /\ \A p \in using, q \in using :
                      TierOf(devs, item, p) > TierOf(devs, item, q) /\ Named(q) => Named(p)
                 /\ using # {} => blamed # <<>>
                 /\ \A n \in 2..Len(blamed) : blamed[n].tier <= blamed[n - 1].tier

\* A check that failed is in exactly one row, which is no better than it, and in the
\* chain unless that is full of worse; the health line is DOWN exactly when a row is
\* at level 2 (use.go: l0Resource, Use; health.go: healthLine; diagnosis.go: fromL0).
EveryProblemShown ==
    Answered =>
      /\ \A c \in Problems :
           LET rows == {r \in Resource : c \in answer.rows[r].checks}
           IN  /\ Cardinality(rows) = 1
               /\ \A r \in rows : answer.rows[r].level >= c.level
               /\ \/ \E i \in answer.chain : i.head = c.id /\ i.level = c.level
                  \/ Cardinality(answer.chain) = MaxItems /\ \A i \in answer.chain : i.level >= c.level
      /\ (answer.status = "DOWN") = (\E r \in Resource : answer.rows[r].level = 2)

\* Trouble lasts if two or more points of the last minute were in it, all of them, and
\* the oldest is at least three quarters of a minute old.  A metric that stays over its
\* hard line lights its row, whatever is usual for it; and only metrics that stay where
\* they may be a bottleneck light a row that has no failed check (use.go:
\* sustainedHard, sustainedConcern).
PinnedIsSeen ==
    Answered =>
      \A r \in Resource :
        LET w == View(machine)
            row == answer.rows[r]
            Recent(b) == Minute(w.points[b])
            Covered(b) == /\ Fresh(w, b) /\ Cardinality(Recent(b)) >= 2
                          /\ 4 * w.points[b][Min(Recent(b))].age >= 3 * Hold
        IN  /\ \A b \in Range(Metrics(r)) \intersect DOMAIN w.points :
                 Covered(b) /\ (\A i \in Recent(b) : OverHardLine(w, b, w.points[b][i].v)) =>
                    row.level >= 1 /\ b \in row.facts
            /\ row.level > 0 /\ row.checks = {} => row.notable # {}
            /\ \A b \in row.notable : Covered(b) /\ \A i \in Recent(b) : InConcern(w, b, w.points[b][i].v)
=============================================================================
