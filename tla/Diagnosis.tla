------------------------------- MODULE Diagnosis -------------------------------
(***************************************************************************)
(* The chain of diagnosis (internal/diagnosis).  devs maps a metric to its *)
(* value, its deviations z over the lags and its breadth; procs is the     *)
(* snapshot of processes, in its order.  Deviations are grouped into one   *)
(* item for each class, with the culprits; what belongs to no class makes  *)
(* an item of its own; and so does each L0 check that was not passed.      *)
(* Titles, texts and commands are left out.                                *)
(***************************************************************************)
EXTENDS Registry, ZScores, FiniteSetsExt, TLC

CONSTANTS
    BreadthCritical,             \* lags that make an item critical
    MaxItems                     \* length of the chain

ASSUME DiagnosisAssumption == {BreadthCritical, MaxItems} \subseteq Nat \ {0}

Kilo == 1024
Size(devs, id) == Abs(PeakOf(devs[id].z))
Largest(devs, ids) == {i \in ids : \A j \in ids : Size(devs, j) <= Size(devs, i)}
FirstOf(s, n) == SubSeq(s, 1, Min({n, Len(s)}))

-----------------------------------------------------------------------------
(* What deviates *)

\* Over the threshold, and in the bad direction.
Triggered(devs) ==
    {id \in DOMAIN devs : LET peak == PeakOf(devs[id].z)
                          IN  peak # NaN /\ Abs(peak) >= ZThreshold /\ peak * Direction(id[1]) > 0}

CpuSum(devs) ==
    MapThenSumSet(LAMBDA i : devs[i].v,
                  DOMAIN devs \intersect ({"cpu.user", "cpu.sys", "cpu.iowait", "cpu.softirq"} \X {""}))

\* absGate: the level of a companion, if it is known, is not fine.
AbsGate(devs, id) ==
    LET Level(base, limit) == <<base, "">> \in DOMAIN devs => devs[<<base, "">>].v >= limit
    IN  CASE id[1] \in {"mem.available", "mem.free", "swap.used"} -> Level("mem.used_pct", 80)
          [] id[1] \in {"disk.await_w", "disk.await_r", "disk.riops", "disk.wiops"} -> Level("disk.util", 30)
          [] id[1] = "fs.avail" -> Level("fs.used_pct", 75)
          [] id[1] \in {"cpu.user", "cpu.sys", "cpu.iowait"} -> CpuSum(devs) > 0 => CpuSum(devs) >= 50
          [] OTHER -> TRUE

Alone(id) == Whole(id) /\ id[1] \notin EvidenceOnly

-----------------------------------------------------------------------------
(* Who leads a class *)

Throttled(p) == p.throttled >= 20
MayLead(devs, procs, id) ==
    Alone(id) /\ (AbsGate(devs, id) \/ \E i \in DOMAIN procs : Throttled(procs[i]))

\* The largest deviation that may lead; ties in any order.
TopOnly(devs, procs, ts) == {id \in Largest(devs, ts) : MayLead(devs, procs, id)}
Heads(devs, procs, ts) == Largest(devs, {id \in ts : MayLead(devs, procs, id)})

\* familyHead: the one that stands for the family, if it deviates too.
FamilyHead(ts, head) ==
    LET canons == {<<f.canon, "">> : f \in {g \in Families : head[1] \in g.members}} \intersect ts
    IN  IF canons = {} THEN head ELSE CHOOSE c \in canons : TRUE

-----------------------------------------------------------------------------
(* Processes *)

\* procVerdict: on the lags where the head deviates the process deviates itself
\* (2), mostly has no history (1), or was always like that (0).
Verdict(devs, id, lags) ==
    IF id \notin DOMAIN devs \/ lags = {} THEN [tier |-> 0, z |-> 0]
    ELSE LET z == devs[id].z
             over == {z[i] : i \in {j \in lags : z[j] # NaN /\ z[j] >= ZThreshold}}
             blind == {i \in lags : z[i] = NaN}
         IN  IF over # {} THEN [tier |-> 2, z |-> Max(over)]
             ELSE [tier |-> IF 2 * Cardinality(blind) > Cardinality(lags) THEN 1 ELSE 0, z |-> 0]

\* Indices of processes by falling key, in the order of the snapshot when they tie.
Falling(procs, Above(_, _)) ==
    SetToSortSeq(DOMAIN procs, LAMBDA i, j : Above(i, j) \/ (~Above(j, i) /\ i < j))

\* rankProcs: by tier, own deviation, use.
ByUse(a, b) == a.use > b.use
ByTier(a, b) ==
    \/ a.tier > b.tier
    \/ a.tier = b.tier /\ (a.z > b.z \/ (a.z = b.z /\ a.use > b.use))

RankProcs(devs, procs, base, lags, metric) ==
    LET v == [i \in DOMAIN procs |->
                [pid |-> procs[i].pid, use |-> procs[i][metric]] @@ Verdict(devs, <<base, procs[i].key>>, lags)]
        order == Falling(procs, LAMBDA i, j : ByTier(v[i], v[j]))
    IN  [n \in DOMAIN order |-> v[order[n]]]

Culprit(kind, pid, name) == [kind |-> kind, pid |-> pid, name |-> name, tier |-> 0]
Suspects(ranked) == [n \in DOMAIN ranked |-> [kind |-> "process", pid |-> ranked[n].pid, name |-> "",
                                              tier |-> ranked[n].tier]]

-----------------------------------------------------------------------------
(* Culprits of each class: the set of answers, more than one where order decides *)

Leads(devs, ts, base) == <<base, "">> \in Largest(devs, ts)

\* The host if steal leads, else a throttled process, a victim, else up to three
\* that changed, else the biggest, else the kernel.
AttributeCPU(devs, procs, ts, lags) ==
    LET victims == SelectSeq(procs, LAMBDA p : Throttled(p) /\ p.cpu >= 5)
        ranked == RankProcs(devs, procs, "proc.cpu", lags, "cpu")
        changed == SelectSeq(ranked, LAMBDA r : (r.tier = 2 /\ r.use >= 5) \/ (r.tier = 1 /\ r.use >= 20))
        big == SelectSeq(ranked, LAMBDA r : r.use >= 20)
    IN  { IF Leads(devs, ts, "cpu.steal") THEN <<Culprit("host", 0, "")>>
          ELSE IF victims # <<>> THEN <<Culprit("cgroup", victims[1].pid, "")>>
          ELSE IF changed # <<>> THEN Suspects(FirstOf(changed, 3))
          ELSE IF big # <<>> THEN Suspects(FirstOf(big, 1))
          ELSE IF <<"cpu.softirq", "">> \in ts THEN <<Culprit("kernel", 0, "")>>
          ELSE <<>> }

\* The device that deviates most, else the busiest; then processes, at most three in all.
AttributeIO(devs, procs, ts, lags) ==
    LET deviating == Largest(devs, {id \in ts : ~Whole(id) /\ id[1] \in DiskMetrics})
        utils == {id \in DOMAIN devs : id[1] = "disk.util" /\ ~Whole(id)}
        busiest == {id \in utils : \A other \in utils : devs[other].v <= devs[id].v}
        devices == {id[2] : id \in (IF deviating # {} THEN deviating ELSE busiest)}
        ranked == RankProcs(devs, procs, "proc.io", lags, "io")
        active == Suspects(SelectSeq(ranked, LAMBDA r : r.use >= Kilo))
    IN  IF devices = {} THEN {FirstOf(active, 3)}
        ELSE {<<Culprit("device", 0, d)>> \o FirstOf(active, 2) : d \in devices}

\* Slab if it leads, else up to three that grew, else who faults, else the largest.
AttributeMem(devs, procs, ts) ==
    LET Top(F(_), least, n) ==
          LET order == Falling(procs, LAMBDA i, j : F(procs[i]) > F(procs[j]))
              in == SelectSeq(order, LAMBDA i : F(procs[i]) >= least)
          IN  [m \in DOMAIN FirstOf(in, n) |-> Culprit("process", procs[in[m]].pid, "")]
        grew == Top(LAMBDA p : p.growth, 64 * Kilo, 3)
        faults == Top(LAMBDA p : p.majflt, 10, 1)
    IN  { IF Leads(devs, ts, "slab") THEN <<Culprit("kernel", 0, "")>>
          ELSE IF grew # <<>> THEN grew
          ELSE IF faults # <<>> THEN faults
          ELSE Top(LAMBDA p : p.rss, 0, 1) }

AttributeNet(devs, ts) ==
    LET parts == Largest(devs, {id \in ts : ~Whole(id)})
    IN  IF parts = {} THEN {<<>>} ELSE {<<Culprit("interface", 0, id[2])>> : id \in parts}

Attribute(class, devs, procs, ts, lags) ==
    CASE class = "CPU" -> AttributeCPU(devs, procs, ts, lags)
      [] class = "IO" -> AttributeIO(devs, procs, ts, lags)
      [] class = "Mem" -> AttributeMem(devs, procs, ts)
      [] class = "Net" -> AttributeNet(devs, ts)

-----------------------------------------------------------------------------
(* Items *)

LevelOf(devs, ids) == IF \E id \in ids : devs[id].breadth >= BreadthCritical THEN 2 ELSE 1

OfClass(devs, class) == {id \in Triggered(devs) : id[1] \in Members(class)}

\* The item of a class, in each form it can take; none if nothing may lead.
ClassItems(devs, procs, class) ==
    LET ts == OfClass(devs, class)
        heads == {FamilyHead(ts, h) : h \in Heads(devs, procs, ts)}
        Item(h, culprits) == [level |-> LevelOf(devs, ts), class |-> class, head |-> h,
                              metrics |-> ts, culprits |-> culprits]
    IN  UNION {{Item(h, c) : c \in Attribute(class, devs, procs, ts, LagsOver(devs[h].z))} : h \in heads}

\* What causal has used, led or not, makes no other item.
Rest(devs) == {id \in DOMAIN devs : Whole(id) /\ ~(id \in Triggered(devs) /\ id[1] \in Classified)}

FromDeviations(devs) ==
    LET rest == [id \in Rest(devs) |-> devs[id]]
    IN  {[level |-> LevelOf(devs, {id}), class |-> "", head |-> id, metrics |-> {id}, culprits |-> <<>>] :
           id \in {i \in Triggered(rest) : AbsGate(rest, i) /\ Alone(i)}}

FromL0(checks) ==
    {[level |-> c.level, class |-> "", head |-> c.id, metrics |-> {}, culprits |-> <<>>] :
       c \in {d \in checks : d.level > 0}}

OneOf(devs, procs, class) ==
    LET items == ClassItems(devs, procs, class) IN IF items = {} THEN {{}} ELSE {{i} : i \in items}

\* At most MaxItems, the most severe ones.
Cut(items) ==
    IF Cardinality(items) <= MaxItems THEN {items}
    ELSE {s \in kSubset(MaxItems, items) : \A i \in s, j \in items \ s : j.level <= i.level}

\* Diagnose: the chains it may give.
Chains(checks, devs, procs) ==
    UNION {Cut(FromL0(checks) \union FromDeviations(devs) \union a \union b \union c \union d) :
             a \in OneOf(devs, procs, "CPU"), b \in OneOf(devs, procs, "IO"),
             c \in OneOf(devs, procs, "Mem"), d \in OneOf(devs, procs, "Net")}
=============================================================================
