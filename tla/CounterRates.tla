------------------------------ MODULE CounterRates ------------------------------
(***************************************************************************)
(* The collector (collector.go, devices.go, procs.go, throttle.go): the    *)
(* kernel's counters and processes, and the rates that each round makes of *)
(* what it reads now and what it remembers of the round before.            *)
(***************************************************************************)
EXTENDS Integers, SequencesExt, FiniteSetsExt, Functions

CONSTANTS
    Pid, Key,                     \* process numbers, names of processes
    MinUse, MaxTracked, Idle,     \* procTrackMinCPU, procTrackMax, procTrackIdle
    MaxTime, MaxEvents, MaxMisses \* bounds

ASSUME RatesAssumption == {MinUse, MaxTracked, Idle, MaxTime, MaxEvents} \subseteq Nat \ {0} /\ MaxMisses \in Nat

\* One counter for each way of treating it: a cpu line of /proc/stat, the other lines
\* of collector.go, a device (or a line of /proc/net/snmp).
Source == {"cpu", "line", "device"}

VARIABLES
    now, events, misses,          \* the clock; how much has happened and was not read
    count,                        \* the kernel: the counters,
    procs,                        \* pid |-> [start, key, used, limited],
    throttled,                    \* and nr_throttled of one cgroup
    global,                       \* prevTS and prevGlobal, prevDisks, prevNets
    scan,                         \* procState: prevTS, prev
    tracked,                      \* name |-> time of its last activity
    throttlePrev,                 \* {}, or the last value of that cgroup
    out,                          \* samples and snapshot of the last round
    before, fell                  \* history: the round before; counters that fell since
kernel == <<count, procs, throttled>>
collector == <<global, scan, tracked, throttlePrev>>
vars == <<now, events, misses, kernel, collector, out, before, fell>>

Empty == [x \in {} |-> 0]
Put(f, x, y) == [z \in DOMAIN f \union {x} |-> IF z = x THEN y ELSE f[z]]
Nothing == [rates |-> Empty, procs |-> Empty, series |-> Empty]

Init ==
    /\ now = 1 /\ events = 0 /\ misses = 0
    /\ count = [s \in Source |-> 2]
    /\ procs = Empty /\ throttled = 0
    /\ global = [at |-> 0, prev |-> Empty] /\ scan = [at |-> 0, prev |-> Empty]
    /\ tracked = Empty /\ throttlePrev = {} /\ out = Nothing
    /\ before = [count |-> Empty, procs |-> Empty, io |-> {}, throttled |-> {}]
    /\ fell = [ever |-> {}, since |-> {}]

-----------------------------------------------------------------------------
(* Counters: CollectGlobal *)

Udiff(a, b) == IF a < b THEN 0 ELSE a - b
\* prevGlobal yields 0 for what was never read; devices know what they have seen.
Prev(s) == IF s \in DOMAIN global.prev THEN global.prev[s] ELSE 0
Rated(s) ==
    /\ global.at > 0
    /\ IF s = "device" THEN s \in DOMAIN global.prev ELSE count[s] >= Prev(s)

\* dt is the time since the last round, whatever that round could read.
Rates(read) == [s \in {r \in read : Rated(r)} |-> [growth |-> Udiff(count[s], Prev(s)), dt |-> now - global.at]]

\* A cpu counter that fell is skipped before it is remembered.
Remembered(s) == ~(s = "cpu" /\ global.at > 0 /\ count[s] < Prev(s))
GlobalAfter(read) ==
    LET fresh == {s \in read : Remembered(s)}
    IN  [at |-> now, prev |-> [s \in fresh \union DOMAIN global.prev |-> IF s \in fresh THEN count[s] ELSE global.prev[s]]]

-----------------------------------------------------------------------------
(* Processes: CollectProcs *)

\* The first sight of a process, and a pid that was used again, are base lines only.
CountedByPid(p) == scan.at > 0 /\ p \in DOMAIN scan.prev /\ procs[p].used >= scan.prev[p].used
Counted(p) ==
    /\ scan.at > 0 /\ p \in DOMAIN scan.prev
    /\ scan.prev[p].start = procs[p].start
    /\ procs[p].used >= scan.prev[p].used

\* Of the bytes only those are counted whose counter could be read both times.
ProcRate(p, io) ==
    [growth |-> procs[p].used - scan.prev[p].used, dt |-> now - scan.at, key |-> procs[p].key,
     io |-> p \in io /\ scan.prev[p].io, limited |-> procs[p].limited]
ProcRates(found, io) == [p \in {q \in found : Counted(q)} |-> ProcRate(p, io)]

ByKey(rates) ==
    [k \in {rates[p].key : p \in DOMAIN rates} |->
        FoldSet(LAMBDA p, n : n + rates[p].growth, 0, {p \in DOMAIN rates : rates[p].key = k})]

\* emitTracked considers the busiest name first.  A full table gives up the name
\* that has been quiet for longest, unless that is the busier one.
RefuseNew(table, use, k) ==
    {IF k \in DOMAIN table \/ Cardinality(DOMAIN table) < MaxTracked THEN Put(table, k, now) ELSE table}
Quietest(table) == {j \in DOMAIN table : table[j] < now /\ \A i \in DOMAIN table : table[j] <= table[i]}
Consider(table, use, k) ==
    LET UseOf(j) == IF j \in DOMAIN use THEN use[j] ELSE 0
        Without(j) == Restrict(table, DOMAIN table \ {j})
    IN  IF k \in DOMAIN table \/ Cardinality(DOMAIN table) < MaxTracked THEN {Put(table, k, now)}
        ELSE IF Quietest(table) = {} THEN {table}
        ELSE {IF UseOf(j) >= UseOf(k) THEN table ELSE Put(Without(j), k, now) : j \in Quietest(table)}

Candidates(use) == {k \in DOMAIN use : use[k] >= MinUse * (now - scan.at)}
Orders(use) ==
    {q \in SetToSeqs(Candidates(use)) : \A i \in 2..Len(q) : use[q[i]] <= use[q[i - 1]]}
TrackedAfter(use) ==
    LET Fill(q) == FoldLeft(LAMBDA tables, k : UNION {Consider(t, use, k) : t \in tables}, {tracked}, q)
        Awake(t) == Restrict(t, {k \in DOMAIN t : now - t[k] <= Idle})
    IN  {Awake(t) : t \in UNION {Fill(q) : q \in Orders(use)}}

\* enrichThrottle: one process after the other, the busiest first, each against the
\* value its cgroup had when it was last looked at, be it for the process before.
\* (nodedata itself is in every snapshot but the first: the list is not empty.)
Limited(rates) == {p \in DOMAIN rates : rates[p].limited}
Asked(rates) ==
    LET most == {p \in Limited(rates) : \A q \in Limited(rates) : rates[q].growth <= rates[p].growth}
    IN  IF most = {} THEN {0} ELSE most
Throttled(first) ==
    [p \in {first} \ {0} |-> IF throttlePrev = {} THEN 0 ELSE Udiff(throttled, Max(throttlePrev))]

Snapshot(rates, first) ==
    [p \in DOMAIN rates |-> [growth |-> rates[p].growth, dt |-> rates[p].dt, io |-> rates[p].io,
       throttled |-> IF p \in DOMAIN Throttled(first) THEN Throttled(first)[p] ELSE 0]]

-----------------------------------------------------------------------------
(* The kernel *)

Happen == events < MaxEvents /\ events' = events + 1 /\ UNCHANGED <<now, misses, collector, out, before>>

Grow(s) ==
    /\ Happen /\ count' = [count EXCEPT ![s] = @ + 1]
    /\ UNCHANGED <<procs, throttled, fell>>

\* Rolled over, or reset with its device or driver (which has been used again since:
\* the lines of a device that was never used are skipped).
Fall(s) ==
    /\ Happen /\ count[s] > 1 /\ count' = [count EXCEPT ![s] = 1]
    /\ fell' = [ever |-> fell.ever \union {s}, since |-> fell.since \union {s}]
    /\ UNCHANGED <<procs, throttled>>

Launch(p) ==
    /\ Happen /\ p \notin DOMAIN procs
    /\ \E k \in Key, limited \in BOOLEAN :
         procs' = Put(procs, p, [start |-> events, key |-> k, used |-> 0, limited |-> limited])
    /\ UNCHANGED <<count, throttled, fell>>

Exit(p) ==
    /\ Happen /\ procs' = Restrict(procs, DOMAIN procs \ {p})
    /\ UNCHANGED <<count, throttled, fell>>

Work(p) ==
    /\ Happen /\ \E n \in 1..2 : procs' = [procs EXCEPT ![p].used = @ + n]
    /\ UNCHANGED <<count, throttled, fell>>

Throttle(p) ==
    /\ Happen /\ procs[p].limited /\ throttled' = throttled + 1
    /\ UNCHANGED <<count, procs, fell>>

Pass == now < MaxTime /\ now' = now + 1 /\ UNCHANGED <<events, misses, kernel, collector, out, before, fell>>

-----------------------------------------------------------------------------
(* The collector *)

\* What a round may fail to read.
Missing(n) == misses + n <= MaxMisses /\ misses' = misses + n

\* CollectGlobal reads the files in read; the others were gone or unreadable.
CollectGlobal(read) ==
    /\ global' = GlobalAfter(read)
    /\ fell' = [fell EXCEPT !.since = {}]

\* main.go: one CollectGlobal before the ticker starts.
Start ==
    /\ global.at = 0
    /\ \E read \in SUBSET Source :
         /\ Missing(Cardinality(Source \ read))
         /\ CollectGlobal(read)
         /\ before' = [before EXCEPT !.count = Restrict(count, read)]
    /\ UNCHANGED <<now, events, kernel, scan, tracked, throttlePrev, out>>

\* CollectProcs finds the processes in found, and may read the bytes of those in io.
CollectProcs(found, io, read) ==
    /\ scan' = [at |-> now, prev |-> [p \in found |-> [start |-> procs[p].start, used |-> procs[p].used, io |-> p \in io]]]
    /\ LET rates == ProcRates(found, io)
           use == ByKey(rates)
       IN  \E first \in Asked(rates) :
           /\ IF scan.at = 0 THEN tracked' = tracked ELSE tracked' \in TrackedAfter(use)
           /\ throttlePrev' = IF first = 0 THEN {} ELSE {throttled}
           /\ out' =
               [rates |-> Rates(read),
                procs |-> Snapshot(rates, first),
                series |-> [k \in DOMAIN tracked' |-> IF k \in DOMAIN use THEN use[k] ELSE 0]]

\* collectLoop: a process may be gone before it is read.
Round ==
    /\ global.at \in 1..(now - 1)
    /\ \E read \in SUBSET Source, found \in SUBSET DOMAIN procs : \E io \in SUBSET found :
         /\ Missing(Cardinality(Source \ read) + Cardinality(DOMAIN procs \ io))
         /\ CollectGlobal(read)
         /\ CollectProcs(found, io, read)
         /\ before' = [count |-> Restrict(count, read), procs |-> Restrict(procs, found), io |-> io,
                       throttled |-> {throttled}]
    /\ UNCHANGED <<now, events, kernel>>

\* collectLoop, when /proc cannot be listed: there are rates of counters only.
Unlisted ==
    /\ global.at \in 1..(now - 1)
    /\ \E read \in SUBSET Source :
         /\ Missing(1 + Cardinality(Source \ read))
         /\ CollectGlobal(read)
         /\ out' = [rates |-> Rates(read), procs |-> out.procs, series |-> Empty]
         /\ before' = [before EXCEPT !.count = Restrict(count, read)]
    /\ UNCHANGED <<now, events, kernel, scan, tracked, throttlePrev>>

Next ==
    \/ \E s \in Source : Grow(s) \/ Fall(s)
    \/ \E p \in Pid : Launch(p)
    \/ \E p \in DOMAIN procs : Exit(p) \/ Work(p) \/ Throttle(p)
    \/ Pass \/ Start \/ Round \/ Unlisted

Spec == Init /\ [][Next]_vars

-----------------------------------------------------------------------------
(* Properties *)

Rounded == global'.at # global.at
Listed == scan'.at # scan.at
Growing(s) == s \notin fell.since /\ (s # "cpu" \/ s \notin fell.ever)
Same(p) == p \in DOMAIN procs /\ p \in DOMAIN before.procs /\ before.procs[p].start = procs[p].start
Use(k) == FoldSet(LAMBDA p, n : n + out'.procs[p].growth, 0, {p \in DOMAIN out'.procs : procs[p].key = k})

\* Of a counter that was read by both rounds and has not fallen, all its growth; of one
\* that fell, no more than it has grown.
CounterRatesTrue ==
    \A s \in DOMAIN before.count :
        /\ s \in DOMAIN out'.rates =>
             /\ out'.rates[s].dt = now - global.at
             /\ out'.rates[s].growth <= count[s] - IF s \in fell.since THEN 0 ELSE before.count[s]
        /\ s \in DOMAIN before'.count /\ Growing(s) =>
             s \in DOMAIN out'.rates /\ out'.rates[s].growth = count[s] - before.count[s]

\* Of a process that was found by both, and not of another one with its pid.
ProcessRatesTrue ==
    /\ DOMAIN out'.procs = {p \in DOMAIN before'.procs : Same(p)}
    /\ \A p \in DOMAIN out'.procs :
         /\ out'.procs[p].growth = procs[p].used - before.procs[p].used
         /\ out'.procs[p].dt = now - scan.at
         /\ out'.procs[p].io <=> p \in before.io \intersect before'.io
         /\ out'.procs[p].throttled > 0 => out'.procs[p].throttled = throttled - Max(before.throttled)

\* procs.go:285, collector.go: what a round reports is the work between it and the
\* round before (of processes, the last one that could list them), divided by the
\* time between them.
RatesTrue == [][(Rounded => CounterRatesTrue) /\ (Listed => ProcessRatesTrue)]_vars

\* procs.go, emitTracked: a busy name has no series only if the table is full of names
\* that are as busy, or if it tied with the one of those that stay which had been quiet
\* for longest.  A name is given up only after an idle hour, or for a busier newcomer
\* while no name that is kept without being busy had been quiet for longer.
Busy(k) == Use(k) >= MinUse * (now - scan.at)

\* procs.go:379 (comment of emitTracked): a full table gives up a name that is idle
\* rather than refuse one that is busy.
IdleGivesWay ==
    [][Listed /\ scan.at > 0 =>
        \A k \in Key \ DOMAIN tracked' : Busy(k) => \A i \in DOMAIN tracked' : Busy(i)]_vars

\* cores_test.go:40: without a base line there is no rate: a round reports nothing of a
\* counter that the round before could not read.
NoBaseNoRate == [][Listed => DOMAIN out'.rates \subseteq DOMAIN before.count]_vars

\* throttle.go:87 (comment of enrichThrottle): each process of the snapshot carries the
\* throttling of its cgroup.
AllThrottled ==
    [][Listed => \A p, q \in DOMAIN out'.procs :
        procs[p].limited /\ procs[q].limited => out'.procs[p].throttled = out'.procs[q].throttled]_vars
=============================================================================
