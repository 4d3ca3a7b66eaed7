------------------------------ MODULE RatesProofs ------------------------------
(* What a round of the collector reports is the work of one interval: for any  *)
(* number of processes and names, however long the collector runs, whatever it *)
(* cannot read.                                                                *)
EXTENDS CounterRates, TLAPS

Process == [start : Nat, key : Key, used : Nat, limited : BOOLEAN]

Typed ==
    /\ now \in Nat \ {0} /\ events \in Nat /\ throttled \in Nat
    /\ count \in [Source -> Nat]
    /\ \A p \in DOMAIN procs : procs[p] \in Process /\ procs[p].start < events
    /\ fell = [ever |-> fell.ever, since |-> fell.since] /\ fell.since \subseteq fell.ever
    /\ before = [count |-> before.count, procs |-> before.procs, io |-> before.io,
                 throttled |-> before.throttled]

\* What is remembered of a counter is what the round before has read of it. A cpu
\* counter that fell keeps the larger value of an earlier round.
Counters ==
    /\ global.at \in Nat
    /\ \A s \in DOMAIN global.prev :
         s \in Source /\ global.prev[s] \in Nat /\ (s \notin fell.ever => global.prev[s] <= count[s])
    /\ \A s \in DOMAIN before.count :
         /\ global.at > 0 /\ s \in DOMAIN global.prev
         /\ before.count[s] \in Nat /\ before.count[s] <= global.prev[s]
         /\ s \notin fell.since => before.count[s] <= count[s]
         /\ Growing(s) => global.prev[s] = before.count[s]

\* What is remembered of a process is what the round before has found, and one that
\* still runs has only worked since.
Processes ==
    /\ scan.at \in Nat
    /\ scan.at = 0 => DOMAIN before.procs = {}
    /\ scan.at > 0 => DOMAIN scan.prev = DOMAIN before.procs
    /\ \A p \in DOMAIN before.procs :
         /\ before.procs[p] \in Process /\ before.procs[p].start < events
         /\ scan.prev[p].start = before.procs[p].start
         /\ scan.prev[p].used = before.procs[p].used
         /\ scan.prev[p].io <=> p \in before.io
    /\ before.io \subseteq DOMAIN before.procs
    /\ \A p \in DOMAIN procs : Same(p) => before.procs[p].used <= procs[p].used

\* The value remembered of the cgroup, if any, is that of the round before.
Cgroup ==
    \/ throttlePrev = {}
    \/ \E n \in Nat : n <= throttled /\ throttlePrev = {n} /\ before.throttled = {n}

IInv == Typed /\ Counters /\ Processes /\ Cgroup

-----------------------------------------------------------------------------
LEMMA Starts == Init => IInv
BY DEF Init, IInv, Typed, Counters, Processes, Cgroup, Empty, Source, Same

LEMMA Stutters == IInv /\ UNCHANGED vars => IInv'
BY DEF vars, kernel, collector, IInv, Typed, Counters, Processes, Cgroup, Same, Growing

-----------------------------------------------------------------------------
(* The kernel *)

\* What an event may do to the processes that run already: end some, let others work.
LEMMA ProcessesKept ==
    ASSUME IInv, Happen, DOMAIN procs' \subseteq DOMAIN procs,
           \A p \in DOMAIN procs' : /\ procs'[p] \in Process /\ procs'[p].start = procs[p].start
                                    /\ procs[p].used <= procs'[p].used
    PROVE  Processes' /\ \A p \in DOMAIN procs' : procs'[p] \in Process /\ procs'[p].start < events'
<1>1. /\ events \in Nat /\ events' = events + 1 /\ scan' = scan /\ before' = before
      /\ \A p \in DOMAIN procs : procs[p] \in Process /\ procs[p].start < events
  BY DEF IInv, Typed, Happen, collector
<1>2. \A p \in DOMAIN procs' : Same(p)' => Same(p)
  BY <1>1 DEF Same
<1>3. \A p \in DOMAIN procs' : Same(p)' => before'.procs[p].used <= procs'[p].used
  BY <1>1, <1>2 DEF IInv, Processes, Same, Process
<1> QED
  BY <1>1, <1>3 DEF IInv, Processes, Process

LEMMA OthersKept ==
    ASSUME IInv, Happen
    PROVE  /\ count' = count /\ fell' = fell => Counters'
           /\ throttled' \in {throttled, throttled + 1} => Cgroup'
<1>1. ASSUME count' = count, fell' = fell PROVE Counters'
  BY <1>1 DEF Happen, collector, IInv, Counters, Growing
<1>2. ASSUME throttled' \in {throttled, throttled + 1} PROVE Cgroup'
  <2>1. throttlePrev' = throttlePrev /\ before' = before /\ throttled \in Nat
    BY DEF Happen, collector, IInv, Typed
  <2>2. CASE throttlePrev = {}
    BY <2>1, <2>2 DEF Cgroup
  <2>3. CASE throttlePrev # {}
    <3>1. PICK n \in Nat : n <= throttled /\ throttlePrev = {n} /\ before.throttled = {n}
      BY <2>3 DEF IInv, Cgroup
    <3>2. n <= throttled'
      BY <1>2, <2>1, <3>1
    <3> QED
      BY <2>1, <3>1, <3>2 DEF Cgroup
  <2> QED
    BY <2>2, <2>3
<1> QED
  BY <1>1, <1>2

LEMMA GrowKeeps ==
    ASSUME IInv, NEW s \in Source, Grow(s)
    PROVE  IInv'
<1>1. /\ Happen /\ procs' = procs /\ throttled' = throttled /\ fell' = fell
      /\ count' = [count EXCEPT ![s] = @ + 1]
  BY DEF Grow
<1>2. Processes' /\ \A p \in DOMAIN procs' : procs'[p] \in Process /\ procs'[p].start < events'
  BY <1>1, ProcessesKept DEF IInv, Typed, Process
<1>3. Counters'
  BY <1>1 DEF Happen, collector, IInv, Typed, Counters, Growing
<1> QED
  BY <1>1, <1>2, <1>3, OthersKept DEF Happen, IInv, Typed

LEMMA FallKeeps ==
    ASSUME IInv, NEW s \in Source, Fall(s)
    PROVE  IInv'
<1>1. /\ Happen /\ procs' = procs /\ throttled' = throttled
      /\ count' = [count EXCEPT ![s] = 1]
      /\ fell' = [ever |-> fell.ever \union {s}, since |-> fell.since \union {s}]
  BY DEF Fall
<1>2. Processes' /\ \A p \in DOMAIN procs' : procs'[p] \in Process /\ procs'[p].start < events'
  BY <1>1, ProcessesKept DEF IInv, Typed, Process
<1>3. Counters'
  BY <1>1 DEF Happen, collector, IInv, Typed, Counters, Growing
<1> QED
  BY <1>1, <1>2, <1>3, OthersKept DEF Happen, IInv, Typed

LEMMA LaunchKeeps ==
    ASSUME IInv, NEW p \in Pid, Launch(p)
    PROVE  IInv'
<1>1. /\ DOMAIN procs' = DOMAIN procs \union {p} /\ p \notin DOMAIN procs
      /\ procs'[p] \in Process /\ procs'[p].start = events
      /\ \A q \in DOMAIN procs : procs'[q] = procs[q]
  BY DEF Launch, Put, Process, IInv, Typed
<1>2. Happen /\ count' = count /\ throttled' = throttled /\ fell' = fell
  BY DEF Launch
<1>3. Typed'
  BY <1>1, <1>2 DEF Happen, IInv, Typed, Process
<1>4. ~Same(p)'
  BY <1>1, <1>2 DEF Happen, IInv, Typed, Processes, Same, Process
<1>5. Processes'
  BY <1>1, <1>2, <1>4 DEF Happen, collector, IInv, Typed, Processes, Same, Process
<1> QED
  BY <1>2, <1>3, <1>5, OthersKept DEF IInv

LEMMA ExitKeeps ==
    ASSUME IInv, NEW p \in DOMAIN procs, Exit(p)
    PROVE  IInv'
<1>1. /\ DOMAIN procs' = DOMAIN procs \ {p}
      /\ \A q \in DOMAIN procs' : procs'[q] = procs[q]
  BY DEF Exit, Restrict
<1>2. Happen /\ count' = count /\ throttled' = throttled /\ fell' = fell
  BY DEF Exit
<1>3. Processes' /\ \A q \in DOMAIN procs' : procs'[q] \in Process /\ procs'[q].start < events'
  BY <1>1, <1>2, ProcessesKept DEF IInv, Typed, Process
<1> QED
  BY <1>2, <1>3, OthersKept DEF Happen, IInv, Typed

LEMMA WorkKeeps ==
    ASSUME IInv, NEW p \in DOMAIN procs, Work(p)
    PROVE  IInv'
<1>1. PICK n \in 1..2 : procs' = [procs EXCEPT ![p].used = @ + n]
  BY DEF Work
<1>2. /\ DOMAIN procs' = DOMAIN procs
      /\ \A q \in DOMAIN procs' : procs'[q] \in Process /\ procs'[q].start = procs[q].start
                                  /\ procs[q].used <= procs'[q].used
  BY <1>1 DEF IInv, Typed, Process
<1>3. Happen /\ count' = count /\ throttled' = throttled /\ fell' = fell
  BY DEF Work
<1>4. Processes' /\ \A q \in DOMAIN procs' : procs'[q] \in Process /\ procs'[q].start < events'
  BY <1>2, <1>3, ProcessesKept
<1> QED
  BY <1>3, <1>4, OthersKept DEF Happen, IInv, Typed

LEMMA ThrottleKeeps ==
    ASSUME IInv, NEW p \in DOMAIN procs, Throttle(p)
    PROVE  IInv'
<1>1. Happen /\ count' = count /\ procs' = procs /\ throttled' = throttled + 1 /\ fell' = fell
  BY DEF Throttle
<1>2. Processes' /\ \A q \in DOMAIN procs' : procs'[q] \in Process /\ procs'[q].start < events'
  BY <1>1, ProcessesKept DEF IInv, Typed, Process
<1> QED
  BY <1>1, <1>2, OthersKept DEF Happen, IInv, Typed

LEMMA PassKeeps ==
    ASSUME IInv, Pass
    PROVE  IInv'
BY DEF Pass, kernel, collector, IInv, Typed, Counters, Processes, Cgroup, Same, Growing

-----------------------------------------------------------------------------
(* The collector *)

LEMMA GlobalKeeps ==
    ASSUME IInv, NEW read \in SUBSET Source, CollectGlobal(read), count' = count,
           before'.count = Restrict(count, read)
    PROVE  Counters'
<1> DEFINE fresh == {s \in read : Remembered(s)}
<1>1. /\ global'.at = now
      /\ DOMAIN global'.prev = fresh \union DOMAIN global.prev
      /\ \A s \in fresh : global'.prev[s] = count[s]
      /\ \A s \in DOMAIN global.prev \ fresh : global'.prev[s] = global.prev[s]
  BY DEF CollectGlobal, GlobalAfter
<1>2. fell'.ever = fell.ever /\ fell'.since = {}
  BY DEF CollectGlobal, IInv, Typed
<1>3. \A s \in Source : count[s] \in Nat
  BY DEF IInv, Typed
<1>4. \A s \in read \ fresh : /\ s = "cpu" /\ s \in DOMAIN global.prev /\ s \in fell.ever
                              /\ count[s] < global.prev[s]
  BY <1>3 DEF Remembered, Prev, IInv, Counters
<1>5. \A s \in DOMAIN global'.prev :
        s \in Source /\ global'.prev[s] \in Nat /\ (s \notin fell'.ever => global'.prev[s] <= count'[s])
  BY <1>1, <1>2, <1>3 DEF IInv, Counters
<1>6. DOMAIN before'.count = read /\ \A s \in read : before'.count[s] = count[s]
  BY DEF Restrict
<1>7. \A s \in read : s \in DOMAIN global'.prev /\ count[s] <= global'.prev[s]
  BY <1>1, <1>3, <1>4 DEF IInv, Counters
<1>8. \A s \in read : Growing(s)' => global'.prev[s] = count[s]
  BY <1>1, <1>2, <1>4 DEF Growing
<1> QED
  BY <1>1, <1>3, <1>5, <1>6, <1>7, <1>8 DEF IInv, Typed, Counters

LEMMA StartKeeps ==
    ASSUME IInv, Start
    PROVE  IInv'
<1>1. PICK read \in SUBSET Source :
        /\ CollectGlobal(read)
        /\ before' = [before EXCEPT !.count = Restrict(count, read)]
  BY DEF Start
<1>2. before'.count = Restrict(count, read) /\ before'.procs = before.procs
      /\ before'.io = before.io /\ before'.throttled = before.throttled
      /\ before' = [count |-> before'.count, procs |-> before'.procs, io |-> before'.io,
                    throttled |-> before'.throttled]
  BY <1>1 DEF IInv, Typed
<1>3. Counters'
  BY <1>1, <1>2, GlobalKeeps DEF Start, kernel
<1>4. Typed'
  BY <1>1, <1>2 DEF Start, kernel, CollectGlobal, IInv, Typed
<1>5. Processes' /\ Cgroup'
  BY <1>2 DEF Start, kernel, IInv, Processes, Cgroup, Same
<1> QED
  BY <1>3, <1>4, <1>5 DEF IInv

LEMMA UnlistedKeeps ==
    ASSUME IInv, Unlisted
    PROVE  IInv'
<1>1. PICK read \in SUBSET Source :
        /\ CollectGlobal(read)
        /\ before' = [before EXCEPT !.count = Restrict(count, read)]
  BY DEF Unlisted
<1>2. before'.count = Restrict(count, read) /\ before'.procs = before.procs
      /\ before'.io = before.io /\ before'.throttled = before.throttled
      /\ before' = [count |-> before'.count, procs |-> before'.procs, io |-> before'.io,
                    throttled |-> before'.throttled]
  BY <1>1 DEF IInv, Typed
<1>3. Counters'
  BY <1>1, <1>2, GlobalKeeps DEF Unlisted, kernel
<1>4. Typed'
  BY <1>1, <1>2 DEF Unlisted, kernel, CollectGlobal, IInv, Typed
<1>5. Processes' /\ Cgroup'
  BY <1>2 DEF Unlisted, kernel, IInv, Processes, Cgroup, Same
<1> QED
  BY <1>3, <1>4, <1>5 DEF IInv

\* A round that reads read, finds found and reads the bytes of io.
RoundOf(read, found, io) ==
    /\ CollectGlobal(read)
    /\ CollectProcs(found, io, read)
    /\ before' = [count |-> Restrict(count, read), procs |-> Restrict(procs, found), io |-> io,
                  throttled |-> {throttled}]
    /\ UNCHANGED <<now, events, kernel>>

LEMMA Rounds ==
    ASSUME Round
    PROVE  \E read \in SUBSET Source, found \in SUBSET DOMAIN procs :
             \E io \in SUBSET found : RoundOf(read, found, io)
BY DEF Round, RoundOf

LEMMA RoundKeeps ==
    ASSUME IInv, Round
    PROVE  IInv'
<1>1. PICK read \in SUBSET Source, found \in SUBSET DOMAIN procs :
             \E io \in SUBSET found : RoundOf(read, found, io)
  BY Rounds
<1>2. PICK io \in SUBSET found : RoundOf(read, found, io)
  BY <1>1
<1>3. /\ before'.count = Restrict(count, read) /\ before'.io = io /\ before'.throttled = {throttled}
      /\ DOMAIN before'.procs = found /\ \A p \in found : before'.procs[p] = procs[p]
  BY <1>2 DEF RoundOf, Restrict
<1>4. Counters'
  BY <1>2, <1>3, GlobalKeeps DEF RoundOf, kernel
<1>5. Typed'
  BY <1>2, <1>3 DEF RoundOf, kernel, CollectGlobal, IInv, Typed
<1>6. /\ scan'.at = now /\ DOMAIN scan'.prev = found
      /\ \A p \in found : /\ scan'.prev[p].start = procs[p].start /\ scan'.prev[p].used = procs[p].used
                          /\ scan'.prev[p].io <=> p \in io
  BY <1>2 DEF RoundOf, CollectProcs
<1>7. \A p \in DOMAIN procs : procs'[p] = procs[p] /\ procs[p] \in Process /\ procs[p].start < events
  BY <1>2 DEF RoundOf, kernel, IInv, Typed
<1>8. Processes'
  BY <1>2, <1>3, <1>6, <1>7 DEF RoundOf, kernel, IInv, Typed, Processes, Same, Process
<1>9. throttlePrev' \in {{}, {throttled}} /\ throttled' = throttled /\ throttled \in Nat
  BY <1>2 DEF RoundOf, CollectProcs, kernel, IInv, Typed
<1> QED
  BY <1>3, <1>4, <1>5, <1>8, <1>9 DEF IInv, Cgroup

LEMMA Inductive == IInv /\ [Next]_vars => IInv'
BY Stutters, GrowKeeps, FallKeeps, LaunchKeeps, ExitKeeps, WorkKeeps, ThrottleKeeps, PassKeeps,
   StartKeeps, RoundKeeps, UnlistedKeeps DEF Next

-----------------------------------------------------------------------------
(* What a round reports *)

LEMMA CountersReported ==
    ASSUME IInv, NEW read \in SUBSET Source,
           out'.rates = Rates(read), before'.count = Restrict(count, read)
    PROVE  CounterRatesTrue
<1>1. out'.rates = Rates(read) /\ before'.count = Restrict(count, read)
  OBVIOUS
<1>2. DOMAIN before'.count = read
  BY <1>1 DEF Restrict
<1> SUFFICES ASSUME NEW s \in DOMAIN before.count
             PROVE  /\ s \in DOMAIN out'.rates =>
                         /\ out'.rates[s].dt = now - global.at
                         /\ out'.rates[s].growth <= count[s] - IF s \in fell.since THEN 0 ELSE before.count[s]
                    /\ s \in read /\ Growing(s) =>
                         s \in DOMAIN out'.rates /\ out'.rates[s].growth = count[s] - before.count[s]
  BY <1>2 DEF CounterRatesTrue
<1>3. /\ s \in Source /\ global.at > 0 /\ Prev(s) = global.prev[s] /\ s \in DOMAIN global.prev
      /\ count[s] \in Nat /\ Prev(s) \in Nat /\ before.count[s] \in Nat
      /\ before.count[s] <= Prev(s)
      /\ s \notin fell.since => before.count[s] <= count[s]
      /\ Growing(s) => Prev(s) = before.count[s]
  BY DEF IInv, Typed, Counters, Prev
<1>4. s \in DOMAIN out'.rates <=> s \in read /\ Rated(s)
  BY <1>1 DEF Rates
<1>5. ASSUME s \in DOMAIN out'.rates
      PROVE  out'.rates[s].dt = now - global.at /\ out'.rates[s].growth = Udiff(count[s], Prev(s))
  BY <1>1, <1>5 DEF Rates
<1>6. Growing(s) => s \notin fell.since
  BY DEF Growing
<1>7. Growing(s) => Rated(s)
  BY <1>3, <1>6 DEF Rated
<1> QED
  BY <1>3, <1>4, <1>5, <1>6, <1>7 DEF Udiff

LEMMA MaxOfOne ==
    ASSUME NEW n \in Nat
    PROVE  Max({n}) = n
BY DEF Max

LEMMA ThrottlingReported ==
    ASSUME IInv, NEW first, NEW p \in DOMAIN Throttled(first), Throttled(first)[p] > 0
    PROVE  Throttled(first)[p] = throttled - Max(before.throttled)
<1>1. throttlePrev # {} /\ Throttled(first)[p] = Udiff(throttled, Max(throttlePrev))
  BY DEF Throttled
<1>2. PICK n \in Nat : n <= throttled /\ throttlePrev = {n} /\ before.throttled = {n}
  BY <1>1 DEF IInv, Cgroup
<1> QED
  BY <1>1, <1>2, MaxOfOne DEF Udiff, IInv, Typed

LEMMA ProcessesReported ==
    ASSUME IInv, NEW read \in SUBSET Source, NEW found \in SUBSET DOMAIN procs, NEW io \in SUBSET found,
           RoundOf(read, found, io)
    PROVE  ProcessRatesTrue
<1> DEFINE rates == ProcRates(found, io)
<1>1. PICK first \in Asked(rates) : out'.procs = Snapshot(rates, first)
  <2>1. CollectProcs(found, io, read)
    BY DEF RoundOf
  <2>2. PICK first \in Asked(rates) :
          out' = [rates |-> Rates(read), procs |-> Snapshot(rates, first), series |-> out'.series]
    BY <2>1 DEF CollectProcs
  <2> QED
    BY <2>2
<1>2. DOMAIN before'.procs = found /\ before'.io = io
  BY DEF RoundOf, Restrict
<1>3. \A p \in found : Counted(p) <=> Same(p)
  BY DEF Counted, Same, IInv, Typed, Processes, Process
<1>4. DOMAIN out'.procs = {p \in DOMAIN before'.procs : Same(p)}
  BY <1>1, <1>2, <1>3 DEF Snapshot, ProcRates
<1>5. ASSUME NEW p \in DOMAIN out'.procs
      PROVE  /\ out'.procs[p].growth = procs[p].used - before.procs[p].used
             /\ out'.procs[p].dt = now - scan.at
             /\ out'.procs[p].io <=> p \in before.io \intersect before'.io
             /\ out'.procs[p].throttled > 0 => out'.procs[p].throttled = throttled - Max(before.throttled)
  <2>1. p \in found /\ Counted(p) /\ p \in DOMAIN before.procs
    BY <1>2, <1>3, <1>4 DEF Same
  <2>2. /\ out'.procs[p].growth = ProcRate(p, io).growth /\ out'.procs[p].dt = ProcRate(p, io).dt
        /\ out'.procs[p].io = ProcRate(p, io).io
        /\ out'.procs[p].throttled = IF p \in DOMAIN Throttled(first) THEN Throttled(first)[p] ELSE 0
    BY <1>1, <2>1 DEF Snapshot, ProcRates
  <2>3. out'.procs[p].growth = procs[p].used - before.procs[p].used /\ out'.procs[p].dt = now - scan.at
    BY <2>1, <2>2 DEF ProcRate, IInv, Processes
  <2>4. out'.procs[p].io <=> p \in before.io \intersect before'.io
    BY <1>2, <2>1, <2>2 DEF ProcRate, IInv, Processes
  <2>5. out'.procs[p].throttled > 0 => out'.procs[p].throttled = throttled - Max(before.throttled)
    BY <2>2, ThrottlingReported
  <2> QED
    BY <2>3, <2>4, <2>5
<1> QED
  BY <1>4, <1>5 DEF ProcessRatesTrue

LEMMA RoundReports ==
    ASSUME IInv, Round
    PROVE  CounterRatesTrue /\ ProcessRatesTrue
<1>1. PICK read \in SUBSET Source, found \in SUBSET DOMAIN procs :
             \E io \in SUBSET found : RoundOf(read, found, io)
  BY Rounds
<1>2. PICK io \in SUBSET found : RoundOf(read, found, io)
  BY <1>1
<1>3. out'.rates = Rates(read) /\ before'.count = Restrict(count, read)
  BY <1>2 DEF RoundOf, CollectProcs
<1> QED
  BY <1>2, <1>3, CountersReported, ProcessesReported

\* /proc could not be listed: what the collector knows of processes stays as it is.
LEMMA UnlistedReports ==
    ASSUME IInv, Unlisted
    PROVE  CounterRatesTrue /\ scan' = scan
<1>1. PICK read \in SUBSET Source :
        /\ out' = [rates |-> Rates(read), procs |-> out.procs, series |-> Empty]
        /\ before' = [before EXCEPT !.count = Restrict(count, read)]
  BY DEF Unlisted
<1>2. out'.rates = Rates(read) /\ before'.count = Restrict(count, read)
  BY <1>1 DEF IInv, Typed
<1> QED
  BY <1>2, CountersReported DEF Unlisted

\* The first reading has nothing to compare with.
LEMMA StartReports ==
    ASSUME IInv, Start
    PROVE  CounterRatesTrue /\ scan' = scan
<1>1. DOMAIN before.count = {}
  BY DEF Start, IInv, Counters
<1> QED
  BY <1>1 DEF CounterRatesTrue, Start

\* Only a round reads the counters, and scans the processes.
LEMMA StepReports ==
    ASSUME IInv, [Next]_vars
    PROVE  (Rounded => CounterRatesTrue) /\ (Listed => ProcessRatesTrue)
<1>1. \/ Round \/ Unlisted \/ Start
      \/ global' = global /\ scan' = scan
  BY DEF Next, vars, collector, Grow, Fall, Launch, Exit, Work, Throttle, Happen, Pass
<1> QED
  BY <1>1, RoundReports, UnlistedReports, StartReports DEF Rounded, Listed

-----------------------------------------------------------------------------
\* RatesTrue (procs.go:285, collector.go): whatever counters and processes do between
\* two rounds and whatever a round cannot read, what it reports is the work of one
\* interval; for any number of processes and names, and however long it runs.
THEOREM Reported == Spec => RatesTrue
<1>1. Init => IInv
  BY Starts
<1>2. IInv /\ [Next]_vars => IInv'
  BY Inductive
<1>3. IInv /\ [Next]_vars => [(Rounded => CounterRatesTrue) /\ (Listed => ProcessRatesTrue)]_vars
  BY StepReports
<1> QED
  BY <1>1, <1>2, <1>3, PTL DEF Spec, RatesTrue
=============================================================================
