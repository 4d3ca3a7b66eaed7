------------------------------ MODULE MCVerdicts ------------------------------
(***************************************************************************)
(* Machines that are calm but for one or two of the kernel's readings, one *)
(* or two metrics, the processes behind a busy CPU or disk, or the points  *)
(* of a metric in the last minutes; and one where much is wrong at once.   *)
(***************************************************************************)
EXTENDS Verdicts

Usage(free, avail) == [read |-> TRUE, blocks |-> 100, free |-> free, avail |-> avail, files |-> 100, filesFree |-> 80]
Mount(isRoot, ro, free) == [real |-> TRUE, isRoot |-> isRoot, ro |-> ro, fs |-> Usage(free, free)]
Disk(ios, ms, inflight) == "sda" :> [ios |-> ios, ms |-> ms, inflight |-> inflight]
Mem == [total |-> 1000, avail |-> 700, dirty |-> 1, slab |-> 50, swap |-> 100, swapFree |-> 100,
        writeback |-> 0, limit |-> 1000, committed |-> 400]

Healthy ==
    [year |-> 2025, uptime |-> 90000, clock |-> "tsc", cores |-> 2, load |-> 1,
     cpu1 |-> <<0, 0, 0, 0, 0, 0, 0, 0>>, cpu2 |-> <<5, 0, 2, 90, 2, 0, 1, 0>>,
     psiCpu |-> 0, mem |-> Mem, oom |-> [cur |-> 0, base |-> 0], psiMem |-> 0,
     root |-> Usage(60, 50), mounts |-> {Mount(TRUE, FALSE, 60)}, psiIo |-> 0,
     disks1 |-> Disk(0, 0, 0), disks2 |-> Disk(10, 10, 0), blocked |-> 0,
     nics |-> {"up"}, softnet |-> 0, tx |-> [packets |-> 20000, lost |-> 0],
     tcp |-> [out |-> 1000, retrans |-> 0], listen |-> [cur |-> 3, base |-> 3], arp |-> 5, arpMax |-> 100,
     writable |-> TRUE, files |-> 10, filesMax |-> 1000,
     ct |-> [count |-> 10, max |-> 1000], ctDrops |-> [cur |-> 0, base |-> 0],
     sock |-> [tw |-> 1, maxTw |-> 100, orphan |-> 0, maxOrphan |-> 100],
     taintRead |-> TRUE, taint |-> {12}, taintBase |-> {12}, pidMax |-> 1000, pids |-> 100]

\* A field and a reading of it: just at a limit, over it, or unreadable.
Odd ==
    {<<"year", 2019>>, <<"uptime", 599>>, <<"uptime", Missing>>, <<"clock", "acpi_pm">>, <<"clock", "">>,
     <<"cores", 0>>, <<"load", 4>>, <<"load", 9>>, <<"load", Missing>>, <<"cpu2", <<>>>>, <<"cpu1", <<>>>>,
     <<"cpu2", <<5, 0, 30, 40, 20, 0, 0, 5>>>>, <<"cpu2", <<0, 0, 60, 0, 0, 0, 25, 15>>>>,
     <<"psiCpu", 19>>, <<"psiCpu", 20>>, <<"psiCpu", 50>>, <<"psiCpu", Missing>>,
     <<"mem", [Mem EXCEPT !.total = 0]>>, <<"mem", [Mem EXCEPT !.avail = 150]>>, <<"mem", [Mem EXCEPT !.avail = 50]>>,
     <<"mem", [Mem EXCEPT !.swap = 0, !.swapFree = 0]>>, <<"mem", [Mem EXCEPT !.swapFree = 40]>>,
     <<"mem", [Mem EXCEPT !.limit = 0]>>, <<"mem", [Mem EXCEPT !.writeback = 512, !.dirty = 150, !.slab = 200]>>,
     <<"oom", [cur |-> 2, base |-> 2]>>, <<"oom", [cur |-> 2, base |-> 1]>>, <<"oom", [cur |-> Missing, base |-> 0]>>,
     <<"psiMem", 5>>, <<"psiMem", 20>>, <<"psiMem", Missing>>,
     <<"root", Usage(10, 5)>>, <<"root", Usage(20, 0)>>, <<"root", [Usage(0, 0) EXCEPT !.read = FALSE]>>,
     <<"mounts", {Mount(TRUE, TRUE, 60)}>>, <<"mounts", {Mount(TRUE, FALSE, 60), Mount(FALSE, FALSE, 5)}>>,
     <<"psiIo", 20>>, <<"psiIo", 50>>, <<"disks1", <<>>>>, <<"disks1", Disk(0, 0, 64)>>, <<"disks2", Disk(1, 200, 0)>>,
     <<"blocked", 4>>, <<"blocked", 16>>, <<"blocked", Missing>>,
     <<"nics", {"down"}>>, <<"nics", {}>>, <<"softnet", 1>>, <<"softnet", Missing>>,
     <<"tx", [packets |-> 9999, lost |-> 9999]>>, <<"tx", [packets |-> 10000, lost |-> 1]>>,
     <<"tx", [packets |-> 10000, lost |-> 10]>>, <<"tcp", [out |-> 1000, retrans |-> 10]>>,
     <<"tcp", [out |-> Missing, retrans |-> 0]>>, <<"listen", [cur |-> 4, base |-> 3]>>, <<"arp", 90>>, <<"arp", Missing>>,
     <<"writable", FALSE>>, <<"files", 700>>, <<"files", 900>>, <<"files", Missing>>, <<"filesMax", 2000000>>,
     <<"ct", [count |-> Missing, max |-> Missing]>>, <<"ct", [count |-> Missing, max |-> 10]>>,
     <<"ct", [count |-> 800, max |-> 1000]>>, <<"ctDrops", [cur |-> 1, base |-> 0]>>, <<"ctDrops", [cur |-> Missing, base |-> 0]>>,
     <<"sock", [tw |-> 90, maxTw |-> 100, orphan |-> 50, maxOrphan |-> 100]>>,
     <<"sock", [tw |-> Missing, maxTw |-> 100, orphan |-> Missing, maxOrphan |-> 0]>>,
     <<"taint", {12, 9}>>, <<"taintRead", FALSE>>, <<"pids", 700>>, <<"pids", 900>>, <<"pidMax", 0>>}

With(k, p) == [k EXCEPT ![p[1]] = p[2]]
Wreck == FoldSet(LAMBDA p, k : With(k, p), Healthy,
                 {<<"year", 2019>>, <<"psiCpu", 20>>, <<"psiMem", 5>>, <<"psiIo", 50>>, <<"nics", {}>>,
                  <<"files", 700>>, <<"listen", [cur |-> 4, base |-> 3]>>})

LateIds == {<<"T", "ime/Sync">>, <<"C", "PU">>, <<"M", "emory">>, <<"D", "isk/IO">>, <<"N", "etwork">>,
            <<"F", "ilesystem">>, <<"C", "onntrack">>, <<"S", "ocket">>, <<"E", "rrors">>}

-----------------------------------------------------------------------------
(* Metrics *)

Up == <<70, 80>>
Mild == <<60, 0>>
Down == <<-80, -60>>
Still == <<0, NaN>>
Blind == <<NaN, NaN>>

Flat(v) == <<[age |-> 60, v |-> v], [age |-> 30, v |-> v], [age |-> 0, v |-> v]>>
Metric(v, z) == [points |-> Flat(v), z |-> z, breadth |-> Cardinality(LagsOver(z))]

Calm == [k |-> Healthy, late |-> {}, metrics |-> <<>>, procs |-> <<>>, cores |-> 2, kind |-> "hdd"]

Wholes == {"cpu.user", "cpu.sys", "cpu.steal", "cpu.softirq", "loadavg.1m", "psi.cpu.some10", "procs_running",
           "disk.await_w", "disk.await_r", "disk.util", "disk.wbytes", "mem.available", "mem.used_pct", "mem.cached",
           "slab", "net.rx_drop", "net.tx_errs", "net.rx", "fs.used_pct", "fs.avail", "pgmajfault"}
Parts == {<<"disk.await_w", "sda">>, <<"disk.util", "sda">>, <<"disk.util", "sdb">>, <<"net.rx_drop", "eth0">>}
Ids == (Wholes \X {""}) \union Parts

Proc(pid, key, cpu, io, throttled) ==
    [pid |-> pid, key |-> key, cpu |-> cpu, io |-> io, growth |-> 40000 * pid, majflt |-> 0, rss |-> 5, throttled |-> throttled]

LookAtKernel ==
    \/ \E p \in Odd, q \in Odd : Look([Calm EXCEPT !.k = With(With(Healthy, p), q)])
    \/ Look([Calm EXCEPT !.k = Wreck])
    \/ \E c \in LateIds, p \in Odd : Look([Calm EXCEPT !.late = {c}, !.k = With(Healthy, p)])

LookAtMetrics ==
    \/ \E i \in Ids, j \in Ids, v \in {20, 90}, u \in {20, 90}, x \in {Up, Down}, y \in {Mild, Up, Blind} :
         Look([Calm EXCEPT !.metrics = (i :> Metric(v, x)) @@ (j :> Metric(u, y))])
    \/ \E i \in Ids, j \in Ids, y \in {Mild, Down}, t \in {0, 30}, k \in {Healthy, With(Healthy, <<"psiCpu", 50>>)} :
         Look([Calm EXCEPT !.metrics = (i :> Metric(20, Up)) @@ (j :> Metric(90, y)),
                           !.procs = <<Proc(1, "a", 9, 0, t)>>, !.k = k])

\* Processes with and without a series of their own, behind a busy CPU or disk.
Series == {Up, Mild, Still, Blind}
LookAtCulprits ==
    \E h \in {Up, Mild}, x \in Series, y \in Series, s \in {Still, Up} :
      \/ \E c \in {4, 20, 99}, d \in {5, 50}, t \in {0, 30} :
           Look([Calm EXCEPT
             !.metrics = (<<"cpu.user", "">> :> Metric(90, h)) @@ (<<"cpu.steal", "">> :> Metric(9, s))
                         @@ (<<"proc.cpu", "a">> :> Metric(c, x)) @@ (<<"proc.cpu", "b">> :> Metric(d, y)),
             !.procs = <<Proc(1, "a", c, 0, t), Proc(2, "b", d, 0, 0), Proc(3, "c", 60, 0, 0), Proc(4, "b", 20, 0, 0)>>])
      \/ \E c \in {1023, 9000}, d \in {1024, 7000} :
           Look([Calm EXCEPT
             !.metrics = (<<"psi.io.some10", "">> :> Metric(90, h)) @@ (<<"disk.util", "sda">> :> Metric(50, s))
                         @@ (<<"proc.io", "a">> :> Metric(1, x)) @@ (<<"proc.io", "b">> :> Metric(1, y)),
             !.procs = <<Proc(1, "a", 0, c, 0), Proc(2, "b", 0, d, 0), Proc(3, "c", 0, 5000, 0)>>])

-----------------------------------------------------------------------------
(* The last minutes of a metric: three of its values, the third of them the least *)
(* that is over the hard line where there is one, at three ages.                   *)

Ages == {<<60, 30, 0>>, <<44, 20, 0>>, <<90, 45, 10>>, <<200, 100, 50>>, <<400, 300, 130>>}
Pinnable == {<<"cpu.core_top1", 50, 70, 95>>, <<"psi.cpu.some10", 4, 5, 20>>, <<"procs_running", 2, 3, 5>>,
             <<"psi.mem.some10", 4, 5, 10>>, <<"swap.out", 0, 1, 10>>, <<"psi.io.some10", 4, 19, 20>>,
             <<"net.rx_drop", 0, 0, 1>>, <<"disk.util", 10, 60, 99>>, <<"mem.available", 1, 2, 3>>, <<"mem.dirty", 9, 20, 99>>}
LookAtMinutes ==
    \E p \in Pinnable, a \in Ages, n \in {m \in [1..3 -> 2..4] : 4 \in {m[2], m[3]}},
       z \in {Up, Down, Still, Blind}, u \in {50, 80} :
      Look([Calm EXCEPT
        !.metrics = (<<p[1], "">> :> [points |-> [i \in 1..3 |-> [age |-> a[i], v |-> p[n[i]]]], z |-> z, breadth |-> 1])
                    @@ (<<"mem.used_pct", "">> :> Metric(u, Still))])

MCNext == LookAtCulprits \/ LookAtKernel \/ LookAtMetrics \/ LookAtMinutes \/ Answer \/ Delivered

MCSpec == VerdictsInit /\ [][MCNext]_verdictVars
=============================================================================
