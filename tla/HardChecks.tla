------------------------------ MODULE HardChecks ------------------------------
(***************************************************************************)
(* The L0 checks (check.go): what each of the nine categories makes of the *)
(* kernel's readings.  k is a record of the readings, Missing or empty     *)
(* where the file cannot be read; a check is its id, first letter apart,   *)
(* its level, and whether it was carried out.  Shares are in thousandths   *)
(* of a percent.                                                           *)
(***************************************************************************)
EXTENDS Integers, Sequences, FiniteSetsExt, SequencesExt

CONSTANT HugeMax                  \* a file-max beyond it is no limit

Missing == -1
MinPkts == 10000                  \* minPktsForRatio

Pct(a, b) == IF b <= 0 THEN 0 ELSE (100000 * a) \div b

\* fail = 0: the check is at most a warning.
Grade(v, warn, fail) == IF fail > 0 /\ v >= fail THEN 2 ELSE IF v >= warn THEN 1 ELSE 0

\* What cannot be read is not judged: "skip", level 0.
Found(id, read, level) == [id |-> id, level |-> IF read THEN level ELSE 0, read |-> read]
Judged(id, read, v, warn, fail) == Found(id, read, IF read THEN Grade(v, warn, fail) ELSE 0)
Percent(id, read, v, warn, fail) == Judged(id, read, v, 1000 * warn, 1000 * fail)
Share(id, read, a, b, warn, fail) == Percent(id, read, Pct(a, b), warn, fail)

\* counterCheckH: growth since the starting point, or only history.
Grown(id, c, growth, history) ==
    Found(id, c.cur # Missing, IF c.cur > c.base THEN growth ELSE IF c.cur > 0 THEN history ELSE 0)

-----------------------------------------------------------------------------
(* Time, CPU, memory *)

TimeChecks(k) ==
    { Found(<<"T", "01">>, TRUE, IF k.year < 2020 \/ k.year > 2050 THEN 2 ELSE 0),
      Found(<<"T", "02">>, k.uptime # Missing, IF k.uptime < 600 THEN 1 ELSE 0),
      Found(<<"T", "03">>, k.clock # "", IF k.clock \in {"jiffies", "acpi_pm"} THEN 1 ELSE 0) }

\* cpuShare: the differences of two samples, none below zero, over their sum.
CpuShare(a, b, i) ==
    LET d == [j \in DOMAIN a |-> IF b[j] < a[j] THEN 0 ELSE b[j] - a[j]]
    IN  Pct(d[i], FoldLeft(LAMBDA x, y : x + y, 0, d))
ShareKnown(a, b) == a # <<>> /\ Len(a) = Len(b) /\ \E i \in DOMAIN a : b[i] > a[i]

CPUChecks(k) ==
    LET known == ShareKnown(k.cpu1, k.cpu2)
        Part(n, i, warn, fail) ==
            Percent(<<"C", n>>, known, CpuShare(k.cpu1, k.cpu2, i), warn, fail)
    IN  { Found(<<"C", "01">>, TRUE, IF k.cores = 0 THEN 2 ELSE 0),
          Judged(<<"C", "02">>, k.load # Missing /\ k.cores > 0, k.load \div k.cores, 2, 4),
          Part("03", 8, 5, 15), Part("04", 5, 20, 40), Part("05", 7, 15, 30), Part("06", 3, 30, 60),
          Judged(<<"C", "07">>, k.psiCpu # Missing, k.psiCpu, 20, 50) }

\* Without MemTotal nothing is judged; without swap or a limit, that one is not.
MemoryChecks(k) ==
    LET total == k.mem.total
        Of(n, v, warn, fail) == Share(<<"M", n>>, total > 0, v, total, warn, fail)
    IN  { Of("01", total - k.mem.avail, 85, 95), Of("03", k.mem.dirty, 5, 15), Of("07", k.mem.slab, 20, 35),
          Share(<<"M", "02">>, total > 0, k.mem.swap - k.mem.swapFree, k.mem.swap, 20, 60),
          Judged(<<"M", "04">>, total > 0, k.mem.writeback, 64, 512),
          IF total > 0 THEN Grown(<<"M", "05">>, k.oom, 2, 1) ELSE Found(<<"M", "05">>, FALSE, 0),
          Share(<<"M", "06">>, total > 0 /\ k.mem.limit > 0, k.mem.committed, k.mem.limit, 90, 120),
          Judged(<<"M", "08">>, total > 0 /\ k.psiMem # Missing, k.psiMem, 5, 20) }

-----------------------------------------------------------------------------
(* Disks and file systems *)

\* statfsUsage: blocks that nobody may allocate are neither used nor available.
Space(fs) == Pct(fs.blocks - fs.free, fs.blocks - fs.free + fs.avail)

\* Requests completed between two samples and the time they took.
Await(a, b) == IF b.ios > a.ios THEN (b.ms - a.ms) \div (b.ios - a.ios) ELSE 0

DiskIOChecks(k) ==
    LET both == DOMAIN k.disks1 \cap DOMAIN k.disks2
        some == k.disks1 # <<>>
        waits == {0} \union {Await(k.disks1[d], k.disks2[d]) : d \in both}
        flying == {0} \union {k.disks1[d].inflight : d \in DOMAIN k.disks1}
    IN  { Percent(<<"D", "01">>, k.root.read, Space(k.root), 85, 95),
          Share(<<"D", "02">>, k.root.read, k.root.files - k.root.filesFree, k.root.files, 85, 95),
          Found(<<"D", "03">>, TRUE, IF \E m \in k.mounts : m.real /\ m.ro THEN 2 ELSE 0),
          Judged(<<"D", "04">>, k.psiIo # Missing, k.psiIo, 20, 50),
          Found(<<"D", "05">>, some, 0),
          Judged(<<"D", "06">>, some, Max(flying), 64, 256),
          Judged(<<"D", "07">>, some, Max(waits), 50, 200),
          Judged(<<"D", "08">>, k.blocked # Missing, k.blocked, 4, 16) }

\* F02: the fullest of the other real mounts whose usage is known.
FilesystemChecks(k) ==
    LET others == {m \in k.mounts : m.real /\ ~m.isRoot /\ m.fs.read}
    IN  { Found(<<"F", "01">>, TRUE, IF k.writable THEN 0 ELSE 2),
          Percent(<<"F", "02">>, TRUE, Max({0} \union {Space(m.fs) : m \in others}), 85, 95),
          Found(<<"F", "03">>, k.files # Missing,
                IF k.filesMax > HugeMax THEN 0 ELSE Grade(Pct(k.files, k.filesMax), 1000 * 70, 1000 * 90)) }

-----------------------------------------------------------------------------
(* Network, tables, errors *)

NetworkChecks(k) ==
    { Found(<<"N", "01">>, TRUE, IF k.nics \intersect {"up", "unknown"} = {} THEN 2 ELSE 0),
      Found(<<"N", "02">>, k.softnet # Missing, IF k.softnet > 0 THEN 2 ELSE 0),
      Judged(<<"N", "03">>, k.tx.packets >= MinPkts, Pct(k.tx.lost, k.tx.packets), 10, 100),
      Share(<<"N", "04">>, k.tcp.out > 0, k.tcp.retrans, k.tcp.out, 1, 5),
      Grown(<<"N", "05">>, k.listen, 1, 0),
      Share(<<"N", "06">>, k.arp # Missing /\ k.arpMax > 0, k.arp, k.arpMax, 70, 90) }

\* No table is no problem; a table that cannot be counted is not judged.
ConntrackChecks(k) ==
    LET none == k.ct.count = Missing /\ k.ct.max = Missing
    IN  { IF none THEN Found(<<"C", "T01">>, TRUE, 0)
          ELSE Share(<<"C", "T01">>, k.ct.count # Missing /\ k.ct.max > 0, k.ct.count, k.ct.max, 80, 95),
          IF k.ctDrops.cur = Missing THEN Found(<<"C", "T02">>, TRUE, 0)
          ELSE Grown(<<"C", "T02">>, k.ctDrops, 1, 0) }

SocketChecks(k) ==
    { Share(<<"S", "01">>, k.sock.tw # Missing /\ k.sock.maxTw > 0, k.sock.tw, k.sock.maxTw, 70, 90),
      Share(<<"S", "02">>, k.sock.orphan # Missing /\ k.sock.maxOrphan > 0, k.sock.orphan, k.sock.maxOrphan, 50, 80) }

\* taintCheck: only bits that are new; E02 needs both numbers.
ErrorsChecks(k) ==
    { Found(<<"E", "01">>, k.taintRead, IF k.taint \subseteq k.taintBase THEN 0 ELSE 1),
      Share(<<"E", "02">>, k.pidMax > 0 /\ k.pids > 0, k.pids, k.pidMax, 70, 90) }

-----------------------------------------------------------------------------
\* Run: a category that is late is one check, a warning, named like the category.
Late(id) == {[id |-> id, level |-> 1, read |-> FALSE]}

Checks(k, late) ==
    LET Of(id, checks) == IF id \in late THEN Late(id) ELSE checks
    IN  Of(<<"T", "ime/Sync">>, TimeChecks(k)) \union Of(<<"C", "PU">>, CPUChecks(k))
        \union Of(<<"M", "emory">>, MemoryChecks(k)) \union Of(<<"D", "isk/IO">>, DiskIOChecks(k))
        \union Of(<<"N", "etwork">>, NetworkChecks(k)) \union Of(<<"F", "ilesystem">>, FilesystemChecks(k))
        \union Of(<<"C", "onntrack">>, ConntrackChecks(k)) \union Of(<<"S", "ocket">>, SocketChecks(k))
        \union Of(<<"E", "rrors">>, ErrorsChecks(k))
=============================================================================
