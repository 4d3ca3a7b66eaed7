-------------------------------- MODULE UseRows --------------------------------
(***************************************************************************)
(* The five rows of USE (use.go, concern.go): which resource is in         *)
(* trouble, from the L0 checks, the deviations and the points of the last  *)
(* minute.  w is what the rows are made from: cores, kind (of the busiest  *)
(* disk), points (metric |-> [age, v], oldest first) and z.                *)
(* Memory is in MiB, ages in seconds.                                      *)
(***************************************************************************)
EXTENDS Registry, ZScores, FiniteSetsExt

CONSTANTS Hold, FreshFor          \* concernHold, 2 minutes

ASSUME UseAssumption == {Hold, FreshFor} \subseteq Nat

Resource == {"CPU", "Memory", "Disk", "Network", "System"}

\* The metrics of a resource, its main metric first.
Metrics(r) ==
    CASE r = "CPU" -> <<"cpu.busy_pct", "cpu.core_top1", "cpu.user", "cpu.core_top2", "cpu.sys", "cpu.softirq",
                        "cpu.core_softirq_max", "psi.cpu.some10", "loadavg.1m", "procs_running", "cpu.steal">>
      [] r = "Memory" -> <<"mem.used_pct", "mem.available", "swap.out", "swap.in", "psi.mem.some10",
                           "pgmajfault", "mem.writeback", "mem.dirty">>
      [] r = "Disk" -> <<"psi.io.some10", "disk.await_w", "disk.util", "fs.avail", "disk.await_r",
                         "disk.inflight", "procs_blocked">>
      [] r = "Network" -> <<"net.rx", "net.tx", "net.softnet_squeeze", "net.softnet_drop", "net.rx_drop",
                            "net.tx_drop", "net.rx_errs", "tcp.retrans">>
      [] r = "System" -> <<>>
Always == {"cpu.core_top1", "disk.await_w", "disk.util"}

\* l0Resource: by the number where the letter is not enough; "" for no row.
LettersOf(r) ==
    CASE r = "CPU" -> {"C"} [] r = "Memory" -> {"M"} [] r = "Disk" -> {"D"}
      [] r = "Network" -> {"N", "S"} [] r = "System" -> {"E", "T", "F"}
NoSockets(id, r) == id[1] \in LettersOf(r) \ {"S"} /\ (id[1] = "F" => r = "System")
InRow(id, r) ==
    IF id \in {<<"F", "01">>, <<"F", "02">>} THEN r = "Disk" ELSE id[1] \in LettersOf(r)

-----------------------------------------------------------------------------
(* Readings *)

Known(w, b) == b \in DOMAIN w.points /\ w.points[b] # <<>> /\ Last(w.points[b]).v # NaN
Value(w, b) == Last(w.points[b]).v
Fresh(w, b) == Known(w, b) /\ Last(w.points[b]).age <= FreshFor
AtLeastOne(n) == IF n <= 0 THEN 1 ELSE n

\* 0.1 of the memory that "available" and "used" make up.
TenthOfMemory(w, v) ==
    /\ Known(w, "mem.available") /\ Known(w, "mem.used_pct") /\ Value(w, "mem.used_pct") < 100
    /\ Value(w, "mem.available") > 0
    /\ v * (100 - Value(w, "mem.used_pct")) >= 10 * Value(w, "mem.available")

\* inConcern: a reading that may be a bottleneck; none for a metric without a limit.
InConcern(w, b, v) ==
    CASE b = "cpu.busy_pct" -> v >= 50
      [] b \in {"cpu.core_top1", "cpu.core_top2"} -> v >= 60
      [] b \in {"cpu.core_softirq_max", "cpu.softirq"} -> v >= 30
      [] b \in {"cpu.user", "cpu.sys"} -> v >= 50 * AtLeastOne(w.cores)
      [] b \in {"psi.cpu.some10", "cpu.steal", "psi.mem.some10", "psi.io.some10"} -> v >= 5
      [] b \in {"procs_running", "loadavg.1m"} -> v > AtLeastOne(w.cores)
      [] b = "mem.used_pct" -> v >= 80
      [] b = "mem.available" -> Known(w, "mem.used_pct") /\ Value(w, "mem.used_pct") >= 80
      [] b \in {"swap.out", "swap.in"} -> v >= 1
      [] b = "pgmajfault" -> v >= 100
      [] b \in {"mem.dirty", "mem.writeback"} -> TenthOfMemory(w, v)
      [] b \in {"disk.await_w", "disk.await_r"} -> v >= (CASE w.kind = "hdd" -> 50 [] w.kind = "ssd" -> 10 [] OTHER -> 20)
      [] b = "disk.util" -> w.kind = "hdd" /\ v >= 60
      [] b = "disk.inflight" -> v >= IF w.kind = "hdd" THEN 4 ELSE 32
      [] b = "procs_blocked" -> v >= 2
      [] b \in {"net.softnet_squeeze", "net.softnet_drop", "net.rx_drop", "net.tx_drop", "net.rx_errs"} -> v >= 1
      [] b = "tcp.retrans" -> v >= 10
      [] OTHER -> FALSE

\* hardLine: trouble whatever is usual.
OverHardLine(w, b, v) ==
    CASE b = "cpu.core_top1" -> v >= 95
      [] b \in {"psi.cpu.some10", "psi.io.some10"} -> v >= 20
      [] b = "procs_running" -> v > 2 * AtLeastOne(w.cores)
      [] b \in {"psi.mem.some10", "swap.out"} -> v >= 10
      [] b \in {"net.softnet_drop", "net.rx_drop", "net.tx_drop", "net.rx_errs"} -> v >= 1
      [] OTHER -> FALSE

Troubled(w, b, v, line) == IF line = "hard" THEN OverHardLine(w, b, v) ELSE InConcern(w, b, v)
Minute(points) == {i \in DOMAIN points : points[i].age <= Hold}

\* Faulty: a spike of a moment is enough.
AtOnce(w, b, line) ==
    Troubled(w, b, Value(w, b), line) /\ \A i \in Minute(w.points[b]) : Troubled(w, b, w.points[b][i].v, line)

\* sustainedConcern, sustainedHard: all of the last minute, of which three quarters are seen.
ForAMinute(w, b, line) ==
    LET points == w.points[b]
        minute == Minute(points)
    IN  /\ Troubled(w, b, Value(w, b), line)
        /\ Cardinality(minute) >= 2
        /\ 4 * points[Min(minute)].age >= 3 * Hold
        /\ \A i \in minute : Troubled(w, b, points[i].v, line)

-----------------------------------------------------------------------------
(* Rows *)

Peak(w, b) == LET known == b \in DOMAIN w.z /\ PeakOf(w.z[b]) # NaN IN IF known THEN PeakOf(w.z[b]) ELSE 0
Significant(w, b) == Abs(Peak(w, b)) >= ZThreshold

\* Faulty: the hard line counts only where nothing is unusual.
NotableOrChange(w, b) ==
    IF Significant(w, b) THEN Peak(w, b) * Direction(b) > 0 /\ ForAMinute(w, b, "concern")
    ELSE ForAMinute(w, b, "hard")

\* Worse than usual and perhaps a bottleneck, or over the hard line, both for a minute.
Notable(w, b) ==
    \/ Significant(w, b) /\ Peak(w, b) * Direction(b) > 0 /\ ForAMinute(w, b, "concern")
    \/ ForAMinute(w, b, "hard")

\* Use: a row; level -1 if nothing of the resource was seen.
Row(w, checks, r) ==
    LET seen == {b \in Range(Metrics(r)) : Fresh(w, b)}
        notable == {b \in seen : Notable(w, b)}
        mine == {c \in checks : InRow(c.id, r)}
        raised == {c \in mine : c.level > 0}
        levels == {c.level : c \in raised} \union (IF notable # {} THEN {1} ELSE {})
    IN  [ level |-> IF levels # {} THEN Max(levels) ELSE IF seen = {} /\ mine = {} THEN -1 ELSE 0,
          notable |-> notable,
          facts |-> {b \in seen : b = Metrics(r)[1] \/ b \in Always \/ b \in notable \/ Significant(w, b)},
          blind |-> Metrics(r) # <<>> /\ ~Fresh(w, Metrics(r)[1]),
          checks |-> raised ]

Use(w, checks) == [r \in Resource |-> Row(w, checks, r)]
=============================================================================
