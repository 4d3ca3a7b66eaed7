------------------------------- MODULE Registry -------------------------------
(***************************************************************************)
(* The registry of metrics (internal/metrics): class, family, bad          *)
(* direction, and which metrics are evidence only.  A metric is its base   *)
(* name and the device or process it is about, "" for the whole machine.   *)
(***************************************************************************)
EXTENDS Integers

Whole(id) == id[2] = ""

Class == {"CPU", "IO", "Mem", "Net"}

Members(class) ==
    CASE class = "CPU" ->
           {"cpu.softirq", "cpu.steal", "cpu.sys", "cpu.user", "loadavg.1m", "procs_running",
            "psi.cpu.some10", "proc.cpu"}
      [] class = "IO" ->
           {"cpu.iowait", "disk.await_r", "disk.await_w", "disk.inflight", "disk.merged", "disk.rbytes",
            "disk.riops", "disk.util", "disk.wbytes", "disk.wiops", "mem.dirty", "mem.writeback",
            "procs_blocked", "psi.io.some10", "proc.io"}
      [] class = "Mem" ->
           {"mem.available", "mem.buffers", "mem.cached", "mem.free", "mem.used_pct", "pgfault",
            "psi.mem.some10", "slab", "swap.in", "swap.out", "swap.used"}
      [] class = "Net" ->
           {"conntrack", "net.rx", "net.rx_drop", "net.rx_errs", "net.rx_pps", "net.softnet_drop",
            "net.softnet_squeeze", "net.tx", "net.tx_drop", "net.tx_errs", "net.tx_pps",
            "tcp.attempt_fails", "tcp.estab", "tcp.passive_opens", "tcp.retrans"}

DiskMetrics ==
    {"disk.await_r", "disk.await_w", "disk.inflight", "disk.merged", "disk.rbytes", "disk.riops",
     "disk.util", "disk.wbytes", "disk.wiops"}

Classified == UNION {Members(c) : c \in Class}

\* Each family and the member that stands for it.
Families ==
    { [canon |-> "mem.available", members |-> {"mem.available", "mem.free", "mem.used_pct"}],
      [canon |-> "disk.await_w", members |-> {"disk.await_r", "disk.await_w"}],
      [canon |-> "net.rx", members |-> {"net.rx", "net.rx_pps", "net.tx", "net.tx_pps"}],
      [canon |-> "net.rx_drop", members |-> {"net.rx_drop", "net.rx_errs", "net.tx_drop", "net.tx_errs"}],
      [canon |-> "fs.used_pct", members |-> {"fs.avail", "fs.used_pct"}],
      [canon |-> "psi.cpu.some10", members |-> {"loadavg.1m", "procs_running", "psi.cpu.some10"}],
      [canon |-> "cpu.core_top1", members |-> {"cpu.core_top1", "cpu.core_top2", "cpu.core_top3"}] }

EvidenceOnly ==
    {"ctxt", "disk.rbytes", "disk.riops", "disk.wbytes", "disk.wiops", "intr", "loadavg.1m",
     "mem.buffers", "mem.cached", "net.rx", "net.rx_pps", "net.tx", "net.tx_pps", "pgfault", "slab",
     "sock.tcp_inuse", "sock.udp_inuse", "sock.used", "tcp.estab"}

LowerIsBad == {"fs.avail", "mem.available", "mem.cached", "mem.free"}
Direction(base) == IF base \in LowerIsBad THEN -1 ELSE 1
=============================================================================
