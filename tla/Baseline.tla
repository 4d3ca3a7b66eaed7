-------------------------------- MODULE Baseline --------------------------------
(***************************************************************************)
(* The starting points of the cumulative counters (check/baseline.go): the *)
(* manual baseline, in memory and in <data-dir>/baseline.json, and the     *)
(* implicit one, the first value this process saw.  The kernel counts and  *)
(* resets; goroutines of the L0 checks, more than one of them when a round *)
(* is late, judge the growth since the starting point; HTTP handlers save  *)
(* and clear the manual baseline; the process and the machine may restart  *)
(* between any two steps.                                                  *)
(***************************************************************************)
EXTENDS Integers, FiniteSets, Functions

CONSTANTS
    Key,          \* the counters: CT02, N05, M05
    Checker,      \* goroutines that judge counters at a time
    Handler,      \* requests to /api/baseline in progress at a time
    None,         \* no baseline
    MaxCount, MaxResets, MaxRestarts, MaxRequests   \* bounds of the model

ASSUME BaselineAssumption ==
    None \notin Key /\ {MaxCount, MaxResets, MaxRestarts, MaxRequests} \subseteq Nat

VARIABLES
    counter,     \* what the kernel shows
    bl,          \* the manual baseline: None or values for the counters it could read
    first,       \* the implicit baseline of this process
    disk,        \* baseline.json
    loaded,      \* LoadBaseline has run in this process
    check,       \* checker |-> [at, key, cur, base]: what it is judging
    request,     \* handler |-> [at, vals]
    resets, restarts, requests

blVars == <<bl, first, disk, loaded>>
bounds == <<resets, restarts, requests>>
baselineVars == <<counter, blVars, check, request, bounds>>

Value == 0..MaxCount
Vals == UNION {[K -> Value] : K \in SUBSET Key}
NoVals == [k \in {} |-> 0]
Set(vals, k, v) == [x \in DOMAIN vals \union {k} |-> IF x = k THEN v ELSE vals[x]]
Quiet == [at |-> "idle", vals |-> NoVals]
Unread == [at |-> "idle", key |-> None, cur |-> 0, base |-> 0]

BaselineInit ==
    /\ counter = [k \in Key |-> 0]
    /\ bl = None /\ first = NoVals /\ disk = None /\ loaded = FALSE
    /\ check = [c \in Checker |-> Unread]
    /\ request = [h \in Handler |-> Quiet]
    /\ resets = 0 /\ restarts = 0 /\ requests = 0

-----------------------------------------------------------------------------
(* The judgement *)

Known(vals, k) == vals # None /\ k \in DOMAIN vals

\* baseOf: the manual baseline, else the first value, else the current one,
\* which becomes the first.
BaseOf(k, cur) ==
    IF Known(bl, k) THEN bl[k] ELSE IF k \in DOMAIN first THEN first[k] ELSE cur
FirstAfter(k, cur) ==
    IF Known(bl, k) \/ k \in DOMAIN first THEN first ELSE Set(first, k, cur)

\* counterCheckH: the growth it reports, 0 for a counter that fell, ...
Delta(base, cur) == IF cur < base THEN 0 ELSE cur - base
\* ... whose current value becomes the first.
RestartedKept(k, base, cur) == first
Restarted(k, base, cur) == IF cur < base THEN Set(first, k, cur) ELSE first

\* The counter is read, ...
Read(c, k) ==
    /\ check[c].at = "idle"
    /\ check' = [check EXCEPT ![c] = [at |-> "base", key |-> k, cur |-> counter[k], base |-> 0]]
    /\ UNCHANGED <<counter, blVars, request, bounds>>

\* ... its starting point looked up, ...
LookUp(c) ==
    /\ check[c].at = "base"
    /\ check' = [check EXCEPT ![c].at = "judge", ![c].base = BaseOf(check[c].key, check[c].cur)]
    /\ first' = FirstAfter(check[c].key, check[c].cur)
    /\ UNCHANGED <<counter, bl, disk, loaded, request, bounds>>

\* ... and the growth judged, with the mutex released in between.
Judge(c) ==
    /\ check[c].at = "judge"
    /\ first' = Restarted(check[c].key, check[c].base, check[c].cur)
    /\ check' = [check EXCEPT ![c] = Unread]
    /\ UNCHANGED <<counter, bl, disk, loaded, request, bounds>>

-----------------------------------------------------------------------------
(* The kernel and the process *)

Count(k) ==
    /\ counter[k] < MaxCount
    /\ counter' = [counter EXCEPT ![k] = @ + 1]
    /\ UNCHANGED <<blVars, check, request, bounds>>

\* The module of the counter is loaded again while nodedata runs.
Reset(k) ==
    /\ resets < MaxResets /\ counter[k] > 0
    /\ counter' = [counter EXCEPT ![k] = 0]
    /\ resets' = resets + 1
    /\ UNCHANGED <<blVars, check, request, restarts, requests>>

\* A new process, perhaps after a reboot: memory is empty until LoadBaseline.
NewProcess(reboot) ==
    /\ restarts < MaxRestarts
    /\ restarts' = restarts + 1
    /\ counter' = IF reboot THEN [k \in Key |-> 0] ELSE counter
    /\ bl' = None /\ first' = NoVals /\ loaded' = FALSE
    /\ check' = [c \in Checker |-> Unread]
    /\ request' = [h \in Handler |-> Quiet]
    /\ UNCHANGED <<disk, resets, requests>>

\* A file that cannot be read or parsed is left where it is; the checks run already.
LoadBaseline ==
    /\ ~loaded
    /\ bl' \in {disk, None} /\ loaded' = TRUE
    /\ UNCHANGED <<counter, first, disk, check, request, bounds>>

-----------------------------------------------------------------------------
(* Requests; the server answers only after LoadBaseline *)

Step(h, at, vals) == request' = [request EXCEPT ![h] = [at |-> at, vals |-> vals]]

\* CounterSnapshot leaves out what cannot be read.
Snapshot == {Restrict(counter, K) : K \in SUBSET Key}

\* SaveBaseline: the counters are read, ...
SaveBegin(h) ==
    /\ loaded /\ request[h].at = "idle" /\ requests < MaxRequests
    /\ \E vals \in Snapshot : Step(h, "save", vals)
    /\ requests' = requests + 1
    /\ UNCHANGED <<counter, blVars, check, resets, restarts>>

\* ... then the file is written and renamed, or an error returned, ...
WriteFailedOn(h) == Step(h, "apply", request[h].vals)
WriteFailed(h) == Step(h, "idle", NoVals)
SaveWrite(h) ==
    /\ request[h].at = "save"
    /\ \/ disk' = request[h].vals /\ Step(h, "apply", request[h].vals)
       \/ disk' = disk /\ WriteFailed(h)
    /\ UNCHANGED <<counter, bl, first, loaded, check, bounds>>

\* ... and it takes effect.
SaveApply(h) ==
    /\ request[h].at = "apply"
    /\ bl' = request[h].vals
    /\ Step(h, "idle", NoVals)
    /\ UNCHANGED <<counter, first, disk, loaded, check, bounds>>

\* ClearBaseline: memory first, then the file, which may fail to go.
ClearMemory(h) ==
    /\ loaded /\ request[h].at = "idle" /\ requests < MaxRequests
    /\ bl' = None
    /\ Step(h, "clear", NoVals)
    /\ requests' = requests + 1
    /\ UNCHANGED <<counter, first, disk, loaded, check, resets, restarts>>

ClearDisk(h) ==
    /\ request[h].at = "clear"
    /\ disk' \in {None, disk}
    /\ Step(h, "idle", NoVals)
    /\ UNCHANGED <<counter, bl, first, loaded, check, bounds>>

BaselineNext ==
    \/ \E k \in Key : Count(k) \/ Reset(k)
    \/ \E c \in Checker : LookUp(c) \/ Judge(c) \/ \E k \in Key : Read(c, k)
    \/ \E reboot \in BOOLEAN : NewProcess(reboot)
    \/ LoadBaseline
    \/ \E h \in Handler : SaveBegin(h) \/ SaveWrite(h) \/ SaveApply(h)
                          \/ ClearMemory(h) \/ ClearDisk(h)

BaselineSpec == BaselineInit /\ [][BaselineNext]_baselineVars
=============================================================================
