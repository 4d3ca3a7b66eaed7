------------------------------ MODULE HistoryStore ------------------------------
(***************************************************************************)
(* How the coarse points of a series reach the disk and come back          *)
(* (cmd/nodedata: history.go; persist, flushHistory, collectLoop and       *)
(* shutdown of main.go).  collectLoop collects what Series.Add keeps and   *)
(* writes it once per slot of coarseStep; shutdown writes what is left,    *)
(* without waiting for collectLoop.  There is a file per day; a change of  *)
(* day starts a goroutine that compresses the older files step by step.    *)
(*                                                                         *)
(* An item is a point ("v") or a peak ("p") of a series, with its time; a  *)
(* line is the set of the items it holds, and a torn line holds none.      *)
(* Time is discrete and does not pass while a write is under way.  The     *)
(* process may be killed at any step, and a write or an open may fail.     *)
(*                                                                         *)
(* A definition marked "Faulty:" is a plausible mistake in the code of the *)
(* definition after it; nothing uses it (see FleetPoller).                 *)
(***************************************************************************)
EXTENDS Integers, Sequences, FiniteSets, FiniteSetsExt, SequencesExt

CONSTANTS
    Series,     \* the series (metric identities)
    Steady,     \* those sampled in every round; the others come and go (processes)
    SlotLen,    \* coarseStep, in rounds of collectLoop
    DayLen,     \* a day, in rounds
    Retain,     \* the retention, in days
    FirstRound, \* when nodedata is first started
    MaxFaults,  \* bound of the model: kills, failed writes and failed opens
    MaxTime     \* bound of the model: the clock stops here

ASSUME HistoryAssumption ==
    /\ Steady \subseteq Series
    /\ SlotLen \in Nat \ {0} /\ DayLen \in Nat \ {0} /\ Retain \in Nat \ {0}
    /\ SlotLen <= DayLen   \* five minutes, see coarseStep
    /\ FirstRound \in Nat /\ FirstRound >= (Retain + 1) * DayLen   \* so that no day is negative
    /\ MaxFaults \in Nat /\ MaxTime \in Nat

VARIABLES
    now,      \* the clock
    phase,    \* "off", "loading", "on", "closing", "closed"
    ticked,   \* collectLoop has had its round of this moment
    bucket,   \* Series: time of the newest coarse point of each series, or 0
    open,     \* Series: the series whose bucket is open, for this life opened it
    pend,     \* histPend and histPeaks
    slot,     \* histSlot
    thread,   \* main and loop: [at, points, peaks, t, ok] while they write
    file,     \* History.f and day: the day of the open file, or Closed
    plain,    \* the .jsonl files: day |-> lines
    gz,       \* the .jsonl.gz files
    tmp,      \* the .jsonl.gz.tmp files
    waiting,  \* compactions not begun yet, each with its "today"
    job,      \* the compaction that holds compactMu: [today, todo, at], or NoJob
    faults    \* faults so far

vars == <<now, phase, ticked, bucket, open, pend, slot, thread, file, plain, gz, tmp,
          waiting, job, faults>>

memory == <<bucket, open, pend, slot, thread>>
disk == <<plain, gz, tmp>>

Closed == -1
NoJob == [today |-> 0, todo |-> {}, at |-> "none"]
Idle == [at |-> "idle", points |-> {}, peaks |-> {}, t |-> 0, ok |-> TRUE]
NoFiles == [d \in {} |-> <<>>]
Threads == {"main", "loop"}

Slot(t) == t \div SlotLen
Day(t) == t \div DayLen
Oldest(t) == Day(t) - Retain

Point(m, t) == [id |-> m, t |-> t, k |-> "v"]

Peak(m, t) == [id |-> m, t |-> t, k |-> "p"]
Torn == {}
Points(S) == {i \in S : i.k = "v"}
Peaks(S) == {i \in S : i.k = "p"}
Times(S) == {i.t : i \in S}

Init ==
    /\ now = FirstRound /\ phase = "off" /\ ticked = FALSE
    /\ bucket = [m \in Series |-> 0] /\ open = {} /\ pend = {} /\ slot = 0
    /\ thread = [x \in Threads |-> Idle]
    /\ file = Closed /\ plain = NoFiles /\ gz = NoFiles /\ tmp = NoFiles
    /\ waiting = {} /\ job = NoJob /\ faults = 0

-----------------------------------------------------------------------------
(* Reading *)

\* files(): of two copies of a day the compressed one is read.
Content(d) ==
    IF d \in DOMAIN gz THEN gz[d] ELSE IF d \in DOMAIN plain THEN plain[d] ELSE <<>>

\* Load: the lines of the days within the retention.
Lines == [d \in Oldest(now) .. Day(now) |-> Content(d)]

\* A line before line i of day d holds a point in the bucket of the point x or in a
\* later one: AddCoarse finds x to be out of order.
Late(L, d, i, x) ==
    \E e \in DOMAIN L : \E j \in DOMAIN L[e] :
        /\ e < d \/ (e = d /\ j < i)
        /\ \E y \in Points(L[e][j]) : y.id = x.id /\ Slot(y.t) >= Slot(x.t)

\* What Load puts into the series, reading the lines L of some days in their order:
\* every peak, and the points that are not out of order.
LoadedFrom(L) ==
    UNION {UNION {{x \in L[d][i] : x.k = "p" \/ ~Late(L, d, i, x)} : i \in DOMAIN L[d]}
           : d \in DOMAIN L}

Loaded == LoadedFrom(Lines)

\* The time of the newest of some points.
NewestOf(S) == IF S = {} THEN 0 ELSE Max(Times(S))

-----------------------------------------------------------------------------
(* compactOld *)

Without(f, d) == [x \in DOMAIN f \ {d} |-> f[x]]
With(f, d, lines) == [x \in DOMAIN f \cup {d} |-> IF x = d THEN lines ELSE f[x]]

\* What compactOld(today) finds to do.
NewJob(today) ==
    [today |-> today, at |-> "look",
     todo |-> {d \in DOMAIN plain : d < today} \cup DOMAIN tmp]

\* A compaction started by a change of day gets the lock.
BeginJob ==
    /\ job = NoJob
    /\ \E today \in waiting : job' = NewJob(today) /\ waiting' = waiting \ {today}
    /\ UNCHANGED <<now, phase, ticked, memory, file, disk, faults>>

\* The file of the list that is in work.
Current == Min(job.todo)
NextFile == [job EXCEPT !.todo = job.todo \ {Current}, !.at = "look"]

\* A compressed copy exists: the plain one is removed.  A file that is not to be
\* compressed, or is gone, is passed over.  A leftover .tmp is removed.
Skip ==
    /\ Current \in DOMAIN gz \/ Current \notin DOMAIN plain \/ Current >= job.today
    /\ plain' = IF Current \in DOMAIN gz /\ Current < job.today THEN Without(plain, Current) ELSE plain
    /\ tmp' = Without(tmp, Current)
    /\ job' = NextFile
    /\ UNCHANGED gz

\* Faulty: the plain file is removed as soon as it has been read.
CopyAndRemove ==
    /\ Current \notin DOMAIN gz /\ Current \in DOMAIN plain /\ Current < job.today
    /\ tmp' = With(tmp, Current, plain[Current]) /\ job' = [job EXCEPT !.at = "rename"]
    /\ plain' = Without(plain, Current)
    /\ UNCHANGED <<gz, faults>>

\* gzipFile writes the .tmp; a failure leaves the plain file for another time.
Copy ==
    /\ Current \notin DOMAIN gz /\ Current \in DOMAIN plain /\ Current < job.today
    /\ \/ tmp' = With(tmp, Current, plain[Current]) /\ job' = [job EXCEPT !.at = "rename"]
          /\ UNCHANGED faults
       \/ /\ faults < MaxFaults /\ faults' = faults + 1
          /\ tmp' = Without(tmp, Current) /\ job' = NextFile
    /\ UNCHANGED <<plain, gz>>

Rename ==
    /\ gz' = With(gz, Current, tmp[Current]) /\ tmp' = Without(tmp, Current)
    /\ job' = [job EXCEPT !.at = "remove"]
    /\ UNCHANGED plain

RemovePlain ==
    /\ plain' = Without(plain, Current)
    /\ job' = NextFile
    /\ UNCHANGED <<gz, tmp>>

\* One step of the compaction; the last one of a start ends the loading.
Compact ==
    /\ job # NoJob
    /\ \/ /\ job.todo # {}
          /\ \/ job.at = "look" /\ Skip /\ UNCHANGED faults
             \/ job.at = "look" /\ Copy
             \/ job.at = "rename" /\ Rename /\ UNCHANGED faults
             \/ job.at = "remove" /\ RemovePlain /\ UNCHANGED faults
          /\ UNCHANGED phase
       \/ /\ job.todo = {}
          /\ job' = NoJob
          /\ phase' = IF phase = "loading" THEN "on" ELSE phase
          /\ UNCHANGED <<disk, faults>>
    /\ UNCHANGED <<now, ticked, memory, file, waiting>>

-----------------------------------------------------------------------------
(* Writing *)

\* The lines of a batch: one for each time, in their order.
Rank(i, S) == Cardinality({u \in Times(S) : u < i.t}) + 1
AsLines(S) == [n \in 1 .. Cardinality(Times(S)) |-> {i \in S : Rank(i, S) = n}]

\* What a file holds after lines have been appended to it.  A line behind a torn
\* one is one line with it, which nobody can read.
Joined(old, new) ==
    IF old = <<>> \/ new = <<>> THEN old \o new
    ELSE IF Last(old) # Torn THEN old \o new
    ELSE IF new = <<Torn>> THEN old ELSE Front(old) \o Tail(new)

\* expire: the files older than the retention.
Expired(t) == {d \in DOMAIN plain \cup DOMAIN gz : d < Oldest(t)}

\* The files once openLocked(d, t) has opened the file of day d; a file that is open
\* already may have been removed behind h.f.
Opened(d, t) ==
    IF file = d THEN [plain |-> plain, gz |-> gz]
    ELSE LET all == IF d \in DOMAIN plain THEN plain ELSE With(plain, d, <<>>)
         IN  [plain |-> [x \in DOMAIN all \ Expired(t) |-> all[x]],
              gz |-> [x \in DOMAIN gz \ Expired(t) |-> gz[x]]]

\* The plain files once lines have been appended to that file.
Appended(d, t, lines) ==
    LET f == Opened(d, t).plain
    IN  IF d \in DOMAIN f THEN With(f, d, Joined(f[d], lines)) ELSE f

\* The file is open and the lines have been appended.  If the file of another day
\* was open, the older ones are to be compressed.
Written(d, t, lines) ==
    /\ plain' = Appended(d, t, lines) /\ gz' = Opened(d, t).gz
    /\ file' = d
    /\ waiting' = IF file \in {Closed, d} THEN waiting ELSE waiting \cup {Day(t)}

\* What a write that breaks off may leave of a batch.
TornBatches(S) == {SubSeq(AsLines(S), 1, n) \o <<Torn>> : n \in 0 .. Len(AsLines(S)) - 1}

\* Append or AppendPeaks: the items go to the file of day d, all of them or up to
\* a torn line; or the file cannot be opened.
Write(S, d, t, ok) ==
    \/ /\ ok /\ Written(d, t, AsLines(S)) /\ UNCHANGED faults
    \/ /\ ~ok /\ faults < MaxFaults /\ faults' = faults + 1
       /\ \/ \E lines \in TornBatches(S) : Written(d, t, lines)
          \/ Written(d, t, <<>>)
          \/ file # d /\ file' = Closed /\ UNCHANGED <<plain, gz, waiting>>

FirstTime(S) == Min(Times(S))

\* Append: all points go to the day of the first one.
AppendPoints(x) ==
    /\ thread[x].at = "append"
    /\ \E ok \in BOOLEAN :
          /\ thread' = [thread EXCEPT ![x].at = "peaks", ![x].ok = ok]
          /\ LET S == thread[x].points
             IN  \/ S = {} /\ ok /\ UNCHANGED <<file, plain, gz, waiting, faults>>
                 \/ S # {} /\ Write(S, Day(FirstTime(S)), FirstTime(S), ok)
    /\ UNCHANGED <<now, phase, ticked, bucket, open, pend, slot, tmp, job>>

\* AppendPeaks: the peaks go to the day of the round; then persist is done.
AppendPeaks(x) ==
    /\ thread[x].at = "peaks"
    /\ \E ok \in BOOLEAN :
          /\ thread' = [thread EXCEPT ![x] = [Idle EXCEPT !.t = thread[x].t]]
          /\ LET S == thread[x].peaks
             IN  \/ S = {} /\ ok /\ UNCHANGED <<file, plain, gz, waiting, faults>>
                 \/ S # {} /\ Write(S, Day(thread[x].t), thread[x].t, ok)
    /\ UNCHANGED <<now, phase, ticked, bucket, open, pend, slot, tmp, job>>

-----------------------------------------------------------------------------
(* collectLoop and persist *)

\* Faulty: what is left over from the last slot is dropped.
TakenNow(all) == {i \in all : i.t = now}

\* The batch persist takes.
Taken(all) == all

\* Faulty: a batch is written when it is old enough.
DueByAge(all) == \E i \in Points(all) : now - i.t >= SlotLen

\* The first round of a slot that finds a point to write.
Due(all) == Slot(now) # slot /\ Points(all) # {}

\* persist: add to what is unsaved; take it all once per slot.
Persist(new) ==
    LET all == pend \cup new
    IN  IF ~Due(all)
        THEN pend' = all /\ thread' = [thread EXCEPT !["loop"].t = now] /\ UNCHANGED slot
        ELSE /\ pend' = {} /\ slot' = Slot(now)
             /\ thread' = [thread EXCEPT !["loop"] =
                   [at |-> "append", points |-> Points(Taken(all)), peaks |-> Peaks(Taken(all)),
                    t |-> now, ok |-> TRUE]]

\* A round of collectLoop (the first one is main's own): Add keeps the samples that
\* open a bucket, and the buckets before them may leave peaks.
Tick ==
    /\ phase \in {"on", "closing", "closed"} /\ ~ticked /\ thread["loop"].at = "idle"
    /\ ticked' = TRUE
    /\ \E seen \in SUBSET Series :
          /\ Steady \subseteq seen
          /\ LET kept == {m \in seen : Slot(now) > Slot(bucket[m])}
             IN  /\ bucket' = [m \in Series |-> IF m \in kept THEN now ELSE bucket[m]]
                 /\ open' = open \cup kept
                 /\ \E spiked \in {{}, kept \cap open} :
                       Persist({Point(m, now) : m \in kept} \cup {Peak(m, bucket[m]) : m \in spiked})
    /\ UNCHANGED <<now, phase, file, disk, waiting, job, faults>>

-----------------------------------------------------------------------------
(* Start, stop, kill *)

\* main: Load, which ends with a compaction.
Start ==
    /\ phase = "off" /\ phase' = "loading"
    /\ bucket' = [m \in Series |-> NewestOf({i \in Points(Loaded) : i.id = m})] /\ open' = {}
    /\ pend' = {} /\ slot' = 0
    /\ job' = NewJob(Day(now))
    /\ UNCHANGED <<now, ticked, thread, file, disk, waiting, faults>>

\* shutdown: close(stop), and flushHistory takes what is unsaved.
Stop ==
    /\ phase = "on" /\ phase' = "closing"
    /\ pend' = {}
    /\ thread' = [thread EXCEPT !["main"] =
          [at |-> "append", points |-> Points(pend), peaks |-> Peaks(pend), t |-> now, ok |-> TRUE]]
    /\ UNCHANGED <<now, ticked, bucket, open, slot, file, disk, waiting, job, faults>>

\* History.Close waits for the compactions.
Close ==
    /\ phase = "closing" /\ thread["main"].at = "idle"
    /\ waiting = {} /\ job = NoJob
    /\ phase' = "closed" /\ file' = Closed
    /\ UNCHANGED <<now, ticked, memory, disk, waiting, job, faults>>

\* The process is gone, with all that is in memory.
Gone ==
    /\ phase' = "off"
    /\ bucket' = [m \in Series |-> 0] /\ open' = {} /\ pend' = {} /\ slot' = 0
    /\ thread' = [x \in Threads |-> Idle]
    /\ file' = Closed /\ waiting' = {} /\ job' = NoJob
    /\ UNCHANGED <<now, ticked, tmp>>

Exit == phase = "closed" /\ Gone /\ UNCHANGED <<plain, gz, faults>>

\* The process is killed; a write of points that is under way may break off.
Crash ==
    /\ phase # "off" /\ Gone
    /\ faults < MaxFaults /\ faults' = faults + 1
    /\ \/ UNCHANGED <<plain, gz>>
       \/ \E x \in Threads :
             LET S == thread[x].points
             IN  /\ thread[x].at = "append" /\ S # {}
                 /\ \E lines \in TornBatches(S) :
                       /\ plain' = Appended(Day(FirstTime(S)), FirstTime(S), lines)
                       /\ gz' = Opened(Day(FirstTime(S)), FirstTime(S)).gz

\* The next round is due.  A shutdown takes less than a round.
Advance ==
    /\ now < MaxTime
    /\ phase # "loading" /\ (phase = "on" => ticked)
    /\ phase \in {"closing", "closed"} => now = thread["main"].t
    /\ \A x \in Threads : thread[x].at = "idle"
    /\ now' = now + 1 /\ ticked' = FALSE
    /\ UNCHANGED <<phase, memory, file, disk, waiting, job, faults>>

Next ==
    \/ Start \/ Stop \/ Close \/ Exit \/ Crash
    \/ Advance \/ Tick
    \/ (\E x \in Threads : AppendPoints(x) \/ AppendPeaks(x))
    \/ BeginJob \/ Compact

Spec == Init /\ [][Next]_vars

-----------------------------------------------------------------------------
(* Properties *)

\* The type invariant.
TypeOK ==
    /\ now \in Nat /\ phase \in {"off", "loading", "on", "closing", "closed"}
    /\ ticked \in BOOLEAN /\ bucket \in [Series -> 0 .. now] /\ open \subseteq Series
    /\ pend \subseteq [id : Series, t : 1 .. now, k : {"v", "p"}] /\ slot \in 0 .. Slot(now)
    /\ \A x \in Threads :
          /\ thread[x].at \in {"idle", "append", "peaks"}
          /\ thread[x].points \subseteq [id : Series, t : 1 .. now, k : {"v"}]
          /\ thread[x].peaks \subseteq [id : Series, t : 1 .. now - 1, k : {"p"}]
    /\ file \in {Closed} \cup (1 .. Day(now))
    /\ DOMAIN plain \cup DOMAIN gz \cup DOMAIN tmp \subseteq 1 .. Day(now)
    /\ job.todo \subseteq Nat /\ waiting \subseteq Nat
    /\ faults \in 0 .. MaxFaults

InMemory ==
    pend \cup (UNION {thread[x].peaks : x \in Threads})
         \cup (UNION {thread[x].points : x \in {x \in Threads : thread[x].at = "append"}})

\* A file beyond the retention held the item.
OutOfDate(i) == \E d \in 1 .. Oldest(now') - 1 : i \in UNION ToSet(Content(d))

\* shutdown does not wait for collectLoop, which may have written newer points, and
\* may have gone on to a new day and had the file compressed that shutdown writes.
Overtaken(i) == phase = "closing" /\ \E j \in Points(Loaded) : j.id = i.id /\ j.t > i.t
Reopened == phase = "closing" /\ file' \in DOMAIN gz
CopiedBefore(i) == phase = "closing" /\ job.at = "rename" /\ i \notin UNION ToSet(tmp[Current])

\* history.go:239 (compactOld), expire, files: what Load would have returned it
\* returns after any step as well, be it a step of a compression, a kill or an
\* append, unless the file was past the retention or shutdown wrote to it after it
\* had been copied.
DiskKeepsItems == [][\A i \in Loaded \ Loaded' : OutOfDate(i) \/ CopiedBefore(i)]_<<now, disk>>

\* persist, flushHistory: what Add has kept stays in memory until it can be read
\* back from the disk.  It is lost only with the process, by a failed write of its
\* own batch, at the end of a torn line, or when collectLoop runs past a shutdown.
Killed == phase' = "off"
WriteFailed == faults' # faults
BehindTorn == \E d \in DOMAIN plain : plain[d] # <<>> /\ Last(plain[d]) = Torn /\ plain'[d] # plain[d]
MemoryReachesDisk ==
    [][\A i \in InMemory \ InMemory' :
          i \in Loaded' \/ Killed \/ WriteFailed \/ BehindTorn \/ Overtaken(i) \/ Reopened]_vars

\* main.go:142 (comment of shutdown), persist: when a round is over, what is not on
\* the disk yet is of the current slot.
UnsavedIsRecent ==
    phase = "on" /\ thread["loop"].at = "idle" =>
        \A i \in Points(pend) : Slot(i.t) = Slot(thread["loop"].t)

\* flushHistory, Close: what a clean stop leaves unsaved was kept after the signal,
\* or is still in the hands of collectLoop.
StopSaves ==
    phase = "closed" => \A i \in Points(pend) : i.t >= thread["main"].t

\* main.go, persist and shutdown: nothing that is due stays unsaved.
SavedInTime == TypeOK /\ UnsavedIsRecent /\ StopSaves

Readable(x) == thread[x].at = "peaks" /\ thread[x].ok => thread[x].points \subseteq Loaded

\* history.go:9: a kill loses at most the last line and a half line is skipped when
\* reading, so what a round has written without an error can be read.
SavedIsReadable == phase = "on" => Readable("loop")

\* main.go:142 (comment of shutdown): the shutdown saves the points that are not on
\* the disk yet.
FlushIsReadable == Readable("main")

\* history.go:226 (comment of openLocked): the file of yesterday is not written any
\* more: no file is written that exists in its compressed form.
OldIsNotWritten == [][\A d \in DOMAIN plain' : d \in DOMAIN gz /\ d \in DOMAIN plain
                                                => plain'[d] = plain[d]]_vars
=============================================================================
