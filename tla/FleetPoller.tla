------------------------------ MODULE FleetPoller ------------------------------
(***************************************************************************)
(* The fleet poller (internal/fleet: poller.go, state.go, events.go and    *)
(* the loop of server.go).  One goroutine runs loop(): it re-reads the     *)
(* inventory, runs a Round and waits for its ticker.  A Round starts one   *)
(* goroutine per host behind a semaphore of Parallel slots; each fetches   *)
(* (fetch), takes its end time t1, and only then takes the lock and files  *)
(* the result (record).  The inventory's own reload is module Inventory;   *)
(* here a reload may return any set of hosts.                              *)
(*                                                                         *)
(* Time is discrete.  Local steps take no time, except that a goroutine    *)
(* may stay up to Lag units between taking t1 and getting the lock.        *)
(* A document is abstracted to the state code of each resource it reports; *)
(* facts, movers, versions and the clock skew are not modelled.            *)
(*                                                                         *)
(* A definition marked "Faulty:" is a plausible mistake in the code of the *)
(* definition after it.  Nothing uses it; put in that one's place it shows *)
(* that the properties would notice the mistake.                           *)
(***************************************************************************)
EXTENDS Integers, Sequences, FiniteSets, SequencesExt

CONSTANTS
    Host,       \* names that may appear in the inventory
    Resource,   \* the rows an agent may report (CPU, memory, ...)
    Interval,   \* -interval: the period of the ticker
    Timeout,    \* -timeout: the limit of one HTTP request
    LostAfter,  \* -lost-after
    Parallel,   \* -parallel: slots of the semaphore
    MaxEvents,  \* maxEvents: length of the event list
    Lag,        \* longest stay between t1 and the lock of record
    MaxTime     \* bound of the model: the clock stops here

\* What Main() guarantees after clamping its flags; an inventory and a document
\* list finitely many names.
ASSUME FlagsAssumption ==
    /\ IsFiniteSet(Host) /\ IsFiniteSet(Resource)
    /\ Interval \in Nat /\ Timeout \in Nat \ {0} /\ Timeout < Interval
    /\ LostAfter \in Nat \ {0} /\ Parallel \in Nat \ {0}
    /\ MaxEvents \in Nat \ {0} /\ Lag \in Nat /\ MaxTime \in Nat \ {0}

Zero == 0                \* the zero time.Time; the clock starts at 1
Code == {"ok", "dev", "bad", "none"}
SevRank == [ok |-> 0, none |-> 1, dev |-> 2, lost |-> 3, bad |-> 4]

\* What a successful fetch returns: a code for each resource it reports.
Doc == UNION {[R -> Code] : R \in SUBSET Resource}

\* Faulty: requests without a deadline worth the name.
NoFetchLimit == 5 * Interval

\* fetch() asks /api/fleet and, after a 404, /api/use: two requests.
FetchLimit == 2 * Timeout

VARIABLES
    now,        \* the clock
    hosts,      \* Poller.hosts
    st,         \* Poller.st: the hostState of every host
    events,     \* Poller.events
    roundAt,    \* Poller.roundAt: end of the last round
    pc,         \* where loop() is: "top", "round", "wait", "done"
    queue,      \* hosts of this round without a goroutine yet
    fetching,   \* the goroutines: host |-> [t0, t1, got, doc]
    roundStart, \* start of the current round
    nextTick,   \* when the ticker fires next
    tick,       \* the ticker's channel (one slot) holds a tick
    stopping    \* the context is cancelled (SIGTERM)

vars == <<now, hosts, st, events, roundAt, pc, queue, fetching, roundStart,
          nextTick, tick, stopping>>

NoRows == [r \in {} |-> "ok"]
NoTimes == [r \in {} |-> Zero]
NoFlags == [r \in {} |-> FALSE]

\* A hostState as SetHosts creates it.  rows stands for doc.Rows and prev,
\* which record() keeps equal.
NewState == [lastTry |-> Zero, lastOK |-> Zero, failed |-> FALSE, lost |-> FALSE,
             rows |-> NoRows, since |-> NoTimes, known |-> NoFlags]

\* The inventory Main() starts with is not empty.
Init ==
    /\ now = 1
    /\ hosts \in (SUBSET Host) \ {{}}
    /\ st = [h \in hosts |-> NewState]
    /\ events = <<>>
    /\ roundAt = Zero
    /\ pc = "top"
    /\ queue = {} /\ fetching = [h \in {} |-> Zero] /\ roundStart = Zero
    /\ nextTick = 1 + Interval /\ tick = FALSE
    /\ stopping = FALSE

-----------------------------------------------------------------------------
(* Events *)

\* addEventLocked, for a sequence of events: keep the newest MaxEvents.
AddEvents(new) ==
    LET all == events \o new
        n   == Len(all)
    IN  IF n > MaxEvents THEN SubSeq(all, n - MaxEvents + 1, n) ELSE all

LostEvent(h, t) == [at |-> t, host |-> h, kind |-> "lost"]
BackEvent(h, t) == [at |-> t, host |-> h, kind |-> "back"]
StateEvent(h, t, r, from, to) ==
    [at |-> t, host |-> h, kind |-> "state", res |-> r, from |-> from, to |-> to]

\* Faulty: a host that never answered is marked, too.
LostUnheard(t) == {h \in hosts : ~st[h].lost /\ t - st[h].lastOK > LostAfter}

\* The hosts markLostLocked(t) marks.
NewlyLost(t) ==
    {h \in hosts : st[h].lastOK # Zero /\ ~st[h].lost /\ t - st[h].lastOK > LostAfter}

-----------------------------------------------------------------------------
(* The loop *)

\* Faulty: a host that left the inventory keeps its state.
SetHostsForgetsNone(hs) ==
    /\ hosts' = hs
    /\ st' = [h \in hs \cup hosts |-> IF h \in hosts THEN st[h] ELSE NewState]

\* SetHosts: a host that stays keeps its state, a new one starts blank.
SetHosts(hs) ==
    /\ hosts' = hs
    /\ st' = [h \in hs |-> IF h \in hosts THEN st[h] ELSE NewState]

\* The top of the loop: Reload, SetHosts, and the start of Round.
LoopTop ==
    /\ pc = "top"
    /\ \E hs \in SUBSET Host : SetHosts(hs)
    /\ queue' = hosts'
    /\ roundStart' = now
    /\ pc' = "round"
    /\ UNCHANGED <<now, events, roundAt, fetching, nextTick, tick, stopping>>

\* A slot of the semaphore is free: the next goroutine starts.
Launch(h) ==
    /\ pc = "round"
    /\ h \in queue
    /\ Cardinality(DOMAIN fetching) < Parallel
    /\ queue' = queue \ {h}
    /\ fetching' = [g \in DOMAIN fetching \cup {h} |->
                       IF g = h THEN [t0 |-> now, t1 |-> Zero, got |-> FALSE, doc |-> NoRows]
                                ELSE fetching[g]]
    /\ UNCHANGED <<now, hosts, st, events, roundAt, pc, roundStart, nextTick, tick, stopping>>

\* fetch() returns: a document, or an error (refused, timed out, not JSON,
\* cancelled).  t1 is taken here, before the lock.
Answer(h) ==
    /\ h \in DOMAIN fetching
    /\ fetching[h].t1 = Zero
    /\ \/ fetching' = [fetching EXCEPT ![h].t1 = now]
       \/ /\ ~stopping
          /\ \E d \in Doc :
                fetching' = [fetching EXCEPT ![h].t1 = now, ![h].got = TRUE, ![h].doc = d]
    /\ UNCHANGED <<now, hosts, st, events, roundAt, pc, queue, roundStart, nextTick, tick, stopping>>

\* The resources of a document that are not ok.
NotOKIn(d) == {r \in DOMAIN d : d[r] # "ok"}

\* Faulty: the streak starts anew with every document.
SinceNow(s, d, t) == [r \in NotOKIn(d) |-> t]

\* since: when the present streak of "not ok" began.
SinceOf(s, d, t) ==
    [r \in NotOKIn(d) |-> IF r \in DOMAIN s.since THEN s.since[r] ELSE t]

\* sinceKnown: the document before the streak showed the resource ok.
KnownOf(s, d) ==
    [r \in NotOKIn(d) |->
        IF r \in DOMAIN s.since THEN s.known[r]
        ELSE s.lastOK # Zero /\ r \in DOMAIN s.rows /\ s.rows[r] = "ok"]

\* Faulty: the lost mark survives an answer.
RecordedStillLost(s, d, t) ==
    [lastTry |-> t, lastOK |-> t, failed |-> FALSE, lost |-> s.lost, rows |-> d,
     since |-> SinceOf(s, d, t), known |-> KnownOf(s, d)]

\* Faulty: a row that the document left out is kept as the last one known.
RecordedKeepsRows(s, d, t) ==
    [lastTry |-> t, lastOK |-> t, failed |-> FALSE, lost |-> FALSE,
     rows |-> [r \in DOMAIN d \cup DOMAIN s.rows |-> IF r \in DOMAIN d THEN d[r] ELSE s.rows[r]],
     since |-> SinceOf(s, d, t), known |-> KnownOf(s, d)]

\* The hostState after a document d taken at t.
Recorded(s, d, t) ==
    [lastTry |-> t, lastOK |-> t, failed |-> FALSE, lost |-> FALSE, rows |-> d,
     since |-> SinceOf(s, d, t), known |-> KnownOf(s, d)]

\* The "back" event of record(), for a host that was marked lost.
Back(h, t) == IF st[h].lost THEN <<BackEvent(h, t)>> ELSE <<>>

\* Faulty: a recovery is not a change.
ChangedForWorse(s, d) ==
    {r \in NotOKIn(d) \cap DOMAIN s.rows : s.lastOK # Zero /\ s.rows[r] # d[r]}

\* The resources whose code differs from the document before.
Changed(s, d) ==
    {r \in DOMAIN d \cap DOMAIN s.rows : s.lastOK # Zero /\ s.rows[r] # d[r]}

\* The events record() adds for a document d of host h taken at t.
RecordEvents(h, d, t) ==
    LET s == st[h]
        inOrder == SetToSeq(Changed(s, d))
    IN  Back(h, t)
          \o [i \in 1..Len(inOrder) |->
                 StateEvent(h, t, inOrder[i], s.rows[inOrder[i]], d[inOrder[i]])]

\* The deferred end of a goroutine: it frees its slot and is done.
FreeSlot(h) == fetching' = [g \in DOMAIN fetching \ {h} |-> fetching[g]]

\* record(): the goroutine files its result and frees its slot.
Record(h) ==
    /\ h \in DOMAIN fetching
    /\ fetching[h].t1 # Zero
    /\ LET f == fetching[h]
       IN  \/ /\ h \notin DOMAIN st          \* the inventory changed meanwhile
              /\ UNCHANGED <<st, events>>
           \/ /\ h \in DOMAIN st /\ ~f.got
              /\ st' = [st EXCEPT ![h].lastTry = f.t1, ![h].failed = TRUE]
              /\ UNCHANGED events
           \/ /\ h \in DOMAIN st /\ f.got
              /\ st' = [st EXCEPT ![h] = Recorded(st[h], f.doc, f.t1)]
              /\ events' = AddEvents(RecordEvents(h, f.doc, f.t1))
    /\ FreeSlot(h)
    /\ UNCHANGED <<now, hosts, roundAt, pc, queue, roundStart, nextTick, tick, stopping>>

\* Faulty: the round ends once every goroutine has been started.
AllLaunched == queue = {}

\* wg.Wait returns.
AllDone == queue = {} /\ DOMAIN fetching = {}

\* The round is over; it is stamped and newly lost hosts are marked.
RoundEnd ==
    /\ pc = "round" /\ AllDone
    /\ roundAt' = now
    /\ st' = [h \in hosts |-> IF h \in NewlyLost(now) THEN [st[h] EXCEPT !.lost = TRUE] ELSE st[h]]
    /\ LET lost == SetToSeq(NewlyLost(now))
       IN  events' = AddEvents([i \in 1..Len(lost) |-> LostEvent(lost[i], now)])
    /\ pc' = "wait"
    /\ UNCHANGED <<now, hosts, queue, fetching, roundStart, nextTick, tick, stopping>>

\* The select at the bottom of the loop: either ready case may be taken.
Wake ==
    /\ pc = "wait" /\ tick
    /\ tick' = FALSE /\ pc' = "top"
    /\ UNCHANGED <<now, hosts, st, events, roundAt, queue, fetching, roundStart, nextTick, stopping>>

\* Faulty: a break that only leaves the select.
QuitSelect ==
    /\ pc = "wait" /\ stopping
    /\ pc' = "top"
    /\ UNCHANGED <<now, hosts, st, events, roundAt, queue, fetching, roundStart, nextTick, tick, stopping>>

Quit ==
    /\ pc = "wait" /\ stopping
    /\ pc' = "done"
    /\ UNCHANGED <<now, hosts, st, events, roundAt, queue, fetching, roundStart, nextTick, tick, stopping>>

-----------------------------------------------------------------------------
(* The environment *)

Signal ==
    /\ ~stopping
    /\ stopping' = TRUE
    /\ UNCHANGED <<now, hosts, st, events, roundAt, pc, queue, fetching, roundStart, nextTick, tick>>

\* A local step is ready; time waits for it.
LocalStepReady ==
    \/ pc = "top"
    \/ pc = "wait" /\ (tick \/ stopping)
    \/ pc = "round" /\ queue # {} /\ Cardinality(DOMAIN fetching) < Parallel
    \/ pc = "round" /\ AllDone

\* The latest time a goroutine can be where it is.  A cancelled request
\* returns at once.
Deadline(h) ==
    LET f == fetching[h]
    IN  IF f.t1 # Zero THEN f.t1 + Lag
        ELSE IF stopping THEN now ELSE f.t0 + FetchLimit

\* One unit of time passes; the ticker drops a tick its channel has no room for.
Advance ==
    /\ pc # "done" /\ now < MaxTime
    /\ ~LocalStepReady
    /\ \A h \in DOMAIN fetching : now < Deadline(h)
    /\ now' = now + 1
    /\ IF now' = nextTick
       THEN tick' = TRUE /\ nextTick' = nextTick + Interval
       ELSE UNCHANGED <<tick, nextTick>>
    /\ UNCHANGED <<hosts, st, events, roundAt, pc, queue, fetching, roundStart, stopping>>

Stopped == pc = "done" /\ UNCHANGED vars

LoopStep == LoopTop \/ RoundEnd \/ Wake \/ Quit \/ \E h \in Host : Launch(h)
FetchStep == \E h \in Host : Answer(h) \/ Record(h)
Next == LoopStep \/ FetchStep \/ Signal \/ Advance \/ Stopped

\* Every goroutine runs, every request ends (its context has a deadline),
\* and select picks a ready case at random, so not always the same one.
Fairness == WF_vars(LoopStep) /\ WF_vars(FetchStep) /\ SF_vars(Quit)

Spec == Init /\ [][Next]_vars /\ Fairness

-----------------------------------------------------------------------------
(* What /api/state and /health.txt say at time t *)

Status(h, t) ==
    IF st[h].lastOK = Zero \/ t - st[h].lastOK > LostAfter THEN "lost" ELSE "ok"

\* The code Snapshot shows for a row: a resource the agent left out has no data.
RowCode(h, r) == IF r \in DOMAIN st[h].rows THEN st[h].rows[r] ELSE "none"

\* The worst of the rows; a lost host shows none of them.
Severity(h, t) ==
    IF Status(h, t) = "lost" THEN "lost"
    ELSE LET shown == {"ok"} \cup {RowCode(h, r) : r \in Resource}
         IN  CHOOSE c \in shown : \A d \in shown : SevRank[d] <= SevRank[c]

Started == 1
LastProgress == IF roundAt = Zero THEN Started ELSE roundAt
Health(t) ==
    IF t - LastProgress > 3 * Interval THEN "crit"
    ELSE IF roundAt = Zero THEN "starting" ELSE "ok"

-----------------------------------------------------------------------------
(* Properties *)

Time == 0 .. MaxTime
HostState == [lastTry : Time, lastOK : Time, failed : BOOLEAN, lost : BOOLEAN, rows : Doc,
              since : UNION {[R -> Time] : R \in SUBSET Resource},
              known : UNION {[R -> BOOLEAN] : R \in SUBSET Resource}]
Fetch == [t0 : Time, t1 : Time, got : BOOLEAN, doc : Doc]

\* The type invariant.
TypeOK ==
    /\ now \in 1 .. MaxTime /\ roundAt \in Time /\ roundStart \in Time /\ nextTick \in Nat
    /\ hosts \in SUBSET Host /\ queue \in SUBSET Host
    /\ st \in [hosts -> HostState]
    /\ DOMAIN fetching \in SUBSET Host
    /\ \A h \in DOMAIN fetching : fetching[h] \in Fetch
    /\ pc \in {"top", "round", "wait", "done"}
    /\ tick \in BOOLEAN /\ stopping \in BOOLEAN

\* events.go, markLostLocked and record: the lost mark says exactly that the
\* host had answered before and was overdue when the last round ended, however
\* rounds, late answers and inventory changes interleave.
LostMarkExact ==
    \A h \in hosts :
        st[h].lost <=> st[h].lastOK # Zero /\ roundAt - st[h].lastOK > LostAfter

\* poller.go, record: rounds do not overlap, so a goroutine never finds that the
\* inventory dropped its host, and no answer is older than the last round.
RoundsAreSeparate ==
    /\ pc # "round" => queue = {} /\ DOMAIN fetching = {}
    /\ DOMAIN fetching \cup queue \subseteq hosts
    /\ DOMAIN fetching \cap queue = {}
    /\ \A h \in DOMAIN fetching : fetching[h].t0 >= roundAt

\* server.go, healthLine: when every host has a slot of its own, /health.txt does
\* not report that polling stopped while the loop runs, even if every request of
\* a round times out.
HealthHonest ==
    Parallel >= Cardinality(Host) /\ Lag = 0 /\ pc # "done" => Health(now) # "crit"

\* poller.go, Round: the semaphore and the wait group let every round end.
RoundEnds == pc = "round" ~> pc # "round"

\* server.go, loop: after SIGTERM the loop returns, although select may still
\* prefer a tick to the cancelled context.
StopsWhenAsked == stopping ~> pc = "done"

\* server.go and poller.go: neither a goroutine nor the order in which select looks
\* at its cases holds the loop up for ever.
Progress == RoundEnds /\ StopsWhenAsked

\* server.go:141 (comment of loop): requests time out before the interval is
\* over, so a round does not outlast the interval.
RoundFitsInterval == pc = "round" => now - roundStart <= Interval

\* events.go, recentEventsLocked: the events are listed oldest first.
EventsOldestFirst ==
    \A i, j \in 1..Len(events) : i < j => events[i].at <= events[j].at
=============================================================================
