---------------------------- MODULE FleetPollerProofs ----------------------------
(***************************************************************************)
(* Proofs about FleetPoller and FleetHistory, for any hosts, resources,    *)
(* flags and slots.  RoundsAreSeparate and LostMarkExact are inductive     *)
(* together with the types and the order of the times: an answer belongs   *)
(* to a request that was started after the last round ended, and is        *)
(* therefore never overdue at the time of that round.  HealthHonest        *)
(* follows from ClockInv, which bounds how far the clock can get from the  *)
(* start of a round.  What the page and the event list say rests on        *)
(* HostStep: a step blanks a host, leaves what it shows, or files one      *)
(* document for it together with the events of the changes it shows.       *)
(* The last part is about Inventory, for any hosts and number of edits:    *)
(* what is polled is what is in use, and a loaded inventory is marked      *)
(* stale as it is or replaced by a file without bad lines.                 *)
(***************************************************************************)
EXTENDS FleetHistory, Inventory, FiniteSetTheorems, TLAPS

\* What is known of the times: nothing is dated later than the clock, and an
\* answer not earlier than its request.
TimesInOrder ==
    /\ roundAt <= now /\ roundStart <= now
    /\ \A h \in hosts : st[h].lastOK <= now
    /\ \A h \in DOMAIN fetching :
          /\ 1 <= fetching[h].t0 /\ fetching[h].t0 <= now
          /\ fetching[h].t1 # Zero => fetching[h].t0 <= fetching[h].t1 /\ fetching[h].t1 <= now

\* A streak has a start exactly if it has a flag that says whether it is known.
KnownWithSince == \A h \in hosts : DOMAIN st[h].known = DOMAIN st[h].since

\* The inductive invariant.
IInv == TypeOK /\ RoundsAreSeparate /\ LostMarkExact /\ TimesInOrder /\ KnownWithSince

-----------------------------------------------------------------------------
(* Lemmas on types *)

\* poller.go, SetHosts: a new hostState is one.
LEMMA NewStateType == NewState \in HostState
<1>1. NoRows \in Doc
  <2>1. NoRows \in [{} -> Code]
    BY DEF NoRows
  <2> QED
    BY <2>1 DEF Doc
<1>2. NoTimes \in UNION {[R -> Time] : R \in SUBSET Resource}
  <2>1. NoTimes \in [{} -> Time]
    BY DEF NoTimes
  <2> QED
    BY <2>1
<1>3. NoFlags \in UNION {[R -> BOOLEAN] : R \in SUBSET Resource}
  <2>1. NoFlags \in [{} -> BOOLEAN]
    BY DEF NoFlags
  <2> QED
    BY <2>1
<1>4. Zero \in Time
  BY FlagsAssumption DEF Zero, Time
<1> QED
  BY <1>1, <1>2, <1>3, <1>4 DEF NewState, HostState

\* poller.go, record: what it files for an answer is a hostState, and keeps the
\* fields the lost mark depends on.
LEMMA RecordedType ==
    ASSUME NEW s \in HostState, NEW d \in Doc, NEW t \in Time, DOMAIN s.known = DOMAIN s.since
    PROVE  /\ Recorded(s, d, t) \in HostState
           /\ Recorded(s, d, t).lost = FALSE
           /\ Recorded(s, d, t).lastOK = t
           /\ DOMAIN Recorded(s, d, t).known = DOMAIN Recorded(s, d, t).since
<1>1. PICK R \in SUBSET Resource : d \in [R -> Code]
  BY DEF Doc
<1>2. NotOKIn(d) \in SUBSET Resource
  BY <1>1 DEF NotOKIn
<1>3. PICK S \in SUBSET Resource : s.since \in [S -> Time]
  BY DEF HostState
<1>4. PICK K \in SUBSET Resource : s.known \in [K -> BOOLEAN]
  BY DEF HostState
<1>5. SinceOf(s, d, t) \in [NotOKIn(d) -> Time]
  BY <1>3 DEF SinceOf
<1>6. KnownOf(s, d) \in [NotOKIn(d) -> BOOLEAN]
  <2> SUFFICES ASSUME NEW r \in NotOKIn(d), r \in DOMAIN s.since
               PROVE  s.known[r] \in BOOLEAN
    BY DEF KnownOf
  <2> QED
    BY <1>4
<1>7. SinceOf(s, d, t) \in UNION {[T -> Time] : T \in SUBSET Resource}
  BY <1>2, <1>5
<1>8. KnownOf(s, d) \in UNION {[T -> BOOLEAN] : T \in SUBSET Resource}
  BY <1>2, <1>6
<1> QED
  BY <1>5, <1>6, <1>7, <1>8 DEF Recorded, HostState
-----------------------------------------------------------------------------
(* The invariant holds at the start and is kept by every action *)

\* server.go, Main: the state before the first round.
LEMMA InitHolds == Init => IInv
<1> SUFFICES ASSUME Init PROVE IInv
  OBVIOUS
<1>1. TypeOK
  <2>1. hosts \in SUBSET Host /\ queue \in SUBSET Host
    BY DEF Init
  <2>2. st \in [hosts -> HostState]
    BY NewStateType DEF Init
  <2>3. DOMAIN fetching = {}
    BY DEF Init
  <2>4. /\ now \in 1 .. MaxTime /\ roundAt \in Time /\ roundStart \in Time
        /\ nextTick \in Nat
    BY FlagsAssumption DEF Init, Time, Zero
  <2>5. pc \in {"top", "round", "wait", "done"} /\ tick \in BOOLEAN /\ stopping \in BOOLEAN
    BY DEF Init
  <2> QED
    BY <2>1, <2>2, <2>3, <2>4, <2>5 DEF TypeOK
<1>2. RoundsAreSeparate
  BY DEF Init, RoundsAreSeparate
<1>3. LostMarkExact
  BY FlagsAssumption DEF Init, LostMarkExact, NewState, Zero
<1>4. TimesInOrder
  BY DEF Init, TimesInOrder, NewState, Zero
<1>5. KnownWithSince
  BY DEF Init, KnownWithSince, NewState, NoFlags, NoTimes
<1> QED
  BY <1>1, <1>2, <1>3, <1>4, <1>5 DEF IInv

\* server.go, loop: a host that stays keeps its state, a new one is blank, and no
\* goroutine of an earlier round is left.
LEMMA LoopTopKeeps == IInv /\ LoopTop => IInv'
<1> SUFFICES ASSUME IInv, LoopTop PROVE IInv'
  OBVIOUS
<1> USE DEF IInv, LoopTop
<1>1. PICK hs \in SUBSET Host : SetHosts(hs)
  OBVIOUS
<1>2. /\ hosts' = hs
      /\ st' = [h \in hs |-> IF h \in hosts THEN st[h] ELSE NewState]
  BY <1>1 DEF SetHosts
<1>3. queue = {} /\ DOMAIN fetching = {}
  BY DEF RoundsAreSeparate
<1>4. \A h \in hosts' : st'[h] = NewState \/ (h \in hosts /\ st'[h] = st[h])
  BY <1>2
<1>5. TypeOK'
  <2>1. st' \in [hosts' -> HostState]
    BY <1>2, NewStateType DEF TypeOK
  <2>2. now \in Time
    BY FlagsAssumption DEF TypeOK, Time
  <2> QED
    BY <1>2, <1>3, <2>1, <2>2 DEF TypeOK
<1>6. RoundsAreSeparate'
  BY <1>2, <1>3 DEF RoundsAreSeparate
<1>7. LostMarkExact'
  BY <1>4 DEF LostMarkExact, NewState
<1>8. TimesInOrder'
  BY <1>3, <1>4, FlagsAssumption DEF TimesInOrder, NewState, Zero, TypeOK, Time
<1>9. KnownWithSince'
  BY <1>4 DEF KnownWithSince, NewState, NoFlags, NoTimes
<1> QED
  BY <1>5, <1>6, <1>7, <1>8, <1>9

\* poller.go, Round: a new goroutine belongs to this round.
LEMMA LaunchKeeps ==
    ASSUME IInv, NEW h \in Host, Launch(h)
    PROVE  IInv'
<1> USE DEF IInv, Launch
<1>1. DOMAIN fetching' = DOMAIN fetching \cup {h}
  OBVIOUS
<1>2. fetching'[h] = [t0 |-> now, t1 |-> Zero, got |-> FALSE, doc |-> NoRows]
  OBVIOUS
<1>3. \A g \in DOMAIN fetching' : g = h \/ (g \in DOMAIN fetching /\ fetching'[g] = fetching[g])
  OBVIOUS
<1>4. TypeOK'
  <2>1. fetching'[h] \in Fetch
    <3>1. NoRows \in [{} -> Code]
      BY DEF NoRows
    <3>2. NoRows \in Doc
      BY <3>1 DEF Doc
    <3>3. now \in Time /\ Zero \in Time
      BY FlagsAssumption DEF TypeOK, Time, Zero
    <3> QED
      BY <1>2, <3>2, <3>3 DEF Fetch
  <2> QED
    BY <1>1, <1>3, <2>1 DEF TypeOK
<1>5. RoundsAreSeparate'
  <2>1. \A g \in DOMAIN fetching' : fetching'[g].t0 >= roundAt
    BY <1>2, <1>3, FlagsAssumption DEF RoundsAreSeparate, TimesInOrder, TypeOK, Time
  <2> QED
    BY <1>1, <2>1 DEF RoundsAreSeparate
<1>6. LostMarkExact'
  BY DEF LostMarkExact
<1>7. TimesInOrder'
  BY <1>2, <1>3 DEF TimesInOrder, TypeOK
<1>8. KnownWithSince'
  BY DEF KnownWithSince
<1> QED
  BY <1>4, <1>5, <1>6, <1>7, <1>8

\* poller.go, fetch: t1 is not earlier than t0.
LEMMA AnswerKeeps ==
    ASSUME IInv, NEW h \in Host, Answer(h)
    PROVE  IInv'
<1> USE DEF IInv
<1>0. /\ h \in DOMAIN fetching
      /\ UNCHANGED <<now, hosts, st, roundAt, pc, queue, roundStart, nextTick, tick, stopping>>
  BY DEF Answer
<1>1. now \in Time /\ now \in Int /\ now # Zero
  BY FlagsAssumption DEF TypeOK, Time, Zero
<1>2. PICK got \in BOOLEAN, doc \in Doc :
        fetching' = [fetching EXCEPT ![h] = [fetching[h] EXCEPT !.t1 = now, !.got = got, !.doc = doc]]
  <2>1. fetching[h] \in Fetch
    BY <1>0 DEF TypeOK
  <2>2. CASE fetching' = [fetching EXCEPT ![h].t1 = now]
    <3>1. [fetching[h] EXCEPT !.t1 = now] =
            [fetching[h] EXCEPT !.t1 = now, !.got = fetching[h].got, !.doc = fetching[h].doc]
      BY <2>1 DEF Fetch
    <3>2. fetching[h].got \in BOOLEAN /\ fetching[h].doc \in Doc
      BY <2>1 DEF Fetch
    <3> QED
      BY <2>2, <3>1, <3>2
  <2>3. CASE \E d \in Doc :
               fetching' = [fetching EXCEPT ![h].t1 = now, ![h].got = TRUE, ![h].doc = d]
    <3>1. PICK d \in Doc :
               fetching' = [fetching EXCEPT ![h].t1 = now, ![h].got = TRUE, ![h].doc = d]
      BY <2>3
    <3>2. fetching' = [fetching EXCEPT ![h] = [fetching[h] EXCEPT !.t1 = now, !.got = TRUE, !.doc = d]]
      BY <2>1, <3>1 DEF Fetch
    <3> QED
      BY <3>2
  <2> QED
    BY <2>2, <2>3 DEF Answer
<1>3. DOMAIN fetching' = DOMAIN fetching
  BY <1>2
<1>4. /\ fetching'[h] \in Fetch
      /\ fetching'[h].t0 = fetching[h].t0
      /\ fetching'[h].t1 = now
  BY <1>0, <1>1, <1>2 DEF TypeOK, Fetch
<1>5. \A g \in DOMAIN fetching : g = h \/ fetching'[g] = fetching[g]
  BY <1>2
<1>6. TypeOK'
  BY <1>0, <1>3, <1>4, <1>5 DEF TypeOK
<1>7. RoundsAreSeparate'
  BY <1>0, <1>3, <1>4, <1>5 DEF RoundsAreSeparate
<1>8. LostMarkExact'
  BY <1>0 DEF LostMarkExact
<1>9. TimesInOrder'
  BY <1>0, <1>1, <1>3, <1>4, <1>5 DEF TimesInOrder
<1>10. KnownWithSince'
  BY <1>0 DEF KnownWithSince
<1> QED
  BY <1>6, <1>7, <1>8, <1>9, <1>10

\* poller.go, record: a failed request.
LEMMA FailedIs ==
    ASSUME NEW s \in HostState, NEW t \in Time
    PROVE  LET n == [s EXCEPT !.lastTry = t, !.failed = TRUE]
           IN  /\ n \in HostState /\ n.lost = s.lost /\ n.lastOK = s.lastOK
               /\ n.known = s.known /\ n.since = s.since
BY DEF HostState

\* poller.go, record: only the state of the host itself changes.  An error leaves
\* lastOK and the lost mark alone; an answer is no older than the last round.
LEMMA RecordKeeps ==
    ASSUME IInv, NEW h \in Host, Record(h)
    PROVE  IInv'
<1> USE DEF IInv, Record
<1> DEFINE f == fetching[h]
<1>1. h \in hosts /\ f \in Fetch
  BY DEF RoundsAreSeparate, TypeOK
<1>2. /\ DOMAIN fetching' = DOMAIN fetching \ {h}
      /\ \A g \in DOMAIN fetching' : fetching'[g] = fetching[g]
  BY DEF FreeSlot
<1>3. st \in [hosts -> HostState] /\ hosts' = hosts
  BY DEF TypeOK
<1>4. f.t1 \in Time /\ f.doc \in Doc
  BY <1>1 DEF Fetch
<1>5. PICK new \in HostState :
        /\ st' = [st EXCEPT ![h] = new]
        /\ DOMAIN new.known = DOMAIN new.since
        /\ \/ new.lost = st[h].lost /\ new.lastOK = st[h].lastOK
           \/ new.lost = FALSE /\ new.lastOK = f.t1
  <2>1. CASE ~f.got
    <3> DEFINE n == [st[h] EXCEPT !.lastTry = f.t1, !.failed = TRUE]
    <3>1. st' = [st EXCEPT ![h].lastTry = f.t1, ![h].failed = TRUE]
      BY <1>1, <1>3, <2>1
    <3>2. st' = [st EXCEPT ![h] = n]
      BY <1>1, <1>3, <3>1 DEF HostState
    <3>3. st[h] \in HostState
      BY <1>1, <1>3
    <3>4. /\ n \in HostState /\ n.lost = st[h].lost /\ n.lastOK = st[h].lastOK
          /\ n.known = st[h].known /\ n.since = st[h].since
      BY <1>4, <3>3, FailedIs
    <3>5. DOMAIN n.known = DOMAIN n.since
      BY <1>1, <3>4 DEF KnownWithSince
    <3> QED
      BY <3>2, <3>4, <3>5
  <2>2. CASE f.got
    <3>1. st' = [st EXCEPT ![h] = Recorded(st[h], f.doc, f.t1)]
      BY <1>1, <1>3, <2>2
    <3>2. st[h] \in HostState /\ DOMAIN st[h].known = DOMAIN st[h].since
      BY <1>1, <1>3 DEF KnownWithSince
    <3> DEFINE n == Recorded(st[h], f.doc, f.t1)
    <3>3. /\ n \in HostState /\ n.lost = FALSE /\ n.lastOK = f.t1
          /\ DOMAIN n.known = DOMAIN n.since
      <4> HIDE DEF IInv, Record, f
      <4> QED
        BY <1>4, <3>2, RecordedType, ZenonT(30)
    <3> HIDE DEF n
    <3>4. st' = [st EXCEPT ![h] = n]
      BY <3>1 DEF n
    <3> QED
      BY <3>3, <3>4
  <2> QED
    BY <2>1, <2>2
<1>6. /\ st'[h] = new
      /\ \A g \in hosts : g = h \/ st'[g] = st[g]
  BY <1>1, <1>3, <1>5
<1>7. /\ roundAt \in Int /\ f.t0 \in Int /\ f.t1 \in Int /\ now \in Int
      /\ roundAt <= f.t0 /\ f.t0 <= f.t1 /\ f.t1 <= now
  BY <1>1, FlagsAssumption DEF RoundsAreSeparate, TimesInOrder, TypeOK, Fetch, Time
<1>8. TypeOK'
  BY <1>2, <1>3, <1>5 DEF TypeOK
<1>9. RoundsAreSeparate'
  BY <1>2, <1>3 DEF RoundsAreSeparate
<1>10. LostMarkExact'
  <2>1. ~(roundAt - f.t1 > LostAfter)
    BY <1>7, FlagsAssumption
  <2> QED
    BY <1>1, <1>3, <1>5, <1>6, <2>1 DEF LostMarkExact
<1>11. TimesInOrder'
  BY <1>1, <1>2, <1>3, <1>5, <1>6, <1>7 DEF TimesInOrder
<1>12. KnownWithSince'
  BY <1>1, <1>3, <1>5, <1>6 DEF KnownWithSince
<1> QED
  BY <1>8, <1>9, <1>10, <1>11, <1>12

\* events.go, markLostLocked: at the end of a round the marks become exact for
\* that round; a host already marked is still overdue, for roundAt only grows.
LEMMA RoundEndKeeps == IInv /\ RoundEnd => IInv'
<1> SUFFICES ASSUME IInv, RoundEnd PROVE IInv'
  OBVIOUS
<1> USE DEF IInv
<1>1. /\ roundAt' = now /\ queue = {} /\ DOMAIN fetching = {} /\ pc' = "wait"
      /\ st' = [h \in hosts |-> IF h \in NewlyLost(now) THEN [st[h] EXCEPT !.lost = TRUE] ELSE st[h]]
      /\ UNCHANGED <<now, hosts, queue, fetching, roundStart, nextTick, tick, stopping>>
  BY DEF RoundEnd, AllDone
<1>2. /\ now \in Nat /\ roundAt \in Nat /\ roundAt <= now /\ LostAfter \in Nat
      /\ now \in Time
  BY FlagsAssumption DEF TypeOK, Time, TimesInOrder
<1>3. ASSUME NEW h \in hosts
      PROVE  /\ st[h] \in HostState /\ st[h].lastOK \in Nat
             /\ st'[h] \in HostState
             /\ st'[h].lastOK = st[h].lastOK
             /\ st'[h].known = st[h].known /\ st'[h].since = st[h].since
             /\ st'[h].lost = (st[h].lost \/ h \in NewlyLost(now))
  <2>1. st[h] \in HostState
    BY DEF TypeOK
  <2>2. st[h].lastOK \in Nat
    BY <2>1, FlagsAssumption DEF HostState, Time
  <2>3. CASE h \in NewlyLost(now)
    <3>1. st'[h] = [st[h] EXCEPT !.lost = TRUE]
      BY <1>1, <2>3
    <3> HIDE DEF IInv
    <3> QED
      BY <2>1, <2>2, <2>3, <3>1 DEF HostState
  <2>4. CASE h \notin NewlyLost(now)
    <3>1. st'[h] = st[h]
      BY <1>1, <2>4
    <3>2. st[h].lost \in BOOLEAN
      BY <2>1 DEF HostState
    <3> QED
      BY <2>1, <2>2, <2>4, <3>1, <3>2
  <2> QED
    BY <2>3, <2>4
<1>4. TypeOK'
  <2>1. st' \in [hosts' -> HostState]
    BY <1>1, <1>3
  <2> QED
    BY <1>1, <1>2, <2>1 DEF TypeOK
<1>5. RoundsAreSeparate'
  BY <1>1 DEF RoundsAreSeparate
<1>6. LostMarkExact'
  <2> SUFFICES ASSUME NEW h \in hosts
               PROVE  st'[h].lost <=> st'[h].lastOK # Zero /\ now - st'[h].lastOK > LostAfter
    BY <1>1 DEF LostMarkExact
  <2>1. h \in NewlyLost(now) <=>
          st[h].lastOK # Zero /\ ~st[h].lost /\ now - st[h].lastOK > LostAfter
    BY DEF NewlyLost
  <2>2. st[h].lost <=> st[h].lastOK # Zero /\ roundAt - st[h].lastOK > LostAfter
    BY DEF LostMarkExact
  <2>3. roundAt - st[h].lastOK > LostAfter => now - st[h].lastOK > LostAfter
    BY <1>2, <1>3
  <2>4. /\ st'[h].lastOK = st[h].lastOK
        /\ st'[h].lost <=> st[h].lost \/ h \in NewlyLost(now)
    BY <1>3
  <2> QED
    BY <2>1, <2>2, <2>3, <2>4
<1>7. TimesInOrder'
  BY <1>1, <1>2, <1>3 DEF TimesInOrder
<1>8. KnownWithSince'
  BY <1>1, <1>3 DEF KnownWithSince
<1> QED
  BY <1>4, <1>5, <1>6, <1>7, <1>8

\* server.go, loop; the clock: the rest of the actions touch neither the hosts nor
\* the goroutines, and time only moves on.
LEMMA OthersKeep ==
    IInv /\ (Wake \/ Quit \/ Signal \/ Advance \/ UNCHANGED vars) => IInv'
<1> SUFFICES ASSUME IInv, Wake \/ Quit \/ Signal \/ Advance \/ UNCHANGED vars
             PROVE  IInv'
  OBVIOUS
<1> USE DEF IInv
<1>1. UNCHANGED <<hosts, st, roundAt, queue, fetching, roundStart>>
  BY DEF Wake, Quit, Signal, Advance, vars
<1>2. now' \in 1 .. MaxTime /\ now <= now' /\ nextTick' \in Nat
  BY FlagsAssumption DEF Wake, Quit, Signal, Advance, vars, TypeOK
<1>3. /\ pc' \in {"top", "round", "wait", "done"} /\ tick' \in BOOLEAN /\ stopping' \in BOOLEAN
      /\ pc' # "round" => pc # "round"
  BY DEF Wake, Quit, Signal, Advance, vars, TypeOK
<1>4. TypeOK'
  BY <1>1, <1>2, <1>3 DEF TypeOK
<1>5. RoundsAreSeparate'
  <2>1. pc' # "round" => queue = {} /\ DOMAIN fetching = {}
    BY <1>3 DEF RoundsAreSeparate
  <2> QED
    BY <1>1, <2>1 DEF RoundsAreSeparate
<1>6. LostMarkExact'
  BY <1>1 DEF LostMarkExact
<1>7. TimesInOrder'
  <2>1. now \in Int /\ now' \in Int /\ roundAt \in Int /\ roundStart \in Int
    BY <1>2, FlagsAssumption DEF TypeOK, Time
  <2>2. \A h \in hosts : st[h].lastOK \in Int
    BY FlagsAssumption DEF TypeOK, HostState, Time
  <2>3. \A h \in DOMAIN fetching : fetching[h].t0 \in Int /\ fetching[h].t1 \in Int
    BY FlagsAssumption DEF TypeOK, Fetch, Time
  <2> QED
    BY <1>1, <1>2, <2>1, <2>2, <2>3 DEF TimesInOrder
<1>8. KnownWithSince'
  BY <1>1 DEF KnownWithSince
<1> QED
  BY <1>4, <1>5, <1>6, <1>7, <1>8

\* Every step of the poller keeps the invariant.
LEMMA StepKeeps == IInv /\ [Next]_vars => IInv'
<1> SUFFICES ASSUME IInv, [Next]_vars PROVE IInv'
  OBVIOUS
<1>1. CASE LoopTop
  BY <1>1, LoopTopKeeps
<1>2. CASE RoundEnd
  BY <1>2, RoundEndKeeps
<1>3. CASE \E h \in Host : Launch(h)
  BY <1>3, LaunchKeeps
<1>4. CASE \E h \in Host : Answer(h)
  BY <1>4, AnswerKeeps
<1>5. CASE \E h \in Host : Record(h)
  BY <1>5, RecordKeeps
<1>6. CASE Wake \/ Quit \/ Signal \/ Advance \/ Stopped \/ UNCHANGED vars
  BY <1>6, OthersKeep DEF Stopped
<1> QED
  BY <1>1, <1>2, <1>3, <1>4, <1>5, <1>6 DEF Next, LoopStep, FetchStep

-----------------------------------------------------------------------------
(* The theorems *)

\* The invariant holds in every state.
LEMMA InvariantHolds == Spec => []IInv
<1>1. Init => IInv
  BY InitHolds
<1>2. IInv /\ [Next]_vars => IInv'
  BY StepKeeps
<1> QED
  BY <1>1, <1>2, PTL DEF Spec

\* The type invariant of the poller.
THEOREM TypeCorrect == Spec => []TypeOK
<1>1. IInv => TypeOK
  BY DEF IInv
<1> QED
  BY <1>1, InvariantHolds, PTL

\* poller.go, Round and record: for any number of hosts and slots, rounds never
\* overlap, and no goroutine files a result for a host that is gone.
THEOREM RoundsSeparate == Spec => []RoundsAreSeparate
<1>1. IInv => RoundsAreSeparate
  BY DEF IInv
<1> QED
  BY <1>1, InvariantHolds, PTL

\* events.go, markLostLocked and record: for any number of hosts, the lost mark is
\* exactly "had answered, and was overdue when the last round ended".
THEOREM LostMarks == Spec => []LostMarkExact
<1>1. IInv => LostMarkExact
  BY DEF IInv
<1> QED
  BY <1>1, InvariantHolds, PTL
-----------------------------------------------------------------------------
(* How far the clock can get: HealthHonest *)

\* Every host has a slot, and nobody waits for the lock.
Ample == Parallel >= Cardinality(Host) /\ Lag = 0

\* The ticker is never more than Interval away, a round starts within Interval of
\* the last progress, launches all its hosts at once, and lasts as long as a
\* request may; after it the loop waits for the next tick at most.
ClockInv ==
    /\ now < nextTick /\ nextTick <= now + Interval
    /\ pc = "top" => now - LastProgress <= Interval
    /\ pc = "round" => /\ roundStart - LastProgress <= Interval
                       /\ now <= roundStart + FetchLimit
                       /\ queue # {} => now = roundStart
    /\ \A h \in DOMAIN fetching : fetching[h].t0 = roundStart
    /\ pc = "wait" => /\ roundAt # Zero /\ now - roundAt <= Interval
                      /\ ~tick => nextTick <= roundAt + Interval

\* poller.go, Round: while a host waits for its goroutine, a slot is free.
LEMMA SlotIsFree ==
    ASSUME IInv, Ample, queue # {}
    PROVE  Cardinality(DOMAIN fetching) < Parallel
<1>1. IsFiniteSet(Host) /\ DOMAIN fetching \in SUBSET Host
  BY FlagsAssumption DEF IInv, TypeOK
<1>2. DOMAIN fetching # Host
  BY DEF IInv, TypeOK, RoundsAreSeparate
<1>3. /\ Cardinality(DOMAIN fetching) \in Nat /\ Cardinality(Host) \in Nat
      /\ Cardinality(DOMAIN fetching) <= Cardinality(Host)
      /\ Cardinality(DOMAIN fetching) # Cardinality(Host)
  BY <1>1, <1>2, FS_Subset, FS_CardinalityType
<1> QED
  BY <1>3, FlagsAssumption DEF Ample

\* The clock and the times of the loop are numbers.
LEMMA ClockTypes ==
    ASSUME IInv
    PROVE  /\ now \in Nat /\ now # 0 /\ roundAt \in Nat /\ roundStart \in Nat /\ nextTick \in Nat
           /\ Interval \in Nat /\ Timeout \in Nat /\ Timeout # 0 /\ Timeout < Interval
           /\ FetchLimit \in Nat /\ FetchLimit = 2 * Timeout
           /\ LastProgress \in Nat
           /\ roundAt <= now
BY FlagsAssumption DEF IInv, TypeOK, Time, TimesInOrder, FetchLimit, LastProgress, Started

\* server.go, loop: the first tick is one interval away.
LEMMA ClockInit == Init => ClockInv
BY FlagsAssumption DEF Init, ClockInv, LastProgress, Started, Zero

\* server.go, loop and poller.go, Round: local steps take no time.
LEMMA LoopKeepsClock ==
    ASSUME IInv, Ample, ClockInv,
           LoopTop \/ RoundEnd \/ Wake \/ Quit \/ Signal \/ UNCHANGED vars
    PROVE  ClockInv'
<1> USE ClockTypes
<1>1. CASE LoopTop
  <2>1. /\ roundStart' = now /\ pc = "top" /\ pc' = "round"
        /\ UNCHANGED <<now, roundAt, fetching, nextTick, tick>>
    BY <1>1 DEF LoopTop
  <2>2. DOMAIN fetching = {}
    BY <2>1 DEF IInv, RoundsAreSeparate
  <2> QED
    BY <2>1, <2>2 DEF ClockInv, LastProgress
<1>2. CASE RoundEnd
  <2>1. /\ roundAt' = now /\ pc' = "wait" /\ DOMAIN fetching = {}
        /\ UNCHANGED <<now, roundStart, fetching, nextTick, tick>>
    BY <1>2 DEF RoundEnd, AllDone
  <2> QED
    BY <2>1 DEF ClockInv, Zero
<1>3. CASE Wake
  BY <1>3 DEF Wake, ClockInv, LastProgress
<1>4. CASE Quit
  BY <1>4 DEF Quit, ClockInv
<1>5. CASE Signal
  BY <1>5 DEF Signal, ClockInv, LastProgress
<1>6. CASE UNCHANGED vars
  BY <1>6 DEF vars, ClockInv, LastProgress
<1> QED
  BY <1>1, <1>2, <1>3, <1>4, <1>5, <1>6

\* poller.go, Round, fetch and record: a goroutine starts with its round.
LEMMA FetchKeepsClock ==
    ASSUME IInv, Ample, ClockInv, NEW h \in Host,
           Launch(h) \/ Answer(h) \/ Record(h)
    PROVE  ClockInv'
<1>1. CASE Launch(h)
  <2>1. /\ pc = "round" /\ now = roundStart /\ queue' \subseteq queue
        /\ UNCHANGED <<now, roundAt, pc, roundStart, nextTick, tick>>
    BY <1>1 DEF Launch, ClockInv
  <2>2. \A g \in DOMAIN fetching' : fetching'[g].t0 = roundStart
    BY <1>1, <2>1 DEF Launch, ClockInv
  <2> QED
    BY <2>1, <2>2 DEF ClockInv, LastProgress
<1>2. CASE Answer(h)
  <2>1. UNCHANGED <<now, roundAt, pc, queue, roundStart, nextTick, tick>>
    BY <1>2 DEF Answer
  <2>2. \A g \in DOMAIN fetching' : g \in DOMAIN fetching /\ fetching'[g].t0 = fetching[g].t0
    <3>1. \A g \in DOMAIN fetching : fetching[g] \in Fetch
      BY DEF IInv, TypeOK
    <3>2. CASE fetching' = [fetching EXCEPT ![h].t1 = now]
      BY <3>1, <3>2 DEF Fetch
    <3>3. ASSUME NEW d \in Doc,
                 fetching' = [fetching EXCEPT ![h].t1 = now, ![h].got = TRUE, ![h].doc = d]
          PROVE  \A g \in DOMAIN fetching' :
                    g \in DOMAIN fetching /\ fetching'[g].t0 = fetching[g].t0
      BY <3>1, <3>3 DEF Fetch
    <3> QED
      BY <1>2, <3>2, <3>3 DEF Answer
  <2> QED
    BY <2>1, <2>2 DEF ClockInv, LastProgress
<1>3. CASE Record(h)
  <2>1. UNCHANGED <<now, roundAt, pc, queue, roundStart, nextTick, tick>>
    BY <1>3 DEF Record
  <2>2. \A g \in DOMAIN fetching' : g \in DOMAIN fetching /\ fetching'[g].t0 = fetching[g].t0
    BY <1>3 DEF Record, FreeSlot
  <2> QED
    BY <2>1, <2>2 DEF ClockInv, LastProgress
<1> QED
  BY <1>1, <1>2, <1>3

\* The clock: time passes in a round only while a request is under way, and
\* between rounds only while the ticker has not fired.
LEMMA AdvanceKeepsClock ==
    ASSUME IInv, Ample, ClockInv, Advance
    PROVE  ClockInv'
<1> USE ClockTypes
<1>1. /\ now' = now + 1 /\ ~LocalStepReady
      /\ \A h \in DOMAIN fetching : now < Deadline(h)
      /\ UNCHANGED <<roundAt, pc, queue, fetching, roundStart>>
  BY DEF Advance
<1>2. /\ now' < nextTick' /\ nextTick' <= now' + Interval
      /\ ~tick' => nextTick' = nextTick /\ ~tick
  BY <1>1 DEF Advance, ClockInv
<1>3. pc # "top"
  BY <1>1 DEF LocalStepReady
<1>4. CASE pc = "round"
  <2>1. queue = {}
    BY <1>1, <1>4, SlotIsFree DEF LocalStepReady
  <2>2. PICK h \in DOMAIN fetching : now < Deadline(h)
    BY <1>1, <1>4, <2>1 DEF LocalStepReady, AllDone
  <2>3. /\ fetching[h].t0 \in Nat /\ fetching[h].t1 \in Nat
        /\ fetching[h].t1 # Zero => fetching[h].t1 <= now
        /\ fetching[h].t0 = roundStart
    BY FlagsAssumption DEF IInv, TypeOK, Fetch, Time, TimesInOrder, ClockInv
  <2>4. now < roundStart + FetchLimit
    BY <2>2, <2>3 DEF Deadline, Ample
  <2> QED
    BY <1>1, <1>2, <1>4, <2>1, <2>4 DEF ClockInv, LastProgress
<1>5. CASE pc = "wait"
  <2>1. ~tick
    BY <1>1, <1>5 DEF LocalStepReady
  <2>2. now + 1 <= nextTick /\ nextTick <= roundAt + Interval
    BY <1>5, <2>1 DEF ClockInv
  <2> QED
    BY <1>1, <1>2, <1>5, <2>2 DEF ClockInv, LastProgress
<1>6. CASE pc = "done"
  BY <1>6 DEF Advance
<1> QED
  BY <1>3, <1>4, <1>5, <1>6 DEF IInv, TypeOK

\* server.go, healthLine: for any number of hosts and any flags Main() lets through,
\* /health.txt is not critical while the loop runs, if every host has a slot.
THEOREM HealthIsHonest == Spec => []HealthHonest
<1>1. Init /\ Ample => ClockInv
  BY ClockInit
<1>2. IInv /\ Ample /\ ClockInv /\ [Next]_vars => ClockInv'
  BY LoopKeepsClock, FetchKeepsClock, AdvanceKeepsClock
     DEF Next, LoopStep, FetchStep, Stopped
<1>3. IInv /\ (Ample => ClockInv) => HealthHonest
  <2> SUFFICES ASSUME IInv, Ample, ClockInv, pc # "done" PROVE Health(now) # "crit"
    BY DEF HealthHonest, Ample
  <2>1. ~(now - LastProgress > 3 * Interval)
    BY ClockTypes DEF ClockInv, IInv, TypeOK, LastProgress
  <2> QED
    BY <2>1 DEF Health
<1>4. (Ample => ClockInv) /\ IInv /\ [Next]_vars => (Ample => ClockInv)'
  BY <1>2 DEF Ample
<1>5. Init => (Ample => ClockInv)
  BY <1>1
<1> QED
  BY <1>3, <1>4, <1>5, InvariantHolds, PTL DEF Spec
-----------------------------------------------------------------------------
(* What a step may do to one host and to the event list *)

\* A set turned into a sequence has the members of the set, each once, and no others.
LEMMA SetToSeqMembers ==
    ASSUME NEW S, IsFiniteSet(S)
    PROVE  /\ SetToSeq(S) \in Seq(S)
           /\ \A x \in S : \E i \in 1..Len(SetToSeq(S)) : SetToSeq(S)[i] = x
           /\ \A i, k \in 1..Len(SetToSeq(S)) : SetToSeq(S)[i] = SetToSeq(S)[k] => i = k
<1> DEFINE n == Cardinality(S)
           q == SetToSeq(S)
<1>1. n \in Nat /\ ExistsBijection(1..n, S)
  BY FS_CardinalityType
<1>2. PICK f : f \in Bijection(1..n, S)
  BY <1>1 DEF ExistsBijection
<1>3. f \in [1..n -> S] /\ IsInjective(f)
  BY <1>2 DEF Bijection, Injection
<1>4. q \in [1..n -> S] /\ IsInjective(q)
  BY <1>3 DEF SetToSeq
<1>5. q \in Injection(1..n, S)
  BY <1>4 DEF Injection
<1>6. Cardinality(1..n) = Cardinality(S)
  BY <1>1, FS_Interval
<1>7. q \in Surjection(1..n, S)
  BY <1>5, <1>6, FS_Injection
<1>8. \A x \in S : \E i \in 1..n : q[i] = x
  BY <1>7 DEF Surjection
<1>9. q \in Seq(S) /\ Len(q) = n
  BY <1>1, <1>4
<1>10. \A i, k \in 1..n : q[i] = q[k] => i = k
  BY <1>4 DEF IsInjective
<1> QED
  BY <1>8, <1>9, <1>10

Event == [at : Time, host : Host, kind : {"lost", "back"}]
           \cup [at : Time, host : Host, kind : {"state"}, res : Resource, from : Code, to : Code]

EventsOK == events \in Seq(Event) /\ Len(events) <= MaxEvents

\* events.go, addEventLocked: the list stays within its limit, and while it is not
\* full nothing has been dropped.
LEMMA AddEventsKeeps ==
    ASSUME EventsOK, NEW new \in Seq(Event)
    PROVE  /\ AddEvents(new) \in Seq(Event) /\ Len(AddEvents(new)) <= MaxEvents
           /\ Len(AddEvents(new)) < MaxEvents =>
                 AddEvents(new) = events \o new /\ Len(events) < MaxEvents
<1> DEFINE all == events \o new
           n   == Len(all)
<1>1. all \in Seq(Event) /\ n \in Nat /\ n = Len(events) + Len(new) /\ MaxEvents \in Nat \ {0}
  BY FlagsAssumption DEF EventsOK
<1>2. CASE n > MaxEvents
  <2>1. AddEvents(new) = SubSeq(all, n - MaxEvents + 1, n)
    BY <1>2 DEF AddEvents
  <2>2. /\ SubSeq(all, n - MaxEvents + 1, n) \in Seq(Event)
        /\ Len(SubSeq(all, n - MaxEvents + 1, n)) = MaxEvents
    <3> HIDE DEF all, n
    <3>1. all \in Seq(Event) /\ n \in Nat /\ n = Len(all) /\ n > MaxEvents /\ MaxEvents \in Nat \ {0}
      BY <1>1, <1>2 DEF n
    <3> QED
      BY <3>1
  <2>3. AddEvents(new) \in Seq(Event) /\ Len(AddEvents(new)) = MaxEvents
    BY <2>1, <2>2
  <2> QED
    BY <1>1, <2>3
<1>3. CASE ~(n > MaxEvents)
  <2>1. AddEvents(new) = all
    BY <1>3 DEF AddEvents
  <2>2. Len(events) \in Nat /\ Len(new) \in Nat
    BY DEF EventsOK
  <2>3. all \in Seq(Event) /\ Len(all) <= MaxEvents
    BY <1>1, <1>3
  <2>4. Len(all) < MaxEvents => Len(events) < MaxEvents
    <3> HIDE DEF all
    <3>1. Len(all) = Len(events) + Len(new)
      BY <1>1 DEF all
    <3> QED
      BY <1>1, <2>2, <3>1
  <2> QED
    BY <2>1, <2>3, <2>4
<1> QED
  BY <1>2, <1>3

\* The events new of a document d of host h, filed at t, are one state event for each
\* change; there is no other state event among them.
Tells(h, d, t, new) ==
    \E pos \in [Changed(st[h], d) -> 1..Len(new)] :
        /\ \A r \in Changed(st[h], d) : new[pos[r]] = StateEvent(h, t, r, st[h].rows[r], d[r])
        /\ \A j \in 1..Len(new) : new[j].kind = "state" =>
              new[j].host = h /\ \E r \in Changed(st[h], d) : pos[r] = j

\* poller.go, record: the changes between the document before and this one are
\* the state events, after the event of a return.
LEMMA RecordEventsComplete ==
    ASSUME NEW h \in Host, NEW d \in Doc, NEW t \in Time, st[h] \in HostState
    PROVE  /\ RecordEvents(h, d, t) \in Seq(Event)
           /\ Tells(h, d, t, RecordEvents(h, d, t))
<1> DEFINE s == st[h]
           q == SetToSeq(Changed(s, d))
           b == Back(h, t)
           e == [i \in 1..Len(q) |-> StateEvent(h, t, q[i], s.rows[q[i]], d[q[i]])]
<1>1. PICK R \in SUBSET Resource : d \in [R -> Code]
  BY DEF Doc
<1>2. PICK Q \in SUBSET Resource : s.rows \in [Q -> Code]
  BY DEF Doc, HostState
<1>3. Changed(s, d) \in SUBSET Resource
  BY <1>1 DEF Changed
<1>4. \A r \in Changed(s, d) : d[r] \in Code /\ s.rows[r] \in Code
  BY <1>1, <1>2 DEF Changed
<1>5. IsFiniteSet(Changed(s, d))
  BY <1>3, FlagsAssumption, FS_Subset
<1>6. /\ q \in Seq(Changed(s, d))
      /\ \A r \in Changed(s, d) : \E i \in 1..Len(q) : q[i] = r
      /\ \A i, k \in 1..Len(q) : q[i] = q[k] => i = k
  <2> HIDE DEF s
  <2> QED
    BY <1>5, SetToSeqMembers
<1>7. \A r \in Changed(s, d) : StateEvent(h, t, r, s.rows[r], d[r]) \in Event
  BY <1>3, <1>4 DEF StateEvent, Event
<1>8. Len(q) \in Nat /\ \A i \in 1..Len(q) : q[i] \in Changed(s, d)
  BY <1>6
<1>9. e \in Seq(Event) /\ Len(e) = Len(q)
  <2>1. e \in [1..Len(q) -> Event]
    BY <1>7, <1>8
  <2> QED
    BY <1>8, <2>1
<1>10. b \in Seq(Event) /\ \A j \in 1..Len(b) : b[j].kind = "back"
  <2>1. BackEvent(h, t) \in Event /\ BackEvent(h, t).kind = "back"
    BY DEF BackEvent, Event
  <2> QED
    BY <2>1 DEF Back
<1>11. RecordEvents(h, d, t) = b \o e
  BY DEF RecordEvents
<1>12. \A i \in 1..Len(q) : e[i] = StateEvent(h, t, q[i], s.rows[q[i]], d[q[i]])
  OBVIOUS
<1>13. /\ b \o e \in Seq(Event) /\ Len(b) \in Nat /\ Len(b \o e) = Len(b) + Len(q)
       /\ \A j \in 1..Len(b) : (b \o e)[j] = b[j]
       /\ \A i \in 1..Len(q) : Len(b) + i \in 1..Len(b \o e) /\ (b \o e)[Len(b) + i] = e[i]
       /\ \A j \in 1..Len(b \o e) : j \notin 1..Len(b) => \E i \in 1..Len(q) : j = Len(b) + i
  <2> HIDE DEF b, e, q
  <2>1. /\ b \o e \in Seq(Event) /\ Len(b) \in Nat /\ Len(b \o e) = Len(b) + Len(q)
        /\ \A j \in 1..Len(b) : (b \o e)[j] = b[j]
        /\ \A i \in 1..Len(q) : Len(b) + i \in 1..Len(b \o e) /\ (b \o e)[Len(b) + i] = e[i]
    BY <1>8, <1>9, <1>10
  <2>2. ASSUME NEW j \in 1..Len(b \o e), j \notin 1..Len(b)
        PROVE  j - Len(b) \in 1..Len(q) /\ j = Len(b) + (j - Len(b))
    BY <1>8, <2>1, <2>2
  <2> QED
    BY <2>1, <2>2
<1> QED
  <2> HIDE DEF s, q, b, e
  <2> DEFINE Place(r) == CHOOSE i \in 1..Len(q) : q[i] = r
             pos == [r \in Changed(s, d) |-> Len(b) + Place(r)]
  <2>1. \A r \in Changed(s, d) : Place(r) \in 1..Len(q) /\ q[Place(r)] = r
    BY <1>6
  <2>2. \A i \in 1..Len(q) : Place(q[i]) = i
    BY <1>6, <1>8, <2>1
  <2> HIDE DEF Place
  <2>3. pos \in [Changed(s, d) -> 1..Len(b \o e)]
    BY <1>13, <2>1
  <2>4. ASSUME NEW r \in Changed(s, d) PROVE (b \o e)[pos[r]] = StateEvent(h, t, r, s.rows[r], d[r])
    <3>1. Place(r) \in 1..Len(q) /\ q[Place(r)] = r
      BY <2>1, <2>4
    <3>2. pos[r] = Len(b) + Place(r)
      BY <2>4
    <3>3. (b \o e)[pos[r]] = e[Place(r)]
      BY <1>13, <3>1, <3>2, Zenon
    <3>4. e[Place(r)] = StateEvent(h, t, q[Place(r)], s.rows[q[Place(r)]], d[q[Place(r)]])
      BY <1>12, <3>1, Zenon
    <3> QED
      BY <3>1, <3>3, <3>4, Zenon
  <2>5. ASSUME NEW j \in 1..Len(b \o e), (b \o e)[j].kind = "state"
        PROVE  (b \o e)[j].host = h /\ \E r \in Changed(s, d) : pos[r] = j
    <3>1. j \notin 1..Len(b)
      BY <1>10, <1>13, <2>5
    <3>2. PICK i \in 1..Len(q) : j = Len(b) + i
      BY <1>13, <3>1
    <3>3. (b \o e)[j] = StateEvent(h, t, q[i], s.rows[q[i]], d[q[i]])
      BY <1>12, <1>13, <3>2
    <3>4. q[i] \in Changed(s, d) /\ pos[q[i]] = j
      BY <1>8, <2>2, <3>2
    <3> QED
      BY <3>3, <3>4 DEF StateEvent
  <2> HIDE DEF pos
  <2>6. /\ \A r \in Changed(s, d) : (b \o e)[pos[r]] = StateEvent(h, t, r, s.rows[r], d[r])
        /\ \A j \in 1..Len(b \o e) : (b \o e)[j].kind = "state" =>
              (b \o e)[j].host = h /\ \E r \in Changed(s, d) : pos[r] = j
    BY <2>4, <2>5
  <2>7. Tells(h, d, t, b \o e)
    BY <2>3, <2>6, Zenon DEF s, Tells
  <2> QED
    BY <1>11, <1>13, <2>7
\* What a step may do to host g: the inventory just named it, ...
Entered(g) == g \notin hosts /\ st'[g] = NewState /\ obs'[g] = <<>>

\* ... nothing was filed for it (a failed request or a lost mark may be), ...
KeptShown(g) ==
    /\ g \in hosts /\ obs'[g] = obs[g]
    /\ st'[g].lastOK = st[g].lastOK /\ st'[g].rows = st[g].rows
    /\ st'[g].since = st[g].since /\ st'[g].known = st[g].known

\* ... or a document was filed, with an event for each change it shows.
FiledDoc(g, new) ==
    /\ g \in hosts
    /\ \E d \in Doc, t \in Time \ {Zero} :
          /\ obs'[g] = Append(obs[g], [at |-> t, rows |-> d])
          /\ st'[g] = Recorded(st[g], d, t)
          /\ Tells(g, d, t, new)

\* None of the events new reports a change of host g.
Quiet(g, new) == \A j \in 1..Len(new) : ~(new[j].kind = "state" /\ new[j].host = g)

\* The list gets the events new, or none if there are none.
Gets(new) == events' = AddEvents(new) \/ (events' = events /\ new = <<>>)

\* What a step does that adds the events new.
HostsSee(new) ==
    /\ Gets(new)
    /\ \A g \in hosts' : Entered(g) \/ (KeptShown(g) /\ Quiet(g, new)) \/ FiledDoc(g, new)

\* What every step does to the history, by its definition.
LEMMA ObsStep ==
    ASSUME HNext
    PROVE  /\ DOMAIN obs' = hosts'
           /\ \A g \in hosts' : entered'[g] = IF g \in hosts THEN entered[g] ELSE Len(events')
           /\ \A g \in hosts' :
                 obs'[g] = IF g \notin hosts THEN <<>>
                           ELSE IF Filed(g)
                                THEN Append(obs[g], [at |-> fetching[g].t1, rows |-> fetching[g].doc])
                                ELSE obs[g]
BY DEF HNext

\* poller.go, record: the one action that files a document.
LEMMA RecordStep ==
    ASSUME IInv, EventsOK, HNext, NEW h \in Host, Record(h)
    PROVE  \E new \in Seq(Event) : HostsSee(new)
<1> DEFINE f == fetching[h]
<1>1. h \in hosts /\ h \in Host /\ f \in Fetch /\ f.t1 # Zero /\ hosts' = hosts
  BY DEF Record, IInv, RoundsAreSeparate, TypeOK
<1>2. st \in [hosts -> HostState]
  BY DEF IInv, TypeOK
<1>3. st[h] \in HostState
  BY <1>1, <1>2
<1>4. DOMAIN fetching' = DOMAIN fetching \ {h} /\ h \in DOMAIN fetching
  BY DEF Record, FreeSlot
<1>5. \A g \in hosts : g # h => ~Filed(g)
  BY <1>4 DEF Filed
<1>6. Filed(h) <=> f.got
  BY <1>4 DEF Filed
<1>7. \A g \in hosts : g # h => obs'[g] = obs[g]
  BY <1>1, <1>5, ObsStep
<1>8. CASE ~f.got
  <2>1. st' = [st EXCEPT ![h].lastTry = f.t1, ![h].failed = TRUE] /\ events' = events
    BY <1>1, <1>2, <1>8 DEF Record
  <2>2. obs'[h] = obs[h]
    BY <1>1, <1>6, <1>8, ObsStep
  <2>3. \A g \in hosts :
           /\ st'[g].lastOK = st[g].lastOK /\ st'[g].rows = st[g].rows
           /\ st'[g].since = st[g].since /\ st'[g].known = st[g].known
    BY <1>1, <1>2, <1>3, <2>1 DEF HostState
  <2>4. \A g \in hosts' : KeptShown(g) /\ Quiet(g, <<>>)
    BY <1>1, <1>7, <2>2, <2>3 DEF KeptShown, Quiet
  <2>5. <<>> \in Seq(Event)
    OBVIOUS
  <2> QED
    BY <2>1, <2>4, <2>5 DEF HostsSee, Gets
<1>9. CASE f.got
  <2>1. /\ st' = [st EXCEPT ![h] = Recorded(st[h], f.doc, f.t1)]
        /\ events' = AddEvents(RecordEvents(h, f.doc, f.t1))
    BY <1>1, <1>2, <1>9 DEF Record
  <2>2. obs'[h] = Append(obs[h], [at |-> f.t1, rows |-> f.doc])
    BY <1>1, <1>6, <1>9, ObsStep
  <2>3. f.doc \in Doc /\ f.t1 \in Time \ {Zero}
    BY <1>1 DEF Fetch
  <2>4. st'[h] = Recorded(st[h], f.doc, f.t1)
    BY <1>1, <1>2, <2>1
  <2>5. \A g \in hosts : g # h => st'[g] = st[g]
    BY <1>2, <2>1
  <2> DEFINE new == RecordEvents(h, f.doc, f.t1)
  <2>6. new \in Seq(Event) /\ Tells(h, f.doc, f.t1, new)
    <3> HIDE DEF f
    <3> QED
      BY <1>1, <1>3, <2>3, RecordEventsComplete
  <2> HIDE DEF f, new
  <2>7. FiledDoc(h, new)
    BY <1>1, <2>2, <2>3, <2>4, <2>6 DEF FiledDoc
  <2>8. \A g \in hosts : g # h => KeptShown(g) /\ Quiet(g, new)
    BY <1>7, <2>5, <2>6 DEF KeptShown, Quiet, Tells
  <2> QED
    BY <1>1, <2>1, <2>6, <2>7, <2>8 DEF HostsSee, Gets, new
<1> QED
  BY <1>8, <1>9

\* server.go, loop and poller.go, SetHosts: a reload blanks the hosts that are new.
LEMMA LoopTopStep ==
    ASSUME IInv, HNext, LoopTop
    PROVE  HostsSee(<<>>)
<1>1. PICK hs \in SUBSET Host : SetHosts(hs)
  BY DEF LoopTop
<1>2. /\ hosts' = hs
      /\ st' = [h \in hs |-> IF h \in hosts THEN st[h] ELSE NewState]
  BY <1>1 DEF SetHosts
<1>3. \A g \in hosts' : ~Filed(g)
  BY DEF LoopTop, IInv, RoundsAreSeparate, Filed
<1>4. ASSUME NEW g \in hosts' PROVE Entered(g) \/ KeptShown(g)
  <2>1. CASE g \in hosts
    <3>1. obs'[g] = obs[g]
      BY <1>3, <2>1, ObsStep
    <3> QED
      BY <1>2, <2>1, <3>1 DEF KeptShown
  <2>2. CASE g \notin hosts
    <3>1. obs'[g] = <<>>
      BY <2>2, ObsStep
    <3> QED
      BY <1>2, <2>2, <3>1 DEF Entered
  <2> QED
    BY <2>1, <2>2
<1> QED
  BY <1>4 DEF LoopTop, HostsSee, Gets, Quiet

\* events.go, markLostLocked: a lost mark touches nothing the documents said.
LEMMA RoundEndStep ==
    ASSUME IInv, HNext, RoundEnd
    PROVE  \E new \in Seq(Event) : HostsSee(new)
<1>1. /\ hosts' = hosts /\ DOMAIN fetching = {}
      /\ st' = [h \in hosts |-> IF h \in NewlyLost(now) THEN [st[h] EXCEPT !.lost = TRUE] ELSE st[h]]
  BY DEF RoundEnd, AllDone
<1>2. \A g \in hosts : st[g] \in HostState
  BY DEF IInv, TypeOK
<1>3. ASSUME NEW g \in hosts PROVE KeptShown(g)
  <2>1. obs'[g] = obs[g]
    BY <1>1, ObsStep DEF Filed
  <2>2. /\ st'[g].lastOK = st[g].lastOK /\ st'[g].rows = st[g].rows
        /\ st'[g].since = st[g].since /\ st'[g].known = st[g].known
    BY <1>1, <1>2 DEF HostState
  <2> QED
    BY <2>1, <2>2 DEF KeptShown
<1> DEFINE q == SetToSeq(NewlyLost(now))
           e == [i \in 1..Len(q) |-> LostEvent(q[i], now)]
<1>4. events' = AddEvents(e)
  BY DEF RoundEnd
<1>5. NewlyLost(now) \in SUBSET Host
  BY DEF NewlyLost, IInv, TypeOK
<1>6. q \in Seq(NewlyLost(now))
  <2>1. IsFiniteSet(NewlyLost(now))
    BY <1>5, FlagsAssumption, FS_Subset
  <2> QED
    BY <2>1, SetToSeqMembers
<1>7. now \in Time
  BY FlagsAssumption DEF IInv, TypeOK, Time
<1>8. \A i \in 1..Len(q) : LostEvent(q[i], now) \in Event
  <2> SUFFICES ASSUME NEW i \in 1..Len(q) PROVE LostEvent(q[i], now) \in Event
    OBVIOUS
  <2>1. q[i] \in NewlyLost(now)
    <3> HIDE DEF q
    <3> QED
      BY <1>6
  <2>2. q[i] \in Host
    BY <1>5, <2>1
  <2> HIDE DEF q
  <2> QED
    BY <1>7, <2>2 DEF LostEvent, Event
<1>9. e \in Seq(Event) /\ \A i \in 1..Len(e) : e[i].kind = "lost"
  <2>1. Len(q) \in Nat
    BY <1>6
  <2>2. \A i \in 1..Len(q) : e[i].kind = "lost"
    BY DEF LostEvent
  <2> HIDE DEF q
  <2> QED
    BY <1>8, <2>1, <2>2
<1> HIDE DEF e
<1> QED
  BY <1>1, <1>3, <1>4, <1>9 DEF HostsSee, Gets, Quiet

\* Every step: what it may do to a host, and to the list.
LEMMA HostStep ==
    ASSUME IInv, EventsOK, HNext
    PROVE  \E new \in Seq(Event) : HostsSee(new)
<1>0. <<>> \in Seq(Event)
  OBVIOUS
<1>1. CASE LoopTop
  BY <1>0, <1>1, LoopTopStep
<1>2. CASE RoundEnd
  BY <1>2, RoundEndStep
<1>3. CASE \E h \in Host : Record(h)
  BY <1>3, RecordStep
<1>4. CASE (\E h \in Host : Launch(h) \/ Answer(h)) \/ Wake \/ Quit \/ Signal \/ Advance \/ Stopped
  <2>1. UNCHANGED <<hosts, st, events>>
    BY <1>4 DEF Launch, Answer, Wake, Quit, Signal, Advance, Stopped, vars
  <2>2. DOMAIN fetching \subseteq DOMAIN fetching'
    BY <1>4 DEF Launch, Answer, Wake, Quit, Signal, Advance, Stopped, vars
  <2>3. \A g \in hosts' : obs'[g] = obs[g]
    BY <2>1, <2>2, ObsStep DEF Filed
  <2>4. HostsSee(<<>>)
    BY <2>1, <2>3 DEF KeptShown, HostsSee, Gets, Quiet
  <2> QED
    BY <1>0, <2>4
<1> QED
  BY <1>1, <1>2, <1>3, <1>4 DEF HNext, Next, LoopStep, FetchStep

-----------------------------------------------------------------------------
(* The page says what the documents said: PageIsTrue *)

Observation == [at : Time \ {Zero}, rows : Doc]

\* What SinceIsStreakStart says of resource r of a host with documents o and state s.
StreakTrue(o, s, r) ==
    IF Len(o) = 0 \/ (Len(o) > 0 /\ ~Shows(o[Len(o)], r, NotOK))
    THEN r \notin DOMAIN s.since
    ELSE \E k \in 1..Len(o) :
            /\ \A i \in k..Len(o) : Shows(o[i], r, NotOK)
            /\ k > 1 => ~Shows(o[k-1], r, NotOK)
            /\ r \in DOMAIN s.since
            /\ s.since[r] = o[k].at
            /\ s.known[r] = (k > 1 /\ Shows(o[k-1], r, {"ok"}))

\* The state of a host is that of its newest document.
NewestShown(o, s) ==
    /\ o \in Seq(Observation)
    /\ Len(o) = 0 => s.lastOK = Zero
    /\ Len(o) > 0 => s.lastOK = o[Len(o)].at /\ s.rows = o[Len(o)].rows

ShownOK == \A h \in hosts : NewestShown(obs[h], st[h])

\* poller.go, record: one more document continues, starts or ends a streak.
LEMMA DocExtendsStreak ==
    ASSUME NEW o, NEW s \in HostState, NewestShown(o, s),
           NEW d \in Doc, NEW t \in Time \ {Zero}, NEW r \in Resource, StreakTrue(o, s, r)
    PROVE  StreakTrue(Append(o, [at |-> t, rows |-> d]), Recorded(s, d, t), r)
<1> DEFINE n == Len(o)
           p == Append(o, [at |-> t, rows |-> d])
           w == Recorded(s, d, t)
<1>1. n \in Nat /\ Len(p) = n + 1 /\ p[n + 1] = [at |-> t, rows |-> d]
      /\ \A i \in 1..n : p[i] = o[i]
  BY DEF NewestShown
<1>2. Shows(p[n + 1], r, NotOK) <=> r \in NotOKIn(d)
  <2>1. PICK R \in SUBSET Resource : d \in [R -> Code]
    BY DEF Doc
  <2> QED
    BY <1>1, <2>1 DEF Shows, NotOK, NotOKIn
<1>3. /\ w.since = SinceOf(s, d, t) /\ w.known = KnownOf(s, d)
      /\ DOMAIN w.since = NotOKIn(d)
  BY DEF Recorded, SinceOf
<1>4. CASE r \notin NotOKIn(d)
  <2> HIDE DEF n, p, w
  <2>1. r \notin DOMAIN w.since /\ ~Shows(p[Len(p)], r, NotOK) /\ Len(p) > 0
    BY <1>1, <1>2, <1>3, <1>4
  <2> QED
    BY <2>1 DEF StreakTrue, p, w
<1>5. CASE r \in NotOKIn(d) /\ r \in DOMAIN s.since
  <2>1. PICK k \in 1..n :
            /\ \A i \in k..n : Shows(o[i], r, NotOK)
            /\ k > 1 => ~Shows(o[k-1], r, NotOK)
            /\ s.since[r] = o[k].at
            /\ s.known[r] = (k > 1 /\ Shows(o[k-1], r, {"ok"}))
    BY <1>5 DEF StreakTrue
  <2>2. w.since[r] = s.since[r] /\ w.known[r] = s.known[r]
    BY <1>3, <1>5 DEF SinceOf, KnownOf
  <2> HIDE DEF n, p, w
  <2>3. k \in 1..Len(p) /\ p[k] = o[k] /\ (k > 1 => p[k-1] = o[k-1])
    BY <1>1, <2>1
  <2>4. \A i \in k..Len(p) : Shows(p[i], r, NotOK)
    BY <1>1, <1>2, <1>5, <2>1
  <2>5. w.known[r] = (k > 1 /\ Shows(p[k-1], r, {"ok"}))
    BY <2>1, <2>2, <2>3
  <2>6. /\ k > 1 => ~Shows(p[k-1], r, NotOK)
        /\ r \in DOMAIN w.since /\ w.since[r] = p[k].at
    BY <1>3, <1>5, <2>1, <2>2, <2>3
  <2>7. ~(Len(p) = 0 \/ (Len(p) > 0 /\ ~Shows(p[Len(p)], r, NotOK)))
    BY <1>1, <1>2, <1>5
  <2> QED
    BY <2>3, <2>4, <2>5, <2>6, <2>7 DEF StreakTrue, p, w
<1>6. CASE r \in NotOKIn(d) /\ r \notin DOMAIN s.since
  <2> DEFINE k == n + 1
  <2>1. n = 0 \/ ~Shows(o[n], r, NotOK)
    BY <1>1, <1>6 DEF StreakTrue
  <2>2. /\ w.since[r] = t
        /\ w.known[r] = (s.lastOK # Zero /\ r \in DOMAIN s.rows /\ s.rows[r] = "ok")
    BY <1>3, <1>6 DEF SinceOf, KnownOf
  <2>3. n > 0 => s.lastOK # Zero /\ s.rows = o[n].rows
    <3>1. n > 0 => o[n] \in Observation
      BY <1>1 DEF NewestShown
    <3> QED
      BY <3>1 DEF NewestShown, Observation
  <2>4. n = 0 => s.lastOK = Zero
    BY DEF NewestShown
  <2> HIDE DEF n, p, w
  <2>5. (s.lastOK # Zero /\ r \in DOMAIN s.rows /\ s.rows[r] = "ok")
           <=> (k > 1 /\ Shows(p[k-1], r, {"ok"}))
    <3>1. CASE n = 0
      BY <2>4, <3>1
    <3>2. CASE n > 0
      <4>1. k > 1 /\ p[k-1] = o[n]
        BY <1>1, <3>2
      <4>2. s.lastOK # Zero /\ s.rows = o[n].rows
        BY <2>3, <3>2
      <4> HIDE DEF k
      <4> QED
        BY <4>1, <4>2 DEF Shows
    <3> QED
      BY <1>1, <3>1, <3>2
  <2>7. w.known[r] = (k > 1 /\ Shows(p[k-1], r, {"ok"}))
    BY <2>2, <2>5
  <2>8. /\ k \in 1..Len(p) /\ \A i \in k..Len(p) : Shows(p[i], r, NotOK)
        /\ k > 1 => ~Shows(p[k-1], r, NotOK)
        /\ r \in DOMAIN w.since /\ w.since[r] = p[k].at
    BY <1>1, <1>2, <1>3, <1>6, <2>1, <2>2
  <2>9. ~(Len(p) = 0 \/ (Len(p) > 0 /\ ~Shows(p[Len(p)], r, NotOK)))
    BY <1>1, <1>2, <1>6
  <2> HIDE DEF k
  <2> QED
    BY <2>7, <2>8, <2>9 DEF StreakTrue, p, w
<1> QED
  BY <1>4, <1>5, <1>6

\* poller.go, SetHosts: a host that was never asked has no streak.
LEMMA NewHostShown ==
    /\ NewestShown(<<>>, NewState)
    /\ \A r \in Resource : StreakTrue(<<>>, NewState, r)
BY DEF NewestShown, StreakTrue, NewState, NoTimes

\* A step keeps what is known of every host.
LEMMA PageKept ==
    ASSUME IInv, EventsOK, ShownOK, SinceIsStreakStart, HNext
    PROVE  ShownOK' /\ SinceIsStreakStart'
<1> SUFFICES ASSUME NEW h \in hosts'
             PROVE  /\ NewestShown(obs'[h], st'[h])
                    /\ \A r \in Resource : StreakTrue(obs'[h], st'[h], r)
  BY DEF ShownOK, SinceIsStreakStart, StreakTrue
<1>0. PICK new \in Seq(Event) : HostsSee(new)
  BY HostStep
<1>1. CASE Entered(h)
  BY <1>1, NewHostShown DEF Entered
<1>2. CASE KeptShown(h)
  <2>1. NewestShown(obs[h], st[h]) /\ \A r \in Resource : StreakTrue(obs[h], st[h], r)
    BY <1>2 DEF KeptShown, ShownOK, SinceIsStreakStart, StreakTrue
  <2> QED
    BY <1>2, <2>1 DEF KeptShown, NewestShown, StreakTrue
<1>3. CASE FiledDoc(h, new)
  <2>1. h \in hosts
    BY <1>3 DEF FiledDoc
  <2>2. PICK d \in Doc, t \in Time \ {Zero} :
          /\ obs'[h] = Append(obs[h], [at |-> t, rows |-> d])
          /\ st'[h] = Recorded(st[h], d, t)
    BY <1>3 DEF FiledDoc
  <2>3. NewestShown(obs[h], st[h]) /\ \A r \in Resource : StreakTrue(obs[h], st[h], r)
    BY <2>1 DEF ShownOK, SinceIsStreakStart, StreakTrue
  <2>4. st[h] \in HostState
    BY <2>1 DEF IInv, TypeOK
  <2>5. \A r \in Resource : StreakTrue(obs'[h], st'[h], r)
    BY <2>2, <2>3, <2>4, DocExtendsStreak
  <2>6. NewestShown(obs'[h], st'[h])
    <3>1. [at |-> t, rows |-> d] \in Observation
      BY DEF Observation
    <3>2. /\ obs'[h] \in Seq(Observation) /\ Len(obs'[h]) = Len(obs[h]) + 1 /\ Len(obs[h]) \in Nat
          /\ obs'[h][Len(obs'[h])] = [at |-> t, rows |-> d]
      BY <2>2, <2>3, <3>1 DEF NewestShown
    <3>3. st'[h].lastOK = t /\ st'[h].rows = d
      BY <2>2 DEF Recorded
    <3> QED
      BY <3>2, <3>3 DEF NewestShown
  <2> QED
    BY <2>5, <2>6
<1> QED
  BY <1>0, <1>1, <1>2, <1>3 DEF HostsSee

\* The list of events stays a list of at most MaxEvents.
LEMMA EventsKept ==
    ASSUME IInv, EventsOK, HNext
    PROVE  EventsOK'
<1>1. CASE events' = events
  BY <1>1 DEF EventsOK, Event
<1>2. CASE \E new \in Seq(Event) : events' = AddEvents(new)
  <2>1. events' \in Seq(Event) /\ Len(events') <= MaxEvents
    BY <1>2, AddEventsKeeps
  <2> QED
    BY <2>1 DEF EventsOK, Event
<1> QED
  BY <1>1, <1>2, HostStep DEF HostsSee, Gets

\* state.go, Snapshot: among the codes a row can have, one is the worst.
LEMMA WorstExists ==
    ASSUME NEW shown \in SUBSET Code, "ok" \in shown
    PROVE  \E c \in shown : \A d \in shown : SevRank[d] <= SevRank[c]
<1>1. /\ SevRank["ok"] = 0 /\ SevRank["none"] = 1 /\ SevRank["dev"] = 2 /\ SevRank["bad"] = 4
  BY DEF SevRank
<1>2. CASE "bad" \in shown
  BY <1>1, <1>2 DEF Code
<1>3. CASE "bad" \notin shown /\ "dev" \in shown
  BY <1>1, <1>3 DEF Code
<1>4. CASE "bad" \notin shown /\ "dev" \notin shown /\ "none" \in shown
  BY <1>1, <1>4 DEF Code
<1>5. CASE "bad" \notin shown /\ "dev" \notin shown /\ "none" \notin shown
  BY <1>1, <1>5 DEF Code
<1> QED
  BY <1>2, <1>3, <1>4, <1>5

\* state.go, Snapshot: green needs every row to be ok.
LEMMA GreenNeedsAllOK ==
    ASSUME IInv, ShownOK
    PROVE  GreenIsRecent
<1> SUFFICES ASSUME NEW h \in hosts, Severity(h, now) = "ok"
             PROVE  LET n == Len(obs[h])
                    IN  /\ n > 0
                        /\ now - obs[h][n].at <= LostAfter
                        /\ \A r \in Resource : Shows(obs[h][n], r, {"ok"})
  BY DEF GreenIsRecent
<1> DEFINE n     == Len(obs[h])
           shown == {"ok"} \cup {RowCode(h, r) : r \in Resource}
<1>1. Status(h, now) # "lost" /\ st[h].lastOK # Zero /\ ~(now - st[h].lastOK > LostAfter)
  BY DEF Severity, Status
<1>2. st[h] \in HostState /\ NewestShown(obs[h], st[h])
  BY DEF IInv, TypeOK, ShownOK
<1>3. n > 0 /\ st[h].lastOK = obs[h][n].at /\ st[h].rows = obs[h][n].rows
  <2>1. n \in Nat
    BY <1>2 DEF NewestShown
  <2> QED
    BY <1>1, <1>2, <2>1 DEF NewestShown
<1>4. now - obs[h][n].at <= LostAfter
  <2>1. now \in Int /\ st[h].lastOK \in Int /\ LostAfter \in Int
    BY <1>2, FlagsAssumption DEF HostState, Time, IInv, TypeOK
  <2> QED
    BY <1>1, <1>3, <2>1
<1>5. PICK Q \in SUBSET Resource : st[h].rows \in [Q -> Code]
  BY <1>2 DEF HostState, Doc
<1>6. shown \in SUBSET Code
  BY <1>5 DEF RowCode, Code
<1>7. \A d \in shown : SevRank[d] <= SevRank["ok"]
  <2>1. Severity(h, now) = CHOOSE c \in shown : \A d \in shown : SevRank[d] <= SevRank[c]
    BY <1>1 DEF Severity
  <2> DEFINE worst == CHOOSE c \in shown : \A d \in shown : SevRank[d] <= SevRank[c]
  <2>2. \A d \in shown : SevRank[d] <= SevRank[worst]
    <3> HIDE DEF shown
    <3> QED
      BY <1>6, WorstExists DEF shown
  <2> QED
    BY <2>1, <2>2
<1>8. \A d \in shown : d = "ok"
  <2>1. SevRank["ok"] = 0 /\ \A d \in Code \ {"ok"} : SevRank[d] > 0
    BY DEF SevRank, Code
  <2> HIDE DEF shown
  <2> QED
    BY <1>6, <1>7, <2>1 DEF SevRank, Code
<1>9. \A r \in Resource : RowCode(h, r) = "ok"
  BY <1>8
<1>10. \A r \in Resource : Shows(obs[h][n], r, {"ok"})
  BY <1>3, <1>9 DEF RowCode, Shows
<1> QED
  BY <1>3, <1>4, <1>10

\* What the history has in every state.
PageInv == EventsOK /\ ShownOK /\ SinceIsStreakStart

\* server.go, Main: no document yet.
LEMMA PageInit == HInit => PageInv
<1> SUFFICES ASSUME HInit PROVE PageInv
  OBVIOUS
<1>1. \A h \in hosts : obs[h] = <<>> /\ st[h] = NewState
  BY DEF HInit, Init
<1>2. EventsOK
  BY FlagsAssumption DEF HInit, Init, EventsOK
<1> QED
  BY <1>1, <1>2, NewHostShown DEF PageInv, ShownOK, SinceIsStreakStart, StreakTrue

\* The history only watches: a step of it is a step of the poller.
LEMMA HistoryHolds == HSpec => [](IInv /\ PageInv)
<1>1. HInit => IInv /\ PageInv
  BY InitHolds, PageInit DEF HInit
<1>2. IInv /\ PageInv /\ [HNext]_hvars => (IInv /\ PageInv)'
  <2> SUFFICES ASSUME IInv, PageInv, [HNext]_hvars PROVE (IInv /\ PageInv)'
    OBVIOUS
  <2>1. IInv'
    BY StepKeeps DEF HNext, hvars
  <2>2. CASE HNext
    BY <2>1, <2>2, PageKept, EventsKept DEF PageInv
  <2>3. CASE UNCHANGED hvars
    <3>1. hosts' = hosts /\ st' = st /\ events' = events /\ obs' = obs
      BY <2>3 DEF hvars, vars
    <3>2. EventsOK'
      BY <3>1 DEF PageInv, EventsOK, Event
    <3>3. ShownOK'
      BY <3>1 DEF PageInv, ShownOK, NewestShown
    <3>4. SinceIsStreakStart'
      BY <3>1 DEF PageInv, SinceIsStreakStart, Shows
    <3> QED
      BY <2>1, <3>2, <3>3, <3>4 DEF PageInv
  <2> QED
    BY <2>2, <2>3
<1> QED
  BY <1>1, <1>2, PTL DEF HSpec

\* poller.go and state.go: for any hosts, resources and flags, the streaks and the
\* green hosts of the page are those of the documents that were filed.
THEOREM PageShowsDocuments == HSpec => []PageIsTrue
<1>1. IInv /\ PageInv => PageIsTrue
  BY GreenNeedsAllOK DEF PageInv, PageIsTrue
<1> QED
  BY <1>1, HistoryHolds, PTL

-----------------------------------------------------------------------------
(* Each change is reported once: EveryChangeReported *)

\* Changes, Reports and EventOf, for any documents o and events ev.
ChangesIn(o) ==
    {c \in (2..Len(o)) \X Resource :
        LET a == o[c[1] - 1]
            b == o[c[1]]
        IN  Shows(a, c[2], Code) /\ Shows(b, c[2], Code) /\ a.rows[c[2]] # b.rows[c[2]]}
ReportsIn(h, ev, k) == {j \in (k + 1)..Len(ev) : ev[j].kind = "state" /\ ev[j].host = h}
EventIn(h, o, c) == StateEvent(h, o[c[1]].at, c[2], o[c[1] - 1].rows[c[2]], o[c[1]].rows[c[2]])

\* The state events of h after the first k are the changes between its documents o.
OneEach(h, o, ev, k) ==
    \E report \in Bijection(ChangesIn(o), ReportsIn(h, ev, k)) :
        \A c \in ChangesIn(o) : ev[report[c]] = EventIn(h, o, c)

\* A function that takes each value once.
LEMMA BijectionIs ==
    ASSUME NEW S, NEW T, NEW f
    PROVE  f \in Bijection(S, T) <=>
             /\ f \in [S -> T]
             /\ \A a, b \in S : f[a] = f[b] => a = b
             /\ \A t \in T : \E a \in S : f[a] = t
BY DEF Bijection, Injection, Surjection, IsInjective

\* The longer list: where its events are.
LEMMA Longer ==
    ASSUME NEW ev \in Seq(Event), NEW new \in Seq(Event)
    PROVE  /\ Len(ev) \in Nat /\ Len(new) \in Nat /\ Len(ev \o new) = Len(ev) + Len(new)
           /\ ev \o new \in Seq(Event)
           /\ \A j \in 1..Len(ev) : (ev \o new)[j] = ev[j]
           /\ \A j \in 1..Len(new) : (ev \o new)[Len(ev) + j] = new[j]
           /\ \A j \in 1..Len(ev \o new) : j \in 1..Len(ev) \/ j - Len(ev) \in 1..Len(new)
OBVIOUS

\* events.go: events of other hosts, and other events, change nothing.
LEMMA QuietReports ==
    ASSUME NEW h, NEW o, NEW ev \in Seq(Event), NEW new \in Seq(Event), NEW k \in 0..Len(ev),
           OneEach(h, o, ev, k), Quiet(h, new)
    PROVE  OneEach(h, o, ev \o new, k)
<1>1. ReportsIn(h, ev \o new, k) = ReportsIn(h, ev, k)
  <2>1. ASSUME NEW j \in ReportsIn(h, ev \o new, k) PROVE j \in ReportsIn(h, ev, k)
    <3>1. /\ j \in (k + 1)..Len(ev \o new) /\ j \in 1..Len(ev \o new)
          /\ (ev \o new)[j].kind = "state" /\ (ev \o new)[j].host = h
      BY <2>1, Longer DEF ReportsIn
    <3>2. j \in 1..Len(ev)
      <4>1. ASSUME j - Len(ev) \in 1..Len(new) PROVE FALSE
        <5>1. (ev \o new)[Len(ev) + (j - Len(ev))] = new[j - Len(ev)] /\ Len(ev) + (j - Len(ev)) = j
          BY <3>1, <4>1, Longer
        <5> QED
          BY <3>1, <4>1, <5>1 DEF Quiet
      <4> QED
        BY <3>1, <4>1, Longer
    <3> QED
      BY <3>1, <3>2, Longer DEF ReportsIn
  <2>2. ASSUME NEW j \in ReportsIn(h, ev, k) PROVE j \in ReportsIn(h, ev \o new, k)
    BY <2>2, Longer DEF ReportsIn
  <2> QED
    BY <2>1, <2>2
<1>2. PICK report \in Bijection(ChangesIn(o), ReportsIn(h, ev, k)) :
        \A c \in ChangesIn(o) : ev[report[c]] = EventIn(h, o, c)
  BY DEF OneEach
<1>3. \A c \in ChangesIn(o) : report[c] \in ReportsIn(h, ev, k)
  BY <1>2, BijectionIs
<1>4. \A c \in ChangesIn(o) : report[c] \in 1..Len(ev)
  BY <1>3, Longer DEF ReportsIn
<1>5. \A c \in ChangesIn(o) : (ev \o new)[report[c]] = EventIn(h, o, c)
  BY <1>2, <1>4, Longer
<1> QED
  BY <1>1, <1>2, <1>5 DEF OneEach

\* poller.go, record: the changes that one more document adds.
LEMMA NewChanges ==
    ASSUME NEW h \in hosts, ShownOK, NEW d \in Doc, NEW t \in Time \ {Zero}
    PROVE  LET o == obs[h]
               n == Len(o)
               p == Append(o, [at |-> t, rows |-> d])
           IN  /\ n \in Nat
               /\ ChangesIn(p) = ChangesIn(o) \cup {<<n + 1, r>> : r \in Changed(st[h], d)}
               /\ \A c \in ChangesIn(o) : c[1] <= n /\ EventIn(h, p, c) = EventIn(h, o, c)
               /\ \A r \in Changed(st[h], d) :
                     EventIn(h, p, <<n + 1, r>>) = StateEvent(h, t, r, st[h].rows[r], d[r])
<1> DEFINE o == obs[h]
           n == Len(o)
           p == Append(o, [at |-> t, rows |-> d])
<1>1. NewestShown(o, st[h])
  BY DEF ShownOK
<1>2. n \in Nat /\ Len(p) = n + 1 /\ p[n + 1] = [at |-> t, rows |-> d]
      /\ \A i \in 1..n : p[i] = o[i]
  BY <1>1 DEF NewestShown
<1>3. n = 0 => Changed(st[h], d) = {}
  BY <1>1 DEF NewestShown, Changed
<1>4. n > 0 => /\ st[h].lastOK # Zero /\ st[h].rows = o[n].rows
               /\ \E R \in SUBSET Resource : o[n].rows \in [R -> Code]
  <2>1. n > 0 => o[n] \in Observation
    BY <1>1, <1>2 DEF NewestShown
  <2> QED
    BY <1>1, <2>1 DEF NewestShown, Observation, Doc
<1>5. \E R \in SUBSET Resource : d \in [R -> Code]
  BY DEF Doc
<1> HIDE DEF p, n
<1>6. ASSUME NEW i \in 2..n PROVE p[i] = o[i] /\ p[i - 1] = o[i - 1]
  BY <1>2, <1>6
<1>7. \A c \in (2..n) \X Resource : c \in ChangesIn(p) <=> c \in ChangesIn(o)
  BY <1>2, <1>6 DEF ChangesIn, n
<1>8. ASSUME NEW r \in Resource PROVE <<n + 1, r>> \in ChangesIn(p) <=> r \in Changed(st[h], d)
  <2>1. CASE n = 0
    BY <1>2, <1>3, <2>1 DEF ChangesIn
  <2>2. CASE n > 0
    <3>1. n + 1 \in 2..Len(p) /\ p[(n + 1) - 1] = o[n] /\ p[n + 1].rows = d
      BY <1>2, <2>2
    <3>2. <<n + 1, r>> \in ChangesIn(p)
            <=> Shows(o[n], r, Code) /\ Shows(p[n + 1], r, Code) /\ o[n].rows[r] # d[r]
      BY <3>1 DEF ChangesIn
    <3>3. Shows(o[n], r, Code) /\ Shows(p[n + 1], r, Code) <=> r \in DOMAIN o[n].rows /\ r \in DOMAIN d
      BY <1>4, <1>5, <2>2, <3>1 DEF Shows
    <3> QED
      BY <1>4, <2>2, <3>2, <3>3 DEF Changed
  <2> QED
    BY <1>2, <2>1, <2>2
<1>9. Changed(st[h], d) \subseteq Resource
  BY <1>5 DEF Changed
<1>10. ChangesIn(o) \subseteq (2..n) \X Resource /\ ChangesIn(p) \subseteq (2..(n + 1)) \X Resource
  BY <1>2 DEF ChangesIn, n
<1>11. ChangesIn(p) = ChangesIn(o) \cup {<<n + 1, r>> : r \in Changed(st[h], d)}
  <2>1. ASSUME NEW c \in ChangesIn(p)
        PROVE  c \in ChangesIn(o) \cup {<<n + 1, r>> : r \in Changed(st[h], d)}
    <3>1. PICK i \in 2..(n + 1), r \in Resource : c = <<i, r>>
      BY <1>10, <2>1
    <3>2. CASE i = n + 1
      BY <1>8, <2>1, <3>1, <3>2
    <3>3. CASE i # n + 1
      <4>1. i \in 2..n
        BY <1>2, <3>3
      <4> QED
        BY <1>7, <2>1, <3>1, <4>1
    <3> QED
      BY <3>2, <3>3
  <2>2. ASSUME NEW c \in ChangesIn(o) PROVE c \in ChangesIn(p)
    BY <1>7, <1>10, <2>2
  <2>3. ASSUME NEW r \in Changed(st[h], d) PROVE <<n + 1, r>> \in ChangesIn(p)
    BY <1>8, <1>9, <2>3
  <2> QED
    BY <2>1, <2>2, <2>3
<1>12. ASSUME NEW c \in ChangesIn(o) PROVE c[1] <= n /\ EventIn(h, p, c) = EventIn(h, o, c)
  <2>1. c[1] \in 2..n
    BY <1>10, <1>12
  <2> QED
    BY <1>2, <1>6, <2>1 DEF EventIn
<1>13. ASSUME NEW r \in Changed(st[h], d)
       PROVE  EventIn(h, p, <<n + 1, r>>) = StateEvent(h, t, r, st[h].rows[r], d[r])
  <2>1. n > 0 /\ n \in 1..n /\ (n + 1) - 1 = n
    BY <1>2, <1>3, <1>13
  <2>2. p[n + 1].at = t /\ p[n + 1].rows = d /\ p[(n + 1) - 1].rows = st[h].rows
    BY <1>2, <1>4, <2>1
  <2> QED
    BY <2>2 DEF EventIn
<1> QED
  BY <1>2, <1>11, <1>12, <1>13 DEF n, p

\* poller.go, record: one more document and its events.
LEMMA NewDocReported ==
    ASSUME NEW h \in hosts, ShownOK, NEW ev \in Seq(Event), NEW new \in Seq(Event), NEW k \in 0..Len(ev),
           NEW d \in Doc, NEW t \in Time \ {Zero}, OneEach(h, obs[h], ev, k), Tells(h, d, t, new)
    PROVE  OneEach(h, Append(obs[h], [at |-> t, rows |-> d]), ev \o new, k)
<1> DEFINE o == obs[h]
           n == Len(o)
           p == Append(o, [at |-> t, rows |-> d])
           all == ev \o new
<1>1. PICK report \in Bijection(ChangesIn(o), ReportsIn(h, ev, k)) :
        \A c \in ChangesIn(o) : ev[report[c]] = EventIn(h, o, c)
  BY DEF OneEach
<1>2. /\ report \in [ChangesIn(o) -> ReportsIn(h, ev, k)]
      /\ \A a, b \in ChangesIn(o) : report[a] = report[b] => a = b
      /\ \A j \in ReportsIn(h, ev, k) : \E c \in ChangesIn(o) : report[c] = j
  BY <1>1, BijectionIs
<1>3. PICK pos \in [Changed(st[h], d) -> 1..Len(new)] :
        /\ \A r \in Changed(st[h], d) : new[pos[r]] = StateEvent(h, t, r, st[h].rows[r], d[r])
        /\ \A j \in 1..Len(new) : new[j].kind = "state" =>
              new[j].host = h /\ \E r \in Changed(st[h], d) : pos[r] = j
  BY DEF Tells
<1>4. /\ n \in Nat
      /\ ChangesIn(p) = ChangesIn(o) \cup {<<n + 1, r>> : r \in Changed(st[h], d)}
      /\ \A c \in ChangesIn(o) : c[1] <= n /\ EventIn(h, p, c) = EventIn(h, o, c)
      /\ \A r \in Changed(st[h], d) :
            EventIn(h, p, <<n + 1, r>>) = StateEvent(h, t, r, st[h].rows[r], d[r])
  BY NewChanges
<1>5. /\ Len(ev) \in Nat /\ Len(new) \in Nat /\ Len(all) = Len(ev) + Len(new)
      /\ \A j \in 1..Len(ev) : all[j] = ev[j]
      /\ \A j \in 1..Len(new) : all[Len(ev) + j] = new[j]
      /\ \A j \in 1..Len(all) : j \in 1..Len(ev) \/ j - Len(ev) \in 1..Len(new)
  BY Longer
<1>6. \A r \in Changed(st[h], d) : <<n + 1, r>> \notin ChangesIn(o)
  BY <1>4
<1> DEFINE f == [c \in ChangesIn(p) |-> IF c \in ChangesIn(o) THEN report[c] ELSE Len(ev) + pos[c[2]]]
<1> HIDE DEF o, n, p, all
<1>7. \A c \in ChangesIn(o) : c \in ChangesIn(p) /\ f[c] = report[c]
  BY <1>4
<1>8. \A r \in Changed(st[h], d) : <<n + 1, r>> \in ChangesIn(p) /\ f[<<n + 1, r>>] = Len(ev) + pos[r]
  BY <1>4, <1>6
<1>9. \A c \in ChangesIn(p) : c \in ChangesIn(o) \/ \E r \in Changed(st[h], d) : c = <<n + 1, r>>
  BY <1>4
<1>10. DOMAIN f = ChangesIn(p) /\ f = [c \in ChangesIn(p) |-> f[c]]
  OBVIOUS
<1> HIDE DEF f
<1>11. \A j \in ReportsIn(h, ev, k) : j \in 1..Len(ev) /\ j \in ReportsIn(h, all, k)
  BY <1>5 DEF ReportsIn
<1>12. ASSUME NEW r \in Changed(st[h], d)
       PROVE  /\ Len(ev) + pos[r] \in ReportsIn(h, all, k) /\ Len(ev) + pos[r] \notin 1..Len(ev)
              /\ all[Len(ev) + pos[r]] = StateEvent(h, t, r, st[h].rows[r], d[r])
  <2>1. pos[r] \in 1..Len(new) /\ new[pos[r]] = StateEvent(h, t, r, st[h].rows[r], d[r])
    BY <1>3, <1>12
  <2>2. all[Len(ev) + pos[r]] = StateEvent(h, t, r, st[h].rows[r], d[r])
    BY <1>5, <2>1
  <2>3. Len(ev) + pos[r] \in (k + 1)..Len(all) /\ Len(ev) + pos[r] \notin 1..Len(ev)
    BY <1>5, <2>1
  <2> QED
    BY <2>2, <2>3 DEF ReportsIn, StateEvent
<1>13. f \in [ChangesIn(p) -> ReportsIn(h, all, k)]
  <2>1. ASSUME NEW c \in ChangesIn(p) PROVE f[c] \in ReportsIn(h, all, k)
    BY <1>2, <1>7, <1>8, <1>9, <1>11, <1>12, <2>1
  <2> QED
    BY <1>10, <2>1
<1>14. ASSUME NEW a \in ChangesIn(p), NEW b \in ChangesIn(p), f[a] = f[b] PROVE a = b
  <2>1. CASE a \in ChangesIn(o) /\ b \in ChangesIn(o)
    BY <1>2, <1>7, <1>14, <2>1
  <2>2. ASSUME NEW c \in ChangesIn(o), NEW r \in Changed(st[h], d) PROVE f[c] # f[<<n + 1, r>>]
    <3>1. f[c] \in 1..Len(ev)
      BY <1>2, <1>7, <1>11, <2>2
    <3> QED
      BY <1>8, <1>12, <2>2, <3>1
  <2>3. ASSUME NEW r \in Changed(st[h], d), NEW q \in Changed(st[h], d), f[<<n + 1, r>>] = f[<<n + 1, q>>]
        PROVE  r = q
    <3>1. all[Len(ev) + pos[r]] = all[Len(ev) + pos[q]]
      BY <1>8, <2>3
    <3>2. StateEvent(h, t, r, st[h].rows[r], d[r]) = StateEvent(h, t, q, st[h].rows[q], d[q])
      BY <1>12, <3>1
    <3>3. StateEvent(h, t, r, st[h].rows[r], d[r]).res = r /\ StateEvent(h, t, q, st[h].rows[q], d[q]).res = q
      BY DEF StateEvent
    <3> QED
      BY <3>2, <3>3
  <2> QED
    BY <1>9, <1>14, <2>1, <2>2, <2>3
<1>15. ASSUME NEW j \in ReportsIn(h, all, k) PROVE \E c \in ChangesIn(p) : f[c] = j
  <2>1. /\ j \in (k + 1)..Len(all) /\ j \in 1..Len(all)
        /\ all[j].kind = "state" /\ all[j].host = h
    BY <1>5, <1>15 DEF ReportsIn
  <2>2. CASE j \in 1..Len(ev)
    <3>1. j \in ReportsIn(h, ev, k)
      BY <1>5, <2>1, <2>2 DEF ReportsIn
    <3> QED
      BY <1>2, <1>7, <3>1
  <2>3. CASE j - Len(ev) \in 1..Len(new)
    <3>1. Len(ev) + (j - Len(ev)) = j
      BY <1>5, <2>1
    <3>2. new[j - Len(ev)].kind = "state"
      BY <1>5, <2>1, <2>3, <3>1
    <3>3. PICK r \in Changed(st[h], d) : pos[r] = j - Len(ev)
      BY <1>3, <2>3, <3>2
    <3> QED
      BY <1>8, <3>1, <3>3
  <2> QED
    BY <1>5, <2>1, <2>2, <2>3
<1>16. f \in Bijection(ChangesIn(p), ReportsIn(h, all, k))
  BY <1>13, <1>14, <1>15, BijectionIs
<1>17. ASSUME NEW c \in ChangesIn(p) PROVE all[f[c]] = EventIn(h, p, c)
  <2>1. CASE c \in ChangesIn(o)
    <3>1. report[c] \in 1..Len(ev)
      BY <1>2, <1>11, <2>1
    <3> QED
      BY <1>1, <1>4, <1>5, <1>7, <2>1, <3>1
  <2>2. ASSUME NEW r \in Changed(st[h], d), c = <<n + 1, r>> PROVE all[f[c]] = EventIn(h, p, c)
    BY <1>4, <1>8, <1>12, <2>2
  <2> QED
    BY <1>9, <2>1, <2>2
<1> QED
  BY <1>16, <1>17 DEF OneEach, p, all, o

\* The inductive invariant: where the stay of a host began, and its reports.
AllReported ==
    Len(events) < MaxEvents =>
        \A h \in hosts : entered[h] \in 0..Len(events) /\ OneEach(h, obs[h], events, entered[h])

\* poller.go, SetHosts: of a host without documents nothing is reported.
LEMMA NothingYet ==
    ASSUME NEW h, NEW ev, Len(ev) \in Nat
    PROVE  OneEach(h, <<>>, ev, Len(ev))
<1> DEFINE f == [c \in {} |-> 0]
<1>1. ChangesIn(<<>>) = {} /\ ReportsIn(h, ev, Len(ev)) = {}
  BY DEF ChangesIn, ReportsIn
<1>2. f \in Bijection({}, {})
  BY BijectionIs
<1> QED
  BY <1>1, <1>2 DEF OneEach

\* A step adds the events of the changes it files, and drops none before the list is full.
LEMMA ReportsKept ==
    ASSUME IInv, PageInv, AllReported, HNext
    PROVE  AllReported'
<1> SUFFICES ASSUME Len(events') < MaxEvents, NEW h \in hosts'
             PROVE  entered'[h] \in 0..Len(events') /\ OneEach(h, obs'[h], events', entered'[h])
  BY DEF AllReported, OneEach, ChangesIn, ReportsIn, EventIn, Shows, Code, StateEvent
<1>1. EventsOK /\ ShownOK /\ events \in Seq(Event)
  BY DEF PageInv, EventsOK
<1>2. PICK new \in Seq(Event) : HostsSee(new)
  BY <1>1, HostStep
<1>3. Len(events) < MaxEvents /\ events' = events \o new
  <2>1. CASE events' = AddEvents(new)
    BY <1>1, <2>1, AddEventsKeeps
  <2>2. CASE events' = events /\ new = <<>>
    BY <1>1, <2>2
  <2> QED
    BY <1>2, <2>1, <2>2 DEF HostsSee, Gets
<1>4. /\ Len(events) \in Nat /\ Len(events') \in Nat /\ Len(events) <= Len(events')
      /\ \A g \in hosts' : entered'[g] = IF g \in hosts THEN entered[g] ELSE Len(events')
  BY <1>1, <1>3, Longer, ObsStep
<1>5. CASE Entered(h)
  <2>1. obs'[h] = <<>> /\ entered'[h] = Len(events')
    BY <1>4, <1>5 DEF Entered
  <2> QED
    BY <1>4, <2>1, NothingYet
<1>6. ASSUME h \in hosts
      PROVE  /\ entered'[h] = entered[h] /\ entered[h] \in 0..Len(events) /\ entered'[h] \in 0..Len(events')
             /\ OneEach(h, obs[h], events, entered[h])
  BY <1>3, <1>4, <1>6 DEF AllReported
<1>7. CASE KeptShown(h) /\ Quiet(h, new)
  <2>1. h \in hosts /\ obs'[h] = obs[h]
    BY <1>7 DEF KeptShown
  <2> QED
    BY <1>1, <1>3, <1>6, <1>7, <2>1, QuietReports
<1>8. CASE FiledDoc(h, new)
  <2>1. h \in hosts
    BY <1>8 DEF FiledDoc
  <2>2. PICK d \in Doc, t \in Time \ {Zero} :
          obs'[h] = Append(obs[h], [at |-> t, rows |-> d]) /\ Tells(h, d, t, new)
    BY <1>8 DEF FiledDoc
  <2> QED
    BY <1>1, <1>3, <1>6, <2>1, <2>2, NewDocReported
<1> QED
  BY <1>2, <1>5, <1>7, <1>8 DEF HostsSee

\* poller.go and events.go: for any hosts, resources and length of the list, the state
\* events of a host in a list that has not overflowed are its changes, each of them once.
THEOREM ChangesReported == HSpec => []EveryChangeReported
<1>1. HInit => AllReported
  <2> SUFFICES ASSUME HInit, NEW h \in hosts
               PROVE  entered[h] \in 0..Len(events) /\ OneEach(h, obs[h], events, entered[h])
    BY DEF AllReported
  <2>1. entered[h] = 0 /\ events = <<>> /\ obs[h] = <<>> /\ Len(events) = 0
    BY DEF HInit, Init
  <2> QED
    BY <2>1, NothingYet
<1>2. IInv /\ PageInv /\ AllReported /\ [HNext]_hvars => AllReported'
  <2>1. ASSUME UNCHANGED hvars, AllReported PROVE AllReported'
    <3>1. hosts' = hosts /\ obs' = obs /\ events' = events /\ entered' = entered
      BY <2>1 DEF hvars, vars
    <3>2. SUFFICES ASSUME Len(events') < MaxEvents, NEW h \in hosts'
                   PROVE  entered'[h] \in 0..Len(events') /\ OneEach(h, obs'[h], events', entered'[h])
      BY DEF AllReported, OneEach, ChangesIn, ReportsIn, EventIn, Shows, Code, StateEvent
    <3> QED
      BY <2>1, <3>1, <3>2 DEF AllReported
  <2> QED
    BY <2>1, ReportsKept
<1>3. AllReported => EveryChangeReported
  <2>1. \A h \in hosts : ChangesIn(obs[h]) = Changes(h) /\ ReportsIn(h, events, entered[h]) = Reports(h)
                         /\ \A c : EventIn(h, obs[h], c) = EventOf(h, c)
    BY DEF ChangesIn, Changes, ReportsIn, Reports, EventIn, EventOf
  <2> QED
    BY <2>1 DEF AllReported, OneEach, EveryChangeReported
<1> QED
  BY <1>1, <1>2, <1>3, HistoryHolds, PTL DEF HSpec

-----------------------------------------------------------------------------
(* The inventory *)

\* Between two turns and at the top of the loop alike, the poller has the list.
PollsAtTop == turn = "top" => polled = cur.hosts

\* The inductive invariant: InventoryTypeOK and PollsInventory do not stand alone, because a
\* Reload that changes nothing goes from "top" to "idle" and leaves polled as it is.
InventoryInv == InventoryTypeOK /\ PollsInventory /\ PollsAtTop

\* What StaleIsKept says of a step.
KeptWhenStale ==
    loaded /\ cur' # cur =>
        IF cur'.stale
        THEN cur'.hosts = cur.hosts /\ cur'.errors
        ELSE /\ file.there /\ ~file.bad
             /\ cur'.hosts = file.hosts /\ (cur'.errors <=> file.hosts = {})

-----------------------------------------------------------------------------
(* The steps *)

\* Return: what it makes of turn, polled and statted, once the inventory is typed.
LEMMA ReturnKeeps ==
    ASSUME InventoryTypeOK, PollsAtTop, turn \in {"first", "top"}, NEW changed \in BOOLEAN,
           cur' \in [hosts : SUBSET Name, errors : BOOLEAN, stale : BOOLEAN],
           ~changed => cur'.hosts = cur.hosts,
           Return(changed)
    PROVE  /\ turn' \in {"idle", "exit"} /\ statted' = NoStamp
           /\ polled' \in SUBSET Name /\ polled' = cur'.hosts
<1>1. turn' \in {"idle", "exit"} /\ statted' = NoStamp
  BY DEF Return
<1>2. polled' = cur'.hosts
  <2>1. CASE changed \/ turn = "first"
    BY <2>1 DEF Return
  <2>2. CASE ~changed /\ turn = "top"
    BY <2>2 DEF Return, PollsAtTop
  <2> QED
    BY <2>1, <2>2
<1> QED
  BY <1>1, <1>2

\* inventory.go, Reload, when stat or open fails: the list is kept.
LEMMA MissingKeeps ==
    ASSUME InventoryTypeOK, PollsAtTop, turn \in {"first", "top"}, Missing, UNCHANGED <<file, edits>>
    PROVE  InventoryInv' /\ KeptWhenStale
<1>1. /\ cur' \in [hosts : SUBSET Name, errors : BOOLEAN, stale : BOOLEAN]
      /\ cur'.hosts = cur.hosts /\ cur'.errors /\ cur'.stale = loaded
  BY DEF Missing, InventoryTypeOK
<1>2. /\ turn' \in {"idle", "exit"} /\ statted' = NoStamp
      /\ polled' \in SUBSET Name /\ polled' = cur'.hosts
  BY <1>1, ReturnKeeps DEF Missing
<1>3. InventoryTypeOK'
  BY <1>1, <1>2, EditsAssumption DEF InventoryTypeOK, Missing, NoStamp
<1> QED
  BY <1>1, <1>2, <1>3 DEF InventoryInv, PollsInventory, PollsAtTop, KeptWhenStale

\* inventory.go, Reload: stat, which may end the Reload.
LEMMA StatKeeps == ASSUME InventoryInv, Stat PROVE InventoryInv' /\ KeptWhenStale
<1> USE DEF InventoryInv
<1>0. turn \in {"first", "top"} /\ UNCHANGED <<file, edits>>
  BY DEF Stat
<1>1. CASE Missing
  BY <1>0, <1>1, MissingKeeps
<1>2. CASE Return(FALSE) /\ UNCHANGED <<cur, loaded, stamp>>
  <2>1. cur' \in [hosts : SUBSET Name, errors : BOOLEAN, stale : BOOLEAN]
    BY <1>2 DEF InventoryTypeOK
  <2>2. /\ turn' \in {"idle", "exit"} /\ statted' = NoStamp
        /\ polled' \in SUBSET Name /\ polled' = cur'.hosts
    BY <1>0, <1>2, <2>1, ReturnKeeps
  <2>3. InventoryTypeOK'
    BY <1>0, <1>2, <2>2, EditsAssumption DEF InventoryTypeOK, NoStamp
  <2> QED
    BY <1>2, <2>2, <2>3 DEF PollsInventory, PollsAtTop, KeptWhenStale
<1>3. CASE statted' = file.stamp /\ UNCHANGED <<cur, loaded, stamp, turn, polled>>
  <2>1. InventoryTypeOK'
    BY <1>0, <1>3, EditsAssumption DEF InventoryTypeOK, NoStamp
  <2> QED
    BY <1>3, <2>1 DEF PollsInventory, PollsAtTop, KeptWhenStale
<1> QED
  BY <1>1, <1>2, <1>3 DEF Stat

\* inventory.go, Reload: open, parse, and keep or adopt.
LEMMA ReadKeeps == ASSUME InventoryInv, Read PROVE InventoryInv' /\ KeptWhenStale
<1> USE DEF InventoryInv
<1>0. turn \in {"first", "top"} /\ UNCHANGED <<file, edits>>
  BY DEF Read, InventoryTypeOK
<1>1. CASE Missing
  BY <1>0, <1>1, MissingKeeps
<1>2. ASSUME stamp' = statted, KeepOld PROVE InventoryInv' /\ KeptWhenStale
  <2>1. /\ cur' \in [hosts : SUBSET Name, errors : BOOLEAN, stale : BOOLEAN]
        /\ cur'.hosts = cur.hosts /\ cur'.errors /\ cur'.stale
    BY <1>2 DEF KeepOld, InventoryTypeOK
  <2>2. /\ turn' \in {"idle", "exit"} /\ statted' = NoStamp
        /\ polled' \in SUBSET Name /\ polled' = cur'.hosts
    BY <1>0, <1>2, <2>1, ReturnKeeps DEF KeepOld
  <2>3. InventoryTypeOK'
    BY <1>0, <1>2, <2>1, <2>2, EditsAssumption DEF InventoryTypeOK, KeepOld, NoStamp
  <2> QED
    BY <2>1, <2>2, <2>3 DEF PollsInventory, PollsAtTop, KeptWhenStale
<1>3. ASSUME stamp' = statted, file.there, ~(loaded /\ file.bad), Adopt
      PROVE  InventoryInv' /\ KeptWhenStale
  <2>1. /\ cur' \in [hosts : SUBSET Name, errors : BOOLEAN, stale : BOOLEAN]
        /\ ~cur'.stale /\ cur'.hosts = file.hosts /\ (cur'.errors <=> file.bad \/ file.hosts = {})
    BY <1>3 DEF Adopt, InventoryTypeOK
  <2>2. /\ turn' \in {"idle", "exit"} /\ statted' = NoStamp
        /\ polled' \in SUBSET Name /\ polled' = cur'.hosts
    BY <1>0, <1>3, <2>1, ReturnKeeps DEF Adopt
  <2>3. InventoryTypeOK'
    BY <1>0, <1>3, <2>1, <2>2, EditsAssumption DEF InventoryTypeOK, Adopt, NoStamp
  <2> QED
    BY <1>3, <2>1, <2>2, <2>3 DEF PollsInventory, PollsAtTop, KeptWhenStale
<1> QED
  BY <1>1, <1>2, <1>3 DEF Read

\* The people who edit the file touch nothing that Reload keeps.
LEMMA EditKeeps == ASSUME InventoryInv, Edit PROVE InventoryInv' /\ KeptWhenStale
<1> USE DEF InventoryInv
<1>1. /\ UNCHANGED <<cur, loaded, stamp, turn, statted, polled>>
      /\ edits' \in 1 .. MaxEdits + 1
      /\ file' \in [there : BOOLEAN, hosts : SUBSET Name, bad : BOOLEAN, stamp : 1 .. MaxEdits + 1]
  <2>0. edits \in Nat /\ edits >= 1 /\ MaxEdits \in Nat
    BY EditsAssumption DEF InventoryTypeOK
  <2>1. CASE Move
    <3>1. edits' \in 1 .. MaxEdits + 1
      BY <2>0, <2>1 DEF Move
    <3>2. (~file.there) \in BOOLEAN
      BY Zenon
    <3>3. file' \in [there : BOOLEAN, hosts : SUBSET Name, bad : BOOLEAN, stamp : 1 .. MaxEdits + 1]
      BY <2>1, <3>2 DEF Move, InventoryTypeOK
    <3> QED
      BY <2>1, <3>1, <3>3 DEF Move
  <2>2. ASSUME NEW hs \in SUBSET Name, NEW bad \in BOOLEAN, Save(hs, bad)
        PROVE  /\ UNCHANGED <<cur, loaded, stamp, turn, statted, polled>>
               /\ edits' \in 1 .. MaxEdits + 1
               /\ file' \in [there : BOOLEAN, hosts : SUBSET Name, bad : BOOLEAN, stamp : 1 .. MaxEdits + 1]
    <3>1. edits' \in 1 .. MaxEdits + 1
      BY <2>0, <2>2 DEF Save
    <3> QED
      BY <2>2, <3>1 DEF Save
  <2> QED
    BY <2>1, <2>2 DEF Edit
<1>2. InventoryTypeOK'
  BY <1>1 DEF InventoryTypeOK
<1> QED
  BY <1>1, <1>2 DEF PollsInventory, PollsAtTop, KeptWhenStale

\* Every step keeps the invariant, and changes the inventory in two ways only.
LEMMA InventoryStep == ASSUME InventoryInv, [InventoryNext]_inventoryVars PROVE InventoryInv' /\ KeptWhenStale
<1>1. CASE Stat
  BY <1>1, StatKeeps
<1>2. CASE Read
  BY <1>2, ReadKeeps
<1>3. CASE Edit
  BY <1>3, EditKeeps
<1>4. CASE Turn
  <2>1. InventoryTypeOK'
    BY <1>4 DEF InventoryInv, Turn, InventoryTypeOK
  <2> QED
    BY <1>4, <2>1 DEF InventoryInv, Turn, PollsInventory, PollsAtTop, KeptWhenStale
<1>5. CASE UNCHANGED inventoryVars
  <2>1. InventoryTypeOK'
    BY <1>5 DEF InventoryInv, inventoryVars, InventoryTypeOK
  <2> QED
    BY <1>5, <2>1 DEF InventoryInv, inventoryVars, PollsInventory, PollsAtTop, KeptWhenStale
<1> QED
  BY <1>1, <1>2, <1>3, <1>4, <1>5 DEF InventoryNext, Reload, Exited

\* server.go, Main: before the first Reload there is nothing.
LEMMA InventoryStarts == InventoryInit => InventoryInv
<1> SUFFICES ASSUME InventoryInit PROVE InventoryInv
  OBVIOUS
<1>1. edits \in 1 .. MaxEdits + 1 /\ 1 \in 1 .. MaxEdits + 1 /\ 0 \in 0 .. MaxEdits + 1
  BY EditsAssumption DEF InventoryInit
<1>2. file \in [there : BOOLEAN, hosts : SUBSET Name, bad : BOOLEAN, stamp : 1 .. MaxEdits + 1]
  BY <1>1 DEF InventoryInit
<1>3. InventoryTypeOK
  BY <1>1, <1>2 DEF InventoryInit, InventoryTypeOK, NoStamp
<1> QED
  BY <1>3 DEF InventoryInit, InventoryInv, PollsInventory, PollsAtTop

\* The invariant holds in every state the program can reach.
LEMMA InventoryHolds == InventorySpec => []InventoryInv
<1>1. InventoryInv /\ [InventoryNext]_inventoryVars => InventoryInv'
  BY InventoryStep
<1> QED
  BY InventoryStarts, <1>1, PTL DEF InventorySpec

-----------------------------------------------------------------------------
(* The theorems *)

\* The state is always well typed, for any hosts and number of edits.
THEOREM InventoryTyped == InventorySpec => []InventoryTypeOK
<1>1. InventoryInv => InventoryTypeOK
  BY DEF InventoryInv
<1> QED
  BY InventoryHolds, <1>1, PTL

\* server.go, Main and loop: however edits fall between stat and read, the poller
\* polls the inventory in use between two turns.
THEOREM Polled == InventorySpec => []PollsInventory
<1>1. InventoryInv => PollsInventory
  BY DEF InventoryInv
<1> QED
  BY InventoryHolds, <1>1, PTL

\* inventory.go, Reload: however edits fall between stat and read, a loaded inventory
\* is only marked stale as it is, or replaced by a file without bad lines.
THEOREM StaleKept == InventorySpec => StaleIsKept
<1>1. InventoryInv /\ [InventoryNext]_inventoryVars => [KeptWhenStale]_inventoryVars
  BY InventoryStep
<1> QED
  BY InventoryHolds, <1>1, PTL DEF InventorySpec, StaleIsKept, KeptWhenStale
=============================================================================
