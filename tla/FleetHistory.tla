------------------------------ MODULE FleetHistory ------------------------------
(***************************************************************************)
(* FleetPoller with two history variables: obs[h] is the sequence of       *)
(* documents filed for host h since it entered the inventory, and          *)
(* entered[h] the number of events that the list held then.  What the page *)
(* shows of a host is stated against them.                                 *)
(***************************************************************************)
EXTENDS FleetPoller

VARIABLES obs, entered

hvars == <<vars, obs, entered>>

HInit == Init /\ obs = [h \in hosts |-> <<>>] /\ entered = [h \in hosts |-> 0]

\* The documents filed by this step.
Filed(h) == h \in DOMAIN fetching /\ fetching[h].got /\ h \notin DOMAIN fetching'

HNext ==
    /\ Next
    /\ obs' = [h \in hosts' |->
                 IF h \notin hosts THEN <<>>
                 ELSE IF Filed(h) THEN Append(obs[h], [at |-> fetching[h].t1, rows |-> fetching[h].doc])
                 ELSE obs[h]]
    /\ entered' = [h \in hosts' |-> IF h \in hosts THEN entered[h] ELSE Len(events')]

HSpec == HInit /\ [][HNext]_hvars

-----------------------------------------------------------------------------
Shows(o, r, codes) == r \in DOMAIN o.rows /\ o.rows[r] \in codes
NotOK == Code \ {"ok"}

\* poller.go, record: since[r] is set exactly while the newest document shows r
\* not ok; it is the time of the first document of that unbroken streak, and
\* sinceKnown says whether the document just before the streak showed r ok.
SinceIsStreakStart ==
    \A h \in hosts, r \in Resource :
        LET o == obs[h]
            n == Len(o)
            s == st[h]
        IN  IF n = 0 \/ (n > 0 /\ ~Shows(o[n], r, NotOK))
            THEN r \notin DOMAIN s.since
            ELSE \E k \in 1..n :
                    /\ \A i \in k..n : Shows(o[i], r, NotOK)
                    /\ k > 1 => ~Shows(o[k-1], r, NotOK)
                    /\ r \in DOMAIN s.since
                    /\ s.since[r] = o[k].at
                    /\ s.known[r] = (k > 1 /\ Shows(o[k-1], r, {"ok"}))

\* state.go, Snapshot: a host is shown green only if it answered within LostAfter
\* and its newest document reported every resource ok; a row it left out is not green.
GreenIsRecent ==
    \A h \in hosts :
        Severity(h, now) = "ok" =>
            LET n == Len(obs[h])
            IN  /\ n > 0
                /\ now - obs[h][n].at <= LostAfter
                /\ \A r \in Resource : Shows(obs[h][n], r, {"ok"})

\* poller.go and state.go: what the page says of a host is what its documents said.
PageIsTrue == SinceIsStreakStart /\ GreenIsRecent

\* The changes of resources between two consecutive documents of a host, ...
Changes(h) ==
    {c \in (2..Len(obs[h])) \X Resource :
        LET a == obs[h][c[1] - 1]
            b == obs[h][c[1]]
        IN  Shows(a, c[2], Code) /\ Shows(b, c[2], Code) /\ a.rows[c[2]] # b.rows[c[2]]}

EventOf(h, c) ==
    StateEvent(h, obs[h][c[1]].at, c[2], obs[h][c[1] - 1].rows[c[2]], obs[h][c[1]].rows[c[2]])

\* ... and the places of the state events filed since the host entered the inventory.
Reports(h) == {j \in (entered[h] + 1)..Len(events) : events[j].kind = "state" /\ events[j].host = h}

\* poller.go, record and events.go: while the list has not overflowed, the state events
\* of a host that is still in the inventory are its changes, each of them reported once:
\* no change is missing, none is reported twice, and no event comes with the first
\* document or for a resource that one of the two documents left out.
EveryChangeReported ==
    Len(events) < MaxEvents =>
        \A h \in hosts :
            \E report \in Bijection(Changes(h), Reports(h)) :
                \A c \in Changes(h) : events[report[c]] = EventOf(h, c)
=============================================================================
