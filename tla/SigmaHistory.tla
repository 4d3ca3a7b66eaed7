----------------------------- MODULE SigmaHistory -----------------------------
(***************************************************************************)
(* SigmaFreeze with history variables: when the fault began, and since     *)
(* when it has been reported without a miss or a restart.                  *)
(***************************************************************************)
EXTENDS SigmaFreeze

VARIABLES
    began,    \* first sample of the fault, Never if there is none
    seen,     \* first round that reported it, Never after a miss or a restart
    clean     \* the fault began on a history without any other

hvars == <<vars, began, seen, clean>>

HInit == Init /\ began = Never /\ seen = Never /\ clean = TRUE

Faulty(s) == s.v >= Jump
HNext ==
    /\ Next
    /\ began' = IF ~fault' THEN Never ELSE IF fault THEN began ELSE now + 1
    /\ seen' = IF ~fault' \/ restarts' # restarts \/ (now' # now /\ ~alarm') THEN Never
               ELSE IF now' # now /\ seen = Never THEN now' ELSE seen
    /\ clean' = IF fault' /\ ~fault THEN \A i \in DOMAIN hist : ~Faulty(hist[i])
                ELSE IF restarts' # restarts THEN FALSE ELSE clean

HSpec == HInit /\ [][HNext]_hvars

-----------------------------------------------------------------------------
(* Properties *)

TypeOK ==
    /\ hist # <<>> /\ \A i \in 2..Len(hist) : hist[i - 1].ts < hist[i].ts
    /\ Last(hist).ts <= now /\ hist[1].ts > now - Retain
    /\ frozen \in {Never} \cup 0..now /\ (frozen # Never => alarm)
    /\ \A i \in LagIdx : sigma[i].sigma > 0 /\ sigma[i].n \in 0..Len(hist)

\* deviation.go:140: the scan pairs each sample with the nearest one a lag before it,
\* within the tolerance, also over gaps: with what Z looks up.
PairsAreNearest ==
    \A i \in LagIdx :
       LET lag == Lags[i]
           nearest == {<<k, Lookup(hist, hist[k].ts - lag, LagTolerance(lag))>> :
                        k \in {k \in DOMAIN hist : hist[k].ts - lag >= hist[1].ts}}
       IN  Pairs(hist, lag, Never) = {q \in nearest : q[2] # 0}

\* The fault has been reported in every round since the marks could reach its start.
InTime == began # Never /\ seen # Never /\ seen - began < Backdate

\* heatmap.go:36: as long as a fault is reported and is not yet the new normal, sigma
\* is that of the history before it, although it is marked only after it began.
BaselineBeforeFault ==
    /\ TypeOK
    /\ (InTime /\ clean /\ Excluded(hist, frozen) = frozen) =>
          \A i \in LagIdx : \A q \in Pairs(hist, Lags[i], frozen) : hist[q[1]].ts < began

\* A lag whose statistics count and which leads back before the fault.
Reaches(i) ==
    /\ sigma[i].ready /\ ~sigma[i].low
    /\ Lookup(hist', now' - Lags[i], LagTolerance(Lags[i])) # 0
    /\ now' - Lags[i] + LagTolerance(Lags[i]) < began

\* heatmap.go:30: ... and so the alarm does not go away by itself while the fault
\* goes on and some lag still leads back before it.
AlarmStays ==
    [][InTime /\ clean /\ Excluded(hist, frozen) = frozen
       /\ now' = now + 1 /\ fault /\ misses' = misses /\ restarts' = restarts
       /\ (\E i \in LagIdx : Reaches(i)) => alarm']_hvars

\* heatmap.go:56 says more: the first mark is kept, so a fault once left out stays out
\* while it lasts.  A missed round or a restart clears the mark.
StaysExcluded ==
    [][InTime /\ clean /\ frozen # Never /\ Excluded(hist, frozen) = frozen
       /\ fault /\ fault' /\ (restarts' # restarts \/ \E i \in LagIdx : Reaches(i))
       /\ Excluded(hist', frozen) = frozen =>
          \A i \in LagIdx : \A q \in Pairs(hist', Lags[i], Excluded(hist', frozen')) :
             hist'[q[1]].ts < began]_hvars

\* deviation.go:198: leaving samples out does not make a lag blind.
Sighted(i, since) == SigmaOf(hist, Lags[i], since, HourOf(Last(hist).ts)).ready
SightKeptAll == frozen # Never => \A i \in LagIdx : Sighted(i, Never) => Sighted(i, frozen)
\* ... and never the shortest one.
SightKept == frozen # Never => (Sighted(1, Never) => Sighted(1, frozen))
=============================================================================
