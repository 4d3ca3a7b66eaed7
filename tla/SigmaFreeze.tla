------------------------------ MODULE SigmaFreeze ------------------------------
(***************************************************************************)
(* The baseline of a metric and what keeps a fault out of it (heatmap.go,  *)
(* sigmaLoop): every five minutes the diagnosis is asked with the sigma in *)
(* force, what it reports is marked, with a start an hour back, what it no *)
(* longer reports is cleared, and sigma is computed anew from the history  *)
(* without the marked part.  The history survives a restart, marks do not. *)
(* One tick is five minutes: one sample of the long-term tier and one      *)
(* round of sigmaLoop.  A fault adds Jump to the metric.                   *)
(***************************************************************************)
EXTENDS Deviation, TLC

CONSTANTS
    Jump,            \* size of the fault
    Backdate,        \* anomalyBackdate
    Retain,          \* samples of the long-term tier
    Noise,           \* values of the metric without fault, one for each tick in turn
    MaxTime, MaxChanges, MaxMisses, MaxRestarts, MaxGap   \* bounds of the model

ASSUME SigmaAssumption ==
    /\ Noise \in Seq(Int) /\ Noise # <<>> /\ Jump \in Int
    /\ Backdate \in Nat /\ Retain \in Nat \ {0} /\ MaxGap \in Nat

VARIABLES
    now,
    fault,           \* the fault is active
    hist,            \* samples, oldest first
    frozen,          \* start of the anomaly, Never if not marked
    sigma,           \* the table, for the hour of now: lag |-> statistics
    alarm,           \* the last round of sigmaLoop found the metric in the chain
    changes, misses, restarts

vars == <<now, fault, hist, frozen, sigma, alarm, changes, misses, restarts>>

LagIdx == DOMAIN Lags

\* RefreshSigma for the hour in which sigma is asked next.
Refreshed(h, since, hour) == [i \in LagIdx |-> SigmaOf(h, Lags[i], since, hour)]

Sample(t, f) == [ts |-> t, v |-> Noise[(t % Len(Noise)) + 1] + (IF f THEN Jump ELSE 0)]
\* The samples are in order, so what is too old is in front.
Kept(h, t) == SubSeq(h, Cardinality({i \in DOMAIN h : h[i].ts <= t - Retain}) + 1, Len(h))

Init ==
    /\ now = 0 /\ fault = FALSE
    /\ hist = <<Sample(0, FALSE)>>
    /\ frozen = Never
    /\ sigma = Refreshed(hist, Never, HourOf(1))
    /\ alarm = FALSE
    /\ changes = 0 /\ misses = 0 /\ restarts = 0

-----------------------------------------------------------------------------
\* latestDeviations: lags of low confidence take no part in a conclusion.
ZNow(h) == [i \in LagIdx |-> IF sigma[i].low THEN NaN ELSE ZOf(h, Lags[i], sigma[i], 1)]

\* fromDeviations, causal: the largest deviation is up, and over the threshold.
Reported(h) == LET peak == PeakOf(ZNow(h)) IN peak # NaN /\ peak >= 60

\* MarkAnomaly keeps the first start, ClearAnomaly forgets what is not reported.
MarkedAgain(reported, t) == IF reported THEN t - Backdate ELSE Never
Marked(reported, t) ==
    IF ~reported THEN Never ELSE IF frozen # Never THEN frozen ELSE AtLeast(t - Backdate, 0)

\* A round of sigmaLoop; the chain may miss what deviates, when another metric of
\* its class leads or its level is still fine.
Tick ==
    /\ now < MaxTime
    /\ now' = now + 1
    /\ hist' = Kept(Append(hist, Sample(now', fault)), now')
    /\ \E miss \in BOOLEAN :
         /\ miss => misses < MaxMisses /\ Reported(hist')
         /\ misses' = misses + (IF miss THEN 1 ELSE 0)
         /\ alarm' = (Reported(hist') /\ ~miss)
    /\ frozen' = Marked(alarm', now')
    /\ sigma' = Refreshed(hist', frozen', HourOf(now' + 1))
    /\ UNCHANGED <<fault, changes, restarts>>

FaultChanges ==
    /\ changes < MaxChanges
    /\ fault' = ~fault /\ changes' = changes + 1
    /\ UNCHANGED <<now, hist, frozen, sigma, alarm, misses, restarts>>

\* A new process loads the history and computes sigma before anything is marked.
Restart ==
    /\ restarts < MaxRestarts
    /\ \E gap \in 0..MaxGap :
         /\ now + gap <= MaxTime
         /\ now' = now + gap
         /\ hist' = Kept(hist, now') /\ hist' # <<>>
    /\ frozen' = Never
    /\ sigma' = Refreshed(hist', Never, HourOf(now' + 1))
    /\ restarts' = restarts + 1
    /\ UNCHANGED <<fault, alarm, changes, misses>>

Next == Tick \/ FaultChanges \/ Restart

Spec == Init /\ [][Next]_vars
=============================================================================
