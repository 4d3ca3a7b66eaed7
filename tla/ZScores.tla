-------------------------------- MODULE ZScores --------------------------------
(***************************************************************************)
(* Deviations z as sequences over the lags.  A z is an integer in          *)
(* twentieths (ZInt8), NaN when the lag is not ready.                      *)
(***************************************************************************)
EXTENDS Integers, Sequences, FiniteSets, SequencesExt

NaN == 1000
ZThreshold == 60                 \* three sigma

Abs(x) == IF x < 0 THEN -x ELSE x

FirstKnown(z) ==
    LET known == {i \in DOMAIN z : z[i] # NaN}
    IN  IF known = {} THEN NaN ELSE z[CHOOSE i \in known : \A j \in known : i <= j]

\* peakZ: the z of largest size, the first of them when they tie; NaN if all are.
PeakOf(z) ==
    LET known == {i \in DOMAIN z : z[i] # NaN}
    IN  IF known = {} THEN NaN
        ELSE z[CHOOSE i \in known : \A j \in known : Abs(z[j]) < Abs(z[i]) \/ (Abs(z[j]) = Abs(z[i]) /\ i <= j)]

\* headLags, Classify: the lags at or over the threshold.
LagsOver(z) == {i \in DOMAIN z : z[i] # NaN /\ Abs(z[i]) >= ZThreshold}

\* sustainedZ: over the newest points, for each lag the smallest of one sign.
Sustained(points) ==
    LET Both(a, b) == IF NaN \in {a, b} THEN NaN
                      ELSE IF a * b <= 0 THEN 0
                      ELSE IF Abs(b) < Abs(a) THEN b ELSE a
    IN  [i \in DOMAIN Head(points) |->
            FoldLeft(LAMBDA z, p : Both(z, p[i]), Head(points)[i], Tail(points))]
=============================================================================
