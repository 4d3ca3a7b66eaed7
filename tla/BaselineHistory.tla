---------------------------- MODULE BaselineHistory ----------------------------
(***************************************************************************)
(* Baseline with history variables: what each reading of a counter was to  *)
(* find, and how old the copies of the manual baseline are.                *)
(***************************************************************************)
EXTENDS Baseline

ASSUME CopiesAssumption == Handler \cap {"bl", "disk"} = {}

VARIABLES
    outdated,  \* which copies of the baseline are older than the last fall of a
               \* counter: subset of {"bl", "disk"} and the handlers
    judged,    \* key |-> what its last judgement judged, None after a new start: a fall
               \* of the counter, a change of the manual baseline or a restart
    reading,   \* checkers that have read their counter since the last new start, ...
    grown      \* ... and those of them that read more than was judged by then

baselineHVars == <<baselineVars, outdated, judged, reading, grown>>

BaselineHInit ==
    /\ BaselineInit
    /\ outdated = {} /\ judged = [k \in Key |-> None] /\ reading = {} /\ grown = {}

Moves(from, to) == {c \in Checker : check[c].at = from /\ check'[c].at = to}
Judges == Moves("judge", "idle") \cap {c \in Checker : restarts' = restarts}
Reads == Moves("idle", "base")
ReadsMore == {c \in Reads : LET k == check'[c].key
                            IN  judged[k] # None /\ counter[k] > judged[k]}
Falls == \E k \in Key : counter'[k] < counter[k]
Applies == \E h \in Handler : request[h].at = "apply" /\ request'[h].at = "idle"
NewStart == Falls \/ restarts' # restarts \/ bl' # bl \/ Applies

\* to takes over the values of from.
Copied(from, to) == IF from \in outdated THEN outdated \cup {to} ELSE outdated \ {to}

NextOutdated ==
    IF Falls THEN {"bl", "disk"} \cup Handler
    ELSE IF loaded' /\ ~loaded THEN Copied("disk", "bl")
    ELSE IF \E h \in Handler : request[h].at # request'[h].at
    THEN LET h == CHOOSE h \in Handler : request[h].at # request'[h].at
         IN  CASE request'[h].at = "save" -> outdated \ {h}
               [] request'[h].at = "apply" -> Copied(h, "disk")
               [] request[h].at = "apply" -> Copied(h, "bl")
               [] OTHER -> outdated
    ELSE outdated

BaselineHNext ==
    /\ BaselineNext
    /\ outdated' = NextOutdated
    /\ judged' = IF NewStart THEN [k \in Key |-> None]
                 ELSE [k \in Key |->
                         IF \E c \in Judges \cap reading : check[c].key = k
                         THEN check[CHOOSE c \in Judges : TRUE].cur
                         ELSE judged[k]]
    /\ reading' = IF NewStart THEN {} ELSE (reading \cup Reads) \ Judges
    /\ grown' = IF NewStart THEN {} ELSE (grown \cup ReadsMore) \ Judges

BaselineHSpec == BaselineHInit /\ [][BaselineHNext]_baselineHVars

-----------------------------------------------------------------------------
(* Properties *)

BaselineTypeOK ==
    /\ counter \in [Key -> Value]
    /\ \A vals \in {bl, disk} : vals # None => vals \in Vals
    /\ first \in Vals /\ loaded \in BOOLEAN
    /\ \A c \in Checker : check[c].at # "idle" => check[c].key \in Key
    /\ \A h \in Handler : request[h].vals \in Vals

Growth(c) == Delta(check[c].base, check[c].cur)
SeesGrowth(c) == (Known(bl, check[c].key) => "bl" \notin outdated) => Growth(c) > 0

\* check/baseline.go:82: growth since the last judgement is reported, also after the
\* counter started again from zero, as long as the manual baseline is not older than
\* that. (For goroutines that judge one after the other: a late one of an earlier round
\* that judges in between hides growth once.)
GrowthSeen == [][\A c \in Judges \cap grown : SeesGrowth(c)]_baselineHVars

\* check/baseline.go:85: ... also when the manual baseline is older than that.
GrowthSeenAlways == [][\A c \in Judges \cap grown : Growth(c) > 0]_baselineHVars

\* check/baseline.go:165: a manual baseline in force, once no request is in progress,
\* is the one that the next process will find, whatever write or removal failed.
BaselineDurable ==
    BaselineTypeOK /\ ((\A h \in Handler : request[h].at = "idle") => bl \in {None, disk})
=============================================================================
