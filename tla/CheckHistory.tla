------------------------------ MODULE CheckHistory ------------------------------
(***************************************************************************)
(* CheckRounds with a history variable: the slice as Run found it when it  *)
(* stopped to wait.                                                        *)
(***************************************************************************)
EXTENDS CheckRounds

VARIABLE collected

hvars == <<vars, collected>>

HInit == Init /\ collected = out

HNext ==
    /\ Next
    /\ collected' = IF runner = "wait" /\ runner' = "test" THEN out
                    ELSE IF runner' = "idle" THEN out' ELSE collected

\* The ticker and the select of Run always get to run; a goroutine of a category
\* may hang for ever.
HSpec == HInit /\ [][HNext]_hvars /\ WF_hvars(RunStep /\ HNext)

-----------------------------------------------------------------------------
(* Properties *)

InTime(c) == collected[c].total = 1
Levels(cats) == {cats[i].level : i \in DOMAIN cats}
Published == latest' # latest

\* Types; a goroutine that holds the mutex of the probe has not ended.
TypeOK ==
    /\ runner \in {"idle", "wait", "test", "append", "exit"} /\ idx \in DOMAIN Category
    /\ \A t \in DOMAIN tasks : t.round \in 1..round /\ t.cat \in Cats /\ tasks[t].level \in Level
    /\ \A c \in Cats : out[c].level \in Level /\ out[c].total \in 0..1
    /\ probe.owner # NoTask => probe.owner \in DOMAIN tasks /\ tasks[probe.owner].at = "write"

\* check.go, Run: a category that hangs, in this round or since an earlier one, changes
\* nothing for the others: each that was done in time is published as it was, in its
\* place; and when all were, the exit code is the worst level.
ResultExact ==
    []TypeOK /\
    [][Published =>
         /\ Len(latest'.cats) = Len(Category)
         /\ \A i \in DOMAIN Category :
              InTime(Category[i]) => latest'.cats[i] = collected[Category[i]]
         /\ (\A c \in Cats : InTime(c)) => latest'.exit = Max(Levels(latest'.cats))]_hvars

\* check.go:1006: the exit code is the worst of the levels published with it.
ExitIsWorst == [][Published => latest'.exit = Max(Levels(latest'.cats))]_hvars

\* check_bg.go, run: a goroutine that hangs for ever does not stop the rounds.
RoundsGoOn == (runner = "wait") ~> (runner = "idle")
=============================================================================
