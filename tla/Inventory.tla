------------------------------- MODULE Inventory -------------------------------
(***************************************************************************)
(* The hot-reloaded host list of the fleet poller (internal/fleet:         *)
(* inventory.go, invStore; server.go, Main and the top of loop).           *)
(*                                                                         *)
(* The file is edited by people while Reload looks at it.  Reload first    *)
(* stats the file and then opens and parses it; an edit may fall between   *)
(* the two.  invStore.mu is held all along, so no reader of the inventory  *)
(* sees the middle of a Reload.  The content of a file is abstracted to    *)
(* the hosts of its good lines and to whether it has any bad line; its     *)
(* stamp stands for the modification time and size.                        *)
(*                                                                         *)
(* A definition marked "Faulty:" is a plausible mistake in the code of the *)
(* definition after it; nothing uses it (see FleetPoller).                 *)
(***************************************************************************)
EXTENDS Naturals, FiniteSets

CONSTANTS
    Name,      \* host names that may be listed
    MaxEdits   \* bound of the model: edits of the file

ASSUME EditsAssumption == MaxEdits \in Nat

VARIABLES
    file,     \* [there, hosts, bad, stamp]
    edits,    \* edits so far; also the source of new stamps
    cur,      \* invStore.cur: [hosts, errors, stale]
    loaded,   \* invStore.loaded
    stamp,    \* invStore.modTime and size; NoStamp after a failed stat or open
    turn,     \* "first": Main's Reload; "idle", "top": the loop; "exit"
    statted,  \* the stamp returned by os.Stat, or NoStamp
    polled    \* the hosts last given to Poller.SetHosts

inventoryVars == <<file, edits, cur, loaded, stamp, turn, statted, polled>>

NoStamp == 0

InventoryInit ==
    /\ \E hs \in SUBSET Name, bad \in BOOLEAN :
          file = [there |-> TRUE, hosts |-> hs, bad |-> bad, stamp |-> 1]
    /\ edits = 1
    /\ cur = [hosts |-> {}, errors |-> FALSE, stale |-> FALSE]
    /\ loaded = FALSE /\ stamp = NoStamp /\ statted = NoStamp
    /\ turn = "first" /\ polled = {}

-----------------------------------------------------------------------------
(* The people who edit the file *)

\* A new version is saved.  An editor that truncates and rewrites the file is
\* two such steps, the first one leaving it empty.
Save(hs, bad) ==
    /\ edits < MaxEdits /\ turn # "exit"
    /\ edits' = edits + 1
    /\ file' = [there |-> TRUE, hosts |-> hs, bad |-> bad, stamp |-> edits']
    /\ UNCHANGED <<cur, loaded, stamp, turn, statted, polled>>

\* The file is moved away, or put back as it was, its times preserved.
Move ==
    /\ edits < MaxEdits /\ turn # "exit"
    /\ edits' = edits + 1
    /\ file' = [file EXCEPT !.there = ~file.there]
    /\ UNCHANGED <<cur, loaded, stamp, turn, statted, polled>>

-----------------------------------------------------------------------------
(* Reload *)

\* Faulty: the result of os.Stat is kept for the next Reload.
ReturnKeepsStat(changed) ==
    /\ UNCHANGED statted
    /\ turn' = IF turn = "first" /\ cur'.hosts = {} THEN "exit" ELSE "idle"
    /\ polled' = IF changed \/ turn = "first" THEN cur'.hosts ELSE polled

\* Faulty: the poller is told of the inventory only once, in Main.
ReturnTellsOnce(changed) ==
    /\ statted' = NoStamp
    /\ turn' = IF turn = "first" /\ cur'.hosts = {} THEN "exit" ELSE "idle"
    /\ polled' = IF turn = "first" THEN cur'.hosts ELSE polled

\* After Reload: Main gives up without a host; the loop goes on to its Round.
\* SetHosts gets the inventory if Reload returned TRUE, and always in Main.
Return(changed) ==
    /\ statted' = NoStamp
    /\ turn' = IF turn = "first" /\ cur'.hosts = {} THEN "exit" ELSE "idle"
    /\ polled' = IF changed \/ turn = "first" THEN cur'.hosts ELSE polled

\* Faulty: the stamp survives a failed stat.
MissingKeepsStamp ==
    /\ cur' = [cur EXCEPT !.errors = TRUE, !.stale = loaded]
    /\ UNCHANGED <<stamp, loaded>>
    /\ Return(FALSE)

\* Neither stat nor open worked: keep the list, and forget the stamp so that
\* the file is read again when it is back.
Missing ==
    /\ cur' = [cur EXCEPT !.errors = TRUE, !.stale = loaded]
    /\ stamp' = NoStamp
    /\ UNCHANGED loaded
    /\ Return(FALSE)

\* os.Stat and the comparison with the last stamp.
Stat ==
    /\ turn \in {"first", "top"} /\ statted = NoStamp
    /\ \/ /\ ~file.there
          /\ Missing
       \/ /\ file.there /\ loaded /\ file.stamp = stamp
          /\ Return(FALSE)
          /\ UNCHANGED <<cur, loaded, stamp>>
       \/ /\ file.there /\ ~(loaded /\ file.stamp = stamp)
          /\ statted' = file.stamp
          /\ UNCHANGED <<cur, loaded, stamp, turn, polled>>
    /\ UNCHANGED <<file, edits>>

\* Faulty: the good lines of a file with problems are taken over.
KeepGoodLines ==
    /\ cur' = [hosts |-> file.hosts, errors |-> TRUE, stale |-> TRUE]
    /\ UNCHANGED loaded
    /\ Return(TRUE)

\* A file with problems, when there is a version to keep.
KeepOld ==
    /\ cur' = [cur EXCEPT !.errors = TRUE, !.stale = TRUE]
    /\ UNCHANGED loaded
    /\ Return(FALSE)

\* A file without problems, or the first one.
Adopt ==
    /\ cur' = [hosts |-> file.hosts, errors |-> file.bad \/ file.hosts = {}, stale |-> FALSE]
    /\ loaded' = TRUE
    /\ Return(TRUE)

\* os.Open, ParseInventory and the decision.
Read ==
    /\ statted # NoStamp
    /\ \/ ~file.there /\ Missing
       \/ /\ file.there
          /\ stamp' = statted
          /\ IF loaded /\ file.bad THEN KeepOld ELSE Adopt
    /\ UNCHANGED <<file, edits>>

\* The ticker starts the next turn of the loop.
Turn ==
    /\ turn = "idle"
    /\ turn' = "top"
    /\ UNCHANGED <<file, edits, cur, loaded, stamp, statted, polled>>

Exited == turn = "exit" /\ UNCHANGED inventoryVars

Reload == Stat \/ Read
Edit == Move \/ \E hs \in SUBSET Name, bad \in BOOLEAN : Save(hs, bad)
InventoryNext == Reload \/ Edit \/ Turn \/ Exited

\* The loop turns and runs Reload on every turn.
InventorySpec ==
    /\ InventoryInit /\ [][InventoryNext]_inventoryVars
    /\ WF_inventoryVars(Reload) /\ WF_inventoryVars(Turn)

-----------------------------------------------------------------------------
(* Properties *)

\* The type invariant.
InventoryTypeOK ==
    /\ file \in [there : BOOLEAN, hosts : SUBSET Name, bad : BOOLEAN, stamp : 1 .. MaxEdits + 1]
    /\ edits \in 1 .. MaxEdits + 1
    /\ cur \in [hosts : SUBSET Name, errors : BOOLEAN, stale : BOOLEAN]
    /\ loaded \in BOOLEAN
    /\ stamp \in 0 .. MaxEdits + 1 /\ statted \in 0 .. MaxEdits + 1
    /\ turn \in {"first", "idle", "top", "exit"}
    /\ statted # NoStamp => turn \in {"first", "top"}
    /\ polled \in SUBSET Name

\* What the loaded inventory has to say about the file on disk.
ShowsFile ==
    IF file.there /\ ~file.bad
    THEN cur.hosts = file.hosts /\ ~cur.stale /\ (cur.errors <=> file.hosts = {})
    ELSE cur.errors

\* inventory.go, Reload: once nobody edits the file any more, the inventory ends
\* up showing it: its hosts if it is good, an error if it is bad or gone.  A save
\* between stat and open, or a file put back with its old times, is not missed.
CatchesUp == <>[](ShowsFile \/ turn = "exit")

\* server.go, Main and loop: between two turns the poller polls exactly the hosts
\* of the inventory in use.
PollsInventory == turn = "idle" => polled = cur.hosts

\* inventory.go, Reload: once there is an inventory, good or not (the first file is
\* adopted with its bad lines), it changes in two ways only.  It is marked stale, with
\* a problem to show, and its hosts are kept; or a file without bad lines is adopted
\* whole, its only problem being that it lists nobody.
StaleIsKept ==
    [][loaded /\ cur' # cur =>
          IF cur'.stale
          THEN cur'.hosts = cur.hosts /\ cur'.errors
          ELSE /\ file.there /\ ~file.bad
               /\ cur'.hosts = file.hosts /\ (cur'.errors <=> file.hosts = {})]_inventoryVars

\* inventory.go:213 (comment of Reload): once there is a version to keep, a new
\* file with any problem is not adopted.
ProblemKeepsHosts == [][loaded /\ cur' # cur /\ cur'.errors => cur'.hosts = cur.hosts]_inventoryVars
=============================================================================
