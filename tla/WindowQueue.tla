------------------------------ MODULE WindowQueue ------------------------------
(***************************************************************************)
(* What a tier of a series promises: it shows the newest Limit points ever *)
(* appended, in the order they came, or all of them while there are fewer; *)
(* the oldest ones shown may be cut off.                                   *)
(***************************************************************************)
EXTENDS Integers, Sequences

CONSTANTS Point, Limit

VARIABLE win

\* The last n elements of s, or s itself.
Newest(s, n) == IF Len(s) > n THEN SubSeq(s, Len(s) - n + 1, Len(s)) ELSE s

Init == win = <<>>
Put(p) == win' = Newest(Append(win, p), Limit)
\* Prune: the k oldest are dropped.
Trim(k) == win' = SubSeq(win, k + 1, Len(win))
Next == (\E p \in Point : Put(p)) \/ \E k \in 1 .. Len(win) : Trim(k)
Spec == Init /\ [][Next]_win
=============================================================================
