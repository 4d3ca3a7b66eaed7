------------------------------ MODULE MCServiceLog ------------------------------
(* Small lives of the service log.                                         *)
EXTENDS ServiceHistory

CONSTANTS s1, s2

\* One look; and three: a service may also grow, or restart.
OneLook == {[start |-> 1, rss |-> 1]}
ThreeLooks == OneLook \cup {[start |-> 1, rss |-> 2], [start |-> 2, rss |-> 1]}
=============================================================================
