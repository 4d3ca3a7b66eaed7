-------------------------------- MODULE MCRates --------------------------------
(***************************************************************************)
(* Counters and processes share nothing but the clock: each behaviour that *)
(* is checked has events of one of them only.  A table that overflows      *)
(* needs more names and more work: a third kind of behaviour has a process *)
(* of each name, all of them read by every round.                          *)
(***************************************************************************)
EXTENDS CounterRates, TLC

CONSTANTS FewEvents  \* bound of the first two kinds

\* A name is only compared and ranked by its use.
Names == Permutations(Key)

VARIABLE focus

MCInit == Init /\ focus \in {"counters", "processes", "names"}

\* One process of each name starts at the first moment and works after the first scan.
OfEachName ==
    /\ count' = count /\ throttled' = throttled /\ misses' = misses
    /\ \A p, q \in DOMAIN procs' : ~procs'[p].limited /\ (procs'[p].key = procs'[q].key => p = q)
    /\ DOMAIN procs \subseteq DOMAIN procs' /\ DOMAIN procs' = 1..Cardinality(DOMAIN procs')
    /\ IF now = 1 THEN procs' = procs \/ DOMAIN procs' # DOMAIN procs
       ELSE DOMAIN procs = Pid /\ (procs' # procs => scan.at > 0)

MCNext ==
    /\ Next /\ UNCHANGED focus
    /\ focus # "names" => now' < MaxTime /\ events' <= FewEvents /\ \A p \in DOMAIN procs' : p <= 2
    /\ focus = "counters" => procs' = Empty
    /\ focus = "processes" => count' = count /\ DOMAIN before'.count \in {{}, Source}
    /\ focus = "names" => OfEachName

MCSpec == MCInit /\ [][MCNext]_<<vars, focus>>
=============================================================================
