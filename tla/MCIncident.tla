------------------------------- MODULE MCIncident -------------------------------
(* A few minutes of the incident recorder, with every limit in reach.      *)
EXTENDS IncidentHistory

CONSTANTS p, q, nil, h1, h2

Io(who, warn) == [class |-> "io", culprit |-> who, warn |-> warn]
Cpu == [class |-> "cpu", culprit |-> p, warn |-> TRUE]

Quiet == <<>>
FewChains == {nil, <<Io(p, TRUE)>>, <<Io(q, TRUE), Io(p, FALSE), Cpu>>}
MoreChains == FewChains \cup {Quiet, <<Io(p, FALSE)>>, <<Cpu>>, <<Io(p, TRUE), Io(q, TRUE)>>}
Slugs == [cpu |-> 1, io |-> 2, manual |-> 3]
ThreeOffsets == <<1, 2, 3>>
=============================================================================
