------------------------ MODULE MCProspectiveLedger ------------------------
(* Two fixtures: the T-15 window of the first is open from minute 5, the T-90 *)
(* window of the second from minute 10.  One phase of the schedule hits both, *)
(* one hits neither, one only the second.                                     *)
EXTENDS ProspectiveLedger

CONSTANTS first, second

MCMatches == {first, second}
MCPlan == [i \in 1..6 |-> [match  |-> IF i <= 3 THEN first ELSE second,
                          window |-> <<"T-90", "T-15", "m0">>[((i - 1) % 3) + 1]]]
MCKickoff == [m \in MCMatches |-> IF m = first THEN 20 ELSE 100]
=============================================================================
