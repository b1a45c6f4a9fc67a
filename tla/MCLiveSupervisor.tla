-------------------------- MODULE MCLiveSupervisor --------------------------
(* Two fixtures: while the early one passes its T-15 and final windows, the   *)
(* late one passes from its baseline to its T-90 window.  The second instance *)
(* takes over after a kill, or is the twin of the first.                      *)
EXTENDS LiveSupervisor

CONSTANTS early, late

MCMatches == {early, late}
MCKickoff == [m \in MCMatches |-> IF m = early THEN 30 ELSE 125]
=============================================================================
