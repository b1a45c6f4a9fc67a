---------------------------- MODULE MCResearchRun ----------------------------
(* A queue of two jobs, the first of them critical.                         *)
EXTENDS ResearchRun

AllFaults == Faults
==============================================================================
