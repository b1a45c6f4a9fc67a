----------------------------- MODULE MCEventLake -----------------------------
(* Two matches, two versions of each, two writers of each kind.              *)
EXTENDS EventLake, TLC

CONSTANTS m1, m2, v1, v2, w1, w2

MCMatches  == {m1, m2}
MCVersions == {v1, v2}
MCWorkers  == {w1, w2}

Symmetry == Permutations(MCMatches) \cup Permutations(MCVersions) \cup Permutations(MCWorkers)
=============================================================================
