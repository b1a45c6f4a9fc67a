-------------------------- MODULE MCScoreHarvester --------------------------
(* f1 and f2 can be scored; none has no complete snapshot, and the snapshot   *)
(* of late was taken six seconds after its prediction.                        *)
EXTENDS ScoreHarvester, TLC

CONSTANTS f1, f2, none, late, r1, r2

TwoFixtures   == {f1, late}
ThreeFixtures == {f1, f2, none}
MCResults     == {r1, r2}
MCKickoff     == [f \in Universe |-> 20]

Frozen(f, s, t, c) == [fix |-> f, snap |-> s, at |-> t, complete |-> c]

\* f1 has two complete snapshots, the second one three seconds after its prediction, a
\* later one that is incomplete and one predicted after the kickoff.
MCPredictions ==
  {q \in {Frozen(f1, 1, 2, TRUE), Frozen(f1, 9, 6, TRUE), Frozen(f1, 11, 11, FALSE),
          Frozen(f1, 12, 22, TRUE), Frozen(f2, 3, 3, TRUE), Frozen(none, 4, 4, FALSE),
          Frozen(late, 12, 6, TRUE)} :
     q.fix \in Universe}

\* No prediction and no earlier row names a result in the race.
ResultSymmetry == Permutations(MCResults)

NothingScored == {}
FirstScored   == {[fix |-> f1, snap |-> 9, at |-> 6, result |-> r1, text |-> "float"]}
=============================================================================
