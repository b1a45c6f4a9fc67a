------------------------- MODULE MCShadowCollector -------------------------
(* Two fixtures whose windows collide: the T-90 window of the later one opens *)
(* while the earlier one nears its T-15 window.                               *)
EXTENDS ShadowCollector

CONSTANTS early, late

MCMatches == {early, late}
MCKickoff == [m \in MCMatches |-> IF m = early THEN 28 ELSE 105]

\* All fixtures are quoted, or the odds of the early one are late.
AllQuoted    == {MCMatches}
OftenPartial == {MCMatches, {late}}
TargetsPrice == {early}
NoneInTargets == {}

NoRequestYet == Never
AnHourAgo == -60
=============================================================================
