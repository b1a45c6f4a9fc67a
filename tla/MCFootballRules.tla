---------------------------- MODULE MCFootballRules ----------------------------
(* A group table and a feed of events, one or the other: four teams that play   *)
(* each other once, and feeds of up to MaxEvents events.                        *)
EXTENDS OfficialStandings, MatchEvents

MCTeams    == {"A", "B", "C", "D"}
MCGames    == <<<<"A", "B">>, <<"C", "D">>, <<"A", "C">>, <<"B", "D">>,
                <<"A", "D">>, <<"B", "C">>>>
MCScores   == {<<0, 0>>, <<1, 0>>, <<2, 0>>, <<0, 1>>}
MCTeamList == <<"A", "B", "C", "D">>
MCListings == {MCTeamList, <<"D", "B", "A", "C">>}
MCNamed    == MCTeamList

\* B and D have no rank and the same conduct: their names decide in the end.
MCConduct  == [t \in MCTeams |-> IF t = "C" THEN 0 ELSE -2]
MCFifaRank == [t \in {"A", "C"} |-> IF t = "A" THEN 3 ELSE 2]
MCTimes    == {<<90, 3>>, <<91, 0>>, <<120, 0>>, <<120, 3>>}

Init == TableInit /\ FeedInit

Next == \/ feed = <<>> /\ AddResult /\ UNCHANGED feed
        \/ matches = <<>> /\ listing = MCTeamList /\ Report /\ UNCHANGED tableVars

Spec == Init /\ [][Next]_<<matches, listing, feed>>
=============================================================================
