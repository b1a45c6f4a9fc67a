--------------------------- MODULE OfficialStandings ---------------------------
(***************************************************************************)
(* The 2026 group table (simulation/official_standings.py): results are    *)
(* added one by one; the order of the teams is worked out from them with   *)
(* stable sorts, head-to-head before overall goal difference.              *)
(***************************************************************************)
EXTENDS Integers, Sequences, FiniteSets, SequencesExt

CONSTANTS
  Teams,     \* the teams of the group
  Games,     \* its games, a sequence of pairs of teams, in the order of the fixtures
  Scores,    \* the scores a game can end with
  Listings,  \* orders in which the set of teams may be iterated
  Conduct,   \* conduct score of each team, higher is better
  FifaRank,  \* rank of the teams that have one, lower is better
  Named      \* the teams in the order of their names

ASSUME StandingsBounds ==
  /\ \A i \in DOMAIN Games : Games[i] \in Teams \X Teams
  /\ Scores \subseteq Nat \X Nat
  /\ \A s \in Listings : Len(s) = Cardinality(Teams) /\ Range(s) = Teams
  /\ Conduct \in [Teams -> Int]
  /\ DOMAIN FifaRank \subseteq Teams /\ Range(FifaRank) \subseteq Nat
  /\ Len(Named) = Cardinality(Teams) /\ Range(Named) = Teams

VARIABLES
  matches,  \* self.matches: records of the two teams and their goals
  listing   \* the order in which Python iterates self._teams

tableVars == <<matches, listing>>

-----------------------------------------------------------------------------
Goals(t, m)   == IF m.a = t THEN m.ga ELSE IF m.b = t THEN m.gb ELSE 0
Against(t, m) == IF m.a = t THEN m.gb ELSE IF m.b = t THEN m.ga ELSE 0

PointsOf(t, m) ==
  IF t \notin {m.a, m.b} THEN 0
  ELSE IF Goals(t, m) > Against(t, m) THEN 3
  ELSE IF Goals(t, m) = Against(t, m) THEN 1 ELSE 0

Total(t, games, Value(_, _)) == FoldLeft(LAMBDA n, m : n + Value(t, m), 0, games)

\* _overall and _h2h: what a team has from some games.
Stats(t, games) ==
  LET gf == Total(t, games, Goals)
  IN  [points |-> Total(t, games, PointsOf), gf |-> gf,
       gd |-> gf - Total(t, games, Against)]

\* _h2h: from the games among the tied teams.
HeadToHead(t, tied, games) ==
  Stats(t, SelectSeq(games, LAMBDA m : m.a \in Range(tied) /\ m.b \in Range(tied)))

-----------------------------------------------------------------------------
\* Tuples compare from the left.
Higher(v, w) == \E i \in DOMAIN v : /\ v[i] > w[i]
                                    /\ \A j \in 1..(i - 1) : v[j] = w[j]

\* sorted(): highest keys first, in the given order where keys are equal.
Insert(s, x) == SelectSeq(s, LAMBDA y : ~Higher(x.key, y.key)) \o <<x>>
                  \o SelectSeq(s, LAMBDA y : Higher(x.key, y.key))

Sort(teams, Key(_)) ==
  FoldLeft(LAMBDA out, t : Insert(out, [key |-> Key(t), team |-> t]), <<>>, teams)

Plainly(sorted) == FoldLeft(LAMBDA out, x : Append(out, x.team), <<>>, sorted)

\* The blocks of equal keys, one after the other, each ordered by Order.
InBlocks(sorted, Order(_)) ==
  LET Block(x) == SelectSeq(sorted, LAMBDA y : y.key = x.key)
      leaders  == SelectSeq(sorted, LAMBDA x : Block(x)[1] = x)
  IN  FoldLeft(LAMBDA out, x : out \o Order(Plainly(Block(x))), <<>>, leaders)

TiedKeyConceded(stats) == <<stats.points, stats.gf - stats.gd, stats.gf>>

TiedKey(stats) == <<stats.points, stats.gd, stats.gf>>

\* ensure: a team without a rank counts as the 999th.
RankOf(t)  == IF t \in DOMAIN FifaRank THEN FifaRank[t] ELSE 999
NameOf(t)  == CHOOSE i \in DOMAIN Named : Named[i] = t

LastKey(t, games) ==
  LET all == Stats(t, games)
  IN  <<all.gd, all.gf, Conduct[t], 0 - RankOf(t), 0 - NameOf(t)>>

\* The overall criteria at once, where head-to-head has parted some of the teams.
OrderTiedOnce(tied, games) ==
  LET Key(t) == TiedKey(HeadToHead(t, tied, games)) \o LastKey(t, games)
  IN  Plainly(Sort(tied, Key))

\* A block that head-to-head does not part goes by the overall criteria; blocks that
\* it does part are ordered anew, each from the games among its own teams.
RECURSIVE OrderTied(_, _)
OrderTied(tied, games) ==
  LET HeadKey(t) == TiedKey(HeadToHead(t, tied, games))
      OverallKey(t) == LastKey(t, games)
      Again(block) == OrderTied(block, games)
      ordered == Sort(tied, HeadKey)
  IN  IF Len(tied) <= 1 THEN tied
      ELSE IF \A x, y \in Range(ordered) : x.key = y.key THEN Plainly(Sort(tied, OverallKey))
      ELSE InBlocks(ordered, Again)

\* ranked
Ranked(games) ==
  LET Points(t) == <<Stats(t, games).points>>
      Order(block) == OrderTied(block, games)
  IN  InBlocks(Sort(listing, Points), Order)

-----------------------------------------------------------------------------
TableInit == matches = <<>> /\ listing \in Listings

Result(i, s) == [a |-> Games[i][1], ga |-> s[1], b |-> Games[i][2], gb |-> s[2]]

\* add_result, for the next fixture
AddResult ==
  /\ Len(matches) < Len(Games)
  /\ \E s \in Scores : matches' = Append(matches, Result(Len(matches) + 1, s))
  /\ UNCHANGED listing

-----------------------------------------------------------------------------
(* Properties *)

\* Article 13, for two teams of a tied set: head-to-head in the whole set; if that is
\* equal, head-to-head among those it is equal for; if nobody is left out, overall.
RECURSIVE Above(_, _, _)
Above(t, u, tied) ==
  LET Key(x) == TiedKey(HeadToHead(x, tied, matches))
      even   == SelectSeq(tied, LAMBDA x : Key(x) = Key(t))
  IN  \/ Higher(Key(t), Key(u))
      \/ /\ Key(t) = Key(u)
         /\ IF even = tied THEN Higher(LastKey(t, matches), LastKey(u, matches))
                           ELSE Above(t, u, even)

\* The table is in the official order (official_standings.py:7-18), after every result
\* and however Python iterates the set of teams: of two teams the one with more points
\* is first, of two level on points the one Article 13 puts above.
OfficialOrder ==
  LET r == Ranked(matches)
      Points(t) == Stats(t, matches).points
  IN  /\ Len(r) = Len(listing) /\ Range(r) = Range(listing)
      /\ \A i, j \in DOMAIN r : i < j =>
           \/ Points(r[i]) > Points(r[j])
           \/ /\ Points(r[i]) = Points(r[j])
              /\ Above(r[i], r[j], SelectSeq(listing, LAMBDA t : Points(t) = Points(r[i])))

PlaceOf(t, r) == CHOOSE i \in DOMAIN r : r[i] = t

\* What a team wins it does not lose in the table: had it scored more or conceded less in
\* the last game, with all else as it was, it would not stand lower (official_standings.py
\* :89-113, where a goal more also changes who is tied with whom).
GoalsNeverHurt ==
  matches # <<>> =>
    LET n    == Len(matches)
        now  == Ranked(matches)
        last == matches[n]
        Instead(s) == [matches EXCEPT ![n] = Result(n, s)]
    IN  \A s \in Scores :
          /\ s[1] >= last.ga /\ s[2] <= last.gb =>
               PlaceOf(last.a, Ranked(Instead(s))) <= PlaceOf(last.a, now)
          /\ s[1] <= last.ga /\ s[2] >= last.gb =>
               PlaceOf(last.b, Ranked(Instead(s))) <= PlaceOf(last.b, now)
=============================================================================
