----------------------------- MODULE MatchEvents -----------------------------
(***************************************************************************)
(* Three readings of the same provider feed of match events:               *)
(*   research/event_semantics.py            score_from_events              *)
(*   research/replay_semantics.py           reconcile_goals                *)
(*   research/paid_source/result_semantics.py   derive_window_score        *)
(* The feed grows one event at a time; its events may come in any order of *)
(* minutes (providers group them by type).                                 *)
(***************************************************************************)
EXTENDS Integers, Sequences, SequencesExt

CONSTANTS
  Times,     \* pairs of elapsed minute and extra time
  MaxEvents  \* bound on the length of a feed

ASSUME EventBounds == Times \subseteq (Nat \ {0}) \X Nat /\ MaxEvents \in Nat

VARIABLE feed

Sides == {"home", "away"}
GoalDetails == {"normal", "own", "missed", "cancelled"}

\* What a Card, a substitution and other Var decisions do to a score is nothing.
Events == [type : {"goal"}, detail : GoalDetails, team : Sides, time : Times]
            \cup [type : {"var"}, detail : {"cancelled"}, team : Sides, time : Times]
            \cup [type : {"card"}, detail : {"yellow"}, team : Sides, time : Times]

Elapsed(e) == e.time[1]
Minute(e)  == e.time[1] + e.time[2]  \* _minute of replay_semantics.py

Opponent(side) == IF side = "home" THEN "away" ELSE "home"

Count(s, Test(_)) == Len(SelectSeq(s, Test))

-----------------------------------------------------------------------------
(* event_semantics.py *)

\* What the team of an own goal means; "unknown" stands for a provider not in the table.
Semantics == {"beneficiary", "scorer", "unknown"}
OfApiFootball == "beneficiary"

\* interpret_event: who scored, "none" when nobody did, "unknown" when it fails closed.
ScoringTeam(e, semantics) ==
  IF e.type # "goal" \/ e.detail = "missed" THEN "none"
  ELSE IF e.detail # "own" THEN e.team
  ELSE CASE semantics = "beneficiary" -> e.team
         [] semantics = "scorer" -> Opponent(e.team)
         [] semantics = "unknown" -> "unknown"

KnownBy(e, minute) == Elapsed(e) <= minute

ScoreFromEvents(s, semantics, minute) ==
  [side \in Sides |->
     Count(s, LAMBDA e : ScoringTeam(e, semantics) = side /\ KnownBy(e, minute))]

\* An unknown own goal degrades the reading, at whatever minute it falls.
Degraded(s, semantics) == \E i \in DOMAIN s : ScoringTeam(s[i], semantics) = "unknown"

-----------------------------------------------------------------------------
(* replay_semantics.py *)

\* Every goal of that side in that minute counts as cancelled.
Cancelled(s, e) == \E i \in DOMAIN s : /\ s[i].type = "var"
                                       /\ s[i].team = e.team /\ Minute(s[i]) = Minute(e)

ReconcileGoals(s, most) ==
  [side \in Sides |-> Count(s, LAMBDA e : /\ e.type = "goal" /\ e.team = side
                                          /\ Minute(e) <= most /\ ~Cancelled(s, e))]

-----------------------------------------------------------------------------
(* result_semantics.py *)

\* Missed and cancelled penalties are not goals here.
NoGoal == {"missed", "cancelled"}

DeriveFromStart(s, lo, hi) ==
  [side \in Sides |-> Count(s, LAMBDA e : /\ e.type = "goal" /\ e.team = side
                                          /\ e.detail \notin NoGoal
                                          /\ lo <= Elapsed(e) /\ Elapsed(e) <= hi)]

DeriveWindowScore(s, lo, hi) ==
  [side \in Sides |-> Count(s, LAMBDA e : /\ e.type = "goal" /\ e.team = side
                                          /\ e.detail \notin NoGoal
                                          /\ lo < Elapsed(e) /\ Elapsed(e) <= hi)]

-----------------------------------------------------------------------------
FeedInit == feed = <<>>

\* The provider reports another event.
Report == /\ Len(feed) < MaxEvents
          /\ \E e \in Events : feed' = Append(feed, e)

-----------------------------------------------------------------------------
(* Properties *)

GoalsOf(s, side, Test(_)) == Count(s, LAMBDA e : e.type = "goal" /\ e.team = side /\ Test(e))

\* What reconcile_goals reads otherwise than the other two: a missed or cancelled penalty
\* is a goal, a Var cancellation of the side takes its goals of that minute away, and
\* stoppage time counts towards the minute.
PlainGoal(s, e) ==
  /\ e.detail \notin NoGoal /\ Minute(e) <= 120
  /\ \A i \in DOMAIN s : s[i].type = "var" /\ s[i].team = e.team => Minute(s[i]) # Minute(e)

OneAMinute(s, side) ==
  \A i, j \in DOMAIN s :
    /\ s[i].type = "goal" /\ s[i].team = side /\ s[j].type = "goal" /\ s[j].team = side
    /\ Minute(s[i]) = Minute(s[j])
    => i = j

\* What the three modules make of one API-Football feed.  The regulation and extra-time
\* windows add up to the score at the final whistle, own goals included, for every feed
\* but for the cancelled penalties, which only score_from_events counts (result_semantics
\* .py:37, event_semantics.py:52); reconcile_goals reads the same for a side whose goals
\* are all plain, whatever is cancelled of the other side or in another minute.  "A Var
\* 'Goal cancelled' nullifies a same-minute same-team goal" (replay_semantics.py:6): of a
\* side that scores once a minute no more goals are taken away than were cancelled.  With
\* another encoding of own goals a reading that is not degraded counts as many goals.
ReadingsAgree ==
  LET whole == ScoreFromEvents(feed, OfApiFootball, 120)
      Sum(score) == score["home"] + score["away"]
      IsCancelled(e) == e.detail = "cancelled" /\ KnownBy(e, 120)
      IsPeculiar(e) == ~PlainGoal(feed, e)
      IsInTime(e) == Minute(e) <= 120
  IN  /\ \A side \in Sides :
           /\ DeriveWindowScore(feed, 0, 90)[side] + DeriveWindowScore(feed, 90, 120)[side]
                = whole[side] - GoalsOf(feed, side, IsCancelled)
           /\ GoalsOf(feed, side, IsPeculiar) = 0 => ReconcileGoals(feed, 120)[side] = whole[side]
           /\ OneAMinute(feed, side) =>
                GoalsOf(feed, side, IsInTime) - ReconcileGoals(feed, 120)[side]
                  <= Count(feed, LAMBDA e : e.type = "var" /\ e.team = side)
      /\ \A semantics \in Semantics :
           Degraded(feed, semantics) \/ Sum(ScoreFromEvents(feed, semantics, 120)) = Sum(whole)
=============================================================================
