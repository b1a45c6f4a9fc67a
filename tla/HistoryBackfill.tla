---------------------------- MODULE HistoryBackfill ----------------------------
(***************************************************************************)
(* The player-history backfill: scripts/complete_full_player_history_      *)
(* backfill.py, started by a job of a research run, and by the daily task  *)
(* resume_full_player_history_backfill.py after a quota probe of its own.  *)
(* Both use the read-only adapter (operations/api_football_adapter.py) and *)
(* the quota policy (research/quota_policy.py).  "No concurrent backfills" *)
(* is a rule of the second script's docstring; nothing enforces it.        *)
(*                                                                         *)
(* A fixture needs two requests, events and lineups.  The provider counts  *)
(* requests per day.  Pacing and the contents of answers are left out.     *)
(***************************************************************************)
EXTENDS Integers, Sequences

CONSTANTS
  Manifest,     \* the fixtures of the corpus, a sequence
  Prior,        \* those done, with their raw files, under the prior root
  DailyLimit,   \* requests per day the provider grants
  Reserve,      \* what dynamic_reserve keeps for others (200 as configured)
  MaxRequests,  \* --max-requests of the job
  Attempts,     \* at one request (3 in the code)
  SaveEvery,    \* fixtures pulled between two saves (50 in the code)
  FaultKinds,   \* which of AllFaults can happen
  MaxFaults     \* bound: how many faults happen

AllFaults == {"kill",     \* a run ends between two steps
              "cut",      \* a run ends while it writes a file
              "lost",     \* no answer; the request may have been counted
              "blank",    \* a 200 whose body is not JSON
              "error",    \* a 200 with errors
              "down",     \* another status, 429 included
              "refused",  \* errors that name the rate, the token or the plan
              "overlap"}  \* a run starts beside another

Fixtures == {Manifest[i] : i \in DOMAIN Manifest}

ASSUME BackfillBounds ==
  /\ Manifest \in Seq(Fixtures) /\ Prior \subseteq Fixtures
  /\ DailyLimit \in Nat /\ Reserve \in Nat /\ Reserve <= DailyLimit
  /\ MaxRequests \in Nat /\ SaveEvery \in Nat \ {0} /\ Attempts \in Nat \ {0}
  /\ FaultKinds \subseteq AllFaults /\ MaxFaults \in Nat

Runs == {"task", "job"}
Endpoints == {"events", "lineups"}

VARIABLES
  used,      \* requests the provider counted today
  probes,    \* those that asked for the quota before a run's loop
  launched,  \* runs started today
  file,      \* progress.json: "none", "ok" or "torn"
  saved,     \* the done fixtures in it
  raw,       \* the raw file of each request: "none", "ok" or "torn"
  pc,        \* where each run is
  cap,       \* its --max-requests
  budget,    \* daily_budget of its adapter
  made,      \* requests_made of its adapter
  done,      \* its done fixtures
  pulled,    \* how many it added
  at,        \* its place in the manifest
  tries,     \* attempts at the present request
  good,      \* both answers for the present fixture were ok so far
  faults,    \* the kinds of fault that happened
  left       \* how many more may happen

dayVars   == <<used, probes, launched>>
fileVars  == <<file, saved, raw>>
loopVars  == <<pulled, at, tries, good>>
runVars   == <<cap, budget, made, done>>
faultVars == <<faults, left>>
vars == <<dayVars, fileVars, pc, runVars, loopVars, faultVars>>

-----------------------------------------------------------------------------
Fault(k) == /\ k \in FaultKinds /\ left > 0
            /\ left' = left - 1
            /\ faults' = faults \cup {k}

NoFault == UNCHANGED faultVars

At(p, label)   == pc[p] = label
Goto(p, label) == pc' = [pc EXCEPT ![p] = label]

\* A process that ends takes its variables with it.
End(p) ==
  /\ Goto(p, "idle")
  /\ cap' = [cap EXCEPT ![p] = 0] /\ budget' = [budget EXCEPT ![p] = 0]
  /\ made' = [made EXCEPT ![p] = 0] /\ done' = [done EXCEPT ![p] = {}]
  /\ pulled' = [pulled EXCEPT ![p] = 0] /\ at' = [at EXCEPT ![p] = 1]
  /\ tries' = [tries EXCEPT ![p] = 0] /\ good' = [good EXCEPT ![p] = TRUE]

Running == {p \in Runs : ~At(p, "idle")}

\* research_budget
Budget(remaining, most) ==
  LET spare == remaining - Reserve
  IN  IF spare <= 0 THEN 0 ELSE IF spare <= most THEN spare ELSE most

\* _seed_done: a file that does not parse counts as none.
SeedDone == Prior \cup (IF file = "ok" THEN saved ELSE {})

-----------------------------------------------------------------------------
(* Before the loop *)

Start(p) ==
  /\ At(p, "idle") /\ p \notin launched
  /\ launched' = launched \cup {p}
  /\ IF Running = {} THEN NoFault ELSE Fault("overlap")
  /\ Goto(p, IF p = "task" THEN "check" ELSE "seed")
  /\ cap' = [cap EXCEPT ![p] = MaxRequests]
  /\ UNCHANGED <<used, probes, fileVars, budget, made, done, loopVars>>

\* The provider counts the probe, unless its day is spent, and says what is left.
ProbeCounted == /\ used' = IF used < DailyLimit THEN used + 1 ELSE used
                /\ probes' = IF used < DailyLimit THEN probes + 1 ELSE probes

\* A probe that fails counts as nothing left.
ProbeFails(p) ==
  /\ pc[p] \in {"check", "quota"}
  /\ Fault("lost") \/ Fault("down") \/ Fault("error")
  /\ ProbeCounted /\ End(p)
  /\ UNCHANGED <<launched, fileVars>>

\* resume_full_player_history_backfill.py
Check(p) ==
  /\ At(p, "check") /\ ProbeCounted
  /\ LET most == Budget(DailyLimit - used', MaxRequests)
     IN  \/ most < 2 /\ End(p)
         \/ /\ most >= 2 /\ Goto(p, "seed") /\ cap' = [cap EXCEPT ![p] = most]
            /\ UNCHANGED <<budget, made, done, loopVars>>
  /\ UNCHANGED <<launched, fileVars, faultVars>>

Seed(p) ==
  /\ At(p, "seed")
  /\ done' = [done EXCEPT ![p] = SeedDone]
  /\ Goto(p, "quota")
  /\ UNCHANGED <<dayVars, fileVars, cap, budget, made, loopVars, faultVars>>

ProbeQuota(p) ==
  /\ At(p, "quota") /\ ProbeCounted
  /\ LET most == Budget(DailyLimit - used', cap[p])
     IN  \/ most < 2 /\ End(p)
         \/ /\ most >= 2 /\ Goto(p, "loop") /\ budget' = [budget EXCEPT ![p] = most]
            /\ UNCHANGED <<cap, made, done, loopVars>>
  /\ UNCHANGED <<launched, fileVars, faultVars>>

-----------------------------------------------------------------------------
(* The loop *)

Fixture(p) == Manifest[at[p]]

\* The fixtures from here on that are not done.
Rest(p) == {i \in DOMAIN Manifest : i >= at[p] /\ Manifest[i] \notin done[p]}

NextFixture(p) ==
  /\ At(p, "loop") /\ budget[p] - made[p] >= 2
  /\ \E i \in Rest(p) : /\ \A j \in Rest(p) : i <= j
                        /\ at' = [at EXCEPT ![p] = i]
  /\ Goto(p, "events")
  /\ UNCHANGED <<dayVars, fileVars, runVars, pulled, tries, good, faultVars>>

LeaveLoop(p) == At(p, "loop") /\ (Rest(p) = {} \/ budget[p] - made[p] < 2)

\* The adapter refuses a request beyond its budget.
MayAsk(p)      == made[p] < budget[p]

OutOfBudget(p) ==
  /\ pc[p] \in Endpoints /\ ~MayAsk(p)
  /\ Goto(p, "final")
  /\ UNCHANGED <<dayVars, fileVars, runVars, loopVars, faultVars>>

AsksUncharged(p) == pc[p] \in Endpoints /\ MayAsk(p) /\ UNCHANGED made

Asks(p) == /\ pc[p] \in Endpoints /\ MayAsk(p)
           /\ made' = [made EXCEPT ![p] = @ + 1]

Granted == used < DailyLimit /\ used' = used + 1

\* The loop goes on to the second request, or decides about the fixture.
AfterAnswer(p, ok) ==
  /\ good' = [good EXCEPT ![p] = @ /\ ok]
  /\ tries' = [tries EXCEPT ![p] = 0]
  /\ Goto(p, IF At(p, "events") THEN "lineups" ELSE "decide")

Persist(p, what) == raw' = [raw EXCEPT ![Fixture(p)][pc[p]] = what]

Answered(p) ==
  /\ Asks(p) /\ Granted /\ Persist(p, "ok") /\ AfterAnswer(p, TRUE)
  /\ UNCHANGED <<probes, launched, file, saved, cap, budget, done, pulled, at, faultVars>>

\* ok is status 200 without errors; a body that is not JSON is not persisted.
Blank(p) ==
  /\ Asks(p) /\ Granted /\ AfterAnswer(p, TRUE) /\ Fault("blank")
  /\ UNCHANGED <<probes, launched, fileVars, cap, budget, done, pulled, at>>

Erroneous(p) ==
  /\ Asks(p) /\ Granted /\ AfterAnswer(p, FALSE) /\ Fault("error")
  /\ UNCHANGED <<probes, launched, fileVars, cap, budget, done, pulled, at>>

\* Asked again at once, three times in all; status_class is "4xx" for a 429.
Down(p) ==
  /\ Asks(p) /\ Granted /\ Fault("down")
  /\ IF tries[p] + 1 < Attempts
       THEN tries' = [tries EXCEPT ![p] = @ + 1] /\ UNCHANGED <<pc, good>>
       ELSE AfterAnswer(p, FALSE)
  /\ UNCHANGED <<probes, launched, fileVars, cap, budget, done, pulled, at>>

\* QuotaExceeded and _Auth leave the loop.
Refused(p) ==
  /\ Asks(p) /\ Goto(p, "final")
  /\ \/ Granted /\ Fault("refused")
     \/ used = DailyLimit /\ UNCHANGED <<used, faultVars>>
  /\ UNCHANGED <<probes, launched, fileVars, cap, budget, done, loopVars>>

PulledAnyway(p) == TRUE
Pulled(p) == good[p]

Decide(p) ==
  /\ At(p, "decide")
  /\ IF Pulled(p)
       THEN /\ done' = [done EXCEPT ![p] = @ \cup {Fixture(p)}]
            /\ pulled' = [pulled EXCEPT ![p] = @ + 1]
       ELSE UNCHANGED <<done, pulled>>
  /\ Goto(p, IF pulled'[p] > 0 /\ pulled'[p] % SaveEvery = 0 THEN "save" ELSE "loop")
  /\ at' = [at EXCEPT ![p] = @ + 1] /\ good' = [good EXCEPT ![p] = TRUE]
  /\ UNCHANGED <<dayVars, fileVars, cap, budget, made, tries, faultVars>>

WritePulled(p) == file' = "ok" /\ saved' = done[p] \ SeedDone /\ UNCHANGED raw

WriteProgress(p) == file' = "ok" /\ saved' = done[p] /\ UNCHANGED raw

Save(p) ==
  /\ At(p, "save") /\ WriteProgress(p) /\ Goto(p, "loop")
  /\ UNCHANGED <<dayVars, runVars, loopVars, faultVars>>

Final(p) ==
  /\ At(p, "final") \/ LeaveLoop(p)
  /\ WriteProgress(p) /\ Goto(p, "after")
  /\ UNCHANGED <<dayVars, runVars, loopVars, faultVars>>

\* The last probe is charged to the run's budget; without budget it is not made.
ProbeAfter(p) ==
  /\ At(p, "after") /\ End(p)
  /\ used' = IF MayAsk(p) /\ used < DailyLimit THEN used + 1 ELSE used
  /\ UNCHANGED <<probes, launched, fileVars, faultVars>>

-----------------------------------------------------------------------------
(* The machine *)

\* An exception of the transport ends the run; it is not charged to it.
Lost(p) ==
  /\ pc[p] \in Endpoints /\ MayAsk(p) /\ Fault("lost") /\ End(p)
  /\ Granted \/ UNCHANGED used
  /\ UNCHANGED <<probes, launched, fileVars>>

Kill(p) ==
  /\ ~At(p, "idle") /\ Fault("kill") /\ End(p)
  /\ UNCHANGED <<dayVars, fileVars>>

\* Neither the raw file nor the progress is written whole or not at all.
Cut(p) ==
  /\ Fault("cut") /\ End(p)
  /\ \/ /\ pc[p] \in Endpoints /\ MayAsk(p) /\ Granted
        /\ Persist(p, "torn") /\ UNCHANGED <<file, saved>>
     \/ /\ pc[p] \in {"save", "final"} \/ LeaveLoop(p)
        /\ file' = "torn" /\ UNCHANGED <<used, saved, raw>>
  /\ UNCHANGED <<probes, launched>>

Day == /\ used > 0 \/ launched # {}
       /\ used' = 0 /\ probes' = 0 /\ launched' = {}
       /\ UNCHANGED <<fileVars, pc, runVars, loopVars, faultVars>>

-----------------------------------------------------------------------------
Init ==
  /\ used = 0 /\ probes = 0 /\ launched = {}
  /\ file = "none" /\ saved = {}
  /\ raw = [f \in Fixtures |-> [e \in Endpoints |-> "none"]]
  /\ pc = [p \in Runs |-> "idle"]
  /\ cap = [p \in Runs |-> 0] /\ budget = [p \in Runs |-> 0] /\ made = [p \in Runs |-> 0]
  /\ done = [p \in Runs |-> {}] /\ pulled = [p \in Runs |-> 0]
  /\ at = [p \in Runs |-> 1] /\ tries = [p \in Runs |-> 0] /\ good = [p \in Runs |-> TRUE]
  /\ faults = {} /\ left = MaxFaults

Prepares(p) == Check(p) \/ Seed(p) \/ ProbeQuota(p)
Loops(p)    == NextFixture(p) \/ OutOfBudget(p) \/ Decide(p)
Requests(p) == Answered(p) \/ Blank(p) \/ Erroneous(p) \/ Down(p) \/ Refused(p) \/ Lost(p)
Writes(p)   == Save(p) \/ Final(p) \/ ProbeAfter(p)

Next == \/ \E p \in Runs : \/ Start(p) \/ Prepares(p) \/ ProbeFails(p)
                           \/ Loops(p) \/ Requests(p) \/ Writes(p) \/ Kill(p) \/ Cut(p)
        \/ Day

\* The task is triggered every day; days pass; a run goes on until it ends.
Fairness ==
  /\ WF_vars(Start("task")) /\ WF_vars(Day)
  /\ \A p \in Runs : WF_vars(Prepares(p) \/ Loops(p) \/ Requests(p) \/ Writes(p))

Spec == Init /\ [][Next]_vars /\ Fairness

-----------------------------------------------------------------------------
(* Properties *)

Places == {"idle", "check", "seed", "quota", "loop", "decide", "save", "final", "after"}

\* The types of the variables.
TypeOK ==
  /\ used \in 0..DailyLimit /\ probes \in Nat /\ launched \subseteq Runs
  /\ file \in {"none", "ok", "torn"} /\ saved \subseteq Fixtures
  /\ raw \in [Fixtures -> [Endpoints -> {"none", "ok", "torn"}]]
  /\ pc \in [Runs -> Places \cup Endpoints]
  /\ cap \in [Runs -> Nat] /\ budget \in [Runs -> Nat] /\ made \in [Runs -> Nat]
  /\ done \in [Runs -> SUBSET Fixtures] /\ pulled \in [Runs -> Nat]
  /\ at \in [Runs -> Nat \ {0}] /\ tries \in [Runs -> 0..Attempts]
  /\ \A p \in Runs : pc[p] \in Endpoints \cup {"decide"} => at[p] <= Len(Manifest)
  /\ good \in [Runs -> BOOLEAN]
  /\ faults \subseteq AllFaults /\ left \in 0..MaxFaults

\* The quota policy (quota_policy.py:14-17): while backfills do not overlap, all their
\* requests of a day, retries and lost answers included, leave the reserve to others,
\* but for the probes that come before a loop.
ReserveKept ==
  "overlap" \notin faults => used <= (DailyLimit - Reserve) + probes

RawBacked(f) == f \in Prior \/ \A e \in Endpoints : raw[f][e] = "ok"

\* A fixture on a done list is never asked for again, so its raw files must be there
\* (corpus_coverage.py:1-2): they are, unless an answer was blank, or an overlapping
\* run was cut while it wrote a file again.
DoneIsRawBacked ==
  "blank" \notin faults /\ ~({"overlap", "cut"} \subseteq faults) =>
    \A f \in SeedDone \cup UNION {done[p] : p \in Running} : RawBacked(f)

\* With the daily task the whole manifest is done in the end, whatever is killed,
\* torn, lost or refused on the way.
BackfillCompletes == <>[](Fixtures \subseteq SeedDone)
=============================================================================
