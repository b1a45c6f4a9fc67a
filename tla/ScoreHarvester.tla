---------------------------- MODULE ScoreHarvester ----------------------------
(***************************************************************************)
(* The prospective score harvester: a bounded cycle (run_prospective_      *)
(* score_harvester.py) that takes a lock file, refreshes the final results *)
(* (refresh_prospective_final_results.py), scores the frozen predictions   *)
(* (prospective_score_harvester_v1.py, select_primary_prospective_         *)
(* snapshots.py), decides whether it is finished, and releases the lock;   *)
(* and the watchdog that runs the same cycle when the scorer looks dead.   *)
(* Both are scheduled tasks with the same period, so two cycles can meet.  *)
(*                                                                         *)
(* Ages are counted in scheduler periods (15 minutes) and saturate; the    *)
(* times of predictions, snapshots and kickoffs are in seconds.  A file    *)
(* write is one step; a kill during it leaves the file empty.              *)
(***************************************************************************)
EXTENDS Integers, FiniteSets

CONSTANTS
  Universe,      \* the group-stage fixtures, each with frozen predictions
  Predictions,   \* the frozen snapshots: [fix, snap, at, complete] records
  Kickoff,       \* [Universe -> Int], in seconds
  Results,       \* the final results a provider can publish
  Drivers,       \* which tasks are installed: a subset of {"task", "watchdog"}
  InitialScored, \* rows scored by earlier cycles
  FaultKinds,    \* a subset of {"offline", "kill", "cut"}
  MaxFaults,     \* bound: how many faults happen
  MaxChanges     \* bound: how often the provider changes a fixture's status

Stale == 2       \* LOCK_STALE_S and HB_STALE_S: 1800 s, two periods
SnapTolerance == 5   \* how much later than its prediction a snapshot may be
Absent == "absent"

\* What the provider says of a fixture: not final, called off, or a result.
Waiting   == "awaiting_final"
CalledOff == {"fixture_postponed", "fixture_cancelled"}
Statuses  == {Waiting} \cup CalledOff \cup Results

Procs == {"task", "watchdog"}

ASSUME BoundsAssumption ==
  /\ Drivers \subseteq Procs
  /\ MaxFaults \in Nat /\ MaxChanges \in Nat
  /\ FaultKinds \subseteq {"offline", "kill", "cut"}
  /\ Kickoff \in [Universe -> Int]
  /\ Results \cap ({Waiting} \cup CalledOff) = {}
  /\ Universe # {}

\* The prediction ledger files one row per fixture and snapshot.
ASSUME PredictionsAssumption ==
  /\ Predictions \subseteq [fix : Universe, snap : Int, at : Int, complete : BOOLEAN]
  /\ \A q, o \in Predictions : q.fix = o.fix /\ q.snap = o.snap => q = o

VARIABLES
  provider,   \* [Universe -> Statuses], football-data.org
  published,  \* every (fixture, result) the provider has ever called final
  changes,    \* how often it changed its mind
  payload,    \* the saved raw response: whether it is readable, and its statuses
  results,    \* prospective_final_results.csv: a state and the statuses
  lock,       \* .harvester.lock: held, its age; owner is the writer (a ghost)
  scored,     \* scored_prediction_rows.csv: a state and the rows
  excluded,   \* scoring_exclusion_ledger.csv: a state and the fixtures
  heartbeat,  \* harvester_heartbeat.json: status and age
  pc,         \* [Procs -> the step of the cycle]
  local,      \* [Procs -> what the cycle still needs of its memory]
  launched,   \* the tasks already started in this period
  slow,       \* the processes that were already running when it began
  faults

fileVars == <<payload, results, lock, scored, excluded, heartbeat>>
worldVars == <<provider, published, changes>>
schedVars == <<launched, slow>>
vars == <<worldVars, fileVars, pc, local, schedVars, faults>>

NoStatuses == [f \in Universe |-> Waiting]
EmptyMemory == [statuses |-> NoStatuses, rows |-> {}, fixes |-> {}]

Goto(p, step) == pc' = [pc EXCEPT ![p] = step]
Fault(kind) == kind \in FaultKinds /\ faults < MaxFaults /\ faults' = faults + 1

-----------------------------------------------------------------------------
(* select_primary_prospective_snapshots.py *)

\* Snapshots of a fixture that cover all models and the market before kickoff.
Qualifying(f) == {q \in Predictions : q.fix = f /\ q.complete /\ q.at < Kickoff[f]}

PrimaryAll(f) == Qualifying(f)

\* The primary snapshot: the latest that qualifies.
Primary(f) == {q \in Qualifying(f) : \A o \in Qualifying(f) : o.snap <= q.snap}

SelectionExcluded == {f \in Universe : Primary(f) = {}}

-----------------------------------------------------------------------------
(* prospective_score_harvester_v1.py *)

\* How result_hash spells the goals: the blanks of unplayed fixtures make read_csv
\* return the columns as floats ("2.0"); without blanks they are integers ("2").
GoalText(st) == IF \A f \in Universe : st[f] \in Results THEN "int" ELSE "float"

ScoreRow(q, r, text) ==
  [fix |-> q.fix, snap |-> q.snap, at |-> q.at, result |-> r, text |-> text]

\* score_key: the prediction (fixture, snapshot, time) and the result as spelled.
ScoreKey(row) == <<row.fix, row.snap, row.at, row.result, row.text>>

\* The hard gates on the times of a primary row.
Passes(q) == q.at < Kickoff[q.fix] /\ q.snap <= q.at + SnapTolerance

\* The rows this run scores, and the fixtures its gates exclude.
ScoredNowUnverified(st) ==
  {ScoreRow(q, st[q.fix], GoalText(st)) : q \in {x \in UNION {Primary(f) : f \in Universe} :
                                     Passes(x) /\ st[x.fix] \notin CalledOff}}
ScoredNow(st) ==
  {ScoreRow(q, st[q.fix], GoalText(st)) : q \in {x \in UNION {Primary(f) : f \in Universe} :
                                     Passes(x) /\ st[x.fix] \in Results}}

ExcludedNow(st) ==
  {f \in Universe : f \in SelectionExcluded
                    \/ \E q \in Primary(f) : st[f] \notin Results \/ ~Passes(q)}

MergeReplacing(prior, new) ==
  {o \in prior : \A r \in new : o.fix # r.fix} \cup new

\* concat([prior, scored]).drop_duplicates("score_key", keep="first")
Merge(prior, new) == prior \cup {r \in new : \A o \in prior : ScoreKey(o) # ScoreKey(r)}

\* to_csv of a frame without rows and columns leaves a file read_csv rejects.
Written(S) == IF S = {} THEN "empty" ELSE "ok"

\* The harvester raises before it writes anything when an input is unreadable.
HarvestRaises == results.state # "ok" \/ scored.state = "empty"

Harvest(p) ==
  /\ pc[p] = "harvest"
  /\ IF HarvestRaises
       THEN Goto(p, "status") /\ UNCHANGED local
       ELSE /\ local' = [local EXCEPT ![p].rows = Merge(scored.rows, ScoredNow(results.statuses)),
                                      ![p].fixes = ExcludedNow(results.statuses)]
            /\ Goto(p, "score")
  /\ UNCHANGED <<worldVars, fileVars, schedVars, faults>>

WriteScored(p) ==
  /\ pc[p] = "score"
  /\ scored' = [state |-> Written(local[p].rows), rows |-> local[p].rows]
  /\ local' = [local EXCEPT ![p].rows = {}]
  /\ Goto(p, "exclude")
  /\ UNCHANGED <<worldVars, payload, results, lock, excluded, heartbeat, schedVars, faults>>

WriteExclusions(p) ==
  /\ pc[p] = "exclude"
  /\ excluded' = [state |-> Written(local[p].fixes), fixes |-> local[p].fixes]
  /\ local' = [local EXCEPT ![p].fixes = {}]
  /\ Goto(p, "status")
  /\ UNCHANGED <<worldVars, payload, results, lock, scored, heartbeat, schedVars, faults>>

-----------------------------------------------------------------------------
(* refresh_prospective_final_results.py *)

RefreshOnce == results.state = Absent

\* refresh_needed: the network is asked only while some fixture is not final.
RefreshNeeded == \/ results.state = Absent
                 \/ \E f \in Universe : results.statuses[f] \notin Results

DecideRefresh(p) ==
  /\ pc[p] = "decide"
  /\ \/ /\ results.state = "empty"            \* read_csv raises in the runner
        /\ Goto(p, "release") /\ UNCHANGED local
     \/ /\ results.state # "empty" /\ RefreshNeeded
        /\ Goto(p, "fetch") /\ UNCHANGED local
     \/ /\ results.state # "empty" /\ ~RefreshNeeded
        /\ IF payload.exists
             THEN Goto(p, "results") /\ local' = [local EXCEPT ![p].statuses = payload.statuses]
             ELSE Goto(p, "harvest") /\ UNCHANGED local
  /\ UNCHANGED <<worldVars, fileVars, schedVars, faults>>

Fetch(p) ==
  /\ pc[p] = "fetch"
  /\ local' = [local EXCEPT ![p].statuses = provider]
  /\ payload' = [exists |-> TRUE, statuses |-> provider]
  /\ Goto(p, "results")
  /\ UNCHANGED <<worldVars, results, lock, scored, excluded, heartbeat, schedVars, faults>>

FetchFails(p) ==
  /\ pc[p] = "fetch" /\ Fault("offline")
  /\ Goto(p, "harvest")
  /\ UNCHANGED <<worldVars, fileVars, local, schedVars>>

WriteResults(p) ==
  /\ pc[p] = "results"
  /\ results' = [state |-> "ok", statuses |-> local[p].statuses]
  /\ local' = [local EXCEPT ![p].statuses = NoStatuses]
  /\ Goto(p, "harvest")
  /\ UNCHANGED <<worldVars, payload, lock, scored, excluded, heartbeat, schedVars, faults>>

-----------------------------------------------------------------------------
(* run_prospective_score_harvester.py *)

Beat(status) == heartbeat' = [status |-> status, age |-> 0]

\* Ages are whole periods: one of exactly Stale can fall on either side of 1800 s.
Young(age) == age <= Stale
Old(age)   == age >= Stale

LockYieldsNever(l) == ~l.held

LockHolds(l)  == l.held /\ Young(l.age)
LockYields(l) == ~l.held \/ Old(l.age)

\* acquire_lock, its first half: the file is looked at ...
AcquireCheck(p) ==
  /\ pc[p] = "start"
  /\ \/ LockHolds(lock) /\ Goto(p, "idle") /\ Beat("skipped_locked")
     \/ LockYields(lock) /\ Goto(p, "lock") /\ UNCHANGED heartbeat
  /\ UNCHANGED <<worldVars, payload, results, lock, scored, excluded, local, schedVars, faults>>

\* ... and its second half: the file is written, whoever wrote it meanwhile.
AcquireWrite(p) ==
  /\ pc[p] = "lock"
  /\ lock' = [held |-> TRUE, age |-> 0, owner |-> p]
  /\ Beat("working")
  /\ Goto(p, "decide")
  /\ UNCHANGED <<worldVars, payload, results, scored, excluded, local, schedVars, faults>>

\* terminal_status: every fixture is scored, excluded, postponed or cancelled.
Resolved == {r.fix : r \in scored.rows} \cup excluded.fixes
              \cup {f \in Universe : results.statuses[f] \in CalledOff}

StatusRaises == "empty" \in {scored.state, excluded.state, results.state}

Status(p) ==
  /\ pc[p] = "status"
  /\ IF StatusRaises THEN UNCHANGED heartbeat
     ELSE Beat(IF Universe \subseteq Resolved THEN "terminal" ELSE "ok")
  /\ Goto(p, "release")
  /\ UNCHANGED <<worldVars, payload, results, lock, scored, excluded, local, schedVars, faults>>

Exit(p) == Goto(p, "idle") /\ local' = [local EXCEPT ![p] = EmptyMemory]

\* release_lock unlinks the file, whoever holds it.
ReleaseLock == lock' = [lock EXCEPT !.held = FALSE]

Release(p) ==
  /\ pc[p] = "release"
  /\ ReleaseLock
  /\ Exit(p)
  /\ UNCHANGED <<worldVars, payload, results, scored, excluded, heartbeat, schedVars, faults>>

-----------------------------------------------------------------------------
(* The two scheduled tasks *)

Startable(p) == p \in Drivers /\ pc[p] = "idle" /\ p \notin launched

StartTask ==
  /\ Startable("task")
  /\ launched' = launched \cup {"task"}
  /\ Goto("task", "start")
  /\ UNCHANGED <<worldVars, fileVars, local, slow, faults>>

\* prospective_score_harvester_watchdog.py restarts a scorer whose heartbeat is
\* stale, unless it is terminal or its lock is held ...
WatchdogRestarts ==
  /\ Startable("watchdog")
  /\ heartbeat.status # "terminal" /\ LockYields(lock) /\ Old(heartbeat.age)
  /\ launched' = launched \cup {"watchdog"}
  /\ Goto("watchdog", "start")
  /\ UNCHANGED <<worldVars, fileVars, local, slow, faults>>

\* ... and otherwise only takes note.
WatchdogObserves ==
  /\ Startable("watchdog")
  /\ heartbeat.status = "terminal" \/ LockHolds(lock) \/ Young(heartbeat.age)
  /\ launched' = launched \cup {"watchdog"}
  /\ UNCHANGED <<worldVars, fileVars, pc, local, slow, faults>>

Watchdog == WatchdogRestarts \/ WatchdogObserves

\* The ten-minute limit or a crash ends a cycle; a cut write leaves its file empty.
Kill(p) ==
  /\ pc[p] # "idle" /\ Exit(p)
  /\ \/ Fault("kill") /\ UNCHANGED <<payload, results, scored, excluded>>
     \/ /\ Fault("cut")
        /\ \/ /\ pc[p] = "fetch" /\ payload' = [exists |-> FALSE, statuses |-> NoStatuses]
              /\ UNCHANGED <<results, scored, excluded>>
           \/ /\ pc[p] = "results" /\ results' = [state |-> "empty", statuses |-> NoStatuses]
              /\ UNCHANGED <<payload, scored, excluded>>
           \/ /\ pc[p] = "score" /\ scored' = [state |-> "empty", rows |-> {}]
              /\ UNCHANGED <<payload, results, excluded>>
           \/ /\ pc[p] = "exclude" /\ excluded' = [state |-> "empty", fixes |-> {}]
              /\ UNCHANGED <<payload, results, scored>>
  /\ UNCHANGED <<worldVars, lock, heartbeat, schedVars>>

AtMost(bound, n) == IF n < bound THEN n ELSE bound

\* A period ends.  The limit is shorter than a period: a cycle outlives at most one.
Running == {p \in Procs : pc[p] # "idle"}
Tick ==
  /\ \A p \in Drivers : p \in launched \/ pc[p] # "idle"
  /\ Running \cap slow = {}
  /\ slow' = Running /\ launched' = {}
  /\ lock' = [lock EXCEPT !.age = AtMost(Stale + 1, @ + 1)]
  /\ heartbeat' = [heartbeat EXCEPT !.age = AtMost(Stale + 1, @ + 1)]
  /\ UNCHANGED <<worldVars, payload, results, scored, excluded, pc, local, faults>>

\* football-data.org calls a fixture final or off, revives it, or corrects a result.
Publish(f, s) ==
  /\ changes[f] < MaxChanges /\ provider[f] # s
  /\ s = Waiting => provider[f] = "fixture_postponed"
  /\ provider[f] # "fixture_cancelled"
  /\ s \in CalledOff => provider[f] = Waiting
  /\ provider' = [provider EXCEPT ![f] = s]
  /\ published' = published \cup (IF s \in Results THEN {<<f, s>>} ELSE {})
  /\ changes' = [changes EXCEPT ![f] = @ + 1]
  /\ UNCHANGED <<fileVars, pc, local, schedVars, faults>>

-----------------------------------------------------------------------------
InitialStatuses ==
  [f \in Universe |-> IF \E row \in InitialScored : row.fix = f
                       THEN (CHOOSE row \in InitialScored : row.fix = f).result
                       ELSE Waiting]

Init ==
  /\ provider \in [Universe -> {Waiting} \cup Results]
  /\ \A row \in InitialScored : provider[row.fix] = row.result
  /\ published = {<<f, provider[f]>> : f \in {g \in Universe : provider[g] \in Results}}
  /\ changes = [f \in Universe |-> 0]
  /\ payload = [exists |-> InitialScored # {}, statuses |-> InitialStatuses]
  /\ results = [state |-> IF InitialScored = {} THEN Absent ELSE "ok",
                statuses |-> InitialStatuses]
  /\ lock = [held |-> FALSE, age |-> 0, owner |-> "task"]
  /\ scored = [state |-> IF InitialScored = {} THEN Absent ELSE "ok", rows |-> InitialScored]
  /\ excluded = [state |-> Absent, fixes |-> {}]
  /\ heartbeat = [status |-> "none", age |-> Stale + 1]
  /\ pc = [p \in Procs |-> "idle"]
  /\ local = [p \in Procs |-> EmptyMemory]
  /\ launched = {} /\ slow = {} /\ faults = 0

Step(p) == \/ AcquireCheck(p) \/ AcquireWrite(p) \/ DecideRefresh(p)
           \/ Fetch(p) \/ WriteResults(p)
           \/ Harvest(p) \/ WriteScored(p) \/ WriteExclusions(p)
           \/ Status(p) \/ Release(p)

Next == \/ \E p \in Procs : Step(p) \/ FetchFails(p) \/ Kill(p)
        \/ StartTask \/ Watchdog \/ Tick
        \/ \E f \in Universe, s \in Statuses : Publish(f, s)

Spec == Init /\ [][Next]_vars

\* The scheduler starts its tasks, a started process runs, and time passes.  Faults
\* are not fair, and neither is the provider: it may never settle.
Fairness == /\ WF_vars(StartTask) /\ WF_vars(Watchdog) /\ WF_vars(Tick)
            /\ \A p \in Procs : WF_vars(Step(p))

FairSpec == Spec /\ Fairness

-----------------------------------------------------------------------------
(* Properties *)

FileState == {Absent, "ok", "empty"}
Row == [fix : Universe, snap : Int, at : Int, result : Results, text : {"int", "float"}]
Memory == [statuses : [Universe -> Statuses], rows : SUBSET Row, fixes : SUBSET Universe]

\* The types of the variables: in particular only published results are scored,
\* never a status (prospective_score_harvester_v1.py:167).
TypeOK ==
  /\ provider \in [Universe -> Statuses]
  /\ published \subseteq Universe \X Results
  /\ changes \in [Universe -> 0..MaxChanges]
  /\ payload \in [exists : BOOLEAN, statuses : [Universe -> Statuses]]
  /\ results \in [state : FileState, statuses : [Universe -> Statuses]]
  /\ lock \in [held : BOOLEAN, age : 0..Stale + 1, owner : Procs]
  /\ scored \in [state : FileState, rows : SUBSET Row]
  /\ excluded \in [state : FileState, fixes : SUBSET Universe]
  /\ heartbeat \in [status : {"none", "working", "skipped_locked", "ok", "terminal"},
                     age : 0..Stale + 1]
  /\ pc \in [Procs -> {"idle", "start", "lock", "decide", "fetch", "results", "harvest",
                        "score", "exclude", "status", "release"}]
  /\ local \in [Procs -> Memory]
  /\ launched \subseteq Procs /\ slow \subseteq Procs
  /\ faults \in 0..MaxFaults

\* Rows of earlier cycles came from the same predictions.
FromPrimary(row) ==
  \E q \in Primary(row.fix) : Passes(q) /\ row = ScoreRow(q, row.result, row.text)

ASSUME InitialAssumption ==
  InitialScored \subseteq {row \in Row : FromPrimary(row)}

\* Each scored row stands on a complete prediction made before the kickoff from a
\* snapshot at most SnapTolerance later (the harvester's own audit,
\* prospective_score_harvester_v1.py:284-285), and no such prediction of the fixture
\* is fresher: the preregistered primary (select_primary_prospective_snapshots.py:3).
Admissible(row) ==
  /\ row.at < Kickoff[row.fix] /\ row.snap <= row.at + SnapTolerance
  /\ \A q \in Predictions :
       q.fix = row.fix /\ q.complete /\ q.at < Kickoff[q.fix] => q.snap <= row.snap

\* A fixture is scored on one snapshot, once per final result and its spelling.
Key(row) == <<row.fix, row.result, row.text>>

Ledger == INSTANCE AppendOnlyLedger WITH entries <- scored.rows

LedgerSound == Ledger!LedgerSound

\* "Append-only; first-write-wins per score key; result corrections are appended,
\* never silently rewritten" (prospective_score_harvester_v1.py:4-5).
LedgerSpec == Ledger!Spec

\* Every row was scored against a result the provider had declared final, however
\* the refreshes, kills and corrections interleave.
OnlyPublished == \A row \in scored.rows : <<row.fix, row.result>> \in published

\* A lock left behind by a dead cycle does not stop the harvester for good: it is
\* removed, or a later cycle takes it over (run_prospective_score_harvester.py:52).
InCycle(p) == pc[p] \notin {"idle", "start", "lock"}
StaleLockRecovered ==
  (lock.held /\ ~InCycle(lock.owner)) ~> (~lock.held \/ InCycle(lock.owner))

\* A fixture whose result stays final is eventually scored.
Scorable(f) == \E q \in Primary(f) : Passes(q)
EveryFinalScored ==
  \A f \in Universe : Scorable(f) =>
    (<>[](provider[f] \in Results) => <>(\E row \in scored.rows : row.fix = f))
=============================================================================
