# Formal models of the World Cup forecasting lab

The repository is a paper-only forecasting laboratory for the 2026 World Cup: a Python package
(`src/src/wcdrawlab`), some 370 scripts (`src/scripts`) that the Windows Task Scheduler or an operator
runs, and the CSV/JSON files through which those scripts talk to each other. There is no server and no
database: concurrency is *processes sharing files*, and failure is *a process killed between two file
writes*. That is what these modules model.

Paths in this document are relative to the repository root (`src/`). Modules are checked with TLC and
proved about with TLAPS 1.4.5.

## 1. The system

| Component | State it keeps | Operations | Talks to |
|---|---|---|---|
| **Shadow collector** `scripts/windows/shadow_collector_cycle.py`, `fetch_odds_live_2026.py`, `live_2026_shadow.py`, `operations/odds_budget.py` | `odds_budget.json`, raw snapshot directory, prediction CSV, heartbeat | one bounded cycle every 5 minutes: check flags, stop past the end, fetch odds if a window is due and the budget allows, freeze M1-M5 rows, score, heartbeat | Odds API; Task Scheduler (kills after 4 minutes) |
| **Five-hour live supervisor** `scripts/five_hour_supervisor.py` | `state.json` of the session, transaction log, the *same* prediction CSV and raw directory | loop: poll results, after-game record, fetch, freeze due types, save state; `--resume-latest` | Odds API, football-data |
| **Score harvester** `scripts/prospective_score_harvester_v1.py`, `run_prospective_score_harvester.py`, `refresh_prospective_final_results.py`, `prospective_score_harvester_watchdog.py` | lock, verified-results CSV, scored ledger CSV and JSONL, exclusions, integrity and heartbeat files | refresh, harvest, terminal status; the watchdog restarts | football-data; Task Scheduler |
| **Research runs** `scripts/deep_research_supervisor.py`, the four `*_watchdog.py` | queue state, checkpoint, summary, heartbeats | run a YAML job queue with preflight, deadline and budget; resume; restart a dead worker | Task Scheduler, the collector's heartbeat |
| **Prospective V1.5 ledgers** `operations/{ledger,session,windows,prospective}.py`, `scripts/prospective_collect.py`, `prospective_score.py` | JSONL ledger and scores, session manifest | one pass over the capture windows every 15 minutes or by hand: record, mark missed, then score what is finished | Task Scheduler |
| **Shadow-session integrity** `research/shadow_integrity.py`, `scripts/shadow_session_close.py` | session close report | duplicate and kickoff checks | prediction CSV |
| **International event lake** `research/international_event_lake.py`, its scripts | content-addressed objects, manifest, index, quarantine | restore, acquire, rebuild the index, verify | local StatsBomb files, the official archive |
| **Backfills and quota** `scripts/*backfill*.py`, `research/quota_policy.py`, `operations/api_football_adapter.py` | `progress.json`, raw files, quota ledger | probe the quota, pull two endpoints per fixture under a dynamic reserve, resume daily | API-Football, Task Scheduler |
| **Trading (paper)** `trading/*` | none; the quote, position, portfolio and intents are files others keep | propose an intent towards a target position, judge it, send it if armed | Kalshi API (the shipped policy is `paper`, which sends nothing) |
| **Runtime governance** `runtime/*` | model registry (read only) | classify, require the approved model | trading |
| **Ingestion, providers** `ingestion/*`, `providers/*` | append-only raw store | store, validate, reconcile, health | providers |
| **Simulation and standings** `simulation/*` | none (pure) | group tables, tie-breaks, simulation | |
| **Event semantics** `research/replay_semantics.py`, `event_semantics.py`, `paid_source/result_semantics.py` | none (pure) | read a score from a feed of events, in three ways | |
| **Event processing, statistical models, commentary, CLI, one-shot scripts** | fitted parameters, reports | numeric and sequential | |

What is hard in each, and what makes it correct:

| Component | Hard behaviour | Correct when |
|---|---|---|
| Shadow collector | killed after a charge and before its record; non-atomic writes of the budget and the CSV; windows narrower than the request floor; which snapshot is "latest" | credits stay under the ceiling, requests ten minutes apart, no fixture kicks off without a prediction, windows fire, the CSV is append-only and pre-kickoff |
| Live supervisor | state saved once per round, rows written before it; two instances; the CSV shared with the collector | one capture per type and match but for what a kill made it forget; what it calls done is on file; credits under the session's ceiling; windows fire; each result logged once |
| Score harvester | check-then-write lock, stale lock take-over, read-merge-write of a CSV, corrections by the provider, cut files | each final result is scored once on the preregistered snapshot, is never dropped, and eventually is scored; "terminal" only when nothing is waiting |
| Research runs | crash between or inside jobs, resume, a watchdog that reads stale files, budget known only from reports | a complete job is never repeated, a failed critical job stops the queue, overspending is bounded, a dead run is resumed |
| V1.5 ledgers | keys read, then appended; a cut line; two sessions on one ledger; a 10-minute window looked at every 15 minutes | one record per key, as first written; nothing both captured and missed; each record scored once |
| Event lake | object, manifest and index written one after the other; three writers without a lock; local files that change | every index entry has its object and lineage, and one undisturbed run repairs what was lost |
| Backfills | progress saved every 50 fixtures, in place; answers that are ok and empty; retries; a daily quota | no id is done without its raw files, the reserve is kept, the manifest is finished in the end |
| Trading | decisions on files that lag behind the fills; a time-out that hides a fill; two submits at once | exposure and position stay within their caps but for what the files missed; an intent is filled once; a position can be left |
| Standings | head-to-head applied again to the subsets it leaves tied | the order meets the regulation's definition, and a goal more never costs a place |
| Event semantics | three modules fold the same feed | they agree on every feed on which they mean to |

`PROJECT.json` lists the components with their status, and every hazard at its line.

## 2. Modules

| Module | Role |
|---|---|
| `AppendOnlyLedger` | abstract specification: entries are never dropped or altered, one per key, only admissible ones |
| `ShadowCollector`, `MCShadowCollector`, `ShadowCollectorProofs` | the collector's cycle and the files of its three processes |
| `ScoreHarvester`, `MCScoreHarvester`, `ScoreHarvesterProofs` | two scheduled processes running the harvest cycle over shared files |
| `ResearchRun`, `MCResearchRun`, `ResearchRunProofs` | the supervisor of a job queue, Task Scheduler, and the watchdog |
| `LiveSupervisor`, `MCLiveSupervisor`, `LiveSupervisorProofs` | the five-hour loop, its session directories, a second instance, and the collector's writes to the shared CSV |
| `ProspectiveLedger`, `MCProspectiveLedger`, `ProspectiveLedgerProofs` | scheduled and manual collector runs and the scorer on two JSONL files |
| `EventLake`, `MCEventLake`, `EventLakeProofs` | the three writers of the event lake |
| `HistoryBackfill`, `MCHistoryBackfill`, `HistoryBackfillProofs` | the player-history backfill over days of provider quota |
| `TradingGate`, `MCTradingGate`, `TradingGateProofs` | the strategy, the risk gate and `trade-submit`, over sequences of orders |
| `OfficialStandings`, `MatchEvents`, `MCFootballRules` | the group table and the three readings of a match feed, as operators over data that grows one result or one event at a time |

`ShadowCollector` and `ScoreHarvester` each contain `Ledger == INSTANCE AppendOnlyLedger WITH entries <- ...`:
`LedgerSpec` says that the concrete CSV implements the abstract ledger, `LedgerSound` is what a reader
of the file may rely on even when it does not. `ProspectiveLedgerProofs` proves that both files of
`ProspectiveLedger` implement it, and `LiveSupervisorProofs` the same of the prediction CSV as its other
writer, the live session, sees it.

### ShadowCollector

One variable per file (`budget`, `raw`, `pred`, `heartbeat`), one per value that lives in a process
(`due`, `mem`, `stamp`, `merged`), a program counter `pc` along the cycle, and the provider's own count
`billed` with the spacing of charged requests `gap`. Actions follow the scripts in the order the cycle
runs them:

| Actions | Code |
|---|---|
| `HaltFlags`, `StopHardEnd`, `StartCycle`, `EndCycle` | `shadow_collector_cycle.py`: halt flags, end of the study, due type and baseline gap, heartbeat |
| `FetchCheck`, `Request`, `RequestLost`, `RequestUnbilled`, `RecordRequest`, `WriteRaw` | `fetch_odds_live_2026.py` with `OddsBudget`: load, second check, HTTP request, record, raw file |
| `FreezeRead`, `FreezeFails`, `FreezeWrite` | `live_2026_shadow.py freeze`: last file by name, merge keep-first, `to_csv` |
| `Kill`, `Minute`, `NextInterval` | the 4-minute execution limit, and time |

A market row takes its odds from the snapshot, if that quotes its fixture (`quotes`), and otherwise from
`forecast_targets`, if that prices it (`Priced`, a constant: the model never rewrites the targets).
`books` in a row says which: a row from the targets has no count of bookmakers.

Time is in minutes because windows, floor and interval are. A write is one step, and a kill during it
leaves what a truncating write can leave: an unparsable budget (which `_load` reads as nothing spent), a
torn snapshot, an empty CSV or a prefix of its rows. Abstractions: M2-M5 are one "market" row, since the
code writes them together; a CSV whose last line is cut in the middle is a shorter CSV; the scoring step
and the normalised odds CSV are left out because nothing reads them back; killing a cycle kills its child
processes; the writer that runs next to the scheduled collector is the live supervisor, in its own module.

### ScoreHarvester

`pc` and `local` are functions of the process (`"task"`, `"watchdog"`): both run the same cycle
`start -> lock -> decide -> fetch -> results -> harvest -> score -> exclude -> status -> release`, one
action per file access, so the cycles interleave between any two of them. The lock is a file that is
looked at (`AcquireCheck`) and then written (`AcquireWrite`), taken over when old, and unlinked by
whoever finishes. Ages are counted in scheduler periods (15 minutes) and saturate; a file of exactly the
stale age may be judged either way. The provider may publish, postpone, cancel, revive and correct
(`Publish`). A killed cycle (`Kill`) leaves its lock; a cut write leaves its file empty. `GoalText` keeps
the one piece of formatting a property is about: `result_hash` spells goals as pandas read them, "2.0"
while another fixture's goals are blank and "2" once none is.

The gate of a primary admits a snapshot up to five seconds after its prediction (`SnapTolerance`), as the
harvester's own audit does; times of predictions and snapshots are in seconds of one scale.

Abstractions: the JSONL copy of the ledger is written from the same frame; the integrity gate's `all_ok`
is always true when it is written; goals of a match in play are blank, as a result that is not final;
the `.tmp` file that `write_json` shares between processes is not modelled.

### ResearchRun

`disk`, `beat` and `summary` are the run's three files, `mem`, `pc`, `job`, `stop` the supervisor's
process, `task` and `crashed` Task Scheduler's view, `watch`, `seen`, `looked`, `verdict` the watchdog's.
The watchdog reads the files (`WatchFiles`), then the state of the task (`WatchTask`), then acts on both
(`WatchStops`, `WatchRestarts`, `WatchObserves`), while the supervisor goes on. `billed` counts the
requests really spent, which the checkpoint may not know: a killed, timed-out or silent job reports none.
A job is its outcome (a status and requests within the budget it was handed; `data_insufficient` stands
also for `waiting_for_official_source`, which the queue treats alike); the four reasons for
stopping early are one ("stopped"); heartbeat ages are in watchdog periods.

The watchdog modelled is `international_event_lake_watchdog.py`. The other three differ in the gates they
add (and the hierarchical one also reads a shared run state). `deep_research_worker.py` runs one job by
hand and is not modelled, nor are the shared key-values, the artifact manifest, the logs and `--dry-run`.

### LiveSupervisor

Per instance: `pc`, `mem` (`self.state`), `dir`, `wake` and what a round holds (`snap`, `merged`); the
files are `dirs` (each session's `state.json` and `transactions.log`), `pred` (the prediction CSV) and
`raw`. A round is `poll -> odds -> http -> freeze -> write -> save`, and time passes between rounds or, as
a fault, inside one.

| Actions | Code (`five_hour_supervisor.py`) |
|---|---|
| `LaunchFresh`, `LaunchResume` | `__init__`: a new directory, or the last one with a `state.json` |
| `SkipPoll`, `PollResults`, `PollFails` | the results poll and `_after_game` |
| `CheckOdds`, `Response`, `Rejected`, `NoResponse` | `_due_type`, the three conditions of the request, `_fetch_odds` and its two ways to fail |
| `Freeze`, `WriteCsv`, `WriteDenied`, `SaveState`, `Finalize` | `_freeze_due`, `to_csv`, `_save_state`, the end |
| `CollectorRead`, `CollectorWrite` | `live_2026_shadow.py freeze`, run by the scheduled collector on the same CSV |

Abstractions: the rows M1-M5 of one capture are one row; `transactions.log` is a count per fixture; the
collector adds rows of its own keys, so that only what it drops is kept. `WindowsFire` speaks of a session
whose saved start and deadline enclose the window. Without a slow round it excuses a window only for the
ceiling; with them, also for a request less than that many minutes before it opens.

### ProspectiveLedger

Two runs, `"task"` and `"hand"`, execute the collector's loop over `Plan` (one window after the other:
`PassWindow`, `MarkMissed`, `LogWindow`, or `CheckKey` and `AppendRecord`) and then the scorer
(`ReadForScores`, `FlushScores`). `existing` is the set of keys a run reads once, before the loop;
`CheckKey` reads the keys again, as `record` does, and `AppendRecord` follows it without a lock. `tail`
says how each JSONL file ends: a line without its newline swallows the next one, and a line that does not
parse makes every later `keys()` and `records()` raise. The schedule is a phase and an interval.

Assumptions: `record` begins and ends in the same minute (its check and its append are microseconds
apart; `FirstWriteWins` says what that leaves), and the session log that follows an append is merged with
it. Logs and heartbeats are otherwise left out, as nothing reads them back across sessions.

### EventLake

An object and a record are a match and a version of its content. Each worker runs `restore`, `acquire` or
`rebuild`: it reads the index at the start (`Start`), looks at local files or downloads, stores an object
(`PutObject`), then its manifest line (`AppendManifest`), and replaces the index at the end
(`WriteIndex`). `alone` and `last` are history variables that say whether anything disturbed a run. The
objects and the index are written with a rename, so only the manifest can be cut. The order in which
matches are visited is left open. An acquisition is one without `--limit`: with it, one run asks for some of
the missing matches only, and `LakeRepaired` would promise no more than those. Content addressing makes an object's bytes agree with its name, so the
sentinel's checks come down to `IndexBacked`.

### HistoryBackfill

`used` is the provider's count of the day, `made` the adapter's count of its own run. A run is
`check -> seed -> quota -> loop (events -> lineups -> decide -> save) -> final -> after`, where `check`
is the daily resume and a manual run (`"job"`) starts at `seed`. Eight kinds of fault can be met by a
request or a write; the provider's day ends at any moment (`Day`).

Assumptions: the provider's answer about a finished fixture does not change, so asking again rewrites
the same content-addressed file; `/status` counts as a request (the code's comment). Raw files of error
payloads are left out.

### TradingGate

| Actions | Code (`trading/`) |
|---|---|
| `Buy`, `Reduce` | `target_yes_position` and `intent_from_position_decision` (`strategy.py`): an intent and the position it was sized on (`base`, a history field) |
| `DraftIntent` | an intent written by hand, as `data/live/example_trade_intent.json` |
| `Submit` | `submit_if_approved` (`service.py`): `RiskGate.evaluate`, the mode, the confirmation, the client's arming |
| `Fill`, `Refuse` | the exchange's side of an immediate-or-cancel order; whether the answer arrives changes nothing here |
| `Observe`, `Report`, `Reconcile` | the quote, portfolio and position files, which others bring up to date |

`hand` holds the order a desk has judged and is sending. `executed`, `held`, `exposure` and `fills` are
the exchange's truth, which no file shows until someone copies it. `blind` counts fills of orders judged
on a portfolio that missed an earlier fill, `crossed` fills of intents sized on such a position. A
probability is a whole percent, so that a contract's price in cents is its market probability; a tick is
ten seconds. An order may stay under way for any number of them: the `timeout_seconds` that `kalshi.py:139-144`
hands to `requests` is one of the connection and of each read, and nothing bounds the request as a whole. A quote without both sides proposes and passes nothing and is left out, as are the
confidence score (optional; an order passes without it) and the policy switches that turn a check off,
which the shipped policy leaves on. The probability that proposes an intent is the one it carries.

### OfficialStandings and MatchEvents

Pure functions, written as the code computes them: stable sorts by insertion, blocks of equal keys,
recursion on a block (`OrderTied`), and folds over events. The state machines only feed them: `AddResult`
adds the next fixture's score, `Report` the next event. `listing` is the order in which Python iterates
the set of teams. `Above` is the reference definition, written from Article 13 as a relation between two
teams, without sorting. A team may be unranked (`FifaRank` is partial; the code's rank is 999), and the names,
which come last, are compared by their place in `Named`. A goal may carry a detail that names a cancellation:
the two windows of `result_semantics.py` leave such goals out, `score_from_events` counts them, and
`reconcile_goals` reads no detail. As `OrderTied` recurses, nothing here is proved.

## 3. Runs

| Run | Question | Bounds and why they are enough |
|---|---|---|
| `collector_clean` | with nothing failing: ceiling, spacing, no fixture without prediction, windows fire, the CSV implements the ledger | two fixtures whose T-90 and T-15 windows collide, up to minute 110 (both kickoffs), 0, 4 or 6 of 6 credits spent before, so that the ceiling is met early, late and never |
| `collector_faults` | halts, lost and unbilled requests, kills inside every write: how far can credits go, is the file still sound, does each market row have the source it says | two faults (one to damage a file, one to hit the recovery), 30 minutes = six cycles, two credits; the targets price one fixture, which an answer may leave out, so that a row is met with either source |
| `harvester_single` | one driver, kills and offline refreshes: the scored CSV implements the ledger, locks are recovered, final results are scored | three fixtures, one of which can never be scored, starting after a first scored row |
| `harvester_race` | both drivers, all faults: is the ledger sound and is every row backed by a published result | two fixtures, of which the gate excludes one (its snapshot is six seconds late), while its result decides how the goals of the other are spelt; one correction and a kill or a cut file; results are symmetric |
| `research_queue` | a queue with a critical job under every fault | two jobs, so that one is before and one after; two requests, so that a budget can be partly spent; two faults |
| `live` | what a five-hour session charges, captures twice, loses or misses, over kills, relaunches, twins and the collector's writes | kickoffs at 30 and 125, so that T-15 and the result of one meet the baseline and T-90 of the other; 47 minutes = a whole session with its launch; three credits, so that the ceiling is met; two instances, two session directories, two faults |
| `prospective` | one record per window, missed against captured, windows the schedule reaches, one score per match | two fixtures and runs at three phases of the quarter of an hour: one reaches both windows, one only one, one none; 46 minutes = every window and the result; two faults, of which a manual and a dry run are two |
| `event_lake` | what the index rests on when two restorers overlap, are killed, or the upstream changes a match | two matches of two versions (the second changes the object's address), two workers, three runs (damage, damage, repair), two faults; matches, versions and workers are symmetric |
| `backfill` | the quota reserve, raw files behind the done list, and completion over days, kills and eight kinds of provider and process failure | three fixtures, one of them in the prior cohort; seven requests a day with a reserve of two, so that a day ends by quota, by budget and by completion; `SaveEvery` is 2 (50 in the code) and `Attempts` 2 (3 in the code), which keeps one checkpoint inside the manifest and one retry |
| `trading` | what caps, targets and order identifiers still promise when files lag and desks overlap | sizes are a fifth of the shipped ones, so that two orders meet every cap: two contracts, a dollar an order, $2.30 an event; two desks, two intents, one blind fill; a tight and a wide spread, a probability that buys and one that reduces; a demo policy, a demo policy beside a production environment and a live one; two ticks, of which the first makes a quote stale and the second a prediction |
| `football_rules` | the official group order against a direct reading of the tie-break rules, and the readings of an event feed against one another | all results of a group of four drawn from four scores, two listing orders, two teams without a rank that their names must separate; every feed of up to three events, among them missed and cancelled penalties and `Var` cancellations, over four times: stoppage of the second half, its edge, the end of extra time and its stoppage |

The other run, `collector_latest`, shows a statement of the repository that the code does not meet
(section 4).

`CHECK_DEADLOCK FALSE` stands where a model ends: at `Horizon` (the collector's cfgs, `live`,
`prospective`, `trading`), after `MaxRuns` (`event_lake`), or when all games and events are in (`football_rules`).
The type invariants (`TypeOK`) are theorems, and no run repeats them.

**Fairness.** `ScoreHarvester!Fairness` and `ResearchRun!Fairness` are weak fairness of the scheduled
starts (Task Scheduler's repetition with StartWhenAvailable), of a process that was started (an operating
system runs it), and of time. `HistoryBackfill!Fairness` is the same for the daily task, the change of
day and each run's steps. Kills, time-outs, manual runs, offline refreshes, provider changes and the
scheduler's own restart are not fair. `EveryFinalScored` asks only for results that stay final;
`CrashResumed` excuses a run the watchdog was told to leave alone (a moved collector checkout, an
integrity violation) or whose earlier session had written `queue_complete`.

## 4. Findings

| Run | The repository says | The model shows |
|---|---|---|
| `collector_latest` | predictions are frozen from the latest live snapshot | `sorted(glob)` orders `odds_T-15_`, `odds_T-90_`, `odds_baseline_` by type before time (`live_2026_shadow.py:57`) |

What else the models had to follow, and which their passing properties name as the excused cases:

- **Collector.** `record_request` runs after the response (`fetch_odds_live_2026.py:65`): a request that
  is charged and whose response is lost is never counted, so the ceiling holds per fault
  (`DamageBound`). A torn budget file forgets the request floor as well. A cut prediction CSV loses rows
  for good, and is the only thing that does (`RowsLostOnlyInCutWrite`): the next write has a baseline row
  again of every fixture to come (`WritesCoverUpcoming`). Cut before its header, it ends the freezing
  (`EmptyLedgerIsFinal`), and a torn baseline snapshot suspends it until the next baseline, whatever
  T-90 and T-15 snapshots arrive (`TornBaselineBlocks`). A market row whose odds came from
  `forecast_targets` still names the snapshot that does not quote its fixture, if there is one
  (`live_2026_shadow.py:116-122`), so that a row's snapshot time says where its odds are from only
  when the row counts bookmakers; `RowsHaveSnapshot` is stated accordingly.
- **Harvester.** Two cycles may both hold the lock, and the later write of the CSV drops the other's
  rows. A fixture that waits for its result is in the exclusion ledger and counts as resolved, so the
  driver calls a cohort terminal at its first status, once a results file is there
  (`run_prospective_score_harvester.py:92`, `TerminalAtFirstStatus`). A cohort without results writes a
  CSV without columns, which every later cycle fails to read (`prospective_score_harvester_v1.py:226`,
  `WedgedBeforeFirstResult`, `WedgeIsPermanent`); `EveryFinalScored` is therefore checked from a first
  scored row on. The last final result changes the spelling of all goals, hence every hash, and each
  fixture is scored again. Corrections after all fixtures are final are never fetched, and the terminal
  state cannot be written when the exclusion CSV is empty.
- **Research runs.** The watchdog calls a run complete when all jobs in `state.json` have ended, but that
  file lists only the jobs reached so far: a run that dies between two jobs is never resumed, which is
  why `CrashResumed` speaks of runs that died inside one. A `queue_complete` summary of an earlier
  session has the same effect. Such a run stays dead (`DeadRunsStayDead`). The event-lake watchdog's
  docstring says it disables restarts on a changed frozen-ledger hash, where the code only raises an
  alert; a watchdog that read the files before a run ended may start it again.
- **Live supervisor.** A type is marked done before the CSV is written, so a denied write, or the
  collector's overwriting merge, loses the capture for good. A relaunch or a second instance captures
  again what a session had in memory only.
- **Prospective ledgers.** Windows have ten minutes of grace and runs come every fifteen: some are never
  reached (`ScheduleDecides` says which). A line cut by a kill makes every later `keys()` and `records()`
  raise, where `docs/CRON_SETUP.md:35` says the next run resumes cleanly: nothing is captured or scored
  any more (`TornLinesAreFinal`). Dry runs mark windows as missed, captured ones too. In-play windows are
  never captured.
- **Event lake.** Content that changed upstream leaves an orphan object for ever, which fails the
  sentinel; a broken canonical file hides a good earlier one; overlapping restorers lose each other's
  index entries until the index is rebuilt; a cut manifest line makes the retention check raise.
- **Backfill.** `status_class == "429"` never holds (the class is `"4xx"`), so a rate limit is retried
  and the loop goes on. A 200 whose body is not JSON is marked done without a raw file. A torn
  `progress.json` restarts from the prior cohort. Two backfills spend the same remainder: "No concurrent
  backfills" stands only in a docstring. An error payload with an empty response counts as backed.
- **Trading.** A position cannot be left: `strategy.py:81-86` proposes a reduction when the model "no
  longer supports" the exposure, and the gate asks every intent for the edge of an entry (`risk.py:72`),
  which such a reduction never has. `ReductionsAreNeverSent` proves it for all thresholds ordered as the
  shipped ones are. The shipped example intent has no `client_order_id`: it gets a new one each time it is
  loaded, and can be filled again after a time-out that hid a fill (`FilledOnce` speaks of intents that
  carry theirs, as the strategy's do). With the shipped budget the variance allows 36 contracts at least,
  so the target is always `max_contracts` = 10, and an entry above 50 cents exceeds the order cap and is
  rejected, not trimmed. The gate never reads `market_observed_at_utc` of an intent, and nothing reads
  `allow_unattended_live`.
- **Standings and events.** `score_from_events` counts goals whose detail says they are cancelled
  (`event_semantics.py:52` looks for "missed" only) where `result_semantics.py:37` skips them;
  `reconcile_goals` counts missed penalties as goals; one `Var` cancellation removes every goal of its team
  and minute (`replay_semantics.py:44`), where line 6 says it nullifies a goal, so that `ReadingsAgree`
  holds it to that only for sides that score once a minute; stoppage in extra time moves a goal past minute 120. The
  degraded status of `score_from_events` looks beyond the cut-off its docstring calls causal. One module
  says VAR-cancelled goals are naturally excluded, the other nullifies them. The simulator never sets a
  conduct score, so the tie-break by conduct never decides there.

## 5. Proofs

Some theorems state a property that a run checks; the others state what an invariant or a step means
beyond the runs, among them what a torn file or an early status does for good. The theorems hold for all
values of the constants that satisfy the named assumptions: any fixtures, kickoffs, predictions, credit
ceilings, queues, request budgets, fault kinds and numbers of faults. Each module proves `Init => Inv`
and `Inv /\ [Next]_vars => Inv'`, one lemma or step per action, and derives the rest.

| Theorem | From | Argument |
|---|---|---|
| `ShadowCollectorProofs!TypeCorrect`, `DamageIsBounded` | `BoundsAssumption` | what the budget file or the fetcher's memory knows, plus one ceiling per fault, bounds what was charged; a request between its charge and its record is carried by the program counter |
| `ShadowCollectorProofs!LedgerIsSound` | and `KickoffAssumption` | the rows held in memory are as sound as those on file, and their time is not in the future; a cut write keeps a subset |
| `ShadowCollectorProofs!SnapshotsExist` | `BoundsAssumption` | a snapshot is stored before its rows are built and never removed, so the rows in memory and on file that count bookmakers have theirs, which quotes their fixture; the other market rows are of a priced fixture (`AllBacked`) |
| `ShadowCollectorProofs!CeilingWithoutFaults` | `BoundsAssumption` and `MaxFaults = 0` | the case of `DamageBound` that the documented ceiling is about: every charged request has been recorded when the next is decided |
| `ShadowCollectorProofs!LedgerImplemented` | and no "kill" in `FaultKinds` | the merge in memory contains the file until it is written |
| `ShadowCollectorProofs!RequestsAreSpaced` | `BoundsAssumption`, no "lost" and no "kill" in `FaultKinds` | `SpacingInv`: the last charged request is the one the budget file or the program counter knows, so the second check of the floor sees it |
| `ShadowCollectorProofs!EveryMatchPredicted` | `BoundsAssumption`, `KickoffAssumption` | `CleanInv`: while nothing fails a cycle ends before the next one starts (`Timing`), the first one predicts every fixture, nothing it reads is unreadable, and later merges keep its rows (`Predicting`) |
| `ShadowCollectorProofs!EveryWindowFires` | the same | one start decides a window: the last start of the T-15 window, and a start ten minutes or more into the T-90 window, which only a request inside the window can deny. `WindowInv` carries that start from the decision to the raw file |
| `ShadowCollectorProofs!RowsLostOnlyInCutWrite` | `BoundsAssumption`, `KickoffAssumption` | outside a kill in `to_csv` the merge that is written contains the file and has unique keys |
| `ShadowCollectorProofs!WritesCoverUpcoming`, `EmptyLedgerIsFinal`, `TornBaselineBlocks` | the same | `MergedCovers`: what a freeze merged has a baseline row of every fixture still to kick off; a file of another type never becomes the last by name (`BaselineLast`) |
| `ScoreHarvesterProofs!TypeCorrect`, `LedgerIsSound`, `ResultsPublished` | the module's assumptions | every row in a file or a memory is a primary row, within the five seconds of the gate, of a published result; merging keeps keys unique because a key determines the row |
| `ScoreHarvesterProofs!LedgerImplemented` | `Drivers = {"task"}` and no "cut" | a single driver's memory contains the file between reading and writing it |
| `ScoreHarvesterProofs!RowsLostOnlyInCutWrite` | `Drivers = {"task"}` | the same memory (`Alone`), whichever file is cut |
| `ScoreHarvesterProofs!WedgeIsPermanent` | the module's assumptions | the only write of the CSV follows a read that raises on a file without columns |
| `ScoreHarvesterProofs!WedgedBeforeFirstResult`, `TerminalAtFirstStatus` | `Drivers = {"task"}` | every scored row met a published result, so that there is none before the first; `Covering`: whatever is not scored is in the exclusion ledger when the status is decided |
| `ResearchRunProofs!TypeCorrect`, `GateHolds`, `BudgetIsBounded`, `CompletedNeverLost` | `QueueAssumption` | `RunInv`: a session exists exactly while the task runs; outside a job its memory equals the checkpoint; the jobs behind it passed the gate; `billed <= remembered + MaxApi * charged faults`, where an integrity violation is charged when the watchdog stops the run |
| `ResearchRunProofs!SummaryIsHonest` | `QueueAssumption` | `Ended`: the jobs behind a session's position have outcomes, the one it has run too, and a summary is written only past the last job or for a stop |
| `ResearchRunProofs!DeadRunsStayDead` | `QueueAssumption` | `Abandoned`: no task runs, the files ask for no restart, and a watchdog half-way has read no others |
| `LiveSupervisorProofs!TypeCorrect`, `CeilingOfSession` | `SupervisorBounds` | `CreditInv`: unless a twin ever ran, one instance is alive (`Solo`), what its session was charged exceeds its memory by at most the kills and lost responses so far (`RunningAccount`), and a closed session's file says the same (`IdleAccount`) |
| `LiveSupervisorProofs!CapturesAreTakenOnce` | `SupervisorBounds` | `CountInv`: rows on file, rows about to be written and instances that may still take the capture are together at most 1, plus the restarts, plus the twins. A kill turns an instance into a file that may be resumed (`Resumable`), which is the place its restart takes |
| `LiveSupervisorProofs!ResultsAreRecorded` | and `MaxFaults < Duration` | `SyncInv`: file and memory agree between rounds; `OnceInv`: a log holds at most what the state and the restarts account for; `LoggedInv`: what a state calls updated is in the log; `PollInv`: slow rounds delay the next poll by no more than their number |
| `LiveSupervisorProofs!LiveWindowsFire` | and `MaxFaults <= 10` | `RequestInv`: requests are a floor apart and none is forgotten; `WindowInv`: from the opening of a window on its capture is waited for, answered or being written within reach of its closing |
| `LiveSupervisorProofs!CapturesAreOnFile` | and no fault that damages or shares the CSV | `FileInv`: what an instance remembers as done is on file, or is the row it is about to write |
| `LiveSupervisorProofs!PredictionsSound` | `SupervisorBounds` | `SoundInv`: the rows on file, those the collector holds and those about to be written are each of their window and one per key |
| `LiveSupervisorProofs!RowsLostOnlyInCutWrite`, `PredictionsAppendOnly` | the second: no "cut", "overlap" or "twin" in `FaultKinds` | `HeldInv`: while no one else writes the CSV (`Sole`), what is about to be written contains what is on file |
| `ProspectiveLedgerProofs!TypeCorrect`, `LedgerInvariant`, `LedgerFirstWriteWins`, `MarkedMeansAbsent` | `ProspectiveBounds` | `LedgerInv`: scheduled runs do not overlap (`Alone`), the keys a run read are on file, a run that appends found its window free when it began; two records of a window are of the same minute and of two runs |
| `ProspectiveLedgerProofs!RecordsScoredOnce` | the same | `ScoreInv`: a batch is on file, over and, without a run by hand, not scored (`Fresh`); while only time goes wrong a record without score has its run still to come (`Awaiting`, in `SlowInv`) |
| `ProspectiveLedgerProofs!ScheduleIsDecisive` | and `MaxFaults <= Interval` | `SlowInv`: while nothing fails but slow runs, the windows the task has passed are served (`Covered`, `Overdue`); `Missing`: a window without record had no turn yet. `Schedule` and `NextTurn` do the arithmetic of multiples of the interval |
| `ProspectiveLedgerProofs!RecordsAppendOnly` | `ProspectiveBounds`, no "manual" in `FaultKinds` | `ledger.jsonl` implements `AppendOnlyLedger` with the pre-match windows, captured while open, as the admissible records: `FirstWriteWins` is then a unique key, and a run appends only what it found due (`FilesInv`) |
| `ProspectiveLedgerProofs!ScoresAppendOnly` | and no "dry" | `scores.jsonl` implements it too, one score per captured record (`ScoredAtMostOnce`) |
| `ProspectiveLedgerProofs!TornLinesAreFinal` | `ProspectiveBounds` | a torn file stays torn (`TornStays`), and every run reads it before it appends |
| `EventLakeProofs!TypeCorrect`, `IndexIsBacked` | `LakeBounds` | `LakeInv`: each line names a stored object (`LinesStored`), the record in hand is stored before its line (`ItemStored`), and the entries a worker has in memory are backed as those of the index are (`MemBacked`); objects and lines are never removed (`GrowingKeeps`) |
| `EventLakeProofs!EntriesAreKept` | `LakeBounds` | `KeptInv`: one worker runs unless overlapped (`OneRunning`), and what it has in memory covers the index it will replace (`MemCovers`) |
| `EventLakeProofs!RunRepairs` | `LakeBounds` | `RepairInv`: what a worker still has to look at, plus what it has in memory, covers what its script promises (`WorkInv`, `Repairs`), and the index it leaves stays so until something disturbs it (`Settled`) |
| `EventLakeProofs!LakeOnlyGrows`, `CutsBreakOneLine` | `LakeBounds` | an append changes the line it ends with only if that one was cut; a last line without its newline counts as broken already, so that the append that runs into it breaks no other (`BrokenInv`) |
| `HistoryBackfillProofs!TypeCorrect`, `BackfillInvariant`, `ReserveIsKept`, `DoneRestsOnRaw` | `BackfillBounds` | `OneRun` unless overlapped; `QuotaInv`: the requests of the day, those a run was granted and has not made, and the probes are within the limit less the reserve; `RawInv`: the done list on file and in memory, and the answers of the fixture in hand, have raw files |
| `HistoryBackfillProofs!DoneIsNotAskedAgain`, `ProgressOnlyGrows` | `BackfillBounds` | `RawInv`: unless runs overlapped, what a run knows to be done contains what the file says, and the fixture in hand is on neither |
| `TradingGateProofs!TradingInvariant`, `ExposureIsCapped`, `TargetIsHeld`, `NamedIntentsFillOnce` | `TradingBounds` | `TradeInv`: an order under way is of an existing intent, within the gate's sizes, and fitted the exposure it saw (`Judged`); a proposed purchase tops its base up to the maximum at most (`Proposed`); a filled intent that carries its identifier is remembered by the exchange (`Remembered`). A fill then either saw the present exposure and fits its cap, or adds at most one order's cap |
| `TradingGateProofs!ReductionsAreNeverSent` | and `TradingThresholds` | a proposed reduction has an edge below the gate's minimum (`Proposed`), an order under way does not (`Judged`) |

The properties alone are not inductive: `DamageBound` says nothing of a request under way, `LedgerSound`
nothing of the rows a process is about to write, `CriticalGate` nothing of what a restart will load,
`SessionCeiling` nothing of what a relaunch will read, `IndexBacked` nothing of a worker's memory,
`ExposureCapped` nothing of an order under way,
`CapturedOnce` nothing of the instances that will still write, `LakeRepaired` nothing of a run half done, and
the timing properties nothing of when the next start is due.

**Hypotheses.** Each is about the faults that can happen.

- `ScheduleIsDecisive` allows `Interval` minutes of delay in all. With one more a run can last past the
  next turn, which Task Scheduler then skips: TLC finds a window that was hit and not captured.
- `LiveWindowsFire` allows ten: a T-15 window lasts eleven minutes and the floor takes ten of them. With
  eleven slow minutes TLC finds a session that misses one.
- `ResultsAreRecorded` asks that slow rounds take less than the session: one held up for all of it would
  end before its first poll. That nothing is logged twice rests on no such hypothesis (`OnceInv`).
- `RequestsAreSpaced` excludes the two faults that charge a request nobody records, after which the next
  cycle may ask at once. Halts and unbilled requests are allowed.
- `RecordsAppendOnly` and `ScoresAppendOnly` exclude runs by hand, as two runs may both find a key absent
  (`FirstWriteWins` says what holds with them). Kills, cut lines and slow runs are allowed.
- The harvester's `LedgerImplemented`, `RowsLostOnlyInCutWrite`, `WedgedBeforeFirstResult` and
  `TerminalAtFirstStatus` are about the scheduled task as the only driver. With the watchdog's cycle beside
  it rows are lost without a kill, as the later of two merges does not contain the earlier one.
- `PredictionsAppendOnly` excludes the cut write and the two faults that add a writer, as either breaks it;
  the three theorems called `RowsLostOnlyInCutWrite` say that nothing else does. `DoneIsNotAskedAgain` and
  `ProgressOnlyGrows` speak of the time before two backfills first overlap.

Where a theorem speaks of what happens while nothing fails, or nothing but slow runs, its property says so
(`faults = 0`, `OnlySlow`) and not its hypotheses: it holds in every behaviour, up to the first other
fault.

**Only model-checked.** Liveness (`EveryFinalScored`, `StaleLockRecovered`, `CrashResumed`,
`BackfillCompletes`) is beyond the prover. `OfficialStandings` and `MatchEvents` recurse over data, so that
`OfficialOrder`, `GoalsNeverHurt` and `ReadingsAgree` would take induction over data. Every other property of a
passing run is a theorem.

## 6. Plan

Done: the collector, the harvester and the research queue; the supervisor, the prospective ledgers, the
event lake, the backfill, the trading gate, the standings and the event readings. What is left, in order of what it
decides for the study:

1. **`LiveStudy`**: `LiveSupervisor` composed with the full `ShadowCollector` over the one prediction CSV
   and raw directory, in place of the single `overlap` step that stands for the collector now.
2. The three watchdogs that are not modelled, as variants of the event-lake watchdog in `ResearchRun`.
3. The ranking of third-placed teams and the counting of cards, beside `OfficialStandings`.

Theorems: an abstract session (a capture is owed, taken or lost) that `LiveSupervisor` implements; what
the composition of item 1 keeps of `CapturedOnce` and of the collector's `LedgerSpec`. Which faults break
the append-only ledger is settled for each of its writers alone (`RowsLostOnlyInCutWrite`), not for the
composition.

## 7. Not modelled

Floating-point fitting, evaluation and simulation (out of TLC's reach); feature extraction from recorded
matches (sequential, numeric); HTTP adapters (their answers are inputs); static policy tables; one-shot
research scripts (jobs of `ResearchRun`); installers, except for the limits and repetitions they set.
Of the components that are modelled in part: the content-addressed raw store, the ranking of third-placed
teams, the Monte Carlo draw, card counts and exception classes, the older backfills (a static reserve in
place of the shared one), the in-play reads of the adapters, and the heartbeats of a session, which no
decision reads. These parts are most of the repository's lines: the share that is modelled is what keeps
state across processes, which is where order, failure and time matter. The model registry's look-ups
have no state; `TradingGate` takes their answer as a field of the intent.
