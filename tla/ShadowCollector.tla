--------------------------- MODULE ShadowCollector ---------------------------
(***************************************************************************)
(* One cycle of the durable shadow collector, started by the Windows Task  *)
(* Scheduler every Interval minutes: scripts/windows/shadow_collector_     *)
(* cycle.py and the processes it runs one after the other, the budget-     *)
(* guarded odds fetcher (fetch_odds_live_2026.py with OddsBudget) and      *)
(* live_2026_shadow.py freeze.  The three share files: the budget state,   *)
(* the directory of raw snapshots and the prediction CSV.                  *)
(*                                                                         *)
(* Time is in minutes.  A file write is one step, but a kill during it     *)
(* leaves what a truncating, non-atomic write can leave.                   *)
(***************************************************************************)
EXTENDS Integers, FiniteSets

CONSTANTS
  Matches,       \* the eligible fixtures of the queue and the targets
  Kickoff,       \* [Matches -> Nat], kickoff in minutes
  Priced,        \* fixtures whose market forecast_targets_2026.csv holds already
  Answers,       \* the sets of fixtures an odds response can quote
  MaxCredits,    \* the credit ceiling (500 in the code)
  InitialUsed,   \* what the budget may already have recorded at the start
  InitialLast,   \* minute of the last request recorded before the run
  Slow,          \* bound: minutes a cycle may take (the task limit is 4)
  Horizon,       \* bound: the last minute of the run
  HardEnd,       \* --hard-end-utc
  FaultKinds,    \* which of "halt", "unbilled", "lost", "kill" can happen
  MaxFaults      \* bound: how many faults happen

Interval    == 5     \* the task's repetition interval
MinInterval == 10    \* OddsBudget.min_interval_s, in minutes
BaselineGap == 120   \* the baseline fallback's spacing
Never       == -100000   \* the None of a timestamp: before any real minute

\* The snapshot types, ranked by the file names they give ("odds_<type>_...").
NameRank(t) == IF t = "T-15" THEN 1 ELSE IF t = "T-90" THEN 2 ELSE 3

SnapshotTypes == {"T-15", "T-90", "baseline"}

\* M1 needs no market; M2..M5 are frozen together and stand as "market".
Models == {"M1_B1", "market"}

ASSUME BoundsAssumption ==
  /\ MaxCredits \in Nat \ {0} /\ MaxFaults \in Nat
  /\ Slow \in Nat /\ Slow < Interval
  /\ Horizon \in Nat /\ HardEnd \in Int
  /\ InitialUsed \subseteq 0..MaxCredits
  /\ InitialLast \in Int /\ InitialLast <= 0
  /\ FaultKinds \subseteq {"halt", "unbilled", "lost", "kill"}

ASSUME KickoffAssumption == Kickoff \in [Matches -> Int]

ASSUME MarketAssumption == Priced \subseteq Matches /\ Answers \subseteq SUBSET Matches

VARIABLES
  now,       \* the clock
  started,   \* minute the latest cycle started
  pc,        \* where the running cycle is; "idle" between cycles
  due,       \* the snapshot type passed to the fetcher
  mem,       \* the fetcher's in-memory copy of the budget
  stamp,     \* snapshot_utc, taken before the HTTP request
  merged,    \* the rows freeze holds in memory before to_csv
  budget,    \* odds_budget.json; ok is FALSE when it does not parse
  raw,       \* the raw snapshot files; ok is FALSE for a torn one
  pred,      \* the prediction CSV: state "absent", "ok" or "empty", and rows
  heartbeat, \* minute in collector_heartbeat.json
  billed,    \* credits the provider has charged since the budget was opened
  gap,       \* minutes between the two latest charged requests
  charged,   \* minute of the latest charged request
  faults     \* faults so far

cycleVars == <<pc, due, mem, stamp, merged>>
fileVars  == <<budget, raw, pred, heartbeat>>
extVars   == <<billed, gap, charged>>
vars == <<now, started, cycleVars, fileVars, extVars, faults>>

-----------------------------------------------------------------------------
(* OddsBudget *)

EmptyBudget == [ok |-> TRUE, used |-> 0, last |-> Never]

\* _load: any exception, and so a torn file, reads as the empty state.
Loaded(b) == IF b.ok THEN b ELSE EmptyBudget

CanRequestNoFloor(b)  == b.used + 1 <= MaxCredits
CanRequestNoCeiling(b) == now - b.last >= MinInterval

CanRequest(b) == /\ b.used + 1 <= MaxCredits
                 /\ now - b.last >= MinInterval

RecordedNoCredit(b) == [ok |-> TRUE, used |-> b.used, last |-> now]

Recorded(b) == [ok |-> TRUE, used |-> b.used + 1, last |-> now]

-----------------------------------------------------------------------------
(* shadow_collector_cycle.py *)

MinutesTo(m) == Kickoff[m] - now
Upcoming     == {m \in Matches : MinutesTo(m) > -5}

DueType == IF \E m \in Upcoming : MinutesTo(m) \in 10..20 THEN "T-15"
           ELSE IF \E m \in Upcoming : MinutesTo(m) \in 80..100 THEN "T-90"
           ELSE "baseline"

SnapshotDueSparse(b) == Upcoming # {} /\ now - b.last >= BaselineGap

\* A snapshot is due, the sparse baseline only when none is recent.
SnapshotDue(b) == /\ Upcoming # {}
                  /\ DueType = "baseline" => now - b.last >= BaselineGap

\* The scheduler starts this interval's cycle; IgnoreNew allows one at a time.
Startable == pc = "idle" /\ now % Interval = 0 /\ started < now

Fault(kind) == kind \in FaultKinds /\ faults < MaxFaults /\ faults' = faults + 1

HaltFlags ==
  /\ Startable /\ Fault("halt")
  /\ started' = now /\ heartbeat' = now
  /\ UNCHANGED <<now, cycleVars, budget, raw, pred, extVars>>

StopHardEnd ==
  /\ Startable /\ now > HardEnd
  /\ started' = now /\ heartbeat' = now
  /\ UNCHANGED <<now, cycleVars, budget, raw, pred, extVars, faults>>

StartCycle ==
  /\ Startable /\ now <= HardEnd
  /\ started' = now
  /\ LET b == Loaded(budget)
     IN  IF SnapshotDue(b) /\ CanRequest(b)
           THEN pc' = "fetch" /\ due' = DueType
           ELSE pc' = "freeze" /\ UNCHANGED due
  /\ UNCHANGED <<now, mem, stamp, merged, fileVars, extVars, faults>>

\* A process that ends takes its memory with it.
Exit == /\ pc' = "idle" /\ due' = "baseline" /\ mem' = EmptyBudget
        /\ stamp' = Never /\ merged' = {}

EndCycle ==
  /\ pc = "report" /\ Exit
  /\ heartbeat' = started
  /\ UNCHANGED <<now, started, budget, raw, pred, extVars, faults>>

-----------------------------------------------------------------------------
(* fetch_odds_live_2026.py --execute *)

\* The fetcher loads the budget itself, checks again, and stamps the snapshot.
FetchCheck ==
  /\ pc = "fetch"
  /\ LET b == Loaded(budget)
     IN  IF CanRequest(b)
           THEN pc' = "http" /\ mem' = b /\ stamp' = now
           ELSE pc' = "freeze" /\ UNCHANGED <<mem, stamp>>
  /\ UNCHANGED <<now, started, due, merged, fileVars, extVars, faults>>

Charge == billed' = billed + 1 /\ gap' = now - charged /\ charged' = now

Request ==
  /\ pc = "http" /\ Charge
  /\ pc' = "record"
  /\ UNCHANGED <<now, started, due, mem, stamp, merged, fileVars, faults>>

\* client.odds raises: the fetcher exits before record_request, and the cycle
\* goes on to freeze.  The provider may or may not have charged the request.
RequestLost ==
  /\ pc = "http" /\ Fault("lost") /\ Charge
  /\ pc' = "freeze"
  /\ UNCHANGED <<now, started, due, mem, stamp, merged, fileVars>>

RequestUnbilled ==
  /\ pc = "http" /\ Fault("unbilled")
  /\ pc' = "freeze"
  /\ UNCHANGED <<now, started, due, mem, stamp, merged, fileVars, extVars>>

RecordRequest ==
  /\ pc = "record"
  /\ budget' = Recorded(mem)
  /\ pc' = "raw"
  /\ UNCHANGED <<now, started, due, mem, stamp, merged, raw, pred, heartbeat,
                 extVars, faults>>

\* A response of the provider, saved whole or cut.
Snapshot(ok, quotes) == [type |-> due, stamp |-> stamp, ok |-> ok, quotes |-> quotes]

WriteRaw ==
  /\ pc = "raw"
  /\ \E quotes \in Answers : raw' = raw \cup {Snapshot(TRUE, quotes)}
  /\ pc' = "freeze"
  /\ UNCHANGED <<now, started, due, mem, stamp, merged, budget, pred, heartbeat,
                 extVars, faults>>

-----------------------------------------------------------------------------
(* live_2026_shadow.py freeze *)

\* sorted(glob(...)): by type first, by time only within a type.
NamedBefore(f, g) == \/ NameRank(f.type) < NameRank(g.type)
                     \/ f.type = g.type /\ f.stamp <= g.stamp

LastByName == {f \in raw : \A g \in raw : NamedBefore(g, f)}

NoSnapshot == [type |-> "baseline", stamp |-> Never, ok |-> TRUE, quotes |-> {}]

Source == IF LastByName = {} THEN NoSnapshot ELSE CHOOSE f \in LastByName : TRUE

Key(r) == [match |-> r.match, model |-> r.model, snap |-> r.snap]

\* Every row names the snapshot, whether its market came from there (with books) or
\* from the targets (without).
Frozen(m, v) ==
  [match |-> m, model |-> v, snap |-> Source.stamp, at |-> now, books |-> m \in Source.quotes]

Unplayed  == {m \in Matches : Kickoff[m] > now}
HasMarket == Source.quotes \cup Priced

NewRowsWithMarketOnly == {Frozen(m, v) : m \in Unplayed \cap HasMarket, v \in Models}

\* One M1 row per upcoming fixture, and its market rows when a market is known.
NewRows == {Frozen(m, "M1_B1") : m \in Unplayed}
             \cup {Frozen(m, "market") : m \in Unplayed \cap HasMarket}

LastWins(old, new) == new \cup {o \in old : \A r \in new : Key(o) # Key(r)}
NoDeduplication(old, new) == old \cup new

\* concat([old, new]).drop_duplicates(subset=key, keep="first")
FirstWins(old, new) ==
  old \cup {r \in new : \A o \in old : Key(o) # Key(r)}

FreezeReadAnySnapshot ==
  /\ pc = "freeze" /\ pred.state # "empty"
  /\ merged' = FirstWins(pred.rows, NewRows)
  /\ pc' = "write"
  /\ UNCHANGED <<now, started, due, mem, stamp, fileVars, extVars, faults>>

\* Reads the snapshot and the CSV; either may be unreadable after a kill.
FreezeRead ==
  /\ pc = "freeze"
  /\ Source.ok /\ pred.state # "empty"
  /\ merged' = FirstWins(pred.rows, NewRows)
  /\ pc' = "write"
  /\ UNCHANGED <<now, started, due, mem, stamp, fileVars, extVars, faults>>

\* json.loads or read_csv raises: freeze exits with an error, the cycle goes on.
FreezeFails ==
  /\ pc = "freeze"
  /\ ~(Source.ok /\ pred.state # "empty")
  /\ pc' = "report"
  /\ UNCHANGED <<now, started, due, mem, stamp, merged, fileVars, extVars, faults>>

\* to_csv: a frame with no column (no row at all) leaves a file read_csv rejects.
FreezeWrite ==
  /\ pc = "write"
  /\ pred' = [state |-> IF merged = {} /\ pred.state = "absent" THEN "empty" ELSE "ok",
              rows  |-> merged]
  /\ pc' = "report"
  /\ UNCHANGED <<now, started, due, mem, stamp, merged, budget, raw, heartbeat,
                 extVars, faults>>

-----------------------------------------------------------------------------
(* The machine: kills and time *)

\* What to_csv can have left when it is cut: it truncates, then writes in order.
CutOff(rows) == {S \in SUBSET rows :
                   \A r \in S, q \in rows : q.at < r.at => q \in S}

\* The 4-minute limit, a reboot or a crash ends the cycle wherever it is.
Kill ==
  /\ pc # "idle" /\ Fault("kill") /\ Exit
  /\ \/ UNCHANGED <<budget, raw, pred>>
     \/ /\ pc = "record" /\ budget' = [budget EXCEPT !.ok = FALSE]
        /\ UNCHANGED <<raw, pred>>
     \/ /\ pc = "raw" /\ \E quotes \in Answers : raw' = raw \cup {Snapshot(FALSE, quotes)}
        /\ UNCHANGED <<budget, pred>>
     \/ /\ pc = "write"
        /\ \/ pred' = [state |-> "empty", rows |-> {}]
           \/ \E S \in CutOff(merged) : pred' = [state |-> "ok", rows |-> S]
        /\ UNCHANGED <<budget, raw>>
  /\ UNCHANGED <<now, started, heartbeat, extVars>>

\* Time passes inside a cycle ...
Minute ==
  /\ pc # "idle" /\ now < started + Slow
  /\ now' = now + 1
  /\ UNCHANGED <<started, cycleVars, fileVars, extVars, faults>>

\* ... and, once this interval's cycle is over, up to the next start.
NextInterval ==
  /\ pc = "idle" /\ now < Horizon
  /\ now % Interval = 0 => started = now
  /\ now' = now + Interval - (now % Interval)
  /\ UNCHANGED <<started, cycleVars, fileVars, extVars, faults>>

-----------------------------------------------------------------------------
Init ==
  /\ now = 0 /\ started = -Interval
  /\ pc = "idle" /\ due = "baseline" /\ mem = EmptyBudget /\ stamp = Never
  /\ merged = {}
  /\ \E used \in InitialUsed :
       budget = [ok |-> TRUE, used |-> used, last |-> InitialLast] /\ billed = used
  /\ raw = {} /\ pred = [state |-> "absent", rows |-> {}]
  /\ heartbeat = -Interval
  /\ charged = InitialLast /\ gap = MinInterval
  /\ faults = 0

Fetcher == FetchCheck \/ Request \/ RequestLost \/ RequestUnbilled
             \/ RecordRequest \/ WriteRaw
Freezer == FreezeRead \/ FreezeFails \/ FreezeWrite
Cycle   == HaltFlags \/ StopHardEnd \/ StartCycle \/ EndCycle

Next == Cycle \/ Fetcher \/ Freezer \/ Kill \/ Minute \/ NextInterval

Spec == Init /\ [][Next]_vars

-----------------------------------------------------------------------------
(* Properties *)

Minutes == Int
BudgetState == [ok : BOOLEAN, used : 0..MaxCredits, last : Minutes]
SnapshotFile == [type : SnapshotTypes, stamp : Minutes, ok : BOOLEAN, quotes : SUBSET Matches]
Row == [match : Matches, model : Models, snap : Minutes, at : Minutes, books : BOOLEAN]

\* The types of the variables: the budget file never records more than the ceiling.
TypeOK ==
  /\ now \in Nat /\ started \in Int
  /\ pc \in {"idle", "fetch", "http", "record", "raw", "freeze", "write", "report"}
  /\ due \in SnapshotTypes
  /\ mem \in BudgetState /\ stamp \in Minutes /\ merged \subseteq Row
  /\ budget \in BudgetState
  /\ raw \subseteq SnapshotFile
  /\ pred \in [state : {"absent", "ok", "empty"}, rows : SUBSET Row]
  /\ heartbeat \in Int
  /\ billed \in Nat /\ gap \in Int /\ charged \in Int
  /\ faults \in 0..MaxFaults

\* The ceiling the budget guard promises (odds_budget.py:3): the provider is never
\* asked for more than MaxCredits.  It holds while nothing fails.
HardCeiling == billed <= MaxCredits

\* What is left of the ceiling when requests are lost and cycles are killed, torn
\* budget files included: each failure costs at most one whole budget.
DamageBound == billed <= MaxCredits * (1 + faults)

\* Two requests that reach the provider are at least ten minutes apart
\* (fetch_odds_live_2026.py:2).  It holds while nothing fails.
SpacedRequests == gap >= MinInterval

\* Every frozen row carries a prediction made before the kickoff, from a snapshot
\* taken no later than the prediction, and there is one row per key.
Admissible(r) == r.at < Kickoff[r.match] /\ r.snap <= r.at

Ledger == INSTANCE AppendOnlyLedger WITH entries <- pred.rows

LedgerSound == Ledger!LedgerSound

\* The prediction CSV implements the append-only ledger as long as no write is cut.
LedgerSpec == Ledger!Spec

\* No market is made up: a row that counts bookmakers names a readable snapshot on
\* disk that quotes its fixture, also when the cycle that fetched it was killed, and a
\* market row that counts none took its odds from the targets.  Such a row names a
\* snapshot as well, one that does not quote it (live_2026_shadow.py:116-122).
Backed(r) ==
  /\ r.books => \E f \in raw : f.ok /\ f.stamp = r.snap /\ r.match \in f.quotes
  /\ r.model = "market" /\ ~r.books => r.match \in Priced

RowsHaveSnapshot == \A r \in pred.rows : Backed(r)

\* "From the latest live odds snapshot" (live_2026_shadow.py:8-9): once a cycle that
\* fetched a snapshot is over, each fixture still to come has a row frozen from it.
LatestSnapshotFrozen ==
  pc = "idle" /\ faults = 0 => \A m \in Matches, f \in raw :
    Kickoff[m] > now /\ (\A g \in raw : g.stamp <= f.stamp)
      => \E r \in pred.rows : r.match = m /\ r.snap = f.stamp

\* While nothing fails no fixture kicks off without a prediction on file.
NoMatchMissed ==
  faults = 0 => \A m \in Matches :
    Interval < Kickoff[m] /\ Kickoff[m] <= now /\ Kickoff[m] <= HardEnd
      => \E r \in pred.rows : r.match = m /\ r.model = "M1_B1"

\* "The valuable T-90/T-15 windows always fire (subject to the 10-min hard floor)"
\* (shadow_collector_cycle.py:91-92).  The 20 minutes of a T-90 window outlast the
\* floor; the 10 minutes of a T-15 window do not, and pass without a request when
\* another one came within an interval of its opening.
Requested(from, to) == \E f \in raw : f.stamp \in from..to
Fires(opens, closes, excused) ==
  0 <= opens /\ closes + Interval <= now /\ closes <= HardEnd
    => \/ Requested(opens, closes + Slow)
       \/ excused
       \/ budget.used = MaxCredits
WindowsFire ==
  faults = 0 => \A m \in Matches : LET K == Kickoff[m] IN
    /\ Fires(K - 100, K - 80, FALSE)
    /\ Fires(K - 20, K - 10, Requested(K - 20 - Interval, K - 21))
=============================================================================
