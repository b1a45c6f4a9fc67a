---------------------------- MODULE LiveSupervisor ----------------------------
(***************************************************************************)
(* scripts/five_hour_supervisor.py: a timed loop that polls results, asks  *)
(* for odds when a capture is due, freezes predictions into the CSV it     *)
(* shares with the scheduled collector, and saves state.json once a round. *)
(* It may be killed and launched again, with or without --resume-latest,   *)
(* and, as happened on 2026-06-21 (shadow_session_close.py:82-85), beside  *)
(* an instance that still runs.                                            *)
(*                                                                         *)
(* Time is in minutes; a file write is one step, but a kill during it      *)
(* leaves what a truncating write can leave.  The rows of one capture (M1  *)
(* to M5 of a fixture) are written together and are one row here.          *)
(***************************************************************************)
EXTENDS Integers, FiniteSets

CONSTANTS
  Instances,    \* processes that can run the script
  MaxSessions,  \* bound: session directories that are opened
  Matches,      \* the fixtures of forecast_targets_2026.csv
  Kickoff,      \* [Matches -> Int], kickoff in minutes
  GameLength,   \* minutes after which a fixture is reported FINISHED
  Duration,     \* --hours, in minutes
  MaxCredits,   \* --max-credits
  LaunchTimes,  \* bound: the minutes at which an instance is first launched
  Outage,       \* bound: minutes within which a killed one is launched again
  Horizon,      \* bound: the last minute of the run
  FaultKinds,   \* which of AllFaults can happen
  MaxFaults     \* bound: how many faults happen

AllFaults == {"kill",     \* the process ends; every file is whole
              "cut",      \* the process ends while it writes a file
              "slow",     \* a round takes a minute more (requests, backoff sleeps)
              "lost",     \* no response: the request raises
              "status",   \* a response other than 200
              "denied",   \* to_csv cannot open the CSV (it is open elsewhere)
              "overlap",  \* the scheduled collector writes the CSV meanwhile
              "twin"}     \* a second instance is launched beside a live one

ASSUME SupervisorBounds ==
  /\ MaxSessions \in Nat /\ GameLength \in Nat /\ Duration \in Nat
  /\ MaxCredits \in Nat /\ Outage \in Nat /\ Horizon \in Nat
  /\ MaxFaults \in Nat /\ FaultKinds \subseteq AllFaults
  /\ Kickoff \in [Matches -> Int]

Interval == 10       \* --odds-interval and --fd-interval, in minutes
Tick     == 1        \* --tick
Never    == -100000  \* the None of a timestamp: before any real minute

Sessions == 1..MaxSessions
Types    == {"baseline", "T-90", "T-15", "final_pre_kickoff"}

VARIABLES
  now,     \* the clock
  pc,      \* where each instance is
  mem,     \* each instance's self.state
  dir,     \* the session directory each instance works in; 0 for none
  wake,    \* when each instance's round starts; when it was killed, if "off"
  snap,    \* snapshot_utc of the odds each instance has just fetched
  merged,  \* the rows each instance holds before to_csv
  opened,  \* how many session directories exist
  dirs,    \* their state.json (file, saved) and transactions.log (tx)
  pred,    \* the prediction CSV: its state and its rows
  raw,     \* stamps of the raw snapshots written
  other,   \* the collector's freeze while it runs: the rows it will write
  billed,  \* credits the provider charged to each session
  faults,  \* how many faults of each kind happened
  left     \* how many more may happen

procVars == <<pc, mem, dir, wake, snap, merged>>
fileVars == <<opened, dirs, pred, raw>>
faultVars == <<faults, left>>
vars == <<now, procVars, fileVars, other, billed, faultVars>>

-----------------------------------------------------------------------------
(* Session state *)

FreshState(start) == [used |-> 0, odds |-> Never, fd |-> Never, elo |-> {},
                      done |-> [m \in Matches |-> {}], started |-> start]

NoDir == [file |-> "none", saved |-> FreshState(0), tx |-> [m \in Matches |-> 0]]

\* sorted(glob("session_*/state.json"))[-1]: directories are named by their start.
Candidates == {s \in Sessions : dirs[s].file # "none"}
Latest(s)  == s \in Candidates /\ \A r \in Candidates : r <= s

Deadline(i) == mem[i].started + Duration
Elapsed(t)  == now - t >= Interval

Live(i)  == pc[i] \notin {"off", "ended"}
Others(i) == {j \in Instances \ {i} : Live(j)}

Fault(kind) == /\ kind \in FaultKinds /\ left > 0
               /\ left' = left - 1
               /\ faults' = [faults EXCEPT ![kind] = @ + 1]

NoFault == UNCHANGED faultVars

-----------------------------------------------------------------------------
(* Launch: a fresh session, or the latest one that has a state.json *)

MayLaunch(i) ==
  /\ pc[i] = "off"
  /\ now \in LaunchTimes \/ now <= wake[i] + Outage
  /\ IF Others(i) = {} THEN NoFault ELSE Fault("twin")

Begin(i, s, state) == /\ pc' = [pc EXCEPT ![i] = "poll"]
                      /\ mem' = [mem EXCEPT ![i] = state]
                      /\ dir' = [dir EXCEPT ![i] = s]
                      /\ wake' = [wake EXCEPT ![i] = now]

LaunchFresh(i) ==
  /\ MayLaunch(i) /\ opened < MaxSessions
  /\ Begin(i, opened + 1, FreshState(now))
  /\ opened' = opened + 1
  /\ UNCHANGED <<now, snap, merged, dirs, pred, raw, other, billed>>

\* A state.json that does not parse raises: no resume until a fresh session.
LaunchResume(i) ==
  /\ MayLaunch(i)
  /\ \E s \in Sessions : /\ Latest(s) /\ dirs[s].file = "ok"
                         /\ Begin(i, s, dirs[s].saved)
  /\ UNCHANGED <<now, snap, merged, fileVars, other, billed>>

-----------------------------------------------------------------------------
(* The round: results, then odds, then the state file *)

At(i, label) == pc[i] = label
Goto(i, label) == pc' = [pc EXCEPT ![i] = label]

Finished == {m \in Matches : now >= Kickoff[m] + GameLength}

PollDue(i) == At(i, "poll") /\ wake[i] <= now /\ now < Deadline(i)

SkipPoll(i) ==
  /\ PollDue(i) /\ ~Elapsed(mem[i].fd)
  /\ Goto(i, "odds")
  /\ UNCHANGED <<now, mem, dir, wake, snap, merged, fileVars, other, billed,
                 faultVars>>

Recorded(tx, new) == [m \in Matches |-> IF m \in new THEN tx[m] + 1 ELSE tx[m]]

Updated(st) == [st EXCEPT !.fd = now, !.elo = @ \cup Finished]

PollResultsTwice(i) ==
  /\ PollDue(i) /\ Elapsed(mem[i].fd)
  /\ mem' = [mem EXCEPT ![i].fd = now]
  /\ dirs' = [dirs EXCEPT ![dir[i]].tx = Recorded(@, Finished)]
  /\ Goto(i, "odds")
  /\ UNCHANGED <<now, dir, wake, snap, merged, opened, pred, raw, other, billed,
                 faultVars>>

\* _after_game: each finished fixture this session has not updated yet is logged.
PollResults(i) ==
  /\ PollDue(i) /\ Elapsed(mem[i].fd)
  /\ mem' = [mem EXCEPT ![i] = Updated(@)]
  /\ dirs' = [dirs EXCEPT ![dir[i]].tx = Recorded(@, Finished \ mem[i].elo)]
  /\ Goto(i, "odds")
  /\ UNCHANGED <<now, dir, wake, snap, merged, opened, pred, raw, other, billed,
                 faultVars>>

\* The poll fails; only an answer, of any status, resets its interval.
PollFails(i) ==
  /\ PollDue(i) /\ Elapsed(mem[i].fd)
  /\ \/ Fault("status") /\ mem' = [mem EXCEPT ![i].fd = now]
     \/ Fault("lost") /\ UNCHANGED mem
  /\ Goto(i, "odds")
  /\ UNCHANGED <<now, dir, wake, snap, merged, fileVars, other, billed>>

Finalize(i) ==
  /\ At(i, "poll") /\ wake[i] <= now /\ now >= Deadline(i)
  /\ Goto(i, "ended")
  /\ UNCHANGED <<now, mem, dir, wake, snap, merged, fileVars, other, billed,
                 faultVars>>

\* _due_type: the windows are disjoint, so at most one type is due.
MinutesTo(m) == Kickoff[m] - now
InWindow(m, t, done) ==
  CASE t = "T-15"              -> MinutesTo(m) \in 10..20
    [] t = "T-90"              -> MinutesTo(m) \in 80..100
    [] t = "final_pre_kickoff" -> MinutesTo(m) \in 1..5 /\ "T-15" \in done
    [] t = "baseline"          -> MinutesTo(m) > 100 /\ done = {}

DueTypesNoMemory(m, done) == {t \in Types : InWindow(m, t, done)}
DueTypesOnce(m, done) == {t \in Types : InWindow(m, t, done) /\ done = {}}

DueTypes(m, done) == {t \in Types \ done : InWindow(m, t, done)}

AffordableByOne(i) == mem[i].used <= MaxCredits
Affordable(i) == mem[i].used < MaxCredits

CheckOdds(i) ==
  /\ At(i, "odds")
  /\ IF /\ \E m \in Matches : DueTypes(m, mem[i].done[m]) # {}
        /\ Elapsed(mem[i].odds) /\ Affordable(i)
       THEN Goto(i, "http") ELSE Goto(i, "save")
  /\ UNCHANGED <<now, mem, dir, wake, snap, merged, fileVars, other, billed,
                 faultVars>>

\* The request is recorded in memory once it has a response.
Spent(st) == [st EXCEPT !.used = @ + 1, !.odds = now]

Charge(i) == billed' = [billed EXCEPT ![dir[i]] = @ + 1]

\* One request covers all events; its cost is taken from the response.
Response(i) ==
  /\ At(i, "http") /\ Charge(i)
  /\ mem' = [mem EXCEPT ![i] = Spent(@)]
  /\ snap' = [snap EXCEPT ![i] = now]
  /\ raw' = raw \cup {now}
  /\ Goto(i, "freeze")
  /\ UNCHANGED <<now, dir, wake, merged, opened, dirs, pred, other, faultVars>>

Rejected(i) ==
  /\ At(i, "http") /\ Fault("status") /\ Charge(i)
  /\ mem' = [mem EXCEPT ![i] = Spent(@)]
  /\ Goto(i, "save")
  /\ UNCHANGED <<now, dir, wake, snap, merged, fileVars, other>>

\* requests.get raises: nothing is recorded, whether or not it was charged.
NoResponse(i) ==
  /\ At(i, "http") /\ Fault("lost")
  /\ Charge(i) \/ UNCHANGED billed
  /\ Goto(i, "save")
  /\ UNCHANGED <<now, mem, dir, wake, snap, merged, fileVars, other>>

-----------------------------------------------------------------------------
(* _freeze_due *)

Key(r) == [match |-> r.match, type |-> r.type, snap |-> r.snap]

NewRowsOnly(old, new) == new

\* concat([old, new]).drop_duplicates(subset=key, keep="first")
FirstWins(old, new) ==
  old \cup {r \in new : \A o \in old : Key(o) # Key(r)}

DueRows(i) ==
  {r \in [match : Matches, type : Types, snap : {snap[i]}, at : {now}] :
     r.type \in DueTypes(r.match, mem[i].done[r.match])}

\* What is due now, after the response, is marked as done before the CSV is read.
Marked(i) ==
  mem' = [mem EXCEPT ![i].done = [m \in Matches |-> @[m] \cup DueTypes(m, @[m])]]

Freeze(i) ==
  /\ At(i, "freeze") /\ Marked(i)
  /\ IF DueRows(i) # {} /\ pred.state # "empty"
       THEN /\ merged' = [merged EXCEPT ![i] = FirstWins(pred.rows, DueRows(i))]
            /\ Goto(i, "write")
       ELSE Goto(i, "save") /\ UNCHANGED merged
  /\ UNCHANGED <<now, dir, wake, snap, fileVars, other, billed, faultVars>>

WriteCsv(i) ==
  /\ At(i, "write")
  /\ pred' = [state |-> "ok", rows |-> merged[i]]
  /\ merged' = [merged EXCEPT ![i] = {}]
  /\ Goto(i, "save")
  /\ UNCHANGED <<now, mem, dir, wake, snap, opened, dirs, raw, other, billed,
                 faultVars>>

\* to_csv raises: the loop catches it, and the types stay marked.
WriteDenied(i) ==
  /\ At(i, "write") /\ Fault("denied")
  /\ merged' = [merged EXCEPT ![i] = {}]
  /\ Goto(i, "save")
  /\ UNCHANGED <<now, mem, dir, wake, snap, fileVars, other, billed>>

SaveState(i) ==
  /\ At(i, "save")
  /\ dirs' = [dirs EXCEPT ![dir[i]] = [@ EXCEPT !.file = "ok", !.saved = mem[i]]]
  /\ wake' = [wake EXCEPT ![i] = now + Tick]
  /\ snap' = [snap EXCEPT ![i] = Never]
  /\ Goto(i, "poll")
  /\ UNCHANGED <<now, mem, dir, merged, opened, pred, raw, other, billed,
                 faultVars>>

-----------------------------------------------------------------------------
(* The scheduled collector's freeze, which reads and rewrites the same CSV *)

CollectorRead ==
  /\ ~other.busy /\ pred.state = "ok" /\ Fault("overlap")
  /\ other' = [busy |-> TRUE, rows |-> pred.rows]
  /\ UNCHANGED <<now, procVars, fileVars, billed>>

CollectorWrite ==
  /\ other.busy
  /\ pred' = [state |-> "ok", rows |-> other.rows]
  /\ other' = [busy |-> FALSE, rows |-> {}]
  /\ UNCHANGED <<now, procVars, opened, dirs, raw, billed, faultVars>>

-----------------------------------------------------------------------------
(* The machine: kills and time *)

\* A process that ends takes its memory with it.
Dies(i) == /\ pc' = [pc EXCEPT ![i] = "off"]
           /\ mem' = [mem EXCEPT ![i] = FreshState(0)]
           /\ dir' = [dir EXCEPT ![i] = 0]
           /\ wake' = [wake EXCEPT ![i] = now]
           /\ snap' = [snap EXCEPT ![i] = Never]
           /\ merged' = [merged EXCEPT ![i] = {}]

Kill(i) ==
  /\ Live(i) /\ Fault("kill") /\ Dies(i)
  /\ UNCHANGED <<now, fileVars, other, billed>>

\* What to_csv can have left when it is cut: it truncates, then writes in order.
CutOff(rows) == {S \in SUBSET rows :
                   \A r \in S, q \in rows : q.at < r.at => q \in S}

Cut(i) ==
  /\ Fault("cut") /\ Dies(i)
  /\ \/ /\ At(i, "save")
        /\ dirs' = [dirs EXCEPT ![dir[i]].file = "torn"]
        /\ UNCHANGED pred
     \/ /\ At(i, "write")
        /\ \/ pred' = [state |-> "empty", rows |-> {}]
           \/ \E S \in CutOff(merged[i]) : pred' = [state |-> "ok", rows |-> S]
        /\ UNCHANGED dirs
  /\ UNCHANGED <<now, opened, raw, other, billed>>

\* Time passes while every instance sleeps or is down, or in a slow round.
Busy(i) == Live(i) /\ ~(At(i, "poll") /\ wake[i] > now)

Minute ==
  /\ now < Horizon
  /\ IF \E i \in Instances : Busy(i) THEN Fault("slow") ELSE NoFault
  /\ now' = now + 1
  /\ UNCHANGED <<procVars, fileVars, other, billed>>

-----------------------------------------------------------------------------
Init ==
  /\ now = 0
  /\ pc = [i \in Instances |-> "off"]
  /\ mem = [i \in Instances |-> FreshState(0)]
  /\ dir = [i \in Instances |-> 0]
  /\ wake = [i \in Instances |-> Never]
  /\ snap = [i \in Instances |-> Never]
  /\ merged = [i \in Instances |-> {}]
  /\ opened = 0 /\ dirs = [s \in Sessions |-> NoDir]
  /\ pred = [state |-> "absent", rows |-> {}] /\ raw = {}
  /\ other = [busy |-> FALSE, rows |-> {}]
  /\ billed = [s \in Sessions |-> 0]
  /\ faults = [k \in AllFaults |-> 0] /\ left = MaxFaults

Launch(i)  == LaunchFresh(i) \/ LaunchResume(i)
Results(i) == SkipPoll(i) \/ PollResults(i) \/ PollFails(i)
Odds(i)    == CheckOdds(i) \/ Response(i) \/ Rejected(i) \/ NoResponse(i)
Frozen(i)  == Freeze(i) \/ WriteCsv(i) \/ WriteDenied(i)

Next == \/ \E i \in Instances :
             \/ Launch(i) \/ Results(i) \/ Odds(i) \/ Frozen(i)
             \/ SaveState(i) \/ Finalize(i) \/ Kill(i) \/ Cut(i)
        \/ CollectorRead \/ CollectorWrite \/ Minute

Spec == Init /\ [][Next]_vars

-----------------------------------------------------------------------------
(* Properties *)

State == [used : Nat, odds : Int, fd : Int, elo : SUBSET Matches,
          done : [Matches -> SUBSET Types], started : Int]
Row == [match : Matches, type : Types, snap : Int, at : Int]
Labels == {"off", "poll", "odds", "http", "freeze", "write", "save", "ended"}

\* The types of the variables; an instance that runs works in an open directory.
TypeOK ==
  /\ now \in Nat /\ left \in 0..MaxFaults /\ faults \in [AllFaults -> Nat]
  /\ pc \in [Instances -> Labels] /\ mem \in [Instances -> State]
  /\ dir \in [Instances -> 0..MaxSessions]
  /\ wake \in [Instances -> Int] /\ snap \in [Instances -> Int]
  /\ merged \in [Instances -> SUBSET Row]
  /\ opened \in 0..MaxSessions
  /\ dirs \in [Sessions -> [file : {"none", "ok", "torn"}, saved : State,
                            tx : [Matches -> Nat]]]
  /\ pred \in [state : {"absent", "ok", "empty"}, rows : SUBSET Row]
  /\ raw \subseteq Int
  /\ other \in [busy : BOOLEAN, rows : SUBSET Row]
  /\ billed \in [Sessions -> Nat]
  /\ \A i \in Instances : Live(i) => dir[i] \in 1..opened

Restarts == faults["kill"] + faults["cut"]

\* "<=30 Odds API credits/session" (five_hour_supervisor.py:9) across kills and
\* resumes of the session: what is charged beyond the ceiling is at most one
\* credit for each lost response and for each kill before state.json is saved.
SessionCeiling ==
  faults["twin"] = 0 =>
    \A s \in Sessions : billed[s] <= MaxCredits + Restarts + faults["lost"]

\* "State file supports restart without duplicates" (line 11) and the warning
\* check_no_duplicate_type_per_match: a capture of a fixture is taken twice only if
\* a kill lost the round that took it, or an instance resumed beside a live one took
\* it too, as happened on 2026-06-21.
Captures(m, t) == {r \in pred.rows : r.match = m /\ r.type = t}
CapturedOnce ==
  opened = 1 => \A m \in Matches, t \in Types :
                  Cardinality(Captures(m, t)) <= 1 + Restarts + faults["twin"]

\* What state.json says was captured is on file: a resumed session skips it, so
\* it would be lost for good.  The exceptions are a CSV that could not be written
\* or was cut, and another writer of it.
DoneIsOnFile ==
  (\A k \in {"denied", "cut", "overlap", "twin"} : faults[k] = 0)
    => \A s \in Sessions, m \in Matches :
         \A t \in dirs[s].saved.done[m] : Captures(m, t) # {}

\* A session that runs from before a T-15 or T-90 window opens until after it closes
\* captures it, even when a request for another fixture started the ten-minute floor
\* just before, as long as nothing fails and no round is slow.  The 11 minutes of a
\* T-15 window leave such a request one minute: each slow minute more can cost it.
Fires(m, t, opens, closes) ==
  closes + faults["slow"] < now /\ dirs[1].file = "ok"
  /\ dirs[1].saved.started <= opens /\ closes < dirs[1].saved.started + Duration
    => \/ Captures(m, t) # {}
       \/ Cardinality({f \in raw : f <= closes}) = MaxCredits
       \/ \E f \in raw : opens - faults["slow"] < f /\ f < opens
OnlySlow == left + faults["slow"] = MaxFaults
WindowsFire ==
  OnlySlow /\ opened = 1 => \A m \in Matches :
    /\ Fires(m, "T-15", Kickoff[m] - 20, Kickoff[m] - 10)
    /\ Fires(m, "T-90", Kickoff[m] - 100, Kickoff[m] - 80)

\* "idempotent: never update Elo twice" (line 227): the log of a session holds a
\* result at most once, plus once for each kill before state.json is saved, and
\* holds every result reported a poll before the deadline unless a poll failed.
ResultsRecorded ==
  /\ faults["twin"] = 0 =>
       \A s \in Sessions, m \in Matches : dirs[s].tx[m] <= 1 + Restarts
  /\ OnlySlow => \A i \in Instances, m \in Matches :
       /\ pc[i] = "ended"
       /\ Kickoff[m] + GameLength + Interval + Tick + faults["slow"] < Deadline(i)
       => dirs[dir[i]].tx[m] = 1
=============================================================================
