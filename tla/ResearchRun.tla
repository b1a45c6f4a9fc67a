------------------------------ MODULE ResearchRun ------------------------------
(***************************************************************************)
(* A durable research run: the supervisor (deep_research_supervisor.py)    *)
(* works through a finite queue of jobs and checkpoints state.json; Task   *)
(* Scheduler starts it once and restarts it after a crash; a watchdog      *)
(* (international_event_lake_watchdog.py) reads its files every period and *)
(* restarts a run it takes for crashed.                                    *)
(*                                                                         *)
(* Time is counted in the watchdog's periods (10 minutes).  A job is its   *)
(* outcome: a status and the API requests it spent.  The deadline and a    *)
(* stale collector heartbeat are a fault that a preflight may meet; of the *)
(* four reasons a queue may stop for early, "stopped" stands for any.      *)
(***************************************************************************)
EXTENDS Integers

CONSTANTS
  N,           \* the number of jobs of the queue, in order
  Critical,    \* the critical ones
  MaxApi,      \* max_api_requests
  FaultKinds,  \* a subset of Faults
  MaxFaults    \* bound: how many faults happen

Faults == {"kill", "timeout", "silent", "refused", "moved", "tainted"}

Jobs == 1..N

ASSUME QueueAssumption ==
  /\ N \in Nat \ {0} /\ Critical \subseteq Jobs
  /\ MaxApi \in Nat /\ MaxFaults \in Nat
  /\ FaultKinds \subseteq Faults

\* What a job script may print as its status, and what state.json may hold;
\* waiting_for_official_source is to the queue what data_insufficient is.
Outcomes == {"complete", "skipped", "failed", "blocked", "data_insufficient"}
Status   == Outcomes \cup {"none", "running"}

\* Heartbeat ages in periods; more than 900 s is certain from the second period on.
Never   == -1
Ancient == 2
Stops   == {"none", "queue_complete", "stopped"}

VARIABLES
  disk,      \* state.json: the status of each job and api_requests_used
  beat,      \* heartbeat.json: its age, Never if there is none
  summary,   \* run_summary.json: its stop_reason
  mem,       \* the supervisor's copy of the state
  pc,        \* its step; "off" when the task is not running
  job,       \* the job it is at
  stop,      \* its stop reason
  task,      \* Task Scheduler: "Waiting" for the trigger, "Ready", "Running", "Disabled"
  crashed,   \* its last instance died
  watch,     \* the watchdog's step
  seen,      \* what it has read of the run
  looked,    \* it has run in this period
  verdict,   \* what it has taken the run for in this period
  moved,     \* the collector's commit has changed
  tainted,   \* an integrity violation is there to be found
  billed,    \* the API requests really spent
  faults

supVars   == <<mem, pc, job, stop>>
watchVars == <<watch, seen, looked, verdict>>
worldVars == <<moved, tainted>>
vars == <<disk, beat, summary, supVars, task, crashed, watchVars, worldVars, billed, faults>>

Fault(kind) == kind \in FaultKinds /\ faults < MaxFaults /\ faults' = faults + 1

-----------------------------------------------------------------------------
(* The supervisor *)

SkipsFailed(status)  == status \in {"complete", "failed"}
SkipsStarted(status) == status \in {"complete", "running"}

\* Idempotent restart: a complete job is not run again.
Skips(status) == status = "complete"

FreshRun == [jobs |-> [j \in Jobs |-> "none"], api |-> 0]

\* The supervisor's process is gone, and what it had in memory.
Off == pc' = "off" /\ mem' = FreshRun /\ job' = 1 /\ stop' = "none"

\* A launched supervisor loads the checkpoint and starts at the head of the queue.
Launch ==
  /\ task' = "Running" /\ crashed' = FALSE
  /\ mem' = disk /\ job' = 1 /\ stop' = "none" /\ pc' = "next"

Skip ==
  /\ pc = "next" /\ job \in Jobs /\ Skips(mem.jobs[job])
  /\ job' = job + 1
  /\ UNCHANGED <<disk, beat, summary, mem, pc, stop, task, crashed, watchVars, worldVars,
                 billed, faults>>

BlocksEverything(jobs, S) == [j \in Jobs |-> IF j \in S THEN "blocked" ELSE jobs[j]]

\* _block_remaining: what is neither complete nor skipped is blocked.
Blocks(jobs, S) ==
  [j \in Jobs |-> IF j \in S /\ jobs[j] \notin {"complete", "skipped"}
                    THEN "blocked" ELSE jobs[j]]

Halt(S) ==
  /\ mem' = [mem EXCEPT !.jobs = Blocks(@, S)]
  /\ disk' = mem'
  /\ stop' = "stopped" /\ pc' = "summary"

BudgetOfWhole(s) == MaxApi

BudgetOf(s)  == MaxApi - s.api
Exhausted(s) == s.api >= MaxApi

\* The preflight before each job: the deadline, the collector's health, the budget.
Refuse ==
  /\ pc = "next" /\ job \in Jobs /\ ~Skips(mem.jobs[job])
  /\ Fault("refused") \/ (Exhausted(mem) /\ UNCHANGED faults)
  /\ Halt(job..N)
  /\ UNCHANGED <<beat, summary, job, task, crashed, watchVars, worldVars, billed>>

StartJob ==
  /\ pc = "next" /\ job \in Jobs /\ ~Skips(mem.jobs[job]) /\ ~Exhausted(mem)
  /\ mem' = [mem EXCEPT !.jobs[job] = "running"]
  /\ disk' = mem'
  /\ pc' = "beat"
  /\ UNCHANGED <<beat, summary, job, stop, task, crashed, watchVars, worldVars, billed, faults>>

Beat ==
  /\ pc = "beat"
  /\ beat' = 0 /\ pc' = "job"
  /\ UNCHANGED <<disk, summary, mem, job, stop, task, crashed, watchVars, worldVars,
                 billed, faults>>

\* A job that reports keeps within the budget the supervisor hands it.
JobEnds(status, n) ==
  /\ pc = "job" /\ n <= BudgetOf(mem)
  /\ mem' = [mem EXCEPT !.jobs[job] = status, !.api = @ + n]
  /\ billed' = billed + n
  /\ pc' = "record"
  /\ UNCHANGED <<disk, beat, summary, job, stop, task, crashed, watchVars, worldVars, faults>>

\* A job that times out, or prints no result, is recorded with no requests.
JobUnreported(status, n) ==
  /\ pc = "job" /\ n <= BudgetOf(mem)
  /\ \/ Fault("timeout") /\ status = "failed"
     \/ Fault("silent") /\ status \in {"complete", "failed"}
  /\ mem' = [mem EXCEPT !.jobs[job] = status]
  /\ billed' = billed + n
  /\ pc' = "record"
  /\ UNCHANGED <<disk, beat, summary, job, stop, task, crashed, watchVars, worldVars>>

Record ==
  /\ pc = "record"
  /\ disk' = mem /\ beat' = 0 /\ pc' = "judge"
  /\ UNCHANGED <<summary, mem, job, stop, task, crashed, watchVars, worldVars, billed, faults>>

StopsQueue(status) == status = "failed" /\ job \in Critical

Judge ==
  /\ pc = "judge"
  /\ IF StopsQueue(mem.jobs[job])
       THEN Halt((job + 1)..N) /\ UNCHANGED job
       ELSE pc' = "next" /\ job' = job + 1 /\ UNCHANGED <<disk, mem, stop>>
  /\ UNCHANGED <<beat, summary, task, crashed, watchVars, worldVars, billed, faults>>

\* stop_reason or "queue_complete".
StopReason == IF stop = "none" THEN "queue_complete" ELSE stop

WriteSummary ==
  /\ pc = "summary" \/ (pc = "next" /\ job \notin Jobs)
  /\ summary' = StopReason
  /\ Off /\ task' = "Ready"
  /\ UNCHANGED <<disk, beat, crashed, watchVars, worldVars, billed, faults>>

-----------------------------------------------------------------------------
(* Task Scheduler *)

\* The one-time trigger; StartWhenAvailable.
Trigger ==
  /\ task = "Waiting" /\ Launch
  /\ UNCHANGED <<disk, beat, summary, watchVars, worldVars, billed, faults>>

\* RestartCount: a task whose instance died may be started again.
RestartOnFailure ==
  /\ task = "Ready" /\ crashed /\ Launch
  /\ UNCHANGED <<disk, beat, summary, watchVars, worldVars, billed, faults>>

\* The requests of a job under way are spent all the same.
Dies(n) ==
  /\ n <= (IF pc = "job" THEN BudgetOf(mem) ELSE 0)
  /\ billed' = billed + n
  /\ Off

Kill(n) ==
  /\ Fault("kill")
  /\ pc # "off" /\ Dies(n) /\ task' = "Ready" /\ crashed' = TRUE
  /\ UNCHANGED <<disk, beat, summary, watchVars, worldVars>>

-----------------------------------------------------------------------------
(* The watchdog *)

TerminalAnyEnded(jobs, reason) ==
  reason = "queue_complete" \/ \E j \in Jobs : jobs[j] \in {"complete", "skipped", "blocked"}

\* _run_terminal: what state.json lists has ended, however much of the queue that is.
Terminal(jobs, reason) ==
  \/ reason = "queue_complete"
  \/ /\ \E j \in Jobs : jobs[j] # "none"
     /\ \A j \in Jobs : jobs[j] \in {"none", "complete", "skipped", "blocked"}

SomethingRunning(jobs) == \E j \in Jobs : jobs[j] = "running"

RunUnread == [terminal |-> FALSE, running |-> FALSE, age |-> Never, task |-> "Waiting"]

WatchFiles ==
  /\ watch = "idle" /\ ~looked
  /\ seen' = [seen EXCEPT !.terminal = Terminal(disk.jobs, summary),
                          !.running = SomethingRunning(disk.jobs), !.age = beat]
  /\ looked' = TRUE /\ watch' = "task"
  /\ UNCHANGED <<disk, beat, summary, supVars, task, crashed, verdict, worldVars, billed, faults>>

WatchTask ==
  /\ watch = "task"
  /\ seen' = [seen EXCEPT !.task = task]
  /\ watch' = "act"
  /\ UNCHANGED <<disk, beat, summary, supVars, task, crashed, looked, verdict, worldVars,
                 billed, faults>>

MayBeOld(age)   == age >= 1
MayBeYoung(age) == age <= 1

LooksCrashed(s) == s.task # "Running" /\ MayBeOld(s.age) /\ s.running
LooksAlive(s)   == \/ s.task = "Running" \/ MayBeYoung(s.age) \/ ~s.running

EndWatch(v) == watch' = "idle" /\ verdict' = v /\ seen' = RunUnread /\ UNCHANGED looked

\* A violation stops the run and disables its task.
WatchStops(n) ==
  /\ watch = "act" /\ tainted
  /\ Dies(n) /\ task' = "Disabled" /\ EndWatch("FAILED_INTEGRITY")
  /\ UNCHANGED <<disk, beat, summary, crashed, worldVars, faults>>

\* A run that looks crashed is started again; IgnoreNew if it is running by now.
WatchRestarts ==
  /\ watch = "act" /\ ~tainted /\ ~moved /\ ~seen.terminal /\ LooksCrashed(seen)
  /\ IF task = "Ready" THEN Launch ELSE UNCHANGED <<supVars, task, crashed>>
  /\ EndWatch("RUNNING")
  /\ UNCHANGED <<disk, beat, summary, worldVars, billed, faults>>

WatchObserves ==
  /\ watch = "act" /\ ~tainted
  /\ \/ moved /\ EndWatch("WATCH")
     \/ ~moved /\ seen.terminal /\ EndWatch("COMPLETE")
     \/ ~moved /\ ~seen.terminal /\ LooksAlive(seen) /\ EndWatch("RUNNING")
  /\ UNCHANGED <<disk, beat, summary, supVars, task, crashed, worldVars, billed, faults>>

AtMost(bound, n) == IF n < bound THEN n ELSE bound

\* A period ends.
Tick ==
  /\ looked /\ watch = "idle"
  /\ looked' = FALSE /\ verdict' = "none"
  /\ beat' = IF beat = Never THEN Never ELSE AtMost(Ancient, beat + 1)
  /\ UNCHANGED <<disk, summary, supVars, task, crashed, watch, seen, worldVars, billed,
                 faults>>

\* The collector's checkout advances, or somebody breaks the isolation rules.
World ==
  /\ \/ ~moved /\ Fault("moved") /\ moved' = TRUE /\ UNCHANGED tainted
     \/ ~tainted /\ Fault("tainted") /\ tainted' = TRUE /\ UNCHANGED moved
  /\ UNCHANGED <<disk, beat, summary, supVars, task, crashed, watchVars, billed>>

-----------------------------------------------------------------------------
Init ==
  /\ disk = FreshRun /\ beat = Never /\ summary = "none"
  /\ pc = "off" /\ mem = FreshRun /\ job = 1 /\ stop = "none"
  /\ task = "Waiting" /\ crashed = FALSE
  /\ watch = "idle" /\ seen = RunUnread /\ looked = FALSE /\ verdict = "none"
  /\ moved = FALSE /\ tainted = FALSE /\ billed = 0 /\ faults = 0

Requests == 0..MaxApi

Supervise ==
  \/ Skip \/ StartJob \/ Beat \/ Record \/ Judge \/ WriteSummary \/ Refuse
  \/ \E status \in Outcomes, n \in Requests : JobEnds(status, n) \/ JobUnreported(status, n)

Watch == \/ WatchFiles \/ WatchTask \/ WatchRestarts \/ WatchObserves
         \/ \E n \in Requests : WatchStops(n)

Next == \/ Supervise \/ Watch \/ Trigger \/ RestartOnFailure \/ Tick \/ World
        \/ \E n \in Requests : Kill(n)

Spec == Init /\ [][Next]_vars

\* Both processes run, the trigger fires and time passes.  Faults and the
\* scheduler's own restarts are not fair.
Fairness == WF_vars(Supervise) /\ WF_vars(Watch) /\ WF_vars(Trigger) /\ WF_vars(Tick)

FairSpec == Spec /\ Fairness

-----------------------------------------------------------------------------
(* Properties *)

RunState == [jobs : [Jobs -> Status], api : 0..MaxApi]

\* The types of the variables; what is recorded never exceeds the request budget.
TypeOK ==
  /\ disk \in RunState /\ mem \in RunState
  /\ beat \in Never..Ancient /\ summary \in Stops /\ stop \in Stops
  /\ pc \in {"off", "next", "beat", "job", "record", "judge", "summary"}
  /\ job \in 1..N + 1
  /\ task \in {"Waiting", "Ready", "Running", "Disabled"}
  /\ crashed \in BOOLEAN /\ looked \in BOOLEAN /\ moved \in BOOLEAN /\ tainted \in BOOLEAN
  /\ watch \in {"idle", "task", "act"}
  /\ seen \in [terminal : BOOLEAN, running : BOOLEAN, age : Never..Ancient,
               task : {"Waiting", "Ready", "Running", "Disabled"}]
  /\ verdict \in {"none", "FAILED_INTEGRITY", "WATCH", "COMPLETE", "RUNNING"}
  /\ billed \in Nat /\ faults \in 0..MaxFaults

\* "Idempotent restart" (deep_research_supervisor.py:92): what state.json once calls
\* complete is never run, blocked or failed again, whoever restarts the run when.
CompletedStays ==
  [][\A j \in Jobs : disk.jobs[j] = "complete" => disk'.jobs[j] = "complete"]_vars

\* The queue stops at a failed critical job (deep_research_supervisor.py:111): while a
\* job is under way no critical job before it stands failed, in resumed runs as well.
CriticalGate ==
  pc \in {"beat", "job", "record"} =>
    \A i \in Critical : i < job => mem.jobs[i] # "failed"

\* The API budget (deep_research_supervisor.py:100): each kill, time-out or job
\* without a result costs at most one more budget than the checkpoint knows of.
BudgetDamage == billed <= MaxApi * (1 + faults)

\* A queue_complete summary is written only when every job of the queue has ended
\* (deep_research_supervisor.py:182), though each session starts from a partial state.
SummaryCoversQueue ==
  [][WriteSummary /\ summary' = "queue_complete" =>
       \A j \in Jobs : disk.jobs[j] \in Outcomes]_vars

\* A run that died inside a job is started again (international_event_lake_watchdog.py:221),
\* unless the watchdog is told to keep out of it or an earlier session had finished.
DiedInJob == task = "Ready" /\ SomethingRunning(disk.jobs) /\ beat # Never
             /\ summary # "queue_complete"
CrashResumed == DiedInJob ~> (task = "Running" \/ moved \/ tainted)
=============================================================================
