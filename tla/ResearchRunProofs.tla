--------------------------- MODULE ResearchRunProofs ---------------------------
(***************************************************************************)
(* Proofs about the research runs, for every queue, every request budget   *)
(* and every number of faults, restarts and watchdog interventions.        *)
(***************************************************************************)
EXTENDS ResearchRun, TLAPS

\* A session exists exactly while the task is running.
OneSession == pc # "off" <=> task = "Running"

\* In a session the checkpoint is what the supervisor holds; only between the end of
\* a job and its record do they differ, in that job alone, which is running on disk.
Checkpointed ==
  /\ pc \in {"next", "beat", "job", "judge", "summary"} => mem = disk
  /\ pc \in {"beat", "job", "record", "judge"} => job \in Jobs
  /\ pc \in {"beat", "job", "record"} => disk.jobs[job] = "running"
  /\ pc = "record" => \A j \in Jobs \ {job} : mem.jobs[j] = disk.jobs[j]

\* The jobs behind the one the session is at have passed the queue's gate.
Passed ==
  pc \in {"next", "beat", "job", "record", "judge"} =>
    \A i \in Critical : i < job => mem.jobs[i] # "failed"

\* The requests the run will remember, and one budget for each fault; the stop of a
\* tainted run is still to come as long as its task is not disabled.
Remembered == IF pc = "off" THEN disk.api ELSE mem.api
Charged    == IF tainted /\ task # "Disabled" THEN faults - 1 ELSE faults
Accounted  == /\ billed <= Remembered + MaxApi * Charged
              /\ tainted => faults > 0

RunInv == TypeOK /\ OneSession /\ Checkpointed /\ Passed /\ Accounted

-----------------------------------------------------------------------------
LEMMA Multiples ==
  ASSUME NEW f \in Nat
  PROVE  /\ MaxApi * f \in Nat
         /\ MaxApi * (f + 1) = MaxApi * f + MaxApi
         /\ f > 0 => MaxApi * (f - 1) = MaxApi * f - MaxApi
BY QueueAssumption

LEMMA FreshRunType == FreshRun \in RunState
BY QueueAssumption DEF FreshRun, RunState, Status

LEMMA BlocksProperties ==
  ASSUME NEW jobs \in [Jobs -> Status], NEW S
  PROVE  /\ Blocks(jobs, S) \in [Jobs -> Status]
         /\ \A j \in Jobs : jobs[j] = "complete" => Blocks(jobs, S)[j] = "complete"
BY DEF Blocks, Status, Outcomes

LEMMA RunInit == Init => RunInv
<1> SUFFICES ASSUME Init PROVE RunInv
  OBVIOUS
<1> USE QueueAssumption DEF Init
<1>1. TypeOK
  <2>1. RunUnread \in [terminal : BOOLEAN, running : BOOLEAN, age : Never..Ancient,
                       task : {"Waiting", "Ready", "Running", "Disabled"}]
    BY DEF RunUnread, Never, Ancient
  <2>2. disk \in RunState /\ mem \in RunState
    BY FreshRunType
  <2>3. job \in 1..N + 1 /\ billed \in Nat /\ faults \in 0..MaxFaults
    OBVIOUS
  <2>4. beat \in Never..Ancient /\ summary \in Stops /\ stop \in Stops
    BY DEF Never, Ancient, Stops
  <2> QED BY <2>1, <2>2, <2>3, <2>4 DEF TypeOK
<1>2. Accounted
  BY Multiples DEF Accounted, Remembered, Charged, FreshRun
<1> QED BY <1>1, <1>2 DEF RunInv, OneSession, Checkpointed, Passed

\* Halting a session blocks jobs and checkpoints them.
LEMMA HaltKeeps ==
  ASSUME RunInv, pc \in {"next", "judge"}, NEW S, Halt(S)
  PROVE  /\ mem' \in RunState /\ disk' = mem' /\ mem'.api = mem.api
         /\ stop' \in Stops /\ pc' = "summary"
         /\ \A j \in Jobs : disk.jobs[j] = "complete" => disk'.jobs[j] = "complete"
<1>1. mem = disk /\ mem.jobs \in [Jobs -> Status]
  BY DEF RunInv, Checkpointed, TypeOK, RunState
<1> QED BY <1>1, BlocksProperties DEF Halt, Stops, RunInv, TypeOK, RunState

\* The process of a session is gone: what it had not recorded is forgotten.
LEMMA DiesKeeps ==
  ASSUME RunInv, NEW n \in Requests, Dies(n)
  PROVE  /\ mem' \in RunState /\ job' \in 1..N + 1 /\ stop' = "none" /\ pc' = "off"
         /\ billed' \in Nat
         /\ billed' <= disk.api + MaxApi + MaxApi * Charged
<1> USE QueueAssumption
<1>1. TypeOK /\ Accounted /\ Checkpointed
  BY DEF RunInv
<1>2. billed \in Nat /\ n \in Nat /\ disk.api \in 0..MaxApi /\ mem.api \in 0..MaxApi
  BY <1>1 DEF TypeOK, RunState, Requests
<1>3. mem' \in RunState /\ job' \in 1..N + 1 /\ stop' = "none" /\ pc' = "off"
  BY FreshRunType DEF Dies, Off
<1>4. billed' = billed + n /\ n <= (IF pc = "job" THEN MaxApi - mem.api ELSE 0)
  BY DEF Dies, BudgetOf
<1>5. billed <= Remembered + MaxApi * Charged
  BY <1>1 DEF Accounted
<1>6. Charged \in Int /\ MaxApi * Charged \in Int
  BY <1>1 DEF TypeOK, Charged
<1>7. Remembered + n <= disk.api + MaxApi
  <2>1. CASE pc = "job"
    BY <1>1, <1>2, <1>4, <2>1 DEF Remembered, Checkpointed
  <2>2. CASE pc # "job"
    BY <1>2, <1>4, <2>2 DEF Remembered
  <2> QED BY <2>1, <2>2
<1>8. Remembered \in Int
  BY <1>2 DEF Remembered
<1> QED BY <1>2, <1>3, <1>4, <1>5, <1>6, <1>7, <1>8

LEMMA LaunchKeeps ==
  ASSUME RunInv, pc = "off", Launch, task # "Disabled",
         UNCHANGED <<disk, beat, summary, worldVars, billed, faults>>
  PROVE  /\ mem' \in RunState /\ job' \in 1..N + 1 /\ stop' \in Stops
         /\ pc' = "next" /\ task' = "Running" /\ crashed' = FALSE
         /\ OneSession' /\ Checkpointed' /\ Passed' /\ Accounted'
<1> USE QueueAssumption DEF RunInv, TypeOK, Launch
<1>1. mem' \in RunState /\ job' \in 1..N + 1 /\ stop' \in Stops
  BY DEF Stops
<1>2. Passed'
  BY DEF Passed, Jobs
<1>3. Accounted'
  BY DEF Accounted, Remembered, Charged, worldVars
<1> QED BY <1>1, <1>2, <1>3 DEF OneSession, Checkpointed

-----------------------------------------------------------------------------
(* The inductive step, action by action. *)

LEMMA SkipKeeps == ASSUME RunInv, Skip PROVE RunInv'
<1> USE QueueAssumption DEF RunInv, Skip
<1>1. TypeOK'
  BY DEF TypeOK, Jobs, watchVars, worldVars
<1>2. Passed'
  BY DEF Passed, TypeOK, Skips, Jobs
<1>3. OneSession' /\ Checkpointed'
  BY DEF OneSession, Checkpointed
<1>4. Accounted'
  BY DEF Accounted, Remembered, Charged, worldVars
<1> QED BY <1>1, <1>2, <1>3, <1>4

LEMMA RefuseKeeps == ASSUME RunInv, Refuse PROVE RunInv'
<1> USE QueueAssumption DEF RunInv
<1>1. Halt(job..N)
  BY DEF Refuse
<1>2. faults' \in 0..MaxFaults /\ (faults' = faults \/ faults' = faults + 1)
  BY DEF Refuse, Fault, TypeOK
<1>3. /\ mem' \in RunState /\ disk' = mem' /\ mem'.api = mem.api
      /\ stop' \in Stops /\ pc' = "summary" /\ pc = "next"
  BY <1>1, HaltKeeps DEF Refuse
<1>4. TypeOK'
  BY <1>2, <1>3 DEF TypeOK, Refuse, watchVars, worldVars
<1>5. OneSession' /\ Checkpointed' /\ Passed'
  BY <1>3 DEF OneSession, Checkpointed, Passed, Refuse
<1>6. Accounted'
  <2>1. Charged \in Nat /\ (Charged' = Charged \/ Charged' = Charged + 1)
    <3>1. UNCHANGED <<tainted, task>> /\ faults \in Nat /\ (tainted => faults > 0)
      BY DEF Refuse, worldVars, Accounted, TypeOK
    <3>2. CASE tainted /\ task # "Disabled"
      <4>1. Charged = faults - 1 /\ Charged' = faults' - 1
        BY <3>1, <3>2 DEF Charged
      <4>2. faults \in Nat /\ faults > 0
        BY <3>1, <3>2
      <4>3. CASE faults' = faults
        BY <4>1, <4>2, <4>3
      <4>4. CASE faults' = faults + 1
        BY <4>1, <4>2, <4>4
      <4> QED BY <1>2, <4>3, <4>4
    <3>3. CASE ~(tainted /\ task # "Disabled")
      <4>1. Charged = faults /\ Charged' = faults'
        BY <3>1, <3>3 DEF Charged
      <4> QED BY <1>2, <3>1, <4>1
    <3> QED BY <3>2, <3>3
  <2>2. MaxApi * Charged \in Nat /\ MaxApi * Charged' >= MaxApi * Charged
    BY <2>1, Multiples
  <2>3. Remembered' = Remembered /\ billed' = billed /\ Remembered \in Nat /\ billed \in Nat
    BY <1>3 DEF Remembered, Refuse, TypeOK, RunState
  <2>4. tainted' => faults' > 0
    BY <1>2 DEF Accounted, Refuse, worldVars, TypeOK
  <2>5. MaxApi * Charged' \in Nat
    BY <2>1, Multiples
  <2> QED BY <2>2, <2>3, <2>4, <2>5 DEF Accounted
<1> QED BY <1>4, <1>5, <1>6

LEMMA StartKeeps == ASSUME RunInv, StartJob PROVE RunInv'
<1> USE QueueAssumption DEF RunInv, StartJob
<1>1. mem' \in RunState /\ mem'.api = mem.api
  BY DEF TypeOK, RunState, Status
<1>2. TypeOK'
  BY <1>1 DEF TypeOK, watchVars, worldVars
<1>3. \A j \in Jobs : mem'.jobs[j] = IF j = job THEN "running" ELSE mem.jobs[j]
  BY DEF TypeOK, RunState
<1>4. Passed' /\ Checkpointed'
  BY <1>3 DEF Passed, Checkpointed
<1>5. OneSession'
  BY DEF OneSession
<1>6. Accounted'
  BY <1>1 DEF Accounted, Remembered, Charged, worldVars
<1> QED BY <1>2, <1>4, <1>5, <1>6

LEMMA BeatKeeps == ASSUME RunInv, Beat PROVE RunInv'
<1> USE DEF RunInv, Beat
<1>1. TypeOK'
  BY DEF TypeOK, watchVars, worldVars, Never, Ancient
<1>2. OneSession' /\ Checkpointed' /\ Passed'
  BY DEF OneSession, Checkpointed, Passed
<1>3. Accounted'
  BY DEF Accounted, Remembered, Charged, worldVars
<1> QED BY <1>1, <1>2, <1>3

LEMMA JobEndsKeeps ==
  ASSUME RunInv, NEW status \in Outcomes, NEW n \in Requests, JobEnds(status, n)
  PROVE  RunInv'
<1> USE QueueAssumption DEF RunInv, JobEnds, Requests
<1>1. /\ mem \in RunState /\ mem.api \in 0..MaxApi /\ n <= MaxApi - mem.api /\ job \in Jobs
      /\ billed \in Nat
  BY DEF TypeOK, RunState, BudgetOf, Checkpointed
<1>2. mem' \in RunState /\ mem'.api = mem.api + n
  <2>1. mem.api + n \in 0..MaxApi
    BY <1>1
  <2> QED BY <1>1, <2>1 DEF RunState, Status
<1>3. TypeOK'
  BY <1>1, <1>2 DEF TypeOK, watchVars, worldVars
<1>4. \A j \in Jobs \ {job} : mem'.jobs[j] = mem.jobs[j]
  BY <1>1 DEF RunState
<1>5. Passed' /\ Checkpointed'
  BY <1>1, <1>4 DEF Passed, Checkpointed, Jobs
<1>6. OneSession'
  BY DEF OneSession
<1>7. Accounted'
  <2>1. Remembered = mem.api /\ Remembered' = mem.api + n
    BY <1>2 DEF Remembered
  <2>2. Charged' = Charged /\ Charged \in Nat
    BY DEF Charged, worldVars, Accounted, TypeOK
  <2>3. MaxApi * Charged \in Nat
    BY <2>2, Multiples
  <2>4. billed' <= Remembered' + MaxApi * Charged'
    BY <1>1, <2>1, <2>2, <2>3 DEF Accounted
  <2> QED BY <2>4 DEF Accounted, worldVars
<1> QED BY <1>3, <1>5, <1>6, <1>7

LEMMA UnreportedKeeps ==
  ASSUME RunInv, NEW status \in Outcomes, NEW n \in Requests, JobUnreported(status, n)
  PROVE  RunInv'
<1> USE QueueAssumption DEF RunInv, JobUnreported, Requests
<1>1. /\ mem \in RunState /\ mem.api \in 0..MaxApi /\ n <= MaxApi /\ job \in Jobs
      /\ billed \in Nat /\ n \in Nat
  BY DEF TypeOK, RunState, Checkpointed
<1>2. mem' \in RunState /\ mem'.api = mem.api
  BY <1>1 DEF RunState, Status
<1>3. faults' = faults + 1 /\ faults' \in 0..MaxFaults /\ faults \in Nat
  BY DEF Fault, TypeOK
<1>4. TypeOK'
  BY <1>1, <1>2, <1>3 DEF TypeOK, watchVars, worldVars
<1>5. \A j \in Jobs \ {job} : mem'.jobs[j] = mem.jobs[j]
  BY <1>1 DEF RunState
<1>6. Passed' /\ Checkpointed'
  BY <1>1, <1>5 DEF Passed, Checkpointed, Jobs
<1>7. OneSession'
  BY DEF OneSession
<1>8. Accounted'
  <2>1. Remembered = mem.api /\ Remembered' = mem.api
    BY <1>2 DEF Remembered
  <2>2. Charged \in Nat /\ Charged' = Charged + 1
    BY <1>3 DEF Charged, worldVars, Accounted, TypeOK
  <2>3. MaxApi * Charged \in Nat /\ MaxApi * Charged' = MaxApi * Charged + MaxApi
    BY <2>2, Multiples
  <2>4. billed' <= Remembered' + MaxApi * Charged'
    BY <1>1, <2>1, <2>3 DEF Accounted
  <2> QED BY <1>3, <2>4 DEF Accounted, worldVars
<1> QED BY <1>4, <1>6, <1>7, <1>8

LEMMA RecordKeeps == ASSUME RunInv, Record PROVE RunInv'
<1> USE DEF RunInv, Record
<1>1. TypeOK'
  BY DEF TypeOK, watchVars, worldVars, Never, Ancient
<1>2. OneSession' /\ Checkpointed' /\ Passed'
  BY DEF OneSession, Checkpointed, Passed
<1>3. Accounted'
  BY DEF Accounted, Remembered, Charged, worldVars
<1> QED BY <1>1, <1>2, <1>3

LEMMA JudgeKeeps == ASSUME RunInv, Judge PROVE RunInv'
<1> USE QueueAssumption DEF RunInv
<1>1. CASE StopsQueue(mem.jobs[job])
  <2>1. /\ mem' \in RunState /\ disk' = mem' /\ mem'.api = mem.api
        /\ stop' \in Stops /\ pc' = "summary" /\ pc = "judge" /\ job' = job
    BY <1>1, HaltKeeps DEF Judge, Stops
  <2>2. TypeOK'
    BY <2>1 DEF TypeOK, Judge, watchVars, worldVars
  <2>3. OneSession' /\ Checkpointed' /\ Passed'
    BY <2>1 DEF OneSession, Checkpointed, Passed, Judge
  <2>4. Accounted'
    BY <2>1 DEF Accounted, Remembered, Charged, worldVars, Judge
  <2> QED BY <2>2, <2>3, <2>4
<1>2. CASE ~StopsQueue(mem.jobs[job])
  <2> USE <1>2 DEF Judge
  <2>1. job \in Jobs /\ job' = job + 1 /\ pc = "judge"
    BY DEF Checkpointed
  <2>2. TypeOK'
    BY <2>1 DEF TypeOK, watchVars, worldVars, Jobs
  <2>3. Passed'
    <3>1. SUFFICES ASSUME NEW i \in Critical, i < job + 1 PROVE mem.jobs[i] # "failed"
      BY <2>1 DEF Passed
    <3>2. i \in 1..N /\ job \in 1..N
      BY <2>1 DEF Jobs
    <3>3. CASE i = job
      BY <3>3 DEF StopsQueue
    <3>4. CASE i < job
      BY <2>1, <3>4 DEF Passed
    <3> QED BY <3>1, <3>2, <3>3, <3>4
  <2>4. OneSession' /\ Checkpointed'
    BY <2>1 DEF OneSession, Checkpointed
  <2>5. Accounted'
    BY DEF Accounted, Remembered, Charged, worldVars
  <2> QED BY <2>2, <2>3, <2>4, <2>5
<1> QED BY <1>1, <1>2

LEMMA SummaryKeeps == ASSUME RunInv, WriteSummary PROVE RunInv'
<1> USE QueueAssumption DEF RunInv, WriteSummary
<1>1. mem' \in RunState /\ job' \in 1..N + 1 /\ stop' \in Stops /\ summary' \in Stops /\ pc' = "off"
  BY FreshRunType DEF Off, Stops, StopReason, TypeOK
<1>2. TypeOK'
  BY <1>1 DEF TypeOK, watchVars, worldVars
<1>3. OneSession' /\ Checkpointed' /\ Passed'
  BY <1>1 DEF OneSession, Checkpointed, Passed
<1>4. Accounted'
  <2>1. task # "Disabled"
    BY DEF OneSession
  <2>2. Charged' = Charged
    BY <2>1 DEF Charged, worldVars
  <2>3. Remembered' = Remembered
    BY <1>1 DEF Remembered, Checkpointed
  <2> QED BY <2>2, <2>3 DEF Accounted, worldVars
<1> QED BY <1>2, <1>3, <1>4

LEMMA StartsKeep == ASSUME RunInv, Trigger \/ RestartOnFailure PROVE RunInv'
<1> USE DEF RunInv
<1>1. pc = "off" /\ Launch /\ task # "Disabled"
      /\ UNCHANGED <<disk, beat, summary, watchVars, worldVars, billed, faults>>
  BY DEF Trigger, RestartOnFailure, OneSession
<1>2. /\ mem' \in RunState /\ job' \in 1..N + 1 /\ stop' \in Stops
      /\ pc' = "next" /\ task' = "Running" /\ crashed' = FALSE
      /\ OneSession' /\ Checkpointed' /\ Passed' /\ Accounted'
  BY <1>1, LaunchKeeps
<1>3. TypeOK'
  <2>1. /\ disk \in RunState /\ beat \in Never..Ancient /\ summary \in Stops /\ billed \in Nat
        /\ looked \in BOOLEAN /\ moved \in BOOLEAN /\ tainted \in BOOLEAN
        /\ watch \in {"idle", "task", "act"} /\ faults \in 0..MaxFaults
        /\ verdict \in {"none", "FAILED_INTEGRITY", "WATCH", "COMPLETE", "RUNNING"}
        /\ seen \in [terminal : BOOLEAN, running : BOOLEAN, age : Never..Ancient,
                     task : {"Waiting", "Ready", "Running", "Disabled"}]
    BY DEF TypeOK
  <2>2. UNCHANGED <<disk, beat, summary, billed, looked, moved, tainted,
                    watch, faults, verdict, seen>>
    BY <1>1 DEF watchVars, worldVars
  <2>3. /\ mem' \in RunState /\ job' \in 1..N + 1 /\ stop' \in Stops
        /\ pc' = "next" /\ task' = "Running" /\ crashed' = FALSE
    BY <1>2
  <2>4. /\ disk' \in RunState /\ beat' \in Never..Ancient /\ summary' \in Stops
        /\ billed' \in Nat /\ faults' \in 0..MaxFaults
        /\ looked' \in BOOLEAN /\ moved' \in BOOLEAN /\ tainted' \in BOOLEAN
    BY <2>1, <2>2
  <2>5. /\ watch' \in {"idle", "task", "act"}
        /\ verdict' \in {"none", "FAILED_INTEGRITY", "WATCH", "COMPLETE", "RUNNING"}
        /\ seen' \in [terminal : BOOLEAN, running : BOOLEAN, age : Never..Ancient,
                      task : {"Waiting", "Ready", "Running", "Disabled"}]
    BY <2>1, <2>2, Zenon
  <2>6. /\ pc' \in {"off", "next", "beat", "job", "record", "judge", "summary"}
        /\ task' \in {"Waiting", "Ready", "Running", "Disabled"} /\ crashed' \in BOOLEAN
    BY <2>3
  <2> HIDE DEF RunInv
  <2> QED BY <2>3, <2>4, <2>5, <2>6, Zenon DEF TypeOK
<1> QED BY <1>2, <1>3

LEMMA KillKeeps == ASSUME RunInv, NEW n \in Requests, Kill(n) PROVE RunInv'
<1> USE QueueAssumption DEF RunInv
<1>1. /\ mem' \in RunState /\ job' \in 1..N + 1 /\ stop' = "none" /\ pc' = "off"
      /\ billed' \in Nat
      /\ billed' <= disk.api + MaxApi + MaxApi * Charged
  BY DiesKeeps DEF Kill
<1>2. faults' = faults + 1 /\ faults' \in 0..MaxFaults /\ faults \in Nat
  BY DEF Fault, TypeOK, Kill
<1>3. TypeOK'
  BY <1>1, <1>2 DEF TypeOK, Kill, Stops, watchVars, worldVars
<1>4. OneSession' /\ Checkpointed' /\ Passed'
  BY <1>1 DEF OneSession, Checkpointed, Passed, Kill
<1>5. Accounted'
  <2>1. Charged \in Nat /\ Charged' = Charged + 1
    <3>1. task # "Disabled"
      BY DEF OneSession, Kill
    <3> QED BY <1>2, <3>1 DEF Charged, worldVars, Accounted, Kill
  <2>2. MaxApi * Charged \in Nat /\ MaxApi * Charged' = MaxApi * Charged + MaxApi
    BY <2>1, Multiples
  <2>3. Remembered' = disk.api /\ disk.api \in Nat
    BY <1>1 DEF Remembered, Kill, TypeOK, RunState
  <2>4. tainted' => faults' > 0
    BY <1>2 DEF Kill, worldVars
  <2> QED BY <1>1, <2>2, <2>3, <2>4 DEF Accounted
<1> QED BY <1>3, <1>4, <1>5

LEMMA WatchStopsKeeps == ASSUME RunInv, NEW n \in Requests, WatchStops(n) PROVE RunInv'
<1> USE QueueAssumption DEF RunInv
<1>1. /\ mem' \in RunState /\ job' \in 1..N + 1 /\ stop' = "none" /\ pc' = "off"
      /\ billed' \in Nat
      /\ billed' <= disk.api + MaxApi + MaxApi * Charged
  BY DiesKeeps DEF WatchStops
<1>2. seen' = RunUnread /\ watch' = "idle" /\ looked' = looked /\ verdict' = "FAILED_INTEGRITY"
  BY DEF WatchStops, EndWatch
<1>3. RunUnread \in [terminal : BOOLEAN, running : BOOLEAN, age : Never..Ancient,
                     task : {"Waiting", "Ready", "Running", "Disabled"}]
  BY DEF RunUnread, Never, Ancient
<1>4. TypeOK'
  BY <1>1, <1>2, <1>3 DEF TypeOK, WatchStops, Stops, worldVars
<1>5. OneSession' /\ Checkpointed' /\ Passed'
  BY <1>1 DEF OneSession, Checkpointed, Passed, WatchStops
<1>6. faults \in Nat /\ faults > 0 /\ faults' = faults /\ tainted /\ tainted' /\ Charged' = faults
  BY DEF TypeOK, Accounted, WatchStops, worldVars, Charged
<1>7. Remembered' = disk.api /\ disk.api \in Nat /\ billed \in Nat
  BY <1>1 DEF Remembered, WatchStops, TypeOK, RunState
<1>8. billed' <= disk.api + MaxApi * faults
  <2>1. CASE task = "Disabled"
    <3>1. pc = "off" /\ billed' = billed
      BY <2>1, <1>7 DEF OneSession, WatchStops, Dies, Requests
    <3>2. billed <= disk.api + MaxApi * Charged /\ Charged = faults
      BY <2>1, <3>1 DEF Accounted, Remembered, Charged
    <3> QED BY <3>1, <3>2
  <2>2. CASE task # "Disabled"
    <3>1. Charged = faults - 1
      BY <2>2, <1>6 DEF Charged
    <3>2. MaxApi * Charged = MaxApi * faults - MaxApi /\ MaxApi * faults \in Nat
      BY <1>6, <3>1, Multiples
    <3> QED BY <1>1, <1>7, <3>2
  <2> QED BY <2>1, <2>2
<1>9. Accounted'
  BY <1>6, <1>7, <1>8 DEF Accounted
<1> QED BY <1>4, <1>5, <1>9

LEMMA WatchRestartsKeeps == ASSUME RunInv, WatchRestarts PROVE RunInv'
<1> USE DEF RunInv
<1>1. /\ seen' = RunUnread /\ watch' = "idle" /\ looked' = looked /\ verdict' = "RUNNING"
      /\ UNCHANGED <<disk, beat, summary, worldVars, billed, faults>>
  BY DEF WatchRestarts, EndWatch
<1>2. RunUnread \in [terminal : BOOLEAN, running : BOOLEAN, age : Never..Ancient,
                     task : {"Waiting", "Ready", "Running", "Disabled"}]
  BY DEF RunUnread, Never, Ancient
<1>3. CASE task = "Ready"
  <2>1. pc = "off" /\ Launch /\ task # "Disabled"
    BY <1>3 DEF OneSession, WatchRestarts
  <2>2. /\ mem' \in RunState /\ job' \in 1..N + 1 /\ stop' \in Stops
        /\ pc' = "next" /\ task' = "Running" /\ crashed' = FALSE
        /\ OneSession' /\ Checkpointed' /\ Passed' /\ Accounted'
    BY <1>1, <2>1, LaunchKeeps
  <2>3. TypeOK'
    BY <1>1, <1>2, <2>2 DEF TypeOK, worldVars
  <2> QED BY <2>2, <2>3
<1>4. CASE task # "Ready"
  <2>1. UNCHANGED <<supVars, task, crashed>>
    BY <1>4 DEF WatchRestarts
  <2>2. TypeOK'
    BY <1>1, <1>2, <2>1 DEF TypeOK, supVars, worldVars
  <2>3. OneSession' /\ Checkpointed' /\ Passed'
    BY <1>1, <2>1 DEF OneSession, Checkpointed, Passed, supVars
  <2>4. Accounted'
    BY <1>1, <2>1 DEF Accounted, Remembered, Charged, supVars, worldVars
  <2> QED BY <2>2, <2>3, <2>4
<1> QED BY <1>3, <1>4

\* What the watchdog only reads and writes down, and the clock, disturb no other part.
LEMMA ObservesKeeps ==
  ASSUME RunInv, WatchFiles \/ WatchTask \/ WatchObserves \/ Tick
  PROVE  RunInv'
<1> USE QueueAssumption DEF RunInv
<1>1. UNCHANGED <<disk, summary, supVars, task, crashed, worldVars, billed, faults>>
  BY DEF WatchFiles, WatchTask, WatchObserves, Tick
<1>2. /\ watch' \in {"idle", "task", "act"} /\ looked' \in BOOLEAN
      /\ verdict' \in {"none", "FAILED_INTEGRITY", "WATCH", "COMPLETE", "RUNNING"}
  BY DEF WatchFiles, WatchTask, WatchObserves, EndWatch, Tick, TypeOK
<1>3. beat' \in Never..Ancient
  BY DEF WatchFiles, WatchTask, WatchObserves, Tick, TypeOK, AtMost, Never, Ancient
<1>4. seen' \in [terminal : BOOLEAN, running : BOOLEAN, age : Never..Ancient,
                 task : {"Waiting", "Ready", "Running", "Disabled"}]
  <2>1. CASE WatchFiles
    <3>1. Terminal(disk.jobs, summary) \in BOOLEAN /\ SomethingRunning(disk.jobs) \in BOOLEAN
      BY DEF Terminal, SomethingRunning
    <3>2. seen' = [seen EXCEPT !.terminal = Terminal(disk.jobs, summary),
                               !.running = SomethingRunning(disk.jobs), !.age = beat]
      BY <2>1 DEF WatchFiles
    <3> QED BY <3>1, <3>2 DEF TypeOK
  <2>2. CASE WatchTask
    BY <2>2 DEF WatchTask, TypeOK
  <2>3. CASE WatchObserves
    <3>1. seen' = RunUnread
      BY <2>3 DEF WatchObserves, EndWatch
    <3> QED BY <3>1 DEF RunUnread, Never, Ancient
  <2>4. CASE Tick
    BY <2>4 DEF Tick, TypeOK
  <2> QED BY <2>1, <2>2, <2>3, <2>4
<1>5. TypeOK'
  BY <1>1, <1>2, <1>3, <1>4 DEF TypeOK, supVars, worldVars
<1>6. OneSession' /\ Checkpointed' /\ Passed'
  BY <1>1 DEF OneSession, Checkpointed, Passed, supVars
<1>7. Accounted'
  BY <1>1 DEF Accounted, Remembered, Charged, supVars, worldVars
<1> QED BY <1>5, <1>6, <1>7

LEMMA WorldKeeps == ASSUME RunInv, World PROVE RunInv'
<1> USE QueueAssumption DEF RunInv
<1>1. /\ UNCHANGED <<disk, beat, summary, supVars, task, crashed, watchVars, billed>>
      /\ faults' = faults + 1 /\ faults' \in 0..MaxFaults /\ faults \in Nat
      /\ moved' \in BOOLEAN /\ tainted' \in BOOLEAN /\ (tainted' = tainted \/ ~tainted)
  <2>1. faults \in Nat /\ moved \in BOOLEAN /\ tainted \in BOOLEAN
    BY DEF TypeOK
  <2>2. Fault("moved") \/ Fault("tainted")
    BY DEF World
  <2>3. faults' = faults + 1 /\ faults' \in 0..MaxFaults
    BY <2>1, <2>2 DEF Fault
  <2>4. UNCHANGED <<disk, beat, summary, supVars, task, crashed, watchVars, billed>>
    BY DEF World
  <2>5. CASE ~moved /\ moved' = TRUE /\ UNCHANGED tainted
    BY <2>1, <2>3, <2>4, <2>5
  <2>6. CASE ~tainted /\ tainted' = TRUE /\ UNCHANGED moved
    BY <2>1, <2>3, <2>4, <2>6
  <2> QED BY <2>5, <2>6 DEF World
<1>2. TypeOK'
  BY <1>1 DEF TypeOK, supVars, watchVars
<1>3. OneSession' /\ Checkpointed' /\ Passed'
  BY <1>1 DEF OneSession, Checkpointed, Passed, supVars
<1>4. Accounted'
  <2>1. Charged \in Nat /\ (Charged' = Charged \/ Charged' = Charged + 1)
    BY <1>1 DEF Charged, Accounted
  <2>2. MaxApi * Charged \in Nat /\ MaxApi * Charged' \in Nat /\ MaxApi * Charged' >= MaxApi * Charged
    BY <2>1, Multiples
  <2>3. Remembered' = Remembered /\ billed' = billed /\ Remembered \in Nat /\ billed \in Nat
    BY <1>1 DEF Remembered, supVars, TypeOK, RunState
  <2> QED BY <1>1, <2>2, <2>3 DEF Accounted
<1> QED BY <1>2, <1>3, <1>4

LEMMA StutterKeeps == ASSUME RunInv, UNCHANGED vars PROVE RunInv'
<1> USE DEF RunInv, vars, supVars, watchVars, worldVars
<1>1. TypeOK'
  BY DEF TypeOK
<1>2. OneSession' /\ Checkpointed' /\ Passed'
  BY DEF OneSession, Checkpointed, Passed
<1>3. Accounted'
  BY DEF Accounted, Remembered, Charged
<1> QED BY <1>1, <1>2, <1>3

LEMMA RunNext == RunInv /\ [Next]_vars => RunInv'
<1> SUFFICES ASSUME RunInv, [Next]_vars PROVE RunInv'
  OBVIOUS
<1>1. CASE Supervise
  BY <1>1, SkipKeeps, RefuseKeeps, StartKeeps, BeatKeeps, JobEndsKeeps, UnreportedKeeps,
     RecordKeeps, JudgeKeeps, SummaryKeeps DEF Supervise
<1>2. CASE Watch
  BY <1>2, ObservesKeeps, WatchRestartsKeeps, WatchStopsKeeps DEF Watch
<1>3. CASE Trigger \/ RestartOnFailure
  BY <1>3, StartsKeep
<1>4. CASE Tick
  BY <1>4, ObservesKeeps
<1>5. CASE World
  BY <1>5, WorldKeeps
<1>6. CASE \E n \in Requests : Kill(n)
  BY <1>6, KillKeeps
<1>7. CASE UNCHANGED vars
  BY <1>7, StutterKeeps
<1> QED BY <1>1, <1>2, <1>3, <1>4, <1>5, <1>6, <1>7 DEF Next

-----------------------------------------------------------------------------
\* RunInv holds in every state of every run.
THEOREM RunIsSound == Spec => []RunInv
BY RunInit, RunNext, PTL DEF Spec

\* The variables keep their types; the recorded requests never exceed the budget.
THEOREM TypeCorrect == Spec => []TypeOK
<1>1. RunInv => TypeOK
  BY DEF RunInv
<1> QED BY <1>1, RunIsSound, PTL

\* No session works past a failed critical job of the queue.
THEOREM GateHolds == Spec => []CriticalGate
<1>1. RunInv => CriticalGate
  BY DEF RunInv, Passed, CriticalGate
<1> QED BY <1>1, RunIsSound, PTL

\* What is really spent exceeds the budget by at most one budget for each fault.
THEOREM BudgetIsBounded == Spec => []BudgetDamage
<1>1. RunInv => BudgetDamage
  <2> SUFFICES ASSUME RunInv PROVE BudgetDamage
    OBVIOUS
  <2> USE QueueAssumption DEF RunInv
  <2>1. /\ faults \in Nat /\ billed \in Nat /\ Charged \in Nat
        /\ (Charged = faults \/ Charged + 1 = faults)
    BY DEF TypeOK, Accounted, Charged
  <2>2. Remembered \in 0..MaxApi
    BY DEF Remembered, TypeOK, RunState
  <2>3. MaxApi * Charged \in Nat /\ MaxApi * faults \in Nat /\ MaxApi * Charged <= MaxApi * faults
    BY <2>1, Multiples
  <2>4. MaxApi * (1 + faults) = MaxApi * faults + MaxApi
    BY <2>1, Multiples
  <2>5. billed <= Remembered + MaxApi * Charged
    BY DEF Accounted
  <2> QED BY <2>1, <2>2, <2>3, <2>4, <2>5 DEF BudgetDamage
<1> QED BY <1>1, RunIsSound, PTL

\* A job that state.json once calls complete stays complete, across kills and restarts.
THEOREM CompletedNeverLost == Spec => CompletedStays
<1>1. ASSUME RunInv, [Next]_vars
      PROVE  [\A j \in Jobs : disk.jobs[j] = "complete" => disk'.jobs[j] = "complete"]_vars
  <2> SUFFICES ASSUME disk' # disk
               PROVE  \A j \in Jobs : disk.jobs[j] = "complete" => disk'.jobs[j] = "complete"
    OBVIOUS
  <2>1. Refuse \/ StartJob \/ Record \/ Judge
    BY <1>1 DEF Next, Supervise, Skip, Beat, JobEnds, JobUnreported, WriteSummary, Watch, WatchFiles,
            WatchTask, WatchStops, WatchRestarts, WatchObserves, Trigger, RestartOnFailure, Tick, World,
            Kill, vars
  <2>2. CASE Refuse
    <3>1. Halt(job..N)
      BY <2>2 DEF Refuse
    <3> QED BY <1>1, <2>2, <3>1, HaltKeeps DEF Refuse
  <2>3. CASE StartJob
    BY <1>1, <2>3 DEF StartJob, RunInv, Checkpointed, TypeOK, RunState, Skips
  <2>4. CASE Record
    BY <1>1, <2>4 DEF Record, RunInv, Checkpointed
  <2>5. CASE Judge
    <3>1. Halt((job + 1)..N)
      BY <2>5 DEF Judge
    <3> QED BY <1>1, <2>5, <3>1, HaltKeeps DEF Judge, Stops
  <2> QED BY <2>1, <2>2, <2>3, <2>4, <2>5
<1> QED BY <1>1, RunIsSound, PTL DEF Spec, CompletedStays

-----------------------------------------------------------------------------
(* What a queue_complete summary stands for *)

\* The jobs behind the one a session is at have ended, the one it has run has too,
\* and a queue that stops early has its reason.
Ended ==
  /\ pc \in {"next", "beat", "job", "record", "judge"} =>
       \A i \in Jobs : i < job => mem.jobs[i] \in Outcomes
  /\ pc \in {"record", "judge"} => mem.jobs[job] \in Outcomes
  /\ pc = "summary" => stop = "stopped"

LEMMA EndedNext == RunInv /\ Ended /\ [Next]_vars => Ended'
<1> SUFFICES ASSUME RunInv, Ended, [Next]_vars PROVE Ended'
  OBVIOUS
<1>1. TypeOK /\ Checkpointed
  BY DEF RunInv
<1>2. CASE Skip
  <2>1. /\ pc = "next" /\ pc' = "next" /\ mem' = mem /\ job' = job + 1 /\ job \in 1..N
        /\ mem.jobs[job] = "complete"
    BY <1>2 DEF Skip, Skips, Jobs
  <2>2. ASSUME NEW i \in Jobs, i < job + 1 PROVE mem.jobs[i] \in Outcomes
    <3>1. CASE i = job
      BY <2>1, <3>1 DEF Outcomes
    <3>2. CASE i < job
      BY <2>1, <3>2 DEF Ended
    <3> QED BY <2>1, <2>2, <3>1, <3>2 DEF Jobs
  <2> QED BY <2>1, <2>2 DEF Ended
<1>3. CASE Refuse
  BY <1>3 DEF Refuse, Halt, Ended
<1>4. CASE StartJob
  <2>1. /\ pc = "next" /\ pc' = "beat" /\ job' = job /\ job \in Jobs
        /\ mem' = [mem EXCEPT !.jobs[job] = "running"]
    BY <1>4 DEF StartJob
  <2>2. \A i \in Jobs : i < job => mem'.jobs[i] = mem.jobs[i]
    BY <1>1, <2>1 DEF TypeOK, RunState, Jobs
  <2> QED BY <2>1, <2>2 DEF Ended
<1>5. ASSUME NEW status \in Outcomes, NEW n \in Requests,
             JobEnds(status, n) \/ JobUnreported(status, n)
      PROVE  Ended'
  <2>1. /\ pc = "job" /\ pc' = "record" /\ job' = job /\ job \in Jobs
        /\ mem'.jobs = [mem.jobs EXCEPT ![job] = status]
    BY <1>1, <1>5 DEF JobEnds, JobUnreported, Checkpointed, TypeOK, RunState
  <2>2. mem.jobs \in [Jobs -> Status]
    BY <1>1 DEF TypeOK, RunState
  <2>3. mem'.jobs[job] = status
    BY <2>1, <2>2
  <2>4. \A i \in Jobs : i # job => mem'.jobs[i] = mem.jobs[i]
    BY <2>1, <2>2
  <2>5. \A i \in Jobs : i < job => i # job
    BY QueueAssumption, <2>1 DEF Jobs
  <2> QED BY <2>1, <2>3, <2>4, <2>5 DEF Ended
<1>6. CASE Judge
  <2>1. CASE StopsQueue(mem.jobs[job])
    BY <1>6, <2>1 DEF Judge, Halt, Ended
  <2>2. CASE ~StopsQueue(mem.jobs[job])
    <3>1. /\ pc = "judge" /\ pc' = "next" /\ mem' = mem /\ job' = job + 1 /\ job \in 1..N
          /\ mem.jobs[job] \in Outcomes
      BY <1>1, <1>6, <2>2 DEF Judge, Checkpointed, Jobs, Ended
    <3>2. ASSUME NEW i \in Jobs, i < job + 1 PROVE mem.jobs[i] \in Outcomes
      <4>1. CASE i = job
        BY <3>1, <4>1
      <4>2. CASE i < job
        BY <3>1, <4>2 DEF Ended
      <4> QED BY <3>1, <3>2, <4>1, <4>2 DEF Jobs
    <3> QED BY <3>1, <3>2 DEF Ended
  <2> QED BY <2>1, <2>2
<1>7. CASE Beat \/ Record
  BY <1>7 DEF Beat, Record, Ended
<1>8. CASE Launch
  BY <1>8 DEF Launch, Ended, Jobs
<1>9. CASE pc' = "off"
  BY <1>9 DEF Ended
<1>10. CASE UNCHANGED supVars
  BY <1>10 DEF supVars, Ended
<1>11. CASE Supervise
  <2>1. CASE WriteSummary
    BY <1>9, <2>1 DEF WriteSummary, Off
  <2> QED BY <1>2, <1>3, <1>4, <1>5, <1>6, <1>7, <1>11, <2>1 DEF Supervise
<1>12. CASE Watch
  <2>1. ASSUME NEW n \in Requests, WatchStops(n) PROVE pc' = "off"
    BY <2>1 DEF WatchStops, Dies, Off
  <2>2. CASE WatchRestarts
    BY <1>8, <1>10, <2>2 DEF WatchRestarts, supVars
  <2>3. CASE WatchFiles \/ WatchTask \/ WatchObserves
    BY <1>10, <2>3 DEF WatchFiles, WatchTask, WatchObserves
  <2> QED BY <1>9, <1>12, <2>1, <2>2, <2>3 DEF Watch
<1>13. CASE Trigger \/ RestartOnFailure
  BY <1>8, <1>13 DEF Trigger, RestartOnFailure
<1>14. CASE Tick \/ World \/ UNCHANGED vars
  BY <1>10, <1>14 DEF Tick, World, vars
<1>15. CASE \E n \in Requests : Kill(n)
  BY <1>9, <1>15 DEF Kill, Dies, Off
<1> QED BY <1>11, <1>12, <1>13, <1>14, <1>15 DEF Next

\* A summary says queue_complete only when each job of the queue has an outcome on
\* disk, though sessions start from whatever state a kill has left.
THEOREM SummaryIsHonest == Spec => SummaryCoversQueue
<1>1. Init => Ended
  BY DEF Init, Ended
<1>2. ASSUME RunInv, Ended
      PROVE  [WriteSummary /\ summary' = "queue_complete" =>
                \A j \in Jobs : disk.jobs[j] \in Outcomes]_vars
  <2> SUFFICES ASSUME WriteSummary, summary' = "queue_complete", NEW j \in Jobs
               PROVE  disk.jobs[j] \in Outcomes
    OBVIOUS
  <2>1. pc = "next" /\ job \notin Jobs
    BY <1>2 DEF WriteSummary, StopReason, Ended
  <2>2. job = N + 1 /\ mem = disk
    BY <1>2, <2>1, QueueAssumption DEF RunInv, TypeOK, Checkpointed, Jobs
  <2>3. j < job
    BY <2>2, QueueAssumption DEF Jobs
  <2> QED BY <1>2, <2>1, <2>2, <2>3 DEF Ended
<1> QED BY <1>1, <1>2, EndedNext, RunIsSound, PTL DEF Spec, SummaryCoversQueue
-----------------------------------------------------------------------------
(* What the watchdog does not resume *)

\* A dead run whose files do not ask for help: what state.json lists has ended, or a
\* queue_complete summary of an earlier session is still there, or no job is listed as
\* running; a watchdog that is half-way has read as much.
Abandoned ==
  /\ task = "Ready" /\ (Terminal(disk.jobs, summary) \/ ~SomethingRunning(disk.jobs))
  /\ watch # "idle" => seen.terminal \/ ~seen.running

\* "restarts ONLY a crashed/stale run" (international_event_lake_watchdog.py:15), and not
\* every one: a run that died between two jobs (line 159), or in a session after one that completed
\* (line 155), is left for good, however often the watchdog looks.  Only a restart by
\* Task Scheduler itself, or the stop of a tainted run, ends it.
DeadRunsStay ==
  [][Abandoned => \/ Abandoned' \/ RestartOnFailure
                  \/ \E n \in Requests : WatchStops(n)]_vars

\* The watchdog leaves such a run dead (international_event_lake_watchdog.py:155, :159).
THEOREM DeadRunsStayDead == Spec => DeadRunsStay
<1>1. ASSUME RunInv, Abandoned, [Next]_vars, ~RestartOnFailure,
             \A n \in Requests : ~WatchStops(n)
      PROVE  Abandoned'
  <2> USE DEF Abandoned
  <2>1. pc = "off" /\ task = "Ready"
    BY <1>1 DEF RunInv, OneSession
  <2>2. CASE Supervise
    BY <2>1, <2>2 DEF Supervise, Skip, StartJob, Beat, Record, Judge, WriteSummary, Refuse,
       JobEnds, JobUnreported
  <2>3. CASE WatchFiles
    BY <1>1, <2>3 DEF WatchFiles, RunInv, TypeOK
  <2>4. CASE WatchTask
    BY <1>1, <2>4 DEF WatchTask, RunInv, TypeOK
  <2>5. CASE WatchRestarts
    BY <1>1, <2>5 DEF WatchRestarts, LooksCrashed
  <2>6. CASE WatchObserves
    BY <1>1, <2>6 DEF WatchObserves, EndWatch
  <2>7. CASE Trigger \/ \E n \in Requests : Kill(n)
    BY <2>1, <2>7 DEF Trigger, Kill
  <2>8. CASE Tick \/ World \/ UNCHANGED vars
    BY <1>1, <2>8 DEF Tick, World, vars, watchVars
  <2> QED BY <1>1, <2>2, <2>3, <2>4, <2>5, <2>6, <2>7, <2>8 DEF Next, Watch
<1>2. RunInv /\ [Next]_vars => [Abandoned => \/ Abandoned' \/ RestartOnFailure
                                            \/ \E n \in Requests : WatchStops(n)]_vars
  BY <1>1
<1> QED BY <1>2, RunIsSound, PTL DEF Spec, DeadRunsStay
=============================================================================
