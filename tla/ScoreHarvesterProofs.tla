------------------------- MODULE ScoreHarvesterProofs -------------------------
(***************************************************************************)
(* Proofs about the score harvester, for every universe of fixtures, every *)
(* prediction ledger, every interleaving of the two tasks and every number *)
(* of kills, cut writes, failed refreshes and provider corrections.        *)
(***************************************************************************)
EXTENDS ScoreHarvester, TLAPS

\* A status function knows only what the provider has published.
Known(st) == \A f \in Universe : st[f] \in Results => <<f, st[f]>> \in published

\* A set of rows was scored against published results, from primary snapshots.
Grounded(S) == \A row \in S : <<row.fix, row.result>> \in published /\ FromPrimary(row)

GroundInv ==
  /\ Known(provider) /\ Known(payload.statuses) /\ Known(results.statuses)
  /\ \A p \in Procs : Known(local[p].statuses)
  /\ Grounded(scored.rows) /\ \A p \in Procs : Grounded(local[p].rows)

HarvestInv == TypeOK /\ GroundInv

-----------------------------------------------------------------------------
(* What the selection and the scoring return *)

LEMMA PrimaryProperties ==
  ASSUME NEW f \in Universe
  PROVE  /\ \A q \in Primary(f) : q \in Predictions /\ q.fix = f
         /\ \A q, o \in Primary(f) : q = o
<1>1. ASSUME NEW q \in Primary(f) PROVE q \in Predictions /\ q.fix = f
  BY DEF Primary, Qualifying
<1>2. ASSUME NEW q \in Primary(f), NEW o \in Primary(f) PROVE q = o
  <2>1. q.snap <= o.snap /\ o.snap <= q.snap
    BY DEF Primary
  <2>2. q.snap \in Int /\ o.snap \in Int
    BY <1>1, PredictionsAssumption
  <2>3. q.snap = o.snap
    BY <2>1, <2>2
  <2> QED BY <1>1, <2>3, PredictionsAssumption
<1> QED BY <1>1, <1>2

\* Scoring a known status function gives grounded rows of the right type.
LEMMA ScoredNowGrounded ==
  ASSUME NEW st \in [Universe -> Statuses], Known(st)
  PROVE  ScoredNow(st) \subseteq Row /\ Grounded(ScoredNow(st))
<1> SUFFICES ASSUME NEW row \in ScoredNow(st)
             PROVE  row \in Row /\ <<row.fix, row.result>> \in published /\ FromPrimary(row)
  BY DEF Grounded
<1>1. \E f \in Universe : \E q \in Primary(f) :
        Passes(q) /\ st[q.fix] \in Results /\ row = ScoreRow(q, st[q.fix], GoalText(st))
  BY DEF ScoredNow
<1>2. PICK f \in Universe : \E q \in Primary(f) :
        Passes(q) /\ st[q.fix] \in Results /\ row = ScoreRow(q, st[q.fix], GoalText(st))
  BY <1>1
<1>3. PICK q \in Primary(f) :
        Passes(q) /\ st[q.fix] \in Results /\ row = ScoreRow(q, st[q.fix], GoalText(st))
  BY <1>2
<1>4. q \in Predictions /\ q.fix = f
  BY PrimaryProperties
<1>5. row.fix = f /\ row.result = st[f] /\ row.text = GoalText(st)
  BY <1>3, <1>4 DEF ScoreRow
<1>6. row \in Row
  BY <1>3, <1>4, PredictionsAssumption DEF ScoreRow, Row, GoalText
<1>7. FromPrimary(row)
  BY <1>3, <1>4, <1>5 DEF FromPrimary
<1> QED BY <1>3, <1>4, <1>5, <1>6, <1>7 DEF Known

LEMMA MergeGrounded ==
  ASSUME NEW prior \in SUBSET Row, NEW new \in SUBSET Row, Grounded(prior), Grounded(new)
  PROVE  Merge(prior, new) \subseteq Row /\ Grounded(Merge(prior, new))
         /\ prior \subseteq Merge(prior, new)
BY DEF Merge, Grounded

\* A row of a primary snapshot is admissible, and two of them agree on their key
\* only if they are the same row.
LEMMA GroundedSound ==
  ASSUME NEW S \in SUBSET Row, Grounded(S)
  PROVE  Ledger!KeysUnique(S) /\ \A row \in S : Admissible(row)
<1>1. ASSUME NEW row \in S PROVE Admissible(row)
  <2>1. PICK q \in Primary(row.fix) : Passes(q) /\ row = ScoreRow(q, row.result, row.text)
    BY DEF Grounded, FromPrimary
  <2>2. row.fix \in Universe /\ q.fix = row.fix /\ row.snap = q.snap /\ row.at = q.at
    BY <2>1 DEF Row, ScoreRow
  <2>3. \A o \in Qualifying(row.fix) : o.snap <= row.snap
    BY <2>1, <2>2 DEF Primary
  <2> QED BY <2>1, <2>2, <2>3 DEF Admissible, Passes, Qualifying
<1>2. ASSUME NEW a \in S, NEW b \in S, Key(a) = Key(b) PROVE a = b
  <2>1. a.fix = b.fix /\ a.result = b.result /\ a.text = b.text /\ a.fix \in Universe
    BY <1>2 DEF Key, Row
  <2>2. PICK q \in Primary(a.fix) : a = ScoreRow(q, a.result, a.text)
    BY DEF Grounded, FromPrimary
  <2>3. PICK o \in Primary(b.fix) : b = ScoreRow(o, b.result, b.text)
    BY DEF Grounded, FromPrimary
  <2>4. q = o
    BY <2>1, <2>2, <2>3, PrimaryProperties
  <2> QED BY <2>1, <2>2, <2>3, <2>4
<1> QED BY <1>1, <1>2 DEF Ledger!KeysUnique

-----------------------------------------------------------------------------
(* The invariant *)

LEMMA InitialStatusesType ==
  /\ NoStatuses \in [Universe -> Statuses] /\ InitialStatuses \in [Universe -> Statuses]
  /\ \A f \in Universe : InitialStatuses[f] = Waiting
       \/ \E row \in InitialScored : row.fix = f /\ InitialStatuses[f] = row.result
<1>1. NoStatuses \in [Universe -> Statuses]
  BY DEF NoStatuses, Statuses
<1>2. ASSUME NEW f \in Universe
      PROVE  InitialStatuses[f] = Waiting
               \/ \E row \in InitialScored : row.fix = f /\ InitialStatuses[f] = row.result
  BY DEF InitialStatuses
<1>3. \A row \in InitialScored : row.result \in Statuses
  BY InitialAssumption DEF Row, Statuses
<1>4. InitialStatuses \in [Universe -> Statuses]
  BY <1>2, <1>3 DEF InitialStatuses, Statuses
<1> QED BY <1>1, <1>2, <1>4

LEMMA WaitingKnown == Known(NoStatuses) /\ Waiting \notin Results
BY BoundsAssumption DEF Known, NoStatuses, Waiting

LEMMA HarvestInit == Init => HarvestInv
<1> SUFFICES ASSUME Init PROVE HarvestInv
  OBVIOUS
<1> USE DEF Init
<1>1. InitialScored \subseteq Row
  BY InitialAssumption
<1>2. \A f \in Universe : provider[f] \in Results => <<f, provider[f]>> \in published
  OBVIOUS
<1>3. published \subseteq Universe \X Results
  OBVIOUS
<1>4. TypeOK
  <2>1. provider \in [Universe -> Statuses]
    BY DEF Statuses
  <2>2. EmptyMemory \in Memory
    BY InitialStatusesType DEF EmptyMemory, Memory
  <2>3. changes \in [Universe -> 0..MaxChanges] /\ faults \in 0..MaxFaults
    BY BoundsAssumption
  <2> QED BY <1>1, <1>3, <2>1, <2>2, <2>3, InitialStatusesType
          DEF TypeOK, FileState, Absent, Stale, Procs
<1>5. Known(provider) /\ Known(InitialStatuses)
  <2>1. \A row \in InitialScored : row.fix \in Universe /\ row.result \in Results
    BY <1>1 DEF Row
  <2> QED BY <1>2, <2>1, InitialStatusesType, WaitingKnown DEF Known
<1>6. Grounded(InitialScored)
  <2>1. \A row \in InitialScored : row.fix \in Universe /\ row.result \in Results
    BY <1>1 DEF Row
  <2> QED BY <1>2, <2>1, InitialAssumption DEF Grounded
<1>7. GroundInv
  BY <1>5, <1>6, WaitingKnown DEF GroundInv, EmptyMemory, Grounded
<1> QED BY <1>4, <1>7 DEF HarvestInv

\* A process that ends a cycle forgets what it held; the rest keep what they had.
LEMMA MemoryAfter ==
  ASSUME HarvestInv, NEW p \in Procs, NEW mem \in Memory,
         Known(mem.statuses), Grounded(mem.rows), local' = [local EXCEPT ![p] = mem],
         UNCHANGED published
  PROVE  /\ local' \in [Procs -> Memory]
         /\ \A q \in Procs : Known(local[q].statuses)' /\ Grounded(local[q].rows)'
BY DEF HarvestInv, TypeOK, GroundInv, Known, Grounded

LEMMA EmptyMemoryKnown ==
  EmptyMemory \in Memory /\ Known(EmptyMemory.statuses) /\ Grounded(EmptyMemory.rows)
BY InitialStatusesType, WaitingKnown DEF EmptyMemory, Memory, Grounded

\* A step that leaves what is known and what is scored alone keeps GroundInv.
LEMMA GroundUnchanged ==
  ASSUME GroundInv, UNCHANGED <<provider, published, payload, results, scored, local>>
  PROVE  GroundInv'
BY DEF GroundInv, Known, Grounded

LEMMA StepCase ==
  ASSUME HarvestInv, NEW p \in Procs, Step(p)
  PROVE  HarvestInv'
<1> USE DEF HarvestInv
<1>1. CASE AcquireCheck(p)
  <2>1. TypeOK'
    <3>1. CASE Goto(p, "idle") /\ Beat("skipped_locked")
      BY <1>1, <3>1 DEF AcquireCheck, TypeOK, Goto, Beat, Stale, worldVars, schedVars
    <3>2. CASE Goto(p, "lock") /\ UNCHANGED heartbeat
      BY <1>1, <3>2 DEF AcquireCheck, TypeOK, Goto, worldVars, schedVars
    <3> QED BY <1>1, <3>1, <3>2 DEF AcquireCheck
  <2> QED BY <1>1, <2>1, GroundUnchanged DEF AcquireCheck, worldVars
<1>2. CASE AcquireWrite(p)
  <2>1. TypeOK'
    BY <1>2 DEF AcquireWrite, TypeOK, Goto, Beat, worldVars, schedVars, Stale
  <2> QED BY <1>2, <2>1, GroundUnchanged DEF AcquireWrite, worldVars
<1>3. CASE DecideRefresh(p)
  <2>1. CASE UNCHANGED local
    <3>1. TypeOK'
      BY <1>3, <2>1 DEF DecideRefresh, TypeOK, Goto, worldVars, schedVars, fileVars
    <3> QED BY <1>3, <2>1, <3>1, GroundUnchanged DEF DecideRefresh, worldVars, fileVars
  <2>2. CASE local' = [local EXCEPT ![p].statuses = payload.statuses]
    <3> DEFINE mem == [local[p] EXCEPT !.statuses = payload.statuses]
    <3>1. local' = [local EXCEPT ![p] = mem]
      BY <2>2
    <3>2. mem \in Memory /\ Known(mem.statuses) /\ Grounded(mem.rows)
      BY DEF TypeOK, Memory, GroundInv
    <3>3. /\ local' \in [Procs -> Memory]
          /\ \A q \in Procs : Known(local[q].statuses)' /\ Grounded(local[q].rows)'
      BY <1>3, <3>1, <3>2, MemoryAfter DEF DecideRefresh, worldVars
    <3>4. TypeOK'
      BY <1>3, <3>3 DEF DecideRefresh, TypeOK, Goto, worldVars, schedVars, fileVars
    <3> QED BY <1>3, <3>3, <3>4 DEF DecideRefresh, GroundInv, Known, Grounded, worldVars, fileVars
  <2> QED BY <1>3, <2>1, <2>2 DEF DecideRefresh
<1>4. CASE Fetch(p)
  <2> DEFINE mem == [local[p] EXCEPT !.statuses = provider]
  <2>1. local' = [local EXCEPT ![p] = mem]
    BY <1>4 DEF Fetch
  <2>2. mem \in Memory /\ Known(mem.statuses) /\ Grounded(mem.rows)
    BY DEF TypeOK, Memory, GroundInv
  <2>3. /\ local' \in [Procs -> Memory]
        /\ \A q \in Procs : Known(local[q].statuses)' /\ Grounded(local[q].rows)'
    BY <1>4, <2>1, <2>2, MemoryAfter DEF Fetch, worldVars
  <2>4. TypeOK'
    BY <1>4, <2>3 DEF Fetch, TypeOK, Goto, worldVars, schedVars
  <2> QED BY <1>4, <2>3, <2>4 DEF Fetch, GroundInv, Known, Grounded, worldVars
<1>5. CASE WriteResults(p)
  <2> DEFINE mem == [local[p] EXCEPT !.statuses = NoStatuses]
  <2>1. local' = [local EXCEPT ![p] = mem]
    BY <1>5 DEF WriteResults, TypeOK, Memory
  <2>2. mem \in Memory /\ Known(mem.statuses) /\ Grounded(mem.rows)
    <3>1. local[p] \in Memory /\ Grounded(local[p].rows)
      BY DEF TypeOK, GroundInv
    <3>2. /\ mem = [statuses |-> NoStatuses, rows |-> local[p].rows, fixes |-> local[p].fixes]
          /\ local[p].rows \in SUBSET Row /\ local[p].fixes \in SUBSET Universe
      BY <3>1 DEF Memory
    <3>3. mem \in Memory
      BY <3>2, InitialStatusesType DEF Memory
    <3>4. mem.statuses = NoStatuses /\ mem.rows = local[p].rows
      BY <3>2
    <3> QED BY <3>1, <3>3, <3>4, WaitingKnown
  <2>3. /\ local' \in [Procs -> Memory]
        /\ \A q \in Procs : Known(local[q].statuses)' /\ Grounded(local[q].rows)'
    BY <1>5, <2>1, <2>2, MemoryAfter DEF WriteResults, worldVars
  <2>4. TypeOK'
    BY <1>5, <2>3 DEF WriteResults, TypeOK, Goto, worldVars, schedVars, Memory, FileState, Written
  <2> QED BY <1>5, <2>3, <2>4 DEF WriteResults, GroundInv, Known, Grounded, worldVars
<1>6. CASE Harvest(p)
  <2>1. CASE UNCHANGED local
    <3>1. TypeOK'
      BY <1>6, <2>1 DEF Harvest, TypeOK, Goto, worldVars, schedVars, fileVars
    <3> QED BY <1>6, <2>1, <3>1, GroundUnchanged DEF Harvest, worldVars, fileVars
  <2>2. CASE ~HarvestRaises
    <3> DEFINE new == ScoredNow(results.statuses)
               mem == [local[p] EXCEPT !.rows = Merge(scored.rows, new),
                                       !.fixes = ExcludedNow(results.statuses)]
    <3>1. local' = [local EXCEPT ![p] = mem]
      BY <1>6, <2>2 DEF Harvest, TypeOK, Memory
    <3>2. new \subseteq Row /\ Grounded(new)
      BY ScoredNowGrounded DEF TypeOK, GroundInv
    <3>3. Merge(scored.rows, new) \subseteq Row /\ Grounded(Merge(scored.rows, new))
      BY <3>2, MergeGrounded DEF TypeOK, GroundInv
    <3>4. mem \in Memory /\ Known(mem.statuses) /\ Grounded(mem.rows)
      <4>1. ExcludedNow(results.statuses) \subseteq Universe
        BY DEF ExcludedNow
      <4>2. local[p] \in Memory /\ Known(local[p].statuses)
        BY DEF TypeOK, GroundInv
      <4> HIDE DEF new
      <4>3. mem.statuses = local[p].statuses /\ mem.rows = Merge(scored.rows, new) /\ mem \in Memory
        BY <3>3, <4>1, <4>2 DEF Memory
      <4> QED BY <3>3, <4>2, <4>3 DEF Grounded
    <3>5. /\ local' \in [Procs -> Memory]
          /\ \A q \in Procs : Known(local[q].statuses)' /\ Grounded(local[q].rows)'
      BY <1>6, <3>1, <3>4, MemoryAfter DEF Harvest, worldVars
    <3>6. TypeOK'
      BY <1>6, <3>5 DEF Harvest, TypeOK, Goto, worldVars, schedVars, fileVars
    <3> QED BY <1>6, <3>5, <3>6 DEF Harvest, GroundInv, Known, Grounded, worldVars, fileVars
  <2> QED BY <1>6, <2>1, <2>2 DEF Harvest
<1>7. CASE WriteScored(p)
  <2> DEFINE mem == [local[p] EXCEPT !.rows = {}]
  <2>1. local' = [local EXCEPT ![p] = mem]
    BY <1>7 DEF WriteScored, TypeOK, Memory
  <2>2. mem \in Memory /\ Known(mem.statuses) /\ Grounded(mem.rows)
    <3>1. local[p] \in Memory /\ Known(local[p].statuses)
      BY DEF TypeOK, GroundInv
    <3>2. mem \in Memory /\ mem.statuses = local[p].statuses /\ mem.rows = {}
      BY <3>1 DEF Memory
    <3> QED BY <3>1, <3>2 DEF Grounded
  <2>3. /\ local' \in [Procs -> Memory]
        /\ \A q \in Procs : Known(local[q].statuses)' /\ Grounded(local[q].rows)'
    BY <1>7, <2>1, <2>2, MemoryAfter DEF WriteScored, worldVars
  <2>4. TypeOK'
    BY <1>7, <2>3 DEF WriteScored, TypeOK, Goto, worldVars, schedVars, Memory, FileState, Written
  <2> QED BY <1>7, <2>3, <2>4 DEF WriteScored, GroundInv, Known, Grounded, worldVars
<1>8. CASE WriteExclusions(p)
  <2> DEFINE mem == [local[p] EXCEPT !.fixes = {}]
  <2>1. local' = [local EXCEPT ![p] = mem]
    BY <1>8 DEF WriteExclusions, TypeOK, Memory
  <2>2. mem \in Memory /\ Known(mem.statuses) /\ Grounded(mem.rows)
    BY DEF TypeOK, Memory, GroundInv, Grounded
  <2>3. /\ local' \in [Procs -> Memory]
        /\ \A q \in Procs : Known(local[q].statuses)' /\ Grounded(local[q].rows)'
    BY <1>8, <2>1, <2>2, MemoryAfter DEF WriteExclusions, worldVars
  <2>4. TypeOK'
    BY <1>8, <2>3 DEF WriteExclusions, TypeOK, Goto, worldVars, schedVars, Memory, FileState, Written
  <2> QED BY <1>8, <2>3, <2>4 DEF WriteExclusions, GroundInv, Known, Grounded, worldVars
<1>9. CASE Status(p)
  <2>1. TypeOK'
    <3>1. heartbeat' = heartbeat \/ \E status \in {"ok", "terminal"} : Beat(status)
      BY <1>9 DEF Status
    <3>2. heartbeat' \in [status : {"none", "working", "skipped_locked", "ok", "terminal"},
                          age : 0..Stale + 1]
      BY <3>1 DEF TypeOK, Beat, Stale
    <3> QED BY <1>9, <3>2 DEF Status, TypeOK, Goto, worldVars, schedVars
  <2> QED BY <1>9, <2>1, GroundUnchanged DEF Status, worldVars
<1>10. CASE Release(p)
  <2>1. /\ local' \in [Procs -> Memory]
        /\ \A q \in Procs : Known(local[q].statuses)' /\ Grounded(local[q].rows)'
    BY <1>10, EmptyMemoryKnown, MemoryAfter DEF Release, Exit, worldVars
  <2>2. TypeOK'
    BY <1>10, <2>1 DEF Release, ReleaseLock, Exit, TypeOK, Goto, worldVars, schedVars
  <2> QED BY <1>10, <2>1, <2>2 DEF Release, GroundInv, Known, Grounded, worldVars
<1> QED BY <1>1, <1>2, <1>3, <1>4, <1>5, <1>6, <1>7, <1>8, <1>9, <1>10 DEF Step

LEMMA KillCase ==
  ASSUME HarvestInv, NEW p \in Procs, Kill(p)
  PROVE  HarvestInv'
<1> USE DEF HarvestInv
<1>1. /\ local' \in [Procs -> Memory]
      /\ \A q \in Procs : Known(local[q].statuses)' /\ Grounded(local[q].rows)'
  BY EmptyMemoryKnown, MemoryAfter DEF Kill, Exit, worldVars
<1>2. faults' \in 0..MaxFaults
  BY BoundsAssumption DEF Kill, Fault, TypeOK
<1>3. pc' = [pc EXCEPT ![p] = "idle"] /\ UNCHANGED <<worldVars, lock, heartbeat, schedVars>>
  BY DEF Kill, Exit, Goto
<1>4. results' = results \/ results' = [state |-> "empty", statuses |-> NoStatuses]
  BY Zenon DEF Kill
<1>5. scored' = scored \/ scored' = [state |-> "empty", rows |-> {}]
  BY Zenon DEF Kill
<1>6. excluded' = excluded \/ excluded' = [state |-> "empty", fixes |-> {}]
  BY Zenon DEF Kill
<1>7. payload' = payload \/ payload' = [exists |-> FALSE, statuses |-> NoStatuses]
  BY Zenon DEF Kill
<1>8. /\ results' \in [state : FileState, statuses : [Universe -> Statuses]]
      /\ Known(results.statuses)'
  BY <1>3, <1>4, InitialStatusesType, WaitingKnown
     DEF TypeOK, FileState, GroundInv, Known, worldVars
<1>9. /\ payload' \in [exists : BOOLEAN, statuses : [Universe -> Statuses]]
      /\ Known(payload.statuses)'
  <2>1. CASE payload' = payload
    BY <1>3, <2>1 DEF TypeOK, GroundInv, Known, worldVars
  <2>2. CASE payload' = [exists |-> FALSE, statuses |-> NoStatuses]
    <3>1. payload' \in [exists : BOOLEAN, statuses : [Universe -> Statuses]]
      BY <2>2, InitialStatusesType
    <3>2. payload'.statuses = NoStatuses
      BY <2>2
    <3> QED BY <3>1, <3>2, WaitingKnown DEF Known, NoStatuses
  <2> QED BY <1>7, <2>1, <2>2
<1>10. scored' \in [state : FileState, rows : SUBSET Row] /\ Grounded(scored.rows)'
  BY <1>3, <1>5 DEF TypeOK, FileState, GroundInv, Grounded, worldVars
<1>11. excluded' \in [state : FileState, fixes : SUBSET Universe]
  BY <1>6 DEF TypeOK, FileState
<1>12. TypeOK'
  BY <1>1, <1>2, <1>3, <1>8, <1>9, <1>10, <1>11 DEF TypeOK, worldVars, schedVars
<1> QED BY <1>1, <1>3, <1>8, <1>9, <1>10, <1>12 DEF GroundInv, Known, worldVars

LEMMA PublishCase ==
  ASSUME HarvestInv, NEW f \in Universe, NEW s \in Statuses, Publish(f, s)
  PROVE  HarvestInv'
<1> USE DEF HarvestInv
<1>1. changes' \in [Universe -> 0..MaxChanges]
  BY BoundsAssumption DEF Publish, TypeOK
<1>2. provider' \in [Universe -> Statuses] /\ published' \subseteq Universe \X Results
  BY DEF Publish, TypeOK
<1>3. TypeOK'
  BY <1>1, <1>2 DEF Publish, TypeOK, fileVars, schedVars
<1>4. published \subseteq published'
  BY DEF Publish
<1>5. Known(provider)'
  BY <1>4 DEF Publish, Known, TypeOK, GroundInv
<1> QED BY <1>3, <1>4, <1>5 DEF Publish, GroundInv, Known, Grounded, fileVars

LEMMA TickCase ==
  ASSUME HarvestInv, Tick
  PROVE  HarvestInv'
<1> USE DEF HarvestInv
<1>1. \A n \in 0..Stale + 1 : AtMost(Stale + 1, n + 1) \in 0..Stale + 1
  BY DEF AtMost, Stale
<1>2. lock' \in [held : BOOLEAN, age : 0..Stale + 1, owner : Procs]
  BY <1>1 DEF Tick, TypeOK
<1>3. heartbeat' \in [status : {"none", "working", "skipped_locked", "ok", "terminal"},
                      age : 0..Stale + 1]
  BY <1>1 DEF Tick, TypeOK
<1>4. TypeOK'
  BY <1>2, <1>3 DEF Tick, TypeOK, Running, worldVars
<1> QED BY <1>4, GroundUnchanged DEF Tick, worldVars

LEMMA HarvestNext == HarvestInv /\ [Next]_vars => HarvestInv'
<1> SUFFICES ASSUME HarvestInv, [Next]_vars PROVE HarvestInv'
  OBVIOUS
<1> USE DEF HarvestInv
<1>1. ASSUME NEW p \in Procs, FetchFails(p) PROVE HarvestInv'
  <2>1. TypeOK'
    BY <1>1, BoundsAssumption DEF FetchFails, Fault, TypeOK, Goto, worldVars, fileVars, schedVars
  <2> QED BY <1>1, <2>1, GroundUnchanged DEF FetchFails, worldVars, fileVars
<1>2. ASSUME StartTask PROVE HarvestInv'
  <2>1. TypeOK'
    BY <1>2 DEF StartTask, Procs, TypeOK, Goto, worldVars, fileVars
  <2> QED BY <1>2, <2>1, GroundUnchanged DEF StartTask, worldVars, fileVars
<1>3. ASSUME WatchdogRestarts PROVE HarvestInv'
  <2>1. TypeOK'
    BY <1>3 DEF WatchdogRestarts, Procs, TypeOK, Goto, worldVars, fileVars
  <2> QED BY <1>3, <2>1, GroundUnchanged DEF WatchdogRestarts, worldVars, fileVars
<1>4. ASSUME WatchdogObserves PROVE HarvestInv'
  <2>1. TypeOK'
    BY <1>4 DEF WatchdogObserves, Procs, TypeOK, worldVars, fileVars
  <2> QED BY <1>4, <2>1, GroundUnchanged DEF WatchdogObserves, worldVars, fileVars
<1>5. ASSUME UNCHANGED vars PROVE HarvestInv'
  <2>1. TypeOK'
    BY <1>5 DEF vars, TypeOK, worldVars, fileVars, schedVars
  <2> QED BY <1>5, <2>1, GroundUnchanged DEF vars, worldVars, fileVars
<1> QED BY <1>1, <1>2, <1>3, <1>4, <1>5, StepCase, KillCase, TickCase, PublishCase
        DEF Next, Watchdog

LEMMA HarvestSound == HarvestInv => LedgerSound
<1> SUFFICES ASSUME HarvestInv PROVE LedgerSound
  OBVIOUS
<1>1. scored.rows \in SUBSET Row /\ Grounded(scored.rows)
  BY DEF HarvestInv, TypeOK, GroundInv
<1> QED BY <1>1, GroundedSound DEF LedgerSound, Ledger!LedgerSound

\* The variables keep their types, and only results are ever scored
\* (prospective_score_harvester_v1.py:167), whatever the faults.
THEOREM TypeCorrect == Spec => []TypeOK
<1>1. HarvestInv => TypeOK
  BY DEF HarvestInv
<1> QED BY <1>1, HarvestInit, HarvestNext, PTL DEF Spec

\* Whatever is in the scored ledger is the preregistered primary snapshot of its
\* fixture, made before the kickoff, once per result: for two racing cycles, cut
\* files and corrected results alike (prospective_score_harvester_v1.py:165-226).
THEOREM LedgerIsSound == Spec => []LedgerSound
<1> QED BY HarvestSound, HarvestInit, HarvestNext, PTL DEF Spec

\* Every scored row met a result the provider had declared final.
THEOREM ResultsPublished == Spec => []OnlyPublished
<1>1. HarvestInv => OnlyPublished
  BY DEF HarvestInv, GroundInv, Grounded, OnlyPublished
<1> QED BY <1>1, HarvestInit, HarvestNext, PTL DEF Spec

-----------------------------------------------------------------------------
(* One cycle at a time: the ledger is append-only *)

\* With the task alone, what a cycle is about to write keeps all it read.
Alone == /\ pc["watchdog"] = "idle"
         /\ pc["task"] = "score" => scored.rows \subseteq local["task"].rows

LEMMA AloneNext ==
  ASSUME Drivers = {"task"}
  PROVE  HarvestInv /\ Alone /\ [Next]_vars => Alone'
<1> SUFFICES ASSUME HarvestInv, Alone, [Next]_vars PROVE Alone'
  OBVIOUS
<1>1. pc \in [Procs -> {"idle", "start", "lock", "decide", "fetch", "results", "harvest",
                         "score", "exclude", "status", "release"}]
      /\ local \in [Procs -> Memory] /\ "task" \in Procs /\ "watchdog" \in Procs
  BY DEF HarvestInv, TypeOK, Procs
<1>2. ASSUME NEW p \in Procs, Harvest(p) PROVE Alone'
  <2>1. p = "task"
    BY <1>2 DEF Harvest, Alone, Procs
  <2>2. CASE HarvestRaises
    BY <1>1, <1>2, <2>1, <2>2 DEF Harvest, Alone, Goto, fileVars
  <2>3. CASE ~HarvestRaises
    <3>1. local'["task"].rows = Merge(scored.rows, ScoredNow(results.statuses))
      BY <1>1, <1>2, <2>1, <2>3 DEF Harvest, Memory
    <3>2. scored.rows \subseteq local'["task"].rows
      BY <3>1 DEF Merge
    <3> QED BY <1>1, <1>2, <2>1, <3>2 DEF Harvest, Alone, Goto, fileVars
  <2> QED BY <2>2, <2>3
<1>3. ASSUME NEW p \in Procs, WriteScored(p) PROVE Alone'
  BY <1>1, <1>3 DEF WriteScored, Alone, Goto, Procs
<1>4. ASSUME NEW p \in Procs, Kill(p) PROVE Alone'
  <2>1. pc' = [pc EXCEPT ![p] = "idle"] /\ p = "task"
    BY <1>4 DEF Kill, Exit, Goto, Alone, Procs
  <2> QED BY <1>1, <2>1 DEF Alone
<1>5. ASSUME NEW p \in Procs,
             AcquireCheck(p) \/ AcquireWrite(p) \/ DecideRefresh(p) \/ Fetch(p) \/ WriteResults(p)
               \/ WriteExclusions(p) \/ Status(p) \/ Release(p) \/ FetchFails(p)
      PROVE  Alone'
  <2>1. scored' = scored /\ p = "task" /\ pc'["watchdog"] = "idle" /\ pc'["task"] # "score"
    BY <1>1, <1>5 DEF AcquireCheck, AcquireWrite, DecideRefresh, Fetch, WriteResults,
       WriteExclusions, Status, Release, Exit, FetchFails, Goto, fileVars, Alone, Procs
  <2> QED BY <2>1 DEF Alone
<1>6. ASSUME StartTask PROVE Alone'
  BY <1>1, <1>6 DEF StartTask, Startable, Alone, Goto, fileVars
<1>7. ASSUME Watchdog PROVE Alone'
  BY <1>7 DEF Watchdog, WatchdogRestarts, WatchdogObserves, Startable
<1>8. ASSUME Tick PROVE Alone'
  BY <1>8 DEF Tick, Alone
<1>9. ASSUME NEW f \in Universe, NEW s \in Statuses, Publish(f, s) PROVE Alone'
  BY <1>9 DEF Publish, Alone, fileVars
<1>10. ASSUME UNCHANGED vars PROVE Alone'
  BY <1>10 DEF vars, Alone, fileVars
<1> QED BY <1>2, <1>3, <1>4, <1>5, <1>6, <1>7, <1>8, <1>9, <1>10 DEF Next, Step

\* While the scheduled task is the only driver and no write is cut short, the
\* scored ledger is append-only with first-write-wins keys
\* (prospective_score_harvester_v1.py:4-5), killed cycles included.
THEOREM LedgerImplemented ==
  ASSUME Drivers = {"task"}, "cut" \notin FaultKinds
  PROVE  Spec => LedgerSpec
<1>1. Init => Alone
  BY DEF Init, Alone, Procs
<1>2. Init => Ledger!Init
  BY HarvestSound, HarvestInit DEF LedgerSound, Ledger!LedgerSound, Ledger!Init
<1>3. HarvestInv' => LedgerSound'
  BY HarvestSound, PTL
<1>4. HarvestInv' /\ Alone /\ [Next]_vars => [Ledger!Extend]_(scored.rows)
  <2> SUFFICES ASSUME HarvestInv', Alone, [Next]_vars, scored'.rows # scored.rows
               PROVE  Ledger!Extend
    OBVIOUS
  <2>1. scored' # scored
    OBVIOUS
  <2>2. PICK p \in Procs : WriteScored(p)
    BY <2>1 DEF Next, Step, AcquireCheck, AcquireWrite, DecideRefresh, Fetch, WriteResults,
       Harvest, WriteExclusions, Status, Release, FetchFails, Kill, Fault, StartTask, Watchdog,
       WatchdogRestarts, WatchdogObserves, Tick, Publish, vars, fileVars
  <2>3. scored.rows \subseteq scored'.rows
    BY <2>2 DEF WriteScored, Alone, Procs
  <2>4. LedgerSound'
    BY <1>3
  <2> QED BY <2>3, <2>4 DEF Ledger!Extend, LedgerSound, Ledger!LedgerSound, Ledger!KeysUnique
<1> QED BY <1>1, <1>2, <1>4, HarvestInit, HarvestNext, AloneNext, PTL
        DEF Spec, LedgerSpec, Ledger!Spec

\* The cycle is killed while it writes the scored CSV (prospective_score_harvester_v1.py:226).
KilledInWrite == \E p \in Procs : Kill(p) /\ pc[p] = "score"

\* With the task alone, rows leave the ledger in that one way, cut writes included:
\* every other step, of any other cycle, killed or not, keeps what is scored.
RowsKept == [][Ledger!Extend \/ KilledInWrite]_(scored.rows)

\* Scored rows outlive everything but a kill inside to_csv, when the task runs alone.
THEOREM RowsLostOnlyInCutWrite ==
  ASSUME Drivers = {"task"}
  PROVE  Spec => RowsKept
<1>1. Init => Alone
  BY DEF Init, Alone, Procs
<1>2. HarvestInv' => LedgerSound'
  BY HarvestSound, PTL
<1>3. HarvestInv' /\ Alone /\ [Next]_vars => [Ledger!Extend \/ KilledInWrite]_(scored.rows)
  <2> SUFFICES ASSUME HarvestInv', Alone, [Next]_vars, scored'.rows # scored.rows,
                      ~KilledInWrite
               PROVE  Ledger!Extend
    OBVIOUS
  <2>1. scored' # scored
    OBVIOUS
  <2>2. ASSUME NEW p \in Procs, Kill(p) PROVE scored' = scored
    BY <2>2 DEF Kill, KilledInWrite
  <2>3. PICK p \in Procs : WriteScored(p)
    BY <2>1, <2>2 DEF Next, Step, AcquireCheck, AcquireWrite, DecideRefresh, Fetch, WriteResults,
       Harvest, WriteExclusions, Status, Release, FetchFails, StartTask, Watchdog,
       WatchdogRestarts, WatchdogObserves, Tick, Publish, vars, fileVars
  <2>4. scored.rows \subseteq scored'.rows
    BY <2>3 DEF WriteScored, Alone, Procs
  <2>5. LedgerSound'
    BY <1>2
  <2> QED BY <2>4, <2>5 DEF Ledger!Extend, LedgerSound, Ledger!LedgerSound, Ledger!KeysUnique
<1> QED BY <1>1, <1>3, HarvestInit, HarvestNext, AloneNext, PTL DEF Spec, RowsKept

-----------------------------------------------------------------------------
(* The wedge: a scored CSV without a column *)

\* The scored CSV cannot be read and no cycle is about to replace it: after a first
\* harvest that scored nothing, or a write that was cut before its header.
Wedged == /\ scored = [state |-> "empty", rows |-> {}]
          /\ \A p \in Procs : pc[p] # "score"

\* From there on nothing is ever scored again, by either task, whatever is published;
\* and no cycle reports "ok" or "terminal" any more (prospective_score_harvester_v1.py:226,
\* run_prospective_score_harvester.py:92).
StaysWedged ==
  [][Wedged => /\ Wedged'
               /\ heartbeat'.status \in {"ok", "terminal"}
                    => heartbeat'.status = heartbeat.status]_vars

\* The wedge, once reached, is never left: by any steps of tasks, watchdogs and kills.
THEOREM WedgeIsPermanent == Spec => StaysWedged /\ [](Wedged => []Wedged)
<1>1. ASSUME HarvestInv, [Next]_vars, Wedged
      PROVE  /\ Wedged'
             /\ heartbeat'.status \in {"ok", "terminal"} => heartbeat'.status = heartbeat.status
  <2> USE DEF Wedged
  <2>1. pc \in [Procs -> {"idle", "start", "lock", "decide", "fetch", "results", "harvest",
                           "score", "exclude", "status", "release"}]
    BY <1>1 DEF HarvestInv, TypeOK
  <2>2. HarvestRaises /\ StatusRaises
    BY <1>1 DEF HarvestRaises, StatusRaises
  <2>3. ASSUME NEW p \in Procs, AcquireCheck(p) \/ AcquireWrite(p)
        PROVE  /\ Wedged'
               /\ heartbeat' = heartbeat \/ heartbeat'.status \in {"skipped_locked", "working"}
    BY <1>1, <2>1, <2>3 DEF AcquireCheck, AcquireWrite, Goto, Beat
  <2>4. ASSUME NEW p \in Procs,
               DecideRefresh(p) \/ Fetch(p) \/ WriteResults(p) \/ Harvest(p)
                 \/ WriteExclusions(p) \/ Status(p) \/ Release(p) \/ FetchFails(p)
        PROVE  Wedged' /\ heartbeat' = heartbeat
    BY <1>1, <2>1, <2>2, <2>4 DEF DecideRefresh, Fetch, WriteResults, Harvest, WriteExclusions,
       Status, Release, Exit, FetchFails, Goto, fileVars
  <2>5. ASSUME NEW p \in Procs, WriteScored(p) PROVE FALSE
    BY <1>1, <2>5 DEF WriteScored
  <2>6. ASSUME NEW p \in Procs, Kill(p) PROVE Wedged' /\ heartbeat' = heartbeat
    <3>1. scored' = scored /\ pc' = [pc EXCEPT ![p] = "idle"]
      BY <1>1, <2>6 DEF Kill, Exit, Goto
    <3> QED BY <1>1, <2>1, <2>6, <3>1 DEF Kill
  <2>7. CASE StartTask \/ Watchdog
    BY <1>1, <2>1, <2>7 DEF StartTask, Watchdog, WatchdogRestarts, WatchdogObserves, Goto, fileVars
  <2>8. CASE Tick
    BY <1>1, <2>8 DEF Tick, HarvestInv, TypeOK
  <2>9. CASE \E f \in Universe, s \in Statuses : Publish(f, s)
    BY <1>1, <2>9 DEF Publish, fileVars
  <2>10. CASE UNCHANGED vars
    BY <1>1, <2>10 DEF vars, fileVars
  <2> QED BY <1>1, <2>3, <2>4, <2>5, <2>6, <2>7, <2>8, <2>9, <2>10 DEF Next, Step
<1>2. HarvestInv /\ [Next]_vars
        => [Wedged => /\ Wedged'
                      /\ heartbeat'.status \in {"ok", "terminal"}
                           => heartbeat'.status = heartbeat.status]_vars
  BY <1>1
<1>3. HarvestInv /\ [Next]_vars => (Wedged => Wedged')
  BY <1>1
<1> QED BY <1>2, <1>3, HarvestInit, HarvestNext, PTL DEF Spec, StaysWedged
\* A task that harvests before the first result is published is wedged by its very first
\* write: no result of the whole cohort will be scored (with StaysWedged).
EarlyHarvestWedges ==
  [][published = {} /\ (\E p \in Procs : WriteScored(p)) => Wedged']_vars

\* An empty first harvest writes the CSV that wedges the harvester
\* (prospective_score_harvester_v1.py:226).
THEOREM WedgedBeforeFirstResult ==
  ASSUME Drivers = {"task"}
  PROVE  Spec => EarlyHarvestWedges
<1>1. ASSUME HarvestInv, Alone, published = {}, NEW p \in Procs, WriteScored(p) PROVE Wedged'
  <2>1. Grounded(local[p].rows) /\ p = "task"
    BY <1>1 DEF HarvestInv, GroundInv, WriteScored, Alone, Procs
  <2>2. local[p].rows = {}
    BY <1>1, <2>1 DEF Grounded
  <2>3. scored' = [state |-> "empty", rows |-> {}]
    BY <1>1, <2>2 DEF WriteScored, Written
  <2> QED BY <1>1, <2>1, <2>3 DEF WriteScored, Goto, Wedged, Alone, HarvestInv, TypeOK, Procs
<1>2. HarvestInv /\ Alone
        => [published = {} /\ (\E p \in Procs : WriteScored(p)) => Wedged']_vars
  BY <1>1
<1>3. Init => Alone
  BY DEF Init, Alone, Procs
<1> QED BY <1>2, <1>3, HarvestInit, HarvestNext, AloneNext, PTL DEF Spec, EarlyHarvestWedges

-----------------------------------------------------------------------------
(* The terminal status *)

\* Every fixture is scored or on the exclusion list.
Covers(rows, fixes) == \A f \in Universe : f \in fixes \/ \E row \in rows : row.fix = f

\* A harvest covers all fixtures, those still to be played as well: they are excluded
\* for want of a verified result (prospective_score_harvester_v1.py:168).
LEMMA HarvestCovers ==
  ASSUME NEW st, NEW prior
  PROVE  Covers(Merge(prior, ScoredNow(st)), ExcludedNow(st))
<1> SUFFICES ASSUME NEW f \in Universe, f \notin ExcludedNow(st)
             PROVE  \E row \in Merge(prior, ScoredNow(st)) : row.fix = f
  BY DEF Covers
<1>1. Primary(f) # {} /\ \A q \in Primary(f) : st[f] \in Results /\ Passes(q)
  BY DEF ExcludedNow, SelectionExcluded
<1>2. PICK q \in Primary(f) : TRUE
  BY <1>1
<1>3. q.fix = f /\ Passes(q) /\ st[f] \in Results
  BY <1>1, PrimaryProperties
<1> DEFINE row == ScoreRow(q, st[q.fix], GoalText(st))
<1>4. row \in ScoredNow(st)
  BY <1>3 DEF ScoredNow
<1>5. row.fix = f
  BY <1>3 DEF ScoreRow
<1> HIDE DEF row
<1>6. CASE row \in Merge(prior, ScoredNow(st))
  BY <1>5, <1>6
<1>7. CASE row \notin Merge(prior, ScoredNow(st))
  <2>1. PICK o \in prior : ScoreKey(o) = ScoreKey(row)
    BY <1>4, <1>7 DEF Merge
  <2> QED BY <1>5, <2>1 DEF Merge, ScoreKey
<1> QED BY <1>6, <1>7

\* From its harvest on, a cycle that runs alone carries that cover to its status.
Covering ==
  /\ pc["task"] = "score" => Covers(local["task"].rows, local["task"].fixes)
  /\ pc["task"] = "exclude" => Covers(scored.rows, local["task"].fixes)
  /\ pc["task"] = "status" /\ results.state = "ok" /\ scored.state # "empty"
       => Covers(scored.rows, excluded.fixes)

LEMMA CoveringNext ==
  ASSUME Drivers = {"task"}
  PROVE  HarvestInv /\ Alone /\ Covering /\ [Next]_vars => Covering'
<1> SUFFICES ASSUME HarvestInv, Alone, Covering, [Next]_vars PROVE Covering'
  OBVIOUS
<1>1. pc \in [Procs -> {"idle", "start", "lock", "decide", "fetch", "results", "harvest",
                         "score", "exclude", "status", "release"}]
      /\ local \in [Procs -> Memory] /\ "task" \in Procs /\ "watchdog" \in Procs
  BY DEF HarvestInv, TypeOK, Procs
<1>2. ASSUME NEW p \in Procs, pc[p] # "idle" PROVE p = "task"
  BY <1>2 DEF Alone, Procs
<1>3. ASSUME NEW p \in Procs, Harvest(p) PROVE Covering'
  <2>1. p = "task"
    BY <1>2, <1>3 DEF Harvest
  <2>2. CASE HarvestRaises
    BY <1>1, <1>3, <2>1, <2>2 DEF Harvest, HarvestRaises, Covering, Goto, fileVars
  <2>3. CASE ~HarvestRaises
    <3>1. /\ local'["task"].rows = Merge(scored.rows, ScoredNow(results.statuses))
          /\ local'["task"].fixes = ExcludedNow(results.statuses)
      BY <1>1, <1>3, <2>1, <2>3 DEF Harvest, Memory
    <3>2. Covers(local'["task"].rows, local'["task"].fixes)
      BY <3>1, HarvestCovers
    <3>3. pc'["task"] = "score"
      BY <1>1, <1>3, <2>1, <2>3 DEF Harvest, Goto
    <3> QED BY <3>2, <3>3 DEF Covering, Covers
  <2> QED BY <2>2, <2>3
<1>4. ASSUME NEW p \in Procs, WriteScored(p) PROVE Covering'
  <2>1. p = "task"
    BY <1>2, <1>4 DEF WriteScored
  <2> QED BY <1>1, <1>4, <2>1 DEF WriteScored, Covering, Covers, Goto
<1>5. ASSUME NEW p \in Procs, WriteExclusions(p) PROVE Covering'
  <2>1. p = "task"
    BY <1>2, <1>5 DEF WriteExclusions
  <2>2. Covers(scored'.rows, excluded'.fixes) /\ pc'["task"] = "status"
    BY <1>1, <1>5, <2>1 DEF WriteExclusions, Covering, Goto
  <2> QED BY <2>2 DEF Covering, Covers
<1>6. ASSUME NEW p \in Procs, Kill(p) PROVE Covering'
  <2>1. p = "task" /\ pc' = [pc EXCEPT ![p] = "idle"]
    BY <1>2, <1>6 DEF Kill, Exit, Goto
  <2> QED BY <1>1, <2>1 DEF Covering
<1>7. ASSUME NEW p \in Procs,
             AcquireCheck(p) \/ AcquireWrite(p) \/ DecideRefresh(p) \/ Fetch(p) \/ WriteResults(p)
               \/ Status(p) \/ Release(p) \/ FetchFails(p)
      PROVE  Covering'
  <2>1. p = "task"
    BY <1>2, <1>7 DEF AcquireCheck, AcquireWrite, DecideRefresh, Fetch, WriteResults, Status,
       Release, FetchFails
  <2>2. pc'["task"] \notin {"score", "exclude", "status"}
    BY <1>1, <1>7, <2>1 DEF AcquireCheck, AcquireWrite, DecideRefresh, Fetch, WriteResults,
       Status, Release, Exit, FetchFails, Goto
  <2> QED BY <2>2 DEF Covering
<1>8. CASE UNCHANGED <<scored, results, excluded, local, pc>>
  BY <1>8 DEF Covering, Covers
<1>9. CASE StartTask
  <2>1. pc'["task"] = "start"
    BY <1>1, <1>9 DEF StartTask, Goto
  <2> QED BY <2>1 DEF Covering
<1>10. CASE Watchdog
  BY <1>10 DEF Watchdog, WatchdogRestarts, WatchdogObserves, Startable
<1>11. CASE Tick \/ \E f \in Universe, s \in Statuses : Publish(f, s)
  BY <1>8, <1>11 DEF Tick, Publish, fileVars
<1>12. CASE UNCHANGED vars
  BY <1>8, <1>12 DEF vars, fileVars
<1> QED BY <1>3, <1>4, <1>5, <1>6, <1>7, <1>9, <1>10, <1>11, <1>12 DEF Next, Step

\* "terminal" does not say that the cohort is over (run_prospective_score_harvester.py:92):
\* the task's first status on readable files, with results on disk, is terminal however
\* many fixtures are still to be played; and a terminal harvester is one its watchdog
\* no longer restarts.
TerminalAtOnce ==
  [][\A p \in Procs : Status(p) /\ ~StatusRaises /\ results.state = "ok"
                        => heartbeat'.status = "terminal"]_vars

\* The terminal decision (run_prospective_score_harvester.py:92) does not wait for the
\* fixtures still to be played.
THEOREM TerminalAtFirstStatus ==
  ASSUME Drivers = {"task"}
  PROVE  Spec => TerminalAtOnce
<1>1. Init => Alone /\ Covering
  BY DEF Init, Alone, Covering, Procs
<1>2. ASSUME Alone, Covering, NEW p \in Procs, Status(p), ~StatusRaises, results.state = "ok"
      PROVE  heartbeat'.status = "terminal"
  <2>1. p = "task" /\ pc["task"] = "status" /\ scored.state # "empty"
    BY <1>2 DEF Alone, Status, StatusRaises, Procs
  <2>2. Universe \subseteq Resolved
    BY <1>2, <2>1 DEF Covering, Covers, Resolved
  <2> QED BY <1>2, <2>2 DEF Status, Beat
<1>3. Alone /\ Covering
        => [\A p \in Procs : Status(p) /\ ~StatusRaises /\ results.state = "ok"
                               => heartbeat'.status = "terminal"]_vars
  BY <1>2
<1> QED BY <1>1, <1>3, HarvestInit, HarvestNext, AloneNext, CoveringNext, PTL
        DEF Spec, TerminalAtOnce
=============================================================================
