------------------------- MODULE LiveSupervisorProofs -------------------------
(***************************************************************************)
(* Proofs about the live supervisor, for every set of fixtures and         *)
(* instances, every ceiling and duration, and every number of faults.      *)
(***************************************************************************)
EXTENDS LiveSupervisor, FiniteSetTheorems, TLAPS

LEMMA FaultType ==
  ASSUME TypeOK, NEW kind, Fault(kind)
  PROVE  /\ left' \in 0..MaxFaults /\ faults' \in [AllFaults -> Nat] /\ kind \in AllFaults
         /\ faults' = [faults EXCEPT ![kind] = @ + 1]
         /\ faults'[kind] = faults[kind] + 1
         /\ \A k \in AllFaults : faults'[k] >= faults[k]
<1>1. kind \in AllFaults /\ faults \in [AllFaults -> Nat]
  BY SupervisorBounds DEF Fault, TypeOK
<1>2. left' \in 0..MaxFaults
  BY SupervisorBounds DEF Fault, TypeOK
<1> QED BY <1>1, <1>2 DEF Fault

LEMMA FreshType ==
  ASSUME NEW start \in Int
  PROVE  /\ FreshState(start) \in State
         /\ FreshState(start).used = 0
         /\ \A m \in Matches : FreshState(start).done[m] = {}
BY DEF FreshState, State, Never

LEMMA StateUpdates ==
  ASSUME TypeOK, NEW st \in State
  PROVE  /\ [st EXCEPT !.fd = now] \in State
         /\ Updated(st) \in State
         /\ Spent(st) \in State /\ Spent(st).used = st.used + 1
         /\ Spent(st).done = st.done /\ Spent(st).started = st.started
         /\ [st EXCEPT !.done = [m \in Matches |-> @[m] \cup DueTypes(m, @[m])]] \in State
<1>1. /\ [st EXCEPT !.fd = now] \in State
      /\ Updated(st) \in State
  <2>1. now \in Int /\ st.elo \cup Finished \in SUBSET Matches
    BY DEF State, Finished, TypeOK
  <2> QED BY <2>1 DEF State, Updated
<1>2. /\ Spent(st) \in State /\ Spent(st).used = st.used + 1
      /\ Spent(st).done = st.done /\ Spent(st).started = st.started
  <2> DEFINE new == [st EXCEPT !.used = @ + 1, !.odds = now]
  <2>1. st.used + 1 \in Nat /\ now \in Int
    BY DEF State, TypeOK
  <2>2. /\ new \in State /\ new.used = st.used + 1
        /\ new.done = st.done /\ new.started = st.started
    BY <2>1 DEF State
  <2> QED BY <2>2 DEF Spent
<1>3. [st EXCEPT !.done = [m \in Matches |-> @[m] \cup DueTypes(m, @[m])]] \in State
  <2>1. [m \in Matches |-> st.done[m] \cup DueTypes(m, st.done[m])]
          \in [Matches -> SUBSET Types]
    BY DEF State, DueTypes
  <2> QED BY <2>1 DEF State
<1> QED BY <1>1, <1>2, <1>3

\* A directory's record after each of the writes to it.
DirRecord == [file : {"none", "ok", "torn"}, saved : State, tx : [Matches -> Nat]]

LEMMA DirUpdates ==
  ASSUME NEW d \in DirRecord
  PROVE  /\ \A new : [d EXCEPT !.tx = Recorded(@, new)] \in DirRecord
         /\ \A st \in State : [d EXCEPT !.file = "ok", !.saved = st] \in DirRecord
         /\ [d EXCEPT !.file = "torn"] \in DirRecord
<1>1. ASSUME NEW new PROVE [d EXCEPT !.tx = Recorded(@, new)] \in DirRecord
  <2>1. Recorded(d.tx, new) \in [Matches -> Nat]
    BY DEF Recorded, DirRecord
  <2> QED BY <2>1 DEF DirRecord
<1>2. ASSUME NEW st \in State PROVE [d EXCEPT !.file = "ok", !.saved = st] \in DirRecord
  BY DEF DirRecord
<1>3. [d EXCEPT !.file = "torn"] \in DirRecord
  BY DEF DirRecord
<1> QED BY <1>1, <1>2, <1>3

\* A write to one instance's state keeps the states of all of them typed.
LEMMA MemUpdate ==
  ASSUME TypeOK, NEW i \in Instances, NEW st \in State, mem' = [mem EXCEPT ![i] = st]
  PROVE  mem' \in [Instances -> State]
BY DEF TypeOK

LEMMA DirOfLive ==
  ASSUME TypeOK, NEW i \in Instances, Live(i)
  PROVE  dir[i] \in Sessions /\ dir[i] <= opened
<1>1. dir[i] \in 1..opened /\ opened \in 0..MaxSessions
  BY DEF TypeOK
<1> QED BY <1>1, SupervisorBounds DEF Sessions

LEMMA DueRowsType ==
  ASSUME TypeOK, NEW i \in Instances
  PROVE  DueRows(i) \subseteq Row
BY DEF TypeOK, DueRows, Row

\* A launch changes one instance, which starts a round in a directory with a state.
LEMMA BeginType ==
  ASSUME TypeOK, NEW i \in Instances, NEW s \in Sessions, NEW state \in State,
         Begin(i, s, state)
  PROVE  /\ pc' \in [Instances -> Labels] /\ mem' \in [Instances -> State]
         /\ dir' \in [Instances -> 0..MaxSessions] /\ wake' \in [Instances -> Int]
         /\ pc'[i] = "poll" /\ mem'[i] = state /\ dir'[i] = s
         /\ \A j \in Instances \ {i} : pc'[j] = pc[j] /\ mem'[j] = mem[j] /\ dir'[j] = dir[j]
BY DEF TypeOK, Begin, Labels, Sessions

LEMMA DiesType ==
  ASSUME TypeOK, NEW i \in Instances, Dies(i)
  PROVE  /\ pc' \in [Instances -> Labels] /\ mem' \in [Instances -> State]
         /\ dir' \in [Instances -> 0..MaxSessions] /\ wake' \in [Instances -> Int]
         /\ snap' \in [Instances -> Int] /\ merged' \in [Instances -> SUBSET Row]
         /\ pc'[i] = "off"
         /\ \A j \in Instances \ {i} : /\ pc'[j] = pc[j] /\ mem'[j] = mem[j]
                                       /\ dir'[j] = dir[j] /\ merged'[j] = merged[j]
<1>1. FreshState(0) \in State
  BY FreshType
<1>2. 0 \in 0..MaxSessions /\ Never \in Int
  BY SupervisorBounds DEF Never
<1> QED BY <1>1, <1>2 DEF TypeOK, Dies, Labels

-----------------------------------------------------------------------------
(* Type correctness *)

\* A directory that has not been opened holds nothing and was charged nothing, so
\* the latest session with a state.json is one that exists.
Unopened == \A s \in Sessions : s > opened => dirs[s] = NoDir /\ billed[s] = 0

TypeInv == TypeOK /\ Unopened

LEMMA TypeInit == Init => TypeInv
<1> SUFFICES ASSUME Init PROVE TypeInv
  OBVIOUS
<1>1. FreshState(0) \in State /\ Never \in Int
  BY FreshType DEF Never
<1>2. NoDir \in DirRecord
  BY <1>1 DEF NoDir, DirRecord
<1> QED BY <1>1, <1>2, SupervisorBounds DEF Init, TypeInv, TypeOK, Unopened, Labels, Live, DirRecord

\* An instance that runs works in a directory that exists.
LivesInDir == \A i \in Instances : Live(i) => dir[i] \in 1..opened

LEMMA TypeNext == TypeInv /\ [Next]_vars => TypeInv'
<1> SUFFICES ASSUME TypeOK, Unopened, [Next]_vars PROVE TypeOK' /\ Unopened'
  BY DEF TypeInv
<1> USE SupervisorBounds
<1>0. ASSUME NEW i \in Instances, NEW label \in Labels, Goto(i, label),
             UNCHANGED <<dir, opened>>, Live(i)
      PROVE  pc' \in [Instances -> Labels] /\ LivesInDir'
  BY <1>0 DEF TypeOK, Goto, Live, LivesInDir
<1>1. ASSUME NEW i \in Instances, LaunchFresh(i) PROVE TypeOK' /\ Unopened'
  <2>1. opened + 1 \in Sessions /\ now \in Int /\ opened' = opened + 1
    BY <1>1 DEF LaunchFresh, TypeOK, Sessions
  <2>2. /\ pc' \in [Instances -> Labels] /\ mem' \in [Instances -> State]
        /\ dir' \in [Instances -> 0..MaxSessions] /\ wake' \in [Instances -> Int]
        /\ dir'[i] = opened + 1
        /\ \A j \in Instances \ {i} : pc'[j] = pc[j] /\ dir'[j] = dir[j]
    BY <1>1, <2>1, FreshType, BeginType DEF LaunchFresh
  <2>3. left' \in 0..MaxFaults /\ faults' \in [AllFaults -> Nat]
    BY <1>1, FaultType DEF LaunchFresh, MayLaunch, NoFault, faultVars, TypeOK
  <2>4. LivesInDir'
    BY <2>1, <2>2 DEF LivesInDir, TypeOK, Live
  <2>5. opened' \in 0..MaxSessions
    BY <2>1 DEF Sessions
  <2>6. UNCHANGED <<now, snap, merged, dirs, pred, raw, other, billed>>
    BY <1>1 DEF LaunchFresh
  <2>7. Unopened'
    BY <2>1, <2>6 DEF Unopened, TypeOK, Sessions
  <2> QED BY <2>2, <2>3, <2>4, <2>5, <2>6, <2>7 DEF TypeOK, LivesInDir, DirRecord
<1>2. ASSUME NEW i \in Instances, LaunchResume(i) PROVE TypeOK' /\ Unopened'
  <2>1. PICK s \in Sessions : /\ Latest(s) /\ dirs[s].file = "ok" /\ Begin(i, s, dirs[s].saved)
    BY <1>2 DEF LaunchResume
  <2>2. dirs[s].saved \in State
    BY DEF TypeOK
  <2>3. /\ pc' \in [Instances -> Labels] /\ mem' \in [Instances -> State]
        /\ dir' \in [Instances -> 0..MaxSessions] /\ wake' \in [Instances -> Int]
        /\ dir'[i] = s
        /\ \A j \in Instances \ {i} : pc'[j] = pc[j] /\ dir'[j] = dir[j]
    BY <2>1, <2>2, BeginType
  <2>4. left' \in 0..MaxFaults /\ faults' \in [AllFaults -> Nat]
    BY <1>2, FaultType DEF LaunchResume, MayLaunch, NoFault, faultVars, TypeOK
  <2>5. UNCHANGED <<now, snap, merged, fileVars, other, billed>>
    BY <1>2 DEF LaunchResume
  <2>6. s \in 1..opened
    <3>1. opened \in 0..MaxSessions /\ MaxSessions \in Nat
      BY SupervisorBounds DEF TypeOK
    <3>2. s > opened => dirs[s].file = "none"
      BY DEF Unopened, NoDir
    <3> QED BY <2>1, <3>1, <3>2 DEF Sessions
  <2>7. LivesInDir'
    BY <2>3, <2>5, <2>6 DEF LivesInDir, TypeOK, Live, fileVars
  <2> QED BY <2>3, <2>4, <2>5, <2>7 DEF TypeOK, LivesInDir, Unopened, fileVars
<1>3. ASSUME NEW i \in Instances, SkipPoll(i) \/ Finalize(i) \/ CheckOdds(i)
      PROVE  TypeOK' /\ Unopened'
  <2>1. PICK label \in Labels : Goto(i, label)
    BY <1>3 DEF SkipPoll, Finalize, CheckOdds, Labels
  <2>2. UNCHANGED <<now, mem, dir, wake, snap, merged, fileVars, other, billed, faultVars>>
    BY <1>3 DEF SkipPoll, Finalize, CheckOdds
  <2>3. Live(i)
    BY <1>3 DEF SkipPoll, Finalize, CheckOdds, PollDue, At, Live
  <2>4. pc' \in [Instances -> Labels] /\ LivesInDir'
    BY <2>1, <2>2, <2>3, <1>0 DEF fileVars
  <2> QED BY <2>2, <2>4 DEF TypeOK, LivesInDir, Unopened, fileVars, faultVars
<1>4. ASSUME NEW i \in Instances, PollResults(i) PROVE TypeOK' /\ Unopened'
  <2>1. pc' \in [Instances -> Labels] /\ LivesInDir'
    BY <1>4, <1>0 DEF PollResults, PollDue, At, Live, Labels
  <2>2. mem' \in [Instances -> State]
    <3>1. mem[i] \in State
      BY DEF TypeOK
    <3>2. mem' = [mem EXCEPT ![i] = Updated(mem[i])]
      BY <1>4 DEF PollResults
    <3>3. Updated(mem[i]) \in State
      BY <3>1, StateUpdates
    <3> QED BY <3>2, <3>3, MemUpdate
  <2>3. dir[i] \in Sessions /\ dir[i] <= opened
    BY <1>4, DirOfLive DEF PollResults, PollDue, At, Live
  <2>4. dirs' \in [Sessions -> DirRecord]
    <3>1. dirs \in [Sessions -> DirRecord]
      BY DEF TypeOK, DirRecord
    <3>2. dirs[dir[i]] \in DirRecord
      BY <2>3, <3>1
    <3>3. [dirs[dir[i]] EXCEPT !.tx = Recorded(@, Finished \ mem[i].elo)] \in DirRecord
      BY <3>2, DirUpdates
    <3> QED BY <1>4, <2>3, <3>1, <3>3 DEF PollResults
  <2>5. Unopened'
    BY <1>4, <2>3 DEF PollResults, Unopened, Sessions, TypeOK
  <2> QED BY <1>4, <2>1, <2>2, <2>4, <2>5 DEF PollResults, TypeOK, LivesInDir, DirRecord, faultVars
<1>5. ASSUME NEW i \in Instances, PollFails(i) PROVE TypeOK' /\ Unopened'
  <2>1. pc' \in [Instances -> Labels] /\ LivesInDir'
    BY <1>5, <1>0 DEF PollFails, PollDue, At, Live, Labels, fileVars
  <2>2. mem' \in [Instances -> State]
    <3>1. mem[i] \in State /\ mem \in [Instances -> State]
      BY DEF TypeOK
    <3>2. mem' = mem \/ mem' = [mem EXCEPT ![i] = [mem[i] EXCEPT !.fd = now]]
      BY <1>5 DEF PollFails
    <3> QED BY <3>1, <3>2, StateUpdates, MemUpdate
  <2>3. left' \in 0..MaxFaults /\ faults' \in [AllFaults -> Nat]
    BY <1>5, FaultType DEF PollFails
  <2> QED BY <1>5, <2>1, <2>2, <2>3 DEF PollFails, TypeOK, LivesInDir, Unopened, fileVars
<1>6. ASSUME NEW i \in Instances, Response(i) \/ Rejected(i) \/ NoResponse(i)
      PROVE  TypeOK' /\ Unopened'
  <2>1. PICK label \in Labels : Goto(i, label)
    BY <1>6 DEF Response, Rejected, NoResponse, Labels
  <2>2. Live(i) /\ UNCHANGED <<now, dir, wake, merged, opened, dirs, pred, other>>
    BY <1>6 DEF Response, Rejected, NoResponse, At, Live, fileVars
  <2>3. pc' \in [Instances -> Labels] /\ LivesInDir'
    BY <2>1, <2>2, <1>0
  <2>4. dir[i] \in Sessions /\ dir[i] <= opened
    BY <2>2, DirOfLive
  <2>5. mem' \in [Instances -> State]
    <3>1. mem[i] \in State /\ mem \in [Instances -> State]
      BY DEF TypeOK
    <3>2. mem' = mem \/ mem' = [mem EXCEPT ![i] = Spent(mem[i])]
      BY <1>6 DEF Response, Rejected, NoResponse
    <3> QED BY <3>1, <3>2, StateUpdates, MemUpdate
  <2>6. billed' \in [Sessions -> Nat] /\ Unopened'
    <3>1. Charge(i) \/ UNCHANGED billed
      BY <1>6 DEF Response, Rejected, NoResponse
    <3>2. billed \in [Sessions -> Nat] /\ opened \in Nat
      BY DEF TypeOK
    <3>3. billed' \in [Sessions -> Nat]
      BY <3>1, <3>2 DEF Charge
    <3>4. \A s \in Sessions : s > opened => billed'[s] = billed[s]
      BY <2>4, <3>1, <3>2 DEF Charge, Sessions
    <3> QED BY <2>2, <3>3, <3>4 DEF Unopened
  <2>7. left' \in 0..MaxFaults /\ faults' \in [AllFaults -> Nat]
    BY <1>6, FaultType DEF Response, Rejected, NoResponse, faultVars, TypeOK
  <2>8. snap' \in [Instances -> Int] /\ raw' \subseteq Int
    <3>1. now \in Int /\ snap \in [Instances -> Int] /\ raw \subseteq Int
      BY DEF TypeOK
    <3> QED BY <1>6, <3>1 DEF Response, Rejected, NoResponse, fileVars
  <2> QED BY <2>2, <2>3, <2>5, <2>6, <2>7, <2>8 DEF TypeOK, LivesInDir, DirRecord
<1>7. ASSUME NEW i \in Instances, Freeze(i) PROVE TypeOK' /\ Unopened'
  <2>1. PICK label \in Labels : Goto(i, label)
    BY <1>7 DEF Freeze, Labels
  <2>2. Live(i) /\ UNCHANGED <<now, dir, wake, snap, fileVars, other, billed, faultVars>>
    BY <1>7 DEF Freeze, At, Live
  <2>3. pc' \in [Instances -> Labels] /\ LivesInDir'
    BY <2>1, <2>2, <1>0 DEF fileVars
  <2>4. mem' \in [Instances -> State]
    <3>1. mem[i] \in State
      BY DEF TypeOK
    <3> QED BY <1>7, <3>1, StateUpdates, MemUpdate DEF Freeze, Marked
  <2>5. FirstWins(pred.rows, DueRows(i)) \subseteq Row
    BY DueRowsType DEF FirstWins, TypeOK
  <2>6. merged' \in [Instances -> SUBSET Row]
    BY <1>7, <2>5 DEF Freeze, TypeOK
  <2> QED BY <2>2, <2>3, <2>4, <2>6 DEF TypeOK, LivesInDir, Unopened, fileVars, faultVars
<1>8. ASSUME NEW i \in Instances, WriteCsv(i) \/ WriteDenied(i) PROVE TypeOK' /\ Unopened'
  <2>1. Goto(i, "save") /\ Live(i)
        /\ UNCHANGED <<now, mem, dir, wake, snap, opened, dirs, raw, other, billed>>
    BY <1>8 DEF WriteCsv, WriteDenied, At, Live, fileVars
  <2>2. pc' \in [Instances -> Labels] /\ LivesInDir'
    BY <2>1, <1>0 DEF Labels
  <2>3. left' \in 0..MaxFaults /\ faults' \in [AllFaults -> Nat]
    BY <1>8, FaultType DEF WriteCsv, WriteDenied, faultVars, TypeOK
  <2>4. merged' \in [Instances -> SUBSET Row]
        /\ pred' \in [state : {"absent", "ok", "empty"}, rows : SUBSET Row]
    BY <1>8 DEF WriteCsv, WriteDenied, fileVars, TypeOK
  <2> QED BY <2>1, <2>2, <2>3, <2>4 DEF TypeOK, LivesInDir, Unopened
<1>9. ASSUME NEW i \in Instances, SaveState(i) PROVE TypeOK' /\ Unopened'
  <2>1. pc' \in [Instances -> Labels] /\ LivesInDir'
    BY <1>9, <1>0 DEF SaveState, At, Live, Labels
  <2>2. dir[i] \in Sessions /\ dir[i] <= opened
    BY <1>9, DirOfLive DEF SaveState, At, Live
  <2>3. dirs' \in [Sessions -> DirRecord]
    <3>1. dirs \in [Sessions -> DirRecord] /\ mem[i] \in State
      BY DEF TypeOK, DirRecord
    <3>2. [dirs[dir[i]] EXCEPT !.file = "ok", !.saved = mem[i]] \in DirRecord
      BY <2>2, <3>1, DirUpdates
    <3> QED BY <1>9, <2>2, <3>1, <3>2 DEF SaveState
  <2>4. Unopened'
    BY <1>9, <2>2 DEF SaveState, Unopened, Sessions, TypeOK
  <2>5. wake' \in [Instances -> Int] /\ snap' \in [Instances -> Int]
    BY <1>9 DEF SaveState, TypeOK, Tick, Never
  <2> QED BY <1>9, <2>1, <2>3, <2>4, <2>5 DEF SaveState, TypeOK, LivesInDir, DirRecord, faultVars
<1>10. ASSUME NEW i \in Instances, Kill(i) \/ Cut(i) PROVE TypeOK' /\ Unopened'
  <2>1. Dies(i) /\ UNCHANGED <<now, opened, raw, other, billed>>
    BY <1>10 DEF Kill, Cut, fileVars
  <2>2. left' \in 0..MaxFaults /\ faults' \in [AllFaults -> Nat]
    BY <1>10, FaultType DEF Kill, Cut
  <2>3. LivesInDir'
    BY <2>1, DiesType DEF LivesInDir, Live, TypeOK
  <2>4. pred' \in [state : {"absent", "ok", "empty"}, rows : SUBSET Row]
    BY <1>10 DEF Kill, Cut, CutOff, fileVars, TypeOK
  <2>5. /\ dirs' \in [Sessions -> DirRecord]
        /\ Unopened'
    <3>1. CASE dirs' = dirs
      BY <2>1, <3>1 DEF TypeOK, Unopened, DirRecord
    <3>2. CASE At(i, "save") /\ dirs' = [dirs EXCEPT ![dir[i]].file = "torn"]
      <4>1. dir[i] \in Sessions /\ dir[i] <= opened
        BY <3>2, DirOfLive DEF At, Live
      <4>2. dirs \in [Sessions -> DirRecord] /\ opened \in Nat
        BY DEF TypeOK, DirRecord
      <4>3. [dirs[dir[i]] EXCEPT !.file = "torn"] \in DirRecord
        BY <4>1, <4>2, DirUpdates
      <4> QED BY <2>1, <3>2, <4>1, <4>2, <4>3 DEF Unopened, Sessions
    <3> QED BY <1>10, <3>1, <3>2 DEF Kill, Cut, fileVars
  <2> QED BY <2>1, <2>2, <2>3, <2>4, <2>5, DiesType DEF TypeOK, LivesInDir, DirRecord
<1>11. ASSUME CollectorRead \/ CollectorWrite PROVE TypeOK' /\ Unopened'
  <2>1. left' \in 0..MaxFaults /\ faults' \in [AllFaults -> Nat]
    BY <1>11, FaultType DEF CollectorRead, CollectorWrite, faultVars, TypeOK
  <2>2. UNCHANGED <<now, procVars, opened, dirs, raw, billed>>
    BY <1>11 DEF CollectorRead, CollectorWrite, fileVars
  <2>3. /\ pred' \in [state : {"absent", "ok", "empty"}, rows : SUBSET Row]
        /\ other' \in [busy : BOOLEAN, rows : SUBSET Row]
    <3>1. /\ pred \in [state : {"absent", "ok", "empty"}, rows : SUBSET Row]
          /\ other \in [busy : BOOLEAN, rows : SUBSET Row]
      BY DEF TypeOK
    <3>2. CASE CollectorRead
      BY <3>1, <3>2 DEF CollectorRead, fileVars
    <3>3. CASE CollectorWrite
      BY <3>1, <3>3 DEF CollectorWrite
    <3> QED BY <1>11, <3>2, <3>3
  <2> QED BY <2>1, <2>2, <2>3 DEF TypeOK, Unopened, Live, procVars
<1>12. ASSUME Minute PROVE TypeOK' /\ Unopened'
  <2>1. left' \in 0..MaxFaults /\ faults' \in [AllFaults -> Nat]
    BY <1>12, FaultType DEF Minute, NoFault, faultVars, TypeOK
  <2> QED BY <1>12, <2>1 DEF Minute, TypeOK, Unopened, Live, procVars, fileVars
<1>13. ASSUME UNCHANGED vars PROVE TypeOK' /\ Unopened'
  BY <1>13 DEF vars, procVars, fileVars, faultVars, TypeOK, Unopened, Live
<1> QED
  BY <1>1, <1>2, <1>3, <1>4, <1>5, <1>6, <1>7, <1>8, <1>9, <1>10, <1>11, <1>12, <1>13
     DEF Next, TypeInv, Launch, Results, Odds, Frozen

\* The types of the variables, and that every running instance has a directory,
\* whatever is killed, cut, resumed or run twice.
THEOREM TypeCorrect == Spec => []TypeOK
<1>1. TypeInv => TypeOK
  BY DEF TypeInv
<1> QED BY TypeInit, TypeNext, <1>1, PTL DEF Spec

-----------------------------------------------------------------------------
(* The credit ceiling of a session, across kills and resumes *)

Excess == Restarts + faults["lost"]

\* One instance runs at a time unless a twin was launched.
Solo == \A i, j \in Instances : Live(i) /\ Live(j) => i = j

\* The credit a round has spent and not yet saved.
Unsaved(i) == IF pc[i] \in {"freeze", "write", "save"} THEN 1 ELSE 0

\* A running session is ahead of its file by that credit, and behind the provider
\* by what lost responses and earlier kills have cost.
RunningAccount ==
  \A i \in Instances : Live(i) =>
    /\ mem[i].used <= MaxCredits
    /\ pc[i] = "http" => mem[i].used < MaxCredits
    /\ mem[i].used <= dirs[dir[i]].saved.used + Unsaved(i)
    /\ billed[dir[i]] <= mem[i].used + Excess

\* A session that no instance runs is behind the provider by the same.
IdleAccount ==
  \A s \in Sessions :
    /\ dirs[s].saved.used <= MaxCredits
    /\ (\A i \in Instances : Live(i) => dir[i] # s)
         => billed[s] <= dirs[s].saved.used + Excess

CreditInv == faults["twin"] = 0 => Solo /\ RunningAccount /\ IdleAccount

LEMMA ExcessType == TypeOK => Restarts \in Nat /\ Excess \in Nat /\ faults["twin"] \in Nat
BY DEF TypeOK, Restarts, Excess, AllFaults

\* A fault never lowers the allowance, and only a twin counts as a twin.
LEMMA FaultAccount ==
  ASSUME TypeOK, NEW kind, Fault(kind)
  PROVE  /\ Excess' \in Nat /\ Restarts' \in Nat /\ Excess' >= Excess /\ Restarts' >= Restarts
         /\ faults["twin"]' >= faults["twin"]
         /\ kind = "twin" => faults["twin"]' > 0
         /\ kind \in {"lost", "kill", "cut"} => Excess' >= Excess + 1
<1>1. /\ faults \in [AllFaults -> Nat] /\ kind \in AllFaults
      /\ faults' = [faults EXCEPT ![kind] = @ + 1]
  BY FaultType DEF TypeOK
<1> QED BY <1>1 DEF Excess, Restarts, AllFaults

LEMMA NoFaultAccount ==
  ASSUME TypeOK, NoFault
  PROVE  Excess' = Excess /\ Restarts' = Restarts /\ faults["twin"]' = faults["twin"]
BY DEF NoFault, faultVars, Excess, Restarts

LEMMA AccountTypes ==
  ASSUME TypeOK
  PROVE  /\ \A i \in Instances : mem[i].used \in Nat
         /\ \A s \in Sessions : dirs[s].saved.used \in Nat /\ billed[s] \in Nat
BY DEF TypeOK, State

\* A step of the only instance that runs, which keeps its state, files and charges.
LEMMA QuietStep ==
  ASSUME TypeOK, CreditInv, NEW i \in Instances, Live(i), NEW label \in Labels,
         Goto(i, label), label = "http" => mem[i].used < MaxCredits,
         label \in {"freeze", "write", "save"} \/ Unsaved(i) = 0,
         Excess' \in Nat, Excess' >= Excess, faults["twin"]' >= faults["twin"],
         UNCHANGED <<dir, billed>>,
         mem'[i].used = mem[i].used,
         \A j \in Instances \ {i} : mem'[j] = mem[j],
         \A s \in Sessions : dirs'[s].saved = dirs[s].saved
  PROVE  CreditInv'
<1> SUFFICES ASSUME faults["twin"]' = 0 PROVE Solo' /\ RunningAccount' /\ IdleAccount'
  BY DEF CreditInv
<1>1. faults["twin"] = 0
  BY ExcessType
<1>2. Solo /\ RunningAccount /\ IdleAccount
  BY <1>1 DEF CreditInv
<1>3. /\ pc'[i] = label /\ \A j \in Instances \ {i} : pc'[j] = pc[j]
  BY DEF Goto, TypeOK
<1>4. \A j \in Instances : Live(j) => j = i
  BY <1>2 DEF Solo
<1>5. \A j \in Instances : Live(j)' => j = i
  BY <1>3, <1>4 DEF Live
<1>6. dir[i] \in Sessions
  BY DirOfLive
<1>7. /\ mem[i].used \in Nat /\ dirs[dir[i]].saved.used \in Nat /\ billed[dir[i]] \in Nat
      /\ Excess \in Nat /\ MaxCredits \in Nat
  BY <1>6, AccountTypes, ExcessType, SupervisorBounds
<1>8. Solo'
  BY <1>5 DEF Solo
<1>9. /\ mem[i].used <= MaxCredits
      /\ mem[i].used <= dirs[dir[i]].saved.used + Unsaved(i)
      /\ billed[dir[i]] <= mem[i].used + Excess
  BY <1>2 DEF RunningAccount
<1>10. RunningAccount'
  <2> SUFFICES ASSUME NEW j \in Instances, Live(j)'
               PROVE  (/\ mem[j].used <= MaxCredits
                       /\ pc[j] = "http" => mem[j].used < MaxCredits
                       /\ mem[j].used <= dirs[dir[j]].saved.used + Unsaved(j)
                       /\ billed[dir[j]] <= mem[j].used + Excess)'
    BY DEF RunningAccount
  <2>1. j = i
    BY <1>5
  <2>2. Unsaved(i) \in 0..1 /\ Unsaved(i)' \in 0..1 /\ Unsaved(i) <= Unsaved(i)'
    BY <1>3 DEF Unsaved
  <2>3. dirs'[dir[i]].saved.used = dirs[dir[i]].saved.used
    BY <1>6
  <2> QED BY <1>3, <1>7, <1>9, <2>1, <2>2, <2>3
<1>11. IdleAccount'
  <2> SUFFICES ASSUME NEW s \in Sessions
               PROVE  (/\ dirs[s].saved.used <= MaxCredits
                       /\ (\A j \in Instances : Live(j) => dir[j] # s)
                            => billed[s] <= dirs[s].saved.used + Excess)'
    BY DEF IdleAccount
  <2>1. dirs[s].saved.used <= MaxCredits /\ dirs'[s].saved.used = dirs[s].saved.used
    BY <1>2 DEF IdleAccount
  <2>2. billed[s] \in Nat /\ dirs[s].saved.used \in Nat
    BY AccountTypes
  <2>3. CASE dir[i] # s
    BY <1>2, <1>4, <1>7, <2>1, <2>2, <2>3 DEF IdleAccount
  <2>4. CASE dir[i] = s /\ Live(i)'
    BY <2>1, <2>4
  <2>5. CASE dir[i] = s /\ ~Live(i)'
    <3>1. Unsaved(i) = 0
      BY <1>3, <2>5 DEF Live, Unsaved
    <3> QED BY <1>7, <1>9, <2>1, <2>2, <2>5, <3>1
  <2> QED BY <2>3, <2>4, <2>5
<1> QED BY <1>8, <1>10, <1>11

\* A request is charged and, when a response comes, recorded in memory.
LEMMA RequestStep ==
  ASSUME TypeOK, CreditInv, NEW i \in Instances,
         Response(i) \/ Rejected(i) \/ NoResponse(i)
  PROVE  CreditInv'
<1> SUFFICES ASSUME faults["twin"]' = 0 PROVE Solo' /\ RunningAccount' /\ IdleAccount'
  BY DEF CreditInv
<1>1. /\ Excess' \in Nat /\ Excess' >= Excess /\ faults["twin"] = 0
      /\ NoResponse(i) => Excess' >= Excess + 1
  BY FaultAccount, NoFaultAccount, ExcessType DEF Response, Rejected, NoResponse, NoFault
<1>2. Solo /\ RunningAccount /\ IdleAccount
  BY <1>1 DEF CreditInv
<1>3. PICK label \in {"freeze", "save"} : Goto(i, label)
  BY DEF Response, Rejected, NoResponse
<1>4. /\ pc[i] = "http" /\ pc'[i] = label /\ \A j \in Instances \ {i} : pc'[j] = pc[j]
      /\ Live(i) /\ Live(i)' /\ Unsaved(i)' = 1
      /\ UNCHANGED <<dir, dirs>>
  BY <1>3 DEF Response, Rejected, NoResponse, At, Goto, Live, Unsaved, TypeOK, fileVars
<1>5. \A j \in Instances : (Live(j) => j = i) /\ (Live(j)' => j = i)
  BY <1>2, <1>4 DEF Solo, Live
<1>6. dir[i] \in Sessions
  BY <1>4, DirOfLive
<1>7. /\ mem[i].used \in Nat /\ dirs[dir[i]].saved.used \in Nat /\ billed[dir[i]] \in Nat
      /\ Excess \in Nat /\ MaxCredits \in Nat
  BY <1>6, AccountTypes, ExcessType, SupervisorBounds
<1>8. /\ mem[i].used < MaxCredits
      /\ mem[i].used <= dirs[dir[i]].saved.used
      /\ billed[dir[i]] <= mem[i].used + Excess
  BY <1>2, <1>4, <1>7 DEF RunningAccount, Unsaved
<1>9. \A s \in Sessions : s # dir[i] => billed'[s] = billed[s]
  BY <1>6 DEF Response, Rejected, NoResponse, Charge, TypeOK
<1>10. \/ mem'[i].used = mem[i].used + 1 /\ billed'[dir[i]] = billed[dir[i]] + 1
       \/ /\ NoResponse(i) /\ mem'[i].used = mem[i].used
          /\ billed'[dir[i]] \in {billed[dir[i]], billed[dir[i]] + 1}
  <2>1. /\ Charge(i) => billed'[dir[i]] = billed[dir[i]] + 1
        /\ UNCHANGED billed => billed'[dir[i]] = billed[dir[i]]
    BY <1>6 DEF Charge, TypeOK
  <2>2. CASE NoResponse(i)
    BY <2>1, <2>2 DEF NoResponse
  <2>3. CASE Response(i) \/ Rejected(i)
    <3>1. mem' = [mem EXCEPT ![i] = Spent(mem[i])] /\ Charge(i)
      BY <2>3 DEF Response, Rejected
    <3>2. mem \in [Instances -> State] /\ mem[i] \in State
      BY DEF TypeOK
    <3>3. Spent(mem[i]).used = mem[i].used + 1
      BY <3>2, StateUpdates
    <3> QED BY <2>1, <3>1, <3>2, <3>3
  <2> QED BY <2>2, <2>3
<1>11. RunningAccount'
  <2> SUFFICES (/\ mem[i].used <= MaxCredits
                /\ pc[i] = "http" => mem[i].used < MaxCredits
                /\ mem[i].used <= dirs[dir[i]].saved.used + Unsaved(i)
                /\ billed[dir[i]] <= mem[i].used + Excess)'
    BY <1>5 DEF RunningAccount
  <2> QED BY <1>1, <1>3, <1>4, <1>7, <1>8, <1>10
<1>12. IdleAccount'
  <2> SUFFICES ASSUME NEW s \in Sessions
               PROVE  (/\ dirs[s].saved.used <= MaxCredits
                       /\ (\A j \in Instances : Live(j) => dir[j] # s)
                            => billed[s] <= dirs[s].saved.used + Excess)'
    BY DEF IdleAccount
  <2>1. dirs[s].saved.used \in Nat /\ billed[s] \in Nat
    BY AccountTypes
  <2>2. CASE s = dir[i]
    BY <1>2, <1>4, <2>2 DEF IdleAccount
  <2>3. CASE s # dir[i]
    <3>1. billed[s] <= dirs[s].saved.used + Excess /\ dirs[s].saved.used <= MaxCredits
      BY <1>2, <1>5, <2>3 DEF IdleAccount
    <3> QED BY <1>1, <1>4, <1>7, <1>9, <2>1, <2>3, <3>1
  <2> QED BY <2>2, <2>3
<1> QED BY <1>5, <1>11, <1>12 DEF Solo

\* state.json takes over what the running session has spent.
LEMMA SaveStep ==
  ASSUME TypeOK, CreditInv, NEW i \in Instances, SaveState(i)
  PROVE  CreditInv'
<1> SUFFICES ASSUME faults["twin"]' = 0 PROVE Solo' /\ RunningAccount' /\ IdleAccount'
  BY DEF CreditInv
<1>1. /\ Excess' = Excess /\ faults["twin"] = 0
      /\ pc[i] = "save" /\ pc'[i] = "poll" /\ \A j \in Instances \ {i} : pc'[j] = pc[j]
      /\ Live(i) /\ Live(i)' /\ UNCHANGED <<dir, mem, billed>>
  BY DEF SaveState, faultVars, Excess, Restarts, At, Goto, Live, TypeOK
<1>2. Solo /\ RunningAccount /\ IdleAccount
  BY <1>1 DEF CreditInv
<1>3. \A j \in Instances : (Live(j) => j = i) /\ (Live(j)' => j = i)
  BY <1>1, <1>2 DEF Solo, Live
<1>4. dir[i] \in Sessions
  BY <1>1, DirOfLive
<1>5. /\ mem[i].used \in Nat /\ dirs[dir[i]].saved.used \in Nat /\ billed[dir[i]] \in Nat
      /\ Excess \in Nat /\ MaxCredits \in Nat
  BY <1>4, AccountTypes, ExcessType, SupervisorBounds
<1>6. mem[i].used <= MaxCredits /\ billed[dir[i]] <= mem[i].used + Excess
  BY <1>1, <1>2 DEF RunningAccount
<1>7. /\ dirs'[dir[i]].saved = mem[i]
      /\ \A s \in Sessions : s # dir[i] => dirs'[s] = dirs[s]
  BY <1>4 DEF SaveState, TypeOK
<1>8. RunningAccount'
  <2> SUFFICES (/\ mem[i].used <= MaxCredits
                /\ pc[i] = "http" => mem[i].used < MaxCredits
                /\ mem[i].used <= dirs[dir[i]].saved.used + Unsaved(i)
                /\ billed[dir[i]] <= mem[i].used + Excess)'
    BY <1>3 DEF RunningAccount
  <2>1. Unsaved(i)' \in 0..1
    BY DEF Unsaved
  <2> QED BY <1>1, <1>5, <1>6, <1>7, <2>1
<1>9. IdleAccount'
  <2> SUFFICES ASSUME NEW s \in Sessions
               PROVE  (/\ dirs[s].saved.used <= MaxCredits
                       /\ (\A j \in Instances : Live(j) => dir[j] # s)
                            => billed[s] <= dirs[s].saved.used + Excess)'
    BY DEF IdleAccount
  <2>1. CASE s = dir[i]
    BY <1>1, <1>6, <1>7, <2>1
  <2>2. CASE s # dir[i]
    BY <1>1, <1>2, <1>3, <1>7, <2>2 DEF IdleAccount
  <2> QED BY <2>1, <2>2
<1> QED BY <1>3, <1>8, <1>9 DEF Solo

\* A killed session forgets at most the one credit it had not saved.
LEMMA DeathStep ==
  ASSUME TypeOK, CreditInv, NEW i \in Instances, Live(i), Dies(i),
         Fault("kill") \/ Fault("cut"), UNCHANGED billed,
         \A s \in Sessions : dirs'[s].saved = dirs[s].saved
  PROVE  CreditInv'
<1> SUFFICES ASSUME faults["twin"]' = 0 PROVE Solo' /\ RunningAccount' /\ IdleAccount'
  BY DEF CreditInv
<1>1. Excess' \in Nat /\ Excess' >= Excess + 1 /\ faults["twin"] = 0
  BY FaultAccount, ExcessType
<1>2. Solo /\ RunningAccount /\ IdleAccount
  BY <1>1 DEF CreditInv
<1>3. \A j \in Instances : (Live(j) => j = i) /\ ~Live(j)'
  BY <1>2, DiesType DEF Solo, Live
<1>4. dir[i] \in Sessions
  BY DirOfLive
<1>5. /\ mem[i].used \in Nat /\ Unsaved(i) \in 0..1 /\ Excess \in Nat
      /\ mem[i].used <= dirs[dir[i]].saved.used + Unsaved(i)
      /\ billed[dir[i]] <= mem[i].used + Excess
  BY <1>2, AccountTypes, ExcessType DEF RunningAccount, Unsaved
<1>6. IdleAccount'
  <2> SUFFICES ASSUME NEW s \in Sessions
               PROVE  (/\ dirs[s].saved.used <= MaxCredits
                       /\ billed[s] <= dirs[s].saved.used + Excess)'
    BY DEF IdleAccount
  <2>1. /\ dirs[s].saved.used \in Nat /\ billed[s] \in Nat
        /\ dirs[s].saved.used <= MaxCredits /\ dirs'[s].saved.used = dirs[s].saved.used
    BY <1>2, AccountTypes DEF IdleAccount
  <2>2. CASE s = dir[i]
    BY <1>1, <1>5, <2>1, <2>2
  <2>3. CASE s # dir[i]
    BY <1>1, <1>2, <1>3, <1>5, <2>1, <2>3 DEF IdleAccount
  <2> QED BY <2>2, <2>3
<1> QED BY <1>3, <1>6 DEF Solo, RunningAccount

\* A launch beside no other instance takes over an idle session's account.
LEMMA LaunchStep ==
  ASSUME TypeOK, CreditInv, NEW i \in Instances, MayLaunch(i),
         NEW s \in Sessions, NEW state \in State, Begin(i, s, state),
         state.used = dirs[s].saved.used, UNCHANGED <<dirs, billed>>
  PROVE  CreditInv'
<1> SUFFICES ASSUME faults["twin"]' = 0 PROVE Solo' /\ RunningAccount' /\ IdleAccount'
  BY DEF CreditInv
<1>1. Others(i) = {} /\ NoFault
  BY FaultAccount, ExcessType DEF MayLaunch
<1>2. Excess' = Excess /\ faults["twin"] = 0 /\ Excess \in Nat
  BY <1>1, NoFaultAccount, ExcessType
<1>3. Solo /\ RunningAccount /\ IdleAccount
  BY <1>2 DEF CreditInv
<1>4. \A j \in Instances : ~Live(j)
  BY <1>1 DEF Others, MayLaunch, Live
<1>5. /\ pc'[i] = "poll" /\ mem'[i] = state /\ dir'[i] = s
      /\ \A j \in Instances : Live(j)' => j = i
  BY <1>4, BeginType DEF Live
<1>6. \A r \in Sessions : /\ billed[r] <= dirs[r].saved.used + Excess
                          /\ dirs[r].saved.used <= MaxCredits
                          /\ dirs[r].saved.used \in Nat
  BY <1>3, <1>4, AccountTypes DEF IdleAccount
<1>7. RunningAccount'
  <2> SUFFICES (/\ mem[i].used <= MaxCredits
                /\ pc[i] = "http" => mem[i].used < MaxCredits
                /\ mem[i].used <= dirs[dir[i]].saved.used + Unsaved(i)
                /\ billed[dir[i]] <= mem[i].used + Excess)'
    BY <1>5 DEF RunningAccount
  <2>1. Unsaved(i)' \in 0..1
    BY DEF Unsaved
  <2> QED BY <1>2, <1>5, <1>6, <2>1
<1>8. IdleAccount'
  BY <1>2, <1>6 DEF IdleAccount
<1> QED BY <1>5, <1>7, <1>8 DEF Solo

\* A step of the clock or of the other writer leaves every account as it is.
LEMMA OutsideStep ==
  ASSUME TypeOK, CreditInv, UNCHANGED <<pc, mem, dir, dirs, billed>>,
         Excess' \in Nat, Excess' >= Excess, faults["twin"]' >= faults["twin"]
  PROVE  CreditInv'
<1> SUFFICES ASSUME faults["twin"]' = 0 PROVE Solo' /\ RunningAccount' /\ IdleAccount'
  BY DEF CreditInv
<1>1. Solo /\ RunningAccount /\ IdleAccount
  BY ExcessType DEF CreditInv
<1>2. Solo'
  BY <1>1 DEF Solo, Live
<1>3. RunningAccount'
  <2> SUFFICES ASSUME NEW i \in Instances, Live(i)
               PROVE  (/\ mem[i].used <= MaxCredits
                       /\ pc[i] = "http" => mem[i].used < MaxCredits
                       /\ mem[i].used <= dirs[dir[i]].saved.used + Unsaved(i)
                       /\ billed[dir[i]] <= mem[i].used + Excess)'
    BY DEF RunningAccount, Live
  <2>1. mem[i].used \in Nat /\ billed[dir[i]] \in Nat /\ Excess \in Nat
    BY DirOfLive, AccountTypes, ExcessType
  <2>2. Unsaved(i)' = Unsaved(i)
    BY DEF Unsaved
  <2> QED BY <1>1, <2>1, <2>2 DEF RunningAccount
<1>4. IdleAccount'
  <2> SUFFICES ASSUME NEW s \in Sessions
               PROVE  (/\ dirs[s].saved.used <= MaxCredits
                       /\ (\A j \in Instances : Live(j) => dir[j] # s)
                            => billed[s] <= dirs[s].saved.used + Excess)'
    BY DEF IdleAccount
  <2>1. billed[s] \in Nat /\ dirs[s].saved.used \in Nat /\ Excess \in Nat
    BY AccountTypes, ExcessType
  <2> QED BY <1>1, <2>1 DEF IdleAccount, Live
<1> QED BY <1>2, <1>3, <1>4

LEMMA CreditNext == TypeInv /\ CreditInv /\ [Next]_vars => CreditInv'
<1> SUFFICES ASSUME TypeOK, Unopened, CreditInv, [Next]_vars PROVE CreditInv'
  BY DEF TypeInv
<1>0. Excess \in Nat /\ faults["twin"] \in Nat
  BY ExcessType
<1>1. ASSUME NEW i \in Instances, LaunchFresh(i) PROVE CreditInv'
  <2>1. /\ opened + 1 \in Sessions /\ now \in Int /\ opened + 1 > opened
        /\ MayLaunch(i) /\ Begin(i, opened + 1, FreshState(now)) /\ UNCHANGED <<dirs, billed>>
    BY <1>1, SupervisorBounds DEF LaunchFresh, TypeOK, Sessions
  <2>2. dirs[opened + 1].saved.used = 0
    BY <2>1, FreshType DEF Unopened, NoDir
  <2> QED BY <2>1, <2>2, FreshType, LaunchStep
<1>2. ASSUME NEW i \in Instances, LaunchResume(i) PROVE CreditInv'
  <2>1. PICK s \in Sessions : Begin(i, s, dirs[s].saved)
    BY <1>2 DEF LaunchResume
  <2>2. dirs[s].saved \in State
    BY DEF TypeOK
  <2> QED BY <1>2, <2>1, <2>2, LaunchStep DEF LaunchResume, fileVars
<1>3. ASSUME NEW i \in Instances, SkipPoll(i) \/ Finalize(i) \/ CheckOdds(i) PROVE CreditInv'
  <2>1. PICK label \in Labels : /\ Goto(i, label)
                                /\ label = "http" => mem[i].used < MaxCredits
    BY <1>3 DEF SkipPoll, Finalize, CheckOdds, Labels, Affordable
  <2>2. Live(i) /\ Unsaved(i) = 0 /\ UNCHANGED <<mem, dir, dirs, billed, faultVars>>
    BY <1>3 DEF SkipPoll, Finalize, CheckOdds, PollDue, At, Live, Unsaved, fileVars
  <2>3. Excess' = Excess /\ faults["twin"]' = faults["twin"]
    BY <2>2, NoFaultAccount DEF NoFault
  <2> QED BY <1>0, <2>1, <2>2, <2>3, QuietStep
<1>4. ASSUME NEW i \in Instances, PollResults(i) PROVE CreditInv'
  <2>1. /\ Goto(i, "odds") /\ Live(i) /\ Unsaved(i) = 0 /\ UNCHANGED <<dir, billed, faultVars>>
        /\ mem' = [mem EXCEPT ![i] = Updated(mem[i])]
        /\ dirs' = [dirs EXCEPT ![dir[i]].tx = Recorded(@, Finished \ mem[i].elo)]
    BY <1>4 DEF PollResults, PollDue, At, Live, Unsaved
  <2>2. /\ mem'[i].used = mem[i].used
        /\ \A j \in Instances \ {i} : mem'[j] = mem[j]
        /\ \A s \in Sessions : dirs'[s].saved = dirs[s].saved
    BY <2>1 DEF Updated, TypeOK, State
  <2>3. Excess' = Excess /\ faults["twin"]' = faults["twin"]
    BY <2>1, NoFaultAccount DEF NoFault
  <2> QED BY <1>0, <2>1, <2>2, <2>3, QuietStep DEF Labels
<1>5. ASSUME NEW i \in Instances, PollFails(i) PROVE CreditInv'
  <2>1. /\ Goto(i, "odds") /\ Live(i) /\ Unsaved(i) = 0 /\ UNCHANGED <<dir, dirs, billed>>
        /\ mem'[i].used = mem[i].used
        /\ \A j \in Instances \ {i} : mem'[j] = mem[j]
    BY <1>5 DEF PollFails, PollDue, At, Live, Unsaved, fileVars, TypeOK, State
  <2>2. Excess' \in Nat /\ Excess' >= Excess /\ faults["twin"]' >= faults["twin"]
    BY <1>5, FaultAccount DEF PollFails
  <2> QED BY <2>1, <2>2, QuietStep DEF Labels
<1>6. ASSUME NEW i \in Instances, Response(i) \/ Rejected(i) \/ NoResponse(i) PROVE CreditInv'
  BY <1>6, RequestStep
<1>7. ASSUME NEW i \in Instances, Frozen(i) PROVE CreditInv'
  <2>1. PICK label \in {"write", "save"} : Goto(i, label)
    BY <1>7 DEF Frozen, Freeze, WriteCsv, WriteDenied
  <2>2. Live(i) /\ UNCHANGED <<dir, dirs, billed>>
    BY <1>7 DEF Frozen, Freeze, WriteCsv, WriteDenied, At, Live, fileVars
  <2>3. /\ mem'[i].used = mem[i].used
        /\ \A j \in Instances \ {i} : mem'[j] = mem[j]
    BY <1>7 DEF Frozen, Freeze, WriteCsv, WriteDenied, Marked, TypeOK, State
  <2>4. Excess' \in Nat /\ Excess' >= Excess /\ faults["twin"]' >= faults["twin"]
    BY <1>0, <1>7, FaultAccount, NoFaultAccount DEF Frozen, Freeze, WriteCsv, WriteDenied, NoFault
  <2> QED BY <2>1, <2>2, <2>3, <2>4, QuietStep DEF Labels
<1>8. ASSUME NEW i \in Instances, SaveState(i) PROVE CreditInv'
  BY <1>8, SaveStep
<1>9. ASSUME NEW i \in Instances, Kill(i) \/ Cut(i) PROVE CreditInv'
  <2>1. /\ Live(i) /\ Dies(i) /\ UNCHANGED billed
        /\ Fault("kill") \/ Fault("cut")
    BY <1>9 DEF Kill, Cut, At, Live
  <2>2. \A s \in Sessions : dirs'[s].saved = dirs[s].saved
    BY <1>9 DEF Kill, Cut, fileVars, TypeOK
  <2> QED BY <2>1, <2>2, DeathStep
<1>10. ASSUME CollectorRead \/ CollectorWrite \/ Minute PROVE CreditInv'
  <2>1. UNCHANGED <<pc, mem, dir, dirs, billed>>
    BY <1>10 DEF CollectorRead, CollectorWrite, Minute, procVars, fileVars
  <2>2. Excess' \in Nat /\ Excess' >= Excess /\ faults["twin"]' >= faults["twin"]
    BY <1>0, <1>10, FaultAccount, NoFaultAccount
       DEF CollectorRead, CollectorWrite, Minute, NoFault
  <2> QED BY <2>1, <2>2, OutsideStep
<1>11. ASSUME UNCHANGED vars PROVE CreditInv'
  <2>1. UNCHANGED <<pc, mem, dir, dirs, billed, faultVars>>
    BY <1>11 DEF vars, procVars, fileVars
  <2>2. Excess' = Excess /\ faults["twin"]' = faults["twin"]
    BY <2>1, NoFaultAccount DEF NoFault
  <2> QED BY <1>0, <2>1, <2>2, OutsideStep
<1> QED
  BY <1>1, <1>2, <1>3, <1>4, <1>5, <1>6, <1>7, <1>8, <1>9, <1>10, <1>11
     DEF Next, Launch, Results, Odds

\* The credits charged to a session exceed --max-credits by at most one for each
\* lost response and each kill, over any number of resumes.
THEOREM CeilingOfSession == Spec => []SessionCeiling
<1>1. Init => CreditInv
  <2> SUFFICES ASSUME Init PROVE Solo /\ RunningAccount /\ IdleAccount
    BY DEF CreditInv
  <2>1. FreshState(0).used = 0 /\ Excess = 0
    BY FreshType DEF Init, Excess, Restarts, AllFaults
  <2> QED BY <2>1, SupervisorBounds DEF Init, Solo, RunningAccount, IdleAccount, Live, NoDir
<1>2. TypeInv /\ CreditInv => SessionCeiling
  <2> SUFFICES ASSUME TypeInv, CreditInv, faults["twin"] = 0, NEW s \in Sessions
               PROVE  billed[s] <= MaxCredits + Restarts + faults["lost"]
    BY DEF SessionCeiling
  <2>1. TypeOK /\ RunningAccount /\ IdleAccount
    BY DEF TypeInv, CreditInv
  <2>2. /\ billed[s] \in Nat /\ dirs[s].saved.used \in Nat /\ Excess \in Nat /\ MaxCredits \in Nat
        /\ Restarts \in Nat /\ faults["lost"] \in Nat
        /\ \A i \in Instances : mem[i].used \in Nat
    BY <2>1, AccountTypes, ExcessType, SupervisorBounds DEF TypeOK, AllFaults
  <2>3. billed[s] <= MaxCredits + Excess
    <3>1. CASE \E i \in Instances : Live(i) /\ dir[i] = s
      BY <2>1, <2>2, <3>1 DEF RunningAccount
    <3>2. CASE \A i \in Instances : Live(i) => dir[i] # s
      BY <2>1, <2>2, <3>2 DEF IdleAccount
    <3> QED BY <3>1, <3>2
  <2> QED BY <2>2, <2>3 DEF Excess
<1> QED BY TypeInit, TypeNext, CreditNext, <1>1, <1>2, PTL DEF Spec

-----------------------------------------------------------------------------
(* What state.json says was captured is on file *)

\* No fault that touches the CSV behind the session's back has happened.
Undisturbed == \A k \in {"denied", "cut", "overlap", "twin"} : faults[k] = 0

\* Every capture that st marks as done has a row.
Covered(st, rows) ==
  \A m \in Matches : \A t \in st.done[m] : \E r \in rows : r.match = m /\ r.type = t

FileInv ==
  Undisturbed =>
    /\ pred.state # "empty" /\ ~other.busy
    /\ \A s \in Sessions : Covered(dirs[s].saved, pred.rows)
    /\ \A i \in Instances : Live(i) =>
         IF pc[i] = "write"
           THEN pred.rows \subseteq merged[i] /\ Covered(mem[i], merged[i])
           ELSE Covered(mem[i], pred.rows)

LEMMA FreshCovered ==
  ASSUME NEW start \in Int, NEW rows
  PROVE  Covered(FreshState(start), rows)
BY FreshType DEF Covered

LEMMA FaultDisturbs ==
  ASSUME TypeOK, NEW kind, Fault(kind), Undisturbed'
  PROVE  Undisturbed /\ kind \notin {"denied", "cut", "overlap", "twin"}
<1>1. /\ faults \in [AllFaults -> Nat] /\ kind \in AllFaults
      /\ faults' = [faults EXCEPT ![kind] = @ + 1]
  BY FaultType DEF TypeOK
<1> QED BY <1>1 DEF Undisturbed, AllFaults

LEMMA Unfaulted == ASSUME NoFault, Undisturbed' PROVE Undisturbed
BY DEF NoFault, faultVars, Undisturbed

\* A step after which no instance is about to write and the CSV is as before.
LEMMA KeepsFile ==
  ASSUME FileInv, Undisturbed, NEW i \in Instances, pc[i] # "write" \/ ~Live(i)',
         UNCHANGED <<pred, other>>,
         \A s \in Sessions : Covered(dirs[s].saved, pred.rows) => Covered(dirs'[s].saved, pred.rows),
         Live(i)' => pc'[i] # "write" /\ Covered(mem'[i], pred.rows),
         \A j \in Instances \ {i} : /\ pc'[j] = pc[j] /\ mem'[j] = mem[j]
                                    /\ merged'[j] = merged[j]
  PROVE  FileInv'
BY DEF FileInv, Live

LEMMA FreezeStep ==
  ASSUME TypeOK, FileInv, NEW i \in Instances, Freeze(i)
  PROVE  FileInv'
<1> SUFFICES ASSUME Undisturbed' PROVE FileInv'
  BY DEF FileInv
<1>1. /\ Undisturbed /\ pc[i] = "freeze" /\ Live(i)
      /\ UNCHANGED <<pred, other, dirs>>
  BY Unfaulted DEF Freeze, NoFault, At, Live, fileVars
<1>2. Covered(mem[i], pred.rows) /\ pred.state # "empty"
  BY <1>1 DEF FileInv
<1>3. \A m \in Matches : mem'[i].done[m] = mem[i].done[m] \cup DueTypes(m, mem[i].done[m])
  BY DEF Freeze, Marked, TypeOK, State
<1>4. \A j \in Instances \ {i} : /\ pc'[j] = pc[j] /\ mem'[j] = mem[j] /\ merged'[j] = merged[j]
  BY DEF Freeze, Marked, Goto, TypeOK
<1>5. \A m \in Matches : \A t \in DueTypes(m, mem[i].done[m]) :
        [match |-> m, type |-> t, snap |-> snap[i], at |-> now] \in DueRows(i)
  BY DEF DueRows, DueTypes
<1>6. CASE DueRows(i) # {}
  <2>1. pc'[i] = "write" /\ merged'[i] = FirstWins(pred.rows, DueRows(i))
    BY <1>2, <1>6 DEF Freeze, Goto, TypeOK
  <2>2. \A r \in DueRows(i) : \E q \in merged'[i] : q.match = r.match /\ q.type = r.type
    BY <2>1 DEF FirstWins, Key
  <2>3. pred.rows \subseteq merged'[i]
    BY <2>1 DEF FirstWins
  <2>4. Covered(mem'[i], merged'[i])
    <3> SUFFICES ASSUME NEW m \in Matches, NEW t \in mem'[i].done[m]
                 PROVE  \E q \in merged'[i] : q.match = m /\ q.type = t
      BY DEF Covered
    <3>1. CASE t \in mem[i].done[m]
      BY <1>2, <2>3, <3>1 DEF Covered
    <3>2. CASE t \in DueTypes(m, mem[i].done[m])
      <4> DEFINE row == [match |-> m, type |-> t, snap |-> snap[i], at |-> now]
      <4>1. row \in DueRows(i) /\ row.match = m /\ row.type = t
        BY <1>5, <3>2
      <4> QED BY <2>2, <4>1
    <3> QED BY <1>3, <3>1, <3>2
  <2> QED BY <1>1, <1>4, <2>1, <2>3, <2>4 DEF FileInv, Live
<1>7. CASE DueRows(i) = {}
  <2>1. pc'[i] = "save"
    BY <1>7 DEF Freeze, Goto, TypeOK
  <2>2. Covered(mem'[i], pred.rows)
    BY <1>2, <1>3, <1>5, <1>7 DEF Covered
  <2> QED BY <1>1, <1>4, <2>1, <2>2, KeepsFile
<1> QED BY <1>6, <1>7

LEMMA FileNext == TypeInv /\ CreditInv /\ FileInv /\ [Next]_vars => FileInv'
<1> SUFFICES ASSUME TypeOK, CreditInv, FileInv, [Next]_vars, Undisturbed' PROVE FileInv'
  BY DEF FileInv, TypeInv
<1>0. ASSUME Undisturbed
      PROVE  /\ pred.state # "empty" /\ ~other.busy /\ Solo
             /\ \A s \in Sessions : Covered(dirs[s].saved, pred.rows)
             /\ \A i \in Instances : Live(i) /\ pc[i] # "write" => Covered(mem[i], pred.rows)
  BY <1>0 DEF FileInv, CreditInv, Undisturbed
<1>1. ASSUME NEW i \in Instances, Launch(i) PROVE FileInv'
  <2>1. MayLaunch(i) /\ pc[i] = "off" /\ now \in Int
    BY <1>1 DEF Launch, LaunchFresh, LaunchResume, MayLaunch, TypeOK
  <2>2. Undisturbed
    BY <2>1, FaultDisturbs, Unfaulted DEF MayLaunch
  <2>3. PICK s \in Sessions, state \in State : Begin(i, s, state) /\ Covered(state, pred.rows)
    <3>1. CASE LaunchFresh(i)
      BY <2>1, <3>1, FreshType, FreshCovered, SupervisorBounds DEF LaunchFresh, Sessions, TypeOK
    <3>2. CASE LaunchResume(i)
      <4>1. PICK s \in Sessions : Begin(i, s, dirs[s].saved)
        BY <3>2 DEF LaunchResume
      <4>2. dirs[s].saved \in State /\ Covered(dirs[s].saved, pred.rows)
        BY <1>0, <2>2 DEF TypeOK
      <4> QED BY <4>1, <4>2
    <3> QED BY <1>1, <3>1, <3>2 DEF Launch
  <2>4. /\ pc'[i] = "poll" /\ mem'[i] = state
        /\ \A j \in Instances \ {i} : pc'[j] = pc[j] /\ mem'[j] = mem[j]
    BY <2>3, BeginType
  <2>5. UNCHANGED <<pred, other, dirs, merged>>
    BY <1>1 DEF Launch, LaunchFresh, LaunchResume, fileVars
  <2> QED BY <2>1, <2>2, <2>3, <2>4, <2>5, KeepsFile
<1>2. ASSUME NEW i \in Instances,
             \/ SkipPoll(i) \/ Finalize(i) \/ CheckOdds(i) \/ PollFails(i)
             \/ Response(i) \/ Rejected(i) \/ NoResponse(i) \/ PollResults(i)
      PROVE  FileInv'
  <2>1. Undisturbed
    BY <1>2, FaultDisturbs, Unfaulted
       DEF SkipPoll, Finalize, CheckOdds, PollFails, Response, Rejected, NoResponse, PollResults,
           NoFault
  <2>2. PICK label \in Labels : Goto(i, label) /\ label # "write"
    BY <1>2 DEF SkipPoll, Finalize, CheckOdds, PollFails, Response, Rejected, NoResponse,
                PollResults, Labels
  <2>3. Live(i) /\ pc[i] # "write" /\ UNCHANGED <<pred, other, merged>>
    BY <1>2 DEF SkipPoll, Finalize, CheckOdds, PollFails, Response, Rejected, NoResponse,
                PollResults, PollDue, At, Live, fileVars
  <2>4. mem'[i].done = mem[i].done /\ \A j \in Instances \ {i} : mem'[j] = mem[j]
    <3>1. mem \in [Instances -> State] /\ mem[i] \in State
      BY DEF TypeOK
    <3>2. \/ mem' = mem
          \/ mem' = [mem EXCEPT ![i] = Updated(mem[i])]
          \/ mem' = [mem EXCEPT ![i] = Spent(mem[i])]
          \/ mem' = [mem EXCEPT ![i] = [mem[i] EXCEPT !.fd = now]]
      BY <1>2 DEF SkipPoll, Finalize, CheckOdds, PollFails, Response, Rejected, NoResponse,
                  PollResults
    <3>3. /\ Updated(mem[i]).done = mem[i].done /\ Spent(mem[i]).done = mem[i].done
          /\ [mem[i] EXCEPT !.fd = now].done = mem[i].done
      BY <3>1, StateUpdates DEF Updated, State
    <3> QED BY <3>1, <3>2, <3>3
  <2>5. Covered(mem'[i], pred.rows)
    BY <1>0, <2>1, <2>3, <2>4 DEF Covered
  <2>6. \A s \in Sessions : dirs'[s].saved = dirs[s].saved
    <3>1. dirs' = dirs \/ dirs' = [dirs EXCEPT ![dir[i]].tx = Recorded(@, Finished \ mem[i].elo)]
      BY <1>2 DEF SkipPoll, Finalize, CheckOdds, PollFails, Response, Rejected, NoResponse,
                  PollResults, fileVars
    <3>2. dirs \in [Sessions -> DirRecord]
      BY DEF TypeOK, DirRecord
    <3> QED BY <3>1, <3>2 DEF DirRecord
  <2>7. pc'[i] = label /\ \A j \in Instances \ {i} : pc'[j] = pc[j]
    BY <2>2 DEF Goto, TypeOK
  <2> QED BY <2>1, <2>2, <2>3, <2>4, <2>5, <2>6, <2>7, KeepsFile
<1>3. ASSUME NEW i \in Instances, Freeze(i) PROVE FileInv'
  BY <1>3, FreezeStep
<1>4. ASSUME NEW i \in Instances, WriteCsv(i) PROVE FileInv'
  <2>1. /\ Undisturbed /\ pc[i] = "write" /\ Live(i) /\ UNCHANGED <<dirs, other, mem>>
        /\ pred' = [state |-> "ok", rows |-> merged[i]]
        /\ pc'[i] = "save" /\ \A j \in Instances \ {i} : pc'[j] = pc[j]
    BY <1>4, Unfaulted DEF WriteCsv, NoFault, At, Live, Goto, TypeOK
  <2>2. pred.rows \subseteq merged[i] /\ Covered(mem[i], merged[i])
    BY <2>1 DEF FileInv
  <2>3. \A j \in Instances : Live(j)' => j = i
    BY <1>0, <2>1 DEF Solo, Live
  <2>4. \A s \in Sessions : Covered(dirs[s].saved, merged[i])
    BY <1>0, <2>1, <2>2 DEF Covered
  <2> QED BY <1>0, <2>1, <2>2, <2>3, <2>4 DEF FileInv
<1>5. ASSUME NEW i \in Instances, WriteDenied(i) \/ Cut(i) PROVE FileInv'
  BY <1>5, FaultDisturbs DEF WriteDenied, Cut
<1>6. ASSUME NEW i \in Instances, SaveState(i) PROVE FileInv'
  <2>1. /\ Undisturbed /\ pc[i] = "save" /\ Live(i) /\ UNCHANGED <<mem, merged, pred, other>>
        /\ pc'[i] = "poll" /\ \A j \in Instances \ {i} : pc'[j] = pc[j]
    BY <1>6, Unfaulted DEF SaveState, NoFault, At, Live, Goto, TypeOK
  <2>2. Covered(mem[i], pred.rows)
    BY <1>0, <2>1
  <2>3. \A s \in Sessions : dirs'[s].saved = dirs[s].saved \/ dirs'[s].saved = mem[i]
    BY <1>6 DEF SaveState, TypeOK
  <2> QED BY <2>1, <2>2, <2>3, KeepsFile
<1>7. ASSUME NEW i \in Instances, Kill(i) PROVE FileInv'
  <2>1. /\ Undisturbed /\ ~Live(i)' /\ UNCHANGED <<dirs, pred, other>>
        /\ \A j \in Instances \ {i} : /\ pc'[j] = pc[j] /\ mem'[j] = mem[j]
                                      /\ merged'[j] = merged[j]
    BY <1>7, DiesType, FaultDisturbs DEF Kill, Live, fileVars
  <2> QED BY <2>1, KeepsFile
<1>8. ASSUME CollectorRead \/ CollectorWrite PROVE FileInv'
  <2>1. CASE CollectorRead
    BY <2>1, FaultDisturbs DEF CollectorRead
  <2>2. CASE CollectorWrite
    BY <1>0, <2>2, Unfaulted DEF CollectorWrite, NoFault
  <2> QED BY <1>8, <2>1, <2>2
<1>9. ASSUME Minute \/ UNCHANGED vars PROVE FileInv'
  <2>1. Undisturbed
    BY <1>9, FaultDisturbs, Unfaulted DEF Minute, vars, NoFault
  <2>2. UNCHANGED <<pc, mem, merged, dirs, pred, other>>
    BY <1>9 DEF Minute, vars, procVars, fileVars
  <2> QED BY <2>1, <2>2 DEF FileInv, Live
<1> QED
  BY <1>1, <1>2, <1>3, <1>4, <1>5, <1>6, <1>7, <1>8, <1>9 DEF Next, Results, Odds, Frozen

\* A resumed session never skips a capture that is not on file, for any kills and
\* lost requests, as long as the CSV is written whole and by this script alone.
THEOREM CapturesAreOnFile == Spec => []DoneIsOnFile
<1>1. Init => CreditInv /\ FileInv
  <2> SUFFICES ASSUME Init PROVE CreditInv /\ FileInv
    OBVIOUS
  <2>1. FreshState(0).used = 0 /\ Excess = 0
    BY FreshType DEF Init, Excess, Restarts, AllFaults
  <2>2. CreditInv
    BY <2>1, SupervisorBounds
       DEF Init, CreditInv, Solo, RunningAccount, IdleAccount, Live, NoDir
  <2>3. FileInv
    BY FreshCovered DEF Init, FileInv, Live, NoDir
  <2> QED BY <2>2, <2>3
<1>2. TypeInv /\ FileInv => DoneIsOnFile
  BY DEF TypeInv, FileInv, DoneIsOnFile, Undisturbed, Covered, Captures
<1> QED BY TypeInit, TypeNext, CreditNext, FileNext, <1>1, <1>2, PTL DEF Spec

-----------------------------------------------------------------------------
(* What the steps do to the states, the directories and the clock *)

\* The steps of a round that neither log a result nor save the state.
Quiet(i) == SkipPoll(i) \/ PollFails(i) \/ Odds(i) \/ Frozen(i) \/ Finalize(i)

Elsewhere(i) == \A j \in Instances \ {i} : pc'[j] = pc[j] /\ mem'[j] = mem[j] /\ dir'[j] = dir[j]

LEMMA QuietEffects ==
  ASSUME TypeOK, NEW i \in Instances, Quiet(i)
  PROVE  /\ Live(i) /\ pc'[i] \notin {"off", "poll"} /\ Elsewhere(i)
         /\ UNCHANGED <<now, dir, dirs, opened, wake>>
         /\ mem'[i].elo = mem[i].elo /\ mem'[i].started = mem[i].started
         /\ ~PollFails(i) => mem'[i].fd = mem[i].fd
         /\ pc'[i] = "ended" => Finalize(i)
<1>1. PICK label \in {"odds", "http", "freeze", "write", "save", "ended"} :
        Goto(i, label) /\ (label = "ended" => Finalize(i))
  BY DEF Quiet, SkipPoll, PollFails, Odds, CheckOdds, Response, Rejected, NoResponse, Frozen,
     Freeze, WriteCsv, WriteDenied, Finalize
<1>2. Live(i) /\ UNCHANGED <<now, dir, dirs, opened, wake>>
  BY DEF Quiet, SkipPoll, PollFails, Odds, CheckOdds, Response, Rejected, NoResponse, Frozen,
     Freeze, WriteCsv, WriteDenied, Finalize, PollDue, At, Live, fileVars
<1>3. mem \in [Instances -> State] /\ mem[i] \in State /\ pc \in [Instances -> Labels]
  BY DEF TypeOK
<1>4. pc'[i] = label /\ \A j \in Instances \ {i} : pc'[j] = pc[j]
  BY <1>1, <1>3 DEF Goto
<1>5. \/ mem' = mem
      \/ mem' = [mem EXCEPT ![i] = Spent(mem[i])]
      \/ PollFails(i) /\ mem' = [mem EXCEPT ![i] = [mem[i] EXCEPT !.fd = now]]
      \/ mem' = [mem EXCEPT ![i] = [mem[i] EXCEPT
                   !.done = [m \in Matches |-> @[m] \cup DueTypes(m, @[m])]]]
  BY DEF Quiet, SkipPoll, PollFails, Odds, CheckOdds, Response, Rejected, NoResponse, Frozen,
     Freeze, Marked, WriteCsv, WriteDenied, Finalize
<1>6. /\ mem'[i].elo = mem[i].elo /\ mem'[i].started = mem[i].started
      /\ ~PollFails(i) => mem'[i].fd = mem[i].fd
      /\ \A j \in Instances \ {i} : mem'[j] = mem[j]
  <2>1. \A st \in State : /\ Spent(st).elo = st.elo /\ Spent(st).started = st.started
                          /\ Spent(st).fd = st.fd
    BY DEF Spent, State
  <2>2. \A st \in State : /\ [st EXCEPT !.fd = now].elo = st.elo
                          /\ [st EXCEPT !.fd = now].started = st.started
    BY DEF State
  <2>3. \A st \in State : \A d :
                             /\ [st EXCEPT !.done = d].elo = st.elo
                             /\ [st EXCEPT !.done = d].started = st.started
                             /\ [st EXCEPT !.done = d].fd = st.fd
    BY DEF State
  <2>4. CASE \E st : mem' = [mem EXCEPT ![i] = st] /\ st.elo = mem[i].elo
                     /\ st.started = mem[i].started /\ (~PollFails(i) => st.fd = mem[i].fd)
    BY <1>3, <2>4
  <2>5. CASE mem' = mem
    BY <2>5
  <2>6. CASE mem' = [mem EXCEPT ![i] = Spent(mem[i])]
    BY <1>3, <2>1, <2>4, <2>6
  <2>7. CASE PollFails(i) /\ mem' = [mem EXCEPT ![i] = [mem[i] EXCEPT !.fd = now]]
    BY <1>3, <2>2, <2>4, <2>7
  <2>8. CASE mem' = [mem EXCEPT ![i] = [mem[i] EXCEPT
                       !.done = [m \in Matches |-> @[m] \cup DueTypes(m, @[m])]]]
    <3> DEFINE d == [m \in Matches |-> mem[i].done[m] \cup DueTypes(m, mem[i].done[m])]
    <3>1. mem' = [mem EXCEPT ![i] = [mem[i] EXCEPT !.done = d]]
      BY <2>8
    <3> HIDE DEF d
    <3> QED BY <1>3, <2>3, <2>4, <3>1
  <2> QED BY <1>5, <2>5, <2>6, <2>7, <2>8
<1> QED BY <1>1, <1>2, <1>4, <1>6 DEF Elsewhere

LEMMA FreshFields ==
  /\ \A start : /\ FreshState(start).started = start /\ FreshState(start).elo = {}
                /\ FreshState(start).fd = Never /\ FreshState(start).used = 0
                /\ FreshState(start).odds = Never
                /\ \A m \in Matches : FreshState(start).done[m] = {}
  /\ NoDir.file = "none" /\ NoDir.saved = FreshState(0)
BY DEF FreshState, NoDir

LEMMA PollEffects ==
  ASSUME TypeOK, NEW i \in Instances, PollResults(i)
  PROVE  /\ Live(i) /\ pc[i] = "poll" /\ pc'[i] = "odds" /\ Elsewhere(i)
         /\ now < Deadline(i) /\ UNCHANGED <<now, dir, opened, wake, faultVars>>
         /\ mem'[i].elo = mem[i].elo \cup Finished /\ mem'[i].started = mem[i].started
         /\ mem'[i].fd = now
         /\ \A s \in Sessions : /\ dirs'[s].saved = dirs[s].saved /\ dirs'[s].file = dirs[s].file
                                /\ s # dir[i] => dirs'[s].tx = dirs[s].tx
         /\ \A m \in Matches : dirs'[dir[i]].tx[m] =
              IF m \in Finished \ mem[i].elo THEN dirs[dir[i]].tx[m] + 1 ELSE dirs[dir[i]].tx[m]
<1>1. /\ pc[i] = "poll" /\ Live(i) /\ now < Deadline(i)
      /\ Goto(i, "odds") /\ UNCHANGED <<now, dir, opened, wake, faultVars>>
      /\ mem' = [mem EXCEPT ![i] = Updated(mem[i])]
      /\ dirs' = [dirs EXCEPT ![dir[i]].tx = Recorded(@, Finished \ mem[i].elo)]
  BY DEF PollResults, PollDue, At, Live
<1>2. /\ mem \in [Instances -> State] /\ mem[i] \in State /\ pc \in [Instances -> Labels]
      /\ dirs \in [Sessions -> DirRecord]
  BY DEF TypeOK, DirRecord
<1>3. dir[i] \in Sessions
  BY <1>1, DirOfLive
<1>4. pc'[i] = "odds" /\ Elsewhere(i)
  BY <1>1, <1>2 DEF Goto, Elsewhere
<1>5. /\ mem'[i].elo = mem[i].elo \cup Finished /\ mem'[i].started = mem[i].started
      /\ mem'[i].fd = now
  BY <1>1, <1>2 DEF Updated, State
<1>6. /\ dirs'[dir[i]].saved = dirs[dir[i]].saved /\ dirs'[dir[i]].file = dirs[dir[i]].file
      /\ dirs'[dir[i]].tx = Recorded(dirs[dir[i]].tx, Finished \ mem[i].elo)
      /\ \A s \in Sessions : s # dir[i] => dirs'[s] = dirs[s]
  BY <1>1, <1>2, <1>3 DEF DirRecord
<1>7. \A m \in Matches : dirs'[dir[i]].tx[m] =
        IF m \in Finished \ mem[i].elo THEN dirs[dir[i]].tx[m] + 1 ELSE dirs[dir[i]].tx[m]
  BY <1>6 DEF Recorded
<1> QED BY <1>1, <1>4, <1>5, <1>6, <1>7

LEMMA SaveEffects ==
  ASSUME TypeOK, NEW i \in Instances, SaveState(i)
  PROVE  /\ Live(i) /\ pc[i] = "save" /\ pc'[i] = "poll" /\ Elsewhere(i)
         /\ wake'[i] = now + 1 /\ \A j \in Instances \ {i} : wake'[j] = wake[j]
         /\ dir[i] \in Sessions /\ UNCHANGED <<now, mem, dir, opened, faultVars>>
         /\ dirs'[dir[i]].saved = mem[i] /\ dirs'[dir[i]].file = "ok"
         /\ dirs'[dir[i]].tx = dirs[dir[i]].tx
         /\ \A s \in Sessions : s # dir[i] => dirs'[s] = dirs[s]
<1>1. pc[i] = "save" /\ Live(i) /\ UNCHANGED <<now, mem, dir, opened, faultVars>>
  BY DEF SaveState, At, Live
<1>2. dir[i] \in Sessions
  BY <1>1, DirOfLive
<1>3. /\ dirs \in [Sessions -> DirRecord] /\ pc \in [Instances -> Labels]
      /\ wake \in [Instances -> Int]
  BY DEF TypeOK, DirRecord
<1>4. pc'[i] = "poll" /\ Elsewhere(i)
  BY <1>1, <1>3 DEF SaveState, Goto, Elsewhere
<1>5. wake'[i] = now + 1 /\ \A j \in Instances \ {i} : wake'[j] = wake[j]
  BY <1>3 DEF SaveState, Tick
<1>6. /\ dirs'[dir[i]].saved = mem[i] /\ dirs'[dir[i]].file = "ok"
      /\ dirs'[dir[i]].tx = dirs[dir[i]].tx
      /\ \A s \in Sessions : s # dir[i] => dirs'[s] = dirs[s]
  BY <1>2, <1>3 DEF SaveState, DirRecord
<1> QED BY <1>1, <1>2, <1>4, <1>5, <1>6

LEMMA DeathEffects ==
  ASSUME TypeOK, NEW i \in Instances, Kill(i) \/ Cut(i)
  PROVE  /\ Live(i) /\ pc'[i] = "off" /\ Elsewhere(i) /\ UNCHANGED <<now, opened>>
         /\ Restarts' >= Restarts + 1 /\ Restarts \in Nat /\ Restarts' \in Nat
         /\ \A s \in Sessions : /\ dirs'[s].saved = dirs[s].saved /\ dirs'[s].tx = dirs[s].tx
                                /\ dirs'[s].file = dirs[s].file \/ dirs'[s].file = "torn"
                                /\ s # dir[i] => dirs'[s] = dirs[s]
<1>1. Live(i) /\ Dies(i) /\ UNCHANGED <<now, opened>> /\ (Fault("kill") \/ Fault("cut"))
  BY DEF Kill, Cut, At, Live, fileVars
<1>2. pc'[i] = "off" /\ Elsewhere(i)
  BY <1>1, DiesType DEF Elsewhere
<1>3. Restarts' >= Restarts + 1 /\ Restarts \in Nat /\ Restarts' \in Nat
  <2>1. faults \in [AllFaults -> Nat]
    BY DEF TypeOK
  <2>2. \/ faults' = [faults EXCEPT !["kill"] = @ + 1]
        \/ faults' = [faults EXCEPT !["cut"] = @ + 1]
    BY <1>1 DEF Fault
  <2> QED BY <2>1, <2>2 DEF Restarts, AllFaults
<1>4. dirs' = dirs \/ dirs' = [dirs EXCEPT ![dir[i]].file = "torn"]
  BY DEF Kill, Cut, fileVars
<1>5. dirs \in [Sessions -> DirRecord] /\ dir[i] \in Sessions
  BY <1>1, DirOfLive DEF TypeOK, DirRecord
<1> QED BY <1>1, <1>2, <1>3, <1>4, <1>5 DEF DirRecord

\* A launch opens a fresh directory or takes over the latest saved one.
LEMMA LaunchEffects ==
  ASSUME TypeInv, NEW i \in Instances, Launch(i)
  PROVE  /\ pc[i] = "off" /\ pc'[i] = "poll" /\ Elsewhere(i)
         /\ wake'[i] = now /\ UNCHANGED <<now, dirs>>
         /\ \/ /\ dir'[i] = opened + 1 /\ opened' = opened + 1 /\ opened + 1 \in Sessions
               /\ mem'[i] = FreshState(now) /\ dirs[opened + 1] = NoDir
            \/ /\ dir'[i] \in Sessions /\ dir'[i] <= opened /\ opened' = opened
               /\ dirs[dir'[i]].file = "ok" /\ mem'[i] = dirs[dir'[i]].saved
<1>1. /\ TypeOK /\ Unopened /\ opened \in 0..MaxSessions /\ MaxSessions \in Nat /\ now \in Nat
      /\ wake \in [Instances -> Int]
  BY SupervisorBounds DEF TypeInv, TypeOK
<1>2. pc[i] = "off" /\ UNCHANGED <<now, dirs>>
  BY DEF Launch, LaunchFresh, LaunchResume, MayLaunch, fileVars
<1>3. CASE LaunchFresh(i)
  <2>1. /\ opened + 1 \in Sessions /\ opened' = opened + 1
        /\ Begin(i, opened + 1, FreshState(now)) /\ FreshState(now) \in State
    BY <1>1, <1>3, FreshType DEF LaunchFresh, Sessions
  <2>2. dirs[opened + 1] = NoDir
    BY <1>1, <2>1 DEF Unopened
  <2>3. pc'[i] = "poll" /\ mem'[i] = FreshState(now) /\ dir'[i] = opened + 1 /\ Elsewhere(i)
    BY <1>1, <2>1, BeginType DEF Elsewhere
  <2> QED BY <1>1, <1>2, <2>1, <2>2, <2>3 DEF Begin
<1>4. CASE LaunchResume(i)
  <2>1. PICK s \in Sessions : dirs[s].file = "ok" /\ Begin(i, s, dirs[s].saved)
    BY <1>4 DEF LaunchResume
  <2>2. dirs[s].saved \in State /\ opened' = opened
    BY <1>1, <1>4 DEF TypeOK, LaunchResume, fileVars
  <2>3. pc'[i] = "poll" /\ mem'[i] = dirs[s].saved /\ dir'[i] = s /\ Elsewhere(i)
    BY <1>1, <2>1, <2>2, BeginType DEF Elsewhere
  <2>4. s <= opened
    BY <1>1, <2>1 DEF Unopened, NoDir, Sessions
  <2> QED BY <1>1, <1>2, <2>1, <2>2, <2>3, <2>4 DEF Begin
<1> QED BY <1>3, <1>4 DEF Launch

LEMMA OutsideEffects ==
  ASSUME CollectorRead \/ CollectorWrite \/ Minute \/ UNCHANGED vars
  PROVE  UNCHANGED <<pc, mem, dir, wake, dirs, opened>>
BY DEF CollectorRead, CollectorWrite, Minute, vars, procVars, fileVars

\* Every step is one of these.
LEMMA StepCases ==
  ASSUME [Next]_vars
  PROVE  \/ \E i \in Instances : \/ Launch(i) \/ Quiet(i) \/ PollResults(i) \/ SaveState(i)
                                 \/ Kill(i) \/ Cut(i)
         \/ CollectorRead \/ CollectorWrite \/ Minute \/ UNCHANGED vars
BY DEF Next, Results, Quiet

\* A step is one fault or none.
LEMMA FaultOrNot ==
  ASSUME [Next]_vars
  PROVE  NoFault \/ \E kind \in AllFaults : Fault(kind)
<1>1. ASSUME NEW kind, Fault(kind) PROVE kind \in AllFaults
  BY <1>1, SupervisorBounds DEF Fault
<1> QED BY <1>1 DEF Next, Launch, LaunchFresh, LaunchResume, MayLaunch, Results, SkipPoll,
        PollResults, PollFails, Odds, CheckOdds, Response, Rejected, NoResponse, Frozen, Freeze,
        WriteCsv, WriteDenied, SaveState, Finalize, Kill, Cut, CollectorRead, CollectorWrite,
        Minute, NoFault, vars, faultVars

LEMMA RestartsGrow ==
  ASSUME TypeOK, [Next]_vars
  PROVE  /\ Restarts \in Nat /\ Restarts' \in Nat /\ Restarts' >= Restarts
         /\ faults["twin"]' = 0 => faults["twin"] = 0
         /\ faults["slow"] \in Nat /\ faults["slow"]' \in Nat /\ faults["slow"]' >= faults["slow"]
<1>1. faults \in [AllFaults -> Nat]
  BY DEF TypeOK
<1>2. faults' = faults \/ \E kind \in AllFaults : faults' = [faults EXCEPT ![kind] = @ + 1]
  BY FaultOrNot DEF NoFault, faultVars, Fault
<1> QED BY <1>1, <1>2 DEF Restarts, AllFaults

\* Without a twin a launch finds nobody running.
LEMMA LaunchAlone ==
  ASSUME TypeOK, NEW i \in Instances, Launch(i), faults["twin"]' = 0
  PROVE  (\A j \in Instances : ~Live(j)) /\ UNCHANGED faultVars
<1>1. MayLaunch(i)
  BY DEF Launch, LaunchFresh, LaunchResume
<1>2. Others(i) = {} /\ NoFault
  BY <1>1, FaultAccount, ExcessType DEF MayLaunch
<1> QED BY <1>1, <1>2 DEF MayLaunch, Others, Live, NoFault

-----------------------------------------------------------------------------
(* Results are logged once *)

\* Nobody runs the session.
Idle(s) == \A i \in Instances : Live(i) => dir[i] # s

\* Between rounds a session's state is the saved one, or both are still fresh.
Synced(i) ==
  \/ dirs[dir[i]].saved = mem[i]
  \/ /\ dirs[dir[i]].file = "none" /\ dirs[dir[i]].saved = FreshState(0)
     /\ mem[i] = FreshState(mem[i].started)

SyncInv == faults["twin"] = 0 => \A i \in Instances : pc[i] = "poll" => Synced(i)

\* Without a twin the log holds a result once if the session has updated it, and
\* once more for each kill.
Once(st, m) == IF m \in st.elo THEN 1 ELSE 0

OnceInv ==
  faults["twin"] = 0 => \A m \in Matches :
    /\ \A i \in Instances : Live(i) => dirs[dir[i]].tx[m] <= Once(mem[i], m) + Restarts
    /\ \A s \in Sessions : Idle(s) => dirs[s].tx[m] <= Once(dirs[s].saved, m) + Restarts

\* Whatever happens, what a state calls updated is in the log of its session.
Logged(st, s) == \A m \in st.elo : dirs[s].tx[m] >= 1

LoggedInv ==
  /\ \A s \in Sessions : Logged(dirs[s].saved, s)
  /\ \A i \in Instances : pc[i] # "off" => dir[i] \in Sessions /\ Logged(mem[i], dir[i])

LEMMA SyncNext ==
  ASSUME TypeInv, CreditInv, SyncInv, [Next]_vars
  PROVE  SyncInv'
<1> SUFFICES ASSUME faults["twin"]' = 0, NEW j \in Instances, pc'[j] = "poll"
             PROVE  Synced(j)'
  BY DEF SyncInv
<1>1. TypeOK /\ faults["twin"] = 0 /\ Solo
  BY RestartsGrow DEF TypeInv, CreditInv
<1>2. pc[j] = "poll" => Synced(j) /\ Live(j) /\ (\A i \in Instances : Live(i) => i = j)
  BY <1>1 DEF SyncInv, Solo, Live
<1>3. ASSUME NEW i \in Instances, Launch(i) PROVE Synced(j)'
  <2>1. j = i
    BY <1>1, <1>2, <1>3, LaunchAlone, LaunchEffects DEF Elsewhere
  <2> QED BY <1>3, <2>1, LaunchEffects, FreshFields DEF Synced
<1>4. ASSUME NEW i \in Instances, Quiet(i) \/ PollResults(i) \/ Kill(i) \/ Cut(i) PROVE Synced(j)'
  <2>1. Live(i) /\ pc'[i] # "poll" /\ Elsewhere(i)
    BY <1>1, <1>4, QuietEffects, PollEffects, DeathEffects
  <2> QED BY <1>2, <2>1 DEF Elsewhere
<1>5. ASSUME NEW i \in Instances, SaveState(i) PROVE Synced(j)'
  <2>1. /\ Live(i) /\ Elsewhere(i) /\ pc[i] = "save"
        /\ dirs'[dir[i]].saved = mem[i] /\ mem' = mem /\ dir' = dir
    BY <1>1, <1>5, SaveEffects
  <2>2. j = i
    BY <1>2, <2>1 DEF Elsewhere
  <2> QED BY <2>1, <2>2 DEF Synced
<1>6. ASSUME CollectorRead \/ CollectorWrite \/ Minute \/ UNCHANGED vars PROVE Synced(j)'
  BY <1>2, <1>6, OutsideEffects DEF Synced
<1> QED BY <1>3, <1>4, <1>5, <1>6, StepCases

LEMMA OnceNext ==
  ASSUME TypeInv, CreditInv, SyncInv, OnceInv, [Next]_vars, NEW m \in Matches, faults["twin"]' = 0
  PROVE  /\ \A i \in Instances : Live(i)' => dirs'[dir'[i]].tx[m] <= Once(mem'[i], m) + Restarts'
         /\ \A s \in Sessions : Idle(s)' => dirs'[s].tx[m] <= Once(dirs'[s].saved, m) + Restarts'
<1> DEFINE Running(i) == dirs[dir[i]].tx[m] <= Once(mem[i], m) + Restarts
           Resting(s) == dirs[s].tx[m] <= Once(dirs[s].saved, m) + Restarts
<1> SUFFICES (\A i \in Instances : Live(i)' => Running(i)') /\ (\A s \in Sessions : Idle(s)' => Resting(s)')
  OBVIOUS
<1>1. /\ TypeOK /\ faults["twin"] = 0 /\ Solo
      /\ Restarts \in Nat /\ Restarts' \in Nat /\ Restarts' >= Restarts
      /\ \A i \in Instances : Live(i) => Running(i)
      /\ \A s \in Sessions : Idle(s) => Resting(s)
      /\ \A s \in Sessions : dirs[s].tx[m] \in Nat
      /\ \A st : Once(st, m) \in {0, 1}
  BY RestartsGrow DEF TypeInv, CreditInv, OnceInv, TypeOK, Once
<1>2. ASSUME NEW i \in Instances, Launch(i)
      PROVE  (\A j \in Instances : Live(j)' => Running(j)') /\ (\A s \in Sessions : Idle(s)' => Resting(s)')
  <2>1. (\A j \in Instances : ~Live(j)) /\ Restarts' = Restarts /\ dirs' = dirs
    BY <1>1, <1>2, LaunchAlone, LaunchEffects DEF faultVars, Restarts
  <2>2. \A s \in Sessions : Resting(s)
    BY <1>1, <2>1 DEF Idle
  <2>3. \A j \in Instances : Live(j)' => j = i
    BY <1>2, <2>1, LaunchEffects DEF Elsewhere, Live
  <2>4. /\ dir'[i] \in Sessions
        /\ \/ dirs[dir'[i]] = NoDir /\ mem'[i] = FreshState(now)
           \/ mem'[i] = dirs[dir'[i]].saved
    BY <1>2, LaunchEffects
  <2>5. mem'[i].elo = dirs[dir'[i]].saved.elo
    <3>1. CASE dirs[dir'[i]] = NoDir /\ mem'[i] = FreshState(now)
      BY <3>1, FreshFields
    <3>2. CASE mem'[i] = dirs[dir'[i]].saved
      BY <3>2
    <3> QED BY <2>4, <3>1, <3>2
  <2>6. Once(mem'[i], m) = Once(dirs[dir'[i]].saved, m)
    BY <2>5 DEF Once
  <2> QED BY <2>1, <2>2, <2>3, <2>4, <2>6
<1>3. ASSUME NEW i \in Instances, Live(i), Elsewhere(i), UNCHANGED dir,
             Live(i)' => Running(i)', ~Live(i)' => Resting(dir[i])',
             \A s \in Sessions : s # dir[i] => dirs'[s].tx = dirs[s].tx /\ dirs'[s].saved = dirs[s].saved
      PROVE  (\A j \in Instances : Live(j)' => Running(j)') /\ (\A s \in Sessions : Idle(s)' => Resting(s)')
  <2>1. \A j \in Instances : (Live(j) => j = i) /\ (Live(j)' => j = i)
    BY <1>1, <1>3 DEF Solo, Elsewhere, Live
  <2>2. ASSUME NEW s \in Sessions, Idle(s)' PROVE Resting(s)'
    <3>1. CASE s = dir[i]
      BY <1>3, <2>2, <3>1 DEF Idle
    <3>2. CASE s # dir[i]
      <4>1. Resting(s) /\ Once(dirs'[s].saved, m) = Once(dirs[s].saved, m)
        BY <1>1, <1>3, <2>1, <3>2 DEF Idle, Once
      <4> QED BY <1>1, <1>3, <3>2, <4>1
    <3> QED BY <3>1, <3>2
  <2> QED BY <1>3, <2>1, <2>2
<1>4. ASSUME NEW i \in Instances, Live(i)
      PROVE  dir[i] \in Sessions /\ Running(i) /\ dirs[dir[i]].tx[m] \in Nat
  BY <1>1, <1>4, DirOfLive
<1>5. ASSUME NEW i \in Instances, Quiet(i)
      PROVE  (\A j \in Instances : Live(j)' => Running(j)') /\ (\A s \in Sessions : Idle(s)' => Resting(s)')
  <2>1. /\ Live(i) /\ Elsewhere(i) /\ UNCHANGED <<dir, dirs>> /\ mem'[i].elo = mem[i].elo
        /\ pc'[i] = "ended" => pc[i] = "poll" /\ mem'[i] = mem[i]
        /\ pc'[i] # "off"
    BY <1>1, <1>5, QuietEffects DEF Finalize, At
  <2>2. Once(mem'[i], m) = Once(mem[i], m)
    BY <2>1 DEF Once
  <2>3. Live(i)' => Running(i)'
    BY <1>1, <1>4, <2>1, <2>2
  <2>4. ~Live(i)' => Resting(dir[i])'
    <3> SUFFICES ASSUME ~Live(i)' PROVE Resting(dir[i])'
      OBVIOUS
    <3>1. Synced(i)
      BY <1>1, <2>1 DEF Live, SyncInv
    <3>2. Once(dirs[dir[i]].saved, m) = Once(mem[i], m)
      BY <3>1 DEF Synced, Once, FreshState
    <3> QED BY <1>1, <1>4, <2>1, <3>2
  <2> QED BY <1>3, <2>1, <2>3, <2>4
<1>6. ASSUME NEW i \in Instances, PollResults(i)
      PROVE  (\A j \in Instances : Live(j)' => Running(j)') /\ (\A s \in Sessions : Idle(s)' => Resting(s)')
  <2>1. Live(i) /\ Live(i)' /\ Elsewhere(i) /\ UNCHANGED dir
    BY <1>1, <1>6, PollEffects DEF Live
  <2>2. mem'[i].elo = mem[i].elo \cup Finished
    BY <1>1, <1>6, PollEffects
  <2>3. dirs'[dir[i]].tx[m] = IF m \in Finished \ mem[i].elo THEN dirs[dir[i]].tx[m] + 1
                              ELSE dirs[dir[i]].tx[m]
    BY <1>1, <1>6, PollEffects
  <2>4. dirs'[dir[i]].tx[m] <= Once(mem'[i], m) + Restarts
    BY <1>1, <1>4, <2>1, <2>2, <2>3 DEF Once
  <2>5. Running(i)'
    <3>1. dirs'[dir[i]].tx[m] \in Nat /\ Once(mem'[i], m) \in {0, 1}
      BY <1>1, <1>4, <2>1, <2>3
    <3> QED BY <1>1, <2>1, <2>4, <3>1
  <2>6. \A s \in Sessions : s # dir[i] => dirs'[s].tx = dirs[s].tx /\ dirs'[s].saved = dirs[s].saved
    BY <1>1, <1>6, PollEffects
  <2> QED BY <1>3, <2>1, <2>5, <2>6
<1>7. ASSUME NEW i \in Instances, SaveState(i)
      PROVE  (\A j \in Instances : Live(j)' => Running(j)') /\ (\A s \in Sessions : Idle(s)' => Resting(s)')
  <2>1. /\ Live(i) /\ Live(i)' /\ Elsewhere(i) /\ UNCHANGED <<dir, mem>>
        /\ dirs'[dir[i]].tx = dirs[dir[i]].tx
        /\ \A s \in Sessions : s # dir[i] => dirs'[s] = dirs[s]
    BY <1>1, <1>7, SaveEffects DEF Live
  <2>2. Running(i)'
    BY <1>1, <1>4, <2>1
  <2> QED BY <1>3, <2>1, <2>2
<1>8. ASSUME NEW i \in Instances, Kill(i) \/ Cut(i)
      PROVE  (\A j \in Instances : Live(j)' => Running(j)') /\ (\A s \in Sessions : Idle(s)' => Resting(s)')
  <2>1. /\ Live(i) /\ ~Live(i)' /\ Elsewhere(i) /\ Restarts' >= Restarts + 1
        /\ \A s \in Sessions : dirs'[s].saved = dirs[s].saved /\ dirs'[s].tx = dirs[s].tx
    BY <1>1, <1>8, DeathEffects DEF Live
  <2>2. ASSUME NEW s \in Sessions, s = dir[i] PROVE Resting(s)'
    <3>1. dirs[s].tx[m] <= 1 + Restarts
      BY <1>1, <1>4, <2>1, <2>2
    <3>2. dirs'[s].tx[m] <= 1 + Restarts /\ Once(dirs'[s].saved, m) \in {0, 1}
      BY <1>1, <2>1, <3>1
    <3> QED BY <1>1, <2>1, <3>2
  <2>3. \A j \in Instances : (Live(j) => j = i) /\ ~Live(j)'
    BY <1>1, <2>1 DEF Solo, Elsewhere, Live
  <2>4. ASSUME NEW s \in Sessions PROVE Resting(s)'
    <3>1. CASE s = dir[i]
      BY <2>2, <3>1
    <3>2. CASE s # dir[i]
      <4>1. Resting(s) /\ Once(dirs'[s].saved, m) = Once(dirs[s].saved, m)
        BY <1>1, <2>1, <2>3, <3>2 DEF Idle, Once
      <4> QED BY <1>1, <2>1, <4>1
    <3> QED BY <3>1, <3>2
  <2> QED BY <2>3, <2>4
<1>9. ASSUME CollectorRead \/ CollectorWrite \/ Minute \/ UNCHANGED vars
      PROVE  (\A j \in Instances : Live(j)' => Running(j)') /\ (\A s \in Sessions : Idle(s)' => Resting(s)')
  <2>1. UNCHANGED <<pc, mem, dir, dirs>>
    BY <1>9, OutsideEffects
  <2>2. \A i \in Instances : Live(i)' => Running(i)'
    BY <1>1, <1>4, <2>1 DEF Live
  <2>3. \A s \in Sessions : Idle(s)' => Resting(s)'
    BY <1>1, <2>1 DEF Idle, Live
  <2> QED BY <2>2, <2>3
<1> QED BY <1>2, <1>5, <1>6, <1>7, <1>8, <1>9, StepCases

LEMMA LoggedNext == TypeInv /\ LoggedInv /\ [Next]_vars => LoggedInv'
<1> SUFFICES ASSUME TypeInv, LoggedInv, [Next]_vars PROVE LoggedInv'
  OBVIOUS
<1>0. TypeOK
  BY DEF TypeInv
<1>1. ASSUME NEW i \in Instances, Launch(i) PROVE LoggedInv'
  <2>1. /\ dirs' = dirs /\ Elsewhere(i) /\ dir'[i] \in Sessions
        /\ mem'[i] = dirs[dir'[i]].saved \/ mem'[i].elo = {}
    BY <1>1, LaunchEffects DEF FreshState
  <2> QED BY <2>1 DEF LoggedInv, Logged, Elsewhere
<1>2. ASSUME NEW i \in Instances, Quiet(i) PROVE LoggedInv'
  <2>1. UNCHANGED <<dir, dirs>> /\ Elsewhere(i) /\ mem'[i].elo = mem[i].elo /\ pc[i] # "off"
    BY <1>0, <1>2, QuietEffects DEF Live
  <2> QED BY <2>1 DEF LoggedInv, Logged, Elsewhere
<1>3. ASSUME NEW i \in Instances, PollResults(i) PROVE LoggedInv'
  <2>1. /\ UNCHANGED dir /\ Elsewhere(i) /\ mem'[i].elo = mem[i].elo \cup Finished /\ pc[i] # "off"
        /\ dir[i] \in Sessions
    BY <1>0, <1>3, PollEffects, DirOfLive DEF Live
  <2>2. \A m \in Matches : dirs'[dir[i]].tx[m] =
          IF m \in Finished \ mem[i].elo THEN dirs[dir[i]].tx[m] + 1 ELSE dirs[dir[i]].tx[m]
    BY <1>0, <1>3, PollEffects
  <2>3. \A s \in Sessions : /\ dirs'[s].saved = dirs[s].saved
                            /\ s # dir[i] => dirs'[s].tx = dirs[s].tx
    BY <1>0, <1>3, PollEffects
  <2>4. ASSUME NEW s \in Sessions, NEW m \in Matches, dirs[s].tx[m] >= 1
        PROVE  dirs'[s].tx[m] >= 1
    <3>1. dirs[s].tx[m] \in Nat
      BY <1>0 DEF TypeOK
    <3> QED BY <2>2, <2>3, <2>4, <3>1
  <2>5. /\ \A s \in Sessions : dirs[s].saved.elo \subseteq Matches
        /\ \A j \in Instances : mem[j].elo \subseteq Matches
        /\ Finished \subseteq Matches
    BY <1>0 DEF TypeOK, State, Finished
  <2>6. \A s \in Sessions : Logged(dirs[s].saved, s)'
    BY <2>3, <2>4, <2>5 DEF LoggedInv, Logged
  <2>7. \A j \in Instances \ {i} : pc'[j] # "off" => dir'[j] \in Sessions /\ Logged(mem[j], dir[j])'
    BY <2>1, <2>4, <2>5 DEF LoggedInv, Logged, Elsewhere
  <2>8. Logged(mem[i], dir[i])'
    <3> SUFFICES ASSUME NEW m \in mem'[i].elo PROVE dirs'[dir[i]].tx[m] >= 1
      BY <2>1 DEF Logged
    <3>1. m \in Matches /\ dirs[dir[i]].tx[m] \in Nat
      BY <1>0, <2>1, <2>5 DEF TypeOK
    <3>2. m \in mem[i].elo => dirs[dir[i]].tx[m] >= 1
      BY <2>1 DEF LoggedInv, Logged
    <3> QED BY <2>1, <2>2, <3>1, <3>2
  <2> QED BY <2>1, <2>6, <2>7, <2>8 DEF LoggedInv
<1>4. ASSUME NEW i \in Instances, SaveState(i) PROVE LoggedInv'
  <2>1. /\ UNCHANGED <<mem, dir>> /\ Elsewhere(i) /\ pc[i] # "off" /\ dir[i] \in Sessions
        /\ dirs'[dir[i]].saved = mem[i] /\ dirs'[dir[i]].tx = dirs[dir[i]].tx
        /\ \A s \in Sessions : s # dir[i] => dirs'[s] = dirs[s]
    BY <1>0, <1>4, SaveEffects
  <2>2. \A s \in Sessions : dirs'[s].tx = dirs[s].tx
    BY <2>1
  <2> QED BY <2>1, <2>2 DEF LoggedInv, Logged, Elsewhere
<1>5. ASSUME NEW i \in Instances, Kill(i) \/ Cut(i) PROVE LoggedInv'
  BY <1>0, <1>5, DeathEffects DEF LoggedInv, Logged, Elsewhere
<1>6. ASSUME CollectorRead \/ CollectorWrite \/ Minute \/ UNCHANGED vars PROVE LoggedInv'
  BY <1>6, OutsideEffects DEF LoggedInv, Logged
<1> QED BY <1>1, <1>2, <1>3, <1>4, <1>5, <1>6, StepCases

-----------------------------------------------------------------------------
(* Every result is logged in time *)

\* What left the allowance was slow minutes, or more than those.
SlowInv ==
  /\ left + faults["slow"] <= MaxFaults
  /\ OnlySlow => \A k \in AllFaults \ {"slow"} : faults[k] = 0

\* The state holds every result that was there at its latest poll.
Caught(st) ==
  st.fd >= 0 /\ \A m \in Matches : Kickoff[m] + GameLength <= st.fd => m \in st.elo

\* The latest poll of a session was an interval before its deadline at the earliest.
Closed(st) == Caught(st) /\ st.started + Duration <= st.fd + Interval + faults["slow"]

\* A live instance waits for its first poll, has polled an interval ago at the
\* earliest, or has taken over a session that is past its deadline.
FirstRound(i) ==
  /\ pc[i] = "poll" /\ mem[i].fd = Never /\ wake[i] <= now
  /\ now <= mem[i].started + faults["slow"]

Recent(i) ==
  /\ Caught(mem[i])
  /\ IF pc[i] = "poll"
       THEN /\ wake[i] <= mem[i].fd + Interval + faults["slow"]
            /\ now <= mem[i].fd + Interval + faults["slow"]
       ELSE now < mem[i].fd + Interval + faults["slow"]

Expired(i) == pc[i] = "poll" /\ Closed(mem[i]) /\ Deadline(i) <= now

PollInv ==
  OnlySlow =>
    /\ \A i \in Instances : /\ Live(i) => FirstRound(i) \/ Recent(i) \/ Expired(i)
                            /\ pc[i] = "ended" => Closed(mem[i])
    /\ \A s \in Sessions : Idle(s) /\ dirs[s].file # "none" =>
         Closed(dirs[s].saved) /\ dirs[s].saved.started + Duration <= now

\* A step after which everything was slow at worst began like that, and was none of
\* the other faults.
LEMMA OnlySlowStep ==
  ASSUME TypeOK, SlowInv, [Next]_vars, OnlySlow'
  PROVE  /\ OnlySlow /\ faults["twin"]' = 0 /\ Restarts' = 0
         /\ \A k : Fault(k) => k = "slow"
<1>1. /\ faults \in [AllFaults -> Nat] /\ left \in Nat /\ MaxFaults \in Nat
  BY SupervisorBounds DEF TypeOK
<1>2. ASSUME NEW k, Fault(k), k # "slow" PROVE FALSE
  <2>1. left' = left - 1 /\ faults'["slow"] = faults["slow"]
    BY <1>1, <1>2 DEF Fault, AllFaults
  <2> QED BY <1>1, <2>1 DEF SlowInv, OnlySlow, AllFaults
<1>3. OnlySlow
  <2>1. CASE Fault("slow")
    <3>1. left' = left - 1 /\ faults'["slow"] = faults["slow"] + 1
      BY <1>1, <2>1 DEF Fault, AllFaults
    <3> QED BY <1>1, <3>1 DEF OnlySlow, AllFaults
  <2>2. CASE NoFault
    BY <2>2 DEF NoFault, faultVars, OnlySlow
  <2> QED BY <1>2, <2>1, <2>2, FaultOrNot
<1>4. \A k \in AllFaults \ {"slow"} : faults'[k] = 0
  <2>1. CASE Fault("slow")
    BY <1>1, <1>3, <2>1 DEF Fault, SlowInv, AllFaults
  <2>2. CASE NoFault
    BY <1>3, <2>2 DEF NoFault, faultVars, SlowInv
  <2> QED BY <1>2, <2>1, <2>2, FaultOrNot
<1> QED BY <1>2, <1>3, <1>4 DEF Restarts, AllFaults

LEMMA SlowNext == TypeOK /\ SlowInv /\ [Next]_vars => SlowInv'
<1> SUFFICES ASSUME TypeOK, SlowInv, [Next]_vars PROVE SlowInv'
  OBVIOUS
<1>1. /\ faults \in [AllFaults -> Nat] /\ left \in Nat /\ MaxFaults \in Nat
  BY SupervisorBounds DEF TypeOK
<1>2. left' + faults'["slow"] <= MaxFaults
  <2>1. ASSUME NEW k \in AllFaults, Fault(k) PROVE left' + faults'["slow"] <= MaxFaults
    <3>1. left' = left - 1 /\ faults'["slow"] \in {faults["slow"], faults["slow"] + 1}
      BY <1>1, <2>1 DEF Fault, AllFaults
    <3> QED BY <1>1, <3>1 DEF SlowInv, AllFaults
  <2>2. CASE NoFault
    BY <2>2 DEF NoFault, faultVars, SlowInv
  <2> QED BY <2>1, <2>2, FaultOrNot
<1>3. ASSUME OnlySlow' PROVE \A k \in AllFaults \ {"slow"} : faults'[k] = 0
  <2>1. OnlySlow /\ \A k : Fault(k) => k = "slow"
    BY <1>3, OnlySlowStep
  <2>2. CASE Fault("slow")
    BY <1>1, <2>1, <2>2 DEF Fault, SlowInv, AllFaults
  <2>3. CASE NoFault
    BY <2>1, <2>3 DEF NoFault, faultVars, SlowInv
  <2> QED BY <2>1, <2>2, <2>3, FaultOrNot
<1> QED BY <1>2, <1>3 DEF SlowInv

LEMMA SlowInit == Init => SlowInv
BY SupervisorBounds DEF Init, SlowInv, AllFaults

\* Without faults but slow minutes a round is one of these steps, and a poll that
\* has gone well is followed by others in the interval.
LEMMA PollNext ==
  ASSUME MaxFaults < Duration, TypeInv, CreditInv, SyncInv, SlowInv, PollInv, [Next]_vars
  PROVE  PollInv'
<1> SUFFICES ASSUME OnlySlow'
             PROVE  /\ \A i \in Instances :
                         /\ Live(i)' => FirstRound(i)' \/ Recent(i)' \/ Expired(i)'
                         /\ pc'[i] = "ended" => Closed(mem[i])'
                    /\ \A s \in Sessions : Idle(s)' /\ dirs'[s].file # "none" =>
                         Closed(dirs[s].saved)' /\ dirs'[s].saved.started + Duration <= now'
  BY DEF PollInv
<1> USE DEF Interval
<1>0. /\ TypeOK /\ OnlySlow /\ faults["twin"]' = 0 /\ faults["twin"] = 0 /\ Solo
      /\ \A k : Fault(k) => k = "slow"
      /\ Duration \in Nat /\ now \in Nat
      /\ faults["slow"] \in Nat /\ faults["slow"]' \in Nat /\ faults["slow"] <= faults["slow"]'
      /\ faults["slow"] <= MaxFaults /\ MaxFaults \in Nat
  BY OnlySlowStep, RestartsGrow, SupervisorBounds DEF TypeInv, TypeOK, CreditInv, SlowInv, AllFaults
<1>1. /\ \A i \in Instances : Live(i) => FirstRound(i) \/ Recent(i) \/ Expired(i)
      /\ \A i \in Instances : pc[i] = "ended" => Closed(mem[i])
      /\ \A s \in Sessions : Idle(s) /\ dirs[s].file # "none" =>
           Closed(dirs[s].saved) /\ dirs[s].saved.started + Duration <= now
      /\ \A i \in Instances : pc[i] = "poll" => Synced(i)
      /\ \A i \in Instances : mem[i] \in State /\ mem[i].fd \in Int /\ mem[i].started \in Int
                                /\ wake[i] \in Int
      /\ \A s \in Sessions : dirs[s].saved.fd \in Int /\ dirs[s].saved.started \in Int
  BY <1>0 DEF PollInv, SyncInv, TypeOK, State
<1>2. \A st : st.fd \in Int /\ st.started \in Int /\ Closed(st)
                => /\ Caught(st)
                   /\ st.started + Duration <= st.fd + Interval + faults["slow"]'
  BY <1>0 DEF Closed
<1>3. ASSUME NEW i \in Instances, Launch(i) PROVE PollInv'
  <2>1. /\ \A j \in Instances : ~Live(j)
        /\ UNCHANGED faultVars
    BY <1>0, <1>3, LaunchAlone
  <2>2. /\ pc'[i] = "poll" /\ Elsewhere(i) /\ wake'[i] = now /\ UNCHANGED <<now, dirs>>
    BY <1>3, LaunchEffects
  <2>3. \A j \in Instances \ {i} : ~Live(j)' /\ (pc'[j] = "ended" => Closed(mem[j])')
    BY <1>1, <2>1, <2>2 DEF Live, Elsewhere, Closed, Caught, faultVars
  <2>4. FirstRound(i)' \/ Expired(i)'
    <3>1. CASE mem'[i] = FreshState(now)
      BY <1>0, <2>1, <2>2, <3>1, FreshFields DEF FirstRound, faultVars
    <3>2. CASE dir'[i] \in Sessions /\ dirs[dir'[i]].file = "ok" /\ mem'[i] = dirs[dir'[i]].saved
      <4>1. Closed(dirs[dir'[i]].saved) /\ dirs[dir'[i]].saved.started + Duration <= now
        BY <1>1, <2>1, <3>2 DEF Idle
      <4> QED BY <2>1, <2>2, <3>2, <4>1 DEF Expired, Deadline, Closed, Caught, faultVars
    <3> QED BY <1>3, <3>1, <3>2, LaunchEffects
  <2>5. \A s \in Sessions : dirs'[s].file # "none" =>
           Closed(dirs[s].saved)' /\ dirs'[s].saved.started + Duration <= now'
    BY <1>1, <2>1, <2>2 DEF Idle, Closed, Caught, faultVars
  <2> QED BY <2>2, <2>3, <2>4, <2>5 DEF PollInv
<1>4. ASSUME NEW i \in Instances, Live(i), Elsewhere(i), UNCHANGED <<now, dir>>,
             \A s \in Sessions : s # dir[i] => dirs'[s].saved = dirs[s].saved /\ dirs'[s].file = dirs[s].file,
             Live(i)' => FirstRound(i)' \/ Recent(i)' \/ Expired(i)',
             pc'[i] # "off",
             pc'[i] = "ended" =>
               /\ Closed(mem[i])'
               /\ dirs'[dir[i]].file # "none" =>
                    Closed(dirs[dir[i]].saved)' /\ dirs'[dir[i]].saved.started + Duration <= now'
      PROVE  PollInv'
  <2>1. \A j \in Instances : (Live(j) => j = i) /\ (Live(j)' => j = i)
    BY <1>0, <1>4 DEF Solo, Elsewhere, Live
  <2>2. \A j \in Instances \ {i} : pc'[j] = "ended" => Closed(mem[j])'
    BY <1>1, <1>2, <1>4 DEF Elsewhere, Closed, Caught
  <2>3. ASSUME NEW s \in Sessions, Idle(s)', dirs'[s].file # "none"
        PROVE  Closed(dirs[s].saved)' /\ dirs'[s].saved.started + Duration <= now'
    <3>1. CASE s = dir[i]
      BY <1>4, <2>3, <3>1 DEF Idle, Live
    <3>2. CASE s # dir[i]
      <4>1. Idle(s) /\ dirs'[s].saved = dirs[s].saved /\ dirs'[s].file = dirs[s].file
        BY <1>4, <2>1, <3>2 DEF Idle
      <4>2. Closed(dirs[s].saved) /\ dirs[s].saved.started + Duration <= now
        BY <1>1, <2>3, <4>1
      <4> QED BY <1>1, <1>2, <1>4, <4>1, <4>2 DEF Closed, Caught
    <3> QED BY <3>1, <3>2
  <2> QED BY <1>4, <2>1, <2>2, <2>3 DEF PollInv
<1>5. ASSUME NEW i \in Instances, Quiet(i), ~Finalize(i) PROVE PollInv'
  <2>1. /\ Live(i) /\ Live(i)' /\ pc'[i] # "poll" /\ Elsewhere(i) /\ UNCHANGED <<now, dir, dirs>>
        /\ mem'[i].elo = mem[i].elo /\ mem'[i].started = mem[i].started
        /\ mem'[i].fd = mem[i].fd /\ pc'[i] \notin {"off", "ended"}
    BY <1>0, <1>5, QuietEffects DEF Live, PollFails
  <2>2. /\ Caught(mem[i]) /\ now < mem[i].fd + Interval + faults["slow"]
    <3>1. CASE pc[i] # "poll"
      BY <1>1, <2>1, <3>1 DEF FirstRound, Recent, Expired
    <3>2. CASE pc[i] = "poll"
      <4>1. SkipPoll(i)
        BY <1>0, <1>5, <3>2 DEF Quiet, PollFails, Odds, CheckOdds, Response, Rejected, NoResponse,
           Frozen, Freeze, WriteCsv, WriteDenied, At
      <4>2. now < Deadline(i) /\ now - mem[i].fd < 10
        BY <1>0, <1>1, <4>1 DEF SkipPoll, PollDue, Elapsed
      <4>3. Recent(i)
        BY <1>0, <1>1, <2>1, <4>2 DEF FirstRound, Expired, Deadline, Never
      <4> QED BY <1>0, <1>1, <4>2, <4>3 DEF Recent
    <3> QED BY <3>1, <3>2
  <2>3. Recent(i)'
    BY <1>0, <1>1, <2>1, <2>2 DEF Recent, Caught
  <2> QED BY <1>4, <2>1, <2>3
<1>6. ASSUME NEW i \in Instances, Finalize(i) PROVE PollInv'
  <2>1. /\ Live(i) /\ pc[i] = "poll" /\ pc'[i] = "ended" /\ Elsewhere(i) /\ Deadline(i) <= now
        /\ UNCHANGED <<now, mem, dir, dirs, faultVars>>
    BY <1>0, <1>6 DEF Finalize, At, Live, Goto, Elsewhere, TypeOK, fileVars
  <2>2. Closed(mem[i])
    <3>1. ~FirstRound(i)
      BY <1>0, <1>1, <2>1 DEF FirstRound, Deadline
    <3>2. CASE Recent(i)
      BY <1>0, <1>1, <2>1, <3>2 DEF Recent, Closed, Deadline
    <3> QED BY <1>1, <2>1, <3>1, <3>2 DEF Expired
  <2>3. dir[i] \in Sessions
    BY <1>0, <2>1, DirOfLive
  <2>4. dirs[dir[i]].file # "none" => dirs[dir[i]].saved = mem[i]
    BY <1>1, <2>1 DEF Synced
  <2>5. /\ Closed(mem[i])'
        /\ dirs'[dir[i]].file # "none" =>
             Closed(dirs[dir[i]].saved)' /\ dirs'[dir[i]].saved.started + Duration <= now'
    BY <2>1, <2>2, <2>4 DEF Closed, Caught, Deadline, faultVars
  <2> QED BY <1>4, <2>1, <2>5 DEF Live
<1>7. ASSUME NEW i \in Instances, PollResults(i) PROVE PollInv'
  <2>1. /\ Live(i) /\ Live(i)' /\ pc'[i] = "odds" /\ Elsewhere(i) /\ UNCHANGED <<now, dir, faultVars>>
        /\ mem'[i].elo = mem[i].elo \cup Finished /\ mem'[i].fd = now
        /\ \A s \in Sessions : dirs'[s].saved = dirs[s].saved /\ dirs'[s].file = dirs[s].file
    BY <1>0, <1>7, PollEffects DEF Live
  <2>2. Caught(mem[i])'
    BY <1>0, <2>1, SupervisorBounds DEF Caught, Finished
  <2>3. Recent(i)'
    BY <1>0, <2>1, <2>2 DEF Recent
  <2> QED BY <1>4, <2>1, <2>3
<1>8. ASSUME NEW i \in Instances, SaveState(i) PROVE PollInv'
  <2>1. /\ Live(i) /\ Live(i)' /\ pc[i] = "save" /\ pc'[i] = "poll" /\ Elsewhere(i)
        /\ wake'[i] = now + 1 /\ UNCHANGED <<now, mem, dir, faultVars>>
        /\ \A s \in Sessions : s # dir[i] => dirs'[s] = dirs[s]
    BY <1>0, <1>8, SaveEffects DEF Live
  <2>2. Caught(mem[i]) /\ now < mem[i].fd + Interval + faults["slow"]
    BY <1>1, <2>1 DEF FirstRound, Recent, Expired
  <2>3. Recent(i)'
    BY <1>0, <1>1, <2>1, <2>2 DEF Recent, Caught, faultVars
  <2> QED BY <1>4, <2>1, <2>3
<1>9. ASSUME NEW i \in Instances, Kill(i) \/ Cut(i) PROVE PollInv'
  BY <1>0, <1>9 DEF Kill, Cut
<1>10. ASSUME CollectorRead \/ CollectorWrite \/ Minute \/ UNCHANGED vars PROVE PollInv'
  <2>1. UNCHANGED <<pc, mem, dir, wake, dirs>>
    BY <1>10, OutsideEffects
  <2>2. /\ now' \in Nat /\ now <= now'
        /\ \/ now' = now
           \/ /\ now' = now + 1
              /\ \/ faults["slow"]' = faults["slow"] + 1
                 \/ faults["slow"]' = faults["slow"] /\ \A i \in Instances : ~Busy(i)
    BY <1>0, <1>10, FaultType DEF CollectorRead, CollectorWrite, Minute, vars, NoFault, faultVars
  <2>3. ASSUME NEW i \in Instances, Live(i)' PROVE FirstRound(i)' \/ Recent(i)' \/ Expired(i)'
    <3>1. Live(i) /\ (now' = now + 1 /\ faults["slow"]' # faults["slow"] + 1 => pc[i] = "poll" /\ wake[i] > now)
      BY <2>1, <2>2, <2>3 DEF Live, Busy, At
    <3>2. CASE FirstRound(i)
      BY <1>0, <1>1, <2>1, <2>2, <3>1, <3>2 DEF FirstRound
    <3>3. CASE Recent(i)
      <4>1. Caught(mem[i])'
        BY <2>1, <3>3 DEF Recent, Caught
      <4> QED BY <1>0, <1>1, <2>1, <2>2, <3>1, <3>3, <4>1 DEF Recent
    <3>4. CASE Expired(i)
      <4>1. Closed(mem[i])'
        BY <1>0, <1>1, <2>1, <3>4 DEF Expired, Closed, Caught
      <4> QED BY <1>0, <1>1, <2>1, <2>2, <3>4, <4>1 DEF Expired, Deadline
    <3> QED BY <1>1, <3>1, <3>2, <3>3, <3>4
  <2>4. \A i \in Instances : pc'[i] = "ended" => Closed(mem[i])'
    BY <1>1, <1>2, <2>1 DEF Closed, Caught
  <2>5. ASSUME NEW s \in Sessions, Idle(s)', dirs'[s].file # "none"
        PROVE  Closed(dirs[s].saved)' /\ dirs'[s].saved.started + Duration <= now'
    <3>1. Closed(dirs[s].saved) /\ dirs[s].saved.started + Duration <= now
      BY <1>1, <2>1, <2>5 DEF Idle, Live
    <3> QED BY <1>0, <1>1, <1>2, <2>1, <2>2, <3>1 DEF Closed, Caught
  <2> QED BY <2>3, <2>4, <2>5 DEF PollInv
<1> QED BY <1>3, <1>5, <1>6, <1>7, <1>8, <1>9, <1>10, StepCases DEF PollInv

\* "idempotent: never update Elo twice" (five_hour_supervisor.py:227), and no result
\* is left out: for any kills, cuts, failed requests and resumes a result is logged
\* once and once more for each of them, and when nothing but slow rounds happened a
\* session that lasts longer than those has logged, exactly once, every result that
\* was there an interval before its deadline.
THEOREM ResultsAreRecorded ==
  ASSUME MaxFaults < Duration
  PROVE  Spec => []ResultsRecorded
<1> DEFINE ResultInv == SyncInv /\ OnceInv /\ LoggedInv /\ SlowInv /\ PollInv
<1>1. Init => CreditInv /\ ResultInv
  <2> SUFFICES ASSUME Init PROVE CreditInv /\ ResultInv
    OBVIOUS
  <2>1. /\ \A i \in Instances : pc[i] = "off"
        /\ \A s \in Sessions : dirs[s] = NoDir /\ billed[s] = 0
        /\ \A s \in Sessions, m \in Matches : dirs[s].tx[m] = 0
        /\ faults \in [AllFaults -> Nat] /\ \A k \in AllFaults : faults[k] = 0
    BY DEF Init, NoDir
  <2>2. Excess = 0 /\ Restarts = 0
    BY <2>1 DEF Excess, Restarts, AllFaults
  <2>3. CreditInv
    BY <2>1, <2>2, FreshFields, SupervisorBounds DEF CreditInv, Solo, RunningAccount, IdleAccount, Live
  <2>4. SyncInv /\ OnceInv /\ LoggedInv /\ PollInv
    BY <2>1, <2>2, FreshFields DEF SyncInv, OnceInv, LoggedInv, PollInv, Live, Once, Logged
  <2> QED BY <2>3, <2>4, SlowInit
<1>2. TypeInv /\ CreditInv /\ ResultInv /\ [Next]_vars => ResultInv'
  <2> SUFFICES ASSUME TypeInv, CreditInv, ResultInv, [Next]_vars PROVE ResultInv'
    OBVIOUS
  <2>1. SyncInv' /\ LoggedInv' /\ SlowInv' /\ PollInv'
    BY SyncNext, LoggedNext, SlowNext, PollNext DEF TypeInv
  <2>2. OnceInv'
    BY OnceNext DEF OnceInv
  <2> QED BY <2>1, <2>2
<1>3. TypeInv /\ ResultInv => ResultsRecorded
  <2> SUFFICES ASSUME TypeInv, ResultInv PROVE ResultsRecorded
    OBVIOUS
  <2>1. /\ TypeOK /\ Restarts \in Nat
        /\ \A s \in Sessions, m \in Matches : dirs[s].tx[m] \in Nat
        /\ \A st, m : Once(st, m) \in {0, 1}
        /\ \A i \in Instances : Live(i) => dir[i] \in Sessions
    BY ExcessType, DirOfLive DEF TypeInv, TypeOK, Once
  <2>2. ASSUME faults["twin"] = 0, NEW s \in Sessions, NEW m \in Matches
        PROVE  dirs[s].tx[m] <= 1 + Restarts
    <3>1. \/ dirs[s].tx[m] <= Once(dirs[s].saved, m) + Restarts
          \/ \E i \in Instances : dirs[s].tx[m] <= Once(mem[i], m) + Restarts
      BY <2>2 DEF OnceInv, Idle
    <3> QED BY <2>1, <3>1
  <2>3. ASSUME OnlySlow, NEW i \in Instances, NEW m \in Matches, pc[i] = "ended",
               Kickoff[m] + GameLength + Interval + Tick + faults["slow"] < Deadline(i)
        PROVE  dirs[dir[i]].tx[m] = 1
    <3>1. faults["twin"] = 0 /\ Restarts = 0
      BY <2>3 DEF SlowInv, AllFaults, Restarts
    <3>2. Closed(mem[i])
      BY <2>3 DEF PollInv
    <3>3. m \in mem[i].elo
      <4>1. /\ mem[i].fd \in Int /\ mem[i].started \in Int /\ faults["slow"] \in Nat
            /\ Kickoff[m] \in Int /\ GameLength \in Nat /\ Duration \in Nat
        BY <2>1, SupervisorBounds DEF TypeOK, State, AllFaults
      <4>2. Kickoff[m] + GameLength <= mem[i].fd
        BY <2>3, <3>2, <4>1 DEF Closed, Deadline, Interval, Tick
      <4> QED BY <3>2, <4>2 DEF Closed, Caught
    <3>4. dir[i] \in Sessions /\ dirs[dir[i]].tx[m] >= 1
      BY <2>3, <3>3 DEF LoggedInv, Logged
    <3>5. dirs[dir[i]].tx[m] <= 1
      BY <2>1, <2>2, <3>1, <3>4
    <3> QED BY <2>1, <3>4, <3>5
  <2> QED BY <2>2, <2>3 DEF ResultsRecorded
<1> HIDE DEF ResultInv
<1> QED BY TypeInit, TypeNext, CreditNext, <1>1, <1>2, <1>3, PTL DEF Spec

-----------------------------------------------------------------------------
(* Captures are taken once *)

\* Every row of a capture: in the CSV, in what the collector will write back, and
\* in what an instance is about to write.
AllRows == pred.rows \cup other.rows \cup UNION {merged[i] : i \in Instances}
Held(m, t) == {r \in AllRows : r.match = m /\ r.type = t}

\* The instances that can still take it: they have not marked it and have time left.
MayCapture(m, t) ==
  {i \in Instances : /\ Live(i) /\ t \notin mem[i].done[m]
                     /\ ~(pc[i] = "poll" /\ Deadline(i) <= now)}

Allowance == 1 + Restarts + faults["twin"]

Tally(rows, takers, n) ==
  IsFiniteSet(rows) /\ IsFiniteSet(takers) /\ Cardinality(rows) + Cardinality(takers) <= n

\* Nobody runs the session, which has a state to resume and time left.
Resumable ==
  /\ \A i \in Instances : ~Live(i)
  /\ dirs[1].file = "ok" /\ now < dirs[1].saved.started + Duration

\* The rows and those who may still add one stay within the allowance, and leave a
\* place for the instance that would resume the session.
Counted(m, t) ==
  /\ Tally(Held(m, t), MayCapture(m, t), Allowance)
  /\ Resumable => Tally(Held(m, t), {}, Allowance - 1)

\* The instances of the one session agree on when it started.
OneStart ==
  \A i \in Instances : Live(i) =>
    /\ dirs[1].file = "ok" => dirs[1].saved.started = mem[i].started
    /\ \A j \in Instances : Live(j) => mem[i].started = mem[j].started

CountInv ==
  /\ opened = 0 => AllRows = {}
  /\ opened = 1 => OneStart /\ \A m \in Matches, t \in Types : Counted(m, t)

LEMMA TallyShrinks ==
  ASSUME NEW rows, NEW takers, NEW n \in Int, Tally(rows, takers, n),
         NEW rows2 \in SUBSET rows, NEW takers2 \in SUBSET takers, NEW n2 \in Int, n <= n2
  PROVE  Tally(rows2, takers2, n2)
<1>1. /\ IsFiniteSet(rows) /\ IsFiniteSet(takers)
      /\ Cardinality(rows) + Cardinality(takers) <= n
  BY DEF Tally
<1>2. /\ IsFiniteSet(rows2) /\ Cardinality(rows2) <= Cardinality(rows)
  BY <1>1, FS_Subset
<1>3. /\ IsFiniteSet(takers2) /\ Cardinality(takers2) <= Cardinality(takers)
  BY <1>1, FS_Subset
<1>4. /\ Cardinality(rows) \in Nat /\ Cardinality(rows2) \in Nat
      /\ Cardinality(takers) \in Nat /\ Cardinality(takers2) \in Nat
  BY <1>1, <1>2, <1>3, FS_CardinalityType
<1> QED BY <1>1, <1>2, <1>3, <1>4 DEF Tally

OneMore(new, old) == \E x : new \subseteq old \cup {x}
OneFewer(new, old) == \E x \in old : new \subseteq old \ {x}

\* One who may take a capture takes it.
LEMMA TallyMoves ==
  ASSUME NEW rows, NEW takers, NEW n \in Int, Tally(rows, takers, n), 
         NEW rows2, OneMore(rows2, rows), NEW takers2, OneFewer(takers2, takers), NEW n2 \in Int, n <= n2
  PROVE  Tally(rows2, takers2, n2)
<1> PICK row : rows2 \subseteq rows \cup {row}
  BY DEF OneMore
<1> PICK i \in takers : takers2 \subseteq takers \ {i}
  BY DEF OneFewer
<1>1. /\ IsFiniteSet(rows) /\ IsFiniteSet(takers)
      /\ Cardinality(rows) + Cardinality(takers) <= n
      /\ Cardinality(rows) \in Nat /\ Cardinality(takers) \in Nat
  BY FS_CardinalityType DEF Tally
<1>2. /\ IsFiniteSet(rows \cup {row})
      /\ Cardinality(rows \cup {row}) = IF row \in rows THEN Cardinality(rows)
                                      ELSE Cardinality(rows) + 1
  BY <1>1, FS_AddElement
<1>3. /\ IsFiniteSet(takers \ {i}) /\ Cardinality(takers \ {i}) = Cardinality(takers) - 1
  BY <1>1, FS_RemoveElement
<1>4. Tally(rows \cup {row}, takers \ {i}, n)
  BY <1>1, <1>2, <1>3 DEF Tally
<1> QED BY <1>4, TallyShrinks

\* One more may take it.
LEMMA TallyGrows ==
  ASSUME NEW rows, NEW takers, NEW n \in Int, Tally(rows, takers, n),
         NEW rows2 \in SUBSET rows, NEW takers2, OneMore(takers2, takers),
         NEW n2 \in Int, n + 1 <= n2
  PROVE  Tally(rows2, takers2, n2)
<1>0. PICK i : takers2 \subseteq takers \cup {i}
  BY DEF OneMore
<1>1. /\ IsFiniteSet(rows) /\ IsFiniteSet(takers)
      /\ Cardinality(rows) + Cardinality(takers) <= n
      /\ Cardinality(rows) \in Nat /\ Cardinality(takers) \in Nat
  BY FS_CardinalityType DEF Tally
<1>2. /\ IsFiniteSet(takers \cup {i})
      /\ Cardinality(takers \cup {i}) = IF i \in takers THEN Cardinality(takers)
                                      ELSE Cardinality(takers) + 1
  BY <1>1, FS_AddElement
<1>3. Tally(rows, takers \cup {i}, n + 1)
  BY <1>1, <1>2 DEF Tally
<1> QED BY <1>0, <1>3, TallyShrinks

LEMMA AllowanceGrows ==
  ASSUME TypeOK, [Next]_vars
  PROVE  /\ Allowance \in Nat /\ Allowance' \in Nat /\ Allowance <= Allowance'
         /\ 1 <= Allowance
         /\ \A kind \in {"twin", "kill", "cut"} : Fault(kind) => Allowance + 1 <= Allowance'
<1>1. faults \in [AllFaults -> Nat]
  BY DEF TypeOK
<1>2. faults' = faults \/ \E kind \in AllFaults : faults' = [faults EXCEPT ![kind] = @ + 1]
  BY FaultOrNot DEF NoFault, faultVars, Fault
<1>3. \A kind \in AllFaults : Fault(kind) => faults' = [faults EXCEPT ![kind] = @ + 1]
  BY DEF Fault
<1>4. Allowance \in Nat /\ Allowance' \in Nat /\ Allowance <= Allowance' /\ 1 <= Allowance
  BY <1>1, <1>2 DEF Allowance, Restarts, AllFaults
<1>5. ASSUME NEW kind \in {"twin", "kill", "cut"}, Fault(kind) PROVE Allowance + 1 <= Allowance'
  BY <1>1, <1>3, <1>5 DEF Allowance, Restarts, AllFaults
<1> QED BY <1>4, <1>5

\* Only a freeze makes new rows.
LEMMA RowsStay ==
  ASSUME TypeOK, [Next]_vars, \A i \in Instances : ~Freeze(i)
  PROVE  AllRows' \subseteq AllRows
<1>0. merged \in [Instances -> SUBSET Row]
  BY DEF TypeOK
<1>1. CASE UNCHANGED <<pred, other, merged>>
  BY <1>1 DEF AllRows
<1>2. ASSUME NEW i \in Instances, WriteCsv(i) PROVE AllRows' \subseteq AllRows
  <2>1. pred'.rows = merged[i] /\ merged' = [merged EXCEPT ![i] = {}] /\ other' = other
    BY <1>2 DEF WriteCsv
  <2> QED BY <1>0, <2>1 DEF AllRows
<1>3. ASSUME NEW i \in Instances, WriteDenied(i) \/ Kill(i) PROVE AllRows' \subseteq AllRows
  <2>1. pred' = pred /\ merged' = [merged EXCEPT ![i] = {}] /\ other' = other
    BY <1>3 DEF WriteDenied, Kill, Dies, fileVars
  <2> QED BY <1>0, <2>1 DEF AllRows
<1>4. ASSUME NEW i \in Instances, Cut(i) PROVE AllRows' \subseteq AllRows
  <2>1. merged' = [merged EXCEPT ![i] = {}] /\ other' = other
    BY <1>4 DEF Cut, Dies
  <2>2. pred'.rows \subseteq pred.rows \/ pred'.rows \subseteq merged[i]
    BY <1>4 DEF Cut, CutOff
  <2> QED BY <1>0, <2>1, <2>2 DEF AllRows
<1>5. CASE CollectorRead \/ CollectorWrite
  <2>1. /\ merged' = merged
        /\ pred'.rows \subseteq pred.rows \cup other.rows
        /\ other'.rows \subseteq pred.rows \cup other.rows
    BY <1>5 DEF CollectorRead, CollectorWrite, procVars, fileVars
  <2> QED BY <2>1 DEF AllRows
<1>6. ASSUME NEW i \in Instances,
             Launch(i) \/ Results(i) \/ Odds(i) \/ SaveState(i) \/ Finalize(i)
      PROVE  UNCHANGED <<pred, other, merged>>
  BY <1>6 DEF Launch, LaunchFresh, LaunchResume, Results, SkipPoll, PollResults, PollFails, Odds,
     CheckOdds, Response, Rejected, NoResponse, SaveState, Finalize, fileVars
<1>7. Minute \/ UNCHANGED vars => UNCHANGED <<pred, other, merged>>
  BY DEF Minute, vars, procVars, fileVars
<1> QED BY <1>1, <1>2, <1>3, <1>4, <1>5, <1>6, <1>7 DEF Next, Frozen

LEMMA FreezeRows ==
  ASSUME TypeOK, NEW i \in Instances, Freeze(i)
  PROVE  AllRows' \subseteq AllRows \cup DueRows(i)
<1>1. merged \in [Instances -> SUBSET Row] /\ pred' = pred /\ other' = other
  BY DEF TypeOK, Freeze, fileVars
<1>2. merged' = merged \/ merged' = [merged EXCEPT ![i] = FirstWins(pred.rows, DueRows(i))]
  BY DEF Freeze
<1>3. FirstWins(pred.rows, DueRows(i)) \subseteq pred.rows \cup DueRows(i)
  BY DEF FirstWins
<1> QED BY <1>1, <1>2, <1>3 DEF AllRows

\* A round marks what it freezes, and otherwise keeps what was marked.
LEMMA FreezeMarks ==
  ASSUME TypeOK, NEW i \in Instances, Freeze(i)
  PROVE  /\ pc[i] = "freeze" /\ now' = now
         /\ \A m \in Matches : mem'[i].done[m] = mem[i].done[m] \cup DueTypes(m, mem[i].done[m])
BY DEF Freeze, Marked, At, TypeOK, State

LEMMA QuietMarks ==
  ASSUME TypeOK, NEW i \in Instances, Quiet(i) \/ PollResults(i), ~Freeze(i)
  PROVE  /\ mem'[i].done = mem[i].done
         /\ pc[i] = "poll" /\ pc'[i] # "ended" => now < Deadline(i)
<1>1. mem \in [Instances -> State] /\ mem[i] \in State
  BY DEF TypeOK
<1>2. \/ mem' = mem
      \/ mem' = [mem EXCEPT ![i] = Updated(mem[i])]
      \/ mem' = [mem EXCEPT ![i] = Spent(mem[i])]
      \/ mem' = [mem EXCEPT ![i] = [mem[i] EXCEPT !.fd = now]]
  BY DEF Quiet, SkipPoll, PollResults, PollFails, Odds, CheckOdds, Response, Rejected, NoResponse,
     Frozen, WriteCsv, WriteDenied, Finalize
<1>3. /\ Updated(mem[i]).done = mem[i].done /\ Spent(mem[i]).done = mem[i].done
      /\ [mem[i] EXCEPT !.fd = now].done = mem[i].done
  BY <1>1, StateUpdates DEF Updated, State
<1>4. mem'[i].done = mem[i].done
  BY <1>1, <1>2, <1>3
<1>5. ASSUME pc[i] = "poll", pc'[i] # "ended" PROVE now < Deadline(i)
  <2>1. ~Finalize(i)
    BY <1>5 DEF Finalize, Goto, TypeOK
  <2> QED BY <1>5, <2>1 DEF Quiet, SkipPoll, PollResults, PollFails, PollDue, Odds, CheckOdds,
     Response, Rejected, NoResponse, Frozen, WriteCsv, WriteDenied, At
<1> QED BY <1>4, <1>5

LEMMA CountNext == TypeInv /\ CountInv /\ [Next]_vars => CountInv'
<1> SUFFICES ASSUME TypeInv, CountInv, [Next]_vars PROVE CountInv'
  OBVIOUS
<1>0. /\ TypeOK /\ opened \in Nat /\ now \in Nat /\ Duration \in Nat
      /\ Allowance \in Nat /\ Allowance' \in Nat /\ Allowance <= Allowance' /\ 1 <= Allowance
      /\ \A kind \in {"twin", "kill", "cut"} : Fault(kind) => Allowance + 1 <= Allowance'
      /\ \A i \in Instances : mem[i].started \in Int
      /\ \A s \in Sessions : dirs[s].saved.started \in Int
  BY AllowanceGrows, SupervisorBounds DEF TypeInv, TypeOK, State
<1>1. \A i \in Instances : Live(i) => dir[i] \in Sessions /\ 1 <= opened /\ 1 \in Sessions
  BY <1>0, DirOfLive, SupervisorBounds DEF Sessions
<1>2. ASSUME NEW i \in Instances, Freeze(i) PROVE CountInv'
  <2>1. /\ Live(i) /\ Live(i)' /\ Elsewhere(i) /\ UNCHANGED <<now, opened, dirs>>
        /\ mem'[i].started = mem[i].started /\ pc[i] = "freeze" /\ pc'[i] # "poll"
        /\ \A m \in Matches : mem'[i].done[m] = mem[i].done[m] \cup DueTypes(m, mem[i].done[m])
    <3>1. Quiet(i) /\ ~Finalize(i)
      BY <1>2 DEF Quiet, Frozen, Freeze, Finalize, At
    <3> QED BY <1>0, <1>2, <3>1, QuietEffects, FreezeMarks DEF Live
  <2> SUFFICES ASSUME opened = 1
               PROVE  OneStart' /\ \A m \in Matches, t \in Types : Counted(m, t)'
    BY <1>1, <2>1 DEF CountInv
  <2>2. OneStart'
    BY <2>1 DEF CountInv, OneStart, Live, Elsewhere
  <2>3. ASSUME NEW m \in Matches, NEW t \in Types PROVE Counted(m, t)'
    <3>1. Tally(Held(m, t), MayCapture(m, t), Allowance)
      BY DEF CountInv, Counted
    <3>2. \A j \in Instances \ {i} : j \in MayCapture(m, t)' => j \in MayCapture(m, t)
      BY <2>1 DEF MayCapture, Elsewhere, Live, Deadline
    <3>3. CASE t \in DueTypes(m, mem[i].done[m])
      <4> DEFINE row == [match |-> m, type |-> t, snap |-> snap[i], at |-> now]
      <4>1. \A r \in DueRows(i) : r.match = m /\ r.type = t => r = row
        BY DEF DueRows
      <4>2. Held(m, t)' \subseteq Held(m, t) \cup {row}
        BY <1>0, <1>2, <4>1, FreezeRows DEF Held
      <4>3. i \in MayCapture(m, t) /\ i \notin MayCapture(m, t)'
        BY <2>1, <3>3 DEF MayCapture, DueTypes
      <4>4. MayCapture(m, t)' \subseteq MayCapture(m, t) \ {i}
        BY <3>2, <4>3 DEF MayCapture
      <4> HIDE DEF row
      <4>5. OneMore(Held(m, t)', Held(m, t)) /\ OneFewer(MayCapture(m, t)', MayCapture(m, t))
        BY <4>2, <4>3, <4>4 DEF OneMore, OneFewer
      <4>6. Tally(Held(m, t)', MayCapture(m, t)', Allowance')
        BY <1>0, <3>1, <4>5, TallyMoves
      <4> QED BY <2>1, <4>6 DEF Counted, Resumable
    <3>4. CASE t \notin DueTypes(m, mem[i].done[m])
      <4>1. \A r \in DueRows(i) : ~(r.match = m /\ r.type = t)
        BY <3>4 DEF DueRows
      <4>2. Held(m, t)' \subseteq Held(m, t)
        BY <1>0, <1>2, <4>1, FreezeRows DEF Held
      <4>3. MayCapture(m, t)' \subseteq MayCapture(m, t)
        BY <2>1, <3>2 DEF MayCapture
      <4>4. Tally(Held(m, t)', MayCapture(m, t)', Allowance')
        BY <1>0, <3>1, <4>2, <4>3, TallyShrinks
      <4> QED BY <2>1, <4>4 DEF Counted, Resumable
    <3> QED BY <3>3, <3>4
  <2> QED BY <2>2, <2>3
<1> SUFFICES ASSUME \A i \in Instances : ~Freeze(i) PROVE CountInv'
  BY <1>2
<1>3. /\ AllRows' \subseteq AllRows
      /\ \A m \in Matches, t \in Types : Held(m, t)' \subseteq Held(m, t)
  BY <1>0, RowsStay DEF Held
<1>4. ASSUME UNCHANGED opened,
             opened = 1 =>
               /\ OneStart'
               /\ \A m \in Matches, t \in Types : MayCapture(m, t)' \subseteq MayCapture(m, t)
               /\ Resumable' => Resumable \/ Allowance + 1 <= Allowance'
      PROVE  CountInv'
  <2>1. opened' = 0 => AllRows' = {}
    BY <1>3, <1>4 DEF CountInv
  <2>2. ASSUME opened = 1, NEW m \in Matches, NEW t \in Types PROVE Counted(m, t)'
    <3>1. /\ Tally(Held(m, t), MayCapture(m, t), Allowance)
          /\ Resumable => Tally(Held(m, t), {}, Allowance - 1)
          /\ Held(m, t)' \subseteq Held(m, t) /\ MayCapture(m, t)' \subseteq MayCapture(m, t)
      BY <1>3, <1>4, <2>2 DEF CountInv, Counted
    <3>2. Tally(Held(m, t)', MayCapture(m, t)', Allowance')
      BY <1>0, <3>1, TallyShrinks
    <3>3. ASSUME Resumable' PROVE Tally(Held(m, t)', {}, Allowance' - 1)
      <4>1. CASE Resumable
        <5>1. Tally(Held(m, t), {}, Allowance - 1)
          BY <3>1, <4>1
        <5> QED BY <1>0, <3>1, <5>1, TallyShrinks
      <4>2. CASE Allowance + 1 <= Allowance'
        BY <1>0, <3>1, <4>2, TallyShrinks
      <4> QED BY <1>4, <2>2, <3>3, <4>1, <4>2
    <3> QED BY <3>2, <3>3 DEF Counted
  <2> QED BY <1>4, <2>1, <2>2 DEF CountInv
<1>5. ASSUME NEW i \in Instances, Launch(i) PROVE CountInv'
  <2>1. /\ pc[i] = "off" /\ pc'[i] = "poll" /\ Live(i)' /\ Elsewhere(i) /\ UNCHANGED <<now, dirs>>
        /\ \A j \in Instances : Live(j)' => j = i \/ Live(j)
    BY <1>5, LaunchEffects DEF Elsewhere, Live
  <2>2. ~Resumable'
    BY <2>1 DEF Resumable
  <2>3. CASE /\ opened' = opened + 1 /\ mem'[i] = FreshState(now) /\ dirs[opened + 1] = NoDir
    <3> SUFFICES ASSUME opened = 0
                 PROVE  OneStart' /\ \A m \in Matches, t \in Types : Counted(m, t)'
      BY <1>0, <2>3 DEF CountInv
    <3>1. \A j \in Instances : Live(j)' => j = i
      BY <1>1, <2>1
    <3>2. OneStart'
      BY <2>1, <2>3, <3>1, FreshFields DEF OneStart
    <3>3. ASSUME NEW m \in Matches, NEW t \in Types PROVE Counted(m, t)'
      <4>1. Held(m, t)' \subseteq {} /\ OneMore(MayCapture(m, t)', {})
        BY <1>3, <3>1 DEF OneMore, CountInv, Held, MayCapture
      <4>2. Tally({}, {}, 0)
        BY FS_EmptySet DEF Tally
      <4>3. Tally(Held(m, t)', MayCapture(m, t)', Allowance')
        BY <1>0, <4>1, <4>2, TallyGrows
      <4> QED BY <2>2, <4>3 DEF Counted
    <3> QED BY <3>2, <3>3
  <2>4. CASE /\ dir'[i] \in Sessions /\ dir'[i] <= opened /\ opened' = opened
             /\ dirs[dir'[i]].file = "ok" /\ mem'[i] = dirs[dir'[i]].saved
    <3>1. opened >= 1
      BY <1>0, <2>4 DEF Sessions
    <3> SUFFICES ASSUME opened = 1
                 PROVE  OneStart' /\ \A m \in Matches, t \in Types : Counted(m, t)'
      BY <1>0, <2>4, <3>1 DEF CountInv
    <3>2. /\ dir'[i] = 1 /\ 1 \in Sessions /\ dirs[1].file = "ok" /\ mem'[i] = dirs[1].saved
          /\ OneStart
      BY <1>0, <2>4 DEF Sessions, CountInv
    <3>3. OneStart'
      BY <2>1, <3>2 DEF OneStart, Elsewhere
    <3>4. ASSUME NEW m \in Matches, NEW t \in Types PROVE Counted(m, t)'
      <4>1. /\ Tally(Held(m, t), MayCapture(m, t), Allowance)
            /\ Resumable => Tally(Held(m, t), {}, Allowance - 1)
            /\ Held(m, t)' \subseteq Held(m, t)
        BY <1>3 DEF CountInv, Counted
      <4>2. /\ MayCapture(m, t)' \subseteq MayCapture(m, t) \cup {i}
            /\ OneMore(MayCapture(m, t)', MayCapture(m, t))
        BY <2>1 DEF OneMore, MayCapture, Elsewhere, Live, Deadline
      <4>3. CASE \E j \in Instances : Live(j)
        <5>1. Fault("twin")
          BY <1>5, <2>1, <4>3 DEF Launch, LaunchFresh, LaunchResume, MayLaunch, Others, Live
        <5>2. Tally(Held(m, t)', MayCapture(m, t)', Allowance')
          BY <1>0, <4>1, <4>2, <5>1, TallyGrows
        <5> QED BY <2>2, <5>2 DEF Counted
      <4>4. CASE \A j \in Instances : ~Live(j)
        <5>1. CASE now < dirs[1].saved.started + Duration
          <6>1. Tally(Held(m, t), {}, Allowance - 1)
            BY <3>2, <4>1, <4>4, <5>1 DEF Resumable
          <6>2. OneMore(MayCapture(m, t)', {})
            BY <2>1, <4>4 DEF OneMore, MayCapture
          <6>3. Tally(Held(m, t)', MayCapture(m, t)', Allowance')
            BY <1>0, <4>1, <6>1, <6>2, TallyGrows
          <6> QED BY <2>2, <6>3 DEF Counted
        <5>2. CASE ~(now < dirs[1].saved.started + Duration)
          <6>1. Deadline(i)' <= now'
            BY <1>0, <2>1, <3>2, <5>2 DEF Deadline
          <6>2. MayCapture(m, t)' \subseteq MayCapture(m, t)
            BY <2>1, <4>2, <6>1 DEF MayCapture
          <6>3. Tally(Held(m, t)', MayCapture(m, t)', Allowance')
            BY <1>0, <4>1, <6>2, TallyShrinks
          <6> QED BY <2>2, <6>3 DEF Counted
        <5> QED BY <5>1, <5>2
      <4> QED BY <4>3, <4>4
    <3> QED BY <3>3, <3>4
  <2> QED BY <1>5, <2>3, <2>4, LaunchEffects
<1>6. ASSUME NEW i \in Instances, Quiet(i) \/ PollResults(i) PROVE CountInv'
  <2>1. /\ Live(i) /\ pc'[i] \notin {"off", "poll"} /\ Elsewhere(i) /\ UNCHANGED <<now, opened>>
        /\ mem'[i].started = mem[i].started /\ mem'[i].done = mem[i].done
        /\ pc[i] = "poll" /\ pc'[i] # "ended" => now < Deadline(i)
        /\ pc'[i] = "ended" => Finalize(i)
        /\ \A s \in Sessions : dirs'[s].saved = dirs[s].saved /\ dirs'[s].file = dirs[s].file
    BY <1>0, <1>6, QuietEffects, PollEffects, QuietMarks
  <2>2. 1 \in Sessions /\ dirs'[1].saved = dirs[1].saved /\ dirs'[1].file = dirs[1].file
    BY <1>1, <2>1
  <2>3. ASSUME opened = 1 PROVE OneStart'
    BY <2>1, <2>2, <2>3 DEF CountInv, OneStart, Live, Elsewhere
  <2>4. \A m \in Matches, t \in Types : MayCapture(m, t)' \subseteq MayCapture(m, t)
    BY <1>0, <2>1 DEF MayCapture, Live, Elsewhere, Deadline
  <2>5. ASSUME opened = 1 PROVE ~Resumable'
    <3> SUFFICES ASSUME Resumable' PROVE FALSE
      OBVIOUS
    <3>1. Finalize(i)
      BY <2>1 DEF Resumable, Live
    <3>2. Deadline(i) <= now
      BY <3>1 DEF Finalize
    <3>3. dirs[1].saved.started = mem[i].started
      BY <2>1, <2>2, <2>5 DEF Resumable, CountInv, OneStart
    <3>4. now < dirs[1].saved.started + Duration
      BY <2>1, <2>2 DEF Resumable
    <3> QED BY <1>0, <2>2, <3>2, <3>3, <3>4 DEF Deadline
  <2> QED BY <1>4, <2>1, <2>3, <2>4, <2>5
<1>7. ASSUME NEW i \in Instances, SaveState(i) PROVE CountInv'
  <2>1. /\ Live(i) /\ Live(i)' /\ pc[i] = "save" /\ Elsewhere(i) /\ UNCHANGED <<now, opened, mem>>
        /\ dir[i] \in Sessions /\ dirs'[dir[i]].saved = mem[i] /\ dirs'[dir[i]].file = "ok"
        /\ \A j \in Instances : Live(j)' <=> Live(j)
    BY <1>0, <1>7, SaveEffects DEF Live, Elsewhere
  <2>2. ASSUME opened = 1 PROVE OneStart'
    <3>1. dir[i] = 1
      BY <1>0, <2>1, <2>2, DirOfLive DEF Sessions
    <3> QED BY <2>1, <2>2, <3>1 DEF CountInv, OneStart
  <2>3. \A m \in Matches, t \in Types : MayCapture(m, t)' \subseteq MayCapture(m, t)
    BY <2>1 DEF MayCapture, Elsewhere, Deadline
  <2> QED BY <1>4, <2>1, <2>2, <2>3 DEF Resumable
<1>8. ASSUME NEW i \in Instances, Kill(i) \/ Cut(i) PROVE CountInv'
  <2>1. /\ Live(i) /\ ~Live(i)' /\ Elsewhere(i) /\ UNCHANGED <<now, opened>>
        /\ \A s \in Sessions : /\ dirs'[s].saved = dirs[s].saved
                               /\ dirs'[s].file = dirs[s].file \/ dirs'[s].file = "torn"
    BY <1>0, <1>8, DeathEffects DEF Live
  <2>2. Allowance + 1 <= Allowance'
    BY <1>0, <1>8 DEF Kill, Cut
  <2>3. ASSUME opened = 1 PROVE OneStart'
    BY <1>1, <2>1, <2>3 DEF CountInv, OneStart, Live, Elsewhere
  <2>4. \A m \in Matches, t \in Types : MayCapture(m, t)' \subseteq MayCapture(m, t)
    BY <2>1 DEF MayCapture, Elsewhere, Live, Deadline
  <2> QED BY <1>4, <2>1, <2>2, <2>3, <2>4
<1>9. ASSUME CollectorRead \/ CollectorWrite \/ Minute \/ UNCHANGED vars PROVE CountInv'
  <2>1. UNCHANGED <<pc, mem, dirs, opened>>
    BY <1>9, OutsideEffects
  <2>2. now' \in Nat /\ now <= now'
    BY <1>0, <1>9 DEF CollectorRead, CollectorWrite, Minute, vars
  <2>3. opened = 1 => OneStart'
    BY <2>1 DEF CountInv, OneStart, Live
  <2>4. \A m \in Matches, t \in Types : MayCapture(m, t)' \subseteq MayCapture(m, t)
    BY <1>0, <2>1, <2>2, SupervisorBounds DEF MayCapture, Live, Deadline
  <2>5. opened = 1 /\ Resumable' => Resumable
    <3>1. opened = 1 => 1 \in Sessions
      BY <1>0, SupervisorBounds DEF TypeOK, Sessions
    <3> QED BY <1>0, <2>1, <2>2, <3>1 DEF Resumable, Live
  <2> QED BY <1>4, <2>1, <2>3, <2>4, <2>5
<1> QED BY <1>5, <1>6, <1>7, <1>8, <1>9, StepCases

\* "State file supports restart without duplicates" (five_hour_supervisor.py:11): for
\* any kills, cuts, resumes and instances launched side by side, a capture of a
\* fixture is in the CSV once, and once more at most for each of them.
THEOREM CapturesAreTakenOnce == Spec => []CapturedOnce
<1>1. Init => CountInv
  <2> SUFFICES ASSUME Init PROVE CountInv
    OBVIOUS
  <2>1. opened = 0 /\ AllRows = {}
    BY DEF Init, AllRows
  <2> QED BY <2>1 DEF CountInv
<1>2. TypeInv /\ CountInv => CapturedOnce
  <2> SUFFICES ASSUME TypeInv, CountInv, opened = 1, NEW m \in Matches, NEW t \in Types
               PROVE  Cardinality(Captures(m, t)) <= 1 + Restarts + faults["twin"]
    BY DEF CapturedOnce
  <2>1. /\ IsFiniteSet(Held(m, t)) /\ IsFiniteSet(MayCapture(m, t))
        /\ Cardinality(Held(m, t)) + Cardinality(MayCapture(m, t)) <= Allowance
    BY DEF CountInv, Counted, Tally
  <2>2. Captures(m, t) \subseteq Held(m, t)
    BY DEF Captures, Held, AllRows
  <2>3. /\ IsFiniteSet(Captures(m, t))
        /\ Cardinality(Captures(m, t)) <= Cardinality(Held(m, t))
    BY <2>1, <2>2, FS_Subset
  <2>4. /\ Cardinality(Captures(m, t)) \in Nat /\ Cardinality(Held(m, t)) \in Nat
        /\ Cardinality(MayCapture(m, t)) \in Nat /\ Allowance \in Int
    BY <2>1, <2>3, FS_CardinalityType, ExcessType DEF TypeInv, Allowance
  <2> QED BY <2>1, <2>3, <2>4 DEF Allowance
<1> QED BY TypeInit, TypeNext, CountNext, <1>1, <1>2, PTL DEF Spec

-----------------------------------------------------------------------------
(* Every window fires *)

\* The steps of a round when nothing fails, beside the request, its freeze and the
\* two writes.
Calm(i) == SkipPoll(i) \/ PollResults(i) \/ CheckOdds(i) \/ Finalize(i)
Acts(i) == Calm(i) \/ Response(i) \/ Freeze(i) \/ WriteCsv(i) \/ SaveState(i)

\* What the session's account of its requests says of the snapshots that exist.
Account(st) ==
  /\ st.used = Cardinality(raw) /\ st.odds \in raw \cup {Never}
  /\ st.odds <= now /\ \A f \in raw : f <= st.odds
  /\ 0 <= st.started

RequestInv ==
  OnlySlow =>
    /\ IsFiniteSet(raw)
    /\ opened = 0 => raw = {}
    /\ opened = 1 =>
         /\ \A i \in Instances : Live(i) =>
              Account(mem[i]) /\ (pc[i] = "http" => Elapsed(mem[i].odds))
         /\ Idle(1) /\ dirs[1].file # "none" => Account(dirs[1].saved)

LEMMA ActEffects ==
  ASSUME TypeOK, NEW i \in Instances, Acts(i)
  PROVE  /\ Live(i) /\ Elsewhere(i) /\ UNCHANGED <<now, opened, dir, faultVars>>
         /\ mem'[i].started = mem[i].started /\ pc'[i] # "off"
         /\ Response(i) \/ (raw' = raw /\ mem'[i].odds = mem[i].odds /\ mem'[i].used = mem[i].used)
         /\ Freeze(i) \/ mem'[i].done = mem[i].done
         /\ WriteCsv(i) \/ pred' = pred
         /\ SaveState(i) \/ (wake' = wake /\ \A s \in Sessions :
                               dirs'[s].saved = dirs[s].saved /\ dirs'[s].file = dirs[s].file)
         /\ pc'[i] = "http" => CheckOdds(i) /\ Elapsed(mem[i].odds)
         /\ pc'[i] = "ended" => Finalize(i)
<1>1. CASE SaveState(i)
  <2>1. raw' = raw /\ pred' = pred
    BY <1>1 DEF SaveState
  <2> QED BY <1>1, <2>1, SaveEffects
<1>2. CASE PollResults(i)
  <2>1. raw' = raw /\ pred' = pred
    BY <1>2 DEF PollResults
  <2>2. mem'[i].odds = mem[i].odds /\ mem'[i].used = mem[i].used /\ mem'[i].done = mem[i].done
    BY <1>2 DEF PollResults, Updated, TypeOK, State
  <2> QED BY <1>2, <2>1, <2>2, PollEffects
<1>3. CASE ~SaveState(i) /\ ~PollResults(i)
  <2>1. Quiet(i)
    BY <1>3 DEF Acts, Calm, Quiet, Odds, Frozen
  <2>2. UNCHANGED faultVars
    BY <1>3 DEF Acts, Calm, SkipPoll, CheckOdds, Finalize, Response, Freeze, WriteCsv
  <2>3. Response(i) \/ raw' = raw
    BY <1>3 DEF Acts, Calm, SkipPoll, CheckOdds, Finalize, Freeze, WriteCsv, fileVars
  <2>4. WriteCsv(i) \/ pred' = pred
    BY <1>3 DEF Acts, Calm, SkipPoll, CheckOdds, Finalize, Freeze, Response, fileVars
  <2>5. Response(i) \/ (mem'[i].odds = mem[i].odds /\ mem'[i].used = mem[i].used)
    <3>1. CASE Freeze(i)
      BY <3>1 DEF Freeze, Marked, TypeOK, State
    <3>2. CASE ~Freeze(i) /\ ~Response(i)
      BY <1>3, <3>2 DEF Acts, Calm, SkipPoll, CheckOdds, Finalize, WriteCsv
    <3> QED BY <3>1, <3>2
  <2>6. Freeze(i) \/ mem'[i].done = mem[i].done
    BY <2>1, QuietMarks
  <2>7. pc'[i] = "http" => CheckOdds(i) /\ Elapsed(mem[i].odds)
    BY <1>3 DEF Acts, Calm, SkipPoll, CheckOdds, Finalize, Freeze, Response, WriteCsv, Goto, TypeOK
  <2> QED BY <1>3, <2>1, <2>2, <2>3, <2>4, <2>5, <2>6, <2>7, QuietEffects
<1> QED BY <1>1, <1>2, <1>3

LEMMA ResponseEffects ==
  ASSUME TypeOK, NEW i \in Instances, Response(i)
  PROVE  /\ pc[i] = "http" /\ pc'[i] = "freeze" /\ raw' = raw \cup {now}
         /\ mem'[i].odds = now /\ mem'[i].used = mem[i].used + 1
<1>1. mem \in [Instances -> State] /\ mem[i] \in State
  BY DEF TypeOK
<1>2. mem'[i] = Spent(mem[i])
  BY <1>1 DEF Response
<1>3. Spent(mem[i]).used = mem[i].used + 1 /\ Spent(mem[i]).odds = now
  BY <1>1 DEF Spent, State
<1> QED BY <1>2, <1>3 DEF Response, At, Goto, TypeOK

\* What can happen while rounds are slow and nothing else goes wrong.
LEMMA CalmStep ==
  ASSUME TypeInv, CreditInv, FileInv, SlowInv, [Next]_vars, OnlySlow'
  PROVE  /\ TypeOK /\ OnlySlow /\ Undisturbed /\ Solo /\ RunningAccount /\ faults["twin"]' = 0
         /\ faults["slow"] \in Nat /\ faults["slow"]' \in Nat
         /\ faults["slow"] <= faults["slow"]' /\ faults["slow"]' <= MaxFaults
         /\ \/ \E i \in Instances : Launch(i) \/ Acts(i)
            \/ Minute \/ UNCHANGED vars
<1>1. /\ TypeOK /\ OnlySlow /\ faults["twin"]' = 0 /\ \A k : Fault(k) => k = "slow"
      /\ faults["slow"] \in Nat /\ faults["slow"]' \in Nat /\ faults["slow"] <= faults["slow"]'
  BY OnlySlowStep, RestartsGrow DEF TypeInv
<1>2. faults["slow"]' <= MaxFaults
  <2>1. left' \in 0..MaxFaults /\ MaxFaults \in Nat
    BY TypeNext, SupervisorBounds DEF TypeInv, TypeOK
  <2> QED BY <1>1, <2>1 DEF OnlySlow
<1>3. Undisturbed /\ Solo /\ RunningAccount
  BY <1>1 DEF SlowInv, AllFaults, Undisturbed, CreditInv
<1>4. ~CollectorWrite
  BY <1>3 DEF FileInv, CollectorWrite
<1>5. /\ ~CollectorRead
      /\ \A i \in Instances : /\ ~PollFails(i) /\ ~Rejected(i) /\ ~NoResponse(i)
                              /\ ~WriteDenied(i) /\ ~Kill(i) /\ ~Cut(i)
  BY <1>1 DEF CollectorRead, PollFails, Rejected, NoResponse, WriteDenied, Kill, Cut
<1>6. \/ \E i \in Instances : Launch(i) \/ Acts(i)
      \/ Minute \/ UNCHANGED vars
  BY <1>4, <1>5 DEF Next, Results, Odds, Frozen, Acts, Calm
<1> QED BY <1>1, <1>2, <1>3, <1>6

LEMMA RequestNext ==
  ASSUME TypeInv, CreditInv, FileInv, SyncInv, SlowInv, RequestInv, [Next]_vars
  PROVE  RequestInv'
<1> SUFFICES ASSUME OnlySlow' PROVE RequestInv'
  BY DEF RequestInv
<1>0. /\ TypeOK /\ OnlySlow /\ Solo /\ faults["twin"]' = 0 /\ faults["twin"] = 0
      /\ now \in Nat /\ opened \in Nat /\ raw \subseteq Int
      /\ \A i \in Instances : /\ mem[i].used \in Nat /\ mem[i].odds \in Int
                              /\ mem[i].started \in Int
      /\ \A i \in Instances : Live(i) => dir[i] \in Sessions /\ 1 <= opened /\ (opened = 1 => dir[i] = 1)
  <2>1. TypeOK /\ OnlySlow /\ Solo /\ faults["twin"]' = 0 /\ faults["twin"] = 0
    BY CalmStep, RestartsGrow
  <2>2. \A i \in Instances : Live(i) => dir[i] \in Sessions /\ 1 <= opened /\ (opened = 1 => dir[i] = 1)
    BY <2>1, DirOfLive, SupervisorBounds DEF TypeOK, Sessions
  <2> QED BY <2>1, <2>2 DEF TypeOK, State
<1>1. /\ IsFiniteSet(raw) /\ Cardinality(raw) \in Nat
      /\ opened = 0 => raw = {}
      /\ opened = 1 =>
           /\ \A i \in Instances : Live(i) =>
                Account(mem[i]) /\ (pc[i] = "http" => Elapsed(mem[i].odds))
           /\ Idle(1) /\ dirs[1].file # "none" => Account(dirs[1].saved)
  BY <1>0, FS_CardinalityType DEF RequestInv
<1>2. ASSUME NEW i \in Instances, Launch(i) PROVE RequestInv'
  <2>1. \A j \in Instances : ~Live(j)
    BY <1>0, <1>2, LaunchAlone
  <2>2. pc'[i] = "poll" /\ Elsewhere(i) /\ UNCHANGED <<now, dirs>>
    BY <1>2, LaunchEffects
  <2>3. raw' = raw /\ \A j \in Instances : Live(j)' => j = i
    BY <1>2, <2>1, <2>2 DEF Launch, LaunchFresh, LaunchResume, fileVars, Elsewhere, Live
  <2>4. CASE /\ dir'[i] = opened + 1 /\ opened' = opened + 1 /\ mem'[i] = FreshState(now)
    <3>1. opened' # 0 /\ (opened' = 1 => opened = 0 /\ dir'[i] = 1)
      BY <1>0, <2>4
    <3>2. opened = 0 => Account(mem[i])'
      BY <1>0, <1>1, <2>2, <2>3, <2>4, FreshFields, FS_EmptySet DEF Account, Never
    <3>3. ~Idle(1)' \/ dir'[i] # 1
      BY <2>2 DEF Idle, Live
    <3> QED BY <1>1, <2>2, <2>3, <3>1, <3>2, <3>3 DEF RequestInv
  <2>5. CASE /\ dir'[i] \in Sessions /\ dir'[i] <= opened /\ opened' = opened
             /\ dirs[dir'[i]].file = "ok" /\ mem'[i] = dirs[dir'[i]].saved
    <3>1. opened' # 0 /\ (opened' = 1 => opened = 1 /\ dir'[i] = 1)
      BY <1>0, <2>5 DEF Sessions
    <3>2. opened = 1 => Account(mem[i])'
      <4> SUFFICES ASSUME opened = 1 PROVE Account(mem[i])'
        OBVIOUS
      <4>1. Account(dirs[1].saved) /\ mem'[i] = dirs[1].saved
        BY <1>1, <2>1, <2>5, <3>1 DEF Idle
      <4> QED BY <2>2, <2>3, <4>1 DEF Account
    <3>3. ~Idle(1)' \/ dir'[i] # 1
      BY <2>2 DEF Idle, Live
    <3> QED BY <1>1, <2>2, <2>3, <3>1, <3>2, <3>3 DEF RequestInv
  <2> QED BY <1>2, <2>4, <2>5, LaunchEffects
<1>3. ASSUME NEW i \in Instances, Acts(i) PROVE RequestInv'
  <2>1. /\ Live(i) /\ Elsewhere(i) /\ UNCHANGED <<now, opened, dir>>
        /\ mem'[i].started = mem[i].started /\ pc'[i] # "off"
        /\ pc'[i] = "http" => CheckOdds(i) /\ Elapsed(mem[i].odds)
        /\ pc'[i] = "ended" => Finalize(i)
    BY <1>0, <1>3, ActEffects
  <2>2. \A j \in Instances : (Live(j) => j = i) /\ (Live(j)' => j = i)
    BY <1>0, <2>1 DEF Solo, Elsewhere, Live
  <2> SUFFICES ASSUME opened = 1
               PROVE  /\ IsFiniteSet(raw')
                      /\ Account(mem[i])' /\ (pc'[i] = "http" => Elapsed(mem[i].odds)')
                      /\ Idle(1)' /\ dirs'[1].file # "none" => Account(dirs[1].saved)'
    BY <1>0, <1>1, <1>3, <2>1, <2>2, ActEffects, ResponseEffects, FS_AddElement DEF RequestInv
  <2>3. Account(mem[i]) /\ (pc[i] = "http" => Elapsed(mem[i].odds)) /\ dir[i] = 1 /\ 1 \in Sessions
    BY <1>0, <1>1, <2>1
  <2>4. CASE Response(i)
    <3>1. /\ pc[i] = "http" /\ pc'[i] = "freeze" /\ raw' = raw \cup {now}
          /\ mem'[i].odds = now /\ mem'[i].used = mem[i].used + 1
      BY <1>0, <2>4, ResponseEffects
    <3>2. now - mem[i].odds >= 10 /\ now \notin raw
      BY <1>0, <2>3, <3>1 DEF Elapsed, Interval, Account
    <3>3. IsFiniteSet(raw') /\ Cardinality(raw') = Cardinality(raw) + 1
      BY <1>1, <3>1, <3>2, FS_AddElement
    <3>4. Account(mem[i])'
      BY <1>0, <1>1, <2>1, <2>3, <3>1, <3>2, <3>3 DEF Account
    <3>5. ~Idle(1)'
      BY <2>1, <2>3, <3>1 DEF Idle, Live
    <3> QED BY <3>1, <3>3, <3>4, <3>5
  <2>5. CASE ~Response(i)
    <3>1. raw' = raw /\ mem'[i].odds = mem[i].odds /\ mem'[i].used = mem[i].used
      BY <1>0, <1>3, <2>5, ActEffects
    <3>2. Account(mem[i])'
      BY <2>1, <2>3, <3>1 DEF Account
    <3>3. pc'[i] = "http" => Elapsed(mem[i].odds)'
      BY <2>1, <3>1 DEF Elapsed
    <3>4. ASSUME Idle(1)', dirs'[1].file # "none" PROVE Account(dirs[1].saved)'
      <4>1. Finalize(i)
        BY <2>1, <2>3, <3>4 DEF Idle, Live
      <4>2. pc[i] = "poll" /\ ~SaveState(i)
        BY <4>1 DEF Finalize, SaveState, At
      <4>3. dirs'[1].saved = dirs[1].saved /\ dirs'[1].file = dirs[1].file
        BY <1>0, <1>3, <2>3, <4>2, ActEffects
      <4>4. dirs[1].saved = mem[i]
        BY <1>0, <2>3, <3>4, <4>2, <4>3 DEF SyncInv, Synced
      <4> QED BY <2>1, <2>3, <3>1, <4>3, <4>4 DEF Account
    <3> QED BY <1>1, <3>1, <3>2, <3>3, <3>4
  <2> QED BY <2>4, <2>5
<1>4. ASSUME Minute \/ UNCHANGED vars PROVE RequestInv'
  <2>1. UNCHANGED <<pc, mem, dir, dirs, opened, raw>> /\ now' \in Nat /\ now <= now'
    BY <1>0, <1>4 DEF Minute, vars, procVars, fileVars
  <2>2. \A i \in Instances : Account(mem[i]) => Account(mem[i])'
    BY <1>0, <2>1 DEF Account
  <2>3. Account(dirs[1].saved) => Account(dirs[1].saved)'
    <3>1. raw \cup {Never} \subseteq Int
      BY <1>0 DEF Never
    <3> QED BY <1>0, <2>1, <3>1 DEF Account
  <2>4. \A i \in Instances : Elapsed(mem[i].odds) => Elapsed(mem[i].odds)'
    BY <1>0, <2>1 DEF Elapsed, Interval
  <2> QED BY <1>1, <2>1, <2>2, <2>3, <2>4 DEF RequestInv, Live, Idle
<1> QED BY <1>2, <1>3, <1>4, CalmStep

\* The windows that a session may not miss, and what excuses it.
Timed == {"T-15", "T-90"}
Opens(m, t) == IF t = "T-15" THEN Kickoff[m] - 20 ELSE Kickoff[m] - 100
Closes(m, t) == IF t = "T-15" THEN Kickoff[m] - 10 ELSE Kickoff[m] - 80

Claim(m, t) ==
  \/ Captures(m, t) # {}
  \/ Cardinality({f \in raw : f <= Closes(m, t)}) = MaxCredits
  \/ \E f \in raw : Opens(m, t) - faults["slow"] < f /\ f < Opens(m, t)

\* When the next request is answered at the latest if the one before was at g: the
\* floor may hold it back beyond the opening, and slow minutes add to both.
Reach(m, t, g) == (IF g + Interval <= Opens(m, t) THEN Opens(m, t) ELSE g + Interval) + faults["slow"]

\* The capture is not due yet or held back by the floor.
Waiting(i, m, t) ==
  /\ pc[i] # "freeze" /\ mem[i].odds < Opens(m, t) /\ now <= Reach(m, t, mem[i].odds)
  /\ pc[i] = "poll" => wake[i] <= Reach(m, t, mem[i].odds)
  /\ pc[i] \in {"write", "save"} => now < Reach(m, t, mem[i].odds)

\* A response is there, to a request made before the window opened or in time.
Answered(i, m, t) ==
  /\ pc[i] = "freeze" /\ now <= mem[i].odds + faults["slow"]
  /\ \/ mem[i].odds < Opens(m, t)
     \/ \E g \in raw \cup {Never} : g < Opens(m, t) /\ now <= Reach(m, t, g)

\* The capture is marked and its row is about to be written.
Writing(i, m, t) == pc[i] = "write" /\ now <= Closes(m, t) + faults["slow"]

Progress(i, m, t) ==
  IF t \in mem[i].done[m] THEN Writing(i, m, t) ELSE Waiting(i, m, t) \/ Answered(i, m, t)

\* A session runs from before the window opens until after it closes.
Spans(st, m, t) == st.started <= Opens(m, t) /\ Closes(m, t) < st.started + Duration

WindowInv ==
  OnlySlow /\ opened = 1 => \A m \in Matches, t \in Timed :
    /\ \A i \in Instances : Live(i) /\ Spans(mem[i], m, t) => Claim(m, t) \/ Progress(i, m, t)
    /\ Idle(1) /\ dirs[1].file # "none" /\ Spans(dirs[1].saved, m, t) => Claim(m, t)

LEMMA WindowFacts ==
  ASSUME NEW m \in Matches, NEW t \in Timed
  PROVE  /\ t \in Types /\ Opens(m, t) \in Int /\ Closes(m, t) \in Int
         /\ Opens(m, t) + Interval <= Closes(m, t)
<1>1. Kickoff[m] \in Int
  BY SupervisorBounds
<1> QED BY <1>1 DEF Timed, Types, Opens, Closes, Interval

LEMMA DueInWindow ==
  ASSUME TypeOK, NEW m \in Matches, NEW t \in Timed, NEW done
  PROVE  t \in DueTypes(m, done) <=> t \notin done /\ Opens(m, t) <= now /\ now <= Closes(m, t)
<1>1. Kickoff[m] \in Int /\ now \in Int
  BY SupervisorBounds DEF TypeOK
<1>2. CASE t = "T-15"
  BY <1>1, <1>2 DEF DueTypes, InWindow, MinutesTo, Types, Opens, Closes
<1>3. CASE t = "T-90"
  BY <1>1, <1>3 DEF DueTypes, InWindow, MinutesTo, Types, Opens, Closes
<1> QED BY <1>2, <1>3 DEF Timed

\* A request made before the window opened, and not so shortly before that it excuses
\* the session, leaves time for another one in the window.
LEMMA InTime ==
  ASSUME NEW m \in Matches, NEW t \in Timed, MaxFaults <= 10, faults["slow"] \in Nat,
         faults["slow"] <= MaxFaults, 0 <= Opens(m, t), raw \subseteq Int,
         ~Claim(m, t), NEW g \in raw \cup {Never}, g < Opens(m, t)
  PROVE  Reach(m, t, g) <= Closes(m, t) /\ g + faults["slow"] <= Opens(m, t)
<1>1. /\ Opens(m, t) \in Int /\ Closes(m, t) \in Int /\ Opens(m, t) + 10 <= Closes(m, t)
      /\ MaxFaults \in Nat /\ g \in Int
  BY WindowFacts, SupervisorBounds DEF Interval, Never
<1>2. g + faults["slow"] <= Opens(m, t)
  <2>1. CASE g \in raw
    BY <1>1, <2>1 DEF Claim
  <2>2. CASE g = Never
    BY <1>1, <2>2 DEF Never
  <2> QED BY <2>1, <2>2
<1> QED BY <1>1, <1>2 DEF Reach, Interval

\* An excuse stays one: rows and snapshots stay, and the last credit is spent once.
LEMMA ClaimStays ==
  ASSUME TypeInv, CreditInv, FileInv, SlowInv, RequestInv, [Next]_vars, OnlySlow',
         opened = 1, NEW m \in Matches, NEW t \in Timed, Claim(m, t)
  PROVE  Claim(m, t)'
<1>0. /\ TypeOK /\ OnlySlow /\ Undisturbed /\ RunningAccount
      /\ faults["slow"] \in Nat /\ faults["slow"]' \in Nat /\ faults["slow"] <= faults["slow"]'
      /\ Opens(m, t) \in Int /\ Closes(m, t) \in Int /\ MaxCredits \in Nat
      /\ raw \subseteq Int /\ now \in Nat /\ IsFiniteSet(raw)
  BY CalmStep, WindowFacts, SupervisorBounds DEF TypeOK, RequestInv
<1>1. pred.rows \subseteq pred'.rows
  <2>1. ASSUME NEW i \in Instances, WriteCsv(i) PROVE pred.rows \subseteq pred'.rows
    BY <1>0, <2>1 DEF WriteCsv, At, FileInv, Live
  <2>2. ASSUME NEW i \in Instances, Launch(i) PROVE pred' = pred
    BY <2>2 DEF Launch, LaunchFresh, LaunchResume, fileVars
  <2>3. Minute \/ UNCHANGED vars => pred' = pred
    BY DEF Minute, vars, fileVars
  <2> QED BY <1>0, <2>1, <2>2, <2>3, CalmStep, ActEffects
<1>2. raw' = raw \/ (raw' = raw \cup {now} /\ Cardinality(raw) < MaxCredits)
  <2>1. ASSUME NEW i \in Instances, Response(i)
        PROVE  raw' = raw \cup {now} /\ Cardinality(raw) < MaxCredits
    <3>1. pc[i] = "http" /\ Live(i) /\ raw' = raw \cup {now}
      BY <1>0, <2>1, ResponseEffects DEF Live
    <3>2. mem[i].used < MaxCredits /\ mem[i].used = Cardinality(raw)
      BY <1>0, <3>1 DEF RunningAccount, RequestInv, Account
    <3> QED BY <3>1, <3>2
  <2>2. ASSUME NEW i \in Instances, Launch(i) PROVE raw' = raw
    BY <2>2 DEF Launch, LaunchFresh, LaunchResume, fileVars
  <2>3. Minute \/ UNCHANGED vars => raw' = raw
    BY DEF Minute, vars, fileVars
  <2> QED BY <1>0, <2>1, <2>2, <2>3, CalmStep, ActEffects
<1>3. CASE Captures(m, t) # {}
  BY <1>1, <1>3 DEF Claim, Captures
<1>4. CASE Cardinality({f \in raw : f <= Closes(m, t)}) = MaxCredits
  <2>1. Cardinality({f \in raw : f <= Closes(m, t)}) <= Cardinality(raw)
    BY <1>0, FS_Subset
  <2>2. Cardinality(raw) \in Nat
    BY <1>0, FS_CardinalityType
  <2>3. raw' = raw
    BY <1>0, <1>2, <1>4, <2>1, <2>2
  <2> QED BY <1>4, <2>3 DEF Claim, Closes
<1>5. CASE \E f \in raw : Opens(m, t) - faults["slow"] < f /\ f < Opens(m, t)
  <2>1. PICK f \in raw : Opens(m, t) - faults["slow"] < f /\ f < Opens(m, t)
    BY <1>5
  <2>2. f \in raw' /\ f \in Int /\ Opens(m, t)' = Opens(m, t)
    BY <1>0, <1>2 DEF Opens
  <2>3. Opens(m, t) - faults["slow"]' < f
    BY <1>0, <2>1, <2>2
  <2> QED BY <2>1, <2>2, <2>3 DEF Claim
<1> QED BY <1>3, <1>4, <1>5 DEF Claim

\* What a step of the session that has neither captured nor an excuse comes to.
LEMMA ProgressStays ==
  ASSUME MaxFaults <= 10, TypeInv, CreditInv, FileInv, SlowInv, RequestInv, [Next]_vars, OnlySlow',
         opened = 1, NEW i \in Instances, Acts(i), NEW m \in Matches, NEW t \in Timed,
         Spans(mem[i], m, t), Progress(i, m, t), ~Claim(m, t), ~Claim(m, t)'
  PROVE  Live(i)' /\ Progress(i, m, t)'
<1> DEFINE o == Opens(m, t)
           c == Closes(m, t)
           g == mem[i].odds
<1> USE DEF Interval
<1>0. /\ TypeOK /\ OnlySlow /\ Undisturbed /\ RunningAccount /\ MaxFaults \in Nat
      /\ faults["slow"] \in Nat /\ faults["slow"] <= MaxFaults
      /\ o \in Int /\ c \in Int /\ o + 10 <= c /\ MaxCredits \in Nat /\ Duration \in Nat
      /\ raw \subseteq Int /\ now \in Nat /\ IsFiniteSet(raw) /\ pc \in [Instances -> Labels]
      /\ g \in Int /\ wake[i] \in Int /\ mem[i].started \in Int
  BY CalmStep, WindowFacts, SupervisorBounds DEF TypeOK, RequestInv, State
<1>1. /\ Live(i) /\ UNCHANGED <<now, opened, faultVars>> /\ mem'[i].started = mem[i].started
      /\ pc'[i] # "off" /\ pc'[i] = "ended" => Finalize(i)
  BY <1>0, ActEffects
<1>2. /\ Account(mem[i]) /\ (pc[i] = "http" => Elapsed(g)) /\ 0 <= o
  <2>1. Account(mem[i]) /\ (pc[i] = "http" => Elapsed(g))
    BY <1>0, <1>1 DEF RequestInv
  <2> QED BY <1>0, <2>1 DEF Account, Spans
<1>3. \A h \in raw \cup {Never} : h < o => Reach(m, t, h) <= c /\ h + faults["slow"] <= o
  BY <1>0, <1>2, InTime
<1>4. \A h \in Int : Reach(m, t, h) \in Int /\ Reach(m, t, h)' = Reach(m, t, h)
  BY <1>0, <1>1 DEF Reach, Opens, faultVars
<1>5. g \in raw \cup {Never}
  BY <1>2 DEF Account
<1>6. Waiting(i, m, t) => now <= Reach(m, t, g) /\ Reach(m, t, g) <= c /\ g < o
  BY <1>3, <1>5 DEF Waiting
<1>7. ~Freeze(i) => mem'[i].done = mem[i].done
  BY <1>0, ActEffects
<1>8. ~Response(i) => raw' = raw /\ mem'[i].odds = g
  BY <1>0, ActEffects
<1>9. ASSUME pc[i] \notin {"freeze", "write"} PROVE t \notin mem[i].done[m] /\ Waiting(i, m, t)
  BY <1>9 DEF Progress, Writing, Answered
<1> DEFINE floor == Reach(m, t, g)
<1>10. /\ floor \in Int /\ o <= floor /\ Opens(m, t)' = o
       /\ mem'[i].odds = g => Reach(m, t, mem[i].odds)' = floor
  BY <1>0, <1>1 DEF Reach, Opens, faultVars
<1>11. CASE SkipPoll(i) \/ PollResults(i)
  <2>1. pc[i] = "poll" /\ pc'[i] = "odds" /\ ~Freeze(i) /\ ~Response(i)
    BY <1>0, <1>11 DEF SkipPoll, PollResults, PollDue, Freeze, Response, At, Goto
  <2>2. Waiting(i, m, t)'
    BY <1>1, <1>6, <1>8, <1>9, <1>10, <2>1 DEF Waiting
  <2> QED BY <1>7, <1>9, <2>1, <2>2 DEF Live, Progress
<1>12. CASE Finalize(i)
  <2>1. pc[i] = "poll" /\ Deadline(i) <= now
    BY <1>12 DEF Finalize, At
  <2> QED BY <1>0, <1>6, <1>9, <1>10, <2>1 DEF Deadline, Spans
<1>13. CASE CheckOdds(i)
  <2>1. /\ pc[i] = "odds" /\ pc'[i] \in {"http", "save"} /\ ~Freeze(i) /\ ~Response(i)
        /\ pc'[i] = "save" => ~(/\ \E n \in Matches : DueTypes(n, mem[i].done[n]) # {}
                                /\ Elapsed(g) /\ Affordable(i))
    BY <1>0, <1>13 DEF CheckOdds, Freeze, Response, At, Goto
  <2>2. t \notin mem[i].done[m] /\ Waiting(i, m, t)
    BY <1>9, <2>1
  <2>3. ASSUME pc'[i] = "save" PROVE now < floor
    <3>1. CASE now < o
      BY <1>0, <1>10, <3>1
    <3>2. CASE o <= now /\ ~Elapsed(g)
      BY <1>0, <1>10, <3>2 DEF Elapsed, Reach
    <3>3. CASE o <= now /\ Elapsed(g)
      <4>1. t \in DueTypes(m, mem[i].done[m])
        BY <1>0, <1>6, <1>10, <2>2, <3>3, DueInWindow
      <4>2. ~(mem[i].used < MaxCredits)
        BY <2>1, <2>3, <3>3, <4>1 DEF Affordable
      <4>3. Cardinality(raw) = MaxCredits
        <5>1. mem[i].used <= MaxCredits /\ mem[i].used = Cardinality(raw)
          BY <1>0, <1>1, <1>2 DEF RunningAccount, Account
        <5>2. Cardinality(raw) \in Nat
          BY <1>0, FS_CardinalityType
        <5> QED BY <1>0, <4>2, <5>1, <5>2
      <4>4. {f \in raw : f <= c} = raw
        <5>1. g <= c
          BY <1>0, <1>6, <2>2
        <5>2. \A f \in raw : f <= g
          BY <1>2 DEF Account
        <5>3. \A f \in raw : f <= c
          <6> SUFFICES ASSUME NEW f \in raw PROVE f <= c
            OBVIOUS
          <6> QED BY <1>0, <5>1, <5>2
        <5> QED BY <5>3
      <4> QED BY <4>3, <4>4 DEF Claim
    <3> QED BY <1>0, <3>1, <3>2, <3>3
  <2>4. Waiting(i, m, t)'
    BY <1>1, <1>6, <1>8, <1>10, <2>1, <2>2, <2>3 DEF Waiting
  <2> QED BY <1>7, <2>1, <2>2, <2>4 DEF Live, Progress
<1>14. CASE Response(i)
  <2>1. /\ pc[i] = "http" /\ pc'[i] = "freeze" /\ raw' = raw \cup {now} /\ mem'[i].odds = now
        /\ ~Freeze(i)
    BY <1>0, <1>14, ResponseEffects DEF Freeze, At
  <2>2. t \notin mem[i].done[m] /\ Waiting(i, m, t)
    BY <1>9, <2>1
  <2>3. g \in raw' \cup {Never} /\ g < o /\ now <= floor
    BY <1>5, <1>6, <2>1, <2>2
  <2>4. now' <= mem'[i].odds + faults["slow"]'
    BY <1>0, <1>1, <2>1 DEF faultVars
  <2>5. now' <= Reach(m, t, g) /\ \A h : h = g => Reach(m, t, h)' = floor
    BY <1>0, <1>1, <1>4, <2>3
  <2>6. \E h \in raw' \cup {Never} : h < o /\ now' <= Reach(m, t, h)'
    BY <2>3, <2>5
  <2>7. Answered(i, m, t)'
    BY <1>10, <2>1, <2>4, <2>6 DEF Answered
  <2> QED BY <1>7, <2>1, <2>2, <2>7 DEF Live, Progress
<1>15. CASE Freeze(i)
  <2>1. /\ pc[i] = "freeze" /\ ~Response(i)
        /\ mem'[i].done[m] = mem[i].done[m] \cup DueTypes(m, mem[i].done[m])
    BY <1>0, <1>15, FreezeMarks DEF Response, At
  <2>2. pc'[i] \in {"write", "save"} /\ (DueRows(i) # {} => pc'[i] = "write")
    BY <1>0, <1>1, <1>15 DEF Freeze, Goto, FileInv
  <2>3. t \notin mem[i].done[m] /\ Answered(i, m, t)
    BY <2>1 DEF Progress, Writing, Waiting
  <2>4. now <= c
    <3>1. CASE g < o
      BY <1>0, <1>3, <1>5, <2>3, <3>1 DEF Answered
    <3>2. CASE \E h \in raw \cup {Never} : h < o /\ now <= Reach(m, t, h)
      <4>1. PICK h \in raw \cup {Never} : h < o /\ now <= Reach(m, t, h)
        BY <3>2
      <4>2. h \in Int
        BY <1>0, <4>1 DEF Never
      <4>3. Reach(m, t, h) <= c /\ Reach(m, t, h) \in Int
        BY <1>3, <1>4, <4>1, <4>2
      <4> QED BY <1>0, <4>1, <4>3
    <3> QED BY <2>3, <3>1, <3>2 DEF Answered
  <2>5. CASE o <= now
    <3>1. t \in DueTypes(m, mem[i].done[m]) /\ t \in Types
      BY <1>0, <2>3, <2>4, <2>5, DueInWindow, WindowFacts
    <3>2. [match |-> m, type |-> t, snap |-> snap[i], at |-> now] \in DueRows(i)
      BY <3>1 DEF DueRows
    <3>3. pc'[i] = "write" /\ t \in mem'[i].done[m]
      BY <2>1, <2>2, <3>1, <3>2
    <3>4. now' <= Closes(m, t)' + faults["slow"]'
      BY <1>0, <1>1, <2>4 DEF Closes, faultVars
    <3> QED BY <3>3, <3>4 DEF Live, Progress, Writing
  <2>6. CASE now < o
    <3>1. t \notin mem'[i].done[m]
      BY <1>0, <2>1, <2>3, <2>6, DueInWindow
    <3>2. g < o /\ now < floor
      BY <1>0, <1>2, <1>10, <2>6 DEF Account
    <3>3. Waiting(i, m, t)'
      BY <1>0, <1>1, <1>8, <1>10, <2>1, <2>2, <3>2 DEF Waiting
    <3> QED BY <2>2, <3>1, <3>3 DEF Live, Progress
  <2> QED BY <1>0, <2>5, <2>6
<1>16. CASE WriteCsv(i)
  <2>1. pc[i] = "write" /\ pc'[i] = "save" /\ pred'.rows = merged[i] /\ ~Freeze(i) /\ ~Response(i)
    BY <1>0, <1>16 DEF WriteCsv, Freeze, Response, At, Goto
  <2>2. t \notin mem[i].done[m]
    <3> SUFFICES ASSUME t \in mem[i].done[m] PROVE FALSE
      OBVIOUS
    <3>1. Covered(mem[i], merged[i])
      BY <1>0, <1>1, <2>1 DEF FileInv
    <3>2. \E r \in pred'.rows : r.match = m /\ r.type = t
      BY <2>1, <3>1 DEF Covered
    <3> QED BY <3>2 DEF Claim, Captures
  <2>3. Waiting(i, m, t)
    BY <2>1, <2>2 DEF Progress, Answered
  <2>4. g < o /\ now < floor
    BY <1>6, <2>1, <2>3 DEF Waiting
  <2>5. Waiting(i, m, t)'
    BY <1>0, <1>1, <1>8, <1>10, <2>1, <2>4 DEF Waiting
  <2> QED BY <1>7, <2>1, <2>2, <2>5 DEF Live, Progress
<1>17. CASE SaveState(i)
  <2>1. pc[i] = "save" /\ pc'[i] = "poll" /\ wake'[i] = now + 1 /\ ~Freeze(i) /\ ~Response(i)
    BY <1>0, <1>17, SaveEffects DEF Freeze, Response, At
  <2>2. t \notin mem[i].done[m] /\ Waiting(i, m, t)
    BY <1>9, <2>1
  <2>3. g < o /\ now < floor
    BY <1>6, <2>1, <2>2 DEF Waiting
  <2>4. Waiting(i, m, t)'
    BY <1>0, <1>1, <1>8, <1>10, <2>1, <2>3 DEF Waiting
  <2> QED BY <1>7, <2>1, <2>2, <2>4 DEF Live, Progress
<1> QED BY <1>11, <1>12, <1>13, <1>14, <1>15, <1>16, <1>17 DEF Acts, Calm

LEMMA WindowNext ==
  ASSUME MaxFaults <= 10, TypeInv, CreditInv, FileInv, SyncInv, SlowInv, RequestInv, CountInv,
         WindowInv, [Next]_vars
  PROVE  WindowInv'
<1> SUFFICES ASSUME OnlySlow', opened' = 1, NEW m \in Matches, NEW t \in Timed, ~Claim(m, t)'
             PROVE  /\ \A i \in Instances : Live(i)' /\ Spans(mem[i], m, t)' => Progress(i, m, t)'
                    /\ ~(Idle(1)' /\ dirs'[1].file # "none" /\ Spans(dirs[1].saved, m, t)')
  BY DEF WindowInv
<1>0. /\ TypeOK /\ OnlySlow /\ Solo /\ faults["twin"]' = 0 /\ faults["twin"] = 0
      /\ faults["slow"] \in Nat /\ faults["slow"]' \in Nat /\ faults["slow"] <= faults["slow"]'
      /\ faults["slow"] <= MaxFaults /\ MaxFaults \in Nat
      /\ now \in Nat /\ opened \in Nat /\ raw \subseteq Int
      /\ Opens(m, t) \in Int /\ Closes(m, t) \in Int
      /\ Opens(m, t)' = Opens(m, t) /\ Closes(m, t)' = Closes(m, t)
  <2>1. /\ TypeOK /\ OnlySlow /\ Solo /\ faults["twin"]' = 0
        /\ faults["slow"] \in Nat /\ faults["slow"]' \in Nat /\ faults["slow"] <= faults["slow"]'
        /\ faults["slow"]' <= MaxFaults /\ MaxFaults \in Nat
    BY CalmStep, SupervisorBounds
  <2>2. faults["twin"] = 0 /\ faults["slow"] <= MaxFaults
    BY <2>1, RestartsGrow
  <2>3. now \in Nat /\ opened \in Nat /\ raw \subseteq Int
    BY <2>1, SupervisorBounds DEF TypeOK
  <2>4. /\ Opens(m, t) \in Int /\ Closes(m, t) \in Int
        /\ Opens(m, t)' = Opens(m, t) /\ Closes(m, t)' = Closes(m, t)
    BY WindowFacts DEF Opens, Closes
  <2> QED BY <2>1, <2>2, <2>3, <2>4
<1>1. ASSUME opened = 1
      PROVE  /\ ~Claim(m, t)
             /\ \A i \in Instances : Live(i) /\ Spans(mem[i], m, t) => Progress(i, m, t)
             /\ ~(Idle(1) /\ dirs[1].file # "none" /\ Spans(dirs[1].saved, m, t))
  BY <1>0, <1>1, ClaimStays DEF WindowInv
<1>2. \A i \in Instances : Live(i) => dir[i] \in Sessions /\ 1 <= opened /\ (opened = 1 => dir[i] = 1)
  BY <1>0, DirOfLive, SupervisorBounds DEF Sessions
<1>3. ASSUME NEW i \in Instances, Launch(i)
      PROVE  /\ \A j \in Instances : Live(j)' /\ Spans(mem[j], m, t)' => Progress(j, m, t)'
             /\ ~(Idle(1)' /\ dirs'[1].file # "none" /\ Spans(dirs[1].saved, m, t)')
  <2>1. /\ pc'[i] = "poll" /\ wake'[i] = now /\ UNCHANGED <<now, dirs>>
        /\ \A j \in Instances : ~Live(j) /\ (Live(j)' => j = i)
    BY <1>0, <1>3, LaunchAlone, LaunchEffects DEF Elsewhere, Live
  <2>2. CASE /\ dir'[i] = opened + 1 /\ opened' = opened + 1 /\ mem'[i] = FreshState(now)
    <3>1. dir'[i] = 1 /\ Live(i)'
      BY <1>0, <2>1, <2>2 DEF Live
    <3>2. ASSUME Spans(mem[i], m, t)' PROVE Progress(i, m, t)'
      <4>1. now <= Opens(m, t) /\ t \notin mem'[i].done[m] /\ mem'[i].odds = Never
        BY <1>0, <2>2, <3>2, FreshFields DEF Spans
      <4>2. Never < Opens(m, t) /\ now <= Reach(m, t, Never)'
        BY <1>0, <4>1 DEF Never, Reach, Interval
      <4>3. Waiting(i, m, t)'
        BY <1>0, <2>1, <4>1, <4>2 DEF Waiting
      <4> QED BY <4>1, <4>3 DEF Progress
    <3> QED BY <2>1, <3>1, <3>2 DEF Idle
  <2>3. CASE /\ dir'[i] \in Sessions /\ dir'[i] <= opened /\ opened' = opened
             /\ dirs[dir'[i]].file = "ok" /\ mem'[i] = dirs[dir'[i]].saved
    <3>1. opened = 1 /\ dir'[i] = 1 /\ Live(i)'
      BY <1>0, <2>1, <2>3 DEF Live, Sessions
    <3>2. ~Spans(mem[i], m, t)'
      BY <1>0, <1>1, <2>1, <2>3, <3>1 DEF Idle, Spans
    <3> QED BY <2>1, <3>1, <3>2 DEF Idle
  <2> QED BY <1>3, <2>2, <2>3, LaunchEffects
<1>4. ASSUME NEW i \in Instances, Acts(i)
      PROVE  /\ \A j \in Instances : Live(j)' /\ Spans(mem[j], m, t)' => Progress(j, m, t)'
             /\ ~(Idle(1)' /\ dirs'[1].file # "none" /\ Spans(dirs[1].saved, m, t)')
  <2>1. /\ Live(i) /\ Elsewhere(i) /\ UNCHANGED <<now, opened, dir>>
        /\ mem'[i].started = mem[i].started /\ pc'[i] # "off"
        /\ pc'[i] = "ended" => Finalize(i)
    BY <1>0, <1>4, ActEffects
  <2>2. \A j \in Instances : (Live(j) => j = i) /\ (Live(j)' => j = i)
    BY <1>0, <2>1 DEF Solo, Elsewhere, Live
  <2>3. Spans(mem[i], m, t) => Live(i)' /\ Progress(i, m, t)'
    BY <1>0, <1>1, <1>4, <2>1, ProgressStays
  <2>4. Spans(mem[i], m, t)' => Spans(mem[i], m, t)
    BY <1>0, <2>1 DEF Spans
  <2>5. ASSUME Idle(1)', dirs'[1].file # "none", Spans(dirs[1].saved, m, t)' PROVE FALSE
    <3>1. dir[i] = 1 /\ 1 \in Sessions /\ ~Live(i)'
      BY <1>2, <2>1, <2>5 DEF Idle
    <3>2. Finalize(i) /\ pc[i] = "poll" /\ ~SaveState(i)
      BY <2>1, <3>1 DEF Live, Finalize, SaveState, At
    <3>3. dirs'[1].saved = dirs[1].saved /\ dirs'[1].file = dirs[1].file
      BY <1>0, <1>4, <3>1, <3>2, ActEffects
    <3>4. dirs[1].saved = mem[i]
      BY <1>0, <2>5, <3>1, <3>2, <3>3 DEF SyncInv, Synced
    <3>5. Spans(mem[i], m, t)
      BY <1>0, <2>5, <3>3, <3>4 DEF Spans
    <3> QED BY <2>3, <3>1, <3>5
  <2> QED BY <2>2, <2>3, <2>4, <2>5
<1>5. ASSUME Minute \/ UNCHANGED vars
      PROVE  /\ \A j \in Instances : Live(j)' /\ Spans(mem[j], m, t)' => Progress(j, m, t)'
             /\ ~(Idle(1)' /\ dirs'[1].file # "none" /\ Spans(dirs[1].saved, m, t)')
  <2>1. UNCHANGED <<pc, mem, dir, wake, dirs, opened, raw>>
    BY <1>5 DEF Minute, vars, procVars, fileVars
  <2>2. \/ now' = now
        \/ /\ now' = now + 1
           /\ \/ faults["slow"]' = faults["slow"] + 1
              \/ faults["slow"]' = faults["slow"] /\ \A i \in Instances : ~Busy(i)
    BY <1>0, <1>5, FaultType DEF Minute, vars, NoFault, faultVars
  <2>3. ~(Idle(1)' /\ dirs'[1].file # "none" /\ Spans(dirs[1].saved, m, t)')
    BY <1>0, <1>1, <2>1 DEF Idle, Live, Spans
  <2>4. ASSUME NEW j \in Instances, Live(j)', Spans(mem[j], m, t)' PROVE Progress(j, m, t)'
    <3>1. /\ Progress(j, m, t) /\ wake[j] \in Int /\ mem[j].odds \in Int
          /\ now' = now + 1 /\ faults["slow"]' # faults["slow"] + 1 => pc[j] = "poll" /\ wake[j] > now
      BY <1>0, <1>1, <2>1, <2>2, <2>4 DEF Live, Spans, Busy, At, TypeOK, State
    <3>2. /\ \A h \in Int : /\ Reach(m, t, h) \in Int
                            /\ Reach(m, t, h)' = Reach(m, t, h) + (faults["slow"]' - faults["slow"])
          /\ raw \cup {Never} \subseteq Int
      BY <1>0 DEF Reach, Interval, Never
    <3>3. CASE t \in mem[j].done[m]
      BY <1>0, <2>1, <2>2, <3>1, <3>3 DEF Progress, Writing
    <3>4. CASE t \notin mem[j].done[m] /\ Waiting(j, m, t)
      BY <1>0, <2>1, <2>2, <3>1, <3>2, <3>4 DEF Progress, Waiting
    <3>5. CASE t \notin mem[j].done[m] /\ Answered(j, m, t)
      <4>1. now' - now <= faults["slow"]' - faults["slow"] /\ now' \in Int
        BY <1>0, <2>2, <3>1, <3>5 DEF Answered
      <4>2. now' <= mem'[j].odds + faults["slow"]'
        BY <1>0, <2>1, <3>1, <3>5, <4>1 DEF Answered
      <4>3. \A h \in raw \cup {Never} : now <= Reach(m, t, h) => now' <= Reach(m, t, h)'
        BY <1>0, <3>2, <4>1
      <4>4. Answered(j, m, t)'
        BY <1>0, <2>1, <3>5, <4>2, <4>3 DEF Answered
      <4> QED BY <2>1, <3>5, <4>4 DEF Progress
    <3> QED BY <3>1, <3>3, <3>4, <3>5 DEF Progress
  <2> QED BY <2>3, <2>4
<1> QED BY <1>3, <1>4, <1>5, CalmStep

\* _due_type (five_hour_supervisor.py:112): a session that runs from before a T-15 or T-90 window opens
\* until after it closes captures it, unless its credits ran out or a request started
\* the floor just before, when rounds are slow by at most ten minutes in all: the
\* eleven minutes of a T-15 window are the ten of the floor and one more.
THEOREM LiveWindowsFire ==
  ASSUME MaxFaults <= 10
  PROVE  Spec => []WindowsFire
<1> DEFINE FiringInv == CreditInv /\ FileInv /\ SyncInv /\ SlowInv /\ RequestInv /\ CountInv /\ WindowInv
<1>1. Init => FiringInv
  <2> SUFFICES ASSUME Init PROVE FiringInv
    OBVIOUS
  <2>1. /\ \A i \in Instances : pc[i] = "off"
        /\ \A s \in Sessions : dirs[s] = NoDir /\ billed[s] = 0
        /\ faults \in [AllFaults -> Nat] /\ \A k \in AllFaults : faults[k] = 0
        /\ opened = 0 /\ raw = {} /\ pred.state = "absent" /\ ~other.busy
        /\ pred.rows = {} /\ other.rows = {} /\ \A i \in Instances : merged[i] = {}
    BY DEF Init, NoDir
  <2>2. Excess = 0
    BY <2>1 DEF Excess, Restarts, AllFaults
  <2>3. CreditInv
    BY <2>1, <2>2, FreshFields, SupervisorBounds DEF CreditInv, Solo, RunningAccount, IdleAccount, Live
  <2>4. FileInv
    BY <2>1, FreshFields DEF FileInv, Live, Covered
  <2>5. SyncInv /\ RequestInv /\ CountInv /\ WindowInv
    BY <2>1, FS_EmptySet DEF SyncInv, RequestInv, CountInv, AllRows, WindowInv
  <2> QED BY <2>3, <2>4, <2>5, SlowInit
<1>2. TypeInv /\ FiringInv /\ [Next]_vars => FiringInv'
  BY CreditNext, FileNext, SyncNext, SlowNext, RequestNext, CountNext, WindowNext DEF TypeInv
<1>3. TypeInv /\ FiringInv => WindowsFire
  <2> SUFFICES ASSUME TypeInv, FiringInv, OnlySlow, opened = 1, NEW m \in Matches, NEW t \in Timed
               PROVE  Fires(m, t, Opens(m, t), Closes(m, t))
    <3>1. \A m \in Matches : /\ Opens(m, "T-15") = Kickoff[m] - 20
                             /\ Closes(m, "T-15") = Kickoff[m] - 10
                             /\ Opens(m, "T-90") = Kickoff[m] - 100
                             /\ Closes(m, "T-90") = Kickoff[m] - 80
      BY DEF Opens, Closes
    <3>2. "T-15" \in Timed /\ "T-90" \in Timed
      BY DEF Timed
    <3> QED BY <3>1, <3>2 DEF WindowsFire
  <2> SUFFICES ASSUME Closes(m, t) + faults["slow"] < now, dirs[1].file = "ok",
                      Spans(dirs[1].saved, m, t)
               PROVE  Claim(m, t)
    BY DEF Fires, Claim, Spans
  <2>1. /\ TypeOK /\ now \in Nat /\ raw \subseteq Int /\ faults["slow"] \in Nat
        /\ Opens(m, t) \in Int /\ Closes(m, t) \in Int /\ Opens(m, t) + Interval <= Closes(m, t)
        /\ MaxFaults \in Nat /\ left \in Nat
    BY WindowFacts, SupervisorBounds DEF TypeInv, TypeOK, AllFaults
  <2>2. faults["slow"] <= MaxFaults
    BY <2>1 DEF OnlySlow
  <2>3. CASE Idle(1)
    BY <2>3 DEF WindowInv
  <2>4. CASE \E i \in Instances : Live(i)
    <3>1. PICK i \in Instances : Live(i)
      BY <2>4
    <3>2. Spans(mem[i], m, t)
      BY <3>1 DEF CountInv, OneStart, Spans
    <3>3. Account(mem[i]) /\ mem[i].odds \in Int /\ mem[i].started \in Int
      BY <2>1, <3>1 DEF RequestInv, TypeOK, State
    <3> SUFFICES ASSUME ~Claim(m, t) PROVE FALSE
      OBVIOUS
    <3>4. Progress(i, m, t)
      BY <3>1, <3>2 DEF WindowInv
    <3>5. 0 <= Opens(m, t)
      BY <2>1, <3>2, <3>3 DEF Account, Spans
    <3>6. \A g \in raw \cup {Never} : g < Opens(m, t) => Reach(m, t, g) <= Closes(m, t)
      BY <2>1, <2>2, <3>5, InTime
    <3>7. \A g \in Int : Reach(m, t, g) \in Int
      BY <2>1 DEF Reach, Interval
    <3>8. CASE Writing(i, m, t)
      BY <2>1, <3>8 DEF Writing
    <3>9. CASE Waiting(i, m, t)
      <4>1. now <= Reach(m, t, mem[i].odds) /\ Reach(m, t, mem[i].odds) <= Closes(m, t)
        BY <3>3, <3>6, <3>9 DEF Waiting, Account
      <4> QED BY <2>1, <3>3, <3>7, <4>1
    <3>10. CASE Answered(i, m, t)
      <4>1. CASE mem[i].odds < Opens(m, t)
        BY <2>1, <3>3, <3>10, <4>1 DEF Answered, Interval
      <4>2. CASE \E g \in raw \cup {Never} : g < Opens(m, t) /\ now <= Reach(m, t, g)
        <5>1. PICK g \in raw \cup {Never} : g < Opens(m, t) /\ now <= Reach(m, t, g)
          BY <4>2
        <5>2. g \in Int /\ Reach(m, t, g) <= Closes(m, t)
          BY <2>1, <3>6, <5>1 DEF Never
        <5> QED BY <2>1, <3>7, <5>1, <5>2
      <4> QED BY <3>10, <4>1, <4>2 DEF Answered
    <3> QED BY <3>4, <3>8, <3>9, <3>10 DEF Progress
  <2> QED BY <2>3, <2>4 DEF Idle
<1> HIDE DEF FiringInv
<1> QED BY TypeInit, TypeNext, <1>1, <1>2, <1>3, PTL DEF Spec

-----------------------------------------------------------------------------
(* The prediction CSV as an append-only ledger *)

\* What _due_type lets into the CSV: a capture taken in its window, from odds that
\* were fetched before it (five_hour_supervisor.py:112-130).
InOpenWindow(r) ==
  LET minutes == Kickoff[r.match] - r.at
  IN  /\ r.snap <= r.at
      /\ CASE r.type = "T-15"              -> minutes \in 10..20
           [] r.type = "T-90"              -> minutes \in 80..100
           [] r.type = "final_pre_kickoff" -> minutes \in 1..5
           [] r.type = "baseline"          -> minutes > 100

Ledger == INSTANCE AppendOnlyLedger WITH Admissible <- InOpenWindow, entries <- pred.rows

Sound(S) == Ledger!KeysUnique(S) /\ \A r \in S : InOpenWindow(r)

\* Every copy of the CSV that can be written back is sound, whoever holds it.
SoundInv ==
  /\ Sound(pred.rows) /\ Sound(other.rows)
  /\ \A i \in Instances : /\ Sound(merged[i])
                          /\ pc[i] = "freeze" => snap[i] <= now

\* No other process writes the CSV.
Sole == faults["twin"] = 0 /\ faults["overlap"] = 0

\* Then what is about to be written holds all that is on file.
HeldInv == Sole => /\ ~other.busy
                   /\ \A i \in Instances : pc[i] = "write" => pred.rows \subseteq merged[i]

\* The steps of an instance that leave the CSV and every copy of it alone.
LeavesRows(i) == \/ Launch(i) \/ Results(i) \/ Odds(i) \/ WriteDenied(i) \/ SaveState(i)
                 \/ Finalize(i) \/ Kill(i)

LEMMA RowsLeft ==
  ASSUME TypeOK, NEW i \in Instances, LeavesRows(i)
  PROVE  /\ UNCHANGED <<now, pred, other>>
         /\ \A j \in Instances :
              /\ merged'[j] \in {merged[j], {}}
              /\ pc'[j] = "freeze" => snap'[j] = now \/ (pc[j] = "freeze" /\ snap'[j] = snap[j])
              /\ pc'[j] = "write" => pc[j] = "write" /\ merged'[j] = merged[j]
<1>0. /\ pc \in [Instances -> Labels] /\ snap \in [Instances -> Int]
      /\ merged \in [Instances -> SUBSET Row]
  BY DEF TypeOK
<1>1. CASE Launch(i)
  BY <1>0, <1>1 DEF Launch, LaunchFresh, LaunchResume, Begin, fileVars
<1>2. CASE Results(i)
  BY <1>0, <1>2 DEF Results, SkipPoll, PollResults, PollFails, Goto, fileVars
<1>3. CASE Odds(i)
  <2>1. CASE Response(i)
    BY <1>0, <2>1 DEF Response, Goto
  <2>2. CASE CheckOdds(i) \/ Rejected(i) \/ NoResponse(i)
    BY <1>0, <2>2 DEF CheckOdds, Rejected, NoResponse, Goto, fileVars
  <2> QED BY <1>3, <2>1, <2>2 DEF Odds
<1>4. CASE WriteDenied(i) \/ SaveState(i) \/ Finalize(i)
  BY <1>0, <1>4 DEF WriteDenied, SaveState, Finalize, Goto, fileVars
<1>5. CASE Kill(i)
  BY <1>0, <1>5 DEF Kill, Dies, fileVars
<1> QED BY <1>1, <1>2, <1>3, <1>4, <1>5 DEF LeavesRows

LEMMA RowCases ==
  ASSUME [Next]_vars
  PROVE  \/ \E i \in Instances : LeavesRows(i) \/ Freeze(i) \/ WriteCsv(i) \/ Cut(i)
         \/ CollectorRead \/ CollectorWrite \/ Minute \/ UNCHANGED vars
BY DEF Next, LeavesRows, Frozen

LEMMA SoundSubset ==
  ASSUME NEW S, Sound(S), NEW T \in SUBSET S
  PROVE  Sound(T)
BY DEF Sound, Ledger!KeysUnique

\* keep="first" keeps the keys of a merge unique, and a capture is merged in its window.
LEMMA MergeSound ==
  ASSUME TypeOK, NEW i \in Instances, snap[i] <= now, Sound(pred.rows)
  PROVE  Sound(FirstWins(pred.rows, DueRows(i)))
<1> DEFINE new == DueRows(i)
<1>1. ASSUME NEW r \in new PROVE InOpenWindow(r) /\ r.snap = snap[i] /\ r.at = now
  <2>1. /\ r.match \in Matches /\ r.type \in Types /\ r.snap = snap[i] /\ r.at = now
        /\ InWindow(r.match, r.type, mem[i].done[r.match])
    BY DEF DueRows, DueTypes
  <2> QED BY <2>1 DEF InWindow, MinutesTo, InOpenWindow, Types
<1>2. ASSUME NEW r \in new, NEW q \in new, Key(r) = Key(q) PROVE r = q
  <2>1. r.match = q.match /\ r.type = q.type /\ r.snap = q.snap
    BY <1>2 DEF Key
  <2> QED BY <2>1 DEF DueRows
<1>3. \A r \in FirstWins(pred.rows, new) : InOpenWindow(r)
  BY <1>1 DEF FirstWins, Sound
<1>4. Ledger!KeysUnique(FirstWins(pred.rows, new))
  BY <1>2 DEF FirstWins, Sound, Ledger!KeysUnique
<1> QED BY <1>3, <1>4 DEF Sound

LEMMA SoundNext == TypeOK /\ TypeOK' /\ SoundInv /\ [Next]_vars => SoundInv'
<1> SUFFICES ASSUME TypeOK, TypeOK', SoundInv, [Next]_vars PROVE SoundInv'
  OBVIOUS
<1>0. /\ Sound({}) /\ now \in Int /\ snap \in [Instances -> Int]
      /\ pc \in [Instances -> Labels] /\ merged \in [Instances -> SUBSET Row]
      /\ \A S : Sound(S)' <=> Sound(S)
  BY DEF TypeOK, Sound, Ledger!KeysUnique, InOpenWindow, Key
<1>1. ASSUME NEW i \in Instances, LeavesRows(i) PROVE SoundInv'
  <2>1. UNCHANGED <<now, pred, other>>
    BY <1>1, RowsLeft
  <2>2. ASSUME NEW j \in Instances
        PROVE  Sound(merged'[j]) /\ (pc'[j] = "freeze" => snap'[j] <= now)
    <3>1. Sound(merged[j]) /\ (pc[j] = "freeze" => snap[j] <= now) /\ now <= now
      BY <1>0 DEF SoundInv
    <3> QED BY <1>0, <1>1, <3>1, RowsLeft
  <2> QED BY <1>0, <2>1, <2>2 DEF SoundInv
<1>2. ASSUME NEW i \in Instances, Freeze(i) PROVE SoundInv'
  <2>1. /\ UNCHANGED <<now, pred, other, snap>> /\ pc[i] = "freeze"
        /\ \A j \in Instances : pc'[j] = "freeze" => pc[j] = "freeze"
    BY <1>0, <1>2 DEF Freeze, At, Goto, fileVars
  <2>2. Sound(FirstWins(pred.rows, DueRows(i)))
    BY <2>1, MergeSound DEF SoundInv
  <2>3. \A j \in Instances : merged'[j] \in {merged[j], FirstWins(pred.rows, DueRows(i))}
    BY <1>0, <1>2 DEF Freeze
  <2> QED BY <1>0, <2>1, <2>2, <2>3 DEF SoundInv
<1>3. ASSUME NEW i \in Instances, WriteCsv(i) PROVE SoundInv'
  <2>1. /\ UNCHANGED <<now, other, snap>> /\ pred'.rows = merged[i]
        /\ \A j \in Instances : merged'[j] \in {merged[j], {}}
        /\ \A j \in Instances : pc'[j] = "freeze" => pc[j] = "freeze"
    BY <1>0, <1>3 DEF WriteCsv, Goto
  <2> QED BY <1>0, <2>1 DEF SoundInv
<1>4. ASSUME NEW i \in Instances, Cut(i) PROVE SoundInv'
  <2>1. /\ UNCHANGED <<now, other>>
        /\ \A j \in Instances : merged'[j] \in {merged[j], {}}
        /\ \A j \in Instances : pc'[j] = "freeze" => pc[j] = "freeze" /\ snap'[j] = snap[j]
    BY <1>0, <1>4 DEF Cut, Dies
  <2>2. pred'.rows = pred.rows \/ pred'.rows \in SUBSET merged[i]
    BY <1>4 DEF Cut, CutOff
  <2>3. Sound(pred'.rows)
    BY <2>2, SoundSubset DEF SoundInv
  <2> QED BY <1>0, <2>1, <2>3 DEF SoundInv
<1>5. ASSUME CollectorRead \/ CollectorWrite PROVE SoundInv'
  <2>1. /\ UNCHANGED <<now, procVars>>
        /\ pred'.rows \in {pred.rows, other.rows} /\ other'.rows \in {pred.rows, {}}
    BY <1>5 DEF CollectorRead, CollectorWrite, fileVars
  <2> QED BY <1>0, <2>1 DEF SoundInv, procVars
<1>6. ASSUME Minute \/ UNCHANGED vars PROVE SoundInv'
  <2>1. UNCHANGED <<pred, other, procVars>> /\ now' \in {now, now + 1}
    BY <1>6 DEF Minute, vars, fileVars
  <2> QED BY <1>0, <2>1 DEF SoundInv, procVars
<1> QED BY <1>1, <1>2, <1>3, <1>4, <1>5, <1>6, RowCases

LEMMA SoundInit == Init => SoundInv
BY DEF Init, SoundInv, Sound, Ledger!KeysUnique

\* drop_duplicates(subset=key, keep="first") (five_hour_supervisor.py:204): whatever is
\* killed, cut, lost or denied, and whoever else writes the CSV meanwhile, it never
\* holds two rows of one key, nor a capture taken outside its window.
THEOREM PredictionsSound == Spec => []Ledger!LedgerSound
<1>1. SoundInv => Ledger!LedgerSound
  BY DEF SoundInv, Sound, Ledger!LedgerSound
<1> QED BY TypeInit, TypeNext, SoundInit, SoundNext, <1>1, PTL DEF Spec, TypeInv

LEMMA FaultsStay ==
  ASSUME TypeOK, [Next]_vars
  PROVE  /\ Sole' => Sole /\ UNCHANGED <<faults["twin"], faults["overlap"]>>
         /\ \/ faults' = faults
            \/ \E kind \in FaultKinds : Fault(kind)
<1>1. faults' = faults \/ \E kind \in AllFaults : Fault(kind)
  BY FaultOrNot DEF NoFault, faultVars
<1>2. ASSUME NEW kind, Fault(kind)
      PROVE  kind \in FaultKinds /\ (Sole' => Sole /\ kind \notin {"twin", "overlap"})
  <2>1. /\ kind \in FaultKinds /\ kind \in AllFaults /\ faults \in [AllFaults -> Nat]
        /\ faults' = [faults EXCEPT ![kind] = @ + 1]
    BY <1>2, SupervisorBounds DEF Fault, TypeOK
  <2> QED BY <2>1 DEF Sole, AllFaults
<1>3. CASE faults' = faults
  BY <1>3 DEF Sole
<1>4. CASE \E kind \in AllFaults : Fault(kind)
  BY <1>2, <1>4 DEF Sole, Fault, TypeOK
<1> QED BY <1>1, <1>3, <1>4

LEMMA HeldNext == TypeInv /\ CreditInv /\ HeldInv /\ [Next]_vars => HeldInv'
<1> SUFFICES ASSUME TypeOK, CreditInv, HeldInv, [Next]_vars, Sole'
             PROVE  /\ ~other'.busy
                    /\ \A j \in Instances : pc'[j] = "write" => pred'.rows \subseteq merged'[j]
  BY DEF TypeInv, HeldInv
<1>0. /\ pc \in [Instances -> Labels] /\ merged \in [Instances -> SUBSET Row]
      /\ Sole /\ Solo /\ ~other.busy
      /\ \A j \in Instances : pc[j] = "write" => pred.rows \subseteq merged[j]
  BY FaultsStay DEF TypeOK, HeldInv, CreditInv, Sole
<1>1. ASSUME NEW i \in Instances, LeavesRows(i)
      PROVE  /\ ~other'.busy
             /\ \A j \in Instances : pc'[j] = "write" => pred'.rows \subseteq merged'[j]
  BY <1>0, <1>1, RowsLeft
<1>2. ASSUME NEW i \in Instances, Freeze(i)
      PROVE  /\ ~other'.busy
             /\ \A j \in Instances : pc'[j] = "write" => pred'.rows \subseteq merged'[j]
  <2>1. pred' = pred /\ other' = other
    BY <1>2 DEF Freeze, fileVars
  <2>2. pred.rows \subseteq FirstWins(pred.rows, DueRows(i))
    BY DEF FirstWins
  <2>3. ASSUME NEW j \in Instances, pc'[j] = "write" PROVE pred.rows \subseteq merged'[j]
    BY <1>0, <1>2, <2>2, <2>3 DEF Freeze, Goto
  <2> QED BY <1>0, <2>1, <2>3
<1>3. ASSUME NEW i \in Instances, WriteCsv(i) \/ Cut(i)
      PROVE  /\ ~other'.busy
             /\ \A j \in Instances : pc'[j] = "write" => pred'.rows \subseteq merged'[j]
  <2>1. /\ other' = other /\ Live(i) /\ pc'[i] # "write"
        /\ \A j \in Instances \ {i} : pc'[j] = pc[j]
    BY <1>0, <1>3 DEF WriteCsv, Cut, Dies, Goto, At, Live
  <2>2. \A j \in Instances : pc'[j] # "write"
    BY <1>0, <2>1 DEF Solo, Live
  <2> QED BY <1>0, <2>1, <2>2
<1>4. ~CollectorRead /\ ~CollectorWrite
  <2>1. ASSUME CollectorRead PROVE FALSE
    <3>1. Fault("overlap")
      BY <2>1 DEF CollectorRead
    <3>2. faults'["overlap"] = faults["overlap"] + 1 /\ faults["overlap"] \in Nat
      BY <3>1, FaultType DEF TypeOK
    <3> QED BY <1>0, <3>2 DEF Sole
  <2> QED BY <1>0, <2>1 DEF CollectorWrite
<1>5. CASE Minute \/ UNCHANGED vars
  BY <1>0, <1>5 DEF Minute, vars, procVars, fileVars
<1> QED BY <1>1, <1>2, <1>3, <1>4, <1>5, RowCases

LEMMA HeldInit == Init => CreditInv /\ HeldInv
<1> SUFFICES ASSUME Init PROVE CreditInv /\ HeldInv
  OBVIOUS
<1>1. FreshState(0).used = 0 /\ Excess = 0
  BY FreshType DEF Init, Excess, Restarts, AllFaults
<1>2. CreditInv
  BY <1>1, SupervisorBounds DEF Init, CreditInv, Solo, RunningAccount, IdleAccount, Live, NoDir
<1>3. HeldInv
  BY DEF Init, HeldInv
<1> QED BY <1>2, <1>3

\* The instance dies inside to_csv.
CutInWrite == \E i \in Instances : Cut(i) /\ At(i, "write")

\* The step's effect on the CSV when nobody else writes it.
RowsKept == [][Sole => Ledger!Extend \/ CutInWrite]_(pred.rows)

LEMMA RowsExtend ==
  ASSUME TypeOK, HeldInv, SoundInv, SoundInv', [Next]_vars, Sole, ~CutInWrite
  PROVE  [Ledger!Extend]_(pred.rows)
<1>1. CASE pred'.rows = pred.rows
  BY <1>1
<1>2. ASSUME NEW i \in Instances, WriteCsv(i) PROVE Ledger!Extend
  <2>1. pred.rows \subseteq pred'.rows
    BY <1>2 DEF WriteCsv, HeldInv, At
  <2>2. Sound(pred.rows)'
    BY DEF SoundInv
  <2>3. Ledger!KeysUnique(pred.rows)' /\ \A r \in pred'.rows : InOpenWindow(r)
    BY <2>2 DEF Sound, InOpenWindow
  <2> QED BY <2>1, <2>3 DEF Ledger!Extend
<1>3. \/ \E i \in Instances : LeavesRows(i) \/ Freeze(i) \/ Cut(i)
      \/ CollectorRead \/ Minute \/ UNCHANGED vars
      => pred'.rows = pred.rows
  BY RowsLeft DEF Freeze, Cut, CutInWrite, CollectorRead, Minute, vars, fileVars
<1>4. ~CollectorWrite
  BY DEF CollectorWrite, HeldInv
<1> QED BY <1>1, <1>2, <1>3, <1>4, RowCases

\* "freezes immutable M1-M5 predictions" (five_hour_supervisor.py:4): while no twin and
\* no collector write the CSV too, a round only adds to it, under fresh keys and in
\* their windows, after every kill, resume, lost response and refused write; only a
\* kill inside to_csv can lose or change what was there.
THEOREM RowsLostOnlyInCutWrite == Spec => RowsKept
<1>1. TypeInv /\ TypeInv' /\ HeldInv /\ SoundInv /\ SoundInv' /\ [Next]_vars
        => [Sole => Ledger!Extend \/ CutInWrite]_(pred.rows)
  BY RowsExtend DEF TypeInv
<1> QED BY TypeInit, TypeNext, CreditNext, HeldInit, HeldNext, SoundInit, SoundNext, <1>1, PTL
        DEF Spec, RowsKept, TypeInv

Unexercised == \A kind \in AllFaults \ FaultKinds : faults[kind] = 0

LEMMA StillUnexercised == TypeOK /\ Unexercised /\ [Next]_vars => Unexercised'
<1> SUFFICES ASSUME TypeOK, Unexercised, [Next]_vars PROVE Unexercised'
  OBVIOUS
<1>1. faults' = faults \/ \E kind \in FaultKinds : Fault(kind)
  BY FaultsStay
<1> QED BY <1>1 DEF Unexercised, Fault, TypeOK

\* The CSV of a supervisor that writes it alone, and is never killed inside to_csv, is
\* the append-only ledger, as a whole and across every kill and resume.
THEOREM PredictionsAppendOnly ==
  ASSUME FaultKinds \cap {"cut", "overlap", "twin"} = {}
  PROVE  Spec => Ledger!Spec
<1>1. Init => Unexercised /\ Ledger!Init
  BY DEF Init, Unexercised, Ledger!Init, Ledger!KeysUnique
<1>2. Unexercised => Sole
  BY DEF Unexercised, Sole, AllFaults
<1>3. ~CutInWrite
  BY DEF CutInWrite, Cut, Fault
<1>4. TypeInv /\ HeldInv /\ SoundInv /\ SoundInv' /\ Unexercised /\ [Next]_vars
        => [Ledger!Extend]_(pred.rows)
  BY <1>2, <1>3, RowsExtend DEF TypeInv
<1> QED BY TypeInit, TypeNext, CreditNext, HeldInit, HeldNext, SoundInit, SoundNext,
           StillUnexercised, <1>1, <1>4, PTL
        DEF Spec, Ledger!Spec, TypeInv
=============================================================================
