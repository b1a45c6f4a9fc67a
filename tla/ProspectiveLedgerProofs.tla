------------------------ MODULE ProspectiveLedgerProofs ------------------------
(***************************************************************************)
(* Proofs about the prospective ledger, for every set of fixtures, every   *)
(* plan of windows, every schedule and every number of faults.             *)
(***************************************************************************)
EXTENDS ProspectiveLedger, TLAPS

LEMMA FaultType ==
  ASSUME TypeOK, NEW kind, Fault(kind)
  PROVE  /\ left' \in 0..MaxFaults /\ faults' \in [AllFaults -> Nat]
         /\ kind \in AllFaults
         /\ faults' = [faults EXCEPT ![kind] = @ + 1]
         /\ \A k \in AllFaults : faults'[k] >= faults[k]
<1>1. kind \in AllFaults /\ faults \in [AllFaults -> Nat] /\ left \in 0..MaxFaults
  BY ProspectiveBounds DEF Fault, TypeOK
<1>2. left' \in 0..MaxFaults
  BY <1>1, ProspectiveBounds DEF Fault
<1> QED BY <1>1, <1>2 DEF Fault

LEMMA TargetType == \A k \in Keys : Target(k) \in Int
<1>1. Offset \in [DOMAIN Offset -> Int]
  BY DEF Offset
<1>2. Keys \subseteq [match : Matches, window : DOMAIN Offset]
  <2> DEFINE S == [match : Matches, window : DOMAIN Offset]
  <2>1. Plan \in Seq(S)
    BY ProspectiveBounds
  <2> HIDE DEF S
  <2>2. \A i \in DOMAIN Plan : Plan[i] \in S
    BY <2>1
  <2>3. Keys \subseteq S
    BY <2>2 DEF Keys
  <2> QED BY <2>3 DEF S
<1> QED BY <1>1, <1>2, ProspectiveBounds DEF Target

LEMMA PlanType == Plan \in Seq(Keys)
<1>1. Plan \in [1..Len(Plan) -> Keys] /\ Len(Plan) \in Nat
  BY ProspectiveBounds DEF Keys
<1> QED BY <1>1

LEMMA CurrentType ==
  ASSUME TypeOK, NEW p \in Runs, todo[p] # <<>>
  PROVE  Current(p) \in Keys /\ Tail(todo[p]) \in Seq(Keys)
BY DEF TypeOK, Current

LEMMA RecordType ==
  ASSUME TypeOK, NEW p \in Runs, todo[p] # <<>>
  PROVE  /\ NewRecord(p) \in Record /\ NewRecord(p).key = Current(p)
         /\ NewRecord(p).filed = now /\ NewRecord(p).by = p
<1>1. Current(p) \in Keys
  BY CurrentType
<1>2. started[p] \in Int /\ now \in Nat
  BY DEF TypeOK
<1> QED BY <1>1, <1>2 DEF NewRecord, Record

LEMMA EventType ==
  ASSUME TypeOK, NEW p \in Runs, todo[p] # <<>>
  PROVE  \A name \in Names : Log(p, name, Current(p)) =>
           manifest' \subseteq [event : Names, key : Keys, execute : BOOLEAN]
<1>1. execute[p] \in BOOLEAN
  BY DEF TypeOK
<1>2. \A name \in Names :
        Event(p, name, Current(p)) \in [event : Names, key : Keys, execute : BOOLEAN]
  BY <1>1, CurrentType DEF Event
<1> QED BY <1>2 DEF Log, TypeOK

LEMMA EndsType ==
  ASSUME TypeOK, NEW p \in Runs, Ends(p)
  PROVE  /\ pc' \in [Runs -> {"idle", "plan", "append", "score", "flush"}]
         /\ todo' \in [Runs -> Seq(Keys)] /\ existing' \in [Runs -> SUBSET Keys]
         /\ batch' \in [Runs -> SUBSET Record]
         /\ \A q \in Runs : pc'[q] = "append" => todo'[q] # <<>>
BY DEF TypeOK, Ends, At

LEMMA BeginType ==
  ASSUME TypeOK, NEW p \in Runs, NEW exec \in BOOLEAN, Begin(p, exec),
         left' \in 0..MaxFaults, faults' \in [AllFaults -> Nat]
  PROVE  TypeOK'
<1>1. RecordedKeys \subseteq Keys
  BY DEF RecordedKeys, TypeOK, Record
<1>2. pc' \in [Runs -> {"idle", "plan", "append", "score", "flush"}]
  BY DEF Begin, Goto, TypeOK
<1>3. started' \in [Runs -> Int] /\ execute' \in [Runs -> BOOLEAN]
  BY DEF Begin, TypeOK
<1>4. existing' \in [Runs -> SUBSET Keys]
  <2>1. existing \in [Runs -> SUBSET Keys]
    BY DEF TypeOK
  <2> QED BY <1>1, <2>1 DEF Begin
<1>5. todo' \in [Runs -> Seq(Keys)]
  BY PlanType DEF Begin, TypeOK
<1>6. \A q \in Runs : pc'[q] = "append" => todo'[q] # <<>>
  <2> SUFFICES ASSUME NEW q \in Runs, pc'[q] = "append" PROVE todo'[q] # <<>>
    OBVIOUS
  <2>1. q # p /\ pc[q] = "append"
    BY DEF Begin, Goto, At, TypeOK
  <2> QED BY <2>1 DEF Begin, At, TypeOK
<1> QED BY <1>2, <1>3, <1>4, <1>5, <1>6 DEF Begin, fileVars, TypeOK, At

\* Steps of one run that only move it through its plan.
LEMMA StepType ==
  ASSUME TypeOK, NEW p \in Runs, NEW label \in {"plan", "append", "score"},
         pc' = [pc EXCEPT ![p] = label],
         \/ todo' = todo /\ (label = "append" => todo[p] # <<>>)
         \/ todo[p] # <<>> /\ todo' = [todo EXCEPT ![p] = Tail(@)] /\ label # "append",
         manifest' \subseteq [event : Names, key : Keys, execute : BOOLEAN],
         ledger' \subseteq Record, tail' \in [{"ledger", "scores"} -> Endings],
         UNCHANGED <<now, phase, started, execute, existing, batch, scores, faultVars>>
  PROVE  TypeOK'
<1>1. todo' \in [Runs -> Seq(Keys)]
  <2>1. todo \in [Runs -> Seq(Keys)]
    BY DEF TypeOK
  <2> QED BY <2>1, CurrentType
<1>2. pc' \in [Runs -> {"idle", "plan", "append", "score", "flush"}]
  <2>1. pc \in [Runs -> {"idle", "plan", "append", "score", "flush"}]
    BY DEF TypeOK
  <2> QED BY <2>1
<1>3. \A q \in Runs : pc'[q] = "append" => todo'[q] # <<>>
  <2> SUFFICES ASSUME NEW q \in Runs, pc'[q] = "append" PROVE todo'[q] # <<>>
    OBVIOUS
  <2>1. CASE q = p
    BY <2>1 DEF TypeOK
  <2>2. CASE q # p
    BY <2>2 DEF TypeOK, At
  <2> QED BY <2>1, <2>2
<1> QED BY <1>1, <1>2, <1>3 DEF TypeOK, faultVars, At

LEMMA CollectType ==
  ASSUME TypeOK, NEW p \in Runs, Collect(p)
  PROVE  TypeOK'
<1> DEFINE Events == [event : Names, key : Keys, execute : BOOLEAN]
<1>1. /\ manifest \subseteq Events /\ ledger \subseteq Record
      /\ tail \in [{"ledger", "scores"} -> Endings]
      /\ pc \in [Runs -> {"idle", "plan", "append", "score", "flush"}]
  BY DEF TypeOK
<1>2. Looking(p) \/ At(p, "append") => todo[p] # <<>>
  BY DEF Looking, TypeOK
<1>3. Looking(p) => pc = [pc EXCEPT ![p] = "plan"]
  BY <1>1 DEF Looking, At
<1>4. CASE PassWindow(p)
  <2>1. Looking(p)
    BY <1>4 DEF PassWindow, InStatus
  <2> QED BY <2>1, <1>1, <1>2, <1>3, <1>4, StepType DEF PassWindow, Advance, fileVars
<1>5. CASE MarkMissed(p)
  <2>1. Looking(p)
    BY <1>5 DEF MarkMissed, InStatus
  <2>2. manifest' \subseteq Events
    <3>1. Log(p, "missed", Current(p)) /\ todo[p] # <<>>
      BY <2>1, <1>2, <1>5 DEF MarkMissed
    <3>2. "missed" \in Names
      BY DEF Names
    <3> QED BY <3>1, <3>2, EventType
  <2> QED BY <2>1, <2>2, <1>1, <1>2, <1>3, <1>5, StepType DEF MarkMissed, Advance
<1>6. CASE LogWindow(p)
  <2>1. Looking(p)
    BY <1>6 DEF LogWindow, InStatus
  <2>2. manifest' \subseteq Events
    BY <2>1, <1>2, <1>6, EventType DEF LogWindow, Names
  <2> QED BY <2>1, <2>2, <1>1, <1>2, <1>3, <1>6, StepType DEF LogWindow, Advance
<1>7. CASE CheckKey(p)
  <2>1. Looking(p)
    BY <1>7 DEF CheckKey, Capturing, InStatus
  <2>2. CASE tail["ledger"] = "torn" \/ Current(p) \notin RecordedKeys
    <3>1. \E label \in {"append", "score"} : pc' = [pc EXCEPT ![p] = label]
      BY <2>2, <1>7 DEF CheckKey, Goto
    <3>2. UNCHANGED <<todo, manifest, ledger, tail>>
      BY <2>2, <1>7 DEF CheckKey
    <3>3. UNCHANGED <<now, phase, started, execute, existing, batch, scores, faultVars>>
      BY <1>7 DEF CheckKey
    <3>4. PICK label \in {"append", "score"} : pc' = [pc EXCEPT ![p] = label]
      BY <3>1
    <3> QED BY <2>1, <3>2, <3>3, <3>4, <1>1, <1>2, StepType
  <2>3. CASE tail["ledger"] # "torn" /\ Current(p) \in RecordedKeys
    <3>1. Advance(p) /\ Log(p, "captured", Current(p)) /\ UNCHANGED pc
      BY <2>3, <1>7 DEF CheckKey
    <3>2. manifest' \subseteq Events
      BY <3>1, <2>1, <1>2, EventType DEF Names
    <3> QED BY <3>1, <3>2, <2>1, <1>1, <1>2, <1>3, <1>7, StepType DEF CheckKey, Advance
  <2> QED BY <2>2, <2>3
<1>8. CASE AppendRecord(p)
  <2>1. At(p, "append") /\ todo[p] # <<>>
    BY <1>2, <1>8 DEF AppendRecord
  <2>2. manifest' \subseteq Events
    BY <2>1, <1>8, EventType DEF AppendRecord, Names
  <2>3. ledger' \subseteq Record
    BY <2>1, <1>1, <1>8, RecordType DEF AppendRecord
  <2>4. tail' \in [{"ledger", "scores"} -> Endings]
    BY <1>1, <1>8 DEF AppendRecord, AfterAppend, Endings
  <2> QED BY <2>1, <2>2, <2>3, <2>4, <1>8, StepType DEF AppendRecord, Advance, Goto
<1>9. CASE Shutdown(p)
  BY <1>1, <1>9, StepType DEF Shutdown, Goto, fileVars
<1> QED BY <1>4, <1>5, <1>6, <1>7, <1>8, <1>9 DEF Collect

LEMMA ScoreLinesType ==
  ASSUME TypeOK, NEW p \in Runs, NEW records \in SUBSET Record
  PROVE  ScoreLines(p, records) \subseteq [record : Record, by : Runs, at : Int]
BY DEF ScoreLines, TypeOK

LEMMA ScoreType ==
  ASSUME TypeOK, NEW p \in Runs, Score(p)
  PROVE  TypeOK'
<1>1. CASE ReadForScores(p)
  <2>1. CASE Ends(p)
    BY <2>1, <1>1, EndsType DEF ReadForScores, TypeOK, fileVars, faultVars, At
  <2>2. CASE /\ batch' = [batch EXCEPT ![p] = Unscored]
             /\ Goto(p, "flush") /\ UNCHANGED <<todo, existing>>
    <3>1. Unscored \in SUBSET Record
      BY DEF Unscored, TypeOK
    <3>2. batch' \in [Runs -> SUBSET Record]
      BY <2>2, <3>1 DEF TypeOK
    <3>3. pc' \in [Runs -> {"idle", "plan", "append", "score", "flush"}]
      BY <2>2 DEF TypeOK, Goto
    <3>4. \A q \in Runs : pc'[q] = "append" => pc[q] = "append"
      BY <2>2 DEF Goto, TypeOK
    <3> QED BY <3>2, <3>3, <3>4, <2>2, <1>1
            DEF ReadForScores, TypeOK, fileVars, faultVars, At
  <2> QED BY <2>1, <2>2, <1>1 DEF ReadForScores
<1>2. CASE FlushScores(p)
  <2>1. batch[p] \in SUBSET Record
    BY DEF TypeOK
  <2>2. scores' \subseteq [record : Record, by : Runs, at : Int]
    BY <2>1, <1>2, ScoreLinesType DEF FlushScores, TypeOK
  <2>3. tail' \in [{"ledger", "scores"} -> Endings]
    BY <1>2 DEF FlushScores, AfterAppend, Endings, TypeOK
  <2>4. Ends(p)
    BY <1>2 DEF FlushScores
  <2> QED BY <2>2, <2>3, <2>4, <1>2, EndsType DEF FlushScores, TypeOK, faultVars, At
<1> QED BY <1>1, <1>2 DEF Score

LEMMA CrashType ==
  ASSUME TypeOK, NEW p \in Runs, Kill(p) \/ Cut(p)
  PROVE  TypeOK'
<1>1. CASE Kill(p)
  BY <1>1, EndsType, FaultType DEF Kill, TypeOK, fileVars, At
<1>2. CASE Cut(p)
  <2>1. ledger' \subseteq Record
    BY <1>2, RecordType DEF Cut, TypeOK
  <2>2. scores' \subseteq [record : Record, by : Runs, at : Int]
    <3>1. \A written \in SUBSET batch[p] : written \in SUBSET Record
      BY DEF TypeOK
    <3> QED BY <3>1, <1>2, ScoreLinesType DEF Cut, TypeOK
  <2>3. tail' \in [{"ledger", "scores"} -> Endings]
    BY <1>2 DEF Cut, Endings, TypeOK
  <2>4. Ends(p) /\ Fault("cut")
    BY <1>2 DEF Cut
  <2> QED BY <2>1, <2>2, <2>3, <2>4, <1>2, EndsType, FaultType DEF Cut, TypeOK, At
<1> QED BY <1>1, <1>2

LEMMA TypeStep ==
  ASSUME TypeOK, [Next]_vars
  PROVE  TypeOK'
<1>1. CASE StartTask
  <2>1. Begin("task", TRUE) /\ left' \in 0..MaxFaults /\ faults' \in [AllFaults -> Nat]
    BY <1>1 DEF StartTask, NoFault, faultVars, TypeOK
  <2> QED BY <2>1, BeginType DEF Runs
<1>2. CASE StartByHand
  <2>1. /\ Begin("hand", TRUE) \/ Begin("hand", FALSE)
        /\ left' \in 0..MaxFaults /\ faults' \in [AllFaults -> Nat]
    BY <1>2, FaultType DEF StartByHand
  <2> QED BY <2>1, BeginType DEF Runs
<1>3. CASE Minute
  <2>1. left' \in 0..MaxFaults /\ faults' \in [AllFaults -> Nat]
    BY <1>3, FaultType DEF Minute, NoFault, faultVars, TypeOK
  <2> QED BY <2>1, <1>3 DEF Minute, TypeOK, runVars, fileVars, At
<1>4. ASSUME NEW p \in Runs, Collect(p) \/ Score(p) \/ Kill(p) \/ Cut(p) PROVE TypeOK'
  BY <1>4, CollectType, ScoreType, CrashType
<1>5. CASE UNCHANGED vars
  BY <1>5 DEF vars, runVars, fileVars, faultVars, TypeOK, At
<1> QED BY <1>1, <1>2, <1>3, <1>4, <1>5 DEF Next

\* The variables keep their types.
THEOREM TypeCorrect == Spec => []TypeOK
<1>1. Init => TypeOK
  BY ProspectiveBounds DEF Init, TypeOK, AllFaults, Runs, Endings, At
<1>2. TypeOK /\ [Next]_vars => TypeOK'
  BY TypeStep
<1> QED BY <1>1, <1>2, PTL DEF Spec

-----------------------------------------------------------------------------
(* First write wins, and a window marked as missed is on no record.          *)

\* Only a run by hand files beside the task.
Alone == faults["manual"] = 0 =>
  ~execute["hand"] /\ \A r \in ledger : r.by = "task"

\* A run about to append found the window open and its key absent; what another run
\* filed for it since, it filed in the same minute.
Appending ==
  \A p \in Runs : At(p, "append") =>
    /\ execute[p] /\ Status(Current(p), started[p]) = "due"
    /\ \A r \in ledger : r.key = Current(p) => r.filed = now /\ r.by # p

Orderly == faults["manual"] = 0 \/ faults["slow"] = 0

\* Runs start in the past, and in this minute if none was slow.
OnTime ==
  \A p \in Runs : /\ started[p] <= now
                  /\ faults["slow"] = 0 /\ ~At(p, "idle") => started[p] = now

\* What is on file is among the keys a run has read, or not missed for that run.
Known ==
  Orderly => \A p \in Runs : execute[p] /\ pc[p] \in {"plan", "append"} =>
    \A r \in ledger : r.key \in existing[p] \/ started[p] <= Target(r.key) + Grace

MissedMark(e) == e.event = "missed" /\ e.execute

\* A marked window has passed, for the task too if it marked it.
MarksPast ==
  \A e \in manifest : MissedMark(e) =>
    /\ now > Target(e.key) + Grace
    /\ faults["manual"] = 0 => started["task"] > Target(e.key) + Grace

LedgerInv == /\ TypeOK /\ Alone /\ Appending /\ FirstWriteWins
             /\ OnTime /\ Known /\ MarksPast /\ MissedMeansAbsent

Step(p) == Collect(p) \/ Score(p) \/ Kill(p) \/ Cut(p)

LEMMA StatusMeaning ==
  ASSUME NEW k \in Keys, NEW t \in Int
  PROVE  /\ Status(k, t) = "due" => t <= Target(k) + Grace
         /\ Status(k, t) = "missed" => t > Target(k) + Grace
<1>1. Target(k) \in Int /\ Target(k) + Grace \in Int
  BY TargetType DEF Grace
<1> QED BY <1>1 DEF Status, Grace

LEMMA ManualGrows ==
  ASSUME TypeOK, [Next]_vars
  PROVE  \A k \in AllFaults : faults[k] \in Nat /\ faults'[k] \in Nat /\ faults'[k] >= faults[k]
<1>1. faults \in [AllFaults -> Nat] /\ faults' \in [AllFaults -> Nat]
  BY TypeStep DEF TypeOK
<1>2. faults' = faults \/ \E kind \in FaultKinds : Fault(kind)
  <2>1. CASE \E p \in Runs : Collect(p) \/ Score(p)
    BY <2>1 DEF Collect, Score, PassWindow, MarkMissed, LogWindow, CheckKey, AppendRecord,
                Shutdown, ReadForScores, FlushScores, faultVars
  <2>2. CASE \E p \in Runs : Kill(p) \/ Cut(p)
    BY <2>2 DEF Kill, Cut, Fault
  <2>3. CASE StartTask \/ StartByHand \/ Minute
    BY <2>3 DEF StartTask, StartByHand, Minute, Fault, NoFault, faultVars
  <2> QED BY <2>1, <2>2, <2>3 DEF Next, vars, faultVars
<1> QED BY <1>1, <1>2, FaultType

\* What a step of one run leaves alone.
LEMMA StepFrame ==
  ASSUME TypeOK, NEW p \in Runs, Step(p)
  PROVE  /\ now' = now /\ started' = started /\ execute' = execute
         /\ \A q \in Runs : q # p => /\ pc'[q] = pc[q] /\ todo'[q] = todo[q]
                                     /\ existing'[q] = existing[q]
         /\ pc'[p] # "idle" => pc[p] # "idle"
         /\ pc'[p] \in {"plan", "append"} =>
              pc[p] \in {"plan", "append"} /\ existing'[p] = existing[p]
         /\ pc'[p] = "append" => CheckKey(p)
<1>1. CASE PassWindow(p) \/ MarkMissed(p) \/ LogWindow(p)
  BY <1>1 DEF PassWindow, MarkMissed, LogWindow, Advance, InStatus, Looking, At, TypeOK
<1>2. CASE CheckKey(p)
  BY <1>2 DEF CheckKey, Capturing, Advance, InStatus, Looking, At, Goto, TypeOK
<1>3. CASE AppendRecord(p) \/ Shutdown(p)
  BY <1>3 DEF AppendRecord, Shutdown, Advance, At, Goto, TypeOK
<1>4. CASE Score(p)
  BY <1>4 DEF Score, ReadForScores, FlushScores, Ends, At, Goto, TypeOK
<1>5. CASE Kill(p) \/ Cut(p)
  BY <1>5 DEF Kill, Cut, Ends, At, TypeOK
<1> QED BY <1>1, <1>2, <1>3, <1>4, <1>5 DEF Step, Collect

LEMMA StepWrites ==
  ASSUME TypeOK, NEW p \in Runs, Step(p)
  PROVE  \/ ledger' = ledger
         \/ /\ At(p, "append") /\ ledger' = ledger \cup {NewRecord(p)}
            /\ pc'[p] # "append"
<1>1. CASE AppendRecord(p)
  BY <1>1 DEF AppendRecord, Goto, TypeOK
<1>2. CASE Cut(p)
  BY <1>2 DEF Cut, Ends, TypeOK
<1>3. CASE Collect(p) /\ ~AppendRecord(p)
  BY <1>3 DEF Collect, PassWindow, MarkMissed, LogWindow, CheckKey, Shutdown, fileVars
<1>4. CASE Score(p) \/ Kill(p)
  BY <1>4 DEF Score, ReadForScores, FlushScores, Kill, fileVars
<1> QED BY <1>1, <1>2, <1>3, <1>4 DEF Step

LEMMA StepMarks ==
  ASSUME TypeOK, NEW p \in Runs, Step(p), NEW e \in manifest', MissedMark(e)
  PROVE  \/ e \in manifest
         \/ /\ At(p, "plan") /\ todo[p] # <<>> /\ ledger' = ledger
            /\ Status(Current(p), started[p]) = "missed" /\ Current(p) \notin existing[p]
            /\ e.key = Current(p) /\ execute[p]
<1>1. CASE MarkMissed(p)
  BY <1>1 DEF MarkMissed, InStatus, Looking, Log, Event, MissedMark
<1>2. CASE LogWindow(p) \/ CheckKey(p) \/ AppendRecord(p)
  BY <1>2 DEF LogWindow, CheckKey, AppendRecord, Log, Event, MissedMark
<1>3. CASE PassWindow(p) \/ Shutdown(p) \/ Score(p) \/ Kill(p) \/ Cut(p)
  BY <1>3 DEF PassWindow, Shutdown, Score, ReadForScores, FlushScores, Kill, Cut, fileVars
<1> QED BY <1>1, <1>2, <1>3 DEF Step, Collect

LEMMA StepPreserves ==
  ASSUME LedgerInv, NEW p \in Runs, Step(p), TypeOK',
         \A k \in AllFaults : faults[k] \in Nat /\ faults'[k] \in Nat /\ faults'[k] >= faults[k]
  PROVE  LedgerInv'
<1> USE DEF LedgerInv
<1>1. /\ faults'["manual"] = 0 => faults["manual"] = 0
      /\ faults'["slow"] = 0 => faults["slow"] = 0
  BY DEF AllFaults
<1>2. Orderly' => Orderly
  BY <1>1 DEF Orderly
<1>3. /\ now \in Int /\ \A q \in Runs : started[q] \in Int /\ execute[q] \in BOOLEAN
      /\ "task" \in Runs /\ "hand" \in Runs /\ p \in {"task", "hand"}
  BY DEF TypeOK, Runs
<1>4. faults["manual"] = 0 /\ execute[p] => p = "task"
  BY <1>3 DEF Alone
<1>5. At(p, "append") => /\ Current(p) \in Keys /\ execute[p]
                         /\ started[p] <= Target(Current(p)) + Grace
                         /\ Target(Current(p)) \in Int
                         /\ NewRecord(p) \in Record /\ NewRecord(p).key = Current(p)
                         /\ NewRecord(p).filed = now /\ NewRecord(p).by = p
  BY <1>3, CurrentType, RecordType, StatusMeaning, TargetType DEF Appending, TypeOK
<1>6. Alone'
  <2> SUFFICES ASSUME faults'["manual"] = 0
               PROVE  ~execute'["hand"] /\ \A r \in ledger' : r.by = "task"
    BY DEF Alone
  <2>1. ~execute'["hand"]
    BY <1>1, StepFrame DEF Alone
  <2>2. \A r \in ledger' : r.by = "task"
    BY <1>1, <1>4, <1>5, StepWrites DEF Alone
  <2> QED BY <2>1, <2>2
<1>7. Appending'
  <2> SUFFICES ASSUME NEW q \in Runs, pc'[q] = "append"
               PROVE  /\ execute'[q] /\ Status(Head(todo'[q]), started'[q]) = "due"
                      /\ \A r \in ledger' : r.key = Head(todo'[q]) => r.filed = now' /\ r.by # q
    BY DEF Appending, At, Current, Status, Target
  <2>1. CASE q = p
    <3>1. CheckKey(p)
      BY <2>1, StepFrame
    <3>2. tail["ledger"] # "torn" /\ Current(p) \notin RecordedKeys /\ todo' = todo
      BY <3>1, <2>1 DEF CheckKey, Capturing, InStatus, Looking, At, Goto, TypeOK
    <3>3. execute[p] /\ Status(Current(p), started[p]) = "due" /\ ledger' = ledger
      BY <3>1 DEF CheckKey, Capturing, InStatus
    <3> QED BY <3>2, <3>3, <2>1, StepFrame DEF RecordedKeys, Current
  <2>2. CASE q # p
    <3>1. At(q, "append") /\ todo'[q] = todo[q] /\ started'[q] = started[q]
      BY <2>2, StepFrame DEF At
    <3>2. /\ execute'[q] /\ Status(Head(todo'[q]), started'[q]) = "due"
          /\ \A r \in ledger : r.key = Head(todo'[q]) => r.filed = now /\ r.by # q
      BY <3>1, StepFrame DEF Appending, Current
    <3> QED BY <3>2, <2>2, <1>5, StepWrites, StepFrame
  <2> QED BY <2>1, <2>2
<1>8. FirstWriteWins'
  <2> SUFFICES ASSUME NEW r \in ledger', NEW s \in ledger', r.key = s.key
               PROVE  r.filed = s.filed /\ (r.by = s.by \/ faults'["manual"] = 0 => r = s)
    BY DEF FirstWriteWins
  <2>1. CASE r \in ledger /\ s \in ledger
    BY <2>1, <1>1 DEF FirstWriteWins
  <2>2. CASE r \notin ledger \/ s \notin ledger
    <3>1. At(p, "append") /\ ledger' = ledger \cup {NewRecord(p)}
      BY <2>2, StepWrites
    <3>2. \A o \in ledger : o.key = NewRecord(p).key =>
            o.filed = NewRecord(p).filed /\ o.by # NewRecord(p).by /\ faults["manual"] # 0
      BY <3>1, <1>4, <1>5 DEF Appending, Alone
    <3> QED BY <3>1, <3>2, <2>2, <1>1
  <2> QED BY <2>1, <2>2
<1>9. OnTime'
  BY <1>1, <1>3, StepFrame DEF OnTime, At
<1>10. Orderly /\ At(p, "append") =>
         \A q \in Runs : execute[q] /\ pc[q] \in {"plan", "append"} => started[q] = started[p]
  <2> SUFFICES ASSUME Orderly, At(p, "append"),
                      NEW q \in Runs, execute[q], pc[q] \in {"plan", "append"}
               PROVE  started[q] = started[p]
    OBVIOUS
  <2>1. CASE faults["manual"] = 0
    BY <2>1, <1>4, <1>5, <1>3 DEF Alone, Runs
  <2>2. CASE faults["slow"] = 0
    BY <2>2 DEF OnTime, At
  <2> QED BY <2>1, <2>2 DEF Orderly
<1>11. Known'
  <2> SUFFICES ASSUME Orderly', NEW q \in Runs, execute'[q], pc'[q] \in {"plan", "append"},
                      NEW r \in ledger'
               PROVE  r.key \in existing'[q] \/ started'[q] <= Target(r.key) + Grace
    BY DEF Known, Target
  <2>1. /\ execute[q] /\ pc[q] \in {"plan", "append"} /\ existing'[q] = existing[q]
        /\ started'[q] = started[q]
    BY StepFrame
  <2>2. CASE r \in ledger
    BY <2>1, <2>2, <1>2 DEF Known
  <2>3. CASE r \notin ledger
    BY <2>1, <2>3, <1>2, <1>5, <1>10, StepWrites
  <2> QED BY <2>2, <2>3
<1>12. ASSUME NEW e \in manifest', MissedMark(e), e \notin manifest
       PROVE  /\ started[p] > Target(e.key) + Grace /\ Target(e.key) \in Int
              /\ execute[p] /\ ledger' = ledger
              /\ Orderly => \A r \in ledger : r.key # e.key
  <2>1. /\ At(p, "plan") /\ todo[p] # <<>> /\ ledger' = ledger
        /\ Status(Current(p), started[p]) = "missed" /\ Current(p) \notin existing[p]
        /\ e.key = Current(p) /\ execute[p]
    BY <1>12, StepMarks
  <2>2. Target(e.key) \in Int /\ started[p] > Target(e.key) + Grace
    BY <2>1, <1>3, CurrentType, StatusMeaning, TargetType
  <2>3. ASSUME Orderly, NEW r \in ledger, r.key = e.key PROVE FALSE
    <3>1. r.key \in existing[p] \/ started[p] <= Target(r.key) + Grace
      BY <2>1, <2>3 DEF Known, At
    <3> QED BY <3>1, <2>1, <2>2, <2>3, <1>3 DEF Grace
  <2> QED BY <2>1, <2>2, <2>3
<1>13. MarksPast'
  <2> SUFFICES ASSUME NEW e \in manifest', MissedMark(e)
               PROVE  /\ now' > Target(e.key) + Grace
                      /\ faults'["manual"] = 0 => started'["task"] > Target(e.key) + Grace
    BY DEF MarksPast, Target, MissedMark
  <2>1. CASE e \in manifest
    BY <2>1, <1>1, StepFrame DEF MarksPast
  <2>2. CASE e \notin manifest
    <3>1. started[p] <= now
      BY DEF OnTime
    <3> QED BY <2>2, <3>1, <1>1, <1>3, <1>4, <1>12, StepFrame DEF Grace
  <2> QED BY <2>1, <2>2
<1>14. MissedMeansAbsent'
  <2> SUFFICES ASSUME Orderly', NEW e \in manifest', MissedMark(e), NEW r \in ledger',
                      r.key = e.key
               PROVE  FALSE
    BY DEF MissedMeansAbsent, Orderly, MissedMark, Filed
  <2>1. CASE e \in manifest /\ r \in ledger
    BY <2>1, <1>2 DEF MissedMeansAbsent, Orderly, MissedMark, Filed
  <2>2. CASE e \notin manifest
    BY <2>2, <1>2, <1>12
  <2>3. CASE e \in manifest /\ r \notin ledger
    <3>1. At(p, "append") /\ r = NewRecord(p)
      BY <2>3, StepWrites
    <3>2. started[p] <= Target(e.key) + Grace /\ Target(e.key) \in Int /\ execute[p]
      BY <3>1, <1>5
    <3>3. now > Target(e.key) + Grace
          /\ (faults["manual"] = 0 => started["task"] > Target(e.key) + Grace)
      BY <2>3 DEF MarksPast
    <3>4. CASE faults["manual"] = 0
      BY <3>2, <3>3, <3>4, <1>3, <1>4 DEF Grace
    <3>5. CASE faults["slow"] = 0
      <4>1. started[p] = now
        BY <3>1, <3>5 DEF OnTime, At
      <4> QED BY <4>1, <3>2, <3>3, <1>3 DEF Grace
    <3> QED BY <3>4, <3>5, <1>2 DEF Orderly
  <2> QED BY <2>1, <2>2, <2>3
<1> QED BY <1>6, <1>7, <1>8, <1>9, <1>11, <1>13, <1>14

LEMMA BeginPreserves ==
  ASSUME LedgerInv, NEW p \in Runs, NEW exec \in BOOLEAN, Begin(p, exec), TypeOK',
         p = "hand" /\ exec => faults'["manual"] # 0,
         \A k \in AllFaults : faults[k] \in Nat /\ faults'[k] \in Nat /\ faults'[k] >= faults[k]
  PROVE  LedgerInv'
<1> USE DEF LedgerInv
<1>1. /\ faults'["manual"] = 0 => faults["manual"] = 0
      /\ faults'["slow"] = 0 => faults["slow"] = 0
  BY DEF AllFaults
<1>2. Orderly' => Orderly
  BY <1>1 DEF Orderly
<1>3. /\ now \in Int /\ \A q \in Runs : started[q] \in Int /\ execute[q] \in BOOLEAN
      /\ "task" \in Runs /\ "hand" \in Runs /\ \A q \in Runs : q \in {"task", "hand"}
  BY DEF TypeOK, Runs
<1>4. /\ UNCHANGED <<now, ledger, manifest>>
      /\ started' = [started EXCEPT ![p] = now] /\ execute' = [execute EXCEPT ![p] = exec]
      /\ pc'[p] \in {"plan", "score"}
      /\ \A q \in Runs : q # p => /\ pc'[q] = pc[q] /\ todo'[q] = todo[q]
                                  /\ existing'[q] = existing[q]
  BY DEF Begin, Goto, fileVars, TypeOK
<1>5. \A q \in Runs : /\ started'[q] = IF q = p THEN now ELSE started[q]
                      /\ execute'[q] = IF q = p THEN exec ELSE execute[q]
  BY <1>4 DEF TypeOK
<1>6. Alone'
  BY <1>1, <1>3, <1>4, <1>5 DEF Alone
<1>7. Appending'
  <2> SUFFICES ASSUME NEW q \in Runs, pc'[q] = "append"
               PROVE  /\ execute'[q] /\ Status(Head(todo'[q]), started'[q]) = "due"
                      /\ \A r \in ledger' : r.key = Head(todo'[q]) => r.filed = now' /\ r.by # q
    BY DEF Appending, At, Current, Status, Target
  <2>1. q # p /\ At(q, "append")
    BY <1>4 DEF At
  <2> QED BY <2>1, <1>4, <1>5 DEF Appending, Current
<1>8. FirstWriteWins'
  BY <1>1, <1>4 DEF FirstWriteWins
<1>9. OnTime'
  BY <1>1, <1>3, <1>4, <1>5 DEF OnTime, At
<1>10. Known'
  <2> SUFFICES ASSUME Orderly', NEW q \in Runs, execute'[q], pc'[q] \in {"plan", "append"},
                      NEW r \in ledger'
               PROVE  r.key \in existing'[q] \/ started'[q] <= Target(r.key) + Grace
    BY DEF Known, Target
  <2>1. CASE q = p
    <3>1. exec
      BY <2>1, <1>5
    <3>2. existing' = [existing EXCEPT ![p] = RecordedKeys]
      BY <2>1, <3>1 DEF Begin, Goto, TypeOK
    <3> QED BY <3>2, <2>1, <1>4 DEF RecordedKeys, TypeOK
  <2>2. CASE q # p
    BY <2>2, <1>2, <1>4, <1>5 DEF Known
  <2> QED BY <2>1, <2>2
<1>11. MarksPast'
  <2> SUFFICES ASSUME NEW e \in manifest', MissedMark(e)
               PROVE  /\ now' > Target(e.key) + Grace
                      /\ faults'["manual"] = 0 => started'["task"] > Target(e.key) + Grace
    BY DEF MarksPast, Target, MissedMark
  <2> QED BY <1>1, <1>3, <1>4, <1>5 DEF MarksPast
<1>12. MissedMeansAbsent'
  BY <1>1, <1>4 DEF MissedMeansAbsent, Filed
<1> QED BY <1>6, <1>7, <1>8, <1>9, <1>10, <1>11, <1>12

LEMMA MinutePreserves ==
  ASSUME LedgerInv, Minute, TypeOK',
         \A k \in AllFaults : faults[k] \in Nat /\ faults'[k] \in Nat /\ faults'[k] >= faults[k]
  PROVE  LedgerInv'
<1> USE DEF LedgerInv
<1>1. /\ faults'["manual"] = 0 => faults["manual"] = 0
      /\ faults'["slow"] = 0 => faults["slow"] = 0
  BY DEF AllFaults
<1>2. /\ now' = now + 1 /\ now \in Int /\ \A p \in Runs : started[p] \in Int
      /\ UNCHANGED <<pc, started, execute, todo, existing, ledger, manifest>>
  BY DEF Minute, runVars, fileVars, TypeOK
<1>3. \A p \in Runs : ~At(p, "append")
  BY DEF Minute
<1>4. faults'["slow"] = 0 => \A p \in Runs : At(p, "idle")
  <2> SUFFICES ASSUME \E p \in Runs : ~At(p, "idle") PROVE faults'["slow"] # 0
    OBVIOUS
  <2>1. Fault("slow")
    BY DEF Minute
  <2>2. faults' = [faults EXCEPT !["slow"] = @ + 1] /\ faults["slow"] \in Nat
        /\ faults \in [AllFaults -> Nat] /\ "slow" \in AllFaults
    BY <2>1 DEF Fault, TypeOK, AllFaults
  <2> QED BY <2>2
<1>5. Alone' /\ Appending' /\ FirstWriteWins'
  BY <1>1, <1>2, <1>3 DEF Alone, Appending, FirstWriteWins, At
<1>6. OnTime'
  BY <1>1, <1>2, <1>4 DEF OnTime, At
<1>7. Known'
  BY <1>1, <1>2 DEF Known, Orderly, Target
<1>8. MarksPast'
  <2> SUFFICES ASSUME NEW e \in manifest, MissedMark(e)
               PROVE  /\ now + 1 > Target(e.key) + Grace
                      /\ faults'["manual"] = 0 => started["task"] > Target(e.key) + Grace
    BY <1>2 DEF MarksPast, Target, MissedMark
  <2>1. Target(e.key) \in Int
    BY TargetType DEF TypeOK
  <2> QED BY <2>1, <1>1, <1>2 DEF MarksPast, Grace
<1>9. MissedMeansAbsent'
  BY <1>1, <1>2 DEF MissedMeansAbsent, Filed
<1> QED BY <1>5, <1>6, <1>7, <1>8, <1>9

LEMMA LedgerStep ==
  ASSUME LedgerInv, [Next]_vars
  PROVE  LedgerInv'
<1>1. TypeOK' /\ \A k \in AllFaults :
        faults[k] \in Nat /\ faults'[k] \in Nat /\ faults'[k] >= faults[k]
  BY TypeStep, ManualGrows DEF LedgerInv
<1>2. CASE StartTask
  BY <1>1, <1>2, BeginPreserves DEF StartTask, Runs
<1>3. CASE StartByHand
  <2>1. CASE Fault("manual") /\ Begin("hand", TRUE)
    <3>1. faults' = [faults EXCEPT !["manual"] = @ + 1] /\ faults["manual"] \in Nat
          /\ faults \in [AllFaults -> Nat] /\ "manual" \in AllFaults
      BY <2>1 DEF Fault, LedgerInv, TypeOK, AllFaults
    <3>2. faults'["manual"] # 0
      BY <3>1
    <3> QED BY <1>1, <2>1, <3>2, BeginPreserves DEF Runs
  <2>2. CASE Begin("hand", FALSE)
    BY <1>1, <2>2, BeginPreserves DEF Runs
  <2> QED BY <1>3, <2>1, <2>2 DEF StartByHand
<1>4. CASE Minute
  BY <1>1, <1>4, MinutePreserves
<1>5. ASSUME NEW p \in Runs, Step(p) PROVE LedgerInv'
  BY <1>1, <1>5, StepPreserves
<1>6. CASE UNCHANGED vars
  <2>1. UNCHANGED <<now, pc, started, execute, todo, existing, ledger, manifest, faults>>
    BY <1>6 DEF vars, runVars, fileVars, faultVars
  <2> QED BY <1>1, <2>1 DEF LedgerInv, Alone, Appending, FirstWriteWins, OnTime, Known, MarksPast,
                            MissedMeansAbsent, Orderly, MissedMark, Filed, At, Current, Status, Target
<1> QED BY <1>2, <1>3, <1>4, <1>5, <1>6 DEF Next, Step

\* The inductive invariant of the collector, for every plan, schedule and fault.
THEOREM LedgerInvariant == Spec => []LedgerInv
<1>1. Init => LedgerInv
  <2>1. Init => TypeOK
    BY ProspectiveBounds DEF Init, TypeOK, AllFaults, Runs, Endings, At
  <2>2. Init => Alone /\ Appending /\ FirstWriteWins /\ OnTime /\ Known /\ MarksPast
                /\ MissedMeansAbsent
    BY DEF Init, Alone, Appending, FirstWriteWins, OnTime, Known, MarksPast,
           MissedMeansAbsent, At, Runs
  <2> QED BY <2>1, <2>2 DEF LedgerInv
<1>2. LedgerInv /\ [Next]_vars => LedgerInv'
  BY LedgerStep
<1> QED BY <1>1, <1>2, PTL DEF Spec

\* What ImmutableLedger.record (ledger.py:33-40) promises: a window stays as first
\* written.
THEOREM LedgerFirstWriteWins == Spec => []FirstWriteWins
<1>1. LedgerInv => FirstWriteWins
  BY DEF LedgerInv
<1> QED BY <1>1, LedgerInvariant, PTL

\* What MISSED_UNRECOVERABLE (session.py:65) means: no prediction is on file.
THEOREM MarkedMeansAbsent == Spec => []MissedMeansAbsent
<1>1. LedgerInv => MissedMeansAbsent
  BY DEF LedgerInv
<1> QED BY <1>1, LedgerInvariant, PTL

-----------------------------------------------------------------------------
(* A record is scored once, and after its match.                             *)

Ended(m) == Kickoff[m] + GameLength

\* The batch of a run is on file and over.
Batched == \A p \in Runs : \A r \in batch[p] : r \in ledger /\ now >= Ended(r.key.match)

ScoresBacked == \A s \in scores : s.record \in ledger /\ s.at >= Ended(s.record.key.match)

NoHand == faults["manual"] + faults["dry"] = 0

\* Without a run by hand, what the task is about to score has no score, and each
\* record has one at most.
Fresh == NoHand => /\ At("hand", "idle")
                   /\ \A r \in batch["task"] : r.key \notin ScoredKeys

ScoredAtMostOnce == NoHand => \A s, t \in scores : s.record.key = t.record.key => s = t

ScoreInv == LedgerInv /\ Batched /\ ScoresBacked /\ Fresh /\ ScoredAtMostOnce

LEMMA KickoffType ==
  \A k \in Keys : /\ Kickoff[k.match] \in Int /\ Ended(k.match) \in Int
                  /\ k.window \in DOMAIN Offset
<1>1. Keys \subseteq [match : Matches, window : DOMAIN Offset]
  <2> DEFINE S == [match : Matches, window : DOMAIN Offset]
  <2>1. Plan \in Seq(S)
    BY ProspectiveBounds
  <2> HIDE DEF S
  <2>2. \A i \in DOMAIN Plan : Plan[i] \in S
    BY <2>1
  <2>3. Keys \subseteq S
    BY <2>2 DEF Keys
  <2> QED BY <2>3 DEF S
<1> QED BY <1>1, ProspectiveBounds DEF Ended

\* What a step does to the scores and to the batch of its run.
LEMMA StepScores ==
  ASSUME TypeOK, NEW p \in Runs, Step(p)
  PROVE  \/ scores' = scores /\ batch' = batch
         \/ scores' = scores /\ batch' = [batch EXCEPT ![p] = {}]
         \/ /\ At(p, "score") /\ scores' = scores /\ ledger' = ledger
            /\ batch' = [batch EXCEPT ![p] = Unscored]
         \/ /\ At(p, "flush") /\ batch' = [batch EXCEPT ![p] = {}] /\ ledger' = ledger
            /\ \E written \in SUBSET batch[p] : scores' = scores \cup ScoreLines(p, written)
<1>1. CASE Collect(p)
  BY <1>1 DEF Collect, PassWindow, MarkMissed, LogWindow, CheckKey, AppendRecord, Shutdown, fileVars
<1>2. CASE ReadForScores(p)
  BY <1>2 DEF ReadForScores, Ends, fileVars
<1>3. CASE FlushScores(p)
  BY <1>3 DEF FlushScores, Ends
<1>4. CASE Kill(p)
  BY <1>4 DEF Kill, Ends, fileVars
<1>5. CASE Cut(p)
  <2>1. batch' = [batch EXCEPT ![p] = {}]
    BY <1>5 DEF Cut, Ends
  <2> QED BY <2>1, <1>5 DEF Cut
<1> QED BY <1>1, <1>2, <1>3, <1>4, <1>5 DEF Step, Score

LEMMA ScoreLinesMeaning ==
  ASSUME NEW p, NEW records
  PROVE  \A s \in ScoreLines(p, records) :
           s.record \in records /\ s.at = now /\ s = [record |-> s.record, by |-> p, at |-> now]
BY DEF ScoreLines

LEMMA ScoreStepPreserves ==
  ASSUME ScoreInv, LedgerInv', NEW p \in Runs, Step(p), NoHand' => NoHand
  PROVE  ScoreInv'
<1>1. /\ TypeOK /\ ledger \subseteq ledger' /\ now' = now /\ now \in Nat
      /\ batch \in [Runs -> SUBSET Record]
      /\ pc[p] # "idle" /\ \A q \in Runs : q # p => pc'[q] = pc[q]
  <2>1. pc[p] # "idle"
    BY DEF Step, Collect, Score, PassWindow, MarkMissed, LogWindow, CheckKey, AppendRecord,
           Shutdown, Capturing, InStatus, Looking, ReadForScores, FlushScores, Kill, Cut, At
  <2> QED BY <2>1, StepFrame, StepWrites DEF ScoreInv, LedgerInv, TypeOK
<1>2. NoHand => p = "task"
  BY <1>1 DEF ScoreInv, Fresh, At, Runs
<1>3. \A r \in Unscored : r \in ledger /\ now >= Ended(r.key.match) /\ r.key \notin ScoredKeys
  BY DEF Unscored, Finished, Ended
<1>4. Batched'
  BY <1>1, <1>3, StepScores DEF ScoreInv, Batched, Ended
<1>5. PICK written \in SUBSET batch[p] :
        \/ scores' = scores
        \/ /\ scores' = scores \cup ScoreLines(p, written)
           /\ batch' = [batch EXCEPT ![p] = {}]
  <2>1. CASE scores' = scores
    <3>1. {} \in SUBSET batch[p]
      OBVIOUS
    <3> QED BY <2>1, <3>1
  <2>2. CASE scores' # scores
    BY <1>1, <2>2, StepScores
  <2> QED BY <2>1, <2>2
<1>6. ScoresBacked'
  BY <1>1, <1>5, ScoreLinesMeaning DEF ScoreInv, ScoresBacked, Batched, Ended
<1>7. Fresh'
  <2> SUFFICES ASSUME NoHand'
               PROVE  At("hand", "idle")' /\ \A r \in batch'["task"] : r.key \notin ScoredKeys'
    BY DEF Fresh
  <2>1. p = "task" /\ At("hand", "idle") /\ NoHand
    BY <1>2 DEF ScoreInv, Fresh
  <2>2. At("hand", "idle")'
    BY <1>1, <2>1 DEF At, Runs
  <2>3. CASE scores' = scores
    <3>1. ScoredKeys' = ScoredKeys
      BY <2>3 DEF ScoredKeys
    <3>2. \A r \in batch'["task"] : r \in batch["task"] \/ r \in Unscored
      BY <1>1, <2>1, <2>3, StepScores
    <3> QED BY <1>3, <2>1, <2>2, <3>1, <3>2 DEF ScoreInv, Fresh
  <2>4. CASE batch' = [batch EXCEPT ![p] = {}]
    <3>1. batch'["task"] = {}
      BY <1>1, <2>1, <2>4
    <3> QED BY <2>2, <3>1
  <2> QED BY <1>5, <2>3, <2>4
<1>8. ScoredAtMostOnce'
  <2> SUFFICES ASSUME NoHand', NEW s \in scores', NEW t \in scores',
                      s.record.key = t.record.key
               PROVE  s = t
    BY DEF ScoredAtMostOnce
  <2>1. p = "task" /\ NoHand /\ faults["manual"] = 0
    <3>1. faults["manual"] \in Nat /\ faults["dry"] \in Nat
      BY <1>1 DEF TypeOK, AllFaults
    <3> QED BY <1>2, <3>1 DEF NoHand
  <2>2. CASE scores' = scores
    BY <2>1, <2>2 DEF ScoreInv, ScoredAtMostOnce
  <2>3. CASE scores' = scores \cup ScoreLines(p, written)
    <3>1. \A u \in scores : \A r \in batch[p] : r.key # u.record.key
      BY <2>1 DEF ScoreInv, Fresh, ScoredKeys
    <3>2. CASE s \in scores /\ t \in scores
      BY <2>1, <3>2 DEF ScoreInv, ScoredAtMostOnce
    <3>3. CASE s \notin scores /\ t \notin scores
      <4>1. s \in ScoreLines(p, written) /\ t \in ScoreLines(p, written)
        BY <2>3, <3>3
      <4>2. s.record \in ledger /\ t.record \in ledger
        BY <4>1, ScoreLinesMeaning DEF ScoreInv, Batched
      <4>3. s.record = t.record
        BY <2>1, <4>2 DEF ScoreInv, LedgerInv, FirstWriteWins
      <4> QED BY <4>1, <4>3, ScoreLinesMeaning
    <3>4. CASE (s \in scores /\ t \notin scores) \/ (s \notin scores /\ t \in scores)
      BY <2>3, <3>1, <3>4, ScoreLinesMeaning
    <3> QED BY <3>2, <3>3, <3>4
  <2> QED BY <1>5, <2>2, <2>3
<1> QED BY <1>4, <1>6, <1>7, <1>8 DEF ScoreInv

LEMMA ScoreInvStep ==
  ASSUME ScoreInv, [Next]_vars
  PROVE  ScoreInv'
<1>1. LedgerInv' /\ TypeOK /\ now \in Nat
  BY LedgerStep DEF ScoreInv, LedgerInv, TypeOK
<1>2. \A k \in AllFaults : faults[k] \in Nat /\ faults'[k] \in Nat /\ faults'[k] >= faults[k]
  BY <1>1, ManualGrows
<1>3. NoHand' => NoHand
  BY <1>2 DEF NoHand, AllFaults
<1>4. ASSUME NEW p \in Runs, Step(p) PROVE ScoreInv'
  BY <1>1, <1>3, <1>4, ScoreStepPreserves
<1>5. CASE StartTask \/ StartByHand \/ Minute \/ UNCHANGED vars
  <2>1. UNCHANGED <<scores, batch, ledger>> /\ now' \in {now, now + 1}
    BY <1>5 DEF StartTask, StartByHand, Begin, Minute, vars, runVars, fileVars
  <2>2. Batched' /\ ScoresBacked' /\ ScoredAtMostOnce'
    <3>1. \A q \in Runs : \A r \in batch[q] : now' >= Ended(r.key.match)
      <4> SUFFICES ASSUME NEW q \in Runs, NEW r \in batch[q] PROVE now' >= Ended(r.key.match)
        OBVIOUS
      <4>1. r \in ledger /\ now >= Ended(r.key.match)
        BY DEF ScoreInv, Batched
      <4>2. Ended(r.key.match) \in Int
        BY <1>1, <4>1, KickoffType DEF TypeOK, Record
      <4> QED BY <1>1, <2>1, <4>1, <4>2
    <3> QED BY <1>3, <2>1, <3>1
            DEF ScoreInv, Batched, ScoresBacked, ScoredAtMostOnce, Ended
  <2>3. NoHand' => At("hand", "idle")'
    <3> SUFFICES ASSUME NoHand' PROVE At("hand", "idle")'
      OBVIOUS
    <3>1. At("hand", "idle")
      BY <1>3 DEF ScoreInv, Fresh
    <3>2. ~StartByHand
      <4>1. ASSUME NEW k \in {"manual", "dry"}, Fault(k) PROVE FALSE
        <5>1. faults' = [faults EXCEPT ![k] = @ + 1] /\ faults \in [AllFaults -> Nat]
              /\ k \in AllFaults
          BY <1>1, <4>1, FaultType DEF TypeOK
        <5>2. faults'[k] = faults[k] + 1
          BY <5>1
        <5> QED BY <1>2, <4>1, <5>2 DEF NoHand, AllFaults
      <4> QED BY <4>1 DEF StartByHand
    <3>3. pc'["hand"] = pc["hand"]
      <4>1. CASE StartTask
        BY <1>1, <4>1 DEF StartTask, Begin, Goto, TypeOK, Runs
      <4>2. CASE Minute \/ UNCHANGED vars
        BY <4>2 DEF Minute, vars, runVars
      <4> QED BY <1>5, <3>2, <4>1, <4>2
    <3> QED BY <3>1, <3>3 DEF At
  <2>4. Fresh'
    BY <1>3, <2>1, <2>3 DEF ScoreInv, Fresh, ScoredKeys
  <2> QED BY <1>1, <2>2, <2>4 DEF ScoreInv
<1> QED BY <1>4, <1>5 DEF Next, Step

LEMMA ScoreInvInit == Init => ScoreInv
<1> SUFFICES ASSUME Init PROVE ScoreInv
  OBVIOUS
<1>1. TypeOK
  BY ProspectiveBounds DEF Init, TypeOK, AllFaults, Runs, Endings, At
<1>2. Alone /\ Appending /\ FirstWriteWins /\ OnTime /\ Known /\ MarksPast /\ MissedMeansAbsent
  BY DEF Init, Alone, Appending, FirstWriteWins, OnTime, Known, MarksPast,
         MissedMeansAbsent, At, Runs
<1>3. Batched /\ ScoresBacked /\ Fresh /\ ScoredAtMostOnce
  BY DEF Init, Batched, ScoresBacked, Fresh, ScoredAtMostOnce, At, Runs
<1> QED BY <1>1, <1>2, <1>3 DEF ScoreInv, LedgerInv

-----------------------------------------------------------------------------
(* The arithmetic of the schedule.                                           *)

\* Two multiples of the interval lie an interval apart; each multiple is one; and there
\* is one in every interval.
LEMMA Multiples ==
  ASSUME NEW i \in Nat \ {0}, NEW p \in Int, NEW q \in Int, i * p < i * q
  PROVE  i * q >= i * p + i
<1>1. p < q
  OBVIOUS
<1>2. q >= p + 1
  BY <1>1
<1> QED BY <1>2

LEMMA Division ==
  ASSUME NEW i \in Nat \ {0}, NEW a \in Int
  PROVE  /\ a = i * (a \div i) + (a % i) /\ a \div i \in Int
         /\ a % i \in Nat /\ a % i < i
<1>0. i \in Int /\ i > 0
  OBVIOUS
<1>1. a = i * (a \div i) + (a % i)
  BY <1>0
<1>2. a \div i \in Int
  BY <1>0
<1>3. a % i \in 0..(i-1)
  OBVIOUS
<1> QED BY <1>1, <1>2, <1>3

LEMMA MultipleMod ==
  ASSUME NEW i \in Nat \ {0}, NEW q \in Int
  PROVE  (i * q) % i = 0
<1> DEFINE a == i * q
           d == a \div i
           m == a % i
<1>1. a \in Int
  OBVIOUS
<1>2. a = i * d + m /\ d \in Int /\ m \in Nat /\ m < i
  BY <1>1, Division
<1>3. m # 0 => i * q >= i * d + i
  <2>1. m # 0 => i * d < i * q
    <3> DEFINE x == i * d
    <3>1. x \in Int
      BY <1>2
    <3> HIDE DEF x, m, d
    <3>2. m # 0 => x < a
      BY <1>1, <1>2, <3>1 DEF x
    <3> QED BY <3>2 DEF x
  <2> QED BY <2>1, <1>2, Multiples
<1> HIDE DEF m, d
<1> QED
  <2> DEFINE x == i * d
  <2>1. x \in Int
    BY <1>2
  <2> HIDE DEF x
  <2>2. a = x + m /\ (m # 0 => a >= x + i)
    BY <1>2, <1>3 DEF x
  <2>3. m = 0
    BY <1>1, <1>2, <2>1, <2>2
  <2> QED BY <2>3 DEF m

LEMMA ApartMod ==
  ASSUME NEW i \in Nat \ {0}, NEW a \in Int, NEW b \in Int, a % i = 0, b % i = 0, a < b
  PROVE  b >= a + i
<1> DEFINE p == a \div i
           q == b \div i
<1>1. p \in Int /\ q \in Int /\ a = i * p /\ b = i * q
  BY Division
<1> HIDE DEF p, q
<1>2. i * p < i * q
  BY <1>1
<1>3. i * q >= i * p + i
  BY <1>1, <1>2, Multiples
<1> QED BY <1>1, <1>3

LEMMA NextMod ==
  ASSUME NEW i \in Nat \ {0}, NEW a \in Int
  PROVE  \E b \in Int : a <= b /\ b < a + i /\ b % i = 0
<1> DEFINE q == a \div i
           m == a % i
<1>1. q \in Int /\ a = i * q + m /\ m \in Nat /\ m < i
  BY Division
<1> HIDE DEF q, m
<1> DEFINE x == i * q
<1>2. x \in Int /\ x % i = 0
  BY <1>1, MultipleMod
<1>3. (x + i) % i = 0
  <2>1. q + 1 \in Int /\ i * (q + 1) = x + i
    BY <1>1
  <2> HIDE DEF x
  <2>2. (i * (q + 1)) % i = 0
    BY <2>1, MultipleMod
  <2> QED BY <2>1, <2>2
<1>4. a = x + m
  BY <1>1
<1> HIDE DEF x
<1>5. CASE m = 0
  BY <1>1, <1>2, <1>4, <1>5
<1>6. CASE m # 0
  <2>1. x + i \in Int /\ a <= x + i /\ x + i < a + i
    BY <1>1, <1>2, <1>4, <1>6
  <2> QED BY <2>1, <1>3
<1> QED BY <1>5, <1>6

LEMMA Schedule ==
  ASSUME TypeOK
  PROVE  /\ Scheduled(phase) /\ phase \in Nat
         /\ \A s, t \in Nat : Scheduled(s) /\ Scheduled(t) /\ s < t => t >= s + Interval
         /\ \A x \in Nat : x >= phase =>
              \E t \in Nat : Scheduled(t) /\ x <= t /\ t < x + Interval
<1>1. phase \in Nat /\ Interval \in Nat \ {0}
  BY ProspectiveBounds DEF TypeOK
<1>2. Scheduled(phase)
  <2>1. Interval * 0 = 0 /\ phase - phase = 0
    BY <1>1
  <2>2. (Interval * 0) % Interval = 0
    BY <1>1, MultipleMod
  <2>3. (phase - phase) % Interval = 0
    BY <2>1, <2>2
  <2> QED BY <1>1, <2>3 DEF Scheduled
<1>3. ASSUME NEW s \in Nat, NEW t \in Nat, Scheduled(s), Scheduled(t), s < t
      PROVE  t >= s + Interval
  <2>1. /\ s - phase \in Int /\ t - phase \in Int /\ s - phase < t - phase
        /\ (s - phase) % Interval = 0 /\ (t - phase) % Interval = 0
    BY <1>1, <1>3 DEF Scheduled
  <2>2. t - phase >= (s - phase) + Interval
    BY <1>1, <2>1, ApartMod
  <2> QED BY <1>1, <2>2
<1>4. ASSUME NEW x \in Nat, x >= phase
      PROVE  \E t \in Nat : Scheduled(t) /\ x <= t /\ t < x + Interval
  <2>1. x - phase \in Int
    BY <1>1
  <2>2. PICK b \in Int : x - phase <= b /\ b < (x - phase) + Interval /\ b % Interval = 0
    BY <1>1, <2>1, NextMod
  <2>3. b + phase \in Nat /\ (b + phase) - phase = b /\ b + phase >= phase
    BY <1>1, <1>4, <2>2
  <2>4. Scheduled(b + phase)
    BY <2>2, <2>3 DEF Scheduled
  <2>5. x <= b + phase /\ b + phase < x + Interval
    BY <1>1, <2>2
  <2> QED BY <2>3, <2>4, <2>5
<1> QED BY <1>1, <1>2, <1>3, <1>4

-----------------------------------------------------------------------------
(* While nothing fails but slow runs.                                        *)

Slow     == faults["slow"]
Last     == started["task"]   \* the start of the last scheduled run, or -1
End(k)   == Target(k) + Grace
Elements(q) == {q[i] : i \in DOMAIN q}
PreKeys  == {k \in Keys : k.window \in PreMatch}

\* A fault is paid from the bound.
Bounded == left + Slow <= MaxFaults

\* Only the task ran, the files are whole, and what is on file was filed by a scheduled
\* run that started in its window.
Quiet ==
  /\ At("hand", "idle") /\ tail["ledger"] = "whole" /\ tail["scores"] = "whole"
  /\ ~At("task", "idle") => Last >= 0
  /\ IF Last >= 0 THEN Scheduled(Last) /\ execute["task"] ELSE Last = -1 /\ Slow = 0 /\ ledger = {}
  /\ \A r \in ledger : /\ r.by = "task" /\ r.at >= 0 /\ Scheduled(r.at)
                       /\ Target(r.key) <= r.at /\ r.at <= End(r.key)

\* A run takes no longer than it was slow, and no turn is missed between runs.
Turn == IF At("task", "idle")
        THEN \A t \in Nat : Scheduled(t) /\ t > Last /\ t >= Last + Slow => now <= t
        ELSE now <= Last + Slow

MarkedMissed(k) == [event |-> "missed", key |-> k, execute |-> TRUE] \in manifest

\* What the last run owes a window.
Served(k) == /\ Target(k) <= Last /\ Last <= End(k) => Filed(k) # {}
             /\ Last > End(k) => Filed(k) # {} \/ MarkedMissed(k)

Covered == Last >= 0 => \A k \in PreKeys :
  Served(k) \/ (pc["task"] \in {"plan", "append"} /\ k \in Elements(todo["task"]))

Late(t) == t + Interval + Slow < now

Overdue == \A k \in PreKeys : Late(End(k)) /\ Late(phase) =>
  /\ Last >= 0 /\ Last > End(k)
  /\ Filed(k) # {} \/ MarkedMissed(k)

Scored(r) == \E s \in scores : s.record = r

\* A record without a score was filed since the last run read the ledger, or its match
\* was not over then.
Awaiting == \A r \in ledger : ~Scored(r) =>
  /\ At("task", "idle") \/ (At("task", "flush") /\ r \notin batch["task"])
       => Last < Ended(r.key.match)
  /\ ~Late(Ended(r.key.match))

\* Only a pre-match window is captured, and a key that was read is on file.
PreAppend == \A p \in Runs : At(p, "append") => Current(p).window \in PreMatch
ReadKeys  == \A p \in Runs : existing[p] \subseteq RecordedKeys

SlowInv == /\ ScoreInv /\ Bounded /\ PreAppend /\ ReadKeys
           /\ OnlySlow => Quiet /\ Turn /\ Covered /\ Overdue /\ Awaiting

LEMMA PreKeyType ==
  \A k \in PreKeys : /\ Target(k) \in Int /\ End(k) \in Int /\ Ended(k.match) \in Int
                     /\ End(k) < Ended(k.match)
<1> SUFFICES ASSUME NEW k \in PreKeys
             PROVE  /\ Target(k) \in Int /\ End(k) \in Int /\ Ended(k.match) \in Int
                    /\ End(k) < Ended(k.match)
  OBVIOUS
<1>1. k \in Keys /\ Kickoff[k.match] \in Int /\ GameLength \in Nat
  BY KickoffType, ProspectiveBounds DEF PreKeys
<1>2. Offset[k.window] \in {-90, -15}
  BY DEF PreKeys, PreMatch, Offset
<1> QED BY <1>1, <1>2 DEF Target, End, Grace, Ended

LEMMA SlowType ==
  ASSUME TypeOK
  PROVE  /\ Slow \in Nat /\ now \in Nat /\ Last \in Int /\ Interval \in Nat \ {0}
         /\ phase \in Nat /\ left \in Nat /\ "task" \in Runs /\ "hand" \in Runs
         /\ \A r \in ledger : r.key \in Keys /\ Target(r.key) \in Int /\ r.at \in Int
                              /\ End(r.key) \in Int /\ Ended(r.key.match) \in Int
<1>1. /\ Slow \in Nat /\ now \in Nat /\ Last \in Int /\ phase \in Nat
      /\ left \in Nat /\ "task" \in Runs /\ "hand" \in Runs
  BY ProspectiveBounds DEF TypeOK, Slow, Last, AllFaults, Runs
<1>2. Interval \in Nat \ {0}
  BY ProspectiveBounds
<1>3. \A r \in ledger : r.key \in Keys /\ r.at \in Int
  BY DEF TypeOK, Record
<1>4. \A k \in Keys : Target(k) \in Int /\ End(k) \in Int /\ Ended(k.match) \in Int
  BY KickoffType, TargetType DEF End, Grace
<1> QED BY <1>1, <1>2, <1>3, <1>4

\* How the fault account moves.
LEMMA SlowAccount ==
  ASSUME TypeOK, [Next]_vars, Bounded
  PROVE  /\ Bounded'
         /\ OnlySlow' => /\ OnlySlow
                         /\ \A kind : Fault(kind) => kind = "slow" /\ Slow' = Slow + 1
<1>1. /\ faults \in [AllFaults -> Nat] /\ left \in Nat /\ MaxFaults \in Nat
      /\ "slow" \in AllFaults
  BY ProspectiveBounds DEF TypeOK, AllFaults
<1>2. (faults' = faults /\ left' = left) \/ \E kind \in FaultKinds : Fault(kind)
  <2>1. CASE \E p \in Runs : Collect(p) \/ Score(p)
    BY <2>1 DEF Collect, Score, PassWindow, MarkMissed, LogWindow, CheckKey, AppendRecord,
                Shutdown, ReadForScores, FlushScores, faultVars
  <2>2. CASE \E p \in Runs : Kill(p) \/ Cut(p)
    BY <2>2 DEF Kill, Cut, Fault
  <2>3. CASE StartTask \/ StartByHand \/ Minute
    BY <2>3 DEF StartTask, StartByHand, Minute, Fault, NoFault, faultVars
  <2> QED BY <2>1, <2>2, <2>3 DEF Next, vars, faultVars
<1>3. ASSUME NEW kind, Fault(kind)
      PROVE  /\ left' = left - 1
             /\ Slow' = IF kind = "slow" THEN Slow + 1 ELSE Slow
  BY <1>1, <1>3, FaultType DEF Fault, Slow
<1>4. Slow \in Nat
  BY <1>1 DEF Slow
<1>5. OnlySlow <=> left + Slow = MaxFaults
  BY DEF OnlySlow, Slow
<1>6. OnlySlow' <=> left' + Slow' = MaxFaults
  BY DEF OnlySlow, Slow
<1>7. CASE faults' = faults /\ left' = left
  <2>1. Slow' = Slow
    BY <1>7 DEF Slow
  <2>2. \A kind : ~Fault(kind)
    BY <1>1, <1>3, <1>7
  <2> QED BY <1>5, <1>6, <1>7, <2>1, <2>2 DEF Bounded
<1>8. CASE \E kind \in FaultKinds : Fault(kind)
  <2>1. PICK kind : Fault(kind)
    BY <1>8
  <2>2. left' = left - 1 /\ (Slow' = Slow \/ Slow' = Slow + 1)
    BY <2>1, <1>3
  <2>3. left + Slow <= MaxFaults
    BY DEF Bounded
  <2>t. left \in Nat /\ MaxFaults \in Nat
    BY <1>1
  <2> HIDE DEF Slow
  <2>4. left' + Slow' <= MaxFaults
    BY <2>t, <1>4, <2>2, <2>3
  <2>5. left' + Slow' = MaxFaults => left + Slow = MaxFaults /\ Slow' = Slow + 1
    BY <2>t, <1>4, <2>2, <2>3
  <2>6. Slow' = Slow + 1 => \A k : Fault(k) => k = "slow"
    BY <1>4, <1>3
  <2> QED BY <1>5, <1>6, <2>4, <2>5, <2>6 DEF Bounded
<1> QED BY <1>2, <1>7, <1>8

\* The next turn after a run is at most an interval after it could end.
LEMMA NextTurn ==
  ASSUME TypeOK, NEW last \in Int, NEW slow \in Nat, NEW time \in Nat,
         IF last >= 0 THEN Scheduled(last) ELSE last = -1 /\ slow = 0,
         \A t \in Nat : Scheduled(t) /\ t > last /\ t >= last + slow => time <= t
  PROVE  /\ last >= 0 => time <= last + slow + Interval
         /\ ~(last >= 0) => time <= phase
<1>1. CASE last >= 0
  <2> DEFINE x == IF slow = 0 THEN last + 1 ELSE last + slow
  <2>1. last \in Nat /\ last >= phase /\ phase \in Nat /\ Interval \in Nat \ {0}
    BY <1>1, SlowType DEF Scheduled
  <2>2. x \in Nat /\ x >= phase /\ x > last /\ x >= last + slow /\ x <= last + slow + 1
    BY <2>1
  <2> HIDE DEF x
  <2>3. PICK t \in Nat : Scheduled(t) /\ x <= t /\ t < x + Interval
    BY <2>1, <2>2, Schedule
  <2>4. t > last /\ t >= last + slow
    BY <2>1, <2>2, <2>3
  <2>5. time <= t
    BY <2>3, <2>4
  <2> QED BY <1>1, <2>1, <2>2, <2>3, <2>5
<1>2. CASE ~(last >= 0)
  <2>1. last = -1 /\ slow = 0 /\ phase \in Nat /\ Scheduled(phase)
    BY <1>2, Schedule
  <2>2. phase > last /\ phase >= last + slow
    BY <2>1
  <2> QED BY <1>2, <2>1, <2>2
<1> QED BY <1>1, <1>2

LEMMA ElementsTail ==
  ASSUME NEW S, NEW q \in Seq(S), q # <<>>
  PROVE  \A k \in Elements(q) : k = Head(q) \/ k \in Elements(Tail(q))
<1> SUFFICES ASSUME NEW i \in DOMAIN q, i # 1 PROVE q[i] \in Elements(Tail(q))
  BY DEF Elements
<1>1. i \in 1..Len(q) /\ Len(q) \in Nat
  OBVIOUS
<1>2. i - 1 \in 1..Len(Tail(q)) /\ Tail(q)[i - 1] = q[i]
  BY <1>1
<1>3. i - 1 \in DOMAIN Tail(q)
  BY <1>2
<1> QED BY <1>2, <1>3 DEF Elements

\* A minute, between runs or in a slow one.
LEMMA SlowMinute ==
  ASSUME SlowInv, TypeOK', Minute, OnlySlow, \A kind : Fault(kind) => Slow' = Slow + 1
  PROVE  Quiet' /\ Turn' /\ Covered' /\ Overdue' /\ Awaiting'
<1>1. /\ TypeOK /\ Quiet /\ Turn /\ Covered /\ Overdue /\ Awaiting
  BY DEF SlowInv, ScoreInv, LedgerInv
<1>2. /\ Slow \in Nat /\ now \in Nat /\ Last \in Int /\ Interval \in Nat \ {0} /\ phase \in Nat
      /\ \A r \in ledger : r.key \in Keys /\ End(r.key) \in Int /\ Ended(r.key.match) \in Int
  BY <1>1, SlowType
<1>3. /\ now' = now + 1 /\ Last' = Last
      /\ UNCHANGED <<phase, pc, started, execute, todo, existing, batch, ledger, scores, tail,
                     manifest>>
  BY DEF Minute, runVars, fileVars, Last
<1>4. /\ \A k : (Target(k) = Target(k)') /\ End(k)' = End(k) /\ (Served(k)' <=> Served(k))
      /\ \A m : Ended(m)' = Ended(m)
      /\ \A t : Scheduled(t)' <=> Scheduled(t)
  BY <1>3 DEF Target, End, Ended, Scheduled, Served, Filed, MarkedMissed
<1>5. Covered'
  BY <1>1, <1>3, <1>4 DEF Covered
<1>6. CASE At("task", "idle")
  <2>1. Slow' = Slow
    <3>1. \A q \in Runs : At(q, "idle")
      BY <1>1, <1>6 DEF Quiet, Runs
    <3>2. faults' = faults
      BY <3>1 DEF Minute, NoFault, faultVars
    <3> QED BY <3>2 DEF Slow
  <2>2. Quiet'
    BY <1>1, <1>3, <1>4, <2>1 DEF Quiet, At
  <2>3. Turn'
    <3> SUFFICES ASSUME NEW t \in Nat, Scheduled(t), t > Last, t >= Last + Slow
                 PROVE  now + 1 <= t
      BY <1>3, <1>4, <1>6, <2>1 DEF Turn, At
    <3>1. now <= t
      BY <1>1, <1>6 DEF Turn
    <3>2. now # t
      BY <1>2, <1>6 DEF Minute, Last
    <3> QED BY <1>2, <3>1, <3>2
  <2>4. /\ Last >= 0 => now' <= Last + Slow + Interval
        /\ ~(Last >= 0) => now' <= phase
    <3>1. \A t \in Nat : Scheduled(t) /\ t > Last /\ t >= Last + Slow => now' <= t
      BY <1>3, <1>4, <1>6, <2>1, <2>3 DEF Turn, At
    <3>2. IF Last >= 0 THEN Scheduled(Last) ELSE Last = -1 /\ Slow = 0
      BY <1>1 DEF Quiet
    <3>3. now' \in Nat
      BY <1>2, <1>3
    <3> QED BY <1>1, <1>2, <3>1, <3>2, <3>3, NextTurn
  <2>5. Overdue'
    <3> SUFFICES ASSUME NEW k \in PreKeys, End(k) + Interval + Slow < now',
                        phase + Interval + Slow < now'
                 PROVE  Last >= 0 /\ Last > End(k) /\ (Filed(k) # {} \/ MarkedMissed(k))
      BY <1>3, <1>4, <2>1 DEF Overdue, Late, Filed, MarkedMissed, PreKeys
    <3>1. End(k) \in Int /\ now' \in Nat
      BY <1>2, <1>3, PreKeyType
    <3>2. Last >= 0 /\ Last > End(k)
      BY <1>2, <2>4, <3>1
    <3>3. Served(k)
      BY <1>1, <1>6, <3>2 DEF Covered, At
    <3> QED BY <3>2, <3>3 DEF Served
  <2>6. Awaiting'
    <3> SUFFICES ASSUME NEW r \in ledger, ~Scored(r)
                 PROVE  /\ Last < Ended(r.key.match)
                        /\ ~(Ended(r.key.match) + Interval + Slow < now')
      BY <1>3, <1>4, <2>1 DEF Awaiting, Late, Scored, Filed, MarkedMissed, At
    <3>1. Last < Ended(r.key.match)
      BY <1>1, <1>6 DEF Awaiting
    <3>2. Last >= 0
      BY <1>1 DEF Quiet
    <3> QED BY <1>2, <1>3, <2>4, <3>1, <3>2
  <2> QED BY <1>5, <2>2, <2>3, <2>5, <2>6
<1>7. CASE ~At("task", "idle")
  <2>1. Slow' = Slow + 1
    <3>1. Fault("slow")
      BY <1>7 DEF Minute, Runs
    <3> QED BY <3>1
  <2>2. Last >= 0
    BY <1>1, <1>7 DEF Quiet
  <2>3. Quiet'
    BY <1>1, <1>3, <1>4, <2>2 DEF Quiet, At
  <2>4. Turn'
    BY <1>1, <1>2, <1>3, <1>7, <2>1 DEF Turn, At
  <2>5. \A t \in Int : Late(t)' => Late(t)
    BY <1>2, <1>3, <2>1 DEF Late
  <2>6. Overdue'
    <3> SUFFICES ASSUME NEW k \in PreKeys, Late(End(k))', Late(phase)'
                 PROVE  Last >= 0 /\ Last > End(k) /\ (Filed(k) # {} \/ MarkedMissed(k))
      BY <1>3, <1>4 DEF Overdue, Filed, MarkedMissed, PreKeys
    <3>1. Late(End(k)) /\ Late(phase)
      <4>1. End(k)' = End(k) /\ End(k) \in Int /\ phase' = phase /\ phase \in Int
        BY <1>2, <1>3, <1>4, PreKeyType
      <4> QED BY <1>2, <1>3, <2>1, <4>1 DEF Late
    <3> QED BY <1>1, <3>1 DEF Overdue
  <2>7. Awaiting'
    <3> SUFFICES ASSUME NEW r \in ledger, ~Scored(r)
                 PROVE  /\ At("task", "idle") \/ (At("task", "flush") /\ r \notin batch["task"])
                             => Last < Ended(r.key.match)
                        /\ ~(Ended(r.key.match) + Interval + Slow' < now')
      BY <1>3, <1>4 DEF Awaiting, Late, Scored, At
    <3>1. ~(Ended(r.key.match) + Interval + Slow < now)
      BY <1>1 DEF Awaiting, Late
    <3>2. ~(Ended(r.key.match) + Interval + Slow' < now')
      BY <1>2, <1>3, <2>1, <3>1
    <3> QED BY <1>1, <3>2 DEF Awaiting
  <2> QED BY <1>5, <2>3, <2>4, <2>6, <2>7
<1> QED BY <1>6, <1>7

LEMMA SlowStart ==
  ASSUME SlowInv, StartTask, OnlySlow
  PROVE  Quiet' /\ Turn' /\ Covered' /\ Overdue' /\ Awaiting'
<1>1. /\ TypeOK /\ Quiet /\ Overdue /\ Awaiting /\ OnTime
  BY DEF SlowInv, ScoreInv, LedgerInv
<1>2. Slow \in Nat /\ now \in Nat /\ Last \in Int /\ \A k \in PreKeys : End(k) \in Int
  BY <1>1, SlowType, PreKeyType
<1>3. /\ UNCHANGED <<now, phase, faults, batch, ledger, scores, tail, manifest>>
      /\ started' = [started EXCEPT !["task"] = now]
      /\ execute' = [execute EXCEPT !["task"] = TRUE]
      /\ pc' = [pc EXCEPT !["task"] = "plan"]
      /\ todo' = [todo EXCEPT !["task"] = Plan] /\ Scheduled(now)
  BY <1>1 DEF StartTask, Begin, NoFault, faultVars, fileVars, Goto, Quiet
<1>4. /\ Last' = now /\ execute'["task"] /\ pc'["task"] = "plan" /\ todo'["task"] = Plan
      /\ pc'["hand"] = pc["hand"] /\ Slow' = Slow
  BY <1>1, <1>3 DEF TypeOK, Last, Slow, Runs
<1>5. /\ \A k : Target(k)' = Target(k) /\ End(k)' = End(k)
      /\ \A m : Ended(m)' = Ended(m)
      /\ \A t : Scheduled(t)' <=> Scheduled(t)
      /\ \A t : Late(t)' <=> Late(t)
  BY <1>3, <1>4 DEF Target, End, Ended, Scheduled, Late
<1>6. Quiet'
  BY <1>1, <1>2, <1>3, <1>4, <1>5 DEF Quiet, At
<1>7. Turn'
  BY <1>2, <1>3, <1>4 DEF Turn, At
<1>8. Covered'
  <2>1. \A k \in Keys : k \in Elements(Plan)
    BY DEF Keys, Elements
  <2> QED BY <1>4, <2>1 DEF Covered, PreKeys
<1>9. Overdue'
  <2> SUFFICES ASSUME NEW k \in PreKeys, Late(End(k)), Late(phase)
               PROVE  now >= 0 /\ now > End(k) /\ (Filed(k) # {} \/ MarkedMissed(k))
    BY <1>3, <1>4, <1>5 DEF Overdue, Filed, MarkedMissed, PreKeys, Late
  <2>1. Last > End(k) /\ (Filed(k) # {} \/ MarkedMissed(k))
    BY <1>1 DEF Overdue
  <2>2. Last <= now
    BY <1>1, SlowType DEF OnTime, Last
  <2> QED BY <1>2, <2>1, <2>2
<1>10. Awaiting'
  BY <1>1, <1>3, <1>4, <1>5 DEF Awaiting, Scored, At, Late
<1> QED BY <1>6, <1>7, <1>8, <1>9, <1>10

\* What a step of the plan does while the ledger is whole.
LEMMA CollectEffect ==
  ASSUME TypeOK, Collect("task"), tail["ledger"] = "whole", execute["task"],
         ReadKeys, PreAppend
  PROVE  /\ UNCHANGED <<now, phase, started, execute, batch, scores, faults, tail>>
         /\ manifest \subseteq manifest' /\ pc'["hand"] = pc["hand"]
         /\ \/ /\ pc["task"] = "plan" /\ pc'["task"] = "plan" /\ todo["task"] # <<>>
               /\ todo'["task"] = Tail(todo["task"]) /\ ledger' = ledger
               /\ \/ Current("task") \in RecordedKeys
                  \/ Status(Current("task"), Last) = "pending"
                  \/ /\ Status(Current("task"), Last) = "missed"
                     /\ [event |-> "missed", key |-> Current("task"), execute |-> TRUE]
                          \in manifest'
                  \/ Current("task").window \notin PreMatch
            \/ /\ pc["task"] = "plan" /\ pc'["task"] = "append" /\ todo["task"] # <<>>
               /\ todo' = todo /\ ledger' = ledger /\ Current("task").window \in PreMatch
            \/ /\ pc["task"] = "append" /\ pc'["task"] = "plan" /\ todo["task"] # <<>>
               /\ todo'["task"] = Tail(todo["task"])
               /\ ledger' = ledger \cup {NewRecord("task")}
            \/ /\ pc["task"] = "plan" /\ pc'["task"] = "score" /\ todo["task"] = <<>>
               /\ todo' = todo /\ ledger' = ledger
<1>1. /\ "task" \in Runs /\ "hand" \in Runs /\ "task" # "hand"
      /\ pc \in [Runs -> {"idle", "plan", "append", "score", "flush"}]
      /\ todo \in [Runs -> Seq(Keys)] /\ existing["task"] \subseteq RecordedKeys
  BY DEF TypeOK, Runs, ReadKeys
<1>2. CASE PassWindow("task")
  BY <1>1, <1>2
     DEF PassWindow, InStatus, Looking, Advance, fileVars, faultVars, At, Last
<1>3. CASE MarkMissed("task")
  <2>1. execute["task"] = TRUE
    BY <1>1 DEF TypeOK
  <2>2. manifest' = manifest \cup {[event |-> "missed", key |-> Current("task"),
                                   execute |-> TRUE]}
    BY <1>3, <2>1 DEF MarkMissed, Log, Event
  <2> QED BY <1>1, <1>3, <2>2
      DEF MarkMissed, InStatus, Looking, Advance, faultVars, At, Last
<1>4. CASE LogWindow("task")
  BY <1>1, <1>4 DEF LogWindow, InStatus, Looking, Advance, faultVars, At, Last, Log
<1>5. CASE CheckKey("task")
  BY <1>1, <1>5
     DEF CheckKey, Capturing, InStatus, Looking, Advance, faultVars, At, Last, Log, Goto
<1>6. CASE AppendRecord("task")
  <2>1. tail' = tail
    BY <1>6 DEF AppendRecord, AfterAppend, TypeOK
  <2>2. todo["task"] # <<>>
    BY <1>1, <1>6 DEF AppendRecord, TypeOK
  <2> QED BY <1>1, <1>6, <2>1, <2>2 DEF AppendRecord, Advance, faultVars, At, Log, Goto
<1>7. CASE Shutdown("task")
  BY <1>1, <1>7 DEF Shutdown, fileVars, faultVars, At, Goto
<1> QED BY <1>2, <1>3, <1>4, <1>5, <1>6, <1>7 DEF Collect

LEMMA SlowCollect ==
  ASSUME SlowInv, TypeOK', Collect("task"), OnlySlow
  PROVE  Quiet' /\ Turn' /\ Covered' /\ Overdue' /\ Awaiting'
<1> DEFINE c == Current("task")
<1>1. /\ TypeOK /\ Quiet /\ Turn /\ Covered /\ Overdue /\ Awaiting /\ OnTime /\ Appending
      /\ ReadKeys /\ PreAppend
  BY DEF SlowInv, ScoreInv, LedgerInv
<1>2. /\ Slow \in Nat /\ now \in Nat /\ Last \in Int /\ Interval \in Nat \ {0} /\ phase \in Nat
      /\ "task" \in Runs /\ "hand" \in Runs /\ \A k \in PreKeys : End(k) \in Int
  BY <1>1, SlowType, PreKeyType
<1>3. pc["task"] \in {"plan", "append"} /\ Last >= 0 /\ execute["task"]
  <2>1. pc["task"] \in {"plan", "append"}
    BY DEF Collect, PassWindow, MarkMissed, LogWindow, CheckKey, Capturing, InStatus, Looking,
           AppendRecord, Shutdown, At
  <2> QED BY <1>1, <2>1 DEF Quiet, At
<1>4. /\ UNCHANGED <<now, phase, started, execute, batch, scores, faults, tail>>
      /\ manifest \subseteq manifest' /\ pc'["hand"] = pc["hand"]
      /\ pc'["task"] \in {"plan", "append", "score"}
      /\ ledger' = ledger \/ (At("task", "append") /\ ledger' = ledger \cup {NewRecord("task")})
  <2>1. tail["ledger"] = "whole"
    BY <1>1 DEF Quiet
  <2> QED BY <1>1, <1>3, <2>1, CollectEffect DEF At
<1>5. Last' = Last /\ Slow' = Slow /\ ledger \subseteq ledger'
  BY <1>4 DEF Last, Slow
<1>6. /\ \A k : Target(k)' = Target(k) /\ End(k)' = End(k)
      /\ \A m : Ended(m)' = Ended(m)
      /\ \A t : Scheduled(t)' <=> Scheduled(t)
      /\ \A t : Late(t)' <=> Late(t)
      /\ \A k : Filed(k) \subseteq Filed(k)' /\ (MarkedMissed(k) => MarkedMissed(k)')
      /\ \A r : Scored(r)' <=> Scored(r)
  BY <1>4, <1>5 DEF Target, End, Ended, Scheduled, Late, Filed, MarkedMissed, Scored
<1>7. At("task", "append") =>
        /\ c \in PreKeys /\ Target(c) \in Int /\ Target(c) <= Last /\ Last <= End(c)
        /\ NewRecord("task").key = c /\ NewRecord("task").at = Last
        /\ NewRecord("task").by = "task"
  <2> SUFFICES ASSUME At("task", "append")
               PROVE  /\ c \in PreKeys /\ Target(c) \in Int /\ Target(c) <= Last
                      /\ Last <= End(c) /\ NewRecord("task").key = c
                      /\ NewRecord("task").at = Last /\ NewRecord("task").by = "task"
    OBVIOUS
  <2>1. c \in Keys /\ c.window \in PreMatch /\ Status(c, Last) = "due"
    BY <1>1, <1>2, CurrentType DEF Appending, TypeOK, PreAppend, Last
  <2>2. c \in PreKeys /\ Target(c) \in Int
    BY <2>1, PreKeyType DEF PreKeys
  <2>3. Target(c) <= Last /\ Last <= End(c)
    BY <1>2, <2>1, <2>2 DEF Status, End
  <2> QED BY <2>2, <2>3 DEF NewRecord, Last
<1>8. Quiet'
  <2>1. \A r \in ledger' : /\ r.by = "task" /\ r.at >= 0 /\ Scheduled(r.at)
                           /\ Target(r.key) <= r.at /\ r.at <= End(r.key)
    BY <1>1, <1>3, <1>4, <1>7 DEF Quiet
  <2> QED BY <1>1, <1>3, <1>4, <1>5, <1>6, <2>1 DEF Quiet, At
<1>9. Turn'
  BY <1>1, <1>3, <1>4, <1>5 DEF Turn, At
<1>10. Covered'
  <2> SUFFICES ASSUME NEW k \in PreKeys
               PROVE  Served(k)' \/ (pc'["task"] \in {"plan", "append"}
                                     /\ k \in Elements(todo'["task"]))
    BY DEF Covered, PreKeys
  <2>1. Served(k) => Served(k)'
    BY <1>5, <1>6 DEF Served
  <2>2. Served(k) \/ k \in Elements(todo["task"])
    BY <1>1, <1>3 DEF Covered
  <2>3. todo["task"] \in Seq(Keys)
    BY <1>1, <1>2 DEF TypeOK
  <2>4. CASE todo' = todo /\ pc'["task"] = "append"
    BY <2>1, <2>2, <2>4
  <2>5. CASE todo["task"] = <<>>
    BY <2>1, <2>2, <2>5 DEF Elements
  <2>6. CASE /\ todo["task"] # <<>> /\ todo'["task"] = Tail(todo["task"])
             /\ pc'["task"] = "plan"
    <3>1. k = c \/ Served(k) \/ k \in Elements(todo'["task"])
      BY <2>2, <2>3, <2>6, ElementsTail DEF Current
    <3>2. ASSUME k = c PROVE Served(k)'
      <4>0. /\ Target(k) \in Int /\ End(k) = Target(k) + Grace /\ Grace \in Nat
            /\ k.window \in PreMatch
        BY PreKeyType DEF End, Grace, PreKeys
      <4>1. k \in RecordedKeys => Filed(k) # {}
        BY DEF RecordedKeys, Filed
      <4>2. /\ Status(k, Last) = "pending" => Last < Target(k)
            /\ Status(k, Last) = "missed" => Last > End(k)
        BY <1>2, <4>0 DEF Status
      <4>3. \/ k \in RecordedKeys
            \/ Status(k, Last) = "pending"
            \/ Status(k, Last) = "missed" /\ MarkedMissed(k)'
            \/ NewRecord("task") \in ledger' /\ At("task", "append")
        <5>1. tail["ledger"] = "whole"
          BY <1>1 DEF Quiet
        <5> QED BY <1>1, <1>3, <2>6, <3>2, <4>0, <5>1, CollectEffect DEF At, MarkedMissed
      <4>4. At("task", "append") /\ NewRecord("task") \in ledger' => Filed(k)' # {}
        BY <1>7, <3>2 DEF Filed
      <4>5. Filed(k) # {} => Filed(k)' # {}
        BY <1>6
      <4>6. Filed(k)' # {} \/ Last < Target(k) \/ (Last > End(k) /\ MarkedMissed(k)')
        BY <4>1, <4>2, <4>3, <4>4, <4>5
      <4>7. Last' = Last /\ Target(k)' = Target(k) /\ End(k)' = End(k)
        BY <1>5, <1>6
      <4> QED BY <1>2, <4>0, <4>6, <4>7 DEF Served
    <3> QED BY <2>1, <2>6, <3>1, <3>2
  <2> QED
    <3>1. tail["ledger"] = "whole"
      BY <1>1 DEF Quiet
    <3> QED BY <1>1, <1>3, <2>4, <2>5, <2>6, <3>1, CollectEffect
<1>11. Overdue'
  BY <1>1, <1>4, <1>5, <1>6 DEF Overdue, PreKeys, Late
<1>12. Awaiting'
  <2> SUFFICES ASSUME NEW r \in ledger', ~Scored(r) PROVE ~Late(Ended(r.key.match))
    BY <1>4, <1>6 DEF Awaiting, At, Late
  <2>1. CASE r \in ledger
    BY <1>1, <2>1 DEF Awaiting
  <2>2. CASE r \notin ledger
    <3>1. At("task", "append") /\ r.key = c /\ c \in PreKeys /\ Last <= End(c)
      BY <1>4, <1>7, <2>2
    <3>2. End(c) \in Int /\ Ended(c.match) \in Int /\ End(c) < Ended(c.match)
      BY <3>1, PreKeyType
    <3>3. now <= Last + Slow
      BY <1>1, <1>3 DEF Turn, At
    <3>4. ~(Ended(c.match) + Interval + Slow < now)
      BY <1>2, <3>1, <3>2, <3>3
    <3> QED BY <3>1, <3>4 DEF Late
  <2> QED BY <2>1, <2>2
<1> QED BY <1>8, <1>9, <1>10, <1>11, <1>12

LEMMA SlowScore ==
  ASSUME SlowInv, TypeOK', Score("task"), OnlySlow
  PROVE  Quiet' /\ Turn' /\ Covered' /\ Overdue' /\ Awaiting'
<1>1. /\ TypeOK /\ Quiet /\ Turn /\ Covered /\ Overdue /\ Awaiting /\ OnTime
      /\ ScoresBacked /\ FirstWriteWins
  BY DEF SlowInv, ScoreInv, LedgerInv
<1>2. /\ Slow \in Nat /\ now \in Nat /\ Last \in Int /\ "task" \in Runs /\ "hand" \in Runs
  BY <1>1, SlowType
<1>3. /\ UNCHANGED <<now, phase, started, execute, ledger, faults, manifest>>
      /\ \/ /\ At("task", "score") /\ pc'["task"] = "flush" /\ scores' = scores
            /\ tail' = tail /\ batch'["task"] = Unscored
         \/ /\ At("task", "flush") /\ pc'["task"] = "idle"
            /\ scores' = scores \cup ScoreLines("task", batch["task"])
            /\ tail'["ledger"] = "whole" /\ tail'["scores"] = "whole"
      /\ pc'["hand"] = pc["hand"]
  <2>1. CASE ReadForScores("task")
    <3>1. /\ batch' = [batch EXCEPT !["task"] = Unscored] /\ Goto("task", "flush")
          /\ At("task", "score") /\ UNCHANGED <<fileVars, faultVars, now, phase, started, execute>>
      BY <1>1, <2>1 DEF ReadForScores, Quiet
    <3> QED BY <1>1, <1>2, <3>1 DEF Goto, TypeOK, fileVars, faultVars
  <2>2. CASE FlushScores("task")
    <3>1. tail'["ledger"] = "whole" /\ tail'["scores"] = "whole"
      BY <1>1, <2>2 DEF FlushScores, AfterAppend, Quiet, TypeOK
    <3> QED BY <1>1, <1>2, <2>2, <3>1 DEF FlushScores, Ends, TypeOK, faultVars
  <2> QED BY <2>1, <2>2 DEF Score
<1>4. Last' = Last /\ Slow' = Slow /\ Last >= 0 /\ pc["task"] \in {"score", "flush"}
  BY <1>1, <1>3 DEF Last, Slow, Quiet, At
<1>5. /\ \A k : Target(k)' = Target(k) /\ End(k)' = End(k) /\ Filed(k)' = Filed(k)
      /\ \A k : MarkedMissed(k)' <=> MarkedMissed(k)
      /\ \A m : Ended(m)' = Ended(m)
      /\ \A t : Scheduled(t)' <=> Scheduled(t)
      /\ \A t : Late(t)' <=> Late(t)
      /\ \A r : Scored(r) => Scored(r)'
  BY <1>3, <1>4 DEF Target, End, Ended, Scheduled, Late, Filed, MarkedMissed, Scored
<1>6. Quiet'
  BY <1>1, <1>3, <1>4, <1>5 DEF Quiet, At
<1>7. Turn'
  <2>1. now <= Last + Slow
    BY <1>1, <1>4 DEF Turn, At
  <2> QED BY <1>2, <1>3, <1>4, <2>1 DEF Turn, At
<1>8. Covered'
  BY <1>1, <1>4, <1>5 DEF Covered, Served, PreKeys
<1>9. Overdue'
  BY <1>1, <1>3, <1>4, <1>5 DEF Overdue, PreKeys, Late
<1>10. Awaiting'
  <2> SUFFICES ASSUME NEW r \in ledger, ~Scored(r)'
               PROVE  /\ At("task", "idle")' \/ (At("task", "flush")' /\ r \notin batch'["task"])
                           => Last < Ended(r.key.match)
                      /\ ~Late(Ended(r.key.match))
    BY <1>3, <1>4, <1>5 DEF Awaiting, Late
  <2>1. ~Scored(r) /\ ~Late(Ended(r.key.match))
    BY <1>1, <1>5 DEF Awaiting
  <2>2. CASE At("task", "score") /\ batch'["task"] = Unscored /\ pc'["task"] = "flush"
    <3> SUFFICES ASSUME r \notin Unscored PROVE Last < Ended(r.key.match)
      BY <2>1, <2>2 DEF At
    <3>1. r.key \notin ScoredKeys
      <4> SUFFICES ASSUME NEW s \in scores, s.record.key = r.key PROVE FALSE
        BY DEF ScoredKeys
      <4>1. s.record \in ledger /\ s.record.by = r.by
        BY <1>1 DEF ScoresBacked, Quiet
      <4>2. s.record = r
        BY <1>1, <4>1 DEF FirstWriteWins
      <4> QED BY <2>1, <4>2 DEF Scored
    <3>2. ~(now >= Ended(r.key.match))
      BY <3>1 DEF Unscored, Finished, Ended
    <3>3. Last <= now /\ Ended(r.key.match) \in Int
      BY <1>1, <1>2, SlowType DEF OnTime, Last
    <3> QED BY <1>2, <3>2, <3>3
  <2>3. CASE At("task", "flush") /\ pc'["task"] = "idle"
             /\ scores' = scores \cup ScoreLines("task", batch["task"])
    <3>1. r \notin batch["task"]
      <4> SUFFICES ASSUME r \in batch["task"] PROVE Scored(r)'
        OBVIOUS
      <4>1. [record |-> r, by |-> "task", at |-> now] \in scores'
        BY <2>3 DEF ScoreLines
      <4> QED BY <4>1 DEF Scored
    <3> QED BY <1>1, <2>1, <2>3, <3>1 DEF Awaiting
  <2> QED BY <1>3, <2>2, <2>3
<1> QED BY <1>6, <1>7, <1>8, <1>9, <1>10

\* Which steps leave the guards on the plan alone: a capture is decided by one step only,
\* and what a run has read stays on file.
LEMMA PlanKeeps ==
  ASSUME TypeOK, TypeOK', PreAppend, ReadKeys, [Next]_vars
  PROVE  PreAppend' /\ ReadKeys'
<1>1. ASSUME NEW p \in Runs, Step(p) PROVE PreAppend' /\ ReadKeys'
  <2>1. RecordedKeys \subseteq RecordedKeys'
    BY <1>1, StepWrites DEF RecordedKeys
  <2>2. \A q \in Runs : existing'[q] \in {existing[q], {}}
    <3>1. existing' = existing \/ existing' = [existing EXCEPT ![p] = {}]
      BY <1>1 DEF Step, Collect, Score, PassWindow, MarkMissed, LogWindow, CheckKey,
                  AppendRecord, Shutdown, ReadForScores, FlushScores, Kill, Cut, Ends
    <3> QED BY <3>1 DEF TypeOK
  <2>3. ReadKeys'
    BY <2>1, <2>2 DEF ReadKeys
  <2>4. ASSUME NEW q \in Runs, pc'[q] = "append" PROVE Head(todo'[q]).window \in PreMatch
    <3>1. CASE q = p
      <4>1. CheckKey(p)
        BY <1>1, <2>4, <3>1, StepFrame
      <4>2. Current(p).window \in PreMatch /\ todo' = todo
        BY <2>4, <3>1, <4>1
           DEF CheckKey, Capturing, InStatus, Looking, At, Goto, TypeOK
      <4> QED BY <3>1, <4>2 DEF Current
    <3>2. CASE q # p
      BY <1>1, <2>4, <3>2, StepFrame DEF PreAppend, At, Current
    <3> QED BY <3>1, <3>2
  <2> QED BY <2>3, <2>4 DEF PreAppend, At, Current
<1>2. ASSUME NEW p \in Runs, NEW exec \in BOOLEAN, Begin(p, exec) PROVE PreAppend' /\ ReadKeys'
  <2>1. /\ ledger' = ledger /\ pc'[p] # "append"
        /\ \A q \in Runs : q # p => pc'[q] = pc[q] /\ todo'[q] = todo[q]
        /\ \A q \in Runs : existing'[q] \in {existing[q], RecordedKeys, {}}
    BY <1>2 DEF Begin, Goto, TypeOK, fileVars
  <2>2. ReadKeys'
    BY <2>1 DEF ReadKeys, RecordedKeys
  <2> QED BY <2>1, <2>2 DEF PreAppend, At, Current
<1>3. CASE Minute \/ UNCHANGED vars
  BY <1>3 DEF Minute, vars, runVars, fileVars, PreAppend, ReadKeys, RecordedKeys, At, Current
<1>4. CASE StartTask \/ StartByHand
  BY <1>2, <1>4 DEF StartTask, StartByHand, Runs
<1> QED BY <1>1, <1>3, <1>4 DEF Next, Step

\* While nothing fails but slow runs, the steps are those of the task and of time.
LEMMA SlowSteps ==
  ASSUME TypeOK, Quiet, [Next]_vars, \A kind : Fault(kind) => kind = "slow"
  PROVE  StartTask \/ Minute \/ Collect("task") \/ Score("task") \/ UNCHANGED vars
<1>1. ~StartByHand /\ \A p \in Runs : ~Kill(p) /\ ~Cut(p)
  BY DEF StartByHand, Kill, Cut
<1>2. \A p \in Runs : Collect(p) \/ Score(p) => p = "task"
  <2> SUFFICES ASSUME Collect("hand") \/ Score("hand") PROVE FALSE
    BY DEF Runs
  <2> QED BY DEF Quiet, Collect, Score, PassWindow, MarkMissed, LogWindow, CheckKey, Capturing,
                 InStatus, Looking, AppendRecord, Shutdown, ReadForScores, FlushScores, At
<1> QED BY <1>1, <1>2 DEF Next

LEMMA SlowStep ==
  ASSUME SlowInv, [Next]_vars
  PROVE  SlowInv'
<1>1. TypeOK /\ ScoreInv' /\ TypeOK' /\ Bounded' /\ PreAppend' /\ ReadKeys'
  <2>1. TypeOK /\ ScoreInv' /\ TypeOK'
    BY ScoreInvStep DEF SlowInv, ScoreInv, LedgerInv
  <2> QED BY <2>1, SlowAccount, PlanKeeps DEF SlowInv
<1>2. SUFFICES ASSUME OnlySlow' PROVE Quiet' /\ Turn' /\ Covered' /\ Overdue' /\ Awaiting'
  BY <1>1 DEF SlowInv
<1>3. OnlySlow /\ \A kind : Fault(kind) => kind = "slow" /\ Slow' = Slow + 1
  BY <1>1, <1>2, SlowAccount DEF SlowInv
<1>4. Quiet /\ Turn /\ Covered /\ Overdue /\ Awaiting
  BY <1>3 DEF SlowInv
<1>5. CASE UNCHANGED vars
  <2>1. UNCHANGED <<now, phase, pc, started, execute, todo, batch, ledger, scores, tail,
                    manifest, faults>>
    BY <1>5 DEF vars, runVars, fileVars, faultVars
  <2>2. /\ Last' = Last /\ Slow' = Slow
        /\ \A k : Target(k)' = Target(k) /\ End(k)' = End(k) /\ Filed(k)' = Filed(k)
        /\ \A k : MarkedMissed(k)' <=> MarkedMissed(k)
        /\ \A m : Ended(m)' = Ended(m)
        /\ \A t : Scheduled(t)' <=> Scheduled(t)
        /\ \A r : Scored(r)' <=> Scored(r)
    BY <2>1 DEF Last, Slow, Target, End, Ended, Scheduled, Filed, MarkedMissed, Scored
  <2>3. Quiet' /\ Turn' /\ Covered'
    BY <1>4, <2>1, <2>2 DEF Quiet, Turn, Covered, Served, PreKeys, At
  <2>4. Overdue' /\ Awaiting'
    BY <1>4, <2>1, <2>2 DEF Overdue, Awaiting, Late, PreKeys, At
  <2> QED BY <2>3, <2>4
<1> QED BY <1>1, <1>3, <1>4, <1>5, SlowSteps, SlowStart, SlowMinute, SlowCollect, SlowScore

LEMMA SlowInit == Init => SlowInv
<1> SUFFICES ASSUME Init PROVE SlowInv
  OBVIOUS
<1>1. ScoreInv /\ TypeOK
  BY ScoreInvInit DEF ScoreInv, LedgerInv
<1>2. /\ now = 0 /\ ledger = {} /\ Last = -1 /\ Slow = 0 /\ left = MaxFaults
      /\ pc = [p \in Runs |-> "idle"] /\ tail = [f \in {"ledger", "scores"} |-> "whole"]
      /\ existing = [p \in Runs |-> {}]
  BY DEF Init, Last, Slow, Runs, AllFaults
<1>3. Bounded /\ PreAppend /\ ReadKeys
  BY <1>2, ProspectiveBounds DEF Bounded, PreAppend, ReadKeys, At
<1>4. Quiet /\ Turn /\ Covered
  BY <1>2 DEF Quiet, Turn, Covered, At, Runs
<1>5. Overdue
  <2>1. ~Late(phase)
    BY <1>1, <1>2, SlowType DEF Late
  <2> QED BY <2>1 DEF Overdue
<1>6. Awaiting
  BY <1>2 DEF Awaiting
<1> QED BY <1>1, <1>3, <1>4, <1>5, <1>6 DEF SlowInv

\* What prospective_score.py:2-3 says of its file: only finished matches are scored, and a
\* record once unless runs were started by hand; while nothing fails but slow runs, each
\* record has its score within one turn of the schedule after its match.
THEOREM RecordsScoredOnce == Spec => []ScoredOnce
<1>1. SlowInv => ScoredOnce
  <2> SUFFICES ASSUME SlowInv PROVE ScoredOnce
    OBVIOUS
  <2>1. \A s \in scores : s.at >= Kickoff[s.record.key.match] + GameLength
    BY DEF SlowInv, ScoreInv, ScoresBacked, Ended
  <2>2. faults["manual"] + faults["dry"] = 0 =>
          \A s, t \in scores : s.record.key = t.record.key => s = t
    BY DEF SlowInv, ScoreInv, ScoredAtMostOnce, NoHand
  <2>3. OnlySlow => \A r \in ledger :
          Kickoff[r.key.match] + GameLength + Interval + faults["slow"] < now
            => \E s \in scores : s.record = r
    BY DEF SlowInv, Awaiting, Scored, Late, Ended, Slow
  <2> QED BY <2>1, <2>2, <2>3 DEF ScoredOnce
<1> QED BY <1>1, SlowInit, SlowStep, PTL DEF Spec

-----------------------------------------------------------------------------
(* The schedule decides which windows are captured, as long as the delays of *)
(* a history stay in the interval: a longer run takes the next turn too.     *)

\* A turn that fell into a window without a record is still to come, or is now.
Missing == \A k \in PreKeys : Filed(k) = {} =>
  \A t \in Target(k)..End(k) : t >= 0 /\ Scheduled(t) => t >= Last

HitInv == SlowInv /\ (OnlySlow => Missing)

LEMMA HitStep ==
  ASSUME MaxFaults <= Interval, HitInv, [Next]_vars
  PROVE  HitInv'
<1>1. SlowInv' /\ TypeOK
  BY SlowStep DEF HitInv, SlowInv, ScoreInv, LedgerInv
<1>2. SUFFICES ASSUME OnlySlow' PROVE Missing'
  BY <1>1 DEF HitInv
<1>3. OnlySlow /\ \A kind : Fault(kind) => kind = "slow"
  BY <1>1, <1>2, SlowAccount DEF HitInv, SlowInv
<1>4. Quiet /\ Turn /\ Covered /\ Missing
  BY <1>3 DEF HitInv, SlowInv
<1>5. /\ Slow \in Nat /\ now \in Nat /\ Last \in Int /\ phase \in Nat /\ Interval \in Nat \ {0}
      /\ left \in Nat /\ MaxFaults \in Nat
  BY <1>1, SlowType, ProspectiveBounds
<1>6. Slow <= Interval
  <2>1. left + Slow = MaxFaults
    BY <1>3 DEF OnlySlow, Slow
  <2> HIDE DEF Slow
  <2> QED BY <1>5, <2>1
<1>7. CASE StartTask
  <2>1. /\ UNCHANGED <<phase, ledger, now>> /\ Last' = now /\ At("task", "idle")
    BY <1>1, <1>7 DEF StartTask, Begin, fileVars, Last, TypeOK, Runs
  <2> SUFFICES ASSUME NEW k \in PreKeys, Filed(k) = {}, NEW t \in Target(k)..End(k),
                      t >= 0, Scheduled(t)
               PROVE  t >= now
    BY <2>1 DEF Missing, PreKeys, Filed, Target, End, Scheduled
  <2>2. t \in Nat /\ t >= Last /\ Target(k) <= t /\ t <= End(k)
    BY <1>4, PreKeyType DEF Missing
  <2>3. t # Last
    <3> SUFFICES ASSUME t = Last PROVE FALSE
      OBVIOUS
    <3>1. Served(k)
      BY <1>4, <2>1, <2>2 DEF Covered, At
    <3> QED BY <2>2, <3>1 DEF Served
  <2>4. t > Last /\ t >= Last + Slow
    <3>1. CASE Last >= 0
      <4>1. Last \in Nat /\ Scheduled(Last) /\ Last < t
        BY <1>4, <1>5, <2>2, <2>3, <3>1 DEF Quiet
      <4>2. t >= Last + Interval
        BY <1>1, <2>2, <4>1, Schedule
      <4> QED BY <1>5, <1>6, <2>2, <4>1, <4>2
    <3>2. CASE ~(Last >= 0)
      BY <1>4, <1>5, <2>2, <3>2 DEF Quiet
    <3> QED BY <3>1, <3>2
  <2>5. now <= t
    BY <1>4, <2>1, <2>2, <2>4 DEF Turn
  <2> QED BY <1>5, <2>2, <2>5
<1>8. CASE Minute \/ Collect("task") \/ Score("task") \/ UNCHANGED vars
  <2>1. phase' = phase /\ ledger \subseteq ledger' /\ Last' = Last
    <3>1. CASE Minute \/ UNCHANGED vars
      BY <3>1 DEF Minute, vars, runVars, fileVars, Last
    <3>2. CASE Collect("task") \/ Score("task")
      <4>1. Step("task") /\ "task" \in Runs
        BY <3>2 DEF Step, Runs
      <4>2. phase' = phase
        BY <3>2 DEF Collect, Score, PassWindow, MarkMissed, LogWindow, CheckKey, AppendRecord,
                    Shutdown, ReadForScores, FlushScores
      <4> QED BY <1>1, <4>1, <4>2, StepFrame, StepWrites DEF Last
    <3> QED BY <1>8, <3>1, <3>2
  <2>2. /\ \A k : Target(k)' = Target(k) /\ End(k)' = End(k) /\ Filed(k) \subseteq Filed(k)'
        /\ \A t : Scheduled(t)' <=> Scheduled(t)
    BY <2>1 DEF Target, End, Filed, Scheduled
  <2> SUFFICES ASSUME NEW k \in PreKeys, Filed(k) = {}, NEW t \in Target(k)..End(k),
                      t >= 0, Scheduled(t)
               PROVE  t >= Last
    BY <2>1, <2>2 DEF Missing, PreKeys
  <2> QED BY <1>4 DEF Missing
<1> QED BY <1>1, <1>3, <1>4, <1>7, <1>8, SlowSteps

\* run_prospective_collection.ps1 looks every Interval minutes at windows that stay open
\* for ten: a window is captured if a turn falls in it, and marked as missed otherwise,
\* while nothing fails and slow runs end by the next turn.
THEOREM ScheduleIsDecisive ==
  ASSUME MaxFaults <= Interval
  PROVE  Spec => []ScheduleDecides
<1>1. Init => HitInv
  <2>1. Init => Missing
    <3> SUFFICES ASSUME Init, NEW k \in PreKeys, NEW t \in Target(k)..End(k), t >= 0
                 PROVE  t >= Last
      BY DEF Missing
    <3>1. Last = -1 /\ t \in Int
      BY PreKeyType DEF Init, Last, Runs
    <3> QED BY <3>1
  <2> QED BY <2>1, SlowInit DEF HitInv
<1>2. HitInv /\ [Next]_vars => HitInv'
  BY HitStep
<1>3. HitInv => ScheduleDecides
  <2> SUFFICES ASSUME HitInv, OnlySlow, NEW k \in Keys, k.window \in PreMatch,
                      \A t \in {Target(k) + Grace, phase} : t + Interval + faults["slow"] < now
               PROVE  IF Hit(k) THEN Filed(k) # {}
                      ELSE Filed(k) = {} /\ Event("task", "missed", k) \in manifest
    BY DEF ScheduleDecides
  <2>1. /\ TypeOK /\ Quiet /\ Overdue /\ Missing /\ k \in PreKeys
    BY DEF HitInv, SlowInv, ScoreInv, LedgerInv, PreKeys
  <2>2. Last >= 0 /\ Last > End(k) /\ (Filed(k) # {} \/ MarkedMissed(k))
    BY <2>1 DEF Overdue, Late, End, Slow
  <2>3. CASE Hit(k)
    <3>1. PICK t \in Target(k)..End(k) : t >= 0 /\ Scheduled(t)
      BY <2>3 DEF Hit, End
    <3>2. ~(t >= Last)
      BY <2>1, <2>2, <3>1, PreKeyType, SlowType
    <3> QED BY <2>1, <2>3, <3>1, <3>2 DEF Missing
  <2>4. CASE ~Hit(k)
    <3>1. Filed(k) = {}
      <4> SUFFICES ASSUME NEW r \in ledger, r.key = k PROVE FALSE
        BY DEF Filed
      <4>1. /\ r.at >= 0 /\ Scheduled(r.at) /\ Target(k) <= r.at /\ r.at <= End(k)
            /\ r.at \in Int /\ Target(k) \in Int /\ End(k) \in Int
        BY <2>1, SlowType DEF Quiet
      <4>2. r.at \in Target(k)..Target(k) + Grace
        BY <4>1 DEF End
      <4> QED BY <2>4, <4>1, <4>2 DEF Hit
    <3>2. execute["task"] = TRUE
      BY <2>1, <2>2 DEF Quiet, TypeOK, Runs
    <3> QED BY <2>2, <2>4, <3>1, <3>2 DEF MarkedMissed, Event
  <2> QED BY <2>3, <2>4
<1> QED BY <1>1, <1>2, <1>3, PTL DEF Spec

-----------------------------------------------------------------------------
(* Both files implement the append-only ledger.                              *)

\* What may enter ledger.jsonl: a pre-match window, captured while it is open.
RecordKey(r) == r.key
InWindow(r) == /\ r.key.window \in PreMatch
               /\ Target(r.key) <= r.at /\ r.at <= Target(r.key) + Grace
               /\ r.at <= r.filed

\* What may enter scores.jsonl: such a record, when its match is over.
ScoreKey(s) == s.record.key
AfterMatch(s) == InWindow(s.record) /\ s.at >= Ended(s.record.key.match)

Records == INSTANCE AppendOnlyLedger
             WITH Key <- RecordKey, Admissible <- InWindow, entries <- ledger
ScoreFile == INSTANCE AppendOnlyLedger
               WITH Key <- ScoreKey, Admissible <- AfterMatch, entries <- scores

Unexercised == \A kind \in AllFaults \ FaultKinds : faults[kind] = 0

FilesInv == SlowInv /\ (\A r \in ledger : InWindow(r)) /\ Unexercised

LEMMA FilesGrow ==
  ASSUME TypeOK, [Next]_vars
  PROVE  /\ scores \subseteq scores'
         /\ \/ ledger' = ledger
            \/ \E p \in Runs : At(p, "append") /\ ledger' = ledger \cup {NewRecord(p)}
<1>1. ASSUME NEW p \in Runs, Step(p)
      PROVE  /\ scores \subseteq scores'
             /\ \/ ledger' = ledger
                \/ At(p, "append") /\ ledger' = ledger \cup {NewRecord(p)}
  BY <1>1, StepScores, StepWrites
<1>2. CASE StartTask \/ StartByHand \/ Minute \/ UNCHANGED vars
  BY <1>2 DEF StartTask, StartByHand, Begin, Minute, vars, fileVars
<1> QED BY <1>1, <1>2 DEF Next, Step

LEMMA StillUnexercised ==
  ASSUME TypeOK, Unexercised, [Next]_vars
  PROVE  Unexercised'
<1>1. faults' = faults \/ \E kind \in FaultKinds : Fault(kind)
  <2>1. CASE \E p \in Runs : Collect(p) \/ Score(p)
    BY <2>1 DEF Collect, Score, PassWindow, MarkMissed, LogWindow, CheckKey, AppendRecord,
                Shutdown, ReadForScores, FlushScores, faultVars
  <2>2. CASE \E p \in Runs : Kill(p) \/ Cut(p)
    BY <2>2 DEF Kill, Cut, Fault
  <2>3. CASE StartTask \/ StartByHand \/ Minute
    BY <2>3 DEF StartTask, StartByHand, Minute, Fault, NoFault, faultVars
  <2> QED BY <2>1, <2>2, <2>3 DEF Next, vars, faultVars
<1>2. CASE faults' = faults
  BY <1>2 DEF Unexercised
<1>3. CASE \E kind \in FaultKinds : Fault(kind)
  BY <1>3 DEF Unexercised, Fault, TypeOK
<1> QED BY <1>1, <1>2, <1>3

LEMMA FilesStep ==
  ASSUME FilesInv, [Next]_vars
  PROVE  FilesInv'
<1>1. TypeOK /\ SlowInv' /\ Unexercised'
  BY SlowStep, StillUnexercised DEF FilesInv, SlowInv, ScoreInv, LedgerInv
<1>2. ASSUME NEW p \in Runs, At(p, "append")
      PROVE  InWindow(NewRecord(p))
  <2>1. /\ Current(p) \in Keys /\ started[p] \in Int /\ started[p] <= now
        /\ Current(p).window \in PreMatch /\ Status(Current(p), started[p]) = "due"
    BY <1>1, <1>2, CurrentType
       DEF FilesInv, SlowInv, ScoreInv, LedgerInv, PreAppend, Appending, OnTime, TypeOK
  <2>2. Target(Current(p)) \in Int
    BY <2>1, TargetType
  <2>3. Target(Current(p)) <= started[p] /\ started[p] <= Target(Current(p)) + Grace
    BY <2>1, <2>2 DEF Status, Grace
  <2> QED BY <2>1, <2>3 DEF InWindow, NewRecord
<1>3. \A r \in ledger' : InWindow(r)
  BY <1>1, <1>2, FilesGrow DEF FilesInv
<1>4. \A r \in ledger' : InWindow(r)'
  BY <1>3 DEF InWindow, Target
<1> QED BY <1>1, <1>4 DEF FilesInv

LEMMA FilesInit == Init => FilesInv
<1>1. Init => ledger = {} /\ faults = [k \in AllFaults |-> 0]
  BY DEF Init
<1> QED BY <1>1, SlowInit DEF FilesInv, Unexercised

\* "Immutable, append-only, first-write-wins" (ledger.py:1), as a whole: without a
\* collector started by hand ledger.jsonl only ever gains records of open pre-match
\* windows that are not in it, whatever is killed, cut or slow.
THEOREM RecordsAppendOnly ==
  ASSUME "manual" \notin FaultKinds
  PROVE  Spec => Records!Spec
<1>1. Init => Records!Init
  BY DEF Init, Records!Init, Records!KeysUnique
<1>2. FilesInv /\ FilesInv' /\ [Next]_vars => [Records!Extend]_ledger
  <2> SUFFICES ASSUME FilesInv, FilesInv', [Next]_vars
               PROVE  Records!Extend
    OBVIOUS
  <2>1. ledger \subseteq ledger'
    BY FilesGrow DEF FilesInv, SlowInv, ScoreInv, LedgerInv
  <2>2. Records!KeysUnique(ledger')
    <3> SUFFICES ASSUME NEW r \in ledger', NEW s \in ledger', RecordKey(r) = RecordKey(s)
                 PROVE  r = s
      BY DEF Records!KeysUnique
    <3>1. faults'["manual"] = 0
      BY DEF FilesInv, Unexercised, AllFaults
    <3> QED BY <3>1 DEF FilesInv, SlowInv, ScoreInv, LedgerInv, FirstWriteWins, RecordKey
  <2>3. \A r \in ledger' : InWindow(r)
    BY DEF FilesInv, InWindow, Target
  <2> QED BY <2>1, <2>2, <2>3 DEF Records!Extend
<1> QED BY <1>1, <1>2, FilesInit, FilesStep, PTL DEF Spec, Records!Spec

\* scores.jsonl is written once per record (prospective_score.py:2-3), as a whole: with
\* scheduled runs only it gains scores of captured records, of finished matches, and
\* one score per record.
THEOREM ScoresAppendOnly ==
  ASSUME FaultKinds \cap {"manual", "dry"} = {}
  PROVE  Spec => ScoreFile!Spec
<1>1. Init => ScoreFile!Init
  BY DEF Init, ScoreFile!Init, ScoreFile!KeysUnique
<1>2. FilesInv /\ FilesInv' /\ [Next]_vars => [ScoreFile!Extend]_scores
  <2> SUFFICES ASSUME FilesInv, FilesInv', [Next]_vars
               PROVE  ScoreFile!Extend
    OBVIOUS
  <2>1. scores \subseteq scores'
    BY FilesGrow DEF FilesInv, SlowInv, ScoreInv, LedgerInv
  <2>2. ScoreFile!KeysUnique(scores')
    <3> SUFFICES ASSUME NEW s \in scores', NEW t \in scores', ScoreKey(s) = ScoreKey(t)
                 PROVE  s = t
      BY DEF ScoreFile!KeysUnique
    <3>1. faults'["manual"] = 0 /\ faults'["dry"] = 0
      BY DEF FilesInv, Unexercised, AllFaults
    <3>2. NoHand'
      BY <3>1 DEF NoHand
    <3> QED BY <3>2 DEF FilesInv, SlowInv, ScoreInv, ScoredAtMostOnce, ScoreKey
  <2>3. \A s \in scores' : AfterMatch(s)
    <3>1. \A s \in scores' : s.record \in ledger' /\ s.at >= Ended(s.record.key.match)
      BY DEF FilesInv, SlowInv, ScoreInv, ScoresBacked, Ended
    <3>2. \A r \in ledger' : InWindow(r)
      BY DEF FilesInv, InWindow, Target
    <3> QED BY <3>1, <3>2 DEF AfterMatch
  <2> QED BY <2>1, <2>2, <2>3 DEF ScoreFile!Extend
<1> QED BY <1>1, <1>2, FilesInit, FilesStep, PTL DEF Spec, ScoreFile!Spec
-----------------------------------------------------------------------------
(* A torn line is final                                                      *)

NoAppend == \A p \in Runs : ~At(p, "append")
NoFlush  == \A p \in Runs : ~At(p, "flush")

\* A line of ledger.jsonl is not JSON, or one of either file, and no run is past the
\* reading that it makes raise.
CaptureStopped == tail["ledger"] = "torn" /\ NoAppend
ScoringStopped == (tail["ledger"] = "torn" \/ tail["scores"] = "torn") /\ NoFlush

CapturedEvents == {e \in manifest : e.event = "captured"}

\* "the next run resumes cleanly" (docs/CRON_SETUP.md:35) stops being true at a line cut by
\* a kill (ledger.py:39): no later run of any kind captures a window, or scores a record,
\* and no manifest calls one captured.  Only a person can repair the file.
StopsAreFinal ==
  [][/\ CaptureStopped => /\ CaptureStopped' /\ ledger' = ledger
                          /\ CapturedEvents' = CapturedEvents
     /\ ScoringStopped => ScoringStopped' /\ scores' = scores]_vars

\* Nothing mends a torn file.
LEMMA TornStays ==
  ASSUME TypeOK, [Next]_vars
  PROVE  \A f \in {"ledger", "scores"} : tail[f] = "torn" => tail'[f] = "torn"
<1>1. CASE tail' = tail
  BY <1>1
<1>2. ASSUME NEW p \in Runs, AppendRecord(p) \/ FlushScores(p)
      PROVE  \A f \in {"ledger", "scores"} : tail[f] = "torn" => tail'[f] = "torn"
  BY <1>2 DEF AppendRecord, FlushScores, AfterAppend, TypeOK
<1>3. ASSUME NEW p \in Runs, Cut(p)
      PROVE  \A f \in {"ledger", "scores"} : tail[f] = "torn" => tail'[f] = "torn"
  BY <1>3 DEF Cut, TypeOK
<1>4. ASSUME NEW p \in Runs,
             PassWindow(p) \/ MarkMissed(p) \/ LogWindow(p) \/ CheckKey(p) \/ Shutdown(p)
               \/ ReadForScores(p) \/ Kill(p)
      PROVE  tail' = tail
  BY <1>4 DEF PassWindow, MarkMissed, LogWindow, CheckKey, Shutdown, ReadForScores, Kill, fileVars
<1>5. CASE StartTask \/ StartByHand \/ Minute \/ UNCHANGED vars
  BY <1>1, <1>5 DEF StartTask, StartByHand, Begin, Minute, vars, fileVars
<1> QED BY <1>1, <1>2, <1>3, <1>4, <1>5 DEF Next, Collect, Score

LEMMA CaptureStays ==
  ASSUME TypeOK, [Next]_vars, CaptureStopped
  PROVE  CaptureStopped' /\ ledger' = ledger /\ CapturedEvents' = CapturedEvents
<1>1. tail'["ledger"] = "torn"
  BY TornStays DEF CaptureStopped
<1>2. CASE \E p \in Runs : Step(p)
  <2>1. PICK p \in Runs : Step(p)
    BY <1>2
  <2>2. ~At(p, "append") /\ pc \in [Runs -> {"idle", "plan", "append", "score", "flush"}]
    BY DEF CaptureStopped, NoAppend, TypeOK
  <2>3. ledger' = ledger
    BY <2>1, <2>2, StepWrites
  <2>4. ~CheckKey(p) \/ (pc'[p] = "score" /\ manifest' = manifest)
    BY <2>2 DEF CheckKey, CaptureStopped, Goto
  <2>5. NoAppend'
    BY <2>1, <2>2, <2>4, StepFrame DEF CaptureStopped, NoAppend, At
  <2>6. CapturedEvents' = CapturedEvents
    <3>1. CASE MarkMissed(p) \/ LogWindow(p)
      BY <3>1 DEF MarkMissed, LogWindow, Log, Event, CapturedEvents
    <3>2. CASE manifest' = manifest
      BY <3>2 DEF CapturedEvents
    <3>3. CASE PassWindow(p) \/ Shutdown(p) \/ Score(p) \/ Kill(p) \/ Cut(p)
      BY <3>2, <3>3 DEF PassWindow, Shutdown, Score, ReadForScores, FlushScores, Kill, Cut, fileVars
    <3> QED BY <2>1, <2>2, <2>4, <3>1, <3>2, <3>3 DEF Step, Collect, AppendRecord
  <2> QED BY <1>1, <2>3, <2>5, <2>6 DEF CaptureStopped
<1>3. CASE StartTask \/ StartByHand \/ Minute \/ UNCHANGED vars
  <2>1. ledger' = ledger /\ manifest' = manifest
    BY <1>3 DEF StartTask, StartByHand, Begin, Minute, vars, fileVars
  <2>2. NoAppend'
    BY <1>3 DEF StartTask, StartByHand, Begin, Minute, vars, runVars, Goto, At, Runs, TypeOK,
       CaptureStopped, NoAppend
  <2> QED BY <1>1, <2>1, <2>2 DEF CaptureStopped, CapturedEvents
<1> QED BY <1>2, <1>3 DEF Next, Step

LEMMA ScoringStays ==
  ASSUME TypeOK, [Next]_vars, ScoringStopped
  PROVE  ScoringStopped' /\ scores' = scores
<1>1. tail'["ledger"] = "torn" \/ tail'["scores"] = "torn"
  BY TornStays DEF ScoringStopped
<1>2. ASSUME NEW p \in Runs, Step(p) PROVE NoFlush' /\ scores' = scores
  <2>1. /\ ~At(p, "flush") /\ pc \in [Runs -> {"idle", "plan", "append", "score", "flush"}]
        /\ \A q \in Runs : q # p => pc'[q] = pc[q]
    BY <1>2, StepFrame DEF ScoringStopped, NoFlush, TypeOK
  <2>2. pc'[p] # "flush" /\ scores' = scores
    <3>1. CASE PassWindow(p) \/ MarkMissed(p) \/ LogWindow(p)
      BY <2>1, <3>1 DEF PassWindow, MarkMissed, LogWindow, InStatus, Looking, At, fileVars
    <3>2. CASE CheckKey(p) \/ AppendRecord(p) \/ Shutdown(p)
      BY <2>1, <3>2 DEF CheckKey, Capturing, InStatus, Looking, AppendRecord, Shutdown, Goto, At,
         fileVars
    <3>3. CASE ReadForScores(p)
      BY <2>1, <3>3 DEF ReadForScores, Ends, ScoringStopped, fileVars
    <3>4. CASE Kill(p) \/ Cut(p)
      BY <2>1, <3>4 DEF Kill, Cut, Ends, At, fileVars
    <3>5. CASE FlushScores(p)
      BY <2>1, <3>5 DEF FlushScores
    <3> QED BY <1>2, <3>1, <3>2, <3>3, <3>4, <3>5 DEF Step, Collect, Score
  <2> QED BY <2>1, <2>2 DEF ScoringStopped, NoFlush, At
<1>3. CASE StartTask \/ StartByHand \/ Minute \/ UNCHANGED vars
  BY <1>1, <1>3 DEF StartTask, StartByHand, Begin, Minute, vars, runVars, fileVars, Goto, At, Runs,
     TypeOK, ScoringStopped, NoFlush
<1> QED BY <1>1, <1>2, <1>3 DEF Next, Step, ScoringStopped

\* A torn line of ledger.jsonl or scores.jsonl stops its writers for good (ledger.py:39).
THEOREM TornLinesAreFinal ==
  Spec => /\ StopsAreFinal
          /\ [](CaptureStopped => []CaptureStopped) /\ [](ScoringStopped => []ScoringStopped)
<1>1. TypeOK /\ [Next]_vars
        => [/\ CaptureStopped => /\ CaptureStopped' /\ ledger' = ledger
                                 /\ CapturedEvents' = CapturedEvents
            /\ ScoringStopped => ScoringStopped' /\ scores' = scores]_vars
  BY CaptureStays, ScoringStays
<1>2. TypeOK /\ [Next]_vars => (CaptureStopped => CaptureStopped')
  BY CaptureStays
<1>3. TypeOK /\ [Next]_vars => (ScoringStopped => ScoringStopped')
  BY ScoringStays
<1> QED BY <1>1, <1>2, <1>3, TypeCorrect, PTL DEF Spec, StopsAreFinal
=============================================================================
