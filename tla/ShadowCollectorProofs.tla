------------------------ MODULE ShadowCollectorProofs ------------------------
(***************************************************************************)
(* Proofs about the shadow collector, for every set of fixtures, every     *)
(* ceiling, every horizon and every number and kind of faults.             *)
(***************************************************************************)
EXTENDS ShadowCollector, TLAPS

\* Between the fetcher's check and its record nobody else writes the budget, so
\* the copy in memory is still the file, and one more credit fits the ceiling.
FetcherHoldsBudget ==
  pc \in {"http", "record"} => mem = Loaded(budget) /\ mem.used + 1 <= MaxCredits

\* Every fault has cost at most one whole budget; one credit is in flight between
\* the charge and its record.
Accounted ==
  billed <= Loaded(budget).used + (IF pc = "record" THEN 1 ELSE 0) + MaxCredits * faults

BudgetInv == TypeOK /\ FetcherHoldsBudget /\ Accounted

-----------------------------------------------------------------------------
(* Arithmetic: what one more fault adds to the bound. *)

LEMMA OneMoreFault ==
  ASSUME NEW c \in Nat, NEW f \in Nat
  PROVE  c * f \in Nat /\ c * (f + 1) = c * f + c
OBVIOUS

LEMMA LoadedType ==
  ASSUME NEW b \in BudgetState
  PROVE  Loaded(b) \in BudgetState /\ Loaded(b).ok
BY BoundsAssumption DEF BudgetState, Loaded, EmptyBudget, Never, Minutes

\* What freeze reads is a snapshot file, on disk or the absent one.
LEMMA SourceType ==
  ASSUME raw \subseteq SnapshotFile
  PROVE  Source \in SnapshotFile /\ (Source \in raw \/ Source = NoSnapshot)
<1>1. NoSnapshot \in SnapshotFile
  BY DEF NoSnapshot, SnapshotFile, SnapshotTypes, Minutes, Never
<1>2. CASE LastByName = {}
  BY <1>1, <1>2 DEF Source
<1>3. CASE LastByName # {}
  <2>1. (CHOOSE f \in LastByName : TRUE) \in LastByName
    BY <1>3
  <2>2. Source \in raw
    BY <1>3, <2>1 DEF Source, LastByName
  <2> QED BY <2>2
<1> QED BY <1>2, <1>3

LEMMA SnapshotType ==
  ASSUME due \in SnapshotTypes, stamp \in Minutes, NEW quotes \in Answers
  PROVE  Snapshot(TRUE, quotes) \in SnapshotFile /\ Snapshot(FALSE, quotes) \in SnapshotFile
BY MarketAssumption DEF Snapshot, SnapshotFile

LEMMA NewRowsType ==
  ASSUME TypeOK
  PROVE  NewRows \subseteq Row
<1>1. Source.stamp \in Int
  BY SourceType DEF TypeOK, SnapshotFile, Minutes
<1>2. now \in Int
  BY DEF TypeOK
<1>3. ASSUME NEW m \in Matches, NEW v \in Models PROVE Frozen(m, v) \in Row
  <2>1. (m \in Source.quotes) \in BOOLEAN
    OBVIOUS
  <2> QED BY <1>1, <1>2, <2>1 DEF Frozen, Row, Minutes
<1> QED BY <1>3 DEF NewRows, Unplayed, Models

-----------------------------------------------------------------------------
(* Type correctness and the bound on spending *)

LEMMA BudgetInit == Init => BudgetInv
<1> SUFFICES ASSUME Init PROVE BudgetInv
  OBVIOUS
<1> USE BoundsAssumption DEF Init, EmptyBudget, Never, Interval
<1>1. TypeOK
  BY DEF TypeOK, BudgetState, SnapshotTypes, Minutes, MinInterval
<1>2. FetcherHoldsBudget
  BY DEF FetcherHoldsBudget
<1>3. MaxCredits * 0 = 0
  OBVIOUS
<1>4. Accounted
  BY <1>3 DEF Accounted, Loaded
<1> QED BY <1>1, <1>2, <1>4 DEF BudgetInv

LEMMA BudgetNext == BudgetInv /\ [Next]_vars => BudgetInv'
<1> SUFFICES ASSUME BudgetInv, [Next]_vars PROVE BudgetInv'
  OBVIOUS
<1> USE BoundsAssumption DEF BudgetInv, TypeOK
<1>0. /\ Loaded(budget) \in BudgetState
      /\ MaxCredits * faults \in Nat
      /\ MaxCredits * (faults + 1) = MaxCredits * faults + MaxCredits
  BY LoadedType, OneMoreFault
<1>1. ASSUME HaltFlags PROVE BudgetInv'
  BY <1>0, <1>1 DEF HaltFlags, Startable, Fault, FetcherHoldsBudget, Accounted, cycleVars,
     extVars, BudgetState, Loaded, Interval
<1>2. ASSUME StopHardEnd PROVE BudgetInv'
  BY <1>2 DEF StopHardEnd, Startable, FetcherHoldsBudget, Accounted, cycleVars, extVars, Loaded
<1>3. ASSUME StartCycle PROVE BudgetInv'
  BY <1>3 DEF StartCycle, Startable, DueType, SnapshotTypes, FetcherHoldsBudget, Accounted,
     fileVars, extVars, Loaded
<1>4. ASSUME EndCycle PROVE BudgetInv'
  BY <1>4 DEF EndCycle, Exit, FetcherHoldsBudget, Accounted, extVars, Loaded, EmptyBudget,
     BudgetState, Never, Minutes, SnapshotTypes
<1>5. ASSUME FetchCheck PROVE BudgetInv'
  <2>1. CASE CanRequest(Loaded(budget))
    <3>1. /\ pc' = "http" /\ mem' = Loaded(budget) /\ stamp' = now
          /\ UNCHANGED <<now, started, due, merged, fileVars, extVars, faults>>
      BY <1>5, <2>1 DEF FetchCheck
    <3>2. Loaded(budget)' = Loaded(budget)
      BY <3>1 DEF fileVars, Loaded
    <3>3. TypeOK'
      BY <1>0, <3>1 DEF fileVars, extVars, Minutes
    <3>4. FetcherHoldsBudget' /\ Accounted'
      BY <1>5, <2>1, <3>1, <3>2 DEF FetchCheck, FetcherHoldsBudget, Accounted, CanRequest, extVars
    <3> QED BY <3>3, <3>4
  <2>2. CASE ~CanRequest(Loaded(budget))
    BY <1>5, <2>2 DEF FetchCheck, FetcherHoldsBudget, Accounted, fileVars, extVars, Loaded
  <2> QED BY <2>1, <2>2
<1>6. ASSUME Request PROVE BudgetInv'
  BY <1>0, <1>6 DEF Request, Charge, FetcherHoldsBudget, Accounted, fileVars, Loaded,
     EmptyBudget, BudgetState
<1>7. ASSUME RequestLost PROVE BudgetInv'
  BY <1>0, <1>7 DEF RequestLost, Fault, Charge, FetcherHoldsBudget, Accounted, fileVars,
     Loaded, EmptyBudget, BudgetState
<1>8. ASSUME RequestUnbilled PROVE BudgetInv'
  BY <1>0, <1>8 DEF RequestUnbilled, Fault, FetcherHoldsBudget, Accounted, fileVars, extVars,
     Loaded, EmptyBudget, BudgetState
<1>9. ASSUME RecordRequest PROVE BudgetInv'
  BY <1>0, <1>9 DEF RecordRequest, Recorded, FetcherHoldsBudget, Accounted, extVars, Loaded,
     EmptyBudget, BudgetState, Minutes
<1>10. ASSUME WriteRaw PROVE BudgetInv'
  <2>1. raw' \subseteq SnapshotFile
    BY <1>10, SnapshotType DEF WriteRaw
  <2> QED BY <1>10, <2>1 DEF WriteRaw, FetcherHoldsBudget, Accounted, extVars, Loaded
<1>11. ASSUME FreezeRead PROVE BudgetInv'
  <2>1. FirstWins(pred.rows, NewRows) \subseteq Row
    BY NewRowsType DEF FirstWins
  <2> QED BY <1>11, <2>1 DEF FreezeRead, FetcherHoldsBudget, Accounted, fileVars, extVars, Loaded
<1>12. ASSUME FreezeFails PROVE BudgetInv'
  BY <1>12 DEF FreezeFails, FetcherHoldsBudget, Accounted, fileVars, extVars, Loaded
<1>13. ASSUME FreezeWrite PROVE BudgetInv'
  BY <1>13 DEF FreezeWrite, FetcherHoldsBudget, Accounted, extVars, Loaded
<1>14. ASSUME Kill PROVE BudgetInv'
  <2> USE <1>14
  <2>1. /\ pc' = "idle" /\ due' = "baseline" /\ mem' = EmptyBudget
        /\ stamp' = Never /\ merged' = {} /\ faults' = faults + 1 /\ faults < MaxFaults
        /\ UNCHANGED <<now, started, heartbeat, extVars>>
    BY DEF Kill, Exit, Fault
  <2>2. raw' \subseteq SnapshotFile
    BY SnapshotType DEF Kill
  <2>3. pred' \in [state : {"absent", "ok", "empty"}, rows : SUBSET Row]
    <3>1. \A S \in CutOff(merged) : S \subseteq Row
      BY DEF CutOff
    <3>2. \/ pred' = pred
          \/ pred' = [state |-> "empty", rows |-> {}]
          \/ \E S \in CutOff(merged) : pred' = [state |-> "ok", rows |-> S]
      BY Zenon DEF Kill
    <3> QED BY <3>1, <3>2
  <2>4. budget' \in BudgetState /\ (budget' = budget \/ (pc = "record" /\ ~budget'.ok))
    BY DEF Kill, BudgetState
  <2>5. TypeOK'
    BY <2>1, <2>2, <2>3, <2>4 DEF extVars, EmptyBudget, BudgetState, Never, Minutes, SnapshotTypes
  <2>6. FetcherHoldsBudget'
    BY <2>1 DEF FetcherHoldsBudget
  <2>7. billed <= Loaded(budget').used + MaxCredits * faults + MaxCredits
    <3>1. CASE pc = "record"
      BY <1>0, <2>4, <3>1 DEF FetcherHoldsBudget, Accounted, Loaded, EmptyBudget, BudgetState
    <3>2. CASE pc # "record"
      BY <1>0, <2>4, <3>2 DEF Accounted, BudgetState
    <3> QED BY <3>1, <3>2
  <2>8. Accounted'
    BY <1>0, <2>1, <2>4, <2>7, LoadedType DEF Accounted, extVars, BudgetState
  <2> QED BY <2>5, <2>6, <2>8
<1>15. ASSUME Minute PROVE BudgetInv'
  BY <1>15 DEF Minute, FetcherHoldsBudget, Accounted, cycleVars, fileVars, extVars, Loaded
<1>16. ASSUME NextInterval PROVE BudgetInv'
  <2>1. now + Interval - (now % Interval) \in Nat
    BY DEF Interval
  <2> QED BY <1>16, <2>1 DEF NextInterval, FetcherHoldsBudget, Accounted, cycleVars, fileVars,
          extVars, Loaded
<1>17. CASE UNCHANGED vars
  BY <1>17 DEF vars, FetcherHoldsBudget, Accounted, cycleVars, fileVars, extVars, Loaded
<1> QED BY <1>1, <1>2, <1>3, <1>4, <1>5, <1>6, <1>7, <1>8, <1>9, <1>10, <1>11, <1>12, <1>13,
        <1>14, <1>15, <1>16, <1>17 DEF Next, Cycle, Fetcher, Freezer

\* The inductive invariant of the budget file, for every schedule and fault.
THEOREM BudgetInvariant == Spec => []BudgetInv
BY BudgetInit, BudgetNext, PTL DEF Spec

\* Every variable keeps its type; in particular the budget file never records more
\* than the ceiling (odds_budget.py:49), whatever fails.
THEOREM TypeCorrect == Spec => []TypeOK
<1>1. BudgetInv => TypeOK
  BY DEF BudgetInv
<1> QED BY BudgetInvariant, <1>1, PTL

\* Overspending is bounded by one whole budget per fault: odds_budget.py's ceiling
\* when requests are lost, cycles are killed and budget files are torn.
THEOREM DamageIsBounded == Spec => []DamageBound
<1>1. BudgetInv => DamageBound
  <2> SUFFICES ASSUME BudgetInv PROVE DamageBound
    OBVIOUS
  <2>1. /\ Loaded(budget) \in BudgetState /\ faults \in Nat /\ MaxCredits \in Nat
        /\ billed \in Nat
    BY LoadedType, BoundsAssumption DEF BudgetInv, TypeOK
  <2>2. Loaded(budget).used + (IF pc = "record" THEN 1 ELSE 0) <= MaxCredits
    BY <2>1 DEF BudgetInv, FetcherHoldsBudget, BudgetState
  <2>3. MaxCredits * (1 + faults) = MaxCredits * faults + MaxCredits
    BY <2>1
  <2>4. MaxCredits * faults \in Nat
    BY <2>1, OneMoreFault
  <2> QED BY <2>1, <2>2, <2>3, <2>4 DEF BudgetInv, Accounted, DamageBound, BudgetState
<1> QED BY BudgetInvariant, <1>1, PTL

-----------------------------------------------------------------------------
(* The prediction CSV *)

\* What the CSV and the rows freeze holds in memory have in common at all times,
\* and that no snapshot on disk or in flight is from the future.
RowsSound(S) == Ledger!KeysUnique(S) /\ \A r \in S : Admissible(r)

LedgerInv ==
  /\ RowsSound(pred.rows) /\ RowsSound(merged)
  /\ pc = "write" => pred.rows \subseteq merged
  /\ stamp <= now /\ \A f \in raw : f.stamp <= now

\* A subset of sound rows is sound: what a cut-off write leaves.
LEMMA SoundSubset ==
  ASSUME NEW S, NEW T, RowsSound(S), T \subseteq S
  PROVE  RowsSound(T)
BY DEF RowsSound, Ledger!KeysUnique

\* Rows frozen now are filed under different keys and precede their kickoff.
LEMMA NewRowsSound ==
  ASSUME TypeOK, \A f \in raw : f.stamp <= now
  PROVE  RowsSound(NewRows)
<1>1. Source.stamp \in Int /\ Source.stamp <= now
  BY SourceType DEF TypeOK, SnapshotFile, Minutes, NoSnapshot, Never
<1>2. ASSUME NEW r \in NewRows PROVE Admissible(r)
  BY <1>1, KickoffAssumption DEF NewRows, Frozen, Unplayed, Admissible, TypeOK
<1>3. ASSUME NEW r \in NewRows, NEW q \in NewRows, Key(r) = Key(q) PROVE r = q
  BY <1>3 DEF NewRows, Frozen, Key
<1> QED BY <1>2, <1>3 DEF RowsSound, Ledger!KeysUnique

\* drop_duplicates(keep="first") keeps the old rows and the keys unique.
LEMMA FirstWinsSound ==
  ASSUME NEW old, NEW new, RowsSound(old), RowsSound(new)
  PROVE  RowsSound(FirstWins(old, new)) /\ old \subseteq FirstWins(old, new)
BY DEF FirstWins, RowsSound, Ledger!KeysUnique

LEMMA LedgerInit == Init => LedgerInv
BY DEF Init, LedgerInv, RowsSound, Ledger!KeysUnique, Never

LEMMA LedgerNext == TypeOK /\ LedgerInv /\ [Next]_vars => LedgerInv'
<1> SUFFICES ASSUME TypeOK, LedgerInv, [Next]_vars PROVE LedgerInv'
  OBVIOUS
<1>0. now \in Int /\ stamp \in Int /\ (\A f \in raw : f.stamp \in Int) /\ Never <= now
  BY DEF TypeOK, SnapshotFile, Minutes, Never
<1>1. CASE UNCHANGED <<now, stamp, merged, raw, pred>> /\ pc' # "write"
  BY <1>1 DEF LedgerInv
<1>2. ASSUME EndCycle PROVE LedgerInv'
  BY <1>0, <1>2 DEF EndCycle, Exit, LedgerInv, RowsSound, Ledger!KeysUnique
<1>3. ASSUME FetchCheck PROVE LedgerInv'
  BY <1>0, <1>3 DEF FetchCheck, LedgerInv, fileVars
<1>4. ASSUME WriteRaw PROVE LedgerInv'
  BY <1>4 DEF WriteRaw, Snapshot, LedgerInv
<1>5. ASSUME FreezeRead PROVE LedgerInv'
  <2>1. RowsSound(FirstWins(pred.rows, NewRows)) /\ pred.rows \subseteq FirstWins(pred.rows, NewRows)
    BY NewRowsSound, FirstWinsSound DEF LedgerInv
  <2> QED BY <1>5, <2>1 DEF FreezeRead, LedgerInv, fileVars
<1>6. ASSUME FreezeWrite PROVE LedgerInv'
  BY <1>6 DEF FreezeWrite, LedgerInv
<1>7. ASSUME Kill PROVE LedgerInv'
  <2>1. /\ pc' = "idle" /\ stamp' = Never /\ merged' = {} /\ now' = now
    BY <1>7 DEF Kill, Exit
  <2>2. raw' = raw \/ \E quotes \in Answers : raw' = raw \cup {Snapshot(FALSE, quotes)}
    BY <1>7 DEF Kill
  <2>3. \A f \in raw' : f.stamp <= now'
    BY <2>1, <2>2 DEF LedgerInv, Snapshot
  <2>4. \/ pred' = pred
        \/ pred' = [state |-> "empty", rows |-> {}]
        \/ \E S \in CutOff(merged) : pred' = [state |-> "ok", rows |-> S]
    BY <1>7, Zenon DEF Kill
  <2>5. RowsSound({}) /\ (\A S \in CutOff(merged) : RowsSound(S))
    BY SoundSubset DEF LedgerInv, CutOff, RowsSound, Ledger!KeysUnique
  <2>6. RowsSound(pred'.rows)
    BY <2>4, <2>5 DEF LedgerInv
  <2>7. RowsSound(pred.rows)' /\ RowsSound(merged)'
    BY <2>1, <2>5, <2>6
  <2> QED BY <1>0, <2>1, <2>3, <2>7 DEF LedgerInv
<1>8. ASSUME Minute \/ NextInterval PROVE LedgerInv'
  <2>1. now <= now' /\ now' \in Int
    BY <1>0, <1>8 DEF Minute, NextInterval, Interval
  <2>2. UNCHANGED <<pc, stamp, merged, raw, pred>>
    BY <1>8 DEF Minute, NextInterval, cycleVars, fileVars
  <2> QED BY <1>0, <2>1, <2>2 DEF LedgerInv
<1>9. CASE HaltFlags \/ StopHardEnd \/ StartCycle \/ Request \/ RequestLost
           \/ RequestUnbilled \/ RecordRequest \/ FreezeFails \/ UNCHANGED vars
  BY <1>9 DEF HaltFlags, StopHardEnd, Startable, StartCycle, Request, RequestLost,
     RequestUnbilled, RecordRequest, FreezeFails, vars, cycleVars, fileVars, LedgerInv
<1> QED BY <1>2, <1>3, <1>4, <1>5, <1>6, <1>7, <1>8, <1>9 DEF Next, Cycle, Fetcher, Freezer

\* Whatever fails, the rows on file precede their kickoff, come from a snapshot that
\* was taken before them, and are filed under distinct keys.
THEOREM LedgerIsSound == Spec => []LedgerSound
<1>1. LedgerInv => LedgerSound
  BY DEF LedgerInv, RowsSound, LedgerSound, Ledger!LedgerSound
<1> QED BY TypeCorrect, LedgerInit, LedgerNext, <1>1, PTL DEF Spec

\* When no cycle is killed the prediction CSV implements the append-only ledger:
\* no row is ever lost or altered, and only admissible rows under fresh keys enter.
THEOREM LedgerImplemented ==
  ASSUME "kill" \notin FaultKinds
  PROVE  Spec => LedgerSpec
<1>1. Init => Ledger!Init
  BY DEF Init, Ledger!Init, Ledger!KeysUnique
<1>2. LedgerInv /\ LedgerInv' /\ [Next]_vars => [Ledger!Extend]_(pred.rows)
  <2> SUFFICES ASSUME LedgerInv, LedgerInv', [Next]_vars, pred'.rows # pred.rows
               PROVE  Ledger!Extend
    OBVIOUS
  <2>1. pred' # pred
    OBVIOUS
  <2>2. FreezeWrite
    BY <2>1 DEF Next, Cycle, Fetcher, Freezer, HaltFlags, StopHardEnd, StartCycle, EndCycle,
       FetchCheck, Request, RequestLost, RequestUnbilled, RecordRequest, WriteRaw, FreezeRead,
       FreezeFails, Kill, Fault, Minute, NextInterval, vars, fileVars
  <2>3. pred.rows \subseteq pred'.rows
    BY <2>2 DEF FreezeWrite, LedgerInv
  <2> QED BY <2>3 DEF Ledger!Extend, LedgerInv, RowsSound
<1> QED BY <1>1, <1>2, TypeCorrect, LedgerInit, LedgerNext, PTL DEF Spec, LedgerSpec, Ledger!Spec

-----------------------------------------------------------------------------
(* Where the market rows come from *)

\* The rows on file and in memory took their market from where they say.
AllBacked(S) == \A r \in S : Backed(r)

\* Snapshots on disk are never removed, so a backed set of rows stays backed.
LEMMA BackedStays ==
  ASSUME NEW S, AllBacked(S), raw \subseteq raw'
  PROVE  \A r \in S : Backed(r)'
BY DEF AllBacked, Backed

LEMMA RawGrows == [Next]_vars => raw \subseteq raw'
BY DEF Next, Cycle, Fetcher, Freezer, HaltFlags, StopHardEnd, StartCycle, EndCycle, FetchCheck,
   Request, RequestLost, RequestUnbilled, RecordRequest, WriteRaw, FreezeRead, FreezeFails,
   FreezeWrite, Kill, Minute, NextInterval, vars, fileVars

\* A freeze counts the bookmakers of the file it has read, and else asks the targets.
LEMMA NewRowsBacked ==
  ASSUME TypeOK, Source.ok
  PROVE  AllBacked(NewRows)
<1> SUFFICES ASSUME NEW r \in NewRows PROVE Backed(r)
  BY DEF AllBacked
<1>1. /\ r.snap = Source.stamp /\ r.books = (r.match \in Source.quotes)
      /\ r.model = "market" => r.match \in HasMarket
  BY DEF NewRows, Frozen
<1>2. CASE r.match \in Source.quotes
  <2>1. Source \in raw
    BY <1>2, SourceType DEF TypeOK, NoSnapshot
  <2> QED BY <1>1, <1>2, <2>1 DEF Backed
<1>3. CASE r.match \notin Source.quotes
  BY <1>1, <1>3 DEF Backed, HasMarket
<1> QED BY <1>2, <1>3

LEMMA BackedNext ==
  TypeOK /\ AllBacked(pred.rows) /\ AllBacked(merged) /\ [Next]_vars
    => AllBacked(pred.rows)' /\ AllBacked(merged)'
<1> SUFFICES ASSUME TypeOK, AllBacked(pred.rows), AllBacked(merged), [Next]_vars
             PROVE  AllBacked(pred.rows)' /\ AllBacked(merged)'
  OBVIOUS
<1>1. raw \subseteq raw'
  BY RawGrows
<1>2. ASSUME NEW S, AllBacked(S)
      PROVE  \A r \in S : Backed(r)'
  BY <1>1, <1>2, BackedStays
<1>3. CASE FreezeRead
  <2>1. raw' = raw /\ pred' = pred /\ merged' = FirstWins(pred.rows, NewRows)
    BY <1>3 DEF FreezeRead, fileVars
  <2>2. AllBacked(NewRows)
    BY <1>3, NewRowsBacked DEF FreezeRead
  <2>3. AllBacked(FirstWins(pred.rows, NewRows))
    BY <2>2 DEF FirstWins, AllBacked
  <2> QED BY <1>2, <2>1, <2>3 DEF AllBacked
<1>4. CASE FreezeWrite
  <2>1. pred'.rows = merged /\ merged' = merged
    BY <1>4 DEF FreezeWrite
  <2> QED BY <1>2, <2>1 DEF AllBacked
<1>5. CASE Kill
  <2>1. merged' = {}
    BY <1>5 DEF Kill, Exit
  <2>2. \/ pred' = pred
        \/ pred' = [state |-> "empty", rows |-> {}]
        \/ \E S \in CutOff(merged) : pred' = [state |-> "ok", rows |-> S]
    BY <1>5, Zenon DEF Kill
  <2>3. pred'.rows \subseteq pred.rows \/ pred'.rows \subseteq merged
    BY <2>2 DEF CutOff
  <2> QED BY <1>2, <2>1, <2>3 DEF AllBacked
<1>6. CASE EndCycle
  <2>1. merged' = {} /\ pred' = pred
    BY <1>6 DEF EndCycle, Exit
  <2> QED BY <1>2, <2>1 DEF AllBacked
<1>7. CASE UNCHANGED <<pred, merged>>
  BY <1>2, <1>7 DEF AllBacked
<1> QED
  BY <1>3, <1>4, <1>5, <1>6, <1>7 DEF Next, Cycle, Fetcher, Freezer, HaltFlags, StopHardEnd,
     StartCycle, FetchCheck, Request, RequestLost, RequestUnbilled, RecordRequest, WriteRaw,
     FreezeFails, Minute, NextInterval, vars, cycleVars, fileVars

\* Whatever fails, no row on file counts bookmakers of a snapshot that was never
\* received, was cut while it was written or does not quote the fixture, and no other
\* market row is of a fixture the targets do not price (live_2026_shadow.py:108-118).
THEOREM SnapshotsExist == Spec => []RowsHaveSnapshot
<1>1. Init => AllBacked(pred.rows) /\ AllBacked(merged)
  BY DEF Init, AllBacked
<1>2. AllBacked(pred.rows) => RowsHaveSnapshot
  BY DEF AllBacked, RowsHaveSnapshot
<1> QED BY <1>1, <1>2, BackedNext, TypeCorrect, PTL DEF Spec

\* As long as nothing fails the provider is never charged beyond the ceiling.
THEOREM CeilingWithoutFaults ==
  ASSUME MaxFaults = 0
  PROVE  Spec => []HardCeiling
<1>1. TypeOK /\ DamageBound => HardCeiling
  BY BoundsAssumption DEF TypeOK, DamageBound, HardCeiling
<1> QED BY <1>1, TypeCorrect, DamageIsBounded, PTL

-----------------------------------------------------------------------------
(* The ten-minute floor *)

\* What keeps two requests apart while every request is recorded: the budget file
\* holds the latest one, and the fetcher has seen that it is old enough.
SpacingInv ==
  /\ budget.ok
  /\ pc = "http" => now - budget.last >= MinInterval
  /\ charged <= (IF pc = "record" THEN now ELSE budget.last)
  /\ gap >= MinInterval

LEMMA SpacingNext ==
  ASSUME FaultKinds \cap {"lost", "kill"} = {}
  PROVE  BudgetInv /\ SpacingInv /\ [Next]_vars => SpacingInv'
<1> SUFFICES ASSUME BudgetInv, SpacingInv, [Next]_vars PROVE SpacingInv'
  OBVIOUS
<1>0. /\ Loaded(budget) = budget /\ budget.last \in Int
      /\ now \in Int /\ charged \in Int /\ gap \in Int
      /\ pc \in {"http", "record"} => mem = budget
  BY DEF BudgetInv, TypeOK, FetcherHoldsBudget, BudgetState, Minutes, SpacingInv, Loaded
<1>1. ASSUME FetchCheck PROVE SpacingInv'
  BY <1>0, <1>1 DEF FetchCheck, CanRequest, SpacingInv, fileVars, extVars
<1>2. ASSUME Request PROVE SpacingInv'
  BY <1>0, <1>2 DEF Request, Charge, SpacingInv, fileVars, MinInterval
<1>3. ASSUME RecordRequest PROVE SpacingInv'
  BY <1>0, <1>3 DEF RecordRequest, Recorded, SpacingInv, extVars
<1>4. ASSUME Minute \/ NextInterval PROVE SpacingInv'
  <2>1. now <= now' /\ now' \in Int
    BY <1>0, <1>4 DEF Minute, NextInterval, Interval
  <2>2. UNCHANGED <<pc, budget, charged, gap>>
    BY <1>4 DEF Minute, NextInterval, cycleVars, fileVars, extVars
  <2> QED BY <1>0, <2>1, <2>2 DEF SpacingInv, MinInterval
<1>5. ASSUME UNCHANGED <<now, budget, charged, gap>>, pc' # "http", pc # "record", pc' # "record"
      PROVE  SpacingInv'
  BY <1>5 DEF SpacingInv
<1>6. CASE UNCHANGED vars
  BY <1>6 DEF SpacingInv, vars, cycleVars, fileVars, extVars
<1>7. ~RequestLost /\ ~Kill
  BY DEF RequestLost, Kill, Fault
<1>8. ASSUME Cycle PROVE SpacingInv'
  BY <1>5, <1>8 DEF Cycle, HaltFlags, StopHardEnd, Startable, StartCycle, EndCycle, Exit,
     cycleVars, fileVars, extVars
<1>9. ASSUME RequestUnbilled \/ WriteRaw \/ Freezer PROVE SpacingInv'
  BY <1>5, <1>9 DEF RequestUnbilled, WriteRaw, Freezer, FreezeRead, FreezeFails, FreezeWrite,
     fileVars, extVars
<1> QED BY <1>1, <1>2, <1>3, <1>4, <1>6, <1>7, <1>8, <1>9 DEF Next, Fetcher

\* As long as every request that is charged is also recorded - no request is lost on
\* its way back, no cycle is killed - requests are ten minutes apart
\* (fetch_odds_live_2026.py:2).  One lost answer breaks it: the next cycle knows
\* nothing of the request.
THEOREM RequestsAreSpaced ==
  ASSUME FaultKinds \cap {"lost", "kill"} = {}
  PROVE  Spec => []SpacedRequests
<1>1. Init => SpacingInv
  <2> SUFFICES ASSUME Init PROVE SpacingInv
    OBVIOUS
  <2>1. budget.ok /\ budget.last = InitialLast /\ charged = InitialLast /\ gap = MinInterval
          /\ pc = "idle"
    BY DEF Init
  <2> QED BY <2>1, BoundsAssumption DEF SpacingInv, MinInterval
<1>2. SpacingInv => SpacedRequests
  BY DEF SpacingInv, SpacedRequests
<1> QED BY <1>1, <1>2, BudgetInvariant, SpacingNext, PTL DEF Spec

-----------------------------------------------------------------------------
(* One cycle in every interval *)

\* The latest cycle started at a multiple of the interval; the clock is within its
\* Slow minutes while it runs, and at the next start at the latest once it is over.
Timing ==
  /\ started % Interval = 0 /\ -Interval <= started /\ started <= now
  /\ IF pc = "idle" THEN now <= started + Interval ELSE 0 <= started /\ now <= started + Slow

\* Fixtures that need a prediction, each with one among the rows.
Predicted(rows) == \A m \in Matches : Interval < Kickoff[m] /\ Kickoff[m] <= HardEnd
                     => \E r \in rows : r.match = m /\ r.model = "M1_B1"

\* The very first cycle predicts every fixture, nothing freeze reads is unreadable,
\* and later cycles keep the rows.
Predicting ==
  /\ \A f \in raw : f.ok
  /\ pc = "write" => Predicted(merged)
  /\ (\/ pred.state = "empty"
      \/ Interval <= started
      \/ 0 <= started /\ pc \in {"report", "idle"})
     => Predicted(pred.rows)

\* The clock and the scheduler alone: whatever fails, each interval's cycle is over
\* before the next one starts.
LEMMA TimingNext == TypeOK /\ Timing /\ [Next]_vars => Timing'
<1> SUFFICES ASSUME TypeOK, Timing, [Next]_vars PROVE Timing'
  OBVIOUS
<1> USE BoundsAssumption DEF TypeOK, Timing, Interval
<1>1. CASE HaltFlags \/ StopHardEnd \/ StartCycle
  BY <1>1 DEF HaltFlags, StopHardEnd, StartCycle, Startable, cycleVars
<1>2. CASE EndCycle \/ Kill
  <2>1. pc # "idle" /\ pc' = "idle" /\ now' = now /\ started' = started
    BY <1>2 DEF EndCycle, Kill, Exit
  <2> QED BY <2>1
<1>3. CASE Minute
  BY <1>3 DEF Minute, cycleVars
<1>4. CASE NextInterval
  <2>1. now' = now + 5 - (now % 5) /\ started' = started /\ pc' = pc /\ pc = "idle"
    BY <1>4 DEF NextInterval, cycleVars
  <2>2. (now % 5 = 0 => started = now) /\ started % 5 = 0 /\ started <= now /\ now <= started + 5
    BY <1>4 DEF NextInterval
  <2> QED BY <2>1, <2>2
<1>5. CASE UNCHANGED <<now, started>> /\ pc # "idle" /\ pc' # "idle"
  BY <1>5
<1>6. CASE UNCHANGED vars
  BY <1>6 DEF vars, cycleVars
<1> QED
  BY <1>1, <1>2, <1>3, <1>4, <1>5, <1>6 DEF Next, Cycle, Fetcher, Freezer, FetchCheck, Request,
     RequestLost, RequestUnbilled, RecordRequest, WriteRaw, FreezeRead, FreezeFails, FreezeWrite

\* A step that leaves the count of faults at zero is none of the faults.
LEMMA NoFaultHappened ==
  ASSUME TypeOK, faults' = 0
  PROVE  ~HaltFlags /\ ~Kill /\ ~RequestLost /\ ~RequestUnbilled
<1>1. faults' # faults + 1
  BY DEF TypeOK
<1>2. ~Fault("halt") /\ ~Fault("kill") /\ ~Fault("lost") /\ ~Fault("unbilled")
  BY <1>1 DEF Fault
<1> QED BY <1>2 DEF HaltFlags, Kill, RequestLost, RequestUnbilled

\* Rows frozen now, behind the old ones, predict what is still to come.
LEMMA FreezePredicts ==
  ASSUME NEW old
  PROVE  /\ Predicted(old) => Predicted(FirstWins(old, NewRows))
         /\ TypeOK /\ now < Interval => Predicted(FirstWins(old, NewRows))
<1>1. Predicted(old) => Predicted(FirstWins(old, NewRows))
  BY DEF Predicted, FirstWins
<1>2. ASSUME TypeOK, now < Interval, NEW m \in Matches, Interval < Kickoff[m]
      PROVE  \E r \in FirstWins(old, NewRows) : r.match = m /\ r.model = "M1_B1"
  <2> DEFINE row == Frozen(m, "M1_B1")
  <2>1. Kickoff[m] > now
    BY <1>2, KickoffAssumption DEF TypeOK, Interval
  <2>2. row \in NewRows /\ row.match = m /\ row.model = "M1_B1"
    BY <2>1 DEF NewRows, Frozen, Unplayed
  <2> HIDE DEF row
  <2>3. CASE \A o \in old : Key(o) # Key(row)
    <3>1. row \in FirstWins(old, NewRows)
      BY <2>2, <2>3 DEF FirstWins
    <3> QED BY <2>2, <3>1
  <2>4. CASE \E o \in old : Key(o) = Key(row)
    BY <2>2, <2>4 DEF FirstWins, Key
  <2> QED BY <2>3, <2>4
<1> QED BY <1>1, <1>2 DEF Predicted

LEMMA PredictingNext ==
  ASSUME TypeOK, Timing, Predicting, [Next]_vars, faults' = 0
  PROVE  Predicting'
<1> USE BoundsAssumption
<1>0. now \in Int /\ started \in Int /\ ~HaltFlags /\ ~Kill /\ ~RequestLost /\ ~RequestUnbilled
  BY NoFaultHappened DEF TypeOK
<1>1. ASSUME StopHardEnd PROVE Predicting'
  <2>1. started' = now /\ now > HardEnd /\ pc = "idle" /\ started < now
        /\ UNCHANGED <<pc, raw, pred, merged>>
    BY <1>1 DEF StopHardEnd, Startable, cycleVars
  <2>2. CASE started < 0
    <3>1. HardEnd < Interval
      BY <1>0, <2>1, <2>2 DEF Timing, Interval
    <3>2. Predicted(pred.rows)
      BY <3>1, KickoffAssumption DEF Predicted, Interval
    <3> QED BY <2>1, <3>2 DEF Predicting, Predicted
  <2>3. CASE 0 <= started
    BY <2>1, <2>3 DEF Predicting, Predicted
  <2> QED BY <1>0, <2>2, <2>3
<1>2. ASSUME StartCycle PROVE Predicting'
  <2>1. started' = now /\ pc = "idle" /\ pc' \in {"fetch", "freeze"} /\ started < now
        /\ UNCHANGED <<raw, pred, merged>>
    BY <1>2 DEF StartCycle, Startable, fileVars
  <2>2. Interval <= now => 0 <= started
    BY <1>0, <2>1 DEF Timing, Interval
  <2> QED BY <2>1, <2>2 DEF Predicting, Predicted
<1>3. ASSUME EndCycle PROVE Predicting'
  BY <1>3 DEF EndCycle, Exit, Predicting, Predicted
<1>4. ASSUME WriteRaw PROVE Predicting'
  BY <1>4 DEF WriteRaw, Snapshot, Predicting, Predicted
<1>5. ASSUME FreezeRead PROVE Predicting'
  <2>1. merged' = FirstWins(pred.rows, NewRows) /\ pc = "freeze" /\ pc' = "write"
        /\ UNCHANGED <<started, raw, pred>>
    BY <1>5 DEF FreezeRead, fileVars
  <2>2. Predicted(FirstWins(pred.rows, NewRows))
    <3>1. CASE Interval <= started
      BY <3>1, FreezePredicts DEF Predicting
    <3>2. CASE started < Interval
      <4>1. now < Interval
        BY <1>0, <2>1, <3>2 DEF Timing, Interval
      <4> QED BY <4>1, FreezePredicts
    <3> QED BY <1>0, <3>1, <3>2 DEF Interval
  <2> QED BY <2>1, <2>2 DEF Predicting, Predicted
<1>6. ASSUME FreezeFails PROVE Predicting'
  <2>1. pc' = "report" /\ UNCHANGED <<started, raw, pred, merged>>
        /\ ~(Source.ok /\ pred.state # "empty")
    BY <1>6 DEF FreezeFails, fileVars
  <2>2. Source.ok
    BY SourceType DEF TypeOK, Predicting, NoSnapshot
  <2> QED BY <2>1, <2>2 DEF Predicting, Predicted
<1>7. ASSUME FreezeWrite PROVE Predicting'
  BY <1>7 DEF FreezeWrite, Predicting, Predicted
<1>8. CASE UNCHANGED <<started, raw, pred, merged>> /\ pc \notin {"report", "idle"}
             /\ pc' \notin {"write", "report", "idle"}
  BY <1>8 DEF Predicting, Predicted
<1>9. CASE UNCHANGED <<started, pc, raw, pred, merged>>
  BY <1>9 DEF Predicting, Predicted
<1> QED
  BY <1>0, <1>1, <1>2, <1>3, <1>4, <1>5, <1>6, <1>7, <1>8, <1>9 DEF Next, Cycle, Fetcher, Freezer,
     FetchCheck, Request, RecordRequest, Minute, NextInterval, vars, cycleVars, fileVars

-----------------------------------------------------------------------------
(* The windows *)

\* A start in the window of a fixture, where the type due is not the sparse baseline.
Pressing(s) == \E m \in Matches : Kickoff[m] - s \in 10..20 \/ Kickoff[m] - s \in 80..100

\* The start of the interval a minute belongs to.
Begun(t) == t - (t % Interval)

\* What a cycle that started at s in a window leaves: no credit, or a snapshot not
\* older than the floor (or a request from before the run that is not).
Served(s) == \/ budget.used = MaxCredits
             \/ s - InitialLast < MinInterval
             \/ \E f \in raw : f.stamp \in (s - MinInterval)..(s + Slow)

Fetching == {"fetch", "http", "record", "raw"}

WindowInv ==
  /\ budget.ok
  /\ pc = "fetch" => CanRequest(budget)
  /\ pc \in {"http", "record", "raw"} => started <= stamp /\ stamp <= now
  /\ IF pc = "raw" THEN stamp <= budget.last /\ budget.last <= now
     ELSE \/ budget.last = InitialLast
          \/ \E f \in raw : f.stamp <= budget.last /\ budget.last <= Begun(f.stamp) + Slow
  /\ \A s \in 0..HardEnd :
       s % Interval = 0 /\ Pressing(s) /\ s <= started /\ (s = started => pc \notin Fetching)
         => Served(s)

CleanInv == faults = 0 => Timing /\ Predicting /\ WindowInv

\* A request recorded less than ten minutes before a start was stamped by one of the
\* two cycles before it, so ten minutes before it at the earliest.
LEMMA OneCycleBack ==
  ASSUME NEW f \in Int, NEW last \in Int, NEW t \in Int, t % Interval = 0, t - last < 10,
         last <= Begun(f) + Slow
  PROVE  t - 10 <= f
<1>1. /\ f = 5 * (f \div 5) + (f % 5) /\ 0 <= (f % 5) /\ (f % 5) < 5 /\ (f \div 5) \in Int
      /\ t = 5 * (t \div 5) /\ (t \div 5) \in Int
  BY DEF Interval
<1>2. Begun(f) = 5 * (f \div 5)
  BY <1>1 DEF Begun, Interval
<1>3. 5 * (t \div 5) - 14 < 5 * (f \div 5)
  BY <1>1, <1>2, BoundsAssumption DEF Interval
<1>4. (t \div 5) - 2 <= (f \div 5)
  BY <1>1, <1>3
<1> QED BY <1>1, <1>4

\* What has been served stays served: snapshots stay, and so does a spent budget.
LEMMA ServedStays ==
  ASSUME NEW s \in Int, Served(s), raw \subseteq raw',
         budget.used = MaxCredits => budget'.used = MaxCredits
  PROVE  Served(s)'
BY DEF Served

\* A cycle that starts in a window and may not ask has had its snapshot, or the
\* credits are gone.
LEMMA BlockedIsServed ==
  ASSUME TypeOK, LedgerInv, WindowInv, pc = "idle", now % Interval = 0, ~CanRequest(budget)
  PROVE  Served(now)
<1> USE BoundsAssumption
<1>0. now \in Int /\ budget.used \in 0..MaxCredits /\ budget.last \in Int
  BY DEF TypeOK, BudgetState, Minutes
<1>1. CASE budget.used = MaxCredits
  BY <1>1 DEF Served
<1>2. CASE budget.last = InitialLast /\ now - budget.last < MinInterval
  BY <1>2 DEF Served
<1>3. CASE /\ now - budget.last < MinInterval
           /\ \E f \in raw : f.stamp <= budget.last /\ budget.last <= Begun(f.stamp) + Slow
  <2>1. PICK f \in raw : f.stamp <= budget.last /\ budget.last <= Begun(f.stamp) + Slow
    BY <1>3
  <2>2. f.stamp \in Int /\ f.stamp <= now
    BY DEF TypeOK, SnapshotFile, Minutes, LedgerInv
  <2>3. now - MinInterval <= f.stamp
    BY <1>0, <1>3, <2>1, <2>2, OneCycleBack DEF MinInterval
  <2> QED BY <1>0, <2>2, <2>3 DEF Served, MinInterval
<1>4. budget.used = MaxCredits \/ now - budget.last < MinInterval
  BY <1>0 DEF CanRequest, MinInterval
<1> QED BY <1>1, <1>2, <1>3, <1>4 DEF WindowInv

\* Between two starts there is no other.
LEMMA NoStartBetween ==
  ASSUME NEW s \in Int, NEW t \in Int, s % Interval = 0, t % Interval = 0, s < t + Interval
  PROVE  s <= t
BY DEF Interval

\* A minute of a cycle belongs to the interval of its start.
LEMMA BegunInCycle ==
  ASSUME NEW s \in Int, NEW t \in Int, s % Interval = 0, s <= t, t <= s + Slow
  PROVE  Begun(t) = s
BY BoundsAssumption DEF Begun, Interval

\* In a window something better than the sparse baseline is due.
LEMMA PressingIsDue ==
  ASSUME TypeOK, Pressing(now)
  PROVE  SnapshotDue(budget)
<1>1. PICK m \in Matches : Kickoff[m] - now \in 10..20 \/ Kickoff[m] - now \in 80..100
  BY DEF Pressing
<1>2. m \in Upcoming
  BY <1>1, KickoffAssumption DEF TypeOK, Upcoming, MinutesTo
<1>3. DueType # "baseline"
  BY <1>1, <1>2 DEF DueType, MinutesTo
<1> QED BY <1>2, <1>3 DEF SnapshotDue

LEMMA WindowNext ==
  ASSUME BudgetInv, LedgerInv, Timing, WindowInv, [Next]_vars, faults' = 0
  PROVE  WindowInv'
<1> USE BoundsAssumption
<1> DEFINE Over(s) == s % Interval = 0 /\ Pressing(s) /\ s <= started
                        /\ (s = started => pc \notin Fetching)
<1>0. /\ TypeOK /\ now \in Int /\ started \in Int /\ stamp \in Int
      /\ budget.used \in 0..MaxCredits /\ budget.last \in Int /\ Loaded(budget) = budget
      /\ ~HaltFlags /\ ~Kill /\ ~RequestLost /\ ~RequestUnbilled
  BY NoFaultHappened DEF BudgetInv, TypeOK, BudgetState, Minutes, WindowInv, Loaded
<1>1. ASSUME StopHardEnd PROVE WindowInv'
  <2>1. /\ now % Interval = 0 /\ started < now /\ HardEnd < now /\ started' = now
        /\ pc = "idle" /\ UNCHANGED <<pc, now, stamp, raw, budget>>
    BY <1>1 DEF StopHardEnd, Startable, cycleVars
  <2>2. ASSUME NEW s \in 0..HardEnd, Over(s)' PROVE Served(s)'
    <3>1. s \in Int /\ s % Interval = 0 /\ s < now /\ now <= started + Interval
            /\ started % Interval = 0 /\ Pressing(s)
      BY <1>0, <2>1, <2>2 DEF Timing, Pressing
    <3>2. s <= started
      BY <1>0, <3>1, NoStartBetween DEF Interval
    <3>3. Served(s)
      BY <2>1, <3>1, <3>2 DEF WindowInv, Fetching
    <3> QED BY <2>1, <3>3 DEF Served
  <2> QED BY <2>1, <2>2 DEF WindowInv
<1>2. ASSUME StartCycle PROVE WindowInv'
  <2>1. /\ now % Interval = 0 /\ started < now /\ started' = now
        /\ pc = "idle" /\ UNCHANGED <<now, stamp, raw, budget>>
        /\ IF SnapshotDue(budget) /\ CanRequest(budget) THEN pc' = "fetch" ELSE pc' = "freeze"
    BY <1>0, <1>2 DEF StartCycle, Startable, fileVars
  <2>2. ASSUME NEW s \in 0..HardEnd, Over(s)' PROVE Served(s)'
    <3>1. s \in Int /\ s % Interval = 0 /\ s <= now /\ (s = now => pc' \notin Fetching)
            /\ Pressing(s) /\ now <= started + Interval /\ started % Interval = 0
      BY <1>0, <2>1, <2>2 DEF Timing, Pressing
    <3>2. CASE s = now
      <4>1. ~CanRequest(budget)
        BY <1>0, <2>1, <3>1, <3>2, PressingIsDue DEF Fetching
      <4>2. Served(now)
        BY <1>0, <2>1, <4>1, BlockedIsServed
      <4> QED BY <2>1, <3>2, <4>2 DEF Served
    <3>3. CASE s < now
      <4>1. s <= started
        BY <1>0, <3>1, <3>3, NoStartBetween DEF Interval
      <4>2. Served(s)
        BY <2>1, <3>1, <4>1 DEF WindowInv, Fetching
      <4> QED BY <2>1, <4>2 DEF Served
    <3> QED BY <1>0, <3>1, <3>2, <3>3
  <2>3. pc' = "fetch" => CanRequest(budget)'
    BY <2>1 DEF CanRequest
  <2> QED BY <2>1, <2>2, <2>3 DEF WindowInv
<1>3. ASSUME FetchCheck PROVE WindowInv'
  <2>1. /\ pc = "fetch" /\ pc' = "http" /\ stamp' = now /\ UNCHANGED <<now, started, raw, budget>>
    BY <1>0, <1>3 DEF FetchCheck, WindowInv, fileVars
  <2>2. started <= now
    BY DEF Timing
  <2> QED BY <1>0, <2>1, <2>2 DEF WindowInv, Served, Fetching
<1>4. ASSUME Request PROVE WindowInv'
  BY <1>0, <1>4 DEF Request, WindowInv, Served, Fetching, fileVars
<1>5. ASSUME RecordRequest PROVE WindowInv'
  <2>1. /\ pc = "record" /\ pc' = "raw" /\ UNCHANGED <<now, started, stamp, raw>>
        /\ budget' = [ok |-> TRUE, used |-> budget.used + 1, last |-> now]
        /\ budget.used # MaxCredits
    BY <1>0, <1>5 DEF RecordRequest, Recorded, BudgetInv, FetcherHoldsBudget
  <2>2. ASSUME NEW s \in 0..HardEnd, Over(s)' PROVE Served(s)'
    <3>1. Served(s)
      BY <2>1, <2>2 DEF WindowInv, Fetching, Pressing
    <3> QED BY <2>1, <3>1, ServedStays
  <2>3. started <= stamp /\ stamp <= now
    BY <2>1 DEF WindowInv
  <2>4. /\ budget'.ok /\ budget'.last = now /\ pc' = "raw"
        /\ started' <= stamp' /\ stamp' <= now' /\ now' = now
    BY <2>1, <2>3
  <2>5. stamp' <= budget'.last /\ budget'.last <= now'
    BY <1>0, <2>4
  <2> QED BY <2>2, <2>4, <2>5 DEF WindowInv
<1>6. ASSUME WriteRaw PROVE WindowInv'
  <2>0. PICK quotes \in Answers : raw' = raw \cup {Snapshot(TRUE, quotes)}
    BY <1>6 DEF WriteRaw
  <2> DEFINE f == Snapshot(TRUE, quotes)
  <2>1. /\ pc = "raw" /\ pc' = "freeze" /\ raw' = raw \cup {f}
        /\ UNCHANGED <<now, started, stamp, budget>>
    BY <1>6, <2>0 DEF WriteRaw
  <2>2. /\ f.stamp = stamp /\ f \in raw' /\ started <= stamp /\ stamp <= started + Slow
        /\ stamp <= budget.last /\ budget.last <= started + Slow
    BY <1>0, <2>1 DEF WindowInv, Timing, Snapshot
  <2>3. Begun(f.stamp) = started
    BY <1>0, <2>2, BegunInCycle DEF Timing
  <2>4. \E g \in raw' : g.stamp <= budget'.last /\ budget'.last <= Begun(g.stamp)' + Slow
    BY <2>1, <2>2, <2>3 DEF Begun
  <2>5. ASSUME NEW s \in 0..HardEnd, Over(s)' PROVE Served(s)'
    <3>1. CASE s = started
      <4> HIDE DEF f
      <4>0. started - 10 <= stamp /\ stamp <= started + Slow
        BY <1>0, <2>2
      <4>1. f \in raw' /\ s - 10 <= f.stamp /\ f.stamp <= s + Slow /\ f.stamp \in Int
        BY <1>0, <2>2, <3>1, <4>0
      <4>2. \E g \in raw' : g.stamp \in (s - MinInterval)..(s + Slow)
        BY <1>0, <4>1 DEF MinInterval
      <4> QED BY <4>2 DEF Served
    <3>2. CASE s # started
      <4>1. Served(s)
        BY <2>1, <2>5, <3>2 DEF WindowInv, Pressing
      <4>2. raw \subseteq raw' /\ budget' = budget
        BY <2>1
      <4> QED BY <4>1, <4>2, ServedStays
    <3> QED BY <3>1, <3>2
  <2> QED BY <2>1, <2>4, <2>5 DEF WindowInv
<1>7. ASSUME UNCHANGED <<now, started, raw, budget>>, pc \notin Fetching, pc' \notin Fetching
      PROVE  WindowInv'
  BY <1>7 DEF WindowInv, Served, Pressing, Fetching
<1>8. ASSUME Minute \/ NextInterval PROVE WindowInv'
  <2>1. now <= now' /\ now' \in Int
    BY <1>0, <1>8 DEF Minute, NextInterval, Interval
  <2>2. UNCHANGED <<started, pc, stamp, raw, budget>>
    BY <1>8 DEF Minute, NextInterval, cycleVars, fileVars
  <2>3. CanRequest(budget) => CanRequest(budget)'
    BY <1>0, <2>1, <2>2 DEF CanRequest, MinInterval
  <2> QED BY <1>0, <2>1, <2>2, <2>3 DEF WindowInv, Served, Pressing
<1>9. ASSUME EndCycle \/ Freezer PROVE WindowInv'
  BY <1>7, <1>9 DEF EndCycle, Exit, Freezer, FreezeRead, FreezeFails, FreezeWrite, fileVars,
     Fetching
<1>10. CASE UNCHANGED vars
  BY <1>10 DEF WindowInv, Served, Pressing, CanRequest, vars, cycleVars, fileVars
<1> QED BY <1>0, <1>1, <1>2, <1>3, <1>4, <1>5, <1>6, <1>8, <1>9, <1>10
       DEF Next, Cycle, Fetcher

LEMMA CleanInit == Init => CleanInv
<1> SUFFICES ASSUME Init PROVE CleanInv
  OBVIOUS
<1> USE BoundsAssumption
<1>1. /\ now = 0 /\ started = -Interval /\ pc = "idle" /\ raw = {} /\ pred.state = "absent"
      /\ budget.ok /\ budget.last = InitialLast
  BY DEF Init
<1>2. Timing
  BY <1>1 DEF Timing, Interval
<1>3. Predicting
  BY <1>1 DEF Predicting, Interval
<1>4. WindowInv
  BY <1>1 DEF WindowInv, Interval
<1> QED BY <1>2, <1>3, <1>4 DEF CleanInv

LEMMA CleanNext == BudgetInv /\ LedgerInv /\ CleanInv /\ [Next]_vars => CleanInv'
<1> SUFFICES ASSUME BudgetInv, LedgerInv, CleanInv, [Next]_vars, faults' = 0
             PROVE  (Timing /\ Predicting /\ WindowInv)'
  BY DEF CleanInv
<1>1. TypeOK
  BY DEF BudgetInv
<1>2. faults = 0
  BY <1>1, NoFaultHappened DEF Next, Cycle, Fetcher, Freezer, StopHardEnd, StartCycle, EndCycle,
     FetchCheck, Request, RecordRequest, WriteRaw, FreezeRead, FreezeFails, FreezeWrite, Minute,
     NextInterval, vars
<1>3. Timing /\ Predicting /\ WindowInv
  BY <1>2 DEF CleanInv
<1> QED BY <1>1, <1>3, TimingNext, PredictingNext, WindowNext

\* The inductive invariant of a run without faults.
THEOREM CleanInvariant == Spec => []CleanInv
<1>1. BudgetInv => TypeOK
  BY DEF BudgetInv
<1> QED BY <1>1, BudgetInvariant, LedgerInit, LedgerNext, CleanInit, CleanNext, PTL DEF Spec

\* As long as nothing fails no fixture kicks off without a prediction on file: the
\* first cycle predicts them all, and what freeze reads never stops a later one.
THEOREM EveryMatchPredicted == Spec => []NoMatchMissed
<1>1. TypeOK /\ CleanInv => NoMatchMissed
  <2> SUFFICES ASSUME TypeOK, Timing, Predicting, NEW m \in Matches,
                      Interval < Kickoff[m], Kickoff[m] <= now, Kickoff[m] <= HardEnd
               PROVE  \E r \in pred.rows : r.match = m /\ r.model = "M1_B1"
    BY DEF CleanInv, NoMatchMissed
  <2>1. Interval < now /\ now \in Int /\ started \in Int
    BY KickoffAssumption DEF TypeOK, Interval
  <2>2. Interval <= started \/ (0 <= started /\ pc = "idle")
    BY <2>1, BoundsAssumption DEF Timing, Interval
  <2> QED BY <2>2 DEF Predicting, Predicted
<1> QED BY <1>1, TypeCorrect, CleanInvariant, PTL

\* The latest start in a stretch of five minutes.
LEMMA AStartEveryInterval ==
  ASSUME NEW t \in Int
  PROVE  Begun(t) \in Int /\ Begun(t) % Interval = 0 /\ t - 5 < Begun(t) /\ Begun(t) <= t
BY DEF Begun, Interval

\* "The valuable T-90/T-15 windows always fire (subject to the 10-min hard floor)"
\* (shadow_collector_cycle.py:91-92), as long as nothing fails.  In each window one
\* start decides: the last one of the T-15 window, and one ten minutes or more into
\* the T-90 window, which only a request inside the window can hold up.
THEOREM EveryWindowFires == Spec => []WindowsFire
<1>1. TypeOK /\ LedgerInv /\ CleanInv => WindowsFire
  <2> SUFFICES ASSUME TypeOK, LedgerInv, Timing, WindowInv, NEW m \in Matches
               PROVE  /\ Fires(Kickoff[m] - 100, Kickoff[m] - 80, FALSE)
                      /\ Fires(Kickoff[m] - 20, Kickoff[m] - 10,
                               Requested(Kickoff[m] - 20 - Interval, Kickoff[m] - 21))
    BY DEF CleanInv, WindowsFire
  <2> USE BoundsAssumption
  <2> DEFINE K == Kickoff[m]
  <2>0. K \in Int /\ now \in Int /\ started \in Int /\ \A f \in raw : f.stamp \in Int
    BY KickoffAssumption DEF TypeOK, SnapshotFile, Minutes
  <2>1. ASSUME NEW s \in Int, s % Interval = 0, 10 <= s, s <= HardEnd, s + Interval <= now,
               K - s \in 10..20 \/ K - s \in 80..100
        PROVE  \/ budget.used = MaxCredits
               \/ \E f \in raw : s - 10 <= f.stamp /\ f.stamp <= s + Slow
    <3>1. s <= started /\ (s = started => pc = "idle")
      BY <2>0, <2>1 DEF Timing, Interval
    <3>2. Pressing(s) /\ s \in 0..HardEnd
      BY <2>1 DEF Pressing
    <3>3. Served(s)
      BY <2>1, <3>1, <3>2 DEF WindowInv, Fetching
    <3> QED BY <2>0, <2>1, <3>3 DEF Served, MinInterval
  <2>2. ASSUME 0 <= K - 100, (K - 80) + Interval <= now, K - 80 <= HardEnd
        PROVE  Requested(K - 100, (K - 80) + Slow) \/ budget.used = MaxCredits
    <3> DEFINE s == Begun(K - 85)
    <3>1. s \in Int /\ s % Interval = 0 /\ K - 90 < s /\ s <= K - 85
      BY <2>0, AStartEveryInterval
    <3> HIDE DEF s
    <3>2. 10 <= s /\ s <= HardEnd /\ s + Interval <= now /\ K - s \in 80..100
      BY <2>0, <2>2, <3>1 DEF Interval
    <3>3. CASE \E f \in raw : s - 10 <= f.stamp /\ f.stamp <= s + Slow
      BY <2>0, <3>1, <3>3 DEF Requested
    <3> QED BY <2>1, <3>1, <3>2, <3>3
  <2>3. ASSUME 0 <= K - 20, (K - 10) + Interval <= now, K - 10 <= HardEnd
        PROVE  \/ Requested(K - 20, (K - 10) + Slow)
               \/ Requested((K - 20) - Interval, K - 21)
               \/ budget.used = MaxCredits
    <3> DEFINE s == Begun(K - 10)
    <3>1. s \in Int /\ s % Interval = 0 /\ K - 15 < s /\ s <= K - 10
      BY <2>0, AStartEveryInterval
    <3> HIDE DEF s
    <3>2. 10 <= s /\ s <= HardEnd /\ s + Interval <= now /\ K - s \in 10..20
      BY <2>0, <2>3, <3>1 DEF Interval
    <3>3. CASE \E f \in raw : s - 10 <= f.stamp /\ f.stamp <= s + Slow
      BY <2>0, <3>1, <3>3 DEF Requested, Interval
    <3> QED BY <2>1, <3>1, <3>2, <3>3
  <2> QED BY <2>2, <2>3 DEF Fires
<1> QED BY <1>1, TypeCorrect, LedgerInit, LedgerNext, CleanInvariant, PTL DEF Spec
-----------------------------------------------------------------------------
(* What a kill can take, and what the next write gives back *)

\* Rows leave the prediction CSV in one way only, whatever else fails: the cycle is
\* killed while to_csv writes (live_2026_shadow.py:138).
RowsKept == [][Ledger!Extend \/ (Kill /\ pc = "write")]_(pred.rows)

\* The prediction CSV is append-only but for a kill inside its to_csv.
THEOREM RowsLostOnlyInCutWrite == Spec => RowsKept
<1>1. LedgerInv /\ LedgerInv' /\ [Next]_vars
        => [Ledger!Extend \/ (Kill /\ pc = "write")]_(pred.rows)
  <2> SUFFICES ASSUME LedgerInv, LedgerInv', [Next]_vars, pred'.rows # pred.rows,
                      ~(Kill /\ pc = "write")
               PROVE  Ledger!Extend
    OBVIOUS
  <2>1. pred' # pred
    OBVIOUS
  <2>2. Kill => pred' = pred
    BY DEF Kill
  <2>3. FreezeWrite
    BY <2>1, <2>2 DEF Next, Cycle, Fetcher, Freezer, HaltFlags, StopHardEnd, StartCycle, EndCycle,
       FetchCheck, Request, RequestLost, RequestUnbilled, RecordRequest, WriteRaw, FreezeRead,
       FreezeFails, Minute, NextInterval, vars, fileVars
  <2>4. pred.rows \subseteq pred'.rows
    BY <2>3 DEF FreezeWrite, LedgerInv
  <2> QED BY <2>4 DEF Ledger!Extend, LedgerInv, RowsSound
<1> QED BY <1>1, TypeCorrect, LedgerInit, LedgerNext, PTL DEF Spec, RowsKept

\* After any kills, cut files and lost requests, a write that comes through leaves a
\* prediction on file for every fixture still to come: what a cut write took is frozen
\* anew, at a later time (live_2026_shadow.py:105-138).
HasM1(rows, m) == \E r \in rows : r.match = m /\ r.model = "M1_B1"
EveryWriteCovers ==
  [][FreezeWrite => \A m \in Matches : Kickoff[m] > now => HasM1(pred'.rows, m)]_vars

\* What freeze is about to write covers the fixtures that have not kicked off yet.
MergedCovers ==
  pc = "write" => \A m \in Matches : Kickoff[m] > now => HasM1(merged, m)

LEMMA FreezeCovers ==
  ASSUME NEW rows, NEW m \in Matches, Kickoff[m] > now
  PROVE  HasM1(FirstWins(rows, NewRows), m)
<1> DEFINE r == Frozen(m, "M1_B1")
<1>1. r \in NewRows
  BY DEF NewRows, Unplayed
<1>2. r.match = m /\ r.model = "M1_B1"
  BY DEF Frozen
<1> HIDE DEF r
<1>3. CASE r \in FirstWins(rows, NewRows)
  BY <1>2, <1>3 DEF HasM1
<1>4. CASE r \notin FirstWins(rows, NewRows)
  <2>1. PICK o \in rows : Key(o) = Key(r)
    BY <1>1, <1>4 DEF FirstWins
  <2>2. o.match = m /\ o.model = "M1_B1" /\ o \in FirstWins(rows, NewRows)
    BY <1>2, <2>1 DEF FirstWins, Key
  <2> QED BY <2>2 DEF HasM1
<1> QED BY <1>3, <1>4

LEMMA MergedCoversNext == TypeOK /\ MergedCovers /\ [Next]_vars => MergedCovers'
<1> SUFFICES ASSUME TypeOK, MergedCovers, [Next]_vars PROVE MergedCovers'
  OBVIOUS
<1>1. CASE FreezeRead
  BY <1>1, FreezeCovers DEF FreezeRead, MergedCovers
<1>2. CASE Minute
  <2>1. now \in Int /\ now' = now + 1 /\ pc' = pc /\ merged' = merged
    BY <1>2 DEF TypeOK, Minute, cycleVars
  <2>2. \A m \in Matches : Kickoff[m] \in Int
    BY KickoffAssumption
  <2> QED BY <2>1, <2>2 DEF MergedCovers
<1>3. CASE NextInterval
  BY <1>3 DEF NextInterval, cycleVars, MergedCovers
<1>4. CASE UNCHANGED vars
  BY <1>4 DEF vars, cycleVars, MergedCovers
<1>5. CASE Cycle \/ Fetcher \/ FreezeFails \/ FreezeWrite \/ Kill
  <2>1. pc' # "write"
    BY <1>5 DEF Cycle, Fetcher, HaltFlags, StopHardEnd, Startable, StartCycle, EndCycle, FetchCheck,
       Request, RequestLost, RequestUnbilled, RecordRequest, WriteRaw, FreezeFails, FreezeWrite,
       Kill, Exit, cycleVars
  <2> QED BY <2>1 DEF MergedCovers
<1> QED BY <1>1, <1>2, <1>3, <1>4, <1>5 DEF Next, Freezer

\* A write that comes through repairs what earlier ones lost, for fixtures to come.
THEOREM WritesCoverUpcoming == Spec => EveryWriteCovers
<1>1. Init => MergedCovers
  BY DEF Init, MergedCovers
<1>2. MergedCovers
        => [FreezeWrite => \A m \in Matches : Kickoff[m] > now => HasM1(pred'.rows, m)]_vars
  BY DEF MergedCovers, FreezeWrite
<1> QED BY <1>1, <1>2, MergedCoversNext, TypeCorrect, PTL DEF Spec, EveryWriteCovers

\* ... but a CSV that was cut before its header, or was written when there was nothing to
\* write, ends the freezing for good: no row is filed again (live_2026_shadow.py:135-138).
Unreadable == pred.state = "empty" /\ pc # "write"

StaysUnreadable == [][Unreadable => Unreadable' /\ pred' = pred]_vars

\* No cycle recovers from an unreadable CSV (live_2026_shadow.py:135-138).
THEOREM EmptyLedgerIsFinal == Spec => StaysUnreadable /\ [](Unreadable => []Unreadable)
<1>1. ASSUME [Next]_vars, Unreadable PROVE Unreadable' /\ pred' = pred
  BY <1>1 DEF Unreadable, Next, Cycle, Fetcher, Freezer, HaltFlags, StopHardEnd, Startable, StartCycle,
     EndCycle, FetchCheck, Request, RequestLost, RequestUnbilled, RecordRequest, WriteRaw,
     FreezeRead, FreezeFails, FreezeWrite, Kill, Exit, Minute, NextInterval, vars, fileVars,
     cycleVars
<1>2. [Next]_vars => [Unreadable => Unreadable' /\ pred' = pred]_vars
  BY <1>1
<1>3. [Next]_vars => (Unreadable => Unreadable')
  BY <1>1
<1> QED BY <1>2, <1>3, PTL DEF Spec, StaysUnreadable

\* A torn baseline snapshot (fetch_odds_live_2026.py:73) is the last file by name, so it
\* stops every freeze, whatever T-90 and T-15 snapshots are fetched meanwhile: only a
\* later baseline snapshot, written whole, ends it.
Blocked == /\ pc # "write"
           /\ \E f \in LastByName : f.type = "baseline"
           /\ \A f \in LastByName : ~f.ok

StaysBlocked == [][Blocked => pred' = pred /\ (Blocked' \/ (WriteRaw /\ due = "baseline"))]_vars

\* A file of another type sorts before a baseline file: the last one stays the last.
LEMMA BaselineLast ==
  ASSUME TypeOK, NEW x \in SnapshotFile, raw' = raw \cup {x}, x.type # "baseline",
         NEW f \in LastByName, f.type = "baseline"
  PROVE  LastByName' = LastByName
<1>1. f \in raw /\ \A g \in raw : NamedBefore(g, f)
  BY DEF LastByName
<1>2. x.type \in {"T-15", "T-90"}
  BY DEF SnapshotFile, SnapshotTypes
<1>3. NamedBefore(x, f) /\ ~NamedBefore(f, x)
  BY <1>2 DEF NamedBefore, NameRank
<1>4. \A g \in LastByName : g.type = "baseline"
  <2> SUFFICES ASSUME NEW g \in LastByName PROVE g.type = "baseline"
    OBVIOUS
  <2>1. g \in raw /\ NamedBefore(f, g) /\ g.type \in SnapshotTypes
    BY <1>1 DEF LastByName, TypeOK, SnapshotFile
  <2> QED BY <2>1 DEF NamedBefore, NameRank, SnapshotTypes
<1>5. \A g \in LastByName : NamedBefore(x, g)
  BY <1>2, <1>4 DEF NamedBefore, NameRank
<1>6. LastByName' = {g \in raw \cup {x} : \A h \in raw \cup {x} : NamedBefore(h, g)}
  BY DEF LastByName, NamedBefore
<1>7. x \notin LastByName'
  BY <1>1, <1>3, <1>6
<1> QED BY <1>5, <1>6, <1>7 DEF LastByName

\* A torn file does not unblock, wherever its name sorts it.
LEMMA TornKeepsBlocked ==
  ASSUME TypeOK, Blocked, NEW x \in SnapshotFile, raw' = raw \cup {x}, ~x.ok, pc' # "write"
  PROVE  Blocked'
<1>1. PICK f \in LastByName : f.type = "baseline"
  BY DEF Blocked
<1>2. CASE x.type # "baseline"
  BY <1>1, <1>2, BaselineLast DEF Blocked
<1>3. CASE x.type = "baseline"
  <2>1. f \in raw /\ \A g \in raw : NamedBefore(g, f)
    BY <1>1 DEF LastByName
  <2>2. LastByName' = {g \in raw \cup {x} : \A h \in raw \cup {x} : NamedBefore(h, g)}
    BY DEF LastByName, NamedBefore
  <2>3. \A g \in LastByName' : ~g.ok
    BY <2>2 DEF Blocked, LastByName
  <2>4. \A g \in raw \cup {x} : g.stamp \in Int /\ g.type \in SnapshotTypes
    BY DEF TypeOK, SnapshotFile, Minutes
  <2>5. CASE f.stamp <= x.stamp
    <3>1. NamedBefore(f, x) /\ NamedBefore(x, x)
      BY <1>1, <1>3, <2>1, <2>4, <2>5 DEF NamedBefore
    <3>2. \A g \in raw : NamedBefore(g, x)
      BY <1>1, <1>3, <2>1, <2>4, <2>5 DEF NamedBefore
    <3> QED BY <1>3, <2>2, <2>3, <3>1, <3>2 DEF Blocked
  <2>6. CASE x.stamp <= f.stamp
    <3>1. NamedBefore(x, f)
      BY <1>1, <1>3, <2>6 DEF NamedBefore
    <3> QED BY <1>1, <2>1, <2>2, <2>3, <3>1 DEF Blocked
  <2> QED BY <2>1, <2>4, <2>5, <2>6
<1> QED BY <1>2, <1>3

\* While the torn baseline is the last raw file, nothing is frozen
\* (fetch_odds_live_2026.py:73).
THEOREM TornBaselineBlocks == Spec => StaysBlocked
<1>1. ASSUME TypeOK, [Next]_vars, Blocked
      PROVE  pred' = pred /\ (Blocked' \/ (WriteRaw /\ due = "baseline"))
  <2>1. LastByName # {} /\ ~Source.ok /\ pc # "write"
    <3>1. LastByName # {} /\ \A f \in LastByName : ~f.ok
      BY <1>1 DEF Blocked
    <3> QED BY <1>1, <3>1 DEF Blocked, Source
  <2>2. \A quotes \in Answers :
          Snapshot(TRUE, quotes) \in SnapshotFile /\ Snapshot(FALSE, quotes) \in SnapshotFile
    BY <1>1, SnapshotType DEF TypeOK
  <2>3. CASE raw' = raw /\ pc' # "write" /\ pred' = pred
    <3>1. LastByName' = LastByName
      BY <2>3 DEF LastByName
    <3> QED BY <1>1, <2>3, <3>1 DEF Blocked
  <2>4. CASE WriteRaw
    <3>1. PICK quotes \in Answers :
            raw' = raw \cup {Snapshot(TRUE, quotes)} /\ pc' # "write" /\ pred' = pred
      BY <2>4 DEF WriteRaw
    <3>2. CASE due # "baseline"
      <4>1. Snapshot(TRUE, quotes).type # "baseline"
        BY <3>2 DEF Snapshot
      <4>2. LastByName' = LastByName
        BY <1>1, <2>2, <3>1, <4>1, BaselineLast DEF Blocked
      <4> QED BY <1>1, <3>1, <4>2 DEF Blocked
    <3> QED BY <2>4, <3>1, <3>2
  <2>5. CASE Kill
    <3>1. pc' = "idle" /\ pred' = pred
      BY <2>1, <2>5 DEF Kill, Exit
    <3>2. raw' = raw \/ \E quotes \in Answers : raw' = raw \cup {Snapshot(FALSE, quotes)}
      BY <2>5 DEF Kill
    <3>3. \A quotes : ~Snapshot(FALSE, quotes).ok
      BY DEF Snapshot
    <3> QED BY <1>1, <2>2, <2>3, <3>1, <3>2, <3>3, TornKeepsBlocked
  <2>6. CASE FreezeRead \/ FreezeWrite
    BY <2>1, <2>6 DEF FreezeRead, FreezeWrite
  <2>7. CASE Cycle \/ FetchCheck \/ Request \/ RequestLost \/ RequestUnbilled \/ RecordRequest
             \/ FreezeFails \/ Minute \/ NextInterval \/ UNCHANGED vars
    <3>1. raw' = raw /\ pc' # "write" /\ pred' = pred
      BY <2>1, <2>7 DEF Cycle, HaltFlags, StopHardEnd, Startable, StartCycle, EndCycle, Exit,
         FetchCheck, Request, RequestLost, RequestUnbilled, RecordRequest, FreezeFails, Minute,
         NextInterval, vars, cycleVars, fileVars
    <3> QED BY <2>3, <3>1
  <2> QED BY <1>1, <2>4, <2>5, <2>6, <2>7 DEF Next, Fetcher, Freezer
<1>2. TypeOK /\ [Next]_vars
        => [Blocked => pred' = pred /\ (Blocked' \/ (WriteRaw /\ due = "baseline"))]_vars
  BY <1>1
<1> QED BY <1>2, TypeCorrect, PTL DEF Spec, StaysBlocked
=============================================================================
