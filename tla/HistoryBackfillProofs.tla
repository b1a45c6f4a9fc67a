------------------------- MODULE HistoryBackfillProofs -------------------------
(***************************************************************************)
(* Proofs about the player-history backfill, for every corpus, every daily *)
(* limit, reserve and budget, and every number of faults.                  *)
(***************************************************************************)
EXTENDS HistoryBackfill, TLAPS

LEMMA FixtureType ==
  /\ Len(Manifest) \in Nat
  /\ \A i \in DOMAIN Manifest : i \in 1..Len(Manifest) /\ Manifest[i] \in Fixtures
BY BackfillBounds DEF Fixtures

LEMMA FixtureOf ==
  ASSUME TypeOK, NEW p \in Runs, pc[p] \in Endpoints \cup {"decide"}
  PROVE  Fixture(p) \in Fixtures
<1>1. at[p] \in Nat \ {0} /\ at[p] <= Len(Manifest) /\ Manifest \in Seq(Fixtures)
  BY BackfillBounds DEF TypeOK
<1>2. at[p] \in DOMAIN Manifest
  BY <1>1
<1> QED BY <1>2, FixtureType DEF Fixture

\* What a budget is worth, whatever else holds.
LEMMA BudgetBound ==
  ASSUME NEW remaining \in Int, NEW most \in Nat
  PROVE  /\ Budget(remaining, most) \in Nat
         /\ Budget(remaining, most) > 0 => Budget(remaining, most) <= remaining - Reserve
BY BackfillBounds DEF Budget

LEMMA FaultType ==
  ASSUME TypeOK, NEW kind, Fault(kind)
  PROVE  /\ left' \in 0..MaxFaults /\ faults' = faults \cup {kind}
         /\ faults' \subseteq AllFaults
<1>1. kind \in AllFaults /\ left \in 0..MaxFaults /\ faults \subseteq AllFaults
  BY BackfillBounds DEF Fault, TypeOK
<1>2. left' \in 0..MaxFaults
  BY <1>1, BackfillBounds DEF Fault
<1> QED BY <1>1, <1>2 DEF Fault

LEMMA SeedDoneType == TypeOK => SeedDone \subseteq Fixtures
BY BackfillBounds DEF TypeOK, SeedDone

LEMMA ProbeType ==
  ASSUME TypeOK, ProbeCounted
  PROVE  /\ used' \in 0..DailyLimit /\ probes' \in Nat /\ used' - probes' <= used - probes
         /\ used' >= used
BY BackfillBounds DEF TypeOK, ProbeCounted

\* What an ended run leaves of its variables.
LEMMA EndType ==
  ASSUME TypeOK, NEW p \in Runs, End(p),
         used' \in 0..DailyLimit, probes' \in Nat, launched' = launched,
         file' \in {"none", "ok", "torn"}, saved' = saved,
         raw' \in [Fixtures -> [Endpoints -> {"none", "ok", "torn"}]],
         left' \in 0..MaxFaults, faults' \subseteq AllFaults
  PROVE  TypeOK'
<1>1. /\ pc' \in [Runs -> Places \cup Endpoints]
      /\ cap' \in [Runs -> Nat] /\ budget' \in [Runs -> Nat] /\ made' \in [Runs -> Nat]
      /\ done' \in [Runs -> SUBSET Fixtures] /\ pulled' \in [Runs -> Nat]
      /\ at' \in [Runs -> Nat \ {0}] /\ tries' \in [Runs -> 0..Attempts]
      /\ good' \in [Runs -> BOOLEAN]
  <2>1. /\ pc \in [Runs -> Places \cup Endpoints] /\ done \in [Runs -> SUBSET Fixtures]
        /\ cap \in [Runs -> Nat] /\ budget \in [Runs -> Nat] /\ made \in [Runs -> Nat]
        /\ pulled \in [Runs -> Nat] /\ at \in [Runs -> Nat \ {0}]
        /\ tries \in [Runs -> 0..Attempts] /\ good \in [Runs -> BOOLEAN]
    BY DEF TypeOK
  <2>2. pc' \in [Runs -> Places \cup Endpoints] /\ done' \in [Runs -> SUBSET Fixtures]
    BY <2>1 DEF End, Goto, Places
  <2>3. cap' \in [Runs -> Nat] /\ budget' \in [Runs -> Nat] /\ made' \in [Runs -> Nat]
    BY <2>1 DEF End
  <2>4. pulled' \in [Runs -> Nat] /\ at' \in [Runs -> Nat \ {0}] /\ good' \in [Runs -> BOOLEAN]
    BY <2>1 DEF End
  <2>5. tries' \in [Runs -> 0..Attempts]
    BY <2>1, BackfillBounds DEF End
  <2> QED BY <2>2, <2>3, <2>4, <2>5
<1>2. \A q \in Runs : pc'[q] \in Endpoints \cup {"decide"} => at'[q] <= Len(Manifest)
  BY DEF TypeOK, End, Goto, Endpoints
<1> QED BY <1>1, <1>2 DEF TypeOK

LEMMA PersistType ==
  ASSUME TypeOK, NEW p \in Runs, pc[p] \in Endpoints, NEW what \in {"ok", "torn"},
         Persist(p, what)
  PROVE  /\ raw' \in [Fixtures -> [Endpoints -> {"none", "ok", "torn"}]]
         /\ raw'[Fixture(p)][pc[p]] = what
         /\ \A f \in Fixtures, e \in Endpoints :
              f # Fixture(p) \/ e # pc[p] => raw'[f][e] = raw[f][e]
BY FixtureOf DEF TypeOK, Persist

\* A request that was answered in some way and left the run going.
LEMMA RequestType ==
  ASSUME TypeOK, NEW p \in Runs, Asks(p),
         used' \in 0..DailyLimit, UNCHANGED <<probes, launched, file, saved>>,
         raw' \in [Fixtures -> [Endpoints -> {"none", "ok", "torn"}]],
         UNCHANGED <<cap, budget, done, pulled, at>>,
         NEW label \in Endpoints \cup {"decide", "final"},
         pc' = [pc EXCEPT ![p] = label],
         tries' \in [Runs -> 0..Attempts], good' \in [Runs -> BOOLEAN],
         left' \in 0..MaxFaults, faults' \subseteq AllFaults
  PROVE  TypeOK'
<1>1. pc' \in [Runs -> Places \cup Endpoints] /\ made' \in [Runs -> Nat]
  BY DEF TypeOK, Asks, Places
<1>2. \A q \in Runs : pc'[q] \in Endpoints \cup {"decide"} => at'[q] <= Len(Manifest)
  BY DEF TypeOK, Asks
<1> QED BY <1>1, <1>2 DEF TypeOK

LEMMA AnswerType ==
  ASSUME TypeOK, NEW p \in Runs, NEW ok \in BOOLEAN, AfterAnswer(p, ok)
  PROVE  /\ tries' \in [Runs -> 0..Attempts] /\ good' \in [Runs -> BOOLEAN]
         /\ \E label \in Endpoints \cup {"decide", "final"} : pc' = [pc EXCEPT ![p] = label]
<1>1. tries' \in [Runs -> 0..Attempts] /\ good' \in [Runs -> BOOLEAN]
  BY BackfillBounds DEF TypeOK, AfterAnswer
<1>2. \E label \in Endpoints \cup {"decide", "final"} : pc' = [pc EXCEPT ![p] = label]
  BY DEF AfterAnswer, Goto, Endpoints
<1> QED BY <1>1, <1>2

LEMMA GrantedType == TypeOK /\ Granted => used' \in 0..DailyLimit /\ used' = used + 1
BY BackfillBounds DEF TypeOK, Granted

LEMMA NoFaultType ==
  TypeOK /\ UNCHANGED faultVars => left' \in 0..MaxFaults /\ faults' \subseteq AllFaults
BY DEF TypeOK, faultVars

LEMMA PreparesType ==
  ASSUME TypeOK, NEW p \in Runs, Start(p) \/ Prepares(p) \/ ProbeFails(p)
  PROVE  TypeOK'
<1>1. CASE Start(p)
  <2>1. left' \in 0..MaxFaults /\ faults' \subseteq AllFaults
    BY <1>1, FaultType, NoFaultType DEF Start, NoFault
  <2>2. cap' \in [Runs -> Nat] /\ pc' \in [Runs -> Places \cup Endpoints]
    BY <1>1, BackfillBounds DEF Start, Goto, TypeOK, Places
  <2>3. \A q \in Runs : pc'[q] \in Endpoints \cup {"decide"} => at'[q] <= Len(Manifest)
    BY <1>1 DEF Start, Goto, TypeOK, Endpoints, loopVars
  <2> QED BY <1>1, <2>1, <2>2, <2>3 DEF Start, TypeOK, fileVars, loopVars
<1>2. CASE Check(p)
  <2> DEFINE most == Budget(DailyLimit - used', MaxRequests)
  <2>1. used' \in 0..DailyLimit /\ probes' \in Nat
    BY <1>2, ProbeType DEF Check
  <2>2. most \in Nat
    <3>1. DailyLimit - used' \in Int /\ MaxRequests \in Nat
      BY <2>1, BackfillBounds
    <3> QED BY <3>1, BudgetBound
  <2> HIDE DEF most
  <2>3. CASE End(p)
    BY <1>2, <2>1, <2>3, EndType, NoFaultType DEF Check, TypeOK, fileVars
  <2>4. CASE /\ Goto(p, "seed") /\ cap' = [cap EXCEPT ![p] = most]
             /\ UNCHANGED <<budget, made, done, loopVars>>
    <3>1. cap' \in [Runs -> Nat] /\ pc' \in [Runs -> Places \cup Endpoints]
      BY <2>2, <2>4 DEF Goto, TypeOK, Places
    <3>2. \A q \in Runs : pc'[q] \in Endpoints \cup {"decide"} => at'[q] <= Len(Manifest)
      BY <2>4 DEF Goto, TypeOK, Endpoints, loopVars
    <3> QED BY <1>2, <2>1, <2>4, <3>1, <3>2, NoFaultType
            DEF Check, TypeOK, fileVars, loopVars
  <2> QED BY <1>2, <2>3, <2>4 DEF Check, most
<1>3. CASE Seed(p)
  <2>1. done' \in [Runs -> SUBSET Fixtures] /\ pc' \in [Runs -> Places \cup Endpoints]
    BY <1>3, SeedDoneType DEF Seed, Goto, TypeOK, Places
  <2>2. \A q \in Runs : pc'[q] \in Endpoints \cup {"decide"} => at'[q] <= Len(Manifest)
    BY <1>3 DEF Seed, Goto, TypeOK, Endpoints, loopVars
  <2> QED BY <1>3, <2>1, <2>2 DEF Seed, TypeOK, dayVars, fileVars, loopVars, faultVars
<1>4. CASE ProbeQuota(p)
  <2> DEFINE most == Budget(DailyLimit - used', cap[p])
  <2>1. used' \in 0..DailyLimit /\ probes' \in Nat
    BY <1>4, ProbeType DEF ProbeQuota
  <2>2. most \in Nat
    <3>1. DailyLimit - used' \in Int /\ cap[p] \in Nat
      BY <2>1, BackfillBounds DEF TypeOK
    <3> QED BY <3>1, BudgetBound
  <2> HIDE DEF most
  <2>3. CASE End(p)
    BY <1>4, <2>1, <2>3, EndType, NoFaultType DEF ProbeQuota, TypeOK, fileVars
  <2>4. CASE /\ Goto(p, "loop") /\ budget' = [budget EXCEPT ![p] = most]
             /\ UNCHANGED <<cap, made, done, loopVars>>
    <3>1. budget' \in [Runs -> Nat] /\ pc' \in [Runs -> Places \cup Endpoints]
      BY <2>2, <2>4 DEF Goto, TypeOK, Places
    <3>2. \A q \in Runs : pc'[q] \in Endpoints \cup {"decide"} => at'[q] <= Len(Manifest)
      BY <2>4 DEF Goto, TypeOK, Endpoints, loopVars
    <3> QED BY <1>4, <2>1, <2>4, <3>1, <3>2, NoFaultType
            DEF ProbeQuota, TypeOK, fileVars, loopVars
  <2> QED BY <1>4, <2>3, <2>4 DEF ProbeQuota, most
<1>5. CASE ProbeFails(p)
  <2>1. left' \in 0..MaxFaults /\ faults' \subseteq AllFaults
    BY <1>5, FaultType DEF ProbeFails
  <2>2. used' \in 0..DailyLimit /\ probes' \in Nat
    BY <1>5, ProbeType DEF ProbeFails
  <2> QED BY <1>5, <2>1, <2>2, EndType DEF ProbeFails, TypeOK, fileVars
<1> QED BY <1>1, <1>2, <1>3, <1>4, <1>5 DEF Prepares

LEMMA LoopsType ==
  ASSUME TypeOK, NEW p \in Runs, Loops(p)
  PROVE  TypeOK'
<1>1. CASE NextFixture(p)
  <2>1. PICK i \in Rest(p) : at' = [at EXCEPT ![p] = i]
    BY <1>1 DEF NextFixture
  <2>2. i \in Nat \ {0} /\ i <= Len(Manifest)
    BY FixtureType DEF Rest
  <2>3. at' \in [Runs -> Nat \ {0}] /\ pc' \in [Runs -> Places \cup Endpoints]
    BY <1>1, <2>1, <2>2 DEF NextFixture, Goto, TypeOK, Places, Endpoints
  <2>4. \A q \in Runs : pc'[q] \in Endpoints \cup {"decide"} => at'[q] <= Len(Manifest)
    BY <1>1, <2>1, <2>2 DEF NextFixture, Goto, TypeOK
  <2> QED BY <1>1, <2>3, <2>4 DEF NextFixture, TypeOK, dayVars, fileVars, runVars, faultVars
<1>2. CASE OutOfBudget(p)
  <2>1. pc' \in [Runs -> Places \cup Endpoints]
    BY <1>2 DEF OutOfBudget, Goto, TypeOK, Places
  <2>2. \A q \in Runs : pc'[q] \in Endpoints \cup {"decide"} => at'[q] <= Len(Manifest)
    BY <1>2 DEF OutOfBudget, Goto, TypeOK, loopVars
  <2> QED BY <1>2, <2>1, <2>2
          DEF OutOfBudget, TypeOK, dayVars, fileVars, runVars, loopVars, faultVars
<1>3. CASE Decide(p)
  <2>1. Fixture(p) \in Fixtures
    BY <1>3, FixtureOf DEF Decide, At
  <2>2. done' \in [Runs -> SUBSET Fixtures] /\ pulled' \in [Runs -> Nat]
    <3>1. CASE /\ done' = [done EXCEPT ![p] = @ \cup {Fixture(p)}]
               /\ pulled' = [pulled EXCEPT ![p] = @ + 1]
      BY <2>1, <3>1 DEF TypeOK
    <3>2. CASE UNCHANGED <<done, pulled>>
      BY <3>2 DEF TypeOK
    <3> QED BY <1>3, <3>1, <3>2 DEF Decide
  <2>3. /\ at' \in [Runs -> Nat \ {0}] /\ good' \in [Runs -> BOOLEAN]
        /\ at' = [at EXCEPT ![p] = @ + 1]
    BY <1>3 DEF Decide, TypeOK
  <2>4. PICK label \in {"save", "loop"} : pc' = [pc EXCEPT ![p] = label]
    BY <1>3 DEF Decide, Goto
  <2>5. pc' \in [Runs -> Places \cup Endpoints]
    BY <2>4 DEF TypeOK, Places
  <2>6. \A q \in Runs : pc'[q] \in Endpoints \cup {"decide"} => at'[q] <= Len(Manifest)
    BY <2>3, <2>4 DEF TypeOK, Endpoints
  <2> QED BY <1>3, <2>2, <2>3, <2>5, <2>6 DEF Decide, TypeOK, dayVars, fileVars, faultVars
<1> QED BY <1>1, <1>2, <1>3 DEF Loops

LEMMA RequestsType ==
  ASSUME TypeOK, NEW p \in Runs, Requests(p)
  PROVE  TypeOK'
<1> USE BackfillBounds
<1>1. CASE Answered(p)
  <2>1. raw' \in [Fixtures -> [Endpoints -> {"none", "ok", "torn"}]]
    BY <1>1, PersistType DEF Answered, Asks
  <2> QED BY <1>1, <2>1, RequestType, AnswerType, GrantedType, NoFaultType DEF Answered
<1>2. CASE Blank(p) \/ Erroneous(p)
  <2>1. left' \in 0..MaxFaults /\ faults' \subseteq AllFaults
    BY <1>2, FaultType DEF Blank, Erroneous
  <2>2. /\ Asks(p) /\ Granted /\ UNCHANGED <<file, saved, raw>>
        /\ UNCHANGED <<probes, launched, cap, budget, done, pulled, at>>
        /\ \E ok \in BOOLEAN : AfterAnswer(p, ok)
    BY <1>2 DEF Blank, Erroneous, fileVars
  <2>3. raw' \in [Fixtures -> [Endpoints -> {"none", "ok", "torn"}]]
    BY <2>2 DEF TypeOK
  <2> QED BY <2>1, <2>2, <2>3, RequestType, AnswerType, GrantedType
<1>3. CASE Down(p)
  <2>1. left' \in 0..MaxFaults /\ faults' \subseteq AllFaults
    BY <1>3, FaultType DEF Down
  <2>2. raw' \in [Fixtures -> [Endpoints -> {"none", "ok", "torn"}]]
    BY <1>3 DEF Down, fileVars, TypeOK
  <2>3. CASE /\ tries[p] + 1 < Attempts
             /\ tries' = [tries EXCEPT ![p] = @ + 1] /\ UNCHANGED <<pc, good>>
    <3>1. tries' \in [Runs -> 0..Attempts] /\ good' \in [Runs -> BOOLEAN]
      BY <2>3 DEF TypeOK
    <3>2. pc' = [pc EXCEPT ![p] = pc[p]] /\ pc[p] \in Endpoints
      BY <1>3, <2>3 DEF Down, Asks, TypeOK
    <3> QED BY <1>3, <2>1, <2>2, <3>1, <3>2, RequestType, GrantedType DEF Down, fileVars
  <2>4. CASE AfterAnswer(p, FALSE)
    BY <1>3, <2>1, <2>2, <2>4, RequestType, AnswerType, GrantedType DEF Down, fileVars
  <2> QED BY <1>3, <2>3, <2>4 DEF Down
<1>4. CASE Refused(p)
  <2>1. left' \in 0..MaxFaults /\ faults' \subseteq AllFaults /\ used' \in 0..DailyLimit
    BY <1>4, FaultType, NoFaultType, GrantedType DEF Refused, TypeOK
  <2>2. /\ raw' \in [Fixtures -> [Endpoints -> {"none", "ok", "torn"}]]
        /\ tries' \in [Runs -> 0..Attempts] /\ good' \in [Runs -> BOOLEAN]
    BY <1>4 DEF Refused, fileVars, loopVars, TypeOK
  <2> QED BY <1>4, <2>1, <2>2, RequestType DEF Refused, Goto, fileVars, loopVars
<1>5. CASE Lost(p)
  <2>1. left' \in 0..MaxFaults /\ faults' \subseteq AllFaults
    BY <1>5, FaultType DEF Lost
  <2>2. used' \in 0..DailyLimit
    BY <1>5, GrantedType DEF Lost, TypeOK
  <2> QED BY <1>5, <2>1, <2>2, EndType DEF Lost, TypeOK, fileVars
<1> QED BY <1>1, <1>2, <1>3, <1>4, <1>5 DEF Requests

LEMMA WritesType ==
  ASSUME TypeOK, NEW p \in Runs, Writes(p) \/ Kill(p) \/ Cut(p)
  PROVE  TypeOK'
<1>1. CASE Save(p) \/ Final(p)
  <2>1. /\ file' = "ok" /\ saved' \subseteq Fixtures /\ UNCHANGED raw
        /\ UNCHANGED <<dayVars, runVars, loopVars, faultVars>>
    BY <1>1 DEF Save, Final, WriteProgress, TypeOK
  <2>2. PICK label \in {"loop", "after"} : pc' = [pc EXCEPT ![p] = label]
    BY <1>1 DEF Save, Final, Goto
  <2>3. pc' \in [Runs -> Places \cup Endpoints]
    BY <2>2 DEF TypeOK, Places
  <2>4. \A q \in Runs : pc'[q] \in Endpoints \cup {"decide"} => at'[q] <= Len(Manifest)
    BY <2>1, <2>2 DEF TypeOK, Endpoints, loopVars
  <2> QED BY <2>1, <2>3, <2>4 DEF TypeOK, dayVars, runVars, loopVars, faultVars
<1>2. CASE ProbeAfter(p)
  <2>1. used' \in 0..DailyLimit
    BY <1>2, BackfillBounds DEF ProbeAfter, TypeOK
  <2> QED BY <1>2, <2>1, EndType, NoFaultType DEF ProbeAfter, TypeOK, fileVars
<1>3. CASE Kill(p)
  <2>1. left' \in 0..MaxFaults /\ faults' \subseteq AllFaults
    BY <1>3, FaultType DEF Kill
  <2> QED BY <1>3, <2>1, EndType DEF Kill, TypeOK, dayVars, fileVars
<1>4. CASE Cut(p)
  <2>1. left' \in 0..MaxFaults /\ faults' \subseteq AllFaults
    BY <1>4, FaultType DEF Cut
  <2>2. CASE pc[p] \in Endpoints /\ Granted /\ Persist(p, "torn") /\ UNCHANGED <<file, saved>>
    BY <1>4, <2>1, <2>2, PersistType, GrantedType, EndType DEF Cut, TypeOK
  <2>3. CASE file' = "torn" /\ UNCHANGED <<used, saved, raw>>
    BY <1>4, <2>1, <2>3, EndType DEF Cut, TypeOK
  <2> QED BY <1>4, <2>2, <2>3 DEF Cut
<1> QED BY <1>1, <1>2, <1>3, <1>4 DEF Writes

LEMMA InitType == Init => TypeOK
<1> SUFFICES ASSUME Init PROVE TypeOK
  OBVIOUS
<1>1. /\ used \in 0..DailyLimit /\ probes \in Nat /\ launched \subseteq Runs
      /\ left \in 0..MaxFaults /\ faults \subseteq AllFaults
      /\ file \in {"none", "ok", "torn"} /\ saved \subseteq Fixtures
  BY BackfillBounds DEF Init
<1>2. raw \in [Fixtures -> [Endpoints -> {"none", "ok", "torn"}]]
  BY DEF Init
<1>3. /\ pc \in [Runs -> Places \cup Endpoints]
      /\ cap \in [Runs -> Nat] /\ budget \in [Runs -> Nat] /\ made \in [Runs -> Nat]
      /\ done \in [Runs -> SUBSET Fixtures] /\ pulled \in [Runs -> Nat]
      /\ at \in [Runs -> Nat \ {0}] /\ tries \in [Runs -> 0..Attempts]
      /\ good \in [Runs -> BOOLEAN]
  BY BackfillBounds DEF Init, Places
<1>4. \A p \in Runs : pc[p] \in Endpoints \cup {"decide"} => at[p] <= Len(Manifest)
  BY DEF Init, Endpoints
<1> QED BY <1>1, <1>2, <1>3, <1>4 DEF TypeOK

LEMMA NextType == TypeOK /\ [Next]_vars => TypeOK'
<1> SUFFICES ASSUME TypeOK, [Next]_vars PROVE TypeOK'
  OBVIOUS
<1>1. CASE Day
  BY <1>1, BackfillBounds DEF Day, TypeOK, fileVars, runVars, loopVars, faultVars
<1>2. CASE UNCHANGED vars
  BY <1>2 DEF vars, TypeOK, dayVars, fileVars, runVars, loopVars, faultVars
<1> QED BY <1>1, <1>2, PreparesType, LoopsType, RequestsType, WritesType DEF Next

\* The variables keep their types, whatever fails and however runs overlap.
THEOREM TypeCorrect == Spec => []TypeOK
<1> QED BY InitType, NextType, PTL DEF Spec

-----------------------------------------------------------------------------
(* The reserve, and what the done lists rest on *)

\* Without an overlap only one run is under way.
OneRun == "overlap" \notin faults =>
            \A p, q \in Runs : pc[p] # "idle" /\ pc[q] # "idle" => p = q

Unspent(p) == budget[p] - made[p]

\* What a run may still ask for was free when it took its quota, and stays free
\* until another run asks.  A new day only makes room.
QuotaInv ==
  /\ \A p \in Runs : 0 <= Unspent(p) /\ Unspent(p) <= DailyLimit - Reserve
  /\ \A p \in Runs : pc[p] \in {"idle", "check", "seed", "quota"} => Unspent(p) = 0 /\ made[p] = 0
  /\ "overlap" \notin faults =>
       \A p \in Runs : used + Unspent(p) <= (DailyLimit - Reserve) + probes

Seeded == {"quota", "loop", "decide", "save", "final", "after"} \cup Endpoints
Trusted == "blank" \notin faults /\ ~({"overlap", "cut"} \subseteq faults)

\* A run never asks again for a fixture it knows to be done, and alone it knows them
\* all; so a raw file that a done list rests on is not opened for writing.
RawInv ==
  /\ \A p \in Runs : pc[p] \in {"idle", "check", "seed"} => done[p] = {}
  /\ "overlap" \notin faults => \A p \in Runs : pc[p] \in Seeded => SeedDone \subseteq done[p]
  /\ \A p \in Runs : pc[p] \in Endpoints \cup {"decide"} => Fixture(p) \notin done[p]
  /\ Trusted => \A p \in Runs :
       /\ \A f \in SeedDone \cup done[p] : RawBacked(f)
       /\ pc[p] = "lineups" /\ good[p] => raw[Fixture(p)]["events"] = "ok"
       /\ pc[p] = "decide" /\ good[p] => RawBacked(Fixture(p))

BackfillInv == OneRun /\ QuotaInv /\ RawInv

LEMMA InitInv == Init => BackfillInv
<1> SUFFICES ASSUME Init PROVE BackfillInv
  OBVIOUS
<1>1. \A p \in Runs : /\ pc[p] = "idle" /\ done[p] = {}
                      /\ budget[p] = 0 /\ made[p] = 0
  BY DEF Init
<1>2. OneRun /\ QuotaInv
  BY <1>1, BackfillBounds DEF Init, OneRun, QuotaInv, Unspent
<1>3. RawInv
  BY <1>1 DEF Init, RawInv, SeedDone, RawBacked, Seeded, Endpoints
<1> QED BY <1>2, <1>3 DEF BackfillInv

\* A run that moves, ends or fails beside no other keeps the others idle.
LEMMA OneRunKept ==
  ASSUME TypeOK, OneRun, NEW p \in Runs, pc[p] # "idle", faults \subseteq faults',
         \A q \in Runs : q # p => pc'[q] = pc[q]
  PROVE  OneRun'
BY DEF OneRun

LEMMA Counts ==
  ASSUME TypeOK, NEW p \in Runs
  PROVE  /\ used \in Int /\ probes \in Int /\ budget[p] \in Nat /\ made[p] \in Nat
         /\ Unspent(p) \in Int
         /\ MayAsk(p) => Unspent(p) >= 1
<1>1. used \in 0..DailyLimit /\ probes \in Nat /\ DailyLimit \in Nat
  BY BackfillBounds DEF TypeOK
<1>2. budget \in [Runs -> Nat] /\ made \in [Runs -> Nat]
  BY DEF TypeOK
<1>3. budget[p] \in Nat /\ made[p] \in Nat
  BY <1>2
<1>4. Unspent(p) \in Int /\ (MayAsk(p) => Unspent(p) >= 1)
  BY <1>3 DEF Unspent, MayAsk
<1> QED BY <1>1, <1>3, <1>4

LEMMA QuotaFrame ==
  ASSUME TypeOK, OneRun, QuotaInv, NEW p \in Runs, pc[p] # "idle", faults \subseteq faults',
         TypeOK',
         \A q \in Runs : q # p => /\ pc'[q] = pc[q]
                                  /\ budget'[q] = budget[q] /\ made'[q] = made[q],
         0 <= Unspent(p)' /\ Unspent(p)' <= DailyLimit - Reserve,
         pc'[p] \in {"idle", "check", "seed", "quota"} => Unspent(p)' = 0 /\ made'[p] = 0,
         "overlap" \notin faults' => used' + Unspent(p)' <= (DailyLimit - Reserve) + probes'
  PROVE  QuotaInv'
<1>1. \A q \in Runs : q # p => Unspent(q)' = Unspent(q)
  BY DEF Unspent
<1>2. "overlap" \notin faults' => \A q \in Runs : q # p => Unspent(q) = 0
  BY DEF OneRun, QuotaInv
<1>3. \A q \in Runs : Unspent(q) \in Int
  <2>1. budget \in [Runs -> Nat] /\ made \in [Runs -> Nat]
    BY DEF TypeOK
  <2> QED BY <2>1 DEF Unspent
<1>4. /\ used' \in Int /\ probes' \in Int /\ Unspent(p)' \in Int
      /\ DailyLimit \in Int /\ Reserve \in Int
  <2>1. DailyLimit \in Nat /\ Reserve \in Nat
    BY BackfillBounds
  <2>2. used' \in 0..DailyLimit /\ probes' \in Nat
    BY DEF TypeOK
  <2>3. budget' \in [Runs -> Nat] /\ made' \in [Runs -> Nat]
    BY DEF TypeOK
  <2>4. budget'[p] \in Nat /\ made'[p] \in Nat
    BY <2>3
  <2>5. Unspent(p)' \in Int
    BY <2>4 DEF Unspent
  <2> QED BY <2>1, <2>2, <2>5
<1>5. ASSUME "overlap" \notin faults', NEW q \in Runs
      PROVE  used' + Unspent(q)' <= (DailyLimit - Reserve) + probes'
  <2>1. CASE q = p
    BY <1>5, <2>1
  <2>2. CASE q # p
    BY <1>1, <1>2, <1>4, <1>5, <2>2
  <2> QED BY <2>1, <2>2
<1>6. /\ \A q \in Runs : 0 <= Unspent(q)' /\ Unspent(q)' <= DailyLimit - Reserve
      /\ \A q \in Runs : pc'[q] \in {"idle", "check", "seed", "quota"} =>
           Unspent(q)' = 0 /\ made'[q] = 0
  BY <1>1 DEF QuotaInv
<1> QED BY <1>5, <1>6 DEF QuotaInv

LEMMA RawFrame ==
  ASSUME TypeOK, OneRun, RawInv, NEW p \in Runs, pc[p] # "idle", faults \subseteq faults',
         \A q \in Runs : q # p => /\ pc'[q] = pc[q] /\ done'[q] = done[q]
                                  /\ at'[q] = at[q] /\ good'[q] = good[q],
         pc'[p] \in {"idle", "check", "seed"} => done'[p] = {},
         "overlap" \notin faults' /\ pc'[p] \in Seeded => SeedDone' \subseteq done'[p],
         pc'[p] \in Endpoints \cup {"decide"} => Fixture(p)' \notin done'[p],
         Trusted' => /\ \A f \in SeedDone' \cup done'[p] : RawBacked(f)'
                     /\ pc'[p] = "lineups" /\ good'[p] => raw'[Fixture(p)']["events"] = "ok"
                     /\ pc'[p] = "decide" /\ good'[p] => RawBacked(Fixture(p))',
         Trusted' /\ "overlap" \in faults' =>
           \A f \in Fixtures, e \in Endpoints : raw[f][e] = "ok" => raw'[f][e] = "ok"
  PROVE  RawInv'
<1>1. Trusted' => Trusted
  BY DEF Trusted
<1>2. "overlap" \notin faults' => \A q \in Runs : q # p => pc[q] = "idle" /\ done[q] = {}
  BY DEF OneRun, RawInv
<1>3. \A q \in Runs : q # p => Fixture(q)' = Fixture(q)
  BY DEF Fixture
<1>4. ASSUME Trusted', NEW q \in Runs
      PROVE  /\ \A f \in SeedDone' \cup done'[q] : RawBacked(f)'
             /\ pc'[q] = "lineups" /\ good'[q] => raw'[Fixture(q)']["events"] = "ok"
             /\ pc'[q] = "decide" /\ good'[q] => RawBacked(Fixture(q))'
  <2>1. CASE q = p
    BY <1>4, <2>1
  <2>2. CASE q # p /\ "overlap" \notin faults'
    BY <1>2, <1>4, <2>2
  <2>3. CASE q # p /\ "overlap" \in faults'
    <3>1. \A f \in Fixtures : RawBacked(f) => RawBacked(f)'
      BY <1>4, <2>3 DEF RawBacked
    <3>2. done[q] \subseteq Fixtures /\ "events" \in Endpoints
      BY DEF TypeOK, Endpoints
    <3>3. pc[q] \in Endpoints \cup {"decide"} => Fixture(q) \in Fixtures
      BY FixtureOf
    <3>4. /\ \A f \in done[q] : RawBacked(f)
          /\ pc[q] = "lineups" /\ good[q] => raw[Fixture(q)]["events"] = "ok"
          /\ pc[q] = "decide" /\ good[q] => RawBacked(Fixture(q))
      BY <1>1, <1>4 DEF RawInv
    <3>5. \A f \in done'[q] : RawBacked(f)'
      BY <2>3, <3>1, <3>2, <3>4
    <3>6. pc'[q] = "lineups" /\ good'[q] => raw'[Fixture(q)']["events"] = "ok"
      BY <1>3, <1>4, <2>3, <3>2, <3>3, <3>4 DEF Endpoints
    <3>7. pc'[q] = "decide" /\ good'[q] => RawBacked(Fixture(q))'
      <4>1. pc'[q] = "decide" /\ good'[q] => RawBacked(Fixture(q)) /\ Fixture(q) \in Fixtures
        BY <2>3, <3>3, <3>4
      <4> QED BY <4>1, <1>3, <1>4, <2>3, <3>1 DEF RawBacked
    <3> QED BY <1>4, <3>5, <3>6, <3>7
  <2> QED BY <2>1, <2>2, <2>3
<1>5. ASSUME "overlap" \notin faults', NEW q \in Runs, pc'[q] \in Seeded
      PROVE  SeedDone' \subseteq done'[q]
  BY <1>2, <1>5 DEF Seeded, Endpoints
<1>6. \A q \in Runs : pc'[q] \in Endpoints \cup {"decide"} => Fixture(q)' \notin done'[q]
  BY <1>3 DEF RawInv
<1>7. \A q \in Runs : pc'[q] \in {"idle", "check", "seed"} => done'[q] = {}
  BY DEF RawInv
<1> QED BY <1>4, <1>5, <1>6, <1>7 DEF RawInv

LEMMA EndKeeps ==
  ASSUME TypeOK, NEW p \in Runs, End(p)
  PROVE  /\ pc'[p] = "idle" /\ done'[p] = {} /\ Unspent(p)' = 0 /\ made'[p] = 0
         /\ \A q \in Runs : q # p =>
              /\ pc'[q] = pc[q] /\ done'[q] = done[q] /\ at'[q] = at[q]
              /\ good'[q] = good[q] /\ budget'[q] = budget[q] /\ made'[q] = made[q]
BY DEF TypeOK, End, Goto, Unspent

LEMMA SeedDoneKept == UNCHANGED <<file, saved>> => SeedDone' = SeedDone
BY DEF SeedDone

\* The sum of what is used and what may still be used grows only with the probes.
LEMMA QuotaSum ==
  ASSUME TypeOK, TypeOK', NEW p \in Runs,
         used + Unspent(p) <= (DailyLimit - Reserve) + probes,
         NEW x \in Int, Unspent(p)' = x,
         \/ used' - probes' <= used - probes /\ x <= Unspent(p)
         \/ used' = used + 1 /\ probes' = probes /\ x < Unspent(p)
  PROVE  used' + Unspent(p)' <= (DailyLimit - Reserve) + probes'
<1>1. /\ used \in Int /\ used' \in Int /\ probes \in Int /\ probes' \in Int
      /\ DailyLimit \in Int /\ Reserve \in Int
  BY BackfillBounds DEF TypeOK
<1>2. Unspent(p) \in Int
  <2>1. budget \in [Runs -> Nat] /\ made \in [Runs -> Nat]
    BY DEF TypeOK
  <2> QED BY <2>1 DEF Unspent
<1>3. PICK u \in Int : u = used'
  BY <1>1
<1>4. PICK n \in Int : n = probes'
  BY <1>1
<1>5. CASE used' - probes' <= used - probes /\ x <= Unspent(p)
  <2>1. u - n <= used - probes
    BY <1>3, <1>4, <1>5, Zenon
  <2>2. u + x <= (DailyLimit - Reserve) + n
    BY <1>1, <1>2, <1>5, <2>1
  <2> QED BY <1>3, <1>4, <2>2, Zenon
<1>6. CASE used' = used + 1 /\ probes' = probes /\ x < Unspent(p)
  <2>1. u = used + 1 /\ n = probes
    BY <1>3, <1>4, <1>6, Zenon
  <2>2. u + x <= (DailyLimit - Reserve) + n
    BY <1>1, <1>2, <1>6, <2>1
  <2> QED BY <1>3, <1>4, <2>2, Zenon
<1> QED BY <1>5, <1>6

\* A run that ends: killed, out of quota, or done; only its own raw file may be torn.
LEMMA EndInv ==
  ASSUME TypeOK, TypeOK', BackfillInv, NEW p \in Runs, pc[p] # "idle", End(p),
         faults \subseteq faults',
         \/ used' - probes' <= used - probes
         \/ used' = used + 1 /\ probes' = probes /\ Unspent(p) >= 1,
         SeedDone' \subseteq SeedDone,
         \/ raw' = raw
         \/ /\ pc[p] \in Endpoints /\ Persist(p, "torn") /\ "cut" \in faults'
  PROVE  BackfillInv'
<1>1. OneRun'
  BY EndKeeps, OneRunKept DEF BackfillInv
<1>2. QuotaInv'
  <2>1. /\ used \in Int /\ used' \in Int /\ probes \in Int /\ probes' \in Int
        /\ DailyLimit \in Int /\ Reserve \in Int /\ Reserve <= DailyLimit
    <3>1. used' \in 0..DailyLimit /\ probes' \in Nat
      BY DEF TypeOK
    <3>2. DailyLimit \in Nat /\ Reserve \in Nat /\ Reserve <= DailyLimit
      BY BackfillBounds
    <3> QED BY <3>1, <3>2, Counts
  <2>2. 0 <= Unspent(p) /\ Unspent(p) \in Int
    BY Counts DEF BackfillInv, QuotaInv
  <2>3. "overlap" \notin faults' => used' + Unspent(p)' <= (DailyLimit - Reserve) + probes'
    <3>1. "overlap" \notin faults' => used + Unspent(p) <= (DailyLimit - Reserve) + probes
      BY DEF BackfillInv, QuotaInv
    <3>2. Unspent(p)' = 0
      BY EndKeeps
    <3> QED BY <2>2, <3>1, <3>2, QuotaSum
  <2>4. 0 <= Unspent(p)' /\ Unspent(p)' <= DailyLimit - Reserve
    BY <2>1, EndKeeps
  <2> QED BY <2>3, <2>4, EndKeeps, QuotaFrame DEF BackfillInv
<1>3. RawInv'
  <2>1. Trusted' => /\ Trusted
                    /\ \A f \in SeedDone' : RawBacked(f)
    BY DEF Trusted, BackfillInv, RawInv
  <2>2. SeedDone' \subseteq Fixtures /\ SeedDone \subseteq Fixtures
    BY SeedDoneType
  <2>3. CASE raw' = raw
    BY <2>1, <2>3, EndKeeps, RawFrame DEF BackfillInv, RawBacked, Seeded, Endpoints
  <2>4. CASE pc[p] \in Endpoints /\ Persist(p, "torn") /\ "cut" \in faults'
    <3>1. Fixture(p) \in Fixtures /\ Fixture(p) \notin done[p]
      BY <2>4, FixtureOf DEF BackfillInv, RawInv
    <3>2. Trusted' => "overlap" \notin faults'
      BY <2>4 DEF Trusted
    <3>3. Trusted' => Fixture(p) \notin SeedDone
      BY <2>4, <3>1, <3>2 DEF BackfillInv, RawInv, Seeded
    <3>4. \A f \in Fixtures, e \in Endpoints : f # Fixture(p) => raw'[f][e] = raw[f][e]
      BY <2>4, PersistType
    <3>5. Trusted' => \A f \in SeedDone' : RawBacked(f)'
      BY <2>1, <2>2, <3>3, <3>4 DEF RawBacked
    <3> QED BY <3>2, <3>5, EndKeeps, RawFrame DEF BackfillInv, Seeded, Endpoints
  <2> QED BY <2>3, <2>4
<1> QED BY <1>1, <1>2, <1>3 DEF BackfillInv

LEMMA UnspentType == TypeOK => \A p \in Runs : Unspent(p) \in Int
<1> SUFFICES ASSUME TypeOK PROVE \A p \in Runs : Unspent(p) \in Int
  OBVIOUS
<1>1. budget \in [Runs -> Nat] /\ made \in [Runs -> Nat]
  BY DEF TypeOK
<1> QED BY <1>1 DEF Unspent

\* The steps that end a run.
LEMMA EndsInv ==
  ASSUME TypeOK, TypeOK', BackfillInv, NEW p \in Runs,
         \/ ProbeFails(p) \/ Lost(p) \/ Kill(p) \/ Cut(p) \/ ProbeAfter(p)
         \/ (Check(p) \/ ProbeQuota(p)) /\ End(p)
  PROVE  BackfillInv'
<1>1. CASE ProbeFails(p) \/ ((Check(p) \/ ProbeQuota(p)) /\ End(p))
  <2>1. /\ End(p) /\ pc[p] # "idle" /\ ProbeCounted /\ UNCHANGED <<file, saved, raw>>
        /\ faults \subseteq faults'
    BY <1>1 DEF ProbeFails, Check, ProbeQuota, At, Fault, fileVars, faultVars
  <2> QED BY <2>1, ProbeType, SeedDoneKept, EndInv
<1>2. CASE Lost(p)
  <2>1. /\ End(p) /\ pc[p] # "idle" /\ UNCHANGED <<file, saved, raw, probes>>
        /\ faults \subseteq faults' /\ MayAsk(p)
    BY <1>2 DEF Lost, Endpoints, Fault, fileVars
  <2>2. Unspent(p) >= 1
    BY <2>1 DEF MayAsk, Unspent, TypeOK
  <2>3. CASE Granted
    BY <2>1, <2>2, <2>3, GrantedType, SeedDoneKept, EndInv
  <2>4. CASE UNCHANGED used
    <3>1. used' - probes' <= used - probes
      BY <2>1, <2>4, BackfillBounds DEF TypeOK
    <3> QED BY <2>1, <3>1, SeedDoneKept, EndInv
  <2> QED BY <1>2, <2>3, <2>4 DEF Lost
<1>3. CASE Kill(p)
  <2>1. /\ End(p) /\ pc[p] # "idle" /\ UNCHANGED <<file, saved, raw, used, probes>>
        /\ faults \subseteq faults'
    BY <1>3 DEF Kill, At, Fault, dayVars, fileVars
  <2>2. used' - probes' <= used - probes
    <3>1. used \in 0..DailyLimit /\ probes \in Nat
      BY DEF TypeOK
    <3>2. DailyLimit \in Nat
      BY BackfillBounds
    <3> QED BY <2>1, <3>1, <3>2
  <2> QED BY <2>1, <2>2, SeedDoneKept, EndInv
<1>4. CASE Cut(p)
  <2>1. /\ End(p) /\ UNCHANGED probes /\ faults \subseteq faults' /\ "cut" \in faults'
    BY <1>4 DEF Cut, Fault
  <2>2. CASE /\ pc[p] \in Endpoints /\ MayAsk(p) /\ Granted
             /\ Persist(p, "torn") /\ UNCHANGED <<file, saved>>
    <3>1. Unspent(p) >= 1
      BY <2>2, Counts
    <3>2. pc[p] # "idle"
      BY <2>2 DEF Endpoints
    <3> QED BY <2>1, <2>2, <3>1, <3>2, GrantedType, SeedDoneKept, EndInv
  <2>3. CASE /\ pc[p] \in {"save", "final"} \/ LeaveLoop(p)
             /\ file' = "torn" /\ UNCHANGED <<used, saved, raw>>
    <3>1. pc[p] # "idle"
      BY <2>3 DEF LeaveLoop, At
    <3>2. SeedDone' \subseteq SeedDone
      BY <2>3 DEF SeedDone
    <3>3. used' - probes' <= used - probes
      BY <2>1, <2>3, BackfillBounds DEF TypeOK
    <3> QED BY <2>1, <2>3, <3>1, <3>2, <3>3, EndInv
  <2> QED BY <1>4, <2>2, <2>3 DEF Cut
<1>5. CASE ProbeAfter(p)
  <2>1. /\ End(p) /\ pc[p] # "idle" /\ UNCHANGED <<file, saved, raw, probes>>
        /\ faults \subseteq faults'
    BY <1>5 DEF ProbeAfter, At, fileVars, faultVars
  <2>2. CASE MayAsk(p) /\ used' = used + 1
    <3>1. Unspent(p) >= 1
      BY <2>2, Counts
    <3> QED BY <2>1, <2>2, <3>1, SeedDoneKept, EndInv
  <2>3. CASE UNCHANGED used
    <3>1. used' - probes' <= used - probes
      BY <2>1, <2>3, BackfillBounds DEF TypeOK
    <3> QED BY <2>1, <3>1, SeedDoneKept, EndInv
  <2> QED BY <1>5, <2>2, <2>3 DEF ProbeAfter
<1> QED BY <1>1, <1>2, <1>3, <1>4, <1>5

\* A run that starts spends nothing yet; beside another it is an overlap.
LEMMA StartInv ==
  ASSUME TypeOK, TypeOK', BackfillInv, NEW p \in Runs, Start(p)
  PROVE  BackfillInv'
<1>1. /\ pc[p] = "idle" /\ pc'[p] \in {"check", "seed"}
      /\ \A q \in Runs : q # p => pc'[q] = pc[q]
      /\ UNCHANGED <<used, probes, file, saved, raw, budget, made, done, at, good>>
  BY DEF Start, At, Goto, TypeOK, fileVars, loopVars
<1>2. \/ "overlap" \in faults'
      \/ faults' = faults /\ \A q \in Runs : pc[q] = "idle"
  BY DEF Start, Running, At, Fault, NoFault, faultVars
<1>3. faults \subseteq faults'
  BY DEF Start, Fault, NoFault, faultVars
<1>4. OneRun'
  BY <1>1, <1>2 DEF OneRun
<1>5. \A q \in Runs : Unspent(q)' = Unspent(q)
  BY <1>1 DEF Unspent
<1>6. QuotaInv'
  <2>1. \A q \in Runs : /\ 0 <= Unspent(q)' /\ Unspent(q)' <= DailyLimit - Reserve
                        /\ pc'[q] \in {"idle", "check", "seed", "quota"} =>
                             Unspent(q)' = 0 /\ made'[q] = 0
    BY <1>1, <1>5 DEF BackfillInv, QuotaInv
  <2>2. "overlap" \notin faults' =>
          \A q \in Runs : used' + Unspent(q)' <= (DailyLimit - Reserve) + probes'
    BY <1>1, <1>3, <1>5 DEF BackfillInv, QuotaInv
  <2> QED BY <2>1, <2>2 DEF QuotaInv
<1>7. RawInv'
  <2>1. SeedDone' = SeedDone /\ \A q \in Runs : Fixture(q)' = Fixture(q)
    BY <1>1 DEF SeedDone, Fixture
  <2>2. Trusted' => Trusted
    BY <1>3 DEF Trusted
  <2>3. \A q \in Runs : pc'[q] \in {"idle", "check", "seed"} => done'[q] = {}
    BY <1>1 DEF BackfillInv, RawInv
  <2>4. "overlap" \notin faults' =>
          \A q \in Runs : pc'[q] \in Seeded => SeedDone' \subseteq done'[q]
    BY <1>1, <1>2, <2>1 DEF BackfillInv, RawInv, Seeded, Endpoints
  <2>5. \A q \in Runs : pc'[q] \in Endpoints \cup {"decide"} => Fixture(q)' \notin done'[q]
    BY <1>1, <2>1 DEF BackfillInv, RawInv, Endpoints
  <2>6. \A q \in Runs : pc'[q] \in {"lineups", "decide"} => q # p
    BY <1>1
  <2>7. Trusted' => \A q \in Runs :
          /\ \A f \in SeedDone' \cup done'[q] : RawBacked(f)'
          /\ pc'[q] = "lineups" /\ good'[q] => raw'[Fixture(q)']["events"] = "ok"
          /\ pc'[q] = "decide" /\ good'[q] => RawBacked(Fixture(q))'
    BY <1>1, <2>1, <2>2, <2>6 DEF BackfillInv, RawInv, RawBacked
  <2> QED BY <2>1, <2>3, <2>4, <2>5, <2>7 DEF RawInv
<1> QED BY <1>4, <1>6, <1>7 DEF BackfillInv

\* Steps of a run that is not spending yet.
LEMMA PreparesInv ==
  ASSUME TypeOK, TypeOK', BackfillInv, NEW p \in Runs, Prepares(p), ~End(p)
  PROVE  BackfillInv'
<1>1. /\ pc[p] \in {"check", "seed", "quota"} /\ faults' = faults
      /\ UNCHANGED <<file, saved, raw, at, good, made>>
      /\ \A q \in Runs : q # p => pc'[q] = pc[q] /\ done'[q] = done[q] /\ budget'[q] = budget[q]
      /\ pc'[p] \in {"seed", "quota", "loop"}
  BY DEF Prepares, Check, Seed, ProbeQuota, At, Goto, TypeOK, fileVars, loopVars, faultVars
<1>2. OneRun'
  BY <1>1, OneRunKept DEF BackfillInv
<1>3. Unspent(p) = 0 /\ made'[p] = 0
  BY <1>1 DEF BackfillInv, QuotaInv
<1>4. QuotaInv'
  <2>1. CASE budget' = budget /\ ProbeCounted /\ pc'[p] # "loop"
    <3>1. Unspent(p)' = 0
      BY <1>1, <1>3, <2>1 DEF Unspent
    <3>2. "overlap" \notin faults' => used' + Unspent(p)' <= (DailyLimit - Reserve) + probes'
      BY <1>1, <1>3, <2>1, <3>1, ProbeType, QuotaSum DEF BackfillInv, QuotaInv
    <3>3. 0 <= Unspent(p)' /\ Unspent(p)' <= DailyLimit - Reserve
      BY <3>1, BackfillBounds
    <3> QED BY <1>1, <1>3, <2>1, <3>1, <3>2, <3>3, QuotaFrame DEF BackfillInv
  <2>2. CASE budget' = budget /\ UNCHANGED dayVars /\ pc'[p] # "loop"
    <3>1. Unspent(p)' = Unspent(p) /\ Unspent(p) = 0
      BY <1>1, <1>3, <2>2 DEF Unspent
    <3> QED BY <1>1, <2>2, <3>1, QuotaFrame DEF BackfillInv, QuotaInv, dayVars
  <2>3. CASE /\ ProbeQuota(p) /\ pc'[p] = "loop"
    <3> DEFINE most == Budget(DailyLimit - used', cap[p])
    <3>1. most >= 2 /\ budget' = [budget EXCEPT ![p] = most] /\ ProbeCounted
      BY <2>3 DEF ProbeQuota, End, Goto, TypeOK
    <3>2. used' \in Nat /\ used' <= DailyLimit /\ probes' \in Nat
      BY BackfillBounds DEF TypeOK
    <3>3. most \in Nat /\ most <= (DailyLimit - used') - Reserve
      <4>1. DailyLimit - used' \in Int /\ cap[p] \in Nat
        BY <3>2, BackfillBounds DEF TypeOK
      <4>2. most \in Nat /\ (most > 0 => most <= (DailyLimit - used') - Reserve)
        BY <4>1, BudgetBound
      <4> HIDE DEF most
      <4> QED BY <3>1, <4>2
    <3> HIDE DEF most
    <3>4. made[p] = 0 /\ budget[p] \in Nat
      BY <1>1 DEF BackfillInv, QuotaInv, TypeOK
    <3>5. Unspent(p)' = most
      BY <1>1, <3>1, <3>3, <3>4 DEF Unspent, TypeOK
    <3>6. PICK u \in Nat, n \in Nat : u = used' /\ n = probes'
      BY <3>2
    <3>7. most <= (DailyLimit - u) - Reserve
      BY <3>3, <3>6, Zenon
    <3>8. u + most <= (DailyLimit - Reserve) + n /\ 0 <= most /\ most <= DailyLimit - Reserve
      BY <3>3, <3>7, BackfillBounds
    <3>9. used' + Unspent(p)' <= (DailyLimit - Reserve) + probes'
      BY <3>5, <3>6, <3>8, Zenon
    <3>10. 0 <= Unspent(p)' /\ Unspent(p)' <= DailyLimit - Reserve
      BY <3>5, <3>8, Zenon
    <3> QED BY <1>1, <2>3, <3>9, <3>10, QuotaFrame DEF BackfillInv
  <2> QED BY <1>1, <2>1, <2>2, <2>3 DEF Prepares, Check, Seed, ProbeQuota, Goto, TypeOK
<1>5. RawInv'
  <2>1. SeedDone' = SeedDone /\ (Trusted' => Trusted) /\ SeedDone \subseteq Fixtures
    BY <1>1, SeedDoneKept, SeedDoneType DEF Trusted
  <2>2. pc'[p] \in {"idle", "check", "seed"} => done'[p] = {}
    BY <1>1 DEF Prepares, Check, Seed, ProbeQuota, At, Goto, TypeOK, BackfillInv, RawInv
  <2>3. \/ done'[p] = SeedDone
        \/ done'[p] = {} /\ pc'[p] = "seed"
        \/ done'[p] = done[p] /\ pc[p] = "quota"
    <3>1. CASE Check(p)
      BY <2>2, <3>1 DEF Check, Goto, TypeOK
    <3>2. CASE Seed(p)
      BY <3>2 DEF Seed, TypeOK
    <3>3. CASE ProbeQuota(p)
      BY <3>3 DEF ProbeQuota, At
    <3> QED BY <3>1, <3>2, <3>3 DEF Prepares
  <2>4. "overlap" \notin faults' /\ pc'[p] \in Seeded => SeedDone' \subseteq done'[p]
    BY <1>1, <2>1, <2>3 DEF BackfillInv, RawInv, Seeded, Endpoints
  <2>5. Trusted' => \A f \in SeedDone' \cup done'[p] : RawBacked(f)'
    BY <1>1, <2>1, <2>3 DEF BackfillInv, RawInv, RawBacked
  <2>6. pc'[p] \notin Endpoints \cup {"decide"}
    BY <1>1 DEF Endpoints
  <2> QED BY <1>1, <2>2, <2>4, <2>5, <2>6, RawFrame DEF BackfillInv, Endpoints
<1> QED BY <1>2, <1>4, <1>5 DEF BackfillInv

\* Steps of the loop that ask for nothing.
LEMMA LoopsInv ==
  ASSUME TypeOK, TypeOK', BackfillInv, NEW p \in Runs,
         Loops(p) \/ Save(p) \/ Final(p)
  PROVE  BackfillInv'
<1>1. /\ pc[p] \in Seeded /\ pc[p] # "quota" /\ pc[p] # "idle"
      /\ pc'[p] \in {"events", "final", "save", "loop", "after"}
      /\ faults' = faults /\ UNCHANGED <<used, probes, raw, budget, made>>
      /\ \A q \in Runs : q # p => /\ pc'[q] = pc[q] /\ done'[q] = done[q]
                                  /\ at'[q] = at[q] /\ good'[q] = good[q]
  <2>1. CASE NextFixture(p)
    BY <2>1 DEF NextFixture, At, Goto, TypeOK, Seeded, dayVars, fileVars, runVars, faultVars
  <2>2. CASE OutOfBudget(p)
    BY <2>2 DEF OutOfBudget, Goto, TypeOK, Seeded, Endpoints,
                dayVars, fileVars, runVars, loopVars, faultVars
  <2>3. CASE Decide(p)
    <3>1. /\ DOMAIN pc = Runs /\ DOMAIN done = Runs /\ DOMAIN at = Runs /\ DOMAIN good = Runs
      BY DEF TypeOK
    <3>2. /\ pc[p] = "decide" /\ faults' = faults /\ UNCHANGED <<used, probes, raw, budget, made>>
      BY <2>3 DEF Decide, At, dayVars, fileVars, faultVars
    <3>3. PICK l \in {"save", "loop"} : pc' = [pc EXCEPT ![p] = l]
      BY <2>3 DEF Decide, Goto
    <3>4. /\ at' = [at EXCEPT ![p] = @ + 1] /\ good' = [good EXCEPT ![p] = TRUE]
          /\ done' = done \/ done' = [done EXCEPT ![p] = @ \cup {Fixture(p)}]
      BY <2>3 DEF Decide
    <3>5. pc'[p] = l
      BY <3>1, <3>3
    <3>6. \A q \in Runs : q # p => /\ pc'[q] = pc[q] /\ done'[q] = done[q]
                                   /\ at'[q] = at[q] /\ good'[q] = good[q]
      BY <3>1, <3>3, <3>4
    <3> QED BY <3>2, <3>5, <3>6 DEF Seeded
  <2>4. CASE Save(p) \/ Final(p)
    BY <2>4 DEF Save, Final, LeaveLoop, WriteProgress, At, Goto, TypeOK, Seeded,
                dayVars, runVars, loopVars, faultVars
  <2> QED BY <2>1, <2>2, <2>3, <2>4 DEF Loops
<1>2. OneRun'
  BY <1>1, OneRunKept DEF BackfillInv
<1>3. QuotaInv'
  <2>1. Unspent(p)' = Unspent(p)
    BY <1>1 DEF Unspent
  <2> QED BY <1>1, <2>1, QuotaFrame DEF BackfillInv, QuotaInv
<1>4. RawInv'
  <2>1. (Trusted' => Trusted) /\ \A f : RawBacked(f)' <=> RawBacked(f)
    BY <1>1 DEF Trusted, RawBacked
  <2>2. CASE NextFixture(p)
    <3>1. PICK i \in Rest(p) : at' = [at EXCEPT ![p] = i]
      BY <2>2 DEF NextFixture
    <3>2. Fixture(p)' \notin done'[p] /\ pc'[p] = "events" /\ done' = done
      BY <2>2, <3>1 DEF NextFixture, Rest, Fixture, Goto, TypeOK, runVars
    <3>3. SeedDone' = SeedDone
      BY <2>2, SeedDoneKept DEF NextFixture, fileVars
    <3> QED BY <1>1, <2>1, <3>2, <3>3, RawFrame DEF BackfillInv, RawInv
  <2>3. CASE OutOfBudget(p)
    <3>1. pc'[p] = "final" /\ done' = done
      BY <2>3 DEF OutOfBudget, Goto, TypeOK, runVars
    <3>2. SeedDone' = SeedDone
      BY <2>3, SeedDoneKept DEF OutOfBudget, fileVars
    <3> QED BY <1>1, <2>1, <3>1, <3>2, RawFrame DEF BackfillInv, RawInv, Endpoints
  <2>4. CASE Decide(p)
    <3>1. pc[p] = "decide" /\ pc'[p] \in {"save", "loop"}
      BY <2>4 DEF Decide, At, Goto, TypeOK
    <3>2. \/ done'[p] = done[p]
          \/ done'[p] = done[p] \cup {Fixture(p)} /\ good[p]
      BY <2>4 DEF Decide, Pulled, TypeOK
    <3>3. SeedDone' = SeedDone
      BY <2>4, SeedDoneKept DEF Decide, fileVars
    <3>4. Trusted' => \A f \in SeedDone' \cup done'[p] : RawBacked(f)'
      BY <2>1, <3>1, <3>2, <3>3 DEF BackfillInv, RawInv
    <3>5. "overlap" \notin faults' => SeedDone' \subseteq done'[p]
      BY <1>1, <3>2, <3>3 DEF BackfillInv, RawInv
    <3> QED BY <1>1, <3>1, <3>4, <3>5, RawFrame DEF BackfillInv, Endpoints
  <2>5. CASE Save(p) \/ Final(p)
    <3>1. pc'[p] \in {"loop", "after"} /\ done' = done /\ SeedDone' = Prior \cup done[p]
      BY <2>5 DEF Save, Final, WriteProgress, Goto, SeedDone, TypeOK, runVars
    <3>2. Prior \subseteq SeedDone
      BY DEF SeedDone
    <3>3. Trusted' => \A f \in SeedDone' \cup done'[p] : RawBacked(f)'
      BY <2>1, <3>1, <3>2 DEF BackfillInv, RawInv
    <3>4. "overlap" \notin faults' => SeedDone' \subseteq done'[p]
      BY <1>1, <3>1, <3>2 DEF BackfillInv, RawInv
    <3> QED BY <1>1, <3>1, <3>3, <3>4, RawFrame DEF BackfillInv, Endpoints
  <2> QED BY <2>2, <2>3, <2>4, <2>5 DEF Loops
<1> QED BY <1>2, <1>3, <1>4 DEF BackfillInv

\* An answer of whatever kind is paid for from the run's own budget, and only a good
\* one that was written lets the run go on as if it had both.
LEMMA AsksInv ==
  ASSUME TypeOK, TypeOK', BackfillInv, NEW p \in Runs,
         Answered(p) \/ Blank(p) \/ Erroneous(p) \/ Down(p) \/ Refused(p)
  PROVE  BackfillInv'
<1>1. /\ Asks(p) /\ pc[p] \in Endpoints
      /\ (used' = used + 1) \/ (used' = used)
      /\ faults \subseteq faults'
      /\ UNCHANGED <<probes, file, saved, budget, done, at>>
      /\ \A q \in Runs : q # p => pc'[q] = pc[q] /\ good'[q] = good[q] /\ made'[q] = made[q]
      /\ pc'[p] \in {"events", "lineups", "decide", "final"}
  <2>1. ASSUME NEW ok \in BOOLEAN, Asks(p), Granted, AfterAnswer(p, ok),
               UNCHANGED <<probes, file, saved, budget, done, at>>, faults \subseteq faults'
        PROVE  /\ Asks(p) /\ pc[p] \in Endpoints
               /\ (used' = used + 1) \/ (used' = used)
               /\ faults \subseteq faults'
               /\ UNCHANGED <<probes, file, saved, budget, done, at>>
               /\ \A q \in Runs : q # p => /\ pc'[q] = pc[q] /\ good'[q] = good[q]
                                            /\ made'[q] = made[q]
               /\ pc'[p] \in {"lineups", "decide"}
    <3>1. DOMAIN pc = Runs /\ DOMAIN good = Runs /\ DOMAIN made = Runs
      BY DEF TypeOK
    <3>2. PICK l \in {"lineups", "decide"} : pc' = [pc EXCEPT ![p] = l]
      BY <2>1 DEF AfterAnswer, Goto
    <3>3. PICK g : good' = [good EXCEPT ![p] = g]
      BY <2>1 DEF AfterAnswer
    <3> QED BY <2>1, <3>1, <3>2, <3>3 DEF Asks, Granted
  <2>4. CASE Answered(p) \/ Blank(p) \/ Erroneous(p)
    BY <2>1, <2>4 DEF Answered, Blank, Erroneous, Fault, fileVars, faultVars
  <2>2. CASE Down(p)
    BY <2>2 DEF Down, Asks, Granted, AfterAnswer, Goto, Fault, Endpoints, TypeOK, fileVars
  <2>3. CASE Refused(p)
    BY <2>3 DEF Refused, Asks, Granted, Goto, Fault, TypeOK, fileVars, loopVars, faultVars
  <2> QED BY <2>2, <2>3, <2>4
<1>2. OneRun'
  BY <1>1, OneRunKept DEF BackfillInv, Endpoints
<1>3. QuotaInv'
  <2>1. Unspent(p)' = Unspent(p) - 1 /\ Unspent(p) >= 1 /\ Unspent(p) \in Int
    <3>1. /\ budget[p] \in Nat /\ made[p] \in Nat /\ made[p] < budget[p]
          /\ budget'[p] = budget[p] /\ made'[p] = made[p] + 1
      BY <1>1 DEF Asks, MayAsk, TypeOK
    <3> QED BY <3>1 DEF Unspent
  <2>2. PICK x \in Int : x = Unspent(p) - 1
    BY <2>1
  <2>3. Unspent(p)' = x /\ x < Unspent(p) /\ x <= Unspent(p) /\ 0 <= x
    BY <2>1, <2>2
  <2>4. used' = used => used' - probes' <= used - probes
    BY <1>1, BackfillBounds DEF TypeOK
  <2>5. "overlap" \notin faults' => used' + Unspent(p)' <= (DailyLimit - Reserve) + probes'
    BY <1>1, <2>3, <2>4, QuotaSum DEF BackfillInv, QuotaInv
  <2>6. x <= DailyLimit - Reserve
    BY <2>1, <2>2, BackfillBounds DEF BackfillInv, QuotaInv
  <2>7. 0 <= Unspent(p)' /\ Unspent(p)' <= DailyLimit - Reserve
    BY <2>3, <2>6, Zenon
  <2>8. pc'[p] \notin {"idle", "check", "seed", "quota"} /\ pc[p] # "idle"
    BY <1>1 DEF Endpoints
  <2> QED BY <1>1, <2>5, <2>7, <2>8, QuotaFrame DEF BackfillInv
<1>4. RawInv'
  <2>1. SeedDone' = SeedDone /\ (Trusted' => Trusted) /\ SeedDone \subseteq Fixtures
    BY <1>1, SeedDoneKept, SeedDoneType DEF Trusted
  <2>2. Fixture(p)' = Fixture(p) /\ Fixture(p) \in Fixtures /\ Fixture(p) \notin done[p]
    BY <1>1, FixtureOf DEF Fixture, BackfillInv, RawInv
  <2>3. \A f \in Fixtures, e \in Endpoints : raw[f][e] = "ok" => raw'[f][e] = "ok"
    <3>1. CASE Answered(p)
      BY <1>1, <3>1, PersistType DEF Answered
    <3>2. CASE raw' = raw
      BY <3>2
    <3> QED BY <3>1, <3>2 DEF Blank, Erroneous, Down, Refused, fileVars
  <2>4. \A f \in Fixtures : RawBacked(f) => RawBacked(f)'
    BY <2>3 DEF RawBacked
  <2>5. Trusted' => \A f \in SeedDone' \cup done'[p] : RawBacked(f)'
    <3>1. done[p] \subseteq Fixtures
      BY DEF TypeOK
    <3> QED BY <1>1, <2>1, <2>4, <3>1 DEF BackfillInv, RawInv
  <2>6. Trusted' => /\ pc'[p] = "lineups" /\ good'[p] => raw'[Fixture(p)']["events"] = "ok"
                    /\ pc'[p] = "decide" /\ good'[p] => RawBacked(Fixture(p))'
    <3>1. CASE Answered(p)
      <4>1. raw'[Fixture(p)][pc[p]] = "ok"
        BY <1>1, <3>1, PersistType DEF Answered
      <4>2. good'[p] => good[p]
        BY <3>1 DEF Answered, AfterAnswer, TypeOK
      <4>3. CASE pc[p] = "events"
        BY <2>2, <3>1, <4>1, <4>3 DEF Answered, AfterAnswer, At, Goto, TypeOK
      <4>4. CASE pc[p] = "lineups"
        <5>1. pc'[p] = "decide"
          BY <3>1, <4>4 DEF Answered, AfterAnswer, At, Goto, TypeOK
        <5>2. Trusted' /\ good'[p] => raw'[Fixture(p)]["events"] = "ok"
          BY <2>1, <2>2, <2>3, <4>2, <4>4 DEF BackfillInv, RawInv, Endpoints
        <5>3. Trusted' /\ good'[p] => RawBacked(Fixture(p))'
          BY <2>2, <4>1, <4>4, <5>2 DEF RawBacked, Endpoints
        <5> QED BY <5>1, <5>3
      <4> QED BY <1>1, <4>3, <4>4 DEF Endpoints
    <3>2. CASE Blank(p)
      BY <3>2 DEF Blank, Fault, Trusted
    <3>3. CASE Erroneous(p)
      BY <3>3 DEF Erroneous, AfterAnswer, TypeOK
    <3>4. CASE Down(p) /\ UNCHANGED <<pc, good>>
      BY <1>1, <2>1, <2>2, <2>3, <3>4 DEF Down, BackfillInv, RawInv, Endpoints, fileVars
    <3>5. CASE Down(p) /\ AfterAnswer(p, FALSE)
      BY <3>5 DEF AfterAnswer, TypeOK
    <3>6. CASE Refused(p)
      BY <3>6 DEF Refused, Goto, TypeOK
    <3> QED BY <3>1, <3>2, <3>3, <3>4, <3>5, <3>6 DEF Down
  <2>7. "overlap" \notin faults' /\ pc'[p] \in Seeded => SeedDone' \subseteq done'[p]
    BY <1>1, <2>1 DEF BackfillInv, RawInv, Seeded
  <2>8. pc'[p] \in Endpoints \cup {"decide"} => Fixture(p)' \notin done'[p]
    BY <1>1, <2>2
  <2>9. pc'[p] \notin {"idle", "check", "seed"} /\ pc[p] # "idle"
    BY <1>1 DEF Endpoints
  <2> QED BY <1>1, <2>3, <2>5, <2>6, <2>7, <2>8, <2>9, RawFrame DEF BackfillInv
<1> QED BY <1>2, <1>3, <1>4 DEF BackfillInv

LEMMA DayInv == TypeOK /\ BackfillInv /\ Day => BackfillInv'
<1> SUFFICES ASSUME TypeOK, BackfillInv, Day PROVE BackfillInv'
  OBVIOUS
<1>1. UNCHANGED <<file, saved, raw, pc, budget, made, done, at, good, faults>>
      /\ used' = 0 /\ probes' = 0
  BY DEF Day, fileVars, runVars, loopVars, faultVars
<1>2. OneRun' /\ RawInv'
  BY <1>1 DEF BackfillInv, OneRun, RawInv, SeedDone, RawBacked, Fixture, Trusted
<1>3. \A q \in Runs : Unspent(q)' = Unspent(q) /\ Unspent(q) \in Int
  BY <1>1, UnspentType DEF Unspent
<1>4. \A q \in Runs : used' + Unspent(q)' <= (DailyLimit - Reserve) + probes'
  BY <1>1, <1>3, BackfillBounds DEF BackfillInv, QuotaInv
<1>5. QuotaInv'
  BY <1>1, <1>3, <1>4 DEF BackfillInv, QuotaInv
<1> QED BY <1>2, <1>5 DEF BackfillInv

LEMMA NextInv == TypeOK /\ BackfillInv /\ [Next]_vars => BackfillInv'
<1> SUFFICES ASSUME TypeOK, BackfillInv, [Next]_vars PROVE BackfillInv'
  OBVIOUS
<1>1. TypeOK'
  BY NextType
<1>2. CASE UNCHANGED vars
  BY <1>2 DEF vars, dayVars, fileVars, runVars, loopVars, faultVars, BackfillInv, OneRun,
              QuotaInv, Unspent, RawInv, SeedDone, RawBacked, Fixture, Trusted
<1>3. ASSUME NEW p \in Runs, Prepares(p) PROVE BackfillInv'
  <2>1. CASE End(p) /\ (Check(p) \/ ProbeQuota(p))
    BY <1>1, <2>1, EndsInv
  <2>2. CASE End(p) /\ Seed(p)
    BY <2>2 DEF End, Seed, Goto, TypeOK
  <2> QED BY <1>1, <1>3, <2>1, <2>2, PreparesInv DEF Prepares
<1>4. ASSUME NEW p \in Runs, Requests(p) \/ Writes(p) PROVE BackfillInv'
  BY <1>1, <1>4, AsksInv, EndsInv, LoopsInv DEF Requests, Writes
<1> QED BY <1>1, <1>2, <1>3, <1>4, StartInv, EndsInv, LoopsInv, DayInv DEF Next

\* The inductive invariant: one run at a time unless runs overlap, what a run may still
\* ask for was free, and what a done list rests on is not written again.
THEOREM BackfillInvariant == Spec => [](TypeOK /\ BackfillInv)
<1> QED BY InitType, InitInv, NextType, NextInv, PTL DEF Spec

\* While backfills do not overlap, a day's requests leave the reserve to others
\* (quota_policy.py:14-17), but for the probes before a loop.
THEOREM ReserveIsKept == Spec => []ReserveKept
<1>1. TypeOK /\ BackfillInv => ReserveKept
  <2> SUFFICES ASSUME TypeOK, BackfillInv, "overlap" \notin faults
               PROVE  used <= (DailyLimit - Reserve) + probes
    BY DEF ReserveKept
  <2>1. "task" \in Runs
    BY DEF Runs
  <2>2. /\ used + Unspent("task") <= (DailyLimit - Reserve) + probes
        /\ 0 <= Unspent("task") /\ Unspent("task") \in Int
    BY <2>1, UnspentType DEF BackfillInv, QuotaInv
  <2>3. used \in Int /\ probes \in Int /\ DailyLimit \in Int /\ Reserve \in Int
    BY BackfillBounds DEF TypeOK
  <2> QED BY <2>2, <2>3
<1> QED BY <1>1, BackfillInvariant, PTL

\* The done fixtures have their raw files, unless an answer was blank, or an
\* overlapping run was cut while it wrote a file again.
THEOREM DoneRestsOnRaw == Spec => []DoneIsRawBacked
<1>1. BackfillInv => DoneIsRawBacked
  <2> SUFFICES ASSUME BackfillInv, Trusted,
                      NEW f \in SeedDone \cup UNION {done[p] : p \in Running}
               PROVE  RawBacked(f)
    BY DEF DoneIsRawBacked, Trusted
  <2>1. \E p \in Runs : f \in SeedDone \cup done[p]
    BY DEF Running, Runs
  <2> QED BY <2>1 DEF BackfillInv, RawInv
<1> QED BY <1>1, BackfillInvariant, PTL
-----------------------------------------------------------------------------
(* Progress: what makes the backfill complete in the end *)

\* A fixture that progress.json calls done is not asked for again
\* (complete_full_player_history_backfill.py:125), while runs do not overlap.
NothingAskedTwice ==
  "overlap" \notin faults =>
    \A p \in Runs : pc[p] \in Endpoints => Fixture(p) \notin SeedDone

\* The test of the done list before each fixture (line 125) spends no request twice.
THEOREM DoneIsNotAskedAgain == Spec => []NothingAskedTwice
<1>1. BackfillInv => NothingAskedTwice
  BY DEF BackfillInv, RawInv, NothingAskedTwice, Seeded
<1> QED BY <1>1, BackfillInvariant, PTL

\* While runs do not overlap, what is known to be done only grows, from run to run and
\* from day to day, however many runs are killed, refused or out of quota: only a write
\* of progress.json that is cut (complete_full_player_history_backfill.py:138, :140)
\* takes something back, and then all of it but the prior pull.
ProgressStays ==
  [][ "overlap" \notin faults' =>
        \/ SeedDone \subseteq SeedDone'
        \/ SeedDone' = Prior /\ \E p \in Runs : Cut(p) ]_vars

\* What BackfillCompletes rests on: progress.json loses a done fixture to a cut only.
THEOREM ProgressOnlyGrows == Spec => ProgressStays
<1>1. ASSUME TypeOK, BackfillInv, [Next]_vars, "overlap" \notin faults',
             ~(SeedDone' = Prior /\ \E p \in Runs : Cut(p))
      PROVE  SeedDone \subseteq SeedDone'
  <2>1. CASE UNCHANGED <<file, saved>>
    BY <2>1, SeedDoneKept
  <2>2. ASSUME NEW p \in Runs, Save(p) \/ Final(p) PROVE SeedDone \subseteq SeedDone'
    <3>1. pc[p] \in Seeded /\ faults' = faults /\ file' = "ok" /\ saved' = done[p]
      BY <2>2 DEF Save, Final, LeaveLoop, At, Seeded, WriteProgress, faultVars
    <3>2. SeedDone \subseteq done[p]
      BY <1>1, <3>1 DEF BackfillInv, RawInv
    <3>3. SeedDone' = Prior \cup done[p]
      BY <3>1 DEF SeedDone
    <3> QED BY <3>2, <3>3
  <2>3. ASSUME NEW p \in Runs, Cut(p) PROVE SeedDone \subseteq SeedDone'
    <3>1. CASE file' = "torn"
      BY <1>1, <2>3, <3>1 DEF SeedDone
    <3>2. CASE UNCHANGED <<file, saved>>
      BY <3>2, SeedDoneKept
    <3> QED BY <2>3, <3>1, <3>2 DEF Cut
  <2>4. ASSUME NEW p \in Runs,
               Start(p) \/ Prepares(p) \/ ProbeFails(p) \/ Loops(p) \/ Requests(p)
                 \/ ProbeAfter(p) \/ Kill(p)
        PROVE  UNCHANGED <<file, saved>>
    BY <2>4 DEF Start, Prepares, Check, Seed, ProbeQuota, ProbeFails, Loops, NextFixture,
       OutOfBudget, Decide, Requests, Answered, Blank, Erroneous, Down, Refused, Lost, ProbeAfter,
       Kill, fileVars, Persist
  <2>5. CASE Day \/ UNCHANGED vars
    BY <2>1, <2>5 DEF Day, vars, fileVars
  <2> QED BY <1>1, <2>1, <2>2, <2>3, <2>4, <2>5 DEF Next, Writes
<1>2. TypeOK /\ BackfillInv /\ [Next]_vars
        => ["overlap" \notin faults' =>
              \/ SeedDone \subseteq SeedDone'
              \/ SeedDone' = Prior /\ \E p \in Runs : Cut(p)]_vars
  BY <1>1
<1> QED BY <1>2, BackfillInvariant, PTL DEF Spec, ProgressStays
=============================================================================
