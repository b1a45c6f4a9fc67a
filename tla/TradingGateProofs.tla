--------------------------- MODULE TradingGateProofs ---------------------------
(***************************************************************************)
(* For every policy, market, strategy, account and number of desks: what   *)
(* the risk gate and the strategy promise of an event, up to the orders    *)
(* that were judged or sized on old files.                                 *)
(***************************************************************************)
EXTENDS TradingGate, TLAPS

(***************************************************************************)
(* The inductive invariant.                                                *)
(***************************************************************************)

Busy(d) == hand[d] # Idle
Taken(d) == intents[hand[d].intent]

\* An order under way passed the gate, and stands for an intent on file.
Judged == \A d \in Desks : Busy(d) =>
  /\ hand[d].intent \in DOMAIN intents
  /\ hand[d].id = OrderId(hand[d].intent)
  /\ Sized(Taken(d)) /\ Worth(Taken(d))
  /\ hand[d].seen + Cost(Taken(d)) <= MaxEventExposure

\* The strategy's intents: a reduction lacks the edge the gate asks for, and a
\* purchase reaches the target from the position it was sized on.
Proposed == \A k \in DOMAIN intents :
  /\ intents[k].side = "ask" => ~Worth(intents[k])
  /\ intents[k].base >= 0 /\ intents[k].side = "bid"
       => intents[k].base + intents[k].contracts <= MaxContracts

\* An intent that was filled by its own identifier cannot be again.
Remembered == \A k \in 1 .. MaxIntents :
  /\ k \notin DOMAIN intents => fills[k] = 0 /\ k \notin executed
  /\ k \in DOMAIN intents /\ intents[k].named =>
       fills[k] <= 1 /\ (fills[k] # 0 => k \in executed)

TradeInv == /\ TypeOK /\ Judged /\ Proposed /\ Remembered
            /\ ExposureCapped /\ TargetHeld

LEMMA BoundTypes ==
  /\ MaxContracts \in Nat /\ RiskBudget \in Nat /\ EntryMargin \in Nat /\ ExitBuffer \in Nat
  /\ FeeBuffer \in Nat /\ MaxOrderCost \in Nat /\ MaxEventExposure \in Nat /\ MinEdge \in Nat
  /\ MaxContractsPerOrder \in Nat /\ MaxIntents \in Nat
BY TradingBounds

\* A smaller number of contracts costs no more.
LEMMA CostGrows ==
  ASSUME NEW a \in Nat, NEW b \in Nat, NEW c \in Nat, a <= b
  PROVE  a * c <= c * b /\ a * c \in Nat
<1>1. PICK x \in Nat : b = a + x
  BY b - a \in Nat, b = a + (b - a)
<1>2. c * b = a * c + c * x
  BY <1>1
<1>3. c * x \in Nat /\ a * c \in Nat
  BY <1>1
<1> QED BY <1>2, <1>3

LEMMA TargetBound ==
  ASSUME NEW l \in Percent
  PROVE  Target(l) \in Int /\ Target(l) <= MaxContracts
<1>1. l * (100 - l) \in Int /\ RiskBudget * RiskBudget \in Int
  BY BoundTypes DEF Percent
<1>2. Variance(l) \in Nat /\ Variance(l) >= 1
  BY <1>1 DEF Variance, AtLeast
<1>3. (RiskBudget * RiskBudget) \div Variance(l) \in Int
  BY <1>1, <1>2
<1> QED BY <1>3, BoundTypes DEF Target, AtMost, AtLeast

\* The number of blind fills times a cap, one fill later.
LEMMA OneMore ==
  ASSUME NEW cap \in Nat, NEW n \in Nat
  PROVE  cap * (n + 1) = cap * n + cap /\ cap * n \in Nat
OBVIOUS

\* A bound that grows by the cap with each such fill survives one of them.
LEMMA CapStep ==
  ASSUME NEW lim \in Nat, NEW cap \in Nat, NEW n \in Nat, NEW x \in Nat, NEW step \in Int,
         x <= lim + cap * n, step <= cap
  PROVE  x + step <= lim + cap * (n + 1)
<1>1. cap * (n + 1) = cap * n + cap /\ cap * n \in Nat
  BY OneMore
<1> QED BY <1>1

LEMMA InitInv == Init => TradeInv
<1> SUFFICES ASSUME Init PROVE TradeInv
  OBVIOUS
<1>1. PICK q \in Quotes : quote = [bid |-> q.bid, ask |-> q.ask, status |-> q.status, at |-> 0]
  BY DEF Init
<1>2. PICK a \in Accounts : portfolio = StateOf(a)
  BY DEF Init
<1>3. q \in Market /\ a \in Account /\ policy \in Policy
  BY TradingBounds DEF Init
<1>4. intents \in Seq(IntentFile) /\ Len(intents) = 0 /\ DOMAIN intents = {}
  BY DEF Init
<1>5. fills \in [1 .. MaxIntents -> Nat] /\ \A k \in 1 .. MaxIntents : fills[k] = 0
  BY DEF Init
<1>6. hand \in [Desks -> [intent : Nat, id : Nat, seen : Nat]]
      /\ \A d \in Desks : ~Busy(d)
  BY DEF Init, Idle, Busy
<1>7. TypeOK
  <2>1. quote \in [bid : Percent, ask : Percent, status : {"open", "closed"}, at : Nat]
    BY <1>1, <1>3 DEF Market
  <2>2. portfolio \in [exposure : Nat, pnl : Int, open : Nat, versions : SUBSET Versions]
    BY <1>2, <1>3 DEF StateOf, Account, Init
  <2> QED BY <1>3, <1>4, <1>5, <1>6, <2>1, <2>2, BoundTypes DEF Init, TypeOK
<1>8. Judged
  BY <1>6 DEF Judged, Busy
<1>9. Proposed /\ Remembered
  BY <1>4, <1>5 DEF Proposed, Remembered, Init
<1>10. ExposureCapped /\ TargetHeld
  BY BoundTypes DEF ExposureCapped, TargetHeld, Init
<1> QED BY <1>7, <1>8, <1>9, <1>10 DEF TradeInv

(***************************************************************************)
(* An intent file is added; nothing else changes.                          *)
(***************************************************************************)
LEMMA WriteInv ==
  ASSUME TradeInv, NEW i \in IntentFile, Write(i),
         i.side = "ask" => ~Worth(i),
         i.base >= 0 /\ i.side = "bid" => i.base + i.contracts <= MaxContracts
  PROVE  TradeInv'
<1> DEFINE m == Len(intents) + 1
<1>1. intents \in Seq(IntentFile) /\ Len(intents) < MaxIntents /\ MaxIntents \in Nat
  BY BoundTypes DEF TradeInv, TypeOK, Write
<1>2. /\ intents' = Append(intents, i)
      /\ UNCHANGED <<now, policy, quote, position, portfolio, hand,
                     executed, held, exposure, fills, blind, crossed>>
  BY DEF Write
<1>3. /\ intents' \in Seq(IntentFile) /\ Len(intents') = m /\ m <= MaxIntents /\ m \in Nat
      /\ DOMAIN intents' = 1 .. m /\ DOMAIN intents = 1 .. Len(intents)
      /\ intents'[m] = i
      /\ \A k \in DOMAIN intents : intents'[k] = intents[k]
  BY <1>1, <1>2
<1>4. TypeOK'
  BY <1>2, <1>3 DEF TradeInv, TypeOK
<1>5. Judged'
  <2> SUFFICES ASSUME NEW d \in Desks, Busy(d)'
               PROVE  /\ hand'[d].intent \in DOMAIN intents'
                      /\ hand'[d].id = OrderId(hand[d].intent)'
                      /\ Sized(Taken(d))' /\ Worth(Taken(d))'
                      /\ (hand[d].seen + Cost(Taken(d)) <= MaxEventExposure)'
    BY <1>2 DEF Judged
  <2>1. hand' = hand /\ Busy(d)
    BY <1>2 DEF Busy
  <2>2. hand[d].intent \in DOMAIN intents /\ hand[d].intent \in DOMAIN intents'
    BY <2>1, <1>3 DEF TradeInv, Judged
  <2>3. Taken(d)' = Taken(d) /\ OrderId(hand[d].intent)' = OrderId(hand[d].intent)
    BY <2>1, <2>2, <1>3 DEF Taken, OrderId
  <2> QED BY <2>1, <2>2, <2>3 DEF TradeInv, Judged, Sized, Worth, Cost
<1>6. Proposed'
  <2> SUFFICES ASSUME NEW k \in 1 .. m
               PROVE  /\ intents'[k].side = "ask" => ~Worth(intents'[k])
                      /\ intents'[k].base >= 0 /\ intents'[k].side = "bid"
                           => intents'[k].base + intents'[k].contracts <= MaxContracts
    BY <1>3 DEF Proposed, Worth
  <2>1. CASE k = m
    BY <2>1, <1>3
  <2>2. CASE k # m
    <3>1. k \in DOMAIN intents
      BY <2>2, <1>1, <1>3
    <3> QED BY <3>1, <1>3 DEF TradeInv, Proposed
  <2> QED BY <2>1, <2>2
<1>7. Remembered'
  <2> SUFFICES ASSUME NEW k \in 1 .. MaxIntents
               PROVE  /\ k \notin 1 .. m => fills[k] = 0 /\ k \notin executed
                      /\ k \in 1 .. m /\ intents'[k].named =>
                           fills[k] <= 1 /\ (fills[k] # 0 => k \in executed)
    BY <1>2, <1>3 DEF Remembered
  <2>1. CASE k \in DOMAIN intents
    BY <2>1, <1>1, <1>3 DEF TradeInv, Remembered
  <2>2. CASE k \notin DOMAIN intents
    BY <2>2 DEF TradeInv, Remembered
  <2> QED BY <2>1, <2>2
<1>8. ExposureCapped' /\ TargetHeld'
  BY <1>2 DEF TradeInv, ExposureCapped, TargetHeld
<1> QED BY <1>4, <1>5, <1>6, <1>7, <1>8 DEF TradeInv

LEMMA IntentType ==
  ASSUME NEW side \in {"bid", "ask"}, NEW price \in Percent, NEW n \in Int, NEW l \in Percent,
         now \in Nat, position \in Nat
  PROVE  Intent(side, price, n, l) \in IntentFile
<1>1. price \in Nat /\ position \in Int
  BY DEF Percent
<1>2. ModelVersion \in Versions
  BY TradingBounds
<1>3. "approved" \in {"approved", "shadow", "unnamed"} /\ TRUE \in BOOLEAN
  BY Zenon
<1> HIDE DEF Percent
<1> QED BY <1>1, <1>2, <1>3 DEF Intent, IntentFile

LEMMA BuyInv ==
  ASSUME TradeInv, NEW l \in Lowers, Buy(l)
  PROVE  TradeInv'
<1> DEFINE i == Intent("bid", quote.ask, Target(l) - position, l)
<1>1. l \in Percent /\ quote.ask \in Percent /\ position \in Nat /\ now \in Nat
  BY TradingBounds DEF TradeInv, TypeOK
<1>2. Target(l) \in Int /\ Target(l) <= MaxContracts
  BY <1>1, TargetBound
<1>3. i \in IntentFile
  BY <1>1, <1>2, IntentType
<1>4. i.side = "bid" /\ i.base = position /\ i.contracts = Target(l) - position
  BY DEF Intent
<1>5. i.base + i.contracts <= MaxContracts
  BY <1>1, <1>2, <1>4
<1>6. Write(i)
  BY DEF Buy
<1> QED BY <1>3, <1>4, <1>5, <1>6, WriteInv

LEMMA ReduceInv ==
  ASSUME TradeInv, NEW l \in Lowers, Reduce(l)
  PROVE  TradeInv'
<1> DEFINE i == Intent("ask", quote.bid, position, l)
<1>1. l \in Percent /\ quote.bid \in Percent /\ position \in Nat /\ now \in Nat
  BY TradingBounds DEF TradeInv, TypeOK
<1>2. i \in IntentFile
  <2>1. position \in Int
    BY <1>1
  <2> QED BY <1>1, <2>1, IntentType
<1>3. i.side = "ask" /\ i.lower = l /\ i.market = quote.bid
  BY DEF Intent
<1>4. l - quote.bid - FeeBuffer < -ExitBuffer
  BY DEF Reduce, Reduces
<1>5. ~Worth(i)
  BY <1>1, <1>3, <1>4, BoundTypes, TradingThresholds DEF Worth, Percent
<1>6. Write(i)
  BY DEF Reduce
<1> QED BY <1>2, <1>3, <1>5, <1>6, WriteInv

LEMMA DraftInv ==
  ASSUME TradeInv, NEW d \in Drafts, DraftIntent(d)
  PROVE  TradeInv'
<1>1. d \in Draft /\ now \in Nat
  BY TradingBounds DEF TradeInv, TypeOK
<1> DEFINE i == [side |-> "bid", price |-> d.price, contracts |-> d.contracts, lower |-> d.lower,
                 market |-> d.market, version |-> d.version, model |-> d.model, at |-> now,
                 named |-> FALSE, base |-> -1]
<1>2. i \in IntentFile
  <2>1. /\ d.price \in Nat /\ d.contracts \in Int /\ d.lower \in Percent /\ d.market \in Nat
        /\ d.version \in Versions /\ d.model \in {"approved", "shadow", "unnamed"}
    BY <1>1 DEF Draft, Percent
  <2>2. -1 \in Int /\ "bid" \in {"bid", "ask"} /\ FALSE \in BOOLEAN
    OBVIOUS
  <2> QED BY <1>1, <2>1, <2>2 DEF IntentFile
<1>3. Write(i)
  BY DEF DraftIntent
<1>4. i.side = "bid" /\ ~(i.base >= 0)
  OBVIOUS
<1> QED BY <1>2, <1>3, <1>4, WriteInv

(***************************************************************************)
(* An order is judged and sent.                                            *)
(***************************************************************************)
OrderRecord == [intent : Nat, id : Nat, seen : Nat]

LEMMA SubmitInv ==
  ASSUME TradeInv, NEW d \in Desks, NEW k \in DOMAIN intents, NEW s \in {portfolio, NoState},
         NEW c \in BOOLEAN, Submit(d, k, s, c)
  PROVE  TradeInv'
<1> DEFINE o == [intent |-> k, id |-> OrderId(k), seen |-> s.exposure]
<1>1. /\ hand' = [hand EXCEPT ![d] = o] /\ Approved(intents[k], quote, s) /\ Sends(c)
      /\ UNCHANGED <<now, policy, files, exchange>>
  BY DEF Submit
<1>2. k \in Nat /\ k \in 1 .. MaxIntents /\ k # 0
  <2>1. intents \in Seq(IntentFile) /\ Len(intents) <= MaxIntents
    BY DEF TradeInv, TypeOK
  <2> QED BY <2>1, BoundTypes
<1>3. o \in OrderRecord
  <2>1. portfolio.exposure \in Nat /\ now \in Nat
    BY DEF TradeInv, TypeOK
  <2>2. s.exposure \in Nat
    BY <2>1 DEF NoState
  <2>3. OrderId(k) \in Nat
    BY <1>2 DEF OrderId
  <2> QED BY <1>2, <2>1, <2>2, <2>3 DEF OrderRecord
<1>4. hand \in [Desks -> OrderRecord]
  BY DEF TradeInv, TypeOK, OrderRecord
<1>5. hand' \in [Desks -> OrderRecord] /\ hand'[d] = o
      /\ \A e \in Desks \ {d} : hand'[e] = hand[e]
  BY <1>1, <1>3, <1>4
<1>6. UNCHANGED <<quote, position, portfolio, intents>>
      /\ UNCHANGED <<executed, held, exposure, fills, blind, crossed>>
  BY <1>1 DEF files, exchange
<1>7. TypeOK'
  BY <1>1, <1>5, <1>6 DEF TradeInv, TypeOK, OrderRecord
<1>8. Judged'
  <2> SUFFICES ASSUME NEW e \in Desks, Busy(e)'
               PROVE  /\ hand'[e].intent \in DOMAIN intents
                      /\ hand'[e].id = OrderId(hand'[e].intent)
                      /\ Sized(intents[hand'[e].intent]) /\ Worth(intents[hand'[e].intent])
                      /\ hand'[e].seen + Cost(intents[hand'[e].intent]) <= MaxEventExposure
    BY <1>6 DEF Judged, Taken, Sized, Worth, Cost, OrderId
  <2>1. CASE e = d
    <3>1. Sized(intents[k]) /\ Worth(intents[k]) /\ s.exposure + Cost(intents[k]) <= MaxEventExposure
      BY <1>1 DEF Approved, Roomy
    <3> QED BY <2>1, <3>1, <1>5
  <2>2. CASE e # d
    <3>1. hand'[e] = hand[e] /\ Busy(e)
      BY <2>2, <1>5 DEF Busy
    <3> QED BY <3>1 DEF TradeInv, Judged, Taken
  <2> QED BY <2>1, <2>2
<1>9. Proposed' /\ Remembered' /\ ExposureCapped' /\ TargetHeld'
  BY <1>6 DEF TradeInv, Proposed, Worth, Remembered, ExposureCapped, TargetHeld
<1> QED BY <1>7, <1>8, <1>9 DEF TradeInv

(***************************************************************************)
(* A desk that ends leaves the others' orders as they are.                 *)
(***************************************************************************)
LEMMA HandOver ==
  ASSUME TradeInv, NEW d \in Desks, hand' = [hand EXCEPT ![d] = Idle],
         UNCHANGED <<now, policy, files>>
  PROVE  /\ hand' \in [Desks -> OrderRecord]
         /\ Judged' /\ Proposed'
<1>1. hand \in [Desks -> OrderRecord] /\ Idle \in OrderRecord
  BY DEF TradeInv, TypeOK, OrderRecord, Idle
<1>2. hand' \in [Desks -> OrderRecord] /\ hand'[d] = Idle
      /\ \A e \in Desks \ {d} : hand'[e] = hand[e]
  BY <1>1
<1>3. intents' = intents
  BY DEF files
<1>4. Judged'
  <2> SUFFICES ASSUME NEW e \in Desks, Busy(e)'
               PROVE  /\ hand'[e].intent \in DOMAIN intents
                      /\ hand'[e].id = OrderId(hand'[e].intent)
                      /\ Sized(intents[hand'[e].intent]) /\ Worth(intents[hand'[e].intent])
                      /\ hand'[e].seen + Cost(intents[hand'[e].intent]) <= MaxEventExposure
    <3>1. \A e \in Desks : /\ Taken(e)' = intents[hand'[e].intent]
                           /\ OrderId(hand[e].intent)' = OrderId(hand'[e].intent)
      BY <1>3 DEF Taken, OrderId
    <3> QED BY <1>3, <3>1 DEF Judged, Sized, Worth, Cost
  <2>1. hand'[e] = hand[e] /\ Busy(e)
    BY <1>2 DEF Busy
  <2> QED BY <2>1 DEF TradeInv, Judged, Taken
<1>5. Proposed'
  BY <1>3 DEF TradeInv, Proposed, Worth
<1> QED BY <1>2, <1>4, <1>5

LEMMA RefuseInv == ASSUME TradeInv, NEW d \in Desks, Refuse(d) PROVE TradeInv'
<1>1. /\ hand' = [hand EXCEPT ![d] = Idle] /\ UNCHANGED <<now, policy, files>>
      /\ UNCHANGED <<quote, position, portfolio, intents>>
      /\ UNCHANGED <<executed, held, exposure, fills, blind, crossed>>
  BY DEF Refuse, files, exchange
<1>2. hand' \in [Desks -> OrderRecord] /\ Judged' /\ Proposed'
  BY <1>1, HandOver
<1>3. TypeOK'
  BY <1>1, <1>2 DEF TradeInv, TypeOK, OrderRecord
<1>4. Remembered' /\ ExposureCapped' /\ TargetHeld'
  BY <1>1 DEF TradeInv, Remembered, ExposureCapped, TargetHeld
<1> QED BY <1>2, <1>3, <1>4 DEF TradeInv

(***************************************************************************)
(* The exchange fills an order.                                            *)
(***************************************************************************)
LEMMA FillInv ==
  ASSUME TradeInv, NEW d \in Desks, NEW n \in 1 .. MaxContractsPerOrder, Fill(d, n)
  PROVE  TradeInv'
<1> DEFINE o == hand[d]
           k == hand[d].intent
           i == intents[hand[d].intent]
<1>1. /\ Busy(d) /\ o.id \notin executed /\ n \in 1 .. i.contracts
      /\ executed' = executed \cup ({o.id} \ {0})
      /\ held' = IF i.side = "bid" THEN held + n ELSE held - n
      /\ exposure' = exposure + n * i.price
      /\ fills' = [fills EXCEPT ![k] = @ + 1]
      /\ blind' = IF o.seen # exposure THEN blind + 1 ELSE blind
      /\ crossed' = IF i.base # held THEN crossed + 1 ELSE crossed
      /\ hand' = [hand EXCEPT ![d] = Idle]
      /\ UNCHANGED <<now, policy, files>>
  BY DEF Fill, Busy
<1>2. UNCHANGED <<quote, position, portfolio, intents>>
  BY <1>1 DEF files
<1>3. /\ k \in DOMAIN intents /\ o.id = OrderId(k) /\ Sized(i) /\ Worth(i)
      /\ o.seen + Cost(i) <= MaxEventExposure
  BY <1>1 DEF TradeInv, Judged, Taken
<1>4. i \in IntentFile /\ k \in 1 .. MaxIntents /\ k \in Nat /\ k # 0
  <2>1. intents \in Seq(IntentFile) /\ Len(intents) <= MaxIntents
    BY DEF TradeInv, TypeOK
  <2> QED BY <1>3, <2>1, BoundTypes
<1>5. i.price \in Nat /\ i.contracts \in Int /\ i.base \in Int /\ i.side \in {"bid", "ask"}
  BY <1>4 DEF IntentFile
<1>6. /\ held \in Nat /\ exposure \in Nat /\ blind \in Nat /\ crossed \in Nat
      /\ fills \in [1 .. MaxIntents -> Nat] /\ executed \subseteq Nat
      /\ o.seen \in Nat /\ o.id \in Nat
  BY DEF TradeInv, TypeOK
<1>7. i.side = "bid" /\ held' = held + n /\ held' \in Nat
  <2>1. i.side # "ask"
    BY <1>3 DEF TradeInv, Proposed
  <2> QED BY <2>1, <1>1, <1>5, <1>6
<1>8. PICK paid \in Nat : /\ exposure' = exposure + paid
                         /\ paid <= Cost(i) /\ Cost(i) \in Nat /\ Cost(i) <= MaxOrderCost
  <2>1. n \in Nat /\ i.contracts \in Nat /\ n <= i.contracts
    BY <1>1, <1>5
  <2>2. n * i.price <= i.price * i.contracts /\ n * i.price \in Nat
    BY <2>1, <1>5, CostGrows
  <2>3. i.price * i.contracts \in Nat
    BY <2>1, <1>5, CostGrows
  <2>4. Cost(i) = i.price * i.contracts /\ Cost(i) <= MaxOrderCost
    BY <1>3 DEF Cost, Sized
  <2>5. exposure' = exposure + n * i.price
    BY <1>1
  <2> QED BY <2>2, <2>3, <2>4, <2>5
<1>9. hand' \in [Desks -> OrderRecord] /\ Judged' /\ Proposed'
  BY <1>1, HandOver
<1>10. TypeOK'
  <2>1. exposure' \in Nat /\ blind' \in Nat /\ crossed' \in Nat /\ held' \in Nat
    <3>2. exposure' \in Nat
      BY <1>6, <1>8
    <3>3. (blind' = blind + 1 \/ blind' = blind) /\ (crossed' = crossed + 1 \/ crossed' = crossed)
      BY <1>1
    <3> QED BY <3>2, <3>3, <1>6, <1>7
  <2>2. fills' \in [1 .. MaxIntents -> Nat] /\ executed' \subseteq Nat
    <3>1. fills' = [fills EXCEPT ![k] = @ + 1] /\ fills \in [1 .. MaxIntents -> Nat]
      BY <1>1, <1>6
    <3>2. fills' \in [1 .. MaxIntents -> Nat]
      BY <3>1, <1>4
    <3>3. executed' \subseteq executed \cup {o.id}
      BY <1>1
    <3> QED BY <3>2, <3>3, <1>6
  <2> QED BY <1>1, <1>2, <1>9, <2>1, <2>2 DEF TradeInv, TypeOK, OrderRecord
<1>11. Remembered'
  <2> SUFFICES ASSUME NEW j \in 1 .. MaxIntents
               PROVE  /\ j \notin DOMAIN intents => fills'[j] = 0 /\ j \notin executed'
                      /\ j \in DOMAIN intents /\ intents[j].named =>
                           fills'[j] <= 1 /\ (fills'[j] # 0 => j \in executed')
    BY <1>2 DEF Remembered
  <2>1. executed \subseteq executed' /\ (j \in executed' => j \in executed \/ j = o.id)
    BY <1>1
  <2>2. o.id = k \/ o.id = 0
    BY <1>3 DEF OrderId
  <2>3. CASE j # k
    BY <2>1, <2>2, <2>3, <1>1, <1>6 DEF TradeInv, Remembered
  <2>4. CASE j = k
    <3>1. intents[j].named => o.id = j
      BY <2>4, <1>3 DEF OrderId
    <3>2. intents[j].named => fills[j] = 0
      BY <3>1, <1>1, <1>3, <2>4 DEF TradeInv, Remembered
    <3>3. fills'[j] = fills[j] + 1
      BY <2>4, <1>1, <1>6
    <3>4. intents[j].named => j \in executed'
      BY <3>1, <1>1, <1>4, <2>4
    <3> QED BY <3>2, <3>3, <3>4, <1>3, <2>4
  <2> QED BY <2>3, <2>4
<1>12. ExposureCapped'
  <2>1. MaxOrderCost \in Nat /\ MaxEventExposure \in Nat /\ MaxOrderCost * blind \in Nat
    BY <1>6, BoundTypes, OneMore
  <2>2. exposure <= MaxEventExposure + MaxOrderCost * blind
    BY DEF TradeInv, ExposureCapped
  <2>3. CASE o.seen = exposure
    <3>1. blind' = blind
      BY <2>3, <1>1
    <3>2. exposure + Cost(i) <= MaxEventExposure
      BY <2>3, <1>3
    <3>3. exposure' <= MaxEventExposure
      BY <2>1, <3>2, <1>6, <1>8
    <3>4. exposure' \in Nat
      BY <1>6, <1>8
    <3> QED BY <2>1, <3>1, <3>3, <3>4 DEF ExposureCapped
  <2>4. CASE o.seen # exposure
    <3>1. blind' = blind + 1
      BY <2>4, <1>1
    <3>2. paid <= MaxOrderCost
      BY <1>8, <2>1
    <3>3. exposure + paid <= MaxEventExposure + MaxOrderCost * (blind + 1)
      BY <2>1, <2>2, <3>2, <1>6, CapStep
    <3> QED BY <3>1, <3>3, <1>8 DEF ExposureCapped
  <2> QED BY <2>3, <2>4
<1>13. TargetHeld'
  <2>1. /\ MaxContracts \in Nat /\ MaxContractsPerOrder \in Nat
        /\ MaxContractsPerOrder * crossed \in Nat
    BY <1>6, BoundTypes, OneMore
  <2>2. held <= MaxContracts + MaxContractsPerOrder * crossed
    BY DEF TradeInv, TargetHeld
  <2>3. n \in Nat /\ n <= i.contracts /\ i.contracts <= MaxContractsPerOrder
    BY <1>1, <1>3, <1>5 DEF Sized
  <2>4. CASE i.base = held
    <3>1. crossed' = crossed
      BY <2>4, <1>1
    <3>2. held + i.contracts <= MaxContracts
      BY <2>4, <1>3, <1>6, <1>7 DEF TradeInv, Proposed
    <3>3. held + n <= MaxContracts
      <4>1. held \in Nat /\ i.contracts \in Int /\ MaxContracts \in Nat
        BY <1>5, <1>6, BoundTypes
      <4>2. n \in Nat /\ n <= i.contracts
        BY <2>3
      <4> HIDE DEF i
      <4> QED BY <3>2, <4>1, <4>2
    <3>4. held' <= MaxContracts
      BY <3>3, <1>7
    <3> QED BY <2>1, <3>1, <3>4, <1>7 DEF TargetHeld
  <2>5. CASE i.base # held
    <3>1. crossed' = crossed + 1
      BY <2>5, <1>1
    <3>2. n <= MaxContractsPerOrder
      BY <2>1, <2>3, <1>5
    <3>3. held + n <= MaxContracts + MaxContractsPerOrder * (crossed + 1)
      BY <2>1, <2>2, <2>3, <3>2, <1>6, CapStep
    <3> QED BY <3>1, <3>3, <1>7 DEF TargetHeld
  <2> QED BY <2>4, <2>5
<1> QED BY <1>9, <1>10, <1>11, <1>12, <1>13 DEF TradeInv

(***************************************************************************)
(* The files and the clock.                                                *)
(***************************************************************************)
LEMMA FilesInv ==
  ASSUME TradeInv,
         \/ \E q \in Quotes : Observe(q)
         \/ \E a \in Accounts : Report(a)
         \/ Reconcile
         \/ Tick
  PROVE  TradeInv'
<1>1. /\ UNCHANGED <<policy, intents, hand>>
      /\ UNCHANGED <<executed, held, exposure, fills, blind, crossed>>
  BY DEF Observe, Report, Reconcile, Tick, files, exchange
<1>2. now' \in Nat
  <2>1. now \in Nat
    BY DEF TradeInv, TypeOK
  <2> QED BY <2>1 DEF Observe, Report, Reconcile, Tick
<1>3. quote' \in [bid : Percent, ask : Percent, status : {"open", "closed"}, at : Nat]
  <2>1. CASE quote' = quote
    BY <2>1 DEF TradeInv, TypeOK
  <2>2. ASSUME NEW q \in Quotes, Observe(q) PROVE quote' \in [bid : Percent, ask : Percent, status : {"open", "closed"}, at : Nat]
    <3>1. q \in Market /\ now \in Nat
      BY TradingBounds DEF TradeInv, TypeOK
    <3> QED BY <2>2, <3>1 DEF Observe, Market
  <2> QED BY <2>1, <2>2 DEF Report, Reconcile, Tick, files
<1>4. position' \in Nat
  <2>1. position \in Nat /\ held \in Nat
    BY DEF TradeInv, TypeOK
  <2> QED BY <2>1 DEF Observe, Report, Reconcile, Tick, files
<1>5. portfolio' \in [exposure : Nat, pnl : Int, open : Nat, versions : SUBSET Versions]
  <2>1. CASE portfolio' = portfolio
    BY <2>1 DEF TradeInv, TypeOK
  <2>2. ASSUME NEW a \in Accounts, Report(a)
         PROVE portfolio' \in [exposure : Nat, pnl : Int, open : Nat, versions : SUBSET Versions]
    <3>1. a \in Account /\ exposure \in Nat
      BY TradingBounds DEF TradeInv, TypeOK
    <3> QED BY <2>2, <3>1 DEF Report, StateOf, Account
  <2> QED BY <2>1, <2>2 DEF Observe, Reconcile, Tick, files
<1>6. TypeOK'
  BY <1>1, <1>2, <1>3, <1>4, <1>5 DEF TradeInv, TypeOK
<1>7. Judged' /\ Proposed' /\ Remembered'
  BY <1>1 DEF TradeInv, Judged, Busy, Taken, OrderId, Sized, Worth, Cost, Proposed, Remembered
<1>8. ExposureCapped' /\ TargetHeld'
  BY <1>1 DEF TradeInv, ExposureCapped, TargetHeld
<1> QED BY <1>6, <1>7, <1>8 DEF TradeInv

(***************************************************************************)
(* Theorems.                                                               *)
(***************************************************************************)
LEMMA StepInv == TradeInv /\ [Next]_vars => TradeInv'
<1> SUFFICES ASSUME TradeInv, [Next]_vars PROVE TradeInv'
  OBVIOUS
<1>1. CASE UNCHANGED vars
  BY <1>1 DEF vars, files, exchange, TradeInv, TypeOK, Judged, Busy, Taken, OrderId, Sized,
              Worth, Cost, Proposed, Remembered, ExposureCapped, TargetHeld
<1>2. ASSUME NEW l \in Lowers, Buy(l) \/ Reduce(l) PROVE TradeInv'
  BY <1>2, BuyInv, ReduceInv
<1>3. ASSUME NEW d \in Drafts, DraftIntent(d) PROVE TradeInv'
  BY <1>3, DraftInv
<1>4. ASSUME NEW d \in Desks, NEW k \in DOMAIN intents, NEW s \in {portfolio, NoState},
             NEW c \in BOOLEAN, Submit(d, k, s, c)
      PROVE  TradeInv'
  BY <1>4, SubmitInv
<1>5. ASSUME NEW d \in Desks, (\E n \in 1 .. MaxContractsPerOrder : Fill(d, n)) \/ Refuse(d)
      PROVE  TradeInv'
  BY <1>5, FillInv, RefuseInv
<1>6. CASE (\E q \in Quotes : Observe(q)) \/ (\E a \in Accounts : Report(a)) \/ Reconcile \/ Tick
  BY <1>6, FilesInv
<1> QED BY <1>1, <1>2, <1>3, <1>4, <1>5, <1>6 DEF Next

\* The inductive invariant: every order under way passed the gate on some portfolio
\* file, no strategy intent that could pass it is a reduction, and a purchase ends
\* at the target if it meets the position it was sized on.
THEOREM TradingInvariant == Spec => []TradeInv
<1>1. Init => TradeInv
  BY InitInv
<1>2. TradeInv /\ [Next]_vars => TradeInv'
  BY StepInv
<1> QED BY <1>1, <1>2, PTL DEF Spec

\* max_event_exposure_cents holds but for one order's cap per order judged blind.
THEOREM ExposureIsCapped == Spec => []ExposureCapped
<1>1. TradeInv => ExposureCapped
  BY DEF TradeInv
<1> QED BY <1>1, TradingInvariant, PTL

\* The strategy's maximum holds but for the orders that met another position.
THEOREM TargetIsHeld == Spec => []TargetHeld
<1>1. TradeInv => TargetHeld
  BY DEF TradeInv
<1> QED BY <1>1, TradingInvariant, PTL

\* An intent file that carries its client_order_id is filled at most once.
THEOREM NamedIntentsFillOnce == Spec => []FilledOnce
<1>1. TradeInv => FilledOnce
  <2> SUFFICES ASSUME TradeInv, NEW k \in DOMAIN intents, intents[k].named
               PROVE  fills[k] <= 1
    BY DEF FilledOnce
  <2>1. intents \in Seq(IntentFile) /\ Len(intents) <= MaxIntents /\ MaxIntents \in Nat
    BY BoundTypes DEF TradeInv, TypeOK
  <2>2. k \in 1 .. MaxIntents
    BY <2>1
  <2> QED BY <2>2 DEF TradeInv, Remembered
<1> QED BY <1>1, TradingInvariant, PTL

\* What the strategy proposes to sell never reaches the exchange: the gate asks a
\* reduction for the edge of an entry, which it lacks by definition.
NoReductionSent == \A d \in Desks : Busy(d) => Taken(d).side = "bid"

\* The gate stops every reduction the strategy proposes (risk.py:72).
THEOREM ReductionsAreNeverSent == Spec => []NoReductionSent
<1>1. TradeInv => NoReductionSent
  <2> SUFFICES ASSUME TradeInv, NEW d \in Desks, Busy(d) PROVE Taken(d).side = "bid"
    BY DEF NoReductionSent
  <2>1. hand[d].intent \in DOMAIN intents /\ Worth(Taken(d))
    BY DEF TradeInv, Judged
  <2>2. Taken(d).side # "ask"
    BY <2>1 DEF TradeInv, Proposed, Taken
  <2>3. intents \in Seq(IntentFile)
    BY DEF TradeInv, TypeOK
  <2>4. Taken(d) \in IntentFile
    BY <2>1, <2>3 DEF Taken
  <2> QED BY <2>2, <2>4 DEF IntentFile
<1> QED BY <1>1, TradingInvariant, PTL
=============================================================================
