------------------------------ MODULE TradingGate ------------------------------
(***************************************************************************)
(* The dormant trading scaffold (src/wcdrawlab/trading): a strategy turns  *)
(* a probability, a quote and a position into an intent; trade-submit      *)
(* judges the intent by the risk gate on a portfolio file and sends it.    *)
(* Nothing in it keeps state.  The quote, the position, the portfolio and  *)
(* the intents are files that people and other programs keep, and several  *)
(* trade-submits may run at once.                                          *)
(*                                                                         *)
(* Probabilities and edges are whole percents, so that a contract's price  *)
(* in cents is its market probability; a tick of time is ten seconds.      *)
(***************************************************************************)
EXTENDS Integers, Sequences

CONSTANTS
  Desks,      \* processes that can run trade-submit
  Policies,   \* settings: trading.yaml and the KALSHI_ environment
  Quotes,     \* what the market can look like
  Lowers,     \* lower bounds of the model's probability
  Drafts,     \* intents written by hand, as in data/live/example_trade_intent.json
  Accounts,   \* what a portfolio file says apart from the event's exposure
  Versions,   \* model versions
  ModelVersion, \* the one the strategy's caller names in an intent
  MaxContracts, RiskBudget, EntryMargin, ExitBuffer, FeeBuffer,  \* StrategyConfig
  MaxOrderCost, MaxEventExposure, MaxDailyLoss, MaxOpenOrders,   \* TradingPolicy
  MinEdge, MaxSpread, MaxPredictionAge, MaxMarketAge, MaxContractsPerOrder,
  MaxIntents, \* bound: how many intents are written
  MaxBlind,   \* bound: how many orders judged on an old portfolio are filled
  Horizon     \* bound: the last tick

\* A desk that sends nothing.
Idle == [intent |-> 0, id |-> 0, seen |-> 0]

Percent  == 0 .. 100
Policy   == [mode : {"paper", "demo", "live"}, confirmation : BOOLEAN,
             environment : {"demo", "production"}, armed : BOOLEAN]
Market   == [bid : Percent, ask : Percent, status : {"open", "closed"}]
Draft    == [price : Nat, contracts : Nat, lower : Percent, market : Percent,
             version : Versions, model : {"approved", "shadow", "unnamed"}]
Account  == [pnl : Int, open : Nat, versions : SUBSET Versions]

ASSUME TradingBounds ==
  /\ ModelVersion \in Versions
  /\ Policies \subseteq Policy /\ Quotes \subseteq Market
  /\ Lowers \subseteq Percent /\ Drafts \subseteq Draft /\ Accounts \subseteq Account
  /\ \A c \in {MaxContracts, RiskBudget, EntryMargin, ExitBuffer, FeeBuffer,
               MaxOrderCost, MaxEventExposure, MaxDailyLoss, MaxOpenOrders,
               MinEdge, MaxSpread, MaxPredictionAge, MaxMarketAge,
               MaxContractsPerOrder, MaxIntents, MaxBlind, Horizon} : c \in Nat

\* What the shipped values have: an exit lies below the edge of an entry.
ASSUME TradingThresholds == FeeBuffer <= ExitBuffer + MinEdge

VARIABLES
  now,        \* ticks
  policy,     \* the settings in force
  quote,      \* the quote file: a Market and the tick it was observed at
  position,   \* the contracts the position file names (BinaryPosition)
  portfolio,  \* the portfolio file: an Account and the event's exposure
  intents,    \* the intent files
  hand,       \* the order each desk has judged and is sending
  executed,   \* the client_order_ids the exchange has taken
  held,       \* YES contracts bought less those sold
  exposure,   \* what the fills of the event have cost
  fills,      \* how often each intent was filled
  blind,      \* fills of orders judged on a portfolio that missed an earlier fill
  crossed     \* fills of intents sized on a position that missed an earlier fill

files    == <<quote, position, portfolio, intents>>
exchange == <<executed, held, exposure, fills, blind, crossed>>
vars     == <<now, policy, files, hand, exchange>>

(***************************************************************************)
(* The strategy.  With the probability l percent, the variance of a        *)
(* contract in cents is l * (100 - l), whatever its price.                 *)
(***************************************************************************)
AtLeast(a, b) == IF a < b THEN b ELSE a
AtMost(a, b)  == IF a < b THEN a ELSE b

Variance(l) == AtLeast(1, l * (100 - l))
Target(l)   == AtMost(MaxContracts, AtLeast(1, (RiskBudget * RiskBudget) \div Variance(l)))

Buys(l, q, pos)    == l - q.ask - FeeBuffer >= EntryMargin /\ pos < Target(l)
Reduces(l, q, pos) == ~Buys(l, q, pos) /\ pos > 0 /\ l - q.bid - FeeBuffer < -ExitBuffer

Intent(side, price, contracts, l) ==
  [side |-> side, price |-> price, contracts |-> contracts, lower |-> l, market |-> price,
   version |-> ModelVersion, model |-> "approved", at |-> now, named |-> TRUE,
   base |-> position]

\* The caller writes the intent with the identifier the dataclass gave it.
Write(i) == /\ Len(intents) < MaxIntents
            /\ intents' = Append(intents, i)
            /\ UNCHANGED <<now, policy, quote, position, portfolio, hand,
                           executed, held, exposure, fills, blind, crossed>>

\* A bug this model would show: the target is bought whatever is held.
BuyTarget(l) == /\ Buys(l, quote, position)
                /\ Write(Intent("bid", quote.ask, Target(l), l))

Buy(l) == /\ Buys(l, quote, position)
          /\ Write(Intent("bid", quote.ask, Target(l) - position, l))

Reduce(l) == /\ Reduces(l, quote, position)
             /\ Write(Intent("ask", quote.bid, position, l))

\* An intent written by hand: it names no client_order_id, and no position.
DraftIntent(d) ==
  Write([side |-> "bid", price |-> d.price, contracts |-> d.contracts, lower |-> d.lower,
         market |-> d.market, version |-> d.version, model |-> d.model, at |-> now,
         named |-> FALSE, base |-> -1])

(***************************************************************************)
(* RiskGate.evaluate.  The confidence score is optional, and an order      *)
(* passes without it.                                                      *)
(***************************************************************************)
Cost(i) == i.price * i.contracts

Sized(i) == /\ i.price \in 1 .. 99
            /\ i.contracts \in 1 .. MaxContractsPerOrder
            /\ Cost(i) <= MaxOrderCost

\* A bug: the order itself is left out of the exposure.
RoomyWithoutOrder(i, s) == /\ s.exposure <= MaxEventExposure
                           /\ s.pnl > -MaxDailyLoss
                           /\ s.open < MaxOpenOrders

Roomy(i, s) == /\ s.exposure + Cost(i) <= MaxEventExposure
               /\ s.pnl > -MaxDailyLoss
               /\ s.open < MaxOpenOrders

Worth(i) == i.lower - i.market >= MinEdge
Spread(q) == AtLeast(0, q.ask - q.bid)
Fresh(i, q) == /\ q.status = "open"
               /\ Spread(q) <= MaxSpread
               /\ now - i.at <= MaxPredictionAge
               /\ now - q.at <= MaxMarketAge
Governed(i, s) == i.version \in s.versions /\ i.model # "shadow"

Approved(i, q, s) == Sized(i) /\ Roomy(i, s) /\ Worth(i) /\ Fresh(i, q) /\ Governed(i, s)

\* PortfolioRiskState(), when trade-submit is given no --state.
NoState == [exposure |-> 0, pnl |-> 0, open |-> 0, versions |-> {}]

\* An order reaches the client only in mode demo or live, and live with the
\* confirmation the policy asks for; the client sends nothing to production
\* unless it is told to and armed.
Armed(requireLive) ==
  policy.environment = "production" => requireLive /\ policy.armed

Sends(confirmed) ==
  /\ policy.mode \in {"demo", "live"}
  /\ policy.mode = "live" /\ policy.confirmation => confirmed
  /\ Armed(policy.mode = "live" /\ confirmed)

\* The client_order_id sent: that of the file, or a new one.
\* A bug: the file's identifier is not kept.
NewOrderId(k) == 0

OrderId(k) == IF intents[k].named THEN k ELSE 0

\* trade-submit; what it does not send leaves no trace.
Submit(d, k, s, confirmed) ==
  /\ hand[d] = Idle
  /\ Approved(intents[k], quote, s)
  /\ Sends(confirmed)
  /\ hand' = [hand EXCEPT ![d] = [intent |-> k, id |-> OrderId(k), seen |-> s.exposure]]
  /\ UNCHANGED <<now, policy, files, exchange>>

(***************************************************************************)
(* The exchange fills an immediate-or-cancel order as far as it can, and   *)
(* takes each named order once.  Whether its answer arrives or the request *)
(* times out, trade-submit ends and records nothing.                       *)
(***************************************************************************)
Fill(d, n) ==
  /\ hand[d] # Idle
  /\ LET o == hand[d]
         i == intents[o.intent]
     IN  /\ o.id \notin executed
         /\ n \in 1 .. i.contracts
         /\ o.seen # exposure => blind < MaxBlind
         /\ executed' = executed \cup ({o.id} \ {0})
         /\ held' = IF i.side = "bid" THEN held + n ELSE held - n
         /\ exposure' = exposure + n * i.price
         /\ fills' = [fills EXCEPT ![o.intent] = @ + 1]
         /\ blind' = IF o.seen # exposure THEN blind + 1 ELSE blind
         /\ crossed' = IF i.base # held THEN crossed + 1 ELSE crossed
  /\ hand' = [hand EXCEPT ![d] = Idle]
  /\ UNCHANGED <<now, policy, files>>

\* Nothing filled, an order taken before, an error status, no connection.
Refuse(d) ==
  /\ hand[d] # Idle
  /\ hand' = [hand EXCEPT ![d] = Idle]
  /\ UNCHANGED <<now, policy, files, exchange>>

(***************************************************************************)
(* The files, kept by others.                                              *)
(***************************************************************************)
Observe(q) ==
  /\ quote' = [bid |-> q.bid, ask |-> q.ask, status |-> q.status, at |-> now]
  /\ UNCHANGED <<now, policy, position, portfolio, intents, hand, exchange>>

Reconcile ==
  /\ position' = held
  /\ UNCHANGED <<now, policy, quote, portfolio, intents, hand, exchange>>

StateOf(a) == [exposure |-> exposure, pnl |-> a.pnl, open |-> a.open, versions |-> a.versions]

Report(a) ==
  /\ portfolio' = StateOf(a)
  /\ UNCHANGED <<now, policy, quote, position, intents, hand, exchange>>

\* Nothing bounds a request: its time-out is one of the connection and of each read.
Tick ==
  /\ now < Horizon
  /\ now' = now + 1
  /\ UNCHANGED <<policy, files, hand, exchange>>

Init ==
  /\ now = 0 /\ policy \in Policies
  /\ \E q \in Quotes : quote = [bid |-> q.bid, ask |-> q.ask, status |-> q.status, at |-> 0]
  /\ position = 0 /\ held = 0 /\ exposure = 0
  /\ \E a \in Accounts : portfolio = StateOf(a)
  /\ intents = <<>> /\ fills = [k \in 1 .. MaxIntents |-> 0]
  /\ hand = [d \in Desks |-> Idle]
  /\ executed = {} /\ blind = 0 /\ crossed = 0

Next ==
  \/ \E l \in Lowers : Buy(l) \/ Reduce(l)
  \/ \E d \in Drafts : DraftIntent(d)
  \/ \E d \in Desks, k \in DOMAIN intents, s \in {portfolio, NoState}, c \in BOOLEAN :
       Submit(d, k, s, c)
  \/ \E d \in Desks : (\E n \in 1 .. MaxContractsPerOrder : Fill(d, n)) \/ Refuse(d)
  \/ \E q \in Quotes : Observe(q)
  \/ \E a \in Accounts : Report(a)
  \/ Reconcile
  \/ Tick

Spec == Init /\ [][Next]_vars

(***************************************************************************)
(* Properties                                                              *)
(***************************************************************************)
IntentFile == [side : {"bid", "ask"}, price : Nat, contracts : Int, lower : Percent,
               market : Nat, version : Versions, model : {"approved", "shadow", "unnamed"},
               at : Nat, named : BOOLEAN, base : Int]

TypeOK ==
  /\ now \in Nat /\ policy \in Policy
  /\ quote \in [bid : Percent, ask : Percent, status : {"open", "closed"}, at : Nat]
  /\ position \in Nat /\ held \in Nat /\ exposure \in Nat
  /\ portfolio \in [exposure : Nat, pnl : Int, open : Nat, versions : SUBSET Versions]
  /\ intents \in Seq(IntentFile) /\ Len(intents) <= MaxIntents
  /\ hand \in [Desks -> [intent : Nat, id : Nat, seen : Nat]]
  /\ executed \subseteq Nat /\ fills \in [1 .. MaxIntents -> Nat]
  /\ blind \in Nat /\ crossed \in Nat

\* max_event_exposure_cents: what was bought of an event stays within its cap,
\* but for one order's cap for each order that was judged on a portfolio file
\* from before another fill.
ExposureCapped == exposure <= MaxEventExposure + MaxOrderCost * blind

\* "A target-position problem, not a repeated place-a-bet problem": repeated
\* decisions, partial fills and retries never take the position beyond the
\* strategy's maximum, but for the orders sized on another position than the one
\* they met.
TargetHeld == held <= MaxContracts + MaxContractsPerOrder * crossed

\* "Client order IDs to prevent accidental duplicate orders": an intent whose file
\* carries its identifier is filled once, however often it is sent again.  The
\* shipped example carries none, and gets a new one each time it is loaded.
FilledOnce == \A k \in DOMAIN intents : intents[k].named => fills[k] <= 1
=============================================================================
