---------------------------- MODULE TradingServer ----------------------------
(***************************************************************************)
(* What happens between a click on "buy" and the trade history: the        *)
(* handler of POST /api/orders in main.cpp, the ticker thread that runs    *)
(* MarketSimulator::tick, the matching engine they share, the portfolios   *)
(* and the orders and trades tables of database/Database.hpp.              *)
(*                                                                         *)
(* HttpServer::dispatch holds routeMutex while a handler runs, so one      *)
(* Handler stands for all of them.  The ticker does not take routeMutex;   *)
(* it holds simMutex for a whole tick, which keeps a handler waiting in    *)
(* getStock and nowhere else.  An exception ends a handler with a 500      *)
(* response; in the ticker it ends the process (std::terminate).           *)
(***************************************************************************)
EXTENDS MatchingEngine, Portfolio, SequencesExt

CONSTANTS
  Handler, Ticker,
  Customers,        \* users who may post orders; all have a portfolio
  MarketMaker,      \* "market_maker_bot"
  StartupTrades,    \* the trades main() applies and saves before it serves
  UnsavedTrades,    \* the trades main() then applies and does not save
  StorageMayFail,   \* whether saveTrade and saveOrder may return false
  MaxRestarts       \* bound: times the process is started again

(* The trades of main() carry names no counter makes: "TRD-INIT-1".        *)
OpeningTrade ==
  [tradeId : Int \ (Nat \ {0}), buyOrderId : Nat, sellOrderId : Nat, symbol : Symbols,
   quantity : Nat, price : Nat, buyerId : Users, sellerId : Users]

ASSUME ServerAssumption ==
  /\ Threads = {Handler, Ticker} /\ Handler # Ticker
  /\ Customers \subseteq Users \ {MarketMaker}
  /\ MarketMaker \in Users
  /\ NoOrder \notin OrderRequest
  /\ StartupTrades \in Seq(OpeningTrade) /\ UnsavedTrades \in Seq(OpeningTrade)
  /\ StorageMayFail \in BOOLEAN
  /\ MaxRestarts \in Nat

VARIABLES
  userPortfolios,  \* [user -> portfolio, or NoPortfolio]
  tradeRows,       \* table trades: [trade id stored -> trade]
  orderRows,       \* table orders: [order id stored -> what a row tells]
  phase,           \* where the handler is, "ready" when routeMutex is free
  posted,          \* the request body it serves
  settled,         \* executed trades its settlement loop has dealt with
  stockPrice,      \* [symbol -> currentPrice]
  ticking,         \* the ticker is inside tick() and holds simMutex
  stocksLeft,      \* stocks the tick has not come to
  seeds,           \* orders seedLiquidity has still to submit
  restarts

handlerVars == <<userPortfolios, tradeRows, orderRows, phase, posted, settled>>
tickerVars  == <<stockPrice, ticking, stocksLeft, seeds>>
serverVars  == <<vars, handlerVars, tickerVars, restarts>>

(* What a customer may ask for; the price of a market order is not read.   *)
PostBody ==
  {r \in OrderRequest :
     /\ r.userId \in Customers
     /\ r.timestamp = 0
     /\ r.type = "MARKET" => r.price = OpeningPrice}

(* INSERT OR REPLACE.                                                      *)
Stored(rows, id, row) ==
  [i \in DOMAIN rows \cup {id} |-> IF i = id THEN row ELSE rows[i]]

(* What a table holds after a save: a failure is returned and not looked   *)
(* at by any caller.                                                       *)
Saved(rows, id, row) == {Stored(rows, id, row)} \cup (IF StorageMayFail THEN {rows} ELSE {})

(* saveOrder binds the status as the characters of a string that is gone   *)
(* when sqlite3_step reads them; what is not a status reads as REJECTED.   *)
(* Type and side are bound the same way and left out.                      *)
OrderRowsOf(o) ==
  {[quantity |-> o.quantity, filledQuantity |-> o.filledQuantity, status |-> status] :
     status \in {o.status, "REJECTED"}}

(* Bound: an order is begun only if MaxOrders has room for n more, with    *)
(* those that the handler and the tick under way will submit.              *)
OrdersFit(n) ==
  orderCount + n + Len(seeds) + 2 * Cardinality(stocksLeft)
    + (IF phase \in {"posted", "found"} THEN 1 ELSE 0) <= MaxOrders

-----------------------------------------------------------------------------
(* The handler of POST /api/orders.                                        *)

(* A request that is well formed and of a user who is logged in takes      *)
(* routeMutex.                                                             *)
Post(body) ==
  /\ phase = "ready"
  /\ OrdersFit(1)
  /\ phase' = "posted"
  /\ posted' = body
  /\ UNCHANGED <<vars, userPortfolios, tradeRows, orderRows, settled, tickerVars>>

(* getStock waits for simMutex and returns a pointer it no longer guards.  *)
GetStock ==
  /\ phase = "posted"
  /\ ~ticking
  /\ phase' = "found"
  /\ UNCHANGED <<vars, userPortfolios, tradeRows, orderRows, posted, settled, tickerVars>>

(* A market order is priced at the stock's price of this moment.           *)
PriceOf(body) == IF body.type = "MARKET" THEN stockPrice[body.symbol] ELSE body.price

CanAffordBuy(user, estimatedTotal) ==
  userPortfolios[user].cashBalance >= estimatedTotal

HasEnoughShares(user, symbol, quantity) ==
  userPortfolios[user].holdings[symbol].quantity >= quantity

Covered(body) ==
  \/ body.side = "BUY"
     /\ CanAffordBuy(body.userId, body.quantity * PriceOf(body))
  \/ body.side = "SELL"
     /\ HasEnoughShares(body.userId, body.symbol, body.quantity)

Refuse ==
  /\ phase = "found"
  /\ ~Covered(posted)
  /\ phase' = "ready"
  /\ posted' = NoOrder
  /\ UNCHANGED <<vars, userPortfolios, tradeRows, orderRows, settled, tickerVars>>

(* GET /api/portfolio and GET /api/leaderboard mark all portfolios at the  *)
(* prices getCurrentPriceMap copied under simMutex.  A tick that comes in  *)
(* between the copy and the marking reads no portfolio: one step.          *)
MarkPortfolios ==
  /\ phase = "ready"
  /\ ~ticking
  /\ userPortfolios' = [u \in Users |->
       IF userPortfolios[u] = NoPortfolio THEN NoPortfolio
       ELSE Marked(userPortfolios[u], stockPrice)]
  /\ UNCHANGED <<vars, tradeRows, orderRows, phase, posted, settled, tickerVars>>

Submit(now) ==
  /\ phase = "found"
  /\ Covered(posted)
  /\ ProcessOrder(Handler, [posted EXCEPT !.price = PriceOf(posted), !.timestamp = now], now)
  /\ phase' = "matching"
  /\ posted' = NoOrder
  /\ UNCHANGED <<userPortfolios, tradeRows, orderRows, settled, tickerVars>>

Match ==
  /\ Advance(Handler)
  /\ UNCHANGED <<handlerVars, tickerVars>>

(* The settlement loop: applyTrade, then saveTrade, for each trade.        *)
ApplyTrade ==
  /\ phase = "matching"
  /\ pc[Handler] = "done"
  /\ settled < Len(executed[Handler])
  /\ userPortfolios' = Settled(userPortfolios, executed[Handler][settled + 1])
  /\ phase' = "save"
  /\ UNCHANGED <<vars, tradeRows, orderRows, posted, settled, tickerVars>>

(* Mutant: the loop saves the last trade each time.                        *)
SaveLastTrade ==
  LET trade == Last(executed[Handler])
  IN  /\ phase = "save"
      /\ tradeRows' \in Saved(tradeRows, trade.tradeId, trade)
      /\ settled' = settled + 1
      /\ phase' = "matching"
      /\ UNCHANGED <<vars, userPortfolios, orderRows, posted, tickerVars>>

SaveTrade ==
  LET trade == executed[Handler][settled + 1]
  IN  /\ phase = "save"
      /\ tradeRows' \in Saved(tradeRows, trade.tradeId, trade)
      /\ settled' = settled + 1
      /\ phase' = "matching"
      /\ UNCHANGED <<vars, userPortfolios, orderRows, posted, tickerVars>>

(* Mutant: the incoming order is saved before the settlement loop.         *)
SaveOrderFirst ==
  LET o == incoming[Handler]
  IN  /\ phase = "matching"
      /\ pc[Handler] = "done"
      /\ \E row \in OrderRowsOf(o) : orderRows' \in Saved(orderRows, o.orderId, row)
      /\ Return(Handler)
      /\ phase' = "ready"
      /\ settled' = 0
      /\ UNCHANGED <<userPortfolios, tradeRows, posted, tickerVars>>

(* saveOrder of the incoming order alone, and the response.                *)
SaveOrder ==
  LET o == incoming[Handler]
  IN  /\ phase = "matching"
      /\ pc[Handler] = "done"
      /\ settled = Len(executed[Handler])
      /\ \E row \in OrderRowsOf(o) : orderRows' \in Saved(orderRows, o.orderId, row)
      /\ Return(Handler)
      /\ phase' = "ready"
      /\ settled' = 0
      /\ UNCHANGED <<userPortfolios, tradeRows, posted, tickerVars>>

(* Mutant: the exception leaves the handler and routeMutex is not released.*)
FailHoldingRouteMutex ==
  /\ phase = "matching"
  /\ pc[Handler] = "threw"
  /\ Return(Handler)
  /\ UNCHANGED <<phase, userPortfolios, tradeRows, orderRows, posted, settled, tickerVars>>

(* dispatch turns the exception into a 500 response; the MatchResult, with *)
(* the trades executed so far, is lost.                                    *)
Fail ==
  /\ phase = "matching"
  /\ pc[Handler] = "threw"
  /\ Return(Handler)
  /\ phase' = "ready"
  /\ UNCHANGED <<userPortfolios, tradeRows, orderRows, posted, settled, tickerVars>>

-----------------------------------------------------------------------------
(* The ticker.  seedLiquidity is modelled with one bid level and one ask   *)
(* level of its five.                                                      *)

Terminated == pc[Ticker] = "threw"

StartTick ==
  /\ ~ticking
  /\ OrdersFit(2 * Cardinality(Symbols))
  /\ ticking' = TRUE
  /\ stocksLeft' = Symbols
  /\ UNCHANGED <<vars, handlerVars, stockPrice, seeds>>

SeedOrder(s, side, quantity, price, stamp) ==
  [userId |-> MarketMaker, symbol |-> s, type |-> "LIMIT", side |-> side,
   quantity |-> quantity, price |-> price, timestamp |-> stamp]

(* The next stock takes its new price, and a bid and an ask of the same    *)
(* quantity are to be placed at or below and at or above it (both are      *)
(* rounded), back-dated.                                                   *)
MoveStock(s) ==
  /\ ticking
  /\ s \in stocksLeft
  /\ seeds = <<>>
  /\ pc[Ticker] = "idle"
  /\ \E price, bid, ask \in Prices, quantity \in Quantities, stamp \in Timestamps :
       /\ bid <= price /\ price <= ask
       /\ stockPrice' = [stockPrice EXCEPT ![s] = price]
       /\ seeds' = <<SeedOrder(s, "BUY", quantity, bid, stamp),
                     SeedOrder(s, "SELL", quantity, ask, stamp)>>
  /\ stocksLeft' = stocksLeft \ {s}
  /\ UNCHANGED <<vars, handlerVars, ticking>>

Seed(now) ==
  /\ seeds # <<>>
  /\ ProcessOrder(Ticker, Head(seeds), now)
  /\ seeds' = Tail(seeds)
  /\ UNCHANGED <<handlerVars, stockPrice, ticking, stocksLeft>>

MatchSeed ==
  /\ Advance(Ticker)
  /\ UNCHANGED <<handlerVars, tickerVars>>

(* Mutant: the ticker takes routeMutex to hand its result over.            *)
DropResultUnderRouteMutex ==
  /\ pc[Ticker] = "done"
  /\ phase = "ready"
  /\ Return(Ticker)
  /\ UNCHANGED <<handlerVars, tickerVars>>

(* seedLiquidity drops the MatchResult.                                    *)
DropResult ==
  /\ pc[Ticker] = "done"
  /\ Return(Ticker)
  /\ UNCHANGED <<handlerVars, tickerVars>>

EndTick ==
  /\ ticking
  /\ stocksLeft = {}
  /\ seeds = <<>>
  /\ pc[Ticker] = "idle"
  /\ ticking' = FALSE
  /\ UNCHANGED <<vars, handlerVars, stockPrice, stocksLeft, seeds>>

-----------------------------------------------------------------------------
(* What the trades numbered 1 to n make of other portfolios.               *)
SettledUpTo(n, portfolios, trades) ==
  LET After[k \in 0 .. n] ==
        IF k = 0 THEN portfolios
        ELSE IF k \in DOMAIN trades THEN Settled(After[k - 1], trades[k])
        ELSE After[k - 1]
  IN  After[n]

InitialPortfolios ==
  [u \in Users |-> IF u \in Customers THEN NewPortfolio ELSE NoPortfolio]

OpeningTrades == StartupTrades \o UnsavedTrades
OpenedPortfolios == SettledUpTo(Len(OpeningTrades), InitialPortfolios, OpeningTrades)

StartupRows ==
  [id \in {StartupTrades[i].tradeId : i \in DOMAIN StartupTrades} |->
     CHOOSE trade \in Range(StartupTrades) : trade.tradeId = id]

(* The books are seeded when the simulator is constructed, as by a tick    *)
(* that no handler can run beside.                                         *)
ServerInit ==
  /\ EngineInit
  /\ userPortfolios = OpenedPortfolios
  /\ tradeRows = StartupRows
  /\ orderRows = [id \in {} |-> NoOrder]
  /\ phase = "ready"
  /\ posted = NoOrder
  /\ settled = 0
  /\ stockPrice = [s \in Symbols |-> OpeningPrice]
  /\ ticking = TRUE
  /\ stocksLeft = Symbols
  /\ seeds = <<>>
  /\ restarts = 0

(* The process is killed, or has ended, and is started again: only the     *)
(* tables are left, and the start-up trades are stored once more.          *)
Restart ==
  /\ restarts < MaxRestarts
  /\ restarts' = restarts + 1
  /\ book' = [s \in Symbols |-> [side \in OrderSides |-> EmptyQueue]]
  /\ lastTradedPrice' = [s \in Symbols |-> OpeningPrice]
  /\ tradeIdCounter' = 0
  /\ orderCount' = 0
  /\ pc' = [t \in Threads |-> "idle"]
  /\ incoming' = [t \in Threads |-> NoOrder]
  /\ maker' = [t \in Threads |-> NoOrder]
  /\ matchQty' = [t \in Threads |-> 0]
  /\ tradeId' = [t \in Threads |-> 0]
  /\ executed' = [t \in Threads |-> <<>>]
  /\ untraded' = [id \in OrderIds |-> 0]
  /\ userPortfolios' = OpenedPortfolios
  /\ tradeRows' = [id \in DOMAIN tradeRows \cup DOMAIN StartupRows |->
                     IF id \in DOMAIN StartupRows THEN StartupRows[id] ELSE tradeRows[id]]
  /\ phase' = "ready"
  /\ posted' = NoOrder
  /\ settled' = 0
  /\ stockPrice' = [s \in Symbols |-> OpeningPrice]
  /\ ticking' = TRUE
  /\ stocksLeft' = Symbols
  /\ seeds' = <<>>
  /\ UNCHANGED orderRows

HandlerStep ==
  \/ \E body \in PostBody : Post(body)
  \/ MarkPortfolios
  \/ GetStock
  \/ Refuse
  \/ \E now \in Timestamps : Submit(now)
  \/ Match \/ ApplyTrade \/ SaveTrade \/ SaveOrder \/ Fail

TickerStep ==
  \/ StartTick
  \/ \E s \in Symbols : MoveStock(s)
  \/ \E now \in Timestamps : Seed(now)
  \/ MatchSeed \/ DropResult \/ EndTick

ServerStep == ~Terminated /\ (HandlerStep \/ TickerStep) /\ UNCHANGED restarts

ServerNext == ServerStep \/ Restart

ServerSpec == ServerInit /\ [][ServerNext]_serverVars

(* The handler and the ticker are never inside the engine at once.         *)
OneInside == \E t \in Threads : pc[t] = "idle"
ApartNext == (ServerStep /\ OneInside') \/ Restart
ApartSpec == ServerInit /\ [][ApartNext]_serverVars

(* Both threads are scheduled, and a mutex that is free is had at last.    *)
(* Nothing makes a customer post or the ticker begin another tick.         *)
HandlerProgress ==
  GetStock \/ Refuse \/ (\E now \in Timestamps : Submit(now))
    \/ Match \/ ApplyTrade \/ SaveTrade \/ SaveOrder \/ Fail
TickerProgress ==
  (\E s \in Symbols : MoveStock(s)) \/ (\E now \in Timestamps : Seed(now))
    \/ MatchSeed \/ DropResult \/ EndTick

ServerFairness ==
  /\ WF_serverVars(~Terminated /\ HandlerProgress /\ UNCHANGED restarts)
  /\ WF_serverVars(~Terminated /\ TickerProgress /\ UNCHANGED restarts)

-----------------------------------------------------------------------------
(* Properties.                                                             *)

PhaseOf(o) == IF o = NoOrder THEN {"ready", "matching", "save"} ELSE {"posted", "found"}

(* Every variable holds a value of its type, and the phase of the handler  *)
(* agrees with where its call of the engine is.                            *)
ServerTypeOK ==
  /\ TypeOK
  /\ posted \in PostBody \cup {NoOrder}
  /\ phase \in PhaseOf(posted)
  /\ phase \in {"matching", "save"} <=> pc[Handler] # "idle"
  /\ settled \in 0 .. Len(executed[Handler])
  /\ userPortfolios \in [Users -> APortfolio \cup {NoPortfolio}]
  /\ phase = "save" => settled < Len(executed[Handler])
  /\ \A id \in DOMAIN tradeRows : tradeRows[id] \in Trade \cup Range(StartupTrades)
  /\ DOMAIN orderRows \subseteq OrderIds
  /\ stockPrice \in [Symbols -> Prices]
  /\ ticking \in BOOLEAN
  /\ ~ticking => stocksLeft = {} /\ seeds = <<>> /\ pc[Ticker] = "idle"

(* The same portfolio, but for the market prices of its holdings.          *)
SamePosition(p, q) ==
  \/ p = NoPortfolio /\ q = NoPortfolio
  \/ /\ p # NoPortfolio /\ q # NoPortfolio
     /\ p.cashBalance = q.cashBalance
     /\ p.realizedPnL = q.realizedPnL
     /\ \A s \in Symbols :
          /\ p.holdings[s].quantity = q.holdings[s].quantity
          /\ p.holdings[s].averageBuyPrice = q.holdings[s].averageBuyPrice

(* The trades table tells how every portfolio came about: between requests *)
(* the cash, shares, average prices and realized profit of every user are  *)
(* what the stored trades, applied in the order of their ids, make of the  *)
(* portfolios main() opens.                                                *)
LedgerExplainsPortfolios ==
  phase = "ready" /\ restarts = 0 =>
    \A u \in Users :
      SamePosition(userPortfolios[u],
                   SettledUpTo(tradeIdCounter, OpenedPortfolios, tradeRows)[u])

(* The shares of an order that the trades stored under the ids given out   *)
(* account for.                                                            *)
RecordedIn(i, id) ==
  IF i \in DOMAIN tradeRows /\ id \in {tradeRows[i].buyOrderId, tradeRows[i].sellOrderId}
    THEN tradeRows[i].quantity ELSE 0

RecordedFills(id) ==
  LET Total[n \in 0 .. tradeIdCounter] ==
        IF n = 0 THEN 0 ELSE Total[n - 1] + RecordedIn(n, id)
  IN  Total[tradeIdCounter]

(* The row of an order is stored after its trades: whenever the process is *)
(* killed, a row just stored has trades to show for what it says is filled.*)
RowsFollowTheirTrades ==
  [][\A id \in DOMAIN orderRows' :
       \/ id \in DOMAIN orderRows /\ orderRows'[id] = orderRows[id]
       \/ (orderRows[id].filledQuantity <= RecordedFills(id))']_serverVars

(* Every request gets its response, whatever the ticker does, unless the   *)
(* process ends.                                                           *)
RequestsAnswered == phase # "ready" ~> phase = "ready" \/ Terminated

(* Every tick comes to its end and frees simMutex, whatever the handler    *)
(* does, unless the process ends.                                          *)
TicksEnd == ticking ~> ~ticking \/ Terminated

-----------------------------------------------------------------------------
(* Claims of the repository that the code does not keep.                   *)

(* "executed by C++ matching engine and recorded in SQLite": between       *)
(* requests each share traded for a stored order is in a stored trade.     *)
LedgerIsComplete ==
  phase = "ready" =>
    \A id \in DOMAIN orderRows :
      RecordedFills(id) = orderRows[id].quantity - untraded[id]

(* "Immutable trade ledger ... recorded in SQLite": a trade that is stored *)
(* stays as it is.  Whichever thread loaded the counter that names trades  *)
(* stores it back, and INSERT OR REPLACE takes a name given twice without  *)
(* a word.                                                                 *)
StoredTradesStay ==
  [][\A id \in DOMAIN tradeRows :
       id \in DOMAIN tradeRows' /\ tradeRows'[id] = tradeRows[id]]_serverVars

(* "Insufficient virtual cash balance", "Insufficient shares": an order    *)
(* that its customer's cash or shares do not cover is refused, so that     *)
(* neither is ever negative.                                               *)
CustomersStayCovered ==
  \A u \in Customers :
    /\ userPortfolios[u].cashBalance >= 0
    /\ \A s \in Symbols : userPortfolios[u].holdings[s].quantity >= 0
=============================================================================
