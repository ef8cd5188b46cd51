----------------------------- MODULE ServerProofs -----------------------------
(***************************************************************************)
(* Theorems about TradingServer: the handler and the ticker in one engine, *)
(* the tables, and a process that may be killed at any step.               *)
(***************************************************************************)
EXTENDS TradingServer, MatchingEngineProofs, PortfolioProofs

-----------------------------------------------------------------------------
(* Portfolios that are the same but for market prices.                     *)

(* The same cash, profit, shares and costs make the same position.         *)
LEMMA SamePositionIf ==
  ASSUME NEW p \in APortfolio, NEW q \in APortfolio
  PROVE  SamePosition(p, q) <=>
           /\ p.cashBalance = q.cashBalance /\ p.realizedPnL = q.realizedPnL
           /\ \A s \in Symbols : /\ p.holdings[s].quantity = q.holdings[s].quantity
                                 /\ p.holdings[s].averageBuyPrice = q.holdings[s].averageBuyPrice
  BY PortfolioAssumption DEF SamePosition

(* New market prices leave the position as it is.                          *)
LEMMA MarkedAlike ==
  ASSUME NEW p \in APortfolio, NEW prices \in [Symbols -> Int]
  PROVE  SamePosition(Marked(p, prices), p)
  BY MarkedPortfolio, SamePositionIf

(* Market prices apart, a trade makes of two portfolios that are the same  *)
(* two that are the same.                                                  *)
LEMMA BoughtAlike ==
  ASSUME NEW p \in APortfolio, NEW q \in APortfolio,
         NEW trade, IsSettleable(trade), SamePosition(p, q)
  PROVE  SamePosition(Bought(p, trade), Bought(q, trade))
<1> DEFINE bought(h) == BuyShares(h, trade.quantity, trade.price)
<1>1. /\ p.cashBalance = q.cashBalance /\ p.realizedPnL = q.realizedPnL
      /\ \A s \in Symbols : /\ p.holdings[s].quantity = q.holdings[s].quantity
                            /\ p.holdings[s].averageBuyPrice = q.holdings[s].averageBuyPrice
  BY SamePositionIf
<1>2. ASSUME NEW s \in Symbols
      PROVE  /\ bought(p.holdings[s]).quantity = bought(q.holdings[s]).quantity
             /\ bought(p.holdings[s]).averageBuyPrice = bought(q.holdings[s]).averageBuyPrice
  BY <1>1 DEF BuyShares
<1>3. Bought(p, trade) \in APortfolio /\ Bought(q, trade) \in APortfolio
  BY BoughtPortfolio
<1> HIDE DEF bought
<1>4. \A s \in Symbols :
        /\ Bought(p, trade).holdings[s] = IF s = trade.symbol THEN bought(p.holdings[s])
                                          ELSE p.holdings[s]
        /\ Bought(q, trade).holdings[s] = IF s = trade.symbol THEN bought(q.holdings[s])
                                          ELSE q.holdings[s]
  BY BoughtFields DEF bought
<1>5. \A s \in Symbols :
        /\ Bought(p, trade).holdings[s].quantity = Bought(q, trade).holdings[s].quantity
        /\ Bought(p, trade).holdings[s].averageBuyPrice
             = Bought(q, trade).holdings[s].averageBuyPrice
  BY <1>1, <1>2, <1>4
<1>6. /\ Bought(p, trade).cashBalance = Bought(q, trade).cashBalance
      /\ Bought(p, trade).realizedPnL = Bought(q, trade).realizedPnL
  BY <1>1, BoughtFields
<1> QED BY <1>3, <1>5, <1>6, SamePositionIf

LEMMA SoldAlike ==
  ASSUME NEW p \in APortfolio, NEW q \in APortfolio,
         NEW trade, IsSettleable(trade), SamePosition(p, q)
  PROVE  SamePosition(Sold(p, trade), Sold(q, trade))
<1> DEFINE sold(h) == SellShares(h, trade.quantity, trade.price)
<1>1. /\ p.cashBalance = q.cashBalance /\ p.realizedPnL = q.realizedPnL
      /\ \A s \in Symbols : /\ p.holdings[s].quantity = q.holdings[s].quantity
                            /\ p.holdings[s].averageBuyPrice = q.holdings[s].averageBuyPrice
  BY SamePositionIf
<1>2. ASSUME NEW s \in Symbols
      PROVE  /\ sold(p.holdings[s]).quantity = sold(q.holdings[s]).quantity
             /\ sold(p.holdings[s]).averageBuyPrice = sold(q.holdings[s]).averageBuyPrice
  <2>1. /\ p.holdings[s] \in Holding /\ q.holdings[s] \in Holding
        /\ trade.quantity \in Int /\ trade.price \in Int
    BY DEF APortfolio, IsSettleable
  <2> QED BY <1>1, <2>1, SoldShares
<1>3. Sold(p, trade) \in APortfolio /\ Sold(q, trade) \in APortfolio
  BY SoldPortfolio
<1> HIDE DEF sold
<1>4. \A s \in Symbols :
        /\ Sold(p, trade).holdings[s] = IF s = trade.symbol THEN sold(p.holdings[s])
                                        ELSE p.holdings[s]
        /\ Sold(q, trade).holdings[s] = IF s = trade.symbol THEN sold(q.holdings[s])
                                        ELSE q.holdings[s]
  BY SoldFields DEF sold
<1>5. \A s \in Symbols :
        /\ Sold(p, trade).holdings[s].quantity = Sold(q, trade).holdings[s].quantity
        /\ Sold(p, trade).holdings[s].averageBuyPrice = Sold(q, trade).holdings[s].averageBuyPrice
  BY <1>1, <1>2, <1>4
<1>6. trade.symbol \in Symbols
  BY DEF IsSettleable
<1>7. /\ Sold(p, trade).cashBalance = Sold(q, trade).cashBalance
      /\ Sold(p, trade).realizedPnL = Sold(q, trade).realizedPnL
  BY <1>1, <1>6, SoldFields
<1> QED BY <1>3, <1>5, <1>7, SamePositionIf

SamePositions(portfolios, others) == \A u \in Users : SamePosition(portfolios[u], others[u])

LEMMA PortfoliosOfUserAlike ==
  ASSUME NEW a \in Portfolios, NEW b \in Portfolios, SamePositions(a, b), NEW u \in Users
  PROVE  SamePosition(PortfolioOf(a, u), PortfolioOf(b, u))
<1>1. SamePosition(a[u], b[u])
  BY DEF SamePositions
<1>2. SamePosition(NewPortfolio, NewPortfolio)
  BY NewPortfolioIsOne, SamePositionIf
<1>3. (a[u] = NoPortfolio) <=> (b[u] = NoPortfolio)
  BY <1>1 DEF SamePosition
<1> QED BY <1>1, <1>2, <1>3 DEF PortfolioOf

LEMMA SettledAlike ==
  ASSUME NEW a \in Portfolios, NEW b \in Portfolios, SamePositions(a, b),
         NEW trade, IsSettleable(trade)
  PROVE  SamePositions(Settled(a, trade), Settled(b, trade))
<1> DEFINE bought(x) == Bought(PortfolioOf(x, trade.buyerId), trade)
           paid(x) == [x EXCEPT ![trade.buyerId] = bought(x)]
           sold(x) == Sold(PortfolioOf(x, trade.sellerId), trade)
<1>1. trade.buyerId \in Users /\ trade.sellerId \in Users
  BY DEF IsSettleable
<1>2. SamePosition(bought(a), bought(b))
  BY <1>1, PortfolioOfUser, PortfoliosOfUserAlike, BoughtAlike
<1>3. bought(a) \in APortfolio /\ bought(b) \in APortfolio
  BY <1>1, PortfolioOfUser, BoughtPortfolio
<1> HIDE DEF bought
<1>4. paid(a) \in Portfolios /\ paid(b) \in Portfolios
  BY <1>3 DEF Portfolios, MaybePortfolio
<1>5. SamePositions(paid(a), paid(b))
  BY <1>1, <1>2 DEF SamePositions, Portfolios
<1> HIDE DEF paid
<1>6. SamePosition(sold(paid(a)), sold(paid(b)))
  BY <1>1, <1>4, <1>5, PortfolioOfUser, PortfoliosOfUserAlike, SoldAlike
<1>7. \A x : Settled(x, trade) = [paid(x) EXCEPT ![trade.sellerId] = sold(paid(x))]
  BY DEF Settled, paid, bought
<1> HIDE DEF sold
<1> QED BY <1>1, <1>4, <1>5, <1>6, <1>7 DEF SamePositions, Portfolios

-----------------------------------------------------------------------------
(* Portfolios after the trades of a table.                                 *)

(* f holds what the first n trades make of the portfolios, one by one.     *)
IsSettling(f, n, portfolios, trades) ==
  f = [k \in 0 .. n |->
         IF k = 0 THEN portfolios
         ELSE IF k \in DOMAIN trades THEN Settled(f[k - 1], trades[k])
         ELSE f[k - 1]]

LEMMA SettlingExists ==
  ASSUME NEW n \in Nat, NEW portfolios, NEW trades
  PROVE  \E f : IsSettling(f, n, portfolios, trades)
<1> DEFINE P == {m \in Nat : \E f : IsSettling(f, m, portfolios, trades)}
<1>1. 0 \in P
  <2> DEFINE f == [k \in 0 .. 0 |-> portfolios]
  <2>1. IsSettling(f, 0, portfolios, trades)
    BY DEF IsSettling
  <2> QED BY <2>1
<1>2. ASSUME NEW m \in Nat, m \in P PROVE m + 1 \in P
  <2>1. PICK g : IsSettling(g, m, portfolios, trades)
    BY <1>2
  <2> DEFINE next == IF m + 1 \in DOMAIN trades THEN Settled(g[m], trades[m + 1])
                     ELSE g[m]
             f == [k \in 0 .. m + 1 |-> IF k = m + 1 THEN next ELSE g[k]]
  <2>2. \A k \in 0 .. m :
          g[k] = IF k = 0 THEN portfolios
                 ELSE IF k \in DOMAIN trades THEN Settled(g[k - 1], trades[k])
                 ELSE g[k - 1]
    BY <2>1 DEF IsSettling
  <2>3. \A k \in 0 .. m + 1 :
          f[k] = IF k = 0 THEN portfolios
                 ELSE IF k \in DOMAIN trades THEN Settled(f[k - 1], trades[k])
                 ELSE f[k - 1]
    <3>1. ASSUME NEW k \in 0 .. m + 1, k # m + 1
          PROVE  f[k] = g[k] /\ (k # 0 => f[k - 1] = g[k - 1]) /\ k \in 0 .. m
      BY <3>1
    <3>2. f[m + 1] = next /\ f[m] = g[m] /\ (m + 1) - 1 = m /\ m + 1 # 0
      OBVIOUS
    <3> HIDE DEF f
    <3> QED BY <2>2, <3>1, <3>2
  <2>4. IsSettling(f, m + 1, portfolios, trades)
    <3> HIDE DEF next
    <3> QED BY <2>3 DEF IsSettling
  <2> QED BY <2>4
<1>3. n \in P
  <2> HIDE DEF P
  <2> QED BY <1>1, <1>2, NatInductionOnSet
<1> QED BY <1>3

LEMMA SettlingIsUnique ==
  ASSUME NEW n \in Nat, NEW m \in 0 .. n, NEW portfolios, NEW trades, NEW f, NEW g,
         IsSettling(f, n, portfolios, trades), IsSettling(g, m, portfolios, trades)
  PROVE  f[m] = g[m]
<1> DEFINE P == {k \in Nat : k <= m => f[k] = g[k]}
<1>1. /\ \A k \in 0 .. n :
           f[k] = IF k = 0 THEN portfolios
                  ELSE IF k \in DOMAIN trades THEN Settled(f[k - 1], trades[k])
                  ELSE f[k - 1]
      /\ \A k \in 0 .. m :
           g[k] = IF k = 0 THEN portfolios
                  ELSE IF k \in DOMAIN trades THEN Settled(g[k - 1], trades[k])
                  ELSE g[k - 1]
  BY DEF IsSettling
<1>2. 0 \in P
  BY <1>1
<1>3. ASSUME NEW k \in Nat, k \in P PROVE k + 1 \in P
  <2> SUFFICES ASSUME k + 1 <= m PROVE f[k + 1] = g[k + 1]
    OBVIOUS
  <2>1. k + 1 \in 0 .. n /\ k + 1 \in 0 .. m /\ (k + 1) - 1 = k /\ k + 1 # 0 /\ f[k] = g[k]
    BY <1>3
  <2> QED BY <1>1, <2>1
<1>4. m \in P
  <2> HIDE DEF P
  <2> QED BY <1>2, <1>3, NatInductionOnSet
<1> QED BY <1>4

LEMMA SettledUpToIs ==
  ASSUME NEW n \in Nat, NEW m \in 0 .. n, NEW portfolios, NEW trades, NEW f,
         IsSettling(f, n, portfolios, trades)
  PROVE  SettledUpTo(m, portfolios, trades) = f[m]
<1> DEFINE Settles(g) ==
             g = [k \in 0 .. m |->
                    IF k = 0 THEN portfolios
                    ELSE IF k \in DOMAIN trades THEN Settled(g[k - 1], trades[k])
                    ELSE g[k - 1]]
           After == CHOOSE g : Settles(g)
<1>1. m \in Nat /\ SettledUpTo(m, portfolios, trades) = After[m]
  BY DEF SettledUpTo
<1>2. \A g : Settles(g) <=> IsSettling(g, m, portfolios, trades)
  BY DEF IsSettling
<1>3. \E g : Settles(g)
  BY <1>1, <1>2, SettlingExists
<1>4. Settles(After)
  <2> HIDE DEF Settles
  <2> QED BY <1>3
<1>5. IsSettling(After, m, portfolios, trades)
  BY <1>2, <1>4
<1> HIDE DEF After
<1> QED BY <1>1, <1>5, SettlingIsUnique

(* The recursion, one trade at a time.                                     *)
LEMMA SettledStep ==
  ASSUME NEW n \in Nat, NEW portfolios, NEW trades
  PROVE  /\ SettledUpTo(0, portfolios, trades) = portfolios
         /\ SettledUpTo(n + 1, portfolios, trades) =
              IF n + 1 \in DOMAIN trades
                THEN Settled(SettledUpTo(n, portfolios, trades), trades[n + 1])
                ELSE SettledUpTo(n, portfolios, trades)
<1>1. PICK f : IsSettling(f, n + 1, portfolios, trades)
  BY SettlingExists
<1>2. \A m \in 0 .. n + 1 : SettledUpTo(m, portfolios, trades) = f[m]
  BY <1>1, SettledUpToIs
<1>3. f[0] = portfolios
  BY <1>1 DEF IsSettling
<1>4. f[n + 1] = IF n + 1 \in DOMAIN trades THEN Settled(f[n], trades[n + 1]) ELSE f[n]
  BY <1>1 DEF IsSettling
<1> QED BY <1>2, <1>3, <1>4

(* Trades numbered above those counted change nothing.                     *)
LEMMA SettledAgree ==
  ASSUME NEW n \in Nat, NEW portfolios, NEW trades, NEW others,
         \A k \in 1 .. n : /\ k \in DOMAIN trades <=> k \in DOMAIN others
                           /\ k \in DOMAIN trades => trades[k] = others[k]
  PROVE  SettledUpTo(n, portfolios, trades) = SettledUpTo(n, portfolios, others)
<1> DEFINE P == {k \in Nat : k <= n =>
                   SettledUpTo(k, portfolios, trades) = SettledUpTo(k, portfolios, others)}
<1>1. 0 \in P
  BY SettledStep
<1>2. ASSUME NEW k \in Nat, k \in P PROVE k + 1 \in P
  <2>1. k + 1 <= n => k + 1 \in 1 .. n /\ k <= n
    BY <1>2
  <2> QED BY <1>2, <2>1, SettledStep
<1>3. n \in P
  <2> HIDE DEF P
  <2> QED BY <1>1, <1>2, NatInductionOnSet
<1> QED BY <1>3

(* Numbers that no stored trade has change nothing.                        *)
LEMMA SettledPastLast ==
  ASSUME NEW m \in Nat, NEW n \in Nat, m <= n, NEW portfolios, NEW trades,
         \A k \in m + 1 .. n : k \notin DOMAIN trades
  PROVE  SettledUpTo(n, portfolios, trades) = SettledUpTo(m, portfolios, trades)
<1> DEFINE P == {k \in Nat : m <= k /\ k <= n =>
                   SettledUpTo(k, portfolios, trades) = SettledUpTo(m, portfolios, trades)}
<1>1. 0 \in P
  <2>1. m <= 0 => m = 0
    OBVIOUS
  <2> QED BY <2>1
<1>2. ASSUME NEW k \in Nat, k \in P PROVE k + 1 \in P
  <2> SUFFICES ASSUME m <= k + 1, k + 1 <= n
               PROVE  SettledUpTo(k + 1, portfolios, trades) = SettledUpTo(m, portfolios, trades)
    OBVIOUS
  <2>1. CASE m = k + 1
    BY <2>1
  <2>2. CASE m # k + 1
    <3>1. m <= k /\ k <= n /\ k + 1 \in m + 1 .. n
      BY <2>2
    <3> QED BY <1>2, <3>1, SettledStep
  <2> QED BY <2>1, <2>2
<1>3. n \in P
  <2> HIDE DEF P
  <2> QED BY <1>1, <1>2, NatInductionOnSet
<1> QED BY <1>3

LEMMA SettledUpToPortfolios ==
  ASSUME NEW n \in Nat, NEW portfolios \in Portfolios, NEW trades,
         \A k \in 1 .. n : k \in DOMAIN trades => IsSettleable(trades[k])
  PROVE  SettledUpTo(n, portfolios, trades) \in Portfolios
<1> DEFINE P == {k \in Nat : k <= n => SettledUpTo(k, portfolios, trades) \in Portfolios}
<1>1. 0 \in P
  BY SettledStep
<1>2. ASSUME NEW k \in Nat, k \in P PROVE k + 1 \in P
  <2>1. k + 1 <= n => k + 1 \in 1 .. n /\ k <= n
    BY <1>2
  <2> QED BY <1>2, <2>1, SettledStep, SettledPortfolios
<1>3. n \in P
  <2> HIDE DEF P
  <2> QED BY <1>1, <1>2, NatInductionOnSet
<1> QED BY <1>3

LEMMA OpenedPortfoliosTyped == OpenedPortfolios \in Portfolios
<1>1. InitialPortfolios \in Portfolios
  BY NewPortfolioIsOne DEF InitialPortfolios, Portfolios, MaybePortfolio
<1>2. OpeningTrades \in Seq(OpeningTrade)
  BY ServerAssumption DEF OpeningTrades
<1>3. Len(OpeningTrades) \in Nat /\ DOMAIN OpeningTrades = 1 .. Len(OpeningTrades)
  BY <1>2
<1>4. \A k \in 1 .. Len(OpeningTrades) : IsSettleable(OpeningTrades[k])
  <2>1. ASSUME NEW k \in 1 .. Len(OpeningTrades) PROVE IsSettleable(OpeningTrades[k])
    <3>1. OpeningTrades[k] \in OpeningTrade
      BY <1>2, <1>3
    <3>2. \A t \in OpeningTrade :
            /\ t.price \in Nat /\ t.quantity \in Nat /\ t.symbol \in Symbols
            /\ t.buyerId \in Users /\ t.sellerId \in Users
      BY DEF OpeningTrade
    <3> QED BY <3>1, <3>2 DEF IsSettleable
  <2> QED BY <2>1
<1> QED BY <1>1, <1>3, <1>4, SettledUpToPortfolios DEF OpenedPortfolios

(* What the portfolio and leaderboard routes do to all portfolios.         *)
LEMMA MarkedPortfolios ==
  ASSUME NEW portfolios \in Portfolios, NEW marked, NEW prices \in [Symbols -> Prices],
         marked = [u \in Users |-> IF portfolios[u] = NoPortfolio THEN NoPortfolio
                                   ELSE Marked(portfolios[u], prices)]
  PROVE  marked \in Portfolios /\ SamePositions(marked, portfolios)
<1>1. prices \in [Symbols -> Int]
  <2>1. Prices \subseteq Int
    BY EngineAssumption
  <2> QED BY <2>1
<1>2. ASSUME NEW u \in Users
      PROVE  marked[u] \in MaybePortfolio /\ SamePosition(marked[u], portfolios[u])
  <2>1. CASE portfolios[u] = NoPortfolio
    BY <2>1 DEF MaybePortfolio, SamePosition
  <2>2. CASE portfolios[u] # NoPortfolio
    <3>1. portfolios[u] \in APortfolio
      BY <2>2 DEF Portfolios, MaybePortfolio
    <3> QED BY <1>1, <2>2, <3>1, MarkedPortfolio, MarkedAlike DEF MaybePortfolio
  <2> QED BY <2>1, <2>2
<1> QED BY <1>2 DEF Portfolios, SamePositions

LEMMA TradesAreSettleable == \A trade \in Trade : IsSettleable(trade)
<1> SUFFICES ASSUME NEW trade \in Trade PROVE IsSettleable(trade)
  OBVIOUS
<1>1. /\ trade.quantity \in Nat /\ trade.price \in Prices /\ trade.symbol \in Symbols
      /\ trade.buyerId \in Users /\ trade.sellerId \in Users
  BY DEF Trade
<1>2. Prices \subseteq Int
  BY EngineAssumption
<1>3. trade.price \in Int
  BY <1>1, <1>2, Zenon
<1>4. trade.quantity \in Int
  BY <1>1
<1> QED BY <1>1, <1>3, <1>4 DEF IsSettleable

-----------------------------------------------------------------------------
(* The inductive invariant.                                                *)

(* Where the handler is.  An exception loses the count of settled trades   *)
(* only because nothing is settled before the call returns.                *)
HandlerAt ==
  /\ posted \in PostBody \cup {NoOrder}
  /\ phase \in PhaseOf(posted)
  /\ phase \in {"matching", "save"} <=> pc[Handler] # "idle"
  /\ settled \in 0 .. Len(executed[Handler])
  /\ pc[Handler] # "done" => settled = 0
  /\ phase = "save" => pc[Handler] = "done" /\ settled < Len(executed[Handler])

TablesOK ==
  /\ \A id \in DOMAIN tradeRows : tradeRows[id] \in Trade \cup Range(StartupTrades)
  /\ DOMAIN orderRows \subseteq OrderIds
  /\ userPortfolios \in Portfolios

TickerAt ==
  /\ stockPrice \in [Symbols -> Prices]
  /\ ticking \in BOOLEAN
  /\ stocksLeft \subseteq Symbols
  /\ seeds \in Seq(OrderRequest)
  /\ ~ticking => stocksLeft = {} /\ seeds = <<>> /\ pc[Ticker] = "idle"

ServerInv == ReportInv /\ HandlerAt /\ TablesOK /\ TickerAt

-----------------------------------------------------------------------------
(* What the server's steps are to the engine.                              *)

LEMMA TwoThreads == Handler \in Threads /\ Ticker \in Threads /\ Handler # Ticker
  BY ServerAssumption

(* A step of one call leaves the locals of the other alone.                *)
LEMMA OtherThread ==
  ASSUME EngineInv, NEW t \in Threads, NEW u \in Threads, u # t,
         \/ \E request \in OrderRequest, now \in Timestamps : ProcessOrder(t, request, now)
         \/ Advance(t)
         \/ Return(t)
  PROVE  pc'[u] = pc[u] /\ executed'[u] = executed[u] /\ incoming'[u] = incoming[u]
<1> USE DEF EngineInv, TypeOK, localVars, Goto
<1>1. CASE \E request \in OrderRequest, now \in Timestamps : ProcessOrder(t, request, now)
  BY <1>1 DEF ProcessOrder
<1>2. CASE Advance(t)
  BY <1>2 DEF Advance, Test, Throw, Peek, LeaveLoop, Pop, Refill, LoadTradeId, ExecuteTrade, Rest
<1>3. CASE Return(t)
  BY <1>3 DEF Return, ClearLocals
<1> QED BY <1>1, <1>2, <1>3

(* A call that is under way neither begins nor ends by its own steps, and  *)
(* forgets no trade.                                                       *)
LEMMA CallUnderWay ==
  ASSUME EngineInv, NEW t \in Threads, Advance(t)
  PROVE  /\ pc[t] \notin {"idle", "done", "threw"} /\ pc'[t] # "idle"
         /\ Len(executed[t]) <= Len(executed'[t])
         /\ pc'[t] # "threw" \/ executed'[t] = executed[t]
<1> USE DEF EngineInv, TypeOK, localVars, Goto
<1>1. executed[t] \in Seq(Trade)
  OBVIOUS
<1>2. CASE ExecuteTrade(t)
  <2>1. executed'[t] = Append(executed[t], TradeOf(tradeId[t], incoming[t], maker[t], matchQty[t]))
    BY <1>2 DEF ExecuteTrade
  <2>2. pc[t] = "trade" /\ pc'[t] = "test"
    BY <1>2 DEF ExecuteTrade
  <2>3. Len(executed'[t]) = Len(executed[t]) + 1
    BY <1>1, <2>1
  <2> QED BY <1>1, <2>2, <2>3
<1>3. CASE \/ Test(t) \/ Throw(t) \/ Peek(t) \/ Pop(t) \/ Refill(t) \/ LoadTradeId(t) \/ Rest(t)
  <2>1. executed' = executed
    BY <1>3 DEF Test, Throw, Peek, LeaveLoop, Pop, Refill, LoadTradeId, Rest
  <2>2. pc[t] \notin {"idle", "done", "threw"} /\ pc'[t] # "idle"
    BY <1>3 DEF Test, Throw, Peek, LeaveLoop, Pop, Refill, LoadTradeId, Rest
  <2> QED BY <1>1, <2>1, <2>2
<1> QED BY <1>2, <1>3 DEF Advance

(* A step of thread t in the engine; no route cancels an order.            *)
CallStep(t) ==
  \/ \E request \in OrderRequest, now \in Timestamps : ProcessOrder(t, request, now)
  \/ Advance(t)
  \/ Return(t)

(* What a step of the handler or of the ticker does to the engine is a     *)
(* step the engine allows.                                                 *)
LEMMA HandlerStepsAreCalls ==
  ASSUME ServerInv, HandlerStep PROVE UNCHANGED vars \/ CallStep(Handler)
<1>1. ASSUME NEW now \in Timestamps, Submit(now) PROVE CallStep(Handler)
  <2> DEFINE request == [posted EXCEPT !.price = PriceOf(posted), !.timestamp = now]
  <2>1. ProcessOrder(Handler, request, now)
    BY <1>1 DEF Submit
  <2>2. posted \in OrderRequest
    BY <1>1 DEF Submit, ServerInv, HandlerAt, PhaseOf, PostBody
  <2>3. PriceOf(posted) \in Prices
    BY <2>2 DEF PriceOf, ServerInv, TickerAt, OrderRequest
  <2>4. request \in OrderRequest
    <3> HIDE DEF PriceOf
    <3> QED BY <2>2, <2>3 DEF OrderRequest
  <2> QED BY <2>1, <2>4 DEF CallStep
<1> QED BY <1>1 DEF HandlerStep, Post, MarkPortfolios, GetStock, Refuse, Match, ApplyTrade,
                    SaveTrade, SaveOrder, Fail, CallStep

LEMMA TickerStepsAreCalls ==
  ASSUME ServerInv, TickerStep PROVE UNCHANGED vars \/ CallStep(Ticker)
<1>1. ASSUME NEW now \in Timestamps, Seed(now) PROVE CallStep(Ticker)
  <2>1. ProcessOrder(Ticker, Head(seeds), now) /\ Head(seeds) \in OrderRequest
    BY <1>1 DEF Seed, ServerInv, TickerAt
  <2> QED BY <2>1 DEF CallStep
<1> QED BY <1>1 DEF TickerStep, StartTick, MoveStock, MatchSeed, DropResult, EndTick, CallStep

(* A restart puts the engine back where it began.                          *)
LEMMA ServerStepsAreEngineSteps ==
  ASSUME ServerInv, ServerNext
  PROVE  [EngineNext]_vars \/ EngineInit'
<1>1. CASE Restart
  BY <1>1 DEF Restart, EngineInit
<1>2. CASE HandlerStep
  BY <1>2, HandlerStepsAreCalls, TwoThreads DEF CallStep, EngineNext
<1>3. CASE TickerStep
  BY <1>3, TickerStepsAreCalls, TwoThreads DEF CallStep, EngineNext
<1> QED BY <1>1, <1>2, <1>3 DEF ServerNext, ServerStep

-----------------------------------------------------------------------------
(* The invariant is inductive.                                             *)

LEMMA StartupRowsAreTrades ==
  \A id \in DOMAIN StartupRows : StartupRows[id] \in Range(StartupTrades)
<1> SUFFICES ASSUME NEW id \in DOMAIN StartupRows
             PROVE  StartupRows[id] \in Range(StartupTrades)
  OBVIOUS
<1>1. \E trade \in Range(StartupTrades) : trade.tradeId = id
  BY DEF StartupRows, Range
<1>2. StartupRows[id] = CHOOSE trade \in Range(StartupTrades) : trade.tradeId = id
  BY DEF StartupRows
<1> QED BY <1>1, <1>2

LEMMA InitServerInv == ServerInit => ServerInv
<1> SUFFICES ASSUME ServerInit PROVE ServerInv
  OBVIOUS
<1>1. EngineInit
  BY DEF ServerInit
<1>2. /\ pc[Handler] = "idle" /\ pc[Ticker] = "idle" /\ executed[Handler] = <<>>
      /\ \A t \in Threads : pc[t] = "idle"
  BY <1>1, TwoThreads DEF EngineInit
<1>3. HandlerAt
  BY <1>2 DEF ServerInit, HandlerAt, PhaseOf
<1>4. TablesOK
  BY StartupRowsAreTrades, OpenedPortfoliosTyped DEF ServerInit, TablesOK
<1>5. TickerAt
  BY EngineAssumption DEF ServerInit, TickerAt
<1> QED BY <1>1, <1>3, <1>4, <1>5, ReportInvIsInductive DEF ServerInv

(* The handler's part speaks of no variable of the ticker, and the         *)
(* ticker's of none of the handler.                                        *)
LEMMA HandlerUndisturbed ==
  ASSUME HandlerAt, TablesOK, UNCHANGED handlerVars,
         pc'[Handler] = pc[Handler], executed'[Handler] = executed[Handler]
  PROVE  HandlerAt' /\ TablesOK'
  BY DEF HandlerAt, TablesOK, handlerVars, PhaseOf

LEMMA TickerUndisturbed ==
  ASSUME TickerAt, UNCHANGED tickerVars, pc'[Ticker] = pc[Ticker]
  PROVE  TickerAt'
  BY DEF TickerAt, tickerVars

(* The tables after a save.                                                *)
LEMMA SavedRows ==
  ASSUME NEW rows, NEW id, NEW row, NEW new \in Saved(rows, id, row)
  PROVE  /\ DOMAIN new \subseteq DOMAIN rows \cup {id}
         /\ DOMAIN rows \subseteq DOMAIN new
         /\ \A i \in DOMAIN new : new[i] = IF new # rows /\ i = id THEN row ELSE rows[i]
<1>1. new = Stored(rows, id, row) \/ new = rows
  BY DEF Saved
<1> QED BY <1>1 DEF Stored

(* The steps of the handler outside the engine.                            *)
LEMMA HandlerAloneKeepsInv ==
  ASSUME ServerInv,
         \/ \E body \in PostBody : Post(body)
         \/ MarkPortfolios \/ GetStock \/ Refuse \/ ApplyTrade \/ SaveTrade
  PROVE  HandlerAt' /\ TablesOK' /\ UNCHANGED vars /\ UNCHANGED tickerVars
<1> USE DEF ServerInv, HandlerAt, TablesOK
<1>1. ASSUME NEW body \in PostBody, Post(body) PROVE HandlerAt' /\ TablesOK'
  <2>1. body # NoOrder
    BY ServerAssumption DEF PostBody
  <2> QED BY <1>1, <2>1 DEF Post, PhaseOf, vars, localVars
<1>2. CASE MarkPortfolios
  <2>1. userPortfolios' \in Portfolios
    BY <1>2, MarkedPortfolios DEF MarkPortfolios, TickerAt
  <2> QED BY <1>2, <2>1 DEF MarkPortfolios, vars, localVars
<1>3. CASE GetStock
  BY <1>3 DEF GetStock, PhaseOf, vars, localVars
<1>4. CASE Refuse
  BY <1>4 DEF Refuse, PhaseOf, vars, localVars
<1>5. CASE ApplyTrade
  <2>1. executed[Handler] \in Seq(Trade)
    BY TwoThreads DEF ReportInv, EngineInv, TypeOK
  <2>2. executed[Handler][settled + 1] \in Trade
    BY <1>5, <2>1 DEF ApplyTrade
  <2>3. userPortfolios' \in Portfolios
    BY <1>5, <2>2, TradesAreSettleable, SettledPortfolios DEF ApplyTrade
  <2> QED BY <1>5, <2>3 DEF ApplyTrade, PhaseOf, vars, localVars
<1>6. CASE SaveTrade
  <2> DEFINE trade == executed[Handler][settled + 1]
  <2>1. executed[Handler] \in Seq(Trade)
    BY TwoThreads DEF ReportInv, EngineInv, TypeOK
  <2>2. /\ settled < Len(executed[Handler]) /\ settled \in Nat /\ trade \in Trade
        /\ Len(executed[Handler]) \in Nat /\ settled + 1 \in 0 .. Len(executed[Handler])
    BY <1>6, <2>1 DEF SaveTrade
  <2>3. tradeRows' \in Saved(tradeRows, trade.tradeId, trade)
    BY <1>6 DEF SaveTrade
  <2>4. TablesOK'
    BY <1>6, <2>2, <2>3, SavedRows DEF SaveTrade
  <2>5. HandlerAt'
    BY <1>6, <2>1, <2>2 DEF SaveTrade, PhaseOf, vars, localVars
  <2> QED BY <1>6, <2>4, <2>5 DEF SaveTrade
<1>7. UNCHANGED vars /\ UNCHANGED tickerVars
  BY DEF Post, MarkPortfolios, GetStock, Refuse, ApplyTrade, SaveTrade
<1> QED BY <1>1, <1>2, <1>3, <1>4, <1>5, <1>6, <1>7

(* The steps of the handler in the engine.                                 *)
LEMMA HandlerCallKeepsInv ==
  ASSUME ServerInv, EngineInv',
         (\E now \in Timestamps : Submit(now)) \/ Match \/ SaveOrder \/ Fail
  PROVE  HandlerAt' /\ TablesOK' /\ UNCHANGED tickerVars
<1> USE DEF ServerInv, HandlerAt, TablesOK
<1>1. EngineInv /\ executed[Handler] \in Seq(Trade) /\ executed'[Handler] \in Seq(Trade)
  BY TwoThreads DEF ReportInv, EngineInv, TypeOK
<1>2. ASSUME NEW now \in Timestamps, Submit(now) PROVE HandlerAt' /\ TablesOK'
  <2>1. pc'[Handler] = "test" /\ executed' = executed
    BY <1>1, <1>2, TwoThreads DEF Submit, ProcessOrder, Goto, EngineInv, TypeOK
  <2> QED BY <1>2, <2>1 DEF Submit, PhaseOf
<1>3. CASE Match
  <2>1. /\ pc[Handler] \notin {"idle", "done", "threw"} /\ pc'[Handler] # "idle"
        /\ Len(executed[Handler]) <= Len(executed'[Handler])
        /\ UNCHANGED handlerVars
    BY <1>1, <1>3, TwoThreads, CallUnderWay DEF Match
  <2>2. settled = 0 /\ settled' \in 0 .. Len(executed'[Handler])
    BY <1>1, <2>1 DEF handlerVars
  <2>3. phase = "matching" /\ phase' = "matching" /\ posted' = posted /\ settled' = 0
    BY <2>1, <2>2 DEF handlerVars, PhaseOf
  <2>4. HandlerAt'
    BY <2>1, <2>2, <2>3 DEF PhaseOf
  <2>5. TablesOK'
    BY <2>1 DEF handlerVars
  <2> QED BY <1>3, <2>4, <2>5 DEF Match
<1>4. CASE SaveOrder
  <2>1. pc'[Handler] = "idle" /\ executed'[Handler] = <<>>
    BY <1>1, <1>4, TwoThreads DEF SaveOrder, Return, ClearLocals, Goto, EngineInv, TypeOK
  <2>2. incoming[Handler].orderId \in OrderIds
    BY <1>1, <1>4, TwoThreads, CallFacts, OrderFields DEF SaveOrder
  <2>3. DOMAIN orderRows' \subseteq DOMAIN orderRows \cup {incoming[Handler].orderId}
    BY <1>4, SavedRows DEF SaveOrder
  <2> QED BY <1>4, <2>1, <2>2, <2>3 DEF SaveOrder, PhaseOf
<1>5. CASE Fail
  <2>1. pc'[Handler] = "idle" /\ executed'[Handler] = <<>> /\ pc[Handler] = "threw"
    BY <1>1, <1>5, TwoThreads DEF Fail, Return, ClearLocals, Goto, EngineInv, TypeOK
  <2> QED BY <1>5, <2>1 DEF Fail, PhaseOf
<1>6. UNCHANGED tickerVars
  BY DEF Submit, Match, SaveOrder, Fail
<1> QED BY <1>2, <1>3, <1>4, <1>5, <1>6

(* The steps of the ticker.                                                *)
LEMMA TickerStepKeepsInv ==
  ASSUME ServerInv, TickerStep
  PROVE  /\ TickerAt' /\ UNCHANGED handlerVars
         /\ pc'[Handler] = pc[Handler] /\ executed'[Handler] = executed[Handler]
<1> USE DEF ServerInv, TickerAt
<1>1. EngineInv /\ pc \in [Threads -> Labels]
  BY DEF ReportInv, EngineInv, TypeOK
<1>2. CASE StartTick
  BY <1>2 DEF StartTick, vars, localVars
<1>3. ASSUME NEW s \in Symbols, MoveStock(s)
      PROVE  /\ TickerAt' /\ UNCHANGED handlerVars
             /\ pc'[Handler] = pc[Handler] /\ executed'[Handler] = executed[Handler]
  <2>1. PICK price \in Prices, bid \in Prices, ask \in Prices,
             quantity \in Quantities, stamp \in Timestamps :
          /\ stockPrice' = [stockPrice EXCEPT ![s] = price]
          /\ seeds' = <<SeedOrder(s, "BUY", quantity, bid, stamp),
                        SeedOrder(s, "SELL", quantity, ask, stamp)>>
    BY <1>3 DEF MoveStock
  <2>2. /\ SeedOrder(s, "BUY", quantity, bid, stamp) \in OrderRequest
        /\ SeedOrder(s, "SELL", quantity, ask, stamp) \in OrderRequest
    BY ServerAssumption DEF SeedOrder, OrderRequest, OrderTypes, OrderSides
  <2>3. seeds' \in Seq(OrderRequest)
    BY <2>1, <2>2
  <2> QED BY <1>3, <2>1, <2>3 DEF MoveStock, vars, localVars
<1>4. ASSUME NEW now \in Timestamps, Seed(now)
      PROVE  /\ TickerAt' /\ UNCHANGED handlerVars
             /\ pc'[Handler] = pc[Handler] /\ executed'[Handler] = executed[Handler]
  <2>1. seeds # <<>> /\ Head(seeds) \in OrderRequest /\ seeds' \in Seq(OrderRequest)
    BY <1>4 DEF Seed
  <2>2. pc'[Handler] = pc[Handler] /\ executed'[Handler] = executed[Handler]
    BY <1>1, <1>4, <2>1, TwoThreads, OtherThread DEF Seed
  <2> QED BY <1>4, <2>1, <2>2 DEF Seed
<1>5. CASE MatchSeed
  <2>1. pc'[Handler] = pc[Handler] /\ executed'[Handler] = executed[Handler]
    BY <1>1, <1>5, TwoThreads, OtherThread DEF MatchSeed
  <2>2. pc[Ticker] # "idle"
    BY <1>1, <1>5, TwoThreads, CallUnderWay DEF MatchSeed
  <2> QED BY <1>5, <2>1, <2>2 DEF MatchSeed, tickerVars
<1>6. CASE DropResult
  <2>1. pc'[Handler] = pc[Handler] /\ executed'[Handler] = executed[Handler]
    BY <1>1, <1>6, TwoThreads, OtherThread DEF DropResult
  <2>2. pc[Ticker] # "idle"
    BY <1>6 DEF DropResult
  <2> QED BY <1>6, <2>1, <2>2 DEF DropResult, tickerVars
<1>7. CASE EndTick
  BY <1>7 DEF EndTick, vars, localVars
<1> QED BY <1>2, <1>3, <1>4, <1>5, <1>6, <1>7 DEF TickerStep

(* The handler's steps leave the ticker where it is.                       *)
LEMMA HandlerStepKeepsInv ==
  ASSUME ServerInv, EngineInv', HandlerStep
  PROVE  HandlerAt' /\ TablesOK' /\ TickerAt'
<1>1. EngineInv
  BY DEF ServerInv, ReportInv
<1>2. CASE \/ \E body \in PostBody : Post(body)
           \/ MarkPortfolios \/ GetStock \/ Refuse \/ ApplyTrade \/ SaveTrade
  <2>1. HandlerAt' /\ TablesOK' /\ UNCHANGED vars /\ UNCHANGED tickerVars
    BY <1>2, HandlerAloneKeepsInv
  <2> QED BY <2>1, TickerUndisturbed DEF ServerInv, vars
<1>3. CASE (\E now \in Timestamps : Submit(now)) \/ Match \/ SaveOrder \/ Fail
  <2>1. HandlerAt' /\ TablesOK' /\ UNCHANGED tickerVars
    BY <1>3, HandlerCallKeepsInv
  <2>2. pc'[Ticker] = pc[Ticker]
    <3>1. CASE Match \/ SaveOrder \/ Fail
      BY <1>1, <3>1, TwoThreads, OtherThread DEF Match, SaveOrder, Fail
    <3>2. ASSUME NEW now \in Timestamps, Submit(now) PROVE pc'[Ticker] = pc[Ticker]
      BY <1>1, <3>2, TwoThreads DEF Submit, ProcessOrder, Goto, EngineInv, TypeOK
    <3> QED BY <1>3, <3>1, <3>2
  <2> QED BY <2>1, <2>2, TickerUndisturbed DEF ServerInv
<1> QED BY <1>2, <1>3 DEF HandlerStep

(* A process that is started again is as it was at first, but for what its *)
(* tables kept.                                                            *)
LEMMA RestartKeepsInv ==
  ASSUME ServerInv, Restart PROVE HandlerAt' /\ TablesOK' /\ TickerAt'
<1>1. /\ pc'[Handler] = "idle" /\ executed'[Handler] = <<>>
      /\ phase' = "ready" /\ posted' = NoOrder /\ settled' = 0
  BY TwoThreads DEF Restart
<1>2. HandlerAt'
  BY <1>1 DEF HandlerAt, PhaseOf
<1>3. TablesOK'
  BY StartupRowsAreTrades, OpenedPortfoliosTyped DEF Restart, ServerInv, TablesOK
<1>4. TickerAt'
  BY EngineAssumption DEF Restart, TickerAt
<1> QED BY <1>2, <1>3, <1>4

LEMMA InitReportInv == EngineInit => ReportInv
  BY ReportInvIsInductive

LEMMA ServerNextKeepsInv == ServerInv /\ [ServerNext]_serverVars => ServerInv'
<1>1. ASSUME ServerInv, UNCHANGED serverVars PROVE ServerInv'
  <2>1. ReportInv'
    BY <1>1, ReportInvIsInductive DEF serverVars, ServerInv
  <2>2. UNCHANGED vars /\ UNCHANGED handlerVars /\ UNCHANGED tickerVars
    BY <1>1 DEF serverVars
  <2>3. HandlerAt' /\ TablesOK' /\ TickerAt'
    BY <1>1, <2>2, HandlerUndisturbed, TickerUndisturbed DEF vars, localVars, ServerInv
  <2> QED BY <2>1, <2>3 DEF ServerInv
<1>2. ASSUME ServerInv, ServerNext PROVE ServerInv'
  <2>1. ReportInv'
    <3>2. EngineInit' => ReportInv'
      BY InitReportInv, PTL
    <3>3. [EngineNext]_vars => ReportInv'
      BY <1>2, ReportInvIsInductive DEF ServerInv
    <3> QED BY <1>2, <3>2, <3>3, ServerStepsAreEngineSteps
  <2>2. EngineInv'
    BY <2>1 DEF ReportInv
  <2>3. CASE HandlerStep
    BY <1>2, <2>1, <2>2, <2>3, HandlerStepKeepsInv DEF ServerInv
  <2>4. CASE TickerStep
    <3>1. TickerAt' /\ HandlerAt' /\ TablesOK'
      BY <1>2, <2>4, TickerStepKeepsInv, HandlerUndisturbed DEF ServerInv
    <3> QED BY <2>1, <3>1 DEF ServerInv
  <2>5. CASE Restart
    BY <1>2, <2>1, <2>5, RestartKeepsInv DEF ServerInv
  <2> QED BY <1>2, <2>3, <2>4, <2>5 DEF ServerNext, ServerStep
<1> QED BY <1>1, <1>2

(* The handler, the ticker and their engine keep the invariant, at every   *)
(* step of either and whenever the process is killed.                      *)
THEOREM ServerInvariant == ServerSpec => []ServerInv
  BY InitServerInv, ServerNextKeepsInv, PTL DEF ServerSpec

(* Every variable of the server keeps its type, and the handler is where   *)
(* its call of the engine is, however the ticker interleaves.              *)
THEOREM ServerTypeCorrect == ServerSpec => []ServerTypeOK
<1>1. ServerInv => ServerTypeOK
  BY DEF ServerInv, ReportInv, EngineInv, HandlerAt, TablesOK, TickerAt, ServerTypeOK,
         Portfolios, MaybePortfolio
<1> QED BY <1>1, ServerInvariant, PTL

-----------------------------------------------------------------------------
(* The numbers of trades, when no two calls of the engine overlap.         *)

(* The trades of the handler's call have the last numbers given out, in    *)
(* the order they were executed, and each is a trade of the handler's      *)
(* order.                                                                  *)
Base == tradeIdCounter - Len(executed[Handler])

PartOf(id, trade) == id \in {trade.buyOrderId, trade.sellOrderId}

NumbersOK ==
  /\ OneInside
  /\ \A t \in Threads : pc[t] = "trade" => tradeId[t] = tradeIdCounter + 1
  /\ Base \in Nat
  /\ \A i \in DOMAIN executed[Handler] :
       /\ executed[Handler][i].tradeId = Base + i
       /\ PartOf(incoming[Handler].orderId, executed[Handler][i])

LEMMA InitNumbers == ASSUME EngineInit PROVE NumbersOK
<1>1. /\ \A t \in Threads : pc[t] = "idle"
      /\ executed[Handler] = <<>> /\ tradeIdCounter = 0
  BY TwoThreads DEF EngineInit
<1> QED BY <1>1, TwoThreads DEF NumbersOK, OneInside, Base

LEMMA InitNumbersOK == EngineInit => NumbersOK
  BY InitNumbers

LEMMA SameNumbers ==
  ASSUME NumbersOK, UNCHANGED vars PROVE NumbersOK'
  BY DEF NumbersOK, OneInside, Base, PartOf, vars, bookVars, localVars

(* While one thread is inside the engine the other is not.                 *)
LEMMA OtherIsIdle ==
  ASSUME OneInside, NEW t \in Threads, NEW u \in Threads, u # t, pc[t] # "idle"
  PROVE  pc[u] = "idle"
  BY TwoThreads, ServerAssumption DEF OneInside

LEMMA NumbersOfACall ==
  ASSUME EngineInv, NumbersOK, OneInside', NEW t \in Threads,
         \/ \E request \in OrderRequest, now \in Timestamps : ProcessOrder(t, request, now)
         \/ Return(t)
  PROVE  NumbersOK'
<1> USE TwoThreads DEF EngineInv, TypeOK, Goto
<1>1. tradeIdCounter' = tradeIdCounter /\ tradeIdCounter \in Nat
  BY DEF ProcessOrder, Return, bookVars
<1>2. \A u \in Threads : pc'[u] = "trade" => pc[u] = "trade" /\ tradeId'[u] = tradeId[u]
  BY DEF ProcessOrder, Return, ClearLocals
<1>3. CASE executed'[Handler] = <<>>
  <2>1. Base' = tradeIdCounter /\ DOMAIN executed'[Handler] = {}
    BY <1>1, <1>3 DEF Base
  <2>2. OneInside' /\ \A u \in Threads : pc'[u] = "trade" => tradeId'[u] = tradeIdCounter' + 1
    BY <1>1, <1>2 DEF NumbersOK
  <2> QED BY <1>1, <2>1, <2>2 DEF NumbersOK
<1>4. CASE executed'[Handler] = executed[Handler] /\ incoming'[Handler] = incoming[Handler]
  BY <1>1, <1>2, <1>4 DEF NumbersOK, Base, PartOf
<1>5. CASE t = Handler
  <2>1. CASE Return(t)
    BY <1>3, <1>5, <2>1 DEF Return, ClearLocals
  <2>2. CASE \E request \in OrderRequest, now \in Timestamps : ProcessOrder(t, request, now)
    <3>1. pc[Handler] = "idle" /\ executed' = executed
      BY <1>5, <2>2 DEF ProcessOrder
    <3>2. executed[Handler] = <<>>
      BY <3>1 DEF CallOK
    <3> QED BY <1>3, <3>1, <3>2
  <2> QED BY <2>1, <2>2
<1>6. CASE t # Handler
  BY <1>4, <1>6, OtherThread
<1> QED BY <1>5, <1>6

LEMMA NumbersOfTrades ==
  ASSUME EngineInv, NumbersOK, OneInside', NEW t \in Threads, ExecuteTrade(t)
  PROVE  NumbersOK'
<1> USE TwoThreads DEF EngineInv, TypeOK, Goto
<1> DEFINE trade == TradeOf(tradeId[t], incoming[t], maker[t], matchQty[t])
<1>1. /\ pc[t] = "trade" /\ tradeIdCounter' = tradeIdCounter + 1 /\ tradeIdCounter \in Nat
      /\ executed'[t] = Append(executed[t], trade) /\ incoming' = incoming
      /\ executed[t] \in Seq(Trade)
      /\ pc' = [pc EXCEPT ![t] = "test"]
  BY DEF ExecuteTrade, NumbersOK
<1>2. \A u \in Threads : pc'[u] # "trade"
  <2>1. \A u \in Threads : u # t => pc[u] = "idle"
    BY <1>1, OtherIsIdle DEF NumbersOK
  <2> QED BY <1>1, <2>1
<1>3. CASE t # Handler
  <2>1. pc[Handler] = "idle"
    BY <1>1, <1>3, OtherIsIdle DEF NumbersOK
  <2>2. executed[Handler] = <<>> /\ executed'[Handler] = executed[Handler]
    BY <1>3, <2>1 DEF CallOK, ExecuteTrade
  <2> QED BY <1>1, <1>2, <2>2 DEF NumbersOK, Base
<1>4. CASE t = Handler
  <2> DEFINE n == Len(executed[Handler])
  <2>1. n \in Nat /\ Base \in Nat /\ tradeIdCounter = Base + n
    BY <1>1, <1>4 DEF NumbersOK, Base
  <2>2. Len(executed'[Handler]) = n + 1 /\ DOMAIN executed'[Handler] = 1 .. n + 1
    BY <1>1, <1>4
  <2>3. Base' = Base
    BY <1>1, <2>1, <2>2 DEF Base
  <2>4. trade.tradeId = tradeIdCounter + 1 /\ PartOf(incoming[t].orderId, trade)
    BY <1>1 DEF NumbersOK, TradeOf, PartOf
  <2>5. ASSUME NEW i \in 1 .. n + 1
        PROVE  /\ executed'[Handler][i].tradeId = Base + i
               /\ PartOf(incoming[Handler].orderId, executed'[Handler][i])
    <3> HIDE DEF trade
    <3>1. CASE i = n + 1
      <4>1. executed'[Handler][i] = trade
        BY <1>1, <1>4, <3>1
      <4>2. tradeIdCounter + 1 = Base + i
        BY <2>1, <3>1
      <4> QED BY <1>4, <2>4, <4>1, <4>2
    <3>2. CASE i # n + 1
      <4>1. executed[Handler] \in Seq(Trade) /\ executed'[Handler] = Append(executed[Handler], trade)
        BY <1>1, <1>4
      <4>2. i \in 1 .. n
        <5> HIDE DEF n
        <5> QED BY <2>1, <3>2
      <4>3. i \in DOMAIN executed[Handler] /\ executed'[Handler][i] = executed[Handler][i]
        BY <4>1, <4>2
      <4> QED BY <4>3 DEF NumbersOK
    <3> QED BY <3>1, <3>2
  <2> QED BY <1>1, <1>2, <2>1, <2>2, <2>3, <2>5 DEF NumbersOK, PartOf
<1> QED BY <1>3, <1>4

LEMMA NumbersOfOtherSteps ==
  ASSUME EngineInv, NumbersOK, OneInside', NEW t \in Threads,
         \/ Test(t) \/ Throw(t) \/ Peek(t) \/ Pop(t) \/ Refill(t) \/ LoadTradeId(t) \/ Rest(t)
  PROVE  NumbersOK'
<1> USE TwoThreads DEF EngineInv, TypeOK, Goto
<1>1. executed' = executed /\ tradeIdCounter' = tradeIdCounter
  BY DEF Test, Throw, Peek, LeaveLoop, Pop, Refill, LoadTradeId, Rest, localVars, bookVars
<1>2. incoming'[Handler].orderId = incoming[Handler].orderId
  <2>1. CASE incoming' = incoming
    BY <2>1
  <2>2. CASE Pop(t)
    <3> DEFINE q == MatchQuantity(incoming[t], maker[t])
    <3>1. incoming' = [incoming EXCEPT ![t] = Fill(incoming[t], q)]
      BY <2>2 DEF Pop
    <3>2. Fill(incoming[t], q).orderId = incoming[t].orderId
      BY <2>2 DEF Pop, CallOK, IncomingOK, Order, Fill
    <3> QED BY <3>1, <3>2
  <2> QED BY <2>1, <2>2 DEF Test, Throw, Peek, Refill, LoadTradeId, Rest, localVars
<1>3. \A u \in Threads : pc'[u] = "trade" => tradeId'[u] = tradeIdCounter + 1
  <2>1. CASE LoadTradeId(t)
    BY <2>1 DEF LoadTradeId, NumbersOK
  <2>2. CASE tradeId' = tradeId /\ \A u \in Threads : pc'[u] = "trade" => pc[u] = "trade"
    BY <2>2 DEF NumbersOK
  <2>3. CASE \/ Test(t) \/ Throw(t) \/ Peek(t) \/ Pop(t) \/ Refill(t) \/ Rest(t)
    BY <2>2, <2>3 DEF Test, Throw, Peek, LeaveLoop, Pop, Refill, Rest, localVars
  <2> QED BY <2>1, <2>3
<1> QED BY <1>1, <1>2, <1>3 DEF NumbersOK, Base, PartOf

LEMMA EngineStepKeepsNumbers ==
  ASSUME EngineInv, NumbersOK, OneInside', NEW t \in Threads,
         CallStep(t)
  PROVE  NumbersOK'
  BY NumbersOfACall, NumbersOfTrades, NumbersOfOtherSteps DEF Advance, CallStep

(* A step of a call takes back no number.                                  *)
LEMMA BaseNeverFalls ==
  ASSUME EngineInv, EngineInv', NumbersOK, NEW t \in Threads, CallStep(t)
  PROVE  Base' \in Int /\ Base <= Base'
<1>0. /\ tradeIdCounter \in Nat /\ executed \in [Threads -> Seq(Trade)]
      /\ tradeIdCounter' \in Nat /\ executed' \in [Threads -> Seq(Trade)]
  BY DEF EngineInv, TypeOK
<1>1. /\ Len(executed[Handler]) \in Nat /\ Len(executed'[Handler]) \in Nat
      /\ executed[t] \in Seq(Trade)
  BY <1>0, TwoThreads
<1>2. CASE ExecuteTrade(t)
  <2>1. PICK trade : /\ tradeIdCounter' = tradeIdCounter + 1
                     /\ executed' = [executed EXCEPT ![t] = Append(executed[t], trade)]
    BY <1>2 DEF ExecuteTrade, NumbersOK
  <2>2. Len(executed'[t]) = Len(executed[t]) + 1
    BY <1>0, <1>1, <2>1
  <2>3. Len(executed'[Handler]) \in {Len(executed[Handler]), Len(executed[Handler]) + 1}
    BY <1>0, <2>1, <2>2, TwoThreads
  <2>4. tradeIdCounter \in Int /\ tradeIdCounter' \in Int
    BY <1>0
  <2>5. ASSUME NEW c \in Int, NEW d \in Int, NEW m \in Nat, NEW n \in Nat,
               d = c + 1, n \in {m, m + 1}
        PROVE  d - n \in Int /\ c - m <= d - n
    BY <2>5
  <2> QED BY <1>1, <2>1, <2>3, <2>4, <2>5 DEF Base
<1>3. CASE ~ExecuteTrade(t)
  <2>1. tradeIdCounter' = tradeIdCounter
    BY <1>3 DEF CallStep, Advance, ProcessOrder, Test, Throw, Peek, Pop, Refill,
                LoadTradeId, Rest, Return, bookVars
  <2>2. executed' = executed \/ executed' = [executed EXCEPT ![t] = <<>>]
    BY <1>3 DEF CallStep, Advance, ProcessOrder, Test, Throw, Peek, Pop, Refill,
                LoadTradeId, Rest, Return, ClearLocals, localVars
  <2>3. Len(executed'[Handler]) \in {Len(executed[Handler]), 0}
    <3>1. executed'[Handler] = executed[Handler] \/ executed'[Handler] = <<>>
      BY <1>0, <2>2, TwoThreads
    <3> QED BY <3>1
  <2> QED BY <1>0, <1>1, <2>1, <2>3 DEF Base
<1> QED BY <1>2, <1>3

-----------------------------------------------------------------------------
(* The rows of the trades table.                                           *)

RowsTyped ==
  \A id \in DOMAIN tradeRows : id \in Int /\ (id > 0 => tradeRows[id] \in Trade)

(* The handler's trades are stored in order, each once, over no other row. *)
RowsInOrder == \A id \in DOMAIN tradeRows : id <= Base + settled

RowsComplete ==
  \A i \in 1 .. settled :
    Base + i \in DOMAIN tradeRows /\ tradeRows[Base + i] = executed[Handler][i]

StoredOK ==
  /\ restarts \in 0 .. MaxRestarts
  /\ RowsTyped
  /\ MaxRestarts = 0 => RowsInOrder
  /\ ~StorageMayFail => RowsComplete

ApartInv == ServerInv /\ NumbersOK /\ StoredOK

LEMMA StartupIds == \A id \in DOMAIN StartupRows : id \in Int /\ id <= 0
<1> SUFFICES ASSUME NEW id \in DOMAIN StartupRows PROVE id \in Int /\ id <= 0
  OBVIOUS
<1>1. PICK i \in DOMAIN StartupTrades : id = StartupTrades[i].tradeId
  BY DEF StartupRows
<1>2. StartupTrades[i] \in OpeningTrade
  BY <1>1, ServerAssumption
<1>3. StartupTrades[i].tradeId \in Int \ (Nat \ {0})
  BY <1>2 DEF OpeningTrade
<1> QED BY <1>1, <1>3

LEMMA InitApartInv == ServerInit => ApartInv
<1> SUFFICES ASSUME ServerInit PROVE ApartInv
  OBVIOUS
<1>1. ServerInv /\ NumbersOK
  BY InitServerInv, InitNumbers DEF ServerInit
<1>2. Base = 0 /\ settled = 0 /\ tradeRows = StartupRows /\ restarts = 0
  <2>1. tradeIdCounter = 0 /\ executed[Handler] = <<>>
    BY TwoThreads DEF ServerInit, EngineInit
  <2>2. Base = 0
    <3>1. Len(executed[Handler]) = 0
      BY <2>1
    <3>2. 0 - 0 = 0
      OBVIOUS
    <3> QED BY <2>1, <3>1, <3>2 DEF Base
  <2> QED BY <2>2 DEF ServerInit
<1>3. StoredOK
  BY <1>2, StartupIds, ServerAssumption DEF StoredOK, RowsTyped, RowsInOrder, RowsComplete
<1> QED BY <1>1, <1>3 DEF ApartInv

(* Steps that neither save nor end a call: the rows and the count of those *)
(* settled stay, and unless nothing is settled so do the handler's trades. *)
LEMMA RowsUndisturbed ==
  ASSUME ApartInv, UNCHANGED <<tradeRows, settled, restarts>>,
         Base' \in Int, Base <= Base',
         settled # 0 => Base' = Base /\ executed'[Handler] = executed[Handler]
  PROVE  StoredOK'
<1>1. settled \in Nat /\ Base \in Nat
  BY DEF ApartInv, ServerInv, HandlerAt, NumbersOK
<1>2. RowsTyped' /\ restarts' \in 0 .. MaxRestarts
  BY DEF ApartInv, StoredOK, RowsTyped
<1>3. MaxRestarts = 0 => RowsInOrder'
  BY <1>1 DEF ApartInv, StoredOK, RowsTyped, RowsInOrder
<1>4. ~StorageMayFail => RowsComplete'
  BY <1>1 DEF ApartInv, StoredOK, RowsComplete
<1> QED BY <1>2, <1>3, <1>4 DEF StoredOK

LEMMA SaveTradeKeepsRows ==
  ASSUME ApartInv, SaveTrade, UNCHANGED restarts
  PROVE  /\ StoredOK'
         /\ MaxRestarts = 0 => \A id \in DOMAIN tradeRows :
              id \in DOMAIN tradeRows' /\ tradeRows'[id] = tradeRows[id]
<1> DEFINE trade == executed[Handler][settled + 1]
           id == Base + settled + 1
<1>1. /\ settled \in Nat /\ Base \in Nat /\ settled < Len(executed[Handler])
      /\ executed[Handler] \in Seq(Trade)
  BY TwoThreads DEF ApartInv, ServerInv, HandlerAt, NumbersOK, SaveTrade, ReportInv, EngineInv, TypeOK
<1>2. settled + 1 \in DOMAIN executed[Handler] /\ trade \in Trade
  BY <1>1
<1>3. trade.tradeId = id
  BY <1>1, <1>2 DEF ApartInv, NumbersOK
<1>4. /\ tradeRows' \in Saved(tradeRows, trade.tradeId, trade)
      /\ settled' = settled + 1 /\ executed' = executed /\ Base' = Base
  BY DEF SaveTrade, vars, bookVars, localVars, Base
<1> HIDE DEF trade
<1>5. tradeRows' \in Saved(tradeRows, id, trade) /\ id \in Nat /\ id > 0
  BY <1>1, <1>3, <1>4
<1> HIDE DEF id
<1>6. /\ DOMAIN tradeRows' \subseteq DOMAIN tradeRows \cup {id}
      /\ DOMAIN tradeRows \subseteq DOMAIN tradeRows'
      /\ \A i \in DOMAIN tradeRows' :
           tradeRows'[i] = IF tradeRows' # tradeRows /\ i = id THEN trade ELSE tradeRows[i]
  BY <1>5, SavedRows
<1>7. RowsTyped'
  <2>1. ASSUME NEW i \in DOMAIN tradeRows', i > 0 PROVE tradeRows'[i] \in Trade
    <3>1. CASE tradeRows' # tradeRows /\ i = id
      BY <1>2, <1>6, <3>1
    <3>2. CASE ~(tradeRows' # tradeRows /\ i = id)
      <4>1. i \in DOMAIN tradeRows /\ tradeRows'[i] = tradeRows[i]
        BY <1>6, <3>2
      <4> QED BY <2>1, <4>1 DEF ApartInv, StoredOK, RowsTyped
    <3> QED BY <3>1, <3>2
  <2> QED BY <1>5, <1>6, <2>1 DEF ApartInv, StoredOK, RowsTyped
<1>8. ASSUME MaxRestarts = 0
      PROVE  RowsInOrder' /\ \A i \in DOMAIN tradeRows :
               i \in DOMAIN tradeRows' /\ tradeRows'[i] = tradeRows[i]
  <2>1. \A i \in DOMAIN tradeRows : i \in Int /\ i <= Base + settled
    BY <1>8 DEF ApartInv, StoredOK, RowsTyped, RowsInOrder
  <2>2. id \notin DOMAIN tradeRows
    BY <1>1, <2>1 DEF id
  <2>3. RowsInOrder'
    BY <1>1, <1>4, <1>6, <2>1 DEF RowsInOrder, id
  <2> QED BY <1>6, <2>2, <2>3
<1>9. ASSUME ~StorageMayFail PROVE RowsComplete'
  <2>1. tradeRows' = Stored(tradeRows, id, trade)
    BY <1>5, <1>9 DEF Saved
  <2>2. id \in DOMAIN tradeRows' /\ tradeRows'[id] = trade
    BY <2>1 DEF Stored
  <2>3. ASSUME NEW i \in 1 .. settled + 1
        PROVE  Base + i \in DOMAIN tradeRows' /\ tradeRows'[Base + i] = executed[Handler][i]
    <3>1. CASE i = settled + 1
      <4>1. Base + i = id
        BY <1>1, <3>1 DEF id
      <4> QED BY <2>2, <3>1, <4>1 DEF trade
    <3>2. CASE i # settled + 1
      <4>1. i \in 1 .. settled /\ Base + i # id
        BY <1>1, <3>2 DEF id
      <4>2. Base + i \in DOMAIN tradeRows /\ tradeRows[Base + i] = executed[Handler][i]
        BY <1>9, <4>1 DEF ApartInv, StoredOK, RowsComplete
      <4> QED BY <2>1, <4>1, <4>2 DEF Stored
    <3> QED BY <3>1, <3>2
  <2> QED BY <1>4, <2>3 DEF RowsComplete
<1> QED BY <1>7, <1>8, <1>9 DEF ApartInv, StoredOK

(* The end of a call takes its numbers into those settled.                 *)
LEMMA SaveOrderMovesBase ==
  ASSUME ApartInv, SaveOrder
  PROVE  /\ Base' = Base + settled /\ Base' \in Nat /\ settled' = 0
         /\ UNCHANGED <<tradeRows, userPortfolios>> /\ executed'[Handler] = <<>>
<1>1. EngineInv
  BY DEF ApartInv, ServerInv, ReportInv
<1>2. /\ settled = Len(executed[Handler]) /\ settled' = 0
      /\ tradeRows' = tradeRows /\ tradeIdCounter' = tradeIdCounter
      /\ userPortfolios' = userPortfolios /\ executed'[Handler] = <<>>
  BY <1>1, TwoThreads DEF SaveOrder, Return, ClearLocals, bookVars, EngineInv, TypeOK
<1>3. tradeIdCounter \in Nat /\ settled \in Int
  BY <1>1 DEF EngineInv, TypeOK, ApartInv, ServerInv, HandlerAt
<1>4. Base' = Base + settled /\ Base' \in Nat
  <2>1. Len(executed'[Handler]) = 0
    BY <1>2
  <2> QED BY <1>2, <1>3, <2>1 DEF Base
<1> QED BY <1>2, <1>4

(* Until a call is over nothing of it is settled.                          *)
LEMMA CallsSettleNothing ==
  ASSUME ApartInv, ServerInv', (\E now \in Timestamps : Submit(now)) \/ Match \/ Fail
  PROVE  /\ Base' \in Int /\ Base <= Base' /\ settled = 0 /\ pc[Handler] # "done"
         /\ UNCHANGED <<tradeRows, settled, userPortfolios>>
<1>1. EngineInv /\ EngineInv' /\ NumbersOK
  BY DEF ApartInv, ServerInv, ReportInv
<1>2. CallStep(Handler) \/ UNCHANGED vars
  <2>1. HandlerStep
    BY DEF HandlerStep
  <2> QED BY <2>1, HandlerStepsAreCalls DEF ApartInv
<1>3. Base' \in Int /\ Base <= Base'
  <2>1. CASE CallStep(Handler)
    BY <1>1, <2>1, TwoThreads, BaseNeverFalls
  <2>2. CASE UNCHANGED vars
    BY <1>1, <2>2 DEF Base, vars, bookVars, localVars, NumbersOK
  <2> QED BY <1>2, <2>1, <2>2
<1>4. UNCHANGED <<tradeRows, settled, userPortfolios>>
  BY DEF Submit, Match, Fail, handlerVars
<1>5. pc[Handler] # "done"
  <2>1. CASE Match
    BY <1>1, <2>1, TwoThreads, CallUnderWay DEF Match
  <2> QED BY <2>1 DEF Submit, Fail, ProcessOrder
<1>6. settled = 0
  BY <1>5 DEF ApartInv, ServerInv, HandlerAt
<1> QED BY <1>3, <1>4, <1>5, <1>6

LEMMA HandlerStepKeepsApart ==
  ASSUME ApartInv, ServerInv', OneInside', HandlerStep, UNCHANGED restarts
  PROVE  ApartInv'
<1>1. EngineInv /\ EngineInv' /\ NumbersOK
  BY DEF ApartInv, ServerInv, ReportInv
<1>2. NumbersOK'
  <2>1. UNCHANGED vars \/ CallStep(Handler)
    BY HandlerStepsAreCalls DEF ApartInv
  <2> QED BY <1>1, <2>1, SameNumbers, EngineStepKeepsNumbers, TwoThreads
<1>3. CASE SaveTrade
  BY <1>2, <1>3, SaveTradeKeepsRows DEF ApartInv
<1>4. CASE SaveOrder
  <2>1. /\ Base' = Base + settled /\ settled' = 0 /\ tradeRows' = tradeRows
    BY <1>4, SaveOrderMovesBase DEF ApartInv
  <2>2. Base' + settled' = Base + settled
    BY <2>1, <1>2 DEF NumbersOK
  <2>3. RowsTyped' /\ restarts' \in 0 .. MaxRestarts
    BY <2>1 DEF ApartInv, StoredOK, RowsTyped
  <2>4. MaxRestarts = 0 => RowsInOrder'
    BY <2>1, <2>2 DEF ApartInv, StoredOK, RowsInOrder
  <2>5. RowsComplete'
    BY <2>1 DEF RowsComplete
  <2> QED BY <1>2, <2>3, <2>4, <2>5 DEF ApartInv, StoredOK
<1>5. CASE \/ \E body \in PostBody : Post(body)
           \/ MarkPortfolios \/ GetStock \/ Refuse \/ ApplyTrade
  <2>1. UNCHANGED <<vars, tradeRows, settled>>
    BY <1>5 DEF Post, MarkPortfolios, GetStock, Refuse, ApplyTrade
  <2>2. Base' = Base /\ Base \in Nat /\ executed'[Handler] = executed[Handler]
    BY <1>1, <2>1 DEF Base, vars, bookVars, localVars, NumbersOK
  <2> QED BY <1>2, <2>1, <2>2, RowsUndisturbed DEF ApartInv
<1>6. CASE (\E now \in Timestamps : Submit(now)) \/ Match \/ Fail
  <2>1. Base' \in Int /\ Base <= Base' /\ settled = 0 /\ UNCHANGED <<tradeRows, settled>>
    BY <1>6, CallsSettleNothing
  <2> QED BY <1>2, <2>1, RowsUndisturbed DEF ApartInv
<1> QED BY <1>3, <1>4, <1>5, <1>6 DEF HandlerStep

(* While trades are being settled the handler is in the engine, and the    *)
(* ticker has to wait.                                                     *)
LEMMA HandlerWaits ==
  ASSUME ApartInv, OneInside', TickerStep, CallStep(Ticker)
  PROVE  pc[Handler] = "idle" /\ settled = 0 /\ phase \notin {"matching", "save"}
<1>1. EngineInv
  BY DEF ApartInv, ServerInv, ReportInv
<1>2. pc'[Handler] = pc[Handler]
  BY TickerStepKeepsInv DEF ApartInv
<1>3. pc[Ticker] # "idle" \/ pc'[Ticker] # "idle"
  <2>1. CASE Advance(Ticker)
    BY <1>1, <2>1, TwoThreads, CallUnderWay
  <2>2. CASE Return(Ticker)
    BY <2>2 DEF Return
  <2>3. CASE \E request \in OrderRequest, now \in Timestamps : ProcessOrder(Ticker, request, now)
    BY <1>1, <2>3, TwoThreads DEF ProcessOrder, Goto, EngineInv, TypeOK
  <2> QED BY <2>1, <2>2, <2>3 DEF CallStep
<1>4. pc[Handler] = "idle"
  BY <1>2, <1>3, ServerAssumption DEF ApartInv, NumbersOK, OneInside
<1> QED BY <1>4 DEF ApartInv, ServerInv, HandlerAt

LEMMA TickerStepKeepsApart ==
  ASSUME ApartInv, ServerInv', OneInside', TickerStep, UNCHANGED restarts
  PROVE  ApartInv'
<1>1. EngineInv /\ EngineInv' /\ NumbersOK /\ UNCHANGED handlerVars
  BY TickerStepKeepsInv DEF ApartInv, ServerInv, ReportInv
<1>2. CASE UNCHANGED vars
  <2>1. NumbersOK'
    BY <1>1, <1>2, SameNumbers
  <2>2. Base' = Base /\ Base \in Nat /\ executed'[Handler] = executed[Handler]
    BY <1>1, <1>2 DEF Base, vars, bookVars, localVars, NumbersOK
  <2> QED BY <1>1, <2>1, <2>2, RowsUndisturbed DEF ApartInv, handlerVars
<1>3. CASE CallStep(Ticker)
  <2>1. NumbersOK'
    BY <1>1, <1>3, EngineStepKeepsNumbers, TwoThreads
  <2>2. Base' \in Int /\ Base <= Base'
    BY <1>1, <1>3, BaseNeverFalls, TwoThreads
  <2>3. settled = 0
    BY <1>3, HandlerWaits DEF ApartInv
  <2> QED BY <1>1, <2>1, <2>2, <2>3, RowsUndisturbed DEF ApartInv, handlerVars
<1> QED BY <1>2, <1>3, TickerStepsAreCalls DEF ApartInv

LEMMA RestartKeepsApart ==
  ASSUME ApartInv, ServerInv', Restart PROVE ApartInv'
<1>1. NumbersOK'
  <2>1. EngineInit'
    BY DEF Restart, EngineInit
  <2>2. EngineInit' => NumbersOK'
    BY InitNumbersOK, PTL
  <2> QED BY <2>1, <2>2
<1>2. restarts' \in 0 .. MaxRestarts /\ MaxRestarts # 0
  BY ServerAssumption DEF Restart, ApartInv, StoredOK
<1>3. RowsTyped'
  BY StartupIds DEF Restart, ApartInv, StoredOK, RowsTyped
<1>4. RowsComplete'
  BY DEF Restart, RowsComplete
<1> QED BY <1>1, <1>2, <1>3, <1>4 DEF ApartInv, StoredOK

(* A process that is started again has nobody in its engine.               *)
LEMMA ApartNextIsNext == ApartNext => ServerNext /\ OneInside'
<1>1. Restart => OneInside'
  BY TwoThreads DEF Restart, OneInside
<1> QED BY <1>1 DEF ApartNext, ServerNext

LEMMA ApartNextKeepsInv ==
  ApartInv /\ [ApartNext]_serverVars => ApartInv'
<1>1. ASSUME ApartInv, UNCHANGED serverVars PROVE ApartInv'
  <2>1. ServerInv'
    BY <1>1, ServerNextKeepsInv DEF ApartInv
  <2>2. UNCHANGED vars /\ UNCHANGED <<tradeRows, settled, restarts>>
    BY <1>1 DEF serverVars, handlerVars
  <2>3. NumbersOK'
    BY <1>1, <2>2, SameNumbers DEF ApartInv
  <2>4. Base' = Base /\ Base \in Nat /\ executed'[Handler] = executed[Handler]
    BY <1>1, <2>2 DEF Base, vars, bookVars, localVars, ApartInv, NumbersOK
  <2> QED BY <1>1, <2>1, <2>2, <2>3, <2>4, RowsUndisturbed DEF ApartInv
<1>2. ASSUME ApartInv, ServerNext, OneInside' PROVE ApartInv'
  <2>1. ServerInv'
    BY <1>2, ServerNextKeepsInv DEF ApartInv
  <2> QED BY <1>2, <2>1, HandlerStepKeepsApart, TickerStepKeepsApart, RestartKeepsApart
        DEF ServerNext, ServerStep
<1> QED BY <1>1, <1>2, ApartNextIsNext

(* The trades of a call have consecutive numbers above every stored one,   *)
(* as long as the handler and the ticker are not in the engine at once.    *)
THEOREM ApartInvariant == ApartSpec => []ApartInv
  BY InitApartInv, ApartNextKeepsInv, PTL DEF ApartSpec

-----------------------------------------------------------------------------
(* The row of an order and the trades it tells of.                         *)

RecordedBy(id) == [n \in 1 .. tradeIdCounter |-> RecordedIn(n, id)]

LEMMA RecordedFillsIsTotal ==
  ASSUME RowsTyped, tradeIdCounter \in Nat, NEW id
  PROVE  \E f : /\ IsTotal(f, tradeIdCounter, RecordedBy(id))
                /\ RecordedFills(id) = f[tradeIdCounter]
                /\ \A k \in 0 .. tradeIdCounter : f[k] \in Nat
<1> DEFINE n == tradeIdCounter
           q == RecordedBy(id)
           Sums(f) == f = [k \in 0 .. n |-> IF k = 0 THEN 0 ELSE f[k - 1] + RecordedIn(k, id)]
           Total == CHOOSE f : Sums(f)
<1>1. n \in Nat /\ \A k \in 1 .. n : q[k] = RecordedIn(k, id) /\ q[k] \in Nat
  <2>1. \A trade \in Trade : trade.quantity \in Nat
    BY DEF Trade
  <2>2. ASSUME NEW k \in 1 .. n PROVE RecordedIn(k, id) \in Nat
    BY <2>1 DEF RecordedIn, RowsTyped
  <2> QED BY <2>2 DEF RecordedBy
<1>2. ASSUME NEW f PROVE Sums(f) <=> IsTotal(f, n, q)
  BY <1>1 DEF IsTotal
<1>3. PICK g : IsTotal(g, n, q) /\ \A k \in 0 .. n : g[k] \in Int
  <2>1. \A k \in 1 .. n : q[k] \in Int
    BY <1>1
  <2> HIDE DEF q, n
  <2> QED BY <1>1, <2>1, TotalExists
<1>4. Sums(Total)
  <2>1. Sums(g)
    BY <1>2, <1>3
  <2> HIDE DEF Sums
  <2> QED BY <2>1
<1>5. IsTotal(Total, n, q)
  BY <1>2, <1>4
<1>6. RecordedFills(id) = Total[n]
  BY DEF RecordedFills
<1> HIDE DEF Total, Sums
<1>7. \A k \in 0 .. n : Total[k] \in Nat
  <2> DEFINE P == {k \in Nat : k <= n => Total[k] \in Nat}
  <2>1. \A k \in 0 .. n : Total[k] = IF k = 0 THEN 0 ELSE Total[k - 1] + q[k]
    BY <1>5 DEF IsTotal
  <2>2. 0 \in P
    BY <1>1, <2>1
  <2>3. ASSUME NEW k \in Nat, k \in P PROVE k + 1 \in P
    <3> SUFFICES ASSUME k + 1 <= n PROVE Total[k + 1] \in Nat
      OBVIOUS
    <3>1. Total[k + 1] = Total[k] + q[k + 1] /\ q[k + 1] \in Nat /\ Total[k] \in Nat
      BY <1>1, <2>1, <2>3
    <3> QED BY <3>1
  <2> HIDE DEF P
  <2>4. \A k \in Nat : k \in P
    BY <2>2, <2>3, NatInductionOnSet
  <2> QED BY <1>1, <2>4 DEF P
<1> QED BY <1>5, <1>6, <1>7

(* When all trades of a call are stored, under the last numbers given out, *)
(* the table accounts for at least the shares the call traded.             *)
AllStored(trades, id, base) ==
  /\ tradeIdCounter = base + Len(trades)
  /\ \A i \in 1 .. Len(trades) :
       /\ base + i \in DOMAIN tradeRows
       /\ tradeRows[base + i] = trades[i]
       /\ PartOf(id, trades[i])

LEMMA TradesAreRecorded ==
  ASSUME RowsTyped, NEW trades \in Seq(Trade), NEW id, NEW base \in Nat,
         AllStored(trades, id, base)
  PROVE  SharesTraded(trades) <= RecordedFills(id)
<1> DEFINE n == Len(trades)
           c == tradeIdCounter
           q == QuantityOf(trades)
           r == RecordedBy(id)
<1>1. n \in Nat /\ c = base + n /\ c \in Nat
  BY DEF AllStored
<1>2. \A i \in 1 .. n : q[i] = trades[i].quantity /\ q[i] \in Nat /\ r[base + i] = q[i]
  <2>1. ASSUME NEW i \in 1 .. n
        PROVE  q[i] = trades[i].quantity /\ q[i] \in Nat /\ r[base + i] = q[i]
    <3>1. trades[i] \in Trade
      OBVIOUS
    <3>2. q[i] = trades[i].quantity /\ q[i] \in Nat
      BY <3>1 DEF QuantityOf, Trade
    <3>3. RecordedIn(base + i, id) = trades[i].quantity
      BY DEF AllStored, RecordedIn, PartOf
    <3>4. base + i \in 1 .. c
      BY <1>1
    <3> QED BY <3>2, <3>3, <3>4 DEF RecordedBy
  <2> QED BY <2>1
<1>3. PICK g : IsTotal(g, n, q) /\ SharesTraded(trades) = g[n]
  BY SharesTradedIsTotal
<1>4. PICK f : IsTotal(f, c, r) /\ RecordedFills(id) = f[c] /\ \A k \in 0 .. c : f[k] \in Nat
  BY <1>1, RecordedFillsIsTotal
<1> HIDE DEF n, c, q, r
<1> DEFINE P == {i \in Nat : i <= n => g[i] \in Int /\ g[i] <= f[base + i]}
<1>5. 0 \in P
  <2>1. g[0] = 0
    BY <1>1, <1>3 DEF IsTotal
  <2>2. f[base + 0] \in Nat
    BY <1>1, <1>4
  <2> QED BY <2>1, <2>2
<1>6. ASSUME NEW i \in Nat, i \in P PROVE i + 1 \in P
  <2> SUFFICES ASSUME i + 1 <= n PROVE g[i + 1] \in Int /\ g[i + 1] <= f[base + (i + 1)]
    OBVIOUS
  <2>1. i + 1 \in 1 .. n /\ i + 1 \in 0 .. n /\ (i + 1) - 1 = i /\ i + 1 # 0
    BY <1>1
  <2>2. g[i + 1] = g[i] + q[i + 1]
    BY <1>3, <2>1 DEF IsTotal
  <2>3. base + (i + 1) \in 0 .. c /\ base + (i + 1) # 0 /\ (base + (i + 1)) - 1 = base + i
    BY <1>1, <2>1
  <2>4. f[base + (i + 1)] = f[base + i] + r[base + (i + 1)]
    BY <1>4, <2>3 DEF IsTotal
  <2>5. f[base + i] \in Nat
    BY <1>1, <1>4
  <2>6. q[i + 1] \in Nat /\ r[base + (i + 1)] = q[i + 1]
    BY <1>2, <2>1
  <2>7. g[i] \in Int /\ g[i] <= f[base + i]
    BY <1>1, <1>6
  <2> QED BY <2>2, <2>4, <2>5, <2>6, <2>7
<1>7. n \in P
  <2> HIDE DEF P
  <2> QED BY <1>1, <1>5, <1>6, NatInductionOnSet
<1> QED BY <1>1, <1>3, <1>4, <1>7

RecordedIfStored ==
  \A trades \in Seq(Trade), base \in Nat, id \in OrderIds :
    AllStored(trades, id, base) => SharesTraded(trades) <= RecordedFills(id)

LEMMA TypedRowsRecord == RowsTyped => RecordedIfStored
  BY TradesAreRecorded DEF RecordedIfStored

(* The row of an order is stored when its trades are: when saves do not    *)
(* fail, a process killed at any step leaves no row that claims fills      *)
(* without stored trades to show for them.                                 *)
THEOREM RowsAlwaysFollowTheirTrades ==
  ASSUME ~StorageMayFail PROVE ApartSpec => RowsFollowTheirTrades
<1> DEFINE Follows == \A id \in DOMAIN orderRows' :
       \/ id \in DOMAIN orderRows /\ orderRows'[id] = orderRows[id]
       \/ (orderRows[id].filledQuantity <= RecordedFills(id))'
<1>1. ASSUME ApartInv, ApartInv', SaveOrder PROVE Follows
  <2> DEFINE o == incoming[Handler]
             trades == executed[Handler]
  <2>1. /\ trades \in Seq(Trade) /\ Base \in Nat /\ o.orderId \in OrderIds
        /\ pc[Handler] = "done" /\ settled = Len(trades)
        /\ tradeRows' = tradeRows /\ tradeIdCounter' = tradeIdCounter
        /\ tradeIdCounter \in Nat
    <3>1. EngineInv
      BY <1>1 DEF ApartInv, ServerInv, ReportInv
    <3> QED BY <1>1, <3>1, TwoThreads, CallFacts, OrderFields
          DEF EngineInv, TypeOK, ApartInv, NumbersOK, SaveOrder, Return, bookVars
  <2>2. SharesTraded(trades) = o.filledQuantity
    <3>1. SharesTraded(trades) + matchQty[Handler] = o.filledQuantity /\ matchQty[Handler] = 0
      BY <1>1, <2>1, TwoThreads DEF ApartInv, ServerInv, ReportInv, AddsUp
    <3>2. SharesTraded(trades) \in Int
      BY <2>1, SharesTradedIsTotal
    <3> QED BY <3>1, <3>2
  <2>3. ASSUME NEW tr, tr = trades, NEW id, id = o.orderId, NEW base, base = Base
        PROVE  SharesTraded(tr) <= RecordedFills(id)'
    <3>1. AllStored(tr, id, base)'
      <4>1. \A i \in 1 .. Len(tr) : /\ base + i \in DOMAIN tradeRows
                                    /\ tradeRows[base + i] = tr[i]
                                    /\ PartOf(id, tr[i])
        BY <1>1, <2>1, <2>3 DEF ApartInv, StoredOK, RowsComplete, NumbersOK
      <4>2. tradeIdCounter = base + Len(tr)
        BY <2>1, <2>3 DEF Base
      <4> QED BY <2>1, <4>1, <4>2 DEF AllStored, PartOf
    <3>2. RowsTyped'
      BY <1>1 DEF ApartInv, StoredOK
    <3>3. RowsTyped' => RecordedIfStored'
      BY TypedRowsRecord, PTL
    <3> QED BY <2>1, <2>3, <3>1, <3>2, <3>3 DEF RecordedIfStored
  <2>4. orderRows'[o.orderId].filledQuantity = o.filledQuantity \/ orderRows' = orderRows
    <3>1. PICK row \in OrderRowsOf(o) : orderRows' \in Saved(orderRows, o.orderId, row)
      BY <1>1 DEF SaveOrder
    <3>2. row.filledQuantity = o.filledQuantity
      BY <3>1 DEF OrderRowsOf
    <3> QED BY <3>1, <3>2 DEF Saved, Stored
  <2>5. \A id \in DOMAIN orderRows' : id # o.orderId =>
          id \in DOMAIN orderRows /\ orderRows'[id] = orderRows[id]
    BY <1>1 DEF SaveOrder, Saved, Stored
  <2>6. ASSUME NEW id, id = o.orderId
        PROVE  orderRows' = orderRows \/ (orderRows[id].filledQuantity <= RecordedFills(id))'
    BY <2>2, <2>3, <2>4, <2>6
  <2>7. ASSUME NEW id \in DOMAIN orderRows'
        PROVE  \/ id \in DOMAIN orderRows /\ orderRows'[id] = orderRows[id]
               \/ (orderRows[id].filledQuantity <= RecordedFills(id))'
    BY <2>5, <2>6
  <2> QED BY <2>7
<1>2. ASSUME ApartInv, ApartInv', [ApartNext]_serverVars PROVE [Follows]_serverVars
  <2>1. CASE UNCHANGED serverVars
    BY <2>1
  <2>2. CASE SaveOrder
    BY <1>1, <1>2, <2>2
  <2>3. CASE Restart \/ TickerStep \/ (HandlerStep /\ ~SaveOrder)
    <3>1. orderRows' = orderRows
      BY <2>3 DEF HandlerStep, Post, MarkPortfolios, GetStock, Refuse, Submit, Match, ApplyTrade,
                  SaveTrade, Fail, TickerStep, StartTick, MoveStock, Seed, MatchSeed, DropResult,
                  EndTick, handlerVars, Restart
    <3> QED BY <3>1
  <2> QED BY <1>2, <2>1, <2>2, <2>3 DEF ApartNext, ServerStep
<1> QED BY <1>2, ApartInvariant, PTL DEF ApartSpec, RowsFollowTheirTrades

-----------------------------------------------------------------------------
(* The trades table and the portfolios.                                    *)

(* What the stored trades that the handler is through with make of the     *)
(* portfolios main() opens.                                                *)
Replayed == SettledUpTo(Base + settled, OpenedPortfolios, tradeRows)

(* Between applyTrade and saveTrade the portfolios are one trade ahead.    *)
Explained ==
  SamePositions(userPortfolios,
    IF phase = "save" THEN Settled(Replayed, executed[Handler][settled + 1])
    ELSE Replayed)

LedgerInv == ApartInv /\ Explained

LEMMA SamePositionsItself ==
  ASSUME NEW a \in Portfolios PROVE SamePositions(a, a)
<1>1. ASSUME NEW u \in Users PROVE SamePosition(a[u], a[u])
  <2>1. a[u] = NoPortfolio \/ a[u] # NoPortfolio
    OBVIOUS
  <2> QED BY <2>1 DEF SamePosition
<1> QED BY <1>1 DEF SamePositions

LEMMA SamePositionsJoin ==
  ASSUME NEW a, NEW b, NEW c, SamePositions(a, b), SamePositions(b, c)
  PROVE  SamePositions(a, c)
<1>1. ASSUME NEW u \in Users PROVE SamePosition(a[u], c[u])
  <2>1. SamePosition(a[u], b[u]) /\ SamePosition(b[u], c[u])
    BY DEF SamePositions
  <2> QED BY <2>1 DEF SamePosition
<1> QED BY <1>1 DEF SamePositions

LEMMA ReplayedTyped == ASSUME ApartInv PROVE Base + settled \in Nat /\ Replayed \in Portfolios
<1>1. Base + settled \in Nat
  BY DEF ApartInv, ServerInv, HandlerAt, NumbersOK
<1>2. \A k \in 1 .. Base + settled : k \in DOMAIN tradeRows => IsSettleable(tradeRows[k])
  BY TradesAreSettleable DEF ApartInv, StoredOK, RowsTyped
<1> HIDE DEF Base
<1> QED BY <1>1, <1>2, OpenedPortfoliosTyped, SettledUpToPortfolios DEF Replayed

LEMMA InitLedgerInv == ServerInit => LedgerInv
<1> SUFFICES ASSUME ServerInit PROVE LedgerInv
  OBVIOUS
<1>1. ApartInv
  BY InitApartInv
<1>2. Base + settled = 0 /\ phase = "ready" /\ userPortfolios = OpenedPortfolios
  <2>1. tradeIdCounter = 0 /\ executed[Handler] = <<>> /\ settled = 0
    BY TwoThreads DEF ServerInit, EngineInit
  <2>2. Len(executed[Handler]) = 0
    BY <2>1
  <2>3. (0 - 0) + 0 = 0
    OBVIOUS
  <2> QED BY <2>1, <2>2, <2>3 DEF Base, ServerInit
<1>3. Replayed = OpenedPortfolios
  BY <1>2, SettledStep DEF Replayed
<1> QED BY <1>1, <1>2, <1>3, OpenedPortfoliosTyped, SamePositionsItself DEF LedgerInv, Explained

(* Steps that neither settle nor save nor end a call.                      *)
LEMMA LedgerUndisturbed ==
  ASSUME LedgerInv, MaxRestarts = 0, UNCHANGED <<userPortfolios, tradeRows, settled>>,
         phase # "save", phase' # "save", Base' \in Int, Base <= Base',
         settled # 0 => Base' = Base
  PROVE  Explained'
<1>1. Base + settled \in Nat /\ Base' + settled' \in Nat /\ Base + settled <= Base' + settled'
  <2>1. settled \in Nat /\ Base \in Nat /\ settled' = settled
    BY DEF LedgerInv, ApartInv, ServerInv, HandlerAt, NumbersOK
  <2>2. ASSUME NEW b \in Nat, NEW c \in Int, b <= c, NEW n \in Nat
        PROVE  b + n \in Nat /\ c + n \in Nat /\ b + n <= c + n
    BY <2>2
  <2> QED BY <2>1, <2>2
<1>2. \A k \in (Base + settled) + 1 .. Base' + settled' : k \notin DOMAIN tradeRows
  <2>1. \A k \in DOMAIN tradeRows : k \in Int /\ k <= Base + settled
    BY DEF LedgerInv, ApartInv, StoredOK, RowsTyped, RowsInOrder
  <2> QED BY <1>1, <2>1
<1>3. ASSUME NEW m, m = Base + settled, NEW n, n = Base' + settled'
      PROVE  SettledUpTo(n, OpenedPortfolios, tradeRows) = SettledUpTo(m, OpenedPortfolios, tradeRows)
  BY <1>1, <1>2, <1>3, SettledPastLast
<1>4. Replayed' = Replayed
  <2>1. Replayed' = SettledUpTo(Base' + settled', OpenedPortfolios, tradeRows)
    BY DEF Replayed, OpenedPortfolios, InitialPortfolios, OpeningTrades
  <2> QED BY <1>3, <2>1 DEF Replayed
<1>5. SamePositions(userPortfolios, Replayed)
  BY DEF LedgerInv, Explained
<1> QED BY <1>4, <1>5 DEF Explained, SamePositions

LEMMA LedgerSame ==
  ASSUME LedgerInv, UNCHANGED <<vars, handlerVars>>
  PROVE  Explained'
  BY DEF LedgerInv, Explained, Replayed, Base, SamePositions, OpenedPortfolios,
         InitialPortfolios, OpeningTrades, vars, bookVars, localVars, handlerVars

LEMMA MarkingKeepsLedger ==
  ASSUME LedgerInv, MarkPortfolios PROVE Explained'
<1>1. /\ userPortfolios \in Portfolios /\ Replayed \in Portfolios
      /\ stockPrice \in [Symbols -> Prices]
  BY ReplayedTyped DEF LedgerInv, ApartInv, ServerInv, TablesOK, TickerAt
<1>2. UNCHANGED <<vars, tradeRows, phase, settled>> /\ phase = "ready"
  BY DEF MarkPortfolios
<1>3. SamePositions(userPortfolios', userPortfolios)
  BY <1>1, MarkedPortfolios DEF MarkPortfolios
<1>4. SamePositions(userPortfolios, Replayed)
  BY <1>2 DEF LedgerInv, Explained
<1>5. Replayed' = Replayed
  BY <1>2 DEF Replayed, Base, OpenedPortfolios, InitialPortfolios, OpeningTrades, vars, bookVars,
              localVars
<1>6. SamePositions(userPortfolios', Replayed)
  BY <1>3, <1>4, SamePositionsJoin
<1> QED BY <1>2, <1>5, <1>6 DEF Explained, SamePositions

LEMMA ApplyingKeepsLedger ==
  ASSUME LedgerInv, ApplyTrade PROVE Explained'
<1> DEFINE trade == executed[Handler][settled + 1]
<1>1. userPortfolios \in Portfolios /\ Replayed \in Portfolios
  BY ReplayedTyped DEF LedgerInv, ApartInv, ServerInv, TablesOK
<1>2. /\ UNCHANGED <<vars, tradeRows, settled>> /\ phase = "matching" /\ phase' = "save"
      /\ userPortfolios' = Settled(userPortfolios, trade)
  BY DEF ApplyTrade
<1>3. IsSettleable(trade)
  <2>1. executed[Handler] \in Seq(Trade)
    BY TwoThreads DEF LedgerInv, ApartInv, ServerInv, ReportInv, EngineInv, TypeOK
  <2>2. settled \in Nat /\ settled < Len(executed[Handler])
    BY DEF ApplyTrade, LedgerInv, ApartInv, ServerInv, HandlerAt
  <2>3. trade \in Trade
    BY <2>1, <2>2
  <2> QED BY <2>3, TradesAreSettleable
<1>4. SamePositions(userPortfolios, Replayed)
  BY <1>2 DEF LedgerInv, Explained
<1>5. Replayed' = Replayed /\ executed' = executed /\ settled' = settled
  BY <1>2 DEF Replayed, Base, OpenedPortfolios, InitialPortfolios, OpeningTrades, vars, bookVars,
              localVars
<1>6. SamePositions(userPortfolios', Settled(Replayed, trade))
  <2> HIDE DEF trade
  <2> QED BY <1>1, <1>2, <1>3, <1>4, SettledAlike
<1> QED BY <1>2, <1>5, <1>6 DEF Explained, SamePositions

LEMMA SavingKeepsLedger ==
  ASSUME LedgerInv, SaveTrade, ~StorageMayFail PROVE Explained'
<1> DEFINE trade == executed[Handler][settled + 1]
           last == Base + settled
           opened == OpenedPortfolios
<1>1. /\ last \in Nat /\ settled \in Nat /\ Base \in Nat
      /\ settled < Len(executed[Handler]) /\ executed[Handler] \in Seq(Trade)
  BY TwoThreads DEF LedgerInv, ApartInv, ServerInv, HandlerAt, NumbersOK, SaveTrade, ReportInv,
                    EngineInv, TypeOK
<1>2. trade.tradeId = last + 1
  <2>1. settled + 1 \in DOMAIN executed[Handler]
    BY <1>1
  <2>2. trade.tradeId = Base + (settled + 1)
    BY <2>1 DEF LedgerInv, ApartInv, NumbersOK
  <2> QED BY <1>1, <2>2
<1>3. /\ tradeRows' = Stored(tradeRows, last + 1, trade)
      /\ settled' = settled + 1 /\ phase = "save" /\ phase' = "matching"
      /\ userPortfolios' = userPortfolios /\ UNCHANGED vars
  <2>1. tradeRows' \in Saved(tradeRows, last + 1, trade)
    BY <1>2 DEF SaveTrade
  <2>2. tradeRows' = Stored(tradeRows, last + 1, trade)
    BY <2>1 DEF Saved
  <2> QED BY <2>2 DEF SaveTrade
<1>4. Base' + settled' = last + 1
  <2>1. Base' = Base
    BY <1>3 DEF Base, vars, bookVars, localVars
  <2> QED BY <1>1, <1>3, <2>1
<1>5. ASSUME NEW rows, rows = tradeRows', NEW n, n = last
      PROVE  SettledUpTo(n + 1, opened, rows) =
               Settled(SettledUpTo(n, opened, tradeRows), trade)
  <2>1. n + 1 \in DOMAIN rows /\ rows[n + 1] = trade
    BY <1>3, <1>5 DEF Stored
  <2>2. \A k \in 1 .. n : /\ k \in DOMAIN tradeRows <=> k \in DOMAIN rows
                          /\ k \in DOMAIN tradeRows => tradeRows[k] = rows[k]
    <3>1. \A k \in 1 .. n : k # n + 1
      BY <1>1, <1>5
    <3> QED BY <1>3, <1>5, <3>1 DEF Stored
  <2>3. SettledUpTo(n, opened, tradeRows) = SettledUpTo(n, opened, rows)
    <3> HIDE DEF last, opened
    <3> QED BY <1>1, <1>5, <2>2, SettledAgree
  <2> HIDE DEF trade, last, opened
  <2> QED BY <1>1, <1>5, <2>1, <2>3, SettledStep
<1>6. Replayed' = SettledUpTo(last + 1, opened, tradeRows')
  <2>1. Replayed' = SettledUpTo(Base' + settled', opened, tradeRows')
    BY DEF Replayed, OpenedPortfolios, InitialPortfolios, OpeningTrades
  <2> QED BY <1>4, <2>1
<1>7. Replayed' = Settled(Replayed, trade)
  <2> HIDE DEF last, opened, trade
  <2> QED BY <1>5, <1>6 DEF Replayed, last, opened
<1>8. SamePositions(userPortfolios, Settled(Replayed, trade))
  BY <1>3 DEF LedgerInv, Explained
<1> HIDE DEF trade, last, opened
<1> QED BY <1>3, <1>7, <1>8 DEF Explained, SamePositions

LEMMA EndingKeepsLedger ==
  ASSUME LedgerInv, SaveOrder PROVE Explained'
<1>1. Base' = Base + settled /\ Base' \in Nat /\ settled' = 0 /\ UNCHANGED <<tradeRows, userPortfolios>>
  BY SaveOrderMovesBase DEF LedgerInv
<1>2. phase = "matching" /\ phase' = "ready"
  BY DEF SaveOrder
<1>3. Base' + settled' = Base + settled
  BY <1>1
<1>4. Replayed' = Replayed
  <2>1. Replayed' = SettledUpTo(Base' + settled', OpenedPortfolios, tradeRows')
    BY DEF Replayed, OpenedPortfolios, InitialPortfolios, OpeningTrades
  <2> QED BY <1>1, <1>3, <2>1 DEF Replayed
<1>5. SamePositions(userPortfolios, Replayed)
  BY <1>2 DEF LedgerInv, Explained
<1> QED BY <1>1, <1>2, <1>4, <1>5 DEF Explained, SamePositions

LEMMA LedgerNextKeepsInv ==
  ASSUME MaxRestarts = 0, ~StorageMayFail, LedgerInv, [ApartNext]_serverVars
  PROVE  LedgerInv'
<1>1. ApartInv /\ ApartInv'
  BY ApartNextKeepsInv DEF LedgerInv
<1>2. ServerInv /\ ServerInv' /\ EngineInv /\ EngineInv' /\ NumbersOK /\ phase \in PhaseOf(posted)
  BY <1>1 DEF ApartInv, ServerInv, ReportInv, HandlerAt
<1>3. CASE UNCHANGED <<vars, handlerVars>>
  BY <1>1, <1>3, LedgerSame DEF LedgerInv
<1>4. CASE HandlerStep
  <2>1. CASE (\E now \in Timestamps : Submit(now)) \/ Match \/ Fail
    <3>1. /\ Base' \in Int /\ Base <= Base' /\ settled = 0 /\ pc[Handler] # "done"
          /\ UNCHANGED <<tradeRows, settled, userPortfolios>>
      BY <1>1, <1>2, <2>1, CallsSettleNothing
    <3>2. phase # "save" /\ phase' # "save"
      <4>1. phase # "save"
        BY <1>2, <3>1 DEF ServerInv, HandlerAt
      <4> QED BY <2>1, <4>1 DEF Submit, Match, Fail, handlerVars
    <3> QED BY <1>1, <3>1, <3>2, LedgerUndisturbed DEF LedgerInv
  <2>2. CASE (\E body \in PostBody : Post(body)) \/ GetStock \/ Refuse
    <3>1. /\ UNCHANGED <<vars, tradeRows, settled, userPortfolios>>
          /\ phase # "save" /\ phase' # "save"
      BY <2>2 DEF Post, GetStock, Refuse
    <3>2. Base' = Base /\ Base \in Nat
      BY <1>2, <3>1 DEF Base, vars, bookVars, localVars, NumbersOK
    <3> QED BY <1>1, <3>1, <3>2, LedgerUndisturbed DEF LedgerInv
  <2> QED BY <1>1, <1>4, <2>1, <2>2, MarkingKeepsLedger, ApplyingKeepsLedger, SavingKeepsLedger,
             EndingKeepsLedger DEF HandlerStep, LedgerInv
<1>5. CASE TickerStep /\ OneInside'
  <2>1. CASE UNCHANGED vars
    <3>1. UNCHANGED handlerVars
      BY <1>2, <1>5, TickerStepKeepsInv
    <3> QED BY <1>3, <2>1, <3>1
  <2>2. CASE CallStep(Ticker)
    <3>1. UNCHANGED handlerVars
      BY <1>2, <1>5, TickerStepKeepsInv
    <3>2. settled = 0 /\ phase # "save"
      BY <1>1, <1>5, <2>2, HandlerWaits
    <3>3. Base' \in Int /\ Base <= Base'
      BY <1>2, <2>2, BaseNeverFalls, TwoThreads
    <3> QED BY <1>1, <3>1, <3>2, <3>3, LedgerUndisturbed DEF LedgerInv, handlerVars
  <2> QED BY <1>2, <1>5, <2>1, <2>2, TickerStepsAreCalls
<1>6. ~Restart
  BY <1>1 DEF Restart, ApartInv, StoredOK
<1>7. CASE UNCHANGED serverVars
  BY <1>3, <1>7 DEF serverVars
<1> QED BY <1>4, <1>5, <1>6, <1>7 DEF ApartNext, ServerStep

(* The stored trades explain the portfolios: between requests the cash,    *)
(* shares, average prices and realized profit of every user are what the   *)
(* trades of the table, applied in order to the portfolios main() opens,   *)
(* make of them, whatever the ticker trades and does not store.            *)
THEOREM LedgerAlwaysExplainsPortfolios ==
  ASSUME MaxRestarts = 0, ~StorageMayFail
  PROVE  ApartSpec => []LedgerExplainsPortfolios
<1>1. LedgerInv => LedgerExplainsPortfolios
  <2> SUFFICES ASSUME LedgerInv, phase = "ready"
               PROVE  SamePositions(userPortfolios,
                        SettledUpTo(tradeIdCounter, OpenedPortfolios, tradeRows))
    BY DEF LedgerExplainsPortfolios, SamePositions
  <2>1. pc[Handler] = "idle" /\ settled = 0 /\ EngineInv
    BY DEF LedgerInv, ApartInv, ServerInv, ReportInv, HandlerAt
  <2>2. executed[Handler] = <<>> /\ tradeIdCounter \in Nat
    BY <2>1, TwoThreads DEF EngineInv, TypeOK, CallOK
  <2>3. Base + settled = tradeIdCounter
    <3>1. Len(executed[Handler]) = 0
      BY <2>2
    <3> QED BY <2>1, <2>2, <3>1 DEF Base
  <2> QED BY <2>3 DEF LedgerInv, Explained, Replayed
<1>2. LedgerInv /\ [ApartNext]_serverVars => LedgerInv'
  BY LedgerNextKeepsInv
<1> QED BY <1>1, <1>2, InitLedgerInv, PTL DEF ApartSpec
=============================================================================
