------------------------------ MODULE Portfolio ------------------------------
(***************************************************************************)
(* models/Portfolio.hpp and what the methods of trading/PortfolioManager   *)
(* make of one: the data of the portfolios, without their state.           *)
(*                                                                         *)
(* Cash is an integer, since quantities and prices are; the average buy    *)
(* price and the realized profit are exact fractions.  applyTrade tests    *)
(* nothing: a portfolio may be overdrawn or hold a negative quantity.      *)
(***************************************************************************)
EXTENDS Exchange, Rationals, FiniteSets

CONSTANTS
  StartingBalance,  \* 1000000.0 in the code
  NoPortfolio       \* what is found for a user who has none

Holding == [quantity : Int, averageBuyPrice : Int \X Int, currentPrice : Int]

APortfolio == [cashBalance : Int, holdings : [Symbols -> Holding], realizedPnL : Int \X Int]

ASSUME PortfolioAssumption ==
  /\ StartingBalance \in Nat
  /\ NoPortfolio \notin APortfolio

(* operator[] of holdings makes an absent holding of zeros.                *)
NoHolding == [quantity |-> 0, averageBuyPrice |-> Whole(0), currentPrice |-> 0]

NewPortfolio == [cashBalance |-> StartingBalance,
                 holdings    |-> [s \in Symbols |-> NoHolding],
                 realizedPnL |-> Whole(0)]

(* operator[] of userPortfolios makes the portfolio of an unknown user.    *)
PortfolioOf(portfolios, user) ==
  IF portfolios[user] = NoPortfolio THEN NewPortfolio ELSE portfolios[user]

-----------------------------------------------------------------------------
(* The two halves of applyTrade.                                           *)

(* Mutant: the cost is taken after the new quantity.                       *)
BuySharesQuantityFirst(h, quantity, price) ==
  LET total == h.quantity + quantity
      currentTotalCost == Times(total, h.averageBuyPrice)
  IN  [quantity |-> total,
       averageBuyPrice |-> Over(Plus(currentTotalCost, Whole(quantity * price)), total),
       currentPrice |-> price]

BuyShares(h, quantity, price) ==
  LET currentTotalCost == Times(h.quantity, h.averageBuyPrice)
      total == h.quantity + quantity
  IN  [quantity |-> total,
       averageBuyPrice |-> Over(Plus(currentTotalCost, Whole(quantity * price)), total),
       currentPrice |-> price]

(* Mutant: a sale changes the average price.                               *)
SellSharesAtCost(h, quantity, price) ==
  LET total == h.quantity - quantity
      cost == Minus(Times(h.quantity, h.averageBuyPrice), Whole(quantity * price))
  IN  [quantity |-> total, averageBuyPrice |-> Over(cost, total), currentPrice |-> price]

SellShares(h, quantity, price) ==
  [h EXCEPT !.quantity = @ - quantity, !.currentPrice = price]

Bought(p, trade) ==
  [p EXCEPT !.cashBalance = @ - trade.quantity * trade.price,
            !.holdings[trade.symbol] = BuyShares(@, trade.quantity, trade.price)]

Sold(p, trade) ==
  LET tradeValue == trade.quantity * trade.price
      costOfSoldShares ==
        Times(trade.quantity, p.holdings[trade.symbol].averageBuyPrice)
  IN  [p EXCEPT !.cashBalance = @ + tradeValue,
                !.realizedPnL = Plus(@, Minus(Whole(tradeValue), costOfSoldShares)),
                !.holdings[trade.symbol] = SellShares(@, trade.quantity, trade.price)]

(* Mutant: both portfolios are copied before either is set.                *)
SettledFromStaleCopies(portfolios, trade) ==
  [portfolios EXCEPT
     ![trade.buyerId]  = Bought(PortfolioOf(portfolios, trade.buyerId), trade),
     ![trade.sellerId] = Sold(PortfolioOf(portfolios, trade.sellerId), trade)]

(* The buyer first, then the seller, who may be the same user.             *)
Settled(portfolios, trade) ==
  LET paid == [portfolios EXCEPT ![trade.buyerId] =
                 Bought(PortfolioOf(portfolios, trade.buyerId), trade)]
  IN  [paid EXCEPT ![trade.sellerId] = Sold(PortfolioOf(paid, trade.sellerId), trade)]

(* Holdings that exist take the price; a holding that was never traded is  *)
(* absent in the code and stays as it is here.                             *)
Marked(p, currentPrices) ==
  [p EXCEPT !.holdings = [s \in Symbols |->
     IF @[s].currentPrice = 0 THEN @[s]
     ELSE [@[s] EXCEPT !.currentPrice = currentPrices[s]]]]

-----------------------------------------------------------------------------
(* What a portfolio reports (models/Portfolio.hpp).                        *)

MarketValue(h)   == Whole(h.quantity * h.currentPrice)
InvestedValue(h) == Times(h.quantity, h.averageBuyPrice)

(* Only holdings of a positive quantity count.                             *)
Counted(p) == {s \in Symbols : p.holdings[s].quantity > 0}

TotalMarketValue(p) ==
  FoldSet(LAMBDA s, sum : Plus(MarketValue(p.holdings[s]), sum), Whole(0), Counted(p))

TotalInvestedValue(p) ==
  FoldSet(LAMBDA s, sum : Plus(InvestedValue(p.holdings[s]), sum), Whole(0), Counted(p))

TotalPortfolioValue(p) == Plus(Whole(p.cashBalance), TotalMarketValue(p))
TotalUnrealizedPnL(p)  == Minus(TotalMarketValue(p), TotalInvestedValue(p))
TotalPnL(p) == Minus(TotalPortfolioValue(p), Whole(StartingBalance))
=============================================================================
