-------------------------- MODULE PortfolioManager --------------------------
(***************************************************************************)
(* trading/PortfolioManager.hpp: the portfolios of all users.  Each method *)
(* holds portfolioMutex from end to end, so it is one step.                *)
(***************************************************************************)
EXTENDS Portfolio

CONSTANT MaxTrades  \* bound: trades applied

ASSUME ManagerAssumption ==
  /\ Prices \subseteq Nat \ {0}
  /\ Quantities \subseteq Nat \ {0}
  /\ IsFiniteSet(Users) /\ IsFiniteSet(Symbols) /\ IsFiniteSet(Prices)
  /\ MaxTrades \in Nat

VARIABLES
  userPortfolios,  \* [user -> portfolio, or NoPortfolio]
  applied,         \* trades applied so far
  shorted          \* history: <<user, symbol>> whose quantity has been negative

portfolioVars == <<userPortfolios, applied, shorted>>

-----------------------------------------------------------------------------
(* The methods.                                                            *)

InitializeUser(user) ==
  /\ userPortfolios[user] = NoPortfolio
  /\ userPortfolios' = [userPortfolios EXCEPT ![user] = NewPortfolio]
  /\ UNCHANGED <<applied, shorted>>

ApplyTrade(trade) ==
  /\ applied < MaxTrades
  /\ applied' = applied + 1
  /\ userPortfolios' = Settled(userPortfolios, trade)
  /\ shorted' = shorted \cup
       {us \in {trade.buyerId, trade.sellerId} \X {trade.symbol} :
          userPortfolios'[us[1]].holdings[us[2]].quantity < 0}

UpdateMarketPrices(currentPrices) ==
  /\ userPortfolios' = [u \in Users |->
       IF userPortfolios[u] = NoPortfolio THEN NoPortfolio
       ELSE Marked(userPortfolios[u], currentPrices)]
  /\ UNCHANGED <<applied, shorted>>

PortfolioInit ==
  /\ userPortfolios = [u \in Users |-> NoPortfolio]
  /\ applied = 0
  /\ shorted = {}

TradeTicket == [buyerId : Users, sellerId : Users, symbol : Symbols,
                quantity : Quantities, price : Prices]

PortfolioNext ==
  \/ \E u \in Users : InitializeUser(u)
  \/ \E trade \in TradeTicket : ApplyTrade(trade)
  \/ \E currentPrices \in [Symbols -> Prices] : UpdateMarketPrices(currentPrices)

PortfolioSpec == PortfolioInit /\ [][PortfolioNext]_portfolioVars

-----------------------------------------------------------------------------
(* Properties.                                                             *)

Opened == {u \in Users : userPortfolios[u] # NoPortfolio}

IsLong(p) ==
  \A s \in Symbols : p.holdings[s].quantity >= 0

HasFiniteBooks(p) ==
  /\ IsFinite(p.realizedPnL)
  /\ \A s \in Symbols : IsFinite(p.holdings[s].averageBuyPrice)

(* The profit the portfolio page shows is accounted for: total profit is   *)
(* realized plus unrealized profit, at any market prices, for a portfolio  *)
(* that is not short.                                                      *)
ProfitIsAccountedFor ==
  \A u \in Opened :
    LET p == userPortfolios[u]
    IN  IsLong(p) /\ HasFiniteBooks(p) =>
          TotalPnL(p) = Plus(p.realizedPnL, TotalUnrealizedPnL(p))

(* A trade moves cash and shares between two portfolios and makes neither, *)
(* also when a user trades with himself or has no portfolio yet.           *)
CashAndSharesConserved ==
  LET Cash == [u \in Opened |-> userPortfolios[u].cashBalance]
      Shares(s) == [u \in Opened |-> userPortfolios[u].holdings[s].quantity]
  IN  /\ SumFunction(Cash) = Cardinality(Opened) * StartingBalance
      /\ \A s \in Symbols : SumFunction(Shares(s)) = 0

(* The average buy price of shares held, by a user who was never short of  *)
(* them, lies between the lowest and the highest price there is.           *)
AverageIsWithinPricesPaid ==
  \A u \in Opened, s \in Symbols :
    LET h == userPortfolios[u].holdings[s]
    IN  <<u, s>> \notin shorted /\ h.quantity > 0 =>
          /\ IsFinite(h.averageBuyPrice)
          /\ AtMost(Whole(Min(Prices)), h.averageBuyPrice)
          /\ AtMost(h.averageBuyPrice, Whole(Max(Prices)))
=============================================================================
