--------------------------- MODULE MCTradingServer ---------------------------
(***************************************************************************)
(* TradingServer started with customers who own shares, and with a last    *)
(* step: the bound on orders is used up and nobody is at work, or the      *)
(* process has ended.                                                      *)
(***************************************************************************)
EXTENDS TradingServer

CONSTANTS Owner, Issuer  \* the buyer and the seller of the start-up trades

FirstShares(customer, quantity) ==
  [tradeId |-> 0, buyOrderId |-> 0, sellOrderId |-> 0, symbol |-> CHOOSE s \in Symbols : TRUE,
   quantity |-> quantity, price |-> OpeningPrice, buyerId |-> customer, sellerId |-> Issuer]

MCStartupTrades == <<FirstShares(Owner, 2)>>

\* A second customer, where there is one, starts with a share as well.
MCUnsavedTrades ==
  IF Customers = {Owner} THEN <<>>
  ELSE <<FirstShares(CHOOSE u \in Customers : u # Owner, 1)>>

AtRest ==
  /\ Terminated \/ (phase = "ready" /\ ~ticking)
  /\ UNCHANGED serverVars

MCNext == ServerNext \/ AtRest
MCSpec == ServerInit /\ [][MCNext]_serverVars
MCApartSpec == ServerInit /\ [][ApartNext \/ AtRest]_serverVars
MCFairSpec == MCSpec /\ ServerFairness

\* Only a process that the Owner alone has used is killed, and so is the next one used.
OwnerAlone ==
  /\ \A o \in {posted, incoming[Handler]} : o # NoOrder => o.userId = Owner
  /\ \A u \in Customers \ {Owner} : SamePosition(userPortfolios[u], OpenedPortfolios[u])

OwnerAloneIsKilled == restarts' > 0 => OwnerAlone /\ OwnerAlone'

\* Customers post market orders only, and no stock's price moves.
MCMarketOrdersNext ==
  /\ MCNext
  /\ posted' # NoOrder => posted'.type = "MARKET"
  /\ stockPrice' = stockPrice
MCMarketOrdersSpec == ServerInit /\ [][MCMarketOrdersNext]_serverVars
=============================================================================
