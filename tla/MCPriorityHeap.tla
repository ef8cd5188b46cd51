---------------------------- MODULE MCPriorityHeap ----------------------------
(***************************************************************************)
(* PriorityHeap holding bids ranked by BuyOrderComparator, as OrderBook    *)
(* has it; removeIf looks for an order id, as cancelOrder does.            *)
(***************************************************************************)
EXTENDS PriorityHeap, Orders, TLC

CONSTANTS Prices, Timestamps, OrderIds

MCValues == [side : {"BUY"}, price : Prices, timestamp : Timestamps, orderId : OrderIds]

MCPredicates == {{x \in Values : x.orderId = id} : id \in OrderIds}

(* Order ids are only compared for equality.                               *)
MCSymmetry == Permutations(OrderIds)
=============================================================================
