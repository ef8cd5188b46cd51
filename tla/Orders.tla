------------------------------- MODULE Orders -------------------------------
(***************************************************************************)
(* The order record of models/Order.hpp, the two comparators that rank     *)
(* resting orders, and the arithmetic of a fill.                           *)
(*                                                                         *)
(* Prices are doubles in the code; only their order and their sums matter  *)
(* here, so they are natural numbers (ticks of one rupee cent).  Strings   *)
(* that name something (order id, user, symbol) are numbers or model       *)
(* values.                                                                 *)
(***************************************************************************)
EXTENDS Integers

OrderTypes    == {"MARKET", "LIMIT"}
OrderSides    == {"BUY", "SELL"}
OrderStatuses == {"PENDING", "PARTIALLY_FILLED", "FILLED", "CANCELLED", "REJECTED"}

Opposite(side) == IF side = "BUY" THEN "SELL" ELSE "BUY"

RemainingQuantity(o) == o.quantity - o.filledQuantity

IsFilled(o) == o.filledQuantity >= o.quantity

(* Mutant: the timestamps are compared the wrong way round.                *)
LatestBidFirst(a, b) ==
  \/ a.price < b.price
  \/ a.price = b.price /\ a.timestamp < b.timestamp

(* "a ranks below b": the highest bid first, then the earliest timestamp.  *)
BuyOrderComparator(a, b) ==
  \/ a.price < b.price
  \/ a.price = b.price /\ a.timestamp > b.timestamp

(* "a ranks below b": the lowest ask first, then the earliest timestamp.   *)
SellOrderComparator(a, b) ==
  \/ a.price > b.price
  \/ a.price = b.price /\ a.timestamp > b.timestamp

(* The orders of one heap are all of one side, whose comparator it has.     *)
OrderRanksBelow(a, b) ==
  \/ a.side = "BUY"  /\ BuyOrderComparator(a, b)
  \/ a.side = "SELL" /\ SellOrderComparator(a, b)

(* The status an order is given by the fill that takes it to n shares.     *)
StatusAt(o, n) == IF n >= o.quantity THEN "FILLED" ELSE "PARTIALLY_FILLED"

(* What a match of q shares does to either side's copy of its order.       *)
Fill(o, q) == [o EXCEPT !.filledQuantity = @ + q,
                        !.status = StatusAt(o, o.filledQuantity + q)]
=============================================================================
