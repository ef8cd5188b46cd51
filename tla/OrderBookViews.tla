---------------------------- MODULE OrderBookViews ----------------------------
(***************************************************************************)
(* What trading/OrderBook.hpp shows of a book: getDepth, which the routes  *)
(* send to the order book page, and getAllOrders.  Both work on copies of  *)
(* the heaps while they hold bookMutex, so each is one value of a state.   *)
(***************************************************************************)
EXTENDS EngineHistory, SequencesExt

(* Mutant: a level counts the shares asked for, not those still to trade.  *)
LevelOfQuantities(heap, price) ==
  LET orders == {o \in Elements(heap) : o.price = price /\ RemainingQuantity(o) > 0}
  IN  [price         |-> price,
       totalQuantity |-> SumFunction([o \in orders |-> heap.items[o] * o.quantity]),
       orderCount    |-> SumFunction([o \in orders |-> heap.items[o]])]

Level(heap, price) ==
  LET orders == {o \in Elements(heap) : o.price = price /\ RemainingQuantity(o) > 0}
  IN  [price         |-> price,
       totalQuantity |-> SumFunction([o \in orders |-> heap.items[o] * RemainingQuantity(o)]),
       orderCount    |-> SumFunction([o \in orders |-> heap.items[o]])]

(* The order of bidMap's keys, std::greater, and of askMap's, std::less.   *)
Outward(side, p, q) == IF side = "BUY" THEN p > q ELSE p < q

Ranked(prices, side) ==
  CHOOSE ranked \in SetToSeqs(prices) :
    \A i, j \in DOMAIN ranked : i < j => Outward(side, ranked[i], ranked[j])

(* The best levels of a side, one for each price with shares to trade.     *)
Levels(heap, side, maxLevels) ==
  LET prices == {o.price : o \in {p \in Elements(heap) : RemainingQuantity(p) > 0}}
  IN  [i \in 1 .. Min({Cardinality(prices), maxLevels}) |-> Level(heap, Ranked(prices, side)[i])]

TopPrice(heap) == IF IsEmpty(heap) THEN 0 ELSE heap.top.price

DefaultLevels == 10

GetDepth(symbol, maxLevels) ==
  LET bestBid == TopPrice(book[symbol]["BUY"])
      bestAsk == TopPrice(book[symbol]["SELL"])
  IN  [lastPrice |-> lastTradedPrice[symbol],
       bestBid   |-> bestBid,
       bestAsk   |-> bestAsk,
       spread    |-> IF bestBid > 0 /\ bestAsk > 0 THEN bestAsk - bestBid ELSE 0,
       bids      |-> Levels(book[symbol]["BUY"], "BUY", maxLevels),
       asks      |-> Levels(book[symbol]["SELL"], "SELL", maxLevels)]

GetAllOrders(symbol) == book[symbol]["BUY"].items (+) book[symbol]["SELL"].items

-----------------------------------------------------------------------------
(* Properties.                                                             *)

Resting(symbol, side) == {o \in BagToSet(GetAllOrders(symbol)) : o.side = side}

(* A side as it is shown: the best price is that of the first level,       *)
(* levels go outwards, their shares and orders are the ones that no trade  *)
(* has taken of the orders resting there, and an order that is not shown   *)
(* lies beyond as many levels as there may be.                             *)
Shown(levels, best, side, resting) ==
  /\ IF levels = <<>> THEN best = 0 /\ resting = {} ELSE best = levels[1].price
  /\ \A i, j \in DOMAIN levels : i < j => Outward(side, levels[i].price, levels[j].price)
  /\ \A i \in DOMAIN levels :
       LET at == {o \in resting : o.price = levels[i].price}
       IN  /\ levels[i].orderCount = Cardinality(at)
           /\ levels[i].totalQuantity = SumFunction([o \in at |-> untraded[o.orderId]])
  /\ \A o \in resting :
       \/ \E i \in DOMAIN levels : levels[i].price = o.price
       \/ /\ Len(levels) = DefaultLevels
          /\ Outward(side, levels[DefaultLevels].price, o.price)

(* When no call is at work on a book, and none has met another there, its  *)
(* depth tells the truth about the orders getAllOrders lists, and the      *)
(* spread is positive when there are orders on both sides.  A depth of one *)
(* level shows the first of them.                                          *)
DepthShowsTheBook ==
  \A s \in Symbols \ met :
    Callers(s) = {} =>
      LET depth == GetDepth(s, DefaultLevels)
      IN  /\ Shown(depth.bids, depth.bestBid, "BUY", Resting(s, "BUY"))
          /\ Shown(depth.asks, depth.bestAsk, "SELL", Resting(s, "SELL"))
          /\ depth.bids # <<>> /\ depth.asks # <<>> => depth.spread > 0
          /\ GetDepth(s, 1).bids = SubSeq(depth.bids, 1, Min({1, Len(depth.bids)}))
=============================================================================
