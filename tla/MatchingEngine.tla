--------------------------- MODULE MatchingEngine ---------------------------
(***************************************************************************)
(* trading/MatchingEngine.hpp and the part of trading/OrderBook.hpp it     *)
(* calls: processOrder and cancelOrder, run by several threads.            *)
(*                                                                         *)
(* OrderBook guards every one of its methods by bookMutex, so a method is  *)
(* one atomic step here.  processOrder itself holds no lock: between its   *)
(* "is there an order", "copy the best order" and "pop the best order"     *)
(* calls another thread may use the same book.  An action of this module   *)
(* is therefore one access to shared state together with the thread-local  *)
(* work that follows it.                                                   *)
(*                                                                         *)
(* A heap is a PriorityQueue: the bag of the order copies it holds and the *)
(* copy on top.  A bag, because a copy popped by one thread may be pushed  *)
(* back by two.                                                            *)
(***************************************************************************)
EXTENDS Exchange, Orders, Bags, Sequences

CONSTANTS
  Threads,     \* threads that may be inside the engine
  Timestamps,
  OpeningPrice,  \* lastTradedPrice of a new book
  MaxOrders,     \* bound: orders ever submitted
  NoOrder        \* content of an order variable that holds nothing

ASSUME EngineAssumption ==
  /\ Prices \subseteq Nat \ {0}
  /\ Quantities \subseteq Nat \ {0}
  /\ Timestamps \subseteq Nat \ {0}
  /\ OpeningPrice \in Prices
  /\ MaxOrders \in Nat

VARIABLES
  book,            \* [symbol -> [side -> queue of orders]]: buyHeap and sellHeap;
                   \* every listed symbol has its book from initializeStocks on
  lastTradedPrice, \* [symbol -> price]
  tradeIdCounter,
  orderCount,      \* orders submitted; ids are given in order of arrival
  pc,              \* [thread -> where it is inside processOrder]
  incoming,        \* [thread -> its local copy of the order it processes]
  maker,           \* [thread -> its local copy bestSell or bestBuy]
  matchQty,        \* [thread -> its local matchQty]
  tradeId,         \* [thread -> the value it loaded to increment the counter]
  executed,        \* [thread -> executedTrades of the result it builds]
  untraded         \* history: [order -> shares of it no trade has taken yet]

bookVars  == <<book, lastTradedPrice, tradeIdCounter>>
localVars == <<incoming, maker, matchQty, tradeId, executed>>
vars == <<bookVars, orderCount, pc, localVars, untraded>>

OrderIds == 1 .. MaxOrders

Order == [orderId : OrderIds, userId : Users, symbol : Symbols,
          type : OrderTypes, side : OrderSides, quantity : Quantities,
          filledQuantity : Nat, price : Prices, status : OrderStatuses,
          timestamp : Timestamps]

Trade == [tradeId : Nat, buyOrderId : OrderIds, sellOrderId : OrderIds,
          symbol : Symbols, quantity : Nat, price : Prices,
          buyerId : Users, sellerId : Users]

(* What a caller may hand to processOrder: timestamp 0 asks the engine to  *)
(* stamp the order itself.                                                 *)
OrderRequest == [userId : Users, symbol : Symbols, type : OrderTypes,
                 side : OrderSides, quantity : Quantities, price : Prices,
                 timestamp : Timestamps \cup {0}]

Labels == {"idle", "test", "peek", "pop", "refill", "loadId", "trade",
           "rest", "done", "threw"}

-----------------------------------------------------------------------------
(* The heaps.                                                              *)

INSTANCE PriorityQueue WITH Nothing <- NoOrder, RanksBelow <- OrderRanksBelow

SetHeap(symbol, side, heap) == book' = [book EXCEPT ![symbol][side] = heap]

(* The side of the book an incoming order is matched against.              *)
MakerSide(o) == Opposite(o.side)
MakerHeap(o) == book[o.symbol][MakerSide(o)]

(* Mutant: hasSellOrders() is not asked.                                   *)
MayMatchWithoutBook(o) == RemainingQuantity(o) > 0
(* The loop condition: shares left, and an order on the other side.        *)
MayMatch(o) == RemainingQuantity(o) > 0 /\ ~IsEmpty(MakerHeap(o))

(* Mutant: an order at the same price does not match.                      *)
CrossesStrictly(o, best) ==
  \/ o.type = "MARKET"
  \/ o.side = "BUY"  /\ o.price > best.price
  \/ o.side = "SELL" /\ o.price < best.price

(* Mutant: the limit of a buy order is not looked at.                      *)
CrossesAtAnyAsk(o, best) ==
  \/ o.type = "MARKET"
  \/ o.side = "BUY"
  \/ o.side = "SELL" /\ o.price <= best.price

(* The negation of the code's early break.                                 *)
Crosses(o, best) ==
  \/ o.type = "MARKET"
  \/ o.side = "BUY"  /\ o.price >= best.price
  \/ o.side = "SELL" /\ o.price <= best.price

(* Mutant: std::max for std::min.                                          *)
MatchLarger(o, best) ==
  IF RemainingQuantity(o) >= RemainingQuantity(best)
    THEN RemainingQuantity(o) ELSE RemainingQuantity(best)

MatchQuantity(o, best) ==
  IF RemainingQuantity(o) <= RemainingQuantity(best)
    THEN RemainingQuantity(o) ELSE RemainingQuantity(best)

(* Mutant: a market order rests as well.                                   *)
MayRestAtMarket(o) == RemainingQuantity(o) > 0
MayRest(o) == RemainingQuantity(o) > 0 /\ o.type = "LIMIT"

(* The trade between an incoming order and its maker, at the maker's price.*)
TradeOf(id, o, best, q) ==
  LET buy  == IF o.side = "BUY" THEN o ELSE best
      sell == IF o.side = "BUY" THEN best ELSE o
  IN  [tradeId |-> id, buyOrderId |-> buy.orderId, sellOrderId |-> sell.orderId,
       symbol |-> o.symbol, quantity |-> q, price |-> best.price,
       buyerId |-> buy.userId, sellerId |-> sell.userId]

-----------------------------------------------------------------------------
(* processOrder, step by step.                                             *)

Goto(t, label) == pc' = [pc EXCEPT ![t] = label]

ClearLocals(t) ==
  /\ incoming' = [incoming EXCEPT ![t] = NoOrder]
  /\ maker'    = [maker EXCEPT ![t] = NoOrder]
  /\ matchQty' = [matchQty EXCEPT ![t] = 0]
  /\ tradeId'  = [tradeId EXCEPT ![t] = 0]
  /\ executed' = [executed EXCEPT ![t] = <<>>]

(* A caller builds a new order, with a fresh id, and calls processOrder.   *)
ProcessOrder(t, request, now) ==
  LET id == orderCount + 1
      stamp == IF request.timestamp = 0 THEN now ELSE request.timestamp
  IN  /\ pc[t] = "idle"
      /\ orderCount < MaxOrders
      /\ orderCount' = id
      /\ incoming' = [incoming EXCEPT ![t] =
           [orderId |-> id, userId |-> request.userId, symbol |-> request.symbol,
            type |-> request.type, side |-> request.side,
            quantity |-> request.quantity, filledQuantity |-> 0,
            price |-> request.price, status |-> "PENDING", timestamp |-> stamp]]
      /\ untraded' = [untraded EXCEPT ![id] = request.quantity]
      /\ Goto(t, "test")
      /\ UNCHANGED <<bookVars, maker, matchQty, tradeId, executed>>

Test(t) ==
  /\ pc[t] = "test"
  /\ Goto(t, IF MayMatch(incoming[t]) THEN "peek" ELSE "rest")
  /\ UNCHANGED <<bookVars, orderCount, localVars, untraded>>

(* top() or pop() of an empty heap throws std::out_of_range.               *)
Throw(t) ==
  /\ pc[t] \in {"peek", "pop"}
  /\ IsEmpty(MakerHeap(incoming[t]))
  /\ Goto(t, "threw")
  /\ UNCHANGED <<bookVars, orderCount, localVars, untraded>>

(* Mutant: continue for break.                                             *)
ContinueLoop(t) == Goto(t, "test")
(* The break of an order that does not cross.                              *)
LeaveLoop(t) == Goto(t, "rest")

(* Copy the best opposite order and leave the loop if it does not cross.   *)
Peek(t) ==
  LET best == MakerHeap(incoming[t]).top
  IN  /\ pc[t] = "peek"
      /\ ~IsEmpty(MakerHeap(incoming[t]))
      /\ \/ /\ Crosses(incoming[t], best)
            /\ maker' = [maker EXCEPT ![t] = best]
            /\ Goto(t, "pop")
         \/ /\ ~Crosses(incoming[t], best)
            /\ LeaveLoop(t)
            /\ UNCHANGED maker
      /\ UNCHANGED <<bookVars, orderCount, incoming, matchQty, tradeId, executed, untraded>>

(* Pop the best opposite order, drop it, and fill the copies of the        *)
(* incoming order and of the order peeked before.                          *)
Pop(t) ==
  LET o == incoming[t]
      q == MatchQuantity(o, maker[t])
      filled == Fill(maker[t], q)
  IN  /\ pc[t] = "pop"
      /\ ~IsEmpty(MakerHeap(o))
      /\ \E heap \in Popped(MakerHeap(o)) : SetHeap(o.symbol, MakerSide(o), heap)
      /\ incoming' = [incoming EXCEPT ![t] = Fill(o, q)]
      /\ maker'    = [maker EXCEPT ![t] = filled]
      /\ matchQty' = [matchQty EXCEPT ![t] = q]
      /\ Goto(t, IF IsFilled(filled) THEN "loadId" ELSE "refill")
      /\ UNCHANGED <<lastTradedPrice, tradeIdCounter, orderCount, tradeId, executed, untraded>>

(* Mutant: the partially filled maker is not pushed back.                  *)
RefillNothing(t) ==
  /\ pc[t] = "refill"
  /\ Goto(t, "loadId")
  /\ UNCHANGED <<bookVars, orderCount, localVars, untraded>>

(* Push the partially filled maker back.                                   *)
Refill(t) ==
  LET o == incoming[t]
  IN  /\ pc[t] = "refill"
      /\ SetHeap(o.symbol, MakerSide(o), Pushed(MakerHeap(o), maker[t]))
      /\ Goto(t, "loadId")
      /\ UNCHANGED <<lastTradedPrice, tradeIdCounter, orderCount, localVars, untraded>>

(* ++tradeIdCounter is a load and a store of an unguarded counter.         *)
LoadTradeId(t) ==
  /\ pc[t] = "loadId"
  /\ tradeId' = [tradeId EXCEPT ![t] = tradeIdCounter + 1]
  /\ Goto(t, "trade")
  /\ UNCHANGED <<bookVars, orderCount, incoming, maker, matchQty, executed, untraded>>

(* Store the counter, append the trade, set the book's last price.  The    *)
(* two stores share a step: nothing reads both variables.                  *)
ExecuteTrade(t) ==
  LET o == incoming[t]
      m == maker[t]
      q == matchQty[t]
  IN  /\ pc[t] = "trade"
      /\ tradeIdCounter' = tradeId[t]
      /\ executed' = [executed EXCEPT ![t] = Append(@, TradeOf(tradeId[t], o, m, q))]
      /\ lastTradedPrice' = [lastTradedPrice EXCEPT ![o.symbol] = m.price]
      /\ untraded' = [untraded EXCEPT ![o.orderId] = @ - q, ![m.orderId] = @ - q]
      /\ maker'    = [maker EXCEPT ![t] = NoOrder]
      /\ matchQty' = [matchQty EXCEPT ![t] = 0]
      /\ tradeId'  = [tradeId EXCEPT ![t] = 0]
      /\ Goto(t, "test")
      /\ UNCHANGED <<book, orderCount, incoming>>

(* A limit order's remainder joins its own side; a market order's does     *)
(* not, and keeps the status its fills gave it.                            *)
Rest(t) ==
  LET o == incoming[t]
  IN  /\ pc[t] = "rest"
      /\ \/ /\ MayRest(o)
            /\ SetHeap(o.symbol, o.side, Pushed(book[o.symbol][o.side], o))
         \/ /\ ~MayRest(o)
            /\ UNCHANGED book
      /\ Goto(t, "done")
      /\ UNCHANGED <<lastTradedPrice, tradeIdCounter, orderCount, localVars, untraded>>

(* The caller has taken the MatchResult, or the exception.                 *)
Return(t) ==
  /\ pc[t] \in {"done", "threw"}
  /\ ClearLocals(t)
  /\ Goto(t, "idle")
  /\ UNCHANGED <<bookVars, orderCount, untraded>>

(* cancelOrder: remove one copy, from the bids if there is one there.      *)
CancelOrder(t, s, id) ==
  LET Copies(side) == Found(book[s][side], {o \in Elements(book[s][side]) : o.orderId = id})
      side == IF Copies("BUY") # {} THEN "BUY" ELSE "SELL"
  IN  /\ pc[t] = "idle"
      /\ \E o \in Copies(side) :
           \E heap \in Without(book[s][side], o) : SetHeap(s, side, heap)
      /\ UNCHANGED <<lastTradedPrice, tradeIdCounter, orderCount, pc, localVars, untraded>>

-----------------------------------------------------------------------------
EngineInit ==
  /\ book = [s \in Symbols |-> [side \in OrderSides |-> EmptyQueue]]
  /\ lastTradedPrice = [s \in Symbols |-> OpeningPrice]
  /\ tradeIdCounter = 0
  /\ orderCount = 0
  /\ pc = [t \in Threads |-> "idle"]
  /\ incoming = [t \in Threads |-> NoOrder]
  /\ maker = [t \in Threads |-> NoOrder]
  /\ matchQty = [t \in Threads |-> 0]
  /\ tradeId = [t \in Threads |-> 0]
  /\ executed = [t \in Threads |-> <<>>]
  /\ untraded = [id \in OrderIds |-> 0]

(* The steps of a call that is under way.                                  *)
Advance(t) ==
  \/ Test(t) \/ Throw(t) \/ Peek(t) \/ Pop(t) \/ Refill(t)
  \/ LoadTradeId(t) \/ ExecuteTrade(t) \/ Rest(t)

EngineNext ==
  \E t \in Threads :
    \/ \E request \in OrderRequest, now \in Timestamps : ProcessOrder(t, request, now)
    \/ Advance(t)
    \/ Return(t)
    \/ \E s \in Symbols, id \in OrderIds : CancelOrder(t, s, id)

EngineSpec == EngineInit /\ [][EngineNext]_vars

AllIdle == \A t \in Threads : pc[t] = "idle"

-----------------------------------------------------------------------------
(* Properties of any number of threads.                                    *)

IsHeap(heap) ==
  /\ heap = [items |-> heap.items, top |-> heap.top]
  /\ IsABag(heap.items)
  /\ Elements(heap) \subseteq Order
  /\ ~IsEmpty(heap) => heap.top \in Elements(heap)

BookTypeOK ==
  /\ book = [s \in Symbols |-> [side \in OrderSides |-> book[s][side]]]
  /\ \A s \in Symbols, side \in OrderSides : IsHeap(book[s][side])

(* Every variable holds a value of its declared C++ type, and a heap that  *)
(* is not empty has one of its orders on top.                              *)
TypeOK ==
  /\ BookTypeOK
  /\ lastTradedPrice \in [Symbols -> Prices]
  /\ tradeIdCounter \in Nat
  /\ orderCount \in 0 .. MaxOrders
  /\ pc \in [Threads -> Labels]
  /\ incoming \in [Threads -> Order \cup {NoOrder}]
  /\ maker \in [Threads -> Order \cup {NoOrder}]
  /\ matchQty \in [Threads -> Nat]
  /\ tradeId \in [Threads -> Nat]
  /\ executed \in [Threads -> Seq(Trade)]
  /\ untraded \in [OrderIds -> Int]

(* An order that waits in a book is a limit order of that book and side    *)
(* with shares left to trade, and its status says whether it has traded:   *)
(* the maker is pushed back only when it is not filled, the incoming order *)
(* only when MayRest, whatever other threads did in between.               *)
RestsProperly(s, side, o) ==
  /\ o.symbol = s
  /\ o.side = side
  /\ o.type = "LIMIT"
  /\ RemainingQuantity(o) > 0
  /\ o.status = IF o.filledQuantity = 0 THEN "PENDING" ELSE "PARTIALLY_FILLED"

RestingOrdersAreLive ==
  \A s \in Symbols, side \in OrderSides :
    \A o \in Elements(book[s][side]) : RestsProperly(s, side, o)

(* The shares a call reports in executedTrades, and the match it is about  *)
(* to report, are the shares it has filled of its own order, no more than  *)
(* the order asked for.                                                    *)
SharesTraded(trades) ==
  LET Total[n \in 0 .. Len(trades)] ==
        IF n = 0 THEN 0 ELSE Total[n - 1] + trades[n].quantity
  IN  Total[Len(trades)]

TradesAddUp ==
  \A t \in Threads :
    pc[t] # "idle" =>
      /\ SharesTraded(executed[t]) + matchQty[t] = incoming[t].filledQuantity
      /\ incoming[t].filledQuantity <= incoming[t].quantity

(* A limit order never trades beyond its limit, even when the book changes *)
(* between the price check and the match.                                  *)
WithinLimit(o, price) ==
  \/ o.type = "MARKET"
  \/ o.side = "BUY"  /\ price <= o.price
  \/ o.side = "SELL" /\ price >= o.price

TradesWithinLimit ==
  \A t \in Threads :
    \A i \in DOMAIN executed[t] : WithinLimit(incoming[t], executed[t][i].price)

(* What a call knows of its own copies at each point of processOrder; with *)
(* the invariants above it is inductive for any number of threads, since   *)
(* it speaks of no shared state.                                           *)
IncomingOK(o) ==
  /\ o \in Order
  /\ o.filledQuantity <= o.quantity
  /\ o.status = IF o.filledQuantity = 0 THEN "PENDING" ELSE StatusAt(o, o.filledQuantity)

CallOK(t) ==
  LET o == incoming[t]
      m == maker[t]
  IN  /\ pc[t] = "idle" => executed[t] = <<>>
      /\ pc[t] # "idle" => IncomingOK(o)
      /\ pc[t] \in {"peek", "pop"} => RemainingQuantity(o) > 0
      /\ pc[t] \in {"pop", "refill"} => RestsProperly(o.symbol, MakerSide(o), m)
      /\ pc[t] \in {"pop", "refill", "loadId", "trade"} => m \in Order /\ Crosses(o, m)
      /\ \A i \in DOMAIN executed[t] : WithinLimit(o, executed[t][i].price)

EngineInv == TypeOK /\ RestingOrdersAreLive /\ \A t \in Threads : CallOK(t)
=============================================================================
