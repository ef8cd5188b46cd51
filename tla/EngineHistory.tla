---------------------------- MODULE EngineHistory ----------------------------
(***************************************************************************)
(* MatchingEngine with history variables, and what the engine owes to the  *)
(* orders of a book as long as no two calls are at work in that book at    *)
(* once.  Nothing is asked of the other books: processOrder runs in them   *)
(* on other threads meanwhile.                                             *)
(*                                                                         *)
(* History never guards a step.  It records each order as its caller built *)
(* it, the cancellations, and where calls met: bookMutex keeps the steps   *)
(* of calls apart and not the calls, so one that shares its book with      *)
(* another, or with a cancellation, may find it changed under its hands.   *)
(***************************************************************************)
EXTENDS MatchingEngine

VARIABLES
  submitted,  \* [order -> the order as it was handed to processOrder]
  cancelled,  \* orders that cancelOrder has taken out
  disturbed,  \* threads whose call has met another in its book
  met         \* symbols in whose book calls have ever met

history == <<submitted, cancelled, disturbed, met>>
historyVars == <<vars, history>>

(* The calls that are at work on a book.                                   *)
Inside(t, s) ==
  /\ pc[t] \in {"test", "peek", "pop", "refill", "loadId", "trade", "rest"}
  /\ incoming[t].symbol = s

Callers(s) == {t \in Threads : Inside(t, s)}

Meet(calls, s) ==
  /\ disturbed' = disturbed \cup calls
  /\ met' = IF calls = {} THEN met ELSE met \cup {s}

ProcessOrderH(t, request, now) ==
  LET others == Callers(request.symbol)
  IN  /\ ProcessOrder(t, request, now)
      /\ submitted' = [submitted EXCEPT ![orderCount + 1] = incoming'[t]]
      /\ Meet(IF others = {} THEN {} ELSE others \cup {t}, request.symbol)
      /\ UNCHANGED cancelled

AdvanceH(t) == Advance(t) /\ UNCHANGED history

ReturnH(t) ==
  /\ Return(t)
  /\ disturbed' = disturbed \ {t}
  /\ UNCHANGED <<submitted, cancelled, met>>

CancelOrderH(t, s, id) ==
  /\ CancelOrder(t, s, id)
  /\ cancelled' = cancelled \cup {id}
  /\ Meet(Callers(s), s)
  /\ UNCHANGED submitted

HistoryInit ==
  /\ EngineInit
  /\ submitted = [id \in OrderIds |-> NoOrder]
  /\ cancelled = {}
  /\ disturbed = {}
  /\ met = {}

HistoryNext ==
  \E t \in Threads :
    \/ \E request \in OrderRequest, now \in Timestamps : ProcessOrderH(t, request, now)
    \/ AdvanceH(t)
    \/ ReturnH(t)
    \/ \E s \in Symbols, id \in OrderIds : CancelOrderH(t, s, id)

HistorySpec == HistoryInit /\ [][HistoryNext]_historyVars

-----------------------------------------------------------------------------
(* Properties of any number of threads.                                    *)

(* peek and pop find the heap empty that hasSellOrders() or hasBuyOrders() *)
(* was asked about only in a call that has met another in its book.        *)
NeverThrows == \A t \in Threads : pc[t] = "threw" => t \in disturbed

(* What must wait of an order: the order as submitted, less the shares its *)
(* trades have taken.                                                      *)
Remainder(id) ==
  LET o == submitted[id]
      filled == o.quantity - untraded[id]
  IN  [o EXCEPT !.filledQuantity = filled,
                !.status = IF filled = 0 THEN "PENDING" ELSE "PARTIALLY_FILLED"]

OrdersOf(s) == {id \in 1 .. orderCount : submitted[id].symbol = s}

Standing(s, side) ==
  {id \in OrdersOf(s) :
     /\ submitted[id].type = "LIMIT"
     /\ submitted[id].side = side
     /\ id \notin cancelled
     /\ untraded[id] > 0}

(* Where the shares of every order are.  No order trades more than it      *)
(* asked for; and when no call is at work on the book, each limit order    *)
(* with shares left that nobody cancelled waits in it, on its side, once   *)
(* and with those shares, and nothing else does.  The shares of a market   *)
(* order that its own call has not traded are dropped.                     *)
SharesConserved ==
  \A s \in Symbols \ met :
    /\ \A id \in OrdersOf(s) : untraded[id] >= 0
    /\ Callers(s) = {} =>
         \A side \in OrderSides :
           book[s][side].items = SetToBag({Remainder(id) : id \in Standing(s, side)})

(* When no call is at work on a book its best bid is below its best ask: a *)
(* limit order rests only after it has taken every order it crosses.       *)
BookUncrossed ==
  \A s \in Symbols \ met :
    Callers(s) = {} =>
      \A b \in Elements(book[s]["BUY"]), a \in Elements(book[s]["SELL"]) :
        b.price < a.price

(* An order of a better price, or of the same price and an earlier time.   *)
HasPriority(p, m) ==
  \/ p.side = "BUY"  /\ p.price > m.price
  \/ p.side = "SELL" /\ p.price < m.price
  \/ p.price = m.price /\ p.timestamp < m.timestamp

(* The match that thread t makes in this step.                             *)
Matches(t) == pc[t] = "pop" /\ pc'[t] \in {"refill", "loadId"}

(* The order a match is made with leaves its heap by that very step, and   *)
(* no order of its heap has priority over it.                              *)
MatchesTheBest(t) ==
  LET o == incoming[t]
      heap == MakerHeap(o)
  IN  /\ \A p \in Elements(heap) : ~HasPriority(p, maker[t])
      /\ book'[o.symbol][MakerSide(o)].items = heap.items (-) SetToBag({maker[t]})

(* Price-time priority: the match of a call that has met no other is with  *)
(* the order of the earliest timestamp at the best price, and never with   *)
(* one that is already gone.  The timestamp is what the order's caller put *)
(* there, not its arrival.                                                 *)
PriceTimePriority ==
  [][\A t \in Threads \ disturbed : Matches(t) => MatchesTheBest(t)]_historyVars

-----------------------------------------------------------------------------
(* Claims of the repository that the code does not keep.                   *)

(* docs/dsa.md:35-36: a match takes min(O_in.rem, O_maker.rem) shares, so  *)
(* that no order trades more shares than it asked for.                     *)
NoOverfill == \A id \in OrderIds : untraded[id] >= 0

(* docs/viva_guide.md:27: orders of one price are executed in strict FIFO  *)
(* order.  Asked only of books in which no calls have met, so that the     *)
(* orders came to rest in the order of their ids.                          *)
StrictFifo ==
  [][\A t \in Threads :
       Matches(t) /\ incoming[t].symbol \notin met =>
         \A p \in Elements(MakerHeap(incoming[t])) :
           p.price = maker[t].price => p.orderId >= maker[t].orderId]_historyVars
=============================================================================
