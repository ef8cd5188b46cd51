------------------------- MODULE MatchingEngineProofs -------------------------
(***************************************************************************)
(* Theorems about MatchingEngine, for any number of threads and books:     *)
(* first of single states and of the trades a call reports, then, from the *)
(* history of EngineHistory, of the books in which no calls have met.      *)
(***************************************************************************)
EXTENDS OrderBookViews, Induction, SequenceTheorems

-----------------------------------------------------------------------------
(* The heaps.                                                              *)

LEMMA EmptyQueueIsHeap == IsHeap(EmptyQueue) /\ Elements(EmptyQueue) = {}
  BY DEF IsHeap, EmptyQueue, Elements, IsEmpty, IsABag, EmptyBag, SetToBag, BagToSet

(* Pushing adds one element.                                               *)
LEMMA PushedHeap ==
  ASSUME NEW heap, IsHeap(heap), NEW o \in Order
  PROVE  /\ IsHeap(Pushed(heap, o))
         /\ Elements(Pushed(heap, o)) = Elements(heap) \cup {o}
         /\ ~IsEmpty(Pushed(heap, o))
<1> DEFINE new == Pushed(heap, o)
<1>1. /\ new = [items |-> new.items, top |-> new.top]
      /\ new.top = o \/ (~IsEmpty(heap) /\ new.top = heap.top)
      /\ new.items = heap.items (+) SetToBag({o})
  BY DEF Pushed
<1>2. DOMAIN new.items = (DOMAIN heap.items) \cup {o}
  BY <1>1 DEF (+), SetToBag
<1>3. IsABag(new.items)
  <2>1. heap.items \in [DOMAIN heap.items -> {n \in Nat : n > 0}]
    BY DEF IsHeap, IsABag
  <2>2. new.items = [e \in (DOMAIN heap.items) \cup {o} |->
                       (IF e \in DOMAIN heap.items THEN heap.items[e] ELSE 0)
                     + (IF e \in {o} THEN 1 ELSE 0)]
    BY <1>1 DEF (+), SetToBag
  <2>3. \A e \in (DOMAIN heap.items) \cup {o} : new.items[e] \in {n \in Nat : n > 0}
    BY <2>1, <2>2
  <2> QED BY <2>2, <2>3, <1>2 DEF IsABag
<1>4. Elements(new) = Elements(heap) \cup {o}
  BY <1>2 DEF Elements, BagToSet
<1>5. ~IsEmpty(new)
  BY <1>2 DEF IsEmpty, EmptyBag, SetToBag
<1> QED BY <1>1, <1>3, <1>4, <1>5 DEF IsHeap

(* Taking one copy of an element away adds nothing.                        *)
LEMMA WithoutHeap ==
  ASSUME NEW heap, IsHeap(heap), NEW x \in Elements(heap), NEW new \in Without(heap, x)
  PROVE  IsHeap(new) /\ Elements(new) \subseteq Elements(heap)
<1> DEFINE rest == heap.items (-) SetToBag({x})
<1>1. heap.items \in [DOMAIN heap.items -> {n \in Nat : n > 0}]
  BY DEF IsHeap, IsABag
<1> DEFINE B == [e \in DOMAIN heap.items |->
                   IF e \in {x} THEN heap.items[e] - 1 ELSE heap.items[e]]
<1>2. rest = [e \in {d \in DOMAIN B : B[d] > 0} |-> B[e]]
  BY DEF (-), SetToBag
<1>3. /\ IsABag(rest)
      /\ DOMAIN rest \subseteq DOMAIN heap.items
      /\ \A e \in DOMAIN heap.items : e # x => e \in DOMAIN rest
  <2>1. \A e \in DOMAIN B : B[e] \in Nat
    BY <1>1
  <2>2. \A e \in DOMAIN heap.items : e # x => B[e] > 0
    BY <1>1
  <2> HIDE DEF B
  <2>3. DOMAIN B = DOMAIN heap.items
    BY DEF B
  <2> QED BY <1>2, <2>1, <2>2, <2>3 DEF IsABag
<1> HIDE DEF rest
<1>4. CASE x = heap.top
  <2>1. new \in Sifted(rest)
    BY <1>4 DEF Without, rest
  <2>2. CASE rest = EmptyBag
    BY <2>1, <2>2, EmptyQueueIsHeap DEF Sifted
  <2>3. CASE rest # EmptyBag
    <3>1. PICK y \in Best(rest) : new = [items |-> rest, top |-> y]
      BY <2>1, <2>3 DEF Sifted
    <3>2. y \in BagToSet(rest)
      BY <3>1 DEF Best
    <3> QED BY <3>1, <3>2, <1>3 DEF IsHeap, Elements, BagToSet
  <2> QED BY <2>2, <2>3
<1>5. CASE x # heap.top
  <2>1. new = [heap EXCEPT !.items = rest]
    BY <1>5 DEF Without, rest
  <2>2. new = [items |-> rest, top |-> heap.top]
    BY <2>1 DEF IsHeap
  <2>3. heap.top \in DOMAIN rest
    <3>1. ~IsEmpty(heap)
      BY DEF Elements, IsEmpty, EmptyBag, SetToBag, BagToSet
    <3> QED BY <3>1, <1>3, <1>5 DEF IsHeap, Elements, BagToSet
  <2> QED BY <2>2, <2>3, <1>3 DEF IsHeap, Elements, BagToSet
<1> QED BY <1>4, <1>5

(* Putting a sound heap of live orders in a book keeps all books sound.    *)
LEMMA SetHeapKeepsBooks ==
  ASSUME BookTypeOK, RestingOrdersAreLive,
         NEW s \in Symbols, NEW side \in OrderSides, NEW new,
         IsHeap(new), \A o \in Elements(new) : RestsProperly(s, side, o),
         SetHeap(s, side, new)
  PROVE  BookTypeOK' /\ RestingOrdersAreLive'
<1>1. book = [r \in Symbols |-> [d \in OrderSides |-> book[r][d]]]
  BY DEF BookTypeOK
<1>2. book' = [book EXCEPT ![s] = [book[s] EXCEPT ![side] = new]]
  BY DEF SetHeap
<1>3. \A r \in Symbols, d \in OrderSides :
        book'[r][d] = IF r = s /\ d = side THEN new ELSE book[r][d]
  BY <1>1, <1>2
<1>4. book' = [r \in Symbols |-> [d \in OrderSides |-> book'[r][d]]]
  <2>1. \A r \in Symbols : book[r] = [d \in OrderSides |-> book[r][d]]
    BY <1>1
  <2>2. \A r \in Symbols : book'[r] = [d \in OrderSides |-> book'[r][d]]
    BY <1>1, <1>2, <2>1
  <2>3. book' = [r \in Symbols |-> book'[r]]
    BY <1>1, <1>2
  <2> QED BY <2>2, <2>3
<1>5. BookTypeOK'
  BY <1>3, <1>4 DEF BookTypeOK
<1>6. RestingOrdersAreLive'
  BY <1>3 DEF RestingOrdersAreLive
<1> QED BY <1>5, <1>6

-----------------------------------------------------------------------------
(* Orders.                                                                 *)

LEMMA OrderFields ==
  ASSUME NEW o \in Order
  PROVE  /\ o.quantity \in Nat /\ o.filledQuantity \in Nat /\ o.quantity > 0
         /\ o.price \in Nat
         /\ o.orderId \in OrderIds /\ o.userId \in Users /\ o.symbol \in Symbols
         /\ o.type \in OrderTypes /\ o.side \in OrderSides
         /\ o.price \in Prices
<1>1. /\ o.quantity \in Quantities /\ o.filledQuantity \in Nat
      /\ o.orderId \in OrderIds /\ o.userId \in Users /\ o.symbol \in Symbols
      /\ o.type \in OrderTypes /\ o.side \in OrderSides
      /\ o.price \in Prices
  BY DEF Order
<1>2. \A n \in Quantities : n \in Nat /\ n > 0
  BY EngineAssumption
<1>3. \A n \in Prices : n \in Nat
  BY EngineAssumption
<1> QED BY <1>1, <1>2, <1>3

(* A match takes shares both orders have, leaves the price limits of both  *)
(* where they were, and gives each the status its fills call for.          *)
LEMMA FilledOrder ==
  ASSUME NEW o \in Order, NEW q \in Nat, q > 0, q <= RemainingQuantity(o)
  PROVE  /\ IncomingOK(Fill(o, q))
         /\ Fill(o, q).filledQuantity = o.filledQuantity + q
         /\ Fill(o, q).orderId = o.orderId /\ Fill(o, q).userId = o.userId
         /\ Fill(o, q).symbol = o.symbol /\ Fill(o, q).type = o.type
         /\ Fill(o, q).side = o.side /\ Fill(o, q).quantity = o.quantity
         /\ Fill(o, q).price = o.price /\ Fill(o, q).timestamp = o.timestamp
<1> DEFINE a  == o.filledQuantity + q
           st == StatusAt(o, a)
           n  == [o EXCEPT !.filledQuantity = a, !.status = st]
<1>1. o.quantity \in Nat /\ o.filledQuantity \in Nat /\ o.quantity > 0
  BY OrderFields
<1>2. a \in Nat /\ st \in OrderStatuses
  BY <1>1 DEF StatusAt, OrderStatuses
<1>3. /\ n \in Order
      /\ n.filledQuantity = a
      /\ n.status = st
      /\ n.orderId = o.orderId /\ n.userId = o.userId /\ n.symbol = o.symbol
      /\ n.type = o.type /\ n.side = o.side /\ n.quantity = o.quantity
      /\ n.price = o.price /\ n.timestamp = o.timestamp
  <2> HIDE DEF a, st
  <2> QED BY <1>2 DEF Order
<1> HIDE DEF n
<1>4. IncomingOK(n)
  BY <1>1, <1>3 DEF IncomingOK, StatusAt, RemainingQuantity
<1>5. n = Fill(o, q)
  BY DEF n, Fill
<1> QED BY <1>3, <1>4, <1>5

LEMMA MatchedQuantity ==
  ASSUME NEW o \in Order, NEW m \in Order,
         RemainingQuantity(o) > 0, RemainingQuantity(m) > 0
  PROVE  /\ MatchQuantity(o, m) \in Nat
         /\ MatchQuantity(o, m) > 0
         /\ MatchQuantity(o, m) <= RemainingQuantity(o)
         /\ MatchQuantity(o, m) <= RemainingQuantity(m)
<1>1. /\ o.quantity \in Nat /\ o.filledQuantity \in Nat
      /\ m.quantity \in Nat /\ m.filledQuantity \in Nat
  BY OrderFields
<1> QED BY <1>1 DEF MatchQuantity, RemainingQuantity

-----------------------------------------------------------------------------
(* The inductive invariant.                                                *)

LEMMA InitEngineInv == EngineInit => EngineInv
<1> SUFFICES ASSUME EngineInit PROVE EngineInv
  OBVIOUS
<1>1. \A s \in Symbols, side \in OrderSides : book[s][side] = EmptyQueue
  BY DEF EngineInit
<1>2. BookTypeOK /\ RestingOrdersAreLive
  <2>1. book = [s \in Symbols |-> [side \in OrderSides |-> book[s][side]]]
    BY DEF EngineInit
  <2> QED BY <1>1, <2>1, EmptyQueueIsHeap DEF BookTypeOK, RestingOrdersAreLive
<1>3. TypeOK
  <2>1. lastTradedPrice \in [Symbols -> Prices]
    BY EngineAssumption DEF EngineInit
  <2>2. orderCount \in 0 .. MaxOrders
    BY EngineAssumption DEF EngineInit
  <2>3. executed \in [Threads -> Seq(Trade)]
    BY DEF EngineInit
  <2> QED BY <1>2, <2>1, <2>2, <2>3 DEF TypeOK, EngineInit, Labels
<1>4. \A t \in Threads : CallOK(t)
  BY DEF EngineInit, CallOK
<1> QED BY <1>2, <1>3, <1>4 DEF EngineInv

(* CallOK speaks only of the caller's own variables.                       *)
LEMMA OtherCalls ==
  ASSUME NEW u, CallOK(u), pc'[u] = pc[u], incoming'[u] = incoming[u],
         maker'[u] = maker[u], executed'[u] = executed[u]
  PROVE  CallOK(u)'
  BY DEF CallOK, IncomingOK, RestsProperly, WithinLimit, Crosses, MakerSide,
         RemainingQuantity, StatusAt

LEMMA StutterKeepsInv ==
  ASSUME EngineInv, UNCHANGED vars PROVE EngineInv'
<1> USE DEF vars, bookVars, localVars
<1>1. BookTypeOK' /\ RestingOrdersAreLive'
  BY DEF EngineInv, TypeOK, BookTypeOK, RestingOrdersAreLive
<1>2. TypeOK'
  BY <1>1 DEF EngineInv, TypeOK
<1>3. \A t \in Threads : CallOK(t)'
  BY OtherCalls DEF EngineInv
<1> QED BY <1>1, <1>2, <1>3 DEF EngineInv

(* A step that leaves the books alone keeps them sound.                    *)
LEMMA SameBooks ==
  ASSUME EngineInv, book' = book PROVE BookTypeOK' /\ RestingOrdersAreLive'
  BY DEF EngineInv, TypeOK, BookTypeOK, RestingOrdersAreLive

LEMMA TestKeepsInv ==
  ASSUME EngineInv, NEW t \in Threads, Test(t) PROVE EngineInv'
<1> USE DEF bookVars, localVars
<1>1. BookTypeOK' /\ RestingOrdersAreLive'
  BY SameBooks DEF Test
<1>2. TypeOK'
  BY <1>1 DEF EngineInv, TypeOK, Test, MayMatch, Goto, Labels
<1>3. ASSUME NEW u \in Threads PROVE CallOK(u)'
  <2>1. CASE u # t
    BY <2>1, OtherCalls DEF EngineInv, TypeOK, Test, MayMatch, Goto
  <2>2. CASE u = t
    <3>1. /\ pc[t] = "test" /\ pc'[t] \in {"peek", "rest"}
          /\ pc'[t] = "peek" => RemainingQuantity(incoming[t]) > 0
          /\ incoming' = incoming /\ executed' = executed
      BY DEF EngineInv, TypeOK, Test, MayMatch, Goto
    <3> QED BY <2>2, <3>1 DEF EngineInv, CallOK, IncomingOK, RemainingQuantity,
                              StatusAt, WithinLimit
  <2> QED BY <2>1, <2>2
<1> QED BY <1>1, <1>2, <1>3 DEF EngineInv

LEMMA ThrowKeepsInv ==
  ASSUME EngineInv, NEW t \in Threads, Throw(t) PROVE EngineInv'
<1> USE DEF bookVars, localVars
<1>1. BookTypeOK' /\ RestingOrdersAreLive'
  BY SameBooks DEF Throw
<1>2. TypeOK'
  BY <1>1 DEF EngineInv, TypeOK, Throw, Goto, Labels
<1>3. ASSUME NEW u \in Threads PROVE CallOK(u)'
  <2>1. CASE u # t
    BY <2>1, OtherCalls DEF EngineInv, TypeOK, Throw, Goto
  <2>2. CASE u = t
    <3>1. /\ pc[t] # "idle" /\ pc'[t] = "threw"
          /\ incoming' = incoming /\ executed' = executed
      BY DEF EngineInv, TypeOK, Throw, Goto
    <3> QED BY <2>2, <3>1 DEF EngineInv, CallOK, IncomingOK, StatusAt, WithinLimit
  <2> QED BY <2>1, <2>2
<1> QED BY <1>1, <1>2, <1>3 DEF EngineInv

(* A call begins with an order whose fields are the caller's.              *)
LEMMA ProcessOrderKeepsInv ==
  ASSUME EngineInv, NEW t \in Threads, NEW request \in OrderRequest, NEW now \in Timestamps,
         ProcessOrder(t, request, now)
  PROVE  EngineInv'
<1> USE DEF bookVars, localVars
<1> DEFINE id == orderCount + 1
           stamp == IF request.timestamp = 0 THEN now ELSE request.timestamp
           o == [orderId |-> id, userId |-> request.userId, symbol |-> request.symbol,
                 type |-> request.type, side |-> request.side,
                 quantity |-> request.quantity, filledQuantity |-> 0,
                 price |-> request.price, status |-> "PENDING", timestamp |-> stamp]
<1>1. BookTypeOK' /\ RestingOrdersAreLive'
  BY SameBooks DEF ProcessOrder
<1>2. id \in OrderIds /\ id \in 0 .. MaxOrders
  BY EngineAssumption DEF EngineInv, TypeOK, ProcessOrder, OrderIds
<1>3. o \in Order /\ o.filledQuantity = 0 /\ o.status = "PENDING" /\ o.quantity = request.quantity
  <2>1. stamp \in Timestamps
    BY DEF OrderRequest
  <2> HIDE DEF id, stamp
  <2> QED BY <1>2, <2>1 DEF Order, OrderRequest, OrderStatuses
<1>4. IncomingOK(o)
  BY <1>3, OrderFields DEF IncomingOK
<1>5. request.quantity \in Int
  BY <1>3, OrderFields
<1>6. /\ pc[t] = "idle" /\ pc' = [pc EXCEPT ![t] = "test"]
      /\ incoming' = [incoming EXCEPT ![t] = o]
      /\ orderCount' = id /\ untraded' = [untraded EXCEPT ![id] = request.quantity]
      /\ UNCHANGED <<book, lastTradedPrice, tradeIdCounter, maker, matchQty, tradeId, executed>>
  BY DEF ProcessOrder, Goto
<1> HIDE DEF o, id
<1>7. TypeOK'
  BY <1>1, <1>2, <1>3, <1>5, <1>6 DEF EngineInv, TypeOK, Labels
<1>8. ASSUME NEW u \in Threads PROVE CallOK(u)'
  <2>1. CASE u # t
    BY <2>1, <1>6, OtherCalls DEF EngineInv, TypeOK
  <2>2. CASE u = t
    <3>1. incoming'[t] = o /\ pc'[t] = "test" /\ executed'[t] = <<>>
      BY <1>6 DEF EngineInv, TypeOK, CallOK
    <3>2. IncomingOK(incoming[t])'
      BY <3>1, <1>4 DEF IncomingOK, StatusAt
    <3> QED BY <2>2, <3>1, <3>2 DEF CallOK
  <2> QED BY <2>1, <2>2
<1> QED BY <1>1, <1>7, <1>8 DEF EngineInv

(* The incoming order that is being matched, and the heap it is matched    *)
(* against.                                                                *)
LEMMA CallFacts ==
  ASSUME EngineInv, NEW t \in Threads, pc[t] # "idle"
  PROVE  /\ incoming[t] \in Order
         /\ IncomingOK(incoming[t])
         /\ incoming[t].symbol \in Symbols
         /\ incoming[t].side \in OrderSides
         /\ MakerSide(incoming[t]) \in OrderSides
         /\ IsHeap(MakerHeap(incoming[t]))
         /\ \A o \in Elements(MakerHeap(incoming[t])) :
              RestsProperly(incoming[t].symbol, MakerSide(incoming[t]), o)
<1>1. IncomingOK(incoming[t])
  BY DEF EngineInv, CallOK
<1>2. /\ incoming[t] \in Order /\ incoming[t].symbol \in Symbols
      /\ incoming[t].side \in OrderSides
  BY <1>1, OrderFields DEF IncomingOK
<1>3. MakerSide(incoming[t]) \in OrderSides
  BY DEF MakerSide, Opposite, OrderSides
<1> QED BY <1>1, <1>2, <1>3 DEF EngineInv, TypeOK, BookTypeOK, RestingOrdersAreLive, MakerHeap

LEMMA PeekKeepsInv ==
  ASSUME EngineInv, NEW t \in Threads, Peek(t) PROVE EngineInv'
<1> USE DEF bookVars, localVars
<1> DEFINE best == MakerHeap(incoming[t]).top
<1>1. BookTypeOK' /\ RestingOrdersAreLive'
  BY SameBooks DEF Peek
<1>2. pc[t] = "peek" /\ ~IsEmpty(MakerHeap(incoming[t]))
  BY DEF Peek
<1>3. best \in Order /\ RestsProperly(incoming[t].symbol, MakerSide(incoming[t]), best)
  BY <1>2, CallFacts DEF IsHeap
<1>4. TypeOK'
  BY <1>1, <1>3 DEF EngineInv, TypeOK, Peek, LeaveLoop, Goto, Labels
<1>5. ASSUME NEW u \in Threads PROVE CallOK(u)'
  <2>1. CASE u # t
    BY <2>1, OtherCalls DEF EngineInv, TypeOK, Peek, LeaveLoop, Goto
  <2>2. CASE u = t
    <3>1. /\ \/ pc'[t] = "pop" /\ maker'[t] = best /\ Crosses(incoming[t], best)
             \/ pc'[t] = "rest"
          /\ incoming' = incoming /\ executed' = executed
      BY DEF EngineInv, TypeOK, Peek, LeaveLoop, Goto
    <3>2. /\ IncomingOK(incoming[t]) /\ RemainingQuantity(incoming[t]) > 0
          /\ \A i \in DOMAIN executed[t] : WithinLimit(incoming[t], executed[t][i].price)
      BY <1>2 DEF EngineInv, CallOK
    <3>3. /\ IncomingOK(incoming[t])' /\ (RemainingQuantity(incoming[t]) > 0)'
          /\ (\A i \in DOMAIN executed[t] : WithinLimit(incoming[t], executed[t][i].price))'
      BY <3>1, <3>2 DEF IncomingOK, StatusAt, RemainingQuantity, WithinLimit
    <3>4. CASE pc'[t] = "rest"
      BY <2>2, <3>3, <3>4 DEF CallOK
    <3>5. CASE pc'[t] = "pop"
      <4>1. maker'[t] = best /\ Crosses(incoming[t], best)
        BY <3>1, <3>5
      <4> HIDE DEF best
      <4>2. /\ maker'[t] \in Order /\ Crosses(incoming[t], maker[t])'
            /\ RestsProperly(incoming[t].symbol, MakerSide(incoming[t]), maker[t])'
        BY <3>1, <4>1, <1>3 DEF Crosses, RestsProperly, MakerSide, RemainingQuantity
      <4> QED BY <2>2, <3>3, <3>5, <4>2 DEF CallOK
    <3> QED BY <3>1, <3>4, <3>5
  <2> QED BY <2>1, <2>2
<1> QED BY <1>1, <1>4, <1>5 DEF EngineInv

(* The two copies a match fills.                                           *)
LEMMA MatchFacts ==
  ASSUME NEW o, IncomingOK(o), RemainingQuantity(o) > 0,
         NEW m \in Order, RestsProperly(o.symbol, MakerSide(o), m), Crosses(o, m),
         NEW q, q = MatchQuantity(o, m)
  PROVE  /\ q \in Nat
         /\ IncomingOK(Fill(o, q))
         /\ Fill(m, q) \in Order
         /\ ~IsFilled(Fill(m, q)) =>
              RestsProperly(Fill(o, q).symbol, MakerSide(Fill(o, q)), Fill(m, q))
         /\ Crosses(Fill(o, q), Fill(m, q))
         /\ \A price : WithinLimit(o, price) <=> WithinLimit(Fill(o, q), price)
<1>1. o \in Order /\ RemainingQuantity(m) > 0
  BY DEF IncomingOK, RestsProperly
<1>2. q \in Nat /\ q > 0 /\ q <= RemainingQuantity(o) /\ q <= RemainingQuantity(m)
  BY <1>1, MatchedQuantity
<1> DEFINE fo == Fill(o, q)
           fm == Fill(m, q)
<1>3. /\ IncomingOK(fo) /\ IncomingOK(fm)
      /\ fm.filledQuantity = m.filledQuantity + q
      /\ fo.symbol = o.symbol /\ fo.side = o.side /\ fo.type = o.type /\ fo.price = o.price
      /\ fm.symbol = m.symbol /\ fm.side = m.side /\ fm.type = m.type /\ fm.price = m.price
  BY <1>1, <1>2, FilledOrder
<1> HIDE DEF fo, fm
<1>4. ~IsFilled(fm) => RestsProperly(fo.symbol, MakerSide(fo), fm)
  <2>1. /\ m.symbol = o.symbol /\ m.side = MakerSide(o) /\ m.type = "LIMIT"
    BY DEF RestsProperly
  <2>2. fm.quantity \in Nat /\ fm.filledQuantity \in Nat
    BY <1>3, OrderFields DEF IncomingOK
  <2>3. fm.filledQuantity # 0
    BY <1>2, <1>3, OrderFields
  <2> QED BY <1>3, <2>1, <2>2, <2>3
          DEF RestsProperly, MakerSide, IsFilled, RemainingQuantity, IncomingOK, StatusAt
<1>5. Crosses(fo, fm)
  BY <1>3 DEF Crosses
<1>6. \A price : WithinLimit(o, price) <=> WithinLimit(fo, price)
  BY <1>3 DEF WithinLimit
<1> QED BY <1>2, <1>3, <1>4, <1>5, <1>6 DEF fo, fm, IncomingOK

LEMMA PopKeepsInv ==
  ASSUME EngineInv, NEW t \in Threads, Pop(t) PROVE EngineInv'
<1> USE DEF bookVars, localVars
<1> DEFINE o == incoming[t]
           m == maker[t]
           q == MatchQuantity(o, m)
<1>1. /\ pc[t] = "pop" /\ ~IsEmpty(MakerHeap(o))
      /\ incoming' = [incoming EXCEPT ![t] = Fill(o, q)]
      /\ maker' = [maker EXCEPT ![t] = Fill(m, q)]
      /\ matchQty' = [matchQty EXCEPT ![t] = q]
      /\ pc' = [pc EXCEPT ![t] = IF IsFilled(Fill(m, q)) THEN "loadId" ELSE "refill"]
      /\ UNCHANGED <<lastTradedPrice, tradeIdCounter, orderCount, tradeId, executed, untraded>>
  BY DEF Pop, Goto
<1>2. /\ IncomingOK(o) /\ RemainingQuantity(o) > 0 /\ m \in Order
      /\ RestsProperly(o.symbol, MakerSide(o), m) /\ Crosses(o, m)
      /\ \A i \in DOMAIN executed[t] : WithinLimit(o, executed[t][i].price)
  BY <1>1 DEF EngineInv, CallOK
<1>3. BookTypeOK' /\ RestingOrdersAreLive'
  <2>1. /\ o.symbol \in Symbols /\ MakerSide(o) \in OrderSides /\ IsHeap(MakerHeap(o))
        /\ \A p \in Elements(MakerHeap(o)) : RestsProperly(o.symbol, MakerSide(o), p)
    BY <1>1, CallFacts
  <2>2. PICK heap \in Popped(MakerHeap(o)) : SetHeap(o.symbol, MakerSide(o), heap)
    BY DEF Pop
  <2>3. IsHeap(heap) /\ Elements(heap) \subseteq Elements(MakerHeap(o))
    BY <1>1, <2>1, <2>2, WithoutHeap DEF Popped, IsHeap
  <2> QED BY <2>1, <2>2, <2>3, SetHeapKeepsBooks DEF EngineInv, TypeOK
<1>4. /\ q \in Nat /\ IncomingOK(Fill(o, q)) /\ Fill(m, q) \in Order
      /\ ~IsFilled(Fill(m, q)) =>
           RestsProperly(Fill(o, q).symbol, MakerSide(Fill(o, q)), Fill(m, q))
      /\ Crosses(Fill(o, q), Fill(m, q))
      /\ \A price : WithinLimit(o, price) <=> WithinLimit(Fill(o, q), price)
  BY <1>2, MatchFacts
<1>5. TypeOK'
  <2>1. Fill(o, q) \in Order
    BY <1>4 DEF IncomingOK
  <2> HIDE DEF q
  <2> QED BY <1>1, <1>3, <1>4, <2>1 DEF EngineInv, TypeOK, Labels
<1>6. ASSUME NEW u \in Threads PROVE CallOK(u)'
  <2>1. CASE u # t
    BY <2>1, <1>1, OtherCalls DEF EngineInv, TypeOK
  <2>2. CASE u = t
    <3> DEFINE fo == Fill(o, q)
               fm == Fill(m, q)
    <3>1. /\ incoming'[t] = fo /\ maker'[t] = fm /\ executed' = executed
          /\ pc'[t] = IF IsFilled(fm) THEN "loadId" ELSE "refill"
      BY <1>1 DEF EngineInv, TypeOK
    <3> HIDE DEF fo, fm
    <3>2. /\ IncomingOK(fo) /\ fm \in Order /\ Crosses(fo, fm)
          /\ pc'[t] = "refill" => RestsProperly(fo.symbol, MakerSide(fo), fm)
          /\ \A i \in DOMAIN executed[t] : WithinLimit(fo, executed[t][i].price)
      BY <1>2, <1>4, <3>1 DEF fo, fm
    <3>3. /\ IncomingOK(incoming[t])' /\ Crosses(incoming[t], maker[t])'
          /\ pc'[t] = "refill" =>
               RestsProperly(incoming[t].symbol, MakerSide(incoming[t]), maker[t])'
          /\ (\A i \in DOMAIN executed[t] : WithinLimit(incoming[t], executed[t][i].price))'
      BY <3>1, <3>2 DEF IncomingOK, StatusAt, Crosses, RestsProperly, MakerSide,
                        RemainingQuantity, WithinLimit
    <3> QED BY <2>2, <3>1, <3>2, <3>3 DEF CallOK
  <2> QED BY <2>1, <2>2
<1> QED BY <1>3, <1>5, <1>6 DEF EngineInv

LEMMA RefillKeepsInv ==
  ASSUME EngineInv, NEW t \in Threads, Refill(t) PROVE EngineInv'
<1> USE DEF bookVars, localVars
<1> DEFINE o == incoming[t]
           m == maker[t]
<1>1. /\ pc[t] = "refill" /\ pc' = [pc EXCEPT ![t] = "loadId"]
      /\ SetHeap(o.symbol, MakerSide(o), Pushed(MakerHeap(o), m))
      /\ UNCHANGED <<lastTradedPrice, tradeIdCounter, orderCount, localVars, untraded>>
  BY DEF Refill, Goto
<1>2. m \in Order /\ RestsProperly(o.symbol, MakerSide(o), m)
  BY <1>1 DEF EngineInv, CallOK
<1>3. BookTypeOK' /\ RestingOrdersAreLive'
  <2>1. /\ o.symbol \in Symbols /\ MakerSide(o) \in OrderSides /\ IsHeap(MakerHeap(o))
        /\ \A p \in Elements(MakerHeap(o)) : RestsProperly(o.symbol, MakerSide(o), p)
    BY <1>1, CallFacts
  <2>2. /\ IsHeap(Pushed(MakerHeap(o), m))
        /\ \A p \in Elements(Pushed(MakerHeap(o), m)) : RestsProperly(o.symbol, MakerSide(o), p)
    BY <1>2, <2>1, PushedHeap
  <2> QED BY <1>1, <2>1, <2>2, SetHeapKeepsBooks DEF EngineInv, TypeOK
<1>4. TypeOK'
  BY <1>1, <1>3 DEF EngineInv, TypeOK, Labels
<1>5. ASSUME NEW u \in Threads PROVE CallOK(u)'
  <2>1. CASE u # t
    BY <2>1, <1>1, OtherCalls DEF EngineInv, TypeOK
  <2>2. CASE u = t
    <3>1. pc'[t] = "loadId" /\ incoming' = incoming /\ maker' = maker /\ executed' = executed
      BY <1>1 DEF EngineInv, TypeOK
    <3> QED BY <2>2, <1>1, <3>1 DEF EngineInv, CallOK, IncomingOK, StatusAt, Crosses, WithinLimit
  <2> QED BY <2>1, <2>2
<1> QED BY <1>3, <1>4, <1>5 DEF EngineInv

LEMMA LoadTradeIdKeepsInv ==
  ASSUME EngineInv, NEW t \in Threads, LoadTradeId(t) PROVE EngineInv'
<1> USE DEF bookVars, localVars
<1>1. BookTypeOK' /\ RestingOrdersAreLive'
  BY SameBooks DEF LoadTradeId
<1>2. TypeOK'
  BY <1>1 DEF EngineInv, TypeOK, LoadTradeId, Goto, Labels
<1>3. ASSUME NEW u \in Threads PROVE CallOK(u)'
  <2>1. CASE u # t
    BY <2>1, OtherCalls DEF EngineInv, TypeOK, LoadTradeId, Goto
  <2>2. CASE u = t
    <3>1. /\ pc[t] = "loadId" /\ pc'[t] = "trade"
          /\ incoming' = incoming /\ maker' = maker /\ executed' = executed
      BY DEF EngineInv, TypeOK, LoadTradeId, Goto
    <3> QED BY <2>2, <3>1 DEF EngineInv, CallOK, IncomingOK, StatusAt, Crosses, WithinLimit
  <2> QED BY <2>1, <2>2
<1> QED BY <1>1, <1>2, <1>3 DEF EngineInv

LEMMA ExecuteTradeKeepsInv ==
  ASSUME EngineInv, NEW t \in Threads, ExecuteTrade(t) PROVE EngineInv'
<1> USE DEF bookVars, localVars
<1> DEFINE o == incoming[t]
           m == maker[t]
           q == matchQty[t]
           trade == TradeOf(tradeId[t], o, m, q)
<1>1. /\ pc[t] = "trade" /\ pc' = [pc EXCEPT ![t] = "test"]
      /\ tradeIdCounter' = tradeId[t]
      /\ executed' = [executed EXCEPT ![t] = Append(executed[t], trade)]
      /\ lastTradedPrice' = [lastTradedPrice EXCEPT ![o.symbol] = m.price]
      /\ maker' = [maker EXCEPT ![t] = NoOrder]
      /\ matchQty' = [matchQty EXCEPT ![t] = 0]
      /\ tradeId' = [tradeId EXCEPT ![t] = 0]
      /\ UNCHANGED <<book, orderCount, incoming>>
  BY DEF ExecuteTrade, Goto
<1>2. BookTypeOK' /\ RestingOrdersAreLive'
  BY <1>1, SameBooks
<1>3. /\ IncomingOK(o) /\ m \in Order /\ Crosses(o, m)
      /\ \A i \in DOMAIN executed[t] : WithinLimit(o, executed[t][i].price)
  BY <1>1 DEF EngineInv, CallOK
<1>4. o \in Order
  BY <1>3 DEF IncomingOK
<1>5. q \in Nat /\ tradeId[t] \in Nat /\ executed[t] \in Seq(Trade)
  BY DEF EngineInv, TypeOK
<1>6. trade \in Trade /\ trade.price = m.price
  <2>1. /\ m.orderId \in OrderIds /\ m.userId \in Users /\ m.price \in Prices
        /\ o.orderId \in OrderIds /\ o.userId \in Users /\ o.symbol \in Symbols
    BY <1>3, <1>4, OrderFields
  <2> QED BY <2>1, <1>5 DEF TradeOf, Trade
<1>7. WithinLimit(o, m.price)
  BY <1>3 DEF Crosses, WithinLimit
<1> HIDE DEF trade
<1>8. TypeOK'
  <2>1. untraded' \in [OrderIds -> Int]
    <3>1. /\ untraded' = [untraded EXCEPT ![o.orderId] = @ - q, ![m.orderId] = @ - q]
          /\ untraded \in [OrderIds -> Int]
      BY DEF ExecuteTrade, EngineInv, TypeOK
    <3>2. o.orderId \in OrderIds /\ m.orderId \in OrderIds
      BY <1>3, <1>4, OrderFields
    <3> QED BY <3>1, <3>2, <1>5
  <2>2. executed' \in [Threads -> Seq(Trade)]
    BY <1>1, <1>5, <1>6 DEF EngineInv, TypeOK
  <2>3. lastTradedPrice' \in [Symbols -> Prices]
    BY <1>1, <1>3, OrderFields DEF EngineInv, TypeOK
  <2> QED BY <1>1, <1>2, <1>5, <2>1, <2>2, <2>3 DEF EngineInv, TypeOK, Labels
<1>9. ASSUME NEW u \in Threads PROVE CallOK(u)'
  <2>1. CASE u # t
    BY <2>1, <1>1, OtherCalls DEF EngineInv, TypeOK
  <2>2. CASE u = t
    <3>1. /\ pc'[t] = "test" /\ incoming' = incoming
          /\ executed'[t] = Append(executed[t], trade)
      BY <1>1 DEF EngineInv, TypeOK
    <3>2. \A i \in DOMAIN executed'[t] : WithinLimit(o, executed'[t][i].price)
      BY <3>1, <1>3, <1>5, <1>6, <1>7
    <3>3. /\ IncomingOK(incoming[t])'
          /\ (\A i \in DOMAIN executed[t] : WithinLimit(incoming[t], executed[t][i].price))'
      BY <3>1, <3>2, <1>3 DEF IncomingOK, StatusAt, WithinLimit
    <3> QED BY <2>2, <3>1, <3>3 DEF CallOK
  <2> QED BY <2>1, <2>2
<1> QED BY <1>2, <1>8, <1>9 DEF EngineInv

(* A limit order rests with what its fills have left.                      *)
LEMMA RestKeepsInv ==
  ASSUME EngineInv, NEW t \in Threads, Rest(t) PROVE EngineInv'
<1> USE DEF bookVars, localVars
<1> DEFINE o == incoming[t]
<1>1. /\ pc[t] = "rest" /\ pc' = [pc EXCEPT ![t] = "done"]
      /\ UNCHANGED <<lastTradedPrice, tradeIdCounter, orderCount, localVars, untraded>>
  BY DEF Rest, Goto
<1>2. /\ IncomingOK(o) /\ o \in Order /\ o.symbol \in Symbols /\ o.side \in OrderSides
  BY <1>1, CallFacts
<1>3. BookTypeOK' /\ RestingOrdersAreLive'
  <2>1. CASE ~MayRest(o)
    BY <2>1, SameBooks DEF Rest
  <2>2. CASE MayRest(o)
    <3> DEFINE heap == book[o.symbol][o.side]
    <3>1. SetHeap(o.symbol, o.side, Pushed(heap, o))
      BY <2>2 DEF Rest
    <3>2. IsHeap(heap) /\ \A p \in Elements(heap) : RestsProperly(o.symbol, o.side, p)
      BY <1>2 DEF EngineInv, TypeOK, BookTypeOK, RestingOrdersAreLive
    <3>3. RestsProperly(o.symbol, o.side, o)
      BY <1>2, <2>2, OrderFields
         DEF MayRest, RestsProperly, IncomingOK, StatusAt, RemainingQuantity
    <3>4. /\ IsHeap(Pushed(heap, o))
          /\ \A p \in Elements(Pushed(heap, o)) : RestsProperly(o.symbol, o.side, p)
      BY <1>2, <3>2, <3>3, PushedHeap
    <3> QED BY <1>2, <3>1, <3>4, SetHeapKeepsBooks DEF EngineInv, TypeOK
  <2> QED BY <2>1, <2>2
<1>4. TypeOK'
  BY <1>1, <1>3 DEF EngineInv, TypeOK, Labels
<1>5. ASSUME NEW u \in Threads PROVE CallOK(u)'
  <2>1. CASE u # t
    BY <2>1, <1>1, OtherCalls DEF EngineInv, TypeOK
  <2>2. CASE u = t
    <3>1. pc'[t] = "done" /\ incoming' = incoming /\ executed' = executed
      BY <1>1 DEF EngineInv, TypeOK
    <3> QED BY <2>2, <1>1, <3>1 DEF EngineInv, CallOK, IncomingOK, StatusAt, WithinLimit
  <2> QED BY <2>1, <2>2
<1> QED BY <1>3, <1>4, <1>5 DEF EngineInv

LEMMA ReturnKeepsInv ==
  ASSUME EngineInv, NEW t \in Threads, Return(t) PROVE EngineInv'
<1> USE DEF bookVars, localVars
<1>1. BookTypeOK' /\ RestingOrdersAreLive'
  BY SameBooks DEF Return
<1>2. TypeOK'
  <2>1. executed' \in [Threads -> Seq(Trade)]
    BY DEF EngineInv, TypeOK, Return, ClearLocals
  <2> QED BY <1>1, <2>1 DEF EngineInv, TypeOK, Return, ClearLocals, Goto, Labels
<1>3. ASSUME NEW u \in Threads PROVE CallOK(u)'
  <2>1. CASE u # t
    BY <2>1, OtherCalls DEF EngineInv, TypeOK, Return, ClearLocals, Goto
  <2>2. CASE u = t
    <3>1. pc'[t] = "idle" /\ executed'[t] = <<>>
      BY DEF EngineInv, TypeOK, Return, ClearLocals, Goto
    <3> QED BY <2>2, <3>1 DEF CallOK
  <2> QED BY <2>1, <2>2
<1> QED BY <1>1, <1>2, <1>3 DEF EngineInv

LEMMA CancelOrderKeepsInv ==
  ASSUME EngineInv, NEW t \in Threads, NEW s \in Symbols, NEW id \in OrderIds,
         CancelOrder(t, s, id)
  PROVE  EngineInv'
<1> USE DEF bookVars, localVars
<1>1. PICK side \in OrderSides : \E o \in Elements(book[s][side]) :
        \E heap \in Without(book[s][side], o) : SetHeap(s, side, heap)
  <2> DEFINE Copies(d) == Found(book[s][d], {o \in Elements(book[s][d]) : o.orderId = id})
             side == IF Copies("BUY") # {} THEN "BUY" ELSE "SELL"
  <2>1. side \in OrderSides
    BY DEF OrderSides
  <2>2. Copies(side) \subseteq Elements(book[s][side])
    BY DEF Found
  <2> QED BY <2>1, <2>2 DEF CancelOrder
<1>2. PICK o \in Elements(book[s][side]) :
        \E heap \in Without(book[s][side], o) : SetHeap(s, side, heap)
  BY <1>1
<1>3. PICK heap \in Without(book[s][side], o) : SetHeap(s, side, heap)
  BY <1>2
<1>4. BookTypeOK' /\ RestingOrdersAreLive'
  <2>1. /\ IsHeap(book[s][side])
        /\ \A p \in Elements(book[s][side]) : RestsProperly(s, side, p)
    BY DEF EngineInv, TypeOK, BookTypeOK, RestingOrdersAreLive
  <2>2. IsHeap(heap) /\ Elements(heap) \subseteq Elements(book[s][side])
    BY <2>1, <1>3, WithoutHeap
  <2> QED BY <1>3, <2>1, <2>2, SetHeapKeepsBooks DEF EngineInv, TypeOK
<1>5. TypeOK'
  BY <1>4 DEF EngineInv, TypeOK, CancelOrder
<1>6. \A u \in Threads : CallOK(u)'
  BY OtherCalls DEF EngineInv, CancelOrder
<1> QED BY <1>4, <1>5, <1>6 DEF EngineInv

LEMMA NextKeepsInv == EngineInv /\ [EngineNext]_vars => EngineInv'
<1> SUFFICES ASSUME EngineInv, EngineNext PROVE EngineInv'
  BY StutterKeepsInv
<1>1. PICK t \in Threads :
        \/ \E request \in OrderRequest, now \in Timestamps : ProcessOrder(t, request, now)
        \/ Advance(t)
        \/ Return(t)
        \/ \E s \in Symbols, id \in OrderIds : CancelOrder(t, s, id)
  BY DEF EngineNext
<1>2. CASE Advance(t)
  BY <1>2, TestKeepsInv, ThrowKeepsInv, PeekKeepsInv, PopKeepsInv, RefillKeepsInv,
     LoadTradeIdKeepsInv, ExecuteTradeKeepsInv, RestKeepsInv DEF Advance
<1> QED BY <1>1, <1>2, ProcessOrderKeepsInv, ReturnKeepsInv, CancelOrderKeepsInv

THEOREM EngineInvariant == EngineSpec => []EngineInv
  BY InitEngineInv, NextKeepsInv, PTL DEF EngineSpec

-----------------------------------------------------------------------------
(* The theorems, for any number of threads in processOrder at once.        *)

(* Every variable keeps its type: no call leaves a copy of an order with a *)
(* negative filled quantity or a heap whose top is not in it.              *)
THEOREM EngineTypeOK == EngineSpec => []TypeOK
<1>1. EngineInv => TypeOK
  BY DEF EngineInv
<1> QED BY <1>1, EngineInvariant, PTL

(* However calls interleave, an order waiting in a book is a limit order   *)
(* of that book with shares left to trade and the status its fills give.   *)
THEOREM EngineRestingOrdersAreLive == EngineSpec => []RestingOrdersAreLive
<1>1. EngineInv => RestingOrdersAreLive
  BY DEF EngineInv
<1> QED BY <1>1, EngineInvariant, PTL

(* However calls interleave, no limit order trades beyond its limit.       *)
THEOREM EngineTradesWithinLimit == EngineSpec => []TradesWithinLimit
<1>1. EngineInv => TradesWithinLimit
  BY DEF EngineInv, CallOK, TradesWithinLimit
<1> QED BY <1>1, EngineInvariant, PTL

-----------------------------------------------------------------------------
(* The sum over a list of trades.                                          *)

QuantityOf(trades) == [k \in 1 .. Len(trades) |-> trades[k].quantity]

LEMMA SharesTradedIsTotal ==
  ASSUME NEW trades \in Seq(Trade)
  PROVE  \E f : /\ IsTotal(f, Len(trades), QuantityOf(trades))
                /\ SharesTraded(trades) = f[Len(trades)]
                /\ SharesTraded(trades) \in Int
<1> DEFINE n == Len(trades)
           q == QuantityOf(trades)
           Sums(f) == f = [k \in 0 .. n |-> IF k = 0 THEN 0 ELSE f[k - 1] + trades[k].quantity]
           Total == CHOOSE f : Sums(f)
<1>1. n \in Nat /\ \A k \in 1 .. n : q[k] = trades[k].quantity /\ q[k] \in Int
  <2>1. n \in Nat /\ \A k \in 1 .. n : trades[k] \in Trade
    OBVIOUS
  <2>2. \A trade \in Trade : trade.quantity \in Int
    BY DEF Trade
  <2> QED BY <2>1, <2>2 DEF QuantityOf
<1>2. ASSUME NEW f PROVE Sums(f) <=> IsTotal(f, n, q)
  BY <1>1 DEF IsTotal
<1>3. PICK g : IsTotal(g, n, q) /\ \A k \in 0 .. n : g[k] \in Int
  <2> HIDE DEF q, n
  <2> QED BY <1>1, TotalExists
<1>4. Sums(g)
  BY <1>2, <1>3
<1>5. Sums(Total)
  <2> HIDE DEF Sums
  <2> QED BY <1>4
<1>6. IsTotal(Total, n, q)
  BY <1>2, <1>5
<1>7. g[n] = Total[n]
  <2> HIDE DEF q, n, Total
  <2> QED BY <1>1, <1>3, <1>6, TotalIsUnique
<1>8. SharesTraded(trades) = Total[n]
  BY DEF SharesTraded
<1>9. Total[n] \in Int
  BY <1>1, <1>3, <1>7
<1> HIDE DEF Total, Sums
<1> QED BY <1>6, <1>8, <1>9

LEMMA NoSharesTraded == SharesTraded(<<>>) = 0
<1>1. <<>> \in Seq(Trade) /\ Len(<<>>) = 0
  OBVIOUS
<1>2. PICK f : IsTotal(f, 0, QuantityOf(<<>>)) /\ SharesTraded(<<>>) = f[0]
  BY <1>1, SharesTradedIsTotal
<1> QED BY <1>2 DEF IsTotal

LEMMA OneMoreTrade ==
  ASSUME NEW trades \in Seq(Trade), NEW trade \in Trade
  PROVE  /\ SharesTraded(Append(trades, trade)) = SharesTraded(trades) + trade.quantity
         /\ SharesTraded(trades) \in Int
<1> DEFINE n == Len(trades)
           more == Append(trades, trade)
<1>1. /\ more \in Seq(Trade) /\ Len(more) = n + 1 /\ n \in Nat
      /\ \A k \in 1 .. n : more[k] = trades[k]
      /\ more[n + 1] = trade
  OBVIOUS
<1>2. PICK f : /\ IsTotal(f, n, QuantityOf(trades)) /\ SharesTraded(trades) = f[n]
               /\ SharesTraded(trades) \in Int
  BY SharesTradedIsTotal
<1>3. PICK g : IsTotal(g, n + 1, QuantityOf(more)) /\ SharesTraded(more) = g[n + 1]
  BY <1>1, SharesTradedIsTotal
<1>4. g[n] = f[n]
  <2> DEFINE a == n + 1
             q == QuantityOf(more)
             r == QuantityOf(trades)
  <2>1. \A k \in 1 .. n : r[k] = q[k]
    BY <1>1 DEF QuantityOf
  <2>2. a \in Nat /\ n \in 0 .. a /\ IsTotal(g, a, q) /\ IsTotal(f, n, r)
    BY <1>1, <1>2, <1>3
  <2> HIDE DEF n, a, q, r
  <2> QED BY <2>1, <2>2, TotalIsUnique
<1>5. g[n + 1] = g[n] + trade.quantity
  <2>1. /\ n + 1 \in 0 .. n + 1 /\ n + 1 # 0 /\ (n + 1) - 1 = n
        /\ QuantityOf(more)[n + 1] = trade.quantity
    BY <1>1 DEF QuantityOf
  <2> HIDE DEF n, more
  <2> QED BY <1>3, <2>1 DEF IsTotal
<1> QED BY <1>2, <1>3, <1>4, <1>5

-----------------------------------------------------------------------------
(* What a call reports, for any number of threads.                         *)

(* A match is counted once: in matchQty from the fill to the trade, in     *)
(* executed from the trade on.                                             *)
AddsUp(t) ==
  /\ pc[t] # "idle" => SharesTraded(executed[t]) + matchQty[t] = incoming[t].filledQuantity
  /\ pc[t] \in {"idle", "test", "peek", "pop", "rest", "done"} => matchQty[t] = 0

ReportInv == EngineInv /\ \A t \in Threads : AddsUp(t)

LEMMA OtherReports ==
  ASSUME NEW u, AddsUp(u), pc'[u] = pc[u], incoming'[u] = incoming[u],
         matchQty'[u] = matchQty[u], executed'[u] = executed[u]
  PROVE  AddsUp(u)'
  BY DEF AddsUp

(* Steps that neither fill nor report.                                     *)
LEMMA QuietStepsAddUp ==
  ASSUME ReportInv, NEW t \in Threads,
         Test(t) \/ Throw(t) \/ Peek(t) \/ Refill(t) \/ LoadTradeId(t) \/ Rest(t)
  PROVE  \A u \in Threads : AddsUp(u)'
<1>1. /\ incoming' = incoming /\ matchQty' = matchQty /\ executed' = executed
      /\ pc[t] \in {"test", "peek", "pop", "refill", "loadId", "rest"}
      /\ \/ /\ pc[t] \in {"test", "peek"}
            /\ \E l \in {"peek", "rest", "pop", "threw"} : pc' = [pc EXCEPT ![t] = l]
         \/ pc[t] = "rest" /\ pc' = [pc EXCEPT ![t] = "done"]
         \/ \E l \in {"loadId", "trade", "threw"} : pc' = [pc EXCEPT ![t] = l]
  BY DEF Test, Throw, Peek, LeaveLoop, Refill, LoadTradeId, Rest, Goto, localVars
<1>2. pc \in [Threads -> Labels]
  BY DEF ReportInv, EngineInv, TypeOK
<1>3. /\ pc'[t] # "idle"
      /\ pc'[t] \in {"test", "peek", "pop", "rest", "done"} => pc[t] \in {"test", "peek", "rest"}
      /\ \A u \in Threads : u # t => pc'[u] = pc[u]
  BY <1>1, <1>2
<1>4. AddsUp(t)'
  BY <1>1, <1>3 DEF ReportInv, AddsUp
<1> QED BY <1>1, <1>3, <1>4, OtherReports DEF ReportInv

LEMMA ProcessOrderAddsUp ==
  ASSUME ReportInv, NEW t \in Threads, NEW request \in OrderRequest, NEW now \in Timestamps,
         ProcessOrder(t, request, now)
  PROVE  \A u \in Threads : AddsUp(u)'
<1> DEFINE o == incoming'[t]
<1>1. /\ pc[t] = "idle" /\ pc' = [pc EXCEPT ![t] = "test"]
      /\ incoming' = [incoming EXCEPT ![t] = o] /\ o.filledQuantity = 0
      /\ UNCHANGED <<matchQty, executed>>
  BY DEF ProcessOrder, Goto, ReportInv, EngineInv, TypeOK
<1>2. /\ pc'[t] = "test" /\ incoming'[t].filledQuantity = 0
      /\ \A u \in Threads : u # t => pc'[u] = pc[u] /\ incoming'[u] = incoming[u]
  BY <1>1 DEF ReportInv, EngineInv, TypeOK
<1>3. executed[t] = <<>> /\ matchQty[t] = 0
  BY <1>1 DEF ReportInv, EngineInv, CallOK, AddsUp
<1>4. AddsUp(t)'
  BY <1>1, <1>2, <1>3, NoSharesTraded DEF AddsUp
<1> QED BY <1>1, <1>2, <1>4, OtherReports DEF ReportInv

(* The fill takes as many shares as it announces.                          *)
LEMMA PopAddsUp ==
  ASSUME ReportInv, NEW t \in Threads, Pop(t) PROVE \A u \in Threads : AddsUp(u)'
<1> DEFINE o == incoming[t]
           m == maker[t]
           q == MatchQuantity(o, m)
<1>1. /\ pc[t] = "pop" /\ \E l \in {"loadId", "refill"} : pc' = [pc EXCEPT ![t] = l]
      /\ incoming' = [incoming EXCEPT ![t] = Fill(o, q)]
      /\ matchQty' = [matchQty EXCEPT ![t] = q]
      /\ executed' = executed
  BY DEF Pop, Goto
<1>2. /\ pc'[t] \in {"loadId", "refill"} /\ incoming'[t] = Fill(o, q) /\ matchQty'[t] = q
      /\ \A u \in Threads : u # t =>
           /\ pc'[u] = pc[u] /\ incoming'[u] = incoming[u] /\ matchQty'[u] = matchQty[u]
  BY <1>1 DEF ReportInv, EngineInv, TypeOK
<1>3. /\ o \in Order /\ RemainingQuantity(o) > 0 /\ m \in Order /\ RemainingQuantity(m) > 0
  BY <1>1, CallFacts DEF ReportInv, EngineInv, CallOK, RestsProperly
<1>4. q \in Nat /\ Fill(o, q).filledQuantity = o.filledQuantity + q
  BY <1>3, MatchedQuantity, FilledOrder
<1>5. SharesTraded(executed[t]) = o.filledQuantity
  <2>1. SharesTraded(executed[t]) + 0 = o.filledQuantity
    BY <1>1 DEF ReportInv, AddsUp
  <2>2. SharesTraded(executed[t]) \in Int
    BY SharesTradedIsTotal DEF ReportInv, EngineInv, TypeOK
  <2> QED BY <2>1, <2>2
<1> HIDE DEF q
<1>6. AddsUp(t)'
  BY <1>1, <1>2, <1>4, <1>5 DEF AddsUp
<1> QED BY <1>1, <1>2, <1>6, OtherReports DEF ReportInv

(* The trade reports what the fill took.                                   *)
LEMMA ExecuteTradeAddsUp ==
  ASSUME ReportInv, NEW t \in Threads, ExecuteTrade(t) PROVE \A u \in Threads : AddsUp(u)'
<1> DEFINE o == incoming[t]
           m == maker[t]
           q == matchQty[t]
           trade == TradeOf(tradeId[t], o, m, q)
<1>1. /\ pc[t] = "trade" /\ pc' = [pc EXCEPT ![t] = "test"]
      /\ executed' = [executed EXCEPT ![t] = Append(executed[t], trade)]
      /\ matchQty' = [matchQty EXCEPT ![t] = 0]
      /\ incoming' = incoming
  BY DEF ExecuteTrade, Goto
<1>2. trade \in Trade /\ trade.quantity = q /\ q \in Nat /\ executed[t] \in Seq(Trade)
  <2>1. o \in Order /\ m \in Order
    BY <1>1 DEF ReportInv, EngineInv, CallOK, IncomingOK
  <2>2. /\ m.orderId \in OrderIds /\ m.userId \in Users /\ m.price \in Prices
        /\ o.orderId \in OrderIds /\ o.userId \in Users /\ o.symbol \in Symbols
    BY <2>1, OrderFields
  <2>3. q \in Nat /\ tradeId[t] \in Nat /\ executed[t] \in Seq(Trade)
    BY DEF ReportInv, EngineInv, TypeOK
  <2> QED BY <2>2, <2>3 DEF TradeOf, Trade
<1> HIDE DEF trade
<1>3. /\ pc'[t] = "test" /\ executed'[t] = Append(executed[t], trade) /\ matchQty'[t] = 0
      /\ \A u \in Threads : u # t =>
           /\ pc'[u] = pc[u] /\ executed'[u] = executed[u] /\ matchQty'[u] = matchQty[u]
  BY <1>1 DEF ReportInv, EngineInv, TypeOK
<1>4. SharesTraded(executed'[t]) = o.filledQuantity
  <2>1. SharesTraded(executed[t]) + q = o.filledQuantity
    BY <1>1 DEF ReportInv, AddsUp
  <2> QED BY <1>2, <1>3, <2>1, OneMoreTrade
<1>5. o.filledQuantity \in Nat
  BY <1>1, CallFacts, OrderFields DEF ReportInv
<1>6. AddsUp(t)'
  BY <1>1, <1>3, <1>4, <1>5 DEF AddsUp
<1> QED BY <1>1, <1>3, <1>6, OtherReports DEF ReportInv

LEMMA ReturnAddsUp ==
  ASSUME ReportInv, NEW t \in Threads, Return(t) PROVE \A u \in Threads : AddsUp(u)'
<1>1. /\ pc'[t] = "idle" /\ matchQty'[t] = 0
      /\ \A u \in Threads : u # t =>
           /\ pc'[u] = pc[u] /\ incoming'[u] = incoming[u]
           /\ matchQty'[u] = matchQty[u] /\ executed'[u] = executed[u]
  BY DEF Return, ClearLocals, Goto, ReportInv, EngineInv, TypeOK
<1>2. AddsUp(t)'
  BY <1>1 DEF AddsUp
<1> QED BY <1>1, <1>2, OtherReports DEF ReportInv

LEMMA ReportInvIsInductive ==
  /\ EngineInit => ReportInv
  /\ ReportInv /\ [EngineNext]_vars => ReportInv'
<1>1. EngineInit => ReportInv
  <2>1. ASSUME EngineInit PROVE \A t \in Threads : AddsUp(t)
    BY <2>1 DEF EngineInit, AddsUp
  <2> QED BY <2>1, InitEngineInv DEF ReportInv
<1>2. ASSUME ReportInv, [EngineNext]_vars PROVE ReportInv'
  <2>1. EngineInv'
    BY <1>2, NextKeepsInv DEF ReportInv
  <2>2. \A u \in Threads : AddsUp(u)'
    <3>1. CASE UNCHANGED vars
      BY <1>2, <3>1, OtherReports DEF ReportInv, vars, localVars
    <3>2. CASE EngineNext
      <4>1. PICK t \in Threads :
              \/ \E request \in OrderRequest, now \in Timestamps : ProcessOrder(t, request, now)
              \/ Advance(t)
              \/ Return(t)
              \/ \E s \in Symbols, id \in OrderIds : CancelOrder(t, s, id)
        BY <3>2 DEF EngineNext
      <4>2. CASE Advance(t)
        BY <1>2, <4>2, QuietStepsAddUp, PopAddsUp, ExecuteTradeAddsUp DEF Advance
      <4>3. CASE \E s \in Symbols, id \in OrderIds : CancelOrder(t, s, id)
        <5>1. UNCHANGED <<pc, incoming, matchQty, executed>>
          BY <4>3 DEF CancelOrder, localVars
        <5> QED BY <1>2, <5>1, OtherReports DEF ReportInv
      <4> QED BY <1>2, <4>1, <4>2, <4>3, ProcessOrderAddsUp, ReturnAddsUp
    <3> QED BY <1>2, <3>1, <3>2
  <2> QED BY <2>1, <2>2 DEF ReportInv
<1> QED BY <1>1, <1>2

(* However calls interleave, the trades a call has reported and the match  *)
(* it is about to report are the shares it has filled of its own order,    *)
(* and those are no more than were ordered.                                *)
THEOREM EngineTradesAddUp == EngineSpec => []TradesAddUp
<1>1. ReportInv => TradesAddUp
  BY DEF ReportInv, AddsUp, EngineInv, CallOK, IncomingOK, TradesAddUp
<1> QED BY <1>1, ReportInvIsInductive, PTL DEF EngineSpec

-----------------------------------------------------------------------------
(* Steps of the engine on its books: the heaps they take from and put in.  *)

TopsAreBest == \A s \in Symbols, side \in OrderSides : TopIsBest(book[s][side])

(* This step takes one copy of x out of a side of a book.                  *)
Taken(s, side, x) ==
  /\ x \in Elements(book[s][side])
  /\ \E heap \in Without(book[s][side], x) : SetHeap(s, side, heap)

(* This step puts x into a side of a book.                                 *)
Put(s, side, x) == SetHeap(s, side, Pushed(book[s][side], x))

LEMMA OrderTimes == ASSUME NEW o \in Order PROVE o.timestamp \in Nat
<1>1. o.timestamp \in Timestamps
  BY DEF Order
<1>2. \A n \in Timestamps : n \in Nat
  BY EngineAssumption
<1> QED BY <1>1, <1>2

(* Among the orders of one side, RanksBelow is a strict weak order.        *)
LEMMA RankIsWeakOrder ==
  ASSUME NEW x \in Order, NEW y \in Order, NEW z \in Order,
         x.side = y.side, y.side = z.side
  PROVE  /\ ~OrderRanksBelow(x, x)
         /\ ~OrderRanksBelow(x, z) /\ ~OrderRanksBelow(z, y) => ~OrderRanksBelow(x, y)
         /\ OrderRanksBelow(x, y) => ~OrderRanksBelow(y, x)
<1>1. /\ x.price \in Nat /\ y.price \in Nat /\ z.price \in Nat
      /\ x.side \in {"BUY", "SELL"}
  BY OrderFields DEF OrderSides
<1>2. x.timestamp \in Nat /\ y.timestamp \in Nat /\ z.timestamp \in Nat
  BY OrderTimes
<1> QED BY <1>1, <1>2 DEF OrderRanksBelow, BuyOrderComparator, SellOrderComparator

(* A pushed order comes on top when it ranks above the old top, and not    *)
(* otherwise, so the top stays best.                                       *)
LEMMA PushedTopIsBest ==
  ASSUME NEW heap, IsHeap(heap), TopIsBest(heap), NEW o \in Order,
         \A p \in Elements(heap) : p.side = o.side
  PROVE  TopIsBest(Pushed(heap, o))
<1> DEFINE new == Pushed(heap, o)
<1>1. Elements(new) = Elements(heap) \cup {o}
  BY PushedHeap
<1>2. \A p \in Elements(heap) : p \in Order
  BY DEF IsHeap
<1>3. CASE IsEmpty(heap)
  <2>1. new.top = o
    BY <1>3 DEF Pushed
  <2>2. Elements(heap) = {}
    BY <1>3 DEF IsEmpty, Elements, EmptyBag, SetToBag, BagToSet
  <2>3. ~OrderRanksBelow(o, o)
    BY RankIsWeakOrder
  <2> QED BY <1>1, <2>1, <2>2, <2>3 DEF TopIsBest
<1>4. CASE ~IsEmpty(heap) /\ OrderRanksBelow(heap.top, o)
  <2>1. new.top = o /\ heap.top \in Elements(heap)
    BY <1>4 DEF Pushed, IsHeap
  <2>2. \A p \in Elements(heap) : ~OrderRanksBelow(heap.top, p)
    BY DEF TopIsBest
  <2>3. ASSUME NEW p \in Elements(heap) \cup {o} PROVE ~OrderRanksBelow(o, p)
    <3>1. CASE p = o
      BY <3>1, RankIsWeakOrder
    <3>2. CASE p \in Elements(heap)
      <4>1. ~OrderRanksBelow(heap.top, p) /\ ~OrderRanksBelow(o, heap.top)
        BY <1>2, <1>4, <2>1, <2>2, <3>2, RankIsWeakOrder
      <4>2. heap.top.side = o.side /\ p.side = o.side
        BY <2>1, <3>2
      <4> QED BY <1>2, <2>1, <3>2, <4>1, <4>2, RankIsWeakOrder
    <3> QED BY <3>1, <3>2
  <2> QED BY <1>1, <2>1, <2>3 DEF TopIsBest
<1>5. CASE ~IsEmpty(heap) /\ ~OrderRanksBelow(heap.top, o)
  <2>1. new.top = heap.top
    BY <1>5 DEF Pushed
  <2> QED BY <1>1, <1>5, <2>1 DEF TopIsBest
<1> QED BY <1>3, <1>4, <1>5

LEMMA WithoutTopIsBest ==
  ASSUME NEW heap, IsHeap(heap), TopIsBest(heap), NEW x \in Elements(heap),
         NEW new \in Without(heap, x)
  PROVE  /\ TopIsBest(new)
         /\ new.items = heap.items (-) SetToBag({x})
<1> DEFINE rest == heap.items (-) SetToBag({x})
<1>1. CASE x = heap.top
  <2>1. new \in Sifted(rest)
    BY <1>1 DEF Without
  <2> HIDE DEF rest
  <2>2. CASE rest = EmptyBag
    <3>1. new = EmptyQueue
      BY <2>1, <2>2 DEF Sifted
    <3> QED BY <3>1, <2>2, EmptyQueueIsHeap DEF TopIsBest, EmptyQueue, rest
  <2>3. CASE rest # EmptyBag
    <3>1. PICK y \in Best(rest) : new = [items |-> rest, top |-> y]
      BY <2>1, <2>3 DEF Sifted
    <3> QED BY <3>1 DEF TopIsBest, Best, Elements, rest
  <2> QED BY <2>2, <2>3
<1>2. CASE x # heap.top
  <2>1. new = [heap EXCEPT !.items = rest]
    BY <1>2 DEF Without
  <2>2. new = [items |-> rest, top |-> heap.top]
    <3> HIDE DEF rest
    <3> QED BY <2>1 DEF IsHeap
  <2>3. Elements(new) \subseteq Elements(heap)
    BY WithoutHeap
  <2> QED BY <2>2, <2>3 DEF TopIsBest
<1> QED BY <1>1, <1>2

LEMMA SetHeapSets ==
  ASSUME BookTypeOK, NEW s \in Symbols, NEW side \in OrderSides, NEW new, SetHeap(s, side, new)
  PROVE  \A r \in Symbols, d \in OrderSides :
           book'[r][d] = IF r = s /\ d = side THEN new ELSE book[r][d]
<1>1. book = [r \in Symbols |-> [d \in OrderSides |-> book[r][d]]]
  BY DEF BookTypeOK
<1>2. book' = [book EXCEPT ![s] = [book[s] EXCEPT ![side] = new]]
  BY DEF SetHeap
<1> QED BY <1>1, <1>2

LEMMA SetHeapElsewhere ==
  ASSUME NEW s, NEW side, NEW new, SetHeap(s, side, new), BookTypeOK, NEW r \in Symbols, r # s
  PROVE  book'[r] = book[r]
<1>1. book' = [book EXCEPT ![s] = [book[s] EXCEPT ![side] = new]]
  BY DEF SetHeap
<1>2. book = [q \in Symbols |-> book[q]]
  BY DEF BookTypeOK
<1> QED BY <1>1, <1>2

(* What is left of a side when x was taken.                                *)
LEMMA WhatIsTaken ==
  ASSUME EngineInv, TopsAreBest, NEW s \in Symbols, NEW side \in OrderSides, NEW x,
         Taken(s, side, x)
  PROVE  /\ TopsAreBest'
         /\ \A r \in Symbols, d \in OrderSides :
              r # s \/ d # side => book'[r][d] = book[r][d]
         /\ Elements(book'[s][side]) \subseteq Elements(book[s][side])
         /\ book'[s][side].items = book[s][side].items (-) SetToBag({x})
         /\ book[s][side].items[x] = 1 =>
              /\ Elements(book'[s][side]) = Elements(book[s][side]) \ {x}
              /\ \A e \in Elements(book'[s][side]) :
                   book'[s][side].items[e] = book[s][side].items[e]
<1> DEFINE heap == book[s][side]
<1>1. BookTypeOK /\ IsHeap(heap) /\ TopIsBest(heap) /\ x \in Elements(heap)
  BY DEF EngineInv, TypeOK, BookTypeOK, TopsAreBest, Taken
<1>2. PICK new \in Without(heap, x) : SetHeap(s, side, new)
  BY DEF Taken
<1>3. \A r \in Symbols, d \in OrderSides :
        book'[r][d] = IF r = s /\ d = side THEN new ELSE book[r][d]
  BY <1>1, <1>2, SetHeapSets
<1>4. /\ TopIsBest(new) /\ new.items = heap.items (-) SetToBag({x})
      /\ Elements(new) \subseteq Elements(heap)
  BY <1>1, <1>2, WithoutTopIsBest, WithoutHeap
<1>5. TopsAreBest'
  BY <1>3, <1>4 DEF TopsAreBest, TopIsBest, Elements
<1>6. book'[s][side] = new
  BY <1>3
<1>7. ASSUME heap.items[x] = 1
      PROVE  /\ Elements(new) = Elements(heap) \ {x}
             /\ \A e \in Elements(new) : new.items[e] = heap.items[e]
  <2> DEFINE B == [e \in DOMAIN heap.items |->
                     IF e \in {x} THEN heap.items[e] - 1 ELSE heap.items[e]]
  <2>1. heap.items \in [DOMAIN heap.items -> {n \in Nat : n > 0}] /\ Elements(heap) = DOMAIN heap.items
    BY <1>1 DEF IsHeap, IsABag, Elements, BagToSet
  <2>2. new.items = [e \in {d \in DOMAIN B : B[d] > 0} |-> B[e]]
    BY <1>4 DEF (-), SetToBag
  <2>3. /\ B[x] = 0
        /\ \A e \in DOMAIN heap.items : e # x => B[e] = heap.items[e] /\ B[e] > 0
    BY <1>1, <1>7, <2>1
  <2>4. DOMAIN B = DOMAIN heap.items
    OBVIOUS
  <2> HIDE DEF B
  <2>5. {d \in DOMAIN B : B[d] > 0} = (DOMAIN heap.items) \ {x}
    BY <2>3, <2>4
  <2>6. DOMAIN new.items = (DOMAIN heap.items) \ {x}
    BY <2>2, <2>5
  <2> QED BY <2>1, <2>2, <2>3, <2>5, <2>6 DEF Elements, BagToSet
<1> QED BY <1>3, <1>4, <1>5, <1>6, <1>7

(* What a side holds when x was put there.                                 *)
LEMMA WhatIsPut ==
  ASSUME EngineInv, TopsAreBest, NEW s \in Symbols, NEW side \in OrderSides, NEW x \in Order,
         x.side = side, Put(s, side, x)
  PROVE  /\ TopsAreBest'
         /\ \A r \in Symbols, d \in OrderSides :
              r # s \/ d # side => book'[r][d] = book[r][d]
         /\ Elements(book'[s][side]) = Elements(book[s][side]) \cup {x}
         /\ x \notin Elements(book[s][side]) =>
              \A e \in Elements(book'[s][side]) :
                book'[s][side].items[e] = IF e = x THEN 1 ELSE book[s][side].items[e]
<1> DEFINE heap == book[s][side]
           new == Pushed(heap, x)
<1>1. /\ BookTypeOK /\ IsHeap(heap) /\ TopIsBest(heap)
      /\ \A p \in Elements(heap) : p.side = x.side
  BY DEF EngineInv, TypeOK, BookTypeOK, TopsAreBest, RestingOrdersAreLive, RestsProperly
<1>2. \A r \in Symbols, d \in OrderSides :
        book'[r][d] = IF r = s /\ d = side THEN new ELSE book[r][d]
  BY <1>1, SetHeapSets DEF Put
<1>3. TopIsBest(new) /\ Elements(new) = Elements(heap) \cup {x}
  BY <1>1, PushedHeap, PushedTopIsBest
<1>4. x \notin Elements(heap) =>
        \A e \in Elements(new) : new.items[e] = IF e = x THEN 1 ELSE heap.items[e]
  <2>1. /\ heap.items \in [DOMAIN heap.items -> {n \in Nat : n > 0}]
        /\ Elements(heap) = DOMAIN heap.items
    BY <1>1 DEF IsHeap, IsABag, Elements, BagToSet
  <2>2. new.items = heap.items (+) SetToBag({x})
    BY DEF Pushed
  <2>3. new.items = [e \in (DOMAIN heap.items) \cup {x} |->
                       (IF e \in DOMAIN heap.items THEN heap.items[e] ELSE 0)
                     + (IF e \in {x} THEN 1 ELSE 0)]
    BY <2>2 DEF (+), SetToBag
  <2> HIDE DEF new
  <2> QED BY <1>3, <2>1, <2>3
<1> HIDE DEF new
<1>5. TopsAreBest'
  BY <1>2, <1>3 DEF TopsAreBest, TopIsBest, Elements
<1>6. book'[s][side] = new
  BY <1>2
<1> QED BY <1>2, <1>3, <1>4, <1>5, <1>6

(* A call uses the books in three places.                                  *)
LEMMA PopTakes ==
  ASSUME EngineInv, NEW t \in Threads, Pop(t)
  PROVE  Taken(incoming[t].symbol, MakerSide(incoming[t]), MakerHeap(incoming[t]).top)
<1>1. pc[t] = "pop" /\ ~IsEmpty(MakerHeap(incoming[t]))
  BY DEF Pop
<1>2. IsHeap(MakerHeap(incoming[t]))
  BY <1>1, CallFacts
<1>3. MakerHeap(incoming[t]).top \in Elements(MakerHeap(incoming[t]))
  BY <1>1, <1>2 DEF IsHeap
<1> QED BY <1>3 DEF Pop, Popped, Taken, MakerHeap

LEMMA RefillPuts ==
  ASSUME EngineInv, NEW t \in Threads, Refill(t)
  PROVE  /\ Put(incoming[t].symbol, MakerSide(incoming[t]), maker[t])
         /\ maker[t] \in Order /\ maker[t].side = MakerSide(incoming[t])
         /\ maker[t].symbol = incoming[t].symbol
  BY DEF Refill, Put, MakerHeap, EngineInv, CallOK, RestsProperly

LEMMA RestPuts ==
  ASSUME EngineInv, NEW t \in Threads, Rest(t)
  PROVE  IF MayRest(incoming[t])
         THEN Put(incoming[t].symbol, incoming[t].side, incoming[t])
         ELSE book' = book
  BY DEF Rest, Put

LEMMA CancelTakes ==
  ASSUME EngineInv, NEW t \in Threads, NEW s \in Symbols, NEW id \in OrderIds,
         CancelOrder(t, s, id)
  PROVE  \E side \in OrderSides :
           \E x \in Elements(book[s][side]) : x.orderId = id /\ Taken(s, side, x)
<1> DEFINE Copies(d) == Found(book[s][d], {o \in Elements(book[s][d]) : o.orderId = id})
           side == IF Copies("BUY") # {} THEN "BUY" ELSE "SELL"
<1>1. side \in OrderSides
  BY DEF OrderSides
<1>2. PICK x \in Copies(side) : \E heap \in Without(book[s][side], x) : SetHeap(s, side, heap)
  BY DEF CancelOrder
<1>3. x \in Elements(book[s][side]) /\ x.orderId = id
  <2>1. Copies(side) \subseteq {o \in Elements(book[s][side]) : o.orderId = id}
    BY DEF Found
  <2> QED BY <2>1
<1> QED BY <1>1, <1>2, <1>3 DEF Taken

(* What a step of call t changes, and what it leaves to others.            *)
LEMMA AdvanceFrame ==
  ASSUME EngineInv, NEW t \in Threads, Advance(t)
  PROVE  /\ orderCount' = orderCount
         /\ \A u \in Threads : u # t =>
              /\ pc'[u] = pc[u] /\ incoming'[u] = incoming[u]
              /\ maker'[u] = maker[u] /\ matchQty'[u] = matchQty[u]
         /\ incoming'[t].symbol = incoming[t].symbol
         /\ incoming'[t].orderId = incoming[t].orderId
         /\ incoming[t].symbol \in Symbols
         /\ pc[t] \in {"test", "peek", "pop", "refill", "loadId", "trade", "rest"}
         /\ pc'[t] # "idle"
         /\ \A r \in Symbols : r # incoming[t].symbol => book'[r] = book[r]
         /\ pc[t] \in {"pop", "refill", "rest"} \/ book' = book
         /\ pc[t] = "trade" \/ untraded' = untraded
<1> USE DEF bookVars, localVars
<1>1. BookTypeOK /\ pc \in [Threads -> Labels] /\ incoming \in [Threads -> Order \cup {NoOrder}]
      /\ maker \in [Threads -> Order \cup {NoOrder}] /\ matchQty \in [Threads -> Nat]
  BY DEF EngineInv, TypeOK
<1>2. CASE Test(t) \/ Throw(t) \/ LoadTradeId(t)
  <2>1. pc[t] \in {"test", "peek", "pop", "loadId"}
    BY <1>2 DEF Test, Throw, LoadTradeId
  <2>2. incoming[t].symbol \in Symbols
    BY <2>1, CallFacts
  <2> QED BY <1>1, <1>2, <2>1, <2>2 DEF Test, Throw, LoadTradeId, Goto
<1>3. CASE Peek(t)
  <2>1. incoming[t].symbol \in Symbols
    BY <1>3, CallFacts DEF Peek
  <2> QED BY <1>1, <1>3, <2>1 DEF Peek, LeaveLoop, Goto
<1>4. CASE Pop(t)
  <2> DEFINE o == incoming[t]
             q == MatchQuantity(o, maker[t])
  <2>1. /\ o \in Order /\ RemainingQuantity(o) > 0 /\ maker[t] \in Order
        /\ RemainingQuantity(maker[t]) > 0 /\ o.symbol \in Symbols
    BY <1>4, CallFacts DEF Pop, EngineInv, CallOK, RestsProperly
  <2>2. q \in Nat /\ q > 0 /\ q <= RemainingQuantity(o)
    BY <2>1, MatchedQuantity
  <2>3. Fill(o, q).symbol = o.symbol /\ Fill(o, q).orderId = o.orderId
    <3> HIDE DEF q
    <3> QED BY <2>1, <2>2, FilledOrder
  <2>4. incoming' = [incoming EXCEPT ![t] = Fill(o, q)]
    BY <1>4 DEF Pop
  <2>5. PICK heap : SetHeap(o.symbol, MakerSide(o), heap)
    BY <1>4 DEF Pop
  <2>6. \A r \in Symbols : r # o.symbol => book'[r] = book[r]
    BY <1>1, <2>5, SetHeapElsewhere
  <2> HIDE DEF q
  <2> QED BY <1>1, <1>4, <2>1, <2>3, <2>4, <2>6 DEF Pop, Goto
<1>5. CASE Refill(t)
  <2>1. incoming[t].symbol \in Symbols
    BY <1>5, CallFacts DEF Refill
  <2>2. \A r \in Symbols : r # incoming[t].symbol => book'[r] = book[r]
    BY <1>1, <1>5, SetHeapElsewhere DEF Refill
  <2> QED BY <1>1, <1>5, <2>1, <2>2 DEF Refill, Goto
<1>6. CASE ExecuteTrade(t)
  <2>1. incoming[t].symbol \in Symbols
    BY <1>6, CallFacts DEF ExecuteTrade
  <2> QED BY <1>1, <1>6, <2>1 DEF ExecuteTrade, Goto
<1>7. CASE Rest(t)
  <2>1. incoming[t].symbol \in Symbols
    BY <1>7, CallFacts DEF Rest
  <2>2. \A r \in Symbols : r # incoming[t].symbol => book'[r] = book[r]
    BY <1>1, <1>7, SetHeapElsewhere DEF Rest
  <2> QED BY <1>1, <1>7, <2>1, <2>2 DEF Rest, Goto
<1> QED BY <1>2, <1>3, <1>4, <1>5, <1>6, <1>7 DEF Advance

-----------------------------------------------------------------------------
(* The copies of an order, for any number of threads.                      *)

(* A copy differs from the order as it was submitted in its fills only.    *)
CopyOf(c, count, orders) ==
  /\ c.orderId \in 1 .. count
  /\ c = [orders[c.orderId] EXCEPT !.filledQuantity = c.filledQuantity, !.status = c.status]

IsCopy(c) == CopyOf(c, orderCount, submitted)

SubmittedOK ==
  /\ submitted \in [OrderIds -> Order \cup {NoOrder}]
  /\ \A id \in 1 .. orderCount : submitted[id] \in Order /\ submitted[id].orderId = id

(* A call's incoming order and its maker are copies, and of one book.      *)
HoldsCopies(t) ==
  /\ pc[t] # "idle" => IsCopy(incoming[t])
  /\ pc[t] \in {"pop", "refill", "loadId", "trade"} =>
       IsCopy(maker[t]) /\ maker[t].symbol = incoming[t].symbol

BooksHoldCopies ==
  \A s \in Symbols, side \in OrderSides : \A c \in Elements(book[s][side]) : IsCopy(c)

CopiesOK ==
  /\ SubmittedOK
  /\ BooksHoldCopies
  /\ \A t \in Threads : HoldsCopies(t)

(* Two calls in one book are both disturbed, and their book is known.      *)
MeetingsOK ==
  /\ disturbed \subseteq Threads /\ met \subseteq Symbols
  /\ \A t \in disturbed : pc[t] # "idle"
  /\ \A s \in Symbols : \A t \in Callers(s) :
       /\ t \in disturbed => s \in met
       /\ \A u \in Callers(s) : u # t => t \in disturbed

(* What a call that has met no other may rely on.                          *)
FindsItsMaker(t) ==
  /\ pc[t] # "threw"
  /\ pc[t] \in {"peek", "pop"} => ~IsEmpty(MakerHeap(incoming[t]))
  /\ pc[t] = "pop" => MakerHeap(incoming[t]).top = maker[t]

HistoryBase ==
  /\ ReportInv
  /\ TopsAreBest
  /\ CopiesOK
  /\ MeetingsOK
  /\ \A t \in Threads \ disturbed : FindsItsMaker(t)

LEMMA HistoryStepsAreEngineSteps == [HistoryNext]_historyVars => [EngineNext]_vars
  BY DEF HistoryNext, EngineNext, ProcessOrderH, AdvanceH, ReturnH, CancelOrderH, historyVars

LEMMA CopyFields ==
  ASSUME NEW c, NEW count, NEW orders, CopyOf(c, count, orders), orders[c.orderId] \in Order
  PROVE  LET o == orders[c.orderId]
         IN  /\ c.orderId \in 1 .. count
             /\ o.symbol = c.symbol /\ o.side = c.side /\ o.type = c.type
             /\ o.quantity = c.quantity
  BY DEF CopyOf, Order

LEMMA FilledCopy ==
  ASSUME NEW c \in Order, NEW q, NEW count, NEW orders, CopyOf(c, count, orders),
         orders[c.orderId] \in Order
  PROVE  CopyOf(Fill(c, q), count, orders)
<1> DEFINE o == orders[c.orderId]
           n == c.filledQuantity + q
           st == StatusAt(c, n)
<1>1. Fill(c, q) = [c EXCEPT !.filledQuantity = n, !.status = st]
  BY DEF Fill
<1>2. c = [o EXCEPT !.filledQuantity = c.filledQuantity, !.status = c.status]
      /\ c.orderId \in 1 .. count
  BY DEF CopyOf
<1> HIDE DEF n, st
<1>3. /\ Fill(c, q).orderId = c.orderId
      /\ Fill(c, q).filledQuantity = n /\ Fill(c, q).status = st
  BY <1>1 DEF Order
<1>4. Fill(c, q) = [o EXCEPT !.filledQuantity = n, !.status = st]
  BY <1>1, <1>2 DEF Order
<1> QED BY <1>2, <1>3, <1>4 DEF CopyOf

LEMMA CopiesOfOthers ==
  ASSUME NEW u, HoldsCopies(u), pc'[u] = pc[u], incoming'[u] = incoming[u],
         maker'[u] = maker[u], orderCount' = orderCount, submitted' = submitted
  PROVE  HoldsCopies(u)'
  BY DEF HoldsCopies, IsCopy

LEMMA SameSubmitted ==
  ASSUME SubmittedOK, orderCount' = orderCount, submitted' = submitted PROVE SubmittedOK'
  BY DEF SubmittedOK

LEMMA TakenCopies ==
  ASSUME EngineInv, TopsAreBest, BooksHoldCopies, orderCount' = orderCount,
         submitted' = submitted,
         NEW s \in Symbols, NEW side \in OrderSides, NEW x, Taken(s, side, x)
  PROVE  BooksHoldCopies'
<1>1. /\ \A r \in Symbols, d \in OrderSides : r # s \/ d # side => book'[r][d] = book[r][d]
      /\ Elements(book'[s][side]) \subseteq Elements(book[s][side])
  BY WhatIsTaken
<1>2. ASSUME NEW r \in Symbols, NEW d \in OrderSides
      PROVE  Elements(book'[r][d]) \subseteq Elements(book[r][d])
  BY <1>1
<1>3. \A r \in Symbols, d \in OrderSides : Elements(book[r][d])' = Elements(book'[r][d])
  BY DEF Elements
<1> QED BY <1>2, <1>3 DEF BooksHoldCopies, IsCopy

LEMMA PutCopies ==
  ASSUME EngineInv, TopsAreBest, BooksHoldCopies, orderCount' = orderCount,
         submitted' = submitted,
         NEW s \in Symbols, NEW side \in OrderSides, NEW x \in Order, x.side = side,
         IsCopy(x), Put(s, side, x)
  PROVE  BooksHoldCopies'
<1>1. /\ \A r \in Symbols, d \in OrderSides : r # s \/ d # side => book'[r][d] = book[r][d]
      /\ Elements(book'[s][side]) = Elements(book[s][side]) \cup {x}
  BY WhatIsPut
<1>2. ASSUME NEW r \in Symbols, NEW d \in OrderSides
      PROVE  Elements(book'[r][d]) \subseteq Elements(book[r][d]) \cup {x}
  BY <1>1
<1>3. \A r \in Symbols, d \in OrderSides : Elements(book[r][d])' = Elements(book'[r][d])
  BY DEF Elements
<1> QED BY <1>2, <1>3 DEF BooksHoldCopies, IsCopy

(* The steps of a call, one by one.                                        *)
LEMMA AdvanceKeepsCopies ==
  ASSUME HistoryBase, NEW t \in Threads, AdvanceH(t) PROVE CopiesOK' /\ TopsAreBest'
<1>1. /\ EngineInv /\ TopsAreBest /\ SubmittedOK /\ BooksHoldCopies /\ HoldsCopies(t)
      /\ Advance(t) /\ submitted' = submitted
  BY DEF HistoryBase, ReportInv, CopiesOK, AdvanceH, history
<1>2. /\ orderCount' = orderCount
      /\ \A u \in Threads : u # t =>
           pc'[u] = pc[u] /\ incoming'[u] = incoming[u] /\ maker'[u] = maker[u]
      /\ incoming'[t].symbol = incoming[t].symbol /\ incoming[t].symbol \in Symbols
      /\ pc[t] \in {"test", "peek", "pop", "refill", "loadId", "trade", "rest"}
  BY <1>1, AdvanceFrame
<1> DEFINE o == incoming[t]
           m == maker[t]
<1>3. IsCopy(o) /\ o \in Order /\ o.side \in OrderSides /\ MakerSide(o) \in OrderSides
  BY <1>1, <1>2, CallFacts DEF HoldsCopies
<1>4. pc \in [Threads -> Labels] /\ incoming \in [Threads -> Order \cup {NoOrder}]
      /\ maker \in [Threads -> Order \cup {NoOrder}]
  BY <1>1 DEF EngineInv, TypeOK
<1>5. ASSUME book' = book PROVE TopsAreBest' /\ BooksHoldCopies'
  BY <1>1, <1>2, <1>5 DEF TopsAreBest, TopIsBest, BooksHoldCopies, IsCopy, Elements
<1>6. SubmittedOK'
  BY <1>1, <1>2, SameSubmitted
<1>7. \A u \in Threads : u # t => HoldsCopies(u)'
  BY <1>1, <1>2, CopiesOfOthers DEF HistoryBase, CopiesOK
<1>8. CASE Test(t) \/ Throw(t)
  <2>1. book' = book /\ incoming' = incoming
        /\ pc'[t] \in {"peek", "rest", "threw"}
    BY <1>4, <1>8 DEF Test, Throw, Goto, bookVars, localVars
  <2>2. HoldsCopies(t)'
    BY <1>1, <1>2, <1>3, <2>1 DEF HoldsCopies, IsCopy
  <2> QED BY <1>5, <1>6, <1>7, <2>1, <2>2 DEF CopiesOK
<1>9. CASE Peek(t)
  <2>1. /\ book' = book /\ incoming' = incoming
        /\ pc'[t] = "rest" \/ (pc'[t] = "pop" /\ maker'[t] = MakerHeap(o).top)
        /\ ~IsEmpty(MakerHeap(o))
    BY <1>4, <1>9 DEF Peek, LeaveLoop, Goto, bookVars
  <2>2. MakerHeap(o).top \in Elements(MakerHeap(o))
    BY <1>1, <1>2, <2>1, CallFacts DEF IsHeap
  <2>3. IsCopy(MakerHeap(o).top) /\ MakerHeap(o).top.symbol = o.symbol
    <3>1. RestsProperly(o.symbol, MakerSide(o), MakerHeap(o).top)
      BY <1>1, <1>2, <2>2, CallFacts
    <3> QED BY <1>1, <1>2, <1>3, <2>2, <3>1 DEF BooksHoldCopies, MakerHeap, RestsProperly
  <2>4. HoldsCopies(t)'
    BY <1>1, <1>2, <1>3, <2>1, <2>3 DEF HoldsCopies, IsCopy
  <2> QED BY <1>5, <1>6, <1>7, <2>1, <2>4 DEF CopiesOK
<1>10. CASE Pop(t)
  <2> DEFINE q == MatchQuantity(o, m)
  <2>1. /\ incoming'[t] = Fill(o, q) /\ maker'[t] = Fill(m, q) /\ pc[t] = "pop"
        /\ pc'[t] \in {"refill", "loadId"}
    BY <1>4, <1>10 DEF Pop, Goto
  <2>2. m \in Order /\ IsCopy(m) /\ m.symbol = o.symbol /\ RemainingQuantity(m) > 0
        /\ RemainingQuantity(o) > 0
    BY <1>1, <2>1 DEF HoldsCopies, EngineInv, CallOK, RestsProperly
  <2>3. q \in Nat /\ q > 0 /\ q <= RemainingQuantity(m)
    BY <1>3, <2>2, MatchedQuantity
  <2> HIDE DEF q
  <2>4. Fill(m, q).symbol = m.symbol
    BY <2>2, <2>3, FilledOrder
  <2>5. submitted[o.orderId] \in Order /\ submitted[m.orderId] \in Order
    BY <1>1, <1>3, <2>2 DEF SubmittedOK, IsCopy, CopyOf
  <2>6. IsCopy(Fill(o, q)) /\ IsCopy(Fill(m, q))
    BY <1>3, <2>2, <2>5, FilledCopy DEF IsCopy
  <2>7. HoldsCopies(t)'
    BY <1>1, <1>2, <2>1, <2>2, <2>4, <2>6 DEF HoldsCopies, IsCopy
  <2>8. Taken(o.symbol, MakerSide(o), MakerHeap(o).top)
    BY <1>1, <1>10, PopTakes
  <2>9. BooksHoldCopies' /\ TopsAreBest'
    BY <1>1, <1>2, <1>3, <2>8, TakenCopies, WhatIsTaken
  <2> QED BY <1>6, <1>7, <2>7, <2>9 DEF CopiesOK
<1>11. CASE Refill(t)
  <2>1. pc[t] = "refill" /\ pc'[t] = "loadId" /\ incoming' = incoming /\ maker' = maker
    BY <1>4, <1>11 DEF Refill, Goto, localVars
  <2>2. HoldsCopies(t)'
    BY <1>1, <1>2, <2>1 DEF HoldsCopies, IsCopy
  <2>3. IsCopy(m)
    BY <1>1, <2>1 DEF HoldsCopies
  <2>4. Put(o.symbol, MakerSide(o), m) /\ m \in Order /\ m.side = MakerSide(o)
    BY <1>1, <1>11, RefillPuts
  <2>5. BooksHoldCopies' /\ TopsAreBest'
    BY <1>1, <1>2, <1>3, <2>3, <2>4, PutCopies, WhatIsPut
  <2> QED BY <1>6, <1>7, <2>2, <2>5 DEF CopiesOK
<1>12. CASE LoadTradeId(t) \/ ExecuteTrade(t)
  <2>1. /\ book' = book /\ incoming' = incoming
        /\ \/ pc[t] = "loadId" /\ pc'[t] = "trade" /\ maker' = maker
           \/ pc'[t] = "test"
    BY <1>4, <1>12 DEF LoadTradeId, ExecuteTrade, Goto, bookVars
  <2>2. HoldsCopies(t)'
    BY <1>1, <1>2, <1>3, <2>1 DEF HoldsCopies, IsCopy
  <2> QED BY <1>5, <1>6, <1>7, <2>1, <2>2 DEF CopiesOK
<1>13. CASE Rest(t)
  <2>1. pc'[t] = "done" /\ incoming' = incoming
    BY <1>4, <1>13 DEF Rest, Goto, localVars
  <2>2. HoldsCopies(t)'
    BY <1>1, <1>2, <1>3, <2>1 DEF HoldsCopies, IsCopy
  <2>3. book' = book \/ Put(o.symbol, o.side, o)
    BY <1>1, <1>13, RestPuts
  <2>4. BooksHoldCopies' /\ TopsAreBest'
    BY <1>1, <1>2, <1>3, <1>5, <2>3, PutCopies, WhatIsPut
  <2> QED BY <1>6, <1>7, <2>2, <2>4 DEF CopiesOK
<1> QED BY <1>1, <1>8, <1>9, <1>10, <1>11, <1>12, <1>13 DEF Advance

(* A new order is its own first copy.                                      *)
LEMMA ProcessOrderKeepsCopies ==
  ASSUME HistoryBase, NEW t \in Threads, NEW request \in OrderRequest, NEW now \in Timestamps,
         ProcessOrderH(t, request, now), ReportInv'
  PROVE  CopiesOK' /\ TopsAreBest'
<1> DEFINE id == orderCount + 1
           o == incoming'[t]
<1>1. /\ EngineInv /\ SubmittedOK /\ BooksHoldCopies /\ TopsAreBest
      /\ book' = book /\ maker' = maker /\ orderCount' = id /\ orderCount \in Nat /\ id \in OrderIds
      /\ submitted' = [submitted EXCEPT ![id] = o]
      /\ pc'[t] = "test" /\ o.orderId = id /\ o.filledQuantity = 0 /\ o.status = "PENDING"
      /\ \A u \in Threads : u # t => pc'[u] = pc[u] /\ incoming'[u] = incoming[u]
  BY EngineAssumption
     DEF HistoryBase, ReportInv, CopiesOK, EngineInv, TypeOK, ProcessOrderH, ProcessOrder, Goto,
         bookVars, OrderIds
<1>2. o \in Order
  <2>1. IncomingOK(incoming[t])'
    BY <1>1 DEF ReportInv, EngineInv, CallOK
  <2> QED BY <2>1 DEF IncomingOK
<1>3. submitted \in [OrderIds -> Order \cup {NoOrder}]
  BY <1>1 DEF SubmittedOK
<1> HIDE DEF o
<1>4. submitted'[id] = o /\ \A i \in 1 .. orderCount : submitted'[i] = submitted[i]
  BY <1>1, <1>3 DEF OrderIds
<1>5. SubmittedOK'
  BY <1>1, <1>2, <1>3, <1>4 DEF SubmittedOK, OrderIds
<1>6. ASSUME NEW c, IsCopy(c) PROVE CopyOf(c, orderCount', submitted')
  <2>1. /\ c.orderId \in 1 .. orderCount
        /\ c = [submitted[c.orderId] EXCEPT !.filledQuantity = c.filledQuantity,
                                            !.status = c.status]
    BY <1>6 DEF IsCopy, CopyOf
  <2>2. c.orderId \in 1 .. orderCount' /\ submitted'[c.orderId] = submitted[c.orderId]
    BY <1>1, <1>4, <2>1
  <2> QED BY <2>1, <2>2 DEF CopyOf
<1>7. CopyOf(o, orderCount', submitted')
  <2>1. o = [o EXCEPT !.filledQuantity = o.filledQuantity, !.status = o.status]
    BY <1>2 DEF Order
  <2>2. o.orderId \in 1 .. orderCount' /\ submitted'[o.orderId] = o
    BY <1>1, <1>4
  <2> QED BY <2>1, <2>2 DEF CopyOf
<1>8. BooksHoldCopies' /\ TopsAreBest'
  BY <1>1, <1>6 DEF BooksHoldCopies, IsCopy, TopsAreBest, TopIsBest, Elements
<1>9. ASSUME NEW u \in Threads PROVE HoldsCopies(u)'
  <2>1. CASE u = t
    BY <1>1, <1>7, <2>1 DEF HoldsCopies, IsCopy, o
  <2>2. CASE u # t
    <3>1. HoldsCopies(u)
      BY DEF HistoryBase, CopiesOK
    <3> QED BY <1>1, <1>6, <2>2, <3>1 DEF HoldsCopies, IsCopy
  <2> QED BY <2>1, <2>2
<1> QED BY <1>5, <1>8, <1>9 DEF CopiesOK

LEMMA EndKeepsCopies ==
  ASSUME HistoryBase, NEW t \in Threads,
         ReturnH(t) \/ \E s \in Symbols, id \in OrderIds : CancelOrderH(t, s, id)
  PROVE  CopiesOK' /\ TopsAreBest'
<1>1. /\ EngineInv /\ TopsAreBest /\ SubmittedOK /\ BooksHoldCopies
      /\ submitted' = submitted /\ orderCount' = orderCount
  BY DEF HistoryBase, ReportInv, CopiesOK, ReturnH, Return, CancelOrderH, CancelOrder
<1>2. SubmittedOK'
  BY <1>1, SameSubmitted
<1>3. CASE ReturnH(t)
  <2>1. /\ book' = book /\ pc'[t] = "idle"
        /\ \A u \in Threads : u # t =>
             pc'[u] = pc[u] /\ incoming'[u] = incoming[u] /\ maker'[u] = maker[u]
    BY <1>1, <1>3 DEF ReturnH, Return, ClearLocals, Goto, bookVars, EngineInv, TypeOK
  <2>2. HoldsCopies(t)'
    BY <2>1 DEF HoldsCopies
  <2>3. \A u \in Threads : u # t => HoldsCopies(u)'
    BY <1>1, <2>1, CopiesOfOthers DEF HistoryBase, CopiesOK
  <2>4. BooksHoldCopies' /\ TopsAreBest'
    BY <1>1, <2>1 DEF BooksHoldCopies, IsCopy, TopsAreBest, TopIsBest, Elements
  <2> QED BY <1>2, <2>2, <2>3, <2>4 DEF CopiesOK
<1>4. ASSUME NEW s \in Symbols, NEW id \in OrderIds, CancelOrderH(t, s, id)
      PROVE  CopiesOK' /\ TopsAreBest'
  <2>1. pc' = pc /\ incoming' = incoming /\ maker' = maker /\ CancelOrder(t, s, id)
    BY <1>4 DEF CancelOrderH, CancelOrder, localVars
  <2>2. PICK side \in OrderSides : \E x \in Elements(book[s][side]) : Taken(s, side, x)
    BY <1>1, <2>1, CancelTakes
  <2>5. PICK x \in Elements(book[s][side]) : Taken(s, side, x)
    BY <2>2
  <2>3. BooksHoldCopies' /\ TopsAreBest'
    BY <1>1, <2>5, TakenCopies, WhatIsTaken
  <2>4. \A u \in Threads : HoldsCopies(u)'
    BY <1>1, <2>1, CopiesOfOthers DEF HistoryBase, CopiesOK
  <2> QED BY <1>2, <2>3, <2>4 DEF CopiesOK
<1> QED BY <1>3, <1>4

-----------------------------------------------------------------------------
(* Where calls have met, and what a call that has met no other relies on.  *)

InsideLabels == {"test", "peek", "pop", "refill", "loadId", "trade", "rest"}

(* A call that has met no other is alone in its book, and one in a book    *)
(* where none ever met has met no other.                                   *)
LEMMA Alone ==
  ASSUME MeetingsOK, NEW s \in Symbols, NEW t \in Threads, Inside(t, s),
         t \notin disturbed \/ s \notin met
  PROVE  /\ t \notin disturbed
         /\ \A u \in Threads : Inside(u, s) => u = t
  BY DEF MeetingsOK, Callers

LEMMA OnlyBook ==
  ASSUME NEW t, NEW s, NEW r, Inside(t, s), Inside(t, r) PROVE s = r
  BY DEF Inside

(* A step of a call changes nothing for a call in another book.            *)
LEMMA OtherFindsItsMaker ==
  ASSUME NEW u, FindsItsMaker(u), pc'[u] = pc[u], incoming'[u] = incoming[u],
         maker'[u] = maker[u],
         pc[u] \in {"peek", "pop"} => book'[incoming[u].symbol] = book[incoming[u].symbol]
  PROVE  FindsItsMaker(u)'
  BY DEF FindsItsMaker, MakerHeap, MakerSide, IsEmpty

LEMMA AdvanceKeepsMeetings ==
  ASSUME HistoryBase, NEW t \in Threads, AdvanceH(t)
  PROVE  MeetingsOK' /\ \A u \in Threads \ disturbed' : FindsItsMaker(u)'
<1>1. EngineInv /\ MeetingsOK /\ Advance(t) /\ disturbed' = disturbed /\ met' = met
      /\ TypeOK
  BY DEF HistoryBase, ReportInv, AdvanceH, history, EngineInv
<1> DEFINE s == incoming[t].symbol
<1>2. /\ \A u \in Threads : u # t =>
           pc'[u] = pc[u] /\ incoming'[u] = incoming[u] /\ maker'[u] = maker[u]
      /\ incoming'[t].symbol = s /\ s \in Symbols
      /\ pc[t] \in InsideLabels /\ pc'[t] # "idle"
      /\ \A r \in Symbols : r # s => book'[r] = book[r]
  BY <1>1, AdvanceFrame DEF InsideLabels
<1>3. Inside(t, s)
  BY <1>2 DEF Inside, InsideLabels
<1>4. ASSUME NEW u \in Threads, NEW r \in Symbols PROVE Inside(u, r)' => Inside(u, r)
  BY <1>2 DEF Inside, InsideLabels
<1>5. MeetingsOK'
  BY <1>1, <1>2, <1>4 DEF MeetingsOK, Callers
<1>6. ASSUME NEW u \in Threads \ disturbed, u # t PROVE FindsItsMaker(u)'
  <2>1. FindsItsMaker(u) /\ (pc[u] # "idle" => incoming[u].symbol \in Symbols)
    BY <1>1, CallFacts DEF HistoryBase
  <2>2. ASSUME pc[u] \in {"peek", "pop"}
        PROVE  book'[incoming[u].symbol] = book[incoming[u].symbol]
    <3>1. Inside(u, incoming[u].symbol) /\ incoming[u].symbol \in Symbols
      BY <2>1, <2>2 DEF Inside
    <3>2. incoming[u].symbol # s
      BY <1>1, <1>3, <1>6, <3>1, Alone
    <3> QED BY <1>2, <3>1, <3>2
  <2> QED BY <1>2, <1>6, <2>1, <2>2, OtherFindsItsMaker
<1>7. ASSUME t \notin disturbed PROVE FindsItsMaker(t)'
  <2>1. FindsItsMaker(t)
    BY <1>7 DEF HistoryBase
  <2>2. CASE Test(t)
    <3>1. book' = book /\ incoming' = incoming
          /\ \/ pc'[t] = "peek" /\ MayMatch(incoming[t])
             \/ pc'[t] = "rest"
      BY <1>1, <2>2 DEF Test, Goto, bookVars, localVars, TypeOK
    <3> QED BY <3>1 DEF FindsItsMaker, MayMatch, MakerHeap, MakerSide, IsEmpty
  <2>3. ~Throw(t)
    BY <2>1 DEF Throw, FindsItsMaker
  <2>4. CASE Peek(t)
    <3>1. book' = book /\ incoming' = incoming /\ ~IsEmpty(MakerHeap(incoming[t]))
          /\ \/ pc'[t] = "pop" /\ maker'[t] = MakerHeap(incoming[t]).top
             \/ pc'[t] = "rest"
      BY <1>1, <2>4 DEF Peek, LeaveLoop, Goto, bookVars, TypeOK
    <3> QED BY <3>1 DEF FindsItsMaker, MakerHeap, MakerSide, IsEmpty
  <2>5. CASE Pop(t) \/ Refill(t) \/ LoadTradeId(t) \/ ExecuteTrade(t) \/ Rest(t)
    <3>1. pc'[t] \in {"refill", "loadId", "trade", "test", "done"}
      BY <1>1, <2>5 DEF Pop, Refill, LoadTradeId, ExecuteTrade, Rest, Goto, TypeOK
    <3> QED BY <3>1 DEF FindsItsMaker
  <2> QED BY <1>1, <2>2, <2>3, <2>4, <2>5 DEF Advance
<1> QED BY <1>1, <1>5, <1>6, <1>7

LEMMA ReturnKeepsMeetings ==
  ASSUME HistoryBase, NEW t \in Threads, ReturnH(t)
  PROVE  MeetingsOK' /\ \A u \in Threads \ disturbed' : FindsItsMaker(u)'
<1>1. /\ MeetingsOK /\ book' = book /\ pc'[t] = "idle"
      /\ disturbed' = disturbed \ {t} /\ met' = met
      /\ \A u \in Threads : u # t =>
           pc'[u] = pc[u] /\ incoming'[u] = incoming[u] /\ maker'[u] = maker[u]
  BY DEF HistoryBase, ReportInv, EngineInv, TypeOK, ReturnH, Return, ClearLocals, Goto, bookVars
<1>2. ASSUME NEW u \in Threads, NEW r \in Symbols PROVE Inside(u, r)' => Inside(u, r) /\ u # t
  BY <1>1 DEF Inside
<1>3. MeetingsOK'
  BY <1>1, <1>2 DEF MeetingsOK, Callers
<1>4. FindsItsMaker(t)'
  BY <1>1 DEF FindsItsMaker
<1>5. ASSUME NEW u \in Threads \ disturbed, u # t PROVE FindsItsMaker(u)'
  BY <1>1, <1>5, OtherFindsItsMaker DEF HistoryBase
<1> QED BY <1>1, <1>3, <1>4, <1>5

LEMMA ProcessOrderKeepsMeetings ==
  ASSUME HistoryBase, NEW t \in Threads, NEW request \in OrderRequest, NEW now \in Timestamps,
         ProcessOrderH(t, request, now)
  PROVE  MeetingsOK' /\ \A u \in Threads \ disturbed' : FindsItsMaker(u)'
<1> DEFINE s == request.symbol
           others == Callers(s)
<1>1. /\ MeetingsOK /\ book' = book /\ maker' = maker /\ s \in Symbols
      /\ pc[t] = "idle" /\ pc'[t] = "test" /\ incoming'[t].symbol = s
      /\ \A u \in Threads : u # t => pc'[u] = pc[u] /\ incoming'[u] = incoming[u]
  BY DEF HistoryBase, ReportInv, EngineInv, TypeOK, ProcessOrderH, ProcessOrder, Goto, bookVars,
         OrderRequest
<1>2. IF others = {} THEN disturbed' = disturbed /\ met' = met
      ELSE disturbed' = disturbed \cup others \cup {t} /\ met' = met \cup {s}
  BY DEF ProcessOrderH, Meet
<1>3. t \notin disturbed /\ t \notin others
  BY <1>1 DEF MeetingsOK, Callers, Inside
<1>4. ASSUME NEW r \in Symbols, NEW u \in Threads
      PROVE  Inside(u, r)' <=> (Inside(u, r) \/ (u = t /\ r = s))
  BY <1>1 DEF Inside
<1>5. /\ disturbed' \subseteq Threads /\ met' \subseteq Symbols
      /\ \A u \in disturbed' : pc'[u] # "idle"
  BY <1>1, <1>2 DEF MeetingsOK, Callers, Inside
<1>6. ASSUME NEW r \in Symbols, NEW u \in Threads, Inside(u, r)', u \in disturbed'
      PROVE  r \in met'
  <2>1. CASE u = t
    BY <1>1, <1>2, <1>3, <1>4, <1>6, <2>1 DEF Inside
  <2>2. CASE u # t /\ u \in disturbed
    BY <1>1, <1>2, <1>4, <1>6, <2>2 DEF MeetingsOK, Callers
  <2>3. CASE u # t /\ u \in others /\ others # {}
    <3>1. Inside(u, r) /\ Inside(u, s)
      BY <1>4, <1>6, <2>3 DEF Callers
    <3> QED BY <1>2, <2>3, <3>1, OnlyBook
  <2> QED BY <1>2, <1>6, <2>1, <2>2, <2>3
<1>7. ASSUME NEW r \in Symbols, NEW u \in Threads, NEW v \in Threads, Inside(u, r)',
             Inside(v, r)', u # v
      PROVE  u \in disturbed'
  <2>1. CASE Inside(u, r) /\ Inside(v, r)
    BY <1>1, <1>2, <1>7, <2>1 DEF MeetingsOK, Callers
  <2>2. CASE ~(Inside(u, r) /\ Inside(v, r))
    <3>1. r = s /\ (u = t \/ v = t) /\ (Inside(u, r) \/ Inside(v, r))
      BY <1>4, <1>7, <2>2
    <3>2. (u = t /\ v \in others) \/ (v = t /\ u \in others)
      BY <1>1, <1>3, <1>7, <3>1 DEF Callers, Inside
    <3> QED BY <1>2, <3>2
  <2> QED BY <2>1, <2>2
<1>8. MeetingsOK'
  BY <1>5, <1>6, <1>7 DEF MeetingsOK, Callers
<1>9. ASSUME NEW u \in Threads \ disturbed, u # t PROVE FindsItsMaker(u)'
  BY <1>1, <1>9, OtherFindsItsMaker DEF HistoryBase
<1>10. FindsItsMaker(t)'
  BY <1>1 DEF FindsItsMaker
<1> QED BY <1>2, <1>8, <1>9, <1>10

LEMMA CancelOrderKeepsMeetings ==
  ASSUME HistoryBase, NEW t \in Threads, NEW s \in Symbols, NEW id \in OrderIds,
         CancelOrderH(t, s, id)
  PROVE  MeetingsOK' /\ \A u \in Threads \ disturbed' : FindsItsMaker(u)'
<1>1. /\ EngineInv /\ MeetingsOK /\ CancelOrder(t, s, id)
      /\ pc' = pc /\ incoming' = incoming /\ maker' = maker
      /\ disturbed' = disturbed \cup Callers(s)
      /\ met' = IF Callers(s) = {} THEN met ELSE met \cup {s}
  BY DEF HistoryBase, ReportInv, CancelOrderH, CancelOrder, localVars, Meet
<1>2. PICK side \in OrderSides : \E x \in Elements(book[s][side]) : Taken(s, side, x)
  BY <1>1, CancelTakes
<1>3. PICK x \in Elements(book[s][side]) : Taken(s, side, x)
  BY <1>2
<1>4. \A r \in Symbols : r # s => book'[r] = book[r]
  BY <1>1, <1>3, SetHeapElsewhere DEF Taken, EngineInv, TypeOK
<1>5. \A u \in Threads, r \in Symbols : Inside(u, r)' <=> Inside(u, r)
  BY <1>1 DEF Inside
<1>6. ASSUME NEW r \in Symbols, NEW u \in Threads, Inside(u, r), u \in disturbed'
      PROVE  r \in met'
  <2>1. u \in Callers(s) => r = s
    BY <1>6, OnlyBook DEF Callers
  <2> QED BY <1>1, <1>6, <2>1 DEF MeetingsOK, Callers
<1>7. MeetingsOK'
  <2>1. disturbed' \subseteq Threads /\ met' \subseteq Symbols
        /\ \A u \in disturbed' : pc'[u] # "idle"
    BY <1>1 DEF MeetingsOK, Callers, Inside
  <2>2. ASSUME NEW r \in Symbols, NEW u \in Threads, NEW v \in Threads, Inside(u, r),
               Inside(v, r), u # v
        PROVE  u \in disturbed'
    BY <1>1, <2>2 DEF MeetingsOK, Callers
  <2> QED BY <1>5, <1>6, <2>1, <2>2 DEF MeetingsOK, Callers
<1>8. ASSUME NEW u \in Threads \ disturbed' PROVE FindsItsMaker(u)'
  <2>1. u \notin disturbed /\ ~Inside(u, s) /\ FindsItsMaker(u)
    BY <1>1, <1>8 DEF Callers, HistoryBase
  <2>2. pc[u] \in {"peek", "pop"} => incoming[u].symbol # s /\ incoming[u].symbol \in Symbols
    BY <1>1, <2>1, CallFacts DEF Inside
  <2> QED BY <1>1, <1>4, <2>1, <2>2, OtherFindsItsMaker
<1> QED BY <1>7, <1>8

LEMMA HistoryBaseIsInductive ==
  /\ HistoryInit => HistoryBase
  /\ HistoryBase /\ [HistoryNext]_historyVars => HistoryBase'
<1>1. ASSUME HistoryInit PROVE HistoryBase
  <2>1. EngineInit
    BY <1>1 DEF HistoryInit
  <2>2. \A s \in Symbols, side \in OrderSides : Elements(book[s][side]) = {}
    BY <2>1, EmptyQueueIsHeap DEF EngineInit
  <2>3. TopsAreBest /\ BooksHoldCopies
    BY <2>2 DEF TopsAreBest, TopIsBest, BooksHoldCopies
  <2>4. \A t \in Threads : pc[t] = "idle"
    BY <2>1 DEF EngineInit
  <2>5. \A t \in Threads : HoldsCopies(t) /\ FindsItsMaker(t)
    BY <2>4 DEF HoldsCopies, FindsItsMaker
  <2>6. SubmittedOK
    BY <1>1, <2>1 DEF SubmittedOK, HistoryInit, EngineInit
  <2>7. MeetingsOK
    BY <1>1, <2>4 DEF HistoryInit, MeetingsOK, Callers, Inside
  <2> QED BY <2>1, <2>3, <2>5, <2>6, <2>7, ReportInvIsInductive DEF HistoryBase, CopiesOK
<1>2. ASSUME HistoryBase, [HistoryNext]_historyVars PROVE HistoryBase'
  <2>1. ReportInv'
    BY <1>2, HistoryStepsAreEngineSteps, ReportInvIsInductive DEF HistoryBase
  <2> DEFINE Kept == CopiesOK' /\ TopsAreBest' /\ MeetingsOK'
                     /\ \A u \in Threads \ disturbed' : FindsItsMaker(u)'
  <2>2. CASE UNCHANGED historyVars
    <3>1. /\ book' = book /\ orderCount' = orderCount /\ pc' = pc /\ incoming' = incoming
          /\ maker' = maker /\ submitted' = submitted /\ disturbed' = disturbed /\ met' = met
      BY <2>2 DEF historyVars, history, vars, bookVars, localVars
    <3>2. TopsAreBest' /\ SubmittedOK' /\ BooksHoldCopies'
      BY <1>2, <3>1 DEF HistoryBase, CopiesOK, TopsAreBest, TopIsBest, Elements, SubmittedOK,
                        BooksHoldCopies, IsCopy
    <3>3. \A t \in Threads : HoldsCopies(t)'
      BY <1>2, <3>1, CopiesOfOthers DEF HistoryBase, CopiesOK
    <3>4. MeetingsOK'
      BY <1>2, <3>1 DEF HistoryBase, MeetingsOK, Callers, Inside
    <3>5. \A t \in Threads \ disturbed : FindsItsMaker(t)'
      BY <1>2, <3>1, OtherFindsItsMaker DEF HistoryBase
    <3> QED BY <2>1, <3>1, <3>2, <3>3, <3>4, <3>5 DEF HistoryBase, CopiesOK
  <2>3. CASE HistoryNext
    <3>1. PICK t \in Threads :
            \/ \E request \in OrderRequest, now \in Timestamps : ProcessOrderH(t, request, now)
            \/ AdvanceH(t)
            \/ ReturnH(t)
            \/ \E s \in Symbols, id \in OrderIds : CancelOrderH(t, s, id)
      BY <2>3 DEF HistoryNext
    <3>2. ASSUME NEW request \in OrderRequest, NEW now \in Timestamps,
                 ProcessOrderH(t, request, now)
          PROVE  Kept
      BY <1>2, <2>1, <3>2, ProcessOrderKeepsCopies, ProcessOrderKeepsMeetings
    <3>3. ASSUME AdvanceH(t) PROVE Kept
      BY <1>2, <3>3, AdvanceKeepsCopies, AdvanceKeepsMeetings
    <3>4. ASSUME ReturnH(t) PROVE Kept
      BY <1>2, <3>4, EndKeepsCopies, ReturnKeepsMeetings
    <3>5. ASSUME NEW s \in Symbols, NEW id \in OrderIds, CancelOrderH(t, s, id) PROVE Kept
      BY <1>2, <3>5, EndKeepsCopies, CancelOrderKeepsMeetings
    <3>6. Kept
      <4> HIDE DEF Kept
      <4> QED BY <3>1, <3>2, <3>3, <3>4, <3>5
    <3> QED BY <2>1, <3>6 DEF HistoryBase
  <2> QED BY <1>2, <2>2, <2>3
<1> QED BY <1>1, <1>2

-----------------------------------------------------------------------------
(* What holds of a book in which no calls have met.                        *)

(* Order o of one side can stand in the book with p of the other.          *)
Apart(side, o, p) == IF side = "BUY" THEN o.price < p.price ELSE p.price < o.price

SidesApart(s) ==
  \A b \in Elements(book[s]["BUY"]), a \in Elements(book[s]["SELL"]) : b.price < a.price

WaitingIn(s) == Elements(book[s]["BUY"]) \cup Elements(book[s]["SELL"])

(* A waiting order waits once, under an id of its own, and is not one that *)
(* was cancelled.                                                          *)
WaitsOnce(s) ==
  \A side \in OrderSides : \A p \in Elements(book[s][side]) : book[s][side].items[p] = 1

WaitsAlone(s) ==
  \A p \in WaitingIn(s) :
    /\ p.orderId \notin cancelled
    /\ \A r \in WaitingIn(s) : r.orderId = p.orderId => r = p

(* It waits with the shares no trade has taken of it; the maker of the     *)
(* match that is being reported is the one exception, which InCall         *)
(* accounts for.                                                           *)
WaitsInFull(s) ==
  \A p \in WaitingIn(s) :
    \/ untraded[p.orderId] = RemainingQuantity(p)
    \/ \E t \in Callers(s) : pc[t] \in {"loadId", "trade"} /\ p = maker[t]

NoneOverfilled(s) == \A id \in OrdersOf(s) : untraded[id] >= 0

(* Every limit order with shares left that nobody cancelled waits, or is   *)
(* in the hands of a call: the order it processes, or the maker of the     *)
(* match it makes.                                                         *)
InHand(t, id) ==
  \/ incoming[t].orderId = id
  \/ pc[t] \in {"refill", "loadId", "trade"} /\ maker[t].orderId = id

NoneLost(s) ==
  \A id \in OrdersOf(s) :
    submitted[id].type = "LIMIT" /\ id \notin cancelled /\ untraded[id] > 0 =>
      \/ \E p \in WaitingIn(s) : p.orderId = id
      \/ \E t \in Callers(s) : InHand(t, id)

(* The incoming order is in no book until it rests, the maker in none from *)
(* the match until it is refilled, and both lack the shares of the match.  *)
InCall(t, s) ==
  LET o == incoming[t]
      m == maker[t]
      q == matchQty[t]
  IN  /\ o.orderId \notin cancelled
      /\ \A p \in WaitingIn(s) : p.orderId # o.orderId
      /\ untraded[o.orderId] = RemainingQuantity(o) + q
      /\ pc[t] = "rest" /\ MayRest(o) =>
           \A p \in Elements(book[s][MakerSide(o)]) : Apart(o.side, o, p)
      /\ pc[t] = "refill" => \A p \in Elements(book[s][o.side]) : Apart(o.side, p, m)
      /\ pc[t] \in {"refill", "loadId", "trade"} =>
           /\ m.orderId # o.orderId /\ m.orderId \notin cancelled
           /\ RemainingQuantity(m) >= 0
           /\ untraded[m.orderId] = RemainingQuantity(m) + q
           /\ \A p \in WaitingIn(s) : p.orderId = m.orderId => pc[t] # "refill" /\ p = m
           /\ pc[t] # "refill" /\ RemainingQuantity(m) > 0 => m \in WaitingIn(s)

BookOK(s) ==
  /\ SidesApart(s) /\ WaitsOnce(s) /\ WaitsAlone(s) /\ WaitsInFull(s)
  /\ NoneOverfilled(s) /\ NoneLost(s)
  /\ \A t \in Callers(s) : InCall(t, s)

HistoryInv == HistoryBase /\ \A s \in Symbols \ met : BookOK(s)

(* Thread t is the one whose call is at work on book s.                    *)
OnlyCall(t, s) ==
  /\ HistoryBase /\ BookOK(s)
  /\ Inside(t, s) /\ t \notin disturbed
  /\ \A u \in Threads : Inside(u, s) => u = t

(* The copies in a book, and in the hands of its calls, are of its orders. *)
LEMMA IdsOfBook ==
  ASSUME HistoryBase, NEW s \in Symbols
  PROVE  /\ \A side \in OrderSides : \A p \in Elements(book[s][side]) :
              p \in Order /\ p \in WaitingIn(s) /\ p.side = side
         /\ \A p \in WaitingIn(s) :
              /\ p \in Order /\ p.orderId \in OrdersOf(s) /\ p \in Elements(book[s][p.side])
              /\ RemainingQuantity(p) > 0
         /\ \A t \in Callers(s) :
              /\ incoming[t] \in Order /\ incoming[t].orderId \in OrdersOf(s)
              /\ incoming[t].symbol = s
              /\ pc[t] \in {"pop", "refill", "loadId", "trade"} =>
                   maker[t] \in Order /\ maker[t].orderId \in OrdersOf(s)
<1>1. EngineInv /\ SubmittedOK /\ BooksHoldCopies /\ \A t \in Threads : HoldsCopies(t)
  BY DEF HistoryBase, ReportInv, CopiesOK
<1>2. ASSUME NEW c, IsCopy(c), c.symbol = s PROVE c.orderId \in OrdersOf(s)
  <2>1. c.orderId \in 1 .. orderCount /\ submitted[c.orderId] \in Order
    BY <1>1, <1>2 DEF SubmittedOK, IsCopy, CopyOf
  <2>2. submitted[c.orderId].symbol = c.symbol
    BY <1>2, <2>1, CopyFields DEF IsCopy
  <2> QED BY <1>2, <2>1, <2>2 DEF OrdersOf
<1>3. ASSUME NEW side \in OrderSides, NEW p \in Elements(book[s][side])
      PROVE  /\ p \in Order /\ p \in WaitingIn(s) /\ p.side = side
             /\ p.orderId \in OrdersOf(s) /\ RemainingQuantity(p) > 0
  <2>1. p \in Order
    BY <1>1 DEF EngineInv, TypeOK, BookTypeOK, IsHeap
  <2>2. p.symbol = s /\ p.side = side /\ RemainingQuantity(p) > 0
    BY <1>1 DEF EngineInv, RestingOrdersAreLive, RestsProperly
  <2>3. IsCopy(p)
    BY <1>1 DEF BooksHoldCopies
  <2>4. side \in {"BUY", "SELL"}
    BY DEF OrderSides
  <2> QED BY <1>2, <2>1, <2>2, <2>3, <2>4 DEF WaitingIn
<1>4. \A p \in WaitingIn(s) : \E side \in OrderSides : p \in Elements(book[s][side])
  BY DEF WaitingIn, OrderSides
<1>5. ASSUME NEW t \in Callers(s)
      PROVE  /\ incoming[t] \in Order /\ incoming[t].orderId \in OrdersOf(s)
             /\ incoming[t].symbol = s
             /\ pc[t] \in {"pop", "refill", "loadId", "trade"} =>
                  maker[t] \in Order /\ maker[t].orderId \in OrdersOf(s)
  <2>1. t \in Threads /\ pc[t] # "idle" /\ incoming[t].symbol = s
    BY DEF Callers, Inside
  <2>2. incoming[t] \in Order /\ IsCopy(incoming[t])
    BY <1>1, <2>1, CallFacts DEF HoldsCopies
  <2>3. ASSUME pc[t] \in {"pop", "refill", "loadId", "trade"}
        PROVE  maker[t] \in Order /\ IsCopy(maker[t]) /\ maker[t].symbol = s
    BY <1>1, <2>1, <2>3 DEF HoldsCopies, EngineInv, CallOK
  <2> QED BY <1>2, <2>1, <2>2, <2>3
<1> QED BY <1>3, <1>4, <1>5

(* A step that leaves a book, its orders and the calls at work on it as    *)
(* they are.                                                               *)
SameBook(s) ==
  /\ book'[s] = book[s]
  /\ \A t \in Threads : Inside(t, s)' <=> Inside(t, s)
  /\ \A t \in Callers(s) :
       /\ pc'[t] = pc[t] /\ incoming'[t] = incoming[t]
       /\ maker'[t] = maker[t] /\ matchQty'[t] = matchQty[t]
  /\ OrdersOf(s)' = OrdersOf(s)
  /\ \A id \in OrdersOf(s) :
       /\ untraded'[id] = untraded[id] /\ submitted'[id] = submitted[id]
       /\ id \in cancelled' <=> id \in cancelled

LEMMA SameBookStaysOK ==
  ASSUME HistoryBase, NEW s \in Symbols, BookOK(s), SameBook(s) PROVE BookOK(s)'
<1>1. /\ book'[s] = book[s]
      /\ WaitingIn(s)' = WaitingIn(s) /\ Callers(s)' = Callers(s)
      /\ \A side \in OrderSides : Elements(book[s][side])' = Elements(book[s][side])
  BY DEF SameBook, WaitingIn, Callers, Elements
<1>2. /\ SidesApart(s) /\ WaitsOnce(s) /\ WaitsAlone(s) /\ WaitsInFull(s)
      /\ NoneOverfilled(s) /\ NoneLost(s)
      /\ \A t \in Callers(s) : InCall(t, s)
  BY DEF BookOK
<1>3. /\ \A p \in WaitingIn(s) : p.orderId \in OrdersOf(s)
      /\ \A t \in Callers(s) :
           /\ incoming[t].orderId \in OrdersOf(s) /\ MakerSide(incoming[t]) \in OrderSides
           /\ incoming[t].side \in OrderSides
           /\ pc[t] \in {"refill", "loadId", "trade"} => maker[t].orderId \in OrdersOf(s)
  BY IdsOfBook, OrderFields DEF MakerSide, Opposite, OrderSides
<1>4. SidesApart(s)' /\ WaitsOnce(s)'
  BY <1>1, <1>2 DEF SidesApart, WaitsOnce, OrderSides
<1>5. WaitsAlone(s)'
  BY <1>1, <1>2, <1>3 DEF WaitsAlone, SameBook
<1>6. WaitsInFull(s)'
  BY <1>1, <1>2, <1>3 DEF WaitsInFull, SameBook
<1>7. NoneOverfilled(s)'
  BY <1>2 DEF NoneOverfilled, SameBook
<1>8. NoneLost(s)'
  BY <1>1, <1>2 DEF NoneLost, InHand, SameBook
<1>9. ASSUME NEW t \in Callers(s) PROVE InCall(t, s)'
  BY <1>1, <1>2, <1>3, <1>9 DEF InCall, SameBook
<1> QED BY <1>1, <1>4, <1>5, <1>6, <1>7, <1>8, <1>9 DEF BookOK

(* Taking the one copy of an order away leaves none in the book.           *)
LEMMA TakenFromBook ==
  ASSUME HistoryBase, NEW s \in Symbols, BookOK(s), NEW side \in OrderSides, NEW x,
         Taken(s, side, x)
  PROVE  /\ x \in WaitingIn(s) /\ WaitingIn(s)' = WaitingIn(s) \ {x}
         /\ WaitsOnce(s)' /\ SidesApart(s)'
         /\ \A d \in OrderSides : Elements(book'[s][d]) \subseteq Elements(book[s][d])
<1>1. EngineInv /\ TopsAreBest /\ WaitsOnce(s) /\ SidesApart(s)
  BY DEF HistoryBase, ReportInv, BookOK
<1>2. x \in Elements(book[s][side]) /\ book[s][side].items[x] = 1
  BY <1>1 DEF Taken, WaitsOnce
<1>3. /\ \A d \in OrderSides : d # side => book'[s][d] = book[s][d]
      /\ Elements(book'[s][side]) = Elements(book[s][side]) \ {x}
      /\ \A e \in Elements(book'[s][side]) : book'[s][side].items[e] = book[s][side].items[e]
  <2>1. /\ \A r \in Symbols, d \in OrderSides : r # s \/ d # side => book'[r][d] = book[r][d]
        /\ book[s][side].items[x] = 1 =>
             /\ Elements(book'[s][side]) = Elements(book[s][side]) \ {x}
             /\ \A e \in Elements(book'[s][side]) :
                  book'[s][side].items[e] = book[s][side].items[e]
    BY <1>1, WhatIsTaken
  <2> QED BY <1>2, <2>1
<1>4. x.side = side /\ \A d \in OrderSides : \A p \in Elements(book[s][d]) : p.side = d
  BY <1>2, IdsOfBook
<1>5. \A d \in OrderSides : Elements(book'[s][d]) = Elements(book[s][d]) \ {x}
  BY <1>3, <1>4
<1>6. WaitingIn(s)' = WaitingIn(s) \ {x} /\ x \in WaitingIn(s)
  <2>1. WaitingIn(s)' = Elements(book'[s]["BUY"]) \cup Elements(book'[s]["SELL"])
    BY DEF WaitingIn, Elements
  <2> QED BY <1>2, <1>5, <2>1 DEF WaitingIn, OrderSides
<1>7. WaitsOnce(s)'
  <2>1. \A d \in OrderSides : \A p \in Elements(book'[s][d]) : book'[s][d].items[p] = 1
    BY <1>1, <1>3, <1>5 DEF WaitsOnce
  <2> QED BY <2>1 DEF WaitsOnce, Elements
<1>8. SidesApart(s)'
  <2>1. \A b \in Elements(book'[s]["BUY"]), a \in Elements(book'[s]["SELL"]) : b.price < a.price
    BY <1>1, <1>5 DEF SidesApart, OrderSides
  <2> QED BY <2>1 DEF SidesApart, Elements
<1> QED BY <1>5, <1>6, <1>7, <1>8

(* Pushing an order that waits nowhere adds the one copy of it, and keeps  *)
(* the sides apart if it crosses nothing.                                  *)
LEMMA AddedToBook ==
  ASSUME HistoryBase, NEW s \in Symbols, BookOK(s), NEW side \in OrderSides, NEW x \in Order,
         x.side = side, x \notin WaitingIn(s), Put(s, side, x),
         \A p \in Elements(book[s][Opposite(side)]) : Apart(side, x, p)
  PROVE  /\ WaitingIn(s)' = WaitingIn(s) \cup {x}
         /\ WaitsOnce(s)' /\ SidesApart(s)'
         /\ \A d \in OrderSides : d # side => book'[s][d] = book[s][d]
<1>1. EngineInv /\ TopsAreBest /\ WaitsOnce(s) /\ SidesApart(s)
  BY DEF HistoryBase, ReportInv, BookOK
<1>2. x \notin Elements(book[s][side])
  BY DEF WaitingIn, OrderSides
<1>3. /\ \A d \in OrderSides : d # side => book'[s][d] = book[s][d]
      /\ Elements(book'[s][side]) = Elements(book[s][side]) \cup {x}
      /\ \A e \in Elements(book'[s][side]) :
           book'[s][side].items[e] = IF e = x THEN 1 ELSE book[s][side].items[e]
  BY <1>1, <1>2, WhatIsPut
<1>4. WaitingIn(s)' = WaitingIn(s) \cup {x}
  <2>1. WaitingIn(s)' = Elements(book'[s]["BUY"]) \cup Elements(book'[s]["SELL"])
    BY DEF WaitingIn, Elements
  <2> QED BY <1>3, <2>1 DEF WaitingIn, OrderSides
<1>5. WaitsOnce(s)'
  <2>1. \A d \in OrderSides : \A p \in Elements(book'[s][d]) : book'[s][d].items[p] = 1
    BY <1>1, <1>3 DEF WaitsOnce
  <2> QED BY <2>1 DEF WaitsOnce, Elements
<1>6. SidesApart(s)'
  <2>1. \A b \in Elements(book'[s]["BUY"]), a \in Elements(book'[s]["SELL"]) : b.price < a.price
    BY <1>1, <1>3 DEF SidesApart, OrderSides, Apart, Opposite
  <2> QED BY <2>1 DEF SidesApart, Elements
<1> QED BY <1>3, <1>4, <1>5, <1>6

-----------------------------------------------------------------------------
(* The steps of the only call in a book, one by one.                       *)

(* What such a call may rely on, and what none of its steps changes.       *)
LEMMA OnlyCallFacts ==
  ASSUME NEW s \in Symbols, NEW t \in Threads, OnlyCall(t, s)
  PROVE  LET o == incoming[t]
             m == maker[t]
         IN  /\ EngineInv /\ TypeOK /\ TopsAreBest /\ InCall(t, s) /\ FindsItsMaker(t)
             /\ Callers(s) = {t} /\ pc[t] \in InsideLabels
             /\ o \in Order /\ o.symbol = s /\ o.orderId \in OrdersOf(s) /\ IncomingOK(o)
             /\ o.side \in OrderSides /\ MakerSide(o) \in OrderSides
             /\ IsHeap(MakerHeap(o)) /\ TopIsBest(MakerHeap(o))
             /\ \A p \in Elements(MakerHeap(o)) : p.side = MakerSide(o)
             /\ RemainingQuantity(o) \in Nat
             /\ pc[t] \in {"test", "peek", "pop", "rest"} => matchQty[t] = 0
             /\ pc[t] \in {"pop", "refill", "loadId", "trade"} =>
                  m \in Order /\ m.orderId \in OrdersOf(s) /\ RemainingQuantity(m) \in Int
<1> DEFINE o == incoming[t]
           m == maker[t]
<1>1. /\ HistoryBase /\ BookOK(s) /\ Inside(t, s) /\ t \notin disturbed
      /\ \A u \in Threads : Inside(u, s) => u = t
  BY DEF OnlyCall
<1>2. Callers(s) = {t} /\ pc[t] \in InsideLabels /\ pc[t] # "idle"
  BY <1>1 DEF Callers, Inside, InsideLabels
<1>3. EngineInv /\ TypeOK /\ TopsAreBest /\ InCall(t, s) /\ FindsItsMaker(t) /\ AddsUp(t)
  BY <1>1, <1>2 DEF HistoryBase, ReportInv, EngineInv, BookOK
<1>4. /\ o \in Order /\ o.symbol = s /\ o.orderId \in OrdersOf(s)
      /\ pc[t] \in {"pop", "refill", "loadId", "trade"} => m \in Order /\ m.orderId \in OrdersOf(s)
  BY <1>1, <1>2, IdsOfBook
<1>5. /\ IncomingOK(o) /\ o.side \in OrderSides /\ MakerSide(o) \in OrderSides
      /\ IsHeap(MakerHeap(o)) /\ \A p \in Elements(MakerHeap(o)) : p.side = MakerSide(o)
  BY <1>2, <1>3, CallFacts DEF RestsProperly
<1>6. TopIsBest(MakerHeap(o))
  BY <1>3, <1>4, <1>5 DEF TopsAreBest, MakerHeap
<1>7. RemainingQuantity(o) \in Nat
  BY <1>4, <1>5, OrderFields DEF RemainingQuantity, IncomingOK
<1>8. m \in Order => RemainingQuantity(m) \in Int
  BY OrderFields DEF RemainingQuantity
<1> QED BY <1>2, <1>3, <1>4, <1>5, <1>6, <1>7, <1>8 DEF AddsUp

LEMMA OnlyCallFrame ==
  ASSUME NEW s \in Symbols, NEW t \in Threads, OnlyCall(t, s), AdvanceH(t)
  PROVE  /\ Advance(t) /\ submitted' = submitted /\ cancelled' = cancelled
         /\ OrdersOf(s)' = OrdersOf(s)
         /\ Callers(s)' = IF pc'[t] \in InsideLabels THEN {t} ELSE {}
         /\ incoming'[t].orderId = incoming[t].orderId
<1>1. EngineInv /\ Inside(t, s) /\ \A u \in Threads : Inside(u, s) => u = t
  BY DEF OnlyCall, HistoryBase, ReportInv
<1>2. Advance(t) /\ submitted' = submitted /\ cancelled' = cancelled
  BY DEF AdvanceH, history
<1>3. /\ orderCount' = orderCount
      /\ \A u \in Threads : u # t => pc'[u] = pc[u] /\ incoming'[u] = incoming[u]
      /\ incoming'[t].symbol = s /\ incoming'[t].orderId = incoming[t].orderId
  BY <1>1, <1>2, AdvanceFrame DEF Inside
<1>4. OrdersOf(s)' = OrdersOf(s)
  BY <1>2, <1>3 DEF OrdersOf
<1>5. \A u \in Threads : Inside(u, s)' <=> u = t /\ pc'[t] \in InsideLabels
  BY <1>1, <1>3 DEF Inside, InsideLabels
<1> QED BY <1>2, <1>3, <1>4, <1>5 DEF Callers

(* While no match is being reported every waiting order waits in full.     *)
LEMMA WaitsInFullBetween ==
  ASSUME NEW s \in Symbols, BookOK(s), \A t \in Callers(s) : pc[t] \notin {"loadId", "trade"}
  PROVE  \A p \in WaitingIn(s) : untraded[p.orderId] = RemainingQuantity(p)
  BY DEF BookOK, WaitsInFull

(* A limit order that does not cross the best opposite order crosses none. *)
LEMMA NoneCrosses ==
  ASSUME NEW o \in Order, o.type = "LIMIT", NEW heap, IsHeap(heap), TopIsBest(heap),
         \A p \in Elements(heap) : p.side = Opposite(o.side),
         ~IsEmpty(heap), ~Crosses(o, heap.top)
  PROVE  \A p \in Elements(heap) : Apart(o.side, o, p)
<1>1. /\ heap.top \in Elements(heap) /\ o.side \in {"BUY", "SELL"} /\ o.price \in Nat
      /\ \A p \in Elements(heap) : p.price \in Nat /\ p.side = Opposite(o.side)
  BY OrderFields DEF IsHeap, OrderSides
<1>2. \A p \in Elements(heap) : ~OrderRanksBelow(heap.top, p)
  BY DEF TopIsBest
<1>3. Apart(o.side, o, heap.top)
  BY <1>1 DEF Crosses, Apart
<1> QED BY <1>1, <1>2, <1>3
        DEF Apart, OrderRanksBelow, BuyOrderComparator, SellOrderComparator, Opposite

(* Steps that change neither the book nor any share.                       *)
LEMMA LookingKeepsBook ==
  ASSUME NEW s \in Symbols, NEW t \in Threads, OnlyCall(t, s), AdvanceH(t),
         Test(t) \/ Peek(t) \/ LoadTradeId(t)
  PROVE  BookOK(s)'
<1> DEFINE o == incoming[t]
           heap == MakerHeap(o)
<1>1. /\ TypeOK /\ InCall(t, s) /\ Callers(s) = {t} /\ BookOK(s)
      /\ o \in Order /\ o.symbol = s /\ MakerSide(o) \in OrderSides
      /\ IsHeap(heap) /\ TopIsBest(heap)
      /\ \A p \in Elements(heap) : p.side = Opposite(o.side)
      /\ RemainingQuantity(o) \in Nat
  BY OnlyCallFacts DEF OnlyCall, MakerSide
<1>2. /\ book' = book /\ untraded' = untraded /\ incoming' = incoming /\ matchQty' = matchQty
      /\ \/ pc[t] \in {"test", "peek"} /\ pc'[t] \in {"peek", "pop", "rest"}
         \/ pc[t] = "loadId" /\ pc'[t] = "trade" /\ maker' = maker
  BY <1>1 DEF Test, Peek, LoadTradeId, LeaveLoop, Goto, bookVars, localVars, TypeOK
<1>3. /\ submitted' = submitted /\ cancelled' = cancelled /\ OrdersOf(s)' = OrdersOf(s)
      /\ Callers(s)' = {t}
  BY <1>2, OnlyCallFrame DEF InsideLabels
<1>4. WaitingIn(s)' = WaitingIn(s) /\ \A d \in OrderSides : Elements(book[s][d])' = Elements(book[s][d])
  BY <1>2 DEF WaitingIn, Elements
<1>5. SidesApart(s)' /\ WaitsOnce(s)' /\ WaitsAlone(s)' /\ NoneOverfilled(s)'
  BY <1>1, <1>2, <1>3, <1>4 DEF BookOK, SidesApart, WaitsOnce, WaitsAlone, NoneOverfilled, OrderSides
<1>6. WaitsInFull(s)'
  BY <1>1, <1>2, <1>3, <1>4 DEF BookOK, WaitsInFull
<1>7. NoneLost(s)'
  BY <1>1, <1>2, <1>3, <1>4 DEF BookOK, NoneLost, InHand
<1>8. ASSUME pc'[t] = "rest", MayRest(o) PROVE \A p \in Elements(heap) : Apart(o.side, o, p)
  <2>1. CASE Test(t)
    <3>1. ~MayMatch(o)
      BY <1>1, <1>8, <2>1 DEF Test, Goto, TypeOK
    <3>2. IsEmpty(heap)
      BY <1>8, <3>1 DEF MayMatch, MayRest
    <3> QED BY <3>2 DEF IsEmpty, Elements, EmptyBag, SetToBag, BagToSet
  <2>2. CASE Peek(t)
    <3>1. ~IsEmpty(heap) /\ ~Crosses(o, heap.top)
      BY <1>1, <1>8, <2>2 DEF Peek, LeaveLoop, Goto, TypeOK
    <3> QED BY <1>1, <1>8, <3>1, NoneCrosses DEF MayRest
  <2> QED BY <1>2, <1>8, <2>1, <2>2 DEF LoadTradeId
<1>9. InCall(t, s)'
  <2> DEFINE Rests == pc'[t] = "rest" /\ MayRest(o) =>
                        \A p \in Elements(book[s][MakerSide(o)]) : Apart(o.side, o, p)
  <2>1. Rests
    BY <1>1, <1>8 DEF MakerHeap
  <2>2. incoming'[t] = o /\ matchQty'[t] = matchQty[t] /\ untraded' = untraded
        /\ Elements(book[s][MakerSide(o)])' = Elements(book[s][MakerSide(o)])
    BY <1>1, <1>2, <1>4
  <2> QED BY <1>1, <1>2, <1>3, <1>4, <2>1, <2>2 DEF InCall
<1> QED BY <1>3, <1>5, <1>6, <1>7, <1>9 DEF BookOK

(* The fill takes the same shares of both copies, and the maker leaves;    *)
(* what is left stands apart from the incoming order's own side.           *)
LEMMA PopKeepsBook ==
  ASSUME NEW s \in Symbols, NEW t \in Threads, OnlyCall(t, s), AdvanceH(t), Pop(t)
  PROVE  BookOK(s)'
<1> DEFINE o == incoming[t]
           m == maker[t]
           q == MatchQuantity(o, m)
<1>1. /\ HistoryBase /\ BookOK(s) /\ TypeOK /\ EngineInv /\ InCall(t, s) /\ Callers(s) = {t}
      /\ FindsItsMaker(t) /\ IsHeap(MakerHeap(o))
      /\ o \in Order /\ o.symbol = s /\ o.orderId \in OrdersOf(s)
      /\ o.side \in OrderSides /\ MakerSide(o) \in OrderSides
  BY OnlyCallFacts DEF OnlyCall
<1>2. /\ pc[t] = "pop" /\ ~IsEmpty(MakerHeap(o)) /\ untraded' = untraded
      /\ incoming'[t] = Fill(o, q) /\ maker'[t] = Fill(m, q) /\ matchQty'[t] = q
      /\ pc'[t] = IF IsFilled(Fill(m, q)) THEN "loadId" ELSE "refill"
  BY <1>1 DEF Pop, Goto, TypeOK
<1>3. /\ m \in Order /\ m.orderId \in OrdersOf(s) /\ matchQty[t] = 0
      /\ RemainingQuantity(o) > 0 /\ RemainingQuantity(m) > 0
      /\ RemainingQuantity(o) \in Nat /\ RemainingQuantity(m) \in Int
  BY <1>1, <1>2, OnlyCallFacts DEF EngineInv, CallOK, RestsProperly
<1>4. /\ q \in Nat /\ q > 0 /\ q <= RemainingQuantity(o) /\ q <= RemainingQuantity(m)
      /\ Fill(o, q).filledQuantity = o.filledQuantity + q
      /\ Fill(o, q).orderId = o.orderId /\ Fill(o, q).quantity = o.quantity
      /\ Fill(o, q).side = o.side /\ Fill(o, q).type = o.type /\ Fill(o, q).price = o.price
      /\ Fill(m, q).filledQuantity = m.filledQuantity + q
      /\ Fill(m, q).orderId = m.orderId /\ Fill(m, q).quantity = m.quantity
      /\ Fill(m, q).price = m.price
  <2>1. q \in Nat /\ q > 0 /\ q <= RemainingQuantity(o) /\ q <= RemainingQuantity(m)
    BY <1>1, <1>3, MatchedQuantity
  <2> HIDE DEF q
  <2> QED BY <1>1, <1>3, <2>1, FilledOrder
<1> HIDE DEF q
<1>5. /\ RemainingQuantity(Fill(o, q)) + q = RemainingQuantity(o)
      /\ RemainingQuantity(Fill(m, q)) + q = RemainingQuantity(m)
      /\ RemainingQuantity(Fill(m, q)) >= 0
      /\ IsFilled(Fill(m, q)) => RemainingQuantity(Fill(m, q)) <= 0
      /\ RemainingQuantity(Fill(m, q)) \in Int
  BY <1>1, <1>3, <1>4, OrderFields DEF RemainingQuantity, IsFilled
<1>6. m = MakerHeap(o).top /\ m \in Elements(MakerHeap(o)) /\ Taken(s, MakerSide(o), m)
  BY <1>1, <1>2, PopTakes DEF FindsItsMaker, IsHeap
<1>7. /\ m \in WaitingIn(s) /\ WaitingIn(s)' = WaitingIn(s) \ {m}
      /\ WaitsOnce(s)' /\ SidesApart(s)'
      /\ \A d \in OrderSides : Elements(book'[s][d]) \subseteq Elements(book[s][d])
  BY <1>1, <1>6, TakenFromBook
<1>8. /\ submitted' = submitted /\ cancelled' = cancelled /\ OrdersOf(s)' = OrdersOf(s)
      /\ Callers(s)' = {t}
  BY <1>2, OnlyCallFrame DEF InsideLabels
<1>9. /\ \A p \in WaitingIn(s) : untraded[p.orderId] = RemainingQuantity(p)
      /\ m.orderId \notin cancelled /\ \A p \in WaitingIn(s) : p.orderId = m.orderId => p = m
  BY <1>1, <1>2, <1>7, WaitsInFullBetween DEF BookOK, WaitsAlone
<1>10. WaitsAlone(s)' /\ NoneOverfilled(s)'
  BY <1>1, <1>2, <1>7, <1>8 DEF BookOK, WaitsAlone, NoneOverfilled
<1>11. WaitsInFull(s)'
  BY <1>2, <1>7, <1>9 DEF WaitsInFull
<1>12. NoneLost(s)'
  <2> SUFFICES ASSUME NEW id \in OrdersOf(s), submitted[id].type = "LIMIT", id \notin cancelled,
                      untraded[id] > 0, ~\E p \in WaitingIn(s)' : p.orderId = id
               PROVE  InHand(t, id)'
    BY <1>2, <1>8 DEF NoneLost
  <2>1. m.orderId = id \/ InHand(t, id)
    BY <1>1, <1>7 DEF BookOK, NoneLost
  <2> QED BY <1>2, <1>4, <2>1 DEF InHand
<1>13. \A p \in Elements(book[s][o.side]) : Apart(o.side, p, m)
  <2>1. o.side \in {"BUY", "SELL"} /\ m \in Elements(book[s][Opposite(o.side)])
    BY <1>1, <1>6 DEF MakerHeap, MakerSide, OrderSides
  <2> QED BY <1>1, <2>1 DEF BookOK, SidesApart, Apart, Opposite
<1>14. InCall(t, s)'
  <2>1. /\ incoming'[t].orderId = o.orderId /\ maker'[t].orderId = m.orderId
        /\ incoming'[t].side = o.side /\ maker'[t].price = m.price /\ matchQty'[t] = q
        /\ RemainingQuantity(incoming[t])' + q = RemainingQuantity(o)
        /\ RemainingQuantity(maker[t])' + q = RemainingQuantity(m)
        /\ RemainingQuantity(maker[t])' >= 0
        /\ pc'[t] # "refill" => ~(RemainingQuantity(maker[t])' > 0)
        /\ pc'[t] \in {"refill", "loadId"}
    BY <1>2, <1>4, <1>5 DEF RemainingQuantity
  <2>2. \A p \in Elements(book[s][incoming[t].side])' : Apart(o.side, p, m)
    <3>1. Elements(book[s][incoming[t].side])' = Elements(book'[s][o.side])
      BY <2>1 DEF Elements
    <3> QED BY <1>1, <1>7, <1>13, <3>1
  <2>3. /\ o.orderId \notin cancelled /\ \A p \in WaitingIn(s) : p.orderId # o.orderId
        /\ untraded[o.orderId] = RemainingQuantity(o) /\ m.orderId # o.orderId
        /\ untraded[m.orderId] = RemainingQuantity(m)
    BY <1>1, <1>3, <1>7, <1>9 DEF InCall
  <2>4. \A p \in WaitingIn(s)' : p.orderId # m.orderId /\ p.orderId # o.orderId
    BY <1>7, <1>9, <2>3
  <2> QED BY <1>2, <1>8, <1>9, <2>1, <2>2, <2>3, <2>4 DEF InCall, Apart
<1> QED BY <1>7, <1>8, <1>10, <1>11, <1>12, <1>14 DEF BookOK

(* The maker comes back with what the match left.                          *)
LEMMA RefillKeepsBook ==
  ASSUME NEW s \in Symbols, NEW t \in Threads, OnlyCall(t, s), AdvanceH(t), Refill(t)
  PROVE  BookOK(s)'
<1> DEFINE o == incoming[t]
           m == maker[t]
<1>1. /\ HistoryBase /\ BookOK(s) /\ TypeOK /\ EngineInv /\ InCall(t, s) /\ Callers(s) = {t}
      /\ o \in Order /\ o.symbol = s /\ o.side \in OrderSides /\ MakerSide(o) \in OrderSides
  BY OnlyCallFacts DEF OnlyCall
<1>2. /\ pc[t] = "refill" /\ pc'[t] = "loadId"
      /\ UNCHANGED <<incoming, maker, matchQty, untraded>>
  BY <1>1 DEF Refill, Goto, localVars, TypeOK
<1>3. Put(s, MakerSide(o), m) /\ m \in Order /\ m.side = MakerSide(o)
  BY <1>1, RefillPuts
<1>4. /\ \A p \in WaitingIn(s) : p.orderId # m.orderId /\ p.orderId # o.orderId
      /\ m.orderId # o.orderId /\ m.orderId \notin cancelled /\ o.orderId \notin cancelled
      /\ \A p \in Elements(book[s][o.side]) : Apart(o.side, p, m)
  BY <1>1, <1>2 DEF InCall
<1>5. \A p \in Elements(book[s][Opposite(MakerSide(o))]) : Apart(MakerSide(o), m, p)
  BY <1>1, <1>4 DEF Apart, MakerSide, Opposite, OrderSides
<1>6. WaitingIn(s)' = WaitingIn(s) \cup {m} /\ WaitsOnce(s)' /\ SidesApart(s)'
  BY <1>1, <1>3, <1>4, <1>5, AddedToBook
<1>7. /\ submitted' = submitted /\ cancelled' = cancelled /\ OrdersOf(s)' = OrdersOf(s)
      /\ Callers(s)' = {t}
  BY <1>2, OnlyCallFrame DEF InsideLabels
<1>8. \A p \in WaitingIn(s) : untraded[p.orderId] = RemainingQuantity(p)
  BY <1>1, <1>2, WaitsInFullBetween
<1>9. WaitsAlone(s)' /\ NoneOverfilled(s)'
  BY <1>1, <1>2, <1>4, <1>6, <1>7 DEF BookOK, WaitsAlone, NoneOverfilled
<1>10. WaitsInFull(s)'
  BY <1>2, <1>6, <1>7, <1>8 DEF WaitsInFull
<1>11. NoneLost(s)'
  BY <1>1, <1>2, <1>6, <1>7 DEF BookOK, NoneLost, InHand
<1>12. InCall(t, s)'
  BY <1>1, <1>2, <1>4, <1>6, <1>7 DEF InCall
<1> QED BY <1>6, <1>7, <1>9, <1>10, <1>11, <1>12 DEF BookOK

(* The trade takes from both orders the shares their copies lack.          *)
LEMMA ExecuteTradeKeepsBook ==
  ASSUME NEW s \in Symbols, NEW t \in Threads, OnlyCall(t, s), AdvanceH(t), ExecuteTrade(t)
  PROVE  BookOK(s)'
<1> DEFINE o == incoming[t]
           m == maker[t]
           q == matchQty[t]
<1>1. /\ HistoryBase /\ BookOK(s) /\ TypeOK /\ InCall(t, s) /\ Callers(s) = {t}
      /\ o.orderId \in OrdersOf(s) /\ RemainingQuantity(o) \in Nat
  BY OnlyCallFacts DEF OnlyCall
<1>2. /\ pc[t] = "trade" /\ pc'[t] = "test" /\ book' = book
      /\ incoming' = incoming /\ matchQty'[t] = 0 /\ q \in Nat
      /\ untraded' = [untraded EXCEPT ![o.orderId] = @ - q, ![m.orderId] = @ - q]
      /\ untraded \in [OrderIds -> Int] /\ orderCount \in Nat /\ orderCount <= MaxOrders
  BY <1>1, EngineAssumption DEF ExecuteTrade, Goto, TypeOK
<1>3. m \in Order /\ m.orderId \in OrdersOf(s) /\ RemainingQuantity(m) \in Int
  BY <1>2, OnlyCallFacts
<1>4. OrdersOf(s) \subseteq OrderIds
  BY <1>2, EngineAssumption DEF OrdersOf, OrderIds
<1>5. /\ o.orderId \notin cancelled /\ (\A p \in WaitingIn(s) : p.orderId # o.orderId)
      /\ untraded[o.orderId] = RemainingQuantity(o) + q
      /\ m.orderId # o.orderId /\ m.orderId \notin cancelled /\ RemainingQuantity(m) >= 0
      /\ untraded[m.orderId] = RemainingQuantity(m) + q
      /\ \A p \in WaitingIn(s) : p.orderId = m.orderId => p = m
      /\ RemainingQuantity(m) > 0 => m \in WaitingIn(s)
  BY <1>1, <1>2 DEF InCall
<1>6. /\ untraded'[o.orderId] = RemainingQuantity(o)
      /\ untraded'[m.orderId] = RemainingQuantity(m)
      /\ \A id \in OrderIds : id # o.orderId /\ id # m.orderId => untraded'[id] = untraded[id]
  BY <1>1, <1>2, <1>3, <1>4, <1>5
<1>7. /\ submitted' = submitted /\ cancelled' = cancelled /\ OrdersOf(s)' = OrdersOf(s)
      /\ Callers(s)' = {t}
  BY <1>2, OnlyCallFrame DEF InsideLabels
<1>8. WaitingIn(s)' = WaitingIn(s) /\ \A d \in OrderSides : Elements(book[s][d])' = Elements(book[s][d])
  BY <1>2 DEF WaitingIn, Elements
<1>9. SidesApart(s)' /\ WaitsOnce(s)' /\ WaitsAlone(s)'
  BY <1>1, <1>2, <1>7, <1>8 DEF BookOK, SidesApart, WaitsOnce, WaitsAlone, OrderSides
<1>10. ASSUME NEW p \in WaitingIn(s) PROVE untraded'[p.orderId] = RemainingQuantity(p)
  <2>1. CASE p.orderId = m.orderId
    BY <2>1, <1>5, <1>6
  <2>2. CASE p.orderId # m.orderId
    <3>1. untraded[p.orderId] = RemainingQuantity(p)
      BY <1>1, <2>2 DEF BookOK, WaitsInFull
    <3>2. p.orderId \in OrderIds /\ p.orderId # o.orderId
      BY <1>1, <1>4, <1>5, IdsOfBook
    <3> QED BY <1>6, <2>2, <3>1, <3>2
  <2> QED BY <2>1, <2>2
<1>11. WaitsInFull(s)'
  BY <1>8, <1>10 DEF WaitsInFull
<1>12. NoneOverfilled(s)'
  <2>1. \A id \in OrdersOf(s) : untraded[id] >= 0
    BY <1>1 DEF BookOK, NoneOverfilled
  <2> QED BY <1>1, <1>4, <1>5, <1>6, <1>7, <2>1 DEF NoneOverfilled
<1>13. NoneLost(s)'
  <2> SUFFICES ASSUME NEW id \in OrdersOf(s), submitted[id].type = "LIMIT", id \notin cancelled,
                      untraded'[id] > 0, ~\E p \in WaitingIn(s) : p.orderId = id
               PROVE  incoming[t].orderId = id
    BY <1>2, <1>7, <1>8 DEF NoneLost, InHand
  <2>1. id # m.orderId
    BY <1>3, <1>5, <1>6
  <2>2. CASE id # o.orderId
    <3>1. untraded[id] > 0
      BY <1>4, <1>6, <2>1, <2>2
    <3> QED BY <1>1, <2>1, <3>1 DEF BookOK, NoneLost, InHand
  <2> QED BY <2>2
<1>14. InCall(t, s)'
  <2>1. RemainingQuantity(o) + 0 = RemainingQuantity(o)
    BY <1>1
  <2> QED BY <1>2, <1>5, <1>6, <1>7, <1>8, <2>1 DEF InCall
<1> QED BY <1>7, <1>9, <1>11, <1>12, <1>13, <1>14 DEF BookOK

(* The remainder of a limit order joins the book it was kept out of.       *)
LEMMA RestKeepsBook ==
  ASSUME NEW s \in Symbols, NEW t \in Threads, OnlyCall(t, s), AdvanceH(t), Rest(t)
  PROVE  BookOK(s)'
<1> DEFINE o == incoming[t]
<1>1. /\ HistoryBase /\ BookOK(s) /\ TypeOK /\ EngineInv /\ InCall(t, s) /\ Callers(s) = {t}
      /\ o \in Order /\ o.symbol = s /\ o.orderId \in OrdersOf(s)
      /\ o.side \in OrderSides /\ RemainingQuantity(o) \in Nat
  BY OnlyCallFacts DEF OnlyCall
<1>2. pc[t] = "rest" /\ pc'[t] = "done" /\ untraded' = untraded
  BY <1>1 DEF Rest, Goto, TypeOK
<1>3. /\ submitted' = submitted /\ cancelled' = cancelled /\ OrdersOf(s)' = OrdersOf(s)
      /\ Callers(s)' = {}
  BY <1>2, OnlyCallFrame DEF InsideLabels
<1>4. /\ o.orderId \notin cancelled /\ (\A p \in WaitingIn(s) : p.orderId # o.orderId)
      /\ untraded[o.orderId] = RemainingQuantity(o)
      /\ MayRest(o) => \A p \in Elements(book[s][Opposite(o.side)]) : Apart(o.side, o, p)
  <2>1. matchQty[t] = 0 /\ RemainingQuantity(o) + 0 = RemainingQuantity(o)
    BY <1>1, <1>2, OnlyCallFacts
  <2> QED BY <1>1, <1>2, <2>1 DEF InCall, MakerSide
<1>5. /\ WaitsOnce(s)' /\ SidesApart(s)'
      /\ WaitingIn(s)' = IF MayRest(o) THEN WaitingIn(s) \cup {o} ELSE WaitingIn(s)
  <2>1. CASE MayRest(o)
    <3>1. Put(s, o.side, o)
      BY <1>1, <2>1, RestPuts
    <3> QED BY <1>1, <1>4, <2>1, <3>1, AddedToBook
  <2>2. CASE ~MayRest(o)
    <3>1. book' = book
      BY <1>1, <2>2, RestPuts
    <3> QED BY <1>1, <2>2, <3>1 DEF BookOK, WaitsOnce, SidesApart, WaitingIn, Elements
  <2> QED BY <2>1, <2>2
<1>6. \A p \in WaitingIn(s) : untraded[p.orderId] = RemainingQuantity(p)
  BY <1>1, <1>2, WaitsInFullBetween
<1>7. WaitsAlone(s)' /\ NoneOverfilled(s)'
  BY <1>1, <1>2, <1>3, <1>4, <1>5 DEF BookOK, WaitsAlone, NoneOverfilled
<1>8. WaitsInFull(s)'
  BY <1>2, <1>4, <1>5, <1>6 DEF WaitsInFull
<1>9. NoneLost(s)'
  <2> SUFFICES ASSUME NEW id \in OrdersOf(s), submitted[id].type = "LIMIT", id \notin cancelled,
                      untraded[id] > 0, ~\E p \in WaitingIn(s) : p.orderId = id
               PROVE  \E p \in WaitingIn(s)' : p.orderId = id
    BY <1>2, <1>3, <1>5 DEF NoneLost
  <2>1. o.orderId = id
    BY <1>1, <1>2 DEF BookOK, NoneLost, InHand
  <2>2. o.type = "LIMIT"
    <3>1. IsCopy(o) /\ submitted[o.orderId] \in Order
      BY <1>1, <1>2 DEF HistoryBase, CopiesOK, HoldsCopies, SubmittedOK, IsCopy, CopyOf, Callers
    <3> QED BY <2>1, <3>1, CopyFields DEF IsCopy
  <2>3. MayRest(o)
    BY <1>1, <1>4, <2>1, <2>2 DEF MayRest
  <2> QED BY <1>5, <2>1, <2>3
<1> QED BY <1>3, <1>5, <1>7, <1>8, <1>9 DEF BookOK

(* A step of the only call in a book.                                      *)
LEMMA AdvanceKeepsBook ==
  ASSUME NEW s \in Symbols, NEW t \in Threads, OnlyCall(t, s), AdvanceH(t)
  PROVE  BookOK(s)'
<1>1. Advance(t)
  BY OnlyCallFrame
<1>2. ~Throw(t)
  BY OnlyCallFacts DEF FindsItsMaker, Throw
<1> QED BY <1>1, <1>2, LookingKeepsBook, PopKeepsBook, RefillKeepsBook, ExecuteTradeKeepsBook,
           RestKeepsBook DEF Advance

-----------------------------------------------------------------------------
(* Steps on a book that no call is at work on, and steps elsewhere.        *)

(* A new order has an id no order had before.                              *)
LEMMA ProcessOrderKeepsBook ==
  ASSUME HistoryBase, cancelled \subseteq 1 .. orderCount,
         NEW t \in Threads, NEW request \in OrderRequest, NEW now \in Timestamps,
         ProcessOrderH(t, request, now),
         BookOK(request.symbol), Callers(request.symbol) = {}
  PROVE  BookOK(request.symbol)'
<1> DEFINE s == request.symbol
           id == orderCount + 1
           o == incoming'[t]
<1>1. /\ TypeOK /\ AddsUp(t) /\ SubmittedOK
  BY DEF HistoryBase, ReportInv, EngineInv, CopiesOK
<1>2. /\ pc[t] = "idle" /\ pc'[t] = "test" /\ book' = book /\ orderCount' = id
      /\ o.orderId = id /\ o.quantity = request.quantity /\ o.filledQuantity = 0
      /\ o.symbol = s /\ matchQty' = matchQty /\ cancelled' = cancelled
      /\ \A u \in Threads : u # t => pc'[u] = pc[u] /\ incoming'[u] = incoming[u]
      /\ untraded' = [untraded EXCEPT ![id] = request.quantity]
      /\ submitted' = [submitted EXCEPT ![id] = o]
      /\ orderCount < MaxOrders /\ orderCount \in 0 .. MaxOrders /\ untraded \in [OrderIds -> Int]
  BY <1>1 DEF ProcessOrderH, ProcessOrder, Goto, TypeOK, bookVars
<1>3. /\ orderCount \in Nat /\ id \in OrderIds /\ s \in Symbols
      /\ request.quantity \in Nat /\ request.quantity > 0 /\ matchQty[t] = 0
      /\ id \notin cancelled /\ 1 .. orderCount \subseteq OrderIds
  <2>1. orderCount \in Nat /\ id \in OrderIds /\ 1 .. orderCount \subseteq OrderIds
    BY <1>2, EngineAssumption DEF OrderIds
  <2>2. s \in Symbols /\ request.quantity \in Nat /\ request.quantity > 0
    <3>1. s \in Symbols /\ request.quantity \in Quantities
      BY DEF OrderRequest
    <3>2. \A n \in Quantities : n \in Nat /\ n > 0
      BY EngineAssumption
    <3> QED BY <3>1, <3>2
  <2>3. id \notin cancelled
    BY <2>1
  <2>4. matchQty[t] = 0
    BY <1>1, <1>2 DEF AddsUp
  <2> QED BY <2>1, <2>2, <2>3, <2>4
<1> HIDE DEF o
<1>4. /\ untraded'[id] = request.quantity /\ submitted'[id] = o
      /\ \A i \in 1 .. orderCount : untraded'[i] = untraded[i] /\ submitted'[i] = submitted[i]
  BY <1>1, <1>2, <1>3 DEF SubmittedOK
<1>5. OrdersOf(s) \subseteq 1 .. orderCount /\ OrdersOf(s)' = OrdersOf(s) \cup {id}
  <2>1. 1 .. id = (1 .. orderCount) \cup {id} /\ id \notin 1 .. orderCount
    BY <1>3
  <2> QED BY <1>2, <1>4, <2>1 DEF OrdersOf
<1>6. Callers(s)' = {t}
  <2>1. Inside(t, s)'
    BY <1>2 DEF Inside, o
  <2>2. \A u \in Threads : u # t => ~Inside(u, s)'
    BY <1>2 DEF Callers, Inside
  <2> QED BY <2>1, <2>2 DEF Callers
<1>7. WaitingIn(s)' = WaitingIn(s) /\ \A d \in OrderSides : Elements(book[s][d])' = Elements(book[s][d])
  BY <1>2 DEF WaitingIn, Elements
<1>8. \A p \in WaitingIn(s) : p.orderId \in OrdersOf(s) /\ p.orderId # id
  <2>1. \A p \in WaitingIn(s) : p.orderId \in OrdersOf(s)
    BY <1>3, IdsOfBook
  <2> QED BY <1>3, <1>5, <2>1
<1>9. \A p \in WaitingIn(s) : untraded[p.orderId] = RemainingQuantity(p)
  BY <1>3, WaitsInFullBetween
<1>10. SidesApart(s)' /\ WaitsOnce(s)' /\ WaitsAlone(s)'
  BY <1>2, <1>7 DEF BookOK, SidesApart, WaitsOnce, WaitsAlone, OrderSides
<1>11. WaitsInFull(s)'
  BY <1>4, <1>5, <1>7, <1>8, <1>9 DEF WaitsInFull
<1>12. NoneOverfilled(s)'
  BY <1>3, <1>4, <1>5 DEF BookOK, NoneOverfilled
<1>13. NoneLost(s)'
  <2> SUFFICES ASSUME NEW i \in OrdersOf(s)', submitted'[i].type = "LIMIT", i \notin cancelled,
                      untraded'[i] > 0, i # id
               PROVE  \E p \in WaitingIn(s) : p.orderId = i
    <3>1. incoming'[t].orderId = id
      BY <1>2 DEF o
    <3> QED BY <1>2, <1>6, <1>7, <3>1 DEF NoneLost, InHand
  <2>1. i \in OrdersOf(s) /\ submitted[i].type = "LIMIT" /\ untraded[i] > 0
    BY <1>4, <1>5
  <2> QED BY <2>1 DEF BookOK, NoneLost
<1>14. InCall(t, s)'
  <2>1. incoming'[t].orderId = id /\ RemainingQuantity(incoming[t])' + matchQty'[t] = request.quantity
    BY <1>2, <1>3 DEF o, RemainingQuantity
  <2> QED BY <1>2, <1>3, <1>4, <1>7, <1>8, <2>1 DEF InCall
<1>15. BookOK(s)'
  BY <1>6, <1>10, <1>11, <1>12, <1>13, <1>14 DEF BookOK
<1> QED BY <1>15

LEMMA CancelOrderKeepsBook ==
  ASSUME HistoryBase, NEW t \in Threads, NEW s \in Symbols, NEW id \in OrderIds,
         CancelOrderH(t, s, id), BookOK(s), Callers(s) = {}
  PROVE  BookOK(s)'
<1>1. /\ EngineInv /\ CancelOrder(t, s, id) /\ pc' = pc /\ incoming' = incoming
      /\ untraded' = untraded /\ submitted' = submitted /\ orderCount' = orderCount
      /\ cancelled' = cancelled \cup {id}
  BY DEF HistoryBase, ReportInv, CancelOrderH, CancelOrder, localVars
<1>2. PICK side \in OrderSides : \E x \in Elements(book[s][side]) : x.orderId = id /\ Taken(s, side, x)
  BY <1>1, CancelTakes
<1>3. PICK x \in Elements(book[s][side]) : x.orderId = id /\ Taken(s, side, x)
  BY <1>2
<1>4. /\ x \in WaitingIn(s) /\ WaitingIn(s)' = WaitingIn(s) \ {x}
      /\ WaitsOnce(s)' /\ SidesApart(s)'
  BY <1>3, TakenFromBook
<1>5. OrdersOf(s)' = OrdersOf(s) /\ Callers(s)' = {}
  BY <1>1 DEF OrdersOf, Callers, Inside
<1>6. \A p \in WaitingIn(s) : untraded[p.orderId] = RemainingQuantity(p)
  BY WaitsInFullBetween
<1>7. WaitsAlone(s)' /\ NoneOverfilled(s)'
  BY <1>1, <1>3, <1>4, <1>5 DEF BookOK, WaitsAlone, NoneOverfilled
<1>8. WaitsInFull(s)'
  BY <1>1, <1>4, <1>6 DEF WaitsInFull
<1>9. NoneLost(s)'
  BY <1>1, <1>3, <1>4, <1>5 DEF BookOK, NoneLost
<1> QED BY <1>4, <1>5, <1>7, <1>8, <1>9 DEF BookOK

(* Cancelled orders were submitted.                                        *)
LEMMA CancelledWereSubmitted ==
  ASSUME HistoryBase, cancelled \subseteq 1 .. orderCount, [HistoryNext]_historyVars
  PROVE  (cancelled \subseteq 1 .. orderCount)'
<1>1. CASE UNCHANGED historyVars
  BY <1>1 DEF historyVars, history, vars
<1>2. CASE HistoryNext
  <2>1. PICK t \in Threads :
          \/ \E request \in OrderRequest, now \in Timestamps : ProcessOrderH(t, request, now)
          \/ AdvanceH(t)
          \/ ReturnH(t)
          \/ \E s \in Symbols, id \in OrderIds : CancelOrderH(t, s, id)
    BY <1>2 DEF HistoryNext
  <2>2. ASSUME NEW request \in OrderRequest, NEW now \in Timestamps, ProcessOrderH(t, request, now)
        PROVE  (cancelled \subseteq 1 .. orderCount)'
    <3>1. cancelled' = cancelled /\ orderCount' = orderCount + 1 /\ orderCount \in Nat
      BY <2>2, EngineAssumption
         DEF ProcessOrderH, ProcessOrder, HistoryBase, ReportInv, EngineInv, TypeOK
    <3> QED BY <3>1
  <2>3. ASSUME AdvanceH(t) \/ ReturnH(t) PROVE (cancelled \subseteq 1 .. orderCount)'
    <3>1. cancelled' = cancelled /\ orderCount' = orderCount
      <4>1. AdvanceH(t) => Advance(t) /\ cancelled' = cancelled
        BY DEF AdvanceH, history
      <4>2. Advance(t) => orderCount' = orderCount
        BY AdvanceFrame DEF HistoryBase, ReportInv
      <4> QED BY <2>3, <4>1, <4>2 DEF ReturnH, Return
    <3> QED BY <3>1
  <2>4. ASSUME NEW s \in Symbols, NEW id \in OrderIds, CancelOrderH(t, s, id)
        PROVE  (cancelled \subseteq 1 .. orderCount)'
    <3>1. CancelOrder(t, s, id) /\ cancelled' = cancelled \cup {id} /\ orderCount' = orderCount
      BY <2>4 DEF CancelOrderH, CancelOrder
    <3>2. \E side \in OrderSides : \E x \in Elements(book[s][side]) : x.orderId = id
      BY <3>1, CancelTakes DEF HistoryBase, ReportInv
    <3>3. id \in OrdersOf(s)
      BY <3>2, IdsOfBook
    <3> QED BY <3>1, <3>3 DEF OrdersOf
  <2> QED BY <2>1, <2>2, <2>3, <2>4
<1> QED BY <1>1, <1>2

(* A step of a call in another book, or of none.                           *)
LEMMA StepsElsewhere ==
  ASSUME HistoryBase, NEW t \in Threads, NEW s \in Symbols,
         \/ AdvanceH(t) /\ ~Inside(t, s)
         \/ ReturnH(t)
         \/ \E request \in OrderRequest, now \in Timestamps :
              ProcessOrderH(t, request, now) /\ request.symbol # s
         \/ \E r \in Symbols, id \in OrderIds : CancelOrderH(t, r, id) /\ r # s
  PROVE  SameBook(s)
<1>1. EngineInv /\ TypeOK /\ SubmittedOK
  BY DEF HistoryBase, ReportInv, EngineInv, CopiesOK
<1>2. CASE AdvanceH(t) /\ ~Inside(t, s)
  <2>1. Advance(t) /\ submitted' = submitted /\ cancelled' = cancelled
    BY <1>2 DEF AdvanceH, history
  <2> DEFINE r == incoming[t].symbol
  <2>2. /\ orderCount' = orderCount
        /\ \A u \in Threads : u # t =>
             /\ pc'[u] = pc[u] /\ incoming'[u] = incoming[u]
             /\ maker'[u] = maker[u] /\ matchQty'[u] = matchQty[u]
        /\ incoming'[t].symbol = r /\ r \in Symbols
        /\ pc[t] \in InsideLabels
        /\ book'[s] = book[s] \/ r = s
        /\ pc[t] = "trade" \/ untraded' = untraded
    BY <1>1, <2>1, AdvanceFrame DEF InsideLabels
  <2>3. r # s /\ Inside(t, r) /\ ~Inside(t, s)'
    BY <1>2, <2>2 DEF Inside, InsideLabels
  <2>4. ASSUME NEW id \in OrdersOf(s) PROVE untraded'[id] = untraded[id]
    <3>1. CASE pc[t] = "trade"
      <4>1. /\ incoming[t].orderId \in OrdersOf(r) /\ maker[t].orderId \in OrdersOf(r)
        BY <2>2, <2>3, <3>1, IdsOfBook DEF Callers
      <4>2. id # incoming[t].orderId /\ id # maker[t].orderId
        BY <2>3, <4>1 DEF OrdersOf
      <4>3. ExecuteTrade(t)
        BY <1>1, <2>1, <3>1 DEF Advance, Test, Throw, Peek, Pop, Refill, LoadTradeId, Rest
      <4>4. id \in OrderIds /\ untraded \in [OrderIds -> Int]
        BY <1>1, EngineAssumption DEF OrdersOf, TypeOK, OrderIds
      <4>5. untraded' = [untraded EXCEPT ![incoming[t].orderId] = @ - matchQty[t],
                                         ![maker[t].orderId] = @ - matchQty[t]]
        BY <4>3 DEF ExecuteTrade
      <4> QED BY <4>2, <4>4, <4>5
    <3>2. CASE pc[t] # "trade"
      BY <2>2, <3>2
    <3> QED BY <3>1, <3>2
  <2>5. OrdersOf(s)' = OrdersOf(s)
    BY <2>1, <2>2 DEF OrdersOf
  <2>6. \A u \in Threads : Inside(u, s)' <=> Inside(u, s)
    BY <1>2, <2>2, <2>3 DEF Inside
  <2>7. \A u \in Callers(s) : u # t
    BY <1>2 DEF Callers
  <2> QED BY <2>1, <2>2, <2>3, <2>4, <2>5, <2>6, <2>7 DEF SameBook, Callers
<1>3. CASE ReturnH(t)
  <2>1. /\ book' = book /\ orderCount' = orderCount /\ untraded' = untraded
        /\ submitted' = submitted /\ cancelled' = cancelled
        /\ pc[t] \in {"done", "threw"} /\ pc'[t] = "idle"
        /\ \A u \in Threads : u # t =>
             /\ pc'[u] = pc[u] /\ incoming'[u] = incoming[u]
             /\ maker'[u] = maker[u] /\ matchQty'[u] = matchQty[u]
    BY <1>1, <1>3 DEF ReturnH, Return, ClearLocals, Goto, bookVars, TypeOK
  <2>2. \A u \in Threads : Inside(u, s)' <=> Inside(u, s)
    BY <2>1 DEF Inside
  <2>3. \A u \in Callers(s) : u # t /\ u \in Threads
    BY <2>1 DEF Callers, Inside
  <2> QED BY <2>1, <2>2, <2>3 DEF SameBook, OrdersOf
<1>4. ASSUME NEW request \in OrderRequest, NEW now \in Timestamps,
             ProcessOrderH(t, request, now), request.symbol # s
      PROVE  SameBook(s)
  <2> DEFINE id == orderCount + 1
  <2>1. /\ pc[t] = "idle" /\ book' = book /\ orderCount' = id /\ orderCount \in Nat
        /\ id \in OrderIds /\ cancelled' = cancelled /\ maker' = maker /\ matchQty' = matchQty
        /\ incoming'[t].symbol = request.symbol
        /\ untraded' = [untraded EXCEPT ![id] = request.quantity]
        /\ submitted' = [submitted EXCEPT ![id] = incoming'[t]]
        /\ \A u \in Threads : u # t => pc'[u] = pc[u] /\ incoming'[u] = incoming[u]
    BY <1>1, <1>4, EngineAssumption DEF ProcessOrderH, ProcessOrder, Goto, bookVars, TypeOK, OrderIds
  <2>2. \A u \in Threads : Inside(u, s)' <=> Inside(u, s)
    BY <1>4, <2>1 DEF Inside
  <2>3. \A u \in Callers(s) : u # t /\ u \in Threads
    BY <2>1 DEF Callers, Inside
  <2>4. \A i \in 1 .. orderCount : untraded'[i] = untraded[i] /\ submitted'[i] = submitted[i]
    BY <2>1
  <2>5. submitted'[id].symbol # s
    BY <1>1, <1>4, <2>1 DEF SubmittedOK
  <2>6. OrdersOf(s)' = OrdersOf(s)
    <3>1. 1 .. id = (1 .. orderCount) \cup {id}
      BY <2>1
    <3> QED BY <2>1, <2>4, <2>5, <3>1 DEF OrdersOf
  <2>7. OrdersOf(s) \subseteq 1 .. orderCount
    BY DEF OrdersOf
  <2> QED BY <2>1, <2>2, <2>3, <2>4, <2>6, <2>7 DEF SameBook
<1>5. ASSUME NEW r \in Symbols, NEW id \in OrderIds, CancelOrderH(t, r, id), r # s
      PROVE  SameBook(s)
  <2>1. /\ CancelOrder(t, r, id) /\ pc' = pc /\ incoming' = incoming /\ maker' = maker
        /\ matchQty' = matchQty /\ untraded' = untraded /\ submitted' = submitted
        /\ orderCount' = orderCount /\ cancelled' = cancelled \cup {id}
    BY <1>5 DEF CancelOrderH, CancelOrder, localVars
  <2>2. PICK side \in OrderSides : \E x \in Elements(book[r][side]) : x.orderId = id /\ Taken(r, side, x)
    BY <1>1, <2>1, CancelTakes
  <2>3. PICK x \in Elements(book[r][side]) : x.orderId = id /\ Taken(r, side, x)
    BY <2>2
  <2>4. book'[s] = book[s]
    BY <1>1, <1>5, <2>3, SetHeapElsewhere DEF Taken, TypeOK
  <2>5. id \in OrdersOf(r)
    BY <2>3, IdsOfBook
  <2>6. \A i \in OrdersOf(s) : i # id
    BY <1>5, <2>5 DEF OrdersOf
  <2> QED BY <2>1, <2>4, <2>6 DEF SameBook, OrdersOf, Inside
<1> QED BY <1>2, <1>3, <1>4, <1>5

LEMMA HistoryInvIsInductive ==
  /\ HistoryInit => HistoryInv /\ cancelled \subseteq 1 .. orderCount
  /\ HistoryInv /\ cancelled \subseteq 1 .. orderCount /\ [HistoryNext]_historyVars
       => HistoryInv' /\ (cancelled \subseteq 1 .. orderCount)'
<1>1. ASSUME HistoryInit PROVE HistoryInv /\ cancelled \subseteq 1 .. orderCount
  <2>1. HistoryBase /\ EngineInit
    BY <1>1, HistoryBaseIsInductive DEF HistoryInit
  <2>2. cancelled = {} /\ orderCount = 0
    BY <1>1, <2>1 DEF HistoryInit, EngineInit
  <2>3. ASSUME NEW s \in Symbols PROVE BookOK(s)
    <3>1. \A side \in OrderSides : Elements(book[s][side]) = {}
      BY <2>1, EmptyQueueIsHeap DEF EngineInit
    <3>2. WaitingIn(s) = {} /\ Callers(s) = {} /\ OrdersOf(s) = {}
      BY <2>1, <2>2, <3>1 DEF WaitingIn, OrderSides, Callers, Inside, OrdersOf, EngineInit
    <3> QED BY <3>1, <3>2 DEF BookOK, SidesApart, WaitsOnce, WaitsAlone, WaitsInFull,
                              NoneOverfilled, NoneLost, OrderSides
  <2> QED BY <2>1, <2>2, <2>3 DEF HistoryInv
<1>2. ASSUME HistoryInv, cancelled \subseteq 1 .. orderCount, [HistoryNext]_historyVars
      PROVE  HistoryInv' /\ (cancelled \subseteq 1 .. orderCount)'
  <2>1. HistoryBase /\ HistoryBase' /\ (cancelled \subseteq 1 .. orderCount)'
    BY <1>2, HistoryBaseIsInductive, CancelledWereSubmitted DEF HistoryInv
  <2>2. met \subseteq met'
    BY <1>2 DEF HistoryNext, ProcessOrderH, AdvanceH, ReturnH, CancelOrderH, Meet, history, historyVars
  <2>3. ASSUME NEW s \in Symbols \ met' PROVE BookOK(s)'
    <3>1. BookOK(s) /\ s \notin met
      BY <1>2, <2>2, <2>3 DEF HistoryInv
    <3>2. SameBook(s) => BookOK(s)'
      BY <2>1, <3>1, SameBookStaysOK
    <3>3. CASE UNCHANGED historyVars
      <4>1. SameBook(s)
        BY <3>3 DEF SameBook, historyVars, history, vars, bookVars, localVars, Inside, OrdersOf, Callers
      <4> QED BY <3>2, <4>1
    <3>4. CASE HistoryNext
      <4>1. PICK t \in Threads :
              \/ \E request \in OrderRequest, now \in Timestamps : ProcessOrderH(t, request, now)
              \/ AdvanceH(t)
              \/ ReturnH(t)
              \/ \E r \in Symbols, id \in OrderIds : CancelOrderH(t, r, id)
        BY <3>4 DEF HistoryNext
      <4>2. ASSUME NEW request \in OrderRequest, NEW now \in Timestamps, ProcessOrderH(t, request, now)
            PROVE  BookOK(s)'
        <5>1. CASE request.symbol = s
          <6>1. Callers(s) = {}
            BY <2>3, <4>2, <5>1 DEF ProcessOrderH, Meet
          <6> QED BY <1>2, <2>1, <3>1, <4>2, <5>1, <6>1, ProcessOrderKeepsBook
        <5>2. CASE request.symbol # s
          BY <2>1, <3>2, <4>2, <5>2, StepsElsewhere
        <5> QED BY <5>1, <5>2
      <4>3. ASSUME AdvanceH(t) PROVE BookOK(s)'
        <5>1. CASE Inside(t, s)
          <6>1. OnlyCall(t, s)
            BY <2>1, <3>1, <5>1, Alone DEF OnlyCall, HistoryBase
          <6> QED BY <4>3, <6>1, AdvanceKeepsBook
        <5>2. CASE ~Inside(t, s)
          BY <2>1, <3>2, <4>3, <5>2, StepsElsewhere
        <5> QED BY <5>1, <5>2
      <4>4. ReturnH(t) => BookOK(s)'
        BY <2>1, <3>2, StepsElsewhere
      <4>5. ASSUME NEW r \in Symbols, NEW id \in OrderIds, CancelOrderH(t, r, id) PROVE BookOK(s)'
        <5>1. CASE r = s
          <6>1. Callers(s) = {}
            BY <2>3, <4>5, <5>1 DEF CancelOrderH, Meet
          <6> QED BY <2>1, <3>1, <4>5, <5>1, <6>1, CancelOrderKeepsBook
        <5>2. CASE r # s
          BY <2>1, <3>2, <4>5, <5>2, StepsElsewhere
        <5> QED BY <5>1, <5>2
      <4> QED BY <4>1, <4>2, <4>3, <4>4, <4>5
    <3> QED BY <1>2, <3>3, <3>4
  <2> QED BY <2>1, <2>3 DEF HistoryInv
<1> QED BY <1>1, <1>2

-----------------------------------------------------------------------------
(* The theorems, for any number of threads and books.                      *)

THEOREM HistoryInvariant == HistorySpec => []HistoryInv
<1> DEFINE Inv == HistoryInv /\ cancelled \subseteq 1 .. orderCount
<1>1. HistoryInit => Inv
  BY HistoryInvIsInductive
<1>2. Inv /\ [HistoryNext]_historyVars => Inv'
  BY HistoryInvIsInductive
<1>3. Inv => HistoryInv
  OBVIOUS
<1> QED BY <1>1, <1>2, <1>3, PTL DEF HistorySpec

(* Whatever the other threads do, a call that shares its book with no      *)
(* other and with no cancellation never finds a heap empty that it tested  *)
(* to be not empty.                                                        *)
THEOREM ThrowsOnlyWhereCallsMet == HistorySpec => []NeverThrows
<1>1. HistoryInv => NeverThrows
  BY DEF HistoryInv, HistoryBase, FindsItsMaker, NeverThrows
<1> QED BY <1>1, HistoryInvariant, PTL

(* A book in which no two calls ever met is not crossed when none is at    *)
(* work on it, whatever happens in the other books.                        *)
THEOREM BookCrossedOnlyWhereCallsMet == HistorySpec => []BookUncrossed
<1>1. HistoryInv => BookUncrossed
  BY DEF HistoryInv, BookOK, SidesApart, BookUncrossed
<1> QED BY <1>1, HistoryInvariant, PTL

(* A match of a call that has met no other is with an order none of the    *)
(* waiting orders ranks above, and takes that very order from its heap.    *)
THEOREM PriorityHoldsWhereNoCallsMeet == HistorySpec => PriceTimePriority
<1>1. ASSUME HistoryBase, [HistoryNext]_historyVars
      PROVE  [\A t \in Threads \ disturbed : Matches(t) => MatchesTheBest(t)]_historyVars
  <2> SUFFICES ASSUME HistoryNext, NEW t \in Threads \ disturbed, pc[t] = "pop",
                      pc'[t] \in {"refill", "loadId"}
               PROVE  MatchesTheBest(t)
    BY <1>1 DEF Matches
  <2> DEFINE o == incoming[t]
             m == maker[t]
             side == MakerSide(o)
             heap == MakerHeap(o)
  <2>1. EngineInv /\ TypeOK /\ TopsAreBest /\ FindsItsMaker(t)
    BY <1>1 DEF HistoryBase, ReportInv, EngineInv
  <2>2. Advance(t)
    <3>1. PICK u \in Threads :
            \/ \E request \in OrderRequest, now \in Timestamps : ProcessOrderH(u, request, now)
            \/ AdvanceH(u)
            \/ ReturnH(u)
            \/ \E s \in Symbols, id \in OrderIds : CancelOrderH(u, s, id)
      BY DEF HistoryNext
    <3>2. CASE u # t
      <4>1. pc'[t] = pc[t]
        <5>1. AdvanceH(u) => pc'[t] = pc[t]
          BY <2>1, <3>2, AdvanceFrame DEF AdvanceH
        <5> QED BY <2>1, <3>1, <3>2, <5>1
                DEF ProcessOrderH, ProcessOrder, ReturnH, Return, CancelOrderH, CancelOrder, Goto, TypeOK
      <4> QED BY <4>1
    <3>3. CASE u = t
      BY <3>1, <3>3 DEF ProcessOrderH, ProcessOrder, AdvanceH, ReturnH, Return, CancelOrderH, CancelOrder
    <3> QED BY <3>2, <3>3
  <2>3. Pop(t)
    BY <2>1, <2>2 DEF Advance, Test, Throw, Peek, Refill, LoadTradeId, ExecuteTrade, Rest, FindsItsMaker
  <2>4. /\ ~IsEmpty(heap) /\ heap.top = m /\ IsHeap(heap)
        /\ o.symbol \in Symbols /\ side \in OrderSides
        /\ \A p \in Elements(heap) : p.side = side
    BY <2>1, <2>3, CallFacts DEF Pop, FindsItsMaker, RestsProperly
  <2>5. m \in Elements(heap) /\ TopIsBest(heap)
    BY <2>1, <2>4 DEF IsHeap, TopsAreBest, MakerHeap
  <2>6. \A p \in Elements(heap) : ~HasPriority(p, m)
    <3>1. \A p \in Elements(heap) : ~OrderRanksBelow(m, p)
      BY <2>4, <2>5 DEF TopIsBest
    <3>2. m.side = side /\ side \in {"BUY", "SELL"}
      BY <2>4, <2>5 DEF OrderSides
    <3>3. /\ \A p \in Elements(heap) : p.price \in Nat /\ p.timestamp \in Nat
          /\ m.price \in Nat /\ m.timestamp \in Nat
      BY <2>4, <2>5, OrderFields, OrderTimes DEF IsHeap
    <3> QED BY <2>4, <3>1, <3>2, <3>3
            DEF HasPriority, OrderRanksBelow, BuyOrderComparator, SellOrderComparator
  <2>7. Taken(o.symbol, side, m)
    BY <2>1, <2>3, <2>4, PopTakes
  <2>8. book'[o.symbol][side].items = heap.items (-) SetToBag({m})
    <3>1. book'[o.symbol][side].items = book[o.symbol][side].items (-) SetToBag({m})
      BY <2>1, <2>4, <2>7, WhatIsTaken
    <3> QED BY <3>1 DEF MakerHeap
  <2> QED BY <2>6, <2>8 DEF MatchesTheBest
<1>2. HistoryInit => HistoryBase
  BY HistoryBaseIsInductive
<1>3. HistoryBase /\ [HistoryNext]_historyVars => HistoryBase'
  BY HistoryBaseIsInductive
<1> QED BY <1>1, <1>2, <1>3, PTL DEF HistorySpec, PriceTimePriority

-----------------------------------------------------------------------------
(* Where the shares are.                                                   *)

Quiet(s) == s \in Symbols \ met /\ Callers(s) = {}

(* What a waiting copy tells of its order, between the calls of its book.  *)
LEMMA WaitingInQuiet ==
  ASSUME HistoryInv, NEW s, Quiet(s), NEW side \in OrderSides, NEW p \in Elements(book[s][side])
  PROVE  p = Remainder(p.orderId) /\ p.orderId \in Standing(s, side)
<1>1. HistoryBase /\ BookOK(s) /\ s \in Symbols /\ Callers(s) = {} /\ EngineInv
  BY DEF HistoryInv, Quiet, HistoryBase, ReportInv
<1> DEFINE id == p.orderId
           c == submitted[id]
<1>2. p \in WaitingIn(s) /\ p \in Order /\ id \in OrdersOf(s) /\ RemainingQuantity(p) > 0
  BY <1>1, IdsOfBook
<1>3. untraded[id] = RemainingQuantity(p) /\ id \notin cancelled
  BY <1>1, <1>2, WaitsInFullBetween DEF BookOK, WaitsAlone
<1>4. c \in Order /\ CopyOf(p, orderCount, submitted)
  BY <1>1, <1>2 DEF HistoryBase, CopiesOK, SubmittedOK, BooksHoldCopies, IsCopy, OrdersOf
<1>5. RestsProperly(s, side, p)
  BY <1>1 DEF EngineInv, RestingOrdersAreLive
<1>6. c.quantity = p.quantity /\ c.side = side /\ c.type = "LIMIT"
  BY <1>4, <1>5, CopyFields DEF RestsProperly
<1>7. id \in Standing(s, side)
  BY <1>2, <1>3, <1>6 DEF Standing
<1>8. p.quantity \in Nat /\ p.filledQuantity \in Nat
  BY <1>2, OrderFields
<1>9. c.quantity - untraded[id] = p.filledQuantity
  BY <1>3, <1>6, <1>8 DEF RemainingQuantity
<1>10. p = [c EXCEPT !.filledQuantity = p.filledQuantity, !.status = p.status]
  BY <1>4 DEF CopyOf
<1>11. p = Remainder(id)
  BY <1>5, <1>9, <1>10 DEF Remainder, RestsProperly
<1> QED BY <1>7, <1>11

LEMMA StandingWaits ==
  ASSUME HistoryInv, NEW s, Quiet(s), NEW side \in OrderSides, NEW id \in Standing(s, side)
  PROVE  Remainder(id) \in Elements(book[s][side])
<1>1. HistoryBase /\ BookOK(s) /\ s \in Symbols /\ Callers(s) = {}
  BY DEF HistoryInv, Quiet
<1>2. PICK p \in WaitingIn(s) : p.orderId = id
  BY <1>1 DEF BookOK, NoneLost, Standing
<1>3. p \in Elements(book[s][p.side]) /\ p \in Order /\ p.side \in OrderSides
  BY <1>1, <1>2, IdsOfBook, OrderFields
<1>4. p = Remainder(id) /\ id \in Standing(s, p.side)
  BY <1>2, <1>3, WaitingInQuiet
<1>5. p.side = side
  BY <1>4 DEF Standing
<1> QED BY <1>3, <1>4, <1>5

(* No order of a book in which no calls ever met trades more shares than   *)
(* it asked for, and between its calls every limit order with shares left  *)
(* that was not cancelled waits in it, once and with those shares, beside  *)
(* nothing else: no fill, refill or rest loses or doubles any.             *)
THEOREM SharesLostOnlyWhereCallsMet == HistorySpec => []SharesConserved
<1>1. ASSUME HistoryInv PROVE SharesConserved
  <2> SUFFICES ASSUME NEW s \in Symbols \ met
               PROVE  /\ \A id \in OrdersOf(s) : untraded[id] >= 0
                      /\ Callers(s) = {} =>
                           \A side \in OrderSides :
                             book[s][side].items
                               = SetToBag({Remainder(id) : id \in Standing(s, side)})
    BY DEF SharesConserved
  <2>1. \A id \in OrdersOf(s) : untraded[id] >= 0
    BY <1>1 DEF HistoryInv, BookOK, NoneOverfilled
  <2>2. ASSUME Callers(s) = {}, NEW side \in OrderSides
        PROVE  book[s][side].items = SetToBag({Remainder(id) : id \in Standing(s, side)})
    <3> DEFINE E == Elements(book[s][side])
               S == {Remainder(id) : id \in Standing(s, side)}
               items == book[s][side].items
    <3>1. Quiet(s)
      BY <2>2 DEF Quiet
    <3>2. \A p \in E : p = Remainder(p.orderId) /\ p.orderId \in Standing(s, side)
      BY <1>1, <3>1, WaitingInQuiet
    <3>3. \A id \in Standing(s, side) : Remainder(id) \in E
      BY <1>1, <3>1, StandingWaits
    <3>4. E = S
      <4> HIDE DEF E
      <4> QED BY <3>2, <3>3
    <3>5. IsHeap(book[s][side])
      BY <1>1 DEF HistoryInv, HistoryBase, ReportInv, EngineInv, TypeOK, BookTypeOK
    <3>6. E = DOMAIN items /\ items \in [DOMAIN items -> {n \in Nat : n > 0}]
      BY <3>5 DEF IsHeap, IsABag, Elements, BagToSet
    <3>7. \A p \in E : items[p] = 1
      BY <1>1 DEF HistoryInv, BookOK, WaitsOnce
    <3> HIDE DEF E, S, items
    <3>8. items = [p \in E |-> 1]
      BY <3>6, <3>7
    <3> QED BY <3>4, <3>8 DEF SetToBag, S, items
  <2> QED BY <2>1, <2>2
<1> QED BY <1>1, HistoryInvariant, PTL

-----------------------------------------------------------------------------
(* Prices in the order of their levels.                                    *)

IsRanking(f, n, prices, side) ==
  /\ f \in [1 .. n -> prices]
  /\ \A p \in prices : \E i \in 1 .. n : f[i] = p
  /\ \A i, j \in 1 .. n : i < j => Outward(side, f[i], f[j])

IsOutermost(x, prices, side) ==
  x \in prices /\ \A p \in prices : p = x \/ Outward(side, p, x)

LEMMA OutermostExists ==
  ASSUME NEW S, IsFiniteSet(S), S \subseteq Int, NEW side, S # {}
  PROVE  \E x : IsOutermost(x, S, side)
<1> DEFINE P == {n \in Nat : \A s \in SUBSET S :
                               Cardinality(s) = n /\ s # {} => \E x : IsOutermost(x, s, side)}
<1>1. ASSUME NEW s \in SUBSET S
      PROVE  IsFiniteSet(s) /\ Cardinality(s) \in Nat /\ (Cardinality(s) = 0 <=> s = {})
  BY FS_Subset, FS_CardinalityType, FS_EmptySet
<1>2. 0 \in P
  BY <1>1
<1>3. ASSUME NEW n \in Nat, n \in P PROVE n + 1 \in P
  <2> SUFFICES ASSUME NEW s \in SUBSET S, Cardinality(s) = n + 1, s # {}
               PROVE  \E x : IsOutermost(x, s, side)
    OBVIOUS
  <2>1. PICK y \in s : TRUE
    OBVIOUS
  <2> DEFINE rest == s \ {y}
  <2>2. rest \in SUBSET S /\ Cardinality(rest) = n
    <3>1. Cardinality(rest) = Cardinality(s) - 1
      BY <1>1, <2>1, OneLess
    <3> QED BY <3>1
  <2>3. CASE rest = {}
    <3>1. s = {y}
      BY <2>1, <2>3
    <3> QED BY <3>1 DEF IsOutermost
  <2>4. CASE rest # {}
    <3>1. PICK x : IsOutermost(x, rest, side)
      <4> HIDE DEF rest
      <4> QED BY <1>3, <2>2, <2>4
    <3>2. x \in Int /\ y \in Int /\ \A p \in rest : p \in Int
      BY <2>1, <3>1 DEF IsOutermost
    <3>3. CASE Outward(side, y, x)
      BY <3>1, <3>3 DEF IsOutermost
    <3>4. CASE ~Outward(side, y, x)
      <4>1. y # x
        BY <3>1 DEF IsOutermost
      <4>2. Outward(side, x, y)
        BY <3>2, <3>4, <4>1 DEF Outward
      <4>3. ASSUME NEW p \in rest PROVE Outward(side, p, y)
        <5>1. p = x \/ Outward(side, p, x)
          BY <3>1 DEF IsOutermost
        <5> QED BY <3>2, <4>2, <5>1 DEF Outward
      <4>4. IsOutermost(y, s, side)
        BY <2>1, <4>3 DEF IsOutermost
      <4> QED BY <4>4
    <3> QED BY <3>3, <3>4
  <2> QED BY <2>3, <2>4
<1> HIDE DEF P
<1>4. Cardinality(S) \in P
  BY <1>1, <1>2, <1>3, NatInductionOnSet
<1> QED BY <1>4 DEF P

LEMMA RankingExists ==
  ASSUME NEW S, IsFiniteSet(S), S \subseteq Int, NEW side
  PROVE  \E f : IsRanking(f, Cardinality(S), S, side)
<1> DEFINE P == {n \in Nat : \A s \in SUBSET S :
                               Cardinality(s) = n => \E f : IsRanking(f, n, s, side)}
<1>1. ASSUME NEW s \in SUBSET S
      PROVE  IsFiniteSet(s) /\ Cardinality(s) \in Nat /\ (Cardinality(s) = 0 <=> s = {})
  BY FS_Subset, FS_CardinalityType, FS_EmptySet
<1>2. 0 \in P
  <2>1. ASSUME NEW f, f = [i \in 1 .. 0 |-> i] PROVE IsRanking(f, 0, {}, side)
    BY <2>1 DEF IsRanking
  <2> QED BY <1>1, <2>1
<1>3. ASSUME NEW n \in Nat, n \in P PROVE n + 1 \in P
  <2> SUFFICES ASSUME NEW s \in SUBSET S, Cardinality(s) = n + 1
               PROVE  \E f : IsRanking(f, n + 1, s, side)
    OBVIOUS
  <2>1. s # {} /\ IsFiniteSet(s) /\ s \subseteq Int
    BY <1>1
  <2>2. PICK x : IsOutermost(x, s, side)
    BY <2>1, OutermostExists
  <2> DEFINE rest == s \ {x}
  <2>3. x \in s /\ \A p \in rest : Outward(side, p, x)
    BY <2>2 DEF IsOutermost
  <2>4. rest \in SUBSET S /\ Cardinality(rest) = n
    <3>1. Cardinality(rest) = Cardinality(s) - 1
      BY <2>1, <2>3, OneLess
    <3>2. rest \in SUBSET S
      OBVIOUS
    <3> HIDE DEF rest
    <3> QED BY <3>1, <3>2
  <2>5. PICK f : IsRanking(f, n, rest, side)
    <3> HIDE DEF rest
    <3> QED BY <1>3, <2>4
  <2> DEFINE g == [i \in 1 .. n + 1 |-> IF i = n + 1 THEN x ELSE f[i]]
  <2>6. /\ g[n + 1] = x /\ n + 1 \in 1 .. n + 1
        /\ \A i \in 1 .. n : g[i] = f[i] /\ f[i] \in rest /\ i \in 1 .. n + 1
        /\ \A i \in 1 .. n + 1 : i = n + 1 \/ i \in 1 .. n
        /\ DOMAIN g = 1 .. n + 1
    BY <2>5 DEF IsRanking
  <2>7. g \in [1 .. n + 1 -> s]
    BY <2>3, <2>6
  <2>8. ASSUME NEW p \in s PROVE \E i \in 1 .. n + 1 : g[i] = p
    <3>1. CASE p = x
      BY <2>6, <3>1
    <3>2. CASE p # x
      <4>1. PICK i \in 1 .. n : f[i] = p
        BY <2>5, <3>2 DEF IsRanking
      <4> QED BY <2>6, <4>1
    <3> QED BY <3>1, <3>2
  <2>9. ASSUME NEW i \in 1 .. n + 1, NEW j \in 1 .. n + 1, i < j
        PROVE  Outward(side, g[i], g[j])
    <3>1. i \in 1 .. n
      BY <2>9
    <3>2. CASE j = n + 1
      BY <2>3, <2>6, <3>1, <3>2
    <3>3. CASE j \in 1 .. n
      <4>1. Outward(side, f[i], f[j])
        BY <2>5, <2>9, <3>1, <3>3 DEF IsRanking
      <4> QED BY <2>6, <3>1, <3>3, <4>1
    <3> QED BY <3>2, <3>3
  <2> HIDE DEF g
  <2>10. IsRanking(g, n + 1, s, side)
    BY <2>7, <2>8, <2>9 DEF IsRanking
  <2> QED BY <2>10
<1> HIDE DEF P
<1>4. Cardinality(S) \in P
  BY <1>1, <1>2, <1>3, NatInductionOnSet
<1> QED BY <1>4 DEF P

(* What Ranked chooses is a ranking.                                       *)
LEMMA RankedRanks ==
  ASSUME NEW S, IsFiniteSet(S), S \subseteq Int, NEW side
  PROVE  IsRanking(Ranked(S, side), Cardinality(S), S, side)
<1> DEFINE n == Cardinality(S)
           Fits(f) == /\ f \in SetToSeqs(S)
                      /\ \A i, j \in DOMAIN f : i < j => Outward(side, f[i], f[j])
<1>1. n \in Nat
  BY FS_CardinalityType
<1>2. \E f : Fits(f)
  <2>1. PICK f : IsRanking(f, n, S, side)
    BY RankingExists
  <2>2. f \in [1 .. n -> S] /\ \A i, j \in 1 .. n : i < j => Outward(side, f[i], f[j])
    BY <2>1 DEF IsRanking
  <2>3. ASSUME NEW i \in 1 .. n, NEW j \in 1 .. n, i # j PROVE f[i] # f[j]
    <3>1. f[i] \in S /\ f[j] \in S
      BY <2>2
    <3>2. f[i] \in Int /\ f[j] \in Int
      BY <3>1, Zenon
    <3>3. i < j \/ j < i
      <4> HIDE DEF n
      <4> QED BY <1>1, <2>3
    <3>4. Outward(side, f[i], f[j]) \/ Outward(side, f[j], f[i])
      BY <2>2, <3>3
    <3> QED BY <3>2, <3>4 DEF Outward
  <2>4. f \in SetToSeqs(S)
    BY <2>2, <2>3 DEF SetToSeqs
  <2> QED BY <2>2, <2>4
<1>3. Fits(Ranked(S, side))
  <2>1. Ranked(S, side) = CHOOSE f : Fits(f)
    BY DEF Ranked
  <2> HIDE DEF Fits
  <2> QED BY <1>2, <2>1
<1> DEFINE f == Ranked(S, side)
<1>4. f \in [1 .. n -> S] /\ \A i, j \in 1 .. n : i # j => f[i] # f[j]
  BY <1>3 DEF SetToSeqs
<1>5. \A i, j \in 1 .. n : i < j => Outward(side, f[i], f[j])
  BY <1>3, <1>4
<1> HIDE DEF f
<1>6. f \in Surjection(1 .. n, S)
  <2>1. f \in Injection(1 .. n, S)
    BY <1>4 DEF Injection, IsInjective
  <2>2. Cardinality(1 .. n) = Cardinality(S) /\ IsFiniteSet(1 .. n)
    BY <1>1, FS_Interval
  <2> QED BY <2>1, <2>2, FS_Injection
<1>7. \A p \in S : \E i \in 1 .. n : f[i] = p
  BY <1>6 DEF Surjection
<1> QED BY <1>4, <1>5, <1>7 DEF IsRanking, f

-----------------------------------------------------------------------------
(* What getDepth shows.                                                    *)

(* Between calls the orders that rest are the waiting ones of the side.    *)
LEMMA RestingIs ==
  ASSUME HistoryInv, NEW s \in Symbols, Quiet(s), NEW side \in OrderSides
  PROVE  /\ IsFiniteSet(Elements(book[s][side]))
         /\ Resting(s, side) = Elements(book[s][side])
         /\ IsHeap(book[s][side]) /\ TopIsBest(book[s][side])
         /\ \A o \in Elements(book[s][side]) :
              /\ o \in Order /\ o.side = side
              /\ RemainingQuantity(o) > 0 /\ RemainingQuantity(o) \in Int
              /\ untraded[o.orderId] = RemainingQuantity(o)
              /\ book[s][side].items[o] = 1
<1> DEFINE E == Elements(book[s][side])
<1>1. HistoryBase /\ BookOK(s) /\ Callers(s) = {}
  BY DEF HistoryInv, Quiet
<1>2. IsHeap(book[s][side]) /\ TopIsBest(book[s][side])
  BY <1>1 DEF HistoryBase, ReportInv, EngineInv, TypeOK, BookTypeOK, TopsAreBest
<1>3. /\ \A d \in OrderSides : \A o \in Elements(book[s][d]) : o.side = d
      /\ \A o \in E : o \in Order /\ o \in WaitingIn(s) /\ RemainingQuantity(o) > 0
  BY <1>1, IdsOfBook
<1>4. IsFiniteSet(E)
  <2> DEFINE f == [o \in E |-> o.orderId]
  <2>1. f \in Injection(E, OrderIds)
    <3>1. \A o \in E : f[o] = o.orderId /\ o.orderId \in OrderIds
      BY <1>3, OrderFields
    <3>2. \A o, p \in E : o.orderId = p.orderId => o = p
      BY <1>1, <1>3 DEF BookOK, WaitsAlone
    <3> QED BY <3>1, <3>2 DEF Injection, IsInjective
  <2>2. IsFiniteSet(OrderIds)
    BY EngineAssumption, FS_Interval DEF OrderIds
  <2> QED BY <2>1, <2>2, FS_Injection
<1>5. Resting(s, side) = E
  <2>1. BagToSet(GetAllOrders(s)) = Elements(book[s]["BUY"]) \cup Elements(book[s]["SELL"])
    BY DEF GetAllOrders, BagToSet, (+), Elements
  <2>2. "BUY" \in OrderSides /\ "SELL" \in OrderSides /\ side \in {"BUY", "SELL"}
    BY DEF OrderSides
  <2> QED BY <1>3, <2>1, <2>2 DEF Resting
<1>6. ASSUME NEW o \in E
      PROVE  /\ RemainingQuantity(o) \in Int
             /\ untraded[o.orderId] = RemainingQuantity(o)
             /\ book[s][side].items[o] = 1
  <2>1. RemainingQuantity(o) \in Int
    BY <1>3, OrderFields DEF RemainingQuantity
  <2>2. untraded[o.orderId] = RemainingQuantity(o)
    BY <1>1, <1>3, WaitsInFullBetween
  <2>3. book[s][side].items[o] = 1
    BY <1>1 DEF BookOK, WaitsOnce
  <2> QED BY <2>1, <2>2, <2>3
<1> QED BY <1>2, <1>3, <1>4, <1>5, <1>6

LEMMA MinOfTwo ==
  ASSUME NEW a \in Int, NEW b \in Int
  PROVE  Min({a, b}) = IF a <= b THEN a ELSE b
<1> DEFINE m == IF a <= b THEN a ELSE b
<1>1. m \in {a, b} /\ \A y \in {a, b} : m =< y
  OBVIOUS
<1>2. \A x \in {a, b} : (\A y \in {a, b} : x =< y) => x = m
  OBVIOUS
<1> HIDE DEF m
<1>3. Min({a, b}) \in {a, b} /\ \A y \in {a, b} : Min({a, b}) =< y
  BY <1>1 DEF Min
<1>4. Min({a, b}) = m
  BY <1>2, <1>3
<1> QED BY <1>4 DEF m

PricesOf(s, side) == {o.price : o \in Elements(book[s][side])}
RankedPrices(s, side) == Ranked(PricesOf(s, side), side)

(* A list of n of the levels of a side.                                    *)
AreLevels(levels, n, s, side) ==
  /\ n \in Nat /\ levels = [i \in 1 .. n |-> Level(book[s][side], RankedPrices(s, side)[i])]

LEMMA PricesAreRanked ==
  ASSUME HistoryInv, NEW s \in Symbols, Quiet(s), NEW side \in OrderSides
  PROVE  /\ IsFiniteSet(PricesOf(s, side)) /\ Cardinality(PricesOf(s, side)) \in Nat
         /\ PricesOf(s, side) \subseteq Nat
         /\ PricesOf(s, side) = {} <=> Cardinality(PricesOf(s, side)) = 0
         /\ IsRanking(RankedPrices(s, side), Cardinality(PricesOf(s, side)), PricesOf(s, side), side)
<1> DEFINE E == Elements(book[s][side])
           prices == PricesOf(s, side)
           f == [o \in E |-> o.price]
<1>1. prices = {o.price : o \in E} /\ IsFiniteSet(E) /\ \A o \in E : o \in Order
  BY RestingIs DEF PricesOf
<1>2. f \in Surjection(E, prices)
  <2> HIDE DEF E, prices
  <2> QED BY <1>1 DEF Surjection
<1>3. IsFiniteSet(prices)
  <2> HIDE DEF E, prices, f
  <2> QED BY <1>1, <1>2, FS_Surjection
<1>4. prices \subseteq Nat
  BY <1>1, OrderFields
<1>5. Cardinality(prices) \in Nat /\ (prices = {} <=> Cardinality(prices) = 0)
  BY <1>3, FS_CardinalityType, FS_EmptySet
<1>6. IsRanking(Ranked(prices, side), Cardinality(prices), prices, side)
  <2>1. prices \subseteq Int
    BY <1>4
  <2> HIDE DEF prices
  <2> QED BY <1>3, <2>1, RankedRanks
<1> QED BY <1>3, <1>4, <1>5, <1>6 DEF RankedPrices

LEMMA LevelsAre ==
  ASSUME HistoryInv, NEW s \in Symbols, Quiet(s), NEW side \in OrderSides, NEW max \in Nat
  PROVE  LET c == Cardinality(PricesOf(s, side))
         IN  AreLevels(Levels(book[s][side], side, max), IF c <= max THEN c ELSE max, s, side)
<1> DEFINE E == Elements(book[s][side])
           c == Cardinality(PricesOf(s, side))
           live == {p \in E : RemainingQuantity(p) > 0}
<1>1. live = E
  BY RestingIs
<1>2. {o.price : o \in live} = PricesOf(s, side)
  BY <1>1 DEF PricesOf
<1>3. c \in Nat
  BY PricesAreRanked
<1>4. Levels(book[s][side], side, max)
        = [i \in 1 .. Min({c, max}) |-> Level(book[s][side], RankedPrices(s, side)[i])]
  BY <1>2 DEF Levels, RankedPrices
<1>5. Min({c, max}) = IF c <= max THEN c ELSE max
  BY <1>3, MinOfTwo
<1> HIDE DEF c
<1>6. (IF c <= max THEN c ELSE max) \in Nat
  BY <1>3
<1> QED BY <1>4, <1>5, <1>6 DEF AreLevels, c

LEMMA LevelShows ==
  ASSUME HistoryInv, NEW s \in Symbols, Quiet(s), NEW side \in OrderSides, NEW price
  PROVE  LET at == {o \in Resting(s, side) : o.price = price}
             level == Level(book[s][side], price)
         IN  /\ level.price = price
             /\ level.orderCount = Cardinality(at)
             /\ level.totalQuantity = SumFunction([o \in at |-> untraded[o.orderId]])
<1> DEFINE heap == book[s][side]
           E == Elements(heap)
           at == {o \in E : o.price = price}
           orders == {o \in E : o.price = price /\ RemainingQuantity(o) > 0}
           shares == [o \in at |-> heap.items[o] * RemainingQuantity(o)]
           copies == [o \in at |-> heap.items[o]]
<1>1. /\ Resting(s, side) = E /\ IsFiniteSet(E)
      /\ \A o \in E : /\ RemainingQuantity(o) > 0 /\ RemainingQuantity(o) \in Int
                      /\ untraded[o.orderId] = RemainingQuantity(o) /\ heap.items[o] = 1
  BY RestingIs
<1>2. orders = at
  BY <1>1
<1>3. /\ Level(heap, price).price = price
      /\ Level(heap, price).totalQuantity = SumFunction(shares)
      /\ Level(heap, price).orderCount = SumFunction(copies)
  BY <1>2 DEF Level
<1>4. shares = [o \in at |-> untraded[o.orderId]]
  <2>1. ASSUME NEW o \in at PROVE heap.items[o] * RemainingQuantity(o) = untraded[o.orderId]
    <3>1. heap.items[o] = 1 /\ RemainingQuantity(o) \in Int
          /\ untraded[o.orderId] = RemainingQuantity(o)
      BY <1>1
    <3> QED BY <3>1
  <2> QED BY <2>1
<1>5. SumFunction(copies) = Cardinality(at)
  <2>1. IsFiniteSet(at)
    BY <1>1, FS_Subset
  <2>2. copies \in [at -> Int] /\ \A o \in at : copies[o] = 1
    BY <1>1
  <2> HIDE DEF at, copies
  <2> QED BY <2>1, <2>2, SumOfOnes
<1> QED BY <1>1, <1>3, <1>4, <1>5

(* A list of levels as a sequence.                                         *)
LEMMA LevelsAreList ==
  ASSUME NEW levels, NEW n, NEW s, NEW side, AreLevels(levels, n, s, side)
  PROVE  /\ n \in Nat /\ Len(levels) = n /\ DOMAIN levels = 1 .. n
         /\ levels \in Seq({levels[i] : i \in 1 .. n})
         /\ \A i \in 1 .. n : levels[i] = Level(book[s][side], RankedPrices(s, side)[i])
<1>1. n \in Nat /\ levels = [i \in 1 .. n |-> Level(book[s][side], RankedPrices(s, side)[i])]
  BY DEF AreLevels
<1>2. DOMAIN levels = 1 .. n /\ levels = [i \in 1 .. n |-> levels[i]]
  BY <1>1
<1>3. \A i \in 1 .. n : levels[i] = Level(book[s][side], RankedPrices(s, side)[i])
  BY <1>1
<1> DEFINE T == {levels[i] : i \in 1 .. n}
<1>4. levels \in [1 .. n -> T]
  BY <1>2
<1> HIDE DEF T
<1>5. levels \in Seq(T)
  BY <1>1, <1>4
<1>6. Len(levels) \in Nat /\ 1 .. Len(levels) = 1 .. n
  BY <1>2, <1>5, LenProperties
<1>7. Len(levels) = n
  BY <1>1, <1>6
<1> QED BY <1>1, <1>2, <1>3, <1>5, <1>7 DEF T

(* An empty side shows no price, any other the price of the best level.    *)
LEMMA TopIsFirst ==
  ASSUME HistoryInv, NEW s \in Symbols, Quiet(s), NEW side \in OrderSides
  PROVE  IF PricesOf(s, side) = {}
         THEN TopPrice(book[s][side]) = 0 /\ Resting(s, side) = {}
         ELSE /\ TopPrice(book[s][side]) = RankedPrices(s, side)[1]
              /\ ~IsEmpty(book[s][side]) /\ book[s][side].top \in Elements(book[s][side])
<1> DEFINE heap == book[s][side]
           E == Elements(heap)
           prices == PricesOf(s, side)
           f == RankedPrices(s, side)
           c == Cardinality(prices)
<1>1. /\ Resting(s, side) = E /\ IsHeap(heap) /\ TopIsBest(heap)
      /\ \A o \in E : o \in Order /\ o.side = side
  BY RestingIs
<1>2. prices = {o.price : o \in E}
  BY DEF PricesOf
<1>3. c \in Nat /\ (prices = {} <=> c = 0) /\ prices \subseteq Nat /\ IsRanking(f, c, prices, side)
  BY PricesAreRanked
<1>4. CASE prices = {}
  <2>1. E = {}
    BY <1>2, <1>4
  <2>2. heap.items = EmptyBag
    BY <1>1, <2>1 DEF IsHeap, Elements, IsABag, BagToSet, EmptyBag, SetToBag
  <2> QED BY <1>1, <1>4, <2>1, <2>2 DEF TopPrice, IsEmpty
<1>5. CASE prices # {}
  <2> DEFINE top == heap.top
  <2>1. ~IsEmpty(heap)
    <3>1. E # {}
      BY <1>2, <1>5
    <3> QED BY <3>1 DEF IsEmpty, Elements, BagToSet, EmptyBag, SetToBag
  <2>2. top \in E /\ top.price \in prices /\ TopPrice(heap) = top.price
    BY <1>1, <1>2, <2>1 DEF IsHeap, TopPrice
  <2>3. 1 \in 1 .. c
    BY <1>3, <1>5
  <2> HIDE DEF f, c, prices
  <2>4. f[1] \in prices
    BY <1>3, <2>3 DEF IsRanking
  <2>5. PICK o \in E : o.price = f[1]
    BY <1>2, <2>4
  <2>6. PICK i \in 1 .. c : f[i] = top.price
    BY <1>3, <2>2 DEF IsRanking
  <2>7. ASSUME i # 1 PROVE FALSE
    <3>1. Outward(side, f[1], f[i])
      <4>1. 1 < i
        BY <1>3, <2>6, <2>7
      <4> QED BY <1>3, <2>3, <4>1 DEF IsRanking
    <3>2. ~OrderRanksBelow(top, o)
      BY <1>1, <2>5 DEF TopIsBest
    <3>3. /\ o.price \in Nat /\ top.price \in Nat /\ top.side = side /\ side \in {"BUY", "SELL"}
          /\ Outward(side, o.price, top.price)
      BY <1>1, <2>2, <2>5, <2>6, <3>1, OrderFields DEF OrderSides
    <3> QED BY <3>2, <3>3
            DEF Outward, OrderRanksBelow, BuyOrderComparator, SellOrderComparator
  <2>8. i = 1
    BY <2>7
  <2>9. f[1] = top.price
    BY <2>6, <2>8, Zenon
  <2>10. TopPrice(heap) = f[1]
    BY <2>2, <2>9, Zenon
  <2> QED BY <1>5, <2>1, <2>2, <2>10 DEF f, prices
<1> QED BY <1>4, <1>5

LEMMA SideIsShown ==
  ASSUME HistoryInv, NEW s \in Symbols, Quiet(s), NEW side \in OrderSides
  PROVE  Shown(Levels(book[s][side], side, DefaultLevels), TopPrice(book[s][side]), side,
               Resting(s, side))
<1> DEFINE heap == book[s][side]
           levels == Levels(heap, side, DefaultLevels)
           prices == PricesOf(s, side)
           f == RankedPrices(s, side)
           c == Cardinality(prices)
           n == IF c <= DefaultLevels THEN c ELSE DefaultLevels
           resting == Resting(s, side)
           best == TopPrice(heap)
<1>1. c \in Nat /\ (prices = {} <=> c = 0) /\ IsRanking(f, c, prices, side)
  BY PricesAreRanked
<1>2. AreLevels(levels, n, s, side)
  BY LevelsAre DEF DefaultLevels
<1> HIDE DEF levels
<1>3. /\ n \in Nat /\ Len(levels) = n /\ DOMAIN levels = 1 .. n /\ (levels = <<>> <=> n = 0)
      /\ \A i \in 1 .. n : levels[i] = Level(heap, f[i])
  <2> HIDE DEF n
  <2>1. n \in Nat /\ Len(levels) = n /\ DOMAIN levels = 1 .. n
    BY <1>2, LevelsAreList, Zenon
  <2>2. PICK T : levels \in Seq(T)
    BY <1>2, LevelsAreList, Zenon
  <2>3. \A i \in 1 .. n : levels[i] = Level(heap, f[i])
    BY <1>2 DEF AreLevels
  <2>4. levels = <<>> <=> Len(levels) = 0
    BY <2>2, EmptySeq, Zenon
  <2> QED BY <2>1, <2>3, <2>4
<1>4. /\ \A o \in resting : o.price \in prices
      /\ IF prices = {} THEN best = 0 /\ resting = {} ELSE best = f[1]
  <2>1. resting = Elements(heap)
    BY RestingIs
  <2>2. \A o \in resting : o.price \in prices
    BY <2>1 DEF PricesOf
  <2>3. IF prices = {} THEN best = 0 /\ resting = {} ELSE best = f[1]
    BY TopIsFirst
  <2> QED BY <2>2, <2>3
<1>5. ASSUME NEW i \in 1 .. n
      PROVE  LET at == {o \in resting : o.price = levels[i].price}
             IN  /\ levels[i].price = f[i]
                 /\ levels[i].orderCount = Cardinality(at)
                 /\ levels[i].totalQuantity = SumFunction([o \in at |-> untraded[o.orderId]])
  <2> DEFINE p == f[i]
             level == Level(heap, p)
             at == {o \in resting : o.price = p}
  <2>1. levels[i] = level
    BY <1>3
  <2> HIDE DEF p
  <2>2. /\ level.price = p /\ level.orderCount = Cardinality(at)
        /\ level.totalQuantity = SumFunction([o \in at |-> untraded[o.orderId]])
    <3>1. /\ Level(book[s][side], p).price = p
          /\ Level(book[s][side], p).orderCount
               = Cardinality({o \in Resting(s, side) : o.price = p})
          /\ Level(book[s][side], p).totalQuantity
               = SumFunction([o \in {o \in Resting(s, side) : o.price = p} |->
                                untraded[o.orderId]])
      BY LevelShows, Zenon
    <3> QED BY <3>1, Zenon
  <2> HIDE DEF level, resting
  <2> QED BY <2>1, <2>2 DEF p
<1> HIDE DEF f, c, prices, best, resting
<1>6. n <= c /\ n <= DefaultLevels /\ (n < c => n = DefaultLevels) /\ (n = 0 <=> c = 0)
  BY <1>1 DEF DefaultLevels
<1> HIDE DEF n
<1>7. /\ \A p \in prices : \E k \in 1 .. c : f[k] = p
      /\ \A i, j \in 1 .. c : i < j => Outward(side, f[i], f[j])
  BY <1>1 DEF IsRanking
<1>8. IF levels = <<>> THEN best = 0 /\ resting = {} ELSE best = levels[1].price
  <2>1. CASE n = 0
    BY <1>1, <1>3, <1>4, <1>6, <2>1
  <2>2. CASE n # 0
    <3>1. 1 \in 1 .. n /\ prices # {} /\ levels # <<>>
      BY <1>1, <1>3, <1>6, <2>2
    <3> QED BY <1>4, <1>5, <3>1
  <2> QED BY <2>1, <2>2
<1>9. ASSUME NEW i \in DOMAIN levels, NEW j \in DOMAIN levels, i < j
      PROVE  Outward(side, levels[i].price, levels[j].price)
  <2>1. i \in 1 .. n /\ j \in 1 .. n
    BY <1>3
  <2>2. i \in 1 .. c /\ j \in 1 .. c
    BY <1>1, <1>3, <1>6, <2>1
  <2> QED BY <1>5, <1>7, <1>9, <2>1, <2>2
<1>10. ASSUME NEW o \in resting
       PROVE  \/ \E i \in DOMAIN levels : levels[i].price = o.price
              \/ /\ Len(levels) = DefaultLevels
                 /\ Outward(side, levels[DefaultLevels].price, o.price)
  <2>1. PICK k \in 1 .. c : f[k] = o.price
    BY <1>4, <1>7
  <2>2. CASE k <= n
    <3>1. k \in 1 .. n
      BY <1>3, <2>2
    <3> QED BY <1>3, <1>5, <2>1, <3>1
  <2>3. CASE ~(k <= n)
    <3>1. n = DefaultLevels /\ n < k /\ n \in 1 .. n /\ n \in 1 .. c
      BY <1>1, <1>3, <1>6, <2>3 DEF DefaultLevels
    <3>2. Outward(side, f[n], f[k]) /\ levels[n].price = f[n]
      BY <1>5, <1>7, <3>1
    <3> QED BY <1>3, <2>1, <3>1, <3>2
  <2> QED BY <2>2, <2>3
<1>11. \A i \in DOMAIN levels :
         LET at == {o \in resting : o.price = levels[i].price}
         IN  /\ levels[i].orderCount = Cardinality(at)
             /\ levels[i].totalQuantity = SumFunction([o \in at |-> untraded[o.orderId]])
  BY <1>3, <1>5
<1>12. Shown(levels, best, side, resting)
  BY <1>8, <1>9, <1>10, <1>11 DEF Shown
<1> QED BY <1>12 DEF levels, best, resting

(* Fewer of a side's levels are the first of more of them.                 *)
LEMMA FewerLevels ==
  ASSUME NEW few, NEW many, NEW k, NEW n, NEW s, NEW side,
         AreLevels(few, k, s, side), AreLevels(many, n, s, side), k <= n
  PROVE  few = SubSeq(many, 1, k)
<1> DEFINE L(i) == Level(book[s][side], RankedPrices(s, side)[i])
           S == {L(i) : i \in 1 .. n}
           part == SubSeq(many, 1, k)
<1>1. k \in Nat /\ n \in Nat
  BY DEF AreLevels
<1>2. \A i \in 1 .. k : i \in 1 .. n
  BY <1>1
<1>3. /\ Len(few) = k /\ \E T : few \in Seq(T)
      /\ \A i \in 1 .. k : few[i] = L(i)
  <2>1. Len(few) = k /\ \E T : few \in Seq(T)
    BY LevelsAreList, Zenon
  <2> QED BY <2>1 DEF AreLevels
<1>4. \A i \in 1 .. n : many[i] = L(i)
  BY DEF AreLevels
<1> HIDE DEF L
<1>5. PICK T : few \in Seq(T)
  BY <1>3
<1> DEFINE U == S \cup T
<1>6. \A i \in 1 .. k : many[i] \in U
  BY <1>2, <1>4
<1> HIDE DEF U, part
<1>7. /\ part \in Seq(U) /\ Len(part) = k
      /\ \A i \in 1 .. k : part[i] = many[i]
  <2>1. 1 \in Int /\ k \in Int /\ k - 1 + 1 = k
    BY <1>1
  <2>2. /\ part \in Seq(U)
        /\ Len(part) = IF 1 <= k THEN k - 1 + 1 ELSE 0
        /\ \A i \in 1 .. k - 1 + 1 : part[i] = many[1 + i - 1]
    BY <1>6, <2>1, SubSeqProperties DEF part
  <2>3. \A i \in 1 .. k : part[i] = many[i]
    <3> TAKE i \in 1 .. k
    <3>1. 1 + i - 1 = i /\ i \in 1 .. k - 1 + 1
      BY <2>1
    <3>2. part[i] = many[1 + i - 1]
      BY <2>2, <3>1
    <3> QED BY <3>1, <3>2, Zenon
  <2>4. Len(part) = k
    BY <1>1, <2>2
  <2> QED BY <2>2, <2>3, <2>4
<1>8. few \in Seq(U)
  <2>1. T \subseteq U
    BY DEF U
  <2> QED BY <1>5, <2>1
<1>9. \A i \in 1 .. Len(few) : few[i] = part[i]
  BY <1>2, <1>3, <1>4, <1>7
<1>10. Len(few) = Len(part)
  BY <1>3, <1>7
<1>11. few = part
  BY <1>7, <1>8, <1>9, <1>10, SeqEqual
<1> QED BY <1>11 DEF part

LEMMA SpreadIsPositive ==
  ASSUME HistoryInv, NEW s \in Symbols, Quiet(s),
         GetDepth(s, DefaultLevels).bids # <<>>, GetDepth(s, DefaultLevels).asks # <<>>
  PROVE  GetDepth(s, DefaultLevels).spread > 0
<1> DEFINE bestBid == TopPrice(book[s]["BUY"])
           bestAsk == TopPrice(book[s]["SELL"])
<1>1. ASSUME NEW side \in OrderSides, Levels(book[s][side], side, DefaultLevels) # <<>>
      PROVE  \E o \in Elements(book[s][side]) :
               TopPrice(book[s][side]) = o.price /\ o.price \in Nat /\ o.price > 0
  <2> DEFINE heap == book[s][side]
             levels == Levels(heap, side, DefaultLevels)
             c == Cardinality(PricesOf(s, side))
             n == IF c <= DefaultLevels THEN c ELSE DefaultLevels
  <2>1. AreLevels(levels, n, s, side)
    BY LevelsAre DEF DefaultLevels
  <2>2. PricesOf(s, side) # {}
    <3>1. SUFFICES ASSUME PricesOf(s, side) = {} PROVE FALSE
      OBVIOUS
    <3>2. n = 0
      <4>1. c = 0
        BY <3>1, PricesAreRanked
      <4> HIDE DEF c
      <4> QED BY <4>1 DEF DefaultLevels
    <3> HIDE DEF n, levels
    <3>3. Len(levels) = 0 /\ \E T : levels \in Seq(T)
      BY <2>1, <3>2, LevelsAreList, Zenon
    <3>4. levels = <<>>
      BY <3>3, EmptySeq, Zenon
    <3> QED BY <1>1, <3>4 DEF levels
  <2>3. ~IsEmpty(heap) /\ heap.top \in Elements(heap)
    BY <2>2, TopIsFirst
  <2>4. TopPrice(heap) = heap.top.price
    BY <2>3 DEF TopPrice
  <2>5. heap.top.price \in Prices /\ heap.top.price \in Nat
    BY <2>3, RestingIs, OrderFields
  <2>6. heap.top.price > 0
    BY <2>5, EngineAssumption
  <2> QED BY <2>3, <2>4, <2>5, <2>6
<1>2. "BUY" \in OrderSides /\ "SELL" \in OrderSides
  BY DEF OrderSides
<1>3. PICK b \in Elements(book[s]["BUY"]) : bestBid = b.price /\ b.price \in Nat /\ b.price > 0
  BY <1>1, <1>2 DEF GetDepth
<1>4. PICK a \in Elements(book[s]["SELL"]) : bestAsk = a.price /\ a.price \in Nat /\ a.price > 0
  BY <1>1, <1>2 DEF GetDepth
<1>5. b.price < a.price
  BY DEF HistoryInv, BookOK, SidesApart, Quiet
<1>6. GetDepth(s, DefaultLevels).spread = IF bestBid > 0 /\ bestAsk > 0 THEN bestAsk - bestBid ELSE 0
  BY DEF GetDepth
<1> HIDE DEF bestBid, bestAsk
<1> QED BY <1>3, <1>4, <1>5, <1>6

(* Between the calls of a book in which none ever met another, the depth   *)
(* shows of each side the prices, shares and orders that getAllOrders      *)
(* lists, best first; what it leaves out lies beyond ten levels, and a bid *)
(* and an ask stand a positive spread apart.                               *)
THEOREM DepthShownWhereNoCallsMeet == HistorySpec => []DepthShowsTheBook
<1>1. ASSUME HistoryInv PROVE DepthShowsTheBook
  <2> SUFFICES ASSUME NEW s \in Symbols \ met, Callers(s) = {}
               PROVE  LET depth == GetDepth(s, DefaultLevels)
                      IN  /\ Shown(depth.bids, depth.bestBid, "BUY", Resting(s, "BUY"))
                          /\ Shown(depth.asks, depth.bestAsk, "SELL", Resting(s, "SELL"))
                          /\ depth.bids # <<>> /\ depth.asks # <<>> => depth.spread > 0
                          /\ GetDepth(s, 1).bids
                               = SubSeq(depth.bids, 1, Min({1, Len(depth.bids)}))
    BY DEF DepthShowsTheBook
  <2>0. Quiet(s) /\ s \in Symbols
    BY DEF Quiet
  <2> DEFINE depth == GetDepth(s, DefaultLevels)
             bids == Levels(book[s]["BUY"], "BUY", DefaultLevels)
             first == Levels(book[s]["BUY"], "BUY", 1)
             c == Cardinality(PricesOf(s, "BUY"))
             n == IF c <= DefaultLevels THEN c ELSE DefaultLevels
             k == IF c <= 1 THEN c ELSE 1
  <2>1. "BUY" \in OrderSides /\ "SELL" \in OrderSides
    BY DEF OrderSides
  <2>2. Shown(depth.bids, depth.bestBid, "BUY", Resting(s, "BUY"))
    <3>1. depth.bids = bids /\ depth.bestBid = TopPrice(book[s]["BUY"])
      BY DEF GetDepth
    <3> HIDE DEF depth, bids
    <3>2. Shown(bids, TopPrice(book[s]["BUY"]), "BUY", Resting(s, "BUY"))
      BY <1>1, <2>0, <2>1, SideIsShown DEF bids
    <3> QED BY <3>1, <3>2
  <2>3. Shown(depth.asks, depth.bestAsk, "SELL", Resting(s, "SELL"))
    <3> DEFINE asks == Levels(book[s]["SELL"], "SELL", DefaultLevels)
    <3>1. depth.asks = asks /\ depth.bestAsk = TopPrice(book[s]["SELL"])
      BY DEF GetDepth
    <3> HIDE DEF depth, asks
    <3>2. Shown(asks, TopPrice(book[s]["SELL"]), "SELL", Resting(s, "SELL"))
      BY <1>1, <2>0, <2>1, SideIsShown DEF asks
    <3> QED BY <3>1, <3>2
  <2>4. depth.bids # <<>> /\ depth.asks # <<>> => depth.spread > 0
    <3>1. ASSUME depth.bids # <<>>, depth.asks # <<>> PROVE depth.spread > 0
      BY <1>1, <2>0, <3>1, SpreadIsPositive, Zenon
    <3> QED BY <3>1
  <2>5. GetDepth(s, 1).bids = SubSeq(depth.bids, 1, Min({1, Len(depth.bids)}))
    <3>1. AreLevels(bids, n, s, "BUY") /\ AreLevels(first, k, s, "BUY") /\ c \in Nat
      <4>1. c \in Nat
        BY <1>1, <2>0, <2>1, PricesAreRanked
      <4>2. AreLevels(bids, n, s, "BUY")
        BY <1>1, <2>0, <2>1, LevelsAre DEF DefaultLevels
      <4>3. AreLevels(first, k, s, "BUY")
        BY <1>1, <2>0, <2>1, LevelsAre
      <4> QED BY <4>1, <4>2, <4>3
    <3>2. k <= n /\ n \in Nat /\ k = IF 1 <= n THEN 1 ELSE n
      BY <3>1 DEF DefaultLevels
    <3>3. GetDepth(s, 1).bids = first /\ depth.bids = bids
      BY DEF GetDepth
    <3> HIDE DEF depth, bids, first, n, k
    <3>4. first = SubSeq(bids, 1, k)
      BY <3>1, <3>2, FewerLevels
    <3>5. Len(bids) = n
      BY <3>1, LevelsAreList, Zenon
    <3>6. Min({1, n}) = k
      BY <3>2, MinOfTwo
    <3> QED BY <3>3, <3>4, <3>5, <3>6, Zenon
  <2> QED BY <2>2, <2>3, <2>4, <2>5
<1> QED BY <1>1, HistoryInvariant, PTL
=============================================================================
