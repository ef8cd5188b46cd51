--------------------------- MODULE PriorityQueue ---------------------------
(***************************************************************************)
(* What MaxHeap<T, Compare> and MinHeap<T, Compare> (dsa/) promise to      *)
(* their callers, without the array: a bag of elements and the one top()   *)
(* returns.                                                                *)
(*                                                                         *)
(* The top has to be part of the state.  Which of several equally ranked   *)
(* elements is on top depends on the history of the heap, but it stays     *)
(* the same from one call to the next, and an element pushed later takes   *)
(* its place only when it ranks strictly above it.                         *)
(*                                                                         *)
(* Module PriorityHeap shows that the array implements this.               *)
(***************************************************************************)
EXTENDS Bags

CONSTANTS
  RanksBelow(_, _),  \* the Compare functor: a strict weak order
  Nothing            \* the top of an empty queue

EmptyQueue == [items |-> EmptyBag, top |-> Nothing]

IsEmpty(queue) == queue.items = EmptyBag

Elements(queue) == BagToSet(queue.items)

(* The elements of a bag that none of its elements ranks above.            *)
Best(items) ==
  {x \in BagToSet(items) : \A y \in BagToSet(items) : ~RanksBelow(x, y)}

(* A queue whose top was lost: any best element may have come up.          *)
Sifted(items) ==
  IF items = EmptyBag THEN {EmptyQueue}
  ELSE {[items |-> items, top |-> x] : x \in Best(items)}

Pushed(queue, x) ==
  [items |-> queue.items (+) SetToBag({x}),
   top   |-> IF IsEmpty(queue) \/ RanksBelow(queue.top, x) THEN x ELSE queue.top]

(* The queues that may be left when one copy of x is taken away.           *)
Without(queue, x) ==
  LET rest == queue.items (-) SetToBag({x})
  IN  IF x = queue.top THEN Sifted(rest) ELSE {[queue EXCEPT !.items = rest]}

(* Mutant: the top taken out stays in the root.                            *)
PoppedKeepingTop(queue) ==
  {[queue EXCEPT !.items = @ (-) SetToBag({queue.top})]}
(* Mutant: the top is copied and not taken out.                            *)
PoppedNothing(queue) == {queue}
Popped(queue) == Without(queue, queue.top)

(* Which of the elements that match removeIf finds: the root comes first.  *)
Found(queue, matching) ==
  IF queue.top \in matching THEN {queue.top} ELSE matching

(* What every caller relies on: nothing in the queue ranks above its top.  *)
TopIsBest(queue) == \A x \in Elements(queue) : ~RanksBelow(queue.top, x)
=============================================================================
