---------------------------- MODULE PriorityHeap ----------------------------
(***************************************************************************)
(* dsa/MaxHeap.hpp and dsa/MinHeap.hpp.  The two templates are the same    *)
(* program up to the names of its local variables: both put on top the     *)
(* element that compare ranks highest.                                     *)
(*                                                                         *)
(* An operation moves one element and then sifts; each turn of heapifyUp's *)
(* loop and each recursive call of heapifyDown is a step, so that the      *)
(* state between two swaps can be spoken about.  OrderBook calls the heap  *)
(* under bookMutex: no operation starts before the last has ended.         *)
(***************************************************************************)
EXTENDS Integers, FiniteSets

CONSTANTS
  Values, Predicates,
  RanksBelow(_, _),  \* compare(a, b): a has the lower priority
  Nothing,
  MaxSize            \* bound: elements in the heap

ASSUME HeapAssumption ==
  /\ MaxSize \in Nat
  /\ \A x, y \in Values : RanksBelow(x, y) => ~RanksBelow(y, x)
  /\ \A x, y, z \in Values : RanksBelow(x, y) => RanksBelow(x, z) \/ RanksBelow(z, y)

VARIABLES
  size, data,  \* the vector: a function on 0 .. size - 1
  pc,          \* "idle", or which way an element is being sifted: "up", "down"
  index,       \* the index heapifyUp or heapifyDown has reached
  hole         \* the index removeIf will call heapifyDown with; NoHole for push

vars == <<size, data, pc, index, hole>>

NoHole == -1

Indices == 0 .. size - 1

Parent(i) == (i - 1) \div 2
LeftChild(i)  == 2 * i + 1
RightChild(i) == 2 * i + 2

Swapped(i, j) == [data EXCEPT ![i] = data[j], ![j] = data[i]]

(* The vector once its last element has replaced the one at i.             *)
LastMovedTo(i) ==
  [j \in 0 .. size - 2 |-> IF j = i THEN data[size - 1] ELSE data[j]]

(* heapifyDown's choice among i and its children: a tie keeps the earlier. *)
Largest(i) ==
  LET largest == IF /\ LeftChild(i) < size
                    /\ RanksBelow(data[i], data[LeftChild(i)])
                 THEN LeftChild(i) ELSE i
  IN  IF /\ RightChild(i) < size
         /\ RanksBelow(data[largest], data[RightChild(i)])
      THEN RightChild(i) ELSE largest

Finish == pc' = "idle" /\ index' = 0 /\ hole' = NoHole

-----------------------------------------------------------------------------
HeapInit ==
  /\ size = 0
  /\ data = [i \in {} |-> Nothing]
  /\ pc = "idle"
  /\ index = 0
  /\ hole = NoHole

Push(x) ==
  /\ pc = "idle"
  /\ size < MaxSize
  /\ data' = [i \in 0 .. size |-> IF i = size THEN x ELSE data[i]]
  /\ size' = size + 1
  /\ pc' = "up"
  /\ index' = size
  /\ UNCHANGED hole

Pop ==
  /\ pc = "idle"
  /\ size > 0
  /\ data' = LastMovedTo(0)
  /\ size' = size - 1
  /\ pc' = IF size > 1 THEN "down" ELSE "idle"
  /\ UNCHANGED <<index, hole>>

(* Mutant: removeIf without heapifyUp.                                     *)
RemoveIfSiftingDownOnly(predicate) ==
  \E i \in Indices :
    /\ pc = "idle"
    /\ data[i] \in predicate
    /\ \A j \in 0 .. i - 1 : data[j] \notin predicate
    /\ data' = LastMovedTo(i)
    /\ size' = size - 1
    /\ IF i < size - 1 THEN pc' = "down" /\ index' = i /\ hole' = i
                       ELSE UNCHANGED <<pc, index, hole>>

(* The first element in array order that satisfies the predicate.          *)
RemoveIf(predicate) ==
  \E i \in Indices :
    /\ pc = "idle"
    /\ data[i] \in predicate
    /\ \A j \in 0 .. i - 1 : data[j] \notin predicate
    /\ data' = LastMovedTo(i)
    /\ size' = size - 1
    /\ IF i < size - 1 THEN pc' = "up" /\ index' = i /\ hole' = i
                       ELSE UNCHANGED <<pc, index, hole>>

(* Mutant: an element also rises above its equals.                         *)
OutOfPlaceOrTied(i) == i > 0 /\ ~RanksBelow(data[i], data[Parent(i)])
OutOfPlace(i) == i > 0 /\ RanksBelow(data[Parent(i)], data[i])

HeapifyUp ==
  /\ pc = "up"
  /\ \/ /\ OutOfPlace(index)
        /\ data' = Swapped(Parent(index), index)
        /\ index' = Parent(index)
        /\ UNCHANGED <<pc, hole>>
     \/ /\ ~OutOfPlace(index)
        /\ IF hole = NoHole THEN Finish
                            ELSE pc' = "down" /\ index' = hole /\ UNCHANGED hole
        /\ UNCHANGED data
  /\ UNCHANGED size

HeapifyDown ==
  /\ pc = "down"
  /\ \/ /\ Largest(index) # index
        /\ data' = Swapped(index, Largest(index))
        /\ index' = Largest(index)
        /\ UNCHANGED <<pc, hole>>
     \/ /\ Largest(index) = index
        /\ Finish
        /\ UNCHANGED data
  /\ UNCHANGED size

HeapNext ==
  \/ \E x \in Values : Push(x)
  \/ Pop
  \/ \E predicate \in Predicates : RemoveIf(predicate)
  \/ HeapifyUp
  \/ HeapifyDown

HeapSpec == HeapInit /\ [][HeapNext]_vars

-----------------------------------------------------------------------------
(* Properties.                                                             *)

(* The vector's size, its elements and the index being sifted agree: no    *)
(* sift reads or writes outside the vector, and none is left unfinished.   *)
TypeOK ==
  /\ size \in 0 .. MaxSize
  /\ data \in [Indices -> Values]
  /\ pc \in {"idle", "up", "down"}
  /\ pc = "idle" => index = 0 /\ hole = NoHole
  /\ pc # "idle" => index \in Indices
  /\ hole \in Indices \cup {NoHole}

(* Between operations no element ranks above its parent, and meanwhile the *)
(* sift that will see to it stays inside the vector.                       *)
HeapOrdered ==
  /\ TypeOK
  /\ pc = "idle" => \A i \in Indices : ~OutOfPlace(i)

(* The abstract queue: what the heap holds, and what will be at its root   *)
(* when the sift under way has ended.                                      *)
Items == [x \in {data[i] : i \in Indices} |-> Cardinality({i \in Indices : data[i] = x})]

Top ==
  IF size = 0 THEN Nothing
  ELSE IF pc # "idle" /\ index = 0 THEN data[Largest(0)]
  ELSE IF pc = "up" /\ RanksBelow(data[0], data[index]) THEN data[index]
  ELSE data[0]

Abstract == INSTANCE PriorityQueueSpec WITH queue <- [items |-> Items, top |-> Top]

(* The array implements the abstract queue: a push, pop or removal takes   *)
(* effect at once, sifting changes nothing a caller can see, and top() is  *)
(* always one of the best-ranked elements.                                 *)
ImplementsQueue == Abstract!QueueSpec
=============================================================================
