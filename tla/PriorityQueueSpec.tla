-------------------------- MODULE PriorityQueueSpec --------------------------
(***************************************************************************)
(* The abstract specification of a heap: a PriorityQueue whose operations  *)
(* take effect in one step.                                                *)
(***************************************************************************)
EXTENDS PriorityQueue

CONSTANTS
  Values,     \* what may be pushed
  Predicates  \* the sets of values removeIf may be asked to look for

VARIABLE queue

QueueInit == queue = EmptyQueue

QueuePush == \E x \in Values : queue' = Pushed(queue, x)

QueuePop == ~IsEmpty(queue) /\ queue' \in Popped(queue)

QueueRemoveIf ==
  \E predicate \in Predicates :
    \E x \in Found(queue, predicate \cap Elements(queue)) : queue' \in Without(queue, x)

QueueNext == QueuePush \/ QueuePop \/ QueueRemoveIf

QueueSpec == QueueInit /\ [][QueueNext]_queue
=============================================================================
