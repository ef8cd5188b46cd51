-------------------------------- MODULE Queue --------------------------------
(***************************************************************************)
(* dsa/Queue.hpp: a chain of nodes from head to tail, in a memory laid out *)
(* as in DoublyLinkedList, without prev.                                   *)
(***************************************************************************)
EXTENDS LinkedNodes

CONSTANTS Queues, Data

VARIABLE memory  \* [node, head, tail, count]

Freed == [data |-> Null, next |-> Null]

FreeCells(m) == {c \in Cells : m.node[c] = Freed}

Nodes(m, q) == Walk(m.node, m.head[q])

Waiting(m, q) == [i \in DOMAIN Nodes(m, q) |-> m.node[Nodes(m, q)[i]].data]

Enqueue(m, q, value) ==
  LET c == CHOOSE c \in FreeCells(m) : TRUE
      made == [m EXCEPT !.node[c] = [data |-> value, next |-> Null],
                        !.tail[q] = c, !.count[q] = @ + 1]
  IN  IF m.tail[q] = Null THEN [made EXCEPT !.head[q] = c]
                          ELSE [made EXCEPT !.node[m.tail[q]].next = c]

(* Mutant: the tail still points at the node that has gone.                *)
DequeueKeepingTail(m, q) ==
  [m EXCEPT !.node[m.head[q]] = Freed, !.head[q] = m.node[@].next, !.count[q] = @ - 1]

Dequeue(m, q) ==
  LET head == m.node[m.head[q]].next
  IN  [m EXCEPT !.node[m.head[q]] = Freed,
                !.head[q] = head,
                !.tail[q] = IF head = Null THEN Null ELSE @,
                !.count[q] = @ - 1]

Clear(m, q) ==
  [m EXCEPT !.node = [c \in Cells |->
                       IF \E i \in DOMAIN Nodes(m, q) : Nodes(m, q)[i] = c THEN Freed ELSE @[c]],
            !.head[q] = Null, !.tail[q] = Null, !.count[q] = 0]

CopyAssign(m, q, other) ==
  LET values == Waiting(m, other)
      copied[i \in 0 .. Len(values)] ==
        IF i = 0 THEN Clear(m, q) ELSE Enqueue(copied[i - 1], q, values[i])
  IN  copied[Len(values)]

MoveAssign(m, q, other) ==
  [Clear(m, q) EXCEPT
     !.head[q] = m.head[other], !.tail[q] = m.tail[other], !.count[q] = m.count[other],
     !.head[other] = Null, !.tail[other] = Null, !.count[other] = 0]

-----------------------------------------------------------------------------
QueueInit ==
  memory = [node  |-> [c \in Cells |-> Freed],
            head  |-> [q \in Queues |-> Null],
            tail  |-> [q \in Queues |-> Null],
            count |-> [q \in Queues |-> 0]]

(* dequeue throws when count is 0.                                         *)
ChangeQueue(q) ==
  \/ FreeCells(memory) # {} /\ \E v \in Data : memory' = Enqueue(memory, q, v)
  \/ memory.count[q] > 0 /\ memory' = Dequeue(memory, q)
  \/ memory' = Clear(memory, q)

AssignQueue(q, other) ==
  /\ q # other
  /\ \/ /\ memory.count[other] <= Cardinality(FreeCells(memory)) + memory.count[q]
        /\ memory' = CopyAssign(memory, q, other)
     \/ memory' = MoveAssign(memory, q, other)

QueueNext == \E q \in Queues : ChangeQueue(q) \/ \E other \in Queues : AssignQueue(q, other)

QueueSpec == QueueInit /\ [][QueueNext]_memory

-----------------------------------------------------------------------------
(* Properties.                                                             *)

Abstract == INSTANCE QueuesSpec WITH
  waiting <- [q \in Queues |-> Waiting(memory, q)], size <- memory.count

(* What is enqueued is dequeued in the order of its arrival, also when the *)
(* queue has run empty in between, was copied, or was moved to or from;    *)
(* and size() is how many there are.                                       *)
ImplementsQueues == Abstract!FirstInFirstOut
=============================================================================
