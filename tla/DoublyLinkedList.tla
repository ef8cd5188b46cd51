--------------------------- MODULE DoublyLinkedList ---------------------------
(***************************************************************************)
(* dsa/DoublyLinkedList.hpp: nodes in memory and, for every list object,   *)
(* its head, tail and count.  An operator of the name of a method gives    *)
(* the memory the method leaves behind.                                    *)
(*                                                                         *)
(* The code compares a pointer with nullptr, head and tail only, so which  *)
(* free cell a new node gets makes no difference.                          *)
(***************************************************************************)
EXTENDS LinkedNodes, SequencesExt

CONSTANTS Lists, Data

VARIABLE memory  \* [node, head, tail, count]

Freed == [data |-> Null, prev |-> Null, next |-> Null]

FreeCells(m) == {c \in Cells : m.node[c] = Freed}

(* pointer->field = to, for a pointer that is not null.                    *)
Linked(m, pointer, field, to) ==
  IF pointer = Null THEN m ELSE [m EXCEPT !.node[pointer][field] = to]

Recounted(m, l, head, tail, change) ==
  [m EXCEPT !.head[l] = head, !.tail[l] = tail, !.count[l] = @ + change]

Deleted(m, c) == [m EXCEPT !.node[c] = Freed]

Nodes(m, l) == Walk(m.node, m.head[l])

ToVector(m, l) == [i \in DOMAIN Nodes(m, l) |-> m.node[Nodes(m, l)[i]].data]

-----------------------------------------------------------------------------
PushBack(m, l, value) ==
  LET c == CHOOSE c \in FreeCells(m) : TRUE
      made == [m EXCEPT !.node[c] = [data |-> value, prev |-> m.tail[l], next |-> Null]]
  IN  Recounted(Linked(made, m.tail[l], "next", c),
                l, IF m.tail[l] = Null THEN c ELSE m.head[l], c, 1)

PushFront(m, l, value) ==
  LET c == CHOOSE c \in FreeCells(m) : TRUE
      made == [m EXCEPT !.node[c] = [data |-> value, prev |-> Null, next |-> m.head[l]]]
  IN  Recounted(Linked(made, m.head[l], "prev", c),
                l, c, IF m.head[l] = Null THEN c ELSE m.tail[l], 1)

(* Mutant: the tail is left where it was when the last node goes.          *)
PopFrontKeepingTail(m, l) ==
  LET temp == m.head[l]
      head == m.node[temp].next
  IN  Deleted(Recounted(Linked(m, head, "prev", Null), l, head, m.tail[l], -1), temp)

PopFront(m, l) ==
  LET temp == m.head[l]
      head == m.node[temp].next
  IN  Deleted(Recounted(Linked(m, head, "prev", Null),
                        l, head, IF head = Null THEN Null ELSE m.tail[l], -1), temp)

PopBack(m, l) ==
  LET temp == m.tail[l]
      tail == m.node[temp].prev
  IN  Deleted(Recounted(Linked(m, tail, "next", Null),
                        l, IF tail = Null THEN Null ELSE m.head[l], tail, -1), temp)

RemoveNode(m, l, c) ==
  LET node == m.node[c]
  IN  IF c = m.head[l] THEN PopFront(m, l)
      ELSE IF c = m.tail[l] THEN PopBack(m, l)
      ELSE Deleted(Recounted(Linked(Linked(m, node.prev, "next", node.next),
                                    node.next, "prev", node.prev),
                             l, m.head[l], m.tail[l], -1), c)

Clear(m, l) ==
  [m EXCEPT !.node = [c \in Cells |->
                       IF \E i \in DOMAIN Nodes(m, l) : Nodes(m, l)[i] = c THEN Freed ELSE @[c]],
            !.head[l] = Null, !.tail[l] = Null, !.count[l] = 0]

CopyAssign(m, l, other) ==
  LET values == ToVector(m, other)
      copied[i \in 0 .. Len(values)] ==
        IF i = 0 THEN Clear(m, l) ELSE PushBack(copied[i - 1], l, values[i])
  IN  copied[Len(values)]

MoveAssign(m, l, other) ==
  [Clear(m, l) EXCEPT
     !.head[l] = m.head[other], !.tail[l] = m.tail[other], !.count[l] = m.count[other],
     !.head[other] = Null, !.tail[other] = Null, !.count[other] = 0]

-----------------------------------------------------------------------------
ListInit ==
  memory = [node  |-> [c \in Cells |-> Freed],
            head  |-> [l \in Lists |-> Null],
            tail  |-> [l \in Lists |-> Null],
            count |-> [l \in Lists |-> 0]]

(* popFront and popBack throw when count is 0; removeNode is called with   *)
(* a node of the list.                                                     *)
ChangeList(l) ==
  \/ /\ FreeCells(memory) # {}
     /\ \E v \in Data : memory' = PushBack(memory, l, v) \/ memory' = PushFront(memory, l, v)
  \/ /\ memory.count[l] > 0
     /\ memory' = PopFront(memory, l) \/ memory' = PopBack(memory, l)
  \/ \E i \in DOMAIN Nodes(memory, l) : memory' = RemoveNode(memory, l, Nodes(memory, l)[i])
  \/ memory' = Clear(memory, l)

AssignList(l, other) ==
  /\ l # other
  /\ \/ /\ memory.count[other] <= Cardinality(FreeCells(memory)) + memory.count[l]
        /\ memory' = CopyAssign(memory, l, other)
     \/ memory' = MoveAssign(memory, l, other)

ListNext == \E l \in Lists : ChangeList(l) \/ \E other \in Lists : AssignList(l, other)

ListSpec == ListInit /\ [][ListNext]_memory

-----------------------------------------------------------------------------
(* Properties.                                                             *)

(* In every state there is, each call does to its list what it would do to *)
(* a sequence, and nothing to the other lists: pops at the back, which     *)
(* follow prev, and walks, which follow next, agree.                       *)
CallsActOnSequences ==
  \A l \in Lists :
    LET s == ToVector(memory, l)
        Makes(m, t) == /\ ToVector(m, l) = t
                       /\ \A k \in Lists \ {l} : ToVector(m, k) = ToVector(memory, k)
        Room == FreeCells(memory) # {}
    IN  /\ Room => \A v \in Data : /\ Makes(PushBack(memory, l, v), Append(s, v))
                                   /\ Makes(PushFront(memory, l, v), <<v>> \o s)
        /\ s # <<>> => Makes(PopFront(memory, l), Tail(s)) /\ Makes(PopBack(memory, l), Front(s))
        /\ \A i \in DOMAIN s : Makes(RemoveNode(memory, l, Nodes(memory, l)[i]), RemoveAt(s, i))
        /\ Makes(Clear(memory, l), <<>>)
        /\ \A k \in Lists \ {l} :
             /\ Len(s) + Cardinality(FreeCells(memory)) >= memory.count[k] =>
                  Makes(CopyAssign(memory, l, k), ToVector(memory, k))
             /\ \A j \in Lists :
                  ToVector(MoveAssign(memory, l, k), j) =
                    IF j = l THEN ToVector(memory, k) ELSE IF j = k THEN <<>> ELSE ToVector(memory, j)

(* No node is lost or in two lists: every cell that is not free is on the  *)
(* walk of one list, which is as long as the list's count says.            *)
NothingLeaks ==
  \A l \in Lists :
    /\ Len(Nodes(memory, l)) = memory.count[l]
    /\ \A c \in Cells \ FreeCells(memory) :
         Cardinality({p \in Lists \X (1 .. Cardinality(Cells)) :
                        /\ p[2] \in DOMAIN Nodes(memory, p[1])
                        /\ Nodes(memory, p[1])[p[2]] = c}) = 1
=============================================================================
