----------------------------- MODULE LinkedNodes -----------------------------
(***************************************************************************)
(* Nodes in memory that point at one another, as dsa/DoublyLinkedList.hpp  *)
(* and dsa/Queue.hpp lay them out.                                         *)
(***************************************************************************)
EXTENDS Integers, Sequences, FiniteSets

CONSTANTS
  Null,
  Cells  \* bound: the nodes there is room for

(* The nodes that a walk from head along next comes to, in order.          *)
Walk(node, head) ==
  LET at[i \in Nat] ==
        IF i = 0 THEN head
        ELSE LET before == at[i - 1] IN IF before = Null THEN Null ELSE node[before].next
      n == Cardinality({i \in 1 .. Cardinality(Cells) : at[i - 1] # Null})
  IN  [i \in 1 .. n |-> at[i - 1]]
=============================================================================
