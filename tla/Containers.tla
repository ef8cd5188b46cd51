------------------------------ MODULE Containers ------------------------------
(***************************************************************************)
(* Objects of the containers of dsa/ that are made of nodes: lists, queues *)
(* and hash maps.  They share no memory.                                   *)
(***************************************************************************)
EXTENDS LinkedNodes

CONSTANTS
  Objects,               \* the objects of each container
  Datum,
  MapKeys, MapValues, DefaultValue, NoValue,
  KeyHash(_), InitialCapacity, MaxBuckets

VARIABLES list, fifo, maps

ASSUME ContainersAssumption ==
  /\ IsFiniteSet(Cells)
  /\ Null \notin Cells
  /\ Null \notin Datum
  /\ \A key \in MapKeys : KeyHash(key) \in Nat
  /\ InitialCapacity \in Nat
  /\ NoValue \notin MapValues \cup {DefaultValue}

List == INSTANCE DoublyLinkedList WITH Lists <- Objects, Data <- Datum, memory <- list

Fifo == INSTANCE Queue WITH Queues <- Objects, Data <- Datum, memory <- fifo

Map == INSTANCE HashMap WITH
  Maps <- Objects, Keys <- MapKeys, Values <- MapValues, Hash <- KeyHash

ContainersInit == List!ListInit /\ Fifo!QueueInit /\ Map!HashMapInit

ContainersNext ==
  \/ List!ListNext /\ UNCHANGED <<fifo, maps>>
  \/ Fifo!QueueNext /\ UNCHANGED <<list, maps>>
  \/ Map!HashMapNext /\ UNCHANGED <<list, fifo>>

ContainersSpec == ContainersInit /\ [][ContainersNext]_<<list, fifo, maps>>

-----------------------------------------------------------------------------
(* Properties.                                                             *)

(* DoublyLinkedList: every call does to a list what it does to a sequence, *)
(* and every node there is belongs to one list, once.                      *)
ListsAreSequences == List!CallsActOnSequences /\ List!NothingLeaks

(* Queue: objects are first in, first out.                                 *)
QueuesAreFifo == Fifo!ImplementsQueues

(* HashMap: every call does to a map what it does to a function.           *)
MapsAreFunctions == Map!CallsActOnFunctions
=============================================================================
