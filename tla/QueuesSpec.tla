------------------------------ MODULE QueuesSpec ------------------------------
(***************************************************************************)
(* What dsa/Queue.hpp promises: each object holds a sequence that grows at *)
(* its back and shrinks at its front, or becomes another object's.         *)
(***************************************************************************)
EXTENDS Sequences

CONSTANTS Queues, Data

VARIABLES
  waiting,  \* [Queues -> Seq(Data)]
  size      \* their lengths, as size() tells them

Counted == size = [q \in Queues |-> Len(waiting[q])]

QueuesInit == waiting = [q \in Queues |-> <<>>] /\ Counted

Becomes(q, s) == waiting' = [waiting EXCEPT ![q] = s]

Arrive(q)  == \E v \in Data : Becomes(q, Append(waiting[q], v))
Leave(q)   == waiting[q] # <<>> /\ Becomes(q, Tail(waiting[q]))
Empty(q)   == Becomes(q, <<>>)
Copy(q, p) == Becomes(q, waiting[p])
Move(q, p) == q # p /\ waiting' = [waiting EXCEPT ![q] = waiting[p], ![p] = <<>>]

QueuesNext ==
  /\ \E q, p \in Queues : Arrive(q) \/ Leave(q) \/ Empty(q) \/ Copy(q, p) \/ Move(q, p)
  /\ Counted'

FirstInFirstOut == QueuesInit /\ [][QueuesNext]_<<waiting, size>>
=============================================================================
