-------------------------- MODULE DataStructuresProofs --------------------------
(***************************************************************************)
(* Theorems about the containers of dsa/.  The vector of a heap is ordered *)
(* between operations, and what it does is what PriorityQueueSpec says.    *)
(* Queues are first in, first out: they implement QueuesSpec.  Lists are   *)
(* linked both ways and do what sequences do.  Hash tables do what         *)
(* functions of keys do.  A binary search finds.                           *)
(***************************************************************************)
EXTENDS PriorityHeap, Containers, Searching, Induction, SequenceTheorems

-----------------------------------------------------------------------------
(* The inductive invariant.                                                *)

Above(x, y) == ~RanksBelow(x, y)

(* The element at i may stand below its parent.                            *)
InPlace(i) == Above(data[Parent(i)], data[i])

(* While an element moves, the only pairs out of order are its own: with   *)
(* its parent on the way up, with its children on the way down and, until  *)
(* removeIf's element has moved for the first time, on the way up as well. *)
(* Its children never rank above its parent.                               *)
Exempt(i) ==
  \/ pc = "up" /\ (i = index \/ (Parent(i) = index /\ index = hole))
  \/ pc = "down" /\ Parent(i) = index

AlmostOrdered ==
  /\ \A i \in Indices \ {0} : ~Exempt(i) => InPlace(i)
  /\ \A i \in Indices \ {0} :
       pc # "idle" /\ Parent(i) = index /\ index > 0 => Above(data[Parent(index)], data[i])
  /\ pc = "up" /\ hole # NoHole => index <= hole
  /\ hole # NoHole => pc = "up" \/ pc = "down"

HeapInv == TypeOK /\ AlmostOrdered

-----------------------------------------------------------------------------
(* The tree in the vector.                                                 *)

(* Every index but 0 is a child of its parent, which is smaller.           *)
LEMMA ParentIsBelow ==
  ASSUME NEW i \in Nat, i > 0
  PROVE  /\ Parent(i) \in Nat /\ Parent(i) < i
         /\ i = LeftChild(Parent(i)) \/ i = RightChild(Parent(i))
  BY DEF Parent, LeftChild, RightChild

(* The children of an index are greater, and differ.                       *)
LEMMA ChildrenAreAbove ==
  ASSUME NEW i \in Nat
  PROVE  /\ LeftChild(i) \in Nat /\ LeftChild(i) > i /\ Parent(LeftChild(i)) = i
         /\ RightChild(i) \in Nat /\ RightChild(i) > i /\ Parent(RightChild(i)) = i
         /\ LeftChild(i) # RightChild(i)
  BY DEF Parent, LeftChild, RightChild

(* Ranking is a weak order.                                                *)
LEMMA AboveIsTransitive ==
  ASSUME NEW x \in Values, NEW y \in Values, NEW z \in Values
  PROVE  /\ Above(x, y) /\ Above(y, z) => Above(x, z)
         /\ RanksBelow(x, y) => Above(y, x)
         /\ Above(x, x)
  BY HeapAssumption DEF Above

(* heapifyDown picks an element that ranks above or level with the other   *)
(* two, and stays where it is unless a child ranks above.                  *)
LEMMA LargestIsAbove ==
  ASSUME NEW n \in Nat, size = n, data \in [Indices -> Values], NEW i \in Indices
  PROVE  /\ Largest(i) \in Indices
         /\ Largest(i) \in {i, LeftChild(i), RightChild(i)}
         /\ Above(data[Largest(i)], data[i])
         /\ Largest(i) # i => RanksBelow(data[i], data[Largest(i)]) /\ Parent(Largest(i)) = i
         /\ \A j \in Indices \ {0} : Parent(j) = i => Above(data[Largest(i)], data[j])
<1> DEFINE l == LeftChild(i)
           r == RightChild(i)
           a == IF l < size /\ RanksBelow(data[i], data[l]) THEN l ELSE i
<1>1. Largest(i) = IF r < size /\ RanksBelow(data[a], data[r]) THEN r ELSE a
  BY DEF Largest
<1>2. /\ i \in Nat /\ l \in Nat /\ r \in Nat /\ l # i /\ r # i /\ Parent(l) = i /\ Parent(r) = i
      /\ \A j \in Indices \ {0} : j \in Nat /\ j > 0 /\ (Parent(j) = i => j = l \/ j = r)
  <2>1. i \in Nat /\ \A j \in Indices \ {0} : j \in Nat /\ j > 0
    BY DEF Indices
  <2>2. /\ l \in Nat /\ r \in Nat /\ l # i /\ r # i /\ Parent(l) = i /\ Parent(r) = i
    BY <2>1, ChildrenAreAbove
  <2>3. ASSUME NEW j \in Indices \ {0}, Parent(j) = i PROVE j = l \/ j = r
    BY <2>1, <2>3, ParentIsBelow
  <2> QED BY <2>1, <2>2, <2>3
<1>3. /\ l < size => l \in Indices /\ data[l] \in Values
      /\ r < size => r \in Indices /\ data[r] \in Values
      /\ data[i] \in Values
      /\ \A j \in Indices : j < size
  BY <1>2 DEF Indices
<1> HIDE DEF l, r
<1>4. /\ a \in Indices /\ a \in {i, l} /\ Above(data[a], data[i])
      /\ a # i => RanksBelow(data[i], data[a])
      /\ l < size => Above(data[a], data[l])
  BY <1>3, AboveIsTransitive DEF Above
<1> HIDE DEF a
<1>5. CASE r < size /\ RanksBelow(data[a], data[r])
  <2>1. Largest(i) = r /\ data[a] \in Values
    BY <1>1, <1>4, <1>5
  <2>2. Above(data[r], data[a]) /\ Above(data[r], data[i])
    BY <2>1, <1>3, <1>4, <1>5, AboveIsTransitive
  <2>3. RanksBelow(data[i], data[r])
    BY <2>1, <1>3, <1>4, <1>5, AboveIsTransitive DEF Above
  <2>4. l < size => Above(data[r], data[l])
    BY <2>1, <2>2, <1>3, <1>4, <1>5, AboveIsTransitive
  <2>5. Above(data[r], data[r])
    BY <1>3, <1>5, AboveIsTransitive
  <2> QED BY <2>1, <2>2, <2>3, <2>4, <2>5, <1>2, <1>3, <1>5 DEF l, r
<1>6. CASE ~(r < size /\ RanksBelow(data[a], data[r]))
  <2>1. Largest(i) = a
    BY <1>1, <1>6
  <2>2. r < size => Above(data[a], data[r])
    BY <1>6 DEF Above
  <2> QED BY <2>1, <2>2, <1>2, <1>3, <1>4 DEF l, r
<1> QED BY <1>5, <1>6

-----------------------------------------------------------------------------
(* Type correctness.                                                       *)

(* What a swap leaves at each index.                                       *)
LEMMA SwappedElements ==
  ASSUME data \in [Indices -> Values], NEW i \in Indices, NEW j \in Indices
  PROVE  /\ Swapped(i, j) \in [Indices -> Values]
         /\ \A k \in Indices :
              Swapped(i, j)[k] = IF k = j THEN data[i] ELSE IF k = i THEN data[j] ELSE data[k]
  BY DEF Swapped

(* What is left when the last element is moved over another.               *)
LEMMA LastMovedElements ==
  ASSUME size \in Nat, size > 0, data \in [Indices -> Values], NEW i \in Indices
  PROVE  /\ LastMovedTo(i) \in [0 .. size - 2 -> Values]
         /\ \A k \in 0 .. size - 2 :
              LastMovedTo(i)[k] = IF k = i THEN data[size - 1] ELSE data[k]
  BY DEF LastMovedTo, Indices

(* A heap starts ordered.                                                  *)
LEMMA InitHeapInv == HeapInit => HeapInv
  BY HeapAssumption DEF HeapInit, HeapInv, TypeOK, AlmostOrdered, Indices, NoHole

(* push puts the element last, from where it is sifted up.                 *)
LEMMA PushKeepsInv ==
  ASSUME HeapInv, NEW x \in Values, Push(x) PROVE HeapInv'
<1>1. /\ pc = "idle" /\ size \in Nat /\ size < MaxSize /\ size' = size + 1
      /\ pc' = "up" /\ index' = size /\ hole' = NoHole
      /\ data \in [0 .. size - 1 -> Values]
      /\ data' = [i \in 0 .. size |-> IF i = size THEN x ELSE data[i]]
  BY DEF Push, HeapInv, TypeOK, Indices
<1>2. Indices' = 0 .. size
  BY <1>1 DEF Indices
<1>3. data' \in [0 .. size -> Values]
  BY <1>1
<1>4. TypeOK'
  BY <1>1, <1>2, <1>3, HeapAssumption DEF TypeOK
<1>5. ASSUME NEW i \in Indices' \ {0} PROVE /\ ~Exempt(i)' => InPlace(i)'
                                            /\ Parent(i) # size
  <2>1. i \in 1 .. size /\ Parent(i) \in 0 .. i - 1
    BY <1>1, <1>2, ParentIsBelow
  <2>2. CASE i = size
    BY <1>1, <2>1, <2>2 DEF Exempt
  <2>3. CASE i # size
    <3>1. i \in Indices \ {0} /\ InPlace(i)
      BY <1>1, <2>1, <2>3 DEF HeapInv, AlmostOrdered, Exempt, Indices
    <3>2. data'[i] = data[i] /\ data'[Parent(i)] = data[Parent(i)]
      BY <1>1, <2>1, <2>3
    <3> QED BY <1>1, <2>1, <3>1, <3>2 DEF InPlace, Parent
  <2> QED BY <2>2, <2>3
<1>6. AlmostOrdered'
  BY <1>1, <1>5 DEF AlmostOrdered, Parent
<1> QED BY <1>4, <1>6 DEF HeapInv

(* The last element takes the place of the one at i.                       *)
LEMMA RemovalKeepsInv ==
  ASSUME HeapInv, pc = "idle", size > 0, NEW i \in Indices,
         data' = LastMovedTo(i), size' = size - 1,
         \/ pc' = "idle" /\ index' = index /\ hole' = hole /\ i = size - 1
         \/ pc' = "down" /\ index' = 0 /\ hole' = NoHole /\ i = 0 /\ i < size - 1
         \/ pc' = "up" /\ index' = i /\ hole' = i /\ i < size - 1
  PROVE  HeapInv'
<1>1. /\ size \in Nat /\ data \in [Indices -> Values] /\ i \in 0 .. size - 1
      /\ index = 0 /\ hole = NoHole /\ size <= MaxSize
      /\ \A j \in 1 .. size - 1 : InPlace(j)
  BY DEF HeapInv, TypeOK, AlmostOrdered, Exempt, Indices
<1>2. /\ Indices' = 0 .. size - 2
      /\ data' \in [0 .. size - 2 -> Values]
      /\ \A k \in 0 .. size - 2 : data'[k] = IF k = i THEN data[size - 1] ELSE data[k]
  <2>1. Indices' = 0 .. size - 2
    BY <1>1 DEF Indices
  <2> QED BY <1>1, <2>1, LastMovedElements
<1>3. TypeOK'
  BY <1>1, <1>2, HeapAssumption DEF TypeOK, NoHole
<1>4. ASSUME NEW j \in Indices' \ {0}
      PROVE  /\ j \in 1 .. size - 2 /\ Parent(j) \in 0 .. j - 1
             /\ j # i /\ Parent(j) # i => InPlace(j)'
  <2>1. j \in 1 .. size - 2 /\ Parent(j) \in 0 .. j - 1
    BY <1>1, <1>2, ParentIsBelow
  <2>2. ASSUME j # i, Parent(j) # i PROVE InPlace(j)'
    <3>1. InPlace(j) /\ data'[j] = data[j] /\ data'[Parent(j)] = data[Parent(j)]
      BY <1>1, <1>2, <2>1, <2>2
    <3> QED BY <3>1 DEF InPlace, Parent
  <2> QED BY <2>1, <2>2
<1>5. ASSUME NEW j \in Indices' \ {0}, pc' # "idle", Parent(j) = i, i > 0
      PROVE  Above(data'[Parent(i)], data'[j])
  <2>1. /\ i \in 1 .. size - 1 /\ Parent(i) \in 0 .. i - 1 /\ j \in 1 .. size - 2 /\ j # i
    BY <1>1, <1>4, <1>5, ParentIsBelow
  <2>2. /\ data'[Parent(i)] = data[Parent(i)] /\ data'[j] = data[j]
        /\ data[Parent(i)] \in Values /\ data[j] \in Values /\ data[i] \in Values
    BY <1>1, <1>2, <1>4, <2>1 DEF Indices
  <2>3. Above(data[Parent(i)], data[i]) /\ Above(data[i], data[j])
    BY <1>1, <1>5, <2>1 DEF InPlace
  <2> QED BY <2>2, <2>3, AboveIsTransitive
<1>6. AlmostOrdered'
  <2>1. \A j \in Indices' \ {0} : ~Exempt(j)' => InPlace(j)'
    BY <1>1, <1>4 DEF Exempt, Parent
  <2>2. \A j \in Indices' \ {0} :
          pc' # "idle" /\ Parent(j) = index' /\ index' > 0 => Above(data'[Parent(index')], data'[j])
    BY <1>5
  <2>3. /\ pc' = "up" /\ hole' # NoHole => index' <= hole'
        /\ hole' # NoHole => pc' = "up" \/ pc' = "down"
    BY <1>1
  <2> QED BY <2>1, <2>2, <2>3 DEF AlmostOrdered, Parent
<1> QED BY <1>3, <1>6 DEF HeapInv

(* A swap of i with its parent p, where the element of i ranks above that  *)
(* of p: the pairs around them stay in order.                              *)
LEMMA HeapifyUpKeepsInv ==
  ASSUME HeapInv, HeapifyUp PROVE HeapInv'
<1>1. /\ pc = "up" /\ size \in Nat /\ data \in [Indices -> Values] /\ index \in Indices
      /\ size' = size /\ Indices' = Indices /\ index \in Nat /\ size \in 0 .. MaxSize
      /\ hole \in Indices \cup {NoHole}
  BY HeapAssumption DEF HeapInv, TypeOK, HeapifyUp, Indices
<1>2. /\ \A i \in Indices \ {0} : i # index /\ (Parent(i) = index => index # hole) => InPlace(i)
      /\ \A i \in Indices \ {0} :
           Parent(i) = index /\ index > 0 => Above(data[Parent(index)], data[i])
      /\ hole # NoHole => index <= hole
  BY <1>1 DEF HeapInv, AlmostOrdered, Exempt
<1>3. \A i \in Indices \ {0} : i \in Nat /\ i > 0 /\ Parent(i) \in Indices /\ Parent(i) < i
  BY <1>1, ParentIsBelow DEF Indices
<1>4. \A i \in Indices : data[i] \in Values
  BY <1>1
<1>5. CASE OutOfPlace(index)
  <2> DEFINE p == Parent(index)
  <2>1. /\ index > 0 /\ RanksBelow(data[p], data[index])
        /\ data' = Swapped(p, index) /\ index' = p /\ pc' = "up" /\ hole' = hole
    BY <1>1, <1>5 DEF HeapifyUp, OutOfPlace
  <2>2. p \in Indices /\ p < index /\ p # index
    BY <1>1, <1>3, <2>1
  <2> HIDE DEF p
  <2>3. /\ data' \in [Indices -> Values]
        /\ \A k \in Indices :
             data'[k] = IF k = index THEN data[p] ELSE IF k = p THEN data[index] ELSE data[k]
    BY <1>1, <2>1, <2>2, SwappedElements
  <2>4. TypeOK'
    BY <1>1, <2>1, <2>2, <2>3 DEF TypeOK
  <2>5. ASSUME NEW i \in Indices \ {0}, i # p PROVE Above(data'[Parent(i)], data'[i])
    <3>0. Parent(i) \in Indices /\ Parent(i) < i /\ i \in Nat
      BY <1>3
    <3>1. CASE i = index
      BY <1>1, <1>4, <2>1, <2>2, <2>3, <3>1, AboveIsTransitive DEF p
    <3>2. CASE i # index /\ Parent(i) = index
      BY <1>2, <2>1, <2>2, <2>3, <2>5, <3>0, <3>2 DEF p
    <3>3. CASE i # index /\ Parent(i) # index
      <4>1. Above(data[Parent(i)], data[i])
        BY <1>2, <3>3 DEF InPlace
      <4>2. CASE Parent(i) = p
        <5>1. Above(data[index], data[p]) /\ Above(data[p], data[i])
          BY <1>1, <1>4, <2>1, <2>2, <4>1, <4>2, AboveIsTransitive
        <5>2. Above(data[index], data[i])
          BY <1>1, <1>4, <2>2, <5>1, AboveIsTransitive
        <5> QED BY <2>2, <2>3, <2>5, <3>3, <4>2, <5>2
      <4>3. CASE Parent(i) # p
        BY <2>3, <2>5, <3>0, <3>3, <4>1, <4>3
      <4> QED BY <4>2, <4>3
    <3> QED BY <3>1, <3>2, <3>3
  <2>6. ASSUME NEW i \in Indices \ {0}, Parent(i) = p, p > 0
        PROVE  Above(data'[Parent(p)], data'[i])
    <3>1. /\ p \in Indices \ {0} /\ Parent(p) \in Indices /\ Parent(p) < p /\ p \in Nat
          /\ i # p
      BY <1>3, <2>2, <2>6
    <3>2. /\ InPlace(p) /\ Parent(p) # index /\ Parent(p) # p /\ p # index
      BY <1>1, <1>2, <2>2, <3>1
    <3>3. data'[Parent(p)] = data[Parent(p)] /\ Above(data[Parent(p)], data[p])
      BY <2>3, <3>1, <3>2 DEF InPlace
    <3>4. CASE i = index
      BY <2>2, <2>3, <3>3, <3>4
    <3>5. CASE i # index
      <4>1. Above(data[p], data[i]) /\ data'[i] = data[i]
        BY <1>2, <2>2, <2>3, <2>6, <3>1, <3>5 DEF InPlace
      <4> QED BY <1>4, <2>2, <3>1, <3>3, <4>1, AboveIsTransitive
    <3> QED BY <3>4, <3>5
  <2>7. AlmostOrdered'
    <3>1. \A i \in Indices' \ {0} : ~Exempt(i)' => InPlace(i)'
      BY <1>1, <2>1, <2>5 DEF Exempt, InPlace, Parent, p
    <3>2. \A i \in Indices' \ {0} :
            pc' # "idle" /\ Parent(i) = index' /\ index' > 0 => Above(data'[Parent(index')], data'[i])
      BY <1>1, <2>1, <2>6 DEF p
    <3>3. /\ pc' = "up" /\ hole' # NoHole => index' <= hole'
          /\ hole' # NoHole => pc' = "up" \/ pc' = "down"
      <4>1. hole # NoHole => index <= hole /\ hole \in Nat
        BY <1>1, <1>2 DEF Indices
      <4>2. p \in Nat
        BY <2>2 DEF Indices
      <4> QED BY <1>1, <2>1, <2>2, <4>1, <4>2 DEF p
    <3> QED BY <3>1, <3>2, <3>3 DEF AlmostOrdered, Parent
  <2> QED BY <2>4, <2>7 DEF HeapInv
<1>6. CASE ~OutOfPlace(index)
  <2>1. /\ data' = data
        /\ \/ hole = NoHole /\ pc' = "idle" /\ index' = 0 /\ hole' = NoHole
           \/ hole # NoHole /\ pc' = "down" /\ index' = hole /\ hole' = hole
    BY <1>6 DEF HeapifyUp, Finish
  <2>2. TypeOK'
    BY <1>1, <2>1 DEF TypeOK, HeapInv
  <2>3. index \in Indices \ {0} => InPlace(index)
    BY <1>1, <1>6 DEF OutOfPlace, InPlace, Above
  <2>4. \A i \in Indices \ {0} : Parent(i) # hole => InPlace(i)
    <3>1. ASSUME NEW i \in Indices \ {0}, Parent(i) # hole PROVE InPlace(i)
      BY <1>2, <2>3, <3>1
    <3> QED BY <3>1
  <2>5. ASSUME NEW i \in Indices \ {0}, hole # NoHole, Parent(i) = hole, hole > 0
        PROVE  Above(data[Parent(hole)], data[i])
    <3>1. hole \in Indices \ {0} /\ Parent(hole) \in Indices /\ Parent(hole) < hole /\ hole \in Nat
      BY <1>1, <1>3, <2>5
    <3>2. CASE index = hole
      BY <1>2, <2>5, <3>2
    <3>3. CASE index # hole
      <4>1. Parent(hole) # hole /\ InPlace(hole)
        BY <2>4, <3>1
      <4>2. InPlace(i)
        BY <1>2, <2>3, <2>5, <3>3
      <4> QED BY <1>4, <2>5, <3>1, <4>1, <4>2, AboveIsTransitive DEF InPlace
    <3> QED BY <3>2, <3>3
  <2>6. AlmostOrdered'
    <3>1. \A i \in Indices' \ {0} : ~Exempt(i)' => InPlace(i)'
      <4>1. ASSUME NEW i \in Indices \ {0}, hole = NoHole PROVE Parent(i) # hole
        BY <1>3, <4>1 DEF NoHole, Indices
      <4> QED BY <1>1, <2>1, <2>4, <4>1 DEF Exempt, InPlace, Parent
    <3>2. \A i \in Indices' \ {0} :
            pc' # "idle" /\ Parent(i) = index' /\ index' > 0 => Above(data'[Parent(index')], data'[i])
      BY <1>1, <2>1, <2>5
    <3> QED BY <2>1, <3>1, <3>2 DEF AlmostOrdered, Parent
  <2> QED BY <2>2, <2>6 DEF HeapInv
<1> QED BY <1>5, <1>6

(* A swap of an element with the child that ranks above it and above the   *)
(* other child.                                                            *)
LEMMA HeapifyDownKeepsInv ==
  ASSUME HeapInv, HeapifyDown PROVE HeapInv'
<1> DEFINE l == Largest(index)
<1>1. /\ pc = "down" /\ size \in Nat /\ data \in [Indices -> Values] /\ index \in Indices
      /\ size' = size /\ Indices' = Indices /\ index \in Nat /\ size \in 0 .. MaxSize
      /\ hole \in Indices \cup {NoHole}
  BY HeapAssumption DEF HeapInv, TypeOK, HeapifyDown, Indices
<1>2. /\ \A i \in Indices \ {0} : Parent(i) # index => InPlace(i)
      /\ \A i \in Indices \ {0} :
           Parent(i) = index /\ index > 0 => Above(data[Parent(index)], data[i])
  BY <1>1 DEF HeapInv, AlmostOrdered, Exempt
<1>3. \A i \in Indices \ {0} : i \in Nat /\ i > 0 /\ Parent(i) \in Indices /\ Parent(i) < i
  BY <1>1, ParentIsBelow DEF Indices
<1>4. \A i \in Indices : data[i] \in Values
  BY <1>1
<1>5. /\ l \in Indices
      /\ l # index => RanksBelow(data[index], data[l]) /\ Parent(l) = index
      /\ \A j \in Indices \ {0} : Parent(j) = index => Above(data[l], data[j])
  BY <1>1, LargestIsAbove
<1>6. CASE l # index
  <2>1. data' = Swapped(index, l) /\ index' = l /\ pc' = "down" /\ hole' = hole
    BY <1>1, <1>6 DEF HeapifyDown
  <2> HIDE DEF l
  <2>2. /\ data' \in [Indices -> Values]
        /\ \A k \in Indices :
             data'[k] = IF k = l THEN data[index] ELSE IF k = index THEN data[l] ELSE data[k]
    BY <1>1, <1>5, <2>1, SwappedElements
  <2>3. l \in Indices \ {0} /\ l > index /\ Parent(l) = index /\ l \in Nat
    <3>1. l \in {index, LeftChild(index), RightChild(index)}
      BY <1>1, LargestIsAbove DEF l
    <3> QED BY <1>1, <1>5, <1>6, <3>1, ChildrenAreAbove
  <2>4. TypeOK'
    BY <1>1, <1>5, <2>1, <2>2 DEF TypeOK
  <2>5. ASSUME NEW i \in Indices \ {0}, Parent(i) # l PROVE Above(data'[Parent(i)], data'[i])
    <3>0. Parent(i) \in Indices /\ Parent(i) < i /\ i \in Nat
      BY <1>3
    <3>1. CASE i = l
      BY <1>1, <1>4, <1>5, <1>6, <2>2, <2>3, <3>1, AboveIsTransitive
    <3>2. CASE i # l /\ Parent(i) = index
      BY <1>1, <1>5, <2>2, <3>0, <3>2
    <3>3. CASE i = index
      <4>1. Above(data[Parent(index)], data[l])
        BY <1>2, <1>3, <2>3, <2>5, <3>3
      <4>2. Parent(i) # index /\ Parent(i) # l
        BY <2>5, <3>0, <3>3
      <4>3. data'[Parent(i)] = data[Parent(i)] /\ data'[i] = data[l]
        BY <1>6, <2>2, <3>0, <3>3, <4>2
      <4> QED BY <3>3, <4>1, <4>3
    <3>4. CASE i # l /\ i # index /\ Parent(i) # index
      BY <1>2, <2>2, <2>5, <3>0, <3>4 DEF InPlace
    <3> QED BY <3>1, <3>2, <3>3, <3>4
  <2>6. ASSUME NEW i \in Indices \ {0}, Parent(i) = l PROVE Above(data'[Parent(l)], data'[i])
    <3>1. i \in Nat /\ i > l
      BY <1>3, <2>6
    <3>2. InPlace(i) /\ i # l /\ i # index
      BY <1>1, <1>2, <1>6, <2>3, <2>6, <3>1
    <3> QED BY <1>1, <1>6, <2>2, <2>3, <2>6, <3>2 DEF InPlace
  <2>7. AlmostOrdered'
    BY <1>1, <2>1, <2>5, <2>6 DEF AlmostOrdered, Exempt, InPlace, Parent
  <2> QED BY <2>4, <2>7 DEF HeapInv
<1>7. CASE l = index
  <2>1. data' = data /\ pc' = "idle" /\ index' = 0 /\ hole' = NoHole
    BY <1>1, <1>7 DEF HeapifyDown, Finish
  <2>2. TypeOK'
    BY <1>1, <2>1 DEF TypeOK
  <2>3. \A i \in Indices \ {0} : InPlace(i)
    BY <1>2, <1>5, <1>7 DEF InPlace
  <2>4. AlmostOrdered'
    BY <1>1, <2>1, <2>3 DEF AlmostOrdered, InPlace, Parent
  <2> QED BY <2>2, <2>4 DEF HeapInv
<1> QED BY <1>6, <1>7

(* The invariant holds at the start and is kept by every step.             *)
LEMMA HeapInvIsInductive ==
  /\ HeapInit => HeapInv
  /\ HeapInv /\ [HeapNext]_vars => HeapInv'
<1>1. ASSUME HeapInv, [HeapNext]_vars PROVE HeapInv'
  <2>1. CASE UNCHANGED vars
    BY <1>1, <2>1 DEF vars, HeapInv, TypeOK, AlmostOrdered, Exempt, InPlace, Indices, Parent
  <2>2. ASSUME NEW x \in Values, Push(x) PROVE HeapInv'
    BY <1>1, <2>2, PushKeepsInv
  <2>3. CASE Pop
    <3>1. /\ pc = "idle" /\ size > 0 /\ size \in Nat /\ index = 0 /\ hole = NoHole
          /\ data' = LastMovedTo(0) /\ size' = size - 1 /\ index' = index /\ hole' = hole
          /\ pc' = IF size > 1 THEN "down" ELSE "idle"
      BY <1>1, <2>3 DEF Pop, HeapInv, TypeOK
    <3>2. 0 \in Indices /\ (size > 1 => 0 < size - 1) /\ (~(size > 1) => 0 = size - 1)
      BY <3>1 DEF Indices
    <3>3. CASE size > 1
      BY <1>1, <3>1, <3>2, <3>3, RemovalKeepsInv
    <3>4. CASE ~(size > 1)
      BY <1>1, <3>1, <3>2, <3>4, RemovalKeepsInv
    <3> QED BY <3>3, <3>4
  <2>4. ASSUME NEW predicate \in Predicates, RemoveIf(predicate) PROVE HeapInv'
    <3>1. PICK i \in Indices :
            /\ pc = "idle" /\ data' = LastMovedTo(i) /\ size' = size - 1
            /\ IF i < size - 1 THEN pc' = "up" /\ index' = i /\ hole' = i
                               ELSE UNCHANGED <<pc, index, hole>>
      BY <2>4 DEF RemoveIf
    <3>2. size \in Nat /\ size > 0 /\ i \in 0 .. size - 1 /\ (~(i < size - 1) => i = size - 1)
      BY <1>1 DEF HeapInv, TypeOK, Indices
    <3>3. CASE i < size - 1
      BY <1>1, <3>1, <3>2, <3>3, RemovalKeepsInv
    <3>4. CASE ~(i < size - 1)
      BY <1>1, <3>1, <3>2, <3>4, RemovalKeepsInv
    <3> QED BY <3>3, <3>4
  <2>5. CASE HeapifyUp
    BY <1>1, <2>5, HeapifyUpKeepsInv
  <2>6. CASE HeapifyDown
    BY <1>1, <2>6, HeapifyDownKeepsInv
  <2> QED BY <1>1, <2>1, <2>2, <2>3, <2>4, <2>5, <2>6 DEF HeapNext
<1> QED BY <1>1, InitHeapInv

(* The inductive invariant: the vector is ordered but at the one index     *)
(* that a sift is at, in every reachable state.                            *)
THEOREM HeapInvariant == HeapSpec => []HeapInv
  BY HeapInvIsInductive, PTL DEF HeapSpec

(* Whatever pushes, pops and removals ran, when the last sift has ended no *)
(* element ranks above its parent; no sift has left the vector.            *)
THEOREM HeapIsOrdered == HeapSpec => []HeapOrdered
<1>1. ASSUME HeapInv PROVE HeapOrdered
  <2>1. ASSUME pc = "idle", NEW i \in Indices PROVE ~OutOfPlace(i)
    BY <1>1, <2>1 DEF HeapInv, AlmostOrdered, Exempt, InPlace, Above, OutOfPlace
  <2> QED BY <1>1, <2>1 DEF HeapInv, HeapOrdered
<1> QED BY <1>1, HeapInvariant, PTL

-----------------------------------------------------------------------------
(* What the vector holds, as a bag.                                        *)

At(d, n, x) == {i \in 0 .. n - 1 : d[i] = x}

(* f is the array d once elements have been swapped, removed or pushed.    *)
IsSwap(f, d, n, i, j) ==
  \A k \in 0 .. n - 1 : f[k] = IF k = j THEN d[i] ELSE IF k = i THEN d[j] ELSE d[k]

IsRemoval(f, d, n, i) == \A k \in 0 .. n - 2 : f[k] = IF k = i THEN d[n - 1] ELSE d[k]

IsPush(f, d, n, y) == \A k \in 0 .. n : f[k] = IF k = n THEN y ELSE d[k]

BagOf(d, n) == [x \in {d[i] : i \in 0 .. n - 1} |-> Cardinality(At(d, n, x))]

(* There are finitely many copies of an element, and some when it is       *)
(* there.                                                                  *)
LEMMA CopiesType ==
  ASSUME NEW d, NEW n \in Nat, NEW x
  PROVE  /\ IsFiniteSet(At(d, n, x)) /\ Cardinality(At(d, n, x)) \in Nat
         /\ Cardinality(At(d, n, x)) > 0 <=> \E i \in 0 .. n - 1 : d[i] = x
<1>1. IsFiniteSet(0 .. n - 1)
  BY FS_Interval
<1>2. IsFiniteSet(At(d, n, x))
  BY <1>1, FS_Subset DEF At
<1>3. Cardinality(At(d, n, x)) \in Nat /\ (Cardinality(At(d, n, x)) = 0 <=> At(d, n, x) = {})
  BY <1>2, FS_CardinalityType, FS_EmptySet
<1> QED BY <1>2, <1>3 DEF At

(* A swap moves elements and changes the number of none of them.           *)
LEMMA SwapKeepsCopies ==
  ASSUME NEW n \in Nat, NEW d, NEW f, NEW i \in 0 .. n - 1, NEW j \in 0 .. n - 1, NEW x,
         IsSwap(f, d, n, i, j)
  PROVE  Cardinality(At(f, n, x)) = Cardinality(At(d, n, x))
<1> DEFINE S == At(f, n, x)
           T == At(d, n, x)
           m == [k \in S |-> IF k = j THEN i ELSE IF k = i THEN j ELSE k]
<1>1. m \in [S -> T]
  BY DEF At, IsSwap
<1>2. \A a, b \in S : m[a] = m[b] => a = b
  OBVIOUS
<1>3. ASSUME NEW t \in T PROVE \E s \in S : m[s] = t
  <2> DEFINE s == IF t = i THEN j ELSE IF t = j THEN i ELSE t
  <2>1. s \in S /\ m[s] = t
    BY <1>3 DEF At, IsSwap
  <2> QED BY <2>1
<1>4. m \in Injection(S, T) /\ m \in Surjection(S, T)
  <2> HIDE DEF m, S, T
  <2> QED BY <1>1, <1>2, <1>3 DEF Injection, Surjection, IsInjective
<1>5. IsFiniteSet(S)
  BY CopiesType
<1> HIDE DEF m, S, T
<1>6. Cardinality(T) = Cardinality(S)
  BY <1>4, <1>5, FS_Surjection
<1> QED BY <1>6 DEF S, T

(* When the last element takes the place of the one at i, one copy of that *)
(* one is gone.                                                            *)
LEMMA RemovalTakesOneCopy ==
  ASSUME NEW n \in Nat, n > 0, NEW d, NEW f, NEW i \in 0 .. n - 1, NEW x,
         IsRemoval(f, d, n, i)
  PROVE  Cardinality(At(f, n - 1, x)) =
           IF x = d[i] THEN Cardinality(At(d, n, x)) - 1 ELSE Cardinality(At(d, n, x))
<1> DEFINE S == At(f, n - 1, x)
           C == At(d, n, x)
           T == C \ {i}
           m == [k \in S |-> IF k = i THEN n - 1 ELSE k]
<1>1. m \in [S -> T]
  BY DEF At, IsRemoval
<1>2. \A a, b \in S : m[a] = m[b] => a = b
  BY DEF At, IsRemoval
<1>3. ASSUME NEW t \in T PROVE \E s \in S : m[s] = t
  <2> DEFINE s == IF t = n - 1 THEN i ELSE t
  <2>1. s \in S /\ m[s] = t
    BY <1>3 DEF At, IsRemoval
  <2> QED BY <2>1
<1>4. m \in Injection(S, T) /\ m \in Surjection(S, T)
  <2> HIDE DEF m, S, T
  <2> QED BY <1>1, <1>2, <1>3 DEF Injection, Surjection, IsInjective
<1>5. IsFiniteSet(S) /\ IsFiniteSet(C)
  <2>1. n - 1 \in Nat
    OBVIOUS
  <2> QED BY <2>1, CopiesType
<1>6. i \in C <=> x = d[i]
  BY DEF At, IsRemoval
<1> HIDE DEF m, S, C
<1>7. Cardinality(T) = Cardinality(S)
  BY <1>4, <1>5, FS_Surjection
<1>8. Cardinality(T) = IF i \in C THEN Cardinality(C) - 1 ELSE Cardinality(C)
  BY <1>5, FS_RemoveElement
<1> QED BY <1>6, <1>7, <1>8 DEF S, C

(* An element put last is one more copy of it.                             *)
LEMMA PushAddsOneCopy ==
  ASSUME NEW n \in Nat, NEW d, NEW f, NEW y, NEW x,
         IsPush(f, d, n, y)
  PROVE  Cardinality(At(f, n + 1, x)) =
           IF x = y THEN Cardinality(At(d, n, x)) + 1 ELSE Cardinality(At(d, n, x))
<1>1. At(f, n + 1, x) = IF x = y THEN At(d, n, x) \cup {n} ELSE At(d, n, x)
  BY DEF At, IsPush
<1>2. n \notin At(d, n, x)
  BY DEF At, IsPush
<1>3. IsFiniteSet(At(d, n, x))
  BY CopiesType
<1> QED BY <1>1, <1>2, <1>3, FS_AddElement

(* The bag of a vector counts the copies of each element.                  *)
LEMMA BagOfElements ==
  ASSUME NEW d, NEW n \in Nat, NEW x
  PROVE  /\ x \in DOMAIN BagOf(d, n) <=> Cardinality(At(d, n, x)) > 0
         /\ x \in DOMAIN BagOf(d, n) => BagOf(d, n)[x] = Cardinality(At(d, n, x))
         /\ Cardinality(At(d, n, x)) \in Nat
<1>1. /\ Cardinality(At(d, n, x)) \in Nat
      /\ Cardinality(At(d, n, x)) > 0 <=> \E i \in 0 .. n - 1 : d[i] = x
  BY CopiesType
<1>2. DOMAIN BagOf(d, n) = {d[i] : i \in 0 .. n - 1}
  BY DEF BagOf
<1>3. x \in DOMAIN BagOf(d, n) <=> \E i \in 0 .. n - 1 : d[i] = x
  BY <1>2
<1>4. x \in DOMAIN BagOf(d, n) => BagOf(d, n)[x] = Cardinality(At(d, n, x))
  BY DEF BagOf
<1> QED BY <1>1, <1>3, <1>4

(* g holds the number of every element that d has, and D just those.       *)
Counts(D, g, d, n) ==
  \A x : /\ x \in D <=> Cardinality(At(d, n, x)) > 0
         /\ x \in D => g[x] = Cardinality(At(d, n, x))

(* Two bags with the same elements, as often, are equal.                   *)
LEMMA BagOfIs ==
  ASSUME NEW d, NEW n \in Nat, NEW D, NEW g,
         Counts(D, g, d, n)
  PROVE  BagOf(d, n) = [x \in D |-> g[x]]
<1>1. ASSUME NEW x \in D \cup DOMAIN BagOf(d, n)
      PROVE  /\ x \in DOMAIN BagOf(d, n) <=> x \in D
             /\ x \in D => BagOf(d, n)[x] = g[x]
  BY <1>1, BagOfElements DEF Counts
<1>2. DOMAIN BagOf(d, n) = D
  BY <1>1
<1>3. BagOf(d, n) = [x \in DOMAIN BagOf(d, n) |-> BagOf(d, n)[x]]
  BY DEF BagOf
<1> HIDE DEF BagOf
<1> QED BY <1>1, <1>2, <1>3

(* A swap moves copies about.                                              *)
LEMMA SwapKeepsBag ==
  ASSUME NEW n \in Nat, NEW d, NEW f, NEW i \in 0 .. n - 1, NEW j \in 0 .. n - 1,
         IsSwap(f, d, n, i, j)
  PROVE  BagOf(f, n) = BagOf(d, n)
<1> DEFINE B == BagOf(d, n)
           D == DOMAIN B
<1>1. ASSUME NEW x PROVE Cardinality(At(f, n, x)) = Cardinality(At(d, n, x))
  BY SwapKeepsCopies
<1>2. ASSUME NEW x PROVE /\ x \in D <=> Cardinality(At(f, n, x)) > 0
                         /\ x \in D => B[x] = Cardinality(At(f, n, x))
  <2>1. /\ x \in D <=> Cardinality(At(d, n, x)) > 0
        /\ x \in D => B[x] = Cardinality(At(d, n, x))
    BY BagOfElements
  <2> QED BY <1>1, <2>1
<1>3. B = [x \in D |-> B[x]]
  BY DEF BagOf
<1> HIDE DEF B, D
<1>4. Counts(D, B, f, n)
  BY <1>2 DEF Counts
<1>5. BagOf(f, n) = [x \in D |-> B[x]]
  BY <1>4, BagOfIs
<1> QED BY <1>3, <1>5 DEF B

(* Moving the last element over another takes one copy of that one out.    *)
LEMMA RemovalTakesFromBag ==
  ASSUME NEW n \in Nat, n > 0, NEW d, NEW f, NEW i \in 0 .. n - 1,
         IsRemoval(f, d, n, i)
  PROVE  BagOf(f, n - 1) = Abstract!(-)(BagOf(d, n), Abstract!SetToBag({d[i]}))
<1> DEFINE B == BagOf(d, n)
           R == [x \in DOMAIN B |-> IF x = d[i] THEN B[x] - 1 ELSE B[x]]
           D == {y \in DOMAIN R : R[y] > 0}
<1>1. Abstract!(-)(B, Abstract!SetToBag({d[i]})) = [x \in D |-> R[x]]
  <2>1. [x \in DOMAIN B |-> IF x \in DOMAIN Abstract!SetToBag({d[i]})
                            THEN B[x] - Abstract!SetToBag({d[i]})[x] ELSE B[x]] = R
    <3> HIDE DEF B
    <3> QED BY DEF Abstract!SetToBag
  <2> HIDE DEF B
  <2> QED BY <2>1 DEF Abstract!(-)
<1>2. ASSUME NEW x PROVE /\ x \in D <=> Cardinality(At(f, n - 1, x)) > 0
                         /\ x \in D => R[x] = Cardinality(At(f, n - 1, x))
  <2> DEFINE c == Cardinality(At(d, n, x))
             e == Cardinality(At(f, n - 1, x))
  <2>1. e = IF x = d[i] THEN c - 1 ELSE c
    BY RemovalTakesOneCopy
  <2>2. (x \in DOMAIN B <=> c > 0) /\ (x \in DOMAIN B => B[x] = c) /\ c \in Nat
    BY BagOfElements
  <2>3. e \in Nat
    BY CopiesType, n - 1 \in Nat
  <2> HIDE DEF B, c, e
  <2>4. x \in DOMAIN B => R[x] = e
    BY <2>1, <2>2
  <2>5. x \in D <=> x \in DOMAIN B /\ R[x] > 0
    OBVIOUS
  <2> HIDE DEF R, D
  <2>6. x \in D <=> e > 0
    BY <2>1, <2>2, <2>3, <2>4, <2>5
  <2> QED BY <2>4, <2>5, <2>6 DEF e
<1> HIDE DEF B, R, D
<1>3. n - 1 \in Nat
  OBVIOUS
<1>4. Counts(D, R, f, n - 1)
  BY <1>2 DEF Counts
<1>5. BagOf(f, n - 1) = [x \in D |-> R[x]]
  BY <1>3, <1>4, BagOfIs
<1> QED BY <1>1, <1>5 DEF B

(* An element put last is added to the bag.                                *)
LEMMA PushAddsToBag ==
  ASSUME NEW n \in Nat, NEW d, NEW f, NEW y,
         IsPush(f, d, n, y)
  PROVE  BagOf(f, n + 1) = Abstract!(+)(BagOf(d, n), Abstract!SetToBag({y}))
<1> DEFINE B == BagOf(d, n)
           D == DOMAIN B \cup {y}
           R == [x \in D |-> (IF x \in DOMAIN B THEN B[x] ELSE 0) + (IF x = y THEN 1 ELSE 0)]
<1>1. Abstract!(+)(B, Abstract!SetToBag({y})) = [x \in D |-> R[x]]
  <2> HIDE DEF B
  <2> QED BY DEF Abstract!(+), Abstract!SetToBag
<1>2. ASSUME NEW x PROVE /\ x \in D <=> Cardinality(At(f, n + 1, x)) > 0
                         /\ x \in D => R[x] = Cardinality(At(f, n + 1, x))
  <2> DEFINE c == Cardinality(At(d, n, x))
             e == Cardinality(At(f, n + 1, x))
  <2>1. e = IF x = y THEN c + 1 ELSE c
    BY PushAddsOneCopy
  <2>2. (x \in DOMAIN B <=> c > 0) /\ (x \in DOMAIN B => B[x] = c) /\ c \in Nat
    BY BagOfElements
  <2> HIDE DEF B, c, e
  <2>4. x \in D => R[x] = e
    BY <2>1, <2>2
  <2>5. x \in D <=> e > 0
    BY <2>1, <2>2
  <2> QED BY <2>4, <2>5 DEF e
<1> HIDE DEF B, R, D
<1>3. n + 1 \in Nat
  OBVIOUS
<1>4. Counts(D, R, f, n + 1)
  BY <1>2 DEF Counts
<1>5. BagOf(f, n + 1) = [x \in D |-> R[x]]
  BY <1>3, <1>4, BagOfIs
<1> QED BY <1>1, <1>5 DEF B

(* The items of the abstract queue are the bag of the vector.              *)
LEMMA ItemsAreTheBag ==
  /\ Items = BagOf(data, size)
  /\ Items' = BagOf(data', size')
  BY DEF Items, BagOf, At, Indices

(* The bag is empty when the vector is.                                    *)
LEMMA EmptyBagIsEmpty ==
  ASSUME NEW d, NEW n \in Nat
  PROVE  BagOf(d, n) = Abstract!EmptyBag <=> n = 0
<1>1. Abstract!EmptyBag = [x \in {} |-> 1]
  BY DEF Abstract!EmptyBag, Abstract!SetToBag
<1>2. CASE n = 0
  <2>1. {d[i] : i \in 0 .. n - 1} = {}
    BY <1>2
  <2> QED BY <1>1, <1>2, <2>1 DEF BagOf
<1>3. CASE n # 0
  <2>1. d[0] \in DOMAIN BagOf(d, n)
    BY <1>3 DEF BagOf
  <2> QED BY <1>1, <1>3, <2>1
<1> QED BY <1>2, <1>3

-----------------------------------------------------------------------------
(* What is on top.                                                         *)

(* Nothing up to m ranks above the root when they are all in place.        *)
LEMMA RootIsAbove ==
  ASSUME TypeOK, NEW m \in Indices, \A i \in 1 .. m : InPlace(i)
  PROVE  \A i \in 0 .. m : Above(data[0], data[i])
<1>1. size \in Nat /\ m \in 0 .. size - 1 /\ data \in [0 .. size - 1 -> Values]
  BY HeapAssumption DEF TypeOK, Indices
<1> DEFINE T == {i \in 0 .. m : ~Above(data[0], data[i])}
<1> SUFFICES ASSUME T # {} PROVE FALSE
  OBVIOUS
<1>2. PICK i \in T : \A j \in T : ~(j < i)
  <2>1. T \subseteq Nat
    BY <1>1
  <2> HIDE DEF T
  <2> QED BY <2>1, LeastNumber
<1>3. i \in 0 .. m /\ data[i] \in Values /\ data[0] \in Values /\ ~Above(data[0], data[i])
  BY <1>1
<1>4. i # 0
  BY <1>3, AboveIsTransitive
<1>5. Parent(i) \in 0 .. m /\ Parent(i) < i
  BY <1>1, <1>3, <1>4, ParentIsBelow
<1>6. Above(data[0], data[Parent(i)]) /\ data[Parent(i)] \in Values
  BY <1>1, <1>2, <1>5
<1>7. Above(data[Parent(i)], data[i])
  BY <1>1, <1>3, <1>4 DEF InPlace
<1> QED BY <1>3, <1>6, <1>7, AboveIsTransitive

(* With only the root out of place, the one that heapifyDown will bring up *)
(* is a best element.                                                      *)
LEMMA LargestIsBest ==
  ASSUME TypeOK, size > 0, \A i \in Indices \ {0} : Parent(i) # 0 => InPlace(i)
  PROVE  /\ Largest(0) \in Indices
         /\ \A i \in Indices : Above(data[Largest(0)], data[i])
<1>1. size \in Nat /\ Indices = 0 .. size - 1 /\ data \in [Indices -> Values] /\ 0 \in Indices
  BY HeapAssumption DEF TypeOK, Indices
<1> DEFINE l == Largest(0)
           T == {i \in Indices : ~Above(data[l], data[i])}
<1>2. /\ l \in Indices /\ Above(data[l], data[0])
      /\ \A j \in Indices \ {0} : Parent(j) = 0 => Above(data[l], data[j])
  BY <1>1, LargestIsAbove
<1> HIDE DEF l
<1>3. T = {}
  <2> SUFFICES ASSUME T # {} PROVE FALSE
    OBVIOUS
  <2>1. PICK i \in T : \A j \in T : ~(j < i)
    <3>1. T \subseteq Nat
      BY <1>1
    <3> HIDE DEF T
    <3> QED BY <3>1, LeastNumber
  <2>2. i \in Indices \ {0} /\ Parent(i) # 0 /\ ~Above(data[l], data[i])
    BY <1>2
  <2>3. Parent(i) \in Indices /\ Parent(i) < i /\ i \in Nat
    BY <1>1, <2>2, ParentIsBelow
  <2>4. Above(data[l], data[Parent(i)])
    BY <2>1, <2>3
  <2>5. Above(data[Parent(i)], data[i])
    BY <2>2 DEF InPlace
  <2>6. data[l] \in Values /\ data[Parent(i)] \in Values /\ data[i] \in Values
    BY <1>1, <1>2, <2>2, <2>3
  <2> QED BY <2>2, <2>4, <2>5, <2>6, AboveIsTransitive
<1> QED BY <1>2, <1>3 DEF l

(* The root when its children are in place: heapifyDown leaves it.         *)
LEMMA LargestStays ==
  ASSUME TypeOK, size > 0, \A i \in Indices \ {0} : Parent(i) = 0 => InPlace(i)
  PROVE  Largest(0) = 0
<1>1. size \in Nat /\ data \in [Indices -> Values] /\ 0 \in Indices
  BY HeapAssumption DEF TypeOK, Indices
<1>2. /\ Largest(0) \in Indices
      /\ Largest(0) # 0 => RanksBelow(data[0], data[Largest(0)]) /\ Parent(Largest(0)) = 0
  BY <1>1, LargestIsAbove
<1> QED BY <1>2 DEF InPlace, Above

(* What is at the root between operations is a best element.               *)
LEMMA TopOfIdleHeap ==
  ASSUME HeapInv, pc = "idle", size > 0
  PROVE  Top = data[0] /\ \A i \in Indices : Above(data[0], data[i])
<1>1. TypeOK /\ size \in Nat /\ size - 1 \in Indices /\ \A i \in 1 .. size - 1 : InPlace(i)
  BY HeapAssumption DEF HeapInv, TypeOK, AlmostOrdered, Exempt, Indices
<1>2. \A i \in 0 .. size - 1 : Above(data[0], data[i])
  BY <1>1, RootIsAbove
<1> QED BY <1>1, <1>2 DEF Top, Indices

(* While an element moves away from the root, the best element is the one  *)
(* that comes up.                                                          *)
RootIsFilled ==
  HeapInv /\ size > 0 /\ pc # "idle" /\ index = 0
    => /\ Top = data[Largest(0)] /\ Largest(0) \in Indices
       /\ \A i \in Indices : Above(data[Largest(0)], data[i])

(* While the root is being filled, its greater child is the top.           *)
LEMMA RootIsFilledAlways == RootIsFilled
<1> SUFFICES ASSUME HeapInv, size > 0, pc # "idle", index = 0
             PROVE  /\ Top = data[Largest(0)] /\ Largest(0) \in Indices
                    /\ \A i \in Indices : Above(data[Largest(0)], data[i])
  BY DEF RootIsFilled
<1>1. TypeOK /\ \A i \in Indices \ {0} : Parent(i) # 0 => InPlace(i)
  BY DEF HeapInv, AlmostOrdered, Exempt
<1>2. /\ Largest(0) \in Indices
      /\ \A i \in Indices : Above(data[Largest(0)], data[i])
  BY <1>1, LargestIsBest
<1>3. Top = data[Largest(0)]
  <2>1. size # 0
    BY HeapAssumption DEF HeapInv, TypeOK
  <2> QED BY <2>1 DEF Top
<1> QED BY <1>2, <1>3

(* The same of the next state.                                             *)
LEMMA RootWillBeFilled == RootIsFilled'
  BY RootIsFilledAlways, PTL

-----------------------------------------------------------------------------
(* The steps.                                                              *)

(* An operation of the vector is the same operation of the queue.          *)
LEMMA PushIsQueuePush ==
  ASSUME HeapInv, NEW x \in Values, Push(x) PROVE Abstract!QueuePush
<1>1. /\ pc = "idle" /\ size \in Nat /\ size' = size + 1 /\ pc' = "up" /\ index' = size
      /\ data \in [0 .. size - 1 -> Values]
      /\ data' = [i \in 0 .. size |-> IF i = size THEN x ELSE data[i]]
  BY HeapAssumption DEF Push, HeapInv, TypeOK, Indices
<1>2. Items' = Abstract!(+)(Items, Abstract!SetToBag({x}))
  <2>1. IsPush(data', data, size, x)
    BY <1>1 DEF IsPush
  <2> QED BY <1>1, <2>1, PushAddsToBag, ItemsAreTheBag
<1>3. Items = Abstract!EmptyBag <=> size = 0
  BY <1>1, ItemsAreTheBag, EmptyBagIsEmpty
<1>4. Top' = IF size = 0 \/ RanksBelow(Top, x) THEN x ELSE Top
  <2>1. CASE size = 0
    <3>1. Largest(0)' = 0
      BY <1>1, <2>1 DEF Largest, LeftChild, RightChild
    <3> QED BY <1>1, <2>1, <3>1 DEF Top
  <2>2. CASE size # 0
    <3>1. Top = data[0]
      BY <1>1, <2>2, TopOfIdleHeap
    <3>2. data'[0] = data[0] /\ data'[size] = x
      BY <1>1, <2>2
    <3>3. Top' = IF RanksBelow(data'[0], data'[size]) THEN data'[size] ELSE data'[0]
      BY <1>1, <2>2 DEF Top
    <3> QED BY <2>2, <3>1, <3>2, <3>3
  <2> QED BY <2>1, <2>2
<1> DEFINE q == [items |-> Items, top |-> Top]
<1>5. q' = Abstract!Pushed(q, x)
  BY <1>2, <1>3, <1>4 DEF Abstract!Pushed, Abstract!IsEmpty
<1> QED BY <1>5 DEF Abstract!QueuePush

(* The bag that a removal leaves, and the queues that it may leave.        *)
LEMMA RemovalTakesAnItem ==
  ASSUME HeapInv, pc = "idle", NEW i \in Indices, data' = LastMovedTo(i), size' = size - 1
  PROVE  /\ size > 0 /\ size' \in Nat
         /\ Items' = Abstract!(-)(Items, Abstract!SetToBag({data[i]}))
         /\ Items' = Abstract!EmptyBag <=> size' = 0
         /\ size' = 0 => Top' = Nothing
         /\ Abstract!BagToSet(Items') = {data'[k] : k \in Indices'}
         /\ \A k \in 0 .. size - 2 : data'[k] = IF k = i THEN data[size - 1] ELSE data[k]
<1>1. size \in Nat /\ size > 0 /\ size - 1 \in Nat /\ data \in [Indices -> Values] /\ i \in 0 .. size - 1
  BY HeapAssumption DEF HeapInv, TypeOK, Indices
<1>2. IsRemoval(data', data, size, i)
  BY <1>1, LastMovedElements DEF IsRemoval
<1>3. Items' = Abstract!(-)(Items, Abstract!SetToBag({data[i]}))
  BY <1>1, <1>2, RemovalTakesFromBag, ItemsAreTheBag
<1>4. Items' = Abstract!EmptyBag <=> size' = 0
  BY <1>1, ItemsAreTheBag, EmptyBagIsEmpty
<1>5. size' = 0 => Top' = Nothing
  BY DEF Top
<1>6. Abstract!BagToSet(Items') = {data'[k] : k \in Indices'}
  BY DEF Abstract!BagToSet, Items
<1> QED BY <1>1, <1>2, <1>3, <1>4, <1>5, <1>6 DEF IsRemoval

(* After the root is removed, the top is a greatest of the rest.           *)
LEMMA RemovedRootIsSettled ==
  ASSUME HeapInv, HeapInv', pc = "idle", data' = LastMovedTo(0), size' = size - 1, size > 0,
         size' > 0 => pc' # "idle" /\ index' = 0
  PROVE  [items |-> Items, top |-> Top]'
           \in Abstract!Sifted(Abstract!(-)(Items, Abstract!SetToBag({data[0]})))
<1>1. 0 \in Indices /\ size \in Nat
  BY HeapAssumption DEF HeapInv, TypeOK, Indices
<1>2. /\ size' \in Nat
      /\ Items' = Abstract!(-)(Items, Abstract!SetToBag({data[0]}))
      /\ Items' = Abstract!EmptyBag <=> size' = 0
      /\ size' = 0 => Top' = Nothing
      /\ Abstract!BagToSet(Items') = {data'[k] : k \in Indices'}
  BY <1>1, RemovalTakesAnItem
<1>3. CASE size' = 0
  BY <1>2, <1>3 DEF Abstract!Sifted, Abstract!EmptyQueue
<1>4. CASE size' # 0
  <2>1. /\ Top' = data'[Largest(0)'] /\ Largest(0)' \in Indices'
        /\ \A k \in Indices' : Above(data'[Largest(0)'], data'[k])
    <3>1. size' > 0
      BY <1>1, <1>4
    <3>2. pc' # "idle" /\ index' = 0
      BY <3>1
    <3> QED BY <3>1, <3>2, RootWillBeFilled DEF RootIsFilled
  <2>2. Top' \in Abstract!Best(Items')
    BY <1>2, <2>1 DEF Abstract!Best, Above
  <2> QED BY <1>2, <1>4, <2>2 DEF Abstract!Sifted
<1> QED BY <1>3, <1>4

(* pop takes the top out of the queue.                                     *)
LEMMA PopIsQueuePop ==
  ASSUME HeapInv, HeapInv', Pop PROVE Abstract!QueuePop
<1>1. /\ pc = "idle" /\ size > 0 /\ size \in Nat /\ data' = LastMovedTo(0) /\ size' = size - 1
      /\ index' = 0 /\ pc' = IF size > 1 THEN "down" ELSE "idle"
  BY HeapAssumption DEF Pop, HeapInv, TypeOK
<1> DEFINE q == [items |-> Items, top |-> Top]
<1>2. q' \in Abstract!Sifted(Abstract!(-)(Items, Abstract!SetToBag({data[0]})))
  BY <1>1, RemovedRootIsSettled
<1>3. q.top = data[0] /\ q.items = Items
  BY <1>1, TopOfIdleHeap
<1>4. ~Abstract!IsEmpty(q)
  BY <1>1, ItemsAreTheBag, EmptyBagIsEmpty DEF Abstract!IsEmpty
<1> HIDE DEF q
<1>5. q' \in Abstract!Popped(q)
  BY <1>2, <1>3 DEF Abstract!Popped, Abstract!Without, q
<1> QED BY <1>4, <1>5 DEF Abstract!QueuePop, q

(* removeIf takes one item out of the queue.                               *)
LEMMA RemoveIfIsQueueRemoveIf ==
  ASSUME HeapInv, HeapInv', NEW predicate \in Predicates, RemoveIf(predicate)
  PROVE  Abstract!QueueRemoveIf
<1>1. PICK i \in Indices :
        /\ pc = "idle" /\ data[i] \in predicate /\ \A j \in 0 .. i - 1 : data[j] \notin predicate
        /\ data' = LastMovedTo(i) /\ size' = size - 1
        /\ IF i < size - 1 THEN pc' = "up" /\ index' = i /\ hole' = i
                           ELSE UNCHANGED <<pc, index, hole>>
  BY DEF RemoveIf
<1>2. /\ size \in Nat /\ size > 0 /\ i \in 0 .. size - 1 /\ 0 \in Indices
      /\ Indices = 0 .. size - 1
  BY HeapAssumption DEF HeapInv, TypeOK, Indices
<1>3. Top = data[0] /\ \A j \in Indices : Above(data[0], data[j])
  BY <1>1, <1>2, TopOfIdleHeap
<1> DEFINE q == [items |-> Items, top |-> Top]
           x == data[i]
           rest == Abstract!(-)(Items, Abstract!SetToBag({x}))
<1>4. x = Top => i = 0
  BY <1>1, <1>2, <1>3
<1>5. x \in Abstract!Found(q, predicate \cap Abstract!Elements(q))
  <2>1. Abstract!Elements(q) = {data[k] : k \in Indices}
    BY DEF Abstract!Elements, Abstract!BagToSet, Items
  <2>2. x \in predicate \cap Abstract!Elements(q)
    BY <1>1, <2>1
  <2>3. Top \in predicate => x = Top
    BY <1>1, <1>2, <1>3
  <2> HIDE DEF x
  <2> QED BY <2>2, <2>3 DEF Abstract!Found
<1>6. q' \in Abstract!Without(q, x)
  <2>1. CASE i = 0
    <3>1. size' > 0 => pc' # "idle" /\ index' = 0
      BY <1>1, <1>2, <2>1
    <3>2. q' \in Abstract!Sifted(rest)
      BY <1>1, <1>2, <2>1, <3>1, RemovedRootIsSettled
    <3>3. x = q.top /\ q.items = Items
      BY <1>3, <2>1
    <3> HIDE DEF q, x
    <3> QED BY <3>2, <3>3 DEF Abstract!Without
  <2>2. CASE i # 0
    <3>1. /\ Items' = rest
          /\ \A k \in 0 .. size - 2 : data'[k] = IF k = i THEN data[size - 1] ELSE data[k]
      BY <1>1, RemovalTakesAnItem
    <3>2. data'[0] = data[0] /\ size' > 0
      BY <1>1, <1>2, <2>2, <3>1
    <3>3. ASSUME i < size - 1 PROVE Top' = Top
      <4>1. data'[i] = data[size - 1] /\ size - 1 \in Indices
        BY <1>2, <3>1, <3>3
      <4>2. pc' = "up" /\ index' = i /\ ~RanksBelow(data'[0], data'[i])
        BY <1>1, <1>3, <3>2, <3>3, <4>1 DEF Above
      <4> QED BY <1>2, <1>3, <2>2, <3>2, <4>2 DEF Top
    <3>4. ASSUME ~(i < size - 1) PROVE Top' = Top
      BY <1>1, <1>3, <3>2, <3>4 DEF Top
    <3>5. Top' = Top
      BY <3>3, <3>4
    <3>6. q' = [q EXCEPT !.items = rest]
      BY <3>1, <3>5
    <3>7. x # q.top /\ q.items = Items
      BY <1>4, <2>2
    <3> HIDE DEF q, x
    <3> QED BY <3>6, <3>7 DEF Abstract!Without
  <2> QED BY <2>1, <2>2
<1> HIDE DEF x
<1> QED BY <1>5, <1>6 DEF Abstract!QueueRemoveIf

(* A turn of a sift is no step of the queue: the same elements are there,  *)
(* and the one that will end up at the root is the same.                   *)
LEMMA HeapifyUpIsAStutter ==
  ASSUME HeapInv, HeapifyUp PROVE Items' = Items /\ Top' = Top
<1>1. /\ pc = "up" /\ size' = size /\ size \in Nat /\ size > 0 /\ index \in 0 .. size - 1
      /\ Indices = 0 .. size - 1 /\ Indices' = Indices /\ TypeOK
      /\ data \in [Indices -> Values]
      /\ hole = NoHole \/ (hole \in Nat /\ index <= hole)
  <2>1. /\ pc = "up" /\ size' = size /\ size \in Nat /\ index \in 0 .. size - 1 /\ TypeOK
        /\ data \in [Indices -> Values]
    BY HeapAssumption DEF HeapInv, TypeOK, HeapifyUp, Indices
  <2>2. hole = NoHole \/ (hole \in Nat /\ index <= hole)
    BY <2>1 DEF HeapInv, TypeOK, AlmostOrdered, Indices
  <2> QED BY <2>1, <2>2 DEF Indices
<1> DEFINE p == Parent(index)
<1>2. CASE OutOfPlace(index)
  <2>1. /\ index > 0 /\ RanksBelow(data[p], data[index])
        /\ data' = Swapped(p, index) /\ index' = p /\ pc' = "up" /\ hole' = hole
    BY <1>1, <1>2 DEF HeapifyUp, OutOfPlace
  <2>2. p \in 0 .. index - 1 /\ p \in Indices /\ index \in Indices
    BY <1>1, <2>1, ParentIsBelow
  <2> HIDE DEF p
  <2>3. \A k \in Indices :
          data'[k] = IF k = index THEN data[p] ELSE IF k = p THEN data[index] ELSE data[k]
    BY <1>1, <2>1, <2>2, SwappedElements
  <2>4. Items' = Items
    <3>1. IsSwap(data', data, size, p, index)
      BY <1>1, <2>3 DEF IsSwap
    <3> QED BY <1>1, <2>2, <3>1, SwapKeepsBag, ItemsAreTheBag
  <2>5. Top = IF RanksBelow(data[0], data[index]) THEN data[index] ELSE data[0]
    BY <1>1, <2>1 DEF Top
  <2>6. CASE p > 0
    <3>1. Top' = IF RanksBelow(data'[0], data'[p]) THEN data'[p] ELSE data'[0]
      BY <1>1, <2>1, <2>6 DEF Top
    <3>2. data'[0] = data[0] /\ data'[p] = data[index]
      BY <1>1, <2>1, <2>2, <2>3, <2>6
    <3> QED BY <2>4, <2>5, <3>1, <3>2
  <2>7. CASE p = 0
    <3>1. data'[0] = data[index] /\ Top = data[index]
      BY <1>1, <2>1, <2>2, <2>3, <2>5, <2>7
    <3>2. Top' = data'[Largest(0)']
      BY <1>1, <2>1, <2>7 DEF Top
    <3>3. ASSUME NEW i \in Indices, i = LeftChild(0) \/ i = RightChild(0)
          PROVE  ~RanksBelow(data'[0], data'[i])
      <4>1. i \in Indices \ {0} /\ Parent(i) = 0
        BY <1>1, <3>3 DEF LeftChild, RightChild, Parent
      <4>2. CASE i = index
        BY <1>1, <2>1, <2>2, <2>3, <2>7, <3>1, <4>2, AboveIsTransitive DEF Above
      <4>3. CASE i # index
        <5>1. Above(data[0], data[i])
          BY <1>1, <2>1, <4>1, <4>3 DEF HeapInv, AlmostOrdered, Exempt, InPlace
        <5>2. data'[i] = data[i] /\ data[i] \in Values /\ data[0] \in Values
              /\ data[index] \in Values
          BY <1>1, <2>2, <2>3, <2>7, <4>1, <4>3
        <5> QED BY <2>1, <2>7, <3>1, <5>1, <5>2, AboveIsTransitive DEF Above
      <4> QED BY <4>2, <4>3
    <3>4. /\ LeftChild(0) < size => LeftChild(0) \in Indices
          /\ RightChild(0) < size => RightChild(0) \in Indices
      BY <1>1 DEF LeftChild, RightChild
    <3>5. Largest(0)' = 0
      BY <1>1, <3>3, <3>4 DEF Largest, LeftChild, RightChild
    <3> QED BY <2>4, <3>1, <3>2, <3>5
  <2> QED BY <2>2, <2>6, <2>7
<1>3. CASE ~OutOfPlace(index)
  <2>1. /\ data' = data
        /\ IF hole = NoHole THEN pc' = "idle" /\ index' = 0
                            ELSE pc' = "down" /\ index' = hole
    BY <1>3 DEF HeapifyUp, Finish
  <2>2. Items' = Items
    BY <1>1, <2>1, ItemsAreTheBag
  <2>3. index > 0 => InPlace(index)
    BY <1>3 DEF OutOfPlace, InPlace, Above
  <2>4. ASSUME index > 0 PROVE Top = data[0]
    <3>1. ASSUME NEW i \in 1 .. index PROVE InPlace(i)
      <4>1. i \in Indices \ {0} /\ Parent(i) < index
        BY <1>1, <3>1, ParentIsBelow
      <4>2. Parent(i) # index
        BY <1>1, <4>1, ParentIsBelow
      <4> QED BY <1>1, <2>3, <2>4, <4>1, <4>2 DEF HeapInv, AlmostOrdered, Exempt
    <3>2. Above(data[0], data[index])
      BY <1>1, <3>1, RootIsAbove
    <3> QED BY <1>1, <2>4, <3>2 DEF Top, Above
  <2>5. ASSUME index = 0, hole # 0 PROVE Top = data[0]
    <3>1. \A i \in Indices \ {0} : InPlace(i)
      BY <1>1, <2>5 DEF HeapInv, AlmostOrdered, Exempt
    <3>2. Largest(0) = 0
      BY <1>1, <3>1, LargestStays
    <3> QED BY <1>1, <2>5, <3>2 DEF Top
  <2>6. CASE hole = 0
    <3>1. index = 0 /\ pc' = "down" /\ index' = 0
      BY <1>1, <2>1, <2>6 DEF NoHole
    <3>2. Largest(0)' = Largest(0)
      BY <1>1, <2>1 DEF Largest
    <3> QED BY <1>1, <2>1, <2>2, <3>1, <3>2 DEF Top
  <2>7. CASE hole # 0
    <3>1. Top = data[0]
      BY <1>1, <2>4, <2>5, <2>7
    <3>2. Top' = data[0]
      BY <1>1, <2>1, <2>7 DEF Top
    <3> QED BY <2>2, <3>1, <3>2
  <2> QED BY <2>6, <2>7
<1> QED BY <1>2, <1>3

(* A step of the sift down changes neither items nor top.                  *)
LEMMA HeapifyDownIsAStutter ==
  ASSUME HeapInv, HeapifyDown PROVE Items' = Items /\ Top' = Top
<1>1. /\ pc = "down" /\ size' = size /\ size \in Nat /\ size > 0 /\ index \in 0 .. size - 1
      /\ Indices = 0 .. size - 1 /\ Indices' = Indices
      /\ data \in [Indices -> Values]
  BY HeapAssumption DEF HeapInv, TypeOK, HeapifyDown, Indices
<1> DEFINE l == Largest(index)
<1>2. l \in Indices /\ (l # index => Parent(l) = index)
  BY <1>1, LargestIsAbove
<1>3. Top = IF index = 0 THEN data[l] ELSE data[0]
  BY <1>1 DEF Top
<1>4. CASE l # index
  <2>1. data' = Swapped(index, l) /\ index' = l /\ pc' = "down"
    BY <1>1, <1>4 DEF HeapifyDown
  <2>2. l \in {LeftChild(index), RightChild(index)}
    BY <1>1, <1>4, LargestIsAbove
  <2> HIDE DEF l
  <2>3. l > 0
    <3>1. index \in Nat
      BY <1>1
    <3> QED BY <2>2, <3>1 DEF LeftChild, RightChild
  <2>4. \A k \in Indices :
          data'[k] = IF k = l THEN data[index] ELSE IF k = index THEN data[l] ELSE data[k]
    BY <1>1, <1>2, <2>1, SwappedElements
  <2>5. Items' = Items
    <3>1. IsSwap(data', data, size, index, l)
      BY <1>1, <2>4 DEF IsSwap
    <3> QED BY <1>1, <1>2, <3>1, SwapKeepsBag, ItemsAreTheBag
  <2>6. Top' = data'[0]
    BY <1>1, <2>1, <2>3 DEF Top
  <2> QED BY <1>1, <1>2, <1>3, <2>3, <2>4, <2>5, <2>6
<1>5. CASE l = index
  <2>1. data' = data /\ pc' = "idle"
    BY <1>1, <1>5 DEF HeapifyDown, Finish
  <2>2. Items' = Items
    BY <1>1, <2>1, ItemsAreTheBag
  <2>3. Top' = data[0]
    BY <1>1, <2>1 DEF Top
  <2> QED BY <1>3, <1>5, <2>2, <2>3
<1> QED BY <1>4, <1>5

-----------------------------------------------------------------------------
(* A new heap is an empty queue.                                           *)
LEMMA InitIsQueueInit == HeapInit => Abstract!QueueInit
<1> SUFFICES ASSUME HeapInit PROVE Abstract!QueueInit
  OBVIOUS
<1>1. size = 0 /\ Top = Nothing
  BY DEF HeapInit, Top
<1>2. Items = Abstract!EmptyBag
  BY <1>1, ItemsAreTheBag, EmptyBagIsEmpty
<1> QED BY <1>1, <1>2 DEF Abstract!QueueInit, Abstract!EmptyQueue

(* Every step of the heap is a step of the queue, or none.                 *)
LEMMA StepIsQueueStep ==
  HeapInv /\ HeapInv' /\ [HeapNext]_vars
    => [Abstract!QueueNext]_([items |-> Items, top |-> Top])
<1> SUFFICES ASSUME HeapInv, HeapInv', [HeapNext]_vars
             PROVE  Abstract!QueueNext \/ (Items' = Items /\ Top' = Top)
  OBVIOUS
<1>1. CASE UNCHANGED vars
  BY <1>1 DEF vars, Items, Top, Indices, Largest
<1>2. ASSUME NEW x \in Values, Push(x) PROVE Abstract!QueuePush
  BY <1>2, PushIsQueuePush
<1>3. ASSUME Pop PROVE Abstract!QueuePop
  BY <1>3, PopIsQueuePop
<1>4. ASSUME NEW predicate \in Predicates, RemoveIf(predicate) PROVE Abstract!QueueRemoveIf
  BY <1>4, RemoveIfIsQueueRemoveIf
<1>5. CASE HeapifyUp
  BY <1>5, HeapifyUpIsAStutter
<1>6. CASE HeapifyDown
  BY <1>6, HeapifyDownIsAStutter
<1> QED BY <1>1, <1>2, <1>3, <1>4, <1>5, <1>6 DEF HeapNext, Abstract!QueueNext

(* The array of MaxHeap and MinHeap, with its swaps one at a time, is a    *)
(* bag that keeps a best element on top: whatever compare is, as long as   *)
(* it is a strict weak order, every push, pop and removal takes effect at  *)
(* once, and no sift changes what a caller can see.                        *)
THEOREM HeapImplementsQueue == HeapSpec => ImplementsQueue
<1>1. HeapInit => Abstract!QueueInit
  BY InitIsQueueInit
<1>2. HeapInv /\ HeapInv' /\ [HeapNext]_vars
        => [Abstract!QueueNext]_([items |-> Items, top |-> Top])
  BY StepIsQueueStep
<1> QED BY <1>1, <1>2, HeapInvariant, PTL DEF HeapSpec, ImplementsQueue, Abstract!QueueSpec

-----------------------------------------------------------------------------
(* Chains of nodes.                                                        *)

(* The nodes from head on are those of s, each of them once.               *)
IsChain(node, head, s) ==
  /\ s \in Seq(Cells)
  /\ \A i, j \in 1 .. Len(s) : s[i] = s[j] => i = j
  /\ head = IF s = <<>> THEN Null ELSE s[1]
  /\ \A i \in 1 .. Len(s) : node[s[i]].next = IF i = Len(s) THEN Null ELSE s[i + 1]

(* A sequence of cells without repetition is no longer than there are.     *)
LEMMA ChainFits ==
  ASSUME NEW s \in Seq(Cells), \A i, j \in 1 .. Len(s) : s[i] = s[j] => i = j
  PROVE  /\ Len(s) \in Nat /\ Cardinality(Cells) \in Nat /\ Len(s) <= Cardinality(Cells)
         /\ Cardinality({s[i] : i \in 1 .. Len(s)}) = Len(s)
<1> DEFINE n == Len(s)
           S == {s[i] : i \in 1 .. n}
<1>1. n \in Nat /\ IsFiniteSet(1 .. n) /\ Cardinality(1 .. n) = n
  BY FS_Interval
<1>2. s \in Bijection(1 .. n, S)
  BY DEF Bijection, Injection, Surjection, IsInjective
<1>3. IsFiniteSet(S) /\ Cardinality(S) = n
  <2> DEFINE D == 1 .. n
  <2>1. IsFiniteSet(D) /\ Cardinality(D) = n /\ s \in Bijection(D, S)
    BY <1>1, <1>2
  <2> HIDE DEF S, D
  <2> QED BY <2>1, FS_Surjection DEF Bijection
<1>4. S \subseteq Cells
  OBVIOUS
<1>5. IsFiniteSet(Cells)
  BY ContainersAssumption
<1>6. Cardinality(Cells) \in Nat /\ Cardinality(S) <= Cardinality(Cells)
  <2> HIDE DEF S
  <2> QED BY <1>4, <1>5, FS_Subset, FS_CardinalityType
<1> QED BY <1>1, <1>3, <1>6

(* A walk along next comes to the nodes of the chain and ends.             *)
LEMMA WalkIs ==
  ASSUME NEW node, NEW head, NEW s, IsChain(node, head, s)
  PROVE  Walk(node, head) = s
<1> DEFINE Next(c) == IF c = Null THEN Null ELSE node[c].next
           Walks(f) == f = [i \in Nat |-> IF i = 0 THEN head
                                          ELSE LET before == f[i - 1]
                                               IN  IF before = Null THEN Null ELSE node[before].next]
           at == CHOOSE f : Walks(f)
           Place(i) == IF i < Len(s) THEN s[i + 1] ELSE Null
           n == Cardinality({i \in 1 .. Cardinality(Cells) : at[i - 1] # Null})
<1>1. /\ s \in Seq(Cells) /\ Len(s) \in Nat /\ \A i \in 1 .. Len(s) : s[i] \in Cells /\ s[i] # Null
      /\ Len(s) <= Cardinality(Cells) /\ Cardinality(Cells) \in Nat
  <2>1. s \in Seq(Cells) /\ \A i, j \in 1 .. Len(s) : s[i] = s[j] => i = j
    BY DEF IsChain
  <2>2. Len(s) \in Nat /\ Len(s) <= Cardinality(Cells) /\ Cardinality(Cells) \in Nat
    BY <2>1, ChainFits
  <2> QED BY <2>1, <2>2, ContainersAssumption
<1>2. Place(0) = head
  BY <1>1, EmptySeq DEF IsChain
<1>3. ASSUME NEW i \in Nat PROVE Place(i + 1) = Next(Place(i))
  <2>1. CASE i < Len(s)
    <3>1. i + 1 \in 1 .. Len(s) /\ Place(i) = s[i + 1] /\ s[i + 1] # Null
      BY <1>1, <2>1
    <3> QED BY <1>1, <3>1 DEF IsChain
  <2>2. CASE ~(i < Len(s))
    BY <1>1, <2>2
  <2> QED BY <2>1, <2>2
<1> HIDE DEF Place
<1>4. Walks([i \in Nat |-> Place(i)])
  <2> DEFINE g == [i \in Nat |-> Place(i)]
  <2>1. ASSUME NEW i \in Nat
        PROVE  g[i] = IF i = 0 THEN head ELSE Next(g[i - 1])
    <3>1. CASE i # 0
      <4>1. i - 1 \in Nat /\ (i - 1) + 1 = i
        BY <3>1
      <4>2. Place(i) = Next(Place(i - 1))
        BY <1>3, <4>1
      <4> QED BY <3>1, <4>1, <4>2
    <3> QED BY <1>2, <3>1
  <2> QED BY <2>1
<1>5. Walks(at)
  <2> HIDE DEF Walks
  <2> QED BY <1>4
<1>6. ASSUME NEW i \in Nat
      PROVE  at[i] = IF i = 0 THEN head ELSE Next(at[i - 1])
  <2> HIDE DEF at
  <2> QED BY <1>5
<1>7. Walk(node, head) = [i \in 1 .. n |-> at[i - 1]]
  BY DEF Walk
<1> HIDE DEF at, Next
<1>8. \A i \in Nat : at[i] = Place(i)
  <2> DEFINE P == {i \in Nat : at[i] = Place(i)}
  <2>1. 0 \in P
    BY <1>2, <1>6
  <2>2. \A i \in Nat : i \in P => i + 1 \in P
    <3> TAKE i \in Nat
    <3> HAVE i \in P
    <3>1. at[i + 1] = Next(at[i])
      <4>1. i + 1 \in Nat /\ i + 1 # 0 /\ (i + 1) - 1 = i
        OBVIOUS
      <4> QED BY <1>6, <4>1
    <3> QED BY <1>3, <3>1
  <2> HIDE DEF P
  <2>3. \A i \in Nat : i \in P
    BY <2>1, <2>2, NatInductionOnSet
  <2> QED BY <2>3 DEF P
<1>9. \A i \in 1 .. Cardinality(Cells) : at[i - 1] = IF i <= Len(s) THEN s[i] ELSE Null
  BY <1>1, <1>8 DEF Place
<1>10. {i \in 1 .. Cardinality(Cells) : at[i - 1] # Null} = 1 .. Len(s)
  BY <1>1, <1>9
<1>11. n = Len(s)
  <2>1. n = Cardinality(1 .. Len(s))
    BY <1>10, Zenon
  <2>2. \A k \in Nat : Cardinality(1 .. k) = k
    BY FS_Interval
  <2> QED BY <1>1, <2>1, <2>2, Zenon
<1>12. Walk(node, head) = [i \in 1 .. Len(s) |-> s[i]]
  BY <1>1, <1>7, <1>9, <1>11
<1> QED BY <1>1, <1>12

(* Queue's own instance of Cardinality is this module's.                   *)
LEMMA FifoCardinality == ASSUME NEW S PROVE Fifo!Cardinality(S) = Cardinality(S)
  BY Zenon DEF Fifo!Cardinality, Cardinality

(* The same for Queue's walk.                                              *)
LEMMA FifoWalk ==
  ASSUME NEW node, NEW head, NEW s, IsChain(node, head, s)
  PROVE  Fifo!Walk(node, head) = s
<1>1. Fifo!Walk(node, head) = Walk(node, head)
  BY FifoCardinality, Zenon DEF Fifo!Walk, Walk
<1> QED BY <1>1, WalkIs

-----------------------------------------------------------------------------
(* Queues.                                                                 *)

FifoMemory ==
  [node  : [Cells -> [data : Datum \cup {Null}, next : Cells \cup {Null}]],
   head  : [Objects -> Cells \cup {Null}],
   tail  : [Objects -> Cells \cup {Null}],
   count : [Objects -> Nat]]

(* The chains of a memory are of distinct nodes, and what is on none of    *)
(* them is free.                                                           *)
FifoChains(m, chain) ==
  /\ m \in FifoMemory
  /\ chain \in [Objects -> Seq(Cells)]
  /\ \A q \in Objects :
       /\ IsChain(m.node, m.head[q], chain[q])
       /\ m.tail[q] = IF chain[q] = <<>> THEN Null ELSE chain[q][Len(chain[q])]
       /\ m.count[q] = Len(chain[q])
       /\ \A i \in 1 .. Len(chain[q]) : m.node[chain[q][i]].data \in Datum
  /\ \A q, p \in Objects : q # p =>
       \A i \in 1 .. Len(chain[q]), j \in 1 .. Len(chain[p]) : chain[q][i] # chain[p][j]
  /\ \A c \in Cells :
       (\A q \in Objects : \A i \in 1 .. Len(chain[q]) : chain[q][i] # c) => m.node[c] = Fifo!Freed

FifoValues(m, chain, q) == [i \in 1 .. Len(chain[q]) |-> m.node[chain[q][i]].data]

(* What waits in a queue is what the nodes of its chain hold.              *)
LEMMA FifoWaitingIs ==
  ASSUME NEW m, NEW chain, FifoChains(m, chain), NEW q \in Objects
  PROVE  /\ Fifo!Nodes(m, q) = chain[q]
         /\ Fifo!Waiting(m, q) = FifoValues(m, chain, q)
         /\ Len(chain[q]) \in Nat /\ DOMAIN chain[q] = 1 .. Len(chain[q])
<1>1. IsChain(m.node, m.head[q], chain[q])
  BY DEF FifoChains
<1>2. Fifo!Walk(m.node, m.head[q]) = chain[q]
  BY <1>1, FifoWalk
<1>3. Fifo!Nodes(m, q) = chain[q]
  BY <1>2 DEF Fifo!Nodes
<1>4. chain[q] \in Seq(Cells)
  BY DEF FifoChains
<1>5. Len(chain[q]) \in Nat /\ DOMAIN chain[q] = 1 .. Len(chain[q])
  BY <1>4
<1> QED BY <1>3, <1>5 DEF Fifo!Waiting, FifoValues

(* Nodes on chains are taken, and free cells are deleted.                  *)
LEMMA FifoOnChain ==
  ASSUME NEW m, NEW chain, FifoChains(m, chain)
  PROVE  /\ \A q \in Objects : \A i \in 1 .. Len(chain[q]) :
              chain[q][i] \in Cells /\ chain[q][i] \notin Fifo!FreeCells(m)
         /\ \A c \in Fifo!FreeCells(m) : c \in Cells /\ m.node[c] = Fifo!Freed
  BY ContainersAssumption DEF FifoChains, Fifo!FreeCells, Fifo!Freed

(* Queue::enqueue, field by field: a free cell becomes the tail.           *)
LEMMA EnqueueFields ==
  ASSUME NEW m, NEW chain, FifoChains(m, chain), NEW q \in Objects, NEW v \in Datum,
         Fifo!FreeCells(m) # {}
  PROVE  \E c \in Fifo!FreeCells(m) :
           LET r == Fifo!Enqueue(m, q, v)
           IN  /\ r \in FifoMemory
               /\ r.node = [x \in Cells |->
                              IF x = c THEN [data |-> v, next |-> Null]
                              ELSE IF x = m.tail[q] THEN [data |-> m.node[x].data, next |-> c]
                              ELSE m.node[x]]
               /\ r.head = [m.head EXCEPT ![q] = IF m.tail[q] = Null THEN c ELSE @]
               /\ r.tail = [m.tail EXCEPT ![q] = c]
               /\ r.count = [m.count EXCEPT ![q] = @ + 1]
<1> DEFINE c == CHOOSE c \in Fifo!FreeCells(m) : TRUE
           r == Fifo!Enqueue(m, q, v)
           made == [m EXCEPT !.node[c] = [data |-> v, next |-> Null],
                             !.tail[q] = c, !.count[q] = @ + 1]
<1>1. c \in Fifo!FreeCells(m)
  OBVIOUS
<1>2. c \in Cells
  BY <1>1 DEF Fifo!FreeCells
<1>3. r = IF m.tail[q] = Null THEN [made EXCEPT !.head[q] = c]
                              ELSE [made EXCEPT !.node[m.tail[q]].next = c]
  BY DEF Fifo!Enqueue
<1> HIDE DEF c
<1>4. m \in FifoMemory
  BY DEF FifoChains
<1>5. m.tail[q] # c
  <2>1. m.tail[q] \notin Fifo!FreeCells(m)
    <3>1. chain[q] \in Seq(Cells)
      BY DEF FifoChains
    <3>2. CASE chain[q] = <<>>
      BY <3>2, ContainersAssumption DEF FifoChains, Fifo!FreeCells
    <3>3. CASE chain[q] # <<>>
      <4>1. Len(chain[q]) \in 1 .. Len(chain[q])
        BY <3>1, <3>3
      <4>2. m.tail[q] = chain[q][Len(chain[q])]
        BY <3>3 DEF FifoChains
      <4>3. chain[q][Len(chain[q])] \notin Fifo!FreeCells(m)
        BY <4>1, FifoOnChain
      <4> QED BY <4>2, <4>3, Zenon
    <3> QED BY <3>2, <3>3
  <2> QED BY <1>1, <2>1
<1>6. Null \notin Cells /\ m.tail[q] \in Cells \cup {Null}
  BY <1>4, ContainersAssumption DEF FifoMemory
<1>7. /\ m = [node |-> m.node, head |-> m.head, tail |-> m.tail, count |-> m.count]
      /\ m.node \in [Cells -> [data : Datum \cup {Null}, next : Cells \cup {Null}]]
      /\ m.head \in [Objects -> Cells \cup {Null}]
      /\ m.tail \in [Objects -> Cells \cup {Null}]
      /\ m.count \in [Objects -> Nat]
  BY <1>4 DEF FifoMemory
<1> DEFINE new == [data |-> v, next |-> Null]
           linked == [x \in Cells |-> IF x = c THEN new
                                      ELSE IF x = m.tail[q] THEN [data |-> m.node[x].data, next |-> c]
                                      ELSE m.node[x]]
           heads == [m.head EXCEPT ![q] = IF m.tail[q] = Null THEN c ELSE @]
           tails == [m.tail EXCEPT ![q] = c]
           counts == [m.count EXCEPT ![q] = @ + 1]
<1>8. /\ made.node = [m.node EXCEPT ![c] = new] /\ made.head = m.head
      /\ made.tail = tails /\ made.count = counts
      /\ made \in FifoMemory
  <2> DEFINE nodes == [m.node EXCEPT ![c] = new]
  <2>1. nodes \in [Cells -> [data : Datum \cup {Null}, next : Cells \cup {Null}]]
    BY <1>2, <1>7
  <2>2. tails \in [Objects -> Cells \cup {Null}] /\ counts \in [Objects -> Nat]
    BY <1>2, <1>7
  <2>3. made = [m EXCEPT !.node = nodes, !.tail = tails, !.count = counts]
    OBVIOUS
  <2> HIDE DEF made, nodes, tails, counts, new
  <2>4. made \in FifoMemory
    BY <1>4, <2>1, <2>2, <2>3 DEF FifoMemory
  <2>5. made.node = nodes /\ made.tail = tails /\ made.count = counts /\ made.head = m.head
    BY <1>4, <2>3 DEF FifoMemory
  <2> QED BY <2>4, <2>5 DEF nodes
<1> HIDE DEF made
<1>9. r.node = linked
  <2>1. CASE m.tail[q] = Null
    BY <1>2, <1>3, <1>6, <1>7, <1>8, <2>1
  <2>2. CASE m.tail[q] # Null
    <3> DEFINE t == m.tail[q]
    <3>1. t \in Cells /\ t # c
      BY <1>5, <1>6, <2>2
    <3>2. r.node = [[m.node EXCEPT ![c] = new] EXCEPT ![t].next = c]
      BY <1>3, <1>8, <2>2
    <3>3. m.node[t] = [data |-> m.node[t].data, next |-> m.node[t].next]
      BY <1>7, <3>1
    <3> HIDE DEF t, new
    <3> QED BY <1>2, <1>7, <3>1, <3>2, <3>3 DEF t
  <2> QED BY <2>1, <2>2
<1>10. r.head = heads /\ r.tail = tails /\ r.count = counts
  BY <1>3, <1>7, <1>8
<1>11. r = [made EXCEPT !.node = r.node, !.head = r.head]
  <2>1. CASE m.tail[q] = Null
    BY <1>3, <1>8, <2>1 DEF FifoMemory
  <2>2. CASE m.tail[q] # Null
    BY <1>3, <1>8, <2>2 DEF FifoMemory
  <2> QED BY <2>1, <2>2
<1>12. linked \in [Cells -> [data : Datum \cup {Null}, next : Cells \cup {Null}]]
  BY <1>2, <1>7
<1>13. /\ heads \in [Objects -> Cells \cup {Null}] /\ tails \in [Objects -> Cells \cup {Null}]
       /\ counts \in [Objects -> Nat]
  BY <1>2, <1>7
<1> HIDE DEF linked, heads, tails, counts, r
<1>14. r \in FifoMemory
  BY <1>8, <1>9, <1>10, <1>11, <1>12, <1>13 DEF FifoMemory
<1> QED BY <1>1, <1>9, <1>10, <1>14 DEF linked, heads, tails, counts, r

-----------------------------------------------------------------------------
(* Enqueueing.                                                             *)

(* What Append returns.                                                    *)
LEMMA Appended ==
  ASSUME NEW S, NEW s \in Seq(S), NEW c \in S
  PROVE  /\ Append(s, c) \in Seq(S)
         /\ Append(s, c) # <<>>
         /\ Len(s) \in Nat
         /\ Len(Append(s, c)) = Len(s) + 1
         /\ \A i \in 1 .. Len(s) : Append(s, c)[i] = s[i]
         /\ Append(s, c)[Len(s) + 1] = c
         /\ \A i \in 1 .. Len(Append(s, c)) : i \in 1 .. Len(s) \/ i = Len(s) + 1
<1> DEFINE a == Append(s, c)
<1>1. a \in Seq(S)  OBVIOUS
<1>3. Len(s) \in Nat  OBVIOUS
<1>4. Len(a) = Len(s) + 1  OBVIOUS
<1>2. a # <<>>
  <2> HIDE DEF a
  <2> QED BY <1>3, <1>4
<1>5. \A i \in 1 .. Len(s) : a[i] = s[i]  OBVIOUS
<1>6. a[Len(s) + 1] = c OBVIOUS
<1>7. \A i \in 1 .. Len(a) : i \in 1 .. Len(s) \/ i = Len(s) + 1 BY <1>3, <1>4
<1> QED BY <1>1, <1>2, <1>3, <1>4, <1>5, <1>6, <1>7

(* Append, told element by element.                                        *)
LEMMA AppendedIs ==
  ASSUME NEW S, NEW s \in Seq(S), NEW c \in S, NEW a,
         a = [i \in 1 .. Len(s) + 1 |-> IF i = Len(s) + 1 THEN c ELSE s[i]]
  PROVE  a = Append(s, c)
<1>1. Append(s, c) = [i \in 1 .. Len(Append(s, c)) |-> Append(s, c)[i]]
  <2> DEFINE b == Append(s, c)
  <2>1. b \in Seq(S)
    BY Appended
  <2> HIDE DEF b
  <2>2. b = [i \in 1 .. Len(b) |-> b[i]]
    BY <2>1
  <2> QED BY <2>2 DEF b
<1>2. Len(Append(s, c)) = Len(s) + 1 OBVIOUS
<1>3. Append(s, c) = [i \in 1 .. Len(s) + 1 |-> Append(s, c)[i]]
  BY <1>1, <1>2
<1>4. \A i \in 1 .. Len(s) + 1 : Append(s, c)[i] = IF i = Len(s) + 1 THEN c ELSE s[i]
  <2> DEFINE b == Append(s, c)
             n == Len(s)
  <2>1. n \in Nat /\ b[n + 1] = c /\ \A i \in 1 .. n : b[i] = s[i]
    BY Appended
  <2> HIDE DEF b, n
  <2>2. \A i \in 1 .. n + 1 : b[i] = IF i = n + 1 THEN c ELSE s[i]
    BY <2>1
  <2> QED BY <2>2 DEF b, n
<1> QED BY <1>3, <1>4

(* What the chain says of the nodes, the tail and the count of a queue.    *)
LEMMA FifoNodes ==
  ASSUME NEW m, NEW chain, FifoChains(m, chain), NEW q \in Objects
  PROVE  /\ chain[q] \in Seq(Cells) /\ Len(chain[q]) \in Nat
         /\ \A i \in 1 .. Len(chain[q]) : /\ chain[q][i] \in Cells /\ chain[q][i] # Null
                                          /\ m.node[chain[q][i]].data \in Datum
                                          /\ m.node[chain[q][i]] # Fifo!Freed
         /\ m.count[q] = Len(chain[q])
         /\ \A i, j \in 1 .. Len(chain[q]) : chain[q][i] = chain[q][j] => i = j
         /\ chain[q] = <<>> <=> m.tail[q] = Null
         /\ chain[q] # <<>> => Len(chain[q]) > 0 /\ m.tail[q] = chain[q][Len(chain[q])]
<1>1. chain[q] \in Seq(Cells) /\ Len(chain[q]) \in Nat
  BY DEF FifoChains
<1>2. \A i \in 1 .. Len(chain[q]) : /\ chain[q][i] \in Cells /\ chain[q][i] # Null
                                    /\ m.node[chain[q][i]].data \in Datum
  BY <1>1, ContainersAssumption DEF FifoChains
<1>3. \A i \in 1 .. Len(chain[q]) : m.node[chain[q][i]] # Fifo!Freed
  BY <1>2, ContainersAssumption DEF Fifo!Freed
<1>4. m.count[q] = Len(chain[q])
  BY DEF FifoChains
<1>5. \A i, j \in 1 .. Len(chain[q]) : chain[q][i] = chain[q][j] => i = j
  BY DEF FifoChains, IsChain
<1>6. chain[q] # <<>> => Len(chain[q]) > 0
  BY <1>1
<1>7. /\ chain[q] = <<>> <=> m.tail[q] = Null
      /\ chain[q] # <<>> => m.tail[q] = chain[q][Len(chain[q])]
  <2>1. m.tail[q] = IF chain[q] = <<>> THEN Null ELSE chain[q][Len(chain[q])]
    BY DEF FifoChains
  <2>2. chain[q] # <<>> => Len(chain[q]) \in 1 .. Len(chain[q])
    BY <1>1, <1>6
  <2>3. chain[q] # <<>> => chain[q][Len(chain[q])] # Null
    BY <1>2, <2>2
  <2> QED BY <2>1, <2>3
<1> QED BY <1>1, <1>2, <1>3, <1>4, <1>5, <1>6, <1>7

(* Queue::enqueue appends to what waits, and takes one free cell.          *)
LEMMA EnqueueAppends ==
  ASSUME NEW m, NEW chain, FifoChains(m, chain), NEW q \in Objects, NEW v \in Datum,
         Fifo!FreeCells(m) # {}, NEW r, r = Fifo!Enqueue(m, q, v)
  PROVE  \E later :
           /\ FifoChains(r, later)
           /\ FifoValues(r, later, q) = Append(FifoValues(m, chain, q), v)
           /\ \A p \in Objects \ {q} : FifoValues(r, later, p) = FifoValues(m, chain, p)
           /\ \E c \in Fifo!FreeCells(m) : Fifo!FreeCells(r) = Fifo!FreeCells(m) \ {c}
<1> DEFINE n == Len(chain[q])
           t == m.tail[q]
<1>1. PICK c \in Fifo!FreeCells(m) :
        /\ r \in FifoMemory
        /\ r.node = [x \in Cells |->
                       IF x = c THEN [data |-> v, next |-> Null]
                       ELSE IF x = m.tail[q] THEN [data |-> m.node[x].data, next |-> c]
                       ELSE m.node[x]]
        /\ r.head = [m.head EXCEPT ![q] = IF m.tail[q] = Null THEN c ELSE @]
        /\ r.tail = [m.tail EXCEPT ![q] = c]
        /\ r.count = [m.count EXCEPT ![q] = @ + 1]
  BY EnqueueFields
<1> DEFINE later == [chain EXCEPT ![q] = Append(@, c)]
<1>2. /\ chain \in [Objects -> Seq(Cells)]
      /\ m.head \in [Objects -> Cells \cup {Null}]
      /\ m.tail \in [Objects -> Cells \cup {Null}]
      /\ m.count \in [Objects -> Nat]
      /\ c \in Cells /\ m.node[c] = Fifo!Freed /\ c # Null
  BY ContainersAssumption DEF FifoChains, FifoMemory, Fifo!FreeCells
<1>3. \A p \in Objects : \A i \in 1 .. Len(chain[p]) :
        chain[p][i] \in Cells /\ chain[p][i] # c /\ chain[p][i] # Null
  BY <1>2, FifoNodes
<1>4. n \in Nat /\ chain[q] \in Seq(Cells)
  BY FifoNodes
<1>5. \A p \in Objects : \A i \in 1 .. Len(chain[p]) : chain[p][i] = t <=> p = q /\ i = n
  <2> TAKE p \in Objects
  <2> TAKE i \in 1 .. Len(chain[p])
  <2>1. CASE chain[q] = <<>>
    BY <1>3, <2>1, FifoNodes
  <2>2. CASE chain[q] # <<>>
    <3>1. n > 0 /\ t = chain[q][n] /\ n \in 1 .. n
      BY <1>4, <2>2, FifoNodes
    <3>2. CASE p = q
      <4>1. chain[q][i] = chain[q][n] => i = n
        BY <3>1, <3>2, FifoNodes
      <4> QED BY <3>1, <3>2, <4>1
    <3>3. CASE p # q
      BY <3>1, <3>3 DEF FifoChains
    <3> QED BY <3>2, <3>3
  <2> QED BY <2>1, <2>2
<1>6. /\ later \in [Objects -> Seq(Cells)] /\ later[q] \in Seq(Cells) /\ later[q] # <<>>
      /\ Len(later[q]) = n + 1
      /\ \A i \in 1 .. n : later[q][i] = chain[q][i]
      /\ later[q][n + 1] = c
      /\ \A p \in Objects : p # q => later[p] = chain[p]
      /\ \A i \in 1 .. Len(later[q]) : i \in 1 .. n \/ i = n + 1
  <2>1. later[q] = Append(chain[q], c)
    BY <1>2
  <2>2. /\ later[q] \in Seq(Cells) /\ later[q] # <<>>
        /\ Len(later[q]) = n + 1
        /\ \A i \in 1 .. n : later[q][i] = chain[q][i]
        /\ later[q][n + 1] = c
        /\ \A i \in 1 .. Len(later[q]) : i \in 1 .. n \/ i = n + 1
    <3> DEFINE s == chain[q]
    <3>1. s \in Seq(Cells) /\ c \in Cells /\ n = Len(s) /\ later[q] = Append(s, c)
      BY <1>2, <1>4, <2>1
    <3> HIDE DEF s, n, later
    <3>2. /\ Append(s, c) \in Seq(Cells) /\ Append(s, c) # <<>>
          /\ Len(Append(s, c)) = Len(s) + 1
          /\ \A i \in 1 .. Len(s) : Append(s, c)[i] = s[i]
          /\ Append(s, c)[Len(s) + 1] = c
          /\ \A i \in 1 .. Len(Append(s, c)) : i \in 1 .. Len(s) \/ i = Len(s) + 1
      BY <3>1, Appended
    <3> QED BY <3>1, <3>2, Zenon DEF s
  <2>4. later \in [Objects -> Seq(Cells)] /\ \A p \in Objects : p # q => later[p] = chain[p]
    BY <1>2, <1>4, <2>2
  <2> QED BY <2>2, <2>4
<1> HIDE DEF later, t, n
<1>7. \A x \in Cells : /\ x = c => r.node[x].data = v /\ r.node[x].next = Null
                       /\ x # c /\ x # t => r.node[x] = m.node[x]
                       /\ x # c /\ x = t => r.node[x].data = m.node[x].data /\ r.node[x].next = c
  <2> TAKE x \in Cells
  <2>1. r.node[x] = IF x = c THEN [data |-> v, next |-> Null]
                    ELSE IF x = t THEN [data |-> m.node[x].data, next |-> c]
                    ELSE m.node[x]
    BY <1>1 DEF t
  <2> DEFINE y == r.node[x]
             z == m.node[x]
  <2>2. CASE x = c
    <3>1. y = [data |-> v, next |-> Null]
      BY <2>1, <2>2
    <3> HIDE DEF y
    <3>2. y.data = v /\ y.next = Null
      BY <3>1
    <3> QED BY <2>2, <3>2 DEF y
  <2>3. CASE x # c /\ x # t
    BY <2>1, <2>3
  <2>4. CASE x # c /\ x = t
    <3>1. y = [data |-> z.data, next |-> c]
      BY <2>1, <2>4
    <3> HIDE DEF y, z
    <3>2. y.data = z.data /\ y.next = c
      BY <3>1
    <3> QED BY <2>4, <3>2 DEF y, z
  <2> QED BY <2>2, <2>3, <2>4
<1>8. \A p \in Objects : \A i \in 1 .. Len(chain[p]) :
        /\ r.node[chain[p][i]].data = m.node[chain[p][i]].data
        /\ ~(p = q /\ i = n) => r.node[chain[p][i]].next = m.node[chain[p][i]].next
        /\ p = q /\ i = n => r.node[chain[p][i]].next = c
  <2> TAKE p \in Objects
  <2> TAKE i \in 1 .. Len(chain[p])
  <2> DEFINE x == chain[p][i]
             y == r.node[x]
             z == m.node[x]
  <2>1. x \in Cells /\ x # c /\ (x = t <=> p = q /\ i = n)
    BY <1>3, <1>5
  <2>2. /\ x # t => y = z
        /\ x = t => y.data = z.data /\ y.next = c
    BY <1>7, <2>1
  <2> HIDE DEF x, y, z
  <2>3. y.data = z.data /\ (x # t => y.next = z.next) /\ (x = t => y.next = c)
    BY <2>2
  <2>4. y.data = z.data /\ (~(p = q /\ i = n) => y.next = z.next) /\ (p = q /\ i = n => y.next = c)
    BY <2>1, <2>3
  <2> QED BY <2>4 DEF x, y, z
<1>9. ASSUME NEW p \in Objects
      PROVE  /\ IsChain(r.node, r.head[p], later[p])
             /\ r.tail[p] = IF later[p] = <<>> THEN Null ELSE later[p][Len(later[p])]
             /\ r.count[p] = Len(later[p])
             /\ \A i \in 1 .. Len(later[p]) : r.node[later[p][i]].data \in Datum
  <2>0. /\ IsChain(m.node, m.head[p], chain[p])
        /\ m.tail[p] = IF chain[p] = <<>> THEN Null ELSE chain[p][Len(chain[p])]
        /\ m.count[p] = Len(chain[p])
        /\ \A i \in 1 .. Len(chain[p]) : m.node[chain[p][i]].data \in Datum
        /\ chain[p] \in Seq(Cells) /\ Len(chain[p]) \in Nat
    BY DEF FifoChains
  <2>1. CASE p # q
    <3>1. later[p] = chain[p] /\ r.head[p] = m.head[p] /\ r.tail[p] = m.tail[p]
          /\ r.count[p] = m.count[p]
      BY <1>1, <1>2, <1>6, <2>1
    <3>2. \A i \in 1 .. Len(chain[p]) : /\ r.node[chain[p][i]].next = m.node[chain[p][i]].next
                                        /\ r.node[chain[p][i]].data = m.node[chain[p][i]].data
      BY <1>8, <2>1
    <3>3. IsChain(r.node, r.head[p], later[p])
      BY <2>0, <3>1, <3>2 DEF IsChain
    <3>4. \A i \in 1 .. Len(later[p]) : r.node[later[p][i]].data \in Datum
      BY <2>0, <3>1, <3>2
    <3> QED BY <2>0, <3>1, <3>3, <3>4
  <2>2. CASE p = q
    <3>1. r.tail[q] = c /\ r.count[q] = n + 1
      <4>1. m.count[q] = n
        BY <2>0, <2>2 DEF n
      <4>2. r.tail[q] = c
        BY <1>1, <1>2
      <4>3. r.count[q] = m.count[q] + 1
        BY <1>1, <1>2
      <4> QED BY <4>1, <4>2, <4>3
    <3>2. \A i, j \in 1 .. Len(later[q]) : later[q][i] = later[q][j] => i = j
      <4>1. \A i, j \in 1 .. n : chain[q][i] = chain[q][j] => i = j
        BY <2>0, <2>2 DEF IsChain, n
      <4>2. \A i \in 1 .. n : later[q][i] # c
        BY <1>3, <1>6 DEF n
      <4>3. \A i \in 1 .. Len(later[q]) : i \in 1 .. n \/ i = n + 1
        BY <1>4, <1>6
      <4> QED BY <1>6, <4>1, <4>2, <4>3
    <3>3. r.head[q] = later[q][1]
      <4>1. CASE chain[q] = <<>>
        <5>1. t = Null /\ n = 0
          BY <4>1, <2>0, <2>2 DEF t, n
        <5> QED BY <1>1, <1>2, <1>6, <5>1 DEF t
      <4>2. CASE chain[q] # <<>>
        <5>1. n > 0 /\ t # Null /\ m.head[q] = chain[q][1]
          BY <4>2, <2>0, <2>2, FifoNodes DEF t, n, IsChain
        <5>2. later[q][1] = chain[q][1]
          BY <1>4, <1>6, <5>1
        <5> QED BY <1>1, <1>2, <5>1, <5>2 DEF t
      <4> QED BY <4>1, <4>2
    <3>4. \A i \in 1 .. Len(later[q]) :
            r.node[later[q][i]].next = IF i = Len(later[q]) THEN Null ELSE later[q][i + 1]
      <4> TAKE i \in 1 .. Len(later[q])
      <4>1. CASE i = n + 1
        BY <1>2, <1>4, <1>6, <1>7, <4>1
      <4>2. CASE i = n
        <5>1. i \in 1 .. n /\ i # Len(later[q])
          BY <1>4, <1>6, <4>2
        <5>2. r.node[chain[q][i]].next = c
          BY <1>8, <4>2, <5>1 DEF n
        <5>3. later[q][i] = chain[q][i] /\ later[q][i + 1] = c
          BY <1>6, <4>2, <5>1
        <5> QED BY <5>1, <5>2, <5>3
      <4>3. CASE i \in 1 .. (n - 1)
        <5>1. i \in 1 .. n /\ i + 1 \in 1 .. n /\ i # n /\ i # Len(later[q])
          BY <1>4, <1>6, <4>3
        <5>2. m.node[chain[q][i]].next = chain[q][i + 1]
          BY <2>0, <2>2, <5>1 DEF IsChain, n
        <5> QED BY <1>6, <1>8, <5>1, <5>2 DEF n
      <4> QED BY <1>4, <1>6, <4>1, <4>2, <4>3
    <3>5. IsChain(r.node, r.head[q], later[q])
      BY <1>6, <3>2, <3>3, <3>4 DEF IsChain
    <3>6. \A i \in 1 .. Len(later[q]) : r.node[later[q][i]].data \in Datum
      <4> TAKE i \in 1 .. Len(later[q])
      <4>1. CASE i = n + 1
        BY <1>2, <1>6, <1>7, <4>1
      <4>2. CASE i \in 1 .. n
        <5>1. r.node[chain[q][i]].data = m.node[chain[q][i]].data
          BY <1>8, <4>2 DEF n
        <5>2. m.node[chain[q][i]].data \in Datum
          BY <2>0, <2>2, <4>2 DEF n
        <5>3. later[q][i] = chain[q][i]
          BY <1>6, <4>2
        <5> QED BY <5>1, <5>2, <5>3
      <4> QED BY <1>4, <1>6, <4>1, <4>2
    <3> QED BY <1>6, <2>2, <3>1, <3>5, <3>6
  <2> QED BY <2>1, <2>2
<1>10. \A p, o \in Objects : p # o =>
         \A i \in 1 .. Len(later[p]), j \in 1 .. Len(later[o]) : later[p][i] # later[o][j]
  <2> SUFFICES ASSUME NEW p \in Objects, NEW o \in Objects, p # o,
                      NEW i \in 1 .. Len(later[p]), NEW j \in 1 .. Len(later[o])
               PROVE  later[p][i] # later[o][j]
    OBVIOUS
  <2>0. \A a \in 1 .. Len(chain[p]), b \in 1 .. Len(chain[o]) : chain[p][a] # chain[o][b]
    BY DEF FifoChains
  <2>1. CASE p = q
    BY <1>3, <1>4, <1>6, <2>0, <2>1 DEF n
  <2>2. CASE o = q
    BY <1>3, <1>4, <1>6, <2>0, <2>2 DEF n
  <2>3. CASE p # q /\ o # q
    BY <1>6, <2>0, <2>3
  <2> QED BY <2>1, <2>2, <2>3
<1>11. \A x \in Cells : (\A p \in Objects : \A i \in 1 .. Len(later[p]) : later[p][i] # x) =>
                        r.node[x] = Fifo!Freed
  <2> SUFFICES ASSUME NEW x \in Cells, \A p \in Objects : \A i \in 1 .. Len(later[p]) : later[p][i] # x
               PROVE  r.node[x] = Fifo!Freed
    OBVIOUS
  <2>1. x # c
    BY <1>4, <1>6
  <2>2. \A p \in Objects : \A i \in 1 .. Len(chain[p]) : chain[p][i] # x
    BY <1>4, <1>6 DEF n
  <2>3. m.node[x] = Fifo!Freed
    BY <2>2 DEF FifoChains
  <2>4. x # t
    <3>1. CASE chain[q] = <<>>
      BY <1>2, <3>1, FifoNodes, ContainersAssumption DEF t
    <3>2. CASE chain[q] # <<>>
      <4>1. n \in 1 .. n /\ t = chain[q][n]
        BY <1>4, <3>2, FifoNodes DEF n, t
      <4> QED BY <2>2, <4>1 DEF n
    <3> QED BY <3>1, <3>2
  <2> QED BY <1>7, <2>1, <2>3, <2>4
<1>12. FifoChains(r, later)
  BY <1>1, <1>6, <1>9, <1>10, <1>11 DEF FifoChains
<1>13. FifoValues(r, later, q) = Append(FifoValues(m, chain, q), v)
  <2>1. FifoValues(m, chain, q) \in Seq(Datum) /\ Len(FifoValues(m, chain, q)) = n
        /\ \A i \in 1 .. n : FifoValues(m, chain, q)[i] = m.node[chain[q][i]].data
    BY <1>4, FifoNodes DEF FifoValues, n
  <2>2. \A i \in 1 .. n + 1 :
          r.node[later[q][i]].data = IF i = n + 1 THEN v ELSE m.node[chain[q][i]].data
    BY <1>2, <1>4, <1>6, <1>7, <1>8 DEF n
  <2>3. FifoValues(r, later, q) = [i \in 1 .. n + 1 |-> r.node[later[q][i]].data]
    BY <1>6 DEF FifoValues
  <2> HIDE DEF n
  <2> DEFINE s == FifoValues(m, chain, q)
  <2>4. FifoValues(r, later, q) = [i \in 1 .. n + 1 |-> IF i = n + 1 THEN v ELSE s[i]]
    BY <1>4, <2>1, <2>2, <2>3
  <2>5. s \in Seq(Datum) /\ Len(s) = n
    BY <2>1
  <2> HIDE DEF s
  <2>6. FifoValues(r, later, q) = Append(s, v)
    BY <2>4, <2>5, AppendedIs
  <2> QED BY <2>6 DEF s
<1>14. ASSUME NEW p \in Objects \ {q} PROVE FifoValues(r, later, p) = FifoValues(m, chain, p)
  BY <1>6, <1>8 DEF FifoValues
<1>15. Fifo!FreeCells(r) = Fifo!FreeCells(m) \ {c}
  <2>1. \A x \in Cells : r.node[x] = Fifo!Freed <=> m.node[x] = Fifo!Freed /\ x # c
    <3> TAKE x \in Cells
    <3>1. CASE x = c
      BY <1>7, <3>1, ContainersAssumption DEF Fifo!Freed
    <3>2. CASE x # c /\ x # t
      BY <1>7, <3>2
    <3>3. CASE x # c /\ x = t
      <4>1. r.node[x].next = c /\ Fifo!Freed.next = Null
        BY <1>7, <3>3 DEF Fifo!Freed
      <4>2. chain[q] # <<>>
        BY <3>3, FifoNodes, ContainersAssumption DEF t
      <4>3. m.node[x] # Fifo!Freed
        <5>1. n \in 1 .. n /\ t = chain[q][n]
          BY <1>4, <4>2, FifoNodes DEF n, t
        <5> QED BY <3>3, <5>1, FifoNodes DEF n
      <4> QED BY <1>2, <4>1, <4>3
    <3> QED BY <3>1, <3>2, <3>3
  <2> QED BY <2>1 DEF Fifo!FreeCells
<1> QED BY <1>12, <1>13, <1>14, <1>15

-----------------------------------------------------------------------------
(* Dequeueing.                                                             *)

(* What Tail returns.                                                      *)
LEMMA Shortened ==
  ASSUME NEW S, NEW s \in Seq(S), Len(s) > 0
  PROVE  /\ Tail(s) \in Seq(S)
         /\ Len(s) \in Nat
         /\ Len(Tail(s)) = Len(s) - 1
         /\ \A i \in 1 .. Len(s) - 1 : Tail(s)[i] = s[i + 1]
         /\ Tail(s) = <<>> <=> Len(s) = 1
<1> DEFINE a == Tail(s)
<1>1. s # <<>> /\ Len(s) \in Nat
  OBVIOUS
<1>2. a \in Seq(S)
  BY <1>1
<1>3. Len(a) = Len(s) - 1
  BY <1>1
<1>4. \A i \in 1 .. Len(s) - 1 : a[i] = s[i + 1]
  BY <1>1
<1>5. a = <<>> <=> Len(s) = 1
  <2> HIDE DEF a
  <2> QED BY <1>1, <1>2, <1>3
<1> QED BY <1>1, <1>2, <1>3, <1>4, <1>5

(* Tail, told element by element.                                          *)
LEMMA ShortenedIs ==
  ASSUME NEW S, NEW s \in Seq(S), Len(s) > 0, NEW a,
         a = [i \in 1 .. Len(s) - 1 |-> s[i + 1]]
  PROVE  a = Tail(s)
<1> DEFINE b == Tail(s)
           n == Len(s)
<1>1. b \in Seq(S) /\ Len(b) = n - 1 /\ n \in Nat /\ \A i \in 1 .. n - 1 : b[i] = s[i + 1]
  BY Shortened
<1>2. a = [i \in 1 .. n - 1 |-> s[i + 1]]
  OBVIOUS
<1> HIDE DEF b, n
<1>3. b = [i \in 1 .. n - 1 |-> b[i]]
  BY <1>1
<1>4. a = b
  BY <1>1, <1>2, <1>3
<1> QED BY <1>4 DEF b

(* Queue::dequeue, field by field: the head is deleted.                    *)
LEMMA DequeueFields ==
  ASSUME NEW m, NEW chain, FifoChains(m, chain), NEW q \in Objects, m.count[q] > 0
  PROVE  LET r == Fifo!Dequeue(m, q)
             h == m.head[q]
         IN  /\ h = chain[q][1]
             /\ m.node[h].next = IF Len(chain[q]) = 1 THEN Null ELSE chain[q][2]
             /\ r \in FifoMemory
             /\ r.node = [m.node EXCEPT ![h] = Fifo!Freed]
             /\ r.head = [m.head EXCEPT ![q] = m.node[h].next]
             /\ r.tail = [m.tail EXCEPT ![q] = IF m.node[h].next = Null THEN Null ELSE @]
             /\ r.count = [m.count EXCEPT ![q] = @ - 1]
<1> DEFINE r == Fifo!Dequeue(m, q)
           h == m.head[q]
           new == m.node[h].next
           nodes == [m.node EXCEPT ![h] = Fifo!Freed]
           heads == [m.head EXCEPT ![q] = new]
           tails == [m.tail EXCEPT ![q] = IF new = Null THEN Null ELSE @]
           counts == [m.count EXCEPT ![q] = @ - 1]
<1>1. /\ m \in FifoMemory
      /\ m.node \in [Cells -> [data : Datum \cup {Null}, next : Cells \cup {Null}]]
      /\ m.head \in [Objects -> Cells \cup {Null}]
      /\ m.tail \in [Objects -> Cells \cup {Null}]
      /\ m.count \in [Objects -> Nat]
  BY DEF FifoChains, FifoMemory
<1>2. Len(chain[q]) \in Nat /\ Len(chain[q]) > 0 /\ 1 \in 1 .. Len(chain[q])
  BY FifoNodes
<1>3. h = chain[q][1] /\ new = IF Len(chain[q]) = 1 THEN Null ELSE chain[q][2]
  <2>1. IsChain(m.node, m.head[q], chain[q]) /\ chain[q] \in Seq(Cells)
    BY DEF FifoChains
  <2>2. chain[q] # <<>>
    BY <1>2
  <2>3. h = chain[q][1]
    BY <2>1, <2>2 DEF IsChain
  <2>4. m.node[chain[q][1]].next = IF 1 = Len(chain[q]) THEN Null ELSE chain[q][1 + 1]
    BY <1>2, <2>1 DEF IsChain
  <2> QED BY <2>3, <2>4
<1>4. h \in Cells
  BY <1>2, <1>3, FifoNodes
<1>5. new \in Cells \cup {Null}
  BY <1>1, <1>4
<1>6. r = [m EXCEPT !.node = nodes, !.head = heads, !.tail = tails, !.count = counts]
  BY DEF Fifo!Dequeue
<1>7. nodes \in [Cells -> [data : Datum \cup {Null}, next : Cells \cup {Null}]]
  BY <1>1, <1>4 DEF Fifo!Freed
<1>8. /\ heads \in [Objects -> Cells \cup {Null}]
      /\ tails \in [Objects -> Cells \cup {Null}]
  <2> HIDE DEF new
  <2> QED BY <1>1, <1>5
<1>9. counts \in [Objects -> Nat]
  BY <1>1
<1> HIDE DEF nodes, heads, tails, counts, r
<1>10. r \in FifoMemory
  BY <1>1, <1>6, <1>7, <1>8, <1>9 DEF FifoMemory
<1>11. r.node = nodes /\ r.head = heads /\ r.tail = tails /\ r.count = counts
  BY <1>1, <1>6 DEF FifoMemory
<1> QED BY <1>3, <1>10, <1>11 DEF r, nodes, heads, tails, counts

(* Queue::dequeue takes the first of what waits.                           *)
LEMMA DequeueTakes ==
  ASSUME NEW m, NEW chain, FifoChains(m, chain), NEW q \in Objects, m.count[q] > 0,
         NEW r, r = Fifo!Dequeue(m, q)
  PROVE  \E later :
           /\ FifoChains(r, later)
           /\ FifoValues(m, chain, q) # <<>>
           /\ FifoValues(r, later, q) = Tail(FifoValues(m, chain, q))
           /\ \A p \in Objects \ {q} : FifoValues(r, later, p) = FifoValues(m, chain, p)
<1> DEFINE n == Len(chain[q])
           h == m.head[q]
           later == [chain EXCEPT ![q] = Tail(@)]
<1>1. /\ h = chain[q][1]
      /\ m.node[h].next = IF n = 1 THEN Null ELSE chain[q][2]
      /\ r \in FifoMemory
      /\ r.node = [m.node EXCEPT ![h] = Fifo!Freed]
      /\ r.head = [m.head EXCEPT ![q] = m.node[h].next]
      /\ r.tail = [m.tail EXCEPT ![q] = IF m.node[h].next = Null THEN Null ELSE @]
      /\ r.count = [m.count EXCEPT ![q] = @ - 1]
  BY DequeueFields
<1>2. /\ chain \in [Objects -> Seq(Cells)]
      /\ m.node \in [Cells -> [data : Datum \cup {Null}, next : Cells \cup {Null}]]
      /\ m.head \in [Objects -> Cells \cup {Null}]
      /\ m.tail \in [Objects -> Cells \cup {Null}]
      /\ m.count \in [Objects -> Nat]
  BY DEF FifoChains, FifoMemory
<1>3. n \in Nat /\ n > 0 /\ chain[q] \in Seq(Cells) /\ m.count[q] = n
  BY FifoNodes
<1>4. /\ later \in [Objects -> Seq(Cells)] /\ later[q] \in Seq(Cells)
      /\ Len(later[q]) = n - 1
      /\ \A i \in 1 .. n - 1 : later[q][i] = chain[q][i + 1]
      /\ later[q] = <<>> <=> n = 1
      /\ \A p \in Objects : p # q => later[p] = chain[p]
  <2>1. later[q] = Tail(chain[q])
    BY <1>2
  <2>2. /\ later[q] \in Seq(Cells)
        /\ Len(later[q]) = n - 1
        /\ \A i \in 1 .. n - 1 : later[q][i] = chain[q][i + 1]
        /\ later[q] = <<>> <=> n = 1
    <3> DEFINE s == chain[q]
    <3>1. s \in Seq(Cells) /\ n = Len(s) /\ Len(s) > 0 /\ later[q] = Tail(s)
      BY <1>3, <2>1
    <3> HIDE DEF s, n, later
    <3>2. /\ Tail(s) \in Seq(Cells)
          /\ Len(Tail(s)) = Len(s) - 1
          /\ \A i \in 1 .. Len(s) - 1 : Tail(s)[i] = s[i + 1]
          /\ Tail(s) = <<>> <=> Len(s) = 1
      BY <3>1, Shortened
    <3> QED BY <3>1, <3>2, Zenon DEF s
  <2>4. later \in [Objects -> Seq(Cells)] /\ \A p \in Objects : p # q => later[p] = chain[p]
    BY <1>2, <1>3, <2>2
  <2> QED BY <2>2, <2>4
<1> HIDE DEF later, n, h
<1>5. h \in Cells /\ r.node[h] = Fifo!Freed /\ \A x \in Cells : x # h => r.node[x] = m.node[x]
  <2>1. h \in Cells
    BY <1>1, <1>3, FifoNodes DEF n
  <2> QED BY <1>1, <1>2, <2>1
<1>6. \A p \in Objects : \A i \in 1 .. Len(chain[p]) : chain[p][i] = h <=> p = q /\ i = 1
  <2> TAKE p \in Objects
  <2> TAKE i \in 1 .. Len(chain[p])
  <2>1. 1 \in 1 .. n
    BY <1>3
  <2>2. CASE p = q
    <3>1. chain[q][i] = chain[q][1] => i = 1
      BY <2>1, <2>2, FifoNodes DEF n
    <3> QED BY <1>1, <2>2, <3>1
  <2>3. CASE p # q
    BY <1>1, <2>1, <2>3 DEF FifoChains, n
  <2> QED BY <2>2, <2>3
<1>7. \A p \in Objects : \A i \in 1 .. Len(chain[p]) :
        ~(p = q /\ i = 1) => r.node[chain[p][i]] = m.node[chain[p][i]]
  BY <1>5, <1>6, FifoNodes
<1>8. ASSUME NEW i \in 1 .. n - 1
      PROVE  /\ i \in 1 .. n /\ i + 1 \in 1 .. n /\ later[q][i] = chain[q][i + 1]
             /\ i + 1 \in 1 .. Len(chain[q])
             /\ r.node[later[q][i]] = m.node[chain[q][i + 1]]
  <2>1. i \in 1 .. n /\ i + 1 \in 1 .. n /\ later[q][i] = chain[q][i + 1] /\ i + 1 # 1
    BY <1>3, <1>4
  <2>2. r.node[chain[q][i + 1]] = m.node[chain[q][i + 1]]
    BY <1>7, <2>1 DEF n
  <2> QED BY <2>1, <2>2 DEF n
<1>9. ASSUME NEW p \in Objects
      PROVE  /\ IsChain(r.node, r.head[p], later[p])
             /\ r.tail[p] = IF later[p] = <<>> THEN Null ELSE later[p][Len(later[p])]
             /\ r.count[p] = Len(later[p])
             /\ \A i \in 1 .. Len(later[p]) : r.node[later[p][i]].data \in Datum
  <2>0. /\ IsChain(m.node, m.head[p], chain[p])
        /\ m.tail[p] = IF chain[p] = <<>> THEN Null ELSE chain[p][Len(chain[p])]
        /\ m.count[p] = Len(chain[p])
        /\ \A i \in 1 .. Len(chain[p]) : m.node[chain[p][i]].data \in Datum
        /\ chain[p] \in Seq(Cells) /\ Len(chain[p]) \in Nat
    BY DEF FifoChains
  <2>1. CASE p # q
    <3>1. later[p] = chain[p] /\ r.head[p] = m.head[p] /\ r.tail[p] = m.tail[p]
          /\ r.count[p] = m.count[p]
      BY <1>1, <1>2, <1>4, <2>1
    <3>2. \A i \in 1 .. Len(chain[p]) : r.node[chain[p][i]] = m.node[chain[p][i]]
      BY <1>7, <2>1
    <3>3. IsChain(r.node, r.head[p], later[p])
      BY <2>0, <3>1, <3>2 DEF IsChain
    <3>4. \A i \in 1 .. Len(later[p]) : r.node[later[p][i]].data \in Datum
      BY <2>0, <3>1, <3>2
    <3> QED BY <2>0, <3>1, <3>3, <3>4
  <2>2. CASE p = q
    <3>1. r.count[q] = n - 1 /\ m.tail[q] = chain[q][n] /\ m.tail[q] # Null
      BY <1>1, <1>2, <1>3, FifoNodes DEF n
    <3>2. \A i, j \in 1 .. Len(later[q]) : later[q][i] = later[q][j] => i = j
      <4> SUFFICES ASSUME NEW i \in 1 .. n - 1, NEW j \in 1 .. n - 1, later[q][i] = later[q][j]
                   PROVE  i = j
        BY <1>4
      <4>1. chain[q][i + 1] = chain[q][j + 1] /\ i + 1 \in 1 .. Len(chain[q])
            /\ j + 1 \in 1 .. Len(chain[q])
        BY <1>8
      <4>2. i + 1 = j + 1
        BY <2>0, <2>2, <4>1 DEF IsChain
      <4> QED BY <4>2
    <3>3. /\ r.head[q] = IF later[q] = <<>> THEN Null ELSE later[q][1]
          /\ r.tail[q] = IF later[q] = <<>> THEN Null ELSE later[q][Len(later[q])]
      <4>1. CASE n = 1
        BY <1>1, <1>2, <1>4, <4>1
      <4>2. CASE n # 1
        <5>1. 1 \in 1 .. n - 1 /\ n - 1 \in 1 .. n - 1 /\ (n - 1) + 1 = n /\ 2 \in 1 .. n
          BY <1>3, <4>2
        <5>2. later[q][1] = chain[q][2] /\ later[q][n - 1] = chain[q][n] /\ later[q] # <<>>
          BY <1>4, <4>2, <5>1
        <5>3. m.node[h].next = chain[q][2] /\ chain[q][2] # Null
          BY <1>1, <4>2, <5>1, FifoNodes DEF n
        <5>4. r.head[q] = chain[q][2] /\ r.tail[q] = m.tail[q]
          BY <1>1, <1>2, <5>3
        <5> QED BY <1>4, <3>1, <5>2, <5>4
      <4> QED BY <4>1, <4>2
    <3>4. \A i \in 1 .. Len(later[q]) :
            r.node[later[q][i]].next = IF i = Len(later[q]) THEN Null ELSE later[q][i + 1]
      <4> SUFFICES ASSUME NEW i \in 1 .. n - 1
                   PROVE  r.node[later[q][i]].next = IF i = n - 1 THEN Null ELSE later[q][i + 1]
        BY <1>4
      <4>1. m.node[chain[q][i + 1]].next = IF i + 1 = n THEN Null ELSE chain[q][(i + 1) + 1]
        BY <1>8, <2>0, <2>2 DEF IsChain, n
      <4>2. r.node[later[q][i]] = m.node[chain[q][i + 1]]
        BY <1>8
      <4>3. i # n - 1 => later[q][i + 1] = chain[q][(i + 1) + 1]
        BY <1>3, <1>4
      <4> QED BY <1>3, <4>1, <4>2, <4>3
    <3>5. IsChain(r.node, r.head[q], later[q])
      BY <1>4, <3>2, <3>3, <3>4 DEF IsChain
    <3>6. \A i \in 1 .. Len(later[q]) : r.node[later[q][i]].data \in Datum
      <4> SUFFICES ASSUME NEW i \in 1 .. n - 1 PROVE r.node[later[q][i]].data \in Datum
        BY <1>4
      <4>1. m.node[chain[q][i + 1]].data \in Datum
        BY <1>8, <2>0, <2>2
      <4> QED BY <1>8, <4>1
    <3> QED BY <1>4, <2>2, <3>1, <3>3, <3>5, <3>6
  <2> QED BY <2>1, <2>2
<1>10. \A p, o \in Objects : p # o =>
         \A i \in 1 .. Len(later[p]), j \in 1 .. Len(later[o]) : later[p][i] # later[o][j]
  <2> SUFFICES ASSUME NEW p \in Objects, NEW o \in Objects, p # o,
                      NEW i \in 1 .. Len(later[p]), NEW j \in 1 .. Len(later[o])
               PROVE  later[p][i] # later[o][j]
    OBVIOUS
  <2>0. \A a \in 1 .. Len(chain[p]), b \in 1 .. Len(chain[o]) : chain[p][a] # chain[o][b]
    BY DEF FifoChains
  <2>1. CASE p = q
    <3>1. i \in 1 .. n - 1 /\ later[o] = chain[o]
      BY <1>4, <2>1
    <3>2. later[q][i] = chain[q][i + 1] /\ i + 1 \in 1 .. Len(chain[q])
      BY <1>8, <3>1
    <3> QED BY <2>0, <2>1, <3>1, <3>2
  <2>2. CASE o = q
    <3>1. j \in 1 .. n - 1 /\ later[p] = chain[p]
      BY <1>4, <2>2
    <3>2. later[q][j] = chain[q][j + 1] /\ j + 1 \in 1 .. Len(chain[q])
      BY <1>8, <3>1
    <3> QED BY <2>0, <2>2, <3>1, <3>2
  <2>3. CASE p # q /\ o # q
    BY <1>4, <2>0, <2>3
  <2> QED BY <2>1, <2>2, <2>3
<1>11. \A x \in Cells : (\A p \in Objects : \A i \in 1 .. Len(later[p]) : later[p][i] # x) =>
                        r.node[x] = Fifo!Freed
  <2> SUFFICES ASSUME NEW x \in Cells, x # h,
                      \A p \in Objects : \A i \in 1 .. Len(later[p]) : later[p][i] # x
               PROVE  r.node[x] = Fifo!Freed
    BY <1>5
  <2>1. \A p \in Objects : \A i \in 1 .. Len(chain[p]) : chain[p][i] # x
    <3> TAKE p \in Objects
    <3> TAKE i \in 1 .. Len(chain[p])
    <3>1. CASE p = q /\ i = 1
      BY <1>6, <3>1
    <3>2. CASE p = q /\ i # 1
      <4>1. i - 1 \in 1 .. n - 1 /\ (i - 1) + 1 = i
        BY <1>3, <3>2 DEF n
      <4>2. later[q][i - 1] = chain[q][i] /\ i - 1 \in 1 .. Len(later[q])
        BY <1>4, <4>1
      <4> QED BY <3>2, <4>2
    <3>3. CASE p # q
      BY <1>4, <3>3
    <3> QED BY <3>1, <3>2, <3>3
  <2>2. m.node[x] = Fifo!Freed
    BY <2>1 DEF FifoChains
  <2> QED BY <1>5, <2>2
<1>12. FifoChains(r, later)
  BY <1>1, <1>4, <1>9, <1>10, <1>11 DEF FifoChains
<1> DEFINE s == FifoValues(m, chain, q)
<1>13. s \in Seq(Datum) /\ Len(s) = n /\ \A i \in 1 .. n : s[i] = m.node[chain[q][i]].data
  BY <1>3, FifoNodes DEF FifoValues, n
<1>14. FifoValues(r, later, q) = Tail(s)
  <2>1. FifoValues(r, later, q) = [i \in 1 .. n - 1 |-> r.node[later[q][i]].data]
    BY <1>4 DEF FifoValues
  <2>2. \A i \in 1 .. n - 1 : r.node[later[q][i]].data = s[i + 1]
    BY <1>8, <1>13
  <2> HIDE DEF s
  <2>3. FifoValues(r, later, q) = [i \in 1 .. n - 1 |-> s[i + 1]]
    BY <2>1, <2>2
  <2> QED BY <1>3, <1>13, <2>3, ShortenedIs
<1>15. ASSUME NEW p \in Objects \ {q} PROVE FifoValues(r, later, p) = FifoValues(m, chain, p)
  BY <1>4, <1>7 DEF FifoValues
<1>16. s # <<>>
  <2> HIDE DEF s
  <2> QED BY <1>3, <1>13
<1> QED BY <1>12, <1>14, <1>15, <1>16

-----------------------------------------------------------------------------
(* Clearing and moving a queue.                                            *)

(* The nodes of a chain, as a set.                                         *)
ChainCells(chain, q) == {chain[q][i] : i \in 1 .. Len(chain[q])}

(* An empty chain holds nothing.                                           *)
LEMMA NoValues ==
  ASSUME NEW m, NEW chain, NEW q, chain[q] = <<>>
  PROVE  FifoValues(m, chain, q) = <<>>
<1> DEFINE n == Len(chain[q])
<1>1. 1 .. n = {}
  OBVIOUS
<1> HIDE DEF n
<1>2. [i \in 1 .. n |-> m.node[chain[q][i]].data] = [i \in {} |-> m.node[chain[q][i]].data]
  BY <1>1, Zenon
<1>3. [i \in {} |-> m.node[chain[q][i]].data] = <<>>
  OBVIOUS
<1> QED BY <1>2, <1>3, Zenon DEF FifoValues, n

(* Queue::clear, field by field.                                           *)
LEMMA ClearFields ==
  ASSUME NEW m, NEW chain, FifoChains(m, chain), NEW q \in Objects, NEW r, r = Fifo!Clear(m, q)
  PROVE  /\ r \in FifoMemory
         /\ r.node = [x \in Cells |-> IF \E i \in 1 .. Len(chain[q]) : chain[q][i] = x
                                      THEN Fifo!Freed ELSE m.node[x]]
         /\ r.head = [m.head EXCEPT ![q] = Null]
         /\ r.tail = [m.tail EXCEPT ![q] = Null]
         /\ r.count = [m.count EXCEPT ![q] = 0]
<1> DEFINE nodes == [x \in Cells |-> IF \E i \in 1 .. Len(chain[q]) : chain[q][i] = x
                                     THEN Fifo!Freed ELSE m.node[x]]
           heads == [m.head EXCEPT ![q] = Null]
           tails == [m.tail EXCEPT ![q] = Null]
           counts == [m.count EXCEPT ![q] = 0]
<1>1. /\ m \in FifoMemory
      /\ m.node \in [Cells -> [data : Datum \cup {Null}, next : Cells \cup {Null}]]
      /\ m.head \in [Objects -> Cells \cup {Null}]
      /\ m.tail \in [Objects -> Cells \cup {Null}]
      /\ m.count \in [Objects -> Nat]
  BY DEF FifoChains, FifoMemory
<1>2. Fifo!Nodes(m, q) = chain[q] /\ DOMAIN chain[q] = 1 .. Len(chain[q])
  BY FifoWaitingIs
<1>3. r = [m EXCEPT !.node = [c \in Cells |->
                       IF \E i \in DOMAIN chain[q] : chain[q][i] = c THEN Fifo!Freed ELSE @[c]],
                    !.head[q] = Null, !.tail[q] = Null, !.count[q] = 0]
  BY <1>2, Zenon DEF Fifo!Clear
<1>4. r = [m EXCEPT !.node = nodes, !.head = heads, !.tail = tails, !.count = counts]
  BY <1>2, <1>3
<1>5. nodes \in [Cells -> [data : Datum \cup {Null}, next : Cells \cup {Null}]]
  BY <1>1 DEF Fifo!Freed
<1>6. /\ heads \in [Objects -> Cells \cup {Null}]
      /\ tails \in [Objects -> Cells \cup {Null}]
      /\ counts \in [Objects -> Nat]
  BY <1>1
<1> HIDE DEF nodes, heads, tails, counts
<1>7. r \in FifoMemory
  BY <1>1, <1>4, <1>5, <1>6 DEF FifoMemory
<1>8. r.node = nodes /\ r.head = heads /\ r.tail = tails /\ r.count = counts
  BY <1>1, <1>4 DEF FifoMemory
<1> QED BY <1>7, <1>8 DEF nodes, heads, tails, counts

Without(chain, q) == [chain EXCEPT ![q] = <<>>]

(* Queue::clear deletes the nodes of the queue, and no other.              *)
LEMMA ClearEmpties ==
  ASSUME NEW m, NEW chain, FifoChains(m, chain), NEW q \in Objects, NEW r, r = Fifo!Clear(m, q)
  PROVE  /\ FifoChains(r, Without(chain, q))
         /\ \A p \in Objects \ {q} : FifoValues(r, chain, p) = FifoValues(m, chain, p)
         /\ Fifo!FreeCells(r) = Fifo!FreeCells(m) \cup ChainCells(chain, q)
<1> DEFINE later == [chain EXCEPT ![q] = <<>>]
           On(x) == \E i \in 1 .. Len(chain[q]) : chain[q][i] = x
<1>1. /\ r \in FifoMemory
      /\ r.node = [x \in Cells |-> IF On(x) THEN Fifo!Freed ELSE m.node[x]]
      /\ r.head = [m.head EXCEPT ![q] = Null]
      /\ r.tail = [m.tail EXCEPT ![q] = Null]
      /\ r.count = [m.count EXCEPT ![q] = 0]
  BY ClearFields
<1>2. /\ chain \in [Objects -> Seq(Cells)]
      /\ m.node \in [Cells -> [data : Datum \cup {Null}, next : Cells \cup {Null}]]
      /\ m.head \in [Objects -> Cells \cup {Null}]
      /\ m.tail \in [Objects -> Cells \cup {Null}]
      /\ m.count \in [Objects -> Nat]
  BY DEF FifoChains, FifoMemory
<1>3. /\ later \in [Objects -> Seq(Cells)] /\ later[q] = <<>> /\ Len(later[q]) = 0
      /\ \A p \in Objects : p # q => later[p] = chain[p]
  BY <1>2
<1>4. \A x \in Cells : /\ On(x) => r.node[x] = Fifo!Freed
                       /\ ~On(x) => r.node[x] = m.node[x]
  BY <1>1
<1>5. \A p \in Objects \ {q} : \A i \in 1 .. Len(chain[p]) :
        chain[p][i] \in Cells /\ ~On(chain[p][i]) /\ r.node[chain[p][i]] = m.node[chain[p][i]]
  <2> TAKE p \in Objects \ {q}
  <2> TAKE i \in 1 .. Len(chain[p])
  <2>1. chain[p][i] \in Cells
    BY FifoNodes
  <2>2. ~On(chain[p][i])
    BY DEF FifoChains
  <2> QED BY <1>4, <2>1, <2>2
<1>6. ASSUME NEW p \in Objects
      PROVE  /\ IsChain(r.node, r.head[p], later[p])
             /\ r.tail[p] = IF later[p] = <<>> THEN Null ELSE later[p][Len(later[p])]
             /\ r.count[p] = Len(later[p])
             /\ \A i \in 1 .. Len(later[p]) : r.node[later[p][i]].data \in Datum
  <2>0. /\ IsChain(m.node, m.head[p], chain[p])
        /\ m.tail[p] = IF chain[p] = <<>> THEN Null ELSE chain[p][Len(chain[p])]
        /\ m.count[p] = Len(chain[p])
        /\ \A i \in 1 .. Len(chain[p]) : m.node[chain[p][i]].data \in Datum
        /\ chain[p] \in Seq(Cells) /\ Len(chain[p]) \in Nat
    BY DEF FifoChains
  <2>1. CASE p # q
    <3>1. later[p] = chain[p] /\ r.head[p] = m.head[p] /\ r.tail[p] = m.tail[p]
          /\ r.count[p] = m.count[p]
      BY <1>1, <1>2, <1>3, <2>1
    <3>2. \A i \in 1 .. Len(chain[p]) : r.node[chain[p][i]] = m.node[chain[p][i]]
      BY <1>5, <2>1
    <3> HIDE DEF later, On
    <3>3. IsChain(r.node, r.head[p], later[p])
      BY <2>0, <3>1, <3>2 DEF IsChain
    <3>4. \A i \in 1 .. Len(later[p]) : r.node[later[p][i]].data \in Datum
      BY <2>0, <3>1, <3>2
    <3> QED BY <2>0, <3>1, <3>3, <3>4
  <2>2. CASE p = q
    <3>1. r.head[p] = Null /\ r.tail[p] = Null /\ r.count[p] = 0 /\ later[p] = <<>>
      BY <1>1, <1>2, <2>2
    <3>2. IsChain(r.node, r.head[p], <<>>)
      BY <3>1 DEF IsChain
    <3> QED BY <3>1, <3>2
  <2> QED BY <2>1, <2>2
<1>7. \A p, o \in Objects : p # o =>
         \A i \in 1 .. Len(later[p]), j \in 1 .. Len(later[o]) : later[p][i] # later[o][j]
  <2> SUFFICES ASSUME NEW p \in Objects, NEW o \in Objects, p # o,
                      NEW i \in 1 .. Len(later[p]), NEW j \in 1 .. Len(later[o])
               PROVE  later[p][i] # later[o][j]
    OBVIOUS
  <2> HIDE DEF later, On
  <2>1. p # q /\ o # q
    BY <1>3
  <2> QED BY <1>3, <2>1 DEF FifoChains
<1>8. \A x \in Cells : (\A p \in Objects : \A i \in 1 .. Len(later[p]) : later[p][i] # x) =>
                        r.node[x] = Fifo!Freed
  <2> SUFFICES ASSUME NEW x \in Cells, ~On(x),
                      \A p \in Objects : \A i \in 1 .. Len(later[p]) : later[p][i] # x
               PROVE  r.node[x] = Fifo!Freed
    BY <1>4
  <2>1. \A p \in Objects : \A i \in 1 .. Len(chain[p]) : chain[p][i] # x
    BY <1>3
  <2>2. m.node[x] = Fifo!Freed
    BY <2>1 DEF FifoChains
  <2> QED BY <1>4, <2>2
<1>9. FifoChains(r, later)
  <2> HIDE DEF later
  <2> QED BY <1>1, <1>3, <1>6, <1>7, <1>8 DEF FifoChains
<1>10. ASSUME NEW p \in Objects \ {q} PROVE FifoValues(r, chain, p) = FifoValues(m, chain, p)
  BY <1>5 DEF FifoValues
<1>11. Fifo!FreeCells(r) = Fifo!FreeCells(m) \cup ChainCells(chain, q)
  <2>1. \A x \in Cells : r.node[x] = Fifo!Freed <=> On(x) \/ m.node[x] = Fifo!Freed
    BY <1>4
  <2>2. \A i \in 1 .. Len(chain[q]) : chain[q][i] \in Cells
    BY FifoNodes
  <2> QED BY <2>1, <2>2 DEF Fifo!FreeCells, ChainCells
<1> QED BY <1>9, <1>10, <1>11 DEF Without

(* Moving a queue gives its nodes to the other and leaves it empty.        *)
LEMMA MoveAssignMoves ==
  ASSUME NEW m, NEW chain, FifoChains(m, chain), NEW q \in Objects, NEW other \in Objects, q # other,
         NEW r, r = Fifo!MoveAssign(m, q, other)
  PROVE  \E later :
           /\ FifoChains(r, later)
           /\ FifoValues(r, later, q) = FifoValues(m, chain, other)
           /\ FifoValues(r, later, other) = <<>>
           /\ \A p \in Objects \ {q, other} : FifoValues(r, later, p) = FifoValues(m, chain, p)
<1> DEFINE e == Fifo!Clear(m, q)
           left == Without(chain, q)
           later == [left EXCEPT ![q] = left[other], ![other] = <<>>]
           heads == [e.head EXCEPT ![q] = e.head[other], ![other] = Null]
           tails == [e.tail EXCEPT ![q] = e.tail[other], ![other] = Null]
           counts == [e.count EXCEPT ![q] = e.count[other], ![other] = 0]
<1>1. /\ FifoChains(e, left)
      /\ \A p \in Objects \ {q} : FifoValues(e, chain, p) = FifoValues(m, chain, p)
  BY ClearEmpties
<1>2. /\ chain \in [Objects -> Seq(Cells)]
      /\ m.head \in [Objects -> Cells \cup {Null}]
      /\ m.tail \in [Objects -> Cells \cup {Null}]
      /\ m.count \in [Objects -> Nat]
  BY DEF FifoChains, FifoMemory
<1>3. e.head[other] = m.head[other] /\ e.tail[other] = m.tail[other] /\ e.count[other] = m.count[other]
  <2>1. left[other] = chain[other]
    BY <1>2 DEF Without
  <2> HIDE DEF e, left
  <2>2. /\ IsChain(e.node, e.head[other], left[other]) /\ IsChain(m.node, m.head[other], chain[other])
        /\ e.tail[other] = IF left[other] = <<>> THEN Null ELSE left[other][Len(left[other])]
        /\ m.tail[other] = IF chain[other] = <<>> THEN Null ELSE chain[other][Len(chain[other])]
        /\ e.count[other] = Len(left[other]) /\ m.count[other] = Len(chain[other])
    BY <1>1 DEF FifoChains
  <2> QED BY <2>1, <2>2, Zenon DEF IsChain
<1>4. r = [e EXCEPT !.head[q] = e.head[other], !.tail[q] = e.tail[other], !.count[q] = e.count[other],
                    !.head[other] = Null, !.tail[other] = Null, !.count[other] = 0]
  BY <1>3, Zenon DEF Fifo!MoveAssign
<1>5. left \in [Objects -> Seq(Cells)] /\ left[q] = <<>> /\ \A p \in Objects \ {q} : left[p] = chain[p]
  BY <1>2 DEF Without
<1> HIDE DEF e, left
<1>6. /\ e \in FifoMemory
      /\ e.node \in [Cells -> [data : Datum \cup {Null}, next : Cells \cup {Null}]]
      /\ e.head \in [Objects -> Cells \cup {Null}]
      /\ e.tail \in [Objects -> Cells \cup {Null}]
      /\ e.count \in [Objects -> Nat]
  BY <1>1 DEF FifoChains, FifoMemory
<1>7. r = [e EXCEPT !.head = heads, !.tail = tails, !.count = counts]
  BY <1>4, <1>6 DEF FifoMemory
<1>8. heads \in [Objects -> Cells \cup {Null}] /\ tails \in [Objects -> Cells \cup {Null}]
      /\ counts \in [Objects -> Nat]
  BY <1>6
<1>9. /\ r \in FifoMemory
      /\ r.node = e.node /\ r.head = heads /\ r.tail = tails /\ r.count = counts
  <2> HIDE DEF heads, tails, counts
  <2>1. r \in FifoMemory
    BY <1>6, <1>7, <1>8 DEF FifoMemory
  <2>2. r.node = e.node /\ r.head = heads /\ r.tail = tails /\ r.count = counts
    BY <1>6, <1>7 DEF FifoMemory
  <2> QED BY <2>1, <2>2
<1> DEFINE from(p) == IF p = q THEN other ELSE IF p = other THEN q ELSE p
<1>10. \A p \in Objects : /\ from(p) \in Objects /\ from(from(p)) = p
                          /\ later[p] = left[from(p)]
                          /\ r.head[p] = e.head[from(p)]
                          /\ r.tail[p] = e.tail[from(p)]
                          /\ r.count[p] = e.count[from(p)]
  <2> TAKE p \in Objects
  <2>1. e.head[q] = Null /\ e.tail[q] = Null /\ e.count[q] = 0
    BY <1>1, <1>5 DEF FifoChains, IsChain
  <2>2. r.head[p] = e.head[from(p)]
    BY <1>6, <1>9, <2>1
  <2>3. r.tail[p] = e.tail[from(p)]
    BY <1>6, <1>9, <2>1
  <2>4. r.count[p] = e.count[from(p)]
    BY <1>6, <1>9, <2>1
  <2>5. later[p] = left[from(p)]
    BY <1>5
  <2> QED BY <2>2, <2>3, <2>4, <2>5
<1>11. later \in [Objects -> Seq(Cells)]
  BY <1>5
<1>12. later[q] = chain[other] /\ later[other] = <<>> /\ \A p \in Objects \ {q, other} : later[p] = chain[p]
  BY <1>5
<1> HIDE DEF later, from, heads, tails, counts
<1>13. FifoChains(r, later)
  <2>1. \A p \in Objects :
          /\ IsChain(r.node, r.head[p], later[p])
          /\ r.tail[p] = IF later[p] = <<>> THEN Null ELSE later[p][Len(later[p])]
          /\ r.count[p] = Len(later[p])
          /\ \A i \in 1 .. Len(later[p]) : r.node[later[p][i]].data \in Datum
    <3> TAKE p \in Objects
    <3> DEFINE o == from(p)
    <3>1. /\ IsChain(e.node, e.head[o], left[o])
          /\ e.tail[o] = IF left[o] = <<>> THEN Null ELSE left[o][Len(left[o])]
          /\ e.count[o] = Len(left[o])
          /\ \A i \in 1 .. Len(left[o]) : e.node[left[o][i]].data \in Datum
      BY <1>1, <1>10 DEF FifoChains
    <3>2. /\ r.node = e.node /\ later[p] = left[o] /\ r.head[p] = e.head[o]
          /\ r.tail[p] = e.tail[o] /\ r.count[p] = e.count[o]
      BY <1>9, <1>10
    <3> HIDE DEF o
    <3> QED BY <3>1, <3>2, Zenon
  <2>2. \A p, o \in Objects : p # o =>
          \A i \in 1 .. Len(later[p]), j \in 1 .. Len(later[o]) : later[p][i] # later[o][j]
    <3> SUFFICES ASSUME NEW p \in Objects, NEW o \in Objects, p # o,
                        NEW i \in 1 .. Len(later[p]), NEW j \in 1 .. Len(later[o])
                 PROVE  later[p][i] # later[o][j]
      OBVIOUS
    <3>1. from(p) # from(o)
      BY <1>10
    <3> QED BY <1>1, <1>10, <3>1 DEF FifoChains
  <2>3. \A x \in Cells : (\A p \in Objects : \A i \in 1 .. Len(later[p]) : later[p][i] # x) =>
                          r.node[x] = Fifo!Freed
    <3> SUFFICES ASSUME NEW x \in Cells,
                        \A p \in Objects : \A i \in 1 .. Len(later[p]) : later[p][i] # x
                 PROVE  r.node[x] = Fifo!Freed
      OBVIOUS
    <3>1. \A p \in Objects : \A i \in 1 .. Len(left[p]) : left[p][i] # x
      <4> TAKE p \in Objects
      <4>1. left[p] = later[from(p)] /\ from(p) \in Objects
        BY <1>10
      <4> QED BY <4>1
    <3> QED BY <1>1, <1>9, <3>1 DEF FifoChains
  <2> QED BY <1>9, <1>11, <2>1, <2>2, <2>3 DEF FifoChains
<1>14. FifoValues(r, later, q) = FifoValues(e, chain, other)
  BY <1>9, <1>12 DEF FifoValues
<1>15. FifoValues(r, later, other) = <<>>
  BY <1>12, NoValues
<1>16. ASSUME NEW p \in Objects \ {q, other} PROVE FifoValues(r, later, p) = FifoValues(e, chain, p)
  BY <1>9, <1>12 DEF FifoValues
<1>17. \A p \in Objects \ {q} : FifoValues(e, chain, p) = FifoValues(m, chain, p)
  BY <1>1
<1>18. /\ FifoValues(r, later, q) = FifoValues(m, chain, other)
       /\ \A p \in Objects \ {q, other} : FifoValues(r, later, p) = FifoValues(m, chain, p)
  BY <1>14, <1>16, <1>17
<1> QED BY <1>13, <1>15, <1>18

-----------------------------------------------------------------------------
(* Copying a queue.                                                        *)

IsCopied(f, k, m, q, values) ==
  f = [i \in 0 .. k |-> IF i = 0 THEN Fifo!Clear(m, q) ELSE Fifo!Enqueue(f[i - 1], q, values[i])]

(* The function that tells the steps of a copy exists.                     *)
LEMMA CopiedExists ==
  ASSUME NEW m, NEW q, NEW values, NEW n \in Nat
  PROVE  \E f : IsCopied(f, n, m, q, values)
<1> DEFINE P == {k \in Nat : \E f : IsCopied(f, k, m, q, values)}
<1>1. 0 \in P
  <2> DEFINE f == [i \in 0 .. 0 |-> Fifo!Clear(m, q)]
  <2>1. IsCopied(f, 0, m, q, values)
    BY DEF IsCopied
  <2> QED BY <2>1
<1>2. ASSUME NEW k \in Nat, k \in P PROVE k + 1 \in P
  <2>1. PICK g : IsCopied(g, k, m, q, values)
    BY <1>2
  <2> DEFINE f == [i \in 0 .. k + 1 |-> IF i = k + 1 THEN Fifo!Enqueue(g[k], q, values[k + 1]) ELSE g[i]]
             Start == Fifo!Clear(m, q)
             Then(x, i) == Fifo!Enqueue(x, q, values[i])
  <2>2. \A i \in 0 .. k : g[i] = IF i = 0 THEN Start ELSE Then(g[i - 1], i)
    BY <2>1 DEF IsCopied
  <2>3. f = [i \in 0 .. k + 1 |-> IF i = k + 1 THEN Then(g[k], k + 1) ELSE g[i]]
    OBVIOUS
  <2> HIDE DEF Start, Then, f
  <2>4. \A i \in 0 .. k + 1 : f[i] = IF i = 0 THEN Start ELSE Then(f[i - 1], i)
    <3> TAKE i \in 0 .. k + 1
    <3>1. CASE i = k + 1
      <4>1. f[i] = Then(g[k], k + 1) /\ f[i - 1] = g[k] /\ i # 0 /\ i - 1 = k
        BY <2>3, <3>1
      <4> QED BY <3>1, <4>1
    <3>2. CASE i \in 1 .. k
      <4>1. f[i] = g[i] /\ f[i - 1] = g[i - 1] /\ i # 0 /\ i \in 0 .. k
        BY <2>3, <3>2
      <4> QED BY <2>2, <4>1
    <3>3. CASE i = 0
      <4>1. f[i] = g[i] /\ i \in 0 .. k
        BY <2>3, <3>3
      <4> QED BY <2>2, <3>3, <4>1
    <3> QED BY <3>1, <3>2, <3>3
  <2>5. f = [i \in 0 .. k + 1 |-> IF i = 0 THEN Start ELSE Then(f[i - 1], i)]
    <3>1. f = [i \in 0 .. k + 1 |-> f[i]]
      BY <2>3
    <3> QED BY <2>4, <3>1
  <2>6. IsCopied(f, k + 1, m, q, values)
    BY <2>5, Zenon DEF IsCopied, Start, Then
  <2> QED BY <2>6
<1> HIDE DEF P
<1>3. n \in P
  BY <1>1, <1>2, NatInductionOnSet
<1> QED BY <1>3 DEF P

(* Copying a queue is a clear and then one enqueue for each value.         *)
LEMMA CopyAssignSteps ==
  ASSUME NEW m, NEW q, NEW other, NEW values, values = Fifo!Waiting(m, other), Len(values) \in Nat
  PROVE  \E copied :
           /\ Fifo!CopyAssign(m, q, other) = copied[Len(values)]
           /\ copied[0] = Fifo!Clear(m, q)
           /\ \A i \in 1 .. Len(values) : copied[i] = Fifo!Enqueue(copied[i - 1], q, values[i])
<1> DEFINE n == Len(values)
           copied == CHOOSE f : IsCopied(f, n, m, q, values)
<1>1. Fifo!CopyAssign(m, q, other) = copied[n]
  BY Zenon DEF Fifo!CopyAssign, IsCopied
<1>2. IsCopied(copied, n, m, q, values)
  BY CopiedExists
<1> HIDE DEF copied, n
<1> DEFINE Start == Fifo!Clear(m, q)
           Then(x, i) == Fifo!Enqueue(x, q, values[i])
<1>3. copied = [i \in 0 .. n |-> IF i = 0 THEN Start ELSE Then(copied[i - 1], i)]
  BY <1>2, Zenon DEF IsCopied
<1> HIDE DEF Start, Then
<1>4. n \in Nat
  BY DEF n
<1>5. copied[0] = Start /\ \A i \in 1 .. n : copied[i] = Then(copied[i - 1], i)
  <2>1. \A i \in 0 .. n : copied[i] = IF i = 0 THEN Start ELSE Then(copied[i - 1], i)
    <3> DEFINE g == [i \in 0 .. n |-> IF i = 0 THEN Start ELSE Then(copied[i - 1], i)]
    <3>1. copied = g /\ \A i \in 0 .. n : g[i] = IF i = 0 THEN Start ELSE Then(copied[i - 1], i)
      BY <1>3
    <3> HIDE DEF g
    <3> QED BY <3>1
  <2> QED BY <1>4, <2>1
<1> QED BY <1>1, <1>5 DEF n, Start, Then

(* A prefix followed by the next element is the next prefix.               *)
LEMMA PrefixGrows ==
  ASSUME NEW s, Len(s) \in Nat, NEW k \in Nat, k + 1 <= Len(s), NEW S, \A i \in 1 .. Len(s) : s[i] \in S
  PROVE  Append([i \in 1 .. k |-> s[i]], s[k + 1]) = [i \in 1 .. k + 1 |-> s[i]]
<1> DEFINE p == [i \in 1 .. k |-> s[i]]
           a == [i \in 1 .. k + 1 |-> s[i]]
<1>1. p \in Seq(S) /\ Len(p) = k /\ s[k + 1] \in S
  OBVIOUS
<1>2. a = [i \in 1 .. k + 1 |-> IF i = k + 1 THEN s[k + 1] ELSE p[i]]
  OBVIOUS
<1> HIDE DEF p, a
<1>3. a = Append(p, s[k + 1])
  BY <1>1, <1>2, AppendedIs
<1> QED BY <1>3 DEF p, a

(* There are finitely many free cells.                                     *)
LEMMA FifoFree ==
  ASSUME NEW m
  PROVE  IsFiniteSet(Fifo!FreeCells(m)) /\ Cardinality(Fifo!FreeCells(m)) \in Nat
<1>1. Fifo!FreeCells(m) \subseteq Cells
  BY DEF Fifo!FreeCells
<1> QED BY <1>1, FS_Subset, FS_CardinalityType, ContainersAssumption

(* Queue::clear makes as many cells free as the queue held.                *)
LEMMA ClearFrees ==
  ASSUME NEW m, NEW chain, FifoChains(m, chain), NEW q \in Objects, NEW r, r = Fifo!Clear(m, q)
  PROVE  Cardinality(Fifo!FreeCells(r)) = Cardinality(Fifo!FreeCells(m)) + m.count[q]
<1> DEFINE F == Fifo!FreeCells(m)
           C == ChainCells(chain, q)
<1>1. Fifo!FreeCells(r) = F \cup C
  BY ClearEmpties
<1>2. Cardinality(C) = m.count[q]
  BY FifoNodes, ChainFits DEF ChainCells
<1>3. F \cap C = {}
  BY FifoOnChain DEF ChainCells
<1>4. IsFiniteSet(F) /\ IsFiniteSet(C)
  <2>1. C \subseteq Cells
    BY FifoNodes DEF ChainCells
  <2> QED BY <2>1, FifoFree, FS_Subset, ContainersAssumption
<1> HIDE DEF F, C
<1>5. Cardinality(F \cap C) = 0
  BY <1>3, FS_EmptySet
<1>6. Cardinality(F) \in Nat /\ Cardinality(C) \in Nat
  BY <1>4, FS_CardinalityType
<1>7. Cardinality(F \cup C) = Cardinality(F) + Cardinality(C) - Cardinality(F \cap C)
  BY <1>4, FS_Union
<1>8. Cardinality(F \cup C) = Cardinality(F) + Cardinality(C)
  BY <1>5, <1>6, <1>7
<1> QED BY <1>1, <1>2, <1>8 DEF F

(* Copying a queue makes this one hold what the other holds.               *)
LEMMA CopyAssignCopies ==
  ASSUME NEW m, NEW chain, FifoChains(m, chain), NEW q \in Objects, NEW other \in Objects, q # other,
         m.count[other] <= Cardinality(Fifo!FreeCells(m)) + m.count[q],
         NEW r, r = Fifo!CopyAssign(m, q, other)
  PROVE  \E later :
           /\ FifoChains(r, later)
           /\ FifoValues(r, later, q) = FifoValues(m, chain, other)
           /\ \A p \in Objects \ {q} : FifoValues(r, later, p) = FifoValues(m, chain, p)
<1> DEFINE values == FifoValues(m, chain, other)
           n == Len(chain[other])
           free == Cardinality(Fifo!FreeCells(m)) + m.count[q]
           Prefix(k) == [i \in 1 .. k |-> values[i]]
<1>1. /\ n \in Nat /\ Len(values) = n /\ values = [i \in 1 .. n |-> values[i]]
      /\ \A i \in 1 .. n : values[i] \in Datum
  BY FifoNodes DEF FifoValues
<1>2. values = Fifo!Waiting(m, other)
  BY FifoWaitingIs
<1>3. m.count[other] = n /\ m.count[q] \in Nat
  BY FifoNodes
<1>4. n <= free /\ free \in Nat
  BY <1>3, FifoFree
<1> HIDE DEF values, n, free
<1>5. PICK copied :
        /\ r = copied[n]
        /\ copied[0] = Fifo!Clear(m, q)
        /\ \A i \in 1 .. n : copied[i] = Fifo!Enqueue(copied[i - 1], q, values[i])
  BY <1>1, <1>2, CopyAssignSteps
<1> DEFINE Fine(k) == \E ch : /\ FifoChains(copied[k], ch)
                              /\ FifoValues(copied[k], ch, q) = Prefix(k)
                              /\ \A p \in Objects \ {q} : FifoValues(copied[k], ch, p) = FifoValues(m, chain, p)
                              /\ Cardinality(Fifo!FreeCells(copied[k])) = free - k
           P == {k \in Nat : k <= n => Fine(k)}
<1>6. 0 \in P
  <2> DEFINE ch == Without(chain, q)
             e == copied[0]
  <2>1. e = Fifo!Clear(m, q)
    BY <1>5
  <2> HIDE DEF e
  <2>2. chain \in [Objects -> Seq(Cells)]
    BY DEF FifoChains
  <2>3. FifoChains(e, ch) /\ \A p \in Objects \ {q} : FifoValues(e, chain, p) = FifoValues(m, chain, p)
    BY <2>1, ClearEmpties
  <2>4. ch[q] = <<>> /\ \A p \in Objects \ {q} : ch[p] = chain[p]
    BY <2>2 DEF Without
  <2> HIDE DEF ch
  <2>5. FifoValues(e, ch, q) = <<>>
    BY <2>4, NoValues
  <2>6. Prefix(0) = <<>>
    OBVIOUS
  <2>7. \A p \in Objects \ {q} : FifoValues(e, ch, p) = FifoValues(m, chain, p)
    <3>1. \A p \in Objects \ {q} : FifoValues(e, ch, p) = FifoValues(e, chain, p)
      BY <2>4 DEF FifoValues
    <3> QED BY <2>3, <3>1
  <2>8. Cardinality(Fifo!FreeCells(e)) = free - 0
    <3>1. Cardinality(Fifo!FreeCells(e)) = free
      BY <2>1, ClearFrees DEF free
    <3> QED BY <1>4, <3>1
  <2> HIDE DEF Prefix
  <2>9. Fine(0)
    BY <2>3, <2>5, <2>6, <2>7, <2>8, Zenon DEF e
  <2> QED BY <2>9
<1>7. ASSUME NEW k \in Nat, k \in P PROVE k + 1 \in P
  <2> SUFFICES ASSUME k + 1 <= n PROVE Fine(k + 1)
    OBVIOUS
  <2>1. k <= n /\ k + 1 \in 1 .. n /\ (k + 1) - 1 = k
    BY <1>1
  <2> DEFINE a == copied[k]
             b == copied[k + 1]
             v == values[k + 1]
  <2>2. PICK ch : /\ FifoChains(a, ch)
                  /\ FifoValues(a, ch, q) = Prefix(k)
                  /\ \A p \in Objects \ {q} : FifoValues(a, ch, p) = FifoValues(m, chain, p)
                  /\ Cardinality(Fifo!FreeCells(a)) = free - k
    BY <1>7, <2>1
  <2>3. b = Fifo!Enqueue(a, q, v) /\ v \in Datum
    BY <1>1, <1>5, <2>1
  <2>4. Fifo!FreeCells(a) # {}
    <3>1. free - k > 0
      BY <1>1, <1>4, <2>1
    <3>2. Fifo!FreeCells(a) = {} => Cardinality(Fifo!FreeCells(a)) = 0
      BY FS_EmptySet, Zenon
    <3> HIDE DEF a
    <3> QED BY <2>2, <3>1, <3>2
  <2>5. Append(Prefix(k), v) = Prefix(k + 1)
    BY <1>1, <2>1, PrefixGrows
  <2> HIDE DEF a, b, v, Prefix
  <2>6. PICK later :
           /\ FifoChains(b, later)
           /\ FifoValues(b, later, q) = Append(FifoValues(a, ch, q), v)
           /\ \A p \in Objects \ {q} : FifoValues(b, later, p) = FifoValues(a, ch, p)
           /\ \E c \in Fifo!FreeCells(a) : Fifo!FreeCells(b) = Fifo!FreeCells(a) \ {c}
    <3>1. FifoChains(a, ch)
      BY <2>2
    <3> QED BY <2>3, <2>4, <3>1, EnqueueAppends
  <2>7. FifoValues(b, later, q) = Prefix(k + 1)
    BY <2>2, <2>5, <2>6
  <2>8. \A p \in Objects \ {q} : FifoValues(b, later, p) = FifoValues(m, chain, p)
    BY <2>2, <2>6
  <2>9. Cardinality(Fifo!FreeCells(b)) = free - (k + 1)
    <3>1. Cardinality(Fifo!FreeCells(b)) = Cardinality(Fifo!FreeCells(a)) - 1
      BY <2>6, FifoFree, FS_RemoveElement
    <3>2. Cardinality(Fifo!FreeCells(a)) = free - k
      BY <2>2
    <3>3. \A x, y, z \in Int : z = x - y => z - 1 = x - (y + 1)
      OBVIOUS
    <3>4. free \in Int /\ k \in Int /\ free - k \in Int
      BY <1>4
    <3> QED BY <3>1, <3>2, <3>3, <3>4
  <2> QED BY <2>6, <2>7, <2>8, <2>9, Zenon DEF b
<1> HIDE DEF P
<1>8. n \in P
  BY <1>1, <1>6, <1>7, NatInductionOnSet
<1>9. Fine(n)
  BY <1>1, <1>8 DEF P
<1>10. Prefix(n) = values
  BY <1>1
<1> QED BY <1>5, <1>9, <1>10 DEF values

-----------------------------------------------------------------------------
(* The queues, together.                                                   *)

FifoInv == \E chain : FifoChains(fifo, chain)

FifoWaiting(m) == [q \in Objects |-> Fifo!Waiting(m, q)]

(* What waits in every queue, told by the chains.                          *)
LEMMA FifoWaitingAre ==
  ASSUME NEW m, NEW chain, FifoChains(m, chain)
  PROVE  FifoWaiting(m) = [q \in Objects |-> FifoValues(m, chain, q)]
  BY FifoWaitingIs DEF FifoWaiting

(* The counts are the lengths of what waits.                               *)
LEMMA FifoCounts ==
  ASSUME NEW m, NEW chain, FifoChains(m, chain)
  PROVE  m.count = [q \in Objects |-> Len(FifoWaiting(m)[q])]
<1>1. FifoWaiting(m) = [q \in Objects |-> FifoValues(m, chain, q)]
  BY FifoWaitingAre
<1>2. ASSUME NEW q \in Objects PROVE m.count[q] = Len(FifoWaiting(m)[q])
  <2>1. FifoWaiting(m)[q] = FifoValues(m, chain, q)
    BY <1>1
  <2>2. Len(FifoValues(m, chain, q)) = Len(chain[q])
    BY FifoNodes DEF FifoValues
  <2>3. m.count[q] = Len(chain[q])
    BY FifoNodes
  <2> QED BY <2>1, <2>2, <2>3
<1>3. m.count = [q \in Objects |-> m.count[q]]
  BY DEF FifoChains, FifoMemory
<1> QED BY <1>2, <1>3

(* The queues start empty.                                                 *)
LEMMA FifoStarts ==
  ASSUME Fifo!QueueInit
  PROVE  FifoInv /\ FifoWaiting(fifo) = [q \in Objects |-> <<>>]
<1> DEFINE chain == [q \in Objects |-> <<>>]
<1>1. /\ fifo = [node  |-> [c \in Cells |-> Fifo!Freed],
                 head  |-> [q \in Objects |-> Null],
                 tail  |-> [q \in Objects |-> Null],
                 count |-> [q \in Objects |-> 0]]
  BY DEF Fifo!QueueInit
<1>2. /\ fifo.node = [c \in Cells |-> Fifo!Freed]
      /\ fifo.head = [q \in Objects |-> Null]
      /\ fifo.tail = [q \in Objects |-> Null]
      /\ fifo.count = [q \in Objects |-> 0]
  BY <1>1
<1>3. fifo \in FifoMemory
  BY <1>1 DEF FifoMemory, Fifo!Freed
<1>4. chain \in [Objects -> Seq(Cells)] /\ \A q \in Objects : chain[q] = <<>>
  OBVIOUS
<1> HIDE DEF chain
<1>5. \A q \in Objects : /\ IsChain(fifo.node, fifo.head[q], chain[q])
                         /\ fifo.tail[q] = Null /\ fifo.count[q] = 0 /\ Len(chain[q]) = 0
  BY <1>2, <1>4 DEF IsChain
<1>6. FifoChains(fifo, chain)
  BY <1>2, <1>3, <1>4, <1>5 DEF FifoChains
<1>7. \A q \in Objects : FifoValues(fifo, chain, q) = <<>>
  BY <1>4, NoValues
<1>8. FifoWaiting(fifo) = [q \in Objects |-> FifoValues(fifo, chain, q)]
  BY <1>6, FifoWaitingAre
<1> QED BY <1>6, <1>7, <1>8 DEF FifoInv

(* What waits after a step that changes one queue.                         *)
LEMMA FifoBecomes ==
  ASSUME NEW m, NEW chain, FifoChains(m, chain), NEW r, NEW later, FifoChains(r, later),
         NEW q \in Objects, NEW s, FifoValues(r, later, q) = s,
         \A p \in Objects \ {q} : FifoValues(r, later, p) = FifoValues(m, chain, p)
  PROVE  FifoWaiting(r) = [FifoWaiting(m) EXCEPT ![q] = s]
<1>1. FifoWaiting(m) = [p \in Objects |-> FifoValues(m, chain, p)]
  BY FifoWaitingAre
<1>2. FifoWaiting(r) = [p \in Objects |-> FifoValues(r, later, p)]
  BY FifoWaitingAre
<1> QED BY <1>1, <1>2

(* Every step keeps the chains, and does to what waits what QueuesSpec     *)
(* does.                                                                   *)
LEMMA FifoStep ==
  ASSUME FifoInv, Fifo!QueueNext
  PROVE  /\ FifoInv'
         /\ \E q, p \in Objects : LET w == FifoWaiting(fifo) IN
              \/ \E v \in Datum : FifoWaiting(fifo') = [w EXCEPT ![q] = Append(w[q], v)]
              \/ w[q] # <<>> /\ FifoWaiting(fifo') = [w EXCEPT ![q] = Tail(w[q])]
              \/ FifoWaiting(fifo') = [w EXCEPT ![q] = <<>>]
              \/ FifoWaiting(fifo') = [w EXCEPT ![q] = w[p]]
              \/ q # p /\ FifoWaiting(fifo') = [w EXCEPT ![q] = w[p], ![p] = <<>>]
<1> DEFINE w == FifoWaiting(fifo)
           z == FifoWaiting(fifo')
<1>1. PICK chain : FifoChains(fifo, chain)
  BY DEF FifoInv
<1>2. \A q \in Objects : w[q] = FifoValues(fifo, chain, q)
  BY <1>1, FifoWaitingAre
<1> HIDE DEF w, z
<1>3. ASSUME NEW q \in Objects, Fifo!FreeCells(fifo) # {}, NEW v \in Datum,
             fifo' = Fifo!Enqueue(fifo, q, v)
      PROVE  FifoInv' /\ z = [w EXCEPT ![q] = Append(w[q], v)]
  <2>1. PICK later :
          /\ FifoChains(fifo', later)
          /\ FifoValues(fifo', later, q) = Append(FifoValues(fifo, chain, q), v)
          /\ \A p \in Objects \ {q} : FifoValues(fifo', later, p) = FifoValues(fifo, chain, p)
    BY <1>1, <1>3, EnqueueAppends
  <2> DEFINE s == Append(w[q], v)
  <2>2. FifoValues(fifo', later, q) = s
    BY <1>2, <2>1
  <2> HIDE DEF s
  <2>3. z = [w EXCEPT ![q] = s]
    BY <1>1, <2>1, <2>2, FifoBecomes DEF w, z
  <2> QED BY <2>1, <2>3 DEF FifoInv, s
<1>4. ASSUME NEW q \in Objects, fifo.count[q] > 0, fifo' = Fifo!Dequeue(fifo, q)
      PROVE  FifoInv' /\ w[q] # <<>> /\ z = [w EXCEPT ![q] = Tail(w[q])]
  <2>1. PICK later :
          /\ FifoChains(fifo', later)
          /\ FifoValues(fifo, chain, q) # <<>>
          /\ FifoValues(fifo', later, q) = Tail(FifoValues(fifo, chain, q))
          /\ \A p \in Objects \ {q} : FifoValues(fifo', later, p) = FifoValues(fifo, chain, p)
    BY <1>1, <1>4, DequeueTakes
  <2> DEFINE s == Tail(w[q])
  <2>2. FifoValues(fifo', later, q) = s
    BY <1>2, <2>1
  <2> HIDE DEF s
  <2>3. z = [w EXCEPT ![q] = s]
    BY <1>1, <2>1, <2>2, FifoBecomes DEF w, z
  <2> QED BY <1>2, <2>1, <2>3 DEF FifoInv, s
<1>5. ASSUME NEW q \in Objects, fifo' = Fifo!Clear(fifo, q)
      PROVE  FifoInv' /\ z = [w EXCEPT ![q] = <<>>]
  <2> DEFINE later == Without(chain, q)
  <2>1. /\ FifoChains(fifo', later)
        /\ \A p \in Objects \ {q} : FifoValues(fifo', chain, p) = FifoValues(fifo, chain, p)
    BY <1>1, <1>5, ClearEmpties
  <2>2. later[q] = <<>> /\ \A p \in Objects \ {q} : later[p] = chain[p]
    BY <1>1 DEF Without, FifoChains
  <2> HIDE DEF later
  <2>3. FifoValues(fifo', later, q) = <<>>
    BY <2>2, NoValues
  <2>4. \A p \in Objects \ {q} : FifoValues(fifo', later, p) = FifoValues(fifo', chain, p)
    BY <2>2 DEF FifoValues
  <2>5. \A p \in Objects \ {q} : FifoValues(fifo', later, p) = FifoValues(fifo, chain, p)
    BY <2>1, <2>4
  <2>6. z = [w EXCEPT ![q] = <<>>]
    BY <1>1, <2>1, <2>3, <2>5, FifoBecomes DEF w, z
  <2> QED BY <2>1, <2>6 DEF FifoInv
<1>6. ASSUME NEW q \in Objects, NEW p \in Objects, q # p,
             fifo.count[p] <= Cardinality(Fifo!FreeCells(fifo)) + fifo.count[q],
             fifo' = Fifo!CopyAssign(fifo, q, p)
      PROVE  FifoInv' /\ z = [w EXCEPT ![q] = w[p]]
  <2>1. PICK later :
          /\ FifoChains(fifo', later)
          /\ FifoValues(fifo', later, q) = FifoValues(fifo, chain, p)
          /\ \A o \in Objects \ {q} : FifoValues(fifo', later, o) = FifoValues(fifo, chain, o)
    BY <1>1, <1>6, CopyAssignCopies
  <2> DEFINE s == w[p]
  <2>2. FifoValues(fifo', later, q) = s
    BY <1>2, <2>1
  <2> HIDE DEF s
  <2>3. z = [w EXCEPT ![q] = s]
    BY <1>1, <2>1, <2>2, FifoBecomes DEF w, z
  <2> QED BY <2>1, <2>3 DEF FifoInv, s
<1>7. ASSUME NEW q \in Objects, NEW p \in Objects, q # p, fifo' = Fifo!MoveAssign(fifo, q, p)
      PROVE  FifoInv' /\ z = [w EXCEPT ![q] = w[p], ![p] = <<>>]
  <2>1. PICK later :
          /\ FifoChains(fifo', later)
          /\ FifoValues(fifo', later, q) = FifoValues(fifo, chain, p)
          /\ FifoValues(fifo', later, p) = <<>>
          /\ \A o \in Objects \ {q, p} : FifoValues(fifo', later, o) = FifoValues(fifo, chain, o)
    BY <1>1, <1>7, MoveAssignMoves
  <2>2. z = [o \in Objects |-> FifoValues(fifo', later, o)]
    BY <2>1, FifoWaitingAre DEF z
  <2>3. w = [o \in Objects |-> FifoValues(fifo, chain, o)]
    BY <1>1, FifoWaitingAre DEF w
  <2>4. z = [w EXCEPT ![q] = w[p], ![p] = <<>>]
    BY <1>7, <2>1, <2>2, <2>3
  <2> QED BY <2>1, <2>4 DEF FifoInv
<1>8. PICK q \in Objects :
        Fifo!ChangeQueue(q) \/ \E other \in Objects : Fifo!AssignQueue(q, other)
  BY DEF Fifo!QueueNext
<1>9. CASE Fifo!ChangeQueue(q)
  <2>1. CASE Fifo!FreeCells(fifo) # {} /\ \E v \in Datum : fifo' = Fifo!Enqueue(fifo, q, v)
    BY <1>3, <2>1 DEF w, z
  <2>2. CASE fifo.count[q] > 0 /\ fifo' = Fifo!Dequeue(fifo, q)
    BY <1>4, <2>2 DEF w, z
  <2>3. CASE fifo' = Fifo!Clear(fifo, q)
    BY <1>5, <2>3 DEF w, z
  <2> QED BY <1>9, <2>1, <2>2, <2>3 DEF Fifo!ChangeQueue
<1>10. CASE \E other \in Objects : Fifo!AssignQueue(q, other)
  <2>1. PICK p \in Objects : Fifo!AssignQueue(q, p)
    BY <1>10
  <2>2. q # p
    BY <2>1 DEF Fifo!AssignQueue
  <2>3. CASE /\ fifo.count[p] <= Cardinality(Fifo!FreeCells(fifo)) + fifo.count[q]
             /\ fifo' = Fifo!CopyAssign(fifo, q, p)
    BY <1>6, <2>2, <2>3 DEF w, z
  <2>4. CASE fifo' = Fifo!MoveAssign(fifo, q, p)
    BY <1>7, <2>2, <2>4 DEF w, z
  <2>5. Fifo!Cardinality(Fifo!FreeCells(fifo)) = Cardinality(Fifo!FreeCells(fifo))
    BY FifoCardinality
  <2> QED BY <2>1, <2>3, <2>4, <2>5 DEF Fifo!AssignQueue
<1> QED BY <1>8, <1>9, <1>10

(* Queue: whatever is enqueued, dequeued, cleared, copied and moved, in    *)
(* any order, the queues are first in, first out: they implement           *)
(* QueuesSpec.                                                             *)
THEOREM QueuesImplementTheirSpecification == ContainersSpec => QueuesAreFifo
<1>1. ContainersInit => FifoInv /\ Fifo!Abstract!QueuesInit
  <2> SUFFICES ASSUME ContainersInit PROVE FifoInv /\ Fifo!Abstract!QueuesInit
    OBVIOUS
  <2>1. FifoInv /\ FifoWaiting(fifo) = [q \in Objects |-> <<>>]
    BY FifoStarts DEF ContainersInit
  <2>2. fifo.count = [q \in Objects |-> Len(FifoWaiting(fifo)[q])]
    BY <2>1, FifoCounts DEF FifoInv
  <2> QED BY <2>1, <2>2 DEF Fifo!Abstract!QueuesInit, Fifo!Abstract!Counted, FifoWaiting
<1>2. FifoInv /\ [ContainersNext]_<<list, fifo, maps>> => FifoInv'
  <2> SUFFICES ASSUME FifoInv, [ContainersNext]_<<list, fifo, maps>> PROVE FifoInv'
    OBVIOUS
  <2>1. CASE Fifo!QueueNext
    BY <2>1, FifoStep
  <2>2. CASE UNCHANGED fifo
    BY <2>2 DEF FifoInv
  <2> QED BY <2>1, <2>2 DEF ContainersNext
<1>3. FifoInv /\ FifoInv' /\ [ContainersNext]_<<list, fifo, maps>> =>
        [Fifo!Abstract!QueuesNext]_<<FifoWaiting(fifo), fifo.count>>
  <2> SUFFICES ASSUME FifoInv, FifoInv', [ContainersNext]_<<list, fifo, maps>>
               PROVE  [Fifo!Abstract!QueuesNext]_<<FifoWaiting(fifo), fifo.count>>
    OBVIOUS
  <2>1. CASE Fifo!QueueNext
    <3>1. fifo'.count = [q \in Objects |-> Len(FifoWaiting(fifo')[q])]
      BY FifoCounts DEF FifoInv
    <3>2. PICK q \in Objects, p \in Objects : LET w == FifoWaiting(fifo) IN
              \/ \E v \in Datum : FifoWaiting(fifo') = [w EXCEPT ![q] = Append(w[q], v)]
              \/ w[q] # <<>> /\ FifoWaiting(fifo') = [w EXCEPT ![q] = Tail(w[q])]
              \/ FifoWaiting(fifo') = [w EXCEPT ![q] = <<>>]
              \/ FifoWaiting(fifo') = [w EXCEPT ![q] = w[p]]
              \/ q # p /\ FifoWaiting(fifo') = [w EXCEPT ![q] = w[p], ![p] = <<>>]
      BY <2>1, FifoStep
    <3>3. Fifo!Abstract!QueuesNext
      BY <3>1, <3>2, Zenon DEF Fifo!Abstract!QueuesNext, Fifo!Abstract!Counted, Fifo!Abstract!Arrive, Fifo!Abstract!Leave,
         Fifo!Abstract!Empty, Fifo!Abstract!Copy, Fifo!Abstract!Move, Fifo!Abstract!Becomes, FifoWaiting
    <3> QED BY <3>3
  <2>2. CASE UNCHANGED fifo
    BY <2>2 DEF FifoWaiting
  <2> QED BY <2>1, <2>2 DEF ContainersNext
<1>4. QueuesAreFifo <=> Fifo!Abstract!QueuesInit /\ [][Fifo!Abstract!QueuesNext]_<<FifoWaiting(fifo), fifo.count>>
  BY Zenon DEF QueuesAreFifo, Fifo!ImplementsQueues, Fifo!Abstract!FirstInFirstOut, FifoWaiting
<1> QED BY <1>1, <1>2, <1>3, <1>4, PTL DEF ContainersSpec

-----------------------------------------------------------------------------
(* The memory of the lists, and writes to it.                              *)

ListMemory ==
  [node  : [Cells -> [data : Datum \cup {Null}, prev : Cells \cup {Null}, next : Cells \cup {Null}]],
   head  : [Objects -> Cells \cup {Null}],
   tail  : [Objects -> Cells \cup {Null}],
   count : [Objects -> Nat]]

(* What a node or a list can point at.                                    *)
Pointers == Cells \cup {Null}

DataOf(m, c) == m.node[c].data
PrevOf(m, c) == m.node[c].prev
NextOf(m, c) == m.node[c].next
HeadOf(m, l) == m.head[l]
TailOf(m, l) == m.tail[l]
CountOf(m, l) == m.count[l]

(* The fields of a memory of lists.                                        *)
LEMMA ListFields ==
  ASSUME NEW m \in ListMemory
  PROVE  /\ m.node \in [Cells -> [data : Datum \cup {Null}, prev : Cells \cup {Null}, next : Cells \cup {Null}]]
         /\ m.head \in [Objects -> Cells \cup {Null}]
         /\ m.tail \in [Objects -> Cells \cup {Null}]
         /\ m.count \in [Objects -> Nat]
         /\ \A c \in Cells : /\ DataOf(m, c) \in Datum \cup {Null}
                             /\ PrevOf(m, c) \in Cells \cup {Null}
                             /\ NextOf(m, c) \in Cells \cup {Null}
         /\ \A l \in Objects : /\ HeadOf(m, l) \in Cells \cup {Null}
                               /\ TailOf(m, l) \in Cells \cup {Null}
                               /\ CountOf(m, l) \in Nat
<1>1. /\ m.node \in [Cells -> [data : Datum \cup {Null}, prev : Cells \cup {Null}, next : Cells \cup {Null}]]
      /\ m.head \in [Objects -> Cells \cup {Null}]
      /\ m.tail \in [Objects -> Cells \cup {Null}]
      /\ m.count \in [Objects -> Nat]
  BY DEF ListMemory
<1>2. \A c \in Cells : /\ DataOf(m, c) \in Datum \cup {Null}
                       /\ PrevOf(m, c) \in Cells \cup {Null}
                       /\ NextOf(m, c) \in Cells \cup {Null}
  BY <1>1 DEF DataOf, PrevOf, NextOf
<1>3. \A l \in Objects : /\ HeadOf(m, l) \in Cells \cup {Null}
                         /\ TailOf(m, l) \in Cells \cup {Null}
                         /\ CountOf(m, l) \in Nat
  BY <1>1 DEF HeadOf, TailOf, CountOf
<1> QED BY <1>1, <1>2, <1>3

NodeMaps ==
  [Cells -> [data : Datum \cup {Null}, prev : Cells \cup {Null}, next : Cells \cup {Null}]]

(* The fields of a memory of which only the nodes are new.                 *)
WithNodes(m, nodes) == [m EXCEPT !.node = nodes]

(* A memory of lists with other nodes is one.                              *)
LEMMA NodesReplaced ==
  ASSUME NEW m \in ListMemory, NEW r,
         NEW nodes \in NodeMaps, r = WithNodes(m, nodes)
  PROVE  /\ r \in ListMemory
         /\ r.node = nodes
         /\ \A l \in Objects : /\ HeadOf(r, l) = HeadOf(m, l) /\ TailOf(r, l) = TailOf(m, l)
                               /\ CountOf(r, l) = CountOf(m, l)
<1>1. r \in ListMemory
  BY DEF ListMemory, WithNodes, NodeMaps
<1>2. r.node = nodes /\ r.head = m.head /\ r.tail = m.tail /\ r.count = m.count
  BY DEF ListMemory, WithNodes, NodeMaps
<1> QED BY <1>1, <1>2 DEF HeadOf, TailOf, CountOf

(* A node is written.                                                      *)
LEMMA NodeWritten ==
  ASSUME NEW m \in ListMemory, NEW r, NEW c \in Cells,
         NEW d \in Datum \cup {Null}, NEW p \in Pointers, NEW n \in Pointers,
         r = [m EXCEPT !.node[c] = [data |-> d, prev |-> p, next |-> n]]
  PROVE  /\ r \in ListMemory
         /\ \A x \in Cells : /\ DataOf(r, x) = IF x = c THEN d ELSE DataOf(m, x)
                             /\ PrevOf(r, x) = IF x = c THEN p ELSE PrevOf(m, x)
                             /\ NextOf(r, x) = IF x = c THEN n ELSE NextOf(m, x)
         /\ \A l \in Objects : /\ HeadOf(r, l) = HeadOf(m, l) /\ TailOf(r, l) = TailOf(m, l)
                               /\ CountOf(r, l) = CountOf(m, l)
<1> USE DEF Pointers
<1> DEFINE new == [data |-> d, prev |-> p, next |-> n]
           nodes == [m.node EXCEPT ![c] = new]
<1>1. nodes \in NodeMaps
  BY ListFields DEF NodeMaps
<1>2. r = WithNodes(m, nodes)
  BY DEF WithNodes
<1>3. new.data = d /\ new.prev = p /\ new.next = n
  OBVIOUS
<1>4. \A x \in Cells : nodes[x] = IF x = c THEN new ELSE m.node[x]
  BY ListFields
<1> HIDE DEF nodes, new
<1>5. /\ r \in ListMemory
      /\ r.node = nodes
      /\ \A l \in Objects : /\ HeadOf(r, l) = HeadOf(m, l) /\ TailOf(r, l) = TailOf(m, l)
                            /\ CountOf(r, l) = CountOf(m, l)
  BY <1>1, <1>2, NodesReplaced
<1>6. \A x \in Cells : /\ DataOf(r, x) = IF x = c THEN d ELSE DataOf(m, x)
                       /\ PrevOf(r, x) = IF x = c THEN p ELSE PrevOf(m, x)
                       /\ NextOf(r, x) = IF x = c THEN n ELSE NextOf(m, x)
  <2> TAKE x \in Cells
  <2>1. CASE x = c
    <3>1. r.node[x] = new
      BY <1>4, <1>5, <2>1
    <3>2. DataOf(r, x) = d /\ PrevOf(r, x) = p /\ NextOf(r, x) = n
      BY <1>3, <3>1, Zenon DEF DataOf, PrevOf, NextOf
    <3> QED BY <2>1, <3>2
  <2>2. CASE x # c
    <3>1. r.node[x] = m.node[x]
      BY <1>4, <1>5, <2>2
    <3>2. DataOf(r, x) = DataOf(m, x) /\ PrevOf(r, x) = PrevOf(m, x) /\ NextOf(r, x) = NextOf(m, x)
      BY <3>1, Zenon DEF DataOf, PrevOf, NextOf
    <3> QED BY <2>2, <3>2
  <2> QED BY <2>1, <2>2
<1> QED BY <1>5, <1>6

(* Writing a node's next pointer, when there is a node.                    *)
LEMMA LinkedNext ==
  ASSUME NEW m \in ListMemory, NEW pointer \in Pointers, NEW to \in Pointers,
         NEW r, r = List!Linked(m, pointer, "next", to)
  PROVE  /\ r \in ListMemory
         /\ \A x \in Cells : /\ DataOf(r, x) = DataOf(m, x)
                             /\ PrevOf(r, x) = PrevOf(m, x)
                             /\ NextOf(r, x) = IF x = pointer THEN to ELSE NextOf(m, x)
         /\ \A l \in Objects : /\ HeadOf(r, l) = HeadOf(m, l) /\ TailOf(r, l) = TailOf(m, l)
                               /\ CountOf(r, l) = CountOf(m, l)
<1> USE DEF Pointers
<1>1. CASE pointer = Null
  BY <1>1, ContainersAssumption DEF List!Linked
<1>2. CASE pointer # Null
  <2>1. pointer \in Cells
    BY <1>2
  <2> DEFINE nodes == [m.node EXCEPT ![pointer] = [m.node[pointer] EXCEPT !.next = to]]
             new == [m.node[pointer] EXCEPT !.next = to]
             Kind == [data : Datum \cup {Null}, prev : Cells \cup {Null}, next : Cells \cup {Null}]
  <2>2. r = WithNodes(m, nodes)
    BY <1>2 DEF List!Linked, WithNodes
  <2>3. m.node[pointer] \in Kind /\ m.node \in [Cells -> Kind]
    BY <2>1, ListFields
  <2>4. /\ new \in Kind /\ new.data = m.node[pointer].data /\ new.prev = m.node[pointer].prev
        /\ new.next = to
    BY <2>3
  <2>5. nodes = [m.node EXCEPT ![pointer] = new]
    OBVIOUS
  <2> HIDE DEF new
  <2>6. nodes \in NodeMaps
    <3>1. NodeMaps = [Cells -> Kind]
      BY DEF NodeMaps
    <3> HIDE DEF Kind
    <3> QED BY <2>3, <2>4, <2>5, <3>1
  <2>7. \A x \in Cells : nodes[x] = IF x = pointer THEN new ELSE m.node[x]
    <3> HIDE DEF Kind, nodes
    <3> QED BY <2>3, <2>5
  <2> HIDE DEF nodes
  <2>8. /\ r \in ListMemory
        /\ r.node = nodes
        /\ \A l \in Objects : /\ HeadOf(r, l) = HeadOf(m, l) /\ TailOf(r, l) = TailOf(m, l)
                              /\ CountOf(r, l) = CountOf(m, l)
    BY <2>2, <2>6, NodesReplaced
  <2>9. \A x \in Cells : /\ DataOf(r, x) = DataOf(m, x)
                         /\ PrevOf(r, x) = PrevOf(m, x)
                         /\ NextOf(r, x) = IF x = pointer THEN to ELSE NextOf(m, x)
    BY <2>4, <2>7, <2>8, Zenon DEF DataOf, PrevOf, NextOf
  <2> QED BY <2>8, <2>9
<1> QED BY <1>1, <1>2

(* Writing a node's prev pointer, when there is a node.                    *)
LEMMA LinkedPrev ==
  ASSUME NEW m \in ListMemory, NEW pointer \in Pointers, NEW to \in Pointers,
         NEW r, r = List!Linked(m, pointer, "prev", to)
  PROVE  /\ r \in ListMemory
         /\ \A x \in Cells : /\ DataOf(r, x) = DataOf(m, x)
                             /\ PrevOf(r, x) = IF x = pointer THEN to ELSE PrevOf(m, x)
                             /\ NextOf(r, x) = NextOf(m, x)
         /\ \A l \in Objects : /\ HeadOf(r, l) = HeadOf(m, l) /\ TailOf(r, l) = TailOf(m, l)
                               /\ CountOf(r, l) = CountOf(m, l)
<1> USE DEF Pointers
<1>1. CASE pointer = Null
  BY <1>1, ContainersAssumption DEF List!Linked
<1>2. CASE pointer # Null
  <2>1. pointer \in Cells
    BY <1>2
  <2> DEFINE nodes == [m.node EXCEPT ![pointer] = [m.node[pointer] EXCEPT !.prev = to]]
             new == [m.node[pointer] EXCEPT !.prev = to]
             Kind == [data : Datum \cup {Null}, prev : Cells \cup {Null}, next : Cells \cup {Null}]
  <2>2. r = WithNodes(m, nodes)
    BY <1>2 DEF List!Linked, WithNodes
  <2>3. m.node[pointer] \in Kind /\ m.node \in [Cells -> Kind]
    BY <2>1, ListFields
  <2>4. /\ new \in Kind /\ new.data = m.node[pointer].data /\ new.next = m.node[pointer].next
        /\ new.prev = to
    BY <2>3
  <2>5. nodes = [m.node EXCEPT ![pointer] = new]
    OBVIOUS
  <2> HIDE DEF new
  <2>6. nodes \in NodeMaps
    <3>1. NodeMaps = [Cells -> Kind]
      BY DEF NodeMaps
    <3> HIDE DEF Kind
    <3> QED BY <2>3, <2>4, <2>5, <3>1
  <2>7. \A x \in Cells : nodes[x] = IF x = pointer THEN new ELSE m.node[x]
    <3> HIDE DEF Kind, nodes
    <3> QED BY <2>3, <2>5
  <2> HIDE DEF nodes
  <2>8. /\ r \in ListMemory
        /\ r.node = nodes
        /\ \A l \in Objects : /\ HeadOf(r, l) = HeadOf(m, l) /\ TailOf(r, l) = TailOf(m, l)
                              /\ CountOf(r, l) = CountOf(m, l)
    BY <2>2, <2>6, NodesReplaced
  <2>9. \A x \in Cells : /\ DataOf(r, x) = DataOf(m, x)
                         /\ PrevOf(r, x) = IF x = pointer THEN to ELSE PrevOf(m, x)
                         /\ NextOf(r, x) = NextOf(m, x)
    BY <2>4, <2>7, <2>8, Zenon DEF DataOf, PrevOf, NextOf
  <2> QED BY <2>8, <2>9
<1> QED BY <1>1, <1>2

(* Writing head, tail and count of a list.                                 *)
LEMMA RecountedIs ==
  ASSUME NEW m \in ListMemory, NEW l \in Objects, NEW h \in Pointers, NEW t \in Pointers,
         NEW change \in Int, CountOf(m, l) + change \in Nat,
         NEW r, r = List!Recounted(m, l, h, t, change)
  PROVE  /\ r \in ListMemory
         /\ \A x \in Cells : /\ DataOf(r, x) = DataOf(m, x)
                             /\ PrevOf(r, x) = PrevOf(m, x)
                             /\ NextOf(r, x) = NextOf(m, x)
         /\ \A k \in Objects : /\ HeadOf(r, k) = IF k = l THEN h ELSE HeadOf(m, k)
                               /\ TailOf(r, k) = IF k = l THEN t ELSE TailOf(m, k)
                               /\ CountOf(r, k) = IF k = l THEN CountOf(m, l) + change ELSE CountOf(m, k)
<1> USE DEF Pointers
<1> DEFINE heads == [m.head EXCEPT ![l] = h]
           tails == [m.tail EXCEPT ![l] = t]
           counts == [m.count EXCEPT ![l] = @ + change]
<1>1. r = [m EXCEPT !.head = heads, !.tail = tails, !.count = counts]
  BY DEF List!Recounted
<1>2. heads \in [Objects -> Cells \cup {Null}] /\ tails \in [Objects -> Cells \cup {Null}]
  BY ListFields
<1>3. counts \in [Objects -> Nat]
  BY ListFields DEF CountOf
<1>4. \A k \in Objects : /\ heads[k] = IF k = l THEN h ELSE m.head[k]
                         /\ tails[k] = IF k = l THEN t ELSE m.tail[k]
  BY ListFields
<1>5. \A k \in Objects : counts[k] = IF k = l THEN m.count[l] + change ELSE m.count[k]
  BY ListFields
<1> HIDE DEF heads, tails, counts
<1>6. r \in ListMemory
  BY <1>1, <1>2, <1>3 DEF ListMemory
<1>7. r.node = m.node /\ r.head = heads /\ r.tail = tails /\ r.count = counts
  BY <1>1 DEF ListMemory
<1>8. \A x \in Cells : /\ DataOf(r, x) = DataOf(m, x)
                       /\ PrevOf(r, x) = PrevOf(m, x)
                       /\ NextOf(r, x) = NextOf(m, x)
  BY <1>7, Zenon DEF DataOf, PrevOf, NextOf
<1>9. \A k \in Objects : /\ HeadOf(r, k) = IF k = l THEN h ELSE HeadOf(m, k)
                         /\ TailOf(r, k) = IF k = l THEN t ELSE TailOf(m, k)
                         /\ CountOf(r, k) = IF k = l THEN CountOf(m, l) + change ELSE CountOf(m, k)
  BY <1>4, <1>5, <1>7, Zenon DEF HeadOf, TailOf, CountOf
<1> QED BY <1>6, <1>8, <1>9

-----------------------------------------------------------------------------
(* Lists that are linked both ways.                                        *)

IsBlank(m, c) == DataOf(m, c) = Null /\ PrevOf(m, c) = Null /\ NextOf(m, c) = Null

SameNode(r, m, c) ==
  DataOf(r, c) = DataOf(m, c) /\ PrevOf(r, c) = PrevOf(m, c) /\ NextOf(r, c) = NextOf(m, c)

(* A cell is free when nothing is in it.                                   *)
LEMMA ListFree ==
  ASSUME NEW m \in ListMemory
  PROVE  \A c : c \in List!FreeCells(m) <=> c \in Cells /\ IsBlank(m, c)
<1>1. ASSUME NEW c \in Cells PROVE m.node[c] = List!Freed <=> IsBlank(m, c)
  <2> DEFINE z == m.node[c]
  <2>1. z \in [data : Datum \cup {Null}, prev : Cells \cup {Null}, next : Cells \cup {Null}]
    BY ListFields
  <2> HIDE DEF z
  <2>2. z = List!Freed <=> z.data = Null /\ z.prev = Null /\ z.next = Null
    BY <2>1 DEF List!Freed
  <2> QED BY <2>2 DEF z, IsBlank, DataOf, PrevOf, NextOf
<1> QED BY <1>1 DEF List!FreeCells

(* Following next from head, and prev from tail, one comes to the nodes of *)
(* s, each of them once.                                                   *)
IsLinked(m, l, s) ==
  /\ s \in Seq(Cells)
  /\ \A i, j \in 1 .. Len(s) : s[i] = s[j] => i = j
  /\ HeadOf(m, l) = IF s = <<>> THEN Null ELSE s[1]
  /\ TailOf(m, l) = IF s = <<>> THEN Null ELSE s[Len(s)]
  /\ CountOf(m, l) = Len(s)
  /\ \A i \in 1 .. Len(s) : /\ DataOf(m, s[i]) \in Datum
                            /\ PrevOf(m, s[i]) = IF i = 1 THEN Null ELSE s[i - 1]
                            /\ NextOf(m, s[i]) = IF i = Len(s) THEN Null ELSE s[i + 1]

ListChains(m, chain) ==
  /\ m \in ListMemory
  /\ chain \in [Objects -> Seq(Cells)]
  /\ \A l \in Objects : IsLinked(m, l, chain[l])
  /\ \A l, k \in Objects : l # k =>
       \A i \in 1 .. Len(chain[l]), j \in 1 .. Len(chain[k]) : chain[l][i] # chain[k][j]
  /\ \A c \in Cells :
       (\A l \in Objects : \A i \in 1 .. Len(chain[l]) : chain[l][i] # c) => IsBlank(m, c)

ListValues(m, chain, l) == [i \in 1 .. Len(chain[l]) |-> DataOf(m, chain[l][i])]

(* DoublyLinkedList's own instance of Cardinality is this module's.        *)
LEMMA ListCardinality == ASSUME NEW S PROVE List!Cardinality(S) = Cardinality(S)
  BY Zenon DEF List!Cardinality, Cardinality

(* The walk along next comes to the nodes of the chain, and toVector to    *)
(* what they hold.                                                         *)
LEMMA ListWalk ==
  ASSUME NEW m, NEW chain, ListChains(m, chain), NEW l \in Objects
  PROVE  /\ List!Nodes(m, l) = chain[l]
         /\ List!ToVector(m, l) = ListValues(m, chain, l)
         /\ DOMAIN chain[l] = 1 .. Len(chain[l]) /\ Len(chain[l]) \in Nat
<1> DEFINE s == chain[l]
<1>1. IsLinked(m, l, s)
  BY DEF ListChains
<1> HIDE DEF s
<1>2. s \in Seq(Cells) /\ Len(s) \in Nat /\ DOMAIN s = 1 .. Len(s)
  BY <1>1 DEF IsLinked
<1>3. IsChain(m.node, m.head[l], s)
  BY <1>1, <1>2 DEF IsLinked, IsChain, HeadOf, NextOf
<1>4. List!Walk(m.node, m.head[l]) = Walk(m.node, m.head[l])
  BY ListCardinality, Zenon DEF List!Walk, Walk
<1>5. List!Nodes(m, l) = s
  BY <1>3, <1>4, WalkIs DEF List!Nodes
<1>6. List!ToVector(m, l) = [i \in 1 .. Len(s) |-> m.node[s[i]].data]
  BY <1>2, <1>5, Zenon DEF List!ToVector
<1>7. ListValues(m, chain, l) = [i \in 1 .. Len(s) |-> m.node[s[i]].data]
  BY Zenon DEF ListValues, DataOf, s
<1> QED BY <1>2, <1>5, <1>6, <1>7 DEF s

(* What the chains say of one list.                                        *)
LEMMA ListOnChain ==
  ASSUME NEW m, NEW chain, ListChains(m, chain), NEW l \in Objects
  PROVE  /\ chain[l] \in Seq(Cells) /\ Len(chain[l]) \in Nat
         /\ IsLinked(m, l, chain[l])
         /\ \A i \in 1 .. Len(chain[l]) :
              chain[l][i] \in Cells /\ chain[l][i] # Null /\ chain[l][i] \notin List!FreeCells(m)
         /\ CountOf(m, l) = Len(chain[l])
         /\ m \in ListMemory
<1>1. IsLinked(m, l, chain[l]) /\ m \in ListMemory
  BY DEF ListChains
<1>2. chain[l] \in Seq(Cells) /\ Len(chain[l]) \in Nat
  BY <1>1 DEF IsLinked
<1>3. ASSUME NEW i \in 1 .. Len(chain[l])
      PROVE  chain[l][i] \in Cells /\ chain[l][i] # Null /\ chain[l][i] \notin List!FreeCells(m)
  <2>1. chain[l][i] \in Cells
    BY <1>2
  <2>2. DataOf(m, chain[l][i]) \in Datum
    BY <1>1 DEF IsLinked
  <2>3. DataOf(m, chain[l][i]) # Null
    BY <2>2, ContainersAssumption
  <2>4. ~IsBlank(m, chain[l][i])
    BY <2>3 DEF IsBlank
  <2> QED BY <1>1, <2>1, <2>4, ContainersAssumption, ListFree
<1>4. CountOf(m, l) = Len(chain[l])
  BY <1>1 DEF IsLinked
<1> QED BY <1>1, <1>2, <1>3, <1>4

Rechained(chain, l, s) == [chain EXCEPT ![l] = s]

(* A list whose nodes become those of s, while the nodes of others stay.   *)
LEMMA Relinked ==
  ASSUME NEW m, NEW chain, ListChains(m, chain), NEW l \in Objects, NEW s,
         NEW r \in ListMemory, IsLinked(r, l, s),
         \A i \in 1 .. Len(s) : s[i] \in ChainCells(chain, l) \cup List!FreeCells(m),
         \A k \in Objects \ {l} : /\ HeadOf(r, k) = HeadOf(m, k) /\ TailOf(r, k) = TailOf(m, k)
                                  /\ CountOf(r, k) = CountOf(m, k),
         \A x \in Cells : (\A i \in 1 .. Len(s) : s[i] # x) =>
           IF x \in ChainCells(chain, l) THEN IsBlank(r, x) ELSE SameNode(r, m, x)
  PROVE  /\ ListChains(r, Rechained(chain, l, s))
         /\ \A k \in Objects \ {l} : ListValues(r, Rechained(chain, l, s), k) = ListValues(m, chain, k)
         /\ ListValues(r, Rechained(chain, l, s), l) = [i \in 1 .. Len(s) |-> DataOf(r, s[i])]
<1> DEFINE later == Rechained(chain, l, s)
<1>1. chain \in [Objects -> Seq(Cells)] /\ s \in Seq(Cells) /\ Len(s) \in Nat
  BY DEF ListChains, IsLinked
<1>2. later \in [Objects -> Seq(Cells)] /\ later[l] = s /\ \A k \in Objects \ {l} : later[k] = chain[k]
  BY <1>1 DEF Rechained
<1> HIDE DEF later
<1>3. ASSUME NEW k \in Objects \ {l}, NEW j \in 1 .. Len(chain[k])
      PROVE  /\ \A i \in 1 .. Len(s) : s[i] # chain[k][j]
             /\ SameNode(r, m, chain[k][j])
  <2>1. chain[k][j] \in Cells /\ chain[k][j] \notin List!FreeCells(m)
    BY ListOnChain
  <2>2. chain[k][j] \notin ChainCells(chain, l)
    BY DEF ListChains, ChainCells
  <2>3. \A i \in 1 .. Len(s) : s[i] # chain[k][j]
    BY <2>1, <2>2
  <2> QED BY <2>1, <2>2, <2>3
<1>4. ASSUME NEW k \in Objects PROVE IsLinked(r, k, later[k])
  <2>1. CASE k = l
    BY <1>2, <2>1
  <2>2. CASE k # l
    <3> DEFINE t == chain[k]
    <3>1. IsLinked(m, k, t) /\ later[k] = t
      BY <1>2, <2>2 DEF ListChains
    <3>2. \A j \in 1 .. Len(t) : SameNode(r, m, t[j])
      BY <1>3, <2>2
    <3>3. HeadOf(r, k) = HeadOf(m, k) /\ TailOf(r, k) = TailOf(m, k) /\ CountOf(r, k) = CountOf(m, k)
      BY <2>2
    <3> HIDE DEF t
    <3>4. IsLinked(r, k, t)
      BY <3>1, <3>2, <3>3 DEF IsLinked, SameNode
    <3> QED BY <3>1, <3>4
  <2> QED BY <2>1, <2>2
<1>5. ASSUME NEW o \in Objects, NEW k \in Objects, o # k,
             NEW i \in 1 .. Len(later[o]), NEW j \in 1 .. Len(later[k])
      PROVE  later[o][i] # later[k][j]
  <2>1. CASE o = l
    <3>1. later[o] = s /\ later[k] = chain[k] /\ k \in Objects \ {l}
      BY <1>2, <1>5, <2>1
    <3> QED BY <1>3, <3>1
  <2>2. CASE k = l
    <3>1. later[k] = s /\ later[o] = chain[o] /\ o \in Objects \ {l}
      BY <1>2, <1>5, <2>2
    <3> QED BY <1>3, <3>1
  <2>3. CASE o # l /\ k # l
    <3>1. later[k] = chain[k] /\ later[o] = chain[o]
      BY <1>2, <2>3
    <3> QED BY <1>5, <3>1 DEF ListChains
  <2> QED BY <2>1, <2>2, <2>3
<1>6. ASSUME NEW x \in Cells, \A k \in Objects : \A i \in 1 .. Len(later[k]) : later[k][i] # x
      PROVE  IsBlank(r, x)
  <2>1. \A i \in 1 .. Len(s) : s[i] # x
    BY <1>2, <1>6
  <2>2. CASE x \in ChainCells(chain, l)
    BY <2>1, <2>2
  <2>3. CASE x \notin ChainCells(chain, l)
    <3>1. \A k \in Objects : \A i \in 1 .. Len(chain[k]) : chain[k][i] # x
      BY <1>2, <1>6, <2>3 DEF ChainCells
    <3>2. IsBlank(m, x)
      BY <3>1 DEF ListChains
    <3>3. SameNode(r, m, x)
      BY <2>1, <2>3
    <3> QED BY <3>2, <3>3 DEF IsBlank, SameNode
  <2> QED BY <2>2, <2>3
<1>7. ListChains(r, later)
  BY <1>2, <1>4, <1>5, <1>6 DEF ListChains
<1>8. ASSUME NEW k \in Objects \ {l} PROVE ListValues(r, later, k) = ListValues(m, chain, k)
  <2>1. \A j \in 1 .. Len(chain[k]) : DataOf(r, chain[k][j]) = DataOf(m, chain[k][j])
    BY <1>3 DEF SameNode
  <2>2. later[k] = chain[k]
    BY <1>2
  <2> QED BY <2>1, <2>2 DEF ListValues
<1>9. ListValues(r, later, l) = [i \in 1 .. Len(s) |-> DataOf(r, s[i])]
  BY <1>2 DEF ListValues
<1> QED BY <1>7, <1>8, <1>9 DEF later

-----------------------------------------------------------------------------
(* Taking a node out.                                                      *)

(* r is m without node c of list l, whose neighbours are linked.           *)
Removal(r, m, l, c) ==
  /\ r \in ListMemory
  /\ \A x \in Cells :
       /\ DataOf(r, x) = IF x = c THEN Null ELSE DataOf(m, x)
       /\ PrevOf(r, x) = IF x = c THEN Null ELSE IF x = NextOf(m, c) THEN PrevOf(m, c) ELSE PrevOf(m, x)
       /\ NextOf(r, x) = IF x = c THEN Null ELSE IF x = PrevOf(m, c) THEN NextOf(m, c) ELSE NextOf(m, x)
  /\ \A k \in Objects :
       /\ HeadOf(r, k) = IF k = l /\ c = HeadOf(m, l) THEN NextOf(m, c) ELSE HeadOf(m, k)
       /\ TailOf(r, k) = IF k = l /\ c = TailOf(m, l) THEN PrevOf(m, c) ELSE TailOf(m, k)
       /\ CountOf(r, k) = IF k = l THEN CountOf(m, l) - 1 ELSE CountOf(m, k)

(* The numbers 1 to n - 1, those from i on moved by one.                   *)
Skip(i, j) == IF j < i THEN j ELSE j + 1

(* v, of length n, without its element i.                                  *)
Dropped(v, n, i) == [j \in 1 .. n - 1 |-> v[Skip(i, j)]]

(* In r, list l holds t, and the others what they held in m.               *)
Turns(r, m, chain, l, t) ==
  \E later : /\ ListChains(r, later)
             /\ ListValues(r, later, l) = t
             /\ \A k \in Objects \ {l} : ListValues(r, later, k) = ListValues(m, chain, k)

(* Taking a node out drops its value, and nothing else.                    *)
LEMMA RemovalShortens ==
  ASSUME NEW m, NEW chain, ListChains(m, chain), NEW l \in Objects, NEW i \in 1 .. Len(chain[l]),
         NEW r, Removal(r, m, l, chain[l][i])
  PROVE  Turns(r, m, chain, l, Dropped(ListValues(m, chain, l), Len(chain[l]), i))
<1> DEFINE s == chain[l]
           n == Len(s)
           c == s[i]
           t == [j \in 1 .. n - 1 |-> s[Skip(i, j)]]
           before == IF i = 1 THEN Null ELSE s[i - 1]
           after == IF i = n THEN Null ELSE s[i + 1]
           later == Rechained(chain, l, t)
<1>1. IsLinked(m, l, s) /\ s \in Seq(Cells) /\ n \in Nat /\ n > 0 /\ i \in 1 .. n
      /\ \A k \in 1 .. n : s[k] \in Cells /\ s[k] # Null
  BY ListOnChain
<1>2. ChainCells(chain, l) = {s[k] : k \in 1 .. n}
  BY DEF ChainCells
<1>3. Removal(r, m, l, c)
  OBVIOUS
<1>4. ListValues(m, chain, l) = [j \in 1 .. n |-> DataOf(m, s[j])]
  BY DEF ListValues
<1> HIDE DEF s, n
<1>5. /\ \A a, b \in 1 .. n : s[a] = s[b] => a = b
      /\ HeadOf(m, l) = s[1] /\ TailOf(m, l) = s[n] /\ CountOf(m, l) = n
      /\ \A k \in 1 .. n : /\ DataOf(m, s[k]) \in Datum
                           /\ PrevOf(m, s[k]) = IF k = 1 THEN Null ELSE s[k - 1]
                           /\ NextOf(m, s[k]) = IF k = n THEN Null ELSE s[k + 1]
  <2>1. s # <<>>
    <3>1. Len(s) = n
      BY DEF n
    <3> QED BY <1>1, <3>1
  <2> QED BY <1>1, <2>1 DEF IsLinked, n
<1>6. PrevOf(m, c) = before /\ NextOf(m, c) = after
  BY <1>1, <1>5
<1>7. \A k \in 1 .. n : /\ s[k] = c <=> k = i
                        /\ s[k] = after <=> k = i + 1
                        /\ s[k] = before <=> k = i - 1
  <2> TAKE k \in 1 .. n
  <2>1. s[k] = c <=> k = i
    BY <1>1, <1>5
  <2>2. s[k] = after <=> k = i + 1
    <3>1. CASE i = n
      BY <1>1, <3>1
    <3>2. CASE i # n
      <4>1. i + 1 \in 1 .. n
        BY <1>1, <3>2
      <4> QED BY <1>5, <3>2, <4>1
    <3> QED BY <3>1, <3>2
  <2>3. s[k] = before <=> k = i - 1
    <3>1. CASE i = 1
      BY <1>1, <3>1
    <3>2. CASE i # 1
      <4>1. i - 1 \in 1 .. n
        BY <1>1, <3>2
      <4> QED BY <1>5, <3>2, <4>1
    <3> QED BY <3>1, <3>2
  <2> QED BY <2>1, <2>2, <2>3
<1>8. \A j \in 1 .. n - 1 : Skip(i, j) \in 1 .. n /\ Skip(i, j) # i /\ t[j] = s[Skip(i, j)]
  BY <1>1 DEF Skip
<1>9. t \in Seq(Cells) /\ Len(t) = n - 1
  <2>1. \A j \in 1 .. n - 1 : s[Skip(i, j)] \in Cells
    BY <1>1, <1>8
  <2>2. n - 1 \in Nat
    BY <1>1
  <2> QED BY <2>1, <2>2
<1>10. c = s[i] /\ (before = IF i = 1 THEN Null ELSE s[i - 1]) /\ (after = IF i = n THEN Null ELSE s[i + 1])
  OBVIOUS
<1>11. \A j, k \in 1 .. n - 1 : t[j] = t[k] => j = k
  <2> SUFFICES ASSUME NEW j \in 1 .. n - 1, NEW k \in 1 .. n - 1, t[j] = t[k] PROVE j = k
    OBVIOUS
  <2>1. Skip(i, j) = Skip(i, k)
    BY <1>5, <1>8
  <2> QED BY <1>1, <2>1 DEF Skip
<1>12. \A k \in 1 .. n : k # i => \E j \in 1 .. n - 1 : t[j] = s[k]
  <2> TAKE k \in 1 .. n
  <2> HAVE k # i
  <2> DEFINE j == IF k < i THEN k ELSE k - 1
  <2>1. j \in 1 .. n - 1 /\ Skip(i, j) = k
    BY <1>1 DEF Skip
  <2> QED BY <1>8, <2>1
<1> HIDE DEF t, c, before, after
<1>13. \A x \in Cells :
         /\ DataOf(r, x) = IF x = c THEN Null ELSE DataOf(m, x)
         /\ PrevOf(r, x) = IF x = c THEN Null ELSE IF x = after THEN before ELSE PrevOf(m, x)
         /\ NextOf(r, x) = IF x = c THEN Null ELSE IF x = before THEN after ELSE NextOf(m, x)
  BY <1>3, <1>6 DEF Removal
<1>14. \A k \in 1 .. n : k # i =>
         /\ DataOf(r, s[k]) = DataOf(m, s[k])
         /\ PrevOf(r, s[k]) = IF k = i + 1 THEN before ELSE IF k = 1 THEN Null ELSE s[k - 1]
         /\ NextOf(r, s[k]) = IF k = i - 1 THEN after ELSE IF k = n THEN Null ELSE s[k + 1]
  <2> TAKE k \in 1 .. n
  <2> HAVE k # i
  <2> DEFINE x == s[k]
  <2>1. x \in Cells /\ x # c /\ (x = after <=> k = i + 1) /\ (x = before <=> k = i - 1)
    BY <1>1, <1>7
  <2>2. PrevOf(m, x) = (IF k = 1 THEN Null ELSE s[k - 1]) /\ NextOf(m, x) = IF k = n THEN Null ELSE s[k + 1]
    BY <1>5
  <2> HIDE DEF x
  <2>3. /\ DataOf(r, x) = DataOf(m, x)
        /\ PrevOf(r, x) = IF k = i + 1 THEN before ELSE PrevOf(m, x)
        /\ NextOf(r, x) = IF k = i - 1 THEN after ELSE NextOf(m, x)
    BY <1>13, <2>1
  <2> QED BY <2>2, <2>3 DEF x
<1>15. ASSUME NEW j \in 1 .. n - 1
       PROVE  /\ DataOf(r, t[j]) \in Datum
              /\ PrevOf(r, t[j]) = IF j = 1 THEN Null ELSE t[j - 1]
              /\ NextOf(r, t[j]) = IF j = n - 1 THEN Null ELSE t[j + 1]
  <2> DEFINE k == Skip(i, j)
  <2>1. k \in 1 .. n /\ k # i /\ t[j] = s[k] /\ j \in Int /\ i \in Int /\ n \in Int
    BY <1>1, <1>8
  <2>2. /\ DataOf(r, s[k]) = DataOf(m, s[k])
        /\ PrevOf(r, s[k]) = IF k = i + 1 THEN before ELSE IF k = 1 THEN Null ELSE s[k - 1]
        /\ NextOf(r, s[k]) = IF k = i - 1 THEN after ELSE IF k = n THEN Null ELSE s[k + 1]
    BY <1>14, <2>1
  <2>3. DataOf(m, s[k]) \in Datum
    BY <1>5, <2>1
  <2>4. PrevOf(r, s[k]) = IF j = 1 THEN Null ELSE t[j - 1]
    <3>1. CASE j = 1 /\ 1 < i
      <4>1. k = 1 /\ k # i + 1
        BY <2>1, <3>1 DEF Skip
      <4> QED BY <2>2, <3>1, <4>1
    <3>2. CASE j = 1 /\ i = 1
      <4>1. k = i + 1 /\ before = Null
        BY <1>10, <2>1, <3>2 DEF Skip
      <4> QED BY <2>2, <3>2, <4>1
    <3>3. CASE j # 1 /\ j < i
      <4>1. k = j /\ k # i + 1 /\ k # 1 /\ j - 1 \in 1 .. n - 1 /\ Skip(i, j - 1) = k - 1
        BY <2>1, <3>3 DEF Skip
      <4>2. t[j - 1] = s[k - 1]
        BY <1>8, <4>1
      <4> QED BY <2>2, <3>3, <4>1, <4>2
    <3>4. CASE j # 1 /\ j = i
      <4>1. k = i + 1 /\ j - 1 \in 1 .. n - 1 /\ Skip(i, j - 1) = i - 1 /\ i # 1
        BY <2>1, <3>4 DEF Skip
      <4>2. t[j - 1] = s[i - 1]
        BY <1>8, <4>1
      <4> QED BY <1>10, <2>2, <3>4, <4>1, <4>2
    <3>5. CASE j # 1 /\ j > i
      <4>1. k = j + 1 /\ k # i + 1 /\ k # 1 /\ j - 1 \in 1 .. n - 1 /\ Skip(i, j - 1) = k - 1
        BY <2>1, <3>5 DEF Skip
      <4>2. t[j - 1] = s[k - 1]
        BY <1>8, <4>1
      <4> QED BY <2>2, <3>5, <4>1, <4>2
    <3> QED BY <1>1, <2>1, <3>1, <3>2, <3>3, <3>4, <3>5
  <2>5. NextOf(r, s[k]) = IF j = n - 1 THEN Null ELSE t[j + 1]
    <3>1. CASE j = n - 1 /\ j < i
      <4>1. k = i - 1 /\ i = n
        BY <1>1, <2>1, <3>1 DEF Skip
      <4> QED BY <1>10, <2>2, <3>1, <4>1
    <3>2. CASE j = n - 1 /\ j >= i
      <4>1. k = n /\ k # i - 1
        BY <2>1, <3>2 DEF Skip
      <4> QED BY <2>2, <3>2, <4>1
    <3>3. CASE j # n - 1 /\ j < i - 1
      <4>1. k = j /\ k # i - 1 /\ k # n /\ j + 1 \in 1 .. n - 1 /\ Skip(i, j + 1) = k + 1
        BY <1>1, <2>1, <3>3 DEF Skip
      <4>2. t[j + 1] = s[k + 1]
        BY <1>8, <4>1
      <4> QED BY <2>2, <3>3, <4>1, <4>2
    <3>4. CASE j # n - 1 /\ j = i - 1
      <4>1. k = i - 1 /\ j + 1 \in 1 .. n - 1 /\ Skip(i, j + 1) = i + 1 /\ i # n
        BY <1>1, <2>1, <3>4 DEF Skip
      <4>2. t[j + 1] = s[i + 1]
        BY <1>8, <4>1
      <4> QED BY <1>10, <2>2, <3>4, <4>1, <4>2
    <3>5. CASE j # n - 1 /\ j >= i
      <4>1. k = j + 1 /\ k # i - 1 /\ k # n /\ j + 1 \in 1 .. n - 1 /\ Skip(i, j + 1) = k + 1
        BY <2>1, <3>5 DEF Skip
      <4>2. t[j + 1] = s[k + 1]
        BY <1>8, <4>1
      <4> QED BY <2>2, <3>5, <4>1, <4>2
    <3> QED BY <1>1, <2>1, <3>1, <3>2, <3>3, <3>4, <3>5
  <2> QED BY <2>1, <2>2, <2>3, <2>4, <2>5
<1>16. IsLinked(r, l, t)
  <2>1. CountOf(r, l) = n - 1
    BY <1>3, <1>5 DEF Removal
  <2>2. HeadOf(r, l) = IF i = 1 THEN after ELSE s[1]
    <3>1. 1 \in 1 .. n
      BY <1>1
    <3>2. c = s[1] <=> i = 1
      BY <1>1, <1>5, <1>10, <3>1
    <3> QED BY <1>3, <1>5, <1>6, <3>2 DEF Removal
  <2>3. TailOf(r, l) = IF i = n THEN before ELSE s[n]
    <3>1. n \in 1 .. n
      BY <1>1
    <3>2. c = s[n] <=> i = n
      BY <1>1, <1>5, <1>10, <3>1
    <3> QED BY <1>3, <1>5, <1>6, <3>2 DEF Removal
  <2>4. t = <<>> <=> n = 1
    BY <1>1, <1>9
  <2>5. HeadOf(r, l) = IF t = <<>> THEN Null ELSE t[1]
    <3>1. CASE n = 1
      BY <1>1, <1>10, <2>2, <2>4, <3>1
    <3>2. CASE n # 1
      <4>1. 1 \in 1 .. n - 1 /\ Skip(i, 1) = IF i = 1 THEN 2 ELSE 1
        BY <1>1, <3>2 DEF Skip
      <4>2. t[1] = IF i = 1 THEN s[2] ELSE s[1]
        BY <1>8, <4>1
      <4>3. i = 1 => after = s[2]
        BY <1>10, <3>2
      <4> QED BY <2>2, <2>4, <3>2, <4>2, <4>3
    <3> QED BY <3>1, <3>2
  <2>6. TailOf(r, l) = IF t = <<>> THEN Null ELSE t[n - 1]
    <3>1. CASE n = 1
      BY <1>1, <1>10, <2>3, <2>4, <3>1
    <3>2. CASE n # 1
      <4>1. n - 1 \in 1 .. n - 1 /\ Skip(i, n - 1) = IF i = n THEN n - 1 ELSE n
        BY <1>1, <3>2 DEF Skip
      <4>2. t[n - 1] = IF i = n THEN s[n - 1] ELSE s[n]
        BY <1>8, <4>1
      <4>3. i = n => before = s[n - 1]
        BY <1>10, <3>2
      <4> QED BY <2>3, <2>4, <3>2, <4>2, <4>3
    <3> QED BY <3>1, <3>2
  <2> QED BY <1>9, <1>11, <1>15, <2>1, <2>5, <2>6 DEF IsLinked
<1>17. \A j \in 1 .. Len(t) : t[j] \in ChainCells(chain, l) \cup List!FreeCells(m)
  BY <1>2, <1>8, <1>9
<1>18. \A k \in Objects \ {l} : /\ HeadOf(r, k) = HeadOf(m, k) /\ TailOf(r, k) = TailOf(m, k)
                                /\ CountOf(r, k) = CountOf(m, k)
  BY <1>3 DEF Removal
<1>19. ASSUME NEW x \in Cells, \A j \in 1 .. Len(t) : t[j] # x
       PROVE  IF x \in ChainCells(chain, l) THEN IsBlank(r, x) ELSE SameNode(r, m, x)
  <2>1. CASE x \in ChainCells(chain, l)
    <3>1. PICK k \in 1 .. n : x = s[k]
      BY <1>2, <2>1
    <3>2. k = i
      BY <1>9, <1>12, <1>19, <3>1
    <3>3. x = c
      BY <1>10, <3>1, <3>2
    <3> QED BY <1>13, <2>1, <3>3 DEF IsBlank
  <2>2. CASE x \notin ChainCells(chain, l)
    <3>1. x # c /\ x # before /\ x # after
      <4>1. \A k \in 1 .. n : x # s[k]
        BY <1>2, <2>2
      <4>2. x # Null
        BY ContainersAssumption
      <4>3. x # c
        BY <1>1, <1>10, <4>1
      <4>4. x # before
        <5>1. CASE i = 1
          BY <1>10, <4>2, <5>1
        <5>2. CASE i # 1
          <6>1. i - 1 \in 1 .. n /\ before = s[i - 1]
            BY <1>1, <1>10, <5>2
          <6> QED BY <4>1, <6>1
        <5> QED BY <5>1, <5>2
      <4>5. x # after
        <5>1. CASE i = n
          BY <1>10, <4>2, <5>1
        <5>2. CASE i # n
          <6>1. i + 1 \in 1 .. n /\ after = s[i + 1]
            BY <1>1, <1>10, <5>2
          <6> QED BY <4>1, <6>1
        <5> QED BY <5>1, <5>2
      <4> QED BY <4>3, <4>4, <4>5
    <3> QED BY <1>13, <2>2, <3>1 DEF SameNode
  <2> QED BY <2>1, <2>2
<1>20. r \in ListMemory
  BY <1>3 DEF Removal
<1> HIDE DEF later
<1>21. /\ ListChains(r, later)
       /\ \A k \in Objects \ {l} : ListValues(r, later, k) = ListValues(m, chain, k)
       /\ ListValues(r, later, l) = [j \in 1 .. Len(t) |-> DataOf(r, t[j])]
  BY <1>16, <1>17, <1>18, <1>19, <1>20, Relinked DEF later
<1>22. ListValues(r, later, l) = [j \in 1 .. n - 1 |-> ListValues(m, chain, l)[Skip(i, j)]]
  <2>1. \A j \in 1 .. n - 1 : DataOf(r, t[j]) = ListValues(m, chain, l)[Skip(i, j)]
    BY <1>4, <1>8, <1>14
  <2> QED BY <1>9, <1>21, <2>1
<1>23. ListValues(r, later, l) = Dropped(ListValues(m, chain, l), Len(chain[l]), i)
  BY <1>22 DEF Dropped, n, s
<1> QED BY <1>21, <1>23 DEF Turns

(* The neighbours of a node, and how head and tail are known.              *)
LEMMA NodeOnList ==
  ASSUME NEW m, NEW chain, ListChains(m, chain), NEW l \in Objects, NEW i \in 1 .. Len(chain[l])
  PROVE  /\ chain[l][i] \in Cells
         /\ PrevOf(m, chain[l][i]) \in Cells \cup {Null} /\ NextOf(m, chain[l][i]) \in Cells \cup {Null}
         /\ PrevOf(m, chain[l][i]) # chain[l][i] /\ NextOf(m, chain[l][i]) # chain[l][i]
         /\ PrevOf(m, chain[l][i]) = Null <=> chain[l][i] = HeadOf(m, l)
         /\ NextOf(m, chain[l][i]) = Null <=> chain[l][i] = TailOf(m, l)
         /\ CountOf(m, l) - 1 \in Nat
<1> DEFINE s == chain[l]
           n == Len(s)
           c == s[i]
<1>1. /\ IsLinked(m, l, s) /\ n \in Nat /\ n > 0 /\ i \in 1 .. n /\ m \in ListMemory
      /\ \A k \in 1 .. n : s[k] \in Cells /\ s[k] # Null
  BY ListOnChain
<1> HIDE DEF s
<1>2. s # <<>>
  BY <1>1
<1>3. /\ \A a, b \in 1 .. n : s[a] = s[b] => a = b
      /\ HeadOf(m, l) = s[1] /\ TailOf(m, l) = s[n] /\ CountOf(m, l) = n
      /\ PrevOf(m, c) = IF i = 1 THEN Null ELSE s[i - 1]
      /\ NextOf(m, c) = IF i = n THEN Null ELSE s[i + 1]
  BY <1>1, <1>2 DEF IsLinked
<1>4. 1 \in 1 .. n /\ n \in 1 .. n /\ (i # 1 => i - 1 \in 1 .. n) /\ (i # n => i + 1 \in 1 .. n)
  BY <1>1
<1> HIDE DEF n
<1>5. c \in Cells /\ c # Null
  BY <1>1
<1>6. PrevOf(m, c) \in Cells \cup {Null} /\ NextOf(m, c) \in Cells \cup {Null}
  BY <1>1, <1>5, ListFields
<1>7. PrevOf(m, c) = Null <=> c = HeadOf(m, l)
  BY <1>1, <1>3, <1>4
<1>8. NextOf(m, c) = Null <=> c = TailOf(m, l)
  BY <1>1, <1>3, <1>4
<1>9. PrevOf(m, c) # c
  <2>1. CASE i = 1
    BY <1>3, <1>5, <2>1
  <2>2. CASE i # 1
    <3>1. i - 1 # i
      BY <1>1
    <3> QED BY <1>1, <1>3, <1>4, <2>2, <3>1
  <2> QED BY <2>1, <2>2
<1>10. NextOf(m, c) # c
  <2>1. CASE i = n
    BY <1>3, <1>5, <2>1
  <2>2. CASE i # n
    <3>1. i + 1 # i
      BY <1>1
    <3> QED BY <1>1, <1>3, <1>4, <2>2, <3>1
  <2> QED BY <2>1, <2>2
<1>11. CountOf(m, l) - 1 \in Nat
  BY <1>1, <1>3
<1> QED BY <1>5, <1>6, <1>7, <1>8, <1>9, <1>10, <1>11 DEF s

(* What delete does to a node.                                             *)
LEMMA DeletedIs ==
  ASSUME NEW m \in ListMemory, NEW c \in Cells, NEW r, r = List!Deleted(m, c)
  PROVE  /\ r \in ListMemory
         /\ \A x \in Cells : /\ DataOf(r, x) = IF x = c THEN Null ELSE DataOf(m, x)
                             /\ PrevOf(r, x) = IF x = c THEN Null ELSE PrevOf(m, x)
                             /\ NextOf(r, x) = IF x = c THEN Null ELSE NextOf(m, x)
         /\ \A l \in Objects : /\ HeadOf(r, l) = HeadOf(m, l) /\ TailOf(r, l) = TailOf(m, l)
                               /\ CountOf(r, l) = CountOf(m, l)
<1>1. r = [m EXCEPT !.node[c] = [data |-> Null, prev |-> Null, next |-> Null]]
  BY Zenon DEF List!Deleted, List!Freed
<1>2. Null \in Datum \cup {Null} /\ Null \in Pointers
  BY DEF Pointers
<1> QED BY <1>1, <1>2, NodeWritten

(* DoublyLinkedList::popFront takes the head out.                          *)
LEMMA PopFrontRemoves ==
  ASSUME NEW m, NEW chain, ListChains(m, chain), NEW l \in Objects, Len(chain[l]) > 0,
         NEW r, r = List!PopFront(m, l)
  PROVE  HeadOf(m, l) = chain[l][1] /\ Removal(r, m, l, HeadOf(m, l))
<1> DEFINE c == HeadOf(m, l)
           after == NextOf(m, c)
           a == List!Linked(m, after, "prev", Null)
           tail == IF after = Null THEN Null ELSE TailOf(m, l)
           b == List!Recounted(a, l, after, tail, -1)
<1>1. /\ IsLinked(m, l, chain[l]) /\ m \in ListMemory /\ Len(chain[l]) \in Nat
      /\ 1 \in 1 .. Len(chain[l])
  BY ListOnChain
<1>2. c = chain[l][1]
  <2>1. chain[l] # <<>>
    BY <1>1
  <2> QED BY <1>1, <2>1 DEF IsLinked
<1>3. /\ c \in Cells
      /\ after \in Cells \cup {Null}
      /\ after # c
      /\ PrevOf(m, c) = Null
      /\ after = Null <=> c = TailOf(m, l)
      /\ CountOf(m, l) - 1 \in Nat
  BY <1>1, <1>2, NodeOnList
<1>4. r = List!Deleted(b, c)
  BY Zenon DEF List!PopFront, HeadOf, TailOf, NextOf
<1>5. tail \in Cells \cup {Null} /\ Null \in Cells \cup {Null} /\ -1 \in Int
  BY <1>1, ListFields
<1> DEFINE change == -1
<1> HIDE DEF c, after, tail
<1>13. a = List!Linked(m, after, "prev", Null)
  OBVIOUS
<1>14. b = List!Recounted(a, l, after, tail, change)
  OBVIOUS
<1>15. change \in Int /\ \A x \in Nat : x + change = x - 1
  OBVIOUS
<1> HIDE DEF a, b, change
<1>6. /\ a \in ListMemory
      /\ \A x \in Cells : /\ DataOf(a, x) = DataOf(m, x)
                          /\ PrevOf(a, x) = IF x = after THEN Null ELSE PrevOf(m, x)
                          /\ NextOf(a, x) = NextOf(m, x)
      /\ \A k \in Objects : /\ HeadOf(a, k) = HeadOf(m, k) /\ TailOf(a, k) = TailOf(m, k)
                            /\ CountOf(a, k) = CountOf(m, k)
  <2>1. m \in ListMemory /\ after \in Pointers /\ Null \in Pointers
    BY <1>1, <1>3 DEF Pointers
  <2> QED BY <2>1, <1>13, LinkedPrev
<1>7. CountOf(a, l) + change \in Nat /\ CountOf(a, l) = CountOf(m, l) /\ CountOf(m, l) \in Nat
  BY <1>1, <1>3, <1>6, <1>15, ListFields
<1>8. /\ b \in ListMemory
      /\ \A x \in Cells : /\ DataOf(b, x) = DataOf(a, x)
                          /\ PrevOf(b, x) = PrevOf(a, x)
                          /\ NextOf(b, x) = NextOf(a, x)
      /\ \A k \in Objects : /\ HeadOf(b, k) = IF k = l THEN after ELSE HeadOf(a, k)
                            /\ TailOf(b, k) = IF k = l THEN tail ELSE TailOf(a, k)
                            /\ CountOf(b, k) = IF k = l THEN CountOf(a, l) + change ELSE CountOf(a, k)
  <2>1. a \in ListMemory /\ after \in Pointers /\ tail \in Pointers /\ change \in Int
    BY <1>3, <1>5, <1>6, <1>15 DEF Pointers
  <2>2. CountOf(a, l) + change \in Nat
    BY <1>7
  <2> QED BY <2>1, <2>2, <1>14, RecountedIs
<1>9. /\ r \in ListMemory
      /\ \A x \in Cells : /\ DataOf(r, x) = IF x = c THEN Null ELSE DataOf(b, x)
                          /\ PrevOf(r, x) = IF x = c THEN Null ELSE PrevOf(b, x)
                          /\ NextOf(r, x) = IF x = c THEN Null ELSE NextOf(b, x)
      /\ \A k \in Objects : /\ HeadOf(r, k) = HeadOf(b, k) /\ TailOf(r, k) = TailOf(b, k)
                            /\ CountOf(r, k) = CountOf(b, k)
  BY <1>3, <1>4, <1>8, DeletedIs
<1>10. ASSUME NEW x \in Cells
       PROVE  /\ DataOf(r, x) = IF x = c THEN Null ELSE DataOf(m, x)
              /\ PrevOf(r, x) = IF x = c THEN Null ELSE IF x = after THEN PrevOf(m, c) ELSE PrevOf(m, x)
              /\ NextOf(r, x) = IF x = c THEN Null ELSE IF x = PrevOf(m, c) THEN after ELSE NextOf(m, x)
  <2>1. x # Null
    BY ContainersAssumption
  <2> QED BY <1>3, <1>6, <1>8, <1>9, <2>1
<1>11. ASSUME NEW k \in Objects
       PROVE  /\ HeadOf(r, k) = IF k = l /\ c = HeadOf(m, l) THEN after ELSE HeadOf(m, k)
              /\ TailOf(r, k) = IF k = l /\ c = TailOf(m, l) THEN PrevOf(m, c) ELSE TailOf(m, k)
              /\ CountOf(r, k) = IF k = l THEN CountOf(m, l) - 1 ELSE CountOf(m, k)
  <2>1. HeadOf(r, k) = IF k = l /\ c = HeadOf(m, l) THEN after ELSE HeadOf(m, k)
    BY <1>6, <1>8, <1>9 DEF c
  <2>2. TailOf(r, k) = IF k = l /\ c = TailOf(m, l) THEN PrevOf(m, c) ELSE TailOf(m, k)
    BY <1>3, <1>6, <1>8, <1>9 DEF tail
  <2>3. CountOf(r, k) = IF k = l THEN CountOf(m, l) - 1 ELSE CountOf(m, k)
    BY <1>6, <1>7, <1>8, <1>9, <1>15
  <2> QED BY <2>1, <2>2, <2>3
<1>12. Removal(r, m, l, c)
  BY <1>9, <1>10, <1>11 DEF Removal, after
<1> QED BY <1>2, <1>12 DEF c

(* DoublyLinkedList::popBack takes the tail out.                           *)
LEMMA PopBackRemoves ==
  ASSUME NEW m, NEW chain, ListChains(m, chain), NEW l \in Objects, Len(chain[l]) > 0,
         NEW r, r = List!PopBack(m, l)
  PROVE  TailOf(m, l) = chain[l][Len(chain[l])] /\ Removal(r, m, l, TailOf(m, l))
<1> DEFINE c == TailOf(m, l)
           before == PrevOf(m, c)
           a == List!Linked(m, before, "next", Null)
           head == IF before = Null THEN Null ELSE HeadOf(m, l)
           b == List!Recounted(a, l, head, before, -1)
<1>1. /\ IsLinked(m, l, chain[l]) /\ m \in ListMemory /\ Len(chain[l]) \in Nat
      /\ Len(chain[l]) \in 1 .. Len(chain[l])
  BY ListOnChain
<1>2. c = chain[l][Len(chain[l])]
  <2>1. chain[l] # <<>>
    BY <1>1
  <2> QED BY <1>1, <2>1 DEF IsLinked
<1>3. /\ c \in Cells
      /\ before \in Cells \cup {Null}
      /\ before # c
      /\ NextOf(m, c) = Null
      /\ before = Null <=> c = HeadOf(m, l)
      /\ CountOf(m, l) - 1 \in Nat
  BY <1>1, <1>2, NodeOnList
<1>4. r = List!Deleted(b, c)
  BY Zenon DEF List!PopBack, HeadOf, TailOf, PrevOf
<1>5. head \in Cells \cup {Null} /\ Null \in Cells \cup {Null} /\ -1 \in Int
  BY <1>1, ListFields
<1> DEFINE change == -1
<1> HIDE DEF c, before, head
<1>13. a = List!Linked(m, before, "next", Null)
  OBVIOUS
<1>14. b = List!Recounted(a, l, head, before, change)
  OBVIOUS
<1>15. change \in Int /\ \A x \in Nat : x + change = x - 1
  OBVIOUS
<1> HIDE DEF a, b, change
<1>6. /\ a \in ListMemory
      /\ \A x \in Cells : /\ DataOf(a, x) = DataOf(m, x)
                          /\ PrevOf(a, x) = PrevOf(m, x)
                          /\ NextOf(a, x) = IF x = before THEN Null ELSE NextOf(m, x)
      /\ \A k \in Objects : /\ HeadOf(a, k) = HeadOf(m, k) /\ TailOf(a, k) = TailOf(m, k)
                            /\ CountOf(a, k) = CountOf(m, k)
  <2>1. m \in ListMemory /\ before \in Pointers /\ Null \in Pointers
    BY <1>1, <1>3 DEF Pointers
  <2> QED BY <2>1, <1>13, LinkedNext
<1>7. CountOf(a, l) + change \in Nat /\ CountOf(a, l) = CountOf(m, l) /\ CountOf(m, l) \in Nat
  BY <1>1, <1>3, <1>6, <1>15, ListFields
<1>8. /\ b \in ListMemory
      /\ \A x \in Cells : /\ DataOf(b, x) = DataOf(a, x)
                          /\ PrevOf(b, x) = PrevOf(a, x)
                          /\ NextOf(b, x) = NextOf(a, x)
      /\ \A k \in Objects : /\ HeadOf(b, k) = IF k = l THEN head ELSE HeadOf(a, k)
                            /\ TailOf(b, k) = IF k = l THEN before ELSE TailOf(a, k)
                            /\ CountOf(b, k) = IF k = l THEN CountOf(a, l) + change ELSE CountOf(a, k)
  <2>1. a \in ListMemory /\ before \in Pointers /\ head \in Pointers /\ change \in Int
    BY <1>3, <1>5, <1>6, <1>15 DEF Pointers
  <2>2. CountOf(a, l) + change \in Nat
    BY <1>7
  <2> QED BY <2>1, <2>2, <1>14, RecountedIs
<1>9. /\ r \in ListMemory
      /\ \A x \in Cells : /\ DataOf(r, x) = IF x = c THEN Null ELSE DataOf(b, x)
                          /\ PrevOf(r, x) = IF x = c THEN Null ELSE PrevOf(b, x)
                          /\ NextOf(r, x) = IF x = c THEN Null ELSE NextOf(b, x)
      /\ \A k \in Objects : /\ HeadOf(r, k) = HeadOf(b, k) /\ TailOf(r, k) = TailOf(b, k)
                            /\ CountOf(r, k) = CountOf(b, k)
  BY <1>3, <1>4, <1>8, DeletedIs
<1>10. ASSUME NEW x \in Cells
       PROVE  /\ DataOf(r, x) = IF x = c THEN Null ELSE DataOf(m, x)
              /\ PrevOf(r, x) = IF x = c THEN Null ELSE IF x = NextOf(m, c) THEN before ELSE PrevOf(m, x)
              /\ NextOf(r, x) = IF x = c THEN Null ELSE IF x = before THEN NextOf(m, c) ELSE NextOf(m, x)
  <2>1. x # Null
    BY ContainersAssumption
  <2> QED BY <1>3, <1>6, <1>8, <1>9, <2>1
<1>11. ASSUME NEW k \in Objects
       PROVE  /\ HeadOf(r, k) = IF k = l /\ c = HeadOf(m, l) THEN NextOf(m, c) ELSE HeadOf(m, k)
              /\ TailOf(r, k) = IF k = l /\ c = TailOf(m, l) THEN before ELSE TailOf(m, k)
              /\ CountOf(r, k) = IF k = l THEN CountOf(m, l) - 1 ELSE CountOf(m, k)
  <2>1. TailOf(r, k) = IF k = l /\ c = TailOf(m, l) THEN before ELSE TailOf(m, k)
    BY <1>6, <1>8, <1>9 DEF c
  <2>2. HeadOf(r, k) = IF k = l /\ c = HeadOf(m, l) THEN NextOf(m, c) ELSE HeadOf(m, k)
    BY <1>3, <1>6, <1>8, <1>9 DEF head
  <2>3. CountOf(r, k) = IF k = l THEN CountOf(m, l) - 1 ELSE CountOf(m, k)
    BY <1>6, <1>7, <1>8, <1>9, <1>15
  <2> QED BY <2>1, <2>2, <2>3
<1>12. Removal(r, m, l, c)
  BY <1>9, <1>10, <1>11 DEF Removal, before
<1> QED BY <1>2, <1>12 DEF c

(* DoublyLinkedList::removeNode takes the node out, wherever it is.        *)
LEMMA RemoveNodeRemoves ==
  ASSUME NEW m, NEW chain, ListChains(m, chain), NEW l \in Objects, NEW i \in 1 .. Len(chain[l]),
         NEW r, r = List!RemoveNode(m, l, chain[l][i])
  PROVE  Removal(r, m, l, chain[l][i])
<1> DEFINE c == chain[l][i]
           before == PrevOf(m, c)
           after == NextOf(m, c)
           a == List!Linked(m, before, "next", after)
           b == List!Linked(a, after, "prev", before)
           d == List!Recounted(b, l, HeadOf(m, l), TailOf(m, l), -1)
<1>1. m \in ListMemory /\ Len(chain[l]) > 0
  BY ListOnChain
<1>2. /\ c \in Cells
      /\ before \in Cells \cup {Null} /\ after \in Cells \cup {Null}
      /\ before # c /\ after # c
      /\ before = Null <=> c = HeadOf(m, l)
      /\ after = Null <=> c = TailOf(m, l)
      /\ CountOf(m, l) - 1 \in Nat
  BY NodeOnList
<1> HIDE DEF c
<1>3. CASE c = HeadOf(m, l)
  <2>1. r = List!PopFront(m, l)
    BY <1>3, Zenon DEF List!RemoveNode, HeadOf, c
  <2>2. Removal(r, m, l, HeadOf(m, l))
    BY <1>1, <2>1, PopFrontRemoves
  <2> QED BY <1>3, <2>2 DEF c
<1>4. CASE c # HeadOf(m, l) /\ c = TailOf(m, l)
  <2>1. r = List!PopBack(m, l)
    BY <1>4, Zenon DEF List!RemoveNode, HeadOf, TailOf, c
  <2>2. Removal(r, m, l, TailOf(m, l))
    BY <1>1, <2>1, PopBackRemoves
  <2> QED BY <1>4, <2>2 DEF c
<1>5. CASE c # HeadOf(m, l) /\ c # TailOf(m, l)
  <2>1. r = List!Deleted(d, c)
    BY <1>5, Zenon DEF List!RemoveNode, HeadOf, TailOf, PrevOf, NextOf, c
  <2>2. HeadOf(m, l) \in Cells \cup {Null} /\ TailOf(m, l) \in Cells \cup {Null} /\ -1 \in Int
    BY <1>1, ListFields
  <2> DEFINE change == -1
             head == HeadOf(m, l)
             tail == TailOf(m, l)
  <2> HIDE DEF before, after
  <2>11. a = List!Linked(m, before, "next", after)
    OBVIOUS
  <2>12. b = List!Linked(a, after, "prev", before)
    OBVIOUS
  <2>13. d = List!Recounted(b, l, head, tail, change)
    OBVIOUS
  <2>14. change \in Int /\ \A x \in Nat : x + change = x - 1
    OBVIOUS
  <2>15. head \in Cells \cup {Null} /\ tail \in Cells \cup {Null} /\ head = HeadOf(m, l) /\ tail = TailOf(m, l)
    BY <2>2
  <2> HIDE DEF a, b, d, change, head, tail
  <2>3. /\ a \in ListMemory
        /\ \A x \in Cells : /\ DataOf(a, x) = DataOf(m, x)
                            /\ PrevOf(a, x) = PrevOf(m, x)
                            /\ NextOf(a, x) = IF x = before THEN after ELSE NextOf(m, x)
        /\ \A k \in Objects : /\ HeadOf(a, k) = HeadOf(m, k) /\ TailOf(a, k) = TailOf(m, k)
                              /\ CountOf(a, k) = CountOf(m, k)
    <3>1. m \in ListMemory /\ before \in Pointers /\ after \in Pointers
      BY <1>1, <1>2 DEF Pointers
    <3> QED BY <3>1, <2>11, LinkedNext
  <2>4. /\ b \in ListMemory
        /\ \A x \in Cells : /\ DataOf(b, x) = DataOf(a, x)
                            /\ PrevOf(b, x) = IF x = after THEN before ELSE PrevOf(a, x)
                            /\ NextOf(b, x) = NextOf(a, x)
        /\ \A k \in Objects : /\ HeadOf(b, k) = HeadOf(a, k) /\ TailOf(b, k) = TailOf(a, k)
                              /\ CountOf(b, k) = CountOf(a, k)
    <3>1. a \in ListMemory /\ before \in Pointers /\ after \in Pointers
      BY <1>2, <2>3 DEF Pointers
    <3> QED BY <3>1, <2>12, LinkedPrev
  <2>5. CountOf(b, l) + change \in Nat /\ CountOf(b, l) = CountOf(m, l) /\ CountOf(m, l) \in Nat
    BY <1>1, <1>2, <2>3, <2>4, <2>14, ListFields
  <2>6. /\ d \in ListMemory
        /\ \A x \in Cells : /\ DataOf(d, x) = DataOf(b, x)
                            /\ PrevOf(d, x) = PrevOf(b, x)
                            /\ NextOf(d, x) = NextOf(b, x)
        /\ \A k \in Objects : /\ HeadOf(d, k) = IF k = l THEN head ELSE HeadOf(b, k)
                              /\ TailOf(d, k) = IF k = l THEN tail ELSE TailOf(b, k)
                              /\ CountOf(d, k) = IF k = l THEN CountOf(b, l) + change ELSE CountOf(b, k)
    <3>1. b \in ListMemory /\ head \in Pointers /\ tail \in Pointers /\ change \in Int
      BY <2>4, <2>14, <2>15 DEF Pointers
    <3>2. CountOf(b, l) + change \in Nat
      BY <2>5
    <3> QED BY <3>1, <3>2, <2>13, RecountedIs
  <2>7. /\ r \in ListMemory
        /\ \A x \in Cells : /\ DataOf(r, x) = IF x = c THEN Null ELSE DataOf(d, x)
                            /\ PrevOf(r, x) = IF x = c THEN Null ELSE PrevOf(d, x)
                            /\ NextOf(r, x) = IF x = c THEN Null ELSE NextOf(d, x)
        /\ \A k \in Objects : /\ HeadOf(r, k) = HeadOf(d, k) /\ TailOf(r, k) = TailOf(d, k)
                              /\ CountOf(r, k) = CountOf(d, k)
    BY <1>2, <2>1, <2>6, DeletedIs
  <2>8. ASSUME NEW x \in Cells
        PROVE  /\ DataOf(r, x) = IF x = c THEN Null ELSE DataOf(m, x)
               /\ PrevOf(r, x) = IF x = c THEN Null ELSE IF x = after THEN before ELSE PrevOf(m, x)
               /\ NextOf(r, x) = IF x = c THEN Null ELSE IF x = before THEN after ELSE NextOf(m, x)
    BY <2>3, <2>4, <2>6, <2>7
  <2>9. ASSUME NEW k \in Objects
        PROVE  /\ HeadOf(r, k) = IF k = l /\ c = HeadOf(m, l) THEN after ELSE HeadOf(m, k)
               /\ TailOf(r, k) = IF k = l /\ c = TailOf(m, l) THEN before ELSE TailOf(m, k)
               /\ CountOf(r, k) = IF k = l THEN CountOf(m, l) - 1 ELSE CountOf(m, k)
    <3>1. HeadOf(r, k) = HeadOf(m, k) /\ TailOf(r, k) = TailOf(m, k)
      BY <2>3, <2>4, <2>6, <2>7, <2>15
    <3>2. CountOf(r, k) = IF k = l THEN CountOf(m, l) - 1 ELSE CountOf(m, k)
      BY <2>3, <2>4, <2>5, <2>6, <2>7, <2>14
    <3> QED BY <1>5, <3>1, <3>2
  <2>10. Removal(r, m, l, c)
    BY <2>7, <2>8, <2>9 DEF Removal, before, after
  <2> QED BY <2>10 DEF c
<1> QED BY <1>3, <1>4, <1>5

(* RemoveAt, told element by element.                                      *)
LEMMA RemoveAtIs ==
  ASSUME NEW S, NEW v \in Seq(S), NEW i \in 1 .. Len(v)
  PROVE  List!RemoveAt(v, i) = Dropped(v, Len(v), i)
<1> DEFINE n == Len(v)
           a == SubSeq(v, 1, i - 1)
           b == SubSeq(v, i + 1, n)
           t == a \o b
<1>1. n \in Nat /\ i \in 1 .. n /\ i \in Int
  OBVIOUS
<1>2. a \in Seq(S) /\ Len(a) = i - 1 /\ \A j \in 1 .. i - 1 : a[j] = v[j]
  OBVIOUS
<1>3. b \in Seq(S) /\ Len(b) = n - i /\ \A j \in 1 .. n - i : b[j] = v[i + j]
  OBVIOUS
<1>4. List!RemoveAt(v, i) = t
  BY Zenon DEF List!RemoveAt
<1> HIDE DEF a, b, n
<1>5. t \in Seq(S) /\ Len(t) = Len(a) + Len(b) /\ \A j \in 1 .. Len(a) + Len(b) :
        t[j] = IF j <= Len(a) THEN a[j] ELSE b[j - Len(a)]
  BY <1>2, <1>3, ConcatProperties
<1> HIDE DEF t
<1>6. Len(t) = n - 1
  BY <1>1, <1>2, <1>3, <1>5
<1>7. ASSUME NEW j \in 1 .. n - 1 PROVE t[j] = v[Skip(i, j)]
  <2>1. j \in 1 .. Len(a) + Len(b) /\ j \in Int
    BY <1>1, <1>2, <1>3
  <2>2. CASE j < i
    <3>1. t[j] = a[j] /\ a[j] = v[j] /\ Skip(i, j) = j
      BY <1>1, <1>2, <1>5, <2>1, <2>2 DEF Skip
    <3> QED BY <3>1
  <2>3. CASE ~ (j < i)
    <3> DEFINE d == j - (i - 1)
    <3>1. d \in 1 .. n - i /\ i + d = j + 1 /\ ~ (j <= Len(a)) /\ j - Len(a) = d
      BY <1>1, <1>2, <2>1, <2>3
    <3>2. t[j] = b[d]
      BY <1>5, <2>1, <3>1
    <3>3. b[d] = v[j + 1]
      BY <1>3, <3>1
    <3>4. Skip(i, j) = j + 1
      BY <2>3 DEF Skip
    <3> QED BY <3>2, <3>3, <3>4
  <2> QED BY <2>2, <2>3
<1>8. t = [j \in 1 .. n - 1 |-> t[j]]
  BY <1>5, <1>6
<1> QED BY <1>4, <1>7, <1>8 DEF Dropped, n

(* Tail, told as a drop.                                                   *)
LEMMA TailIs ==
  ASSUME NEW S, NEW v \in Seq(S), Len(v) > 0
  PROVE  Tail(v) = Dropped(v, Len(v), 1)
<1> DEFINE t == Tail(v)
           n == Len(v)
<1>1. n \in Nat
  OBVIOUS
<1>2. t \in Seq(S) /\ Len(t) = n - 1 /\ \A j \in 1 .. n - 1 : t[j] = v[j + 1]
  OBVIOUS
<1> HIDE DEF t, n
<1>3. t = [j \in 1 .. n - 1 |-> t[j]]
  BY <1>2
<1>4. \A j \in 1 .. n - 1 : Skip(1, j) = j + 1
  BY DEF Skip
<1> QED BY <1>2, <1>3, <1>4 DEF Dropped, t, n

(* Front, told as a drop.                                                  *)
LEMMA FrontIs ==
  ASSUME NEW S, NEW v \in Seq(S), Len(v) > 0
  PROVE  List!Front(v) = Dropped(v, Len(v), Len(v))
<1> DEFINE n == Len(v)
           t == SubSeq(v, 1, n - 1)
<1>1. List!Front(v) = t
  BY Zenon DEF List!Front
<1>2. n \in Nat /\ t \in Seq(S) /\ Len(t) = n - 1 /\ \A j \in 1 .. n - 1 : t[j] = v[j]
  <2>1. n \in Nat /\ n > 0
    OBVIOUS
  <2>2. t \in Seq(S) /\ Len(t) = n - 1
    <3>1. n - 1 \in Int /\ \A j \in 1 .. n - 1 : v[j] \in S
      OBVIOUS
    <3>2. t \in Seq(S) /\ Len(t) = IF 1 <= n - 1 THEN n - 1 - 1 + 1 ELSE 0
      BY <3>1, SubSeqProperties
    <3> HIDE DEF t, n
    <3> QED BY <2>1, <3>2
  <2>3. \A j \in 1 .. n - 1 : t[j] = v[j]
    OBVIOUS
  <2> QED BY <2>1, <2>2, <2>3
<1> HIDE DEF t, n
<1>3. t = [j \in 1 .. n - 1 |-> t[j]]
  BY <1>2
<1>4. \A j \in 1 .. n - 1 : Skip(n, j) = j
  BY <1>2 DEF Skip
<1> QED BY <1>1, <1>2, <1>3, <1>4 DEF Dropped, n

(* What a list holds is a sequence of data as long as its chain.           *)
LEMMA ValuesAre ==
  ASSUME NEW m, NEW chain, ListChains(m, chain), NEW l \in Objects
  PROVE  ListValues(m, chain, l) \in Seq(Datum) /\ Len(ListValues(m, chain, l)) = Len(chain[l])
<1>1. IsLinked(m, l, chain[l]) /\ Len(chain[l]) \in Nat
  BY ListOnChain
<1>2. \A i \in 1 .. Len(chain[l]) : DataOf(m, chain[l][i]) \in Datum
  BY <1>1 DEF IsLinked
<1> QED BY <1>1, <1>2 DEF ListValues

(* What removeNode does to the sequence of a list.                         *)
LEMMA RemoveNodeTurns ==
  ASSUME NEW m, NEW chain, ListChains(m, chain), NEW l \in Objects, NEW i \in 1 .. Len(chain[l])
  PROVE  Turns(List!RemoveNode(m, l, chain[l][i]), m, chain, l,
               List!RemoveAt(ListValues(m, chain, l), i))
<1> DEFINE r == List!RemoveNode(m, l, chain[l][i])
           v == ListValues(m, chain, l)
<1>1. Removal(r, m, l, chain[l][i])
  BY RemoveNodeRemoves
<1>2. v \in Seq(Datum) /\ Len(v) = Len(chain[l])
  BY ValuesAre
<1> HIDE DEF r
<1>3. Turns(r, m, chain, l, Dropped(v, Len(chain[l]), i))
  BY <1>1, RemovalShortens
<1> HIDE DEF v
<1>4. List!RemoveAt(v, i) = Dropped(v, Len(chain[l]), i)
  BY <1>2, RemoveAtIs
<1> QED BY <1>3, <1>4, Zenon DEF r, v

(* What popFront does to the sequence of a list.                           *)
LEMMA PopFrontTurns ==
  ASSUME NEW m, NEW chain, ListChains(m, chain), NEW l \in Objects, Len(chain[l]) > 0
  PROVE  Turns(List!PopFront(m, l), m, chain, l, Tail(ListValues(m, chain, l)))
<1> DEFINE r == List!PopFront(m, l)
           v == ListValues(m, chain, l)
<1>1. HeadOf(m, l) = chain[l][1] /\ Removal(r, m, l, HeadOf(m, l))
  BY PopFrontRemoves
<1>2. v \in Seq(Datum) /\ Len(v) = Len(chain[l]) /\ 1 \in 1 .. Len(chain[l])
  BY ValuesAre, ListOnChain
<1> HIDE DEF r
<1>3. Removal(r, m, l, chain[l][1])
  BY <1>1
<1>4. Turns(r, m, chain, l, Dropped(v, Len(chain[l]), 1))
  BY <1>2, <1>3, RemovalShortens
<1> HIDE DEF v
<1>5. Tail(v) = Dropped(v, Len(chain[l]), 1)
  BY <1>2, TailIs
<1> QED BY <1>4, <1>5, Zenon DEF r, v

(* What popBack does to the sequence of a list.                            *)
LEMMA PopBackTurns ==
  ASSUME NEW m, NEW chain, ListChains(m, chain), NEW l \in Objects, Len(chain[l]) > 0
  PROVE  Turns(List!PopBack(m, l), m, chain, l, List!Front(ListValues(m, chain, l)))
<1> DEFINE r == List!PopBack(m, l)
           v == ListValues(m, chain, l)
           n == Len(chain[l])
<1>1. TailOf(m, l) = chain[l][n] /\ Removal(r, m, l, TailOf(m, l))
  BY PopBackRemoves
<1>2. v \in Seq(Datum) /\ Len(v) = n /\ n \in 1 .. n /\ n > 0
  BY ValuesAre, ListOnChain
<1> HIDE DEF r
<1>3. Removal(r, m, l, chain[l][n])
  BY <1>1
<1>4. Turns(r, m, chain, l, Dropped(v, n, n))
  BY <1>2, <1>3, RemovalShortens
<1> HIDE DEF v, n
<1>5. List!Front(v) = Dropped(v, n, n)
  BY <1>2, FrontIs
<1> QED BY <1>4, <1>5, Zenon DEF r, v

-----------------------------------------------------------------------------
(* Putting a node in.                                                      *)

(* r is m with the free cell c, holding v, between nodes p and n of l.     *)
Insertion(r, m, l, c, v, p, n) ==
  /\ r \in ListMemory
  /\ \A x \in Cells :
       /\ DataOf(r, x) = IF x = c THEN v ELSE DataOf(m, x)
       /\ PrevOf(r, x) = IF x = c THEN p ELSE IF x = n THEN c ELSE PrevOf(m, x)
       /\ NextOf(r, x) = IF x = c THEN n ELSE IF x = p THEN c ELSE NextOf(m, x)
  /\ \A k \in Objects :
       /\ HeadOf(r, k) = IF k = l /\ p = Null THEN c ELSE HeadOf(m, k)
       /\ TailOf(r, k) = IF k = l /\ n = Null THEN c ELSE TailOf(m, k)
       /\ CountOf(r, k) = IF k = l THEN CountOf(m, l) + 1 ELSE CountOf(m, k)

(* s, of length n, with c in place i and what was there behind it.         *)
Inserted(s, n, i, c) == [j \in 1 .. n + 1 |-> IF j < i THEN s[j] ELSE IF j = i THEN c ELSE s[j - 1]]

(* A new node in place i comes between these.                              *)
Between(s, i, before, after) ==
  /\ before = IF i = 1 THEN Null ELSE s[i - 1]
  /\ after = IF i = Len(s) + 1 THEN Null ELSE s[i]

(* One cell that was free in m is not in r, and that is all.               *)
OneTaken(r, m) == \E c \in List!FreeCells(m) : List!FreeCells(r) = List!FreeCells(m) \ {c}

(* A free cell put between two neighbours adds its value there.            *)
LEMMA InsertionLengthens ==
  ASSUME NEW m, NEW chain, ListChains(m, chain), NEW l \in Objects, NEW i \in 1 .. Len(chain[l]) + 1,
         NEW c \in List!FreeCells(m), NEW v \in Datum,
         NEW before, NEW after, Between(chain[l], i, before, after),
         NEW r, Insertion(r, m, l, c, v, before, after)
  PROVE  /\ Turns(r, m, chain, l, Inserted(ListValues(m, chain, l), Len(chain[l]), i, v))
         /\ OneTaken(r, m)
<1> DEFINE s == chain[l]
           n == Len(s)
           t == Inserted(s, n, i, c)
           later == Rechained(chain, l, t)
<1>1. /\ IsLinked(m, l, s) /\ s \in Seq(Cells) /\ n \in Nat /\ i \in 1 .. n + 1 /\ m \in ListMemory
      /\ \A k \in 1 .. n : s[k] \in Cells /\ s[k] # Null /\ s[k] \notin List!FreeCells(m)
  BY ListOnChain
<1>2. ChainCells(chain, l) = {s[k] : k \in 1 .. n}
  BY DEF ChainCells
<1>3. before = (IF i = 1 THEN Null ELSE s[i - 1]) /\ after = IF i = n + 1 THEN Null ELSE s[i]
  BY DEF Between
<1>4. ListValues(m, chain, l) = [j \in 1 .. n |-> DataOf(m, s[j])]
  BY DEF ListValues
<1>5. c \in Cells /\ c # Null /\ IsBlank(m, c) /\ \A k \in 1 .. n : s[k] # c
  BY <1>1, ListFree, ContainersAssumption
<1> HIDE DEF s, n
<1>6. /\ \A a, b \in 1 .. n : s[a] = s[b] => a = b
      /\ HeadOf(m, l) = IF n = 0 THEN Null ELSE s[1]
      /\ TailOf(m, l) = IF n = 0 THEN Null ELSE s[n]
      /\ CountOf(m, l) = n
      /\ \A k \in 1 .. n : /\ DataOf(m, s[k]) \in Datum
                           /\ PrevOf(m, s[k]) = IF k = 1 THEN Null ELSE s[k - 1]
                           /\ NextOf(m, s[k]) = IF k = n THEN Null ELSE s[k + 1]
  <2>1. s = <<>> <=> n = 0
    BY <1>1 DEF n
  <2> QED BY <1>1, <2>1 DEF IsLinked, n
<1>7. ASSUME NEW k \in 1 .. n
      PROVE  /\ s[k] = before <=> k = i - 1
             /\ s[k] = after <=> k = i
  <2>1. s[k] = before <=> k = i - 1
    <3>1. CASE i = 1
      BY <1>1, <1>3, <3>1
    <3>2. CASE i # 1
      <4>1. i - 1 \in 1 .. n
        BY <1>1, <3>2
      <4> QED BY <1>3, <1>6, <3>2, <4>1
    <3> QED BY <3>1, <3>2
  <2>2. s[k] = after <=> k = i
    <3>1. CASE i = n + 1
      BY <1>1, <1>3, <3>1
    <3>2. CASE i # n + 1
      <4>1. i \in 1 .. n
        BY <1>1, <3>2
      <4> QED BY <1>3, <1>6, <3>2, <4>1
    <3> QED BY <3>1, <3>2
  <2> QED BY <2>1, <2>2
<1>8. /\ t \in Seq(Cells) /\ Len(t) = n + 1
      /\ \A j \in 1 .. n + 1 : t[j] = IF j < i THEN s[j] ELSE IF j = i THEN c ELSE s[j - 1]
  <2>1. ASSUME NEW j \in 1 .. n + 1
        PROVE  (IF j < i THEN s[j] ELSE IF j = i THEN c ELSE s[j - 1]) \in Cells
    <3>1. CASE j < i
      <4>1. j \in 1 .. n
        BY <1>1, <3>1
      <4> QED BY <1>1, <3>1, <4>1
    <3>2. CASE j = i
      BY <1>5, <3>2
    <3>3. CASE ~ (j < i) /\ j # i
      <4>1. j - 1 \in 1 .. n
        BY <1>1, <3>3
      <4> QED BY <1>1, <3>3, <4>1
    <3> QED BY <3>1, <3>2, <3>3
  <2>2. n + 1 \in Nat
    BY <1>1
  <2> QED BY <2>1, <2>2 DEF Inserted
<1> HIDE DEF t
<1>9. \A j \in 1 .. n + 1 : /\ j < i => j \in 1 .. n /\ t[j] = s[j]
                            /\ j = i => t[j] = c
                            /\ j > i => j - 1 \in 1 .. n /\ t[j] = s[j - 1]
  BY <1>1, <1>8
<1>10. \A j, k \in 1 .. n + 1 : t[j] = t[k] => j = k
  <2> SUFFICES ASSUME NEW j \in 1 .. n + 1, NEW k \in 1 .. n + 1, t[j] = t[k] PROVE j = k
    OBVIOUS
  <2>1. CASE j = i
    BY <1>1, <1>5, <1>9, <2>1
  <2>2. CASE k = i
    BY <1>1, <1>5, <1>9, <2>2
  <2>3. CASE j < i /\ k < i
    BY <1>6, <1>9, <2>3
  <2>4. CASE j > i /\ k > i
    <3>1. j - 1 = k - 1
      BY <1>6, <1>9, <2>4
    <3> QED BY <3>1
  <2>5. CASE j < i /\ k > i
    <3>1. j = k - 1
      BY <1>6, <1>9, <2>5
    <3> QED BY <2>5, <3>1
  <2>6. CASE j > i /\ k < i
    <3>1. j - 1 = k
      BY <1>6, <1>9, <2>6
    <3> QED BY <2>6, <3>1
  <2> QED BY <1>1, <2>1, <2>2, <2>3, <2>4, <2>5, <2>6
<1>11. \A k \in 1 .. n : \E j \in 1 .. n + 1 : t[j] = s[k]
  <2> TAKE k \in 1 .. n
  <2>1. CASE k < i
    <3>1. k \in 1 .. n + 1
      BY <1>1
    <3> QED BY <1>9, <2>1, <3>1
  <2>2. CASE ~ (k < i)
    <3>1. k + 1 \in 1 .. n + 1 /\ k + 1 > i /\ (k + 1) - 1 = k
      BY <1>1, <2>2
    <3> QED BY <1>9, <3>1
  <2> QED BY <2>1, <2>2
<1>12. /\ r \in ListMemory
       /\ \A x \in Cells :
            /\ DataOf(r, x) = IF x = c THEN v ELSE DataOf(m, x)
            /\ PrevOf(r, x) = IF x = c THEN before ELSE IF x = after THEN c ELSE PrevOf(m, x)
            /\ NextOf(r, x) = IF x = c THEN after ELSE IF x = before THEN c ELSE NextOf(m, x)
       /\ \A k \in Objects :
            /\ HeadOf(r, k) = IF k = l /\ before = Null THEN c ELSE HeadOf(m, k)
            /\ TailOf(r, k) = IF k = l /\ after = Null THEN c ELSE TailOf(m, k)
            /\ CountOf(r, k) = IF k = l THEN CountOf(m, l) + 1 ELSE CountOf(m, k)
  BY Zenon DEF Insertion
<1>13. DataOf(r, c) = v /\ PrevOf(r, c) = before /\ NextOf(r, c) = after
  BY <1>5, <1>12
<1>14. ASSUME NEW k \in 1 .. n
       PROVE  /\ DataOf(r, s[k]) = DataOf(m, s[k])
              /\ PrevOf(r, s[k]) = IF k = i THEN c ELSE IF k = 1 THEN Null ELSE s[k - 1]
              /\ NextOf(r, s[k]) = IF k = i - 1 THEN c ELSE IF k = n THEN Null ELSE s[k + 1]
  <2> DEFINE x == s[k]
  <2>1. x \in Cells /\ x # c /\ (x = after <=> k = i) /\ (x = before <=> k = i - 1)
    BY <1>1, <1>5, <1>7
  <2>2. PrevOf(m, x) = (IF k = 1 THEN Null ELSE s[k - 1]) /\ NextOf(m, x) = IF k = n THEN Null ELSE s[k + 1]
    BY <1>6
  <2> HIDE DEF x
  <2>3. /\ DataOf(r, x) = DataOf(m, x)
        /\ PrevOf(r, x) = IF k = i THEN c ELSE PrevOf(m, x)
        /\ NextOf(r, x) = IF k = i - 1 THEN c ELSE NextOf(m, x)
    BY <1>12, <2>1
  <2> QED BY <2>2, <2>3 DEF x
<1>15. ASSUME NEW j \in 1 .. n + 1
       PROVE  /\ DataOf(r, t[j]) \in Datum
              /\ PrevOf(r, t[j]) = IF j = 1 THEN Null ELSE t[j - 1]
              /\ NextOf(r, t[j]) = IF j = n + 1 THEN Null ELSE t[j + 1]
  <2>0. j \in Int /\ i \in Int /\ n \in Int /\ 1 <= j /\ 1 <= i /\ j <= n + 1 /\ i <= n + 1
    BY <1>1
  <2>1. CASE j = i
    <3>1. t[j] = c
      BY <1>9, <2>1
    <3>2. j # 1 => t[j - 1] = s[i - 1]
      <4>1. j # 1 => j - 1 \in 1 .. n + 1 /\ j - 1 < i
        BY <2>0, <2>1
      <4> QED BY <1>9, <2>1, <4>1
    <3>3. j # n + 1 => t[j + 1] = s[i]
      <4>1. j # n + 1 => j + 1 \in 1 .. n + 1 /\ j + 1 > i /\ (j + 1) - 1 = i
        BY <2>0, <2>1
      <4> QED BY <1>9, <4>1
    <3> QED BY <1>3, <1>13, <2>1, <3>1, <3>2, <3>3
  <2>2. CASE j < i
    <3>1. j \in 1 .. n /\ t[j] = s[j] /\ j # i
      BY <1>9, <2>0, <2>2
    <3>2. j # 1 => t[j - 1] = s[j - 1]
      <4>1. j # 1 => j - 1 \in 1 .. n + 1 /\ j - 1 < i
        BY <2>0, <2>2
      <4> QED BY <1>9, <4>1
    <3>3. j = i - 1 => t[j + 1] = c
      <4>1. j = i - 1 => j + 1 \in 1 .. n + 1 /\ j + 1 = i
        BY <2>0, <2>2
      <4> QED BY <1>9, <4>1
    <3>4. j # i - 1 => j # n /\ t[j + 1] = s[j + 1]
      <4>1. j # i - 1 => j + 1 \in 1 .. n + 1 /\ j + 1 < i /\ j # n
        BY <2>0, <2>2
      <4> QED BY <1>9, <4>1
    <3>5. j # n + 1
      BY <2>0, <3>1
    <3>6. /\ DataOf(r, s[j]) = DataOf(m, s[j]) /\ DataOf(m, s[j]) \in Datum
          /\ PrevOf(r, s[j]) = IF j = 1 THEN Null ELSE s[j - 1]
          /\ NextOf(r, s[j]) = IF j = i - 1 THEN c ELSE IF j = n THEN Null ELSE s[j + 1]
      BY <1>6, <1>14, <3>1
    <3> QED BY <3>1, <3>2, <3>3, <3>4, <3>5, <3>6
  <2>3. CASE j > i
    <3> DEFINE k == j - 1
    <3>1. k \in 1 .. n /\ t[j] = s[k] /\ k # i - 1 /\ j # 1 /\ (k = n <=> j = n + 1)
      BY <1>9, <2>0, <2>3
    <3>2. k = i => t[j - 1] = c
      <4>1. k = i => j - 1 \in 1 .. n + 1 /\ j - 1 = i
        BY <2>0, <2>3
      <4> QED BY <1>9, <4>1
    <3>3. k # i => k # 1 /\ t[j - 1] = s[k - 1]
      <4>1. k # i => j - 1 \in 1 .. n + 1 /\ j - 1 > i /\ k # 1
        BY <2>0, <2>3
      <4> QED BY <1>9, <4>1
    <3>4. j # n + 1 => t[j + 1] = s[k + 1]
      <4>1. j # n + 1 => j + 1 \in 1 .. n + 1 /\ j + 1 > i /\ (j + 1) - 1 = k + 1
        BY <2>0, <2>3
      <4> QED BY <1>9, <4>1
    <3>5. /\ DataOf(r, s[k]) = DataOf(m, s[k]) /\ DataOf(m, s[k]) \in Datum
          /\ PrevOf(r, s[k]) = IF k = i THEN c ELSE IF k = 1 THEN Null ELSE s[k - 1]
          /\ NextOf(r, s[k]) = IF k = i - 1 THEN c ELSE IF k = n THEN Null ELSE s[k + 1]
      BY <1>6, <1>14, <3>1
    <3> QED BY <3>1, <3>2, <3>3, <3>4, <3>5
  <2> QED BY <2>0, <2>1, <2>2, <2>3
<1>16. IsLinked(r, l, t)
  <2>1. CountOf(r, l) = n + 1
    BY <1>6, <1>12
  <2>2. t # <<>>
    BY <1>1, <1>8
  <2>3. HeadOf(r, l) = t[1]
    <3>1. 1 \in 1 .. n + 1
      BY <1>1
    <3>2. CASE i = 1
      BY <1>3, <1>9, <1>12, <3>1, <3>2
    <3>3. CASE i # 1
      <4>1. i - 1 \in 1 .. n /\ 1 < i /\ n # 0
        BY <1>1, <3>3
      <4>2. before # Null
        BY <1>1, <1>3, <3>3, <4>1
      <4> QED BY <1>6, <1>9, <1>12, <3>1, <4>1, <4>2
    <3> QED BY <3>2, <3>3
  <2>4. TailOf(r, l) = t[n + 1]
    <3>1. n + 1 \in 1 .. n + 1
      BY <1>1
    <3>2. CASE i = n + 1
      BY <1>3, <1>9, <1>12, <3>1, <3>2
    <3>3. CASE i # n + 1
      <4>1. i \in 1 .. n /\ n + 1 > i /\ n # 0 /\ (n + 1) - 1 = n
        BY <1>1, <3>3
      <4>2. after # Null
        BY <1>1, <1>3, <3>3, <4>1
      <4> QED BY <1>6, <1>9, <1>12, <3>1, <4>1, <4>2
    <3> QED BY <3>2, <3>3
  <2> QED BY <1>8, <1>10, <1>15, <2>1, <2>2, <2>3, <2>4 DEF IsLinked
<1>17. \A j \in 1 .. Len(t) : t[j] \in ChainCells(chain, l) \cup List!FreeCells(m)
  <2> TAKE j \in 1 .. Len(t)
  <2>1. j \in 1 .. n + 1
    BY <1>8
  <2>2. CASE j < i
    BY <1>2, <1>9, <2>1, <2>2
  <2>3. CASE j = i
    BY <1>9, <2>1, <2>3
  <2>4. CASE j > i
    BY <1>2, <1>9, <2>1, <2>4
  <2> QED BY <1>1, <2>1, <2>2, <2>3, <2>4
<1>18. \A k \in Objects \ {l} : /\ HeadOf(r, k) = HeadOf(m, k) /\ TailOf(r, k) = TailOf(m, k)
                                /\ CountOf(r, k) = CountOf(m, k)
  BY <1>12
<1>19. \A x \in Cells : (\A k \in 1 .. n : x # s[k]) => x # before /\ x # after
  <2> SUFFICES ASSUME NEW x \in Cells, \A k \in 1 .. n : x # s[k] PROVE x # before /\ x # after
    OBVIOUS
  <2>1. x # Null
    BY ContainersAssumption
  <2>2. x # before
    <3>1. i # 1 => i - 1 \in 1 .. n
      BY <1>1
    <3> QED BY <1>3, <2>1, <3>1
  <2>3. x # after
    <3>1. i # n + 1 => i \in 1 .. n
      BY <1>1
    <3> QED BY <1>3, <2>1, <3>1
  <2> QED BY <2>2, <2>3
<1>20. ASSUME NEW x \in Cells, \A j \in 1 .. Len(t) : t[j] # x
       PROVE  IF x \in ChainCells(chain, l) THEN IsBlank(r, x) ELSE SameNode(r, m, x)
  <2>1. \A k \in 1 .. n : x # s[k]
    BY <1>8, <1>11, <1>20
  <2>2. x # c
    BY <1>1, <1>8, <1>9, <1>20
  <2>3. x \notin ChainCells(chain, l)
    BY <1>2, <2>1
  <2>4. SameNode(r, m, x)
    BY <1>12, <1>19, <2>1, <2>2 DEF SameNode
  <2> QED BY <2>3, <2>4
<1>21. r \in ListMemory
  BY <1>12
<1> HIDE DEF later
<1>22. /\ ListChains(r, later)
       /\ \A k \in Objects \ {l} : ListValues(r, later, k) = ListValues(m, chain, k)
       /\ ListValues(r, later, l) = [j \in 1 .. Len(t) |-> DataOf(r, t[j])]
  BY <1>16, <1>17, <1>18, <1>20, <1>21, Relinked DEF later
<1>23. ListValues(r, later, l) = Inserted(ListValues(m, chain, l), n, i, v)
  <2> DEFINE w == ListValues(m, chain, l)
  <2>1. \A k \in 1 .. n : w[k] = DataOf(m, s[k])
    BY <1>4
  <2> HIDE DEF w
  <2>2. ASSUME NEW j \in 1 .. n + 1
        PROVE  DataOf(r, t[j]) = IF j < i THEN w[j] ELSE IF j = i THEN v ELSE w[j - 1]
    <3>1. CASE j < i
      BY <1>9, <1>14, <2>1, <3>1
    <3>2. CASE j = i
      BY <1>9, <1>13, <3>2
    <3>3. CASE j > i
      <4>1. j - 1 \in 1 .. n /\ t[j] = s[j - 1] /\ ~ (j < i) /\ j # i
        BY <1>1, <1>9, <3>3
      <4> QED BY <1>14, <2>1, <4>1
    <3> QED BY <1>1, <3>1, <3>2, <3>3
  <2>3. ListValues(r, later, l) = [j \in 1 .. n + 1 |-> DataOf(r, t[j])]
    BY <1>8, <1>22
  <2> QED BY <2>2, <2>3 DEF Inserted, w
<1>24. ASSUME NEW x \in Cells PROVE IsBlank(r, x) <=> IsBlank(m, x) /\ x # c
  <2>1. CASE x = c
    <3>1. DataOf(r, x) # Null
      BY <1>13, <2>1, ContainersAssumption
    <3> QED BY <2>1, <3>1 DEF IsBlank
  <2>2. CASE \E k \in 1 .. n : x = s[k]
    <3>1. PICK k \in 1 .. n : x = s[k]
      BY <2>2
    <3>2. DataOf(r, x) # Null /\ DataOf(m, x) # Null
      BY <1>6, <1>14, <3>1, ContainersAssumption
    <3> QED BY <3>2 DEF IsBlank
  <2>3. CASE x # c /\ \A k \in 1 .. n : x # s[k]
    BY <1>12, <1>19, <2>3 DEF IsBlank
  <2> QED BY <2>1, <2>2, <2>3
<1>25. List!FreeCells(r) = List!FreeCells(m) \ {c}
  BY <1>1, <1>21, <1>24, ListFree
<1> QED BY <1>22, <1>23, <1>25, Zenon DEF Turns, OneTaken, n, s

(* Append, told as an insertion.                                           *)
LEMMA InsertedLast ==
  ASSUME NEW S, NEW w \in Seq(S), NEW v \in S
  PROVE  Inserted(w, Len(w), Len(w) + 1, v) = Append(w, v)
<1> DEFINE n == Len(w)
           a == Inserted(w, n, n + 1, v)
<1>1. n \in Nat
  OBVIOUS
<1>2. \A j \in 1 .. n + 1 : j < n + 1 <=> j # n + 1
  BY <1>1
<1> HIDE DEF n
<1>3. a = [j \in 1 .. n + 1 |-> IF j = n + 1 THEN v ELSE w[j]]
  BY <1>2 DEF Inserted
<1> HIDE DEF a
<1>4. a = Append(w, v)
  BY <1>3, AppendedIs DEF n
<1> QED BY <1>4 DEF a, n

(* A sequence put behind an element, told as an insertion.                 *)
LEMMA InsertedFirst ==
  ASSUME NEW S, NEW w \in Seq(S), NEW v \in S
  PROVE  Inserted(w, Len(w), 1, v) = <<v>> \o w
<1> DEFINE n == Len(w)
           a == Inserted(w, n, 1, v)
           one == <<v>>
           b == one \o w
<1>1. n \in Nat
  OBVIOUS
<1>2. one \in Seq(S) /\ Len(one) = 1 /\ one[1] = v
  OBVIOUS
<1> HIDE DEF one
<1>3. /\ b \in Seq(S) /\ Len(b) = 1 + n
      /\ \A j \in 1 .. 1 + n : b[j] = IF j <= 1 THEN one[j] ELSE w[j - 1]
  <2>1. w \in Seq(S) /\ Len(w) = n
    OBVIOUS
  <2> HIDE DEF n
  <2>2. /\ b \in Seq(S) /\ Len(b) = Len(one) + Len(w)
        /\ \A j \in 1 .. Len(one) + Len(w) : b[j] = IF j <= Len(one) THEN one[j] ELSE w[j - Len(one)]
    BY <1>2, ConcatProperties
  <2> HIDE DEF b
  <2> QED BY <1>2, <2>1, <2>2
<1> HIDE DEF n, b
<1>4. b = [j \in 1 .. n + 1 |-> b[j]]
  BY <1>1, <1>3
<1>5. \A j \in 1 .. n + 1 : b[j] = IF j < 1 THEN w[j] ELSE IF j = 1 THEN v ELSE w[j - 1]
  BY <1>1, <1>2, <1>3
<1>6. a = [j \in 1 .. n + 1 |-> IF j < 1 THEN w[j] ELSE IF j = 1 THEN v ELSE w[j - 1]]
  BY Zenon DEF Inserted
<1> HIDE DEF a
<1>7. a = b
  BY <1>4, <1>5, <1>6
<1> QED BY <1>7 DEF a, b, one, n

(* A free cell is neither head nor tail, which are null in an empty list.  *)
LEMMA FreeIsAlone ==
  ASSUME NEW m, NEW chain, ListChains(m, chain), NEW l \in Objects, NEW c \in List!FreeCells(m)
  PROVE  /\ c \in Cells
         /\ HeadOf(m, l) \in Pointers /\ TailOf(m, l) \in Pointers
         /\ HeadOf(m, l) # c /\ TailOf(m, l) # c
         /\ HeadOf(m, l) = IF Len(chain[l]) = 0 THEN Null ELSE chain[l][1]
         /\ TailOf(m, l) = IF Len(chain[l]) = 0 THEN Null ELSE chain[l][Len(chain[l])]
         /\ HeadOf(m, l) = Null <=> Len(chain[l]) = 0
         /\ TailOf(m, l) = Null <=> Len(chain[l]) = 0
<1> DEFINE s == chain[l]
           n == Len(s)
<1>1. /\ IsLinked(m, l, s) /\ s \in Seq(Cells) /\ n \in Nat /\ m \in ListMemory
      /\ \A k \in 1 .. n : s[k] \in Cells /\ s[k] # Null /\ s[k] \notin List!FreeCells(m)
  BY ListOnChain
<1>2. c \in Cells /\ c # Null
  BY <1>1, ListFree, ContainersAssumption
<1> HIDE DEF s
<1>3. s = <<>> <=> n = 0
  BY <1>1
<1>4. HeadOf(m, l) = (IF n = 0 THEN Null ELSE s[1]) /\ TailOf(m, l) = IF n = 0 THEN Null ELSE s[n]
  BY <1>1, <1>3 DEF IsLinked
<1>5. n # 0 => 1 \in 1 .. n /\ n \in 1 .. n
  BY <1>1
<1> HIDE DEF n
<1>6. HeadOf(m, l) \in Pointers /\ HeadOf(m, l) # c /\ (HeadOf(m, l) = Null <=> n = 0)
  BY <1>1, <1>2, <1>4, <1>5 DEF Pointers
<1>7. TailOf(m, l) \in Pointers /\ TailOf(m, l) # c /\ (TailOf(m, l) = Null <=> n = 0)
  BY <1>1, <1>2, <1>4, <1>5 DEF Pointers
<1> QED BY <1>2, <1>4, <1>6, <1>7 DEF n, s

(* DoublyLinkedList::pushBack puts a free cell behind the tail.            *)
LEMMA PushBackInserts ==
  ASSUME NEW m, NEW chain, ListChains(m, chain), NEW l \in Objects, NEW v \in Datum,
         List!FreeCells(m) # {}, NEW r, r = List!PushBack(m, l, v)
  PROVE  \E c \in List!FreeCells(m) : Insertion(r, m, l, c, v, TailOf(m, l), Null)
<1> DEFINE c == CHOOSE c \in List!FreeCells(m) : TRUE
           tail == TailOf(m, l)
           head == IF tail = Null THEN c ELSE HeadOf(m, l)
           a == [m EXCEPT !.node[c] = [data |-> v, prev |-> tail, next |-> Null]]
           b == List!Linked(a, tail, "next", c)
<1>1. c \in List!FreeCells(m)
  OBVIOUS
<1>2. r = List!Recounted(b, l, head, c, 1)
  BY Zenon DEF List!PushBack, HeadOf, TailOf
<1>3. b = List!Linked(a, tail, "next", c)
  OBVIOUS
<1>4. a = [m EXCEPT !.node[c] = [data |-> v, prev |-> tail, next |-> Null]]
  OBVIOUS
<1> HIDE DEF a, b, c
<1>5. /\ c \in Cells /\ c # Null /\ tail \in Pointers /\ tail # c /\ HeadOf(m, l) \in Pointers
      /\ m \in ListMemory /\ IsBlank(m, c)
      /\ TailOf(m, l) = Null <=> HeadOf(m, l) = Null
  BY <1>1, FreeIsAlone, ListOnChain, ListFree, ContainersAssumption
<1>6. v \in Datum \cup {Null} /\ Null \in Pointers /\ c \in Pointers /\ head \in Pointers
  BY <1>5 DEF Pointers
<1> HIDE DEF tail, head
<1>7. /\ a \in ListMemory
      /\ \A x \in Cells : /\ DataOf(a, x) = IF x = c THEN v ELSE DataOf(m, x)
                          /\ PrevOf(a, x) = IF x = c THEN tail ELSE PrevOf(m, x)
                          /\ NextOf(a, x) = IF x = c THEN Null ELSE NextOf(m, x)
      /\ \A k \in Objects : /\ HeadOf(a, k) = HeadOf(m, k) /\ TailOf(a, k) = TailOf(m, k)
                            /\ CountOf(a, k) = CountOf(m, k)
  BY <1>4, <1>5, <1>6, NodeWritten
<1>8. /\ b \in ListMemory
      /\ \A x \in Cells : /\ DataOf(b, x) = DataOf(a, x)
                          /\ PrevOf(b, x) = PrevOf(a, x)
                          /\ NextOf(b, x) = IF x = tail THEN c ELSE NextOf(a, x)
      /\ \A k \in Objects : /\ HeadOf(b, k) = HeadOf(a, k) /\ TailOf(b, k) = TailOf(a, k)
                            /\ CountOf(b, k) = CountOf(a, k)
  <2>1. a \in ListMemory /\ tail \in Pointers /\ c \in Pointers
    BY <1>5, <1>6, <1>7
  <2> QED BY <2>1, <1>3, LinkedNext
<1>9. CountOf(b, l) = CountOf(m, l) /\ CountOf(m, l) \in Nat
  BY <1>5, <1>7, <1>8, ListFields
<1>10. /\ r \in ListMemory
       /\ \A x \in Cells : /\ DataOf(r, x) = DataOf(b, x)
                           /\ PrevOf(r, x) = PrevOf(b, x)
                           /\ NextOf(r, x) = NextOf(b, x)
       /\ \A k \in Objects : /\ HeadOf(r, k) = IF k = l THEN head ELSE HeadOf(b, k)
                             /\ TailOf(r, k) = IF k = l THEN c ELSE TailOf(b, k)
                             /\ CountOf(r, k) = IF k = l THEN CountOf(b, l) + 1 ELSE CountOf(b, k)
  <2>1. b \in ListMemory /\ head \in Pointers /\ c \in Pointers /\ 1 \in Int
    BY <1>6, <1>8
  <2>2. CountOf(b, l) + 1 \in Nat
    BY <1>9
  <2> QED BY <2>1, <2>2, <1>2, RecountedIs
<1>11. ASSUME NEW x \in Cells
       PROVE  /\ DataOf(r, x) = IF x = c THEN v ELSE DataOf(m, x)
              /\ PrevOf(r, x) = IF x = c THEN tail ELSE IF x = Null THEN c ELSE PrevOf(m, x)
              /\ NextOf(r, x) = IF x = c THEN Null ELSE IF x = tail THEN c ELSE NextOf(m, x)
  <2>1. x # Null
    BY ContainersAssumption
  <2> QED BY <1>5, <1>7, <1>8, <1>10, <2>1
<1>12. ASSUME NEW k \in Objects
       PROVE  /\ HeadOf(r, k) = IF k = l /\ tail = Null THEN c ELSE HeadOf(m, k)
              /\ TailOf(r, k) = IF k = l /\ Null = Null THEN c ELSE TailOf(m, k)
              /\ CountOf(r, k) = IF k = l THEN CountOf(m, l) + 1 ELSE CountOf(m, k)
  <2>1. HeadOf(r, k) = IF k = l /\ tail = Null THEN c ELSE HeadOf(m, k)
    BY <1>7, <1>8, <1>10 DEF head
  <2> QED BY <1>7, <1>8, <1>9, <1>10, <2>1
<1>13. Insertion(r, m, l, c, v, tail, Null)
  BY <1>10, <1>11, <1>12 DEF Insertion
<1> QED BY <1>1, <1>13 DEF tail

(* DoublyLinkedList::pushFront puts a free cell before the head.           *)
LEMMA PushFrontInserts ==
  ASSUME NEW m, NEW chain, ListChains(m, chain), NEW l \in Objects, NEW v \in Datum,
         List!FreeCells(m) # {}, NEW r, r = List!PushFront(m, l, v)
  PROVE  \E c \in List!FreeCells(m) : Insertion(r, m, l, c, v, Null, HeadOf(m, l))
<1> DEFINE c == CHOOSE c \in List!FreeCells(m) : TRUE
           head == HeadOf(m, l)
           tail == IF head = Null THEN c ELSE TailOf(m, l)
           a == [m EXCEPT !.node[c] = [data |-> v, prev |-> Null, next |-> head]]
           b == List!Linked(a, head, "prev", c)
<1>1. c \in List!FreeCells(m)
  OBVIOUS
<1>2. r = List!Recounted(b, l, c, tail, 1)
  BY Zenon DEF List!PushFront, HeadOf, TailOf
<1>3. b = List!Linked(a, head, "prev", c)
  OBVIOUS
<1>4. a = [m EXCEPT !.node[c] = [data |-> v, prev |-> Null, next |-> head]]
  OBVIOUS
<1> HIDE DEF a, b, c
<1>5. /\ c \in Cells /\ c # Null /\ head \in Pointers /\ head # c /\ TailOf(m, l) \in Pointers
      /\ m \in ListMemory /\ IsBlank(m, c)
  BY <1>1, FreeIsAlone, ListOnChain, ListFree, ContainersAssumption
<1>6. v \in Datum \cup {Null} /\ Null \in Pointers /\ c \in Pointers /\ tail \in Pointers
  BY <1>5 DEF Pointers
<1> HIDE DEF tail, head
<1>7. /\ a \in ListMemory
      /\ \A x \in Cells : /\ DataOf(a, x) = IF x = c THEN v ELSE DataOf(m, x)
                          /\ PrevOf(a, x) = IF x = c THEN Null ELSE PrevOf(m, x)
                          /\ NextOf(a, x) = IF x = c THEN head ELSE NextOf(m, x)
      /\ \A k \in Objects : /\ HeadOf(a, k) = HeadOf(m, k) /\ TailOf(a, k) = TailOf(m, k)
                            /\ CountOf(a, k) = CountOf(m, k)
  BY <1>4, <1>5, <1>6, NodeWritten
<1>8. /\ b \in ListMemory
      /\ \A x \in Cells : /\ DataOf(b, x) = DataOf(a, x)
                          /\ PrevOf(b, x) = IF x = head THEN c ELSE PrevOf(a, x)
                          /\ NextOf(b, x) = NextOf(a, x)
      /\ \A k \in Objects : /\ HeadOf(b, k) = HeadOf(a, k) /\ TailOf(b, k) = TailOf(a, k)
                            /\ CountOf(b, k) = CountOf(a, k)
  <2>1. a \in ListMemory /\ head \in Pointers /\ c \in Pointers
    BY <1>5, <1>6, <1>7
  <2> QED BY <2>1, <1>3, LinkedPrev
<1>9. CountOf(b, l) = CountOf(m, l) /\ CountOf(m, l) \in Nat
  BY <1>5, <1>7, <1>8, ListFields
<1>10. /\ r \in ListMemory
       /\ \A x \in Cells : /\ DataOf(r, x) = DataOf(b, x)
                           /\ PrevOf(r, x) = PrevOf(b, x)
                           /\ NextOf(r, x) = NextOf(b, x)
       /\ \A k \in Objects : /\ HeadOf(r, k) = IF k = l THEN c ELSE HeadOf(b, k)
                             /\ TailOf(r, k) = IF k = l THEN tail ELSE TailOf(b, k)
                             /\ CountOf(r, k) = IF k = l THEN CountOf(b, l) + 1 ELSE CountOf(b, k)
  <2>1. b \in ListMemory /\ tail \in Pointers /\ c \in Pointers /\ 1 \in Int
    BY <1>6, <1>8
  <2>2. CountOf(b, l) + 1 \in Nat
    BY <1>9
  <2> QED BY <2>1, <2>2, <1>2, RecountedIs
<1>11. ASSUME NEW x \in Cells
       PROVE  /\ DataOf(r, x) = IF x = c THEN v ELSE DataOf(m, x)
              /\ PrevOf(r, x) = IF x = c THEN Null ELSE IF x = head THEN c ELSE PrevOf(m, x)
              /\ NextOf(r, x) = IF x = c THEN head ELSE IF x = Null THEN c ELSE NextOf(m, x)
  <2>1. x # Null
    BY ContainersAssumption
  <2> QED BY <1>5, <1>7, <1>8, <1>10, <2>1
<1>12. ASSUME NEW k \in Objects
       PROVE  /\ HeadOf(r, k) = IF k = l /\ Null = Null THEN c ELSE HeadOf(m, k)
              /\ TailOf(r, k) = IF k = l /\ head = Null THEN c ELSE TailOf(m, k)
              /\ CountOf(r, k) = IF k = l THEN CountOf(m, l) + 1 ELSE CountOf(m, k)
  <2>1. TailOf(r, k) = IF k = l /\ head = Null THEN c ELSE TailOf(m, k)
    BY <1>7, <1>8, <1>10 DEF tail
  <2> QED BY <1>7, <1>8, <1>9, <1>10, <2>1
<1>13. Insertion(r, m, l, c, v, Null, head)
  BY <1>10, <1>11, <1>12 DEF Insertion
<1> QED BY <1>1, <1>13 DEF head

(* What pushBack does to the sequence of a list.                           *)
LEMMA PushBackTurns ==
  ASSUME NEW m, NEW chain, ListChains(m, chain), NEW l \in Objects, NEW v \in Datum,
         List!FreeCells(m) # {}, NEW r, r = List!PushBack(m, l, v)
  PROVE  /\ Turns(r, m, chain, l, Append(ListValues(m, chain, l), v))
         /\ OneTaken(r, m)
<1> DEFINE w == ListValues(m, chain, l)
           n == Len(chain[l])
           before == TailOf(m, l)
           after == Null
           i == n + 1
<1>1. PICK c \in List!FreeCells(m) : Insertion(r, m, l, c, v, before, after)
  BY PushBackInserts
<1>2. n \in Nat /\ i \in 1 .. n + 1 /\ before = IF n = 0 THEN Null ELSE chain[l][n]
  BY FreeIsAlone, ListOnChain
<1>3. Between(chain[l], i, before, after)
  <2> HIDE DEF before, n
  <2>1. (i = 1 <=> n = 0) /\ i - 1 = n
    BY <1>2
  <2> QED BY <1>2, <2>1 DEF Between, n
<1>4. w \in Seq(Datum) /\ Len(w) = n
  BY ValuesAre
<1> HIDE DEF before, after, i
<1>5. /\ Turns(r, m, chain, l, Inserted(w, n, i, v))
      /\ OneTaken(r, m)
  BY <1>1, <1>2, <1>3, InsertionLengthens
<1> HIDE DEF w, n
<1>6. Inserted(w, n, i, v) = Append(w, v)
  BY <1>4, InsertedLast DEF i
<1> QED BY <1>1, <1>5, <1>6 DEF w

(* What pushFront does to the sequence of a list.                          *)
LEMMA PushFrontTurns ==
  ASSUME NEW m, NEW chain, ListChains(m, chain), NEW l \in Objects, NEW v \in Datum,
         List!FreeCells(m) # {}, NEW r, r = List!PushFront(m, l, v)
  PROVE  Turns(r, m, chain, l, <<v>> \o ListValues(m, chain, l))
<1> DEFINE w == ListValues(m, chain, l)
           n == Len(chain[l])
           before == Null
           after == HeadOf(m, l)
           i == 1
<1>1. PICK c \in List!FreeCells(m) : Insertion(r, m, l, c, v, before, after)
  BY PushFrontInserts
<1>2. n \in Nat /\ i \in 1 .. n + 1 /\ after = IF n = 0 THEN Null ELSE chain[l][1]
  BY FreeIsAlone, ListOnChain
<1>3. Between(chain[l], i, before, after)
  <2> HIDE DEF after, n
  <2>1. i = n + 1 <=> n = 0
    BY <1>2
  <2> QED BY <1>2, <2>1 DEF Between, n
<1>4. w \in Seq(Datum) /\ Len(w) = n
  BY ValuesAre
<1> HIDE DEF before, after, i
<1>5. Turns(r, m, chain, l, Inserted(w, n, i, v))
  BY <1>1, <1>2, <1>3, InsertionLengthens
<1> HIDE DEF w, n
<1>6. Inserted(w, n, i, v) = <<v>> \o w
  BY <1>4, InsertedFirst DEF i
<1> QED BY <1>5, <1>6, Zenon DEF w

-----------------------------------------------------------------------------
(* Clearing and moving.                                                    *)

(* An empty list holds nothing.                                            *)
LEMMA NoListValues ==
  ASSUME NEW m, NEW chain, NEW l, chain[l] = <<>>
  PROVE  ListValues(m, chain, l) = <<>>
<1> DEFINE n == Len(chain[l])
<1>1. 1 .. n = {}
  OBVIOUS
<1> HIDE DEF n
<1>2. [i \in 1 .. n |-> DataOf(m, chain[l][i])] = [i \in {} |-> DataOf(m, chain[l][i])]
  BY <1>1, Zenon
<1>3. [i \in {} |-> DataOf(m, chain[l][i])] = <<>>
  OBVIOUS
<1> QED BY <1>2, <1>3, Zenon DEF ListValues, n

(* DoublyLinkedList::clear, field by field.                                *)
LEMMA ListClearFields ==
  ASSUME NEW m, NEW chain, ListChains(m, chain), NEW l \in Objects, NEW r, r = List!Clear(m, l)
  PROVE  /\ r \in ListMemory
         /\ \A x \in Cells : IF x \in ChainCells(chain, l) THEN IsBlank(r, x) ELSE SameNode(r, m, x)
         /\ \A k \in Objects : /\ HeadOf(r, k) = IF k = l THEN Null ELSE HeadOf(m, k)
                               /\ TailOf(r, k) = IF k = l THEN Null ELSE TailOf(m, k)
                               /\ CountOf(r, k) = IF k = l THEN 0 ELSE CountOf(m, k)
<1> DEFINE Kind == [data : Datum \cup {Null}, prev : Cells \cup {Null}, next : Cells \cup {Null}]
           On(x) == \E i \in 1 .. Len(chain[l]) : chain[l][i] = x
           nodes == [x \in Cells |-> IF On(x) THEN List!Freed ELSE m.node[x]]
           heads == [m.head EXCEPT ![l] = Null]
           tails == [m.tail EXCEPT ![l] = Null]
           counts == [m.count EXCEPT ![l] = 0]
<1>1. m \in ListMemory
  BY DEF ListChains
<1>2. /\ m.node \in [Cells -> Kind]
      /\ m.head \in [Objects -> Cells \cup {Null}]
      /\ m.tail \in [Objects -> Cells \cup {Null}]
      /\ m.count \in [Objects -> Nat]
  BY <1>1, ListFields
<1>3. List!Nodes(m, l) = chain[l] /\ DOMAIN chain[l] = 1 .. Len(chain[l])
  BY ListWalk
<1>4. r = [m EXCEPT !.node = [c \in Cells |->
                       IF \E i \in DOMAIN chain[l] : chain[l][i] = c THEN List!Freed ELSE @[c]],
                    !.head[l] = Null, !.tail[l] = Null, !.count[l] = 0]
  BY <1>3, Zenon DEF List!Clear
<1>5. r = [m EXCEPT !.node = nodes, !.head = heads, !.tail = tails, !.count = counts]
  BY <1>3, <1>4
<1>6. List!Freed \in Kind /\ List!Freed.data = Null /\ List!Freed.prev = Null /\ List!Freed.next = Null
  BY DEF List!Freed
<1>7. nodes \in [Cells -> Kind]
  <2> HIDE DEF Kind, On
  <2> QED BY <1>2, <1>6
<1>8. /\ heads \in [Objects -> Cells \cup {Null}]
      /\ tails \in [Objects -> Cells \cup {Null}]
      /\ counts \in [Objects -> Nat]
  BY <1>2
<1>9. \A k \in Objects : /\ heads[k] = IF k = l THEN Null ELSE m.head[k]
                         /\ tails[k] = IF k = l THEN Null ELSE m.tail[k]
                         /\ counts[k] = IF k = l THEN 0 ELSE m.count[k]
  BY <1>2
<1>10. \A x \in Cells : nodes[x] = IF On(x) THEN List!Freed ELSE m.node[x]
  <2> HIDE DEF On
  <2> QED OBVIOUS
<1> HIDE DEF nodes, heads, tails, counts
<1>11. r \in ListMemory
  BY <1>1, <1>5, <1>7, <1>8 DEF ListMemory
<1>12. r.node = nodes /\ r.head = heads /\ r.tail = tails /\ r.count = counts
  BY <1>1, <1>5 DEF ListMemory
<1>13. ASSUME NEW x \in Cells
       PROVE  IF x \in ChainCells(chain, l) THEN IsBlank(r, x) ELSE SameNode(r, m, x)
  <2>1. x \in ChainCells(chain, l) <=> On(x)
    BY DEF ChainCells
  <2> HIDE DEF On
  <2>2. CASE On(x)
    <3>1. r.node[x] = List!Freed
      BY <1>10, <1>12, <2>2
    <3>2. IsBlank(r, x)
      BY <1>6, <3>1, Zenon DEF IsBlank, DataOf, PrevOf, NextOf
    <3> QED BY <2>1, <2>2, <3>2
  <2>3. CASE ~On(x)
    <3>1. r.node[x] = m.node[x]
      BY <1>10, <1>12, <2>3
    <3>2. SameNode(r, m, x)
      BY <3>1, Zenon DEF SameNode, DataOf, PrevOf, NextOf
    <3> QED BY <2>1, <2>3, <3>2
  <2> QED BY <2>2, <2>3
<1>14. \A k \in Objects : /\ HeadOf(r, k) = IF k = l THEN Null ELSE HeadOf(m, k)
                          /\ TailOf(r, k) = IF k = l THEN Null ELSE TailOf(m, k)
                          /\ CountOf(r, k) = IF k = l THEN 0 ELSE CountOf(m, k)
  BY <1>9, <1>12, Zenon DEF HeadOf, TailOf, CountOf
<1> QED BY <1>11, <1>13, <1>14

(* The list is empty, and its nodes are free again.                        *)
LEMMA ListClearEmpties ==
  ASSUME NEW m, NEW chain, ListChains(m, chain), NEW l \in Objects, NEW r, r = List!Clear(m, l)
  PROVE  /\ ListChains(r, Rechained(chain, l, <<>>))
         /\ \A k \in Objects \ {l} : ListValues(r, Rechained(chain, l, <<>>), k) = ListValues(m, chain, k)
         /\ ListValues(r, Rechained(chain, l, <<>>), l) = <<>>
         /\ List!FreeCells(r) = List!FreeCells(m) \cup ChainCells(chain, l)
<1> DEFINE s == <<>>
<1>1. s \in Seq(Cells) /\ Len(s) = 0 /\ s = <<>> /\ \A i \in 1 .. Len(s) : FALSE
  OBVIOUS
<1>2. /\ r \in ListMemory
      /\ \A x \in Cells : IF x \in ChainCells(chain, l) THEN IsBlank(r, x) ELSE SameNode(r, m, x)
      /\ \A k \in Objects : /\ HeadOf(r, k) = IF k = l THEN Null ELSE HeadOf(m, k)
                            /\ TailOf(r, k) = IF k = l THEN Null ELSE TailOf(m, k)
                            /\ CountOf(r, k) = IF k = l THEN 0 ELSE CountOf(m, k)
  BY ListClearFields
<1>3. chain \in [Objects -> Seq(Cells)] /\ m \in ListMemory
  BY DEF ListChains
<1> HIDE DEF s
<1>4. IsLinked(r, l, s)
  BY <1>1, <1>2 DEF IsLinked
<1>5. /\ ListChains(r, Rechained(chain, l, s))
      /\ \A k \in Objects \ {l} : ListValues(r, Rechained(chain, l, s), k) = ListValues(m, chain, k)
  BY <1>1, <1>2, <1>4, Relinked
<1>6. Rechained(chain, l, s)[l] = <<>>
  BY <1>1, <1>3 DEF Rechained
<1>7. ListValues(r, Rechained(chain, l, s), l) = <<>>
  BY <1>6, NoListValues
<1>8. \A x \in Cells : IsBlank(r, x) <=> IsBlank(m, x) \/ x \in ChainCells(chain, l)
  BY <1>2 DEF IsBlank, SameNode
<1>9. ChainCells(chain, l) \subseteq Cells
  BY ListOnChain DEF ChainCells
<1>10. List!FreeCells(r) = List!FreeCells(m) \cup ChainCells(chain, l)
  BY <1>2, <1>3, <1>8, <1>9, ListFree
<1> QED BY <1>5, <1>7, <1>10 DEF s

(* e with what list o points at given to l.                                *)
Moved(e, l, o) ==
  [e EXCEPT !.head[l] = e.head[o], !.tail[l] = e.tail[o], !.count[l] = e.count[o],
            !.head[o] = Null, !.tail[o] = Null, !.count[o] = 0]

(* The lists l and o exchanged.                                            *)
Other(l, o, k) == IF k = l THEN o ELSE IF k = o THEN l ELSE k

(* The fields after a move: those of the two lists exchanged.              *)
LEMMA MovedFields ==
  ASSUME NEW e \in ListMemory, NEW l \in Objects, NEW o \in Objects, l # o,
         HeadOf(e, l) = Null, TailOf(e, l) = Null, CountOf(e, l) = 0,
         NEW r, r = Moved(e, l, o)
  PROVE  /\ r \in ListMemory
         /\ \A x \in Cells : SameNode(r, e, x)
         /\ \A k \in Objects : /\ HeadOf(r, k) = HeadOf(e, Other(l, o, k))
                               /\ TailOf(r, k) = TailOf(e, Other(l, o, k))
                               /\ CountOf(r, k) = CountOf(e, Other(l, o, k))
<1> DEFINE heads == [e.head EXCEPT ![l] = e.head[o], ![o] = Null]
           tails == [e.tail EXCEPT ![l] = e.tail[o], ![o] = Null]
           counts == [e.count EXCEPT ![l] = e.count[o], ![o] = 0]
<1>1. /\ e.head \in [Objects -> Cells \cup {Null}]
      /\ e.tail \in [Objects -> Cells \cup {Null}]
      /\ e.count \in [Objects -> Nat]
  BY ListFields
<1>2. r = [e EXCEPT !.head = heads, !.tail = tails, !.count = counts]
  BY <1>1 DEF ListMemory, Moved
<1>3. heads \in [Objects -> Cells \cup {Null}] /\ tails \in [Objects -> Cells \cup {Null}]
      /\ counts \in [Objects -> Nat]
  BY <1>1
<1>4. \A k \in Objects : heads[k] = e.head[Other(l, o, k)]
  BY <1>1 DEF HeadOf, Other
<1>5. \A k \in Objects : tails[k] = e.tail[Other(l, o, k)]
  BY <1>1 DEF TailOf, Other
<1>6. \A k \in Objects : counts[k] = e.count[Other(l, o, k)]
  BY <1>1 DEF CountOf, Other
<1> HIDE DEF heads, tails, counts
<1>7. r \in ListMemory
  BY <1>2, <1>3 DEF ListMemory
<1>8. r.node = e.node /\ r.head = heads /\ r.tail = tails /\ r.count = counts
  BY <1>2 DEF ListMemory
<1>9. \A x \in Cells : SameNode(r, e, x)
  BY <1>8, Zenon DEF SameNode, DataOf, PrevOf, NextOf
<1>10. \A k \in Objects : /\ HeadOf(r, k) = HeadOf(e, Other(l, o, k))
                          /\ TailOf(r, k) = TailOf(e, Other(l, o, k))
                          /\ CountOf(r, k) = CountOf(e, Other(l, o, k))
  BY <1>4, <1>5, <1>6, <1>8, Zenon DEF HeadOf, TailOf, CountOf
<1> QED BY <1>7, <1>9, <1>10

(* A list linked alike is linked as well.                                  *)
LEMMA SameLinks ==
  ASSUME NEW r, NEW e, NEW k, NEW j, NEW s, IsLinked(e, j, s), \A x \in Cells : SameNode(r, e, x),
         HeadOf(r, k) = HeadOf(e, j), TailOf(r, k) = TailOf(e, j), CountOf(r, k) = CountOf(e, j)
  PROVE  IsLinked(r, k, s)
<1>1. s \in Seq(Cells) /\ \A i \in 1 .. Len(s) : s[i] \in Cells
  BY DEF IsLinked
<1>2. \A i \in 1 .. Len(s) : SameNode(r, e, s[i])
  BY <1>1
<1> QED BY <1>2 DEF IsLinked, SameNode

(* other's nodes become list l's, and other is left empty.                 *)
LEMMA ListMoveMoves ==
  ASSUME NEW m, NEW chain, ListChains(m, chain), NEW l \in Objects, NEW other \in Objects, l # other,
         NEW r, r = List!MoveAssign(m, l, other)
  PROVE  \E later :
           /\ ListChains(r, later)
           /\ ListValues(r, later, l) = ListValues(m, chain, other)
           /\ ListValues(r, later, other) = <<>>
           /\ \A k \in Objects \ {l, other} : ListValues(r, later, k) = ListValues(m, chain, k)
<1> DEFINE e == List!Clear(m, l)
           left == Rechained(chain, l, <<>>)
           From(k) == Other(l, other, k)
           later == [k \in Objects |-> left[From(k)]]
<1>1. /\ ListChains(e, left)
      /\ \A k \in Objects \ {l} : ListValues(e, left, k) = ListValues(m, chain, k)
      /\ ListValues(e, left, l) = <<>>
  BY ListClearEmpties
<1>2. /\ e \in ListMemory
      /\ \A k \in Objects : /\ HeadOf(e, k) = IF k = l THEN Null ELSE HeadOf(m, k)
                            /\ TailOf(e, k) = IF k = l THEN Null ELSE TailOf(m, k)
                            /\ CountOf(e, k) = IF k = l THEN 0 ELSE CountOf(m, k)
  BY ListClearFields
<1>3. r = [e EXCEPT !.head[l] = m.head[other], !.tail[l] = m.tail[other], !.count[l] = m.count[other],
                    !.head[other] = Null, !.tail[other] = Null, !.count[other] = 0]
  BY Zenon DEF List!MoveAssign
<1> HIDE DEF e, left
<1>4. e.head[other] = m.head[other] /\ e.tail[other] = m.tail[other] /\ e.count[other] = m.count[other]
  BY <1>2 DEF HeadOf, TailOf, CountOf
<1>5. r = Moved(e, l, other)
  BY <1>3, <1>4, Zenon DEF Moved
<1>6. /\ r \in ListMemory
      /\ \A x \in Cells : SameNode(r, e, x)
      /\ \A k \in Objects : /\ HeadOf(r, k) = HeadOf(e, From(k))
                            /\ TailOf(r, k) = TailOf(e, From(k))
                            /\ CountOf(r, k) = CountOf(e, From(k))
  <2>1. HeadOf(e, l) = Null /\ TailOf(e, l) = Null /\ CountOf(e, l) = 0
    BY <1>2
  <2> QED BY <1>2, <1>5, <2>1, MovedFields
<1>7. \A k \in Objects : From(k) \in Objects /\ From(From(k)) = k
  BY DEF Other
<1>14. From(l) = other /\ From(other) = l /\ \A k \in Objects \ {l, other} : From(k) = k
  BY DEF Other
<1> HIDE DEF From
<1>8. left \in [Objects -> Seq(Cells)]
  BY <1>1 DEF ListChains
<1>9. later \in [Objects -> Seq(Cells)] /\ \A k \in Objects : later[k] = left[From(k)]
  BY <1>7, <1>8
<1> HIDE DEF later
<1>10. ASSUME NEW k \in Objects PROVE IsLinked(r, k, later[k])
  <2>1. IsLinked(e, From(k), left[From(k)])
    BY <1>1, <1>7 DEF ListChains
  <2> QED BY <1>6, <1>9, <2>1, SameLinks
<1>11. ASSUME NEW k \in Objects, NEW o \in Objects, k # o,
              NEW i \in 1 .. Len(later[k]), NEW j \in 1 .. Len(later[o])
       PROVE  later[k][i] # later[o][j]
  <2>1. From(k) # From(o) /\ From(k) \in Objects /\ From(o) \in Objects
    BY <1>7, <1>11
  <2> QED BY <1>1, <1>9, <2>1 DEF ListChains
<1>12. ASSUME NEW x \in Cells, \A k \in Objects : \A i \in 1 .. Len(later[k]) : later[k][i] # x
       PROVE  IsBlank(r, x)
  <2>1. \A k \in Objects : \A i \in 1 .. Len(left[k]) : left[k][i] # x
    <3> TAKE k \in Objects
    <3>1. left[k] = later[From(k)] /\ From(k) \in Objects
      BY <1>7, <1>9
    <3> QED BY <1>12, <3>1
  <2>2. IsBlank(e, x)
    BY <1>1, <2>1 DEF ListChains
  <2> QED BY <1>6, <2>2 DEF IsBlank, SameNode
<1>13. ListChains(r, later)
  BY <1>6, <1>9, <1>10, <1>11, <1>12 DEF ListChains
<1>15. ASSUME NEW k \in Objects PROVE ListValues(r, later, k) = ListValues(e, left, From(k))
  <2>1. later[k] = left[From(k)] /\ left[From(k)] \in Seq(Cells)
    BY <1>7, <1>8, <1>9
  <2>2. \A i \in 1 .. Len(later[k]) : DataOf(r, later[k][i]) = DataOf(e, later[k][i])
    BY <1>6, <2>1 DEF SameNode
  <2> QED BY <2>1, <2>2 DEF ListValues
<1> QED BY <1>1, <1>13, <1>14, <1>15

-----------------------------------------------------------------------------
(* Copying.                                                                *)

IsListCopied(f, k, m, l, values) ==
  f = [i \in 0 .. k |-> IF i = 0 THEN List!Clear(m, l) ELSE List!PushBack(f[i - 1], l, values[i])]

(* The function that tells the steps of a copy exists.                     *)
LEMMA ListCopiedExists ==
  ASSUME NEW m, NEW l, NEW values, NEW n \in Nat
  PROVE  \E f : IsListCopied(f, n, m, l, values)
<1> DEFINE P == {k \in Nat : \E f : IsListCopied(f, k, m, l, values)}
<1>1. 0 \in P
  <2> DEFINE f == [i \in 0 .. 0 |-> List!Clear(m, l)]
  <2>1. IsListCopied(f, 0, m, l, values)
    BY DEF IsListCopied
  <2> QED BY <2>1
<1>2. ASSUME NEW k \in Nat, k \in P PROVE k + 1 \in P
  <2>1. PICK g : IsListCopied(g, k, m, l, values)
    BY <1>2
  <2> DEFINE Start == List!Clear(m, l)
             Then(x, i) == List!PushBack(x, l, values[i])
             f == [i \in 0 .. k + 1 |-> IF i = k + 1 THEN Then(g[k], k + 1) ELSE g[i]]
  <2>2. \A i \in 0 .. k : g[i] = IF i = 0 THEN Start ELSE Then(g[i - 1], i)
    <3>1. g = [i \in 0 .. k |-> IF i = 0 THEN Start ELSE Then(g[i - 1], i)]
      BY <2>1, Zenon DEF IsListCopied
    <3> HIDE DEF Start, Then
    <3> DEFINE h == [i \in 0 .. k |-> IF i = 0 THEN Start ELSE Then(g[i - 1], i)]
    <3>2. g = h /\ \A i \in 0 .. k : h[i] = IF i = 0 THEN Start ELSE Then(g[i - 1], i)
      BY <3>1
    <3> HIDE DEF h
    <3> QED BY <3>2
  <2>3. f = [i \in 0 .. k + 1 |-> IF i = k + 1 THEN Then(g[k], k + 1) ELSE g[i]]
    OBVIOUS
  <2> HIDE DEF Start, Then, f
  <2>4. \A i \in 0 .. k + 1 : f[i] = IF i = 0 THEN Start ELSE Then(f[i - 1], i)
    <3> TAKE i \in 0 .. k + 1
    <3>1. CASE i = k + 1
      <4>1. f[i] = Then(g[k], k + 1) /\ f[i - 1] = g[k] /\ i # 0 /\ i - 1 = k
        BY <2>3, <3>1
      <4> QED BY <3>1, <4>1
    <3>2. CASE i \in 1 .. k
      <4>1. f[i] = g[i] /\ f[i - 1] = g[i - 1] /\ i # 0 /\ i \in 0 .. k
        BY <2>3, <3>2
      <4> QED BY <2>2, <4>1
    <3>3. CASE i = 0
      <4>1. f[i] = g[i] /\ i \in 0 .. k
        BY <2>3, <3>3
      <4> QED BY <2>2, <3>3, <4>1
    <3> QED BY <3>1, <3>2, <3>3
  <2>5. f = [i \in 0 .. k + 1 |-> IF i = 0 THEN Start ELSE Then(f[i - 1], i)]
    <3>1. f = [i \in 0 .. k + 1 |-> f[i]]
      BY <2>3
    <3> QED BY <2>4, <3>1
  <2>6. IsListCopied(f, k + 1, m, l, values)
    BY <2>5, Zenon DEF IsListCopied, Start, Then
  <2> QED BY <2>6
<1> HIDE DEF P
<1>3. n \in P
  BY <1>1, <1>2, NatInductionOnSet
<1> QED BY <1>3 DEF P

(* Copying a list is a clear and then one pushBack for each value.         *)
LEMMA ListCopySteps ==
  ASSUME NEW m, NEW l, NEW other, NEW values, values = List!ToVector(m, other), Len(values) \in Nat
  PROVE  \E copied :
           /\ List!CopyAssign(m, l, other) = copied[Len(values)]
           /\ copied[0] = List!Clear(m, l)
           /\ \A i \in 1 .. Len(values) : copied[i] = List!PushBack(copied[i - 1], l, values[i])
<1> DEFINE n == Len(values)
           copied == CHOOSE f : IsListCopied(f, n, m, l, values)
<1>1. List!CopyAssign(m, l, other) = copied[n]
  BY Zenon DEF List!CopyAssign, IsListCopied
<1>2. IsListCopied(copied, n, m, l, values)
  BY ListCopiedExists
<1> HIDE DEF copied, n
<1> DEFINE Start == List!Clear(m, l)
           Then(x, i) == List!PushBack(x, l, values[i])
<1>3. copied = [i \in 0 .. n |-> IF i = 0 THEN Start ELSE Then(copied[i - 1], i)]
  BY <1>2, Zenon DEF IsListCopied
<1> HIDE DEF Start, Then
<1>4. n \in Nat
  BY DEF n
<1>5. copied[0] = Start /\ \A i \in 1 .. n : copied[i] = Then(copied[i - 1], i)
  <2>1. \A i \in 0 .. n : copied[i] = IF i = 0 THEN Start ELSE Then(copied[i - 1], i)
    <3> DEFINE g == [i \in 0 .. n |-> IF i = 0 THEN Start ELSE Then(copied[i - 1], i)]
    <3>1. copied = g /\ \A i \in 0 .. n : g[i] = IF i = 0 THEN Start ELSE Then(copied[i - 1], i)
      BY <1>3
    <3> HIDE DEF g
    <3> QED BY <3>1
  <2> QED BY <1>4, <2>1
<1> QED BY <1>1, <1>5 DEF n, Start, Then

(* There are finitely many free cells.                                     *)
LEMMA ListRoom ==
  ASSUME NEW m
  PROVE  IsFiniteSet(List!FreeCells(m)) /\ Cardinality(List!FreeCells(m)) \in Nat
<1>1. List!FreeCells(m) \subseteq Cells
  BY DEF List!FreeCells
<1> QED BY <1>1, FS_Subset, FS_CardinalityType, ContainersAssumption

(* DoublyLinkedList::clear makes as many cells free as the list held.      *)
LEMMA ListClearFrees ==
  ASSUME NEW m, NEW chain, ListChains(m, chain), NEW l \in Objects, NEW r, r = List!Clear(m, l)
  PROVE  Cardinality(List!FreeCells(r)) = Cardinality(List!FreeCells(m)) + CountOf(m, l)
<1> DEFINE F == List!FreeCells(m)
           C == ChainCells(chain, l)
<1>1. List!FreeCells(r) = F \cup C
  BY ListClearEmpties
<1>2. Cardinality(C) = CountOf(m, l)
  <2>1. chain[l] \in Seq(Cells) /\ \A i, j \in 1 .. Len(chain[l]) : chain[l][i] = chain[l][j] => i = j
    BY ListOnChain DEF IsLinked
  <2> QED BY <2>1, ListOnChain, ChainFits DEF ChainCells
<1>3. F \cap C = {}
  BY ListOnChain DEF ChainCells
<1>4. IsFiniteSet(F) /\ IsFiniteSet(C)
  <2>1. C \subseteq Cells
    BY ListOnChain DEF ChainCells
  <2> QED BY <2>1, ListRoom, FS_Subset, ContainersAssumption
<1> HIDE DEF F, C
<1>5. Cardinality(F \cap C) = 0
  BY <1>3, FS_EmptySet
<1>6. Cardinality(F) \in Nat /\ Cardinality(C) \in Nat
  BY <1>4, FS_CardinalityType
<1>7. Cardinality(F \cup C) = Cardinality(F) + Cardinality(C) - Cardinality(F \cap C)
  BY <1>4, FS_Union
<1>8. Cardinality(F \cup C) = Cardinality(F) + Cardinality(C)
  BY <1>5, <1>6, <1>7
<1> QED BY <1>1, <1>2, <1>8 DEF F

(* Copying a list makes this one hold what the other holds.                *)
LEMMA ListCopyCopies ==
  ASSUME NEW m, NEW chain, ListChains(m, chain), NEW l \in Objects, NEW other \in Objects, l # other,
         CountOf(m, other) <= Cardinality(List!FreeCells(m)) + CountOf(m, l),
         NEW r, r = List!CopyAssign(m, l, other)
  PROVE  Turns(r, m, chain, l, ListValues(m, chain, other))
<1> DEFINE values == ListValues(m, chain, other)
           n == Len(chain[other])
           free == Cardinality(List!FreeCells(m)) + CountOf(m, l)
           Prefix(k) == [i \in 1 .. k |-> values[i]]
<1>1. /\ n \in Nat /\ Len(values) = n /\ values = [i \in 1 .. n |-> values[i]]
      /\ \A i \in 1 .. n : values[i] \in Datum
  <2>1. n \in Nat
    BY ListOnChain
  <2>2. values \in Seq(Datum) /\ Len(values) = n
    BY ValuesAre
  <2> HIDE DEF values, n
  <2> QED BY <2>1, <2>2
<1>2. values = List!ToVector(m, other)
  BY ListWalk
<1>3. CountOf(m, other) = n /\ CountOf(m, l) \in Nat
  BY ListOnChain
<1>4. n <= free /\ free \in Nat
  BY <1>3, ListRoom
<1> HIDE DEF values, n, free
<1>5. PICK copied :
        /\ r = copied[n]
        /\ copied[0] = List!Clear(m, l)
        /\ \A i \in 1 .. n : copied[i] = List!PushBack(copied[i - 1], l, values[i])
  BY <1>1, <1>2, ListCopySteps
<1> DEFINE Fine(k) == \E ch : /\ ListChains(copied[k], ch)
                              /\ ListValues(copied[k], ch, l) = Prefix(k)
                              /\ \A p \in Objects \ {l} : ListValues(copied[k], ch, p) = ListValues(m, chain, p)
                              /\ Cardinality(List!FreeCells(copied[k])) = free - k
           P == {k \in Nat : k <= n => Fine(k)}
<1>6. 0 \in P
  <2> DEFINE ch == Rechained(chain, l, <<>>)
             e == copied[0]
  <2>1. e = List!Clear(m, l)
    BY <1>5
  <2> HIDE DEF e
  <2>2. /\ ListChains(e, ch)
        /\ \A p \in Objects \ {l} : ListValues(e, ch, p) = ListValues(m, chain, p)
        /\ ListValues(e, ch, l) = <<>>
    BY <2>1, ListClearEmpties
  <2> HIDE DEF ch
  <2>3. Prefix(0) = <<>>
    OBVIOUS
  <2>4. Cardinality(List!FreeCells(e)) = free - 0
    <3>1. Cardinality(List!FreeCells(e)) = free
      BY <2>1, ListClearFrees DEF free
    <3> QED BY <1>4, <3>1
  <2> HIDE DEF Prefix
  <2>5. Fine(0)
    BY <2>2, <2>3, <2>4, Zenon DEF e
  <2> QED BY <2>5
<1>7. ASSUME NEW k \in Nat, k \in P PROVE k + 1 \in P
  <2> SUFFICES ASSUME k + 1 <= n PROVE Fine(k + 1)
    OBVIOUS
  <2>1. k <= n /\ k + 1 \in 1 .. n /\ (k + 1) - 1 = k
    BY <1>1
  <2> DEFINE a == copied[k]
             b == copied[k + 1]
             v == values[k + 1]
  <2>2. PICK ch : /\ ListChains(a, ch)
                  /\ ListValues(a, ch, l) = Prefix(k)
                  /\ \A p \in Objects \ {l} : ListValues(a, ch, p) = ListValues(m, chain, p)
                  /\ Cardinality(List!FreeCells(a)) = free - k
    BY <1>7, <2>1
  <2>3. b = List!PushBack(a, l, v) /\ v \in Datum
    BY <1>1, <1>5, <2>1
  <2>4. List!FreeCells(a) # {}
    <3>1. free - k > 0
      BY <1>1, <1>4, <2>1
    <3>2. List!FreeCells(a) = {} => Cardinality(List!FreeCells(a)) = 0
      BY FS_EmptySet, Zenon
    <3> HIDE DEF a
    <3> QED BY <2>2, <3>1, <3>2
  <2>5. Append(Prefix(k), v) = Prefix(k + 1)
    BY <1>1, <2>1, PrefixGrows
  <2> HIDE DEF a, b, v, Prefix
  <2>6. Turns(b, a, ch, l, Append(ListValues(a, ch, l), v)) /\ OneTaken(b, a)
    <3>1. ListChains(a, ch)
      BY <2>2
    <3> QED BY <2>3, <2>4, <3>1, PushBackTurns
  <2>7. PICK later :
           /\ ListChains(b, later)
           /\ ListValues(b, later, l) = Append(ListValues(a, ch, l), v)
           /\ \A p \in Objects \ {l} : ListValues(b, later, p) = ListValues(a, ch, p)
    BY <2>6 DEF Turns
  <2>8. ListValues(b, later, l) = Prefix(k + 1)
    BY <2>2, <2>5, <2>7
  <2>9. \A p \in Objects \ {l} : ListValues(b, later, p) = ListValues(m, chain, p)
    BY <2>2, <2>7
  <2>10. Cardinality(List!FreeCells(b)) = free - (k + 1)
    <3>1. PICK c \in List!FreeCells(a) : List!FreeCells(b) = List!FreeCells(a) \ {c}
      BY <2>6 DEF OneTaken
    <3>2. Cardinality(List!FreeCells(b)) = Cardinality(List!FreeCells(a)) - 1
      BY <3>1, ListRoom, FS_RemoveElement
    <3>3. Cardinality(List!FreeCells(a)) = free - k
      BY <2>2
    <3>4. \A x, y, z \in Int : z = x - y => z - 1 = x - (y + 1)
      OBVIOUS
    <3>5. free \in Int /\ k \in Int /\ free - k \in Int
      BY <1>4
    <3> QED BY <3>2, <3>3, <3>4, <3>5
  <2> QED BY <2>7, <2>8, <2>9, <2>10, Zenon DEF b
<1> HIDE DEF P
<1>8. n \in P
  BY <1>1, <1>6, <1>7, NatInductionOnSet
<1>9. Fine(n)
  BY <1>1, <1>8 DEF P
<1>10. Prefix(n) = values
  BY <1>1
<1> QED BY <1>5, <1>9, <1>10 DEF values, Turns

-----------------------------------------------------------------------------
(* The lists, together.                                                    *)

(* The nodes of every list are linked both ways, no two lists share one,   *)
(* and a node on no list is free.                                          *)
ListInv == \E chain : ListChains(list, chain)

(* The lists start empty.                                                  *)
LEMMA ListStarts ==
  ASSUME List!ListInit
  PROVE  ListInv
<1> DEFINE chain == [l \in Objects |-> <<>>]
<1>1. list = [node  |-> [c \in Cells |-> List!Freed],
              head  |-> [l \in Objects |-> Null],
              tail  |-> [l \in Objects |-> Null],
              count |-> [l \in Objects |-> 0]]
  BY DEF List!ListInit
<1>2. /\ list.node = [c \in Cells |-> List!Freed]
      /\ list.head = [l \in Objects |-> Null]
      /\ list.tail = [l \in Objects |-> Null]
      /\ list.count = [l \in Objects |-> 0]
  BY <1>1
<1>3. list \in ListMemory
  BY <1>1 DEF ListMemory, List!Freed
<1>4. chain \in [Objects -> Seq(Cells)] /\ \A l \in Objects : chain[l] = <<>> /\ Len(chain[l]) = 0
  OBVIOUS
<1> HIDE DEF chain
<1>5. \A l \in Objects : HeadOf(list, l) = Null /\ TailOf(list, l) = Null /\ CountOf(list, l) = 0
  BY <1>2 DEF HeadOf, TailOf, CountOf
<1>6. \A c \in Cells : IsBlank(list, c)
  BY <1>2 DEF IsBlank, DataOf, PrevOf, NextOf, List!Freed
<1>7. \A l \in Objects : IsLinked(list, l, chain[l])
  BY <1>4, <1>5 DEF IsLinked
<1>8. ListChains(list, chain)
  BY <1>3, <1>4, <1>6, <1>7 DEF ListChains
<1> QED BY <1>8 DEF ListInv

(* A list that turns into a sequence stays linked.                         *)
LEMMA TurnsStays ==
  ASSUME NEW r, NEW m, NEW chain, NEW l, NEW t, Turns(r, m, chain, l, t)
  PROVE  \E later : ListChains(r, later)
  BY DEF Turns

(* Every step keeps the lists linked.                                      *)
LEMMA ListStep ==
  ASSUME ListInv, List!ListNext
  PROVE  ListInv'
<1>1. PICK chain : ListChains(list, chain)
  BY DEF ListInv
<1>2. SUFFICES \E later : ListChains(list', later)
  BY DEF ListInv
<1>3. PICK l \in Objects : List!ChangeList(l) \/ \E other \in Objects : List!AssignList(l, other)
  BY DEF List!ListNext
<1>4. Len(chain[l]) = list.count[l] /\ Len(chain[l]) \in Nat
  BY <1>1, ListOnChain DEF CountOf
<1>5. CASE List!ChangeList(l)
  <2>1. ASSUME List!FreeCells(list) # {}, NEW v \in Datum, list' = List!PushBack(list, l, v)
        PROVE  \E later : ListChains(list', later)
    BY <1>1, <2>1, PushBackTurns, TurnsStays
  <2>2. ASSUME List!FreeCells(list) # {}, NEW v \in Datum, list' = List!PushFront(list, l, v)
        PROVE  \E later : ListChains(list', later)
    BY <1>1, <2>2, PushFrontTurns, TurnsStays
  <2>3. ASSUME list.count[l] > 0, list' = List!PopFront(list, l)
        PROVE  \E later : ListChains(list', later)
    BY <1>1, <1>4, <2>3, PopFrontTurns, TurnsStays
  <2>4. ASSUME list.count[l] > 0, list' = List!PopBack(list, l)
        PROVE  \E later : ListChains(list', later)
    BY <1>1, <1>4, <2>4, PopBackTurns, TurnsStays
  <2>5. ASSUME NEW i \in DOMAIN List!Nodes(list, l), list' = List!RemoveNode(list, l, List!Nodes(list, l)[i])
        PROVE  \E later : ListChains(list', later)
    <3>1. i \in 1 .. Len(chain[l]) /\ List!Nodes(list, l)[i] = chain[l][i]
      BY <1>1, ListWalk
    <3> QED BY <1>1, <2>5, <3>1, RemoveNodeTurns, TurnsStays
  <2>6. ASSUME list' = List!Clear(list, l)
        PROVE  \E later : ListChains(list', later)
    BY <1>1, <2>6, ListClearEmpties
  <2> QED BY <1>5, <2>1, <2>2, <2>3, <2>4, <2>5, <2>6 DEF List!ChangeList
<1>6. CASE \E other \in Objects : List!AssignList(l, other)
  <2>1. PICK other \in Objects : List!AssignList(l, other)
    BY <1>6
  <2>2. l # other
    BY <2>1 DEF List!AssignList
  <2>3. CASE /\ list.count[other] <= List!Cardinality(List!FreeCells(list)) + list.count[l]
             /\ list' = List!CopyAssign(list, l, other)
    <3>1. CountOf(list, other) <= Cardinality(List!FreeCells(list)) + CountOf(list, l)
      <4>1. List!Cardinality(List!FreeCells(list)) = Cardinality(List!FreeCells(list))
        BY ListCardinality
      <4> QED BY <2>3, <4>1 DEF CountOf
    <3> QED BY <1>1, <2>2, <2>3, <3>1, ListCopyCopies, TurnsStays
  <2>4. CASE list' = List!MoveAssign(list, l, other)
    BY <1>1, <2>2, <2>4, ListMoveMoves
  <2> QED BY <2>1, <2>3, <2>4 DEF List!AssignList
<1> QED BY <1>3, <1>5, <1>6

(* What Turns means for the walks of the lists.                            *)
LEMMA TurnsMakes ==
  ASSUME NEW m, NEW chain, ListChains(m, chain), NEW l \in Objects, NEW t, NEW r,
         Turns(r, m, chain, l, t)
  PROVE  List!ToVector(r, l) = t /\ \A k \in Objects \ {l} : List!ToVector(r, k) = List!ToVector(m, k)
<1>1. PICK later : /\ ListChains(r, later)
                   /\ ListValues(r, later, l) = t
                   /\ \A k \in Objects \ {l} : ListValues(r, later, k) = ListValues(m, chain, k)
  BY DEF Turns
<1>2. \A k \in Objects : List!ToVector(r, k) = ListValues(r, later, k)
  BY <1>1, ListWalk
<1>3. \A k \in Objects : List!ToVector(m, k) = ListValues(m, chain, k)
  BY ListWalk
<1> QED BY <1>1, <1>2, <1>3

(* On linked lists every call does what it does to a sequence.             *)
LEMMA CallsAct ==
  ASSUME ListInv
  PROVE  List!CallsActOnSequences
<1>1. PICK chain : ListChains(list, chain)
  BY DEF ListInv
<1> SUFFICES ASSUME NEW l \in Objects
             PROVE  LET s == List!ToVector(list, l)
                        Makes(m, t) == /\ List!ToVector(m, l) = t
                                       /\ \A k \in Objects \ {l} : List!ToVector(m, k) = List!ToVector(list, k)
                        Room == List!FreeCells(list) # {}
                    IN  /\ Room => \A v \in Datum : /\ Makes(List!PushBack(list, l, v), Append(s, v))
                                                   /\ Makes(List!PushFront(list, l, v), <<v>> \o s)
                        /\ s # <<>> => /\ Makes(List!PopFront(list, l), Tail(s))
                                       /\ Makes(List!PopBack(list, l), List!Front(s))
                        /\ \A i \in DOMAIN s : Makes(List!RemoveNode(list, l, List!Nodes(list, l)[i]), List!RemoveAt(s, i))
                        /\ Makes(List!Clear(list, l), <<>>)
                        /\ \A k \in Objects \ {l} :
                             /\ Len(s) + List!Cardinality(List!FreeCells(list)) >= list.count[k] =>
                                  Makes(List!CopyAssign(list, l, k), List!ToVector(list, k))
                             /\ \A j \in Objects :
                                  List!ToVector(List!MoveAssign(list, l, k), j) =
                                    IF j = l THEN List!ToVector(list, k)
                                    ELSE IF j = k THEN <<>> ELSE List!ToVector(list, j)
  BY DEF List!CallsActOnSequences
<1> DEFINE s == List!ToVector(list, l)
           n == Len(chain[l])
           Makes(m, t) == /\ List!ToVector(m, l) = t
                          /\ \A k \in Objects \ {l} : List!ToVector(m, k) = List!ToVector(list, k)
<1>2. /\ s = ListValues(list, chain, l) /\ n \in Nat /\ DOMAIN s = 1 .. n /\ Len(s) = n
      /\ n > 0 <=> s # <<>>
      /\ List!Nodes(list, l) = chain[l]
      /\ CountOf(list, l) = n
  <2>1. s = ListValues(list, chain, l) /\ n \in Nat /\ List!Nodes(list, l) = chain[l] /\ CountOf(list, l) = n
    BY <1>1, ListWalk, ListOnChain
  <2>2. s \in Seq(Datum) /\ Len(s) = n
    BY <1>1, <2>1, ValuesAre
  <2> HIDE DEF s, n
  <2> QED BY <2>1, <2>2
<1>3. ASSUME NEW r, NEW t, Turns(r, list, chain, l, t) PROVE Makes(r, t)
  BY <1>1, <1>3, TurnsMakes
<1> HIDE DEF Makes, s, n
<1>4. ASSUME List!FreeCells(list) # {}, NEW v \in Datum
      PROVE  Makes(List!PushBack(list, l, v), Append(s, v))
  <2>1. Turns(List!PushBack(list, l, v), list, chain, l, Append(ListValues(list, chain, l), v))
    BY <1>1, <1>4, PushBackTurns
  <2> QED BY <1>2, <1>3, <2>1
<1>5. ASSUME List!FreeCells(list) # {}, NEW v \in Datum
      PROVE  Makes(List!PushFront(list, l, v), <<v>> \o s)
  <2>1. Turns(List!PushFront(list, l, v), list, chain, l, <<v>> \o ListValues(list, chain, l))
    BY <1>1, <1>5, PushFrontTurns
  <2> QED BY <1>2, <1>3, <2>1, Zenon
<1>6. ASSUME s # <<>> PROVE Makes(List!PopFront(list, l), Tail(s))
  <2>1. Turns(List!PopFront(list, l), list, chain, l, Tail(ListValues(list, chain, l)))
    BY <1>1, <1>2, <1>6, PopFrontTurns DEF n
  <2> QED BY <1>2, <1>3, <2>1, Zenon
<1>7. ASSUME s # <<>> PROVE Makes(List!PopBack(list, l), List!Front(s))
  <2>1. Turns(List!PopBack(list, l), list, chain, l, List!Front(ListValues(list, chain, l)))
    BY <1>1, <1>2, <1>7, PopBackTurns DEF n
  <2> QED BY <1>2, <1>3, <2>1, Zenon
<1>8. ASSUME NEW i \in DOMAIN s
      PROVE  Makes(List!RemoveNode(list, l, List!Nodes(list, l)[i]), List!RemoveAt(s, i))
  <2>1. i \in 1 .. Len(chain[l])
    BY <1>2 DEF n
  <2>2. Turns(List!RemoveNode(list, l, chain[l][i]), list, chain, l,
              List!RemoveAt(ListValues(list, chain, l), i))
    BY <1>1, <2>1, RemoveNodeTurns
  <2> QED BY <1>2, <1>3, <2>2, Zenon
<1>9. Makes(List!Clear(list, l), <<>>)
  <2>1. Turns(List!Clear(list, l), list, chain, l, <<>>)
    <3> DEFINE later == Rechained(chain, l, <<>>)
               r == List!Clear(list, l)
    <3>1. /\ ListChains(r, later)
          /\ \A k \in Objects \ {l} : ListValues(r, later, k) = ListValues(list, chain, k)
          /\ ListValues(r, later, l) = <<>>
      BY <1>1, ListClearEmpties
    <3> HIDE DEF later, r
    <3>2. Turns(r, list, chain, l, <<>>)
      BY <3>1 DEF Turns
    <3> QED BY <3>2 DEF r
  <2> QED BY <1>3, <2>1
<1>10. ASSUME NEW k \in Objects \ {l},
              Len(s) + List!Cardinality(List!FreeCells(list)) >= list.count[k]
       PROVE  Makes(List!CopyAssign(list, l, k), List!ToVector(list, k))
  <2>1. List!Cardinality(List!FreeCells(list)) = Cardinality(List!FreeCells(list))
    BY ListCardinality
  <2>2. CountOf(list, k) <= Cardinality(List!FreeCells(list)) + CountOf(list, l)
    <3>1. CountOf(list, k) \in Nat /\ CountOf(list, l) \in Nat /\ CountOf(list, k) = list.count[k]
      BY <1>1, ListOnChain DEF CountOf
    <3> QED BY <1>2, <1>10, <2>1, <3>1, ListRoom
  <2>3. Turns(List!CopyAssign(list, l, k), list, chain, l, ListValues(list, chain, k))
    BY <1>1, <2>2, ListCopyCopies
  <2>4. List!ToVector(list, k) = ListValues(list, chain, k)
    BY <1>1, ListWalk
  <2> QED BY <1>3, <2>3, <2>4, Zenon
<1>11. ASSUME NEW k \in Objects \ {l}
       PROVE  \A j \in Objects :
                List!ToVector(List!MoveAssign(list, l, k), j) =
                  IF j = l THEN List!ToVector(list, k)
                  ELSE IF j = k THEN <<>> ELSE List!ToVector(list, j)
  <2> DEFINE r == List!MoveAssign(list, l, k)
  <2>1. PICK later : /\ ListChains(r, later)
                     /\ ListValues(r, later, l) = ListValues(list, chain, k)
                     /\ ListValues(r, later, k) = <<>>
                     /\ \A j \in Objects \ {l, k} : ListValues(r, later, j) = ListValues(list, chain, j)
    BY <1>1, ListMoveMoves
  <2> HIDE DEF r
  <2>2. \A j \in Objects : List!ToVector(r, j) = ListValues(r, later, j)
    BY <2>1, ListWalk
  <2>3. \A j \in Objects : List!ToVector(list, j) = ListValues(list, chain, j)
    BY <1>1, ListWalk
  <2>4. \A j \in Objects : List!ToVector(r, j) =
           IF j = l THEN List!ToVector(list, k) ELSE IF j = k THEN <<>> ELSE List!ToVector(list, j)
    BY <2>1, <2>2, <2>3
  <2> QED BY <2>4 DEF r
<1> QED BY <1>4, <1>5, <1>6, <1>7, <1>8, <1>9, <1>10, <1>11, Zenon DEF Makes, s

(* On linked lists every node that is not free is on one list, once.       *)
LEMMA NoLeaks ==
  ASSUME ListInv
  PROVE  List!NothingLeaks
<1>1. PICK chain : ListChains(list, chain)
  BY DEF ListInv
<1>2. \A l \in Objects : /\ List!Nodes(list, l) = chain[l] /\ Len(chain[l]) = list.count[l]
                         /\ DOMAIN chain[l] = 1 .. Len(chain[l])
  BY <1>1, ListWalk, ListOnChain DEF CountOf
<1>3. ASSUME NEW c \in Cells \ List!FreeCells(list)
      PROVE  List!Cardinality({p \in Objects \X (1 .. List!Cardinality(Cells)) :
                                 /\ p[2] \in DOMAIN List!Nodes(list, p[1])
                                 /\ List!Nodes(list, p[1])[p[2]] = c}) = 1
  <2> DEFINE top == List!Cardinality(Cells)
             S == {p \in Objects \X (1 .. top) :
                     /\ p[2] \in DOMAIN List!Nodes(list, p[1])
                     /\ List!Nodes(list, p[1])[p[2]] = c}
  <2>1. ~IsBlank(list, c)
    BY <1>1, <1>3, ListFree DEF ListChains
  <2>2. PICK l \in Objects : \E i \in 1 .. Len(chain[l]) : chain[l][i] = c
    BY <1>1, <2>1 DEF ListChains
  <2>3. PICK i \in 1 .. Len(chain[l]) : chain[l][i] = c
    BY <2>2
  <2>4. top = Cardinality(Cells)
    BY ListCardinality
  <2>5. i \in 1 .. top
    <3>1. chain[l] \in Seq(Cells) /\ \A a, b \in 1 .. Len(chain[l]) : chain[l][a] = chain[l][b] => a = b
      BY <1>1, ListOnChain DEF IsLinked
    <3>2. Len(chain[l]) \in Nat /\ Cardinality(Cells) \in Nat /\ Len(chain[l]) <= Cardinality(Cells)
      BY <3>1, ChainFits
    <3> QED BY <2>4, <3>2
  <2>6. ASSUME NEW k \in Objects, NEW j \in 1 .. Len(chain[k]), chain[k][j] = c PROVE k = l /\ j = i
    <3>1. k = l
      BY <1>1, <2>3, <2>6 DEF ListChains
    <3>2. IsLinked(list, l, chain[l])
      BY <1>1 DEF ListChains
    <3> QED BY <2>3, <2>6, <3>1, <3>2 DEF IsLinked
  <2> HIDE DEF top
  <2>7. <<l, i>> \in S
    BY <1>2, <2>3, <2>5
  <2>8. ASSUME NEW p \in S PROVE p = <<l, i>>
    <3>1. PICK k \in Objects, j \in 1 .. top : p = <<k, j>>
      OBVIOUS
    <3>2. j \in 1 .. Len(chain[k]) /\ chain[k][j] = c
      BY <1>2, <3>1
    <3> QED BY <2>6, <3>1, <3>2
  <2>9. S = {<<l, i>>}
    BY <2>7, <2>8
  <2> HIDE DEF S
  <2>10. Cardinality(S) = 1
    BY <2>9, FS_Singleton
  <2>11. List!Cardinality(S) = 1
    BY <2>10, ListCardinality
  <2> QED BY <2>11 DEF S, top
<1>4. \A l \in Objects : Len(List!Nodes(list, l)) = list.count[l]
  BY <1>2
<1> QED BY <1>3, <1>4, Zenon DEF List!NothingLeaks

(* DoublyLinkedList: after any calls, each call does to its list what it   *)
(* would do to a sequence and nothing to the others, and no node is lost   *)
(* or on two lists.                                                        *)
THEOREM ListsAreSound == ContainersSpec => []ListsAreSequences
<1>1. ContainersInit => ListInv
  BY ListStarts DEF ContainersInit
<1>2. ListInv /\ [ContainersNext]_<<list, fifo, maps>> => ListInv'
  <2> SUFFICES ASSUME ListInv, [ContainersNext]_<<list, fifo, maps>> PROVE ListInv'
    OBVIOUS
  <2>1. CASE List!ListNext
    BY <2>1, ListStep
  <2>2. CASE UNCHANGED list
    BY <2>2 DEF ListInv
  <2> QED BY <2>1, <2>2 DEF ContainersNext
<1>3. ListInv => ListsAreSequences
  BY CallsAct, NoLeaks DEF ListsAreSequences
<1> QED BY <1>1, <1>2, <1>3, PTL DEF ContainersSpec

-----------------------------------------------------------------------------
(* Hash tables and the functions they hold.                                *)

(* What a table may hold under a key.                                      *)
Held == MapValues \cup {DefaultValue}

(* Entries of chains.                                                      *)
MapEntry == [key : MapKeys, value : Held]

(* f maps some of the keys.                                                *)
IsMapping(f) == f \in [DOMAIN f -> Held] /\ DOMAIN f \subseteq MapKeys

(* f, with k mapped to v.                                                  *)
With(f, k, v) == [j \in DOMAIN f \cup {k} |-> IF j = k THEN v ELSE f[j]]

(* f, without k.                                                           *)
Less(f, k) == [j \in DOMAIN f \ {k} |-> f[j]]

(* The chain c, that with index i of n, holds entries of f, one a key.     *)
IsPartOf(c, i, n, f) ==
  /\ c \in Seq(MapEntry)
  /\ \A p \in 1 .. Len(c) : /\ c[p].key \in DOMAIN f /\ c[p].value = f[c[p].key]
                            /\ Map!BucketIndex(c[p].key, n) = i
  /\ \A p, q \in 1 .. Len(c) : c[p].key = c[q].key => p = q

(* The chain c has an entry for k.                                         *)
HasEntry(c, k) == \E p \in 1 .. Len(c) : c[p].key = k

(* The buckets b hold what f maps, each key in the chain it hashes to.     *)
Tables(b, f) ==
  /\ b \in Seq(Seq(MapEntry))
  /\ IsMapping(f)
  /\ \A i \in 1 .. Len(b) : IsPartOf(b[i], i, Len(b), f)
  /\ \A k \in DOMAIN f : Len(b) > 0 /\ HasEntry(b[Map!BucketIndex(k, Len(b))], k)

(* A key hashes to one of the buckets, when there is one.                  *)
LEMMA BucketIndexType ==
  ASSUME NEW k \in MapKeys, NEW n \in Nat, n > 0
  PROVE  Map!BucketIndex(k, n) \in 1 .. n
<1>1. KeyHash(k) \in Nat
  BY ContainersAssumption
<1>2. KeyHash(k) % n \in 0 .. n - 1
  BY <1>1
<1> QED BY <1>2 DEF Map!BucketIndex

(* The buckets b, with c in place of the chain with index i.               *)
WithChain(b, i, c) == [b EXCEPT ![i] = c]

(* f and g agree on the keys of other chains than that with index i.       *)
AgreeBut(f, g, i, n) ==
  \A k \in MapKeys : Map!BucketIndex(k, n) # i =>
    /\ k \in DOMAIN f <=> k \in DOMAIN g
    /\ k \in DOMAIN f => f[k] = g[k]

(* One chain is replaced.                                                  *)
LEMMA ChainReplaced ==
  ASSUME NEW b, NEW f, Tables(b, f), NEW i \in 1 .. Len(b), NEW c, NEW g, IsMapping(g),
         IsPartOf(c, i, Len(b), g),
         \A k \in DOMAIN g : Map!BucketIndex(k, Len(b)) = i => HasEntry(c, k),
         AgreeBut(f, g, i, Len(b)),
         NEW r, r = WithChain(b, i, c)
  PROVE  Tables(r, g) /\ Len(r) = Len(b)
<1> DEFINE n == Len(b)
<1>1. b \in Seq(Seq(MapEntry)) /\ n \in Nat /\ n > 0
  BY DEF Tables
<1>2. c \in Seq(MapEntry)
  BY DEF IsPartOf
<1>3. r \in Seq(Seq(MapEntry)) /\ Len(r) = n /\ r[i] = c /\ \A j \in 1 .. n : j # i => r[j] = b[j]
  <2> DEFINE S == Seq(MapEntry)
  <2>1. b \in Seq(S) /\ c \in S
    BY <1>1, <1>2
  <2> HIDE DEF S
  <2>2. r \in Seq(S) /\ Len(r) = n /\ r[i] = c /\ \A j \in 1 .. n : j # i => r[j] = b[j]
    BY <2>1 DEF WithChain
  <2> QED BY <2>2 DEF S
<1> HIDE DEF n
<1>4. ASSUME NEW j \in 1 .. n PROVE IsPartOf(r[j], j, n, g)
  <2>1. CASE j = i
    BY <1>3, <2>1 DEF n
  <2>2. CASE j # i
    <3>1. IsPartOf(b[j], j, n, f) /\ r[j] = b[j]
      BY <1>3, <2>2 DEF Tables, n
    <3>2. ASSUME NEW p \in 1 .. Len(b[j])
          PROVE  b[j][p].key \in DOMAIN g /\ b[j][p].value = g[b[j][p].key]
      <4>1. /\ b[j][p].key \in DOMAIN f /\ b[j][p].value = f[b[j][p].key]
            /\ Map!BucketIndex(b[j][p].key, n) = j
        BY <3>1 DEF IsPartOf
      <4>2. b[j][p].key \in MapKeys
        BY <4>1 DEF Tables, IsMapping
      <4> QED BY <2>2, <4>1, <4>2 DEF AgreeBut, n
    <3> QED BY <3>1, <3>2 DEF IsPartOf
  <2> QED BY <2>1, <2>2
<1>5. ASSUME NEW k \in DOMAIN g PROVE HasEntry(r[Map!BucketIndex(k, n)], k)
  <2>1. k \in MapKeys
    BY DEF IsMapping
  <2>2. Map!BucketIndex(k, n) \in 1 .. n
    BY <1>1, <2>1, BucketIndexType DEF n
  <2>3. CASE Map!BucketIndex(k, n) = i
    BY <1>3, <2>3 DEF n
  <2>4. CASE Map!BucketIndex(k, n) # i
    <3>1. k \in DOMAIN f
      BY <2>1, <2>4 DEF AgreeBut, n
    <3>2. HasEntry(b[Map!BucketIndex(k, n)], k)
      BY <3>1 DEF Tables, n
    <3> QED BY <1>3, <2>2, <2>4, <3>2
  <2> QED BY <2>3, <2>4
<1> QED BY <1>1, <1>3, <1>4, <1>5 DEF Tables, n

(* f tells the joining of the first k chains of b.                         *)
IsJoined(f, k, b) ==
  f = [i \in 0 .. k |-> IF i = 0 THEN <<>> ELSE f[i - 1] \o b[i]]

(* The function that tells the joining of the chains exists.               *)
LEMMA JoinedExists ==
  ASSUME NEW b, NEW n \in Nat
  PROVE  \E f : IsJoined(f, n, b)
<1> DEFINE P == {k \in Nat : \E f : IsJoined(f, k, b)}
<1>1. 0 \in P
  <2> DEFINE f == [i \in 0 .. 0 |-> <<>>]
  <2>1. IsJoined(f, 0, b)
    BY DEF IsJoined
  <2> QED BY <2>1
<1>2. ASSUME NEW k \in Nat, k \in P PROVE k + 1 \in P
  <2>1. PICK g : IsJoined(g, k, b)
    BY <1>2
  <2> DEFINE Start == <<>>
             Then(x, i) == x \o b[i]
             f == [i \in 0 .. k + 1 |-> IF i = k + 1 THEN Then(g[k], k + 1) ELSE g[i]]
  <2>2. \A i \in 0 .. k : g[i] = IF i = 0 THEN Start ELSE Then(g[i - 1], i)
    BY <2>1 DEF IsJoined
  <2>3. f = [i \in 0 .. k + 1 |-> IF i = k + 1 THEN Then(g[k], k + 1) ELSE g[i]]
    OBVIOUS
  <2> HIDE DEF Start, Then, f
  <2>4. \A i \in 0 .. k + 1 : f[i] = IF i = 0 THEN Start ELSE Then(f[i - 1], i)
    <3> TAKE i \in 0 .. k + 1
    <3>1. CASE i = k + 1
      <4>1. f[i] = Then(g[k], k + 1) /\ f[i - 1] = g[k] /\ i # 0 /\ i - 1 = k
        BY <2>3, <3>1
      <4> QED BY <3>1, <4>1
    <3>2. CASE i \in 1 .. k
      <4>1. f[i] = g[i] /\ f[i - 1] = g[i - 1] /\ i # 0 /\ i \in 0 .. k
        BY <2>3, <3>2
      <4> QED BY <2>2, <4>1
    <3>3. CASE i = 0
      <4>1. f[i] = g[i] /\ i \in 0 .. k
        BY <2>3, <3>3
      <4> QED BY <2>2, <3>3, <4>1
    <3> QED BY <3>1, <3>2, <3>3
  <2>5. f = [i \in 0 .. k + 1 |-> IF i = 0 THEN Start ELSE Then(f[i - 1], i)]
    <3>1. f = [i \in 0 .. k + 1 |-> f[i]]
      BY <2>3
    <3> QED BY <2>4, <3>1
  <2>6. IsJoined(f, k + 1, b)
    BY <2>5, Zenon DEF IsJoined, Start, Then
  <2> QED BY <2>6
<1> HIDE DEF P
<1>3. n \in P
  BY <1>1, <1>2, NatInductionOnSet
<1> QED BY <1>3 DEF P

(* The entries are the chains, one after the other.                        *)
LEMMA EntriesSteps ==
  ASSUME NEW m, Len(m.buckets) \in Nat
  PROVE  \E upTo : /\ Map!Entries(m) = upTo[Len(m.buckets)]
                   /\ upTo[0] = <<>>
                   /\ \A i \in 1 .. Len(m.buckets) : upTo[i] = upTo[i - 1] \o m.buckets[i]
<1> DEFINE b == m.buckets
           n == Len(b)
           upTo == CHOOSE f : IsJoined(f, n, b)
           Then(x, i) == x \o b[i]
<1>1. IsJoined(upTo, n, b)
  BY JoinedExists
<1>2. Map!Entries(m) = upTo[n]
  BY Zenon DEF Map!Entries, IsJoined
<1> HIDE DEF upTo, n
<1>3. upTo = [i \in 0 .. n |-> IF i = 0 THEN <<>> ELSE Then(upTo[i - 1], i)]
  BY <1>1, Zenon DEF IsJoined
<1> HIDE DEF Then
<1>4. n \in Nat
  BY DEF n
<1>5. upTo[0] = <<>> /\ \A i \in 1 .. n : upTo[i] = Then(upTo[i - 1], i)
  <2>1. \A i \in 0 .. n : upTo[i] = IF i = 0 THEN <<>> ELSE Then(upTo[i - 1], i)
    <3> DEFINE g == [i \in 0 .. n |-> IF i = 0 THEN <<>> ELSE Then(upTo[i - 1], i)]
    <3>1. upTo = g /\ \A i \in 0 .. n : g[i] = IF i = 0 THEN <<>> ELSE Then(upTo[i - 1], i)
      BY <1>3
    <3> HIDE DEF g
    <3> QED BY <3>1
  <2> QED BY <1>4, <2>1
<1> QED BY <1>2, <1>5, Zenon DEF n, Then

(* What s holds of f: the keys whose index is up to i, each once.          *)
ListsUpTo(s, i, n, f) ==
  /\ s \in Seq(MapEntry)
  /\ \A p \in 1 .. Len(s) : /\ s[p].key \in DOMAIN f /\ s[p].value = f[s[p].key]
                            /\ Map!BucketIndex(s[p].key, n) <= i
  /\ \A p, q \in 1 .. Len(s) : s[p].key = s[q].key => p = q
  /\ \A k \in DOMAIN f : Map!BucketIndex(k, n) <= i => HasEntry(s, k)

(* One more chain adds its entries, whose keys hash to it alone.           *)
LEMMA ChainJoined ==
  ASSUME NEW b, NEW f, Tables(b, f), NEW i \in 1 .. Len(b), NEW s,
         ListsUpTo(s, i - 1, Len(b), f)
  PROVE  ListsUpTo(s \o b[i], i, Len(b), f)
<1> DEFINE n == Len(b)
           c == b[i]
           t == s \o c
<1>1. IsPartOf(c, i, n, f) /\ n \in Nat /\ n > 0
  BY DEF Tables
<1>2. c \in Seq(MapEntry) /\ s \in Seq(MapEntry) /\ Len(c) \in Nat /\ Len(s) \in Nat
  BY <1>1 DEF IsPartOf, ListsUpTo
<1>3. /\ t \in Seq(MapEntry) /\ Len(t) = Len(s) + Len(c)
      /\ \A p \in 1 .. Len(s) : t[p] = s[p] /\ p \in 1 .. Len(t)
      /\ \A p \in 1 .. Len(c) : t[Len(s) + p] = c[p] /\ Len(s) + p \in 1 .. Len(t)
      /\ \A p \in 1 .. Len(t) : p \in 1 .. Len(s) \/ (p - Len(s) \in 1 .. Len(c) /\ t[p] = c[p - Len(s)])
  <2> HIDE DEF c
  <2>1. /\ t \in Seq(MapEntry) /\ Len(t) = Len(s) + Len(c)
        /\ \A p \in 1 .. Len(s) + Len(c) : t[p] = IF p <= Len(s) THEN s[p] ELSE c[p - Len(s)]
    BY <1>2, ConcatProperties
  <2> HIDE DEF t
  <2>2. ASSUME NEW p \in 1 .. Len(s) PROVE t[p] = s[p] /\ p \in 1 .. Len(t)
    <3>1. p \in 1 .. Len(s) + Len(c) /\ p <= Len(s)
      BY <1>2
    <3> QED BY <2>1, <3>1
  <2>3. ASSUME NEW p \in 1 .. Len(c) PROVE t[Len(s) + p] = c[p] /\ Len(s) + p \in 1 .. Len(t)
    <3> DEFINE q == Len(s) + p
    <3>1. q \in 1 .. Len(s) + Len(c) /\ ~ (q <= Len(s)) /\ q - Len(s) = p
      BY <1>2
    <3> HIDE DEF q
    <3>2. t[q] = c[p] /\ q \in 1 .. Len(t)
      BY <2>1, <3>1
    <3> QED BY <3>2 DEF q
  <2>4. ASSUME NEW p \in 1 .. Len(t), p \notin 1 .. Len(s)
        PROVE  p - Len(s) \in 1 .. Len(c) /\ t[p] = c[p - Len(s)]
    <3>1. p \in 1 .. Len(s) + Len(c) /\ ~ (p <= Len(s)) /\ p - Len(s) \in 1 .. Len(c)
      BY <1>2, <2>1, <2>4
    <3> QED BY <2>1, <3>1
  <2> QED BY <2>1, <2>2, <2>3, <2>4
<1>4. ASSUME NEW k \in DOMAIN f PROVE Map!BucketIndex(k, n) \in 1 .. n /\ HasEntry(b[Map!BucketIndex(k, n)], k)
  BY <1>1, BucketIndexType DEF Tables, IsMapping
<1> HIDE DEF t, c, n
<1>5. ASSUME NEW p \in 1 .. Len(s)
      PROVE  s[p].key \in DOMAIN f /\ s[p].value = f[s[p].key] /\ Map!BucketIndex(s[p].key, n) <= i - 1
  BY DEF ListsUpTo, n
<1>6. ASSUME NEW p \in 1 .. Len(c)
      PROVE  c[p].key \in DOMAIN f /\ c[p].value = f[c[p].key] /\ Map!BucketIndex(c[p].key, n) = i
  BY <1>1 DEF IsPartOf
<1>7. ASSUME NEW p \in 1 .. Len(t)
      PROVE  t[p].key \in DOMAIN f /\ t[p].value = f[t[p].key] /\ Map!BucketIndex(t[p].key, n) <= i
  <2>1. CASE p \in 1 .. Len(s)
    <3>1. t[p] = s[p]
      BY <1>3, <2>1
    <3>2. Map!BucketIndex(s[p].key, n) \in 1 .. n
      BY <1>4, <1>5, <2>1
    <3> QED BY <1>1, <1>5, <2>1, <3>1, <3>2
  <2>2. CASE p - Len(s) \in 1 .. Len(c) /\ t[p] = c[p - Len(s)]
    BY <1>6, <2>2
  <2> QED BY <1>3, <2>1, <2>2
<1>8. ASSUME NEW p \in 1 .. Len(t), NEW q \in 1 .. Len(t), t[p].key = t[q].key PROVE p = q
  <2>1. CASE p \in 1 .. Len(s) /\ q \in 1 .. Len(s)
    BY <1>3, <1>8, <2>1 DEF ListsUpTo
  <2>2. CASE p \notin 1 .. Len(s) /\ q \notin 1 .. Len(s)
    <3>1. p - Len(s) \in 1 .. Len(c) /\ q - Len(s) \in 1 .. Len(c)
          /\ t[p] = c[p - Len(s)] /\ t[q] = c[q - Len(s)]
      BY <1>3, <2>2
    <3>2. p - Len(s) = q - Len(s)
      BY <1>1, <1>8, <3>1 DEF IsPartOf
    <3> QED BY <1>2, <3>2
  <2>3. ASSUME NEW x \in 1 .. Len(s), NEW y \in 1 .. Len(t), y \notin 1 .. Len(s), t[x].key = t[y].key
        PROVE  FALSE
    <3>1. t[x] = s[x] /\ Map!BucketIndex(s[x].key, n) <= i - 1 /\ Map!BucketIndex(s[x].key, n) \in 1 .. n
      BY <1>3, <1>4, <1>5
    <3>2. y - Len(s) \in 1 .. Len(c) /\ t[y] = c[y - Len(s)]
      BY <1>3, <2>3
    <3>3. Map!BucketIndex(t[y].key, n) = i
      BY <1>6, <3>2
    <3> QED BY <1>1, <2>3, <3>1, <3>3 DEF n
  <2> QED BY <1>8, <2>1, <2>2, <2>3
<1>9. ASSUME NEW k \in DOMAIN f, Map!BucketIndex(k, n) <= i PROVE HasEntry(t, k)
  <2>1. Map!BucketIndex(k, n) \in 1 .. n
    BY <1>4
  <2>2. CASE Map!BucketIndex(k, n) <= i - 1
    <3>1. PICK p \in 1 .. Len(s) : s[p].key = k
      BY <2>2 DEF ListsUpTo, HasEntry, n
    <3> QED BY <1>3, <3>1 DEF HasEntry
  <2>3. CASE Map!BucketIndex(k, n) = i
    <3>1. PICK p \in 1 .. Len(c) : c[p].key = k
      BY <1>4, <2>3 DEF HasEntry, c
    <3>2. t[Len(s) + p].key = k /\ Len(s) + p \in 1 .. Len(t)
      BY <1>3, <3>1
    <3> QED BY <3>2 DEF HasEntry
  <2> QED BY <1>1, <1>9, <2>1, <2>2, <2>3 DEF n
<1>10. ListsUpTo(t, i, n, f)
  BY <1>3, <1>7, <1>8, <1>9 DEF ListsUpTo
<1> QED BY <1>10 DEF t, c, n

(* The entries of a table are those of its function, each key once.        *)
LEMMA EntriesListAll ==
  ASSUME NEW m, NEW f, Tables(m.buckets, f)
  PROVE  ListsUpTo(Map!Entries(m), Len(m.buckets), Len(m.buckets), f)
<1> DEFINE b == m.buckets
           n == Len(b)
<1>1. n \in Nat /\ Tables(b, f)
  BY DEF Tables
<1>2. PICK upTo : /\ Map!Entries(m) = upTo[n]
                  /\ upTo[0] = <<>>
                  /\ \A i \in 1 .. n : upTo[i] = upTo[i - 1] \o b[i]
  BY <1>1, EntriesSteps
<1> DEFINE P == {i \in Nat : i <= n => ListsUpTo(upTo[i], i, n, f)}
<1> HIDE DEF b, n
<1>3. 0 \in P
  <2>1. \A k \in DOMAIN f : Map!BucketIndex(k, n) \in 1 .. n
    BY <1>1, BucketIndexType DEF Tables, IsMapping, n
  <2>2. <<>> \in Seq(MapEntry) /\ Len(<<>>) = 0
    OBVIOUS
  <2>3. ListsUpTo(<<>>, 0, n, f)
    BY <1>1, <2>1, <2>2 DEF ListsUpTo
  <2> QED BY <1>2, <2>3
<1>4. ASSUME NEW i \in Nat, i \in P PROVE i + 1 \in P
  <2> SUFFICES ASSUME i + 1 <= n PROVE ListsUpTo(upTo[i + 1], i + 1, n, f)
    OBVIOUS
  <2>1. i <= n /\ i + 1 \in 1 .. n /\ i + 1 - 1 = i
    BY <1>1
  <2>2. ListsUpTo(upTo[i], i + 1 - 1, n, f)
    BY <1>4, <2>1
  <2>3. ListsUpTo(upTo[i] \o b[i + 1], i + 1, n, f)
    BY <1>1, <2>1, <2>2, ChainJoined DEF n
  <2>4. upTo[i + 1] = upTo[i] \o b[i + 1]
    <3>1. ASSUME NEW j \in 1 .. n, j = i + 1 PROVE upTo[j] = upTo[i] \o b[j]
      <4>1. j - 1 = i
        BY <3>1
      <4>2. upTo[j] = upTo[j - 1] \o b[j]
        BY <1>2
      <4> QED BY <4>1, <4>2, Zenon
    <3> HIDE DEF P
    <3>2. \A j \in 1 .. n : j = i + 1 => upTo[j] = upTo[i] \o b[j]
      BY <3>1
    <3>3. i + 1 \in 1 .. n
      BY <2>1
    <3> QED BY <3>2, <3>3, Zenon
  <2> QED BY <2>3, <2>4
<1> HIDE DEF P
<1>5. n \in P
  BY <1>1, <1>3, <1>4, NatInductionOnSet
<1> QED BY <1>1, <1>2, <1>5 DEF P, n, b

-----------------------------------------------------------------------------
(* Finding.                                                                *)

(* A table has as many entries as its function has keys.                   *)
LEMMA EntriesAreCounted ==
  ASSUME NEW m, NEW f, Tables(m.buckets, f)
  PROVE  /\ IsFiniteSet(DOMAIN f) /\ Cardinality(DOMAIN f) \in Nat
         /\ Len(Map!Entries(m)) = Cardinality(DOMAIN f)
         /\ Map!Entries(m) \in Seq(MapEntry)
         /\ {Map!Entries(m)[i].key : i \in DOMAIN Map!Entries(m)} = DOMAIN f
<1> DEFINE b == m.buckets
           s == Map!Entries(m)
           n == Len(b)
           D == 1 .. Len(s)
           keys == [p \in D |-> s[p].key]
           F == DOMAIN f
<1>1. ListsUpTo(s, n, n, f)
  BY EntriesListAll
<1>2. n \in Nat /\ \A k \in F : Map!BucketIndex(k, n) \in 1 .. n
  BY BucketIndexType DEF Tables, IsMapping
<1> HIDE DEF b, n, s
<1>3. s \in Seq(MapEntry) /\ Len(s) \in Nat /\ DOMAIN s = D
  BY <1>1 DEF ListsUpTo
<1>4. \A k \in F : \E p \in D : s[p].key = k
  BY <1>1, <1>2 DEF ListsUpTo, HasEntry
<1>5. \A p \in D : s[p].key \in F
  BY <1>1 DEF ListsUpTo
<1>6. \A p, q \in D : s[p].key = s[q].key => p = q
  BY <1>1 DEF ListsUpTo
<1>7. keys \in Bijection(D, F)
  <2> HIDE DEF D, F
  <2>1. \A p \in D : keys[p] = s[p].key
    OBVIOUS
  <2>2. keys \in [D -> F]
    BY <1>5
  <2> HIDE DEF keys
  <2> QED BY <1>4, <1>6, <2>1, <2>2 DEF Bijection, Injection, Surjection, IsInjective
<1> HIDE DEF keys, F
<1>8. IsFiniteSet(D) /\ Cardinality(D) = Len(s)
  <2>1. Len(s) \in Int /\ 1 \in Int /\ Len(s) >= 0
    BY <1>3
  <2>2. IsFiniteSet(1 .. Len(s)) /\ Cardinality(1 .. Len(s)) = IF 1 > Len(s) THEN 0 ELSE Len(s) - 1 + 1
    <3> DEFINE top == Len(s)
    <3> HIDE DEF top
    <3>1. \A a, z \in Int : IsFiniteSet(a .. z) /\ Cardinality(a .. z) = IF a > z THEN 0 ELSE z - a + 1
      BY FS_Interval
    <3>2. top \in Int /\ 1 \in Int
      BY <2>1 DEF top
    <3>3. IsFiniteSet(1 .. top) /\ Cardinality(1 .. top) = IF 1 > top THEN 0 ELSE top - 1 + 1
      BY <3>1, <3>2
    <3> QED BY <3>3 DEF top
  <2> QED BY <2>1, <2>2
<1> HIDE DEF D
<1>9. IsFiniteSet(F) /\ Cardinality(F) = Len(s)
  BY <1>7, <1>8, FS_Surjection DEF Bijection
<1>10. {s[i].key : i \in DOMAIN s} = F
  BY <1>3, <1>4, <1>5
<1> QED BY <1>3, <1>9, <1>10, FS_CardinalityType DEF F, s

(* The chain c of k in m holds it at p, and nowhere else.                  *)
IsPlace(m, f, k, c, p) ==
  p \in 1 .. Len(c) /\ Map!Places(m, k) = {p} /\ c[p].key = k /\ c[p].value = f[k]

(* A key is found at its one place in its chain.                           *)
LEMMA PlacesAre ==
  ASSUME NEW m, NEW f, Tables(m.buckets, f), NEW k \in MapKeys, Len(m.buckets) > 0,
         NEW c, c = m.buckets[Map!BucketIndex(k, Len(m.buckets))]
  PROVE  /\ Map!BucketIndex(k, Len(m.buckets)) \in 1 .. Len(m.buckets)
         /\ IsPartOf(c, Map!BucketIndex(k, Len(m.buckets)), Len(m.buckets), f)
         /\ k \notin DOMAIN f => Map!Places(m, k) = {} /\ \A p \in 1 .. Len(c) : c[p].key # k
         /\ k \in DOMAIN f => \E p : IsPlace(m, f, k, c, p)
<1> DEFINE n == Len(m.buckets)
           i == Map!BucketIndex(k, n)
           all == {p \in DOMAIN c : c[p].key = k}
<1>1. n \in Nat
  BY DEF Tables
<1>2. i \in 1 .. n
  BY <1>1, BucketIndexType
<1>3. IsPartOf(c, i, n, f)
  BY <1>2 DEF Tables
<1>4. k \in DOMAIN f => HasEntry(c, k)
  BY DEF Tables
<1>5. Map!Places(m, k) = {p \in all : \A q \in all : p <= q}
  BY DEF Map!Places
<1> HIDE DEF i, n
<1>6. c \in Seq(MapEntry) /\ DOMAIN c = 1 .. Len(c) /\ Len(c) \in Nat
  BY <1>3 DEF IsPartOf
<1>7. CASE k \notin DOMAIN f
  <2>1. \A p \in 1 .. Len(c) : c[p].key # k
    BY <1>3, <1>7 DEF IsPartOf
  <2>2. all = {}
    BY <1>6, <2>1
  <2> HIDE DEF all
  <2> QED BY <1>2, <1>3, <1>5, <1>7, <2>1, <2>2 DEF i, n
<1>8. CASE k \in DOMAIN f
  <2>1. PICK p \in 1 .. Len(c) : c[p].key = k
    BY <1>4, <1>8 DEF HasEntry
  <2>2. \A q \in 1 .. Len(c) : c[q].key = k => q = p
    BY <1>3, <2>1 DEF IsPartOf
  <2>3. all = {p}
    BY <1>6, <2>1, <2>2
  <2>4. c[p].value = f[k]
    BY <1>3, <2>1 DEF IsPartOf
  <2>5. Map!Places(m, k) = {p}
    <3> HIDE DEF all
    <3> QED BY <1>5, <1>6, <2>3
  <2>6. IsPlace(m, f, k, c, p)
    BY <2>1, <2>4, <2>5 DEF IsPlace
  <2> QED BY <1>2, <1>3, <1>8, <2>6 DEF i, n
<1> QED BY <1>7, <1>8

(* A key is found exactly when it is mapped, with its value.               *)
LEMMA HasKeyIs ==
  ASSUME NEW m, NEW f, Tables(m.buckets, f), NEW k \in MapKeys, Len(m.buckets) > 0
  PROVE  /\ Map!HasKey(m, k) <=> k \in DOMAIN f
         /\ k \in DOMAIN f => Map!Get(m, k) = f[k]
<1> DEFINE c == m.buckets[Map!BucketIndex(k, Len(m.buckets))]
<1>1. /\ k \notin DOMAIN f => Map!Places(m, k) = {}
      /\ k \in DOMAIN f => \E p : IsPlace(m, f, k, c, p)
  <2>1. c = m.buckets[Map!BucketIndex(k, Len(m.buckets))]
    OBVIOUS
  <2> HIDE DEF c
  <2> QED BY <2>1, PlacesAre
<1>2. Map!HasKey(m, k) <=> k \in DOMAIN f
  BY <1>1 DEF Map!HasKey, IsPlace
<1>3. ASSUME k \in DOMAIN f PROVE Map!Get(m, k) = f[k]
  <2>1. PICK p \in 1 .. Len(c) : Map!Places(m, k) = {p} /\ c[p].value = f[k]
    BY <1>1, <1>3 DEF IsPlace
  <2>2. p \in Int /\ Map!Min({p}) = p
    BY DEF Map!Min
  <2>3. Map!Get(m, k) = c[p].value
    BY <1>2, <1>3, <2>1, <2>2, Zenon DEF Map!Get
  <2> QED BY <2>1, <2>3
<1> QED BY <1>2, <1>3

(* What a table holds is its function.                                     *)
LEMMA ContentsAre ==
  ASSUME NEW m, NEW f, Tables(m.buckets, f)
  PROVE  Map!Contents(m) = f
<1>1. {Map!Entries(m)[i].key : i \in DOMAIN Map!Entries(m)} = DOMAIN f
  BY EntriesAreCounted
<1>2. Map!Contents(m) = [k \in DOMAIN f |-> Map!Get(m, k)]
  BY <1>1, Zenon DEF Map!Contents
<1>3. ASSUME NEW k \in DOMAIN f PROVE Map!Get(m, k) = f[k]
  <2>1. k \in MapKeys /\ Len(m.buckets) > 0
    BY DEF Tables, IsMapping
  <2> QED BY <2>1, HasKeyIs
<1>4. f = [k \in DOMAIN f |-> f[k]]
  BY DEF Tables, IsMapping
<1> QED BY <1>2, <1>3, <1>4

-----------------------------------------------------------------------------
(* Adding.                                                                 *)

(* With gives a mapping again.                                             *)
LEMMA WithIs ==
  ASSUME NEW f, IsMapping(f), NEW k \in MapKeys, NEW v \in Held
  PROVE  IsMapping(With(f, k, v)) /\ DOMAIN With(f, k, v) = DOMAIN f \cup {k}
<1>1. \A j \in DOMAIN f : f[j] \in Held
  BY DEF IsMapping
<1>2. DOMAIN f \subseteq MapKeys
  BY DEF IsMapping
<1> DEFINE g == With(f, k, v)
<1>3. DOMAIN g = DOMAIN f \cup {k} /\ g = [j \in DOMAIN g |-> g[j]]
  BY DEF With
<1>4. g[k] = v /\ \A j \in DOMAIN f : j # k => g[j] = f[j]
  BY DEF With
<1> HIDE DEF g
<1>5. \A j \in DOMAIN g : g[j] \in Held
  BY <1>1, <1>3, <1>4
<1>6. IsMapping(g)
  BY <1>2, <1>3, <1>5 DEF IsMapping
<1> QED BY <1>3, <1>4, <1>6 DEF g

(* An entry put in front of its chain.                                     *)
LEMMA PrependedAdds ==
  ASSUME NEW b, NEW f, Tables(b, f), Len(b) > 0, NEW e \in MapEntry, e.key \notin DOMAIN f
  PROVE  /\ Tables(Map!Prepended(b, e), With(f, e.key, e.value))
         /\ Len(Map!Prepended(b, e)) = Len(b)
<1> DEFINE n == Len(b)
           k == e.key
           v == e.value
           i == Map!BucketIndex(k, n)
           c == b[i]
           d == <<e>> \o c
           g == With(f, k, v)
<1>1. k \in MapKeys /\ v \in Held
  BY DEF MapEntry
<1>2. n \in Nat /\ n > 0 /\ IsMapping(f)
  BY DEF Tables
<1>3. i \in 1 .. n
  BY <1>1, <1>2, BucketIndexType
<1>4. IsPartOf(c, i, n, f)
  BY <1>3 DEF Tables
<1>5. Map!Prepended(b, e) = WithChain(b, i, d)
  BY DEF Map!Prepended, WithChain
<1>6. /\ IsMapping(g) /\ DOMAIN g = DOMAIN f \cup {k} /\ g[k] = v
      /\ \A j \in DOMAIN f : j # k => g[j] = f[j]
  <2> HIDE DEF k, v, n
  <2>1. g = With(f, k, v)
    OBVIOUS
  <2> HIDE DEF g
  <2>2. IsMapping(f) /\ k \in MapKeys /\ v \in Held
    BY <1>1, <1>2
  <2>3. IsMapping(g) /\ DOMAIN g = DOMAIN f \cup {k}
    <3>1. IsMapping(With(f, k, v))
      BY <2>2, WithIs
    <3>2. DOMAIN With(f, k, v) = DOMAIN f \cup {k}
      BY <2>2, WithIs
    <3> QED BY <2>1, <3>1, <3>2
  <2>4. g[k] = v /\ \A j \in DOMAIN f : j # k => g[j] = f[j]
    <3>1. With(f, k, v)[k] = v /\ \A j \in DOMAIN f : j # k => With(f, k, v)[j] = f[j]
      BY DEF With
    <3> QED BY <2>1, <3>1
  <2> QED BY <2>3, <2>4
<1> HIDE DEF n, i, g, c
<1>7. /\ d \in Seq(MapEntry) /\ Len(d) = Len(c) + 1 /\ d[1] = e /\ Len(c) \in Nat
      /\ \A p \in 1 .. Len(d) : p = 1 \/ (p - 1 \in 1 .. Len(c) /\ d[p] = c[p - 1])
      /\ \A p \in 1 .. Len(c) : d[p + 1] = c[p] /\ p + 1 \in 1 .. Len(d)
  <2>1. c \in Seq(MapEntry) /\ <<e>> \in Seq(MapEntry) /\ Len(<<e>>) = 1 /\ <<e>>[1] = e /\ Len(c) \in Nat
    BY <1>4 DEF IsPartOf
  <2>2. /\ d \in Seq(MapEntry) /\ Len(d) = Len(<<e>>) + Len(c)
        /\ \A p \in 1 .. Len(<<e>>) + Len(c) : d[p] = IF p <= Len(<<e>>) THEN <<e>>[p] ELSE c[p - Len(<<e>>)]
    BY <2>1, ConcatProperties
  <2> HIDE DEF d
  <2>3. Len(d) = 1 + Len(c) /\ \A p \in 1 .. 1 + Len(c) : d[p] = IF p <= 1 THEN <<e>>[p] ELSE c[p - 1]
    BY <2>1, <2>2
  <2>4. d[1] = e
    BY <2>1, <2>3
  <2>5. \A p \in 1 .. Len(d) : p = 1 \/ (p - 1 \in 1 .. Len(c) /\ d[p] = c[p - 1])
    BY <2>1, <2>3
  <2>6. \A p \in 1 .. Len(c) : d[p + 1] = c[p] /\ p + 1 \in 1 .. Len(d)
    BY <2>1, <2>3
  <2> QED BY <2>1, <2>2, <2>3, <2>4, <2>5, <2>6
<1> HIDE DEF d
<1>8. ASSUME NEW p \in 1 .. Len(c)
      PROVE  c[p].key \in DOMAIN f /\ c[p].value = f[c[p].key] /\ Map!BucketIndex(c[p].key, n) = i /\ c[p].key # k
  BY <1>4 DEF IsPartOf
<1> HIDE DEF k, v
<1>9. IsPartOf(d, i, n, g)
  <2>1. ASSUME NEW p \in 1 .. Len(d)
        PROVE  d[p].key \in DOMAIN g /\ d[p].value = g[d[p].key] /\ Map!BucketIndex(d[p].key, n) = i
    <3>1. CASE p = 1
      BY <1>6, <1>7, <3>1 DEF k, v, i
    <3>2. CASE p - 1 \in 1 .. Len(c) /\ d[p] = c[p - 1]
      BY <1>6, <1>8, <3>2
    <3> QED BY <1>7, <3>1, <3>2
  <2>2. ASSUME NEW p \in 1 .. Len(d), NEW q \in 1 .. Len(d), d[p].key = d[q].key PROVE p = q
    <3>1. \A x \in 1 .. Len(d) : x # 1 => d[x].key # k
      BY <1>7, <1>8
    <3>2. d[1].key = k
      BY <1>7 DEF k
    <3>3. CASE p = 1 \/ q = 1
      BY <2>2, <3>1, <3>2, <3>3
    <3>4. CASE p # 1 /\ q # 1
      <4>1. p - 1 \in 1 .. Len(c) /\ d[p] = c[p - 1] /\ q - 1 \in 1 .. Len(c) /\ d[q] = c[q - 1]
        BY <1>7, <3>4
      <4>2. p - 1 = q - 1
        BY <1>4, <2>2, <4>1 DEF IsPartOf
      <4> QED BY <1>7, <4>2
    <3> QED BY <3>3, <3>4
  <2> QED BY <1>7, <2>1, <2>2 DEF IsPartOf
<1>10. ASSUME NEW j \in DOMAIN g, Map!BucketIndex(j, n) = i PROVE HasEntry(d, j)
  <2>1. CASE j = k
    <3>1. 1 \in 1 .. Len(d) /\ d[1].key = j
      BY <1>7, <2>1 DEF k
    <3> QED BY <3>1 DEF HasEntry
  <2>2. CASE j # k
    <3>1. HasEntry(c, j)
      BY <1>6, <1>10, <2>2 DEF Tables, n, c
    <3>2. PICK p \in 1 .. Len(c) : c[p].key = j
      BY <3>1 DEF HasEntry
    <3>3. d[p + 1].key = j /\ p + 1 \in 1 .. Len(d)
      BY <1>7, <3>2
    <3> QED BY <3>3 DEF HasEntry
  <2> QED BY <2>1, <2>2
<1>11. AgreeBut(f, g, i, n)
  BY <1>6 DEF AgreeBut, i
<1> DEFINE r == Map!Prepended(b, e)
<1> HIDE DEF r
<1>12. r = WithChain(b, i, d)
  BY <1>5 DEF r
<1>13. Tables(r, g) /\ Len(r) = n
  BY <1>3, <1>6, <1>9, <1>10, <1>11, <1>12, ChainReplaced DEF n
<1> QED BY <1>13 DEF r, g, n, k, v

(* The mapping of nothing.                                                 *)
NoKeys == [k \in {} |-> k]

(* Empty buckets hold nothing.                                             *)
LEMMA EmptyTables ==
  ASSUME NEW n \in Nat
  PROVE  /\ Tables(Map!EmptyMap(n).buckets, NoKeys) /\ Len(Map!EmptyMap(n).buckets) = n
         /\ Map!EmptyMap(n).numElements = 0 /\ DOMAIN NoKeys = {}
         /\ Map!EmptyMap(n) \in [buckets : Seq(Seq(MapEntry)), numElements : Nat]
<1> DEFINE b == [i \in 1 .. n |-> <<>>]
<1>1. Map!EmptyMap(n) = [buckets |-> b, numElements |-> 0]
  BY DEF Map!EmptyMap
<1>2. b \in Seq(Seq(MapEntry)) /\ Len(b) = n /\ \A i \in 1 .. n : b[i] = <<>>
  <2> DEFINE S == Seq(MapEntry)
  <2>1. <<>> \in S
    OBVIOUS
  <2> HIDE DEF S
  <2>2. b \in Seq(S) /\ Len(b) = n /\ \A i \in 1 .. n : b[i] = <<>>
    BY <2>1
  <2> QED BY <2>2 DEF S
<1> HIDE DEF b
<1>3. DOMAIN NoKeys = {} /\ NoKeys = [k \in DOMAIN NoKeys |-> NoKeys[k]]
  BY DEF NoKeys
<1>4. IsMapping(NoKeys)
  BY <1>3 DEF IsMapping
<1>5. <<>> \in Seq(MapEntry) /\ Len(<<>>) = 0
  OBVIOUS
<1>6. \A i \in 1 .. n : IsPartOf(b[i], i, n, NoKeys)
  BY <1>2, <1>5 DEF IsPartOf
<1>7. Tables(b, NoKeys)
  BY <1>2, <1>3, <1>4, <1>6 DEF Tables
<1> QED BY <1>1, <1>2, <1>3, <1>7

-----------------------------------------------------------------------------
(* Rehashing.                                                              *)

(* s holds the entries of f, each once.                                    *)
IsListing(s, f) ==
  /\ s \in Seq(MapEntry)
  /\ IsMapping(f)
  /\ \A p \in 1 .. Len(s) : s[p].key \in DOMAIN f /\ s[p].value = f[s[p].key]
  /\ \A p, q \in 1 .. Len(s) : s[p].key = s[q].key => p = q
  /\ \A k \in DOMAIN f : HasEntry(s, k)

(* The entries of a table are those of its function, each once.            *)
LEMMA EntriesAreListed ==
  ASSUME NEW m, NEW f, Tables(m.buckets, f)
  PROVE  IsListing(Map!Entries(m), f)
<1> DEFINE n == Len(m.buckets)
           s == Map!Entries(m)
<1>1. ListsUpTo(s, n, n, f)
  BY EntriesListAll
<1>2. IsMapping(f) /\ n \in Nat /\ \A k \in DOMAIN f : Map!BucketIndex(k, n) \in 1 .. n
  BY BucketIndexType DEF Tables, IsMapping
<1> HIDE DEF n, s
<1>3. \A k \in DOMAIN f : HasEntry(s, k)
  BY <1>1, <1>2 DEF ListsUpTo
<1>4. IsListing(s, f)
  BY <1>1, <1>2, <1>3 DEF ListsUpTo, IsListing
<1> QED BY <1>4 DEF s

(* What f maps, of the keys of the first i entries of s.                   *)
Upto(f, s, i) == [k \in {s[j].key : j \in 1 .. i} |-> f[k]]

(* Each entry adds its pair to those before.                               *)
LEMMA UptoGrows ==
  ASSUME NEW f, NEW s, IsListing(s, f)
  PROVE  /\ Len(s) \in Nat
         /\ Upto(f, s, 0) = NoKeys
         /\ Upto(f, s, Len(s)) = f
         /\ \A i \in 1 .. Len(s) :
              /\ s[i] \in MapEntry
              /\ s[i].key \notin DOMAIN Upto(f, s, i - 1)
              /\ Upto(f, s, i) = With(Upto(f, s, i - 1), s[i].key, s[i].value)
<1>1. s \in Seq(MapEntry) /\ Len(s) \in Nat
  BY DEF IsListing
<1>2. Upto(f, s, 0) = NoKeys
  <2>1. {s[j].key : j \in 1 .. 0} = {}
    OBVIOUS
  <2>2. Upto(f, s, 0) = [k \in {} |-> f[k]]
    BY <2>1, Zenon DEF Upto
  <2> QED BY <2>2 DEF NoKeys
<1>3. Upto(f, s, Len(s)) = f
  <2>1. {s[j].key : j \in 1 .. Len(s)} = DOMAIN f
    <3>1. \A j \in 1 .. Len(s) : s[j].key \in DOMAIN f
      BY DEF IsListing
    <3>2. \A k \in DOMAIN f : \E j \in 1 .. Len(s) : s[j].key = k
      BY DEF IsListing, HasEntry
    <3> QED BY <3>1, <3>2, Zenon
  <2>2. f = [k \in DOMAIN f |-> f[k]]
    BY DEF IsListing, IsMapping
  <2> QED BY <2>1, <2>2, Zenon DEF Upto
<1>4. ASSUME NEW i \in 1 .. Len(s)
      PROVE  /\ s[i] \in MapEntry
             /\ s[i].key \notin DOMAIN Upto(f, s, i - 1)
             /\ Upto(f, s, i) = With(Upto(f, s, i - 1), s[i].key, s[i].value)
  <2> DEFINE before == {s[j].key : j \in 1 .. i - 1}
             after == {s[j].key : j \in 1 .. i}
             k == s[i].key
  <2>1. s[i] \in MapEntry
    BY <1>1
  <2>2. k \notin before
    <3> SUFFICES ASSUME NEW j \in 1 .. i - 1, s[j].key = k PROVE FALSE
      OBVIOUS
    <3>1. j \in 1 .. Len(s) /\ j # i
      BY <1>1
    <3> QED BY <3>1 DEF IsListing
  <2>3. after = before \cup {k}
    <3>1. \A j : j \in 1 .. i <=> j \in 1 .. i - 1 \/ j = i
      BY <1>1
    <3> QED BY <3>1
  <2>4. s[i].value = f[k]
    BY DEF IsListing
  <2>5. DOMAIN Upto(f, s, i - 1) = before
    BY DEF Upto
  <2>6. \A j \in before : Upto(f, s, i - 1)[j] = f[j]
    BY DEF Upto
  <2>7. Upto(f, s, i) = [j \in after |-> f[j]]
    BY DEF Upto
  <2> HIDE DEF before, after, k
  <2>8. With(Upto(f, s, i - 1), k, s[i].value) =
          [j \in before \cup {k} |-> IF j = k THEN s[i].value ELSE Upto(f, s, i - 1)[j]]
    BY <2>5 DEF With
  <2>9. Upto(f, s, i) = With(Upto(f, s, i - 1), k, s[i].value)
    BY <2>3, <2>4, <2>6, <2>7, <2>8
  <2> QED BY <2>1, <2>2, <2>5, <2>9 DEF k
<1> QED BY <1>1, <1>2, <1>3, <1>4

(* f tells the moving of the first k entries of s to empty buckets.        *)
IsMoved(f, k, capacity, s) ==
  f = [i \in 0 .. k |-> IF i = 0 THEN Map!EmptyMap(capacity).buckets ELSE Map!Prepended(f[i - 1], s[i])]

(* The function that tells the steps of a rehash exists.                   *)
LEMMA MovedExists ==
  ASSUME NEW capacity, NEW s, NEW n \in Nat
  PROVE  \E f : IsMoved(f, n, capacity, s)
<1> DEFINE P == {k \in Nat : \E f : IsMoved(f, k, capacity, s)}
<1>1. 0 \in P
  <2> DEFINE f == [i \in 0 .. 0 |-> Map!EmptyMap(capacity).buckets]
  <2>1. IsMoved(f, 0, capacity, s)
    BY DEF IsMoved
  <2> QED BY <2>1
<1>2. ASSUME NEW k \in Nat, k \in P PROVE k + 1 \in P
  <2>1. PICK g : IsMoved(g, k, capacity, s)
    BY <1>2
  <2> DEFINE Start == Map!EmptyMap(capacity).buckets
             Then(x, i) == Map!Prepended(x, s[i])
             f == [i \in 0 .. k + 1 |-> IF i = k + 1 THEN Then(g[k], k + 1) ELSE g[i]]
  <2>2. \A i \in 0 .. k : g[i] = IF i = 0 THEN Start ELSE Then(g[i - 1], i)
    BY <2>1 DEF IsMoved
  <2>3. f = [i \in 0 .. k + 1 |-> IF i = k + 1 THEN Then(g[k], k + 1) ELSE g[i]]
    OBVIOUS
  <2> HIDE DEF Start, Then, f
  <2>4. \A i \in 0 .. k + 1 : f[i] = IF i = 0 THEN Start ELSE Then(f[i - 1], i)
    <3> TAKE i \in 0 .. k + 1
    <3>1. CASE i = k + 1
      <4>1. f[i] = Then(g[k], k + 1) /\ f[i - 1] = g[k] /\ i # 0 /\ i - 1 = k
        BY <2>3, <3>1
      <4> QED BY <3>1, <4>1
    <3>2. CASE i \in 1 .. k
      <4>1. f[i] = g[i] /\ f[i - 1] = g[i - 1] /\ i # 0 /\ i \in 0 .. k
        BY <2>3, <3>2
      <4> QED BY <2>2, <4>1
    <3>3. CASE i = 0
      <4>1. f[i] = g[i] /\ i \in 0 .. k
        BY <2>3, <3>3
      <4> QED BY <2>2, <3>3, <4>1
    <3> QED BY <3>1, <3>2, <3>3
  <2>5. f = [i \in 0 .. k + 1 |-> IF i = 0 THEN Start ELSE Then(f[i - 1], i)]
    <3>1. f = [i \in 0 .. k + 1 |-> f[i]]
      BY <2>3
    <3> QED BY <2>4, <3>1
  <2>6. IsMoved(f, k + 1, capacity, s)
    BY <2>5, Zenon DEF IsMoved, Start, Then
  <2> QED BY <2>6
<1> HIDE DEF P
<1>3. n \in P
  BY <1>1, <1>2, NatInductionOnSet
<1> QED BY <1>3 DEF P


(* Rehashing is moving the entries one by one.                             *)
LEMMA RehashSteps ==
  ASSUME NEW m, NEW capacity, Len(Map!Entries(m)) \in Nat
  PROVE  \E moved :
           /\ Map!Rehash(m, capacity) = [m EXCEPT !.buckets = moved[Len(Map!Entries(m))]]
           /\ moved[0] = Map!EmptyMap(capacity).buckets
           /\ \A i \in 1 .. Len(Map!Entries(m)) : moved[i] = Map!Prepended(moved[i - 1], Map!Entries(m)[i])
<1> DEFINE s == Map!Entries(m)
           n == Len(s)
           moved == CHOOSE f : IsMoved(f, n, capacity, s)
           Start == Map!EmptyMap(capacity).buckets
           Then(x, i) == Map!Prepended(x, s[i])
<1>1. IsMoved(moved, n, capacity, s)
  BY MovedExists
<1>2. Map!Rehash(m, capacity) = [m EXCEPT !.buckets = moved[n]]
  BY Zenon DEF Map!Rehash, IsMoved
<1> HIDE DEF moved, n
<1>3. moved = [i \in 0 .. n |-> IF i = 0 THEN Start ELSE Then(moved[i - 1], i)]
  BY <1>1, Zenon DEF IsMoved
<1> HIDE DEF Start, Then
<1>4. n \in Nat
  BY DEF n
<1>5. moved[0] = Start /\ \A i \in 1 .. n : moved[i] = Then(moved[i - 1], i)
  <2>1. \A i \in 0 .. n : moved[i] = IF i = 0 THEN Start ELSE Then(moved[i - 1], i)
    <3> DEFINE g == [i \in 0 .. n |-> IF i = 0 THEN Start ELSE Then(moved[i - 1], i)]
    <3>1. moved = g /\ \A i \in 0 .. n : g[i] = IF i = 0 THEN Start ELSE Then(moved[i - 1], i)
      BY <1>3
    <3> HIDE DEF g
    <3> QED BY <3>1
  <2> QED BY <1>4, <2>1
<1> QED BY <1>2, <1>5, Zenon DEF n, s, Start, Then

(* m, with the buckets b.                                                  *)
WithBuckets(m, b) == [m EXCEPT !.buckets = b]

(* HashMap::rehash keeps what the table holds.                             *)
LEMMA RehashKeeps ==
  ASSUME NEW m, NEW f, Tables(m.buckets, f), NEW capacity \in Nat, capacity > 0
  PROVE  \E b : /\ Map!Rehash(m, capacity) = WithBuckets(m, b)
                /\ Tables(b, f) /\ Len(b) = capacity
<1> DEFINE s == Map!Entries(m)
           n == Len(s)
           F(i) == Upto(f, s, i)
<1>1. IsListing(s, f)
  BY EntriesAreListed
<1>2. /\ n \in Nat /\ F(0) = NoKeys /\ F(n) = f
      /\ \A i \in 1 .. n : /\ s[i] \in MapEntry
                           /\ s[i].key \notin DOMAIN F(i - 1)
                           /\ F(i) = With(F(i - 1), s[i].key, s[i].value)
  BY <1>1, UptoGrows
<1>3. PICK moved : /\ Map!Rehash(m, capacity) = [m EXCEPT !.buckets = moved[n]]
                   /\ moved[0] = Map!EmptyMap(capacity).buckets
                   /\ \A i \in 1 .. n : moved[i] = Map!Prepended(moved[i - 1], s[i])
  BY <1>2, RehashSteps
<1> DEFINE P == {i \in Nat : i <= n => Tables(moved[i], F(i)) /\ Len(moved[i]) = capacity}
<1> HIDE DEF s, n, F
<1>4. 0 \in P
  BY <1>2, <1>3, EmptyTables
<1>5. ASSUME NEW i \in Nat, i \in P PROVE i + 1 \in P
  <2> SUFFICES ASSUME i + 1 <= n PROVE Tables(moved[i + 1], F(i + 1)) /\ Len(moved[i + 1]) = capacity
    OBVIOUS
  <2>1. Tables(moved[i], F(i)) /\ Len(moved[i]) = capacity
    BY <1>2, <1>5
  <2> HIDE DEF P
  <2>2. i + 1 \in 1 .. n
    BY <1>2
  <2>3. ASSUME NEW j \in 1 .. n, j = i + 1 PROVE Tables(moved[j], F(j)) /\ Len(moved[j]) = capacity
    <3>1. j - 1 = i
      BY <2>3
    <3>2. s[j] \in MapEntry /\ s[j].key \notin DOMAIN F(i) /\ F(j) = With(F(i), s[j].key, s[j].value)
      BY <1>2, <3>1
    <3>3. moved[j] = Map!Prepended(moved[i], s[j])
      BY <1>3, <3>1
    <3>4. Tables(Map!Prepended(moved[i], s[j]), With(F(i), s[j].key, s[j].value))
          /\ Len(Map!Prepended(moved[i], s[j])) = capacity
      BY <2>1, <3>2, PrependedAdds
    <3> QED BY <3>2, <3>3, <3>4
  <2> QED BY <2>2, <2>3
<1> HIDE DEF P
<1>6. n \in P
  BY <1>2, <1>4, <1>5, NatInductionOnSet
<1>7. Tables(moved[n], f) /\ Len(moved[n]) = capacity
  BY <1>2, <1>6 DEF P
<1> QED BY <1>3, <1>7, Zenon DEF WithBuckets

-----------------------------------------------------------------------------
(* Maps, and put, operator[] and erase.                                    *)

(* The fields of a map.                                                    *)
MapShape == [buckets : Seq(Seq(MapEntry)), numElements : Nat]

(* The map m holds f and counts its keys.                                  *)
IsMap(m, f) == m \in MapShape /\ Tables(m.buckets, f) /\ m.numElements = Cardinality(DOMAIN f)

(* A map made of buckets and a count.                                      *)
LEMMA MapIs ==
  ASSUME NEW m, NEW b, NEW n, NEW f, m = [buckets |-> b, numElements |-> n],
         Tables(b, f), n = Cardinality(DOMAIN f)
  PROVE  IsMap(m, f)
<1>1. m.buckets = b /\ m.numElements = n
  OBVIOUS
<1>2. b \in Seq(Seq(MapEntry))
  BY DEF Tables
<1>3. n \in Nat
  BY <1>1, EntriesAreCounted
<1>4. m \in MapShape
  <2> DEFINE S == Seq(Seq(MapEntry))
  <2>1. b \in S
    BY <1>2
  <2> HIDE DEF S
  <2>2. m \in [buckets : S, numElements : Nat]
    BY <1>3, <2>1
  <2> QED BY <2>2 DEF S, MapShape
<1> QED BY <1>1, <1>4 DEF IsMap

(* Making room keeps what a map holds.                                     *)
LEMMA GrownKeeps ==
  ASSUME NEW m, NEW f, IsMap(m, f), Len(m.buckets) > 0
  PROVE  IsMap(Map!Grown(m), f) /\ Len(Map!Grown(m).buckets) > 0
<1> DEFINE n == Len(m.buckets)
           g == Map!Grown(m)
<1>1. m \in MapShape /\ Tables(m.buckets, f) /\ m.numElements = Cardinality(DOMAIN f)
  BY DEF IsMap
<1>2. n \in Nat
  BY <1>1 DEF Tables
<1>3. PICK b : Map!Rehash(m, 2 * n) = WithBuckets(m, b) /\ Tables(b, f) /\ Len(b) = 2 * n
  <2>1. 2 * n \in Nat /\ 2 * n > 0
    BY <1>2
  <2> DEFINE c == 2 * n
  <2> HIDE DEF c
  <2>2. c \in Nat /\ c > 0
    BY <2>1 DEF c
  <2>3. \E b : Map!Rehash(m, c) = WithBuckets(m, b) /\ Tables(b, f) /\ Len(b) = c
    BY <1>1, <2>2, RehashKeeps
  <2> QED BY <2>3, Zenon DEF c
<1>4. CASE g = m
  BY <1>4
<1>5. CASE g = Map!Rehash(m, 2 * n)
  <2>1. g = [buckets |-> b, numElements |-> m.numElements]
    <3> DEFINE S == Seq(Seq(MapEntry))
    <3>1. m \in [buckets : S, numElements : Nat]
      BY <1>1 DEF MapShape
    <3> HIDE DEF S, g
    <3> QED BY <1>3, <1>5, <3>1 DEF WithBuckets
  <2> HIDE DEF g, n
  <2>2. IsMap(g, f)
    BY <1>1, <1>3, <2>1, MapIs
  <2>3. Len(g.buckets) > 0
    BY <1>2, <1>3, <2>1 DEF n
  <2> QED BY <2>2, <2>3 DEF g
<1>6. g = m \/ g = Map!Rehash(m, 2 * n)
  BY Zenon DEF Map!Grown
<1> QED BY <1>4, <1>5, <1>6

(* Less gives a mapping again.                                             *)
LEMMA LessIs ==
  ASSUME NEW f, IsMapping(f), NEW k
  PROVE  /\ IsMapping(Less(f, k)) /\ DOMAIN Less(f, k) = DOMAIN f \ {k}
         /\ \A j \in DOMAIN f : j # k => Less(f, k)[j] = f[j]
<1> DEFINE g == Less(f, k)
<1>1. DOMAIN g = DOMAIN f \ {k} /\ g = [j \in DOMAIN g |-> g[j]] /\ \A j \in DOMAIN f : j # k => g[j] = f[j]
  BY DEF Less
<1>2. DOMAIN f \subseteq MapKeys /\ \A j \in DOMAIN f : f[j] \in Held
  BY DEF IsMapping
<1> HIDE DEF g
<1>3. IsMapping(g)
  BY <1>1, <1>2 DEF IsMapping
<1> QED BY <1>1, <1>3 DEF g

(* The chain c with element p replaced.                                    *)
Renewed(c, p, e) == [q \in 1 .. Len(c) |-> IF q = p THEN e ELSE c[q]]

(* The value of a key is replaced in its chain.                            *)
LEMMA EntryRenewed ==
  ASSUME NEW b, NEW f, Tables(b, f), Len(b) > 0, NEW k \in DOMAIN f, NEW v \in Held,
         NEW i, i = Map!BucketIndex(k, Len(b)), NEW c, c = b[i],
         NEW p \in 1 .. Len(c), c[p].key = k,
         NEW r, r = WithChain(b, i, Renewed(c, p, [key |-> k, value |-> v]))
  PROVE  Tables(r, With(f, k, v)) /\ Len(r) = Len(b)
<1> DEFINE n == Len(b)
           e == [key |-> k, value |-> v]
           d == Renewed(c, p, e)
           g == With(f, k, v)
<1>1. IsMapping(f) /\ k \in MapKeys /\ n \in Nat
  BY DEF Tables, IsMapping
<1>2. i \in 1 .. n
  BY <1>1, BucketIndexType
<1>3. IsPartOf(c, i, n, f)
  BY <1>2 DEF Tables
<1>4. e \in MapEntry /\ e.key = k /\ e.value = v
  BY <1>1 DEF MapEntry
<1>5. IsMapping(g)
  BY <1>1, WithIs
<1>6. DOMAIN g = DOMAIN f /\ g[k] = v /\ \A j \in DOMAIN f : j # k => g[j] = f[j]
  <2>1. DOMAIN g = DOMAIN f
    BY DEF With
  <2>2. g[k] = v /\ \A j \in DOMAIN f : j # k => g[j] = f[j]
    BY DEF With
  <2> QED BY <2>1, <2>2
<1> HIDE DEF e, g
<1>7. d \in Seq(MapEntry) /\ Len(d) = Len(c) /\ \A q \in 1 .. Len(c) : d[q] = IF q = p THEN e ELSE c[q]
  <2>1. c \in Seq(MapEntry)
    BY <1>3 DEF IsPartOf
  <2> QED BY <1>4, <2>1 DEF Renewed
<1> HIDE DEF d, n
<1>8. ASSUME NEW q \in 1 .. Len(c) PROVE d[q].key = c[q].key
  BY <1>4, <1>7
<1>9. ASSUME NEW q \in 1 .. Len(c)
      PROVE  /\ d[q].key \in DOMAIN g /\ d[q].value = g[d[q].key]
             /\ Map!BucketIndex(d[q].key, n) = i
  <2>1. /\ c[q].key \in DOMAIN f /\ c[q].value = f[c[q].key]
        /\ Map!BucketIndex(c[q].key, n) = i
    BY <1>3 DEF IsPartOf
  <2>2. CASE q = p
    BY <1>4, <1>6, <1>7, <1>8, <2>1, <2>2
  <2>3. CASE q # p
    <3>1. c[q].key # k
      BY <1>3, <2>3 DEF IsPartOf
    <3>2. d[q] = c[q]
      BY <1>7, <2>3
    <3> QED BY <1>6, <2>1, <3>1, <3>2
  <2> QED BY <2>2, <2>3
<1>10. \A q, s \in 1 .. Len(c) : d[q].key = d[s].key => q = s
  BY <1>3, <1>8 DEF IsPartOf
<1>11. IsPartOf(d, i, n, g)
  BY <1>7, <1>9, <1>10 DEF IsPartOf
<1>12. ASSUME NEW j \in DOMAIN g, Map!BucketIndex(j, n) = i PROVE HasEntry(d, j)
  <2>1. HasEntry(c, j)
    BY <1>6, <1>12 DEF Tables, n
  <2> QED BY <1>7, <1>8, <2>1 DEF HasEntry
<1>13. AgreeBut(f, g, i, n)
  BY <1>6 DEF AgreeBut, n
<1>14. r = WithChain(b, i, d)
  BY Zenon DEF d, e
<1>15. Tables(r, g) /\ Len(r) = Len(b)
  BY <1>2, <1>5, <1>11, <1>12, <1>13, <1>14, ChainReplaced DEF n
<1> QED BY <1>15 DEF g

(* An entry is taken out of its chain.                                     *)
LEMMA EntryDropped ==
  ASSUME NEW b, NEW f, Tables(b, f), Len(b) > 0, NEW k \in DOMAIN f,
         NEW i, i = Map!BucketIndex(k, Len(b)), NEW c, c = b[i],
         NEW p \in 1 .. Len(c), c[p].key = k,
         NEW r, r = WithChain(b, i, Dropped(c, Len(c), p))
  PROVE  Tables(r, Less(f, k)) /\ Len(r) = Len(b)
<1> DEFINE n == Len(b)
           d == Dropped(c, Len(c), p)
           g == Less(f, k)
<1>1. IsMapping(f) /\ k \in MapKeys /\ n \in Nat
  BY DEF Tables, IsMapping
<1>2. i \in 1 .. n
  BY <1>1, BucketIndexType
<1>3. IsPartOf(c, i, n, f)
  BY <1>2 DEF Tables
<1>4. IsMapping(g) /\ DOMAIN g = DOMAIN f \ {k}
  BY <1>1, LessIs
<1>5. \A j \in DOMAIN f : j # k => g[j] = f[j]
  BY <1>1, LessIs
<1> HIDE DEF g
<1>6. c \in Seq(MapEntry) /\ Len(c) \in Nat
  BY <1>3 DEF IsPartOf
<1>7. \A q \in 1 .. Len(c) - 1 : Skip(p, q) \in 1 .. Len(c) /\ Skip(p, q) # p
  BY <1>6 DEF Skip
<1>8. d \in Seq(MapEntry) /\ Len(d) = Len(c) - 1 /\ \A q \in 1 .. Len(c) - 1 : d[q] = c[Skip(p, q)]
  <2>1. d = [q \in 1 .. Len(c) - 1 |-> c[Skip(p, q)]]
    BY DEF Dropped
  <2>2. \A q \in 1 .. Len(c) - 1 : c[Skip(p, q)] \in MapEntry
    BY <1>6, <1>7
  <2>3. Len(c) - 1 \in Nat
    BY <1>6
  <2> QED BY <2>1, <2>2, <2>3
<1> HIDE DEF d, n
<1>9. ASSUME NEW q \in 1 .. Len(d)
      PROVE  /\ d[q].key \in DOMAIN g /\ d[q].value = g[d[q].key]
             /\ Map!BucketIndex(d[q].key, n) = i
  <2> DEFINE s == Skip(p, q)
  <2>1. s \in 1 .. Len(c) /\ s # p /\ d[q] = c[s]
    BY <1>7, <1>8
  <2> HIDE DEF s
  <2>2. /\ c[s].key \in DOMAIN f /\ c[s].value = f[c[s].key]
        /\ Map!BucketIndex(c[s].key, n) = i
    BY <1>3, <2>1 DEF IsPartOf
  <2>3. c[s].key # k
    BY <1>3, <2>1 DEF IsPartOf
  <2> QED BY <1>4, <1>5, <2>1, <2>2, <2>3
<1>10. ASSUME NEW q \in 1 .. Len(d), NEW s \in 1 .. Len(d), d[q].key = d[s].key PROVE q = s
  <2>1. d[q] = c[Skip(p, q)] /\ d[s] = c[Skip(p, s)] /\ Skip(p, q) \in 1 .. Len(c) /\ Skip(p, s) \in 1 .. Len(c)
    BY <1>7, <1>8
  <2>2. Skip(p, q) = Skip(p, s)
    BY <1>3, <1>10, <2>1 DEF IsPartOf
  <2> QED BY <1>6, <1>8, <2>2 DEF Skip
<1>11. IsPartOf(d, i, n, g)
  BY <1>8, <1>9, <1>10 DEF IsPartOf
<1>12. ASSUME NEW j \in DOMAIN g, Map!BucketIndex(j, n) = i PROVE HasEntry(d, j)
  <2>1. PICK s \in 1 .. Len(c) : c[s].key = j
    BY <1>4, <1>12 DEF Tables, n, HasEntry
  <2>2. s # p
    BY <1>4, <2>1
  <2>3. PICK q \in 1 .. Len(c) - 1 : Skip(p, q) = s
    <3>1. CASE s < p
      BY <1>6, <2>2, <3>1 DEF Skip
    <3>2. CASE ~ (s < p)
      <4>1. s - 1 \in 1 .. Len(c) - 1 /\ Skip(p, s - 1) = s
        BY <1>6, <2>2, <3>2 DEF Skip
      <4> QED BY <4>1
    <3> QED BY <3>1, <3>2
  <2>4. q \in 1 .. Len(d) /\ d[q].key = j
    BY <1>8, <2>1, <2>3
  <2> QED BY <2>4 DEF HasEntry
<1>13. AgreeBut(f, g, i, n)
  BY <1>4, <1>5 DEF AgreeBut, n
<1>14. r = WithChain(b, i, d)
  BY Zenon DEF d
<1>15. Tables(r, g) /\ Len(r) = Len(b)
  BY <1>2, <1>4, <1>11, <1>12, <1>13, <1>14, ChainReplaced DEF n
<1> QED BY <1>15 DEF g

(* HashMap's own instance of RemoveAt, told element by element.            *)
LEMMA MapRemoveAtIs ==
  ASSUME NEW S, NEW v \in Seq(S), NEW i \in 1 .. Len(v)
  PROVE  Map!RemoveAt(v, i) = Dropped(v, Len(v), i)
<1>1. Map!RemoveAt(v, i) = List!RemoveAt(v, i)
  BY Zenon DEF Map!RemoveAt, List!RemoveAt
<1> QED BY <1>1, RemoveAtIs

(* The least of one number.                                                *)
LEMMA MinOfOne ==
  ASSUME NEW p \in Int
  PROVE  Map!Min({p}) = p
BY DEF Map!Min

(* put leaves a map that holds the new pair besides the others.            *)
LEMMA PutIs ==
  ASSUME NEW m, NEW f, IsMap(m, f), Len(m.buckets) > 0, NEW k \in MapKeys, NEW v \in Held
  PROVE  IsMap(Map!Put(m, k, v), With(f, k, v)) /\ Len(Map!Put(m, k, v).buckets) > 0
<1> DEFINE g == Map!Grown(m)
           n == Len(g.buckets)
           i == Map!BucketIndex(k, n)
           c == g.buckets[i]
           e == [key |-> k, value |-> v]
           h == With(f, k, v)
           r == Map!Put(m, k, v)
<1>1. IsMap(g, f) /\ n > 0
  BY GrownKeeps
<1> HIDE DEF g
<1>2. g \in MapShape /\ Tables(g.buckets, f) /\ g.numElements = Cardinality(DOMAIN f) /\ IsMapping(f)
  BY <1>1 DEF IsMap, Tables
<1>3. /\ Map!HasKey(g, k) <=> k \in DOMAIN f
      /\ e \in MapEntry /\ e.key = k /\ e.value = v
  <2>1. Map!HasKey(g, k) <=> k \in DOMAIN f
    BY <1>1, <1>2, HasKeyIs
  <2> QED BY <2>1 DEF MapEntry
<1>4. IsFiniteSet(DOMAIN f) /\ Cardinality(DOMAIN f) \in Nat
  BY <1>2, EntriesAreCounted
<1>5. CASE k \notin DOMAIN f
  <2> DEFINE b == Map!Prepended(g.buckets, e)
  <2>1. r = [buckets |-> b, numElements |-> g.numElements + 1]
    <3>1. ~ Map!HasKey(g, k)
      BY <1>3, <1>5
    <3> QED BY <3>1, Zenon DEF Map!Put, g
  <2> HIDE DEF r, e
  <2>2. Tables(b, h) /\ Len(b) = n
    <3>1. Tables(Map!Prepended(g.buckets, e), With(f, e.key, e.value))
      BY <1>1, <1>2, <1>3, <1>5, PrependedAdds
    <3>2. Len(Map!Prepended(g.buckets, e)) = Len(g.buckets)
      BY <1>1, <1>2, <1>3, <1>5, PrependedAdds
    <3> QED BY <1>3, <3>1, <3>2
  <2>3. g.numElements + 1 = Cardinality(DOMAIN h)
    <3>1. Cardinality(DOMAIN f \cup {k}) = Cardinality(DOMAIN f) + 1
      BY <1>4, <1>5, FS_AddElement
    <3>2. DOMAIN h = DOMAIN f \cup {k}
      BY DEF With
    <3> QED BY <1>2, <3>1, <3>2
  <2> HIDE DEF b, h, n
  <2>4. IsMap(r, h)
    BY <2>1, <2>2, <2>3, MapIs
  <2>5. Len(r.buckets) > 0
    BY <1>1, <2>1, <2>2
  <2> QED BY <2>4, <2>5 DEF r, h
<1>6. CASE k \in DOMAIN f
  <2>1. PICK p \in 1 .. Len(c) : Map!Places(g, k) = {p} /\ c[p].key = k
    <3>1. c = g.buckets[Map!BucketIndex(k, Len(g.buckets))]
      OBVIOUS
    <3> HIDE DEF c
    <3>2. \E p : IsPlace(g, f, k, c, p)
      BY <1>1, <1>2, <1>6, <3>1, PlacesAre
    <3> QED BY <3>2 DEF IsPlace
  <2> DEFINE b == WithChain(g.buckets, i, Renewed(c, p, e))
  <2>2. r = [buckets |-> b, numElements |-> g.numElements]
    <3> DEFINE d == [q \in DOMAIN c |-> IF q \in Map!Places(g, k) THEN e ELSE c[q]]
    <3>1. r = [g EXCEPT !.buckets[i] = d]
      <4>1. Map!HasKey(g, k)
        BY <1>3, <1>6
      <4> QED BY <4>1 DEF Map!Put, g
    <3>2. d = Renewed(c, p, e)
      <4>1. DOMAIN c = 1 .. Len(c)
        <5>1. IsPartOf(c, i, n, f)
          BY <1>1, <1>2, PlacesAre
        <5> QED BY <5>1 DEF IsPartOf
      <4> QED BY <2>1, <4>1 DEF Renewed
    <3> HIDE DEF d
    <3>3. [g EXCEPT !.buckets[i] = d] = [buckets |-> [g.buckets EXCEPT ![i] = d], numElements |-> g.numElements]
      <4> DEFINE S == Seq(Seq(MapEntry))
      <4>1. g \in [buckets : S, numElements : Nat]
        BY <1>2 DEF MapShape
      <4> HIDE DEF S, i
      <4> QED BY <4>1
    <3> QED BY <3>1, <3>2, <3>3 DEF WithChain
  <2> HIDE DEF r, e
  <2>3. Tables(b, h) /\ Len(b) = n
    BY <1>1, <1>2, <1>6, <2>1, EntryRenewed DEF e
  <2>4. g.numElements = Cardinality(DOMAIN h)
    <3>1. DOMAIN h = DOMAIN f
      BY <1>6 DEF With
    <3> QED BY <1>2, <3>1
  <2> HIDE DEF b, h, n
  <2>5. IsMap(r, h)
    BY <2>2, <2>3, <2>4, MapIs
  <2>6. Len(r.buckets) > 0
    BY <1>1, <2>2, <2>3
  <2> QED BY <2>5, <2>6 DEF r, h
<1> QED BY <1>5, <1>6

(* operator[] adds a key that was not there, with the default value.       *)
LEMMA SubscriptIs ==
  ASSUME NEW m, NEW f, IsMap(m, f), Len(m.buckets) > 0, NEW k \in MapKeys
  PROVE  IsMap(Map!Subscript(m, k), IF k \in DOMAIN f THEN f ELSE With(f, k, DefaultValue))
<1>1. Map!HasKey(m, k) <=> k \in DOMAIN f
  BY HasKeyIs DEF IsMap
<1>2. IsMap(Map!Put(m, k, DefaultValue), With(f, k, DefaultValue))
  BY PutIs DEF Held
<1>3. CASE k \in DOMAIN f
  BY <1>1, <1>3 DEF Map!Subscript
<1>4. CASE k \notin DOMAIN f
  <2>1. Map!Subscript(m, k) = Map!Put(m, k, DefaultValue)
    BY <1>1, <1>4, Zenon DEF Map!Subscript
  <2> QED BY <1>2, <1>4, <2>1
<1> QED BY <1>3, <1>4

(* erase leaves a map without the key.                                     *)
LEMMA EraseIs ==
  ASSUME NEW m, NEW f, IsMap(m, f), Len(m.buckets) > 0, NEW k \in MapKeys
  PROVE  IsMap(Map!Erase(m, k), Less(f, k))
<1> DEFINE n == Len(m.buckets)
           i == Map!BucketIndex(k, n)
           c == m.buckets[i]
           h == Less(f, k)
           r == Map!Erase(m, k)
<1>1. m \in MapShape /\ Tables(m.buckets, f) /\ m.numElements = Cardinality(DOMAIN f) /\ IsMapping(f)
  BY DEF IsMap, Tables
<1>2. Map!HasKey(m, k) <=> k \in DOMAIN f
  BY <1>1, HasKeyIs
<1>3. IsFiniteSet(DOMAIN f) /\ Cardinality(DOMAIN f) \in Nat
  BY <1>1, EntriesAreCounted
<1>4. CASE k \notin DOMAIN f
  <2>1. r = m
    BY <1>2, <1>4, Zenon DEF Map!Erase
  <2>2. h = f
    <3>1. f = [j \in DOMAIN f |-> f[j]] /\ DOMAIN f \ {k} = DOMAIN f
      BY <1>1, <1>4 DEF IsMapping
    <3> QED BY <3>1, Zenon DEF Less
  <2> QED BY <2>1, <2>2
<1>5. CASE k \in DOMAIN f
  <2>1. PICK p \in 1 .. Len(c) : Map!Places(m, k) = {p} /\ c[p].key = k
    <3>1. c = m.buckets[Map!BucketIndex(k, Len(m.buckets))]
      OBVIOUS
    <3> HIDE DEF c
    <3>2. \E p : IsPlace(m, f, k, c, p)
      BY <1>1, <1>5, <3>1, PlacesAre
    <3> QED BY <3>2 DEF IsPlace
  <2>2. c \in Seq(MapEntry)
    <3>1. IsPartOf(c, i, n, f)
      BY <1>1, PlacesAre
    <3> QED BY <3>1 DEF IsPartOf
  <2> DEFINE d == Dropped(c, Len(c), p)
             b == WithChain(m.buckets, i, d)
  <2>3. r = [buckets |-> b, numElements |-> m.numElements - 1]
    <3>1. r = [m EXCEPT !.buckets[i] = Map!RemoveAt(c, Map!Min(Map!Places(m, k))), !.numElements = @ - 1]
      BY <1>2, <1>5 DEF Map!Erase
    <3>2. Map!Min(Map!Places(m, k)) = p
      BY <2>1, MinOfOne
    <3>3. Map!RemoveAt(c, p) = d
      BY <2>2, MapRemoveAtIs
    <3> HIDE DEF d, i, c, r
    <3>4. r = [m EXCEPT !.buckets[i] = d, !.numElements = @ - 1]
      BY <3>1, <3>2, <3>3
    <3> DEFINE S == Seq(Seq(MapEntry))
    <3>5. m \in [buckets : S, numElements : Nat]
      BY <1>1 DEF MapShape
    <3> HIDE DEF S
    <3>6. r = [buckets |-> [m.buckets EXCEPT ![i] = d], numElements |-> m.numElements - 1]
      BY <3>4, <3>5
    <3> QED BY <3>6 DEF WithChain
  <2> HIDE DEF r
  <2>4. Tables(b, h)
    BY <1>1, <1>5, <2>1, EntryDropped
  <2>5. m.numElements - 1 = Cardinality(DOMAIN h)
    <3>1. Cardinality(DOMAIN f \ {k}) = Cardinality(DOMAIN f) - 1
      BY <1>3, <1>5, FS_RemoveElement
    <3>2. DOMAIN h = DOMAIN f \ {k}
      BY <1>1, LessIs
    <3> QED BY <1>1, <3>1, <3>2
  <2> HIDE DEF b, h
  <2>6. IsMap(r, h)
    BY <2>3, <2>4, <2>5, MapIs
  <2> QED BY <2>6 DEF r, h
<1> QED BY <1>4, <1>5

-----------------------------------------------------------------------------
(* Copying a map.                                                          *)

(* f tells the putting of the first k entries of s into an empty map.      *)
IsMapCopied(f, k, capacity, s) ==
  f = [i \in 0 .. k |-> IF i = 0 THEN Map!EmptyMap(capacity) ELSE Map!Put(f[i - 1], s[i].key, s[i].value)]

(* The function that tells the steps of a copy exists.                     *)
LEMMA MapCopiedExists ==
  ASSUME NEW capacity, NEW s, NEW n \in Nat
  PROVE  \E f : IsMapCopied(f, n, capacity, s)
<1> DEFINE P == {k \in Nat : \E f : IsMapCopied(f, k, capacity, s)}
<1>1. 0 \in P
  <2> DEFINE f == [i \in 0 .. 0 |-> Map!EmptyMap(capacity)]
  <2>1. IsMapCopied(f, 0, capacity, s)
    BY DEF IsMapCopied
  <2> QED BY <2>1
<1>2. ASSUME NEW k \in Nat, k \in P PROVE k + 1 \in P
  <2>1. PICK g : IsMapCopied(g, k, capacity, s)
    BY <1>2
  <2> DEFINE Start == Map!EmptyMap(capacity)
             Then(x, i) == Map!Put(x, s[i].key, s[i].value)
             f == [i \in 0 .. k + 1 |-> IF i = k + 1 THEN Then(g[k], k + 1) ELSE g[i]]
  <2>2. \A i \in 0 .. k : g[i] = IF i = 0 THEN Start ELSE Then(g[i - 1], i)
    BY <2>1 DEF IsMapCopied
  <2>3. f = [i \in 0 .. k + 1 |-> IF i = k + 1 THEN Then(g[k], k + 1) ELSE g[i]]
    OBVIOUS
  <2> HIDE DEF Start, Then, f
  <2>4. \A i \in 0 .. k + 1 : f[i] = IF i = 0 THEN Start ELSE Then(f[i - 1], i)
    <3> TAKE i \in 0 .. k + 1
    <3>1. CASE i = k + 1
      <4>1. f[i] = Then(g[k], k + 1) /\ f[i - 1] = g[k] /\ i # 0 /\ i - 1 = k
        BY <2>3, <3>1
      <4> QED BY <3>1, <4>1
    <3>2. CASE i \in 1 .. k
      <4>1. f[i] = g[i] /\ f[i - 1] = g[i - 1] /\ i # 0 /\ i \in 0 .. k
        BY <2>3, <3>2
      <4> QED BY <2>2, <4>1
    <3>3. CASE i = 0
      <4>1. f[i] = g[i] /\ i \in 0 .. k
        BY <2>3, <3>3
      <4> QED BY <2>2, <3>3, <4>1
    <3> QED BY <3>1, <3>2, <3>3
  <2>5. f = [i \in 0 .. k + 1 |-> IF i = 0 THEN Start ELSE Then(f[i - 1], i)]
    <3>1. f = [i \in 0 .. k + 1 |-> f[i]]
      BY <2>3
    <3> QED BY <2>4, <3>1
  <2>6. IsMapCopied(f, k + 1, capacity, s)
    BY <2>5, Zenon DEF IsMapCopied, Start, Then
  <2> QED BY <2>6
<1> HIDE DEF P
<1>3. n \in P
  BY <1>1, <1>2, NatInductionOnSet
<1> QED BY <1>3 DEF P


(* Copying is putting the entries one by one.                              *)
LEMMA CopySteps ==
  ASSUME NEW m, Len(Map!Entries(m)) \in Nat
  PROVE  \E copied :
           /\ Map!CopyOf(m) = copied[Len(Map!Entries(m))]
           /\ copied[0] = Map!EmptyMap(Len(m.buckets))
           /\ \A i \in 1 .. Len(Map!Entries(m)) :
                copied[i] = Map!Put(copied[i - 1], Map!Entries(m)[i].key, Map!Entries(m)[i].value)
<1> DEFINE s == Map!Entries(m)
           n == Len(s)
           capacity == Len(m.buckets)
           copied == CHOOSE f : IsMapCopied(f, n, capacity, s)
           Start == Map!EmptyMap(capacity)
           Then(x, i) == Map!Put(x, s[i].key, s[i].value)
<1>1. IsMapCopied(copied, n, capacity, s)
  BY MapCopiedExists
<1>2. Map!CopyOf(m) = copied[n]
  BY Zenon DEF Map!CopyOf, IsMapCopied
<1> HIDE DEF copied, n
<1>3. copied = [i \in 0 .. n |-> IF i = 0 THEN Start ELSE Then(copied[i - 1], i)]
  BY <1>1, Zenon DEF IsMapCopied
<1> HIDE DEF Start, Then
<1>4. n \in Nat
  BY DEF n
<1>5. copied[0] = Start /\ \A i \in 1 .. n : copied[i] = Then(copied[i - 1], i)
  <2>1. \A i \in 0 .. n : copied[i] = IF i = 0 THEN Start ELSE Then(copied[i - 1], i)
    <3> DEFINE g == [i \in 0 .. n |-> IF i = 0 THEN Start ELSE Then(copied[i - 1], i)]
    <3>1. copied = g /\ \A i \in 0 .. n : g[i] = IF i = 0 THEN Start ELSE Then(copied[i - 1], i)
      BY <1>3
    <3> HIDE DEF g
    <3> QED BY <3>1
  <2> QED BY <1>4, <2>1
<1> QED BY <1>2, <1>5, Zenon DEF n, s, capacity, Start, Then

(* A copy of a map with buckets holds what the map does.                   *)
LEMMA CopyIs ==
  ASSUME NEW m, NEW f, IsMap(m, f), Len(m.buckets) > 0
  PROVE  IsMap(Map!CopyOf(m), f)
<1> DEFINE s == Map!Entries(m)
           n == Len(s)
           F(i) == Upto(f, s, i)
<1>1. Tables(m.buckets, f) /\ Len(m.buckets) \in Nat
  <2>1. Tables(m.buckets, f)
    BY DEF IsMap
  <2>2. m.buckets \in Seq(Seq(MapEntry))
    BY <2>1 DEF Tables
  <2> QED BY <2>1, <2>2
<1>2. IsListing(s, f)
  BY <1>1, EntriesAreListed
<1>3. /\ n \in Nat /\ F(0) = NoKeys /\ F(n) = f
      /\ \A i \in 1 .. n : s[i] \in MapEntry /\ F(i) = With(F(i - 1), s[i].key, s[i].value)
  BY <1>2, UptoGrows
<1>4. PICK copied : /\ Map!CopyOf(m) = copied[n]
                    /\ copied[0] = Map!EmptyMap(Len(m.buckets))
                    /\ \A i \in 1 .. n : copied[i] = Map!Put(copied[i - 1], s[i].key, s[i].value)
  BY <1>3, CopySteps
<1> DEFINE P == {i \in Nat : i <= n => IsMap(copied[i], F(i)) /\ Len(copied[i].buckets) > 0}
<1> HIDE DEF s, n, F
<1>5. 0 \in P
  <2> DEFINE e == Map!EmptyMap(Len(m.buckets))
  <2>1. /\ Tables(e.buckets, NoKeys) /\ Len(e.buckets) = Len(m.buckets)
        /\ e.numElements = 0 /\ DOMAIN NoKeys = {} /\ e \in MapShape
    BY <1>1, EmptyTables DEF MapShape
  <2> HIDE DEF e
  <2>2. IsMap(e, NoKeys)
    BY <2>1, FS_EmptySet DEF IsMap
  <2> QED BY <1>3, <1>4, <2>1, <2>2 DEF e
<1>6. ASSUME NEW i \in Nat, i \in P PROVE i + 1 \in P
  <2> SUFFICES ASSUME i + 1 <= n PROVE IsMap(copied[i + 1], F(i + 1)) /\ Len(copied[i + 1].buckets) > 0
    OBVIOUS
  <2>1. IsMap(copied[i], F(i)) /\ Len(copied[i].buckets) > 0
    BY <1>3, <1>6
  <2> HIDE DEF P
  <2>2. i + 1 \in 1 .. n
    BY <1>3
  <2>3. ASSUME NEW j \in 1 .. n, j = i + 1 PROVE IsMap(copied[j], F(j)) /\ Len(copied[j].buckets) > 0
    <3>1. j - 1 = i
      BY <2>3
    <3>2. s[j] \in MapEntry /\ F(j) = With(F(i), s[j].key, s[j].value)
      BY <1>3, <3>1
    <3>3. copied[j] = Map!Put(copied[i], s[j].key, s[j].value)
      BY <1>4, <3>1
    <3>4. s[j].key \in MapKeys /\ s[j].value \in Held
      BY <3>2 DEF MapEntry
    <3>5. IsMap(Map!Put(copied[i], s[j].key, s[j].value), With(F(i), s[j].key, s[j].value))
      BY <2>1, <3>4, PutIs
    <3>6. Len(Map!Put(copied[i], s[j].key, s[j].value).buckets) > 0
      BY <2>1, <3>4, PutIs
    <3> QED BY <3>2, <3>3, <3>5, <3>6
  <2> QED BY <2>2, <2>3
<1> HIDE DEF P
<1>7. n \in P
  BY <1>3, <1>5, <1>6, NatInductionOnSet
<1>8. IsMap(copied[n], f)
  BY <1>3, <1>7 DEF P
<1> QED BY <1>4, <1>8

-----------------------------------------------------------------------------
(* The maps, together.                                                     *)

(* Every object holds some function of keys.                               *)
MapInv ==
  /\ maps = [x \in Objects |-> maps[x]]
  /\ \A x \in Objects : \E f : IsMap(maps[x], f)

(* An empty map holds nothing.                                             *)
LEMMA EmptyMapIs ==
  ASSUME NEW n \in Nat
  PROVE  IsMap(Map!EmptyMap(n), NoKeys)
<1> DEFINE e == Map!EmptyMap(n)
<1>1. Tables(e.buckets, NoKeys) /\ e.numElements = 0 /\ DOMAIN NoKeys = {} /\ e \in MapShape
  BY EmptyTables DEF MapShape
<1> HIDE DEF e
<1>2. IsMap(e, NoKeys)
  BY <1>1, FS_EmptySet DEF IsMap
<1> QED BY <1>2 DEF e

(* The buckets of a map are a sequence of chains.                          *)
LEMMA BucketsAre ==
  ASSUME NEW m, NEW f, IsMap(m, f)
  PROVE  m.buckets \in Seq(Seq(MapEntry)) /\ Len(m.buckets) \in Nat
<1>1. Tables(m.buckets, f)
  BY DEF IsMap
<1>2. m.buckets \in Seq(Seq(MapEntry))
  BY <1>1 DEF Tables
<1> QED BY <1>2

(* A map is usable when it has a bucket.                                   *)
LEMMA UsableHasBuckets ==
  ASSUME NEW m, NEW f, IsMap(m, f), Map!Usable(m)
  PROVE  Len(m.buckets) > 0
<1> DEFINE b == m.buckets
           S == Seq(MapEntry)
<1>1. b \in Seq(S) /\ b # <<>>
  BY BucketsAre DEF Map!Usable
<1> HIDE DEF b, S
<1>2. Len(b) > 0
  BY <1>1
<1> QED BY <1>2 DEF b

(* Any map can be copied, one without buckets too.                         *)
LEMMA CopyHolds ==
  ASSUME NEW m, NEW f, IsMap(m, f)
  PROVE  \E g : IsMap(Map!CopyOf(m), g)
<1>1. m.buckets \in Seq(Seq(MapEntry)) /\ Len(m.buckets) \in Nat
  BY BucketsAre
<1>2. CASE Len(m.buckets) > 0
  BY <1>2, CopyIs
<1>3. CASE ~ (Len(m.buckets) > 0)
  <2> DEFINE s == Map!Entries(m)
  <2>1. Tables(m.buckets, f)
    BY DEF IsMap
  <2>2. DOMAIN f = {}
    BY <1>3, <2>1 DEF Tables
  <2>3. Len(s) = 0
    BY <2>1, <2>2, EntriesAreCounted, FS_EmptySet
  <2>4. PICK copied : Map!CopyOf(m) = copied[Len(s)] /\ copied[0] = Map!EmptyMap(Len(m.buckets))
    <3>1. Len(s) \in Nat
      BY <2>3
    <3> QED BY <3>1, CopySteps
  <2> HIDE DEF s
  <2>5. Map!CopyOf(m) = Map!EmptyMap(Len(m.buckets))
    BY <2>3, <2>4
  <2>6. IsMap(Map!EmptyMap(Len(m.buckets)), NoKeys)
    BY <1>1, EmptyMapIs
  <2> QED BY <2>5, <2>6
<1> QED BY <1>2, <1>3

(* The properties of maps.                                                 *)

(* The map n holds g, and its size is the number of keys.                  *)
SizedAs(n, g) ==
  Map!Contents(n) = g /\ n.numElements = Len(Map!Entries(n)) /\ n.numElements = Map!Cardinality(DOMAIN g)

(* A map is sized as its function.                                         *)
LEMMA SizedIs ==
  ASSUME NEW n, NEW g, IsMap(n, g)
  PROVE  SizedAs(n, g)
<1>1. Tables(n.buckets, g) /\ n.numElements = Cardinality(DOMAIN g)
  BY DEF IsMap
<1>2. Map!Contents(n) = g
  BY <1>1, ContentsAre
<1>3. Len(Map!Entries(n)) = Cardinality(DOMAIN g)
  BY <1>1, EntriesAreCounted
<1>4. Map!Cardinality(DOMAIN g) = Cardinality(DOMAIN g)
  BY Zenon DEF Map!Cardinality, Cardinality
<1> QED BY <1>1, <1>2, <1>3, <1>4 DEF SizedAs

(* What CallsActOnFunctions says of the map m.                             *)
ActsOnFunctions(m, f) ==
  /\ SizedAs(m, f)
  /\ NoValue \notin {f[k] : k \in DOMAIN f}
  /\ Map!Usable(m) =>
       /\ SizedAs(Map!CopyOf(m), f)
       /\ \A k \in MapKeys :
            /\ \A v \in MapValues : SizedAs(Map!Put(m, k, v), With(f, k, v))
            /\ SizedAs(Map!Erase(m, k), Less(f, k))
            /\ SizedAs(Map!Subscript(m, k), IF k \in DOMAIN f THEN f ELSE With(f, k, DefaultValue))

(* Every call does to a map what it does to its function.                  *)
LEMMA MapActs ==
  ASSUME NEW m, NEW f, IsMap(m, f)
  PROVE  ActsOnFunctions(m, f)
<1>1. SizedAs(m, f)
  BY SizedIs
<1>2. NoValue \notin {f[k] : k \in DOMAIN f}
  <2>1. IsMapping(f)
    BY DEF IsMap, Tables
  <2>2. \A k \in DOMAIN f : f[k] \in Held
    BY <2>1 DEF IsMapping
  <2> QED BY <2>2, ContainersAssumption DEF Held
<1>3. ASSUME Map!Usable(m) PROVE SizedAs(Map!CopyOf(m), f)
  <2>1. IsMap(Map!CopyOf(m), f)
    BY <1>3, UsableHasBuckets, CopyIs
  <2> QED BY <2>1, SizedIs
<1>4. ASSUME Map!Usable(m), NEW k \in MapKeys, NEW v \in MapValues
      PROVE  SizedAs(Map!Put(m, k, v), With(f, k, v))
  <2>1. v \in Held
    BY DEF Held
  <2>2. IsMap(Map!Put(m, k, v), With(f, k, v))
    BY <1>4, <2>1, UsableHasBuckets, PutIs
  <2> QED BY <2>2, SizedIs
<1>5. ASSUME Map!Usable(m), NEW k \in MapKeys
      PROVE  SizedAs(Map!Erase(m, k), Less(f, k))
  <2>1. IsMap(Map!Erase(m, k), Less(f, k))
    BY <1>5, UsableHasBuckets, EraseIs
  <2> QED BY <2>1, SizedIs
<1>6. ASSUME Map!Usable(m), NEW k \in MapKeys
      PROVE  SizedAs(Map!Subscript(m, k), IF k \in DOMAIN f THEN f ELSE With(f, k, DefaultValue))
  <2> DEFINE g == IF k \in DOMAIN f THEN f ELSE With(f, k, DefaultValue)
  <2>1. Len(m.buckets) > 0
    BY <1>6, UsableHasBuckets
  <2>2. IsMap(Map!Subscript(m, k), g)
    BY <2>1, SubscriptIs
  <2> HIDE DEF g
  <2>3. SizedAs(Map!Subscript(m, k), g)
    BY <2>2, SizedIs
  <2> QED BY <2>3 DEF g
<1> QED BY <1>1, <1>2, <1>3, <1>4, <1>5, <1>6 DEF ActsOnFunctions

(* The invariant gives the property.                                       *)
LEMMA MapsActOnFunctions ==
  ASSUME MapInv
  PROVE  MapsAreFunctions
<1>1. ASSUME NEW x \in Objects PROVE ActsOnFunctions(maps[x], Map!Contents(maps[x]))
  <2>1. PICK f : IsMap(maps[x], f)
    BY DEF MapInv
  <2>2. Map!Contents(maps[x]) = f
    BY <2>1, ContentsAre DEF IsMap
  <2> QED BY <2>1, <2>2, MapActs
<1>2. Map!CallsActOnFunctions
  BY <1>1, Zenon DEF Map!CallsActOnFunctions, ActsOnFunctions, SizedAs, With, Less
<1> QED BY <1>2 DEF MapsAreFunctions

(* Every step keeps the invariant.                                         *)

(* The maps start empty.                                                   *)
LEMMA MapInitInv ==
  ASSUME Map!HashMapInit
  PROVE  MapInv
<1>1. IsMap(Map!EmptyMap(InitialCapacity), NoKeys)
  BY ContainersAssumption, EmptyMapIs
<1>2. maps = [x \in Objects |-> Map!EmptyMap(InitialCapacity)]
  BY DEF Map!HashMapInit
<1> QED BY <1>1, <1>2 DEF MapInv

(* One object is assigned what holds a function.                           *)
LEMMA MapAssigned ==
  ASSUME MapInv, NEW x \in Objects, NEW m, Map!Assign(x, m), NEW g, IsMap(m, g)
  PROVE  MapInv'
<1>1. maps' = [maps EXCEPT ![x] = m]
  BY DEF Map!Assign
<1>2. maps'[x] = m /\ maps' = [y \in Objects |-> maps'[y]] /\ \A y \in Objects : y # x => maps'[y] = maps[y]
  BY <1>1 DEF MapInv
<1>3. \A y \in Objects : \E f : IsMap(maps'[y], f)
  BY <1>2 DEF MapInv
<1> QED BY <1>2, <1>3 DEF MapInv, IsMap, Tables, IsMapping, IsPartOf, HasEntry, MapShape, MapEntry, Held

(* Every step keeps a function in every map.                               *)
LEMMA MapStep ==
  ASSUME MapInv, Map!HashMapNext
  PROVE  MapInv'
<1>1. PICK x \in Objects :
        \/ /\ Map!Usable(maps[x])
           /\ \E key \in MapKeys :
                \/ \E value \in MapValues : Map!Assign(x, Map!Put(maps[x], key, value))
                \/ Map!Assign(x, Map!Subscript(maps[x], key))
                \/ Map!Assign(x, Map!Erase(maps[x], key))
        \/ Map!Assign(x, Map!Clear(maps[x]))
        \/ \E y \in Objects \ {x} :
             \/ Map!Assign(x, Map!CopyOf(maps[y]))
             \/ maps' = [maps EXCEPT ![x] = maps[y], ![y] = Map!MovedFrom]
  BY Zenon DEF Map!HashMapNext
<1>2. PICK f : IsMap(maps[x], f)
  BY DEF MapInv
<1>3. ASSUME Map!Usable(maps[x]), NEW key \in MapKeys, NEW value \in MapValues,
             Map!Assign(x, Map!Put(maps[x], key, value))
      PROVE  MapInv'
  <2>1. value \in Held
    BY DEF Held
  <2>2. IsMap(Map!Put(maps[x], key, value), With(f, key, value))
    BY <1>2, <1>3, <2>1, UsableHasBuckets, PutIs
  <2> QED BY <1>3, <2>2, MapAssigned
<1>4. ASSUME Map!Usable(maps[x]), NEW key \in MapKeys, Map!Assign(x, Map!Subscript(maps[x], key))
      PROVE  MapInv'
  <2> DEFINE g == IF key \in DOMAIN f THEN f ELSE With(f, key, DefaultValue)
  <2>1. Len(maps[x].buckets) > 0
    BY <1>2, <1>4, UsableHasBuckets
  <2>2. IsMap(Map!Subscript(maps[x], key), g)
    BY <1>2, <2>1, SubscriptIs
  <2> HIDE DEF g
  <2> QED BY <1>4, <2>2, MapAssigned
<1>5. ASSUME Map!Usable(maps[x]), NEW key \in MapKeys, Map!Assign(x, Map!Erase(maps[x], key))
      PROVE  MapInv'
  <2>1. IsMap(Map!Erase(maps[x], key), Less(f, key))
    BY <1>2, <1>5, UsableHasBuckets, EraseIs
  <2> QED BY <1>5, <2>1, MapAssigned
<1>6. ASSUME Map!Assign(x, Map!Clear(maps[x])) PROVE MapInv'
  <2>1. Len(maps[x].buckets) \in Nat
    BY <1>2, BucketsAre
  <2>2. IsMap(Map!Clear(maps[x]), NoKeys)
    BY <2>1, EmptyMapIs DEF Map!Clear
  <2> QED BY <1>6, <2>2, MapAssigned
<1>7. ASSUME NEW y \in Objects \ {x}, Map!Assign(x, Map!CopyOf(maps[y])) PROVE MapInv'
  <2>1. PICK g : IsMap(maps[y], g)
    BY DEF MapInv
  <2>2. PICK h : IsMap(Map!CopyOf(maps[y]), h)
    BY <2>1, CopyHolds
  <2> QED BY <1>7, <2>2, MapAssigned
<1>8. ASSUME NEW y \in Objects \ {x}, maps' = [maps EXCEPT ![x] = maps[y], ![y] = Map!MovedFrom]
      PROVE  MapInv'
  <2>1. IsMap(Map!MovedFrom, NoKeys)
    BY EmptyMapIs DEF Map!MovedFrom
  <2>2. /\ maps' = [z \in Objects |-> maps'[z]]
        /\ maps'[x] = maps[y] /\ maps'[y] = Map!MovedFrom
        /\ \A z \in Objects : z # x /\ z # y => maps'[z] = maps[z]
    BY <1>8 DEF MapInv
  <2>3. \A z \in Objects : \E g : IsMap(maps'[z], g)
    BY <2>1, <2>2 DEF MapInv
  <2> QED BY <2>2, <2>3 DEF MapInv, IsMap
<1> QED BY <1>1, <1>3, <1>4, <1>5, <1>6, <1>7, <1>8

(* HashMap: after any puts, erases, clears, copies and moves, and any      *)
(* number of rehashes, each call does to its map what it would do to a     *)
(* function of keys: a key is found where it hashes to, none has two       *)
(* entries, and size() counts them.                                        *)
THEOREM MapsAreSound == ContainersSpec => []MapsAreFunctions
<1>1. ContainersInit => MapInv
  BY MapInitInv DEF ContainersInit
<1>2. MapInv /\ [ContainersNext]_<<list, fifo, maps>> => MapInv'
  <2> SUFFICES ASSUME MapInv, [ContainersNext]_<<list, fifo, maps>> PROVE MapInv'
    OBVIOUS
  <2>1. CASE Map!HashMapNext
    BY <2>1, MapStep
  <2>2. CASE UNCHANGED maps
    BY <2>2 DEF MapInv
  <2> QED BY <2>1, <2>2 DEF ContainersNext
<1>3. MapInv => MapsAreFunctions
  BY MapsActOnFunctions
<1> QED BY <1>1, <1>2, <1>3, PTL DEF ContainersSpec

-----------------------------------------------------------------------------
(* Binary search.                                                          *)

(* What the entries of the log are.                                        *)
SearchEntry == [low : Int, mid : Int, high : Int, found : BOOLEAN]

(* How much is left to look at, at an entry.                               *)
LeftAt(entry) == entry.high - entry.low + 1

(* Each turn has halved what was left.                                     *)
Halves(logs) == \A n \in 1 .. Len(logs) - 1 : 2 * LeftAt(logs[n + 1]) <= LeftAt(logs[n])

(* What the last entry says when the search is over.                       *)
IsAnswer(mid, found) ==
  IF \E i \in DOMAIN arr : arr[i] = target
  THEN found /\ mid \in DOMAIN arr /\ arr[mid] = target
  ELSE ~found /\ mid = NotFound

(* The same of an entry.                                                   *)
Answer(entry) == IsAnswer(entry.mid, entry.found)

(* While the loop runs, the target is between low and high or nowhere.     *)
SearchGoesOn ==
  /\ arr \in Seq(Searchable) /\ IsSorted(arr) /\ target \in Searchable
  /\ low \in 1 .. Len(arr) + 1 /\ high \in 0 .. Len(arr) /\ low <= high + 1
  /\ \A i \in 1 .. Len(arr) : arr[i] = target => low <= i /\ i <= high
  /\ searchLogs # <<>> => 2 * (high - low + 1) <= LeftAt(searchLogs[Len(searchLogs)])

(* The inductive invariant of the search.                                  *)
SearchInv ==
  /\ searchLogs \in Seq(SearchEntry)
  /\ searching \in BOOLEAN
  /\ Halves(searchLogs)
  /\ searching => SearchGoesOn
  /\ ~searching /\ searchLogs # <<>> => Answer(searchLogs[Len(searchLogs)])

(* The invariant gives the property.                                       *)
LEMMA SearchInvFinds == SearchInv => SearchesFind
  BY DEF SearchInv, SearchesFind, Answer, IsAnswer, Halves, LeftAt

(* One more entry, that halves what the last one left.                     *)
LEMMA EntryLogged ==
  ASSUME NEW s \in Seq(SearchEntry), NEW e \in SearchEntry, Halves(s),
         s # <<>> => 2 * LeftAt(e) <= LeftAt(s[Len(s)]),
         NEW t, t = Append(s, e)
  PROVE  t \in Seq(SearchEntry) /\ Halves(t) /\ t # <<>> /\ t[Len(t)] = e
<1>1. t \in Seq(SearchEntry) /\ Len(t) = Len(s) + 1 /\ Len(s) \in Nat
  OBVIOUS
<1>2. t[Len(s) + 1] = e /\ \A i \in 1 .. Len(s) : t[i] = s[i]
  OBVIOUS
<1> HIDE DEF LeftAt
<1>3. ASSUME NEW n \in 1 .. Len(t) - 1 PROVE 2 * LeftAt(t[n + 1]) <= LeftAt(t[n])
  <2>1. n \in 1 .. Len(s) /\ t[n] = s[n]
    BY <1>1, <1>2
  <2>2. CASE n = Len(s)
    <3>1. s # <<>>
      BY <1>1, <2>1
    <3> QED BY <1>2, <2>1, <2>2, <3>1
  <2>3. CASE n # Len(s)
    <3>1. n \in 1 .. Len(s) - 1 /\ n + 1 \in 1 .. Len(s)
      BY <1>1, <2>1, <2>3
    <3>2. t[n + 1] = s[n + 1]
      BY <1>2, <3>1
    <3>3. 2 * LeftAt(s[n + 1]) <= LeftAt(s[n])
      BY <3>1 DEF Halves
    <3> QED BY <2>1, <3>2, <3>3
  <2> QED BY <2>2, <2>3
<1>4. t # <<>>
  BY <1>1
<1> QED BY <1>1, <1>2, <1>3, <1>4 DEF Halves

(* The middle, and how much is left on either side of it.                  *)
LEMMA MidIs ==
  ASSUME SearchGoesOn, low <= high
  PROVE  /\ Mid \in 1 .. Len(arr) /\ low <= Mid /\ Mid <= high
         /\ 2 * (high - (Mid + 1) + 1) <= high - low + 1
         /\ 2 * ((Mid - 1) - low + 1) <= high - low + 1
<1>1. Len(arr) \in Nat /\ low \in Int /\ high \in Int /\ 1 <= low /\ high <= Len(arr)
  BY DEF SearchGoesOn
<1>2. (high - low) \div 2 \in Int /\ 2 * ((high - low) \div 2) <= high - low
        /\ high - low <= 2 * ((high - low) \div 2) + 1 /\ 0 <= (high - low) \div 2
  BY <1>1
<1> QED BY <1>1, <1>2 DEF Mid

(* An entry of the loop as it stands.                                      *)
LEMMA TurnLogged ==
  ASSUME SearchInv, searching, NEW mid \in Int, NEW found \in BOOLEAN, Logs(mid, found)
  PROVE  /\ searchLogs' \in Seq(SearchEntry) /\ Halves(searchLogs') /\ searchLogs' # <<>>
         /\ searchLogs'[Len(searchLogs')] = [low |-> low, mid |-> mid, high |-> high, found |-> found]
         /\ LeftAt(searchLogs'[Len(searchLogs')]) = high - low + 1
<1> DEFINE e == [low |-> low, mid |-> mid, high |-> high, found |-> found]
<1>1. SearchGoesOn /\ low \in Int /\ high \in Int
  BY DEF SearchInv, SearchGoesOn
<1>2. e \in SearchEntry /\ LeftAt(e) = high - low + 1
  BY <1>1 DEF SearchEntry, LeftAt
<1>3. searchLogs' = Append(searchLogs, e)
  BY DEF Logs
<1> HIDE DEF e
<1>4. searchLogs # <<>> => 2 * LeftAt(e) <= LeftAt(searchLogs[Len(searchLogs)])
  BY <1>1, <1>2 DEF SearchGoesOn
<1>5. searchLogs \in Seq(SearchEntry) /\ Halves(searchLogs)
  BY DEF SearchInv
<1>6. /\ searchLogs' \in Seq(SearchEntry) /\ Halves(searchLogs') /\ searchLogs' # <<>>
      /\ searchLogs'[Len(searchLogs')] = e
  BY <1>2, <1>3, <1>4, <1>5, EntryLogged
<1> QED BY <1>2, <1>6 DEF e

(* The loop has returned.                                                  *)
LEMMA ReturnKeepsInv ==
  ASSUME SearchInv, searching, NEW mid \in Int, NEW found \in BOOLEAN, Returns(mid, found),
         IsAnswer(mid, found)
  PROVE  SearchInv'
<1>1. Logs(mid, found) /\ searching' = FALSE /\ arr' = arr /\ target' = target
  BY DEF Returns
<1>2. /\ searchLogs' \in Seq(SearchEntry) /\ Halves(searchLogs')
      /\ searchLogs'[Len(searchLogs')] = [low |-> low, mid |-> mid, high |-> high, found |-> found]
  BY <1>1, TurnLogged
<1>3. searchLogs'[Len(searchLogs')].mid = mid /\ searchLogs'[Len(searchLogs')].found = found
  BY <1>2
<1>4. Answer(searchLogs[Len(searchLogs)])'
  BY <1>1, <1>3 DEF Answer, IsAnswer
<1> QED BY <1>1, <1>2, <1>4 DEF SearchInv, Halves, LeftAt, SearchEntry

(* The loop goes on, over one half.                                        *)
LEMMA HalfKeepsInv ==
  ASSUME SearchInv, searching, low <= high, Logs(Mid, FALSE),
         UNCHANGED <<arr, target, searching>>,
         low' \in 1 .. Len(arr) + 1, high' \in 0 .. Len(arr), low' <= high' + 1,
         \A i \in 1 .. Len(arr) : arr[i] = target => low' <= i /\ i <= high',
         2 * (high' - low' + 1) <= high - low + 1
  PROVE  SearchInv'
<1>1. SearchGoesOn
  BY DEF SearchInv
<1>2. Mid \in Int
  BY <1>1, MidIs
<1>3. /\ searchLogs' \in Seq(SearchEntry) /\ Halves(searchLogs') /\ searchLogs' # <<>>
      /\ LeftAt(searchLogs'[Len(searchLogs')]) = high - low + 1
  BY <1>2, TurnLogged
<1>4. SearchGoesOn'
  BY <1>1, <1>3 DEF SearchGoesOn, IsSorted, LeftAt
<1> QED BY <1>3, <1>4 DEF SearchInv, Halves, LeftAt, SearchEntry

(* Every step keeps the invariant.                                         *)
LEMMA SearchStep == SearchInv /\ [SearchNext]_searchVars => SearchInv'
<1> SUFFICES ASSUME SearchInv, [SearchNext]_searchVars PROVE SearchInv'
  OBVIOUS
<1>1. ASSUME NEW a \in SortedArrays, NEW x \in Searchable, Search(a, x) PROVE SearchInv'
  <2>1. a \in Seq(Searchable) /\ IsSorted(a)
    BY DEF SortedArrays
  <2>2. /\ arr' = a /\ target' = x /\ low' = 1 /\ high' = Len(a) /\ searchLogs' = <<>> /\ searching' = TRUE
    BY <1>1 DEF Search
  <2>3. SearchGoesOn'
    BY <2>1, <2>2 DEF SearchGoesOn, IsSorted
  <2>4. Halves(searchLogs')
    BY <2>2 DEF Halves
  <2> QED BY <2>2, <2>3, <2>4 DEF SearchInv, Halves, LeftAt, SearchEntry
<1>2. CASE UNCHANGED searchVars
  BY <1>2 DEF searchVars, SearchInv, SearchGoesOn, Answer, IsAnswer, Halves, LeftAt, SearchEntry, IsSorted
<1>3. ASSUME searching PROVE SearchGoesOn /\ DOMAIN arr = 1 .. Len(arr) /\ Len(arr) \in Nat
  BY <1>3 DEF SearchInv, SearchGoesOn
<1>4. CASE FindTarget
  <2>1. Mid \in 1 .. Len(arr) /\ arr[Mid] = target /\ searching /\ Returns(Mid, TRUE)
    BY <1>3, <1>4, MidIs DEF FindTarget
  <2> HIDE DEF Mid
  <2>2. Mid \in Int /\ IsAnswer(Mid, TRUE)
    BY <1>3, <2>1 DEF IsAnswer
  <2> QED BY <2>1, <2>2, ReturnKeepsInv
<1>5. CASE MissTarget
  <2>1. ~ \E i \in DOMAIN arr : arr[i] = target
    BY <1>3, <1>5 DEF MissTarget, SearchGoesOn
  <2>2. NotFound \in Int /\ IsAnswer(NotFound, FALSE)
    BY <2>1 DEF NotFound, IsAnswer
  <2> QED BY <1>5, <2>1, <2>2, ReturnKeepsInv DEF MissTarget
<1>6. CASE SearchRightHalf
  <2>1. /\ searching /\ low <= high /\ Below(arr[Mid], target) /\ Logs(Mid, FALSE)
        /\ low' = Mid + 1 /\ high' = high /\ UNCHANGED <<arr, target, searching>>
    BY <1>6 DEF SearchRightHalf
  <2>2. SearchGoesOn /\ arr \in Seq(Searchable) /\ target \in Searchable /\ IsSorted(arr)
    BY <1>3, <2>1 DEF SearchGoesOn
  <2>3. Mid \in 1 .. Len(arr) /\ low <= Mid /\ Mid <= high /\ 2 * (high - (Mid + 1) + 1) <= high - low + 1
    BY <2>1, <2>2, MidIs
  <2>4. ASSUME NEW i \in 1 .. Len(arr), arr[i] = target PROVE Mid + 1 <= i /\ i <= high
    <3>1. low <= i /\ i <= high
      BY <2>2, <2>4 DEF SearchGoesOn
    <3>2. ~(i < Mid)
      BY <2>1, <2>2, <2>3, <2>4 DEF IsSorted
    <3>3. i # Mid
      BY <1>6, <2>4 DEF SearchRightHalf
    <3> QED BY <2>3, <3>1, <3>2, <3>3
  <2>5. Len(arr) \in Nat /\ high \in 0 .. Len(arr) /\ Mid + 1 \in 1 .. Len(arr) + 1 /\ Mid + 1 <= high + 1
    BY <2>2, <2>3 DEF SearchGoesOn
  <2> HIDE DEF Mid
  <2> QED BY <2>1, <2>3, <2>4, <2>5, HalfKeepsInv
<1>7. CASE SearchLeftHalf
  <2>1. /\ searching /\ low <= high /\ arr[Mid] # target /\ ~Below(arr[Mid], target) /\ Logs(Mid, FALSE)
        /\ high' = Mid - 1 /\ low' = low /\ UNCHANGED <<arr, target, searching>>
    BY <1>7 DEF SearchLeftHalf
  <2>2. SearchGoesOn /\ arr \in Seq(Searchable) /\ target \in Searchable /\ IsSorted(arr)
    BY <1>3, <2>1 DEF SearchGoesOn
  <2>3. Mid \in 1 .. Len(arr) /\ low <= Mid /\ Mid <= high /\ 2 * ((Mid - 1) - low + 1) <= high - low + 1
    BY <2>1, <2>2, MidIs
  <2>4. Below(target, arr[Mid])
    BY <2>1, <2>2, <2>3, SearchingAssumption
  <2>5. ASSUME NEW i \in 1 .. Len(arr), arr[i] = target PROVE low <= i /\ i <= Mid - 1
    <3>1. low <= i /\ i <= high
      BY <2>2, <2>5 DEF SearchGoesOn
    <3>2. ~(Mid < i)
      BY <2>2, <2>3, <2>4, <2>5 DEF IsSorted
    <3>3. i # Mid
      BY <2>1, <2>5
    <3> QED BY <2>3, <3>1, <3>2, <3>3
  <2>6. Len(arr) \in Nat /\ low \in 1 .. Len(arr) + 1 /\ Mid - 1 \in 0 .. Len(arr) /\ low <= (Mid - 1) + 1
    BY <2>2, <2>3 DEF SearchGoesOn
  <2> HIDE DEF Mid
  <2> QED BY <2>1, <2>3, <2>5, <2>6, HalfKeepsInv
<1> QED BY <1>1, <1>2, <1>4, <1>5, <1>6, <1>7 DEF SearchNext

(* Searching: a search of any sorted array, of elements of any total       *)
(* order, finds a place of the target exactly when there is one, and each  *)
(* turn of its loop halves what was left to look at.                       *)
THEOREM SearchesAlwaysFind == SearchSpec => []SearchesFind
<1>1. SearchInit => SearchInv
  <2> SUFFICES ASSUME SearchInit PROVE SearchInv
    OBVIOUS
  <2>1. searchLogs = <<>> /\ searching = FALSE
    BY DEF SearchInit
  <2>2. <<>> \in Seq(SearchEntry) /\ Len(<<>>) = 0 /\ FALSE \in BOOLEAN
    OBVIOUS
  <2>3. Halves(searchLogs)
    BY <2>1 DEF Halves
  <2> QED BY <2>1, <2>2, <2>3 DEF SearchInv
<1> QED BY <1>1, SearchStep, SearchInvFinds, PTL DEF SearchSpec
=================================================================================
