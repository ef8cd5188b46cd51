------------------------------- MODULE HashMap -------------------------------
(***************************************************************************)
(* dsa/HashMap.hpp: a vector of chains.  A map is [buckets, numElements];  *)
(* an operator of the name of a method gives the map it leaves behind.     *)
(***************************************************************************)
EXTENDS Integers, SequencesExt

CONSTANTS
  Maps,             \* the objects
  Keys, Values,
  Hash(_),          \* std::hash
  DefaultValue,     \* Value{}
  NoValue,          \* what get leaves when it returns false
  InitialCapacity,
  MaxBuckets        \* bound: buckets in a map

VARIABLE maps  \* [Maps -> map]

EmptyMap(capacity) == [buckets |-> [i \in 1 .. capacity |-> <<>>], numElements |-> 0]

BucketIndex(key, capacity) == (Hash(key) % capacity) + 1

Prepended(buckets, e) ==
  [buckets EXCEPT ![BucketIndex(e.key, Len(buckets))] = <<e>> \o @]

Entries(m) ==
  LET upTo[i \in 0 .. Len(m.buckets)] ==
        IF i = 0 THEN <<>> ELSE upTo[i - 1] \o m.buckets[i]
  IN  upTo[Len(m.buckets)]

(* Mutant: every chain is moved as a whole to where its index was.         *)
RehashByChain(m, newCapacity) ==
  [m EXCEPT !.buckets = @ \o [i \in 1 .. newCapacity - Len(m.buckets) |-> <<>>]]

Rehash(m, newCapacity) ==
  LET moved[i \in 0 .. Len(Entries(m))] ==
        IF i = 0 THEN EmptyMap(newCapacity).buckets ELSE Prepended(moved[i - 1], Entries(m)[i])
  IN  [m EXCEPT !.buckets = moved[Len(Entries(m))]]

(* The places in its chain where a key is found: none, or the first.       *)
Places(m, key) ==
  LET chain == m.buckets[BucketIndex(key, Len(m.buckets))]
      all   == {i \in DOMAIN chain : chain[i].key = key}
  IN  {i \in all : \A j \in all : i <= j}

HasKey(m, key) == Places(m, key) # {}

(* The load factor, of 3 / 4, is looked at before the key is.              *)
Grown(m) ==
  IF 4 * (m.numElements + 1) > 3 * Len(m.buckets) THEN Rehash(m, 2 * Len(m.buckets)) ELSE m

Put(m, key, value) ==
  LET g == Grown(m)
      b == BucketIndex(key, Len(g.buckets))
  IN  IF HasKey(g, key)
      THEN [g EXCEPT !.buckets[b] = [i \in DOMAIN @ |->
                       IF i \in Places(g, key) THEN [key |-> key, value |-> value] ELSE @[i]]]
      ELSE [buckets     |-> Prepended(g.buckets, [key |-> key, value |-> value]),
            numElements |-> g.numElements + 1]

Get(m, key) ==
  IF HasKey(m, key)
  THEN m.buckets[BucketIndex(key, Len(m.buckets))][Min(Places(m, key))].value
  ELSE NoValue

(* operator[], before anything is assigned through the reference.          *)
Subscript(m, key) == IF HasKey(m, key) THEN m ELSE Put(m, key, DefaultValue)

Erase(m, key) ==
  IF HasKey(m, key)
  THEN [m EXCEPT !.buckets[BucketIndex(key, Len(m.buckets))] = RemoveAt(@, Min(Places(m, key))),
                 !.numElements = @ - 1]
  ELSE m

Clear(m) == EmptyMap(Len(m.buckets))

(* Copying puts the entries of the other map one by one, as the copy       *)
(* constructor does; moving leaves the other map without any bucket.       *)
CopyOf(other) ==
  LET copied[i \in 0 .. Len(Entries(other))] ==
        IF i = 0 THEN EmptyMap(Len(other.buckets))
        ELSE LET e == Entries(other)[i] IN Put(copied[i - 1], e.key, e.value)
  IN  copied[Len(Entries(other))]

MovedFrom == EmptyMap(0)

-----------------------------------------------------------------------------
HashMapInit == maps = [x \in Maps |-> EmptyMap(InitialCapacity)]

(* A map without buckets is cleared or assigned to, and nothing else:      *)
(* every other method divides by the number of its buckets.                *)
Usable(m) == m.buckets # <<>>

Assign(x, m) == Len(m.buckets) <= MaxBuckets /\ maps' = [maps EXCEPT ![x] = m]

HashMapNext ==
  \E x \in Maps :
    \/ /\ Usable(maps[x])
       /\ \E key \in Keys :
            \/ \E value \in Values : Assign(x, Put(maps[x], key, value))
            \/ Assign(x, Subscript(maps[x], key))
            \/ Assign(x, Erase(maps[x], key))
    \/ Assign(x, Clear(maps[x]))
    \/ \E y \in Maps \ {x} :
         \/ Assign(x, CopyOf(maps[y]))
         \/ maps' = [maps EXCEPT ![x] = maps[y], ![y] = MovedFrom]

HashMapSpec == HashMapInit /\ [][HashMapNext]_maps

-----------------------------------------------------------------------------
(* Properties.                                                             *)

Contents(m) == [k \in {Entries(m)[i].key : i \in DOMAIN Entries(m)} |-> Get(m, k)]

(* In every state there is, each call does to its map what it would do to  *)
(* a function: lookups go to the bucket an entry is in after any number of *)
(* rehashes, no key has two entries, and size() counts the keys.           *)
CallsActOnFunctions ==
  \A x \in Maps :
    LET m == maps[x]
        f == Contents(m)
        Sized(n, g) == Contents(n) = g /\ n.numElements = Len(Entries(n))
                         /\ n.numElements = Cardinality(DOMAIN g)
        With(k, v) == [j \in DOMAIN f \cup {k} |-> IF j = k THEN v ELSE f[j]]
    IN  /\ Sized(m, f)
        /\ NoValue \notin {f[k] : k \in DOMAIN f}
        /\ Usable(m) => /\ Sized(CopyOf(m), f)
                        /\ \A k \in Keys :
                             /\ \A v \in Values : Sized(Put(m, k, v), With(k, v))
                             /\ Sized(Erase(m, k), [j \in DOMAIN f \ {k} |-> f[j]])
                             /\ Sized(Subscript(m, k),
                                      IF k \in DOMAIN f THEN f ELSE With(k, DefaultValue))
=============================================================================
