------------------------------ MODULE Searching ------------------------------
(***************************************************************************)
(* dsa/Searching.hpp: binary search, a turn of its loop per step, with the *)
(* log of traceBinarySearch.  binarySearch is the same loop and returns    *)
(* the mid of the last entry.  Indices start at 1, the code's at 0.        *)
(***************************************************************************)
EXTENDS Integers, Sequences

CONSTANTS
  Searchable,   \* what arrays hold and what is looked for
  Below(_, _),  \* operator<
  MaxArray      \* bound: elements in an array

VARIABLES
  arr, target,  \* the arguments
  low, high,    \* where the target may still be
  searchLogs,   \* the entries so far
  searching     \* whether the loop is running

searchVars == <<arr, target, low, high, searchLogs, searching>>

ASSUME SearchingAssumption ==
  /\ \A x, y \in Searchable : x = y \/ Below(x, y) \/ Below(y, x)
  /\ \A x, y \in Searchable : ~(Below(x, y) /\ (x = y \/ Below(y, x)))
  /\ \A x, y, z \in Searchable : Below(x, y) /\ Below(y, z) => Below(x, z)

NotFound == -1

IsSorted(a) == \A i, j \in DOMAIN a : i < j => ~Below(a[j], a[i])

SortedArrays == {a \in UNION {[1 .. n -> Searchable] : n \in 0 .. MaxArray} : IsSorted(a)}

SearchInit ==
  /\ arr = <<>> /\ target = CHOOSE x \in Searchable : TRUE
  /\ low = 1 /\ high = 0 /\ searchLogs = <<>> /\ searching = FALSE

(* A call: callers pass arrays that are sorted.                            *)
Search(a, x) ==
  /\ ~searching
  /\ arr' = a /\ target' = x
  /\ low' = 1 /\ high' = Len(a) /\ searchLogs' = <<>> /\ searching' = TRUE

Mid == low + (high - low) \div 2

Logs(mid, found) ==
  searchLogs' = Append(searchLogs, [low |-> low, mid |-> mid, high |-> high, found |-> found])

Returns(mid, found) ==
  Logs(mid, found) /\ searching' = FALSE /\ UNCHANGED <<arr, target, low, high>>

FindTarget == searching /\ low <= high /\ arr[Mid] = target /\ Returns(Mid, TRUE)

SearchRightHalf ==
  /\ searching /\ low <= high /\ arr[Mid] # target /\ Below(arr[Mid], target)
  /\ Logs(Mid, FALSE)
  /\ low' = Mid + 1
  /\ UNCHANGED <<arr, target, high, searching>>

(* Mutant: the left half is cut one short.                                 *)
SearchLeftButOne ==
  /\ searching /\ low <= high /\ arr[Mid] # target /\ ~Below(arr[Mid], target)
  /\ Logs(Mid, FALSE)
  /\ high' = Mid - 2
  /\ UNCHANGED <<arr, target, low, searching>>

SearchLeftHalf ==
  /\ searching /\ low <= high /\ arr[Mid] # target /\ ~Below(arr[Mid], target)
  /\ Logs(Mid, FALSE)
  /\ high' = Mid - 1
  /\ UNCHANGED <<arr, target, low, searching>>

MissTarget == searching /\ low > high /\ Returns(NotFound, FALSE)

SearchNext ==
  \/ \E a \in SortedArrays, x \in Searchable : Search(a, x)
  \/ FindTarget \/ SearchRightHalf \/ SearchLeftHalf \/ MissTarget

SearchSpec == SearchInit /\ [][SearchNext]_searchVars

-----------------------------------------------------------------------------
(* Properties.                                                             *)

(* A search that has returned has found a place of the target if there is  *)
(* one, and each turn of the loop has halved what was left to look at.     *)
SearchesFind ==
  LET last == searchLogs[Len(searchLogs)]
      Left(entry) == entry.high - entry.low + 1
  IN  /\ ~searching /\ searchLogs # <<>> =>
           IF \E i \in DOMAIN arr : arr[i] = target
           THEN last.found /\ last.mid \in DOMAIN arr /\ arr[last.mid] = target
           ELSE ~last.found /\ last.mid = NotFound
      /\ \A n \in 1 .. Len(searchLogs) - 1 :
           2 * Left(searchLogs[n + 1]) <= Left(searchLogs[n])
=============================================================================
