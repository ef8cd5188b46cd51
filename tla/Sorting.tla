------------------------------- MODULE Sorting -------------------------------
(***************************************************************************)
(* dsa/Sorting.hpp, which has each sort twice, once with a trace for the   *)
(* visualizer; here a run is the array and the log of the trace,           *)
(* [arr, logs], and the plain sort drops the log.                          *)
(* Indices start at 1, where the code's start at 0.                        *)
(***************************************************************************)
EXTENDS Integers, Sequences, FiniteSets
LOCAL INSTANCE SequencesExt

CONSTANT Comp(_, _)  \* the comparator

Logged(arr, highlighted) == [arr |-> arr, highlighted |-> highlighted]

(* Mutant: of two equal elements the right one is taken first.             *)
RECURSIVE MergedRightFirst(_, _)
MergedRightFirst(xs, ys) ==
  IF xs = <<>> \/ ys = <<>> THEN xs \o ys
  ELSE IF ~Comp(Head(xs), Head(ys)) THEN <<Head(ys)>> \o MergedRightFirst(xs, Tail(ys))
                                    ELSE <<Head(xs)>> \o MergedRightFirst(Tail(xs), ys)

RECURSIVE Merged(_, _)
Merged(xs, ys) ==
  IF xs = <<>> \/ ys = <<>> THEN xs \o ys
  ELSE IF Comp(Head(ys), Head(xs)) THEN <<Head(ys)>> \o Merged(xs, Tail(ys))
                                   ELSE <<Head(xs)>> \o Merged(Tail(xs), ys)

Merge(arr, left, mid, right) ==
  SubSeq(arr, 1, left - 1)
    \o Merged(SubSeq(arr, left, mid), SubSeq(arr, mid + 1, right))
    \o SubSeq(arr, right + 1, Len(arr))

RECURSIVE MergeSortInternal(_, _, _)
MergeSortInternal(run, left, right) ==
  LET mid    == left + (right - left) \div 2
      halves == MergeSortInternal(MergeSortInternal(run, left, mid), mid + 1, right)
      arr    == Merge(halves.arr, left, mid, right)
  IN  IF left >= right THEN run
      ELSE [arr |-> arr, logs |-> Append(halves.logs, Logged(arr, left .. right))]

Unsorted(arr) == [arr |-> arr, logs |-> <<>>]

MergeSort(arr) == MergeSortInternal(Unsorted(arr), 1, Len(arr)).arr

TraceMergeSort(arr) ==
  LET run == MergeSortInternal(Unsorted(arr), 1, Len(arr))
  IN  IF arr = <<>> THEN <<>>
      ELSE <<Logged(arr, {})>> \o run.logs \o <<Logged(run.arr, {})>>

-----------------------------------------------------------------------------
Swapped(arr, i, j) == [arr EXCEPT ![i] = arr[j], ![j] = arr[i]]

(* Lomuto's scheme: arr[high] is the pivot; [arr, pivotIndex].             *)
Partition(arr, low, high) ==
  LET StepTo(s, j) == IF Comp(s.arr[j], arr[high])
                      THEN [arr |-> Swapped(s.arr, s.i + 1, j), i |-> s.i + 1] ELSE s
      scanned == FoldLeft(StepTo, [arr |-> arr, i |-> low - 1],
                          [k \in 1 .. high - low |-> low + k - 1])
  IN  [arr |-> Swapped(scanned.arr, scanned.i + 1, high), pivotIndex |-> scanned.i + 1]

RECURSIVE QuickSortInternal(_, _, _)
QuickSortInternal(run, low, high) ==
  LET p       == Partition(run.arr, low, high)
      divided == [arr  |-> p.arr,
                  logs |-> Append(run.logs, Logged(p.arr, {p.pivotIndex}))]
  IN  IF low >= high THEN run
      ELSE QuickSortInternal(QuickSortInternal(divided, low, p.pivotIndex - 1),
                             p.pivotIndex + 1, high)

QuickSort(arr) == QuickSortInternal(Unsorted(arr), 1, Len(arr)).arr

TraceQuickSort(arr) ==
  LET run == QuickSortInternal(Unsorted(arr), 1, Len(arr))
  IN  IF arr = <<>> THEN <<>>
      ELSE <<Logged(arr, {})>> \o run.logs \o <<Logged(run.arr, {})>>

-----------------------------------------------------------------------------
(* Properties of the algorithms on one input.                              *)

Ordered(arr, places) == \A i, j \in places : i < j => ~Comp(arr[j], arr[i])

Rearranges(arr, of) ==
  \A x \in {of[i] : i \in DOMAIN of} :
    Len(arr) = Len(of) /\ Cardinality({i \in DOMAIN arr : arr[i] = x})
                            = Cardinality({i \in DOMAIN of : of[i] = x})

(* Equal elements with distinct tags keep the order they came in.          *)
KeepsTies(arr, of) ==
  \A i, j \in DOMAIN of :
    i < j /\ ~Comp(of[i], of[j]) /\ ~Comp(of[j], of[i]) /\ of[i] # of[j] =>
      \E k, l \in DOMAIN arr : k < l /\ arr[k] = of[i] /\ arr[l] = of[j]

(* "Stable O(N log N) sorting for Leaderboard": a merge sort rearranges    *)
(* its input into order without swapping ties, a quick sort into order;    *)
(* what a trace highlights is in order when it is shown, and the pivot of  *)
(* a quick sort is where it will be at the end.                            *)
SortsAndTraces(arr) ==
  LET merges == TraceMergeSort(arr)
      parts  == TraceQuickSort(arr)
  IN  /\ Ordered(MergeSort(arr), DOMAIN arr) /\ KeepsTies(MergeSort(arr), arr)
      /\ Ordered(QuickSort(arr), DOMAIN arr)
      /\ \A n \in DOMAIN merges : Rearranges(merges[n].arr, arr)
                                    /\ Ordered(merges[n].arr, merges[n].highlighted)
      /\ \A n \in DOMAIN parts : /\ Rearranges(parts[n].arr, arr)
                                 /\ \A i \in parts[n].highlighted :
                                      parts[n].arr[i] = QuickSort(arr)[i]
      /\ arr # <<>> => Last(merges).arr = MergeSort(arr) /\ Last(parts).arr = QuickSort(arr)
=============================================================================
