-------------------------------- MODULE Graph --------------------------------
(***************************************************************************)
(* dsa/Graph.hpp: a directed graph with weights, [vertices, adjList], the  *)
(* traversals and the shortest paths over it.                              *)
(***************************************************************************)
EXTENDS Integers, Sequences, FiniteSets
LOCAL INSTANCE SequencesExt
LOCAL INSTANCE FiniteSetsExt

CONSTANTS
  Precedes(_, _),  \* operator< on the names of vertices
  Infinity,        \* above the length of every path
  Decayed(_, _)    \* an impact times exp(-0.8 * distance)

EmptyGraph == [vertices |-> <<>>, adjList |-> <<>>]

IsVertex(g, v) == v \in DOMAIN g.adjList

AddVertex(g, v) ==
  IF IsVertex(g, v) THEN g
  ELSE [vertices |-> Append(g.vertices, v),
        adjList  |-> [u \in DOMAIN g.adjList \cup {v} |-> IF u = v THEN <<>> ELSE g.adjList[u]]]

AddEdge(g, source, target, weight) ==
  [AddVertex(AddVertex(g, source), target)
     EXCEPT !.adjList[source] = Append(@, [target |-> target, weight |-> weight])]

AddBidirectionalEdge(g, u, v, weight) == AddEdge(AddEdge(g, u, v, weight), v, u, weight)

GetNeighbors(g, v) == IF IsVertex(g, v) THEN g.adjList[v] ELSE <<>>

-----------------------------------------------------------------------------
(* Mutant: a vertex is marked when it leaves the queue.                    *)
DiscoverUnmarked(s, e) ==
  IF Contains(s.result, e.target) THEN s ELSE [s EXCEPT !.queue = Append(@, e.target)]

(* A vertex is marked as visited when it enters the queue.                 *)
Discover(s, e) ==
  IF Contains(s.result \o s.queue, e.target) THEN s ELSE [s EXCEPT !.queue = Append(@, e.target)]

RECURSIVE BfsFrom(_, _)
BfsFrom(g, s) ==
  IF s.queue = <<>> THEN s.result
  ELSE LET curr    == Head(s.queue)
           visited == [result |-> Append(s.result, curr), queue |-> Tail(s.queue)]
       IN  BfsFrom(g, FoldLeft(Discover, visited, GetNeighbors(g, curr)))

Bfs(g, start) ==
  IF IsVertex(g, start) THEN BfsFrom(g, [result |-> <<>>, queue |-> <<start>>]) ELSE <<>>

(* What is visited is what is in the result, in the order of the calls.    *)
RECURSIVE DfsHelper(_, _, _)
DfsHelper(g, curr, result) ==
  FoldLeft(LAMBDA r, e : IF Contains(r, e.target) THEN r ELSE DfsHelper(g, e.target, r),
           Append(result, curr), GetNeighbors(g, curr))

Dfs(g, start) == IF IsVertex(g, start) THEN DfsHelper(g, start, <<>>) ELSE <<>>

-----------------------------------------------------------------------------
(* Dijkstra's state is [distances, predecessors, pq].  No pair is pushed   *)
(* twice, since a push comes with a smaller distance: pq is a set.         *)
DijkstraStart(g, source) ==
  [distances    |-> [v \in DOMAIN g.adjList \cup {source} |-> IF v = source THEN 0 ELSE Infinity],
   predecessors |-> <<>>,
   pq           |-> {<<0, source>>}]

Top(pq) ==
  CHOOSE p \in pq : \A q \in pq \ {p} : p[1] < q[1] \/ (p[1] = q[1] /\ Precedes(p[2], q[2]))

(* Mutant: only a vertex without a distance gets one.                      *)
RelaxOnce(s, u, e) ==
  LET d == s.distances[u] + e.weight
  IN  IF s.distances[e.target] < Infinity THEN s
      ELSE [distances    |-> [s.distances EXCEPT ![e.target] = d],
            predecessors |-> [v \in DOMAIN s.predecessors \cup {e.target} |->
                                IF v = e.target THEN u ELSE s.predecessors[v]],
            pq           |-> s.pq \cup {<<d, e.target>>}]

Relax(s, u, e) ==
  LET d == s.distances[u] + e.weight
  IN  IF d >= s.distances[e.target] THEN s
      ELSE [distances    |-> [s.distances EXCEPT ![e.target] = d],
            predecessors |-> [v \in DOMAIN s.predecessors \cup {e.target} |->
                                IF v = e.target THEN u ELSE s.predecessors[v]],
            pq           |-> s.pq \cup {<<d, e.target>>}]

RECURSIVE DijkstraFrom(_, _)
DijkstraFrom(g, s) ==
  IF s.pq = {} THEN s
  ELSE LET top    == Top(s.pq)
           u      == top[2]
           popped == [s EXCEPT !.pq = @ \ {top}]
       IN  DijkstraFrom(g, IF top[1] > s.distances[u] THEN popped
                           ELSE FoldLeft(LAMBDA r, e : Relax(r, u, e), popped, GetNeighbors(g, u)))

Dijkstra(g, source) == DijkstraFrom(g, DijkstraStart(g, source))

RECURSIVE PathBack(_, _)
PathBack(res, curr) ==
  IF curr \notin DOMAIN res.predecessors \/ res.predecessors[curr] = curr THEN <<curr>>
  ELSE Append(PathBack(res, res.predecessors[curr]), curr)

GetPathTo(res, target) ==
  IF target \notin DOMAIN res.distances \/ res.distances[target] = Infinity THEN <<>>
  ELSE PathBack(res, target)

(* POST /api/dsa/dijkstra: distances[target] gives a name that is no       *)
(* vertex the distance 0.                                                  *)
DijkstraAnswer(g, source, target) ==
  LET res == Dijkstra(g, source)
  IN  [path     |-> GetPathTo(res, target),
       distance |-> IF target \in DOMAIN res.distances THEN res.distances[target] ELSE 0]

PropagateShock(g, epicentre, baseImpact) ==
  LET d == Dijkstra(g, epicentre).distances
  IN  [v \in {u \in DOMAIN d : d[u] < Infinity} |-> Decayed(baseImpact, d[v])]

-----------------------------------------------------------------------------
(* Properties of the algorithms on one graph.                              *)

Successors(g, v) == {GetNeighbors(g, v)[i].target : i \in DOMAIN GetNeighbors(g, v)}

RECURSIVE Within(_, _, _)
Within(g, v, n) ==
  IF n = 0 THEN {v} ELSE Within(g, v, n - 1) \cup UNION {Successors(g, u) : u \in Within(g, v, n - 1)}

Level(g, v, u) == Min({n \in 0 .. Len(g.vertices) : u \in Within(g, v, n)})

(* Both traversals visit what can be reached and nothing else, each vertex *)
(* once.  The breadth-first one goes level by level; the depth-first one   *)
(* comes to a vertex from the latest one that still had a way on.          *)
TraversalsAreInOrder(g, v) ==
  LET b == Bfs(g, v)
      d == Dfs(g, v)
      Once(s) == ToSet(s) = Within(g, v, Len(g.vertices)) /\ IsInjective(s)
  IN  IF IsVertex(g, v)
      THEN /\ Once(b) /\ Once(d)
           /\ \A i, j \in DOMAIN b : i < j => Level(g, v, b[i]) <= Level(g, v, b[j])
           /\ \A i, j, k \in DOMAIN d :
                i < j /\ j < k /\ d[k] \in Successors(g, d[i]) =>
                  \E l \in i .. j - 1 : d[j] \in Successors(g, d[l])
      ELSE b = <<>> /\ d = <<>>

EdgesOf(g) ==
  UNION {{<<u, g.adjList[u][i]>> : i \in DOMAIN g.adjList[u]} : u \in DOMAIN g.adjList}

(* The distances are those of shortest paths: no edge leads to its target  *)
(* by a shorter way, and the path that is answered for a target starts at  *)
(* the source, follows edges, and is as long as the distance answered.     *)
(* There is no path exactly when the target cannot be reached, and a       *)
(* source that is no vertex reaches itself alone.                          *)
PathsAreShortest(g, source, target) ==
  LET res == Dijkstra(g, source)
      ans == DijkstraAnswer(g, source, target)
      p   == ans.path
      Lengths(u, v) == {e[2].weight : e \in {x \in EdgesOf(g) : x[1] = u /\ x[2].target = v}}
  IN  /\ res.distances[source] = 0
      /\ \A e \in EdgesOf(g) :
           res.distances[e[1]] < Infinity =>
             res.distances[e[2].target] <= res.distances[e[1]] + e[2].weight
      /\ (p # <<>>) <=> (target \in Within(g, source, Len(g.vertices)))
      /\ p # <<>> =>
           /\ p[1] = source /\ Last(p) = target
           /\ \A i \in 1 .. Len(p) - 1 : p[i + 1] \in Successors(g, p[i])
           /\ ans.distance = FoldLeft(+, 0, [i \in 1 .. Len(p) - 1 |-> Min(Lengths(p[i], p[i + 1]))])
      /\ ~IsVertex(g, source) => DOMAIN PropagateShock(g, source, 1) = {source}
=============================================================================
