--------------------------- MODULE MCDataStructures ---------------------------
(***************************************************************************)
(* The data structures and algorithms of dsa/, and the reading of request  *)
(* bodies by api/Json.hpp, side by side.  A behaviour is that of one of    *)
(* them, chosen at the start; the others stay as they are made.  The sorts *)
(* get every array that push_back can build, and the graph algorithms      *)
(* every graph that addEdge can.                                           *)
(***************************************************************************)
EXTENDS MCPriorityHeap, Containers, Searching, Json

CONSTANTS
  Structures,             \* the ones to choose from
  Ranks,
  Weights, MaxEdges

VARIABLES chosen, array, graph

containers == <<list, fifo, maps>>

-----------------------------------------------------------------------------
(* Keys of which some share a bucket until a rehash.                       *)
SameHash(key) == key

(* Elements are [rank, tag]; the comparator looks at the rank alone.       *)
RankBelow(x, y) == x.rank < y.rank

Sort == INSTANCE Sorting WITH Comp <- RankBelow

(* Vertices are numbers in the order of their names; the last of them is   *)
(* never given to addEdge.                                                 *)
Vertices == 1 .. 4
NameBelow(v, w) == v < w
Nearer(base, distance) == base - distance

Net == INSTANCE Graph WITH Precedes <- NameBelow, Infinity <- 100, Decayed <- Nearer

(* Texts of values, which may be the name of a key.                        *)
FieldTexts == {"ann", "email", "price", "7"}
Numbers == [t \in {"7"} |-> 7]

EdgeCount ==
  Cardinality(UNION {{v} \X DOMAIN graph.adjList[v] : v \in DOMAIN graph.adjList})

-----------------------------------------------------------------------------
StructuresInit ==
  /\ chosen \in Structures
  /\ HeapInit /\ ContainersInit /\ SearchInit /\ BodyInit
  /\ array = <<>> /\ graph = Net!EmptyGraph

ArrayNext ==
  /\ Len(array) < MaxArray
  /\ \E r \in Ranks : array' = Append(array, [rank |-> r, tag |-> Len(array)])

GraphNext ==
  /\ EdgeCount < MaxEdges
  /\ \E u, v \in Vertices \ {4}, w \in Weights :
       graph' \in {Net!AddEdge(graph, u, v, w), Net!AddBidirectionalEdge(graph, u, v, w)}

StructuresNext ==
  /\ UNCHANGED chosen
  /\ \/ chosen = "heap" /\ HeapNext /\ UNCHANGED <<containers, searchVars, array, graph, body>>
     \/ chosen = "list" /\ List!ListNext
          /\ UNCHANGED <<vars, fifo, maps, searchVars, array, graph, body>>
     \/ chosen = "queue" /\ Fifo!QueueNext
          /\ UNCHANGED <<vars, list, maps, searchVars, array, graph, body>>
     \/ chosen = "map" /\ Map!HashMapNext
          /\ UNCHANGED <<vars, list, fifo, searchVars, array, graph, body>>
     \/ chosen = "search" /\ SearchNext /\ UNCHANGED <<vars, containers, array, graph, body>>
     \/ chosen = "array" /\ ArrayNext /\ UNCHANGED <<vars, containers, searchVars, graph, body>>
     \/ chosen = "graph" /\ GraphNext /\ UNCHANGED <<vars, containers, searchVars, array, body>>
     \/ chosen = "body" /\ BodyNext /\ UNCHANGED <<vars, containers, searchVars, array, graph>>

StructuresSpec ==
  StructuresInit /\ [][StructuresNext]_<<chosen, vars, containers, searchVars, array, graph, body>>

-----------------------------------------------------------------------------
(* Properties.                                                             *)

(* Sorting: both sorts sort, the merge sort keeps ties, the traces show it.*)
SortsSort == chosen = "array" => Sort!SortsAndTraces(array)

(* Graph: bfs goes by levels, dfs by branches, each over what is reachable.*)
TraversalsVisitReachable ==
  chosen = "graph" => \A v \in {1, 4} : Net!TraversalsAreInOrder(graph, v)

(* Graph: dijkstra's distances, and the paths told from its predecessors,  *)
(* are the shortest, from a vertex and from a name that is none.           *)
DijkstraIsShortest ==
  chosen = "graph" => \A v \in {1, 4}, w \in Vertices : Net!PathsAreShortest(graph, v, w)
=============================================================================
