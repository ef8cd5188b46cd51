\* Heaps of up to six bids, of four ranks with two distinct orders each; two
\* lists, queues and maps that share what room there is; sorted arrays and
\* others of up to five elements; graphs of three vertices and up to three
\* edges, four when the last call adds a pair; bodies of up to three fields.
SPECIFICATION StructuresSpec
CONSTANTS
  Structures = {"heap", "list", "queue", "map", "search", "array", "graph", "body"}
  Prices = {1, 2}
  Timestamps = {1, 2}
  OrderIds = {o1, o2}
  Values <- MCValues
  Predicates <- MCPredicates
  RanksBelow <- OrderRanksBelow
  Nothing = Nothing
  MaxSize = 6
  Objects = {a, b}
  Datum = {1, 2}
  Null = Null
  Cells = {1, 2, 3, 4}
  MapKeys = {0, 2, 4}
  MapValues = {1}
  DefaultValue = 0
  NoValue = NoValue
  KeyHash <- SameHash
  InitialCapacity = 2
  MaxBuckets = 8
  Ranks = {1, 2, 3}
  Searchable = {0, 1, 2}
  Below <- NameBelow
  MaxArray = 5
  Weights = {1, 3}
  MaxEdges = 3
  FieldNames = {"username", "email", "price"}
  Texts <- FieldTexts
  Numerals <- Numbers
SYMMETRY MCSymmetry
INVARIANTS
  HeapOrdered
  ListsAreSequences
  MapsAreFunctions
  SortsSort
  SearchesFind
  BodiesAreRead
  TraversalsVisitReachable
  DijkstraIsShortest
PROPERTIES
  ImplementsQueue
  QueuesAreFifo
CHECK_DEADLOCK FALSE
