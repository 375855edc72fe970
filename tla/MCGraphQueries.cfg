SPECIFICATION QuerySpec
CONSTANTS
  MinSlots = 2
  HashOf <- MCHashOf
  Lists <- MCLists
  Declarations <- MCDeclarations
  Selections <- MCSelections
  Bitmaps <- MCBitmaps
  StoredNames <- MCStoredNames
  Queries <- MCQueries
  kPortMapMaxPieces = 2
  Text <- MCText
  Orders <- MCOrders
  Requests <- MCRequests
  Workers = {0, 1, 2}
  Cores = 4
  Chunk = 1
  MinItems = 3
  Unbounded = 9
  Netlists <- MCNetlists
  TraceRequests <- MCTraceRequests
  kRoutePieces = 2
  Designs <- MCDesigns
  HierRequests <- MCHierRequests
  Groups <- MCGroups
  MaxGroups = 3
  Numeral <- MCNumeral
  BadPatterns = {"("}
  Word = 256
CHECK_DEADLOCK FALSE
INVARIANTS
  ListsExact
  SelectionsExact
  SearchExact
  NothingMissed
  NothingForeign
  HierarchyExact
  ArgumentsExact
PROPERTIES
  SearchEnds
