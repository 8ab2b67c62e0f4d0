SPECIFICATION Spec
CONSTANTS
  Slices <- MCSlices
  Targets <- MCTargets
  Trees <- MCTrees
  Paths <- MCPaths
  Hierarchy <- MCHierarchy
  Matches <- MCMatches
  Signatures <- Usual
  CallSites <- MCCallSites
  SlotCases <- MCSlotCases
  Hierarchies <- MCHierarchies
  Lookups <- Sensible
  Constructions <- Makeable
  DataCalls <- MCDataCalls
  Bodies <- MCBodies
  Enums <- MCEnums
  MethodCalls <- MCMethodCalls
  Heaps <- MCHeaps
  Searches <- MCSearches
  Iterations <- MCIterations
  ChoiceCases <- MCChoices
  Caches <- MCCaches
  Graphs <- MCGraphs
  Exports <- MCExports
  MaxSafe = 3
  I64 = 7
  MaxRange = 4
  MaxConvertDepth = 3
  EqLimit = 10
  StackDepth = 8
INVARIANTS SlicesAgree PlacesAreLenses MatchInverts ArgumentsLand SlotsSurvive LinearizesC3 LookupMeetsPython WalksEnd ComparisonsMeetPython CopyIsIsomorphic CrossingsKeep LibraryMeetsPython
CHECK_DEADLOCK FALSE
