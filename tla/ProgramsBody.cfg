SPECIFICATION Spec
CONSTANTS
  Slices = {}
  Targets = {}
  Trees = {}
  Paths = {}
  Hierarchy <- MCHierarchy
  Matches = {}
  Signatures = {}
  CallSites = {}
  SlotCases = {}
  Hierarchies = {}
  Lookups = {}
  Constructions = {}
  DataCalls = {}
  Bodies <- MCBodies
  Enums = {}
  MethodCalls = {}
  Heaps = {}
  Searches = {}
  Iterations = {}
  ChoiceCases = {}
  Caches = {}
  Graphs = {}
  Exports = {}
  MaxSafe = 3
  I64 = 7
  MaxRange = 4
  MaxConvertDepth = 3
  EqLimit = 10
  StackDepth = 8
INVARIANT BodiesAreBlocks
CHECK_DEADLOCK FALSE
