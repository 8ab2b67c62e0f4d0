SPECIFICATION Spec
CONSTANTS
  IntBits = 5
  MantissaBits = 8
  HashBits = 5
  ChunkBits = 2
  MaxIntBits = 9
  MaxExponent = 20
  MaxSize = 20
  DecimalPlaces = 2
  MaxIterations = 3
  Classes <- MCClasses
  Pairs <- MCPairs
  Sums <- MCSums
  Ranges <- MCRanges
  Objects <- MCObjects
  Protocols <- MCProtocols
  KeyOrders <- MCKeyOrders
INVARIANTS KeysAgree NumbersAreExact OperatorsMeetPython
CHECK_DEADLOCK FALSE
