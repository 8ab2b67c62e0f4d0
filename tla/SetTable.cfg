SPECIFICATION Spec
CONSTANTS
  one_i = one_i
  one_b = one_b
  five = five
  nine = nine
  inst = inst
  lst = lst
  NoHash = NoHash
  Empty = Empty
  Dummy = Dummy
  Values <- MCValues
  Hash <- MCHash
  Class <- MCClass
  UnhashableValues = {lst}
  Args <- MCArgs
  Calls <- MCCalls
  MinBits = 2
  LinearProbes = 1
  PerturbShift = 1
  BigUsed = 1
  HashBits = 4
  MaxBits = 5
INVARIANT Probeable
PROPERTY IsASet
CHECK_DEADLOCK FALSE
