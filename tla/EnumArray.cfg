CONSTANTS
  a1 = a1
  a2 = a2
  Arrays = {a1, a2}
  Elements <- MCElements
  Contents <- MCContents
  MaxDepth = 3
  Floats <- MCFloats
  IntValues = 16
  ShortValues = 4
  ByteValues = 2
SPECIFICATION MCFairSpec
INVARIANTS
  TypeOK
  EnumeratesLeaves
  OverflowsOnlyIfCyclic
PROPERTY Ends
CHECK_DEADLOCK FALSE
