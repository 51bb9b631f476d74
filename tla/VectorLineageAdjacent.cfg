SPECIFICATION Spec
INVARIANTS
  PublishedReadsBack
SYMMETRY Symmetry
CONSTANTS
  Key = {k1, k2}
  Value <- SameLength
  NoRef = NoRef
  NoValue = NoValue
  Stores = {"adjacent"}
  HeaderBytes = 1
  CompactSegments = 2
  MaxLineage = 3
  CompactBytes = 90
  CeilingBytes = 99
  MaxGen = 2
  MaxOrphans = 0
