SPECIFICATION Spec
INVARIANTS
  TypeOK
  PublishedReadsBack
  PredecessorReadsBack
SYMMETRY Symmetry
CONSTANTS
  Key = {k1, k2}
  Value <- SameLength
  NoRef = NoRef
  NoValue = NoValue
  Stores = {"empty", "inline", "format1"}
  HeaderBytes = 1
  CompactSegments = 2
  MaxLineage = 3
  CompactBytes = 90
  CeilingBytes = 99
  MaxGen = 3
  MaxOrphans = 1
