SPECIFICATION Spec
INVARIANTS
  PublishedReadsBack
  OnlyBytesRefuse
SYMMETRY Symmetry
CONSTANTS
  Key = {k1, k2}
  Value <- ShortLong
  NoRef = NoRef
  NoValue = NoValue
  Stores = {"empty"}
  HeaderBytes = 1
  CompactSegments = 2
  MaxLineage = 3
  CompactBytes = 10
  CeilingBytes = 20
  MaxGen = 4
  MaxOrphans = 0
