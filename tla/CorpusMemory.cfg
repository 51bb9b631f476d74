SPECIFICATION Spec
CONSTANTS
  d1 = d1  d2 = d2  f1 = f1  f2 = f2  s1 = s1  s2 = s2  e1 = e1  e2 = e2  e3 = e3
  None = None  Dirty = Dirty  Operator = Operator
  Doc = {d1, d2}
  Fact = {f1, f2}
  Schema = {s1, s2}
  Entity = {e1, e2, e3}
  SchemaOf <- MCSchemaOf
  Ends <- MCEnds
  Contributes <- MCContributes
  Evidence <- MCEvidence
  Occurrences <- MCOccurrences
  NodeRank <- MCNodeRank
  KeyRank <- MCKeyRank
  Operations <- MCOperations
  Threshold = 2
  PageSize = 7
  MaxGen = 4
  MaxOperatorGen = 3
INVARIANTS
  TypeOK
  ReadsAgree
  PagesComplete
  SnapshotGrounded
  FrequencySupported
  DeletedLeavesNoTrace
  GraphMirrorsMemory
  VectorsNameFirstSource
