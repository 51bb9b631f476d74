SPECIFICATION Spec
INVARIANTS
  TypeOK
  CrashLoadable
  ServesDurable
  TokenDurable
  AckedSurvives
  OutcomeDecided
PROPERTY
  PublishesWholeBatches
  RefinesAtomic
SYMMETRY Symmetry
CONSTANTS
  Mutation = {a, b}
  Inode = {i1, i2, i3, i4}
  NoInode = NoInode
  NoEvidence = NoEvidence
  MaxWalRecords = 2
  MaxGen = 2
  MaxNonce = 3
