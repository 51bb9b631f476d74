SPECIFICATION FairSpec
PROPERTY
  ReturnsToService
CONSTANTS
  Mutation = {a, b}
  Inode = {i1, i2, i3}
  NoInode = NoInode
  NoEvidence = NoEvidence
  MaxWalRecords = 1
  MaxGen = 2
  MaxNonce = 2
