SPECIFICATION Spec
INVARIANTS
  TypeOK
  ReferentialIntegrity
  IdsNeverReused
  UndoneLeavesNothing
PROPERTY
  CommitsSerial
SYMMETRY Symmetry
CONSTANTS
  Conn = {c1, c2}
  A = A
  B = B
  Label = {A, B}
  Queries <- MCQueries
  StartGraph <- MCStartGraph
  MaxNode = 4
  MaxTx = 2
  MaxRuns = 1
  MaxStarts = 2
