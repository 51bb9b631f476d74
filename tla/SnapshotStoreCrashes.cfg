SPECIFICATION Spec
INVARIANTS
  AckedRecoverable
PROPERTY
  CommitsChain
SYMMETRY Symmetry
CONSTANTS
  Process = {p, q}
  Old = Old
  Metadata = {}
  NoMeta = NoMeta
  Env = {"operator"}
  MaxTx = 3
  MaxEdits = 2
  MaxVersion = 2
