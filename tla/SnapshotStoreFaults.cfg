SPECIFICATION Spec
INVARIANTS
  TypeOK
  WriterExclusive
SYMMETRY Symmetry
CONSTANTS
  Process = {p, q}
  Old = Old
  Metadata = {m}
  NoMeta = NoMeta
  Env = {"io_error", "operator", "metadata", "legacy"}
  MaxTx = 2
  MaxEdits = 2
  MaxVersion = 2
