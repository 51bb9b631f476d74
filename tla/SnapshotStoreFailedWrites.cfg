SPECIFICATION Spec
INVARIANTS
  BaseExtendsAcked
  OnlyWholeCommits
SYMMETRY Symmetry
CONSTANTS
  Process = {p, q}
  Old = Old
  Metadata = {}
  NoMeta = NoMeta
  Env = {"io_error", "power_loss", "operator", "legacy"}
  MaxTx = 3
  MaxEdits = 2
  MaxVersion = 2
