SPECIFICATION Spec
CONSTANTS
  Projects = {A}
  Default = A
  Fresh = {A}
  Idle = {}
  Nobody = Nobody
  NoTxn = NoTxn
  Kinds = {k}
  SeedSize = 2
  MaxNodes = 3
  MaxEdges = 1
  MaxProposed = 2
  MaxLoose = 2
INVARIANTS RefusesOnlyForeignEdits
