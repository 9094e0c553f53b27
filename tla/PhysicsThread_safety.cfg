SPECIFICATION Spec
CONSTANTS
  Places = {p, q}
  NoPin = NoPin
  InitNodes = 1
  InitEdges = 1
  LoadableEdges <- Orphans
  MaxNodes = 2
  MaxEdges = 2
  FreezeAfter = 2
  Self = 1
  SelfHome = p
INVARIANTS TypeOK IndicesAligned Inv FrozenIsCurrent SavedLayoutIsLast
PROPERTIES TombstonesRest ImplementsService
