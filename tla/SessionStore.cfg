SPECIFICATION Spec
CONSTANTS
  Projects = {A, B}
  Default = A
  Fresh = {B}
  Idle = {B}
  Nobody = Nobody
  NoTxn = NoTxn
  Kinds = {j, k}
  SeedSize = 1
  MaxNodes = 2
  MaxEdges = 2
  MaxProposed = 2
  MaxLoose = 1
SYMMETRY KindSymmetry
INVARIANTS TypeOK WriteThrough InsertFits EventsNameRows
PROPERTIES ImplementsDurableGraph
