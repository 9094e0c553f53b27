SPECIFICATION AskSpec
CONSTANTS
  Scripts = {s1}
  Clients = {s1, t1}
  Projects = {A, B}
  Home = A
  Nodes = {m, n}
  NoNode = NoNode
  Ports = {p, q}
  DefaultPort = p
  Unbound = Unbound
  Token = Token
  NoToken = NoToken
  NoReply = NoReply
  Nobody = Nobody
  MaxInbox = 1
  MaxMoves = 1
  MaxSwitches = 1
  MaxDeletes = 1
INVARIANTS AskTypeOK OneCopy JoinIsFast PromptHasNoTombstones
PROPERTIES ImplementsReadService
SYMMETRY Symmetry
