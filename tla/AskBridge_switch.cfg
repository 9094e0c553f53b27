SPECIFICATION FairAskSpec
CONSTANTS
  Scripts = {s1}
  Clients = {s1}
  Projects = {A, B}
  Home = A
  Nodes = {n}
  NoNode = NoNode
  Ports = {p, q}
  DefaultPort = p
  Unbound = Unbound
  Token = Token
  NoToken = NoToken
  NoReply = NoReply
  Nobody = Nobody
  MaxInbox = 2
  MaxMoves = 0
  MaxSwitches = 2
  MaxDeletes = 0
PROPERTIES RightGraph
