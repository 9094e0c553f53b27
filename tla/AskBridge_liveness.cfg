SPECIFICATION FairAskSpec
CONSTANTS
  Scripts = {s1}
  Clients = {s1, t1}
  Projects = {A}
  Home = A
  Nodes = {n}
  NoNode = NoNode
  Ports = {p, q}
  DefaultPort = p
  Unbound = Unbound
  Token = Token
  NoToken = NoToken
  NoReply = NoReply
  Nobody = Nobody
  MaxInbox = 2
  MaxMoves = 1
  MaxSwitches = 0
  MaxDeletes = 1
PROPERTIES AcceptedIsAnswered AskEnds QuitEnds
