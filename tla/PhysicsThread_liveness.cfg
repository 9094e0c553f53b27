SPECIFICATION FairSpec
CONSTANTS
  Places = {p}
  NoPin = NoPin
  InitNodes = 1
  InitEdges = 1
  LoadableEdges <- Orphans
  MaxNodes = 2
  MaxEdges = 2
  FreezeAfter = 1
  Self = 1
  SelfHome = p
PROPERTIES EnqueuedIsShown PinTakesHold TombstoneRetires StopReturns HeldLayoutFreezes
