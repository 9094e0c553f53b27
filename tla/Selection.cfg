CONSTANTS
  a = a
  b = b
  Projects = {a, b}
  Home = a
  Loaded <- Load
  MaxNodes = 4
  MaxDeletes = 1
  MaxSwitches = 2
  HopCount = 2
  NoRide = NoRide
  NoArm = NoArm
SPECIFICATION Spec
INVARIANT TypeOK
INVARIANT IndicesInRange
PROPERTY DeletesWhatWasArmed
PROPERTY OnlyMacrosSelectTombstones
