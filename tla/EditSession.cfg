CONSTANTS
  Projects = {a, b}
  Home = a
  Loaded = 2
  MaxNodes = 3
  MaxLinks = 2
  MaxSwitches = 2
  NoWidget = NoWidget
  NoEdit = NoEdit
SPECIFICATION Spec
INVARIANT TypeOK
INVARIANT UnsavedIsKnown
PROPERTY JoinsTheUnjoined
