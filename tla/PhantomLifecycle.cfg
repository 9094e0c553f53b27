SPECIFICATION FairSpec
CONSTANTS
  Ids = {x, y}
  Projects = {A, B}
  Untagged = Untagged
  Absent = Absent
  Ttl = 1
  MaxTime = 3
  MaxSent = 2
  MaxDismissals = 1
  MaxSwitches = 1
INVARIANTS TypeOK SeenMatchesJournal NothingForeign
PROPERTIES LivesAreAccounted PhantomsLeave
