SPECIFICATION FairSpec
CONSTANTS
  Objects = {o1, o2, o3, o4}
  Cap = 4
  Suffix = 2
  Overlaps = {}
  MaxMessages = 14
  MaxNews = 1
  MaxCrashes = 1
  None = None
INVARIANTS
  NothingLost
  ArchivedOnce
PROPERTIES
  CompactionSettles
CHECK_DEADLOCK FALSE
