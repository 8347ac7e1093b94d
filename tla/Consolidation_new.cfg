SPECIFICATION Spec
CONSTANTS
  Objects = {o1, o2, o3, o4}
  Cap = 4
  Suffix = 2
  Overlaps = {"new"}
  MaxMessages = 8
  MaxNews = 1
  MaxCrashes = 0
  None = None
INVARIANTS
  OffsetInRange
CHECK_DEADLOCK FALSE
