SPECIFICATION FairSpec
CONSTANTS
  None = None
  n1 = n1
  n2 = n2
  b1 = b1
  good = good
  next = next
  Names = {n1, n2}
  Contents = {good, next}
  Ids = {n1, n2, b1}
  Declares <- MCDeclares
  Bundled <- MCBundled
  Bad = {}
  Cut = {good}
  Declaring = {next}
  Flagged = {next}
  Drafts = {d1}
  CliAmid = TRUE
  MaxEdits = 1
  MaxFaults = 1
INVARIANTS
  ApprovedOnly
  NoLeftovers
PROPERTIES
  ComposingSettles
CHECK_DEADLOCK FALSE
