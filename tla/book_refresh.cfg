SPECIFICATION FairSpec
CONSTANTS
  b1 = b1
  b2 = b2
  b3 = b3
  Runs = {w1, w2}
  Books = {b1, b2, b3}
  Order <- InOrder
  SiteOf <- OneOfEach
  MaxEdits = 1
  MaxRestarts = 1
INVARIANTS
  RunsRefresh
PROPERTIES
  OnlyOverlapsLoseUpdates
  RunEndsOrWaits
CHECK_DEADLOCK FALSE
