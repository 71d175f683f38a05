SPECIFICATION Spec
CONSTANTS
  p1 = p1
  p2 = p2
  Requests = {r1, r2}
  Pages = {p1, p2}
  Site <- ScrapedAndUnsupported
  NoBook = NoBook
  FirstBoot = FALSE
  MaxRestarts = 0
SYMMETRY RequestSymmetry
INVARIANTS
  EventNotRefusedForItsBook
CHECK_DEADLOCK FALSE
