SPECIFICATION Spec
CONSTANTS
  p1 = p1
  p2 = p2
  Requests = {r1, r2, r3}
  Pages = {p1, p2}
  Site <- ScrapedAndUnsupported
  NoBook = NoBook
  FirstBoot = TRUE
  MaxRestarts = 1
SYMMETRY RequestSymmetry
INVARIANTS
  OneBookPerPage
  EventHasItsBook
  AnswersAreBacked
CHECK_DEADLOCK FALSE
