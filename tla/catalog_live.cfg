SPECIFICATION FairSpec
CONSTANTS
  p1 = p1
  p2 = p2
  Requests = {r1, r2}
  Pages = {p1, p2}
  Site <- TimedAndScraped
  NoBook = NoBook
  FirstBoot = FALSE
  MaxRestarts = 1
PROPERTIES
  Collection
  AnswersWithoutScraping
CHECK_DEADLOCK FALSE
