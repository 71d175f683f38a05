SPECIFICATION FairSpec
CONSTANTS
  OL_REQUEST_TIMEOUT = 3
  OL_RETRY_DELAY = 1
  OL_MAX_ATTEMPTS = 3
  MaxAuthors = 2
INVARIANTS
  TypeOK
  BestEffort
  AnswersInTime
  BookIsWhole
PROPERTIES
  Settles
CHECK_DEADLOCK FALSE
