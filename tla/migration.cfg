SPECIFICATION FairSpec
CONSTANTS
  d1 = d1
  d2 = d2
  p1 = p1
  u1 = u1
  Runs = {w1, w2}
  Docs = {d1, d2}
  Cursor <- BrokenFirst
  Broken = {d1}
  Pages = {p1}
  UserIds = {u1}
  Page <- OneBook
  People <- Twice
  Timed = {p1}
  Api = Api
  NoBook = NoBook
  MaxDeletes = 1
  MaxRestarts = 1
INVARIANTS
  EventsComplete
  NoCopies
  MigratesWhatItCan
PROPERTIES
  Transfer
  RunEnds
CHECK_DEADLOCK FALSE
