SPECIFICATION ReadingSpec
CONSTANTS
  b1 = b1
  b2 = b2
  u1 = u1
  u2 = u2
  Books = {b1, b2}
  Collections <- OneStoreOrNone
  Requests <- AllAsks
  Absent = Absent
  BadDate = BadDate
  MaxChanges = 1
  Ids = {1, 2, 3}
  Days = {1, 2}
  SortKeys = {"none", "startDateAsc", "startDateDesc", "endDateAsc", "endDateDesc"}
  PageSizes = {2}
  MaxWrites = 2
INVARIANTS
  TypeOK
  PagesAreComplete
  AdditionsHideNothing
  RemovalsRepeatNothing
  SearchTypeOK
  FilterIsConjunction
  SearchWidensIds
  PopulatesWhatIsReturned
CHECK_DEADLOCK FALSE
