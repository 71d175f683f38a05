SPECIFICATION SearchSpec
CONSTANTS
  b1 = b1
  b2 = b2
  u1 = u1
  u2 = u2
  Books = {b1, b2}
  Collections <- MigratedStore
  Requests <- DateAsks
  Absent = Absent
  BadDate = BadDate
  MaxChanges = 1
INVARIANTS
  FilterFindsAll
CHECK_DEADLOCK FALSE
