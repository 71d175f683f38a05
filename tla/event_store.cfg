SPECIFICATION Spec
CONSTANTS
  d1 = d1
  Old = {d1}
  New = {n1}
  Runs = {w1, w2}
  StartDate <- FromOne
  EndDate <- ToThree
  Bodies = {"Approved", "unknown", "absent"}
  MaxTime = 4
INVARIANTS
  StatusAccountedFor
PROPERTIES
  GoesOnUnlessOverlapped
  DeletedComesBackByCreateOnly
CHECK_DEADLOCK FALSE
