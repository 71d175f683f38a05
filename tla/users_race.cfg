SPECIFICATION Spec
CONSTANTS
  Requests = {r1, r2, r3}
  UserIds = {k1, k2}
  FirstBoot = TRUE
  MaxRestarts = 1
SYMMETRY Symmetric
INVARIANTS
  OneUserPerUserId
  DeletedStaysDeleted
  AnswersWereTrue
CHECK_DEADLOCK FALSE
