SPECIFICATION LimitSpec
CONSTANTS
  Request = {r1, r2, r3, r4}
  Process = {p1, p2}
  Redis = Redis
  MaxRequests = 1
  Window = 2
  MaxTime = 3
CHECK_DEADLOCK FALSE
SYMMETRY Symmetry
INVARIANTS
  WindowUnlessOvertaken
  RejectedWhenFull
  AllowancesAddUp
