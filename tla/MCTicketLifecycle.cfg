SPECIFICATION Spec
CONSTANTS
  Request = {q1, q2, q3}
  Student = s
  Staff = {a, b}
  Nobody = Nobody
  Unset = Unset
  Priority = {"MEDIUM", "HIGH"}
  MaxTime = 1
CHECK_DEADLOCK FALSE
SYMMETRY Symmetry
INVARIANTS
  LogEndsAtStatus
  ChainUnlessRaced
  BreachUnlessRaced
  MovesAnnounced
PROPERTIES
  ReplyHeardUnlessRaced
