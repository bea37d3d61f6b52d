SPECIFICATION Spec
CONSTANTS
  n1 = n1
  n2 = n2
  Notes = {n1, n2}
  Faults = {"lose", "refuse", "device"}
  MaxMoves = 4
  MaxFlight = 3
CHECK_DEADLOCK FALSE
INVARIANT
  Consistent
PROPERTIES
  ReadStaysRead
  SelectionsOpen
