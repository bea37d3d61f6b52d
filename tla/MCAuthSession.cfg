SPECIFICATION Spec
CONSTANTS
  a = a
  b = b
  ada = ada
  bob = bob
  new = new
  Tabs = {a, b}
  Users = {ada, new}
  NoUser = NoUser
  Members = {ada}
  Faults = {"lose", "refuse", "expire", "revoke", "promote"}
  MaxMoves = 4
  MaxTokens = 2
CHECK_DEADLOCK FALSE
INVARIANT
  Consistent
PROPERTIES
  EndedStaysEnded
  BlankEnds
