SPECIFICATION Spec
CONSTANTS
  page = page
  fab = fab
  t1 = t1
  t2 = t2
  t3 = t3
  Chats = {page}
  Tickets = {t1, t2, t3}
  NoTicket = NoTicket
  Mine = {t1}
  Faults = {"refuse", "lose", "offline", "leave"}
  MaxMoves = 6
  MaxTokens = 1
CHECK_DEADLOCK FALSE
INVARIANTS
  Consistent
  FiledWhenConfirmed
PROPERTIES
  ComesToRest
