SPECIFICATION Spec
CONSTANTS
  Turn = {t1, t2}
  Streaming = {t2}
  Escalation = {e1, e2}
  NoTicket = NoTicket
  HistoryLimit = 2
  Size <- MCSize
  TranscriptMax = 4
CHECK_DEADLOCK FALSE
SYMMETRY Symmetry
INVARIANTS
  Idempotent
