SPECIFICATION FaqSpec
CONSTANTS
  q1 = q1
  q2 = q2
  Questions = {q1, q2}
  Nothing = Nothing
  FaqFaults = {"lose", "refuse", "staff"}
  MaxEvents = 6
  MaxFlight = 3
  MaxRows = 2
CHECK_DEADLOCK FALSE
INVARIANT
  FaqConsistent
PROPERTIES
  PublishedIsListed
