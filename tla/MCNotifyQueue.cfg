SPECIFICATION Spec
CONSTANTS
  Worker = {w1, w2}
  Once = {w2}
  Request = {r1, r2}
  Recipient = {u1, u2}
  Audience <- MCAudience
  r1 = r1
  r2 = r2
  u1 = u1
  u2 = u2
  NoJob = NoJob
  MaxAttempts = 2
  MaxFaults = 2
INVARIANTS
  NoConcurrentSend
  DuplicatesBounded
  SettledWasDelivered
  OnlyCommittedMail
PROPERTIES
  QueueSettles
  ImplementsOutbox
