SPECIFICATION Spec
CONSTANTS
  Worker = {w1, w2}
  Writer = {e1, e2}
  Faq = {f1}
  NoFaq = NoFaq
  Poison = {}
  MaxAttempts = 2
  MaxFaults = 2
  MaxRuns = 3
  MaxVersion = 2
  MaxJobs = 2
INVARIANTS
  TypeOK
  StaleIsQueued
  OneEmbedderPerFaq
PROPERTIES
  VectorNeverOlder
  EventuallyFresh
