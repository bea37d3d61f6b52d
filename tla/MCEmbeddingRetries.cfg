SPECIFICATION Spec
CONSTANTS
  Worker = {w1}
  Writer = {e1}
  Faq = {f1}
  NoFaq = NoFaq
  Poison = {f1}
  MaxAttempts = 2
  MaxFaults = 1
  MaxRuns = 2
  MaxVersion = 2
  MaxJobs = 2
PROPERTIES
  RetriesExhausted
