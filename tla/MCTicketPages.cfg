SPECIFICATION Spec
CONSTANTS
  t1 = t1
  t2 = t2
  t3 = t3
  me = me
  student = student
  Tickets = {t1, t2, t3}
  NoTicket = NoTicket
  Users = {me, student}
  Me = me
  NoUser = NoUser
  MyDept = "it"
  Owner <- MCOwner
  Statuses = {"open", "resolved", "closed"}
  Depts = {"it", "hr"}
  Keep = Keep
  Comments = {"c1"}
  Files = {"f1"}
  NoFile = NoFile
  DefaultSize = 2
  Sessions <- MCSessions
  MaxCalls = 4
  HomeSize = 2
  AgentHomeSize = 3
CHECK_DEADLOCK FALSE
INVARIANTS
  Consistent
  Settled
PROPERTIES
  ThreadStays
  BulkHonest
  ComesToRest
