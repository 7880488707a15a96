SPECIFICATION RecordsSpec
CONSTANTS
  Components = {"audit", "access", "tokens", "routes", "directory", "labels", "secrets"}
  q1 = q1
  q2 = q2
  k1 = k1
  k2 = k2
  dispatch1 = dispatch1
  dispatch2 = dispatch2
  Writer = {q1, q2}
  Event = {dispatch1, dispatch2}
  TaskOf <- TwoTasks
  MaxLog = 3
  MaxDay = 2
  Credential = {"t"}
  Session = {"s"}
  Visit = {q1, q2}
  Token = {"t1", "t2", "t3"}
  Desk = {q1, q2}
  SplitSize = 2
  Dispatcher = {"p"}
  SigningKey = {k1, k2}
  Host <- TwoSpellings
  NoHost = NoHost
  Clerk = {q1, q2}
  Alias = {"x"}
  NoAlias = "none"
  Agent <- OneAgent
  SecretName = {k1, k2}
  Asker = {q1, q2}
  MaxValue = 3
  MaxKey = 2
SYMMETRY Interchangeable
INVARIANTS
  Linear TakenAwayStaysOut AuditedOrUndone TableKeepsItsWord
  WrittenByItsKey OnlyRetiredShown SealedOpens
\* The log is full.
CHECK_DEADLOCK FALSE
