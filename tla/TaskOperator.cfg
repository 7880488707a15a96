SPECIFICATION Spec
CONSTANTS
  NTasks = 2
  r1 = r1
  r2 = r2
  NoRunner = NoRunner
  NoCall = NoCall
  NoTask = NoTask
  Runner = {r1, r2}
  Call = {c1, c2}
  MaxConcurrent <- Cap1
  Eligible <- AllEligible
  LegacyRunner = {r2}
  ClaimWindow = 2
  LegacyWindow = 2
  Unresolvable <- SecondTask
  Events = {"cancel", "hold", "drain", "deregister"}
INVARIANTS ExclusiveExecution CancelledNeverRan
PROPERTIES ImplementsOwnership
