SPECIFICATION Spec
CONSTANTS
  NTasks = 1
  r1 = r1
  r2 = r2
  NoRunner = NoRunner
  NoCall = NoCall
  NoTask = NoTask
  Runner = {r1, r2}
  Call = {c1, c2}
  MaxConcurrent <- Cap1
  Eligible <- AllEligible
  LegacyRunner = {}
  ClaimWindow = 2
  LegacyWindow = 2
  Unresolvable <- None
  Events = {"refuse", "timeout", "duplicate", "storeerror", "hubcrash", "runnercrash", "cancel", "stray"}
SYMMETRY Interchangeable
INVARIANTS RecordedAsEnded
