SPECIFICATION Spec
CONSTANTS
  NTasks = 3
  r1 = r1
  r2 = r2
  NoRunner = NoRunner
  NoCall = NoCall
  NoTask = NoTask
  Runner = {r1}
  Call = {c1, c2}
  MaxConcurrent <- Cap1
  Eligible <- AllEligible
  LegacyRunner = {}
  ClaimWindow = 3
  LegacyWindow = 2
  Unresolvable <- None
  Events = {"timeout", "loss"}
INVARIANT CapOvershootBounded
