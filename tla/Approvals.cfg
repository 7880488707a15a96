SPECIFICATION ApprovalsSpec
CONSTANTS
  q1 = q1
  q2 = q2
  NoRequest = NoRequest
  Request = {q1}
  RetryOf <- OnlyOriginal
  Tries = 2
  Resolver = {o1, o2}
  o1 = o1
  o2 = o2
  Events = {"timeout", "forgelink", "storeerror", "crash"}
  Regimes = {"failures", "calm", "linked"}
INVARIANTS OnePerRequest ToldHeldIsHeld OneDecision AuditedUnderItsTask
PROPERTY DecisionArrives
\* Every request was answered and nobody decides.
CHECK_DEADLOCK FALSE
