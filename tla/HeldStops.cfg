SPECIFICATION ServicesSpec
CONSTANTS
  Components = {"intents"}
  w1 = w1  w2 = w2  w3 = w3  k1 = k1  k2 = k2  r1 = r1  r2 = r2
  \* Settings
  Writer = {w1, w2, w3}
  Key = {k1, k2}
  Value = {on}
  on = on
  Unset = unset
  MaxCalls = 1
  \* TaskStreams
  Post = {h1, h2}
  h1 = h1  h2 = h2
  NoPost = NoPost
  Gone = Gone
  Tries = 2
  Limit = 1
  Scenarios <- AllScenarios
  \* CostBudget
  Asker = {a1}
  a1 = a1
  Reporter = {r1, r2}
  CostTask = {1, 2}
  Price = {1, 2}
  DailyCap = 2
  WeeklyCap = 3
  NoCap = 99
  CostDay <- TurnOfTheWeek
  MaxReports = 2
  \* PolicyGate
  Inputs <- AllInputs
  Paths <- FilesTouched
  None = None
  \* IntentGate
  Handler = {1, 2, 3}
  NoHandler = 0
  Scripts <- AllScripts
  MaxTries = 2
  Keep = 2
  \* CivilDates
  CivilDays <- TurnsOfTheYear
INVARIANT HoldStopsTask
CHECK_DEADLOCK FALSE
