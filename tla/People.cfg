SPECIFICATION PeopleSpec
CONSTANTS
  Components = {"accounts", "sessions"}
  \* HumanAccounts
  a1 = a1  a2 = a2  a3 = a3
  Account = {a1, a2, a3}
  n1 = n1  n2 = n2
  Name = {n1, n2}
  Gone = Gone
  Role = {"admin", "operator"}
  c1 = c1  c2 = c2  c3 = c3
  Code = {c1, c2, c3}
  s1 = s1  s2 = s2
  Session = {s1, s2}
  o1 = o1  o2 = o2
  Manager = {o1, o2}
  Nobody = Nobody
  Menus <- AllMenus
  MaxRequests = 3
  Existing = {a1, a2}
  \* HumanSessions
  p1 = p1
  Person = {p1}
  SignIn = {s1, s2}
  k1 = k1  k2 = k2
  Passkey = {k1, k2}
  h1 = h1  h2 = h2
  Challenge = {h1, h2}
  Handler = {o1, o2}
  NoOne = NoOne
  Threshold = 2
  ThrottleWindow = 1
  IdleTimeout = 2
  ChallengeTTL = 1
  Freshness = 0
  MaxSecret = 3
  MaxCount = 1
  SessionMenus <- AllSessionMenus
SYMMETRY Interchangeable
INVARIANTS
  OneFounder RefreshOnce ChallengeOnce ElevatedByItsOwnCeremony ThrottleBounded
PROPERTIES AdminsLostOnlyByRecovery
CHECK_DEADLOCK FALSE
