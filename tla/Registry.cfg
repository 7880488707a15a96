CONSTANTS
  p1 = p1  p2 = p2
  Process = {p1, p2}
  r1 = r1  r2 = r2
  Principal = {r1, r2}
  k1 = k1  k2 = k2  h1 = h1  loom = loom
  s1 = s1  s2 = s2  toolA = toolA  toolB = toolB
  w1 = w1  w2 = w2
  Worker = {w1, w2}
  Nonce = {1, 2}
  Instant = {0, 1}
  Skew = 0
  MaxClock = 1
  Lead = 0
  Stale = 0
  MaxTries = 2
  MaxRequests = 2
  MaxOrders = 1
  Missing = Missing
  Identities <- TwoIdentities
  Manifests <- TwoManifests

SPECIFICATION RegistrySpec
INVARIANTS IndexIsOneManifest
PROPERTIES DrainHeld SignedSpec
CHECK_DEADLOCK FALSE
SYMMETRY Workers
