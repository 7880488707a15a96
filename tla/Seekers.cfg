SPECIFICATION SeekersSpec
CONSTANTS
  Components = {"nodes", "discovery"}
  \* NodeDirectory
  Peer = {p1, p2}
  Address = {"a", "b"}
  Nowhere = "nowhere"
  Expiry = 1
  MaxSkew = 1
  MaxTroubles = 2
  \* HubDiscovery
  BeaconHub = {"h1", "h2"}
  Site = {"a", "b"}
  Offline = "offline"
  HashOf <- OwnAndForeign
  MaxMoves = 2
 
PROPERTIES FoundAgain 
CHECK_DEADLOCK FALSE
