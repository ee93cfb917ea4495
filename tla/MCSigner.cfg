SPECIFICATION FairSpec
CONSTANTS
  Coordinates = {1, 2}
  Capacity = 1
  Threshold = 2
  Signers = {"a", "b"}
  Strangers = {"x"}
  Local = "me"
  NumSigners = 3
  MAX_KNOWN_PEERS = 1
  Worlds <- SwarmWorlds
  Parts = {"runtime", "swarm"}
INVARIANTS
    SignalsKeepOrder
    ComponentsMoveOn
    ConnectionsAreTracked
PROPERTIES
    OnlySignersStay
