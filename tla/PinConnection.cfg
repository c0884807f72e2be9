SPECIFICATION FairSpec
CONSTANTS
  PeerOffers <- MCPeerOffers
  PeerTastes <- MCPeerTastes
  Types <- MCTypes
INVARIANTS TypeOK NothingHeld ConnectedAlike
PROPERTIES FailsForAReason AgreedType CallsReturn
