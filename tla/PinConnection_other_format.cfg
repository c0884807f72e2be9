SPECIFICATION Spec
CONSTANTS
  PeerOffers <- MCPeerOffers
  PeerTastes <- MCPeerTastes
  Types <- MCTypes
PROPERTIES OnlyChosenFormat
