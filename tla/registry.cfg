SPECIFICATION FairSpec
CONSTANTS
  n1 = n1
  p1 = p1
  p2 = p2
  p3 = p3
  json = json
  binary = binary
  None = None
  Names = {n1}
  Plugins = {p1, p2}
  BridgeTypes = {json, binary}
  NativeThreads = {nat1, nat2}
  JsThreads = {js1}
  nameOf <- OneName
  typeOf <- PluginTypes
  optionOf <- PluginOptions
  PeerReadyCalls = FALSE
  UnregisterAll = TRUE
INVARIANTS NoLostPeer AvailableHadPeer
PROPERTY EndsMeet
