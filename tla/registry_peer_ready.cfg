SPECIFICATION FairSpec
CHECK_DEADLOCK FALSE
CONSTANTS
  n1 = n1
  p1 = p1
  p2 = p2
  p3 = p3
  json = json
  binary = binary
  None = None
  Names = {n1}
  Plugins = {p1, p2}
  BridgeTypes = {json, binary}
  NativeThreads = {nat1}
  JsThreads = {js1}
  nameOf <- OneName
  typeOf <- PluginTypes
  optionOf <- PluginOptions
  PeerReadyCalls = TRUE
  UnregisterAll = FALSE
PROPERTY CallsReturn
