SPECIFICATION FairSpec
CHECK_DEADLOCK FALSE
CONSTANTS
  n1 = n1
  json = json
  binary = binary
  serialPlugin = serialPlugin
  plainPlugin = plainPlugin
  concurrentPlugin = concurrentPlugin
  binaryPlugin = binaryPlugin
  None = None
  Json = json
  Names = {n1}
  BridgeTypes = {json, binary}
  Plugins = {serialPlugin, binaryPlugin}
  nameOf <- OneName
  typeOf <- PluginTypes
  optionOf <- PluginOptions
  Whats = {"call", "message"}
  MaxJs = 1
  MaxNative = 1
  MaxChanges = 4
  ArrayResults = TRUE
  deaf <- PluginDeaf
INVARIANT Inv
PROPERTIES ArkUICallsKept PluginCallsKept CallsSettled
