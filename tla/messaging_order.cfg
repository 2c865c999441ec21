SPECIFICATION Spec
CHECK_DEADLOCK FALSE
CONSTANTS
  n1 = n1
  json = json
  binary = binary
  serialPlugin = serialPlugin
  plainPlugin = plainPlugin
  concurrentPlugin = concurrentPlugin
  binaryPlugin = binaryPlugin
  None = None
  Json = json
  Names = {n1}
  BridgeTypes = {json}
  Plugins = {serialPlugin, plainPlugin, concurrentPlugin}
  nameOf <- OneName
  typeOf <- PluginTypes
  optionOf <- PluginOptions
  Whats = {"call"}
  MaxJs = 2
  MaxNative = 2
  MaxChanges = 3
  ArrayResults = FALSE
  deaf <- NothingDeaf
INVARIANTS SerialOrder DispatchOrder
