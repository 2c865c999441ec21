SPECIFICATION ContentSpec
CHECK_DEADLOCK FALSE
CONSTANTS
  None = None
  Contents = {c1, c2}
  Subs = {p1}
  Sizes = {small}
  Areas = {notch, bar}
  Configs = {dark, light}
  Following = {light}
  MaxTasks = 4
  MaxCalls = 4
  Windows = {"main", "low", "high"}
  mainWindow = "main"
  zOrder <- ZOrder
  Filled = {"main", "high"}
  Reloading = {"main"}
  Keys = {"a", "escape"}
  PerfKeys = {"escape"}
  MaxGeneration = 5
  MaxCount = 2
  MaxPosted = 2
  Touches = {"t1", "t2", "t3"}
  MaxPointer = 3
  MaxContents = 2
  Nobody = Nobody
  Inputs = {"name", "mail", "password"}
  Secure = {"password"}
  MaxConnections = 2
  MaxTexts = 2
  MaxTyped = 2
INVARIANTS AceInv NoLateCall PipelineAgrees ContentsKnow FingersAgree EditingAgrees
PROPERTY RepeatsOfHeldKey
