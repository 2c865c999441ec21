SPECIFICATION ServicesSpec
CHECK_DEADLOCK FALSE
CONSTANTS
  NoManager = NoManager
  Missing = Missing
  NoColor = NoColor
  Downloads = {"a", "b"}
  Nothing = Nothing
  MaxSteps = 2
  MaxQueue = 2
  Questions = {"page", "frame", "image"}
  Kinds <- MCKinds
  Host <- MCHost
  Popups = {"p", "q", "r"}
  Children = {"c"}
  NoChild = NoChild
  MaxLoads = 1
  MaxIndexes = 3
  MaxOwed = 2
  Data = {"x", "y"}
  MaxRecords = 2
  MaxGroups = 2
  Sources = {"good", "bad"}
  BadSources = {"bad"}
  NoSource = NoSource
  MaxItems = 2
INVARIANTS AdaptersReleased TicksAsAsked QuestionsAgree DownloadsAgree GotOnce VideoAgrees
PROPERTY TakesEffect
