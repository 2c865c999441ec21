SPECIFICATION OverlaysSpec
CHECK_DEADLOCK FALSE
CONSTANTS
  None = None
  Pointers = {0, 1}
  Fingers = {0}
  Limit = 2
  MaxTouches = 3
  MaxBoth = 3
  MaxTime = 2
  MaxDrags = 2
  MaxWaits = 1
  Popups = {1}
  Menus = {3}
  Dialogs = {4}
  Sheets = {5}
  MaxQueue = 1
INVARIANTS WaitersCalledOnce OneDragAtATime DragsFollow SubwindowAgrees
PROPERTY FollowsOwnTouch
