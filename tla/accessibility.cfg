SPECIFICATION Spec
CONSTANTS
  Nodes = {n1, n2}
  Root = Root
  Popup = Popup
  None = None
  MaxTasks = 1
  MaxSwitches = 3
INVARIANTS EnabledAgrees ViewAgrees
CHECK_DEADLOCK FALSE
SYMMETRY MCSymmetry
