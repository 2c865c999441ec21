SPECIFICATION Spec
CHECK_DEADLOCK FALSE
CONSTANTS
  Unset = Unset
  DefaultSize = 16
  NoObject = NoObject
INVARIANTS MessagesArrive VoiceOverServed ResourcesApply HtmlAsSeen DragGoes
