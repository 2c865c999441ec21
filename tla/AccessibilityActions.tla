------------------------ MODULE AccessibilityActions ------------------------
(***************************************************************************)
(* What AccessibilityManagerImpl tells VoiceOver of a node (its state and  *)
(* the actions it offers), and what it does when an action is asked for.   *)
(*                                                                         *)
(* A node is a record of what the manager reads: its focus hub ("none",    *)
(* "enabled", "disabled"), what the author of the page set by hand (or     *)
(* Unset), its gestures, and the actions its component supports.           *)
(***************************************************************************)
EXTENDS Integers, FiniteSets

CONSTANTS
  Unset,
  ScrollTypes, ScrollDefault   \* AccessibilityScrollType, and SCROLL_DEFAULT of it

FocusActions == {"ACCESSIBILITY_FOCUS", "CLEAR_ACCESSIBILITY_FOCUS"}

\* Those the manager has a name for, and INVALID.
Known == {"CLICK", "LONG_CLICK", "SCROLL_FORWARD", "SCROLL_BACKWARD", "FOCUS", "CLEAR_FOCUS",
          "NEXT_TEXT", "PREVIOUS_TEXT", "SET_TEXT", "COPY", "PASTE", "CUT", "SELECT",
          "CLEAR_SELECTION", "SET_SELECTION", "SET_CURSOR_POSITION"} \cup FocusActions

ConvertAceAction(a) == IF a \in Known THEN a ELSE "INVALID"

\* What is carried out by the component: all but the manager's own.
Performed == Known \ (FocusActions \cup {"FOCUS", "CLEAR_FOCUS"})

HubEnabled(node) == node.hub # "disabled"

Preferred(user, own) == IF user # Unset THEN user ELSE own

Element(node) ==
  [enabled |-> Preferred(IF node.userDisabled = Unset THEN Unset ELSE ~node.userDisabled,
                         HubEnabled(node)),
   focusable |-> node.hub = "enabled" /\ node.focusable,
   focused |-> node.hub # "none" /\ node.focused,
   accessibilityFocus |-> node.accessibilityFocus,
   checked |-> Preferred(node.userChecked, node.checked),
   content |-> Preferred(node.userText, IF node.text # "" THEN node.text ELSE node.groupText)]

UpdateSupportAction(node, e) ==
  (IF ~e.focusable THEN {} ELSE IF e.focused THEN {"CLEAR_FOCUS"} ELSE {"FOCUS"})
  \cup (node.gestures \cap {"CLICK", "LONG_CLICK"})

\* mutant: a node that is not enabled offers all the same.
ActionsOfAll(node) ==
  LET e == Element(node) IN
  (IF e.accessibilityFocus THEN {"CLEAR_ACCESSIBILITY_FOCUS"} ELSE {"ACCESSIBILITY_FOCUS"})
  \cup UpdateSupportAction(node, e) \cup {ConvertAceAction(a) : a \in node.support}

Actions(node) ==
  LET e == Element(node) IN
  (IF e.accessibilityFocus THEN {"CLEAR_ACCESSIBILITY_FOCUS"} ELSE {"ACCESSIBILITY_FOCUS"})
  \cup (IF e.enabled THEN UpdateSupportAction(node, e) \cup {ConvertAceAction(a) : a \in node.support}
        ELSE {})

-----------------------------------------------------------------------------
\* Who carries an action out: the focus hub, the gestures, the manager, or the component
\* itself, which has what it says it supports.
ConvertActionTypeToBoolen(node, a) ==
  CASE a \in {"FOCUS", "CLEAR_FOCUS"} -> node.hub # "none"
    [] a \in {"CLICK", "LONG_CLICK"} -> a \in node.gestures
    [] OTHER -> a \in FocusActions

ActAccessibilityAction(node, a) == a \in Performed /\ a \in node.support

\* A disabled node takes the screen reader's focus only.
ExecuteActionNG(node, a) ==
  /\ HubEnabled(node) \/ a \in FocusActions
  /\ ConvertActionTypeToBoolen(node, a) \/ ActAccessibilityAction(node, a)

\* The number an action is given: -1 if there is none, and a scroll's in its range.
Argument(a, n) ==
  IF a \in {"SCROLL_FORWARD", "SCROLL_BACKWARD"} /\ n \notin ScrollTypes THEN ScrollDefault ELSE n

-----------------------------------------------------------------------------
\* What the element offers is carried out when VoiceOver asks for it: offered by the
\* attributes, accepted by the focus hub and the gestures.  Not claimed of an action
\* the table has no name for, nor of a node whose author calls it enabled by hand
\* though its hub is not: such a node offers what it will refuse.
OfferedIsDone(node) ==
  (node.userDisabled = FALSE => HubEnabled(node))
  => \A a \in Actions(node) \ {"INVALID"} : ExecuteActionNG(node, a)
=============================================================================
