------------------------------ MODULE TouchInput ------------------------------
(***************************************************************************)
(* From UIKit's touches to the pipeline: WindowView numbers the fingers    *)
(* that are down, packs those of a call into one packet, and the window    *)
(* makes one event of each finger, with an item for every finger of the    *)
(* packet; the view of the container tells the pipeline.  The content of a *)
(* window may come, go and be replaced while fingers are down.             *)
(***************************************************************************)
EXTENDS Integers, Sequences, FiniteSets, SequencesExt

CONSTANTS
  Touches,        \* UITouch objects
  MaxPointer,     \* bound: the highest number of a finger
  MaxContents     \* bound: contents that a window gets

ASSUME TouchAssumption == IsFiniteSet(Touches) /\ MaxPointer \in Nat /\ MaxContents \in Nat

VARIABLES
  pointerMap,     \* _pointerMap and _deviceMap, which always agree: of each finger down
  pointerId,      \* _pointerId, _deviceId
  content,        \* which uiContent_ the window has, 0 for none
  contents,       \* how many it has had
  down,           \* the pointers that the content's pipeline was told are down
  current         \* currentPointerEvent_, the one of currentEvents_ too: <<>> or <<event>>

touchVars == <<pointerMap, pointerId, content, contents, down, current>>

\* Fingers of which this content has seen the beginning.
SeenFingers == {t \in DOMAIN pointerMap : pointerMap[t].content = content /\ content # 0}

TouchInit ==
  /\ pointerMap = <<>> /\ pointerId = 0
  /\ content = 0 /\ contents = 0
  /\ down = {} /\ current = <<>>

\* A finger's number is one of those that were given; without a content nobody is told.
TouchTypeOK ==
  /\ DOMAIN pointerMap \subseteq Touches
  /\ \A t \in DOMAIN pointerMap :
       pointerMap[t].id \in 0..pointerId - 1 /\ pointerMap[t].content \in 0..contents
  /\ pointerId \in 0..MaxPointer + 1 /\ contents \in 0..MaxContents /\ content \in 0..contents
  /\ down \subseteq 0..MaxPointer
  /\ content = 0 => down = {} /\ current = <<>>

-----------------------------------------------------------------------------
\* mutant: a finger's number is how many are down.
NextIdOfCount(left, begun) == Cardinality(left) + begun

\* Numbers go up until no finger is down, and start again then.
NextId(left, begun) == IF left = {} /\ begun = 0 THEN 0 ELSE pointerId + begun

\* getTouchPointer, getTouchDevice: the touches of a packet are numbered in its order.
PointerOf(touches, phase) ==
  IF phase = "DOWN"
  THEN [t \in ToSet(touches) |->
          [id |-> pointerId + (CHOOSE i \in DOMAIN touches : touches[i] = t) - 1, content |-> content]]
  ELSE [t \in ToSet(touches) |-> pointerMap[t]]

\* mutant: a packet is one event, of its first finger.
EventsOfFirst(ids, phase) ==
  <<[id |-> ids[1], phase |-> phase, items |-> ToSet(ids), pressed |-> phase \in {"DOWN", "MOVE"}]>>

\* ConvertMmiPointerEvent: an event of each finger, each with all the packet's items.
Events(ids, phase) ==
  [i \in DOMAIN ids |-> [id |-> ids[i], phase |-> phase, items |-> ToSet(ids),
                         pressed |-> phase \in {"DOWN", "MOVE"}]]

\* Window::ProcessPointerEvent, UIContentImpl::ProcessPointerEvent,
\* AceViewSG::DispatchTouchEvent and ProcessTouchEvent: with no content nobody is told.
ProcessPointerEvent(ids, phase) ==
  IF content = 0 THEN UNCHANGED <<down, current>>
  ELSE LET events == Events(ids, phase)
       IN  /\ current' = <<Last(events)>>
           /\ down' = (down \ {e.id : e \in {f \in ToSet(events) : f.phase \in {"UP", "CANCEL"}}})
                      \cup {e.id : e \in {f \in ToSet(events) : f.phase = "DOWN"}}

\* dispatchTouches: a call of UIKit, for touches in one phase, in the order of a set.
DispatchTouches(touches, phase) ==
  LET of == PointerOf(touches, phase)
      left == IF phase \in {"UP", "CANCEL"} THEN DOMAIN pointerMap \ ToSet(touches)
              ELSE DOMAIN pointerMap
  IN  /\ pointerId' = NextId(left, IF phase = "DOWN" THEN Len(touches) ELSE 0)
      /\ pointerMap' = [t \in left \cup IF phase = "DOWN" THEN ToSet(touches) ELSE {} |->
                          IF phase = "DOWN" /\ t \in ToSet(touches) THEN of[t] ELSE pointerMap[t]]
      /\ ProcessPointerEvent([i \in DOMAIN touches |-> of[touches[i]].id], phase)
      /\ UNCHANGED <<content, contents>>

\* hitTest, DispatchTouchEventTargetHitTest: a touch of a web page or of a platform view is
\* theirs, if the content's pipeline finds them on top at the point.
HitTest(target) == content # 0 /\ target

TouchesBegan ==
  \E touches \in (SUBSET (Touches \ DOMAIN pointerMap)) \ {{}} : \E order \in SetToSeqs(touches) :
    /\ pointerId + Len(order) - 1 <= MaxPointer
    /\ \E target \in BOOLEAN : ~HitTest(target)
    /\ DispatchTouches(order, "DOWN")

TouchesGoOn ==
  \E touches \in (SUBSET DOMAIN pointerMap) \ {{}} : \E order \in SetToSeqs(touches) :
    \E phase \in {"MOVE", "UP", "CANCEL"} : DispatchTouches(order, phase)

\* SetUIContent; the container of a content that is replaced is another one.
SetContent ==
  /\ contents < MaxContents
  /\ contents' = contents + 1 /\ content' = contents + 1
  /\ down' = {} /\ current' = <<>>
  /\ UNCHANGED <<pointerMap, pointerId>>

\* Destroy, of the window's content.
DestroyContent ==
  /\ content # 0
  /\ content' = 0 /\ down' = {} /\ current' = <<>>
  /\ UNCHANGED <<pointerMap, pointerId, contents>>

TouchNext == TouchesBegan \/ TouchesGoOn \/ SetContent \/ DestroyContent

TouchSpec == TouchInit /\ [][TouchNext]_touchVars

-----------------------------------------------------------------------------
\* GetLastMovingPointerPosition: of whom it answers; whom it is asked of does not matter,
\* for no item of an event has an origin id.
LastMovingPointer == IF current # <<>> /\ current[1].pressed THEN {current[1].id} ELSE {}

\* Fingers that are down have different numbers; the pipeline's fingers are those of which
\* this content saw the beginning, whoever else is lifted, comes or goes on; and whoever is
\* said to have moved last is a finger on the glass.
FingersAgree ==
  /\ TouchTypeOK
  /\ \A s, t \in DOMAIN pointerMap : pointerMap[s].id = pointerMap[t].id => s = t
  /\ down = {pointerMap[t].id : t \in SeenFingers}
  /\ LastMovingPointer \subseteq {pointerMap[t].id : t \in DOMAIN pointerMap}
=============================================================================
