----------------------------- MODULE DragPoints -----------------------------
(***************************************************************************)
(* What InteractionImpl makes of points and of what is said of a drag.     *)
(*                                                                         *)
(* The drag window does not turn with the device, a UI test's points do:   *)
(* a synthetic drag's points are turned into the window's, for the point   *)
(* of the picture at which the finger holds it (its hotspot).  Points are  *)
(* pairs of whole pixels; lround has nothing to round.                     *)
(***************************************************************************)
EXTENDS Integers, Sequences

Minus(p, q) == <<p[1] - q[1], p[2] - q[2]>>
Plus(p, q) == <<p[1] + q[1], p[2] + q[2]>>

\* A dragged thing [pointer, at, shadows]: where it is picked up, and its pictures
\* [size, at], of which the finger is at -at; one that has no pixels has size <<0, 0>>.
HasPixels(shadow) == shadow.size # <<0, 0>>

\* The window's size, unless it has none yet: then the surface's, that was reported.
WindowSize(rect, surface) ==
  <<IF rect[1] > 0 THEN rect[1] ELSE surface[1], IF rect[2] > 0 THEN rect[2] ELSE surface[2]>>

\* UpdateSyntheticDragCompensationStateLocked: what is known when the drag is shown.
Compensation(drag, rect, surface, session, rotation) ==
  LET pictured == drag.shadows # <<>> /\ HasPixels(drag.shadows[1])
  IN  [valid |-> TRUE, session |-> session, pointer |-> drag.pointer,
       window |-> WindowSize(rect, surface),
       shadow |-> IF pictured THEN drag.shadows[1].size ELSE <<0, 0>>,
       hotspot |-> IF pictured THEN Minus(<<0, 0>>, drag.shadows[1].at) ELSE <<-1, -1>>,
       rotation |-> rotation]

\* CompensateSyntheticDragPointWithHotspotLocked.
Turned(c, p) ==
  CASE c.rotation = 90 -> Minus(<<c.window[1] - p[2], p[1]>>, <<c.hotspot[2], c.hotspot[1]>>)
    [] c.rotation = 180 ->
         Minus(Minus(c.window, p), <<c.shadow[1] - 2 * c.hotspot[1], c.shadow[2] - 2 * c.hotspot[2]>>)
    [] c.rotation = 270 -> <<p[2] + c.hotspot[2], c.window[2] - p[1] - c.hotspot[1]>>
    [] OTHER -> p

\* CompensateSyntheticDragPointLocked: a picture that is not held inside is left alone.
Point(c, p, pointer) ==
  IF /\ c.valid /\ c.pointer = pointer
     /\ c.shadow[1] > 0 /\ c.shadow[2] > 0 /\ c.hotspot[1] >= 0 /\ c.hotspot[2] >= 0
  THEN Turned(c, p) ELSE p

\* mutant: the point in the window is the point on the display.
EventOfDisplay(c, event, session) ==
  IF ~(c.valid /\ c.session = session /\ c.pointer = event.pointer) THEN event
  ELSE LET old == event.items[event.pointer]
           new == Point(c, old.display, event.pointer)
       IN  [event EXCEPT !.items[event.pointer] = [display |-> new, window |-> new]]

\* CreateSyntheticCompensatedPointerEvent: of an event [pointer, items], the item of its
\* own pointer, in the window as far as on the display.
Event(c, event, session) ==
  IF ~(c.valid /\ c.session = session /\ c.pointer = event.pointer) THEN event
  ELSE LET old == event.items[event.pointer]
           new == Point(c, old.display, event.pointer)
       IN  [event EXCEPT !.items[event.pointer] =
              [display |-> new, window |-> Plus(old.window, Minus(new, old.display))]]

\* StartSyntheticDragWindow, CreateBaseMsdpDragData: what the manager is told to start.
Start(drag, c) == [at |-> Point(c, drag.at, drag.pointer), shadows |-> drag.shadows]

-----------------------------------------------------------------------------
(***************************************************************************)
(* What is said to and by the drag manager (external).                     *)
(***************************************************************************)
\* The manager's state, ERROR if it is none that is known.
GetDragState(state) ==
  IF state \in {"START", "STOP", "CANCEL", "MOTION_DRAGGING"} THEN state ELSE "ERROR"

\* The mouse, privileges, the coordination of devices and animations are not supported;
\* every other question is the manager's to answer.
Unsupported == {"AddPrivilege", "RegisterCoordinationListener", "UnRegisterCoordinationListener",
                "EnableInternalDropAnimation"}

Asked(call, answer) == IF call \in Unsupported THEN -1 ELSE answer

TranslateDragCursorStyle(style) == IF style \in {"FORBIDDEN", "COPY", "MOVE"} THEN style ELSE "DEFAULT"

TranslateDragResult(result) ==
  IF result \in {"DRAG_FAIL", "DRAG_CANCEL"} THEN result ELSE "DRAG_SUCCESS"

TranslateDragBehavior(behavior) == IF behavior \in {"COPY", "MOVE"} THEN behavior ELSE "UNKNOWN"

\* What the source of a drag is told when it is dropped: there and back.
NotifyMsg(result, behavior) ==
  [result |-> TranslateDragResult(TranslateDragResult(result)),
   behavior |-> TranslateDragBehavior(TranslateDragBehavior(behavior))]

-----------------------------------------------------------------------------
\* What the rotation makes of a way.
Way(rotation, d) ==
  CASE rotation = 90 -> <<-d[2], d[1]>> [] rotation = 180 -> <<-d[1], -d[2]>>
    [] rotation = 270 -> <<d[2], -d[1]>> [] OTHER -> d

\* A picture that is held somewhere inside goes in the turned window the way the finger
\* goes, from where it was started; the other pointers of an event, and the distance
\* between the display's and the window's points, stay as they are.
GoesWithFinger(drag, rect, surface, rotation, event) ==
  LET c == Compensation(drag, rect, surface, 1, rotation)
      held == drag.shadows # <<>> /\ HasPixels(drag.shadows[1])
              /\ drag.shadows[1].at[1] <= 0 /\ drag.shadows[1].at[2] <= 0
      told == Event(c, event, 1)
      p == event.pointer
      way == Minus(event.items[p].display, drag.at)
  IN  /\ p = drag.pointer =>
           Minus(told.items[p].display, Start(drag, c).at) =
             IF held THEN Way(rotation, way) ELSE way
      /\ \A q \in DOMAIN event.items :
           /\ q # drag.pointer => told.items[q] = event.items[q]
           /\ Minus(told.items[q].display, told.items[q].window) =
                Minus(event.items[q].display, event.items[q].window)
=============================================================================
