--------------------------- MODULE DragInteraction ---------------------------
(***************************************************************************)
(* Drags: InteractionImpl between the engine, the drag window and the drag *)
(* manager (InteractionManager, external), under touches of fingers and    *)
(* synthetic touches of a UI test.  A synthetic touch has a session, which *)
(* the events of it are matched with by pointer and time, so that a drag   *)
(* follows, corrected for the rotation of its window, only the touch it    *)
(* began in.                                                               *)
(*                                                                         *)
(* All is done by the main thread: the dispatch of an event is Touch or    *)
(* SyntheticTouch, up to the engine's callback; then what the engine does  *)
(* in the callback, while handling is set; then Return.                    *)
(***************************************************************************)
EXTENDS DragPoints, SequencesExt, FiniteSetsExt

CONSTANTS
  Pointers, Fingers, None,                 \* Fingers: the pointers fingers touch with
  Limit,                                   \* SYNTHETIC_EVENT_SESSION_CACHE_LIMIT
  MaxTouches, MaxDrags, MaxBoth,           \* bounds: each, and the two together
  MaxTime, MaxWaits                        \* bounds

ASSUME DragAssumption ==
  /\ Fingers \subseteq Pointers /\ None \notin Pointers
  /\ None \notin [kind : {"finger", "synthetic"}, pointers : SUBSET Pointers, active : BOOLEAN]
  /\ {Limit, MaxTouches, MaxDrags, MaxBoth, MaxTime, MaxWaits} \subseteq Nat /\ Limit > 0

VARIABLES
  time,         \* of the last event
  touch,        \* [Pointers -> [kind, no]]: who touches, and in which synthetic touch
  touches,      \* touches so far
  handling,     \* the event being handled: [kind, pointers, active, no], or None
  point,        \* syntheticDragPointerId and syntheticDragActive: [pointer, active]
  sessions,     \* sessions given out: syntheticDragSessionGenerator - 1
  sessionOf,    \* (ghost) the touch of each session
  activeSession,
  bindings,     \* syntheticPointerSessionBindings: 0 is none
  pending,      \* pendingSyntheticDragContexts, in their order: [pointer, time, session]
  dispatched,   \* syntheticPointerDispatchMap, in its order
  compensation, \* [valid, session, pointer]
  listener,     \* surfaceNodeListener_: the drag it is for, 0 is none
  drags,        \* the drags asked for: [pointer, synthetic, session, touch, window]
  windowCreated,
  engine,       \* is the engine dragging?
  manager,      \* the drag manager: [state, drag, window]: window is the drag whose
                \* window it was given a callback to destroy
  moved,        \* (ghost) what the manager is told to follow in this event: [no, corrected], or None
  hasty,        \* (ghost) was a drag stopped before it was shown, or asked for before the
                \* last one's window was gone?
  overlapped,   \* (ghost) were two synthetic touches under way at once?
  current,      \* currentPointerEvent_: [pointers, pressed]
  waits,        \* stopDragCallbackMap_: [Pointers -> Seq of callbacks]
  calls         \* (ghost) how often each stop-drag callback was called

dragVars == <<listener, drags, windowCreated, engine, manager, hasty>>
sessionVars == <<point, sessions, sessionOf, activeSession, bindings, pending, dispatched, compensation>>
eventVars == <<time, touch, touches, overlapped>>
stopVars == <<current, waits, calls>>
vars == <<eventVars, handling, sessionVars, dragVars, moved, stopVars>>

NoTouch == [kind |-> "none", no |-> 0]
NoCompensation == [valid |-> FALSE, session |-> 0, pointer |-> None]
Key == [pointer : Pointers, time : 1 .. MaxTime, session : 1 .. MaxTouches + 1]

TypeOK ==
  /\ touch \in [Pointers -> [kind : {"none", "finger", "synthetic"}, no : 0 .. MaxTouches]]
  /\ point \in [pointer : Pointers \cup {None}, active : BOOLEAN]
  /\ bindings \in [Pointers -> 0 .. sessions]
  /\ pending \in BoundedSeq(Key, Limit) /\ dispatched \in BoundedSeq(Key, Limit)
  /\ activeSession \in 0 .. sessions
  /\ manager \in [state : {"none", "START", "STOP"}, drag : 0 .. Len(drags), window : 0 .. Len(drags)]
  /\ listener \in 0 .. Len(drags)
  \* A key is once in each cache.
  /\ \A q \in {pending, dispatched} : \A i, j \in DOMAIN q :
       q[i].pointer = q[j].pointer /\ q[i].time = q[j].time => i = j

Init ==
  /\ time = 1 /\ touch = [p \in Pointers |-> NoTouch] /\ touches = 0 /\ handling = None
  /\ point = [pointer |-> None, active |-> FALSE]
  /\ sessions = 0 /\ sessionOf = <<>> /\ activeSession = 0
  /\ bindings = [p \in Pointers |-> 0] /\ pending = <<>> /\ dispatched = <<>>
  /\ compensation = NoCompensation
  /\ listener = 0 /\ drags = <<>> /\ windowCreated = FALSE /\ engine = FALSE
  /\ manager = [state |-> "none", drag |-> 0, window |-> 0]
  /\ moved = None /\ hasty = FALSE /\ overlapped = FALSE
  /\ current = [pointers |-> {}, pressed |-> FALSE]
  /\ waits = [p \in Pointers |-> <<>>] /\ calls = <<>>

-----------------------------------------------------------------------------
(* The caches of sessions. *)

At(q, p, t) == {i \in DOMAIN q : q[i].pointer = p /\ q[i].time = t}

\* mutant: a key that is there is put in again.
RegisterAgain(q, p, t, s) ==
  IF s = 0 THEN q
  ELSE LET r == Append(q, [pointer |-> p, time |-> t, session |-> s])
       IN  SubSeq(r, Max({1, Len(r) - Limit + 1}), Len(r))

\* A key keeps its place; beyond the limit the oldest goes.
Register(q, p, t, s) ==
  IF s = 0 THEN q
  ELSE IF At(q, p, t) # {} THEN [q EXCEPT ![Min(At(q, p, t))].session = s]
  ELSE LET r == Append(q, [pointer |-> p, time |-> t, session |-> s])
       IN  SubSeq(r, Max({1, Len(r) - Limit + 1}), Len(r))

Latest(q, p) ==
  LET is == {i \in DOMAIN q : q[i].pointer = p} IN IF is = {} THEN 0 ELSE q[Max(is)].session

ConsumeLatest(q, p) ==
  LET is == {i \in DOMAIN q : q[i].pointer = p} IN IF is = {} THEN q ELSE RemoveAt(q, Max(is))

\* q without the keys of p: those that stay keep their order.  The one sequence of that
\* kind is described, not computed, so that the theorem provers can reason about it.
Without(q, p) ==
  LET kept == {i \in DOMAIN q : q[i].pointer # p} IN
  {r \in SeqOf(ToSet(q), Limit) :
     \E f \in [DOMAIN r -> kept] :
       /\ Range(f) = kept /\ \A i, j \in DOMAIN r : i < j => f[i] < f[j]
       /\ \A i \in DOMAIN r : r[i] = q[f[i]]}

ResolveSessionId(q, d, b, p, t) ==
  CASE At(d, p, t) # {} -> d[Min(At(d, p, t))].session
    [] At(d, p, t) = {} /\ b[p] # 0 -> b[p]
    [] OTHER -> Latest(q, p)

\* MatchAndConsumeSyntheticDragSessionId: the session a drag of p begins in.
SessionOfDrag(p) == IF Latest(pending, p) # 0 THEN Latest(pending, p) ELSE bindings[p]

-----------------------------------------------------------------------------
\* mutant: who was called is not forgotten.
SetCurPointerEventAgain(ps, pressed) ==
  /\ current' = [pointers |-> ps, pressed |-> pressed]
  /\ LET done == {p \in Pointers : waits[p] # <<>> /\ (p \notin ps \/ ~pressed)} IN
     /\ waits' = waits
     /\ calls' = [c \in DOMAIN calls |->
                    calls[c] + Cardinality({p \in done : c \in ToSet(waits[p])})]

\* The container is given an event of ps: whoever waits for a pointer that is not
\* pressed in it, or not in it at all, is called, and forgotten.
SetCurPointerEvent(ps, pressed) ==
  /\ current' = [pointers |-> ps, pressed |-> pressed]
  /\ LET done == {p \in Pointers : waits[p] # <<>> /\ (p \notin ps \/ ~pressed)} IN
     /\ waits' = [p \in Pointers |-> IF p \in done THEN <<>> ELSE waits[p]]
     /\ calls' = [c \in DOMAIN calls |->
                    calls[c] + Cardinality({p \in done : c \in ToSet(waits[p])})]

\* A bound.
MayTouch == touches < MaxTouches /\ touches + Len(drags) < MaxBoth

\* A drag under way follows events of its pointer.
Follows(ps) ==
  GetDragState(manager.state) = "START" /\ listener # 0 /\ drags[listener].pointer \in ps

\* UIKit reports fingers that begin, move or lift together.
Touch(ps, phase) ==
  /\ handling = None /\ ps # {}
  /\ \A p \in ps : touch[p].kind = IF phase = "Began" THEN "none" ELSE "finger"
  /\ phase = "Began" => MayTouch
  /\ touches' = IF phase = "Began" THEN touches + 1 ELSE touches
  /\ touch' = [p \in Pointers |->
                 CASE p \in ps /\ phase = "Began" -> [kind |-> "finger", no |-> 0]
                   [] p \in ps /\ phase = "Ended" -> NoTouch
                   [] OTHER -> touch[p]]
  /\ SetCurPointerEvent(ps, phase # "Ended")
  /\ moved' = IF Follows(ps) THEN [no |-> 0, corrected |-> FALSE] ELSE moved
  /\ handling' = [kind |-> "finger", pointers |-> ps, active |-> phase # "Ended"]
  /\ UNCHANGED <<time, overlapped, sessionVars, dragVars>>

\* UpdateSyntheticDragTouchState.
UpdatedPoint(p, active) ==
  CASE active -> [pointer |-> p, active |-> TRUE]
    [] ~active /\ point.pointer = p -> [point EXCEPT !.active = FALSE]
    [] OTHER -> point

\* mutant: every event of a touch begins a session.
PrepareAnew(p, active, began, t, no) ==
  LET session == IF active THEN sessions + 1 ELSE bindings[p]
  IN  /\ sessions' = IF active THEN sessions + 1 ELSE sessions
      /\ sessionOf' = IF active THEN Append(sessionOf, no) ELSE sessionOf
      /\ bindings' = [bindings EXCEPT ![p] = session]
      /\ pending' = IF active THEN Register(pending, p, t, session) ELSE pending
      /\ dispatched' = Register(dispatched, p, t, session)

\* PrepareSyntheticDragCompensationContext: an event that begins a touch, or has none
\* to belong to, begins a session.
Prepare(p, active, began, t, no) ==
  LET new == active /\ (began \/ bindings[p] = 0)
      session == CASE new -> sessions + 1
                   [] ~new /\ ~active /\ bindings[p] = 0 -> Latest(pending, p)
                   [] OTHER -> bindings[p]
  IN  /\ sessions' = IF new THEN sessions + 1 ELSE sessions
      /\ sessionOf' = IF new THEN Append(sessionOf, no) ELSE sessionOf
      /\ bindings' = [bindings EXCEPT ![p] = IF new THEN session ELSE @]
      /\ pending' = IF active THEN Register(pending, p, t, session) ELSE pending
      /\ dispatched' = Register(dispatched, p, t, session)

\* mutant: those of any touch of the drag's pointer are.
CorrectedByPointer(p, session) == compensation.valid /\ compensation.pointer = p

\* CreateSyntheticCompensatedPointerEvent: only the points of the drag's own touch are.
Corrected(p, session) == compensation = [valid |-> TRUE, session |-> session, pointer |-> p]

\* UpdateSyntheticPointAction: not of an event that has no session, or one of another
\* touch than the drag's.
UpdateSyntheticPointAction(p, t, no) ==
  LET session == ResolveSessionId(pending', dispatched', bindings', p, t) IN
  moved' = IF session = 0 \/ (activeSession # 0 /\ session # activeSession) THEN moved
           ELSE [no |-> no, corrected |-> Corrected(p, session)]

\* A UI test's event, possibly as old as the last; a touch may be ended more than once.
SyntheticTouch(p, phase, t) ==
  LET active == phase # "Ended"
      began == phase = "Began"
      no == IF began THEN touches + 1 ELSE touch[p].no
  IN  /\ handling = None /\ t \in time .. MaxTime /\ t <= time + 1
      /\ CASE began -> touch[p].kind = "none" /\ MayTouch
           [] phase = "Moved" -> touch[p].kind = "synthetic"
           [] OTHER -> touch[p].kind # "finger"
      /\ time' = t
      /\ touches' = IF began THEN touches + 1 ELSE touches
      /\ touch' = [touch EXCEPT ![p] = [kind |-> IF active THEN "synthetic" ELSE "none", no |-> no]]
      /\ overlapped' = (overlapped \/ \E q \in Pointers \ {p} : active /\ touch[q].kind = "synthetic")
      /\ point' = UpdatedPoint(p, active)
      /\ Prepare(p, active, began, t, no)
      /\ SetCurPointerEvent({p}, active)
      /\ IF Follows({p}) THEN UpdateSyntheticPointAction(p, t, no) ELSE UNCHANGED moved
      /\ handling' = [kind |-> "synthetic", pointers |-> {p}, active |-> active]
      /\ UNCHANGED <<activeSession, compensation, dragVars>>

\* mutant: the pending sessions stay.
CompleteButPending(p) ==
  IF point.pointer \notin {None, p} THEN UNCHANGED sessionVars
  ELSE /\ bindings' = [bindings EXCEPT ![p] = 0]
       /\ compensation' = NoCompensation
       /\ activeSession' = 0
       /\ point' = [point EXCEPT !.pointer = None]
       /\ UNCHANGED <<sessions, sessionOf, dispatched, pending>>

\* CompleteSyntheticDragTouchState: what belonged to the touch is forgotten, unless
\* another pointer was touched last.
Complete(p) ==
  IF point.pointer \notin {None, p} THEN UNCHANGED sessionVars
  ELSE /\ bindings' = [bindings EXCEPT ![p] = 0]
       /\ pending' \in Without(pending, p)
       /\ compensation' = NoCompensation
       /\ activeSession' = 0
       /\ point' = [point EXCEPT !.pointer = None]
       /\ UNCHANGED <<sessions, sessionOf, dispatched>>

Return ==
  /\ handling # None
  /\ IF handling.kind = "synthetic" /\ ~handling.active
     THEN Complete(CHOOSE p \in handling.pointers : TRUE) ELSE UNCHANGED sessionVars
  /\ handling' = None /\ moved' = None
  /\ UNCHANGED <<eventVars, dragVars, stopVars>>

-----------------------------------------------------------------------------
(* The engine. *)

\* A synthetic drag, if the pointer is touched by a UI test.
IsSyntheticDragTouchActiveForPointer(p) == point = [pointer |-> p, active |-> TRUE]

\* A drag whose window is made: without one (GetDragWindow) StartDrag answers -1, and of what
\* is here it has changed nothing.
StartDrag(p) ==
  LET synthetic == IsSyntheticDragTouchActiveForPointer(p)
      session == IF synthetic THEN SessionOfDrag(p) ELSE 0
  IN  /\ ~engine /\ Len(drags) < MaxDrags /\ touches + Len(drags) < MaxBoth /\ touch[p].kind # "none"
      /\ drags' = Append(drags, [pointer |-> p, synthetic |-> synthetic, session |-> session,
                                 touch |-> touch[p].no, window |-> "hidden"])
      /\ pending' = IF synthetic THEN ConsumeLatest(pending, p) ELSE pending
      /\ activeSession' = session
      /\ listener' = Len(drags) + 1
      /\ manager' = [manager EXCEPT !.window = Len(drags) + 1]
      /\ engine' = TRUE
      /\ hasty' = (hasty \/ \E d \in DOMAIN drags : drags[d].window # "gone")
      /\ UNCHANGED <<eventVars, handling, point, sessions, sessionOf, bindings, dispatched,
                     compensation, windowCreated, moved, stopVars>>

\* StartSyntheticDragWindow, StartManualDragWindow.
CompensationOf(d) ==
  IF drags[d].synthetic
  THEN [valid |-> TRUE, session |-> drags[d].session, pointer |-> drags[d].pointer]
  ELSE compensation

\* The drag window's surface changes: the first time, the manager is told to start.
OnSurfaceNodeChanged(d) ==
  /\ handling = None
  /\ drags[d].window # "gone"
  /\ drags' = [drags EXCEPT ![d].window = "shown"]
  /\ IF windowCreated THEN UNCHANGED <<compensation, manager, windowCreated>>
     ELSE /\ compensation' = CompensationOf(d)
          /\ manager' = [state |-> "START", drag |-> d, window |-> manager.window]
          /\ windowCreated' = TRUE
  /\ UNCHANGED <<eventVars, handling, point, sessions, sessionOf, activeSession, bindings, pending,
                 dispatched, listener, engine, moved, hasty, stopVars>>

Stop ==
  /\ activeSession' = 0
  /\ manager' = IF manager.state = "START" THEN [manager EXCEPT !.state = "STOP"] ELSE manager
  /\ hasty' = (hasty \/ (listener # 0 /\ manager.drag # listener))
  /\ UNCHANGED <<eventVars, handling, point, sessions, sessionOf, bindings, pending, dispatched,
                 compensation, listener, drags, windowCreated, moved, stopVars>>

StopDrag == engine /\ engine' = FALSE /\ Stop

\* WindowActiveChanged: a window that becomes inactive cancels the drag, and the engine
\* does not know.
CancelDrag == handling = None /\ manager.state = "START" /\ Stop /\ UNCHANGED engine

\* mutant: the next drag's surface finds a window created.
DestroyKeepsCreated ==
  /\ handling = None /\ manager.state = "STOP"
  /\ drags' = [drags EXCEPT ![manager.window].window = "gone"]
  /\ manager' = [manager EXCEPT !.state = "none", !.drag = 0]
  /\ UNCHANGED <<eventVars, handling, sessionVars, listener, windowCreated, engine, moved, hasty, stopVars>>

\* The manager is done with a drag: it has the window it was last given destroyed.
DestroyDragWindow ==
  /\ handling = None /\ manager.state = "STOP"
  /\ drags' = [drags EXCEPT ![manager.window].window = "gone"]
  /\ windowCreated' = FALSE
  /\ manager' = [manager EXCEPT !.state = "none", !.drag = 0]
  /\ UNCHANGED <<eventVars, handling, sessionVars, listener, engine, moved, hasty, stopVars>>

\* The engine asks where the pointer is, and to be called when it is no longer pressed.
GetCurPointerEventInfo(p) ==
  /\ Len(calls) < MaxWaits
  /\ p \in current.pointers /\ current.pressed
  /\ waits' = [waits EXCEPT ![p] = Append(@, Len(calls) + 1)]
  /\ calls' = Append(calls, 0)
  /\ UNCHANGED <<eventVars, handling, sessionVars, dragVars, moved, current>>

Next ==
  \/ \E ps \in SUBSET Fingers, phase \in {"Began", "Moved", "Ended"} : Touch(ps, phase)
  \/ \E p \in Pointers, phase \in {"Began", "Moved", "Ended"}, t \in 1 .. MaxTime :
       SyntheticTouch(p, phase, t)
  \/ Return
  \/ \E p \in Pointers : StartDrag(p) \/ GetCurPointerEventInfo(p)
  \/ \E d \in DOMAIN drags : OnSurfaceNodeChanged(d)
  \/ StopDrag \/ CancelDrag \/ DestroyDragWindow

Spec == Init /\ [][Next]_vars

-----------------------------------------------------------------------------
MovedByOwnTouch ==
  /\ moved' # None /\ moved = None
  /\ \E p \in Pointers : touch'[p].kind = "synthetic" /\ handling' # None /\ p \in handling'.pointers
  => /\ activeSession # 0 => moved'.no = drags[listener].touch
     /\ moved'.corrected /\ ~hasty => moved'.no = drags[manager.drag].touch

\* While a synthetic drag is not stopped, the drag manager is moved only by synthetic
\* events of the touch the drag began in, not of a later one of the same pointer, and
\* corrects the points of just that touch.
FollowsOwnTouch == [][MovedByOwnTouch]_vars

\* p is touched synthetically, and the touch has session s.
Bound(p, s) == s # 0 /\ touch[p].kind = "synthetic" /\ bindings[p] = s

\* Of the sessions a drag's events are compared with, the active one, the drag's own and
\* the one to correct for, none is ever that of a later touch of its pointer.
OwnTouch ==
  listener # 0 =>
    LET drag == drags[listener]
        p == drag.pointer
    IN  /\ Bound(p, activeSession) => touch[p].no = drag.touch
        /\ Bound(p, drag.session) => touch[p].no = drag.touch
        /\ ~hasty /\ compensation.valid /\ compensation.pointer = p /\ Bound(p, compensation.session)
             => touch[p].no = drag.touch

\* While the touch goes on that a synthetic drag began in, alone, the drag has the
\* session of the touch, the touch's events find it, and are corrected for the drag's
\* window, however many sessions the caches had to forget.
FollowsWhileTouched ==
  LET d == manager.drag IN
  /\ manager.state = "START" /\ ~hasty /\ ~overlapped
  /\ drags[d].synthetic /\ engine
  /\ touch[drags[d].pointer] = [kind |-> "synthetic", no |-> drags[d].touch]
  => LET p == drags[d].pointer
         s == drags[d].session
     IN  /\ s # 0 /\ sessionOf[s] = drags[d].touch
         /\ activeSession = s /\ bindings[p] = s
         /\ compensation = [valid |-> TRUE, session |-> s, pointer |-> p]

\* Between synthetic touches that do not overlap nothing of them is left.
TouchesForgotten ==
  /\ ~overlapped /\ handling = None
  /\ \A p \in Pointers : touch[p].kind # "synthetic"
  => /\ pending = <<>> /\ point = [pointer |-> None, active |-> FALSE]
     /\ \A p \in Pointers : bindings[p] = 0
     /\ activeSession = 0

\* Who waits for a pointer to be lifted is called once, no later than with the event
\* that lifts it.
WaitersCalledOnce ==
  /\ \A c \in DOMAIN calls : calls[c] = IF \E p \in Pointers : c \in ToSet(waits[p]) THEN 0 ELSE 1
  /\ \A p \in Pointers : waits[p] # <<>> => touch[p].kind # "none"

\* Who waits was registered, and waits for one pointer, which the last event showed pressed:
\* it is being touched.
WaitersPressed ==
  /\ \A p \in Pointers : ToSet(waits[p]) \subseteq DOMAIN calls
  /\ \A p, q \in Pointers : ToSet(waits[p]) \cap ToSet(waits[q]) # {} => p = q
  /\ \A p \in Pointers : waits[p] # <<>> => current.pressed /\ p \in current.pointers
  /\ current.pressed => \A p \in current.pointers : touch[p].kind # "none"

\* The manager is told of one drag at a time; if drags are not stopped before they are
\* shown, nor asked for while an old one's window is there, it has the window destroyed
\* of the drag it was told of, and no other window is left.
OneDragAtATime ==
  /\ windowCreated <=> manager.state # "none"
  /\ ~hasty => /\ manager.state # "none" => manager.drag = listener /\ manager.window = listener
               /\ \A d \in DOMAIN drags : d # listener => drags[d].window = "gone"

\* The listener is the last drag's, and the manager destroys its window; what was told to
\* start still has its window.
LastDragHeard ==
  /\ listener = Len(drags) /\ manager.window = Len(drags) /\ manager.drag \in 0 .. Len(drags)
  /\ manager.state # "none" => manager.drag # 0
  /\ manager.state # "none" /\ ~hasty => drags[manager.drag].window # "gone"

\* A drag's events find it as long as the touch goes on that it began in, and what belonged
\* to a touch is forgotten after it; with what makes that so at every step.
DragsFollow ==
  /\ TypeOK /\ FollowsWhileTouched /\ TouchesForgotten
  /\ WaitersPressed /\ LastDragHeard /\ OwnTouch
=============================================================================
