------------------------ MODULE AccessibilityManager ------------------------
(***************************************************************************)
(* AccessibilityManagerImpl between the page of a window and VoiceOver.    *)
(*                                                                         *)
(* The page changes on the main thread, which is also the UI thread: the   *)
(* manager is told of a change while accessibility is on and publishes the *)
(* tree of its own window half a second later, after the node is laid out. *)
(* VoiceOver's switch and the focus it moves come back as tasks of the     *)
(* same queue.  A UI test turns accessibility on from a thread of its own, *)
(* a few statements at a time.                                             *)
(*                                                                         *)
(* The manager serves the window and the popup over it; windowId_ is the   *)
(* one its last event came from.                                           *)
(***************************************************************************)
EXTENDS Integers, Sequences, FiniteSets

CONSTANTS
  Nodes,       \* nodes the page may have; an id is never used again
  Root, Popup, \* the root of the window, a node of the popup
  None,        \* DEFAULT_ElEMENTID
  MaxTasks,    \* bound: nothing is posted while this many tasks are queued
  MaxSwitches  \* bound: switches of VoiceOver and of the popup, and UI tests

ASSUME AccessibilityAssumption ==
  /\ Root \notin Nodes /\ Popup \notin Nodes \cup {Root} /\ None \notin Nodes \cup {Root, Popup}
  /\ MaxTasks \in Nat /\ MaxSwitches \in Nat

VARIABLES
  mgr,      \* the manager, with the process-wide state of accessibility; outdated (history):
            \* a test stored last what VoiceOver's switch had changed since the test read it
  page,     \* [on: the nodes of the main tree, gone, laid: those laid out, popup: is it up?, ...]
  view,     \* the window's AccessibilityWindowView, and VoiceOver
  ui,       \* the tasks of the main queue
  delayed,  \* the nodes for which an update waits
  test,     \* the UI test: [pc, read: what its refresh read]
  switches

vars == <<mgr, page, view, ui, delayed, test, switches>>

Windows == {"main", "popup"}

Init ==
  /\ mgr = [ready |-> FALSE, windowId |-> "none", registered |-> FALSE, operation |-> "none",
            enabled |-> FALSE, lastSystem |-> FALSE, outdated |-> FALSE, tests |-> 0,
            currentFocus |-> None, lastElement |-> None]
  /\ page = [on |-> {}, gone |-> {}, laid |-> {}, popup |-> FALSE, stuck |-> FALSE]
  /\ view \in [system : BOOLEAN, subscribed : {FALSE}, callback : {FALSE},
               shown : {{}}, focus : {None}, clearFocus : {None}]
  /\ ui = <<>> /\ delayed = {}
  /\ test = [pc |-> "off", read |-> FALSE]
  /\ switches = 0

Tasks == [k : {"state", "refresh"}, on : BOOLEAN] \cup
         [k : {"focus", "clear"}, id : Nodes] \cup [k : {"update"}, id : Nodes \cup {None}]

Managers ==
  [ready : BOOLEAN, windowId : Windows \cup {"none"}, registered : BOOLEAN,
   operation : Windows \cup {"none"}, enabled : BOOLEAN, lastSystem : BOOLEAN, outdated : BOOLEAN,
   tests : 0..1, currentFocus : Nodes \cup {None}, lastElement : Nodes \cup {None}]

Views ==
  [system : BOOLEAN, subscribed : BOOLEAN, callback : BOOLEAN,
   shown : SUBSET Nodes, focus : Nodes \cup {None}, clearFocus : Nodes \cup {None}]

Pages ==
  [on : SUBSET Nodes, gone : SUBSET Nodes, laid : SUBSET Nodes, popup : BOOLEAN, stuck : BOOLEAN]

TypeOK ==
  /\ mgr \in Managers /\ view \in Views
  /\ page \in Pages /\ page.laid \subseteq page.on /\ page.on \cap page.gone = {}
  /\ \A i \in DOMAIN ui : ui[i] \in Tasks
  /\ delayed \subseteq Nodes \cup {Root, Popup}
  /\ test \in [pc : {"off", "starting", "starting2", "watching", "ending", "ending2"},
               read : BOOLEAN]

Room == Len(ui) < MaxTasks

\* The main thread waits in an update's loop for a layout it should do itself.
Spins(n) == n \in page.on /\ n \notin page.laid

-----------------------------------------------------------------------------
(***************************************************************************)
(* Publishing.                                                             *)
(***************************************************************************)
\* The pipeline a window's id stands for: windowId_ always stands for the main one.
GetPipelineByWindowId(m, w) ==
  IF w = "main" \/ w = m.windowId THEN "main" ELSE IF page.popup THEN w ELSE "none"

\* The nodes found from elementId replace those of the view of the window.
UpdateElementInfosByAccessibilityId(m, v, w) ==
  IF w = "main" THEN [v EXCEPT !.shown = page.on] ELSE v

FindPipelineByElementId(id) ==
  CASE id \in page.on \cup {Root, None} -> "main"
    [] id = Popup /\ page.popup -> "popup"
    [] OTHER -> "none"

\* An event while accessibility is on: the update of the main window waits for the
\* node, wherever the node is.
ProcessAccessibilityEvent(m, id) ==
  LET w == FindPipelineByElementId(id)
  IN  IF w = "none" THEN [mgr |-> m, delayed |-> {}]
      ELSE [mgr |-> [m EXCEPT !.windowId = w], delayed |-> {id}]

\* The engine raises events only while accessibility is on.
Raise(id) ==
  IF mgr.enabled /\ mgr.ready
  THEN LET e == ProcessAccessibilityEvent(mgr, id)
       IN  mgr' = e.mgr /\ delayed' = delayed \cup e.delayed
  ELSE UNCHANGED <<mgr, delayed>>

-----------------------------------------------------------------------------
(***************************************************************************)
(* Registration and the switch.                                            *)
(***************************************************************************)
\* The callback is one for the process: it goes to the last window registered.
RegisterInteractionOperation(m, v, w) ==
  IF m.registered THEN [mgr |-> m, view |-> v]
  ELSE [mgr |-> [m EXCEPT !.registered = TRUE, !.operation = IF page.popup THEN "popup" ELSE w],
        view |-> [v EXCEPT !.callback = @ \/ w = "main"]]

\* mutant: the tests are forgotten.
RefreshBySystemOnly(m, system) ==
  [m EXCEPT !.lastSystem = system, !.enabled = system, !.outdated = FALSE]

RefreshEffectiveAccessibilityState(m, system) ==
  [m EXCEPT !.lastSystem = system, !.enabled = system \/ m.tests > 0, !.outdated = FALSE]

InitializeCallback ==
  /\ ~mgr.ready
  /\ LET on == view.system
         m == RefreshEffectiveAccessibilityState([mgr EXCEPT !.windowId = "main", !.ready = TRUE], on)
         v == [view EXCEPT !.subscribed = TRUE]
         r == IF on THEN RegisterInteractionOperation(m, v, "main") ELSE [mgr |-> m, view |-> v]
     IN  mgr' = r.mgr /\ view' = r.view
  /\ UNCHANGED <<page, ui, delayed, test, switches>>

\* VoiceOver goes on or off: the view's block posts the new state.
OnStateChanged ==
  /\ switches < MaxSwitches /\ Room
  /\ view' = [view EXCEPT !.system = ~@]
  /\ ui' = IF view.subscribed THEN Append(ui, [k |-> "state", on |-> ~view.system]) ELSE ui
  /\ switches' = switches + 1
  /\ UNCHANGED <<mgr, page, delayed, test>>

\* mutant: the tree is left to the next event.
StateTaskWithoutUpdate(on) ==
  LET r == IF on THEN RegisterInteractionOperation(mgr, view, mgr.windowId)
           ELSE [mgr |-> mgr, view |-> view]
  IN  [mgr |-> [r.mgr EXCEPT !.enabled = on], view |-> r.view]

\* The task, up to the refresh that ends it.
StateTask(on) ==
  LET r == RegisterInteractionOperation(mgr, view, mgr.windowId)
  IN  IF on THEN [mgr |-> [r.mgr EXCEPT !.enabled = TRUE],
                  view |-> UpdateElementInfosByAccessibilityId(r.mgr, r.view, r.mgr.windowId)]
      ELSE [mgr |-> [mgr EXCEPT !.enabled = FALSE], view |-> view]

-----------------------------------------------------------------------------
(***************************************************************************)
(* VoiceOver's focus.                                                      *)
(***************************************************************************)
Listening == view.system /\ view.callback

DidBecomeFocused(n) ==
  /\ n \in view.shown /\ Room /\ Listening
  /\ LET cleared == view.clearFocus \notin {None, n}
     IN  /\ ui' = (IF cleared THEN Append(ui, [k |-> "clear", id |-> view.clearFocus]) ELSE ui)
                  \o <<[k |-> "focus", id |-> n]>>
         /\ view' = [view EXCEPT !.focus = n, !.clearFocus = IF cleared THEN None ELSE @]
  /\ UNCHANGED <<mgr, page, delayed, test, switches>>

DidLoseFocus ==
  /\ view.system /\ view.focus # None
  /\ view' = [view EXCEPT !.clearFocus = view.focus]
  /\ UNCHANGED <<mgr, page, ui, delayed, test, switches>>

KeyboardChanges ==
  /\ Room /\ view.callback
  /\ \E id \in {view.focus, view.clearFocus} : ui' = Append(ui, [k |-> "update", id |-> id])
  /\ UNCHANGED <<mgr, page, view, delayed, test, switches>>

\* mutant: nothing is focused before the focus is cleared.
ActOnlyIfClear(m, id, isNeedClear) ==
  IF isNeedClear THEN (IF id = m.currentFocus THEN [m EXCEPT !.currentFocus = None] ELSE m)
  ELSE IF m.currentFocus # None THEN m ELSE [m EXCEPT !.currentFocus = id]

ActAccessibilityFocus(m, id, isNeedClear) ==
  IF isNeedClear THEN (IF id = m.currentFocus THEN [m EXCEPT !.currentFocus = None] ELSE m)
  ELSE [m EXCEPT !.currentFocus = id]

\* Found among the nodes of the operation's window, or it is the last one and is
\* still held by something, a transition for instance.
ExecuteActionNG(m, id, isNeedClear, held) ==
  IF \/ GetPipelineByWindowId(m, m.operation) = "main" /\ id \in page.on
     \/ GetPipelineByWindowId(m, m.operation) # "none" /\ id = m.lastElement /\ held
  THEN ActAccessibilityFocus([m EXCEPT !.lastElement = id], id, isNeedClear)
  ELSE m

RequestUpdate(m, id) ==
  LET w == FindPipelineByElementId(id) IN
  IF w = "none" THEN [mgr |-> m, view |-> view]
  ELSE LET n == [m EXCEPT !.windowId = w]
       IN  [mgr |-> n, view |-> UpdateElementInfosByAccessibilityId(n, view, "main")]

\* The main thread runs the next task.  The state task ends with a refresh.
RunTask ==
  /\ ui # <<>>
  /\ \E held \in BOOLEAN :
     LET t == Head(ui)
         r == CASE t.k = "state" -> StateTask(t.on)
                [] t.k = "refresh" -> [mgr |-> RefreshEffectiveAccessibilityState(mgr, t.on), view |-> view]
                [] t.k \in {"focus", "clear"} ->
                     [mgr |-> ExecuteActionNG(mgr, t.id, t.k = "clear", held), view |-> view]
                [] t.k = "update" -> RequestUpdate(mgr, t.id)
     IN  /\ mgr' = r.mgr /\ view' = r.view
         /\ ui' = (IF t.k = "state" THEN <<[k |-> "refresh", on |-> t.on]>> ELSE <<>>) \o Tail(ui)
  /\ UNCHANGED <<page, delayed, test, switches>>

\* The half second is over.  A node that left the tree is not waited for; one
\* without a layout is waited for by the thread that lays out.
RunUpdate ==
  \E n \in delayed :
    /\ delayed' = delayed \ {n}
    /\ IF Spins(n)
       THEN page' = [page EXCEPT !.stuck = TRUE] /\ UNCHANGED view
       ELSE view' = UpdateElementInfosByAccessibilityId(mgr, view, "main") /\ UNCHANGED page
    /\ UNCHANGED <<mgr, ui, test, switches>>

-----------------------------------------------------------------------------
(***************************************************************************)
(* The page.                                                               *)
(***************************************************************************)
NodeComes(n) ==
  /\ mgr.ready /\ n \notin page.on \cup page.gone
  /\ page' = [page EXCEPT !.on = @ \cup {n}]
  /\ Raise(Root) /\ UNCHANGED <<view, ui, test, switches>>

\* COMPONENT_CHANGE of the node itself.
NodeChanges(n) ==
  /\ n \in page.on /\ Raise(n) /\ UNCHANGED <<page, view, ui, test, switches>>

Layout ==
  /\ page' = [page EXCEPT !.laid = page.on]
  /\ UNCHANGED <<mgr, view, ui, delayed, test, switches>>

NodeGoes(n) ==
  /\ n \in page.on
  /\ page' = [page EXCEPT !.on = @ \ {n}, !.laid = @ \ {n}, !.gone = @ \cup {n}]
  /\ Raise(Root) /\ UNCHANGED <<view, ui, test, switches>>

PopupToggles ==
  /\ switches < MaxSwitches /\ switches' = switches + 1
  /\ page' = [page EXCEPT !.popup = ~@]
  /\ UNCHANGED <<mgr, view, ui, delayed, test>>

PopupChanges ==
  /\ page.popup /\ Raise(Popup) /\ UNCHANGED <<page, view, ui, test, switches>>

-----------------------------------------------------------------------------
(***************************************************************************)
(* UI tests, on a thread of their own.                                     *)
(***************************************************************************)
\* NotifyUiTestStart: the request and its refresh, in two steps.
UiTestStarts ==
  /\ test.pc = "off" /\ switches < MaxSwitches /\ switches' = switches + 1
  /\ mgr' = [mgr EXCEPT !.tests = @ + 1]
  /\ test' = [test EXCEPT !.pc = "starting"]
  /\ UNCHANGED <<page, view, ui, delayed>>

\* g_lastSystemA11yState is read before the lock is taken.
RefreshReads ==
  /\ test.pc \in {"starting", "ending"}
  /\ test' = [pc |-> IF test.pc = "starting" THEN "starting2" ELSE "ending2",
              read |-> mgr.lastSystem]
  /\ UNCHANGED <<mgr, page, view, ui, delayed, switches>>

RefreshStores ==
  /\ test.pc \in {"starting2", "ending2"}
  /\ mgr' = [RefreshEffectiveAccessibilityState(mgr, test.read) EXCEPT
               !.outdated = mgr.outdated \/ test.read # mgr.lastSystem]
  /\ test' = [pc |-> IF test.pc = "starting2" THEN "watching" ELSE "off", read |-> FALSE]
  /\ UNCHANGED <<page, view, ui, delayed, switches>>

\* mutant: a session that is ending may be ended again.
UiTestEndsTwice ==
  /\ test.pc \in {"watching", "ending"}
  /\ mgr' = [mgr EXCEPT !.tests = @ - 1]
  /\ test' = [test EXCEPT !.pc = "ending"]
  /\ UNCHANGED <<page, view, ui, delayed, switches>>

UiTestEnds ==
  /\ test.pc = "watching"
  /\ mgr' = [mgr EXCEPT !.tests = IF @ > 0 THEN @ - 1 ELSE 0]
  /\ test' = [test EXCEPT !.pc = "ending"]
  /\ UNCHANGED <<page, view, ui, delayed, switches>>

-----------------------------------------------------------------------------
MainThread ==
  \/ InitializeCallback \/ OnStateChanged \/ RunTask \/ RunUpdate
  \/ \E n \in Nodes : NodeComes(n) \/ NodeGoes(n) \/ NodeChanges(n) \/ DidBecomeFocused(n)
  \/ Layout \/ DidLoseFocus \/ KeyboardChanges \/ PopupToggles \/ PopupChanges

TestThread ==
  UiTestStarts \/ RefreshReads \/ RefreshStores \/ UiTestEnds

\* The main thread does one task at a time.
Next ==
  \/ ~page.stuck /\ (IF ui # <<>> /\ Head(ui).k = "refresh" THEN RunTask ELSE MainThread)
  \/ TestThread

Spec == Init /\ [][Next]_vars

-----------------------------------------------------------------------------
\* A test that has started and not ended is counted.
TestsCounted ==
  mgr.tests = IF test.pc \in {"starting", "starting2", "watching"} THEN 1 ELSE 0

\* The refresh that ends a switch is next: nothing overtakes it.
RefreshFirst == \A i \in 2 .. Len(ui) : ui[i].k # "refresh"

\* Once neither thread is in the middle of a refresh, accessibility is on if a test wants
\* it or the system did when it was looked at last.
EnabledByLast ==
  /\ mgr.ready /\ test.pc \in {"off", "watching"}
  /\ (ui # <<>> => Head(ui).k # "refresh")
  => mgr.enabled = (mgr.lastSystem \/ mgr.tests > 0)

Inv == TypeOK /\ ui \in Seq(Tasks) /\ TestsCounted /\ RefreshFirst /\ EnabledByLast

\* With VoiceOver on and nothing under way, the window's view has the page's nodes,
\* also those that came while accessibility was off; claimed while the last event
\* was not the popup's, after which a switch publishes into the popup's view.
TreeFresh ==
  /\ mgr.ready /\ view.system /\ mgr.enabled /\ mgr.lastSystem /\ ~page.stuck
  /\ ui = <<>> /\ delayed = {} /\ mgr.windowId = "main"
  => view.shown = page.on

\* When the queue is empty, the manager's focus is VoiceOver's, whatever was focused
\* before and whether the view told of its loss.
FocusFollows ==
  ui = <<>> /\ view.focus \in page.on /\ mgr.operation = "main"
  => mgr.currentFocus = view.focus

\* Where the tasks of some kinds are in a queue, and that the last of them is one of T.
Of(q, K) == {i \in DOMAIN q : q[i].k \in K}
LastIn(q, K, T) == \A i \in Of(q, K) : (\A j \in Of(q, K) : j <= i) => q[i] \in T

\* The tasks of VoiceOver's switch, and of its focus.
Switching == {"state", "refresh"}
Focusing == {"focus", "clear"}
SwitchTo(on) == {t \in [k : Switching, on : BOOLEAN] : t.on = on}

\* Whatever the order of VoiceOver's switch and of the tests' requests, and with the
\* two threads between each other's steps: once no switch is queued and no refresh under
\* way, accessibility is on if VoiceOver is, as the system has it, or a test wants it.  One
\* outcome is excepted, which the code allows: a test that read the state before a switch
\* and stores it after leaves accessibility as before, until the next switch.
EnabledAgrees ==
  /\ mgr.ready /\ test.pc \in {"off", "watching"} /\ Of(ui, Switching) = {} /\ ~mgr.outdated
  => mgr.enabled = (view.system \/ mgr.tests > 0)

NoSwitch == Of(ui, {"state"}) = {}
RefreshNext == ui # <<>> /\ Head(ui).k = "refresh"

\* The last switch that is queued is the system's; what a test read is out of date only
\* while a switch is queued, or stored already.
SwitchInv ==
  /\ mgr.ready <=> view.subscribed
  /\ ~mgr.ready => /\ page.on = {} /\ view.shown = {} /\ Of(ui, Switching) = {}
                   /\ ~mgr.lastSystem /\ ~test.read
  /\ LastIn(ui, Switching, SwitchTo(view.system))
  /\ mgr.ready /\ ~RefreshNext => (mgr.lastSystem => mgr.enabled)
  /\ test.read /\ view.system /\ NoSwitch => mgr.lastSystem \/ RefreshNext
  /\ mgr.ready /\ ~mgr.outdated /\ Of(ui, Switching) = {} => mgr.lastSystem = view.system

\* When the view has not the page's nodes, and no update waits and no switch is queued,
\* nothing is left that could make accessibility look on without publishing them.
TreeInv ==
  /\ view.shown # page.on /\ mgr.ready /\ ~page.stuck /\ delayed = {}
  /\ mgr.windowId = "main" /\ view.system /\ NoSwitch
  => ~mgr.lastSystem /\ ~RefreshNext /\ ~test.read

\* The last task of VoiceOver's focus gives the manager the focus VoiceOver has.
FocusInv ==
  /\ view.shown \subseteq page.on \cup page.gone
  /\ view.focus \in page.on \cup page.gone \cup {None}
  /\ ~mgr.registered => /\ ~view.callback /\ view.focus = None
                        /\ Of(ui, Focusing) = {} /\ mgr.operation # "main"
  /\ LastIn(ui, Focusing, {[k |-> "focus", id |-> view.focus]})
  /\ Of(ui, Focusing) = {} /\ view.focus \in page.on /\ mgr.operation = "main"
       => mgr.currentFocus = view.focus

\* What the window's view has is the manager's: the page's nodes and the focus; with the
\* inductive invariant that this rests on.
ViewAgrees == Inv /\ SwitchInv /\ TreeInv /\ FocusInv /\ TreeFresh /\ FocusFollows
=============================================================================
