---------------------------- MODULE RsWindowMap ----------------------------
(***************************************************************************)
(* The windows of all abilities (Rosen::Window, entrance/virtual_rs_window)*)
(* in two static maps: windowMap_ by name, subWindowMap_ by the id of the  *)
(* parent.  All of it runs on the main thread.                             *)
(*                                                                         *)
(* A window's id is the number its name ends with after the last colon, or *)
(* else comes from InstanceIdGenerator.  The window of an ability is named *)
(* after the controller's instanceName and so has its instance id.  The    *)
(* names applications give their sub-windows end with no number here.      *)
(* That of a dialog (SubwindowIos) is its parent's, followed by a counter: *)
(* dialog 1 of "b:m:a:0" gets id 1, and so may another ability's window.   *)
(*                                                                         *)
(* Destroy destroys the sub-windows first, each of which does the same.    *)
(***************************************************************************)
EXTENDS SequencesExt, Integers

CONSTANTS
  SubNames,       \* names of the applications' sub-windows
  MaxWindows,     \* bound: windows made
  MaxDialogs,     \* bound: SubwindowIos made, of one digit each
  MaxId           \* bound: ids taken from InstanceIdGenerator

WindowMapAssumption ==
  /\ MaxWindows \in Nat /\ MaxId \in Nat /\ MaxDialogs \in 0 .. 10

INVALID_WINDOW_ID == 0

VARIABLES
  nextId,         \* INSTANCE_ID_GENERATOR
  windows,        \* all windows made so far, live or destroyed
  windowMap,      \* windowMap_: window by name
  subWindowMap,   \* subWindowMap_: sub-windows by id of the parent
  listening,      \* windows with a listener of theirs registered under their id
  live,           \* windows not destroyed
  dragging        \* dragWindow_ of the SurfaceNodeListeners whose drag has not ended

vars == <<nextId, windows, windowMap, subWindowMap, listening, live, dragging>>

Windows == DOMAIN windows
Names == SubNames \cup ({"main", "dialog", "drag"} \X Nat)

\* parent is the window it was made for, itself for an ability's: the code keeps the
\* parent's id only.
Window == [name : Names, id : Nat, parent : 1 .. MaxWindows, parentId : Nat,
           kind : {"main", "sub", "dialog", "drag"}]

TypeOK ==
  /\ nextId \in 0 .. MaxId
  /\ windows \in Seq(Window) /\ Len(windows) <= MaxWindows
  /\ DOMAIN windowMap \subseteq Names /\ Range(windowMap) \subseteq Windows
  /\ \A id \in DOMAIN subWindowMap :
       ToSet(subWindowMap[id]) \subseteq Windows /\ IsInjective(subWindowMap[id])
  /\ listening \subseteq Windows /\ live \subseteq Windows /\ dragging \subseteq Windows

Init ==
  /\ nextId = 0 /\ windows = <<>>
  /\ windowMap = <<>> /\ subWindowMap = <<>>
  /\ listening = {} /\ live = {} /\ dragging = {}

-----------------------------------------------------------------------------
SubWindows(map, id) == IF id \in DOMAIN map THEN map[id] ELSE <<>>

Without(f, k) == [x \in DOMAIN f \ {k} |-> f[x]]

\* A window and those it was made under.
Above[w \in Windows] ==
  IF windows[w].parent = w THEN {w} ELSE {w} \cup Above[windows[w].parent]

\* Does its name end with its id?  An ability's does, and a dialog's whose parent's does.
Numbered(w) == \A a \in Above[w] : windows[a].kind \in {"main", "dialog"}

\* The id for a sub-window of that name and kind under p, and what nextId becomes.  The
\* name of dialog i is that of p followed by i.
GetWindowIdFromName(p, kind, i) ==
  IF kind = "dialog" /\ Numbered(p) THEN [id |-> 10 * windows[p].id + i, next |-> nextId]
  ELSE [id |-> nextId, next |-> nextId + 1]

\* A StageViewController is made with the next instance id, and its window with it.
CreateAbilityWindow ==
  LET name == <<"main", nextId>>
      w == Len(windows) + 1
  IN
  /\ w <= MaxWindows /\ nextId < MaxId
  /\ name \notin DOMAIN windowMap
  /\ nextId' = nextId + 1
  /\ windows' = Append(windows, [name |-> name, id |-> nextId, parent |-> w,
                                 parentId |-> INVALID_WINDOW_ID, kind |-> "main"])
  /\ windowMap' = (name :> w) @@ windowMap
  /\ live' = live \cup {w}
  /\ UNCHANGED <<subWindowMap, listening, dragging>>

\* mutant: DeleteFromSubWindowMap, which works on a copy of the list, is relied upon.
AddToSubWindowMapTwice(w, parentId) ==
  IF parentId = INVALID_WINDOW_ID THEN subWindowMap
  ELSE (parentId :> (SubWindows(subWindowMap, parentId) \o <<w, w>>)) @@ subWindowMap

\* The sub-windows of window 0 are left out.
AddToSubWindowMap(w, parentId) ==
  IF parentId = INVALID_WINDOW_ID THEN subWindowMap
  ELSE (parentId :> Append(SubWindows(subWindowMap, parentId), w)) @@ subWindowMap

\* mutant: the parent is set after the window has been added.
CreateSubWindowParentLate(p, kind, name, i) ==
  LET new == GetWindowIdFromName(p, kind, i)
      w == Len(windows) + 1
  IN
  /\ p \in live /\ w <= MaxWindows /\ new.next <= MaxId
  /\ name \notin DOMAIN windowMap
  /\ nextId' = new.next
  /\ windows' = Append(windows, [name |-> name, id |-> new.id, parent |-> p,
                                 parentId |-> windows[p].id, kind |-> kind])
  /\ subWindowMap' = AddToSubWindowMap(w, INVALID_WINDOW_ID)
  /\ windowMap' = (name :> w) @@ windowMap
  /\ live' = live \cup {w}
  /\ UNCHANGED listening

CreateSubWindow(p, kind, name, i) ==
  LET new == GetWindowIdFromName(p, kind, i)
      w == Len(windows) + 1
  IN
  /\ p \in live /\ w <= MaxWindows /\ new.next <= MaxId
  /\ name \notin DOMAIN windowMap
  /\ nextId' = new.next
  /\ windows' = Append(windows, [name |-> name, id |-> new.id, parent |-> p,
                                 parentId |-> windows[p].id, kind |-> kind])
  /\ subWindowMap' = AddToSubWindowMap(w, windows[p].id)
  /\ windowMap' = (name :> w) @@ windowMap
  /\ live' = live \cup {w}
  /\ UNCHANGED listening

\* Over an ability's window or another of the application's.  (Not over a dialog, whose
\* id may be the next one: a window with the id of one it is under erases, at its end,
\* the list that one is walking through, and what the program does then is undefined.)
CreateAppSubWindow(p, name) ==
  /\ windows[p].kind \in {"main", "sub"}
  /\ CreateSubWindow(p, "sub", name, 0)
  /\ UNCHANGED dragging

\* InitSubwindow of the SubwindowIos number i, once.
CreateDialogWindow(p, i) ==
  /\ windows[p].kind \in {"main", "sub", "dialog"}
  /\ \A w \in Windows : windows[w].name # <<"dialog", i>>
  /\ CreateSubWindow(p, "dialog", <<"dialog", i>>, i)
  /\ UNCHANGED dragging

\* The window of what is dragged, over an ability's window.  Its name ends with no
\* number.
CreateDragWindow(p) ==
  /\ windows[p].kind = "main"
  /\ CreateSubWindow(p, "drag", <<"drag", windows[p].id>>, 0)
  /\ dragging' = dragging \cup {Len(windows')}

RegisterListener(w) ==
  /\ w \in live
  /\ listening' = listening \cup {w}
  /\ UNCHANGED <<nextId, windows, windowMap, subWindowMap, live, dragging>>

-----------------------------------------------------------------------------
(***************************************************************************)
(* Destroy, as a function of the maps.                                     *)
(***************************************************************************)
Maps == [byName |-> windowMap, subs |-> subWindowMap, listening |-> listening,
         live |-> live]

\* mutant: the listeners under the id of the parent.
ClearListenersOfParent(s, w) ==
  [s EXCEPT !.listening = {l \in @ : windows[l].id # windows[w].parentId}]

ClearListenersById(s, w) ==
  [s EXCEPT !.listening = {l \in @ : windows[l].id # windows[w].id}]

\* mutant: the list of the parent keeps the window.
RemoveFromParentNot(s, w) == s

\* Removes the first sub-window of the parent that has the id of w.
RemoveFromParent(s, w) ==
  LET parentId == windows[w].parentId
      same(x) == windows[x].id = windows[w].id
  IN  IF parentId \in DOMAIN s.subs
      THEN [s EXCEPT !.subs[parentId] = RemoveFirstMatch(@, same)] ELSE s

\* mutant: the window stays in the map of names.
DeleteFromWindowMapNot(s, w) == s

\* Whichever window has that name.
DeleteFromWindowMap(s, w) == [s EXCEPT !.byName = Without(@, windows[w].name)]

RECURSIVE DestroyIn(_, _), DestroySubWindows(_, _)

DestroySubWindows(s, id) ==
  LET list == SubWindows(s.subs, id) IN
  IF list = <<>> THEN [s EXCEPT !.subs = Without(@, id)]
  ELSE LET erased == [s EXCEPT !.subs[id] = Tail(@)]
       IN  DestroySubWindows(
             DestroyIn(DeleteFromWindowMap(erased, Head(list)), Head(list)), id)

DestroyIn(s, w) ==
  LET hidden == ClearListenersById([s EXCEPT !.live = @ \ {w}], w)
      childless == DestroySubWindows(hidden, windows[w].id)
  IN  DeleteFromWindowMap(RemoveFromParent(childless, w), w)

DestroyWindow(w) ==
  LET s == DestroyIn(Maps, w) IN
  /\ windowMap' = s.byName /\ subWindowMap' = s.subs
  /\ listening' = s.listening /\ live' = s.live
  /\ UNCHANGED <<nextId, windows>>

\* From the controller (notifyWindowDestroyed) or from the application.  A dialog's window
\* goes with its parent only: SubwindowIos::DestroyWindow does nothing.
Destroy(w) ==
  /\ w \in live /\ windows[w].kind \in {"main", "sub"}
  /\ DestroyWindow(w)
  /\ UNCHANGED dragging

\* The end of a drag destroys its window, although that may have gone with its parent
\* already.
DestroyDragWindow(w) ==
  /\ w \in dragging
  /\ DestroyWindow(w)
  /\ dragging' = dragging \ {w}

-----------------------------------------------------------------------------
Next ==
  \/ CreateAbilityWindow
  \/ \E w \in Windows :
       \/ \E name \in SubNames : CreateAppSubWindow(w, name)
       \/ \E i \in 0 .. MaxDialogs - 1 : CreateDialogWindow(w, i)
       \/ CreateDragWindow(w) \/ RegisterListener(w)
       \/ Destroy(w) \/ DestroyDragWindow(w)

Spec == Init /\ [][Next]_vars

-----------------------------------------------------------------------------
\* A window can be found by its name as long as it lives, and not any longer.
FoundWhileAlive ==
  /\ \A n \in DOMAIN windowMap : windowMap[n] \in live /\ windows[windowMap[n]].name = n
  /\ \A w \in live : windows[w].name \in DOMAIN windowMap

\* A sub-window goes with its parent, however deep below a window that is destroyed
\* it is.  Those of window 0 are the exception: they are not in subWindowMap.
GoesWithParent ==
  \A w \in live : windows[w].parent \in live \/ windows[w].parentId = INVALID_WINDOW_ID

\* No list names a window that is no more: Destroy would destroy it again, and with
\* it whatever has its name by then.
ListsNameLiving ==
  \A id \in DOMAIN subWindowMap : ToSet(subWindowMap[id]) \subseteq live

\* x, or a window it is under, has the id of another window that lives.
SharesId(x) ==
  \E a \in Above[x], y \in live : y # a /\ windows[y].id = windows[a].id

\* What is destroyed, and whose listeners are removed, in one step are a window and
\* windows below it: no other ability loses its windows, nor its listeners.  Everything
\* is kept by id, so this fails for windows with a shared id; but a shared id hurts the
\* windows that share it, and those under them, only.
DestroysOwnOnly ==
  [][LET gone == (live \ live') \cup (listening \ listening') IN
     gone # {} => \E w \in Windows : \A x \in gone : w \in Above[x] \/ SharesId(x)]_vars
=============================================================================
