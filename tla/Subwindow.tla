------------------------------- MODULE Subwindow -------------------------------
(***************************************************************************)
(* SubwindowIos: the window in which the popups, menus, dialogs, sheets    *)
(* and top-most toasts of a page are shown.  It is one UIKit view over the *)
(* page's, with a container of its own, whose overlay holds the nodes that *)
(* are up.  The engine calls it to show and to hide a node; the node's     *)
(* animations end later, and touches outside and the page's background     *)
(* reach it by tasks.                                                      *)
(*                                                                         *)
(* The object's flags follow the view by hand: isShowed_, isMenuWindow_    *)
(* and isToastWindow_ are set and cleared on different paths.  An          *)
(* operation is a function on the record sub of the object, its view and   *)
(* its overlay.                                                            *)
(***************************************************************************)
EXTENDS Integers, Sequences, FiniteSets

CONSTANTS
  Popups, Menus, Dialogs, Sheets,   \* ids of the nodes of each kind
  MaxQueue                          \* bound: tasks of the listeners in the queue

Nodes == Popups \cup Menus \cup Dialogs \cup Sheets

ASSUME SubwindowAssumption ==
  /\ Nodes \subseteq Nat /\ MaxQueue \in Nat
  /\ Cardinality(Nodes) = Cardinality(Popups) + Cardinality(Menus)
                          + Cardinality(Dialogs) + Cardinality(Sheets)

VARIABLES sub, queue

subVars == <<sub, queue>>

\* What takes touches: all of the view (no area is set), the one pixel of
\* MIN_WINDOW_HOT_AREA, or the areas of some nodes.
Minimal == {-1}
Everywhere == {}

Decorations == {"eventColumn", "pixelMap", "filter"}

SubInit ==
  /\ sub = [window |-> FALSE, child |-> FALSE, parent |-> TRUE, host |-> TRUE,
            isRosenWindowCreate |-> FALSE, overlay |-> {}, toast |-> FALSE, decor |-> {},
            visible |-> FALSE, modal |-> FALSE, focusable |-> TRUE, touchable |-> TRUE,
            hotAreas |-> Everywhere, hotAreasMap |-> {}, parentDialogs |-> FALSE,
            popupTargetId |-> -1, isShowed |-> FALSE, haveDialog |-> FALSE,
            isToastWindow |-> FALSE, isMenuWindow |-> FALSE, needAvoidKeyboard |-> FALSE,
            announced |-> "none"]
  /\ queue = <<>>

SubwindowIos ==
  [window : BOOLEAN, child : BOOLEAN, parent : BOOLEAN, host : BOOLEAN,
   isRosenWindowCreate : BOOLEAN, overlay : SUBSET Nodes, toast : BOOLEAN,
   decor : SUBSET Decorations, visible : BOOLEAN, modal : BOOLEAN, focusable : BOOLEAN,
   touchable : BOOLEAN, hotAreas : SUBSET (Nodes \cup Minimal), hotAreasMap : SUBSET Nodes,
   parentDialogs : BOOLEAN, popupTargetId : Popups \cup {-1}, isShowed : BOOLEAN,
   haveDialog : BOOLEAN, isToastWindow : BOOLEAN, isMenuWindow : BOOLEAN,
   needAvoidKeyboard : BOOLEAN, announced : {"none", "added", "removed"}]

SubTypeOK ==
  /\ sub \in SubwindowIos
  /\ queue \in Seq({"outside", "background"}) /\ Len(queue) <= MaxQueue

-----------------------------------------------------------------------------
(***************************************************************************)
(* The window.                                                             *)
(***************************************************************************)
\* The areas of a node replace those of the others on the window, not in the map.
SetHotAreas(s, overlayId) ==
  [s EXCEPT !.hotAreas = {overlayId},
            !.hotAreasMap = IF overlayId >= 0 THEN @ \cup {overlayId} ELSE @]

DeleteHotAreas(s, overlayId) ==
  LET left == s.hotAreasMap \ {overlayId}
  IN  [s EXCEPT !.hotAreasMap = left, !.hotAreas = left]

clearStatus(s) ==
  [s EXCEPT !.isMenuWindow = FALSE, !.isToastWindow = FALSE, !.needAvoidKeyboard = FALSE]

\* mutant: the menu's way to hide, which leaves isShowed_ alone.
HideWindowKeepsShowed(s) ==
  LET free == [s EXCEPT !.modal = FALSE]
      gone == [free EXCEPT !.visible = FALSE]
  IN  IF ~s.child THEN s
      ELSE IF ~s.visible THEN free
      ELSE IF ~s.parent THEN gone
      ELSE clearStatus([gone EXCEPT !.announced = "removed"])

\* The view can only be hidden while it is on the screen.
HideWindow(s) ==
  LET free == [s EXCEPT !.modal = FALSE]
      gone == [free EXCEPT !.visible = FALSE]
  IN  IF ~s.child THEN s
      ELSE IF ~s.visible THEN free
      ELSE IF ~s.parent THEN gone
      ELSE clearStatus([gone EXCEPT !.isShowed = FALSE, !.announced = "removed"])

\* The view can only be shown on a controller of the stage.
ShowWindow(s, needFocus) ==
  LET first == IF s.isToastWindow THEN HideWindow(s) ELSE s
      asked == [SetHotAreas(first, -1) EXCEPT !.focusable = needFocus]
      shown == [asked EXCEPT !.visible = TRUE]
  IN  IF ~s.host THEN asked
      ELSE IF asked.isShowed \/ ~s.child THEN shown
      ELSE [shown EXCEPT !.isShowed = TRUE, !.announced = "added"]

\* ShowSubWindow of a node of kind: its hot areas come with its layout.
Place(s, node) == SetHotAreas([s EXCEPT !.overlay = @ \cup {node}], node)

\* HideEventColumn, HidePixelMap and HideFilter, all of the page's overlay.
Undecorate(s, decorations) == IF s.parent THEN [s EXCEPT !.decor = @ \ decorations] ELSE s

-----------------------------------------------------------------------------
(***************************************************************************)
(* What the engine shows and hides.                                        *)
(***************************************************************************)
ShowPopupNG(s, targetId, focusable, isAvoidKeyboard) ==
  LET named == [s EXCEPT !.popupTargetId = targetId]
      shown == [ShowWindow(named, focusable) EXCEPT !.touchable = TRUE,
                                                    !.needAvoidKeyboard = isAvoidKeyboard]
  IN  IF s.child THEN [Place(shown, targetId) EXCEPT !.focusable = TRUE] ELSE named

\* mutant: hiding a popup forgets it, with another id than the -1 that stands for none.
HidePopupOnce(s, targetId) ==
  IF ~s.child THEN s
  ELSE [s EXCEPT !.overlay = @ \ {IF targetId = -1 THEN s.popupTargetId ELSE targetId},
                 !.popupTargetId = 0]

\* With -1, as the page's background asks, the popup that was shown last.
HidePopupNG(s, targetId) ==
  IF ~s.child THEN s
  ELSE Undecorate([s EXCEPT !.overlay = @ \ {IF targetId = -1 THEN s.popupTargetId ELSE targetId}],
                  Decorations)

ClearPopupNG(s) ==
  IF s.child THEN HideWindow([s EXCEPT !.overlay = @ \ Popups]) ELSE s

\* mutant: the window is a menu's even if it could not be shown.
ShowMenuAnyway(s, menu) ==
  LET shown == ShowWindow(s, TRUE)
  IN  IF s.child THEN Place([shown EXCEPT !.isMenuWindow = TRUE, !.touchable = TRUE], menu)
      ELSE s

ShowMenuNG(s, menu) ==
  LET shown == ShowWindow(s, TRUE)
  IN  IF s.child
      THEN Place([shown EXCEPT !.isMenuWindow = shown.isShowed, !.touchable = TRUE], menu)
      ELSE s

\* The menu goes with an animation; isShowed_ is cleared though the window stays.
HideMenuNG(s, menu) ==
  LET hidden == [s EXCEPT !.isShowed = FALSE]
  IN  IF ~s.isShowed THEN s
      ELSE IF ~s.child THEN hidden
      ELSE Undecorate([hidden EXCEPT !.overlay = @ \ {menu}], Decorations)

\* All menus, and the window with them; -1 is the target of a touch outside.
ClearMenuNG(s, inWindow) ==
  IF ~s.isMenuWindow \/ ~s.child THEN s
  ELSE Undecorate(HideWindow([s EXCEPT !.overlay = @ \ Menus]),
                  IF inWindow THEN Decorations ELSE Decorations \ {"eventColumn"})

\* ShowDialogNG and OpenCustomDialogNG.  The page is told once where its dialogs are.
ShowDialogNG(s, dialog, isModal) ==
  LET first == s.overlay \cap Dialogs = {}
      shown == ShowWindow([s EXCEPT !.parentDialogs = @ \/ first, !.modal = isModal], TRUE)
  IN  IF ~s.child \/ (first /\ ~s.parent) THEN s
      ELSE Place([shown EXCEPT !.touchable = TRUE, !.haveDialog = TRUE], dialog)

\* CloseDialogNG and CloseCustomDialogNG.
CloseDialogNG(s, dialog) == IF s.child THEN [s EXCEPT !.overlay = @ \ {dialog}] ELSE s

\* ShowBindSheetNG and ShowBindSheetByUIContext.
ShowBindSheetNG(s, sheet) ==
  IF s.child THEN Place([ShowWindow(s, TRUE) EXCEPT !.touchable = TRUE], sheet) ELSE s

CloseBindSheet(s, sheet) == [s EXCEPT !.overlay = @ \ {sheet}]

\* Only a top-most toast is shown in the window.
ShowToast(s, topMost) ==
  LET named == [s EXCEPT !.isToastWindow = topMost]
  IN  IF ~s.parent \/ ~topMost THEN named
      ELSE [ShowWindow(named, FALSE) EXCEPT !.touchable = FALSE, !.toast = TRUE]

ClearToast(s) ==
  IF s.isToastWindow /\ s.child THEN HideWindow([s EXCEPT !.toast = FALSE]) ELSE s

\* AceContainerSG::OnBackPressed: with the subwindow shown its topmost node goes, else the
\* page goes back, which changes nothing here.
OnBackPressed(s, top) ==
  IF s.isShowed /\ s.child THEN [s EXCEPT !.overlay = @ \ {top}] ELSE s

-----------------------------------------------------------------------------
\* CreateSubwindow, InitContainer: the window, its content, and the container's view.
InitContainer ==
  /\ ~sub.isRosenWindowCreate /\ sub.parent
  /\ \E made \in {"nothing", "window", "all"} :
       sub' = [sub EXCEPT !.window = @ \/ made # "nothing", !.child = @ \/ made = "all",
                          !.isRosenWindowCreate = made = "all"]
  /\ UNCHANGED queue

\* The engine uses a subwindow only if InitContainer said that it was made.
Does(s) == sub.isRosenWindowCreate /\ sub' = s /\ UNCHANGED queue

Show ==
  \/ \E p \in Popups, focusable, isAvoidKeyboard \in BOOLEAN :
       Does(ShowPopupNG(sub, p, focusable, isAvoidKeyboard))
  \/ \E m \in Menus : Does(ShowMenuNG(sub, m))
  \/ \E d \in Dialogs, isModal \in BOOLEAN : Does(ShowDialogNG(sub, d, isModal))
  \/ \E n \in Sheets : Does(ShowBindSheetNG(sub, n))
  \/ \E topMost \in BOOLEAN : Does(ShowToast(sub, topMost))

HideNode ==
  \/ \E p \in Popups : Does(HidePopupNG(sub, p))
  \/ \E m \in Menus : Does(HideMenuNG(sub, m))
  \/ \E d \in Dialogs : Does(CloseDialogNG(sub, d))
  \/ \E n \in Sheets : Does(CloseBindSheet(sub, n))

\* SubwindowManager's calls for all nodes of a kind.
Clear ==
  \/ \E inWindow \in BOOLEAN : Does(ClearMenuNG(sub, inWindow))
  \/ Does(ClearPopupNG(sub))
  \/ Does(ClearToast(sub))

\* UIContentImpl::ProcessBackPressed of the page.
ProcessBackPressed == sub.parent /\ \E top \in sub.overlay : Does(OnBackPressed(sub, top))

\* The animation of a node that was hidden ends: its areas go, and the window when
\* nothing is left on its overlay.
NodeGone ==
  \E n \in sub.hotAreasMap \ sub.overlay :
    LET s == DeleteHotAreas(sub, n)
    IN  Does(IF s.overlay = {} THEN HideWindow(s) ELSE s)

\* A menu's preview decorates the page.
Decorate == sub.parent /\ sub.isMenuWindow /\ Does([sub EXCEPT !.decor = Decorations])

\* Another controller than the stage's comes to the top, and goes.
HostChanges == Does([sub EXCEPT !.host = ~@])

\* The page's content is replaced; its subwindow stays with the window.
ParentReplaced == Does([sub EXCEPT !.parent = FALSE, !.decor = {}])

\* The page's window is destroyed, and the subwindow's with it.
ParentDestroyed ==
  Does([sub EXCEPT !.parent = FALSE, !.child = FALSE, !.host = FALSE, !.visible = FALSE,
                   !.overlay = {}, !.decor = {}])

\* A touch that the hot areas do not take, and the page's background.
Listen(task) ==
  /\ sub.child /\ sub.parent /\ Len(queue) < MaxQueue
  /\ task = "outside" =>
       sub.visible /\ ~sub.modal /\ sub.touchable /\ sub.hotAreas # Everywhere
  /\ queue' = Append(queue, task)
  /\ UNCHANGED sub

RunTask ==
  /\ queue # <<>>
  /\ sub' = CASE Head(queue) = "outside" -> ClearPopupNG(ClearMenuNG(sub, TRUE))
              [] Head(queue) = "background" -> HidePopupNG(sub, -1)
  /\ queue' = Tail(queue)

SubNext ==
  \/ InitContainer
  \/ Show \/ HideNode \/ Clear
  \/ NodeGone \/ Decorate \/ ProcessBackPressed
  \/ HostChanges \/ ParentReplaced \/ ParentDestroyed
  \/ \E task \in {"outside", "background"} : Listen(task)
  \/ RunTask

SubSpec == SubInit /\ [][SubNext]_subVars

-----------------------------------------------------------------------------
(***************************************************************************)
(* Properties.                                                             *)
(***************************************************************************)
\* While the page lives: the subwindow is on the screen exactly if the last that
\* accessibility was told of it is that it was added, whatever shows, hides, clears and
\* failed attachments come in between, and though HideMenuNG clears isShowed_ early.
VisibleIsAnnounced ==
  sub.parent => (sub.visible <=> sub.announced = "added")

\* The flags by which ClearMenuNG and HideMenuNG decide never hold of a window that is
\* not on the screen, so neither waits for the end of a menu that cannot be seen.
FlagsNameVisible ==
  sub.parent => ((sub.isShowed \/ sub.isMenuWindow) => sub.visible)

\* As long as the page lives, the window that InitContainer made has its container: an
\* operation that asks for it only after it has shown the window shows nothing unannounced.
MadeIsThere ==
  sub.isRosenWindowCreate /\ sub.parent => sub.child

\* A subwindow on the screen was announced, one that has gone was announced gone, and its
\* flags name what it shows.
SubwindowAgrees ==
  SubTypeOK /\ VisibleIsAnnounced /\ FlagsNameVisible /\ MadeIsThere

\* "Default toast needs not to be clear" (ClearToast): a window that shows a top-most
\* toast is a toast window, so ClearToast hides it.
TopMostToastIsKnown == sub.toast /\ sub.visible => sub.isToastWindow
=============================================================================
