---------------------------- MODULE StageWindows ----------------------------
(***************************************************************************)
(* The windows of one StageViewController: the views in its                *)
(* StageContainerView, which of them is active, and what the ArkUI content *)
(* of each is told of focus and foreground.                                *)
(*                                                                         *)
(* The way is long.  The container tells a WindowView, which tells its     *)
(* Rosen::Window, which tells its UIContent.  The main window's view is    *)
(* there before the window is made and a window before its content, and    *)
(* what cannot be told yet is noted in a flag and told later.              *)
(*                                                                         *)
(* All of it runs on the main thread: a handler is one step, written as a  *)
(* function from the record of views and windows to what it leaves behind. *)
(***************************************************************************)
EXTENDS Naturals, SequencesExt

CONSTANTS
  Windows,
  mainWindow,
  zOrder,         \* of each window's view: SetOnTop, which changes it, is called by
                  \* CreateDragWindow only, before the window is shown
  Filled,         \* bound: windows that get a content
  Reloading       \* bound: windows whose content may be replaced

ASSUME WindowsAssumption ==
  /\ mainWindow \in Windows
  /\ zOrder \in [Windows -> Nat]
  /\ Reloading \subseteq Filled /\ Filled \subseteq Windows

VARIABLES
  ui,             \* the views, the windows, the subviews and the active window
  controller,     \* is the StageViewController loaded, shown or hidden?
  app             \* the application's state

uiVars == <<ui, controller, app>>

View == [focusable : BOOLEAN, isFocused : BOOLEAN, needNotifyForground : BOOLEAN,
         needNotifyFocus : BOOLEAN]

\* made: is there a window, and does its view know it?  toldFocus and toldForeground
\* are the last the current content was told.
Window == [made : BOOLEAN, focusable : BOOLEAN, isFocused : BOOLEAN,
           isWindowShow : BOOLEAN, delayNotifyFocusChanged : BOOLEAN,
           content : {"none", "first", "replaced"},
           toldFocus : BOOLEAN, toldForeground : BOOLEAN]

UI == [view : [Windows -> View], win : [Windows -> Window],
       subviews : Seq(Windows), activeWindow : Windows]

UITypes ==
  /\ ui \in UI /\ IsInjective(ui.subviews)
  /\ controller \in {"loaded", "shown", "hidden"}
  /\ app \in {"active", "inactive", "background"}

\* After viewDidLoad: setMainWindow has made the main window's view active.
UIInit ==
  /\ ui = [view |-> [w \in Windows |->
                      [focusable |-> TRUE, isFocused |-> w = mainWindow,
                       needNotifyForground |-> FALSE, needNotifyFocus |-> w = mainWindow]],
           win |-> [w \in Windows |->
                      [made |-> FALSE, focusable |-> TRUE, isFocused |-> FALSE,
                       isWindowShow |-> FALSE, delayNotifyFocusChanged |-> FALSE,
                       content |-> "none", toldFocus |-> FALSE, toldForeground |-> FALSE]],
           subviews |-> <<mainWindow>>,
           activeWindow |-> mainWindow]
  /\ controller = "loaded" /\ app = "active"

-----------------------------------------------------------------------------
(***************************************************************************)
(* WindowView and Window.                                                  *)
(***************************************************************************)
\* s with another view, or window, of w.
WithView(s, w, view) == [s EXCEPT !.view[w] = view]
WithWindow(s, w, win) == [s EXCEPT !.win[w] = win]

HasContent(s, w) == s.win[w].made /\ s.win[w].content # "none"

\* mutant: a window without content does not remember its focus for it.
NotifyFocusChangedForgets(s, w, focus) ==
  LET win == s.win[w] IN
  IF win.made
  THEN WithWindow(s, w, [win EXCEPT !.isFocused = focus,
         !.toldFocus = IF HasContent(s, w) THEN focus ELSE win.toldFocus])
  ELSE WithView(s, w, [s.view[w] EXCEPT !.needNotifyFocus = TRUE])

\* notifyFocusChanged and WindowFocusChanged.
NotifyFocusChanged(s, w, focus) ==
  LET win == s.win[w] IN
  IF win.made
  THEN WithWindow(s, w, [win EXCEPT !.isFocused = focus,
         !.toldFocus = IF HasContent(s, w) THEN focus ELSE win.toldFocus,
         !.delayNotifyFocusChanged = win.delayNotifyFocusChanged \/ ~HasContent(s, w)])
  ELSE WithView(s, w, [s.view[w] EXCEPT !.needNotifyFocus = TRUE])

SetIsFocused(s, w, focus) ==
  LET can == focus /\ s.view[w].focusable
  IN  NotifyFocusChanged(WithView(s, w, [s.view[w] EXCEPT !.isFocused = can]), w, can)

\* setWindowFocusable of the view.
SetViewFocusable(s, w, focusable) ==
  LET set == WithView(s, w, [s.view[w] EXCEPT !.focusable = focusable])
  IN  IF focusable THEN set ELSE SetIsFocused(set, w, FALSE)

\* Window::Foreground: the window is shown, and its content hears of it.
AfterForeground(s, w) ==
  LET win == s.win[w]
  IN  WithWindow(s, w, [win EXCEPT !.isWindowShow = TRUE,
                                  !.toldForeground = win.toldForeground \/ HasContent(s, w)])

AfterBackground(s, w) ==
  WithWindow(s, w, [s.win[w] EXCEPT !.isWindowShow = FALSE, !.toldForeground = FALSE])

\* mutant: a view without a window does not remember that it is in the foreground.
NotifyForegroundForgets(s, w) == IF s.win[w].made THEN AfterForeground(s, w) ELSE s

\* notifyForeground and Foreground.
NotifyForeground(s, w) ==
  IF s.win[w].made THEN AfterForeground(s, w)
  ELSE WithView(s, w, [s.view[w] EXCEPT !.needNotifyForground = TRUE])

NotifyBackground(s, w) == IF s.win[w].made THEN AfterBackground(s, w) ELSE s

\* WindowActiveChanged.
NotifyActiveChanged(s, w, isActive) ==
  IF HasContent(s, w)
  THEN WithWindow(s, w, [s.win[w] EXCEPT !.toldFocus = isActive /\ s.win[w].isFocused])
  ELSE s

\* Of the delayed notifications, those of the focus: the others are repeated always.
DelayNotifyUIContentIfNeeded(s, w) ==
  LET win == s.win[w] IN
  IF HasContent(s, w) /\ win.delayNotifyFocusChanged
  THEN WithWindow(s, w, [win EXCEPT !.toldFocus = win.isFocused,
                                   !.delayNotifyFocusChanged = FALSE])
  ELSE s

\* What the view has noted it tells its new window.
TellForeground(s, w) ==
  IF s.view[w].needNotifyForground
  THEN NotifyForeground(WithView(s, w, [s.view[w] EXCEPT !.needNotifyForground = FALSE]), w)
  ELSE s

TellFocus(s, w) ==
  IF s.view[w].needNotifyFocus
  THEN NotifyFocusChanged(WithView(s, w, [s.view[w] EXCEPT !.needNotifyFocus = FALSE]),
                          w, s.view[w].isFocused)
  ELSE s

SetWindowDelegate(s, w) ==
  TellFocus(TellForeground(WithWindow(s, w, [s.win[w] EXCEPT !.made = TRUE]), w), w)

-----------------------------------------------------------------------------
(***************************************************************************)
(* StageContainerView.                                                     *)
(***************************************************************************)
\* Always the topmost view, whichever window is meant.
SyncContentViewFocusable(s, focusable) ==
  IF s.subviews = <<>> THEN s ELSE SetViewFocusable(s, Last(s.subviews), focusable)

\* mutant: the window that was active is not told.
SetActiveWindowOnly(s, w) ==
  IF s.activeWindow = w \/ ~s.view[w].focusable THEN s
  ELSE SyncContentViewFocusable(
         SetIsFocused([s EXCEPT !.activeWindow = w], w, TRUE), TRUE)

SetActiveWindow(s, w) ==
  IF s.activeWindow = w \/ ~s.view[w].focusable THEN s
  ELSE SyncContentViewFocusable(
         SetIsFocused([SetIsFocused(s, s.activeWindow, FALSE) EXCEPT !.activeWindow = w],
                      w, TRUE), TRUE)

\* removeFromSuperview; a view has one place at most.
Without(views, w) ==
  IF Contains(views, w) THEN RemoveAt(views, CHOOSE k \in DOMAIN views : views[k] = w) ELSE views

\* The places of views above which w does not come.
Higher(views, w) == {k \in DOMAIN views : views[k] # mainWindow /\ zOrder[w] < zOrder[views[k]]}

\* mutant: a view that is shown already is inserted a second time.
InsertedAgain(views, w) ==
  LET higher == IF w = mainWindow THEN {} ELSE Higher(views, w)
  IN  IF higher = {} THEN {Append(views, w)}
      ELSE {InsertAt(views, k, w) : k \in {i \in higher : \A j \in higher : i <= j}}

\* addSubview and insertSubview move a view that is there already.  The main window
\* comes on top, another one below the first that has a higher zOrder: the one way there is.
Inserted(views, w) ==
  LET others == Without(views, w)
      higher == IF w = mainWindow THEN {} ELSE Higher(others, w)
  IN  IF higher = {} THEN {Append(others, w)}
      ELSE {InsertAt(others, k, w) : k \in {i \in higher : \A j \in higher : i <= j}}

\* The view of w is among views now.
ShowView(s, w, views) ==
  LET inserted == [s EXCEPT !.subviews = views] IN
  IF w = mainWindow THEN inserted
  ELSE SyncContentViewFocusable(
         IF s.view[w].focusable THEN SetActiveWindow(inserted, w) ELSE inserted,
         s.view[w].focusable)

HiddenWindow(s, w) == SetActiveWindow([s EXCEPT !.subviews = Without(@, w)], mainWindow)

\* What the container passes on to all subviews: each changes what is its own only.
ForAllViews(s, Op(_, _)) ==
  [s EXCEPT !.view = [w \in Windows |-> IF Contains(s.subviews, w) THEN Op(s, w).view[w]
                                        ELSE s.view[w]],
            !.win = [w \in Windows |-> IF Contains(s.subviews, w) THEN Op(s, w).win[w]
                                       ELSE s.win[w]]]

NotifyActiveChangedAll(s, isActive) ==
  ForAllViews(SetIsFocused(s, s.activeWindow, isActive),
              LAMBDA t, w : NotifyActiveChanged(t, w, isActive))

NotifyForegroundAll(s) == ForAllViews(s, NotifyForeground)
NotifyBackgroundAll(s) == ForAllViews(s, NotifyBackground)

-----------------------------------------------------------------------------
(***************************************************************************)
(* What the ability, ArkUI and the user do.                                *)
(***************************************************************************)
Changes(s) == ui' = s /\ UNCHANGED <<controller, app>>

\* Window::Create for the main window, CreateSubWindow for another, which the main
\* window's container asks for.
Create(w) ==
  /\ ~ui.win[w].made /\ (w # mainWindow => ui.win[mainWindow].made)
  /\ Changes(SetWindowDelegate(ui, w))

\* The content there was is destroyed, and the new one was told nothing yet.
SetUIContent(w) ==
  LET win == ui.win[w]
      set == WithWindow(ui, w, [win EXCEPT
               !.content = IF win.content = "none" THEN "first" ELSE "replaced",
               !.toldFocus = FALSE,
               !.toldForeground = win.isWindowShow /\ app # "background"])
  IN
  /\ win.made
  /\ w \in IF win.content = "none" THEN Filled ELSE Reloading
  /\ Changes(DelayNotifyUIContentIfNeeded(set, w))

\* The window is shown in the container of the top controller: this one.
ShowWindow(w) ==
  /\ ui.win[w].made /\ controller = "shown"
  /\ \E views \in Inserted(ui.subviews, w) :
       Changes(AfterForeground(DelayNotifyUIContentIfNeeded(ShowView(ui, w, views), w), w))

Hide(w) ==
  /\ ui.win[w].made /\ Contains(ui.subviews, w)
  /\ Changes(AfterBackground(HiddenWindow(ui, w), w))

SetFocusable(w, focusable) ==
  LET set == SetViewFocusable(ui, w, focusable) IN
  /\ ui.win[w].made
  /\ Changes(WithWindow(set, w, [set.win[w] EXCEPT !.focusable = focusable]))

\* The container is the view's superview, if it has one.
RequestFocus(w) ==
  /\ ui.win[w].made /\ ui.win[w].focusable /\ ui.win[w].isWindowShow
  /\ ui.view[w].focusable /\ Contains(ui.subviews, w)
  /\ Changes(SetActiveWindow(ui, w))

\* hitTest: a touch on the view of a window that is not active.
Touch(w) ==
  /\ controller = "shown" /\ app = "active"
  /\ Contains(ui.subviews, w) /\ w # ui.activeWindow
  /\ Changes(SetActiveWindow(IF w = mainWindow THEN ui
                             ELSE [ui EXCEPT !.subviews = Append(Without(@, w), w)], w))

-----------------------------------------------------------------------------
(***************************************************************************)
(* The controller and the application.                                     *)
(***************************************************************************)
ViewWillAppear ==
  /\ controller # "shown" /\ app # "background"
  /\ controller' = "shown"
  /\ ui' = NotifyActiveChangedAll(NotifyForegroundAll(ui), TRUE)
  /\ UNCHANGED app

ViewDidDisappear ==
  /\ controller = "shown" /\ app # "background"
  /\ controller' = "hidden"
  /\ ui' = NotifyActiveChangedAll(NotifyBackgroundAll(ui), FALSE)
  /\ UNCHANGED app

\* The container of every controller there is, shown or not, observes these two.
ApplicationBecameActive ==
  /\ app = "inactive" /\ app' = "active"
  /\ ui' = NotifyActiveChangedAll(ui, TRUE)
  /\ UNCHANGED controller

ApplicationWillResignActive ==
  /\ app = "active" /\ app' = "inactive"
  /\ ui' = NotifyActiveChangedAll(ui, FALSE)
  /\ UNCHANGED controller

ApplicationDidEnterBackground ==
  /\ app = "inactive" /\ app' = "background"
  /\ ui' = IF controller = "shown" THEN NotifyBackgroundAll(ui) ELSE ui
  /\ UNCHANGED controller

ApplicationWillEnterForeground ==
  /\ app = "background" /\ app' = "inactive"
  /\ ui' = IF controller = "shown" THEN NotifyForegroundAll(ui) ELSE ui
  /\ UNCHANGED controller

-----------------------------------------------------------------------------
UINext ==
  \/ \E w \in Windows :
       \/ Create(w) \/ SetUIContent(w) \/ ShowWindow(w) \/ Hide(w)
       \/ RequestFocus(w) \/ Touch(w)
       \/ \E focusable \in BOOLEAN : SetFocusable(w, focusable)
  \/ ViewWillAppear \/ ViewDidDisappear
  \/ ApplicationBecameActive \/ ApplicationWillResignActive
  \/ ApplicationDidEnterBackground \/ ApplicationWillEnterForeground

UISpec == UIInit /\ [][UINext]_uiVars

-----------------------------------------------------------------------------
Seen == controller = "shown" /\ app # "background"

\* At most one window of a container has the focus, and it is the active one, however
\* windows are shown, hidden, touched, made focusable or not.
OneFocus == \A w \in Windows : ui.view[w].isFocused => w = ui.activeWindow

\* The content of a window knows whether the window has the focus, in whatever order
\* view, window and content were made and the focus came and went.  A content that
\* replaces another is the exception: nobody tells it.
FocusReachesContent ==
  \A w \in Windows : ui.win[w].content = "first" =>
    /\ ui.win[w].isFocused <=> ui.view[w].isFocused
    /\ ui.win[w].toldFocus <=> ui.win[w].isFocused

\* While the user sees the container, all contents in it were told Foreground last.
ForegroundReachesContent ==
  Seen => \A w \in ToSet(ui.subviews) : HasContent(ui, w) => ui.win[w].toldForeground

-----------------------------------------------------------------------------
(***************************************************************************)
(* The inductive invariant, of what is left behind by a handler, and by    *)
(* each of the methods it calls.                                           *)
(***************************************************************************)
\* What cannot be told of the focus yet is noted: by the view while it has no window, by
\* the window while it has no content.
CarriesFocus(s, w) ==
  LET view == s.view[w]  win == s.win[w] IN
  /\ view.isFocused => w = s.activeWindow
  /\ ~win.made => /\ win.content = "none" /\ ~win.isFocused
                  /\ view.isFocused => view.needNotifyFocus
  /\ win.made => /\ win.isFocused <=> view.isFocused
                 /\ win.content = "none" => (win.isFocused => win.delayNotifyFocusChanged)
                 /\ win.content = "first" => (win.toldFocus <=> win.isFocused)

\* Nor of the foreground.
CarriesForeground(s, w) ==
  LET win == s.win[w] IN
  IF win.made THEN win.isWindowShow /\ (win.content # "none" => win.toldForeground)
  ELSE s.view[w].needNotifyForground

FocusIsCarried(s) == \A w \in Windows : CarriesFocus(s, w)
ForegroundIsCarried(s) == \A w \in ToSet(s.subviews) : CarriesForeground(s, w)

\* The active window alone has the focus, and contents know of focus and foreground, in
\* whatever order view, window and content came.
ContentsKnow ==
  /\ UITypes /\ OneFocus /\ FocusReachesContent /\ ForegroundReachesContent
  /\ FocusIsCarried(ui)
  /\ Seen => ForegroundIsCarried(ui)
=============================================================================
