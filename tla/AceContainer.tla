---------------------------- MODULE AceContainer ----------------------------
(***************************************************************************)
(* The ArkUI content of one window: UIContentImpl, the AceContainerSG it   *)
(* owns, the AceViewSG between them and the pipeline that draws.  A window *)
(* gets a new content whenever a page is loaded into it; popups and        *)
(* dialogs bring containers of their own.                                  *)
(*                                                                         *)
(* There is one thread.  UIKit and the window call the content at any      *)
(* moment, and what the content has to do with its pipeline it posts to    *)
(* the main queue, for the UI, the JS and the platform thread are all the  *)
(* main thread.  A container is thus destroyed while tasks for it are      *)
(* still queued, and a task may hold the container, its pipeline, or only  *)
(* a weak reference to one of them.  PostSyncTask runs its task at once.   *)
(*                                                                         *)
(* A call is a step, written as a function on the record ace of the        *)
(* containers, the tables that name them and the queue.  The frontend runs *)
(* the page's JavaScript; a content has one of its own, a popup its        *)
(* parent's.                                                               *)
(***************************************************************************)
EXTENDS Integers, SequencesExt

CONSTANTS
  Contents,       \* the containers of the window's successive contents
  Subs,           \* the containers of its popups and dialogs
  None,
  Sizes, Areas,   \* of the surface, and of its avoid area
  Configs,
  Following,      \* the configurations whose font follows the system's
  MaxTasks,       \* bound: nothing is called while this many tasks are queued
  MaxCalls        \* bound: calls of UIKit and the window

ASSUME AceAssumption ==
  /\ Contents \cap Subs = {} /\ IsFiniteSet(Subs) /\ None \notin Contents \cup Subs
  /\ None \notin Sizes \cup Areas \cup Configs
  /\ Following \subseteq Configs
  /\ MaxTasks \in Nat /\ MaxCalls \in Nat

Ids == Contents \cup Subs

VARIABLES ace, window, calls

aceVars == <<ace, window, calls>>

\* What a pipeline knows of its window, and what the window told its content.
Fields == {"shown", "focused", "size", "area", "config", "font"}
Words ==
  {"show", "hide", "active", "inactive", "system", "one", None} \cup Sizes \cup Areas \cup Configs \cup Contents
Knowledge == [Fields -> Words]

Unknown == [field \in Fields |-> None]

\* pipe: the container's (live), on its way out (leaving), or destroyed; front: the
\* content whose frontend it has.
Fresh == [pipe |-> "none", view |-> FALSE, front |-> None, state |-> None, lastConfig |-> None,
          seen |-> Unknown, told |-> Unknown]

Dead == [Fresh EXCEPT !.pipe = "dead"]

ContainerStates ==
  [pipe : {"none", "live", "leaving", "dead"}, view : BOOLEAN, front : Contents \cup {None},
   state : {"show", "hide", None}, lastConfig : Configs \cup {None},
   seen : Knowledge, told : Knowledge]

Task ==
  [op : {"start", "state", "focus", "config", "viewport", "size", "area", "keyboard", "event",
         "finish", "collect", "endPipeline", "endFrontend", "remove"},
   id : Ids,
   v : Words]

AceStates ==
  [ctn : [Ids -> ContainerStates], engine : SUBSET Ids, windowIds : SUBSET Ids,
   modules : SUBSET Ids, observers : SUBSET Ids, adapters : SUBSET Ids,
   queue : Seq(Task), late : BOOLEAN,
   ended : SUBSET Contents, asked : SUBSET Contents, done : SUBSET Contents]

\* registered: the content UIContent has under the key of the window.
WindowStates ==
  [content : Contents \cup {None}, registered : Contents \cup {None}, isWindowShow : BOOLEAN,
   isFocused : BOOLEAN, delayNotifyFocusChanged : BOOLEAN, delayNotifySurfaceDestroyed : BOOLEAN,
   surface : Sizes \cup {None}, insets : Areas, avoidArea : Areas \cup {None},
   insetsChanged : BOOLEAN, listeners : Seq(Contents)]

AceTypes == ace \in AceStates /\ window \in WindowStates /\ calls \in 0 .. MaxCalls

AceInit ==
  /\ ace = [ctn |-> [id \in Ids |-> Fresh], engine |-> {}, windowIds |-> {}, modules |-> {},
            observers |-> {}, adapters |-> {}, queue |-> <<>>,
            late |-> FALSE, ended |-> {}, asked |-> {}, done |-> {}]
  /\ \E area \in Areas :
       window = [content |-> None, registered |-> None, isWindowShow |-> FALSE,
                 isFocused |-> FALSE, delayNotifyFocusChanged |-> FALSE, surface |-> None, insets |-> area,
                 avoidArea |-> None, insetsChanged |-> FALSE, listeners |-> <<>>,
                 delayNotifySurfaceDestroyed |-> FALSE]
  /\ calls = 0

-----------------------------------------------------------------------------
\* What a loop over a list does that does D to each; in this form TLAPS can reason about it.
ForEach(D(_, _), s, list) ==
  LET walk[k \in 0 .. Len(list)] == IF k = 0 THEN s ELSE D(walk[k - 1], list[k])
  IN  walk[Len(list)]

(***************************************************************************)
(* References.                                                             *)
(***************************************************************************)
PostTask(s, op, id, v) == [s EXCEPT !.queue = Append(@, [op |-> op, id |-> id, v |-> v])]

GetContainer(s, id) == id \in s.engine
GetPipelineContext(s, id) == s.ctn[id].pipe = "live"

\* Does a weak reference to the pipeline still find it?  The task that is to destroy it
\* holds it, and so do start and avoid area tasks.
Upgrade(s, id) ==
  \/ s.ctn[id].pipe \in {"live", "leaving"}
  \/ \E i \in DOMAIN s.queue : s.queue[i].id = id /\ s.queue[i].op \in {"start", "area"}

\* A call on the pipeline of id; late notes one that comes after its Destroy.
Call(s, id) == [s EXCEPT !.late = @ \/ s.ctn[id].pipe = "dead"]

\* The same for a container, which the tasks hold that ask it for its pipeline.
UpgradeContainer(s, id) ==
  \/ GetContainer(s, id)
  \/ \E i \in DOMAIN s.queue : s.queue[i].id = id
                             /\ s.queue[i].op \in {"state", "focus", "keyboard"}

\* And for a frontend, which the containers hold that have it, and the task that ends it.
UpgradeFrontend(s, f) ==
  \/ \E id \in Ids : s.ctn[id].front = f
  \/ \E i \in DOMAIN s.queue : s.queue[i].op = "endFrontend" /\ s.queue[i].id = f

\* A call of the frontend of f, by a content; late notes one that comes after its Destroy.
CallFrontend(s, id, f) == [s EXCEPT !.late = @ \/ (id \in Contents /\ f \in s.ended)]

\* OnConfigurationUpdated, OnNewRequest: at once, if the container has a frontend still.
ToFrontend(s, id) ==
  IF GetContainer(s, id) /\ s.ctn[id].front # None THEN CallFrontend(s, id, s.ctn[id].front) ELSE s

\* What a task has its container's frontend do, before it comes to the pipeline.
TellFrontend(s, id) ==
  IF s.ctn[id].front # None THEN CallFrontend(s, id, s.ctn[id].front) ELSE s

Learn(s, id, field, v) == [Call(s, id) EXCEPT !.ctn[id].seen[field] = v]
Say(s, id, field, v) == [s EXCEPT !.ctn[id].told[field] = v]

-----------------------------------------------------------------------------
(***************************************************************************)
(* UIContentImpl and the static functions of AceContainerSG.               *)
(***************************************************************************)
\* Container::UpdateState keeps a state and says whether it changed.
OnShow(s, id) ==
  IF GetContainer(s, id) /\ s.ctn[id].state # "show"
  THEN PostTask([s EXCEPT !.ctn[id].state = "show"], "state", id, "show")
  ELSE s

OnHide(s, id) ==
  IF GetContainer(s, id) /\ s.ctn[id].state # "hide"
  THEN PostTask([s EXCEPT !.ctn[id].state = "hide"], "state", id, "hide")
  ELSE s

OnActive(s, id) == IF GetContainer(s, id) THEN PostTask(s, "focus", id, "active") ELSE s
OnInactive(s, id) == IF GetContainer(s, id) THEN PostTask(s, "focus", id, "inactive") ELSE s

Foreground(s, id) == Say(OnShow(s, id), id, "shown", "show")
Background(s, id) == Say(OnHide(s, id), id, "shown", "hide")
Focus(s, id) == Say(OnActive(s, id), id, "focused", "active")
UnFocus(s, id) == Say(OnInactive(s, id), id, "focused", "inactive")

\* The avoid area at once, the size by a task that goes through the view.
UpdateViewportConfig(s, id, size, area) ==
  LET synced == IF GetPipelineContext(s, id) THEN Learn(s, id, "area", area) ELSE s
  IN  IF GetContainer(s, id)
      THEN PostTask(Say(Say(synced, id, "area", area), id, "size", size), "viewport", id, size)
      ELSE s

SetPipelineContextFont(s, id, config) ==
  Learn(s, id, "font", IF config \in Following THEN "system" ELSE "one")

\* The font scale of a configuration, which is not empty here, nor whose it follows, is set
\* at once, the rest when the task runs, and only if the configuration is not the last one.
UpdateConfiguration(s, id, config) ==
  LET scaled == SetPipelineContextFont(Say(s, id, "config", config), id, config)
  IN  IF ~GetContainer(s, id) THEN s
      ELSE IF s.ctn[id].lastConfig = config THEN scaled
      ELSE PostTask([scaled EXCEPT !.ctn[id].lastConfig = config], "config", id, config)

\* A content is registered under a key of its window.  ~UIContentImpl removes what is
\* there, although that may be the next content.
AddUIContent(w, id) == [w EXCEPT !.registered = id]
DeleteContent(w) == [w EXCEPT !.registered = None]

SameWindow(id) == IF id \in Contents THEN Contents ELSE {id}

\* The pipeline is made and knows nothing yet; the view calls it by weak references.
InitPiplineContext(s, id) == [s EXCEPT !.ctn[id] = [Fresh EXCEPT !.pipe = "live", !.view = TRUE]]

\* A popup's container takes the frontend its parent has.
InitializeFrontend(s, id, parent) == [s EXCEPT !.ctn[id].front = parent]

\* The tasks that load the theme, set up the root element and, for a content, hand its
\* storage to the frontend follow each other in the queue: one task here.  The first
\* holds the pipeline and the view.
InitThemeManager(s, id) == PostTask(s, "start", id, None)

AttachView(s, id, parent) ==
  InitThemeManager(InitializeFrontend(InitPiplineContext(s, id), id, parent), id)

SetView(s, id, parent) == IF GetContainer(s, id) THEN AttachView(s, id, parent) ELSE s

\* The container that is made is named everywhere.
CommonInitialize(s, id) ==
  [s EXCEPT !.engine = @ \cup {id}, !.windowIds = (@ \ SameWindow(id)) \cup {id},
            !.modules = @ \cup {id}, !.observers = @ \cup {id}]

InitializeSubWindow(s, id) ==
  [s EXCEPT !.engine = @ \cup {id}, !.windowIds = @ \cup {id}, !.observers = @ \cup {id}]

\* The area of the start is the pipeline's at once.
InitializeSafeArea(s, id, area) == Say(Learn(s, id, "area", area), id, "area", area)

RunPage(s, id) == ToFrontend(s, id)

Initialize(s, id, area) ==
  RunPage(InitializeSafeArea(SetView(CommonInitialize(s, id), id, id), id, area), id)

ReleaseResourceAdapter(s, id) == [s EXCEPT !.adapters = @ \ {id}]

\* UnsubscribeHighContrastChange.
Unsubscribe(s, id) == [s EXCEPT !.observers = @ \ {id}]

\* AceContainerSG::Destroy.  A popup's container has its parent's frontend.
DestroyPipeline(s, id) ==
  LET left == [Unsubscribe(ReleaseResourceAdapter(s, id), id) EXCEPT !.ctn[id].pipe = "leaving"]
      ended == PostTask(left, "endPipeline", id, None)
  IN  IF id \in Subs THEN ended
      ELSE PostTask([ended EXCEPT !.ctn[id].front = None], "endFrontend", id, None)

DestroyView(s, id) == [s EXCEPT !.ctn[id].view = FALSE]

\* That the UI and the JS thread are waited for does nothing, for they are this thread.
DestroyContainer(s, id) == PostTask(DestroyView(DestroyPipeline(s, id), id), "remove", id, None)

\* UIContentImpl::Destroy.
Destroy(s, id) ==
  LET left == [s EXCEPT !.modules = @ \ {id}]
  IN  IF GetContainer(s, id)
      THEN DestroyContainer([left EXCEPT !.windowIds = @ \ SameWindow(id)], id)
      ELSE left

-----------------------------------------------------------------------------
(***************************************************************************)
(* The window and what it tells its content.                               *)
(***************************************************************************)
Calm == Len(ace.queue) < MaxTasks
HasUIContent == window.content # None

\* mutant: the container is asked though its pipeline may be gone.
AtOnceAnyway(s, id) == IF GetContainer(s, id) THEN Call(s, id) ELSE s

\* What asks the container at once: a component's info, a layout callback, the memory level.
AtOnce(s, id) == IF GetContainer(s, id) /\ GetPipelineContext(s, id) THEN Call(s, id) ELSE s

\* A synchronous task is run at once, and asks the container for its pipeline again.
PostSyncTask(s, id) == IF GetPipelineContext(s, id) THEN Call(s, id) ELSE s
SetBackgroundColor(s, id) == IF GetContainer(s, id) THEN PostSyncTask(s, id) ELSE s

SetIgnoreViewSafeArea(s, id) ==
  IF GetContainer(s, id) /\ GetPipelineContext(s, id) THEN PostSyncTask(s, id) ELSE s

\* What the view was told goes to the pipeline by a task; both hold it weakly.
ThroughView(s, id) == IF Upgrade(s, id) THEN PostTask(s, "event", id, None) ELSE s

NotifySurfaceDestroyed(s, id) ==
  IF GetContainer(s, id) /\ s.ctn[id].view THEN ThroughView(s, id) ELSE s

\* DelayNotifyUIContentIfNeeded; the flags for the surface are never taken back.
DelayNotify(s, id) ==
  LET sized == IF window.surface = None THEN s
               ELSE UpdateViewportConfig(AtOnce(s, id), id, window.surface, window.insets)
      left == IF window.delayNotifySurfaceDestroyed THEN NotifySurfaceDestroyed(sized, id)
              ELSE sized
  IN  IF ~window.delayNotifyFocusChanged THEN left
      ELSE IF window.isFocused THEN Focus(left, id) ELSE UnFocus(left, id)

\* SetUIContent: the old content is destroyed, and deleted when the new one is there.
\* behind: is the application in the background?
WindowSetUIContent(id, behind) ==
  /\ Calm
  /\ ace.ctn[id].pipe = "none"
  /\ LET left == IF HasUIContent THEN Destroy(ace, window.content) ELSE ace
         made == Initialize(left, id, window.insets)
         shown == IF window.isWindowShow /\ ~behind THEN Foreground(made, id) ELSE made
     IN  ace' = DelayNotify(SetIgnoreViewSafeArea(shown, id), id)
  /\ LET w == [window EXCEPT !.content = id, !.listeners = Append(@, id),
                             !.delayNotifyFocusChanged = FALSE,
                             !.delayNotifySurfaceDestroyed = FALSE]
         added == AddUIContent(w, id)
     IN  window' = IF HasUIContent THEN DeleteContent(added) ELSE added

\* A popup's or dialog's container, for the window's content.
CreateSub(id) ==
  /\ Calm /\ HasUIContent
  /\ ace.ctn[id].pipe = "none"
  /\ ace' = SetView(InitializeSubWindow(ace, id), id, window.content)
  /\ UNCHANGED window

\* Window::Destroy of a popup's window.
DestroySub(id) ==
  /\ Calm
  /\ ace.ctn[id].view
  /\ ace' = Destroy(ace, id)
  /\ UNCHANGED window

\* Window::Destroy: its content, then its sub-windows and theirs, in any order.
DestroySubWindow(s, id) == IF s.ctn[id].view THEN Destroy(s, id) ELSE s

WindowDestroy ==
  /\ Calm /\ HasUIContent
  /\ \E subWindows \in SetToSeqs(Subs) :
       ace' = ForEach(DestroySubWindow, Destroy(ace, window.content), subWindows)
  /\ window' = DeleteContent([window EXCEPT !.content = None, !.isWindowShow = FALSE,
                                            !.listeners = <<>>])

WindowForeground ==
  /\ Calm
  /\ ace' = IF HasUIContent THEN Foreground(ace, window.content) ELSE ace
  /\ window' = [window EXCEPT !.isWindowShow = TRUE]

WindowBackground ==
  /\ Calm /\ window.isWindowShow
  /\ ace' = IF HasUIContent THEN Background(ace, window.content) ELSE ace
  /\ window' = [window EXCEPT !.isWindowShow = FALSE]

ShowSub(id) ==
  /\ Calm /\ ace.ctn[id].view
  /\ ace' = Foreground(ace, id)
  /\ UNCHANGED window

HideSub(id) ==
  /\ Calm /\ ace.ctn[id].view
  /\ ace' = Background(ace, id)
  /\ UNCHANGED window

\* WindowFocusChanged.
FocusChanged(focus) ==
  /\ Calm
  /\ ace' = CASE ~HasUIContent -> ace
              [] HasUIContent /\ focus -> Focus(ace, window.content)
              [] HasUIContent /\ ~focus -> UnFocus(ace, window.content)
  /\ window' = [window EXCEPT !.isFocused = focus,
                              !.delayNotifyFocusChanged = @ \/ ~HasUIContent]

\* NotifySurfaceChanged, of a window with a surface node: without, nothing here changes.
SurfaceChanged(size) ==
  /\ Calm
  /\ ace' = IF HasUIContent THEN UpdateViewportConfig(ace, window.content, size, window.insets)
            ELSE ace
  /\ window' = [window EXCEPT !.surface = size]

\* UIKit changes the insets of the safe area, and says so before it changes them again.
InsetsChange(area) ==
  /\ ~window.insetsChanged
  /\ window' = [window EXCEPT !.insets = area, !.insetsChanged = TRUE]
  /\ UNCHANGED ace

\* mutant: the listener of a content whose pipeline is on its way out posts all the same.
OnAvoidAreaChangedAnyway(s, id, area) ==
  IF GetContainer(s, id) THEN PostTask(s, "area", id, area) ELSE s

\* AvoidAreaChangedListener::OnAvoidAreaChanged.
OnAvoidAreaChanged(s, id, area) ==
  IF GetContainer(s, id) /\ GetPipelineContext(s, id) THEN PostTask(s, "area", id, area) ELSE s

\* NotifySafeAreaChanged: the listeners of every content there ever was are called, then
\* the content itself.
NotifyAvoidAreaChange(s, area) ==
  ForEach(LAMBDA t, id : OnAvoidAreaChanged(t, id, area), s, window.listeners)

SafeAreaChanged ==
  /\ Calm /\ window.insetsChanged
  /\ LET area == window.insets
         heard == NotifyAvoidAreaChange(ace, area)
     IN  ace' = IF window.avoidArea = area THEN ace
                ELSE IF HasUIContent
                     THEN UpdateViewportConfig(heard, window.content, window.surface, area)
                     ELSE heard
  /\ window' = [window EXCEPT !.avoidArea = window.insets, !.insetsChanged = FALSE]

\* OccupiedAreaChangeListener::OnSizeChange, of every content there ever was.
OnSizeChange(s, id) == IF GetContainer(s, id) THEN PostTask(s, "keyboard", id, None) ELSE s

OccupiedAreaChanged ==
  /\ Calm
  /\ ace' = ForEach(OnSizeChange, ace, window.listeners)
  /\ UNCHANGED window

ConfigurationUpdated(config) ==
  /\ Calm /\ HasUIContent
  /\ ace' = UpdateConfiguration(ace, window.content, config)
  /\ UNCHANGED window

\* A new want brings the content to the foreground, whether the window is shown or not.
OnNewWant ==
  /\ Calm /\ HasUIContent
  /\ ace' = ToFrontend(Say(OnShow(ace, window.content), window.content, "shown", "show"),
                       window.content)
  /\ UNCHANGED window

\* The layer of the window's view is gone.
SurfaceDestroyed ==
  /\ Calm
  /\ ace' = IF HasUIContent THEN NotifySurfaceDestroyed(ace, window.content) ELSE ace
  /\ window' = [window EXCEPT !.delayNotifySurfaceDestroyed = @ \/ ~HasUIContent]

\* Calls of the container's from outside the window.
AskedAtOnce(id) ==
  /\ Calm
  /\ ace' = SetBackgroundColor(AtOnce(ace, id), id)
  /\ UNCHANGED window

\* A page asks its ability to finish, or to start another; its container posts that, and
\* the task holds it weakly.
AskFinish(id) ==
  /\ Calm
  /\ id \notin ace.asked /\ GetPipelineContext(ace, id)
  /\ ace' = PostTask([ace EXCEPT !.asked = @ \cup {id}], "finish", id, None)
  /\ UNCHANGED window

\* A touch goes to the pipeline now, a drag by a task, if the view is there.
DispatchTouchEvent ==
  /\ Calm /\ HasUIContent
  /\ LET id == window.content
     IN  ace' = IF GetContainer(ace, id) /\ ace.ctn[id].view /\ Upgrade(ace, id)
                THEN ThroughView(Call(ace, id), id)
                ELSE ace
  /\ UNCHANGED window

-----------------------------------------------------------------------------
(***************************************************************************)
(* The tasks.                                                              *)
(***************************************************************************)
\* A task that holds the container and asks it for its pipeline.
OfContainer(s, id, field, v) == IF GetPipelineContext(s, id) THEN Learn(s, id, field, v) ELSE s

\* InitThemeManager holds the pipeline; it leaves a resource adapter for the instance.
LoadTheme(s, id) == [Call(s, id) EXCEPT !.adapters = @ \cup {id}]

\* The task of SetLocalStorage, of contents only, holds the frontend weakly.
SetLocalStorage(s, id) ==
  IF id \in Contents /\ UpgradeFrontend(s, id) THEN CallFrontend(s, id, id) ELSE s

\* A container that is hidden has its frontend collect what is garbage, by a task that
\* holds the frontend weakly.
TriggerGarbageCollection(s, id) ==
  IF s.ctn[id].front = None THEN s ELSE PostTask(s, "collect", id, s.ctn[id].front)

StateChanged(s, id, state) == IF state = "hide" THEN TriggerGarbageCollection(s, id) ELSE s

\* ContentEventCallback: a popup's does nothing.
OnFinish(s, id) ==
  IF UpgradeContainer(s, id) /\ id \in Contents THEN [s EXCEPT !.done = @ \cup {id}] ELSE s

\* mutant: of a new configuration the colour is not set.
ReconfigureFont(s, id, config) ==
  IF GetPipelineContext(s, id) THEN Learn(TellFrontend(s, id), id, "font", "system") ELSE s

\* The new colour, for which the page is laid out again (FlushReload), and the font scale
\* whether or not the font follows the system's.
Reconfigure(s, id, config) ==
  IF GetPipelineContext(s, id)
  THEN Learn(Learn(TellFrontend(s, id), id, "config", config), id, "font", "system")
  ELSE s

\* The view posts the new size, if it is there and its pipeline is.
NotifySurfaceChanged(s, id, size) ==
  IF s.ctn[id].view /\ Upgrade(s, id) THEN PostTask(s, "size", id, size) ELSE s

Perform(s, t) ==
  CASE t.op = "start" -> SetLocalStorage(LoadTheme(s, t.id), t.id)
    [] t.op = "state" ->
         OfContainer(StateChanged(TellFrontend(s, t.id), t.id, t.v), t.id, "shown", t.v)
    [] t.op = "focus" -> OfContainer(TellFrontend(s, t.id), t.id, "focused", t.v)
    [] t.op = "config" -> Reconfigure(s, t.id, t.v)
    [] t.op = "viewport" -> NotifySurfaceChanged(s, t.id, t.v)
    [] t.op = "size" -> IF Upgrade(s, t.id) THEN Learn(s, t.id, "size", t.v) ELSE s
    [] t.op = "area" -> Learn(s, t.id, "area", t.v)
    [] t.op = "keyboard" -> IF GetPipelineContext(s, t.id) THEN Call(s, t.id) ELSE s
    [] t.op = "event" -> IF Upgrade(s, t.id) THEN Call(s, t.id) ELSE s
    [] t.op = "finish" -> OnFinish(s, t.id)
    [] t.op = "collect" -> IF UpgradeFrontend(s, t.v) THEN CallFrontend(s, t.id, t.v) ELSE s
    [] t.op = "endPipeline" -> [s EXCEPT !.ctn[t.id] = [Dead EXCEPT !.front = s.ctn[t.id].front]]
    [] t.op = "endFrontend" -> [s EXCEPT !.ended = @ \cup {t.id}]
    [] t.op = "remove" -> [s EXCEPT !.engine = @ \ {t.id}, !.ctn[t.id].front = None]

RunTask ==
  /\ ace.queue # <<>>
  /\ ace' = Perform([ace EXCEPT !.queue = Tail(@)], Head(ace.queue))
  /\ UNCHANGED window

Called ==
  \/ \E id \in Contents, behind \in BOOLEAN : WindowSetUIContent(id, behind)
  \/ \E id \in Subs : CreateSub(id) \/ DestroySub(id) \/ ShowSub(id) \/ HideSub(id)
  \/ WindowDestroy \/ WindowForeground \/ WindowBackground
  \/ \E focus \in BOOLEAN : FocusChanged(focus)
  \/ \E size \in Sizes : SurfaceChanged(size)
  \/ \E area \in Areas : InsetsChange(area)
  \/ SafeAreaChanged \/ OccupiedAreaChanged
  \/ \E config \in Configs : ConfigurationUpdated(config)
  \/ OnNewWant \/ DispatchTouchEvent \/ SurfaceDestroyed
  \/ \E id \in Ids : AskedAtOnce(id)
  \/ \E id \in Contents : AskFinish(id)

AceNext ==
  \/ Called /\ calls < MaxCalls /\ calls' = calls + 1
  \/ RunTask /\ UNCHANGED calls

AceSpec == AceInit /\ [][AceNext]_aceVars

-----------------------------------------------------------------------------
(***************************************************************************)
(* Properties.                                                             *)
(***************************************************************************)
Quiet == ace.queue = <<>> /\ ~window.insetsChanged

\* However a content is replaced or its window destroyed while tasks for it are queued,
\* no call reaches a pipeline, or a content its frontend, after the task of
\* AceContainerSG::Destroy has destroyed it.
NoLateCall == ~ace.late

\* The tables name the container of the window's content, those of its popups, and no other;
\* each has its resource adapter.  UIContent has no content that is gone either, but the
\* window's only if that is its first: one that replaces another is removed with it.
TablesNameLiving ==
  LET living == {id \in Ids : GetPipelineContext(ace, id)}
  IN  /\ ace.engine = living /\ ace.windowIds = living /\ ace.observers = living
      /\ ace.modules = living \cap Contents
      /\ living \subseteq ace.adapters
      /\ living \cap Contents = {window.content} \ {None}
      /\ window.registered = IF Len(window.listeners) = 1 THEN window.content ELSE None

\* When all that was queued has run, the tables are as TablesNameLiving says, and the
\* pipeline knows what its window told the content last: shown or hidden, focus, size, avoid
\* area, configuration, and a font that follows; and an ability was asked what its page asked it, though the
\* content be destroyed in between.  States are told once, the avoid area by two ways, a
\* configuration only if it is new, and a size by two tasks.
PipelineAgrees ==
  Quiet => /\ TablesNameLiving
           /\ ace.done = ace.asked
           /\ \A id \in Ids : GetPipelineContext(ace, id) =>
             LET c == ace.ctn[id]
             IN  /\ \A field \in Fields \ {"font"} : c.seen[field] = c.told[field]
                 /\ c.lastConfig \in Following => c.seen["font"] = "system"

\* What DestroyContainer says of the UI thread ("Wait UI thread...", "Stop all threads"):
\* once the view is let go, no task is left that holds it.
UIThreadDone ==
  \A i \in DOMAIN ace.queue : ace.queue[i].op = "start" => ace.ctn[ace.queue[i].id].view

-----------------------------------------------------------------------------
(***************************************************************************)
(* The inductive invariant: who is named where, what order the tasks of a  *)
(* container have, and what they carry.                                    *)
(***************************************************************************)
Is(s, i, id, op) == s.queue[i].id = id /\ s.queue[i].op = op
Queued(s, id, op) == \E i \in DOMAIN s.queue : Is(s, i, id, op)

\* No task op of id comes after a task of id that ends what it needs.
Before(s, id, op, end) ==
  \A i, j \in DOMAIN s.queue : Is(s, i, id, op) /\ Is(s, j, id, end) => i < j

Living(s) == {id \in Ids : GetPipelineContext(s, id)}

\* Each table names the living; whom the engine still knows beside is to be removed.
Named(s) ==
  /\ s.windowIds = Living(s) /\ s.observers = Living(s) /\ s.modules = Living(s) \cap Contents
  /\ Living(s) \subseteq s.engine
  /\ \A id \in Ids :
       /\ s.ctn[id].view <=> id \in Living(s)
       /\ id \in Living(s) => ~Queued(s, id, "remove") /\ (id \in s.adapters \/ Queued(s, id, "start"))
       /\ id \in s.engine \ Living(s) => Queued(s, id, "remove")

\* What has no pipeline yet has no tasks; its end comes after whatever holds it, once.
PipelineEnds(s) ==
  \A id \in Ids :
    /\ s.ctn[id].pipe = "none" => \A i \in DOMAIN s.queue : s.queue[i].id # id
    /\ \A op \in {"start", "area"} :
         /\ Queued(s, id, op) => s.ctn[id].pipe \in {"live", "leaving"}
         /\ Before(s, id, op, "endPipeline")
    /\ Queued(s, id, "endPipeline") => s.ctn[id].pipe = "leaving"
    /\ \A i, j \in DOMAIN s.queue :
         Is(s, i, id, "endPipeline") /\ Is(s, j, id, "endPipeline") => i = j

\* A content has its own frontend until it is destroyed, whose end comes after its tasks.
FrontendEnds(s) ==
  /\ \A id \in Ids : s.ctn[id].pipe = "none" => s.ctn[id].front = None /\ id \notin s.ended
  /\ \A id \in Subs : ~Queued(s, id, "endFrontend")
  /\ \A id \in Contents :
       /\ s.ctn[id].front # None => s.ctn[id].front = id /\ id \notin s.ended
       /\ Queued(s, id, "endFrontend") => s.ctn[id].front = None
       /\ \A op \in {"start", "collect"} :
            (Queued(s, id, op) => id \notin s.ended) /\ Before(s, id, op, "endFrontend")
       /\ \A i \in DOMAIN s.queue : Is(s, i, id, "collect") => s.queue[i].v = id

\* An ability that was asked to finish has finished, or the task still finds its container.
FinishComes(s) ==
  /\ s.done \subseteq s.asked
  /\ \A id \in s.asked \ s.done : Queued(s, id, "finish")
  /\ \A id \in Ids :
       /\ Queued(s, id, "finish") => id \in Contents /\ id \in s.engine /\ id \in s.asked
       /\ Before(s, id, "finish", "remove")

\* The last task op of id carries w.
LastSays(s, id, op, w) ==
  \E i \in DOMAIN s.queue :
    Is(s, i, id, op) /\ s.queue[i].v = w /\ \A j \in DOMAIN s.queue : j > i => ~Is(s, j, id, op)

\* The pipeline of id knows what was told, or the last task will tell it.
Reaches(s, id, op, field) ==
  \/ LastSays(s, id, op, s.ctn[id].told[field])
  \/ ~Queued(s, id, op) /\ s.ctn[id].seen[field] = s.ctn[id].told[field]

Arrives(s, id) ==
  LET c == s.ctn[id]
  IN  /\ Reaches(s, id, "state", "shown") /\ c.state = c.told["shown"]
      /\ Reaches(s, id, "focus", "focused")
      /\ Reaches(s, id, "config", "config") /\ c.lastConfig = c.told["config"]
      /\ \/ LastSays(s, id, "viewport", c.told["size"])
         \/ ~Queued(s, id, "viewport") /\ Reaches(s, id, "size", "size")
      /\ c.lastConfig \in Following => c.seen["font"] = "system"

\* The area of a popup's container nobody changes.
SubArea(s, id) == ~Queued(s, id, "area") /\ s.ctn[id].seen["area"] = s.ctn[id].told["area"]

ContentArea(s, id, area) == Reaches(s, id, "area", "area") /\ s.ctn[id].told["area"] = area

\* The content's is right unless the insets have changed and the window is still to be told.
AreaArrives(s, w) ==
  (w.insetsChanged => w.avoidArea = w.insets)
    => \A id \in Living(s) \cap Contents : ContentArea(s, id, w.insets)

\* A window without content has no listeners, and its first content alone is registered.
RegisteredOnce(w) ==
  /\ w.content = None => w.listeners = <<>>
  /\ w.registered = IF Len(w.listeners) = 1 THEN w.content ELSE None

AceInv ==
  /\ AceTypes
  /\ NoLateCall
  /\ Named(ace) /\ PipelineEnds(ace) /\ FrontendEnds(ace) /\ FinishComes(ace)
  /\ \A id \in Living(ace) : Arrives(ace, id) /\ (id \in Subs => SubArea(ace, id))
  /\ Living(ace) \cap Contents = {window.content} \ {None}
  /\ window.content \in ToSet(window.listeners) \cup {None}
  /\ RegisteredOnce(window)
  /\ ~window.insetsChanged => window.avoidArea \in {None, window.insets}
  /\ AreaArrives(ace, window)
=============================================================================
