# TLA+ models of the ArkUI-X iOS adapter

This directory is a verification project for the iOS adaptation layer of ArkUI-X
(`src/`): TLA+ modules translated from its source, TLC configurations that check them on
small instances, and proofs of theorems about them, checked by TLAPS.

    tlc -workers 2 -config registry.cfg MCBridgeRegistry     # a run
    tlapm BridgeRegistryProofs.tla                           # the proofs of a module

`PROJECT.json` lists components, runs, mutants, the source lines behind every definition,
findings, hazards and theorems.

## 1. The system

The adapter lets the cross-platform ArkUI engine run inside an iOS application. It sits
between UIKit, AVFoundation and WebKit on one side and the engine's C++ interfaces on the
other. There are no unit tests in the repository; its documentation is header comments.

On iOS the engine's UI, JS and platform threads are all the main thread. What makes the
adapter hard is therefore less parallelism than *order*: a call is answered by a task queued
behind others, while the object it was for is replaced, hidden or destroyed. The parts that do
have threads of their own are the bridge, the key-repeat timer, the picker's haptics, the
download session, resource look-ups from workers, and UI tests that switch accessibility.

| Component (source) | State it keeps | Operations | Interacts with | What is hard | What makes it correct |
|---|---|---|---|---|---|
| Bridge registry (`capability/bridge`) | plugin and queue maps, receiver list, `bridgeLock_`, `isAvailable` | register, unregister either end | engine's and application's threads | unlocked reads, callbacks under the lock | the ends find each other, every call returns |
| Bridge messaging (same) | operation queues, a serial dispatch queue | calls, messages, answers, cancel | registry, codec | ends replaced while calls travel | one answer each, in order |
| Bridge codec (`.../codec`) | buffer, position | encode, decode | messaging | size prefixes, alignment | what is encoded is decoded |
| Ability lifecycle (`stage/ability`) | stack of controllers, background flags | push, pop, foreground, terminate | UIKit, windows | swipes given up, late blocks | the visible ability alone is in the foreground |
| Window map (`virtual_rs_window.mm`) | windows by name, children and listeners by id | create, find, destroy | subwindows, drags | ids parsed from names, recursive destruction | maps and living windows agree |
| Windows of a controller (`StageContainerView`, `WindowView`, `Rosen::Window`) | subviews, active window, flags on three levels | show, hide, focus | lifecycle, content | layers made at different times | contents know focus and foreground |
| Touch, keys (`WindowView`) | finger numbers; timer, generation | began, moved, ended; press, repeat, release | content, timer queue | contents replaced under fingers, late timer handlers | no stray finger, no repeat of a released key |
| Text input (`capability/editing`) | current connection, two views, marked text | attach, show, close, set, type | keyboard, fields of the page | typed text crosses requests and updates | what is typed reaches its field |
| ACE container, UI content (`stage/uicontent`) | containers by id, pipelines, queued tasks | initialise, show, configure, destroy | windows, engine, resources | destroyed while tasks are queued | no late call, the last word counts |
| Subwindow (`osal/subwindow_ios.cpp`) | flags, the view, the overlay's nodes | show and hide popup, menu, dialog, sheet, toast | pages, container | flags set by hand on different paths | announced = visible |
| Drag and drop (`entrance/interaction`) | sessions, caches, the drag window | touch, start, stop, draw | engine, window map | two pointers, windows that end later | a drag follows the touch it began in |
| Accessibility (`osal/accessibility_manager_impl.cpp`) | enabled flags, window, focus, tree | events, updates, actions | VoiceOver, UI tests | two threads, a popup's events, delayed updates | the view has the page's nodes |
| HTML to span (`entrance/html`) | none | parse, convert | engine | nested styles that share ends | seen as written |
| Resources (`osal/resource_adapter_impl_v2.cpp`) | adapters by module, themes | look up, update, add, release | container, workers | recorded by a task, after the container's end | found by name as by id, released once |
| Routes and assets (`osal`) | loaded pages | find, load | bundle | several modules with one name | the first that has it |
| Web (`capability/web`) | questions, downloads, ports, windows by index | ask, answer, download, post | WebKit, application | answers from two events, later or never | one answer, one end, same message |
| Picker haptics (`entrance/picker`) | status, play thread | play, stop, slide | UI thread | status written without the lock | ticks as asked, the thread ends |
| UDMF (`entrance/udmf`) | data by key | set, get, summary | drags | the object is shared, not copied | got once, as its summary says |
| Video (`capability/video`) | state, item, seek, observer | start, pause, seek, source | AVPlayer | completion handlers after the state moved on | silent unless started |
| Resource registry, platform views, textures, avoid areas, ArkUIPlayer, report, clipboard, storage, environment, font, vibrator, rest of the OS layer | little or none | single calls | iOS services | I/O | not modelled, section 6 |

## 2. Modules

A module models one component and is checked through an `MC` module. Where a component is
used by INSTANCE, its assumptions on constants are a definition `...Assumption` which the `MC`
module assumes.

| Module | Models | Checked by |
|---|---|---|
| `BridgeRegistry` | registration of the two ends of a bridge, thread by thread | `MCBridgeRegistry` |
| `BridgeRegistryProofs` | its theorems | TLAPS |
| `BridgeCalls` | abstract: what a side may rely on for its calls | `MCBridgeMessaging` |
| `BridgeMessaging` | calls, messages and answers through the queues; implements `BridgeCalls` twice | `MCBridgeMessaging` |
| `BridgeMessagingProofs` | its theorems, the two refinements among them | TLAPS |
| `BridgeCodec` | the binary format, writer and reader (recursive) | `MCBridgeCodec`, `MCAlgorithms` |
| `StageLifecycle`, `StageLifecycleProofs` | the stack of controllers and their abilities; theorems | `MCStage`, TLAPS |
| `RsWindowMap` | windows by name and id (recursive) | `MCStage` |
| `StageWindows` | focus and foreground of one controller's windows | `MCContent` |
| `AceContainer`, `AceContainerProofs` | a window's contents, its popups' containers and their tasks; theorems | `MCContent`, TLAPS |
| `TouchInput` | numbers of fingers, packets, events, the pipeline | `MCContent` |
| `KeyRepeat` | keys and their timer | `MCContent` |
| `TextInput` | fields, connections, the two views, what is typed | `MCContent` |
| `ContentProofs` | theorems of the four above | TLAPS |
| `Subwindow` | a subwindow and its flags | `MCOverlays` |
| `DragInteraction` | drags | `MCOverlays` |
| `OverlaysProofs` | theorems of the two above | TLAPS |
| `DragPoints` | the correction of a drag's points | `MCAlgorithms` |
| `AccessibilityManager`, `AccessibilityManagerProofs` | switching, updates, focus; theorems | `MCAccessibilityManager`, TLAPS |
| `AccessibilityTree`, `AccessibilityActions` | what is published, found, offered, done (recursive) | `MCAlgorithms` |
| `ContentStart` | what a content takes from its ability | `MCAlgorithms` |
| `ResourceAdapter`, `ContainerResources` | look-ups and themes; adapters of a container and a worker | `MCAlgorithms`, `MCServices` |
| `BundleFiles` | pages of routes, files of assets | `MCAlgorithms` |
| `HtmlToSpan` | style sheets and documents (recursive) | `MCAlgorithms` |
| `WebMessage`, `WebEvents` | messages of ports, objects of events and their getters | `MCAlgorithms` |
| `WebQuestions`, `WebDownload` | dialogs, permissions, new windows; downloads | `MCServices` |
| `PickerHaptic`, `UdmfClient`, `AceVideo` | ticks; dragged data; one video | `MCServices` |
| `ServicesProofs` | theorems of the five above and of `ContainerResources` | TLAPS |

How state and actions correspond to the code is said at the head of each module and, line by
line, by the map of `PROJECT.json`. In short:

**BridgeRegistry.** `bridgeMap` and `bridgeQueueMap` are `BridgePluginManager`'s; `bridgeList`
and `bridgeLock` are `BridgeManager`'s. A native thread walks through
`innerRegisterBridgePlugin` one shared access at a time; an ArkUI thread through
`JSRegisterBridge` and `JSUnRegisterBridge`, which hold the lock over the call into the plugin.
`PeerReadyCalls` says whether a plugin's `onPeerReady` calls ArkUI synchronously.

**StageLifecycle, RsWindowMap.** The terminating block runs at any turn of the main queue, in the
middle of a transition too. A window's id is the number its name ends with: an ability's and,
under it, a dialog's, whose name is its parent's with a counter, so that dialog 1 of ability 0 has
the id of ability 1's window. All else is kept by that id.

**BridgeMessaging.** A task in `input` is an invocation: handled inline or in the operation
queue of its handler, serial or concurrent. `gcd` is the one queue of `BridgeGCDTaskQueue`.
`jsInbox` and `nativeInbox` record what reached either side; `excused` remembers what was under
way when an end changed, what was answered with something that cannot be sent, and what came to a
plugin without a delegate for it (`deaf`, `IgnoreAnswer`). ArkUI is external: it replies to what it got, once, in any order.

**AceContainer, Subwindow, StageWindows.** All runs on the main thread. A handler is one step,
written as a function on a record (`ace`, `sub`, `ui`), with the calls it makes composed in the
source's order; what it posts goes into a queue, and running its head is an action. What
UIContent has registered under the window's key (`registered`) is part of it: the destructor of a
replaced content removes the entry, although that names its successor.

**KeyRepeat.** The timer's handler runs on its own queue; its steps lie between the lines where
it looks at what the main thread changes. `late` is history: a handler replaced a timer after
the main thread had stopped its own.

**TextInput.** `connection` is `TextInputClientHandler`'s; each view keeps the connection whose
blocks it last got. A text is a number, new for everything typed or set. `astray` is history:
a view refused a text because it had marked text, or the page set a text that one typed earlier
overtook.

**DragInteraction.** The dispatch of an event is a step up to the engine's callback; what the
engine does in the callback comes before `Return`.

**AccessibilityManager.** The main thread's handlers are steps; the UI test's thread, which
refreshes the same flags, goes statement by statement. `outdated` is history: a test stored what
it had read of VoiceOver before the last switch.

**WebDownload.** The session's queue posts the end of a download and then takes the task out of
`downloadTasksDic`, in two steps (`leaving`); the main queue may run the posted block, or the
application cancel, between them.

**The pure functions** (codec, tree, actions, HTML, theme, start, route, asset, messages, events,
drag points) are operators; `MCAlgorithms` calls each with every input of a small set, and the
properties compare the result with a definition of what it should be, written another way.

Modules that do not meet are put into one run as *parts*: `MCStage`, `MCContent`, `MCOverlays`
and `MCServices` choose a part in the initial state, and the behaviour is one of that part. This
is not a composition; it adds no interleavings and hides none within a part.

## 3. What is checked

| Run | Question | Properties |
|---|---|---|
| `registry` | Can the two ends, registering at once, miss each other, or pair without a peer? Does every registration return? | `NoLostPeer`, `AvailableHadPeer`, `EndsMeet` |
| `messaging_kept` | Is each call answered at most once, lost only with an excuse, and in the end answered unless it has one? | `ArkUICallsKept`, `PluginCallsKept` (the two refinements of `BridgeCalls`), `CallsSettled`, `Inv` (the inductive invariant) |
| `messaging_order` | Do serial bridges, plugins' calls and answers keep their order? | `SerialOrder`, `DispatchOrder` |
| `stage` | Is exactly the visible ability in the foreground, with its windows; does one that ends itself end; are windows found, and destroyed with their parents only, but for those that share an id? | `TopInForeground`, `WindowsFollowAbility`, `TerminatedEnds`, `StageAgrees`, `DestroysOwnOnly` |
| `content` | Does any task reach what is destroyed; does everyone know the last word; do focus, fingers, keys and typed text go where they belong? | `NoLateCall`, `PipelineAgrees`, `AceInv` (the inductive invariant of the two), `ContentsKnow`, `FingersAgree`, `EditingAgrees`, `RepeatsOfHeldKey` |
| `overlays` | Does a drag follow the touch it began in, are waiters called once, do drags not overlap, do a subwindow's flags agree with the screen? | `DragsFollow`, `WaitersCalledOnce`, `OneDragAtATime`, `FollowsOwnTouch`, `SubwindowAgrees` |
| `accessibility` | Do switch, view and focus agree once things are quiet? | `EnabledAgrees`, `ViewAgrees` |
| `algorithms` | Do the pure functions compute what they should? | `MessagesArrive` (of the bridge's codec, of a page's ports and events), `VoiceOverServed` (tree and actions), `ResourcesApply`, `HtmlAsSeen`, `DragGoes` |
| `services` | Are adapters released, questions and downloads answered once, ticks, windows and data as asked, videos silent unless started, and does what was begun take effect? | `AdaptersReleased`, `QuestionsAgree`, `DownloadsAgree`, `TicksAsAsked`, `GotOnce`, `VideoAgrees`, `TakesEffect` |

Type invariants of parts are conjuncts of their first invariant; that of `registry` is proved.

Three runs expect a violation, each one a text of the repository against what the code does:

| Run | What it shows |
|---|---|
| `registry_peer_ready` | an `onPeerReady` that calls ArkUI synchronously waits for a lock its own thread holds |
| `container_drained` | `DestroyContainer` "waits" for a UI thread that is its own: the theme's task is left in the queue with a raw pointer to the view that is let go |
| `subwindow_toast` | a top-most toast over a shown subwindow is forgotten by `HideWindow`, so `ClearToast` refuses to hide it |

Other disagreements met while modelling are in the models and in the hazards' notes: error
answers overtake answers in the queue; a binary array result is dropped; an answer that
comes to a plugin without delegate is heard by nobody; a dialog has the id of another ability's
window, and the end of either destroys what is under both; a content that replaces another is in
the registry of contents no more; a UI test that read VoiceOver's switch before it changed leaves
accessibility off under VoiceOver; the key-repeat handler's looks at the
generation leave a window in which a released key repeats; a view with marked text refuses the
next field's text; a picker's tick between the end of an interval and the thread's sleep is lost;
a message to a page that ends in a backslash breaks its script.

Every property of a passing run has a mutant: a definition changed the way a bug would change
the code, for which TLC finds the property violated under the same configuration. The mutated
forms stand before the definitions, marked `mutant`.

### Bounds

Each bound is a constant with a comment `bound:`, and stands in a guard. The values are in the
`.cfg` files and, for parts, in the `MC` modules.

* `registry`: one name, two plugins of two types, two native threads and an ArkUI thread. A race
  over a name needs two threads and a plugin to take it over; no counter is bounded.
* `messaging_kept`: a call or message of each side and four changes of registration, on a JSON
  and a binary bridge, the plugin of the one without listener, that of the other without delegate
  for results; loss needs one call and the replacement of either end around it.
  `messaging_order`: two calls of each side, three plugins (serial, without a queue,
  concurrent), three changes; order needs two calls.
* `stage`: controllers 0, 1 and 10, the last name containing another's, two abilities, one a
  singleton; five windows with ids up to 5, one name of the application's and two dialogs: two
  abilities with sub-windows of sub-windows, and a dialog with the id of another window. Excluded:
  a window with the id of one it is under, whose end erases the list that is being walked.
* `content`: two contents and a popup, two configurations, two avoid areas, four tasks, four
  calls: a content that replaces another with tasks of both queued. Three windows with two
  levels, two of them with a content, one of which is replaced. Three fingers and two contents. Two keys (of one the monitor hears), five
  generations, two repeats, two blocks: a handler of a generation before, beside the current
  timer. Three fields, one for passwords, two requests, two texts, two tasks: a text typed
  for one field under way while the next field has the keyboard, and a text set meanwhile.
* `overlays`: two pointers, one of them a finger, three touches, caches of two sessions (64 in
  the code, so the oldest is forgotten), two drags, one waiter. A popup, menu, dialog and sheet.
* `accessibility`: two nodes and a popup's, one queued task, three switches.
* `algorithms`: trees and documents of up to five nodes, style sheets of up to three
  declarations, texts of up to three characters, every size prefix's limits and every alignment,
  three modules with two routes, four base paths.
* `services`: a worker and two modules; two downloads of two pieces; three questions of every
  kind; three windows; two owed ticks; two objects with two records; two video items.

Runs stop at their bounds, and several parts really end (a released video, a destroyed
container, a function that returned): hence `CHECK_DEADLOCK FALSE`, except in `registry`, where
threads go on for ever and TLC checks deadlock.

### Fairness

* `BridgeRegistry`: an ArkUI thread inside a call goes on (weak), and a native thread waiting for
  `bridgeLock_` gets it (strong): `std::mutex` gives it in practice for these short sections. No
  thread is obliged to make a call.
* `BridgeMessaging`: operation queues and the dispatch queue run what they hold, plugin methods
  return, ArkUI replies. Sending and registering are not fair.
* `StageLifecycle`: transitions end, an unreferenced controller is deallocated; strong for the
  terminating block, whose change of the stack the model makes when the transition under way is
  over, between those that the user may keep beginning.
* `WebDownload`: the main queue runs what was posted; the session tells of a transfer that ended
  and then takes out its task. `PickerHaptic`: the play
  thread runs, a status in the middle of being set is set, a join returns when the thread has
  ended. `AceVideo`: AVPlayer finishes a seek no other replaces. In `MCServices` a behaviour is
  of one part, so the fairness of several parts is one condition on the disjunction of their
  steps, of which only that part's is ever enabled; and `TakesEffect` is one formula for what
  each part has to bring about. Both only make TLC's work less.

### What is taken from outside `src/`

Marked external in the map. UIKit: transitions, first responder, every touch begins before it
moves or ends and a packet has one phase. The engine: it hides a subwindow whose overlay is
empty; uses a subwindow only after its Rosen window was made; has one drag at a time and keeps
the last registered window callback; raises accessibility events only while accessibility is on;
lets the later of two spans win in `AddSpan`; passes a configuration to the adapter a theme was
made with; asks the wrapper of its kind for an event's fields; keeps a new window's object only
if it takes an index during the event. The resource manager prefers a theme's own attributes to
the system theme's. WebKit takes the first answer to a question and throws at a second. Adjacent
start-up tasks (theme, root element, storage) are one task. Downloads have a known size. A field
attaches and shows the keyboard in one call, only the first responder types, and only the field
that has the connection sets the editing state. A bundle's router items are its modules',
concatenated.


## 4. What is proved

Eight modules hold proofs. Each theorem is for every value of the constants and rests on an
inductive invariant, which TLC has checked as well: as a property of a run, or as a conjunct
of one. The proofs go action by action; what several
actions share, most of all what a post, a removal or a loop does to a queue, is a lemma.

**`BridgeRegistryProofs`**, under `RegistryAssumption` (the types of the constants):
`TypeCorrect`, `PeerNeverLost` and `PeerBeforeAvailable`, that is, `TypeOK`, `NoLostPeer` and
`AvailableHadPeer` always hold. `NoLostPeer` is not inductive: it speaks of a moment at which no
thread is at work on a name. `Inv` says what the threads carry meanwhile. `MapNames`: a plugin is
in the map under its own name. `NativeLocals` and `JsLocals`: what each thread has read at each
step, and that exactly the threads inside `JSRegisterBridge` or `JSUnRegisterBridge` hold the
lock. `MatchIsSeen` is the heart: a registered plugin beside a receiver of its type is
available, or somebody is `Coming`: some thread has still a step before it at which it will see
the other end. The argument is that of two flags: each end first publishes itself and then
looks, so whichever publishes second sees the first. `ListInHistory` ties the receiver list to
the history variable that `AvailableHadPeer` speaks of.

**`BridgeMessagingProofs`**, under the assumptions of `BridgeMessaging`:

* `MessagingInv`, the invariant `Inv` itself. A call is in one place: a task, a block on the
  dispatch queue, in ArkUI's hands, or answered (`JsPlaces`, `NativePlaces`); it carries there
  what it was sent with (`Carried`); without an excuse its ends are still those it was made
  between (`EndsStay`); and what stands in a queue stands in the order in which it was made
  (`JsInOrder`, `AnswersInOrder`, `PlatformInOrder`).
* `ArkUICallsAreKept` and `PluginCallsAreKept`: the two refinements of `BridgeCalls`, step by
  step. A step of the bridge is a call, an answer, a loss or a stutter of the abstract bridge;
  a loss has its excuse because an end that was as it should be when the call was made, and is
  not now, was changed meanwhile (`EndsStay`), because the answer cannot be sent, or because
  the plugin it came to has no delegate for it.
* `SerialOrderHolds` and `DispatchOrderHolds`. Either order is inductive only with what is still
  in the queue before it: started calls come before queued ones, finished ones before both.

**`StageLifecycleProofs`**: `StageInv`, from it `TopIsInForeground` and `WindowsAgree`, that is,
`TopInForeground` and `WindowsFollowAbility`. The two speak of a stack at rest; the invariant of
every moment: a transition comes from a controller that is not on top, and a swipe's is off the
stack (`Transitions`); who is on the stack has appeared and would be told OnForeground the next
time (`Appeared`); nobody but the top and the one being left is in the foreground
(`OthersBehind`); the top is, if nothing hides it (`TopBefore`). A swipe that is given up is the
case that needs all four.

**`ContentProofs`**, of what a window and its content do with windows, keys, text and fingers:

* `ContentsAlwaysKnow`: `ContentsKnow` of `StageWindows`, which is inductive: beside what it
  claims of the content it says that a window whose view, window or content is still missing
  has the word noted on the level that is there (`FocusIsCarried`, `ForegroundIsCarried`). The
  methods that make, show, hide and activate views compose; each has a lemma that says what it
  does to every window, and an action's proof puts them together.
* `HeldKeyRepeats`: what is told as a repeat is of the key that went down last and is still
  held, unless a handler replaced a timer that was not its own (`late`). The invariant of
  `KeyRepeat` says that nothing in flight is of a later generation than the current one
  (`NothingFromFuture`) and, unless `late`, that a timer that runs or a block that is posted and
  of the current generation repeats the last held key (`TimerRuns`, `RepeatsLast`,
  `PostedLast`). It holds because every press and every release stops the timer and raises the
  generation, so that what an older handler posts is thrown away when it runs.
* `TypedWhereItShows`: `EditingAgrees` of `TextInput`. To be inductive it says of every task,
  and of every view, that it is of no connection to come and, if it is of the current one, of
  its field (`ReachesItsField`); and that the last text that waits is the one the view with the
  keyboard shows (`FieldAndViewAgree`). A view's edit posts one task or two, so the lemmas
  `PostedTasks` and `MoreTasks` say what is waiting after it.
* `FingersAlwaysAgree`: `FingersAgree` of `TouchInput`. A packet's events are told in an order of
  their numbers (`PacketOrder`), each of them with the phases of all; what the pipeline knows
  after the last does not depend on that order.

**`AceContainerProofs`**, under `AceAssumption` (disjoint constants, finitely many popups):

* `AceInvariant`, the invariant `AceInv`. `Named`: each table names just the living containers,
  and whom the engine still knows beside has its removal queued. `RegisteredOnce`: UIContent's
  registry names the window's content if that is its first, and else nothing. `PipelineEnds`, `FrontendEnds`:
  a task that holds a pipeline or a frontend comes before the task that ends it, which is queued
  once. `FinishComes`: the task by which an ability finishes comes before its container's
  removal. `Arrives`, `AreaArrives`: the pipeline knows the last word, or the last task of its
  kind will bring it, whatever is queued before.
* `NoCallIsLate` and `QuietPipelinesAgree`: `NoLateCall` and `PipelineAgrees`, from it.

  A call composes many methods, so the lemmas are about methods, not actions: each keeps
  `Kept`, the invariant of the containers with the same ones living and the avoid area as it was
  told. The loops over listeners and sub-windows are recursive functions; the lemmas at the head
  of the module (`Induction`, `WalkExists`, `WalkEnds`) say, from the well-foundedness of the
  natural numbers, that such a function exists and stays in a set every step stays in.

**`AccessibilityManagerProofs`**, under `AccessibilityAssumption`:

* `SwitchAgrees`: once no switch is queued and neither thread is in the middle of a refresh,
  accessibility is on exactly if VoiceOver is, as the system has it, or a test wants it
  (`EnabledAgrees`), unless a test stored last what it had read before a switch (`outdated`),
  which the code allows. Both threads write the flag from what they read before, so the invariant
  adds that the tests counted are those in progress (`TestsCounted`), that a refresh is under way
  only in the task at the head of the main thread's queue (`RefreshFirst`), which no second one
  overtakes, that the flag follows what was stored last (`EnabledByLast`), and that this is the
  system's state unless `outdated` (`SwitchInv`).
* `ViewsAgree`: `ViewAgrees`, that is, `TreeFresh` and `FocusFollows` with what makes them
  inductive. `SwitchInv`: the last switch in the queue is the system's, and what a test has read
  of the system is out of date only while a switch is queued. `TreeInv`: a view that lacks nodes
  and for which no update waits has something before it that will publish: nothing can make
  accessibility look on without the task that publishes. `FocusInv`: the last task of the focus
  is for the node VoiceOver is on. The lemmas `LastTaken`, `LastAppended` and `Pushed` say what
  the last task of some kinds is when a queue is served at its head and filled at its end; each
  action is then shown to be a switch, a move of the focus, or neither (`NotOfSwitch`,
  `TreeCared`, `NotOfFocus`).

**`OverlaysProofs`**, under `DragAssumption` and `SubwindowAssumption`:

* `WaitersOnce`: who waits for a pointer to be lifted is called once, and nobody waits for a
  pointer that is not touched (`WaitersCalledOnce`). The invariant adds `WaitersPressed`: a
  callback waits for one pointer, and the last event showed that pointer pressed. The lemma
  `EventCallsOnce` is about `SetCurPointerEvent`: of one callback at most one pointer is done.
* `OneDrag`: `OneDragAtATime`. The invariant adds `LastDragHeard`: the listener and the destroyer
  the manager has are the last drag's, and what was told to start still has its window; a drag
  asked for meanwhile is what the history variable `hasty` excludes.
* `DragFollowsOwnTouch`: the action property `FollowsOwnTouch`. A touch that begins is given a
  session never given before; `OwnTouch` says that none of the three sessions an event is compared
  with (the active one, the drag's, the one to correct for) is that of a later touch of its
  pointer. `Once`: a dispatched event is in its cache once, so that it is resolved to the session
  it was registered with last. The lemmas on `Register`, `Latest`, `ConsumeLatest` and `Without`
  say what a cache keeps of it when a key is replaced, taken, or forgotten at the limit.

* `DragsFollowTouches`: `DragsFollow`, from a stronger invariant of the same touches, `TouchInv`.
  Unless two synthetic touches overlapped, nothing is left of any (`Forgotten`), or what is kept,
  from the active point to the caches, is of the one touch under way, or the event that lifts it
  is being handled (`Touched`). Of the last drag it says, before it is shown already, that its
  session is that of its touch (`Heard`). The caches matter most: a key forgotten at the limit
  makes the touch's event fall back to the binding of its pointer (`PreparedFor`). That no event
  is the constant `None` is the one thing assumed for it.
* `SubwindowsAgree`: `SubwindowAgrees` of `Subwindow`. Its conjunct `MadeIsThere`, that a window
  once made has its container as long as the page lives, is what makes it inductive: the code
  shows the window first and asks for its container afterwards, and an operation that stopped
  between the two would have shown a window nobody is told of. A method is shown to keep the
  three conjuncts and whether page and container are there (`Keeps`), so the lemmas of the
  methods compose as the code's calls do.

**`ServicesProofs`**, of the parts of `MCServices`, under their assumptions:

* `QuestionsAnswered`: `QuestionsAgree` of `WebQuestions`, that is, one answer to what a page asks
  about a certificate though two events ask it and the default answers too; a host is trusted
  only after such an answer; an index of a new window names that window or none. Added for it:
  what is not asked has no answer (`AnswersAreCounted`), and no index was given that is above
  the counter (`IndexesName`).
* `OneEndTold`: `DownloadsAgree` of `WebDownload`. The two tables (of the bridge, of `AceWeb`) are
  in step only when nothing is on its way, so the invariant says what may be on its way: what
  AceWeb keeps the bridge keeps until the end is posted, after which either may forget first, and
  whom only the bridge keeps has an end posted (`KeptByBoth`), what is kept was told last
  (`KeptWasTold`), posted progress is in order and not behind what was told (`PostedInOrder`),
  and nothing is known of a download before it begins (`BeginsOnce`). But for `PostedInOrder`
  it is about one download at a time, and so are its lemmas (`DownloadAgrees`).
* `NoTickUnasked`: `TicksAsAsked` of `PickerHaptic`, over the thread's steps between the lines of
  a call. `OwesWhatItPlays` says where the thread may be while a tick is owed, `SilentAfterStop`
  where it may not be after `Stop`.
* `DataGotOnce`: `GotOnce` of `UdmfClient`; a group id above every key in use makes it inductive.
* `VideoSafe`: `VideoAgrees` of `AceVideo`, which is inductive. Its handlers call one another, so
  each has a lemma that it leaves a video behind of which the same holds (`Sound`).

* `NoAdapterOutlives`: of `ContainerResources`, that each adapter of a living container is recorded
  or about to be, and that none outlives it but those being made or recorded when it was
  destroyed. Added for it: what a worker is making is on its way to be recorded, or was
  (`PendingKnown`). These are the first two conjuncts of the run's `AdaptersReleased`.

Only model-checked: everything else. All liveness (`EndsMeet`, `CallsSettled`,
`TerminatedEnds`, `TakesEffect`) is out of the prover's reach, with ENABLED. `BridgeCodec`,
`RsWindowMap`, `AccessibilityTree` and `HtmlToSpan` use RECURSIVE operators, for which the
prover has no backend, so `MessagesArrive`, `VoiceOverServed`, `HtmlAsSeen`, `DestroysOwnOnly`
and what `StageAgrees` says of windows stay with TLC; so do the other pure functions of
`MCAlgorithms` (`ResourcesApply`, `DragGoes`), whose properties enumerate their inputs. What is
left of `AdaptersReleased` stays with TLC for two reasons: that a summary of dragged data adds up
(`SummaryTellsRecords`) is an induction over the records, and that a resource is the same by name
and by identifier (`LookupsAgree`) rests on how the index files were written, which this code
does not say.

## 5. Hazards beside the list

`PROJECT.json` lists the hazards the properties are for, at their lines. Others were met while
modelling and are recorded here.

* Two native threads that register plugins of one name can leave the handler of the replaced one
  in the map; `isAvailable` may say YES of a plugin whose peer has just gone.
* The plugin and queue dictionaries are changed and read by several threads without a lock
  (`BridgePluginManager+internal.mm:132`); a `callMethod` on a plugin that is not available
  returns without `onError` (`BridgePlugin.mm:86`); a nested value of an unsupported class is
  counted and not written (`BridgeSerializer.mm:248`).
* Two threads inside `stopKeyRepeatTimer` at once would release one source twice.
* A popup's frontends are collected only with its container; a background colour set before the
  content's start is reset by it; the back key closes a menu whose hiding is under way.
* Blocks of the plain or the secure text view keep a connection that was closed; a "done" that
  hides the keyboard posts its hiding, which may hide the keyboard of the next field.
* `GetDragState` reads a state it has not initialised if the manager fails
  (`interaction_impl.cpp:760`).
* A module's directory is recognised by its name anywhere in a path (`ui_content_impl.cpp:367`);
  loading a page loads an item of the bundle twice if it is in both lists.
* `UpdateConfig` replaces the resource configuration without the lock that look-ups take
  (`resource_adapter_impl_v2.cpp:179`); the session's queue walks the dictionary of download
  tasks while the main thread's calls change it (`AceWeb.mm:3908`).
* The video's flags for activity pause and resume, seek and full screen cross in three places
  (`AceVideo.mm:437`, `:557`, `:928`).
* Containers of hidden controllers hear the application's notifications too
  (`StageContainerView.mm:121`).

## 6. What is not modelled

Left out of modelled components: data races on Objective-C dictionaries (their outcome is memory
corruption); the synchronous binary call and the JSON codec (a wrapper of NSJSONSerialization);
`StartAbilityForResult` and pickers; bars, orientation, colour space, vsync and the sizes of
windows; the JS engine, page routing, dumps and test hooks of a content; the toast and dialog
services' own windows; shadow pictures of drags; extension components with accessibility trees of
their own; the qualifiers of resources, and the first version of the resource adapter, which is
not built; cookies, scheme handlers, navigation and scripts of a web page; what UIKit's text
protocol says of positions and ranges; volume, full-screen and texture sizes of the video.

Without any module, each with its reason in `PROJECT.json`: the registry of platform resources
and the platform views, textures and surfaces in it (a look-up and a call each); the arithmetic
of avoid areas; ArkUIPlayer (a sample application); report, xcollie, plugin lifecycle and log
interception; clipboard, storage, environment, font and vibrator (single calls into iOS); the
rest of the OS layer (stubs and forwarding); the build.

## 7. What is left

* The composition of `StageLifecycle`, `StageWindows` and `RsWindowMap` (a controller's end
  destroys its tree of windows), and a definition of `Destroy` without RECURSIVE, for a proof.
* The registry of platform resources, with calls that arrive while a resource is released.
