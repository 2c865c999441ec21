--------------------------- MODULE StageLifecycle ---------------------------
(***************************************************************************)
(* The abilities and the view controllers that show them (stage/ability).  *)
(*                                                                         *)
(* A StageViewController is one instance of an ability.  It tells the      *)
(* ability's lifecycle to AppMain from the callbacks UIKit makes           *)
(* (viewDidLoad, viewWillAppear, viewDidDisappear, dealloc) and the        *)
(* foreground and background state to the windows of its container view.   *)
(* StageApplication does the same for the top controller when the          *)
(* application goes to the background and comes back, and the abilities    *)
(* rearrange the stack of controllers themselves.                          *)
(*                                                                         *)
(* UIKit is external: a transition has a beginning and an end, a swipe     *)
(* back may be given up, and a controller that is no part of ArkUI (a      *)
(* picker) may cover the top one, as a sheet or as a full screen.          *)
(***************************************************************************)
EXTENDS Naturals, SequencesExt

CONSTANTS
  Controllers,   \* StageViewControllers, by instance id
  Abilities,
  abilityOf,     \* the ability each is an instance of
  containing,    \* those whose instanceName contains the instanceName of each
  Singletons     \* abilities launched as singletons

ASSUME LifecycleAssumption ==
  /\ abilityOf \in [Controllers -> Abilities]
  /\ containing \in [Controllers -> SUBSET Controllers]
  /\ \A i \in Controllers : i \in containing[i]
  /\ Singletons \subseteq Abilities

VARIABLES
  stack,         \* navigationController.viewControllers
  transition,    \* the controllers a transition comes from and goes to
  cover,         \* the controller of somebody else presented over the top one
  app,           \* is the application in the foreground or in the background?
  isOnBackground,  \* g_isOnBackground
  ctl,           \* what each controller keeps and what it has told
  removed,       \* controllers taken from the stack and not yet deallocated
  terminating    \* blocks of TerminateSelf in the main queue

vars == <<stack, transition, cover, app, isOnBackground, ctl, removed, terminating>>

NoTransition == [kind |-> "none"]
Transition == [kind : {"plain", "swipe"}, from : Controllers]

\* ability: the last thing AppMain was told.  windows: are the container's windows
\* in the foreground?
Controller == [ability : {"none", "foreground", "background", "destroyed"},
               needOnForeground : BOOLEAN, windows : BOOLEAN]

TypeOK ==
  /\ stack \in Seq(Controllers) /\ IsInjective(stack)
  /\ transition \in Transition \cup {NoTransition}
  /\ cover \in {"none", "sheet", "full"}
  /\ app \in {"foreground", "background"}
  /\ isOnBackground \in BOOLEAN
  /\ ctl \in [Controllers -> Controller]
  /\ removed \subseteq Controllers \ ToSet(stack)
  /\ terminating \subseteq Controllers

Init ==
  /\ stack = <<>> /\ transition = NoTransition /\ cover = "none"
  /\ app = "foreground" /\ isOnBackground = FALSE
  /\ ctl = [i \in Controllers |-> [ability |-> "none", needOnForeground |-> FALSE,
                                   windows |-> FALSE]]
  /\ removed = {} /\ terminating = {}

-----------------------------------------------------------------------------
(***************************************************************************)
(* The callbacks of a controller: from what all keep to what all keep then.*)
(***************************************************************************)
\* AppMain has no ability of that name any more once it has destroyed it.
Tell(c, i, what) ==
  IF c[i].ability = "destroyed" THEN c ELSE [c EXCEPT ![i].ability = what]

\* DispatchOnCreate, DispatchOnForeground.
ViewDidLoad(c, i) == Tell(c, i, "foreground")

ViewWillAppearOnce(c, i) ==      \* mutant: _needOnForeground is not set
  LET told == IF c[i].needOnForeground THEN Tell(c, i, "foreground") ELSE c
  IN  [told EXCEPT ![i].windows = TRUE]

ViewWillAppear(c, i) ==
  LET told == IF c[i].needOnForeground THEN Tell(c, i, "foreground") ELSE c
  IN  [told EXCEPT ![i].needOnForeground = TRUE, ![i].windows = TRUE]

ViewDidDisappearQuietly(c, i) == \* mutant: the windows are not told
  Tell(c, i, "background")

ViewDidDisappear(c, i) == [Tell(c, i, "background") EXCEPT ![i].windows = FALSE]

Top == Last(stack)

\* getApplicationTopViewController is a StageViewController.
StageOnTop == stack # <<>> /\ cover = "none"

Settled == transition = NoTransition

-----------------------------------------------------------------------------
(***************************************************************************)
(* The stack.                                                              *)
(***************************************************************************)
\* UIKit: the stack becomes s.  If another controller is on top then, or none at all,
\* a transition from the old one begins, and ends some time later.
SetViewControllers(s, c, kind) ==
  LET dropped == ToSet(stack) \ ToSet(s)
      leaving == stack # <<>> /\ (s = <<>> \/ Last(s) # Top)
      coming == s # <<>> /\ (stack = <<>> \/ Last(s) # Top)
  IN
  /\ stack' = s
  /\ ctl' = IF coming THEN ViewWillAppear(c, Last(s)) ELSE c
  /\ transition' = IF leaving THEN [kind |-> kind, from |-> Top] ELSE transition
  /\ removed' = removed \cup (dropped \ (IF leaving THEN {Top} ELSE {}))

\* The application makes a controller and pushes it; it is in the foreground then.
Push(i) ==
  /\ Settled /\ cover = "none" /\ app = "foreground"
  /\ ctl[i].ability = "none"
  /\ SetViewControllers(Append(stack, i), ViewDidLoad(ctl, i), "plain")
  /\ UNCHANGED <<cover, app, isOnBackground, terminating>>

\* The user or the application goes back.
Pop(kind) ==
  /\ Settled /\ StageOnTop /\ app = "foreground" /\ Len(stack) > 1
  /\ SetViewControllers(Front(stack), ctl, kind)
  /\ UNCHANGED <<cover, app, isOnBackground, terminating>>

EndTransition ==
  /\ ~Settled
  /\ ctl' = ViewDidDisappear(ctl, transition.from)
  /\ removed' = removed \cup ({transition.from} \ ToSet(stack))
  /\ transition' = NoTransition
  /\ UNCHANGED <<stack, cover, app, isOnBackground, terminating>>

\* The user gives a swipe up: the controller under it disappears again.
CancelSwipe ==
  /\ ~Settled /\ transition.kind = "swipe"
  /\ ctl' = ViewWillAppear(ViewDidDisappear(ctl, Top), transition.from)
  /\ stack' = Append(stack, transition.from)
  /\ transition' = NoTransition
  /\ UNCHANGED <<cover, app, isOnBackground, removed, terminating>>

\* k is the first place among these.
First(k, places) == k \in places /\ \A j \in places : k <= j

\* mutant: the instance is added on top and not removed from its place.
HandleSingletonTwice(a) ==
  /\ Settled /\ StageOnTop /\ app = "foreground"
  /\ a \in Singletons /\ abilityOf[Top] # a
  /\ \E k \in DOMAIN stack :
       /\ First(k, {j \in DOMAIN stack : abilityOf[stack[j]] = a})
       /\ SetViewControllers(Append(stack, stack[k]), ctl, "plain")
  /\ UNCHANGED <<cover, app, isOnBackground, terminating>>

\* handleSingleton: brings the instance there is to the top.  The top one itself,
\* if it is one, gets OnNewWant only.
HandleSingleton(a) ==
  /\ Settled /\ StageOnTop /\ app = "foreground"
  /\ a \in Singletons /\ abilityOf[Top] # a
  /\ \E k \in DOMAIN stack :
       /\ First(k, {j \in DOMAIN stack : abilityOf[stack[j]] = a})
       /\ SetViewControllers(Append(RemoveAt(stack, k), stack[k]), ctl, "plain")
  /\ UNCHANGED <<cover, app, isOnBackground, terminating>>

Exchange(s, k, l) == [s EXCEPT ![k] = s[l], ![l] = s[k]]

\* doAbilityForeground: a name that is not found counts as the first controller's.
DoAbilityForeground(i) ==
  LET k == IF Contains(stack, i) THEN CHOOSE j \in DOMAIN stack : stack[j] = i ELSE 1 IN
  /\ Settled /\ StageOnTop /\ Len(stack) > 1
  /\ SetViewControllers(Exchange(stack, k, Len(stack)), ctl, "plain")
  /\ UNCHANGED <<cover, app, isOnBackground, terminating>>

\* doAbilityBackground, if the name of the one on top contains that of i.
DoAbilityBackground(i) ==
  /\ Settled /\ StageOnTop /\ Len(stack) > 1
  /\ Top \in containing[i]
  /\ SetViewControllers(Exchange(stack, Len(stack), Len(stack) - 1), ctl, "plain")
  /\ UNCHANGED <<cover, app, isOnBackground, terminating>>

-----------------------------------------------------------------------------
(***************************************************************************)
(* Ends.                                                                   *)
(***************************************************************************)
\* An ability asks for its end, from whatever thread it runs on.
TerminateSelf(i) ==
  /\ ctl[i].ability \in {"foreground", "background"}
  /\ terminating' = terminating \cup {i}
  /\ UNCHANGED <<stack, transition, cover, app, isOnBackground, ctl, removed>>

TerminateTopOnly(i) ==           \* mutant: looks at the top controller only
  /\ i \in terminating
  /\ terminating' = terminating \ {i}
  /\ IF StageOnTop /\ Top = i /\ Len(stack) > 1
     THEN Settled /\ SetViewControllers(Front(stack), ctl, "plain")
     ELSE UNCHANGED <<stack, transition, ctl, removed>>
  /\ UNCHANGED <<cover, app, isOnBackground>>

\* The block it leaves to the main queue, which may run in the middle of a transition.
\* If somebody's controller is presented, that one is dismissed and the ability is told
\* its end, but its controller stays; and so does a controller that is the only one.
\* One the user is swiping away is not found, and may come back.
\* UIKit is taken to finish the transition under way, which changes neither the stack
\* nor what covers it, before it changes the stack for the block.
Terminate(i) ==
  LET found == {k \in DOMAIN stack : stack[k] \in containing[i]}
      ended == IF Len(stack) = 1 THEN Tell(ctl, i, "destroyed") ELSE ctl
  IN
  /\ i \in terminating
  /\ terminating' = terminating \ {i}
  /\ CASE cover # "none" ->
            /\ ctl' = LET told == Tell(ctl, i, "destroyed") IN
                      IF cover = "full" THEN ViewWillAppear(told, Top) ELSE told
            /\ cover' = "none"
            /\ UNCHANGED <<stack, transition, removed>>
       [] cover = "none" /\ stack # <<>> /\ Top = i /\ Len(stack) > 1 ->
            Settled /\ SetViewControllers(Front(stack), ended, "plain") /\ UNCHANGED cover
       [] cover = "none" /\ (stack = <<>> \/ Top # i) /\ found # {} ->
            /\ Settled
            /\ \E k \in found : First(k, found) /\ SetViewControllers(RemoveAt(stack, k), ended, "plain")
            /\ UNCHANGED cover
       [] OTHER ->
            ctl' = ended /\ UNCHANGED <<stack, transition, cover, removed>>
  /\ UNCHANGED <<app, isOnBackground>>

\* dealloc, when nothing refers to the controller any more.
Dealloc(i) ==
  /\ i \in removed
  /\ ctl' = [Tell(ctl, i, "destroyed") EXCEPT ![i].windows = FALSE]
  /\ removed' = removed \ {i}
  /\ UNCHANGED <<stack, transition, cover, app, isOnBackground, terminating>>

\* destroyData, which an application calls on iOS 18 for a controller it has removed.
DestroyData(i) ==
  /\ i \in removed /\ ctl[i].ability # "destroyed"
  /\ ctl' = [Tell(ctl, i, "destroyed") EXCEPT ![i].windows = FALSE]
  /\ UNCHANGED <<stack, transition, cover, app, isOnBackground, removed, terminating>>

\* releaseViewControllers: the abilities end, the controllers stay.
ReleaseViewControllers ==
  /\ StageOnTop
  /\ ctl' = [i \in Controllers |->
               IF Contains(stack, i) THEN [ctl[i] EXCEPT !.ability = "destroyed"] ELSE ctl[i]]
  /\ UNCHANGED <<stack, transition, cover, app, isOnBackground, removed, terminating>>

-----------------------------------------------------------------------------
(***************************************************************************)
(* UIKit and the application.                                              *)
(***************************************************************************)
Present(kind) ==
  /\ Settled /\ StageOnTop /\ app = "foreground"
  /\ cover' = kind
  /\ ctl' = IF kind = "full" THEN ViewDidDisappear(ctl, Top) ELSE ctl
  /\ UNCHANGED <<stack, transition, app, isOnBackground, removed, terminating>>

Dismiss ==
  /\ cover # "none" /\ app = "foreground"
  /\ cover' = "none"
  /\ ctl' = IF cover = "full" THEN ViewWillAppear(ctl, Top) ELSE ctl
  /\ UNCHANGED <<stack, transition, app, isOnBackground, removed, terminating>>

\* DispatchApplicationOnBackground, then applicationDidEnterBackground of the
\* container of the top StageViewController, whatever covers it.
DidEnterBackground ==
  LET told == IF ~isOnBackground /\ StageOnTop THEN Tell(ctl, Top, "background") ELSE ctl IN
  /\ app = "foreground"
  /\ app' = "background"
  /\ isOnBackground' = TRUE
  /\ ctl' = IF stack # <<>> THEN [told EXCEPT ![Top].windows = FALSE] ELSE told
  /\ UNCHANGED <<stack, transition, cover, removed, terminating>>

WillEnterForegroundResetFirst == \* mutant: the flag is reset before it is looked at
  /\ app = "background"
  /\ app' = "foreground"
  /\ isOnBackground' = FALSE
  /\ ctl' = IF stack # <<>> THEN [ctl EXCEPT ![Top].windows = TRUE] ELSE ctl
  /\ UNCHANGED <<stack, transition, cover, removed, terminating>>

WillEnterForeground ==
  LET told == IF isOnBackground /\ StageOnTop THEN Tell(ctl, Top, "foreground") ELSE ctl IN
  /\ app = "background"
  /\ app' = "foreground"
  /\ isOnBackground' = FALSE
  /\ ctl' = IF stack # <<>> THEN [told EXCEPT ![Top].windows = TRUE] ELSE told
  /\ UNCHANGED <<stack, transition, cover, removed, terminating>>

-----------------------------------------------------------------------------
Next ==
  \/ \E i \in Controllers :
       \/ Push(i) \/ DoAbilityForeground(i) \/ DoAbilityBackground(i)
       \/ TerminateSelf(i) \/ Terminate(i) \/ Dealloc(i) \/ DestroyData(i)
  \/ \E kind \in {"plain", "swipe"} : Pop(kind)
  \/ \E a \in Abilities : HandleSingleton(a)
  \/ \E kind \in {"sheet", "full"} : Present(kind)
  \/ EndTransition \/ CancelSwipe \/ ReleaseViewControllers
  \/ Dismiss \/ DidEnterBackground \/ WillEnterForeground

Spec == Init /\ [][Next]_vars

\* The main queue runs its blocks, transitions end, and a controller nobody refers
\* to is deallocated.
Fairness ==
  /\ WF_vars(EndTransition)
  /\ \A i \in Controllers : SF_vars(Terminate(i)) /\ WF_vars(Dealloc(i))

FairSpec == Spec /\ Fairness

-----------------------------------------------------------------------------
Visible == app = "foreground" /\ Settled /\ cover # "full"

\* Whenever the user can see and use an ability, that one, on top of the stack, was
\* told OnForeground last and all others were told OnBackground or their end:
\* whatever was pushed, popped, swiped halfway, brought to the top, covered and
\* uncovered before, and whenever the application was left and entered.
TopInForeground ==
  Visible => \A i \in Controllers :
    ctl[i].ability \notin {"none", "destroyed"} =>
      (ctl[i].ability = "foreground" <=> (stack # <<>> /\ i = Top))

\* The windows of a controller and its ability, which are told separately, agree.
WindowsFollowAbility ==
  Visible /\ cover = "none" => \A i \in Controllers :
    ctl[i].ability \in {"foreground", "background"} =>
      (ctl[i].windows <=> ctl[i].ability = "foreground")

SwipedAway(i) == transition # NoTransition /\ transition.kind = "swipe" /\ transition.from = i

\* An ability that asks for its end gets it, unless the name of another controller
\* contains its own: TerminateSelf compares names by containsString.  Nor does it if
\* the user swipes back from it meanwhile and gives that up.
TerminatedEnds ==
  \A i \in Controllers :
    containing[i] = {i} /\ i \in terminating ~> ctl[i].ability = "destroyed" \/ SwipedAway(i)

-----------------------------------------------------------------------------
(***************************************************************************)
(* The inductive invariant.                                                *)
(***************************************************************************)
Leaving == IF Settled THEN {} ELSE {transition.from}
OnTop(i) == stack # <<>> /\ i = Top

\* A transition goes to another controller, that is on top already; a swipe also takes
\* the one it comes from off the stack.  Somebody's controller is presented at rest.
Transitions ==
  /\ \A i \in Leaving : ~OnTop(i) /\ i \notin removed
  /\ ~Settled /\ transition.kind = "swipe" => transition.from \notin ToSet(stack) /\ stack # <<>>
  /\ cover # "none" => Settled /\ stack # <<>>
  /\ isOnBackground <=> app = "background"

\* What is or was on the stack has appeared, and would be told OnForeground the next time.
Appeared ==
  /\ \A i \in Controllers : ctl[i].ability = "none" <=> ~ctl[i].needOnForeground
  /\ \A i \in ToSet(stack) \cup Leaving \cup removed \cup terminating : ctl[i].ability # "none"

\* What has left the top, or was never there, is not in the foreground.
OthersBehind ==
  \A i \in Controllers :
    ~OnTop(i) /\ i \notin Leaving => ctl[i].ability # "foreground" /\ ~ctl[i].windows

\* What is on top is, unless its ability has ended, when nothing hides it; and under a
\* sheet it stays so even in the background.
TopBefore ==
  \A i \in Controllers : OnTop(i) =>
    /\ (app = "foreground" /\ cover = "none") \/ cover = "sheet"
         => ctl[i].ability \in {"foreground", "destroyed"}
    /\ app = "foreground" /\ cover # "full" => ctl[i].windows

Inv == TypeOK /\ Transitions /\ Appeared /\ OthersBehind /\ TopBefore
=============================================================================
