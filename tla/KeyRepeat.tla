------------------------------- MODULE KeyRepeat -------------------------------
(***************************************************************************)
(* The keys of a hardware keyboard: WindowView tells the window of every   *)
(* press, and repeats the last key that went down by a timer, whose        *)
(* handler runs on a queue of its own while the main thread stops and      *)
(* starts timers.  A generation number is what tells the handler, and the  *)
(* blocks it posts to the main thread, that they are late.                 *)
(*                                                                         *)
(* The main thread's calls are steps; so are the handler's, between the    *)
(* lines where it looks at what the main thread changes.  Two threads in   *)
(* stopKeyRepeatTimer at once are not modelled.                            *)
(***************************************************************************)
EXTENDS Integers, Sequences, SequencesExt

CONSTANTS
  Keys,
  PerfKeys,         \* the keys of which the performance monitor hears
  MaxGeneration,    \* bound: how often a timer is stopped
  MaxCount,         \* bound: repeats of one timer
  MaxPosted         \* bound: blocks that wait for the main thread

ASSUME KeyAssumption == PerfKeys \subseteq Keys /\ {MaxGeneration, MaxCount, MaxPosted} \subseteq Nat

VARIABLES
  held,         \* the keys that are held, in the order they went down
  generation,   \* _keyRepeatGeneration
  timer,        \* _keyRepeatTimer: the generation its handler was made for, -1 for none
  repeat,       \* _currentKeyCode, _keyRepeatCount, _isInitialDelay
  handler,      \* of the queue: where it is, its generation, what it has read
  posted,       \* blocks for the main thread
  told,         \* what the pipeline was told at the last step
  late          \* whether a handler has replaced a timer that was not its own

keyVars == <<held, generation, timer, repeat, handler, posted, told, late>>

Idle == [at |-> "idle", generation |-> 0]

Init ==
  /\ held = <<>> /\ generation = 0 /\ timer = -1
  /\ \E key \in Keys : repeat = [key |-> key, count |-> 0, isInitialDelay |-> FALSE]
  /\ handler = Idle /\ posted = <<>> /\ told = <<>> /\ late = FALSE

Event == [key : Keys, action : {"DOWN", "UP"}, count : 0..MaxCount]

-----------------------------------------------------------------------------
\* KeyEventRecognizer (external): the event, and a click or a long press it ends.
Recognized(event) == {<<event>>, <<event, [event EXCEPT !.action = "special"]>>}

\* AceViewSG::DispatchKeyEvent: what is recognised first, the event itself last.
DispatchKeyEvent(events) == IF Len(events) > 1 THEN <<Last(events), Head(events)>> ELSE events

\* DispatchEventToPerf: whether the performance monitor hears of the event.
DispatchEventToPerf(event) == event.key \in PerfKeys

\* Window::ProcessKeyEvent, UIContentImpl::ProcessKeyEvent, keyEventCallback: at once.
Tell(key, action, count) ==
  \E events \in Recognized([key |-> key, action |-> action, count |-> count]) :
    told' = [i \in DOMAIN events |->
               [event |-> DispatchKeyEvent(events)[i],
                perf |-> DispatchEventToPerf(DispatchKeyEvent(events)[i])]]

\* stopKeyRepeatTimer: of the fields of repeat, the key stays.
Stopped == [repeat EXCEPT !.count = 0, !.isInitialDelay = FALSE]

\* A key went down: it is told, and repeated from now on, whichever was before.
Began(key) ==
  /\ key \notin ToSet(held) /\ generation < MaxGeneration
  /\ generation' = generation + 1
  /\ timer' = generation + 1
  /\ repeat' = [key |-> key, count |-> 0, isInitialDelay |-> TRUE]
  /\ held' = Append(held, key)
  /\ Tell(key, "DOWN", 0)
  /\ UNCHANGED <<handler, posted, late>>

\* UIPressPhaseChanged is told as if the key were lifted; the repeats go on.
Changed(key) ==
  /\ key \in ToSet(held)
  /\ Tell(key, "UP", 0)
  /\ UNCHANGED <<held, generation, timer, repeat, handler, posted, late>>

\* A key was lifted, or its press was cancelled: nothing is repeated any more.
Ended(key) ==
  /\ key \in ToSet(held) /\ generation < MaxGeneration
  /\ generation' = generation + 1
  /\ timer' = -1 /\ repeat' = Stopped
  /\ held' = RemoveAt(held, CHOOSE i \in DOMAIN held : held[i] = key)
  /\ Tell(key, "UP", 0)
  /\ UNCHANGED <<handler, posted, late>>

\* handleKeyRepeatForGeneration, up to its first look at the generation.
Fire ==
  /\ timer # -1 /\ handler = Idle
  /\ handler' = IF timer = generation THEN [at |-> "entered", generation |-> timer] ELSE Idle
  /\ told' = <<>>
  /\ UNCHANGED <<held, generation, timer, repeat, posted, late>>

\* Its count and its block for the main thread.
Post ==
  /\ handler.at = "entered" /\ Len(posted) < MaxPosted /\ repeat.count < MaxCount
  /\ repeat' = [repeat EXCEPT !.count = @ + 1]
  /\ posted' = Append(posted, [generation |-> handler.generation, key |-> repeat.key,
                               count |-> repeat.count + 1])
  /\ handler' = [handler EXCEPT !.at = "posted"]
  /\ told' = <<>>
  /\ UNCHANGED <<held, generation, timer, late>>

\* Its second look, and whether this was the first repeat.
LookAgain ==
  /\ handler.at = "posted"
  /\ handler' = IF generation = handler.generation /\ repeat.isInitialDelay
                THEN [handler EXCEPT !.at = "stopping"] ELSE Idle
  /\ repeat' = IF generation = handler.generation THEN [repeat EXCEPT !.isInitialDelay = FALSE]
               ELSE repeat
  /\ told' = <<>>
  /\ UNCHANGED <<held, generation, timer, posted, late>>

\* After the first repeat the timer is replaced by one for the others.
Stop ==
  /\ handler.at = "stopping" /\ generation < MaxGeneration
  /\ late' = (late \/ generation # handler.generation)
  /\ generation' = generation + 1
  /\ timer' = -1 /\ repeat' = Stopped
  /\ handler' = [handler EXCEPT !.at = "starting", !.generation = generation + 1]
  /\ told' = <<>>
  /\ UNCHANGED <<held, posted>>

Start ==
  /\ handler.at = "starting" /\ (timer # -1 => generation < MaxGeneration)
  /\ late' = (late \/ generation # handler.generation)
  /\ generation' = IF timer # -1 THEN generation + 1 ELSE generation
  /\ repeat' = IF timer # -1 THEN Stopped ELSE repeat
  /\ timer' = generation'
  /\ handler' = Idle /\ told' = <<>>
  /\ UNCHANGED <<held, posted>>

\* mutant: a block that was posted is told whatever has been since.
RunPostedAlways ==
  /\ posted # <<>>
  /\ Tell(Head(posted).key, "DOWN", Head(posted).count)
  /\ posted' = Tail(posted)
  /\ UNCHANGED <<held, generation, timer, repeat, handler, late>>

\* The block on the main thread: the repeat is told if no timer was stopped since.
RunPosted ==
  /\ posted # <<>>
  /\ IF Head(posted).generation = generation
     THEN Tell(Head(posted).key, "DOWN", Head(posted).count) ELSE told' = <<>>
  /\ posted' = Tail(posted)
  /\ UNCHANGED <<held, generation, timer, repeat, handler, late>>

Press == \E key \in Keys : Began(key) \/ Changed(key) \/ Ended(key)

Repeat == Fire \/ Post \/ LookAgain \/ Stop \/ Start \/ RunPosted

Next == Press \/ Repeat

Spec == Init /\ [][Next]_keyVars

-----------------------------------------------------------------------------
\* What keeps a late repeat from being told.
Posted == [generation : Nat, key : Keys, count : Nat \ {0}]

Types ==
  /\ held \in Seq(Keys) /\ posted \in Seq(Posted)
  /\ generation \in Nat /\ timer \in {-1, generation} /\ late \in BOOLEAN
  /\ repeat \in [key : Keys, count : Nat, isInitialDelay : BOOLEAN]
  /\ handler \in [at : {"idle", "entered", "posted", "stopping", "starting"}, generation : Nat]

\* No handler and no block is of a generation to come.
NothingFromFuture ==
  /\ handler.generation <= generation
  /\ \A i \in 1..Len(posted) : posted[i].generation <= generation

\* A handler or a block of this generation has its timer, unless it has just stopped it.
TimerRuns ==
  /\ handler.at \in {"entered", "posted", "stopping"} /\ handler.generation = generation => timer # -1
  /\ \A i \in 1..Len(posted) : posted[i].generation = generation => timer # -1

\* While a timer runs, and between a handler's stop and its start, the last key is repeated.
RepeatsLast ==
  (timer # -1 \/ (handler.at = "starting" /\ handler.generation = generation)) =>
     held # <<>> /\ repeat.key = Last(held)

\* A block of this generation repeats the last key.
PostedLast ==
  \A i \in 1..Len(posted) : posted[i].generation = generation => posted[i].key = Last(held)

Inv == Types /\ NothingFromFuture /\ (~late => TimerRuns /\ RepeatsLast /\ PostedLast)

-----------------------------------------------------------------------------
\* What is told as a repeat is told of the key that went down last and is still held,
\* with at least one repeat counted, whatever the main thread did while the handler ran:
\* unless a handler replaced a timer after the main thread had stopped its own, which the
\* looks at the generation cannot prevent.  What keeps a late repeat from being told holds
\* in every state.
RepeatsOfHeldKey ==
  /\ []Inv
  /\ [][~late' /\ posted' # posted /\ Len(posted') < Len(posted) /\ told' # <<>> =>
          /\ held # <<>> /\ Last(held) = Last(told').event.key
          /\ Last(told').event.count >= 1]_keyVars
=============================================================================
