---------------------------- MODULE PickerHaptic ----------------------------
(***************************************************************************)
(* The tick a picker plays while it is turned (PickerHapticController).    *)
(* The UI thread says when, by a status; a thread of the controller waits  *)
(* for a status that says to play, plays a tick and waits for an interval. *)
(*                                                                         *)
(* HandleDelta writes the status without the mutex and reads, as it does   *)
(* isInHapticLoop_, what the play thread writes.  Play and PlayOnce read   *)
(* the status and set it in two steps.                                     *)
(***************************************************************************)
EXTENDS Integers, Sequences

CONSTANTS MaxOwed   \* bound: ticks asked for and not played, before the picker plays in a loop

ASSUME HapticAssumption == MaxOwed \in Nat

VARIABLES
  playThreadStatus,
  isHapticCanLoopPlay, isInHapticLoop, isLoopReadyToStop,
  recentSpeeds,     \* each below, at or above SPEED_THRESHOLD
  pc,               \* of the play thread
  ui,               \* of the UI thread: between calls, or a call that will set the status
  needNotify,
  atRest,           \* did the thread sleep when the call began, with nothing to play?
  owed,             \* ticks that PlayOnce asked for and were not played, while ~looped
  looped,           \* has Play been called?
  afterStop         \* ticks since Stop; -1 when played since

uiVars == <<isHapticCanLoopPlay, isLoopReadyToStop, recentSpeeds, ui, needNotify, atRest, looped>>
hapticVars == <<uiVars, playThreadStatus, isInHapticLoop, pc, owed, afterStop>>

ThreadStatus == {"NONE", "READY", "PLAYING", "PLAY_ONCE"}
TREND_COUNT == 3

HapticTypeOK ==
  /\ playThreadStatus \in ThreadStatus
  /\ {isHapticCanLoopPlay, isInHapticLoop, isLoopReadyToStop, needNotify, atRest, looped} \subseteq BOOLEAN
  /\ owed \in Int /\ afterStop \in -1 .. 1
  /\ recentSpeeds \in Seq({"below", "at", "above"}) /\ Len(recentSpeeds) <= TREND_COUNT
  /\ pc \in {"while", "wait", "asleep", "tick", "interval", "out", "ended"}
  /\ ui \in {"idle", "Play", "PlayOnce", "release", "joining", "destroyed"}

\* The constructor has started the thread.
HapticInit ==
  /\ playThreadStatus = "READY"
  /\ isHapticCanLoopPlay = FALSE /\ isInHapticLoop = FALSE /\ isLoopReadyToStop = FALSE
  /\ recentSpeeds = <<>> /\ pc = "while"
  /\ ui = "idle" /\ needNotify = FALSE /\ atRest = FALSE
  /\ owed = 0 /\ looped = FALSE /\ afterStop = -1

-----------------------------------------------------------------------------
(***************************************************************************)
(* The play thread: ThreadLoop.                                            *)
(***************************************************************************)
Playing == playThreadStatus \in {"PLAYING", "PLAY_ONCE"}

\* Woken, by threadCv_ or for no reason, it looks at the status again.
Woken == IF pc = "asleep" THEN "wait" ELSE pc

Waits ==
  /\ pc \in {"while", "wait"}
  /\ pc' = CASE playThreadStatus = "NONE" -> "ended"
             [] pc = "while" -> "wait"
             [] Playing -> "tick"
             [] OTHER -> "asleep"
  /\ UNCHANGED <<uiVars, playThreadStatus, isInHapticLoop, owed, afterStop>>

Ticks ==
  /\ pc = "tick"
  /\ pc' = "interval" /\ isInHapticLoop' = TRUE
  /\ owed' = IF looped THEN owed ELSE owed - 1
  /\ afterStop' = IF afterStop \in {0, 1} THEN afterStop + 1 ELSE afterStop
  /\ UNCHANGED <<uiVars, playThreadStatus>>

\* mutant: a tick that was asked for once is played until something else is said.
IntervalEndsOfLoop ==
  playThreadStatus' = IF isLoopReadyToStop THEN "READY" ELSE playThreadStatus

\* After its time, or as soon as the thread is notified.
IntervalEnds ==
  playThreadStatus' = IF playThreadStatus = "PLAY_ONCE" \/ isLoopReadyToStop
                      THEN "READY" ELSE playThreadStatus

WaitsInterval ==
  /\ pc = "interval" /\ IntervalEnds /\ pc' = "out"
  /\ UNCHANGED <<uiVars, isInHapticLoop, owed, afterStop>>

LeavesLoop ==
  /\ pc = "out" /\ isInHapticLoop' = FALSE /\ pc' = "while"
  /\ UNCHANGED <<uiVars, playThreadStatus, owed, afterStop>>

ThreadLoop == Waits \/ Ticks \/ WaitsInterval \/ LeavesLoop

SpuriousWakeup ==
  /\ pc = "asleep" /\ pc' = "wait"
  /\ UNCHANGED <<uiVars, playThreadStatus, isInHapticLoop, owed, afterStop>>

-----------------------------------------------------------------------------
(***************************************************************************)
(* The UI thread.                                                          *)
(***************************************************************************)
\* Playing in either way, the thread need not be notified.
NeedNotify(status) == status \notin {"PLAYING", "PLAY_ONCE"}

\* The first half of a call: needNotify.
Asks(call, status) ==
  /\ ui' = call /\ needNotify' = NeedNotify(status)
  /\ atRest' = (pc = "asleep" /\ status = "READY")

\* PlayOnce leaves a loop alone.
AsksOnce(status) ==
  IF status = "PLAYING" THEN UNCHANGED <<ui, needNotify, atRest>> ELSE Asks("PlayOnce", status)

Play ==
  /\ ui = "idle" /\ Asks("Play", playThreadStatus)
  /\ UNCHANGED <<playThreadStatus, isHapticCanLoopPlay, isInHapticLoop, isLoopReadyToStop,
                 recentSpeeds, pc, owed, looped, afterStop>>

PlayOnce ==
  /\ ui = "idle" /\ (looped \/ owed < MaxOwed) /\ AsksOnce(playThreadStatus)
  /\ UNCHANGED <<playThreadStatus, isHapticCanLoopPlay, isInHapticLoop, isLoopReadyToStop,
                 recentSpeeds, pc, owed, looped, afterStop>>

\* The second half.
Sets(status) ==
  /\ playThreadStatus' = status
  /\ pc' = IF needNotify THEN Woken ELSE pc
  /\ ui' = "idle" /\ afterStop' = -1
  /\ UNCHANGED <<isInHapticLoop, isLoopReadyToStop, recentSpeeds, needNotify, atRest>>

SetsPlaying ==
  /\ ui = "Play" /\ Sets("PLAYING")
  /\ looped' = TRUE
  /\ UNCHANGED <<owed, isHapticCanLoopPlay>>

SetsPlayOnce ==
  /\ ui = "PlayOnce" /\ Sets("PLAY_ONCE")
  /\ isHapticCanLoopPlay' = TRUE
  /\ owed' = IF looped THEN owed ELSE owed + 1
  /\ UNCHANGED looped

Stop ==
  /\ ui = "idle"
  /\ playThreadStatus' = "READY" /\ pc' = Woken
  /\ afterStop' = 0
  /\ UNCHANGED <<uiVars, isInHapticLoop, owed>>

\* GetPlayStatus: have the last speeds all been above the threshold, or all below?
All(speeds, speed) ==
  Len(speeds) = TREND_COUNT /\ \A i \in DOMAIN speeds : speeds[i] = speed

Recent(speed) ==
  LET all == Append(recentSpeeds, speed)
  IN  IF Len(all) > TREND_COUNT THEN Tail(all) ELSE all

\* A turn by some distance; one in the millisecond of the last is ignored.
HandleDelta(speed) ==
  /\ ui = "idle"
  /\ LET recent == Recent(speed)
     IN  \/ /\ ~isInHapticLoop /\ isLoopReadyToStop
            /\ isLoopReadyToStop' = FALSE /\ playThreadStatus' = "READY"
            /\ AsksOnce("READY")
            /\ recentSpeeds' = recent /\ UNCHANGED isHapticCanLoopPlay
         \/ /\ ~(~isInHapticLoop /\ isLoopReadyToStop)
            /\ isHapticCanLoopPlay /\ All(recent, "above")
            /\ Asks("Play", playThreadStatus)
            /\ recentSpeeds' = recent
            /\ UNCHANGED <<isHapticCanLoopPlay, isLoopReadyToStop, playThreadStatus>>
         \/ /\ ~(~isInHapticLoop /\ isLoopReadyToStop)
            /\ ~(isHapticCanLoopPlay /\ All(recent, "above"))
            /\ IF All(recent, "below") /\ playThreadStatus = "PLAYING" /\ ~isLoopReadyToStop
               THEN isLoopReadyToStop' = TRUE /\ isHapticCanLoopPlay' = FALSE /\ recentSpeeds' = <<>>
               ELSE recentSpeeds' = recent /\ UNCHANGED <<isHapticCanLoopPlay, isLoopReadyToStop>>
            /\ UNCHANGED <<ui, needNotify, atRest, playThreadStatus>>
  /\ UNCHANGED <<isInHapticLoop, pc, owed, looped, afterStop>>

\* mutant: the thread is not notified of its release.
ThreadReleaseSilent ==
  /\ ui = "idle" /\ ui' = "joining"
  /\ playThreadStatus' = "NONE"
  /\ UNCHANGED <<isHapticCanLoopPlay, isInHapticLoop, isLoopReadyToStop, recentSpeeds, needNotify, atRest,
                 pc, owed, looped, afterStop>>

\* The destructor.
ThreadRelease ==
  /\ ui = "idle" /\ ui' = "joining"
  /\ playThreadStatus' = "NONE" /\ pc' = Woken
  /\ UNCHANGED <<isHapticCanLoopPlay, isInHapticLoop, isLoopReadyToStop, recentSpeeds, needNotify, atRest,
                 owed, looped, afterStop>>

Joins ==
  /\ ui = "joining" /\ pc = "ended" /\ ui' = "destroyed"
  /\ UNCHANGED <<isHapticCanLoopPlay, isLoopReadyToStop, recentSpeeds, needNotify, atRest, looped,
                 playThreadStatus, isInHapticLoop, pc, owed, afterStop>>

HapticNext ==
  \/ ThreadLoop \/ SpuriousWakeup
  \/ Play \/ PlayOnce \/ SetsPlaying \/ SetsPlayOnce \/ Stop \/ ThreadRelease \/ Joins
  \/ \E speed \in {"below", "at", "above"} : HandleDelta(speed)

HapticSpec == HapticInit /\ [][HapticNext]_hapticVars

\* A call that has begun, and the destructor when the thread has ended.
CallGoesOn == SetsPlaying \/ SetsPlayOnce \/ Joins

\* The thread and the calls go on; a sleeping thread wakes when notified only.
HapticFairness == WF_hapticVars(ThreadLoop) /\ WF_hapticVars(CallGoesOn)

-----------------------------------------------------------------------------
\* Before the picker is played in a loop the thread is on its way to a tick only if one is
\* owed.
OwesWhatItPlays ==
  ~looped =>
    /\ playThreadStatus # "PLAYING" /\ owed >= 0
    /\ pc = "tick" => owed >= 1
    /\ playThreadStatus = "PLAY_ONCE" /\ pc \in {"out", "while", "wait", "asleep"} => owed >= 1

\* After Stop nothing says to play, and when its tick was heard the thread is past it.
SilentAfterStop ==
  /\ afterStop >= 0 => ~Playing
  /\ afterStop = 1 => pc # "tick"

\* No tick is played that was not asked for: PlayOnce never gives more than one each, and
\* after Stop only the tick that was already under way is heard, wherever the thread was.
TicksAsAsked == HapticTypeOK /\ OwesWhatItPlays /\ SilentAfterStop

\* Unless the picker is slowing down, its destructor comes back.  (If it is, the thread
\* in its interval sets READY over NONE, sleeps, and is joined for ever.)
ReleaseDue == ui = "joining" /\ ~isLoopReadyToStop
Released == ReleaseDue ~> ui = "destroyed"

\* A tick asked for while the thread is at rest is heard, unless the UI thread says
\* something else.  (One that is asked for before the last interval ends, and set
\* after it, finds the thread asleep and does not notify it.)
HeardFromRest ==
  (ui = "PlayOnce" /\ atRest)
    ~> (pc = "interval" \/ afterStop >= 0 \/ looped \/ ui \in {"joining", "destroyed"})
=============================================================================
