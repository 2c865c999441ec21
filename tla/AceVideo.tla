------------------------------ MODULE AceVideo ------------------------------
(***************************************************************************)
(* One video (capability/video/AceVideo.mm): the player ArkUI's Video      *)
(* component drives through the methods of initEventCallback.              *)
(*                                                                         *)
(* Everything runs on the main thread, but in pieces: a seek ends in a     *)
(* completion handler, an item becomes ready in a KVO callback, a playback *)
(* ends in a notification, and the first frame is shown or hidden by a     *)
(* block dispatched to the main queue.  Between them ArkUI calls methods   *)
(* and the application goes to the background and comes back.              *)
(*                                                                         *)
(* The handlers call each other, so each is a function from the record of  *)
(* the video's properties to the record it leaves behind.                  *)
(***************************************************************************)
EXTENDS Naturals

CONSTANTS
  Sources,        \* the values of src
  BadSources,     \* those no URL can be made of
  NoSource,
  MaxItems        \* bound: AVPlayerItems made

ASSUME VideoAssumption ==
  /\ BadSources \subseteq Sources
  /\ NoSource \notin Sources
  /\ MaxItems \in Nat \ {0}

VARIABLES
  video,      \* the properties of the AceVideo and of its AVPlayer
  refresh,    \* is a block of updateFirstFrameVisibilityAfterPrepared queued?
  released,   \* has releaseObject run?
  wanted      \* history: the last word is that the video should play

videoVars == <<video, refresh, released, wanted>>

PlayState == {"IDLE", "PREPARED", "STARTED", "PAUSED", "STOPPED", "PLAYBACK_COMPLETE"}

\* A seek under way: what its completion handler does (start the player, report
\* to ArkUI, or go on with a reset) and whether it goes to the end.
Seek == [then : {"start", "report", "prepared"}, end : BOOLEAN]
NoSeek == [then |-> "none", end |-> FALSE]

Video == [
  state : PlayState,
  item : 0 .. MaxItems,         \* player_.currentItem, 0 if there is no player_
  ready : BOOLEAN,              \* its status is ReadyToPlay
  rate : BOOLEAN,               \* player_.rate is not 0
  atEnd : BOOLEAN,              \* currentTime is in the last second
  seek : Seek \cup {NoSeek},
  observed : SUBSET (1 .. MaxItems),  \* items self observes
  isAddedLisenten : BOOLEAN,
  rawSrc : Sources \cup {NoSource},
  isAutoPlay : BOOLEAN, isLoop : BOOLEAN,
  showFirstFrame : BOOLEAN, seekedAfterPrepare : BOOLEAN, backgroundPause : BOOLEAN,
  surface : {"none", "layer", "texture"}, isTexture : BOOLEAN,
  hidden : BOOLEAN]             \* is the surface's AVPlayerLayer hidden?

VideoTypeOK ==
  /\ video \in Video
  /\ refresh \in BOOLEAN /\ released \in BOOLEAN /\ wanted \in BOOLEAN

VideoInit ==
  /\ video = [state |-> "IDLE", item |-> 0, ready |-> FALSE, rate |-> FALSE,
              atEnd |-> FALSE, seek |-> NoSeek, observed |-> {},
              isAddedLisenten |-> FALSE, rawSrc |-> NoSource, isAutoPlay |-> FALSE,
              isLoop |-> FALSE, showFirstFrame |-> FALSE, seekedAfterPrepare |-> FALSE,
              backgroundPause |-> FALSE, surface |-> "none", isTexture |-> FALSE,
              hidden |-> FALSE]
  /\ refresh = FALSE /\ released = FALSE /\ wanted = FALSE

-----------------------------------------------------------------------------
(***************************************************************************)
(* The handlers' common parts.  w is a video that has a player.            *)
(***************************************************************************)
\* seekToTime of AVPlayer: the completion handler of the seek before it, if that is
\* still under way, is told finished = NO and does nothing.
PlayerSeek(w, then, end) == [w EXCEPT !.seek = [then |-> then, end |-> end]]

\* May timeControlStatus be Playing, may it not be?  It waits until the item is
\* ready, and may wait for data at any time.
TimeControlPlaying(w) == IF w.rate /\ w.ready THEN BOOLEAN ELSE {FALSE}

\* state = STARTED, showAvPlayerlayer, play, updateSpeed.
Started(w) == [w EXCEPT !.state = "STARTED", !.rate = TRUE, !.hidden = FALSE]

SeekTo(w, end) ==
  IF w.state = "STOPPED" THEN w
  ELSE PlayerSeek([w EXCEPT !.seekedAfterPrepare = @ \/ w.state = "PREPARED"],
                  "report", end)

\* mutant: rewinds with seekTo, which does nothing in STOPPED.
StartPlayBySeekTo(w) ==
  CASE w.state \in {"STOPPED", "PLAYBACK_COMPLETE"} -> SeekTo(w, FALSE)
    [] w.state = "PREPARED" /\ ~w.seekedAfterPrepare -> PlayerSeek(w, "start", FALSE)
    [] w.state = "PREPARED" /\ w.seekedAfterPrepare -> Started(w)
    [] OTHER -> Started(IF w.atEnd THEN SeekTo(w, FALSE) ELSE w)

StartPlay(w) ==
  CASE w.state \in {"STOPPED", "PLAYBACK_COMPLETE"} -> PlayerSeek(w, "start", FALSE)
    [] w.state = "PREPARED" /\ ~w.seekedAfterPrepare -> PlayerSeek(w, "start", FALSE)
    [] w.state = "PREPARED" /\ w.seekedAfterPrepare -> Started(w)
    [] OTHER -> Started(IF w.atEnd THEN SeekTo(w, FALSE) ELSE w)

Replay(w) == StartPlay(SeekTo(w, FALSE))

\* mutant: the state changes and the player goes on.
PauseStateOnly(w) ==
  IF w.state = "STOPPED" THEN w ELSE [w EXCEPT !.state = "PAUSED"]

Pause(w) ==
  IF w.state = "STOPPED" THEN w ELSE [w EXCEPT !.rate = FALSE, !.state = "PAUSED"]

\* mutant: the new item is observed and the old one still is.
UpdatePalyerItemKeepsObserver(w) ==
  [w EXCEPT !.item = @ + 1, !.ready = FALSE, !.atEnd = FALSE, !.seek = NoSeek,
            !.observed = @ \cup {w.item + 1}, !.isAddedLisenten = TRUE]

\* mutant: makes the item again when the player is made.
UpdatePalyerItemTwice(w) ==
  [w EXCEPT !.item = @ + (IF w.item = 0 THEN 1 ELSE 2), !.ready = FALSE,
            !.atEnd = FALSE, !.seek = NoSeek,
            !.observed = {w.item + 1}, !.isAddedLisenten = TRUE]

\* A new AVPlayerItem replaces the current one, or comes with the player; seeks in
\* the old one are over.  self stops observing the one and observes the other.
UpdatePalyerItem(w) ==
  [w EXCEPT !.item = @ + 1, !.ready = FALSE, !.atEnd = FALSE, !.seek = NoSeek,
            !.observed = (IF w.item # 0 /\ w.isAddedLisenten THEN @ \ {w.item} ELSE @)
                           \cup {w.item + 1},
            !.isAddedLisenten = TRUE]

\* resetPlayerToPrepare with setAutoPlay, which is all that is used of it, if the
\* size and the duration of the item are known, or not.
\* pendingPlayAfterPrepare is never set.
SetPrepare(w, known) ==
  LET prepared == [w EXCEPT !.state = "PREPARED"] IN
  IF known /\ w.isAutoPlay THEN StartPlay(prepared) ELSE prepared

\* mutant: does not look at the state.
UpdateFirstFrameVisibilityAlways(w) ==
  IF ~w.isTexture /\ w.surface = "layer"
  THEN [w EXCEPT !.hidden = ~w.showFirstFrame] ELSE w

UpdateFirstFrameVisibility(w) ==
  IF w.state = "PREPARED" /\ ~w.isTexture /\ w.surface = "layer"
  THEN [w EXCEPT !.hidden = ~w.showFirstFrame] ELSE w

\* handleSameSourceReset.
SameSourceReset(w) ==
  LET reset == [w EXCEPT !.rate = FALSE, !.state = "PREPARED",
                         !.seekedAfterPrepare = FALSE]
  IN  IF w.showFirstFrame THEN PlayerSeek(reset, "prepared", FALSE) ELSE reset

-----------------------------------------------------------------------------
(***************************************************************************)
(* What ArkUI calls.                                                       *)
(***************************************************************************)
HasPlayer == video.item # 0 /\ ~released

\* initMediaPlayer.  A source that makes no URL is remembered all the same.
InitMediaPlayer(src) ==
  LET named == [video EXCEPT !.rawSrc = src] IN
  /\ ~released
  /\ IF src \in BadSources
     THEN video' = named /\ UNCHANGED <<refresh, wanted>>
     ELSE /\ video.item < MaxItems
          /\ \E autoplay, loop, known \in BOOLEAN :
               /\ video' = SetPrepare(UpdatePalyerItem([named EXCEPT
                                        !.isAutoPlay = autoplay, !.isLoop = loop]),
                                      known)
               /\ refresh' = (refresh \/ known)
               /\ wanted' = (autoplay /\ known)
  /\ UNCHANGED released

Start ==
  /\ HasPlayer
  /\ video' = StartPlay(video)
  /\ wanted' = TRUE
  /\ UNCHANGED <<refresh, released>>

PauseCall ==
  /\ HasPlayer
  /\ video' = Pause(video)
  /\ wanted' = (wanted /\ video.state = "STOPPED")
  /\ UNCHANGED <<refresh, released>>

StopCall ==
  /\ HasPlayer
  /\ video' = [video EXCEPT !.rate = FALSE, !.state = "STOPPED"]
  /\ wanted' = FALSE
  /\ UNCHANGED <<refresh, released>>

SeekToCall(end) ==
  /\ HasPlayer
  /\ video' = SeekTo(video, end)
  /\ wanted' = (wanted /\ video.state = "STOPPED")
  /\ UNCHANGED <<refresh, released>>

EnableLooping(enable) ==
  /\ HasPlayer
  /\ video' = [video EXCEPT !.isLoop = enable]
  /\ UNCHANGED <<refresh, released, wanted>>

\* updateSpeed: setRate with a speed above 0 runs the player.
UpdateSpeed ==
  /\ HasPlayer
  /\ \E playing \in TimeControlPlaying(video) :
       playing \/ video.isAutoPlay \/ video.state = "STARTED"
  /\ video' = [video EXCEPT !.rate = TRUE]
  /\ UNCHANGED <<refresh, released, wanted>>

\* The surface's layer is given the player there is; a player that is made later is never
\* given to it, so that ArkUI has to make the player first.  What a layer shows is left out.
SetSurface(texture) ==
  /\ ~released
  /\ video' = IF texture
              THEN [video EXCEPT !.surface = "texture", !.isTexture = TRUE,
                                 !.hidden = FALSE]
              ELSE UpdateFirstFrameVisibility([video EXCEPT !.surface = "layer"])
  /\ UNCHANGED <<refresh, released, wanted>>

SetRenderFirstFrame(show) ==
  /\ ~released
  /\ video' = UpdateFirstFrameVisibility([video EXCEPT !.showFirstFrame = show])
  /\ UNCHANGED <<refresh, released, wanted>>

SetUpdateResource(src) ==
  LET named == [video EXCEPT !.rawSrc = src]
      same == src = video.rawSrc /\ video.item # 0 IN
  /\ ~released
  /\ \/ /\ same
        /\ video' = SameSourceReset(video)
        /\ refresh' = (refresh \/ ~video.showFirstFrame)
        /\ wanted' = FALSE
     \/ /\ ~same /\ src \in BadSources
        /\ video' = named /\ UNCHANGED <<refresh, wanted>>
     \/ /\ ~same /\ src \notin BadSources
        /\ video.item < MaxItems
        /\ video' = UpdatePalyerItem(IF video.item = 0 THEN named ELSE Pause(named))
        /\ wanted' = FALSE
        /\ UNCHANGED refresh
  /\ UNCHANGED released

-----------------------------------------------------------------------------
(***************************************************************************)
(* What AVPlayer, the main queue and the application do.                   *)
(***************************************************************************)
\* observeValueForKeyPath: the item's status is ReadyToPlay.
ItemReady ==
  /\ HasPlayer /\ video.item \in video.observed /\ ~video.ready
  /\ \E known \in BOOLEAN :
       /\ video' = SetPrepare([video EXCEPT !.ready = TRUE], known)
       /\ refresh' = (refresh \/ known)
       /\ wanted' = (wanted \/ (known /\ video.isAutoPlay))
  /\ UNCHANGED released

\* The completion handler of the seek under way.
SeekDone ==
  LET done == [video EXCEPT !.seek = NoSeek, !.atEnd = video.seek.end] IN
  /\ HasPlayer /\ video.ready /\ video.seek # NoSeek
  /\ video' = CASE video.seek.then = "start" -> Started(done)
                [] video.seek.then = "report" /\ video.state # "STARTED"
                     /\ ~video.isTexture -> [done EXCEPT !.hidden = FALSE]
                [] OTHER -> done
  /\ refresh' = (refresh \/ video.seek.then = "prepared")
  /\ UNCHANGED <<released, wanted>>

\* The playback comes into its last second.
PlayOn ==
  /\ HasPlayer /\ video.rate /\ video.ready /\ ~video.atEnd
  /\ video' = [video EXCEPT !.atEnd = TRUE]
  /\ UNCHANGED <<refresh, released, wanted>>

\* The player stops at the end of the item and playDidEndNotification is called.
PlayDidEnd ==
  LET ended == [video EXCEPT !.rate = FALSE] IN
  /\ HasPlayer /\ video.rate /\ video.ready /\ video.atEnd
  /\ video' = IF video.isLoop THEN Replay(ended)
              ELSE [ended EXCEPT !.state = "PLAYBACK_COMPLETE"]
  /\ wanted' = video.isLoop
  /\ UNCHANGED <<refresh, released>>

\* The block of updateFirstFrameVisibilityAfterPrepared.
RefreshFirstFrame ==
  /\ refresh /\ ~released
  /\ video' = UpdateFirstFrameVisibility(video)
  /\ refresh' = FALSE
  /\ UNCHANGED <<released, wanted>>

OnActivityPause ==
  /\ HasPlayer /\ TRUE \in TimeControlPlaying(video)
  /\ video' = [Pause(video) EXCEPT !.backgroundPause = TRUE]
  /\ wanted' = FALSE
  /\ UNCHANGED <<refresh, released>>

OnActivityResume ==
  /\ HasPlayer /\ video.backgroundPause /\ video.state = "PAUSED"
  /\ video' = [StartPlay(video) EXCEPT !.backgroundPause = FALSE]
  /\ wanted' = TRUE
  /\ UNCHANGED <<refresh, released>>

\* releaseObject.  Blocks and handlers that come later find no self.
ReleaseObject ==
  /\ ~released
  /\ \E playing \in TimeControlPlaying(video) :
       LET w == IF playing THEN Pause(video) ELSE video IN
       video' = [w EXCEPT !.observed = IF w.item # 0 /\ w.isAddedLisenten
                                       THEN @ \ {w.item} ELSE @,
                          !.isAddedLisenten = @ /\ w.item = 0,
                          !.rawSrc = NoSource]
  /\ released' = TRUE
  /\ wanted' = FALSE
  /\ UNCHANGED refresh

-----------------------------------------------------------------------------
Calls ==
  \/ \E src \in Sources : InitMediaPlayer(src) \/ SetUpdateResource(src)
  \/ Start \/ PauseCall \/ StopCall \/ UpdateSpeed
  \/ \E b \in BOOLEAN :
       SeekToCall(b) \/ EnableLooping(b) \/ SetSurface(b) \/ SetRenderFirstFrame(b)

Events ==
  \/ ItemReady \/ SeekDone \/ PlayOn \/ PlayDidEnd \/ RefreshFirstFrame
  \/ OnActivityPause \/ OnActivityResume \/ ReleaseObject

VideoNext == Calls \/ Events

VideoSpec == VideoInit /\ [][VideoNext]_videoVars

\* AVPlayer finishes a seek that no other replaces.
FairVideoSpec == VideoSpec /\ WF_videoVars(SeekDone)

-----------------------------------------------------------------------------
\* The player runs only in STARTED, and in PREPARED, to which an item that becomes
\* ready late brings a video that has already been started.  A video set to
\* autoplay is the exception: a change of its speed starts it in any state.
SilentUnlessStarted ==
  ~video.isAutoPlay /\ video.rate => video.state \in {"STARTED", "PREPARED"}

\* The first-frame block, which comes some time after the event it belongs to,
\* never hides the layer of a video that has been started meanwhile.
StartedIsVisible == video.state = "STARTED" => ~video.hidden

\* The video observes its current item and no other, and none when it is released:
\* an item must not be freed while it is observed, nor an observer be removed twice.
ObservesCurrentItem ==
  /\ video.observed = IF video.item = 0 \/ released THEN {} ELSE {video.item}
  /\ video.isAddedLisenten = (video.item # 0 /\ ~released)

VideoAgrees == VideoTypeOK /\ SilentUnlessStarted /\ StartedIsVisible /\ ObservesCurrentItem

\* Once its item is ready, a video that was started, or that is set to autoplay,
\* plays, unless ArkUI pauses, stops, seeks, or sets another source first: whatever
\* the state was, and however often the item's ready event starts it again.
StartDue == wanted /\ video.ready
StartTakesEffect == StartDue ~> video.rate \/ ~StartDue
=============================================================================
