----------------------------- MODULE WebDownload -----------------------------
(***************************************************************************)
(* Downloads of a web view.  The application starts, pauses, resumes and   *)
(* cancels a download on the main thread; a URL session downloads on a     *)
(* queue of its own and tells AceWeb, which posts what it hears to the     *)
(* main queue.  AceWeb keeps the tasks in downloadTasksDic, which both     *)
(* threads change, and the bridge keeps an item per download in            *)
(* webDownloadImplMap, through which the application is told.              *)
(***************************************************************************)
EXTENDS SequencesExt

CONSTANTS
  Downloads,
  Nothing,
  MaxSteps,    \* bound: pauses, resumptions and pieces of data of a download
  MaxQueue     \* bound: a piece of data comes only while fewer are posted

VARIABLES
  task,       \* the URL session's tasks: none, suspended, running, finished, cancelled
  info,       \* downloadTasksDic: Nothing, or [isDownload, seq: by age of last update]
  item,       \* webDownloadImplMap: Nothing, or the item
  queue,      \* the main queue: what AceWeb posted, <<download, state, bytes received>>
  told,       \* what the application was told of each download, in order: the item
  asked,      \* has the application asked to cancel it?
  reported,   \* of which tasks does the session still have to tell that they ended?
  leaving,    \* whose end is posted, and whose task is next taken out of downloadTasksDic
  steps

downloadVars == <<task, info, item, queue, told, asked, reported, leaving, steps>>

Ends == {"COMPLETE", "CANCELED", "INTERRUPTED"}
States == Ends \cup {"PENDING", "IN_PROGRESS", "PAUSED"}

\* AceWebDownloadImpl; its names, addresses and speed are left out.
Item == [state : States, total : Nat, received : Nat, percent : {"none", "some", "100"}]

\* The constructor's item.
NewItem == [state |-> "PENDING", total |-> 0, received |-> 0, percent |-> "none"]

ASSUME DownloadAssumption ==
  MaxSteps \in Nat /\ MaxQueue \in Nat /\ Nothing \notin Item \cup [isDownload : BOOLEAN]

\* The setters.
Set(old, state, total, received, percent) ==
  [old EXCEPT !.state = state, !.total = total, !.received = received, !.percent = percent]

\* What is posted, with what had been received.
Posted == Downloads \X (Ends \cup {"IN_PROGRESS"}) \X Nat

DownloadTypeOK ==
  /\ task \in [Downloads -> {"none", "suspended", "running", "finished", "cancelled", "failed"}]
  /\ info \in [Downloads -> [isDownload : BOOLEAN] \cup {Nothing}]
  /\ item \in [Downloads -> Item \cup {Nothing}] /\ told \in [Downloads -> Seq(Item)]
  /\ queue \in Seq(Posted) /\ steps \in [Downloads -> 0 .. MaxSteps]
  /\ reported \subseteq Downloads /\ leaving \subseteq Downloads /\ asked \subseteq Downloads

DownloadInit ==
  /\ task = [d \in Downloads |-> "none"] /\ info = [d \in Downloads |-> Nothing]
  /\ item = [d \in Downloads |-> Nothing] /\ queue = <<>>
  /\ told = [d \in Downloads |-> <<>>] /\ asked = {} /\ reported = {} /\ leaving = {}
  /\ steps = [d \in Downloads |-> 0]

Step(d) == steps[d] < MaxSteps /\ steps' = [steps EXCEPT ![d] = @ + 1]

\* The size of every download, and more than is ever received before its end.
Total == MaxSteps + 1

\* An update of the item is told if there is an item.
Tells(d, state, received) ==
  IF item[d] = Nothing THEN UNCHANGED <<item, told>>
  ELSE LET new == IF state = "IN_PROGRESS"
                  THEN Set(item[d], state, Total, received, "some")
                  ELSE [item[d] EXCEPT !.state = state]
       IN  item' = [item EXCEPT ![d] = new] /\ told' = [told EXCEPT ![d] = Append(@, new)]

\* What has been received when it is complete is what was to be received, as far as an
\* update told.
Ended(old, state) ==
  IF state = "COMPLETE" THEN Set(old, state, old.total, old.total, "100")
  ELSE [old EXCEPT !.state = state]

\* mutant: the item is kept when it has ended.
EndKeepsItem(d, state) ==
  IF item[d] = Nothing THEN UNCHANGED <<item, told>>
  ELSE LET new == Ended(item[d], state)
       IN  item' = [item EXCEPT ![d] = new] /\ told' = [told EXCEPT ![d] = Append(@, new)]

\* The end is told with an item that is no longer in the map.
TellsEnd(d, state) ==
  IF item[d] = Nothing THEN UNCHANGED <<item, told>>
  ELSE LET new == Ended(item[d], state)
       IN  item' = [item EXCEPT ![d] = Nothing] /\ told' = [told EXCEPT ![d] = Append(@, new)]

-----------------------------------------------------------------------------
(***************************************************************************)
(* The application, on the main thread.                                    *)
(***************************************************************************)
\* startDownload and the callback before the start: a task that is not yet resumed.
StartDownload(d) ==
  /\ task[d] = "none"
  /\ task' = [task EXCEPT ![d] = "suspended"]
  /\ info' = [info EXCEPT ![d] = [isDownload |-> FALSE]]
  /\ item' = [item EXCEPT ![d] = NewItem]
  /\ told' = [told EXCEPT ![d] = Append(@, item'[d])]
  /\ UNCHANGED <<queue, asked, reported, leaving, steps>>

Resumed(d) == task' = [task EXCEPT ![d] = IF @ = "suspended" THEN "running" ELSE @]

WebDownloadItemStart(d) ==
  /\ info[d] # Nothing /\ Step(d)
  /\ info' = [info EXCEPT ![d].isDownload = TRUE]
  /\ Resumed(d)
  /\ UNCHANGED <<item, queue, told, asked, reported, leaving>>

WebDownloadItemPause(d) ==
  /\ info[d] # Nothing /\ info[d].isDownload /\ Step(d)
  /\ info' = [info EXCEPT ![d].isDownload = FALSE]
  /\ task' = [task EXCEPT ![d] = IF @ = "running" THEN "suspended" ELSE @]
  /\ Tells(d, "PAUSED", 0)
  /\ UNCHANGED <<queue, asked, reported, leaving>>

WebDownloadItemResume(d) ==
  /\ info[d] # Nothing /\ ~info[d].isDownload /\ Step(d)
  /\ info' = [info EXCEPT ![d].isDownload = TRUE]
  /\ Resumed(d)
  /\ Tells(d, "PENDING", 0)
  /\ UNCHANGED <<queue, asked, reported, leaving>>

\* The bridge forgets the item whether AceWeb still had the task or not; if it had, the
\* application is told, and the session will say that the task ended with an error.
WebDownloadItemCancel(d) ==
  /\ task[d] # "none" /\ d \notin asked
  /\ asked' = asked \cup {d}
  /\ IF info[d] # Nothing
     THEN LET live == task[d] \in {"suspended", "running"}
          IN  /\ info' = [info EXCEPT ![d] = Nothing]
              /\ task' = [task EXCEPT ![d] = IF live THEN "cancelled" ELSE @]
              /\ reported' = IF live THEN reported \cup {d} ELSE reported
              /\ TellsEnd(d, "CANCELED")
     ELSE item' = [item EXCEPT ![d] = Nothing] /\ UNCHANGED <<info, task, reported, told>>
  /\ UNCHANGED <<queue, leaving, steps>>

-----------------------------------------------------------------------------
(***************************************************************************)
(* The URL session, on its queue.                                          *)
(***************************************************************************)
Post(d, state, received) == queue' = Append(queue, <<d, state, received>>)

\* didWriteData: an update is posted at most every second, and of all downloads only for
\* the one that was updated least lately; which one that is is left open.  What has been
\* written grows with every step.
DidWriteData(d) ==
  /\ task[d] = "running" /\ leaving = {} /\ Len(queue) < MaxQueue /\ Step(d)
  /\ info[d] # Nothing /\ Post(d, "IN_PROGRESS", steps'[d])
  /\ UNCHANGED <<task, info, item, told, asked, reported, leaving>>

\* The session has all the data; it tells AceWeb afterwards.
Download(d) ==
  /\ task[d] = "running"
  /\ \E end \in {"finished", "failed"} : task' = [task EXCEPT ![d] = end]
  /\ reported' = reported \cup {d}
  /\ UNCHANGED <<info, item, queue, told, asked, leaving, steps>>

\* mutant: only a task that was cancelled was interrupted.
EndUnlessCancelled(d) == IF task[d] = "cancelled" THEN "INTERRUPTED" ELSE "COMPLETE"

EndOf(d) == IF task[d] = "finished" THEN "COMPLETE" ELSE "INTERRUPTED"

\* didFinishDownloadingToURL, and didCompleteWithError for a task that failed or was
\* cancelled: the end is posted first, and the task taken out of downloadTasksDic after;
\* the main queue may run the block before that.
DidComplete(d) ==
  /\ d \in reported /\ leaving = {}
  /\ reported' = reported \ {d} /\ leaving' = {d}
  /\ Post(d, EndOf(d), 0)
  /\ UNCHANGED <<task, info, item, told, asked, steps>>

RemoveTask(d) ==
  /\ d \in leaving
  /\ leaving' = leaving \ {d}
  /\ info' = [info EXCEPT ![d] = Nothing]
  /\ UNCHANGED <<task, item, queue, told, asked, reported, steps>>

\* A posted block on the main queue.
RunPosted ==
  /\ queue # <<>>
  /\ queue' = Tail(queue)
  /\ LET d == Head(queue)[1]
         state == Head(queue)[2]
     IN  IF state \in Ends THEN TellsEnd(d, state) ELSE Tells(d, state, Head(queue)[3])
  /\ UNCHANGED <<task, info, asked, reported, leaving, steps>>

DownloadNext ==
  \/ RunPosted
  \/ \E d \in Downloads :
       \/ StartDownload(d) \/ WebDownloadItemStart(d) \/ WebDownloadItemPause(d)
       \/ WebDownloadItemResume(d) \/ WebDownloadItemCancel(d)
       \/ DidWriteData(d) \/ Download(d) \/ DidComplete(d) \/ RemoveTask(d)

DownloadSpec == DownloadInit /\ [][DownloadNext]_downloadVars

\* The session and the main queue run what they have.
SessionEnds == \E d \in Downloads : DidComplete(d) \/ RemoveTask(d)
DownloadFairness == WF_downloadVars(RunPosted) /\ WF_downloadVars(SessionEnds)

FairDownloadSpec == DownloadSpec /\ DownloadFairness

-----------------------------------------------------------------------------
\* However a cancellation races the end of the download and updates that are still
\* posted, the application is told of one end, and of nothing after it; and what it is told
\* was received never shrinks.
ToldOneEnd ==
  \A d \in Downloads :
    /\ \A i \in DOMAIN told[d] : told[d][i].state \in Ends => i = Len(told[d])
    /\ \A i, j \in DOMAIN told[d] : i < j => told[d][i].received <= told[d][j].received

\* A download that ended without the application's asking is told to it, in the end, with
\* the right end.  (One that it cancels between the end and the posted block is not.)
RightlyTold(d) ==
  /\ told[d] # <<>>
  /\ Last(told[d]).state = CASE task[d] = "finished" -> "COMPLETE" [] task[d] = "failed" -> "INTERRUPTED"

EndDue == reported # {}
EndsTold ==
  \A d \in Downloads : task[d] \in {"finished", "failed"} => d \in asked \/ RightlyTold(d)
EndTold == EndDue ~> EndsTold

\* The tables agree when nothing is on its way: what AceWeb keeps the bridge keeps, and
\* neither keeps a download that has ended.
TablesAgree ==
  queue = <<>> /\ reported = {} /\ leaving = {} =>
    \A d \in Downloads :
      /\ (info[d] = Nothing) = (item[d] = Nothing)
      /\ info[d] # Nothing => task[d] \in {"suspended", "running"}

\* Of whom something is posted, and whether that is an end.
Of(i, d) == queue[i][1] = d
EndPosted(d) == \E i \in DOMAIN queue : Of(i, d) /\ queue[i][2] \in Ends

\* A download begins once, and before that nothing is known of it.
BeginsOnce ==
  \A d \in Downloads :
    /\ task[d] = "none" =>
         /\ told[d] = <<>> /\ info[d] = Nothing /\ item[d] = Nothing
         /\ \A i \in DOMAIN queue : ~Of(i, d)
    /\ d \in reported \cup leaving => task[d] \in {"finished", "failed", "cancelled"}

\* The item that is kept was told last, and its end never was.
KeptWasTold ==
  \A d \in Downloads : item[d] # Nothing =>
    /\ told[d] # <<>> /\ item[d] = Last(told[d]) /\ item[d].received <= steps[d]
    /\ item[d].total \in {item[d].received, Total}
    /\ \A i \in DOMAIN told[d] : told[d][i].state \notin Ends

\* What is posted comes in the order in which it was received, and after what was told.
PostedInOrder ==
  \A i \in DOMAIN queue : queue[i][2] = "IN_PROGRESS" =>
    /\ queue[i][3] <= steps[queue[i][1]]
    /\ item[queue[i][1]] # Nothing => item[queue[i][1]].received <= queue[i][3]
    /\ \A j \in DOMAIN queue :
         i < j /\ Of(j, queue[i][1]) /\ queue[j][2] = "IN_PROGRESS" => queue[i][3] <= queue[j][3]

\* What AceWeb keeps the bridge keeps, until the end is posted: then either may forget
\* first, and what the bridge keeps it keeps only until the posted block runs.
KeptByBoth ==
  \A d \in Downloads :
    /\ info[d] # Nothing /\ d \notin leaving =>
         /\ item[d] # Nothing /\ ~EndPosted(d)
         /\ task[d] \in {"suspended", "running"} \/ d \in reported
    /\ (info[d] = Nothing \/ d \in leaving) /\ item[d] # Nothing => EndPosted(d)

\* Each download has one end, nothing is told after it, and the tables and what is posted
\* are in step with it on the way.
DownloadsAgree ==
  /\ DownloadTypeOK /\ BeginsOnce /\ KeptWasTold /\ PostedInOrder /\ KeptByBoth
  /\ ToldOneEnd /\ TablesAgree
=============================================================================
