--------------------------- MODULE BridgeMessaging ---------------------------
(***************************************************************************)
(* The traffic of the bridges (capability/bridge).                         *)
(*                                                                         *)
(* ArkUI calls a plugin's methods and sends it messages: each is a task    *)
(* that dispatchTaskInQueueHandlerWithTaskInfo runs at once on the calling *)
(* thread, or gives to the bridge's NSOperationQueue, serial or            *)
(* concurrent, if the plugin was built with a TaskOption.  What the task   *)
(* answers goes back through the one serial dispatch queue of              *)
(* BridgeGCDTaskQueue, except the errors, which are sent from the task.    *)
(*                                                                         *)
(* A plugin's calls and messages to ArkUI go through the same serial queue,*)
(* and ArkUI's answers to them come back as tasks of the first kind.       *)
(*                                                                         *)
(* Both ends come and go meanwhile.  Registration is atomic here; module   *)
(* BridgeRegistry has its steps, and the unRegisterBridgePlugin that       *)
(* removes all plugins.                                                    *)
(***************************************************************************)
EXTENDS Naturals, SequencesExt

CONSTANTS
  Names, Plugins, BridgeTypes, Json,   \* Json: JSON_TYPE, the others are binary
  nameOf, typeOf, optionOf,            \* as in BridgeRegistry
  None,
  MaxJs,          \* bound: calls and messages from ArkUI
  MaxNative,      \* bound: calls and messages from plugins
  MaxChanges,     \* bound: changes of registration
  Whats,          \* what is sent: "call" (a method) and "message"
  ArrayResults,   \* may a binary plugin's method return an NSArray?
  deaf            \* of each plugin: what may reach it and find no delegate (below)

ASSUME MessagingAssumption ==
  /\ Json \in BridgeTypes
  /\ nameOf \in [Plugins -> Names]
  /\ typeOf \in [Plugins -> BridgeTypes]
  /\ optionOf \in [Plugins -> {None, "serial", "concurrent"}]
  /\ None \notin Names \cup Plugins \cup BridgeTypes
  /\ MaxJs \in Nat /\ MaxNative \in Nat /\ MaxChanges \in Nat
  /\ Whats \subseteq {"call", "message"}
  /\ ArrayResults \in BOOLEAN
  /\ deaf \in [Plugins -> SUBSET {"message", "response", "result", "cancel"}]

VARIABLES
  bridgeList,      \* the type of each name's ArkUI receiver
  bridgeMap,       \* each name's plugin
  bridgeQueueMap,  \* each name's handler: the number and the kind of its queue
  isAvailable,     \* of each plugin
  changes,         \* changes of registration so far
  input,           \* tasks dispatched and not finished, in dispatch order
  gcd,             \* blocks in the serial queue of BridgeGCDTaskQueue
  gcdPc,           \* "find" between the two look-ups of PlatformCallMethod
  jsSent,          \* what ArkUI sent, in order; its index identifies it
  nativeSent,      \* what plugins sent, in order
  jsInbox,         \* what the receivers' callbacks got, in order
  nativeInbox,     \* what the plugins' delegates got, in order
  replied,         \* native calls and messages ArkUI has replied to
  invoked,         \* calls and messages of ArkUI, as plugins began to handle them
  excused          \* history: what was under way when an end it needs changed, or was
                   \* answered with what cannot be sent or is not heard

regVars == <<bridgeList, bridgeMap, bridgeQueueMap, isAvailable, changes>>
sentVars == <<jsSent, nativeSent>>
vars == <<regVars, input, gcd, gcdPc, sentVars, jsInbox, nativeInbox, replied, invoked,
          excused>>

-----------------------------------------------------------------------------
Answers == {"result", "response"}
AnswerTo(what) == IF what = "call" THEN "result" ELSE "response"
Codes == {"ERROR_NO", "NAME_ERROR", "INVALID", "CODEC_TYPE_MISMATCH"}

\* Queue 0 stands for the JS thread and queue 1 for the dispatch queue's thread,
\* running a task inline; the handlers' queues are numbered from 2.
InlineJs == 0
InlineGcd == 1
Queues == 0 .. (MaxChanges + 2)
Handler == [queue : Queues, serial : BOOLEAN]
NoHandler == [queue |-> 0, serial |-> TRUE]

Task == [what : {"call", "message", "cancel"} \cup Answers, id : Nat, name : Names,
         codec : BridgeTypes, code : Codes, queue : Queues, serial : BOOLEAN,
         plugin : Plugins \cup {None}]
Block == [what : {"call", "message"} \cup Answers, id : Nat, name : Names,
          codec : BridgeTypes]

TypeOK ==
  /\ bridgeList \in [Names -> BridgeTypes \cup {None}]
  /\ bridgeMap \in [Names -> Plugins \cup {None}]
  /\ bridgeQueueMap \in [Names -> Handler]
  /\ isAvailable \in [Plugins -> BOOLEAN]
  /\ changes \in 0 .. MaxChanges
  /\ input \in Seq(Task)
  /\ gcd \in Seq(Block)
  /\ gcdPc \in {"idle", "find"}
  /\ jsSent \in Seq([what : Whats, name : Names, queue : Queues, serial : BOOLEAN])
  /\ nativeSent \in Seq([what : Whats, name : Names, plugin : Plugins,
                         accepted : BOOLEAN, paired : BOOLEAN])
  /\ jsInbox \in Seq([what : {"call", "message"} \cup Answers, id : Nat, name : Names,
                      codec : BridgeTypes, code : Codes, direct : BOOLEAN])
  /\ nativeInbox \in Seq([what : {"cancel"} \cup Answers, id : Nat,
                          plugin : Plugins, code : Codes])
  /\ replied \subseteq 1 .. Len(nativeSent)
  /\ invoked \in Seq(1 .. MaxJs)
  /\ excused \subseteq {"js", "native"} \X Nat

Init ==
  /\ bridgeList = [n \in Names |-> None]
  /\ bridgeMap = [n \in Names |-> None]
  /\ bridgeQueueMap = [n \in Names |-> NoHandler]
  /\ isAvailable = [p \in Plugins |-> FALSE]
  /\ changes = 0
  /\ input = <<>> /\ gcd = <<>> /\ gcdPc = "idle"
  /\ jsSent = <<>> /\ nativeSent = <<>>
  /\ jsInbox = <<>> /\ nativeInbox = <<>>
  /\ replied = {} /\ invoked = <<>> /\ excused = {}

-----------------------------------------------------------------------------
(***************************************************************************)
(* Registration.  What is under way on the name loses its right to be      *)
(* answered when the receiver changes, and a plugin's own calls also when  *)
(* the plugin does.                                                        *)
(***************************************************************************)
Under(side, sent, n) == {<<side, i>> : i \in {j \in 1 .. Len(sent) : sent[j].name = n}}

Registration(n) ==
  /\ changes < MaxChanges
  /\ changes' = changes + 1
  /\ UNCHANGED <<input, gcd, gcdPc, sentVars, jsInbox, nativeInbox, replied, invoked>>

\* innerRegisterBridgePlugin, replacing the plugin the name had.
RegisterPlugin(p) ==
  LET n == nameOf[p] IN
  /\ Registration(n)
  /\ bridgeMap' = [bridgeMap EXCEPT ![n] = p]
  /\ bridgeQueueMap' =
       [bridgeQueueMap EXCEPT
          ![n] = IF optionOf[p] = None THEN NoHandler
                 ELSE [queue |-> changes + 2, serial |-> optionOf[p] = "serial"]]
  /\ isAvailable' = [isAvailable EXCEPT ![p] = @ \/ bridgeList[n] = typeOf[p]]
  /\ excused' = excused \cup Under("native", nativeSent, n)
  /\ UNCHANGED bridgeList

\* innerUnRegisterBridgePlugin.  The operations of the removed handler's queue
\* still run.
UnRegisterPlugin(n) ==
  /\ bridgeMap[n] # None
  /\ Registration(n)
  /\ bridgeMap' = [bridgeMap EXCEPT ![n] = None]
  /\ bridgeQueueMap' = [bridgeQueueMap EXCEPT ![n] = NoHandler]
  /\ excused' = excused \cup Under("native", nativeSent, n)
  /\ UNCHANGED <<bridgeList, isAvailable>>

JSRegisterBridge(n, type) ==
  LET p == bridgeMap[n] IN
  /\ Registration(n)
  /\ bridgeList' = [bridgeList EXCEPT ![n] = type]
  /\ isAvailable' = IF p # None /\ typeOf[p] = type
                    THEN [isAvailable EXCEPT ![p] = TRUE] ELSE isAvailable
  /\ excused' = excused \cup Under("native", nativeSent, n) \cup Under("js", jsSent, n)
  /\ UNCHANGED <<bridgeMap, bridgeQueueMap>>

\* The plugin is told even if there was no receiver.
JSUnRegisterBridge(n) ==
  LET p == bridgeMap[n] IN
  /\ Registration(n)
  /\ bridgeList' = [bridgeList EXCEPT ![n] = None]
  /\ isAvailable' = IF p # None THEN [isAvailable EXCEPT ![p] = FALSE] ELSE isAvailable
  /\ excused' = excused \cup Under("native", nativeSent, n) \cup Under("js", jsSent, n)
  /\ UNCHANGED <<bridgeMap, bridgeQueueMap>>

-----------------------------------------------------------------------------
(***************************************************************************)
(* Tasks: dispatchTaskInQueueHandlerWithTaskInfo and the queues.           *)
(***************************************************************************)
\* The queue a task for n joins when it is dispatched on the given thread.
HandlerOf(n, thread) ==
  IF bridgeQueueMap[n] = NoHandler THEN [queue |-> thread, serial |-> TRUE]
  ELSE bridgeQueueMap[n]

NewTask(what, id, n, codec, code, h) ==
  [what |-> what, id |-> id, name |-> n, codec |-> codec, code |-> code,
   queue |-> h.queue, serial |-> h.serial, plugin |-> None]

\* A thread that runs a task inline does nothing else until it has finished.
Free(thread) == \A i \in DOMAIN input : input[i].queue # thread

\* mutant: every queue is created concurrent.
MayStartConcurrent(i) ==
  input[i].plugin = None

\* A task of a serial queue starts when the ones before it have finished; the
\* ones of a concurrent queue start in any order.  (The handler makes its queue with
\* its first task; here the queue is there from the start.)
MayStart(i) ==
  /\ input[i].plugin = None
  /\ input[i].serial => \A j \in 1 .. i - 1 : input[j].queue # input[i].queue

\* A receiver's callback gets x.  direct: sent from the task, not by the queue.
ToJs(what, id, n, code, direct) ==
  jsInbox' = IF bridgeList[n] = None THEN jsInbox
             ELSE Append(jsInbox, [what |-> what, id |-> id, name |-> n,
                                   codec |-> bridgeList[n], code |-> code,
                                   direct |-> direct])

\* mutant: the block goes to the front of the queue.
EnqueueFirst(what, id, n, codec) ==
  gcd' = <<[what |-> what, id |-> id, name |-> n, codec |-> codec]>> \o gcd

Enqueue(what, id, n, codec) ==
  gcd' = Append(gcd, [what |-> what, id |-> id, name |-> n, codec |-> codec])

(***************************************************************************)
(* ArkUI calls a method or sends a message: jsCallMethod, jsSendMessage    *)
(* and their binary forms.                                                 *)
(***************************************************************************)
JSSend(n, what) ==
  LET id == Len(jsSent) + 1
      h == HandlerOf(n, InlineJs)
  IN
  /\ id <= MaxJs
  /\ bridgeList[n] # None
  /\ Free(InlineJs)
  /\ jsSent' = Append(jsSent, [what |-> what, name |-> n, queue |-> h.queue,
                               serial |-> h.serial])
  /\ input' = Append(input, NewTask(what, id, n, bridgeList[n], "ERROR_NO", h))
  /\ UNCHANGED <<regVars, gcd, gcdPc, nativeSent, jsInbox, nativeInbox, replied,
                 invoked, excused>>

Serves(p, codec) == p # None /\ typeOf[p] = codec

\* mutant: the early return of jsCallMethodInner reports nothing.
RefuseTaskSilently(i) ==
  LET x == input[i] IN
  /\ x.what \in {"call", "message"} /\ MayStart(i)
  /\ ~Serves(bridgeMap[x.name], x.codec)
  /\ input' = RemoveAt(input, i)
  /\ UNCHANGED <<regVars, gcd, gcdPc, sentVars, jsInbox, nativeInbox, replied, invoked,
                 excused>>

\* jsCallMethodInner and jsSendMessageInner: no plugin, or one of the other type,
\* is an error that is sent to ArkUI from here.
RefuseTask(i) ==
  LET x == input[i]
      p == bridgeMap[x.name]
  IN
  /\ x.what \in {"call", "message"} /\ MayStart(i)
  /\ ~Serves(p, x.codec)
  /\ ToJs(AnswerTo(x.what), x.id, x.name,
          IF p # None THEN "CODEC_TYPE_MISMATCH"
          ELSE IF x.what = "call" THEN "INVALID" ELSE "NAME_ERROR", TRUE)
  /\ input' = RemoveAt(input, i)
  /\ UNCHANGED <<regVars, gcd, gcdPc, sentVars, nativeInbox, replied, invoked, excused>>

\* The plugin found begins to run the method, or its listener's onMessage.
StartTask(i) ==
  LET x == input[i]
      p == bridgeMap[x.name]
  IN
  /\ x.what \in {"call", "message"} /\ MayStart(i)
  /\ Serves(p, x.codec)
  /\ input' = [input EXCEPT ![i].plugin = p]
  /\ invoked' = Append(invoked, x.id)
  /\ UNCHANGED <<regVars, gcd, gcdPc, sentVars, jsInbox, nativeInbox, replied, excused>>

\* It returns, and the answer joins the serial queue.
FinishTask(i) ==
  LET x == input[i] IN
  /\ x.what \in {"call", "message"} /\ x.plugin # None
  /\ input' = RemoveAt(input, i)
  /\ Enqueue(AnswerTo(x.what), x.id, x.name, x.codec)
  /\ UNCHANGED <<regVars, gcdPc, sentVars, jsInbox, nativeInbox, replied, invoked,
                 excused>>

\* jsCallMethod of a binary plugin: an NSArray is not sent, the plugin's own
\* delegate gets onError (callPlatformError); and jsSendMessage of a plugin without
\* a messageListener, or one without onMessage, sends no response.
DropAnswer(i) ==
  LET x == input[i] IN
  /\ x.plugin # None
  /\ \/ x.what = "call" /\ ArrayResults /\ x.codec # Json
     \/ x.what = "message" /\ "message" \in deaf[x.plugin]
  /\ input' = RemoveAt(input, i)
  /\ excused' = excused \cup {<<"js", x.id>>}
  /\ UNCHANGED <<regVars, gcd, gcdPc, sentVars, jsInbox, nativeInbox, replied, invoked>>

-----------------------------------------------------------------------------
(***************************************************************************)
(* A plugin calls a method of ArkUI or sends it a message: callMethod and  *)
(* sendMessage.  An unavailable plugin's are dropped without a word.       *)
(***************************************************************************)
Paired(p) == bridgeMap[nameOf[p]] = p /\ bridgeList[nameOf[p]] = typeOf[p]

NativeSend(p, what) ==
  LET id == Len(nativeSent) + 1 IN
  /\ id <= MaxNative
  /\ nativeSent' = Append(nativeSent, [what |-> what, name |-> nameOf[p], plugin |-> p,
                                       accepted |-> isAvailable[p],
                                       paired |-> Paired(p)])
  /\ IF isAvailable[p] THEN Enqueue(what, id, nameOf[p], typeOf[p]) ELSE UNCHANGED gcd
  /\ UNCHANGED <<regVars, input, gcdPc, jsSent, jsInbox, nativeInbox, replied, invoked,
                 excused>>

GcdIdle(whats) == gcd # <<>> /\ gcdPc = "idle" /\ Free(InlineGcd) /\ Head(gcd).what \in whats

\* mutant: the block waits for the receiver to come back.
GcdAnswerWaits ==
  LET x == Head(gcd) IN
  /\ GcdIdle(Answers)
  /\ bridgeList[x.name] # None
  /\ gcd' = Tail(gcd)
  /\ ToJs(x.what, x.id, x.name, "ERROR_NO", FALSE)
  /\ UNCHANGED <<regVars, input, gcdPc, sentVars, nativeInbox, replied, invoked, excused>>

\* platformSendMethodResultInner, platformSendMessageResponseInner and the binary
\* form: the answer reaches the receiver, or nobody.
GcdAnswer ==
  LET x == Head(gcd) IN
  /\ GcdIdle(Answers)
  /\ gcd' = Tail(gcd)
  /\ ToJs(x.what, x.id, x.name, "ERROR_NO", FALSE)
  /\ UNCHANGED <<regVars, input, gcdPc, sentVars, nativeInbox, replied, invoked, excused>>

\* mutant: no return after the error, the block goes on to look the receiver up.
GcdNoReceiverGoesOn ==
  LET x == Head(gcd) IN
  /\ GcdIdle({"call", "message"})
  /\ x.codec = Json
  /\ bridgeList[x.name] = None
  /\ gcdPc' = "find"
  /\ input' = Append(input, NewTask(AnswerTo(x.what), x.id, x.name, x.codec,
                                    "NAME_ERROR", HandlerOf(x.name, InlineGcd)))
  /\ UNCHANGED <<regVars, gcd, sentVars, jsInbox, nativeInbox, replied, invoked, excused>>

\* PlatformCallMethod and PlatformSendMessage first ask whether the receiver is
\* there.  If not, they report the error as if ArkUI had answered.
GcdNoReceiver ==
  LET x == Head(gcd) IN
  /\ GcdIdle({"call", "message"})
  /\ x.codec = Json
  /\ bridgeList[x.name] = None
  /\ gcd' = Tail(gcd)
  /\ input' = Append(input, NewTask(AnswerTo(x.what), x.id, x.name, x.codec,
                                    "NAME_ERROR", HandlerOf(x.name, InlineGcd)))
  /\ UNCHANGED <<regVars, gcdPc, sentVars, jsInbox, nativeInbox, replied, invoked,
                 excused>>

GcdReceiverExists ==
  LET x == Head(gcd) IN
  /\ GcdIdle({"call", "message"})
  /\ x.codec = Json
  /\ bridgeList[x.name] # None
  /\ gcdPc' = "find"
  /\ UNCHANGED <<regVars, input, gcd, sentVars, jsInbox, nativeInbox, replied, invoked,
                 excused>>

\* mutant: the block waits for the receiver to come back.
GcdDeliverWaits ==
  LET x == Head(gcd) IN
  /\ \/ gcdPc = "find"
     \/ GcdIdle({"call", "message"}) /\ x.codec # Json
  /\ bridgeList[x.name] # None
  /\ gcd' = Tail(gcd)
  /\ gcdPc' = "idle"
  /\ ToJs(x.what, x.id, x.name, "ERROR_NO", FALSE)
  /\ UNCHANGED <<regVars, input, sentVars, nativeInbox, replied, invoked, excused>>

\* Then they look the receiver up again, and do nothing if it has gone.  The binary
\* forms look it up once, and do nothing either if it is not there.
GcdDeliver ==
  LET x == Head(gcd) IN
  /\ \/ gcdPc = "find"
     \/ GcdIdle({"call", "message"}) /\ x.codec # Json
  /\ gcd' = Tail(gcd)
  /\ gcdPc' = "idle"
  /\ ToJs(x.what, x.id, x.name, "ERROR_NO", FALSE)
  /\ UNCHANGED <<regVars, input, sentVars, nativeInbox, replied, invoked, excused>>

\* ArkUI replies, once, to what it got: jsSendMethodResult, jsSendMessageResponse,
\* jsSendMethodResultBinary, or, for a call, jsCancelMethod.
JSReply(i, cancel) ==
  LET x == jsInbox[i] IN
  /\ x.what \in {"call", "message"} /\ x.id \notin replied
  /\ cancel => x.what = "call"
  /\ Free(InlineJs)
  /\ replied' = replied \cup {x.id}
  /\ input' = Append(input, NewTask(IF cancel THEN "cancel" ELSE AnswerTo(x.what), x.id,
                                    x.name, x.codec, "ERROR_NO",
                                    HandlerOf(x.name, InlineJs)))
  /\ UNCHANGED <<regVars, gcd, gcdPc, sentVars, jsInbox, nativeInbox, invoked, excused>>

\* mutant: the binary form checks the plugin for JSON_TYPE too.
RunAnswerJsonOnly(i) ==
  LET x == input[i]
      p == bridgeMap[x.name]
      taken == p # None /\ (x.what = "result" => Serves(p, Json))
  IN
  /\ x.what \in {"cancel"} \cup Answers /\ MayStart(i)
  /\ input' = RemoveAt(input, i)
  /\ nativeInbox' = IF taken
                    THEN Append(nativeInbox, [what |-> x.what, id |-> x.id,
                                              plugin |-> p, code |-> x.code])
                    ELSE nativeInbox
  /\ UNCHANGED <<regVars, gcd, gcdPc, sentVars, jsInbox, replied, invoked, excused>>

\* jsSendMethodResultInner, jsSendMethodResultBinaryInner, jsSendMessageResponseInner
\* and jsCancelMethodInner.  Only a method's result is refused by a plugin of the
\* other type; and only the JSON one reports it, to ArkUI, as a method result.
RunAnswer(i) ==
  LET x == input[i]
      p == bridgeMap[x.name]
      taken == p # None /\ (x.what = "result" => Serves(p, x.codec))
  IN
  /\ x.what \in {"cancel"} \cup Answers /\ MayStart(i)
  /\ input' = RemoveAt(input, i)
  /\ nativeInbox' = IF taken
                    THEN Append(nativeInbox, [what |-> x.what, id |-> x.id,
                                              plugin |-> p, code |-> x.code])
                    ELSE nativeInbox
  /\ IF ~taken /\ x.what = "result" /\ x.codec = Json
     THEN ToJs("result", x.id + MaxJs, x.name,     \* of no call of ArkUI's
               IF p = None THEN "INVALID" ELSE "CODEC_TYPE_MISMATCH", TRUE)
     ELSE UNCHANGED jsInbox
  /\ UNCHANGED <<regVars, gcd, gcdPc, sentVars, replied, invoked, excused>>

\* jsSendMethodResult, jsSendMessageResponse and jsCancelMethod of a plugin whose
\* delegate, held weakly, is nil or has not the selector, and a response without
\* data: the plugin takes the answer and tells nobody.
IgnoreAnswer(i) ==
  LET x == input[i]
      p == bridgeMap[x.name]
  IN
  /\ x.what \in {"cancel"} \cup Answers /\ MayStart(i)
  /\ p # None /\ (x.what = "result" => Serves(p, x.codec))
  /\ x.what \in deaf[p]
  /\ input' = RemoveAt(input, i)
  /\ excused' = excused \cup {<<"native", x.id>>}
  /\ UNCHANGED <<regVars, gcd, gcdPc, sentVars, jsInbox, nativeInbox, replied, invoked>>

-----------------------------------------------------------------------------
InputStep ==
  \E i \in DOMAIN input :
    \/ RefuseTask(i) \/ StartTask(i) \/ FinishTask(i) \/ DropAnswer(i)
    \/ RunAnswer(i) \/ IgnoreAnswer(i)

GcdStep == GcdAnswer \/ GcdNoReceiver \/ GcdReceiverExists \/ GcdDeliver

Replies == \E i \in DOMAIN jsInbox, cancel \in BOOLEAN : JSReply(i, cancel)

Register ==
  \/ \E p \in Plugins : RegisterPlugin(p)
  \/ \E n \in Names :
       \/ UnRegisterPlugin(n)
       \/ \E type \in BridgeTypes : JSRegisterBridge(n, type)
       \/ JSUnRegisterBridge(n)

Send ==
  \E what \in Whats :
    \/ \E n \in Names : JSSend(n, what)
    \/ \E p \in Plugins : NativeSend(p, what)

Next == InputStep \/ GcdStep \/ Replies \/ Register \/ Send

Spec == Init /\ [][Next]_vars

\* The queues run what they hold and the plugins' methods return; ArkUI replies.
FairSpec == Spec /\ WF_vars(InputStep) /\ WF_vars(GcdStep) /\ WF_vars(Replies)
-----------------------------------------------------------------------------
Ids(s, whats) == {s[i].id : i \in {j \in DOMAIN s : s[j].what \in whats}}

\* Calls and messages of ArkUI: where the answers are.
JsOpen == Ids(input, {"call", "message"}) \cup Ids(gcd, Answers)
JsAnswered == Ids(jsInbox, Answers) \cap (1 .. Len(jsSent))
JsLost == (1 .. Len(jsSent)) \ (JsOpen \cup JsAnswered)
JsExcusable == {c \in 1 .. Len(jsSent) : <<"js", c>> \in excused}

\* Calls and messages of the plugins.
NativeOpen ==
  Ids(gcd, {"call", "message"}) \cup Ids(input, {"cancel"} \cup Answers)
  \cup (Ids(jsInbox, {"call", "message"}) \ replied)
NativeAnswered == Ids(nativeInbox, {"cancel"} \cup Answers)
NativeLost == (1 .. Len(nativeSent)) \ (NativeOpen \cup NativeAnswered)
NativeExcusable ==
  {c \in 1 .. Len(nativeSent) :
     \/ <<"native", c>> \in excused
     \/ ~nativeSent[c].accepted \/ ~nativeSent[c].paired}

FromArkUI == INSTANCE BridgeCalls WITH
  sent <- Len(jsSent), answered <- JsAnswered, lost <- JsLost, excusable <- JsExcusable

FromPlugins == INSTANCE BridgeCalls WITH
  sent <- Len(nativeSent), answered <- NativeAnswered, lost <- NativeLost,
  excusable <- NativeExcusable

\* A method ArkUI calls or a message it sends is answered at most once, and goes
\* unanswered only if the receiver was replaced or unregistered meanwhile, or the
\* plugin gave an answer that is not sent (DropAnswer).  The plugin's coming and
\* going costs no answer: jsCallMethodInner and jsSendMessageInner report the
\* missing plugin.
ArkUICallsKept == FromArkUI!Spec

\* A plugin's callMethod or sendMessage, made while the two ends are paired, is
\* answered at most once, whoever answers it (ArkUI, or PlatformCallMethod with
\* errorCode 1), and goes unanswered only if one of the ends changed meanwhile, or the
\* answer came to a plugin that has no delegate for it (IgnoreAnswer).
PluginCallsKept == FromPlugins!Spec

\* With the queues running, every call of ArkUI leaves the bridge: it is answered, or
\* dropped where there is an excuse.  So one whose receiver stays and whose answer can
\* be sent is answered; one whose answer cannot (DropAnswer), ArkUI waits for in vain.
ArkUICallsSettled ==
  \A c \in 1 .. MaxJs :
    FromArkUI!Open(c) ~> c \in JsAnswered \/ c \in JsLost \cap JsExcusable

\* So does a plugin's, if ArkUI replies to what it gets: if the ends stay as they were
\* and the plugin hears the answer, it gets it.
PluginCallsSettled ==
  \A c \in 1 .. MaxNative :
    FromPlugins!Open(c) ~> c \in NativeAnswered \/ c \in NativeLost \cap NativeExcusable

\* a went to a serial queue, and b to the same.
SameQueue(a, b) == jsSent[a].queue = jsSent[b].queue /\ jsSent[a].serial

\* An answer that came through the dispatch queue.
Plain(i) == jsInbox[i].what \in Answers /\ ~jsInbox[i].direct

\* A plugin built with a serial TaskOption, or with none, begins to handle ArkUI's
\* calls in the order they were made, as long as they went to the same queue.
SerialOrder ==
  \A i, j \in DOMAIN invoked :
    i < j /\ SameQueue(invoked[i], invoked[j]) => invoked[i] < invoked[j]

\* ArkUI gets plugins' calls and messages in the order they were made, whatever
\* thread and plugin they came from.
PlatformOrder ==
  \A i, j \in DOMAIN jsInbox :
    i < j /\ {jsInbox[i].what, jsInbox[j].what} \subseteq {"call", "message"}
      => jsInbox[i].id < jsInbox[j].id

\* The answers a plugin gives to calls of one serial queue reach ArkUI in the order
\* of the calls.  (The errors sent from the task itself may overtake them.)
AnswerOrder ==
  \A i, j \in DOMAIN jsInbox :
    i < j /\ Plain(i) /\ Plain(j) /\ SameQueue(jsInbox[i].id, jsInbox[j].id)
      => jsInbox[i].id < jsInbox[j].id

\* What goes through the dispatcher and back keeps its order: the platform's calls on
\* their way to ArkUI, and the answers to ArkUI's calls of one serial queue.
DispatchOrder == PlatformOrder /\ AnswerOrder

-----------------------------------------------------------------------------
(***************************************************************************)
(* The inductive invariant: where a call is, what is known of it there,    *)
(* and in which order the calls are in each place.                         *)
(***************************************************************************)
Calls == {"call", "message"}
Returns == {"cancel"} \cup Answers

\* No two elements of these kinds have the same number.
Once(s, whats) ==
  \A i, j \in DOMAIN s :
    s[i].what \in whats /\ s[j].what \in whats /\ s[i].id = s[j].id => i = j

\* A call of ArkUI is in one place: a task, a block with its answer, or answered.
JsPlaces ==
  /\ Once(input, Calls) /\ Once(gcd, Answers)
  /\ JsOpen \subseteq 1 .. Len(jsSent)
  /\ Ids(input, Calls) \cap Ids(gcd, Answers) = {}
  /\ JsOpen \cap Ids(jsInbox, Answers) = {}
  /\ \A c \in Ids(jsInbox, Answers) : c \in 1 .. Len(jsSent) \/ c > MaxJs
  /\ Len(jsSent) <= MaxJs

\* A plugin's call is in one place: a block, in ArkUI's hands, a task with its reply, or
\* answered.
NativePlaces ==
  LET all == Ids(gcd, Calls) \cup Ids(input, Returns) \cup Ids(jsInbox, Calls) \cup NativeAnswered
  IN  /\ Once(gcd, Calls) /\ Once(input, Returns)
      /\ all \subseteq 1 .. Len(nativeSent)
      /\ replied \subseteq Ids(jsInbox, Calls)
      /\ Ids(gcd, Calls) \cap (Ids(input, Returns) \cup NativeAnswered \cup Ids(jsInbox, Calls)) = {}
      /\ Ids(input, Returns) \cap NativeAnswered = {}
      /\ (Ids(input, Returns) \cup NativeAnswered) \cap Ids(jsInbox, Calls) \subseteq replied

\* What is under way carries what was sent.
Carried ==
  /\ \A i \in DOMAIN input :
       /\ input[i].what \in Calls =>
            /\ input[i].name = jsSent[input[i].id].name
            /\ input[i].queue = jsSent[input[i].id].queue
            /\ input[i].serial = jsSent[input[i].id].serial
       /\ input[i].what \in Returns => input[i].name = nativeSent[input[i].id].name
  /\ \A i \in DOMAIN gcd :
       /\ gcd[i].what \in Answers => gcd[i].name = jsSent[gcd[i].id].name
       /\ gcd[i].what \in Calls =>
            /\ gcd[i].name = nativeSent[gcd[i].id].name
            /\ gcd[i].codec = typeOf[nativeSent[gcd[i].id].plugin]
  /\ \A i \in DOMAIN jsInbox :
       jsInbox[i].what \in Calls => jsInbox[i].name = nativeSent[jsInbox[i].id].name
  /\ \A c \in DOMAIN nativeSent : nativeSent[c].name = nameOf[nativeSent[c].plugin]
  /\ gcdPc = "find" => gcd # <<>> /\ Head(gcd).what \in Calls

\* As long as there is no excuse the ends are those of the moment of the call.
EndsStay ==
  /\ \A c \in DOMAIN jsSent : <<"js", c>> \notin excused => bridgeList[jsSent[c].name] # None
  /\ \A c \in DOMAIN nativeSent :
       c \notin NativeExcusable =>
         LET p == nativeSent[c].plugin IN
         /\ Paired(p)
         /\ \A i \in DOMAIN input :
              input[i].what \in Returns /\ input[i].id = c => input[i].codec = typeOf[p]
         /\ \A i \in DOMAIN jsInbox :
              jsInbox[i].what \in Calls /\ jsInbox[i].id = c => jsInbox[i].codec = typeOf[p]

\* ArkUI's calls stand in the queues in their order, and of those of a serial queue the
\* started ones are before the others, the finished ones before both.
JsInOrder ==
  /\ \A i, j \in DOMAIN input :
       input[i].what \in Calls /\ input[j].what \in Calls /\ i < j => input[i].id < input[j].id
  /\ \A i \in DOMAIN input : input[i].plugin # None /\ input[i].serial =>
       \A j \in 1 .. i - 1 : input[j].queue # input[i].queue
  /\ \A i \in DOMAIN invoked : invoked[i] \in 1 .. Len(jsSent)
  /\ \A i \in DOMAIN invoked, j \in DOMAIN input :
       /\ input[j].what \in Calls /\ input[j].plugin = None
       /\ SameQueue(invoked[i], input[j].id)
       => invoked[i] < input[j].id

AnswersInOrder ==
  /\ \A i \in DOMAIN jsInbox : Plain(i) => jsInbox[i].id \in 1 .. Len(jsSent)
  /\ \A i, j \in DOMAIN gcd :
       gcd[i].what \in Answers /\ gcd[j].what \in Answers /\ i < j /\ SameQueue(gcd[i].id, gcd[j].id)
       => gcd[i].id < gcd[j].id
  /\ \A i \in DOMAIN jsInbox, j \in DOMAIN gcd :
       Plain(i) /\ gcd[j].what \in Answers /\ SameQueue(jsInbox[i].id, gcd[j].id)
       => jsInbox[i].id < gcd[j].id
  /\ \A i \in DOMAIN jsInbox, j \in DOMAIN input :
       Plain(i) /\ input[j].what \in Calls /\ SameQueue(jsInbox[i].id, input[j].id)
       => jsInbox[i].id < input[j].id
  /\ \A i \in DOMAIN gcd, j \in DOMAIN input :
       gcd[i].what \in Answers /\ input[j].what \in Calls /\ SameQueue(gcd[i].id, input[j].id)
       => gcd[i].id < input[j].id

\* Plugins' calls stand in the dispatch queue in their order, after those delivered.
PlatformInOrder ==
  /\ \A i, j \in DOMAIN gcd :
       gcd[i].what \in Calls /\ gcd[j].what \in Calls /\ i < j => gcd[i].id < gcd[j].id
  /\ \A i \in DOMAIN jsInbox, j \in DOMAIN gcd :
       jsInbox[i].what \in Calls /\ gcd[j].what \in Calls => jsInbox[i].id < gcd[j].id

\* Every call is in one place, with what it was sent with, and in its order there.
Inv ==
  /\ TypeOK
  /\ JsPlaces /\ NativePlaces /\ Carried /\ EndsStay
  /\ JsInOrder /\ SerialOrder
  /\ AnswersInOrder /\ AnswerOrder
  /\ PlatformInOrder /\ PlatformOrder
=============================================================================
