--------------------------- MODULE BridgeRegistry ---------------------------
(***************************************************************************)
(* How the two ends of a bridge find each other (capability/bridge).       *)
(*                                                                         *)
(* The ArkUI (JS) end of a bridge is an entry of the C++ map bridgeList_,  *)
(* guarded by the non-recursive mutex bridgeLock_.  The iOS end is an      *)
(* entry of the Objective-C dictionary bridgeMap, and, when the plugin was *)
(* built with a TaskOption, of bridgeQueueMap.  Each end, when it is       *)
(* registered, looks for the other and tells the plugin whether its peer   *)
(* is there (onRegisterResult sets isAvailable and calls onPeerReady).     *)
(*                                                                         *)
(* Each lock acquisition and each access to a shared dictionary is a step. *)
(* NSMutableDictionary operations are taken to be atomic.                  *)
(***************************************************************************)
EXTENDS Naturals, FiniteSets

CONSTANTS
  Names,            \* bridge names
  Plugins,          \* BridgePlugin objects
  BridgeTypes,      \* JSON_TYPE, BINARY_TYPE
  NativeThreads,    \* threads on which the application (un)registers plugins
  JsThreads,        \* threads on which a JS runtime (un)registers its bridges
  nameOf,           \* the bridgeName a plugin was built with
  typeOf,           \* its bridgeType
  optionOf,         \* its taskOption: NoOption, or whether it is serial
  None,             \* nil: no receiver, plugin, handler or thread
  PeerReadyCalls,   \* do overrides of onPeerReady call the peer synchronously?
  UnregisterAll     \* is the no-argument unRegisterBridgePlugin used?

Options == {None, "serial", "concurrent"}
Threads == NativeThreads \cup JsThreads

ASSUME RegistryAssumption ==
  /\ nameOf \in [Plugins -> Names]
  /\ typeOf \in [Plugins -> BridgeTypes]
  /\ optionOf \in [Plugins -> Options]
  /\ None \notin Names \cup Plugins \cup BridgeTypes \cup Threads
  /\ NativeThreads \cap JsThreads = {}
  /\ PeerReadyCalls \in BOOLEAN /\ UnregisterAll \in BOOLEAN

VARIABLES
  bridgeList,       \* bridgeList_: the type of the receiver of each name
  bridgeLock,       \* bridgeLock_: its owner
  bridgeMap,        \* bridgeMap: the plugin of each name
  bridgeQueueMap,   \* bridgeQueueMap: the handler of each name, by its kind
  isAvailable,      \* BridgePlugin.isAvailable
  willTerminate,    \* BridgePluginManager.willTerminate
  told,             \* names whose receiver got the will-terminate callback
  pc,               \* where each thread is in the operation it executes
  local,            \* its local variables: name, plugin and type
  everPeer          \* history: types each name has had a receiver of

vars == <<bridgeList, bridgeLock, bridgeMap, bridgeQueueMap, isAvailable,
          willTerminate, told, pc, local, everPeer>>

-----------------------------------------------------------------------------
Locals == [name : Names \cup {None}, plugin : Plugins \cup {None},
           type : BridgeTypes \cup {None}]

NoLocals == [name |-> None, plugin |-> None, type |-> None]

NativePcs == {"idle", "remove", "put", "readType", "readExists", "ready",
              "peerReady", "queue"}
JsPcs == {"idle", "registered", "erased", "peerReady"}

TypeOK ==
  /\ bridgeList \in [Names -> BridgeTypes \cup {None}]
  /\ bridgeLock \in JsThreads \cup {None}
  /\ bridgeMap \in [Names -> Plugins \cup {None}]
  /\ bridgeQueueMap \in [Names -> Options]
  /\ isAvailable \in [Plugins -> BOOLEAN]
  /\ willTerminate \in BOOLEAN
  /\ told \in SUBSET Names
  /\ pc \in [Threads -> NativePcs \cup JsPcs]
  /\ \A t \in NativeThreads : pc[t] \in NativePcs
  /\ \A t \in JsThreads : pc[t] \in JsPcs
  /\ local \in [Threads -> Locals]
  /\ everPeer \in [Names -> SUBSET BridgeTypes]

Init ==
  /\ bridgeList = [n \in Names |-> None]
  /\ bridgeLock = None
  /\ bridgeMap = [n \in Names |-> None]
  /\ bridgeQueueMap = [n \in Names |-> None]
  /\ isAvailable = [p \in Plugins |-> FALSE]
  /\ willTerminate = FALSE
  /\ told = {}
  /\ pc = [t \in Threads |-> "idle"]
  /\ local = [t \in Threads |-> NoLocals]
  /\ everPeer = [n \in Names |-> {}]

Goto(t, label) == pc' = [pc EXCEPT ![t] = label] /\ UNCHANGED local

\* A call begins with its arguments, and its locals are gone when it returns.
Enter(t, label, l) ==
  pc' = [pc EXCEPT ![t] = label] /\ local' = [local EXCEPT ![t] = l]

Return(t) == Enter(t, "idle", NoLocals)

(***************************************************************************)
(* The iOS end: innerRegisterBridgePlugin and innerUnRegisterBridgePlugin. *)
(***************************************************************************)

\* Registration begins: is the name taken?
RegisterPlugin(t, p) ==
  /\ pc[t] = "idle"
  /\ Enter(t, IF bridgeMap[nameOf[p]] = None THEN "put" ELSE "remove",
           [name |-> nameOf[p], plugin |-> p, type |-> None])
  /\ UNCHANGED <<bridgeList, bridgeLock, bridgeMap, bridgeQueueMap, isAvailable,
                 willTerminate, told, everPeer>>

RemoveName(n) ==
  /\ bridgeMap' = [bridgeMap EXCEPT ![n] = None]
  /\ bridgeQueueMap' = [bridgeQueueMap EXCEPT ![n] = None]

\* It was: the earlier registration is removed.  The plugin that held it is
\* not told.
RegisterRemove(t) ==
  /\ pc[t] = "remove"
  /\ RemoveName(local[t].name)
  /\ Goto(t, "put")
  /\ UNCHANGED <<bridgeList, bridgeLock, isAvailable, willTerminate, told,
                 everPeer>>

RegisterPut(t) ==
  /\ pc[t] = "put"
  /\ bridgeMap' = [bridgeMap EXCEPT ![local[t].name] = local[t].plugin]
  /\ Goto(t, "readType")
  /\ UNCHANGED <<bridgeList, bridgeLock, bridgeQueueMap, isAvailable, willTerminate,
                 told, everPeer>>

\* GetBridgeType and JSBridgeExists take the lock one after the other.
RegisterReadType(t) ==
  /\ pc[t] = "readType"
  /\ bridgeLock = None
  /\ Enter(t, "readExists", [local[t] EXCEPT !.type = bridgeList[local[t].name]])
  /\ UNCHANGED <<bridgeList, bridgeLock, bridgeMap, bridgeQueueMap, isAvailable,
                 willTerminate, told, everPeer>>

RegisterReadExistsAgain(t) ==      \* mutant: waits for the receiver, looking again
  /\ pc[t] = "readExists"
  /\ bridgeLock = None
  /\ Goto(t, IF /\ bridgeList[local[t].name] # None
                /\ local[t].type = typeOf[local[t].plugin]
             THEN "ready" ELSE "readType")
  /\ UNCHANGED <<bridgeList, bridgeLock, bridgeMap, bridgeQueueMap, isAvailable,
                 willTerminate, told, everPeer>>

RegisterReadExists(t) ==
  /\ pc[t] = "readExists"
  /\ bridgeLock = None
  /\ Goto(t, IF /\ bridgeList[local[t].name] # None
                /\ local[t].type = typeOf[local[t].plugin]
             THEN "ready" ELSE "queue")
  /\ UNCHANGED <<bridgeList, bridgeLock, bridgeMap, bridgeQueueMap, isAvailable,
                 willTerminate, told, everPeer>>

\* onRegisterResult:true outside the lock.
RegisterReady(t) ==
  /\ pc[t] = "ready"
  /\ isAvailable' = [isAvailable EXCEPT ![local[t].plugin] = TRUE]
  /\ Goto(t, "peerReady")
  /\ UNCHANGED <<bridgeList, bridgeLock, bridgeMap, bridgeQueueMap, willTerminate,
                 told, everPeer>>

\* onPeerReady returns; a synchronous call to the peer needs the lock.
RegisterPeerReady(t) ==
  /\ pc[t] = "peerReady"
  /\ PeerReadyCalls => bridgeLock = None
  /\ Goto(t, "queue")
  /\ UNCHANGED <<bridgeList, bridgeLock, bridgeMap, bridgeQueueMap, isAvailable,
                 willTerminate, told, everPeer>>

\* The task queue handler, unless the name has one already.
RegisterQueue(t) ==
  LET n == local[t].name IN
  /\ pc[t] = "queue"
  /\ bridgeQueueMap' = IF bridgeQueueMap[n] = None
                       THEN [bridgeQueueMap EXCEPT ![n] = optionOf[local[t].plugin]]
                       ELSE bridgeQueueMap
  /\ Return(t)
  /\ UNCHANGED <<bridgeList, bridgeLock, bridgeMap, isAvailable, willTerminate, told, everPeer>>

UnRegisterPlugin(t, n) ==
  /\ pc[t] = "idle"
  /\ RemoveName(n)
  /\ UNCHANGED <<bridgeList, bridgeLock, isAvailable, willTerminate, told, pc, local,
                 everPeer>>

\* unRegisterBridgePlugin without a name empties bridgeMap only.
UnRegisterAllPlugins(t) ==
  /\ UnregisterAll
  /\ pc[t] = "idle"
  /\ bridgeMap' = [n \in Names |-> None]
  /\ UNCHANGED <<bridgeList, bridgeLock, bridgeQueueMap, isAvailable, willTerminate,
                 told, pc, local, everPeer>>

\* platformWillTerminate: once, and under the lock for every receiver.
PlatformWillTerminate(t) ==
  /\ pc[t] = "idle"
  /\ ~willTerminate
  /\ bridgeLock = None
  /\ willTerminate' = TRUE
  /\ told' = {n \in Names : bridgeList[n] # None}
  /\ UNCHANGED <<bridgeList, bridgeLock, bridgeMap, bridgeQueueMap, isAvailable, pc,
                 local, everPeer>>

(***************************************************************************)
(* The ArkUI end: JSRegisterBridge and JSUnRegisterBridge hold the lock    *)
(* from the change of bridgeList_ to the return of jsOnRegisterResult,     *)
(* onPeerReady included.                                                   *)
(***************************************************************************)

JSRegisterBridgeOnce(t, n, type) ==  \* mutant: a replaced receiver is not announced
  /\ pc[t] = "idle"
  /\ bridgeLock = None
  /\ bridgeLock' = t
  /\ bridgeList' = [bridgeList EXCEPT ![n] = type]
  /\ everPeer' = [everPeer EXCEPT ![n] = @ \cup {type}]
  /\ Enter(t, "registered",
           [name |-> n, plugin |-> IF bridgeList[n] = None THEN bridgeMap[n] ELSE None,
            type |-> type])
  /\ UNCHANGED <<bridgeMap, bridgeQueueMap, isAvailable, willTerminate, told>>

\* The receiver is stored (an earlier one is replaced) and the plugin looked up.
JSRegisterBridge(t, n, type) ==
  /\ pc[t] = "idle"
  /\ bridgeLock = None
  /\ bridgeLock' = t
  /\ bridgeList' = [bridgeList EXCEPT ![n] = type]
  /\ everPeer' = [everPeer EXCEPT ![n] = @ \cup {type}]
  /\ Enter(t, "registered", [name |-> n, plugin |-> bridgeMap[n], type |-> type])
  /\ UNCHANGED <<bridgeMap, bridgeQueueMap, isAvailable, willTerminate, told>>

JSOnRegisteredAnyType(t) ==        \* mutant: the types are not compared
  /\ pc[t] = "registered"
  /\ isAvailable' = IF local[t].plugin = None THEN isAvailable
                    ELSE [isAvailable EXCEPT ![local[t].plugin] = TRUE]
  /\ bridgeLock' = None
  /\ Return(t)
  /\ UNCHANGED <<bridgeList, bridgeMap, bridgeQueueMap, willTerminate, told, everPeer>>

\* jsOnRegisterResult(true): only a plugin of the same type hears of it.
JSOnRegistered(t) ==
  LET p == local[t].plugin
      hears == p # None /\ typeOf[p] = local[t].type
  IN
  /\ pc[t] = "registered"
  /\ \/ /\ hears
        /\ isAvailable' = [isAvailable EXCEPT ![p] = TRUE]
        /\ Goto(t, "peerReady")
        /\ UNCHANGED bridgeLock
     \/ /\ ~hears
        /\ bridgeLock' = None
        /\ Return(t)
        /\ UNCHANGED isAvailable
  /\ UNCHANGED <<bridgeList, bridgeMap, bridgeQueueMap, willTerminate, told,
                 everPeer>>

\* onPeerReady returns and the lock is released.  std::mutex is not recursive.
JSPeerReady(t) ==
  /\ pc[t] = "peerReady"
  /\ PeerReadyCalls => bridgeLock = None
  /\ bridgeLock' = None
  /\ Return(t)
  /\ UNCHANGED <<bridgeList, bridgeMap, bridgeQueueMap, isAvailable, willTerminate,
                 told, everPeer>>

JSUnRegisterBridge(t, n) ==
  /\ pc[t] = "idle"
  /\ bridgeLock = None
  /\ bridgeLock' = t
  /\ bridgeList' = [bridgeList EXCEPT ![n] = None]
  /\ Enter(t, "erased", [name |-> n, plugin |-> bridgeMap[n], type |-> None])
  /\ UNCHANGED <<bridgeMap, bridgeQueueMap, isAvailable, willTerminate, told, everPeer>>

\* jsOnRegisterResult(false) reaches the plugin whatever its type.
JSOnErased(t) ==
  LET p == local[t].plugin IN
  /\ pc[t] = "erased"
  /\ isAvailable' = IF p = None THEN isAvailable
                    ELSE [isAvailable EXCEPT ![p] = FALSE]
  /\ bridgeLock' = None
  /\ Return(t)
  /\ UNCHANGED <<bridgeList, bridgeMap, bridgeQueueMap, willTerminate, told,
                 everPeer>>

-----------------------------------------------------------------------------
\* The steps that finish an operation that has begun.
NativeStep(t) ==
  \/ RegisterRemove(t) \/ RegisterPut(t) \/ RegisterReadType(t)
  \/ RegisterReadExists(t) \/ RegisterReady(t) \/ RegisterPeerReady(t)
  \/ RegisterQueue(t)

JsStep(t) == JSOnRegistered(t) \/ JSPeerReady(t) \/ JSOnErased(t)

NativeCall(t) ==
  \/ \E p \in Plugins : RegisterPlugin(t, p)
  \/ \E n \in Names : UnRegisterPlugin(t, n)
  \/ UnRegisterAllPlugins(t)
  \/ PlatformWillTerminate(t)

JsCall(t) ==
  \E n \in Names :
    \/ \E type \in BridgeTypes : JSRegisterBridge(t, n, type)
    \/ JSUnRegisterBridge(t, n)

Next ==
  \/ \E t \in NativeThreads : NativeStep(t) \/ NativeCall(t)
  \/ \E t \in JsThreads : JsStep(t) \/ JsCall(t)

Spec == Init /\ [][Next]_vars

\* A thread inside an operation keeps running; a thread waiting for the lock
\* gets it if the lock is free again and again (each holder keeps it briefly).
FairSpec ==
  /\ Spec
  /\ \A t \in NativeThreads : SF_vars(NativeStep(t))
  /\ \A t \in JsThreads : WF_vars(JsStep(t))

-----------------------------------------------------------------------------
\* No operation on the name n is in progress.
Quiet(n) == \A t \in Threads : pc[t] # "idle" => local[t].name # n

\* Whatever the order in which the two ends were registered and however the
\* steps of innerRegisterBridgePlugin, JSRegisterBridge and the unregister calls
\* interleaved, once no operation on a name is in progress the plugin registered
\* under it is available if its receiver is there with the same type: neither
\* end can miss the other.
NoLostPeer ==
  \A n \in Names :
    Quiet(n) /\ bridgeMap[n] # None /\ bridgeList[n] = typeOf[bridgeMap[n]]
      => isAvailable[bridgeMap[n]]

\* Although innerRegisterBridgePlugin reads the type and the existence of the
\* receiver under two separate acquisitions of bridgeLock_, a plugin is never made
\* available unless its name once had a receiver of its own type.
AvailableHadPeer ==
  \A p \in Plugins : isAvailable[p] => typeOf[p] \in everPeer[nameOf[p]]

\* Every registration, on either end, returns to its caller: the mutex is
\* released in the end and nobody waits for a lock it holds.
CallsReturn == \A t \in Threads : pc[t] # "idle" ~> pc[t] = "idle"

\* A plugin and a receiver of its type that stay registered under one name: the
\* plugin is told in the end.
PeerFound ==
  \A p \in Plugins :
    LET n == nameOf[p]
        both == bridgeMap[n] = p /\ bridgeList[n] = typeOf[p]
    IN  both ~> (isAvailable[p] \/ ~both)
-----------------------------------------------------------------------------
(***************************************************************************)
(* The inductive invariant behind NoLostPeer and AvailableHadPeer.         *)
(***************************************************************************)
MapNames == \A n \in Names : bridgeMap[n] # None => nameOf[bridgeMap[n]] = n

NativeLocals ==
  \A t \in NativeThreads :
    pc[t] # "idle" =>
      /\ local[t].plugin \in Plugins
      /\ local[t].name = nameOf[local[t].plugin]
      /\ local[t].type # None => local[t].type \in everPeer[local[t].name]
      /\ pc[t] = "ready" => local[t].type = typeOf[local[t].plugin]

\* A JS thread inside an operation owns the mutex, so what it wrote is still there.
JsLocals ==
  \A t \in JsThreads :
    pc[t] # "idle" =>
      /\ bridgeLock = t
      /\ local[t].name \in Names
      /\ local[t].plugin # None => nameOf[local[t].plugin] = local[t].name
      /\ pc[t] = "erased" => bridgeList[local[t].name] = None
      /\ pc[t] = "registered" => /\ local[t].type \in BridgeTypes
                                 /\ bridgeList[local[t].name] = local[t].type

\* Somebody is about to make p available.
Coming(p) ==
  \/ \E t \in NativeThreads :
       /\ local[t].plugin = p
       /\ \/ pc[t] \in {"readType", "ready"}
          \/ pc[t] = "readExists" /\ local[t].type = typeOf[p]
  \/ \E t \in JsThreads :
       pc[t] = "registered" /\ local[t].plugin = p /\ local[t].type = typeOf[p]

MatchIsSeen ==
  \A p \in Plugins :
    bridgeMap[nameOf[p]] = p /\ bridgeList[nameOf[p]] = typeOf[p]
      => isAvailable[p] \/ Coming(p)

ListInHistory ==
  \A n \in Names : bridgeList[n] # None => bridgeList[n] \in everPeer[n]

Inv ==
  /\ TypeOK
  /\ MapNames
  /\ NativeLocals
  /\ JsLocals
  /\ MatchIsSeen
  /\ ListInHistory
  /\ AvailableHadPeer
=============================================================================
