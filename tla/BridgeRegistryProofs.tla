------------------------ MODULE BridgeRegistryProofs ------------------------
(***************************************************************************)
(* Proofs about BridgeRegistry, for any number of threads, names, plugins  *)
(* and types.                                                              *)
(***************************************************************************)
EXTENDS BridgeRegistry, TLAPS

\* The initial state, with both registries empty, satisfies the invariant.
LEMMA InitInv == Init => Inv
<1> SUFFICES ASSUME Init PROVE Inv
  OBVIOUS
<1> USE RegistryAssumption DEF RegistryAssumption, Init
<1>1. TypeOK
  BY DEF TypeOK, Locals, NoLocals, NativePcs, JsPcs, Options, Threads
<1>2. MapNames /\ NativeLocals /\ JsLocals
  BY DEF MapNames, NativeLocals, JsLocals, Threads
<1>3. MatchIsSeen /\ ListInHistory /\ AvailableHadPeer
  BY DEF MatchIsSeen, ListInHistory, AvailableHadPeer
<1> QED
  BY <1>1, <1>2, <1>3 DEF Inv


\* Every step of either end, in whatever order, preserves the invariant.
LEMMA NextInv == Inv /\ [Next]_vars => Inv'
<1> SUFFICES ASSUME Inv, [Next]_vars PROVE Inv'
  OBVIOUS
<1> USE RegistryAssumption DEF RegistryAssumption, Inv
<1>1. ASSUME NEW t \in NativeThreads, NEW p \in Plugins, RegisterPlugin(t, p)
      PROVE  Inv'
  <2>1. TypeOK'
    BY <1>1 DEF RegisterPlugin, Enter, TypeOK, Locals, NativePcs, JsPcs, Options,
       Threads
  <2>2. MapNames'
    BY <1>1 DEF RegisterPlugin, Enter, TypeOK, MapNames, NativeLocals
  <2>3. NativeLocals'
    BY <1>1 DEF RegisterPlugin, Enter, TypeOK, NativeLocals, ListInHistory, Locals,
       Threads
  <2>4. JsLocals'
    BY <1>1 DEF RegisterPlugin, Enter, TypeOK, JsLocals, MapNames, Threads, Locals
  <2>5. MatchIsSeen'
    BY <1>1 DEF RegisterPlugin, Enter, TypeOK, MatchIsSeen, Coming, NativeLocals,
       JsLocals, MapNames, Threads, Locals
  <2>6. ListInHistory'
    BY <1>1 DEF RegisterPlugin, Enter, TypeOK, ListInHistory
  <2>7. AvailableHadPeer'
    BY <1>1 DEF RegisterPlugin, Enter, TypeOK, AvailableHadPeer, NativeLocals,
       JsLocals, ListInHistory, Threads
  <2> QED BY <2>1, <2>2, <2>3, <2>4, <2>5, <2>6, <2>7
<1>2. ASSUME NEW t \in NativeThreads, RegisterRemove(t)
      PROVE  Inv'
  <2>1. TypeOK'
    BY <1>2 DEF RegisterRemove, RemoveName, Goto, TypeOK, Locals, NativePcs, JsPcs,
       Options, Threads
  <2>2. MapNames'
    BY <1>2 DEF RegisterRemove, RemoveName, Goto, TypeOK, MapNames, NativeLocals
  <2>3. NativeLocals'
    BY <1>2 DEF RegisterRemove, RemoveName, Goto, TypeOK, NativeLocals,
       ListInHistory, Locals, Threads
  <2>4. JsLocals'
    BY <1>2 DEF RegisterRemove, RemoveName, Goto, TypeOK, JsLocals, MapNames,
       Threads, Locals
  <2>5. MatchIsSeen'
    BY <1>2 DEF RegisterRemove, RemoveName, Goto, TypeOK, MatchIsSeen, Coming,
       NativeLocals, JsLocals, MapNames, Threads, Locals
  <2>6. ListInHistory'
    BY <1>2 DEF RegisterRemove, RemoveName, Goto, TypeOK, ListInHistory
  <2>7. AvailableHadPeer'
    BY <1>2 DEF RegisterRemove, RemoveName, Goto, TypeOK, AvailableHadPeer,
       NativeLocals, JsLocals, ListInHistory, Threads
  <2> QED BY <2>1, <2>2, <2>3, <2>4, <2>5, <2>6, <2>7
<1>3. ASSUME NEW t \in NativeThreads, RegisterPut(t)
      PROVE  Inv'
  <2>1. TypeOK'
    BY <1>3 DEF RegisterPut, Goto, TypeOK, Locals, NativePcs, JsPcs, Options,
       Threads
  <2>2. MapNames'
    BY <1>3 DEF RegisterPut, Goto, TypeOK, MapNames, NativeLocals
  <2>3. NativeLocals'
    BY <1>3 DEF RegisterPut, Goto, TypeOK, NativeLocals, ListInHistory, Locals,
       Threads
  <2>4. JsLocals'
    BY <1>3 DEF RegisterPut, Goto, TypeOK, JsLocals, MapNames, Threads, Locals
  <2>5. MatchIsSeen'
    BY <1>3 DEF RegisterPut, Goto, TypeOK, MatchIsSeen, Coming, NativeLocals,
       JsLocals, MapNames, Threads, Locals
  <2>6. ListInHistory'
    BY <1>3 DEF RegisterPut, Goto, TypeOK, ListInHistory
  <2>7. AvailableHadPeer'
    BY <1>3 DEF RegisterPut, Goto, TypeOK, AvailableHadPeer, NativeLocals, JsLocals,
       ListInHistory, Threads
  <2> QED BY <2>1, <2>2, <2>3, <2>4, <2>5, <2>6, <2>7
<1>4. ASSUME NEW t \in NativeThreads, RegisterReadType(t)
      PROVE  Inv'
  <2>1. TypeOK'
    BY <1>4 DEF RegisterReadType, Enter, TypeOK, NativeLocals, Locals, NativePcs,
       JsPcs, Options, Threads
  <2>2. MapNames'
    BY <1>4 DEF RegisterReadType, Enter, TypeOK, MapNames, NativeLocals
  <2>3. NativeLocals'
    BY <1>4 DEF RegisterReadType, Enter, TypeOK, NativeLocals, ListInHistory,
       Locals, Threads
  <2>4. JsLocals'
    BY <1>4 DEF RegisterReadType, Enter, TypeOK, JsLocals, MapNames, Threads, Locals
  <2>5. MatchIsSeen'
    BY <1>4 DEF RegisterReadType, Enter, TypeOK, MatchIsSeen, Coming, NativeLocals,
       JsLocals, MapNames, Threads, Locals
  <2>6. ListInHistory'
    BY <1>4 DEF RegisterReadType, Enter, TypeOK, ListInHistory
  <2>7. AvailableHadPeer'
    BY <1>4 DEF RegisterReadType, Enter, TypeOK, AvailableHadPeer, NativeLocals,
       JsLocals, ListInHistory, Threads
  <2> QED BY <2>1, <2>2, <2>3, <2>4, <2>5, <2>6, <2>7
<1>5. ASSUME NEW t \in NativeThreads, RegisterReadExists(t)
      PROVE  Inv'
  <2>1. TypeOK'
    BY <1>5 DEF RegisterReadExists, Goto, TypeOK, Locals, NativePcs, JsPcs, Options,
       Threads
  <2>2. MapNames'
    BY <1>5 DEF RegisterReadExists, Goto, TypeOK, MapNames, NativeLocals
  <2>3. NativeLocals'
    BY <1>5 DEF RegisterReadExists, Goto, TypeOK, NativeLocals, ListInHistory,
       Locals, Threads
  <2>4. JsLocals'
    BY <1>5 DEF RegisterReadExists, Goto, TypeOK, JsLocals, MapNames, Threads,
       Locals
  <2>5. MatchIsSeen'
    BY <1>5 DEF RegisterReadExists, Goto, TypeOK, MatchIsSeen, Coming, NativeLocals,
       JsLocals, MapNames, Threads, Locals
  <2>6. ListInHistory'
    BY <1>5 DEF RegisterReadExists, Goto, TypeOK, ListInHistory
  <2>7. AvailableHadPeer'
    BY <1>5 DEF RegisterReadExists, Goto, TypeOK, AvailableHadPeer, NativeLocals,
       JsLocals, ListInHistory, Threads
  <2> QED BY <2>1, <2>2, <2>3, <2>4, <2>5, <2>6, <2>7
<1>6. ASSUME NEW t \in NativeThreads, RegisterReady(t)
      PROVE  Inv'
  <2>1. TypeOK'
    BY <1>6 DEF RegisterReady, Goto, TypeOK, Locals, NativePcs, JsPcs, Options,
       Threads
  <2>2. MapNames'
    BY <1>6 DEF RegisterReady, Goto, TypeOK, MapNames, NativeLocals
  <2>3. NativeLocals'
    BY <1>6 DEF RegisterReady, Goto, TypeOK, NativeLocals, ListInHistory, Locals,
       Threads
  <2>4. JsLocals'
    BY <1>6 DEF RegisterReady, Goto, TypeOK, JsLocals, MapNames, Threads, Locals
  <2>5. MatchIsSeen'
    BY <1>6 DEF RegisterReady, Goto, TypeOK, MatchIsSeen, Coming, NativeLocals,
       JsLocals, MapNames, Threads, Locals
  <2>6. ListInHistory'
    BY <1>6 DEF RegisterReady, Goto, TypeOK, ListInHistory
  <2>7. AvailableHadPeer'
    BY <1>6 DEF RegisterReady, Goto, TypeOK, AvailableHadPeer, NativeLocals,
       JsLocals, ListInHistory, Threads
  <2> QED BY <2>1, <2>2, <2>3, <2>4, <2>5, <2>6, <2>7
<1>7. ASSUME NEW t \in NativeThreads, RegisterPeerReady(t)
      PROVE  Inv'
  <2>1. TypeOK'
    BY <1>7 DEF RegisterPeerReady, Goto, TypeOK, Locals, NativePcs, JsPcs, Options,
       Threads
  <2>2. MapNames'
    BY <1>7 DEF RegisterPeerReady, Goto, TypeOK, MapNames, NativeLocals
  <2>3. NativeLocals'
    BY <1>7 DEF RegisterPeerReady, Goto, TypeOK, NativeLocals, ListInHistory,
       Locals, Threads
  <2>4. JsLocals'
    BY <1>7 DEF RegisterPeerReady, Goto, TypeOK, JsLocals, MapNames, Threads, Locals
  <2>5. MatchIsSeen'
    BY <1>7 DEF RegisterPeerReady, Goto, TypeOK, MatchIsSeen, Coming, NativeLocals,
       JsLocals, MapNames, Threads, Locals
  <2>6. ListInHistory'
    BY <1>7 DEF RegisterPeerReady, Goto, TypeOK, ListInHistory
  <2>7. AvailableHadPeer'
    BY <1>7 DEF RegisterPeerReady, Goto, TypeOK, AvailableHadPeer, NativeLocals,
       JsLocals, ListInHistory, Threads
  <2> QED BY <2>1, <2>2, <2>3, <2>4, <2>5, <2>6, <2>7
<1>8. ASSUME NEW t \in NativeThreads, RegisterQueue(t)
      PROVE  Inv'
  <2>1. TypeOK'
    BY <1>8 DEF RegisterQueue, Return, Enter, NoLocals, TypeOK, NativeLocals,
       Locals, NativePcs, JsPcs, Options, Threads
  <2>2. MapNames'
    BY <1>8 DEF RegisterQueue, Return, Enter, NoLocals, TypeOK, MapNames,
       NativeLocals
  <2>3. NativeLocals'
    BY <1>8 DEF RegisterQueue, Return, Enter, NoLocals, TypeOK, NativeLocals,
       ListInHistory, Locals, Threads
  <2>4. JsLocals'
    BY <1>8 DEF RegisterQueue, Return, Enter, NoLocals, TypeOK, JsLocals, MapNames,
       Threads, Locals
  <2>5. MatchIsSeen'
    BY <1>8 DEF RegisterQueue, Return, Enter, NoLocals, TypeOK, MatchIsSeen, Coming,
       NativeLocals, JsLocals, MapNames, Threads, Locals
  <2>6. ListInHistory'
    BY <1>8 DEF RegisterQueue, Return, Enter, NoLocals, TypeOK, ListInHistory
  <2>7. AvailableHadPeer'
    BY <1>8 DEF RegisterQueue, Return, Enter, NoLocals, TypeOK, AvailableHadPeer,
       NativeLocals, JsLocals, ListInHistory, Threads
  <2> QED BY <2>1, <2>2, <2>3, <2>4, <2>5, <2>6, <2>7
<1>9. ASSUME NEW t \in NativeThreads, NEW n \in Names, UnRegisterPlugin(t, n)
      PROVE  Inv'
  <2>1. TypeOK'
    BY <1>9 DEF UnRegisterPlugin, RemoveName, TypeOK, Locals, NativePcs, JsPcs,
       Options, Threads
  <2>2. MapNames'
    BY <1>9 DEF UnRegisterPlugin, RemoveName, TypeOK, MapNames, NativeLocals
  <2>3. NativeLocals'
    BY <1>9 DEF UnRegisterPlugin, RemoveName, TypeOK, NativeLocals, ListInHistory,
       Locals, Threads
  <2>4. JsLocals'
    BY <1>9 DEF UnRegisterPlugin, RemoveName, TypeOK, JsLocals, MapNames, Threads,
       Locals
  <2>5. MatchIsSeen'
    BY <1>9 DEF UnRegisterPlugin, RemoveName, TypeOK, MatchIsSeen, Coming,
       NativeLocals, JsLocals, MapNames, Threads, Locals
  <2>6. ListInHistory'
    BY <1>9 DEF UnRegisterPlugin, RemoveName, TypeOK, ListInHistory
  <2>7. AvailableHadPeer'
    BY <1>9 DEF UnRegisterPlugin, RemoveName, TypeOK, AvailableHadPeer,
       NativeLocals, JsLocals, ListInHistory, Threads
  <2> QED BY <2>1, <2>2, <2>3, <2>4, <2>5, <2>6, <2>7
<1>10. ASSUME NEW t \in NativeThreads, UnRegisterAllPlugins(t)
      PROVE  Inv'
  <2>1. TypeOK'
    BY <1>10 DEF UnRegisterAllPlugins, TypeOK, Locals, NativePcs, JsPcs, Options,
       Threads
  <2>2. MapNames'
    BY <1>10 DEF UnRegisterAllPlugins, TypeOK, MapNames, NativeLocals
  <2>3. NativeLocals'
    BY <1>10 DEF UnRegisterAllPlugins, TypeOK, NativeLocals, ListInHistory, Locals,
       Threads
  <2>4. JsLocals'
    BY <1>10 DEF UnRegisterAllPlugins, TypeOK, JsLocals, MapNames, Threads, Locals
  <2>5. MatchIsSeen'
    BY <1>10 DEF UnRegisterAllPlugins, TypeOK, MatchIsSeen, Coming, NativeLocals,
       JsLocals, MapNames, Threads, Locals
  <2>6. ListInHistory'
    BY <1>10 DEF UnRegisterAllPlugins, TypeOK, ListInHistory
  <2>7. AvailableHadPeer'
    BY <1>10 DEF UnRegisterAllPlugins, TypeOK, AvailableHadPeer, NativeLocals,
       JsLocals, ListInHistory, Threads
  <2> QED BY <2>1, <2>2, <2>3, <2>4, <2>5, <2>6, <2>7
<1>11. ASSUME NEW t \in NativeThreads, PlatformWillTerminate(t)
      PROVE  Inv'
  <2>1. TypeOK'
    BY <1>11 DEF PlatformWillTerminate, TypeOK, Locals, NativePcs, JsPcs, Options,
       Threads
  <2>2. MapNames'
    BY <1>11 DEF PlatformWillTerminate, TypeOK, MapNames, NativeLocals
  <2>3. NativeLocals'
    BY <1>11 DEF PlatformWillTerminate, TypeOK, NativeLocals, ListInHistory, Locals,
       Threads
  <2>4. JsLocals'
    BY <1>11 DEF PlatformWillTerminate, TypeOK, JsLocals, MapNames, Threads, Locals
  <2>5. MatchIsSeen'
    BY <1>11 DEF PlatformWillTerminate, TypeOK, MatchIsSeen, Coming, NativeLocals,
       JsLocals, MapNames, Threads, Locals
  <2>6. ListInHistory'
    BY <1>11 DEF PlatformWillTerminate, TypeOK, ListInHistory
  <2>7. AvailableHadPeer'
    BY <1>11 DEF PlatformWillTerminate, TypeOK, AvailableHadPeer, NativeLocals,
       JsLocals, ListInHistory, Threads
  <2> QED BY <2>1, <2>2, <2>3, <2>4, <2>5, <2>6, <2>7
<1>12. ASSUME NEW t \in JsThreads, NEW n \in Names, NEW type \in BridgeTypes, JSRegisterBridge(t, n, type)
      PROVE  Inv'
  <2>1. TypeOK'
    BY <1>12 DEF JSRegisterBridge, Enter, TypeOK, Locals, NativePcs, JsPcs, Options,
       Threads
  <2>2. MapNames'
    BY <1>12 DEF JSRegisterBridge, Enter, TypeOK, MapNames, NativeLocals
  <2>3. NativeLocals'
    BY <1>12 DEF JSRegisterBridge, Enter, TypeOK, NativeLocals, ListInHistory,
       Locals, Threads
  <2>4. JsLocals'
    BY <1>12 DEF JSRegisterBridge, Enter, TypeOK, JsLocals, MapNames, Threads,
       Locals
  <2>5. MatchIsSeen'
    BY <1>12 DEF JSRegisterBridge, Enter, TypeOK, MatchIsSeen, Coming, NativeLocals,
       JsLocals, MapNames, Threads, Locals
  <2>6. ListInHistory'
    BY <1>12 DEF JSRegisterBridge, Enter, TypeOK, ListInHistory
  <2>7. AvailableHadPeer'
    BY <1>12 DEF JSRegisterBridge, Enter, TypeOK, AvailableHadPeer, NativeLocals,
       JsLocals, ListInHistory, Threads
  <2> QED BY <2>1, <2>2, <2>3, <2>4, <2>5, <2>6, <2>7
<1>13. ASSUME NEW t \in JsThreads, JSOnRegistered(t)
      PROVE  Inv'
  <2>1. TypeOK'
    <3>1. local[t] \in Locals /\ pc \in [Threads -> NativePcs \cup JsPcs] /\ t \in Threads
      BY DEF TypeOK, Threads
    <3>2. local' \in [Threads -> Locals]
      BY <1>13, <3>1 DEF JSOnRegistered, Return, Enter, Goto, NoLocals, TypeOK, Locals
    <3>3. /\ pc' \in [Threads -> NativePcs \cup JsPcs]
          /\ \A u \in NativeThreads : pc'[u] \in NativePcs
          /\ \A u \in JsThreads : pc'[u] \in JsPcs
      BY <1>13, <3>1 DEF JSOnRegistered, Return, Enter, Goto, TypeOK, NativePcs, JsPcs, Threads
    <3>4. isAvailable' \in [Plugins -> BOOLEAN] /\ bridgeLock' \in JsThreads \cup {None}
      BY <1>13, <3>1 DEF JSOnRegistered, TypeOK
    <3> QED BY <1>13, <3>2, <3>3, <3>4 DEF JSOnRegistered, TypeOK
  <2>2. MapNames'
    BY <1>13 DEF JSOnRegistered, Return, Enter, NoLocals, Goto, TypeOK, MapNames,
       NativeLocals
  <2>3. NativeLocals'
    BY <1>13 DEF JSOnRegistered, Return, Enter, NoLocals, Goto, TypeOK,
       NativeLocals, ListInHistory, Locals, Threads
  <2>4. JsLocals'
    BY <1>13 DEF JSOnRegistered, Return, Enter, NoLocals, Goto, TypeOK, JsLocals,
       MapNames, Threads, Locals
  <2>5. MatchIsSeen'
    BY <1>13 DEF JSOnRegistered, Return, Enter, NoLocals, Goto, TypeOK, MatchIsSeen,
       Coming, NativeLocals, JsLocals, MapNames, Threads, Locals
  <2>6. ListInHistory'
    BY <1>13 DEF JSOnRegistered, Return, Enter, NoLocals, Goto, TypeOK,
       ListInHistory
  <2>7. AvailableHadPeer'
    BY <1>13 DEF JSOnRegistered, Return, Enter, NoLocals, Goto, TypeOK,
       AvailableHadPeer, NativeLocals, JsLocals, ListInHistory, Threads
  <2> QED BY <2>1, <2>2, <2>3, <2>4, <2>5, <2>6, <2>7
<1>14. ASSUME NEW t \in JsThreads, JSPeerReady(t)
      PROVE  Inv'
  <2>1. TypeOK'
    BY <1>14 DEF JSPeerReady, Return, Enter, NoLocals, TypeOK, Locals, NativePcs,
       JsPcs, Options, Threads
  <2>2. MapNames'
    BY <1>14 DEF JSPeerReady, Return, Enter, NoLocals, TypeOK, MapNames,
       NativeLocals
  <2>3. NativeLocals'
    BY <1>14 DEF JSPeerReady, Return, Enter, NoLocals, TypeOK, NativeLocals,
       ListInHistory, Locals, Threads
  <2>4. JsLocals'
    BY <1>14 DEF JSPeerReady, Return, Enter, NoLocals, TypeOK, JsLocals, MapNames,
       Threads, Locals
  <2>5. MatchIsSeen'
    BY <1>14 DEF JSPeerReady, Return, Enter, NoLocals, TypeOK, MatchIsSeen, Coming,
       NativeLocals, JsLocals, MapNames, Threads, Locals
  <2>6. ListInHistory'
    BY <1>14 DEF JSPeerReady, Return, Enter, NoLocals, TypeOK, ListInHistory
  <2>7. AvailableHadPeer'
    BY <1>14 DEF JSPeerReady, Return, Enter, NoLocals, TypeOK, AvailableHadPeer,
       NativeLocals, JsLocals, ListInHistory, Threads
  <2> QED BY <2>1, <2>2, <2>3, <2>4, <2>5, <2>6, <2>7
<1>15. ASSUME NEW t \in JsThreads, NEW n \in Names, JSUnRegisterBridge(t, n)
      PROVE  Inv'
  <2>1. TypeOK'
    BY <1>15 DEF JSUnRegisterBridge, Enter, TypeOK, Locals, NativePcs, JsPcs,
       Options, Threads
  <2>2. MapNames'
    BY <1>15 DEF JSUnRegisterBridge, Enter, TypeOK, MapNames, NativeLocals
  <2>3. NativeLocals'
    BY <1>15 DEF JSUnRegisterBridge, Enter, TypeOK, NativeLocals, ListInHistory,
       Locals, Threads
  <2>4. JsLocals'
    BY <1>15 DEF JSUnRegisterBridge, Enter, TypeOK, JsLocals, MapNames, Threads,
       Locals
  <2>5. MatchIsSeen'
    BY <1>15 DEF JSUnRegisterBridge, Enter, TypeOK, MatchIsSeen, Coming,
       NativeLocals, JsLocals, MapNames, Threads, Locals
  <2>6. ListInHistory'
    BY <1>15 DEF JSUnRegisterBridge, Enter, TypeOK, ListInHistory
  <2>7. AvailableHadPeer'
    BY <1>15 DEF JSUnRegisterBridge, Enter, TypeOK, AvailableHadPeer, NativeLocals,
       JsLocals, ListInHistory, Threads
  <2> QED BY <2>1, <2>2, <2>3, <2>4, <2>5, <2>6, <2>7
<1>16. ASSUME NEW t \in JsThreads, JSOnErased(t)
      PROVE  Inv'
  <2>1. TypeOK'
    BY <1>16 DEF JSOnErased, Return, Enter, NoLocals, TypeOK, Locals, NativePcs,
       JsPcs, Options, Threads
  <2>2. MapNames'
    BY <1>16 DEF JSOnErased, Return, Enter, NoLocals, TypeOK, MapNames, NativeLocals
  <2>3. NativeLocals'
    BY <1>16 DEF JSOnErased, Return, Enter, NoLocals, TypeOK, NativeLocals,
       ListInHistory, Locals, Threads
  <2>4. JsLocals'
    BY <1>16 DEF JSOnErased, Return, Enter, NoLocals, TypeOK, JsLocals, MapNames,
       Threads, Locals
  <2>5. MatchIsSeen'
    BY <1>16 DEF JSOnErased, Return, Enter, NoLocals, TypeOK, MatchIsSeen, Coming,
       NativeLocals, JsLocals, MapNames, Threads, Locals
  <2>6. ListInHistory'
    BY <1>16 DEF JSOnErased, Return, Enter, NoLocals, TypeOK, ListInHistory
  <2>7. AvailableHadPeer'
    BY <1>16 DEF JSOnErased, Return, Enter, NoLocals, TypeOK, AvailableHadPeer,
       NativeLocals, JsLocals, ListInHistory, Threads
  <2> QED BY <2>1, <2>2, <2>3, <2>4, <2>5, <2>6, <2>7
<1>17. CASE UNCHANGED vars
  BY <1>17 DEF vars, TypeOK, MapNames, NativeLocals, JsLocals, MatchIsSeen, Coming,
      ListInHistory, AvailableHadPeer
<1> QED
  BY <1>1, <1>2, <1>3, <1>4, <1>5, <1>6, <1>7, <1>8, <1>9, <1>10, <1>11, <1>12, <1>13, <1>14, <1>15, <1>16, <1>17
  DEF Next, NativeStep, NativeCall, JsStep, JsCall

\* The invariant holds in every reachable state.
THEOREM InvAlways == Spec => []Inv
<1>1. Init => Inv
  BY InitInv
<1>2. Inv /\ [Next]_vars => Inv'
  BY NextInv
<1> QED
  BY <1>1, <1>2, PTL DEF Spec

\* Type correctness of both registries and of every thread's locals.
THEOREM TypeCorrect == Spec => []TypeOK
<1>1. Inv => TypeOK
  BY DEF Inv
<1> QED
  BY InvAlways, <1>1, PTL

\* NoLostPeer for every number of threads: if somebody were still to tell the
\* plugin of its peer, an operation on its name would be in progress.
THEOREM PeerNeverLost == Spec => []NoLostPeer
<1>1. Inv => NoLostPeer
  <2> SUFFICES ASSUME Inv, NEW n \in Names, Quiet(n), bridgeMap[n] # None,
                      bridgeList[n] = typeOf[bridgeMap[n]]
               PROVE  isAvailable[bridgeMap[n]]
    BY DEF NoLostPeer
  <2> DEFINE p == bridgeMap[n]
  <2>1. p \in Plugins /\ nameOf[p] = n
    BY DEF Inv, TypeOK, MapNames
  <2>2. ~Coming(p)
    BY <2>1, RegistryAssumption
    DEF Inv, RegistryAssumption, Quiet, Coming, NativeLocals, JsLocals, Threads
  <2> QED
    BY <2>1, <2>2 DEF Inv, MatchIsSeen
<1> QED
  BY InvAlways, <1>1, PTL

\* A plugin is available only if its name has had a receiver of its type.
THEOREM PeerBeforeAvailable == Spec => []AvailableHadPeer
<1>1. Inv => AvailableHadPeer
  BY DEF Inv
<1> QED
  BY InvAlways, <1>1, PTL
=============================================================================
