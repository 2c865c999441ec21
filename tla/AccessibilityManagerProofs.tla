----------------------- MODULE AccessibilityManagerProofs -----------------------
(***************************************************************************)
(* Proofs about AccessibilityManager, for any nodes and any bounds.        *)
(***************************************************************************)
EXTENDS AccessibilityManager, SequenceTheorems, TLAPS

\* What a handler leaves alone of the manager, if it does not switch accessibility.
SameSwitch(m, n) ==
  /\ m.ready = n.ready /\ m.enabled = n.enabled /\ m.lastSystem = n.lastSystem
  /\ m.outdated = n.outdated /\ m.tests = n.tests

\* A task at the end of the queue is not in the way of a refresh.
LEMMA Appended ==
  ASSUME NEW q \in Seq(Tasks), NEW t \in Tasks, t.k # "refresh",
         \A i \in 2 .. Len(q) : q[i].k # "refresh"
  PROVE  /\ Append(q, t) \in Seq(Tasks)
         /\ \A i \in 2 .. Len(Append(q, t)) : Append(q, t)[i].k # "refresh"
<1> DEFINE r == Append(q, t)
<1>1. /\ r \in Seq(Tasks) /\ Len(q) \in Nat /\ Len(r) = Len(q) + 1
      /\ \A i \in 1 .. Len(q) : r[i] = q[i]
      /\ r[Len(q) + 1] = t
  BY AppendProperties, LenProperties
<1> HIDE DEF r
<1>2. \A i \in 2 .. Len(r) : r[i].k # "refresh"
  BY <1>1
<1> QED BY <1>1, <1>2 DEF r

\* Of what is left of a queue no task is a refresh, and one may be put in front.
LEMMA HeadTaken ==
  ASSUME NEW q \in Seq(Tasks), q # <<>>, NEW t \in Tasks,
         \A i \in 2 .. Len(q) : q[i].k # "refresh"
  PROVE  /\ Head(q) \in Tasks
         /\ Tail(q) \in Seq(Tasks) /\ <<t>> \o Tail(q) \in Seq(Tasks)
         /\ \A i \in 1 .. Len(Tail(q)) : Tail(q)[i].k # "refresh"
         /\ \A i \in 2 .. Len(<<t>> \o Tail(q)) : (<<t>> \o Tail(q))[i].k # "refresh"
         /\ <<t>> \o Tail(q) # <<>> /\ Head(<<t>> \o Tail(q)) = t
<1> DEFINE u == Tail(q)
           r == <<t>> \o u
<1>1. /\ Head(q) \in Tasks /\ u \in Seq(Tasks) /\ Len(q) \in Nat /\ Len(u) = Len(q) - 1
      /\ \A i \in 1 .. Len(u) : u[i] = q[i + 1]
  BY HeadTailProperties, LenProperties
<1>2. <<t>> \in Seq(Tasks) /\ Len(<<t>>) = 1 /\ <<t>>[1] = t
  OBVIOUS
<1> HIDE DEF u
<1>3. /\ r \in Seq(Tasks) /\ Len(r) = 1 + Len(u)
      /\ \A i \in 1 .. Len(r) : r[i] = IF i <= 1 THEN <<t>>[i] ELSE u[i - 1]
  BY <1>1, <1>2, ConcatProperties
<1> HIDE DEF r
<1>4. Len(u) \in Nat
  BY <1>1, LenProperties
<1>5. \A i \in 1 .. Len(u) : u[i].k # "refresh"
  BY <1>1, <1>4
<1>6. ASSUME NEW i \in 2 .. Len(r) PROVE r[i].k # "refresh"
  <2>1. i - 1 \in 1 .. Len(u) /\ i \in 1 .. Len(r) /\ ~(i <= 1)
    BY <1>3, <1>4
  <2>2. r[i] = u[i - 1]
    BY <1>3, <2>1
  <2> QED BY <1>5, <2>1, <2>2
<1>7. r[1] = t /\ r # <<>>
  BY <1>2, <1>3, <1>4, EmptySeq
<1>8. Head(r) = r[1]
  BY <1>3, <1>7, HeadTailProperties
<1> QED BY <1>1, <1>3, <1>5, <1>6, <1>7, <1>8 DEF u, r

\* Registering for VoiceOver's actions switches nothing.
LEMMA Registers ==
  ASSUME NEW m \in Managers, NEW v \in Views, NEW w \in Windows \cup {"none"}
  PROVE  LET r == RegisterInteractionOperation(m, v, w)
         IN  r.mgr \in Managers /\ r.view \in Views /\ SameSwitch(r.mgr, m)
<1>1. CASE m.registered
  BY <1>1 DEF RegisterInteractionOperation, SameSwitch
<1>2. CASE ~m.registered
  <2> DEFINE n == [m EXCEPT !.registered = TRUE, !.operation = IF page.popup THEN "popup" ELSE w]
             u == [v EXCEPT !.callback = @ \/ w = "main"]
  <2>1. n \in Managers /\ SameSwitch(n, m)
    BY DEF Managers, Windows, SameSwitch
  <2>2. u \in Views
    BY DEF Views
  <2>3. RegisterInteractionOperation(m, v, w) = [mgr |-> n, view |-> u]
    BY <1>2 DEF RegisterInteractionOperation
  <2> QED BY <2>1, <2>2, <2>3
<1> QED BY <1>1, <1>2

\* Publishing shows a window nodes.
LEMMA Publishes ==
  ASSUME NEW m \in Managers, NEW v \in Views, NEW w, page \in Pages
  PROVE  UpdateElementInfosByAccessibilityId(m, v, w) \in Views
BY DEF UpdateElementInfosByAccessibilityId, Views, Pages

\* An event switches nothing.
LEMMA Raised ==
  ASSUME NEW id \in Nodes \cup {Root, Popup}, TypeOK, Raise(id)
  PROVE  /\ mgr' \in Managers /\ SameSwitch(mgr', mgr)
         /\ delayed' \subseteq Nodes \cup {Root, Popup}
<1> USE DEF TypeOK
<1>1. CASE mgr.enabled /\ mgr.ready
  <2> DEFINE w == FindPipelineByElementId(id)
  <2>1. w \in {"main", "popup", "none"}
    BY DEF FindPipelineByElementId
  <2>2. CASE w = "none"
    BY <1>1, <2>2 DEF Raise, ProcessAccessibilityEvent, SameSwitch
  <2>3. CASE w # "none"
    <3>1. mgr' = [mgr EXCEPT !.windowId = w] /\ delayed' = delayed \cup {id}
      BY <1>1, <2>3 DEF Raise, ProcessAccessibilityEvent
    <3> HIDE DEF w
    <3>2. mgr' \in Managers /\ SameSwitch(mgr', mgr)
      BY <2>1, <2>3, <3>1 DEF Managers, Windows, SameSwitch
    <3> QED BY <3>1, <3>2
  <2> QED BY <2>2, <2>3
<1>2. CASE ~(mgr.enabled /\ mgr.ready)
  BY <1>2 DEF Raise, SameSwitch
<1> QED BY <1>1, <1>2

\* Nor does a move of VoiceOver's focus.
LEMMA Focuses ==
  ASSUME NEW m \in Managers, NEW id \in Nodes, NEW isNeedClear, NEW held
  PROVE  /\ ExecuteActionNG(m, id, isNeedClear, held) \in Managers
         /\ SameSwitch(ExecuteActionNG(m, id, isNeedClear, held), m)
<1> DEFINE n == [m EXCEPT !.lastElement = id]
<1>1. n \in Managers /\ SameSwitch(n, m)
  BY DEF Managers, SameSwitch
<1>2. \A f \in Nodes \cup {None} :
        /\ [n EXCEPT !.currentFocus = f] \in Managers
        /\ SameSwitch([n EXCEPT !.currentFocus = f], m)
  BY <1>1 DEF Managers, SameSwitch
<1> HIDE DEF n
<1>3. ActAccessibilityFocus(n, id, isNeedClear) \in Managers
      /\ SameSwitch(ActAccessibilityFocus(n, id, isNeedClear), m)
  BY <1>1, <1>2 DEF ActAccessibilityFocus
<1>4. ExecuteActionNG(m, id, isNeedClear, held) \in {m, ActAccessibilityFocus(n, id, isNeedClear)}
  BY DEF ExecuteActionNG, n
<1> QED BY <1>3, <1>4 DEF SameSwitch

\* Before the manager is ready nothing is queued and nothing is on.
LEMMA InitInv == Init => Inv
<1> SUFFICES ASSUME Init PROVE Inv
  OBVIOUS
<1>1. mgr \in Managers /\ mgr.ready = FALSE /\ mgr.tests = 0
  BY DEF Init, Managers, Windows
<1>2. view \in Views
  BY DEF Init, Views
<1>3. page \in Pages /\ page.laid \subseteq page.on /\ page.on \cap page.gone = {}
  BY DEF Init, Pages
<1>4. ui \in Seq(Tasks) /\ DOMAIN ui = 1 .. 0 /\ Len(ui) = 0
  BY DEF Init
<1>5. test \in [pc : {"off", "starting", "starting2", "watching", "ending", "ending2"},
                read : BOOLEAN] /\ test.pc = "off" /\ delayed = {}
  BY DEF Init
<1> QED BY <1>1, <1>2, <1>3, <1>4, <1>5 DEF Inv, TypeOK, TestsCounted, RefreshFirst, EnabledByLast

\* The test's thread refreshes from what it read: it is counted when it stores.
LEMMA TestInv == Inv /\ TestThread => Inv'
<1> SUFFICES ASSUME Inv, TestThread PROVE Inv'
  OBVIOUS
<1> USE DEF Inv, TypeOK
<1>1. CASE UiTestStarts
  <2>1. /\ mgr' = [mgr EXCEPT !.tests = @ + 1] /\ mgr.tests = 0
        /\ test' = [test EXCEPT !.pc = "starting"]
    BY <1>1 DEF UiTestStarts, TestsCounted
  <2>2. mgr' \in Managers /\ mgr'.tests = 1
    BY <2>1 DEF Managers
  <2> QED BY <1>1, <2>1, <2>2 DEF UiTestStarts, TestsCounted, RefreshFirst, EnabledByLast
<1>2. CASE RefreshReads
  <2>1. mgr.lastSystem \in BOOLEAN
    BY DEF Managers
  <2> QED BY <1>2, <2>1 DEF RefreshReads, TestsCounted, RefreshFirst, EnabledByLast
<1>3. CASE RefreshStores
  <2> DEFINE m == RefreshEffectiveAccessibilityState(mgr, test.read)
             x == mgr.outdated \/ test.read # mgr.lastSystem
  <2>1. m = [mgr EXCEPT !.lastSystem = test.read, !.enabled = test.read \/ mgr.tests > 0,
                        !.outdated = FALSE]
    BY DEF RefreshEffectiveAccessibilityState
  <2>2. mgr' = [m EXCEPT !.outdated = x] /\ x \in BOOLEAN
    BY <1>3 DEF RefreshStores
  <2> HIDE DEF m, x
  <2>3. /\ m \in Managers /\ m.tests = mgr.tests /\ m.lastSystem = test.read
        /\ m.enabled = (test.read \/ mgr.tests > 0)
    BY <2>1 DEF Managers
  <2>4. /\ mgr' \in Managers /\ mgr'.tests = mgr.tests /\ mgr'.lastSystem = test.read
        /\ mgr'.enabled = (test.read \/ mgr.tests > 0)
    BY <2>2, <2>3 DEF Managers
  <2>5. EnabledByLast'
    BY <2>4 DEF EnabledByLast
  <2> QED BY <1>3, <2>4, <2>5 DEF RefreshStores, TestsCounted, RefreshFirst
<1>4. CASE UiTestEnds
  <2>1. /\ mgr' = [mgr EXCEPT !.tests = IF @ > 0 THEN @ - 1 ELSE 0] /\ mgr.tests = 1
        /\ test' = [test EXCEPT !.pc = "ending"]
    BY <1>4 DEF UiTestEnds, TestsCounted
  <2>2. mgr' \in Managers /\ mgr'.tests = 0
    BY <2>1 DEF Managers
  <2> QED BY <1>4, <2>1, <2>2 DEF UiTestEnds, TestsCounted, RefreshFirst, EnabledByLast
<1> QED BY <1>1, <1>2, <1>3, <1>4 DEF TestThread

\* The main thread's task: a switch puts its refresh in front, and the refresh makes
\* manager and tests agree, whatever the test's thread did between.
LEMMA TaskInv == Inv /\ RunTask => Inv'
<1> SUFFICES ASSUME Inv, RunTask PROVE Inv'
  OBVIOUS
<1> USE DEF Inv, TypeOK
<1> DEFINE t == Head(ui)
           refresh == [k |-> "refresh", on |-> t.on]
<1>a. ui # <<>> /\ UNCHANGED <<page, delayed, test, switches>>
  BY DEF RunTask
<1>b. PICK held \in BOOLEAN :
        LET r == CASE t.k = "state" -> StateTask(t.on)
                   [] t.k = "refresh" -> [mgr |-> RefreshEffectiveAccessibilityState(mgr, t.on), view |-> view]
                   [] t.k \in {"focus", "clear"} ->
                        [mgr |-> ExecuteActionNG(mgr, t.id, t.k = "clear", held), view |-> view]
                   [] t.k = "update" -> RequestUpdate(mgr, t.id)
        IN  /\ mgr' = r.mgr /\ view' = r.view
            /\ ui' = (IF t.k = "state" THEN <<refresh>> ELSE <<>>) \o Tail(ui)
  BY DEF RunTask
<1>1. t \in Tasks /\ Tail(ui) \in Seq(Tasks)
  BY <1>a, HeadTailProperties
<1>2. /\ t.k \in {"state", "refresh"} => t.on \in BOOLEAN
      /\ t.k \in {"focus", "clear"} => t.id \in Nodes
      /\ t.k = "update" => t.id \in Nodes \cup {None}
      /\ t.k \in {"state", "refresh", "focus", "clear", "update"}
  BY <1>1 DEF Tasks
<1>3. /\ \A i \in 1 .. Len(Tail(ui)) : Tail(ui)[i].k # "refresh"
      /\ \A x \in Tasks : /\ <<x>> \o Tail(ui) \in Seq(Tasks) /\ <<x>> \o Tail(ui) # <<>>
                          /\ Head(<<x>> \o Tail(ui)) = x
                          /\ \A i \in 2 .. Len(<<x>> \o Tail(ui)) : (<<x>> \o Tail(ui))[i].k # "refresh"
  BY <1>a, <1>1, HeadTaken DEF RefreshFirst
<1>4. Tail(ui) # <<>> => Head(Tail(ui)).k # "refresh"
  <2>1. SUFFICES ASSUME Tail(ui) # <<>> PROVE Head(Tail(ui)) = Tail(ui)[1] /\ 1 \in 1 .. Len(Tail(ui))
    BY <1>3
  <2> QED BY <1>1, <2>1, HeadTailProperties, LenProperties, EmptySeq
<1>c. ui' \in Seq(Tasks) => \A i \in DOMAIN ui' : ui'[i] \in Tasks
  BY ElementOfSeq, LenProperties
<1>d. t.k # "refresh" => (mgr.ready /\ test.pc \in {"off", "watching"}
                          => mgr.enabled = (mgr.lastSystem \/ mgr.tests > 0))
  BY <1>a DEF EnabledByLast
<1>5. CASE t.k = "state"
  <2>1. refresh \in Tasks
    BY <1>2, <1>5 DEF Tasks
  <2>2. ui' = <<refresh>> \o Tail(ui)
    BY <1>b, <1>5
  <2>3. ui' \in Seq(Tasks) /\ RefreshFirst' /\ ui' # <<>> /\ Head(ui').k = "refresh"
    BY <1>3, <2>1, <2>2 DEF RefreshFirst
  <2>4. mgr' = StateTask(t.on).mgr /\ view' = StateTask(t.on).view
    BY <1>b, <1>5
  <2>5. mgr' \in Managers /\ view' \in Views /\ mgr'.tests = mgr.tests
    <3> DEFINE r == RegisterInteractionOperation(mgr, view, mgr.windowId)
    <3>1. r.mgr \in Managers /\ r.view \in Views /\ SameSwitch(r.mgr, mgr)
      <4>1. mgr.windowId \in Windows \cup {"none"}
        BY DEF Managers
      <4> QED BY <4>1, Registers
    <3>2. CASE t.on
      <4>1. /\ mgr' = [r.mgr EXCEPT !.enabled = TRUE]
            /\ view' = UpdateElementInfosByAccessibilityId(r.mgr, r.view, r.mgr.windowId)
        BY <2>4, <3>2 DEF StateTask
      <4> HIDE DEF r
      <4>2. view' \in Views
        BY <3>1, <4>1, Publishes
      <4> QED BY <3>1, <4>1, <4>2 DEF Managers, SameSwitch
    <3>3. CASE ~t.on
      BY <2>4, <3>3 DEF StateTask, Managers
    <3> QED BY <3>2, <3>3
  <2> QED BY <1>a, <1>c, <2>3, <2>5 DEF TestsCounted, EnabledByLast
<1>6. CASE t.k # "state"
  <2>1. ui' = Tail(ui)
    BY <1>b, <1>1, <1>6, ConcatEmptySeq
  <2>2. ui' \in Seq(Tasks) /\ RefreshFirst' /\ (ui' # <<>> => Head(ui').k # "refresh")
    BY <1>1, <1>3, <1>4, <2>1, LenProperties DEF RefreshFirst
  <2>3. CASE t.k = "refresh"
    <3>1. /\ mgr' = [mgr EXCEPT !.lastSystem = t.on, !.enabled = t.on \/ mgr.tests > 0,
                                !.outdated = FALSE]
          /\ view' = view
      BY <1>b, <2>3 DEF RefreshEffectiveAccessibilityState
    <3>2. /\ mgr' \in Managers /\ mgr'.tests = mgr.tests
          /\ mgr'.lastSystem = t.on /\ mgr'.enabled = (t.on \/ mgr.tests > 0)
      BY <1>2, <2>3, <3>1 DEF Managers
    <3> QED BY <1>a, <1>c, <2>2, <3>1, <3>2 DEF TestsCounted, EnabledByLast
  <2>4. CASE t.k \in {"focus", "clear"}
    <3>1. mgr' = ExecuteActionNG(mgr, t.id, t.k = "clear", held) /\ view' = view
      BY <1>b, <2>4
    <3>2. mgr' \in Managers /\ SameSwitch(mgr', mgr)
      BY <1>2, <2>4, <3>1, Focuses
    <3> QED BY <1>a, <1>c, <1>d, <2>2, <2>4, <3>1, <3>2 DEF TestsCounted, EnabledByLast, SameSwitch
  <2>5. CASE t.k = "update"
    <3> DEFINE w == FindPipelineByElementId(t.id)
    <3>1. mgr' = RequestUpdate(mgr, t.id).mgr /\ view' = RequestUpdate(mgr, t.id).view
      BY <1>b, <2>5
    <3>2. w \in {"main", "popup", "none"}
      BY DEF FindPipelineByElementId
    <3>3. CASE w = "none"
      <4>1. mgr' = mgr /\ view' = view
        BY <3>1, <3>3 DEF RequestUpdate
      <4> QED BY <1>a, <1>c, <1>d, <2>2, <2>5, <4>1 DEF TestsCounted, EnabledByLast
    <3>4. CASE w # "none"
      <4>1. /\ mgr' = [mgr EXCEPT !.windowId = w]
            /\ view' = UpdateElementInfosByAccessibilityId(mgr', view, "main")
        BY <3>1, <3>4 DEF RequestUpdate
      <4> HIDE DEF w
      <4>2. mgr' \in Managers /\ SameSwitch(mgr', mgr)
        BY <3>2, <3>4, <4>1 DEF Managers, Windows, SameSwitch
      <4>3. view' \in Views
        BY <4>1, <4>2, Publishes
      <4> QED BY <1>a, <1>c, <1>d, <2>2, <2>5, <4>2, <4>3 DEF TestsCounted, EnabledByLast, SameSwitch
    <3> QED BY <3>3, <3>4
  <2> QED BY <1>2, <1>6, <2>3, <2>4, <2>5
<1> QED BY <1>5, <1>6

\* The main thread between tasks: no refresh is next, so manager and tests agree, and what
\* it does switches nothing and queues no refresh.
LEMMA MainInv == Inv /\ (ui # <<>> => Head(ui).k # "refresh") /\ MainThread => Inv'
<1> SUFFICES ASSUME Inv, ui # <<>> => Head(ui).k # "refresh", MainThread PROVE Inv'
  OBVIOUS
<1> USE DEF Inv, TypeOK
<1>a. mgr.ready /\ test.pc \in {"off", "watching"} => mgr.enabled = (mgr.lastSystem \/ mgr.tests > 0)
  BY DEF EnabledByLast
<1>b. ASSUME NEW t \in Tasks, t.k # "refresh"
      PROVE  /\ Append(ui, t) \in Seq(Tasks)
             /\ \A i \in 2 .. Len(Append(ui, t)) : Append(ui, t)[i].k # "refresh"
  BY <1>b, Appended DEF RefreshFirst
<1>c. ui' \in Seq(Tasks) => \A i \in DOMAIN ui' : ui'[i] \in Tasks
  BY ElementOfSeq, LenProperties
<1>1. CASE InitializeCallback
  <2> DEFINE n == [mgr EXCEPT !.windowId = "main", !.ready = TRUE]
             m == RefreshEffectiveAccessibilityState(n, view.system)
             v == [view EXCEPT !.subscribed = TRUE]
             q == RegisterInteractionOperation(m, v, "main")
  <2>1. /\ n \in Managers /\ n.tests = mgr.tests /\ v \in Views /\ view.system \in BOOLEAN
    BY DEF Managers, Views, Windows
  <2>2. m = [n EXCEPT !.lastSystem = view.system, !.enabled = view.system \/ n.tests > 0,
                     !.outdated = FALSE]
    BY DEF RefreshEffectiveAccessibilityState
  <2>3. mgr' = (IF view.system THEN q.mgr ELSE m) /\ view' = (IF view.system THEN q.view ELSE v)
    BY <1>1 DEF InitializeCallback
  <2> HIDE DEF n, m, v
  <2>4. /\ m \in Managers /\ m.tests = mgr.tests
        /\ m.enabled = (m.lastSystem \/ m.tests > 0)
    BY <2>1, <2>2, ZenonT(30) DEF Managers
  <2>5. q.mgr \in Managers /\ q.view \in Views /\ SameSwitch(q.mgr, m)
    BY <2>1, <2>4, Registers DEF Windows
  <2> HIDE DEF q
  <2>6. /\ mgr' \in Managers /\ view' \in Views /\ mgr'.tests = mgr.tests
        /\ mgr'.enabled = (mgr'.lastSystem \/ mgr'.tests > 0)
    BY <2>3, <2>1, <2>4, <2>5 DEF SameSwitch
  <2> QED BY <1>1, <2>6 DEF InitializeCallback, TestsCounted, RefreshFirst, EnabledByLast
<1>2. CASE OnStateChanged
  <2> DEFINE t == [k |-> "state", on |-> ~view.system]
  <2>1. t \in Tasks /\ t.k # "refresh"
    BY DEF Tasks, Views
  <2>2. view' \in Views /\ ui' \in {ui, Append(ui, t)}
    BY <1>2 DEF OnStateChanged, Views
  <2> HIDE DEF t
  <2>3. ui' \in Seq(Tasks) /\ RefreshFirst'
    BY <1>b, <2>1, <2>2 DEF RefreshFirst
  <2> QED BY <1>a, <1>c, <1>2, <2>2, <2>3 DEF OnStateChanged, TestsCounted, EnabledByLast
<1>3. CASE RunTask
  BY <1>3, TaskInv
<1>4. CASE RunUpdate
  <2>1. PICK n \in delayed :
          /\ delayed' = delayed \ {n}
          /\ IF Spins(n)
             THEN page' = [page EXCEPT !.stuck = TRUE] /\ UNCHANGED view
             ELSE view' = UpdateElementInfosByAccessibilityId(mgr, view, "main") /\ UNCHANGED page
          /\ UNCHANGED <<mgr, ui, test, switches>>
    BY <1>4 DEF RunUpdate
  <2>2. view' \in Views
    BY <2>1, Publishes
  <2>3. page' \in Pages /\ page'.on = page.on /\ page'.laid = page.laid /\ page'.gone = page.gone
    <3>1. page' = page \/ page' = [page EXCEPT !.stuck = TRUE]
      BY <2>1
    <3> QED BY <3>1 DEF Pages
  <2> QED BY <1>a, <2>1, <2>2, <2>3 DEF TestsCounted, RefreshFirst, EnabledByLast
<1>5. ASSUME NEW n \in Nodes, NodeComes(n) PROVE Inv'
  <2>1. mgr' \in Managers /\ SameSwitch(mgr', mgr) /\ delayed' \subseteq Nodes \cup {Root, Popup}
    BY <1>5, Raised DEF NodeComes
  <2>2. /\ page' \in Pages /\ page'.on = page.on \cup {n} /\ page'.laid = page.laid
        /\ page'.gone = page.gone /\ n \notin page.gone
    BY <1>5 DEF NodeComes, Pages
  <2> QED BY <1>a, <1>5, <2>1, <2>2 DEF NodeComes, TestsCounted, RefreshFirst, EnabledByLast, SameSwitch
<1>6. ASSUME NEW n \in Nodes, NodeGoes(n) PROVE Inv'
  <2>1. mgr' \in Managers /\ SameSwitch(mgr', mgr) /\ delayed' \subseteq Nodes \cup {Root, Popup}
    BY <1>6, Raised DEF NodeGoes
  <2>2. /\ page' \in Pages /\ page'.on = page.on \ {n} /\ page'.laid = page.laid \ {n}
        /\ page'.gone = page.gone \cup {n}
    BY <1>6 DEF NodeGoes, Pages
  <2> QED BY <1>a, <1>6, <2>1, <2>2 DEF NodeGoes, TestsCounted, RefreshFirst, EnabledByLast, SameSwitch
<1>7. ASSUME NEW n \in Nodes, NodeChanges(n) PROVE Inv'
  <2>1. mgr' \in Managers /\ SameSwitch(mgr', mgr) /\ delayed' \subseteq Nodes \cup {Root, Popup}
    BY <1>7, Raised DEF NodeChanges
  <2> QED BY <1>a, <1>7, <2>1 DEF NodeChanges, TestsCounted, RefreshFirst, EnabledByLast, SameSwitch
<1>8. ASSUME NEW n \in Nodes, DidBecomeFocused(n) PROVE Inv'
  <2> DEFINE cleared == view.clearFocus \notin {None, n}
             c == [k |-> "clear", id |-> view.clearFocus]
             f == [k |-> "focus", id |-> n]
             q == IF cleared THEN Append(ui, c) ELSE ui
  <2>1. f \in Tasks /\ f.k # "refresh" /\ (cleared => c \in Tasks) /\ c.k # "refresh"
    BY DEF Tasks, Views
  <2>2. view' = [view EXCEPT !.focus = n, !.clearFocus = IF cleared THEN None ELSE @]
    BY <1>8 DEF DidBecomeFocused
  <2>3. view' \in Views
    BY <2>2 DEF Views
  <2>4. ui' = q \o <<f>>
    BY <1>8 DEF DidBecomeFocused
  <2> HIDE DEF c, f, cleared
  <2>5. q \in Seq(Tasks) /\ \A i \in 2 .. Len(q) : q[i].k # "refresh"
    BY <1>b, <2>1 DEF RefreshFirst
  <2> HIDE DEF q
  <2>6. ui' = Append(q, f)
    BY <2>1, <2>4, <2>5, AppendIsConcat
  <2>7. ui' \in Seq(Tasks) /\ RefreshFirst'
    BY <2>1, <2>5, <2>6, Appended DEF RefreshFirst
  <2> QED BY <1>a, <1>c, <1>8, <2>3, <2>7 DEF DidBecomeFocused, TestsCounted, EnabledByLast
<1>9. CASE Layout
  <2>1. page' \in Pages /\ page'.on = page.on /\ page'.laid = page.on /\ page'.gone = page.gone
    BY <1>9 DEF Layout, Pages
  <2> QED BY <1>a, <1>9, <2>1 DEF Layout, TestsCounted, RefreshFirst, EnabledByLast
<1>10. CASE DidLoseFocus
  <2>1. view' \in Views
    BY <1>10 DEF DidLoseFocus, Views
  <2> QED BY <1>a, <1>10, <2>1 DEF DidLoseFocus, TestsCounted, RefreshFirst, EnabledByLast
<1>11. CASE KeyboardChanges
  <2>1. PICK id \in {view.focus, view.clearFocus} : ui' = Append(ui, [k |-> "update", id |-> id])
    BY <1>11 DEF KeyboardChanges
  <2>2. [k |-> "update", id |-> id] \in Tasks
    BY DEF Tasks, Views
  <2>3. ui' \in Seq(Tasks) /\ RefreshFirst'
    BY <1>b, <2>1, <2>2 DEF RefreshFirst
  <2> QED BY <1>a, <1>c, <1>11, <2>3 DEF KeyboardChanges, TestsCounted, EnabledByLast
<1>12. CASE PopupToggles
  <2>1. page' \in Pages /\ page'.on = page.on /\ page'.laid = page.laid /\ page'.gone = page.gone
    BY <1>12 DEF PopupToggles, Pages
  <2> QED BY <1>a, <1>12, <2>1 DEF PopupToggles, TestsCounted, RefreshFirst, EnabledByLast
<1>13. CASE PopupChanges
  <2>1. mgr' \in Managers /\ SameSwitch(mgr', mgr) /\ delayed' \subseteq Nodes \cup {Root, Popup}
    BY <1>13, Raised DEF PopupChanges
  <2> QED BY <1>a, <1>13, <2>1 DEF PopupChanges, TestsCounted, RefreshFirst, EnabledByLast, SameSwitch
<1> QED BY <1>1, <1>2, <1>3, <1>4, <1>5, <1>6, <1>7, <1>8, <1>9, <1>10, <1>11, <1>12, <1>13
        DEF MainThread

\* The invariant, whatever the two threads do between each other's steps.
THEOREM Invariant == Spec => []Inv
<1>1. Inv /\ [Next]_vars => Inv'
  <2> SUFFICES ASSUME Inv, [Next]_vars PROVE Inv'
    OBVIOUS
  <2>1. CASE UNCHANGED vars
    BY <2>1 DEF vars, Inv, TypeOK, TestsCounted, RefreshFirst, EnabledByLast
  <2>2. CASE Next
    BY <2>2, MainInv, TaskInv, TestInv DEF Next
  <2> QED BY <2>1, <2>2
<1> QED BY InitInv, <1>1, PTL DEF Spec

\* What the last task of some kinds is: the last of what follows the head, or the head.
LEMMA LastTaken ==
  ASSUME NEW q \in Seq(Tasks), q # <<>>, NEW K, NEW T
  PROVE  /\ Of(q, K) = {} <=> Head(q).k \notin K /\ Of(Tail(q), K) = {}
         /\ LastIn(q, K, T) <=> /\ LastIn(Tail(q), K, T)
                                /\ Head(q).k \in K /\ Of(Tail(q), K) = {} => Head(q) \in T
<1> DEFINE u == Tail(q)
<1>1. /\ Len(q) \in Nat /\ Len(q) > 0 /\ DOMAIN q = 1 .. Len(q) /\ Head(q) = q[1]
      /\ Len(u) = Len(q) - 1 /\ DOMAIN u = 1 .. Len(u)
      /\ \A i \in 1 .. Len(u) : u[i] = q[i + 1]
  BY HeadTailProperties, LenProperties, EmptySeq
<1> HIDE DEF u
<1>2. \A i \in Of(u, K) : i + 1 \in Of(q, K) /\ u[i] = q[i + 1] /\ i \in Nat /\ i > 0
  BY <1>1 DEF Of
<1>3. \A i \in Of(q, K) : i \in Nat /\ (i = 1 \/ (i - 1 \in Of(u, K) /\ u[i - 1] = q[i]))
  <2> SUFFICES ASSUME NEW i \in Of(q, K), i # 1 PROVE i \in Nat /\ i - 1 \in Of(u, K) /\ u[i - 1] = q[i]
    BY <1>1 DEF Of
  <2>1. i \in 1 .. Len(q) /\ q[i].k \in K
    BY <1>1 DEF Of
  <2>2. i - 1 \in 1 .. Len(u) /\ (i - 1) + 1 = i
    BY <1>1, <2>1
  <2> QED BY <1>1, <2>1, <2>2 DEF Of
<1>4. 1 \in Of(q, K) <=> Head(q).k \in K
  BY <1>1 DEF Of
<1>5. Of(q, K) = {} <=> Head(q).k \notin K /\ Of(u, K) = {}
  BY <1>2, <1>3, <1>4
<1>6. ASSUME LastIn(q, K, T)
      PROVE  LastIn(u, K, T) /\ (Head(q).k \in K /\ Of(u, K) = {} => Head(q) \in T)
  <2>1. ASSUME NEW i \in Of(u, K), \A j \in Of(u, K) : j <= i PROVE u[i] \in T
    <3>1. \A j \in Of(q, K) : j <= i + 1
      BY <1>2, <1>3, <2>1
    <3> QED BY <1>2, <1>6, <2>1, <3>1 DEF LastIn
  <2>2. ASSUME Head(q).k \in K, Of(u, K) = {} PROVE Head(q) \in T
    <3>1. \A j \in Of(q, K) : j = 1
      BY <1>3, <2>2
    <3> QED BY <1>1, <1>4, <1>6, <2>2, <3>1 DEF LastIn
  <2> QED BY <2>1, <2>2 DEF LastIn
<1>7. ASSUME LastIn(u, K, T), Head(q).k \in K /\ Of(u, K) = {} => Head(q) \in T
      PROVE  LastIn(q, K, T)
  <2> SUFFICES ASSUME NEW i \in Of(q, K), \A j \in Of(q, K) : j <= i PROVE q[i] \in T
    BY DEF LastIn
  <2>1. CASE i = 1
    <3>1. Of(u, K) = {}
      <4> SUFFICES ASSUME NEW j \in Of(u, K) PROVE FALSE
        OBVIOUS
      <4> QED BY <1>2, <2>1
    <3> QED BY <1>1, <1>4, <1>7, <2>1, <3>1
  <2>2. CASE i # 1
    <3>1. i - 1 \in Of(u, K) /\ u[i - 1] = q[i] /\ i \in Nat
      BY <1>3, <2>2
    <3>2. \A j \in Of(u, K) : j <= i - 1
      BY <1>2, <3>1
    <3> QED BY <1>7, <3>1, <3>2 DEF LastIn
  <2> QED BY <2>1, <2>2
<1> QED BY <1>5, <1>6, <1>7 DEF u

\* A task at the end of the queue is the last of its kinds, and of no other.
LEMMA LastAppended ==
  ASSUME NEW q \in Seq(Tasks), NEW t \in Tasks, NEW K, NEW T
  PROVE  LET r == Append(q, t)
         IN  /\ t.k \notin K => /\ Of(r, K) = Of(q, K)
                                /\ LastIn(q, K, T) => LastIn(r, K, T)
             /\ t.k \in K => /\ Of(r, K) # {}
                             /\ t \in T => LastIn(r, K, T)
             /\ r # <<>> /\ Head(r) = IF q = <<>> THEN t ELSE Head(q)
<1> DEFINE r == Append(q, t)
<1>1. /\ Len(q) \in Nat /\ DOMAIN q = 1 .. Len(q) /\ DOMAIN r = 1 .. Len(q) + 1
      /\ \A i \in 1 .. Len(q) : r[i] = q[i]
      /\ r[Len(q) + 1] = t
      /\ r \in Seq(Tasks) /\ r # <<>> /\ Len(r) = Len(q) + 1
  BY AppendProperties, LenProperties
<1>2. Head(r) = IF q = <<>> THEN t ELSE Head(q)
  BY <1>1, HeadTailProperties, EmptySeq
<1> HIDE DEF r
<1>3. ASSUME t.k \notin K PROVE Of(r, K) = Of(q, K) /\ (LastIn(q, K, T) => LastIn(r, K, T))
  <2>1. Of(r, K) = Of(q, K)
    BY <1>1, <1>3 DEF Of
  <2>2. \A i \in Of(q, K) : r[i] = q[i]
    BY <1>1 DEF Of
  <2> QED BY <2>1, <2>2 DEF LastIn
<1>4. ASSUME t.k \in K PROVE Of(r, K) # {} /\ (t \in T => LastIn(r, K, T))
  <2>1. Len(q) + 1 \in Of(r, K)
    BY <1>1, <1>4 DEF Of
  <2>2. \A i \in Of(r, K) : i \in Nat /\ i <= Len(q) + 1
    BY <1>1 DEF Of
  <2>3. \A i \in Of(r, K) : (\A j \in Of(r, K) : j <= i) => i = Len(q) + 1
    BY <1>1, <2>1, <2>2
  <2> QED BY <1>1, <2>1, <2>3 DEF LastIn
<1> QED BY <1>1, <1>2, <1>3, <1>4 DEF r

\* A queue is its head in front of its tail.
LEMMA Pushed ==
  ASSUME NEW u \in Seq(Tasks), NEW t \in Tasks
  PROVE  /\ <<t>> \o u \in Seq(Tasks) /\ <<t>> \o u # <<>>
         /\ Head(<<t>> \o u) = t /\ Tail(<<t>> \o u) = u
<1> DEFINE r == <<t>> \o u
<1>1. /\ r \in Seq(Tasks) /\ Len(r) = 1 + Len(u) /\ r[1] = t
      /\ \A i \in 1 .. Len(u) : r[i + 1] = u[i]
  BY ConcatProperties, LenProperties
<1> HIDE DEF r
<1>2. Len(u) \in Nat /\ r # <<>>
  BY <1>1, LenProperties, EmptySeq
<1>3. Head(r) = t
  BY <1>1, <1>2, HeadTailProperties
<1>4. Tail(r) \in Seq(Tasks) /\ Len(Tail(r)) = Len(u) /\ \A i \in 1 .. Len(u) : Tail(r)[i] = u[i]
  BY <1>1, <1>2, HeadTailProperties
<1>5. Tail(r) = u
  BY <1>4, SeqEqual
<1> QED BY <1>1, <1>2, <1>3, <1>5 DEF r

\* What makes the window's view agree with the manager.
AgreeInv == SwitchInv /\ TreeInv /\ FocusInv

\* What a handler leaves alone of the manager, if it does not move VoiceOver's focus.
SameFocus(m, n) ==
  m.registered = n.registered /\ m.operation = n.operation /\ m.currentFocus = n.currentFocus

\* A step that is not the switch's.
NotOfSwitch ==
  /\ SameSwitch(mgr', mgr) /\ test' = test
  /\ view'.system = view.system /\ view'.subscribed = view.subscribed
  /\ ~RefreshNext /\ ~RefreshNext'
  /\ Of(ui, Switching) = {} <=> Of(ui', Switching) = {}
  /\ NoSwitch' => NoSwitch
  /\ LastIn(ui, Switching, SwitchTo(view.system)) => LastIn(ui', Switching, SwitchTo(view.system))
  /\ ~mgr.ready /\ page.on = {} /\ view.shown = {} => page'.on = {} /\ view'.shown = {}

\* A step that publishes, or leaves an update behind, or leaves the tree alone.
TreeCared ==
  \/ view'.shown = page'.on \/ delayed' # {} \/ page'.stuck \/ ~(mgr.enabled /\ mgr.ready)
  \/ /\ view'.shown = view.shown /\ page'.on = page.on /\ page'.stuck = page.stuck
     /\ delayed' = delayed /\ mgr'.windowId = mgr.windowId

\* A step that is not the focus's.
NotOfFocus ==
  /\ SameFocus(mgr', mgr)
  /\ view'.callback = view.callback /\ view'.focus = view.focus
  /\ view'.shown \subseteq page'.on \cup page'.gone
  /\ page.on \cup page.gone \subseteq page'.on \cup page'.gone
  /\ view.focus \in page'.on => view.focus \in page.on
  /\ Of(ui, Focusing) = {} <=> Of(ui', Focusing) = {}
  /\ LastIn(ui, Focusing, {[k |-> "focus", id |-> view.focus]})
       => LastIn(ui', Focusing, {[k |-> "focus", id |-> view.focus]})

LEMMA SwitchKept == SwitchInv /\ NotOfSwitch => SwitchInv'
BY DEF SwitchInv, NotOfSwitch, SameSwitch

LEMMA TreeKept == SwitchInv /\ TreeInv /\ NotOfSwitch /\ TreeCared => TreeInv'
BY DEF SwitchInv, TreeInv, NotOfSwitch, TreeCared, SameSwitch

LEMMA FocusKept == FocusInv /\ NotOfFocus => FocusInv'
<1> SUFFICES ASSUME FocusInv, NotOfFocus PROVE FocusInv'
  OBVIOUS
<1>1. view'.focus = view.focus
  BY DEF NotOfFocus
<1>2. LastIn(ui', Focusing, {[k |-> "focus", id |-> view'.focus]})
  BY <1>1 DEF FocusInv, NotOfFocus
<1> QED BY <1>1, <1>2 DEF FocusInv, NotOfFocus, SameFocus

\* The queue as it is, or one task of another kind behind it, or its head of another kind gone.
LEMMA QueueSame ==
  ASSUME Inv, NEW K, NEW T, NEW t \in Tasks, t.k \notin K, t.k # "refresh",
         ~RefreshNext,
         \/ ui' = ui \/ ui' = Append(ui, t)
         \/ ui # <<>> /\ Head(ui) = t /\ ui' = Tail(ui)
  PROVE  /\ ~RefreshNext'
         /\ Of(ui, K) = {} <=> Of(ui', K) = {}
         /\ LastIn(ui, K, T) => LastIn(ui', K, T)
<1>1. ui \in Seq(Tasks)
  BY DEF Inv
<1>2. CASE ui' = ui
  BY <1>2 DEF RefreshNext
<1>3. CASE ui' = Append(ui, t)
  BY <1>1, <1>3, LastAppended DEF RefreshNext
<1>4. CASE ui # <<>> /\ Head(ui) = t /\ ui' = Tail(ui)
  <2>1. ~RefreshNext'
    <3>1. /\ Tail(ui) \in Seq(Tasks)
          /\ \A i \in 1 .. Len(Tail(ui)) : Tail(ui)[i].k # "refresh"
      BY <1>1, <1>4, HeadTaken DEF Inv, RefreshFirst
    <3>2. Tail(ui) # <<>> => Head(Tail(ui)) = Tail(ui)[1] /\ 1 \in 1 .. Len(Tail(ui))
      BY <3>1, HeadTailProperties, LenProperties, EmptySeq
    <3> QED BY <1>4, <3>1, <3>2 DEF RefreshNext
  <2> QED BY <1>1, <1>4, <2>1, LastTaken
<1> QED BY <1>2, <1>3, <1>4

\* An event leaves an update behind, if accessibility is on and it is an event of a window.
LEMMA RaisedWaits ==
  ASSUME NEW id \in Nodes \cup {Root, Popup}, TypeOK, Raise(id)
  PROVE  /\ SameFocus(mgr', mgr)
         /\ FindPipelineByElementId(id) # "none" => ~(mgr.enabled /\ mgr.ready) \/ delayed' # {}
         /\ delayed' # {} \/ (mgr' = mgr /\ delayed' = delayed)
         /\ ~(mgr.enabled /\ mgr.ready) => mgr' = mgr /\ delayed' = delayed
<1> DEFINE w == FindPipelineByElementId(id)
<1>1. CASE mgr.enabled /\ mgr.ready /\ w # "none"
  <2>1. mgr' = [mgr EXCEPT !.windowId = w] /\ delayed' = delayed \cup {id}
    BY <1>1 DEF Raise, ProcessAccessibilityEvent
  <2> HIDE DEF w
  <2>2. SameFocus(mgr', mgr)
    BY <2>1 DEF TypeOK, Managers, SameFocus
  <2> QED BY <1>1, <2>1, <2>2
<1>2. CASE mgr.enabled /\ mgr.ready /\ w = "none"
  BY <1>2 DEF Raise, ProcessAccessibilityEvent, SameFocus
<1>3. CASE ~(mgr.enabled /\ mgr.ready)
  BY <1>3 DEF Raise, SameFocus
<1> QED BY <1>1, <1>2, <1>3

\* Nothing is queued, shown or focused to begin with.
LEMMA InitAgree == Init => AgreeInv
<1> SUFFICES ASSUME Init PROVE AgreeInv
  OBVIOUS
<1>1. ui = <<>> /\ DOMAIN ui = {} /\ \A K : Of(ui, K) = {}
  BY DEF Init, Of
<1>2. /\ ~mgr.ready /\ ~mgr.lastSystem /\ ~mgr.registered /\ mgr.operation = "none"
      /\ page.on = {} /\ page.gone = {} /\ ~test.read
  BY DEF Init
<1>3. ~view.subscribed /\ ~view.callback /\ view.shown = {} /\ view.focus = None
  BY DEF Init
<1> QED BY <1>1, <1>2, <1>3 DEF AgreeInv, SwitchInv, TreeInv, FocusInv, LastIn

\* What a test reads and stores is what the last switch left.
LEMMA TestAgree == Inv /\ AgreeInv /\ TestThread => AgreeInv'
<1> SUFFICES ASSUME Inv, AgreeInv, TestThread PROVE AgreeInv'
  OBVIOUS
<1>a. mgr \in Managers /\ test.read \in BOOLEAN
  BY DEF Inv, TypeOK
<1>1. page' = page /\ view' = view /\ ui' = ui /\ delayed' = delayed
  BY DEF TestThread, UiTestStarts, RefreshReads, RefreshStores, UiTestEnds
<1>2. /\ mgr'.ready = mgr.ready /\ mgr'.registered = mgr.registered /\ mgr'.operation = mgr.operation
      /\ mgr'.currentFocus = mgr.currentFocus /\ mgr'.windowId = mgr.windowId
  BY <1>a DEF TestThread, UiTestStarts, RefreshReads, RefreshStores, UiTestEnds,
     RefreshEffectiveAccessibilityState, Managers
<1>3. FocusInv'
  BY <1>1, <1>2 DEF AgreeInv, FocusInv
<1>4. CASE UiTestStarts \/ UiTestEnds
  <2>1. /\ test'.read = test.read /\ mgr'.lastSystem = mgr.lastSystem /\ mgr'.enabled = mgr.enabled
        /\ mgr'.outdated = mgr.outdated
    BY <1>a, <1>4 DEF UiTestStarts, UiTestEnds, Inv, TypeOK, Managers
  <2> QED BY <1>1, <1>2, <1>3, <2>1 DEF AgreeInv, SwitchInv, TreeInv, NoSwitch, RefreshNext
<1>5. CASE RefreshReads
  <2>1. test'.read = mgr.lastSystem /\ mgr' = mgr
    BY <1>5 DEF RefreshReads
  <2> QED BY <1>1, <1>3, <2>1 DEF AgreeInv, SwitchInv, TreeInv, NoSwitch, RefreshNext
<1>6. CASE RefreshStores
  <2>1. /\ mgr'.lastSystem = test.read /\ mgr'.enabled = (test.read \/ mgr.tests > 0)
        /\ test'.read = FALSE
        /\ ~mgr'.outdated => ~mgr.outdated /\ test.read = mgr.lastSystem
    BY <1>a, <1>6 DEF RefreshStores, RefreshEffectiveAccessibilityState, Managers
  <2> QED BY <1>1, <1>2, <1>3, <2>1 DEF AgreeInv, SwitchInv, TreeInv, NoSwitch, RefreshNext
<1> QED BY <1>4, <1>5, <1>6 DEF TestThread

\* A task of VoiceOver's focus: the last one leaves the manager the focus VoiceOver has.
LEMMA FocusTask ==
  ASSUME Inv, AgreeInv, NEW held,
         ui # <<>>, Head(ui).k \in Focusing,
         mgr' = ExecuteActionNG(mgr, Head(ui).id, Head(ui).k = "clear", held),
         ui' = Tail(ui), UNCHANGED <<page, view, delayed, test>>
  PROVE  AgreeInv'
<1> DEFINE t == Head(ui)
           m == [mgr EXCEPT !.lastElement = t.id]
<1>1. ui \in Seq(Tasks) /\ mgr \in Managers
  BY DEF Inv, TypeOK
<1>2. t \in Tasks /\ t.k \in {"focus", "clear"} /\ t.id \in Nodes
  BY <1>1, HeadTailProperties DEF Tasks, Focusing
<1>3. t.k # "refresh" /\ t.k \notin Switching /\ t.k \notin {"state"} /\ ~RefreshNext
  BY <1>2 DEF Switching, RefreshNext
<1>4. /\ m \in Managers /\ m.registered = mgr.registered /\ m.operation = mgr.operation
      /\ m.currentFocus = mgr.currentFocus /\ m.windowId = mgr.windowId
  BY <1>1, <1>2 DEF Managers
<1>5. mgr' \in {mgr, m, [m EXCEPT !.currentFocus = None], [m EXCEPT !.currentFocus = t.id]}
  BY DEF ExecuteActionNG, ActAccessibilityFocus
<1>6. /\ SameSwitch(mgr', mgr) /\ mgr'.registered = mgr.registered
      /\ mgr'.operation = mgr.operation /\ mgr'.windowId = mgr.windowId
  <2>1. SameSwitch(mgr', mgr)
    BY <1>1, <1>2, Focuses
  <2> QED BY <1>4, <1>5, <2>1 DEF Managers
<1>7. NotOfSwitch /\ TreeCared
  <2>1. /\ ~RefreshNext'
        /\ Of(ui, Switching) = {} <=> Of(ui', Switching) = {}
        /\ LastIn(ui, Switching, SwitchTo(view.system)) => LastIn(ui', Switching, SwitchTo(view.system))
    BY <1>2, <1>3, QueueSame
  <2>2. NoSwitch' => NoSwitch
    BY <1>2, <1>3, QueueSame DEF NoSwitch
  <2> QED BY <1>3, <1>6, <2>1, <2>2 DEF NotOfSwitch, TreeCared
<1>8. FocusInv'
  <2> DEFINE F == {[k |-> "focus", id |-> view.focus]}
  <2>1. /\ Of(ui, Focusing) # {}
        /\ LastIn(ui', Focusing, F)
        /\ Of(ui', Focusing) = {} => t \in F
    BY <1>1, LastTaken DEF AgreeInv, FocusInv
  <2>2. mgr.registered
    BY <2>1 DEF AgreeInv, FocusInv
  <2>3. ASSUME Of(ui', Focusing) = {}, view.focus \in page.on, mgr.operation = "main"
        PROVE  mgr'.currentFocus = view.focus
    <3>1. t.k = "focus" /\ t.id = view.focus
      BY <2>1, <2>3
    <3>2. mgr' = [m EXCEPT !.currentFocus = t.id]
      BY <2>3, <3>1 DEF ExecuteActionNG, GetPipelineByWindowId, ActAccessibilityFocus
    <3> QED BY <1>2, <1>4, <3>1, <3>2 DEF Managers
  <2> QED BY <1>6, <2>1, <2>2, <2>3 DEF AgreeInv, FocusInv
<1> QED BY <1>7, <1>8, SwitchKept, TreeKept DEF AgreeInv

\* A request for an update publishes, unless it is of no window.
LEMMA UpdateTask ==
  ASSUME Inv, AgreeInv, ui # <<>>, Head(ui).k = "update",
         mgr' = RequestUpdate(mgr, Head(ui).id).mgr, view' = RequestUpdate(mgr, Head(ui).id).view,
         ui' = Tail(ui), UNCHANGED <<page, delayed, test>>
  PROVE  AgreeInv'
<1> DEFINE t == Head(ui)
           w == FindPipelineByElementId(t.id)
<1>1. ui \in Seq(Tasks) /\ mgr \in Managers /\ view \in Views
  BY DEF Inv, TypeOK
<1>2. t \in Tasks /\ t.k # "refresh" /\ t.k \notin Switching /\ t.k \notin Focusing /\ t.k \notin {"state"}
      /\ ~RefreshNext
  BY <1>1, HeadTailProperties DEF Switching, Focusing, RefreshNext
<1>3. \/ mgr' = mgr /\ view' = view
      \/ mgr' = [mgr EXCEPT !.windowId = w] /\ view' = [view EXCEPT !.shown = page.on]
  BY DEF RequestUpdate, UpdateElementInfosByAccessibilityId
<1> HIDE DEF w
<1>4. /\ SameSwitch(mgr', mgr) /\ SameFocus(mgr', mgr)
      /\ view'.system = view.system /\ view'.subscribed = view.subscribed
      /\ view'.callback = view.callback /\ view'.focus = view.focus
      /\ view'.shown = page.on \/ (view' = view /\ mgr' = mgr)
  BY <1>1, <1>3 DEF Managers, Views, SameSwitch, SameFocus
<1>5. NotOfSwitch /\ TreeCared
  <2>1. /\ ~RefreshNext'
        /\ Of(ui, Switching) = {} <=> Of(ui', Switching) = {}
        /\ LastIn(ui, Switching, SwitchTo(view.system)) => LastIn(ui', Switching, SwitchTo(view.system))
    BY <1>2, QueueSame
  <2>2. NoSwitch' => NoSwitch
    BY <1>2, QueueSame DEF NoSwitch
  <2> QED BY <1>2, <1>4, <2>1, <2>2 DEF NotOfSwitch, TreeCared
<1>6. NotOfFocus
  <2>1. /\ Of(ui, Focusing) = {} <=> Of(ui', Focusing) = {}
        /\ LastIn(ui, Focusing, {[k |-> "focus", id |-> view.focus]})
             => LastIn(ui', Focusing, {[k |-> "focus", id |-> view.focus]})
    BY <1>2, QueueSame
  <2> QED BY <1>4, <2>1 DEF NotOfFocus, AgreeInv, FocusInv
<1> QED BY <1>5, <1>6, SwitchKept, TreeKept, FocusKept DEF AgreeInv

\* The refresh that ends a switch: if no switch is queued behind it, it is the system's.
LEMMA RefreshTask ==
  ASSUME Inv, AgreeInv, ui # <<>>, Head(ui).k = "refresh",
         mgr' = RefreshEffectiveAccessibilityState(mgr, Head(ui).on),
         ui' = Tail(ui), UNCHANGED <<page, view, delayed, test>>
  PROVE  AgreeInv'
<1> DEFINE t == Head(ui)
<1>1. ui \in Seq(Tasks) /\ mgr \in Managers
  BY DEF Inv, TypeOK
<1>2. /\ t \in Tasks /\ Tail(ui) \in Seq(Tasks) /\ t.k \in Switching /\ t.k \notin {"state"}
      /\ t.k \notin Focusing /\ RefreshNext
  BY <1>1, HeadTailProperties DEF Switching, Focusing, RefreshNext
<1>3. \A i \in 1 .. Len(Tail(ui)) : Tail(ui)[i].k # "refresh"
  BY <1>1, <1>2, HeadTaken DEF Inv, RefreshFirst
<1>4. NoSwitch' => NoSwitch /\ Of(ui', Switching) = {}
  <2>1. NoSwitch' => NoSwitch
    BY <1>1, <1>2, LastTaken DEF NoSwitch
  <2>2. NoSwitch' => Of(ui', Switching) = {}
    BY <1>2, <1>3, LenProperties DEF NoSwitch, Of, Switching
  <2> QED BY <2>1, <2>2
<1>5. ~RefreshNext'
  <2>1. Tail(ui) # <<>> => Head(Tail(ui)) = Tail(ui)[1] /\ 1 \in 1 .. Len(Tail(ui))
    BY <1>2, HeadTailProperties, LenProperties, EmptySeq
  <2> QED BY <1>3, <2>1 DEF RefreshNext
<1>6. /\ Of(ui, Switching) # {}
      /\ LastIn(ui', Switching, SwitchTo(view.system))
      /\ Of(ui', Switching) = {} => t \in SwitchTo(view.system)
  BY <1>1, <1>2, LastTaken DEF AgreeInv, SwitchInv
<1>7. /\ mgr'.lastSystem = t.on /\ mgr'.enabled = (t.on \/ mgr.tests > 0)
      /\ mgr'.ready = mgr.ready /\ mgr'.windowId = mgr.windowId /\ SameFocus(mgr', mgr)
  BY <1>1 DEF RefreshEffectiveAccessibilityState, Managers, SameFocus
<1>8. SwitchInv'
  <2>1. mgr.ready
    BY <1>6 DEF AgreeInv, SwitchInv
  <2>2. t \in SwitchTo(view.system) => t.on = view.system
    BY DEF SwitchTo
  <2>3. /\ NoSwitch' => t.on = view.system
        /\ Of(ui', Switching) = {} => t.on = view.system
    BY <1>4, <1>6, <2>2
  <2> QED BY <1>5, <1>6, <1>7, <2>1, <2>3 DEF AgreeInv, SwitchInv
<1>9. TreeInv'
  BY <1>2, <1>4, <1>5, <1>7 DEF AgreeInv, TreeInv
<1>10. NotOfFocus
  <2>1. /\ Of(ui, Focusing) = {} <=> Of(ui', Focusing) = {}
        /\ LastIn(ui, Focusing, {[k |-> "focus", id |-> view.focus]})
             => LastIn(ui', Focusing, {[k |-> "focus", id |-> view.focus]})
    BY <1>1, <1>2, LastTaken
  <2> QED BY <1>7, <2>1 DEF NotOfFocus, AgreeInv, FocusInv
<1> QED BY <1>8, <1>9, <1>10, FocusKept DEF AgreeInv

\* Registering changes the view's callback and nothing else of it, and only before.
LEMMA RegistersOnce ==
  ASSUME NEW m \in Managers, NEW v \in Views, NEW w \in Windows \cup {"none"}
  PROVE  LET r == RegisterInteractionOperation(m, v, w)
         IN  /\ r.mgr.registered /\ r.mgr.windowId = m.windowId
             /\ r.mgr.currentFocus = m.currentFocus
             /\ m.registered => r.mgr.operation = m.operation /\ r.view.callback = v.callback
             /\ r.view.system = v.system /\ r.view.subscribed = v.subscribed
             /\ r.view.shown = v.shown /\ r.view.focus = v.focus
<1>1. CASE m.registered
  BY <1>1 DEF RegisterInteractionOperation
<1>2. CASE ~m.registered
  <2> DEFINE n == [m EXCEPT !.registered = TRUE, !.operation = IF page.popup THEN "popup" ELSE w]
             u == [v EXCEPT !.callback = @ \/ w = "main"]
  <2>1. n.registered /\ n.windowId = m.windowId /\ n.currentFocus = m.currentFocus
    BY DEF Managers
  <2>2. /\ u.system = v.system /\ u.subscribed = v.subscribed
        /\ u.shown = v.shown /\ u.focus = v.focus
    BY DEF Views
  <2>3. RegisterInteractionOperation(m, v, w) = [mgr |-> n, view |-> u]
    BY <1>2 DEF RegisterInteractionOperation
  <2> HIDE DEF n, u
  <2>4. /\ RegisterInteractionOperation(m, v, w).mgr = n
        /\ RegisterInteractionOperation(m, v, w).view = u
    BY <2>3
  <2> QED BY <1>2, <2>1, <2>2, <2>4
<1> QED BY <1>1, <1>2

\* A switch of VoiceOver publishes the tree, unless a later one is queued or the window that
\* it publishes is the popup's; its refresh is next.
LEMMA StateTaskAgree ==
  ASSUME Inv, AgreeInv, ui # <<>>, Head(ui).k = "state",
         mgr' = StateTask(Head(ui).on).mgr, view' = StateTask(Head(ui).on).view,
         ui' = <<[k |-> "refresh", on |-> Head(ui).on]>> \o Tail(ui),
         UNCHANGED <<page, delayed, test>>
  PROVE  AgreeInv'
<1> DEFINE t == Head(ui)
           s == [k |-> "refresh", on |-> t.on]
           r == RegisterInteractionOperation(mgr, view, mgr.windowId)
<1>1. ui \in Seq(Tasks) /\ mgr \in Managers /\ view \in Views /\ page \in Pages
  BY DEF Inv, TypeOK
<1>2. t \in Tasks /\ Tail(ui) \in Seq(Tasks) /\ t.k \in Switching /\ t.k \notin Focusing /\ t.on \in BOOLEAN
  BY <1>1, HeadTailProperties DEF Tasks, Switching, Focusing
<1>3. s \in Tasks /\ s.k = "refresh" /\ s.on = t.on /\ s.k \in Switching /\ s.k \notin Focusing
      /\ s.k \notin {"state"}
  BY <1>2 DEF Tasks, Switching, Focusing
<1>4. /\ ui' \in Seq(Tasks) /\ ui' # <<>> /\ Head(ui') = s /\ Tail(ui') = Tail(ui)
  BY <1>2, <1>3, Pushed
<1> HIDE DEF s
<1>5. RefreshNext'
  BY <1>3, <1>4 DEF RefreshNext
<1>6. /\ LastIn(Tail(ui), Switching, SwitchTo(view.system)) /\ Of(ui, Switching) # {}
      /\ Of(Tail(ui), Switching) = {} => t \in SwitchTo(view.system)
  BY <1>1, <1>2, LastTaken DEF AgreeInv, SwitchInv
<1>7. LastIn(ui', Switching, SwitchTo(view.system))
  <2>1. t \in SwitchTo(view.system) => s \in SwitchTo(view.system)
    BY <1>2, <1>3 DEF SwitchTo, s
  <2> QED BY <1>3, <1>4, <1>6, <2>1, LastTaken
<1>8. NoSwitch' => t.on = view.system
  <2>1. \A i \in 1 .. Len(Tail(ui)) : Tail(ui)[i].k # "refresh"
    BY <1>1, <1>2, HeadTaken DEF Inv, RefreshFirst
  <2>2. NoSwitch' => Of(Tail(ui), {"state"}) = {}
    BY <1>3, <1>4, LastTaken DEF NoSwitch
  <2>3. NoSwitch' => Of(Tail(ui), Switching) = {}
    BY <1>2, <2>1, <2>2, LenProperties DEF Of, Switching
  <2> QED BY <1>6, <2>3 DEF SwitchTo
<1>9. mgr.ready
  BY <1>6 DEF AgreeInv, SwitchInv
<1>10. mgr.windowId \in Windows \cup {"none"}
  BY <1>1 DEF Managers
<1>11. /\ r.mgr \in Managers /\ r.view \in Views /\ SameSwitch(r.mgr, mgr)
       /\ r.mgr.registered /\ r.mgr.windowId = mgr.windowId
       /\ r.mgr.currentFocus = mgr.currentFocus
       /\ mgr.registered => r.mgr.operation = mgr.operation /\ r.view.callback = view.callback
       /\ r.view.system = view.system /\ r.view.subscribed = view.subscribed
       /\ r.view.shown = view.shown /\ r.view.focus = view.focus
  BY <1>1, <1>10, Registers, RegistersOnce
<1>12. IF t.on THEN /\ mgr' = [r.mgr EXCEPT !.enabled = TRUE]
                    /\ view' = UpdateElementInfosByAccessibilityId(r.mgr, r.view, r.mgr.windowId)
       ELSE mgr' = [mgr EXCEPT !.enabled = FALSE] /\ view' = view
  BY DEF StateTask
<1> HIDE DEF r
<1>13. /\ mgr'.ready /\ mgr'.windowId = mgr.windowId
       /\ view'.system = view.system /\ view'.subscribed = view.subscribed
       /\ view'.shown \in {view.shown, page.on} /\ view'.focus = view.focus
       /\ mgr'.currentFocus = mgr.currentFocus
       /\ t.on /\ mgr.windowId = "main" => view'.shown = page.on
  <2>1. CASE t.on
    <3>1. mgr' = [r.mgr EXCEPT !.enabled = TRUE]
          /\ view' \in {r.view, [r.view EXCEPT !.shown = page.on]}
          /\ (mgr.windowId = "main" => view' = [r.view EXCEPT !.shown = page.on])
      BY <1>11, <1>12, <2>1 DEF UpdateElementInfosByAccessibilityId
    <3>2. /\ mgr'.ready = r.mgr.ready /\ mgr'.windowId = r.mgr.windowId
          /\ mgr'.currentFocus = r.mgr.currentFocus
      BY <1>11, <3>1 DEF Managers
    <3>3. /\ view'.system = r.view.system /\ view'.subscribed = r.view.subscribed
          /\ view'.shown \in {r.view.shown, page.on} /\ view'.focus = r.view.focus
          /\ (mgr.windowId = "main" => view'.shown = page.on)
      BY <1>11, <3>1 DEF Views
    <3> QED BY <1>9, <1>11, <3>2, <3>3 DEF SameSwitch
  <2>2. CASE ~t.on
    BY <1>1, <1>9, <1>12, <2>2 DEF Managers
  <2> QED BY <2>1, <2>2
<1>14. \/ mgr.registered /\ mgr'.registered /\ mgr'.operation = mgr.operation /\ view'.callback = view.callback
       \/ ~mgr.registered /\ mgr'.registered
       \/ ~mgr.registered /\ ~mgr'.registered /\ mgr'.operation = mgr.operation /\ view' = view
  BY <1>1, <1>11, <1>12 DEF UpdateElementInfosByAccessibilityId, Managers, Views
<1>15. SwitchInv'
  <2>1. view.subscribed
    BY <1>9 DEF AgreeInv, SwitchInv
  <2>2. Of(ui', Switching) # {}
    BY <1>3, <1>4, LastTaken
  <2> QED BY <1>5, <1>7, <1>13, <2>1, <2>2 DEF SwitchInv
<1>16. TreeInv'
  BY <1>8, <1>13 DEF TreeInv
<1>17. FocusInv'
  <2>1. /\ Of(ui, Focusing) = {} <=> Of(ui', Focusing) = {}
        /\ LastIn(ui', Focusing, {[k |-> "focus", id |-> view.focus]})
    <3>1. /\ Of(ui, Focusing) = {} <=> Of(Tail(ui), Focusing) = {}
          /\ LastIn(Tail(ui), Focusing, {[k |-> "focus", id |-> view.focus]})
      BY <1>1, <1>2, LastTaken DEF AgreeInv, FocusInv
    <3> QED BY <1>3, <1>4, <3>1, LastTaken
  <2>2. None \notin page.on
    BY <1>1, AccessibilityAssumption DEF Pages
  <2>3. ~mgr.registered => view.focus = None
    BY DEF AgreeInv, FocusInv
  <2>4. LastIn(ui', Focusing, {[k |-> "focus", id |-> view'.focus]})
    BY <1>13, <2>1
  <2>5. page' = page
    OBVIOUS
  <2> QED BY <1>13, <1>14, <2>1, <2>2, <2>3, <2>4, <2>5 DEF AgreeInv, FocusInv
<1> QED BY <1>15, <1>16, <1>17 DEF AgreeInv

\* Whatever task is next.
LEMMA TaskAgree == Inv /\ AgreeInv /\ RunTask => AgreeInv'
<1> SUFFICES ASSUME Inv, AgreeInv, RunTask PROVE AgreeInv'
  OBVIOUS
<1> DEFINE t == Head(ui)
<1>a. ui # <<>> /\ UNCHANGED <<page, delayed, test>> /\ ui \in Seq(Tasks)
  BY DEF RunTask, Inv
<1>b. PICK held \in BOOLEAN :
        LET r == CASE t.k = "state" -> StateTask(t.on)
                   [] t.k = "refresh" -> [mgr |-> RefreshEffectiveAccessibilityState(mgr, t.on), view |-> view]
                   [] t.k \in {"focus", "clear"} ->
                        [mgr |-> ExecuteActionNG(mgr, t.id, t.k = "clear", held), view |-> view]
                   [] t.k = "update" -> RequestUpdate(mgr, t.id)
        IN  /\ mgr' = r.mgr /\ view' = r.view
            /\ ui' = (IF t.k = "state" THEN <<[k |-> "refresh", on |-> t.on]>> ELSE <<>>) \o Tail(ui)
  BY DEF RunTask
<1>1. Tail(ui) \in Seq(Tasks) /\ t.k \in {"state", "refresh", "focus", "clear", "update"}
  BY <1>a, HeadTailProperties DEF Tasks
<1>2. t.k # "state" => ui' = Tail(ui)
  BY <1>b, <1>1, ConcatEmptySeq
<1>3. CASE t.k = "state"
  BY <1>a, <1>b, <1>3, StateTaskAgree
<1>4. CASE t.k = "refresh"
  BY <1>a, <1>b, <1>2, <1>4, RefreshTask
<1>5. CASE t.k \in {"focus", "clear"}
  <2>1. mgr' = ExecuteActionNG(mgr, t.id, t.k = "clear", held) /\ view' = view
    BY <1>b, <1>5
  <2>2. ui' = Tail(ui) /\ t.k \in Focusing
    BY <1>2, <1>5 DEF Focusing
  <2> QED BY <1>a, <2>1, <2>2, FocusTask
<1>6. CASE t.k = "update"
  <2>1. mgr' = RequestUpdate(mgr, t.id).mgr /\ view' = RequestUpdate(mgr, t.id).view
    BY <1>b, <1>6
  <2> QED BY <1>a, <1>2, <1>6, <2>1, UpdateTask
<1> QED BY <1>1, <1>3, <1>4, <1>5, <1>6

\* The manager is made: nothing is shown, queued or focused yet.
LEMMA InitializeAgree == Inv /\ AgreeInv /\ InitializeCallback => AgreeInv'
<1> SUFFICES ASSUME Inv, AgreeInv, InitializeCallback PROVE AgreeInv'
  OBVIOUS
<1> DEFINE n == [mgr EXCEPT !.windowId = "main", !.ready = TRUE]
           m == RefreshEffectiveAccessibilityState(n, view.system)
           v == [view EXCEPT !.subscribed = TRUE]
           q == RegisterInteractionOperation(m, v, "main")
<1>1. mgr \in Managers /\ view \in Views /\ page \in Pages
  BY DEF Inv, TypeOK
<1>2. /\ n \in Managers /\ n.ready /\ n.registered = mgr.registered
      /\ n.operation = mgr.operation /\ n.currentFocus = mgr.currentFocus /\ n.tests = mgr.tests
  BY <1>1 DEF Managers, Windows
<1>3. /\ v \in Views /\ v.system = view.system /\ v.subscribed /\ v.shown = view.shown
      /\ v.focus = view.focus /\ v.callback = view.callback /\ view.system \in BOOLEAN
  BY <1>1 DEF Views
<1>4. mgr' = (IF view.system THEN q.mgr ELSE m) /\ view' = (IF view.system THEN q.view ELSE v)
  BY DEF InitializeCallback
<1>5. m = [n EXCEPT !.lastSystem = view.system, !.enabled = view.system \/ n.tests > 0,
                     !.outdated = FALSE]
  BY DEF RefreshEffectiveAccessibilityState
<1> HIDE DEF n, v, m
<1>6. /\ m \in Managers /\ m.ready = n.ready /\ m.registered = n.registered
      /\ m.operation = n.operation /\ m.currentFocus = n.currentFocus
      /\ m.lastSystem = view.system
  BY <1>2, <1>3, <1>5, ZenonT(30) DEF Managers
<1>7. m.lastSystem => m.enabled
  BY <1>2, <1>3, <1>5, ZenonT(30) DEF Managers
<1>8. /\ SameSwitch(q.mgr, m) /\ q.mgr.registered
      /\ q.mgr.currentFocus = m.currentFocus
      /\ m.registered => q.mgr.operation = m.operation /\ q.view.callback = v.callback
      /\ q.view.system = v.system /\ q.view.subscribed = v.subscribed
      /\ q.view.shown = v.shown /\ q.view.focus = v.focus
  <2>1. "main" \in Windows \cup {"none"}
    BY DEF Windows
  <2>2. SameSwitch(q.mgr, m)
    BY <1>3, <1>6, <2>1, Registers
  <2> QED BY <1>3, <1>6, <2>1, <2>2, RegistersOnce, ZenonT(30)
<1> HIDE DEF q
<1>9. /\ mgr'.ready /\ mgr'.lastSystem = view.system
      /\ mgr'.lastSystem => mgr'.enabled
      /\ mgr'.currentFocus = mgr.currentFocus
      /\ view'.system = view.system /\ view'.subscribed
      /\ view'.shown = view.shown /\ view'.focus = view.focus
  BY <1>2, <1>3, <1>4, <1>6, <1>7, <1>8 DEF SameSwitch
<1>10. \/ mgr.registered /\ mgr'.registered /\ mgr'.operation = mgr.operation /\ view'.callback = view.callback
       \/ ~mgr.registered /\ mgr'.registered
       \/ ~mgr.registered /\ ~mgr'.registered /\ mgr'.operation = mgr.operation /\ view'.callback = view.callback
  BY <1>2, <1>3, <1>4, <1>6, <1>8
<1>11. UNCHANGED <<page, ui, delayed, test>> /\ ~mgr.ready
  BY DEF InitializeCallback
<1>12. page.on = {} /\ view.shown = {} /\ Of(ui, Switching) = {}
  BY <1>11 DEF AgreeInv, SwitchInv
<1>13. SwitchInv'
  BY <1>9, <1>11, <1>12 DEF SwitchInv, LastIn
<1>14. TreeInv'
  BY <1>9, <1>11, <1>12 DEF TreeInv
<1>15. FocusInv'
  <2>1. LastIn(ui', Focusing, {[k |-> "focus", id |-> view'.focus]})
    BY <1>9, <1>11 DEF AgreeInv, FocusInv
  <2> QED BY <1>9, <1>10, <1>11, <1>12, <2>1 DEF AgreeInv, FocusInv
<1> QED BY <1>13, <1>14, <1>15 DEF AgreeInv

\* VoiceOver is switched: the last switch that is queued is this one.
LEMMA ChangedAgree == Inv /\ AgreeInv /\ ~RefreshNext /\ OnStateChanged => AgreeInv'
<1> SUFFICES ASSUME Inv, AgreeInv, ~RefreshNext, OnStateChanged PROVE AgreeInv'
  OBVIOUS
<1> DEFINE t == [k |-> "state", on |-> ~view.system]
<1>1. view \in Views /\ ui \in Seq(Tasks)
  BY DEF Inv, TypeOK
<1>2. /\ view'.system = ~view.system /\ view'.subscribed = view.subscribed
      /\ view'.shown = view.shown /\ view'.focus = view.focus /\ view'.callback = view.callback
      /\ view'.system \in BOOLEAN
  BY <1>1 DEF OnStateChanged, Views
<1>3. UNCHANGED <<mgr, page, delayed, test>> /\ ui' = IF view.subscribed THEN Append(ui, t) ELSE ui
  BY DEF OnStateChanged
<1>4. /\ t \in Tasks /\ t.k # "refresh" /\ t.k \in Switching /\ t.k \notin Focusing /\ t.k \in {"state"}
      /\ t \in SwitchTo(view'.system)
  BY <1>1, <1>2 DEF Tasks, Switching, Focusing, SwitchTo
<1> HIDE DEF t
<1>5. /\ ~RefreshNext'
      /\ Of(ui, Focusing) = {} <=> Of(ui', Focusing) = {}
      /\ LastIn(ui, Focusing, {[k |-> "focus", id |-> view.focus]})
           => LastIn(ui', Focusing, {[k |-> "focus", id |-> view.focus]})
  BY <1>3, <1>4, QueueSame
<1>6. view.subscribed => /\ ~NoSwitch' /\ Of(ui', Switching) # {}
                         /\ LastIn(ui', Switching, SwitchTo(view'.system))
  BY <1>1, <1>3, <1>4, LastAppended DEF NoSwitch
<1>7. ~view.subscribed => ui' = ui
  BY <1>3
<1>8. SwitchInv' /\ TreeInv'
  BY <1>2, <1>3, <1>5, <1>6, <1>7 DEF AgreeInv, SwitchInv, TreeInv, LastIn
<1>9. NotOfFocus
  BY <1>2, <1>3, <1>5 DEF NotOfFocus, SameFocus, AgreeInv, FocusInv
<1> QED BY <1>8, <1>9, FocusKept DEF AgreeInv

\* VoiceOver's focus moves: its task is the last one.
LEMMA FocusedAgree ==
  ASSUME Inv, AgreeInv, ~RefreshNext, NEW n \in Nodes, DidBecomeFocused(n)
  PROVE  AgreeInv'
<1> DEFINE cleared == view.clearFocus \notin {None, n}
           c == [k |-> "clear", id |-> view.clearFocus]
           f == [k |-> "focus", id |-> n]
           q == IF cleared THEN Append(ui, c) ELSE ui
<1>1. view \in Views /\ ui \in Seq(Tasks)
  BY DEF Inv, TypeOK
<1>2. /\ f \in Tasks /\ f.k # "refresh" /\ f.k \in Focusing /\ f.k \notin Switching /\ f.k \notin {"state"}
  BY DEF Tasks, Focusing, Switching
<1>3. /\ cleared => c \in Tasks
      /\ c.k # "refresh" /\ c.k \notin Switching /\ c.k \notin {"state"}
  BY <1>1 DEF Tasks, Views, Switching
<1>4. view' = [view EXCEPT !.focus = n, !.clearFocus = IF cleared THEN None ELSE @] /\ view.callback
      /\ n \in view.shown
  BY DEF DidBecomeFocused, Listening
<1>5. /\ view'.focus = n /\ view'.system = view.system /\ view'.subscribed = view.subscribed
      /\ view'.shown = view.shown /\ view'.callback = view.callback
  BY <1>1, <1>4 DEF Views
<1>6. ui' = q \o <<f>> /\ UNCHANGED <<mgr, page, delayed, test>>
  BY DEF DidBecomeFocused
<1> DEFINE F == {[k |-> "focus", id |-> view'.focus]}
<1>7. f \in F
  BY <1>5
<1> HIDE DEF c, f, cleared, F
<1>8. /\ q \in Seq(Tasks) /\ (q # <<>> => Head(q).k # "refresh")
      /\ Of(q, Switching) = Of(ui, Switching) /\ Of(q, {"state"}) = Of(ui, {"state"})
      /\ LastIn(ui, Switching, SwitchTo(view.system)) => LastIn(q, Switching, SwitchTo(view.system))
  <2>1. CASE ~cleared
    BY <1>1, <2>1 DEF RefreshNext
  <2>2. CASE cleared
    <3>1. q = Append(ui, c) /\ c \in Tasks
      BY <1>3, <2>2
    <3>2. q \in Seq(Tasks)
      BY <1>1, <3>1, AppendProperties
    <3> QED BY <1>1, <1>3, <3>1, <3>2, LastAppended DEF RefreshNext
  <2> QED BY <2>1, <2>2
<1> HIDE DEF q
<1>9. ui' = Append(q, f)
  BY <1>2, <1>6, <1>8, AppendIsConcat
<1>10. /\ Of(ui', Switching) = Of(ui, Switching) /\ Of(ui', {"state"}) = Of(ui, {"state"})
       /\ LastIn(ui, Switching, SwitchTo(view.system)) => LastIn(ui', Switching, SwitchTo(view.system))
       /\ Of(ui', Focusing) # {} /\ LastIn(ui', Focusing, F) /\ ~RefreshNext'
  BY <1>2, <1>7, <1>8, <1>9, LastAppended DEF RefreshNext
<1>11. NotOfSwitch /\ TreeCared
  BY <1>5, <1>6, <1>10 DEF NotOfSwitch, TreeCared, SameSwitch, NoSwitch
<1>12. FocusInv'
  BY <1>4, <1>5, <1>6, <1>10 DEF AgreeInv, FocusInv, F
<1> QED BY <1>11, <1>12, SwitchKept, TreeKept DEF AgreeInv

\* The page changes: the change is raised, or accessibility is off.
LEMMA PageAgree ==
  ASSUME Inv, AgreeInv, ~RefreshNext, NEW id \in Nodes \cup {Root, Popup}, Raise(id),
         UNCHANGED <<view, ui, test>>, page.on \cup page.gone \subseteq page'.on \cup page'.gone,
         view.focus \in page'.on => view.focus \in page.on,
         \/ page' = page
         \/ mgr.ready /\ FindPipelineByElementId(id) # "none"
  PROVE  AgreeInv'
<1>1. /\ SameSwitch(mgr', mgr) /\ SameFocus(mgr', mgr)
      /\ FindPipelineByElementId(id) # "none" => ~(mgr.enabled /\ mgr.ready) \/ delayed' # {}
      /\ delayed' # {} \/ (mgr' = mgr /\ delayed' = delayed)
  BY Raised, RaisedWaits DEF Inv
<1>2. NotOfSwitch /\ TreeCared
  BY <1>1 DEF NotOfSwitch, TreeCared, NoSwitch, RefreshNext
<1>3. NotOfFocus
  BY <1>1 DEF NotOfFocus, AgreeInv, FocusInv
<1> QED BY <1>2, <1>3, SwitchKept, TreeKept, FocusKept DEF AgreeInv

\* The main thread between tasks.
LEMMA MainAgree == Inv /\ AgreeInv /\ ~RefreshNext /\ MainThread => AgreeInv'
<1> SUFFICES ASSUME Inv, AgreeInv, ~RefreshNext, MainThread PROVE AgreeInv'
  OBVIOUS
<1>a. mgr \in Managers /\ view \in Views /\ page \in Pages
  BY DEF Inv, TypeOK
<1>b. view.focus \in page.on \cup page.gone \cup {None}
  BY DEF AgreeInv, FocusInv
<1>1. CASE InitializeCallback
  BY <1>1, InitializeAgree
<1>2. CASE OnStateChanged
  BY <1>2, ChangedAgree
<1>3. CASE RunTask
  BY <1>3, TaskAgree
<1>4. CASE RunUpdate
  <2>1. /\ UNCHANGED <<mgr, ui, test>>
        /\ \/ page' = [page EXCEPT !.stuck = TRUE] /\ view' = view
           \/ page' = page /\ view' = [view EXCEPT !.shown = page.on]
    BY <1>4 DEF RunUpdate, UpdateElementInfosByAccessibilityId
  <2>2. /\ page'.on = page.on /\ page'.gone = page.gone
        /\ view'.system = view.system /\ view'.subscribed = view.subscribed
        /\ view'.callback = view.callback /\ view'.focus = view.focus
        /\ (page'.stuck /\ view' = view) \/ view'.shown = page.on
    BY <1>a, <2>1 DEF Pages, Views
  <2>3. NotOfSwitch /\ TreeCared
    BY <2>1, <2>2 DEF NotOfSwitch, TreeCared, SameSwitch, NoSwitch, RefreshNext
  <2>4. NotOfFocus
    BY <2>1, <2>2 DEF NotOfFocus, SameFocus, AgreeInv, FocusInv
  <2> QED BY <2>3, <2>4, SwitchKept, TreeKept, FocusKept DEF AgreeInv
<1>5. ASSUME NEW n \in Nodes, NodeComes(n) PROVE AgreeInv'
  <2>1. page'.on = page.on \cup {n} /\ page'.gone = page.gone /\ mgr.ready /\ n \notin page.on \cup page.gone
        /\ Raise(Root) /\ UNCHANGED <<view, ui, test>>
    BY <1>a, <1>5 DEF NodeComes, Pages
  <2>2. view.focus # n
    BY <1>b, <2>1, AccessibilityAssumption
  <2>3. FindPipelineByElementId(Root) # "none"
    BY DEF FindPipelineByElementId
  <2> QED BY <2>1, <2>2, <2>3, PageAgree
<1>6. ASSUME NEW n \in Nodes, NodeGoes(n) PROVE AgreeInv'
  <2>1. page'.on = page.on \ {n} /\ page'.gone = page.gone \cup {n} /\ n \in page.on
        /\ Raise(Root) /\ UNCHANGED <<view, ui, test>>
    BY <1>a, <1>6 DEF NodeGoes, Pages
  <2>2. mgr.ready
    BY <2>1 DEF AgreeInv, SwitchInv
  <2>3. FindPipelineByElementId(Root) # "none"
    BY DEF FindPipelineByElementId
  <2> QED BY <2>1, <2>2, <2>3, PageAgree
<1>7. ASSUME NEW n \in Nodes, NodeChanges(n) PROVE AgreeInv'
  BY <1>7, PageAgree DEF NodeChanges
<1>8. ASSUME NEW n \in Nodes, DidBecomeFocused(n) PROVE AgreeInv'
  BY <1>8, FocusedAgree
<1>9. CASE Layout
  <2>1. /\ page'.on = page.on /\ page'.gone = page.gone /\ page'.stuck = page.stuck
        /\ UNCHANGED <<mgr, view, ui, delayed, test>>
    BY <1>a, <1>9 DEF Layout, Pages
  <2> QED BY <2>1 DEF AgreeInv, SwitchInv, TreeInv, FocusInv, NoSwitch, RefreshNext
<1>10. CASE DidLoseFocus
  <2>1. /\ view'.system = view.system /\ view'.subscribed = view.subscribed
        /\ view'.callback = view.callback /\ view'.focus = view.focus /\ view'.shown = view.shown
        /\ UNCHANGED <<mgr, page, ui, delayed, test>>
    BY <1>a, <1>10 DEF DidLoseFocus, Views
  <2> QED BY <2>1 DEF AgreeInv, SwitchInv, TreeInv, FocusInv, NoSwitch, RefreshNext
<1>11. CASE KeyboardChanges
  <2>1. PICK id \in {view.focus, view.clearFocus} : ui' = Append(ui, [k |-> "update", id |-> id])
    BY <1>11 DEF KeyboardChanges
  <2> DEFINE t == [k |-> "update", id |-> id]
  <2>2. t \in Tasks /\ t.k # "refresh" /\ t.k \notin Switching /\ t.k \notin Focusing /\ t.k \notin {"state"}
    BY <1>a DEF Tasks, Views, Switching, Focusing
  <2>3. ui' = Append(ui, t) /\ UNCHANGED <<mgr, page, view, delayed, test>>
    BY <1>11, <2>1 DEF KeyboardChanges
  <2> HIDE DEF t
  <2>4. /\ ~RefreshNext'
        /\ Of(ui, Switching) = {} <=> Of(ui', Switching) = {}
        /\ LastIn(ui, Switching, SwitchTo(view.system)) => LastIn(ui', Switching, SwitchTo(view.system))
    BY <2>2, <2>3, QueueSame
  <2>5. NoSwitch' => NoSwitch
    BY <2>2, <2>3, QueueSame DEF NoSwitch
  <2>6. /\ Of(ui, Focusing) = {} <=> Of(ui', Focusing) = {}
        /\ LastIn(ui, Focusing, {[k |-> "focus", id |-> view.focus]})
             => LastIn(ui', Focusing, {[k |-> "focus", id |-> view.focus]})
    BY <2>2, <2>3, QueueSame
  <2>7. NotOfSwitch /\ TreeCared
    BY <2>3, <2>4, <2>5 DEF NotOfSwitch, TreeCared, SameSwitch
  <2>8. NotOfFocus
    BY <2>3, <2>6 DEF NotOfFocus, SameFocus, AgreeInv, FocusInv
  <2> QED BY <2>7, <2>8, SwitchKept, TreeKept, FocusKept DEF AgreeInv
<1>12. CASE PopupToggles
  <2>1. /\ page'.on = page.on /\ page'.gone = page.gone /\ page'.stuck = page.stuck
        /\ UNCHANGED <<mgr, view, ui, delayed, test>>
    BY <1>a, <1>12 DEF PopupToggles, Pages
  <2> QED BY <2>1 DEF AgreeInv, SwitchInv, TreeInv, FocusInv, NoSwitch, RefreshNext
<1>13. CASE PopupChanges
  BY <1>13, PageAgree DEF PopupChanges
<1> QED BY <1>1, <1>2, <1>3, <1>4, <1>5, <1>6, <1>7, <1>8, <1>9, <1>10, <1>11, <1>12, <1>13
        DEF MainThread

\* Whatever the two threads do between each other's steps.
LEMMA AgreeKept == Inv /\ AgreeInv /\ [Next]_vars => AgreeInv'
<1> SUFFICES ASSUME Inv, AgreeInv, [Next]_vars PROVE AgreeInv'
  OBVIOUS
<1>1. CASE UNCHANGED vars
  BY <1>1 DEF vars, AgreeInv, SwitchInv, TreeInv, FocusInv, NoSwitch, RefreshNext
<1>2. CASE Next
  BY <1>2, MainAgree, TaskAgree, TestAgree DEF Next, RefreshNext
<1> QED BY <1>1, <1>2

\* With the invariant of the switch, that of the view, and they say what a reader of the
\* view wants to know.
LEMMA ViewFollows == Inv /\ AgreeInv => ViewAgrees
<1> SUFFICES ASSUME Inv, AgreeInv PROVE TreeFresh /\ FocusFollows
  BY DEF ViewAgrees, AgreeInv
<1>1. ui = <<>> => NoSwitch /\ Of(ui, Focusing) = {}
  <2>1. DOMAIN <<>> = {}
    OBVIOUS
  <2> QED BY <2>1 DEF NoSwitch, Of
<1>2. TreeFresh
  BY <1>1 DEF AgreeInv, TreeInv, TreeFresh
<1>3. FocusFollows
  BY <1>1 DEF AgreeInv, FocusInv, FocusFollows
<1> QED BY <1>2, <1>3

\* With VoiceOver on and nothing under way the window's view has the page's nodes, and the
\* manager has the focus VoiceOver has, whatever the page, the tests and VoiceOver did
\* between each other's tasks.
THEOREM ViewsAgree == Spec => []ViewAgrees
<1>1. Init => Inv /\ AgreeInv
  BY InitInv, InitAgree
<1>2. Inv /\ AgreeInv /\ [Next]_vars => AgreeInv'
  BY AgreeKept
<1> QED BY Invariant, InitAgree, <1>1, <1>2, ViewFollows, PTL DEF Spec

\* Once no switch is queued and no refresh under way, accessibility is on if VoiceOver or a
\* test wants it, for any page and however often VoiceOver is switched, unless a test
\* stored what it had read before a switch.
THEOREM SwitchAgrees == Spec => []EnabledAgrees
<1>1. Init => Inv /\ AgreeInv
  BY InitInv, InitAgree
<1>2. Inv /\ AgreeInv /\ [Next]_vars => AgreeInv'
  BY AgreeKept
<1>3. Inv /\ AgreeInv => EnabledAgrees
  <2> SUFFICES ASSUME Inv, AgreeInv, mgr.ready, test.pc \in {"off", "watching"},
                      Of(ui, Switching) = {}, ~mgr.outdated
               PROVE  mgr.enabled = (view.system \/ mgr.tests > 0)
    BY DEF EnabledAgrees
  <2>1. mgr.lastSystem = view.system
    BY DEF AgreeInv, SwitchInv
  <2>2. ui # <<>> => Head(ui).k # "refresh"
    <3>1. ui # <<>> => 1 \in DOMAIN ui /\ Head(ui) = ui[1]
      BY HeadTailProperties, LenProperties, EmptySeq DEF Inv
    <3> QED BY <3>1 DEF Of, Switching
  <2> QED BY <2>1, <2>2 DEF Inv, EnabledByLast
<1> QED BY Invariant, <1>1, <1>2, <1>3, PTL DEF Spec
=================================================================================
