------------------------- MODULE AceContainerProofs -------------------------
EXTENDS AceContainer, WellFoundedInduction, FiniteSetTheorems, SequenceTheorems, TLAPS

(***************************************************************************)
(* Loops.                                                                  *)
(***************************************************************************)
\* A set of numbers has a least one.
LEMMA Least ==
  ASSUME NEW T, T \subseteq Nat, T # {}
  PROVE  \E n \in T : \A m \in T : n <= m
<1> DEFINE R == OpToRel(<, Nat)
<1>1. IsWellFoundedOn(R, Nat)
  BY NatLessThanWellFounded
<1>2. \A x, y \in Nat : <<y, x>> \in R <=> y < x
  BY DEF OpToRel
<1> HIDE DEF R
<1>3. PICK x \in T : \A y \in T : ~ (<<y, x>> \in R)
  BY <1>1, WFMin
<1>4. \A y \in T : ~ (y < x)
  BY <1>2, <1>3, Zenon
<1>5. \A y \in T : x <= y
  <2> TAKE y \in T
  <2>1. x \in Int /\ y \in Int /\ ~ (y < x)
    BY <1>4
  <2> QED BY <2>1
<1> QED BY <1>5

\* Induction, over the members of a set.
LEMMA Induction ==
  ASSUME NEW S, 0 \in S, \A n \in Nat : n \in S => n + 1 \in S
  PROVE  Nat \subseteq S
<1> SUFFICES ASSUME Nat \ S # {} PROVE FALSE
  OBVIOUS
<1>1. PICK n \in Nat \ S : \A m \in Nat \ S : n <= m
  BY Least
<1>2. n # 0
  BY <1>1
<1>3. n - 1 \in Nat /\ n - 1 \in S
  BY <1>1, <1>2
<1> QED BY <1>1, <1>3

\* f is what a loop goes through that begins with a and does h[k] in step k ...
Walk(f, A, a, n, h) == f \in [0 .. n -> A] /\ f[0] = a /\ \A k \in 1 .. n : f[k] = h[k][f[k - 1]]

\* ... which exists, if each step is a function on A ...
LEMMA WalkExists ==
  ASSUME NEW A, NEW a \in A, NEW n \in Nat, NEW h \in [1 .. n -> [A -> A]]
  PROVE  \E f : Walk(f, A, a, n, h)
<1> DEFINE S == {m \in Nat : m <= n => \E f \in [0 .. m -> A] :
                               f[0] = a /\ \A k \in 1 .. m : f[k] = h[k][f[k - 1]]}
<1>1. 0 \in S
  <2> DEFINE f == [k \in 0 .. 0 |-> a]
  <2>1. f \in [0 .. 0 -> A] /\ f[0] = a /\ \A k \in 1 .. 0 : f[k] = h[k][f[k - 1]]
    OBVIOUS
  <2> QED BY <2>1
<1>2. ASSUME NEW m \in Nat, m \in S
      PROVE  m + 1 \in S
  <2> SUFFICES ASSUME m + 1 <= n
               PROVE  \E g \in [0 .. m + 1 -> A] :
                        g[0] = a /\ \A k \in 1 .. m + 1 : g[k] = h[k][g[k - 1]]
    OBVIOUS
  <2>1. PICK f \in [0 .. m -> A] : f[0] = a /\ \A k \in 1 .. m : f[k] = h[k][f[k - 1]]
    BY <1>2
  <2> DEFINE g == [k \in 0 .. m + 1 |-> IF k = m + 1 THEN h[m + 1][f[m]] ELSE f[k]]
  <2>2. h[m + 1][f[m]] \in A
    OBVIOUS
  <2>3. g \in [0 .. m + 1 -> A] /\ g[0] = a
    BY <2>1, <2>2
  <2>4. \A k \in 1 .. m + 1 : g[k] = h[k][g[k - 1]]
    <3> TAKE k \in 1 .. m + 1
    <3>1. CASE k = m + 1
      <4>1. k - 1 = m /\ g[k] = h[m + 1][f[m]] /\ g[m] = f[m]
        BY <3>1
      <4> QED BY <3>1, <4>1, Zenon
    <3>2. CASE k # m + 1
      <4>1. k \in 1 .. m /\ k - 1 \in 0 .. m
        BY <3>2
      <4>2. g[k] = f[k] /\ g[k - 1] = f[k - 1]
        BY <4>1
      <4> QED BY <2>1, <4>1, <4>2
    <3> QED BY <3>1, <3>2
  <2> QED BY <2>3, <2>4
<1> HIDE DEF S
<1>3. Nat \subseteq S
  BY <1>1, <1>2, Induction
<1>4. \E f \in [0 .. n -> A] : f[0] = a /\ \A k \in 1 .. n : f[k] = h[k][f[k - 1]]
  BY <1>3 DEF S
<1> QED BY <1>4 DEF Walk

\* ... and ends in the last of a row of sets, if it begins in the first and each step goes on.
LEMMA WalkEnds ==
  ASSUME NEW A, NEW n \in Nat, NEW f, f[0] \in A[0],
         \A k \in 1 .. n : f[k - 1] \in A[k - 1] => f[k] \in A[k]
  PROVE  f[n] \in A[n]
<1> DEFINE S == {k \in Nat : k <= n => f[k] \in A[k]}
<1>1. 0 \in S
  OBVIOUS
<1>2. ASSUME NEW k \in Nat, k \in S
      PROVE  k + 1 \in S
  <2>1. (k + 1) - 1 = k /\ (k + 1 <= n => k <= n /\ k + 1 \in 1 .. n)
    OBVIOUS
  <2>2. k + 1 <= n => f[k + 1] \in A[k + 1]
    BY <1>2, <2>1
  <2> QED BY <2>2
<1> HIDE DEF S
<1>3. Nat \subseteq S
  BY <1>1, <1>2, Induction
<1> QED BY <1>3 DEF S

-----------------------------------------------------------------------------
(***************************************************************************)
(* The queue.                                                              *)
(***************************************************************************)
\* All but the queue is as it was.
SameButQueue(s, t) ==
  /\ t.ctn = s.ctn /\ t.engine = s.engine /\ t.windowIds = s.windowIds /\ t.modules = s.modules
  /\ t.observers = s.observers /\ t.adapters = s.adapters /\ t.late = s.late
  /\ t.ended = s.ended /\ t.asked = s.asked /\ t.done = s.done

OpsOfTasks ==
  {"start", "state", "focus", "config", "viewport", "size", "area", "keyboard", "event",
   "finish", "collect", "endPipeline", "endFrontend", "remove"}

\* A task is posted behind all others, and that is all.
LEMMA PostIs ==
  ASSUME NEW s \in AceStates, NEW op \in OpsOfTasks, NEW id \in Ids, NEW v \in Words
  PROVE  LET t == PostTask(s, op, id, v) IN
         /\ t \in AceStates /\ SameButQueue(s, t)
         /\ t.queue = Append(s.queue, [op |-> op, id |-> id, v |-> v])
<1> DEFINE task == [op |-> op, id |-> id, v |-> v]
<1>1. task \in Task
  BY DEF Task, OpsOfTasks
<1>2. s.queue \in Seq(Task)
  BY DEF AceStates
<1>3. Append(s.queue, task) \in Seq(Task)
  BY <1>1, <1>2, AppendProperties
<1> HIDE DEF task
<1>4. PostTask(s, op, id, v) = [s EXCEPT !.queue = Append(s.queue, task)]
  BY DEF PostTask, task
<1> HIDE DEF PostTask
<1>5. PostTask(s, op, id, v) \in AceStates
  BY <1>3, <1>4 DEF AceStates
<1> QED BY <1>4, <1>5 DEF AceStates, SameButQueue, task

\* What a queue with one more task holds.
LEMMA Posted ==
  ASSUME NEW s \in AceStates, NEW t \in AceStates, NEW op, NEW id, NEW v,
         t.queue = Append(s.queue, [op |-> op, id |-> id, v |-> v])
  PROVE  /\ \A id2, op2 : Queued(t, id2, op2) <=> Queued(s, id2, op2) \/ (id2 = id /\ op2 = op)
         /\ \A id2, op2, end : Before(s, id2, op2, end)
                              /\ (id2 = id /\ op2 = op => ~Queued(s, id, end) /\ op # end)
                                => Before(t, id2, op2, end)
         /\ \A id2, op2, w : ~(id2 = id /\ op2 = op) =>
                               (LastSays(s, id2, op2, w) <=> LastSays(t, id2, op2, w))
         /\ LastSays(t, id, op, v)
         /\ \A i \in DOMAIN t.queue :
              \/ i \in DOMAIN s.queue /\ t.queue[i] = s.queue[i]
              \/ i = Len(s.queue) + 1 /\ i \notin DOMAIN s.queue /\ t.queue[i] = [op |-> op, id |-> id, v |-> v]
         /\ \A i \in DOMAIN s.queue : i \in DOMAIN t.queue /\ t.queue[i] = s.queue[i]
<1> DEFINE n == Len(s.queue)
           task == [op |-> op, id |-> id, v |-> v]
<1>1. s.queue \in Seq(Task) /\ t.queue \in Seq(Task)
  BY DEF AceStates
<1>2. n \in Nat /\ DOMAIN s.queue = 1 .. n /\ DOMAIN t.queue = 1 .. n + 1
      /\ t.queue[n + 1] = task /\ \A i \in 1 .. n : t.queue[i] = s.queue[i]
  BY <1>1, AppendProperties, LenProperties
<1>3. task.op = op /\ task.id = id /\ task.v = v
  OBVIOUS
<1> HIDE DEF n, task
<1>4. \A i \in 1 .. n + 1 : i \in 1 .. n \/ i = n + 1
  BY <1>2
<1>5. \A i \in 1 .. n : i \in 1 .. n + 1 /\ i < n + 1 /\ i # n + 1
  BY <1>2
<1>6. n + 1 \in 1 .. n + 1 /\ n + 1 \notin 1 .. n
  BY <1>2
<1>7. ASSUME NEW id2, NEW op2
      PROVE  Queued(t, id2, op2) <=> Queued(s, id2, op2) \/ (id2 = id /\ op2 = op)
  BY <1>2, <1>3, <1>4, <1>5, <1>6 DEF Queued, Is
<1>8. ASSUME NEW id2, NEW op2, NEW end, Before(s, id2, op2, end),
             id2 = id /\ op2 = op => ~Queued(s, id, end) /\ op # end
      PROVE  Before(t, id2, op2, end)
  <2> SUFFICES ASSUME NEW i \in DOMAIN t.queue, NEW j \in DOMAIN t.queue,
                      Is(t, i, id2, op2), Is(t, j, id2, end)
               PROVE  i < j
    BY DEF Before
  <2>1. CASE i \in 1 .. n /\ j \in 1 .. n
    BY <1>2, <1>8, <2>1 DEF Before, Is
  <2>2. CASE i = n + 1
    <3>1. id2 = id /\ op2 = op
      BY <1>2, <1>3, <2>2 DEF Is
    <3>2. j # n + 1
      BY <1>2, <1>3, <1>8, <3>1 DEF Is
    <3> QED BY <1>2, <1>4, <1>8, <3>1, <3>2 DEF Is, Queued
  <2>3. CASE i \in 1 .. n /\ j = n + 1
    BY <1>5, <2>3
  <2> QED BY <1>2, <1>4, <2>1, <2>2, <2>3
<1>9. ASSUME NEW id2, NEW op2, NEW w, ~(id2 = id /\ op2 = op)
      PROVE  LastSays(s, id2, op2, w) <=> LastSays(t, id2, op2, w)
  <2>1. ASSUME LastSays(s, id2, op2, w) PROVE LastSays(t, id2, op2, w)
    <3>1. PICK i \in DOMAIN s.queue : Is(s, i, id2, op2) /\ s.queue[i].v = w
                                      /\ \A j \in DOMAIN s.queue : j > i => ~Is(s, j, id2, op2)
      BY <2>1 DEF LastSays
    <3>2. i \in DOMAIN t.queue /\ Is(t, i, id2, op2) /\ t.queue[i].v = w
      BY <1>2, <1>5, <3>1 DEF Is
    <3>3. ASSUME NEW j \in DOMAIN t.queue, j > i PROVE ~Is(t, j, id2, op2)
      BY <1>2, <1>3, <1>4, <1>9, <3>1, <3>3 DEF Is
    <3> QED BY <3>2, <3>3 DEF LastSays
  <2>2. ASSUME LastSays(t, id2, op2, w) PROVE LastSays(s, id2, op2, w)
    <3>1. PICK i \in DOMAIN t.queue : Is(t, i, id2, op2) /\ t.queue[i].v = w
                                      /\ \A j \in DOMAIN t.queue : j > i => ~Is(t, j, id2, op2)
      BY <2>2 DEF LastSays
    <3>2. i \in 1 .. n
      BY <1>2, <1>3, <1>4, <1>9, <3>1 DEF Is
    <3>3. Is(s, i, id2, op2) /\ s.queue[i].v = w
      BY <1>2, <3>1, <3>2 DEF Is
    <3>4. ASSUME NEW j \in DOMAIN s.queue, j > i PROVE ~Is(s, j, id2, op2)
      BY <1>2, <1>5, <3>1, <3>4 DEF Is
    <3> QED BY <1>2, <3>2, <3>3, <3>4 DEF LastSays
  <2> QED BY <2>1, <2>2
<1>10. LastSays(t, id, op, v)
  <2>1. \A j \in DOMAIN t.queue : ~(j > n + 1)
    BY <1>2
  <2> QED BY <1>2, <1>3, <1>6, <2>1 DEF LastSays, Is
<1>11. \A i \in DOMAIN t.queue :
              \/ i \in DOMAIN s.queue /\ t.queue[i] = s.queue[i]
              \/ i = Len(s.queue) + 1 /\ i \notin DOMAIN s.queue /\ t.queue[i] = [op |-> op, id |-> id, v |-> v]
  BY <1>2, <1>4, <1>6 DEF n, task
<1>12. \A i \in DOMAIN s.queue : i \in DOMAIN t.queue /\ t.queue[i] = s.queue[i]
  BY <1>2, <1>5
<1> QED BY <1>7, <1>8, <1>9, <1>10, <1>11, <1>12

\* What the queue holds behind its head.
LEMMA Taken ==
  ASSUME NEW s \in AceStates, NEW t \in AceStates, s.queue # <<>>, t.queue = Tail(s.queue)
  PROVE  LET h == Head(s.queue) IN
         /\ h \in Task
         /\ Queued(s, h.id, h.op) /\ 1 \in DOMAIN s.queue /\ s.queue[1] = h
         /\ \A id, op : Queued(t, id, op) => Queued(s, id, op)
         /\ \A id, op : Queued(s, id, op) /\ ~(h.id = id /\ h.op = op) => Queued(t, id, op)
         /\ \A id, op, end : Before(s, id, op, end) => Before(t, id, op, end)
         /\ \A id, op : Before(s, id, op, h.op) /\ h.id = id => ~Queued(t, id, op)
         /\ \A id, op, w : LastSays(s, id, op, w)
              => \/ LastSays(t, id, op, w)
                 \/ h.id = id /\ h.op = op /\ h.v = w /\ ~Queued(t, id, op)
         /\ \A i \in DOMAIN t.queue : i + 1 \in DOMAIN s.queue /\ t.queue[i] = s.queue[i + 1] /\ i + 1 # 1
<1> DEFINE n == Len(s.queue)
           h == Head(s.queue)
<1>1. s.queue \in Seq(Task) /\ t.queue \in Seq(Task)
  BY DEF AceStates
<1>2. n \in Nat /\ n > 0 /\ DOMAIN s.queue = 1 .. n /\ DOMAIN t.queue = 1 .. n - 1
      /\ s.queue[1] = h /\ \A i \in 1 .. n - 1 : t.queue[i] = s.queue[i + 1]
  BY <1>1, HeadTailProperties, LenProperties, EmptySeq
<1>3. h \in Task
  BY <1>1, <1>2
<1> HIDE DEF n, h
<1>4. \A i \in 1 .. n : i = 1 \/ (i - 1 \in 1 .. n - 1 /\ (i - 1) + 1 = i)
  BY <1>2
<1>5. \A i \in 1 .. n - 1 : i + 1 \in 1 .. n /\ i + 1 > 1 /\ i + 1 # 1 /\ (i + 1) - 1 = i /\ i \in Int
  BY <1>2
<1>6. 1 \in 1 .. n
  BY <1>2
<1>7. \A i \in 1 .. n - 1 : \A id, op : Is(t, i, id, op) <=> Is(s, i + 1, id, op)
  BY <1>2 DEF Is
<1>8. \A id, op : Is(s, 1, id, op) <=> h.id = id /\ h.op = op
  BY <1>2 DEF Is
<1>9. Queued(s, h.id, h.op)
  BY <1>2, <1>6, <1>8 DEF Queued
<1>10. \A id, op : Queued(t, id, op) => Queued(s, id, op)
  BY <1>2, <1>5, <1>7 DEF Queued
<1>11. \A id, op : Queued(s, id, op) /\ ~(h.id = id /\ h.op = op) => Queued(t, id, op)
  <2> SUFFICES ASSUME NEW id, NEW op, Queued(s, id, op), ~(h.id = id /\ h.op = op)
               PROVE  Queued(t, id, op)
    OBVIOUS
  <2>1. PICK i \in 1 .. n : Is(s, i, id, op)
    BY <1>2 DEF Queued
  <2>2. i # 1
    BY <1>8, <2>1
  <2> QED BY <1>2, <1>4, <1>7, <2>1, <2>2 DEF Queued
<1>12. \A id, op, end : Before(s, id, op, end) => Before(t, id, op, end)
  <2> SUFFICES ASSUME NEW id, NEW op, NEW end, Before(s, id, op, end),
                      NEW i \in 1 .. n - 1, NEW j \in 1 .. n - 1, Is(t, i, id, op), Is(t, j, id, end)
               PROVE  i < j
    BY <1>2 DEF Before
  <2>1. i + 1 < j + 1
    BY <1>2, <1>5, <1>7 DEF Before
  <2> QED BY <1>5, <2>1
<1>13. \A id, op : Before(s, id, op, h.op) /\ h.id = id => ~Queued(t, id, op)
  <2> SUFFICES ASSUME NEW id, NEW op, Before(s, id, op, h.op), h.id = id,
                      NEW i \in 1 .. n - 1, Is(t, i, id, op)
               PROVE  FALSE
    BY <1>2 DEF Queued
  <2>1. Is(s, i + 1, id, op) /\ Is(s, 1, id, h.op)
    BY <1>7, <1>8
  <2>2. i + 1 < 1
    BY <1>2, <1>5, <1>6, <2>1 DEF Before
  <2> QED BY <1>5, <2>2
<1>14. \A id, op, w : LastSays(s, id, op, w)
              => \/ LastSays(t, id, op, w)
                 \/ h.id = id /\ h.op = op /\ h.v = w /\ ~Queued(t, id, op)
  <2> SUFFICES ASSUME NEW id, NEW op, NEW w, LastSays(s, id, op, w)
               PROVE  \/ LastSays(t, id, op, w)
                      \/ h.id = id /\ h.op = op /\ h.v = w /\ ~Queued(t, id, op)
    OBVIOUS
  <2>1. PICK i \in 1 .. n : Is(s, i, id, op) /\ s.queue[i].v = w
                            /\ \A j \in 1 .. n : j > i => ~Is(s, j, id, op)
    BY <1>2 DEF LastSays
  <2>2. CASE i = 1
    <3>1. h.id = id /\ h.op = op /\ h.v = w
      BY <1>2, <1>8, <2>1, <2>2
    <3>2. ~Queued(t, id, op)
      BY <1>2, <1>5, <1>7, <2>1, <2>2 DEF Queued
    <3> QED BY <3>1, <3>2
  <2>3. CASE i # 1
    <3>1. i - 1 \in 1 .. n - 1 /\ (i - 1) + 1 = i
      BY <1>4, <2>3
    <3>2. Is(t, i - 1, id, op) /\ t.queue[i - 1].v = w
      BY <1>2, <1>7, <2>1, <3>1
    <3>3. ASSUME NEW j \in 1 .. n - 1, j > i - 1 PROVE ~Is(t, j, id, op)
      <4>1. j + 1 \in 1 .. n /\ j + 1 > i
        BY <1>5, <3>3
      <4> QED BY <1>7, <2>1, <4>1
    <3> QED BY <1>2, <3>1, <3>2, <3>3 DEF LastSays
  <2> QED BY <2>2, <2>3
<1>15. \A i \in DOMAIN t.queue : i + 1 \in DOMAIN s.queue /\ t.queue[i] = s.queue[i + 1] /\ i + 1 # 1
  BY <1>2, <1>5
<1> QED BY <1>2, <1>3, <1>6, <1>9, <1>10, <1>11, <1>12, <1>13, <1>14, <1>15 DEF h

-----------------------------------------------------------------------------
(***************************************************************************)
(* What a content is told.                                                 *)
(***************************************************************************)
SameTables(s, t) ==
  /\ t.engine = s.engine /\ t.windowIds = s.windowIds /\ t.modules = s.modules
  /\ t.observers = s.observers /\ t.adapters = s.adapters
  /\ t.ended = s.ended /\ t.asked = s.asked /\ t.done = s.done /\ t.late = s.late

\* Of the containers only that of id has changed, and only in what it knows and was told.
Alike(s, t, id) ==
  /\ SameTables(s, t)
  /\ \A i \in Ids \ {id} : t.ctn[i] = s.ctn[i]
  /\ t.ctn[id].pipe = s.ctn[id].pipe /\ t.ctn[id].view = s.ctn[id].view
  /\ t.ctn[id].front = s.ctn[id].front

\* The field that was told is told, and all else as it was.
LEMMA SayIs ==
  ASSUME NEW s \in AceStates, NEW id \in Ids, NEW field \in Fields, NEW v \in Words
  PROVE  LET t == Say(s, id, field, v) IN
         /\ t \in AceStates /\ t.queue = s.queue /\ Alike(s, t, id)
         /\ t.ctn[id].state = s.ctn[id].state /\ t.ctn[id].lastConfig = s.ctn[id].lastConfig
         /\ t.ctn[id].seen = s.ctn[id].seen
         /\ t.ctn[id].told[field] = v
         /\ \A f \in Fields \ {field} : t.ctn[id].told[f] = s.ctn[id].told[f]
<1> DEFINE c == s.ctn[id]
           told == [c.told EXCEPT ![field] = v]
           d == [c EXCEPT !.told = told]
           t == [s EXCEPT !.ctn = [s.ctn EXCEPT ![id] = d]]
<1>1. c \in ContainerStates /\ c.told \in [Fields -> Words]
  BY DEF AceStates, ContainerStates, Knowledge
<1>2. told \in [Fields -> Words] /\ told[field] = v /\ \A f \in Fields \ {field} : told[f] = c.told[f]
  BY <1>1
<1> HIDE DEF told
<1>3. d \in ContainerStates
  BY <1>1, <1>2 DEF ContainerStates, Knowledge
<1>4. d.pipe = c.pipe /\ d.view = c.view /\ d.front = c.front /\ d.state = c.state
      /\ d.lastConfig = c.lastConfig /\ d.seen = c.seen /\ d.told = told
  BY <1>1 DEF ContainerStates
<1>5. Say(s, id, field, v) = t
  BY DEF Say, told
<1> HIDE DEF d
<1>6. t \in AceStates
  BY <1>3 DEF AceStates
<1>7. t.ctn = [s.ctn EXCEPT ![id] = d] /\ t.queue = s.queue /\ SameTables(s, t)
  BY DEF AceStates, SameTables
<1>8. s.ctn \in [Ids -> ContainerStates]
  BY DEF AceStates
<1> HIDE DEF t
<1>9. t.ctn[id] = d /\ \A i \in Ids \ {id} : t.ctn[i] = s.ctn[i]
  BY <1>7, <1>8
<1> QED BY <1>2, <1>4, <1>5, <1>6, <1>7, <1>9 DEF Alike

\* The pipeline knows what it learnt, if it is there, and all else is as it was.
LEMMA LearnIs ==
  ASSUME NEW s \in AceStates, NEW id \in Ids, NEW field \in Fields, NEW v \in Words,
         s.ctn[id].pipe # "dead"
  PROVE  LET t == Learn(s, id, field, v) IN
         /\ t \in AceStates /\ t.queue = s.queue /\ Alike(s, t, id)
         /\ t.ctn[id].state = s.ctn[id].state /\ t.ctn[id].lastConfig = s.ctn[id].lastConfig
         /\ t.ctn[id].told = s.ctn[id].told
         /\ t.ctn[id].seen[field] = v
         /\ \A f \in Fields \ {field} : t.ctn[id].seen[f] = s.ctn[id].seen[f]
<1> DEFINE c == s.ctn[id]
           seen == [c.seen EXCEPT ![field] = v]
           d == [c EXCEPT !.seen = seen]
           r == [s EXCEPT !.late = s.late \/ c.pipe = "dead"]
           t == [r EXCEPT !.ctn = [r.ctn EXCEPT ![id] = d]]
<1>1. c \in ContainerStates /\ c.seen \in [Fields -> Words]
  BY DEF AceStates, ContainerStates, Knowledge
<1>2. seen \in [Fields -> Words] /\ seen[field] = v /\ \A f \in Fields \ {field} : seen[f] = c.seen[f]
  BY <1>1
<1>3. r \in AceStates /\ r.ctn = s.ctn /\ r.queue = s.queue /\ SameTables(s, r)
  BY DEF AceStates, SameTables
<1>4. Learn(s, id, field, v) = t
  BY <1>3 DEF Learn, Call
<1> HIDE DEF seen, r
<1>5. d \in ContainerStates
  BY <1>1, <1>2 DEF ContainerStates, Knowledge
<1>6. d.pipe = c.pipe /\ d.view = c.view /\ d.front = c.front /\ d.state = c.state
      /\ d.lastConfig = c.lastConfig /\ d.told = c.told /\ d.seen = seen
  BY <1>1 DEF ContainerStates
<1> HIDE DEF d
<1>7. t \in AceStates
  BY <1>3, <1>5 DEF AceStates
<1>8. t.ctn = [s.ctn EXCEPT ![id] = d] /\ t.queue = s.queue /\ SameTables(s, t)
  BY <1>3 DEF AceStates, SameTables
<1>9. s.ctn \in [Ids -> ContainerStates]
  BY DEF AceStates
<1> HIDE DEF t
<1>10. t.ctn[id] = d /\ \A i \in Ids \ {id} : t.ctn[i] = s.ctn[i]
  BY <1>8, <1>9
<1> QED BY <1>2, <1>4, <1>6, <1>7, <1>8, <1>10 DEF Alike

\* A call that finds the pipeline, or the frontend, alive leaves all as it was.
LEMMA CallIs ==
  ASSUME NEW s \in AceStates, NEW id \in Ids, s.ctn[id].pipe # "dead"
  PROVE  Call(s, id) = s
<1>1. s.late = (s.late \/ s.ctn[id].pipe = "dead")
  BY DEF AceStates
<1>2. Call(s, id) = [s EXCEPT !.late = s.late]
  BY <1>1 DEF Call
<1> QED BY <1>2 DEF AceStates

LEMMA CallFrontendIs ==
  ASSUME NEW s \in AceStates, NEW id \in Ids, NEW f, id \in Contents => f \notin s.ended
  PROVE  CallFrontend(s, id, f) = s
<1>1. s.late = (s.late \/ (id \in Contents /\ f \in s.ended))
  BY DEF AceStates
<1>2. CallFrontend(s, id, f) = [s EXCEPT !.late = s.late]
  BY <1>1 DEF CallFrontend
<1> QED BY <1>2 DEF AceStates

\* The state and the configuration that a container keeps.
LEMMA StateIs ==
  ASSUME NEW s \in AceStates, NEW id \in Ids, NEW v \in {"show", "hide"},
         NEW t, t = [s EXCEPT !.ctn[id].state = v]
  PROVE  /\ t \in AceStates /\ t.queue = s.queue /\ Alike(s, t, id)
         /\ t.ctn[id].state = v /\ t.ctn[id].lastConfig = s.ctn[id].lastConfig
         /\ t.ctn[id].told = s.ctn[id].told /\ t.ctn[id].seen = s.ctn[id].seen
<1> DEFINE c == s.ctn[id]
           d == [c EXCEPT !.state = v]
           r == [s EXCEPT !.ctn = [s.ctn EXCEPT ![id] = d]]
<1>1. c \in ContainerStates /\ s.ctn \in [Ids -> ContainerStates]
  BY DEF AceStates
<1>2. d \in ContainerStates
      /\ d.pipe = c.pipe /\ d.view = c.view /\ d.front = c.front /\ d.state = v
      /\ d.lastConfig = c.lastConfig /\ d.told = c.told /\ d.seen = c.seen
  BY <1>1 DEF ContainerStates
<1> HIDE DEF d
<1>3. r \in AceStates /\ r.ctn = [s.ctn EXCEPT ![id] = d] /\ r.queue = s.queue /\ SameTables(s, r)
  BY <1>2 DEF AceStates, SameTables
<1>4. t = r
  BY DEF d
<1> HIDE DEF r
<1>5. t.ctn[id] = d /\ \A i \in Ids \ {id} : t.ctn[i] = s.ctn[i]
  BY <1>1, <1>3, <1>4
<1> QED BY <1>2, <1>3, <1>4, <1>5 DEF Alike

Remember(s, id, v) == [s EXCEPT !.ctn[id].lastConfig = v]

LEMMA LastConfigIs ==
  ASSUME NEW s \in AceStates, NEW id \in Ids, NEW v \in Configs,
         NEW t, t = Remember(s, id, v)
  PROVE  /\ t \in AceStates /\ t.queue = s.queue /\ Alike(s, t, id)
         /\ t.ctn[id].lastConfig = v /\ t.ctn[id].state = s.ctn[id].state
         /\ t.ctn[id].told = s.ctn[id].told /\ t.ctn[id].seen = s.ctn[id].seen
<1> DEFINE c == s.ctn[id]
           d == [c EXCEPT !.lastConfig = v]
           r == [s EXCEPT !.ctn = [s.ctn EXCEPT ![id] = d]]
<1>1. c \in ContainerStates /\ s.ctn \in [Ids -> ContainerStates]
  BY DEF AceStates
<1>2. d \in ContainerStates
      /\ d.pipe = c.pipe /\ d.view = c.view /\ d.front = c.front /\ d.lastConfig = v
      /\ d.state = c.state /\ d.told = c.told /\ d.seen = c.seen
  BY <1>1 DEF ContainerStates
<1> HIDE DEF d
<1>3. r \in AceStates /\ r.ctn = [s.ctn EXCEPT ![id] = d] /\ r.queue = s.queue /\ SameTables(s, r)
  BY <1>2 DEF AceStates, SameTables
<1>4. t = r
  BY DEF d, Remember
<1> HIDE DEF r
<1>5. t.ctn[id] = d /\ \A i \in Ids \ {id} : t.ctn[i] = s.ctn[i]
  BY <1>1, <1>3, <1>4
<1> QED BY <1>2, <1>3, <1>4, <1>5 DEF Alike

-----------------------------------------------------------------------------
\* The part of the invariant that a task with a word does not touch.
Held(s) ==
  s \in AceStates /\ ~s.late /\ Named(s) /\ PipelineEnds(s) /\ FrontendEnds(s) /\ FinishComes(s)

Good(s) ==
  Held(s) /\ \A id \in Living(s) : Arrives(s, id) /\ (id \in Subs => SubArea(s, id))

OfArea(s, area) == \A id \in Living(s) \cap Contents : ContentArea(s, id, area)

Loose == {"state", "focus", "config", "viewport", "size", "keyboard", "event"}

SameQueue(s, t, id) ==
  t.queue = s.queue \/ \E op \in Loose, v \in Words : t.queue = Append(s.queue, [op |-> op, id |-> id, v |-> v])

\* A task with a word, of a container that is there, changes nothing about ends and names.
LEMMA HeldKept ==
  ASSUME NEW s \in AceStates, NEW t \in AceStates, NEW id \in Ids, s.ctn[id].pipe # "none",
         Held(s), Alike(s, t, id), SameQueue(s, t, id)
  PROVE  Held(t) /\ Living(t) = Living(s)
<1>1. /\ \A i2, o2 : o2 \notin Loose => (Queued(t, i2, o2) <=> Queued(s, i2, o2))
      /\ \A i2, o2, end : o2 \notin Loose => (Before(s, i2, o2, end) => Before(t, i2, o2, end))
      /\ \A i \in DOMAIN t.queue :
           \/ i \in DOMAIN s.queue /\ t.queue[i] = s.queue[i]
           \/ t.queue[i].id = id /\ t.queue[i].op \in Loose
  <2>1. CASE t.queue = s.queue
    BY <2>1 DEF Queued, Before, Is
  <2>2. ASSUME NEW op \in Loose, NEW v \in Words, t.queue = Append(s.queue, [op |-> op, id |-> id, v |-> v])
        PROVE  <1>1
    <3>1. \A i2, o2 : Queued(t, i2, o2) <=> Queued(s, i2, o2) \/ (i2 = id /\ o2 = op)
      BY <2>2, Posted
    <3>2. \A i2, o2, end : Before(s, i2, o2, end) /\ (i2 = id /\ o2 = op => ~Queued(s, id, end) /\ op # end)
                             => Before(t, i2, o2, end)
      BY <2>2, Posted
    <3>3. \A i \in DOMAIN t.queue :
              \/ i \in DOMAIN s.queue /\ t.queue[i] = s.queue[i]
              \/ t.queue[i] = [op |-> op, id |-> id, v |-> v]
      BY <2>2, Posted
    <3> QED BY <2>2, <3>1, <3>2, <3>3
  <2> QED BY <2>1, <2>2 DEF SameQueue
<1>2. \A i \in Ids : t.ctn[i].pipe = s.ctn[i].pipe /\ t.ctn[i].view = s.ctn[i].view
                     /\ t.ctn[i].front = s.ctn[i].front
  BY DEF Alike
<1>3. Living(t) = Living(s)
  BY <1>2 DEF Living, GetPipelineContext
<1>4. SameTables(s, t)
  BY DEF Alike
<1>5. Named(t)
  BY <1>1, <1>2, <1>3, <1>4 DEF Held, Named, SameTables, Loose
<1>6. PipelineEnds(t)
  <2> SUFFICES ASSUME NEW i \in Ids
               PROVE  /\ t.ctn[i].pipe = "none" => \A k \in DOMAIN t.queue : t.queue[k].id # i
                      /\ \A op \in {"start", "area"} :
                           /\ Queued(t, i, op) => t.ctn[i].pipe \in {"live", "leaving"}
                           /\ Before(t, i, op, "endPipeline")
                      /\ Queued(t, i, "endPipeline") => t.ctn[i].pipe = "leaving"
                      /\ \A k, l \in DOMAIN t.queue :
                           Is(t, k, i, "endPipeline") /\ Is(t, l, i, "endPipeline") => k = l
    BY DEF PipelineEnds
  <2>1. t.ctn[i].pipe = "none" => \A k \in DOMAIN t.queue : t.queue[k].id # i
    BY <1>1, <1>2 DEF Held, PipelineEnds
  <2>2. \A op \in {"start", "area"} :
           /\ Queued(t, i, op) => t.ctn[i].pipe \in {"live", "leaving"}
           /\ Before(t, i, op, "endPipeline")
    BY <1>1, <1>2 DEF Held, PipelineEnds, Loose
  <2>3. Queued(t, i, "endPipeline") => t.ctn[i].pipe = "leaving"
    BY <1>1, <1>2 DEF Held, PipelineEnds, Loose
  <2>4. \A k, l \in DOMAIN t.queue :
                           Is(t, k, i, "endPipeline") /\ Is(t, l, i, "endPipeline") => k = l
    BY <1>1 DEF Held, PipelineEnds, Loose, Is
  <2> QED BY <2>1, <2>2, <2>3, <2>4
<1>7. FrontendEnds(t)
  <2>1. \A i \in Ids : t.ctn[i].pipe = "none" => t.ctn[i].front = None /\ i \notin t.ended
    BY <1>2, <1>4 DEF Held, FrontendEnds, SameTables
  <2>2. \A i \in Subs : ~Queued(t, i, "endFrontend")
    BY <1>1 DEF Held, FrontendEnds, Loose
  <2> SUFFICES ASSUME NEW i \in Contents
               PROVE  /\ t.ctn[i].front # None => t.ctn[i].front = i /\ i \notin t.ended
                      /\ Queued(t, i, "endFrontend") => t.ctn[i].front = None
                      /\ \A op \in {"start", "collect"} :
                           (Queued(t, i, op) => i \notin t.ended) /\ Before(t, i, op, "endFrontend")
                      /\ \A k \in DOMAIN t.queue : Is(t, k, i, "collect") => t.queue[k].v = i
    BY <2>1, <2>2 DEF FrontendEnds
  <2>3. i \in Ids
    BY DEF Ids
  <2>4. /\ t.ctn[i].front # None => t.ctn[i].front = i /\ i \notin t.ended
        /\ Queued(t, i, "endFrontend") => t.ctn[i].front = None
    BY <1>1, <1>2, <1>4, <2>3 DEF Held, FrontendEnds, Loose, SameTables
  <2>5. \A op \in {"start", "collect"} :
           (Queued(t, i, op) => i \notin t.ended) /\ Before(t, i, op, "endFrontend")
    BY <1>1, <1>4 DEF Held, FrontendEnds, Loose, SameTables
  <2>6. \A k \in DOMAIN t.queue : Is(t, k, i, "collect") => t.queue[k].v = i
    BY <1>1 DEF Held, FrontendEnds, Loose, Is
  <2> QED BY <2>4, <2>5, <2>6
<1>8. FinishComes(t)
  BY <1>1, <1>4 DEF Held, FinishComes, SameTables, Loose
<1> QED BY <1>3, <1>4, <1>5, <1>6, <1>7, <1>8 DEF Held, SameTables

-----------------------------------------------------------------------------
\* What is there to be called: a container that the engine knows, its view, its pipeline.
LEMMA Lives ==
  ASSUME NEW s, Held(s), NEW id \in Living(s)
  PROVE  /\ id \in Ids /\ s.ctn[id].pipe = "live" /\ GetPipelineContext(s, id)
         /\ GetContainer(s, id) /\ s.ctn[id].view /\ Upgrade(s, id)
<1>1. id \in Ids /\ s.ctn[id].pipe = "live"
  BY DEF Living, GetPipelineContext
<1>2. GetContainer(s, id) /\ s.ctn[id].view
  BY <1>1 DEF Held, Named, GetContainer
<1>3. Upgrade(s, id)
  BY <1>1 DEF Upgrade
<1> QED BY <1>1, <1>2, <1>3 DEF GetPipelineContext

LEMMA AlikeOfQueue ==
  ASSUME NEW s, NEW t, NEW id, SameButQueue(s, t)
  PROVE  Alike(s, t, id)
BY DEF SameButQueue, Alike, SameTables

LEMMA AlikeTwice ==
  ASSUME NEW s, NEW t, NEW u, NEW id, Alike(s, t, id), Alike(t, u, id)
  PROVE  Alike(s, u, id)
BY DEF Alike, SameTables

\* What the other containers know and will be told is as it was.
LEMMA OthersKept ==
  ASSUME NEW s \in AceStates, NEW t \in AceStates, NEW id \in Ids, NEW i \in Ids \ {id},
         Alike(s, t, id), SameQueue(s, t, id)
  PROVE  /\ Arrives(s, i) => Arrives(t, i)
         /\ SubArea(s, i) => SubArea(t, i)
         /\ \A area : ContentArea(s, i, area) => ContentArea(t, i, area)
<1>1. \A o, w : (Queued(t, i, o) <=> Queued(s, i, o)) /\ (LastSays(t, i, o, w) <=> LastSays(s, i, o, w))
  <2>1. CASE t.queue = s.queue
    BY <2>1 DEF Queued, LastSays, Is
  <2>2. ASSUME NEW op \in Loose, NEW v \in Words, t.queue = Append(s.queue, [op |-> op, id |-> id, v |-> v])
        PROVE  <1>1
    <3>1. \A o : Queued(t, i, o) <=> Queued(s, i, o) \/ (i = id /\ o = op)
      BY <2>2, Posted
    <3>2. \A o, w : ~(i = id /\ o = op) => (LastSays(s, i, o, w) <=> LastSays(t, i, o, w))
      BY <2>2, Posted
    <3> QED BY <3>1, <3>2
  <2> QED BY <2>1, <2>2 DEF SameQueue
<1>2. t.ctn[i] = s.ctn[i]
  BY DEF Alike
<1>3. Arrives(s, i) => Arrives(t, i)
  BY <1>1, <1>2 DEF Arrives, Reaches
<1>4. SubArea(s, i) => SubArea(t, i)
  BY <1>1, <1>2 DEF SubArea
<1>5. \A area : ContentArea(s, i, area) => ContentArea(t, i, area)
  BY <1>1, <1>2 DEF ContentArea, Reaches
<1> QED BY <1>3, <1>4, <1>5

\* So it is enough to look at the container that is told.
LEMMA GoodKept ==
  ASSUME NEW s \in AceStates, NEW t \in AceStates, NEW id \in Living(s), Good(s),
         Alike(s, t, id), SameQueue(s, t, id), Arrives(t, id), id \in Subs => SubArea(t, id)
  PROVE  /\ Good(t) /\ Living(t) = Living(s)
         /\ \A area : OfArea(s, area) /\ (id \in Contents => ContentArea(t, id, area)) => OfArea(t, area)
<1>1. id \in Ids /\ s.ctn[id].pipe # "none"
  BY Lives DEF Good
<1>2. Held(t) /\ Living(t) = Living(s)
  BY <1>1, HeldKept DEF Good
<1>3. \A i \in Living(s) : i \in Ids
  BY DEF Living
<1>4. \A i \in Living(t) : Arrives(t, i) /\ (i \in Subs => SubArea(t, i))
  BY <1>1, <1>2, <1>3, OthersKept DEF Good
<1>5. \A area : OfArea(s, area) /\ (id \in Contents => ContentArea(t, id, area)) => OfArea(t, area)
  BY <1>1, <1>2, <1>3, OthersKept DEF OfArea
<1> QED BY <1>2, <1>4, <1>5 DEF Good

\* Good(t), with the same containers, and the area of the content as it was.
Kept(s, t) == Good(t) /\ Living(t) = Living(s) /\ \A area : OfArea(s, area) => OfArea(t, area)

LEMMA KeptTwice ==
  ASSUME NEW s, NEW t, NEW u, Kept(s, t), Kept(t, u)
  PROVE  Kept(s, u)
BY DEF Kept

LEMMA KeptSame ==
  ASSUME NEW s, Good(s)
  PROVE  Kept(s, s)
BY DEF Kept

\* A method that does not touch the area of its container keeps it.
LEMMA AreaKept ==
  ASSUME NEW s \in AceStates, NEW t \in AceStates, NEW id \in Living(s), Good(s),
         Alike(s, t, id), SameQueue(s, t, id), Arrives(t, id),
         s.ctn[id].seen["area"] = t.ctn[id].seen["area"], s.ctn[id].told["area"] = t.ctn[id].told["area"]
  PROVE  Kept(s, t)
<1>1. \A w : (Queued(t, id, "area") <=> Queued(s, id, "area"))
             /\ (LastSays(t, id, "area", w) <=> LastSays(s, id, "area", w))
  <2>1. CASE t.queue = s.queue
    BY <2>1 DEF Queued, LastSays, Is
  <2>2. ASSUME NEW op \in Loose, NEW v \in Words, t.queue = Append(s.queue, [op |-> op, id |-> id, v |-> v])
        PROVE  <1>1
    <3>1. "area" # op
      BY <2>2 DEF Loose
    <3>2. Queued(t, id, "area") <=> Queued(s, id, "area") \/ (id = id /\ "area" = op)
      BY <2>2, Posted
    <3>3. \A w : ~(id = id /\ "area" = op) => (LastSays(s, id, "area", w) <=> LastSays(t, id, "area", w))
      BY <2>2, Posted
    <3> QED BY <3>1, <3>2, <3>3
  <2> QED BY <2>1, <2>2 DEF SameQueue
<1>2. id \in Subs => SubArea(t, id)
  BY <1>1 DEF Good, SubArea
<1>3. \A area : ContentArea(s, id, area) => ContentArea(t, id, area)
  BY <1>1 DEF ContentArea, Reaches
<1>4. /\ Good(t) /\ Living(t) = Living(s)
      /\ \A area : OfArea(s, area) /\ (id \in Contents => ContentArea(t, id, area)) => OfArea(t, area)
  BY <1>2, GoodKept
<1> QED BY <1>3, <1>4 DEF Kept, OfArea

\* A task that carries no word the container was told.
LEMMA PostKeeps ==
  ASSUME NEW s \in AceStates, NEW id \in Living(s), Good(s), NEW op \in {"keyboard", "event"}, NEW v \in Words
  PROVE  Kept(s, PostTask(s, op, id, v))
<1> DEFINE t == PostTask(s, op, id, v)
<1>1. id \in Ids
  BY DEF Living
<1>2. op \in OpsOfTasks /\ op \in Loose
  BY DEF OpsOfTasks, Loose
<1>3. t \in AceStates /\ SameButQueue(s, t) /\ t.queue = Append(s.queue, [op |-> op, id |-> id, v |-> v])
  BY <1>1, <1>2, PostIs
<1> HIDE DEF t
<1>4. Alike(s, t, id) /\ t.ctn = s.ctn
  BY <1>3, AlikeOfQueue DEF SameButQueue
<1>5. SameQueue(s, t, id)
  BY <1>2, <1>3 DEF SameQueue
<1>6. \A o, w : o # op => /\ Queued(t, id, o) <=> Queued(s, id, o)
                          /\ LastSays(t, id, o, w) <=> LastSays(s, id, o, w)
  <2>1. \A o : Queued(t, id, o) <=> Queued(s, id, o) \/ (id = id /\ o = op)
    BY <1>3, Posted
  <2>2. \A o, w : ~(id = id /\ o = op) => (LastSays(s, id, o, w) <=> LastSays(t, id, o, w))
    BY <1>3, Posted
  <2> QED BY <2>1, <2>2
<1>7. Arrives(s, id)
  BY DEF Good
<1>8. Arrives(t, id)
  BY <1>4, <1>6, <1>7 DEF Arrives, Reaches
<1> QED BY <1>4, <1>3, <1>5, <1>8, AreaKept DEF t

\* OnShow and Foreground, or OnHide and Background.
LEMMA ShownIs ==
  ASSUME NEW s \in AceStates, NEW id \in Living(s), Good(s), NEW v \in {"show", "hide"}, NEW u,
         NEW r, r = [s EXCEPT !.ctn[id].state = v],
         \/ s.ctn[id].state # v /\ u = PostTask(r, "state", id, v)
         \/ s.ctn[id].state = v /\ u = s
  PROVE  Kept(s, Say(u, id, "shown", v))
<1> DEFINE t == Say(u, id, "shown", v)
<1>1. id \in Ids /\ v \in Words /\ "shown" \in Fields
  BY DEF Living, Words, Fields
<1>2. Arrives(s, id)
  BY DEF Good
<1>3. CASE s.ctn[id].state # v
  <2>1. r \in AceStates /\ r.queue = s.queue /\ Alike(s, r, id)
        /\ r.ctn[id].state = v /\ r.ctn[id].lastConfig = s.ctn[id].lastConfig
        /\ r.ctn[id].told = s.ctn[id].told /\ r.ctn[id].seen = s.ctn[id].seen
    BY <1>1, StateIs
  <2>2. u = PostTask(r, "state", id, v)
    BY <1>3
  <2>3. u \in AceStates /\ SameButQueue(r, u) /\ u.queue = Append(r.queue, [op |-> "state", id |-> id, v |-> v])
    BY <1>1, <2>1, <2>2, PostIs DEF OpsOfTasks
  <2>4. Alike(r, u, id) /\ u.ctn = r.ctn
    BY <2>3, AlikeOfQueue DEF SameButQueue
  <2>5. /\ t \in AceStates /\ t.queue = u.queue /\ Alike(u, t, id)
        /\ t.ctn[id].state = u.ctn[id].state /\ t.ctn[id].lastConfig = u.ctn[id].lastConfig
        /\ t.ctn[id].seen = u.ctn[id].seen
        /\ t.ctn[id].told["shown"] = v
        /\ \A f \in Fields \ {"shown"} : t.ctn[id].told[f] = u.ctn[id].told[f]
    BY <1>1, <2>3, SayIs
  <2> HIDE DEF t
  <2>6. Alike(s, t, id)
    BY <2>1, <2>4, <2>5, AlikeTwice
  <2>7. t.queue = Append(s.queue, [op |-> "state", id |-> id, v |-> v])
    BY <2>1, <2>3, <2>5
  <2>8. SameQueue(s, t, id)
    BY <1>1, <2>7 DEF SameQueue, Loose
  <2>9. LastSays(t, id, "state", v)
    BY <2>5, <2>7, Posted
  <2>10. \A o, w : o # "state" => /\ Queued(t, id, o) <=> Queued(s, id, o)
                                  /\ LastSays(t, id, o, w) <=> LastSays(s, id, o, w)
    <3>1. \A o : Queued(t, id, o) <=> Queued(s, id, o) \/ (id = id /\ o = "state")
      BY <2>5, <2>7, Posted
    <3>2. \A o, w : ~(id = id /\ o = "state") => (LastSays(s, id, o, w) <=> LastSays(t, id, o, w))
      BY <2>5, <2>7, Posted
    <3> QED BY <3>1, <3>2
  <2>11. /\ t.ctn[id].state = v /\ t.ctn[id].lastConfig = s.ctn[id].lastConfig
         /\ t.ctn[id].seen = s.ctn[id].seen /\ t.ctn[id].told["shown"] = v
         /\ \A f \in {"focused", "size", "area", "config"} : t.ctn[id].told[f] = s.ctn[id].told[f]
    BY <2>1, <2>4, <2>5 DEF Fields
  <2>12. Arrives(t, id)
    BY <1>2, <2>9, <2>10, <2>11 DEF Arrives, Reaches
  <2> QED BY <2>5, <2>6, <2>8, <2>11, <2>12, AreaKept DEF t
<1>4. CASE s.ctn[id].state = v
  <2>1. /\ t \in AceStates /\ t.queue = s.queue /\ Alike(s, t, id)
        /\ t.ctn[id].state = s.ctn[id].state /\ t.ctn[id].lastConfig = s.ctn[id].lastConfig
        /\ t.ctn[id].seen = s.ctn[id].seen
        /\ t.ctn[id].told["shown"] = v
        /\ \A f \in Fields \ {"shown"} : t.ctn[id].told[f] = s.ctn[id].told[f]
    BY <1>1, <1>4, SayIs
  <2> HIDE DEF t
  <2>2. \A f \in {"shown", "focused", "size", "area", "config"} : t.ctn[id].told[f] = s.ctn[id].told[f]
    BY <1>2, <1>4, <2>1 DEF Arrives, Fields
  <2>3. \A o, w : (Queued(t, id, o) <=> Queued(s, id, o)) /\ (LastSays(t, id, o, w) <=> LastSays(s, id, o, w))
    BY <2>1 DEF Queued, LastSays, Is
  <2>4. Arrives(t, id)
    BY <1>2, <2>1, <2>2, <2>3 DEF Arrives, Reaches
  <2> QED BY <2>1, <2>2, <2>4, AreaKept DEF t, SameQueue
<1> QED BY <1>3, <1>4

LEMMA ForegroundKeeps ==
  ASSUME NEW s \in AceStates, NEW id \in Living(s), Good(s)
  PROVE  Kept(s, Foreground(s, id)) /\ Kept(s, Background(s, id))
<1>1. GetContainer(s, id)
  BY Lives DEF Good
<1>2. \/ s.ctn[id].state # "show" /\ OnShow(s, id) = PostTask([s EXCEPT !.ctn[id].state = "show"], "state", id, "show")
      \/ s.ctn[id].state = "show" /\ OnShow(s, id) = s
  BY <1>1, Zenon DEF OnShow
<1>3. \/ s.ctn[id].state # "hide" /\ OnHide(s, id) = PostTask([s EXCEPT !.ctn[id].state = "hide"], "state", id, "hide")
      \/ s.ctn[id].state = "hide" /\ OnHide(s, id) = s
  BY <1>1, Zenon DEF OnHide
<1>4. Kept(s, Say(OnShow(s, id), id, "shown", "show"))
  BY <1>2, ShownIs
<1>5. Kept(s, Say(OnHide(s, id), id, "shown", "hide"))
  BY <1>3, ShownIs
<1> QED BY <1>4, <1>5 DEF Foreground, Background

LEMMA FocusKeeps ==
  ASSUME NEW s \in AceStates, NEW id \in Living(s), Good(s)
  PROVE  Kept(s, Focus(s, id)) /\ Kept(s, UnFocus(s, id))
<1>1. GetContainer(s, id)
  BY Lives DEF Good
<1>2. ASSUME NEW v \in {"active", "inactive"}
      PROVE  Kept(s, Say(PostTask(s, "focus", id, v), id, "focused", v))
  <2> DEFINE u == PostTask(s, "focus", id, v)
             t == Say(u, id, "focused", v)
  <2>1. id \in Ids /\ v \in Words /\ "focused" \in Fields /\ "focus" \in OpsOfTasks /\ "focus" \in Loose
    BY DEF Living, Words, Fields, OpsOfTasks, Loose
  <2>2. Arrives(s, id)
    BY DEF Good
  <2>3. u \in AceStates /\ SameButQueue(s, u) /\ u.queue = Append(s.queue, [op |-> "focus", id |-> id, v |-> v])
    BY <2>1, PostIs
  <2> HIDE DEF u
  <2>4. Alike(s, u, id) /\ u.ctn = s.ctn
    BY <2>3, AlikeOfQueue DEF SameButQueue
  <2>5. /\ t \in AceStates /\ t.queue = u.queue /\ Alike(u, t, id)
        /\ t.ctn[id].state = u.ctn[id].state /\ t.ctn[id].lastConfig = u.ctn[id].lastConfig
        /\ t.ctn[id].seen = u.ctn[id].seen
        /\ t.ctn[id].told["focused"] = v
        /\ \A f \in Fields \ {"focused"} : t.ctn[id].told[f] = u.ctn[id].told[f]
    BY <2>1, <2>3, SayIs
  <2> HIDE DEF t
  <2>6. Alike(s, t, id)
    BY <2>4, <2>5, AlikeTwice
  <2>7. t.queue = Append(s.queue, [op |-> "focus", id |-> id, v |-> v])
    BY <2>3, <2>5
  <2>8. SameQueue(s, t, id)
    BY <2>1, <2>7 DEF SameQueue
  <2>9. LastSays(t, id, "focus", v)
    BY <2>5, <2>7, Posted
  <2>10. \A o, w : o # "focus" => /\ Queued(t, id, o) <=> Queued(s, id, o)
                                  /\ LastSays(t, id, o, w) <=> LastSays(s, id, o, w)
    <3>1. \A o : Queued(t, id, o) <=> Queued(s, id, o) \/ (id = id /\ o = "focus")
      BY <2>5, <2>7, Posted
    <3>2. \A o, w : ~(id = id /\ o = "focus") => (LastSays(s, id, o, w) <=> LastSays(t, id, o, w))
      BY <2>5, <2>7, Posted
    <3> QED BY <3>1, <3>2
  <2>11. /\ t.ctn[id].state = s.ctn[id].state /\ t.ctn[id].lastConfig = s.ctn[id].lastConfig
         /\ t.ctn[id].seen = s.ctn[id].seen /\ t.ctn[id].told["focused"] = v
         /\ \A f \in {"shown", "size", "area", "config"} : t.ctn[id].told[f] = s.ctn[id].told[f]
    BY <2>4, <2>5 DEF Fields
  <2>12. Arrives(t, id)
    BY <2>2, <2>9, <2>10, <2>11 DEF Arrives, Reaches
  <2>13. Kept(s, t)
    BY <2>5, <2>6, <2>8, <2>11, <2>12, AreaKept
  <2> QED BY <2>13 DEF t, u
<1> QED BY <1>1, <1>2 DEF Focus, UnFocus, OnActive, OnInactive

\* What comes by weak references, or is a call at once, keeps all.
LEMMA ThroughKeeps ==
  ASSUME NEW s \in AceStates, NEW id \in Living(s), Good(s)
  PROVE  /\ Kept(s, ThroughView(s, id)) /\ Kept(s, NotifySurfaceDestroyed(s, id))
         /\ Call(s, id) = s /\ ToFrontend(s, id) = s
         /\ AtOnce(s, id) = s /\ SetBackgroundColor(s, id) = s /\ SetIgnoreViewSafeArea(s, id) = s
<1>1. /\ id \in Ids /\ s.ctn[id].pipe = "live" /\ GetPipelineContext(s, id)
      /\ GetContainer(s, id) /\ s.ctn[id].view /\ Upgrade(s, id)
  BY Lives DEF Good
<1>2. Call(s, id) = s
  BY <1>1, CallIs
<1>3. Kept(s, PostTask(s, "event", id, None))
  BY PostKeeps DEF Words
<1>4. ThroughView(s, id) = PostTask(s, "event", id, None)
  BY <1>1, Zenon DEF ThroughView
<1>5. NotifySurfaceDestroyed(s, id) = ThroughView(s, id)
  BY <1>1, Zenon DEF NotifySurfaceDestroyed
<1>6. id \in Contents /\ s.ctn[id].front # None => s.ctn[id].front = id /\ id \notin s.ended
  BY DEF Good, Held, FrontendEnds
<1>7. s.ctn[id].front # None => CallFrontend(s, id, s.ctn[id].front) = s
  BY <1>1, <1>6, CallFrontendIs
<1>8. ToFrontend(s, id) = s
  BY <1>7 DEF ToFrontend
<1>9. AtOnce(s, id) = s
  BY <1>2, Zenon DEF AtOnce
<1>10. PostSyncTask(s, id) = s
  BY <1>2, Zenon DEF PostSyncTask
<1>11. SetBackgroundColor(s, id) = s /\ SetIgnoreViewSafeArea(s, id) = s
  BY <1>10, Zenon DEF SetBackgroundColor, SetIgnoreViewSafeArea
<1> QED BY <1>2, <1>3, <1>4, <1>5, <1>8, <1>9, <1>11

-----------------------------------------------------------------------------
\* UpdateViewportConfig: the area is right unless a task with another is queued.
LEMMA ViewportKeeps ==
  ASSUME NEW s \in AceStates, NEW id \in Living(s), Good(s), id \in Contents,
         NEW size \in Sizes \cup {None}, NEW area \in Areas
  PROVE  LET t == UpdateViewportConfig(s, id, size, area) IN
         /\ Good(t) /\ Living(t) = Living(s)
         /\ LastSays(s, id, "area", area) \/ ~Queued(s, id, "area") => ContentArea(t, id, area)
<1> DEFINE s1 == Learn(s, id, "area", area)
           s2 == Say(s1, id, "area", area)
           s3 == Say(s2, id, "size", size)
           t == PostTask(s3, "viewport", id, size)
<1>1. /\ id \in Ids /\ s.ctn[id].pipe = "live" /\ GetPipelineContext(s, id)
      /\ GetContainer(s, id)
  BY Lives DEF Good
<1>2. UpdateViewportConfig(s, id, size, area) = t
  BY <1>1, Zenon DEF UpdateViewportConfig
<1>3. "area" \in Fields /\ "size" \in Fields /\ area \in Words /\ size \in Words
      /\ "viewport" \in OpsOfTasks /\ "viewport" \in Loose
  BY DEF Fields, Words, OpsOfTasks, Loose
<1>4. Arrives(s, id)
  BY DEF Good
<1>5. /\ s1 \in AceStates /\ s1.queue = s.queue /\ Alike(s, s1, id)
      /\ s1.ctn[id].state = s.ctn[id].state /\ s1.ctn[id].lastConfig = s.ctn[id].lastConfig
      /\ s1.ctn[id].told = s.ctn[id].told
      /\ s1.ctn[id].seen["area"] = area
      /\ \A f \in Fields \ {"area"} : s1.ctn[id].seen[f] = s.ctn[id].seen[f]
  BY <1>1, <1>3, LearnIs
<1> HIDE DEF s1
<1>6. /\ s2 \in AceStates /\ s2.queue = s1.queue /\ Alike(s1, s2, id)
      /\ s2.ctn[id].state = s1.ctn[id].state /\ s2.ctn[id].lastConfig = s1.ctn[id].lastConfig
      /\ s2.ctn[id].seen = s1.ctn[id].seen
      /\ s2.ctn[id].told["area"] = area
      /\ \A f \in Fields \ {"area"} : s2.ctn[id].told[f] = s1.ctn[id].told[f]
  BY <1>1, <1>3, <1>5, SayIs
<1> HIDE DEF s2
<1>7. /\ s3 \in AceStates /\ s3.queue = s2.queue /\ Alike(s2, s3, id)
      /\ s3.ctn[id].state = s2.ctn[id].state /\ s3.ctn[id].lastConfig = s2.ctn[id].lastConfig
      /\ s3.ctn[id].seen = s2.ctn[id].seen
      /\ s3.ctn[id].told["size"] = size
      /\ \A f \in Fields \ {"size"} : s3.ctn[id].told[f] = s2.ctn[id].told[f]
  BY <1>1, <1>3, <1>6, SayIs
<1> HIDE DEF s3
<1>8. t \in AceStates /\ SameButQueue(s3, t) /\ t.queue = Append(s3.queue, [op |-> "viewport", id |-> id, v |-> size])
  BY <1>1, <1>3, <1>7, PostIs
<1> HIDE DEF t
<1>9. t.queue = Append(s.queue, [op |-> "viewport", id |-> id, v |-> size])
  BY <1>5, <1>6, <1>7, <1>8
<1>10. Alike(s, t, id) /\ t.ctn = s3.ctn
  <2>1. Alike(s3, t, id) /\ t.ctn = s3.ctn
    BY <1>8, AlikeOfQueue DEF SameButQueue
  <2>2. Alike(s, s2, id)
    BY <1>5, <1>6, AlikeTwice
  <2>3. Alike(s, s3, id)
    BY <1>7, <2>2, AlikeTwice
  <2> QED BY <2>1, <2>3, AlikeTwice
<1>11. SameQueue(s, t, id)
  BY <1>3, <1>9 DEF SameQueue
<1>12. LastSays(t, id, "viewport", size)
  BY <1>8, <1>9, Posted
<1>13. \A o, w : o # "viewport" => /\ Queued(t, id, o) <=> Queued(s, id, o)
                                   /\ LastSays(t, id, o, w) <=> LastSays(s, id, o, w)
  <2>1. \A o : Queued(t, id, o) <=> Queued(s, id, o) \/ (id = id /\ o = "viewport")
    BY <1>8, <1>9, Posted
  <2>2. \A o, w : ~(id = id /\ o = "viewport") => (LastSays(s, id, o, w) <=> LastSays(t, id, o, w))
    BY <1>8, <1>9, Posted
  <2> QED BY <2>1, <2>2
<1>14. /\ t.ctn[id].state = s.ctn[id].state /\ t.ctn[id].lastConfig = s.ctn[id].lastConfig
       /\ t.ctn[id].told["size"] = size /\ t.ctn[id].told["area"] = area /\ t.ctn[id].seen["area"] = area
       /\ \A f \in {"shown", "focused", "config"} : t.ctn[id].told[f] = s.ctn[id].told[f]
       /\ \A f \in {"shown", "focused", "config", "font"} : t.ctn[id].seen[f] = s.ctn[id].seen[f]
  BY <1>5, <1>6, <1>7, <1>10 DEF Fields
<1>15. Arrives(t, id)
  BY <1>4, <1>12, <1>13, <1>14 DEF Arrives, Reaches
<1>16. id \in Subs => SubArea(t, id)
  BY AceAssumption
<1>17. Good(t) /\ Living(t) = Living(s)
  BY <1>8, <1>10, <1>11, <1>15, <1>16, GoodKept
<1>18. LastSays(s, id, "area", area) \/ ~Queued(s, id, "area") => ContentArea(t, id, area)
  BY <1>13, <1>14 DEF ContentArea, Reaches
<1> QED BY <1>2, <1>17, <1>18

LEMMA ConfigurationKeeps ==
  ASSUME NEW s \in AceStates, NEW id \in Living(s), Good(s), NEW config \in Configs
  PROVE  Kept(s, UpdateConfiguration(s, id, config))
<1> DEFINE word == IF config \in Following THEN "system" ELSE "one"
           s1 == Say(s, id, "config", config)
           s2 == Learn(s1, id, "font", word)
<1>1. /\ id \in Ids /\ s.ctn[id].pipe = "live" /\ GetContainer(s, id)
  BY Lives DEF Good
<1>2. "config" \in Fields /\ "font" \in Fields /\ config \in Words /\ word \in Words
      /\ "config" \in OpsOfTasks /\ "config" \in Loose
  BY DEF Fields, Words, OpsOfTasks, Loose
<1>3. config \in Following => word = "system"
  OBVIOUS
<1>4. s2 = SetPipelineContextFont(Say(s, id, "config", config), id, config)
  BY DEF SetPipelineContextFont
<1> HIDE DEF word
<1>5. Arrives(s, id)
  BY DEF Good
<1>6. /\ s1 \in AceStates /\ s1.queue = s.queue /\ Alike(s, s1, id)
      /\ s1.ctn[id].state = s.ctn[id].state /\ s1.ctn[id].lastConfig = s.ctn[id].lastConfig
      /\ s1.ctn[id].seen = s.ctn[id].seen
      /\ s1.ctn[id].told["config"] = config
      /\ \A f \in Fields \ {"config"} : s1.ctn[id].told[f] = s.ctn[id].told[f]
  BY <1>1, <1>2, SayIs
<1> HIDE DEF s1
<1>7. s1.ctn[id].pipe # "dead"
  BY <1>1, <1>6 DEF Alike
<1>8. /\ s2 \in AceStates /\ s2.queue = s1.queue /\ Alike(s1, s2, id)
      /\ s2.ctn[id].state = s1.ctn[id].state /\ s2.ctn[id].lastConfig = s1.ctn[id].lastConfig
      /\ s2.ctn[id].told = s1.ctn[id].told
      /\ s2.ctn[id].seen["font"] = word
      /\ \A f \in Fields \ {"font"} : s2.ctn[id].seen[f] = s1.ctn[id].seen[f]
  BY <1>1, <1>2, <1>6, <1>7, LearnIs
<1> HIDE DEF s2
<1>9. Alike(s, s2, id) /\ s2.queue = s.queue
  BY <1>6, <1>8, AlikeTwice
<1>10. /\ s2.ctn[id].state = s.ctn[id].state /\ s2.ctn[id].lastConfig = s.ctn[id].lastConfig
       /\ s2.ctn[id].told["config"] = config /\ s2.ctn[id].seen["font"] = word
       /\ \A f \in {"shown", "focused", "size", "area"} : s2.ctn[id].told[f] = s.ctn[id].told[f]
       /\ \A f \in {"shown", "focused", "size", "area", "config"} : s2.ctn[id].seen[f] = s.ctn[id].seen[f]
  BY <1>6, <1>8 DEF Fields
<1>11. CASE s.ctn[id].lastConfig = config
  <2>1. UpdateConfiguration(s, id, config) = s2
    BY <1>1, <1>4, <1>11, Zenon DEF UpdateConfiguration
  <2>2. \A f \in {"shown", "focused", "size", "area", "config"} : s2.ctn[id].told[f] = s.ctn[id].told[f]
    BY <1>5, <1>10, <1>11 DEF Arrives
  <2>3. \A o, w : (Queued(s2, id, o) <=> Queued(s, id, o)) /\ (LastSays(s2, id, o, w) <=> LastSays(s, id, o, w))
    BY <1>9 DEF Queued, LastSays, Is
  <2>4. Arrives(s2, id)
    BY <1>3, <1>5, <1>10, <1>11, <2>2, <2>3 DEF Arrives, Reaches
  <2> QED BY <1>8, <1>9, <1>10, <2>1, <2>4, AreaKept DEF SameQueue
<1>12. CASE s.ctn[id].lastConfig # config
  <2> SUFFICES ASSUME NEW r, r = Remember(s2, id, config)
               PROVE  Kept(s, PostTask(r, "config", id, config))
    BY <1>1, <1>4, <1>12, Zenon DEF UpdateConfiguration, Remember
  <2> DEFINE u == PostTask(r, "config", id, config)
  <2>2. /\ r \in AceStates /\ r.queue = s2.queue /\ Alike(s2, r, id)
        /\ r.ctn[id].lastConfig = config /\ r.ctn[id].state = s2.ctn[id].state
        /\ r.ctn[id].told = s2.ctn[id].told /\ r.ctn[id].seen = s2.ctn[id].seen
    BY <1>1, <1>8, LastConfigIs
  <2>3. u \in AceStates /\ SameButQueue(r, u) /\ u.queue = Append(r.queue, [op |-> "config", id |-> id, v |-> config])
    BY <1>1, <1>2, <2>2, PostIs
  <2> HIDE DEF u
  <2>4. Alike(s, u, id) /\ u.ctn = r.ctn /\ u.queue = Append(s.queue, [op |-> "config", id |-> id, v |-> config])
    <3>1. Alike(r, u, id) /\ u.ctn = r.ctn
      BY <2>3, AlikeOfQueue DEF SameButQueue
    <3>2. Alike(s, r, id)
      BY <1>9, <2>2, AlikeTwice
    <3> QED BY <1>9, <2>2, <2>3, <3>1, <3>2, AlikeTwice
  <2>5. SameQueue(s, u, id)
    BY <1>2, <2>4 DEF SameQueue
  <2>6. LastSays(u, id, "config", config)
    BY <2>3, <2>4, Posted
  <2>7. \A o, w : o # "config" => /\ Queued(u, id, o) <=> Queued(s, id, o)
                                  /\ LastSays(u, id, o, w) <=> LastSays(s, id, o, w)
    <3>1. \A o : Queued(u, id, o) <=> Queued(s, id, o) \/ (id = id /\ o = "config")
      BY <2>3, <2>4, Posted
    <3>2. \A o, w : ~(id = id /\ o = "config") => (LastSays(s, id, o, w) <=> LastSays(u, id, o, w))
      BY <2>3, <2>4, Posted
    <3> QED BY <3>1, <3>2
  <2>8. /\ u.ctn[id].state = s.ctn[id].state /\ u.ctn[id].lastConfig = config
        /\ u.ctn[id].told["config"] = config /\ u.ctn[id].seen["font"] = word
        /\ \A f \in {"shown", "focused", "size", "area"} : u.ctn[id].told[f] = s.ctn[id].told[f]
        /\ \A f \in {"shown", "focused", "size", "area"} : u.ctn[id].seen[f] = s.ctn[id].seen[f]
    BY <1>10, <2>2, <2>4
  <2>9. Arrives(u, id)
    BY <1>3, <1>5, <2>6, <2>7, <2>8 DEF Arrives, Reaches
  <2>10. Kept(s, u)
    BY <2>3, <2>4, <2>5, <2>8, <2>9, AreaKept
  <2> QED BY <2>10 DEF u
<1> QED BY <1>11, <1>12

\* The keyboard's listener tells a container that is still known.
LEMMA SizeChangeKeeps ==
  ASSUME NEW s \in AceStates, NEW id \in Ids, Good(s)
  PROVE  Kept(s, OnSizeChange(s, id))
<1>1. CASE ~GetContainer(s, id)
  BY <1>1, KeptSame, Zenon DEF OnSizeChange
<1>2. CASE GetContainer(s, id) /\ id \in Living(s)
  <2>1. Kept(s, PostTask(s, "keyboard", id, None))
    BY <1>2, PostKeeps DEF Words
  <2> QED BY <1>2, <2>1 DEF OnSizeChange
<1>3. CASE GetContainer(s, id) /\ id \notin Living(s)
  <2> DEFINE t == PostTask(s, "keyboard", id, None)
  <2>1. t \in AceStates /\ SameButQueue(s, t) /\ t.queue = Append(s.queue, [op |-> "keyboard", id |-> id, v |-> None])
    BY PostIs DEF OpsOfTasks, Words
  <2>2. OnSizeChange(s, id) = t
    BY <1>3, Zenon DEF OnSizeChange
  <2> HIDE DEF t
  <2>3. Queued(s, id, "remove")
    BY <1>3 DEF Good, Held, Named, GetContainer
  <2>4. s.ctn[id].pipe # "none"
    BY <2>3 DEF Good, Held, PipelineEnds, Queued, Is
  <2>5. Alike(s, t, id)
    BY <2>1, AlikeOfQueue
  <2>6. SameQueue(s, t, id)
    BY <2>1 DEF SameQueue, Loose, Words
  <2>7. Held(t) /\ Living(t) = Living(s)
    BY <2>1, <2>4, <2>5, <2>6, HeldKept DEF Good
  <2>8. \A i \in Living(s) : i \in Ids \ {id}
    BY <1>3 DEF Living
  <2>9. \A i \in Living(t) : Arrives(t, i) /\ (i \in Subs => SubArea(t, i))
    BY <2>1, <2>5, <2>6, <2>7, <2>8, OthersKept DEF Good
  <2>10. \A area : OfArea(s, area) => OfArea(t, area)
    BY <2>1, <2>5, <2>6, <2>7, <2>8, OthersKept DEF OfArea
  <2> QED BY <2>2, <2>7, <2>9, <2>10 DEF Kept, Good
<1> QED BY <1>1, <1>2, <1>3

\* The listener of a content that lives posts the area, and nothing else changes.
LEMMA AreaChangedKeeps ==
  ASSUME NEW s \in AceStates, NEW id \in Contents, Good(s), NEW area \in Areas
  PROVE  LET t == OnAvoidAreaChanged(s, id, area) IN
         /\ Good(t) /\ Living(t) = Living(s)
         /\ id \in Living(s) => LastSays(t, id, "area", area)
         /\ \A i \in Contents \ {id} : \A w : LastSays(s, i, "area", w) => LastSays(t, i, "area", w)
<1>1. CASE id \notin Living(s)
  <2>1. ~GetPipelineContext(s, id)
    BY <1>1 DEF Living, Ids
  <2>2. OnAvoidAreaChanged(s, id, area) = s
    BY <2>1, Zenon DEF OnAvoidAreaChanged
  <2> QED BY <1>1, <2>2
<1>2. CASE id \in Living(s)
  <2> DEFINE t == PostTask(s, "area", id, area)
  <2>1. /\ id \in Ids /\ s.ctn[id].pipe = "live" /\ GetPipelineContext(s, id) /\ GetContainer(s, id)
    BY <1>2, Lives DEF Good
  <2>2. OnAvoidAreaChanged(s, id, area) = t
    BY <2>1, Zenon DEF OnAvoidAreaChanged
  <2>3. t \in AceStates /\ SameButQueue(s, t) /\ t.queue = Append(s.queue, [op |-> "area", id |-> id, v |-> area])
    BY <2>1, PostIs DEF OpsOfTasks, Words
  <2> HIDE DEF t
  <2>4. /\ \A i, o : Queued(t, i, o) <=> Queued(s, i, o) \/ (i = id /\ o = "area")
        /\ \A i, o, end : Before(s, i, o, end) /\ (i = id /\ o = "area" => ~Queued(s, id, end) /\ o # end)
                           => Before(t, i, o, end)
        /\ \A i, o, w : ~(i = id /\ o = "area") => (LastSays(s, i, o, w) <=> LastSays(t, i, o, w))
        /\ LastSays(t, id, "area", area)
        /\ \A i \in DOMAIN t.queue :
              \/ i \in DOMAIN s.queue /\ t.queue[i] = s.queue[i]
              \/ t.queue[i] = [op |-> "area", id |-> id, v |-> area]
    BY <2>3, Posted
  <2>5. \A k \in DOMAIN t.queue : (k \in DOMAIN s.queue /\ t.queue[k] = s.queue[k])
                                  \/ (t.queue[k].id = id /\ t.queue[k].op = "area")
    BY <2>4
  <2>6. SameTables(s, t) /\ t.ctn = s.ctn /\ Living(t) = Living(s)
    BY <2>3 DEF SameButQueue, SameTables, Living, GetPipelineContext
  <2>7. Named(t)
    BY <2>4, <2>6 DEF Good, Held, Named, SameTables
  <2>8. PipelineEnds(t)
    <3>1. ~Queued(s, id, "endPipeline")
      BY <2>1 DEF Good, Held, PipelineEnds
    <3>2. ASSUME NEW i \in Ids
          PROVE  /\ t.ctn[i].pipe = "none" => \A k \in DOMAIN t.queue : t.queue[k].id # i
                 /\ Queued(t, i, "endPipeline") => t.ctn[i].pipe = "leaving"
      BY <2>1, <2>4, <2>5, <2>6 DEF Good, Held, PipelineEnds
    <3>3. ASSUME NEW i \in Ids, NEW op \in {"start", "area"}
          PROVE  (Queued(t, i, op) => t.ctn[i].pipe \in {"live", "leaving"}) /\ Before(t, i, op, "endPipeline")
      BY <2>1, <2>4, <2>6, <3>1 DEF Good, Held, PipelineEnds
    <3>4. ASSUME NEW i \in Ids, NEW k \in DOMAIN t.queue, NEW l \in DOMAIN t.queue,
                 Is(t, k, i, "endPipeline"), Is(t, l, i, "endPipeline")
          PROVE  k = l
      BY <2>5, <3>4 DEF Good, Held, PipelineEnds, Is
    <3> QED BY <3>2, <3>3, <3>4 DEF PipelineEnds
  <2>9. FrontendEnds(t)
    <3>1. /\ \A i \in Ids : t.ctn[i].pipe = "none" => t.ctn[i].front = None /\ i \notin t.ended
          /\ \A i \in Subs : ~Queued(t, i, "endFrontend")
      BY <2>4, <2>6 DEF Good, Held, FrontendEnds, SameTables
    <3>2. ASSUME NEW i \in Contents
          PROVE  /\ t.ctn[i].front # None => t.ctn[i].front = i /\ i \notin t.ended
                 /\ Queued(t, i, "endFrontend") => t.ctn[i].front = None
                 /\ \A op \in {"start", "collect"} :
                      (Queued(t, i, op) => i \notin t.ended) /\ Before(t, i, op, "endFrontend")
      BY <2>4, <2>6 DEF Good, Held, FrontendEnds, SameTables
    <3>3. ASSUME NEW i \in Contents, NEW k \in DOMAIN t.queue, Is(t, k, i, "collect")
          PROVE  t.queue[k].v = i
      BY <2>5, <3>3 DEF Good, Held, FrontendEnds, Is
    <3> QED BY <3>1, <3>2, <3>3 DEF FrontendEnds
  <2>10. FinishComes(t)
    BY <2>4, <2>6 DEF Good, Held, FinishComes, SameTables
  <2>11. Held(t)
    BY <2>3, <2>6, <2>7, <2>8, <2>9, <2>10 DEF Held, Good, SameTables
  <2>12. \A i \in Living(t) : Arrives(t, i) /\ (i \in Subs => SubArea(t, i))
    <3> TAKE i \in Living(t)
    <3>1. i \in Living(s) /\ Arrives(s, i) /\ (i \in Subs => SubArea(s, i))
      BY <2>6 DEF Good
    <3>2. Arrives(t, i)
      BY <2>4, <2>6, <3>1 DEF Arrives, Reaches
    <3>3. i \in Subs => SubArea(t, i)
      BY <2>4, <2>6, <3>1, AceAssumption DEF SubArea
    <3> QED BY <3>2, <3>3
  <2>13. \A i \in Contents \ {id} : \A w : LastSays(s, i, "area", w) => LastSays(t, i, "area", w)
    BY <2>4
  <2> QED BY <2>2, <2>4, <2>6, <2>11, <2>12, <2>13 DEF Good
<1> QED BY <1>1, <1>2

-----------------------------------------------------------------------------
(***************************************************************************)
(* The loops over the listeners of every content there was.                *)
(***************************************************************************)
LEMMA OccupiedKeeps ==
  ASSUME NEW s \in AceStates, Good(s), NEW list \in Seq(Contents)
  PROVE  Kept(s, ForEach(OnSizeChange, s, list))
<1> DEFINE n == Len(list)
           A == {t \in AceStates : Kept(s, t)}
           h == [k \in 1 .. n |-> [t \in A |-> OnSizeChange(t, list[k])]]
           f == CHOOSE f : f = [k \in 0 .. n |-> IF k = 0 THEN s ELSE OnSizeChange(f[k - 1], list[k])]
<1>1. n \in Nat /\ \A k \in 1 .. n : list[k] \in Ids
  BY LenProperties, ElementOfSeq DEF Ids
<1>2. s \in A
  BY KeptSame
<1>3. ASSUME NEW t \in A, NEW k \in 1 .. n
      PROVE  OnSizeChange(t, list[k]) \in A
  <2>1. t \in AceStates /\ Kept(s, t) /\ Good(t)
    BY DEF Kept
  <2>2. Kept(t, OnSizeChange(t, list[k]))
    BY <1>1, <2>1, SizeChangeKeeps
  <2>3. Kept(s, OnSizeChange(t, list[k]))
    BY <2>1, <2>2, KeptTwice
  <2> QED BY <2>3 DEF Kept, Good, Held
<1>4. h \in [1 .. n -> [A -> A]]
  BY <1>3
<1> HIDE DEF h
<1>5. PICK g : Walk(g, A, s, n, h)
  <2> HIDE DEF n, A
  <2> QED BY <1>1, <1>2, <1>4, WalkExists
<1>6. \A k \in 0 .. n : k # 0 => k - 1 \in 0 .. n /\ k \in 1 .. n
  BY <1>1
<1>7. \A k \in 0 .. n : k # 0 => h[k][g[k - 1]] = OnSizeChange(g[k - 1], list[k])
  BY <1>5, <1>6 DEF h, Walk
<1>8. g = [k \in 0 .. n |-> IF k = 0 THEN s ELSE OnSizeChange(g[k - 1], list[k])]
  BY <1>5, <1>6, <1>7 DEF Walk
<1>9. f = [k \in 0 .. n |-> IF k = 0 THEN s ELSE OnSizeChange(f[k - 1], list[k])]
  BY <1>8
<1>10. ForEach(OnSizeChange, s, list) = f[n]
  BY DEF ForEach
<1> HIDE DEF A, f
<1>11. f[0] = s /\ \A k \in 1 .. n : f[k] = OnSizeChange(f[k - 1], list[k])
  <2>1. 0 \in 0 .. n /\ \A k \in 1 .. n : k \in 0 .. n /\ k # 0
    BY <1>1
  <2> HIDE DEF n
  <2> QED BY <1>9, <2>1
<1> HIDE DEF n
<1> DEFINE B == [k \in 0 .. n |-> A]
<1>12. \A k \in 1 .. n : k \in 0 .. n /\ k - 1 \in 0 .. n
  BY <1>1
<1>13. B[0] = A /\ B[n] = A /\ \A k \in 1 .. n : B[k] = A /\ B[k - 1] = A
  BY <1>1, <1>12
<1> HIDE DEF B
<1>14. f[0] \in B[0] /\ \A k \in 1 .. n : f[k - 1] \in B[k - 1] => f[k] \in B[k]
  BY <1>2, <1>3, <1>11, <1>13
<1>15. f[n] \in B[n]
  BY <1>1, <1>14, WalkEnds
<1> QED BY <1>10, <1>13, <1>15 DEF A

\* When every listener was told of the area, the last task of a content that listens says it.
LEMMA NotifyKeeps ==
  ASSUME NEW s \in AceStates, Good(s), NEW area \in Areas,
         NEW list \in Seq(Contents)
  PROVE  LET t == ForEach(LAMBDA u, id : OnAvoidAreaChanged(u, id, area), s, list) IN
         /\ Good(t) /\ Living(t) = Living(s)
         /\ \A id \in Living(s) : id \in ToSet(list) => LastSays(t, id, "area", area)
<1> DEFINE n == Len(list)
           Told(t, k) == \A m \in 1 .. k : list[m] \in Living(s) => LastSays(t, list[m], "area", area)
           A == {t \in AceStates : Good(t) /\ Living(t) = Living(s)}
           B == [k \in 0 .. n |-> {t \in A : Told(t, k)}]
           h == [k \in 1 .. n |-> [t \in A |-> OnAvoidAreaChanged(t, list[k], area)]]
           f == CHOOSE f : f = [k \in 0 .. n |-> IF k = 0 THEN s ELSE OnAvoidAreaChanged(f[k - 1], list[k], area)]
<1>1. n \in Nat /\ \A k \in 1 .. n : list[k] \in Contents
  BY LenProperties, ElementOfSeq
<1>2. s \in A
  OBVIOUS
<1>3. ASSUME NEW t \in A, NEW k \in 1 .. n
      PROVE  /\ OnAvoidAreaChanged(t, list[k], area) \in A
             /\ list[k] \in Living(s) => LastSays(OnAvoidAreaChanged(t, list[k], area), list[k], "area", area)
             /\ \A i \in Contents \ {list[k]} : \A w :
                  LastSays(t, i, "area", w) => LastSays(OnAvoidAreaChanged(t, list[k], area), i, "area", w)
  <2>1. t \in AceStates /\ Good(t) /\ Living(t) = Living(s) /\ list[k] \in Contents
    BY <1>1
  <2> HIDE DEF A, n
  <2> DEFINE u == OnAvoidAreaChanged(t, list[k], area)
  <2>2. /\ Good(u) /\ Living(u) = Living(t)
        /\ list[k] \in Living(t) => LastSays(u, list[k], "area", area)
        /\ \A i \in Contents \ {list[k]} : \A w : LastSays(t, i, "area", w) => LastSays(u, i, "area", w)
    BY <2>1, AreaChangedKeeps
  <2> HIDE DEF u
  <2>3. u \in A
    BY <2>1, <2>2 DEF A, Good, Held
  <2> QED BY <2>1, <2>2, <2>3 DEF u
<1>4. h \in [1 .. n -> [A -> A]]
  BY <1>3
<1> HIDE DEF h
<1>5. PICK g : Walk(g, A, s, n, h)
  <2> HIDE DEF n, A
  <2> QED BY <1>1, <1>2, <1>4, WalkExists
<1>6. \A k \in 0 .. n : k # 0 => k - 1 \in 0 .. n /\ k \in 1 .. n
  BY <1>1
<1>7. \A k \in 0 .. n : k # 0 => h[k][g[k - 1]] = OnAvoidAreaChanged(g[k - 1], list[k], area)
  BY <1>5, <1>6 DEF h, Walk
<1>8. g = [k \in 0 .. n |-> IF k = 0 THEN s ELSE OnAvoidAreaChanged(g[k - 1], list[k], area)]
  BY <1>5, <1>6, <1>7 DEF Walk
<1>9. f = [k \in 0 .. n |-> IF k = 0 THEN s ELSE OnAvoidAreaChanged(f[k - 1], list[k], area)]
  BY <1>8
<1>10. ForEach(LAMBDA u, id : OnAvoidAreaChanged(u, id, area), s, list) = f[n]
  BY DEF ForEach
<1> HIDE DEF A, f
<1>11. f[0] = s /\ \A k \in 1 .. n : f[k] = OnAvoidAreaChanged(f[k - 1], list[k], area)
  <2>1. 0 \in 0 .. n /\ \A k \in 1 .. n : k \in 0 .. n /\ k # 0
    BY <1>1
  <2> HIDE DEF n
  <2> QED BY <1>9, <2>1
<1>12. f[0] \in B[0]
  <2>1. 0 \in 0 .. n /\ \A m \in 1 .. 0 : FALSE
    BY <1>1
  <2> QED BY <1>2, <1>11, <2>1
<1>13. ASSUME NEW k \in 1 .. n, f[k - 1] \in B[k - 1]
       PROVE  f[k] \in B[k]
  <2>1. k \in 0 .. n /\ k - 1 \in 0 .. n
    BY <1>1
  <2>2. f[k - 1] \in A /\ Told(f[k - 1], k - 1)
    BY <1>13, <2>1
  <2>3. /\ f[k] \in A
        /\ list[k] \in Living(s) => LastSays(f[k], list[k], "area", area)
        /\ \A i \in Contents \ {list[k]} : \A w : LastSays(f[k - 1], i, "area", w) => LastSays(f[k], i, "area", w)
    BY <1>3, <1>11, <2>2
  <2>4. \A m \in 1 .. k : m = k \/ (m \in 1 .. k - 1 /\ m \in 1 .. n)
    BY <1>1
  <2>5. Told(f[k], k)
    BY <1>1, <2>2, <2>3, <2>4
  <2> QED BY <2>1, <2>3, <2>5
<1> HIDE DEF B
<1>14. f[n] \in B[n]
  <2> HIDE DEF n
  <2> QED BY <1>1, <1>12, <1>13, WalkEnds
<1>15. f[n] \in A /\ Told(f[n], n)
  BY <1>1, <1>14 DEF B
<1>16. \A id : id \in ToSet(list) => \E m \in 1 .. n : list[m] = id
  BY LenProperties DEF ToSet
<1> QED BY <1>10, <1>15, <1>16 DEF A

-----------------------------------------------------------------------------
(***************************************************************************)
(* A container is destroyed: it is named no more, and its ends are queued. *)
(***************************************************************************)
Ends == {"endPipeline", "endFrontend", "remove"}

\* The end of a pipeline is queued once.
Once(s, id) ==
  \A i, j \in DOMAIN s.queue : Is(s, i, id, "endPipeline") /\ Is(s, j, id, "endPipeline") => i = j

\* Of the queue of s, what t has of it beside ends of id.
OnlyEnds(s, t, id) ==
  /\ \A i, o : o \notin Ends => (Queued(t, i, o) <=> Queued(s, i, o))
  /\ \A i \in Ids \ {id} : \A o : Queued(t, i, o) <=> Queued(s, i, o)
  /\ \A i, o, end : o \notin Ends => (Before(s, i, o, end) => Before(t, i, o, end))
  /\ \A i, o, w : o \notin Ends => (LastSays(t, i, o, w) <=> LastSays(s, i, o, w))
  /\ \A k \in DOMAIN t.queue : \/ k \in DOMAIN s.queue /\ t.queue[k] = s.queue[k]
                               \/ t.queue[k].id = id /\ t.queue[k].op \in Ends
  /\ \A i, o : Queued(s, i, o) => Queued(t, i, o)

LEMMA OnlyEndsTwice ==
  ASSUME NEW s, NEW t, NEW u, NEW id, OnlyEnds(s, t, id), OnlyEnds(t, u, id)
  PROVE  OnlyEnds(s, u, id)
<1>1. \A k \in DOMAIN u.queue : \/ k \in DOMAIN s.queue /\ u.queue[k] = s.queue[k]
                                \/ u.queue[k].id = id /\ u.queue[k].op \in Ends
  <2> TAKE k \in DOMAIN u.queue
  <2>1. CASE k \in DOMAIN t.queue /\ u.queue[k] = t.queue[k]
    BY <2>1 DEF OnlyEnds
  <2> QED BY <2>1 DEF OnlyEnds
<1> QED BY <1>1 DEF OnlyEnds

LEMMA EndPosted ==
  ASSUME NEW s \in AceStates, NEW id \in Ids, NEW op \in Ends
  PROVE  LET t == PostTask(s, op, id, None) IN
         /\ t \in AceStates /\ SameButQueue(s, t) /\ OnlyEnds(s, t, id) /\ Queued(t, id, op)
         /\ \A o : o # op => (Queued(t, id, o) <=> Queued(s, id, o))
         /\ \A i : Once(s, i) /\ (op = "endPipeline" => ~Queued(s, id, op)) => Once(t, i)
<1> DEFINE t == PostTask(s, op, id, None)
<1>1. op \in OpsOfTasks /\ None \in Words
  BY DEF Ends, OpsOfTasks, Words
<1>2. t \in AceStates /\ SameButQueue(s, t) /\ t.queue = Append(s.queue, [op |-> op, id |-> id, v |-> None])
  BY <1>1, PostIs
<1> HIDE DEF t
<1>3. \A i, o : Queued(t, i, o) <=> Queued(s, i, o) \/ (i = id /\ o = op)
  BY <1>2, Posted
<1>4. \A i, o, end : Before(s, i, o, end) /\ (i = id /\ o = op => ~Queued(s, id, end) /\ o # end)
                       => Before(t, i, o, end)
  BY <1>2, Posted
<1>5. \A i, o, w : ~(i = id /\ o = op) => (LastSays(s, i, o, w) <=> LastSays(t, i, o, w))
  BY <1>2, Posted
<1>6. \A k \in DOMAIN t.queue :
        \/ k \in DOMAIN s.queue /\ t.queue[k] = s.queue[k]
        \/ k = Len(s.queue) + 1 /\ k \notin DOMAIN s.queue /\ t.queue[k] = [op |-> op, id |-> id, v |-> None]
  BY <1>2, Posted
<1>7. OnlyEnds(s, t, id)
  <2>1. \A k \in DOMAIN t.queue : \/ k \in DOMAIN s.queue /\ t.queue[k] = s.queue[k]
                                  \/ t.queue[k].id = id /\ t.queue[k].op \in Ends
    BY <1>6
  <2> QED BY <1>3, <1>4, <1>5, <2>1 DEF OnlyEnds
<1>8. ASSUME NEW i, Once(s, i), op = "endPipeline" => ~Queued(s, id, op)
      PROVE  Once(t, i)
  <2> SUFFICES ASSUME NEW k \in DOMAIN t.queue, NEW l \in DOMAIN t.queue,
                      Is(t, k, i, "endPipeline"), Is(t, l, i, "endPipeline")
               PROVE  k = l
    BY DEF Once
  <2>1. CASE k \in DOMAIN s.queue /\ t.queue[k] = s.queue[k] /\ l \in DOMAIN s.queue /\ t.queue[l] = s.queue[l]
    BY <1>8, <2>1 DEF Once, Is
  <2>2. CASE t.queue[k] = [op |-> op, id |-> id, v |-> None] /\ l \in DOMAIN s.queue /\ t.queue[l] = s.queue[l]
    BY <1>8, <2>2 DEF Queued, Is
  <2>3. CASE t.queue[l] = [op |-> op, id |-> id, v |-> None] /\ k \in DOMAIN s.queue /\ t.queue[k] = s.queue[k]
    BY <1>8, <2>3 DEF Queued, Is
  <2> QED BY <1>6, <2>1, <2>2, <2>3
<1> QED BY <1>2, <1>3, <1>7, <1>8 DEF t

\* The container of id is d, and all else as it was.
With(s, id, d) == [s EXCEPT !.ctn = [s.ctn EXCEPT ![id] = d]]

LEMMA WithIs ==
  ASSUME NEW s \in AceStates, NEW id \in Ids, NEW d \in ContainerStates
  PROVE  LET t == With(s, id, d) IN
         /\ t \in AceStates /\ SameTables(s, t) /\ t.queue = s.queue
         /\ t.ctn[id] = d /\ \A i \in Ids \ {id} : t.ctn[i] = s.ctn[i]
BY DEF With, AceStates, SameTables

LetGo(s, id) == [s EXCEPT !.ctn[id].pipe = "leaving"]
NoFrontend(s, id) == [s EXCEPT !.ctn[id].front = None]

\* But for the pipeline, the view and the frontend the container is as it was.
Leaves(c, d) ==
  d.state = c.state /\ d.lastConfig = c.lastConfig /\ d.told = c.told /\ d.seen = c.seen

LEMMA LetGoIs ==
  ASSUME NEW s \in AceStates, NEW id \in Ids
  PROVE  LET t == LetGo(s, id) IN
         /\ t \in AceStates /\ SameTables(s, t) /\ t.queue = s.queue
         /\ \A i \in Ids \ {id} : t.ctn[i] = s.ctn[i]
         /\ Leaves(s.ctn[id], t.ctn[id])
         /\ t.ctn[id].pipe = "leaving" /\ t.ctn[id].view = s.ctn[id].view /\ t.ctn[id].front = s.ctn[id].front
<1> DEFINE d == [s.ctn[id] EXCEPT !.pipe = "leaving"]
<1>1. s.ctn[id] \in ContainerStates
  BY DEF AceStates
<1>2. d \in ContainerStates /\ Leaves(s.ctn[id], d) /\ d.pipe = "leaving" /\ d.view = s.ctn[id].view
      /\ d.front = s.ctn[id].front
  BY <1>1 DEF ContainerStates, Leaves
<1>3. LetGo(s, id) = With(s, id, d)
  BY DEF LetGo, With
<1> HIDE DEF d
<1> QED BY <1>2, <1>3, WithIs

LEMMA NoFrontendIs ==
  ASSUME NEW s \in AceStates, NEW id \in Ids
  PROVE  LET t == NoFrontend(s, id) IN
         /\ t \in AceStates /\ SameTables(s, t) /\ t.queue = s.queue
         /\ \A i \in Ids \ {id} : t.ctn[i] = s.ctn[i]
         /\ Leaves(s.ctn[id], t.ctn[id])
         /\ t.ctn[id].pipe = s.ctn[id].pipe /\ t.ctn[id].view = s.ctn[id].view /\ t.ctn[id].front = None
<1> DEFINE d == [s.ctn[id] EXCEPT !.front = None]
<1>1. s.ctn[id] \in ContainerStates
  BY DEF AceStates
<1>2. d \in ContainerStates /\ Leaves(s.ctn[id], d) /\ d.pipe = s.ctn[id].pipe /\ d.view = s.ctn[id].view
      /\ d.front = None
  BY <1>1 DEF ContainerStates, Leaves
<1>3. NoFrontend(s, id) = With(s, id, d)
  BY DEF NoFrontend, With
<1> HIDE DEF d
<1> QED BY <1>2, <1>3, WithIs

LEMMA DestroyViewIs ==
  ASSUME NEW s \in AceStates, NEW id \in Ids
  PROVE  LET t == DestroyView(s, id) IN
         /\ t \in AceStates /\ SameTables(s, t) /\ t.queue = s.queue
         /\ \A i \in Ids \ {id} : t.ctn[i] = s.ctn[i]
         /\ Leaves(s.ctn[id], t.ctn[id])
         /\ t.ctn[id].pipe = s.ctn[id].pipe /\ t.ctn[id].view = FALSE /\ t.ctn[id].front = s.ctn[id].front
<1> DEFINE d == [s.ctn[id] EXCEPT !.view = FALSE]
<1>1. s.ctn[id] \in ContainerStates
  BY DEF AceStates
<1>2. d \in ContainerStates /\ Leaves(s.ctn[id], d) /\ d.pipe = s.ctn[id].pipe /\ d.view = FALSE
      /\ d.front = s.ctn[id].front
  BY <1>1 DEF ContainerStates, Leaves
<1>3. DestroyView(s, id) = With(s, id, d)
  BY DEF DestroyView, With
<1> HIDE DEF d
<1> QED BY <1>2, <1>3, WithIs

\* The tables forget id.
Forget(s, id) ==
  Unsubscribe(ReleaseResourceAdapter([[s EXCEPT !.modules = @ \ {id}] EXCEPT !.windowIds = @ \ SameWindow(id)], id), id)

LEMMA ForgetIs ==
  ASSUME NEW s \in AceStates, NEW id \in Ids
  PROVE  LET t == Forget(s, id) IN
         /\ t \in AceStates /\ t.ctn = s.ctn /\ t.queue = s.queue
         /\ t.engine = s.engine /\ t.windowIds = s.windowIds \ SameWindow(id)
         /\ t.modules = s.modules \ {id} /\ t.observers = s.observers \ {id}
         /\ t.adapters = s.adapters \ {id} /\ t.late = s.late
         /\ t.ended = s.ended /\ t.asked = s.asked /\ t.done = s.done
<1> DEFINE t == [s EXCEPT !.modules = s.modules \ {id}, !.windowIds = s.windowIds \ SameWindow(id),
                          !.adapters = s.adapters \ {id}, !.observers = s.observers \ {id}]
<1>1. Forget(s, id) = t
  BY DEF Forget, Unsubscribe, ReleaseResourceAdapter, AceStates
<1>2. t \in AceStates
  BY DEF AceStates
<1> QED BY <1>1, <1>2 DEF AceStates

\* The steps of Destroy, each on a state of its own.
LEMMA DestroyIs ==
  ASSUME NEW s \in AceStates, NEW id \in Living(s), Good(s)
  PROVE  LET t == Destroy(s, id) IN
         /\ t \in AceStates /\ \A i \in Ids \ {id} : t.ctn[i] = s.ctn[i]
         /\ t.ctn[id].pipe = "leaving" /\ t.ctn[id].view = FALSE /\ (id \in Contents => t.ctn[id].front = None)
         /\ t.engine = s.engine /\ t.windowIds = s.windowIds \ SameWindow(id)
         /\ t.modules = s.modules \ {id} /\ t.observers = s.observers \ {id}
         /\ t.adapters = s.adapters \ {id} /\ t.late = s.late
         /\ t.ended = s.ended /\ t.asked = s.asked /\ t.done = s.done
         /\ OnlyEnds(s, t, id) /\ Queued(t, id, "remove")
         /\ id \in Subs => (Queued(t, id, "endFrontend") <=> Queued(s, id, "endFrontend"))
         /\ \A i \in Ids : Once(t, i)
<1> DEFINE s0 == Forget(s, id)
           s1 == LetGo(s0, id)
           s2 == PostTask(s1, "endPipeline", id, None)
           s3 == NoFrontend(s2, id)
           s4 == PostTask(s3, "endFrontend", id, None)
           s5 == IF id \in Subs THEN s2 ELSE s4
           s6 == DestroyView(s5, id)
           t == PostTask(s6, "remove", id, None)
<1>1. /\ id \in Ids /\ s.ctn[id].pipe = "live" /\ GetContainer(s, id)
  BY Lives DEF Good
<1>2. Destroy(s, id) = t
  <2> DEFINE a == [[s EXCEPT !.modules = @ \ {id}] EXCEPT !.windowIds = @ \ SameWindow(id)]
  <2>1. Destroy(s, id) = DestroyContainer(a, id)
    BY <1>1, Zenon DEF Destroy
  <2>2. s1 = [Unsubscribe(ReleaseResourceAdapter(a, id), id) EXCEPT !.ctn[id].pipe = "leaving"]
    BY Zenon DEF Forget, LetGo
  <2>3. s3 = [s2 EXCEPT !.ctn[id].front = None]
    BY Zenon DEF NoFrontend
  <2> HIDE DEF a, s1
  <2>4. DestroyPipeline(a, id) = s5
    BY <2>2, <2>3, Zenon DEF DestroyPipeline
  <2> HIDE DEF s5
  <2> QED BY <2>1, <2>4, Zenon DEF DestroyContainer
<1>3. /\ s0 \in AceStates /\ s0.ctn = s.ctn /\ s0.queue = s.queue
      /\ s0.engine = s.engine /\ s0.windowIds = s.windowIds \ SameWindow(id)
      /\ s0.modules = s.modules \ {id} /\ s0.observers = s.observers \ {id}
      /\ s0.adapters = s.adapters \ {id} /\ s0.late = s.late
      /\ s0.ended = s.ended /\ s0.asked = s.asked /\ s0.done = s.done
  BY <1>1, ForgetIs
<1> HIDE DEF s0
<1>4. /\ s1 \in AceStates /\ SameTables(s0, s1) /\ s1.queue = s.queue
      /\ \A i \in Ids \ {id} : s1.ctn[i] = s.ctn[i]
      /\ s1.ctn[id].pipe = "leaving"
  BY <1>1, <1>3, LetGoIs
<1> HIDE DEF s1
<1>5. /\ OnlyEnds(s, s1, id) /\ \A i \in Ids : Once(s1, i)
      /\ \A o : Queued(s1, id, o) <=> Queued(s, id, o)
  BY <1>4 DEF OnlyEnds, Queued, Before, LastSays, Is, Good, Held, PipelineEnds, Once
<1>6. ~Queued(s1, id, "endPipeline")
  BY <1>1, <1>5 DEF Good, Held, PipelineEnds
<1>7. /\ s2 \in AceStates /\ SameButQueue(s1, s2) /\ OnlyEnds(s1, s2, id)
      /\ \A o : o # "endPipeline" => (Queued(s2, id, o) <=> Queued(s1, id, o))
      /\ \A i \in Ids : Once(s2, i)
  BY <1>1, <1>4, <1>5, <1>6, EndPosted DEF Ends
<1> HIDE DEF s2
<1>8. OnlyEnds(s, s2, id)
  BY <1>5, <1>7, OnlyEndsTwice
<1>9. SameTables(s0, s2) /\ s2.ctn[id].pipe = "leaving" /\ \A i \in Ids \ {id} : s2.ctn[i] = s.ctn[i]
  BY <1>4, <1>7 DEF SameButQueue, SameTables
<1>10. /\ s3 \in AceStates /\ SameTables(s2, s3) /\ s3.queue = s2.queue
       /\ \A i \in Ids \ {id} : s3.ctn[i] = s2.ctn[i]
       /\ s3.ctn[id].pipe = s2.ctn[id].pipe /\ s3.ctn[id].front = None
  BY <1>1, <1>7, NoFrontendIs
<1> HIDE DEF s3
<1>11. OnlyEnds(s2, s3, id) /\ \A i \in Ids : Once(s3, i)
  BY <1>7, <1>10 DEF OnlyEnds, Queued, Before, LastSays, Is, Once
<1>12. /\ s4 \in AceStates /\ SameButQueue(s3, s4) /\ OnlyEnds(s3, s4, id)
       /\ \A i \in Ids : Once(s4, i)
  BY <1>1, <1>10, <1>11, EndPosted DEF Ends
<1> HIDE DEF s4
<1>13. OnlyEnds(s, s4, id)
  BY <1>8, <1>11, <1>12, OnlyEndsTwice
<1>14. SameTables(s0, s4) /\ s4.ctn[id].pipe = "leaving" /\ s4.ctn[id].front = None
       /\ \A i \in Ids \ {id} : s4.ctn[i] = s.ctn[i]
  BY <1>9, <1>10, <1>12 DEF SameButQueue, SameTables
<1>15. /\ s5 \in AceStates /\ SameTables(s0, s5) /\ s5.ctn[id].pipe = "leaving"
       /\ \A i \in Ids \ {id} : s5.ctn[i] = s.ctn[i]
       /\ id \in Contents => s5.ctn[id].front = None
       /\ OnlyEnds(s, s5, id) /\ \A i \in Ids : Once(s5, i)
       /\ id \in Subs => (Queued(s5, id, "endFrontend") <=> Queued(s, id, "endFrontend"))
  BY <1>5, <1>7, <1>8, <1>9, <1>12, <1>13, <1>14, AceAssumption
<1> HIDE DEF s5
<1>16. /\ s6 \in AceStates /\ SameTables(s5, s6) /\ s6.queue = s5.queue
       /\ \A i \in Ids \ {id} : s6.ctn[i] = s5.ctn[i]
       /\ s6.ctn[id].pipe = s5.ctn[id].pipe /\ s6.ctn[id].view = FALSE /\ s6.ctn[id].front = s5.ctn[id].front
  BY <1>1, <1>15, DestroyViewIs
<1> HIDE DEF s6
<1>17. /\ OnlyEnds(s5, s6, id) /\ \A i \in Ids : Once(s6, i)
       /\ Queued(s6, id, "endFrontend") <=> Queued(s5, id, "endFrontend")
  BY <1>15, <1>16 DEF OnlyEnds, Queued, Before, LastSays, Is, Once
<1>18. /\ t \in AceStates /\ SameButQueue(s6, t) /\ OnlyEnds(s6, t, id) /\ Queued(t, id, "remove")
       /\ \A o : o # "remove" => (Queued(t, id, o) <=> Queued(s6, id, o))
       /\ \A i \in Ids : Once(t, i)
  BY <1>1, <1>16, <1>17, EndPosted DEF Ends
<1> HIDE DEF t
<1>19. OnlyEnds(s, t, id)
  BY <1>15, <1>17, <1>18, OnlyEndsTwice
<1>20. /\ t.ctn[id].pipe = "leaving" /\ t.ctn[id].view = FALSE /\ (id \in Contents => t.ctn[id].front = None)
       /\ \A i \in Ids \ {id} : t.ctn[i] = s.ctn[i]
       /\ SameTables(s0, t)
  BY <1>15, <1>16, <1>18 DEF SameButQueue, SameTables
<1>21. id \in Subs => (Queued(t, id, "endFrontend") <=> Queued(s, id, "endFrontend"))
  BY <1>15, <1>17, <1>18
<1> QED BY <1>2, <1>3, <1>18, <1>19, <1>20, <1>21 DEF SameTables

\* A container that was there is destroyed: it lives no more, all else is kept.
LEMMA DestroyKeeps ==
  ASSUME NEW s \in AceStates, NEW id \in Living(s), Good(s), id \in Contents => Living(s) \cap Contents = {id}
  PROVE  LET t == Destroy(s, id) IN
         /\ Good(t) /\ Living(t) = Living(s) \ {id}
         /\ \A i \in Ids \ {id} : t.ctn[i] = s.ctn[i]
         /\ t.ctn[id].pipe = "leaving"
<1> DEFINE t == Destroy(s, id)
<1>1. /\ t \in AceStates /\ \A i \in Ids \ {id} : t.ctn[i] = s.ctn[i]
      /\ t.ctn[id].pipe = "leaving" /\ t.ctn[id].view = FALSE /\ (id \in Contents => t.ctn[id].front = None)
      /\ t.engine = s.engine /\ t.windowIds = s.windowIds \ SameWindow(id)
      /\ t.modules = s.modules \ {id} /\ t.observers = s.observers \ {id}
      /\ t.adapters = s.adapters \ {id} /\ t.late = s.late
      /\ t.ended = s.ended /\ t.asked = s.asked /\ t.done = s.done
      /\ OnlyEnds(s, t, id) /\ Queued(t, id, "remove")
      /\ id \in Subs => (Queued(t, id, "endFrontend") <=> Queued(s, id, "endFrontend"))
      /\ \A i \in Ids : Once(t, i)
  BY DestroyIs
<1> HIDE DEF t
<1>2. id \in Ids /\ s.ctn[id].pipe = "live" /\ GetContainer(s, id)
  BY Lives DEF Good
<1>3. Living(t) = Living(s) \ {id}
  <2>1. \A i \in Ids : i \in Living(t) <=> t.ctn[i].pipe = "live"
    BY DEF Living, GetPipelineContext
  <2>2. \A i \in Ids : i \in Living(s) <=> s.ctn[i].pipe = "live"
    BY DEF Living, GetPipelineContext
  <2>3. \A i \in Living(t) : i \in Ids
    BY DEF Living
  <2>4. \A i \in Living(s) : i \in Ids
    BY DEF Living
  <2>5. \A i \in Ids \ {id} : i \in Living(t) <=> i \in Living(s)
    BY <1>1, <2>1, <2>2
  <2>6. id \notin Living(t)
    BY <1>1, <1>2, <2>1
  <2> HIDE DEF t
  <2> QED BY <2>3, <2>4, <2>5, <2>6
<1>4. /\ \A i, o : o \notin Ends => (Queued(t, i, o) <=> Queued(s, i, o))
      /\ \A i \in Ids \ {id} : \A o : Queued(t, i, o) <=> Queued(s, i, o)
      /\ \A i, o, end : o \notin Ends => (Before(s, i, o, end) => Before(t, i, o, end))
      /\ \A i, o, w : o \notin Ends => (LastSays(t, i, o, w) <=> LastSays(s, i, o, w))
      /\ \A k \in DOMAIN t.queue : \/ k \in DOMAIN s.queue /\ t.queue[k] = s.queue[k]
                                   \/ t.queue[k].id = id /\ t.queue[k].op \in Ends
      /\ \A i, o : Queued(s, i, o) => Queued(t, i, o)
  BY <1>1 DEF OnlyEnds
<1>5. Named(t)
  <2>1. s.windowIds = Living(s) /\ s.observers = Living(s) /\ s.modules = Living(s) \cap Contents
        /\ Living(s) \subseteq s.engine
        /\ \A i \in Ids :
             /\ s.ctn[i].view <=> i \in Living(s)
             /\ i \in Living(s) => ~Queued(s, i, "remove") /\ (i \in s.adapters \/ Queued(s, i, "start"))
             /\ i \in s.engine \ Living(s) => Queued(s, i, "remove")
    BY DEF Good, Held, Named
  <2>2. Living(s) \ SameWindow(id) = Living(s) \ {id}
    BY <1>2, AceAssumption DEF SameWindow, Ids
  <2>3. t.windowIds = Living(t) /\ t.observers = Living(t) /\ t.modules = Living(t) \cap Contents
    BY <1>1, <1>3, <2>1, <2>2
  <2>4. Living(t) \subseteq t.engine
    BY <1>1, <1>3, <2>1
  <2>5. ASSUME NEW i \in Ids
        PROVE  /\ t.ctn[i].view <=> i \in Living(t)
               /\ i \in Living(t) => ~Queued(t, i, "remove") /\ (i \in t.adapters \/ Queued(t, i, "start"))
               /\ i \in t.engine \ Living(t) => Queued(t, i, "remove")
    <3>1. CASE i = id
      BY <1>1, <1>3, <3>1
    <3>2. CASE i # id
      BY <1>1, <1>3, <1>4, <2>1, <3>2
    <3> QED BY <3>1, <3>2
  <2> QED BY <2>3, <2>4, <2>5 DEF Named
<1>6. PipelineEnds(t)
  <2>1. ASSUME NEW i \in Ids
        PROVE  /\ t.ctn[i].pipe = "none" => \A k \in DOMAIN t.queue : t.queue[k].id # i
               /\ Queued(t, i, "endPipeline") => t.ctn[i].pipe = "leaving"
    <3>1. CASE i = id
      BY <1>1, <3>1
    <3>2. CASE i # id
      BY <1>1, <1>4, <3>2 DEF Good, Held, PipelineEnds
    <3> QED BY <3>1, <3>2
  <2>2. ASSUME NEW i \in Ids, NEW op \in {"start", "area"}
        PROVE  (Queued(t, i, op) => t.ctn[i].pipe \in {"live", "leaving"}) /\ Before(t, i, op, "endPipeline")
    <3>1. op \notin Ends
      BY DEF Ends
    <3>2. (Queued(s, i, op) => s.ctn[i].pipe \in {"live", "leaving"}) /\ Before(s, i, op, "endPipeline")
      BY DEF Good, Held, PipelineEnds
    <3> QED BY <1>1, <1>4, <3>1, <3>2
  <2> QED BY <1>1, <2>1, <2>2 DEF PipelineEnds, Once
<1>7. FrontendEnds(t)
  <2>1. ASSUME NEW i \in Ids, t.ctn[i].pipe = "none"
        PROVE  t.ctn[i].front = None /\ i \notin t.ended
    BY <1>1, <2>1 DEF Good, Held, FrontendEnds
  <2>2. ASSUME NEW i \in Subs
        PROVE  ~Queued(t, i, "endFrontend")
    BY <1>1, <1>4 DEF Good, Held, FrontendEnds, Ids
  <2>3. ASSUME NEW i \in Contents
        PROVE  /\ t.ctn[i].front # None => t.ctn[i].front = i /\ i \notin t.ended
               /\ Queued(t, i, "endFrontend") => t.ctn[i].front = None
    <3>1. CASE i = id
      BY <1>1, <3>1
    <3>2. CASE i # id
      BY <1>1, <1>4, <3>2 DEF Good, Held, FrontendEnds, Ids
    <3> QED BY <3>1, <3>2
  <2>4. ASSUME NEW i \in Contents, NEW op \in {"start", "collect"}
        PROVE  (Queued(t, i, op) => i \notin t.ended) /\ Before(t, i, op, "endFrontend")
    <3>1. op \notin Ends
      BY DEF Ends
    <3> QED BY <1>1, <1>4, <3>1 DEF Good, Held, FrontendEnds
  <2>5. ASSUME NEW i \in Contents, NEW k \in DOMAIN t.queue, Is(t, k, i, "collect")
        PROVE  t.queue[k].v = i
    <3>1. "collect" \notin Ends
      BY DEF Ends
    <3>2. k \in DOMAIN s.queue /\ t.queue[k] = s.queue[k]
      BY <1>4, <2>5, <3>1 DEF Is
    <3> QED BY <2>5, <3>2 DEF Good, Held, FrontendEnds, Is
  <2> QED BY <2>1, <2>2, <2>3, <2>4, <2>5 DEF FrontendEnds
<1>8. FinishComes(t)
  <2>1. "finish" \notin Ends
    BY DEF Ends
  <2> QED BY <1>1, <1>4, <2>1 DEF Good, Held, FinishComes
<1>9. \A i \in Living(t) : Arrives(t, i) /\ (i \in Subs => SubArea(t, i))
  <2> TAKE i \in Living(t)
  <2>1. i \in Living(s) /\ t.ctn[i] = s.ctn[i] /\ Arrives(s, i) /\ (i \in Subs => SubArea(s, i))
    BY <1>1, <1>3 DEF Good, Living
  <2>2. \A o, w : o \notin Ends => (Queued(t, i, o) <=> Queued(s, i, o)) /\ (LastSays(t, i, o, w) <=> LastSays(s, i, o, w))
    BY <1>4
  <2> QED BY <2>1, <2>2 DEF Arrives, Reaches, SubArea, Ends
<1>10. Held(t)
  BY <1>1, <1>5, <1>6, <1>7, <1>8 DEF Good, Held
<1> QED BY <1>1, <1>3, <1>9, <1>10 DEF Good, t

\* Destroyed one after the other, the popups are gone, and no content is back.
LEMMA DestroyAllKeeps ==
  ASSUME NEW s \in AceStates, Good(s), Living(s) \cap Contents = {}, NEW list \in Seq(Subs)
  PROVE  LET t == ForEach(DestroySubWindow, s, list) IN
         Good(t) /\ Living(t) \cap Contents = {}
<1> DEFINE n == Len(list)
           A == {t \in AceStates : Good(t) /\ Living(t) \cap Contents = {}}
           h == [k \in 1 .. n |-> [t \in A |-> DestroySubWindow(t, list[k])]]
           f == CHOOSE f : f = [k \in 0 .. n |-> IF k = 0 THEN s ELSE DestroySubWindow(f[k - 1], list[k])]
<1>1. n \in Nat /\ \A k \in 1 .. n : list[k] \in Subs
  BY LenProperties, ElementOfSeq
<1>2. s \in A
  OBVIOUS
<1>3. ASSUME NEW t \in A, NEW k \in 1 .. n
      PROVE  DestroySubWindow(t, list[k]) \in A
  <2>1. t \in AceStates /\ Good(t) /\ Living(t) \cap Contents = {} /\ list[k] \in Subs
    BY <1>1
  <2>2. CASE ~t.ctn[list[k]].view
    BY <2>2, Zenon DEF DestroySubWindow
  <2>3. CASE t.ctn[list[k]].view
    <3>1. list[k] \in Living(t)
      BY <2>1, <2>3 DEF Good, Held, Named, Ids
    <3>2. list[k] \notin Contents
      BY <2>1, AceAssumption
    <3> HIDE DEF A, n
    <3>3. Good(Destroy(t, list[k])) /\ Living(Destroy(t, list[k])) = Living(t) \ {list[k]}
      BY <2>1, <3>1, <3>2, DestroyKeeps
    <3>4. DestroySubWindow(t, list[k]) = Destroy(t, list[k])
      BY <2>3, Zenon DEF DestroySubWindow
    <3> QED BY <2>1, <3>3, <3>4 DEF A, Good, Held
  <2> QED BY <2>2, <2>3
<1>4. h \in [1 .. n -> [A -> A]]
  BY <1>3
<1> HIDE DEF h
<1>5. PICK g : Walk(g, A, s, n, h)
  <2> HIDE DEF n, A
  <2> QED BY <1>1, <1>2, <1>4, WalkExists
<1>6. \A k \in 0 .. n : k # 0 => k - 1 \in 0 .. n /\ k \in 1 .. n
  BY <1>1
<1>7. \A k \in 0 .. n : k # 0 => h[k][g[k - 1]] = DestroySubWindow(g[k - 1], list[k])
  BY <1>5, <1>6 DEF h, Walk
<1>8. g = [k \in 0 .. n |-> IF k = 0 THEN s ELSE DestroySubWindow(g[k - 1], list[k])]
  BY <1>5, <1>6, <1>7 DEF Walk
<1>9. f = [k \in 0 .. n |-> IF k = 0 THEN s ELSE DestroySubWindow(f[k - 1], list[k])]
  BY <1>8
<1>10. ForEach(DestroySubWindow, s, list) = f[n]
  BY DEF ForEach
<1> HIDE DEF A, f
<1>11. f[0] = s /\ \A k \in 1 .. n : f[k] = DestroySubWindow(f[k - 1], list[k])
  <2>1. 0 \in 0 .. n /\ \A k \in 1 .. n : k \in 0 .. n /\ k # 0
    BY <1>1
  <2> HIDE DEF n
  <2> QED BY <1>9, <2>1
<1> HIDE DEF n
<1> DEFINE B == [k \in 0 .. n |-> A]
<1>12. \A k \in 1 .. n : k \in 0 .. n /\ k - 1 \in 0 .. n
  BY <1>1
<1>13. B[0] = A /\ B[n] = A /\ \A k \in 1 .. n : B[k] = A /\ B[k - 1] = A
  BY <1>1, <1>12
<1> HIDE DEF B
<1>14. f[0] \in B[0] /\ \A k \in 1 .. n : f[k - 1] \in B[k - 1] => f[k] \in B[k]
  BY <1>2, <1>3, <1>11, <1>13
<1>15. f[n] \in B[n]
  BY <1>1, <1>14, WalkEnds
<1> QED BY <1>10, <1>13, <1>15 DEF A

-----------------------------------------------------------------------------
(***************************************************************************)
(* A container is made: it is named, and its start is queued.              *)
(***************************************************************************)
\* The container is new, and has the frontend of front.
New(c, front) ==
  /\ c.pipe = "live" /\ c.view = TRUE /\ c.front = front /\ c.state = None /\ c.lastConfig = None
  /\ \A field \in Fields : c.told[field] = None /\ c.seen[field] = None

LEMMA AttachIs ==
  ASSUME NEW s \in AceStates, NEW id \in Ids, NEW front \in Contents, GetContainer(s, id)
  PROVE  LET t == SetView(s, id, front) IN
         /\ t \in AceStates /\ SameTables(s, t)
         /\ \A i \in Ids \ {id} : t.ctn[i] = s.ctn[i]
         /\ New(t.ctn[id], front)
         /\ t.queue = Append(s.queue, [op |-> "start", id |-> id, v |-> None])
<1> DEFINE d == [Fresh EXCEPT !.pipe = "live", !.view = TRUE]
           e == [d EXCEPT !.front = front]
           s1 == InitPiplineContext(s, id)
           s2 == InitializeFrontend(s1, id, front)
           t == PostTask(s2, "start", id, None)
<1>0. SetView(s, id, front) = t
  BY Zenon DEF SetView, AttachView, InitThemeManager
<1>1. d \in ContainerStates /\ d.pipe = "live" /\ d.view = TRUE /\ d.state = None /\ d.lastConfig = None
      /\ d.told = Unknown /\ d.seen = Unknown
  BY DEF Fresh, ContainerStates, Knowledge, Unknown, Fields, Words
<1>2. s1 = With(s, id, d)
  BY DEF InitPiplineContext, With
<1> HIDE DEF d
<1>3. e \in ContainerStates /\ New(e, front)
  BY <1>1 DEF ContainerStates, New, Unknown
<1>4. s1 \in AceStates /\ SameTables(s, s1) /\ s1.queue = s.queue
      /\ s1.ctn[id] = d /\ \A i \in Ids \ {id} : s1.ctn[i] = s.ctn[i]
  BY <1>1, <1>2, WithIs
<1> HIDE DEF s1
<1>5. s2 = With(s1, id, e)
  BY <1>4 DEF InitializeFrontend, With
<1> HIDE DEF e
<1>6. s2 \in AceStates /\ SameTables(s1, s2) /\ s2.queue = s1.queue
      /\ s2.ctn[id] = e /\ \A i \in Ids \ {id} : s2.ctn[i] = s1.ctn[i]
  BY <1>3, <1>4, <1>5, WithIs
<1> HIDE DEF s2
<1>8. t \in AceStates /\ SameButQueue(s2, t) /\ t.queue = Append(s2.queue, [op |-> "start", id |-> id, v |-> None])
  <2>1. "start" \in OpsOfTasks /\ None \in Words
    BY DEF OpsOfTasks, Words
  <2> QED BY <1>6, <2>1, PostIs
<1> HIDE DEF t
<1>9. SameTables(s, t) /\ t.ctn = s2.ctn
  BY <1>4, <1>6, <1>8 DEF SameTables, SameButQueue
<1> QED BY <1>0, <1>3, <1>4, <1>6, <1>8, <1>9

\* What is new agrees with what it was told, for it knows and was told nothing.
LEMMA MadeKeeps ==
  ASSUME NEW s \in AceStates, NEW t \in AceStates, NEW id \in Ids, NEW front \in Contents,
         Good(s), s.ctn[id].pipe = "none", id \in Contents => front = id,
         \A i \in Ids \ {id} : t.ctn[i] = s.ctn[i],
         New(t.ctn[id], front),
         t.queue = Append(s.queue, [op |-> "start", id |-> id, v |-> None]),
         t.engine = s.engine \cup {id}, t.windowIds = Living(s) \cup {id},
         t.modules = (Living(s) \cup {id}) \cap Contents, t.observers = Living(s) \cup {id},
         t.adapters = s.adapters, t.late = s.late,
         t.ended = s.ended, t.asked = s.asked, t.done = s.done
  PROVE  Good(t) /\ Living(t) = Living(s) \cup {id} /\ ~Queued(t, id, "area")
<1>1. \A o : ~Queued(s, id, o)
  BY DEF Good, Held, PipelineEnds, Queued, Is
<1>2. /\ \A i, o : Queued(t, i, o) <=> Queued(s, i, o) \/ (i = id /\ o = "start")
      /\ \A i, o, end : Before(s, i, o, end) /\ (i = id /\ o = "start" => ~Queued(s, id, end) /\ o # end)
                         => Before(t, i, o, end)
      /\ \A i, o, w : ~(i = id /\ o = "start") => (LastSays(s, i, o, w) <=> LastSays(t, i, o, w))
      /\ \A k \in DOMAIN t.queue :
              \/ k \in DOMAIN s.queue /\ t.queue[k] = s.queue[k]
              \/ k = Len(s.queue) + 1 /\ k \notin DOMAIN s.queue /\ t.queue[k] = [op |-> "start", id |-> id, v |-> None]
  BY Posted
<1>3. \A k \in DOMAIN t.queue : (k \in DOMAIN s.queue /\ t.queue[k] = s.queue[k])
                                \/ (t.queue[k].id = id /\ t.queue[k].op = "start")
  BY <1>2
<1>4. t.ctn[id].pipe = "live" /\ t.ctn[id].view = TRUE /\ t.ctn[id].front = front
  BY DEF New
<1>5. Living(t) = Living(s) \cup {id}
  <2>1. \A i \in Ids : i \in Living(t) <=> t.ctn[i].pipe = "live"
    BY DEF Living, GetPipelineContext
  <2>2. \A i \in Ids : i \in Living(s) <=> s.ctn[i].pipe = "live"
    BY DEF Living, GetPipelineContext
  <2>3. Living(t) \subseteq Ids /\ Living(s) \subseteq Ids
    BY DEF Living
  <2>4. \A i \in Ids : i \in Living(t) <=> i \in Living(s) \/ i = id
    BY <1>4, <2>1, <2>2
  <2> QED BY <2>3, <2>4
<1>6. Named(t)
  <2>1. Living(s) \subseteq s.engine
        /\ \A i \in Ids :
             /\ s.ctn[i].view <=> i \in Living(s)
             /\ i \in Living(s) => ~Queued(s, i, "remove") /\ (i \in s.adapters \/ Queued(s, i, "start"))
             /\ i \in s.engine \ Living(s) => Queued(s, i, "remove")
    BY DEF Good, Held, Named
  <2>2. ASSUME NEW i \in Ids
        PROVE  /\ t.ctn[i].view <=> i \in Living(t)
               /\ i \in Living(t) => ~Queued(t, i, "remove") /\ (i \in t.adapters \/ Queued(t, i, "start"))
               /\ i \in t.engine \ Living(t) => Queued(t, i, "remove")
    <3>1. CASE i = id
      BY <1>1, <1>2, <1>4, <1>5, <3>1
    <3>2. CASE i # id
      BY <1>2, <1>5, <2>1, <3>2
    <3> QED BY <3>1, <3>2
  <2> QED BY <1>5, <2>1, <2>2 DEF Named
<1>7. PipelineEnds(t)
  <2>1. ASSUME NEW i \in Ids
        PROVE  /\ t.ctn[i].pipe = "none" => \A k \in DOMAIN t.queue : t.queue[k].id # i
               /\ Queued(t, i, "endPipeline") => t.ctn[i].pipe = "leaving"
    <3>1. CASE i = id
      BY <1>1, <1>2, <1>4, <3>1
    <3>2. CASE i # id
      BY <1>2, <1>3, <3>2 DEF Good, Held, PipelineEnds
    <3> QED BY <3>1, <3>2
  <2>2. ASSUME NEW i \in Ids, NEW op \in {"start", "area"}
        PROVE  (Queued(t, i, op) => t.ctn[i].pipe \in {"live", "leaving"}) /\ Before(t, i, op, "endPipeline")
    <3>1. (Queued(s, i, op) => s.ctn[i].pipe \in {"live", "leaving"}) /\ Before(s, i, op, "endPipeline")
      BY DEF Good, Held, PipelineEnds
    <3>2. Queued(t, i, op) => t.ctn[i].pipe \in {"live", "leaving"}
      <4>1. CASE i = id
        BY <1>4, <4>1
      <4>2. CASE i # id
        BY <1>2, <3>1, <4>2
      <4> QED BY <4>1, <4>2
    <3>3. Before(t, i, op, "endPipeline")
      BY <1>1, <1>2, <3>1
    <3> QED BY <3>2, <3>3
  <2>3. ASSUME NEW i \in Ids, NEW k \in DOMAIN t.queue, NEW l \in DOMAIN t.queue,
               Is(t, k, i, "endPipeline"), Is(t, l, i, "endPipeline")
        PROVE  k = l
    BY <1>3, <2>3 DEF Good, Held, PipelineEnds, Is
  <2> QED BY <2>1, <2>2, <2>3 DEF PipelineEnds
<1>8. id \notin s.ended
  BY DEF Good, Held, FrontendEnds
<1>9. FrontendEnds(t)
  <2>1. ASSUME NEW i \in Ids, t.ctn[i].pipe = "none"
        PROVE  t.ctn[i].front = None /\ i \notin t.ended
    BY <1>4, <2>1 DEF Good, Held, FrontendEnds
  <2>2. ASSUME NEW i \in Subs
        PROVE  ~Queued(t, i, "endFrontend")
    BY <1>2 DEF Good, Held, FrontendEnds
  <2>3. ASSUME NEW i \in Contents
        PROVE  /\ t.ctn[i].front # None => t.ctn[i].front = i /\ i \notin t.ended
               /\ Queued(t, i, "endFrontend") => t.ctn[i].front = None
    <3>1. CASE i = id
      BY <1>1, <1>2, <1>4, <1>8, <3>1
    <3>2. CASE i # id
      BY <1>2, <3>2 DEF Good, Held, FrontendEnds, Ids
    <3> QED BY <3>1, <3>2
  <2>4. ASSUME NEW i \in Contents, NEW op \in {"start", "collect"}
        PROVE  (Queued(t, i, op) => i \notin t.ended) /\ Before(t, i, op, "endFrontend")
    <3>1. (Queued(s, i, op) => i \notin s.ended) /\ Before(s, i, op, "endFrontend")
      BY DEF Good, Held, FrontendEnds
    <3>2. Queued(t, i, op) => i \notin t.ended
      BY <1>2, <1>8, <3>1
    <3>3. Before(t, i, op, "endFrontend")
      BY <1>1, <1>2, <3>1
    <3> QED BY <3>2, <3>3
  <2>5. ASSUME NEW i \in Contents, NEW k \in DOMAIN t.queue, Is(t, k, i, "collect")
        PROVE  t.queue[k].v = i
    BY <1>3, <2>5 DEF Good, Held, FrontendEnds, Is
  <2> QED BY <2>1, <2>2, <2>3, <2>4, <2>5 DEF FrontendEnds
<1>10. FinishComes(t)
  BY <1>2 DEF Good, Held, FinishComes
<1>11. \A i \in Living(t) : Arrives(t, i) /\ (i \in Subs => SubArea(t, i))
  <2> TAKE i \in Living(t)
  <2>1. CASE i = id
    <3>1. \A o \in {"state", "focus", "config", "viewport", "size", "area"} : ~Queued(t, id, o)
      BY <1>1, <1>2
    <3>2. None \notin Following
      BY AceAssumption
    <3>3. /\ t.ctn[id].state = None /\ t.ctn[id].lastConfig = None
          /\ \A f \in {"shown", "focused", "size", "area", "config"} : t.ctn[id].told[f] = None /\ t.ctn[id].seen[f] = None
      BY DEF New, Fields
    <3> QED BY <2>1, <3>1, <3>2, <3>3 DEF Arrives, Reaches, SubArea
  <2>2. CASE i # id
    <3>1. i \in Living(s) /\ t.ctn[i] = s.ctn[i] /\ Arrives(s, i) /\ (i \in Subs => SubArea(s, i))
      BY <1>5, <2>2 DEF Good, Living
    <3>2. \A o, w : (Queued(t, i, o) <=> Queued(s, i, o)) /\ (LastSays(t, i, o, w) <=> LastSays(s, i, o, w))
      BY <1>2, <2>2
    <3> QED BY <3>1, <3>2 DEF Arrives, Reaches, SubArea
  <2> QED BY <2>1, <2>2
<1>12. Held(t)
  BY <1>6, <1>7, <1>9, <1>10 DEF Good, Held
<1>13. ~Queued(t, id, "area")
  BY <1>1, <1>2
<1> QED BY <1>5, <1>11, <1>12, <1>13 DEF Good

\* A popup's container gets a view, and its parent's frontend.
LEMMA CreateSubKeeps ==
  ASSUME NEW s \in AceStates, Good(s), NEW id \in Subs, s.ctn[id].pipe = "none", NEW front \in Contents
  PROVE  LET t == SetView(InitializeSubWindow(s, id), id, front) IN
         Good(t) /\ Living(t) = Living(s) \cup {id} /\ \A area : OfArea(s, area) => OfArea(t, area)
<1> DEFINE r == InitializeSubWindow(s, id)
           t == SetView(r, id, front)
<1>1. id \in Ids /\ id \notin Contents
  BY AceAssumption DEF Ids
<1>2. /\ r \in AceStates /\ r.ctn = s.ctn /\ r.queue = s.queue
      /\ r.engine = s.engine \cup {id} /\ r.windowIds = s.windowIds \cup {id}
      /\ r.modules = s.modules /\ r.observers = s.observers \cup {id}
      /\ r.adapters = s.adapters /\ r.late = s.late
      /\ r.ended = s.ended /\ r.asked = s.asked /\ r.done = s.done
  BY <1>1 DEF InitializeSubWindow, AceStates
<1>3. GetContainer(r, id)
  BY <1>2 DEF GetContainer
<1> HIDE DEF r
<1>4. /\ t \in AceStates /\ SameTables(r, t)
      /\ \A i \in Ids \ {id} : t.ctn[i] = r.ctn[i]
      /\ New(t.ctn[id], front)
      /\ t.queue = Append(r.queue, [op |-> "start", id |-> id, v |-> None])
  BY <1>1, <1>2, <1>3, AttachIs
<1> HIDE DEF t
<1>5. s.windowIds = Living(s) /\ s.observers = Living(s) /\ s.modules = Living(s) \cap Contents
  BY DEF Good, Held, Named
<1>6. /\ \A i \in Ids \ {id} : t.ctn[i] = s.ctn[i]
      /\ t.queue = Append(s.queue, [op |-> "start", id |-> id, v |-> None])
      /\ t.engine = s.engine \cup {id} /\ t.windowIds = Living(s) \cup {id}
      /\ t.modules = (Living(s) \cup {id}) \cap Contents /\ t.observers = Living(s) \cup {id}
      /\ t.adapters = s.adapters /\ t.late = s.late
      /\ t.ended = s.ended /\ t.asked = s.asked /\ t.done = s.done
  BY <1>1, <1>2, <1>4, <1>5 DEF SameTables
<1>7. Good(t) /\ Living(t) = Living(s) \cup {id}
  BY <1>1, <1>4, <1>6, MadeKeeps
<1>8. \A area : OfArea(s, area) => OfArea(t, area)
  <2>1. \A i \in Living(t) \cap Contents : i \in Living(s) \cap Contents /\ i # id /\ i \in Ids
    BY <1>1, <1>7 DEF Ids
  <2>2. \A i, o, w : i # id => (Queued(t, i, o) <=> Queued(s, i, o)) /\ (LastSays(s, i, o, w) <=> LastSays(t, i, o, w))
    <3>1. \A i, o : Queued(t, i, o) <=> Queued(s, i, o) \/ (i = id /\ o = "start")
      BY <1>4, <1>6, Posted
    <3>2. \A i, o, w : ~(i = id /\ o = "start") => (LastSays(s, i, o, w) <=> LastSays(t, i, o, w))
      BY <1>4, <1>6, Posted
    <3> QED BY <3>1, <3>2
  <2> QED BY <1>6, <2>1, <2>2 DEF OfArea, ContentArea, Reaches
<1> QED BY <1>2, <1>7, <1>8 DEF t, r

\* The area that a content starts with is the one its pipeline knows.
LEMMA SafeAreaKeeps ==
  ASSUME NEW s \in AceStates, NEW id \in Living(s), Good(s), id \in Contents,
         NEW area \in Areas, ~Queued(s, id, "area")
  PROVE  LET t == InitializeSafeArea(s, id, area) IN
         Good(t) /\ Living(t) = Living(s) /\ ContentArea(t, id, area)
<1> DEFINE r == Learn(s, id, "area", area)
           t == Say(r, id, "area", area)
<1>1. id \in Ids /\ s.ctn[id].pipe = "live"
  BY Lives DEF Good
<1>2. "area" \in Fields /\ area \in Words
  BY DEF Fields, Words
<1>3. Arrives(s, id)
  BY DEF Good
<1>4. /\ r \in AceStates /\ r.queue = s.queue /\ Alike(s, r, id)
      /\ r.ctn[id].state = s.ctn[id].state /\ r.ctn[id].lastConfig = s.ctn[id].lastConfig
      /\ r.ctn[id].told = s.ctn[id].told
      /\ r.ctn[id].seen["area"] = area
      /\ \A f \in Fields \ {"area"} : r.ctn[id].seen[f] = s.ctn[id].seen[f]
  BY <1>1, <1>2, LearnIs
<1> HIDE DEF r
<1>5. /\ t \in AceStates /\ t.queue = r.queue /\ Alike(r, t, id)
      /\ t.ctn[id].state = r.ctn[id].state /\ t.ctn[id].lastConfig = r.ctn[id].lastConfig
      /\ t.ctn[id].seen = r.ctn[id].seen
      /\ t.ctn[id].told["area"] = area
      /\ \A f \in Fields \ {"area"} : t.ctn[id].told[f] = r.ctn[id].told[f]
  BY <1>1, <1>2, <1>4, SayIs
<1>6. InitializeSafeArea(s, id, area) = t
  BY Zenon DEF InitializeSafeArea, r
<1> HIDE DEF t
<1>7. Alike(s, t, id) /\ t.queue = s.queue
  BY <1>4, <1>5, AlikeTwice
<1>8. \A o, w : (Queued(t, id, o) <=> Queued(s, id, o)) /\ (LastSays(t, id, o, w) <=> LastSays(s, id, o, w))
  BY <1>7 DEF Queued, LastSays, Is
<1>9. /\ t.ctn[id].state = s.ctn[id].state /\ t.ctn[id].lastConfig = s.ctn[id].lastConfig
      /\ t.ctn[id].told["area"] = area /\ t.ctn[id].seen["area"] = area
      /\ \A f \in {"shown", "focused", "size", "config"} : t.ctn[id].told[f] = s.ctn[id].told[f]
      /\ \A f \in {"shown", "focused", "size", "config", "font"} : t.ctn[id].seen[f] = s.ctn[id].seen[f]
  BY <1>4, <1>5 DEF Fields
<1>10. Arrives(t, id)
  BY <1>3, <1>8, <1>9 DEF Arrives, Reaches
<1>11. Good(t) /\ Living(t) = Living(s)
  BY <1>5, <1>7, <1>10, AceAssumption, GoodKept DEF SameQueue
<1>12. ContentArea(t, id, area)
  BY <1>8, <1>9 DEF ContentArea, Reaches
<1> QED BY <1>6, <1>11, <1>12

\* A content that is made, when the window has no other: it is there, with the window's area.
LEMMA InitializeKeeps ==
  ASSUME NEW s \in AceStates, Good(s), NEW id \in Contents, s.ctn[id].pipe = "none",
         Living(s) \cap Contents = {}, NEW area \in Areas
  PROVE  LET t == Initialize(s, id, area) IN
         Good(t) /\ Living(t) = Living(s) \cup {id} /\ ContentArea(t, id, area)
<1> DEFINE r == CommonInitialize(s, id)
           v == SetView(r, id, id)
           w == InitializeSafeArea(v, id, area)
<1>1. id \in Ids
  BY DEF Ids
<1>2. /\ r \in AceStates /\ r.ctn = s.ctn /\ r.queue = s.queue
      /\ r.engine = s.engine \cup {id} /\ r.windowIds = (s.windowIds \ SameWindow(id)) \cup {id}
      /\ r.modules = s.modules \cup {id} /\ r.observers = s.observers \cup {id}
      /\ r.adapters = s.adapters /\ r.late = s.late
      /\ r.ended = s.ended /\ r.asked = s.asked /\ r.done = s.done
  <2> DEFINE x == [s EXCEPT !.engine = s.engine \cup {id},
                            !.windowIds = (s.windowIds \ SameWindow(id)) \cup {id},
                            !.modules = s.modules \cup {id}, !.observers = s.observers \cup {id}]
  <2>1. r = x
    BY DEF CommonInitialize
  <2>2. s.windowIds \in SUBSET Ids
    BY DEF AceStates
  <2>3. (s.windowIds \ SameWindow(id)) \cup {id} \in SUBSET Ids
    BY <1>1, <2>2
  <2> HIDE DEF r
  <2>4. x \in AceStates
    BY <1>1, <2>3 DEF AceStates
  <2> QED BY <2>1, <2>4 DEF AceStates
<1>3. GetContainer(r, id)
  BY <1>2 DEF GetContainer
<1> HIDE DEF r
<1>4. /\ v \in AceStates /\ SameTables(r, v)
      /\ \A i \in Ids \ {id} : v.ctn[i] = r.ctn[i]
      /\ New(v.ctn[id], id)
      /\ v.queue = Append(r.queue, [op |-> "start", id |-> id, v |-> None])
  BY <1>1, <1>2, <1>3, AttachIs
<1> HIDE DEF v
<1>5. s.windowIds = Living(s) /\ s.observers = Living(s) /\ s.modules = Living(s) \cap Contents
  BY DEF Good, Held, Named
<1>6. s.windowIds \ SameWindow(id) = Living(s)
  BY <1>5 DEF SameWindow
<1>7. /\ \A i \in Ids \ {id} : v.ctn[i] = s.ctn[i]
      /\ v.queue = Append(s.queue, [op |-> "start", id |-> id, v |-> None])
      /\ v.engine = s.engine \cup {id} /\ v.windowIds = Living(s) \cup {id}
      /\ v.modules = (Living(s) \cup {id}) \cap Contents /\ v.observers = Living(s) \cup {id}
      /\ v.adapters = s.adapters /\ v.late = s.late
      /\ v.ended = s.ended /\ v.asked = s.asked /\ v.done = s.done
  BY <1>1, <1>2, <1>4, <1>5, <1>6 DEF SameTables
<1>8. Good(v) /\ Living(v) = Living(s) \cup {id} /\ ~Queued(v, id, "area")
  BY <1>1, <1>4, <1>7, MadeKeeps
<1>9. Good(w) /\ Living(w) = Living(v) /\ ContentArea(w, id, area)
  BY <1>4, <1>8, SafeAreaKeeps
<1> HIDE DEF w
<1>10. ToFrontend(w, id) = w
  BY <1>8, <1>9, ThroughKeeps DEF Good, Held
<1>11. Initialize(s, id, area) = w
  BY <1>10, Zenon DEF Initialize, RunPage, w, v, r
<1> QED BY <1>8, <1>9, <1>11

\* A window has one content.
LEMMA OnlyOfArea ==
  ASSUME NEW s, NEW id, NEW area, Living(s) \cap Contents = {id}
  PROVE  OfArea(s, area) <=> ContentArea(s, id, area)
BY DEF OfArea

\* What was put off until there is a content is said now.
LEMMA DelayKeeps ==
  ASSUME NEW s \in AceStates, Good(s), NEW id \in Contents, Living(s) \cap Contents = {id},
         window \in WindowStates, OfArea(s, window.insets)
  PROVE  LET t == DelayNotify(s, id) IN
         Good(t) /\ Living(t) = Living(s) /\ OfArea(t, window.insets)
<1> DEFINE r == IF window.surface = None THEN s
                ELSE UpdateViewportConfig(AtOnce(s, id), id, window.surface, window.insets)
           v == IF window.delayNotifySurfaceDestroyed THEN NotifySurfaceDestroyed(r, id) ELSE r
           w == IF ~window.delayNotifyFocusChanged THEN v
                ELSE IF window.isFocused THEN Focus(v, id) ELSE UnFocus(v, id)
<1>1. DelayNotify(s, id) = w
  BY Zenon DEF DelayNotify
<1>2. id \in Living(s) /\ window.insets \in Areas /\ window.surface \in Sizes \cup {None}
  BY DEF WindowStates
<1>3. AtOnce(s, id) = s
  BY <1>2, ThroughKeeps
<1>4. Good(r) /\ Living(r) = Living(s) /\ OfArea(r, window.insets)
  <2>1. CASE window.surface = None
    BY <2>1
  <2>2. CASE window.surface # None
    <3>1. r = UpdateViewportConfig(s, id, window.surface, window.insets)
      BY <1>3, <2>2
    <3> HIDE DEF r
    <3>2. ContentArea(s, id, window.insets)
      BY OnlyOfArea
    <3>3. LastSays(s, id, "area", window.insets) \/ ~Queued(s, id, "area")
      BY <3>2 DEF ContentArea, Reaches
    <3>4. /\ Good(r) /\ Living(r) = Living(s)
          /\ LastSays(s, id, "area", window.insets) \/ ~Queued(s, id, "area") => ContentArea(r, id, window.insets)
      BY <1>2, <3>1, ViewportKeeps
    <3> QED BY <3>3, <3>4, OnlyOfArea
  <2> QED BY <2>1, <2>2
<1> HIDE DEF r
<1>5. r \in AceStates /\ id \in Living(r)
  BY <1>2, <1>4 DEF Good, Held
<1>6. Kept(r, v)
  <2>1. Kept(r, NotifySurfaceDestroyed(r, id)) /\ Kept(r, r)
    BY <1>4, <1>5, ThroughKeeps, KeptSame
  <2> QED BY <2>1
<1> HIDE DEF v
<1>7. Good(v) /\ Living(v) = Living(s) /\ OfArea(v, window.insets)
  BY <1>4, <1>6 DEF Kept
<1>8. v \in AceStates /\ id \in Living(v)
  BY <1>2, <1>7 DEF Good, Held
<1>9. Kept(v, w)
  <2>1. Kept(v, Focus(v, id)) /\ Kept(v, UnFocus(v, id)) /\ Kept(v, v)
    BY <1>7, <1>8, FocusKeeps, KeptSame
  <2> QED BY <2>1
<1> HIDE DEF w
<1>10. Good(w) /\ Living(w) = Living(s) /\ OfArea(w, window.insets)
  BY <1>7, <1>9 DEF Kept
<1> QED BY <1>1, <1>10

-----------------------------------------------------------------------------
(***************************************************************************)
(* A task is taken from the queue and run.                                 *)
(***************************************************************************)
\* r is s without the task h, its first.
Pop(s, r, h) ==
  /\ s \in AceStates /\ Good(s) /\ r \in AceStates /\ SameButQueue(s, r)
  /\ h.id \in Ids /\ h.v \in Words /\ Queued(s, h.id, h.op)
  /\ \A id, op : Queued(r, id, op) => Queued(s, id, op)
  /\ \A id, op : Queued(s, id, op) /\ ~(h.id = id /\ h.op = op) => Queued(r, id, op)
  /\ \A id, op, end : Before(s, id, op, end) => Before(r, id, op, end)
  /\ \A op : Before(s, h.id, op, h.op) => ~Queued(r, h.id, op)
  /\ \A id, op, w : LastSays(s, id, op, w)
       => \/ LastSays(r, id, op, w)
          \/ h.id = id /\ h.op = op /\ h.v = w /\ ~Queued(r, id, op)
  /\ Once(s, h.id) /\ h.op = "endPipeline" => ~Queued(r, h.id, "endPipeline")
  /\ \A id : Once(s, id) => Once(r, id)
  /\ \A i \in DOMAIN r.queue : \E k \in DOMAIN s.queue : r.queue[i] = s.queue[k]
  /\ \E k \in DOMAIN s.queue : s.queue[k] = h

LEMMA PopIs ==
  ASSUME NEW s \in AceStates, Good(s), s.queue # <<>>
  PROVE  Pop(s, [s EXCEPT !.queue = Tail(@)], Head(s.queue))
<1> DEFINE r == [s EXCEPT !.queue = Tail(@)]
           h == Head(s.queue)
<1>1. s.queue \in Seq(Task)
  BY DEF AceStates
<1>2. Tail(s.queue) \in Seq(Task)
  BY <1>1, HeadTailProperties
<1>3. r \in AceStates /\ SameButQueue(s, r) /\ r.queue = Tail(s.queue)
  BY <1>2 DEF AceStates, SameButQueue
<1> HIDE DEF r
<1>4. /\ h \in Task
      /\ Queued(s, h.id, h.op) /\ 1 \in DOMAIN s.queue /\ s.queue[1] = h
      /\ \A id, op : Queued(r, id, op) => Queued(s, id, op)
      /\ \A id, op : Queued(s, id, op) /\ ~(h.id = id /\ h.op = op) => Queued(r, id, op)
      /\ \A id, op, end : Before(s, id, op, end) => Before(r, id, op, end)
      /\ \A id, op : Before(s, id, op, h.op) /\ h.id = id => ~Queued(r, id, op)
      /\ \A id, op, w : LastSays(s, id, op, w)
           => \/ LastSays(r, id, op, w)
              \/ h.id = id /\ h.op = op /\ h.v = w /\ ~Queued(r, id, op)
      /\ \A i \in DOMAIN r.queue : i + 1 \in DOMAIN s.queue /\ r.queue[i] = s.queue[i + 1] /\ i + 1 # 1
  BY <1>3, Taken
<1> HIDE DEF h
<1>5. h.id \in Ids /\ h.v \in Words
  BY <1>4 DEF Task
<1>6. Once(s, h.id) /\ h.op = "endPipeline" => ~Queued(r, h.id, "endPipeline")
  <2> SUFFICES ASSUME Once(s, h.id), h.op = "endPipeline", NEW i \in DOMAIN r.queue, Is(r, i, h.id, "endPipeline")
               PROVE  FALSE
    BY DEF Queued
  <2>1. Is(s, 1, h.id, "endPipeline") /\ Is(s, i + 1, h.id, "endPipeline")
    BY <1>4 DEF Is
  <2> QED BY <1>4, <2>1 DEF Once
<1>7. ASSUME NEW id, Once(s, id)
      PROVE  Once(r, id)
  <2> SUFFICES ASSUME NEW i \in DOMAIN r.queue, NEW j \in DOMAIN r.queue,
                      Is(r, i, id, "endPipeline"), Is(r, j, id, "endPipeline")
               PROVE  i = j
    BY DEF Once
  <2>1. i + 1 = j + 1
    BY <1>4, <1>7 DEF Once, Is
  <2>2. r.queue \in Seq(Task)
    BY <1>3 DEF AceStates
  <2>3. i \in Int /\ j \in Int
    BY <2>2, LenProperties
  <2> QED BY <2>1, <2>3
<1>8. \A i \in DOMAIN r.queue : \E k \in DOMAIN s.queue : r.queue[i] = s.queue[k]
  BY <1>4
<1>9. \E k \in DOMAIN s.queue : s.queue[k] = h
  BY <1>4
<1> QED BY <1>3, <1>4, <1>5, <1>6, <1>7, <1>8, <1>9 DEF Pop, r, h

\* What holds without the task, whatever it was: the ends, and what is of other containers.
LEMMA PopKeeps ==
  ASSUME NEW s, NEW r, NEW h, Pop(s, r, h)
  PROVE  /\ Living(r) = Living(s) /\ PipelineEnds(r) /\ FrontendEnds(r)
         /\ h.op \notin {"start", "remove"} => Named(r)
         /\ h.op # "finish" => FinishComes(r)
         /\ s.ctn[h.id].pipe # "none"
         /\ \A i \in Living(s) : i # h.id \/ h.op \notin {"state", "focus", "config", "viewport", "size"} => Arrives(r, i)
         /\ \A i \in Living(s) : i \in Subs => SubArea(r, i)
         /\ \A i, area : (i # h.id \/ h.op # "area") /\ ContentArea(s, i, area) => ContentArea(r, i, area)
<1>1. Living(r) = Living(s)
  BY DEF Pop, Living, GetPipelineContext, SameButQueue
<1>2. /\ \A id, op : Queued(r, id, op) => Queued(s, id, op)
      /\ \A id, op : Queued(s, id, op) /\ ~(h.id = id /\ h.op = op) => Queued(r, id, op)
      /\ \A id, op, end : Before(s, id, op, end) => Before(r, id, op, end)
      /\ \A id, op, w : LastSays(s, id, op, w)
           => \/ LastSays(r, id, op, w)
              \/ h.id = id /\ h.op = op /\ h.v = w /\ ~Queued(r, id, op)
      /\ \A id : Once(s, id) => Once(r, id)
      /\ \A i \in DOMAIN r.queue : \E k \in DOMAIN s.queue : r.queue[i] = s.queue[k]
      /\ Good(s) /\ SameButQueue(s, r) /\ Queued(s, h.id, h.op) /\ h.id \in Ids
  BY DEF Pop
<1>3. PipelineEnds(r)
  <2>1. ASSUME NEW i \in Ids
        PROVE  /\ r.ctn[i].pipe = "none" => \A k \in DOMAIN r.queue : r.queue[k].id # i
               /\ Queued(r, i, "endPipeline") => r.ctn[i].pipe = "leaving"
    BY <1>2 DEF Good, Held, PipelineEnds, SameButQueue
  <2>2. ASSUME NEW i \in Ids, NEW op \in {"start", "area"}
        PROVE  (Queued(r, i, op) => r.ctn[i].pipe \in {"live", "leaving"}) /\ Before(r, i, op, "endPipeline")
    BY <1>2 DEF Good, Held, PipelineEnds, SameButQueue
  <2>3. ASSUME NEW i \in Ids
        PROVE  Once(r, i)
    BY <1>2 DEF Good, Held, PipelineEnds, Once
  <2> QED BY <2>1, <2>2, <2>3 DEF PipelineEnds, Once
<1>4. FrontendEnds(r)
  <2>1. ASSUME NEW i \in Ids, r.ctn[i].pipe = "none"
        PROVE  r.ctn[i].front = None /\ i \notin r.ended
    BY <1>2, <2>1 DEF Good, Held, FrontendEnds, SameButQueue
  <2>2. ASSUME NEW i \in Subs
        PROVE  ~Queued(r, i, "endFrontend")
    BY <1>2 DEF Good, Held, FrontendEnds
  <2>3. ASSUME NEW i \in Contents
        PROVE  /\ r.ctn[i].front # None => r.ctn[i].front = i /\ i \notin r.ended
               /\ Queued(r, i, "endFrontend") => r.ctn[i].front = None
    BY <1>2 DEF Good, Held, FrontendEnds, SameButQueue
  <2>4. ASSUME NEW i \in Contents, NEW op \in {"start", "collect"}
        PROVE  (Queued(r, i, op) => i \notin r.ended) /\ Before(r, i, op, "endFrontend")
    BY <1>2 DEF Good, Held, FrontendEnds, SameButQueue
  <2>5. ASSUME NEW i \in Contents, NEW k \in DOMAIN r.queue, Is(r, k, i, "collect")
        PROVE  r.queue[k].v = i
    <3>1. PICK l \in DOMAIN s.queue : r.queue[k] = s.queue[l]
      BY <1>2
    <3> QED BY <1>2, <2>5, <3>1 DEF Good, Held, FrontendEnds, Is
  <2> QED BY <2>1, <2>2, <2>3, <2>4, <2>5 DEF FrontendEnds
<1>5. h.op \notin {"start", "remove"} => Named(r)
  BY <1>1, <1>2 DEF Good, Held, Named, SameButQueue
<1>6. h.op # "finish" => FinishComes(r)
  BY <1>2 DEF Good, Held, FinishComes, SameButQueue
<1>7. s.ctn[h.id].pipe # "none"
  BY <1>2 DEF Good, Held, PipelineEnds, Queued, Is
<1>8. r.ctn = s.ctn
  BY <1>2 DEF SameButQueue
<1>9. ASSUME NEW i \in Living(s), i # h.id \/ h.op \notin {"state", "focus", "config", "viewport", "size"}
      PROVE  Arrives(r, i)
  <2>1. Arrives(s, i)
    BY <1>2 DEF Good
  <2>2. \A o \in {"state", "focus", "config", "viewport", "size"} :
           /\ Queued(r, i, o) <=> Queued(s, i, o)
           /\ \A w : LastSays(s, i, o, w) => LastSays(r, i, o, w)
    BY <1>2, <1>9
  <2> QED BY <1>8, <2>1, <2>2 DEF Arrives, Reaches
<1>10. \A i \in Living(s) : i \in Subs => SubArea(r, i)
  BY <1>2, <1>8 DEF Good, SubArea
<1>11. ASSUME NEW i, NEW area, i # h.id \/ h.op # "area", ContentArea(s, i, area)
       PROVE  ContentArea(r, i, area)
  <2>1. /\ Queued(r, i, "area") => Queued(s, i, "area")
        /\ \A w : LastSays(s, i, "area", w) => LastSays(r, i, "area", w)
    BY <1>2, <1>11
  <2> QED BY <1>8, <1>11, <2>1 DEF ContentArea, Reaches
<1> QED BY <1>1, <1>3, <1>4, <1>5, <1>6, <1>7, <1>9, <1>10, <1>11

\* A task that carries no word, and no end, leaves all well when it is gone.
LEMMA PlainKeeps ==
  ASSUME NEW s, NEW r, NEW h, Pop(s, r, h),
         \/ h.op \in {"keyboard", "event", "collect"}
         \/ h.op \in {"state", "focus", "config", "viewport", "size", "area"} /\ h.id \notin Living(s)
  PROVE  Kept(s, r)
<1>1. /\ Living(r) = Living(s) /\ PipelineEnds(r) /\ FrontendEnds(r)
      /\ h.op \notin {"start", "remove"} => Named(r)
      /\ h.op # "finish" => FinishComes(r)
      /\ \A i \in Living(s) : i # h.id \/ h.op \notin {"state", "focus", "config", "viewport", "size"} => Arrives(r, i)
      /\ \A i \in Living(s) : i \in Subs => SubArea(r, i)
      /\ \A i, area : (i # h.id \/ h.op # "area") /\ ContentArea(s, i, area) => ContentArea(r, i, area)
  BY PopKeeps
<1>2. r \in AceStates /\ ~r.late
  BY DEF Pop, Good, Held, SameButQueue
<1>3. Held(r)
  BY <1>1, <1>2 DEF Held
<1>4. \A i \in Living(r) : Arrives(r, i) /\ (i \in Subs => SubArea(r, i))
  BY <1>1
<1>5. \A area : OfArea(s, area) => OfArea(r, area)
  BY <1>1 DEF OfArea
<1> QED BY <1>1, <1>3, <1>4, <1>5 DEF Kept, Good

\* Of the tasks of the same container those with another word are as they were.
LEMMA PopWords ==
  ASSUME NEW s, NEW r, NEW h, Pop(s, r, h)
  PROVE  /\ \A o, w : o # h.op => /\ Queued(r, h.id, o) <=> Queued(s, h.id, o)
                                  /\ LastSays(s, h.id, o, w) => LastSays(r, h.id, o, w)
         /\ \A w : LastSays(s, h.id, h.op, w) => LastSays(r, h.id, h.op, w) \/ (h.v = w /\ ~Queued(r, h.id, h.op))
         /\ r \in AceStates /\ r.ctn = s.ctn /\ h.id \in Ids /\ h.v \in Words /\ Queued(s, h.id, h.op)
         /\ s \in AceStates /\ Good(s)
BY DEF Pop, SameButQueue

\* All but the container of id is well in u, and as it was in s.
Rest(s, u, id) ==
  /\ u \in AceStates /\ Held(u) /\ Living(u) = Living(s)
  /\ \A i \in Living(s) \ {id} : /\ Arrives(u, i) /\ (i \in Subs => SubArea(u, i))
                                 /\ \A area : ContentArea(s, i, area) => ContentArea(u, i, area)

LEMMA PopRest ==
  ASSUME NEW s, NEW r, NEW h, Pop(s, r, h), h.op \notin {"start", "remove", "finish"}
  PROVE  Rest(s, r, h.id)
<1>1. /\ Living(r) = Living(s) /\ PipelineEnds(r) /\ FrontendEnds(r) /\ Named(r) /\ FinishComes(r)
      /\ \A i \in Living(s) : i # h.id => Arrives(r, i)
      /\ \A i \in Living(s) : i \in Subs => SubArea(r, i)
      /\ \A i, area : i # h.id /\ ContentArea(s, i, area) => ContentArea(r, i, area)
  BY PopKeeps
<1>2. r \in AceStates /\ ~r.late
  BY DEF Pop, Good, Held, SameButQueue
<1> QED BY <1>1, <1>2 DEF Rest, Held

\* The word is learnt, or passed on.
LEMMA WordKeeps ==
  ASSUME NEW s, NEW u, NEW t \in AceStates, NEW id \in Ids, Rest(s, u, id),
         u.ctn[id].pipe # "none", Alike(u, t, id), SameQueue(u, t, id),
         id \in Living(s) => /\ Arrives(t, id) /\ (id \in Subs => SubArea(t, id))
                             /\ \A area : ContentArea(s, id, area) => ContentArea(t, id, area)
  PROVE  Kept(s, t)
<1>1. u \in AceStates /\ Held(u) /\ Living(u) = Living(s)
  BY DEF Rest
<1>2. Living(s) \subseteq Ids
  BY DEF Living
<1>3. Held(t) /\ Living(t) = Living(s)
  BY <1>1, HeldKept
<1>4. \A i \in Living(s) \ {id} : /\ Arrives(t, i) /\ (i \in Subs => SubArea(t, i))
                                  /\ \A area : ContentArea(s, i, area) => ContentArea(t, i, area)
  <2> TAKE i \in Living(s) \ {id}
  <2>1. /\ Arrives(u, i) /\ (i \in Subs => SubArea(u, i))
        /\ \A area : ContentArea(s, i, area) => ContentArea(u, i, area)
    BY DEF Rest
  <2>2. /\ Arrives(u, i) => Arrives(t, i)
        /\ SubArea(u, i) => SubArea(t, i)
        /\ \A area : ContentArea(u, i, area) => ContentArea(t, i, area)
    BY <1>1, <1>2, OthersKept
  <2> QED BY <2>1, <2>2
<1> QED BY <1>3, <1>4 DEF Kept, Good, OfArea

\* A word of the pipeline that is there: shown, focused, size, area or configuration.
LEMMA LearnKeeps ==
  ASSUME NEW s, NEW r, NEW h, Pop(s, r, h), h.id \in Living(s),
         NEW u, Rest(s, u, h.id), u.ctn = r.ctn,
         \A o : o \in {"state", "focus", "config", "viewport", "size", "area"} =>
                  /\ Queued(u, h.id, o) <=> Queued(r, h.id, o)
                  /\ \A w : LastSays(r, h.id, o, w) => LastSays(u, h.id, o, w),
         NEW field \in Fields,
         <<h.op, field>> \in {<<"state", "shown">>, <<"focus", "focused">>, <<"size", "size">>, <<"area", "area">>}
  PROVE  Kept(s, Learn(u, h.id, field, h.v))
<1> DEFINE t == Learn(u, h.id, field, h.v)
           id == h.id
<1>1. /\ \A o, w : o # h.op => /\ Queued(r, id, o) <=> Queued(s, id, o)
                               /\ LastSays(s, id, o, w) => LastSays(r, id, o, w)
      /\ \A w : LastSays(s, id, h.op, w) => LastSays(r, id, h.op, w) \/ (h.v = w /\ ~Queued(r, id, h.op))
      /\ r.ctn = s.ctn /\ id \in Ids /\ h.v \in Words /\ Queued(s, id, h.op)
      /\ s \in AceStates /\ Good(s)
  BY PopWords
<1> HIDE DEF id
<1>2. s.ctn[id].pipe = "live"
  BY DEF Living, GetPipelineContext, id
<1>3. u \in AceStates /\ Held(u)
  BY DEF Rest
<1>4. /\ t \in AceStates /\ t.queue = u.queue /\ Alike(u, t, id)
      /\ t.ctn[id].state = u.ctn[id].state /\ t.ctn[id].lastConfig = u.ctn[id].lastConfig
      /\ t.ctn[id].told = u.ctn[id].told
      /\ t.ctn[id].seen[field] = h.v
      /\ \A f \in Fields \ {field} : t.ctn[id].seen[f] = u.ctn[id].seen[f]
  BY <1>1, <1>2, <1>3, LearnIs, SMTT(30) DEF id
<1> HIDE DEF t
<1>5. Arrives(s, id) /\ (id \in Subs => SubArea(s, id))
  BY <1>1 DEF Good, id
<1>6. \A o \in {"state", "focus", "config", "viewport", "size", "area"} :
        /\ Queued(t, id, o) <=> Queued(r, id, o)
        /\ \A w : LastSays(r, id, o, w) => LastSays(t, id, o, w)
  <2>1. \A i, o, w : /\ Queued(t, i, o) <=> Queued(u, i, o)
                     /\ LastSays(u, i, o, w) <=> LastSays(t, i, o, w)
    BY <1>4 DEF Queued, LastSays, Is
  <2> QED BY <2>1 DEF id
<1>7. /\ t.ctn[id].state = s.ctn[id].state /\ t.ctn[id].lastConfig = s.ctn[id].lastConfig
      /\ t.ctn[id].told = s.ctn[id].told /\ t.ctn[id].seen[field] = h.v
      /\ \A f \in {"shown", "focused", "size", "area", "config", "font"} \ {field} : t.ctn[id].seen[f] = s.ctn[id].seen[f]
  BY <1>1, <1>4 DEF Fields
<1>8. Arrives(t, id)
  <2>1. CASE h.op = "state" /\ field = "shown"
    BY <1>1, <1>5, <1>6, <1>7, <2>1 DEF Arrives, Reaches
  <2>2. CASE h.op = "focus" /\ field = "focused"
    BY <1>1, <1>5, <1>6, <1>7, <2>2 DEF Arrives, Reaches
  <2>3. CASE h.op = "size" /\ field = "size"
    BY <1>1, <1>5, <1>6, <1>7, <2>3 DEF Arrives, Reaches
  <2>4. CASE h.op = "area" /\ field = "area"
    BY <1>1, <1>5, <1>6, <1>7, <2>4 DEF Arrives, Reaches
  <2> QED BY <2>1, <2>2, <2>3, <2>4
<1>9. id \in Subs => SubArea(t, id)
  <2>1. id \in Subs => h.op # "area" /\ field # "area"
    BY <1>1, <1>5 DEF SubArea
  <2> QED BY <1>1, <1>5, <1>6, <1>7, <2>1 DEF SubArea
<1>10. ASSUME NEW area, ContentArea(s, id, area)
       PROVE  ContentArea(t, id, area)
  <2>1. CASE h.op = "area" /\ field = "area"
    BY <1>1, <1>6, <1>7, <1>10, <2>1 DEF ContentArea, Reaches
  <2>2. CASE h.op # "area" /\ field # "area"
    BY <1>1, <1>6, <1>7, <1>10, <2>2 DEF ContentArea, Reaches
  <2> QED BY <2>1, <2>2
<1>11. Kept(s, t)
  BY <1>1, <1>2, <1>4, <1>8, <1>9, <1>10, WordKeeps DEF SameQueue, id
<1> QED BY <1>11 DEF t, id

LEMMA QueueSame ==
  ASSUME NEW s, NEW t, t.queue = s.queue
  PROVE  /\ \A id, op : Queued(t, id, op) <=> Queued(s, id, op)
         /\ \A id, op, end : Before(t, id, op, end) <=> Before(s, id, op, end)
         /\ \A id, op, w : LastSays(t, id, op, w) <=> LastSays(s, id, op, w)
         /\ \A i, id, op : Is(t, i, id, op) <=> Is(s, i, id, op)
BY DEF Queued, Before, LastSays, Is

\* Without its task, the pipeline a weak reference finds is not destroyed.
LEMMA UpgradeFinds ==
  ASSUME NEW s, NEW r, NEW h, Pop(s, r, h), Upgrade(r, h.id)
  PROVE  r.ctn[h.id].pipe # "dead"
<1>1. r.ctn[h.id].pipe \in {"live", "leaving"} \/ Queued(r, h.id, "start") \/ Queued(r, h.id, "area")
  BY DEF Upgrade, Queued, Is
<1>2. PipelineEnds(r) /\ h.id \in Ids
  BY PopKeeps DEF Pop
<1> QED BY <1>1, <1>2 DEF PipelineEnds

\* The theme is loaded for a pipeline that the task holds.
LEMMA StartKeeps ==
  ASSUME NEW s, NEW r, NEW h, Pop(s, r, h), h.op = "start"
  PROVE  Kept(s, SetLocalStorage(LoadTheme(r, h.id), h.id))
<1> DEFINE id == h.id
           t == [r EXCEPT !.adapters = r.adapters \cup {id}]
<1>1. /\ r \in AceStates /\ r.ctn = s.ctn /\ id \in Ids /\ Queued(s, id, "start")
      /\ s \in AceStates /\ Good(s)
  BY PopWords
<1>2. /\ Living(r) = Living(s) /\ PipelineEnds(r) /\ FrontendEnds(r) /\ FinishComes(r)
      /\ \A i \in Living(s) : Arrives(r, i)
      /\ \A i \in Living(s) : i \in Subs => SubArea(r, i)
      /\ \A i, area : ContentArea(s, i, area) => ContentArea(r, i, area)
  BY PopKeeps
<1>3. /\ SameButQueue(s, r)
      /\ \A i, op : Queued(r, i, op) => Queued(s, i, op)
      /\ \A i, op : Queued(s, i, op) /\ ~(id = i /\ "start" = op) => Queued(r, i, op)
  BY DEF Pop
<1> HIDE DEF id
<1>4. r.ctn[id].pipe # "dead" /\ (id \in Contents => id \notin r.ended)
  BY <1>1, <1>3 DEF Good, Held, PipelineEnds, FrontendEnds, SameButQueue
<1>5. LoadTheme(r, id) = t
  <2>1. Call(r, id) = r
    BY <1>1, <1>4, CallIs
  <2> QED BY <2>1 DEF LoadTheme
<1>6. t \in AceStates /\ t.ctn = r.ctn /\ t.queue = r.queue /\ t.engine = r.engine
      /\ t.windowIds = r.windowIds /\ t.modules = r.modules /\ t.observers = r.observers
      /\ t.adapters = r.adapters \cup {id} /\ t.late = r.late
      /\ t.ended = r.ended /\ t.asked = r.asked /\ t.done = r.done
  BY <1>1 DEF AceStates
<1> HIDE DEF t
<1>7. SetLocalStorage(t, id) = t
  <2>1. id \in Contents => CallFrontend(t, id, id) = t
    BY <1>1, <1>4, <1>6, CallFrontendIs
  <2> QED BY <2>1 DEF SetLocalStorage
<1>8. /\ \A i, op : Queued(t, i, op) <=> Queued(r, i, op)
      /\ \A i, op, end : Before(t, i, op, end) <=> Before(r, i, op, end)
      /\ \A i, op, w : LastSays(t, i, op, w) <=> LastSays(r, i, op, w)
      /\ \A k, i, op : Is(t, k, i, op) <=> Is(r, k, i, op)
  BY <1>6, QueueSame
<1>9. Living(t) = Living(s)
  BY <1>2, <1>6 DEF Living, GetPipelineContext
<1>10. Named(t)
  BY <1>1, <1>3, <1>6, <1>8, <1>9 DEF Good, Held, Named, SameButQueue
<1>11. PipelineEnds(t)
  BY <1>2, <1>6, <1>8 DEF PipelineEnds
<1>12. FrontendEnds(t)
  BY <1>2, <1>6, <1>8 DEF FrontendEnds
<1>13. FinishComes(t)
  BY <1>2, <1>6, <1>8 DEF FinishComes
<1>14. \A i \in Living(t) : Arrives(t, i) /\ (i \in Subs => SubArea(t, i))
  BY <1>2, <1>6, <1>8, <1>9 DEF Arrives, Reaches, SubArea
<1>15. \A area : OfArea(s, area) => OfArea(t, area)
  BY <1>2, <1>6, <1>8, <1>9 DEF OfArea, ContentArea, Reaches
<1>16. ~t.late
  BY <1>1, <1>3, <1>6 DEF Good, Held, SameButQueue
<1>17. Kept(s, t)
  BY <1>6, <1>9, <1>10, <1>11, <1>12, <1>13, <1>14, <1>15, <1>16 DEF Kept, Good, Held
<1> QED BY <1>5, <1>7, <1>17 DEF id

\* What is garbage is collected in a task behind the others, before the frontend's end.
LEMMA CollectRest ==
  ASSUME NEW s, NEW r, NEW id \in Ids, Rest(s, r, id), r.ctn[id].pipe # "none"
  PROVE  LET u == TriggerGarbageCollection(r, id) IN
         /\ Rest(s, u, id) /\ u.ctn = r.ctn
         /\ \A o : o # "collect" => /\ Queued(u, id, o) <=> Queued(r, id, o)
                                    /\ \A w : LastSays(r, id, o, w) => LastSays(u, id, o, w)
<1> DEFINE f == r.ctn[id].front
           u == PostTask(r, "collect", id, f)
<1>1. CASE f = None
  <2>1. TriggerGarbageCollection(r, id) = r
    BY <1>1, Zenon DEF TriggerGarbageCollection
  <2> QED BY <2>1
<1>2. CASE f # None
  <2>1. TriggerGarbageCollection(r, id) = u
    BY <1>2, Zenon DEF TriggerGarbageCollection
  <2>2. r \in AceStates /\ Held(r) /\ Living(r) = Living(s)
    BY DEF Rest
  <2>3. f \in Words
    <3>1. r.ctn[id] \in ContainerStates
      BY <2>2 DEF AceStates
    <3>2. f \in Contents
      BY <1>2, <3>1 DEF ContainerStates
    <3> QED BY <3>2 DEF Words
  <2>4. "collect" \in OpsOfTasks
    BY DEF OpsOfTasks
  <2>5. u \in AceStates /\ SameButQueue(r, u) /\ u.queue = Append(r.queue, [op |-> "collect", id |-> id, v |-> f])
    BY <2>2, <2>3, <2>4, PostIs
  <2>6. id \in Contents => f = id /\ id \notin r.ended /\ ~Queued(r, id, "endFrontend")
    BY <1>2, <2>2 DEF Held, FrontendEnds
  <2> HIDE DEF f, u
  <2>7. /\ \A i, o : Queued(u, i, o) <=> Queued(r, i, o) \/ (i = id /\ o = "collect")
        /\ \A i, o, end : Before(r, i, o, end) /\ (i = id /\ o = "collect" => ~Queued(r, id, end) /\ o # end)
                           => Before(u, i, o, end)
        /\ \A i, o, w : ~(i = id /\ o = "collect") => (LastSays(r, i, o, w) <=> LastSays(u, i, o, w))
        /\ \A k \in DOMAIN u.queue :
              \/ k \in DOMAIN r.queue /\ u.queue[k] = r.queue[k]
              \/ k = Len(r.queue) + 1 /\ k \notin DOMAIN r.queue /\ u.queue[k] = [op |-> "collect", id |-> id, v |-> f]
    BY <2>2, <2>5, Posted
  <2>8. \A k \in DOMAIN u.queue : (k \in DOMAIN r.queue /\ u.queue[k] = r.queue[k])
                                  \/ (u.queue[k].id = id /\ u.queue[k].op = "collect" /\ u.queue[k].v = f)
    BY <2>7
  <2>9. Living(u) = Living(r) /\ u.ctn = r.ctn
    BY <2>5 DEF SameButQueue, Living, GetPipelineContext
  <2>10. Named(u)
    BY <2>2, <2>5, <2>7, <2>9 DEF Held, Named, SameButQueue
  <2>11. PipelineEnds(u)
    <3>1. ASSUME NEW i \in Ids
          PROVE  /\ u.ctn[i].pipe = "none" => \A k \in DOMAIN u.queue : u.queue[k].id # i
                 /\ Queued(u, i, "endPipeline") => u.ctn[i].pipe = "leaving"
      BY <2>2, <2>7, <2>8, <2>9 DEF Held, PipelineEnds
    <3>2. ASSUME NEW i \in Ids, NEW op \in {"start", "area"}
          PROVE  (Queued(u, i, op) => u.ctn[i].pipe \in {"live", "leaving"}) /\ Before(u, i, op, "endPipeline")
      BY <2>2, <2>7, <2>9 DEF Held, PipelineEnds
    <3>3. ASSUME NEW i \in Ids, NEW k \in DOMAIN u.queue, NEW l \in DOMAIN u.queue,
                 Is(u, k, i, "endPipeline"), Is(u, l, i, "endPipeline")
          PROVE  k = l
      BY <2>2, <2>8, <3>3 DEF Held, PipelineEnds, Is
    <3> QED BY <3>1, <3>2, <3>3 DEF PipelineEnds
  <2>12. FrontendEnds(u)
    <3>1. /\ \A i \in Ids : u.ctn[i].pipe = "none" => u.ctn[i].front = None /\ i \notin u.ended
          /\ \A i \in Subs : ~Queued(u, i, "endFrontend")
      BY <2>2, <2>5, <2>7, <2>9 DEF Held, FrontendEnds, SameButQueue
    <3>2. ASSUME NEW i \in Contents
          PROVE  /\ u.ctn[i].front # None => u.ctn[i].front = i /\ i \notin u.ended
                 /\ Queued(u, i, "endFrontend") => u.ctn[i].front = None
      BY <2>2, <2>5, <2>7, <2>9 DEF Held, FrontendEnds, SameButQueue
    <3>3. ASSUME NEW i \in Contents, NEW op \in {"start", "collect"}
          PROVE  (Queued(u, i, op) => i \notin u.ended) /\ Before(u, i, op, "endFrontend")
      <4>1. (Queued(r, i, op) => i \notin r.ended) /\ Before(r, i, op, "endFrontend")
        BY <2>2 DEF Held, FrontendEnds
      <4>2. Queued(u, i, op) => i \notin u.ended
        BY <2>5, <2>6, <2>7, <4>1 DEF SameButQueue
      <4>3. Before(u, i, op, "endFrontend")
        BY <2>6, <2>7, <4>1
      <4> QED BY <4>2, <4>3
    <3>4. ASSUME NEW i \in Contents, NEW k \in DOMAIN u.queue, Is(u, k, i, "collect")
          PROVE  u.queue[k].v = i
      BY <2>2, <2>6, <2>8, <3>4 DEF Held, FrontendEnds, Is
    <3> QED BY <3>1, <3>2, <3>3, <3>4 DEF FrontendEnds
  <2>13. FinishComes(u)
    BY <2>2, <2>5, <2>7 DEF Held, FinishComes, SameButQueue
  <2>14. Held(u)
    BY <2>2, <2>5, <2>10, <2>11, <2>12, <2>13 DEF Held, SameButQueue
  <2>15. \A i \in Living(s) \ {id} : /\ Arrives(u, i) /\ (i \in Subs => SubArea(u, i))
                                     /\ \A area : ContentArea(s, i, area) => ContentArea(u, i, area)
    <3> TAKE i \in Living(s) \ {id}
    <3>1. /\ Arrives(r, i) /\ (i \in Subs => SubArea(r, i))
          /\ \A area : ContentArea(s, i, area) => ContentArea(r, i, area)
      BY DEF Rest
    <3>2. \A o, w : /\ Queued(u, i, o) <=> Queued(r, i, o)
                    /\ LastSays(u, i, o, w) <=> LastSays(r, i, o, w)
      BY <2>7
    <3> QED BY <2>9, <3>1, <3>2 DEF Arrives, Reaches, SubArea, ContentArea
  <2>16. Rest(s, u, id)
    BY <2>2, <2>5, <2>9, <2>14, <2>15 DEF Rest
  <2> QED BY <2>1, <2>7, <2>9, <2>16
<1> QED BY <1>1, <1>2

\* A frontend that a container has has not been destroyed.
LEMMA TellIs ==
  ASSUME NEW s, NEW u, NEW id \in Ids, Rest(s, u, id)
  PROVE  TellFrontend(u, id) = u
<1>1. u \in AceStates /\ FrontendEnds(u)
  BY DEF Rest, Held
<1>2. CASE u.ctn[id].front # None
  <2>1. id \in Contents => u.ctn[id].front \notin u.ended
    BY <1>1, <1>2 DEF FrontendEnds
  <2> QED BY <1>1, <1>2, <2>1, CallFrontendIs DEF TellFrontend
<1>3. CASE u.ctn[id].front = None
  BY <1>3 DEF TellFrontend
<1> QED BY <1>2, <1>3

\* The word of a task that holds its container, if the pipeline is there still.
LEMMA OfContainerKeeps ==
  ASSUME NEW s, NEW r, NEW h, Pop(s, r, h), NEW u, Rest(s, u, h.id), u.ctn = r.ctn,
         \A o : o \in {"state", "focus", "config", "viewport", "size", "area"} =>
                  /\ Queued(u, h.id, o) <=> Queued(r, h.id, o)
                  /\ \A w : LastSays(r, h.id, o, w) => LastSays(u, h.id, o, w),
         NEW field \in Fields,
         <<h.op, field>> \in {<<"state", "shown">>, <<"focus", "focused">>}
  PROVE  Kept(s, OfContainer(u, h.id, field, h.v))
<1>1. /\ r.ctn = s.ctn /\ h.id \in Ids /\ s \in AceStates /\ Good(s)
  BY PopWords
<1>2. u \in AceStates /\ Held(u) /\ Living(u) = Living(s)
  BY DEF Rest
<1>3. CASE h.id \in Living(s)
  <2>1. OfContainer(u, h.id, field, h.v) = Learn(u, h.id, field, h.v)
    BY <1>2, <1>3 DEF OfContainer, Living
  <2>2. Kept(s, Learn(u, h.id, field, h.v))
    BY <1>3, LearnKeeps
  <2> QED BY <2>1, <2>2
<1>4. CASE h.id \notin Living(s)
  <2>1. OfContainer(u, h.id, field, h.v) = u
    BY <1>1, <1>2, <1>4 DEF OfContainer, Living
  <2>2. \A i \in Living(s) : i \in Living(s) \ {h.id}
    BY <1>4
  <2>3. Kept(s, u)
    BY <1>2, <2>2 DEF Rest, Kept, Good, OfArea
  <2> QED BY <2>1, <2>3
<1> QED BY <1>3, <1>4

LEMMA StateKeeps ==
  ASSUME NEW s, NEW r, NEW h, Pop(s, r, h), h.op = "state"
  PROVE  Kept(s, OfContainer(StateChanged(TellFrontend(r, h.id), h.id, h.v), h.id, "shown", h.v))
<1> DEFINE u == StateChanged(r, h.id, h.v)
<1>1. Rest(s, r, h.id)
  BY PopRest
<1>2. h.id \in Ids /\ r.ctn[h.id].pipe # "none"
  BY PopWords, PopKeeps
<1>3. /\ Rest(s, u, h.id) /\ u.ctn = r.ctn
      /\ \A o : o # "collect" => /\ Queued(u, h.id, o) <=> Queued(r, h.id, o)
                                 /\ \A w : LastSays(r, h.id, o, w) => LastSays(u, h.id, o, w)
  <2>1. CASE h.v = "hide"
    <3>1. u = TriggerGarbageCollection(r, h.id)
      BY <2>1, Zenon DEF StateChanged
    <3> QED BY <1>1, <1>2, <3>1, CollectRest
  <2>2. CASE h.v # "hide"
    <3>1. u = r
      BY <2>2, Zenon DEF StateChanged
    <3> QED BY <1>1, <3>1
  <2> QED BY <2>1, <2>2
<1> HIDE DEF u
<1>4. Kept(s, OfContainer(u, h.id, "shown", h.v))
  BY <1>3, OfContainerKeeps DEF Fields
<1>5. TellFrontend(r, h.id) = r
  BY <1>1, <1>2, TellIs
<1> QED BY <1>4, <1>5 DEF u

LEMMA FocusTaskKeeps ==
  ASSUME NEW s, NEW r, NEW h, Pop(s, r, h), h.op = "focus"
  PROVE  Kept(s, OfContainer(TellFrontend(r, h.id), h.id, "focused", h.v))
<1>1. Rest(s, r, h.id)
  BY PopRest
<1>2. TellFrontend(r, h.id) = r
  BY <1>1, PopWords, TellIs
<1>3. Kept(s, OfContainer(r, h.id, "focused", h.v))
  BY <1>1, OfContainerKeeps DEF Fields
<1> QED BY <1>2, <1>3

\* The new size, which the view's weak reference may still bring to a pipeline that is left.
LEMMA SizeKeeps ==
  ASSUME NEW s, NEW r, NEW h, Pop(s, r, h), h.op = "size"
  PROVE  Kept(s, IF Upgrade(r, h.id) THEN Learn(r, h.id, "size", h.v) ELSE r)
<1>1. Rest(s, r, h.id)
  BY PopRest
<1>2. /\ r \in AceStates /\ r.ctn = s.ctn /\ h.id \in Ids /\ h.v \in Words /\ s.ctn[h.id].pipe # "none"
  BY PopWords, PopKeeps
<1>3. CASE h.id \in Living(s)
  <2>1. Upgrade(r, h.id)
    BY <1>2, <1>3 DEF Upgrade, Living, GetPipelineContext
  <2>2. Kept(s, Learn(r, h.id, "size", h.v))
    BY <1>1, <1>3, LearnKeeps DEF Fields
  <2> QED BY <2>1, <2>2
<1>4. CASE h.id \notin Living(s) /\ Upgrade(r, h.id)
  <2> DEFINE t == Learn(r, h.id, "size", h.v)
  <2>1. r.ctn[h.id].pipe # "dead"
    BY <1>4, UpgradeFinds
  <2>2. t \in AceStates /\ t.queue = r.queue /\ Alike(r, t, h.id)
    BY <1>2, <2>1, LearnIs DEF Fields
  <2> HIDE DEF t
  <2>3. Kept(s, t)
    BY <1>1, <1>2, <1>4, <2>2, WordKeeps DEF SameQueue
  <2> QED BY <1>4, <2>3 DEF t
<1>5. CASE h.id \notin Living(s) /\ ~Upgrade(r, h.id)
  BY <1>5, PlainKeeps
<1> QED BY <1>3, <1>4, <1>5

\* The area, to a pipeline that the task holds.
LEMMA AreaTaskKeeps ==
  ASSUME NEW s, NEW r, NEW h, Pop(s, r, h), h.op = "area"
  PROVE  Kept(s, Learn(r, h.id, "area", h.v))
<1>1. Rest(s, r, h.id)
  BY PopRest
<1>2. /\ r \in AceStates /\ r.ctn = s.ctn /\ h.id \in Ids /\ h.v \in Words /\ s.ctn[h.id].pipe # "none"
      /\ Good(s) /\ Queued(s, h.id, "area")
  BY PopWords, PopKeeps
<1>3. CASE h.id \in Living(s)
  BY <1>1, <1>3, LearnKeeps DEF Fields
<1>4. CASE h.id \notin Living(s)
  <2> DEFINE t == Learn(r, h.id, "area", h.v)
  <2>1. r.ctn[h.id].pipe # "dead"
    BY <1>2 DEF Good, Held, PipelineEnds
  <2>2. t \in AceStates /\ t.queue = r.queue /\ Alike(r, t, h.id)
    BY <1>2, <2>1, LearnIs DEF Fields
  <2> HIDE DEF t
  <2>3. Kept(s, t)
    BY <1>1, <1>2, <1>4, <2>2, WordKeeps DEF SameQueue
  <2> QED BY <2>3 DEF t
<1> QED BY <1>3, <1>4

\* The configuration's colour, and the font, which then follows.
LEMMA ConfigTaskKeeps ==
  ASSUME NEW s, NEW r, NEW h, Pop(s, r, h), h.op = "config"
  PROVE  Kept(s, Reconfigure(r, h.id, h.v))
<1> DEFINE id == h.id
           u == Learn(r, id, "config", h.v)
           t == Learn(u, id, "font", "system")
<1>1. /\ \A o, w : o # "config" => /\ Queued(r, id, o) <=> Queued(s, id, o)
                                   /\ LastSays(s, id, o, w) => LastSays(r, id, o, w)
      /\ \A w : LastSays(s, id, "config", w) => LastSays(r, id, "config", w) \/ (h.v = w /\ ~Queued(r, id, "config"))
      /\ r \in AceStates /\ r.ctn = s.ctn /\ id \in Ids /\ h.v \in Words /\ Queued(s, id, "config")
      /\ s \in AceStates /\ Good(s)
  BY PopWords
<1>2. Rest(s, r, id)
  BY PopRest
<1> HIDE DEF id
<1>3. CASE id \notin Living(s)
  <2>1. Reconfigure(r, id, h.v) = r
    BY <1>1, <1>3 DEF Reconfigure, Living, GetPipelineContext
  <2> QED BY <1>3, <2>1, PlainKeeps DEF id
<1>4. CASE id \in Living(s)
  <2>1. r.ctn[id].pipe = "live"
    BY <1>1, <1>4 DEF Living, GetPipelineContext
  <2>2. Reconfigure(r, id, h.v) = t
    <3>1. TellFrontend(r, id) = r
      BY <1>1, <1>2, TellIs
    <3> QED BY <2>1, <3>1 DEF Reconfigure, GetPipelineContext
  <2>3. "config" \in Fields /\ "font" \in Fields /\ "system" \in Words
    BY DEF Fields, Words
  <2>4. /\ u \in AceStates /\ u.queue = r.queue /\ Alike(r, u, id)
        /\ u.ctn[id].state = r.ctn[id].state /\ u.ctn[id].lastConfig = r.ctn[id].lastConfig
        /\ u.ctn[id].told = r.ctn[id].told
        /\ u.ctn[id].seen["config"] = h.v
        /\ \A f \in Fields \ {"config"} : u.ctn[id].seen[f] = r.ctn[id].seen[f]
    BY <1>1, <2>1, <2>3, LearnIs
  <2> HIDE DEF u
  <2>5. u.ctn[id].pipe # "dead"
    BY <2>1, <2>4 DEF Alike
  <2>6. /\ t \in AceStates /\ t.queue = u.queue /\ Alike(u, t, id)
        /\ t.ctn[id].state = u.ctn[id].state /\ t.ctn[id].lastConfig = u.ctn[id].lastConfig
        /\ t.ctn[id].told = u.ctn[id].told
        /\ t.ctn[id].seen["font"] = "system"
        /\ \A f \in Fields \ {"font"} : t.ctn[id].seen[f] = u.ctn[id].seen[f]
    BY <1>1, <2>3, <2>4, <2>5, LearnIs
  <2> HIDE DEF t
  <2>7. Alike(r, t, id) /\ t.queue = r.queue
    BY <2>4, <2>6, AlikeTwice
  <2>8. Arrives(s, id) /\ (id \in Subs => SubArea(s, id))
    BY <1>1, <1>4 DEF Good
  <2>9. \A i, o, w : (Queued(t, i, o) <=> Queued(r, i, o)) /\ (LastSays(t, i, o, w) <=> LastSays(r, i, o, w))
    BY <2>7, QueueSame
  <2>10. /\ t.ctn[id].state = s.ctn[id].state /\ t.ctn[id].lastConfig = s.ctn[id].lastConfig
         /\ t.ctn[id].told = s.ctn[id].told /\ t.ctn[id].seen["config"] = h.v /\ t.ctn[id].seen["font"] = "system"
         /\ \A f \in {"shown", "focused", "size", "area"} : t.ctn[id].seen[f] = s.ctn[id].seen[f]
    BY <1>1, <2>4, <2>6 DEF Fields
  <2>11. Arrives(t, id)
    BY <1>1, <2>8, <2>9, <2>10 DEF Arrives, Reaches
  <2>12. id \in Subs => SubArea(t, id)
    BY <1>1, <2>8, <2>9, <2>10 DEF SubArea
  <2>13. \A area : ContentArea(s, id, area) => ContentArea(t, id, area)
    BY <1>1, <2>9, <2>10 DEF ContentArea, Reaches
  <2>14. Kept(s, t)
    BY <1>1, <1>2, <2>1, <2>6, <2>7, <2>11, <2>12, <2>13, WordKeeps DEF SameQueue
  <2> QED BY <2>2, <2>14 DEF id
<1> QED BY <1>3, <1>4 DEF id

\* The size goes on to the pipeline by another task, if the view is there.
LEMMA ViewportTaskKeeps ==
  ASSUME NEW s, NEW r, NEW h, Pop(s, r, h), h.op = "viewport"
  PROVE  Kept(s, NotifySurfaceChanged(r, h.id, h.v))
<1> DEFINE id == h.id
           t == PostTask(r, "size", id, h.v)
<1>1. /\ \A o, w : o # "viewport" => /\ Queued(r, id, o) <=> Queued(s, id, o)
                                     /\ LastSays(s, id, o, w) => LastSays(r, id, o, w)
      /\ \A w : LastSays(s, id, "viewport", w) => LastSays(r, id, "viewport", w) \/ (h.v = w /\ ~Queued(r, id, "viewport"))
      /\ r \in AceStates /\ r.ctn = s.ctn /\ id \in Ids /\ h.v \in Words /\ Queued(s, id, "viewport")
      /\ s \in AceStates /\ Good(s)
  BY PopWords
<1>2. Rest(s, r, id)
  BY PopRest
<1> HIDE DEF id
<1>3. r.ctn[id].view <=> id \in Living(s)
  BY <1>1 DEF Good, Held, Named
<1>4. CASE id \notin Living(s)
  <2>1. NotifySurfaceChanged(r, id, h.v) = r
    BY <1>3, <1>4, Zenon DEF NotifySurfaceChanged
  <2> QED BY <1>4, <2>1, PlainKeeps DEF id
<1>5. CASE id \in Living(s)
  <2>1. r.ctn[id].pipe = "live"
    BY <1>1, <1>5 DEF Living, GetPipelineContext
  <2>2. Upgrade(r, id)
    BY <2>1 DEF Upgrade
  <2>3. NotifySurfaceChanged(r, id, h.v) = t
    BY <1>3, <1>5, <2>2, Zenon DEF NotifySurfaceChanged
  <2>4. "size" \in OpsOfTasks /\ "size" \in Loose
    BY DEF OpsOfTasks, Loose
  <2>5. t \in AceStates /\ SameButQueue(r, t) /\ t.queue = Append(r.queue, [op |-> "size", id |-> id, v |-> h.v])
    BY <1>1, <2>4, PostIs
  <2> HIDE DEF t
  <2>6. Alike(r, t, id) /\ SameQueue(r, t, id) /\ t.ctn = s.ctn
    BY <1>1, <2>4, <2>5, AlikeOfQueue DEF SameQueue, SameButQueue
  <2>7. \A o, w : o # "size" => /\ Queued(t, id, o) <=> Queued(r, id, o)
                                /\ LastSays(t, id, o, w) <=> LastSays(r, id, o, w)
    <3>1. \A o : Queued(t, id, o) <=> Queued(r, id, o) \/ (id = id /\ o = "size")
      BY <1>1, <2>5, Posted
    <3>2. \A o, w : ~(id = id /\ o = "size") => (LastSays(r, id, o, w) <=> LastSays(t, id, o, w))
      BY <1>1, <2>5, Posted
    <3> QED BY <3>1, <3>2
  <2>8. LastSays(t, id, "size", h.v)
    BY <1>1, <2>5, Posted
  <2>9. Arrives(s, id) /\ (id \in Subs => SubArea(s, id))
    BY <1>1, <1>5 DEF Good
  <2>10. LastSays(s, id, "viewport", s.ctn[id].told["size"])
    BY <1>1, <2>9 DEF Arrives
  <2>11. \/ LastSays(t, id, "viewport", s.ctn[id].told["size"])
         \/ ~Queued(t, id, "viewport") /\ LastSays(t, id, "size", s.ctn[id].told["size"])
    BY <1>1, <2>7, <2>8, <2>10
  <2>12. Arrives(t, id)
    BY <1>1, <2>6, <2>7, <2>9, <2>11 DEF Arrives, Reaches
  <2>13. id \in Subs => SubArea(t, id)
    BY <1>1, <2>6, <2>7, <2>9 DEF SubArea
  <2>14. \A area : ContentArea(s, id, area) => ContentArea(t, id, area)
    BY <1>1, <2>6, <2>7 DEF ContentArea, Reaches
  <2>15. Kept(s, t)
    BY <1>1, <1>2, <2>1, <2>5, <2>6, <2>12, <2>13, <2>14, WordKeeps
  <2> QED BY <2>3, <2>15 DEF id
<1> QED BY <1>4, <1>5 DEF id

\* The ability is told, for the container it asks about is known until its remove task.
LEMMA FinishKeeps ==
  ASSUME NEW s, NEW r, NEW h, Pop(s, r, h), h.op = "finish"
  PROVE  Kept(s, OnFinish(r, h.id))
<1> DEFINE id == h.id
           t == [r EXCEPT !.done = r.done \cup {id}]
<1>1. /\ r \in AceStates /\ r.ctn = s.ctn /\ id \in Ids /\ Queued(s, id, "finish")
      /\ s \in AceStates /\ Good(s)
  BY PopWords
<1>2. /\ Living(r) = Living(s) /\ PipelineEnds(r) /\ FrontendEnds(r) /\ Named(r)
      /\ \A i \in Living(s) : Arrives(r, i)
      /\ \A i \in Living(s) : i \in Subs => SubArea(r, i)
      /\ \A i, area : ContentArea(s, i, area) => ContentArea(r, i, area)
  BY PopKeeps
<1>3. /\ SameButQueue(s, r)
      /\ \A i, op : Queued(r, i, op) => Queued(s, i, op)
      /\ \A i, op : Queued(s, i, op) /\ ~(id = i /\ "finish" = op) => Queued(r, i, op)
      /\ \A i, op, end : Before(s, i, op, end) => Before(r, i, op, end)
  BY DEF Pop
<1> HIDE DEF id
<1>4. id \in Contents /\ id \in s.engine /\ id \in s.asked
  BY <1>1 DEF Good, Held, FinishComes
<1>5. OnFinish(r, id) = t
  <2>1. GetContainer(r, id)
    BY <1>3, <1>4 DEF GetContainer, SameButQueue
  <2> QED BY <1>4, <2>1 DEF OnFinish, UpgradeContainer
<1>6. t \in AceStates /\ t.ctn = r.ctn /\ t.queue = r.queue /\ t.engine = r.engine
      /\ t.windowIds = r.windowIds /\ t.modules = r.modules /\ t.observers = r.observers
      /\ t.adapters = r.adapters /\ t.late = r.late
      /\ t.ended = r.ended /\ t.asked = r.asked /\ t.done = r.done \cup {id}
  BY <1>1, <1>4 DEF AceStates
<1> HIDE DEF t
<1>7. /\ \A i, op : Queued(t, i, op) <=> Queued(r, i, op)
      /\ \A i, op, end : Before(t, i, op, end) <=> Before(r, i, op, end)
      /\ \A i, op, w : LastSays(t, i, op, w) <=> LastSays(r, i, op, w)
      /\ \A k, i, op : Is(t, k, i, op) <=> Is(r, k, i, op)
  BY <1>6, QueueSame
<1>8. Living(t) = Living(s)
  BY <1>2, <1>6 DEF Living, GetPipelineContext
<1>9. Named(t)
  BY <1>2, <1>6, <1>7, <1>8 DEF Named
<1>10. PipelineEnds(t)
  BY <1>2, <1>6, <1>7 DEF PipelineEnds
<1>11. FrontendEnds(t)
  BY <1>2, <1>6, <1>7 DEF FrontendEnds
<1>12. FinishComes(t)
  <2>1. s.done \subseteq s.asked /\ (\A i \in s.asked \ s.done : Queued(s, i, "finish"))
        /\ \A i \in Ids : /\ Queued(s, i, "finish") => i \in Contents /\ i \in s.engine /\ i \in s.asked
                          /\ Before(s, i, "finish", "remove")
    BY <1>1 DEF Good, Held, FinishComes
  <2>2. t.asked = s.asked /\ t.done = s.done \cup {id} /\ t.engine = s.engine
    BY <1>3, <1>6 DEF SameButQueue
  <2> QED BY <1>3, <1>4, <1>7, <2>1, <2>2 DEF FinishComes
<1>13. \A i \in Living(t) : Arrives(t, i) /\ (i \in Subs => SubArea(t, i))
  BY <1>2, <1>6, <1>7, <1>8 DEF Arrives, Reaches, SubArea
<1>14. \A area : OfArea(s, area) => OfArea(t, area)
  BY <1>2, <1>6, <1>7, <1>8 DEF OfArea, ContentArea, Reaches
<1>15. ~t.late
  BY <1>1, <1>3, <1>6 DEF Good, Held, SameButQueue
<1>16. Kept(s, t)
  BY <1>6, <1>8, <1>9, <1>10, <1>11, <1>12, <1>13, <1>14, <1>15 DEF Kept, Good, Held
<1> QED BY <1>5, <1>16 DEF id

\* The frontend of a content is destroyed: no task is left that calls it.
LEMMA EndFrontendKeeps ==
  ASSUME NEW s, NEW r, NEW h, Pop(s, r, h), h.op = "endFrontend"
  PROVE  Kept(s, [r EXCEPT !.ended = @ \cup {h.id}])
<1> DEFINE id == h.id
           t == [r EXCEPT !.ended = @ \cup {h.id}]
<1>1. /\ r \in AceStates /\ r.ctn = s.ctn /\ id \in Ids /\ Queued(s, id, "endFrontend")
      /\ s \in AceStates /\ Good(s)
  BY PopWords
<1>2. /\ Living(r) = Living(s) /\ PipelineEnds(r) /\ FrontendEnds(r) /\ Named(r) /\ FinishComes(r)
      /\ s.ctn[id].pipe # "none"
      /\ \A i \in Living(s) : Arrives(r, i)
      /\ \A i \in Living(s) : i \in Subs => SubArea(r, i)
      /\ \A i, area : ContentArea(s, i, area) => ContentArea(r, i, area)
  BY PopKeeps
<1>3. /\ SameButQueue(s, r)
      /\ \A op : Before(s, id, op, "endFrontend") => ~Queued(r, id, op)
  BY DEF Pop
<1>4. t = [r EXCEPT !.ended = r.ended \cup {id}]
  OBVIOUS
<1> HIDE DEF id, t
<1>5. id \in Contents /\ s.ctn[id].front = None
  BY <1>1 DEF Good, Held, FrontendEnds, Ids
<1>6. t \in AceStates /\ t.ctn = r.ctn /\ t.queue = r.queue /\ t.engine = r.engine
      /\ t.windowIds = r.windowIds /\ t.modules = r.modules /\ t.observers = r.observers
      /\ t.adapters = r.adapters /\ t.late = r.late
      /\ t.ended = r.ended \cup {id} /\ t.asked = r.asked /\ t.done = r.done
  BY <1>1, <1>4, <1>5 DEF AceStates
<1>7. /\ \A i, op : Queued(t, i, op) <=> Queued(r, i, op)
      /\ \A i, op, end : Before(t, i, op, end) <=> Before(r, i, op, end)
      /\ \A i, op, w : LastSays(t, i, op, w) <=> LastSays(r, i, op, w)
      /\ \A k, i, op : Is(t, k, i, op) <=> Is(r, k, i, op)
  BY <1>6, QueueSame
<1>8. Living(t) = Living(s)
  BY <1>2, <1>6 DEF Living, GetPipelineContext
<1>9. Named(t)
  BY <1>2, <1>6, <1>7, <1>8 DEF Named
<1>10. PipelineEnds(t)
  BY <1>2, <1>6, <1>7 DEF PipelineEnds
<1>11. FrontendEnds(t)
  <2>1. \A op \in {"start", "collect"} : ~Queued(r, id, op)
    BY <1>1, <1>3, <1>5 DEF Good, Held, FrontendEnds
  <2>2. ASSUME NEW i \in Ids, t.ctn[i].pipe = "none"
        PROVE  t.ctn[i].front = None /\ i \notin t.ended
    BY <1>1, <1>2, <1>6, <2>2 DEF FrontendEnds
  <2>3. ASSUME NEW i \in Subs
        PROVE  ~Queued(t, i, "endFrontend")
    BY <1>2, <1>7 DEF FrontendEnds
  <2>4. ASSUME NEW i \in Contents
        PROVE  /\ t.ctn[i].front # None => t.ctn[i].front = i /\ i \notin t.ended
               /\ Queued(t, i, "endFrontend") => t.ctn[i].front = None
    BY <1>1, <1>2, <1>5, <1>6, <1>7 DEF FrontendEnds
  <2>5. ASSUME NEW i \in Contents, NEW op \in {"start", "collect"}
        PROVE  (Queued(t, i, op) => i \notin t.ended) /\ Before(t, i, op, "endFrontend")
    BY <1>2, <1>6, <1>7, <2>1 DEF FrontendEnds
  <2>6. ASSUME NEW i \in Contents, NEW k \in DOMAIN t.queue, Is(t, k, i, "collect")
        PROVE  t.queue[k].v = i
    BY <1>2, <1>6, <1>7, <2>6 DEF FrontendEnds
  <2> QED BY <2>2, <2>3, <2>4, <2>5, <2>6 DEF FrontendEnds
<1>12. FinishComes(t)
  BY <1>2, <1>6, <1>7 DEF FinishComes
<1>13. \A i \in Living(t) : Arrives(t, i) /\ (i \in Subs => SubArea(t, i))
  BY <1>2, <1>6, <1>7, <1>8 DEF Arrives, Reaches, SubArea
<1>14. \A area : OfArea(s, area) => OfArea(t, area)
  BY <1>2, <1>6, <1>7, <1>8 DEF OfArea, ContentArea, Reaches
<1>15. ~t.late
  BY <1>1, <1>3, <1>6 DEF Good, Held, SameButQueue
<1>16. Kept(s, t)
  BY <1>6, <1>8, <1>9, <1>10, <1>11, <1>12, <1>13, <1>14, <1>15 DEF Kept, Good, Held
<1> QED BY <1>16 DEF t

\* The pipeline is destroyed: no task is left that holds it, and none that destroys it again.
LEMMA EndPipelineKeeps ==
  ASSUME NEW s, NEW r, NEW h, Pop(s, r, h), h.op = "endPipeline"
  PROVE  Kept(s, [r EXCEPT !.ctn[h.id] = [Dead EXCEPT !.front = r.ctn[h.id].front]])
<1> DEFINE id == h.id
           d == [Dead EXCEPT !.front = r.ctn[id].front]
           t == [r EXCEPT !.ctn[h.id] = [Dead EXCEPT !.front = r.ctn[h.id].front]]
<1>1. /\ r \in AceStates /\ r.ctn = s.ctn /\ id \in Ids /\ Queued(s, id, "endPipeline")
      /\ s \in AceStates /\ Good(s)
  BY PopWords
<1>2. /\ Living(r) = Living(s) /\ PipelineEnds(r) /\ FrontendEnds(r) /\ Named(r) /\ FinishComes(r)
      /\ \A i \in Living(s) : Arrives(r, i)
      /\ \A i \in Living(s) : i \in Subs => SubArea(r, i)
      /\ \A i, area : ContentArea(s, i, area) => ContentArea(r, i, area)
  BY PopKeeps
<1>3. /\ SameButQueue(s, r)
      /\ \A op : Before(s, id, op, "endPipeline") => ~Queued(r, id, op)
      /\ Once(s, id) => ~Queued(r, id, "endPipeline")
  BY DEF Pop
<1>4. t = With(r, id, d)
  BY DEF With
<1>5. d \in ContainerStates /\ d.pipe = "dead" /\ d.view = FALSE /\ d.front = r.ctn[id].front
  <2>1. r.ctn[id] \in ContainerStates
    BY <1>1 DEF AceStates
  <2>2. r.ctn[id].front \in Contents \cup {None}
    BY <2>1 DEF ContainerStates
  <2>3. Unknown \in Knowledge
    BY DEF Unknown, Knowledge, Words
  <2> HIDE DEF id
  <2> QED BY <2>2, <2>3 DEF Dead, Fresh, ContainerStates
<1> HIDE DEF id, d, t
<1>6. /\ t \in AceStates /\ SameTables(r, t) /\ t.queue = r.queue
      /\ t.ctn[id] = d /\ \A i \in Ids \ {id} : t.ctn[i] = r.ctn[i]
  BY <1>1, <1>4, <1>5, WithIs
<1>7. /\ \A i, op : Queued(t, i, op) <=> Queued(r, i, op)
      /\ \A i, op, end : Before(t, i, op, end) <=> Before(r, i, op, end)
      /\ \A i, op, w : LastSays(t, i, op, w) <=> LastSays(r, i, op, w)
      /\ \A k, i, op : Is(t, k, i, op) <=> Is(r, k, i, op)
  BY <1>6, QueueSame
<1>8. s.ctn[id].pipe = "leaving" /\ id \notin Living(s)
  BY <1>1 DEF Good, Held, PipelineEnds, Living, GetPipelineContext
<1>9. Living(t) = Living(s)
  <2>1. Living(t) \subseteq Ids /\ Living(s) \subseteq Ids
    BY DEF Living
  <2>2. \A i \in Ids : i \in Living(t) <=> i \in Living(s)
    BY <1>1, <1>5, <1>6, <1>8 DEF Living, GetPipelineContext
  <2> QED BY <2>1, <2>2
<1>10. Named(t)
  <2>1. ASSUME NEW i \in Ids
        PROVE  t.ctn[i].view <=> i \in Living(t)
    BY <1>2, <1>5, <1>6, <1>8, <1>9 DEF Named
  <2> QED BY <1>2, <1>6, <1>7, <1>9, <2>1 DEF Named, SameTables
<1>11. PipelineEnds(t)
  <2>1. /\ \A op \in {"start", "area"} : ~Queued(r, id, op)
        /\ ~Queued(r, id, "endPipeline")
    BY <1>1, <1>3 DEF Good, Held, PipelineEnds, Once
  <2>2. ASSUME NEW i \in Ids
        PROVE  /\ t.ctn[i].pipe = "none" => \A k \in DOMAIN t.queue : t.queue[k].id # i
               /\ Queued(t, i, "endPipeline") => t.ctn[i].pipe = "leaving"
    BY <1>2, <1>5, <1>6, <1>7, <2>1 DEF PipelineEnds
  <2>3. ASSUME NEW i \in Ids, NEW op \in {"start", "area"}
        PROVE  (Queued(t, i, op) => t.ctn[i].pipe \in {"live", "leaving"}) /\ Before(t, i, op, "endPipeline")
    BY <1>2, <1>6, <1>7, <2>1 DEF PipelineEnds
  <2>4. ASSUME NEW i \in Ids, NEW k \in DOMAIN t.queue, NEW l \in DOMAIN t.queue,
               Is(t, k, i, "endPipeline"), Is(t, l, i, "endPipeline")
        PROVE  k = l
    BY <1>2, <1>6, <1>7, <2>4 DEF PipelineEnds
  <2> QED BY <2>2, <2>3, <2>4 DEF PipelineEnds
<1>12. FrontendEnds(t)
  <2>1. \A i \in Ids : t.ctn[i].front = r.ctn[i].front
    BY <1>5, <1>6
  <2>2. \A i \in Ids : t.ctn[i].pipe = "none" => r.ctn[i].pipe = "none"
    BY <1>5, <1>6
  <2>3. t.ended = r.ended
    BY <1>6 DEF SameTables
  <2> QED BY <1>2, <1>6, <1>7, <2>1, <2>2, <2>3 DEF FrontendEnds, Ids
<1>13. FinishComes(t)
  BY <1>2, <1>6, <1>7 DEF FinishComes, SameTables
<1>14. \A i \in Living(t) : t.ctn[i] = r.ctn[i]
  BY <1>6, <1>8, <1>9 DEF Living
<1>15. \A i \in Living(t) : Arrives(t, i) /\ (i \in Subs => SubArea(t, i))
  BY <1>2, <1>7, <1>9, <1>14 DEF Arrives, Reaches, SubArea
<1>16. \A area : OfArea(s, area) => OfArea(t, area)
  BY <1>2, <1>7, <1>9, <1>14 DEF OfArea, ContentArea, Reaches
<1>17. ~t.late
  BY <1>1, <1>3, <1>6 DEF Good, Held, SameButQueue, SameTables
<1>18. Kept(s, t)
  BY <1>6, <1>9, <1>10, <1>11, <1>12, <1>13, <1>15, <1>16, <1>17 DEF Kept, Good, Held
<1> QED BY <1>18 DEF t

\* The engine forgets a container that was destroyed; no one asks for it any more.
LEMMA RemoveKeeps ==
  ASSUME NEW s, NEW r, NEW h, Pop(s, r, h), h.op = "remove"
  PROVE  Kept(s, [r EXCEPT !.engine = @ \ {h.id}, !.ctn[h.id].front = None])
<1> DEFINE id == h.id
           q == [r EXCEPT !.engine = r.engine \ {id}]
           t == NoFrontend(q, id)
<1>1. /\ r \in AceStates /\ r.ctn = s.ctn /\ id \in Ids /\ Queued(s, id, "remove")
      /\ s \in AceStates /\ Good(s)
  BY PopWords
<1>2. /\ Living(r) = Living(s) /\ PipelineEnds(r) /\ FrontendEnds(r) /\ FinishComes(r)
      /\ \A i \in Living(s) : Arrives(r, i)
      /\ \A i \in Living(s) : i \in Subs => SubArea(r, i)
      /\ \A i, area : ContentArea(s, i, area) => ContentArea(r, i, area)
  BY PopKeeps
<1>3. /\ SameButQueue(s, r)
      /\ \A op : Before(s, id, op, "remove") => ~Queued(r, id, op)
      /\ \A i, op : Queued(r, i, op) => Queued(s, i, op)
      /\ \A i, op : Queued(s, i, op) /\ ~(id = i /\ "remove" = op) => Queued(r, i, op)
  BY DEF Pop
<1>4. t = [r EXCEPT !.engine = @ \ {h.id}, !.ctn[h.id].front = None]
  BY <1>1 DEF NoFrontend, AceStates
<1> HIDE DEF id
<1>5. q \in AceStates /\ q.ctn = r.ctn /\ q.queue = r.queue /\ q.engine = r.engine \ {id}
      /\ q.windowIds = r.windowIds /\ q.modules = r.modules /\ q.observers = r.observers
      /\ q.adapters = r.adapters /\ q.late = r.late
      /\ q.ended = r.ended /\ q.asked = r.asked /\ q.done = r.done
  BY <1>1 DEF AceStates
<1> HIDE DEF q
<1>6. /\ t \in AceStates /\ SameTables(q, t) /\ t.queue = q.queue
      /\ \A i \in Ids \ {id} : t.ctn[i] = q.ctn[i]
      /\ t.ctn[id].pipe = q.ctn[id].pipe /\ t.ctn[id].view = q.ctn[id].view /\ t.ctn[id].front = None
  BY <1>1, <1>5, NoFrontendIs
<1> HIDE DEF t
<1>7. /\ \A i, op : Queued(t, i, op) <=> Queued(r, i, op)
      /\ \A i, op, end : Before(t, i, op, end) <=> Before(r, i, op, end)
      /\ \A i, op, w : LastSays(t, i, op, w) <=> LastSays(r, i, op, w)
      /\ \A k, i, op : Is(t, k, i, op) <=> Is(r, k, i, op)
  BY <1>5, <1>6, QueueSame
<1>8. id \notin Living(s)
  BY <1>1 DEF Good, Held, Named
<1>9. \A i \in Ids : t.ctn[i].pipe = r.ctn[i].pipe /\ t.ctn[i].view = r.ctn[i].view
  BY <1>5, <1>6
<1>10. Living(t) = Living(s)
  BY <1>2, <1>9 DEF Living, GetPipelineContext
<1>11. /\ t.engine = s.engine \ {id} /\ t.windowIds = s.windowIds /\ t.modules = s.modules
       /\ t.observers = s.observers /\ t.adapters = s.adapters /\ t.late = s.late
       /\ t.ended = s.ended /\ t.asked = s.asked /\ t.done = s.done
  BY <1>3, <1>5, <1>6 DEF SameButQueue, SameTables
<1>12. Named(t)
  <2>1. s.windowIds = Living(s) /\ s.observers = Living(s) /\ s.modules = Living(s) \cap Contents
        /\ Living(s) \subseteq s.engine
        /\ \A i \in Ids :
             /\ s.ctn[i].view <=> i \in Living(s)
             /\ i \in Living(s) => ~Queued(s, i, "remove") /\ (i \in s.adapters \/ Queued(s, i, "start"))
             /\ i \in s.engine \ Living(s) => Queued(s, i, "remove")
    BY <1>1 DEF Good, Held, Named
  <2>2. ASSUME NEW i \in Ids
        PROVE  /\ t.ctn[i].view <=> i \in Living(t)
               /\ i \in Living(t) => ~Queued(t, i, "remove") /\ (i \in t.adapters \/ Queued(t, i, "start"))
               /\ i \in t.engine \ Living(t) => Queued(t, i, "remove")
    BY <1>1, <1>3, <1>7, <1>9, <1>10, <1>11, <2>1
  <2> QED BY <1>8, <1>10, <1>11, <2>1, <2>2 DEF Named
<1>13. PipelineEnds(t)
  BY <1>2, <1>5, <1>6, <1>7, <1>9 DEF PipelineEnds
<1>14. FrontendEnds(t)
  <2>1. \A i \in Ids : t.ctn[i].front = None \/ t.ctn[i].front = r.ctn[i].front
    BY <1>5, <1>6
  <2>2. \A i \in Ids : r.ctn[i].front = None => t.ctn[i].front = None
    BY <1>5, <1>6
  <2>3. t.ended = r.ended /\ t.queue = r.queue
    BY <1>5, <1>6 DEF SameTables
  <2>4. ASSUME NEW i \in Ids, t.ctn[i].pipe = "none"
        PROVE  t.ctn[i].front = None /\ i \notin t.ended
    BY <1>2, <1>9, <2>2, <2>3, <2>4 DEF FrontendEnds
  <2>5. ASSUME NEW i \in Contents
        PROVE  /\ t.ctn[i].front # None => t.ctn[i].front = i /\ i \notin t.ended
               /\ Queued(t, i, "endFrontend") => t.ctn[i].front = None
    BY <1>2, <1>7, <2>1, <2>2, <2>3 DEF FrontendEnds, Ids
  <2> QED BY <1>2, <1>7, <2>3, <2>4, <2>5 DEF FrontendEnds
<1>15. FinishComes(t)
  <2>1. ~Queued(r, id, "finish")
    BY <1>1, <1>3 DEF Good, Held, FinishComes
  <2>2. r.engine = s.engine /\ r.asked = s.asked /\ r.done = s.done
    BY <1>3 DEF SameButQueue
  <2> QED BY <1>2, <1>7, <1>11, <2>1, <2>2 DEF FinishComes
<1>16. \A i \in Living(t) : t.ctn[i] = r.ctn[i]
  BY <1>5, <1>6, <1>8, <1>10 DEF Living
<1>17. \A i \in Living(t) : Arrives(t, i) /\ (i \in Subs => SubArea(t, i))
  BY <1>2, <1>7, <1>10, <1>16 DEF Arrives, Reaches, SubArea
<1>18. \A area : OfArea(s, area) => OfArea(t, area)
  BY <1>2, <1>7, <1>10, <1>16 DEF OfArea, ContentArea, Reaches
<1>19. ~t.late
  BY <1>1, <1>11 DEF Good, Held
<1>20. Kept(s, t)
  BY <1>6, <1>10, <1>12, <1>13, <1>14, <1>15, <1>17, <1>18, <1>19 DEF Kept, Good, Held
<1> QED BY <1>4, <1>20

\* Whatever the first task is, what it does keeps the containers well.
LEMMA PerformKeeps ==
  ASSUME NEW s, NEW r, NEW h, Pop(s, r, h), h \in Task
  PROVE  Kept(s, Perform(r, h))
<1>1. r \in AceStates /\ h.id \in Ids /\ h.v \in Words /\ s \in AceStates /\ Good(s)
  BY PopWords
<1>2. CASE h.op = "start"
  BY <1>2, StartKeeps, Zenon DEF Perform
<1>3. CASE h.op = "state"
  BY <1>3, StateKeeps DEF Perform
<1>4. CASE h.op = "focus"
  BY <1>4, FocusTaskKeeps DEF Perform
<1>5. CASE h.op = "config"
  BY <1>5, ConfigTaskKeeps DEF Perform
<1>6. CASE h.op = "viewport"
  BY <1>6, ViewportTaskKeeps DEF Perform
<1>7. CASE h.op = "size"
  BY <1>7, SizeKeeps DEF Perform
<1>8. CASE h.op = "area"
  BY <1>8, AreaTaskKeeps DEF Perform
<1>9. CASE h.op = "keyboard"
  <2>1. Kept(s, r)
    BY <1>9, PlainKeeps
  <2>2. Perform(r, h) = IF GetPipelineContext(r, h.id) THEN Call(r, h.id) ELSE r
    BY <1>9 DEF Perform
  <2>3. GetPipelineContext(r, h.id) => Call(r, h.id) = r
    BY <1>1, CallIs DEF GetPipelineContext
  <2> QED BY <2>1, <2>2, <2>3
<1>10. CASE h.op = "event"
  <2>1. Kept(s, r)
    BY <1>10, PlainKeeps
  <2>2. Perform(r, h) = IF Upgrade(r, h.id) THEN Call(r, h.id) ELSE r
    BY <1>10 DEF Perform
  <2>3. Upgrade(r, h.id) => Call(r, h.id) = r
    BY <1>1, CallIs, UpgradeFinds
  <2> QED BY <2>1, <2>2, <2>3
<1>11. CASE h.op = "finish"
  BY <1>11, FinishKeeps DEF Perform
<1>12. CASE h.op = "collect"
  <2>1. Kept(s, r)
    BY <1>12, PlainKeeps
  <2>2. Perform(r, h) = IF UpgradeFrontend(r, h.v) THEN CallFrontend(r, h.id, h.v) ELSE r
    BY <1>12 DEF Perform
  <2>3. h.id \in Contents => h.v \notin r.ended
    <3> SUFFICES ASSUME h.id \in Contents
                 PROVE  h.v \notin r.ended
      OBVIOUS
    <3>1. Queued(s, h.id, "collect") /\ r.ended = s.ended
      BY <1>12 DEF Pop, SameButQueue
    <3>2. h.id \notin s.ended
      BY <1>1, <3>1 DEF Good, Held, FrontendEnds
    <3>3. PICK k \in DOMAIN s.queue : s.queue[k] = h
      BY DEF Pop
    <3>4. Is(s, k, h.id, "collect")
      BY <1>12, <3>3 DEF Is
    <3>5. h.v = h.id
      BY <1>1, <3>3, <3>4 DEF Good, Held, FrontendEnds
    <3> QED BY <3>1, <3>2, <3>5
  <2>4. CallFrontend(r, h.id, h.v) = r
    BY <1>1, <2>3, CallFrontendIs
  <2> QED BY <2>1, <2>2, <2>4
<1>13. CASE h.op = "endPipeline"
  BY <1>13, EndPipelineKeeps DEF Perform
<1>14. CASE h.op = "endFrontend"
  BY <1>14, EndFrontendKeeps DEF Perform
<1>15. CASE h.op = "remove"
  BY <1>15, RemoveKeeps DEF Perform
<1> QED
  BY <1>2, <1>3, <1>4, <1>5, <1>6, <1>7, <1>8, <1>9, <1>10, <1>11, <1>12, <1>13, <1>14, <1>15 DEF Task

-----------------------------------------------------------------------------
(***************************************************************************)
(* The calls.                                                              *)
(***************************************************************************)
\* The invariant, of the containers s and the window w.
Well(s, w) ==
  /\ s \in AceStates /\ Good(s)
  /\ Living(s) \cap Contents = {w.content} \ {None}
  /\ w.content \in ToSet(w.listeners) \cup {None}
  /\ RegisteredOnce(w)
  /\ ~w.insetsChanged => w.avoidArea \in {None, w.insets}
  /\ (w.insetsChanged => w.avoidArea = w.insets) => OfArea(s, w.insets)

LEMMA WellIs ==
  ASSUME AceTypes
  PROVE  AceInv <=> Well(ace, window)
BY DEF AceTypes, AceInv, Well, Good, Held, NoLateCall, AreaArrives, OfArea

\* The window has the content it had, and knows of the avoid area what it knew.
SameContent(w, x) ==
  /\ x.content = w.content /\ x.listeners = w.listeners /\ x.registered = w.registered
  /\ x.insets = w.insets /\ x.avoidArea = w.avoidArea /\ x.insetsChanged = w.insetsChanged

LEMMA WellKept ==
  ASSUME NEW s, NEW t, NEW w, NEW x, Well(s, w), Kept(s, t), SameContent(w, x)
  PROVE  Well(t, x)
BY DEF Well, Kept, SameContent, Good, Held, RegisteredOnce

\* The window's content lives, alone among the contents.
LEMMA ContentLives ==
  ASSUME NEW s, NEW w \in WindowStates, Well(s, w), w.content # None
  PROVE  /\ w.content \in Living(s) /\ w.content \in Contents
         /\ Living(s) \cap Contents = {w.content}
         /\ w.content \in ToSet(w.listeners)
BY DEF Well, WindowStates

\* A container with its view lives.
LEMMA ViewLives ==
  ASSUME NEW s, Good(s), NEW id \in Ids, s.ctn[id].view
  PROVE  id \in Living(s)
BY DEF Good, Held, Named

\* A popup that is destroyed leaves the content's area as it was.
LEMMA DestroySubKeeps ==
  ASSUME NEW s \in AceStates, NEW id \in Living(s), Good(s), id \in Subs
  PROVE  LET t == Destroy(s, id) IN
         /\ Good(t) /\ Living(t) \cap Contents = Living(s) \cap Contents
         /\ \A area : OfArea(s, area) => OfArea(t, area)
<1> DEFINE t == Destroy(s, id)
<1>1. id \notin Contents
  BY AceAssumption
<1>2. Good(t) /\ Living(t) = Living(s) \ {id} /\ \A i \in Ids \ {id} : t.ctn[i] = s.ctn[i]
  BY <1>1, DestroyKeeps
<1>3. OnlyEnds(s, t, id)
  BY DestroyIs
<1> HIDE DEF t
<1>4. ASSUME NEW i \in Living(s) \cap Contents, NEW area, ContentArea(s, i, area)
      PROVE  ContentArea(t, i, area)
  <2>1. t.ctn[i] = s.ctn[i]
    BY <1>1, <1>2 DEF Ids
  <2>2. /\ Queued(t, i, "area") <=> Queued(s, i, "area")
        /\ \A w : LastSays(t, i, "area", w) <=> LastSays(s, i, "area", w)
    BY <1>3 DEF OnlyEnds, Ends
  <2> QED BY <1>4, <2>1, <2>2 DEF ContentArea, Reaches
<1>5. Living(t) \cap Contents = Living(s) \cap Contents
  BY <1>1, <1>2
<1>6. \A area : OfArea(s, area) => OfArea(t, area)
  BY <1>4, <1>5 DEF OfArea
<1> QED BY <1>2, <1>5, <1>6 DEF t

\* What asks a container at once finds its pipeline, or does nothing.
LEMMA AtOnceIs ==
  ASSUME NEW s \in AceStates, NEW id \in Ids
  PROVE  SetBackgroundColor(AtOnce(s, id), id) = s
<1>1. GetPipelineContext(s, id) => Call(s, id) = s
  BY CallIs DEF GetPipelineContext
<1>2. AtOnce(s, id) = s
  BY <1>1 DEF AtOnce
<1>3. PostSyncTask(s, id) = s
  BY <1>1 DEF PostSyncTask
<1> QED BY <1>2, <1>3 DEF SetBackgroundColor

\* An ability that is asked to finish has the task queued, before its container is removed.
LEMMA AskKeeps ==
  ASSUME NEW s \in AceStates, Good(s), NEW id \in Contents, id \notin s.asked,
         GetPipelineContext(s, id)
  PROVE  Kept(s, PostTask([s EXCEPT !.asked = @ \cup {id}], "finish", id, None))
<1> DEFINE r == [s EXCEPT !.asked = s.asked \cup {id}]
           t == PostTask(r, "finish", id, None)
<1>1. id \in Living(s) /\ id \in Ids
  BY DEF Living, Ids
<1>2. /\ r \in AceStates /\ r.queue = s.queue /\ r.asked = s.asked \cup {id} /\ r.ctn = s.ctn
      /\ r.engine = s.engine /\ r.windowIds = s.windowIds /\ r.modules = s.modules
      /\ r.observers = s.observers /\ r.adapters = s.adapters /\ r.late = s.late
      /\ r.ended = s.ended /\ r.done = s.done
  BY DEF AceStates
<1> HIDE DEF r
<1>3. "finish" \in OpsOfTasks /\ None \in Words
  BY DEF OpsOfTasks, Words
<1>4. /\ t \in AceStates /\ SameButQueue(r, t)
      /\ t.queue = Append(r.queue, [op |-> "finish", id |-> id, v |-> None])
  BY <1>1, <1>2, <1>3, PostIs
<1> HIDE DEF t
<1>5. t.queue = Append(s.queue, [op |-> "finish", id |-> id, v |-> None])
  BY <1>2, <1>4
<1>6. /\ \A id2, op2 : Queued(t, id2, op2) <=> Queued(s, id2, op2) \/ (id2 = id /\ op2 = "finish")
      /\ \A id2, op2, end : Before(s, id2, op2, end)
                              /\ (id2 = id /\ op2 = "finish" => ~Queued(s, id, end) /\ "finish" # end)
                                => Before(t, id2, op2, end)
      /\ \A id2, op2, w : ~(id2 = id /\ op2 = "finish") =>
                               (LastSays(s, id2, op2, w) <=> LastSays(t, id2, op2, w))
      /\ \A i \in DOMAIN t.queue :
              \/ i \in DOMAIN s.queue /\ t.queue[i] = s.queue[i]
              \/ i = Len(s.queue) + 1 /\ i \notin DOMAIN s.queue /\ t.queue[i] = [op |-> "finish", id |-> id, v |-> None]
  BY <1>4, <1>5, Posted
<1>7. /\ t.ctn = s.ctn /\ t.asked = s.asked \cup {id}
      /\ t.engine = s.engine /\ t.windowIds = s.windowIds /\ t.modules = s.modules
      /\ t.observers = s.observers /\ t.adapters = s.adapters /\ t.late = s.late
      /\ t.ended = s.ended /\ t.done = s.done
  BY <1>2, <1>4 DEF SameButQueue
<1>8. Living(t) = Living(s)
  BY <1>7 DEF Living, GetPipelineContext
<1>9. id \in s.engine /\ ~Queued(s, id, "remove") /\ s.ctn[id].pipe = "live"
  BY <1>1 DEF Good, Held, Named, Living, GetPipelineContext
<1>10. Named(t)
  BY <1>6, <1>7, <1>8 DEF Good, Held, Named
<1>11. ASSUME NEW k \in DOMAIN t.queue, NEW i, NEW op, Is(t, k, i, op), op # "finish" \/ i # id
       PROVE  k \in DOMAIN s.queue /\ Is(s, k, i, op) /\ t.queue[k] = s.queue[k]
  BY <1>6, <1>11 DEF Is
<1>12. PipelineEnds(t)
  <2> SUFFICES ASSUME NEW i \in Ids
               PROVE  /\ t.ctn[i].pipe = "none" => \A k \in DOMAIN t.queue : t.queue[k].id # i
                      /\ \A op \in {"start", "area"} :
                           /\ Queued(t, i, op) => t.ctn[i].pipe \in {"live", "leaving"}
                           /\ Before(t, i, op, "endPipeline")
                      /\ Queued(t, i, "endPipeline") => t.ctn[i].pipe = "leaving"
                      /\ \A k, j \in DOMAIN t.queue :
                           Is(t, k, i, "endPipeline") /\ Is(t, j, i, "endPipeline") => k = j
    BY DEF PipelineEnds
  <2>1. t.ctn[i].pipe = "none" => \A k \in DOMAIN t.queue : t.queue[k].id # i
    BY <1>6, <1>7, <1>9 DEF Good, Held, PipelineEnds
  <2>2. \A op \in {"start", "area"} :
          /\ Queued(t, i, op) => t.ctn[i].pipe \in {"live", "leaving"}
          /\ Before(t, i, op, "endPipeline")
    BY <1>6, <1>7 DEF Good, Held, PipelineEnds
  <2>3. Queued(t, i, "endPipeline") => t.ctn[i].pipe = "leaving"
    BY <1>6, <1>7 DEF Good, Held, PipelineEnds
  <2>4. \A k, j \in DOMAIN t.queue :
          Is(t, k, i, "endPipeline") /\ Is(t, j, i, "endPipeline") => k = j
    BY <1>11 DEF Good, Held, PipelineEnds
  <2> QED BY <2>1, <2>2, <2>3, <2>4
<1>13. FrontendEnds(t)
  <2>1. \A i \in Ids : t.ctn[i].pipe = "none" => t.ctn[i].front = None /\ i \notin t.ended
    BY <1>7 DEF Good, Held, FrontendEnds
  <2>2. \A i \in Subs : ~Queued(t, i, "endFrontend")
    BY <1>6 DEF Good, Held, FrontendEnds
  <2>3. ASSUME NEW i \in Contents
        PROVE  /\ t.ctn[i].front # None => t.ctn[i].front = i /\ i \notin t.ended
               /\ Queued(t, i, "endFrontend") => t.ctn[i].front = None
               /\ \A op \in {"start", "collect"} :
                    (Queued(t, i, op) => i \notin t.ended) /\ Before(t, i, op, "endFrontend")
    BY <1>6, <1>7 DEF Good, Held, FrontendEnds
  <2>4. ASSUME NEW i \in Contents, NEW k \in DOMAIN t.queue, Is(t, k, i, "collect")
        PROVE  t.queue[k].v = i
    BY <1>11, <2>4 DEF Good, Held, FrontendEnds
  <2> QED BY <2>1, <2>2, <2>3, <2>4 DEF FrontendEnds
<1>14. FinishComes(t)
  BY <1>6, <1>7, <1>9 DEF Good, Held, FinishComes
<1>15. ASSUME NEW i \in Living(s)
       PROVE  Arrives(t, i) /\ (i \in Subs => SubArea(t, i))
  BY <1>6, <1>7 DEF Good, Arrives, SubArea, Reaches
<1>16. \A area : OfArea(s, area) => OfArea(t, area)
  BY <1>6, <1>7, <1>8 DEF OfArea, ContentArea, Reaches
<1>17. Good(t)
  BY <1>4, <1>7, <1>8, <1>10, <1>12, <1>13, <1>14, <1>15 DEF Good, Held
<1> QED BY <1>8, <1>16, <1>17 DEF Kept, t, r

\* A new content is loaded in the place of the old one.
LEMMA SetContentKeeps ==
  ASSUME AceTypes, Well(ace, window), NEW id \in Contents, NEW behind \in BOOLEAN,
         WindowSetUIContent(id, behind)
  PROVE  window' \in WindowStates /\ Well(ace', window')
<1> DEFINE left == IF HasUIContent THEN Destroy(ace, window.content) ELSE ace
           made == Initialize(left, id, window.insets)
           shown == IF window.isWindowShow /\ ~behind THEN Foreground(made, id) ELSE made
           last == DelayNotify(SetIgnoreViewSafeArea(shown, id), id)
           w == window'
<1> DEFINE v == [window EXCEPT !.content = id, !.listeners = Append(@, id),
                               !.delayNotifyFocusChanged = FALSE, !.delayNotifySurfaceDestroyed = FALSE]
<1>1. /\ ace' = last /\ ace.ctn[id].pipe = "none"
      /\ w = IF HasUIContent THEN DeleteContent(AddUIContent(v, id)) ELSE AddUIContent(v, id)
  BY DEF WindowSetUIContent
<1>2. ace \in AceStates /\ window \in WindowStates /\ Good(ace) /\ id \in Ids
  BY DEF AceTypes, Well, Ids
<1>3. /\ window.insets \in Areas /\ window.listeners \in Seq(Contents)
  BY <1>2 DEF WindowStates
<1>4. Good(left) /\ left.ctn[id].pipe = "none" /\ Living(left) \cap Contents = {}
  <2>1. CASE HasUIContent
    <3>1. /\ window.content \in Living(ace) /\ window.content \in Contents
          /\ Living(ace) \cap Contents = {window.content}
      BY <1>2, <2>1, ContentLives DEF HasUIContent
    <3>2. id # window.content
      BY <1>1, <3>1 DEF Living, GetPipelineContext
    <3>3. /\ Good(Destroy(ace, window.content))
          /\ Living(Destroy(ace, window.content)) = Living(ace) \ {window.content}
          /\ \A i \in Ids \ {window.content} : Destroy(ace, window.content).ctn[i] = ace.ctn[i]
      BY <1>2, <3>1, DestroyKeeps
    <3>4. left = Destroy(ace, window.content)
      BY <2>1
    <3> QED BY <1>1, <1>2, <3>1, <3>2, <3>3, <3>4
  <2>2. CASE ~HasUIContent
    BY <1>1, <1>2, <2>2 DEF Well, HasUIContent
  <2> QED BY <2>1, <2>2
<1> HIDE DEF left
<1>5. left \in AceStates
  BY <1>4 DEF Good, Held
<1>6. Good(made) /\ Living(made) = Living(left) \cup {id} /\ ContentArea(made, id, window.insets)
  BY <1>3, <1>4, <1>5, InitializeKeeps
<1> HIDE DEF made
<1>7. made \in AceStates /\ Living(made) \cap Contents = {id}
  BY <1>4, <1>6 DEF Good, Held
<1>8. OfArea(made, window.insets)
  BY <1>6, <1>7, OnlyOfArea
<1>9. made \in AceStates /\ Good(made) /\ id \in Living(made)
  BY <1>6, <1>7
<1>10. Kept(made, shown)
  BY <1>9, ForegroundKeeps, KeptSame
<1> HIDE DEF shown
<1>12. /\ shown \in AceStates /\ Good(shown) /\ id \in Living(shown)
       /\ Living(shown) \cap Contents = {id} /\ OfArea(shown, window.insets)
  BY <1>7, <1>8, <1>9, <1>10 DEF Kept, Good, Held
<1>13. last = DelayNotify(shown, id)
  BY <1>12, ThroughKeeps
<1>14. Good(last) /\ Living(last) = Living(shown) /\ OfArea(last, window.insets)
  BY <1>2, <1>12, <1>13, DelayKeeps
<1> HIDE DEF last
<1>15. Append(window.listeners, id) \in Seq(Contents) /\ id \in ToSet(Append(window.listeners, id))
  <2>1. Append(window.listeners, id) \in Seq(Contents) /\ Len(window.listeners) \in Nat
        /\ Len(window.listeners) + 1 \in DOMAIN Append(window.listeners, id)
        /\ Append(window.listeners, id)[Len(window.listeners) + 1] = id
    BY <1>3, AppendProperties, LenProperties
  <2> QED BY <2>1 DEF ToSet
<1>16. /\ w \in WindowStates /\ w.content = id /\ w.listeners = Append(window.listeners, id)
       /\ w.insets = window.insets /\ w.avoidArea = window.avoidArea
       /\ w.insetsChanged = window.insetsChanged
       /\ w.registered = IF HasUIContent THEN None ELSE id
  <2>1. /\ v \in WindowStates /\ v.content = id /\ v.listeners = Append(window.listeners, id)
        /\ v.insets = window.insets /\ v.avoidArea = window.avoidArea
        /\ v.insetsChanged = window.insetsChanged
    BY <1>2, <1>15 DEF WindowStates
  <2> HIDE DEF v, w
  <2>2. \A i \in Contents \cup {None} :
          LET x == [v EXCEPT !.registered = i]
          IN  /\ x \in WindowStates /\ x.content = v.content /\ x.listeners = v.listeners
              /\ x.insets = v.insets /\ x.avoidArea = v.avoidArea
              /\ x.insetsChanged = v.insetsChanged /\ x.registered = i
    BY <2>1 DEF WindowStates
  <2>3. DeleteContent(AddUIContent(v, id)) = [v EXCEPT !.registered = None]
    BY <2>1 DEF DeleteContent, AddUIContent, WindowStates
  <2>4. w = [v EXCEPT !.registered = IF HasUIContent THEN None ELSE id]
    BY <1>1, <2>3 DEF AddUIContent
  <2> QED BY <2>1, <2>2, <2>4
<1> HIDE DEF w, v
<1>17. id # None
  BY AceAssumption
<1>18. RegisteredOnce(w)
  <2>1. Len(window.listeners) \in Nat /\ Len(w.listeners) = Len(window.listeners) + 1
    BY <1>3, <1>16, AppendProperties, LenProperties
  <2>2. CASE HasUIContent
    <3>1. window.content \in ToSet(window.listeners)
      BY <1>2, <2>2, ContentLives DEF HasUIContent
    <3>2. DOMAIN window.listeners = 1 .. Len(window.listeners) /\ DOMAIN window.listeners # {}
      BY <1>3, <3>1, LenProperties DEF ToSet
    <3>3. Len(w.listeners) # 1
      BY <2>1, <3>2
    <3> QED BY <1>16, <1>17, <2>2, <3>3 DEF RegisteredOnce
  <2>3. CASE ~HasUIContent
    <3>1. window.listeners = <<>>
      BY <2>3 DEF HasUIContent, Well, RegisteredOnce
    <3>2. Len(w.listeners) = 1
      BY <2>1, <3>1
    <3> QED BY <1>16, <1>17, <2>3, <3>2 DEF RegisteredOnce
  <2> QED BY <2>2, <2>3
<1>19. Well(last, w)
  BY <1>12, <1>14, <1>15, <1>16, <1>17, <1>18 DEF Well, Good, Held
<1> QED BY <1>1, <1>16, <1>19 DEF w

\* The window goes, and its popups with it, in the order they happen to be listed.
LEMMA WindowDestroyKeeps ==
  ASSUME AceTypes, Well(ace, window), WindowDestroy
  PROVE  window' \in WindowStates /\ Well(ace', window')
<1>1. ace \in AceStates /\ window \in WindowStates /\ Good(ace) /\ HasUIContent
  BY DEF AceTypes, Well, WindowDestroy
<1>2. PICK subWindows \in SetToSeqs(Subs) :
        ace' = ForEach(DestroySubWindow, Destroy(ace, window.content), subWindows)
  BY DEF WindowDestroy
<1>3. subWindows \in Seq(Subs)
  <2>1. Cardinality(Subs) \in Nat
    BY AceAssumption, FS_CardinalityType
  <2>2. subWindows \in [1 .. Cardinality(Subs) -> Subs]
    BY <1>2 DEF SetToSeqs
  <2> QED BY <2>1, <2>2
<1>4. /\ window.content \in Living(ace) /\ window.content \in Contents
      /\ Living(ace) \cap Contents = {window.content}
  BY <1>1, ContentLives DEF HasUIContent
<1> DEFINE left == Destroy(ace, window.content)
           last == ForEach(DestroySubWindow, left, subWindows)
<1>5. Good(left) /\ Living(left) = Living(ace) \ {window.content}
  BY <1>1, <1>4, DestroyKeeps
<1> HIDE DEF left
<1>6. left \in AceStates /\ Good(left) /\ Living(left) \cap Contents = {}
  BY <1>4, <1>5 DEF Good, Held
<1>8. Good(last) /\ Living(last) \cap Contents = {}
  BY <1>3, <1>6, DestroyAllKeeps
<1>9. ace' = last
  BY <1>2 DEF left
<1> HIDE DEF last
<1>10. /\ window' \in WindowStates /\ window'.content = None /\ window'.listeners = <<>>
       /\ window'.registered = None
       /\ window'.insets = window.insets /\ window'.avoidArea = window.avoidArea
       /\ window'.insetsChanged = window.insetsChanged
  <2> DEFINE v == [window EXCEPT !.content = None, !.isWindowShow = FALSE, !.listeners = <<>>]
  <2>1. window' = DeleteContent(v)
    BY DEF WindowDestroy
  <2>2. <<>> \in Seq(Contents)
    OBVIOUS
  <2>3. /\ v \in WindowStates /\ v.content = None /\ v.listeners = <<>>
        /\ v.insets = window.insets /\ v.avoidArea = window.avoidArea
        /\ v.insetsChanged = window.insetsChanged
    BY <1>1, <2>2 DEF WindowStates
  <2> HIDE DEF v
  <2> QED BY <2>1, <2>3 DEF WindowStates, DeleteContent
<1>11. Well(last, window')
  BY <1>8, <1>10 DEF Well, Good, Held, OfArea, RegisteredOnce
<1> QED BY <1>9, <1>10, <1>11

\* What a window without a content, or with one, does that keeps the containers well.
LEMMA ShownKeeps ==
  ASSUME AceTypes, Well(ace, window), WindowForeground \/ WindowBackground
  PROVE  window' \in WindowStates /\ Well(ace', window')
<1>1. ace \in AceStates /\ window \in WindowStates /\ Good(ace)
  BY DEF AceTypes, Well
<1>2. Kept(ace, ace')
  <2>1. CASE HasUIContent
    <3>1. window.content \in Living(ace)
      BY <1>1, <2>1, ContentLives DEF HasUIContent
    <3>2. Kept(ace, Foreground(ace, window.content)) /\ Kept(ace, Background(ace, window.content))
      BY <1>1, <3>1, ForegroundKeeps
    <3>3. ace' = Foreground(ace, window.content) \/ ace' = Background(ace, window.content)
      BY <2>1 DEF WindowForeground, WindowBackground
    <3> QED BY <3>2, <3>3
  <2>2. CASE ~HasUIContent
    BY <1>1, <2>2, KeptSame DEF WindowForeground, WindowBackground
  <2> QED BY <2>1, <2>2
<1>3. window' \in WindowStates /\ SameContent(window, window')
  BY <1>1 DEF WindowForeground, WindowBackground, WindowStates, SameContent
<1> QED BY <1>2, <1>3, WellKept

LEMMA FocusChangedKeeps ==
  ASSUME AceTypes, Well(ace, window), NEW focus \in BOOLEAN, FocusChanged(focus)
  PROVE  window' \in WindowStates /\ Well(ace', window')
<1>1. ace \in AceStates /\ window \in WindowStates /\ Good(ace)
  BY DEF AceTypes, Well
<1>2. Kept(ace, ace')
  <2>1. CASE HasUIContent
    <3>1. window.content \in Living(ace)
      BY <1>1, <2>1, ContentLives DEF HasUIContent
    <3>2. Kept(ace, Focus(ace, window.content)) /\ Kept(ace, UnFocus(ace, window.content))
      BY <1>1, <3>1, FocusKeeps
    <3>3. ace' = Focus(ace, window.content) \/ ace' = UnFocus(ace, window.content)
      BY <2>1 DEF FocusChanged
    <3> QED BY <3>2, <3>3
  <2>2. CASE ~HasUIContent
    BY <1>1, <2>2, KeptSame DEF FocusChanged
  <2> QED BY <2>1, <2>2
<1>3. window' \in WindowStates /\ SameContent(window, window')
  BY <1>1 DEF FocusChanged, WindowStates, SameContent, HasUIContent
<1> QED BY <1>2, <1>3, WellKept

LEMMA SurfaceDestroyedKeeps ==
  ASSUME AceTypes, Well(ace, window), SurfaceDestroyed
  PROVE  window' \in WindowStates /\ Well(ace', window')
<1>1. ace \in AceStates /\ window \in WindowStates /\ Good(ace)
  BY DEF AceTypes, Well
<1>2. Kept(ace, ace')
  <2>1. CASE HasUIContent
    <3>1. window.content \in Living(ace)
      BY <1>1, <2>1, ContentLives DEF HasUIContent
    <3>2. ace' = NotifySurfaceDestroyed(ace, window.content)
      BY <2>1 DEF SurfaceDestroyed
    <3> QED BY <1>1, <3>1, <3>2, ThroughKeeps
  <2>2. CASE ~HasUIContent
    BY <1>1, <2>2, KeptSame DEF SurfaceDestroyed
  <2> QED BY <2>1, <2>2
<1>3. window' \in WindowStates /\ SameContent(window, window')
  BY <1>1 DEF SurfaceDestroyed, WindowStates, SameContent, HasUIContent
<1> QED BY <1>2, <1>3, WellKept

\* The size is passed on; what the content knows of the avoid area stays right.
LEMMA SurfaceChangedKeeps ==
  ASSUME AceTypes, Well(ace, window), NEW size \in Sizes, SurfaceChanged(size)
  PROVE  window' \in WindowStates /\ Well(ace', window')
<1>1. ace \in AceStates /\ window \in WindowStates /\ Good(ace)
  BY DEF AceTypes, Well
<1>2. window' \in WindowStates /\ SameContent(window, window')
  BY <1>1 DEF SurfaceChanged, WindowStates, SameContent
<1>3. CASE HasUIContent
  <2> DEFINE id == window.content
             t == UpdateViewportConfig(ace, window.content, size, window.insets)
  <2>1. id \in Living(ace) /\ id \in Contents /\ Living(ace) \cap Contents = {id}
    BY <1>1, <1>3, ContentLives DEF HasUIContent
  <2>2. window.insets \in Areas
    BY <1>1 DEF WindowStates
  <2>3. /\ Good(t) /\ Living(t) = Living(ace)
        /\ LastSays(ace, id, "area", window.insets) \/ ~Queued(ace, id, "area") => ContentArea(t, id, window.insets)
    BY <1>1, <2>1, <2>2, ViewportKeeps
  <2>4. ace' = t
    BY <1>3 DEF SurfaceChanged
  <2> HIDE DEF t
  <2>5. OfArea(ace, window.insets) => OfArea(t, window.insets)
    BY <2>1, <2>3 DEF OfArea, ContentArea, Reaches
  <2>6. Well(t, window')
    BY <1>2, <2>3, <2>5 DEF Well, SameContent, Good, Held, RegisteredOnce
  <2> QED BY <1>2, <2>4, <2>6
<1>4. CASE ~HasUIContent
  <2>1. ace' = ace
    BY <1>4 DEF SurfaceChanged
  <2> QED BY <1>1, <1>2, <2>1, KeptSame, WellKept
<1> QED BY <1>3, <1>4

\* The insets change, of which the window is still to tell its content.
LEMMA InsetsChangeKeeps ==
  ASSUME AceTypes, Well(ace, window), NEW area \in Areas, InsetsChange(area)
  PROVE  window' \in WindowStates /\ Well(ace', window')
<1>1. window \in WindowStates
  BY DEF AceTypes
<1>2. /\ ace' = ace /\ ~window.insetsChanged
      /\ window' = [window EXCEPT !.insets = area, !.insetsChanged = TRUE]
  BY DEF InsetsChange
<1>3. /\ window' \in WindowStates /\ window'.content = window.content /\ window'.listeners = window.listeners
      /\ window'.registered = window.registered
      /\ window'.insets = area /\ window'.avoidArea = window.avoidArea /\ window'.insetsChanged
  BY <1>1, <1>2 DEF WindowStates
<1>4. None \notin Areas
  BY AceAssumption
<1>5. window.avoidArea = area => OfArea(ace, area)
  BY <1>2, <1>4 DEF Well
<1> QED BY <1>2, <1>3, <1>5 DEF Well, RegisteredOnce

\* The avoid area is told by the listeners' tasks and, to the content, at once as well.
LEMMA SafeAreaChangedKeeps ==
  ASSUME AceTypes, Well(ace, window), SafeAreaChanged
  PROVE  window' \in WindowStates /\ Well(ace', window')
<1> DEFINE area == window.insets
           heard == NotifyAvoidAreaChange(ace, area)
           id == window.content
           t == UpdateViewportConfig(heard, id, window.surface, area)
<1>1. /\ ace \in AceStates /\ window \in WindowStates /\ Good(ace) /\ area \in Areas
      /\ window.listeners \in Seq(Contents) /\ window.surface \in Sizes \cup {None}
  BY DEF AceTypes, Well, WindowStates
<1>2. /\ window.insetsChanged
      /\ ace' = IF window.avoidArea = area THEN ace ELSE IF HasUIContent THEN t ELSE heard
      /\ window' = [window EXCEPT !.avoidArea = window.insets, !.insetsChanged = FALSE]
  BY Zenon DEF SafeAreaChanged
<1>3. /\ window' \in WindowStates /\ window'.content = id /\ window'.listeners = window.listeners
      /\ window'.insets = area /\ window'.avoidArea = area /\ ~window'.insetsChanged
      /\ RegisteredOnce(window) /\ window'.registered = window.registered
  BY <1>1, <1>2 DEF Well, WindowStates
<1>4. /\ Good(heard) /\ Living(heard) = Living(ace)
      /\ \A i \in Living(ace) : i \in ToSet(window.listeners) => LastSays(heard, i, "area", area)
  BY <1>1, NotifyKeeps DEF NotifyAvoidAreaChange
<1> HIDE DEF heard
<1>9. RegisteredOnce(window')
  BY <1>3 DEF RegisteredOnce
<1>5. CASE window.avoidArea = area
  BY <1>2, <1>3, <1>5, <1>9 DEF Well
<1>6. CASE window.avoidArea # area /\ HasUIContent
  <2>1. /\ id \in Living(ace) /\ id \in Contents /\ Living(ace) \cap Contents = {id}
        /\ id \in ToSet(window.listeners)
    BY <1>1, <1>6, ContentLives DEF HasUIContent
  <2>2. heard \in AceStates /\ id \in Living(heard) /\ LastSays(heard, id, "area", area)
    BY <1>4, <2>1 DEF Good, Held
  <2>3. Good(t) /\ Living(t) = Living(heard) /\ ContentArea(t, id, area)
    BY <1>1, <1>4, <2>1, <2>2, ViewportKeeps
  <2> HIDE DEF t
  <2>4. OfArea(t, area)
    BY <1>4, <2>1, <2>3, OnlyOfArea
  <2>5. ace' = t
    BY <1>2, <1>6
  <2>6. Well(t, window')
    BY <1>3, <1>4, <1>9, <2>3, <2>4 DEF Well, Good, Held
  <2> QED BY <1>3, <2>5, <2>6
<1>7. CASE window.avoidArea # area /\ ~HasUIContent
  <2>1. ace' = heard
    BY <1>2, <1>7
  <2>2. Living(heard) \cap Contents = {}
    BY <1>4, <1>7 DEF Well, HasUIContent
  <2>3. Well(heard, window')
    BY <1>3, <1>4, <1>7, <1>9, <2>2 DEF Well, Good, Held, OfArea, HasUIContent
  <2> QED BY <1>3, <2>1, <2>3
<1> QED BY <1>5, <1>6, <1>7

\* The calls that leave the window as it is.
LEMMA ContentCallKeeps ==
  ASSUME AceTypes, Well(ace, window),
         \/ OccupiedAreaChanged \/ OnNewWant \/ DispatchTouchEvent
         \/ \E config \in Configs : ConfigurationUpdated(config)
  PROVE  Kept(ace, ace') /\ window' = window
<1>1. /\ ace \in AceStates /\ window \in WindowStates /\ Good(ace)
      /\ window.listeners \in Seq(Contents)
  BY DEF AceTypes, Well, WindowStates
<1>2. CASE OccupiedAreaChanged
  BY <1>1, <1>2, OccupiedKeeps DEF OccupiedAreaChanged
<1> DEFINE id == window.content
<1>3. HasUIContent => id \in Living(ace)
  BY <1>1, ContentLives DEF HasUIContent
<1>4. CASE OnNewWant
  <2>1. id \in Living(ace) /\ ace' = ToFrontend(Foreground(ace, id), id) /\ window' = window
    BY <1>3, <1>4 DEF OnNewWant, Foreground
  <2>2. Kept(ace, Foreground(ace, id))
    BY <1>1, <2>1, ForegroundKeeps
  <2> DEFINE t == Foreground(ace, id)
  <2>3. t \in AceStates /\ Good(t) /\ id \in Living(t)
    BY <2>1, <2>2 DEF Kept, Good, Held
  <2>4. ace' = t
    BY <2>1, <2>3, ThroughKeeps
  <2> QED BY <2>1, <2>2, <2>4
<1>5. CASE DispatchTouchEvent
  <2>1. id \in Living(ace) /\ (ace' = ThroughView(Call(ace, id), id) \/ ace' = ace) /\ window' = window
    BY <1>3, <1>5 DEF DispatchTouchEvent
  <2>2. Call(ace, id) = ace /\ Kept(ace, ThroughView(ace, id))
    BY <1>1, <2>1, ThroughKeeps
  <2> QED BY <1>1, <2>1, <2>2, KeptSame
<1>6. ASSUME NEW config \in Configs, ConfigurationUpdated(config)
      PROVE  Kept(ace, ace') /\ window' = window
  BY <1>1, <1>3, <1>6, ConfigurationKeeps DEF ConfigurationUpdated
<1> QED BY <1>2, <1>4, <1>5, <1>6

\* The calls of a container from outside its window.
LEMMA ContainerCallKeeps ==
  ASSUME AceTypes, Well(ace, window),
         \/ \E id \in Subs : ShowSub(id) \/ HideSub(id)
         \/ \E id \in Ids : AskedAtOnce(id)
         \/ \E id \in Contents : AskFinish(id)
  PROVE  Kept(ace, ace') /\ window' = window
<1>1. ace \in AceStates /\ Good(ace)
  BY DEF AceTypes, Well
<1>2. ASSUME NEW id \in Subs, ShowSub(id) \/ HideSub(id)
      PROVE  Kept(ace, ace') /\ window' = window
  <2>1. id \in Living(ace)
    BY <1>1, <1>2, ViewLives DEF ShowSub, HideSub, Ids
  <2> QED BY <1>1, <1>2, <2>1, ForegroundKeeps DEF ShowSub, HideSub
<1>3. ASSUME NEW id \in Ids, AskedAtOnce(id)
      PROVE  Kept(ace, ace') /\ window' = window
  BY <1>1, <1>3, AtOnceIs, KeptSame DEF AskedAtOnce
<1>4. ASSUME NEW id \in Contents, AskFinish(id)
      PROVE  Kept(ace, ace') /\ window' = window
  BY <1>1, <1>4, AskKeeps DEF AskFinish
<1> QED BY <1>2, <1>3, <1>4

\* A popup comes and goes.
LEMMA PopupKeeps ==
  ASSUME AceTypes, Well(ace, window), NEW id \in Subs, CreateSub(id) \/ DestroySub(id)
  PROVE  window' = window /\ Well(ace', window')
<1>1. ace \in AceStates /\ window \in WindowStates /\ Good(ace) /\ id \in Ids /\ id \notin Contents
  BY AceAssumption DEF AceTypes, Well, Ids
<1>2. window' = window
  BY DEF CreateSub, DestroySub
<1>3. CASE CreateSub(id)
  <2>1. window.content \in Contents
    BY <1>1, <1>3, ContentLives DEF CreateSub, HasUIContent
  <2> DEFINE t == SetView(InitializeSubWindow(ace, id), id, window.content)
  <2>2. Good(t) /\ Living(t) = Living(ace) \cup {id} /\ \A area : OfArea(ace, area) => OfArea(t, area)
    BY <1>1, <1>3, <2>1, CreateSubKeeps DEF CreateSub
  <2>3. ace' = t
    BY <1>3 DEF CreateSub
  <2> HIDE DEF t
  <2>4. Well(t, window)
    BY <1>1, <2>2 DEF Well, Good, Held
  <2> QED BY <1>2, <2>3, <2>4
<1>4. CASE DestroySub(id)
  <2>1. id \in Living(ace) /\ ace' = Destroy(ace, id)
    BY <1>1, <1>4, ViewLives DEF DestroySub
  <2> DEFINE t == Destroy(ace, id)
  <2>2. /\ Good(t) /\ Living(t) \cap Contents = Living(ace) \cap Contents
        /\ \A area : OfArea(ace, area) => OfArea(t, area)
    BY <1>1, <2>1, DestroySubKeeps
  <2> HIDE DEF t
  <2>3. Well(t, window)
    BY <2>2 DEF Well, Good, Held
  <2> QED BY <1>2, <2>1, <2>3 DEF t
<1> QED BY <1>3, <1>4

-----------------------------------------------------------------------------
(***************************************************************************)
(* The invariant.                                                          *)
(***************************************************************************)
LEMMA InitWell ==
  ASSUME AceInit
  PROVE  AceTypes /\ Well(ace, window)
<1>1. Unknown \in Knowledge
  BY DEF Unknown, Knowledge, Words
<1>2. Fresh \in ContainerStates /\ Fresh.pipe = "none" /\ Fresh.view = FALSE /\ Fresh.front = None
  BY <1>1 DEF Fresh, ContainerStates
<1>3. ace = [ctn |-> [id \in Ids |-> Fresh], engine |-> {}, windowIds |-> {}, modules |-> {},
            observers |-> {}, adapters |-> {}, queue |-> <<>>,
            late |-> FALSE, ended |-> {}, asked |-> {}, done |-> {}]
  BY DEF AceInit
<1>4. <<>> \in Seq(Task) /\ <<>> \in Seq(Contents) /\ DOMAIN <<>> = {}
  OBVIOUS
<1>5. ace \in AceStates
  BY <1>2, <1>3, <1>4 DEF AceStates
<1>6. /\ \A id \in Ids : ace.ctn[id] = Fresh
      /\ ace.engine = {} /\ ace.windowIds = {} /\ ace.modules = {} /\ ace.observers = {}
      /\ ace.queue = <<>> /\ ace.late = FALSE /\ ace.ended = {} /\ ace.asked = {} /\ ace.done = {}
  BY <1>3
<1>7. Living(ace) = {}
  BY <1>2, <1>6 DEF Living, GetPipelineContext
<1>8. \A id, op : ~Queued(ace, id, op)
  BY <1>4, <1>6 DEF Queued
<1>9. \A id, op, end : Before(ace, id, op, end)
  BY <1>4, <1>6 DEF Before
<1>10. Named(ace)
  BY <1>2, <1>6, <1>7, <1>8 DEF Named
<1>11. PipelineEnds(ace)
  BY <1>4, <1>6, <1>8, <1>9 DEF PipelineEnds
<1>12. FrontendEnds(ace)
  <2>1. \A id \in Contents : id \in Ids
    BY DEF Ids
  <2> QED BY <1>2, <1>4, <1>6, <1>8, <1>9, <2>1 DEF FrontendEnds
<1>13. FinishComes(ace)
  BY <1>6, <1>8, <1>9 DEF FinishComes
<1>14. Good(ace)
  BY <1>5, <1>6, <1>7, <1>10, <1>11, <1>12, <1>13 DEF Good, Held
<1>15. PICK area \in Areas :
         window = [content |-> None, registered |-> None, isWindowShow |-> FALSE, isFocused |-> FALSE,
                   delayNotifyFocusChanged |-> FALSE, surface |-> None, insets |-> area,
                   avoidArea |-> None, insetsChanged |-> FALSE, listeners |-> <<>>,
                   delayNotifySurfaceDestroyed |-> FALSE]
  BY DEF AceInit
<1>16. /\ window \in WindowStates /\ window.content = None /\ RegisteredOnce(window)
       /\ window.avoidArea = None /\ ~window.insetsChanged
  BY <1>4, <1>15 DEF WindowStates, RegisteredOnce
<1>17. calls \in 0 .. MaxCalls
  BY AceAssumption DEF AceInit
<1>18. Well(ace, window)
  BY <1>5, <1>7, <1>14, <1>16 DEF Well, OfArea
<1> QED BY <1>5, <1>16, <1>17, <1>18 DEF AceTypes

\* A task is run: what it does, whatever was called since it was posted.
LEMMA RunTaskKeeps ==
  ASSUME AceTypes, Well(ace, window), RunTask
  PROVE  Kept(ace, ace') /\ window' = window
<1>1. ace \in AceStates /\ Good(ace) /\ ace.queue # <<>> /\ ace.queue \in Seq(Task)
  BY DEF AceTypes, Well, RunTask, AceStates
<1>2. Head(ace.queue) \in Task
  BY <1>1, HeadTailProperties
<1>3. Pop(ace, [ace EXCEPT !.queue = Tail(@)], Head(ace.queue))
  BY <1>1, PopIs
<1>4. Kept(ace, Perform([ace EXCEPT !.queue = Tail(@)], Head(ace.queue)))
  BY <1>2, <1>3, PerformKeeps
<1> QED BY <1>4 DEF RunTask

\* Every call keeps the invariant.
LEMMA CalledKeeps ==
  ASSUME AceTypes, Well(ace, window), Called
  PROVE  window' \in WindowStates /\ Well(ace', window')
<1>1. window \in WindowStates
  BY DEF AceTypes
<1>2. ASSUME Kept(ace, ace') /\ window' = window
      PROVE  window' \in WindowStates /\ Well(ace', window')
  <2>1. SameContent(window, window')
    BY <1>2 DEF SameContent
  <2> QED BY <1>1, <1>2, <2>1, WellKept
<1>3. CASE \E id \in Contents, behind \in BOOLEAN : WindowSetUIContent(id, behind)
  BY <1>3, SetContentKeeps
<1>4. CASE \E id \in Subs : CreateSub(id) \/ DestroySub(id)
  BY <1>1, <1>4, PopupKeeps
<1>5. CASE WindowDestroy
  BY <1>5, WindowDestroyKeeps
<1>6. CASE WindowForeground \/ WindowBackground
  BY <1>6, ShownKeeps
<1>7. CASE \E focus \in BOOLEAN : FocusChanged(focus)
  BY <1>7, FocusChangedKeeps
<1>8. CASE \E size \in Sizes : SurfaceChanged(size)
  BY <1>8, SurfaceChangedKeeps
<1>9. CASE \E area \in Areas : InsetsChange(area)
  BY <1>9, InsetsChangeKeeps
<1>10. CASE SafeAreaChanged
  BY <1>10, SafeAreaChangedKeeps
<1>11. CASE SurfaceDestroyed
  BY <1>11, SurfaceDestroyedKeeps
<1>12. CASE \/ OccupiedAreaChanged \/ OnNewWant \/ DispatchTouchEvent
            \/ \E config \in Configs : ConfigurationUpdated(config)
  BY <1>2, <1>12, ContentCallKeeps
<1>13. CASE \/ \E id \in Subs : ShowSub(id) \/ HideSub(id)
            \/ \E id \in Ids : AskedAtOnce(id)
            \/ \E id \in Contents : AskFinish(id)
  BY <1>2, <1>13, ContainerCallKeeps
<1> QED
  BY <1>3, <1>4, <1>5, <1>6, <1>7, <1>8, <1>9, <1>10, <1>11, <1>12, <1>13 DEF Called

\* The invariant AceInv: who is named where, in what order tasks are queued and what they carry.
THEOREM AceInvariant == AceSpec => []AceInv
<1>1. AceInit => AceInv
  BY InitWell, WellIs
<1>2. AceInv /\ [AceNext]_aceVars => AceInv'
  <2> SUFFICES ASSUME AceInv, [AceNext]_aceVars
               PROVE  AceInv'
    OBVIOUS
  <2>1. AceTypes /\ Well(ace, window)
    BY WellIs DEF AceInv
  <2>2. window' \in WindowStates /\ calls' \in 0 .. MaxCalls /\ Well(ace', window')
    <3>1. CASE Called /\ calls < MaxCalls /\ calls' = calls + 1
      <4>1. calls' \in 0 .. MaxCalls
        BY <2>1, <3>1, AceAssumption DEF AceTypes
      <4> QED BY <2>1, <3>1, <4>1, CalledKeeps
    <3>2. CASE RunTask /\ UNCHANGED calls
      <4>1. Kept(ace, ace') /\ window' = window
        BY <2>1, <3>2, RunTaskKeeps
      <4>2. SameContent(window, window')
        BY <4>1 DEF SameContent
      <4> QED BY <2>1, <3>2, <4>1, <4>2, WellKept DEF AceTypes
    <3>3. CASE UNCHANGED aceVars
      BY <2>1, <3>3 DEF aceVars, AceTypes
    <3> QED BY <3>1, <3>2, <3>3 DEF AceNext
  <2>3. AceTypes'
    BY <2>2 DEF AceTypes, Well
  <2> QED BY <2>2, <2>3 DEF AceInv, Well, Good, Held, NoLateCall, AreaArrives, OfArea
<1> QED BY <1>1, <1>2, PTL DEF AceSpec

\* However a content is replaced or its window destroyed while tasks for it are queued, no
\* call reaches a pipeline or a frontend that AceContainerSG::Destroy had destroyed.
THEOREM NoCallIsLate == AceSpec => []NoLateCall
<1>1. AceInv => NoLateCall
  BY DEF AceInv
<1> QED BY <1>1, AceInvariant, PTL

\* When nothing is queued, what is under way has arrived.
LEMMA QuietAgrees ==
  ASSUME AceInv
  PROVE  PipelineAgrees
<1> SUFFICES ASSUME Quiet
             PROVE  /\ TablesNameLiving
                    /\ ace.done = ace.asked
                    /\ \A id \in Ids : GetPipelineContext(ace, id) =>
                      LET c == ace.ctn[id]
                      IN  /\ \A field \in Fields \ {"font"} : c.seen[field] = c.told[field]
                          /\ c.lastConfig \in Following => c.seen["font"] = "system"
  BY DEF PipelineAgrees
<1>1. ace \in AceStates /\ window \in WindowStates
  BY DEF AceInv, AceTypes
<1>2. \A id, op : ~Queued(ace, id, op)
  BY DEF Quiet, Queued
<1>3. \A id, op, w : ~LastSays(ace, id, op, w)
  BY DEF Quiet, LastSays
<1>4. TablesNameLiving
  <2>1. ace.engine = Living(ace)
    BY <1>1, <1>2 DEF AceInv, Named, AceStates
  <2>2. Living(ace) \subseteq ace.adapters
    BY <1>2 DEF AceInv, Named, Living
  <2> QED BY <2>1, <2>2 DEF TablesNameLiving, AceInv, Named, Living, RegisteredOnce
<1>5. ace.done = ace.asked
  BY <1>2 DEF AceInv, FinishComes
<1>6. ASSUME NEW id \in Living(ace)
      PROVE  /\ \A field \in Fields \ {"font"} : ace.ctn[id].seen[field] = ace.ctn[id].told[field]
             /\ ace.ctn[id].lastConfig \in Following => ace.ctn[id].seen["font"] = "system"
  <2>1. id \in Ids /\ Arrives(ace, id) /\ (id \in Subs => SubArea(ace, id))
    BY DEF AceInv, Living
  <2>2. /\ \A field \in {"shown", "focused", "config", "size"} : ace.ctn[id].seen[field] = ace.ctn[id].told[field]
        /\ ace.ctn[id].lastConfig \in Following => ace.ctn[id].seen["font"] = "system"
    BY <1>3, <2>1 DEF Arrives, Reaches
  <2>3. ace.ctn[id].seen["area"] = ace.ctn[id].told["area"]
    <3>1. CASE id \in Subs
      BY <2>1, <3>1 DEF SubArea
    <3>2. CASE id \in Contents
      <4>1. ContentArea(ace, id, window.insets)
        BY <3>2 DEF AceInv, AreaArrives, Quiet
      <4> QED BY <1>3, <4>1 DEF ContentArea, Reaches
    <3> QED BY <2>1, <3>1, <3>2 DEF Ids
  <2> QED BY <2>2, <2>3 DEF Fields
<1> QED BY <1>4, <1>5, <1>6 DEF Living

\* When all that was queued has run, the tables name the living containers, abilities were
\* asked to finish, and each pipeline knows what its window told the content last.
THEOREM QuietPipelinesAgree == AceSpec => []PipelineAgrees
<1>1. AceInv => PipelineAgrees
  BY QuietAgrees
<1> QED BY <1>1, AceInvariant, PTL
=============================================================================
