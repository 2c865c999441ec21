------------------------ MODULE BridgeMessagingProofs ------------------------
(***************************************************************************)
(* Proofs about BridgeMessaging, for any names, plugins and bounds.        *)
(*                                                                         *)
(* First, what happens to the numbers in a queue that something joins or   *)
(* leaves; then each action keeps the inductive invariant (XKeeps), hence  *)
(* MessagingInv; then where each action takes a call from and to (XMoves), *)
(* which makes it a step of BridgeCalls for each of the two ends.          *)
(***************************************************************************)
EXTENDS BridgeMessaging, SequenceTheorems, TLAPS

-----------------------------------------------------------------------------
(* Queues that something joins or leaves. *)

\* t is s, in its order, without the element i, with perhaps one of X at its end:
\* K tells where each element of t was.
Comes(s, t, i, X, K) ==
  /\ Len(s) \in Nat /\ DOMAIN s = 1 .. Len(s)
  /\ Len(t) \in Nat /\ DOMAIN t = 1 .. Len(t)
  /\ \A j \in DOMAIN t :
       /\ j \in Nat /\ K[j] \in Nat
       /\ \/ K[j] \in DOMAIN s /\ K[j] # i /\ t[j] = s[K[j]]
          \/ K[j] = Len(s) + 1 /\ t[j] \in X
  /\ \A j, k \in DOMAIN t : j < k => K[j] < K[k]

From(s, t, i, X) == \E K : Comes(s, t, i, X, K)

LEMMA SeqBasics ==
  ASSUME NEW S, NEW s \in Seq(S)
  PROVE  /\ Len(s) \in Nat /\ DOMAIN s = 1 .. Len(s)
         /\ \A j \in DOMAIN s : s[j] \in S
BY LenProperties, ElementOfSeq

LEMMA SameIsFrom ==
  ASSUME NEW S, NEW s \in Seq(S), NEW i, i \notin DOMAIN s, NEW X
  PROVE  From(s, s, i, X)
<1> DEFINE K == [j \in DOMAIN s |-> j]
<1>1. Comes(s, s, i, X, K)
  BY SeqBasics DEF Comes
<1> QED BY <1>1 DEF From

LEMMA AppendIsFrom ==
  ASSUME NEW S, NEW s \in Seq(S), NEW x \in S
  PROVE  /\ Append(s, x) \in Seq(S)
         /\ From(s, Append(s, x), 0, {x})
         /\ Len(Append(s, x)) = Len(s) + 1 /\ Append(s, x)[Len(s) + 1] = x
         /\ \A j \in 1 .. Len(s) : Append(s, x)[j] = s[j]
<1> DEFINE t == Append(s, x)
           K == [j \in DOMAIN t |-> j]
<1>1. /\ t \in Seq(S) /\ Len(t) = Len(s) + 1 /\ t[Len(s) + 1] = x
      /\ \A j \in 1 .. Len(s) : t[j] = s[j]
  BY AppendProperties
<1>2. DOMAIN t = 1 .. Len(s) + 1 /\ DOMAIN s = 1 .. Len(s) /\ Len(s) \in Nat
  BY <1>1, SeqBasics
<1> HIDE DEF t
<1>3. Comes(s, t, 0, {x}, K)
  BY <1>1, <1>2 DEF Comes
<1> QED BY <1>1, <1>3 DEF From, t

LEMMA RemoveAtIsFrom ==
  ASSUME NEW S, NEW s \in Seq(S), NEW i \in DOMAIN s
  PROVE  /\ RemoveAt(s, i) \in Seq(S)
         /\ From(s, RemoveAt(s, i), i, {})
         /\ \A k \in DOMAIN s : k # i => \E j \in DOMAIN RemoveAt(s, i) : RemoveAt(s, i)[j] = s[k]
<1> DEFINE a == SubSeq(s, 1, i - 1)
           b == SubSeq(s, i + 1, Len(s))
           t == a \o b
           K == [j \in 1 .. Len(s) - 1 |-> IF j < i THEN j ELSE j + 1]
<1>1. i \in 1 .. Len(s) /\ Len(s) \in Nat /\ DOMAIN s = 1 .. Len(s)
  BY LenProperties
<1>2. a \in Seq(S) /\ Len(a) = i - 1 /\ \A j \in 1 .. i - 1 : a[j] = s[j]
  <2>1. \A j \in 1 .. i - 1 : s[j] \in S
    BY <1>1, ElementOfSeq
  <2>2. 1 \in Int /\ i - 1 \in Int
    BY <1>1
  <2>3. /\ a \in Seq(S)
        /\ Len(a) = IF 1 <= i - 1 THEN (i - 1) - 1 + 1 ELSE 0
        /\ \A j \in 1 .. (i - 1) - 1 + 1 : a[j] = s[1 + j - 1]
    BY <2>1, <2>2, SubSeqProperties
  <2> QED BY <1>1, <2>3
<1>3. b \in Seq(S) /\ Len(b) = Len(s) - i /\ \A j \in 1 .. Len(s) - i : b[j] = s[i + j]
  <2>1. \A j \in i + 1 .. Len(s) : s[j] \in S
    BY <1>1, ElementOfSeq
  <2>2. i + 1 \in Int /\ Len(s) \in Int
    BY <1>1
  <2>3. /\ b \in Seq(S)
        /\ Len(b) = IF i + 1 <= Len(s) THEN Len(s) - (i + 1) + 1 ELSE 0
        /\ \A j \in 1 .. Len(s) - (i + 1) + 1 : b[j] = s[(i + 1) + j - 1]
    BY <2>1, <2>2, SubSeqProperties
  <2> QED BY <1>1, <2>3, SMTT(30)
<1>4. /\ t \in Seq(S)
      /\ Len(t) = Len(s) - 1
      /\ \A j \in 1 .. Len(s) - 1 : t[j] = IF j <= i - 1 THEN a[j] ELSE b[j - (i - 1)]
  <2> HIDE DEF a, b
  <2>1. /\ t \in Seq(S)
        /\ Len(t) = Len(a) + Len(b)
        /\ \A j \in 1 .. Len(a) + Len(b) : t[j] = IF j <= Len(a) THEN a[j] ELSE b[j - Len(a)]
    BY <1>2, <1>3, ConcatProperties
  <2> HIDE DEF t
  <2>2. Len(a) + Len(b) = Len(s) - 1 /\ Len(a) = i - 1
    BY <1>1, <1>2, <1>3
  <2> QED BY <2>1, <2>2
<1> HIDE DEF a, b
<1>5. \A j \in 1 .. Len(s) - 1 : t[j] = s[IF j < i THEN j ELSE j + 1]
  <2> SUFFICES ASSUME NEW j \in 1 .. Len(s) - 1
               PROVE  t[j] = s[IF j < i THEN j ELSE j + 1]
    OBVIOUS
  <2> HIDE DEF t
  <2>1. CASE j < i
    <3>1. j <= i - 1 /\ j \in 1 .. i - 1
      BY <1>1, <2>1
    <3> QED BY <1>2, <1>4, <2>1, <3>1
  <2>2. CASE ~(j < i)
    <3>1. j - (i - 1) \in 1 .. Len(s) - i /\ i + (j - (i - 1)) = j + 1 /\ ~(j <= i - 1)
      BY <1>1, <2>2
    <3>2. b[j - (i - 1)] = s[j + 1]
      BY <1>3, <3>1
    <3> QED BY <1>4, <2>2, <3>1, <3>2
  <2> QED BY <2>1, <2>2
<1> HIDE DEF t
<1>6. DOMAIN t = 1 .. Len(s) - 1 /\ Len(t) = Len(s) - 1 /\ Len(t) \in Nat
  BY <1>4, LenProperties
<1>7. Comes(s, t, i, {}, K)
  <2>1. \A j \in DOMAIN t : /\ j \in Nat /\ K[j] \in Nat /\ K[j] \in DOMAIN s /\ K[j] # i
                            /\ t[j] = s[K[j]]
    <3> SUFFICES ASSUME NEW j \in DOMAIN t
                 PROVE  /\ j \in Nat /\ K[j] \in Nat /\ K[j] \in DOMAIN s /\ K[j] # i
                        /\ t[j] = s[K[j]]
      OBVIOUS
    <3>1. K[j] = IF j < i THEN j ELSE j + 1
      BY <1>6
    <3> HIDE DEF K
    <3>2. t[j] = s[K[j]]
      BY <1>5, <1>6, <3>1
    <3> QED BY <1>1, <1>6, <3>1, <3>2
  <2>2. \A j, k \in DOMAIN t : j < k => K[j] < K[k]
    BY <1>1, <1>6
  <2> HIDE DEF K
  <2> QED BY <1>1, <2>1, <2>2 DEF Comes
<1>8. \A k \in DOMAIN s : k # i => \E j \in DOMAIN t : t[j] = s[k]
  <2> SUFFICES ASSUME NEW k \in DOMAIN s, k # i
               PROVE  \E j \in DOMAIN t : t[j] = s[k]
    OBVIOUS
  <2>1. CASE k < i
    <3>1. k \in DOMAIN t /\ t[k] = s[k]
      BY <1>1, <1>5, <1>6, <2>1
    <3> QED BY <3>1
  <2>2. CASE k > i
    <3>1. k - 1 \in 1 .. Len(s) - 1 /\ ~(k - 1 < i) /\ (k - 1) + 1 = k
      BY <1>1, <2>2
    <3>2. t[k - 1] = s[k]
      BY <1>5, <3>1
    <3> QED BY <1>6, <3>1, <3>2
  <2> QED BY <1>1, <2>1, <2>2
<1>9. t = RemoveAt(s, i)
  BY DEF t, a, b, RemoveAt
<1> QED BY <1>4, <1>7, <1>8, <1>9 DEF From

LEMMA TailIsFrom ==
  ASSUME NEW S, NEW s \in Seq(S), s # <<>>
  PROVE  /\ Tail(s) \in Seq(S) /\ Head(s) = s[1] /\ Head(s) \in S /\ 1 \in DOMAIN s
         /\ From(s, Tail(s), 1, {})
         /\ \A k \in DOMAIN s : k # 1 => \E j \in DOMAIN Tail(s) : Tail(s)[j] = s[k]
<1> DEFINE t == Tail(s)
           K == [j \in 1 .. Len(s) - 1 |-> j + 1]
<1>1. Len(s) \in Nat /\ Len(s) # 0 /\ DOMAIN s = 1 .. Len(s)
  BY LenProperties, EmptySeq
<1>2. /\ Head(s) \in S /\ t \in Seq(S) /\ Len(t) = Len(s) - 1
      /\ \A j \in 1 .. Len(t) : t[j] = s[j + 1]
  BY HeadTailProperties
<1>3. DOMAIN t = 1 .. Len(s) - 1
  BY <1>2, LenProperties
<1>4. Head(s) = s[1]
  BY <1>1
<1> HIDE DEF t
<1>5. Comes(s, t, 1, {}, K)
  BY <1>1, <1>2, <1>3 DEF Comes
<1>6. \A k \in DOMAIN s : k # 1 => \E j \in DOMAIN t : t[j] = s[k]
  <2> SUFFICES ASSUME NEW k \in DOMAIN s, k # 1
               PROVE  \E j \in DOMAIN t : t[j] = s[k]
    OBVIOUS
  <2>1. k - 1 \in DOMAIN t /\ (k - 1) + 1 = k
    BY <1>1, <1>3
  <2>2. t[k - 1] = s[k]
    BY <1>2, <1>3, <2>1
  <2> QED BY <2>1, <2>2
<1> QED BY <1>1, <1>2, <1>4, <1>5, <1>6 DEF From, t

LEMMA IdsFrom ==
  ASSUME NEW s, NEW t, NEW i, NEW X, From(s, t, i, X), NEW W
  PROVE  /\ Ids(t, W) \subseteq Ids(s, W) \cup {x.id : x \in {y \in X : y.what \in W}}
         /\ Once(s, W) /\ (\A x \in X : x.what \in W => x.id \notin Ids(s, W)) => Once(t, W)
         /\ Once(s, W) /\ i \in DOMAIN s /\ s[i].what \in W /\ X = {} => s[i].id \notin Ids(t, W)
<1>1. PICK K : Comes(s, t, i, X, K)
  BY DEF From
<1>2. \A j \in DOMAIN t : \/ K[j] \in DOMAIN s /\ K[j] # i /\ t[j] = s[K[j]]
                          \/ K[j] = Len(s) + 1 /\ t[j] \in X
  BY <1>1 DEF Comes
<1>3. \A j, k \in DOMAIN t : K[j] = K[k] => j = k
  BY <1>1 DEF Comes
<1>4. \A j \in DOMAIN t : K[j] \in DOMAIN s <=> K[j] # Len(s) + 1
  BY <1>1 DEF Comes
<1>5. Ids(t, W) \subseteq Ids(s, W) \cup {x.id : x \in {y \in X : y.what \in W}}
  BY <1>2 DEF Ids
<1>6. Once(s, W) /\ (\A x \in X : x.what \in W => x.id \notin Ids(s, W)) => Once(t, W)
  <2> SUFFICES ASSUME Once(s, W), \A x \in X : x.what \in W => x.id \notin Ids(s, W),
                      NEW j \in DOMAIN t, NEW k \in DOMAIN t,
                      t[j].what \in W, t[k].what \in W, t[j].id = t[k].id
               PROVE  K[j] = K[k]
    BY <1>3 DEF Once
  <2>1. CASE K[j] \in DOMAIN s /\ K[k] \in DOMAIN s
    BY <1>2, <1>4, <2>1 DEF Once
  <2>2. CASE K[j] \notin DOMAIN s /\ K[k] \in DOMAIN s
    BY <1>2, <1>4, <2>2 DEF Ids
  <2>3. CASE K[j] \in DOMAIN s /\ K[k] \notin DOMAIN s
    BY <1>2, <1>4, <2>3 DEF Ids
  <2> QED BY <1>4, <2>1, <2>2, <2>3
<1>7. Once(s, W) /\ i \in DOMAIN s /\ s[i].what \in W /\ X = {} => s[i].id \notin Ids(t, W)
  BY <1>2 DEF Once, Ids
<1> QED BY <1>5, <1>6, <1>7

\* The numbers in a queue that x has joined, and that its element i has left.
LEMMA IdsJoined ==
  ASSUME NEW S, NEW s \in Seq(S), NEW x \in S, NEW W
  PROVE  Ids(Append(s, x), W) = IF x.what \in W THEN Ids(s, W) \cup {x.id} ELSE Ids(s, W)
<1> DEFINE t == Append(s, x)
<1>1. /\ From(s, t, 0, {x}) /\ Len(t) = Len(s) + 1 /\ t[Len(s) + 1] = x
      /\ \A j \in 1 .. Len(s) : t[j] = s[j]
  BY AppendIsFrom
<1>2. t \in Seq(S) /\ Len(s) \in Nat /\ DOMAIN s = 1 .. Len(s) /\ DOMAIN t = 1 .. Len(t)
  BY AppendIsFrom, SeqBasics
<1> HIDE DEF t
<1>3. Ids(t, W) \subseteq Ids(s, W) \cup {y.id : y \in {z \in {x} : z.what \in W}}
  BY <1>1, IdsFrom
<1>4. Ids(s, W) \subseteq Ids(t, W)
  BY <1>1, <1>2 DEF Ids
<1>5. x.what \in W => x.id \in Ids(t, W)
  <2>1. Len(s) + 1 \in DOMAIN t
    BY <1>1, <1>2
  <2> QED BY <1>1, <2>1 DEF Ids
<1> QED BY <1>3, <1>4, <1>5 DEF t

LEMMA IdsLeft ==
  ASSUME NEW s, NEW t, NEW i \in DOMAIN s, From(s, t, i, {}),
         \A k \in DOMAIN s : k # i => \E j \in DOMAIN t : t[j] = s[k],
         NEW W, Once(s, W)
  PROVE  /\ Once(t, W)
         /\ Ids(t, W) = IF s[i].what \in W THEN Ids(s, W) \ {s[i].id} ELSE Ids(s, W)
<1>1. /\ Once(t, W) /\ Ids(t, W) \subseteq Ids(s, W)
      /\ s[i].what \in W => s[i].id \notin Ids(t, W)
  BY IdsFrom
<1>2. \A k \in DOMAIN s : s[k].what \in W /\ s[k].id # s[i].id => s[k].id \in Ids(t, W)
  BY DEF Ids
<1>3. \A k \in DOMAIN s : s[k].what \in W /\ s[i].what \notin W => s[k].id \in Ids(t, W)
  BY DEF Ids
<1> QED BY <1>1, <1>2, <1>3 DEF Ids

LEMMA StartedFrom ==
  ASSUME NEW s, NEW t, NEW e, NEW X, From(s, t, e, X),
         \A x \in X : x.plugin = None,
         \A i \in DOMAIN s : s[i].plugin # None /\ s[i].serial =>
           \A j \in 1 .. i - 1 : s[j].queue # s[i].queue
  PROVE  \A i \in DOMAIN t : t[i].plugin # None /\ t[i].serial =>
           \A j \in 1 .. i - 1 : t[j].queue # t[i].queue
<1> SUFFICES ASSUME NEW i \in DOMAIN t, t[i].plugin # None, t[i].serial, NEW j \in 1 .. i - 1
             PROVE  t[j].queue # t[i].queue
  OBVIOUS
<1>1. PICK K : Comes(s, t, e, X, K)
  BY DEF From
<1>2. K[i] \in DOMAIN s /\ t[i] = s[K[i]]
  BY <1>1 DEF Comes
<1>3. j \in DOMAIN t /\ j < i
  BY <1>1 DEF Comes
<1>4. K[j] < K[i] /\ K[j] \in 1 .. K[i] - 1 /\ K[j] \in DOMAIN s
  BY <1>1, <1>2, <1>3 DEF Comes
<1>5. t[j] = s[K[j]]
  BY <1>1, <1>3, <1>4 DEF Comes
<1> QED BY <1>2, <1>4, <1>5

LEMMA NewTaskType ==
  ASSUME NEW what \in Calls \cup Returns, NEW id \in Nat, NEW n \in Names,
         NEW codec \in BridgeTypes, NEW code \in Codes, NEW h \in Handler
  PROVE  NewTask(what, id, n, codec, code, h) \in Task
BY DEF NewTask, Task, Handler, Calls, Returns

LEMMA HandlerOfType ==
  ASSUME TypeOK, NEW n \in Names, NEW thread \in {InlineJs, InlineGcd}
  PROVE  HandlerOf(n, thread) \in Handler
<1>1. thread \in Queues /\ bridgeQueueMap[n] \in Handler
  BY MessagingAssumption DEF TypeOK, Queues, InlineJs, InlineGcd
<1> QED BY <1>1 DEF HandlerOf, Handler

\* What a receiver gets.
Got == [what : Calls \cup Answers, id : Nat, name : Names, codec : BridgeTypes, code : Codes,
        direct : BOOLEAN]

LEMMA Kinds ==
  /\ Calls \cap Returns = {} /\ Calls \cap Answers = {} /\ Answers \subseteq Returns
  /\ \A what \in Calls : AnswerTo(what) \in Answers
BY DEF Calls, Returns, Answers, AnswerTo

\* A receiver gets z, if there is one.
LEMMA PutGot ==
  ASSUME TypeOK, NEW z, UNCHANGED jsInbox \/ (z \in Got /\ jsInbox' = Append(jsInbox, z))
  PROVE  /\ jsInbox' \in Seq(Got) /\ From(jsInbox, jsInbox', 0, {z})
         /\ Ids(jsInbox, Calls) \subseteq Ids(jsInbox', Calls)
         /\ Ids(jsInbox, Answers) \subseteq Ids(jsInbox', Answers)
         /\ Ids(jsInbox', Calls) \subseteq
              IF z.what \in Calls THEN Ids(jsInbox, Calls) \cup {z.id} ELSE Ids(jsInbox, Calls)
         /\ Ids(jsInbox', Answers) \subseteq
              IF z.what \in Answers THEN Ids(jsInbox, Answers) \cup {z.id} ELSE Ids(jsInbox, Answers)
         /\ jsInbox' = Append(jsInbox, z) /\ z \in Got =>
              /\ z.what \in Calls => z.id \in Ids(jsInbox', Calls)
              /\ z.what \in Answers => z.id \in Ids(jsInbox', Answers)
<1>1. jsInbox \in Seq(Got) /\ 0 \notin DOMAIN jsInbox
  <2>1. jsInbox \in Seq(Got)
    BY DEF TypeOK, Got, Calls
  <2> QED BY <2>1, SeqBasics
<1>2. CASE UNCHANGED jsInbox
  BY <1>1, <1>2, SameIsFrom
<1>3. CASE z \in Got /\ jsInbox' = Append(jsInbox, z)
  <2>1. jsInbox' \in Seq(Got) /\ From(jsInbox, jsInbox', 0, {z})
    BY <1>1, <1>3, AppendIsFrom
  <2>2. \A W : Ids(jsInbox', W) = IF z.what \in W THEN Ids(jsInbox, W) \cup {z.id} ELSE Ids(jsInbox, W)
    BY <1>1, <1>3, IdsJoined
  <2> QED BY <2>1, <2>2
<1>4. jsInbox' = Append(jsInbox, z) /\ z \in Got =>
        \A W : z.what \in W => z.id \in Ids(jsInbox', W)
  BY <1>1, IdsJoined
<1> QED BY <1>2, <1>3, <1>4

\* A task leaves its queue.
LEMMA TakeTask ==
  ASSUME Inv, NEW i \in DOMAIN input, input' = RemoveAt(input, i)
  PROVE  /\ input[i] \in Task
         /\ input' \in Seq(Task) /\ From(input, input', i, {})
         /\ Once(input', Calls) /\ Once(input', Returns)
         /\ Ids(input', Calls) = IF input[i].what \in Calls THEN Ids(input, Calls) \ {input[i].id}
                                 ELSE Ids(input, Calls)
         /\ Ids(input', Returns) = IF input[i].what \in Returns THEN Ids(input, Returns) \ {input[i].id}
                                   ELSE Ids(input, Returns)
<1>1. input \in Seq(Task) /\ Once(input, Calls) /\ Once(input, Returns)
  BY DEF Inv, TypeOK, JsPlaces, NativePlaces
<1>2. /\ input[i] \in Task /\ input' \in Seq(Task) /\ From(input, input', i, {})
      /\ \A k \in DOMAIN input : k # i => \E j \in DOMAIN input' : input'[j] = input[k]
  BY <1>1, RemoveAtIsFrom, SeqBasics
<1>3. \A W : Once(input, W) =>
        /\ Once(input', W)
        /\ Ids(input', W) = IF input[i].what \in W THEN Ids(input, W) \ {input[i].id}
                            ELSE Ids(input, W)
  BY <1>2, IdsLeft
<1> QED BY <1>1, <1>2, <1>3

\* A block leaves the dispatch queue.
LEMMA TakeBlock ==
  ASSUME Inv, gcd # <<>>, gcd' = Tail(gcd)
  PROVE  /\ Head(gcd) \in Block /\ 1 \in DOMAIN gcd /\ Head(gcd) = gcd[1]
         /\ gcd' \in Seq(Block) /\ From(gcd, gcd', 1, {})
         /\ Once(gcd', Calls) /\ Once(gcd', Answers)
         /\ Ids(gcd', Calls) = IF gcd[1].what \in Calls THEN Ids(gcd, Calls) \ {gcd[1].id}
                               ELSE Ids(gcd, Calls)
         /\ Ids(gcd', Answers) = IF gcd[1].what \in Answers THEN Ids(gcd, Answers) \ {gcd[1].id}
                                 ELSE Ids(gcd, Answers)
<1>1. gcd \in Seq(Block) /\ Once(gcd, Calls) /\ Once(gcd, Answers)
  BY DEF Inv, TypeOK, JsPlaces, NativePlaces
<1>2. /\ Head(gcd) \in Block /\ 1 \in DOMAIN gcd /\ Head(gcd) = gcd[1]
      /\ gcd' \in Seq(Block) /\ From(gcd, gcd', 1, {})
      /\ \A k \in DOMAIN gcd : k # 1 => \E j \in DOMAIN gcd' : gcd'[j] = gcd[k]
  BY <1>1, TailIsFrom
<1>3. \A W : Once(gcd, W) =>
        /\ Once(gcd', W)
        /\ Ids(gcd', W) = IF gcd[1].what \in W THEN Ids(gcd, W) \ {gcd[1].id} ELSE Ids(gcd, W)
  <2> SUFFICES ASSUME NEW W, Once(gcd, W)
               PROVE  /\ Once(gcd', W)
                      /\ Ids(gcd', W) = IF gcd[1].what \in W THEN Ids(gcd, W) \ {gcd[1].id} ELSE Ids(gcd, W)
    OBVIOUS
  <2>1. \A i \in DOMAIN gcd : \A t :
          From(gcd, t, i, {}) /\ (\A k \in DOMAIN gcd : k # i => \E j \in DOMAIN t : t[j] = gcd[k])
          => /\ Once(t, W)
             /\ Ids(t, W) = IF gcd[i].what \in W THEN Ids(gcd, W) \ {gcd[i].id} ELSE Ids(gcd, W)
    BY IdsLeft
  <2> QED BY <1>2, <2>1, Zenon
<1> QED BY <1>1, <1>2, <1>3

LEMMA JsRanges ==
  ASSUME Inv
  PROVE  /\ \A j \in DOMAIN input : input[j].what \in Calls => input[j].id \in 1 .. Len(jsSent)
         /\ \A j \in DOMAIN gcd : gcd[j].what \in Answers => gcd[j].id \in 1 .. Len(jsSent)
         /\ \A j \in DOMAIN invoked : invoked[j] \in 1 .. Len(jsSent)
         /\ \A j \in DOMAIN jsInbox : Plain(j) => jsInbox[j].id \in 1 .. Len(jsSent)
BY DEF Inv, JsPlaces, JsOpen, JsInOrder, AnswersInOrder, Ids, Calls

\* Where an element of input or gcd is known to be when its kind is.
LEMMA IdIn ==
  ASSUME NEW s, NEW W, NEW i \in DOMAIN s, s[i].what \in W
  PROVE  s[i].id \in Ids(s, W)
BY DEF Ids

\* A task joins input, and a block the dispatch queue.
LEMMA PutTask ==
  ASSUME Inv, NEW x \in Task, input' = Append(input, x)
  PROVE  /\ input' \in Seq(Task) /\ From(input, input', 0, {x})
         /\ \A W : Ids(input', W) = IF x.what \in W THEN Ids(input, W) \cup {x.id} ELSE Ids(input, W)
         /\ \A W : Once(input, W) /\ (x.what \in W => x.id \notin Ids(input, W)) => Once(input', W)
<1>1. input \in Seq(Task)
  BY DEF Inv, TypeOK
<1>2. input' \in Seq(Task) /\ From(input, input', 0, {x})
  BY <1>1, AppendIsFrom
<1>3. \A W : Ids(input', W) = IF x.what \in W THEN Ids(input, W) \cup {x.id} ELSE Ids(input, W)
  BY <1>1, IdsJoined
<1>4. \A W : Once(input, W) /\ (x.what \in W => x.id \notin Ids(input, W)) => Once(input', W)
  BY <1>2, IdsFrom
<1> QED BY <1>2, <1>3, <1>4

LEMMA PutBlock ==
  ASSUME Inv, NEW x \in Block, gcd' = Append(gcd, x)
  PROVE  /\ gcd' \in Seq(Block) /\ From(gcd, gcd', 0, {x})
         /\ \A W : Ids(gcd', W) = IF x.what \in W THEN Ids(gcd, W) \cup {x.id} ELSE Ids(gcd, W)
         /\ \A W : Once(gcd, W) /\ (x.what \in W => x.id \notin Ids(gcd, W)) => Once(gcd', W)
<1>1. gcd \in Seq(Block)
  BY DEF Inv, TypeOK
<1>2. gcd' \in Seq(Block) /\ From(gcd, gcd', 0, {x})
  BY <1>1, AppendIsFrom
<1>3. \A W : Ids(gcd', W) = IF x.what \in W THEN Ids(gcd, W) \cup {x.id} ELSE Ids(gcd, W)
  BY <1>1, IdsJoined
<1>4. \A W : Once(gcd, W) /\ (x.what \in W => x.id \notin Ids(gcd, W)) => Once(gcd', W)
  BY <1>2, IdsFrom
<1> QED BY <1>2, <1>3, <1>4

LEMMA Unchanged ==
  ASSUME Inv, NEW X
  PROVE  /\ UNCHANGED input => From(input, input', 0, X)
         /\ UNCHANGED gcd => From(gcd, gcd', 0, X)
         /\ UNCHANGED jsInbox => From(jsInbox, jsInbox', 0, X)
<1>1. input \in Seq(Task) /\ gcd \in Seq(Block) /\ jsInbox \in Seq(Got)
  BY DEF Inv, TypeOK, Got, Calls
<1>2. 0 \notin DOMAIN input /\ 0 \notin DOMAIN gcd /\ 0 \notin DOMAIN jsInbox
  BY <1>1, SeqBasics
<1> QED BY <1>1, <1>2, SameIsFrom

-----------------------------------------------------------------------------
(* What moves without disturbing a part of the invariant. *)

LEMMA JsInOrderKept ==
  ASSUME Inv, NEW e, NEW X, From(input, input', e, X), UNCHANGED <<jsSent, invoked>>,
         \A x \in X : x.what \in Returns /\ x.plugin = None
  PROVE  JsInOrder'
<1>1. PICK K : Comes(input, input', e, X, K)
  BY DEF From
<1>2. \A j \in DOMAIN input' : input'[j].what \in Calls => K[j] \in DOMAIN input /\ input'[j] = input[K[j]]
  BY <1>1, Kinds DEF Comes
<1>3. \A j, k \in DOMAIN input' : j < k => K[j] < K[k]
  BY <1>1 DEF Comes
<1>4. (\A i, j \in DOMAIN input :
        input[i].what \in Calls /\ input[j].what \in Calls /\ i < j => input[i].id < input[j].id)'
  BY <1>2, <1>3 DEF Inv, JsInOrder
<1>5. (\A i \in DOMAIN input : input[i].plugin # None /\ input[i].serial =>
        \A j \in 1 .. i - 1 : input[j].queue # input[i].queue)'
  BY StartedFrom DEF Inv, JsInOrder
<1>6. (\A i \in DOMAIN invoked : invoked[i] \in 1 .. Len(jsSent))'
  BY DEF Inv, JsInOrder
<1>7. (\A i \in DOMAIN invoked, j \in DOMAIN input :
        input[j].what \in Calls /\ input[j].plugin = None /\ SameQueue(invoked[i], input[j].id)
        => invoked[i] < input[j].id)'
  BY <1>2 DEF Inv, JsInOrder, SameQueue
<1> QED BY <1>4, <1>5, <1>6, <1>7 DEF JsInOrder

LEMMA PlatformKept ==
  ASSUME Inv, NEW e, NEW X, From(gcd, gcd', e, X), NEW Z, From(jsInbox, jsInbox', 0, Z),
         \A x \in X \cup Z : x.what \notin Calls
  PROVE  PlatformInOrder' /\ PlatformOrder'
<1>1. PICK K : Comes(gcd, gcd', e, X, K)
  BY DEF From
<1>2. PICK L : Comes(jsInbox, jsInbox', 0, Z, L)
  BY DEF From
<1>3. \A j \in DOMAIN gcd' : gcd'[j].what \in Calls => K[j] \in DOMAIN gcd /\ gcd'[j] = gcd[K[j]]
  BY <1>1 DEF Comes
<1>4. \A j \in DOMAIN jsInbox' : jsInbox'[j].what \in Calls =>
        L[j] \in DOMAIN jsInbox /\ jsInbox'[j] = jsInbox[L[j]]
  BY <1>2 DEF Comes
<1>5. /\ \A j, k \in DOMAIN gcd' : j < k => K[j] < K[k]
      /\ \A j, k \in DOMAIN jsInbox' : j < k => L[j] < L[k]
  BY <1>1, <1>2 DEF Comes
<1>6. PlatformInOrder'
  BY <1>3, <1>4, <1>5 DEF Inv, PlatformInOrder
<1>7. PlatformOrder'
  BY <1>4, <1>5 DEF Inv, PlatformOrder, Calls
<1> QED BY <1>6, <1>7

LEMMA AnswersKept ==
  ASSUME Inv, NEW e, NEW f, NEW X, NEW Y, NEW Z,
         From(input, input', e, X), From(gcd, gcd', f, Y), From(jsInbox, jsInbox', 0, Z),
         UNCHANGED jsSent,
         \A x \in X : x.what \notin Calls,
         \A x \in Y : x.what \notin Answers,
         \A x \in Z : x.what \in Answers => x.direct
  PROVE  AnswersInOrder' /\ AnswerOrder'
<1>1. PICK J : Comes(input, input', e, X, J)
  BY DEF From
<1>2. PICK K : Comes(gcd, gcd', f, Y, K)
  BY DEF From
<1>3. PICK L : Comes(jsInbox, jsInbox', 0, Z, L)
  BY DEF From
<1>4. \A j \in DOMAIN input' : input'[j].what \in Calls => J[j] \in DOMAIN input /\ input'[j] = input[J[j]]
  BY <1>1 DEF Comes
<1>5. \A j \in DOMAIN gcd' : gcd'[j].what \in Answers => K[j] \in DOMAIN gcd /\ gcd'[j] = gcd[K[j]]
  BY <1>2 DEF Comes
<1>6. \A j \in DOMAIN jsInbox' : Plain(j)' =>
        L[j] \in DOMAIN jsInbox /\ jsInbox'[j] = jsInbox[L[j]] /\ Plain(L[j])
  BY <1>3 DEF Comes, Plain
<1>7. /\ \A j, k \in DOMAIN gcd' : j < k => K[j] < K[k]
      /\ \A j, k \in DOMAIN jsInbox' : j < k => L[j] < L[k]
  BY <1>2, <1>3 DEF Comes
<1>8. \A a, b : SameQueue(a, b)' <=> SameQueue(a, b)
  BY DEF SameQueue
<1>9. AnswersInOrder'
  BY <1>4, <1>5, <1>6, <1>7, <1>8 DEF Inv, AnswersInOrder
<1>10. AnswerOrder'
  BY <1>6, <1>7, <1>8 DEF Inv, AnswerOrder
<1> QED BY <1>9, <1>10

CarriedStep(X, Y, Z) ==
  /\ \E e : From(input, input', e, X)
  /\ \E f : From(gcd, gcd', f, Y)
  /\ From(jsInbox, jsInbox', 0, Z)
  /\ UNCHANGED sentVars
  /\ \A x \in X : /\ x.what \notin Calls
                  /\ x.what \in Returns => x.name = nativeSent[x.id].name
  /\ \A x \in Y : /\ x.what \notin Calls
                  /\ x.what \in Answers => x.name = jsSent[x.id].name
  /\ \A x \in Z : x.what \in Calls => x.name = nativeSent[x.id].name
  /\ gcdPc' = "find" => gcd' # <<>> /\ Head(gcd').what \in Calls

LEMMA CarriedMoves ==
  ASSUME Inv, NEW X, NEW Y, NEW Z, CarriedStep(X, Y, Z)
  PROVE  Carried'
<1>1. PICK e, J : Comes(input, input', e, X, J)
  BY DEF CarriedStep, From
<1>2. PICK f, K : Comes(gcd, gcd', f, Y, K)
  BY DEF CarriedStep, From
<1>3. PICK L : Comes(jsInbox, jsInbox', 0, Z, L)
  BY DEF CarriedStep, From
<1>4. \A j \in DOMAIN input' : \/ J[j] \in DOMAIN input /\ input'[j] = input[J[j]]
                               \/ input'[j] \in X
  BY <1>1 DEF Comes
<1>5. \A j \in DOMAIN gcd' : \/ K[j] \in DOMAIN gcd /\ gcd'[j] = gcd[K[j]]
                             \/ gcd'[j] \in Y
  BY <1>2 DEF Comes
<1>6. \A j \in DOMAIN jsInbox' : \/ L[j] \in DOMAIN jsInbox /\ jsInbox'[j] = jsInbox[L[j]]
                                 \/ jsInbox'[j] \in Z
  BY <1>3 DEF Comes
<1> QED BY <1>4, <1>5, <1>6 DEF Inv, Carried, CarriedStep, sentVars

LEMMA CarriedKept ==
  ASSUME Inv, NEW e, NEW f, NEW X, NEW Y, NEW Z,
         From(input, input', e, X), From(gcd, gcd', f, Y), From(jsInbox, jsInbox', 0, Z),
         UNCHANGED sentVars,
         \A x \in X : /\ x.what \notin Calls
                      /\ x.what \in Returns => x.name = nativeSent[x.id].name,
         \A x \in Y : /\ x.what \notin Calls
                      /\ x.what \in Answers => x.name = jsSent[x.id].name,
         \A x \in Z : x.what \in Calls => x.name = nativeSent[x.id].name,
         gcdPc' = "find" => gcd' # <<>> /\ Head(gcd').what \in Calls
  PROVE  Carried'
<1>1. CarriedStep(X, Y, Z)
  BY DEF CarriedStep
<1> QED BY <1>1, CarriedMoves

LEMMA EndsKept ==
  ASSUME Inv, NEW e, NEW X, NEW Z,
         From(input, input', e, X), From(jsInbox, jsInbox', 0, Z),
         UNCHANGED <<sentVars, bridgeList, bridgeMap>>, excused \subseteq excused',
         \A x \in X, c \in DOMAIN nativeSent :
           x.what \in Returns /\ x.id = c /\ c \notin NativeExcusable =>
             x.codec = typeOf[nativeSent[c].plugin],
         \A x \in Z, c \in DOMAIN nativeSent :
           x.what \in Calls /\ x.id = c /\ c \notin NativeExcusable =>
             x.codec = typeOf[nativeSent[c].plugin]
  PROVE  EndsStay'
<1>1. PICK J : Comes(input, input', e, X, J)
  BY DEF From
<1>3. PICK L : Comes(jsInbox, jsInbox', 0, Z, L)
  BY DEF From
<1>4. \A j \in DOMAIN input' : \/ J[j] \in DOMAIN input /\ input'[j] = input[J[j]]
                               \/ input'[j] \in X
  BY <1>1 DEF Comes
<1>6. \A j \in DOMAIN jsInbox' : \/ L[j] \in DOMAIN jsInbox /\ jsInbox'[j] = jsInbox[L[j]]
                                 \/ jsInbox'[j] \in Z
  BY <1>3 DEF Comes
<1>7. \A c \in DOMAIN nativeSent : c \notin NativeExcusable' => c \notin NativeExcusable
  BY DEF NativeExcusable, sentVars
<1> QED BY <1>4, <1>6, <1>7 DEF Inv, EndsStay, Paired, sentVars

-----------------------------------------------------------------------------
(* Every step preserves the invariant. *)

LEMMA JSSendKeeps ==
  ASSUME Inv, NEW n \in Names, NEW what \in Whats, JSSend(n, what)
  PROVE  Inv'
<1> DEFINE id == Len(jsSent) + 1
           h == HandlerOf(n, InlineJs)
           x == NewTask(what, id, n, bridgeList[n], "ERROR_NO", h)
           Sent == [what : Whats, name : Names, queue : Queues, serial : BOOLEAN]
           y == [what |-> what, name |-> n, queue |-> h.queue, serial |-> h.serial]
<1>1. /\ id <= MaxJs /\ bridgeList[n] # None /\ Free(InlineJs)
      /\ jsSent' = Append(jsSent, y) /\ input' = Append(input, x)
      /\ UNCHANGED <<bridgeList, bridgeMap, bridgeQueueMap, isAvailable, changes, gcd, gcdPc,
                     nativeSent, jsInbox, nativeInbox, replied, invoked, excused>>
  BY DEF JSSend, regVars
<1>2. TypeOK /\ what \in Calls /\ what \in Calls \cup Returns
  BY MessagingAssumption DEF Inv, Calls
<1>3. h \in Handler /\ y \in Sent /\ bridgeList[n] \in BridgeTypes
  <2>1. h \in Handler
    BY <1>2, HandlerOfType
  <2> HIDE DEF h
  <2> QED BY <1>1, <1>2, <2>1 DEF TypeOK, Handler
<1>4. jsSent \in Seq(Sent) /\ input \in Seq(Task) /\ Len(jsSent) \in Nat /\ DOMAIN jsSent = 1 .. Len(jsSent)
      /\ MaxJs \in Nat
  BY <1>2, LenProperties, MessagingAssumption DEF TypeOK
<1> HIDE DEF h
<1>5. x \in Task
  <2>1. id \in Nat /\ "ERROR_NO" \in Codes
    BY <1>4 DEF Codes
  <2> QED BY <1>2, <1>3, <2>1, NewTaskType
<1>6. x.what = what /\ x.id = id /\ x.name = n /\ x.queue = y.queue /\ x.serial = y.serial /\ x.plugin = None
      /\ y.name = n
  BY DEF NewTask
<1> HIDE DEF x, y
<1>7. jsSent' \in Seq(Sent) /\ Len(jsSent') = id /\ jsSent'[id] = y
      /\ \A j \in 1 .. Len(jsSent) : jsSent'[j] = jsSent[j]
  BY <1>1, <1>3, <1>4, AppendIsFrom
<1>8. input' \in Seq(Task) /\ From(input, input', 0, {x})
  BY <1>1, <1>4, <1>5, AppendIsFrom
<1>9. TypeOK'
  BY <1>1, <1>2, <1>4, <1>7, <1>8 DEF TypeOK
<1>10. PICK K : Comes(input, input', 0, {x}, K)
  BY <1>8 DEF From
<1>11. \A j \in DOMAIN input' : \/ K[j] \in DOMAIN input /\ input'[j] = input[K[j]]
                                \/ K[j] = Len(input) + 1 /\ input'[j] = x
  BY <1>10 DEF Comes
<1>12. id \notin 1 .. Len(jsSent) /\ \A c \in 1 .. Len(jsSent) : c \in 1 .. Len(jsSent')
  BY <1>4, <1>7
<1>13. JsPlaces'
  <2>1. Ids(input', Calls) \subseteq Ids(input, Calls) \cup {id} /\ Once(input', Calls)
    <3>1. id \notin Ids(input, Calls)
      BY <1>12 DEF Inv, JsPlaces, JsOpen, Calls
    <3> QED BY <1>6, <1>8, <3>1, IdsFrom DEF Inv, JsPlaces
  <2>2. id \notin Ids(jsInbox, Answers) /\ id \notin Ids(gcd, Answers)
    BY <1>1, <1>4, <1>12 DEF Inv, JsPlaces, JsOpen
  <2>3. id \in 1 .. Len(jsSent')
    BY <1>4, <1>7
  <2> HIDE DEF id
  <2> QED BY <1>1, <1>7, <1>12, <2>1, <2>2, <2>3 DEF Inv, JsPlaces, JsOpen, Calls
<1>14. NativePlaces'
  <2>1. Ids(input', Returns) \subseteq Ids(input, Returns) /\ Once(input', Returns)
    <3>1. what \notin Returns
      BY <1>2 DEF Calls, Returns, Answers
    <3> QED BY <1>6, <1>8, <3>1, IdsFrom DEF Inv, NativePlaces
  <2>2. NativeAnswered' = NativeAnswered
    BY <1>1 DEF NativeAnswered, Ids
  <2> QED BY <1>1, <2>1, <2>2 DEF Inv, NativePlaces
<1>15. Carried'
  <2>1. \A j \in DOMAIN input : input[j].what \in Calls => input[j].id \in 1 .. Len(jsSent)
    BY DEF Inv, JsPlaces, JsOpen, Ids, Calls
  <2>2. \A j \in DOMAIN gcd : gcd[j].what \in Answers => gcd[j].id \in 1 .. Len(jsSent)
    BY DEF Inv, JsPlaces, JsOpen, Ids
  <2>3. what \notin Returns
    BY <1>2 DEF Calls, Returns, Answers
  <2> QED BY <1>1, <1>6, <1>7, <1>11, <2>1, <2>2, <2>3 DEF Inv, Carried
<1>16. /\ \A j \in DOMAIN input : input[j].what \in Calls => input[j].id \in 1 .. Len(jsSent)
       /\ \A j \in DOMAIN gcd : gcd[j].what \in Answers => gcd[j].id \in 1 .. Len(jsSent)
       /\ \A j \in DOMAIN invoked : invoked[j] \in 1 .. Len(jsSent)
       /\ \A j \in DOMAIN jsInbox : Plain(j) => jsInbox[j].id \in 1 .. Len(jsSent)
  BY JsRanges
<1>17. \A a, b \in 1 .. Len(jsSent) : SameQueue(a, b)' <=> SameQueue(a, b)
  BY <1>7 DEF SameQueue
<1>18. /\ \A a \in 1 .. Len(jsSent) : a < id
       /\ what \notin Returns
  BY <1>2, <1>4 DEF Calls, Returns, Answers
<1> HIDE DEF id
<1>19. EndsStay'
  <2>1. DOMAIN jsSent' = 1 .. Len(jsSent')
    BY <1>7, LenProperties
  <2>2. \A c \in DOMAIN jsSent' : c \in DOMAIN jsSent \/ c = id
    BY <1>4, <1>7, <2>1 DEF id
  <2>3. \A c \in DOMAIN jsSent' : <<"js", c>> \notin excused' => bridgeList'[jsSent'[c].name] # None
    BY <1>1, <1>4, <1>6, <1>7, <2>2 DEF Inv, EndsStay
  <2>4. NativeExcusable' = NativeExcusable
    BY <1>1 DEF NativeExcusable
  <2> QED BY <1>1, <1>6, <1>11, <1>18, <2>3, <2>4 DEF Inv, EndsStay, Paired
<1>20. JsInOrder'
  <2>1. (\A i, j \in DOMAIN input :
          input[i].what \in Calls /\ input[j].what \in Calls /\ i < j => input[i].id < input[j].id)'
    BY <1>6, <1>10, <1>16, <1>18, SMTT(30) DEF Inv, JsInOrder, Comes
  <2>2. (\A i \in DOMAIN input : input[i].plugin # None /\ input[i].serial =>
          \A j \in 1 .. i - 1 : input[j].queue # input[i].queue)'
    BY <1>6, <1>8, StartedFrom DEF Inv, JsInOrder
  <2>3. (\A i \in DOMAIN invoked : invoked[i] \in 1 .. Len(jsSent))'
    BY <1>1, <1>12, <1>16
  <2>4. (\A i \in DOMAIN invoked, j \in DOMAIN input :
          input[j].what \in Calls /\ input[j].plugin = None /\ SameQueue(invoked[i], input[j].id)
          => invoked[i] < input[j].id)'
    BY <1>1, <1>6, <1>11, <1>16, <1>17, <1>18 DEF Inv, JsInOrder
  <2> QED BY <2>1, <2>2, <2>3, <2>4 DEF JsInOrder
<1>21. SerialOrder'
  BY <1>1, <1>16, <1>17 DEF Inv, SerialOrder
<1>22. AnswersInOrder'
  <2>1. gcd' = gcd /\ jsInbox' = jsInbox /\ \A i : Plain(i)' <=> Plain(i)
    BY <1>1 DEF Plain
  <2>2. (\A i \in DOMAIN jsInbox : Plain(i) => jsInbox[i].id \in 1 .. Len(jsSent))'
    BY <1>12, <1>16, <2>1
  <2>3. (\A i, j \in DOMAIN gcd :
          gcd[i].what \in Answers /\ gcd[j].what \in Answers /\ i < j /\ SameQueue(gcd[i].id, gcd[j].id)
          => gcd[i].id < gcd[j].id)'
    BY <1>16, <1>17, <2>1 DEF Inv, AnswersInOrder
  <2>4. (\A i \in DOMAIN jsInbox, j \in DOMAIN gcd :
          Plain(i) /\ gcd[j].what \in Answers /\ SameQueue(jsInbox[i].id, gcd[j].id)
          => jsInbox[i].id < gcd[j].id)'
    BY <1>16, <1>17, <2>1 DEF Inv, AnswersInOrder
  <2>5. \A j \in DOMAIN input' : input'[j].what \in Calls =>
          \/ input'[j].id = id
          \/ K[j] \in DOMAIN input /\ input'[j] = input[K[j]]
    BY <1>6, <1>11
  <2>6. (\A i \in DOMAIN jsInbox, j \in DOMAIN input :
          Plain(i) /\ input[j].what \in Calls /\ SameQueue(jsInbox[i].id, input[j].id)
          => jsInbox[i].id < input[j].id)'
    BY <1>16, <1>17, <1>18, <2>1, <2>5 DEF Inv, AnswersInOrder
  <2>7. (\A i \in DOMAIN gcd, j \in DOMAIN input :
          gcd[i].what \in Answers /\ input[j].what \in Calls /\ SameQueue(gcd[i].id, input[j].id)
          => gcd[i].id < input[j].id)'
    BY <1>16, <1>17, <1>18, <2>1, <2>5 DEF Inv, AnswersInOrder
  <2> QED BY <2>2, <2>3, <2>4, <2>6, <2>7 DEF AnswersInOrder
<1>23. AnswerOrder'
  BY <1>1, <1>16, <1>17 DEF Inv, AnswerOrder, Plain
<1>24. PlatformInOrder' /\ PlatformOrder'
  BY <1>1 DEF Inv, PlatformInOrder, PlatformOrder
<1> QED BY <1>9, <1>13, <1>14, <1>15, <1>19, <1>20, <1>21, <1>22, <1>23, <1>24 DEF Inv

LEMMA RefuseTaskKeeps ==
  ASSUME Inv, NEW i \in DOMAIN input, RefuseTask(i)
  PROVE  Inv'
<1> DEFINE x == input[i]
           code == IF bridgeMap[x.name] # None THEN "CODEC_TYPE_MISMATCH"
                   ELSE IF x.what = "call" THEN "INVALID" ELSE "NAME_ERROR"
           z == [what |-> AnswerTo(x.what), id |-> x.id, name |-> x.name,
                 codec |-> bridgeList[x.name], code |-> code, direct |-> TRUE]
<1>1. /\ x.what \in Calls /\ input' = RemoveAt(input, i)
      /\ bridgeList[x.name] = None => jsInbox' = jsInbox
      /\ bridgeList[x.name] # None => jsInbox' = Append(jsInbox, z)
      /\ UNCHANGED <<bridgeList, bridgeMap, bridgeQueueMap, isAvailable, changes, gcd, gcdPc, jsSent,
                     nativeSent, nativeInbox, replied, invoked, excused>>
  BY DEF RefuseTask, regVars, sentVars, Calls, ToJs
<1>2. TypeOK /\ code \in Codes
  BY DEF Inv, Codes
<1> HIDE DEF code
<1>3. /\ x \in Task /\ x.id \in Nat /\ x.name \in Names
      /\ input' \in Seq(Task) /\ From(input, input', i, {})
      /\ Once(input', Calls) /\ Once(input', Returns)
      /\ Ids(input', Calls) = Ids(input, Calls) \ {x.id} /\ Ids(input', Returns) = Ids(input, Returns)
  BY <1>1, TakeTask, Kinds DEF Task
<1>4. AnswerTo(x.what) \in Answers /\ AnswerTo(x.what) \notin Calls
  BY <1>1, Kinds
<1>5. /\ z.what = AnswerTo(x.what) /\ z.id = x.id /\ z.direct
      /\ bridgeList[x.name] # None => z \in Got
  <2>1. bridgeList[x.name] \in BridgeTypes \cup {None}
    BY <1>2, <1>3 DEF TypeOK
  <2> QED BY <1>2, <1>3, <1>4, <2>1 DEF Got
<1> HIDE DEF z
<1>6. /\ jsInbox' \in Seq(Got) /\ From(jsInbox, jsInbox', 0, {z})
      /\ Ids(jsInbox', Calls) = Ids(jsInbox, Calls)
      /\ Ids(jsInbox', Answers) \subseteq Ids(jsInbox, Answers) \cup {x.id}
  BY <1>1, <1>2, <1>4, <1>5, PutGot
<1>7. From(gcd, gcd', 0, {})
  BY <1>1, Unchanged
<1>8. x.id \in Ids(input, Calls)
  BY <1>1, IdIn
<1> HIDE DEF x, z
<1>9. TypeOK'
  BY <1>1, <1>2, <1>3, <1>6 DEF TypeOK, Got, Calls
<1>10. JsPlaces'
  BY <1>1, <1>3, <1>6, <1>8 DEF Inv, JsPlaces, JsOpen, Calls
<1>11. NativePlaces'
  <2>1. NativeAnswered' = NativeAnswered
    BY <1>1 DEF NativeAnswered
  <2> QED BY <1>1, <1>3, <1>6, <2>1 DEF Inv, NativePlaces
<1>12. Carried'
  BY <1>1, <1>3, <1>4, <1>5, <1>6, <1>7, CarriedKept DEF sentVars, Inv, Carried
<1>13. EndsStay'
  BY <1>1, <1>3, <1>4, <1>5, <1>6, EndsKept DEF sentVars
<1>14. JsInOrder'
  BY <1>1, <1>3, JsInOrderKept
<1>15. SerialOrder'
  BY <1>1 DEF Inv, SerialOrder, SameQueue
<1>16. AnswersInOrder' /\ AnswerOrder'
  BY <1>1, <1>3, <1>5, <1>6, <1>7, AnswersKept
<1>17. PlatformInOrder' /\ PlatformOrder'
  BY <1>4, <1>5, <1>6, <1>7, PlatformKept
<1> QED BY <1>9, <1>10, <1>11, <1>12, <1>13, <1>14, <1>15, <1>16, <1>17 DEF Inv

LEMMA FinishTaskKeeps ==
  ASSUME Inv, NEW i \in DOMAIN input, FinishTask(i)
  PROVE  Inv'
<1> DEFINE x == input[i]
           y == [what |-> AnswerTo(x.what), id |-> x.id, name |-> x.name, codec |-> x.codec]
<1>1. /\ x.what \in Calls /\ x.plugin # None /\ input' = RemoveAt(input, i)
      /\ gcd' = Append(gcd, y)
      /\ UNCHANGED <<bridgeList, bridgeMap, bridgeQueueMap, isAvailable, changes, gcdPc, jsSent,
                     nativeSent, jsInbox, nativeInbox, replied, invoked, excused>>
  BY DEF FinishTask, Enqueue, regVars, sentVars, Calls
<1>2. TypeOK
  BY DEF Inv
<1>3. /\ x \in Task /\ x.id \in Nat /\ x.name \in Names /\ x.codec \in BridgeTypes
      /\ input' \in Seq(Task) /\ From(input, input', i, {})
      /\ Once(input', Calls) /\ Once(input', Returns)
      /\ Ids(input', Calls) = Ids(input, Calls) \ {x.id} /\ Ids(input', Returns) = Ids(input, Returns)
  BY <1>1, TakeTask, Kinds DEF Task
<1>4. AnswerTo(x.what) \in Answers /\ AnswerTo(x.what) \notin Calls
  BY <1>1, Kinds
<1>5. y \in Block /\ y.what = AnswerTo(x.what) /\ y.id = x.id /\ y.name = x.name
  BY <1>3, <1>4 DEF Block
<1>6. x.id \in Ids(input, Calls)
  BY <1>1, IdIn
<1> HIDE DEF x, y
<1>7. /\ gcd' \in Seq(Block) /\ From(gcd, gcd', 0, {y})
      /\ Ids(gcd', Calls) = Ids(gcd, Calls) /\ Ids(gcd', Answers) = Ids(gcd, Answers) \cup {x.id}
  BY <1>1, <1>4, <1>5, PutBlock, ZenonT(30)
<1>8. Once(gcd', Calls) /\ Once(gcd', Answers)
  <2>1. x.id \notin Ids(gcd, Answers)
    BY <1>6 DEF Inv, JsPlaces
  <2> QED BY <1>1, <1>4, <1>5, <2>1, PutBlock, ZenonT(30) DEF Inv, JsPlaces, NativePlaces
<1>9. From(jsInbox, jsInbox', 0, {})
  BY <1>1, Unchanged
<1>10. TypeOK'
  BY <1>1, <1>2, <1>3, <1>7 DEF TypeOK
<1>11. JsPlaces'
  BY <1>1, <1>3, <1>6, <1>7, <1>8 DEF Inv, JsPlaces, JsOpen, Calls
<1>12. NativePlaces'
  <2>1. NativeAnswered' = NativeAnswered
    BY <1>1 DEF NativeAnswered
  <2> QED BY <1>1, <1>3, <1>7, <1>8, <2>1 DEF Inv, NativePlaces
<1>13. Carried'
  <2>1. y.name = jsSent[y.id].name
    BY <1>1, <1>5 DEF Inv, Carried, x
  <2>2. gcdPc' = "find" => gcd' # <<>> /\ Head(gcd').what \in Calls
    <3>1. gcd \in Seq(Block)
      BY <1>2 DEF TypeOK
    <3> QED BY <1>1, <1>5, <3>1, HeadTailAppend, AppendProperties DEF Inv, Carried
  <2> QED BY <1>1, <1>3, <1>4, <1>5, <1>7, <1>9, <2>1, <2>2, CarriedKept DEF sentVars
<1>14. EndsStay'
  BY <1>1, <1>3, <1>9, EndsKept DEF sentVars
<1>15. JsInOrder'
  BY <1>1, <1>3, JsInOrderKept
<1>16. SerialOrder' /\ AnswerOrder'
  BY <1>1 DEF Inv, SerialOrder, AnswerOrder, Plain, SameQueue
<1>17. AnswersInOrder'
  <2>1. PICK J : Comes(input, input', i, {}, J)
    BY <1>3 DEF From
  <2>2. PICK K : Comes(gcd, gcd', 0, {y}, K)
    BY <1>7 DEF From
  <2>3. \A j \in DOMAIN input' : J[j] \in DOMAIN input /\ input'[j] = input[J[j]] /\ J[j] # i
    BY <2>1 DEF Comes
  <2>4. \A j \in DOMAIN gcd' : \/ K[j] \in DOMAIN gcd /\ gcd'[j] = gcd[K[j]]
                               \/ K[j] = Len(gcd) + 1 /\ gcd'[j] = y
    BY <2>2, Zenon DEF Comes
  <2>5. \A j, k \in DOMAIN gcd' : j < k => K[j] < K[k]
    BY <2>2 DEF Comes
  <2>6. \A j \in DOMAIN gcd : j \in Nat /\ ~(Len(gcd) + 1 < j)
    BY <2>2 DEF Comes
  <2>7. \A k \in DOMAIN input : k # i /\ input[k].what \in Calls /\ SameQueue(x.id, input[k].id)
          => x.id < input[k].id
    <3> SUFFICES ASSUME NEW k \in DOMAIN input, k # i, input[k].what \in Calls,
                        SameQueue(x.id, input[k].id)
                 PROVE  x.id < input[k].id
      OBVIOUS
    <3>1. x.serial /\ input[k].queue = x.queue
      BY <1>1 DEF Inv, Carried, SameQueue, x
    <3>2. ~(k \in 1 .. i - 1)
      BY <1>1, <3>1 DEF Inv, JsInOrder, x
    <3>3. i < k
      BY <2>1, <3>2 DEF Comes
    <3> QED BY <1>1, <3>3 DEF Inv, JsInOrder, x
  <2>8. /\ \A j \in DOMAIN gcd : gcd[j].what \in Answers /\ SameQueue(gcd[j].id, x.id) => gcd[j].id < x.id
        /\ \A j \in DOMAIN jsInbox : Plain(j) /\ SameQueue(jsInbox[j].id, x.id) => jsInbox[j].id < x.id
    BY <1>1 DEF Inv, AnswersInOrder, x
  <2>9. \A a, b : SameQueue(a, b)' <=> SameQueue(a, b)
    BY <1>1 DEF SameQueue
  <2>10. \A j \in DOMAIN jsInbox : Plain(j)' <=> Plain(j)
    BY <1>1 DEF Plain
  <2>11. (\A j \in DOMAIN jsInbox : Plain(j) => jsInbox[j].id \in 1 .. Len(jsSent))'
    BY <1>1, <2>10 DEF Inv, AnswersInOrder
  <2>12. (\A j, k \in DOMAIN gcd :
       gcd[j].what \in Answers /\ gcd[k].what \in Answers /\ j < k /\ SameQueue(gcd[j].id, gcd[k].id)
       => gcd[j].id < gcd[k].id)'
    <3> SUFFICES ASSUME NEW j \in DOMAIN gcd', NEW k \in DOMAIN gcd', gcd'[j].what \in Answers,
                        gcd'[k].what \in Answers, j < k, SameQueue(gcd[j].id, gcd[k].id)'
                 PROVE  gcd'[j].id < gcd'[k].id
      OBVIOUS
    <3>1. K[j] < K[k] /\ K[j] \in DOMAIN gcd /\ gcd'[j] = gcd[K[j]]
      BY <2>4, <2>5, <2>6
    <3> QED BY <1>5, <2>4, <2>8, <2>9, <3>1 DEF Inv, AnswersInOrder
  <2>13. (\A j \in DOMAIN jsInbox, k \in DOMAIN gcd :
       Plain(j) /\ gcd[k].what \in Answers /\ SameQueue(jsInbox[j].id, gcd[k].id)
       => jsInbox[j].id < gcd[k].id)'
    BY <1>1, <1>5, <2>4, <2>8, <2>9, <2>10 DEF Inv, AnswersInOrder
  <2>14. (\A j \in DOMAIN jsInbox, k \in DOMAIN input :
       Plain(j) /\ input[k].what \in Calls /\ SameQueue(jsInbox[j].id, input[k].id)
       => jsInbox[j].id < input[k].id)'
    BY <1>1, <2>3, <2>9, <2>10 DEF Inv, AnswersInOrder
  <2>15. (\A j \in DOMAIN gcd, k \in DOMAIN input :
       gcd[j].what \in Answers /\ input[k].what \in Calls /\ SameQueue(gcd[j].id, input[k].id)
       => gcd[j].id < input[k].id)'
    BY <1>5, <2>3, <2>4, <2>7, <2>9 DEF Inv, AnswersInOrder
  <2> QED BY <2>11, <2>12, <2>13, <2>14, <2>15 DEF AnswersInOrder
<1>18. PlatformInOrder' /\ PlatformOrder'
  BY <1>4, <1>5, <1>7, <1>9, PlatformKept
<1> QED BY <1>10, <1>11, <1>12, <1>13, <1>14, <1>15, <1>16, <1>17, <1>18 DEF Inv

LEMMA DropAnswerKeeps ==
  ASSUME Inv, NEW i \in DOMAIN input, DropAnswer(i)
  PROVE  Inv'
<1> DEFINE x == input[i]
<1>1. /\ x.what \in Calls /\ input' = RemoveAt(input, i)
      /\ excused' = excused \cup {<<"js", x.id>>}
      /\ UNCHANGED <<bridgeList, bridgeMap, bridgeQueueMap, isAvailable, changes, gcd, gcdPc, jsSent,
                     nativeSent, jsInbox, nativeInbox, replied, invoked>>
  BY DEF DropAnswer, regVars, sentVars, Calls
<1>2. TypeOK
  BY DEF Inv
<1>3. /\ x \in Task /\ x.id \in Nat
      /\ input' \in Seq(Task) /\ From(input, input', i, {})
      /\ Once(input', Calls) /\ Once(input', Returns)
      /\ Ids(input', Calls) = Ids(input, Calls) \ {x.id} /\ Ids(input', Returns) = Ids(input, Returns)
  BY <1>1, TakeTask, Kinds DEF Task
<1> HIDE DEF x
<1>4. From(gcd, gcd', 0, {}) /\ From(jsInbox, jsInbox', 0, {})
  BY <1>1, Unchanged
<1>5. TypeOK'
  BY <1>1, <1>2, <1>3, SMTT(30) DEF TypeOK
<1>6. JsPlaces'
  BY <1>1, <1>3 DEF Inv, JsPlaces, JsOpen, Calls
<1>7. NativePlaces'
  <2>1. NativeAnswered' = NativeAnswered
    BY <1>1 DEF NativeAnswered
  <2> QED BY <1>1, <1>3, <2>1 DEF Inv, NativePlaces
<1>8. Carried'
  BY <1>1, <1>3, <1>4, CarriedKept DEF sentVars, Inv, Carried
<1>9. EndsStay'
  BY <1>1, <1>3, <1>4, EndsKept DEF sentVars
<1>10. JsInOrder'
  BY <1>1, <1>3, JsInOrderKept
<1>11. SerialOrder'
  BY <1>1 DEF Inv, SerialOrder, SameQueue
<1>12. AnswersInOrder' /\ AnswerOrder'
  BY <1>1, <1>3, <1>4, AnswersKept
<1>13. PlatformInOrder' /\ PlatformOrder'
  BY <1>4, PlatformKept
<1> QED BY <1>5, <1>6, <1>7, <1>8, <1>9, <1>10, <1>11, <1>12, <1>13 DEF Inv

LEMMA IgnoreAnswerKeeps ==
  ASSUME Inv, NEW i \in DOMAIN input, IgnoreAnswer(i)
  PROVE  Inv'
<1> DEFINE x == input[i]
<1>1. /\ x.what \in Returns /\ input' = RemoveAt(input, i)
      /\ excused' = excused \cup {<<"native", x.id>>}
      /\ UNCHANGED <<bridgeList, bridgeMap, bridgeQueueMap, isAvailable, changes, gcd, gcdPc, jsSent,
                     nativeSent, jsInbox, nativeInbox, replied, invoked>>
  BY DEF IgnoreAnswer, regVars, sentVars, Returns
<1>2. TypeOK
  BY DEF Inv
<1>3. /\ x \in Task /\ x.id \in Nat /\ x.what \notin Calls
      /\ input' \in Seq(Task) /\ From(input, input', i, {})
      /\ Once(input', Calls) /\ Once(input', Returns)
      /\ Ids(input', Calls) = Ids(input, Calls) /\ Ids(input', Returns) = Ids(input, Returns) \ {x.id}
  BY <1>1, TakeTask, Kinds DEF Task
<1> HIDE DEF x
<1>4. From(gcd, gcd', 0, {}) /\ From(jsInbox, jsInbox', 0, {})
  BY <1>1, Unchanged
<1>5. TypeOK'
  BY <1>1, <1>2, <1>3, SMTT(30) DEF TypeOK
<1>6. JsPlaces'
  BY <1>1, <1>3 DEF Inv, JsPlaces, JsOpen, Calls
<1>7. NativePlaces'
  <2>1. NativeAnswered' = NativeAnswered
    BY <1>1 DEF NativeAnswered
  <2> QED BY <1>1, <1>3, <2>1 DEF Inv, NativePlaces
<1>8. Carried'
  BY <1>1, <1>3, <1>4, CarriedKept DEF sentVars, Inv, Carried
<1>9. EndsStay'
  BY <1>1, <1>3, <1>4, EndsKept DEF sentVars
<1>10. JsInOrder'
  BY <1>1, <1>3, JsInOrderKept
<1>11. SerialOrder'
  BY <1>1 DEF Inv, SerialOrder, SameQueue
<1>12. AnswersInOrder' /\ AnswerOrder'
  BY <1>1, <1>3, <1>4, AnswersKept
<1>13. PlatformInOrder' /\ PlatformOrder'
  BY <1>4, PlatformKept
<1> QED BY <1>5, <1>6, <1>7, <1>8, <1>9, <1>10, <1>11, <1>12, <1>13 DEF Inv

\* What GcdIdle and the place of the head say.
LEMMA AtHead ==
  ASSUME Inv, gcd # <<>>
  PROVE  /\ gcd \in Seq(Block) /\ 1 \in DOMAIN gcd /\ Head(gcd) = gcd[1] /\ gcd[1] \in Block
         /\ gcd[1].what \in Calls => gcd[1].id \in Ids(gcd, Calls)
         /\ gcd[1].what \in Answers => gcd[1].id \in Ids(gcd, Answers)
BY TailIsFrom, IdIn DEF Inv, TypeOK

LEMMA GcdAnswerKeeps ==
  ASSUME Inv, GcdAnswer
  PROVE  Inv'
<1> DEFINE x == gcd[1]
           z == [what |-> x.what, id |-> x.id, name |-> x.name,
                 codec |-> bridgeList[x.name], code |-> "ERROR_NO", direct |-> FALSE]
<1>1. /\ gcd # <<>> /\ x = Head(gcd) /\ x.what \in Answers /\ gcdPc = "idle" /\ gcd' = Tail(gcd)
      /\ bridgeList[x.name] = None => jsInbox' = jsInbox
      /\ bridgeList[x.name] # None => jsInbox' = Append(jsInbox, z)
      /\ UNCHANGED <<bridgeList, bridgeMap, bridgeQueueMap, isAvailable, changes, input, gcdPc, jsSent,
                     nativeSent, nativeInbox, replied, invoked, excused>>
  <2>1. gcd # <<>> /\ gcd[1] = Head(gcd)
    BY AtHead DEF GcdAnswer, GcdIdle
  <2> QED BY <2>1 DEF GcdAnswer, GcdIdle, ToJs, regVars, sentVars
<1>2. TypeOK
  BY DEF Inv
<1>3. /\ x \in Block /\ x.id \in Nat /\ x.name \in Names /\ x.what \notin Calls
      /\ gcd' \in Seq(Block) /\ From(gcd, gcd', 1, {})
      /\ Once(gcd', Calls) /\ Once(gcd', Answers)
      /\ Ids(gcd', Answers) = Ids(gcd, Answers) \ {x.id} /\ Ids(gcd', Calls) = Ids(gcd, Calls)
      /\ x.id \in Ids(gcd, Answers)
  BY <1>1, TakeBlock, AtHead, Kinds DEF Block
<1>4. /\ z.what = x.what /\ z.id = x.id /\ ~z.direct
      /\ bridgeList[x.name] # None => z \in Got
  <2>1. bridgeList[x.name] \in BridgeTypes \cup {None}
    BY <1>2, <1>3 DEF TypeOK
  <2> QED BY <1>1, <1>3, <2>1 DEF Got, Codes
<1> HIDE DEF z
<1>5. /\ jsInbox' \in Seq(Got) /\ From(jsInbox, jsInbox', 0, {z})
      /\ Ids(jsInbox', Calls) = Ids(jsInbox, Calls)
      /\ Ids(jsInbox', Answers) \subseteq Ids(jsInbox, Answers) \cup {x.id}
  BY <1>1, <1>2, <1>3, <1>4, PutGot
<1>6. From(input, input', 0, {})
  BY <1>1, Unchanged
<1>7. \/ jsInbox' = jsInbox
      \/ jsInbox' = Append(jsInbox, z)
  BY <1>1
<1>8. 1 \in DOMAIN gcd
  BY <1>1, AtHead
<1> HIDE DEF x
<1>9. TypeOK'
  BY <1>1, <1>2, <1>3, <1>5 DEF TypeOK, Got, Calls
<1>10. JsPlaces'
  BY <1>1, <1>3, <1>5 DEF Inv, JsPlaces, JsOpen, Calls
<1>11. NativePlaces'
  <2>1. NativeAnswered' = NativeAnswered
    BY <1>1 DEF NativeAnswered
  <2> QED BY <1>1, <1>3, <1>5, <2>1 DEF Inv, NativePlaces
<1>12. Carried'
  BY <1>1, <1>3, <1>4, <1>5, <1>6, CarriedKept DEF sentVars
<1>13. EndsStay'
  BY <1>1, <1>3, <1>4, <1>5, <1>6, EndsKept DEF sentVars
<1>14. JsInOrder'
  BY <1>1, <1>6, JsInOrderKept
<1>15. SerialOrder'
  BY <1>1 DEF Inv, SerialOrder, SameQueue
<1>16. PICK K : Comes(gcd, gcd', 1, {}, K)
  BY <1>3 DEF From
<1>17. PICK L : Comes(jsInbox, jsInbox', 0, {z}, L)
  BY <1>5 DEF From
<1>18. \A j \in DOMAIN gcd' : K[j] \in DOMAIN gcd /\ gcd'[j] = gcd[K[j]] /\ 1 < K[j]
  BY <1>16 DEF Comes
<1>19. \A j, k \in DOMAIN gcd' : j < k => K[j] < K[k]
  BY <1>16 DEF Comes
<1>20. \A j \in DOMAIN jsInbox' : \/ L[j] \in DOMAIN jsInbox /\ jsInbox'[j] = jsInbox[L[j]]
                                  \/ L[j] = Len(jsInbox) + 1 /\ jsInbox'[j] = z
  BY <1>17, Zenon DEF Comes
<1>21. /\ \A j, k \in DOMAIN jsInbox' : j < k => L[j] < L[k]
       /\ \A j \in DOMAIN jsInbox : ~(Len(jsInbox) + 1 < j)
       /\ ~(Len(jsInbox) + 1 < Len(jsInbox) + 1)
  BY <1>17 DEF Comes
<1>22. /\ \A a, b : SameQueue(a, b)' <=> SameQueue(a, b)
       /\ x = gcd[1]
  BY <1>1 DEF SameQueue, x
<1>23. \A j \in DOMAIN jsInbox' : Plain(j)' =>
         \/ L[j] \in DOMAIN jsInbox /\ jsInbox'[j] = jsInbox[L[j]] /\ Plain(L[j])
         \/ jsInbox'[j] = z
  BY <1>20 DEF Plain
<1>24. AnswersInOrder'
  <2>1. (\A i \in DOMAIN jsInbox : Plain(i) => jsInbox[i].id \in 1 .. Len(jsSent))'
    <3>1. x.id \in 1 .. Len(jsSent)
      BY <1>3 DEF Inv, JsPlaces, JsOpen
    <3> QED BY <1>1, <1>4, <1>23, <3>1 DEF Inv, AnswersInOrder
  <2>2. (\A i, j \in DOMAIN gcd :
       gcd[i].what \in Answers /\ gcd[j].what \in Answers /\ i < j /\ SameQueue(gcd[i].id, gcd[j].id)
       => gcd[i].id < gcd[j].id)'
    BY <1>18, <1>19, <1>22 DEF Inv, AnswersInOrder
  <2>3. (\A i \in DOMAIN jsInbox, j \in DOMAIN gcd :
       Plain(i) /\ gcd[j].what \in Answers /\ SameQueue(jsInbox[i].id, gcd[j].id)
       => jsInbox[i].id < gcd[j].id)'
    BY <1>1, <1>4, <1>8, <1>18, <1>22, <1>23 DEF Inv, AnswersInOrder
  <2>4. (\A i \in DOMAIN jsInbox, j \in DOMAIN input :
       Plain(i) /\ input[j].what \in Calls /\ SameQueue(jsInbox[i].id, input[j].id)
       => jsInbox[i].id < input[j].id)'
    BY <1>1, <1>4, <1>8, <1>22, <1>23 DEF Inv, AnswersInOrder
  <2>5. (\A i \in DOMAIN gcd, j \in DOMAIN input :
       gcd[i].what \in Answers /\ input[j].what \in Calls /\ SameQueue(gcd[i].id, input[j].id)
       => gcd[i].id < input[j].id)'
    BY <1>1, <1>18, <1>22 DEF Inv, AnswersInOrder
  <2> QED BY <2>1, <2>2, <2>3, <2>4, <2>5 DEF AnswersInOrder
<1>25. AnswerOrder'
  <2> SUFFICES ASSUME NEW i \in DOMAIN jsInbox', NEW j \in DOMAIN jsInbox', i < j, Plain(i)', Plain(j)',
                      SameQueue(jsInbox[i].id, jsInbox[j].id)'
               PROVE  jsInbox'[i].id < jsInbox'[j].id
    BY DEF AnswerOrder
  <2>1. L[i] < L[j] /\ L[i] \in DOMAIN jsInbox /\ jsInbox'[i] = jsInbox[L[i]] /\ Plain(L[i])
    BY <1>20, <1>21, <1>23 DEF Plain
  <2>2. SameQueue(jsInbox'[i].id, jsInbox'[j].id)
    BY <1>1 DEF SameQueue
  <2> QED BY <1>1, <1>4, <1>8, <1>22, <1>23, <2>1, <2>2 DEF Inv, AnswerOrder, AnswersInOrder
<1>26. PlatformInOrder' /\ PlatformOrder'
  BY <1>3, <1>4, <1>5, PlatformKept
<1> QED BY <1>9, <1>10, <1>11, <1>12, <1>13, <1>14, <1>15, <1>24, <1>25, <1>26 DEF Inv

LEMMA GcdNoReceiverKeeps ==
  ASSUME Inv, GcdNoReceiver
  PROVE  Inv'
<1> DEFINE x == gcd[1]
           h == HandlerOf(x.name, InlineGcd)
           y == NewTask(AnswerTo(x.what), x.id, x.name, x.codec, "NAME_ERROR", h)
<1>1. /\ gcd # <<>> /\ x = Head(gcd) /\ x.what \in Calls /\ gcdPc = "idle" /\ gcd' = Tail(gcd)
      /\ input' = Append(input, y)
      /\ UNCHANGED <<bridgeList, bridgeMap, bridgeQueueMap, isAvailable, changes, gcdPc, jsSent,
                     nativeSent, jsInbox, nativeInbox, replied, invoked, excused>>
  <2>1. gcd # <<>> /\ gcd[1] = Head(gcd)
    BY AtHead DEF GcdNoReceiver, GcdIdle
  <2> QED BY <2>1 DEF GcdNoReceiver, GcdIdle, regVars, sentVars, Calls
<1>2. TypeOK
  BY DEF Inv
<1>3. /\ x \in Block /\ x.id \in Nat /\ x.name \in Names /\ x.codec \in BridgeTypes /\ x.what \notin Answers
      /\ gcd' \in Seq(Block) /\ From(gcd, gcd', 1, {})
      /\ Once(gcd', Calls) /\ Once(gcd', Answers)
      /\ Ids(gcd', Calls) = Ids(gcd, Calls) \ {x.id} /\ Ids(gcd', Answers) = Ids(gcd, Answers)
      /\ x.id \in Ids(gcd, Calls) /\ 1 \in DOMAIN gcd
  BY <1>1, TakeBlock, AtHead, Kinds DEF Block
<1>4. AnswerTo(x.what) \in Answers /\ AnswerTo(x.what) \in Returns /\ AnswerTo(x.what) \notin Calls
  BY <1>1, Kinds
<1>5. y \in Task
  <2>1. h \in Handler
    BY <1>2, <1>3, HandlerOfType
  <2> HIDE DEF h
  <2>2. "NAME_ERROR" \in Codes
    BY DEF Codes
  <2> QED BY <1>3, <1>4, <2>1, <2>2, NewTaskType
<1>6. y.what = AnswerTo(x.what) /\ y.id = x.id /\ y.name = x.name /\ y.codec = x.codec /\ y.plugin = None
  BY DEF NewTask
<1>10. x = gcd[1]
  OBVIOUS
<1> HIDE DEF x, y, h
<1>7. /\ input' \in Seq(Task) /\ From(input, input', 0, {y})
      /\ Ids(input', Calls) = Ids(input, Calls) /\ Ids(input', Returns) = Ids(input, Returns) \cup {x.id}
  BY <1>1, <1>4, <1>5, <1>6, PutTask
<1>8. Once(input', Calls) /\ Once(input', Returns)
  <2>1. x.id \notin Ids(input, Returns)
    BY <1>3 DEF Inv, NativePlaces
  <2> QED BY <1>1, <1>4, <1>5, <1>6, <2>1, PutTask DEF Inv, JsPlaces, NativePlaces
<1>9. From(jsInbox, jsInbox', 0, {})
  BY <1>1, Unchanged
<1>11. TypeOK'
  BY <1>1, <1>2, <1>3, <1>7 DEF TypeOK
<1>12. JsPlaces'
  BY <1>1, <1>3, <1>7, <1>8 DEF Inv, JsPlaces, JsOpen, Calls
<1>13. NativePlaces'
  <2>1. NativeAnswered' = NativeAnswered
    BY <1>1 DEF NativeAnswered
  <2> QED BY <1>1, <1>3, <1>7, <1>8, <2>1 DEF Inv, NativePlaces
<1>14. Carried'
  <2>1. y.name = nativeSent[y.id].name
    BY <1>1, <1>3, <1>6, <1>10 DEF Inv, Carried
  <2> QED BY <1>1, <1>3, <1>4, <1>6, <1>7, <1>9, <2>1, CarriedKept DEF sentVars
<1>15. EndsStay'
  <2>1. y.codec = typeOf[nativeSent[y.id].plugin]
    BY <1>1, <1>3, <1>6, <1>10 DEF Inv, Carried
  <2> QED BY <1>1, <1>7, <1>9, <2>1, EndsKept DEF sentVars
<1>16. JsInOrder'
  BY <1>1, <1>4, <1>6, <1>7, JsInOrderKept
<1>17. SerialOrder'
  BY <1>1 DEF Inv, SerialOrder, SameQueue
<1>18. AnswersInOrder' /\ AnswerOrder'
  BY <1>1, <1>3, <1>4, <1>6, <1>7, <1>9, AnswersKept
<1>19. PlatformInOrder' /\ PlatformOrder'
  BY <1>3, <1>9, PlatformKept
<1> QED BY <1>11, <1>12, <1>13, <1>14, <1>15, <1>16, <1>17, <1>18, <1>19 DEF Inv

LEMMA GcdReceiverExistsKeeps ==
  ASSUME Inv, GcdReceiverExists
  PROVE  Inv'
<1>1. /\ gcd # <<>> /\ Head(gcd).what \in Calls /\ gcdPc' = "find"
      /\ UNCHANGED <<bridgeList, bridgeMap, bridgeQueueMap, isAvailable, changes, input, gcd, jsSent,
                     nativeSent, jsInbox, nativeInbox, replied, invoked, excused>>
  BY DEF GcdReceiverExists, GcdIdle, regVars, sentVars, Calls
<1>2. /\ From(input, input', 0, {}) /\ From(gcd, gcd', 0, {}) /\ From(jsInbox, jsInbox', 0, {})
  BY <1>1, Unchanged
<1>3. TypeOK'
  BY <1>1 DEF Inv, TypeOK
<1>4. JsPlaces' /\ NativePlaces'
  BY <1>1 DEF Inv, JsPlaces, JsOpen, NativePlaces, NativeAnswered
<1>5. Carried'
  BY <1>1 DEF Inv, Carried
<1>6. EndsStay'
  BY <1>1, <1>2, EndsKept DEF sentVars
<1>7. JsInOrder' /\ SerialOrder'
  BY <1>1 DEF Inv, JsInOrder, SerialOrder, SameQueue
<1>8. AnswersInOrder' /\ AnswerOrder'
  BY <1>1, <1>2, AnswersKept
<1>9. PlatformInOrder' /\ PlatformOrder'
  BY <1>2, PlatformKept
<1> QED BY <1>3, <1>4, <1>5, <1>6, <1>7, <1>8, <1>9 DEF Inv

LEMMA GcdDeliverKeeps ==
  ASSUME Inv, GcdDeliver
  PROVE  Inv'
<1> DEFINE x == gcd[1]
           z == [what |-> x.what, id |-> x.id, name |-> x.name,
                 codec |-> bridgeList[x.name], code |-> "ERROR_NO", direct |-> FALSE]
<1>1. /\ gcd # <<>> /\ x = Head(gcd) /\ x.what \in Calls /\ gcdPc' = "idle" /\ gcd' = Tail(gcd)
      /\ bridgeList[x.name] = None => jsInbox' = jsInbox
      /\ bridgeList[x.name] # None => jsInbox' = Append(jsInbox, z)
      /\ UNCHANGED <<bridgeList, bridgeMap, bridgeQueueMap, isAvailable, changes, input, jsSent,
                     nativeSent, nativeInbox, replied, invoked, excused>>
  <2>1. gcd # <<>> /\ gcd[1] = Head(gcd) /\ Head(gcd).what \in Calls
    BY AtHead DEF GcdDeliver, GcdIdle, Inv, Carried, Calls
  <2> QED BY <2>1 DEF GcdDeliver, ToJs, regVars, sentVars
<1>2. TypeOK
  BY DEF Inv
<1>3. /\ x \in Block /\ x.id \in Nat /\ x.name \in Names /\ x.what \notin Answers
      /\ gcd' \in Seq(Block) /\ From(gcd, gcd', 1, {})
      /\ Once(gcd', Calls) /\ Once(gcd', Answers)
      /\ Ids(gcd', Calls) = Ids(gcd, Calls) \ {x.id} /\ Ids(gcd', Answers) = Ids(gcd, Answers)
      /\ x.id \in Ids(gcd, Calls) /\ 1 \in DOMAIN gcd
  BY <1>1, TakeBlock, AtHead, Kinds DEF Block
<1>4. /\ z.what = x.what /\ z.id = x.id /\ z.codec = bridgeList[x.name] /\ z.name = x.name
      /\ bridgeList[x.name] # None => z \in Got
  <2>1. bridgeList[x.name] \in BridgeTypes \cup {None}
    BY <1>2, <1>3 DEF TypeOK
  <2> QED BY <1>1, <1>3, <2>1 DEF Got, Codes
<1> HIDE DEF z
<1>5. /\ jsInbox' \in Seq(Got) /\ From(jsInbox, jsInbox', 0, {z})
      /\ Ids(jsInbox, Calls) \subseteq Ids(jsInbox', Calls)
      /\ Ids(jsInbox', Calls) \subseteq Ids(jsInbox, Calls) \cup {x.id}
      /\ Ids(jsInbox', Answers) = Ids(jsInbox, Answers)
  BY <1>1, <1>2, <1>3, <1>4, PutGot
<1>6. From(input, input', 0, {}) /\ x = gcd[1]
  BY <1>1, Unchanged
<1> HIDE DEF x
<1>7. TypeOK'
  BY <1>1, <1>2, <1>3, <1>5 DEF TypeOK, Got, Calls
<1>8. JsPlaces'
  BY <1>1, <1>3, <1>5 DEF Inv, JsPlaces, JsOpen, Calls
<1>9. NativePlaces'
  <2>1. NativeAnswered' = NativeAnswered
    BY <1>1 DEF NativeAnswered
  <2> QED BY <1>1, <1>3, <1>5, <2>1 DEF Inv, NativePlaces
<1>10. z.name = nativeSent[z.id].name
  BY <1>1, <1>3, <1>4, <1>6 DEF Inv, Carried
<1>11. Carried'
  BY <1>1, <1>3, <1>4, <1>5, <1>6, <1>10, CarriedKept DEF sentVars
<1>12. EndsStay'
  <2>1. \A c \in DOMAIN nativeSent : z.id = c /\ c \notin NativeExcusable => z.codec = typeOf[nativeSent[c].plugin]
    BY <1>4, <1>10 DEF Inv, EndsStay, Carried, Paired
  <2> QED BY <1>1, <1>5, <1>6, <2>1, EndsKept DEF sentVars
<1>13. JsInOrder'
  BY <1>1, <1>6, JsInOrderKept
<1>14. SerialOrder'
  BY <1>1 DEF Inv, SerialOrder, SameQueue
<1>15. AnswersInOrder' /\ AnswerOrder'
  BY <1>1, <1>3, <1>4, <1>5, <1>6, AnswersKept
<1>16. PICK K : Comes(gcd, gcd', 1, {}, K)
  BY <1>3 DEF From
<1>17. PICK L : Comes(jsInbox, jsInbox', 0, {z}, L)
  BY <1>5 DEF From
<1>18. \A j \in DOMAIN gcd' : K[j] \in DOMAIN gcd /\ gcd'[j] = gcd[K[j]] /\ 1 < K[j]
  BY <1>16 DEF Comes
<1>19. \A j, k \in DOMAIN gcd' : j < k => K[j] < K[k]
  BY <1>16 DEF Comes
<1>20. \A j \in DOMAIN jsInbox' : \/ L[j] \in DOMAIN jsInbox /\ jsInbox'[j] = jsInbox[L[j]]
                                  \/ L[j] = Len(jsInbox) + 1 /\ jsInbox'[j] = z
  BY <1>17, Zenon DEF Comes
<1>21. /\ \A j, k \in DOMAIN jsInbox' : j < k => L[j] < L[k]
       /\ \A j \in DOMAIN jsInbox : ~(Len(jsInbox) + 1 < j)
       /\ ~(Len(jsInbox) + 1 < Len(jsInbox) + 1)
  BY <1>17 DEF Comes
<1>22. PlatformInOrder'
  <2>1. (\A i, j \in DOMAIN gcd :
          gcd[i].what \in Calls /\ gcd[j].what \in Calls /\ i < j => gcd[i].id < gcd[j].id)'
    BY <1>18, <1>19 DEF Inv, PlatformInOrder
  <2>2. (\A i \in DOMAIN jsInbox, j \in DOMAIN gcd :
          jsInbox[i].what \in Calls /\ gcd[j].what \in Calls => jsInbox[i].id < gcd[j].id)'
    <3> SUFFICES ASSUME NEW i \in DOMAIN jsInbox', NEW j \in DOMAIN gcd',
                        jsInbox'[i].what \in Calls, gcd'[j].what \in Calls
                 PROVE  jsInbox'[i].id < gcd'[j].id
      OBVIOUS
    <3>1. K[j] \in DOMAIN gcd /\ gcd'[j] = gcd[K[j]] /\ 1 < K[j]
      BY <1>18
    <3>2. x.id < gcd'[j].id
      BY <1>1, <1>3, <1>6, <3>1 DEF Inv, PlatformInOrder
    <3>3. CASE L[i] \in DOMAIN jsInbox /\ jsInbox'[i] = jsInbox[L[i]]
      BY <3>1, <3>3 DEF Inv, PlatformInOrder
    <3> QED BY <1>4, <1>20, <3>2, <3>3
  <2> QED BY <2>1, <2>2 DEF PlatformInOrder
<1>23. PlatformOrder'
  <2> SUFFICES ASSUME NEW i \in DOMAIN jsInbox', NEW j \in DOMAIN jsInbox', i < j,
                      jsInbox'[i].what \in Calls, jsInbox'[j].what \in Calls
               PROVE  jsInbox'[i].id < jsInbox'[j].id
    BY DEF PlatformOrder, Calls
  <2>1. L[i] < L[j] /\ L[i] \in DOMAIN jsInbox /\ jsInbox'[i] = jsInbox[L[i]]
    BY <1>20, <1>21
  <2>2. CASE L[j] \in DOMAIN jsInbox /\ jsInbox'[j] = jsInbox[L[j]]
    BY <2>1, <2>2 DEF Inv, PlatformOrder, Calls
  <2>3. CASE jsInbox'[j] = z
    BY <1>1, <1>3, <1>4, <1>6, <2>1, <2>3 DEF Inv, PlatformInOrder
  <2> QED BY <1>20, <2>2, <2>3
<1> QED BY <1>7, <1>8, <1>9, <1>11, <1>12, <1>13, <1>14, <1>15, <1>22, <1>23 DEF Inv

LEMMA JSReplyKeeps ==
  ASSUME Inv, NEW i \in DOMAIN jsInbox, NEW cancel \in BOOLEAN, JSReply(i, cancel)
  PROVE  Inv'
<1> DEFINE x == jsInbox[i]
           what == IF cancel THEN "cancel" ELSE AnswerTo(x.what)
           h == HandlerOf(x.name, InlineJs)
           y == NewTask(what, x.id, x.name, x.codec, "ERROR_NO", h)
<1>1. /\ x.what \in Calls /\ x.id \notin replied
      /\ replied' = replied \cup {x.id} /\ input' = Append(input, y)
      /\ UNCHANGED <<bridgeList, bridgeMap, bridgeQueueMap, isAvailable, changes, gcd, gcdPc, jsSent,
                     nativeSent, jsInbox, nativeInbox, invoked, excused>>
  BY DEF JSReply, regVars, sentVars, Calls
<1>2. TypeOK
  BY DEF Inv
<1>3. /\ x \in Got /\ x.id \in Nat /\ x.name \in Names /\ x.codec \in BridgeTypes
      /\ x.id \in Ids(jsInbox, Calls)
  <2>1. x \in Got
    BY <1>2, SeqBasics DEF TypeOK, Got, Calls
  <2> QED BY <1>1, <2>1, IdIn DEF Got
<1>4. what \in Returns /\ what \notin Calls
  BY <1>1 DEF AnswerTo, Returns, Answers, Calls
<1>5. y \in Task
  <2>1. h \in Handler
    BY <1>2, <1>3, HandlerOfType
  <2> HIDE DEF h, what
  <2>2. "ERROR_NO" \in Codes
    BY DEF Codes
  <2> QED BY <1>3, <1>4, <2>1, <2>2, NewTaskType
<1>6. y.what = what /\ y.id = x.id /\ y.name = x.name /\ y.codec = x.codec /\ y.plugin = None
  BY DEF NewTask
<1>7. x = jsInbox[i]
  OBVIOUS
<1> HIDE DEF x, y, h, what
<1>8. /\ input' \in Seq(Task) /\ From(input, input', 0, {y})
      /\ Ids(input', Calls) = Ids(input, Calls) /\ Ids(input', Returns) = Ids(input, Returns) \cup {x.id}
  BY <1>1, <1>4, <1>5, <1>6, PutTask
<1>9. Once(input', Calls) /\ Once(input', Returns)
  <2>1. x.id \notin Ids(input, Returns)
    BY <1>1, <1>3 DEF Inv, NativePlaces
  <2> QED BY <1>1, <1>4, <1>5, <1>6, <2>1, PutTask DEF Inv, JsPlaces, NativePlaces
<1>10. /\ From(gcd, gcd', 0, {}) /\ From(jsInbox, jsInbox', 0, {})
  BY <1>1, Unchanged
<1>11. TypeOK'
  <2>1. x.id \in 1 .. Len(nativeSent)
    BY <1>3 DEF Inv, NativePlaces
  <2> QED BY <1>1, <1>2, <1>8, <2>1 DEF TypeOK
<1>12. JsPlaces'
  BY <1>1, <1>8, <1>9 DEF Inv, JsPlaces, JsOpen, Calls
<1>13. NativePlaces'
  <2>1. NativeAnswered' = NativeAnswered
    BY <1>1 DEF NativeAnswered
  <2> QED BY <1>1, <1>3, <1>8, <1>9, <2>1 DEF Inv, NativePlaces
<1>14. Carried'
  <2>1. y.name = nativeSent[y.id].name
    BY <1>1, <1>6, <1>7 DEF Inv, Carried
  <2>2. gcdPc' = "find" => gcd' # <<>> /\ Head(gcd').what \in Calls
    BY <1>1 DEF Inv, Carried
  <2>3. UNCHANGED sentVars
    BY <1>1 DEF sentVars
  <2>4. \A z \in {y} : /\ z.what \notin Calls
                       /\ z.what \in Returns => z.name = nativeSent[z.id].name
    BY <1>4, <1>6, <2>1
  <2>5. CarriedStep({y}, {}, {})
    BY <1>8, <1>10, <2>2, <2>3, <2>4 DEF CarriedStep
  <2> QED BY <2>5, CarriedMoves
<1>15. EndsStay'
  <2>1. \A c \in DOMAIN nativeSent : y.id = c /\ c \notin NativeExcusable => y.codec = typeOf[nativeSent[c].plugin]
    BY <1>1, <1>6, <1>7 DEF Inv, EndsStay
  <2> QED BY <1>1, <1>8, <1>10, <2>1, EndsKept DEF sentVars
<1>16. JsInOrder'
  BY <1>1, <1>4, <1>6, <1>8, JsInOrderKept
<1>17. SerialOrder'
  BY <1>1 DEF Inv, SerialOrder, SameQueue
<1>18. AnswersInOrder' /\ AnswerOrder'
  BY <1>1, <1>4, <1>6, <1>8, <1>10, AnswersKept
<1>19. PlatformInOrder' /\ PlatformOrder'
  BY <1>10, PlatformKept
<1> QED BY <1>11, <1>12, <1>13, <1>14, <1>15, <1>16, <1>17, <1>18, <1>19 DEF Inv

LEMMA RunAnswerKeeps ==
  ASSUME Inv, NEW i \in DOMAIN input, RunAnswer(i)
  PROVE  Inv'
<1> DEFINE x == input[i]
           p == bridgeMap[x.name]
           y == [what |-> x.what, id |-> x.id, plugin |-> p, code |-> x.code]
           code == IF p = None THEN "INVALID" ELSE "CODEC_TYPE_MISMATCH"
           z == [what |-> "result", id |-> x.id + MaxJs, name |-> x.name,
                 codec |-> bridgeList[x.name], code |-> code, direct |-> TRUE]
           Taken == [what : {"cancel"} \cup Answers, id : Nat, plugin : Plugins, code : Codes]
<1>1. /\ x.what \in Returns /\ input' = RemoveAt(input, i)
      /\ nativeInbox' = nativeInbox \/ (p # None /\ nativeInbox' = Append(nativeInbox, y))
      /\ jsInbox' = jsInbox \/ (bridgeList[x.name] # None /\ jsInbox' = Append(jsInbox, z))
      /\ UNCHANGED <<bridgeList, bridgeMap, bridgeQueueMap, isAvailable, changes, gcd, gcdPc, jsSent,
                     nativeSent, replied, invoked, excused>>
  BY DEF RunAnswer, regVars, sentVars, Returns, ToJs
<1>2. TypeOK /\ code \in Codes
  BY DEF Inv, Codes
<1>3. /\ x \in Task /\ x.id \in Nat /\ x.name \in Names /\ x.code \in Codes /\ x.what \notin Calls
      /\ input' \in Seq(Task) /\ From(input, input', i, {})
      /\ Once(input', Calls) /\ Once(input', Returns)
      /\ Ids(input', Calls) = Ids(input, Calls) /\ Ids(input', Returns) = Ids(input, Returns) \ {x.id}
      /\ x.id \in Ids(input, Returns)
  BY <1>1, TakeTask, Kinds, IdIn DEF Task
<1> HIDE DEF code
<1>4. x.id \in 1 .. Len(nativeSent) /\ x.id \in Nat \ {0} /\ MaxJs \in Nat /\ Len(jsSent) \in Nat
  <2>1. x.id \in 1 .. Len(nativeSent)
    BY <1>3 DEF Inv, NativePlaces
  <2>2. Len(nativeSent) \in Nat /\ Len(jsSent) \in Nat
    BY <1>2, LenProperties DEF TypeOK
  <2> QED BY <2>1, <2>2, MessagingAssumption
<1>5. p # None => y \in Taken /\ y.what = x.what /\ y.id = x.id
  <2>1. p \in Plugins \cup {None}
    BY <1>2, <1>3 DEF TypeOK
  <2> HIDE DEF p, x
  <2> QED BY <1>1, <1>3, <2>1 DEF Returns
<1>6. /\ z.what = "result" /\ z.id = x.id + MaxJs /\ z.direct
      /\ bridgeList[x.name] # None => z \in Got
  <2>1. bridgeList[x.name] \in BridgeTypes \cup {None}
    BY <1>2, <1>3 DEF TypeOK
  <2>2. x.id + MaxJs \in Nat
    BY <1>4
  <2> QED BY <1>2, <1>3, <2>1, <2>2 DEF Got, Answers
<1>7. "result" \in Answers /\ "result" \notin Calls
  BY DEF Answers, Calls
<1> HIDE DEF x, y, z, p
<1>8. /\ jsInbox' \in Seq(Got) /\ From(jsInbox, jsInbox', 0, {z})
      /\ Ids(jsInbox', Calls) = Ids(jsInbox, Calls)
      /\ Ids(jsInbox', Answers) \subseteq Ids(jsInbox, Answers) \cup {x.id + MaxJs}
  BY <1>1, <1>2, <1>6, <1>7, PutGot
<1>9. /\ nativeInbox' \in Seq(Taken)
      /\ NativeAnswered' \subseteq NativeAnswered \cup {x.id}
  <2>1. nativeInbox \in Seq(Taken)
    BY <1>2 DEF TypeOK
  <2>2. CASE nativeInbox' = nativeInbox
    BY <2>1, <2>2 DEF NativeAnswered
  <2>3. CASE p # None /\ nativeInbox' = Append(nativeInbox, y)
    <3> HIDE DEF Taken
    <3>1. nativeInbox' \in Seq(Taken)
      BY <1>5, <2>1, <2>3, AppendIsFrom
    <3>2. \A W : Ids(nativeInbox', W) = IF y.what \in W THEN Ids(nativeInbox, W) \cup {y.id}
                                        ELSE Ids(nativeInbox, W)
      BY <1>5, <2>1, <2>3, IdsJoined
    <3> QED BY <1>5, <2>3, <3>1, <3>2 DEF NativeAnswered
  <2> QED BY <1>1, <2>2, <2>3
<1>10. From(gcd, gcd', 0, {})
  BY <1>1, Unchanged
<1>11. TypeOK'
  BY <1>1, <1>2, <1>3, <1>8, <1>9 DEF TypeOK, Got, Calls
<1>12. JsPlaces'
  <2>1. x.id + MaxJs > MaxJs /\ x.id + MaxJs \notin 1 .. Len(jsSent)
    BY <1>4 DEF Inv, JsPlaces
  <2> QED BY <1>1, <1>3, <1>8, <2>1 DEF Inv, JsPlaces, JsOpen, Calls
<1>13. NativePlaces'
  BY <1>1, <1>3, <1>4, <1>8, <1>9 DEF Inv, NativePlaces
<1>14. Carried'
  <2>1. UNCHANGED sentVars
    BY <1>1 DEF sentVars
  <2>2. gcdPc' = "find" => gcd' # <<>> /\ Head(gcd').what \in Calls
    BY <1>1 DEF Inv, Carried
  <2>3. CarriedStep({}, {}, {z})
    BY <1>3, <1>6, <1>7, <1>8, <1>10, <2>1, <2>2 DEF CarriedStep
  <2> QED BY <2>3, CarriedMoves
<1>15. EndsStay'
  BY <1>1, <1>3, <1>6, <1>7, <1>8, EndsKept DEF sentVars
<1>16. JsInOrder'
  BY <1>1, <1>3, JsInOrderKept
<1>17. SerialOrder'
  BY <1>1 DEF Inv, SerialOrder, SameQueue
<1>18. AnswersInOrder' /\ AnswerOrder'
  BY <1>1, <1>3, <1>6, <1>8, <1>10, AnswersKept
<1>19. PlatformInOrder' /\ PlatformOrder'
  BY <1>6, <1>7, <1>8, <1>10, PlatformKept
<1> QED BY <1>11, <1>12, <1>13, <1>14, <1>15, <1>16, <1>17, <1>18, <1>19 DEF Inv

LEMMA StartTaskKeeps ==
  ASSUME Inv, NEW i \in DOMAIN input, StartTask(i)
  PROVE  Inv'
<1> DEFINE x == input[i]
           p == bridgeMap[x.name]
<1>1. /\ x.what \in Calls /\ x.plugin = None /\ p # None
      /\ x.serial => \A j \in 1 .. i - 1 : input[j].queue # x.queue
      /\ input' = [input EXCEPT ![i].plugin = p] /\ invoked' = Append(invoked, x.id)
      /\ UNCHANGED <<bridgeList, bridgeMap, bridgeQueueMap, isAvailable, changes, gcd, gcdPc, jsSent,
                     nativeSent, jsInbox, nativeInbox, replied, excused>>
  BY DEF StartTask, MayStart, Serves, regVars, sentVars, Calls
<1>2. TypeOK /\ input \in Seq(Task) /\ DOMAIN input = 1 .. Len(input) /\ Len(input) \in Nat
  BY SeqBasics DEF Inv, TypeOK
<1>3. x \in Task /\ p \in Plugins
  <2>1. x \in Task
    BY <1>2, SeqBasics
  <2> QED BY <1>1, <1>2, <2>1 DEF Task, TypeOK
<1>4. /\ input' \in Seq(Task) /\ DOMAIN input' = DOMAIN input
      /\ \A j \in DOMAIN input : j # i => input'[j] = input[j]
      /\ input'[i] = [x EXCEPT !.plugin = p]
  <2>1. [x EXCEPT !.plugin = p] \in Task
    BY <1>3 DEF Task
  <2> HIDE DEF p
  <2>2. input' = [input EXCEPT ![i] = [x EXCEPT !.plugin = p]]
    BY <1>1
  <2> HIDE DEF x
  <2> QED BY <1>2, <2>1, <2>2, ExceptSeq
<1>5. \A j \in DOMAIN input :
        /\ input'[j].what = input[j].what /\ input'[j].id = input[j].id /\ input'[j].name = input[j].name
        /\ input'[j].codec = input[j].codec /\ input'[j].queue = input[j].queue
        /\ input'[j].serial = input[j].serial
        /\ input'[j].plugin = IF j = i THEN p ELSE input[j].plugin
  BY <1>3, <1>4 DEF Task
<1>6. x.id \in 1 .. Len(jsSent) /\ x.id \in 1 .. MaxJs
  <2>1. x.id \in 1 .. Len(jsSent)
    BY <1>1, JsRanges
  <2>2. Len(jsSent) \in Nat /\ MaxJs \in Nat /\ Len(jsSent) <= MaxJs
    BY <1>2, LenProperties, MessagingAssumption DEF TypeOK, Inv, JsPlaces
  <2> QED BY <2>1, <2>2
<1>7. x = input[i]
  OBVIOUS
<1> HIDE DEF x, p
<1>8. \A W : Ids(input', W) = Ids(input, W) /\ (Once(input, W) => Once(input', W))
  BY <1>4, <1>5 DEF Ids, Once
<1>9. invoked' \in Seq(1 .. MaxJs) /\ From(invoked, invoked', 0, {x.id})
  BY <1>1, <1>2, <1>6, AppendIsFrom DEF TypeOK
<1>10. TypeOK'
  BY <1>1, <1>2, <1>4, <1>9 DEF TypeOK
<1>11. JsPlaces'
  BY <1>1, <1>8 DEF Inv, JsPlaces, JsOpen
<1>12. NativePlaces'
  <2>1. NativeAnswered' = NativeAnswered
    BY <1>1 DEF NativeAnswered
  <2> QED BY <1>1, <1>8, <2>1 DEF Inv, NativePlaces
<1>13. Carried'
  BY <1>1, <1>4, <1>5 DEF Inv, Carried
<1>14. EndsStay'
  BY <1>1, <1>4, <1>5 DEF Inv, EndsStay, NativeExcusable, Paired
<1>15. \A a, b : SameQueue(a, b)' <=> SameQueue(a, b)
  BY <1>1 DEF SameQueue
<1>16. AnswersInOrder'
  BY <1>1, <1>4, <1>5, <1>15 DEF Inv, AnswersInOrder, Plain
<1>17. PlatformInOrder' /\ PlatformOrder' /\ AnswerOrder'
  BY <1>1 DEF Inv, PlatformInOrder, PlatformOrder, AnswerOrder, Plain, SameQueue
<1>18. PICK K : Comes(invoked, invoked', 0, {x.id}, K)
  BY <1>9 DEF From
<1>19. \A j \in DOMAIN invoked' : \/ K[j] \in DOMAIN invoked /\ invoked'[j] = invoked[K[j]]
                                  \/ invoked'[j] = x.id
  BY <1>18 DEF Comes
<1>20. JsInOrder'
  <2>1. (\A j, k \in DOMAIN input :
          input[j].what \in Calls /\ input[k].what \in Calls /\ j < k => input[j].id < input[k].id)'
    BY <1>4, <1>5 DEF Inv, JsInOrder
  <2>2. (\A j \in DOMAIN input : input[j].plugin # None /\ input[j].serial =>
          \A k \in 1 .. j - 1 : input[k].queue # input[j].queue)'
    <3>1. \A j \in DOMAIN input : \A k \in 1 .. j - 1 : k \in DOMAIN input
      BY <1>2
    <3> QED BY <1>1, <1>4, <1>5, <1>7, <3>1 DEF Inv, JsInOrder
  <2>3. (\A j \in DOMAIN invoked : invoked[j] \in 1 .. Len(jsSent))'
    BY <1>1, <1>6, <1>19 DEF Inv, JsInOrder
  <2>4. (\A j \in DOMAIN invoked, k \in DOMAIN input :
          input[k].what \in Calls /\ input[k].plugin = None /\ SameQueue(invoked[j], input[k].id)
          => invoked[j] < input[k].id)'
    <3> SUFFICES ASSUME NEW j \in DOMAIN invoked', NEW k \in DOMAIN input', input'[k].what \in Calls,
                        input'[k].plugin = None, SameQueue(invoked[j], input[k].id)'
                 PROVE  invoked'[j] < input'[k].id
      OBVIOUS
    <3>1. k \in DOMAIN input /\ k # i /\ input[k].plugin = None /\ input[k].what \in Calls
      BY <1>1, <1>4, <1>5
    <3>2. SameQueue(invoked'[j], input[k].id)
      BY <1>1, <1>5, <3>1 DEF SameQueue
    <3>3. CASE K[j] \in DOMAIN invoked /\ invoked'[j] = invoked[K[j]]
      BY <1>5, <3>1, <3>2, <3>3 DEF Inv, JsInOrder
    <3>4. CASE invoked'[j] = x.id
      <4>1. x.serial /\ input[k].queue = x.queue
        BY <1>1, <1>7, <3>1, <3>2, <3>4 DEF Inv, Carried, SameQueue
      <4>2. ~(k \in 1 .. i - 1)
        BY <1>1, <4>1
      <4>3. i < k
        BY <1>2, <3>1, <4>2
      <4> QED BY <1>1, <1>5, <1>7, <3>1, <3>4, <4>3 DEF Inv, JsInOrder
    <3> QED BY <1>19, <3>3, <3>4
  <2> QED BY <2>1, <2>2, <2>3, <2>4 DEF JsInOrder
<1>21. SerialOrder'
  <2> SUFFICES ASSUME NEW j \in DOMAIN invoked', NEW k \in DOMAIN invoked', j < k,
                      SameQueue(invoked[j], invoked[k])'
               PROVE  invoked'[j] < invoked'[k]
    BY DEF SerialOrder
  <2>1. K[j] < K[k] /\ K[j] \in DOMAIN invoked /\ invoked'[j] = invoked[K[j]]
    BY <1>18 DEF Comes
  <2>2. SameQueue(invoked'[j], invoked'[k])
    BY <1>1 DEF SameQueue
  <2>3. CASE K[k] \in DOMAIN invoked /\ invoked'[k] = invoked[K[k]]
    BY <2>1, <2>2, <2>3 DEF Inv, SerialOrder
  <2>4. CASE invoked'[k] = x.id
    BY <1>1, <1>7, <2>1, <2>2, <2>4 DEF Inv, JsInOrder
  <2> QED BY <1>19, <2>3, <2>4
<1> QED BY <1>10, <1>11, <1>12, <1>13, <1>14, <1>16, <1>17, <1>20, <1>21 DEF Inv

LEMMA NativeSendKeeps ==
  ASSUME Inv, NEW p \in Plugins, NEW what \in Whats, NativeSend(p, what)
  PROVE  Inv'
<1> DEFINE id == Len(nativeSent) + 1
           Sent == [what : Whats, name : Names, plugin : Plugins, accepted : BOOLEAN, paired : BOOLEAN]
           paired == bridgeMap[nameOf[p]] = p /\ bridgeList[nameOf[p]] = typeOf[p]
           r == [what |-> what, name |-> nameOf[p], plugin |-> p, accepted |-> isAvailable[p],
                 paired |-> paired]
           y == [what |-> what, id |-> id, name |-> nameOf[p], codec |-> typeOf[p]]
<1>1. /\ nativeSent' = Append(nativeSent, r)
      /\ gcd' = gcd \/ (isAvailable[p] /\ gcd' = Append(gcd, y))
      /\ UNCHANGED <<bridgeList, bridgeMap, bridgeQueueMap, isAvailable, changes, input, gcdPc, jsSent,
                     jsInbox, nativeInbox, replied, invoked, excused>>
  BY DEF NativeSend, Paired, Enqueue, regVars
<1>2. TypeOK /\ what \in Calls /\ what \notin Answers /\ nameOf[p] \in Names /\ typeOf[p] \in BridgeTypes
  BY MessagingAssumption DEF Inv, Calls, Answers
<1>3. /\ nativeSent \in Seq(Sent) /\ gcd \in Seq(Block) /\ Len(nativeSent) \in Nat
      /\ DOMAIN nativeSent = 1 .. Len(nativeSent)
  BY <1>2, LenProperties DEF TypeOK
<1>4. /\ r \in Sent /\ r.name = nameOf[p] /\ r.plugin = p /\ r.accepted = isAvailable[p]
      /\ r.paired => paired
  <2>1. isAvailable[p] \in BOOLEAN
    BY <1>2 DEF TypeOK
  <2>2. paired \in BOOLEAN
    OBVIOUS
  <2> HIDE DEF paired
  <2>3. r \in Sent
    BY <1>2, <2>1, <2>2
  <2> QED BY <2>3
<1>5. y \in Block /\ y.what = what /\ y.id = id /\ y.name = nameOf[p] /\ y.codec = typeOf[p]
  <2>1. id \in Nat
    BY <1>3
  <2> HIDE DEF id
  <2> QED BY <1>2, <2>1 DEF Block, Calls
<1> HIDE DEF r, y
<1>6. /\ nativeSent' \in Seq(Sent) /\ Len(nativeSent') = id /\ nativeSent'[id] = r
      /\ \A j \in 1 .. Len(nativeSent) : nativeSent'[j] = nativeSent[j]
  <2> HIDE DEF Sent
  <2> QED BY <1>1, <1>3, <1>4, AppendIsFrom
<1>7. /\ gcd' \in Seq(Block) /\ From(gcd, gcd', 0, {y})
      /\ Ids(gcd', Answers) = Ids(gcd, Answers) /\ Ids(gcd', Calls) \subseteq Ids(gcd, Calls) \cup {id}
  <2>1. CASE gcd' = gcd
    BY <1>3, <2>1, Unchanged
  <2>2. CASE gcd' = Append(gcd, y)
    BY <1>2, <1>5, <2>2, PutBlock
  <2> QED BY <1>1, <2>1, <2>2
<1>8. /\ id \notin 1 .. Len(nativeSent) /\ \A c \in 1 .. Len(nativeSent) : c < id /\ c \in 1 .. Len(nativeSent')
      /\ id \in 1 .. Len(nativeSent')
  BY <1>3, <1>6
<1>9. \A c \in DOMAIN nativeSent' : c \in DOMAIN nativeSent \/ c = id
  <2>1. DOMAIN nativeSent' = 1 .. Len(nativeSent')
    BY <1>6, LenProperties
  <2> QED BY <1>3, <1>6, <2>1
<1>10. NativeAnswered' = NativeAnswered
  BY <1>1 DEF NativeAnswered
<1>11. /\ Ids(gcd, Calls) \subseteq 1 .. Len(nativeSent) /\ Ids(input, Returns) \subseteq 1 .. Len(nativeSent)
       /\ Ids(jsInbox, Calls) \subseteq 1 .. Len(nativeSent) /\ NativeAnswered \subseteq 1 .. Len(nativeSent)
  BY DEF Inv, NativePlaces
<1>12. Once(gcd', Calls) /\ Once(gcd', Answers)
  <2>1. CASE gcd' = gcd
    BY <2>1 DEF Inv, JsPlaces, NativePlaces
  <2>2. CASE gcd' = Append(gcd, y)
    <3>1. id \notin Ids(gcd, Calls)
      BY <1>8, <1>11
    <3> QED BY <1>2, <1>5, <2>2, <3>1, PutBlock DEF Inv, JsPlaces, NativePlaces
  <2> QED BY <1>1, <2>1, <2>2
<1> HIDE DEF id
<1>13. TypeOK'
  <2>1. replied \subseteq 1 .. Len(nativeSent')
    BY <1>2, <1>8 DEF TypeOK
  <2> QED BY <1>1, <1>2, <1>6, <1>7, <2>1 DEF TypeOK
<1>14. JsPlaces'
  BY <1>1, <1>7, <1>12 DEF Inv, JsPlaces, JsOpen
<1>15. NativePlaces'
  BY <1>1, <1>7, <1>8, <1>10, <1>11, <1>12 DEF Inv, NativePlaces
<1>16. PICK K : Comes(gcd, gcd', 0, {y}, K)
  BY <1>7 DEF From
<1>17. \A j \in DOMAIN gcd' : \/ K[j] \in DOMAIN gcd /\ gcd'[j] = gcd[K[j]]
                              \/ K[j] = Len(gcd) + 1 /\ gcd'[j] = y
  BY <1>16, Zenon DEF Comes
<1>18. /\ \A j, k \in DOMAIN gcd' : j < k => K[j] < K[k]
       /\ \A j \in DOMAIN gcd : ~(Len(gcd) + 1 < j)
       /\ ~(Len(gcd) + 1 < Len(gcd) + 1)
  BY <1>16 DEF Comes
<1>19. Carried'
  <2>1. (\A i \in DOMAIN input :
           /\ input[i].what \in Calls =>
                /\ input[i].name = jsSent[input[i].id].name
                /\ input[i].queue = jsSent[input[i].id].queue
                /\ input[i].serial = jsSent[input[i].id].serial
           /\ input[i].what \in Returns => input[i].name = nativeSent[input[i].id].name)'
    <3>1. \A i \in DOMAIN input : input[i].what \in Returns => input[i].id \in 1 .. Len(nativeSent)
      BY <1>11 DEF Ids
    <3> QED BY <1>1, <1>6, <3>1 DEF Inv, Carried
  <2>2. (\A i \in DOMAIN gcd :
           /\ gcd[i].what \in Answers => gcd[i].name = jsSent[gcd[i].id].name
           /\ gcd[i].what \in Calls =>
                /\ gcd[i].name = nativeSent[gcd[i].id].name
                /\ gcd[i].codec = typeOf[nativeSent[gcd[i].id].plugin])'
    <3>1. \A i \in DOMAIN gcd : gcd[i].what \in Calls => gcd[i].id \in 1 .. Len(nativeSent)
      BY <1>11 DEF Ids
    <3> QED BY <1>1, <1>2, <1>4, <1>5, <1>6, <1>17, <3>1, SMTT(30) DEF Inv, Carried
  <2>3. (\A i \in DOMAIN jsInbox :
           jsInbox[i].what \in Calls => jsInbox[i].name = nativeSent[jsInbox[i].id].name)'
    <3>1. \A i \in DOMAIN jsInbox : jsInbox[i].what \in Calls => jsInbox[i].id \in 1 .. Len(nativeSent)
      BY <1>11 DEF Ids
    <3> QED BY <1>1, <1>6, <3>1 DEF Inv, Carried
  <2>4. (\A c \in DOMAIN nativeSent : nativeSent[c].name = nameOf[nativeSent[c].plugin])'
    BY <1>3, <1>4, <1>6, <1>9 DEF Inv, Carried
  <2>5. (gcdPc = "find" => gcd # <<>> /\ Head(gcd).what \in Calls)'
    <3>1. CASE gcd' = gcd
      BY <1>1, <3>1 DEF Inv, Carried
    <3>2. CASE gcd' = Append(gcd, y)
      BY <1>1, <1>3, <1>5, <3>2, HeadTailAppend, AppendProperties DEF Inv, Carried
    <3> QED BY <1>1, <3>1, <3>2
  <2> QED BY <2>1, <2>2, <2>3, <2>4, <2>5 DEF Carried
<1>20. EndsStay'
  <2>1. \A c \in DOMAIN nativeSent : c \notin NativeExcusable' => c \notin NativeExcusable
    BY <1>1, <1>3, <1>6, <1>8 DEF NativeExcusable
  <2>2. id \notin NativeExcusable' => paired
    BY <1>4, <1>6, <1>8 DEF NativeExcusable
  <2>3. (\A c \in DOMAIN nativeSent :
       c \notin NativeExcusable =>
         LET q == nativeSent[c].plugin IN
         /\ Paired(q)
         /\ \A i \in DOMAIN input :
              input[i].what \in Returns /\ input[i].id = c => input[i].codec = typeOf[q]
         /\ \A i \in DOMAIN jsInbox :
              jsInbox[i].what \in Calls /\ jsInbox[i].id = c => jsInbox[i].codec = typeOf[q])'
    <3> SUFFICES ASSUME NEW c \in DOMAIN nativeSent', c \notin NativeExcusable'
                 PROVE  (LET q == nativeSent[c].plugin IN
         /\ Paired(q)
         /\ \A i \in DOMAIN input :
              input[i].what \in Returns /\ input[i].id = c => input[i].codec = typeOf[q]
         /\ \A i \in DOMAIN jsInbox :
              jsInbox[i].what \in Calls /\ jsInbox[i].id = c => jsInbox[i].codec = typeOf[q])'
      OBVIOUS
    <3>1. CASE c \in DOMAIN nativeSent
      BY <1>1, <1>3, <1>6, <2>1, <3>1 DEF Inv, EndsStay, Paired
    <3>2. CASE c = id
      <4>1. /\ \A i \in DOMAIN input : ~(input[i].what \in Returns /\ input[i].id = id)
            /\ \A i \in DOMAIN jsInbox : ~(jsInbox[i].what \in Calls /\ jsInbox[i].id = id)
        BY <1>8, <1>11 DEF Ids
      <4> QED BY <1>1, <1>4, <1>6, <2>2, <3>2, <4>1 DEF Paired
    <3> QED BY <1>9, <3>1, <3>2
  <2> QED BY <1>1, <2>3 DEF Inv, EndsStay
<1>21. JsInOrder' /\ SerialOrder' /\ AnswerOrder' /\ PlatformOrder'
  BY <1>1 DEF Inv, JsInOrder, SerialOrder, SameQueue, AnswerOrder, PlatformOrder, Plain
<1>22. AnswersInOrder'
  <2>1. From(input, input', 0, {}) /\ From(jsInbox, jsInbox', 0, {})
    BY <1>1, Unchanged
  <2> QED BY <1>1, <1>2, <1>5, <1>7, <2>1, AnswersKept
<1>23. PlatformInOrder'
  <2>1. /\ \A j \in DOMAIN gcd : gcd[j].what \in Calls => gcd[j].id < id
        /\ \A j \in DOMAIN jsInbox : jsInbox[j].what \in Calls => jsInbox[j].id < id
    BY <1>8, <1>11 DEF Ids
  <2>2. (\A i, j \in DOMAIN gcd :
          gcd[i].what \in Calls /\ gcd[j].what \in Calls /\ i < j => gcd[i].id < gcd[j].id)'
    BY <1>5, <1>17, <1>18, <2>1 DEF Inv, PlatformInOrder
  <2>3. (\A i \in DOMAIN jsInbox, j \in DOMAIN gcd :
          jsInbox[i].what \in Calls /\ gcd[j].what \in Calls => jsInbox[i].id < gcd[j].id)'
    BY <1>1, <1>5, <1>17, <2>1 DEF Inv, PlatformInOrder
  <2> QED BY <2>2, <2>3 DEF PlatformInOrder
<1> QED BY <1>13, <1>14, <1>15, <1>19, <1>20, <1>21, <1>22, <1>23 DEF Inv

\* What a change of registration of n may do.
Registered(n) ==
  /\ changes < MaxChanges /\ changes' = changes + 1
  /\ UNCHANGED <<input, gcd, gcdPc, jsSent, nativeSent, jsInbox, nativeInbox, replied, invoked>>
  /\ bridgeList' \in [Names -> BridgeTypes \cup {None}]
  /\ bridgeMap' \in [Names -> Plugins \cup {None}]
  /\ bridgeQueueMap' \in [Names -> Handler]
  /\ isAvailable' \in [Plugins -> BOOLEAN]
  /\ \A m \in Names : m # n => bridgeList'[m] = bridgeList[m] /\ bridgeMap'[m] = bridgeMap[m]
  /\ \/ excused' = excused \cup Under("native", nativeSent, n) /\ bridgeList' = bridgeList
     \/ excused' = excused \cup Under("native", nativeSent, n) \cup Under("js", jsSent, n)

LEMMA UnderIs ==
  ASSUME NEW S, NEW sent \in Seq(S), NEW side \in {"js", "native"}, NEW n
  PROVE  /\ Under(side, sent, n) \subseteq {"js", "native"} \X Nat
         /\ \A c \in DOMAIN sent : sent[c].name = n => <<side, c>> \in Under(side, sent, n)
<1>1. DOMAIN sent = 1 .. Len(sent) /\ Len(sent) \in Nat
  BY SeqBasics
<1> QED BY <1>1 DEF Under

LEMMA RegisterKeeps ==
  ASSUME Inv, Register
  PROVE  Inv'
<1>1. TypeOK /\ MaxChanges \in Nat
  BY MessagingAssumption DEF Inv
<1>2. \A n \in Names :
        /\ Under("native", nativeSent, n) \subseteq {"js", "native"} \X Nat /\ Under("js", jsSent, n) \subseteq {"js", "native"} \X Nat
        /\ \A c \in DOMAIN nativeSent : nativeSent[c].name = n => <<"native", c>> \in Under("native", nativeSent, n)
        /\ \A c \in DOMAIN jsSent : jsSent[c].name = n => <<"js", c>> \in Under("js", jsSent, n)
  BY <1>1, UnderIs DEF TypeOK
<1>3. PICK n \in Names : Registered(n)
  <2> USE <1>1 DEF Registered, Registration, sentVars, TypeOK
  <2>1. ASSUME NEW p \in Plugins, RegisterPlugin(p)
        PROVE  \E n \in Names : Registered(n)
    <3>1. nameOf[p] \in Names
      BY MessagingAssumption
    <3>2. bridgeQueueMap' \in [Names -> Handler]
      <4>1. NoHandler \in Handler
        BY DEF NoHandler, Handler, Queues
      <4>2. changes + 2 \in Queues
        BY <2>1 DEF Queues, RegisterPlugin
      <4>3. [queue |-> changes + 2, serial |-> optionOf[p] = "serial"] \in Handler
        BY <4>2 DEF Handler
      <4> QED BY <2>1, <4>1, <4>3 DEF RegisterPlugin
    <3>3. isAvailable' \in [Plugins -> BOOLEAN]
      BY <2>1 DEF RegisterPlugin
    <3>4. Registered(nameOf[p])
      BY <2>1, <3>1, <3>2, <3>3 DEF RegisterPlugin
    <3> QED BY <3>1, <3>4
  <2>2. ASSUME NEW n \in Names, UnRegisterPlugin(n)
        PROVE  Registered(n)
    <3>1. NoHandler \in Handler
      BY DEF NoHandler, Handler, Queues
    <3> QED BY <2>2, <3>1 DEF UnRegisterPlugin
  <2>3. ASSUME NEW n \in Names, NEW type \in BridgeTypes, JSRegisterBridge(n, type)
        PROVE  Registered(n)
    BY <2>3 DEF JSRegisterBridge
  <2>4. ASSUME NEW n \in Names, JSUnRegisterBridge(n)
        PROVE  Registered(n)
    BY <2>4 DEF JSUnRegisterBridge
  <2> QED BY <2>1, <2>2, <2>3, <2>4 DEF Register
<1> USE DEF Registered
<1>4. /\ excused \subseteq excused' /\ excused' \subseteq {"js", "native"} \X Nat
      /\ \A c \in DOMAIN nativeSent : nativeSent[c].name = n => <<"native", c>> \in excused'
      /\ \A c \in DOMAIN jsSent : jsSent[c].name = n => <<"js", c>> \in excused' \/ bridgeList' = bridgeList
  BY <1>1, <1>2, <1>3 DEF TypeOK
<1>5. TypeOK'
  BY <1>1, <1>3, <1>4 DEF TypeOK
<1>6. JsPlaces' /\ NativePlaces'
  BY <1>3 DEF Inv, JsPlaces, JsOpen, NativePlaces, NativeAnswered
<1>7. Carried'
  BY <1>3 DEF Inv, Carried
<1>8. EndsStay'
  <2>1. \A c \in DOMAIN jsSent : jsSent[c].name \in Names
    <3> DEFINE S == [what : Whats, name : Names, queue : Queues, serial : BOOLEAN]
    <3>1. jsSent \in Seq(S) /\ \A r \in S : r.name \in Names
      BY <1>1 DEF TypeOK
    <3> HIDE DEF S
    <3> QED BY <3>1, SeqBasics
  <2>2. (\A c \in DOMAIN jsSent : <<"js", c>> \notin excused => bridgeList[jsSent[c].name] # None)'
    BY <1>3, <1>4, <2>1 DEF Inv, EndsStay
  <2>3. \A c \in DOMAIN nativeSent :
          c \notin NativeExcusable' => c \notin NativeExcusable /\ nativeSent[c].name # n
    <3>1. DOMAIN nativeSent = 1 .. Len(nativeSent)
      BY <1>1, SeqBasics DEF TypeOK
    <3> QED BY <1>3, <1>4, <3>1 DEF NativeExcusable
  <2>4. \A c \in DOMAIN nativeSent :
          nativeSent[c].name # n => Paired(nativeSent[c].plugin)' <=> Paired(nativeSent[c].plugin)
    <3>1. \A c \in DOMAIN nativeSent : nameOf[nativeSent[c].plugin] = nativeSent[c].name
      BY DEF Inv, Carried
    <3>2. \A c \in DOMAIN nativeSent : nativeSent[c].name \in Names
      <4> DEFINE S == [what : Whats, name : Names, plugin : Plugins, accepted : BOOLEAN, paired : BOOLEAN]
      <4>1. nativeSent \in Seq(S) /\ \A r \in S : r.name \in Names
        BY <1>1 DEF TypeOK
      <4> HIDE DEF S
      <4> QED BY <4>1, SeqBasics
    <3> QED BY <1>3, <3>1, <3>2 DEF Paired
  <2> QED BY <1>3, <2>2, <2>3, <2>4 DEF Inv, EndsStay
<1>9. JsInOrder' /\ SerialOrder' /\ AnswersInOrder' /\ AnswerOrder' /\ PlatformInOrder' /\ PlatformOrder'
  BY <1>3 DEF Inv, JsInOrder, SerialOrder, AnswersInOrder, AnswerOrder, PlatformInOrder, PlatformOrder,
              SameQueue, Plain
<1> QED BY <1>5, <1>6, <1>7, <1>8, <1>9 DEF Inv

-----------------------------------------------------------------------------
LEMMA InitInv == Init => Inv
<1> SUFFICES ASSUME Init
             PROVE  Inv
  OBVIOUS
<1> USE DEF Init
<1>1. \A S : <<>> \in Seq(S) /\ Len(<<>>) = 0 /\ DOMAIN <<>> = {}
  BY EmptySeq
<1>2. \A W : Ids(<<>>, W) = {} /\ Once(<<>>, W)
  BY <1>1 DEF Ids, Once
<1>3. TypeOK
  BY <1>1, MessagingAssumption DEF TypeOK, NoHandler, Handler, Queues
<1>4. JsPlaces /\ NativePlaces
  BY <1>1, <1>2, MessagingAssumption DEF JsPlaces, JsOpen, NativePlaces, NativeAnswered
<1>5. Carried /\ EndsStay /\ JsInOrder /\ SerialOrder
  BY <1>1 DEF Carried, EndsStay, JsInOrder, SerialOrder
<1>6. AnswersInOrder /\ AnswerOrder /\ PlatformInOrder /\ PlatformOrder
  BY <1>1 DEF AnswersInOrder, AnswerOrder, PlatformInOrder, PlatformOrder
<1> QED BY <1>3, <1>4, <1>5, <1>6 DEF Inv

LEMMA NextKeeps == Inv /\ [Next]_vars => Inv'
<1> SUFFICES ASSUME Inv, [Next]_vars
             PROVE  Inv'
  OBVIOUS
<1>1. CASE InputStep
  BY <1>1, RefuseTaskKeeps, StartTaskKeeps, FinishTaskKeeps, DropAnswerKeeps, RunAnswerKeeps,
     IgnoreAnswerKeeps DEF InputStep
<1>2. CASE GcdStep
  BY <1>2, GcdAnswerKeeps, GcdNoReceiverKeeps, GcdReceiverExistsKeeps, GcdDeliverKeeps DEF GcdStep
<1>3. CASE Replies
  BY <1>3, JSReplyKeeps DEF Replies
<1>4. CASE Register
  BY <1>4, RegisterKeeps
<1>5. CASE Send
  BY <1>5, JSSendKeeps, NativeSendKeeps DEF Send
<1>6. CASE UNCHANGED vars
  <2> USE <1>6 DEF vars, regVars, sentVars, Inv
  <2>1. TypeOK'
    BY DEF TypeOK
  <2>2. JsPlaces' /\ NativePlaces'
    BY DEF JsPlaces, JsOpen, NativePlaces, NativeAnswered
  <2>3. Carried'
    BY DEF Carried
  <2>4. EndsStay'
    BY DEF EndsStay, NativeExcusable, Paired
  <2>5. JsInOrder' /\ SerialOrder' /\ AnswersInOrder' /\ AnswerOrder'
    BY DEF JsInOrder, SerialOrder, AnswersInOrder, AnswerOrder, SameQueue, Plain
  <2>6. PlatformInOrder' /\ PlatformOrder'
    BY DEF PlatformInOrder, PlatformOrder
  <2> QED BY <2>1, <2>2, <2>3, <2>4, <2>5, <2>6
<1> QED BY <1>1, <1>2, <1>3, <1>4, <1>5, <1>6 DEF Next

\* Every call of either end is in one place, carries there what it was sent with, and
\* stands in its order.
THEOREM MessagingInv == Spec => []Inv
BY InitInv, NextKeeps, PTL DEF Spec

-----------------------------------------------------------------------------
(***************************************************************************)
(* Where each step takes a call from, and to.                              *)
(***************************************************************************)
LEMMA RefuseTaskMoves ==
  ASSUME Inv, NEW i \in DOMAIN input, RefuseTask(i)
  PROVE  LET c == input[i].id IN
         /\ UNCHANGED <<gcd, sentVars, nativeInbox, replied, excused>>
         /\ c \in Ids(input, Calls) /\ input[i].name = jsSent[c].name
         /\ Ids(input', Calls) = Ids(input, Calls) \ {c} /\ Ids(input', Returns) = Ids(input, Returns)
         /\ Ids(jsInbox', Calls) = Ids(jsInbox, Calls)
         /\ \/ Ids(jsInbox', Answers) = Ids(jsInbox, Answers) \cup {c}
            \/ Ids(jsInbox', Answers) = Ids(jsInbox, Answers) /\ bridgeList[input[i].name] = None
<1> DEFINE x == input[i]
           code == IF bridgeMap[x.name] # None THEN "CODEC_TYPE_MISMATCH"
                   ELSE IF x.what = "call" THEN "INVALID" ELSE "NAME_ERROR"
           z == [what |-> AnswerTo(x.what), id |-> x.id, name |-> x.name,
                 codec |-> bridgeList[x.name], code |-> code, direct |-> TRUE]
<1>1. /\ x.what \in Calls /\ input' = RemoveAt(input, i)
      /\ bridgeList[x.name] = None => jsInbox' = jsInbox
      /\ bridgeList[x.name] # None => jsInbox' = Append(jsInbox, z)
      /\ UNCHANGED <<gcd, sentVars, nativeInbox, replied, excused>>
  BY DEF RefuseTask, Calls, ToJs
<1>2. TypeOK /\ code \in Codes
  BY DEF Inv, Codes
<1> HIDE DEF code
<1>3. /\ x \in Task /\ x.id \in Nat /\ x.name \in Names
      /\ Ids(input', Calls) = Ids(input, Calls) \ {x.id} /\ Ids(input', Returns) = Ids(input, Returns)
      /\ x.id \in Ids(input, Calls) /\ x.name = jsSent[x.id].name
  BY <1>1, TakeTask, Kinds, IdIn DEF Task, Inv, Carried
<1>4. AnswerTo(x.what) \in Answers /\ AnswerTo(x.what) \notin Calls
  BY <1>1, Kinds
<1>5. /\ z.what = AnswerTo(x.what) /\ z.id = x.id
      /\ bridgeList[x.name] # None => z \in Got
  <2>1. bridgeList[x.name] \in BridgeTypes \cup {None}
    BY <1>2, <1>3 DEF TypeOK
  <2> QED BY <1>2, <1>3, <1>4, <2>1 DEF Got
<1> HIDE DEF z, x
<1>6. Ids(jsInbox', Calls) = Ids(jsInbox, Calls)
  BY <1>1, <1>2, <1>4, <1>5, PutGot
<1>7. CASE bridgeList[x.name] = None
  BY <1>1, <1>3, <1>6, <1>7 DEF x
<1>8. CASE bridgeList[x.name] # None
  <2>1. Ids(jsInbox', Answers) = Ids(jsInbox, Answers) \cup {x.id}
    BY <1>1, <1>2, <1>4, <1>5, <1>8, PutGot
  <2>2. /\ UNCHANGED <<gcd, sentVars, nativeInbox, replied, excused>>
        /\ x.id \in Ids(input, Calls) /\ x.name = jsSent[x.id].name
        /\ Ids(input', Calls) = Ids(input, Calls) \ {x.id} /\ Ids(input', Returns) = Ids(input, Returns)
        /\ Ids(jsInbox', Calls) = Ids(jsInbox, Calls)
    BY <1>1, <1>3, <1>6
  <2> QED BY <2>1, <2>2, Zenon DEF x
<1> QED BY <1>7, <1>8

LEMMA FinishTaskMoves ==
  ASSUME Inv, NEW i \in DOMAIN input, FinishTask(i)
  PROVE  LET c == input[i].id IN
         /\ UNCHANGED <<sentVars, jsInbox, nativeInbox, replied, excused>>
         /\ c \in Ids(input, Calls)
         /\ Ids(input', Calls) = Ids(input, Calls) \ {c} /\ Ids(input', Returns) = Ids(input, Returns)
         /\ Ids(gcd', Calls) = Ids(gcd, Calls) /\ Ids(gcd', Answers) = Ids(gcd, Answers) \cup {c}
<1> DEFINE x == input[i]
           y == [what |-> AnswerTo(x.what), id |-> x.id, name |-> x.name, codec |-> x.codec]
<1>1. /\ x.what \in Calls /\ input' = RemoveAt(input, i) /\ gcd' = Append(gcd, y)
      /\ UNCHANGED <<sentVars, jsInbox, nativeInbox, replied, excused>>
  BY DEF FinishTask, Enqueue, Calls
<1>2. /\ x \in Task /\ x.id \in Nat /\ x.name \in Names /\ x.codec \in BridgeTypes
      /\ Ids(input', Calls) = Ids(input, Calls) \ {x.id} /\ Ids(input', Returns) = Ids(input, Returns)
      /\ x.id \in Ids(input, Calls)
  BY <1>1, TakeTask, Kinds, IdIn DEF Task
<1>3. AnswerTo(x.what) \in Answers /\ AnswerTo(x.what) \notin Calls
  BY <1>1, Kinds
<1>4. y \in Block /\ y.what = AnswerTo(x.what) /\ y.id = x.id
  BY <1>2, <1>3 DEF Block
<1> HIDE DEF x, y
<1>5. Ids(gcd', Calls) = Ids(gcd, Calls) /\ Ids(gcd', Answers) = Ids(gcd, Answers) \cup {x.id}
  BY <1>1, <1>3, <1>4, PutBlock, ZenonT(30)
<1> QED BY <1>1, <1>2, <1>5 DEF x

LEMMA DropAnswerMoves ==
  ASSUME Inv, NEW i \in DOMAIN input, DropAnswer(i)
  PROVE  LET c == input[i].id IN
         /\ UNCHANGED <<gcd, sentVars, jsInbox, nativeInbox, replied>>
         /\ excused' = excused \cup {<<"js", c>>}
         /\ c \in Ids(input, Calls)
         /\ Ids(input', Calls) = Ids(input, Calls) \ {c} /\ Ids(input', Returns) = Ids(input, Returns)
<1>1. /\ input[i].what \in Calls /\ input' = RemoveAt(input, i)
      /\ excused' = excused \cup {<<"js", input[i].id>>}
      /\ UNCHANGED <<gcd, sentVars, jsInbox, nativeInbox, replied>>
  BY DEF DropAnswer, Calls
<1>2. /\ Ids(input', Calls) = Ids(input, Calls) \ {input[i].id} /\ Ids(input', Returns) = Ids(input, Returns)
      /\ input[i].id \in Ids(input, Calls)
  BY <1>1, TakeTask, Kinds, IdIn
<1> QED BY <1>1, <1>2

LEMMA IgnoreAnswerMoves ==
  ASSUME Inv, NEW i \in DOMAIN input, IgnoreAnswer(i)
  PROVE  LET c == input[i].id IN
         /\ UNCHANGED <<gcd, sentVars, jsInbox, nativeInbox, replied>>
         /\ excused' = excused \cup {<<"native", c>>}
         /\ c \in Ids(input, Returns)
         /\ Ids(input', Calls) = Ids(input, Calls) /\ Ids(input', Returns) = Ids(input, Returns) \ {c}
<1>1. /\ input[i].what \in Returns /\ input' = RemoveAt(input, i)
      /\ excused' = excused \cup {<<"native", input[i].id>>}
      /\ UNCHANGED <<gcd, sentVars, jsInbox, nativeInbox, replied>>
  BY DEF IgnoreAnswer, Returns
<1>2. input[i].what \notin Calls
  BY <1>1, Kinds
<1>3. /\ Ids(input', Calls) = Ids(input, Calls)
      /\ Ids(input', Returns) = Ids(input, Returns) \ {input[i].id}
      /\ input[i].id \in Ids(input, Returns)
  BY <1>1, <1>2, TakeTask, IdIn
<1> QED BY <1>1, <1>3

LEMMA StartTaskMoves ==
  ASSUME Inv, NEW i \in DOMAIN input, StartTask(i)
  PROVE  /\ UNCHANGED <<gcd, sentVars, jsInbox, nativeInbox, replied, excused>>
         /\ Ids(input', Calls) = Ids(input, Calls) /\ Ids(input', Returns) = Ids(input, Returns)
<1> DEFINE p == bridgeMap[input[i].name]
<1>1. /\ input' = [input EXCEPT ![i] = [input[i] EXCEPT !.plugin = p]]
      /\ UNCHANGED <<gcd, sentVars, jsInbox, nativeInbox, replied, excused>>
  BY DEF StartTask
<1> HIDE DEF p
<1>2. \A j \in DOMAIN input : input[j] \in Task
  BY SeqBasics DEF Inv, TypeOK
<1>3. DOMAIN input' = DOMAIN input /\
      \A j \in DOMAIN input : input'[j].what = input[j].what /\ input'[j].id = input[j].id
  BY <1>1, <1>2 DEF Task
<1> QED BY <1>1, <1>3 DEF Ids

LEMMA RunAnswerMoves ==
  ASSUME Inv, NEW i \in DOMAIN input, RunAnswer(i)
  PROVE  LET c == input[i].id
             p == bridgeMap[input[i].name]
         IN
         /\ UNCHANGED <<gcd, sentVars, replied, excused>>
         /\ c \in Ids(input, Returns) /\ input[i].name = nativeSent[c].name
         /\ input[i].what \in Returns
         /\ Ids(input', Calls) = Ids(input, Calls) /\ Ids(input', Returns) = Ids(input, Returns) \ {c}
         /\ Ids(jsInbox', Calls) = Ids(jsInbox, Calls)
         /\ Ids(jsInbox', Answers) \subseteq Ids(jsInbox, Answers) \cup {c + MaxJs}
         /\ Ids(jsInbox, Answers) \subseteq Ids(jsInbox', Answers)
         /\ \/ NativeAnswered' = NativeAnswered \cup {c}
            \/ NativeAnswered' = NativeAnswered /\ (p = None \/ typeOf[p] # input[i].codec)
<1> DEFINE x == input[i]
           p == bridgeMap[x.name]
           y == [what |-> x.what, id |-> x.id, plugin |-> p, code |-> x.code]
           code == IF p = None THEN "INVALID" ELSE "CODEC_TYPE_MISMATCH"
           z == [what |-> "result", id |-> x.id + MaxJs, name |-> x.name,
                 codec |-> bridgeList[x.name], code |-> code, direct |-> TRUE]
           Taken == [what : {"cancel"} \cup Answers, id : Nat, plugin : Plugins, code : Codes]
<1>1. /\ x.what \in Returns /\ input' = RemoveAt(input, i)
      /\ \/ nativeInbox' = nativeInbox /\ (p = None \/ typeOf[p] # x.codec)
         \/ p # None /\ nativeInbox' = Append(nativeInbox, y)
      /\ jsInbox' = jsInbox \/ (bridgeList[x.name] # None /\ jsInbox' = Append(jsInbox, z))
      /\ UNCHANGED <<gcd, sentVars, replied, excused>>
  BY DEF RunAnswer, Serves, Returns, ToJs
<1>2. TypeOK /\ code \in Codes /\ MaxJs \in Nat
  BY MessagingAssumption DEF Inv, Codes
<1>3. /\ x \in Task /\ x.id \in Nat /\ x.name \in Names /\ x.code \in Codes /\ x.what \notin Calls
      /\ Ids(input', Calls) = Ids(input, Calls) /\ Ids(input', Returns) = Ids(input, Returns) \ {x.id}
      /\ x.id \in Ids(input, Returns) /\ x.name = nativeSent[x.id].name
  BY <1>1, TakeTask, Kinds, IdIn DEF Task, Inv, Carried
<1> HIDE DEF code
<1>4. p # None => y \in Taken /\ y.what = x.what /\ y.id = x.id
  <2>1. p \in Plugins \cup {None}
    BY <1>2, <1>3 DEF TypeOK
  <2> HIDE DEF p, x
  <2> QED BY <1>1, <1>3, <2>1 DEF Returns
<1>5. /\ z.what = "result" /\ z.id = x.id + MaxJs
      /\ bridgeList[x.name] # None => z \in Got
  <2>1. bridgeList[x.name] \in BridgeTypes \cup {None}
    BY <1>2, <1>3 DEF TypeOK
  <2>2. x.id + MaxJs \in Nat
    BY <1>2, <1>3
  <2> QED BY <1>2, <1>3, <2>1, <2>2 DEF Got, Answers
<1>6. "result" \in Answers /\ "result" \notin Calls
  BY DEF Answers, Calls
<1> HIDE DEF y, z
<1>7. /\ Ids(jsInbox', Calls) = Ids(jsInbox, Calls)
      /\ Ids(jsInbox', Answers) \subseteq Ids(jsInbox, Answers) \cup {x.id + MaxJs}
      /\ Ids(jsInbox, Answers) \subseteq Ids(jsInbox', Answers)
  <2> HIDE DEF x, p
  <2> QED BY <1>1, <1>2, <1>5, <1>6, PutGot
<1>8. \/ NativeAnswered' = NativeAnswered \cup {x.id}
      \/ NativeAnswered' = NativeAnswered /\ (p = None \/ typeOf[p] # x.codec)
  <2>1. nativeInbox \in Seq(Taken)
    BY <1>2 DEF TypeOK
  <2>2. CASE nativeInbox' = nativeInbox /\ (p = None \/ typeOf[p] # x.codec)
    BY <2>2 DEF NativeAnswered
  <2>3. CASE p # None /\ nativeInbox' = Append(nativeInbox, y)
    <3> HIDE DEF Taken, x, p
    <3>1. \A W : Ids(nativeInbox', W) = IF y.what \in W THEN Ids(nativeInbox, W) \cup {y.id}
                                        ELSE Ids(nativeInbox, W)
      BY <1>4, <2>1, <2>3, IdsJoined
    <3> QED BY <1>1, <1>4, <2>3, <3>1 DEF NativeAnswered, Returns
  <2> QED BY <1>1, <2>2, <2>3
<1> QED BY <1>1, <1>3, <1>7, <1>8

LEMMA GcdAnswerMoves ==
  ASSUME Inv, GcdAnswer
  PROVE  LET c == gcd[1].id IN
         /\ UNCHANGED <<input, sentVars, nativeInbox, replied, excused>>
         /\ c \in Ids(gcd, Answers) /\ gcd[1].name = jsSent[c].name
         /\ Ids(gcd', Answers) = Ids(gcd, Answers) \ {c} /\ Ids(gcd', Calls) = Ids(gcd, Calls)
         /\ Ids(jsInbox', Calls) = Ids(jsInbox, Calls)
         /\ \/ Ids(jsInbox', Answers) = Ids(jsInbox, Answers) \cup {c}
            \/ Ids(jsInbox', Answers) = Ids(jsInbox, Answers) /\ bridgeList[gcd[1].name] = None
<1> DEFINE x == gcd[1]
           z == [what |-> x.what, id |-> x.id, name |-> x.name,
                 codec |-> bridgeList[x.name], code |-> "ERROR_NO", direct |-> FALSE]
<1>1. /\ gcd # <<>> /\ x = Head(gcd) /\ x.what \in Answers /\ gcd' = Tail(gcd)
      /\ bridgeList[x.name] = None => jsInbox' = jsInbox
      /\ bridgeList[x.name] # None => jsInbox' = Append(jsInbox, z)
      /\ UNCHANGED <<input, sentVars, nativeInbox, replied, excused>>
  <2>1. gcd # <<>> /\ gcd[1] = Head(gcd)
    BY AtHead DEF GcdAnswer, GcdIdle
  <2> QED BY <2>1 DEF GcdAnswer, GcdIdle, ToJs
<1>2. TypeOK
  BY DEF Inv
<1>3. /\ x \in Block /\ x.id \in Nat /\ x.name \in Names /\ x.what \notin Calls
      /\ Ids(gcd', Answers) = Ids(gcd, Answers) \ {x.id} /\ Ids(gcd', Calls) = Ids(gcd, Calls)
      /\ x.id \in Ids(gcd, Answers) /\ x.name = jsSent[x.id].name
  BY <1>1, TakeBlock, AtHead, Kinds DEF Block, Inv, Carried
<1>4. /\ z.what = x.what /\ z.id = x.id
      /\ bridgeList[x.name] # None => z \in Got
  <2>1. bridgeList[x.name] \in BridgeTypes \cup {None}
    BY <1>2, <1>3 DEF TypeOK
  <2> QED BY <1>1, <1>3, <2>1 DEF Got, Codes
<1> HIDE DEF z
<1>5. Ids(jsInbox', Calls) = Ids(jsInbox, Calls)
  BY <1>1, <1>2, <1>3, <1>4, PutGot
<1>6. CASE bridgeList[x.name] = None
  BY <1>1, <1>3, <1>5, <1>6
<1>7. CASE bridgeList[x.name] # None
  <2>1. Ids(jsInbox', Answers) = Ids(jsInbox, Answers) \cup {x.id}
    BY <1>1, <1>2, <1>3, <1>4, <1>7, PutGot
  <2>2. /\ UNCHANGED <<input, sentVars, nativeInbox, replied, excused>>
        /\ x.id \in Ids(gcd, Answers) /\ x.name = jsSent[x.id].name
        /\ Ids(gcd', Answers) = Ids(gcd, Answers) \ {x.id} /\ Ids(gcd', Calls) = Ids(gcd, Calls)
        /\ Ids(jsInbox', Calls) = Ids(jsInbox, Calls)
    BY <1>1, <1>3, <1>5
  <2> QED BY <2>1, <2>2, Zenon
<1> QED BY <1>6, <1>7

LEMMA JSSendMoves ==
  ASSUME Inv, NEW n \in Names, NEW what \in Whats, JSSend(n, what)
  PROVE  /\ UNCHANGED <<gcd, nativeSent, jsInbox, nativeInbox, replied, excused>>
         /\ Len(jsSent') = Len(jsSent) + 1 /\ Len(jsSent) + 1 <= MaxJs
         /\ Ids(input', Calls) = Ids(input, Calls) \cup {Len(jsSent) + 1}
         /\ Ids(input', Returns) = Ids(input, Returns)
<1> DEFINE id == Len(jsSent) + 1
           h == HandlerOf(n, InlineJs)
           x == NewTask(what, id, n, bridgeList[n], "ERROR_NO", h)
           y == [what |-> what, name |-> n, queue |-> h.queue, serial |-> h.serial]
           Sent == [what : Whats, name : Names, queue : Queues, serial : BOOLEAN]
<1>1. /\ id <= MaxJs /\ bridgeList[n] # None /\ jsSent' = Append(jsSent, y) /\ input' = Append(input, x)
      /\ UNCHANGED <<gcd, nativeSent, jsInbox, nativeInbox, replied, excused>>
  BY DEF JSSend
<1>2. TypeOK /\ what \in Calls /\ what \in Calls \cup Returns /\ what \notin Returns
  BY MessagingAssumption, Kinds DEF Inv, Calls
<1>3. h \in Handler /\ bridgeList[n] \in BridgeTypes
  <2>1. h \in Handler
    BY <1>2, HandlerOfType
  <2> HIDE DEF h
  <2> QED BY <1>1, <1>2, <2>1 DEF TypeOK
<1> HIDE DEF h
<1>4. y \in Sent /\ jsSent \in Seq(Sent)
  BY <1>2, <1>3 DEF TypeOK, Handler
<1>5. x \in Task
  <2>1. id \in Nat /\ "ERROR_NO" \in Codes
    BY <1>4, LenProperties DEF Codes
  <2> QED BY <1>2, <1>3, <2>1, NewTaskType
<1>6. x.what = what /\ x.id = id
  BY DEF NewTask
<1> HIDE DEF x, y, Sent
<1>7. Len(jsSent') = id
  BY <1>1, <1>4, AppendIsFrom
<1>8. Ids(input', Calls) = Ids(input, Calls) \cup {id} /\ Ids(input', Returns) = Ids(input, Returns)
  BY <1>1, <1>2, <1>5, <1>6, PutTask
<1> QED BY <1>1, <1>7, <1>8

LEMMA NativeSendMoves ==
  ASSUME Inv, NEW p \in Plugins, NEW what \in Whats, NativeSend(p, what)
  PROVE  LET c == Len(nativeSent) + 1 IN
         /\ UNCHANGED <<input, jsSent, jsInbox, nativeInbox, replied, excused>>
         /\ Len(nativeSent') = c /\ \A j \in 1 .. Len(nativeSent) : nativeSent'[j] = nativeSent[j]
         /\ Ids(gcd', Answers) = Ids(gcd, Answers)
         /\ \/ Ids(gcd', Calls) = Ids(gcd, Calls) \cup {c}
            \/ Ids(gcd', Calls) = Ids(gcd, Calls) /\ ~nativeSent'[c].accepted
<1> DEFINE id == Len(nativeSent) + 1
           Sent == [what : Whats, name : Names, plugin : Plugins, accepted : BOOLEAN, paired : BOOLEAN]
           paired == Paired(p)
           r == [what |-> what, name |-> nameOf[p], plugin |-> p, accepted |-> isAvailable[p],
                 paired |-> paired]
           y == [what |-> what, id |-> id, name |-> nameOf[p], codec |-> typeOf[p]]
<1>1. /\ nativeSent' = Append(nativeSent, r)
      /\ \/ ~isAvailable[p] /\ gcd' = gcd
         \/ isAvailable[p] /\ gcd' = Append(gcd, y)
      /\ UNCHANGED <<input, jsSent, jsInbox, nativeInbox, replied, excused>>
  BY DEF NativeSend, Enqueue
<1>2. TypeOK /\ what \in Calls /\ what \notin Answers /\ nameOf[p] \in Names /\ typeOf[p] \in BridgeTypes
  BY MessagingAssumption DEF Inv, Calls, Answers
<1>3. nativeSent \in Seq(Sent) /\ Len(nativeSent) \in Nat
  BY <1>2, LenProperties DEF TypeOK
<1>4. r \in Sent /\ (~isAvailable[p] => ~r.accepted)
  <2>1. isAvailable[p] \in BOOLEAN
    BY <1>2 DEF TypeOK
  <2>2. paired \in BOOLEAN
    BY DEF Paired
  <2> HIDE DEF paired
  <2>3. r \in Sent
    BY <1>2, <2>1, <2>2
  <2> QED BY <2>1, <2>3
<1>5. y \in Block /\ y.what = what /\ y.id = id
  <2>1. id \in Nat
    BY <1>3
  <2> HIDE DEF id
  <2> QED BY <1>2, <2>1 DEF Block, Calls
<1> HIDE DEF r, y, Sent
<1>6. /\ Len(nativeSent') = id /\ nativeSent'[id] = r
      /\ \A j \in 1 .. Len(nativeSent) : nativeSent'[j] = nativeSent[j]
  BY <1>1, <1>3, <1>4, AppendIsFrom
<1>7. CASE ~isAvailable[p] /\ gcd' = gcd
  BY <1>1, <1>4, <1>6, <1>7
<1>8. CASE isAvailable[p] /\ gcd' = Append(gcd, y)
  <2>1. Ids(gcd', Answers) = Ids(gcd, Answers) /\ Ids(gcd', Calls) = Ids(gcd, Calls) \cup {id}
    BY <1>2, <1>5, <1>8, PutBlock
  <2> QED BY <1>1, <1>6, <2>1
<1> QED BY <1>1, <1>7, <1>8

LEMMA GcdNoReceiverMoves ==
  ASSUME Inv, GcdNoReceiver
  PROVE  LET c == gcd[1].id IN
         /\ UNCHANGED <<sentVars, jsInbox, nativeInbox, replied, excused>>
         /\ c \in Ids(gcd, Calls)
         /\ Ids(gcd', Calls) = Ids(gcd, Calls) \ {c} /\ Ids(gcd', Answers) = Ids(gcd, Answers)
         /\ Ids(input', Calls) = Ids(input, Calls) /\ Ids(input', Returns) = Ids(input, Returns) \cup {c}
<1> DEFINE x == gcd[1]
           h == HandlerOf(x.name, InlineGcd)
           y == NewTask(AnswerTo(x.what), x.id, x.name, x.codec, "NAME_ERROR", h)
<1>1. /\ gcd # <<>> /\ x = Head(gcd) /\ x.what \in Calls /\ gcd' = Tail(gcd) /\ input' = Append(input, y)
      /\ UNCHANGED <<sentVars, jsInbox, nativeInbox, replied, excused>>
  <2>1. gcd # <<>> /\ gcd[1] = Head(gcd)
    BY AtHead DEF GcdNoReceiver, GcdIdle
  <2> QED BY <2>1 DEF GcdNoReceiver, GcdIdle, Calls
<1>2. TypeOK
  BY DEF Inv
<1>3. /\ x \in Block /\ x.id \in Nat /\ x.name \in Names /\ x.codec \in BridgeTypes /\ x.what \notin Answers
      /\ Ids(gcd', Calls) = Ids(gcd, Calls) \ {x.id} /\ Ids(gcd', Answers) = Ids(gcd, Answers)
      /\ x.id \in Ids(gcd, Calls)
  BY <1>1, TakeBlock, AtHead, Kinds DEF Block
<1>4. AnswerTo(x.what) \in Returns /\ AnswerTo(x.what) \notin Calls
  BY <1>1, Kinds
<1>5. y \in Task
  <2>1. h \in Handler
    BY <1>2, <1>3, HandlerOfType
  <2> HIDE DEF h
  <2>2. "NAME_ERROR" \in Codes
    BY DEF Codes
  <2> QED BY <1>3, <1>4, <2>1, <2>2, NewTaskType
<1>6. y.what = AnswerTo(x.what) /\ y.id = x.id
  BY DEF NewTask
<1> HIDE DEF x, y, h
<1>7. Ids(input', Calls) = Ids(input, Calls) /\ Ids(input', Returns) = Ids(input, Returns) \cup {x.id}
  BY <1>1, <1>4, <1>5, <1>6, PutTask, ZenonT(30)
<1> QED BY <1>1, <1>3, <1>7 DEF x

LEMMA GcdDeliverMoves ==
  ASSUME Inv, GcdDeliver
  PROVE  LET c == gcd[1].id IN
         /\ UNCHANGED <<input, sentVars, nativeInbox, replied, excused>>
         /\ c \in Ids(gcd, Calls) /\ gcd[1].name = nativeSent[c].name
         /\ Ids(gcd', Calls) = Ids(gcd, Calls) \ {c} /\ Ids(gcd', Answers) = Ids(gcd, Answers)
         /\ Ids(jsInbox', Answers) = Ids(jsInbox, Answers)
         /\ \/ Ids(jsInbox', Calls) = Ids(jsInbox, Calls) \cup {c}
            \/ Ids(jsInbox', Calls) = Ids(jsInbox, Calls) /\ bridgeList[gcd[1].name] = None
<1> DEFINE x == gcd[1]
           z == [what |-> x.what, id |-> x.id, name |-> x.name,
                 codec |-> bridgeList[x.name], code |-> "ERROR_NO", direct |-> FALSE]
<1>1. /\ gcd # <<>> /\ x = Head(gcd) /\ x.what \in Calls /\ gcd' = Tail(gcd)
      /\ bridgeList[x.name] = None => jsInbox' = jsInbox
      /\ bridgeList[x.name] # None => jsInbox' = Append(jsInbox, z)
      /\ UNCHANGED <<input, sentVars, nativeInbox, replied, excused>>
  <2>1. gcd # <<>> /\ gcd[1] = Head(gcd) /\ Head(gcd).what \in Calls
    BY AtHead DEF GcdDeliver, GcdIdle, Inv, Carried, Calls
  <2> QED BY <2>1 DEF GcdDeliver, ToJs
<1>2. TypeOK
  BY DEF Inv
<1>3. /\ x \in Block /\ x.id \in Nat /\ x.name \in Names /\ x.what \notin Answers
      /\ Ids(gcd', Calls) = Ids(gcd, Calls) \ {x.id} /\ Ids(gcd', Answers) = Ids(gcd, Answers)
      /\ x.id \in Ids(gcd, Calls) /\ x.name = nativeSent[x.id].name
  BY <1>1, TakeBlock, AtHead, Kinds DEF Block, Inv, Carried
<1>4. /\ z.what = x.what /\ z.id = x.id
      /\ bridgeList[x.name] # None => z \in Got
  <2>1. bridgeList[x.name] \in BridgeTypes \cup {None}
    BY <1>2, <1>3 DEF TypeOK
  <2> QED BY <1>1, <1>3, <2>1 DEF Got, Codes
<1> HIDE DEF z
<1>5. Ids(jsInbox', Answers) = Ids(jsInbox, Answers)
  BY <1>1, <1>2, <1>3, <1>4, PutGot
<1>6. CASE bridgeList[x.name] = None
  BY <1>1, <1>3, <1>5, <1>6
<1>7. CASE bridgeList[x.name] # None
  <2>1. Ids(jsInbox', Calls) = Ids(jsInbox, Calls) \cup {x.id}
    BY <1>1, <1>2, <1>3, <1>4, <1>7, PutGot
  <2> QED BY <1>1, <1>3, <1>5, <2>1
<1> QED BY <1>6, <1>7

LEMMA JSReplyMoves ==
  ASSUME Inv, NEW i \in DOMAIN jsInbox, NEW cancel \in BOOLEAN, JSReply(i, cancel)
  PROVE  LET c == jsInbox[i].id IN
         /\ UNCHANGED <<gcd, sentVars, jsInbox, nativeInbox, excused>>
         /\ c \in Ids(jsInbox, Calls) /\ replied' = replied \cup {c}
         /\ Ids(input', Calls) = Ids(input, Calls) /\ Ids(input', Returns) = Ids(input, Returns) \cup {c}
<1> DEFINE x == jsInbox[i]
           what == IF cancel THEN "cancel" ELSE AnswerTo(x.what)
           h == HandlerOf(x.name, InlineJs)
           y == NewTask(what, x.id, x.name, x.codec, "ERROR_NO", h)
<1>1. /\ x.what \in Calls /\ replied' = replied \cup {x.id} /\ input' = Append(input, y)
      /\ UNCHANGED <<gcd, sentVars, jsInbox, nativeInbox, excused>>
  BY DEF JSReply, Calls
<1>2. TypeOK
  BY DEF Inv
<1>3. /\ x.id \in Nat /\ x.name \in Names /\ x.codec \in BridgeTypes
      /\ x.id \in Ids(jsInbox, Calls)
  <2>1. x \in Got
    BY <1>2, SeqBasics DEF TypeOK, Got, Calls
  <2> QED BY <1>1, <2>1, IdIn DEF Got
<1>4. what \in Returns /\ what \notin Calls
  BY <1>1 DEF AnswerTo, Returns, Answers, Calls
<1>5. y \in Task
  <2>1. h \in Handler
    BY <1>2, <1>3, HandlerOfType
  <2> HIDE DEF h, what
  <2>2. "ERROR_NO" \in Codes
    BY DEF Codes
  <2> QED BY <1>3, <1>4, <2>1, <2>2, NewTaskType
<1>6. y.what = what /\ y.id = x.id
  BY DEF NewTask
<1> HIDE DEF x, y, h, what
<1>7. Ids(input', Calls) = Ids(input, Calls) /\ Ids(input', Returns) = Ids(input, Returns) \cup {x.id}
  BY <1>1, <1>4, <1>5, <1>6, PutTask
<1> QED BY <1>1, <1>3, <1>7 DEF x

LEMMA RegisterMoves ==
  ASSUME Inv, Register
  PROVE  UNCHANGED <<input, gcd, sentVars, jsInbox, nativeInbox, replied>> /\ excused \subseteq excused'
BY DEF Register, RegisterPlugin, UnRegisterPlugin, JSRegisterBridge, JSUnRegisterBridge, Registration

-----------------------------------------------------------------------------
(***************************************************************************)
(* The calls of ArkUI: every step is a step of BridgeCalls, or none.       *)
(***************************************************************************)
LEMMA JsUntouched ==
  ASSUME UNCHANGED <<jsSent, excused>>, JsOpen' = JsOpen, JsAnswered' = JsAnswered
  PROVE  UNCHANGED FromArkUI!vars
BY DEF FromArkUI!vars, JsLost, JsExcusable

LEMMA JsCallAnswered ==
  ASSUME Inv, UNCHANGED <<jsSent, excused>>, NEW c \in JsOpen,
         JsOpen' = JsOpen \ {c}, JsAnswered' = JsAnswered \cup {c}
  PROVE  FromArkUI!Next
<1>1. JsOpen \subseteq 1 .. Len(jsSent) /\ JsOpen \cap JsAnswered = {}
  BY DEF Inv, JsPlaces, JsAnswered
<1>2. JsLost' = JsLost /\ JsExcusable' = JsExcusable /\ c \notin JsLost
  BY <1>1 DEF JsLost, JsExcusable
<1>3. FromArkUI!Answer(c)
  BY <1>1, <1>2 DEF FromArkUI!Answer, FromArkUI!Open
<1> QED BY <1>1, <1>3 DEF FromArkUI!Next

LEMMA JsCallLost ==
  ASSUME Inv, UNCHANGED jsSent, NEW c \in JsOpen,
         excused' = excused \cup {<<"js", c>>},
         JsOpen' = JsOpen \ {c}, JsAnswered' = JsAnswered
  PROVE  FromArkUI!Next
<1>1. JsOpen \subseteq 1 .. Len(jsSent) /\ JsOpen \cap JsAnswered = {}
  BY DEF Inv, JsPlaces, JsAnswered
<1>2. JsLost' = JsLost \cup {c} /\ JsExcusable' = JsExcusable \cup {c} /\ c \notin JsLost
  <2>1. \A d : <<"js", d>> \in excused' <=> <<"js", d>> \in excused \/ d = c
    OBVIOUS
  <2> QED BY <1>1, <2>1 DEF JsLost, JsExcusable
<1>3. FromArkUI!Lose(c)
  BY <1>1, <1>2 DEF FromArkUI!Lose, FromArkUI!Open
<1> QED BY <1>1, <1>3 DEF FromArkUI!Next

LEMMA JsCallMade ==
  ASSUME Inv, Len(jsSent') = Len(jsSent) + 1, UNCHANGED excused,
         JsOpen' = JsOpen \cup {Len(jsSent) + 1}, JsAnswered' = JsAnswered
  PROVE  FromArkUI!Next
<1> DEFINE c == Len(jsSent) + 1
<1>1. Len(jsSent) \in Nat /\ JsOpen \subseteq 1 .. Len(jsSent)
  BY LenProperties DEF Inv, TypeOK, JsPlaces
<1>2. 1 .. Len(jsSent') = 1 .. Len(jsSent) \cup {c} /\ c \notin 1 .. Len(jsSent)
  BY <1>1
<1> HIDE DEF c
<1>3. JsLost' = JsLost
  BY <1>1, <1>2 DEF JsLost, c
<1>4. JsExcusable' = JsExcusable \/ JsExcusable' = JsExcusable \cup {c}
  BY <1>2 DEF JsExcusable
<1>5. FromArkUI!Call
  BY <1>3, <1>4 DEF FromArkUI!Call, c
<1> QED BY <1>5 DEF FromArkUI!Next

LEMMA JsEndsChanged ==
  ASSUME UNCHANGED jsSent, excused \subseteq excused', JsOpen' = JsOpen, JsAnswered' = JsAnswered
  PROVE  FromArkUI!Next
<1>1. JsLost' = JsLost /\ JsExcusable' = JsExcusable \cup {c \in 1 .. Len(jsSent) : <<"js", c>> \in excused'}
  BY DEF JsLost, JsExcusable
<1>2. FromArkUI!Change
  BY <1>1 DEF FromArkUI!Change
<1> QED BY <1>2 DEF FromArkUI!Next

LEMMA ArkUIStep == Inv /\ [Next]_vars => [FromArkUI!Next]_(FromArkUI!vars)
<1> SUFFICES ASSUME Inv, [Next]_vars
             PROVE  FromArkUI!Next \/ UNCHANGED FromArkUI!vars
  OBVIOUS
<1>1. JsOpen = Ids(input, Calls) \cup Ids(gcd, Answers) /\ JsOpen' = Ids(input', Calls) \cup Ids(gcd', Answers)
  BY DEF JsOpen, Calls
<1>2. /\ JsAnswered = Ids(jsInbox, Answers) \cap (1 .. Len(jsSent))
      /\ JsAnswered' = Ids(jsInbox', Answers) \cap (1 .. Len(jsSent'))
  BY DEF JsAnswered
<1>3. /\ JsOpen \subseteq 1 .. Len(jsSent) /\ Ids(input, Calls) \cap Ids(gcd, Answers) = {}
      /\ JsOpen \cap Ids(jsInbox, Answers) = {}
  BY DEF Inv, JsPlaces
<1>4. \A c \in JsOpen : bridgeList[jsSent[c].name] = None => excused = excused \cup {<<"js", c>>}
  <2>1. DOMAIN jsSent = 1 .. Len(jsSent)
    BY SeqBasics DEF Inv, TypeOK
  <2> QED BY <1>3, <2>1 DEF Inv, EndsStay
<1>5. ASSUME NEW i \in DOMAIN input, RefuseTask(i)
      PROVE  FromArkUI!Next
  <2> DEFINE c == input[i].id
  <2>1. /\ UNCHANGED <<gcd, sentVars, excused>> /\ c \in Ids(input, Calls) /\ input[i].name = jsSent[c].name
        /\ Ids(input', Calls) = Ids(input, Calls) \ {c}
        /\ \/ Ids(jsInbox', Answers) = Ids(jsInbox, Answers) \cup {c}
           \/ Ids(jsInbox', Answers) = Ids(jsInbox, Answers) /\ bridgeList[input[i].name] = None
    BY <1>5, RefuseTaskMoves
  <2> HIDE DEF c
  <2>2. c \in JsOpen /\ JsOpen' = JsOpen \ {c} /\ UNCHANGED jsSent
    BY <1>1, <1>3, <2>1 DEF sentVars
  <2>3. CASE Ids(jsInbox', Answers) = Ids(jsInbox, Answers) \cup {c}
    <3>1. JsAnswered' = JsAnswered \cup {c}
      BY <1>2, <1>3, <2>2, <2>3
    <3> QED BY <2>1, <2>2, <3>1, JsCallAnswered
  <2>4. CASE Ids(jsInbox', Answers) = Ids(jsInbox, Answers) /\ bridgeList[input[i].name] = None
    <3>1. JsAnswered' = JsAnswered /\ excused' = excused \cup {<<"js", c>>}
      BY <1>2, <1>4, <2>1, <2>2, <2>4
    <3> QED BY <2>2, <3>1, JsCallLost
  <2> QED BY <2>1, <2>3, <2>4
<1>6. ASSUME GcdAnswer
      PROVE  FromArkUI!Next
  <2> DEFINE c == gcd[1].id
  <2>1. /\ UNCHANGED <<input, sentVars, excused>> /\ c \in Ids(gcd, Answers) /\ gcd[1].name = jsSent[c].name
        /\ Ids(gcd', Answers) = Ids(gcd, Answers) \ {c}
        /\ \/ Ids(jsInbox', Answers) = Ids(jsInbox, Answers) \cup {c}
           \/ Ids(jsInbox', Answers) = Ids(jsInbox, Answers) /\ bridgeList[gcd[1].name] = None
    BY <1>6, GcdAnswerMoves
  <2> HIDE DEF c
  <2>2. c \in JsOpen /\ JsOpen' = JsOpen \ {c} /\ UNCHANGED jsSent
    BY <1>1, <1>3, <2>1 DEF sentVars
  <2>3. CASE Ids(jsInbox', Answers) = Ids(jsInbox, Answers) \cup {c}
    <3>1. JsAnswered' = JsAnswered \cup {c}
      BY <1>2, <1>3, <2>2, <2>3
    <3> QED BY <2>1, <2>2, <3>1, JsCallAnswered
  <2>4. CASE Ids(jsInbox', Answers) = Ids(jsInbox, Answers) /\ bridgeList[gcd[1].name] = None
    <3>1. JsAnswered' = JsAnswered /\ excused' = excused \cup {<<"js", c>>}
      BY <1>2, <1>4, <2>1, <2>2, <2>4
    <3> QED BY <2>2, <3>1, JsCallLost
  <2> QED BY <2>1, <2>3, <2>4
<1>7. ASSUME NEW i \in DOMAIN input, DropAnswer(i)
      PROVE  FromArkUI!Next
  <2> DEFINE c == input[i].id
  <2>1. /\ UNCHANGED <<gcd, sentVars, jsInbox>> /\ c \in Ids(input, Calls)
        /\ excused' = excused \cup {<<"js", c>>} /\ Ids(input', Calls) = Ids(input, Calls) \ {c}
    BY <1>7, DropAnswerMoves
  <2> HIDE DEF c
  <2>2. c \in JsOpen /\ JsOpen' = JsOpen \ {c} /\ JsAnswered' = JsAnswered /\ UNCHANGED jsSent
    BY <1>1, <1>2, <1>3, <2>1 DEF sentVars
  <2> QED BY <2>1, <2>2, JsCallLost
<1>8. ASSUME NEW i \in DOMAIN input, FinishTask(i)
      PROVE  UNCHANGED FromArkUI!vars
  <2>1. /\ UNCHANGED <<sentVars, jsInbox, excused>> /\ input[i].id \in Ids(input, Calls)
        /\ Ids(input', Calls) = Ids(input, Calls) \ {input[i].id}
        /\ Ids(gcd', Answers) = Ids(gcd, Answers) \cup {input[i].id}
    BY <1>8, FinishTaskMoves
  <2>2. JsOpen' = JsOpen /\ JsAnswered' = JsAnswered
    BY <1>1, <1>2, <1>3, <2>1 DEF sentVars
  <2> QED BY <2>1, <2>2, JsUntouched DEF sentVars
<1>9. ASSUME NEW i \in DOMAIN input, StartTask(i)
      PROVE  UNCHANGED FromArkUI!vars
  <2>1. /\ UNCHANGED <<gcd, sentVars, jsInbox, excused>> /\ Ids(input', Calls) = Ids(input, Calls)
    BY <1>9, StartTaskMoves
  <2>2. JsOpen' = JsOpen /\ JsAnswered' = JsAnswered
    BY <1>1, <1>2, <2>1 DEF sentVars
  <2> QED BY <2>1, <2>2, JsUntouched DEF sentVars
<1>10. ASSUME NEW i \in DOMAIN input, RunAnswer(i)
       PROVE  UNCHANGED FromArkUI!vars
  <2>1. /\ UNCHANGED <<gcd, sentVars, excused>> /\ Ids(input', Calls) = Ids(input, Calls)
        /\ input[i].id \in Ids(input, Returns)
        /\ Ids(jsInbox', Answers) \subseteq Ids(jsInbox, Answers) \cup {input[i].id + MaxJs}
        /\ Ids(jsInbox, Answers) \subseteq Ids(jsInbox', Answers)
    BY <1>10, RunAnswerMoves
  <2>2. input[i].id + MaxJs \notin 1 .. Len(jsSent)
    <3>1. input[i].id \in 1 .. Len(nativeSent) /\ Len(jsSent) <= MaxJs
      BY <2>1 DEF Inv, NativePlaces, JsPlaces
    <3>2. Len(nativeSent) \in Nat /\ Len(jsSent) \in Nat /\ MaxJs \in Nat
      BY LenProperties, MessagingAssumption DEF Inv, TypeOK
    <3> QED BY <3>1, <3>2
  <2>3. JsOpen' = JsOpen /\ JsAnswered' = JsAnswered
    BY <1>1, <1>2, <2>1, <2>2 DEF sentVars
  <2> QED BY <2>1, <2>3, JsUntouched DEF sentVars
<1>11. ASSUME GcdNoReceiver
       PROVE  UNCHANGED FromArkUI!vars
  <2>1. /\ UNCHANGED <<sentVars, jsInbox, excused>> /\ Ids(gcd', Answers) = Ids(gcd, Answers)
        /\ Ids(input', Calls) = Ids(input, Calls)
    BY <1>11, GcdNoReceiverMoves
  <2>2. JsOpen' = JsOpen /\ JsAnswered' = JsAnswered
    BY <1>1, <1>2, <2>1 DEF sentVars
  <2> QED BY <2>1, <2>2, JsUntouched DEF sentVars
<1>12. ASSUME GcdReceiverExists
       PROVE  UNCHANGED FromArkUI!vars
  BY <1>12, JsUntouched DEF GcdReceiverExists, sentVars, JsOpen, JsAnswered
<1>13. ASSUME GcdDeliver
       PROVE  UNCHANGED FromArkUI!vars
  <2>1. /\ UNCHANGED <<input, sentVars, excused>> /\ Ids(gcd', Answers) = Ids(gcd, Answers)
        /\ Ids(jsInbox', Answers) = Ids(jsInbox, Answers)
    BY <1>13, GcdDeliverMoves
  <2>2. JsOpen' = JsOpen /\ JsAnswered' = JsAnswered
    BY <1>1, <1>2, <2>1 DEF sentVars
  <2> QED BY <2>1, <2>2, JsUntouched DEF sentVars
<1>14. ASSUME NEW i \in DOMAIN jsInbox, NEW cancel \in BOOLEAN, JSReply(i, cancel)
       PROVE  UNCHANGED FromArkUI!vars
  <2>1. UNCHANGED <<gcd, sentVars, jsInbox, excused>> /\ Ids(input', Calls) = Ids(input, Calls)
    BY <1>14, JSReplyMoves
  <2>2. JsOpen' = JsOpen /\ JsAnswered' = JsAnswered
    BY <1>1, <1>2, <2>1 DEF sentVars
  <2> QED BY <2>1, <2>2, JsUntouched DEF sentVars
<1>15. ASSUME Register
       PROVE  FromArkUI!Next
  <2>1. UNCHANGED <<input, gcd, sentVars, jsInbox>> /\ excused \subseteq excused'
    BY <1>15, RegisterMoves
  <2> QED BY <2>1, JsEndsChanged DEF sentVars, JsOpen, JsAnswered
<1>16. ASSUME NEW n \in Names, NEW what \in Whats, JSSend(n, what)
       PROVE  FromArkUI!Next
  <2>1. /\ UNCHANGED <<gcd, jsInbox, excused>> /\ Len(jsSent') = Len(jsSent) + 1 /\ Len(jsSent) + 1 <= MaxJs
        /\ Ids(input', Calls) = Ids(input, Calls) \cup {Len(jsSent) + 1}
    BY <1>16, JSSendMoves
  <2>2. Len(jsSent) \in Nat /\ MaxJs \in Nat
    BY LenProperties, MessagingAssumption DEF Inv, TypeOK
  <2>3. Len(jsSent) + 1 \notin Ids(jsInbox, Answers)
    BY <2>1, <2>2 DEF Inv, JsPlaces
  <2>4. 1 .. Len(jsSent') = 1 .. Len(jsSent) \cup {Len(jsSent) + 1}
    BY <2>1, <2>2
  <2>5. JsOpen' = JsOpen \cup {Len(jsSent) + 1} /\ JsAnswered' = JsAnswered
    BY <1>1, <1>2, <2>1, <2>3, <2>4
  <2> QED BY <2>1, <2>5, JsCallMade
<1>17. ASSUME NEW p \in Plugins, NEW what \in Whats, NativeSend(p, what)
       PROVE  UNCHANGED FromArkUI!vars
  <2>1. UNCHANGED <<input, jsSent, jsInbox, excused>> /\ Ids(gcd', Answers) = Ids(gcd, Answers)
    BY <1>17, NativeSendMoves
  <2>2. JsOpen' = JsOpen /\ JsAnswered' = JsAnswered
    BY <1>1, <1>2, <2>1
  <2> QED BY <2>1, <2>2, JsUntouched
<1>18. ASSUME UNCHANGED vars
       PROVE  UNCHANGED FromArkUI!vars
  BY <1>18, JsUntouched DEF vars, sentVars, JsOpen, JsAnswered
<1>19. ASSUME NEW i \in DOMAIN input, IgnoreAnswer(i)
       PROVE  FromArkUI!Next
  <2>1. /\ UNCHANGED <<gcd, sentVars, jsInbox>> /\ Ids(input', Calls) = Ids(input, Calls)
        /\ excused' = excused \cup {<<"native", input[i].id>>}
    BY <1>19, IgnoreAnswerMoves
  <2>2. JsOpen' = JsOpen /\ JsAnswered' = JsAnswered /\ excused \subseteq excused'
    BY <1>1, <1>2, <2>1 DEF sentVars
  <2> QED BY <2>1, <2>2, JsEndsChanged DEF sentVars
<1> QED
  BY <1>5, <1>6, <1>7, <1>8, <1>9, <1>10, <1>11, <1>12, <1>13, <1>14, <1>15, <1>16, <1>17, <1>18,
     <1>19 DEF Next, InputStep, GcdStep, Replies, Send

\* What BridgeMessaging does with ArkUI's calls is what BridgeCalls allows: each of
\* jsCallMethod's and jsSendMessage's is answered at most once, and goes unanswered only if
\* its receiver changed meanwhile, or what the plugin returned cannot be sent.
THEOREM ArkUICallsAreKept == Spec => ArkUICallsKept
<1>1. Init => FromArkUI!Init
  <2> SUFFICES ASSUME Init
               PROVE  FromArkUI!Init
    OBVIOUS
  <2>1. Len(jsSent) = 0 /\ 1 .. Len(jsSent) = {}
    BY EmptySeq DEF Init
  <2> QED BY <2>1 DEF FromArkUI!Init, JsAnswered, JsLost, JsExcusable
<1> QED BY <1>1, MessagingInv, ArkUIStep, PTL DEF Spec, ArkUICallsKept, FromArkUI!Spec

-----------------------------------------------------------------------------
(***************************************************************************)
(* The calls of the plugins, likewise.                                     *)
(***************************************************************************)
LEMMA NativeUntouched ==
  ASSUME UNCHANGED <<nativeSent, excused>>, NativeOpen' = NativeOpen, NativeAnswered' = NativeAnswered
  PROVE  UNCHANGED FromPlugins!vars
BY DEF FromPlugins!vars, NativeLost, NativeExcusable

\* A plugin's call is in one place, and of a call that was made.
LEMMA NativeSets ==
  ASSUME Inv
  PROVE  /\ NativeOpen = Ids(gcd, Calls) \cup Ids(input, Returns) \cup (Ids(jsInbox, Calls) \ replied)
         /\ NativeOpen \subseteq 1 .. Len(nativeSent) /\ NativeAnswered \subseteq 1 .. Len(nativeSent)
         /\ NativeOpen \cap NativeAnswered = {}
<1>1. NativeOpen = Ids(gcd, Calls) \cup Ids(input, Returns) \cup (Ids(jsInbox, Calls) \ replied)
  BY DEF NativeOpen, Calls, Returns
<1> QED BY <1>1 DEF Inv, NativePlaces

LEMMA NativeCallAnswered ==
  ASSUME Inv, UNCHANGED <<nativeSent, excused>>, NEW c \in NativeOpen,
         NativeOpen' = NativeOpen \ {c}, NativeAnswered' = NativeAnswered \cup {c}
  PROVE  FromPlugins!Next
<1>1. /\ NativeOpen \subseteq 1 .. Len(nativeSent) /\ NativeOpen \cap NativeAnswered = {}
  BY NativeSets
<1>2. NativeLost' = NativeLost /\ NativeExcusable' = NativeExcusable /\ c \notin NativeLost
  BY <1>1 DEF NativeLost, NativeExcusable
<1>3. FromPlugins!Answer(c)
  BY <1>1, <1>2 DEF FromPlugins!Answer, FromPlugins!Open
<1> QED BY <1>1, <1>3 DEF FromPlugins!Next

LEMMA NativeCallLost ==
  ASSUME Inv, UNCHANGED <<nativeSent, excused>>, NEW c \in NativeOpen, c \in NativeExcusable,
         NativeOpen' = NativeOpen \ {c}, NativeAnswered' = NativeAnswered
  PROVE  FromPlugins!Next
<1>1. /\ NativeOpen \subseteq 1 .. Len(nativeSent) /\ NativeOpen \cap NativeAnswered = {}
  BY NativeSets
<1>2. NativeLost' = NativeLost \cup {c} /\ NativeExcusable' = NativeExcusable /\ c \notin NativeLost
  BY <1>1 DEF NativeLost, NativeExcusable
<1>3. FromPlugins!Lose(c)
  BY <1>1, <1>2 DEF FromPlugins!Lose, FromPlugins!Open
<1> QED BY <1>1, <1>3 DEF FromPlugins!Next

LEMMA NativeCallIgnored ==
  ASSUME Inv, UNCHANGED nativeSent, NEW c \in NativeOpen, excused' = excused \cup {<<"native", c>>},
         NativeOpen' = NativeOpen \ {c}, NativeAnswered' = NativeAnswered
  PROVE  FromPlugins!Next
<1>1. /\ NativeOpen \subseteq 1 .. Len(nativeSent) /\ NativeOpen \cap NativeAnswered = {}
  BY NativeSets
<1>2. NativeLost' = NativeLost \cup {c} /\ c \notin NativeLost
  BY <1>1 DEF NativeLost
<1>3. NativeExcusable' = NativeExcusable \cup {c}
  BY <1>1 DEF NativeExcusable
<1>4. FromPlugins!Lose(c)
  BY <1>1, <1>2, <1>3 DEF FromPlugins!Lose, FromPlugins!Open
<1> QED BY <1>1, <1>4 DEF FromPlugins!Next

LEMMA NativeCallMade ==
  ASSUME Inv, Len(nativeSent') = Len(nativeSent) + 1, UNCHANGED excused,
         \A j \in 1 .. Len(nativeSent) : nativeSent'[j] = nativeSent[j],
         \/ NativeOpen' = NativeOpen \cup {Len(nativeSent) + 1}
         \/ NativeOpen' = NativeOpen /\ ~nativeSent'[Len(nativeSent) + 1].accepted,
         NativeAnswered' = NativeAnswered
  PROVE  FromPlugins!Next
<1> DEFINE c == Len(nativeSent) + 1
<1>1. /\ Len(nativeSent) \in Nat
      /\ NativeOpen \subseteq 1 .. Len(nativeSent) /\ NativeAnswered \subseteq 1 .. Len(nativeSent)
  BY LenProperties, NativeSets DEF Inv, TypeOK
<1>2. 1 .. Len(nativeSent') = 1 .. Len(nativeSent) \cup {c} /\ c \notin 1 .. Len(nativeSent)
  BY <1>1
<1>3. NativeExcusable' = NativeExcusable \/ NativeExcusable' = NativeExcusable \cup {c}
  <2> HIDE DEF c
  <2>1. \A d \in 1 .. Len(nativeSent) : d \in NativeExcusable' <=> d \in NativeExcusable
    BY <1>2 DEF NativeExcusable
  <2>2. NativeExcusable \subseteq 1 .. Len(nativeSent) /\ NativeExcusable' \subseteq 1 .. Len(nativeSent')
    BY DEF NativeExcusable
  <2> QED BY <1>2, <2>1, <2>2
<1>4. CASE NativeOpen' = NativeOpen \cup {c}
  <2>1. NativeLost' = NativeLost
    <3> HIDE DEF c
    <3> QED BY <1>1, <1>2, <1>4 DEF NativeLost
  <2> QED BY <1>3, <2>1 DEF FromPlugins!Next, FromPlugins!Call
<1>5. CASE NativeOpen' = NativeOpen /\ ~nativeSent'[c].accepted
  <2>1. c \in NativeExcusable'
    <3> HIDE DEF c
    <3> QED BY <1>2, <1>5 DEF NativeExcusable
  <2>2. NativeExcusable' = NativeExcusable \cup {c}
    BY <1>3, <2>1
  <2>3. NativeLost' = NativeLost \cup {c}
    <3> HIDE DEF c
    <3> QED BY <1>1, <1>2, <1>5 DEF NativeLost
  <2> QED BY <2>2, <2>3 DEF FromPlugins!Next, FromPlugins!Call
<1> QED BY <1>4, <1>5

LEMMA NativeEndsChanged ==
  ASSUME UNCHANGED nativeSent, excused \subseteq excused',
         NativeOpen' = NativeOpen, NativeAnswered' = NativeAnswered
  PROVE  FromPlugins!Next
<1>1. /\ NativeLost' = NativeLost
      /\ NativeExcusable' = NativeExcusable \cup {c \in 1 .. Len(nativeSent) : <<"native", c>> \in excused'}
  BY DEF NativeLost, NativeExcusable
<1>2. FromPlugins!Change
  BY <1>1 DEF FromPlugins!Change
<1> QED BY <1>2 DEF FromPlugins!Next

\* A call under way that nothing excuses finds its ends as they were.
LEMMA NativeEndsThere ==
  ASSUME Inv, NEW c \in NativeOpen, c \notin NativeExcusable
  PROVE  LET p == nativeSent[c].plugin IN
         /\ p \in Plugins /\ nativeSent[c].name = nameOf[p]
         /\ bridgeMap[nameOf[p]] = p /\ bridgeList[nameOf[p]] = typeOf[p]
         /\ p # None /\ typeOf[p] # None
<1>1. c \in DOMAIN nativeSent /\ nativeSent[c].plugin \in Plugins
  <2> DEFINE Sent == [what : Whats, name : Names, plugin : Plugins, accepted : BOOLEAN, paired : BOOLEAN]
  <2>1. nativeSent \in Seq(Sent)
    BY DEF Inv, TypeOK
  <2>2. \A r \in Sent : r.plugin \in Plugins
    OBVIOUS
  <2> HIDE DEF Sent
  <2>3. DOMAIN nativeSent = 1 .. Len(nativeSent) /\ \A d \in DOMAIN nativeSent : nativeSent[d] \in Sent
    BY <2>1, SeqBasics
  <2>4. c \in DOMAIN nativeSent
    BY <2>3, NativeSets
  <2> QED BY <2>2, <2>3, <2>4
<1>2. typeOf[nativeSent[c].plugin] \in BridgeTypes
  BY <1>1, MessagingAssumption
<1> QED BY <1>1, <1>2, MessagingAssumption DEF Inv, Carried, EndsStay, Paired

LEMMA PluginStep == Inv /\ [Next]_vars => [FromPlugins!Next]_(FromPlugins!vars)
<1> SUFFICES ASSUME Inv, [Next]_vars
             PROVE  FromPlugins!Next \/ UNCHANGED FromPlugins!vars
  OBVIOUS
<1>1. /\ NativeOpen = Ids(gcd, Calls) \cup Ids(input, Returns) \cup (Ids(jsInbox, Calls) \ replied)
      /\ NativeOpen' = Ids(gcd', Calls) \cup Ids(input', Returns) \cup (Ids(jsInbox', Calls) \ replied')
  BY DEF NativeOpen, Calls, Returns
<1>2. UNCHANGED nativeInbox => NativeAnswered' = NativeAnswered
  BY DEF NativeAnswered
<1>3. /\ Ids(gcd, Calls) \cap (Ids(input, Returns) \cup Ids(jsInbox, Calls)) = {}
      /\ replied \subseteq Ids(jsInbox, Calls)
      /\ Ids(input, Returns) \cap Ids(jsInbox, Calls) \subseteq replied
  BY DEF Inv, NativePlaces
<1>4. ASSUME NEW i \in DOMAIN input, RefuseTask(i)
      PROVE  UNCHANGED FromPlugins!vars
  <2>1. /\ UNCHANGED <<gcd, sentVars, nativeInbox, replied, excused>>
        /\ Ids(input', Returns) = Ids(input, Returns) /\ Ids(jsInbox', Calls) = Ids(jsInbox, Calls)
    BY <1>4, RefuseTaskMoves
  <2> QED BY <1>1, <1>2, <2>1, NativeUntouched DEF sentVars
<1>5. ASSUME NEW i \in DOMAIN input, StartTask(i)
      PROVE  UNCHANGED FromPlugins!vars
  <2>1. /\ UNCHANGED <<gcd, sentVars, jsInbox, nativeInbox, replied, excused>>
        /\ Ids(input', Returns) = Ids(input, Returns)
    BY <1>5, StartTaskMoves
  <2> QED BY <1>1, <1>2, <2>1, NativeUntouched DEF sentVars
<1>6. ASSUME NEW i \in DOMAIN input, FinishTask(i)
      PROVE  UNCHANGED FromPlugins!vars
  <2>1. /\ UNCHANGED <<sentVars, jsInbox, nativeInbox, replied, excused>>
        /\ Ids(input', Returns) = Ids(input, Returns) /\ Ids(gcd', Calls) = Ids(gcd, Calls)
    BY <1>6, FinishTaskMoves
  <2> QED BY <1>1, <1>2, <2>1, NativeUntouched DEF sentVars
<1>7. ASSUME NEW i \in DOMAIN input, DropAnswer(i)
      PROVE  FromPlugins!Next
  <2>1. /\ UNCHANGED <<gcd, sentVars, jsInbox, nativeInbox, replied>>
        /\ excused' = excused \cup {<<"js", input[i].id>>} /\ Ids(input', Returns) = Ids(input, Returns)
    BY <1>7, DropAnswerMoves
  <2> QED BY <1>1, <1>2, <2>1, NativeEndsChanged DEF sentVars
<1>8. ASSUME NEW i \in DOMAIN input, RunAnswer(i)
      PROVE  FromPlugins!Next
  <2> DEFINE c == input[i].id
             p == bridgeMap[input[i].name]
  <2>1. /\ UNCHANGED <<gcd, sentVars, replied, excused>>
        /\ c \in Ids(input, Returns) /\ input[i].name = nativeSent[c].name /\ input[i].what \in Returns
        /\ Ids(input', Returns) = Ids(input, Returns) \ {c}
        /\ Ids(jsInbox', Calls) = Ids(jsInbox, Calls)
        /\ \/ NativeAnswered' = NativeAnswered \cup {c}
           \/ NativeAnswered' = NativeAnswered /\ (p = None \/ typeOf[p] # input[i].codec)
    BY <1>8, RunAnswerMoves
  <2>2. c \in NativeOpen /\ NativeOpen' = NativeOpen \ {c} /\ UNCHANGED nativeSent
    <3> HIDE DEF c
    <3> QED BY <1>1, <1>3, <2>1 DEF sentVars
  <2>3. CASE NativeAnswered' = NativeAnswered \cup {c}
    <3> HIDE DEF c
    <3> QED BY <2>1, <2>2, <2>3, NativeCallAnswered
  <2>4. CASE NativeAnswered' = NativeAnswered /\ (p = None \/ typeOf[p] # input[i].codec)
    <3>1. c \in NativeExcusable
      <4> SUFFICES ASSUME c \notin NativeExcusable
                   PROVE  FALSE
        OBVIOUS
      <4>1. p = nativeSent[c].plugin /\ p # None
        BY <2>1, <2>2, NativeEndsThere
      <4>2. c \in DOMAIN nativeSent
        <5>1. DOMAIN nativeSent = 1 .. Len(nativeSent)
          BY SeqBasics DEF Inv, TypeOK
        <5> QED BY <2>2, <5>1, NativeSets
      <4>3. input[i].codec = typeOf[nativeSent[c].plugin]
        BY <2>1, <4>2 DEF Inv, EndsStay
      <4> QED BY <2>4, <4>1, <4>3
    <3> HIDE DEF c
    <3> QED BY <2>1, <2>2, <2>4, <3>1, NativeCallLost
  <2> QED BY <2>1, <2>3, <2>4
<1>9. ASSUME GcdAnswer
      PROVE  UNCHANGED FromPlugins!vars
  <2>1. /\ UNCHANGED <<input, sentVars, nativeInbox, replied, excused>>
        /\ Ids(gcd', Calls) = Ids(gcd, Calls) /\ Ids(jsInbox', Calls) = Ids(jsInbox, Calls)
    BY <1>9, GcdAnswerMoves
  <2> QED BY <1>1, <1>2, <2>1, NativeUntouched DEF sentVars
<1>10. ASSUME GcdNoReceiver
       PROVE  UNCHANGED FromPlugins!vars
  <2> DEFINE c == gcd[1].id
  <2>1. /\ UNCHANGED <<sentVars, jsInbox, nativeInbox, replied, excused>> /\ c \in Ids(gcd, Calls)
        /\ Ids(gcd', Calls) = Ids(gcd, Calls) \ {c}
        /\ Ids(input', Returns) = Ids(input, Returns) \cup {c}
    BY <1>10, GcdNoReceiverMoves
  <2> HIDE DEF c
  <2>2. NativeOpen' = NativeOpen
    BY <1>1, <2>1
  <2> QED BY <1>2, <2>1, <2>2, NativeUntouched DEF sentVars
<1>11. ASSUME GcdReceiverExists
       PROVE  UNCHANGED FromPlugins!vars
  BY <1>11, NativeUntouched DEF GcdReceiverExists, sentVars, NativeOpen, NativeAnswered
<1>12. ASSUME GcdDeliver
       PROVE  FromPlugins!Next \/ UNCHANGED FromPlugins!vars
  <2> DEFINE c == gcd[1].id
  <2>1. /\ UNCHANGED <<input, sentVars, nativeInbox, replied, excused>>
        /\ c \in Ids(gcd, Calls) /\ gcd[1].name = nativeSent[c].name
        /\ Ids(gcd', Calls) = Ids(gcd, Calls) \ {c}
        /\ \/ Ids(jsInbox', Calls) = Ids(jsInbox, Calls) \cup {c}
           \/ Ids(jsInbox', Calls) = Ids(jsInbox, Calls) /\ bridgeList[gcd[1].name] = None
    BY <1>12, GcdDeliverMoves
  <2> HIDE DEF c
  <2>2. c \in NativeOpen /\ UNCHANGED nativeSent /\ NativeAnswered' = NativeAnswered
    BY <1>1, <1>2, <2>1 DEF sentVars
  <2>3. CASE Ids(jsInbox', Calls) = Ids(jsInbox, Calls) \cup {c}
    <3>1. NativeOpen' = NativeOpen
      BY <1>1, <1>3, <2>1, <2>3
    <3> QED BY <2>1, <2>2, <3>1, NativeUntouched
  <2>4. CASE Ids(jsInbox', Calls) = Ids(jsInbox, Calls) /\ bridgeList[gcd[1].name] = None
    <3>1. NativeOpen' = NativeOpen \ {c}
      BY <1>1, <1>3, <2>1, <2>4
    <3>2. c \in NativeExcusable
      BY <2>1, <2>2, <2>4, NativeEndsThere
    <3> QED BY <2>1, <2>2, <3>1, <3>2, NativeCallLost
  <2> QED BY <2>1, <2>3, <2>4
<1>13. ASSUME NEW i \in DOMAIN jsInbox, NEW cancel \in BOOLEAN, JSReply(i, cancel)
       PROVE  UNCHANGED FromPlugins!vars
  <2> DEFINE c == jsInbox[i].id
  <2>1. /\ UNCHANGED <<gcd, sentVars, jsInbox, nativeInbox, excused>>
        /\ c \in Ids(jsInbox, Calls) /\ replied' = replied \cup {c}
        /\ Ids(input', Returns) = Ids(input, Returns) \cup {c}
    BY <1>13, JSReplyMoves
  <2>2. c \notin replied
    BY <1>13 DEF JSReply
  <2> HIDE DEF c
  <2>3. NativeOpen' = NativeOpen
    BY <1>1, <2>1, <2>2
  <2> QED BY <1>2, <2>1, <2>3, NativeUntouched DEF sentVars
<1>14. ASSUME Register
       PROVE  FromPlugins!Next
  <2>1. UNCHANGED <<input, gcd, sentVars, jsInbox, nativeInbox, replied>> /\ excused \subseteq excused'
    BY <1>14, RegisterMoves
  <2> QED BY <1>1, <1>2, <2>1, NativeEndsChanged DEF sentVars
<1>15. ASSUME NEW n \in Names, NEW what \in Whats, JSSend(n, what)
       PROVE  UNCHANGED FromPlugins!vars
  <2>1. /\ UNCHANGED <<gcd, nativeSent, jsInbox, nativeInbox, replied, excused>>
        /\ Ids(input', Returns) = Ids(input, Returns)
    BY <1>15, JSSendMoves
  <2> QED BY <1>1, <1>2, <2>1, NativeUntouched
<1>16. ASSUME NEW p \in Plugins, NEW what \in Whats, NativeSend(p, what)
       PROVE  FromPlugins!Next
  <2> DEFINE c == Len(nativeSent) + 1
  <2>1. /\ UNCHANGED <<input, jsInbox, nativeInbox, replied, excused>>
        /\ Len(nativeSent') = c /\ \A j \in 1 .. Len(nativeSent) : nativeSent'[j] = nativeSent[j]
        /\ \/ Ids(gcd', Calls) = Ids(gcd, Calls) \cup {c}
           \/ Ids(gcd', Calls) = Ids(gcd, Calls) /\ ~nativeSent'[c].accepted
    BY <1>16, NativeSendMoves
  <2>2. \/ NativeOpen' = NativeOpen \cup {c}
        \/ NativeOpen' = NativeOpen /\ ~nativeSent'[c].accepted
    <3> HIDE DEF c
    <3> QED BY <1>1, <2>1
  <2> QED BY <1>2, <2>1, <2>2, NativeCallMade
<1>17. ASSUME UNCHANGED vars
       PROVE  UNCHANGED FromPlugins!vars
  BY <1>17, NativeUntouched DEF vars, sentVars, NativeOpen, NativeAnswered
<1>18. ASSUME NEW i \in DOMAIN input, IgnoreAnswer(i)
       PROVE  FromPlugins!Next
  <2> DEFINE c == input[i].id
  <2>1. /\ UNCHANGED <<gcd, sentVars, jsInbox, nativeInbox, replied>> /\ c \in Ids(input, Returns)
        /\ excused' = excused \cup {<<"native", c>>} /\ Ids(input', Returns) = Ids(input, Returns) \ {c}
    BY <1>18, IgnoreAnswerMoves
  <2> HIDE DEF c
  <2>2. /\ c \in NativeOpen /\ NativeOpen' = NativeOpen \ {c} /\ NativeAnswered' = NativeAnswered
        /\ UNCHANGED nativeSent
    BY <1>1, <1>2, <1>3, <2>1 DEF sentVars
  <2> QED BY <2>1, <2>2, NativeCallIgnored
<1> QED
  BY <1>4, <1>5, <1>6, <1>7, <1>8, <1>9, <1>10, <1>11, <1>12, <1>13, <1>14, <1>15, <1>16, <1>17,
     <1>18 DEF Next, InputStep, GcdStep, Replies, Send

\* What BridgeMessaging does with plugins' calls is what BridgeCalls allows: each of
\* callMethod's and sendMessage's is answered at most once, and goes unanswered only if
\* an end of the bridge changed meanwhile, or was not there when it was made, or the
\* answer came to a plugin without a delegate for it.
THEOREM PluginCallsAreKept == Spec => PluginCallsKept
<1>1. Init => FromPlugins!Init
  <2> SUFFICES ASSUME Init
               PROVE  FromPlugins!Init
    OBVIOUS
  <2>1. Len(nativeSent) = 0 /\ 1 .. Len(nativeSent) = {} /\ NativeAnswered = {}
    BY EmptySeq DEF Init, NativeAnswered, Ids
  <2> QED BY <2>1 DEF FromPlugins!Init, NativeLost, NativeExcusable
<1> QED BY <1>1, MessagingInv, PluginStep, PTL DEF Spec, PluginCallsKept, FromPlugins!Spec

-----------------------------------------------------------------------------
\* The operations of a serial queue begin in the order jsCallMethod and jsSendMessage
\* added them, however many plugins share the name in turn.
THEOREM SerialOrderHolds == Spec => []SerialOrder
<1>1. Inv => SerialOrder
  BY DEF Inv
<1> QED BY <1>1, MessagingInv, PTL

\* BridgeGCDTaskQueue keeps the order of what passes it, in both directions.
THEOREM DispatchOrderHolds == Spec => []DispatchOrder
<1>1. Inv => DispatchOrder
  BY DEF Inv, DispatchOrder
<1> QED BY <1>1, MessagingInv, PTL
=============================================================================
