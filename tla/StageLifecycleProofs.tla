------------------------ MODULE StageLifecycleProofs ------------------------
(***************************************************************************)
(* Proofs about StageLifecycle, for any controllers and abilities.         *)
(*                                                                         *)
(* First, what the operations of UIKit's stack return; then what a         *)
(* callback tells; then that each action keeps the inductive invariant.    *)
(***************************************************************************)
EXTENDS StageLifecycle, SequenceTheorems, TLAPS

-----------------------------------------------------------------------------
(* The stack. *)

\* s is a stack of some of S.
Stack(s, S) == s \in Seq(S) /\ IsInjective(s)

LEMMA StackBasics ==
  ASSUME NEW S, NEW s, Stack(s, S)
  PROVE  /\ Len(s) \in Nat /\ DOMAIN s = 1 .. Len(s) /\ \A k \in DOMAIN s : s[k] \in S
         /\ ToSet(s) \subseteq S
         /\ s = <<>> <=> Len(s) = 0
         /\ s # <<>> => Len(s) \in DOMAIN s /\ Last(s) \in ToSet(s) /\ Last(s) \in S
<1>1. s \in Seq(S)
  BY DEF Stack
<1>2. Len(s) \in Nat /\ DOMAIN s = 1 .. Len(s) /\ \A k \in DOMAIN s : s[k] \in S
  BY <1>1, LenProperties, ElementOfSeq
<1>3. s = <<>> <=> Len(s) = 0
  BY <1>1, EmptySeq
<1>4. ToSet(s) \subseteq S
  BY <1>2 DEF ToSet
<1>5. s # <<>> => Len(s) \in DOMAIN s
  BY <1>2, <1>3
<1> QED BY <1>2, <1>3, <1>4, <1>5 DEF ToSet, Last

LEMMA Pushed ==
  ASSUME NEW S, NEW s, Stack(s, S), NEW i \in S, i \notin ToSet(s)
  PROVE  LET t == Append(s, i) IN
         Stack(t, S) /\ t # <<>> /\ Last(t) = i /\ ToSet(t) = ToSet(s) \cup {i}
<1> DEFINE t == Append(s, i)
<1>1. /\ t \in Seq(S) /\ t # <<>> /\ Len(t) = Len(s) + 1 /\ t[Len(s) + 1] = i
      /\ \A k \in 1 .. Len(s) : t[k] = s[k]
  BY AppendProperties DEF Stack
<1>2. Len(s) \in Nat /\ DOMAIN s = 1 .. Len(s) /\ DOMAIN t = 1 .. Len(s) + 1
  BY <1>1, StackBasics, LenProperties
<1> HIDE DEF t
<1>3. Last(t) = i /\ ToSet(t) = ToSet(s) \cup {i}
  <2>1. Len(s) + 1 \in DOMAIN t /\ \A k \in DOMAIN t : k \in DOMAIN s \/ k = Len(s) + 1
    BY <1>2
  <2> QED BY <1>1, <1>2, <2>1 DEF Last, ToSet
<1>4. IsInjective(t)
  <2> SUFFICES ASSUME NEW k \in DOMAIN t, NEW l \in DOMAIN t, t[k] = t[l]
               PROVE  k = l
    BY DEF IsInjective
  <2>1. \A m \in DOMAIN s : s[m] # i
    BY DEF ToSet
  <2> QED BY <1>1, <1>2, <2>1 DEF Stack, IsInjective
<1> QED BY <1>1, <1>3, <1>4 DEF Stack, t

LEMMA Popped ==
  ASSUME NEW S, NEW s, Stack(s, S), Len(s) > 1
  PROVE  LET t == Front(s) IN
         /\ Stack(t, S) /\ t # <<>> /\ ToSet(t) \subseteq ToSet(s)
         /\ Last(s) \notin ToSet(t) /\ Last(t) # Last(s)
<1> DEFINE t == Front(s)
<1>1. Len(s) \in Nat /\ DOMAIN s = 1 .. Len(s) /\ \A k \in DOMAIN s : s[k] \in S
  BY StackBasics
<1>2. t \in Seq(S) /\ Len(t) = Len(s) - 1 /\ \A k \in 1 .. Len(s) - 1 : t[k] = s[k]
  <2>1. 1 \in Int /\ Len(s) - 1 \in Int /\ \A k \in 1 .. Len(s) - 1 : s[k] \in S
    BY <1>1
  <2>2. /\ t \in Seq(S)
        /\ Len(t) = IF 1 <= Len(s) - 1 THEN (Len(s) - 1) - 1 + 1 ELSE 0
        /\ \A k \in 1 .. (Len(s) - 1) - 1 + 1 : t[k] = s[1 + k - 1]
    BY <2>1, SubSeqProperties DEF Front
  <2>3. (Len(s) - 1) - 1 + 1 = Len(s) - 1 /\ 1 <= Len(s) - 1
    BY <1>1
  <2>4. \A k \in 1 .. Len(s) - 1 : 1 + k - 1 = k
    BY <1>1
  <2> HIDE DEF t
  <2> QED BY <2>2, <2>3, <2>4
<1>3. DOMAIN t = 1 .. Len(s) - 1
  BY <1>2, LenProperties
<1> HIDE DEF t
<1>4. Stack(t, S)
  BY <1>1, <1>2, <1>3 DEF Stack, IsInjective
<1>5. t # <<>> /\ Last(t) \in ToSet(t)
  BY <1>1, <1>2, <1>4, StackBasics
<1>6. ToSet(t) \subseteq ToSet(s)
  BY <1>1, <1>2, <1>3 DEF ToSet
<1>7. Last(s) \notin ToSet(t)
  BY <1>1, <1>2, <1>3 DEF ToSet, Last, Stack, IsInjective
<1>8. Last(t) # Last(s)
  BY <1>5, <1>7
<1> QED BY <1>4, <1>5, <1>6, <1>7, <1>8 DEF t

LEMMA Removed ==
  ASSUME NEW S, NEW s, Stack(s, S), NEW i \in DOMAIN s
  PROVE  LET t == RemoveAt(s, i) IN
         Stack(t, S) /\ ToSet(t) \subseteq ToSet(s) /\ s[i] \notin ToSet(t)
<1> DEFINE a == SubSeq(s, 1, i - 1)
           b == SubSeq(s, i + 1, Len(s))
           t == a \o b
<1>1. i \in 1 .. Len(s) /\ Len(s) \in Nat /\ DOMAIN s = 1 .. Len(s) /\ \A k \in DOMAIN s : s[k] \in S
  BY StackBasics
<1>2. a \in Seq(S) /\ Len(a) = i - 1 /\ \A k \in 1 .. i - 1 : a[k] = s[k]
  <2>1. 1 \in Int /\ i - 1 \in Int /\ \A k \in 1 .. i - 1 : s[k] \in S
    BY <1>1
  <2>2. /\ a \in Seq(S)
        /\ Len(a) = IF 1 <= i - 1 THEN (i - 1) - 1 + 1 ELSE 0
        /\ \A k \in 1 .. (i - 1) - 1 + 1 : a[k] = s[1 + k - 1]
    BY <2>1, SubSeqProperties
  <2> QED BY <1>1, <2>2
<1>3. b \in Seq(S) /\ Len(b) = Len(s) - i /\ \A k \in 1 .. Len(s) - i : b[k] = s[i + k]
  <2>1. i + 1 \in Int /\ Len(s) \in Int /\ \A k \in i + 1 .. Len(s) : s[k] \in S
    BY <1>1
  <2>2. /\ b \in Seq(S)
        /\ Len(b) = IF i + 1 <= Len(s) THEN Len(s) - (i + 1) + 1 ELSE 0
        /\ \A k \in 1 .. Len(s) - (i + 1) + 1 : b[k] = s[(i + 1) + k - 1]
    BY <2>1, SubSeqProperties, SMTT(30)
  <2> QED BY <1>1, <2>2
<1> HIDE DEF a, b
<1>4. /\ t \in Seq(S)
      /\ DOMAIN t = 1 .. Len(s) - 1
      /\ \A k \in 1 .. Len(s) - 1 : t[k] = IF k < i THEN a[k] ELSE b[k - (i - 1)]
  <2>1. /\ t \in Seq(S)
        /\ Len(t) = Len(a) + Len(b)
        /\ \A k \in 1 .. Len(a) + Len(b) : t[k] = IF k <= Len(a) THEN a[k] ELSE b[k - Len(a)]
    BY <1>2, <1>3, ConcatProperties
  <2> HIDE DEF t
  <2>2. Len(a) + Len(b) = Len(s) - 1 /\ Len(a) = i - 1
    BY <1>1, <1>2, <1>3
  <2>3. DOMAIN t = 1 .. Len(s) - 1
    BY <2>1, <2>2, LenProperties
  <2> QED BY <1>1, <2>1, <2>2, <2>3
<1> HIDE DEF t
<1> DEFINE K(k) == IF k < i THEN k ELSE k + 1
<1>5. \A k \in DOMAIN t : t[k] = s[K(k)] /\ K(k) \in DOMAIN s /\ K(k) # i
  <2> SUFFICES ASSUME NEW k \in 1 .. Len(s) - 1
               PROVE  t[k] = s[K(k)] /\ K(k) \in DOMAIN s /\ K(k) # i
    BY <1>4
  <2>1. CASE k < i
    <3>1. k \in 1 .. i - 1
      BY <1>1, <2>1
    <3>2. t[k] = s[k]
      BY <1>2, <1>4, <2>1, <3>1
    <3> QED BY <1>1, <2>1, <3>2
  <2>2. CASE ~(k < i)
    <3>1. k - (i - 1) \in 1 .. Len(s) - i /\ i + (k - (i - 1)) = k + 1
      BY <1>1, <2>2
    <3>2. t[k] = s[k + 1]
      BY <1>3, <1>4, <2>2, <3>1
    <3> QED BY <1>1, <2>2, <3>2
  <2> QED BY <2>1, <2>2
<1>6. \A k, l \in DOMAIN t : K(k) = K(l) => k = l
  BY <1>1, <1>4
<1> HIDE DEF K
<1>7. Stack(t, S)
  BY <1>4, <1>5, <1>6 DEF Stack, IsInjective
<1>8. ToSet(t) \subseteq ToSet(s) /\ s[i] \notin ToSet(t)
  BY <1>5 DEF Stack, IsInjective, ToSet
<1> QED BY <1>7, <1>8 DEF RemoveAt, t, a, b

LEMMA Exchanged ==
  ASSUME NEW S, NEW s, Stack(s, S), NEW k \in DOMAIN s, NEW l \in DOMAIN s
  PROVE  LET t == Exchange(s, k, l) IN
         Stack(t, S) /\ ToSet(t) \subseteq ToSet(s) /\ (s # <<>> => t # <<>>)
<1> DEFINE t == Exchange(s, k, l)
<1>1. DOMAIN t = DOMAIN s
  BY DEF Exchange
<1>2. \A m \in DOMAIN s : t[m] = IF m = l THEN s[k] ELSE IF m = k THEN s[l] ELSE s[m]
  BY DEF Exchange
<1>3. Len(s) \in Nat /\ DOMAIN s = 1 .. Len(s) /\ \A m \in DOMAIN s : s[m] \in S
  BY StackBasics
<1>4. t \in [1 .. Len(s) -> S]
  BY <1>3 DEF Exchange
<1>5. t \in Seq(S)
  <2> HIDE DEF t
  <2> QED BY <1>3, <1>4, IsASeq
<1> HIDE DEF t
<1>6. IsInjective(t)
  BY <1>1, <1>2 DEF Stack, IsInjective
<1>7. ToSet(t) \subseteq ToSet(s)
  BY <1>1, <1>2 DEF ToSet
<1>8. s # <<>> => t # <<>>
  BY <1>1, <1>3, <1>5, StackBasics, EmptySeq, LenProperties
<1> QED BY <1>5, <1>6, <1>7, <1>8 DEF Stack, t

-----------------------------------------------------------------------------
(* What a callback tells: c is what all controllers keep before it, d then. *)

Kept == [Controllers -> Controller]

\* d is c but for what i keeps.
Only(c, d, i) == d \in Kept /\ \A j \in Controllers : j # i => d[j] = c[j]

LEMMA Told ==
  ASSUME NEW c \in Kept, NEW i \in Controllers, NEW what \in {"foreground", "background", "destroyed"}
  PROVE  LET d == Tell(c, i, what) IN
         /\ Only(c, d, i)
         /\ d[i].windows = c[i].windows /\ d[i].needOnForeground = c[i].needOnForeground
         /\ d[i].ability = IF c[i].ability = "destroyed" THEN "destroyed" ELSE what
BY DEF Kept, Only, Controller, Tell

LEMMA Disappeared ==
  ASSUME NEW c \in Kept, NEW i \in Controllers
  PROVE  LET d == ViewDidDisappear(c, i) IN
         /\ Only(c, d, i)
         /\ ~d[i].windows /\ d[i].needOnForeground = c[i].needOnForeground
         /\ d[i].ability = IF c[i].ability = "destroyed" THEN "destroyed" ELSE "background"
<1> DEFINE e == Tell(c, i, "background")
<1>1. /\ Only(c, e, i) /\ e[i].needOnForeground = c[i].needOnForeground
      /\ e[i].ability = IF c[i].ability = "destroyed" THEN "destroyed" ELSE "background"
  BY Told
<1> HIDE DEF e
<1> DEFINE d == [e EXCEPT ![i].windows = FALSE]
<1>2. /\ Only(c, d, i) /\ ~d[i].windows
      /\ d[i].needOnForeground = e[i].needOnForeground /\ d[i].ability = e[i].ability
  BY <1>1 DEF Kept, Only, Controller
<1>3. ViewDidDisappear(c, i) = d
  BY DEF ViewDidDisappear, e
<1> HIDE DEF d
<1> QED BY <1>1, <1>2, <1>3

LEMMA WillAppear ==
  ASSUME NEW c \in Kept, NEW i \in Controllers
  PROVE  LET d == ViewWillAppear(c, i) IN
         /\ Only(c, d, i)
         /\ d[i].windows /\ d[i].needOnForeground
         /\ d[i].ability = IF c[i].ability # "destroyed" /\ c[i].needOnForeground THEN "foreground"
                           ELSE c[i].ability
<1> DEFINE e == IF c[i].needOnForeground THEN Tell(c, i, "foreground") ELSE c
<1>1. /\ Only(c, e, i)
      /\ e[i].ability = IF c[i].ability # "destroyed" /\ c[i].needOnForeground THEN "foreground"
                        ELSE c[i].ability
  <2>1. CASE c[i].needOnForeground
    BY <2>1, Told
  <2>2. CASE ~c[i].needOnForeground
    BY <2>2 DEF Only
  <2> QED BY <2>1, <2>2
<1> HIDE DEF e
<1> DEFINE d == [e EXCEPT ![i].needOnForeground = TRUE, ![i].windows = TRUE]
<1>2. Only(c, d, i) /\ d[i].windows /\ d[i].needOnForeground /\ d[i].ability = e[i].ability
  <2> DEFINE x == [e[i] EXCEPT !.needOnForeground = TRUE, !.windows = TRUE]
  <2>1. e \in Kept /\ e[i] \in Controller
    BY <1>1 DEF Only, Kept
  <2>2. d = [e EXCEPT ![i] = x]
    BY <2>1 DEF Kept
  <2>3. x \in Controller /\ x.windows /\ x.needOnForeground /\ x.ability = e[i].ability
    BY <2>1 DEF Controller
  <2> HIDE DEF x, d
  <2>4. d \in Kept /\ d[i] = x /\ \A j \in Controllers : j # i => d[j] = e[j]
    BY <2>1, <2>2, <2>3 DEF Kept
  <2> QED BY <1>1, <2>3, <2>4 DEF Only
<1>3. ViewWillAppear(c, i) = d
  BY DEF ViewWillAppear, e
<1> HIDE DEF d
<1> QED BY <1>1, <1>2, <1>3

-----------------------------------------------------------------------------
(* The actions. *)

LEMMA Basics ==
  ASSUME TypeOK
  PROVE  /\ Stack(stack, Controllers) /\ ToSet(stack) \subseteq Controllers
         /\ stack # <<>> => Top \in ToSet(stack) /\ Top \in Controllers
         /\ Leaving \subseteq Controllers /\ removed \subseteq Controllers
         /\ ctl \in Kept
<1>1. Stack(stack, Controllers)
  BY DEF TypeOK, Stack
<1>2. Leaving \subseteq Controllers
  BY DEF TypeOK, Leaving, Settled, Transition
<1> QED BY <1>1, <1>2, StackBasics DEF TypeOK, Top, Kept

\* Another stack, with what the controllers of it were told before: c may tell a new
\* controller on top of it OnForeground, and others their end.
LEMMA SetKeeps ==
  ASSUME Inv, Settled, cover = "none",
         NEW s, Stack(s, Controllers), NEW kind \in {"plain", "swipe"}, NEW c \in Kept,
         \A j \in Controllers :
           /\ c[j].windows = ctl[j].windows /\ c[j].needOnForeground = ctl[j].needOnForeground
           /\ \/ c[j].ability = ctl[j].ability
              \/ c[j].ability = "destroyed" /\ ctl[j].ability # "none"
              \/ ctl[j].ability = "none" /\ c[j].ability = "foreground" /\ s # <<>> /\ j = Last(s),
         \A j \in ToSet(s) :
           \/ j \in ToSet(stack)
           \/ ctl[j].ability = "none" /\ c[j].ability = "foreground" /\ j = Last(s),
         kind = "swipe" => stack # <<>> /\ s # <<>> /\ Top \notin ToSet(s),
         stack' = s,
         ctl' = IF s # <<>> /\ (stack = <<>> \/ Last(s) # Top) THEN ViewWillAppear(c, Last(s)) ELSE c,
         transition' = IF stack # <<>> /\ (s = <<>> \/ Last(s) # Top)
                       THEN [kind |-> kind, from |-> Top] ELSE transition,
         removed' = removed \cup ((ToSet(stack) \ ToSet(s)) \ (IF stack # <<>> /\ (s = <<>> \/ Last(s) # Top)
                                                              THEN {Top} ELSE {})),
         UNCHANGED <<cover, app, isOnBackground>>, terminating' \subseteq terminating
  PROVE  Inv'
<1> DEFINE coming == s # <<>> /\ (stack = <<>> \/ Last(s) # Top)
           leaving == stack # <<>> /\ (s = <<>> \/ Last(s) # Top)
<1>1. /\ TypeOK /\ Transitions /\ Appeared /\ OthersBehind /\ TopBefore
      /\ Leaving = {} /\ transition = NoTransition
  BY DEF Inv, Leaving, Settled
<1>2. /\ Stack(stack, Controllers) /\ ToSet(stack) \subseteq Controllers
      /\ stack # <<>> => Top \in ToSet(stack) /\ Top \in Controllers
      /\ removed \subseteq Controllers \ ToSet(stack)
  BY <1>1, Basics DEF TypeOK
<1>3. /\ ToSet(s) \subseteq Controllers
      /\ s # <<>> => Last(s) \in ToSet(s) /\ Last(s) \in Controllers
  BY StackBasics
<1>4. /\ ctl' \in Kept
      /\ \A j \in Controllers : ~(coming /\ j = Last(s)) => ctl'[j] = c[j]
      /\ coming => /\ ctl'[Last(s)].windows /\ ctl'[Last(s)].needOnForeground
                   /\ ctl'[Last(s)].ability =
                        IF c[Last(s)].ability # "destroyed" /\ c[Last(s)].needOnForeground
                        THEN "foreground" ELSE c[Last(s)].ability
  <2>1. CASE coming
    <3>1. ctl' = ViewWillAppear(c, Last(s)) /\ Last(s) \in Controllers
      BY <1>3, <2>1
    <3> QED BY <2>1, <3>1, WillAppear DEF Only
  <2>2. CASE ~coming
    BY <2>2
  <2> QED BY <2>1, <2>2
<1>5. /\ transition' = IF leaving THEN [kind |-> kind, from |-> Top] ELSE NoTransition
      /\ removed' = removed \cup ((ToSet(stack) \ ToSet(s)) \ (IF leaving THEN {Top} ELSE {}))
  BY <1>1
<1>6. /\ leaving => ~Settled' /\ Leaving' = {Top}
      /\ ~leaving => Settled' /\ Leaving' = {}
  BY <1>5 DEF Settled, Leaving, NoTransition
<1>7. \A j \in Controllers : OnTop(j)' <=> s # <<>> /\ j = Last(s)
  BY DEF OnTop, Top
<1>8. \A j \in ToSet(s) : j \in ToSet(stack) \/ ctl[j].ability = "none"
  OBVIOUS
<1>9. coming \/ s = <<>> \/ (stack # <<>> /\ Last(s) = Top)
  OBVIOUS
<1>10. leaving \/ stack = <<>> \/ (s # <<>> /\ Last(s) = Top)
  OBVIOUS
<1>11. leaving => stack # <<>> /\ (s = <<>> \/ Last(s) # Top)
  OBVIOUS
<1>12. coming => s # <<>>
  OBVIOUS
<1> HIDE DEF coming, leaving
<1>13. \A j \in removed : ctl[j].ability # "none" /\ j \notin ToSet(stack)
  BY <1>1, <1>2 DEF Appeared
<1>14. TypeOK'
  <2>1. stack' \in Seq(Controllers) /\ IsInjective(stack')
    BY DEF Stack
  <2>2. transition' \in Transition \cup {NoTransition}
    BY <1>2, <1>5, <1>11 DEF Transition
  <2>3. removed' \subseteq Controllers \ ToSet(stack')
    BY <1>2, <1>5, <1>8, <1>13
  <2>4. ctl' \in [Controllers -> Controller]
    BY <1>4 DEF Kept
  <2> QED BY <1>1, <2>1, <2>2, <2>3, <2>4 DEF TypeOK
<1>15. Transitions'
  <2>1. \A j \in Leaving' : ~OnTop(j)' /\ j \notin removed'
    BY <1>2, <1>5, <1>6, <1>7, <1>11
  <2>2. ~Settled' /\ transition'.kind = "swipe" => transition'.from \notin ToSet(stack') /\ stack' # <<>>
    BY <1>5, <1>6
  <2> QED BY <1>1, <2>1, <2>2 DEF Transitions
<1>16. Appeared'
  <2>1. ASSUME NEW j \in Controllers
        PROVE  ctl'[j].ability = "none" <=> ~ctl'[j].needOnForeground
    <3>1. CASE coming /\ j = Last(s)
      BY <1>1, <1>2, <1>3, <1>4, <1>12, <3>1 DEF Appeared
    <3>2. CASE ~(coming /\ j = Last(s))
      BY <1>1, <1>2, <1>4, <1>9, <3>2 DEF Appeared
    <3> QED BY <3>1, <3>2
  <2>2. \A j \in ToSet(s) \cup Leaving' \cup removed' \cup terminating' : ctl[j].ability # "none" \/ j \in ToSet(s)
    BY <1>1, <1>2, <1>5, <1>6, <1>11 DEF Appeared
  <2>3. \A j \in ToSet(s) \cup Leaving' \cup removed' \cup terminating' : j \in Controllers
    BY <1>1, <1>2, <1>3, <1>5, <1>6, <1>11 DEF TypeOK
  <2>4. \A j \in Controllers : ctl[j].ability # "none" \/ j \in ToSet(s) => ctl'[j].ability # "none"
    <3> SUFFICES ASSUME NEW j \in Controllers, ctl[j].ability # "none" \/ j \in ToSet(s)
                 PROVE  ctl'[j].ability # "none"
      OBVIOUS
    <3>1. c[j].ability # "none"
      BY <1>1 DEF Appeared
    <3> QED BY <1>4, <3>1
  <2> QED BY <2>1, <2>2, <2>3, <2>4 DEF Appeared
<1>17. OthersBehind'
  <2> SUFFICES ASSUME NEW j \in Controllers, ~OnTop(j)', j \notin Leaving'
               PROVE  ctl'[j].ability # "foreground" /\ ~ctl'[j].windows
    BY DEF OthersBehind
  <2>1. ctl'[j] = c[j]
    BY <1>4, <1>7, <1>12
  <2>2. ~OnTop(j)
    BY <1>6, <1>7, <1>10 DEF OnTop
  <2>3. ctl[j].ability # "foreground" /\ ~ctl[j].windows
    BY <1>1, <2>2 DEF OthersBehind
  <2> QED BY <1>7, <2>1, <2>3
<1>18. TopBefore'
  <2> SUFFICES ASSUME NEW j \in Controllers, s # <<>>, j = Last(s)
               PROVE  app = "foreground" => ctl'[j].ability \in {"foreground", "destroyed"} /\ ctl'[j].windows
    BY <1>7 DEF TopBefore
  <2>1. CASE coming
    <3>1. ctl[j].ability # "none" \/ c[j].ability = "foreground"
      BY <1>1, <1>2, <1>3 DEF Appeared
    <3> QED BY <1>1, <1>4, <2>1, <3>1 DEF Appeared
  <2>2. CASE ~coming
    <3>1. OnTop(j) /\ ctl'[j] = c[j]
      BY <1>4, <1>9, <2>2 DEF OnTop
    <3>2. ctl[j].ability # "none"
      BY <1>1, <1>2, <3>1 DEF Appeared, OnTop
    <3>3. app = "foreground" => ctl[j].ability \in {"foreground", "destroyed"} /\ ctl[j].windows
      BY <1>1, <3>1 DEF TopBefore
    <3> QED BY <3>1, <3>2, <3>3
  <2> QED BY <2>1, <2>2
<1> QED BY <1>14, <1>15, <1>16, <1>17, <1>18 DEF Inv

\* What SetViewControllers does, and nothing else but that blocks of TerminateSelf end.
LEMMA PushKeeps ==
  ASSUME Inv, NEW i \in Controllers, Push(i)
  PROVE  Inv'
<1>1. TypeOK /\ i \notin ToSet(stack) /\ ctl[i].ability = "none"
  BY DEF Inv, Appeared, Push
<1>2. Stack(stack, Controllers) /\ ctl \in Kept
  BY <1>1, Basics
<1> DEFINE s == Append(stack, i)
           c == ViewDidLoad(ctl, i)
<1>3. Stack(s, Controllers) /\ s # <<>> /\ Last(s) = i /\ ToSet(s) = ToSet(stack) \cup {i}
  BY <1>1, <1>2, Pushed
<1>4. /\ c \in Kept /\ \A j \in Controllers : j # i => c[j] = ctl[j]
      /\ c[i].windows = ctl[i].windows /\ c[i].needOnForeground = ctl[i].needOnForeground
      /\ c[i].ability = "foreground"
  BY <1>1, <1>2, Told DEF ViewDidLoad, Only
<1>5. SetViewControllers(s, c, "plain") /\ Settled /\ cover = "none" /\ UNCHANGED <<cover, app, isOnBackground, terminating>>
  BY DEF Push
<1> HIDE DEF s, c
<1> QED BY <1>1, <1>3, <1>4, <1>5, SetKeeps DEF SetViewControllers

\* Other controllers' order, or fewer of them, and nobody told anything but an end.
LEMMA OrderKeeps ==
  ASSUME Inv, Settled, cover = "none",
         NEW s, Stack(s, Controllers), ToSet(s) \subseteq ToSet(stack),
         NEW kind \in {"plain", "swipe"},
         kind = "swipe" => stack # <<>> /\ s # <<>> /\ Top \notin ToSet(s),
         NEW c, c = ctl \/ (\E i \in terminating : c = Tell(ctl, i, "destroyed")),
         SetViewControllers(s, c, kind),
         UNCHANGED <<cover, app, isOnBackground>>, terminating' \subseteq terminating
  PROVE  Inv'
<1>1. ctl \in Kept /\ terminating \subseteq Controllers
  BY Basics DEF Inv, TypeOK
<1>2. /\ c \in Kept
      /\ \A j \in Controllers :
           /\ c[j].windows = ctl[j].windows /\ c[j].needOnForeground = ctl[j].needOnForeground
           /\ \/ c[j].ability = ctl[j].ability
              \/ c[j].ability = "destroyed" /\ ctl[j].ability # "none"
  <2>1. CASE c = ctl
    BY <1>1, <2>1
  <2>2. CASE \E i \in terminating : c = Tell(ctl, i, "destroyed")
    <3> PICK i \in terminating : c = Tell(ctl, i, "destroyed")
      BY <2>2
    <3>1. ctl[i].ability # "none" /\ i \in Controllers
      BY <1>1 DEF Inv, Appeared
    <3>2. /\ Only(ctl, c, i) /\ c[i].windows = ctl[i].windows
          /\ c[i].needOnForeground = ctl[i].needOnForeground /\ c[i].ability = "destroyed"
      BY <1>1, <3>1, Told
    <3> QED BY <3>1, <3>2 DEF Only
  <2> QED BY <2>1, <2>2
<1> QED BY <1>2, SetKeeps DEF SetViewControllers

LEMMA PopKeeps ==
  ASSUME Inv, NEW kind \in {"plain", "swipe"}, Pop(kind)
  PROVE  Inv'
<1>1. /\ Stack(stack, Controllers) /\ Len(stack) > 1 /\ Settled /\ cover = "none"
      /\ SetViewControllers(Front(stack), ctl, kind) /\ UNCHANGED <<cover, app, isOnBackground, terminating>>
  BY Basics DEF Inv, Pop, StageOnTop
<1>2. /\ Stack(Front(stack), Controllers) /\ Front(stack) # <<>> /\ ToSet(Front(stack)) \subseteq ToSet(stack)
      /\ Top \notin ToSet(Front(stack)) /\ stack # <<>>
  <2>1. stack # <<>>
    BY <1>1, StackBasics
  <2>2. /\ Stack(Front(stack), Controllers) /\ Front(stack) # <<>> /\ ToSet(Front(stack)) \subseteq ToSet(stack)
        /\ Last(stack) \notin ToSet(Front(stack))
    BY <1>1, Popped
  <2> QED BY <2>1, <2>2 DEF Top
<1> QED BY <1>1, <1>2, OrderKeeps

LEMMA HandleSingletonKeeps ==
  ASSUME Inv, NEW a \in Abilities, HandleSingleton(a)
  PROVE  Inv'
<1>1. PICK k \in DOMAIN stack : SetViewControllers(Append(RemoveAt(stack, k), stack[k]), ctl, "plain")
  BY DEF HandleSingleton
<1>2. Stack(stack, Controllers) /\ stack[k] \in Controllers /\ stack[k] \in ToSet(stack)
  BY Basics, StackBasics DEF Inv, ToSet
<1> DEFINE r == RemoveAt(stack, k)
           s == Append(r, stack[k])
<1>3. Stack(r, Controllers) /\ ToSet(r) \subseteq ToSet(stack) /\ stack[k] \notin ToSet(r)
  BY <1>2, Removed
<1> HIDE DEF r
<1>4. Stack(s, Controllers) /\ ToSet(s) \subseteq ToSet(stack)
  BY <1>2, <1>3, Pushed
<1>5. Settled /\ cover = "none" /\ UNCHANGED <<cover, app, isOnBackground, terminating>>
  BY DEF HandleSingleton, StageOnTop
<1>6. SetViewControllers(s, ctl, "plain")
  BY <1>1 DEF r
<1> HIDE DEF s
<1> QED BY <1>4, <1>5, <1>6, OrderKeeps

LEMMA DoAbilityKeeps ==
  ASSUME Inv, NEW i \in Controllers, DoAbilityForeground(i) \/ DoAbilityBackground(i)
  PROVE  Inv'
<1>1. Stack(stack, Controllers) /\ Len(stack) \in Nat /\ DOMAIN stack = 1 .. Len(stack)
  BY Basics, StackBasics DEF Inv
<1>2. \E k, l \in DOMAIN stack : SetViewControllers(Exchange(stack, k, l), ctl, "plain")
  <2>1. CASE DoAbilityForeground(i)
    <3> DEFINE k == IF Contains(stack, i) THEN CHOOSE j \in DOMAIN stack : stack[j] = i ELSE 1
    <3>1. k \in DOMAIN stack /\ Len(stack) \in DOMAIN stack
      BY <1>1, <2>1 DEF DoAbilityForeground, Contains
    <3>2. SetViewControllers(Exchange(stack, k, Len(stack)), ctl, "plain")
      BY <2>1 DEF DoAbilityForeground
    <3> HIDE DEF k
    <3> QED BY <3>1, <3>2
  <2>2. CASE DoAbilityBackground(i)
    <3>1. Len(stack) \in DOMAIN stack /\ Len(stack) - 1 \in DOMAIN stack
      BY <1>1, <2>2 DEF DoAbilityBackground
    <3> QED BY <2>2, <3>1 DEF DoAbilityBackground
  <2> QED BY <2>1, <2>2
<1>3. Settled /\ cover = "none" /\ UNCHANGED <<cover, app, isOnBackground, terminating>>
  BY DEF DoAbilityForeground, DoAbilityBackground, StageOnTop
<1>4. PICK k \in DOMAIN stack, l \in DOMAIN stack : SetViewControllers(Exchange(stack, k, l), ctl, "plain")
  BY <1>2
<1> DEFINE s == Exchange(stack, k, l)
<1>5. Stack(s, Controllers) /\ ToSet(s) \subseteq ToSet(stack)
  BY <1>1, Exchanged
<1> HIDE DEF s
<1>6. SetViewControllers(s, ctl, "plain")
  BY <1>4 DEF s
<1> QED BY <1>3, <1>5, <1>6, OrderKeeps

\* An ability is told its end, and its windows perhaps that they are in the background.
LEMMA EndKeeps ==
  ASSUME Inv, NEW i \in Controllers, ctl[i].ability # "none",
         Only(ctl, ctl', i), ctl'[i].needOnForeground = ctl[i].needOnForeground,
         ctl'[i].windows = ctl[i].windows \/ (~ctl'[i].windows /\ ~OnTop(i)),
         ctl'[i].ability = "destroyed",
         UNCHANGED <<stack, transition, cover, app, isOnBackground>>, removed' \subseteq removed,
         terminating' \subseteq terminating
  PROVE  Inv'
<1>1. TypeOK /\ Transitions /\ Appeared /\ OthersBehind /\ TopBefore
  BY DEF Inv
<1>2. /\ \A j \in Controllers : j # i => ctl'[j] = ctl[j]
      /\ ctl' \in [Controllers -> Controller]
  BY DEF Only, Kept
<1>3. Leaving' = Leaving /\ \A j : OnTop(j)' = OnTop(j)
  BY DEF Leaving, Settled, OnTop, Top
<1>4. TypeOK'
  BY <1>1, <1>2 DEF TypeOK
<1>5. Transitions'
  BY <1>1, <1>3 DEF Transitions, Settled
<1>6. Appeared'
  <2>1. \A j \in ToSet(stack) \cup Leaving \cup removed \cup terminating : j \in Controllers
    BY <1>1, Basics DEF TypeOK
  <2> QED BY <1>1, <1>2, <1>3, <2>1 DEF Appeared
<1>7. OthersBehind' /\ TopBefore'
  BY <1>1, <1>2, <1>3 DEF OthersBehind, TopBefore
<1> QED BY <1>4, <1>5, <1>6, <1>7 DEF Inv

LEMMA TerminateKeeps ==
  ASSUME Inv, NEW i \in Controllers, Terminate(i)
  PROVE  Inv'
<1> DEFINE found == {k \in DOMAIN stack : stack[k] \in containing[i]}
           ended == IF Len(stack) = 1 THEN Tell(ctl, i, "destroyed") ELSE ctl
<1>1. /\ TypeOK /\ Transitions /\ Appeared /\ OthersBehind /\ TopBefore
      /\ Stack(stack, Controllers) /\ ctl \in Kept /\ (stack # <<>> => Top \in Controllers /\ Top \in ToSet(stack))
  BY Basics DEF Inv
<1>2. i \in terminating /\ terminating' = terminating \ {i} /\ UNCHANGED <<app, isOnBackground>>
  BY DEF Terminate
<1>3. ended = ctl \/ (\E j \in terminating : ended = Tell(ctl, j, "destroyed"))
  BY <1>2
<1>4. CASE cover = "none" /\ stack # <<>> /\ Top = i /\ Len(stack) > 1
  <2>1. Settled /\ SetViewControllers(Front(stack), ended, "plain") /\ UNCHANGED cover
    BY <1>4 DEF Terminate
  <2>2. Stack(Front(stack), Controllers) /\ ToSet(Front(stack)) \subseteq ToSet(stack)
    BY <1>1, <1>4, Popped
  <2> HIDE DEF ended
  <2> QED BY <1>2, <1>3, <1>4, <2>1, <2>2, OrderKeeps
<1>5. CASE cover = "none" /\ (stack = <<>> \/ Top # i) /\ found # {}
  <2>1. Settled /\ (\E k \in found : SetViewControllers(RemoveAt(stack, k), ended, "plain")) /\ UNCHANGED cover
    BY <1>5 DEF Terminate
  <2>2. PICK k \in DOMAIN stack : SetViewControllers(RemoveAt(stack, k), ended, "plain")
    BY <2>1
  <2>3. Stack(RemoveAt(stack, k), Controllers) /\ ToSet(RemoveAt(stack, k)) \subseteq ToSet(stack)
    BY <1>1, Removed
  <2> HIDE DEF ended
  <2> QED BY <1>2, <1>3, <1>5, <2>1, <2>2, <2>3, OrderKeeps
<1>6. CASE cover # "none"
  <2> DEFINE told == Tell(ctl, i, "destroyed")
  <2>1. /\ ctl' = (IF cover = "full" THEN ViewWillAppear(told, Top) ELSE told)
        /\ cover' = "none" /\ UNCHANGED <<stack, transition, removed>>
    BY <1>6 DEF Terminate
  <2>2. Only(ctl, told, i) /\ told[i].windows = ctl[i].windows
        /\ told[i].needOnForeground = ctl[i].needOnForeground /\ told[i].ability = "destroyed"
    BY <1>1, Told
  <2>3. stack # <<>> /\ Top \in Controllers /\ Leaving = {}
    BY <1>1, <1>2, <1>6 DEF Transitions, Leaving
  <2>4. ctl[i].ability # "none" /\ ctl[Top].ability # "none" /\ ctl[Top].needOnForeground
    BY <1>1, <1>2, <2>3 DEF Appeared
  <2> HIDE DEF told
  <2>5. /\ Only(told, ctl', Top)
        /\ cover = "full" => /\ ctl'[Top].windows /\ ctl'[Top].needOnForeground
                             /\ ctl'[Top].ability = IF told[Top].ability # "destroyed" /\ told[Top].needOnForeground
                                                    THEN "foreground" ELSE told[Top].ability
        /\ cover # "full" => ctl' = told
    <3>1. CASE cover = "full"
      <4>1. ctl' = ViewWillAppear(told, Top) /\ told \in Kept
        BY <2>1, <2>2, <3>1 DEF Only
      <4> QED BY <2>3, <3>1, <4>1, WillAppear
    <3>2. CASE cover # "full"
      BY <2>1, <2>2, <3>2 DEF Only
    <3> QED BY <3>1, <3>2
  <2>6. cover = "full" \/ cover = "sheet"
    BY <1>1, <1>6 DEF TypeOK
  <2>7. \A j \in Controllers : OnTop(j)' <=> j = Top
    BY <2>1, <2>3 DEF OnTop, Top
  <2>8. TypeOK' /\ Transitions' /\ Leaving' = {}
    <3>1. TypeOK'
      BY <1>1, <1>2, <2>1, <2>5 DEF TypeOK, Only, Kept
    <3>2. Transitions' /\ Leaving' = {}
      BY <1>1, <1>2, <2>1, <2>3 DEF Transitions, Leaving, Settled
    <3> QED BY <3>1, <3>2
  <2>9. Appeared'
    <3>1. \A j \in Controllers : ctl'[j].needOnForeground <=> ctl[j].needOnForeground
      BY <2>2, <2>3, <2>4, <2>5 DEF Only
    <3>2. \A j \in Controllers : ctl'[j].ability = "none" <=> ctl[j].ability = "none"
      BY <2>2, <2>4, <2>5 DEF Only
    <3> QED BY <1>1, <1>2, <2>1, <2>3, <2>8, <3>1, <3>2, Basics DEF Appeared, TypeOK
  <2>10. OthersBehind'
    <3> SUFFICES ASSUME NEW j \in Controllers, j # Top
                 PROVE  ctl'[j].ability # "foreground" /\ ~ctl'[j].windows
      BY <2>7 DEF OthersBehind
    <3>1. ctl[j].ability # "foreground" /\ ~ctl[j].windows
      BY <1>1, <2>3 DEF OthersBehind, OnTop
    <3> QED BY <2>2, <2>5, <3>1 DEF Only
  <2>11. TopBefore'
    <3>1. ctl'[Top].ability \in {"foreground", "destroyed"} /\ (app = "foreground" => ctl'[Top].windows)
      <4>1. cover = "sheet" => /\ ctl[Top].ability \in {"foreground", "destroyed"}
                               /\ app = "foreground" => ctl[Top].windows
        BY <1>1, <2>3 DEF TopBefore, OnTop
      <4>2. /\ Top # i => told[Top] = ctl[Top]
            /\ Top = i => told[Top].ability = "destroyed" /\ told[Top].windows = ctl[Top].windows
        BY <2>2, <2>3 DEF Only
      <4> QED BY <2>4, <2>5, <2>6, <4>1, <4>2
    <3> QED BY <1>2, <2>7, <3>1 DEF TopBefore
  <2> QED BY <2>8, <2>9, <2>10, <2>11 DEF Inv
<1>7. CASE /\ cover = "none" /\ ~(stack # <<>> /\ Top = i /\ Len(stack) > 1)
           /\ ~((stack = <<>> \/ Top # i) /\ found # {})
  <2>1. ctl' = ended /\ UNCHANGED <<stack, transition, cover, removed>>
    BY <1>7 DEF Terminate
  <2>2. CASE ended = ctl
    <3> HIDE DEF ended
    <3>1. UNCHANGED <<stack, transition, cover, app, isOnBackground, ctl, removed>> /\ terminating' \subseteq terminating
      BY <1>2, <2>1, <2>2
    <3> QED BY <1>1, <3>1 DEF Inv, TypeOK, Transitions, Appeared, OthersBehind, TopBefore, OnTop, Top, Leaving, Settled
  <2>3. CASE ended = Tell(ctl, i, "destroyed")
    <3> HIDE DEF ended
    <3>1. /\ Only(ctl, ctl', i) /\ ctl'[i].windows = ctl[i].windows
          /\ ctl'[i].needOnForeground = ctl[i].needOnForeground /\ ctl'[i].ability = "destroyed"
      BY <1>1, <2>1, <2>3, Told
    <3>2. /\ UNCHANGED <<stack, transition, cover, app, isOnBackground, removed>> /\ terminating' \subseteq terminating
          /\ ctl[i].ability # "none"
      BY <1>1, <1>2, <2>1 DEF Appeared
    <3> QED BY <3>1, <3>2, EndKeeps
  <2> QED BY <2>2, <2>3
<1> QED BY <1>4, <1>5, <1>6, <1>7

LEMMA EndTransitionKeeps ==
  ASSUME Inv, EndTransition
  PROVE  Inv'
<1> DEFINE f == transition.from
<1>1. /\ TypeOK /\ Transitions /\ Appeared /\ OthersBehind /\ TopBefore /\ ~Settled
      /\ ctl \in Kept /\ ctl' = ViewDidDisappear(ctl, f) /\ removed' = removed \cup ({f} \ ToSet(stack))
      /\ transition' = NoTransition /\ UNCHANGED <<stack, cover, app, isOnBackground, terminating>>
  BY Basics DEF Inv, EndTransition
<1>2. Leaving = {f} /\ f \in Controllers /\ ~OnTop(f) /\ Leaving' = {} /\ Settled'
  BY <1>1, Basics DEF Leaving, Settled, Transitions
<1> HIDE DEF f
<1>3. /\ Only(ctl, ctl', f) /\ ~ctl'[f].windows /\ ctl'[f].needOnForeground = ctl[f].needOnForeground
      /\ ctl'[f].ability = IF ctl[f].ability = "destroyed" THEN "destroyed" ELSE "background"
  BY <1>1, <1>2, Disappeared
<1>4. \A j \in Controllers : OnTop(j)' <=> OnTop(j)
  BY <1>1 DEF OnTop, Top
<1>5. TypeOK'
  BY <1>1, <1>2, <1>3 DEF TypeOK, Only, Kept
<1>6. Transitions'
  BY <1>1, <1>2 DEF Transitions
<1>7. Appeared'
  <2>1. \A j \in Controllers : ctl'[j].ability = "none" <=> ctl[j].ability = "none"
    BY <1>1, <1>2, <1>3 DEF Only, Appeared
  <2>2. \A j \in Controllers : ctl'[j].needOnForeground = ctl[j].needOnForeground
    BY <1>3 DEF Only
  <2>3. \A j \in ToSet(stack) \cup Leaving' \cup removed' \cup terminating' :
          j \in ToSet(stack) \cup Leaving \cup removed \cup terminating /\ j \in Controllers
    BY <1>1, <1>2, Basics DEF TypeOK
  <2> QED BY <1>1, <2>1, <2>2, <2>3 DEF Appeared
<1>8. OthersBehind'
  BY <1>1, <1>2, <1>3, <1>4 DEF OthersBehind, Only
<1>9. TopBefore'
  BY <1>1, <1>2, <1>3, <1>4 DEF TopBefore, Only
<1> QED BY <1>5, <1>6, <1>7, <1>8, <1>9 DEF Inv

LEMMA CancelSwipeKeeps ==
  ASSUME Inv, CancelSwipe
  PROVE  Inv'
<1> DEFINE f == transition.from
           c == ViewDidDisappear(ctl, Top)
<1>1. /\ TypeOK /\ Transitions /\ Appeared /\ OthersBehind /\ TopBefore /\ ~Settled
      /\ ctl \in Kept /\ ctl' = ViewWillAppear(c, f) /\ stack' = Append(stack, f)
      /\ transition' = NoTransition /\ UNCHANGED <<cover, app, isOnBackground, removed, terminating>>
  BY Basics DEF Inv, CancelSwipe
<1>2. /\ Leaving = {f} /\ f \in Controllers /\ f \notin ToSet(stack) /\ f \notin removed
      /\ stack # <<>> /\ Top \in Controllers /\ Top \in ToSet(stack) /\ Leaving' = {} /\ Settled'
  BY <1>1, Basics DEF Leaving, Settled, Transitions, CancelSwipe
<1> HIDE DEF f
<1>3. /\ Stack(stack', Controllers) /\ stack' # <<>> /\ Top' = f /\ ToSet(stack') = ToSet(stack) \cup {f}
  <2>1. Stack(stack, Controllers)
    BY <1>1, Basics
  <2> QED BY <1>1, <1>2, <2>1, Pushed DEF Top
<1>4. /\ Only(ctl, c, Top) /\ ~c[Top].windows /\ c[Top].needOnForeground = ctl[Top].needOnForeground
      /\ c[Top].ability = IF ctl[Top].ability = "destroyed" THEN "destroyed" ELSE "background"
  BY <1>1, <1>2, Disappeared
<1> HIDE DEF c
<1>5. /\ Only(c, ctl', f) /\ ctl'[f].windows /\ ctl'[f].needOnForeground
      /\ ctl'[f].ability = IF c[f].ability # "destroyed" /\ c[f].needOnForeground THEN "foreground"
                           ELSE c[f].ability
  <2>1. c \in Kept
    BY <1>4 DEF Only
  <2> QED BY <1>1, <1>2, <2>1, WillAppear
<1>6. /\ f # Top /\ c[f] = ctl[f] /\ ctl'[Top] = c[Top]
      /\ \A j \in Controllers : j # f /\ j # Top => ctl'[j] = ctl[j]
      /\ ctl[f].ability # "none" /\ ctl[f].needOnForeground /\ ctl[Top].ability # "none"
  BY <1>1, <1>2, <1>4, <1>5 DEF Only, Appeared
<1>7. \A j \in Controllers : OnTop(j)' <=> j = f
  BY <1>3 DEF OnTop
<1>8. TypeOK'
  <2>1. stack' \in Seq(Controllers) /\ IsInjective(stack')
    BY <1>3 DEF Stack
  <2>2. removed' \subseteq Controllers \ ToSet(stack')
    BY <1>1, <1>2, <1>3 DEF TypeOK
  <2> QED BY <1>1, <1>5, <2>1, <2>2 DEF TypeOK, Only, Kept
<1>9. Transitions'
  BY <1>1, <1>2 DEF Transitions
<1>10. Appeared'
  <2>1. \A j \in Controllers : ctl'[j].ability = "none" <=> ~ctl'[j].needOnForeground
    BY <1>1, <1>2, <1>4, <1>5, <1>6 DEF Appeared
  <2>2. \A j \in Controllers : ctl[j].ability # "none" => ctl'[j].ability # "none"
    BY <1>2, <1>4, <1>5, <1>6
  <2>3. \A j \in ToSet(stack') \cup Leaving' \cup removed' \cup terminating' :
          j \in ToSet(stack) \cup Leaving \cup removed \cup terminating /\ j \in Controllers
    BY <1>1, <1>2, <1>3, Basics DEF TypeOK
  <2> QED BY <1>1, <2>1, <2>2, <2>3 DEF Appeared
<1>11. OthersBehind'
  <2> SUFFICES ASSUME NEW j \in Controllers, j # f
               PROVE  ctl'[j].ability # "foreground" /\ ~ctl'[j].windows
    BY <1>7 DEF OthersBehind
  <2>1. CASE j = Top
    BY <1>4, <1>6, <2>1
  <2>2. CASE j # Top
    <3>1. ~OnTop(j) /\ j \notin Leaving
      BY <1>2, <2>2 DEF OnTop
    <3> QED BY <1>1, <1>6, <2>2, <3>1 DEF OthersBehind
  <2> QED BY <2>1, <2>2
<1>12. TopBefore'
  <2>1. ctl'[f].ability \in {"foreground", "destroyed"} /\ ctl'[f].windows
    BY <1>5, <1>6
  <2> QED BY <1>7, <2>1 DEF TopBefore
<1> QED BY <1>8, <1>9, <1>10, <1>11, <1>12 DEF Inv

LEMMA EndsKeep ==
  ASSUME Inv, NEW i \in Controllers, TerminateSelf(i) \/ Dealloc(i) \/ DestroyData(i)
  PROVE  Inv'
<1>1. /\ TypeOK /\ Transitions /\ Appeared /\ OthersBehind /\ TopBefore /\ ctl \in Kept
  BY Basics DEF Inv
<1>2. CASE TerminateSelf(i)
  <2>1. /\ UNCHANGED <<stack, transition, cover, app, isOnBackground, ctl, removed>>
        /\ terminating' = terminating \cup {i} /\ ctl[i].ability # "none"
    BY <1>2 DEF TerminateSelf
  <2> QED BY <1>1, <2>1
          DEF Inv, TypeOK, Transitions, Appeared, OthersBehind, TopBefore, OnTop, Top, Leaving, Settled
<1>3. CASE Dealloc(i) \/ DestroyData(i)
  <2> DEFINE d == Tell(ctl, i, "destroyed")
  <2>1. /\ i \in removed /\ ctl' = [d EXCEPT ![i].windows = FALSE] /\ removed' \subseteq removed
        /\ UNCHANGED <<stack, transition, cover, app, isOnBackground, terminating>>
    BY <1>3 DEF Dealloc, DestroyData
  <2>2. Only(ctl, d, i) /\ d[i].needOnForeground = ctl[i].needOnForeground /\ d[i].ability = "destroyed"
    BY <1>1, Told
  <2> HIDE DEF d
  <2>3. /\ Only(ctl, ctl', i) /\ ~ctl'[i].windows
        /\ ctl'[i].needOnForeground = ctl[i].needOnForeground /\ ctl'[i].ability = "destroyed"
    BY <2>1, <2>2 DEF Kept, Only, Controller
  <2>4. ctl[i].ability # "none" /\ ~OnTop(i)
    <3>1. i \notin ToSet(stack)
      BY <1>1, <2>1 DEF TypeOK
    <3> QED BY <1>1, <2>1, <3>1, Basics DEF Appeared, OnTop
  <2> QED BY <2>1, <2>3, <2>4, EndKeeps
<1> QED BY <1>2, <1>3

LEMMA ReleaseKeeps ==
  ASSUME Inv, ReleaseViewControllers
  PROVE  Inv'
<1>1. /\ TypeOK /\ Transitions /\ Appeared /\ OthersBehind /\ TopBefore /\ ctl \in Kept
      /\ ToSet(stack) \subseteq Controllers
  BY Basics DEF Inv
<1>2. UNCHANGED <<stack, transition, cover, app, isOnBackground, removed, terminating>>
  BY DEF ReleaseViewControllers
<1>3. \A i \in Controllers : Contains(stack, i) => i \in ToSet(stack)
  BY <1>1, Basics, StackBasics DEF Contains, ToSet
<1>4. /\ ctl' \in [Controllers -> Controller]
      /\ \A i \in Controllers :
           /\ ctl'[i].windows = ctl[i].windows /\ ctl'[i].needOnForeground = ctl[i].needOnForeground
           /\ ctl'[i].ability = ctl[i].ability \/ (ctl'[i].ability = "destroyed" /\ i \in ToSet(stack))
  <2>1. ctl' = [i \in Controllers |-> IF Contains(stack, i) THEN [ctl[i] EXCEPT !.ability = "destroyed"] ELSE ctl[i]]
    BY DEF ReleaseViewControllers
  <2>2. \A i \in Controllers : ctl[i] \in Controller
    BY <1>1 DEF Kept
  <2> QED BY <1>3, <2>1, <2>2 DEF Controller
<1>5. TypeOK' /\ Transitions'
  BY <1>1, <1>2, <1>4 DEF TypeOK, Transitions, Leaving, Settled, OnTop, Top
<1>6. Appeared'
  <2>1. \A i \in Controllers : ctl'[i].ability = "none" <=> ctl[i].ability = "none"
    BY <1>1, <1>4 DEF Appeared
  <2>2. \A i \in ToSet(stack) \cup Leaving \cup removed \cup terminating : i \in Controllers
    BY <1>1, Basics DEF TypeOK
  <2> QED BY <1>1, <1>2, <1>4, <2>1, <2>2 DEF Appeared, Leaving, Settled
<1>7. OthersBehind' /\ TopBefore'
  BY <1>1, <1>2, <1>4 DEF OthersBehind, TopBefore, Leaving, Settled, OnTop, Top
<1> QED BY <1>5, <1>6, <1>7 DEF Inv

LEMMA PresentKeeps ==
  ASSUME Inv, NEW kind \in {"sheet", "full"}, Present(kind)
  PROVE  Inv'
<1>1. /\ TypeOK /\ Transitions /\ Appeared /\ OthersBehind /\ TopBefore /\ ctl \in Kept
      /\ Settled /\ stack # <<>> /\ cover = "none" /\ app = "foreground" /\ Top \in Controllers
      /\ cover' = kind /\ UNCHANGED <<stack, transition, app, isOnBackground, removed, terminating>>
  BY Basics DEF Inv, Present, StageOnTop
<1>2. /\ Only(ctl, ctl', Top) /\ ctl'[Top].needOnForeground = ctl[Top].needOnForeground
      /\ kind = "full" => ~ctl'[Top].windows /\ ctl'[Top].ability \in {"background", "destroyed"}
      /\ kind = "sheet" => ctl' = ctl
  <2>1. CASE kind = "full"
    <3>1. ctl' = ViewDidDisappear(ctl, Top)
      BY <2>1 DEF Present
    <3> QED BY <1>1, <2>1, <3>1, Disappeared
  <2>2. CASE kind = "sheet"
    <3>1. ctl' = ctl
      BY <2>2 DEF Present
    <3> QED BY <1>1, <2>2, <3>1 DEF Only
  <2> QED BY <2>1, <2>2
<1>3. Leaving = {} /\ Leaving' = {} /\ \A j \in Controllers : (OnTop(j) <=> j = Top) /\ (OnTop(j)' <=> j = Top)
  BY <1>1 DEF Leaving, Settled, OnTop, Top
<1>4. TypeOK'
  BY <1>1, <1>2 DEF TypeOK, Only, Kept
<1>5. Transitions'
  BY <1>1, <1>3 DEF Transitions, Settled
<1>6. Appeared'
  <2>1. ctl[Top].ability # "none"
    BY <1>1, Basics DEF Appeared
  <2>2. \A j \in Controllers : ctl'[j].ability = "none" <=> ctl[j].ability = "none"
    BY <1>2, <2>1 DEF Only
  <2>3. \A j \in Controllers : ctl'[j].needOnForeground = ctl[j].needOnForeground
    BY <1>2 DEF Only
  <2>4. \A j \in ToSet(stack) \cup Leaving \cup removed \cup terminating : j \in Controllers
    BY <1>1, Basics DEF TypeOK
  <2> QED BY <1>1, <1>3, <2>2, <2>3, <2>4 DEF Appeared
<1>7. OthersBehind' /\ TopBefore'
  BY <1>1, <1>2, <1>3 DEF OthersBehind, TopBefore, Only
<1> QED BY <1>4, <1>5, <1>6, <1>7 DEF Inv

LEMMA DismissKeeps ==
  ASSUME Inv, Dismiss
  PROVE  Inv'
<1>1. /\ TypeOK /\ Transitions /\ Appeared /\ OthersBehind /\ TopBefore /\ ctl \in Kept
      /\ cover # "none" /\ app = "foreground" /\ cover' = "none"
      /\ UNCHANGED <<stack, transition, app, isOnBackground, removed, terminating>>
  BY Basics DEF Inv, Dismiss
<1>2. Settled /\ stack # <<>> /\ Top \in Controllers /\ Top \in ToSet(stack)
  BY <1>1, Basics DEF Transitions
<1>3. ctl[Top].ability # "none" /\ ctl[Top].needOnForeground
  BY <1>1, <1>2 DEF Appeared
<1>4. /\ Only(ctl, ctl', Top) /\ ctl'[Top].needOnForeground /\ ctl'[Top].windows
      /\ ctl'[Top].ability \in {"foreground", "destroyed"}
  <2>1. CASE cover = "full"
    <3>1. ctl' = ViewWillAppear(ctl, Top)
      BY <2>1 DEF Dismiss
    <3> QED BY <1>1, <1>2, <1>3, <3>1, WillAppear
  <2>2. CASE cover = "sheet"
    <3>1. ctl' = ctl
      BY <2>2 DEF Dismiss
    <3>2. OnTop(Top)
      BY <1>2 DEF OnTop
    <3> QED BY <1>1, <1>2, <1>3, <2>2, <3>1, <3>2 DEF TopBefore, Only
  <2> QED BY <1>1, <2>1, <2>2 DEF TypeOK
<1>5. Leaving = {} /\ Leaving' = {} /\ \A j \in Controllers : (OnTop(j) <=> j = Top) /\ (OnTop(j)' <=> j = Top)
  BY <1>1, <1>2 DEF Leaving, Settled, OnTop, Top
<1>6. TypeOK'
  BY <1>1, <1>4 DEF TypeOK, Only, Kept
<1>7. Transitions'
  BY <1>1, <1>5 DEF Transitions, Settled
<1>8. Appeared'
  <2>1. \A j \in Controllers : ctl'[j].ability = "none" <=> ctl[j].ability = "none"
    BY <1>3, <1>4 DEF Only
  <2>2. \A j \in Controllers : ctl'[j].needOnForeground <=> ctl[j].needOnForeground
    BY <1>3, <1>4 DEF Only
  <2>3. \A j \in ToSet(stack) \cup Leaving \cup removed \cup terminating : j \in Controllers
    BY <1>1, Basics DEF TypeOK
  <2> QED BY <1>1, <1>5, <2>1, <2>2, <2>3 DEF Appeared
<1>9. OthersBehind' /\ TopBefore'
  BY <1>1, <1>4, <1>5 DEF OthersBehind, TopBefore, Only
<1> QED BY <1>6, <1>7, <1>8, <1>9 DEF Inv

\* The application leaves or comes back: only the top controller is told, if any.
LEMMA ApplicationKeeps ==
  ASSUME Inv, DidEnterBackground \/ WillEnterForeground
  PROVE  Inv'
<1>1. /\ TypeOK /\ Transitions /\ Appeared /\ OthersBehind /\ TopBefore /\ ctl \in Kept
      /\ UNCHANGED <<stack, transition, cover, removed, terminating>>
      /\ stack # <<>> => Top \in Controllers /\ Top \in ToSet(stack)
  BY Basics DEF Inv, DidEnterBackground, WillEnterForeground
<1> DEFINE what == IF app = "foreground" THEN "background" ELSE "foreground"
           told == IF StageOnTop THEN Tell(ctl, Top, what) ELSE ctl
<1>2. /\ app' = what /\ (isOnBackground' <=> app' = "background") /\ isOnBackground' \in BOOLEAN
      /\ ctl' = IF stack # <<>> THEN [told EXCEPT ![Top].windows = (what = "foreground")] ELSE told
  <2>1. isOnBackground <=> app = "background"
    BY <1>1 DEF Transitions
  <2>2. CASE DidEnterBackground
    BY <2>1, <2>2 DEF DidEnterBackground
  <2>3. CASE WillEnterForeground
    BY <2>1, <2>3 DEF WillEnterForeground
  <2> QED BY <2>2, <2>3
<1>3. CASE stack = <<>>
  <2>1. ctl' = ctl
    BY <1>2, <1>3 DEF StageOnTop
  <2>2. TypeOK' /\ Transitions' /\ Appeared'
    BY <1>1, <1>2, <2>1 DEF TypeOK, Transitions, Appeared, Leaving, Settled, OnTop, Top
  <2>3. OthersBehind' /\ TopBefore'
    BY <1>1, <1>3, <2>1 DEF OthersBehind, TopBefore, Leaving, Settled, OnTop, Top
  <2> QED BY <2>2, <2>3 DEF Inv
<1>4. CASE stack # <<>>
  <2>1. /\ Only(ctl, told, Top) /\ told[Top].needOnForeground = ctl[Top].needOnForeground
        /\ StageOnTop => told[Top].ability = IF ctl[Top].ability = "destroyed" THEN "destroyed" ELSE what
        /\ ~StageOnTop => told[Top].ability = ctl[Top].ability
    <3>1. CASE StageOnTop
      BY <1>1, <1>4, <3>1, Told
    <3>2. CASE ~StageOnTop
      BY <1>1, <3>2 DEF Only
    <3> QED BY <3>1, <3>2
  <2> HIDE DEF told
  <2>2. /\ Only(ctl, ctl', Top) /\ ctl'[Top].needOnForeground = ctl[Top].needOnForeground
        /\ ctl'[Top].windows = (what = "foreground") /\ ctl'[Top].ability = told[Top].ability
    BY <1>1, <1>2, <1>4, <2>1 DEF Only, Kept, Controller
  <2>3. Leaving' = Leaving /\ \A j \in Controllers : (OnTop(j) <=> j = Top) /\ (OnTop(j)' <=> j = Top)
    BY <1>1, <1>4 DEF Leaving, Settled, OnTop, Top
  <2>4. TypeOK'
    BY <1>1, <1>2, <2>2 DEF TypeOK, Only, Kept
  <2>5. Transitions'
    BY <1>1, <1>2, <2>3 DEF Transitions, Settled, OnTop, Top
  <2>6. Appeared'
    <3>1. ctl[Top].ability # "none"
      BY <1>1, <1>4 DEF Appeared
    <3>2. \A j \in Controllers : ctl'[j].ability = "none" <=> ctl[j].ability = "none"
      BY <2>1, <2>2, <3>1 DEF Only
    <3>3. \A j \in Controllers : ctl'[j].needOnForeground = ctl[j].needOnForeground
      BY <2>2 DEF Only
    <3>4. \A j \in ToSet(stack) \cup Leaving \cup removed \cup terminating : j \in Controllers
      BY <1>1, Basics DEF TypeOK
    <3> QED BY <1>1, <2>3, <3>2, <3>3, <3>4 DEF Appeared
  <2>7. OthersBehind'
    BY <1>1, <2>2, <2>3 DEF OthersBehind, Only
  <2>8. TopBefore'
    <3>1. (app' = "foreground" /\ cover = "none") \/ cover = "sheet"
             => ctl'[Top].ability \in {"foreground", "destroyed"}
      <4>1. CASE cover = "sheet"
        BY <1>1, <1>4, <2>1, <2>2, <2>3, <4>1 DEF TopBefore, StageOnTop
      <4>2. CASE cover = "none"
        BY <1>2, <1>4, <2>1, <2>2, <4>2 DEF StageOnTop
      <4> QED BY <4>1, <4>2
    <3>2. app' = "foreground" => ctl'[Top].windows
      BY <1>2, <2>2
    <3> QED BY <1>1, <2>3, <3>1, <3>2 DEF TopBefore
  <2> QED BY <2>4, <2>5, <2>6, <2>7, <2>8 DEF Inv
<1> QED BY <1>3, <1>4

-----------------------------------------------------------------------------
LEMMA InitInv == Init => Inv
<1> SUFFICES ASSUME Init
             PROVE  Inv
  OBVIOUS
<1>1. DOMAIN stack = {} /\ ToSet(stack) = {} /\ stack \in Seq(Controllers)
  BY EmptySeq DEF Init, ToSet
<1>2. TypeOK
  BY <1>1 DEF Init, TypeOK, IsInjective, Controller
<1> QED BY <1>1, <1>2
        DEF Init, Inv, Transitions, Appeared, OthersBehind, TopBefore, OnTop, Leaving, Settled

LEMMA NextKeeps == Inv /\ [Next]_vars => Inv'
<1> SUFFICES ASSUME Inv, [Next]_vars
             PROVE  Inv'
  OBVIOUS
<1>1. CASE Next
  BY <1>1, PushKeeps, PopKeeps, HandleSingletonKeeps, DoAbilityKeeps, TerminateKeeps, EndsKeep,
     EndTransitionKeeps, CancelSwipeKeeps, ReleaseKeeps, PresentKeeps, DismissKeeps, ApplicationKeeps
     DEF Next
<1>2. CASE UNCHANGED vars
  BY <1>2 DEF vars, Inv, TypeOK, Transitions, Appeared, OthersBehind, TopBefore, OnTop, Top, Leaving, Settled
<1> QED BY <1>1, <1>2

\* The stack, the transition under way and what every controller has been told fit together,
\* after any sequence of UIKit's callbacks and the application's calls.
THEOREM StageInv == Spec => []Inv
BY InitInv, NextKeeps, PTL DEF Spec

\* Whenever the user can see and use it, the ability on top was told OnForeground last, and no
\* other: viewWillAppear, viewDidDisappear and the two notifications of the application tell
\* each just what its place asks for.
THEOREM TopIsInForeground == Spec => []TopInForeground
<1>1. Inv => TopInForeground
  <2> SUFFICES ASSUME Inv, Visible, NEW i \in Controllers, ctl[i].ability \notin {"none", "destroyed"}
               PROVE  ctl[i].ability = "foreground" <=> OnTop(i)
    BY DEF TopInForeground, OnTop
  <2>1. cover \in {"none", "sheet"} /\ app = "foreground" /\ Leaving = {}
    BY DEF Inv, TypeOK, Visible, Leaving
  <2> QED BY <2>1 DEF Inv, OthersBehind, TopBefore
<1> QED BY <1>1, StageInv, PTL

\* The windows of a container are in the foreground exactly if its controller's ability is:
\* applicationDidEnterBackground and the controller's own callbacks do not miss each other.
THEOREM WindowsAgree == Spec => []WindowsFollowAbility
<1>1. Inv => WindowsFollowAbility
  <2> SUFFICES ASSUME Inv, Visible, cover = "none", NEW i \in Controllers,
                      ctl[i].ability \in {"foreground", "background"}
               PROVE  ctl[i].windows <=> ctl[i].ability = "foreground"
    BY DEF WindowsFollowAbility
  <2>1. app = "foreground" /\ Leaving = {}
    BY DEF Visible, Leaving
  <2> QED BY <2>1 DEF Inv, OthersBehind, TopBefore
<1> QED BY <1>1, StageInv, PTL
=============================================================================
