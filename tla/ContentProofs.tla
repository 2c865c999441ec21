----------------------------- MODULE ContentProofs -----------------------------
(***************************************************************************)
(* Proofs about what a window shows and what it is told, for any windows,  *)
(* keys, fingers and fields and any bounds: that the contents know how     *)
(* their windows stand, that what is told as a repeat is told of the key   *)
(* that is held, that what is typed reaches the field it was typed for,    *)
(* and that the pipeline's fingers are those on the glass.                 *)
(***************************************************************************)
EXTENDS KeyRepeat, StageWindows, TextInput, TouchInput, SequenceTheorems, FiniteSetTheorems, TLAPS

-----------------------------------------------------------------------------
(* The list of subviews. *)

\* s is a list of views: some of S, each once.
Stack(s, S) == s \in Seq(S) /\ IsInjective(s)

LEMMA StackBasics ==
  ASSUME NEW S, NEW s, Stack(s, S)
  PROVE  /\ Len(s) \in Nat /\ DOMAIN s = 1 .. Len(s) /\ \A k \in DOMAIN s : s[k] \in S
         /\ ToSet(s) \subseteq S
         /\ s = <<>> <=> Len(s) = 0
         /\ s # <<>> => Len(s) \in DOMAIN s /\ Last(s) \in ToSet(s) /\ Last(s) \in S
<1>1. s \in Seq(S)
  BY DEF Stack
<1>2. Len(s) \in Nat /\ DOMAIN s = 1 .. Len(s) /\ \A k \in DOMAIN s : s[k] \in S
  BY <1>1, LenProperties, ElementOfSeq
<1>3. s = <<>> <=> Len(s) = 0
  BY <1>1, EmptySeq
<1>4. ToSet(s) \subseteq S
  BY <1>2 DEF ToSet
<1>5. s # <<>> => Len(s) \in DOMAIN s
  BY <1>2, <1>3
<1> QED BY <1>2, <1>3, <1>4, <1>5 DEF ToSet, Last

LEMMA Pushed ==
  ASSUME NEW S, NEW s, Stack(s, S), NEW i \in S, i \notin ToSet(s)
  PROVE  LET t == Append(s, i) IN
         Stack(t, S) /\ t # <<>> /\ Last(t) = i /\ ToSet(t) = ToSet(s) \cup {i}
<1> DEFINE t == Append(s, i)
<1>1. /\ t \in Seq(S) /\ t # <<>> /\ Len(t) = Len(s) + 1 /\ t[Len(s) + 1] = i
      /\ \A k \in 1 .. Len(s) : t[k] = s[k]
  BY AppendProperties DEF Stack
<1>2. Len(s) \in Nat /\ DOMAIN s = 1 .. Len(s) /\ DOMAIN t = 1 .. Len(s) + 1
  BY <1>1, StackBasics, LenProperties
<1> HIDE DEF t
<1>3. Last(t) = i /\ ToSet(t) = ToSet(s) \cup {i}
  <2>1. Len(s) + 1 \in DOMAIN t /\ \A k \in DOMAIN t : k \in DOMAIN s \/ k = Len(s) + 1
    BY <1>2
  <2> QED BY <1>1, <1>2, <2>1 DEF Last, ToSet
<1>4. IsInjective(t)
  <2> SUFFICES ASSUME NEW k \in DOMAIN t, NEW l \in DOMAIN t, t[k] = t[l]
               PROVE  k = l
    BY DEF IsInjective
  <2>1. \A m \in DOMAIN s : s[m] # i
    BY DEF ToSet
  <2> QED BY <1>1, <1>2, <2>1 DEF Stack, IsInjective
<1> QED BY <1>1, <1>3, <1>4 DEF Stack, t

LEMMA Removed ==
  ASSUME NEW S, NEW s, Stack(s, S), NEW i \in DOMAIN s
  PROVE  LET t == RemoveAt(s, i) IN
         Stack(t, S) /\ ToSet(t) \subseteq ToSet(s) /\ s[i] \notin ToSet(t)
<1> DEFINE a == SubSeq(s, 1, i - 1)
           b == SubSeq(s, i + 1, Len(s))
           t == a \o b
<1>1. i \in 1 .. Len(s) /\ Len(s) \in Nat /\ DOMAIN s = 1 .. Len(s) /\ \A k \in DOMAIN s : s[k] \in S
  BY StackBasics
<1>2. a \in Seq(S) /\ Len(a) = i - 1 /\ \A k \in 1 .. i - 1 : a[k] = s[k]
  <2>1. 1 \in Int /\ i - 1 \in Int /\ \A k \in 1 .. i - 1 : s[k] \in S
    BY <1>1
  <2>2. /\ a \in Seq(S)
        /\ Len(a) = IF 1 <= i - 1 THEN (i - 1) - 1 + 1 ELSE 0
        /\ \A k \in 1 .. (i - 1) - 1 + 1 : a[k] = s[1 + k - 1]
    BY <2>1, SubSeqProperties
  <2> QED BY <1>1, <2>2
<1>3. b \in Seq(S) /\ Len(b) = Len(s) - i /\ \A k \in 1 .. Len(s) - i : b[k] = s[i + k]
  <2>1. i + 1 \in Int /\ Len(s) \in Int /\ \A k \in i + 1 .. Len(s) : s[k] \in S
    BY <1>1
  <2>2. /\ b \in Seq(S)
        /\ Len(b) = IF i + 1 <= Len(s) THEN Len(s) - (i + 1) + 1 ELSE 0
        /\ \A k \in 1 .. Len(s) - (i + 1) + 1 : b[k] = s[(i + 1) + k - 1]
    BY <2>1, SubSeqProperties, SMTT(30)
  <2> QED BY <1>1, <2>2
<1> HIDE DEF a, b
<1>4. /\ t \in Seq(S)
      /\ DOMAIN t = 1 .. Len(s) - 1
      /\ \A k \in 1 .. Len(s) - 1 : t[k] = IF k < i THEN a[k] ELSE b[k - (i - 1)]
  <2>1. /\ t \in Seq(S)
        /\ Len(t) = Len(a) + Len(b)
        /\ \A k \in 1 .. Len(a) + Len(b) : t[k] = IF k <= Len(a) THEN a[k] ELSE b[k - Len(a)]
    BY <1>2, <1>3, ConcatProperties
  <2> HIDE DEF t
  <2>2. Len(a) + Len(b) = Len(s) - 1 /\ Len(a) = i - 1
    BY <1>1, <1>2, <1>3
  <2>3. DOMAIN t = 1 .. Len(s) - 1
    BY <2>1, <2>2, LenProperties
  <2> QED BY <1>1, <2>1, <2>2, <2>3
<1> HIDE DEF t
<1> DEFINE K(k) == IF k < i THEN k ELSE k + 1
<1>5. \A k \in DOMAIN t : t[k] = s[K(k)] /\ K(k) \in DOMAIN s /\ K(k) # i
  <2> SUFFICES ASSUME NEW k \in 1 .. Len(s) - 1
               PROVE  t[k] = s[K(k)] /\ K(k) \in DOMAIN s /\ K(k) # i
    BY <1>4
  <2>1. CASE k < i
    <3>1. k \in 1 .. i - 1
      BY <1>1, <2>1
    <3>2. t[k] = s[k]
      BY <1>2, <1>4, <2>1, <3>1
    <3> QED BY <1>1, <2>1, <3>2
  <2>2. CASE ~(k < i)
    <3>1. k - (i - 1) \in 1 .. Len(s) - i /\ i + (k - (i - 1)) = k + 1
      BY <1>1, <2>2
    <3>2. t[k] = s[k + 1]
      BY <1>3, <1>4, <2>2, <3>1
    <3> QED BY <1>1, <2>2, <3>2
  <2> QED BY <2>1, <2>2
<1>6. \A k, l \in DOMAIN t : K(k) = K(l) => k = l
  BY <1>1, <1>4
<1> HIDE DEF K
<1>7. Stack(t, S)
  BY <1>4, <1>5, <1>6 DEF Stack, IsInjective
<1>8. ToSet(t) \subseteq ToSet(s) /\ s[i] \notin ToSet(t)
  BY <1>5 DEF Stack, IsInjective, ToSet
<1> QED BY <1>7, <1>8 DEF RemoveAt, t, a, b

LEMMA InsertedAt ==
  ASSUME NEW S, NEW s, Stack(s, S), NEW e \in S, e \notin ToSet(s), NEW i \in DOMAIN s
  PROVE  LET t == InsertAt(s, i, e) IN
         Stack(t, S) /\ ToSet(t) \subseteq ToSet(s) \cup {e}
<1> DEFINE a == SubSeq(s, 1, i - 1)
           b == SubSeq(s, i, Len(s))
           c == a \o <<e>>
           t == c \o b
<1>1. i \in 1 .. Len(s) /\ Len(s) \in Nat /\ DOMAIN s = 1 .. Len(s) /\ \A k \in DOMAIN s : s[k] \in S
  BY StackBasics
<1>2. a \in Seq(S) /\ Len(a) = i - 1 /\ \A k \in 1 .. i - 1 : a[k] = s[k]
  <2>1. 1 \in Int /\ i - 1 \in Int /\ \A k \in 1 .. i - 1 : s[k] \in S
    BY <1>1
  <2>2. /\ a \in Seq(S)
        /\ Len(a) = IF 1 <= i - 1 THEN (i - 1) - 1 + 1 ELSE 0
        /\ \A k \in 1 .. (i - 1) - 1 + 1 : a[k] = s[1 + k - 1]
    BY <2>1, SubSeqProperties
  <2> QED BY <1>1, <2>2
<1>3. b \in Seq(S) /\ Len(b) = Len(s) - i + 1 /\ \A k \in 1 .. Len(s) - i + 1 : b[k] = s[i + k - 1]
  <2>1. i \in Int /\ Len(s) \in Int /\ \A k \in i .. Len(s) : s[k] \in S
    BY <1>1
  <2>2. /\ b \in Seq(S)
        /\ Len(b) = IF i <= Len(s) THEN Len(s) - i + 1 ELSE 0
        /\ \A k \in 1 .. Len(s) - i + 1 : b[k] = s[i + k - 1]
    BY <2>1, SubSeqProperties
  <2> QED BY <1>1, <2>2
<1> HIDE DEF a, b
<1>4. c \in Seq(S) /\ Len(c) = i /\ \A k \in 1 .. i : c[k] = IF k < i THEN s[k] ELSE e
  <2>1. /\ c \in Seq(S) /\ Len(c) = Len(a) + 1
        /\ \A k \in 1 .. Len(a) + 1 : c[k] = IF k <= Len(a) THEN a[k] ELSE <<e>>[k - Len(a)]
    BY <1>2, ConcatProperties
  <2>2. Len(a) + 1 = i /\ Len(a) = i - 1
    BY <1>1, <1>2
  <2> HIDE DEF c
  <2>3. ASSUME NEW k \in 1 .. i PROVE c[k] = IF k < i THEN s[k] ELSE e
    <3>1. CASE k < i
      <4>1. k \in 1 .. i - 1 /\ k <= Len(a) /\ k \in 1 .. Len(a) + 1
        BY <1>1, <2>2, <3>1
      <4>2. c[k] = a[k] /\ a[k] = s[k]
        BY <1>2, <2>1, <4>1
      <4> QED BY <3>1, <4>2
    <3>2. CASE ~(k < i)
      <4>1. k = i /\ ~(k <= Len(a)) /\ k \in 1 .. Len(a) + 1 /\ k - Len(a) = 1
        BY <1>1, <2>2, <3>2
      <4>2. c[k] = <<e>>[k - Len(a)]
        BY <2>1, <4>1
      <4> QED BY <3>2, <4>1, <4>2
    <3> QED BY <3>1, <3>2
  <2> QED BY <2>1, <2>2, <2>3
<1> HIDE DEF c
<1>5. /\ t \in Seq(S) /\ DOMAIN t = 1 .. Len(s) + 1
      /\ \A k \in 1 .. Len(s) + 1 : t[k] = IF k <= i THEN c[k] ELSE b[k - i]
  <2>1. /\ t \in Seq(S) /\ Len(t) = Len(c) + Len(b)
        /\ \A k \in 1 .. Len(c) + Len(b) : t[k] = IF k <= Len(c) THEN c[k] ELSE b[k - Len(c)]
    BY <1>3, <1>4, ConcatProperties
  <2> HIDE DEF t
  <2>2. Len(c) + Len(b) = Len(s) + 1 /\ Len(c) = i
    BY <1>1, <1>3, <1>4
  <2>3. DOMAIN t = 1 .. Len(s) + 1
    BY <2>1, <2>2, LenProperties
  <2> QED BY <2>1, <2>2, <2>3
<1> HIDE DEF t
<1> DEFINE K(k) == IF k < i THEN k ELSE k - 1
<1>6. \A k \in DOMAIN t : IF k = i THEN t[k] = e ELSE K(k) \in DOMAIN s /\ t[k] = s[K(k)]
  <2> SUFFICES ASSUME NEW k \in 1 .. Len(s) + 1
               PROVE  IF k = i THEN t[k] = e ELSE K(k) \in DOMAIN s /\ t[k] = s[K(k)]
    BY <1>5
  <2>1. CASE k <= i
    BY <1>1, <1>4, <1>5, <2>1
  <2>2. CASE ~(k <= i)
    <3>1. k - i \in 1 .. Len(s) - i + 1 /\ i + (k - i) - 1 = k - 1
      BY <1>1, <2>2
    <3>2. t[k] = s[k - 1]
      BY <1>3, <1>5, <2>2, <3>1
    <3> QED BY <1>1, <2>2, <3>2
  <2> QED BY <1>1, <2>1, <2>2
<1>7. \A k, l \in DOMAIN t : k # i /\ l # i /\ K(k) = K(l) => k = l
  BY <1>1, <1>5
<1> HIDE DEF K
<1>8. \A k \in DOMAIN s : s[k] # e
  BY DEF ToSet
<1>9. IsInjective(t)
  BY <1>6, <1>7, <1>8 DEF Stack, IsInjective
<1>10. ToSet(t) \subseteq ToSet(s) \cup {e}
  BY <1>6 DEF ToSet
<1> QED BY <1>5, <1>9, <1>10 DEF Stack, InsertAt, t, c, a, b

LEMMA Taken ==
  ASSUME NEW S, NEW s, Stack(s, S), NEW w \in S
  PROVE  LET t == Without(s, w) IN
         Stack(t, S) /\ ToSet(t) \subseteq ToSet(s) /\ w \notin ToSet(t)
<1>1. Len(s) \in Nat /\ DOMAIN s = 1 .. Len(s)
  BY StackBasics
<1>2. CASE Contains(s, w)
  <2> DEFINE k == CHOOSE j \in DOMAIN s : s[j] = w
  <2>1. k \in DOMAIN s /\ s[k] = w
    BY <1>1, <1>2 DEF Contains
  <2>2. Without(s, w) = RemoveAt(s, k)
    BY <1>2 DEF Without
  <2> HIDE DEF k
  <2> QED BY <2>1, <2>2, Removed
<1>3. CASE ~Contains(s, w)
  BY <1>1, <1>3 DEF Without, Contains, ToSet
<1> QED BY <1>2, <1>3

LEMMA Placed ==
  ASSUME NEW S, NEW s, Stack(s, S), NEW w \in S, NEW t \in Inserted(s, w)
  PROVE  Stack(t, S) /\ ToSet(t) \subseteq ToSet(s) \cup {w}
<1> DEFINE others == Without(s, w)
           higher == IF w = mainWindow THEN {} ELSE Higher(others, w)
<1>1. Stack(others, S) /\ ToSet(others) \subseteq ToSet(s) /\ w \notin ToSet(others)
  BY Taken
<1>2. higher \subseteq DOMAIN others
  BY DEF Higher
<1>3. t = Append(others, w) \/ \E k \in higher : t = InsertAt(others, k, w)
  BY DEF Inserted
<1> HIDE DEF others, higher
<1>4. CASE t = Append(others, w)
  BY <1>1, <1>4, Pushed
<1>5. ASSUME NEW k \in higher, t = InsertAt(others, k, w)
      PROVE  Stack(t, S) /\ ToSet(t) \subseteq ToSet(s) \cup {w}
  BY <1>1, <1>2, <1>5, InsertedAt
<1> QED BY <1>3, <1>4, <1>5

-----------------------------------------------------------------------------
(* What a method leaves behind. *)

Kept(s) == s \in UI /\ IsInjective(s.subviews) /\ FocusIsCarried(s)

\* Of the foreground t knows what s knows, or of the focus.
SameForeground(s, t) ==
  \A w \in Windows :
    /\ t.win[w].made = s.win[w].made /\ t.win[w].content = s.win[w].content
    /\ t.win[w].isWindowShow = s.win[w].isWindowShow
    /\ t.win[w].toldForeground = s.win[w].toldForeground
    /\ t.view[w].needNotifyForground = s.view[w].needNotifyForground

SameFocus(s, t) ==
  /\ t.activeWindow = s.activeWindow
  /\ \A w \in Windows :
       /\ t.win[w].made = s.win[w].made /\ t.win[w].content = s.win[w].content
       /\ t.win[w].isFocused = s.win[w].isFocused
       /\ t.win[w].toldFocus = s.win[w].toldFocus
       /\ t.win[w].delayNotifyFocusChanged = s.win[w].delayNotifyFocusChanged
       /\ t.view[w].isFocused = s.view[w].isFocused
       /\ t.view[w].needNotifyFocus = s.view[w].needNotifyFocus

LEMMA SubviewsAreWindows ==
  ASSUME NEW s \in UI
  PROVE  ToSet(s.subviews) \subseteq Windows /\ \A w : Contains(s.subviews, w) <=> w \in ToSet(s.subviews)
BY ElementOfSeq, LenProperties DEF UI, ToSet, Contains

LEMMA ForegroundStays ==
  ASSUME NEW s \in UI, NEW t \in UI, SameForeground(s, t), ForegroundIsCarried(s),
         ToSet(t.subviews) \subseteq ToSet(s.subviews)
  PROVE  ForegroundIsCarried(t)
BY SubviewsAreWindows DEF SameForeground, ForegroundIsCarried, CarriesForeground

LEMMA FocusStays ==
  ASSUME NEW s, Kept(s), NEW t \in UI, IsInjective(t.subviews), SameFocus(s, t)
  PROVE  Kept(t)
BY DEF Kept, SameFocus, FocusIsCarried, CarriesFocus

\* t is s but for what is w's.
Only(s, t, w) ==
  /\ t \in UI /\ t.subviews = s.subviews /\ t.activeWindow = s.activeWindow
  /\ \A v \in Windows : v # w => t.view[v] = s.view[v] /\ t.win[v] = s.win[v]

LEMMA ViewSet ==
  ASSUME NEW s \in UI, NEW w \in Windows, NEW x \in View
  PROVE  LET t == WithView(s, w, x) IN Only(s, t, w) /\ t.view[w] = x /\ t.win = s.win
BY DEF UI, Only, WithView

LEMMA WinSet ==
  ASSUME NEW s \in UI, NEW w \in Windows, NEW x \in Window
  PROVE  LET t == WithWindow(s, w, x) IN Only(s, t, w) /\ t.win[w] = x /\ t.view = s.view
BY DEF UI, Only, WithWindow

LEMMA Notified ==
  ASSUME NEW s \in UI, NEW w \in Windows, NEW focus \in BOOLEAN
  PROVE  LET t == NotifyFocusChanged(s, w, focus) IN
         /\ Only(s, t, w) /\ SameForeground(s, t)
         /\ t.view[w].isFocused = s.view[w].isFocused /\ t.view[w].focusable = s.view[w].focusable
         /\ ~s.win[w].made => t.win[w] = s.win[w] /\ t.view[w].needNotifyFocus
         /\ s.win[w].made =>
              /\ t.win[w].isFocused = focus
              /\ IF s.win[w].content # "none" THEN t.win[w].toldFocus = focus
                 ELSE t.win[w].delayNotifyFocusChanged
<1> DEFINE t == NotifyFocusChanged(s, w, focus)
<1>1. CASE s.win[w].made
  <2> DEFINE x == [s.win[w] EXCEPT !.isFocused = focus,
                !.toldFocus = IF HasContent(s, w) THEN focus ELSE s.win[w].toldFocus,
                !.delayNotifyFocusChanged = s.win[w].delayNotifyFocusChanged \/ ~HasContent(s, w)]
  <2>1. t = WithWindow(s, w, x)
    BY <1>1, Zenon DEF NotifyFocusChanged
  <2>2. /\ x \in Window /\ x.made = s.win[w].made /\ x.content = s.win[w].content
        /\ x.isWindowShow = s.win[w].isWindowShow
        /\ x.toldForeground = s.win[w].toldForeground
        /\ x.isFocused = focus
        /\ IF s.win[w].content # "none" THEN x.toldFocus = focus
           ELSE x.delayNotifyFocusChanged
    BY <1>1 DEF UI, Window, HasContent
  <2> HIDE DEF x
  <2>3. Only(s, t, w) /\ t.win[w] = x /\ t.view = s.view
    BY <2>1, <2>2, WinSet
  <2> HIDE DEF t
  <2> QED BY <1>1, <2>2, <2>3, ZenonT(30) DEF Only, SameForeground, t
<1>2. CASE ~s.win[w].made
  <2> DEFINE x == [s.view[w] EXCEPT !.needNotifyFocus = TRUE]
  <2>1. t = WithView(s, w, x)
    BY <1>2, Zenon DEF NotifyFocusChanged
  <2>2. /\ x \in View /\ x.needNotifyFocus /\ x.focusable = s.view[w].focusable
        /\ x.needNotifyForground = s.view[w].needNotifyForground
        /\ x.isFocused = s.view[w].isFocused
    BY DEF UI, View
  <2> HIDE DEF x
  <2>3. Only(s, t, w) /\ t.view[w] = x /\ t.win = s.win
    BY <2>1, <2>2, ViewSet
  <2> HIDE DEF t
  <2> QED BY <1>2, <2>2, <2>3 DEF Only, SameForeground, t
<1> QED BY <1>1, <1>2

LEMMA Focused ==
  ASSUME NEW s, Kept(s), NEW w \in Windows, NEW focus \in BOOLEAN,
         focus => w = s.activeWindow
  PROVE  LET t == SetIsFocused(s, w, focus) IN
         /\ Kept(t) /\ SameForeground(s, t) /\ Only(s, t, w)
         /\ ~focus => ~t.view[w].isFocused
         /\ t.view[w].focusable = s.view[w].focusable
<1> DEFINE can == focus /\ s.view[w].focusable
           x == [s.view[w] EXCEPT !.isFocused = can]
           m == WithView(s, w, x)
           t == NotifyFocusChanged(m, w, can)
<1>1. s \in UI /\ IsInjective(s.subviews) /\ FocusIsCarried(s)
  BY DEF Kept
<1>2. can \in BOOLEAN /\ (can => w = s.activeWindow) /\ (~focus => ~can)
  BY <1>1 DEF UI, View
<1>3. SetIsFocused(s, w, focus) = t
  BY Zenon DEF SetIsFocused
<1> HIDE DEF can
<1>4. x \in View /\ x.isFocused = can /\ x.focusable = s.view[w].focusable
      /\ x.needNotifyForground = s.view[w].needNotifyForground
      /\ x.needNotifyFocus = s.view[w].needNotifyFocus
  BY <1>1, <1>2 DEF UI, View
<1> HIDE DEF x
<1>5. Only(s, m, w) /\ m.view[w] = x /\ m.win = s.win
  BY <1>1, <1>4, ViewSet
<1> HIDE DEF m
<1>6. /\ Only(m, t, w) /\ SameForeground(m, t)
      /\ t.view[w].isFocused = m.view[w].isFocused /\ t.view[w].focusable = m.view[w].focusable
      /\ ~m.win[w].made => t.win[w] = m.win[w] /\ t.view[w].needNotifyFocus
      /\ m.win[w].made =>
           /\ t.win[w].isFocused = can
           /\ IF m.win[w].content # "none" THEN t.win[w].toldFocus = can
              ELSE t.win[w].delayNotifyFocusChanged
  BY <1>2, <1>5, Notified, SMTT(30) DEF Only
<1> HIDE DEF t
<1>7. Only(s, t, w)
  BY <1>5, <1>6 DEF Only
<1>8. SameForeground(s, t)
  BY <1>4, <1>5, <1>6 DEF Only, SameForeground
<1>9. FocusIsCarried(t)
  <2> SUFFICES ASSUME NEW v \in Windows
               PROVE  CarriesFocus(t, v)
    BY DEF FocusIsCarried
  <2> QED BY <1>1, <1>2, <1>4, <1>5, <1>6, <1>7, <1>8 DEF FocusIsCarried, CarriesFocus, SameForeground, Only
<1> QED BY <1>1, <1>2, <1>3, <1>4, <1>5, <1>6, <1>7, <1>8, <1>9 DEF Kept, Only

\* The methods that set the focus leave the foreground alone.
Refocused(s, t) ==
  /\ Kept(t) /\ SameForeground(s, t)
  /\ t.subviews = s.subviews /\ t.activeWindow = s.activeWindow

LEMMA FocusableSet ==
  ASSUME NEW s, Kept(s), NEW w \in Windows, NEW focusable \in BOOLEAN
  PROVE  Refocused(s, SetViewFocusable(s, w, focusable))
<1> DEFINE x == [s.view[w] EXCEPT !.focusable = focusable]
           m == WithView(s, w, x)
<1>1. s \in UI /\ IsInjective(s.subviews)
  BY DEF Kept
<1>2. x \in View /\ x.isFocused = s.view[w].isFocused
      /\ x.needNotifyForground = s.view[w].needNotifyForground
      /\ x.needNotifyFocus = s.view[w].needNotifyFocus
  BY <1>1 DEF UI, View
<1>3. SetViewFocusable(s, w, focusable) = IF focusable THEN m ELSE SetIsFocused(m, w, FALSE)
  BY DEF SetViewFocusable
<1> HIDE DEF x
<1>4. Only(s, m, w) /\ m.view[w] = x /\ m.win = s.win
  BY <1>1, <1>2, ViewSet
<1> HIDE DEF m
<1>5. SameFocus(s, m) /\ SameForeground(s, m)
  BY <1>2, <1>4 DEF Only, SameFocus, SameForeground
<1>6. Kept(m)
  BY <1>1, <1>4, <1>5, FocusStays DEF Only
<1>7. Refocused(s, m)
  BY <1>4, <1>5, <1>6 DEF Only, Refocused
<1> DEFINE u == SetIsFocused(m, w, FALSE)
<1>8. Kept(u) /\ SameForeground(m, u) /\ Only(m, u, w)
  BY <1>6, Focused
<1> HIDE DEF u
<1>9. SameForeground(s, u)
  BY <1>5, <1>8 DEF SameForeground
<1>10. u.subviews = s.subviews /\ u.activeWindow = s.activeWindow
  BY <1>4, <1>8 DEF Only
<1>11. Refocused(s, u)
  BY <1>8, <1>9, <1>10 DEF Refocused
<1> QED BY <1>3, <1>7, <1>11 DEF u

LEMMA Synced ==
  ASSUME NEW s, Kept(s), NEW focusable \in BOOLEAN
  PROVE  Refocused(s, SyncContentViewFocusable(s, focusable))
<1>1. s.subviews \in Seq(Windows)
  BY DEF Kept, UI
<1>2. CASE s.subviews = <<>>
  BY <1>2 DEF SyncContentViewFocusable, Refocused, SameForeground
<1>3. CASE s.subviews # <<>>
  <2>1. Last(s.subviews) \in Windows
    BY <1>1, <1>3, StackBasics DEF Stack, Kept
  <2> QED BY <1>3, <2>1, FocusableSet DEF SyncContentViewFocusable
<1> QED BY <1>2, <1>3

LEMMA Activated ==
  ASSUME NEW s, Kept(s), NEW w \in Windows
  PROVE  LET t == SetActiveWindow(s, w) IN
         Kept(t) /\ SameForeground(s, t) /\ t.subviews = s.subviews
<1> DEFINE a == SetIsFocused(s, s.activeWindow, FALSE)
           b == [a EXCEPT !.activeWindow = w]
           c == SetIsFocused(b, w, TRUE)
           d == SyncContentViewFocusable(c, TRUE)
<1>1. SetActiveWindow(s, w) = IF s.activeWindow = w \/ ~s.view[w].focusable THEN s ELSE d
  BY DEF SetActiveWindow
<1>2. /\ Kept(a) /\ SameForeground(s, a) /\ Only(s, a, s.activeWindow)
      /\ ~a.view[s.activeWindow].isFocused
  BY Focused DEF Kept, UI
<1> HIDE DEF a
<1>3. \A v \in Windows : ~a.view[v].isFocused
  BY <1>2 DEF Only, Kept, FocusIsCarried, CarriesFocus
<1>4. b \in UI /\ b.view = a.view /\ b.win = a.win /\ b.subviews = a.subviews /\ b.activeWindow = w
  BY <1>2 DEF Kept, UI
<1> HIDE DEF b
<1>5. Kept(b) /\ SameForeground(a, b)
  BY <1>2, <1>3, <1>4 DEF Kept, FocusIsCarried, CarriesFocus, SameForeground
<1>6. Kept(c) /\ SameForeground(b, c) /\ c.subviews = b.subviews
  BY <1>4, <1>5, Focused DEF Only
<1> HIDE DEF c
<1>7. Kept(d) /\ SameForeground(c, d) /\ d.subviews = c.subviews
  BY <1>6, Synced DEF Refocused
<1> HIDE DEF d
<1>8. Kept(d) /\ SameForeground(s, d) /\ d.subviews = s.subviews
  BY <1>2, <1>4, <1>5, <1>6, <1>7 DEF SameForeground, Only
<1>9. SameForeground(s, s)
  BY DEF SameForeground
<1> QED BY <1>1, <1>8, <1>9

LEMMA Relisted ==
  ASSUME NEW s, Kept(s), NEW stacked, Stack(stacked, Windows)
  PROVE  LET t == [s EXCEPT !.subviews = stacked] IN
         Kept(t) /\ SameForeground(s, t) /\ t.subviews = stacked
<1> DEFINE t == [s EXCEPT !.subviews = stacked]
<1>1. t \in UI /\ t.view = s.view /\ t.win = s.win /\ t.subviews = stacked /\ t.activeWindow = s.activeWindow
  BY DEF Kept, UI, Stack
<1> HIDE DEF t
<1>2. Kept(t) /\ SameForeground(s, t)
  BY <1>1 DEF Kept, FocusIsCarried, CarriesFocus, SameForeground, Stack
<1> QED BY <1>1, <1>2 DEF t

LEMMA Shown ==
  ASSUME NEW s, Kept(s), NEW w \in Windows, NEW stacked, Stack(stacked, Windows)
  PROVE  LET t == ShowView(s, w, stacked) IN
         Kept(t) /\ SameForeground(s, t) /\ t.subviews = stacked
<1> DEFINE m == [s EXCEPT !.subviews = stacked]
           n == IF s.view[w].focusable THEN SetActiveWindow(m, w) ELSE m
           t == SyncContentViewFocusable(n, s.view[w].focusable)
<1>1. ShowView(s, w, stacked) = IF w = mainWindow THEN m ELSE t
  BY DEF ShowView
<1>2. Kept(m) /\ SameForeground(s, m) /\ m.subviews = stacked
  BY Relisted
<1> HIDE DEF m
<1>3. Kept(n) /\ SameForeground(s, n) /\ n.subviews = stacked
  <2>1. CASE s.view[w].focusable
    BY <1>2, <2>1, Activated DEF SameForeground
  <2>2. CASE ~s.view[w].focusable
    BY <1>2, <2>2
  <2> QED BY <2>1, <2>2
<1> HIDE DEF n
<1>4. s.view[w].focusable \in BOOLEAN
  BY DEF Kept, UI, View
<1>5. Kept(t) /\ SameForeground(n, t) /\ t.subviews = n.subviews
  BY <1>3, <1>4, Synced DEF Refocused
<1> HIDE DEF t
<1>6. Kept(t) /\ SameForeground(s, t) /\ t.subviews = stacked
  BY <1>3, <1>5 DEF SameForeground
<1> QED BY <1>1, <1>2, <1>6

LEMMA Hidden ==
  ASSUME NEW s, Kept(s), NEW w \in Windows
  PROVE  LET t == HiddenWindow(s, w) IN
         Kept(t) /\ SameForeground(s, t) /\ ToSet(t.subviews) \subseteq ToSet(s.subviews) \ {w}
<1> DEFINE stacked == Without(s.subviews, w)
           m == [s EXCEPT !.subviews = stacked]
<1>1. Stack(stacked, Windows) /\ ToSet(stacked) \subseteq ToSet(s.subviews) \ {w}
  BY Taken DEF Kept, UI, Stack
<1>2. HiddenWindow(s, w) = SetActiveWindow(m, mainWindow)
  BY DEF HiddenWindow
<1> HIDE DEF stacked
<1>3. Kept(m) /\ SameForeground(s, m) /\ m.subviews = stacked
  BY <1>1, Relisted
<1> HIDE DEF m
<1>4. Kept(SetActiveWindow(m, mainWindow)) /\ SameForeground(m, SetActiveWindow(m, mainWindow))
      /\ SetActiveWindow(m, mainWindow).subviews = stacked
  BY <1>3, Activated, WindowsAssumption
<1>5. SameForeground(s, SetActiveWindow(m, mainWindow))
  BY <1>3, <1>4 DEF SameForeground
<1> QED BY <1>1, <1>2, <1>4, <1>5

-----------------------------------------------------------------------------
(* The methods that tell of the foreground, and leave the focus alone. *)

LEMMA BroughtForward ==
  ASSUME NEW s \in UI, NEW w \in Windows
  PROVE  LET t == AfterForeground(s, w) IN
         /\ Only(s, t, w) /\ t.view = s.view /\ SameFocus(s, t)
         /\ t.win[w].isWindowShow
         /\ HasContent(s, w) => t.win[w].toldForeground
<1> DEFINE x == [s.win[w] EXCEPT !.isWindowShow = TRUE,
                  !.toldForeground = s.win[w].toldForeground \/ HasContent(s, w)]
           t == AfterForeground(s, w)
<1>1. t = WithWindow(s, w, x)
  BY Zenon DEF AfterForeground
<1>2. /\ x \in Window /\ x.made = s.win[w].made /\ x.content = s.win[w].content
      /\ x.isFocused = s.win[w].isFocused /\ x.toldFocus = s.win[w].toldFocus
      /\ x.delayNotifyFocusChanged = s.win[w].delayNotifyFocusChanged
      /\ x.isWindowShow /\ (HasContent(s, w) => x.toldForeground)
  <2>1. s.win[w] \in Window
    BY DEF UI
  <2> QED BY <2>1 DEF Window, HasContent
<1> HIDE DEF x
<1>3. Only(s, t, w) /\ t.win[w] = x /\ t.view = s.view
  BY <1>1, <1>2, WinSet
<1> QED BY <1>2, <1>3 DEF Only, SameFocus

LEMMA PutBack ==
  ASSUME NEW s \in UI, NEW w \in Windows
  PROVE  LET t == AfterBackground(s, w) IN
         Only(s, t, w) /\ t.view = s.view /\ SameFocus(s, t)
<1> DEFINE x == [s.win[w] EXCEPT !.isWindowShow = FALSE, !.toldForeground = FALSE]
           t == AfterBackground(s, w)
<1>1. t = WithWindow(s, w, x)
  BY Zenon DEF AfterBackground
<1>2. /\ x \in Window /\ x.made = s.win[w].made /\ x.content = s.win[w].content
      /\ x.isFocused = s.win[w].isFocused /\ x.toldFocus = s.win[w].toldFocus
      /\ x.delayNotifyFocusChanged = s.win[w].delayNotifyFocusChanged
  <2>1. s.win[w] \in Window
    BY DEF UI
  <2> QED BY <2>1 DEF Window
<1> HIDE DEF x
<1>3. Only(s, t, w) /\ t.win[w] = x /\ t.view = s.view
  BY <1>1, <1>2, WinSet
<1> QED BY <1>2, <1>3 DEF Only, SameFocus

LEMMA ForegroundNotified ==
  ASSUME NEW s \in UI, NEW w \in Windows
  PROVE  LET t == NotifyForeground(s, w) IN
         Only(s, t, w) /\ SameFocus(s, t) /\ CarriesForeground(t, w)
<1> DEFINE t == NotifyForeground(s, w)
<1>1. CASE s.win[w].made
  <2>1. t = AfterForeground(s, w)
    BY <1>1 DEF NotifyForeground
  <2> QED BY <1>1, <2>1, BroughtForward DEF CarriesForeground, SameFocus, HasContent
<1>2. CASE ~s.win[w].made
  <2> DEFINE x == [s.view[w] EXCEPT !.needNotifyForground = TRUE]
  <2>1. t = WithView(s, w, x)
    BY <1>2 DEF NotifyForeground
  <2>2. /\ x \in View /\ x.needNotifyForground
        /\ x.needNotifyFocus = s.view[w].needNotifyFocus /\ x.isFocused = s.view[w].isFocused
    BY DEF UI, View
  <2> HIDE DEF x
  <2>3. Only(s, t, w) /\ t.view[w] = x /\ t.win = s.win
    BY <2>1, <2>2, ViewSet
  <2> QED BY <1>2, <2>2, <2>3 DEF Only, SameFocus, CarriesForeground
<1> QED BY <1>1, <1>2

LEMMA BackgroundNotified ==
  ASSUME NEW s \in UI, NEW w \in Windows
  PROVE  LET t == NotifyBackground(s, w) IN Only(s, t, w) /\ SameFocus(s, t)
BY PutBack DEF NotifyBackground, Only, SameFocus

\* That the container is active changes what a content was told of its focus only if the
\* window has it.
LEMMA ActiveNotified ==
  ASSUME NEW s, Kept(s), NEW w \in Windows, NEW isActive \in BOOLEAN,
         ~isActive => ~s.view[w].isFocused
  PROVE  LET t == NotifyActiveChanged(s, w, isActive) IN
         Only(s, t, w) /\ SameForeground(s, t) /\ CarriesFocus(t, w)
<1> DEFINE x == [s.win[w] EXCEPT !.toldFocus = isActive /\ s.win[w].isFocused]
           t == NotifyActiveChanged(s, w, isActive)
<1>1. CASE ~HasContent(s, w)
  <2>1. t = s
    BY <1>1 DEF NotifyActiveChanged
  <2> QED BY <2>1 DEF Only, SameForeground, Kept, FocusIsCarried
<1>2. CASE HasContent(s, w)
  <2>1. t = WithWindow(s, w, x)
    BY <1>2, Zenon DEF NotifyActiveChanged
  <2>2. /\ x \in Window /\ x.made = s.win[w].made /\ x.content = s.win[w].content
        /\ x.isWindowShow = s.win[w].isWindowShow
        /\ x.toldForeground = s.win[w].toldForeground
        /\ x.isFocused = s.win[w].isFocused
        /\ x.delayNotifyFocusChanged = s.win[w].delayNotifyFocusChanged
        /\ x.toldFocus <=> isActive /\ s.win[w].isFocused
    <3>1. s.win[w] \in Window
      BY DEF Kept, UI
    <3> QED BY <3>1 DEF Window
  <2> HIDE DEF x
  <2>3. Only(s, t, w) /\ t.win[w] = x /\ t.view = s.view
    BY <2>1, <2>2, WinSet DEF Kept
  <2>4. SameForeground(s, t)
    BY <2>2, <2>3 DEF Only, SameForeground
  <2>5. CarriesFocus(s, w) /\ s.win[w].made /\ s.win[w].content # "none"
    BY <1>2 DEF Kept, FocusIsCarried, HasContent
  <2>6. CarriesFocus(t, w)
    BY <2>2, <2>3, <2>5 DEF Only, CarriesFocus
  <2> QED BY <2>3, <2>4, <2>6
<1> QED BY <1>1, <1>2

LEMMA Delayed ==
  ASSUME NEW s \in UI, NEW w \in Windows
  PROVE  LET t == DelayNotifyUIContentIfNeeded(s, w) IN
         /\ Only(s, t, w) /\ SameForeground(s, t) /\ t.view = s.view
         /\ t.win[w].isFocused = s.win[w].isFocused
         /\ IF HasContent(s, w) /\ s.win[w].delayNotifyFocusChanged
            THEN t.win[w].toldFocus = s.win[w].isFocused
            ELSE t = s
<1> DEFINE x == [s.win[w] EXCEPT !.toldFocus = s.win[w].isFocused,
                                 !.delayNotifyFocusChanged = FALSE]
           t == DelayNotifyUIContentIfNeeded(s, w)
<1>1. CASE ~(HasContent(s, w) /\ s.win[w].delayNotifyFocusChanged)
  <2>1. t = s
    BY <1>1, Zenon DEF DelayNotifyUIContentIfNeeded
  <2> QED BY <1>1, <2>1 DEF Only, SameForeground
<1>2. CASE HasContent(s, w) /\ s.win[w].delayNotifyFocusChanged
  <2>1. t = WithWindow(s, w, x)
    BY <1>2, Zenon DEF DelayNotifyUIContentIfNeeded
  <2>2. /\ x \in Window /\ x.made = s.win[w].made /\ x.content = s.win[w].content
        /\ x.isWindowShow = s.win[w].isWindowShow
        /\ x.toldForeground = s.win[w].toldForeground
        /\ x.isFocused = s.win[w].isFocused
        /\ x.toldFocus = s.win[w].isFocused
    <3>1. s.win[w] \in Window
      BY DEF UI
    <3> QED BY <3>1 DEF Window
  <2> HIDE DEF x
  <2>3. Only(s, t, w) /\ t.win[w] = x /\ t.view = s.view
    BY <2>1, <2>2, WinSet
  <2> QED BY <1>2, <2>2, <2>3 DEF Only, SameForeground
<1> QED BY <1>1, <1>2

\* A window that is made hears from its view what that has noted.
LEMMA Made ==
  ASSUME NEW s, Kept(s), NEW w \in Windows, ~s.win[w].made
  PROVE  LET t == SetWindowDelegate(s, w) IN
         /\ Kept(t) /\ Only(s, t, w)
         /\ s.view[w].needNotifyForground => CarriesForeground(t, w)
<1> DEFINE x == [s.win[w] EXCEPT !.made = TRUE]
           m == WithWindow(s, w, x)
           n == TellForeground(m, w)
           t == TellFocus(n, w)
<1>1. s \in UI /\ s.win[w] \in Window /\ CarriesFocus(s, w)
  BY DEF Kept, UI, FocusIsCarried
<1>2. /\ x \in Window /\ x.made /\ x.content = "none" /\ ~x.isFocused
  BY <1>1 DEF Window, CarriesFocus
<1>3. SetWindowDelegate(s, w) = t
  BY DEF SetWindowDelegate
<1> HIDE DEF x
<1>4. Only(s, m, w) /\ m.win[w] = x /\ m.view = s.view
  BY <1>1, <1>2, WinSet
<1> HIDE DEF m
<1>5. /\ Only(m, n, w) /\ SameFocus(m, n)
      /\ s.view[w].needNotifyForground => CarriesForeground(n, w)
  <2>1. CASE ~m.view[w].needNotifyForground
    <3>1. n = m
      BY <2>1 DEF TellForeground
    <3> QED BY <1>4, <2>1, <3>1 DEF Only, SameFocus
  <2>2. CASE m.view[w].needNotifyForground
    <3> DEFINE y == [m.view[w] EXCEPT !.needNotifyForground = FALSE]
               k == WithView(m, w, y)
    <3>1. n = NotifyForeground(k, w)
      BY <2>2 DEF TellForeground
    <3>2. y \in View /\ y.isFocused = m.view[w].isFocused /\ y.needNotifyFocus = m.view[w].needNotifyFocus
      <4>1. m.view[w] \in View
        BY <1>4 DEF Only, UI
      <4> QED BY <4>1 DEF View
    <3> HIDE DEF y
    <3>3. Only(m, k, w) /\ k.view[w] = y /\ k.win = m.win
      BY <1>4, <3>2, ViewSet DEF Only
    <3> HIDE DEF k
    <3>4. SameFocus(m, k)
      BY <3>2, <3>3 DEF Only, SameFocus
    <3>5. Only(k, n, w) /\ SameFocus(k, n) /\ CarriesForeground(n, w)
      BY <3>1, <3>3, ForegroundNotified DEF Only
    <3> HIDE DEF n
    <3> QED BY <3>3, <3>4, <3>5 DEF Only, SameFocus
  <2> QED BY <2>1, <2>2
<1> HIDE DEF n
<1>6. /\ n.win[w].made /\ n.win[w].content = "none" /\ ~n.win[w].isFocused
      /\ n.view[w].isFocused = s.view[w].isFocused
      /\ n.view[w].needNotifyFocus = s.view[w].needNotifyFocus
      /\ n \in UI
  BY <1>2, <1>4, <1>5 DEF SameFocus, Only
<1>7. /\ Only(n, t, w) /\ CarriesFocus(t, w)
      /\ CarriesForeground(n, w) => CarriesForeground(t, w)
  <2>1. CASE ~n.view[w].needNotifyFocus
    <3>1. t = n
      BY <2>1 DEF TellFocus
    <3>2. Only(n, t, w)
      BY <1>6, <3>1 DEF Only
    <3>3. CarriesFocus(n, w)
      BY <1>1, <1>6, <2>1 DEF CarriesFocus
    <3> QED BY <3>1, <3>2, <3>3
  <2>2. CASE n.view[w].needNotifyFocus
    <3> DEFINE y == [n.view[w] EXCEPT !.needNotifyFocus = FALSE]
               k == WithView(n, w, y)
               focus == n.view[w].isFocused
    <3>1. t = NotifyFocusChanged(k, w, focus)
      BY <2>2 DEF TellFocus
    <3>2. /\ y \in View /\ y.isFocused = n.view[w].isFocused
          /\ y.needNotifyForground = n.view[w].needNotifyForground
      <4>1. n.view[w] \in View
        BY <1>6 DEF UI
      <4> QED BY <4>1 DEF View
    <3>3. focus \in BOOLEAN
      BY <1>6 DEF UI, View
    <3> HIDE DEF y
    <3>4. Only(n, k, w) /\ k.view[w] = y /\ k.win = n.win
      BY <1>6, <3>2, ViewSet
    <3> HIDE DEF k
    <3>5. SameForeground(n, k)
      BY <3>2, <3>4 DEF Only, SameForeground
    <3>6. /\ Only(k, t, w) /\ SameForeground(k, t)
          /\ t.view[w].isFocused = k.view[w].isFocused
          /\ t.win[w].isFocused = focus /\ t.win[w].delayNotifyFocusChanged
      <4>1. k \in UI /\ k.win[w].made /\ k.win[w].content = "none"
        BY <1>6, <3>4 DEF Only
      <4> HIDE DEF focus
      <4> QED BY <3>1, <3>3, <4>1, Notified
    <3> HIDE DEF t
    <3>7. Only(n, t, w) /\ SameForeground(n, t)
      BY <3>4, <3>5, <3>6 DEF Only, SameForeground
    <3>8. t.win[w].made /\ t.win[w].content = "none" /\ t.view[w].isFocused = s.view[w].isFocused
          /\ t.win[w].isFocused = s.view[w].isFocused /\ t.activeWindow = s.activeWindow
      BY <1>4, <1>5, <1>6, <3>2, <3>4, <3>6, <3>7 DEF SameForeground, Only
    <3>9. CarriesFocus(t, w)
      BY <1>1, <3>6, <3>8 DEF CarriesFocus
    <3>10. CarriesForeground(n, w) => CarriesForeground(t, w)
      BY <3>7 DEF SameForeground, CarriesForeground
    <3> QED BY <3>7, <3>9, <3>10
  <2> QED BY <2>1, <2>2
<1> HIDE DEF t
<1>8. Only(s, t, w)
  BY <1>4, <1>5, <1>7 DEF Only
<1>9. Kept(t)
  BY <1>7, <1>8 DEF Kept, Only, FocusIsCarried, CarriesFocus
<1> QED BY <1>3, <1>5, <1>7, <1>8, <1>9

-----------------------------------------------------------------------------
(* What the container passes on to all its subviews. *)

LEMMA AllForward ==
  ASSUME NEW s, Kept(s)
  PROVE  LET t == NotifyForegroundAll(s) IN
         Kept(t) /\ ForegroundIsCarried(t) /\ t.subviews = s.subviews
<1> DEFINE t == NotifyForegroundAll(s)
           In(w) == Contains(s.subviews, w)
<1>1. s \in UI
  BY DEF Kept
<1>2. \A w \in Windows : LET u == NotifyForeground(s, w) IN
        Only(s, u, w) /\ SameFocus(s, u) /\ CarriesForeground(u, w)
  BY <1>1, ForegroundNotified
<1>3. \A w \in Windows : LET u == NotifyForeground(s, w) IN u.view[w] \in View /\ u.win[w] \in Window
  BY <1>2 DEF Only, UI
<1>4. /\ t.subviews = s.subviews /\ t.activeWindow = s.activeWindow /\ t \in UI
      /\ \A w \in Windows :
           /\ t.view[w] = IF In(w) THEN NotifyForeground(s, w).view[w] ELSE s.view[w]
           /\ t.win[w] = IF In(w) THEN NotifyForeground(s, w).win[w] ELSE s.win[w]
  BY <1>1, <1>3 DEF NotifyForegroundAll, ForAllViews, UI
<1> HIDE DEF t
<1>5. SameFocus(s, t)
  BY <1>2, <1>4 DEF SameFocus
<1>6. Kept(t)
  BY <1>4, <1>5, FocusStays DEF Kept
<1>7. ForegroundIsCarried(t)
  <2> SUFFICES ASSUME NEW w \in ToSet(t.subviews)
               PROVE  CarriesForeground(t, w)
    BY DEF ForegroundIsCarried
  <2>1. w \in Windows /\ In(w)
    BY <1>1, <1>4, SubviewsAreWindows
  <2>2. CarriesForeground(NotifyForeground(s, w), w)
    BY <1>2, <2>1
  <2>3. t.view[w] = NotifyForeground(s, w).view[w] /\ t.win[w] = NotifyForeground(s, w).win[w]
    BY <1>4, <2>1
  <2> QED BY <2>2, <2>3 DEF CarriesForeground
<1> QED BY <1>4, <1>6, <1>7 DEF t

LEMMA AllBack ==
  ASSUME NEW s, Kept(s)
  PROVE  LET t == NotifyBackgroundAll(s) IN Kept(t) /\ t.subviews = s.subviews
<1> DEFINE t == NotifyBackgroundAll(s)
           In(w) == Contains(s.subviews, w)
<1>1. s \in UI
  BY DEF Kept
<1>2. \A w \in Windows : LET u == NotifyBackground(s, w) IN Only(s, u, w) /\ SameFocus(s, u)
  BY <1>1, BackgroundNotified
<1>3. \A w \in Windows : LET u == NotifyBackground(s, w) IN u.view[w] \in View /\ u.win[w] \in Window
  BY <1>2 DEF Only, UI
<1>4. /\ t.subviews = s.subviews /\ t.activeWindow = s.activeWindow /\ t \in UI
      /\ \A w \in Windows :
           /\ t.view[w] = IF In(w) THEN NotifyBackground(s, w).view[w] ELSE s.view[w]
           /\ t.win[w] = IF In(w) THEN NotifyBackground(s, w).win[w] ELSE s.win[w]
  BY <1>1, <1>3 DEF NotifyBackgroundAll, ForAllViews, UI
<1> HIDE DEF t
<1>5. SameFocus(s, t)
  BY <1>2, <1>4 DEF SameFocus
<1>6. Kept(t)
  BY <1>4, <1>5, FocusStays DEF Kept
<1> QED BY <1>4, <1>6 DEF t

LEMMA AllActive ==
  ASSUME NEW s, Kept(s), NEW isActive \in BOOLEAN
  PROVE  LET t == NotifyActiveChangedAll(s, isActive) IN
         Kept(t) /\ SameForeground(s, t) /\ t.subviews = s.subviews
<1> DEFINE m == SetIsFocused(s, s.activeWindow, isActive)
           t == NotifyActiveChangedAll(s, isActive)
           In(w) == Contains(m.subviews, w)
           Told(w) == NotifyActiveChanged(m, w, isActive)
<1>1. s.activeWindow \in Windows
  BY DEF Kept, UI
<1>2. /\ Kept(m) /\ SameForeground(s, m) /\ Only(s, m, s.activeWindow)
      /\ ~isActive => ~m.view[s.activeWindow].isFocused
  BY <1>1, Focused
<1>3. t = [m EXCEPT !.view = [w \in Windows |-> IF In(w) THEN Told(w).view[w] ELSE m.view[w]],
                    !.win = [w \in Windows |-> IF In(w) THEN Told(w).win[w] ELSE m.win[w]]]
  BY DEF NotifyActiveChangedAll, ForAllViews
<1> HIDE DEF m, t
<1>4. \A w \in Windows : ~isActive => ~m.view[w].isFocused
  BY <1>2 DEF Kept, FocusIsCarried, CarriesFocus, Only
<1>5. \A w \in Windows : Only(m, Told(w), w) /\ SameForeground(m, Told(w)) /\ CarriesFocus(Told(w), w)
  BY <1>2, <1>4, ActiveNotified
<1>6. \A w \in Windows : Told(w).view[w] \in View /\ Told(w).win[w] \in Window
                         /\ Told(w).activeWindow = m.activeWindow
  BY <1>5 DEF Only, UI
<1> HIDE DEF Told
<1>7. /\ t.subviews = m.subviews /\ t.activeWindow = m.activeWindow /\ t \in UI
      /\ \A w \in Windows :
           /\ t.view[w] = IF In(w) THEN Told(w).view[w] ELSE m.view[w]
           /\ t.win[w] = IF In(w) THEN Told(w).win[w] ELSE m.win[w]
  BY <1>2, <1>3, <1>6 DEF UI, Kept
<1>8. SameForeground(m, t)
  BY <1>5, <1>7 DEF SameForeground
<1>9. FocusIsCarried(t)
  <2> SUFFICES ASSUME NEW w \in Windows
               PROVE  CarriesFocus(t, w)
    BY DEF FocusIsCarried
  <2>1. CASE In(w)
    BY <1>5, <1>6, <1>7, <2>1 DEF CarriesFocus
  <2>2. CASE ~In(w)
    BY <1>2, <1>7, <2>2 DEF CarriesFocus, Kept, FocusIsCarried
  <2> QED BY <2>1, <2>2
<1>10. Kept(t) /\ SameForeground(s, t) /\ t.subviews = s.subviews
  BY <1>2, <1>7, <1>8, <1>9 DEF Kept, Only, SameForeground
<1> QED BY <1>10 DEF t

-----------------------------------------------------------------------------
(* The actions. *)

States ==
  controller \in {"loaded", "shown", "hidden"} /\ app \in {"active", "inactive", "background"}

Core == Kept(ui) /\ States /\ (Seen => ForegroundIsCarried(ui))

LEMMA CoreKnows == Core => ContentsKnow
<1> SUFFICES ASSUME Core
             PROVE  ContentsKnow
  OBVIOUS
<1>1. ui \in UI /\ IsInjective(ui.subviews) /\ FocusIsCarried(ui) /\ (Seen => ForegroundIsCarried(ui))
  BY DEF Core, Kept
<1>2. UITypes
  BY <1>1 DEF Core, States, UITypes
<1>3. OneFocus
  BY <1>1 DEF OneFocus, FocusIsCarried, CarriesFocus
<1>4. FocusReachesContent
  <2> SUFFICES ASSUME NEW w \in Windows, ui.win[w].content = "first"
               PROVE  /\ ui.win[w].isFocused <=> ui.view[w].isFocused
                      /\ ui.win[w].toldFocus <=> ui.win[w].isFocused
    BY DEF FocusReachesContent
  <2>1. CarriesFocus(ui, w) /\ ui.win[w] \in Window
    BY <1>1 DEF FocusIsCarried, UI
  <2> QED BY <2>1 DEF CarriesFocus, Window
<1>5. ForegroundReachesContent
  BY <1>1 DEF ForegroundReachesContent, ForegroundIsCarried, CarriesForeground, HasContent
<1> QED BY <1>1, <1>2, <1>3, <1>4, <1>5 DEF ContentsKnow

LEMMA InitCore == UIInit => Core
<1> SUFFICES ASSUME UIInit
             PROVE  Core
  OBVIOUS
<1>1. mainWindow \in Windows /\ <<mainWindow>> \in Seq(Windows)
  BY WindowsAssumption
<1>2. IsInjective(<<mainWindow>>)
  BY DEF IsInjective
<1>3. Kept(ui)
  BY <1>1, <1>2 DEF UIInit, Kept, UI, View, Window, FocusIsCarried, CarriesFocus
<1>4. States /\ ~Seen
  BY DEF UIInit, States, Seen
<1> QED BY <1>3, <1>4 DEF Core

\* What the handlers of the windows have to keep: they leave the controller alone.
LEMMA UIChanged ==
  ASSUME Core, NEW s, Kept(s), Seen => ForegroundIsCarried(s), Changes(s)
  PROVE  Core'
<1>1. ui' = s /\ controller' = controller /\ app' = app
  BY DEF Changes
<1>2. Kept(ui') /\ (Seen' => ForegroundIsCarried(ui'))
  BY <1>1 DEF Seen
<1> QED BY <1>1, <1>2 DEF Core, States

LEMMA CreateKeeps ==
  ASSUME Core, NEW w \in Windows, Create(w)
  PROVE  Core'
<1> DEFINE t == SetWindowDelegate(ui, w)
<1>1. Kept(ui) /\ ~ui.win[w].made
  BY DEF Core, Create
<1>2. Kept(t) /\ Only(ui, t, w) /\ (ui.view[w].needNotifyForground => CarriesForeground(t, w))
  BY <1>1, Made
<1>3. Changes(t)
  BY DEF Create
<1> HIDE DEF t
<1>4. ASSUME Seen
      PROVE  ForegroundIsCarried(t)
  <2> SUFFICES ASSUME NEW v \in ToSet(t.subviews)
               PROVE  CarriesForeground(t, v)
    BY DEF ForegroundIsCarried
  <2>1. v \in Windows /\ CarriesForeground(ui, v)
    BY <1>1, <1>2, <1>4, SubviewsAreWindows DEF Only, Core, ForegroundIsCarried, Kept
  <2> QED BY <1>1, <1>2, <2>1 DEF Only, CarriesForeground
<1> QED BY <1>2, <1>3, <1>4, UIChanged

LEMMA SetUIContentKeeps ==
  ASSUME Core, NEW w \in Windows, SetUIContent(w)
  PROVE  Core'
<1> DEFINE which == IF ui.win[w].content = "none" THEN "first" ELSE "replaced"
           tells == ui.win[w].isWindowShow /\ app # "background"
           x == [ui.win[w] EXCEPT !.content = which, !.toldFocus = FALSE,
                                  !.toldForeground = tells]
           m == WithWindow(ui, w, x)
           t == DelayNotifyUIContentIfNeeded(m, w)
<1>1. Kept(ui) /\ ui \in UI /\ ui.win[w] \in Window /\ CarriesFocus(ui, w) /\ ui.win[w].made
  BY DEF Core, Kept, UI, FocusIsCarried, SetUIContent
<1>2. Changes(t)
  BY DEF SetUIContent
<1>3. /\ x \in Window /\ x.made /\ x.content # "none" /\ x.isFocused = ui.win[w].isFocused
      /\ x.content = "first" => ui.win[w].content = "none"
      /\ x.delayNotifyFocusChanged = ui.win[w].delayNotifyFocusChanged
      /\ ~x.toldFocus /\ x.isWindowShow = ui.win[w].isWindowShow /\ (x.toldForeground <=> tells)
  <2>1. which \in {"first", "replaced"} /\ (which = "first" => ui.win[w].content = "none")
    OBVIOUS
  <2>2. tells \in BOOLEAN
    OBVIOUS
  <2> HIDE DEF which, tells
  <2> QED BY <1>1, <2>1, <2>2 DEF Window
<1> HIDE DEF x
<1>4. Only(ui, m, w) /\ m.win[w] = x /\ m.view = ui.view
  BY <1>1, <1>3, WinSet
<1> HIDE DEF m
<1>5. /\ Only(m, t, w) /\ SameForeground(m, t) /\ t.view = m.view
      /\ t.win[w].isFocused = m.win[w].isFocused
      /\ IF HasContent(m, w) /\ m.win[w].delayNotifyFocusChanged
         THEN t.win[w].toldFocus = m.win[w].isFocused
         ELSE t = m
  BY <1>4, Delayed DEF Only
<1> HIDE DEF t
<1>6. Only(ui, t, w) /\ t.view = ui.view
  BY <1>4, <1>5 DEF Only
<1>7. t.win[w].made /\ t.win[w].content = x.content /\ t.win[w].isFocused = ui.win[w].isFocused
  BY <1>3, <1>4, <1>5 DEF SameForeground
<1>8. t.win[w].content = "first" => (t.win[w].toldFocus <=> t.win[w].isFocused)
  <2>1. CASE m.win[w].delayNotifyFocusChanged
    BY <1>3, <1>4, <1>5, <1>7, <2>1 DEF HasContent
  <2>2. CASE ~m.win[w].delayNotifyFocusChanged
    BY <1>1, <1>3, <1>4, <1>5, <2>2 DEF CarriesFocus
  <2> QED BY <2>1, <2>2
<1>9. CarriesFocus(t, w)
  BY <1>1, <1>3, <1>6, <1>7, <1>8 DEF CarriesFocus, Only
<1>10. Kept(t)
  BY <1>1, <1>6, <1>9 DEF Kept, Only, FocusIsCarried, CarriesFocus
<1>11. ASSUME Seen
       PROVE  ForegroundIsCarried(t)
  <2> SUFFICES ASSUME NEW v \in ToSet(t.subviews)
               PROVE  CarriesForeground(t, v)
    BY DEF ForegroundIsCarried
  <2>1. v \in Windows /\ CarriesForeground(ui, v)
    BY <1>1, <1>6, <1>11, SubviewsAreWindows DEF Only, Core, ForegroundIsCarried
  <2>2. CASE v = w
    BY <1>1, <1>3, <1>4, <1>5, <1>7, <1>11, <2>1, <2>2 DEF CarriesForeground, SameForeground, Seen
  <2>3. CASE v # w
    BY <1>6, <2>1, <2>3 DEF Only, CarriesForeground
  <2> QED BY <2>2, <2>3
<1> QED BY <1>2, <1>10, <1>11, UIChanged

LEMMA ShowWindowKeeps ==
  ASSUME Core, NEW w \in Windows, ShowWindow(w)
  PROVE  Core'
<1>1. Kept(ui) /\ ui \in UI /\ Stack(ui.subviews, Windows)
  BY DEF Core, Kept, UI, Stack
<1>2. PICK stacked \in Inserted(ui.subviews, w) :
        Changes(AfterForeground(DelayNotifyUIContentIfNeeded(ShowView(ui, w, stacked), w), w))
  BY DEF ShowWindow
<1>3. Stack(stacked, Windows) /\ ToSet(stacked) \subseteq ToSet(ui.subviews) \cup {w}
  BY <1>1, Placed
<1> DEFINE m == ShowView(ui, w, stacked)
           n == DelayNotifyUIContentIfNeeded(m, w)
           t == AfterForeground(n, w)
<1>4. Kept(m) /\ SameForeground(ui, m) /\ m.subviews = stacked
  BY <1>1, <1>3, Shown
<1> HIDE DEF m
<1>5. m \in UI /\ CarriesFocus(m, w) /\ m.win[w].made
  <2>1. ui.win[w].made
    BY DEF ShowWindow
  <2> QED BY <1>4, <2>1 DEF Kept, FocusIsCarried, SameForeground
<1>6. /\ Only(m, n, w) /\ SameForeground(m, n) /\ n.view = m.view
      /\ n.win[w].isFocused = m.win[w].isFocused
      /\ IF HasContent(m, w) /\ m.win[w].delayNotifyFocusChanged
         THEN n.win[w].toldFocus = m.win[w].isFocused
         ELSE n = m
  BY <1>5, Delayed
<1> HIDE DEF n
<1>7. CarriesFocus(n, w)
  <2>1. n.win[w].made /\ n.win[w].content = m.win[w].content
    BY <1>5, <1>6 DEF SameForeground
  <2> QED BY <1>5, <1>6, <2>1 DEF CarriesFocus, Only, HasContent
<1>8. Kept(n)
  BY <1>4, <1>6, <1>7 DEF Kept, Only, FocusIsCarried, CarriesFocus
<1>9. /\ Only(n, t, w) /\ t.view = n.view /\ SameFocus(n, t) /\ t.win[w].isWindowShow
      /\ HasContent(n, w) => t.win[w].toldForeground
  BY <1>8, BroughtForward DEF Kept
<1>10. Changes(t)
  BY <1>2 DEF t, n, m
<1> HIDE DEF t
<1>11. Kept(t)
  BY <1>8, <1>9, FocusStays DEF Only, Kept
<1>12. ASSUME Seen
       PROVE  ForegroundIsCarried(t)
  <2> SUFFICES ASSUME NEW v \in ToSet(t.subviews)
               PROVE  CarriesForeground(t, v)
    BY DEF ForegroundIsCarried
  <2>1. t.subviews = stacked /\ v \in Windows
    BY <1>4, <1>6, <1>9, SubviewsAreWindows DEF Only
  <2>2. CASE v = w
    BY <1>5, <1>6, <1>9, <2>2 DEF CarriesForeground, SameFocus, SameForeground, HasContent
  <2>3. CASE v # w
    <3>1. CarriesForeground(ui, v)
      BY <1>3, <1>12, <2>1, <2>3 DEF Core, ForegroundIsCarried
    <3>2. CarriesForeground(n, v)
      BY <1>4, <1>6, <2>1, <3>1 DEF CarriesForeground, SameForeground
    <3> QED BY <1>9, <2>1, <2>3, <3>2 DEF Only, CarriesForeground
  <2> QED BY <2>2, <2>3
<1> QED BY <1>10, <1>11, <1>12, UIChanged

LEMMA HideKeeps ==
  ASSUME Core, NEW w \in Windows, Hide(w)
  PROVE  Core'
<1> DEFINE m == HiddenWindow(ui, w)
           t == AfterBackground(m, w)
<1>1. Kept(ui) /\ ui \in UI
  BY DEF Core, Kept
<1>2. Kept(m) /\ SameForeground(ui, m) /\ ToSet(m.subviews) \subseteq ToSet(ui.subviews) \ {w}
  BY <1>1, Hidden
<1>3. Changes(t)
  BY DEF Hide
<1> HIDE DEF m
<1>4. Only(m, t, w) /\ t.view = m.view /\ SameFocus(m, t)
  BY <1>2, PutBack DEF Kept
<1> HIDE DEF t
<1>5. Kept(t)
  BY <1>2, <1>4, FocusStays DEF Only, Kept
<1>6. ASSUME Seen
      PROVE  ForegroundIsCarried(t)
  <2>1. ForegroundIsCarried(m)
    BY <1>1, <1>2, <1>6, ForegroundStays DEF Core, Kept
  <2>2. \A v \in ToSet(t.subviews) : v \in Windows /\ v # w /\ v \in ToSet(m.subviews)
    BY <1>2, <1>4, SubviewsAreWindows DEF Only
  <2> QED BY <1>4, <2>1, <2>2 DEF Only, ForegroundIsCarried, CarriesForeground
<1> QED BY <1>3, <1>5, <1>6, UIChanged

LEMMA SetFocusableKeeps ==
  ASSUME Core, NEW w \in Windows, NEW focusable \in BOOLEAN, SetFocusable(w, focusable)
  PROVE  Core'
<1> DEFINE m == SetViewFocusable(ui, w, focusable)
           x == [m.win[w] EXCEPT !.focusable = focusable]
           t == WithWindow(m, w, x)
<1>1. Kept(ui) /\ ui \in UI
  BY DEF Core, Kept
<1>2. Refocused(ui, m)
  BY <1>1, FocusableSet
<1>3. Changes(t)
  BY DEF SetFocusable
<1> HIDE DEF m
<1>4. /\ x \in Window /\ x.made = m.win[w].made /\ x.content = m.win[w].content
      /\ x.isFocused = m.win[w].isFocused /\ x.toldFocus = m.win[w].toldFocus
      /\ x.delayNotifyFocusChanged = m.win[w].delayNotifyFocusChanged
      /\ x.isWindowShow = m.win[w].isWindowShow /\ x.toldForeground = m.win[w].toldForeground
  <2>1. m.win[w] \in Window
    BY <1>2 DEF Refocused, Kept, UI
  <2> QED BY <2>1 DEF Window
<1> HIDE DEF x
<1>5. Only(m, t, w) /\ t.win[w] = x /\ t.view = m.view
  BY <1>2, <1>4, WinSet DEF Refocused, Kept
<1> HIDE DEF t
<1>6. SameFocus(m, t) /\ SameForeground(m, t)
  BY <1>4, <1>5 DEF Only, SameFocus, SameForeground
<1>7. Kept(t)
  BY <1>2, <1>5, <1>6, FocusStays DEF Only, Kept, Refocused
<1>8. Seen => ForegroundIsCarried(t)
  <2>1. SameForeground(ui, t) /\ t.subviews = ui.subviews /\ t \in UI
    BY <1>2, <1>5, <1>6 DEF Refocused, SameForeground, Only
  <2> QED BY <1>1, <2>1, ForegroundStays DEF Core
<1> QED BY <1>3, <1>7, <1>8, UIChanged

\* RequestFocus, and a touch on a window that is not active.
LEMMA ActivationKeeps ==
  ASSUME Core, NEW w \in Windows, RequestFocus(w) \/ Touch(w)
  PROVE  Core'
<1> DEFINE stacked == Append(Without(ui.subviews, w), w)
           raised == [ui EXCEPT !.subviews = stacked]
<1>1. Kept(ui) /\ ui \in UI /\ Stack(ui.subviews, Windows) /\ SameForeground(ui, ui)
  BY DEF Core, Kept, UI, Stack, SameForeground
<1>2. PICK m \in {ui, raised} : Changes(SetActiveWindow(m, w)) /\ (m = raised => Contains(ui.subviews, w))
  <2>1. CASE RequestFocus(w)
    BY <2>1 DEF RequestFocus
  <2>2. CASE Touch(w)
    BY <2>2 DEF Touch
  <2> QED BY <2>1, <2>2
<1>3. Kept(m) /\ SameForeground(ui, m) /\ ToSet(m.subviews) \subseteq ToSet(ui.subviews)
  <2>1. CASE m = ui
    BY <1>1, <2>1
  <2>2. CASE m = raised
    <3>1. w \in ToSet(ui.subviews)
      BY <1>1, <1>2, <2>2, SubviewsAreWindows
    <3>2. Stack(stacked, Windows) /\ ToSet(stacked) \subseteq ToSet(ui.subviews)
      BY <1>1, <3>1, Taken, Pushed
    <3> QED BY <1>1, <2>2, <3>2, Relisted
  <2> QED BY <1>2, <2>1, <2>2
<1> DEFINE t == SetActiveWindow(m, w)
<1>4. Kept(t) /\ SameForeground(m, t) /\ t.subviews = m.subviews
  BY <1>3, Activated
<1>5. Changes(t)
  BY <1>2
<1> HIDE DEF t
<1>6. SameForeground(ui, t)
  BY <1>3, <1>4 DEF SameForeground
<1>7. Seen => ForegroundIsCarried(t)
  BY <1>1, <1>3, <1>4, <1>6, ForegroundStays DEF Core, Kept
<1> QED BY <1>4, <1>5, <1>7, UIChanged

LEMMA ControllerKeeps ==
  ASSUME Core, ViewWillAppear \/ ViewDidDisappear
  PROVE  Core'
<1> DEFINE fore == NotifyForegroundAll(ui)
           back == NotifyBackgroundAll(ui)
<1>1. Kept(ui)
  BY DEF Core
<1>2. CASE ViewWillAppear
  <2>1. Kept(fore) /\ ForegroundIsCarried(fore)
    BY <1>1, AllForward
  <2> HIDE DEF fore
  <2> DEFINE t == NotifyActiveChangedAll(fore, TRUE)
  <2>2. Kept(t) /\ SameForeground(fore, t) /\ t.subviews = fore.subviews
    BY <2>1, AllActive
  <2>3. ui' = t /\ controller' = "shown" /\ app' = app
    BY <1>2 DEF ViewWillAppear, fore
  <2> HIDE DEF t
  <2>4. ForegroundIsCarried(t)
    BY <2>1, <2>2, ForegroundStays DEF Kept
  <2> QED BY <2>2, <2>3, <2>4 DEF Core, States
<1>3. CASE ViewDidDisappear
  <2>1. Kept(back)
    BY <1>1, AllBack
  <2> HIDE DEF back
  <2> DEFINE t == NotifyActiveChangedAll(back, FALSE)
  <2>2. Kept(t)
    BY <2>1, AllActive
  <2>3. ui' = t /\ controller' = "hidden" /\ app' = app
    BY <1>3 DEF ViewDidDisappear, back
  <2> HIDE DEF t
  <2> QED BY <2>2, <2>3 DEF Core, States, Seen
<1> QED BY <1>2, <1>3

LEMMA ApplicationKeeps ==
  ASSUME Core, \/ ApplicationBecameActive \/ ApplicationWillResignActive
               \/ ApplicationDidEnterBackground \/ ApplicationWillEnterForeground
  PROVE  Core'
<1>1. Kept(ui)
  BY DEF Core
<1>2. ASSUME NEW isActive \in BOOLEAN, ui' = NotifyActiveChangedAll(ui, isActive),
             app # "background", app' \in {"active", "inactive"}, controller' = controller
      PROVE  Core'
  <2> DEFINE t == NotifyActiveChangedAll(ui, isActive)
  <2>1. Kept(t) /\ SameForeground(ui, t) /\ t.subviews = ui.subviews
    BY <1>1, AllActive
  <2>2. ui' = t
    BY <1>2
  <2> HIDE DEF t
  <2>3. Seen => ForegroundIsCarried(t)
    BY <1>1, <2>1, ForegroundStays DEF Core, Kept
  <2> QED BY <1>2, <2>1, <2>2, <2>3 DEF Core, States, Seen
<1>3. CASE ApplicationBecameActive
  BY <1>2, <1>3 DEF ApplicationBecameActive
<1>4. CASE ApplicationWillResignActive
  BY <1>2, <1>4 DEF ApplicationWillResignActive
<1>5. CASE ApplicationDidEnterBackground
  <2>1. Kept(NotifyBackgroundAll(ui))
    BY <1>1, AllBack
  <2>2. Kept(ui') /\ app' = "background" /\ controller' = controller
    BY <1>1, <1>5, <2>1 DEF ApplicationDidEnterBackground
  <2> QED BY <2>2 DEF Core, States, Seen
<1>6. CASE ApplicationWillEnterForeground
  <2>1. Kept(NotifyForegroundAll(ui)) /\ ForegroundIsCarried(NotifyForegroundAll(ui))
    BY <1>1, AllForward
  <2>2. /\ Kept(ui') /\ app' = "inactive" /\ controller' = controller
        /\ controller = "shown" => ForegroundIsCarried(ui')
    BY <1>1, <1>6, <2>1 DEF ApplicationWillEnterForeground
  <2> QED BY <2>2 DEF Core, States, Seen
<1> QED BY <1>3, <1>4, <1>5, <1>6

-----------------------------------------------------------------------------

LEMMA NextKeeps == Core /\ [UINext]_uiVars => Core'
<1> SUFFICES ASSUME Core, [UINext]_uiVars
             PROVE  Core'
  OBVIOUS
<1>1. CASE UNCHANGED uiVars
  BY <1>1 DEF uiVars, Core, States, Seen
<1>2. ASSUME NEW w \in Windows,
             \/ Create(w) \/ SetUIContent(w) \/ ShowWindow(w) \/ Hide(w)
             \/ RequestFocus(w) \/ Touch(w)
             \/ \E focusable \in BOOLEAN : SetFocusable(w, focusable)
      PROVE  Core'
  BY <1>2, CreateKeeps, SetUIContentKeeps, ShowWindowKeeps, HideKeeps, ActivationKeeps,
     SetFocusableKeeps
<1>3. CASE ViewWillAppear \/ ViewDidDisappear
  BY <1>3, ControllerKeeps
<1>4. CASE \/ ApplicationBecameActive \/ ApplicationWillResignActive
           \/ ApplicationDidEnterBackground \/ ApplicationWillEnterForeground
  BY <1>4, ApplicationKeeps
<1> QED BY <1>1, <1>2, <1>3, <1>4 DEF UINext

\* One window alone has the focus, contents know of focus and foreground, and what cannot be
\* told yet is noted on its way through view, window and content, whatever the order in
\* which these are made, shown, hidden and replaced and the application comes and goes.
THEOREM ContentsAlwaysKnow == UISpec => []ContentsKnow
<1>1. UISpec => []Core
  BY InitCore, NextKeeps, PTL DEF UISpec
<1> QED BY <1>1, CoreKnows, PTL

-----------------------------------------------------------------------------
(* KeyRepeat.  What keeps a late repeat from being told is inductive.       *)

\* Whatever the recogniser adds, the event itself is told last.
LEMMA TellLast ==
  ASSUME NEW key, NEW action, NEW count, Tell(key, action, count)
  PROVE  /\ Last(told').event.key = key
         /\ Last(told').event.count = count
<1> DEFINE e == [key |-> key, action |-> action, count |-> count]
           s == [e EXCEPT !.action = "special"]
<1>1. CASE told' = [i \in DOMAIN <<e>> |->
                      [event |-> DispatchKeyEvent(<<e>>)[i],
                       perf |-> DispatchEventToPerf(DispatchKeyEvent(<<e>>)[i])]]
  <2>1. DOMAIN <<e>> = 1..1 /\ Len(told') = 1
    BY <1>1
  <2>2. told'[1].event = e
    BY <1>1, <2>1 DEF DispatchKeyEvent
  <2> QED BY <2>1, <2>2 DEF Last
<1>2. CASE told' = [i \in DOMAIN <<e, s>> |->
                      [event |-> DispatchKeyEvent(<<e, s>>)[i],
                       perf |-> DispatchEventToPerf(DispatchKeyEvent(<<e, s>>)[i])]]
  <2>1. DOMAIN <<e, s>> = 1..2 /\ Len(told') = 2
    BY <1>2
  <2>2. told'[2].event = e
    BY <1>2, <2>1 DEF DispatchKeyEvent
  <2> QED BY <2>1, <2>2 DEF Last
<1> QED BY <1>1, <1>2 DEF Tell, Recognized

\* What is appended is last.
LEMMA AppendLast ==
  ASSUME NEW S, NEW s \in Seq(S), NEW x \in S
  PROVE  /\ Append(s, x) \in Seq(S)
         /\ Append(s, x) # <<>>
         /\ Last(Append(s, x)) = x
BY AppendProperties DEF Last

\* What is left of a sequence is a sequence.
LEMMA RemoveAtSeq ==
  ASSUME NEW S, NEW s \in Seq(S), NEW i \in DOMAIN s
  PROVE  RemoveAt(s, i) \in Seq(S)
<1>1. i \in 1..Len(s) /\ Len(s) \in Nat
  BY LenProperties
<1>2. SubSeq(s, 1, i-1) \in Seq(S)
  BY <1>1, ElementOfSeq, SubSeqProperties
<1>3. SubSeq(s, i+1, Len(s)) \in Seq(S)
  BY <1>1, ElementOfSeq, SubSeqProperties
<1> QED BY <1>2, <1>3, ConcatProperties DEF RemoveAt

\* No key is held, no timer runs and nothing is posted.
LEMMA InitInv == Init => Inv
<1> SUFFICES ASSUME Init PROVE Inv
  OBVIOUS
<1>1. held \in Seq(Keys) /\ posted \in Seq(Posted) /\ Len(posted) = 0
  <2>1. held = <<>> /\ posted = <<>>
    BY DEF Init
  <2>2. <<>> \in Seq(Keys) /\ <<>> \in Seq(Posted) /\ Len(<<>>) = 0
    OBVIOUS
  <2> QED BY <2>1, <2>2
<1>2. repeat \in [key : Keys, count : Nat, isInitialDelay : BOOLEAN]
  <2>1. PICK key \in Keys : repeat = [key |-> key, count |-> 0, isInitialDelay |-> FALSE]
    BY DEF Init
  <2> QED BY <2>1
<1>3. handler = [at |-> "idle", generation |-> 0] /\ generation = 0 /\ timer = -1 /\ late = FALSE
  BY DEF Init, Idle
<1>4. Types
  BY <1>1, <1>2, <1>3 DEF Types
<1>5. NothingFromFuture /\ TimerRuns /\ RepeatsLast /\ PostedLast
  BY <1>1, <1>3 DEF NothingFromFuture, TimerRuns, RepeatsLast, PostedLast
<1> QED BY <1>4, <1>5 DEF Inv

\* Every step of the main thread and of the handler preserves the invariant.
LEMMA NextInv == Inv /\ [Next]_keyVars => Inv'
<1> SUFFICES ASSUME Inv, [Next]_keyVars PROVE Inv'
  OBVIOUS
<1> USE DEF Inv
<1>0. Len(posted) \in Nat /\ \A i \in 1..Len(posted) : posted[i] \in Posted
  BY LenProperties, ElementOfSeq DEF Types
<1>a. /\ Stopped \in [key : Keys, count : Nat, isInitialDelay : BOOLEAN]
      /\ Stopped.key = repeat.key
  BY DEF Stopped, Types
<1>1. ASSUME NEW key \in Keys, Began(key) PROVE Inv'
  <2>1. held' \in Seq(Keys) /\ held' # <<>> /\ Last(held') = key
    BY <1>1, AppendLast DEF Began, Types
  <2>2. Types'
    BY <1>1, <2>1 DEF Began, Types
  <2>3. NothingFromFuture'
    BY <1>0, <1>1, SMTT(30) DEF Began, Types, NothingFromFuture, Posted
  <2>4. ~late' => TimerRuns' /\ RepeatsLast' /\ PostedLast'
    BY <1>0, <1>1, <2>1, SMTT(30) DEF Began, Types, NothingFromFuture, Posted, TimerRuns, RepeatsLast,
       PostedLast
  <2> QED BY <2>2, <2>3, <2>4
<1>2. ASSUME NEW key \in Keys, Changed(key) PROVE Inv'
  BY <1>2 DEF Changed, Types, NothingFromFuture, TimerRuns, RepeatsLast, PostedLast
<1>3. ASSUME NEW key \in Keys, Ended(key) PROVE Inv'
  <2>1. held' \in Seq(Keys)
    <3>1. PICK i \in DOMAIN held : held[i] = key
      BY <1>3 DEF Ended, ToSet
    <3>2. (CHOOSE j \in DOMAIN held : held[j] = key) \in DOMAIN held
      BY <3>1
    <3> QED BY <1>3, <3>2, RemoveAtSeq DEF Ended, Types
  <2>2. Types'
    BY <1>3, <1>a, <2>1 DEF Ended, Types
  <2>3. NothingFromFuture'
    BY <1>0, <1>3, SMTT(30) DEF Ended, Types, NothingFromFuture, Posted
  <2>4. TimerRuns' /\ RepeatsLast' /\ PostedLast'
    BY <1>0, <1>3, SMTT(30) DEF Ended, Types, NothingFromFuture, Posted, TimerRuns, RepeatsLast, PostedLast
  <2> QED BY <2>2, <2>3, <2>4
<1>4. ASSUME Fire PROVE Inv'
  BY <1>4 DEF Fire, Idle, Types, NothingFromFuture, TimerRuns, RepeatsLast, PostedLast
<1>5. ASSUME Post PROVE Inv'
  <2> DEFINE b == [generation |-> handler.generation, key |-> repeat.key,
                   count |-> repeat.count + 1]
  <2>1. b \in Posted
    BY DEF Types, Posted
  <2>2. posted' = Append(posted, b)
    BY <1>5 DEF Post
  <2>3. /\ posted' \in Seq(Posted) /\ Len(posted') = Len(posted) + 1
        /\ \A i \in 1..Len(posted) : posted'[i] = posted[i]
        /\ posted'[Len(posted) + 1] = b
    BY <2>1, <2>2, AppendProperties DEF Types
  <2>4. Types'
    BY <1>5, <2>3, SMTT(30) DEF Post, Types
  <2>5. \A i \in 1..Len(posted') : posted'[i] = b \/ (i \in 1..Len(posted) /\ posted'[i] = posted[i])
    BY <1>0, <2>3
  <2> HIDE DEF b
  <2>6. b.generation = handler.generation /\ b.key = repeat.key
    BY DEF b
  <2>7. UNCHANGED <<held, generation, timer, late>> /\ repeat'.key = repeat.key
    BY <1>5 DEF Post, Types
  <2>8. /\ handler.at = "entered" /\ handler'.at = "posted"
        /\ handler'.generation = handler.generation
    BY <1>5 DEF Post, Types
  <2>9. NothingFromFuture'
    BY <2>5, <2>6, <2>7, <2>8 DEF NothingFromFuture
  <2>10. ~late' => TimerRuns' /\ RepeatsLast' /\ PostedLast'
    BY <2>5, <2>6, <2>7, <2>8 DEF TimerRuns, RepeatsLast, PostedLast
  <2> QED BY <2>4, <2>9, <2>10
<1>6. ASSUME LookAgain PROVE Inv'
  <2>1. UNCHANGED <<held, generation, timer, posted, late>>
    BY <1>6 DEF LookAgain
  <2>2. /\ repeat' \in [key : Keys, count : Nat, isInitialDelay : BOOLEAN]
        /\ repeat'.key = repeat.key
    BY <1>6 DEF LookAgain, Types
  <2>3. \/ handler' = [at |-> "idle", generation |-> 0]
        \/ /\ handler.at = "posted" /\ handler' = [handler EXCEPT !.at = "stopping"]
    BY <1>6 DEF LookAgain, Idle
  <2>4. Types'
    BY <2>1, <2>2, <2>3 DEF Types
  <2>5. NothingFromFuture'
    BY <2>1, <2>3 DEF NothingFromFuture, Types
  <2>6. ~late' => TimerRuns' /\ RepeatsLast' /\ PostedLast'
    BY <2>1, <2>2, <2>3 DEF Types, TimerRuns, RepeatsLast, PostedLast
  <2> QED BY <2>4, <2>5, <2>6
<1>7. ASSUME Stop PROVE Inv'
  <2>1. /\ UNCHANGED <<held, posted>>
        /\ handler.at = "stopping"
        /\ late' = (late \/ generation # handler.generation)
        /\ generation' = generation + 1 /\ timer' = -1 /\ repeat' = Stopped
    BY <1>7 DEF Stop
  <2>2. handler' = [at |-> "starting", generation |-> generation + 1]
    BY <1>7 DEF Stop, Types
  <2>3. Types'
    BY <1>a, <2>1, <2>2 DEF Types
  <2>4. NothingFromFuture'
    BY <1>0, <2>1, <2>2, SMTT(30) DEF Types, NothingFromFuture, Posted
  <2>5. \A i \in 1..Len(posted') : posted'[i].generation # generation'
    BY <1>0, <2>1, SMTT(30) DEF Types, NothingFromFuture, Posted
  <2>6. ASSUME ~late' PROVE held # <<>> /\ repeat.key = Last(held)
    BY <2>1, <2>6 DEF Types, TimerRuns, RepeatsLast
  <2>7. ~late' => TimerRuns' /\ RepeatsLast' /\ PostedLast'
    BY <1>a, <2>1, <2>2, <2>5, <2>6 DEF TimerRuns, RepeatsLast, PostedLast
  <2> QED BY <2>3, <2>4, <2>7
<1>8. ASSUME Start PROVE Inv'
  <2>1. /\ UNCHANGED <<held, posted>>
        /\ handler.at = "starting"
        /\ late' = (late \/ generation # handler.generation)
        /\ timer' = generation'
        /\ handler' = [at |-> "idle", generation |-> 0]
    BY <1>8 DEF Start, Idle
  <2>2. /\ repeat' \in [key : Keys, count : Nat, isInitialDelay : BOOLEAN]
        /\ repeat'.key = repeat.key
    BY <1>8, <1>a DEF Start, Types
  <2>3. generation \in Nat /\ generation' \in {generation, generation + 1}
    BY <1>8 DEF Start, Types
  <2>4. late \in BOOLEAN /\ late' \in BOOLEAN
    BY <2>1 DEF Types
  <2>5. Types'
    BY <2>1, <2>2, <2>3, <2>4 DEF Types
  <2>6. NothingFromFuture'
    BY <1>0, <2>1, <2>3 DEF NothingFromFuture, Posted
  <2>7. ASSUME ~late' PROVE held # <<>> /\ repeat.key = Last(held)
    BY <2>1, <2>7 DEF RepeatsLast
  <2>8. ASSUME ~late' PROVE PostedLast'
    <3>0. NothingFromFuture /\ PostedLast
      BY <2>1, <2>8
    <3>1. ASSUME NEW i \in 1..Len(posted), posted[i].generation = generation'
          PROVE  posted[i].key = Last(held)
      <4>1. posted[i].generation \in Nat /\ posted[i].generation <= generation
        BY <1>0, <3>0 DEF NothingFromFuture, Posted
      <4>2. generation' = generation
        BY <2>3, <3>1, <4>1
      <4> QED BY <3>0, <3>1, <4>2 DEF PostedLast
    <3> QED BY <2>1, <3>1 DEF PostedLast
  <2>9. ~late' => TimerRuns' /\ RepeatsLast'
    BY <2>1, <2>2, <2>3, <2>7 DEF TimerRuns, RepeatsLast
  <2> QED BY <2>5, <2>6, <2>8, <2>9
<1>9. ASSUME RunPosted PROVE Inv'
  <2>1. /\ posted' \in Seq(Posted) /\ Len(posted') = Len(posted) - 1
        /\ \A i \in 1..Len(posted') : i + 1 \in 1..Len(posted) /\ posted'[i] = posted[i + 1]
    BY <1>0, <1>9, HeadTailProperties DEF RunPosted, Types
  <2>2. UNCHANGED <<held, generation, timer, repeat, handler, late>>
    BY <1>9 DEF RunPosted
  <2>3. Types'
    BY <2>1, <2>2 DEF Types
  <2>4. NothingFromFuture'
    BY <2>1, <2>2 DEF NothingFromFuture
  <2>5. ~late' => TimerRuns' /\ RepeatsLast' /\ PostedLast'
    BY <2>1, <2>2 DEF TimerRuns, RepeatsLast, PostedLast
  <2> QED BY <2>3, <2>4, <2>5
<1>10. CASE UNCHANGED keyVars
  BY <1>10 DEF keyVars, Types, NothingFromFuture, TimerRuns, RepeatsLast, PostedLast
<1> QED BY <1>1, <1>2, <1>3, <1>4, <1>5, <1>6, <1>7, <1>8, <1>9, <1>10 DEF Next, Press, Repeat

\* The invariant holds in every state.
THEOREM Invariant == Spec => []Inv
BY InitInv, NextInv, PTL DEF Spec

\* What is told as a repeat is told of the key that went down last and is still held, unless
\* a handler replaced a timer that was not its own.
THEOREM HeldKeyRepeats == Spec => RepeatsOfHeldKey
<1> DEFINE Told == ~late' /\ posted' # posted /\ Len(posted') < Len(posted) /\ told' # <<>> =>
                     /\ held # <<>> /\ Last(held) = Last(told').event.key
                     /\ Last(told').event.count >= 1
<1>1. Inv /\ [Next]_keyVars => [Told]_keyVars
  <2> SUFFICES ASSUME Inv, Next, ~late', Len(posted') < Len(posted), told' # <<>>
               PROVE  /\ held # <<>> /\ Last(held) = Last(told').event.key
                      /\ Last(told').event.count >= 1
    OBVIOUS
  <2>1. Len(posted) \in Nat
    BY LenProperties DEF Inv, Types
  <2>2. ~Press
    BY <2>1 DEF Press, Began, Changed, Ended
  <2>3. ~Fire /\ ~LookAgain /\ ~Stop /\ ~Start
    BY <2>1 DEF Fire, LookAgain, Stop, Start
  <2>4. ~Post
    <3>1. SUFFICES ASSUME Post PROVE FALSE
      OBVIOUS
    <3>2. [generation |-> handler.generation, key |-> repeat.key,
           count |-> repeat.count + 1] \in Posted
      BY DEF Inv, Types, Posted
    <3>3. Len(posted') = Len(posted) + 1
      BY <3>1, <3>2, AppendProperties DEF Post, Inv, Types
    <3> QED BY <2>1, <3>3
  <2>5. RunPosted
    BY <2>2, <2>3, <2>4 DEF Next, Repeat
  <2>6. /\ posted # <<>> /\ Head(posted).generation = generation
        /\ Tell(Head(posted).key, "DOWN", Head(posted).count)
        /\ ~late
    BY <2>5 DEF RunPosted
  <2>7. Head(posted) = posted[1] /\ 1 \in 1..Len(posted) /\ posted[1] \in Posted
    BY <2>6, LenProperties, ElementOfSeq DEF Inv, Types
  <2>8. held # <<>> /\ posted[1].key = Last(held)
    BY <2>6, <2>7 DEF Inv, TimerRuns, RepeatsLast, PostedLast
  <2>9. posted[1].count >= 1
    BY <2>7 DEF Posted
  <2> QED BY <2>6, <2>7, <2>8, <2>9, TellLast
<1>2. Spec => []Inv
  BY Invariant
<1> QED BY <1>1, <1>2, PTL DEF Spec, RepeatsOfHeldKey

-----------------------------------------------------------------------------
(* TextInput.  EditingAgrees is inductive.                                  *)

\* The bounds are numbers.
LEMMA TextBounds ==
  MaxConnections \in Nat /\ MaxTexts \in Nat /\ MaxTyped \in Nat
BY TextAssumption

LEMMA NobodyIsNone ==
  Nobody \notin Inputs /\ Nobody \notin Views
BY TextAssumption DEF Views

LEMMA TaskAt ==
  ASSUME TextTypeOK
  PROVE  /\ Len(tasks) \in Nat /\ DOMAIN tasks = 1..Len(tasks)
         /\ \A i \in 1..Len(tasks) : tasks[i] \in TextTask
BY LenProperties, ElementOfSeq DEF TextTypeOK

\* What a view's block posts is of its field; if it is of the living connection it is posted.
LEMMA PostedTasks ==
  ASSUME TextTypeOK, ReachesItsField, NEW v \in Views, NEW n \in 1..2, NEW kind \in {"value", "action"},
         NEW t \in 0..MaxTexts
  PROVE  /\ PostedBy(v, n, kind, t) \in Seq(TextTask)
         /\ Len(PostedBy(v, n, kind, t)) \in {0, n}
         /\ \A i \in 1..Len(PostedBy(v, n, kind, t)) :
              PostedBy(v, n, kind, t)[i] =
                [kind |-> kind, id |-> connection.id, text |-> t, of |-> connection.client]
         /\ views[v].block = connection.id /\ views[v].client = connection.id /\ connection.id # 0
              => Len(PostedBy(v, n, kind, t)) = n
         /\ PostedBy(v, n, kind, t) = <<>> <=> Len(PostedBy(v, n, kind, t)) = 0
<1> DEFINE p == PostedBy(v, n, kind, t)
           e == [kind |-> kind, id |-> connection.id, text |-> t, of |-> connection.client]
<1>1. CASE views[v].block = views[v].client /\ views[v].client = connection.id /\ connection.id # 0
  <2>1. views[v].field = connection.client
    BY <1>1 DEF ReachesItsField
  <2>2. p = [i \in 1..n |-> e]
    BY <1>1, <2>1 DEF PostedBy
  <2>3. e \in TextTask
    BY <1>1, TextAssumption DEF TextTypeOK, TextTask
  <2> HIDE DEF e, p
  <2>4. p \in Seq(TextTask) /\ Len(p) = n /\ \A i \in 1..n : p[i] = e
    BY <2>2, <2>3
  <2>5. p # <<>>
    BY <2>4
  <2> QED BY <2>4, <2>5 DEF e, p
<1>2. CASE ~(views[v].block = views[v].client /\ views[v].client = connection.id /\ connection.id # 0)
  <2>1. p = <<>>
    BY <1>2 DEF PostedBy
  <2> HIDE DEF p
  <2>2. p \in Seq(TextTask) /\ Len(p) = 0
    BY <2>1
  <2> QED BY <1>2, <2>1, <2>2 DEF p
<1> QED BY <1>1, <1>2

\* The queue with new tasks at its end.
LEMMA MoreTasks ==
  ASSUME TextTypeOK, NEW new \in Seq(TextTask)
  PROVE  /\ tasks \o new \in Seq(TextTask)
         /\ Len(tasks \o new) = Len(tasks) + Len(new) /\ Len(new) \in Nat
         /\ \A i \in 1..Len(tasks \o new) :
              \/ i \in 1..Len(tasks) /\ (tasks \o new)[i] = tasks[i]
              \/ /\ i > Len(tasks) /\ i - Len(tasks) \in 1..Len(new)
                 /\ (tasks \o new)[i] = new[i - Len(tasks)]
         /\ \A i \in 1..Len(tasks) : (tasks \o new)[i] = tasks[i]
BY ConcatProperties, LenProperties DEF TextTypeOK

LEMMA InitEdits == TextInit => EditingAgrees
<1> SUFFICES ASSUME TextInit PROVE EditingAgrees
  OBVIOUS
<1> USE TextBounds
<1>1. tasks = <<>> /\ tasks \in Seq(TextTask) /\ Len(tasks) = 0 /\ DOMAIN tasks = {}
  BY DEF TextInit
<1>2. views \in [Views -> TextView]
  BY DEF TextInit, TextView
<1>3. TextTypeOK
  <2>1. connection \in [id : 0..MaxConnections, client : Inputs \cup {Nobody}] /\ connection.id = 0
    BY DEF TextInit
  <2>2. text \in [Inputs -> 0..MaxTexts] /\ texts \in 0..MaxTexts
    BY DEF TextInit
  <2>3. /\ active \in Views /\ responder \in Views \cup {Nobody} /\ Len(tasks) <= MaxTyped
        /\ hides \in 0..MaxTyped /\ heard = <<>> /\ astray \in BOOLEAN
    <3>1. active \in Views
      BY DEF TextInit, Views
    <3>2. responder = Nobody /\ hides = 0 /\ heard = <<>> /\ astray = FALSE
      BY DEF TextInit
    <3>3. responder \in Views \cup {Nobody} /\ Len(tasks) <= MaxTyped /\ hides \in 0..MaxTyped
      BY <1>1, <3>2
    <3> QED BY <3>1, <3>2, <3>3
  <2> QED BY <1>1, <1>2, <2>1, <2>2, <2>3 DEF TextTypeOK
<1>4. ReachesItsField
  BY <1>1 DEF TextInit, ReachesItsField
<1>5. SpeaksForConnection /\ FieldAndViewAgree
  BY DEF TextInit, SpeaksForConnection, FieldAndViewAgree
<1> QED BY <1>3, <1>4, <1>5 DEF EditingAgrees

\* Nothing that waits is of a connection to come.
LEMMA RequestKeeps ==
  ASSUME EditingAgrees, NEW f \in Inputs, RequestKeyboard(f)
  PROVE  EditingAgrees'
<1> USE TextBounds
<1>0. TextTypeOK /\ ReachesItsField /\ SpeaksForConnection /\ FieldAndViewAgree
  BY DEF EditingAgrees
<1> DEFINE new == [id |-> connection.id + 1, client |-> f]
           v == ViewOf(f)
<1>1. /\ connection' = new /\ new.id = connection.id + 1 /\ new.client = f
      /\ active' = v /\ responder' = v /\ heard' = <<>>
      /\ UNCHANGED <<text, texts, tasks, hides>>
      /\ views' = [views EXCEPT ![v] = ShowKeyboard(new)]
      /\ connection.id \in 0..MaxConnections /\ connection.id < MaxConnections
      /\ v \in Views
  BY <1>0 DEF RequestKeyboard, Attach, ViewOf, Views, TextTypeOK
<1> DEFINE w == ShowKeyboard(new)
<1>2. /\ w \in TextView
      /\ w.client = new.id /\ w.block = new.id /\ w.field = f
  <2> DEFINE x == SetTextInputState(views[ViewOf(new.client)], text[new.client])
  <2>1. x \in TextView
    <3>1. views[ViewOf(new.client)] \in TextView /\ text[new.client] \in 0..MaxTexts
      BY <1>0, <1>1 DEF TextTypeOK
    <3> QED BY <3>1 DEF SetTextInputState, TextView
  <2>2. new.id \in 0..MaxConnections /\ new.client = f
    BY <1>1
  <2>3. w = [x EXCEPT !.client = new.id, !.block = new.id, !.field = new.client]
    BY DEF ShowKeyboard
  <2> HIDE DEF x, w, new
  <2> QED BY <2>1, <2>2, <2>3 DEF TextView
<1>3. astray' = (w.text # text[f])
  BY <1>0, <1>1 DEF RequestKeyboard, TextTypeOK
<1> HIDE DEF w, v, new
<1>4. views' \in [Views -> TextView] /\ views'[v] = w /\ \A u \in Views : u # v => views'[u] = views[u]
  BY <1>0, <1>1, <1>2 DEF TextTypeOK, w
<1>5. connection' \in [id : 0..MaxConnections, client : Inputs \cup {Nobody}]
  BY <1>0, <1>1 DEF TextTypeOK, new
<1>6. v # Nobody
  BY <1>1, NobodyIsNone
<1>7. TextTypeOK'
  BY <1>0, <1>1, <1>3, <1>4, <1>5 DEF TextTypeOK
<1>8. \A i \in DOMAIN tasks : tasks[i].id < new.id
  <2> SUFFICES ASSUME NEW i \in DOMAIN tasks PROVE tasks[i].id < new.id
    OBVIOUS
  <2>1. tasks[i] \in TextTask /\ tasks[i].id <= connection.id
    BY <1>0, TaskAt DEF ReachesItsField
  <2> QED BY <1>1, <2>1 DEF TextTask
<1>9. ReachesItsField'
  <2>1. \A i \in DOMAIN tasks : tasks[i].id <= new.id /\ tasks[i].id # new.id
    BY <1>0, <1>1, <1>8, TaskAt DEF TextTask
  <2>2. \A u \in Views : u # v => views'[u].client <= new.id /\ views'[u].client # new.id
    <3> SUFFICES ASSUME NEW u \in Views, u # v
                 PROVE  views'[u].client <= new.id /\ views'[u].client # new.id
      OBVIOUS
    <3>1. views[u] \in TextView /\ views[u].client <= connection.id /\ views'[u] = views[u]
      BY <1>0, <1>4 DEF ReachesItsField, TextTypeOK
    <3>2. views[u].client \in Int
      BY <3>1 DEF TextView
    <3> QED BY <1>1, <3>1, <3>2
  <2> QED BY <1>1, <1>2, <1>4, <2>1, <2>2 DEF ReachesItsField
<1>10. SpeaksForConnection'
  BY <1>1, <1>2, <1>4 DEF SpeaksForConnection
<1>11. FieldAndViewAgree'
  <2>1. ~Waiting' /\ \A i \in DOMAIN tasks : ~Waits(i)'
    BY <1>0, <1>1, <1>8, TaskAt DEF Waiting, Waits, TextTask
  <2> QED BY <1>1, <1>3, <1>4, <2>1 DEF FieldAndViewAgree
<1> QED BY <1>7, <1>9, <1>10, <1>11 DEF EditingAgrees

\* A view of another connection, or of none.
LEMMA ViewForgets ==
  ASSUME NEW y \in TextView, NEW c \in 0..MaxConnections
  PROVE  /\ [y EXCEPT !.client = c, !.block = c] \in TextView
         /\ [y EXCEPT !.client = c, !.block = c].client = c
BY DEF TextView

LEMMA CloseKeeps ==
  ASSUME EditingAgrees, CloseKeyboard
  PROVE  EditingAgrees'
<1> USE TextBounds
<1>0. TextTypeOK /\ ReachesItsField
  BY DEF EditingAgrees
<1> DEFINE w == [views[active] EXCEPT !.client = 0, !.block = 0]
<1>1. w \in TextView /\ w.client = 0 /\ views' = [views EXCEPT ![active] = w] /\ active \in Views
  <2>1. views[active] \in TextView /\ active \in Views
    BY <1>0 DEF TextTypeOK
  <2>2. 0 \in 0..MaxConnections
    BY TextBounds
  <2>4. w \in TextView /\ w.client = 0
    BY <2>1, <2>2, ViewForgets
  <2>3. views' = [views EXCEPT ![active] = w]
    BY <1>0 DEF CloseKeyboard, TextTypeOK
  <2> QED BY <2>1, <2>3, <2>4
<1> HIDE DEF w
<1>2. /\ views' \in [Views -> TextView]
      /\ \A u \in Views : views'[u] = views[u] \/ views'[u].client = 0
  BY <1>0, <1>1 DEF TextTypeOK
<1>3. /\ connection.id # 0 /\ responder' = Nobody /\ heard' = <<>>
      /\ UNCHANGED <<connection, active, text, texts, tasks, hides, astray>>
  BY DEF CloseKeyboard
<1>4. TextTypeOK'
  BY <1>0, <1>2, <1>3 DEF TextTypeOK
<1>5. ReachesItsField'
  BY <1>0, <1>2, <1>3 DEF ReachesItsField, TextTypeOK
<1>6. SpeaksForConnection' /\ FieldAndViewAgree'
  BY <1>3 DEF SpeaksForConnection, FieldAndViewAgree
<1> QED BY <1>4, <1>5, <1>6 DEF EditingAgrees

LEMMA SetEditingKeeps ==
  ASSUME EditingAgrees, NEW f \in Inputs, SetEditingState(f)
  PROVE  EditingAgrees'
<1> USE TextBounds
<1>0. TextTypeOK /\ ReachesItsField /\ SpeaksForConnection /\ FieldAndViewAgree
  BY DEF EditingAgrees
<1>1. /\ texts' \in 0..MaxTexts /\ text' = [text EXCEPT ![f] = texts'] /\ heard' = <<>>
      /\ UNCHANGED <<connection, active, responder, tasks, hides>>
  BY <1>0 DEF SetEditingState, TextTypeOK
<1>2. text' \in [Inputs -> 0..MaxTexts] /\ text'[f] = texts' /\ \A g \in Inputs : g # f => text'[g] = text[g]
  BY <1>0, <1>1 DEF TextTypeOK
<1>3. CASE f = connection.client
  <2> DEFINE w == SetTextInputState(views[active], texts')
  <2>1. /\ views' = [views EXCEPT ![active] = w] /\ astray' = (views[active].marked \/ Waiting)
        /\ active \in Views
    BY <1>0, <1>3 DEF SetEditingState, TextTypeOK
  <2>2. /\ w \in TextView /\ w.client = views[active].client /\ w.block = views[active].block
        /\ w.field = views[active].field
        /\ ~views[active].marked => w.text = texts'
    <3>1. views[active] \in TextView
      BY <1>0, <2>1 DEF TextTypeOK
    <3> QED BY <1>1, <3>1 DEF SetTextInputState, TextView
  <2> HIDE DEF w
  <2>3. /\ views' \in [Views -> TextView] /\ views'[active] = w
        /\ \A u \in Views : /\ views'[u].client = views[u].client
                            /\ views'[u].block = views[u].block /\ views'[u].field = views[u].field
    BY <1>0, <2>1, <2>2 DEF TextTypeOK
  <2>4. astray' \in BOOLEAN
    BY <1>0, <2>1 DEF TextTypeOK, TextView, Waiting
  <2>5. TextTypeOK'
    BY <1>0, <1>1, <1>2, <2>3, <2>4 DEF TextTypeOK
  <2>6. ReachesItsField'
    BY <1>0, <1>1, <2>3 DEF ReachesItsField
  <2>7. SpeaksForConnection'
    BY <1>0, <1>1, <2>1, <2>3, TextAssumption DEF SpeaksForConnection
  <2>8. FieldAndViewAgree'
    <3> SUFFICES ASSUME responder # Nobody, ~astray' PROVE FieldAndViewAgree'
      BY <1>1 DEF FieldAndViewAgree
    <3>1. ~Waiting /\ ~views[active].marked /\ responder = active
      BY <1>0, <2>1 DEF SpeaksForConnection
    <3>2. \A i \in DOMAIN tasks' : ~Waits(i)'
      BY <1>1, <3>1 DEF Waiting, Waits
    <3>3. views'[responder'].text = text'[connection'.client]
      BY <1>1, <1>2, <1>3, <2>2, <2>3, <3>1
    <3> QED BY <3>2, <3>3 DEF FieldAndViewAgree
  <2> QED BY <2>5, <2>6, <2>7, <2>8 DEF EditingAgrees
<1>4. CASE f # connection.client
  <2>1. UNCHANGED <<views, astray>>
    BY <1>4 DEF SetEditingState
  <2>2. TextTypeOK'
    BY <1>0, <1>1, <1>2, <2>1 DEF TextTypeOK
  <2>3. ReachesItsField' /\ SpeaksForConnection'
    BY <1>0, <1>1, <2>1 DEF ReachesItsField, SpeaksForConnection
  <2>4. responder # Nobody => text'[connection.client] = text[connection.client]
    BY <1>0, <1>2, <1>4 DEF TextTypeOK, SpeaksForConnection
  <2>5. FieldAndViewAgree'
    BY <1>0, <1>1, <2>1, <2>4 DEF FieldAndViewAgree, Waiting, Waits
  <2> QED BY <2>2, <2>3, <2>5 DEF EditingAgrees
<1> QED BY <1>3, <1>4

\* What is typed is the last that waits, if the view has the keyboard.
LEMMA EditKeeps ==
  ASSUME EditingAgrees, NEW v \in Views, Edit(v), responder # Nobody => v = responder
  PROVE  EditingAgrees'
<1> USE TextBounds
<1>0. TextTypeOK /\ ReachesItsField /\ SpeaksForConnection /\ FieldAndViewAgree
  BY DEF EditingAgrees
<1>1. PICK n \in {1, 2}, marked \in BOOLEAN :
        /\ texts < MaxTexts /\ Len(tasks) + n <= MaxTyped
        /\ texts' = texts + 1
        /\ views' = [views EXCEPT ![v].text = texts', ![v].marked = marked]
        /\ tasks' = tasks \o PostedBy(v, n, "value", texts')
        /\ astray' = (astray /\ PostedBy(v, n, "value", texts') = <<>>)
        /\ heard' = <<>> /\ UNCHANGED <<connection, active, responder, text, hides>>
  BY DEF Edit
<1> DEFINE new == PostedBy(v, n, "value", texts')
           w == [views[v] EXCEPT !.text = texts', !.marked = marked]
           e == [kind |-> "value", id |-> connection.id, text |-> texts', of |-> connection.client]
<1>2. n \in 1..2 /\ texts' \in 0..MaxTexts
  BY <1>0, <1>1 DEF TextTypeOK
<1>3. /\ new \in Seq(TextTask) /\ Len(new) \in {0, n}
      /\ \A i \in 1..Len(new) : new[i] = e
      /\ views[v].block = connection.id /\ views[v].client = connection.id /\ connection.id # 0
              => Len(new) = n
      /\ new = <<>> <=> Len(new) = 0
  <2>1. "value" \in {"value", "action"}
    OBVIOUS
  <2> QED BY <1>0, <1>2, <2>1, PostedTasks
<1>4. /\ w \in TextView /\ w.text = texts' /\ w.client = views[v].client
      /\ w.block = views[v].block /\ w.field = views[v].field
      /\ views' = [views EXCEPT ![v] = w]
  <2>1. views[v] \in TextView
    BY <1>0 DEF TextTypeOK
  <2>2. /\ w \in TextView /\ w.text = texts' /\ w.client = views[v].client
        /\ w.block = views[v].block /\ w.field = views[v].field
    BY <1>2, <2>1 DEF TextView
  <2>3. views' = [views EXCEPT ![v] = w]
    BY <1>0, <1>1 DEF TextTypeOK
  <2> QED BY <2>2, <2>3
<1>5. tasks' = tasks \o new /\ astray' = (astray /\ new = <<>>)
  BY <1>1
<1>e. e.kind = "value" /\ e.id = connection.id /\ e.text = texts' /\ e.of = connection.client
  OBVIOUS
<1> HIDE DEF new, w, e
<1>6. /\ views' \in [Views -> TextView] /\ views'[v] = w
      /\ \A u \in Views : /\ views'[u].client = views[u].client
                          /\ views'[u].block = views[u].block /\ views'[u].field = views[u].field
  BY <1>0, <1>4 DEF TextTypeOK
<1>7. /\ tasks' \in Seq(TextTask) /\ Len(tasks') = Len(tasks) + Len(new) /\ Len(tasks) \in Nat
      /\ \A i \in 1..Len(tasks') :
              \/ i \in 1..Len(tasks) /\ tasks'[i] = tasks[i]
              \/ /\ i > Len(tasks) /\ i - Len(tasks) \in 1..Len(new)
                 /\ tasks'[i] = new[i - Len(tasks)]
      /\ DOMAIN tasks' = 1..Len(tasks') /\ DOMAIN tasks = 1..Len(tasks)
  BY <1>0, <1>3, <1>5, MoreTasks, TaskAt
<1>8. TextTypeOK'
  <2>1. Len(tasks') <= MaxTyped
    BY <1>1, <1>3, <1>7
  <2>2. astray' \in BOOLEAN
    BY <1>0, <1>5 DEF TextTypeOK
  <2> QED BY <1>0, <1>1, <1>2, <1>6, <1>7, <2>1, <2>2 DEF TextTypeOK
<1>9. ReachesItsField'
  <2>1. \A i \in 1..Len(tasks') : /\ tasks'[i].id <= connection.id
                                  /\ tasks'[i].id = connection.id => tasks'[i].of = connection.client
    <3> SUFFICES ASSUME NEW i \in 1..Len(tasks')
                 PROVE  /\ tasks'[i].id <= connection.id
                        /\ tasks'[i].id = connection.id => tasks'[i].of = connection.client
      OBVIOUS
    <3>1. CASE i \in 1..Len(tasks) /\ tasks'[i] = tasks[i]
      BY <1>0, <1>7, <3>1 DEF ReachesItsField
    <3>2. CASE i - Len(tasks) \in 1..Len(new) /\ tasks'[i] = new[i - Len(tasks)]
      <4>1. tasks'[i].id = connection.id /\ tasks'[i].of = connection.client
        BY <1>3, <1>e, <3>2
      <4>2. connection.id \in Int
        BY <1>0 DEF TextTypeOK
      <4> QED BY <4>1, <4>2
    <3> QED BY <1>7, <3>1, <3>2
  <2> QED BY <1>0, <1>1, <1>6, <1>7, <2>1 DEF ReachesItsField
<1>10. SpeaksForConnection'
  BY <1>0, <1>1, <1>6 DEF SpeaksForConnection, TextTypeOK
<1>11. FieldAndViewAgree'
  <2> SUFFICES ASSUME responder # Nobody PROVE FieldAndViewAgree'
    BY <1>1 DEF FieldAndViewAgree
  <2>1. v = responder /\ Len(new) = n
    BY <1>0, <1>3 DEF SpeaksForConnection
  <2>2. PICK k \in DOMAIN tasks' : /\ k = Len(tasks') /\ Waits(k)'
                                   /\ tasks'[k].text = texts'
    <3>1. Len(tasks') \in 1..Len(tasks') /\ ~(Len(tasks') \in 1..Len(tasks)) /\ Len(tasks') - Len(tasks) = n
      BY <1>2, <1>7, <2>1
    <3>2. tasks'[Len(tasks')] = new[n] /\ n \in 1..Len(new)
      BY <1>2, <1>7, <2>1, <3>1
    <3>3. tasks'[Len(tasks')] = e
      BY <1>3, <3>2
    <3>4. /\ tasks'[Len(tasks')].kind = "value" /\ tasks'[Len(tasks')].id = connection'.id
          /\ tasks'[Len(tasks')].text = texts'
      BY <1>1, <1>e, <3>3
    <3>5. Len(tasks') \in DOMAIN tasks'
      BY <1>7, <3>1
    <3> QED BY <3>4, <3>5 DEF Waits
  <2>3. ASSUME NEW i \in 1..Len(tasks'), i # k PROVE k > i
    BY <1>3, <1>7, <2>2, <2>3
  <2>4. views'[responder'].text = texts'
    BY <1>1, <1>4, <1>6, <2>1
  <2>5. Waiting'
    BY <2>2 DEF Waiting
  <2>6. ASSUME NEW i \in DOMAIN tasks', \A j \in DOMAIN tasks' : j > i => ~Waits(j)'
        PROVE  tasks'[i].text = views'[responder'].text
    BY <1>7, <2>2, <2>3, <2>4, <2>6
  <2> QED BY <2>5, <2>6 DEF FieldAndViewAgree
<1> QED BY <1>8, <1>9, <1>10, <1>11 DEF EditingAgrees

LEMMA ReturnKeeps ==
  ASSUME EditingAgrees, PressReturn
  PROVE  EditingAgrees'
<1> USE TextBounds
<1>0. TextTypeOK /\ ReachesItsField /\ SpeaksForConnection /\ FieldAndViewAgree
  BY DEF EditingAgrees
<1> DEFINE new == PostedBy(responder, 1, "action", 0)
<1>1. /\ responder # Nobody /\ Len(tasks) < MaxTyped /\ tasks' = tasks \o new
      /\ hides' \in 0..MaxTyped /\ heard' = <<>>
      /\ UNCHANGED <<connection, views, active, responder, text, texts, astray>>
  BY <1>0 DEF PressReturn, TextTypeOK
<1>2. /\ new \in Seq(TextTask) /\ Len(new) \in {0, 1}
      /\ \A i \in 1..Len(new) :
           new[i] = [kind |-> "action", id |-> connection.id, text |-> 0, of |-> connection.client]
  <2>1. responder \in Views /\ 0 \in 0..MaxTexts /\ 1 \in 1..2
    BY <1>0, <1>1 DEF TextTypeOK
  <2> QED BY <1>0, <2>1, PostedTasks
<1> HIDE DEF new
<1>3. /\ tasks' \in Seq(TextTask) /\ Len(tasks') = Len(tasks) + Len(new) /\ Len(tasks) \in Nat
      /\ \A i \in 1..Len(tasks') :
              \/ i \in 1..Len(tasks) /\ tasks'[i] = tasks[i]
              \/ /\ i > Len(tasks) /\ i - Len(tasks) \in 1..Len(new)
                 /\ tasks'[i] = new[i - Len(tasks)]
      /\ \A i \in 1..Len(tasks) : i \in 1..Len(tasks') /\ tasks'[i] = tasks[i]
      /\ DOMAIN tasks' = 1..Len(tasks') /\ DOMAIN tasks = 1..Len(tasks)
  BY <1>0, <1>1, <1>2, MoreTasks, TaskAt
<1>4. TextTypeOK'
  <2>1. Len(tasks') <= MaxTyped
    <3>1. Len(tasks) + 1 <= MaxTyped /\ Len(tasks) \in Nat
      BY <1>1, <1>3
    <3>2. Len(new) \in {0, 1}
      BY <1>2
    <3>3. Len(tasks') = Len(tasks) + Len(new)
      BY <1>3
    <3>4. CASE Len(new) = 0
      BY <3>1, <3>3, <3>4
    <3>5. CASE Len(new) = 1
      BY <3>1, <3>3, <3>5
    <3> QED BY <3>2, <3>4, <3>5
  <2> QED BY <1>0, <1>1, <1>3, <2>1 DEF TextTypeOK
<1>5. ReachesItsField'
  <2>1. \A i \in 1..Len(tasks') : /\ tasks'[i].id <= connection.id
                                  /\ tasks'[i].id = connection.id => tasks'[i].of = connection.client
    <3> SUFFICES ASSUME NEW i \in 1..Len(tasks')
                 PROVE  /\ tasks'[i].id <= connection.id
                        /\ tasks'[i].id = connection.id => tasks'[i].of = connection.client
      OBVIOUS
    <3>1. CASE i \in 1..Len(tasks) /\ tasks'[i] = tasks[i]
      BY <1>0, <1>3, <3>1 DEF ReachesItsField
    <3>2. CASE i - Len(tasks) \in 1..Len(new) /\ tasks'[i] = new[i - Len(tasks)]
      <4>1. tasks'[i].id = connection.id /\ tasks'[i].of = connection.client
        BY <1>2, <3>2
      <4>2. connection.id \in Int
        BY <1>0 DEF TextTypeOK
      <4> QED BY <4>1, <4>2
    <3> QED BY <1>3, <3>1, <3>2
  <2> QED BY <1>0, <1>1, <1>3, <2>1 DEF ReachesItsField
<1>6. SpeaksForConnection'
  BY <1>0, <1>1 DEF SpeaksForConnection
<1>7. FieldAndViewAgree'
  <2>1. \A i \in 1..Len(tasks') : Waits(i)' => i \in 1..Len(tasks) /\ tasks'[i] = tasks[i]
    BY <1>2, <1>3 DEF Waits
  <2>2. \A i \in 1..Len(tasks) : Waits(i)' <=> Waits(i)
    BY <1>1, <1>3 DEF Waits
  <2>3. Waiting' <=> Waiting
    BY <1>3, <2>1, <2>2 DEF Waiting
  <2> QED BY <1>0, <1>1, <1>3, <2>1, <2>2, <2>3 DEF FieldAndViewAgree
<1> QED BY <1>4, <1>5, <1>6, <1>7 DEF EditingAgrees

\* The text of the last that waits is the view's, so the field has it when none is left.
LEMMA RunKeeps ==
  ASSUME EditingAgrees, RunTyped
  PROVE  EditingAgrees'
<1> USE TextBounds
<1>0. TextTypeOK /\ ReachesItsField /\ SpeaksForConnection /\ FieldAndViewAgree
  BY DEF EditingAgrees
<1> DEFINE task == tasks[1]
<1>1. /\ Len(tasks) \in Nat \ {0} /\ Head(tasks) = task /\ task \in TextTask
      /\ tasks' \in Seq(TextTask) /\ Len(tasks') = Len(tasks) - 1
      /\ \A i \in 1..Len(tasks') : i + 1 \in 1..Len(tasks) /\ tasks'[i] = tasks[i + 1]
      /\ DOMAIN tasks' = 1..Len(tasks') /\ DOMAIN tasks = 1..Len(tasks)
  <2>1. tasks # <<>> /\ tasks' = Tail(tasks) /\ tasks \in Seq(TextTask)
    BY <1>0 DEF RunTyped, TextTypeOK
  <2>2. Len(tasks) \in Nat \ {0} /\ Head(tasks) = task /\ 1 \in 1..Len(tasks)
    BY <2>1, LenProperties
  <2> QED BY <1>0, <2>1, <2>2, HeadTailProperties, LenProperties, ElementOfSeq
<1>2. /\ heard' = IF task.id = connection.id THEN <<connection.client, task.of>> ELSE <<>>
      /\ text' = IF task.id = connection.id /\ task.kind = "value"
                 THEN [text EXCEPT ![connection.client] = task.text] ELSE text
      /\ UNCHANGED <<connection, views, active, responder, texts, hides, astray>>
  BY <1>1 DEF RunTyped
<1>3. task.id = connection.id => /\ connection.client \in Inputs /\ task.of = connection.client
                                 /\ task.of \in Inputs
  <2>1. 1 \in DOMAIN tasks /\ task.id \in 1..MaxConnections /\ task.of \in Inputs
    BY <1>1 DEF TextTask
  <2>2. task.id = connection.id => task.of = connection.client
    BY <1>0, <2>1 DEF ReachesItsField
  <2> QED BY <1>0, <2>1, <2>2 DEF TextTypeOK
<1>4. task.text \in 0..MaxTexts
  BY <1>1 DEF TextTask
<1> HIDE DEF task
<1>5. TextTypeOK'
  <2>1. text' \in [Inputs -> 0..MaxTexts] /\ heard' \in {<<>>} \cup (Inputs \X Inputs)
    BY <1>0, <1>2, <1>3, <1>4 DEF TextTypeOK
  <2>2. Len(tasks') <= MaxTyped
    BY <1>0, <1>1 DEF TextTypeOK
  <2> QED BY <1>0, <1>1, <1>2, <2>1, <2>2 DEF TextTypeOK
<1>6. ReachesItsField'
  <2>1. heard' # <<>> => heard'[1] = heard'[2]
    BY <1>2, <1>3
  <2>2. \A i \in 1..Len(tasks') : /\ tasks'[i].id <= connection.id
                                  /\ tasks'[i].id = connection.id => tasks'[i].of = connection.client
    <3> SUFFICES ASSUME NEW i \in 1..Len(tasks')
                 PROVE  /\ tasks'[i].id <= connection.id
                        /\ tasks'[i].id = connection.id => tasks'[i].of = connection.client
      OBVIOUS
    <3>1. i + 1 \in DOMAIN tasks /\ tasks'[i] = tasks[i + 1]
      BY <1>1
    <3> QED BY <1>0, <3>1 DEF ReachesItsField
  <2> QED BY <1>0, <1>1, <1>2, <2>1, <2>2 DEF ReachesItsField
<1>7. SpeaksForConnection'
  BY <1>0, <1>2 DEF SpeaksForConnection
<1>8. FieldAndViewAgree'
  <2> SUFFICES ASSUME responder # Nobody, ~astray PROVE FieldAndViewAgree'
    BY <1>2 DEF FieldAndViewAgree
  <2>1. \A i \in 1..Len(tasks') : Waits(i)' <=> Waits(i + 1)
    BY <1>1, <1>2 DEF Waits
  <2>2. ASSUME NEW i \in 1..Len(tasks'), Waits(i)', \A j \in 1..Len(tasks') : j > i => ~Waits(j)'
        PROVE  tasks'[i].text = views[responder].text
    <3>1. Waits(i + 1) /\ i + 1 \in 1..Len(tasks)
      BY <1>1, <2>1, <2>2
    <3>2. ASSUME NEW j \in 1..Len(tasks), j > i + 1 PROVE ~Waits(j)
      <4>1. j - 1 \in 1..Len(tasks') /\ j - 1 > i /\ (j - 1) + 1 = j
        BY <1>1, <3>2
      <4> QED BY <2>1, <2>2, <4>1
    <3> QED BY <1>0, <1>1, <3>1, <3>2 DEF FieldAndViewAgree
  <2>3. ASSUME ~Waiting' PROVE views[responder].text = text'[connection.client]
    <3>1. \A j \in 1..Len(tasks) : j > 1 => ~Waits(j)
      <4> SUFFICES ASSUME NEW j \in 1..Len(tasks), j > 1 PROVE ~Waits(j)
        OBVIOUS
      <4>1. j - 1 \in 1..Len(tasks') /\ (j - 1) + 1 = j
        BY <1>1
      <4> QED BY <1>1, <2>1, <2>3, <4>1 DEF Waiting
    <3>2. 1 \in 1..Len(tasks)
      BY <1>1
    <3>3. CASE Waits(1)
      <4>1. task.text = views[responder].text
        BY <1>0, <1>1, <3>1, <3>2, <3>3 DEF FieldAndViewAgree, task
      <4>2. task.id = connection.id /\ task.kind = "value"
        BY <3>3 DEF Waits, task
      <4> QED BY <1>0, <1>2, <1>3, <4>1, <4>2 DEF TextTypeOK
    <3>4. CASE ~Waits(1)
      <4>1. ~Waiting
        BY <1>1, <3>1, <3>4 DEF Waiting
      <4>2. ~(task.id = connection.id /\ task.kind = "value")
        BY <3>4 DEF Waits, task
      <4> QED BY <1>0, <1>2, <4>1, <4>2 DEF FieldAndViewAgree
    <3> QED BY <3>3, <3>4
  <2> QED BY <1>1, <1>2, <2>2, <2>3 DEF FieldAndViewAgree
<1> QED BY <1>5, <1>6, <1>7, <1>8 DEF EditingAgrees

LEMMA TextKeeps == EditingAgrees /\ [TextNext]_textVars => EditingAgrees'
<1> SUFFICES ASSUME EditingAgrees, [TextNext]_textVars PROVE EditingAgrees'
  OBVIOUS
<1>1. ASSUME NEW f \in Inputs, RequestKeyboard(f) \/ SetEditingState(f) PROVE EditingAgrees'
  BY <1>1, RequestKeeps, SetEditingKeeps
<1>2. CASE CloseKeyboard
  BY <1>2, CloseKeeps
<1>3. CASE Type
  BY <1>3, EditKeeps DEF Type, EditingAgrees, TextTypeOK
<1>4. CASE FinishComposing
  BY <1>4, EditKeeps DEF FinishComposing, EditingAgrees, TextTypeOK, SpeaksForConnection
<1>5. CASE PressReturn
  BY <1>5, ReturnKeeps
<1>6. CASE HideTextInput
  <2>1. /\ hides' \in 0..MaxTyped /\ responder' = Nobody /\ heard' = <<>>
        /\ UNCHANGED <<connection, views, active, text, texts, tasks, astray>>
    BY <1>6, TextAssumption DEF HideTextInput, EditingAgrees, TextTypeOK
  <2> QED BY <2>1 DEF EditingAgrees, TextTypeOK, ReachesItsField, SpeaksForConnection, FieldAndViewAgree
<1>7. CASE RunTyped
  BY <1>7, RunKeeps
<1>8. CASE UNCHANGED textVars
  BY <1>8 DEF textVars, EditingAgrees, TextTypeOK, ReachesItsField, SpeaksForConnection, FieldAndViewAgree,
     Waiting, Waits
<1> QED BY <1>1, <1>2, <1>3, <1>4, <1>5, <1>6, <1>7, <1>8 DEF TextNext

\* What is typed reaches the field it was typed for; the view with the keyboard speaks for the
\* living connection, and agrees with its field.
THEOREM TypedWhereItShows == TextSpec => []EditingAgrees
BY InitEdits, TextKeeps, PTL DEF TextSpec

-----------------------------------------------------------------------------
(* TouchInput.  FingersAgree is inductive.                                  *)

\* The touches of a packet: each once, and at least one.
LEMMA PacketOrder ==
  ASSUME NEW touches \in SUBSET Touches, touches # {}, NEW order \in SetToSeqs(touches)
  PROVE  /\ Len(order) \in Nat /\ Len(order) >= 1 /\ DOMAIN order = 1..Len(order)
         /\ order \in Seq(touches)
         /\ \A i \in 1..Len(order) : order[i] \in touches
         /\ \A i, j \in 1..Len(order) : order[i] = order[j] => i = j
         /\ ToSet(order) \subseteq touches
         /\ \A t \in ToSet(order) : \E i \in 1..Len(order) : order[i] = t
         /\ \A i \in 1..Len(order) : order[i] \in ToSet(order)
<1> DEFINE n == Cardinality(touches)
<1>1. n \in Nat /\ n # 0
  BY TouchAssumption, FS_Subset, FS_CardinalityType, FS_EmptySet
<1>2. order \in [1..n -> touches] /\ \A i, j \in 1..n : i # j => order[i] # order[j]
  BY DEF SetToSeqs
<1> HIDE DEF n
<1>3. order \in Seq(touches) /\ Len(order) = n
  BY <1>1, <1>2
<1>4. DOMAIN order = 1..n
  BY <1>2
<1> QED BY <1>1, <1>2, <1>3, <1>4 DEF ToSet

\* What the window makes of a packet.
LEMMA PacketTold ==
  ASSUME NEW n \in Nat, n >= 1, NEW ids, ids = [i \in 1..n |-> ids[i]], NEW phase
  PROVE  /\ Last(Events(ids, phase)) = [id |-> ids[n], phase |-> phase, items |-> ToSet(ids),
                                        pressed |-> phase \in {"DOWN", "MOVE"}]
         /\ {e.id : e \in {f \in ToSet(Events(ids, phase)) : f.phase \in {"UP", "CANCEL"}}} =
              IF phase \in {"UP", "CANCEL"} THEN {ids[i] : i \in 1..n} ELSE {}
         /\ {e.id : e \in {f \in ToSet(Events(ids, phase)) : f.phase = "DOWN"}} =
              IF phase = "DOWN" THEN {ids[i] : i \in 1..n} ELSE {}
<1> DEFINE ev == Events(ids, phase)
           e(i) == [id |-> ids[i], phase |-> phase, items |-> ToSet(ids),
                    pressed |-> phase \in {"DOWN", "MOVE"}]
<1>1. DOMAIN ids = 1..n
  OBVIOUS
<1>2. ev = [i \in 1..n |-> e(i)]
  BY <1>1 DEF Events
<1>3. \A i \in 1..n : e(i).id = ids[i] /\ e(i).phase = phase
  OBVIOUS
<1> HIDE DEF ev, e
<1>4. DOMAIN ev = 1..n /\ \A i \in 1..n : ev[i] = e(i)
  BY <1>2
<1>5. Len(ev) = n
  BY <1>2
<1>6. Last(ev) = e(n)
  BY <1>4, <1>5 DEF Last
<1>7. ToSet(ev) = {e(i) : i \in 1..n}
  BY <1>4 DEF ToSet
<1>8. {f.id : f \in {g \in ToSet(ev) : g.phase \in {"UP", "CANCEL"}}} =
        IF phase \in {"UP", "CANCEL"} THEN {ids[i] : i \in 1..n} ELSE {}
  BY <1>3, <1>7
<1>9. {f.id : f \in {g \in ToSet(ev) : g.phase = "DOWN"}} =
        IF phase = "DOWN" THEN {ids[i] : i \in 1..n} ELSE {}
  BY <1>3, <1>7
<1> QED BY <1>6, <1>8, <1>9 DEF ev, e

LEMMA InitFingers == TouchInit => FingersAgree
<1> SUFFICES ASSUME TouchInit PROVE FingersAgree
  OBVIOUS
<1>1. DOMAIN pointerMap = {} /\ MaxPointer \in Nat /\ MaxContents \in Nat
  BY TouchAssumption DEF TouchInit
<1>2. TouchTypeOK
  BY <1>1 DEF TouchInit, TouchTypeOK
<1>3. down = {pointerMap[t].id : t \in SeenFingers}
  BY <1>1 DEF TouchInit, SeenFingers
<1>4. LastMovingPointer = {}
  BY DEF TouchInit, LastMovingPointer
<1> QED BY <1>1, <1>2, <1>3, <1>4 DEF FingersAgree

\* What is told of a packet, and what was told last.
LEMMA PacketReaches ==
  ASSUME NEW n \in Nat, n >= 1, NEW ids, ids = [i \in 1..n |-> ids[i]],
         NEW phase \in {"DOWN", "MOVE", "UP", "CANCEL"},
         ProcessPointerEvent(ids, phase), content' = content
  PROVE  /\ content = 0 => down' = down /\ current' = current
         /\ content # 0 =>
              /\ down' = CASE phase = "DOWN" -> down \cup {ids[i] : i \in 1..n}
                           [] phase = "MOVE" -> down
                           [] OTHER -> down \ {ids[i] : i \in 1..n}
              /\ LastMovingPointer' \subseteq IF phase \in {"DOWN", "MOVE"} THEN {ids[n]} ELSE {}
<1>1. CASE content = 0
  BY <1>1 DEF ProcessPointerEvent
<1>2. CASE content # 0
  <2> DEFINE last == Last(Events(ids, phase))
             up == {e.id : e \in {f \in ToSet(Events(ids, phase)) : f.phase \in {"UP", "CANCEL"}}}
             dn == {e.id : e \in {f \in ToSet(Events(ids, phase)) : f.phase = "DOWN"}}
  <2>1. current' = <<last>> /\ down' = (down \ up) \cup dn
    BY <1>2 DEF ProcessPointerEvent
  <2>2. /\ last = [id |-> ids[n], phase |-> phase, items |-> ToSet(ids),
                   pressed |-> phase \in {"DOWN", "MOVE"}]
        /\ up = IF phase \in {"UP", "CANCEL"} THEN {ids[i] : i \in 1..n} ELSE {}
        /\ dn = IF phase = "DOWN" THEN {ids[i] : i \in 1..n} ELSE {}
    BY PacketTold
  <2>3. last.id = ids[n] /\ last.pressed = (phase \in {"DOWN", "MOVE"})
    BY <2>2
  <2> HIDE DEF last, up, dn
  <2>4. LastMovingPointer' = IF last.pressed THEN {last.id} ELSE {}
    BY <2>1 DEF LastMovingPointer
  <2>5. LastMovingPointer' \subseteq IF phase \in {"DOWN", "MOVE"} THEN {ids[n]} ELSE {}
    BY <2>3, <2>4
  <2>6. down' = CASE phase = "DOWN" -> down \cup {ids[i] : i \in 1..n}
                  [] phase = "MOVE" -> down
                  [] OTHER -> down \ {ids[i] : i \in 1..n}
    BY <2>1, <2>2
  <2> QED BY <1>2, <2>5, <2>6
<1> QED BY <1>1, <1>2

\* New fingers get numbers that no other has.
LEMMA BeganKeeps ==
  ASSUME FingersAgree, TouchesBegan
  PROVE  FingersAgree'
<1>0. TouchTypeOK /\ MaxPointer \in Nat /\ MaxContents \in Nat
  BY TouchAssumption DEF FingersAgree
<1>1. PICK touches \in (SUBSET (Touches \ DOMAIN pointerMap)) \ {{}} : \E order \in SetToSeqs(touches) :
        /\ pointerId + Len(order) - 1 <= MaxPointer
        /\ DispatchTouches(order, "DOWN")
  BY DEF TouchesBegan
<1>2. PICK order \in SetToSeqs(touches) :
        /\ pointerId + Len(order) - 1 <= MaxPointer
        /\ DispatchTouches(order, "DOWN")
  BY <1>1
<1> DEFINE n == Len(order)
           new == ToSet(order)
           of == PointerOf(order, "DOWN")
           ids == [i \in DOMAIN order |-> of[order[i]].id]
<1>3. /\ n \in Nat /\ n >= 1 /\ DOMAIN order = 1..n
      /\ \A i, j \in 1..n : order[i] = order[j] => i = j
      /\ new \subseteq Touches /\ new \cap DOMAIN pointerMap = {}
      /\ \A t \in new : \E i \in 1..n : order[i] = t
      /\ \A i \in 1..n : order[i] \in new
  <2>1. touches \in SUBSET Touches /\ touches # {} /\ touches \cap DOMAIN pointerMap = {}
    OBVIOUS
  <2> QED BY <2>1, PacketOrder
<1>4. /\ pointerId' = NextId(DOMAIN pointerMap, n)
      /\ pointerMap' = [t \in DOMAIN pointerMap \cup new |->
                          IF t \in new THEN of[t] ELSE pointerMap[t]]
      /\ ProcessPointerEvent(ids, "DOWN")
      /\ content' = content /\ contents' = contents
  BY <1>2 DEF DispatchTouches
<1>5. \A i \in 1..n : of[order[i]].id = pointerId + i - 1 /\ of[order[i]].content = content
  <2> SUFFICES ASSUME NEW i \in 1..n
               PROVE  of[order[i]].id = pointerId + i - 1 /\ of[order[i]].content = content
    OBVIOUS
  <2>1. (CHOOSE j \in DOMAIN order : order[j] = order[i]) = i
    BY <1>3
  <2>2. order[i] \in ToSet(order)
    BY <1>3
  <2>3. of[order[i]] = [id |-> pointerId + i - 1, content |-> content]
    BY <2>1, <2>2 DEF PointerOf
  <2> QED BY <2>3
<1>6. ids = [i \in 1..n |-> ids[i]] /\ \A i \in 1..n : ids[i] = pointerId + i - 1
  BY <1>3, <1>5
<1>7. pointerId' = pointerId + n /\ pointerId' \in 0..MaxPointer + 1 /\ pointerId \in Nat
  BY <1>0, <1>2, <1>3, <1>4 DEF NextId, TouchTypeOK
<1> HIDE DEF n, new, of, ids
<1>8. /\ DOMAIN pointerMap' = DOMAIN pointerMap \cup new
      /\ \A t \in DOMAIN pointerMap : t \notin new /\ pointerMap'[t] = pointerMap[t]
      /\ \A t \in new : pointerMap'[t] = of[t]
  BY <1>3, <1>4
<1>9. \A i \in 1..n : /\ pointerMap'[order[i]].id = ids[i] /\ pointerMap'[order[i]].content = content
                      /\ ids[i] \in pointerId..pointerId + n - 1
  BY <1>3, <1>5, <1>6, <1>7, <1>8
<1>10. /\ content = 0 => down' = down /\ current' = current
       /\ content # 0 => /\ down' = down \cup {ids[i] : i \in 1..n}
                         /\ LastMovingPointer' \subseteq {ids[n]}
  <2>1. "DOWN" \in {"DOWN", "MOVE", "UP", "CANCEL"}
    OBVIOUS
  <2> QED BY <1>3, <1>4, <1>6, <2>1, PacketReaches
<1>11. TouchTypeOK'
  <2>1. DOMAIN pointerMap' \subseteq Touches
    BY <1>0, <1>3, <1>8 DEF TouchTypeOK
  <2>2. ASSUME NEW t \in DOMAIN pointerMap'
        PROVE  pointerMap'[t].id \in 0..pointerId' - 1 /\ pointerMap'[t].content \in 0..contents
    <3>1. CASE t \in DOMAIN pointerMap
      BY <1>0, <1>3, <1>7, <1>8, <3>1 DEF TouchTypeOK
    <3>2. CASE t \in new
      <4>1. PICK i \in 1..n : order[i] = t
        BY <1>3, <3>2
      <4> QED BY <1>0, <1>3, <1>7, <1>9, <4>1 DEF TouchTypeOK
    <3> QED BY <1>8, <3>1, <3>2
  <2>3. \A i \in 1..n : ids[i] \in 0..MaxPointer
    BY <1>0, <1>3, <1>7, <1>9
  <2>4. down' \subseteq 0..MaxPointer /\ (content = 0 => down' = {} /\ current' = <<>>)
    BY <1>0, <1>10, <2>3 DEF TouchTypeOK
  <2> QED BY <1>0, <1>4, <1>7, <2>1, <2>2, <2>4 DEF TouchTypeOK
<1>12. ASSUME NEW s \in DOMAIN pointerMap', NEW t \in DOMAIN pointerMap',
              pointerMap'[s].id = pointerMap'[t].id
       PROVE  s = t
  <2>1. \A u \in DOMAIN pointerMap : pointerMap'[u].id < pointerId /\ pointerMap'[u].id \in Int
    BY <1>0, <1>8 DEF TouchTypeOK
  <2>2. \A u \in new : \E i \in 1..n : u = order[i] /\ pointerMap'[u].id = pointerId + i - 1
    BY <1>3, <1>6, <1>9
  <2>3. CASE s \in DOMAIN pointerMap /\ t \in DOMAIN pointerMap
    BY <1>8, <1>12, <2>3 DEF FingersAgree
  <2>4. CASE s \in new /\ t \in new
    <3>1. PICK i \in 1..n : s = order[i] /\ pointerMap'[s].id = pointerId + i - 1
      BY <2>2, <2>4
    <3>2. PICK j \in 1..n : t = order[j] /\ pointerMap'[t].id = pointerId + j - 1
      BY <2>2, <2>4
    <3> QED BY <1>3, <1>7, <1>12, <3>1, <3>2
  <2>5. ASSUME NEW u \in new, NEW v \in DOMAIN pointerMap PROVE pointerMap'[u].id # pointerMap'[v].id
    <3>1. PICK i \in 1..n : pointerMap'[u].id = pointerId + i - 1
      BY <2>2
    <3> QED BY <1>3, <1>7, <2>1, <3>1
  <2> QED BY <1>8, <1>12, <2>3, <2>4, <2>5
<1>13. down' = {pointerMap'[t].id : t \in SeenFingers'}
  <2>1. CASE content = 0
    BY <1>0, <1>4, <1>10, <2>1 DEF TouchTypeOK, SeenFingers
  <2>2. CASE content # 0
    <3>1. SeenFingers' = SeenFingers \cup new
      <4>1. \A t \in new : pointerMap'[t].content = content
        BY <1>3, <1>9
      <4> QED BY <1>4, <1>8, <2>2, <4>1 DEF SeenFingers
    <3>2. {pointerMap'[t].id : t \in SeenFingers} = {pointerMap[t].id : t \in SeenFingers}
      BY <1>8 DEF SeenFingers
    <3>3. {pointerMap'[t].id : t \in new} = {ids[i] : i \in 1..n}
      BY <1>3, <1>9
    <3>4. down = {pointerMap[t].id : t \in SeenFingers}
      BY DEF FingersAgree
    <3>5. down' = down \cup {ids[i] : i \in 1..n}
      BY <1>10, <2>2
    <3> QED BY <3>1, <3>2, <3>3, <3>4, <3>5
  <2> QED BY <2>1, <2>2
<1>14. LastMovingPointer' \subseteq {pointerMap'[t].id : t \in DOMAIN pointerMap'}
  <2>1. CASE content = 0
    BY <1>0, <1>10, <2>1 DEF TouchTypeOK, LastMovingPointer
  <2>2. CASE content # 0
    <3>1. n \in 1..n
      BY <1>3
    <3>2. order[n] \in DOMAIN pointerMap' /\ pointerMap'[order[n]].id = ids[n]
      BY <1>3, <1>8, <1>9, <3>1
    <3> QED BY <1>10, <2>2, <3>2
  <2> QED BY <2>1, <2>2
<1> QED BY <1>11, <1>12, <1>13, <1>14 DEF FingersAgree

\* Whoever is lifted, the others stay.
LEMMA GoOnKeeps ==
  ASSUME FingersAgree, TouchesGoOn
  PROVE  FingersAgree'
<1>0. TouchTypeOK /\ MaxPointer \in Nat /\ MaxContents \in Nat
  BY TouchAssumption DEF FingersAgree
<1>1. PICK touches \in (SUBSET DOMAIN pointerMap) \ {{}} : \E order \in SetToSeqs(touches) :
        \E phase \in {"MOVE", "UP", "CANCEL"} : DispatchTouches(order, phase)
  BY DEF TouchesGoOn
<1>2. PICK order \in SetToSeqs(touches), phase \in {"MOVE", "UP", "CANCEL"} :
        DispatchTouches(order, phase)
  BY <1>1
<1> DEFINE n == Len(order)
           these == ToSet(order)
           left == IF phase \in {"UP", "CANCEL"} THEN DOMAIN pointerMap \ these ELSE DOMAIN pointerMap
           of == PointerOf(order, phase)
           ids == [i \in DOMAIN order |-> of[order[i]].id]
<1>3. /\ n \in Nat /\ n >= 1 /\ DOMAIN order = 1..n
      /\ these \subseteq DOMAIN pointerMap
      /\ \A t \in these : \E i \in 1..n : order[i] = t
      /\ \A i \in 1..n : order[i] \in these
  <2>1. touches \in SUBSET Touches /\ touches # {}
    BY <1>0 DEF TouchTypeOK
  <2> QED BY <2>1, PacketOrder
<1>4. /\ pointerId' = NextId(left, 0)
      /\ pointerMap' = [t \in left |-> pointerMap[t]]
      /\ ProcessPointerEvent(ids, phase)
      /\ content' = content /\ contents' = contents
  BY <1>2 DEF DispatchTouches
<1>5. \A i \in 1..n : of[order[i]].id = pointerMap[order[i]].id
  BY <1>3 DEF PointerOf
<1>6. ids = [i \in 1..n |-> ids[i]] /\ \A i \in 1..n : ids[i] = pointerMap[order[i]].id
  BY <1>3, <1>5
<1>7. pointerId' = IF left = {} THEN 0 ELSE pointerId
  BY <1>0, <1>4 DEF NextId, TouchTypeOK
<1>8. left \subseteq DOMAIN pointerMap /\ (phase = "MOVE" => left = DOMAIN pointerMap)
  OBVIOUS
<1>9. phase # "MOVE" => left = DOMAIN pointerMap \ these
  OBVIOUS
<1> HIDE DEF n, these, of, ids, left
<1>10. DOMAIN pointerMap' = left /\ \A t \in left : pointerMap'[t] = pointerMap[t]
  BY <1>4
<1>11. {ids[i] : i \in 1..n} = {pointerMap[t].id : t \in these}
  BY <1>3, <1>6
<1>12. /\ content = 0 => down' = down /\ current' = current
       /\ content # 0 =>
            /\ down' = IF phase = "MOVE" THEN down ELSE down \ {ids[i] : i \in 1..n}
            /\ LastMovingPointer' \subseteq IF phase = "MOVE" THEN {ids[n]} ELSE {}
  <2>1. phase \in {"DOWN", "MOVE", "UP", "CANCEL"} /\ phase # "DOWN"
    OBVIOUS
  <2> QED BY <1>3, <1>4, <1>6, <2>1, PacketReaches
<1>13. TouchTypeOK'
  <2>1. DOMAIN pointerMap' \subseteq Touches
    BY <1>0, <1>8, <1>10 DEF TouchTypeOK
  <2>2. ASSUME NEW t \in DOMAIN pointerMap'
        PROVE  pointerMap'[t].id \in 0..pointerId' - 1 /\ pointerMap'[t].content \in 0..contents
    <3>1. left # {} /\ t \in DOMAIN pointerMap /\ pointerMap'[t] = pointerMap[t]
      BY <1>8, <1>10
    <3> QED BY <1>0, <1>7, <3>1 DEF TouchTypeOK
  <2>3. pointerId' \in 0..MaxPointer + 1
    BY <1>0, <1>7 DEF TouchTypeOK
  <2>4. down' \subseteq 0..MaxPointer /\ (content = 0 => down' = {} /\ current' = <<>>)
    BY <1>0, <1>12 DEF TouchTypeOK
  <2> QED BY <1>0, <1>4, <2>1, <2>2, <2>3, <2>4 DEF TouchTypeOK
<1>14. \A s, t \in DOMAIN pointerMap' : pointerMap'[s].id = pointerMap'[t].id => s = t
  BY <1>8, <1>10 DEF FingersAgree
<1>15. down' = {pointerMap'[t].id : t \in SeenFingers'}
  <2>1. CASE content = 0
    BY <1>0, <1>4, <1>12, <2>1 DEF TouchTypeOK, SeenFingers
  <2>2. CASE content # 0
    <3>1. SeenFingers' = SeenFingers \cap left /\ SeenFingers \subseteq DOMAIN pointerMap
      BY <1>4, <1>8, <1>10 DEF SeenFingers
    <3>2. {pointerMap'[t].id : t \in SeenFingers'} = {pointerMap[t].id : t \in SeenFingers \cap left}
      BY <1>10, <3>1
    <3>3. down = {pointerMap[t].id : t \in SeenFingers}
      BY DEF FingersAgree
    <3>4. CASE phase = "MOVE"
      <4>1. SeenFingers \cap left = SeenFingers
        BY <1>8, <3>1, <3>4
      <4> QED BY <1>12, <2>2, <3>2, <3>3, <3>4, <4>1
    <3>5. CASE phase # "MOVE"
      <4>1. down' = down \ {pointerMap[t].id : t \in these}
        BY <1>11, <1>12, <2>2, <3>5
      <4>2. SeenFingers \cap left = SeenFingers \ these
        BY <1>9, <3>1, <3>5
      <4>3. \A s \in SeenFingers, t \in these : pointerMap[s].id = pointerMap[t].id => s = t
        BY <1>3, <3>1 DEF FingersAgree
      <4>4. {pointerMap[t].id : t \in SeenFingers} \ {pointerMap[t].id : t \in these} =
              {pointerMap[t].id : t \in SeenFingers \ these}
        BY <4>3
      <4> QED BY <3>2, <3>3, <4>1, <4>2, <4>4
    <3> QED BY <3>4, <3>5
  <2> QED BY <2>1, <2>2
<1>16. LastMovingPointer' \subseteq {pointerMap'[t].id : t \in DOMAIN pointerMap'}
  <2>1. CASE content = 0
    BY <1>0, <1>12, <2>1 DEF TouchTypeOK, LastMovingPointer
  <2>2. CASE content # 0 /\ phase = "MOVE"
    <3>1. n \in 1..n
      BY <1>3
    <3>2. order[n] \in DOMAIN pointerMap' /\ pointerMap'[order[n]].id = ids[n]
      BY <1>3, <1>6, <1>8, <1>10, <2>2, <3>1
    <3> QED BY <1>12, <2>2, <3>2
  <2>3. CASE content # 0 /\ phase # "MOVE"
    BY <1>12, <2>3
  <2> QED BY <2>1, <2>2, <2>3
<1> QED BY <1>13, <1>14, <1>15, <1>16 DEF FingersAgree

\* A new content has seen no finger begin; without one nobody is told.
LEMMA ContentKeeps ==
  ASSUME FingersAgree, SetContent \/ DestroyContent
  PROVE  FingersAgree'
<1>0. TouchTypeOK /\ MaxContents \in Nat
  BY TouchAssumption DEF FingersAgree
<1>1. /\ pointerMap' = pointerMap /\ pointerId' = pointerId /\ down' = {} /\ current' = <<>>
      /\ \/ contents' = contents + 1 /\ content' = contents + 1 /\ contents < MaxContents
         \/ contents' = contents /\ content' = 0
  BY DEF SetContent, DestroyContent
<1>2. contents' \in 0..MaxContents /\ content' \in 0..contents' /\ contents <= contents'
  BY <1>0, <1>1 DEF TouchTypeOK
<1>3. TouchTypeOK'
  BY <1>0, <1>1, <1>2 DEF TouchTypeOK
<1>4. SeenFingers' = {}
  BY <1>0, <1>1 DEF TouchTypeOK, SeenFingers
<1>5. LastMovingPointer' = {}
  BY <1>1 DEF LastMovingPointer
<1> QED BY <1>1, <1>3, <1>4, <1>5 DEF FingersAgree

LEMMA TouchKeeps == FingersAgree /\ [TouchNext]_touchVars => FingersAgree'
<1>1. FingersAgree /\ TouchNext => FingersAgree'
  BY BeganKeeps, GoOnKeeps, ContentKeeps DEF TouchNext
<1>2. FingersAgree /\ UNCHANGED touchVars => FingersAgree'
  BY DEF touchVars, FingersAgree, TouchTypeOK, SeenFingers, LastMovingPointer
<1> QED BY <1>1, <1>2

\* Fingers that are down have different numbers, the pipeline's are those the content saw
\* begin, and whoever moved last is on the glass.
THEOREM FingersAlwaysAgree == TouchSpec => []FingersAgree
BY InitFingers, TouchKeeps, PTL DEF TouchSpec
=============================================================================
