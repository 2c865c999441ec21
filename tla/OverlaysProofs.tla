--------------------------- MODULE OverlaysProofs ---------------------------
(***************************************************************************)
(* Proofs about what is shown above a page: about DragInteraction, for any *)
(* pointers, fingers and bounds, and about Subwindow, for any nodes.       *)
(***************************************************************************)
EXTENDS DragInteraction, Subwindow, WellFoundedInduction, FiniteSetTheorems, SequenceTheorems, TLAPS

-----------------------------------------------------------------------------
(* Who waits for a pointer to be lifted. *)

WaitTypes ==
  /\ touch \in [Pointers -> [kind : {"none", "finger", "synthetic"}, no : Nat]]
  /\ touches \in Nat
  /\ current \in [pointers : SUBSET Pointers, pressed : BOOLEAN]
  /\ waits \in [Pointers -> Seq(Nat)]
  /\ calls \in Seq(Nat)

WaitInv == WaitTypes /\ WaitersPressed /\ WaitersCalledOnce

\* What is in a sequence that something is appended to.
LEMMA ToSetAppend ==
  ASSUME NEW s \in Seq(Nat), NEW x \in Nat
  PROVE  ToSet(Append(s, x)) = ToSet(s) \cup {x}
<1>1. DOMAIN s = 1 .. Len(s) /\ DOMAIN Append(s, x) = 1 .. Len(s) + 1
  BY AppendProperties, LenProperties
<1>2. \A i \in 1 .. Len(s) : Append(s, x)[i] = s[i]
  BY AppendProperties
<1>3. Append(s, x)[Len(s) + 1] = x /\ Len(s) \in Nat
  BY AppendProperties, LenProperties
<1> QED BY <1>1, <1>2, <1>3 DEF ToSet

LEMMA ToSetEmpty == ToSet(<<>>) = {}
BY DEF ToSet

\* One event of the container calls who waited for what it shows lifted, each once, and
\* whoever still waits does so for a pointer that is pressed in it.
LEMMA EventCallsOnce ==
  ASSUME WaitInv, NEW ps \in SUBSET Pointers, NEW pressed \in BOOLEAN,
         SetCurPointerEvent(ps, pressed),
         touch' \in [Pointers -> [kind : {"none", "finger", "synthetic"}, no : Nat]],
         touches' \in Nat,
         pressed => \A p \in ps : touch'[p].kind # "none"
  PROVE  WaitInv'
<1> DEFINE done == {p \in Pointers : waits[p] # <<>> /\ (p \notin ps \/ ~pressed)}
           Of(c) == {p \in done : c \in ToSet(waits[p])}
<1>1. current' = [pointers |-> ps, pressed |-> pressed]
  BY DEF SetCurPointerEvent
<1>2. waits' = [p \in Pointers |-> IF p \in done THEN <<>> ELSE waits[p]]
  BY DEF SetCurPointerEvent
<1>3. calls' = [c \in DOMAIN calls |-> calls[c] + Cardinality(Of(c))]
  BY DEF SetCurPointerEvent
<1>4. waits' \in [Pointers -> Seq(Nat)]
  BY <1>2 DEF WaitInv, WaitTypes
<1>5. \A p \in Pointers : waits'[p] = IF p \in done THEN <<>> ELSE waits[p]
  BY <1>2
<1>6. \A p \in Pointers : ToSet(waits'[p]) = IF p \in done THEN {} ELSE ToSet(waits[p])
  BY <1>5, ToSetEmpty
<1>7. \A p \in Pointers : waits[p] = <<>> => ToSet(waits[p]) = {}
  BY ToSetEmpty
<1>8. \A c \in DOMAIN calls :
        Of(c) = {} \/ \E p \in Pointers : Of(c) = {p} /\ p \in done /\ c \in ToSet(waits[p])
  <2> SUFFICES ASSUME NEW c \in DOMAIN calls, NEW p \in Of(c)
               PROVE  \E q \in Pointers : Of(c) = {q} /\ q \in done /\ c \in ToSet(waits[q])
    OBVIOUS
  <2>1. \A q \in Of(c) : q = p
    BY DEF WaitInv, WaitersPressed
  <2> QED BY <2>1
<1>9. \A c \in DOMAIN calls : Cardinality(Of(c)) = IF Of(c) = {} THEN 0 ELSE 1
  BY <1>8, FS_EmptySet, FS_Singleton, ZenonT(30)
<1>10. \A c \in DOMAIN calls : calls[c] = IF \E p \in Pointers : c \in ToSet(waits[p]) THEN 0 ELSE 1
  BY DEF WaitInv, WaitersCalledOnce
<1>11. DOMAIN calls' = DOMAIN calls
  BY <1>3
<1>12. \A c \in DOMAIN calls : calls'[c] \in {0, 1}
  <2> SUFFICES ASSUME NEW c \in DOMAIN calls PROVE calls'[c] \in {0, 1}
    OBVIOUS
  <2>1. calls'[c] = calls[c] + Cardinality(Of(c))
    BY <1>3
  <2>2. CASE Of(c) = {}
    BY <2>1, <2>2, <1>9, <1>10
  <2>3. CASE Of(c) # {}
    <3>1. calls[c] = 0
      BY <2>3, <1>10
    <3> QED BY <2>1, <2>3, <3>1, <1>9
  <2> QED BY <2>2, <2>3
<1>13. calls' \in Seq(Nat)
  <2>1. DOMAIN calls = 1 .. Len(calls) /\ Len(calls) \in Nat
    BY LenProperties DEF WaitInv, WaitTypes
  <2>2. calls' = [c \in 1 .. Len(calls) |-> calls[c] + Cardinality(Of(c))]
    BY <1>3, <2>1
  <2>3. \A c \in 1 .. Len(calls) : calls[c] + Cardinality(Of(c)) \in Nat
    BY <1>12, <2>1, <2>2
  <2> QED BY <2>1, <2>2, <2>3
<1>14. WaitTypes'
  BY <1>1, <1>4, <1>13 DEF WaitTypes
<1>15. WaitersPressed'
  <2>1. \A p \in Pointers : ToSet(waits'[p]) \subseteq ToSet(waits[p])
    BY <1>6
  <2>2. \A p \in Pointers : ToSet(waits'[p]) \subseteq DOMAIN calls'
    BY <2>1, <1>11 DEF WaitInv, WaitersPressed
  <2>3. \A p, q \in Pointers : ToSet(waits'[p]) \cap ToSet(waits'[q]) # {} => p = q
    BY <2>1 DEF WaitInv, WaitersPressed
  <2>4. \A p \in Pointers : waits'[p] # <<>> => current'.pressed /\ p \in current'.pointers
    BY <1>1, <1>5
  <2>5. current'.pressed => \A p \in current'.pointers : touch'[p].kind # "none"
    BY <1>1
  <2> QED BY <2>2, <2>3, <2>4, <2>5 DEF WaitersPressed
<1>16. WaitersCalledOnce'
  <2>1. ASSUME NEW c \in DOMAIN calls
        PROVE  calls'[c] = IF \E p \in Pointers : c \in ToSet(waits'[p]) THEN 0 ELSE 1
    <3>1. calls'[c] = calls[c] + Cardinality(Of(c))
      BY <1>3
    <3>2. CASE Of(c) = {}
      <4>1. \A p \in Pointers : c \in ToSet(waits'[p]) <=> c \in ToSet(waits[p])
        BY <3>2, <1>6
      <4>2. calls'[c] = calls[c] + 0 /\ calls[c] \in {0, 1}
        BY <3>1, <3>2, <1>9, <1>10
      <4> QED BY <4>1, <4>2, <1>10
    <3>3. CASE Of(c) # {}
      <4>1. calls[c] = 0
        BY <3>3, <1>10
      <4>2. PICK q \in done : c \in ToSet(waits[q])
        BY <3>3
      <4>3. \A p \in Pointers : c \in ToSet(waits[p]) => p = q
        BY <4>2 DEF WaitInv, WaitersPressed
      <4>4. \A p \in Pointers : c \notin ToSet(waits'[p])
        BY <4>2, <4>3, <1>6
      <4>5. calls'[c] = 1
        BY <3>1, <3>3, <4>1, <1>9
      <4> QED BY <4>4, <4>5
    <3> QED BY <3>2, <3>3
  <2>2. \A p \in Pointers : waits'[p] # <<>> => touch'[p].kind # "none"
    BY <1>1, <1>5
  <2> QED BY <2>1, <2>2, <1>11 DEF WaitersCalledOnce
<1> QED BY <1>14, <1>15, <1>16 DEF WaitInv

LEMMA WaitInit == Init => WaitInv
<1> SUFFICES ASSUME Init PROVE WaitInv
  OBVIOUS
<1> USE DEF Init
<1>1. WaitTypes
  BY DEF WaitTypes, NoTouch
<1>2. DOMAIN calls = {} /\ \A p \in Pointers : waits[p] = <<>> /\ ToSet(waits[p]) = {}
  BY ToSetEmpty
<1>3. WaitersPressed
  BY <1>2 DEF WaitersPressed
<1>4. WaitersCalledOnce
  BY <1>2 DEF WaitersCalledOnce
<1> QED BY <1>1, <1>3, <1>4 DEF WaitInv

\* Everything but an event of a touch and a new waiter leaves the waiters alone.
LEMMA WaitersLeftAlone ==
  ASSUME WaitInv, UNCHANGED <<touch, touches, stopVars>>
  PROVE  WaitInv'
<1>1. /\ touch' = touch /\ touches' = touches /\ current' = current
      /\ waits' = waits /\ calls' = calls
  BY DEF stopVars
<1> QED BY <1>1 DEF WaitInv, WaitTypes, WaitersPressed, WaitersCalledOnce

LEMMA WaitStep == WaitInv /\ [Next]_vars => WaitInv'
<1> SUFFICES ASSUME WaitInv, [Next]_vars PROVE WaitInv'
  OBVIOUS
<1>1. ASSUME NEW ps \in SUBSET Fingers, NEW phase \in {"Began", "Moved", "Ended"}, Touch(ps, phase)
      PROVE  WaitInv'
  <2>1. ps \in SUBSET Pointers
    BY DragAssumption
  <2>2. touch' \in [Pointers -> [kind : {"none", "finger", "synthetic"}, no : Nat]]
    BY <1>1 DEF Touch, NoTouch, WaitInv, WaitTypes
  <2>3. touches' \in Nat
    BY <1>1 DEF Touch, WaitInv, WaitTypes
  <2>4. ASSUME phase # "Ended", NEW p \in ps PROVE touch'[p].kind # "none"
    <3>1. p \in Pointers
      BY <2>1
    <3>2. CASE phase = "Began"
      BY <1>1, <3>1, <3>2 DEF Touch
    <3>3. CASE phase = "Moved"
      <4>1. touch'[p] = touch[p] /\ touch[p].kind = "finger"
        BY <1>1, <3>1, <3>3 DEF Touch
      <4> QED BY <4>1
    <3> QED BY <2>4, <3>2, <3>3
  <2>5. SetCurPointerEvent(ps, phase # "Ended") /\ (phase # "Ended") \in BOOLEAN
    BY <1>1 DEF Touch
  <2> QED BY <2>1, <2>2, <2>3, <2>4, <2>5, EventCallsOnce
<1>2. ASSUME NEW p \in Pointers, NEW phase \in {"Began", "Moved", "Ended"}, NEW t \in 1 .. MaxTime,
             SyntheticTouch(p, phase, t)
      PROVE  WaitInv'
  <2>1. touches' \in Nat
    BY <1>2 DEF SyntheticTouch, WaitInv, WaitTypes
  <2>2. /\ touch' \in [Pointers -> [kind : {"none", "finger", "synthetic"}, no : Nat]]
        /\ phase # "Ended" => touch'[p].kind # "none"
    BY <1>2 DEF SyntheticTouch, WaitInv, WaitTypes
  <2>3. SetCurPointerEvent({p}, phase # "Ended") /\ (phase # "Ended") \in BOOLEAN
    BY <1>2 DEF SyntheticTouch
  <2> QED BY <2>1, <2>2, <2>3, EventCallsOnce
<1>3. CASE Return
  BY <1>3, WaitersLeftAlone DEF Return, eventVars
<1>4. ASSUME NEW p \in Pointers, StartDrag(p) PROVE WaitInv'
  BY <1>4, WaitersLeftAlone DEF StartDrag, eventVars
<1>5. ASSUME NEW p \in Pointers, GetCurPointerEventInfo(p) PROVE WaitInv'
  <2> DEFINE n == Len(calls) + 1
  <2>1. /\ touch' = touch /\ touches' = touches /\ current' = current
        /\ waits' = [waits EXCEPT ![p] = Append(waits[p], n)]
        /\ calls' = Append(calls, 0)
        /\ p \in current.pointers /\ current.pressed
    BY <1>5 DEF GetCurPointerEventInfo, eventVars
  <2>2. n \in Nat /\ DOMAIN calls = 1 .. Len(calls) /\ Len(calls) \in Nat
    BY LenProperties DEF WaitInv, WaitTypes
  <2>3. DOMAIN calls' = DOMAIN calls \cup {n} /\ calls'[n] = 0
        /\ \A c \in DOMAIN calls : calls'[c] = calls[c]
    <3>1. calls \in Seq(Nat) /\ calls' = Append(calls, 0)
      BY <2>1 DEF WaitInv, WaitTypes
    <3> QED BY <2>2, <3>1, AppendProperties
  <2>4. \A q \in Pointers : ToSet(waits'[q]) = IF q = p THEN ToSet(waits[q]) \cup {n} ELSE ToSet(waits[q])
    <3>1. waits[p] \in Seq(Nat)
      BY DEF WaitInv, WaitTypes
    <3>2. ToSet(waits'[p]) = ToSet(waits[p]) \cup {n}
      BY <2>1, <2>2, <3>1, ToSetAppend DEF WaitInv, WaitTypes
    <3>3. \A q \in Pointers \ {p} : waits'[q] = waits[q]
      BY <2>1 DEF WaitInv, WaitTypes
    <3> QED BY <3>2, <3>3
  <2>5. n \notin DOMAIN calls /\ \A q \in Pointers : n \notin ToSet(waits[q])
    BY <2>2 DEF WaitInv, WaitersPressed
  <2>6. WaitTypes'
    BY <2>1, <2>2, AppendProperties DEF WaitInv, WaitTypes
  <2>7. WaitersPressed'
    <3>1. \A q \in Pointers : ToSet(waits'[q]) \subseteq DOMAIN calls'
      BY <2>3, <2>4 DEF WaitInv, WaitersPressed
    <3>2. \A q, r \in Pointers : ToSet(waits'[q]) \cap ToSet(waits'[r]) # {} => q = r
      <4>1. \A q, r \in Pointers : ToSet(waits[q]) \cap ToSet(waits[r]) # {} => q = r
        BY DEF WaitInv, WaitersPressed
      <4>2. SUFFICES ASSUME NEW q \in Pointers, NEW r \in Pointers,
                            NEW c \in ToSet(waits'[q]), c \in ToSet(waits'[r])
                     PROVE  q = r
        OBVIOUS
      <4>3. CASE c = n
        BY <4>2, <4>3, <2>4, <2>5
      <4>4. CASE c # n
        <5>1. c \in ToSet(waits[q]) /\ c \in ToSet(waits[r])
          <6>1. \A u \in Pointers : ToSet(waits'[u]) \subseteq ToSet(waits[u]) \cup {n}
            BY <2>4
          <6> QED BY <4>2, <4>4, <6>1
        <5> QED BY <5>1, <4>1
      <4> QED BY <4>3, <4>4
    <3>3. \A q \in Pointers : waits'[q] # <<>> => current'.pressed /\ q \in current'.pointers
      BY <2>1 DEF WaitInv, WaitTypes, WaitersPressed
    <3>4. current'.pressed => \A q \in current'.pointers : touch'[q].kind # "none"
      BY <2>1 DEF WaitInv, WaitersPressed
    <3> QED BY <3>1, <3>2, <3>3, <3>4 DEF WaitersPressed
  <2>8. WaitersCalledOnce'
    <3>1. \A c \in DOMAIN calls' :
            calls'[c] = IF \E q \in Pointers : c \in ToSet(waits'[q]) THEN 0 ELSE 1
      <4>1. calls'[n] = 0 /\ n \in ToSet(waits'[p])
        BY <2>3, <2>4
      <4>2. \A c \in DOMAIN calls : \A q \in Pointers : c \in ToSet(waits'[q]) <=> c \in ToSet(waits[q])
        BY <2>4, <2>5
      <4> QED BY <2>3, <4>1, <4>2 DEF WaitInv, WaitersCalledOnce
    <3>2. \A q \in Pointers : waits'[q] # <<>> => touch'[q].kind # "none"
      BY <2>1 DEF WaitInv, WaitTypes, WaitersPressed
    <3> QED BY <3>1, <3>2 DEF WaitersCalledOnce
  <2> QED BY <2>6, <2>7, <2>8 DEF WaitInv
<1>6. ASSUME NEW d \in DOMAIN drags, OnSurfaceNodeChanged(d) PROVE WaitInv'
  BY <1>6, WaitersLeftAlone DEF OnSurfaceNodeChanged, eventVars
<1>7. CASE StopDrag
  BY <1>7, WaitersLeftAlone DEF StopDrag, Stop, eventVars
<1>8. CASE CancelDrag
  BY <1>8, WaitersLeftAlone DEF CancelDrag, Stop, eventVars
<1>9. CASE DestroyDragWindow
  BY <1>9, WaitersLeftAlone DEF DestroyDragWindow, eventVars
<1>10. CASE UNCHANGED vars
  BY <1>10, WaitersLeftAlone DEF vars, eventVars
<1> QED BY <1>1, <1>2, <1>3, <1>4, <1>5, <1>6, <1>7, <1>8, <1>9, <1>10 DEF Next

\* Who waits for a pointer to be lifted (GetCurPointerEventInfo) is called once, no later
\* than with the event that lifts it, for any pointers: a callback waits for one pointer,
\* the last event showed that pointer pressed, and the event that does not calls it.
THEOREM WaitersOnce == Spec => []WaitersCalledOnce
<1>1. WaitInv => WaitersCalledOnce
  BY DEF WaitInv
<1> QED BY <1>1, WaitInit, WaitStep, PTL DEF Spec

-----------------------------------------------------------------------------
(* Which drag the manager is told of. *)

Drag(S) ==
  [pointer : S, synthetic : S, session : S, touch : S, window : {"hidden", "shown", "gone"}]

DragTypes ==
  /\ \E S : drags \in Seq(Drag(S))
  /\ manager \in [state : {"none", "START", "STOP"}, drag : Nat, window : Nat]
  /\ windowCreated \in BOOLEAN /\ hasty \in BOOLEAN

DragInv == DragTypes /\ LastDragHeard /\ OneDragAtATime

\* A drag asked for is the last one, and hidden; the others stay as they are.
LEMMA AppendDrag ==
  ASSUME NEW S, NEW ds \in Seq(Drag(S)), NEW p, NEW b, NEW s, NEW t
  PROVE  LET d == [pointer |-> p, synthetic |-> b, session |-> s, touch |-> t, window |-> "hidden"]
             es == Append(ds, d)
         IN  /\ \E R : es \in Seq(Drag(R))
             /\ Len(es) = Len(ds) + 1 /\ DOMAIN es = 1 .. Len(ds) + 1
             /\ \A i \in 1 .. Len(ds) : es[i] = ds[i]
<1> DEFINE d == [pointer |-> p, synthetic |-> b, session |-> s, touch |-> t, window |-> "hidden"]
           R == S \cup {p, b, s, t}
<1>1. d \in Drag(R)
  BY DEF Drag
<1>2. Drag(S) \subseteq Drag(R)
  BY DEF Drag
<1>3. ds \in Seq(Drag(R))
  BY <1>2, SeqMonotonic
<1> HIDE DEF d, R
<1>4. Append(ds, d) \in Seq(Drag(R))
  BY <1>1, <1>3, AppendProperties
<1>5. Len(Append(ds, d)) = Len(ds) + 1 /\ \A i \in 1 .. Len(ds) : Append(ds, d)[i] = ds[i]
  BY <1>1, <1>3, AppendProperties
<1>6. DOMAIN Append(ds, d) = 1 .. Len(ds) + 1
  BY <1>4, <1>5, LenProperties
<1> QED BY <1>4, <1>5, <1>6 DEF d

\* One window changes; the other drags' stay as they are.
LEMMA ChangeWindow ==
  ASSUME NEW S, NEW ds \in Seq(Drag(S)), NEW i, NEW w \in {"hidden", "shown", "gone"}
  PROVE  LET es == [ds EXCEPT ![i].window = w]
         IN  /\ es \in Seq(Drag(S))
             /\ Len(es) = Len(ds) /\ DOMAIN es = DOMAIN ds /\ DOMAIN ds = 1 .. Len(ds)
             /\ \A j \in DOMAIN ds : es[j].window = IF j = i THEN w ELSE ds[j].window
<1> DEFINE es == [ds EXCEPT ![i].window = w]
<1>1. Len(ds) \in Nat /\ ds \in [1 .. Len(ds) -> Drag(S)] /\ DOMAIN ds = 1 .. Len(ds)
  BY LenProperties
<1>2. \A j \in DOMAIN ds :
        /\ es[j] \in Drag(S)
        /\ es[j].window = IF j = i THEN w ELSE ds[j].window
  BY <1>1 DEF Drag
<1>3. DOMAIN es = DOMAIN ds /\ es = [j \in DOMAIN ds |-> es[j]]
  OBVIOUS
<1> HIDE DEF es
<1>4. es \in [1 .. Len(ds) -> Drag(S)]
  BY <1>1, <1>2, <1>3
<1>5. es \in Seq(Drag(S)) /\ Len(es) = Len(ds)
  BY <1>1, <1>3, <1>4, LenProperties
<1> QED BY <1>1, <1>2, <1>3, <1>5 DEF es

LEMMA DragInit == Init => DragInv
<1> SUFFICES ASSUME Init PROVE DragInv
  OBVIOUS
<1>1. drags = <<>> /\ listener = 0 /\ windowCreated = FALSE /\ hasty = FALSE
      /\ manager = [state |-> "none", drag |-> 0, window |-> 0]
  BY DEF Init
<1>2. drags \in Seq(Drag({})) /\ Len(drags) = 0 /\ DOMAIN drags = {}
  BY <1>1
<1>3. DragTypes
  BY <1>1, <1>2 DEF DragTypes
<1>4. LastDragHeard
  BY <1>1, <1>2 DEF LastDragHeard
<1>5. OneDragAtATime
  BY <1>1, <1>2 DEF OneDragAtATime
<1> QED BY <1>3, <1>4, <1>5 DEF DragInv

\* Events of touches and those who wait for them leave the drags alone.
LEMMA DragsLeftAlone ==
  ASSUME DragInv, UNCHANGED <<listener, drags, windowCreated, manager, hasty>>
  PROVE  DragInv'
<1>1. /\ listener' = listener /\ drags' = drags /\ windowCreated' = windowCreated
      /\ manager' = manager /\ hasty' = hasty
  OBVIOUS
<1> QED BY <1>1 DEF DragInv, DragTypes, LastDragHeard, OneDragAtATime

\* A drag that is stopped is one the manager was told of, or none was shown.
LEMMA StopKeeps ==
  ASSUME DragInv, Stop
  PROVE  DragInv'
<1>1. /\ listener' = listener /\ drags' = drags /\ windowCreated' = windowCreated
      /\ manager' = IF manager.state = "START" THEN [manager EXCEPT !.state = "STOP"] ELSE manager
      /\ hasty' = (hasty \/ (listener # 0 /\ manager.drag # listener))
  BY DEF Stop
<1>2. manager'.drag = manager.drag /\ manager'.window = manager.window
      /\ (manager'.state = "none" <=> manager.state = "none")
      /\ manager' \in [state : {"none", "START", "STOP"}, drag : Nat, window : Nat]
  BY <1>1 DEF DragInv, DragTypes
<1>3. hasty' \in BOOLEAN /\ (~hasty' => ~hasty)
  BY <1>1 DEF DragInv, DragTypes
<1>4. DragTypes'
  BY <1>1, <1>2, <1>3 DEF DragInv, DragTypes
<1>5. LastDragHeard'
  BY <1>1, <1>2, <1>3 DEF DragInv, LastDragHeard
<1>6. OneDragAtATime'
  BY <1>1, <1>2, <1>3 DEF DragInv, OneDragAtATime
<1> QED BY <1>4, <1>5, <1>6 DEF DragInv

LEMMA DragStep == DragInv /\ [Next]_vars => DragInv'
<1> SUFFICES ASSUME DragInv, [Next]_vars PROVE DragInv'
  OBVIOUS
<1> PICK S : drags \in Seq(Drag(S))
  BY DEF DragInv, DragTypes
<1> DEFINE n == Len(drags)
<1>0. n \in Nat /\ DOMAIN drags = 1 .. n
  BY LenProperties
<1>a. manager \in [state : {"none", "START", "STOP"}, drag : Nat, window : Nat]
  BY DEF DragInv, DragTypes
<1>1. ASSUME NEW ps \in SUBSET Fingers, NEW phase \in {"Began", "Moved", "Ended"}, Touch(ps, phase)
      PROVE  DragInv'
  BY <1>1, DragsLeftAlone DEF Touch, dragVars
<1>2. ASSUME NEW p \in Pointers, NEW phase \in {"Began", "Moved", "Ended"}, NEW t \in 1 .. MaxTime,
             SyntheticTouch(p, phase, t)
      PROVE  DragInv'
  BY <1>2, DragsLeftAlone DEF SyntheticTouch, dragVars
<1>3. CASE Return
  BY <1>3, DragsLeftAlone DEF Return, dragVars
<1>4. ASSUME NEW p \in Pointers, StartDrag(p) PROVE DragInv'
  <2>1. PICK b, s, t :
          drags' = Append(drags, [pointer |-> p, synthetic |-> b, session |-> s, touch |-> t,
                                  window |-> "hidden"])
    BY <1>4 DEF StartDrag
  <2>2. /\ \E R : drags' \in Seq(Drag(R))
        /\ Len(drags') = n + 1 /\ DOMAIN drags' = 1 .. n + 1
        /\ \A i \in 1 .. n : drags'[i] = drags[i]
    BY <2>1, AppendDrag
  <2>3. /\ listener' = n + 1 /\ windowCreated' = windowCreated
        /\ manager' = [manager EXCEPT !.window = n + 1]
        /\ hasty' = (hasty \/ \E d \in DOMAIN drags : drags[d].window # "gone")
    BY <1>4 DEF StartDrag
  <2>4. /\ manager'.state = manager.state /\ manager'.drag = manager.drag
        /\ manager'.window = n + 1
        /\ manager' \in [state : {"none", "START", "STOP"}, drag : Nat, window : Nat]
    BY <1>0, <2>3 DEF DragInv, DragTypes
  <2>5. hasty' \in BOOLEAN
        /\ (~hasty' => ~hasty /\ \A d \in 1 .. n : drags[d].window = "gone")
    BY <1>0, <2>3 DEF DragInv, DragTypes
  <2>6. DragTypes'
    BY <2>2, <2>3, <2>4, <2>5 DEF DragInv, DragTypes
  <2>7. manager.drag \in 0 .. n /\ (manager.state # "none" => manager.drag \in 1 .. n)
    BY <1>0 DEF DragInv, LastDragHeard
  <2>8. LastDragHeard'
    BY <1>0, <2>2, <2>3, <2>4, <2>5, <2>7 DEF DragInv, LastDragHeard
  <2>9. ~hasty' => manager.state = "none"
    BY <2>5, <2>7 DEF DragInv, LastDragHeard
  <2>10. OneDragAtATime'
    BY <1>0, <2>2, <2>3, <2>4, <2>5, <2>9 DEF DragInv, OneDragAtATime
  <2> QED BY <2>6, <2>8, <2>10 DEF DragInv
<1>5. ASSUME NEW p \in Pointers, GetCurPointerEventInfo(p) PROVE DragInv'
  BY <1>5, DragsLeftAlone DEF GetCurPointerEventInfo, dragVars
<1>6. ASSUME NEW d \in DOMAIN drags, OnSurfaceNodeChanged(d) PROVE DragInv'
  <2>1. /\ drags[d].window # "gone" /\ drags' = [drags EXCEPT ![d].window = "shown"]
        /\ listener' = listener /\ hasty' = hasty
    BY <1>6 DEF OnSurfaceNodeChanged
  <2>2. /\ drags' \in Seq(Drag(S)) /\ Len(drags') = n /\ DOMAIN drags' = 1 .. n
        /\ \A j \in 1 .. n : drags'[j].window = IF j = d THEN "shown" ELSE drags[j].window
    BY <1>0, <2>1, ChangeWindow
  <2>3. ~hasty => d = listener /\ \A j \in 1 .. n : j # listener => drags'[j].window = "gone"
    BY <1>0, <2>1, <2>2 DEF DragInv, OneDragAtATime
  <2>4. CASE windowCreated
    <3>1. manager' = manager /\ windowCreated' = windowCreated
      BY <1>6, <2>4 DEF OnSurfaceNodeChanged
    <3>2. DragTypes'
      BY <2>1, <2>2, <3>1 DEF DragInv, DragTypes
    <3>3. LastDragHeard'
      BY <1>0, <2>1, <2>2, <3>1 DEF DragInv, LastDragHeard
    <3>4. OneDragAtATime'
      BY <2>1, <2>2, <2>3, <3>1 DEF DragInv, OneDragAtATime
    <3> QED BY <3>2, <3>3, <3>4 DEF DragInv
  <2>5. CASE ~windowCreated
    <3>1. manager' = [state |-> "START", drag |-> d, window |-> manager.window] /\ windowCreated' = TRUE
      BY <1>6, <2>5 DEF OnSurfaceNodeChanged
    <3>2. /\ manager'.state = "START" /\ manager'.drag = d /\ manager'.window = manager.window
          /\ manager' \in [state : {"none", "START", "STOP"}, drag : Nat, window : Nat]
      <4>1. d \in Nat /\ manager.window \in Nat
        BY <1>0, <1>a
      <4> QED BY <3>1, <4>1
    <3>3. DragTypes'
      BY <2>1, <2>2, <3>1, <3>2 DEF DragInv, DragTypes
    <3>4. LastDragHeard'
      BY <1>0, <2>1, <2>2, <3>2 DEF DragInv, LastDragHeard
    <3>5. listener = n /\ manager.window = n
      BY DEF DragInv, LastDragHeard
    <3>6. OneDragAtATime'
      BY <2>1, <2>2, <2>3, <3>1, <3>2, <3>5 DEF OneDragAtATime
    <3> QED BY <3>3, <3>4, <3>6 DEF DragInv
  <2> QED BY <2>4, <2>5
<1>7. CASE StopDrag
  BY <1>7, StopKeeps DEF StopDrag
<1>8. CASE CancelDrag
  BY <1>8, StopKeeps DEF CancelDrag
<1>9. CASE DestroyDragWindow
  <2>1. /\ manager.state = "STOP" /\ drags' = [drags EXCEPT ![manager.window].window = "gone"]
        /\ windowCreated' = FALSE /\ manager' = [manager EXCEPT !.state = "none", !.drag = 0]
        /\ listener' = listener /\ hasty' = hasty
    BY <1>9 DEF DestroyDragWindow
  <2>2. /\ drags' \in Seq(Drag(S)) /\ Len(drags') = n /\ DOMAIN drags' = 1 .. n
        /\ \A j \in 1 .. n :
             drags'[j].window = IF j = manager.window THEN "gone" ELSE drags[j].window
    BY <1>0, <2>1, ChangeWindow
  <2>3. /\ manager'.state = "none" /\ manager'.drag = 0 /\ manager'.window = manager.window
        /\ manager' \in [state : {"none", "START", "STOP"}, drag : Nat, window : Nat]
    BY <2>1 DEF DragInv, DragTypes
  <2>4. DragTypes'
    BY <2>1, <2>2, <2>3 DEF DragInv, DragTypes
  <2>5. LastDragHeard'
    BY <1>0, <2>1, <2>2, <2>3 DEF DragInv, LastDragHeard
  <2>6. OneDragAtATime'
    BY <1>0, <2>1, <2>2, <2>3 DEF DragInv, OneDragAtATime
  <2> QED BY <2>4, <2>5, <2>6 DEF DragInv
<1>10. CASE UNCHANGED vars
  BY <1>10, DragsLeftAlone DEF vars, dragVars
<1> QED BY <1>1, <1>2, <1>3, <1>4, <1>5, <1>6, <1>7, <1>8, <1>9, <1>10 DEF Next

\* The drag manager is told of one drag at a time, and has that drag's window destroyed, for
\* any pointers and any number of drags, unless one was stopped before it was shown or
\* asked for while another's window was there: the listener and the destroyer are the
\* last drag's, and what was told to start still has its window.
THEOREM OneDrag == Spec => []OneDragAtATime
<1>1. DragInv => OneDragAtATime
  BY DEF DragInv
<1> QED BY <1>1, DragInit, DragStep, PTL DEF Spec

-----------------------------------------------------------------------------
(* Which touch a drag follows: the caches of sessions. *)

Keys(P, T, S) == [pointer : P, time : T, session : S]

SKey(n) == Keys(Pointers, Nat, 0 .. n)

Once(q) ==
  \A i, j \in DOMAIN q : q[i].pointer = q[j].pointer /\ q[i].time = q[j].time => i = j

\* A set of places in a sequence has a last one.
LEMMA MaxIn ==
  ASSUME NEW n \in Nat, NEW T, T \subseteq 1 .. n, T # {}
  PROVE  Max(T) \in T
<1> DEFINE R == OpToRel(<, Nat)
           D == {n - i : i \in T}
<1>1. IsWellFoundedOn(R, Nat)
  BY NatLessThanWellFounded
<1>2. \A x, y \in Nat : <<y, x>> \in R <=> y < x
  BY DEF OpToRel
<1>3. D \subseteq Nat /\ D # {}
  BY SMT
<1> HIDE DEF R
<1>4. PICK x \in D : \A y \in D : ~ (<<y, x>> \in R)
  <2> HIDE DEF D
  <2> QED BY <1>1, <1>3, WFMin
<1>5. \A y \in D : ~ (y < x)
  <2> HIDE DEF D
  <2> QED BY <1>2, <1>3, <1>4
<1>6. PICK i \in T : x = n - i
  OBVIOUS
<1>7. \A j \in T : i >= j
  <2> TAKE j \in T
  <2>1. n - j \in D
    OBVIOUS
  <2>2. ~ (n - j < n - i)
    BY <1>5, <1>6, <2>1
  <2> HIDE DEF D
  <2> QED BY <2>2
<1> QED BY <1>7 DEF Max

\* A place is left out of a sequence; what is after it moves down.
LEMMA RemoveAtSeq ==
  ASSUME NEW X, NEW s \in Seq(X), NEW i \in DOMAIN s
  PROVE  LET r == RemoveAt(s, i)
         IN  /\ r \in Seq(X) /\ Len(r) = Len(s) - 1
             /\ \A j \in 1 .. Len(r) : r[j] = IF j < i THEN s[j] ELSE s[j + 1]
<1> DEFINE n == Len(s)
           a == SubSeq(s, 1, i - 1)
           b == SubSeq(s, i + 1, n)
           r == a \o b
<1>1. n \in Nat /\ i \in 1 .. n /\ \A j \in 1 .. n : s[j] \in X
  BY LenProperties, ElementOfSeq
<1>2. a \in Seq(X) /\ Len(a) = i - 1 /\ \A j \in 1 .. i - 1 : a[j] = s[j]
  <2>1. \A j \in 1 .. i - 1 : s[j] \in X
    BY <1>1
  <2>2. i - 1 \in Nat /\ 1 \in Int
    BY <1>1
  <2> QED BY <1>1, <2>1, <2>2, SubSeqProperties
<1>3. b \in Seq(X) /\ Len(b) = n - i /\ \A j \in 1 .. n - i : b[j] = s[i + j]
  <2>1. \A j \in i + 1 .. n : s[j] \in X
    BY <1>1
  <2>2. i + 1 \in Int /\ n \in Int /\ i <= n
    BY <1>1
  <2>3. b \in Seq(X) /\ Len(b) = (IF i + 1 <= n THEN n - (i + 1) + 1 ELSE 0)
        /\ \A j \in 1 .. n - (i + 1) + 1 : b[j] = s[(i + 1) + j - 1]
    BY <2>1, <2>2, SubSeqProperties
  <2> HIDE DEF b
  <2>4. Len(b) = n - i
    BY <1>1, <2>3
  <2>5. ASSUME NEW j \in 1 .. n - i PROVE b[j] = s[i + j]
    <3>1. j \in 1 .. n - (i + 1) + 1 /\ (i + 1) + j - 1 = i + j
      BY <1>1
    <3> QED BY <2>3, <3>1
  <2> QED BY <2>3, <2>4, <2>5
<1> HIDE DEF a, b, n
<1>4. r \in Seq(X) /\ Len(r) = n - 1
      /\ \A j \in 1 .. n - 1 : r[j] = IF j <= Len(a) THEN a[j] ELSE b[j - Len(a)]
  <2>1. r \in Seq(X) /\ Len(r) = Len(a) + Len(b)
        /\ \A j \in 1 .. Len(a) + Len(b) : r[j] = IF j <= Len(a) THEN a[j] ELSE b[j - Len(a)]
    BY <1>2, <1>3, ConcatProperties
  <2>2. Len(a) + Len(b) = n - 1
    BY <1>1, <1>2, <1>3
  <2> HIDE DEF r
  <2> QED BY <2>1, <2>2
<1>5. ASSUME NEW j \in 1 .. n - 1 PROVE r[j] = IF j < i THEN s[j] ELSE s[j + 1]
  <2>1. CASE j < i
    <3>1. j \in 1 .. i - 1 /\ j <= Len(a)
      BY <1>1, <1>2, <2>1
    <3> QED BY <1>2, <1>4, <2>1, <3>1
  <2>2. CASE ~(j < i)
    <3>1. j - Len(a) \in 1 .. n - i /\ i + (j - Len(a)) = j + 1 /\ ~(j <= Len(a))
      BY <1>1, <1>2, <2>2
    <3>2. r[j] = b[j - Len(a)] /\ b[j - Len(a)] = s[i + (j - Len(a))]
      BY <1>3, <1>4, <3>1
    <3> QED BY <2>2, <3>1, <3>2
  <2> QED BY <2>1, <2>2
<1>6. RemoveAt(s, i) = r
  BY DEF RemoveAt, a, b, n
<1> HIDE DEF r
<1> QED BY <1>4, <1>5, <1>6 DEF n

\* The latest session of a pointer is one of those in the cache, or none.
LEMMA LatestIn ==
  ASSUME NEW P, NEW T, NEW S, NEW q \in Seq(Keys(P, T, S)), NEW p
  PROVE  Latest(q, p) \in S \cup {0}
<1> DEFINE is == {i \in DOMAIN q : q[i].pointer = p}
<1>1. Len(q) \in Nat /\ DOMAIN q = 1 .. Len(q) /\ \A i \in 1 .. Len(q) : q[i] \in Keys(P, T, S)
  BY LenProperties, ElementOfSeq
<1>2. CASE is = {}
  BY <1>2 DEF Latest
<1>3. CASE is # {}
  <2>1. Max(is) \in is
    BY <1>1, <1>3, MaxIn
  <2>2. q[Max(is)].session \in S
    BY <1>1, <2>1 DEF Keys
  <2> QED BY <1>3, <2>2 DEF Latest
<1> QED BY <1>2, <1>3

LEMMA LatestType ==
  ASSUME NEW n \in Nat, NEW q \in Seq(SKey(n)), NEW p
  PROVE  Latest(q, p) \in 0 .. n
<1>1. Latest(q, p) \in 0 .. n \cup {0}
  BY LatestIn DEF SKey
<1> QED BY <1>1

\* A key is consumed: the others stay as they are.
LEMMA ConsumeType ==
  ASSUME NEW X, NEW q \in Seq(X), NEW p
  PROVE  LET r == ConsumeLatest(q, p)
         IN  r \in Seq(X) /\ Len(r) <= Len(q) /\ (Once(q) => Once(r))
<1> DEFINE is == {i \in DOMAIN q : q[i].pointer = p}
           m == Max(is)
           r == RemoveAt(q, m)
<1>1. Len(q) \in Nat /\ DOMAIN q = 1 .. Len(q)
  BY LenProperties
<1>2. CASE is = {}
  BY <1>1, <1>2 DEF ConsumeLatest
<1>3. CASE is # {}
  <2>1. m \in DOMAIN q
    BY <1>1, <1>3, MaxIn
  <2>2. ConsumeLatest(q, p) = r
    BY <1>3 DEF ConsumeLatest
  <2> HIDE DEF m
  <2>3. r \in Seq(X) /\ Len(r) = Len(q) - 1
        /\ \A j \in 1 .. Len(r) : r[j] = IF j < m THEN q[j] ELSE q[j + 1]
    BY <2>1, RemoveAtSeq
  <2>4. DOMAIN r = 1 .. Len(r)
    BY <2>3, LenProperties
  <2> HIDE DEF r
  <2>5. ASSUME Once(q) PROVE Once(r)
    <3> SUFFICES ASSUME NEW i \in 1 .. Len(r), NEW j \in 1 .. Len(r),
                        r[i].pointer = r[j].pointer, r[i].time = r[j].time
                 PROVE  i = j
      BY <2>4 DEF Once
    <3> DEFINE Of(k) == IF k < m THEN k ELSE k + 1
    <3>1. Of(i) \in DOMAIN q /\ Of(j) \in DOMAIN q /\ m \in Nat
      BY <1>1, <2>1, <2>3
    <3>2. r[i] = q[Of(i)] /\ r[j] = q[Of(j)]
      BY <2>3
    <3>3. Of(i) = Of(j)
      <4> HIDE DEF Of
      <4> QED BY <2>5, <3>1, <3>2 DEF Once
    <3> QED BY <3>1, <3>3
  <2> QED BY <1>1, <2>2, <2>3, <2>5
<1> QED BY <1>2, <1>3

\* The keys of a pointer are taken out of a cache: the others stay as they are.
LEMMA WithoutType ==
  ASSUME NEW X, NEW q \in Seq(X), NEW p, NEW r \in Without(q, p)
  PROVE  /\ r \in Seq(X) /\ Len(r) <= Limit /\ (Once(q) => Once(r))
         /\ (\A i \in DOMAIN q : q[i].pointer = p) => r = <<>>
<1> DEFINE kept == {i \in DOMAIN q : q[i].pointer # p}
<1>1. Len(q) \in Nat /\ DOMAIN q = 1 .. Len(q) /\ \A i \in 1 .. Len(q) : q[i] \in X
  BY LenProperties, ElementOfSeq
<1>2. ToSet(q) \subseteq X
  BY <1>1 DEF ToSet
<1>3. PICK m \in 0 .. Limit : r \in [1 .. m -> ToSet(q)]
  BY DEF Without, SeqOf
<1>4. PICK f \in [DOMAIN r -> kept] :
        /\ \A i, j \in DOMAIN r : i < j => f[i] < f[j]
        /\ \A i \in DOMAIN r : r[i] = q[f[i]]
  BY DEF Without
<1>5. m \in Nat /\ m <= Limit /\ r \in [1 .. m -> X] /\ DOMAIN r = 1 .. m
  BY <1>2, <1>3, DragAssumption
<1>6. r \in Seq(X) /\ Len(r) = m
  <2>1. r \in Seq(X)
    BY <1>5, IsASeq
  <2> QED BY <1>5, <2>1, LenProperties
<1>7. ASSUME Once(q) PROVE Once(r)
  <2> SUFFICES ASSUME NEW i \in 1 .. m, NEW j \in 1 .. m,
                      r[i].pointer = r[j].pointer, r[i].time = r[j].time
               PROVE  i = j
    BY <1>5 DEF Once
  <2>1. f[i] \in DOMAIN q /\ f[j] \in DOMAIN q /\ f[i] \in Nat /\ f[j] \in Nat
    BY <1>1, <1>5
  <2>2. f[i] = f[j]
    <3>1. r[i] = q[f[i]] /\ r[j] = q[f[j]]
      BY <1>4, <1>5
    <3>2. q[f[i]].pointer = q[f[j]].pointer /\ q[f[i]].time = q[f[j]].time
      BY <3>1
    <3> QED BY <1>7, <2>1, <3>2 DEF Once
  <2>3. ~(i < j) /\ ~(j < i)
    BY <1>4, <1>5, <2>1, <2>2
  <2> QED BY <2>3
<1>8. ASSUME \A i \in DOMAIN q : q[i].pointer = p PROVE r = <<>>
  <2>1. kept = {}
    BY <1>8
  <2>2. DOMAIN r = {}
    BY <2>1
  <2>3. m = 0
    BY <1>5, <2>2
  <2> QED BY <1>6, <2>3, EmptySeq
<1> QED BY <1>5, <1>6, <1>7, <1>8

\* The last places of a sequence with one more, except the last one.
LEMMA InWindow ==
  ASSUME NEW l \in Nat, NEW lo \in 1 .. l + 1, NEW m, m = (l + 1) - lo + 1, NEW i \in 1 .. m, i # m
  PROVE  lo + i - 1 \in 1 .. l
OBVIOUS

\* What becomes of q when a key is registered in it.
IsRegistered(X, q, p, t, s) ==
  LET r == Register(q, p, t, s)
  IN  /\ r \in Seq(X) /\ (Len(q) <= Limit => Len(r) <= Limit)
      /\ Once(q) => Once(r)
      /\ Once(q) /\ s # 0 => At(r, p, t) # {} /\ \A i \in At(r, p, t) : r[i].session = s

\* A key that is registered is there, once, with the session it was registered with.
LEMMA Registered ==
  ASSUME NEW P, NEW T, NEW S, NEW q \in Seq(Keys(P, T, S)), NEW p \in P, NEW t \in T, NEW s \in S \cup {0}
  PROVE  IsRegistered(Keys(P, T, S), q, p, t, s)
<1> DEFINE k == [pointer |-> p, time |-> t, session |-> s]
           a == Append(q, k)
           lo == Max({1, Len(a) - Limit + 1})
           b == SubSeq(a, lo, Len(a))
           j == Min(At(q, p, t))
           c == [q EXCEPT ![j].session = s]
<1>1. /\ Len(q) \in Nat /\ DOMAIN q = 1 .. Len(q) /\ q \in [1 .. Len(q) -> Keys(P, T, S)]
      /\ \A i \in 1 .. Len(q) : q[i] \in Keys(P, T, S)
  BY LenProperties, ElementOfSeq
<1>2. CASE s = 0
  BY <1>2 DEF Register, IsRegistered
<1>3. CASE s # 0 /\ At(q, p, t) # {}
  <2>1. c \in Seq(Keys(P, T, S)) /\ DOMAIN c = DOMAIN q /\ Len(c) = Len(q)
        /\ \A i \in DOMAIN q : /\ c[i].pointer = q[i].pointer /\ c[i].time = q[i].time
                               /\ i = j => c[i].session = s
    <3> HIDE DEF j
    <3>1. \A i \in DOMAIN q : c[i] = IF i = j THEN [q[i] EXCEPT !.session = s] ELSE q[i]
      OBVIOUS
    <3>2. \A i \in DOMAIN q : c[i] \in Keys(P, T, S) /\ c[i].pointer = q[i].pointer /\ c[i].time = q[i].time
      BY <1>1, <1>3, <3>1 DEF Keys
    <3>3. DOMAIN c = 1 .. Len(q) /\ c = [i \in 1 .. Len(q) |-> c[i]]
      BY <1>1
    <3>4. \A i \in DOMAIN q : i = j => c[i].session = s
      BY <1>1, <3>1 DEF Keys
    <3> HIDE DEF c
    <3>5. c \in [1 .. Len(q) -> Keys(P, T, S)]
      BY <1>1, <3>2, <3>3
    <3>6. c \in Seq(Keys(P, T, S))
      BY <1>1, <3>5, IsASeq
    <3>7. Len(c) = Len(q)
      BY <1>1, <3>3, <3>6, LenProperties
    <3> QED BY <1>1, <3>2, <3>3, <3>4, <3>6, <3>7
  <2>2. Once(q) => Once(c)
    BY <2>1 DEF Once
  <2>3. At(c, p, t) = At(q, p, t)
    BY <2>1 DEF At
  <2>4. ASSUME Once(q) PROVE \A i \in At(c, p, t) : c[i].session = s
    <3> SUFFICES ASSUME NEW i \in At(q, p, t) PROVE c[i].session = s
      BY <2>3
    <3>1. \A h \in At(q, p, t) : h = i
      BY <2>4 DEF At, Once
    <3>2. At(q, p, t) = {i} /\ i \in Int
      BY <1>1, <3>1 DEF At
    <3>3. j = i
      BY <3>2 DEF Min
    <3> QED BY <2>1, <3>3 DEF At
  <2>5. Register(q, p, t, s) = c
    BY <1>3 DEF Register
  <2> HIDE DEF c
  <2> QED BY <1>3, <2>1, <2>2, <2>3, <2>4, <2>5 DEF IsRegistered
<1>4. CASE s # 0 /\ At(q, p, t) = {}
  <2> HIDE DEF j, c
  <2>1. k \in Keys(P, T, S)
    BY <1>4 DEF Keys
  <2>2. k.pointer = p /\ k.time = t /\ k.session = s
    OBVIOUS
  <2> HIDE DEF k
  <2>3. /\ a \in Seq(Keys(P, T, S)) /\ Len(a) = Len(q) + 1
        /\ \A i \in 1 .. Len(q) : a[i] = q[i]
        /\ a[Len(q) + 1] = k
    BY <2>1, AppendProperties
  <2>4. \A i \in 1 .. Len(a) : a[i] \in Keys(P, T, S)
    BY <2>3, ElementOfSeq
  <2> HIDE DEF a
  <2>5. lo \in 1 .. Len(a)
    <3>1. Limit \in Nat /\ Limit > 0
      BY DragAssumption
    <3> DEFINE m == Len(a) - Limit + 1
    <3>2. m \in Int /\ m <= Len(a) /\ 1 <= Len(a)
      BY <1>1, <2>3, <3>1
    <3> HIDE DEF m
    <3>3. Max({1, m}) = IF m >= 1 THEN m ELSE 1
      BY <3>2 DEF Max
    <3> QED BY <1>1, <2>3, <3>2, <3>3 DEF m
  <2>a. Limit \in Nat /\ Len(a) - lo + 1 <= Limit
    <3>1. Limit \in Nat /\ Limit > 0
      BY DragAssumption
    <3> DEFINE m == Len(a) - Limit + 1
    <3>2. m \in Int
      BY <1>1, <2>3, <3>1
    <3> HIDE DEF m
    <3>3. Max({1, m}) = IF m >= 1 THEN m ELSE 1
      BY <3>2 DEF Max
    <3> QED BY <1>1, <2>3, <3>1, <3>3 DEF m
  <2> HIDE DEF lo
  <2>6. /\ b \in Seq(Keys(P, T, S)) /\ Len(b) = Len(a) - lo + 1
        /\ \A i \in 1 .. Len(b) : b[i] = a[lo + i - 1]
    <3>1. \A i \in lo .. Len(a) : a[i] \in Keys(P, T, S)
      BY <1>1, <2>3, <2>4, <2>5
    <3>2. lo \in Int /\ Len(a) \in Int /\ lo <= Len(a)
      BY <1>1, <2>3, <2>5
    <3> QED BY <3>1, <3>2, SubSeqProperties
  <2>7. DOMAIN b = 1 .. Len(b) /\ Len(b) \in Nat \ {0}
    BY <1>1, <2>3, <2>5, <2>6, LenProperties
  <2> HIDE DEF b
  <2>8. /\ b[Len(b)] = k
        /\ \A i \in 1 .. Len(b) : i # Len(b) => lo + i - 1 \in 1 .. Len(q) /\ b[i] = q[lo + i - 1]
    <3>1. Len(b) \in 1 .. Len(b) /\ lo + Len(b) - 1 = Len(q) + 1 /\ Len(a) \in Nat
      BY <1>1, <2>3, <2>5, <2>6, <2>7
    <3>2. b[Len(b)] = k
      BY <2>3, <2>6, <3>1
    <3>3. ASSUME NEW i \in 1 .. Len(b), i # Len(b)
          PROVE  lo + i - 1 \in 1 .. Len(q) /\ b[i] = q[lo + i - 1]
      <4>1. lo + i - 1 \in 1 .. Len(q)
        BY <1>1, <2>3, <2>5, <2>6, <3>3, InWindow
      <4>2. b[i] = a[lo + i - 1]
        BY <2>6
      <4> QED BY <2>3, <4>1, <4>2
    <3> QED BY <3>2, <3>3
  <2>9. \A i \in 1 .. Len(b) : b[i].pointer = p /\ b[i].time = t => i = Len(b)
    BY <1>1, <1>4, <2>8 DEF At
  <2>10. ASSUME Once(q) PROVE Once(b)
    <3> SUFFICES ASSUME NEW i \in 1 .. Len(b), NEW h \in 1 .. Len(b),
                        b[i].pointer = b[h].pointer, b[i].time = b[h].time
                 PROVE  i = h
      BY <2>7 DEF Once
    <3>1. CASE i = Len(b) \/ h = Len(b)
      BY <2>2, <2>8, <2>9, <3>1
    <3>2. CASE i # Len(b) /\ h # Len(b)
      <4>1. lo + i - 1 = lo + h - 1
        BY <1>1, <2>8, <2>10, <3>2, SMTT(30) DEF Once
      <4> QED BY <1>1, <2>3, <2>5, <4>1, SMTT(30)
    <3> QED BY <3>1, <3>2
  <2>11. At(b, p, t) = {Len(b)}
    <3>1. Len(b) \in DOMAIN b /\ b[Len(b)].pointer = p /\ b[Len(b)].time = t
      <4>1. b[Len(b)] = k
        BY <2>8
      <4>2. Len(b) \in DOMAIN b
        BY <2>7
      <4> QED BY <2>2, <4>1, <4>2
    <3>2. \A i \in DOMAIN b : b[i].pointer = p /\ b[i].time = t => i = Len(b)
      BY <2>7, <2>9
    <3> QED BY <3>1, <3>2 DEF At
  <2>12. Register(q, p, t, s) = b
    BY <1>4 DEF Register, b, a, k, lo
  <2> QED BY <2>2, <2>6, <2>8, <2>10, <2>11, <2>12, <2>a DEF IsRegistered
<1> QED BY <1>2, <1>3, <1>4

-----------------------------------------------------------------------------
(* Which touch a drag follows. *)

FollowTypes ==
  /\ sessions \in Nat
  /\ bindings \in [Pointers -> 0 .. sessions]
  /\ pending \in Seq(SKey(sessions)) /\ dispatched \in Seq(SKey(sessions))
  /\ activeSession \in 0 .. sessions /\ compensation.session \in 0 .. sessions
  /\ \A d \in DOMAIN drags : drags[d].pointer \in Pointers /\ drags[d].session \in 0 .. sessions

FollowInv == WaitInv /\ DragInv /\ FollowTypes /\ Once(dispatched) /\ OwnTouch

LEMMA FollowInit == Init => FollowInv
<1> SUFFICES ASSUME Init PROVE FollowInv
  OBVIOUS
<1>1. /\ sessions = 0 /\ bindings = [p \in Pointers |-> 0] /\ pending = <<>> /\ dispatched = <<>>
      /\ activeSession = 0 /\ compensation = NoCompensation /\ listener = 0 /\ drags = <<>>
  BY DEF Init
<1>2. DOMAIN drags = {} /\ DOMAIN dispatched = {}
      /\ pending \in Seq(SKey(0)) /\ dispatched \in Seq(SKey(0))
  BY <1>1
<1>3. FollowTypes
  BY <1>1, <1>2 DEF FollowTypes, NoCompensation
<1>4. Once(dispatched) /\ OwnTouch
  BY <1>1, <1>2 DEF Once, OwnTouch
<1> QED BY <1>3, <1>4, WaitInit, DragInit DEF FollowInv

LEMMA KeysMonotonic ==
  ASSUME NEW m \in Nat, NEW n \in Nat, m <= n, NEW q \in Seq(SKey(m))
  PROVE  q \in Seq(SKey(n))
<1>1. SKey(m) \subseteq SKey(n)
  BY DEF SKey, Keys
<1> QED BY <1>1, SeqMonotonic

\* An event that is prepared leaves the sessions of other pointers alone.  Its own is a new
\* one, or the one it had; while it is pressed it is found.
LEMMA Prepared ==
  ASSUME FollowTypes, Once(dispatched), NEW p \in Pointers, NEW active \in BOOLEAN,
         NEW began \in BOOLEAN, NEW t \in Nat, NEW no, Prepare(p, active, began, t, no)
  PROVE  /\ sessions' \in Nat /\ sessions <= sessions'
         /\ bindings' \in [Pointers -> 0 .. sessions']
         /\ pending' \in Seq(SKey(sessions')) /\ dispatched' \in Seq(SKey(sessions'))
         /\ Once(dispatched')
         /\ \A q \in Pointers : q # p => bindings'[q] = bindings[q]
         /\ \/ bindings'[p] = sessions + 1
            \/ bindings'[p] = bindings[p] /\ (active => ~began /\ bindings[p] # 0)
         /\ active => /\ bindings'[p] # 0
                      /\ ResolveSessionId(pending', dispatched', bindings', p, t) = bindings'[p]
<1> DEFINE new == active /\ (began \/ bindings[p] = 0)
           session == CASE new -> sessions + 1
                        [] ~new /\ ~active /\ bindings[p] = 0 -> Latest(pending, p)
                        [] OTHER -> bindings[p]
<1>1. /\ sessions' = IF new THEN sessions + 1 ELSE sessions
      /\ bindings' = [bindings EXCEPT ![p] = IF new THEN session ELSE @]
      /\ pending' = IF active THEN Register(pending, p, t, session) ELSE pending
      /\ dispatched' = Register(dispatched, p, t, session)
  BY DEF Prepare
<1>2. /\ sessions \in Nat /\ bindings \in [Pointers -> 0 .. sessions] /\ bindings[p] \in 0 .. sessions
      /\ pending \in Seq(SKey(sessions)) /\ dispatched \in Seq(SKey(sessions))
  BY DEF FollowTypes
<1>3. Latest(pending, p) \in 0 .. sessions
  BY <1>2, LatestType
<1>4. /\ new => session = sessions + 1
      /\ active /\ ~new => session = bindings[p]
      /\ ~new => session \in 0 .. sessions
  BY <1>2, <1>3
<1>5. new \in BOOLEAN /\ (new => active) /\ (~new /\ active => ~began /\ bindings[p] # 0)
  OBVIOUS
<1> HIDE DEF new, session
<1>6. sessions' \in Nat /\ sessions <= sessions' /\ session \in 0 .. sessions'
  BY <1>1, <1>2, <1>4
<1>7. pending \in Seq(SKey(sessions')) /\ dispatched \in Seq(SKey(sessions'))
  BY <1>2, <1>6, KeysMonotonic
<1>8. pending' \in Seq(SKey(sessions'))
  <2>1. IsRegistered(SKey(sessions'), pending, p, t, session)
    BY <1>6, <1>7, Registered DEF SKey
  <2> QED BY <1>1, <1>7, <2>1 DEF IsRegistered
<1>9. /\ dispatched' \in Seq(SKey(sessions')) /\ Once(dispatched')
      /\ session # 0 => At(dispatched', p, t) # {}
                        /\ \A i \in At(dispatched', p, t) : dispatched'[i].session = session
  <2>1. IsRegistered(SKey(sessions'), dispatched, p, t, session)
    BY <1>6, <1>7, Registered DEF SKey
  <2> QED BY <1>1, <2>1 DEF IsRegistered
<1>10. /\ \A q \in Pointers : q # p => bindings'[q] = bindings[q]
       /\ bindings'[p] = IF new THEN session ELSE bindings[p]
  BY <1>1, <1>2
<1>11. bindings' \in [Pointers -> 0 .. sessions']
  BY <1>1, <1>2, <1>4
<1>12. active => session # 0 /\ bindings'[p] = session
  BY <1>2, <1>4, <1>5, <1>10
<1>13. ASSUME active PROVE ResolveSessionId(pending', dispatched', bindings', p, t) = bindings'[p]
  <2> DEFINE D == dispatched'
             A == At(D, p, t)
  <2>1. D \in Seq(SKey(sessions')) /\ Once(D) /\ A # {} /\ \A i \in A : D[i].session = session
    BY <1>9, <1>12, <1>13
  <2>2. ResolveSessionId(pending', D, bindings', p, t) = D[Min(A)].session
    BY <2>1 DEF ResolveSessionId
  <2>3. Min(A) \in A
    <3> HIDE DEF D
    <3>1. DOMAIN D \subseteq Int
      BY <2>1, LenProperties
    <3>2. PICK i \in A : TRUE
      BY <2>1
    <3>3. A = {i} /\ i \in Int
      BY <2>1, <3>1, <3>2 DEF At, Once
    <3> QED BY <3>3 DEF Min
  <2> HIDE DEF A, D
  <2>4. D[Min(A)].session = session
    BY <2>1, <2>3
  <2> QED BY <1>12, <1>13, <2>2, <2>4 DEF D
<1> QED BY <1>4, <1>5, <1>6, <1>8, <1>9, <1>10, <1>11, <1>12, <1>13

\* If sessions are those of the touches that had them, the drag's remains its touch's.
LEMMA OwnTouchKept ==
  ASSUME FollowInv, UNCHANGED <<listener, drags, activeSession, compensation, hasty>>,
         \A r \in Pointers : \A s \in 0 .. sessions :
           Bound(r, s)' => Bound(r, s) /\ touch'[r].no = touch[r].no
  PROVE  OwnTouch'
<1> SUFFICES ASSUME listener # 0
             PROVE  LET drag == drags[listener]
                        p == drag.pointer
                    IN  /\ Bound(p, activeSession)' => touch'[p].no = drag.touch
                        /\ Bound(p, drag.session)' => touch'[p].no = drag.touch
                        /\ ~hasty /\ compensation.valid /\ compensation.pointer = p
                           /\ Bound(p, compensation.session)' => touch'[p].no = drag.touch
  BY DEF OwnTouch, Bound
<1> DEFINE p == drags[listener].pointer
<1>1. listener \in DOMAIN drags
  BY LenProperties DEF FollowInv, DragInv, DragTypes, LastDragHeard
<1>2. p \in Pointers /\ drags[listener].session \in 0 .. sessions
      /\ activeSession \in 0 .. sessions /\ compensation.session \in 0 .. sessions
  BY <1>1 DEF FollowInv, FollowTypes
<1>3. activeSession' = activeSession /\ drags' = drags /\ listener' = listener /\ compensation' = compensation
  OBVIOUS
<1>4. \A s \in {activeSession, drags[listener].session, compensation.session} :
        Bound(p, s)' => Bound(p, s) /\ touch'[p].no = touch[p].no
  BY <1>2
<1> QED BY <1>3, <1>4 DEF FollowInv, OwnTouch, Bound

\* A drag's window changes; what is known of the drag stays.
LEMMA DragKept ==
  ASSUME NEW S, NEW ds \in Seq(Drag(S)), NEW i, NEW w \in {"hidden", "shown", "gone"}
  PROVE  LET es == [ds EXCEPT ![i].window = w]
         IN  /\ DOMAIN es = DOMAIN ds
             /\ \A j \in DOMAIN ds : /\ es[j].pointer = ds[j].pointer /\ es[j].session = ds[j].session
                                     /\ es[j].touch = ds[j].touch /\ es[j].synthetic = ds[j].synthetic
                                     /\ (j # i => es[j].window = ds[j].window)
<1> DEFINE es == [ds EXCEPT ![i].window = w]
<1>1. DOMAIN es = DOMAIN ds
  OBVIOUS
<1>2. ASSUME NEW j \in DOMAIN ds
      PROVE  /\ es[j].pointer = ds[j].pointer /\ es[j].session = ds[j].session
             /\ es[j].touch = ds[j].touch /\ es[j].synthetic = ds[j].synthetic
             /\ (j # i => es[j].window = ds[j].window)
  <2>1. ds[j] \in Drag(S)
    BY ElementOfSeq, LenProperties
  <2>2. CASE i # j
    BY <1>2, <2>2
  <2>3. CASE i = j
    <3>1. es[j] = [ds[j] EXCEPT !.window = w]
      BY <1>2, <2>3
    <3> QED BY <2>1, <3>1 DEF Drag
  <2> QED BY <2>2, <2>3
<1> QED BY <1>1, <1>2

\* The drags' windows change, and a drag is no longer active or no longer one that was not
\* stopped in haste: what it is compared with only becomes less.
LEMMA LessCompared ==
  ASSUME FollowInv,
         UNCHANGED <<touch, bindings, sessions, pending, dispatched, compensation, listener>>,
         activeSession' \in {0, activeSession}, ~hasty' => ~hasty,
         DOMAIN drags' = DOMAIN drags,
         \A j \in DOMAIN drags : /\ drags'[j].pointer = drags[j].pointer
                                 /\ drags'[j].session = drags[j].session
                                 /\ drags'[j].touch = drags[j].touch
  PROVE  FollowTypes' /\ Once(dispatched') /\ OwnTouch'
<1>1. FollowTypes'
  BY DEF FollowInv, FollowTypes
<1>2. Once(dispatched')
  BY DEF FollowInv
<1>3. listener # 0 => listener \in DOMAIN drags
  BY LenProperties DEF FollowInv, DragInv, DragTypes, LastDragHeard
<1>4. OwnTouch'
  BY <1>3 DEF FollowInv, OwnTouch, Bound
<1> QED BY <1>1, <1>2, <1>4

LEMMA FollowStep == FollowInv /\ [Next]_vars => FollowInv'
<1> SUFFICES ASSUME FollowInv, [Next]_vars PROVE FollowTypes' /\ Once(dispatched') /\ OwnTouch'
  BY WaitStep, DragStep DEF FollowInv
<1>a. PICK S : drags \in Seq(Drag(S))
  BY DEF FollowInv, DragInv, DragTypes
<1>b. Len(drags) \in Nat /\ DOMAIN drags = 1 .. Len(drags) /\ listener = Len(drags)
  BY <1>a, LenProperties DEF FollowInv, DragInv, LastDragHeard
<1>c. touch \in [Pointers -> [kind : {"none", "finger", "synthetic"}, no : Nat]] /\ touches \in Nat
  BY DEF FollowInv, WaitInv, WaitTypes
<1>d. hasty \in BOOLEAN
  BY DEF FollowInv, DragInv, DragTypes
<1>1. ASSUME NEW ps \in SUBSET Fingers, NEW phase \in {"Began", "Moved", "Ended"}, Touch(ps, phase)
      PROVE  FollowTypes' /\ Once(dispatched') /\ OwnTouch'
  <2>1. UNCHANGED <<sessionVars, dragVars>>
    BY <1>1 DEF Touch
  <2>2. ASSUME NEW r \in Pointers, touch'[r].kind = "synthetic" PROVE touch'[r] = touch[r]
    BY <1>1, <2>2 DEF Touch, NoTouch
  <2>3. \A r \in Pointers : \A s \in 0 .. sessions :
          Bound(r, s)' => Bound(r, s) /\ touch'[r].no = touch[r].no
    BY <2>1, <2>2 DEF Bound, sessionVars
  <2>4. OwnTouch'
    BY <2>1, <2>3, OwnTouchKept DEF sessionVars, dragVars
  <2> QED BY <2>1, <2>4 DEF FollowInv, FollowTypes, sessionVars, dragVars
<1>2. ASSUME NEW p \in Pointers, NEW phase \in {"Began", "Moved", "Ended"}, NEW t \in 1 .. MaxTime,
             SyntheticTouch(p, phase, t)
      PROVE  FollowTypes' /\ Once(dispatched') /\ OwnTouch'
  <2> DEFINE no == IF phase = "Began" THEN touches + 1 ELSE touch[p].no
  <2>1. /\ Prepare(p, phase # "Ended", phase = "Began", t, no)
        /\ touch' = [touch EXCEPT ![p] = [kind |-> IF phase # "Ended" THEN "synthetic" ELSE "none",
                                          no |-> no]]
        /\ phase = "Moved" => touch[p].kind = "synthetic"
        /\ UNCHANGED <<activeSession, compensation, dragVars>>
    BY <1>2 DEF SyntheticTouch
  <2>2. /\ sessions' \in Nat /\ sessions <= sessions'
        /\ bindings' \in [Pointers -> 0 .. sessions']
        /\ pending' \in Seq(SKey(sessions')) /\ dispatched' \in Seq(SKey(sessions'))
        /\ Once(dispatched')
        /\ \A q \in Pointers : q # p => bindings'[q] = bindings[q]
        /\ \/ bindings'[p] = sessions + 1
           \/ bindings'[p] = bindings[p] /\ (phase # "Ended" => ~(phase = "Began") /\ bindings[p] # 0)
    <3> HIDE DEF no
    <3>1. t \in Nat
      BY DragAssumption
    <3> QED BY <2>1, <3>1, Prepared DEF FollowInv
  <2>3. ASSUME NEW r \in Pointers, NEW s \in 0 .. sessions, Bound(r, s)'
        PROVE  Bound(r, s) /\ touch'[r].no = touch[r].no
    <3>1. s # 0 /\ touch'[r].kind = "synthetic" /\ bindings'[r] = s
      BY <2>3 DEF Bound
    <3>2. CASE r # p
      BY <1>c, <2>1, <2>2, <3>1, <3>2 DEF Bound
    <3>3. CASE r = p
      <4>1. phase # "Ended"
        BY <1>c, <2>1, <3>1, <3>3
      <4>2. bindings'[p] # sessions + 1
        BY <3>1, <3>3 DEF FollowInv, FollowTypes
      <4>3. bindings[p] = s /\ phase = "Moved"
        BY <2>2, <3>1, <3>3, <4>1, <4>2
      <4>4. touch'[p].no = touch[p].no /\ touch[p].kind = "synthetic"
        BY <1>c, <2>1, <4>3
      <4> QED BY <3>1, <3>3, <4>3, <4>4 DEF Bound
    <3> QED BY <3>2, <3>3
  <2>4. OwnTouch'
    <3> HIDE DEF no
    <3> QED BY <2>1, <2>3, OwnTouchKept DEF dragVars
  <2>5. FollowTypes'
    <3>1. 0 .. sessions \subseteq 0 .. sessions'
      BY <2>2 DEF FollowInv, FollowTypes
    <3> HIDE DEF no
    <3> QED BY <2>1, <2>2, <3>1 DEF FollowInv, FollowTypes, dragVars
  <2> QED BY <2>2, <2>4, <2>5
<1>3. CASE Return
  <2>1. UNCHANGED <<eventVars, dragVars>>
    BY <1>3 DEF Return
  <2>2. CASE UNCHANGED sessionVars
    BY <2>1, <2>2, LessCompared DEF eventVars, dragVars, sessionVars
  <2>3. ASSUME NEW p, Complete(p), ~ UNCHANGED sessionVars
        PROVE  FollowTypes' /\ Once(dispatched') /\ OwnTouch'
    <3>1. /\ bindings' = [bindings EXCEPT ![p] = 0] /\ pending' \in Without(pending, p)
          /\ compensation' = NoCompensation /\ activeSession' = 0
          /\ UNCHANGED <<sessions, dispatched>>
      BY <2>3 DEF Complete
    <3>2. pending' \in Seq(SKey(sessions))
      BY <3>1, WithoutType DEF FollowInv, FollowTypes
    <3>3. /\ bindings' \in [Pointers -> 0 .. sessions]
          /\ \A r \in Pointers : bindings'[r] # 0 => bindings'[r] = bindings[r]
      <4>1. bindings \in [Pointers -> 0 .. sessions] /\ 0 \in 0 .. sessions
        BY DEF FollowInv, FollowTypes
      <4>2. bindings' = [r \in Pointers |-> IF r = p THEN 0 ELSE bindings[r]]
        BY <3>1, <4>1
      <4>3. \A r \in Pointers : bindings[r] \in 0 .. sessions
        BY <4>1
      <4> QED BY <4>1, <4>2, <4>3
    <3>4. FollowTypes'
      BY <2>1, <3>1, <3>2, <3>3 DEF FollowInv, FollowTypes, dragVars, NoCompensation
    <3>5. OwnTouch'
      <4>1. listener # 0 => drags[listener].pointer \in Pointers
        BY <1>b DEF FollowInv, FollowTypes
      <4>2. listener' = listener /\ drags' = drags /\ touch' = touch
        BY <2>1 DEF dragVars, eventVars
      <4>3. activeSession' = 0 /\ compensation'.valid = FALSE
        BY <3>1 DEF NoCompensation
      <4> QED BY <3>3, <4>1, <4>2, <4>3 DEF FollowInv, OwnTouch, Bound
    <3> QED BY <3>1, <3>4, <3>5 DEF FollowInv
  <2> QED BY <1>3, <2>2, <2>3 DEF Return
<1>4. ASSUME NEW p \in Pointers, StartDrag(p) PROVE FollowTypes' /\ Once(dispatched') /\ OwnTouch'
  <2> DEFINE n == Len(drags)
             b == IsSyntheticDragTouchActiveForPointer(p)
             s == IF b THEN SessionOfDrag(p) ELSE 0
             d == [pointer |-> p, synthetic |-> b, session |-> s, touch |-> touch[p].no,
                   window |-> "hidden"]
  <2>1. /\ drags' = Append(drags, d) /\ activeSession' = s /\ listener' = n + 1
        /\ pending' = IF b THEN ConsumeLatest(pending, p) ELSE pending
        /\ UNCHANGED <<touch, sessions, bindings, dispatched, compensation>>
    BY <1>4 DEF StartDrag, eventVars
  <2>2. s \in 0 .. sessions
    BY LatestType DEF SessionOfDrag, FollowInv, FollowTypes
  <2>3. d.pointer = p /\ d.session = s /\ d.touch = touch[p].no
    OBVIOUS
  <2>4. /\ DOMAIN drags' = 1 .. n + 1
        /\ \A i \in 1 .. n : drags'[i] = drags[i]
        /\ drags'[n + 1] = d
    <3>1. DOMAIN drags' = 1 .. n + 1 /\ \A i \in 1 .. n : drags'[i] = drags[i]
      <4> HIDE DEF b, s
      <4> QED BY <1>a, <2>1, AppendDrag
    <3>2. drags'[n + 1] = d
      <4> DEFINE R == Drag(S) \cup {d}
      <4>1. Drag(S) \subseteq R /\ d \in R
        OBVIOUS
      <4> HIDE DEF d, R
      <4>2. drags \in Seq(R)
        BY <1>a, <4>1, SeqMonotonic
      <4> QED BY <2>1, <4>1, <4>2, AppendProperties
    <3> QED BY <3>1, <3>2
  <2>5. pending' \in Seq(SKey(sessions))
    BY <2>1, ConsumeType DEF FollowInv, FollowTypes
  <2> HIDE DEF d, s, b
  <2>6. \A i \in DOMAIN drags' : drags'[i].pointer \in Pointers /\ drags'[i].session \in 0 .. sessions
    BY <1>b, <2>2, <2>3, <2>4 DEF FollowInv, FollowTypes
  <2>7. FollowTypes'
    BY <2>1, <2>2, <2>5, <2>6 DEF FollowInv, FollowTypes
  <2>8. drags'[listener'].pointer = p /\ drags'[listener'].touch = touch'[p].no
    BY <2>1, <2>3, <2>4
  <2>9. OwnTouch'
    BY <2>8 DEF OwnTouch
  <2> QED BY <2>1, <2>7, <2>9 DEF FollowInv
<1>5. ASSUME NEW p \in Pointers, GetCurPointerEventInfo(p)
      PROVE  FollowTypes' /\ Once(dispatched') /\ OwnTouch'
  BY <1>5, LessCompared DEF GetCurPointerEventInfo, eventVars, dragVars, sessionVars
<1>6. ASSUME NEW d \in DOMAIN drags, OnSurfaceNodeChanged(d)
      PROVE  FollowTypes' /\ Once(dispatched') /\ OwnTouch'
  <2>1. /\ drags[d].window # "gone" /\ drags' = [drags EXCEPT ![d].window = "shown"]
        /\ compensation' \in {compensation, CompensationOf(d)}
        /\ UNCHANGED <<touch, sessions, bindings, pending, dispatched, activeSession, listener, hasty>>
    BY <1>6 DEF OnSurfaceNodeChanged, eventVars
  <2>2. /\ DOMAIN drags' = DOMAIN drags
        /\ \A j \in DOMAIN drags : /\ drags'[j].pointer = drags[j].pointer
                                   /\ drags'[j].session = drags[j].session
                                   /\ drags'[j].touch = drags[j].touch
    BY <1>a, <2>1, DragKept
  <2>3. CASE compensation' = compensation
    BY <2>1, <2>2, <2>3, LessCompared
  <2>4. CASE compensation' # compensation
    <3>1. compensation' = [valid |-> TRUE, session |-> drags[d].session, pointer |-> drags[d].pointer]
      BY <2>1, <2>4 DEF CompensationOf
    <3>2. ~hasty => d = listener
      BY <2>1 DEF FollowInv, DragInv, OneDragAtATime
    <3>3. FollowTypes'
      BY <2>1, <2>2, <3>1 DEF FollowInv, FollowTypes
    <3>4. listener # 0 => listener \in DOMAIN drags
      BY <1>b
    <3>5. OwnTouch'
      BY <2>1, <2>2, <3>1, <3>2, <3>4 DEF FollowInv, OwnTouch, Bound
    <3> QED BY <2>1, <3>3, <3>5 DEF FollowInv
  <2> QED BY <2>3, <2>4
<1>7. ASSUME Stop PROVE FollowTypes' /\ Once(dispatched') /\ OwnTouch'
  <2>1. activeSession' = 0 /\ (~hasty' => ~hasty) /\ drags' = drags
        /\ UNCHANGED <<touch, bindings, sessions, pending, dispatched, compensation, listener>>
    BY <1>7, <1>d DEF Stop, eventVars
  <2> QED BY <2>1, LessCompared
<1>8. CASE DestroyDragWindow
  <2>1. /\ drags' = [drags EXCEPT ![manager.window].window = "gone"]
        /\ UNCHANGED <<touch, bindings, sessions, pending, dispatched, compensation, listener,
                       activeSession, hasty>>
    BY <1>8 DEF DestroyDragWindow, eventVars, sessionVars
  <2>2. /\ DOMAIN drags' = DOMAIN drags
        /\ \A j \in DOMAIN drags : /\ drags'[j].pointer = drags[j].pointer
                                   /\ drags'[j].session = drags[j].session
                                   /\ drags'[j].touch = drags[j].touch
    BY <1>a, <2>1, DragKept
  <2> QED BY <2>1, <2>2, LessCompared
<1>9. CASE UNCHANGED vars
  BY <1>9, LessCompared DEF vars, eventVars, dragVars, sessionVars
<1> QED BY <1>1, <1>2, <1>3, <1>4, <1>5, <1>6, <1>7, <1>8, <1>9 DEF Next, StopDrag, CancelDrag

LEMMA MovedByOwnTouchHolds == FollowInv /\ FollowInv' /\ [Next]_vars => [MovedByOwnTouch]_vars
<1> SUFFICES ASSUME FollowInv, FollowInv', Next, moved' # None, moved = None, handling' # None,
                    NEW p \in Pointers, touch'[p].kind = "synthetic", p \in handling'.pointers
             PROVE  /\ activeSession # 0 => moved'.no = drags[listener].touch
                    /\ moved'.corrected /\ ~hasty => moved'.no = drags[manager.drag].touch
  BY DEF MovedByOwnTouch
<1>a. touch \in [Pointers -> [kind : {"none", "finger", "synthetic"}, no : Nat]]
  BY DEF FollowInv, WaitInv, WaitTypes
<1>1. ASSUME NEW ps \in SUBSET Fingers, NEW phase \in {"Began", "Moved", "Ended"}, Touch(ps, phase)
      PROVE  FALSE
  <2>1. p \in ps
    BY <1>1 DEF Touch
  <2>2. touch'[p].kind # "synthetic"
    BY <1>1, <2>1 DEF Touch, NoTouch
  <2> QED BY <2>2
<1>2. ASSUME NEW q \in Pointers, NEW phase \in {"Began", "Moved", "Ended"}, NEW t \in 1 .. MaxTime,
             SyntheticTouch(q, phase, t)
      PROVE  /\ activeSession # 0 => moved'.no = drags[listener].touch
             /\ moved'.corrected /\ ~hasty => moved'.no = drags[manager.drag].touch
  <2> DEFINE no == IF phase = "Began" THEN touches + 1 ELSE touch[q].no
             session == ResolveSessionId(pending', dispatched', bindings', q, t)
  <2>1. /\ Prepare(q, phase # "Ended", phase = "Began", t, no)
        /\ touch' = [touch EXCEPT ![q] = [kind |-> IF phase # "Ended" THEN "synthetic" ELSE "none",
                                          no |-> no]]
        /\ UNCHANGED <<activeSession, compensation, dragVars>>
        /\ handling'.pointers = {q}
    BY <1>2 DEF SyntheticTouch
  <2>2. p = q /\ phase # "Ended" /\ touch'[q].kind = "synthetic" /\ touch'[q].no = no
    BY <1>a, <2>1
  <2>3. Follows({q}) /\ UpdateSyntheticPointAction(q, t, no)
    BY <1>2 DEF SyntheticTouch
  <2>4. t \in Nat
    BY DragAssumption
  <2> HIDE DEF no
  <2>5. bindings'[q] # 0 /\ session = bindings'[q]
    BY <2>1, <2>2, <2>4, Prepared DEF FollowInv
  <2>6. /\ activeSession # 0 => session = activeSession
        /\ moved' = [no |-> no, corrected |-> Corrected(q, session)]
    BY <2>3 DEF UpdateSyntheticPointAction
  <2>7. /\ listener # 0 /\ drags[listener].pointer = q
        /\ manager.state # "none"
    BY <2>3 DEF Follows, GetDragState
  <2>8. /\ listener' = listener /\ drags' = drags /\ activeSession' = activeSession
        /\ compensation' = compensation /\ hasty' = hasty
    BY <2>1 DEF dragVars
  <2> HIDE DEF session
  <2>9. activeSession # 0 => touch'[q].no = drags[listener].touch
    <3>1. activeSession # 0 => Bound(q, activeSession)'
      BY <2>2, <2>5, <2>6, <2>8 DEF Bound
    <3> QED BY <2>7, <2>8, <3>1 DEF FollowInv, OwnTouch, Bound
  <2>10. Corrected(q, session) /\ ~hasty => touch'[q].no = drags[listener].touch
    <3> SUFFICES ASSUME Corrected(q, session), ~hasty PROVE touch'[q].no = drags[listener].touch
      OBVIOUS
    <3>1. compensation.valid /\ compensation.session = session /\ compensation.pointer = q
      BY DEF Corrected
    <3>2. Bound(q, compensation.session)'
      BY <2>2, <2>5, <2>8, <3>1 DEF Bound
    <3> QED BY <2>7, <2>8, <3>1, <3>2 DEF FollowInv, OwnTouch, Bound
  <2>11. ~hasty => manager.drag = listener
    BY <2>7 DEF FollowInv, DragInv, OneDragAtATime
  <2> QED BY <2>2, <2>6, <2>9, <2>10, <2>11
<1>3. CASE Return
  BY <1>3 DEF Return
<1>4. ASSUME NEW q \in Pointers, StartDrag(q) \/ GetCurPointerEventInfo(q) PROVE FALSE
  BY <1>4 DEF StartDrag, GetCurPointerEventInfo
<1>5. ASSUME NEW d \in DOMAIN drags, OnSurfaceNodeChanged(d) PROVE FALSE
  BY <1>5 DEF OnSurfaceNodeChanged
<1>6. CASE StopDrag \/ CancelDrag \/ DestroyDragWindow
  BY <1>6 DEF StopDrag, CancelDrag, DestroyDragWindow, Stop
<1> QED BY <1>1, <1>2, <1>3, <1>4, <1>5, <1>6 DEF Next

\* While a synthetic drag is not stopped, the drag manager is moved only by events of the
\* touch the drag began in, and corrects the points of just that touch, for any pointers,
\* any number of touches and drags, and however many sessions the caches had to forget:
\* of the sessions an event is compared with, none is ever that of a later touch.
THEOREM DragFollowsOwnTouch == Spec => FollowsOwnTouch
<1>1. Spec => []FollowInv
  BY FollowInit, FollowStep, PTL DEF Spec
<1> QED BY <1>1, MovedByOwnTouchHolds, PTL DEF Spec, FollowsOwnTouch

-----------------------------------------------------------------------------
(* That a drag follows its touch to the end. *)

\* The event that lifts p.
Lifts(p) == [kind |-> "synthetic", pointers |-> {p}, active |-> FALSE]

Handled == [kind : {"finger", "synthetic"}, pointers : SUBSET Pointers, active : BOOLEAN]

Cached(q) == q \in Seq(Keys(Pointers, 1 .. MaxTime, 1 .. sessions)) /\ Len(q) <= Limit /\ Once(q)

TouchTypes ==
  /\ touches <= MaxTouches /\ sessions <= touches
  /\ sessionOf \in Seq(Nat) /\ Len(sessionOf) = sessions
  /\ point \in [pointer : Pointers \cup {None}, active : BOOLEAN]
  /\ \A p \in Pointers : touch[p].no <= touches /\ (touch[p].kind = "synthetic" => bindings[p] # 0)
  /\ \A d \in DOMAIN drags : drags[d].touch \in 0 .. touches
  /\ handling = None \/ handling \in Handled
  /\ handling # None /\ handling.kind = "synthetic" =>
       \E p \in Pointers : handling.pointers = {p} /\ (~handling.active => touch[p].kind # "synthetic")
  /\ engine \in BOOLEAN /\ overlapped \in BOOLEAN
  /\ Cached(pending) /\ Cached(dispatched)

\* No synthetic touch is under way, and nothing is left of any.
Forgotten ==
  /\ point = [pointer |-> None, active |-> FALSE] /\ pending = <<>> /\ activeSession = 0
  /\ \A q \in Pointers : touch[q].kind # "synthetic" /\ bindings[q] = 0

\* The one synthetic touch is of p, and all that is kept is of it; or the event that lifts p
\* is being handled.
Touched(p) ==
  /\ point.pointer = p /\ bindings[p] # 0
  /\ \A q \in Pointers : q # p => touch[q].kind # "synthetic" /\ bindings[q] = 0
  /\ pending \in Seq(Keys({p}, 1 .. MaxTime, {bindings[p]}))
  /\ point.active <=> touch[p].kind = "synthetic"
  /\ point.active => sessionOf[bindings[p]] = touch[p].no
  /\ ~point.active => handling = Lifts(p)

Alone == Forgotten \/ \E p \in Pointers : Touched(p)

\* The last drag, as long as the engine goes on with it, its window is there and the
\* touch goes on that it began in: that touch's session is the drag's, the active one and,
\* once the drag is shown, the one to correct for.
Heard ==
  LET drag == drags[listener]
      p == drag.pointer
  IN  /\ listener # 0 /\ engine /\ manager.state # "STOP" /\ drag.window # "gone"
      /\ drag.synthetic /\ touch[p] = [kind |-> "synthetic", no |-> drag.touch]
      => /\ drag.session = bindings[p] /\ activeSession = bindings[p]
         /\ manager.state = "START" =>
              compensation = [valid |-> TRUE, session |-> bindings[p], pointer |-> p]

TouchInv == FollowInv /\ TouchTypes /\ (~overlapped => Alone /\ (~hasty => Heard))

LEMMA NoneIsNone ==
  /\ None \notin Pointers /\ None \notin Handled
  /\ \A p \in Pointers : Lifts(p) \in Handled /\ Lifts(p) # None
  /\ \A p, q \in Pointers : Lifts(p) = Lifts(q) => p = q
<1>1. None \notin Pointers /\ None \notin Handled
  BY DragAssumption DEF Handled
<1>2. \A p \in Pointers : Lifts(p) \in Handled
  BY DEF Lifts, Handled
<1>3. \A p, q \in Pointers : Lifts(p) = Lifts(q) => p = q
  <2> SUFFICES ASSUME NEW p \in Pointers, NEW q \in Pointers, Lifts(p) = Lifts(q) PROVE p = q
    OBVIOUS
  <2>1. Lifts(p).pointers = {p} /\ Lifts(q).pointers = {q}
    BY DEF Lifts
  <2> QED BY <2>1
<1> QED BY <1>1, <1>2, <1>3

LEMMA TouchInit == Init => TouchInv
<1> SUFFICES ASSUME Init PROVE TouchTypes /\ Alone /\ Heard
  BY FollowInit DEF TouchInv
<1>1. /\ touch = [p \in Pointers |-> NoTouch] /\ touches = 0 /\ handling = None
      /\ point = [pointer |-> None, active |-> FALSE] /\ sessions = 0 /\ sessionOf = <<>>
      /\ activeSession = 0 /\ bindings = [p \in Pointers |-> 0] /\ pending = <<>>
      /\ dispatched = <<>> /\ listener = 0 /\ drags = <<>> /\ engine = FALSE /\ overlapped = FALSE
  BY DEF Init
<1>2. \A p \in Pointers : touch[p] = [kind |-> "none", no |-> 0] /\ bindings[p] = 0
  BY <1>1 DEF NoTouch
<1>3. Cached(<<>>)
  BY DragAssumption DEF Cached, Once
<1>4. MaxTouches \in Nat /\ DOMAIN drags = {} /\ sessionOf \in Seq(Nat) /\ Len(sessionOf) = 0
  BY <1>1, DragAssumption
<1>5. TouchTypes
  <2>1. Cached(pending) /\ Cached(dispatched)
    BY <1>1, <1>3
  <2>2. point \in [pointer : Pointers \cup {None}, active : BOOLEAN]
    BY <1>1
  <2>3. touches <= MaxTouches /\ sessions <= touches
    BY <1>1, <1>4
  <2>4. \A p \in Pointers : touch[p].no <= touches /\ (touch[p].kind = "synthetic" => bindings[p] # 0)
    BY <1>1, <1>2
  <2>5. engine \in BOOLEAN /\ overlapped \in BOOLEAN
    BY <1>1, Zenon
  <2>6. handling = None /\ sessionOf \in Seq(Nat) /\ Len(sessionOf) = sessions
    BY <1>1, <1>4
  <2> QED BY <1>4, <2>1, <2>2, <2>3, <2>4, <2>5, <2>6 DEF TouchTypes
<1>6. Forgotten
  BY <1>1, <1>2 DEF Forgotten
<1>7. Heard
  BY <1>1 DEF Heard
<1> QED BY <1>5, <1>6, <1>7 DEF Alone

\* Steps that leave the sessions alone, and synthetic touches as they are.
LEMMA AloneKept ==
  ASSUME TouchTypes, Alone, UNCHANGED <<point, bindings, sessionOf>>,
         \A p \in Pointers : touch[p].kind = "synthetic" \/ touch'[p].kind = "synthetic" => touch'[p] = touch[p],
         handling' = handling \/ handling = None, activeSession' = activeSession \/ activeSession' = 0,
         pending' = pending
  PROVE  Alone'
<1>1. CASE Forgotten
  BY <1>1 DEF Forgotten, Alone
<1>2. ASSUME NEW p \in Pointers, Touched(p) PROVE Touched(p)'
  <2>1. \A q \in Pointers : q # p => touch'[q].kind # "synthetic" /\ bindings'[q] = 0
    BY <1>2 DEF Touched
  <2>2. touch'[p].kind = "synthetic" <=> touch[p].kind = "synthetic"
    OBVIOUS
  <2>3. point'.active => sessionOf'[bindings'[p]] = touch'[p].no
    BY <1>2, <2>2 DEF Touched
  <2>4. ~point'.active => handling' = Lifts(p)
    BY <1>2, NoneIsNone DEF Touched
  <2> QED BY <1>2, <2>1, <2>2, <2>3, <2>4 DEF Touched
<1> QED BY <1>1, <1>2 DEF Alone

\* Steps that leave a drag alone, and the touch that it began in.
LEMMA HeardKept ==
  ASSUME FollowInv, TouchTypes, Heard,
         UNCHANGED <<listener, activeSession, compensation, engine, manager, drags>>,
         \A p \in Pointers : touch'[p].kind = "synthetic" /\ touch'[p].no <= touches =>
                               touch'[p] = touch[p] /\ bindings'[p] = bindings[p]
  PROVE  Heard'
<1> DEFINE p == drags[listener].pointer
           synthetic == [kind |-> "synthetic", no |-> drags[listener].touch]
<1> SUFFICES ASSUME listener # 0, engine, manager.state # "STOP", drags[listener].window # "gone",
                    drags[listener].synthetic, touch'[p] = synthetic
             PROVE  /\ drags[listener].session = bindings'[p] /\ activeSession = bindings'[p]
                    /\ manager.state = "START" =>
                         compensation = [valid |-> TRUE, session |-> bindings'[p], pointer |-> p]
  BY DEF Heard
<1>1. listener \in DOMAIN drags
  BY LenProperties DEF FollowInv, DragInv, DragTypes, LastDragHeard
<1>2. p \in Pointers /\ drags[listener].touch <= touches
  <2>1. p \in Pointers
    BY <1>1 DEF FollowInv, FollowTypes
  <2>2. touches \in Nat /\ drags[listener].touch \in 0 .. touches
    BY <1>1 DEF FollowInv, TouchTypes, WaitInv, WaitTypes
  <2> QED BY <2>1, <2>2
<1>3. touch'[p].kind = "synthetic" /\ touch'[p].no = drags[listener].touch
  OBVIOUS
<1>4. touch'[p] = touch[p] /\ bindings'[p] = bindings[p]
  BY <1>2, <1>3
<1> QED BY <1>4 DEF Heard

-----------------------------------------------------------------------------
\* Fingers.
LEMMA FingersKeep ==
  ASSUME TouchInv, NEW ps \in SUBSET Fingers, NEW phase \in {"Began", "Moved", "Ended"},
         Touch(ps, phase)
  PROVE  TouchTypes' /\ (~overlapped' => Alone' /\ (~hasty' => Heard'))
<1>1. /\ UNCHANGED <<overlapped, sessionVars, dragVars>> /\ handling = None
      /\ handling' = [kind |-> "finger", pointers |-> ps, active |-> phase # "Ended"]
      /\ touches' = IF phase = "Began" THEN touches + 1 ELSE touches
      /\ phase = "Began" => touches < MaxTouches
  BY DEF Touch, MayTouch
<1>2. ps \subseteq Pointers
  BY DragAssumption
<1>3. /\ touches \in Nat /\ touches' \in Nat /\ touches <= touches' /\ touches' <= MaxTouches
      /\ MaxTouches \in Nat
  BY <1>1, DragAssumption DEF TouchInv, TouchTypes, FollowInv, WaitInv, WaitTypes
<1>4. /\ touch \in [Pointers -> [kind : {"none", "finger", "synthetic"}, no : Nat]]
      /\ \A r \in ps : touch[r].kind # "synthetic"
  BY <1>2 DEF Touch, TouchInv, FollowInv, WaitInv, WaitTypes
<1>5. \A r \in Pointers : touch'[r] \in {touch[r], NoTouch, [kind |-> "finger", no |-> 0]}
                          /\ (r \notin ps => touch'[r] = touch[r])
  BY DEF Touch
<1>6. \A r \in Pointers :
        touch[r].kind = "synthetic" \/ touch'[r].kind = "synthetic" => touch'[r] = touch[r]
  <2> SUFFICES ASSUME NEW r \in Pointers, touch[r].kind = "synthetic" \/ touch'[r].kind = "synthetic"
               PROVE  touch'[r] = touch[r]
    OBVIOUS
  <2>1. NoTouch.kind # "synthetic" /\ [kind |-> "finger", no |-> 0].kind # "synthetic"
    BY DEF NoTouch
  <2> QED BY <1>4, <1>5, <2>1
<1>7. \A r \in Pointers : touch'[r].no <= touches'
  <2> TAKE r \in Pointers
  <2>1. NoTouch.no = 0 /\ [kind |-> "finger", no |-> 0].no = 0
    BY DEF NoTouch
  <2>2. touch[r].no \in Nat /\ touch[r].no <= touches
    BY <1>4 DEF TouchInv, TouchTypes
  <2> QED BY <1>3, <1>5, <2>1, <2>2
<1>8. handling' \in Handled /\ handling'.kind = "finger"
  BY <1>1, <1>2 DEF Handled
<1>9. TouchTypes'
  <2>1. \A d \in DOMAIN drags : drags[d].touch \in 0 .. touches'
    BY <1>3 DEF TouchInv, TouchTypes
  <2>2. \A p \in Pointers : touch'[p].kind = "synthetic" => bindings[p] # 0
    BY <1>6 DEF TouchInv, TouchTypes
  <2>3. Cached(pending)' /\ Cached(dispatched)'
    BY <1>1 DEF TouchInv, TouchTypes, Cached, sessionVars
  <2>4. sessions <= touches'
    BY <1>3 DEF TouchInv, TouchTypes, FollowInv, FollowTypes
  <2> QED BY <1>1, <1>3, <1>7, <1>8, <2>1, <2>2, <2>3, <2>4 DEF TouchInv, TouchTypes, sessionVars, dragVars
<1>10. Alone => Alone'
  BY <1>1, <1>6, AloneKept DEF TouchInv, sessionVars
<1>11. Heard => Heard'
  BY <1>1, <1>6, HeardKept DEF TouchInv, sessionVars, dragVars
<1> QED BY <1>1, <1>9, <1>10, <1>11 DEF TouchInv, dragVars

\* A synthetic event.  It begins a session if it begins a touch; while it is pressed its key
\* has the session of its touch.
LEMMA PreparedFor ==
  ASSUME FollowInv, TouchTypes, NEW p \in Pointers, NEW active \in BOOLEAN, NEW began \in BOOLEAN,
         NEW t \in 1 .. MaxTime, NEW no \in Nat, Prepare(p, active, began, t, no),
         began => active, active /\ ~began => bindings[p] # 0
  PROVE  /\ sessions' = IF began THEN sessions + 1 ELSE sessions
         /\ sessionOf' = IF began THEN Append(sessionOf, no) ELSE sessionOf
         /\ \A q \in Pointers : bindings'[q] = IF q = p /\ began THEN sessions + 1 ELSE bindings[q]
         /\ pending' = IF active THEN Register(pending, p, t, bindings'[p]) ELSE pending
         /\ Cached(pending)' /\ Cached(dispatched)'
<1> DEFINE new == active /\ (began \/ bindings[p] = 0)
           session == CASE new -> sessions + 1
                        [] ~new /\ ~active /\ bindings[p] = 0 -> Latest(pending, p)
                        [] OTHER -> bindings[p]
<1>1. /\ sessions' = IF new THEN sessions + 1 ELSE sessions
      /\ sessionOf' = IF new THEN Append(sessionOf, no) ELSE sessionOf
      /\ bindings' = [bindings EXCEPT ![p] = IF new THEN session ELSE @]
      /\ pending' = IF active THEN Register(pending, p, t, session) ELSE pending
      /\ dispatched' = Register(dispatched, p, t, session)
  BY DEF Prepare
<1>2. new = began
  OBVIOUS
<1>3. /\ sessions \in Nat /\ bindings \in [Pointers -> 0 .. sessions] /\ bindings[p] \in 0 .. sessions
      /\ Cached(pending) /\ Cached(dispatched)
  BY DEF FollowInv, FollowTypes, TouchTypes
<1>4. Latest(pending, p) \in 1 .. sessions \cup {0}
  BY <1>3, LatestIn DEF Cached
<1>5. /\ began => session = sessions + 1
      /\ active /\ ~began => session = bindings[p]
      /\ ~began => session \in 0 .. sessions
  BY <1>2, <1>3, <1>4
<1> HIDE DEF new, session
<1>6. sessions' = IF began THEN sessions + 1 ELSE sessions
  BY <1>1, <1>2
<1>7. \A q \in Pointers : bindings'[q] = IF q = p /\ began THEN sessions + 1 ELSE bindings[q]
  BY <1>1, <1>2, <1>3, <1>5
<1>8. session \in 1 .. sessions' \cup {0}
  BY <1>3, <1>5, <1>6
<1>9. pending' = IF active THEN Register(pending, p, t, bindings'[p]) ELSE pending
  <2>1. active => session = bindings'[p]
    BY <1>5, <1>7
  <2> QED BY <1>1, <2>1
<1> DEFINE K == Keys(Pointers, 1 .. MaxTime, 1 .. sessions')
<1>10. \A q \in {pending, dispatched} : q \in Seq(K) /\ Len(q) <= Limit /\ Once(q)
  <2>1. Keys(Pointers, 1 .. MaxTime, 1 .. sessions) \subseteq K
    BY <1>3, <1>6 DEF Keys
  <2> HIDE DEF K
  <2> QED BY <1>3, <2>1, SeqMonotonic DEF Cached
<1>11. \A q \in {pending, dispatched} :
         LET r == Register(q, p, t, session) IN r \in Seq(K) /\ Len(r) <= Limit /\ Once(r)
  <2> TAKE q \in {pending, dispatched}
  <2>1. IsRegistered(K, q, p, t, session)
    BY <1>8, <1>10, Registered
  <2> HIDE DEF K
  <2> QED BY <1>10, <2>1 DEF IsRegistered
<1>12. Cached(pending)' /\ Cached(dispatched)'
  <2>1. pending' \in Seq(K) /\ Len(pending') <= Limit /\ Once(pending')
    BY <1>1, <1>10, <1>11
  <2>2. dispatched' \in Seq(K) /\ Len(dispatched') <= Limit /\ Once(dispatched')
    BY <1>1, <1>11
  <2> QED BY <2>1, <2>2 DEF Cached, Once
<1> QED BY <1>1, <1>2, <1>6, <1>7, <1>9, <1>12

LEMMA SyntheticKeeps ==
  ASSUME TouchInv, NEW p \in Pointers, NEW phase \in {"Began", "Moved", "Ended"},
         NEW t \in 1 .. MaxTime, SyntheticTouch(p, phase, t)
  PROVE  TouchTypes' /\ (~overlapped' => Alone' /\ (~hasty' => Heard'))
<1> DEFINE no == IF phase = "Began" THEN touches + 1 ELSE touch[p].no
           active == phase # "Ended"
           began == phase = "Began"
           kind == IF active THEN "synthetic" ELSE "none"
<1>1. /\ Prepare(p, active, began, t, no)
      /\ handling = None /\ touches' = IF began THEN touches + 1 ELSE touches
      /\ touch' = [touch EXCEPT ![p] = [kind |-> kind, no |-> no]]
      /\ CASE began -> touch[p].kind = "none" /\ touches < MaxTouches
           [] phase = "Moved" -> touch[p].kind = "synthetic"
           [] OTHER -> touch[p].kind # "finger"
      /\ overlapped' = (overlapped \/ \E q \in Pointers \ {p} : active /\ touch[q].kind = "synthetic")
      /\ point' = UpdatedPoint(p, active)
      /\ handling' = [kind |-> "synthetic", pointers |-> {p}, active |-> active]
      /\ UNCHANGED <<activeSession, compensation, dragVars>>
  BY DEF SyntheticTouch, MayTouch
<1>2. /\ touches \in Nat /\ touch \in [Pointers -> [kind : {"none", "finger", "synthetic"}, no : Nat]]
      /\ sessions \in Nat /\ sessions <= touches /\ MaxTouches \in Nat /\ touches <= MaxTouches
      /\ \A r \in Pointers : touch[r].no \in Nat /\ touch[r].no <= touches
      /\ \A r \in Pointers : touch[r].kind = "synthetic" => bindings[r] # 0
      /\ bindings \in [Pointers -> 0 .. sessions]
      /\ sessionOf \in Seq(Nat) /\ Len(sessionOf) = sessions
      /\ point \in [pointer : Pointers \cup {None}, active : BOOLEAN]
  BY DragAssumption DEF TouchInv, TouchTypes, FollowInv, FollowTypes, WaitInv, WaitTypes
<1>3. /\ no \in Nat /\ began \in BOOLEAN /\ active \in BOOLEAN /\ (began => active)
      /\ active /\ ~began => touch[p].kind = "synthetic"
      /\ began => touch[p].kind = "none"
      /\ no <= touches' /\ touches' \in Nat /\ touches <= touches' /\ touches' <= MaxTouches
  BY <1>1, <1>2
<1>4. /\ touch'[p].kind = kind /\ touch'[p].no = no
      /\ \A r \in Pointers : r # p => touch'[r] = touch[r]
  BY <1>1, <1>2
<1>5. /\ sessions' = IF began THEN sessions + 1 ELSE sessions
      /\ sessionOf' = IF began THEN Append(sessionOf, no) ELSE sessionOf
      /\ \A q \in Pointers : bindings'[q] = IF q = p /\ began THEN sessions + 1 ELSE bindings[q]
      /\ pending' = IF active THEN Register(pending, p, t, bindings'[p]) ELSE pending
      /\ Cached(pending)' /\ Cached(dispatched)'
  <2> HIDE DEF no, active, began
  <2> QED BY <1>1, <1>2, <1>3, PreparedFor DEF TouchInv
<1>a. kind = "synthetic" <=> active
  OBVIOUS
<1>b. no = IF began THEN touches + 1 ELSE touch[p].no
  OBVIOUS
<1>c. active \/ ~began
  OBVIOUS
<1> HIDE DEF no, active, began, kind
<1>6. sessionOf' \in Seq(Nat) /\ Len(sessionOf') = sessions'
      /\ (began => sessionOf'[sessions + 1] = no)
      /\ \A i \in 1 .. sessions : sessionOf'[i] = sessionOf[i]
  <2>1. CASE began
    <3>1. /\ Append(sessionOf, no) \in Seq(Nat) /\ Len(Append(sessionOf, no)) = sessions + 1
          /\ Append(sessionOf, no)[sessions + 1] = no
          /\ \A i \in 1 .. sessions : Append(sessionOf, no)[i] = sessionOf[i]
      <4>1. /\ Append(sessionOf, no) \in Seq(Nat) /\ Len(Append(sessionOf, no)) = Len(sessionOf) + 1
            /\ \A i \in 1 .. Len(sessionOf) : Append(sessionOf, no)[i] = sessionOf[i]
            /\ Append(sessionOf, no)[Len(sessionOf) + 1] = no
        <5>1. sessionOf \in Seq(Nat) /\ no \in Nat
          BY <1>2, <1>3
        <5> QED BY <5>1, AppendProperties
      <4> QED BY <1>2, <4>1
    <3> QED BY <1>5, <2>1, <3>1
  <2>2. CASE ~began
    BY <1>2, <1>5, <2>2
  <2> QED BY <2>1, <2>2
<1>7. handling' \in Handled /\ handling'.kind = "synthetic" /\ handling'.pointers = {p}
      /\ handling'.active = active /\ handling' # None
  <2>1. handling' \in Handled
    BY <1>1, <1>3 DEF Handled
  <2> QED BY <1>1, <2>1, NoneIsNone
<1>8. /\ active => point' = [pointer |-> p, active |-> TRUE]
      /\ ~active /\ point.pointer = p => point' = [pointer |-> p, active |-> FALSE]
      /\ ~active /\ point.pointer # p => point' = point
  BY <1>1, <1>2 DEF UpdatedPoint
<1>9. TouchTypes'
  <2>1. point' \in [pointer : Pointers \cup {None}, active : BOOLEAN]
    <3>1. \A b \in BOOLEAN : [pointer |-> p, active |-> b] \in [pointer : Pointers \cup {None}, active : BOOLEAN]
      OBVIOUS
    <3>2. CASE active
      BY <1>8, <3>1, <3>2
    <3>3. CASE ~active
      BY <1>2, <1>8, <3>1, <3>3
    <3> QED BY <3>2, <3>3
  <2>2. \A r \in Pointers : touch'[r].no <= touches' /\ (touch'[r].kind = "synthetic" => bindings'[r] # 0)
    <3> TAKE r \in Pointers
    <3>1. CASE r = p
      BY <1>2, <1>3, <1>4, <1>5, <1>a, <1>c, <3>1
    <3>2. CASE r # p
      BY <1>2, <1>3, <1>4, <1>5, <3>2
    <3> QED BY <3>1, <3>2
  <2>3. \A d \in DOMAIN drags' : drags'[d].touch \in 0 .. touches'
    BY <1>1, <1>2, <1>3 DEF TouchInv, TouchTypes, dragVars
  <2>4. sessions' <= touches'
    BY <1>1, <1>2, <1>5
  <2>5. \E q \in Pointers : handling'.pointers = {q} /\ (~handling'.active => touch'[q].kind # "synthetic")
    BY <1>4, <1>7, <1>a
  <2>6. engine' \in BOOLEAN /\ overlapped' \in BOOLEAN
    BY <1>1 DEF TouchInv, TouchTypes, dragVars
  <2> QED BY <1>3, <1>5, <1>6, <1>7, <2>1, <2>2, <2>3, <2>4, <2>5, <2>6 DEF TouchTypes
<1>10. ASSUME ~overlapped' PROVE Alone'
  <2>1. ~overlapped /\ Alone /\ (active => \A q \in Pointers : q # p => touch[q].kind # "synthetic")
    BY <1>1, <1>10 DEF TouchInv
  <2>2. CASE Forgotten /\ ~active
    <3>1. point' = point /\ ~began
      BY <1>8, <1>c, <2>2, NoneIsNone DEF Forgotten
    <3>2. \A q \in Pointers : touch'[q].kind # "synthetic" /\ bindings'[q] = 0
      BY <1>4, <1>5, <1>a, <2>2, <3>1 DEF Forgotten
    <3> QED BY <1>1, <1>5, <2>2, <3>1, <3>2 DEF Forgotten, Alone
  <2>3. CASE Forgotten /\ active
    <3>1. began
      BY <1>3, <2>3 DEF Forgotten
    <3>2. bindings'[p] = sessions + 1 /\ sessions + 1 # 0
          /\ \A q \in Pointers : q # p => touch'[q].kind # "synthetic" /\ bindings'[q] = 0
      BY <1>2, <1>4, <1>5, <2>3, <3>1 DEF Forgotten
    <3>3. pending' \in Seq(Keys({p}, 1 .. MaxTime, {bindings'[p]}))
      <4> PICK s : s = bindings'[p]
        OBVIOUS
      <4>1. pending' = Register(<<>>, p, t, s)
        BY <1>5, <2>3 DEF Forgotten
      <4>2. IsRegistered(Keys({p}, 1 .. MaxTime, {s}), <<>>, p, t, s)
        <5>1. <<>> \in Seq(Keys({p}, 1 .. MaxTime, {s})) /\ p \in {p} /\ s \in {s} \cup {0}
          OBVIOUS
        <5> QED BY <5>1, Registered
      <4> QED BY <4>1, <4>2 DEF IsRegistered
    <3>4. point'.pointer = p /\ point'.active /\ touch'[p].kind = "synthetic"
          /\ sessionOf'[bindings'[p]] = touch'[p].no
      BY <1>4, <1>6, <1>8, <1>a, <2>3, <3>1, <3>2
    <3>5. Touched(p)'
      BY <3>2, <3>3, <3>4 DEF Touched
    <3> QED BY <3>5 DEF Alone
  <2>4. ASSUME NEW r \in Pointers, Touched(r) PROVE Alone'
    <3>1. point.active /\ point.pointer = r /\ touch[r].kind = "synthetic"
      BY <1>1, <2>4, NoneIsNone DEF Touched
    <3>2. r # p => ~active
      BY <2>1, <3>1
    <3>3. ~began
      <4>1. began => r = p
        BY <1>3, <3>2
      <4> QED BY <1>3, <3>1, <4>1
    <3>4. bindings'[r] # 0 /\ \A q \in Pointers : q # r => touch'[q].kind # "synthetic" /\ bindings'[q] = 0
      <4> SUFFICES ASSUME NEW q \in Pointers, q # r PROVE touch'[q].kind # "synthetic" /\ bindings'[q] = 0
        BY <1>5, <2>4, <3>3 DEF Touched
      <4>1. touch[q].kind # "synthetic" /\ bindings[q] = 0
        BY <2>4 DEF Touched
      <4>2. q = p => ~active
        BY <3>2
      <4> QED BY <1>4, <1>5, <1>a, <3>3, <4>1, <4>2
    <3>5. bindings'[r] = bindings[r] /\ sessionOf' = sessionOf
      BY <1>5, <3>3
    <3>6. pending' \in Seq(Keys({r}, 1 .. MaxTime, {bindings'[r]}))
      <4> PICK s : s = bindings[r]
        OBVIOUS
      <4>1. pending \in Seq(Keys({r}, 1 .. MaxTime, {s}))
        BY <2>4 DEF Touched
      <4>2. active => IsRegistered(Keys({r}, 1 .. MaxTime, {s}), pending, p, t, s)
        <5> SUFFICES ASSUME active PROVE IsRegistered(Keys({r}, 1 .. MaxTime, {s}), pending, p, t, s)
          OBVIOUS
        <5>1. p \in {r} /\ s \in {s} \cup {0}
          BY <3>2
        <5> QED BY <4>1, <5>1, Registered
      <4>3. pending' = IF active THEN Register(pending, p, t, s) ELSE pending
        BY <1>5, <3>2, <3>5
      <4> QED BY <3>5, <4>1, <4>2, <4>3 DEF IsRegistered
    <3>7. CASE active
      <4>1. r = p /\ point'.pointer = p /\ point'.active
        BY <1>8, <3>2, <3>7
      <4>2. touch'[p].kind = "synthetic" /\ touch'[p].no = touch[p].no
        BY <1>4, <1>a, <1>b, <3>3, <3>7
      <4>3. sessionOf'[bindings'[p]] = touch'[p].no
        BY <2>4, <3>1, <3>5, <4>1, <4>2 DEF Touched
      <4>4. Touched(p)'
        BY <3>4, <3>6, <4>1, <4>2, <4>3 DEF Touched
      <4> QED BY <4>4 DEF Alone
    <3>8. CASE ~active /\ r = p
      <4>1. point'.pointer = p /\ point'.active = FALSE /\ touch'[p].kind # "synthetic"
        BY <1>4, <1>8, <1>a, <3>1, <3>8
      <4>2. handling' = Lifts(p)
        <5>1. active = FALSE
          BY <3>8
        <5> QED BY <1>1, <3>8, <5>1, Zenon DEF Lifts
      <4>3. Touched(p)'
        BY <3>4, <3>6, <3>8, <4>1, <4>2 DEF Touched
      <4> QED BY <4>3 DEF Alone
    <3>9. CASE ~active /\ r # p
      <4>1. point' = point /\ touch'[r] = touch[r]
        BY <1>4, <1>8, <3>1, <3>9
      <4>2. sessionOf'[bindings'[r]] = touch'[r].no
        BY <2>4, <3>1, <3>5, <4>1 DEF Touched
      <4>3. Touched(r)'
        BY <3>1, <3>4, <3>6, <4>1, <4>2 DEF Touched
      <4> QED BY <4>3 DEF Alone
    <3> QED BY <3>7, <3>8, <3>9
  <2> QED BY <2>1, <2>2, <2>3, <2>4 DEF Alone
<1>11. Heard => Heard'
  <2>1. ASSUME NEW r \in Pointers, touch'[r].kind = "synthetic", touch'[r].no <= touches
        PROVE  touch'[r] = touch[r] /\ bindings'[r] = bindings[r]
    <3>1. CASE r # p
      BY <1>4, <1>5, <3>1
    <3>2. CASE r = p
      <4>1. active /\ ~began
        BY <1>2, <1>4, <1>a, <1>b, <2>1, <3>2
      <4>2. touch[p].kind = "synthetic" /\ touch'[p] = [kind |-> "synthetic", no |-> touch[p].no]
        BY <1>1, <1>2, <1>3, <1>a, <1>b, <4>1
      <4>3. touch[p] = [kind |-> touch[p].kind, no |-> touch[p].no]
        BY <1>2
      <4> QED BY <1>5, <3>2, <4>1, <4>2, <4>3
    <3> QED BY <3>1, <3>2
  <2> QED BY <1>1, <2>1, HeardKept DEF TouchInv, dragVars
<1> QED BY <1>1, <1>9, <1>10, <1>11 DEF TouchInv, dragVars

-----------------------------------------------------------------------------
\* A callback returns.
LEMMA ReturnKeeps ==
  ASSUME TouchInv, Return
  PROVE  TouchTypes' /\ (~overlapped' => Alone' /\ (~hasty' => Heard'))
<1>1. handling # None /\ handling' = None /\ UNCHANGED <<eventVars, dragVars>>
  BY DEF Return
<1>2. CASE UNCHANGED sessionVars /\ ~(\E p \in Pointers : handling = Lifts(p) /\ point.pointer = p)
  <2>1. TouchTypes'
    <3>1. Cached(pending)' /\ Cached(dispatched)'
      BY <1>2 DEF TouchInv, TouchTypes, Cached, sessionVars
    <3> QED BY <1>1, <1>2, <3>1 DEF TouchInv, TouchTypes, sessionVars, eventVars, dragVars
  <2>2. ASSUME Alone PROVE Alone'
    <3>1. CASE Forgotten
      BY <1>1, <1>2, <3>1 DEF Forgotten, Alone, sessionVars, eventVars
    <3>2. ASSUME NEW p \in Pointers, Touched(p) PROVE Touched(p)'
      <4>1. point.active
        BY <1>2, <3>2 DEF Touched
      <4> QED BY <1>1, <1>2, <3>2, <4>1 DEF Touched, sessionVars, eventVars
    <3> QED BY <2>2, <3>1, <3>2 DEF Alone
  <2>3. Heard => Heard'
    BY <1>1, <1>2, HeardKept DEF TouchInv, sessionVars, eventVars, dragVars
  <2> QED BY <1>1, <2>1, <2>2, <2>3 DEF TouchInv, eventVars, dragVars
<1>3. ASSUME NEW p \in Pointers, handling = Lifts(p), Complete(p), touch[p].kind # "synthetic",
             point.pointer \in {None, p}
      PROVE  TouchTypes' /\ (~overlapped' => Alone' /\ (~hasty' => Heard'))
  <2>1. /\ bindings' = [bindings EXCEPT ![p] = 0] /\ pending' \in Without(pending, p)
        /\ compensation' = NoCompensation /\ activeSession' = 0
        /\ point' = [point EXCEPT !.pointer = None] /\ UNCHANGED <<sessions, sessionOf, dispatched>>
    BY <1>3 DEF Complete
  <2>2. bindings \in [Pointers -> 0 .. sessions] /\ point \in [pointer : Pointers \cup {None}, active : BOOLEAN]
    BY DEF TouchInv, TouchTypes, FollowInv, FollowTypes
  <2>3. \A q \in Pointers : bindings'[q] = IF q = p THEN 0 ELSE bindings[q]
    BY <2>1, <2>2
  <2>4. point'.pointer = None /\ point'.active = point.active
        /\ point' \in [pointer : Pointers \cup {None}, active : BOOLEAN]
    BY <2>1, <2>2
  <2>5. Cached(pending)' /\ Cached(dispatched)'
    <3>1. pending' \in Seq(Keys(Pointers, 1 .. MaxTime, 1 .. sessions)) /\ Len(pending') <= Limit
          /\ Once(pending')
      BY <2>1, WithoutType DEF TouchInv, TouchTypes, Cached
    <3> QED BY <2>1, <3>1 DEF TouchInv, TouchTypes, Cached, Once
  <2>6. TouchTypes'
    BY <1>1, <1>3, <2>1, <2>3, <2>4, <2>5 DEF TouchInv, TouchTypes, eventVars, dragVars
  <2>7. ASSUME Forgotten PROVE Forgotten'
    <3>1. pending' = <<>>
      <4>1. <<>> \in Seq(Pointers) /\ DOMAIN <<>> = {}
        OBVIOUS
      <4>2. \A r \in Without(<<>>, p) : r = <<>>
        BY <4>1, WithoutType
      <4> QED BY <2>1, <2>7, <4>2 DEF Forgotten
    <3>2. point' = point
      <4>1. point.pointer = None
        BY <2>7 DEF Forgotten
      <4>2. point = [pointer |-> point.pointer, active |-> point.active]
        BY <2>2
      <4> QED BY <2>1, <4>1, <4>2
    <3> QED BY <1>1, <2>1, <2>3, <2>7, <3>1, <3>2 DEF Forgotten, eventVars
  <2>8. ASSUME NEW q \in Pointers, Touched(q) PROVE Forgotten'
    <3>1. q = p
      BY <1>3, <2>8, NoneIsNone DEF Touched
    <3>2. ~point.active
      BY <1>3, <2>8, <3>1 DEF Touched
    <3>3. point' = [pointer |-> None, active |-> FALSE]
      <4>1. point.active = FALSE
        BY <2>2, <3>2
      <4> QED BY <2>1, <2>2, <4>1
    <3>4. pending' = <<>>
      <4> PICK s : s = bindings[p]
        OBVIOUS
      <4>1. pending \in Seq(Keys({p}, 1 .. MaxTime, {s}))
        BY <2>8, <3>1 DEF Touched
      <4>2. \A i \in DOMAIN pending : pending[i].pointer = p
        <5>1. DOMAIN pending = 1 .. Len(pending)
          BY <4>1, LenProperties
        <5>2. \A i \in 1 .. Len(pending) : pending[i] \in Keys({p}, 1 .. MaxTime, {s})
          BY <4>1, ElementOfSeq
        <5> QED BY <5>1, <5>2 DEF Keys
      <4> QED BY <2>1, <4>1, <4>2, WithoutType
    <3> QED BY <1>1, <1>3, <2>1, <2>3, <2>8, <3>1, <3>3, <3>4 DEF Forgotten, Touched, eventVars
  <2>9. ASSUME Alone PROVE Forgotten'
    BY <2>7, <2>8, <2>9 DEF Alone
  <2>10. ASSUME Forgotten' PROVE Heard'
    <3>1. listener' # 0 => drags'[listener'].pointer \in Pointers
      <4>1. listener # 0 => listener \in DOMAIN drags
        BY LenProperties DEF TouchInv, FollowInv, DragInv, DragTypes, LastDragHeard
      <4> QED BY <1>1, <4>1 DEF dragVars, TouchInv, FollowInv, FollowTypes
    <3> QED BY <2>10, <3>1 DEF Forgotten, Heard
  <2> QED BY <1>1, <2>6, <2>9, <2>10 DEF TouchInv, Alone, eventVars, dragVars
<1>4. CASE handling.kind = "synthetic" /\ ~handling.active
  <2>1. PICK p \in Pointers : handling.pointers = {p} /\ touch[p].kind # "synthetic"
    BY <1>1, <1>4 DEF TouchInv, TouchTypes
  <2>2. handling = Lifts(p)
    <3>1. handling \in Handled
      BY <1>1 DEF TouchInv, TouchTypes
    <3>2. handling.active = FALSE
      BY <1>4, <3>1 DEF Handled
    <3> QED BY <1>4, <2>1, <3>1, <3>2 DEF Handled, Lifts
  <2>3. (CHOOSE q \in handling.pointers : TRUE) = p
    BY <2>1
  <2>4. Complete(p)
    BY <1>1, <1>4, <2>3 DEF Return
  <2>5. CASE point.pointer \in {None, p}
    BY <1>3, <2>1, <2>2, <2>4, <2>5
  <2>6. CASE point.pointer \notin {None, p}
    <3>1. UNCHANGED sessionVars
      BY <2>4, <2>6 DEF Complete
    <3>2. \A q \in Pointers : handling = Lifts(q) => q = p
      BY <2>2, NoneIsNone
    <3> QED BY <1>2, <2>6, <3>1, <3>2
  <2> QED BY <2>5, <2>6
<1>5. CASE ~(handling.kind = "synthetic" /\ ~handling.active)
  <2>1. UNCHANGED sessionVars
    BY <1>5 DEF Return
  <2>2. \A p \in Pointers : handling # Lifts(p)
    BY <1>5 DEF Lifts
  <2> QED BY <1>2, <2>1, <2>2
<1> QED BY <1>4, <1>5

\* A drag is asked for.
LEMMA StartKeeps ==
  ASSUME TouchInv, NEW p \in Pointers, StartDrag(p)
  PROVE  TouchTypes' /\ (~overlapped' => Alone' /\ (~hasty' => Heard'))
<1> DEFINE n == Len(drags)
           b == IsSyntheticDragTouchActiveForPointer(p)
           s == IF b THEN SessionOfDrag(p) ELSE 0
           d == [pointer |-> p, synthetic |-> b, session |-> s, touch |-> touch[p].no,
                 window |-> "hidden"]
<1>1. /\ drags' = Append(drags, d) /\ activeSession' = s /\ listener' = n + 1
      /\ pending' = IF b THEN ConsumeLatest(pending, p) ELSE pending
      /\ manager' = [manager EXCEPT !.window = n + 1] /\ engine' = TRUE
      /\ hasty' = (hasty \/ \E e \in DOMAIN drags : drags[e].window # "gone")
      /\ UNCHANGED <<eventVars, handling, point, sessions, sessionOf, bindings, dispatched,
                     compensation>>
  BY DEF StartDrag
<1>2. PICK S : drags \in Seq(Drag(S))
  BY DEF TouchInv, FollowInv, DragInv, DragTypes
<1>3. n \in Nat /\ DOMAIN drags = 1 .. n
  BY <1>2, LenProperties
<1>4. /\ DOMAIN drags' = 1 .. n + 1
      /\ \A i \in 1 .. n : drags'[i] = drags[i]
      /\ drags'[n + 1] = d
  <2>1. DOMAIN drags' = 1 .. n + 1 /\ \A i \in 1 .. n : drags'[i] = drags[i]
    <3> HIDE DEF b, s
    <3> QED BY <1>1, <1>2, AppendDrag
  <2>2. drags'[n + 1] = d
    <3> DEFINE R == Drag(S) \cup {d}
    <3>1. Drag(S) \subseteq R /\ d \in R
      OBVIOUS
    <3> HIDE DEF d, R
    <3>2. drags \in Seq(R)
      BY <1>2, <3>1, SeqMonotonic
    <3> QED BY <1>1, <3>1, <3>2, AppendProperties
  <2> QED BY <2>1, <2>2
<1>5. d.pointer = p /\ d.session = s /\ d.touch = touch[p].no /\ (d.synthetic <=> b)
  OBVIOUS
<1>6. b <=> point = [pointer |-> p, active |-> TRUE]
  BY DEF IsSyntheticDragTouchActiveForPointer
<1>7. s = IF b THEN SessionOfDrag(p) ELSE 0
  OBVIOUS
<1> HIDE DEF d, s, b
<1>8. Cached(pending)' /\ Cached(dispatched)'
  <2>1. LET r == ConsumeLatest(pending, p)
        IN  /\ r \in Seq(Keys(Pointers, 1 .. MaxTime, 1 .. sessions)) /\ Len(r) <= Len(pending)
            /\ Once(r) /\ Len(r) \in Nat /\ Len(pending) \in Nat
    BY ConsumeType, LenProperties DEF TouchInv, TouchTypes, Cached
  <2>2. Limit \in Nat /\ Len(pending) <= Limit
    BY DragAssumption DEF TouchInv, TouchTypes, Cached
  <2>3. Cached(ConsumeLatest(pending, p)) /\ Cached(pending)
    BY <2>1, <2>2 DEF Cached, TouchInv, TouchTypes
  <2>4. pending' \in {ConsumeLatest(pending, p), pending} /\ dispatched' = dispatched /\ sessions' = sessions
    BY <1>1
  <2> QED BY <2>3, <2>4 DEF TouchInv, TouchTypes, Cached, Once
<1>9. TouchTypes'
  <2>1. touch[p].no \in 0 .. touches
    BY DEF TouchInv, TouchTypes, FollowInv, WaitInv, WaitTypes
  <2>2. \A e \in DOMAIN drags' : drags'[e].touch \in 0 .. touches
    BY <1>3, <1>4, <1>5, <2>1 DEF TouchInv, TouchTypes
  <2>3. engine' \in BOOLEAN
    BY <1>1, Zenon
  <2> QED BY <1>1, <1>8, <2>2, <2>3 DEF TouchInv, TouchTypes, eventVars
<1>10. \A q \in Pointers : b /\ Touched(q) => s = bindings[q] /\ p = q
  <2> SUFFICES ASSUME b, NEW q \in Pointers, Touched(q) PROVE s = bindings[q] /\ p = q
    OBVIOUS
  <2>1. q = p
    BY <1>6 DEF Touched
  <2>2. Latest(pending, p) \in {bindings[p]} \cup {0}
    <3> PICK c : c = bindings[p]
      OBVIOUS
    <3>1. pending \in Seq(Keys({p}, 1 .. MaxTime, {c}))
      BY <2>1 DEF Touched
    <3>2. Latest(pending, p) \in {c} \cup {0}
      BY <3>1, LatestIn
    <3> QED BY <3>2
  <2>3. s = bindings[p]
    BY <1>7, <2>2 DEF SessionOfDrag
  <2> QED BY <2>1, <2>3
<1>11. ASSUME Forgotten PROVE Forgotten' /\ ~b
  <2>1. ~b
    BY <1>6, <1>11, NoneIsNone DEF Forgotten
  <2> QED BY <1>1, <1>7, <1>11, <2>1 DEF Forgotten, eventVars
<1>12. ASSUME NEW q \in Pointers, Touched(q) PROVE Touched(q)'
  <2>1. pending' \in Seq(Keys({q}, 1 .. MaxTime, {bindings[q]}))
    <3> PICK X : X = Keys({q}, 1 .. MaxTime, {bindings[q]})
      OBVIOUS
    <3>1. pending \in Seq(X)
      BY <1>12 DEF Touched
    <3>2. ConsumeLatest(pending, p) \in Seq(X)
      BY <3>1, ConsumeType
    <3>3. pending' \in Seq(X)
      BY <1>1, <3>1, <3>2
    <3> QED BY <3>3
  <2> QED BY <1>1, <1>12, <2>1 DEF Touched, eventVars
<1>13. Alone => Alone'
  BY <1>11, <1>12 DEF Alone
<1>14. ASSUME Alone, ~hasty' PROVE Heard'
  <2>1. listener' = n + 1 /\ drags'[n + 1] = d
    BY <1>1, <1>4
  <2>2. manager'.state = manager.state /\ manager.state # "START"
    <3>1. manager \in [state : {"none", "START", "STOP"}, drag : Nat, window : Nat]
      BY DEF TouchInv, FollowInv, DragInv, DragTypes
    <3>2. manager'.state = manager.state
      BY <1>1, <3>1
    <3>3. ~hasty /\ \A e \in 1 .. n : drags[e].window = "gone"
      BY <1>1, <1>3, <1>14
    <3>4. manager.state # "none" => manager.drag \in 1 .. n /\ drags[manager.drag].window # "gone"
      BY <1>3, <3>3 DEF TouchInv, FollowInv, DragInv, LastDragHeard
    <3> QED BY <3>2, <3>3, <3>4
  <2>3. ASSUME b, touch'[p].kind = "synthetic" PROVE s = bindings'[p]
    <3>1. touch[p].kind = "synthetic" /\ bindings' = bindings
      BY <1>1, <2>3 DEF eventVars
    <3>2. PICK q \in Pointers : Touched(q)
      BY <1>14, <3>1 DEF Alone, Forgotten
    <3> QED BY <1>10, <2>3, <3>1, <3>2
  <2>4. touch'[p] = [kind |-> "synthetic", no |-> d.touch] => touch'[p].kind = "synthetic"
    OBVIOUS
  <2> QED BY <1>1, <1>5, <2>1, <2>2, <2>3, <2>4 DEF Heard
<1> QED BY <1>1, <1>9, <1>13, <1>14 DEF TouchInv, eventVars

\* A drag is shown: the first time, the points of its touch are to be corrected.
LEMMA ShownKeeps ==
  ASSUME TouchInv, NEW d \in DOMAIN drags, OnSurfaceNodeChanged(d)
  PROVE  TouchTypes' /\ (~overlapped' => Alone' /\ (~hasty' => Heard'))
<1>1. /\ drags[d].window # "gone" /\ drags' = [drags EXCEPT ![d].window = "shown"]
      /\ IF windowCreated THEN UNCHANGED <<compensation, manager, windowCreated>>
         ELSE compensation' = CompensationOf(d)
              /\ manager' = [state |-> "START", drag |-> d, window |-> manager.window]
      /\ UNCHANGED <<eventVars, handling, point, sessions, sessionOf, activeSession, bindings, pending,
                     dispatched, listener, engine, hasty>>
  BY DEF OnSurfaceNodeChanged
<1>2. PICK S : drags \in Seq(Drag(S))
  BY DEF TouchInv, FollowInv, DragInv, DragTypes
<1>3. /\ DOMAIN drags' = DOMAIN drags
      /\ \A j \in DOMAIN drags : /\ drags'[j].pointer = drags[j].pointer
                                 /\ drags'[j].session = drags[j].session
                                 /\ drags'[j].touch = drags[j].touch
                                 /\ drags'[j].synthetic = drags[j].synthetic
                                 /\ drags[j].window = "gone" => drags'[j].window = "gone"
  BY <1>1, <1>2, DragKept
<1>4. TouchTypes'
  <2>1. Cached(pending)' /\ Cached(dispatched)'
    BY <1>1 DEF TouchInv, TouchTypes, Cached
  <2> QED BY <1>1, <1>3, <2>1 DEF TouchInv, TouchTypes, eventVars
<1>5. Alone => Alone'
  BY <1>1, AloneKept DEF TouchInv, eventVars
<1>6. ASSUME Heard, ~hasty PROVE Heard'
  <2> DEFINE p == drags[listener].pointer
             synthetic == [kind |-> "synthetic", no |-> drags[listener].touch]
  <2>0. listener # 0 => listener \in DOMAIN drags
    BY LenProperties DEF TouchInv, FollowInv, DragInv, DragTypes, LastDragHeard
  <2> SUFFICES ASSUME listener # 0, engine, manager'.state # "STOP", drags[listener].window # "gone",
                      drags[listener].synthetic, touch[p] = synthetic
               PROVE  /\ drags[listener].session = bindings[p] /\ activeSession = bindings[p]
                      /\ manager'.state = "START" =>
                           compensation' = [valid |-> TRUE, session |-> bindings[p], pointer |-> p]
    BY <1>1, <1>3, <2>0 DEF Heard, eventVars
  <2>1. d = listener
    BY <1>1, <1>6 DEF TouchInv, FollowInv, DragInv, OneDragAtATime
  <2>2. CASE windowCreated
    BY <1>1, <1>6, <2>2 DEF Heard
  <2>3. CASE ~windowCreated
    <3>1. manager.state = "none"
      BY <2>3 DEF TouchInv, FollowInv, DragInv, OneDragAtATime
    <3>2. drags[listener].session = bindings[p] /\ activeSession = bindings[p]
      BY <1>6, <3>1 DEF Heard
    <3>3. compensation' = [valid |-> TRUE, session |-> drags[d].session, pointer |-> drags[d].pointer]
      BY <1>1, <2>1, <2>3 DEF CompensationOf
    <3> QED BY <2>1, <3>2, <3>3
  <2> QED BY <2>2, <2>3
<1> QED BY <1>1, <1>4, <1>5, <1>6 DEF TouchInv, eventVars

\* A drag ends: it is no longer one that is to follow its touch.
LEMMA EndKeeps ==
  ASSUME TouchInv, StopDrag \/ CancelDrag \/ DestroyDragWindow
  PROVE  TouchTypes' /\ (~overlapped' => Alone' /\ (~hasty' => Heard'))
<1>1. /\ UNCHANGED <<eventVars, handling, point, sessions, sessionOf, bindings, pending, dispatched, listener>>
      /\ activeSession' = activeSession \/ activeSession' = 0
      /\ engine' \in {FALSE, engine}
  BY DEF StopDrag, CancelDrag, DestroyDragWindow, Stop, sessionVars
<1>2. PICK S : drags \in Seq(Drag(S))
  BY DEF TouchInv, FollowInv, DragInv, DragTypes
<1>3. /\ DOMAIN drags' = DOMAIN drags
      /\ \A j \in DOMAIN drags : drags'[j].touch = drags[j].touch
  <2>1. CASE StopDrag \/ CancelDrag
    BY <2>1 DEF StopDrag, CancelDrag, Stop
  <2>2. CASE DestroyDragWindow
    <3>1. drags' = [drags EXCEPT ![manager.window].window = "gone"]
      BY <2>2 DEF DestroyDragWindow
    <3> QED BY <1>2, <3>1, DragKept
  <2> QED BY <2>1, <2>2
<1>4. TouchTypes'
  <2>1. Cached(pending)' /\ Cached(dispatched)'
    BY <1>1 DEF TouchInv, TouchTypes, Cached
  <2>2. engine' \in BOOLEAN
    BY <1>1 DEF TouchInv, TouchTypes
  <2> QED BY <1>1, <1>3, <2>1, <2>2 DEF TouchInv, TouchTypes, eventVars
<1>5. Alone => Alone'
  BY <1>1, AloneKept DEF TouchInv, eventVars
<1>6. manager \in [state : {"none", "START", "STOP"}, drag : Nat, window : Nat]
  BY DEF TouchInv, FollowInv, DragInv, DragTypes
<1>7. CASE StopDrag
  <2>1. ~engine'
    BY <1>7 DEF StopDrag
  <2>2. Heard'
    BY <2>1 DEF Heard
  <2> QED BY <1>1, <1>4, <1>5, <2>2 DEF TouchInv, eventVars
<1>8. CASE CancelDrag
  <2>1. manager'.state = "STOP"
    BY <1>6, <1>8 DEF CancelDrag, Stop
  <2>2. Heard'
    BY <2>1 DEF Heard
  <2> QED BY <1>1, <1>4, <1>5, <2>2 DEF TouchInv, eventVars
<1>9. CASE DestroyDragWindow
  <2>1. drags' = [drags EXCEPT ![manager.window].window = "gone"] /\ manager.window = listener
        /\ listener' = listener
    BY <1>9 DEF DestroyDragWindow, TouchInv, FollowInv, DragInv, LastDragHeard
  <2>2. listener # 0 => drags'[listener].window = "gone"
    <3>1. listener # 0 => listener \in DOMAIN drags
      BY LenProperties DEF TouchInv, FollowInv, DragInv, DragTypes, LastDragHeard
    <3>2. \A j \in DOMAIN drags : drags[j] \in Drag(S)
      BY <1>2, ElementOfSeq, LenProperties
    <3> QED BY <2>1, <3>1, <3>2 DEF Drag
  <2>3. Heard'
    BY <2>1, <2>2 DEF Heard
  <2> QED BY <1>1, <1>4, <1>5, <2>3 DEF TouchInv, eventVars
<1> QED BY <1>7, <1>8, <1>9

LEMMA TouchStep == TouchInv /\ [Next]_vars => TouchInv'
<1> SUFFICES ASSUME TouchInv, [Next]_vars
             PROVE  TouchTypes' /\ (~overlapped' => Alone' /\ (~hasty' => Heard'))
  BY FollowStep DEF TouchInv
<1>1. ASSUME UNCHANGED <<eventVars, handling, sessionVars, dragVars>>
      PROVE  TouchTypes' /\ (~overlapped' => Alone' /\ (~hasty' => Heard'))
  <2>1. TouchTypes'
    BY <1>1 DEF TouchInv, TouchTypes, Cached, Once, eventVars, sessionVars, dragVars
  <2>2. Alone => Alone'
    BY <1>1, AloneKept DEF TouchInv, eventVars, sessionVars
  <2>3. Heard => Heard'
    BY <1>1, HeardKept DEF TouchInv, eventVars, sessionVars, dragVars
  <2> QED BY <1>1, <2>1, <2>2, <2>3 DEF TouchInv, eventVars, dragVars
<1>2. CASE UNCHANGED vars
  BY <1>1, <1>2 DEF vars
<1>3. ASSUME NEW p \in Pointers, GetCurPointerEventInfo(p)
      PROVE  TouchTypes' /\ (~overlapped' => Alone' /\ (~hasty' => Heard'))
  BY <1>1, <1>3 DEF GetCurPointerEventInfo
<1> QED BY <1>2, <1>3, FingersKeep, SyntheticKeeps, ReturnKeeps, StartKeeps, ShownKeeps, EndKeeps DEF Next

LEMMA TouchFollows ==
  ASSUME TouchInv
  PROVE  FollowsWhileTouched /\ TouchesForgotten
<1>1. TouchesForgotten
  <2> SUFFICES ASSUME ~overlapped, handling = None, \A p \in Pointers : touch[p].kind # "synthetic"
               PROVE  Forgotten
    BY DEF TouchesForgotten, Forgotten
  <2>1. ASSUME NEW p \in Pointers, Touched(p) PROVE FALSE
    BY <2>1, NoneIsNone DEF Touched
  <2> QED BY <2>1 DEF TouchInv, Alone
<1>2. FollowsWhileTouched
  <2> DEFINE d == manager.drag
             p == drags[d].pointer
  <2> SUFFICES ASSUME manager.state = "START", ~hasty, ~overlapped, drags[d].synthetic, engine,
                      touch[p] = [kind |-> "synthetic", no |-> drags[d].touch]
               PROVE  LET s == drags[d].session
                      IN  /\ s # 0 /\ sessionOf[s] = drags[d].touch
                          /\ activeSession = s /\ bindings[p] = s
                          /\ compensation = [valid |-> TRUE, session |-> s, pointer |-> p]
    BY DEF FollowsWhileTouched
  <2>1. d = listener /\ d # 0 /\ d \in DOMAIN drags /\ drags[d].window # "gone"
    BY LenProperties DEF TouchInv, FollowInv, DragInv, DragTypes, LastDragHeard, OneDragAtATime
  <2>2. p \in Pointers /\ touch[p].kind = "synthetic" /\ touch[p].no = drags[d].touch
    BY <2>1 DEF TouchInv, FollowInv, FollowTypes
  <2>3. Touched(p)
    BY <2>2 DEF TouchInv, Alone, Forgotten, Touched
  <2>4. bindings[p] # 0 /\ sessionOf[bindings[p]] = drags[d].touch
    BY <2>2, <2>3 DEF Touched
  <2>5. /\ drags[d].session = bindings[p] /\ activeSession = bindings[p]
        /\ compensation = [valid |-> TRUE, session |-> bindings[p], pointer |-> p]
    BY <2>1 DEF TouchInv, Heard
  <2> QED BY <2>4, <2>5
<1> QED BY <1>1, <1>2

LEMMA CacheBounded ==
  ASSUME TouchTypes, touches \in Nat, sessions \in Nat, NEW q, Cached(q)
  PROVE  q \in BoundedSeq(Key, Limit)
<1>1. Len(q) \in 0 .. Limit /\ q \in [1 .. Len(q) -> Keys(Pointers, 1 .. MaxTime, 1 .. sessions)]
  BY LenProperties, DragAssumption DEF Cached
<1>2. Keys(Pointers, 1 .. MaxTime, 1 .. sessions) \subseteq Key
  <2>1. 1 .. sessions \subseteq 1 .. MaxTouches + 1
    BY DragAssumption DEF TouchTypes
  <2> QED BY <2>1 DEF Keys, Key
<1>3. q \in [1 .. Len(q) -> Key]
  BY <1>1, <1>2
<1> QED BY <1>1, <1>3 DEF BoundedSeq, SeqOf

LEMMA TouchTyped == TouchInv => TypeOK
<1> SUFFICES ASSUME TouchInv PROVE TypeOK
  OBVIOUS
<1>1. touch \in [Pointers -> [kind : {"none", "finger", "synthetic"}, no : 0 .. MaxTouches]]
  <2>1. touch \in [Pointers -> [kind : {"none", "finger", "synthetic"}, no : Nat]]
    BY DEF TouchInv, FollowInv, WaitInv, WaitTypes
  <2>2. \A p \in Pointers : touch[p].no \in 0 .. MaxTouches
    BY <2>1, DragAssumption DEF TouchInv, TouchTypes, FollowInv, WaitInv, WaitTypes
  <2>3. \A p \in Pointers : touch[p] \in [kind : {"none", "finger", "synthetic"}, no : 0 .. MaxTouches]
    BY <2>1, <2>2
  <2> QED BY <2>1, <2>3
<1>2. pending \in BoundedSeq(Key, Limit) /\ dispatched \in BoundedSeq(Key, Limit)
  <2>1. TouchTypes /\ touches \in Nat /\ sessions \in Nat /\ Cached(pending) /\ Cached(dispatched)
    BY DEF TouchInv, TouchTypes, FollowInv, WaitInv, WaitTypes, FollowTypes
  <2> QED BY <2>1, CacheBounded
<1>3. /\ manager \in [state : {"none", "START", "STOP"}, drag : 0 .. Len(drags), window : 0 .. Len(drags)]
      /\ listener \in 0 .. Len(drags)
  <2>1. Len(drags) \in Nat
    BY LenProperties DEF TouchInv, FollowInv, DragInv, DragTypes
  <2> QED BY <2>1 DEF TouchInv, FollowInv, DragInv, DragTypes, LastDragHeard
<1>4. /\ point \in [pointer : Pointers \cup {None}, active : BOOLEAN]
      /\ bindings \in [Pointers -> 0 .. sessions] /\ activeSession \in 0 .. sessions
  BY DEF TouchInv, TouchTypes, FollowInv, FollowTypes
<1>5. \A q \in {pending, dispatched} : Once(q)
  BY DEF TouchInv, TouchTypes, Cached
<1> QED BY <1>1, <1>2, <1>3, <1>4, <1>5 DEF TypeOK, Once

\* For any pointers, touches and drags: while the touch goes on that a synthetic drag began
\* in, alone, the drag has the session of the touch, the touch's events find it and are
\* corrected for its window, however many sessions the caches had to forget; between touches
\* that do not overlap nothing of them is left; and no cache has a key twice
\* (PrepareSyntheticDragCompensationContext, CompleteSyntheticDragTouchState).
THEOREM DragsFollowTouches == Spec => []DragsFollow
<1>1. Spec => []TouchInv
  BY TouchInit, TouchStep, PTL DEF Spec
<1>2. TouchInv => DragsFollow
  BY TouchFollows, TouchTyped DEF TouchInv, FollowInv, WaitInv, DragInv, DragsFollow
<1> QED BY <1>1, <1>2, PTL

-----------------------------------------------------------------------------
(* A subwindow. *)

\* What is kept of the object by every operation.
Agrees(s) ==
  /\ s \in SubwindowIos
  /\ s.parent => (s.visible <=> s.announced = "added")
  /\ s.parent => ((s.isShowed \/ s.isMenuWindow) => s.visible)

\* An operation leaves it to others whether there is a page and a container.
Keeps(s, t) ==
  /\ Agrees(t) /\ t.parent = s.parent /\ t.child = s.child
  /\ t.isRosenWindowCreate = s.isRosenWindowCreate

\* They are the same in what is told.
Same(s, t) ==
  /\ t.parent = s.parent /\ t.child = s.child /\ t.isRosenWindowCreate = s.isRosenWindowCreate
  /\ t.visible = s.visible /\ t.announced = s.announced
  /\ t.isShowed = s.isShowed /\ t.isMenuWindow = s.isMenuWindow

LEMMA SameKeeps ==
  ASSUME NEW s, Agrees(s), NEW t \in SubwindowIos, Same(s, t)
  PROVE  Keeps(s, t)
BY DEF Agrees, Keeps, Same

LEMMA SetHotAreasKeeps ==
  ASSUME NEW s, Agrees(s), NEW n \in Nodes \cup Minimal
  PROVE  Keeps(s, SetHotAreas(s, n)) /\ SetHotAreas(s, n).isShowed = s.isShowed
<1>1. n \in Nodes \cup Minimal /\ (n >= 0 => n \in Nodes)
  BY DEF Minimal
<1> QED BY <1>1 DEF Agrees, Keeps, SetHotAreas, SubwindowIos

LEMMA DeleteHotAreasKeeps ==
  ASSUME NEW s, Agrees(s), NEW n
  PROVE  Keeps(s, DeleteHotAreas(s, n))
BY DEF Agrees, Keeps, DeleteHotAreas, SubwindowIos

LEMMA HideWindowKeeps ==
  ASSUME NEW s, Agrees(s)
  PROVE  Keeps(s, HideWindow(s))
<1> DEFINE free == [s EXCEPT !.modal = FALSE]
           gone == [free EXCEPT !.visible = FALSE]
           told == [gone EXCEPT !.isShowed = FALSE, !.announced = "removed"]
           clear == clearStatus(told)
<1>1. Keeps(s, free) /\ free.visible = s.visible
  BY DEF Keeps, Agrees, SubwindowIos
<1> HIDE DEF free
<1>2. gone \in SubwindowIos /\ (~s.parent => Keeps(s, gone)) /\ gone.visible = FALSE
  BY <1>1 DEF Keeps, Agrees, SubwindowIos
<1>3. /\ gone.parent = s.parent /\ gone.child = s.child
      /\ gone.isRosenWindowCreate = s.isRosenWindowCreate
  BY <1>1 DEF Keeps, Agrees, SubwindowIos
<1> HIDE DEF gone
<1>4. /\ told \in SubwindowIos /\ told.visible = FALSE /\ told.isShowed = FALSE
      /\ told.announced = "removed"
      /\ told.parent = s.parent /\ told.child = s.child
      /\ told.isRosenWindowCreate = s.isRosenWindowCreate
  BY <1>2, <1>3 DEF SubwindowIos
<1> HIDE DEF told
<1>5. /\ clear \in SubwindowIos /\ clear.visible = FALSE /\ clear.isShowed = FALSE
      /\ clear.isMenuWindow = FALSE /\ clear.announced = "removed"
      /\ clear.parent = s.parent /\ clear.child = s.child
      /\ clear.isRosenWindowCreate = s.isRosenWindowCreate
  BY <1>4 DEF clearStatus, SubwindowIos
<1> HIDE DEF clear
<1>6. Keeps(s, clear)
  BY <1>5 DEF Keeps, Agrees
<1>7. HideWindow(s) = IF ~s.child THEN s
                      ELSE IF ~s.visible THEN free
                      ELSE IF ~s.parent THEN gone ELSE clear
  BY DEF HideWindow, free, gone, told, clear
<1>8. Keeps(s, s)
  BY DEF Keeps
<1> QED BY <1>1, <1>2, <1>6, <1>7, <1>8

\* A window is shown, and told of, if it has a container.
LEMMA ShowWindowKeeps ==
  ASSUME NEW s, Agrees(s), NEW needFocus \in BOOLEAN, s.parent => s.child
  PROVE  Keeps(s, ShowWindow(s, needFocus))
<1> DEFINE first == IF s.isToastWindow THEN HideWindow(s) ELSE s
           areas == SetHotAreas(first, -1)
           asked == [areas EXCEPT !.focusable = needFocus]
<1>1. Keeps(s, first)
  BY HideWindowKeeps DEF Keeps
<1>2. Keeps(s, areas)
  BY <1>1, SetHotAreasKeeps DEF Keeps, Minimal
<1>3. Keeps(s, asked)
  BY <1>2 DEF Keeps, Agrees, SubwindowIos
<1> HIDE DEF asked
<1> DEFINE shown == [asked EXCEPT !.visible = TRUE]
           told == [shown EXCEPT !.isShowed = TRUE, !.announced = "added"]
<1>4. ShowWindow(s, needFocus) =
        IF ~s.host THEN asked ELSE IF asked.isShowed \/ ~s.child THEN shown ELSE told
  BY DEF ShowWindow, asked
<1>5. asked.isShowed \/ ~s.child => Keeps(s, shown)
  BY <1>3 DEF Keeps, Agrees, SubwindowIos
<1>6. Keeps(s, told)
  BY <1>3 DEF Keeps, Agrees, SubwindowIos
<1> QED BY <1>3, <1>4, <1>5, <1>6

\* What is on the overlay, and what decorates the page, is not what is told.
LEMMA OverlayKeeps ==
  ASSUME NEW s, Agrees(s), NEW O \in SUBSET Nodes
  PROVE  Keeps(s, [s EXCEPT !.overlay = O])
BY DEF Keeps, Agrees, SubwindowIos

LEMMA PlaceKeeps ==
  ASSUME NEW s, Agrees(s), NEW n \in Nodes
  PROVE  Keeps(s, Place(s, n))
<1> DEFINE t == [s EXCEPT !.overlay = @ \cup {n}]
<1>1. Keeps(s, t)
  BY OverlayKeeps DEF Agrees, SubwindowIos
<1> HIDE DEF t
<1>2. Keeps(t, SetHotAreas(t, n))
  BY <1>1, SetHotAreasKeeps DEF Keeps
<1> QED BY <1>1, <1>2 DEF Place, Keeps, t

LEMMA UndecorateKeeps ==
  ASSUME NEW s, Agrees(s), NEW D
  PROVE  Keeps(s, Undecorate(s, D))
BY DEF Keeps, Agrees, Undecorate, SubwindowIos

LEMMA KeepsOfKept ==
  ASSUME NEW s, NEW t, NEW u, Keeps(s, t), Keeps(t, u)
  PROVE  Keeps(s, u)
BY DEF Keeps

\* What is shown is touched, has a dialog or avoids the keyboard as well.
LEMMA TouchableKeeps ==
  ASSUME NEW s, Agrees(s), NEW touchable \in BOOLEAN
  PROVE  Keeps(s, [s EXCEPT !.touchable = touchable])
BY DEF Keeps, Agrees, SubwindowIos

-----------------------------------------------------------------------------
\* A popup.
LEMMA ShowPopupKeeps ==
  ASSUME NEW s, Agrees(s), s.parent => s.child, NEW n \in Popups,
         NEW focusable \in BOOLEAN, NEW isAvoidKeyboard \in BOOLEAN
  PROVE  Keeps(s, ShowPopupNG(s, n, focusable, isAvoidKeyboard))
<1> DEFINE named == [s EXCEPT !.popupTargetId = n]
           window == ShowWindow(named, focusable)
           shown == [window EXCEPT !.touchable = TRUE, !.needAvoidKeyboard = isAvoidKeyboard]
           placed == Place(shown, n)
           done == [placed EXCEPT !.focusable = TRUE]
<1>1. Keeps(s, named)
  BY DEF Keeps, Agrees, SubwindowIos
<1> HIDE DEF named
<1>2. Keeps(named, window)
  BY <1>1, ShowWindowKeeps DEF Keeps
<1> HIDE DEF window
<1>3. Keeps(window, shown)
  <2>1. window \in SubwindowIos
    BY <1>2 DEF Keeps, Agrees
  <2>2. shown \in SubwindowIos
    BY <2>1 DEF SubwindowIos
  <2>3. Same(window, shown)
    BY <2>1 DEF Same, SubwindowIos
  <2> QED BY <1>2, <2>2, <2>3, SameKeeps DEF Keeps
<1> HIDE DEF shown
<1>4. Keeps(shown, placed)
  BY <1>3, PlaceKeeps DEF Keeps, Nodes
<1> HIDE DEF placed
<1>5. Keeps(placed, done)
  BY <1>4 DEF Keeps, Agrees, SubwindowIos
<1>6. Keeps(s, done)
  BY <1>1, <1>2, <1>3, <1>4, <1>5 DEF Keeps
<1>7. ShowPopupNG(s, n, focusable, isAvoidKeyboard) = IF s.child THEN done ELSE named
  BY DEF ShowPopupNG, named, window, shown, placed
<1> QED BY <1>1, <1>6, <1>7

LEMMA HidePopupKeeps ==
  ASSUME NEW s, Agrees(s), NEW n
  PROVE  Keeps(s, HidePopupNG(s, n))
<1> DEFINE O == s.overlay \ {IF n = -1 THEN s.popupTargetId ELSE n}
           t == [s EXCEPT !.overlay = O]
<1>1. O \in SUBSET Nodes
  BY DEF Agrees, SubwindowIos
<1>2. Keeps(s, t)
  BY <1>1, OverlayKeeps
<1> HIDE DEF t
<1>3. Keeps(t, Undecorate(t, Decorations))
  BY <1>2, UndecorateKeeps DEF Keeps
<1>4. HidePopupNG(s, n) = IF ~s.child THEN s ELSE Undecorate(t, Decorations)
  BY DEF HidePopupNG, t
<1>5. Keeps(s, s)
  BY DEF Keeps
<1> QED BY <1>2, <1>3, <1>4, <1>5, KeepsOfKept

LEMMA ClearPopupKeeps ==
  ASSUME NEW s, Agrees(s)
  PROVE  Keeps(s, ClearPopupNG(s))
<1> DEFINE t == [s EXCEPT !.overlay = @ \ Popups]
<1>1. Keeps(s, t)
  BY OverlayKeeps DEF Agrees, SubwindowIos
<1>2. Keeps(t, HideWindow(t))
  BY <1>1, HideWindowKeeps DEF Keeps
<1>3. ClearPopupNG(s) = IF s.child THEN HideWindow(t) ELSE s
  BY DEF ClearPopupNG
<1> HIDE DEF t
<1>4. Keeps(s, s)
  BY DEF Keeps
<1> QED BY <1>1, <1>2, <1>3, <1>4, KeepsOfKept

\* A menu: the window is a menu's only if it is shown.
LEMMA ShowMenuKeeps ==
  ASSUME NEW s, Agrees(s), s.parent => s.child, NEW n \in Menus
  PROVE  Keeps(s, ShowMenuNG(s, n))
<1> DEFINE window == ShowWindow(s, TRUE)
           shown == [window EXCEPT !.isMenuWindow = window.isShowed, !.touchable = TRUE]
<1>1. Keeps(s, window)
  BY ShowWindowKeeps
<1> HIDE DEF window
<1>2. Keeps(window, shown)
  BY <1>1 DEF Keeps, Agrees, SubwindowIos
<1> HIDE DEF shown
<1>3. Keeps(shown, Place(shown, n))
  BY <1>2, PlaceKeeps DEF Keeps, Nodes
<1>4. ShowMenuNG(s, n) = IF s.child THEN Place(shown, n) ELSE s
  BY DEF ShowMenuNG, window, shown
<1> QED BY <1>1, <1>2, <1>3, <1>4 DEF Keeps

LEMMA HideMenuKeeps ==
  ASSUME NEW s, Agrees(s), NEW n
  PROVE  Keeps(s, HideMenuNG(s, n))
<1> DEFINE hidden == [s EXCEPT !.isShowed = FALSE]
           t == [hidden EXCEPT !.overlay = @ \ {n}]
<1>1. Keeps(s, hidden)
  BY DEF Keeps, Agrees, SubwindowIos
<1> HIDE DEF hidden
<1>2. Keeps(hidden, t)
  BY <1>1, OverlayKeeps DEF Keeps, Agrees, SubwindowIos
<1> HIDE DEF t
<1>3. Keeps(t, Undecorate(t, Decorations))
  BY <1>2, UndecorateKeeps DEF Keeps
<1>4. HideMenuNG(s, n) = IF ~s.isShowed THEN s
                         ELSE IF ~s.child THEN hidden ELSE Undecorate(t, Decorations)
  BY DEF HideMenuNG, hidden, t
<1> QED BY <1>1, <1>2, <1>3, <1>4 DEF Keeps

LEMMA ClearMenuKeeps ==
  ASSUME NEW s, Agrees(s), NEW inWindow \in BOOLEAN
  PROVE  Keeps(s, ClearMenuNG(s, inWindow))
<1> DEFINE t == [s EXCEPT !.overlay = @ \ Menus]
           u == HideWindow(t)
           D == IF inWindow THEN Decorations ELSE Decorations \ {"eventColumn"}
<1>1. Keeps(s, t)
  BY OverlayKeeps DEF Agrees, SubwindowIos
<1> HIDE DEF t
<1>2. Keeps(t, u)
  BY <1>1, HideWindowKeeps DEF Keeps
<1> HIDE DEF u, D
<1>3. Keeps(u, Undecorate(u, D))
  BY <1>2, UndecorateKeeps DEF Keeps
<1>4. ClearMenuNG(s, inWindow) = IF ~s.isMenuWindow \/ ~s.child THEN s ELSE Undecorate(u, D)
  BY DEF ClearMenuNG, t, u, D
<1> QED BY <1>1, <1>2, <1>3, <1>4 DEF Keeps

\* A dialog and a sheet.
LEMMA ShowDialogKeeps ==
  ASSUME NEW s, Agrees(s), s.parent => s.child, NEW n \in Dialogs, NEW isModal \in BOOLEAN
  PROVE  Keeps(s, ShowDialogNG(s, n, isModal))
<1> DEFINE first == s.overlay \cap Dialogs = {}
           asked == [s EXCEPT !.parentDialogs = @ \/ first, !.modal = isModal]
           window == ShowWindow(asked, TRUE)
           shown == [window EXCEPT !.touchable = TRUE, !.haveDialog = TRUE]
<1>1. Keeps(s, asked)
  <2> DEFINE known == s.parentDialogs \/ first
  <2>1. known \in BOOLEAN /\ asked = [s EXCEPT !.parentDialogs = known, !.modal = isModal]
    BY DEF Agrees, SubwindowIos
  <2> HIDE DEF known
  <2>2. asked \in SubwindowIos /\ Same(s, asked)
    BY <2>1 DEF Agrees, Same, SubwindowIos
  <2> QED BY <2>2, SameKeeps
<1> HIDE DEF asked, first
<1>2. Keeps(asked, window)
  BY <1>1, ShowWindowKeeps DEF Keeps
<1> HIDE DEF window
<1>3. Keeps(window, shown)
  <2>1. window \in SubwindowIos
    BY <1>2 DEF Keeps, Agrees
  <2>2. shown \in SubwindowIos
    BY <2>1 DEF SubwindowIos
  <2>3. Same(window, shown)
    BY <2>1 DEF Same, SubwindowIos
  <2> QED BY <1>2, <2>2, <2>3, SameKeeps DEF Keeps
<1> HIDE DEF shown
<1>4. Keeps(shown, Place(shown, n))
  BY <1>3, PlaceKeeps DEF Keeps, Nodes
<1>5. ShowDialogNG(s, n, isModal) = IF ~s.child \/ (first /\ ~s.parent) THEN s ELSE Place(shown, n)
  BY DEF ShowDialogNG, first, asked, window, shown
<1> QED BY <1>1, <1>2, <1>3, <1>4, <1>5 DEF Keeps

LEMMA ShowBindSheetKeeps ==
  ASSUME NEW s, Agrees(s), s.parent => s.child, NEW n \in Sheets
  PROVE  Keeps(s, ShowBindSheetNG(s, n))
<1> DEFINE window == ShowWindow(s, TRUE)
           shown == [window EXCEPT !.touchable = TRUE]
<1>1. Keeps(s, window)
  BY ShowWindowKeeps
<1> HIDE DEF window
<1>2. Keeps(window, shown)
  BY <1>1, TouchableKeeps DEF Keeps
<1> HIDE DEF shown
<1>3. Keeps(shown, Place(shown, n))
  BY <1>2, PlaceKeeps DEF Keeps, Nodes
<1>4. ShowBindSheetNG(s, n) = IF s.child THEN Place(shown, n) ELSE s
  BY DEF ShowBindSheetNG, window, shown
<1> QED BY <1>1, <1>2, <1>3, <1>4 DEF Keeps

\* A toast, which asks nobody whether there is a container.
LEMMA ShowToastKeeps ==
  ASSUME NEW s, Agrees(s), s.parent => s.child, NEW topMost \in BOOLEAN
  PROVE  Keeps(s, ShowToast(s, topMost))
<1> DEFINE named == [s EXCEPT !.isToastWindow = topMost]
           window == ShowWindow(named, FALSE)
           shown == [window EXCEPT !.touchable = FALSE, !.toast = TRUE]
<1>1. Keeps(s, named)
  BY DEF Keeps, Agrees, SubwindowIos
<1> HIDE DEF named
<1>2. Keeps(named, window)
  BY <1>1, ShowWindowKeeps DEF Keeps
<1> HIDE DEF window
<1>3. Keeps(window, shown)
  <2>1. window \in SubwindowIos
    BY <1>2 DEF Keeps, Agrees
  <2>2. shown \in SubwindowIos
    BY <2>1 DEF SubwindowIos
  <2>3. Same(window, shown)
    BY <2>1 DEF Same, SubwindowIos
  <2> QED BY <1>2, <2>2, <2>3, SameKeeps DEF Keeps
<1> HIDE DEF shown
<1>4. ShowToast(s, topMost) = IF ~s.parent \/ ~topMost THEN named ELSE shown
  BY DEF ShowToast, named, window, shown
<1> QED BY <1>1, <1>2, <1>3, <1>4 DEF Keeps

LEMMA ClearToastKeeps ==
  ASSUME NEW s, Agrees(s)
  PROVE  Keeps(s, ClearToast(s))
<1> DEFINE t == [s EXCEPT !.toast = FALSE]
<1>1. Keeps(s, t)
  BY DEF Keeps, Agrees, SubwindowIos
<1> HIDE DEF t
<1>2. Keeps(t, HideWindow(t))
  BY <1>1, HideWindowKeeps DEF Keeps
<1>3. ClearToast(s) = IF s.isToastWindow /\ s.child THEN HideWindow(t) ELSE s
  BY DEF ClearToast, t
<1> QED BY <1>1, <1>2, <1>3 DEF Keeps

-----------------------------------------------------------------------------
LEMMA AgreesOfSub == SubwindowAgrees => Agrees(sub)
BY DEF SubwindowAgrees, SubTypeOK, VisibleIsAnnounced, FlagsNameVisible, Agrees

\* A call of the engine keeps what an operation keeps.
LEMMA DoesKeeps ==
  ASSUME SubwindowAgrees, NEW t, Does(t), Keeps(sub, t)
  PROVE  SubwindowAgrees'
<1>1. sub' = t /\ queue' = queue
  BY DEF Does
<1> QED BY <1>1 DEF Keeps, Agrees, SubwindowAgrees, SubTypeOK, VisibleIsAnnounced, FlagsNameVisible,
           MadeIsThere

\* So does a task.
LEMMA RunKeeps ==
  ASSUME SubwindowAgrees, NEW t, sub' = t, queue # <<>>, queue' = Tail(queue), Keeps(sub, t)
  PROVE  SubwindowAgrees'
<1>1. queue' \in Seq({"outside", "background"}) /\ Len(queue') <= MaxQueue
  BY HeadTailProperties, SubwindowAssumption DEF SubwindowAgrees, SubTypeOK
<1> QED BY <1>1 DEF Keeps, Agrees, SubwindowAgrees, SubTypeOK, VisibleIsAnnounced, FlagsNameVisible,
           MadeIsThere

LEMMA SubwindowInit == SubInit => SubwindowAgrees
<1> SUFFICES ASSUME SubInit PROVE SubwindowAgrees
  OBVIOUS
<1>1. sub \in SubwindowIos
  BY DEF SubInit, SubwindowIos, Nodes, Minimal, Everywhere, Decorations
<1>2. queue \in Seq({"outside", "background"}) /\ Len(queue) <= MaxQueue
  BY SubwindowAssumption DEF SubInit
<1> QED BY <1>1, <1>2 DEF SubInit, SubwindowAgrees, SubTypeOK, VisibleIsAnnounced, FlagsNameVisible,
           MadeIsThere

LEMMA SubwindowStep == SubwindowAgrees /\ [SubNext]_subVars => SubwindowAgrees'
<1> SUFFICES ASSUME SubwindowAgrees, [SubNext]_subVars PROVE SubwindowAgrees'
  OBVIOUS
<1>a. Agrees(sub)
  BY AgreesOfSub
<1>b. sub.isRosenWindowCreate => (sub.parent => sub.child)
  BY DEF SubwindowAgrees, MadeIsThere
<1>c. Popups \subseteq Nodes /\ Menus \subseteq Nodes /\ Dialogs \subseteq Nodes /\ Sheets \subseteq Nodes
  BY DEF Nodes
<1>1. ASSUME InitContainer PROVE SubwindowAgrees'
  <2>1. PICK made \in {"nothing", "window", "all"} :
          sub' = [sub EXCEPT !.window = @ \/ made # "nothing", !.child = @ \/ made = "all",
                             !.isRosenWindowCreate = made = "all"]
    BY <1>1 DEF InitContainer
  <2> DEFINE window == sub.window \/ made # "nothing"
             child == sub.child \/ made = "all"
             all == made = "all"
  <2>2. window \in BOOLEAN /\ child \in BOOLEAN /\ all \in BOOLEAN /\ (all => child)
    BY DEF SubwindowAgrees, SubTypeOK, SubwindowIos
  <2>3. sub' = [sub EXCEPT !.window = window, !.child = child, !.isRosenWindowCreate = all]
    BY <2>1
  <2> HIDE DEF window, child, all
  <2>4. queue' = queue
    BY <1>1 DEF InitContainer
  <2>5. sub' \in SubwindowIos
    <3> DEFINE t == [sub EXCEPT !.window = window, !.child = child]
    <3>1. t \in SubwindowIos
      BY <1>a, <2>2 DEF Agrees, SubwindowIos
    <3>2. sub' = [t EXCEPT !.isRosenWindowCreate = all]
      BY <2>3
    <3> HIDE DEF t
    <3> QED BY <2>2, <3>1, <3>2 DEF SubwindowIos
  <2>6. sub'.child = child /\ sub'.isRosenWindowCreate = all
    BY <1>a, <2>3 DEF Agrees, SubwindowIos
  <2>7. /\ sub'.parent = sub.parent /\ sub'.visible = sub.visible
        /\ sub'.announced = sub.announced
        /\ sub'.isShowed = sub.isShowed /\ sub'.isMenuWindow = sub.isMenuWindow
    BY <1>a, <2>3 DEF Agrees, SubwindowIos
  <2> QED BY <2>2, <2>4, <2>5, <2>6, <2>7 DEF SubwindowAgrees, SubTypeOK, VisibleIsAnnounced, FlagsNameVisible,
             MadeIsThere
<1>2. ASSUME Show PROVE SubwindowAgrees'
  <2>1. ASSUME NEW n \in Popups, NEW focusable \in BOOLEAN, NEW isAvoidKeyboard \in BOOLEAN,
               Does(ShowPopupNG(sub, n, focusable, isAvoidKeyboard))
        PROVE  SubwindowAgrees'
    BY <1>a, <1>b, <2>1, ShowPopupKeeps, DoesKeeps DEF Does
  <2>2. ASSUME NEW n \in Menus, Does(ShowMenuNG(sub, n)) PROVE SubwindowAgrees'
    BY <1>a, <1>b, <2>2, ShowMenuKeeps, DoesKeeps DEF Does
  <2>3. ASSUME NEW n \in Dialogs, NEW isModal \in BOOLEAN, Does(ShowDialogNG(sub, n, isModal))
        PROVE  SubwindowAgrees'
    BY <1>a, <1>b, <2>3, ShowDialogKeeps, DoesKeeps DEF Does
  <2>4. ASSUME NEW n \in Sheets, Does(ShowBindSheetNG(sub, n)) PROVE SubwindowAgrees'
    BY <1>a, <1>b, <2>4, ShowBindSheetKeeps, DoesKeeps DEF Does
  <2>5. ASSUME NEW topMost \in BOOLEAN, Does(ShowToast(sub, topMost)) PROVE SubwindowAgrees'
    BY <1>a, <1>b, <2>5, ShowToastKeeps, DoesKeeps DEF Does
  <2> QED BY <1>2, <2>1, <2>2, <2>3, <2>4, <2>5 DEF Show
<1>3. ASSUME HideNode PROVE SubwindowAgrees'
  <2>1. ASSUME NEW n \in Popups, Does(HidePopupNG(sub, n)) PROVE SubwindowAgrees'
    BY <1>a, <2>1, HidePopupKeeps, DoesKeeps
  <2>2. ASSUME NEW n \in Menus, Does(HideMenuNG(sub, n)) PROVE SubwindowAgrees'
    BY <1>a, <2>2, HideMenuKeeps, DoesKeeps
  <2>3. ASSUME NEW n, Does([sub EXCEPT !.overlay = @ \ {n}]) PROVE SubwindowAgrees'
    <3>1. sub.overlay \ {n} \in SUBSET Nodes
      BY <1>a DEF Agrees, SubwindowIos
    <3> QED BY <1>a, <2>3, <3>1, OverlayKeeps, DoesKeeps
  <2>4. ASSUME Does(sub) PROVE SubwindowAgrees'
    BY <1>a, <2>4, DoesKeeps DEF Keeps
  <2> QED BY <1>3, <2>1, <2>2, <2>3, <2>4 DEF HideNode, CloseDialogNG, CloseBindSheet
<1>4. ASSUME Clear PROVE SubwindowAgrees'
  BY <1>4, <1>a, ClearMenuKeeps, ClearPopupKeeps, ClearToastKeeps, DoesKeeps DEF Clear
<1>5. ASSUME ProcessBackPressed PROVE SubwindowAgrees'
  <2>1. PICK top \in sub.overlay : Does(OnBackPressed(sub, top))
    BY <1>5 DEF ProcessBackPressed
  <2>2. sub.overlay \ {top} \in SUBSET Nodes
    BY <1>a DEF Agrees, SubwindowIos
  <2>3. Keeps(sub, OnBackPressed(sub, top))
    BY <1>a, <2>2, OverlayKeeps DEF OnBackPressed, Keeps
  <2> QED BY <2>1, <2>3, DoesKeeps
<1>6. ASSUME NodeGone PROVE SubwindowAgrees'
  <2>1. PICK n \in sub.hotAreasMap \ sub.overlay :
          Does(IF DeleteHotAreas(sub, n).overlay = {} THEN HideWindow(DeleteHotAreas(sub, n))
               ELSE DeleteHotAreas(sub, n))
    BY <1>6 DEF NodeGone
  <2> DEFINE s == DeleteHotAreas(sub, n)
  <2>2. Keeps(sub, s)
    BY <1>a, DeleteHotAreasKeeps
  <2> HIDE DEF s
  <2>3. Keeps(s, HideWindow(s))
    BY <2>2, HideWindowKeeps DEF Keeps
  <2>4. Keeps(sub, HideWindow(s))
    BY <2>2, <2>3, KeepsOfKept
  <2>5. Does(IF s.overlay = {} THEN HideWindow(s) ELSE s)
    BY <2>1 DEF s
  <2>6. CASE s.overlay = {}
    BY <2>4, <2>5, <2>6, DoesKeeps
  <2>7. CASE s.overlay # {}
    BY <2>2, <2>5, <2>7, DoesKeeps
  <2> QED BY <2>6, <2>7
<1>7. ASSUME Decorate PROVE SubwindowAgrees'
  <2>1. Keeps(sub, [sub EXCEPT !.decor = Decorations])
    BY <1>a DEF Keeps, Agrees, SubwindowIos
  <2> QED BY <1>7, <2>1, DoesKeeps DEF Decorate
<1>8. ASSUME HostChanges PROVE SubwindowAgrees'
  <2> DEFINE host == ~sub.host
             s == [sub EXCEPT !.host = host]
  <2>2. host \in BOOLEAN /\ sub \in SubwindowIos
    BY <1>a DEF Agrees
  <2> HIDE DEF host
  <2>3. s \in SubwindowIos /\ Same(sub, s)
    BY <2>2 DEF Same, SubwindowIos
  <2>4. Keeps(sub, s)
    BY <1>a, <2>3, SameKeeps
  <2>1. Keeps(sub, [sub EXCEPT !.host = ~@])
    BY <2>4 DEF host
  <2> QED BY <1>8, <2>1, DoesKeeps DEF HostChanges
<1>9. ASSUME ParentReplaced \/ ParentDestroyed PROVE SubwindowAgrees'
  <2>1. ASSUME sub' = [sub EXCEPT !.parent = FALSE, !.decor = {}]
        PROVE  sub' \in SubwindowIos /\ sub'.parent = FALSE
    BY <1>a, <2>1 DEF Agrees, SubwindowIos
  <2>2. ASSUME sub' = [sub EXCEPT !.parent = FALSE, !.child = FALSE, !.host = FALSE,
                                !.visible = FALSE, !.overlay = {}, !.decor = {}]
        PROVE  sub' \in SubwindowIos /\ sub'.parent = FALSE
    <3> DEFINE t == [sub EXCEPT !.parent = FALSE, !.child = FALSE, !.host = FALSE]
    <3>1. t \in SubwindowIos /\ t.parent = FALSE
      BY <1>a DEF Agrees, SubwindowIos
    <3>2. sub' = [t EXCEPT !.visible = FALSE, !.overlay = {}, !.decor = {}]
      BY <2>2
    <3> HIDE DEF t
    <3> QED BY <3>1, <3>2 DEF SubwindowIos
  <2>3. queue' = queue
    BY <1>9 DEF ParentReplaced, ParentDestroyed, Does
  <2>4. sub' \in SubwindowIos /\ sub'.parent = FALSE
    BY <1>9, <2>1, <2>2 DEF ParentReplaced, ParentDestroyed, Does
  <2> QED BY <2>3, <2>4 DEF SubwindowAgrees, SubTypeOK, VisibleIsAnnounced, FlagsNameVisible, MadeIsThere
<1>10. ASSUME NEW task \in {"outside", "background"}, Listen(task) PROVE SubwindowAgrees'
  <2>1. queue' \in Seq({"outside", "background"}) /\ Len(queue') <= MaxQueue
    <3>1. Len(queue) \in Nat /\ Len(queue) < MaxQueue /\ queue' = Append(queue, task)
      BY <1>10, LenProperties DEF Listen, SubwindowAgrees, SubTypeOK
    <3>2. queue' \in Seq({"outside", "background"}) /\ Len(queue') = Len(queue) + 1
      BY <3>1, AppendProperties DEF SubwindowAgrees, SubTypeOK
    <3> QED BY <3>1, <3>2, SubwindowAssumption
  <2>2. sub' = sub
    BY <1>10 DEF Listen
  <2> QED BY <2>1, <2>2 DEF SubwindowAgrees, SubTypeOK, VisibleIsAnnounced, FlagsNameVisible, MadeIsThere
<1>11. ASSUME RunTask PROVE SubwindowAgrees'
  <2> DEFINE s == ClearMenuNG(sub, TRUE)
  <2>1. Keeps(sub, s)
    BY <1>a, ClearMenuKeeps
  <2>2. Keeps(s, ClearPopupNG(s))
    BY <2>1, ClearPopupKeeps DEF Keeps
  <2>3. Keeps(sub, ClearPopupNG(s))
    BY <2>1, <2>2, KeepsOfKept
  <2>4. Keeps(sub, HidePopupNG(sub, -1))
    BY <1>a, HidePopupKeeps
  <2>5. queue # <<>> /\ queue' = Tail(queue)
    BY <1>11 DEF RunTask
  <2>6. Head(queue) \in {"outside", "background"}
    BY <2>5, HeadTailProperties DEF SubwindowAgrees, SubTypeOK
  <2>7. sub' = ClearPopupNG(s) \/ sub' = HidePopupNG(sub, -1)
    BY <1>11, <2>6 DEF RunTask
  <2> HIDE DEF s
  <2> QED BY <2>3, <2>4, <2>5, <2>7, RunKeeps
<1>12. CASE UNCHANGED subVars
  BY <1>12 DEF subVars, SubwindowAgrees, SubTypeOK, VisibleIsAnnounced, FlagsNameVisible, MadeIsThere
<1> QED BY <1>1, <1>2, <1>3, <1>4, <1>5, <1>6, <1>7, <1>8, <1>9, <1>10, <1>11, <1>12 DEF SubNext

\* For any nodes: as long as the page lives, the subwindow is on the screen exactly if
\* accessibility was told last that it was added, its flags hold only of a window that can be
\* seen, and the window that was made has its container.
THEOREM SubwindowsAgree == SubSpec => []SubwindowAgrees
BY SubwindowInit, SubwindowStep, PTL DEF SubSpec
=============================================================================
