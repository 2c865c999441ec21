---------------------------- MODULE ServicesProofs ----------------------------
(***************************************************************************)
(* Proofs about the parts of the adapter that stand alone, for any         *)
(* downloads, questions, windows and objects and any bounds: the ticks of  *)
(* a picker, what a page asks through a web view, the data of a drag, the  *)
(* downloads of a web view, a video, and the adapters of a container's     *)
(* resources.                                                              *)
(***************************************************************************)
EXTENDS PickerHaptic, WebQuestions, UdmfClient, WebDownload, AceVideo, ContainerResources,
        SequenceTheorems, TLAPS

-----------------------------------------------------------------------------
(* PickerHaptic *)

LEMMA RecentSpeeds ==
  ASSUME HapticTypeOK, NEW speed \in {"below", "at", "above"}
  PROVE  Recent(speed) \in Seq({"below", "at", "above"}) /\ Len(Recent(speed)) <= TREND_COUNT
<1> DEFINE S == {"below", "at", "above"}
           all == Append(recentSpeeds, speed)
<1>1. recentSpeeds \in Seq(S) /\ Len(recentSpeeds) <= 3 /\ Len(recentSpeeds) \in Nat
  BY LenProperties DEF HapticTypeOK, TREND_COUNT
<1>2. all \in Seq(S) /\ Len(all) = Len(recentSpeeds) + 1
  BY <1>1, AppendProperties
<1> HIDE DEF all
<1>3. CASE Len(all) > 3
  <2>1. all # <<>>
    BY <1>2, <1>3, EmptySeq
  <2>2. Tail(all) \in Seq(S) /\ Len(Tail(all)) = Len(all) - 1
    BY <1>2, <2>1, HeadTailProperties
  <2> QED BY <1>1, <1>2, <1>3, <2>2 DEF Recent, TREND_COUNT, all
<1>4. CASE ~(Len(all) > 3)
  BY <1>1, <1>2, <1>4 DEF Recent, TREND_COUNT, all
<1> QED BY <1>3, <1>4

\* The play thread's steps.
LEMMA ThreadKeeps ==
  ASSUME TicksAsAsked, ThreadLoop \/ SpuriousWakeup
  PROVE  TicksAsAsked'
<1> USE DEF HapticTypeOK, ThreadStatus, OwesWhatItPlays, SilentAfterStop, Playing, uiVars, TicksAsAsked
<1>1. CASE Waits
  BY <1>1 DEF Waits
<1>2. CASE Ticks
  BY <1>2 DEF Ticks
<1>3. CASE WaitsInterval
  BY <1>3 DEF WaitsInterval, IntervalEnds
<1>4. CASE LeavesLoop
  BY <1>4 DEF LeavesLoop
<1>5. CASE SpuriousWakeup
  BY <1>5 DEF SpuriousWakeup
<1> QED BY <1>1, <1>2, <1>3, <1>4, <1>5 DEF ThreadLoop

\* The UI thread's calls.
LEMMA CallKeeps ==
  ASSUME TicksAsAsked, Play \/ PlayOnce \/ SetsPlaying \/ SetsPlayOnce \/ Stop \/ ThreadRelease \/ Joins
  PROVE  TicksAsAsked'
<1> USE DEF HapticTypeOK, ThreadStatus, OwesWhatItPlays, SilentAfterStop, Playing, uiVars, TicksAsAsked,
            Asks, AsksOnce, NeedNotify, Woken, Sets
<1>1. CASE Play
  BY <1>1 DEF Play
<1>2. CASE PlayOnce
  BY <1>2 DEF PlayOnce
<1>3. CASE SetsPlaying
  BY <1>3 DEF SetsPlaying
<1>4. CASE SetsPlayOnce
  BY <1>4 DEF SetsPlayOnce
<1>5. CASE Stop
  BY <1>5 DEF Stop
<1>6. CASE ThreadRelease
  BY <1>6 DEF ThreadRelease
<1>7. CASE Joins
  BY <1>7 DEF Joins
<1> QED BY <1>1, <1>2, <1>3, <1>4, <1>5, <1>6, <1>7

LEMMA DeltaKeeps ==
  ASSUME TicksAsAsked, NEW speed \in {"below", "at", "above"}, HandleDelta(speed)
  PROVE  TicksAsAsked'
<1>1. Recent(speed) \in Seq({"below", "at", "above"}) /\ Len(Recent(speed)) <= TREND_COUNT
  BY RecentSpeeds DEF TicksAsAsked
<1>2. <<>> \in Seq({"below", "at", "above"}) /\ Len(<<>>) <= TREND_COUNT
  BY DEF TREND_COUNT
<1>3. recentSpeeds' \in {Recent(speed), <<>>}
  BY DEF HandleDelta
<1>4. recentSpeeds' \in Seq({"below", "at", "above"}) /\ Len(recentSpeeds') <= TREND_COUNT
  BY <1>1, <1>2, <1>3
<1>5. /\ ui' \in {ui, "PlayOnce", "Play"} /\ needNotify' \in BOOLEAN /\ atRest' \in BOOLEAN
      /\ isHapticCanLoopPlay' \in BOOLEAN /\ isLoopReadyToStop' \in BOOLEAN
      /\ playThreadStatus' \in {playThreadStatus, "READY"}
      /\ UNCHANGED <<isInHapticLoop, pc, owed, looped, afterStop>>
  BY DEF HandleDelta, AsksOnce, Asks, NeedNotify, TicksAsAsked, HapticTypeOK
<1> QED BY <1>4, <1>5
    DEF HapticTypeOK, ThreadStatus, OwesWhatItPlays, SilentAfterStop, Playing, TicksAsAsked

\* No tick of a picker is played that was not asked for (PickerHapticController).
THEOREM NoTickUnasked == HapticSpec => []TicksAsAsked
<1>1. HapticInit => TicksAsAsked
  <2>1. <<>> \in Seq({"below", "at", "above"}) /\ Len(<<>>) <= TREND_COUNT
    BY DEF TREND_COUNT
  <2>2. ASSUME HapticInit
        PROVE  recentSpeeds \in Seq({"below", "at", "above"}) /\ Len(recentSpeeds) <= TREND_COUNT
    BY <2>1, <2>2 DEF HapticInit
  <2>3. ASSUME HapticInit
        PROVE  /\ playThreadStatus = "READY" /\ pc = "while" /\ ui = "idle" /\ looped = FALSE
               /\ isHapticCanLoopPlay = FALSE /\ isInHapticLoop = FALSE /\ isLoopReadyToStop = FALSE
               /\ needNotify = FALSE /\ atRest = FALSE /\ owed = 0 /\ afterStop = -1
    BY <2>3 DEF HapticInit
  <2> QED BY <2>2, <2>3 DEF TicksAsAsked, HapticTypeOK, ThreadStatus, OwesWhatItPlays,
                            SilentAfterStop, Playing
<1>2. TicksAsAsked /\ [HapticNext]_hapticVars => TicksAsAsked'
  <2> SUFFICES ASSUME TicksAsAsked, [HapticNext]_hapticVars PROVE TicksAsAsked'
    OBVIOUS
  <2>1. CASE UNCHANGED hapticVars
    BY <2>1 DEF hapticVars, uiVars, HapticTypeOK, OwesWhatItPlays, SilentAfterStop, Playing, TicksAsAsked
  <2>2. CASE HapticNext
    BY <2>2, ThreadKeeps, CallKeeps, DeltaKeeps DEF HapticNext
  <2> QED BY <2>1, <2>2
<1> QED BY <1>1, <1>2, PTL DEF HapticSpec

-----------------------------------------------------------------------------
(* UdmfClient *)

\* A record more is in one object, and nothing else changes.
LEMMA RecordKeeps ==
  ASSUME GotOnce, NEW d \in Data, NEW record \in Record, AddRecord(d, record)
  PROVE  GotOnce'
<1>1. records' \in [Data -> Seq(Record)]
  <2>1. records \in [Data -> Seq(Record)]
    BY DEF GotOnce, UdmfTypeOK
  <2>2. Append(records[d], record) \in Seq(Record)
    BY <2>1, AppendProperties
  <2> QED BY <2>1, <2>2 DEF AddRecord
<1>2. UNCHANGED <<unifiedDataMap, groupId, set, got>>
  BY DEF AddRecord
<1> QED BY <1>1, <1>2 DEF GotOnce, UdmfTypeOK, GetErrorInfo

LEMMA Added ==
  ASSUME NEW d \in Data, AddPlainTextRecord(d) \/ AddSpanStringRecord(d) \/ AddOwnRecord(d)
  PROVE  \E record \in Record : AddRecord(d, record)
<1>1. \A size \in 1 .. 2 : [type |-> "PLAIN_TEXT", styled |-> FALSE, size |-> size] \in Record
  BY DEF Record
<1>2. /\ [type |-> "APPLICATION_DEFINED_RECORD", styled |-> TRUE, size |-> 1] \in Record
      /\ [type |-> "APPLICATION_DEFINED_RECORD", styled |-> FALSE, size |-> 2] \in Record
  BY DEF Record
<1> QED BY <1>1, <1>2 DEF AddPlainTextRecord, AddSpanStringRecord, AddOwnRecord

\* The key that is given is new.
LEMMA SetKeeps ==
  ASSUME GotOnce, NEW d \in Data, SetData(d)
  PROVE  GotOnce'
<1>1. groupId \in Nat /\ MaxGroups \in Nat /\ groupId < MaxGroups /\ groupId' = groupId + 1
      /\ records' = records /\ got' = got
  BY UdmfAssumption DEF GotOnce, UdmfTypeOK, SetData
<1>2. /\ DOMAIN set = 0 .. groupId - 1 /\ DOMAIN unifiedDataMap \subseteq DOMAIN set
      /\ got \in Seq((0 .. MaxGroups - 1) \X Data)
      /\ \A key \in DOMAIN set : set[key] \in Data
  BY DEF GotOnce, UdmfTypeOK
<1>3. /\ unifiedDataMap' = [j \in DOMAIN unifiedDataMap \cup {groupId} |->
                              IF j = groupId THEN d ELSE unifiedDataMap[j]]
      /\ set' = [j \in DOMAIN set \cup {groupId} |-> IF j = groupId THEN d ELSE set[j]]
  BY DEF SetData, GroupId, Put
<1>4. groupId \notin DOMAIN set /\ DOMAIN set' = 0 .. groupId' - 1 /\ groupId' \in 0 .. MaxGroups
  BY <1>1, <1>2, <1>3
<1>5. /\ DOMAIN unifiedDataMap' = DOMAIN unifiedDataMap \cup {groupId} /\ DOMAIN set' = DOMAIN set \cup {groupId}
      /\ unifiedDataMap'[groupId] = d /\ set'[groupId] = d
      /\ \A key \in DOMAIN set : set'[key] = set[key]
      /\ \A key \in DOMAIN unifiedDataMap : unifiedDataMap'[key] = unifiedDataMap[key]
  BY <1>2, <1>3, <1>4
<1>6. UdmfTypeOK'
  BY <1>1, <1>2, <1>4, <1>5 DEF GotOnce, UdmfTypeOK
<1>7. \A i \in DOMAIN got' :
        /\ got'[i][1] \in DOMAIN set' /\ got'[i][2] = set'[got'[i][1]]
        /\ \A j \in DOMAIN got' : got'[i][1] = got'[j][1] => i = j
  BY <1>1, <1>5 DEF GotOnce
<1>8. ASSUME NEW key \in DOMAIN set'
      PROVE  /\ (key \notin DOMAIN unifiedDataMap') = (\E i \in DOMAIN got' : got'[i][1] = key)
             /\ key \in DOMAIN unifiedDataMap' => unifiedDataMap'[key] = set'[key]
  <2>1. CASE key = groupId
    <3>1. \A i \in DOMAIN got : got[i][1] # key
      BY <1>4, <2>1 DEF GotOnce
    <3> QED BY <1>1, <1>5, <2>1, <3>1
  <2>2. CASE key # groupId
    <3>1. key \in DOMAIN set
      BY <1>5, <1>8, <2>2
    <3>2. /\ (key \notin DOMAIN unifiedDataMap) = (\E i \in DOMAIN got : got[i][1] = key)
          /\ key \in DOMAIN unifiedDataMap => unifiedDataMap[key] = set[key]
      BY <3>1 DEF GotOnce, GetErrorInfo
    <3> QED BY <1>1, <1>5, <2>2, <3>1, <3>2
  <2> QED BY <2>1, <2>2
<1> QED BY <1>6, <1>7, <1>8 DEF GotOnce, GetErrorInfo

LEMMA GetKeeps ==
  ASSUME GotOnce, NEW key \in Keys, GetData(key)
  PROVE  GotOnce'
<1>1. /\ key \in DOMAIN unifiedDataMap /\ records' = records /\ groupId' = groupId /\ set' = set
      /\ got' = Append(got, <<key, unifiedDataMap[key]>>)
      /\ unifiedDataMap' = [k \in DOMAIN unifiedDataMap \ {key} |-> unifiedDataMap[k]]
  BY DEF GetData
<1>2. /\ DOMAIN set = 0 .. groupId - 1 /\ DOMAIN unifiedDataMap \subseteq DOMAIN set
      /\ got \in Seq((0 .. MaxGroups - 1) \X Data)
      /\ \A k \in DOMAIN set : set[k] \in Data
  BY DEF GotOnce, UdmfTypeOK
<1>3. key \in DOMAIN set /\ unifiedDataMap[key] = set[key] /\ set[key] \in Data
  BY <1>1, <1>2 DEF GotOnce
<1> DEFINE new == <<key, unifiedDataMap[key]>>
<1>4. new \in (0 .. MaxGroups - 1) \X Data
  BY <1>3 DEF Keys
<1>5. new[1] = key /\ new[2] = set[key]
  BY <1>3
<1>6. got' = Append(got, new)
  BY <1>1
<1> HIDE DEF new
<1>7. /\ got' \in Seq((0 .. MaxGroups - 1) \X Data) /\ DOMAIN got' = DOMAIN got \cup {Len(got) + 1}
      /\ Len(got) + 1 \notin DOMAIN got /\ got'[Len(got) + 1] = new
      /\ \A i \in DOMAIN got : got'[i] = got[i]
  <2>1. Len(got) \in Nat /\ DOMAIN got = 1 .. Len(got)
    BY <1>2, LenProperties
  <2>2. /\ got' \in Seq((0 .. MaxGroups - 1) \X Data) /\ Len(got') = Len(got) + 1
        /\ got'[Len(got) + 1] = new /\ \A i \in 1 .. Len(got) : got'[i] = got[i]
    BY <1>2, <1>4, <1>6, AppendProperties
  <2>3. DOMAIN got' = 1 .. Len(got) + 1
    BY <2>2, LenProperties
  <2> QED BY <2>1, <2>2, <2>3
<1>8. \A i \in DOMAIN got : got[i][1] # key
  BY <1>1, <1>3 DEF GotOnce, GetErrorInfo
<1>9. UdmfTypeOK'
  BY <1>1, <1>2, <1>7 DEF GotOnce, UdmfTypeOK
<1>10. \A i \in DOMAIN got' :
         /\ got'[i][1] \in DOMAIN set' /\ got'[i][2] = set'[got'[i][1]]
         /\ \A j \in DOMAIN got' : got'[i][1] = got'[j][1] => i = j
  BY <1>1, <1>3, <1>5, <1>7, <1>8 DEF GotOnce
<1>11. ASSUME NEW k \in DOMAIN set'
       PROVE  /\ (k \notin DOMAIN unifiedDataMap') = (\E i \in DOMAIN got' : got'[i][1] = k)
              /\ k \in DOMAIN unifiedDataMap' => unifiedDataMap'[k] = set'[k]
  <2>1. /\ (k \notin DOMAIN unifiedDataMap) = (\E i \in DOMAIN got : got[i][1] = k)
        /\ k \in DOMAIN unifiedDataMap => unifiedDataMap[k] = set[k]
    BY <1>1, <1>11 DEF GotOnce, GetErrorInfo
  <2>2. (\E i \in DOMAIN got' : got'[i][1] = k) <=> k = key \/ \E i \in DOMAIN got : got[i][1] = k
    BY <1>5, <1>7
  <2>3. k \in DOMAIN unifiedDataMap' <=> k \in DOMAIN unifiedDataMap /\ k # key
    BY <1>1
  <2>4. k \in DOMAIN unifiedDataMap' => unifiedDataMap'[k] = unifiedDataMap[k]
    BY <1>1
  <2> QED BY <1>1, <2>1, <2>2, <2>3, <2>4
<1> QED BY <1>9, <1>10, <1>11 DEF GotOnce, GetErrorInfo

\* The data of a drag is found under the key it was set under and no other, until it is
\* got, and is got once (UdmfClientImpl).
THEOREM DataGotOnce == UdmfSpec => []GotOnce
<1>1. UdmfInit => GotOnce
  <2> SUFFICES ASSUME UdmfInit PROVE GotOnce
    OBVIOUS
  <2>1. records \in [Data -> Seq(Record)]
    <3>1. <<>> \in Seq(Record)
      OBVIOUS
    <3> QED BY <3>1 DEF UdmfInit
  <2>2. DOMAIN set = {} /\ DOMAIN unifiedDataMap = {} /\ DOMAIN got = {}
        /\ got \in Seq((0 .. MaxGroups - 1) \X Data)
    BY DEF UdmfInit
  <2>3. groupId = 0 /\ groupId \in 0 .. MaxGroups /\ 0 .. groupId - 1 = {}
    BY UdmfAssumption DEF UdmfInit
  <2> QED BY <2>1, <2>2, <2>3 DEF GotOnce, UdmfTypeOK
<1>2. GotOnce /\ [UdmfNext]_udmfVars => GotOnce'
  <2> SUFFICES ASSUME GotOnce, [UdmfNext]_udmfVars PROVE GotOnce'
    OBVIOUS
  <2>1. CASE UNCHANGED udmfVars
    BY <2>1 DEF udmfVars, GotOnce, UdmfTypeOK, GetErrorInfo
  <2>2. CASE UdmfNext
    BY <2>2, Added, RecordKeeps, SetKeeps, GetKeeps DEF UdmfNext
  <2> QED BY <2>1, <2>2
<1> QED BY <1>1, <1>2, PTL DEF UdmfSpec

-----------------------------------------------------------------------------
(* WebQuestions: questions *)

\* One question changes: what must hold of it, and of the others as they were.
QuestionAgrees(q, s) ==
  /\ s \in [phase : {"none", "event", "receive", "done"}, taken : SUBSET {"event", "receive"},
            calls : Nat, answer : {"none", "confirm", "cancel", "default"}]
  /\ s.phase = "done" /\ s.taken = {} => s.calls > 0
  /\ Ssl(q) => s.calls <= 1
  /\ s.phase = "none" => s.calls = 0 /\ s.taken = {}
  /\ s.calls = 0 => s.answer = "none"

LEMMA QuestionsOneByOne ==
  QuestionTypeOK /\ AnsweredOnce /\ AnswersAreCounted
    <=> /\ kind \in Kinds /\ DOMAIN question = Questions /\ question = [q \in Questions |-> question[q]]
        /\ \A q \in Questions : QuestionAgrees(q, question[q])
        /\ popup \in [Popups -> AceWebWindowNewObject]
        /\ index \in 0 .. MaxIndexes /\ DOMAIN objectMap \subseteq 1 .. index
        /\ \A i \in DOMAIN objectMap : objectMap[i] \in Popups
BY DEF QuestionTypeOK, AnsweredOnce, AnswersAreCounted, QuestionAgrees

LEMMA HandlerCalled ==
  ASSUME NEW q, NEW s, QuestionAgrees(q, s), NEW answer \in {"confirm", "cancel", "default"}
  PROVE  LET t == CompletionHandler(s, answer) IN
         /\ t \in [phase : {"none", "event", "receive", "done"}, taken : SUBSET {"event", "receive"},
                  calls : Nat, answer : {"none", "confirm", "cancel", "default"}]
         /\ t.phase = s.phase /\ t.taken = s.taken /\ t.calls = s.calls + 1 /\ t.calls > 0
         /\ t.answer = IF s.answer = "none" THEN answer ELSE s.answer
<1> DEFINE t == CompletionHandler(s, answer)
           c == s.calls + 1
           first == IF s.answer = "none" THEN answer ELSE s.answer
<1>1. s.calls \in Nat /\ c \in Nat /\ c > 0 /\ first \in {"none", "confirm", "cancel", "default"}
  BY DEF QuestionAgrees
<1>2. t = [[s EXCEPT !.calls = c] EXCEPT !.answer = first]
  BY DEF CompletionHandler, QuestionAgrees
<1> HIDE DEF t, c, first
<1>3. /\ t.phase = s.phase /\ t.taken = s.taken /\ t.calls = c /\ t.answer = first
      /\ t \in [phase : {"none", "event", "receive", "done"}, taken : SUBSET {"event", "receive"},
               calls : Nat, answer : {"none", "confirm", "cancel", "default"}]
  BY <1>1, <1>2 DEF QuestionAgrees
<1> QED BY <1>1, <1>3 DEF t, c, first

LEMMA OneAnswered ==
  ASSUME NEW q, NEW s, QuestionAgrees(q, s), s.phase # "none",
         NEW answer \in {"confirm", "cancel", "default"}
  PROVE  LET t == Answer(q, s, answer) IN
         /\ QuestionAgrees(q, t) /\ t.phase = s.phase /\ t.taken = s.taken /\ t.calls > 0
         /\ s.answer = "confirm" => t.answer = "confirm"
         /\ s.calls = 0 => t.answer = answer
<1>1. CASE Ssl(q) /\ s.calls > 0
  BY <1>1 DEF Answer, QuestionAgrees
<1>2. CASE ~(Ssl(q) /\ s.calls > 0)
  BY <1>2, HandlerCalled DEF Answer, QuestionAgrees
<1> QED BY <1>1, <1>2

LEMMA OneKeeps ==
  ASSUME QuestionsAgree, NEW q \in Questions, NEW s, QuestionAgrees(q, s),
         question' = [question EXCEPT ![q] = s], UNCHANGED <<kind, windows>>,
         question[q].answer = "confirm" => s.answer = "confirm",
         useCredentials' \subseteq
           useCredentials \cup {h \in {Host[q]} : Ssl(q) /\ s.answer = "confirm"}
  PROVE  QuestionsAgree'
<1>1. /\ kind \in Kinds /\ DOMAIN question = Questions
      /\ \A r \in Questions : QuestionAgrees(r, question[r])
      /\ popup \in [Popups -> AceWebWindowNewObject]
      /\ index \in 0 .. MaxIndexes /\ DOMAIN objectMap \subseteq 1 .. index
      /\ \A i \in DOMAIN objectMap : objectMap[i] \in Popups
  BY QuestionsOneByOne DEF QuestionsAgree
<1>2. DOMAIN question' = Questions /\ question'[q] = s
      /\ \A r \in Questions \ {q} : question'[r] = question[r]
  BY <1>1
<1>3. /\ kind' = kind /\ popup' = popup /\ index' = index /\ objectMap' = objectMap
      /\ given' = given /\ shown' = shown
  BY DEF windows
<1>4. \A r \in Questions : QuestionAgrees(r, question'[r])
  BY <1>1, <1>2
<1>5. \A r \in Questions : /\ Ssl(r)' = Ssl(r)
                           /\ (question[r].answer)' = question'[r].answer
  BY <1>3 DEF Ssl
<1>6. TrustWasAnswered'
  <2> SUFFICES ASSUME NEW h \in useCredentials'
               PROVE  \E r \in Questions : Ssl(r) /\ Host[r] = h /\ question'[r].answer = "confirm"
    BY <1>5 DEF TrustWasAnswered
  <2>1. CASE h \in useCredentials
    <3>1. PICK r \in Questions : Ssl(r) /\ Host[r] = h /\ question[r].answer = "confirm"
      BY <2>1 DEF QuestionsAgree, TrustWasAnswered
    <3> QED BY <1>2, <3>1
  <2>2. CASE h \notin useCredentials
    BY <1>2, <2>2
  <2> QED BY <2>1, <2>2
<1>7. question' \in [Questions -> [phase : {"none", "event", "receive", "done"},
                                  taken : SUBSET {"event", "receive"},
                                  calls : Nat, answer : {"none", "confirm", "cancel", "default"}]]
  BY <1>2, <1>4 DEF QuestionAgrees, QuestionsAgree, QuestionTypeOK
<1>8. QuestionTypeOK'
  BY <1>1, <1>3, <1>7 DEF QuestionTypeOK
<1>9. AnsweredOnce' /\ AnswersAreCounted'
  BY <1>4, <1>5 DEF AnsweredOnce, AnswersAreCounted, QuestionAgrees
<1>10. IndexesName'
  BY <1>3 DEF QuestionsAgree, IndexesName
<1> QED BY <1>6, <1>8, <1>9, <1>10 DEF QuestionsAgree

LEMMA AskKeeps ==
  ASSUME QuestionsAgree, NEW q \in Questions, Ask(q)
  PROVE  QuestionsAgree'
<1> DEFINE s == question[q]
<1>1. QuestionAgrees(q, s) /\ s.phase = "none" /\ s.calls = 0 /\ s.taken = {} /\ s.answer = "none"
  BY QuestionsOneByOne DEF QuestionsAgree, Ask, QuestionAgrees
<1>2. /\ UNCHANGED <<kind, windows>> /\ useCredentials' = useCredentials
  BY DEF Ask
<1>3. s \in [phase : {"none", "event", "receive", "done"}, taken : SUBSET {"event", "receive"},
            calls : Nat, answer : {"none", "confirm", "cancel", "default"}]
  BY <1>1 DEF QuestionAgrees
<1>4. CASE Ssl(q) /\ Host[q] \in handleSslErrorUrls \cup useCredentials
  <2> DEFINE c == CompletionHandler(s, "default")
             t == [c EXCEPT !.phase = "done"]
  <2>1. question' = [question EXCEPT ![q] = t]
    BY <1>4 DEF Ask
  <2>2. /\ c \in [phase : {"none", "event", "receive", "done"}, taken : SUBSET {"event", "receive"},
                 calls : Nat, answer : {"none", "confirm", "cancel", "default"}]
        /\ c.calls = 1
    <3> HIDE DEF s
    <3> QED BY <1>1, HandlerCalled
  <2> HIDE DEF s, c
  <2>3. QuestionAgrees(q, t) /\ (s.answer = "confirm" => t.answer = "confirm")
    BY <1>1, <2>2 DEF QuestionAgrees
  <2> HIDE DEF t
  <2> QED BY <1>2, <2>1, <2>3, OneKeeps DEF s
<1>5. CASE ~(Ssl(q) /\ Host[q] \in handleSslErrorUrls \cup useCredentials)
  <2> DEFINE t == [s EXCEPT !.phase = "event"]
  <2>1. question' = [question EXCEPT ![q] = t]
    BY <1>5 DEF Ask
  <2>2. QuestionAgrees(q, t) /\ (s.answer = "confirm" => t.answer = "confirm")
    BY <1>1, <1>3 DEF QuestionAgrees
  <2> HIDE DEF t, s
  <2> QED BY <1>2, <2>1, <2>2, OneKeeps DEF s
<1> QED BY <1>4, <1>5

LEMMA ReturnsKeeps ==
  ASSUME QuestionsAgree, NEW q \in Questions, NEW taken \in BOOLEAN, HandlerReturns(q, taken)
  PROVE  QuestionsAgree'
<1> DEFINE o == question[q]
           u == o.taken \cup (IF taken THEN {o.phase} ELSE {})
           s == [o EXCEPT !.taken = u]
           t == IF s.taken = {} THEN Answer(q, s, "default") ELSE s
           r == IF kind[q] = "main" /\ s.phase = "event"
                THEN [s EXCEPT !.phase = "receive"] ELSE [t EXCEPT !.phase = "done"]
<1>1. QuestionAgrees(q, o) /\ o.phase \in {"event", "receive"}
  BY QuestionsOneByOne DEF QuestionsAgree, HandlerReturns
<1>2. question' = [question EXCEPT ![q] = r] /\ UNCHANGED <<kind, windows>> /\ useCredentials' = useCredentials
  BY DEF HandlerReturns, Returns
<1>3. u \in SUBSET {"event", "receive"}
  BY <1>1 DEF QuestionAgrees
<1> HIDE DEF o, u
<1>4. /\ QuestionAgrees(q, s) /\ s.phase = o.phase /\ s.answer = o.answer /\ s.taken = u
  BY <1>1, <1>3 DEF QuestionAgrees
<1> HIDE DEF s
<1>5. /\ QuestionAgrees(q, t) /\ (s.taken = {} => t.calls > 0) /\ t.taken = s.taken
      /\ s.answer = "confirm" => t.answer = "confirm"
  BY <1>1, <1>4, OneAnswered
<1> HIDE DEF t
<1>6. QuestionAgrees(q, [s EXCEPT !.phase = "receive"]) /\ [s EXCEPT !.phase = "receive"].answer = s.answer
  BY <1>4 DEF QuestionAgrees
<1>7. QuestionAgrees(q, [t EXCEPT !.phase = "done"]) /\ [t EXCEPT !.phase = "done"].answer = t.answer
  BY <1>5 DEF QuestionAgrees
<1>8. QuestionAgrees(q, r) /\ (question[q].answer = "confirm" => r.answer = "confirm")
  BY <1>4, <1>5, <1>6, <1>7 DEF o
<1> HIDE DEF r
<1> QED BY <1>2, <1>8, OneKeeps

LEMMA SaysKeeps ==
  ASSUME QuestionsAgree, NEW q \in Questions,
         NEW answers \in SUBSET {"confirm", "cancel", "default", "nothing"}, Says(q, answers)
  PROVE  QuestionsAgree'
<1>1. PICK answer \in answers :
        IF answer = "nothing" THEN UNCHANGED <<question, useCredentials>>
        ELSE /\ question' = [question EXCEPT ![q] = Answer(q, @, answer)]
             /\ useCredentials' = Trusts(q, answer)
  BY DEF Says
<1>2. QuestionAgrees(q, question[q]) /\ question[q].phase # "none"
  BY QuestionsOneByOne DEF QuestionsAgree, Says, MayAnswer, QuestionAgrees
<1>3. UNCHANGED <<kind, windows>>
  BY DEF Says
<1>4. CASE answer = "nothing"
  <2>1. question' = [question EXCEPT ![q] = question[q]]
    BY <1>1, <1>4 DEF QuestionsAgree, QuestionTypeOK
  <2> QED BY <1>1, <1>2, <1>3, <1>4, <2>1, OneKeeps
<1>5. CASE answer # "nothing"
  <2> DEFINE t == Answer(q, question[q], answer)
  <2>1. question' = [question EXCEPT ![q] = t] /\ useCredentials' = Trusts(q, answer)
    BY <1>1, <1>5
  <2>2. answer \in {"confirm", "cancel", "default"}
    BY <1>5
  <2>3. /\ QuestionAgrees(q, t) /\ (question[q].answer = "confirm" => t.answer = "confirm")
        /\ (question[q].calls = 0 => t.answer = answer)
    BY <1>2, <2>2, OneAnswered
  <2> HIDE DEF t
  <2>4. useCredentials' \subseteq useCredentials \cup {h \in {Host[q]} : Ssl(q) /\ t.answer = "confirm"}
    BY <2>1, <2>3 DEF Trusts
  <2> QED BY <1>3, <2>1, <2>3, <2>4, OneKeeps
<1> QED BY <1>4, <1>5

LEMMA QuestionStepKeeps ==
  ASSUME QuestionsAgree, QuestionNext
  PROVE  QuestionsAgree'
<1>1. CASE LoadUrl
  BY <1>1 DEF LoadUrl, windows, QuestionsAgree, QuestionTypeOK, AnsweredOnce, TrustWasAnswered,
              AnswersAreCounted, IndexesName, Ssl
<1>2. ASSUME NEW q \in Questions,
             DialogAnswer(q) \/ PermissionAnswer(q) \/ HttpAuthAnswer(q)
               \/ SslErrorEventAnswer(q) \/ SslErrorEventReceiveAnswer(q)
      PROVE  \E answers \in SUBSET {"confirm", "cancel", "default", "nothing"} : Says(q, answers)
  <2>1. CASE DialogAnswer(q)
    BY <2>1 DEF DialogAnswer
  <2>2. CASE PermissionAnswer(q) \/ HttpAuthAnswer(q) \/ SslErrorEventAnswer(q) \/ SslErrorEventReceiveAnswer(q)
    BY <2>2 DEF PermissionAnswer, HttpAuthAnswer, SslErrorEventAnswer, SslErrorEventReceiveAnswer
  <2> QED BY <1>2, <2>1, <2>2
<1> QED BY <1>1, <1>2, AskKeeps, ReturnsKeeps, SaysKeeps DEF QuestionNext
-----------------------------------------------------------------------------
(* WebQuestions: new windows *)

LEMMA WindowNewKeeps ==
  ASSUME QuestionsAgree, NEW p \in Popups, WindowNew(p, TRUE)
  PROVE  QuestionsAgree'
<1> DEFINE i == index + 1
<1>1. /\ index \in Nat /\ index < MaxIndexes /\ MaxIndexes \in Nat /\ i \in 0 .. MaxIndexes
      /\ popup \in [Popups -> AceWebWindowNewObject] /\ DOMAIN objectMap \subseteq 1 .. index
      /\ \A j \in DOMAIN objectMap : objectMap[j] \in Popups
  BY QuestionAssumption DEF QuestionsAgree, QuestionTypeOK, WindowNew
<1>2. /\ popup' = [popup EXCEPT ![p].alive = TRUE] /\ index' = i /\ shown' = shown
      /\ objectMap' = [j \in DOMAIN objectMap \cup {i} |-> IF j = i THEN p ELSE objectMap[j]]
      /\ given' = given \cup {<<i, p>>}
      /\ UNCHANGED questions
  BY DEF WindowNew, NextIndex, Insert
<1>3. i \notin 1 .. index /\ i \in 1 .. i /\ 1 .. index \subseteq 1 .. i
  BY <1>1
<1> HIDE DEF i
<1>4. popup' \in [Popups -> AceWebWindowNewObject]
  BY <1>1, <1>2 DEF AceWebWindowNewObject
<1>5. /\ DOMAIN objectMap' = DOMAIN objectMap \cup {i} /\ objectMap'[i] = p
      /\ \A j \in DOMAIN objectMap : objectMap'[j] = objectMap[j]
  BY <1>1, <1>2, <1>3
<1>6. /\ DOMAIN objectMap' \subseteq 1 .. index'
      /\ \A j \in DOMAIN objectMap' : objectMap'[j] \in Popups
  BY <1>1, <1>2, <1>3, <1>5
<1>7. ASSUME NEW g \in given'
      PROVE  g[1] \in 1 .. index' /\ (g[1] \in DOMAIN objectMap' => objectMap'[g[1]] = g[2])
  <2>1. CASE g = <<i, p>>
    BY <1>2, <1>3, <1>5, <2>1
  <2>2. CASE g \in given
    <3>1. g[1] \in 1 .. index /\ (g[1] \in DOMAIN objectMap => objectMap[g[1]] = g[2])
      BY <2>2 DEF QuestionsAgree, IndexesName
    <3> QED BY <1>2, <1>3, <1>5, <3>1
  <2> QED BY <1>2, <2>1, <2>2
<1>8. IndexesName'
  BY <1>2, <1>7 DEF QuestionsAgree, IndexesName
<1> QED BY <1>1, <1>2, <1>4, <1>6, <1>8 DEF questions, QuestionsAgree, QuestionTypeOK, AnsweredOnce,
                                           TrustWasAnswered, AnswersAreCounted, Ssl

\* What a window's object says is said of it alone.
LEMMA CompletedTyped ==
  ASSUME popup \in [Popups -> AceWebWindowNewObject], NEW p \in Popups, NEW child \in Children \cup {NoChild},
         Completed(p, child)
  PROVE  popup' \in [Popups -> AceWebWindowNewObject]
<1>1. [popup[p] EXCEPT !.completed = TRUE, !.child = child] \in AceWebWindowNewObject
  BY DEF AceWebWindowNewObject
<1> QED BY <1>1 DEF Completed

LEMMA WindowStepKeeps ==
  ASSUME QuestionsAgree, WindowNext
  PROVE  QuestionsAgree'
<1> DEFINE Windows == /\ popup' \in [Popups -> AceWebWindowNewObject]
                      /\ index' \in 0 .. MaxIndexes /\ DOMAIN objectMap' \subseteq 1 .. index'
                      /\ \A i \in DOMAIN objectMap' : objectMap'[i] \in Popups
                      /\ IndexesName'
<1>1. ASSUME UNCHANGED questions, Windows PROVE QuestionsAgree'
  BY <1>1 DEF questions, QuestionsAgree, QuestionTypeOK, AnsweredOnce, TrustWasAnswered,
              AnswersAreCounted, Ssl
<1>2. /\ popup \in [Popups -> AceWebWindowNewObject]
      /\ index \in 0 .. MaxIndexes /\ DOMAIN objectMap \subseteq 1 .. index
      /\ \A i \in DOMAIN objectMap : objectMap[i] \in Popups
      /\ \A s \in shown : s[1] = s[2]
      /\ \A g \in given : g[1] \in 1 .. index /\ (g[1] \in DOMAIN objectMap => objectMap[g[1]] = g[2])
  BY DEF QuestionsAgree, QuestionTypeOK, IndexesName
<1>3. ASSUME NEW p \in Popups, WindowNew(p, FALSE) PROVE QuestionsAgree'
  <2>1. Windows /\ UNCHANGED questions
    BY <1>2, <1>3 DEF WindowNew, IndexesName
  <2> QED BY <1>1, <2>1
<1>4. ASSUME NEW i \in 1 .. MaxIndexes, DelObject(i) PROVE QuestionsAgree'
  <2>1. /\ objectMap' = [j \in DOMAIN objectMap \ {i} |-> objectMap[j]]
        /\ UNCHANGED <<popup, index, given, shown, questions>>
    BY <1>4 DEF DelObject
  <2>2. DOMAIN objectMap' \subseteq DOMAIN objectMap /\ \A j \in DOMAIN objectMap' : objectMap'[j] = objectMap[j]
    BY <2>1
  <2>3. Windows
    BY <1>2, <2>1, <2>2 DEF IndexesName
  <2> QED BY <1>1, <2>1, <2>3
<1>5. ASSUME NEW i \in 1 .. MaxIndexes, CancelPopup(i) PROVE QuestionsAgree'
  <2>1. PICK p \in GetObject(i) : Completed(p, NoChild)
    BY <1>5 DEF CancelPopup
  <2>2. p \in Popups
    BY <1>2 DEF GetObject
  <2>3. popup' \in [Popups -> AceWebWindowNewObject]
    BY <1>2, <2>1, <2>2, CompletedTyped
  <2>4. UNCHANGED <<index, objectMap, given, shown, questions>>
    BY <1>5 DEF CancelPopup
  <2>5. Windows
    BY <1>2, <2>3, <2>4 DEF IndexesName
  <2> QED BY <1>1, <2>4, <2>5
<1>6. ASSUME NEW i \in 1 .. MaxIndexes, NEW child \in Children, CompleteWithChildWeb(i, child)
      PROVE  QuestionsAgree'
  <2>1. PICK p \in GetObject(i), g \in given :
          g[1] = i /\ Completed(p, child) /\ shown' = shown \cup {<<g[2], p>>}
    BY <1>6 DEF CompleteWithChildWeb
  <2>2. i \in DOMAIN objectMap /\ p = objectMap[i] /\ p \in Popups /\ g[2] = p
    BY <1>2, <2>1 DEF GetObject
  <2>3. popup' \in [Popups -> AceWebWindowNewObject]
    BY <1>2, <2>1, <2>2, CompletedTyped
  <2>4. UNCHANGED <<index, objectMap, given, questions>>
    BY <1>6 DEF CompleteWithChildWeb
  <2>5. \A s \in shown' : s[1] = s[2]
    BY <1>2, <2>1, <2>2
  <2>6. Windows
    BY <1>2, <2>3, <2>4, <2>5 DEF IndexesName
  <2> QED BY <1>1, <2>4, <2>6
<1>7. \A kept \in BOOLEAN : kept = TRUE \/ kept = FALSE
  OBVIOUS
<1> HIDE DEF Windows
<1> QED BY <1>3, <1>4, <1>5, <1>6, <1>7, WindowNewKeeps DEF WindowNext

\* Every question of a page is answered as it must be, about a certificate once; a host is
\* trusted if the answer says so; and an index names the window it was given for
\* (AceWeb, and the wrappers of its events' objects).
THEOREM QuestionsAnswered == WebSpec => []QuestionsAgree
<1>1. QuestionInit => QuestionsAgree
  <2> SUFFICES ASSUME QuestionInit PROVE QuestionsAgree
    OBVIOUS
  <2>1. /\ kind \in Kinds /\ index = 0 /\ index \in 0 .. MaxIndexes
        /\ DOMAIN objectMap = {} /\ given = {} /\ shown = {} /\ useCredentials = {}
    BY QuestionAssumption DEF QuestionInit
  <2>2. popup \in [Popups -> AceWebWindowNewObject]
    BY DEF QuestionInit, AceWebWindowNewObject
  <2>3. question = [q \in Questions |-> [phase |-> "none", taken |-> {}, calls |-> 0, answer |-> "none"]]
    BY DEF QuestionInit
  <2>4. QuestionTypeOK
    BY <2>1, <2>2, <2>3 DEF QuestionTypeOK
  <2> QED BY <2>1, <2>3, <2>4 DEF QuestionsAgree, AnsweredOnce, TrustWasAnswered, AnswersAreCounted, IndexesName
<1>2. QuestionsAgree /\ [WebNext]_questionVars => QuestionsAgree'
  <2> SUFFICES ASSUME QuestionsAgree, [WebNext]_questionVars PROVE QuestionsAgree'
    OBVIOUS
  <2>1. CASE UNCHANGED questionVars
    BY <2>1 DEF questionVars, questions, windows, QuestionsAgree, QuestionTypeOK, AnsweredOnce,
                TrustWasAnswered, AnswersAreCounted, IndexesName, Ssl
  <2>2. CASE WebNext
    BY <2>2, QuestionStepKeeps, WindowStepKeeps DEF WebNext
  <2> QED BY <2>1, <2>2
<1> QED BY <1>1, <1>2, PTL DEF WebSpec

-----------------------------------------------------------------------------
(* WebDownload: items and what is told of them *)

\* A list of what was told: an end is told last, and what was received never shrinks.
OneEnd(s) ==
  /\ \A i \in DOMAIN s : s[i].state \in Ends => i = Len(s)
  /\ \A i, j \in DOMAIN s : i < j => s[i].received <= s[j].received

NoEnd(s) == \A i \in DOMAIN s : s[i].state \notin Ends

\* An item that is kept was told last, with no end before it.
Kept(it, s, step) ==
  it # Nothing =>
    /\ s # <<>> /\ it = Last(s) /\ it.received <= step /\ it.total \in {it.received, Total}
    /\ NoEnd(s)

LEMMA ItemOrNothing ==
  /\ \A it \in Item : it # Nothing /\ it.received \in Nat /\ it.total \in Nat /\ it.state \in States
  /\ \A b \in BOOLEAN : [isDownload |-> b] # Nothing /\ [isDownload |-> b] \in [isDownload : BOOLEAN]
  /\ Total \in Nat /\ MaxSteps \in Nat /\ Total = MaxSteps + 1
BY DownloadAssumption DEF Item, Total

LEMMA Updated ==
  \A it, new : \A state, total, received, percent :
    /\ it \in Item /\ state \in States /\ total \in Nat /\ received \in Nat /\ percent \in {"none", "some", "100"}
    /\ new = Set(it, state, total, received, percent)
    => new \in Item /\ new.state = state /\ new.total = total /\ new.received = received
<1> SUFFICES ASSUME NEW it \in Item, NEW state \in States, NEW total \in Nat, NEW received \in Nat,
                    NEW percent \in {"none", "some", "100"},
                    NEW new, new = Set(it, state, total, received, percent)
             PROVE  new \in Item /\ new.state = state /\ new.total = total /\ new.received = received
  OBVIOUS
<1> DEFINE first == [it EXCEPT !.state = state]
           second == [first EXCEPT !.total = total]
           third == [second EXCEPT !.received = received]
<1>1. first \in Item /\ first.state = state
  BY DEF Item
<1>2. new = [third EXCEPT !.percent = percent]
  BY DEF Set
<1> HIDE DEF first
<1>3. second \in Item /\ second.state = state /\ second.total = total
  BY <1>1 DEF Item
<1> HIDE DEF second
<1>4. third \in Item /\ third.state = state /\ third.total = total /\ third.received = received
  BY <1>3 DEF Item
<1> HIDE DEF third
<1> QED BY <1>2, <1>4 DEF Item

LEMMA StateTyped ==
  ASSUME NEW it \in Item, NEW state \in States
  PROVE  LET new == [it EXCEPT !.state = state] IN
         new \in Item /\ new.state = state /\ new.total = it.total /\ new.received = it.received
BY DEF Item

LEMMA ToldMore ==
  ASSUME NEW s \in Seq(Item), NoEnd(s), OneEnd(s), NEW it \in Item, s # <<>> => Last(s).received <= it.received
  PROVE  LET t == Append(s, it) IN
         /\ t \in Seq(Item) /\ t # <<>> /\ Last(t) = it /\ OneEnd(t)
         /\ it.state \notin Ends => NoEnd(t)
<1> DEFINE t == Append(s, it)
           n == Len(s)
<1>1. /\ n \in Nat /\ DOMAIN s = 1 .. n /\ (s = <<>> <=> n = 0)
      /\ \A i \in 1 .. n : s[i] \in Item /\ s[i].received \in Nat
  BY LenProperties, EmptySeq, ElementOfSeq, ItemOrNothing
<1>2. /\ t \in Seq(Item) /\ t # <<>> /\ Len(t) = n + 1 /\ t[n + 1] = it
      /\ \A i \in 1 .. n : t[i] = s[i]
  BY AppendProperties
<1>3. DOMAIN t = 1 .. n + 1 /\ Last(t) = it
  BY <1>2, LenProperties DEF Last
<1>4. it.received \in Nat
  BY ItemOrNothing
<1>5. \A i \in 1 .. n : s[i].received <= it.received
  <2> SUFFICES ASSUME NEW i \in 1 .. n PROVE s[i].received <= it.received
    OBVIOUS
  <2>1. s # <<>> /\ n \in 1 .. n /\ Last(s) = s[n]
    BY <1>1 DEF Last
  <2>2. s[i].received <= s[n].received
    BY <1>1, <2>1 DEF OneEnd
  <2> QED BY <1>1, <1>4, <2>1, <2>2
<1> HIDE DEF t, n
<1>6. OneEnd(t)
  <2>1. ASSUME NEW i \in DOMAIN t, t[i].state \in Ends PROVE i = Len(t)
    <3>1. i \notin 1 .. n
      BY <1>1, <1>2, <2>1 DEF NoEnd
    <3> QED BY <1>1, <1>2, <1>3, <2>1, <3>1
  <2>2. ASSUME NEW i \in DOMAIN t, NEW j \in DOMAIN t, i < j PROVE t[i].received <= t[j].received
    <3>1. i \in 1 .. n /\ (j \in 1 .. n \/ j = n + 1)
      BY <1>1, <1>3, <2>2
    <3>2. CASE j \in 1 .. n
      BY <1>1, <1>2, <2>2, <3>1, <3>2 DEF OneEnd
    <3>3. CASE j = n + 1
      BY <1>2, <1>5, <3>1, <3>3
    <3> QED BY <3>1, <3>2, <3>3
  <2> QED BY <2>1, <2>2 DEF OneEnd
<1>7. it.state \notin Ends => NoEnd(t)
  <2>1. \A i \in DOMAIN t : i \in 1 .. n \/ i = n + 1
    BY <1>1, <1>3
  <2> QED BY <1>1, <1>2, <2>1 DEF NoEnd
<1> QED BY <1>2, <1>3, <1>6, <1>7 DEF t

-----------------------------------------------------------------------------
(* WebDownload: one download *)

\* What the invariant says of one download.
DownloadAgrees(d) ==
  /\ d \in reported \cup leaving => task[d] \in {"finished", "failed", "cancelled"}
  /\ task[d] = "none" =>
       told[d] = <<>> /\ info[d] = Nothing /\ item[d] = Nothing /\ \A i \in DOMAIN queue : ~Of(i, d)
  /\ Kept(item[d], told[d], steps[d]) /\ OneEnd(told[d])
  /\ info[d] # Nothing /\ d \notin leaving =>
       /\ item[d] # Nothing /\ ~EndPosted(d)
       /\ task[d] \in {"suspended", "running"} \/ d \in reported
  /\ (info[d] = Nothing \/ d \in leaving) /\ item[d] # Nothing => EndPosted(d)

EachAgrees == DownloadTypeOK /\ PostedInOrder /\ \A d \in Downloads : DownloadAgrees(d)

LEMMA DownloadsOneByOne == DownloadsAgree <=> EachAgrees
<1> USE DEF EachAgrees
<1>1. DownloadsAgree => EachAgrees
  BY DEF DownloadsAgree, DownloadAgrees, BeginsOnce, KeptWasTold, KeptByBoth, ToldOneEnd, OneEnd, NoEnd, Kept
<1>2. ASSUME EachAgrees PROVE DownloadsAgree
  <2>1. BeginsOnce /\ KeptByBoth
    BY <1>2 DEF DownloadAgrees, BeginsOnce, KeptByBoth
  <2>2. KeptWasTold /\ ToldOneEnd
    BY <1>2 DEF DownloadAgrees, KeptWasTold, ToldOneEnd, OneEnd, NoEnd, Kept
  <2>3. TablesAgree
    <3>1. queue = <<>> => \A d \in Downloads : ~EndPosted(d)
      BY DEF EndPosted
    <3> QED BY <1>2, <3>1 DEF TablesAgree, DownloadAgrees
  <2> QED BY <1>2, <2>1, <2>2, <2>3 DEF DownloadsAgree
<1> QED BY <1>1, <1>2

\* An update of the item that is not its end.
LEMMA TellsAgrees ==
  ASSUME DownloadTypeOK, NEW d \in Downloads, Kept(item[d], told[d], steps[d]), OneEnd(told[d]),
         NEW state \in {"IN_PROGRESS", "PENDING", "PAUSED"}, NEW received \in Nat,
         NEW step \in Nat, steps[d] <= step,
         state = "IN_PROGRESS" /\ item[d] # Nothing => item[d].received <= received /\ received <= step,
         Tells(d, state, received)
  PROVE  /\ item' \in [Downloads -> Item \cup {Nothing}] /\ told' \in [Downloads -> Seq(Item)]
         /\ \A e \in Downloads \ {d} : item'[e] = item[e] /\ told'[e] = told[e]
         /\ Kept(item'[d], told'[d], step) /\ OneEnd(told'[d])
         /\ item[d] = Nothing => item'[d] = Nothing /\ told'[d] = told[d]
         /\ item[d] # Nothing => item'[d] # Nothing
         /\ item[d] # Nothing /\ state = "IN_PROGRESS" => item'[d].received = received
         /\ item[d] # Nothing /\ state # "IN_PROGRESS" => item'[d].received = item[d].received
<1>1. /\ item \in [Downloads -> Item \cup {Nothing}] /\ told \in [Downloads -> Seq(Item)]
      /\ steps[d] \in Nat
  BY ItemOrNothing DEF DownloadTypeOK
<1>2. CASE item[d] = Nothing
  BY <1>1, <1>2 DEF Tells, Kept
<1>3. CASE item[d] # Nothing
  <2> DEFINE new == IF state = "IN_PROGRESS" THEN Set(item[d], state, Total, received, "some")
                    ELSE [item[d] EXCEPT !.state = state]
  <2>1. item' = [item EXCEPT ![d] = new] /\ told' = [told EXCEPT ![d] = Append(@, new)]
    BY <1>3 DEF Tells
  <2>2. item[d] \in Item /\ item[d].received \in Nat /\ Total \in Nat
    BY <1>1, <1>3, ItemOrNothing
  <2>3. state \in States /\ state \notin Ends
    BY DEF States, Ends
  <2>6. /\ new \in Item /\ new.state = state
        /\ new.received = IF state = "IN_PROGRESS" THEN received ELSE item[d].received
        /\ new.total = IF state = "IN_PROGRESS" THEN Total ELSE item[d].total
    <3>1. CASE state = "IN_PROGRESS"
      <4>1. new = Set(item[d], state, Total, received, "some")
        BY <3>1
      <4>2. "some" \in {"none", "some", "100"}
        OBVIOUS
      <4> HIDE DEF new
      <4> QED BY <2>2, <2>3, <3>1, <4>1, <4>2, Updated
    <3>2. CASE state # "IN_PROGRESS"
      <4>1. new = [item[d] EXCEPT !.state = state]
        BY <3>2
      <4> HIDE DEF new
      <4> QED BY <2>2, <2>3, <3>2, <4>1, StateTyped
    <3> QED BY <3>1, <3>2
  <2> HIDE DEF new
  <2>7. told[d] # <<>> /\ item[d] = Last(told[d]) /\ NoEnd(told[d]) /\ item[d].received <= step
        /\ item[d].total \in {item[d].received, Total}
    BY <1>1, <1>3, <2>2 DEF Kept
  <2>8. Last(told[d]).received <= new.received /\ new.received <= step /\ new.total \in {new.received, Total}
    BY <1>3, <2>2, <2>6, <2>7
  <2>9. LET t == Append(told[d], new) IN
        t \in Seq(Item) /\ t # <<>> /\ Last(t) = new /\ OneEnd(t) /\ NoEnd(t)
    BY <1>1, <2>3, <2>6, <2>7, <2>8, ToldMore
  <2>10. new # Nothing
    BY <2>6, ItemOrNothing
  <2>11. item'[d] = new /\ told'[d] = Append(told[d], new)
    BY <1>1, <2>1
  <2>12. item' \in [Downloads -> Item \cup {Nothing}] /\ told' \in [Downloads -> Seq(Item)]
    BY <1>1, <2>1, <2>6, <2>9
  <2> QED BY <1>1, <1>3, <2>1, <2>6, <2>8, <2>9, <2>10, <2>11, <2>12 DEF Kept
<1> QED BY <1>2, <1>3

\* The end of the item.
LEMMA TellsEndAgrees ==
  ASSUME DownloadTypeOK, NEW d \in Downloads, Kept(item[d], told[d], steps[d]), OneEnd(told[d]),
         NEW state \in Ends, TellsEnd(d, state)
  PROVE  /\ item' \in [Downloads -> Item \cup {Nothing}] /\ told' \in [Downloads -> Seq(Item)]
         /\ \A e \in Downloads \ {d} : item'[e] = item[e] /\ told'[e] = told[e]
         /\ item'[d] = Nothing /\ OneEnd(told'[d])
<1>1. /\ item \in [Downloads -> Item \cup {Nothing}] /\ told \in [Downloads -> Seq(Item)]
      /\ steps[d] \in Nat /\ steps[d] <= MaxSteps
  BY ItemOrNothing DEF DownloadTypeOK
<1>2. CASE item[d] = Nothing
  BY <1>1, <1>2 DEF TellsEnd
<1>3. CASE item[d] # Nothing
  <2> DEFINE new == Ended(item[d], state)
  <2>1. item' = [item EXCEPT ![d] = Nothing] /\ told' = [told EXCEPT ![d] = Append(@, new)]
    BY <1>3 DEF TellsEnd
  <2>2. item[d] \in Item /\ item[d].received \in Nat /\ item[d].total \in Nat /\ Total \in Nat
    BY <1>1, <1>3, ItemOrNothing
  <2>3. state \in States
    BY DEF States
  <2>4. told[d] # <<>> /\ item[d] = Last(told[d]) /\ NoEnd(told[d]) /\ item[d].received <= steps[d]
        /\ item[d].total \in {item[d].received, Total}
    BY <1>3 DEF Kept
  <2>5. item[d].received <= item[d].total
    BY <1>1, <2>2, <2>4, ItemOrNothing
  <2>6. new \in Item /\ item[d].received <= new.received
    <3>1. CASE state = "COMPLETE"
      <4>1. new = Set(item[d], state, item[d].total, item[d].total, "100")
        BY <3>1 DEF Ended
      <4>3. "100" \in {"none", "some", "100"}
        OBVIOUS
      <4> HIDE DEF new
      <4>4. new \in Item /\ new.received = item[d].total
        BY <2>2, <2>3, <4>1, <4>3, Updated
      <4> QED BY <2>5, <4>4
    <3>2. CASE state # "COMPLETE"
      <4>1. new = [item[d] EXCEPT !.state = state]
        BY <3>2 DEF Ended
      <4> HIDE DEF new
      <4> QED BY <2>2, <2>3, <4>1, StateTyped
    <3> QED BY <3>1, <3>2
  <2> HIDE DEF new
  <2>7. LET t == Append(told[d], new) IN t \in Seq(Item) /\ OneEnd(t)
    BY <1>1, <2>4, <2>6, ToldMore
  <2> QED BY <1>1, <2>1, <2>7
<1> QED BY <1>2, <1>3

\* Nothing of another download changes.
LEMMA OtherAgrees ==
  ASSUME NEW d \in Downloads, DownloadAgrees(d), EndPosted(d)' <=> EndPosted(d),
         (\A i \in DOMAIN queue : ~Of(i, d)) => (\A i \in DOMAIN queue : ~Of(i, d))',
         task'[d] = task[d], info'[d] = info[d], item'[d] = item[d], told'[d] = told[d], steps'[d] = steps[d],
         d \in reported' <=> d \in reported, d \in leaving' <=> d \in leaving
  PROVE  DownloadAgrees(d)'
BY DEF DownloadAgrees, Kept, OneEnd, NoEnd

\* A step of one download that posts nothing.
LEMMA OneDownloadKeeps ==
  ASSUME DownloadsAgree, NEW d \in Downloads, queue' = queue, DownloadTypeOK', DownloadAgrees(d)',
         \A e \in Downloads \ {d} :
           /\ task'[e] = task[e] /\ info'[e] = info[e] /\ item'[e] = item[e] /\ told'[e] = told[e]
           /\ steps'[e] = steps[e] /\ (e \in reported' <=> e \in reported) /\ (e \in leaving' <=> e \in leaving),
         steps[d] <= steps'[d],
         item'[d] # Nothing => \/ item[d] # Nothing /\ item'[d].received = item[d].received
                              \/ \A i \in DOMAIN queue : ~Of(i, d)
  PROVE  DownloadsAgree'
<1>1. DownloadTypeOK /\ PostedInOrder /\ \A e \in Downloads : DownloadAgrees(e)
  BY DownloadsOneByOne DEF EachAgrees
<1>2. ASSUME NEW e \in Downloads \ {d} PROVE DownloadAgrees(e)'
  <2>1. /\ EndPosted(e)' <=> EndPosted(e)
        /\ (\A i \in DOMAIN queue : ~Of(i, e)) => (\A i \in DOMAIN queue : ~Of(i, e))'
    BY DEF EndPosted, Of
  <2> QED BY <1>1, <2>1, OtherAgrees
<1>3. PostedInOrder'
  <2> SUFFICES ASSUME NEW i \in DOMAIN queue, queue[i][2] = "IN_PROGRESS"
               PROVE  /\ queue[i][3] <= steps'[queue[i][1]]
                      /\ item'[queue[i][1]] # Nothing => item'[queue[i][1]].received <= queue[i][3]
                      /\ \A j \in DOMAIN queue :
                           i < j /\ queue[j][1] = queue[i][1] /\ queue[j][2] = "IN_PROGRESS"
                             => queue[i][3] <= queue[j][3]
    BY DEF PostedInOrder, Of
  <2>1. queue[i] \in Posted
    BY <1>1, ElementOfSeq, LenProperties DEF DownloadTypeOK
  <2>2. queue[i][1] \in Downloads /\ queue[i][3] \in Nat
    BY <2>1 DEF Posted
  <2> DEFINE e == queue[i][1]
  <2>3. /\ queue[i][3] <= steps[e]
        /\ item[e] # Nothing => item[e].received <= queue[i][3]
        /\ \A j \in DOMAIN queue :
             i < j /\ queue[j][1] = e /\ queue[j][2] = "IN_PROGRESS" => queue[i][3] <= queue[j][3]
    BY <1>1 DEF PostedInOrder, Of
  <2>4. steps[e] \in Nat /\ steps'[e] \in Nat /\ steps[e] <= steps'[e]
    <3>1. \A f \in Downloads : steps[f] \in 0 .. MaxSteps /\ steps'[f] \in 0 .. MaxSteps
      BY <1>1 DEF DownloadTypeOK
    <3>2. \A f \in Downloads : steps[f] \in Nat /\ steps'[f] \in Nat
      BY <3>1, ItemOrNothing
    <3>3. \A f \in Downloads : steps[f] <= steps'[f]
      BY <3>2
    <3> QED BY <2>2, <3>2, <3>3
  <2>5. item'[e] # Nothing => item[e] # Nothing /\ item'[e].received = item[e].received
    BY <2>2 DEF Of
  <2> QED BY <2>2, <2>3, <2>4, <2>5
<1>4. EachAgrees' => DownloadsAgree'
  BY DownloadsOneByOne, PTL
<1>5. (\A e \in Downloads : DownloadAgrees(e))'
  BY <1>2
<1> QED BY <1>3, <1>4, <1>5 DEF EachAgrees

\* The parts of the type invariant.
LEMMA DownloadTyped ==
  ASSUME DownloadsAgree
  PROVE  /\ task \in [Downloads -> {"none", "suspended", "running", "finished", "cancelled", "failed"}]
         /\ info \in [Downloads -> [isDownload : BOOLEAN] \cup {Nothing}]
         /\ item \in [Downloads -> Item \cup {Nothing}] /\ told \in [Downloads -> Seq(Item)]
         /\ queue \in Seq(Posted) /\ steps \in [Downloads -> 0 .. MaxSteps]
         /\ reported \subseteq Downloads /\ leaving \subseteq Downloads /\ asked \subseteq Downloads
         /\ \A d \in Downloads : DownloadAgrees(d) /\ steps[d] \in Nat
<1>1. \A d \in Downloads : steps[d] \in Nat
  <2>1. \A d \in Downloads : steps[d] \in 0 .. MaxSteps
    BY DEF DownloadsAgree, DownloadTypeOK
  <2> QED BY <2>1, ItemOrNothing
<1> QED BY <1>1, DownloadsOneByOne DEF EachAgrees, DownloadTypeOK

LEMMA Stepped ==
  ASSUME DownloadsAgree, NEW d \in Downloads, Step(d)
  PROVE  /\ steps' \in [Downloads -> 0 .. MaxSteps] /\ steps'[d] = steps[d] + 1 /\ steps[d] <= steps'[d]
         /\ \A e \in Downloads \ {d} : steps'[e] = steps[e]
<1>1. steps \in [Downloads -> 0 .. MaxSteps] /\ steps[d] \in Nat /\ MaxSteps \in Nat /\ steps[d] < MaxSteps
  BY DownloadTyped, ItemOrNothing DEF Step
<1>2. steps' = [steps EXCEPT ![d] = steps[d] + 1] /\ steps[d] + 1 \in 0 .. MaxSteps
  BY <1>1 DEF Step
<1> QED BY <1>1, <1>2

LEMMA StartDownloadKeeps ==
  ASSUME DownloadsAgree, NEW d \in Downloads, StartDownload(d)
  PROVE  DownloadsAgree'
<1> USE DownloadTyped
<1>1. /\ task[d] = "none" /\ told[d] = <<>> /\ info[d] = Nothing /\ item[d] = Nothing
      /\ \A i \in DOMAIN queue : ~Of(i, d)
      /\ d \notin reported \cup leaving
  BY DEF StartDownload, DownloadAgrees
<1>2. /\ task' = [task EXCEPT ![d] = "suspended"] /\ info' = [info EXCEPT ![d] = [isDownload |-> FALSE]]
      /\ item' = [item EXCEPT ![d] = NewItem] /\ told' = [told EXCEPT ![d] = Append(@, item'[d])]
      /\ UNCHANGED <<queue, asked, reported, leaving, steps>>
  BY DEF StartDownload
<1>3. NewItem \in Item /\ NewItem.state \notin Ends /\ NewItem.received = 0 /\ NewItem.total = 0
  BY DEF NewItem, Item, States, Ends
<1>4. LET t == Append(<<>>, NewItem) IN
      t \in Seq(Item) /\ t # <<>> /\ Last(t) = NewItem /\ OneEnd(t) /\ NoEnd(t)
  <2>1. <<>> \in Seq(Item) /\ NoEnd(<<>>) /\ OneEnd(<<>>)
    BY DEF NoEnd, OneEnd
  <2> QED BY <1>3, <2>1, ToldMore
<1>5. item'[d] = NewItem /\ told'[d] = Append(<<>>, NewItem)
  BY <1>1, <1>2
<1>6. DownloadTypeOK'
  BY <1>1, <1>2, <1>3, <1>4, <1>5, ItemOrNothing DEF DownloadTypeOK
<1>0. steps'[d] = steps[d] /\ steps[d] \in Nat /\ 0 <= steps[d] /\ steps[d] <= steps[d]
  BY <1>2
<1>7. Kept(item'[d], told'[d], steps'[d]) /\ OneEnd(told'[d])
  BY <1>0, <1>3, <1>4, <1>5 DEF Kept
<1>8. DownloadAgrees(d)'
  <2>1. ~EndPosted(d)'
    BY <1>1, <1>2 DEF EndPosted, Of
  <2>2. item'[d] # Nothing /\ info'[d] # Nothing /\ task'[d] = "suspended"
         /\ reported' = reported /\ leaving' = leaving
    BY <1>2, <1>3, <1>5, ItemOrNothing
  <2> QED BY <1>1, <1>7, <2>1, <2>2 DEF DownloadAgrees
<1>9. \A e \in Downloads \ {d} :
        /\ task'[e] = task[e] /\ info'[e] = info[e] /\ item'[e] = item[e] /\ told'[e] = told[e]
        /\ steps'[e] = steps[e] /\ (e \in reported' <=> e \in reported) /\ (e \in leaving' <=> e \in leaving)
  BY <1>2
<1> QED BY <1>0, <1>1, <1>2, <1>6, <1>8, <1>9, OneDownloadKeeps

\* A download that AceWeb has; its end may be posted.
LEMMA Known ==
  ASSUME DownloadsAgree, NEW d \in Downloads, info[d] # Nothing
  PROVE  /\ info[d] \in [isDownload : BOOLEAN] /\ task[d] # "none"
         /\ d \in reported \cup leaving => task[d] \in {"finished", "failed", "cancelled"}
         /\ Kept(item[d], told[d], steps[d]) /\ OneEnd(told[d])
         /\ d \notin leaving => item[d] # Nothing /\ ~EndPosted(d)
         /\ d \notin leaving => task[d] \in {"suspended", "running"} \/ d \in reported
         /\ d \in leaving /\ item[d] # Nothing => EndPosted(d)
BY DownloadTyped DEF DownloadAgrees

LEMMA HeldIsTold ==
  ASSUME DownloadsAgree, NEW d \in Downloads, info[d] # Nothing, Step(d),
         NEW state \in {"PAUSED", "PENDING"}, Tells(d, state, 0)
  PROVE  /\ item' \in [Downloads -> Item \cup {Nothing}] /\ told' \in [Downloads -> Seq(Item)]
         /\ \A e \in Downloads \ {d} : item'[e] = item[e] /\ told'[e] = told[e]
         /\ Kept(item'[d], told'[d], steps'[d]) /\ OneEnd(told'[d])
         /\ item'[d] = Nothing <=> item[d] = Nothing
         /\ item'[d] # Nothing => item'[d].received = item[d].received
<1>1. DownloadTypeOK
  BY DEF DownloadsAgree
<1>2. state \in {"IN_PROGRESS", "PENDING", "PAUSED"} /\ state # "IN_PROGRESS" /\ 0 \in Nat
  OBVIOUS
<1>3. Kept(item[d], told[d], steps[d]) /\ OneEnd(told[d])
  BY Known
<1>4. steps'[d] \in Nat /\ steps[d] <= steps'[d]
  BY Stepped, DownloadTyped
<1>5. PICK step \in Nat : step = steps'[d]
  BY <1>4
<1>6. steps[d] <= step
  BY <1>4, <1>5
<1>7. Kept(item'[d], told'[d], step) /\ OneEnd(told'[d])
  BY <1>1, <1>2, <1>3, <1>6, TellsAgrees
<1>8. item'[d] = Nothing <=> item[d] = Nothing
  BY <1>1, <1>2, <1>3, <1>6, TellsAgrees
<1>9. item'[d] # Nothing => item'[d].received = item[d].received
  BY <1>1, <1>2, <1>3, <1>6, TellsAgrees
<1>10. item' \in [Downloads -> Item \cup {Nothing}] /\ told' \in [Downloads -> Seq(Item)]
  BY <1>1, <1>2, <1>3, <1>6, TellsAgrees
<1>11. \A e \in Downloads \ {d} : item'[e] = item[e] /\ told'[e] = told[e]
  BY <1>1, <1>2, <1>3, <1>6, TellsAgrees
<1> QED BY <1>5, <1>7, <1>8, <1>9, <1>10, <1>11

\* A step of the application: the task is resumed or suspended if it can be, and the item
\* is told of or is not.
LEMMA HeldKeeps ==
  ASSUME DownloadsAgree, NEW d \in Downloads, info[d] # Nothing, Step(d),
         NEW b \in BOOLEAN, info' = [info EXCEPT ![d].isDownload = b],
         NEW from \in {"suspended", "running"}, NEW to \in {"suspended", "running"},
         task' = [task EXCEPT ![d] = IF @ = from THEN to ELSE @],
         UNCHANGED <<queue, asked, reported, leaving>>,
         (\E state \in {"PAUSED", "PENDING"} : Tells(d, state, 0)) \/ UNCHANGED <<item, told>>
  PROVE  DownloadsAgree'
<1> USE DownloadTyped, Known, Stepped
<1>1. info'[d] \in [isDownload : BOOLEAN] /\ info' \in [Downloads -> [isDownload : BOOLEAN] \cup {Nothing}]
      /\ \A e \in Downloads \ {d} : info'[e] = info[e]
  OBVIOUS
<1>2. /\ task' \in [Downloads -> {"none", "suspended", "running", "finished", "cancelled", "failed"}]
      /\ task'[d] # "none" /\ (task'[d] \in {"suspended", "running"} <=> task[d] \in {"suspended", "running"})
      /\ d \in reported \cup leaving => task'[d] \in {"finished", "failed", "cancelled"}
      /\ \A e \in Downloads \ {d} : task'[e] = task[e]
  OBVIOUS
<1>3. /\ item' \in [Downloads -> Item \cup {Nothing}] /\ told' \in [Downloads -> Seq(Item)]
      /\ \A e \in Downloads \ {d} : item'[e] = item[e] /\ told'[e] = told[e]
      /\ Kept(item'[d], told'[d], steps'[d]) /\ OneEnd(told'[d])
      /\ item'[d] = Nothing <=> item[d] = Nothing
      /\ item'[d] # Nothing => item'[d].received = item[d].received
  <2>1. DownloadTypeOK
    BY DEF DownloadsAgree
  <2>2. steps'[d] \in Nat
    OBVIOUS
  <2>3. ASSUME NEW state \in {"PAUSED", "PENDING"}, Tells(d, state, 0)
        PROVE  /\ item' \in [Downloads -> Item \cup {Nothing}] /\ told' \in [Downloads -> Seq(Item)]
               /\ \A e \in Downloads \ {d} : item'[e] = item[e] /\ told'[e] = told[e]
               /\ Kept(item'[d], told'[d], steps'[d]) /\ OneEnd(told'[d])
               /\ item'[d] = Nothing <=> item[d] = Nothing
               /\ item'[d] # Nothing => item'[d].received = item[d].received
    <3> HIDE DownloadTyped, Known, Stepped
    <3> QED BY <2>3, HeldIsTold
  <2>4. CASE UNCHANGED <<item, told>>
    <3>1. item[d] # Nothing => item[d].received \in Nat
      BY ItemOrNothing
    <3> QED BY <2>2, <2>4, <3>1 DEF Kept
  <2> QED BY <2>3, <2>4
<1>4. DownloadTypeOK'
  BY <1>1, <1>2, <1>3 DEF DownloadTypeOK
<1>5. DownloadAgrees(d)'
  <2>1. EndPosted(d)' <=> EndPosted(d)
    BY DEF EndPosted, Of
  <2>2. info'[d] # Nothing
    BY <1>1, DownloadAssumption
  <2> QED BY <1>2, <1>3, <2>1, <2>2 DEF DownloadAgrees
<1> QED BY <1>1, <1>2, <1>3, <1>4, <1>5, OneDownloadKeeps

LEMMA ApplicationKeeps ==
  ASSUME DownloadsAgree, NEW d \in Downloads,
         WebDownloadItemStart(d) \/ WebDownloadItemPause(d) \/ WebDownloadItemResume(d)
  PROVE  DownloadsAgree'
<1>1. CASE WebDownloadItemStart(d)
  <2>1. /\ info[d] # Nothing /\ Step(d) /\ info' = [info EXCEPT ![d].isDownload = TRUE]
        /\ task' = [task EXCEPT ![d] = IF @ = "suspended" THEN "running" ELSE @]
        /\ UNCHANGED <<queue, asked, reported, leaving>> /\ UNCHANGED <<item, told>>
    BY <1>1 DEF WebDownloadItemStart, Resumed
  <2> QED BY <2>1, HeldKeeps
<1>2. CASE WebDownloadItemPause(d)
  <2>1. /\ info[d] # Nothing /\ Step(d) /\ info' = [info EXCEPT ![d].isDownload = FALSE]
        /\ task' = [task EXCEPT ![d] = IF @ = "running" THEN "suspended" ELSE @]
        /\ UNCHANGED <<queue, asked, reported, leaving>> /\ Tells(d, "PAUSED", 0)
    BY <1>2 DEF WebDownloadItemPause
  <2> QED BY <2>1, HeldKeeps
<1>3. CASE WebDownloadItemResume(d)
  <2>1. /\ info[d] # Nothing /\ Step(d) /\ info' = [info EXCEPT ![d].isDownload = TRUE]
        /\ task' = [task EXCEPT ![d] = IF @ = "suspended" THEN "running" ELSE @]
        /\ UNCHANGED <<queue, asked, reported, leaving>> /\ Tells(d, "PENDING", 0)
    BY <1>3 DEF WebDownloadItemResume, Resumed
  <2> QED BY <2>1, HeldKeeps
<1> QED BY <1>1, <1>2, <1>3

LEMMA CancelKeeps ==
  ASSUME DownloadsAgree, NEW d \in Downloads, WebDownloadItemCancel(d)
  PROVE  DownloadsAgree'
<1>1. /\ task[d] # "none" /\ asked' = asked \cup {d} /\ UNCHANGED <<queue, leaving, steps>>
  BY DEF WebDownloadItemCancel
<1>2. /\ task' \in [Downloads -> {"none", "suspended", "running", "finished", "cancelled", "failed"}]
      /\ info' \in [Downloads -> [isDownload : BOOLEAN] \cup {Nothing}]
      /\ item' \in [Downloads -> Item \cup {Nothing}] /\ told' \in [Downloads -> Seq(Item)]
      /\ reported' \subseteq Downloads
      /\ \A e \in Downloads \ {d} :
           /\ task'[e] = task[e] /\ info'[e] = info[e] /\ item'[e] = item[e] /\ told'[e] = told[e]
           /\ (e \in reported' <=> e \in reported) /\ (e \in leaving' <=> e \in leaving)
      /\ task'[d] # "none" /\ info'[d] = Nothing /\ item'[d] = Nothing /\ OneEnd(told'[d])
      /\ d \in reported' \cup leaving' => task'[d] \in {"finished", "failed", "cancelled"}
  <2>1. CASE info[d] # Nothing
    <3>1. /\ info' = [info EXCEPT ![d] = Nothing]
          /\ task' = [task EXCEPT ![d] = IF task[d] \in {"suspended", "running"} THEN "cancelled" ELSE @]
          /\ reported' = IF task[d] \in {"suspended", "running"} THEN reported \cup {d} ELSE reported
          /\ TellsEnd(d, "CANCELED")
      BY <2>1 DEF WebDownloadItemCancel
    <3>2. /\ item' \in [Downloads -> Item \cup {Nothing}] /\ told' \in [Downloads -> Seq(Item)]
          /\ \A e \in Downloads \ {d} : item'[e] = item[e] /\ told'[e] = told[e]
          /\ item'[d] = Nothing /\ OneEnd(told'[d])
      <4>1. "CANCELED" \in Ends /\ DownloadTypeOK /\ Kept(item[d], told[d], steps[d]) /\ OneEnd(told[d])
        BY <2>1, Known DEF Ends, DownloadsAgree
      <4> QED BY <3>1, <4>1, TellsEndAgrees
    <3>3. /\ task' \in [Downloads -> {"none", "suspended", "running", "finished", "cancelled", "failed"}]
          /\ info' \in [Downloads -> [isDownload : BOOLEAN] \cup {Nothing}]
          /\ reported' \subseteq Downloads
          /\ \A e \in Downloads \ {d} :
               /\ task'[e] = task[e] /\ info'[e] = info[e]
               /\ (e \in reported' <=> e \in reported) /\ (e \in leaving' <=> e \in leaving)
      BY <1>1, <3>1, DownloadTyped
    <3>4. /\ task'[d] # "none" /\ info'[d] = Nothing
          /\ d \in reported' \cup leaving' => task'[d] \in {"finished", "failed", "cancelled"}
      BY <1>1, <2>1, <3>1, DownloadTyped, Known
    <3> QED BY <3>2, <3>3, <3>4
  <2>2. CASE info[d] = Nothing
    <3>1. item' = [item EXCEPT ![d] = Nothing] /\ UNCHANGED <<info, task, reported, told>>
      BY <2>2 DEF WebDownloadItemCancel
    <3> QED BY <1>1, <2>2, <3>1, DownloadTyped DEF DownloadAgrees
  <2> QED BY <2>1, <2>2
<1>3. DownloadTypeOK'
  BY <1>1, <1>2, DownloadTyped DEF DownloadTypeOK
<1>4. DownloadAgrees(d)'
  BY <1>2 DEF DownloadAgrees, Kept
<1>5. steps[d] <= steps'[d] /\ \A e \in Downloads : steps'[e] = steps[e]
  BY <1>1, DownloadTyped
<1> QED BY <1>1, <1>2, <1>3, <1>4, <1>5, OneDownloadKeeps

LEMMA DownloadKeeps ==
  ASSUME DownloadsAgree, NEW d \in Downloads, Download(d)
  PROVE  DownloadsAgree'
<1>1. PICK end \in {"finished", "failed"} : task' = [task EXCEPT ![d] = end]
  BY DEF Download
<1>2. /\ task[d] = "running" /\ reported' = reported \cup {d}
      /\ UNCHANGED <<info, item, queue, told, asked, leaving, steps>>
  BY DEF Download
<1>3. DownloadTypeOK'
  BY <1>1, <1>2, DownloadTyped DEF DownloadTypeOK
<1>4. task'[d] = end /\ \A e \in Downloads \ {d} : task'[e] = task[e] /\ (e \in reported' <=> e \in reported) /\ (e \in leaving' <=> e \in leaving)
  BY <1>1, <1>2, DownloadTyped
<1>5. DownloadAgrees(d)'
  <2>1. DownloadAgrees(d) /\ EndPosted(d)' = EndPosted(d)
    BY <1>2, DownloadTyped DEF EndPosted, Of
  <2> QED BY <1>2, <1>4, <2>1 DEF DownloadAgrees, Kept, OneEnd, NoEnd
<1>6. steps[d] <= steps'[d]
  BY <1>2, DownloadTyped
<1>7. item'[d] # Nothing => item[d] # Nothing /\ item'[d].received = item[d].received
  BY <1>2
<1> QED BY <1>2, <1>3, <1>4, <1>5, <1>6, <1>7, OneDownloadKeeps

-----------------------------------------------------------------------------
(* WebDownload: what is posted *)

LEMMA PostAppends ==
  ASSUME DownloadsAgree, NEW d \in Downloads, NEW state \in Ends \cup {"IN_PROGRESS"}, NEW received \in Nat,
         Post(d, state, received)
  PROVE  LET n == Len(queue) IN
         /\ n \in Nat /\ queue' \in Seq(Posted) /\ DOMAIN queue = 1 .. n /\ DOMAIN queue' = 1 .. n + 1
         /\ \A i \in 1 .. n : queue'[i] = queue[i] /\ queue[i][1] \in Downloads /\ queue[i][3] \in Nat
         /\ queue'[n + 1][1] = d /\ queue'[n + 1][2] = state /\ queue'[n + 1][3] = received
<1> DEFINE n == Len(queue)
           new == <<d, state, received>>
<1>1. queue \in Seq(Posted) /\ n \in Nat /\ DOMAIN queue = 1 .. n /\ \A i \in 1 .. n : queue[i] \in Posted
  BY DownloadTyped, LenProperties, ElementOfSeq
<1>2. new \in Posted /\ new[1] = d /\ new[2] = state /\ new[3] = received
  BY DEF Posted
<1>3. queue' = Append(queue, new)
  BY DEF Post
<1> HIDE DEF new
<1>4. /\ queue' \in Seq(Posted) /\ Len(queue') = n + 1 /\ queue'[n + 1] = new
      /\ \A i \in 1 .. n : queue'[i] = queue[i]
  BY <1>1, <1>2, <1>3, AppendProperties
<1>5. DOMAIN queue' = 1 .. n + 1
  BY <1>4, LenProperties
<1>6. \A i \in 1 .. n : queue[i][1] \in Downloads /\ queue[i][3] \in Nat
  BY <1>1 DEF Posted
<1> QED BY <1>1, <1>2, <1>4, <1>5, <1>6

\* The item of what was posted last is where it was; the order is kept.
LEMMA PostKeeps ==
  ASSUME DownloadsAgree, NEW d \in Downloads, NEW state \in Ends \cup {"IN_PROGRESS"}, NEW received \in Nat,
         Post(d, state, received), DownloadTypeOK', DownloadAgrees(d)', UNCHANGED <<item, told>>,
         \A e \in Downloads \ {d} :
           task'[e] = task[e] /\ info'[e] = info[e] /\ steps'[e] = steps[e] /\ (e \in reported' <=> e \in reported) /\ (e \in leaving' <=> e \in leaving),
         steps[d] <= steps'[d], state = "IN_PROGRESS" => received = steps'[d]
  PROVE  DownloadsAgree'
<1> DEFINE n == Len(queue)
<1>1. /\ n \in Nat /\ queue' \in Seq(Posted) /\ DOMAIN queue = 1 .. n /\ DOMAIN queue' = 1 .. n + 1
      /\ \A i \in 1 .. n : queue'[i] = queue[i] /\ queue[i][1] \in Downloads /\ queue[i][3] \in Nat
      /\ queue'[n + 1][1] = d /\ queue'[n + 1][2] = state /\ queue'[n + 1][3] = received
  BY PostAppends
<1> HIDE DEF n
<1>2. ASSUME NEW e \in Downloads \ {d} PROVE DownloadAgrees(e)'
  <2>1. \A i \in 1 .. n + 1 : i \in 1 .. n \/ i = n + 1
    BY <1>1
  <2>2. 1 .. n \subseteq 1 .. n + 1
    BY <1>1
  <2>3. EndPosted(e)' <=> EndPosted(e)
    BY <1>1, <2>1, <2>2 DEF EndPosted, Of
  <2>4. (\A i \in DOMAIN queue : ~Of(i, e)) => (\A i \in DOMAIN queue : ~Of(i, e))'
    BY <1>1, <2>1 DEF Of
  <2> QED BY <2>3, <2>4, OtherAgrees, DownloadTyped
<1>3. \A e \in Downloads : steps[e] \in Nat /\ steps'[e] \in Nat /\ steps[e] <= steps'[e]
  <2>1. \A e \in Downloads : steps'[e] \in 0 .. MaxSteps
    BY DEF DownloadTypeOK
  <2>2. \A e \in Downloads : steps[e] \in Nat /\ steps'[e] \in Nat
    BY <2>1, ItemOrNothing, DownloadTyped
  <2> QED BY <2>2
<1>4. \A e \in Downloads : item[e] # Nothing => item[e].received \in Nat /\ item[e].received <= steps[e]
  BY DownloadTyped, ItemOrNothing DEF DownloadAgrees, Kept
<1>5. PostedInOrder'
  <2> SUFFICES ASSUME NEW i \in 1 .. n + 1, queue'[i][2] = "IN_PROGRESS"
               PROVE  /\ queue'[i][3] <= steps'[queue'[i][1]]
                      /\ item[queue'[i][1]] # Nothing => item[queue'[i][1]].received <= queue'[i][3]
                      /\ \A j \in 1 .. n + 1 :
                           i < j /\ queue'[j][1] = queue'[i][1] /\ queue'[j][2] = "IN_PROGRESS"
                             => queue'[i][3] <= queue'[j][3]
    BY <1>1 DEF PostedInOrder, Of
  <2>1. CASE i = n + 1
    <3>1. queue'[i][1] = d /\ queue'[i][3] = steps'[d]
      BY <1>1, <2>1
    <3>2. item[d] # Nothing => item[d].received <= steps'[d]
      BY <1>3, <1>4
    <3>3. ~\E j \in 1 .. n + 1 : i < j
      BY <1>1, <2>1
    <3> QED BY <1>3, <3>1, <3>2, <3>3
  <2>2. CASE i # n + 1
    <3> DEFINE e == queue[i][1]
    <3>1. i \in 1 .. n /\ queue'[i] = queue[i] /\ e \in Downloads /\ queue[i][3] \in Nat
      BY <1>1, <2>2
    <3>2. /\ queue[i][3] <= steps[e]
          /\ item[e] # Nothing => item[e].received <= queue[i][3]
          /\ \A j \in 1 .. n :
               i < j /\ queue[j][1] = e /\ queue[j][2] = "IN_PROGRESS" => queue[i][3] <= queue[j][3]
      BY <1>1, <3>1 DEF DownloadsAgree, PostedInOrder, Of
    <3> HIDE DEF e
    <3>3. queue[i][3] <= steps'[e]
      BY <1>3, <3>1, <3>2
    <3>4. ASSUME NEW j \in 1 .. n + 1, i < j, queue'[j][1] = e, queue'[j][2] = "IN_PROGRESS"
          PROVE  queue[i][3] <= queue'[j][3]
      <4>1. CASE j = n + 1
        BY <1>1, <3>3, <3>4, <4>1
      <4>2. CASE j # n + 1
        <5>1. j \in 1 .. n
          BY <1>1, <4>2
        <5> QED BY <1>1, <3>2, <3>4, <5>1
      <4> QED BY <4>1, <4>2
    <3> QED BY <3>1, <3>2, <3>3, <3>4 DEF e
  <2> QED BY <2>1, <2>2
<1>6. (\A e \in Downloads : DownloadAgrees(e))'
  BY <1>2
<1>7. EachAgrees' => DownloadsAgree'
  BY DownloadsOneByOne, PTL
<1> QED BY <1>5, <1>6, <1>7 DEF EachAgrees

LEMMA DidWriteDataKeeps ==
  ASSUME DownloadsAgree, NEW d \in Downloads, DidWriteData(d)
  PROVE  DownloadsAgree'
<1>1. /\ info[d] # Nothing /\ d \notin leaving /\ Step(d) /\ Post(d, "IN_PROGRESS", steps'[d])
      /\ UNCHANGED <<task, info, item, told, asked, reported, leaving>>
  BY DEF DidWriteData
<1>2. /\ steps' \in [Downloads -> 0 .. MaxSteps] /\ steps[d] <= steps'[d] /\ steps'[d] \in Nat /\ steps[d] \in Nat
      /\ \A e \in Downloads \ {d} : steps'[e] = steps[e]
  BY <1>1, Stepped, DownloadTyped
<1>3. PICK step \in Nat : step = steps'[d]
  BY <1>2
<1>4. Post(d, "IN_PROGRESS", step) /\ "IN_PROGRESS" \in Ends \cup {"IN_PROGRESS"} /\ "IN_PROGRESS" \notin Ends
  BY <1>1, <1>3 DEF Ends
<1> DEFINE n == Len(queue)
<1>5. /\ n \in Nat /\ queue' \in Seq(Posted) /\ DOMAIN queue = 1 .. n /\ DOMAIN queue' = 1 .. n + 1
      /\ \A i \in 1 .. n : queue'[i] = queue[i]
      /\ queue'[n + 1][2] = "IN_PROGRESS"
  BY <1>4, PostAppends
<1> HIDE DEF n
<1>6. DownloadTypeOK'
  BY <1>1, <1>2, <1>5, DownloadTyped DEF DownloadTypeOK
<1>7. DownloadAgrees(d)'
  <2>1. ~EndPosted(d)'
    <3>1. \A i \in 1 .. n + 1 : i \in 1 .. n \/ i = n + 1
      BY <1>5
    <3>2. ~EndPosted(d)
      BY <1>1, Known
    <3> QED BY <1>4, <1>5, <3>1, <3>2 DEF EndPosted, Of
  <2>2. Kept(item[d], told[d], steps'[d])
    BY <1>2, DownloadTyped, ItemOrNothing DEF DownloadAgrees, Kept
  <2>3. OneEnd(told[d])
    BY DownloadTyped DEF DownloadAgrees
  <2>4. /\ info[d] # Nothing /\ item[d] # Nothing /\ task[d] # "none"
        /\ task[d] \in {"suspended", "running"} \/ d \in reported
        /\ d \in reported \cup leaving => task[d] \in {"finished", "failed", "cancelled"}
    BY <1>1, Known
  <2> QED BY <1>1, <2>1, <2>2, <2>3, <2>4 DEF DownloadAgrees
<1>8. \A e \in Downloads \ {d} :
        task'[e] = task[e] /\ info'[e] = info[e] /\ steps'[e] = steps[e] /\ (e \in reported' <=> e \in reported) /\ (e \in leaving' <=> e \in leaving)
  BY <1>1, <1>2
<1>9. UNCHANGED <<item, told>>
  BY <1>1
<1> QED BY <1>2, <1>3, <1>4, <1>6, <1>7, <1>8, <1>9, PostKeeps

LEMMA DidCompleteKeeps ==
  ASSUME DownloadsAgree, NEW d \in Downloads, DidComplete(d)
  PROVE  DownloadsAgree'
<1>1. /\ d \in reported /\ reported' = reported \ {d} /\ leaving = {} /\ leaving' = {d}
      /\ Post(d, EndOf(d), 0) /\ UNCHANGED <<task, info, item, told, asked, steps>>
  BY DEF DidComplete
<1>2. PICK end \in Ends : end = EndOf(d)
  BY DEF EndOf, Ends
<1>3. Post(d, end, 0) /\ end # "IN_PROGRESS" /\ end \in Ends \cup {"IN_PROGRESS"} /\ 0 \in Nat
  BY <1>1, <1>2 DEF Ends
<1> DEFINE n == Len(queue)
<1>4. /\ n \in Nat /\ queue' \in Seq(Posted) /\ DOMAIN queue' = 1 .. n + 1
      /\ queue'[n + 1][1] = d /\ queue'[n + 1][2] = end
  BY <1>3, PostAppends
<1> HIDE DEF n
<1>5. DownloadTypeOK'
  BY <1>1, <1>4, DownloadTyped DEF DownloadTypeOK
<1>6. DownloadAgrees(d)'
  <2>1. EndPosted(d)'
    <3>1. n + 1 \in DOMAIN queue'
      BY <1>4
    <3> QED BY <1>4, <3>1 DEF EndPosted, Of
  <2>2. d \in leaving' /\ task[d] \in {"finished", "failed", "cancelled"}
    BY <1>1, DownloadTyped DEF DownloadAgrees
  <2>3. Kept(item[d], told[d], steps[d]) /\ OneEnd(told[d])
    BY DownloadTyped DEF DownloadAgrees
  <2> QED BY <1>1, <2>1, <2>2, <2>3 DEF DownloadAgrees
<1>7. \A e \in Downloads \ {d} :
        task'[e] = task[e] /\ info'[e] = info[e] /\ steps'[e] = steps[e] /\ (e \in reported' <=> e \in reported) /\ (e \in leaving' <=> e \in leaving)
  BY <1>1, DownloadTyped
<1>8. steps[d] <= steps'[d] /\ UNCHANGED <<item, told>>
  BY <1>1, DownloadTyped
<1> QED BY <1>3, <1>5, <1>6, <1>7, <1>8, PostKeeps

\* What the bridge still has of a download that AceWeb forgets has its end posted.
LEMMA RemoveTaskKeeps ==
  ASSUME DownloadsAgree, NEW d \in Downloads, RemoveTask(d)
  PROVE  DownloadsAgree'
<1>1. /\ d \in leaving /\ leaving' = leaving \ {d} /\ info' = [info EXCEPT ![d] = Nothing]
      /\ UNCHANGED <<task, item, queue, told, asked, reported, steps>>
  BY DEF RemoveTask
<1>2. DownloadTypeOK'
  BY <1>1, DownloadTyped DEF DownloadTypeOK
<1>3. DownloadAgrees(d)'
  <2>1. DownloadAgrees(d) /\ EndPosted(d)' = EndPosted(d) /\ info'[d] = Nothing
    BY <1>1, DownloadTyped DEF EndPosted, Of
  <2> QED BY <1>1, <2>1 DEF DownloadAgrees, Kept, OneEnd, NoEnd
<1>4. \A e \in Downloads \ {d} :
        /\ task'[e] = task[e] /\ info'[e] = info[e] /\ item'[e] = item[e] /\ told'[e] = told[e]
        /\ steps'[e] = steps[e]
        /\ (e \in reported' <=> e \in reported) /\ (e \in leaving' <=> e \in leaving)
  BY <1>1, DownloadTyped
<1>5. steps[d] <= steps'[d] /\ item'[d] = item[d]
  BY <1>1, DownloadTyped
<1> QED BY <1>1, <1>2, <1>3, <1>4, <1>5, OneDownloadKeeps

\* The first of what was posted is told of, and the rest is as it was.
LEMMA RunPostedKeeps ==
  ASSUME DownloadsAgree, RunPosted
  PROVE  DownloadsAgree'
<1> DEFINE n == Len(queue)
           h == Head(queue)
<1>1. /\ queue \in Seq(Posted) /\ n \in Nat /\ n > 0 /\ DOMAIN queue = 1 .. n /\ h = queue[1]
      /\ \A i \in 1 .. n : queue[i] \in Posted
  <2>1. queue \in Seq(Posted) /\ queue # <<>>
    BY DownloadTyped DEF RunPosted
  <2>2. n \in Nat /\ n # 0 /\ DOMAIN queue = 1 .. n /\ \A i \in 1 .. n : queue[i] \in Posted
    BY <2>1, LenProperties, EmptySeq, ElementOfSeq
  <2> QED BY <2>1, <2>2
<1>2. /\ queue' \in Seq(Posted) /\ DOMAIN queue' = 1 .. n - 1 /\ \A i \in 1 .. n - 1 : queue'[i] = queue[i + 1]
  <2>1. queue' = Tail(queue) /\ queue # <<>>
    BY DEF RunPosted
  <2>2. queue' \in Seq(Posted) /\ Len(queue') = n - 1 /\ \A i \in 1 .. n - 1 : queue'[i] = queue[i + 1]
    BY <1>1, <2>1, HeadTailProperties
  <2> QED BY <2>2, LenProperties
<1>0. PICK d \in Downloads : d = h[1]
  BY <1>1 DEF Posted
<1>3. /\ IF h[2] \in Ends THEN TellsEnd(d, h[2]) ELSE Tells(d, h[2], h[3])
      /\ UNCHANGED <<task, info, asked, reported, leaving, steps>>
  BY <1>0 DEF RunPosted
<1> HIDE DEF n, h
<1>4. /\ 1 \in DOMAIN queue /\ d \in Downloads /\ h[2] \in Ends \cup {"IN_PROGRESS"} /\ h[3] \in Nat
      /\ \A i \in 1 .. n : queue[i][1] \in Downloads /\ queue[i][3] \in Nat
  BY <1>1 DEF Posted
<1>5. h[1] = d /\ d = queue[1][1]
  BY <1>1, <1>0
<1>6. DownloadTypeOK /\ PostedInOrder /\ DownloadAgrees(d) /\ steps[d] \in Nat
  BY <1>4, DownloadTyped DEF DownloadsAgree
<1>7. task[d] # "none"
  BY <1>4, <1>5, <1>6 DEF DownloadAgrees, Of
<1>8. /\ \A i \in 1 .. n - 1 : i + 1 \in 1 .. n
      /\ \A i \in 1 .. n : i = 1 \/ (i - 1 \in 1 .. n - 1 /\ queue[i] = queue'[i - 1])
  BY <1>1, <1>2
<1>9. ASSUME NEW e \in Downloads
      PROVE  /\ EndPosted(e)' => EndPosted(e)
             /\ EndPosted(e) => EndPosted(e)' \/ (e = d /\ h[2] \in Ends)
             /\ (\A i \in DOMAIN queue : ~Of(i, e)) => (\A i \in DOMAIN queue : ~Of(i, e))'
  <2>1. EndPosted(e)' => EndPosted(e)
    BY <1>1, <1>2, <1>8 DEF EndPosted, Of
  <2>2. ASSUME EndPosted(e) PROVE EndPosted(e)' \/ (e = d /\ h[2] \in Ends)
    <3>1. PICK i \in 1 .. n : queue[i][1] = e /\ queue[i][2] \in Ends
      BY <1>1, <2>2 DEF EndPosted, Of
    <3>2. CASE i = 1
      BY <1>1, <1>5, <3>1, <3>2
    <3>3. CASE i # 1
      <4>1. i - 1 \in DOMAIN queue' /\ queue'[i - 1] = queue[i]
        BY <1>2, <1>8, <3>3
      <4>2. \E j \in DOMAIN queue' : queue'[j][1] = e /\ queue'[j][2] \in Ends
        BY <3>1, <4>1
      <4> QED BY <4>2 DEF EndPosted, Of
    <3> QED BY <3>2, <3>3
  <2>3. (\A i \in DOMAIN queue : ~Of(i, e)) => (\A i \in DOMAIN queue : ~Of(i, e))'
    <3>1. \A i \in DOMAIN queue' : i + 1 \in DOMAIN queue /\ queue'[i] = queue[i + 1]
      BY <1>1, <1>2, <1>8
    <3> QED BY <3>1 DEF Of
  <2> QED BY <2>1, <2>2, <2>3
<1>10. /\ h[2] = "IN_PROGRESS" =>
            /\ h[3] <= steps[d] /\ (item[d] # Nothing => item[d].received <= h[3])
            /\ \A j \in 1 .. n : 1 < j /\ queue[j][1] = d /\ queue[j][2] = "IN_PROGRESS" => h[3] <= queue[j][3]
  BY <1>1, <1>4, <1>5, <1>6 DEF PostedInOrder, Of
<1>11. /\ item' \in [Downloads -> Item \cup {Nothing}] /\ told' \in [Downloads -> Seq(Item)]
       /\ \A e \in Downloads \ {d} : item'[e] = item[e] /\ told'[e] = told[e]
       /\ OneEnd(told'[d]) /\ Kept(item'[d], told'[d], steps[d])
       /\ h[2] \in Ends => item'[d] = Nothing
       /\ h[2] \notin Ends => (item'[d] = Nothing <=> item[d] = Nothing)
       /\ item'[d] # Nothing => h[2] = "IN_PROGRESS" /\ item'[d].received = h[3]
  <2>1. Kept(item[d], told[d], steps[d]) /\ OneEnd(told[d])
    BY <1>6 DEF DownloadAgrees
  <2>2. CASE h[2] \in Ends
    <3>1. TellsEnd(d, h[2])
      BY <1>3, <2>2
    <3>2. /\ item' \in [Downloads -> Item \cup {Nothing}] /\ told' \in [Downloads -> Seq(Item)]
          /\ \A e \in Downloads \ {d} : item'[e] = item[e] /\ told'[e] = told[e]
          /\ item'[d] = Nothing /\ OneEnd(told'[d])
      BY <1>4, <1>6, <2>1, <2>2, <3>1, TellsEndAgrees
    <3> QED BY <2>2, <3>2 DEF Kept
  <2>3. CASE h[2] \notin Ends
    <3>1. h[2] = "IN_PROGRESS" /\ Tells(d, "IN_PROGRESS", h[3])
      BY <1>3, <1>4, <2>3
    <3>2. PICK received \in Nat : received = h[3]
      BY <1>4
    <3>3. PICK step \in Nat : step = steps[d]
      BY <1>6
    <3>4. /\ "IN_PROGRESS" \in {"IN_PROGRESS", "PENDING", "PAUSED"} /\ Tells(d, "IN_PROGRESS", received)
          /\ steps[d] <= step /\ (item[d] # Nothing => item[d].received <= received /\ received <= step)
      BY <1>6, <1>10, <3>1, <3>2, <3>3
    <3>5. /\ item' \in [Downloads -> Item \cup {Nothing}] /\ told' \in [Downloads -> Seq(Item)]
          /\ \A e \in Downloads \ {d} : item'[e] = item[e] /\ told'[e] = told[e]
      BY <1>4, <1>6, <2>1, <3>4, TellsAgrees
    <3>6. Kept(item'[d], told'[d], step) /\ OneEnd(told'[d])
      BY <1>4, <1>6, <2>1, <3>4, TellsAgrees
    <3>7. /\ item[d] = Nothing => item'[d] = Nothing
          /\ item[d] # Nothing => item'[d] # Nothing
      BY <1>4, <1>6, <2>1, <3>4, TellsAgrees
    <3>8. item[d] # Nothing => item'[d].received = received
      BY <1>4, <1>6, <2>1, <3>4, TellsAgrees
    <3> QED BY <2>3, <3>1, <3>2, <3>3, <3>5, <3>6, <3>7, <3>8
  <2> QED BY <2>2, <2>3
<1>12. DownloadTypeOK'
  BY <1>2, <1>3, <1>11, DownloadTyped DEF DownloadTypeOK
<1>13. ASSUME NEW e \in Downloads \ {d} PROVE DownloadAgrees(e)'
  <2>1. EndPosted(e)' <=> EndPosted(e)
    BY <1>9
  <2> QED BY <1>3, <1>9, <1>11, <2>1, OtherAgrees, DownloadTyped
<1>14. DownloadAgrees(d)'
  <2>1. CASE h[2] \in Ends
    <3>1. EndPosted(d)
      BY <1>1, <1>4, <1>5, <2>1 DEF EndPosted, Of
    <3>2. (info[d] = Nothing \/ d \in leaving) /\ item'[d] = Nothing
      BY <1>6, <1>11, <2>1, <3>1 DEF DownloadAgrees
    <3> QED BY <1>3, <1>6, <1>7, <1>11, <3>2 DEF DownloadAgrees
  <2>2. CASE h[2] \notin Ends
    <3>1. EndPosted(d)' <=> EndPosted(d)
      BY <1>4, <1>9, <2>2
    <3>2. item'[d] = Nothing <=> item[d] = Nothing
      BY <1>11, <2>2
    <3> QED BY <1>3, <1>6, <1>7, <1>11, <3>1, <3>2 DEF DownloadAgrees
  <2> QED BY <2>1, <2>2
<1>15. PostedInOrder'
  <2> SUFFICES ASSUME NEW i \in 1 .. n - 1, queue'[i][2] = "IN_PROGRESS"
               PROVE  /\ queue'[i][3] <= steps[queue'[i][1]]
                      /\ item'[queue'[i][1]] # Nothing => item'[queue'[i][1]].received <= queue'[i][3]
                      /\ \A j \in 1 .. n - 1 :
                           i < j /\ queue'[j][1] = queue'[i][1] /\ queue'[j][2] = "IN_PROGRESS"
                             => queue'[i][3] <= queue'[j][3]
    BY <1>2, <1>3 DEF PostedInOrder, Of
  <2> DEFINE k == i + 1
             e == queue[k][1]
  <2>1. k \in 1 .. n /\ 1 < k /\ queue'[i] = queue[k] /\ e \in Downloads
    BY <1>1, <1>2, <1>4, <1>8
  <2>2. /\ queue[k][3] <= steps[e]
        /\ item[e] # Nothing => item[e].received <= queue[k][3]
        /\ \A j \in 1 .. n :
             k < j /\ queue[j][1] = e /\ queue[j][2] = "IN_PROGRESS" => queue[k][3] <= queue[j][3]
    BY <1>1, <1>6, <2>1 DEF PostedInOrder, Of
  <2>3. item'[e] # Nothing => item'[e].received <= queue[k][3]
    <3>1. CASE e = d
      BY <1>10, <1>11, <2>1, <3>1
    <3>2. CASE e # d
      BY <1>11, <2>1, <2>2, <3>2
    <3> QED BY <3>1, <3>2
  <2>4. ASSUME NEW j \in 1 .. n - 1, i < j, queue'[j][1] = e, queue'[j][2] = "IN_PROGRESS"
        PROVE  queue[k][3] <= queue'[j][3]
    <3>1. k < j + 1
      BY <1>1, <2>4
    <3>2. j + 1 \in 1 .. n /\ queue'[j] = queue[j + 1]
      BY <1>2, <1>8
    <3> QED BY <2>2, <2>4, <3>1, <3>2
  <2> HIDE DEF k
  <2> QED BY <2>1, <2>2, <2>3, <2>4
<1>16. (\A e \in Downloads : DownloadAgrees(e))'
  BY <1>13, <1>14
<1>17. EachAgrees' => DownloadsAgree'
  BY DownloadsOneByOne, PTL
<1> QED BY <1>12, <1>15, <1>16, <1>17 DEF EachAgrees

\* However a download is paused, resumed and cancelled while its data and its end are on
\* their way, the application is told of one end and of nothing after it; and what AceWeb
\* keeps (downloadTasksDic) the bridge keeps (webDownloadImplMap), until the end is posted,
\* after which either may forget it first.
THEOREM OneEndTold == DownloadSpec => []DownloadsAgree
<1>1. DownloadInit => DownloadsAgree
  <2> SUFFICES ASSUME DownloadInit PROVE EachAgrees
    BY DownloadsOneByOne
  <2>1. /\ task = [d \in Downloads |-> "none"] /\ info = [d \in Downloads |-> Nothing]
        /\ item = [d \in Downloads |-> Nothing] /\ steps = [d \in Downloads |-> 0]
        /\ asked = {} /\ reported = {} /\ leaving = {}
    BY DEF DownloadInit
  <2>2. told = [d \in Downloads |-> <<>>] /\ told \in [Downloads -> Seq(Item)]
    BY DEF DownloadInit
  <2>3. queue \in Seq(Posted) /\ DOMAIN queue = {}
    BY DEF DownloadInit
  <2>4. 0 \in 0 .. MaxSteps
    BY ItemOrNothing
  <2>5. DownloadTypeOK
    BY <2>1, <2>2, <2>3, <2>4 DEF DownloadTypeOK
  <2>6. PostedInOrder
    BY <2>3 DEF PostedInOrder
  <2>7. \A d \in Downloads : DownloadAgrees(d)
    <3>1. OneEnd(<<>>)
      BY DEF OneEnd
    <3> QED BY <2>1, <2>2, <2>3, <3>1 DEF DownloadAgrees, Kept, EndPosted
  <2> QED BY <2>5, <2>6, <2>7 DEF EachAgrees
<1>2. DownloadsAgree /\ [DownloadNext]_downloadVars => DownloadsAgree'
  <2> SUFFICES ASSUME DownloadsAgree, [DownloadNext]_downloadVars PROVE DownloadsAgree'
    OBVIOUS
  <2>1. CASE UNCHANGED downloadVars
    BY <2>1 DEF downloadVars, DownloadsAgree, DownloadTypeOK, BeginsOnce, KeptWasTold, PostedInOrder,
                KeptByBoth, ToldOneEnd, TablesAgree, EndPosted, Of
  <2>2. CASE DownloadNext
    BY <2>2, RunPostedKeeps, StartDownloadKeeps, ApplicationKeeps, CancelKeeps, DidWriteDataKeeps,
       DownloadKeeps, DidCompleteKeeps, RemoveTaskKeeps DEF DownloadNext
  <2> QED BY <2>1, <2>2
<1> QED BY <1>1, <1>2, PTL DEF DownloadSpec

-----------------------------------------------------------------------------
(* AceVideo: what each handler leaves behind *)

\* What the invariant says of a video, released or not, but for its player's silence.
Loose(w, gone) ==
  /\ w \in Video
  /\ w.state = "STARTED" => ~w.hidden
  /\ w.observed = IF w.item = 0 \/ gone THEN {} ELSE {w.item}
  /\ w.isAddedLisenten = (w.item # 0 /\ ~gone)

\* And with it.
Sound(w, gone) == Loose(w, gone) /\ (~w.isAutoPlay /\ w.rate => w.state \in {"STARTED", "PREPARED"})

LEMMA SeekSound ==
  ASSUME NEW gone \in BOOLEAN, NEW w, Sound(w, gone), NEW s \in Seek \cup {NoSeek}
  PROVE  Sound([w EXCEPT !.seek = s], gone)
BY DEF Sound, Loose, Video

LEMMA AtEndSound ==
  ASSUME NEW gone \in BOOLEAN, NEW w, Sound(w, gone), NEW s \in BOOLEAN
  PROVE  Sound([w EXCEPT !.atEnd = s], gone)
BY DEF Sound, Loose, Video

LEMMA StateSound ==
  ASSUME NEW gone \in BOOLEAN, NEW w, Sound(w, gone), NEW s \in PlayState,
         ~w.isAutoPlay /\ w.rate => s \in {"STARTED", "PREPARED"}, s # "STARTED"
  PROVE  Sound([w EXCEPT !.state = s], gone)
BY DEF Sound, Loose, Video

LEMMA RateSound ==
  ASSUME NEW gone \in BOOLEAN, NEW w, Sound(w, gone), NEW r \in BOOLEAN,
         r => w.rate \/ w.isAutoPlay \/ w.state = "STARTED"
  PROVE  Sound([w EXCEPT !.rate = r], gone)
BY DEF Sound, Loose, Video

LEMMA HiddenSound ==
  ASSUME NEW gone \in BOOLEAN, NEW w, Sound(w, gone), NEW h \in BOOLEAN, h => w.state # "STARTED"
  PROVE  Sound([w EXCEPT !.hidden = h], gone)
BY DEF Sound, Loose, Video

LEMMA StartedSound ==
  ASSUME NEW gone \in BOOLEAN, NEW w, Sound(w, gone)
  PROVE  Sound(Started(w), gone)
BY DEF Sound, Loose, Video, Started, PlayState

LEMMA SettingsSound ==
  ASSUME NEW gone \in BOOLEAN, NEW w, Sound(w, gone), NEW b \in BOOLEAN
  PROVE  /\ Sound([w EXCEPT !.isLoop = b], gone)
         /\ Sound([w EXCEPT !.showFirstFrame = b], gone)
         /\ Sound([w EXCEPT !.seekedAfterPrepare = b], gone)
         /\ Sound([w EXCEPT !.backgroundPause = b], gone)
         /\ Sound([w EXCEPT !.ready = b], gone)
         /\ \A src \in Sources \cup {NoSource} : Sound([w EXCEPT !.rawSrc = src], gone)
<1>1. Sound([w EXCEPT !.isLoop = b], gone)
  BY DEF Sound, Loose, Video
<1>2. Sound([w EXCEPT !.showFirstFrame = b], gone)
  BY DEF Sound, Loose, Video
<1>3. Sound([w EXCEPT !.seekedAfterPrepare = b], gone)
  BY DEF Sound, Loose, Video
<1>4. Sound([w EXCEPT !.backgroundPause = b], gone)
  BY DEF Sound, Loose, Video
<1>5. Sound([w EXCEPT !.ready = b], gone)
  BY DEF Sound, Loose, Video
<1>6. ASSUME NEW src \in Sources \cup {NoSource} PROVE Sound([w EXCEPT !.rawSrc = src], gone)
  BY DEF Sound, Loose, Video
<1> QED BY <1>1, <1>2, <1>3, <1>4, <1>5, <1>6

LEMMA PlayerSeekSound ==
  ASSUME NEW gone \in BOOLEAN, NEW w, Sound(w, gone), NEW then \in {"start", "report", "prepared"}, NEW end \in BOOLEAN
  PROVE  Sound(PlayerSeek(w, then, end), gone)
<1>1. [then |-> then, end |-> end] \in Seek \cup {NoSeek}
  BY DEF Seek
<1> QED BY <1>1, SeekSound DEF PlayerSeek

LEMMA SeekToSound ==
  ASSUME NEW gone \in BOOLEAN, NEW w, Sound(w, gone), NEW end \in BOOLEAN
  PROVE  Sound(SeekTo(w, end), gone)
<1> DEFINE b == w.seekedAfterPrepare \/ w.state = "PREPARED"
           v == [w EXCEPT !.seekedAfterPrepare = b]
<1>1. b \in BOOLEAN
  OBVIOUS
<1>2. SeekTo(w, end) \in {w, PlayerSeek(v, "report", end)}
  BY DEF SeekTo
<1> HIDE DEF b
<1>3. Sound(v, gone)
  BY <1>1, SettingsSound
<1> HIDE DEF v
<1> QED BY <1>2, <1>3, PlayerSeekSound

LEMMA StartPlaySound ==
  ASSUME NEW gone \in BOOLEAN, NEW w, Sound(w, gone)
  PROVE  Sound(StartPlay(w), gone)
<1>1. StartPlay(w) \in {PlayerSeek(w, "start", FALSE), Started(w), Started(SeekTo(w, FALSE))}
  BY DEF StartPlay
<1>2. Sound(PlayerSeek(w, "start", FALSE), gone)
  BY PlayerSeekSound
<1>3. Sound(Started(w), gone)
  BY StartedSound
<1>4. Sound(Started(SeekTo(w, FALSE)), gone)
  BY SeekToSound, StartedSound
<1> QED BY <1>1, <1>2, <1>3, <1>4

LEMMA PauseSound ==
  ASSUME NEW gone \in BOOLEAN, NEW w, Sound(w, gone)
  PROVE  /\ Sound(Pause(w), gone) /\ Pause(w).item = w.item /\ Pause(w).observed = w.observed
         /\ Pause(w).isAddedLisenten = w.isAddedLisenten
<1> DEFINE r == [w EXCEPT !.rate = FALSE]
           p == [r EXCEPT !.state = "PAUSED"]
<1>0. Sound(r, gone)
  BY RateSound
<1>1. Sound(r, gone) /\ r.rate = FALSE
  BY <1>0 DEF Sound, Loose, Video
<1>2. Pause(w) \in {w, p}
  BY DEF Pause
<1> HIDE DEF r
<1>3. Sound(p, gone)
  BY <1>1, StateSound DEF PlayState
<1>4. p.item = w.item /\ p.observed = w.observed /\ p.isAddedLisenten = w.isAddedLisenten
  BY DEF r, Sound, Video
<1> QED BY <1>2, <1>3, <1>4

LEMMA LooseFields ==
  ASSUME NEW gone \in BOOLEAN, NEW w, Loose(w, gone), NEW b \in BOOLEAN, NEW c \in BOOLEAN
  PROVE  /\ Loose([w EXCEPT !.isAutoPlay = b, !.isLoop = c], gone)
         /\ [w EXCEPT !.isAutoPlay = b, !.isLoop = c].item = w.item
         /\ Loose([w EXCEPT !.ready = b, !.atEnd = c], gone)
         /\ Loose([w EXCEPT !.seek = NoSeek], gone)
<1> DEFINE plays == [w EXCEPT !.isAutoPlay = b, !.isLoop = c]
           ready == [w EXCEPT !.ready = b, !.atEnd = c]
           sought == [w EXCEPT !.seek = NoSeek]
<1>1. w \in Video
  BY DEF Loose
<1>2. plays \in Video /\ ready \in Video /\ sought \in Video
  <2>1. plays \in Video
    BY <1>1 DEF Video
  <2>2. ready \in Video
    BY <1>1 DEF Video
  <2>3. sought \in Video
    BY <1>1 DEF Video
  <2> QED BY <2>1, <2>2, <2>3
<1>3. \A v \in {plays, ready, sought} :
        /\ v.state = w.state /\ v.hidden = w.hidden /\ v.observed = w.observed
        /\ v.item = w.item /\ v.isAddedLisenten = w.isAddedLisenten
  BY <1>1 DEF Video
<1> HIDE DEF plays, ready, sought
<1>4. Loose(plays, gone) /\ Loose(ready, gone) /\ Loose(sought, gone)
  BY <1>2, <1>3 DEF Loose
<1> QED BY <1>3, <1>4 DEF plays, ready, sought

LEMMA UpdatePalyerItemSound ==
  ASSUME NEW w, Loose(w, FALSE), w.item < MaxItems
  PROVE  LET u == UpdatePalyerItem(w) IN
         Loose(u, FALSE) /\ u.isAutoPlay = w.isAutoPlay /\ u.rate = w.rate /\ u.state = w.state
<1> DEFINE i == w.item + 1
           x == [w EXCEPT !.ready = FALSE, !.atEnd = FALSE]
           v == [x EXCEPT !.seek = NoSeek]
           u == [v EXCEPT !.item = i, !.observed = {i}, !.isAddedLisenten = TRUE]
<1>1. i \in 0 .. MaxItems /\ i \in 1 .. MaxItems /\ i # 0 /\ {i} \in SUBSET (1 .. MaxItems)
  BY VideoAssumption DEF Loose, Video
<1>2. (IF w.item # 0 /\ w.isAddedLisenten THEN w.observed \ {w.item} ELSE w.observed) \cup {i} = {i}
  BY DEF Loose
<1>3. UpdatePalyerItem(w) = u
  BY <1>2 DEF UpdatePalyerItem, Loose, Video
<1>4. Loose(v, FALSE)
  <2>1. Loose(x, FALSE)
    BY LooseFields
  <2> HIDE DEF x
  <2> QED BY <2>1, LooseFields
<1>5. v.isAutoPlay = w.isAutoPlay /\ v.rate = w.rate /\ v.state = w.state
  BY DEF Loose, Video
<1> HIDE DEF i, v
<1>6. Loose(u, FALSE)
  BY <1>1, <1>4 DEF Loose, Video
<1>7. u.isAutoPlay = v.isAutoPlay /\ u.rate = v.rate /\ u.state = v.state
  BY <1>4 DEF Loose, Video
<1> QED BY <1>3, <1>5, <1>6, <1>7

LEMMA SetPrepareSound ==
  ASSUME NEW gone \in BOOLEAN, NEW w, Sound(w, gone), NEW known \in BOOLEAN
  PROVE  Sound(SetPrepare(w, known), gone)
<1> DEFINE p == [w EXCEPT !.state = "PREPARED"]
<1>1. Sound(p, gone)
  BY StateSound DEF PlayState
<1>2. SetPrepare(w, known) \in {p, StartPlay(p)}
  BY DEF SetPrepare
<1> HIDE DEF p
<1> QED BY <1>1, <1>2, StartPlaySound

LEMMA VisibilitySound ==
  ASSUME NEW gone \in BOOLEAN, NEW w, Sound(w, gone)
  PROVE  Sound(UpdateFirstFrameVisibility(w), gone)
<1> DEFINE h == ~w.showFirstFrame
<1>1. h \in BOOLEAN
  OBVIOUS
<1> HIDE DEF h
<1>2. CASE w.state = "PREPARED" /\ ~w.isTexture /\ w.surface = "layer"
  <2>1. Sound([w EXCEPT !.hidden = h], gone)
    BY <1>1, <1>2, HiddenSound
  <2> QED BY <1>2, <2>1 DEF UpdateFirstFrameVisibility, h
<1>3. CASE ~(w.state = "PREPARED" /\ ~w.isTexture /\ w.surface = "layer")
  BY <1>3 DEF UpdateFirstFrameVisibility
<1> QED BY <1>2, <1>3

LEMMA SameSourceResetSound ==
  ASSUME NEW gone \in BOOLEAN, NEW w, Sound(w, gone)
  PROVE  Sound(SameSourceReset(w), gone)
<1> DEFINE r == [w EXCEPT !.rate = FALSE]
           p == [r EXCEPT !.state = "PREPARED"]
           q == [p EXCEPT !.seekedAfterPrepare = FALSE]
<1>1. SameSourceReset(w) \in {q, PlayerSeek(q, "prepared", FALSE)}
  BY DEF SameSourceReset
<1>2. Sound(r, gone)
  BY RateSound
<1> HIDE DEF r
<1>3. Sound(p, gone)
  BY <1>2, StateSound DEF PlayState
<1> HIDE DEF p
<1>4. Sound(q, gone)
  BY <1>3, SettingsSound
<1> HIDE DEF q
<1> QED BY <1>1, <1>4, PlayerSeekSound

-----------------------------------------------------------------------------
(* AceVideo: steps *)

LEMMA VideoSound ==
  VideoAgrees <=> Sound(video, released) /\ refresh \in BOOLEAN /\ released \in BOOLEAN /\ wanted \in BOOLEAN
BY DEF VideoAgrees, VideoTypeOK, SilentUnlessStarted, StartedIsVisible, ObservesCurrentItem, Sound, Loose

LEMMA VideoSoundPrime ==
  ASSUME NEW gone \in BOOLEAN, released' = gone, Sound(video', gone), refresh' \in BOOLEAN, wanted' \in BOOLEAN
  PROVE  VideoAgrees'
BY DEF VideoAgrees, VideoTypeOK, SilentUnlessStarted, StartedIsVisible, ObservesCurrentItem, Sound, Loose

LEMMA SourceKeeps ==
  ASSUME VideoAgrees, NEW src \in Sources,
         InitMediaPlayer(src) \/ SetUpdateResource(src)
  PROVE  VideoAgrees'
<1> DEFINE named == [video EXCEPT !.rawSrc = src]
<1>1. released = FALSE /\ released' = released
  BY VideoSound DEF InitMediaPlayer, SetUpdateResource
<1>2. Sound(video, FALSE) /\ refresh \in BOOLEAN /\ wanted \in BOOLEAN
  BY <1>1, VideoSound
<1>3. Sound(named, FALSE) /\ named.item = video.item
  <2>1. Sound(named, FALSE)
    BY <1>2, SettingsSound
  <2> QED BY <1>2, <2>1 DEF Sound, Loose, Video
<1> HIDE DEF named
<1>4. ASSUME InitMediaPlayer(src) PROVE VideoAgrees'
  <2>1. CASE src \in BadSources
    <3>1. video' = named /\ UNCHANGED <<refresh, wanted>>
      BY <1>4, <2>1 DEF InitMediaPlayer, named
    <3> QED BY <1>1, <1>2, <1>3, <3>1, VideoSoundPrime
  <2>2. CASE src \notin BadSources
    <3>1. PICK autoplay \in BOOLEAN, loop \in BOOLEAN, known \in BOOLEAN :
            /\ video' = SetPrepare(UpdatePalyerItem([named EXCEPT !.isAutoPlay = autoplay, !.isLoop = loop]),
                                   known)
            /\ refresh' = (refresh \/ known) /\ wanted' = (autoplay /\ known)
      BY <1>4, <2>2 DEF InitMediaPlayer, named
    <3> DEFINE t == [named EXCEPT !.isAutoPlay = autoplay, !.isLoop = loop]
               u == UpdatePalyerItem(t)
    <3> DEFINE p == [u EXCEPT !.state = "PREPARED"]
    <3>2. Loose(t, FALSE) /\ t.item < MaxItems
      <4>1. video.item < MaxItems
        BY <1>4, <2>2 DEF InitMediaPlayer
      <4> QED BY <1>3, <4>1, LooseFields DEF Sound
    <3> HIDE DEF t
    <3>3. Loose(u, FALSE)
      BY <3>2, UpdatePalyerItemSound
    <3> HIDE DEF u
    <3>5. Sound(p, FALSE)
      BY <3>3 DEF Sound, Loose, Video, PlayState
    <3>4. SetPrepare(u, known) \in {p, StartPlay(p)}
      BY DEF SetPrepare
    <3> HIDE DEF p
    <3>6. Sound(SetPrepare(u, known), FALSE)
      BY <3>4, <3>5, StartPlaySound
    <3>7. video' = SetPrepare(u, known)
      BY <3>1 DEF t, u
    <3>8. wanted' \in BOOLEAN /\ refresh' \in BOOLEAN
      BY <1>2, <3>1
    <3> QED BY <1>1, <3>6, <3>7, <3>8, VideoSoundPrime
  <2> QED BY <2>1, <2>2
<1>5. ASSUME SetUpdateResource(src) PROVE VideoAgrees'
  <2>1. CASE src = video.rawSrc /\ video.item # 0
    <3>1. /\ video' = SameSourceReset(video) /\ refresh' = (refresh \/ ~video.showFirstFrame)
          /\ wanted' = FALSE
      BY <1>5, <2>1 DEF SetUpdateResource
    <3> QED BY <1>1, <1>2, <3>1, SameSourceResetSound, VideoSoundPrime
  <2>2. CASE ~(src = video.rawSrc /\ video.item # 0) /\ src \in BadSources
    <3>1. video' = named /\ UNCHANGED <<refresh, wanted>>
      BY <1>5, <2>2 DEF SetUpdateResource, named
    <3> QED BY <1>1, <1>2, <1>3, <3>1, VideoSoundPrime
  <2>3. CASE ~(src = video.rawSrc /\ video.item # 0) /\ src \notin BadSources
    <3> DEFINE t == IF video.item = 0 THEN named ELSE Pause(named)
    <3>1. video.item < MaxItems /\ video' = UpdatePalyerItem(t) /\ wanted' = FALSE /\ UNCHANGED refresh
      BY <1>5, <2>3 DEF SetUpdateResource, named
    <3>2. Sound(t, FALSE) /\ t.item < MaxItems
      BY <1>3, <3>1, PauseSound
    <3> HIDE DEF t
    <3>3. Sound(UpdatePalyerItem(t), FALSE)
      BY <3>2, UpdatePalyerItemSound DEF Sound
    <3> QED BY <1>1, <1>2, <3>1, <3>3, VideoSoundPrime
  <2> QED BY <2>1, <2>2, <2>3
<1> QED BY <1>4, <1>5

\* The steps of a video that has not been released: what is left to say of each is
\* what it makes of the video.
LEMMA Unreleased ==
  ASSUME VideoAgrees, ~released
  PROVE  /\ released = FALSE /\ Sound(video, FALSE) /\ refresh \in BOOLEAN /\ wanted \in BOOLEAN
         /\ video.state \in PlayState /\ video.seek \in Seek \cup {NoSeek}
<1>1. released = FALSE
  BY VideoSound
<1>2. Sound(video, FALSE) /\ refresh \in BOOLEAN /\ wanted \in BOOLEAN
  BY <1>1, VideoSound
<1> QED BY <1>1, <1>2 DEF Sound, Loose, Video

LEMMA PlaysKeep ==
  ASSUME VideoAgrees, Start \/ PauseCall \/ StopCall \/ UpdateSpeed
  PROVE  VideoAgrees'
<1>0. ~released
  BY DEF Start, PauseCall, StopCall, UpdateSpeed, HasPlayer
<1>1. /\ released = FALSE /\ Sound(video, FALSE) /\ refresh \in BOOLEAN /\ wanted \in BOOLEAN
  BY <1>0, Unreleased
<1>2. CASE Start
  <2>1. Sound(video', FALSE)
    BY <1>1, <1>2, StartPlaySound DEF Start
  <2>8. released' = FALSE /\ refresh' \in BOOLEAN /\ wanted' \in BOOLEAN
    BY <1>1, <1>2 DEF Start, HasPlayer
  <2> QED BY <2>1, <2>8, VideoSoundPrime
<1>3. CASE PauseCall
  <2>1. Sound(video', FALSE)
    BY <1>1, <1>3, PauseSound DEF PauseCall
  <2>8. released' = FALSE /\ refresh' \in BOOLEAN /\ wanted' \in BOOLEAN
    BY <1>1, <1>3 DEF PauseCall, HasPlayer
  <2> QED BY <2>1, <2>8, VideoSoundPrime
<1>4. CASE StopCall
  <2> DEFINE r == [video EXCEPT !.rate = FALSE]
  <2>1. Sound(r, FALSE) /\ r.rate = FALSE
    <3>1. Sound(r, FALSE)
      BY <1>1, RateSound
    <3> QED BY <1>1, <3>1 DEF Sound, Loose, Video
  <2>2. video' = [r EXCEPT !.state = "STOPPED"]
    BY <1>4 DEF StopCall
  <2> HIDE DEF r
  <2>3. Sound(video', FALSE)
    BY <2>1, <2>2, StateSound DEF PlayState
  <2>8. released' = FALSE /\ refresh' \in BOOLEAN /\ wanted' \in BOOLEAN
    BY <1>1, <1>4 DEF StopCall, HasPlayer
  <2> QED BY <2>3, <2>8, VideoSoundPrime
<1>5. CASE UpdateSpeed
  <2>1. video.rate \/ video.isAutoPlay \/ video.state = "STARTED"
    BY <1>5 DEF UpdateSpeed, TimeControlPlaying
  <2>2. Sound([video EXCEPT !.rate = TRUE], FALSE)
    BY <1>1, <2>1, RateSound
  <2>8. released' = FALSE /\ refresh' \in BOOLEAN /\ wanted' \in BOOLEAN
    BY <1>1, <1>5 DEF UpdateSpeed, HasPlayer
  <2>3. video' = [video EXCEPT !.rate = TRUE]
    BY <1>5 DEF UpdateSpeed
  <2>4. Sound(video', FALSE)
    BY <2>2, <2>3
  <2> QED BY <2>4, <2>8, VideoSoundPrime
<1> QED BY <1>2, <1>3, <1>4, <1>5

LEMMA SurfaceSound ==
  ASSUME NEW w, Sound(w, FALSE)
  PROVE  /\ Sound([w EXCEPT !.surface = "layer"], FALSE)
         /\ Sound([w EXCEPT !.surface = "texture", !.isTexture = TRUE, !.hidden = FALSE], FALSE)
<1>1. Sound([w EXCEPT !.surface = "layer"], FALSE)
  BY DEF Sound, Loose, Video
<1> DEFINE v == [w EXCEPT !.hidden = FALSE]
<1>2. Sound(v, FALSE)
  BY HiddenSound
<1>3. [w EXCEPT !.surface = "texture", !.isTexture = TRUE, !.hidden = FALSE]
        = [v EXCEPT !.surface = "texture", !.isTexture = TRUE]
  BY DEF Sound, Loose, Video
<1> HIDE DEF v
<1>4. Sound([v EXCEPT !.surface = "texture", !.isTexture = TRUE], FALSE)
  <2> DEFINE x == [v EXCEPT !.surface = "texture"]
  <2>1. Sound(x, FALSE)
    BY <1>2 DEF Sound, Loose, Video
  <2>2. [v EXCEPT !.surface = "texture", !.isTexture = TRUE] = [x EXCEPT !.isTexture = TRUE]
    BY <1>2 DEF Sound, Loose, Video
  <2> HIDE DEF x
  <2> DEFINE y == [x EXCEPT !.isTexture = TRUE]
  <2>3. Sound(y, FALSE)
    <3>1. y \in Video
      BY <2>1 DEF Sound, Loose, Video
    <3>2. /\ y.observed = x.observed /\ y.isAddedLisenten = x.isAddedLisenten /\ y.state = x.state
          /\ y.hidden = x.hidden /\ y.isAutoPlay = x.isAutoPlay /\ y.rate = x.rate /\ y.item = x.item
      BY <2>1 DEF Sound, Loose, Video
    <3> HIDE DEF y
    <3> QED BY <2>1, <3>1, <3>2 DEF Sound, Loose
  <2> QED BY <2>2, <2>3
<1> QED BY <1>1, <1>3, <1>4

LEMMA SettingsKeep ==
  ASSUME VideoAgrees, NEW b \in BOOLEAN,
         SeekToCall(b) \/ EnableLooping(b) \/ SetSurface(b) \/ SetRenderFirstFrame(b)
  PROVE  VideoAgrees'
<1>0. ~released
  BY DEF SeekToCall, EnableLooping, SetSurface, SetRenderFirstFrame, HasPlayer
<1>1. released = FALSE /\ Sound(video, FALSE) /\ refresh \in BOOLEAN /\ wanted \in BOOLEAN
  BY <1>0, Unreleased
<1>2. CASE SeekToCall(b)
  <2>1. Sound(video', FALSE)
    BY <1>1, <1>2, SeekToSound DEF SeekToCall
  <2>8. released' = FALSE /\ refresh' \in BOOLEAN /\ wanted' \in BOOLEAN
    BY <1>1, <1>2 DEF SeekToCall, HasPlayer
  <2> QED BY <2>1, <2>8, VideoSoundPrime
<1>3. CASE EnableLooping(b)
  <2>1. Sound(video', FALSE)
    BY <1>1, <1>3, SettingsSound DEF EnableLooping
  <2>8. released' = FALSE /\ refresh' \in BOOLEAN /\ wanted' \in BOOLEAN
    BY <1>1, <1>3 DEF EnableLooping, HasPlayer
  <2> QED BY <2>1, <2>8, VideoSoundPrime
<1>4. CASE SetSurface(b)
  <2>1. Sound(UpdateFirstFrameVisibility([video EXCEPT !.surface = "layer"]), FALSE)
    <3> DEFINE l == [video EXCEPT !.surface = "layer"]
    <3>1. Sound(l, FALSE)
      BY <1>1, SurfaceSound
    <3> HIDE DEF l
    <3>2. Sound(UpdateFirstFrameVisibility(l), FALSE)
      BY <3>1, VisibilitySound
    <3> QED BY <3>2 DEF l
  <2>2. Sound([video EXCEPT !.surface = "texture", !.isTexture = TRUE, !.hidden = FALSE], FALSE)
    BY <1>1, SurfaceSound
  <2>3. Sound(video', FALSE)
    BY <1>4, <2>1, <2>2 DEF SetSurface
  <2>8. released' = FALSE /\ refresh' \in BOOLEAN /\ wanted' \in BOOLEAN
    BY <1>1, <1>4 DEF SetSurface, HasPlayer
  <2> QED BY <2>3, <2>8, VideoSoundPrime
<1>5. CASE SetRenderFirstFrame(b)
  <2> DEFINE s == [video EXCEPT !.showFirstFrame = b]
  <2>1. Sound(s, FALSE)
    BY <1>1, SettingsSound
  <2>2. video' = UpdateFirstFrameVisibility(s)
    BY <1>5 DEF SetRenderFirstFrame
  <2> HIDE DEF s
  <2>3. Sound(video', FALSE)
    BY <2>1, <2>2, VisibilitySound
  <2>8. released' = FALSE /\ refresh' \in BOOLEAN /\ wanted' \in BOOLEAN
    BY <1>1, <1>5 DEF SetRenderFirstFrame, HasPlayer
  <2> QED BY <2>3, <2>8, VideoSoundPrime
<1> QED BY <1>2, <1>3, <1>4, <1>5

LEMMA PlayerKeeps ==
  ASSUME VideoAgrees, ItemReady \/ SeekDone \/ PlayOn \/ PlayDidEnd \/ RefreshFirstFrame
  PROVE  VideoAgrees'
<1>0. ~released
  BY DEF ItemReady, SeekDone, PlayOn, PlayDidEnd, RefreshFirstFrame, HasPlayer
<1>1. /\ released = FALSE /\ Sound(video, FALSE) /\ refresh \in BOOLEAN /\ wanted \in BOOLEAN
      /\ video.seek \in Seek \cup {NoSeek} /\ video.isLoop \in BOOLEAN /\ video.isAutoPlay \in BOOLEAN
  BY <1>0, Unreleased DEF Sound, Loose, Video
<1>2. CASE ItemReady
  <2> DEFINE r == [video EXCEPT !.ready = TRUE]
  <2>1. Sound(r, FALSE)
    BY <1>1, SettingsSound
  <2>2. PICK known \in BOOLEAN : /\ video' = SetPrepare(r, known) /\ refresh' = (refresh \/ known)
                                 /\ wanted' = (wanted \/ (known /\ video.isAutoPlay))
    BY <1>2 DEF ItemReady
  <2> HIDE DEF r
  <2>3. Sound(video', FALSE)
    BY <2>1, <2>2, SetPrepareSound
  <2>8. released' = FALSE /\ refresh' \in BOOLEAN /\ wanted' \in BOOLEAN
    BY <1>1, <1>2, <2>2 DEF ItemReady
  <2> QED BY <2>3, <2>8, VideoSoundPrime
<1>3. CASE SeekDone
  <2> DEFINE e == video.seek.end
             n == [video EXCEPT !.seek = NoSeek]
             done == [n EXCEPT !.atEnd = e]
  <2>1. video.seek \in Seek /\ e \in BOOLEAN
    BY <1>1, <1>3 DEF SeekDone, Seek
  <2>2. video' \in {Started(done), [done EXCEPT !.hidden = FALSE], done}
    BY <1>3 DEF SeekDone
  <2>3. released' = FALSE /\ refresh' \in BOOLEAN /\ wanted' \in BOOLEAN
    BY <1>1, <1>3 DEF SeekDone
  <2>4. Sound(n, FALSE)
    BY <1>1, SeekSound
  <2> HIDE DEF e, n
  <2>5. Sound(done, FALSE)
    BY <2>1, <2>4, AtEndSound
  <2> HIDE DEF done
  <2>6. Sound(Started(done), FALSE) /\ Sound([done EXCEPT !.hidden = FALSE], FALSE)
    BY <2>5, StartedSound, HiddenSound
  <2>7. Sound(video', FALSE)
    BY <2>2, <2>5, <2>6
  <2> QED BY <2>3, <2>7, VideoSoundPrime
<1>4. CASE PlayOn
  <2>1. Sound(video', FALSE)
    BY <1>1, <1>4, AtEndSound DEF PlayOn
  <2>8. released' = FALSE /\ refresh' \in BOOLEAN /\ wanted' \in BOOLEAN
    BY <1>1, <1>4 DEF PlayOn, HasPlayer
  <2> QED BY <2>1, <2>8, VideoSoundPrime
<1>5. CASE PlayDidEnd
  <2> DEFINE ended == [video EXCEPT !.rate = FALSE]
  <2>1. Sound(ended, FALSE) /\ ended.rate = FALSE
    <3>1. Sound(ended, FALSE)
      BY <1>1, RateSound
    <3> QED BY <1>1, <3>1 DEF Sound, Loose, Video
  <2>2. video' \in {Replay(ended), [ended EXCEPT !.state = "PLAYBACK_COMPLETE"]}
    BY <1>5 DEF PlayDidEnd
  <2> HIDE DEF ended
  <2>3. Sound(Replay(ended), FALSE)
    BY <2>1, SeekToSound, StartPlaySound DEF Replay
  <2>4. Sound([ended EXCEPT !.state = "PLAYBACK_COMPLETE"], FALSE)
    BY <2>1, StateSound DEF PlayState
  <2>5. Sound(video', FALSE)
    BY <2>2, <2>3, <2>4
  <2>8. released' = FALSE /\ refresh' \in BOOLEAN /\ wanted' \in BOOLEAN
    BY <1>1, <1>5 DEF PlayDidEnd, HasPlayer
  <2> QED BY <2>5, <2>8, VideoSoundPrime
<1>6. CASE RefreshFirstFrame
  <2>1. Sound(video', FALSE)
    BY <1>1, <1>6, VisibilitySound DEF RefreshFirstFrame
  <2>8. released' = FALSE /\ refresh' \in BOOLEAN /\ wanted' \in BOOLEAN
    BY <1>1, <1>6 DEF RefreshFirstFrame, HasPlayer
  <2> QED BY <2>1, <2>8, VideoSoundPrime
<1> QED BY <1>2, <1>3, <1>4, <1>5, <1>6

LEMMA ActivityKeeps ==
  ASSUME VideoAgrees, OnActivityPause \/ OnActivityResume
  PROVE  VideoAgrees'
<1>0. ~released
  BY DEF OnActivityPause, OnActivityResume, HasPlayer
<1>1. released = FALSE /\ Sound(video, FALSE) /\ refresh \in BOOLEAN /\ wanted \in BOOLEAN
  BY <1>0, Unreleased
<1> DEFINE p == Pause(video)
           s == StartPlay(video)
<1>2. Sound(p, FALSE) /\ Sound(s, FALSE)
  BY <1>1, PauseSound, StartPlaySound
<1>3. CASE OnActivityPause
  <2>1. video' = [p EXCEPT !.backgroundPause = TRUE]
    BY <1>3 DEF OnActivityPause
  <2> HIDE DEF p
  <2>2. Sound(video', FALSE)
    BY <1>2, <2>1, SettingsSound
  <2>8. released' = FALSE /\ refresh' \in BOOLEAN /\ wanted' \in BOOLEAN
    BY <1>1, <1>3 DEF OnActivityPause, HasPlayer
  <2> QED BY <2>2, <2>8, VideoSoundPrime
<1>4. CASE OnActivityResume
  <2>1. video' = [s EXCEPT !.backgroundPause = FALSE]
    BY <1>4 DEF OnActivityResume
  <2> HIDE DEF s
  <2>2. Sound(video', FALSE)
    BY <1>2, <2>1, SettingsSound
  <2>8. released' = FALSE /\ refresh' \in BOOLEAN /\ wanted' \in BOOLEAN
    BY <1>1, <1>4 DEF OnActivityResume, HasPlayer
  <2> QED BY <2>2, <2>8, VideoSoundPrime
<1> QED BY <1>3, <1>4

\* What releaseObject makes of a video: no item is observed any more.
LEMMA ReleasedSound ==
  ASSUME NEW w, Sound(w, FALSE)
  PROVE  Sound([w EXCEPT !.observed = IF w.item # 0 /\ w.isAddedLisenten THEN @ \ {w.item} ELSE @,
                         !.isAddedLisenten = @ /\ w.item = 0, !.rawSrc = NoSource], TRUE)
<1>1. /\ (IF w.item # 0 /\ w.isAddedLisenten THEN w.observed \ {w.item} ELSE w.observed) = {}
      /\ (w.isAddedLisenten /\ w.item = 0) = FALSE
  BY DEF Sound, Loose, Video
<1> DEFINE v == [w EXCEPT !.rawSrc = NoSource]
           u == [v EXCEPT !.observed = {}, !.isAddedLisenten = FALSE]
<1>2. [w EXCEPT !.observed = IF w.item # 0 /\ w.isAddedLisenten THEN @ \ {w.item} ELSE @,
                !.isAddedLisenten = @ /\ w.item = 0, !.rawSrc = NoSource] = u
  BY <1>1 DEF Sound, Loose, Video
<1>3. Sound(v, FALSE)
  BY SettingsSound
<1> HIDE DEF v
<1>4. Sound(u, TRUE)
  <2>1. u \in Video
    BY <1>3 DEF Sound, Loose, Video
  <2>2. /\ u.observed = {} /\ u.isAddedLisenten = FALSE /\ u.state = v.state /\ u.hidden = v.hidden
        /\ u.isAutoPlay = v.isAutoPlay /\ u.rate = v.rate
    BY <1>3 DEF Sound, Loose, Video
  <2> HIDE DEF u
  <2> QED BY <1>3, <2>1, <2>2 DEF Sound, Loose
<1> QED BY <1>2, <1>4

LEMMA ReleaseKeeps ==
  ASSUME VideoAgrees, ReleaseObject
  PROVE  VideoAgrees'
<1>0. ~released /\ released' = TRUE /\ wanted' = FALSE /\ UNCHANGED refresh
  BY DEF ReleaseObject
<1>1. Sound(video, FALSE) /\ refresh \in BOOLEAN
  BY <1>0, Unreleased
<1>2. PICK playing \in TimeControlPlaying(video) :
        LET w == IF playing THEN Pause(video) ELSE video IN
        video' = [w EXCEPT !.observed = IF w.item # 0 /\ w.isAddedLisenten THEN @ \ {w.item} ELSE @,
                           !.isAddedLisenten = @ /\ w.item = 0, !.rawSrc = NoSource]
  BY DEF ReleaseObject
<1> DEFINE w == IF playing THEN Pause(video) ELSE video
<1>3. video' = [w EXCEPT !.observed = IF w.item # 0 /\ w.isAddedLisenten THEN @ \ {w.item} ELSE @,
                         !.isAddedLisenten = @ /\ w.item = 0, !.rawSrc = NoSource]
  BY <1>2
<1>4. Sound(w, FALSE)
  BY <1>1, PauseSound
<1> HIDE DEF w
<1>5. Sound(video', TRUE)
  BY <1>3, <1>4, ReleasedSound
<1> QED BY <1>0, <1>1, <1>5, VideoSoundPrime

\* A video's player runs only while the video is STARTED or PREPARED, unless it is
\* set to autoplay; a first-frame block that comes late never hides a video that has
\* been started meanwhile; and the video observes its current item and no other, and
\* none once released, so that no item is freed observed and no observer is removed
\* twice (AceVideo.mm): whatever ArkUI calls between the player's callbacks, the main
\* queue's block and the application's going to the background, for any sources and
\* any number of items.
THEOREM VideoSafe == VideoSpec => []VideoAgrees
<1>1. VideoInit => VideoAgrees
  <2> SUFFICES ASSUME VideoInit PROVE VideoAgrees
    OBVIOUS
  <2>1. Sound(video, FALSE)
    <3>1. video \in Video
      BY VideoAssumption DEF VideoInit, Video, PlayState
    <3> QED BY <3>1 DEF VideoInit, Sound, Loose
  <2> QED BY <2>1, VideoSound DEF VideoInit
<1>2. VideoAgrees /\ [VideoNext]_videoVars => VideoAgrees'
  <2> SUFFICES ASSUME VideoAgrees, [VideoNext]_videoVars PROVE VideoAgrees'
    OBVIOUS
  <2>1. CASE UNCHANGED videoVars
    BY <2>1 DEF videoVars, VideoAgrees, VideoTypeOK, SilentUnlessStarted, StartedIsVisible, ObservesCurrentItem
  <2>2. CASE Calls
    BY <2>2, SourceKeeps, PlaysKeep, SettingsKeep DEF Calls
  <2>3. CASE Events
    BY <2>3, PlayerKeeps, ActivityKeeps, ReleaseKeeps DEF Events
  <2> QED BY <2>1, <2>2, <2>3 DEF VideoNext
<1> QED BY <1>1, <1>2, PTL DEF VideoSpec
-----------------------------------------------------------------------------
(* ContainerResources *)

\* What a worker is making.
Making == {workers[w][1] : w \in {x \in Workers : workers[x] # Idle}}

ResourcesTypeOK ==
  /\ container = [alive |-> container.alive, themed |-> container.themed, config |-> container.config,
                  localColor |-> container.localColor, record |-> container.record]
  /\ container.alive \in BOOLEAN /\ container.themed \in BOOLEAN
  /\ DOMAIN workers = Workers

\* A module whose adapter may yet be cached is on its way to be recorded, or was when the
\* container was destroyed.
PendingKnown ==
  /\ container.alive => Making \subseteq container.record \cup tasks \cup {Default, Own}
  /\ ~container.alive => Making \subseteq racing
  /\ ~container.alive /\ ~container.themed => {Default, Own} \subseteq racing

ResourcesInv == ResourcesTypeOK /\ PendingKnown /\ AdaptersReleased /\ AdaptersKnown

LEMMA WithAll ==
  ASSUME NEW adapters, NEW modules, NEW m
  PROVE  DOMAIN With(adapters, modules, m) = modules \cup DOMAIN adapters
BY DEF With

\* No adapter is cached but by the theme, on the UI thread or by a worker, and each of these
\* is known before or as it is; Destroy lets go of what is known, and what is still to come
\* was being made or recorded then (ReleaseResourceAdapter, RecordResAdapter).
LEMMA ResourcesKeep ==
  ASSUME ResourcesInv, [Next]_vars
  PROVE  ResourcesInv'
<1> USE DEF ResourcesInv, ResourcesTypeOK, PendingKnown, AdaptersReleased, AdaptersKnown
<1>1. CASE UNCHANGED vars
  BY <1>1 DEF vars, Making
<1>2. CASE LoadTheme
  <2>1. DOMAIN cache' = {Default, Own} \cup DOMAIN cache
    BY <1>2, WithAll DEF LoadTheme
  <2>2. UNCHANGED <<tasks, workers, changes, racing>> /\ ~container.themed
        /\ container' = [container EXCEPT !.themed = TRUE]
    BY <1>2 DEF LoadTheme
  <2>3. Making' = Making
    BY <2>2 DEF Making
  <2> QED BY <2>1, <2>2, <2>3
<1>3. CASE Destroy
  <2>1. DOMAIN cache' = DOMAIN cache \ (container.record \cup {Default, Own})
    BY <1>3 DEF Destroy, LetGo
  <2>2. racing' = tasks \cup Making \cup (IF container.themed THEN {} ELSE {Default, Own})
    BY <1>3 DEF Destroy, Making
  <2>3. UNCHANGED <<tasks, workers>> /\ container.alive
        /\ container' = [container EXCEPT !.alive = FALSE, !.record = {}]
    BY <1>3 DEF Destroy
  <2>4. Making' = Making
    BY <2>3 DEF Making
  <2> QED BY <2>1, <2>2, <2>3, <2>4
<1>4. ASSUME NEW module \in Modules, UseOnUIThread(module)
      PROVE  ResourcesInv'
  <2>1. DOMAIN cache' = {module} \cup DOMAIN cache
    BY <1>4, WithAll DEF UseOnUIThread
  <2>2. UNCHANGED <<tasks, workers, changes, racing>> /\ container.alive
        /\ container' = [container EXCEPT !.record = @ \cup {module}]
    BY <1>4 DEF UseOnUIThread
  <2>3. Making' = Making
    BY <2>2 DEF Making
  <2> QED BY <2>1, <2>2, <2>3
<1>5. ASSUME NEW module \in Modules, RecordResAdapter(module)
      PROVE  ResourcesInv'
  <2>1. UNCHANGED <<cache, workers, changes, racing>> /\ tasks' = tasks \ {module}
        /\ container' = IF container.alive THEN [container EXCEPT !.record = @ \cup {module}]
                        ELSE container
    BY <1>5 DEF RecordResAdapter
  <2>2. Making' = Making
    BY <2>1 DEF Making
  <2>3. CASE container.alive
    BY <2>1, <2>2, <2>3
  <2>4. CASE ~container.alive
    BY <2>1, <2>2, <2>4
  <2> QED BY <2>3, <2>4
<1>6. ASSUME NEW w \in Workers, NEW module \in Modules, UseOnWorker(w, module)
      PROVE  ResourcesInv'
  <2>1. /\ UNCHANGED <<container, cache, changes, racing>> /\ container.alive
        /\ tasks' = tasks \cup {module}
    BY <1>6 DEF UseOnWorker
  <2>2. PICK m : workers' = [workers EXCEPT ![w] = <<module, m>>]
    BY <1>6 DEF UseOnWorker
  <2>3. Making' \subseteq Making \cup {module}
    BY <2>2 DEF Making, Idle
  <2> QED BY <2>1, <2>2, <2>3
<1>7. ASSUME NEW w \in Workers, Made(w)
      PROVE  ResourcesInv'
  <2>1. /\ UNCHANGED <<container, tasks, changes, racing>> /\ workers[w] # Idle
        /\ workers' = [workers EXCEPT ![w] = Idle]
    BY <1>7 DEF Made
  <2>2. DOMAIN cache' = {workers[w][1]} \cup DOMAIN cache
    BY <1>7, WithAll DEF Made
  <2>3. workers[w][1] \in Making /\ Making' \subseteq Making
    BY <2>1 DEF Making
  <2> QED BY <2>1, <2>2, <2>3
<1>8. ASSUME NEW mode, UpdateConfiguration(mode) \/ SetLocalColorMode(mode)
      PROVE  ResourcesInv'
  <2>1. UNCHANGED <<tasks, workers, racing>>
    BY <1>8 DEF UpdateConfiguration, SetLocalColorMode
  <2>2. DOMAIN cache' = DOMAIN cache
    <3>1. ASSUME UpdateConfiguration(mode)
          PROVE  DOMAIN cache' = ({Default, Own} \cap DOMAIN cache) \cup DOMAIN cache
      <4>1. PICK m : cache' = With(cache, {Default, Own} \cap DOMAIN cache, m)
        BY <3>1 DEF UpdateConfiguration
      <4> QED BY <4>1, WithAll
    <3> QED BY <1>8, <3>1 DEF SetLocalColorMode
  <2>3. /\ container'.alive = container.alive /\ container'.themed = container.themed
        /\ container'.record = container.record
        /\ container' = [alive |-> container'.alive, themed |-> container'.themed,
                         config |-> container'.config, localColor |-> container'.localColor,
                         record |-> container'.record]
    <3>1. CASE UpdateConfiguration(mode)
      <4>1. PICK config : container' = [container EXCEPT !.config = config]
        BY <3>1 DEF UpdateConfiguration
      <4> QED BY <4>1
    <3>2. CASE SetLocalColorMode(mode)
      BY <3>2 DEF SetLocalColorMode
    <3> QED BY <1>8, <3>1, <3>2
  <2>4. Making' = Making
    BY <2>1 DEF Making
  <2> QED BY <2>1, <2>2, <2>3, <2>4
<1> QED BY <1>1, <1>2, <1>3, <1>4, <1>5, <1>6, <1>7, <1>8 DEF Next

\* However workers and the UI thread interleave, every adapter of a living container is known
\* to it or about to be, and none outlives the container but those that were still being made,
\* or recorded, when it was destroyed (AceContainerSG's ReleaseResourceAdapter).
THEOREM NoAdapterOutlives == Spec => [](AdaptersReleased /\ AdaptersKnown)
<1>1. Init => ResourcesInv
  BY DEF Init, ResourcesInv, ResourcesTypeOK, PendingKnown, AdaptersReleased, AdaptersKnown, Making, Idle
<1>2. ResourcesInv /\ [Next]_vars => ResourcesInv'
  BY ResourcesKeep
<1>3. ResourcesInv => AdaptersReleased /\ AdaptersKnown
  BY DEF ResourcesInv
<1> QED BY <1>1, <1>2, <1>3, PTL DEF Spec
=============================================================================
