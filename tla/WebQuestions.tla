---------------------------- MODULE WebQuestions ----------------------------
(***************************************************************************)
(* What a page asks the application through a web view.  WebKit hands      *)
(* AceWeb a question with a completion handler, to be called once: dialogs *)
(* of the page, permissions, HTTP passwords and servers whose certificate  *)
(* is not trusted.  AceWeb raises an event with an object that answers the *)
(* question, at once or at any later time; if the event's handler does not *)
(* take the question, AceWeb answers it by default.  A question about a    *)
(* certificate of the main frame raises two events.                        *)
(*                                                                         *)
(* And new windows a page opens: their objects live as long as the event,  *)
(* unless ArkUI keeps them under an index, by which the application later  *)
(* has the window loaded into a web view of its own, or cancels it.        *)
(***************************************************************************)
EXTENDS Integers, Sequences, FiniteSets

CONSTANTS
  Questions,
  Kinds,       \* what the questions may be about, a set of functions
  Host,        \* of an ssl question: protocol, host and port
  Popups, Children,
  NoChild,
  MaxLoads,    \* bound: pages loaded
  MaxIndexes   \* bound: indexes given to new windows

AllKinds == {"alert", "confirm", "prompt", "permission", "auth", "ssl", "main"}

ASSUME QuestionAssumption ==
  /\ Kinds \subseteq [Questions -> AllKinds]
  /\ MaxLoads \in Nat /\ MaxIndexes \in Nat

VARIABLES
  kind,                \* of a question; main: about a certificate of the main frame
  question,            \* [phase, taken: the events whose object the application may use,
                       \*  calls, answer: of the completion handler]
  handleSslErrorUrls,  \* hosts that were asked about since the page was loaded
  useCredentials,      \* authChallengeUseCredentials: hosts that are trusted, in all views
  loads,
  popup,               \* AceWebWindowNewObject: [alive, completed, child]
  objectMap, index,    \* AceWebWindowNewObjectWrapper
  given,               \* the application's: <<index, the popup it was given for>>
  shown                \* what was loaded into the children: <<the index's popup, popup>>

questions == <<kind, question, handleSslErrorUrls, useCredentials, loads>>
windows == <<popup, objectMap, index, given, shown>>
questionVars == <<questions, windows>>

Ssl(q) == kind[q] \in {"ssl", "main"}

\* A new window: is its object kept, was it answered, and with which web view?
AceWebWindowNewObject ==
  [alive : BOOLEAN, completed : BOOLEAN, child : Children \cup {NoChild}]

\* event, receive: the event is being handled; done: its handler has returned.
QuestionTypeOK ==
  /\ kind \in Kinds
  /\ question \in [Questions -> [phase : {"none", "event", "receive", "done"},
                                 taken : SUBSET {"event", "receive"},
                                 calls : Nat, answer : {"none", "confirm", "cancel", "default"}]]
  /\ popup \in [Popups -> AceWebWindowNewObject]
  /\ index \in 0 .. MaxIndexes /\ DOMAIN objectMap \subseteq 1 .. index
  /\ \A i \in DOMAIN objectMap : objectMap[i] \in Popups

QuestionInit ==
  /\ kind \in Kinds
  /\ question = [q \in Questions |-> [phase |-> "none", taken |-> {}, calls |-> 0, answer |-> "none"]]
  /\ handleSslErrorUrls = {} /\ useCredentials = {} /\ loads = 0
  /\ popup = [p \in Popups |-> [alive |-> FALSE, completed |-> FALSE, child |-> NoChild]]
  /\ objectMap = <<>> /\ index = 0 /\ given = {} /\ shown = {}

-----------------------------------------------------------------------------
(***************************************************************************)
(* Completion handlers.  WebKit takes the first answer and throws at the   *)
(* second, which is caught and logged.                                     *)
(***************************************************************************)
CompletionHandler(s, answer) ==
  [s EXCEPT !.calls = @ + 1, !.answer = IF @ = "none" THEN answer ELSE @]

\* mutant: the handler of a certificate's question is not guarded.
AnswerUnguarded(q, s, answer) == CompletionHandler(s, answer)

\* safeCompletionHandler for certificates, the handler itself for other questions.
Answer(q, s, answer) == IF Ssl(q) /\ s.calls > 0 THEN s ELSE CompletionHandler(s, answer)

\* mutant: a host is trusted once its question is answered.
TrustsAnswered(q, answer) ==
  IF Ssl(q) THEN useCredentials \cup {Host[q]} ELSE useCredentials

\* A host is trusted when the answer that was given says so.
Trusts(q, answer) ==
  IF Ssl(q) /\ answer = "confirm" /\ question[q].calls = 0
  THEN useCredentials \cup {Host[q]} ELSE useCredentials

-----------------------------------------------------------------------------
(***************************************************************************)
(* Questions.                                                              *)
(***************************************************************************)
\* A dialog, permission or password is asked at once.  A host that was asked about since
\* the page was loaded, or is trusted, is not asked about again: WebKit decides.
Ask(q) ==
  /\ question[q].phase = "none"
  /\ IF Ssl(q) /\ Host[q] \in handleSslErrorUrls \cup useCredentials
     THEN /\ question' = [question EXCEPT ![q] =
                            [CompletionHandler(@, "default") EXCEPT !.phase = "done"]]
          /\ UNCHANGED handleSslErrorUrls
     ELSE /\ question' = [question EXCEPT ![q].phase = "event"]
          /\ handleSslErrorUrls' = IF Ssl(q) THEN handleSslErrorUrls \cup {Host[q]}
                                   ELSE handleSslErrorUrls
  /\ UNCHANGED <<kind, useCredentials, loads, windows>>

\* mutant: the default is given only if the event of the main frame is refused.
ReturnsUnanswered(q, taken) ==
  LET s == [question[q] EXCEPT !.taken = @ \cup (IF taken THEN {question[q].phase} ELSE {})]
  IN  IF kind[q] = "main" /\ s.phase = "event"
      THEN [s EXCEPT !.phase = "receive"]
      ELSE [(IF s.taken = {} /\ Ssl(q) THEN Answer(q, s, "default") ELSE s) EXCEPT !.phase = "done"]

\* The event's handler returns whether it takes the question; the second event of a main
\* frame's certificate follows, and if none is taken the question is answered by default.
Returns(q, taken) ==
  LET s == [question[q] EXCEPT !.taken = @ \cup (IF taken THEN {question[q].phase} ELSE {})]
  IN  IF kind[q] = "main" /\ s.phase = "event"
      THEN [s EXCEPT !.phase = "receive"]
      ELSE [(IF s.taken = {} THEN Answer(q, s, "default") ELSE s) EXCEPT !.phase = "done"]

HandlerReturns(q, taken) ==
  /\ question[q].phase \in {"event", "receive"}
  /\ question' = [question EXCEPT ![q] = Returns(q, taken)]
  /\ UNCHANGED <<kind, handleSslErrorUrls, useCredentials, loads, windows>>

\* The objects of a question are never freed: one that was handed out may answer for ever.
\* While its event runs the handler has it, and afterwards if it took the question.
MayAnswer(q) ==
  question[q].phase \in {"event", "receive"} \/ question[q].taken # {}

Says(q, answers) ==
  /\ MayAnswer(q) /\ question[q].calls < 2
  /\ \E answer \in answers :
       IF answer = "nothing" THEN UNCHANGED <<question, useCredentials>>
       ELSE /\ question' = [question EXCEPT ![q] = Answer(q, @, answer)]
            /\ useCredentials' = Trusts(q, answer)
  /\ UNCHANGED <<kind, handleSslErrorUrls, loads, windows>>

\* The object of a dialog: Confirm with and without a text, Cancel; an alert has nothing
\* to decide, and a prompt is confirmed with a text only.
DialogAnswer(q) ==
  /\ kind[q] \in {"alert", "confirm", "prompt"}
  /\ \E action \in {"PROMPTCONFIRM", "CONFIRM", "CANCEL"} :
       Says(q, {CASE kind[q] = "alert" -> "confirm"
                  [] kind[q] = "confirm" /\ action = "CONFIRM" -> "confirm"
                  [] kind[q] = "prompt" /\ action = "PROMPTCONFIRM" -> "confirm"
                  [] OTHER -> "cancel"})

\* Grant of nothing leaves it to the system to ask.
PermissionAnswer(q) ==
  kind[q] = "permission" /\ Says(q, {"confirm", "cancel", "default"})

\* Confirm, Cancel, and IsHttpAuthInfoSaved, which answers the question with what is
\* saved, if anything is.
HttpAuthAnswer(q) ==
  kind[q] = "auth" /\ Says(q, {"confirm", "default", "nothing"})

\* The object of the first event about a certificate.
SslErrorEventAnswer(q) ==
  /\ Ssl(q) /\ (question[q].phase = "event" \/ "event" \in question[q].taken)
  /\ Says(q, {"confirm", "cancel"})

\* The object of the second one.
SslErrorEventReceiveAnswer(q) ==
  /\ kind[q] = "main" /\ (question[q].phase = "receive" \/ "receive" \in question[q].taken)
  /\ Says(q, {"confirm", "cancel"})

LoadUrl ==
  /\ loads < MaxLoads
  /\ loads' = loads + 1 /\ handleSslErrorUrls' = {}
  /\ UNCHANGED <<kind, question, useCredentials, windows>>

-----------------------------------------------------------------------------
(***************************************************************************)
(* New windows.                                                            *)
(***************************************************************************)
\* createWebViewWithConfiguration and its event; in it ArkUI may keep the object.
Insert(m, i, p) == [j \in DOMAIN m \cup {i} |-> IF j = i THEN p ELSE m[j]]

\* mutant: the index is the number of objects that are kept.
NextIndexOfSize == Cardinality(DOMAIN objectMap) + 1

NextIndex == index + 1

WindowNew(p, kept) ==
  /\ ~popup[p].alive /\ index < MaxIndexes
  /\ IF kept
     THEN /\ popup' = [popup EXCEPT ![p].alive = TRUE]
          /\ index' = NextIndex
          /\ objectMap' = Insert(objectMap, index', p)
          /\ given' = given \cup {<<index', p>>}
     ELSE UNCHANGED <<popup, index, objectMap, given>>
  /\ UNCHANGED <<shown, questions>>

DelObject(i) ==
  /\ i \in DOMAIN objectMap
  /\ objectMap' = [j \in DOMAIN objectMap \ {i} |-> objectMap[j]]
  /\ UNCHANGED <<popup, index, given, shown, questions>>

\* The object kept under an index, if there is one.
GetObject(i) == IF i \in DOMAIN objectMap THEN {objectMap[i]} ELSE {}

\* What the object of the window then says: a web view of its own shows it, or none does.
Completed(p, child) ==
  popup' = [popup EXCEPT ![p] = [@ EXCEPT !.completed = TRUE, !.child = child]]

\* The page of the new window is loaded into the child.
CompleteWithChildWeb(i, child) ==
  /\ \E p \in GetObject(i), g \in given :
       g[1] = i /\ Completed(p, child) /\ shown' = shown \cup {<<g[2], p>>}
  /\ UNCHANGED <<index, objectMap, given, questions>>

CancelPopup(i) ==
  /\ \E p \in GetObject(i) : Completed(p, NoChild)
  /\ UNCHANGED <<index, objectMap, given, shown, questions>>

QuestionNext ==
  \/ \E q \in Questions :
       \/ Ask(q) \/ \E taken \in BOOLEAN : HandlerReturns(q, taken)
       \/ DialogAnswer(q) \/ PermissionAnswer(q) \/ HttpAuthAnswer(q)
       \/ SslErrorEventAnswer(q) \/ SslErrorEventReceiveAnswer(q)
  \/ LoadUrl

WindowNext ==
  \/ \E p \in Popups, kept \in BOOLEAN : WindowNew(p, kept)
  \/ \E i \in 1 .. MaxIndexes :
       DelObject(i) \/ CancelPopup(i) \/ \E child \in Children : CompleteWithChildWeb(i, child)

WebNext == QuestionNext \/ WindowNext

WebSpec == QuestionInit /\ [][WebNext]_questionVars

-----------------------------------------------------------------------------
\* WebKit waits for an answer only while the question is being asked or the application
\* has said that it will answer; and about a certificate it gets exactly one, whichever of
\* the two events, the default and late answers come first.
AnsweredOnce ==
  \A q \in Questions :
    /\ question[q].phase = "done" /\ question[q].taken = {} => question[q].calls > 0
    /\ Ssl(q) => question[q].calls <= 1

\* A host is trusted from now on only if its question was answered so, and the answer
\* that WebKit got is the one that is remembered.
TrustWasAnswered ==
  \A h \in useCredentials :
    \E q \in Questions : Ssl(q) /\ Host[q] = h /\ question[q].answer = "confirm"

\* An index names the window it was given for, or no window any more, however many
\* windows come and go.
IndexesName ==
  /\ \A s \in shown : s[1] = s[2]
  /\ \A g \in given : g[1] \in 1 .. index /\ (g[1] \in DOMAIN objectMap => objectMap[g[1]] = g[2])

\* What is not asked has no answer, nor has what was not answered.
AnswersAreCounted ==
  \A q \in Questions :
    /\ question[q].phase = "none" => question[q].calls = 0 /\ question[q].taken = {}
    /\ question[q].calls = 0 => question[q].answer = "none"

\* What a page asks is answered as it must be, a host is trusted if the answer said so, and
\* the windows it opens go to whom they were given for.
QuestionsAgree ==
  QuestionTypeOK /\ AnsweredOnce /\ TrustWasAnswered /\ AnswersAreCounted /\ IndexesName
=============================================================================
