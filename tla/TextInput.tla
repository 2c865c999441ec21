------------------------------ MODULE TextInput ------------------------------
(***************************************************************************)
(* A field of the page and the keyboard: a connection stands for one       *)
(* request of a field, iOSTxtInputManager's two views (a plain and a       *)
(* secure one) take what is typed, and blocks that belong to a connection  *)
(* carry it back, as tasks for the UI thread.                              *)
(*                                                                         *)
(* A text is a number, a new one for everything typed or set.  Filters,    *)
(* lengths, selections and the flag needFireChangeEvent_ are left out.     *)
(***************************************************************************)
EXTENDS Integers, Sequences

CONSTANTS
  Inputs, Secure,    \* the fields of the page, and those for passwords
  Nobody,
  MaxConnections,    \* bound: requests for the keyboard
  MaxTexts,          \* bound: texts typed and set
  MaxTyped           \* bound: tasks queued

ASSUME TextAssumption ==
  /\ Secure \subseteq Inputs /\ Nobody \notin Inputs \cup {"plain", "secure"}
  /\ {MaxConnections, MaxTexts, MaxTyped} \subseteq Nat

VARIABLES
  connection,  \* TextInputClientHandler's currentConnection_: [id, client], and no other lives
  views,       \* of both views: [client, block: the connection its blocks are of, field, text, marked]
  active,      \* _activeView
  responder,   \* the view that has the keyboard
  text,        \* the fields' texts
  texts,       \* how many there were
  tasks,       \* for the UI thread
  hides,       \* blocks that hide the keyboard after its key "done"
  heard,       \* what a field was told at the last step, and for which
  astray       \* a text was refused by the view, or set while a typed one waited

textVars == <<connection, views, active, responder, text, texts, tasks, hides, heard, astray>>

Views == {"plain", "secure"}

TextInit ==
  /\ connection = [id |-> 0, client |-> Nobody]
  /\ views = [v \in Views |->
                [client |-> 0, block |-> 0, field |-> Nobody, text |-> 0, marked |-> FALSE]]
  /\ active = "plain" /\ responder = Nobody
  /\ text = [f \in Inputs |-> 0] /\ texts = 0
  /\ tasks = <<>> /\ hides = 0 /\ heard = <<>> /\ astray = FALSE

TextView == [client : 0..MaxConnections, block : 0..MaxConnections, field : Inputs \cup {Nobody},
             text : 0..MaxTexts, marked : BOOLEAN]

TextTask == [kind : {"value", "action"}, id : 1..MaxConnections, text : 0..MaxTexts, of : Inputs]

TextTypeOK ==
  /\ connection \in [id : 0..MaxConnections, client : Inputs \cup {Nobody}]
  /\ connection.id # 0 => connection.client \in Inputs
  /\ views \in [Views -> TextView] /\ active \in Views /\ responder \in Views \cup {Nobody}
  /\ text \in [Inputs -> 0..MaxTexts] /\ texts \in 0..MaxTexts
  /\ tasks \in Seq(TextTask) /\ Len(tasks) <= MaxTyped /\ hides \in 0..MaxTyped
  /\ heard \in {<<>>} \cup (Inputs \X Inputs) /\ astray \in BOOLEAN

-----------------------------------------------------------------------------
ViewOf(f) == IF f \in Secure THEN "secure" ELSE "plain"

\* A view with marked text takes no other.
SetTextInputState(view, t) == IF view.marked THEN view ELSE [view EXCEPT !.text = t]

\* Whether a text waits for the field that has the connection.
Waits(i) == tasks[i].kind = "value" /\ tasks[i].id = connection.id
Waiting == \E i \in DOMAIN tasks : Waits(i)

\* The new connection: the one before it has gone.
Attach(f) == [id |-> connection.id + 1, client |-> f]

\* Its view: the connection's blocks, and the field's text.
ShowKeyboard(new) ==
  [SetTextInputState(views[ViewOf(new.client)], text[new.client]) EXCEPT
     !.client = new.id, !.block = new.id, !.field = new.client]

\* The field attaches and shows the keyboard.  What showTextInput does for a view within a
\* WindowView that cannot take the focus never happens: the view lies in _inputHider, and
\* that in the key UIWindow (addToInputParentViewIfNeeded), which lies in no WindowView.
RequestKeyboard(f) ==
  /\ connection.id < MaxConnections
  /\ connection' = Attach(f)
  /\ views' = [views EXCEPT ![ViewOf(f)] = ShowKeyboard(connection')]
  /\ active' = ViewOf(f) /\ responder' = active'
  /\ astray' = (views'[active'].text # text[f])
  /\ heard' = <<>> /\ UNCHANGED <<text, texts, tasks, hides>>

\* The field asks for it, or the focus moves to what needs no keyboard.  The connection stays.
CloseKeyboard ==
  /\ connection.id # 0
  /\ views' = [views EXCEPT ![active].client = 0, ![active].block = 0]
  /\ responder' = Nobody
  /\ heard' = <<>> /\ UNCHANGED <<connection, active, text, texts, tasks, hides, astray>>

\* The page sets a field's text; the field that has the connection tells the view.
SetEditingState(f) ==
  /\ texts < MaxTexts /\ texts' = texts + 1
  /\ text' = [text EXCEPT ![f] = texts']
  /\ IF f = connection.client
     THEN /\ views' = [views EXCEPT ![active] = SetTextInputState(@, texts')]
          /\ astray' = (views[active].marked \/ Waiting)
     ELSE UNCHANGED <<views, astray>>
  /\ heard' = <<>> /\ UNCHANGED <<connection, active, responder, tasks, hides>>

-----------------------------------------------------------------------------
\* TextInputClientHandler, called by a view's block: n tasks if the block is of the view's
\* connection, and that is the current one.
PostedBy(v, n, kind, t) ==
  IF views[v].block = views[v].client /\ views[v].client = connection.id /\ connection.id # 0
  THEN [i \in 1 .. n |-> [kind |-> kind, id |-> connection.id, text |-> t, of |-> views[v].field]]
  ELSE <<>>

\* replaceRange, setMarkedText, unmarkText: the first leaves marked what replaces a
\* selection, the second tells of its change twice.
Edit(v) ==
  \E n \in {1, 2}, marked \in BOOLEAN :
    /\ texts < MaxTexts /\ Len(tasks) + n <= MaxTyped
    /\ texts' = texts + 1
    /\ views' = [views EXCEPT ![v].text = texts', ![v].marked = marked]
    /\ LET new == PostedBy(v, n, "value", texts')
       IN  tasks' = tasks \o new /\ astray' = (astray /\ new = <<>>)
    /\ heard' = <<>> /\ UNCHANGED <<connection, active, responder, text, hides>>

Type == responder # Nobody /\ Edit(responder)

\* discardMarkedText, on the active view, whether it has the keyboard or not.
FinishComposing ==
  /\ connection.id # 0 /\ Edit(active) /\ ~views'[active].marked

\* The return key, or a letter the field's filter refuses: "done" hides the keyboard, later.
PressReturn ==
  /\ responder # Nobody /\ Len(tasks) < MaxTyped
  /\ tasks' = tasks \o PostedBy(responder, 1, "action", 0)
  /\ \E done \in BOOLEAN :
       /\ done => hides < MaxTyped /\ views[responder].block # 0
       /\ hides' = IF done THEN hides + 1 ELSE hides
  /\ heard' = <<>> /\ UNCHANGED <<connection, views, active, responder, text, texts, astray>>

HideTextInput ==
  /\ hides > 0 /\ hides' = hides - 1 /\ responder' = Nobody
  /\ heard' = <<>> /\ UNCHANGED <<connection, views, active, text, texts, tasks, astray>>

\* mutant: the task takes the connection of when it runs.
RunTypedForCurrent ==
  /\ tasks # <<>> /\ tasks' = Tail(tasks)
  /\ heard' = <<connection.client, Head(tasks).of>>
  /\ text' = IF Head(tasks).kind = "value"
             THEN [text EXCEPT ![connection.client] = Head(tasks).text] ELSE text
  /\ UNCHANGED <<connection, views, active, responder, texts, hides, astray>>

\* The field of the task's connection is told, if that lives.
RunTyped ==
  /\ tasks # <<>> /\ tasks' = Tail(tasks)
  /\ LET task == Head(tasks)
         lives == task.id = connection.id
     IN  /\ heard' = IF lives THEN <<connection.client, task.of>> ELSE <<>>
         /\ text' = IF lives /\ task.kind = "value"
                    THEN [text EXCEPT ![connection.client] = task.text] ELSE text
  /\ UNCHANGED <<connection, views, active, responder, texts, hides, astray>>

TextNext ==
  \/ \E f \in Inputs : RequestKeyboard(f) \/ SetEditingState(f)
  \/ CloseKeyboard \/ Type \/ FinishComposing \/ PressReturn \/ HideTextInput \/ RunTyped

TextSpec == TextInit /\ [][TextNext]_textVars

-----------------------------------------------------------------------------
\* What is typed reaches the field it was typed for or none, whichever field has the keyboard
\* when the task runs: a task and a view that are of the connection are of its field, and no
\* task is of a connection to come.
ReachesItsField ==
  /\ heard # <<>> => heard[1] = heard[2]
  /\ \A i \in DOMAIN tasks : /\ tasks[i].id <= connection.id
                             /\ tasks[i].id = connection.id => tasks[i].of = connection.client
  /\ \A v \in Views : /\ views[v].client <= connection.id
                      /\ views[v].client = connection.id /\ connection.id # 0
                           => views[v].field = connection.client

\* The view with the keyboard speaks for the living connection.
SpeaksForConnection ==
  responder # Nobody => /\ responder = active /\ connection.id # 0
                        /\ views[responder].client = connection.id
                        /\ views[responder].block = connection.id

\* What was typed last of what waits is what the view shows; and when nothing waits, the field
\* has the text the view shows.  Not claimed (astray) after the view refused a text because it
\* had marked text, of another field too, or after the page set one that a typed one overtook:
\* the next letter ends that.
FieldAndViewAgree ==
  responder # Nobody /\ ~astray =>
    /\ \A i \in DOMAIN tasks :
         Waits(i) /\ (\A j \in DOMAIN tasks : j > i => ~Waits(j)) => tasks[i].text = views[responder].text
    /\ ~Waiting => views[responder].text = text[connection.client]

EditingAgrees == TextTypeOK /\ ReachesItsField /\ SpeaksForConnection /\ FieldAndViewAgree
=============================================================================
