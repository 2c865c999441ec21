----------------------------- MODULE BridgeCalls -----------------------------
(***************************************************************************)
(* What one end of a bridge may expect of its calls and messages: each is  *)
(* answered at most once, no answer comes unasked, and an answer fails to  *)
(* come only for a call that there is an excuse for (excusable): an end of *)
(* the bridge was changed under it, what the plugin made of it cannot be   *)
(* sent, or the plugin that made it has no delegate for the answer.        *)
(* Nothing here says how the calls travel.                                 *)
(***************************************************************************)
EXTENDS Naturals

VARIABLES
  sent,        \* the number of calls so far; they are numbered from 1
  answered,    \* the ones that have been answered
  lost,        \* the ones that never will be
  excusable    \* the ones that need not be

vars == <<sent, answered, lost, excusable>>

Init == sent = 0 /\ answered = {} /\ lost = {} /\ excusable = {}

Open(c) == c \in 1 .. sent /\ c \notin answered \cup lost

\* A call that was hopeless when it was made is lost at once.
Call ==
  /\ sent' = sent + 1
  /\ \/ UNCHANGED <<lost, excusable>>
     \/ excusable' = excusable \cup {sent'} /\ lost' \in {lost, lost \cup {sent'}}
  /\ UNCHANGED answered

Answer(c) ==
  /\ Open(c)
  /\ answered' = answered \cup {c}
  /\ UNCHANGED <<sent, lost, excusable>>

\* There is an excuse, given before or now.
Lose(c) ==
  /\ Open(c)
  /\ excusable' = excusable \cup {c} \/ (c \in excusable /\ UNCHANGED excusable)
  /\ lost' = lost \cup {c}
  /\ UNCHANGED <<sent, answered>>

Change ==
  /\ excusable' \in {excusable \cup E : E \in SUBSET (1 .. sent)}
  /\ UNCHANGED <<sent, answered, lost>>

Next == Call \/ Change \/ \E c \in 1 .. sent : Answer(c) \/ Lose(c)

Spec == Init /\ [][Next]_vars
=============================================================================
