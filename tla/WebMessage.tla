----------------------------- MODULE WebMessage -----------------------------
(***************************************************************************)
(* Messages between the application and the page of a web view, over the   *)
(* ports of a message channel.  The application's side is an               *)
(* AceWebMessageExtImpl: a type, and a field for every type but the        *)
(* booleans and numbers, which share a union.  A message to the page is    *)
(* written into a script that posts it; a text is a literal of the script  *)
(* between apostrophes.                                                    *)
(*                                                                         *)
(* A text is a sequence of characters, of which the kinds that matter in a *)
(* literal are told apart.                                                 *)
(***************************************************************************)
EXTENDS SequencesExt

Plain == "a"  Quote == "quote"  Apostrophe == "apostrophe"
Backslash == "backslash"  Newline == "newline"

ArrayOf(kind) ==
  CASE kind = "string" -> "STRINGARRAY" [] kind = "boolean" -> "BOOLEANARRAY"
    [] kind = "int" -> "INT64ARRAY" [] OTHER -> "DOUBLEARRAY"

Arrays == {"STRINGARRAY", "BOOLEANARRAY", "INT64ARRAY", "DOUBLEARRAY"}
Scalars == {"BOOLEAN", "INTEGER", "DOUBLE"}

-----------------------------------------------------------------------------
(***************************************************************************)
(* AceWebMessageExtImpl.                                                   *)
(***************************************************************************)
Field(type) == IF type \in Scalars THEN "data" ELSE type

\* A field remembers by which setter it was written.
NewMessage ==
  [type |-> "NONE",
   fields |-> [f \in {"data", "STRING", "BINARY", "ERROR"} \cup Arrays |-> <<"NONE", <<>>>>]]

SetValue(m, type, v) == [m EXCEPT !.type = type, !.fields[Field(type)] = <<type, v>>]

\* What the getter of a type reads: for another type of the union, its bytes.
GetValue(m, type) ==
  IF m.fields[Field(type)][1] = type THEN m.fields[Field(type)][2] ELSE "other bytes"

-----------------------------------------------------------------------------
(***************************************************************************)
(* From the application to the page.                                       *)
(***************************************************************************)
\* mutant: apostrophes are not escaped.
EscapeQuotesOnly(text) == FlattenSeq([i \in DOMAIN text |->
  IF text[i] = Quote THEN <<Backslash, text[i]>> ELSE <<text[i]>>])

Escape(text) == FlattenSeq([i \in DOMAIN text |->
  IF text[i] \in {Quote, Apostrophe} THEN <<Backslash, text[i]>> ELSE <<text[i]>>])

Broken == [js |-> "syntax error", value |-> <<>>]

\* How the page reads a literal between apostrophes.
Literal(js, chars) ==
  LET Read(s, c) ==
        CASE s.escape -> [s EXCEPT !.escape = FALSE,
                                   !.out = IF c = Newline THEN @ ELSE Append(@, c)]
          [] ~s.escape /\ c = Backslash -> [s EXCEPT !.escape = TRUE]
          [] ~s.escape /\ c \in {Apostrophe, Newline} -> [s EXCEPT !.ok = FALSE]
          [] OTHER -> [s EXCEPT !.out = Append(@, c)]
      end == FoldLeft(Read, [out |-> <<>>, escape |-> FALSE, ok |-> TRUE], chars)
  IN  IF end.ok /\ ~end.escape THEN [js |-> js, value |-> end.out] ELSE Broken

\* postMessageEventExtOC and WebMessageChannel.postMessageEventExt: what the page is
\* posted; nothing when no value was ever set.  Of an error, its message as it is.
PostMessageEventExt(m) ==
  LET v == GetValue(m, m.type)
  IN  CASE m.type = "BOOLEAN" -> [js |-> "boolean", value |-> v]
        [] m.type \in {"INTEGER", "DOUBLE"} -> [js |-> "number", value |-> v]
        [] m.type = "STRING" -> Literal("string", Escape(v))
        [] m.type \in Arrays -> [js |-> "array", value |-> v]
        [] m.type = "BINARY" -> [js |-> "buffer", value |-> v]
        [] m.type = "ERROR" -> Literal("error", v.message)
        [] OTHER -> [js |-> "nothing", value |-> <<>>]

\* postMessageEvent, for messages that are texts.
PostMessageEvent(text) == Literal("string", Escape(text))

-----------------------------------------------------------------------------
(***************************************************************************)
(* From the page to the application.  Of a number, kind says how WebKit    *)
(* hands it over; of an array, the kinds of its elements.                  *)
(***************************************************************************)
\* mutant: an array is what its last element is.
OnMessageOfLast(body) ==
  CASE body.js = "string" -> SetValue(NewMessage, "STRING", body.value)
    [] body.js = "boolean" -> SetValue(NewMessage, "BOOLEAN", body.value)
    [] body.js = "number" ->
         SetValue(NewMessage, IF body.kind = "int" THEN "DOUBLE" ELSE "INTEGER", body.value)
    [] body.js = "array" /\ body.value # <<>> ->
         SetValue(NewMessage, ArrayOf(body.kind), Tail(body.value))
    [] OTHER -> NewMessage

\* The first element decides for all; an empty array, and anything else, is no message.
OnMessageEventExt(body) ==
  CASE body.js = "string" -> SetValue(NewMessage, "STRING", body.value)
    [] body.js = "boolean" -> SetValue(NewMessage, "BOOLEAN", body.value)
    [] body.js = "number" ->
         SetValue(NewMessage, IF body.kind = "int" THEN "INTEGER" ELSE "DOUBLE", body.value)
    [] body.js = "array" /\ body.value # <<>> ->
         SetValue(NewMessage, ArrayOf(body.kind), body.value)
    [] OTHER -> NewMessage

-----------------------------------------------------------------------------
\* Whatever the message was set to before, the page gets the value set last, and a text
\* character by character: with quotes and apostrophes, but not with backslashes and
\* line breaks, which the script does not escape.
ArrivesAtPage(before, type, v) ==
  LET posted == PostMessageEventExt(SetValue(before, type, v))
      text == IF type = "ERROR" THEN v.message ELSE v
      unescaped == IF type = "ERROR" THEN {Backslash, Newline, Apostrophe}
                   ELSE {Backslash, Newline}
  IN  IF type \in {"STRING", "ERROR"}
      THEN (\A i \in DOMAIN text : text[i] \notin unescaped)
             => posted.js # "syntax error" /\ posted.value = text
      ELSE posted.value = v

\* What the page posts the application reads with the getter of the message's type, and
\* posting it back gives the page what it had posted.
EchoIsSame(body) ==
  LET m == OnMessageEventExt(body)
      back == PostMessageEventExt(m)
  IN  m.type # "NONE" /\ body.js # "string" => back.js = body.js /\ back.value = body.value
=============================================================================
