------------------------------ MODULE MCContent ------------------------------
(***************************************************************************)
(* What a window shows: its contents and popups' containers, the views of  *)
(* a controller's windows and what their contents are told, fingers, keys  *)
(* and typed text.  They are modelled apart and explored one at a time: a  *)
(* behaviour chooses one of them and is a behaviour of that one, in which  *)
(* the others stay as they begin.                                          *)
(*                                                                         *)
(* Two contents and a popup; a main window, a sub-window and one that      *)
(* stays above it; three fingers; two keys, of one of which the monitor    *)
(* hears; two fields of a page and one for a password.                     *)
(***************************************************************************)
EXTENDS KeyRepeat, StageWindows, AceContainer, TextInput, TouchInput

VARIABLE part

vars == <<part, aceVars, uiVars, touchVars, keyVars, textVars>>

ZOrder == [w \in Windows |-> IF w = "high" THEN 1 ELSE 0]

\* The parts that were not chosen begin in one of the states they can begin in.
ContentInit ==
  /\ part \in {"containers", "views", "fingers", "keys", "typing"}
  /\ AceInit /\ UIInit /\ TouchInit /\ Init /\ TextInit
  /\ part # "containers" => window.insets = CHOOSE area \in Areas : TRUE
  /\ part # "keys" => repeat.key = "a"

ContentNext ==
  /\ UNCHANGED part
  /\ \/ part = "containers" /\ AceNext /\ UNCHANGED <<uiVars, touchVars, keyVars, textVars>>
     \/ part = "views" /\ UINext /\ UNCHANGED <<aceVars, touchVars, keyVars, textVars>>
     \/ part = "fingers" /\ TouchNext /\ UNCHANGED <<aceVars, uiVars, keyVars, textVars>>
     \/ part = "keys" /\ Next /\ UNCHANGED <<aceVars, uiVars, touchVars, textVars>>
     \/ part = "typing" /\ TextNext /\ UNCHANGED <<aceVars, uiVars, touchVars, keyVars>>

ContentSpec == ContentInit /\ [][ContentNext]_vars
=============================================================================
