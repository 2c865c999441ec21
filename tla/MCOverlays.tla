------------------------------ MODULE MCOverlays ------------------------------
(***************************************************************************)
(* What is shown above a page: what is dragged, and a subwindow with its   *)
(* popup, menu, dialog and sheet.  They are modelled apart and explored    *)
(* one at a time: a behaviour chooses one of them and is a behaviour of    *)
(* that one, in which the other stays as it begins.                        *)
(***************************************************************************)
EXTENDS DragInteraction, Subwindow

VARIABLE part

OverlaysInit ==
  /\ part \in {"drags", "subwindow"}
  /\ Init /\ SubInit

OverlaysNext ==
  /\ UNCHANGED part
  /\ \/ part = "drags" /\ Next /\ UNCHANGED subVars
     \/ part = "subwindow" /\ SubNext /\ UNCHANGED vars

OverlaysSpec == OverlaysInit /\ [][OverlaysNext]_<<part, vars, subVars>>

=============================================================================
