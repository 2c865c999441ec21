----------------------- MODULE MCAccessibilityManager -----------------------
(***************************************************************************)
(* A page of two nodes and a popup.                                        *)
(***************************************************************************)
EXTENDS AccessibilityManager, TLC

MCSymmetry == Permutations(Nodes)
=============================================================================
