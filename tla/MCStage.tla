------------------------------- MODULE MCStage -------------------------------
(***************************************************************************)
(* The stack of abilities and the map of all windows: parts of the stage   *)
(* that are modelled apart, explored one at a time.  A behaviour chooses   *)
(* one of them and is a behaviour of that one.                             *)
(*                                                                         *)
(* The controllers are called by their instance ids; the name of instance  *)
(* 10 contains that of instance 1.  Dialog 1 of the ability 0 has the id   *)
(* of whatever gets id 1.                                                  *)
(***************************************************************************)
EXTENDS StageLifecycle, Integers

CONSTANT help

VARIABLES
  part,
  nextId, windows, windowMap, subWindowMap, listening, live, dragging

windowMaps == <<nextId, windows, windowMap, subWindowMap, listening, live, dragging>>
stageVars == <<part, vars, windowMaps>>

AbilityOf == [i \in Controllers |-> IF i = 0 THEN "other" ELSE "entry"]
Containing == [i \in Controllers |-> IF i = 1 THEN {1, 10} ELSE {i}]

Map == INSTANCE RsWindowMap WITH
  SubNames <- {help}, MaxWindows <- 5, MaxDialogs <- 2, MaxId <- 5

ASSUME StageAssumption == Map!WindowMapAssumption

StageInit == part \in {"abilities", "windows"} /\ Init /\ Map!Init

StageNext ==
  /\ UNCHANGED part
  /\ \/ part = "abilities" /\ Next /\ UNCHANGED windowMaps
     \/ part = "windows" /\ Map!Next /\ UNCHANGED vars

\* Fair to the abilities, if they were chosen: in the other part none has begun.
StageSpec == StageInit /\ [][StageNext]_stageVars /\ Fairness

-----------------------------------------------------------------------------
\* The stack, the transitions and what each controller was told fit together
\* (StageLifecycle).  What lives is found by its name and goes with its parent, and what is
\* destroyed is in no list (RsWindowMap).
StageAgrees ==
  /\ part = "abilities" => Inv
  /\ part = "windows" =>
       Map!TypeOK /\ Map!FoundWhileAlive /\ Map!GoesWithParent /\ Map!ListsNameLiving

\* A window that is destroyed takes windows below it with it, and no other that neither
\* has nor is under a shared id (RsWindowMap).
DestroysOwnOnly == Map!DestroysOwnOnly
=============================================================================
