SPECIFICATION StageSpec
CHECK_DEADLOCK FALSE
CONSTANTS
  help = help
  Controllers = {0, 1, 10}
  Abilities = {"entry", "other"}
  abilityOf <- AbilityOf
  containing <- Containing
  Singletons = {"other"}
INVARIANTS TopInForeground WindowsFollowAbility StageAgrees
PROPERTIES TerminatedEnds DestroysOwnOnly
