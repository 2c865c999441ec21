----------------------------- MODULE ContentStart -----------------------------
(***************************************************************************)
(* What a content takes from its ability when it is made: the directory    *)
(* of its module, its pages, where the resources are, and what the         *)
(* configuration says of fonts, locale and orientation; the process keeps  *)
(* some of it, the container and its pipeline the rest.                    *)
(*                                                                         *)
(* A path is the sequence of its directories and its file.  A scale is in  *)
(* tenths; Absent is an empty item, a null string or an object that is     *)
(* not there.                                                              *)
(***************************************************************************)
EXTENDS Integers, Sequences, SequencesExt

CONSTANT Absent

Smaller(a, b) == IF a < b THEN a ELSE b

\* Does the path have a directory of this name?
HasDirectory(path, name) == name \in ToSet(Front(path))

-----------------------------------------------------------------------------
\* CommonInitialize: a module none of whose files was installed was loaded later, and is
\* among the application's data.  A directory anywhere in a path counts.
HapPath(module, installed) ==
  IF \E path \in installed : HasDirectory(path, module) THEN <<"bundle", module>>
  ELSE <<"data", module>>

\* The pages of a module that has a description, in a file if they are so named.
PageProfile(hap) ==
  CASE hap = Absent -> [name |-> "", file |-> FALSE]
    [] hap # Absent -> [name |-> hap.pages, file |-> hap.profile]

\* InitAceInfoFromResConfig: whatever is not said stays as the process has it.
Locale(process, resources) ==
  IF resources = Absent THEN process.locale
  ELSE IF resources.locale = Absent THEN <<"", "", "">>
  ELSE [i \in 1..3 |-> IF resources.locale[i] = Absent THEN "" ELSE resources.locale[i]]

\* The system's scale, but no more than the application's highest.
ScaleOf(config) ==
  IF config.max = Absent THEN config.system ELSE Smaller(config.system, config.max)

InitAceInfoFromResConfig(process, resources, config) ==
  [locale |-> Locale(process, resources),
   pointing |-> IF resources = Absent THEN process.pointing ELSE resources.pointing,
   fontScale |-> IF config = Absent \/ config.system = Absent THEN process.fontScale
                 ELSE ScaleOf(config),
   orientation |-> IF config = Absent \/ config.direction = Absent THEN process.orientation
                   ELSE IF config.direction = "vertical" THEN 1 ELSE 2]

\* A configuration that has what the pipeline's font depends on.
IsComplete(config) ==
  config # Absent /\ Absent \notin {config.max, config.follow, config.system}

\* mutant: the scale is the pipeline's if just the system's and the highest are there.
UpdateFontScaleUnasked(ratio, config) ==
  IF config # Absent /\ Absent \notin {config.max, config.system} THEN ScaleOf(config) ELSE ratio

\* The pipeline has the font ratio of the resources, until a configuration has all items.
UpdateFontScale(ratio, config) ==
  IF ~IsComplete(config) THEN ratio
  ELSE IF config.follow = "followSystem" THEN ScaleOf(config) ELSE 10

\* mutant: one directory too few is taken off the path.
SetResPathsOfFile(sysResPath) == Front(sysResPath)

\* SetResPaths: the package is above the directory of the index, and above "systemres".
SetResPaths(sysResPath) ==
  LET directory == Front(sysResPath)
  IN  IF Len(directory) > 1 /\ Last(directory) = "systemres" THEN Front(directory) ELSE directory

\* ResourceAdapterImplV2::Init: where the adapter looks for the system's resources.
SysResIndex(packagePath) == packagePath \o <<"systemres", "resources.index">>

\* Light, unless the resources are there and say dark.
Scheme(resources) == IF resources # Absent /\ resources.dark THEN "dark" ELSE "light"

\* CommonInitialize of a page's content: without an ability nothing is made; a module
\* that has no description of its own has no directory and no pages.
CommonInitialize(process, context) ==
  LET told == InitAceInfoFromResConfig(process, context.resources, context.config)
  IN  IF context.ability = Absent THEN [process |-> told, container |-> Absent]
      ELSE [process |-> told,
            container |->
              [hapPath |-> IF context.ability.isModuleJson
                           THEN HapPath(context.ability.module, context.installed) ELSE Absent,
               pages |-> IF context.ability.isModuleJson THEN PageProfile(context.ability.hap)
                         ELSE PageProfile(Absent),
               packagePath |-> SetResPaths(context.sysResPath),
               scheme |-> Scheme(context.resources),
               fontScale |-> UpdateFontScale(10, context.config)]]

-----------------------------------------------------------------------------
\* The index of the system's resources is found where the ability said it is, whatever
\* the package is called; a page that follows the system has the scale the process has,
\* never more than the highest, and one that does not has its own; a module with a file
\* installed is taken from the bundle.
StartsAsConfigured(process, context) ==
  LET made == CommonInitialize(process, context)
      config == context.config
  IN  made.container # Absent =>
        /\ SysResIndex(made.container.packagePath) = context.sysResPath
        /\ IsComplete(config) =>
             /\ made.container.fontScale =
                  IF config.follow = "followSystem" THEN made.process.fontScale ELSE 10
             /\ made.container.fontScale <= config.max
        /\ context.ability.isModuleJson =>
             (made.container.hapPath[1] = "bundle" <=>
                \E path \in context.installed : path[2] = context.ability.module)
=============================================================================
