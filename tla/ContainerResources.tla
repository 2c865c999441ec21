-------------------------- MODULE ContainerResources --------------------------
(***************************************************************************)
(* The resource adapters of a container.  ArkUI's ResourceManager, which   *)
(* all containers share, keeps one per module of the application: the      *)
(* theme's, for the module of the page and for code that names none, and   *)
(* one for every other module whose resources are used, made when they     *)
(* first are, on the UI thread or on a worker.  The container records the  *)
(* others as they are made, by a task of the UI thread if a worker makes   *)
(* one, and lets go of all it knows when it is destroyed.                  *)
(***************************************************************************)
EXTENDS ResourceAdapter

CONSTANTS
  Modules,      \* other modules of the application
  Own,          \* the module of the page
  Default,      \* no module named
  Workers,
  ColorModes,
  NoColor,      \* the page asks for no colour mode of its own
  MaxChanges    \* bound: changes of configuration

ContainerAssumption ==
  /\ Own # Default /\ {Own, Default} \cap Modules = {}
  /\ NoColor \notin ColorModes /\ MaxChanges \in Nat

VARIABLES
  container,   \* [alive, themed, config, localColor, record]
  cache,       \* ResourceManager's adapters of this container: module -> manager
  tasks,       \* the UI thread's: modules to be recorded
  workers,     \* what each worker is making
  changes,
  racing       \* history: what was being made when the container was destroyed

vars == <<container, cache, tasks, workers, changes, racing>>

Idle == <<>>

Phone(mode) ==
  [deviceType |-> "phone", orientation |-> "portrait", density |-> 1, colorMode |-> mode]

Init ==
  /\ \E mode \in ColorModes :
       container = [alive |-> TRUE, themed |-> FALSE, config |-> Phone(mode),
                    localColor |-> NoColor, record |-> {}]
  /\ cache = [module \in {} |-> NoManager] /\ tasks = {}
  /\ workers = [w \in Workers |-> Idle] /\ changes = 0 /\ racing = {}

With(adapters, modules, m) ==
  [module \in modules \cup DOMAIN adapters |-> IF module \in modules THEN m ELSE adapters[module]]

\* InitResourceAndThemeManager: one adapter, for the page's module and for no module.
LoadTheme ==
  /\ ~container.themed
  /\ container' = [container EXCEPT !.themed = TRUE]
  /\ cache' = With(cache, {Default, Own}, AdapterInit(NoManager, <<"app">>, container.config, "en"))
  /\ UNCHANGED <<tasks, workers, changes, racing>>

\* GetAbilityContextByModule: the module's context, if it has one, knows its resources.
\* Two adapters made for one context share its manager, and what either is told; here
\* each has the configuration of when it was made.
ManagerOf(module) ==
  IF module \in DOMAIN Indexes THEN AddResource(CreateResourceManager, module)
  ELSE AdapterInit(NoManager, <<"app">>, container.config, "en")

CreateNewResourceAdapter(module) ==
  UpdateConfig(ManagerOf(module),
               [container.config EXCEPT !.colorMode = IF container.localColor = NoColor THEN @
                                                      ELSE container.localColor],
               "en")

\* On the UI thread the module is recorded at once.
UseOnUIThread(module) ==
  /\ container.alive /\ module \notin DOMAIN cache
  /\ cache' = With(cache, {module}, CreateNewResourceAdapter(module))
  /\ container' = [container EXCEPT !.record = @ \cup {module}]
  /\ UNCHANGED <<tasks, workers, changes, racing>>

\* On a worker a task is posted to record it, and the adapter is cached when it is made.
UseOnWorker(w, module) ==
  /\ container.alive /\ module \notin DOMAIN cache /\ workers[w] = Idle
  /\ tasks' = tasks \cup {module}
  /\ workers' = [workers EXCEPT ![w] = <<module, CreateNewResourceAdapter(module)>>]
  /\ UNCHANGED <<container, cache, changes, racing>>

Made(w) ==
  /\ workers[w] # Idle
  /\ cache' = With(cache, {workers[w][1]}, workers[w][2])
  /\ workers' = [workers EXCEPT ![w] = Idle]
  /\ UNCHANGED <<container, tasks, changes, racing>>

RecordResAdapter(module) ==
  /\ module \in tasks
  /\ tasks' = tasks \ {module}
  /\ container' = IF container.alive THEN [container EXCEPT !.record = @ \cup {module}]
                  ELSE container
  /\ UNCHANGED <<cache, workers, changes, racing>>

\* The theme's adapter is told; those of other modules are not.  Without a theme manager the
\* code returns before it stores anything.
UpdateConfiguration(mode) ==
  /\ container.alive /\ container.themed /\ changes < MaxChanges
  /\ changes' = changes + 1
  /\ LET config == [container.config EXCEPT !.colorMode = mode]
     IN  /\ container' = [container EXCEPT !.config = config]
         /\ cache' = With(cache, {Default, Own} \cap DOMAIN cache,
                          UpdateConfig(cache[Own], config, "en"))
  /\ UNCHANGED <<tasks, workers, racing>>

SetLocalColorMode(mode) ==
  /\ container.alive /\ changes < MaxChanges
  /\ changes' = changes + 1
  /\ container' = [container EXCEPT !.localColor = mode]
  /\ UNCHANGED <<cache, tasks, workers, racing>>

\* mutant: the recorded modules are forgotten, not let go of.
LetGoWithoutRecord == {Default, Own}

\* ReleaseResourceAdapter, of AceContainerSG::Destroy.
LetGo == container.record \cup {Default, Own}

Destroy ==
  /\ container.alive
  /\ container' = [container EXCEPT !.alive = FALSE, !.record = {}]
  /\ cache' = [module \in DOMAIN cache \ LetGo |-> cache[module]]
  /\ racing' = tasks \cup {workers[w][1] : w \in {x \in Workers : workers[x] # Idle}}
               \cup (IF container.themed THEN {} ELSE {Default, Own})
  /\ UNCHANGED <<tasks, workers, changes>>

Next ==
  \/ LoadTheme \/ Destroy
  \/ \E module \in Modules :
       \/ UseOnUIThread(module) \/ RecordResAdapter(module)
       \/ \E w \in Workers : UseOnWorker(w, module)
  \/ \E w \in Workers : Made(w)
  \/ \E mode \in ColorModes : UpdateConfiguration(mode)
  \/ \E mode \in ColorModes \cup {NoColor} : SetLocalColorMode(mode)

Spec == Init /\ [][Next]_vars

-----------------------------------------------------------------------------
\* Whatever made them and whenever they were recorded, no adapter outlives its container
\* but those that were still being made, or recorded, when it was destroyed.
AdaptersReleased == ~container.alive => DOMAIN cache \subseteq racing

\* Every adapter of a living container is known to it or about to be.
AdaptersKnown ==
  container.alive => DOMAIN cache \subseteq container.record \cup tasks \cup {Default, Own}

\* By identifier and by its full name a resource is the same, and the same as in the
\* module's own manager: the value for the configuration its adapter was told last.
LookupsAgree(m) ==
  \A r \in Resources(m) :
    LET name == <<"app", r.kind>> \o r.name
    IN  CASE r.kind = "color" -> GetColor(m, r.id) = GetColorByName(m, name)
          [] r.kind = "string" -> GetString(m, r.id) = GetStringByName(m, name)
          [] r.kind = "plural" -> GetPluralString(m, r.id) = GetPluralStringByName(m, name)
          [] r.kind = "strarray" -> GetStringArray(m, r.id) = GetStringArrayByName(m, name)
          [] r.kind = "float" -> /\ GetDouble(m, r.id) = GetDoubleByName(m, name)
                                 /\ GetDimension(m, r.id) = GetDimensionByName(m, name)
          [] r.kind = "integer" -> GetInt(m, r.id) = GetIntByName(m, name)
          [] r.kind = "boolean" -> GetBoolean(m, r.id) = GetBooleanByName(m, name)
          [] r.kind = "intarray" -> GetIntArray(m, r.id) = GetIntArrayByName(m, name)
          [] r.kind = "media" -> GetMediaPath(m, r.id) = GetMediaPathByName(m, name)
          [] r.kind = "symbol" -> GetSymbolById(m, r.id) = GetSymbolByName(m, name)
          [] OTHER -> TRUE
=============================================================================
