----------------------------- MODULE BundleFiles -----------------------------
(***************************************************************************)
(* What a name stands for in the application's bundle: NavigationRouteIos  *)
(* finds and loads the page of a route, FileAssetProvider the file of an   *)
(* asset among the base paths of a content.                                *)
(***************************************************************************)
EXTENDS Integers, Sequences, SequencesExt

CONSTANTS
  NoItem,        \* no route item, and no callback to load one with
  NotRegistered  \* ERROR_CODE_BUILDER_FUNCTION_NOT_REGISTERED, neither 0 nor -1

Named(items, name) == SelectSeq(items, LAMBDA item : item.name = name)

\* InitRouteMap (the bundle's items, external): those of all its modules, in order.
AllRouteItems(modules) == FlattenSeq(modules)

GetRouteItemFromBundle(modules, name) ==
  LET items == Named(AllRouteItems(modules), name)
  IN  IF items = <<>> THEN NoItem ELSE Head(items)

IsNavigationItemExits(modules, names, name) ==
  name \in ToSet(names) \/ GetRouteItemFromBundle(modules, name) # NoItem

\* The first item of the name in each module that has one is loaded until one succeeds.
LoadPageFromHapModule(modules, name, load) ==
  LET having == SelectSeq(modules, LAMBDA items : Named(items, name) # <<>>)
      results == [k \in DOMAIN having |-> load[Head(Named(having[k], name))]]
  IN  IF results = <<>> THEN -1 ELSE IF 0 \in ToSet(results) THEN 0 ELSE Last(results)

\* mutant: what was asked for is remembered.
LoadPageRecordsAll(modules, names, name, load) ==
  LET item == GetRouteItemFromBundle(modules, name)
  IN  CASE item = NoItem -> [result |-> NotRegistered, names |-> names]
        [] load = NoItem -> [result |-> -1, names |-> names]
        [] OTHER -> [result |-> LoadPageFromHapModule(modules, name, load),
                     names |-> Append(names, name)]

\* The bundle's item is loaded, and remembered if that succeeds; then the modules'.
LoadPage(modules, names, name, load) ==
  LET item == GetRouteItemFromBundle(modules, name)
  IN  CASE item = NoItem -> [result |-> NotRegistered, names |-> names]
        [] load = NoItem -> [result |-> -1, names |-> names]
        [] OTHER -> [result |-> LoadPageFromHapModule(modules, name, load),
                     names |-> IF load[item] = 0 THEN Append(names, name) ELSE names]

\* A name that is remembered (HasLoaded) was loaded, to the caller too, and exists; a page
\* whose load succeeded is remembered, unless only another module's item could be loaded,
\* whose load is repeated at every navigation.
LoadedIsRemembered(modules, name, load) ==
  LET after == LoadPage(modules, <<>>, name, load)
      having == {k \in DOMAIN modules : Named(modules[k], name) # <<>>}
  IN  /\ name \in ToSet(after.names) =>
           after.result = 0 /\ IsNavigationItemExits(modules, <<>>, name)
      /\ after.result = 0 /\ name \notin ToSet(after.names) => \E j, k \in having : j < k

-----------------------------------------------------------------------------
\* Under each base path an asset is a file, is something that opens and cannot be read
\* as one (a directory, a file that ends early), or is not there.
States == {"file", "unreadable", "none"}

\* The first base path that will do, 0 if there is none.
FirstOf(paths, states) ==
  LET will == {i \in DOMAIN paths : paths[i] \in states}
  IN  IF will = {} THEN 0 ELSE Min(will)

\* mutant: the first that opens must be read.
GetAsMappingOfFirst(paths) ==
  LET i == FirstOf(paths, {"file", "unreadable"})
  IN  IF i # 0 /\ paths[i] = "file" THEN i ELSE 0

GetAsMapping(paths) == FirstOf(paths, {"file"})

GetAssetPath(paths) == FirstOf(paths, {"file", "unreadable"})

\* An asset that is a file under some base path is read; the path that is said to be its
\* own is the one it is read from, unless something of its name comes first that is no file.
AssetIsFound(paths) ==
  LET read == GetAsMapping(paths)
  IN  /\ (\E i \in DOMAIN paths : paths[i] = "file") => read # 0
      /\ read # 0 /\ GetAssetPath(paths) # read =>
           \E i \in 1 .. read - 1 : paths[i] = "unreadable"
=============================================================================
