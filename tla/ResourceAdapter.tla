--------------------------- MODULE ResourceAdapter ---------------------------
(***************************************************************************)
(* ResourceAdapterImplV2: what ArkUI asks of the application's resources.  *)
(* An adapter asks the resource manager of the engine, which holds the     *)
(* indexes of the application's and of the system's resources and picks,   *)
(* of the variants of a resource, the one for its configuration.           *)
(*                                                                         *)
(* A resource is known by its identifier and by its name, and a value is   *)
(* what the manager found: which resource, of which kind, for which        *)
(* configuration.  Every getter comes with what it returns when there is   *)
(* no manager and when the manager finds nothing.                          *)
(***************************************************************************)
EXTENDS SequencesExt

CONSTANTS
  Indexes,      \* the resources.index files that exist, each a set of resources
  NoManager,
  Missing       \* the manager's answer when it has no such resource

\* Of indexes, a set of resources [id, name, kind, content]; name is what a resource is
\* called in its index.
ResourceAssumption == NoManager \notin [indexes : SUBSET DOMAIN Indexes]

-----------------------------------------------------------------------------
(***************************************************************************)
(* The manager of the engine.                                              *)
(***************************************************************************)
CreateResourceManager == [indexes |-> {}, config |-> <<>>]

AddResource(m, path) ==
  IF path \in DOMAIN Indexes THEN [m EXCEPT !.indexes = @ \cup {path}] ELSE m

UpdateResConfig(m, config) == [m EXCEPT !.config = config]

Resources(m) == UNION {Indexes[path] : path \in m.indexes}

Resolve(m, Is(_)) ==
  IF \E r \in Resources(m) : Is(r)
  THEN [resource |-> CHOOSE r \in Resources(m) : Is(r), config |-> m.config]
  ELSE Missing

ById(m, kind, id) == LET Is(r) == r.kind = kind /\ r.id = id IN Resolve(m, Is)
ByName(m, kind, name) == LET Is(r) == r.kind = kind /\ r.name = name IN Resolve(m, Is)

\* What a getter returns: none without a manager, nothing when there is no answer.
Result(m, answer, none, nothing) ==
  IF m = NoManager THEN none ELSE IF answer = Missing THEN nothing ELSE answer

Found(m, answer) == m # NoManager /\ answer # Missing

-----------------------------------------------------------------------------
(***************************************************************************)
(* The configuration, and the manager made for it.                         *)
(***************************************************************************)
ConvertDeviceTypeToGlobal(type) ==
  CASE type = "phone" -> "DEVICE_PHONE" [] type = "tv" -> "DEVICE_TV"
    [] type = "watch" -> "DEVICE_WEARABLE" [] type = "car" -> "DEVICE_CAR"
    [] type = "tablet" -> "DEVICE_TABLET" [] OTHER -> "DEVICE_NOT_SET"

ConvertDirectionToGlobal(orientation) ==
  CASE orientation = "portrait" -> "DIRECTION_VERTICAL"
    [] orientation = "landscape" -> "DIRECTION_HORIZONTAL"
    [] OTHER -> "DIRECTION_NOT_SET"

ConvertColorModeToGlobal(mode) == IF mode \in {"dark", "light"} THEN mode ELSE "NOT_SET"

\* The locale is the application's, whatever the configuration says.
ConvertConfigToGlobal(config, locale) ==
  [locale |-> locale,
   deviceType |-> ConvertDeviceTypeToGlobal(config.deviceType),
   direction |-> ConvertDirectionToGlobal(config.orientation),
   density |-> config.density,
   colorMode |-> ConvertColorModeToGlobal(config.colorMode)]

\* The system's index is in the package, the application's are in the parts of hapPath;
\* when hapPath is empty only the system's is read, into a manager of its own.
AdapterInit(m, hapPath, config, locale) ==
  LET global == ConvertConfigToGlobal(config, locale)
      Manager == IF m = NoManager THEN CreateResourceManager ELSE m
      AddHap(acc, path) == AddResource(AddResource(acc, path), "systemres")
  IN  IF hapPath = <<>>
      THEN UpdateResConfig(AddResource(CreateResourceManager, "systemres"), global)
      ELSE UpdateResConfig(FoldLeft(AddHap, Manager, hapPath), global)

UpdateConfig(m, config, locale) ==
  IF m = NoManager THEN m ELSE UpdateResConfig(m, ConvertConfigToGlobal(config, locale))

GetResourceColorMode(m) ==
  IF m # NoManager /\ m.config.colorMode = "dark" THEN "dark" ELSE "light"

\* The overriding configuration of the manager, where a change says so.
GetOverrideResourceAdapter(m, config, change) ==
  LET own == m.config
  IN  IF m = NoManager THEN NoManager
      ELSE [m EXCEPT !.config =
              [own EXCEPT
                 !.colorMode = IF change.colorModeUpdate
                               THEN ConvertColorModeToGlobal(config.colorMode) ELSE @,
                 !.direction = IF change.directionUpdate
                               THEN ConvertDirectionToGlobal(config.orientation) ELSE @,
                 !.density = IF change.dpiUpdate THEN config.density ELSE @]]

-----------------------------------------------------------------------------
(***************************************************************************)
(* Getters.  A name is a sequence of the parts between its dots, and a     *)
(* resource is named app.kind.name.                                        *)
(***************************************************************************)
GetActualResourceName(resName) == IF Len(resName) < 2 THEN <<>> ELSE <<Last(resName)>>

Named(m, kind, resName) == ByName(m, kind, GetActualResourceName(resName))

ParseDimensionUnit(unit) ==
  CASE unit = "px" -> "PX" [] unit = "fp" -> "FP" [] unit = "lpx" -> "LPX"
    [] unit = "%" -> "PERCENT" [] OTHER -> "VP"

\* A dimension is what was found and its unit; one that was not found is 0 vp.
Dimension(answer) ==
  [value |-> IF answer = Missing THEN 0 ELSE answer,
   unit |-> ParseDimensionUnit(IF answer = Missing THEN "" ELSE answer.resource.content)]

GetColor(m, id) == Result(m, ById(m, "color", id), 0, 0)
GetColorByName(m, name) == Result(m, Named(m, "color", name), 0, 0)

GetDimension(m, id) == Dimension(IF m = NoManager THEN Missing ELSE ById(m, "float", id))
GetDimensionByName(m, name) ==
  IF m = NoManager THEN [value |-> 0, unit |-> "PX"] ELSE Dimension(Named(m, "float", name))

GetString(m, id) == Result(m, ById(m, "string", id), "", "")
\* mutant: the kind of the getter it was copied from.
StringNamedAsColor(m, name) == Result(m, Named(m, "color", name), "", "")

GetStringByName(m, name) == Result(m, Named(m, "string", name), "", "")
\* The name as it is: it must already be the resource's.
GetStringFormatByName(m, name) == Result(m, ByName(m, "string", name), "", "")
GetPluralString(m, id) == Result(m, ById(m, "plural", id), "", "")
GetPluralStringByName(m, name) == Result(m, Named(m, "plural", name), "", "")
GetStringArray(m, id) == Result(m, ById(m, "strarray", id), <<>>, <<>>)
GetStringArrayByName(m, name) == Result(m, Named(m, "strarray", name), <<>>, <<>>)

GetDouble(m, id) == Result(m, ById(m, "float", id), 0, 0)
GetDoubleByName(m, name) == Result(m, Named(m, "float", name), 0, 0)
GetInt(m, id) == Result(m, ById(m, "integer", id), 0, 0)
GetIntByName(m, name) == Result(m, Named(m, "integer", name), 0, 0)
GetBoolean(m, id) == Result(m, ById(m, "boolean", id), FALSE, FALSE)
GetBooleanByName(m, name) == Result(m, Named(m, "boolean", name), FALSE, FALSE)

\* What a call may return: the elements are written past the end of a vector that is and
\* stays empty, which is undefined unless there are none.
Transformed(answer) ==
  IF answer = Missing \/ answer.resource.content = <<>>
  THEN {<<"returns", <<>>>>} ELSE {<<"returns", <<>>>>, <<"undefined">>}

GetIntArray(m, id) == Transformed(IF m = NoManager THEN Missing ELSE ById(m, "intarray", id))
GetIntArrayByName(m, name) ==
  Transformed(IF m = NoManager THEN Missing ELSE Named(m, "intarray", name))

File(m, answer) == IF Found(m, answer) THEN <<"file:///", answer>> ELSE ""

GetMediaPath(m, id) == File(m, ById(m, "media", id))
GetMediaPathByName(m, name) == File(m, Named(m, "media", name))
GetRawfile(m, name) == File(m, ByName(m, "rawfile", name))

\* Of a raw file, and of media by identifier and by name: is there any, and the data.  The
\* bundle and module asked for are only logged, and a name is taken as it is.
FoundData(m, answer) == IF Found(m, answer) THEN <<TRUE, answer>> ELSE <<FALSE>>

GetRawFileData(m, name) == FoundData(m, ByName(m, "rawfile", name))
GetRawFileDataOf(m, name, bundle, module) == GetRawFileData(m, name)
GetMediaData(m, id) == FoundData(m, ById(m, "media", id))
GetMediaDataOf(m, id, bundle, module) == GetMediaData(m, id)
GetMediaDataByName(m, name) == FoundData(m, ByName(m, "media", name))
GetMediaDataByNameOf(m, name, bundle, module) == GetMediaDataByName(m, name)

GetMediaById(m, id) == FoundData(m, ById(m, "media", id))
CloseRawFileDescription(m, name) == Found(m, ByName(m, "rawfile", name))
GetRawFD(m, name) == FoundData(m, ByName(m, "rawfile", name))
GetRawFileDescription(m, name) == FoundData(m, ByName(m, "rawfile", name))

GetResId(m, kind, name) ==
  LET answer == ByName(m, kind, name)
  IN  IF Found(m, answer) THEN answer.resource.id ELSE -1
GetSymbolByName(m, name) == Result(m, Named(m, "symbol", name), -1, 0)
GetSymbolById(m, id) == Result(m, ById(m, "symbol", id), -1, 0)

-----------------------------------------------------------------------------
(***************************************************************************)
(* Themes.  A theme and the pattern of a component are maps of attributes  *)
(* to values; of a value it only matters how it is to be read:             *)
(*   [hash, color, slash, reference : BOOLEAN, number : BOOLEAN, unit]     *)
(* does it begin with #, have $color:, / or ?theme: in it, and what        *)
(* follows the number.                                                     *)
(***************************************************************************)
CONSTANTS Patterns, TextAttributes, Background, ThemeIds, Ohos

\* A device's theme, when none is asked for.
CheckThemeId(id, deviceType) ==
  IF id \in ThemeIds THEN id ELSE
  IF deviceType \in {"phone", "unknown", "car"} THEN "light" ELSE "dark"

\* mutant: a text is a text only if it does not look like a reference.
AttributeOfReferenceFirst(name, v) ==
  IF v.hash \/ v.color THEN "color" ELSE
  IF v.slash THEN "media" ELSE
  IF v.reference THEN "reference" ELSE
  IF name \in TextAttributes THEN "string" ELSE
  IF v.unit = "" THEN "double" ELSE "dimension"

AttributeOf(name, v) ==
  IF v.hash \/ v.color THEN "color" ELSE
  IF v.slash THEN "media" ELSE
  IF name \in TextAttributes THEN "string" ELSE
  IF v.reference THEN "reference" ELSE
  IF v.unit = "" THEN "double" ELSE "dimension"

\* Every unit but fp and sp is taken for vp.
ThemeUnit(unit) == IF unit \in {"fp", "sp"} THEN "FP" ELSE "VP"

Attribute(name, v) ==
  [type |-> AttributeOf(name, v),
   unit |-> IF AttributeOf(name, v) = "dimension" THEN ThemeUnit(v.unit) ELSE ""]

ParseContent(raw) == [name \in DOMAIN raw |-> Attribute(name, raw[name])]

NoTheme == [attributes |-> <<>>, patterns |-> <<>>]

\* The theme and, when it is found, the one of the system; the patterns of the components
\* that have any; the background is a color whatever it looks like.
GetTheme(m, themes, patterns, id, deviceType) ==
  LET own == CheckThemeId(id, deviceType)
      found == own \in DOMAIN themes
      empty == [name \in {} |-> "none"]
      raw == IF ~found THEN empty ELSE
             IF Ohos \in DOMAIN themes THEN themes[own] @@ themes[Ohos] ELSE themes[own]
      styled == {p \in Patterns \cap DOMAIN patterns : DOMAIN patterns[p] # {}}
      parsed == ParseContent(raw)
  IN  IF m = NoManager \/ (styled = {} /\ DOMAIN raw = {})
      THEN NoTheme
      ELSE [attributes |-> IF Background \in DOMAIN raw
                           THEN [parsed EXCEPT ![Background] = [type |-> "color", unit |-> ""]]
                           ELSE parsed,
            patterns |-> [p \in styled |-> ParseContent(patterns[p])]]

-----------------------------------------------------------------------------
\* A text of a theme or of a component's pattern that is no color and names no file stays
\* that text, even if it looks like a reference or a number; and what the device's own
\* theme says the system's does not change.
TextsStay(m, themes, patterns, id, deviceType) ==
  LET theme == GetTheme(m, themes, patterns, id, deviceType)
      own == CheckThemeId(id, deviceType)
      Text(v) == ~v.hash /\ ~v.color /\ ~v.slash
  IN  theme # NoTheme =>
        /\ \A p \in DOMAIN theme.patterns : \A name \in TextAttributes \cap DOMAIN patterns[p] :
             Text(patterns[p][name]) => theme.patterns[p][name].type = "string"
        /\ own \in DOMAIN themes =>
             \A name \in DOMAIN themes[own] \ {Background} :
               theme.attributes[name] = Attribute(name, themes[own][name])
=============================================================================
