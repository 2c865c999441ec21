---------------------------- MODULE MCAlgorithms ----------------------------
(***************************************************************************)
(* The pure functions of the adapter, each over small inputs: a call of    *)
(* one of them with one input is a behaviour of two states.                *)
(***************************************************************************)
EXTENDS MCBridgeCodec, TLC

CONSTANTS Unset, DefaultSize, NoObject

VARIABLES
  call,      \* <<the function, its input>>
  returned   \* has it returned?

vars == <<call, returned>>

Tree == INSTANCE AccessibilityTree WITH CurrentPage <- 1
Acts == INSTANCE AccessibilityActions WITH ScrollTypes <- {0, 1}, ScrollDefault <- 0
Html == INSTANCE HtmlToSpan
Message == INSTANCE WebMessage
Event == INSTANCE WebEvents
Drag == INSTANCE DragPoints
Content == INSTANCE ContentStart WITH Absent <- NoObject
Files == INSTANCE BundleFiles WITH NoItem <- NoObject, NotRegistered <- 100001
Adapter == INSTANCE ResourceAdapter WITH
  Indexes <- ("app" :> {}), NoManager <- NoObject, Missing <- NoObject, Patterns <- {"button"},
  TextAttributes <- {"ok"}, Background <- "bg_color", ThemeIds <- {"own"}, Ohos <- "ohos"

\* Trees of n nodes, each after its parent.
Shapes(n) == {p \in [1 .. n -> 0 .. n - 1] : \A i \in 1 .. n : p[i] < i /\ (p[i] = 0 <=> i = 1)}

\* The nodes of a page, each in one way different from a component.
NodeKinds ==
  {Tree!Component, [Tree!Component EXCEPT !.frame = FALSE],
   [Tree!Component EXCEPT !.active = FALSE], [Tree!Component EXCEPT !.internal = TRUE],
   [Tree!Component EXCEPT !.levelNo = TRUE], [Tree!Component EXCEPT !.group = TRUE],
   [Tree!Component EXCEPT !.virtual = TRUE], [Tree!Component EXCEPT !.tag = "page"],
   [Tree!Component EXCEPT !.tag = "page", !.page = 2]}

Root == [Tree!Component EXCEPT !.tag = "root"]

\* A component has at most one virtual tree.
Trees(n) ==
  {t \in [parent : Shapes(n),
          is : {[i \in 1 .. n |-> IF i = 1 THEN Root ELSE f[i]] : f \in [2 .. n -> NodeKinds]}] :
     /\ \A i, j \in 2 .. n :
          i # j /\ t.parent[i] = t.parent[j] => ~(t.is[i].virtual /\ t.is[j].virtual)
     /\ \A i \in 2 .. n :
          t.is[i].virtual => LET above == t.is[t.parent[i]] IN above.frame /\ above.tag = "component"}

AccessibleNodes ==
  [hub : {"none", "enabled", "disabled"}, userDisabled : {Unset, TRUE, FALSE},
   focusable : BOOLEAN, focused : BOOLEAN, accessibilityFocus : BOOLEAN,
   userChecked : {Unset}, checked : {FALSE}, userText : {Unset}, text : {""}, groupText : {""},
   gestures : SUBSET {"CLICK", "LONG_CLICK"},
   support : SUBSET {"SCROLL_FORWARD", "SET_TEXT", "COPY", "CLICK", "GLOBAL_BACK"}]

Is(key, words) == [key |-> key, side |-> "", value |-> <<words>>]
Red == <<Html!Keyword("red")>>
Px(n) == Html!Length(n, "px")

\* Elements with and without a style of their own.
Elements ==
  {<<"text", <<>>>>, <<"br", <<>>>>, <<"img", <<<<>>>>>>, <<"b", <<>>>>, <<"a", <<>>>>,
   <<"p", <<>>>>, <<"p", <<<<Is("color", Red)>>>>>>,
   <<"span", <<>>>>, <<"span", <<<<Is("color", Red)>>>>>>}

RECURSIVE AncestorsOf(_, _)
AncestorsOf(p, i) == IF p[i] = 0 THEN {} ELSE {p[i]} \cup AncestorsOf(p, p[i])

\* As an HTML parser leaves them: texts, breaks and images have no children, and no
\* paragraph is in a paragraph.
Documents(n) ==
  {[parent |-> d[1],
    tag |-> [i \in 1 .. n |-> IF i = 1 THEN "body" ELSE d[2][i][1]],
    attrs |-> [i \in 1 .. n |-> IF i = 1 THEN <<>> ELSE d[2][i][2]]] :
     d \in {x \in Shapes(n) \X [2 .. n -> Elements] :
              \A i \in 2 .. n :
                /\ x[1][i] # 1 => x[2][x[1][i]][1] \notin {"text", "br", "img"}
                /\ x[2][i][1] = "p" => \A j \in AncestorsOf(x[1], i) \ {1} : x[2][j][1] # "p"}}

Declarations ==
  {Is("color", Red), Is("foreground-color", <<Html!Keyword("blue")>>), Is("font-size", <<Px(2)>>),
   Is("font-style", <<Html!Keyword("italic")>>), Is("background-color", Red),
   Is("text-decoration", <<Html!Keyword("underline"), Html!Keyword("wavy"), Html!Keyword("red")>>),
   Is("text-decoration-line", <<Html!Keyword("overline")>>),
   Is("text-decoration-color", <<Html!Keyword("blue")>>),
   Is("letter-spacing", <<Px(3)>>), Is("letter-spacing", <<Html!Keyword("normal")>>),
   Is("line-height", <<Px(4)>>), Is("line-height", <<Html!Length(2, "")>>),
   [key |-> "text-shadow", side |-> "",
    value |-> <<<<Px(1), Px(2)>> \o Red, <<Px(3), Px(4), Px(5)>>>>],
   Is("text-align", <<Html!Keyword("center")>>), Is("text-indent", <<Px(6)>>)}

Lengths(n) == [i \in 1 .. n |-> Px(10 * n + i)]

Boxes ==
  {Is(key, Lengths(n)) : key \in {"padding", "border-radius"}, n \in 1 .. 5}
  \cup {[Is("padding", Lengths(1)) EXCEPT !.side = side] : side \in {"top", "left"}}
  \cup {[Is("border-radius", Lengths(1)) EXCEPT !.side = "top-right"], Is("margin", Lengths(3))}

Sheets(D, n) == UNION {[1 .. k -> D] : k \in 1 .. n}

Texts == UNION {[1 .. k -> {Message!Plain, Message!Quote, Message!Apostrophe,
                           Message!Backslash, Message!Newline}] : k \in 0 .. 3}

\* A setter and its value, of every type of message.
Settings ==
  ({"STRING"} \X Texts) \cup ({"ERROR"} \X {[name |-> "n", message |-> t] : t \in Texts})
  \cup {<<"BOOLEAN", TRUE>>, <<"INTEGER", 1>>, <<"DOUBLE", 2>>, <<"BINARY", <<1>>>>}
  \cup {<<type, <<"e", "f">>>> : type \in Message!Arrays}

\* Messages that were set before.
Before ==
  {Message!NewMessage, Message!SetValue(Message!NewMessage, "BOOLEAN", FALSE),
   Message!SetValue(Message!NewMessage, "INTEGER", 3),
   Message!SetValue(Message!NewMessage, "STRING", <<Message!Quote>>),
   Message!SetValue(Message!SetValue(Message!NewMessage, "STRINGARRAY", <<"g">>), "DOUBLE", 4)}

\* What a page may post.
Bodies ==
  [js : {"string"}, kind : {""}, value : Texts]
  \cup [js : {"boolean", "number"}, kind : {"int", "double"}, value : {1, 2}]
  \cup [js : {"array"}, kind : {"string", "boolean", "int", "double"},
        value : {<<>>, <<"e">>, <<"e", "f">>}]
  \cup [js : {"object", "nothing"}, kind : {""}, value : {<<>>}]

\* What happens in an event: each fact has a value of its own or none.
Happenings(event) ==
  LET facts == {Event!Facts[event][getter] : getter \in DOMAIN Event!Facts[event]}
               \cup (IF event = "onScaleChange" THEN {"newScale"} ELSE {})
  IN  {[fact \in facts |-> IF fact \in some THEN fact ELSE ""] : some \in SUBSET facts}

\* A value that is a color, a path, a number or a word, and what may look like a reference.
ThemeValue(kind, reference) ==
  [hash |-> kind = "hash", color |-> FALSE, slash |-> kind = "path", reference |-> reference,
   number |-> kind = "number", unit |-> IF kind = "number" THEN "px" ELSE ""]

ThemeValues == {ThemeValue(kind, reference) : kind \in {"hash", "path", "number", "word"}, reference \in BOOLEAN}

Themes == {[id \in ids |-> [name \in {"bg_color", "ok"} |-> v]] : ids \in SUBSET {"own", "dark", "ohos"},
                                                              v \in ThemeValues}
          \cup {"dark" :> ("ok" :> v) @@ "ohos" :> ("ok" :> w) : v, w \in ThemeValues}

Components == {<<>>} \cup {"button" :> ("ok" :> v) : v \in ThemeValues}

Points == {<<3, 4>>, <<50, 7>>}

\* Things with a picture and without, held inside it and outside.
Dragged ==
  [pointer : {0}, at : Points,
   shadows : {<<>>} \cup {<<[size |-> size, at |-> at]>> :
                size \in {<<0, 0>>, <<20, 10>>}, at \in {<<0, 0>>, <<-5, -2>>, <<1, -2>>}}]

PointerEvents ==
  {[pointer |-> p, items |-> [q \in qs |-> [display |-> at, window |-> <<at[1] - 1, at[2] - 2>>]]] :
     p \in {0, 1}, qs \in {{0, 1}}, at \in Points}

\* What an ability has to say: nothing, a part of it, or all.
Configurations ==
  {NoObject} \cup [system : {NoObject, 8, 12, 18}, max : {NoObject, 10, 15},
                  follow : {NoObject, "followSystem", "nonFollowSystem"},
                  direction : {NoObject, "vertical", "horizontal", "auto"}]

ResourceConfigurations ==
  {NoObject} \cup [locale : {NoObject, <<"en", NoObject, "US">>}, pointing : BOOLEAN, dark : BOOLEAN]

Modules ==
  {NoObject} \cup [isModuleJson : BOOLEAN, module : {"entry"},
                  hap : {NoObject, [pages |-> "main_pages", profile |-> TRUE]}]

Contexts ==
  [sysResPath : {above \o <<"systemres", "resources.index">> :
                   above \in {<<"app">>, <<"app", "systemres">>, <<"app", "arkui-x">>}},
   ability : Modules,
   installed : {{}, {<<"bundle", "other", "ets", "x.abc">>}, {<<"bundle", "entry", "ets", "x.abc">>}},
   config : Configurations, resources : ResourceConfigurations]

\* Three modules with up to two routes each, and which of them can be loaded.
Route(name, file) == [name |-> name, file |-> file]
RouteMaps == [1 .. 3 -> UNION {[1 .. n -> {Route("home", 1), Route("home", 2), Route("other", 1)}] : n \in 0 .. 2}]
Loaders == {NoObject} \cup [{Route("home", 1), Route("home", 2), Route("other", 1)} -> {0, 1, 2}]

BasePaths == UNION {[1 .. n -> Files!States] : n \in 1 .. 4}

NewProcess == [locale |-> <<"", "", "">>, pointing |-> FALSE, fontScale |-> 10, orientation |-> 1]

Init ==
  /\ returned = FALSE
  /\ \/ call \in {"codec"} \X MCValues
     \/ call \in {"tree"} \X Trees(5)
     \/ call \in {"actions"} \X AccessibleNodes
     \/ call \in {"document"} \X Documents(5)
     \/ call \in {"text style"} \X Sheets(Declarations, 3)
     \/ call \in {"image style"} \X Sheets(Boxes, 3)
     \/ call \in {"to page"} \X Before \X Settings
     \/ call \in {"from page"} \X Bodies
     \/ call \in {"theme"} \X Themes \X Components \X {"own", "none"} \X {"phone", "tv"}
     \/ call \in {"start"} \X Contexts
     \/ call \in {"route"} \X RouteMaps \X {"home"} \X Loaders
     \/ call \in {"asset"} \X BasePaths
     \/ call \in {"drag"} \X Dragged \X {<<0, 0>>, <<100, 200>>} \X {<<60, 90>>}
                        \X {0, 90, 180, 270} \X PointerEvents
     \/ \E event \in DOMAIN Event!Facts : call \in {"event"} \X {event} \X Happenings(event)

Return == ~returned /\ returned' = TRUE /\ UNCHANGED call

Next == Return

Spec == Init /\ [][Next]_vars

-----------------------------------------------------------------------------
Of(function) == returned /\ call[1] = function

\* VoiceOver is told of the nodes of the page to be presented, each once, and parents
\* and children name one another (AccessibilityTree); and what it is offered is done when
\* it asks (AccessibilityActions).
VoiceOverServed ==
  /\ Of("tree") => Tree!PublishesThePage(call[2]) /\ Tree!ParentsAgree(call[2])
  /\ Of("actions") => Acts!OfferedIsDone(call[2])

\* The texts of a theme stay texts (ResourceAdapter), a content starts with the resources,
\* the module and the fonts its ability names (ContentStart), and routes and assets are
\* found where they are (BundleFiles).
ResourcesApply ==
  /\ Of("theme") =>
       Adapter!TextsStay(Adapter!CreateResourceManager, call[2], call[3], call[4], call[5])
  /\ Of("start") => Content!StartsAsConfigured(NewProcess, call[2])
  /\ Of("route") => Files!LoadedIsRemembered(call[2], call[3], call[4])
  /\ Of("asset") => Files!AssetIsFound(call[2])

\* A document's characters, images and styles are where a reader sees them; a style
\* sheet means the same in any order, and boxes what they mean in CSS (HtmlToSpan).
HtmlAsSeen ==
  /\ Of("document") => Html!TextAndStyleInPlace(call[2])
  /\ Of("text style") => Html!OrderIsIrrelevant(call[2])
  /\ Of("image style") => Html!BoxesOfCss(call[2])

\* What the bridges encode they decode (BridgeCodec), what is posted to a page and by a
\* page arrives (WebMessage), and the handler of an event of a web view is told what
\* happened (WebEvents).
MessagesArrive ==
  /\ Of("codec") => RoundTrip(call[2])
  /\ Of("to page") => Message!ArrivesAtPage(call[2], call[3][1], call[3][2])
  /\ Of("from page") => Message!EchoIsSame(call[2])
  /\ Of("event") => Event!EventTold(call[2], call[3])

\* A picture is dragged the way the finger goes (DragPoints).
DragGoes == Of("drag") => Drag!GoesWithFinger(call[2], call[3], call[4], call[5], call[6])
=============================================================================
