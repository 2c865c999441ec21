----------------------------- MODULE HtmlToSpan -----------------------------
(***************************************************************************)
(* HtmlToSpan: what spans of styled text an HTML document becomes.         *)
(*                                                                         *)
(* A document is a record [parent, tag, attrs] of functions on 1 .. N: the *)
(* elements and texts, each after its parent and its elder siblings, the   *)
(* root's parent being 0.  The attributes of an element are a sequence, in *)
(* order, of style sheets.  A style sheet is a sequence of declarations    *)
(* [key, value]; a value is a sequence of what its commas part, each a     *)
(* sequence of words.  A word is a keyword s, or a number n with a unit.   *)
(* Every text is one character, which stands for its node.                 *)
(***************************************************************************)
EXTENDS Integers, SequencesExt, FiniteSetsExt, Functions, TLC

CONSTANT DefaultSize   \* TEXT_DEFAULT_FONT_SIZE

Keyword(s) == [s |-> s, n |-> 0, unit |-> ""]
Length(n, unit) == [s |-> "", n |-> n, unit |-> unit]

KeywordOr(w, known, default) == IF w.s \in known THEN w.s ELSE default

StringToVerticalAlign(w) == KeywordOr(w, {"bottom", "middle", "top"}, "none")
StringToTextAlign(w) == KeywordOr(w, {"left", "right", "center", "justify"}, "left")
StringToWordBreak(w) == KeywordOr(w, {"normal", "break-all", "keep-all"}, "normal")
StringToTextOverflow(w) == KeywordOr(w, {"clip", "ellipsis"}, "none")
StringToFontStyle(w) == KeywordOr(w, {"italic"}, "normal")
StringToSuperscriptStyle(w) == KeywordOr(w, {"superscript", "subscript", "normal"}, "none")
StringToTextDecorationStyle(w) ==
  KeywordOr(w, {"dashed", "dotted", "double", "solid", "wavy"}, "solid")
ConvertStrToFit(w) == KeywordOr(w, {"fill", "contain", "cover", "scaledown", "none"}, "contain")

\* A line there is no kind for is whatever the variable held.
StringToTextDecoration(words) ==
  [i \in DOMAIN words |->
     KeywordOr(words[i], {"inherit", "line-through", "overline", "underline"}, "undefined")]

\* px is taken for vp, pt is converted, em and rem are given up; a word without a
\* digit is 0.
FromString(w) ==
  CASE w.s # "" -> <<0, "vp">>
    [] w.unit \in {"em", "rem"} -> <<DefaultSize, "fp">>
    [] w.unit = "pt" -> <<(w.n * 13 + 5) \div 10, "vp">>
    [] w.unit \in {"vp", "fp", "%", "lpx", "auto"} -> <<w.n, w.unit>>
    [] OTHER -> <<w.n, "vp">>

IsLength(w) == w.s = "" /\ w.unit \in {"", "px", "lpx"}

-----------------------------------------------------------------------------
(* A sheet's values: a function from <<what a span may style, field of it>>. *)

FontField ==
  "color" :> "fontColor" @@ "font-size" :> "fontSize" @@ "font-weight" :> "fontWeight" @@
  "font-style" :> "fontStyle" @@ "font-family" :> "fontFamilies" @@
  "stroke-width" :> "strokeWidth" @@ "stroke-color" :> "strokeColor" @@
  "font-superscript" :> "superscript"

InitFont(d) ==
  LET w == d.value[1][1] IN
  <<"font", FontField[d.key]>> :>
    CASE d.key \in {"font-size", "stroke-width"} -> FromString(w)
      [] d.key = "font-style" -> StringToFontStyle(w)
      [] d.key = "font-superscript" -> StringToSuperscriptStyle(w)
      [] d.key = "font-family" -> d.value
      [] OTHER -> w.s

InitForegroundColor(d) == <<"font", "fontColor">> :> d.value[1][1].s

InitBackgroundColor(d) == <<"backgroundColor", "backgroundColor">> :> d.value[1][1].s

ParagraphAttrs == {"text-align", "word-break", "text-overflow", "text-indent"}

InitParagraph(d) ==
  LET w == d.value[1][1] IN
  <<"paragraph", d.key>> :> CASE d.key = "text-align" -> StringToTextAlign(w)
                               [] d.key = "word-break" -> StringToWordBreak(w)
                               [] d.key = "text-overflow" -> StringToTextOverflow(w)
                               [] d.key = "text-indent" -> FromString(w)

IsDecorationLine(w) ==
  w.s \in {"none", "underline", "overline", "line-through", "blink", "inherit"}
IsDecorationStyle(w) == w.s \in {"solid", "double", "dotted", "dashed", "wavy", "inherit"}

\* The last word of each sort counts.
InitDecoration(d) ==
  LET words == d.value[1]
      line == SelectSeq(words, IsDecorationLine)
      style == SelectSeq(words, LAMBDA w : ~IsDecorationLine(w) /\ IsDecorationStyle(w))
      color == SelectSeq(words, LAMBDA w : ~IsDecorationLine(w) /\ ~IsDecorationStyle(w))
      Set(f, s, v) == IF s = <<>> THEN <<>> ELSE <<"decoration", f>> :> v
  IN  CASE d.key = "text-decoration-line" -> Set("line", words, StringToTextDecoration(words))
        [] d.key = "text-decoration-style" ->
             Set("style", words, StringToTextDecorationStyle(words[1]))
        [] d.key = "text-decoration-color" -> Set("color", words, words[1].s)
        [] d.key = "text-decoration" ->
             Set("line", line, StringToTextDecoration(<<Last(line)>>))
             @@ Set("style", style, StringToTextDecorationStyle(Last(style)))
             @@ Set("color", color, Last(color).s)
        [] OTHER -> <<>>

InitDimension(d, index) ==
  IF d.value[1][1].s = "normal" THEN <<>> ELSE <<index, "dimension">> :> FromString(d.value[1][1])

\* Without a unit it multiplies the font's size, if a font was styled before it; and
\* reads a size that is not there if the font was given none.
InitLineHeight(d, values) ==
  LET w == d.value[1][1]
      font == {k \in DOMAIN values : k[1] = "font"}
  IN  CASE w.s = "" /\ w.unit # "" -> InitDimension(d, "lineHeight")
        [] (w.s # "" \/ w.unit = "") /\ font = {} -> <<>>
        [] (w.s # "" \/ w.unit = "") /\ font # {} ->
             <<"lineHeight", "dimension">> :>
               IF <<"font", "fontSize">> \in font
               THEN <<w.n * values[<<"font", "fontSize">>][1], "vp">> ELSE "undefined"

InitShadow(words) ==
  LET lengths == SelectSeq(words, IsLength)
      others == SelectSeq(words, LAMBDA w : ~IsLength(w))
  IN  [f \in {"x", "y", "blur"} |->
         LET i == CHOOSE j \in 1..3 : <<"x", "y", "blur">>[j] = f
         IN  IF i <= Len(lengths) THEN FromString(lengths[i])[1] ELSE 0]
      @@ [color |-> IF others # <<>> THEN Last(others).s
                    ELSE IF Len(lengths) = 4 THEN "a length" ELSE ""]

InitTextShadow(d, values) ==
  LET key == <<"shadow", "shadows">>
      had == IF key \in DOMAIN values THEN values[key] ELSE <<>>
  IN  IF \E i \in DOMAIN d.value : Len(d.value[i]) \notin 2..4 THEN <<>>
      ELSE key :> had \o [i \in DOMAIN d.value |-> InitShadow(d.value[i])]

\* The declarations that only one field of a value is set by, the rest of it kept.
Initialized(d, values) ==
  CASE d.key \in DOMAIN FontField -> InitFont(d)
    [] d.key = "foreground-color" -> InitForegroundColor(d)
    [] d.key \in {"text-decoration", "text-decoration-line", "text-decoration-style",
                  "text-decoration-color"} -> InitDecoration(d)
    [] d.key = "letter-spacing" -> InitDimension(d, "letterSpacing")
    [] d.key = "text-shadow" -> InitTextShadow(d, values)
    [] d.key = "line-height" -> InitLineHeight(d, values)
    [] d.key \in ParagraphAttrs -> InitParagraph(d)
    [] d.key = "background-color" -> InitBackgroundColor(d)
    [] OTHER -> <<>>

GetStyleValue(values, set) == set @@ values

ToTextSpanStyle(sheet) ==
  FoldLeft(LAMBDA values, d : GetStyleValue(values, Initialized(d, values)), <<>>, sheet)

-----------------------------------------------------------------------------
(* An image's options: functions from <<option, side or corner>>. *)

Sides == <<"top", "right", "bottom", "left">>
Corners == <<"top-left", "top-right", "bottom-right", "bottom-left">>

\* mutant: three lengths give the last side the third.
BoxOfThree(words, i) == CASE Len(words) = 1 -> words[1]
                          [] Len(words) = 2 -> words[((i - 1) % 2) + 1]
                          [] Len(words) = 3 -> words[IF i = 4 THEN 3 ELSE i]
                          [] Len(words) = 4 -> words[i]

Box(words, i) == CASE Len(words) = 1 -> words[1]
                   [] Len(words) = 2 -> words[((i - 1) % 2) + 1]
                   [] Len(words) = 3 -> words[IF i = 4 THEN 2 ELSE i]
                   [] Len(words) = 4 -> words[i]

\* All sides, if there are one to four lengths, or the one that is named.
SetBox(option, sides, side, words) ==
  LET set == IF side = "" THEN (IF Len(words) \in 1..4 THEN 1..4 ELSE {})
             ELSE {i \in 1..4 : sides[i] = side}
  IN  [k \in {<<option, sides[i]>> : i \in set} |->
         FromString(Box(words, CHOOSE i \in 1..4 : sides[i] = k[2]))]

SetPaddingOption(d) == SetBox("padding", Sides, d.side, d.value[1])
SetMarginOption(d) == SetBox("margin", Sides, d.side, d.value[1])
SetBorderOption(d) == SetBox("border-radius", Corners, d.side, d.value[1])

HandleImageSize(d) == <<"size", d.key>> :> FromString(d.value[1][1])

HandleImgSpanOption(sheet) ==
  LET Set(d) == CASE d.key = "padding" -> SetPaddingOption(d)
                  [] d.key = "margin" -> SetMarginOption(d)
                  [] d.key = "border-radius" -> SetBorderOption(d)
                  [] d.key = "object-fit" -> <<"fit", "">> :> ConvertStrToFit(d.value[1][1])
                  [] d.key = "vertical-align" ->
                       <<"align", "">> :> StringToVerticalAlign(d.value[1][1])
                  [] d.key \in {"width", "height"} -> HandleImageSize(d)
                  [] OTHER -> <<>>
  IN  FoldLeft(LAMBDA options, d : Set(d) @@ options, <<>>, sheet)

-----------------------------------------------------------------------------
Children(doc, n) == SetToSortSeq({c \in DOMAIN doc.tag : doc.parent[c] = n}, <)

\* The characters of a span string: a text's, a line break, an image's place.
Text(n) == <<"text", n>>
Break == <<"break">>
Image == <<"image">>

\* The parts of a value, in the order of a map's keys; a sheet has one value each.
Kinds == <<"backgroundColor", "decoration", "font", "letterSpacing", "lineHeight",
           "paragraph", "shadow">>

ValuesOf(sheet) ==
  LET values == ToTextSpanStyle(sheet)
      set == SelectSeq(Kinds, LAMBDA k : \E f \in DOMAIN values : f[1] = k)
  IN  [i \in DOMAIN set |->
         [kind |-> set[i],
          is |-> Restrict(values, {f \in DOMAIN values : f[1] = set[i]})]]

\* What a tag means by itself.
AddStyleSpan(tag) ==
  LET font(f, v) == <<[kind |-> "font", is |-> <<"font", f>> :> v]>>
      line(v) == <<[kind |-> "decoration", is |-> <<"decoration", "line">> :> <<v>>]>>
  IN  CASE tag \in {"strong", "b"} -> font("fontWeight", "bold")
        [] tag = "sup" -> font("superscript", "superscript")
        [] tag = "sub" -> font("superscript", "subscript")
        [] tag \in {"del", "s"} -> line("line-through")
        [] tag = "u" -> line("underline")
        [] tag \in {"i", "em"} -> font("fontStyle", "italic")
        [] OTHER -> <<>>

AllValues(doc, n) == FlattenSeq([i \in DOMAIN doc.attrs[n] |-> ValuesOf(doc.attrs[n][i])])

Span(type, start, end, values) ==
  <<[type |-> type, start |-> start, end |-> end, values |-> values]>>

ToParagraphSpan(doc, n, start, end) ==
  Span("paragraph", start, end,
       IF doc.attrs[n] = <<>> THEN <<[kind |-> "paragraph", is |-> <<>>]>> ELSE AllValues(doc, n))

ToAnchorSpan(doc, n, start, end) ==
  Span("anchor", start, end, <<[kind |-> "url", is |-> <<>>]>> \o AllValues(doc, n))

ToImage(doc, n, start, end) ==
  Span("image", start, end, <<[kind |-> "image", is |-> HandleImgSpanOption(Last(doc.attrs[n]))]>>)

\* A span that styles nothing is not made.
ToTextSpan(doc, n, start, end) ==
  LET values == AllValues(doc, n) \o AddStyleSpan(doc.tag[n])
  IN  IF values = <<>> THEN <<>> ELSE Span("text", start, end, values)

InSpan(doc, n) == doc.parent[n] # 0 /\ doc.tag[doc.parent[n]] = "span"

Breaks(doc, n) == doc.tag[n] = "br" \/ (doc.tag[n] = "p" /\ ~InSpan(doc, n))

\* The span of an element; a paragraph in a span is not one.
SpanOf(doc, n, start, end) ==
  LET tag == doc.tag[n] IN
  CASE tag = "p" /\ Breaks(doc, n) -> ToParagraphSpan(doc, n, start, end)
    [] tag = "img" -> ToImage(doc, n, start, end)
    [] tag = "a" -> ToAnchorSpan(doc, n, start, end)
    [] tag \notin {"p", "img", "a", "br", "text"} -> ToTextSpan(doc, n, start, end)
    [] OTHER -> <<>>

Opened(at, own) == [at EXCEPT !.pos = @ + Len(own), !.content = @ \o own]

\* An image takes a place that has no character yet.
Closed(doc, n, start, inner) ==
  LET places == IF Breaks(doc, n) \/ doc.tag[n] = "img" THEN 1 ELSE 0
  IN  [pos |-> inner.pos + places,
       content |-> inner.content \o (IF Breaks(doc, n) THEN <<Break>> ELSE <<>>),
       infos |-> inner.infos \o SpanOf(doc, n, start, inner.pos + places)]

\* The text so far and the spans in it, each after those of its children.
RECURSIVE ToSpan(_, _, _)
ToSpan(doc, at, n) ==
  Closed(doc, n, at.pos,
         FoldLeft(LAMBDA acc, c : ToSpan(doc, acc, c),
                  Opened(at, IF doc.tag[n] = "text" THEN <<Text(n)>> ELSE <<>>),
                  Children(doc, n)))

\* The style a paragraph ends in is that of its line break too.
AfterProcSpanInfos(infos) ==
  LET Extend(is, p) ==
        LET last == {i \in DOMAIN is : is[i].type \notin {"paragraph", "image"}
                                       /\ is[p].end = is[i].end + 1}
        IN  IF last = {} THEN is ELSE [is EXCEPT ![Min(last)].end = @ + 1]
      paragraphs == SetToSortSeq({i \in DOMAIN infos : infos[i].type = "paragraph"}, <)
  IN  FoldLeft(Extend, infos, paragraphs)

AddImageSpans(content, info) == InsertAt(content, info.start + 1, Image)

AddSpans(info) ==
  [i \in DOMAIN info.values |->
     [kind |-> info.values[i].kind, is |-> info.values[i].is,
      start |-> info.start, end |-> info.end]]

\* mutant: in the order they were found.
GenerateSpansInOrder(content, infos) ==
  LET IsImage(i) == i.type = "image"
      rest == SelectSeq(infos, LAMBDA i : ~IsImage(i))
  IN  [text |-> FoldLeft(AddImageSpans, content, SelectSeq(infos, IsImage)),
       spans |-> FlattenSeq([i \in DOMAIN rest |-> AddSpans(rest[i])])]

\* The images first, from the first on; then the others, from the last back.
GenerateSpans(content, infos) ==
  LET IsImage(i) == i.type = "image"
      rest == Reverse(SelectSeq(infos, LAMBDA i : ~IsImage(i)))
  IN  [text |-> FoldLeft(AddImageSpans, content, SelectSeq(infos, IsImage)),
       spans |-> FlattenSeq([i \in DOMAIN rest |-> AddSpans(rest[i])])]

Generated(found) == GenerateSpans(found.content, AfterProcSpanInfos(found.infos))

ToSpanString(doc) ==
  Generated(ToSpan(doc, [pos |-> 0, content |-> <<>>, infos |-> <<>>], 1))

-----------------------------------------------------------------------------
(* What a reader of the document sees: its characters in order, each with the
   style of every kind that it is shown in. *)

OwnValues(doc, n) ==
  CASE doc.tag[n] = "p" /\ InSpan(doc, n) -> <<>>
    [] doc.tag[n] = "a" -> <<[kind |-> "url", is |-> <<>>]>> \o AllValues(doc, n)
    [] doc.tag[n] = "p" /\ ~InSpan(doc, n) -> ToParagraphSpan(doc, n, 0, 0)[1].values
    [] doc.tag[n] \in {"img", "br", "text"} -> <<>>
    [] OTHER -> AllValues(doc, n) \o AddStyleSpan(doc.tag[n])

\* Of each kind the last value.
StyleOf(values) ==
  [k \in {values[i].kind : i \in DOMAIN values} |->
     values[Max({i \in DOMAIN values : values[i].kind = k})].is]

\* The character an element is or ends in.
OwnText(doc, n) ==
  CASE doc.tag[n] = "text" -> <<Text(n)>>
    [] doc.tag[n] = "img" -> <<Image>>
    [] Breaks(doc, n) -> <<Break>>
    [] OTHER -> <<>>

Styled(text, style) == [i \in DOMAIN text |-> [is |-> text[i], style |-> style]]

RECURSIVE SeenIn(_, _, _)
SeenIn(doc, n, style) ==
  LET below == Children(doc, n) IN
  FlattenSeq([i \in DOMAIN below |-> SeenIn(doc, below[i], StyleOf(OwnValues(doc, below[i])) @@ style)])
  \o Styled(OwnText(doc, n), style)

Seen(doc) == SeenIn(doc, 1, StyleOf(OwnValues(doc, 1)))

\* What a character is shown in: of each kind, the span added last wins.
ShownAt(spans, i) ==
  LET on == {j \in DOMAIN spans : spans[j].start < i /\ i <= spans[j].end}
  IN  [k \in {spans[j].kind : j \in on} |-> spans[Max({j \in on : spans[j].kind = k})].is]

\* A string with spans looks as the characters seen do.
LooksAs(made, seen) ==
  /\ made.text = [i \in DOMAIN seen |-> seen[i].is]
  /\ \A i \in DOMAIN seen : seen[i].is # Break => ShownAt(made.spans, i) = seen[i].style
  /\ \A i \in DOMAIN made.spans :
       made.spans[i].start <= made.spans[i].end /\ made.spans[i].end <= Len(made.text)

\* The text has every character and image where the reader sees it, and every
\* character and image, however elements, images and line breaks are nested, has
\* the style of its innermost element that gives one.
TextAndStyleInPlace(doc) == LooksAs(ToSpanString(doc), Seen(doc))

\* What declarations of different things mean does not depend on their order.  Not
\* claimed of a line height without a unit, which counts only after a font and is
\* undefined after one without a size.
OrderIsIrrelevant(sheet) ==
  LET Target(d) == CASE d.key = "foreground-color" -> "color"
                     [] d.key \in {"text-decoration-line", "text-decoration-style",
                                   "text-decoration-color"} -> "text-decoration"
                     [] OTHER -> d.key
      claimed == /\ \A i, j \in DOMAIN sheet : i # j => Target(sheet[i]) # Target(sheet[j])
                 /\ \A i \in DOMAIN sheet :
                      sheet[i].key = "line-height" => sheet[i].value[1][1].unit # ""
  IN  claimed => ToTextSpanStyle(Reverse(sheet)) = ToTextSpanStyle(sheet)

\* One to four lengths mean the sides they mean in CSS, more mean nothing, and a side
\* that is named later only itself.
BoxesOfCss(sheet) ==
  LET options == HandleImgSpanOption(sheet)
      Names(d) == IF d.key = "border-radius" THEN Corners ELSE Sides
      Opposite(i) == IF i = 4 THEN 2 ELSE 1     \* what the side takes if it is not given
      Css(words, i) == IF i <= Len(words) THEN words[i]
                       ELSE IF Opposite(i) <= Len(words) THEN words[Opposite(i)] ELSE words[1]
  IN  \A i \in DOMAIN sheet, s \in 1..4 :
        LET d == sheet[i]
            says(e) == e.key = d.key /\ ((e.side = "" /\ Len(e.value[1]) <= 4) \/ e.side = Names(d)[s])
        IN  (says(d) /\ \A j \in i + 1 .. Len(sheet) : ~says(sheet[j]))
            => options[<<d.key, Names(d)[s]>>]
                 = FromString(IF d.side = "" THEN Css(d.value[1], s) ELSE d.value[1][1])
=============================================================================
