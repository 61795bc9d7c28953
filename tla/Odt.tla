--------------------------------- MODULE Odt ---------------------------------
(***************************************************************************)
(* The OpenDocument renderer (odt.c).  A style is looked for among those   *)
(* there are and added when there is none; what identifies it depends on   *)
(* where the node stands: how deep in quotes, in which list, in a footnote *)
(* or not.  All styles are put out before the content, by the root.  What  *)
(* a style looks like, escapes and newlines between elements are left out. *)
(***************************************************************************)
EXTENDS Rendering

NoList == 0

\* struct odt, with st->offs as `indent' and st->headers_offs as `offs'; list
\* is the style of the outermost list around, lists what rndr() keeps of each
\* list it is in, kept what rndr_footnote_ref saves.
OdtInit ==
    [ob |-> <<>>, outer |-> <<>>, mq |-> <<>>, offs |-> 1, stys |-> <<>>,
     count |-> [T |-> 1, Table |-> 1, L |-> 1, P |-> 1], indent |-> 0, list |-> NoList,
     foot |-> FALSE, chngs |-> <<>>, lists |-> <<>>, kept |-> <<>>, ok |-> TRUE]

OdtAt(op) == type = "FODT" /\ At(op)

-----------------------------------------------------------------------------
(* Styles *)

FixedName == [CODESPAN |-> "Source_20_Text", LINK |-> "Internet_20_link",
              HRULE |-> "Horizontal_20_Line"]

NamePrefix(ty) ==
    CASE ty = "LIST" -> "L"
      [] ty = "TABLE_BLOCK" -> "Table"
      [] ty \in {"PARAGRAPH", "HEADER"} -> "P"
      [] OTHER -> "T"

\* odt_style_add: a new style is what was looked for, with a name.
StyleAdd(s, want) ==
    LET ty == want.type
        fixed == ty \in DOMAIN FixedName
        name == IF fixed THEN <<FixedName[ty], 0>> ELSE <<NamePrefix(ty), s.count[NamePrefix(ty)]>>
    IN  [s EXCEPT !.stys = Append(@, want @@ [name |-> name, auto |-> ~fixed, offs |-> 0,
                                              parent |-> NoList, foot |-> FALSE]),
                  !.count = IF fixed THEN @ ELSE [@ EXCEPT ![NamePrefix(ty)] = @ + 1]]

\* The first style that is as wanted, or 0.
StyleOf(s, want) ==
    SelectInSeq(s.stys, LAMBDA y : \A f \in DOMAIN want : y[f] = want[f])

WithStyle(s, want) == IF StyleOf(s, want) = 0 THEN StyleAdd(s, want) ELSE s

Placed(s, ty, fmt) ==
    [type |-> ty, fmt |-> fmt, foot |-> s.foot, parent |-> s.list, offs |-> s.indent]

TextStyle(ty) == [type |-> ty, fmt |-> "TEXT"]
CodeStyle(s) == [type |-> "PARAGRAPH", fmt |-> "LIT", parent |-> s.list, offs |-> s.indent]
HeaderStyle(s, n) ==
    [type |-> "HEADER", fmt |-> <<"H1", "H2", "H3">>[Max({1, Min({3, tree[n].num + s.offs})})]]
ItemStyle(s) == [type |-> "PARAGRAPH", fmt |-> "PARA", foot |-> s.foot, parent |-> s.list]
ParagraphStyle(s) == Placed(s, "PARAGRAPH", "PARA")
OuterStyle(s) == [ParagraphStyle(s) EXCEPT !.offs = 0]
TableStyle(s) == Placed(s, "TABLE_BLOCK", "TBL")
CellStyle(s) == [type |-> "PARAGRAPH", fmt |-> "TBL_PARA", foot |-> s.foot]
HruleStyle(s) == [type |-> "HRULE", fmt |-> "PARA", foot |-> s.foot]
ListStyle(s, n) ==
    [type |-> "LIST", offs |-> s.indent, fmt |-> IF "ORDERED" \in tree[n].fl THEN "OL" ELSE "UL"]

SpanTypes == {"CODESPAN", "LINK", "TRIPLE_EMPHASIS", "DOUBLE_EMPHASIS", "EMPHASIS",
              "STRIKETHROUGH", "HIGHLIGHT", "SUPERSCRIPT"}
ParagraphTypes == {"PARAGRAPH", "DEFINITION_DATA", "DEFINITION_TITLE"}

\* An item whose text is not in paragraphs gets one.
IsLooseItem(n) == {"DEF", "BLOCK"} \cap tree[n].fl = {}

\* The styles that n needs, in the order in which they are looked for.
Wanted(s, n, content) ==
    CASE Type(n) \in SpanTypes -> << TextStyle(Type(n)) >>
      [] Type(n) = "LINK_AUTO" -> IF tree[n].link = <<>> THEN <<>> ELSE << TextStyle("LINK") >>
      [] Type(n) = "BLOCKCODE" -> << CodeStyle(s) >>
      [] Type(n) = "HEADER" -> << HeaderStyle(s, n) >>
      [] Type(n) = "LISTITEM" -> IF IsLooseItem(n) THEN << ItemStyle(s) >> ELSE <<>>
      [] Type(n) \in ParagraphTypes ->
            IF Trimmed(content) = <<>> THEN <<>> ELSE << ParagraphStyle(s) >>
      [] Type(n) = "HRULE" -> << HruleStyle(s) >>
      [] Type(n) = "TABLE_BLOCK" -> << OuterStyle(s), TableStyle(s) >>
      [] Type(n) = "TABLE_CELL" -> << CellStyle(s) >>
      [] OTHER -> <<>>

-----------------------------------------------------------------------------
(* What the nodes put *)

\* An element of a style.
Styled(s, n, name, want, content) ==
    << Named("open", n, name) @@ [style |-> s.stys[StyleOf(s, want)].name] >>
    \o content \o << Named("close", n, name) >>

\* rndr_blockcode: every line is a paragraph.
OdtCode(s, n) ==
    LET toks == TextToks(n, tree[n].text)
        ends == {i \in DOMAIN toks : toks[i].t = "nl"} \cup {Len(toks) + 1}
        LineTo(e) == SubSeq(toks, Max({0} \cup {i \in ends : i < e}) + 1, e - 1)
        lines == SetToSortSeq({e \in ends : e <= Len(toks) \/ LineTo(e) # <<>>}, <)
    IN  Each(lines, LAMBDA e : Styled(s, n, "p", CodeStyle(s), LineTo(e)))

\* Without the newlines at the end.
Chomped(toks) == SubSeq(toks, 1, SelectLastInSeq(toks, LAMBDA tok : tok.t # "nl"))

\* rndr_listitem: the items of definitions are no elements of their own.
OdtItem(s, n, content) ==
    LET box == IF {"CHECKED", "UNCHECKED"} \cap tree[n].fl = {} THEN <<>>
               ELSE << Named("mark", n, "box") >>
        text == box \o Chomped(content)
        item == IF IsLooseItem(n) THEN Styled(s, n, "p", ItemStyle(s), text) ELSE text
    IN  Wrapped(n, IF "DEF" \in tree[n].fl THEN <<>> ELSE <<"list-item">>, item)

\* rndr_paragraph
OdtParagraph(s, n, content) ==
    IF Trimmed(content) = <<>> THEN <<>>
    ELSE Styled(s, n, "p", ParagraphStyle(s), Trimmed(content))

\* rndr_list: only the outermost list names its style.
OdtList(s, n, content) ==
    IF Last(s.lists).id = NoList THEN Wrapped(n, <<"list">>, content)
    ELSE << Named("open", n, "list") @@ [style |-> s.stys[Last(s.lists).id].name] >>
         \o content \o << Named("close", n, "list") >>

\* rndr_table: a paragraph with a frame with the table.
OdtTable(s, n, content) ==
    Styled(s, n, "p", OuterStyle(s),
           Wrapped(n, <<"frame", "text-box">>,
                   Styled(s, n, "table", TableStyle(s), content)))

\* rndr_html
OdtHtml(n) == IF "ODT_SKIP_HTML" \in oflags THEN <<>> ELSE TextToks(n, tree[n].text)

\* rndr_math
OdtMath(n) == Wrapped(n, MathNames(n), TextToks(n, tree[n].text))

\* What rndr() puts for n, its content given, when it has its styles.
OdtOut(s, n, content) ==
    CASE Type(n) = "CODESPAN" ->
            Styled(s, n, "span", TextStyle("CODESPAN"), TextToks(n, tree[n].text))
      [] Type(n) = "LINK" -> Styled(s, n, "a", TextStyle("LINK"), content)
      [] Type(n) \in SpanTypes -> Styled(s, n, "span", TextStyle(Type(n)), content)
      [] Type(n) = "LINK_AUTO" ->
            IF tree[n].link = <<>> THEN <<>>
            ELSE Styled(s, n, "a", TextStyle("LINK"), TextToks(n, tree[n].link))
      [] Type(n) = "BLOCKCODE" -> OdtCode(s, n)
      [] Type(n) = "HEADER" -> Styled(s, n, "h", HeaderStyle(s, n), content)
      [] Type(n) = "LIST" -> OdtList(s, n, content)
      [] Type(n) = "LISTITEM" -> OdtItem(s, n, content)
      [] Type(n) \in ParagraphTypes -> OdtParagraph(s, n, content)
      [] Type(n) = "HRULE" -> Styled(s, n, "p", HruleStyle(s), <<>>)
      [] Type(n) = "TABLE_BLOCK" -> OdtTable(s, n, content)
      [] Type(n) = "TABLE_ROW" -> Wrapped(n, <<"table-row">>, content)
      [] Type(n) = "TABLE_CELL" ->
            Wrapped(n, <<"table-cell">>, Styled(s, n, "p", CellStyle(s), content))
      [] Type(n) = "LINEBREAK" -> << Named("mark", n, "line-break"), Tok("nl", n, 0) >>
      [] Type(n) \in {"BLOCKHTML", "RAW_HTML"} -> OdtHtml(n)
      [] Type(n) = "MATH_BLOCK" -> OdtMath(n)
      [] Type(n) \in {"NORMAL_TEXT", "ENTITY"} -> TextToks(n, tree[n].text)
      [] Type(n) \in {"IMAGE", "META", "FOOTNOTE_REF"} -> <<>>
      [] OTHER -> content

-----------------------------------------------------------------------------
(* The document *)

\* The boilerplate of odt_styles_flush_fixed, and what each style names.
FixedRefs ==
    [Standard |-> {}, Frame |-> {}, fr1 |-> {"Frame"},
     Preformatted_20_Text |-> {"Standard"}, Table_20_Contents |-> {"Standard"},
     Text_20_body |-> {"Standard"}, Heading |-> {"Standard"},
     Bullet_20_Symbols |-> {}, Numbering_20_Symbols |-> {},
     Heading_20_1 |-> {"Heading", "Text_20_body"}, Heading_20_2 |-> {"Heading", "Text_20_body"},
     Heading_20_3 |-> {"Heading", "Text_20_body"}]

HeadingName == [H1 |-> "Heading_20_1", H2 |-> "Heading_20_2", H3 |-> "Heading_20_3"]

\* Those that the styles in use depend on.
FixedNeeded(stys) ==
    LET Has(ty, fmt) == \E y \in ToSet(stys) : y.type = ty /\ y.fmt = fmt
        table == Has("TABLE_BLOCK", "TBL")
        levels == {h \in DOMAIN HeadingName : Has("HEADER", h)}
    IN  {"Standard"}
        \cup (IF table THEN {"Frame", "Table_20_Contents", "fr1"} ELSE {})
        \cup (IF Has("PARAGRAPH", "LIT") THEN {"Preformatted_20_Text"} ELSE {})
        \cup (IF levels # {} \/ Has("HRULE", "PARA") THEN {"Text_20_body"} ELSE {})
        \cup (IF levels # {} THEN {"Heading"} ELSE {})
        \cup (IF Has("LIST", "UL") THEN {"Bullet_20_Symbols"} ELSE {})
        \cup (IF Has("LIST", "OL") THEN {"Numbering_20_Symbols"} ELSE {})
        \cup {HeadingName[h] : h \in levels}

\* odt_sty_flush: the styles that style y names.
StyleRefs(stys, y) ==
    LET fixed ==
            CASE y.fmt = "LIT" -> {"Preformatted_20_Text"}
              [] y.fmt = "PARA" /\ y.type = "HRULE" ->
                    {IF y.foot THEN "Footnote" ELSE "Standard", "Text_20_body"}
              [] y.fmt = "PARA" -> {IF y.foot THEN "Footnote" ELSE "Standard"}
              [] y.fmt = "TBL_PARA" -> {IF y.foot THEN "Footnote" ELSE "Table_20_Contents"}
              [] y.fmt \in DOMAIN HeadingName -> {HeadingName[y.fmt]}
              [] y.fmt = "UL" -> {"Bullet_20_Symbols"}
              [] y.fmt = "OL" -> {"Numbering_20_Symbols"}
              [] OTHER -> {}
    IN  {<<name, 0>> : name \in fixed}
        \cup (IF y.fmt = "PARA" /\ y.parent # NoList THEN {stys[y.parent].name} ELSE {})

Definition(name, refs) == << Named("style", Root, "") @@ [style |-> name, refs |-> refs] >>

\* odt_styles_flush: styles that are not automatic in a document of its own
\* only.
OdtStyles(stys) ==
    LET Defined(y) == Definition(y.name, StyleRefs(stys, y))
        Fixed(name) == Definition(<<name, 0>>, {<<r, 0>> : r \in FixedRefs[name]})
    IN  (IF "STANDALONE" \notin oflags THEN <<>>
         ELSE Each(SetToSeq(FixedNeeded(stys)), Fixed)
              \o Each(SelectSeq(stys, LAMBDA y : ~y.auto), Defined))
        \o Each(SelectSeq(stys, LAMBDA y : y.auto), Defined)

\* odt_metaq_flush
OdtMeta(s) ==
    LET title == IF MetaOf(s, <<"title">>) = <<>> THEN << Named("mark", Root, "Untitled") >>
                 ELSE MetaOf(s, <<"title">>)
        author == EitherMeta(s, <<"rcsauthor">>, <<"author">>)
        date == EitherMeta(s, <<"rcsdate">>, <<"date">>)
    IN  IF "STANDALONE" \notin oflags \/ s.mq = <<>> THEN <<>>
        ELSE Wrapped(Root, <<"meta">>, title \o author \o author \o date \o date)

\* odt_changes_flush
OdtChanges(s) == [i \in DOMAIN s.chngs |-> Named("tracked", Root, s.chngs[i]) @@ [chng |-> i]]

\* rndr_root
OdtRoot(s, content) ==
    Wrapped(Root, IF "STANDALONE" \in oflags THEN <<"document">> ELSE <<>>,
            OdtMeta(s) \o OdtStyles(s.stys)
            \o Wrapped(Root, <<"body", "text">>, OdtChanges(s) \o content))

-----------------------------------------------------------------------------
(* rndr *)

\* A list outside of lists takes the place of the indentation.
EnterList(s, n) ==
    IF s.list # NoList THEN [s EXCEPT !.lists = Append(@, [id |-> NoList, indent |-> 0])]
    ELSE LET t == WithStyle(s, ListStyle(s, n))
             id == StyleOf(t, ListStyle(s, n))
         IN  [t EXCEPT !.list = id, !.indent = 0,
                       !.lists = Append(@, [id |-> id, indent |-> s.indent])]

\* Fault: the indentation is not restored.
LeaveList_Flat(s) ==
    LET kept == Last(s.lists)
        t == [s EXCEPT !.lists = Cut(@)]
    IN  IF kept.id = NoList THEN t ELSE [t EXCEPT !.list = NoList]

LeaveList(s) ==
    LET kept == Last(s.lists)
        t == [s EXCEPT !.lists = Cut(@)]
    IN  IF kept.id = NoList THEN t ELSE [t EXCEPT !.list = NoList, !.indent = kept.indent]

\* Quotes are indented outside of lists.
Indented(s, n, by) ==
    IF Type(n) = "BLOCKQUOTE" /\ s.list = NoList THEN [s EXCEPT !.indent = @ + by] ELSE s

OdtRndr ==
    /\ OdtAt("rndr")
    /\ LET s == EnterBuf(Indented(st, Here, 1))
       IN  st' = IF Type(Here) = "LIST" THEN EnterList(s, Here) ELSE s
    /\ Goto(Each(SelectSeq(Kids(Here), LAMBDA k : Type(k) # "FOOTNOTES_BLOCK"), Rndr)
            \o <<Op("leave", Here)>>)
    /\ UNCHANGED <<type, oflags, tree>>

\* What was inserted or deleted is tracked, and marked in the content.
IsChanged(n) == tree[n].chng # "NONE"

Tracked(s, n) == IF IsChanged(n) THEN [s EXCEPT !.chngs = Append(@, tree[n].chng)] ELSE s

Change(t, n, chng) ==
    IF IsChanged(n) THEN << Named(t, n, "change") @@ [chng |-> chng] >> ELSE <<>>

\* The definition of the footnote n refers to, unless n is in a footnote.
Definitions ==
    LET blocks == SelectSeq(Kids(Root), LAMBDA k : Type(k) = "FOOTNOTES_BLOCK")
    IN  IF blocks = <<>> THEN <<>> ELSE Kids(Last(blocks))

DefOf(n) ==
    LET i == SelectInSeq(Definitions, LAMBDA d : Type(d) = "FOOTNOTE_DEF"
                                                 /\ tree[d].num = tree[n].num)
    IN  IF i = 0 THEN NULL ELSE Definitions[i]

IsNote(s, n) == Type(n) = "FOOTNOTE_REF" /\ ~s.foot /\ DefOf(n) # NULL

OdtLeave ==
    /\ OdtAt("leave") /\ ~IsNote(st, Here)
    /\ LET n == Here
           content == st.ob
           s == FoldLeft(WithStyle, Tracked(st, n), Wanted(st, n, content))
           id == Len(s.chngs)
           body == IF n = Root THEN OdtRoot(s, content) ELSE OdtOut(s, n, content)
           t == LeaveBuf(s, Change("open", n, id) \o body \o Change("close", n, id))
           u == [t EXCEPT !.ok = @ /\ (Type(n) = "LISTITEM" /\ "DEF" \notin tree[n].fl
                                          => s.list # NoList)]
       IN  st' = CASE Type(n) = "LIST" -> LeaveList(u)
                   [] Type(n) = "META" /\ tree[n].chng # "DELETE" -> PutMeta(u, n, content)
                   [] OTHER -> Indented(u, n, -1)
    /\ Done
    /\ UNCHANGED <<type, oflags, tree>>

\* rndr_footnote_ref: the footnote is put where it is referred to, as if it
\* stood outside of quotes and lists.
OdtNote ==
    /\ OdtAt("leave") /\ IsNote(st, Here)
    /\ LET s == Tracked(st, Here)
           id == Len(s.chngs)
       IN  st' = [LeaveBuf(s, Change("open", Here, id)
                              \o << Named("open", Here, "note") @@ [note |-> tree[Here].num] >>)
                  EXCEPT !.indent = 0, !.list = NoList, !.foot = TRUE,
                         !.kept = << [indent |-> s.indent, list |-> s.list, id |-> id] >>]
    /\ Goto(Rndr(DefOf(Here)) \o <<Op("noted", Here)>>)
    /\ UNCHANGED <<type, oflags, tree>>

OdtNoted ==
    /\ OdtAt("noted")
    /\ LET kept == Head(st.kept)
       IN  st' = [Put(st, << Named("close", Here, "note") >> \o Change("close", Here, kept.id))
                  EXCEPT !.indent = kept.indent, !.list = kept.list, !.foot = FALSE,
                         !.kept = <<>>]
    /\ Done
    /\ UNCHANGED <<type, oflags, tree>>

OdtNext == OdtRndr \/ OdtLeave \/ OdtNote \/ OdtNoted

-----------------------------------------------------------------------------
\* The outermost list n is in, within its footnote, and the quotes around k.
RootList(n) == SelectInSeq(Path(n), LAMBDA k : Type(k) = "LIST")
Quotes(path) == Len(SelectSeq(path, LAMBDA k : Type(k) = "BLOCKQUOTE"))

\* Style y suits n: it is one for footnotes in footnotes, it is indented by
\* quotes outside of lists, and belongs to the outermost list within.
Suits(y, n) ==
    LET list == RootList(n)
        path == Path(n)
    IN  /\ y.fmt # "LIT" => y.foot = Within(n, {"FOOTNOTE_DEF"})
        /\ y.offs = IF list # 0 \/ (Type(n) = "TABLE_BLOCK" /\ y.type = "PARAGRAPH") THEN 0
                    ELSE Quotes(path)
        /\ IF list = 0 THEN y.parent = NoList
           ELSE LET l == st.stys[y.parent]
                IN  /\ l.type = "LIST" /\ l.offs = Quotes(SubSeq(path, 1, list))
                    /\ l.fmt = IF "ORDERED" \in tree[path[list]].fl THEN "OL" ELSE "UL"

(* The content has no style, and no style refers to one, that is not       *)
(* defined or is defined twice, other than the style Footnote; and the     *)
(* style of a paragraph or table suits the place it stands in, whatever    *)
(* was rendered before it or in footnotes within it.                       *)
StylesFit ==
    type = "FODT" /\ todo = <<>> =>
        LET defs == {i \in DOMAIN st.ob : st.ob[i].t = "style"}
            uses == {i \in DOMAIN st.ob : st.ob[i].t = "open" /\ "style" \in DOMAIN st.ob[i]}
            refs == UNION {st.ob[i].refs : i \in defs} \cup {st.ob[i].style : i \in uses}
        IN  /\ "STANDALONE" \in oflags =>
                \A r \in refs \ {<<"Footnote", 0>>} :
                    Cardinality({i \in defs : st.ob[i].style = r}) = 1
            /\ \A i \in uses :
                Type(st.ob[i].n) \in ParagraphTypes \cup {"LISTITEM", "BLOCKCODE", "TABLE_BLOCK"} =>
                    \E y \in ToSet(st.stys) : y.name = st.ob[i].style /\ Suits(y, st.ob[i].n)
=============================================================================
