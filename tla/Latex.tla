------------------------------- MODULE Latex -------------------------------
(***************************************************************************)
(* The LaTeX and the XeLaTeX renderer (latex.c, xelatex.c), which differ   *)
(* in the names of some environments.  Environments, groups and commands   *)
(* with an argument are what opens and closes; escapes, options and        *)
(* newlines are left out.                                                  *)
(***************************************************************************)
EXTENDS Rendering

\* struct latex, the metadata and the buffers of the nodes being rendered.
LatexInit == [ob |-> <<>>, outer |-> <<>>, offs |-> 1, mq |-> <<>>]

LatexTypes == {"LATEX", "XELATEX"}
LatexAt(op) == type \in LatexTypes /\ At(op)

\* What stands round the contents of a node in both, and in one of them.
LatexCommon ==
    [CODESPAN |-> <<"code">>, DOUBLE_EMPHASIS |-> <<"textbf">>, HIGHLIGHT |-> <<"underline">>,
     SUPERSCRIPT |-> <<"textsuperscript">>, LINK |-> <<"href">>,
     FOOTNOTE_DEF |-> <<"footnotetext">>]

LatexTags ==
    [BLOCKQUOTE |-> <<"center", "quote">>, DEFINITION |-> <<"description">>,
     DEFINITION_TITLE |-> <<"item">>, EMPHASIS |-> <<"textit">>,
     TRIPLE_EMPHASIS |-> <<"textbf", "textit">>, BLOCKCODE |-> <<"verbatim">>]

XelatexTags ==
    [BLOCKQUOTE |-> <<"center", "tabular">>, DEFINITION |-> <<"latin">>,
     DEFINITION_TITLE |-> <<>>, EMPHASIS |-> <<"emph">>,
     TRIPLE_EMPHASIS |-> <<"textbf", "emph">>, BLOCKCODE |-> <<"latin", "verbatim">>]

LatexElement == LatexCommon @@ (IF type = "LATEX" THEN LatexTags ELSE XelatexTags)

LatexTabular == IF type = "LATEX" THEN "tabular" ELSE "tabularx"

LatexLiteral(n) == TextToks(n, tree[n].text)

\* rndr_header: level 1 is a section.
LatexHeader(s, n, content) ==
    LET level == Max({1, Min({5, tree[n].num + s.offs})})
    IN  Wrapped(n, << <<"section", "subsection", "subsubsection", "paragraph",
                        "subparagraph">>[level] >>, content)

\* The environments of a list item begin with the next one.
LatexItem(n, content) ==
    (IF "DEF" \in tree[n].fl THEN <<>> ELSE << Named("mark", n, "item") >>) \o content

\* rndr_raw_block and rndr_raw_html
LatexRaw(n) ==
    IF "LATEX_SKIP_HTML" \in oflags THEN <<>>
    ELSE Wrapped(n, IF Type(n) = "BLOCKHTML" THEN <<"verbatim">> ELSE <<>>, LatexLiteral(n))

\* The table is opened with its header, in rndr_table_header, and closed in
\* rndr_table.
LatexTableHeader(n, content) ==
    << Named("open", n, "center"), Named("open", n, LatexTabular) >> \o content

\* Fault: the table is closed in the order it was opened.
LatexTable_Order(n, content) ==
    content \o << Named("close", n, "center"), Named("close", n, LatexTabular) >>

LatexTable(n, content) ==
    content \o << Named("close", n, LatexTabular), Named("close", n, "center") >>

\* A cell ends with a separator, the last one with the row.
LatexCell(n, content) ==
    Append(content, Named("mark", n, IF Following(n) = NULL THEN "newline" ELSE "amp"))

\* rndr_math
LatexMath(n) == Wrapped(n, MathNames(n), LatexLiteral(n))

\* rndr_doc_header
LatexDocHeader(s, n) ==
    LET author == EitherMeta(s, <<"rcsauthor">>, <<"author">>)
        date == EitherMeta(s, <<"rcsdate">>, <<"date">>)
    IN  IF "STANDALONE" \notin oflags THEN <<>>
        ELSE << Named("open", n, "document") >>
             \o Wrapped(n, <<"title", "textbf">>, MetaOf(s, <<"title">>))
             \o (IF author = <<>> THEN <<>>
                 ELSE Wrapped(n, <<"author">>, author \o MetaOf(s, <<"affiliation">>)))
             \o (IF date = <<>> THEN <<>> ELSE Wrapped(n, <<"date">>, date))

\* What rndr() puts for n, its content given.
LatexOut(s, n, content) ==
    CASE Type(n) \in {"CODESPAN", "BLOCKCODE"} ->
            Wrapped(n, LatexElement[Type(n)], LatexLiteral(n))
      [] Type(n) = "IMAGE" ->
            Wrapped(n, <<"center">>, TextToks(n, tree[n].link))
      [] Type(n) \in DOMAIN LatexElement \ {"CODESPAN", "BLOCKCODE"} ->
            Wrapped(n, LatexElement[Type(n)], content)
      [] Type(n) = "HEADER" -> LatexHeader(s, n, content)
      [] Type(n) = "LIST" ->
            Wrapped(n, IF "ORDERED" \in tree[n].fl THEN <<"enumerate">> ELSE <<"itemize">>, content)
      [] Type(n) = "LISTITEM" -> LatexItem(n, content)
      [] Type(n) = "PARAGRAPH" -> Trimmed(content)
      [] Type(n) \in {"BLOCKHTML", "RAW_HTML"} -> LatexRaw(n)
      [] Type(n) = "TABLE_HEADER" -> LatexTableHeader(n, content)
      [] Type(n) = "TABLE_BLOCK" -> LatexTable(n, content)
      [] Type(n) = "TABLE_CELL" -> LatexCell(n, content)
      [] Type(n) = "FOOTNOTE_REF" -> << Numbering("ref", n, tree[n].num) >>
      [] Type(n) = "LINK_AUTO" ->
            IF tree[n].link = <<>> THEN <<>> ELSE Wrapped(n, <<"url">>, TextToks(n, tree[n].link))
      [] Type(n) \in {"HRULE", "LINEBREAK"} -> << Named("mark", n, Type(n)) >>
      [] Type(n) \in {"NORMAL_TEXT", "ENTITY"} -> LatexLiteral(n)
      [] Type(n) = "MATH_BLOCK" -> LatexMath(n)
      [] Type(n) = "DOC_HEADER" -> LatexDocHeader(s, n)
      [] Type(n) = "DOC_FOOTER" ->
            IF "STANDALONE" \in oflags THEN << Named("close", n, "document") >> ELSE <<>>
      [] Type(n) = "META" -> <<>>
      [] OTHER -> content

\* A group round what was inserted or deleted, of a footnote round its text.
LatexChanged(n) == IF tree[n].chng = "NONE" THEN <<>> ELSE <<"color">>

LatexGrouped(s, n, content) ==
    IF Type(n) = "FOOTNOTE_DEF" THEN LatexOut(s, n, Wrapped(n, LatexChanged(n), content))
    ELSE Wrapped(n, LatexChanged(n), LatexOut(s, n, content))

-----------------------------------------------------------------------------
(* rndr *)

LatexRndr ==
    /\ LatexAt("rndr")
    /\ st' = EnterBuf(st)
    /\ Goto(RndrKids(Here) \o <<Op("leave", Here)>>)
    /\ UNCHANGED <<type, oflags, tree>>

LatexLeave ==
    /\ LatexAt("leave")
    /\ LET s == LeaveBuf(st, LatexGrouped(st, Here, st.ob))
       IN  st' = IF Type(Here) = "META" /\ tree[Here].chng # "DELETE"
                 THEN PutMeta(s, Here, st.ob) ELSE s
    /\ Done
    /\ UNCHANGED <<type, oflags, tree>>

LatexNext == LatexRndr \/ LatexLeave
=============================================================================
