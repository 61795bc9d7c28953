-------------------------------- MODULE Html --------------------------------
(***************************************************************************)
(* The HTML renderer (html.c, html_escape.c).  The children of a node are  *)
(* rendered into a buffer of its own, which the node's element then goes   *)
(* round.  A token is tagged with how often its characters were replaced   *)
(* by entities.  Attributes other than identifiers are left out, and so    *)
(* are the newlines between elements.                                      *)
(***************************************************************************)
EXTENDS Rendering

\* struct html, the metadata, the buffers of the nodes being rendered and
\* whether every assertion held; mdown_html_rndr sets the header offset.
HtmlInit ==
    [ob |-> <<>>, outer |-> <<>>, used |-> <<>>, offs |-> 1, mq |-> <<>>,
     noescape |-> FALSE, ok |-> TRUE]

HtmlAt(op) == type = "HTML" /\ At(op)

-----------------------------------------------------------------------------
(* Escapes *)

\* hesc_html, hesc_href and hesc_attr: an ampersand of an entity is replaced,
\* too.
Escaped(toks) == [i \in DOMAIN toks |-> [toks[i] EXCEPT !.tag = IF @ = "" THEN "once" ELSE "twice"]]

\* escape_htmlb: metadata is not escaped here.
HtmlEscape(s, toks) == IF s.noescape THEN toks ELSE Escaped(toks)

\* A text of n, a formula, and an entity, which stays what it is.
HtmlText(s, n) == HtmlEscape(s, TextToks(n, tree[n].text))
HtmlMath(s, n) == Wrapped(n, MathNames(n), HtmlText(s, n))
HtmlEntity(n) == << Named("entity", n, "once") >>

-----------------------------------------------------------------------------
(* Elements *)

\* The nodes that are an element round their content, and nothing else.
HtmlElement ==
    [BLOCKQUOTE |-> <<"blockquote">>, DEFINITION |-> <<"dl">>, DEFINITION_TITLE |-> <<"dt">>,
     DEFINITION_DATA |-> <<"dd">>, STRIKETHROUGH |-> <<"del">>, DOUBLE_EMPHASIS |-> <<"strong">>,
     EMPHASIS |-> <<"em">>, HIGHLIGHT |-> <<"mark">>, TRIPLE_EMPHASIS |-> <<"strong", "em">>,
     LINK |-> <<"a">>, TABLE_BLOCK |-> <<"table">>, TABLE_HEADER |-> <<"thead">>,
     TABLE_BODY |-> <<"tbody">>, TABLE_ROW |-> <<"tr">>, SUPERSCRIPT |-> <<"sup">>]

\* The pieces of what is written for a content, as far as it may be that of a
\* header, with the address of a link or image for its attributes.
Pieces(tok) ==
    CASE tok.t \in {"open", "mark"} -> <<"<", tok.tag>> \o tree[tok.n].link \o <<">">>
      [] tok.t = "close" -> <<"</", tok.tag, ">">>
      [] tok.t \in {"entity", "raw"} -> tree[tok.n].text
      [] tok.t = "ref" -> <<ToString(tok.id)>>
      [] OTHER -> <<tok.text>>

Written(content) == FlattenSeq([i \in DOMAIN content |-> Pieces(content[i])])

\* Pieces as one string.
Spelled(pieces) == FoldLeft(LAMBDA s, piece : s \o piece, "", pieces)

\* hesc_href
HrefEscaped(piece) ==
    CASE piece = " " -> "%20" [] piece = "\n" -> "%0A" [] piece = "<" -> "%3C"
      [] piece = "</" -> "%3C/" [] piece = ">" -> "%3E" [] OTHER -> piece

\* rndr_header_id: the content, escaped, with -2 behind it if another header
\* had the same one before, and so on.
UsedBefore(s, content) == SelectInSeq(s.used, LAMBDA h : h.str = Spelled(Written(content)))

HeaderId(s, content) ==
    LET written == Written(content)
        id == Spelled([i \in DOMAIN written |-> HrefEscaped(written[i])])
        entry == UsedBefore(s, content)
    IN  IF entry = 0 THEN id ELSE id \o "-" \o ToString(s.used[entry].count + 1)

NewHeader(content) == [str |-> Spelled(Written(content)), count |-> 1]

\* Fault: a header is not counted again.
HeaderUsed_Once(s, content) ==
    IF UsedBefore(s, content) = 0 THEN [s EXCEPT !.used = Append(@, NewHeader(content))] ELSE s

\* The headers used with it.
HeaderUsed(s, content) ==
    LET entry == UsedBefore(s, content)
    IN  IF entry = 0 THEN [s EXCEPT !.used = Append(@, NewHeader(content))]
        ELSE [s EXCEPT !.used[entry].count = @ + 1]

HasId(content) == content # <<>> /\ "HTML_HEAD_IDS" \in oflags

\* rndr_header
HtmlHeader(s, n, content) ==
    LET level == Max({1, Min({6, tree[n].num + s.offs})})
        id == [Named("id", n, "") EXCEPT !.text = HeaderId(s, content)]
    IN  (IF HasId(content) THEN <<id>> ELSE <<>>)
        \o Wrapped(n, << <<"h1", "h2", "h3", "h4", "h5", "h6">>[level] >>, content)

\* What rndr_listitem takes for the beginning of a block.
HtmlBlocks ==
    {"ul", "ol", "dl", "div", "table", "blockquote", "pre", "p", "hr",
     "h1", "h2", "h3", "h4", "h5", "h6"}

\* (The id is an attribute of the header that follows it.)
BeginsBlock(content) ==
    /\ content # <<>>
    /\ \/ Head(content).t = "id"
       \/ Head(content).t \in {"open", "mark"} /\ Head(content).tag \in HtmlBlocks

\* An item of a block list that is not in paragraphs, which happens as the
\* list is made one after its first items.
LooseItem(n, content) ==
    /\ IF "DEF" \in tree[n].fl THEN "BLOCK" \in tree[Parent(Parent(n))].fl
       ELSE "BLOCK" \in tree[Parent(n)].fl
    /\ ~BeginsBlock(content)

\* rndr_listitem
HtmlItem(n, content) ==
    LET box == IF {"CHECKED", "UNCHECKED"} \cap tree[n].fl = {} THEN <<>>
               ELSE << Named("mark", n, "input") >>
    IN  Wrapped(n, (IF "DEF" \in tree[n].fl THEN <<>> ELSE <<"li">>)
                   \o (IF LooseItem(n, content) THEN <<"p">> ELSE <<>>),
                box \o content)

\* rndr_list
HtmlList(n, content) == Wrapped(n, IF "ORDERED" \in tree[n].fl THEN <<"ol">> ELSE <<"ul">>, content)

\* rndr_tablecell
HtmlCell(n, content) == Wrapped(n, IF "HEADER" \in tree[n].fl THEN <<"th">> ELSE <<"td">>, content)

\* rndr_blockcode
HtmlCode(n) == Wrapped(n, <<"pre", "code">>, Escaped(TextToks(n, tree[n].text)))

\* rndr_autolink
HtmlAutolink(s, n) ==
    IF tree[n].link = <<>> THEN <<>>
    ELSE Wrapped(n, <<"a">>, HtmlEscape(s, TextToks(n, tree[n].link)))

\* rndr_linebreak
HtmlBreak(n) == << Named("mark", n, "br"), Tok("nl", n, 0) >>

\* rndr_paragraph: nothing for white space only; with hard wraps every
\* newline but the last one is a line break.
HtmlParagraph(n, content) ==
    LET text == Trimmed(content)
        wrapped == FlattenSeq([i \in DOMAIN text |->
                        IF text[i].t # "nl" THEN <<text[i]>>
                        ELSE IF i = Len(text) THEN <<>> ELSE HtmlBreak(n)])
    IN  IF text = <<>> THEN <<>>
        ELSE Wrapped(n, <<"p">>, IF "HTML_HARD_WRAP" \in oflags THEN wrapped ELSE text)

\* rndr_raw_block and rndr_raw_html
HtmlRaw(n) ==
    IF "HTML_SKIP_HTML" \in oflags THEN <<>>
    ELSE IF "HTML_ESCAPE" \in oflags THEN Escaped(TextToks(n, tree[n].text))
    ELSE << Tok("raw", n, 0) >>

\* rndr_image
HtmlImage(s, n) == << Named("mark", n, "img") >> \o Escaped(TextToks(n, tree[n].text))

\* rndr_footnote_def: the link back stands at the end of the first paragraph.
BackLink(content) == SelectInSeq(content, LAMBDA tok : tok.t = "close" /\ tok.tag = "p")

HtmlFootnoteDef(n, content) ==
    LET end == BackLink(content)
        back == IF end = 0 THEN content
                ELSE InsertAt(content, end, Numbering("back", n, tree[n].num))
    IN  Wrapped(n, <<"li">>, <<Numbering("def", n, tree[n].num)>> \o back)

\* rndr_footnotes and rndr_footnote_ref
HtmlFootnotes(n, content) ==
    Wrapped(n, <<"div">>, <<Named("mark", n, "hr")>> \o Wrapped(n, <<"ol">>, content))

HtmlFootnoteRef(n) == Wrapped(n, <<"sup", "a">>, <<Numbering("ref", n, tree[n].num)>>)

-----------------------------------------------------------------------------
(* The document *)

\* rndr_doc_header
HtmlDocHeader(s, n, content) ==
    LET values == MetaOf(s, <<"affiliation">>) \o EitherMeta(s, <<"rcsauthor">>, <<"author">>)
                  \o MetaOf(s, <<"copyright">>) \o EitherMeta(s, <<"rcsdate">>, <<"date">>)
                  \o MetaOf(s, <<"css">>) \o MetaOf(s, <<"javascript">>)
        title == Wrapped(n, <<"title">>, Escaped(MetaOf(s, <<"title">>)))
    IN  IF "STANDALONE" \notin oflags THEN <<>>
        ELSE content \o Wrapped(n, <<"head">>, Escaped(values) \o title)
             \o <<Named("open", n, "body")>>

\* What rndr() puts for n, its content given.
HtmlOut(s, n, content) ==
    CASE Type(n) \in DOMAIN HtmlElement -> Wrapped(n, HtmlElement[Type(n)], content)
      [] Type(n) = "HEADER" -> HtmlHeader(s, n, content)
      [] Type(n) = "LIST" -> HtmlList(n, content)
      [] Type(n) = "LISTITEM" -> HtmlItem(n, content)
      [] Type(n) = "TABLE_CELL" -> HtmlCell(n, content)
      [] Type(n) = "PARAGRAPH" -> HtmlParagraph(n, content)
      [] Type(n) = "FOOTNOTES_BLOCK" -> HtmlFootnotes(n, content)
      [] Type(n) = "FOOTNOTE_DEF" -> HtmlFootnoteDef(n, content)
      [] Type(n) = "FOOTNOTE_REF" -> HtmlFootnoteRef(n)
      [] Type(n) = "BLOCKCODE" -> HtmlCode(n)
      [] Type(n) = "CODESPAN" -> Wrapped(n, <<"code">>, HtmlText(s, n))
      [] Type(n) = "HRULE" -> << Named("mark", n, "hr") >>
      [] Type(n) = "LINEBREAK" -> HtmlBreak(n)
      [] Type(n) = "IMAGE" -> HtmlImage(s, n)
      [] Type(n) \in {"BLOCKHTML", "RAW_HTML"} -> HtmlRaw(n)
      [] Type(n) = "LINK_AUTO" -> HtmlAutolink(s, n)
      [] Type(n) = "NORMAL_TEXT" -> HtmlText(s, n)
      [] Type(n) = "MATH_BLOCK" -> HtmlMath(s, n)
      [] Type(n) = "ENTITY" -> HtmlEntity(n)
      [] Type(n) = "DOC_HEADER" -> HtmlDocHeader(s, n, content)
      [] Type(n) = "DOC_FOOTER" ->
            IF "STANDALONE" \in oflags THEN << Named("close", n, "body") >> ELSE <<>>
      [] Type(n) = "ROOT" ->
            Wrapped(n, IF "STANDALONE" \in oflags THEN <<"html">> ELSE <<>>, content)
      [] Type(n) = "META" -> <<>>

\* What asserts that text is to be escaped.
AssertsEscape == {"BLOCKCODE", "LINK_AUTO", "IMAGE", "LINK", "HEADER"}

-----------------------------------------------------------------------------
(* rndr *)

\* Metadata is escaped when it is put into the document's header.
EntersMeta(s, n) == IF Type(n) = "META" THEN [s EXCEPT !.noescape = TRUE] ELSE s

HtmlRndr ==
    /\ HtmlAt("rndr")
    /\ st' = EntersMeta(EnterBuf(st), Here)
    /\ Goto(RndrKids(Here) \o <<Op("leave", Here)>>)
    /\ UNCHANGED <<type, oflags, tree>>

\* An element round what was inserted or deleted.
HtmlChanged(n) ==
    CASE tree[n].chng = "INSERT" -> <<"ins">>
      [] tree[n].chng = "DELETE" -> <<"del">>
      [] OTHER -> <<>>

HtmlLeave ==
    /\ HtmlAt("leave")
    /\ LET out == Wrapped(Here, HtmlChanged(Here), HtmlOut(st, Here, st.ob))
           s == [LeaveBuf(st, out) EXCEPT
                    !.ok = @ /\ (Type(Here) \in AssertsEscape => ~st.noescape)]
       IN  st' = CASE Type(Here) = "HEADER" /\ HasId(st.ob) -> HeaderUsed(s, st.ob)
                   [] Type(Here) = "META" /\ tree[Here].chng # "DELETE" ->
                        PutMeta([s EXCEPT !.noescape = FALSE], Here, st.ob)
                   [] Type(Here) = "META" -> [s EXCEPT !.noescape = FALSE]
                   [] OTHER -> s
    /\ Done
    /\ UNCHANGED <<type, oflags, tree>>

HtmlNext == HtmlRndr \/ HtmlLeave

-----------------------------------------------------------------------------
HtmlDone == type = "HTML" /\ todo = <<>>

(* Identifiers differ: those of headers, of one content or not, as a       *)
(* number is put behind a content that has been used, and those of         *)
(* footnotes; and there is one link back from every footnote that has a    *)
(* paragraph.                                                              *)
IdsDiffer ==
    HtmlDone =>
        LET Of(t) == {i \in DOMAIN st.ob : st.ob[i].t = t}
        IN  /\ \A i, j \in Of("id") : st.ob[i].text = st.ob[j].text => i = j
            /\ \A i, j \in Of("def") : st.ob[i].id = st.ob[j].id => i = j
            /\ \A i \in Of("def") :
                (\E k \in DOMAIN tree : Type(k) = "PARAGRAPH" /\ Parent(k) = st.ob[i].n)
                    => Cardinality({j \in Of("back") : st.ob[j].id = st.ob[i].id}) = 1
=============================================================================
