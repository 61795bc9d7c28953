-------------------------------- MODULE Roff --------------------------------
(***************************************************************************)
(* The roff renderer (nroff.c), for ms and for man.  A node puts entries   *)
(* into a queue; an entry knows whether it needs lines of its own.  roff   *)
(* has no stack of fonts, so the fonts are counted and every change names  *)
(* the fonts that are then on.  At the end the queue is flushed.  How      *)
(* characters are escaped and the layout of tables are left out.           *)
(***************************************************************************)
EXTENDS Rendering

\* struct nroff, the queue, those of the nodes around with their fonts and
\* what is chopped off them, and what is to be chopped off the next node.
RoffInit ==
    [bq |-> <<>>, outer |-> <<>>, fonts |-> [i |-> 0, b |-> 0, c |-> 0], keepnext |-> 0,
     offs |-> 1, mq |-> <<>>, ob |-> <<>>, ok |-> TRUE]

RoffTypes == {"MAN", "NROFF"}
RoffAt(op) == type \in RoffTypes /\ At(op)
Man == type = "MAN"
Groff == "NROFF_GROFF" \in oflags

-----------------------------------------------------------------------------
(* Entries of the queue *)

\* struct bnode: safe text, then unsafe text of which bufchop tokens are left
\* out, then arguments.
Bnode(scope, nbuf) ==
    [scope |-> scope, nbuf |-> nbuf, buf |-> <<>>, bufchop |-> 0, args |-> <<>>,
     close |-> FALSE, tblhack |-> FALSE]

Block(n, macro) == << Bnode("BLOCK", << Named("macro", n, macro) >>) >>
BlockArgs(n, macro, args) == << [Bnode("BLOCK", << Named("macro", n, macro) >>) EXCEPT !.args = args] >>
Opens(n, macro) == << Bnode("BLOCK", << Named("open", n, macro) >>) >>
Closes(n, macro) == << Bnode("BLOCK", << Named("close", n, macro) >>) >>

Span(toks) == << Bnode("SPAN", toks) >>
TextSpan(n, text) == << [Bnode("SPAN", <<>>) EXCEPT !.buf = TextToks(n, text)] >>
Literal(n) == << [Bnode("LITERAL", <<>>) EXCEPT !.buf = TextToks(n, tree[n].text)] >>

\* bqueue_font: the fonts that are on now.
Font(n, fonts, close) ==
    << [Bnode("FONT", << Tok("font", n, 0) @@ [fonts |-> {f \in DOMAIN fonts : fonts[f] > 0}] >>)
        EXCEPT !.close = close] >>

InFont(n, fonts, f, bq) ==
    Font(n, [fonts EXCEPT ![f] = @ + 1], FALSE) \o bq \o Font(n, fonts, TRUE)

\* bqueue_colour
Colour(n, close) ==
    << Bnode("COLOUR", << Named(IF close THEN "close" ELSE "open", n, "gcolor") >>) >>

\* bqueue_strip_paras
StripParas(bq) ==
    LET first == SelectInSeq(bq, LAMBDA b :
                    b.scope # "BLOCK" \/ b.nbuf = <<>> \/ Head(b.nbuf).t # "macro"
                    \/ Head(b.nbuf).tag \notin {"PP", "IP", "LP"})
    IN  IF first = 0 THEN <<>> ELSE SubSeq(bq, first, Len(bq))

-----------------------------------------------------------------------------
(* Flushing *)

OnNewLine(ob, n) == IF ob = <<>> \/ Last(ob).t = "nl" THEN ob ELSE Append(ob, Tok("nl", n, 0))

\* hesc_nroff: no blanks at the beginning of a line, no newlines in a line.
Unindented(ob, toks) ==
    FoldLeft(LAMBDA out, tok :
                IF tok.t \in {"sp", "nl"} /\ out # <<>> /\ Last(out).t = "nl" THEN out
                ELSE Append(out, tok),
             ob, toks)

OneLine(toks) == [i \in DOMAIN toks |-> IF toks[i].t = "nl" THEN Tok("sp", toks[i].n, 1) ELSE toks[i]]

\* Fault: colours are set within the line.
HasOwnLines_Colour(bq, i) ==
    LET next == IF bq[i].close THEN i - 1 ELSE i + 1
    IN  \/ bq[i].scope = "BLOCK"
        \/ bq[i].scope = "FONT" /\ next \in DOMAIN bq /\ bq[next].scope = "BLOCK"

\* A font is set by a request next to a block, and within the line otherwise.
HasOwnLines(bq, i) ==
    LET next == IF bq[i].close THEN i - 1 ELSE i + 1
    IN  \/ bq[i].scope \in {"BLOCK", "COLOUR"}
        \/ bq[i].scope = "FONT" /\ next \in DOMAIN bq /\ bq[next].scope = "BLOCK"

\* One round of bqueue_flush.
FlushBnode(ob, bq, i) ==
    LET b == bq[i]
        own == HasOwnLines(bq, i)
        begun == IF own \/ b.tblhack THEN OnNewLine(ob, Root) ELSE ob
        safe == begun \o b.nbuf
        text == IF b.scope = "LITERAL" THEN safe \o b.buf
                ELSE Unindented(safe, SubSeq(b.buf, b.bufchop + 1, Len(b.buf)))
        line == IF b.args = <<>> THEN text ELSE Append(text, Tok("sp", Root, 1)) \o OneLine(b.args)
    IN  IF own THEN OnNewLine(line, Root) ELSE line

\* bqueue_flush
Flush(bq) == FoldLeft(LAMBDA ob, i : FlushBnode(ob, bq, i), <<>>, [i \in DOMAIN bq |-> i])

-----------------------------------------------------------------------------
(* Links *)

\* putlink without pdfhref: the text, bold, and the address, in italics.
ManLink(s, obq, n, bq) ==
    LET address == InFont(n, s.fonts, "i", TextSpan(n, tree[n].link))
    IN  IF Type(n) = "LINK_AUTO" THEN obq \o address
        ELSE obq \o InFont(n, s.fonts, "b", bq)
             \o (IF "NROFF_NOLINK" \in oflags THEN <<>>
                 ELSE Span(<<Tok("sp", n, 1)>>) \o address \o Span(<<Tok("mark", n, 1)>>))

\* Text that ends without a blank before the link becomes its prefix.
HasPrefix(obq) ==
    obq # <<>> /\ Last(obq).scope = "SPAN" /\ Last(obq).buf # <<>>
    /\ Last(Last(obq).buf).t \notin {"sp", "nl"}

PrefixAt(obq) == SelectLastInSeq(Last(obq).buf, LAMBDA tok : tok.t \in {"sp", "nl"})
Prefix(obq) == SubSeq(Last(obq).buf, PrefixAt(obq) + 1, Len(Last(obq).buf))

\* What is left of the text is safe, from its beginning.
WithoutPrefix(obq) ==
    [obq EXCEPT ![Len(obq)].nbuf = OneLine(SubSeq(Last(obq).buf, 1, PrefixAt(obq))),
                ![Len(obq)].buf = <<>>]

\* How much of the text behind a link goes on without a blank; it is put
\* with the link and chopped off its own node.
Suffix(n) ==
    LET next == Following(n)
        blank == SelectInSeq(tree[next].text, LAMBDA w : w \in Blanks)
    IN  IF next = NULL \/ Type(next) # "NORMAL_TEXT" THEN 0
        ELSE IF blank = 0 THEN Len(tree[next].text) ELSE blank - 1

SuffixToks(n) ==
    IF Following(n) = NULL THEN <<>> ELSE SubSeq(TextToks(Following(n), tree[Following(n)].text), 1, Suffix(n))

\* putlink with pdfhref, its arguments in the order in which they are shown.
PdfLink(obq, n, bq) ==
    LET text == IF Type(n) = "LINK_AUTO" THEN TextToks(n, tree[n].link) ELSE Flush(bq)
        prefix == IF HasPrefix(obq) THEN Prefix(obq) ELSE <<>>
    IN  (IF HasPrefix(obq) THEN WithoutPrefix(obq) ELSE obq)
        \o BlockArgs(n, "pdfhref", prefix \o text \o SuffixToks(n))

ByPdf == ~Man /\ Groff

\* Fault: nothing is chopped off the text behind the link.
Keepnext_Never(n) == 0

\* What putlink returns.
Keepnext(n) == IF ByPdf /\ Type(n) \in {"LINK", "LINK_AUTO"} THEN Suffix(n) ELSE 0

RoffLink(s, obq, n, bq) == IF ByPdf THEN PdfLink(obq, n, bq) ELSE ManLink(s, obq, n, bq)

-----------------------------------------------------------------------------
(* The types of nodes *)

\* rndr_blockcode: a box round it begins with B1 and ends with B2, but not
\* in man with groff.
RoffCode(n) ==
    Block(n, "B1")
    \o (IF Man /\ Groff THEN Opens(n, "EX") \o Literal(n) \o Closes(n, "EX")
        ELSE Opens(n, "nf") \o Block(n, "CR") \o Literal(n) \o Block(n, "B2") \o Closes(n, "nf"))

\* rndr_list, for definitions, too: what is nested is indented.
RoffList(n, bq) ==
    IF Within(n, {"LISTITEM"}) THEN Opens(n, "RS") \o bq \o Closes(n, "RS") ELSE bq

\* rndr_header
RoffHeader(s, n, bq) ==
    LET level == Max({1, tree[n].num + s.offs})
        macro == IF "NROFF_NUMBERED" \in oflags THEN "SH" ELSE "NH"
    IN  IF Man THEN BlockArgs(n, IF level = 1 THEN "SH" ELSE "SS", Flush(bq))
        ELSE Block(n, macro) \o (IF Groff THEN BlockArgs(n, "XN", Flush(bq)) ELSE bq)

\* rndr_listitem
RoffItem(n, bq) ==
    LET item == IF Type(Parent(n)) = "DEFINITION_DATA" THEN Parent(n) ELSE n
    IN  (IF "DEF" \in tree[n].fl THEN <<>> ELSE BlockArgs(n, "IP\n", << Tok("mark", n, 1) >>))
        \o StripParas(bq)
        \o (IF "BLOCK" \in tree[n].fl \/ Following(item) = NULL THEN <<>>
            ELSE Block(n, "if n") \o Block(n, "if t"))

\* rndr_paragraph: none after a header in man.
RoffParagraph(n, bq) ==
    IF Man /\ Prev(n) # NULL /\ Type(Prev(n)) = "HEADER" THEN bq
    ELSE Block(n, IF Within(n, {"LISTITEM"}) THEN "IP" ELSE "LP") \o bq

\* rndr_image: only PostScript in ms, and none in man.
RoffImage(s, n) ==
    IF Man
    THEN InFont(n, s.fonts, "b", TextSpan(n, tree[n].text))
         \o (IF "NROFF_NOLINK" \in oflags THEN Span(<<Tok("mark", n, 1)>>)
             ELSE Span(<<Tok("mark", n, 1)>>) \o InFont(n, s.fonts, "i", TextSpan(n, tree[n].link))
                  \o Span(<<Tok("mark", n, 1)>>))
    ELSE IF "PS" \in tree[n].fl THEN BlockArgs(n, "PSPIC", TextToks(n, tree[n].link)) ELSE <<>>

\* rndr_table, rndr_table_header, rndr_table_row, rndr_table_cell
RoffTable(n, bq) ==
    CASE Type(n) = "TABLE_BLOCK" -> Opens(n, "TS") \o Block(n, "tab") \o bq \o Closes(n, "TS")
      [] Type(n) = "TABLE_HEADER" ->
            Block(n, "layout") \o Block(n, "layout") \o bq \o (IF ByPdf THEN Block(n, "TH") ELSE <<>>)
      [] Type(n) = "TABLE_ROW" -> bq \o << Bnode("BLOCK", <<>>) >>
      [] Type(n) = "TABLE_CELL" ->
            (IF tree[n].num > 1 THEN Span(<<Tok("mark", n, 1)>>) ELSE <<>>)
            \o Span(<< Named("open", n, "T"), Tok("nl", n, 0) >>) \o bq
            \o << [Bnode("SPAN", << Named("close", n, "T") >>) EXCEPT !.tblhack = TRUE] >>

RoffChanged(n, bq) == IF tree[n].chng = "NONE" THEN bq ELSE Colour(n, FALSE) \o bq \o Colour(n, TRUE)

\* rndr_footnotes, rndr_footnote_def, rndr_footnote_ref
RoffFootnote(n, bq) ==
    CASE Type(n) = "FOOTNOTES_BLOCK" ->
            (IF Man THEN Block(n, "LP") \o Block(n, "sp") \o Block(n, "rule") ELSE <<>>) \o bq
      [] Type(n) = "FOOTNOTE_DEF" /\ Man ->
            Block(n, "LP")
            \o RoffChanged(n, Span(<< Numbering("def", n, tree[n].num) >>) \o StripParas(bq))
      [] Type(n) = "FOOTNOTE_DEF" ->
            Opens(n, "FS") \o RoffChanged(n, StripParas(bq)) \o Closes(n, "FS")
      [] Type(n) = "FOOTNOTE_REF" -> Span(<< Numbering("ref", n, tree[n].num) >>)

\* rndr_doc_header
RoffDocHeader(s, n) ==
    LET copy == MetaOf(s, <<"copyright">>)
        date == EitherMeta(s, <<"rcsdate">>, <<"date">>)
        title == MetaOf(s, <<"title">>)
        Multi(macro, value) == IF value = <<>> THEN <<>> ELSE Block(n, macro) \o Span(value)
        args(macro, value) == IF value = <<>> THEN <<>> ELSE BlockArgs(n, macro, value)
    IN  IF "STANDALONE" \notin oflags THEN <<>>
        ELSE IF Man
        THEN Block(n, "nr")
             \o BlockArgs(n, "TH", title \o <<Tok("mark", n, 1)>> \o MetaOf(s, <<"section">>) \o date
                                   \o MetaOf(s, <<"source">>) \o MetaOf(s, <<"volume">>))
        ELSE Block(n, "nr") \o args("ds LF", copy)
             \o args(IF copy = <<>> THEN "DA" ELSE "ds RF", date)
             \o Block(n, "TL") \o Span(title)
             \o Multi("AU", EitherMeta(s, <<"rcsauthor">>, <<"author">>))
             \o Multi("AI", MetaOf(s, <<"affiliation">>))

\* A text, without what a link before it has taken.
RoffText(n, chop) ==
    IF chop = Len(tree[n].text) THEN <<>>
    ELSE << [TextSpan(n, tree[n].text)[1] EXCEPT !.bufchop = chop] >>

\* What n puts behind obq, the queue of its children given.
RoffOut(s, obq, n, bq, chop) ==
    CASE Type(n) \in {"LINK", "LINK_AUTO"} -> RoffLink(s, obq, n, bq)
      [] Type(n) = "BLOCKCODE" -> obq \o RoffCode(n)
      [] Type(n) = "BLOCKQUOTE" -> obq \o Opens(n, "RS") \o bq \o Closes(n, "RS")
      [] Type(n) \in {"LIST", "DEFINITION"} -> obq \o RoffList(n, bq)
      [] Type(n) = "DEFINITION_DATA" -> obq \o StripParas(bq)
      [] Type(n) = "DEFINITION_TITLE" -> obq \o BlockArgs(n, "IP", Flush(bq))
      [] Type(n) = "DOC_HEADER" -> obq \o RoffDocHeader(s, n)
      [] Type(n) = "HEADER" -> obq \o RoffHeader(s, n, bq)
      [] Type(n) = "HRULE" -> obq \o Block(n, "LP") \o (IF Man THEN <<>> ELSE Block(n, "rule"))
      [] Type(n) = "LISTITEM" -> obq \o RoffItem(n, bq)
      [] Type(n) = "PARAGRAPH" -> obq \o RoffParagraph(n, bq)
      [] Type(n) \in {"TABLE_BLOCK", "TABLE_HEADER", "TABLE_ROW", "TABLE_CELL"} -> obq \o RoffTable(n, bq)
      [] Type(n) \in {"FOOTNOTES_BLOCK", "FOOTNOTE_DEF", "FOOTNOTE_REF"} -> obq \o RoffFootnote(n, bq)
      [] Type(n) \in {"BLOCKHTML", "RAW_HTML"} ->
            IF "NROFF_SKIP_HTML" \in oflags THEN obq ELSE obq \o Literal(n)
      [] Type(n) \in {"CODESPAN", "ENTITY"} -> obq \o TextSpan(n, tree[n].text)
      [] Type(n) = "IMAGE" -> obq \o RoffImage(s, n)
      [] Type(n) = "LINEBREAK" -> obq \o Block(n, "br")
      [] Type(n) = "SUPERSCRIPT" -> obq \o Span(<<Tok("mark", n, 0)>>) \o bq \o Span(<<Tok("mark", n, 0)>>)
      [] Type(n) = "NORMAL_TEXT" -> obq \o RoffText(n, chop)
      [] Type(n) = "META" -> obq
      [] OTHER -> obq \o bq

-----------------------------------------------------------------------------
(* rndr *)

FontTypes == {"CODESPAN", "EMPHASIS", "HIGHLIGHT", "DOUBLE_EMPHASIS", "TRIPLE_EMPHASIS"}

FontsOf(ty) ==
    CASE ty = "CODESPAN" -> {"c"}
      [] ty = "EMPHASIS" -> {"i"}
      [] ty \in {"HIGHLIGHT", "DOUBLE_EMPHASIS"} -> {"b"}
      [] ty = "TRIPLE_EMPHASIS" -> {"i", "b"}
      [] OTHER -> {}

\* Outside of footnotes, which are coloured within.
IsColoured(n) == tree[n].chng # "NONE" /\ Type(n) # "FOOTNOTE_DEF"

RoffRndr ==
    /\ RoffAt("rndr")
    /\ LET fonts == [f \in DOMAIN st.fonts |->
                        IF f \in FontsOf(Type(Here)) THEN st.fonts[f] + 1 ELSE st.fonts[f]]
           begun == st.bq \o (IF IsColoured(Here) THEN Colour(Here, FALSE) ELSE <<>>)
                    \o (IF Type(Here) \in FontTypes THEN Font(Here, fonts, FALSE) ELSE <<>>)
       IN  st' = [st EXCEPT !.bq = <<>>, !.fonts = fonts, !.keepnext = 0,
                            !.outer = Append(@, [bq |-> begun, fonts |-> st.fonts, chop |-> st.keepnext])]
    /\ Goto(RndrKids(Here) \o <<Op("leave", Here)>>
            \o (IF Here = Root THEN <<Op("flush", Here)>> ELSE <<>>))
    /\ UNCHANGED <<type, oflags, tree>>

\* Fault: the fonts are left as they are in the node.
Restored_Not(s, n) == s.fonts

\* The fonts when n was entered.
Restored(s, n) == IF Type(n) \in FontTypes THEN Last(s.outer).fonts ELSE s.fonts

RoffLeave ==
    /\ RoffAt("leave")
    /\ LET up == Last(st.outer)
           out == RoffOut(st, up.bq, Here, st.bq, up.chop)
                  \o (IF Type(Here) \in FontTypes THEN Font(Here, Restored(st, Here), TRUE) ELSE <<>>)
                  \o (IF IsColoured(Here) THEN Colour(Here, TRUE) ELSE <<>>)
           s == [st EXCEPT !.bq = out, !.outer = Cut(@), !.fonts = Restored(st, Here),
                           !.keepnext = Keepnext(Here),
                           !.ok = @ /\ (ByPdf /\ Type(Here) \in {"LINK", "LINK_AUTO"} /\ HasPrefix(up.bq)
                                            => Last(up.bq).nbuf = <<>>)]
       IN  st' = IF Type(Here) = "META" /\ tree[Here].chng # "DELETE"
                 THEN PutMeta(s, Here, Flush(st.bq)) ELSE s
    /\ Done
    /\ UNCHANGED <<type, oflags, tree>>

\* mdown_nroff_rndr
RoffFlush ==
    /\ RoffAt("flush")
    /\ st' = [st EXCEPT !.ob = OnNewLine(Flush(st.bq), Root), !.bq = <<>>]
    /\ Done
    /\ UNCHANGED <<type, oflags, tree>>

RoffNext == RoffRndr \/ RoffLeave \/ RoffFlush

-----------------------------------------------------------------------------
RoffDone == type \in RoffTypes /\ todo = <<>>

\* The fonts that are on at token i.
FontsAt(i) ==
    LET last == SelectLastInSubSeq(st.ob, 1, i, LAMBDA tok : tok.t = "font")
    IN  IF last = 0 THEN {} ELSE st.ob[last].fonts

(* Every word of a text is in the fonts of the spans it is in and no other *)
(* one, as roff keeps no stack of them.  A link that is shown by its font  *)
(* is not looked into: it loses its own font behind a span in it.          *)
FontsFollowSpans ==
    RoffDone =>
        \A i \in {k \in DOMAIN st.ob : st.ob[k].t = "word"} :
            Type(st.ob[i].n) = "NORMAL_TEXT" /\ ~Within(st.ob[i].n, {"LINK"})
                => FontsAt(i) = UNION {FontsOf(Type(k)) : k \in Above(st.ob[i].n)}

(* Block scopes start with a newline: a request stands at the beginning of *)
(* a line, or it would be shown as text.                                   *)
RequestsBeginLines ==
    RoffDone =>
        \A i \in 2 .. Len(st.ob) :
            st.ob[i].t = "macro" \/ (st.ob[i].t \in {"open", "close"} /\ st.ob[i].tag # "T")
                => st.ob[i - 1].t = "nl"
=============================================================================
