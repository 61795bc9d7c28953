------------------------------- MODULE Gemini -------------------------------
(***************************************************************************)
(* The gemini renderer (gemini.c).  Links cannot stand within a line of    *)
(* text: they are queued, shown as a letter in the text, and put out with  *)
(* the next blank line, at the end, or where they are.                     *)
(***************************************************************************)
EXTENDS Rendering

\* struct gemini and the locals of rndr_table; mdown_gemini_new prefers
\* links at the end.
GeminiInit ==
    [last_blank |-> 0, nolinkqsz |-> 0, linkq |-> <<>>, linkqsz |-> 0,
     inline |-> "LINK_IN" \in oflags /\ "LINK_END" \notin oflags,
     ob |-> <<>>, mq |-> <<>>, kept |-> <<>>, widths |-> <<>>, row |-> <<>>, ok |-> TRUE]

GeminiAt(op) == type = "GEMINI" /\ At(op)

LinkTypes == {"IMAGE", "LINK", "LINK_AUTO"}

-----------------------------------------------------------------------------
(* Output *)

\* rndr_buf_vspace
GemVspace(s, n, sz) ==
    IF s.last_blank < 0 \/ s.last_blank >= sz THEN s
    ELSE [Put(s, [i \in 1 .. sz - s.last_blank |-> Tok("nl", n, 0)]) EXCEPT !.last_blank = sz]

\* rndr_escape: a line break within a text is a space.
GemEscaped(toks) ==
    [i \in DOMAIN toks |-> IF toks[i].t = "nl" THEN [toks[i] EXCEPT !.t = "sp", !.cols = 1] ELSE toks[i]]

\* Fault: text does not end the run of blank lines.
GemBuf_Kept(s, n, toks) ==
    IF \E k \in ToSet(Path(n)) : Type(k) \in {"BLOCKCODE", "BLOCKHTML"}
    THEN [Put(s, toks) EXCEPT !.last_blank = 1]
    ELSE Put(s, GemEscaped(IF s.last_blank = 0 THEN toks ELSE Trimmed(toks)))

\* rndr_buf: a literal text as it is, another one on one line, without the
\* blanks before it if it begins that line.
GemBuf(s, n, toks) ==
    IF \E k \in ToSet(Path(n)) : Type(k) \in {"BLOCKCODE", "BLOCKHTML"}
    THEN [Put(s, toks) EXCEPT !.last_blank = 1]
    ELSE [Put(s, GemEscaped(IF s.last_blank = 0 THEN toks ELSE Trimmed(toks)))
          EXCEPT !.last_blank = IF toks = <<>> THEN @ ELSE 0]

Mark(s, n, cols) == GemBuf(s, n, <<Tok("mark", n, cols)>>)

\* The columns of the label of link number ref: in Roman numerals (up to
\* viii), or one letter.
RefCols(ref) ==
    IF "LINK_ROMAN" \in oflags THEN <<1, 2, 3, 2, 1, 2, 3, 4>>[ref] ELSE 1

\* rndr_link_ref
LinkRef(n, ref) ==
    IF "LINK_NOREF" \in oflags THEN <<>>
    ELSE << [Tok("ref", n, RefCols(ref) + 2) EXCEPT !.id = ref] >>

\* rndr_flush_linkq: asserts that no table is being measured.
FlushLinkq(s) ==
    [Put(s, Each(s.linkq, LAMBDA l : << [Tok("url", l.n, 0) EXCEPT !.id = l.id],
                                        Tok("nl", l.n, 0) >>))
     EXCEPT !.linkq = <<>>, !.linkqsz = 0, !.ok = @ /\ s.nolinkqsz = 0,
            !.last_blank = IF s.linkq = <<>> THEN @ ELSE 1]

-----------------------------------------------------------------------------
(* rndr, before the children *)

IsStandaloneLink(n) ==
    /\ n # Root /\ Type(Parent(n)) = "PARAGRAPH" /\ Parent(Parent(n)) = Root
    /\ Prev(n) = NULL /\ Following(n) = NULL

\* A block that begins the data of a definition.
BeginsData(n) ==
    /\ Parent(n) # Root /\ Type(Parent(n)) = "LISTITEM" /\ Prev(n) = NULL
    /\ Type(Parent(Parent(n))) = "DEFINITION_DATA"

\* The blank lines before and after the content of a node.
GemBefore(n) ==
    CASE Type(n) \in {"BLOCKCODE", "BLOCKHTML", "BLOCKQUOTE", "DEFINITION",
                      "FOOTNOTES_BLOCK", "FOOTNOTE_DEF", "HEADER", "LIST", "PARAGRAPH",
                      "TABLE_BLOCK"} -> IF BeginsData(n) THEN 1 ELSE 2
      [] Type(n) = "MATH_BLOCK" -> IF "BLOCK" \in tree[n].fl THEN 1 ELSE 0
      [] Type(n) = "DEFINITION_DATA" ->
            IF "BLOCK" \in tree[Parent(n)].fl /\ Prev(n) # NULL
               /\ Type(Prev(n)) = "DEFINITION_DATA"
            THEN 2 ELSE 1
      [] Type(n) \in {"DEFINITION_TITLE", "HRULE", "LINEBREAK", "LISTITEM", "META",
                      "TABLE_ROW"} -> 1
      [] Type(n) \in LinkTypes -> IF st.inline THEN 1 ELSE 0
      [] OTHER -> 0

GemAfter(n) ==
    CASE Type(n) \in {"BLOCKQUOTE", "DEFINITION", "FOOTNOTES_BLOCK", "FOOTNOTE_DEF",
                      "HEADER", "LIST", "PARAGRAPH"} -> 2
      [] Type(n) = "DOC_HEADER" -> IF "STANDALONE" \in oflags THEN 2 ELSE 0
      [] Type(n) = "MATH_BLOCK" -> IF "BLOCK" \in tree[n].fl THEN 1 ELSE 0
      [] Type(n) \in {"DEFINITION_DATA", "DEFINITION_TITLE", "HRULE", "LISTITEM", "META",
                      "TABLE_ROW"} -> 1
      [] Type(n) \in LinkTypes -> IF IsStandaloneLink(n) \/ st.inline THEN 1 ELSE 0
      [] OTHER -> 0

\* Leading content: what is behind a marker begins its line.
GemLeading(s, n) ==
    CASE Type(n) \in {"TABLE_BLOCK", "BLOCKCODE", "BLOCKHTML"} -> GemVspace(Mark(s, n, 3), n, 1)
      [] Type(n) \in {"BLOCKQUOTE", "HEADER", "FOOTNOTE_DEF", "LISTITEM"} ->
            [Mark(s, n, 2) EXCEPT !.last_blank = -1]
      [] Type(n) \in {"FOOTNOTES_BLOCK", "SUPERSCRIPT"} -> Mark(s, n, 1)
      [] Type(n) \in LinkTypes /\ (IsStandaloneLink(n) \/ st.inline) ->
            [GemBuf(s, n, <<Tok("url", n, 0)>>) EXCEPT !.last_blank = -1]
      [] OTHER -> s

GemRows(n) == Each(Kids(n), Kids)

GemTable(n) ==
    <<Op("table", n)>>
    \o Each(GemRows(n), LAMBDA row :
            Each(Kids(row), LAMBDA c : <<Op("cell", c), Op("rndr", c), Op("measured", c)>>))
    \o <<Op("measuredall", n)>>
    \o Each(Kids(n), LAMBDA part :
            Each(Kids(part), LAMBDA row :
                <<Op("row", n)>>
                \o Each(Kids(row), LAMBDA c : <<Op("cell", c), Op("rndr", c), Op("printed", c)>>)
                \o <<Op("endrow", n)>>)
            \o (IF Type(part) = "TABLE_HEADER" THEN <<Op("rule", n)>> ELSE <<>>))
    \o <<Op("endtable", n)>>

\* What rndr() does between leading and trailing content; metadata that was
\* deleted is left out.
GemDescend(n) ==
    CASE Type(n) = "TABLE_BLOCK" -> GemTable(n)
      [] Type(n) = "META" ->
            IF tree[n].chng = "DELETE" THEN <<>>
            ELSE <<Op("meta", n)>> \o RndrKids(n) \o <<Op("metadone", n)>>
      [] OTHER -> RndrKids(n)

GeminiRndr ==
    /\ GeminiAt("rndr")
    /\ st' = IF Here = Root THEN [st EXCEPT !.last_blank = -1]
             ELSE GemLeading(GemVspace(st, Here, GemBefore(Here)), Here)
    /\ Goto(GemDescend(Here) \o <<Op("leave", Here)>>)
    /\ UNCHANGED <<type, oflags, tree>>

-----------------------------------------------------------------------------
(* rndr, after the children *)

\* Fault: a link in a table is queued when it is measured, too.
QueueLink_Measured(s, n) ==
    LET id == s.linkqsz + 1
    IN  GemBuf([s EXCEPT !.linkqsz = id, !.linkq = Append(@, [n |-> n, id |-> id])],
               n, LinkRef(n, id))

\* A link that is not shown here gets a number and is queued; while a table
\* is measured it gets the number it will have.
QueueLink(s, n) ==
    LET id == s.linkqsz + 1
    IN  IF s.nolinkqsz = 0
        THEN GemBuf([s EXCEPT !.linkqsz = id, !.linkq = Append(@, [n |-> n, id |-> id])],
                    n, LinkRef(n, id))
        ELSE GemBuf([s EXCEPT !.nolinkqsz = @ + 1], n, LinkRef(n, s.nolinkqsz))

\* rndr_doc_header
DocHeader(s, n) ==
    IF "GEMINI_METADATA" \notin oflags \/ s.mq = <<>> THEN s
    ELSE [Put(s, Each(s.mq, LAMBDA m : Append(m, Tok("nl", n, 0)))) EXCEPT !.last_blank = 1]

GemContent(s, n) ==
    CASE Type(n) = "HRULE" -> Mark(s, n, 8)
      [] Type(n) = "FOOTNOTE_REF" -> Mark(s, n, 3)
      [] Type(n) \in {"RAW_HTML", "MATH_BLOCK", "ENTITY", "BLOCKCODE", "BLOCKHTML",
                      "CODESPAN", "NORMAL_TEXT"} -> GemBuf(s, n, TextToks(n, tree[n].text))
      [] Type(n) \in LinkTypes ->
            LET alt == IF Type(n) = "IMAGE" THEN GemBuf(s, n, TextToks(n, tree[n].text)) ELSE s
            IN  IF IsStandaloneLink(n) \/ s.inline THEN alt ELSE QueueLink(alt, n)
      [] Type(n) = "ROOT" -> IF s.linkq = <<>> \/ "LINK_END" \notin oflags THEN s
                             ELSE FlushLinkq(GemVspace(s, n, 2))
      [] Type(n) = "DOC_HEADER" -> DocHeader(s, n)
      [] OTHER -> s

\* The end of a table or of a literal text, and of the document.
GemTrailing(s, n) ==
    CASE Type(n) \in {"TABLE_BLOCK", "BLOCKCODE", "BLOCKHTML"} ->
            GemVspace([Mark(s, n, 3) EXCEPT !.last_blank = 0], n, 2)
      [] Type(n) = "ROOT" ->
            LET e == GemVspace(s, n, 1)
                kept == SelectLastInSeq(e.ob, LAMBDA tok : tok.t # "nl")
            IN  [e EXCEPT !.ob = Append(SubSeq(@, 1, kept), Tok("nl", n, 0))]
      [] OTHER -> GemVspace(s, n, GemAfter(n))

\* Queued links are shown after a blank line, another one behind them.
FlushAfterBlank(s, n) ==
    IF s.nolinkqsz = 0 /\ s.last_blank > 1 /\ s.linkq # <<>> /\ "LINK_END" \notin oflags
    THEN [Put(FlushLinkq(s), <<Tok("nl", n, 0)>>) EXCEPT !.last_blank = 2]
    ELSE s

GeminiLeave ==
    /\ GeminiAt("leave")
    /\ st' = FlushAfterBlank(GemTrailing(GemContent(st, Here), Here), Here)
    /\ Done
    /\ UNCHANGED <<type, oflags, tree>>

-----------------------------------------------------------------------------
(* rndr_meta *)

\* The value of metadata is rendered into a buffer of its own.
GeminiMeta ==
    /\ GeminiAt("meta")
    /\ st' = [st EXCEPT !.kept = <<st>>, !.ob = <<>>, !.last_blank = -1]
    /\ Done
    /\ UNCHANGED <<type, oflags, tree>>

GeminiMetaDone ==
    /\ GeminiAt("metadone")
    /\ st' = [st EXCEPT !.mq = Append(@, st.ob), !.ob = st.kept[1].ob,
                        !.last_blank = st.kept[1].last_blank, !.kept = <<>>]
    /\ Done
    /\ UNCHANGED <<type, oflags, tree>>

-----------------------------------------------------------------------------
(* rndr_table *)

\* No link is shown inline in a table, and none is recorded until its
\* columns are measured.
GeminiTable ==
    /\ GeminiAt("table")
    /\ st' = [st EXCEPT !.inline = FALSE, !.nolinkqsz = st.linkqsz + 1,
                        !.widths = [i \in 1 .. tree[Here].num |-> 0]]
    /\ Done
    /\ UNCHANGED <<type, oflags, tree>>

\* A cell is rendered into a buffer of its own, as within a line.
GeminiCell ==
    /\ GeminiAt("cell")
    /\ st' = [st EXCEPT !.kept = <<[ob |-> st.ob, last_blank |-> st.last_blank]>>,
                        !.ob = <<>>, !.last_blank = 0]
    /\ Done
    /\ UNCHANGED <<type, oflags, tree>>

CellDone(s) ==
    [s EXCEPT !.ob = s.kept[1].ob, !.last_blank = s.kept[1].last_blank, !.kept = <<>>]

GeminiMeasured ==
    /\ GeminiAt("measured")
    /\ st' = [CellDone(st) EXCEPT !.widths[tree[Here].num] = Max({@, Cols(st.ob)})]
    /\ Done
    /\ UNCHANGED <<type, oflags, tree>>

GeminiMeasuredAll ==
    /\ GeminiAt("measuredall")
    /\ st' = [st EXCEPT !.nolinkqsz = 0]
    /\ Done
    /\ UNCHANGED <<type, oflags, tree>>

GeminiRow ==
    /\ GeminiAt("row")
    /\ st' = [st EXCEPT !.row = <<>>]
    /\ Done
    /\ UNCHANGED <<type, oflags, tree>>

\* Asserts that the cell is not wider than it was; where its padding goes
\* is left out.
GeminiPrinted ==
    /\ GeminiAt("printed")
    /\ LET width == st.widths[tree[Here].num]
       IN  st' = [CellDone(st) EXCEPT
                    !.ok = @ /\ width >= Cols(st.ob),
                    !.row = @ \o Append(st.ob, Tok("pad", Here, width - Cols(st.ob)))]
    /\ Done
    /\ UNCHANGED <<type, oflags, tree>>

GeminiEndRow ==
    /\ GeminiAt("endrow")
    /\ st' = GemVspace([Put(st, st.row) EXCEPT !.last_blank = 0], Here, 1)
    /\ Done
    /\ UNCHANGED <<type, oflags, tree>>

GeminiRule ==
    /\ GeminiAt("rule")
    /\ st' = GemVspace([Put(st, <<Tok("rule", Here, 1)>>) EXCEPT !.last_blank = 0], Here, 1)
    /\ Done
    /\ UNCHANGED <<type, oflags, tree>>

\* The flags are as they were.
GeminiEndTable ==
    /\ GeminiAt("endtable")
    /\ st' = [st EXCEPT !.inline = GeminiInit.inline]
    /\ Done
    /\ UNCHANGED <<type, oflags, tree>>

GeminiNext ==
    \/ GeminiRndr \/ GeminiLeave \/ GeminiMeta \/ GeminiMetaDone
    \/ GeminiTable \/ GeminiCell \/ GeminiMeasured \/ GeminiMeasuredAll
    \/ GeminiRow \/ GeminiPrinted \/ GeminiEndRow \/ GeminiRule \/ GeminiEndTable

-----------------------------------------------------------------------------
\* The places of what is shown of link n.
Shown(t, n) == {i \in DOMAIN st.ob : st.ob[i].t = t /\ st.ob[i].n = n}

(* Every link is shown once, wherever it stands, and where the text shows  *)
(* a label for it the next link line with this label is its own: numbers   *)
(* begin again after every flush, and a table renders its links twice.     *)
LinksResolve ==
    type = "GEMINI" /\ todo = <<>> =>
        \A n \in {k \in DOMAIN tree : Type(k) \in LinkTypes} :
            /\ Cardinality(Shown("url", n)) = 1
            /\ Cardinality(Shown("ref", n)) <= 1
            /\ \A i \in Shown("ref", n) :
                LET own == SelectInSubSeq(st.ob, i, Len(st.ob), LAMBDA tok :
                                    tok.t = "url" /\ tok.id = st.ob[i].id)
                IN  own # 0 /\ st.ob[own].n = n
=============================================================================
