-------------------------------- MODULE Term --------------------------------
(***************************************************************************)
(* The terminal renderer (term.c).  It keeps the column and the number of  *)
(* line breaks it has last put, breaks lines between words, begins every   *)
(* line with the prefixes of the blocks it is in, and sets and unsets the  *)
(* styles of the screen.  Which style a word has is left out: only whether *)
(* it has one.                                                             *)
(***************************************************************************)
EXTENDS Rendering

CONSTANTS
    Columns,    \* opts->cols
    Vmargin     \* opts->vmargin

ASSUME ColumnsAssumption == Columns \in Nat \ {0} /\ Vmargin \in Nat

\* The width that never breaks a line.
SIZE_MAX == 1000

\* struct term, the locals of rndr_table, and whether every assertion held.
TermInit ==
    [col |-> 0, last_blank |-> 0, stack |-> <<>>, maxcol |-> Columns, ob |-> <<>>,
     kept |-> <<>>, widths |-> <<>>, row |-> <<>>, ok |-> TRUE]

TermAt(op) == type = "TERM" /\ At(op)

-----------------------------------------------------------------------------
(* Styles *)

\* The types with an entry in stys.
StyledTypes ==
    {"BLOCKCODE", "HEADER", "HRULE", "BLOCKHTML", "LINK_AUTO", "CODESPAN",
     "DOUBLE_EMPHASIS", "EMPHASIS", "HIGHLIGHT", "IMAGE", "LINK",
     "TRIPLE_EMPHASIS", "STRIKETHROUGH", "FOOTNOTE_REF", "RAW_HTML"}

\* rndr_buf_endstyle: no style of a node takes away all that another gave.
HasStyle(n) ==
    \E k \in ToSet(Path(n)) :
        \/ Type(k) \in StyledTypes \/ tree[k].chng # "NONE"
        \/ k # Root /\ Type(Parent(k)) = "LINK"

TermStyle(styled) == IF styled /\ "NOANSI" \notin oflags THEN <<Tok("on", NULL, 0)>> ELSE <<>>
TermUnstyle(styled) == IF styled /\ "NOANSI" \notin oflags THEN <<Tok("off", NULL, 0)>> ELSE <<>>

\* Fault: the style of the words themselves is forgotten.
EndWords_Own(s, n, osty) == Put(s, TermUnstyle(HasStyle(n)))

\* rndr_buf_endwords; osty is whether the words have a style of their own.
EndWords(s, n, osty) == Put(s, TermUnstyle(HasStyle(n) \/ osty))

EndLine(s, n, osty) ==
    [Put(EndWords(s, n, osty), <<Tok("nl", n, 0)>>) EXCEPT !.col = 0, !.last_blank = 1]

\* rndr_buf_advance
Advance(s, len) ==
    [s EXCEPT !.col = @ + len, !.last_blank = IF s.col + len > 0 THEN 0 ELSE @]

-----------------------------------------------------------------------------
(* The beginning of a line *)

\* rndr_numlen, for the numbers that occur.
Numlen(num) == IF num > 1000 THEN 4 ELSE IF num > 100 THEN 3 ELSE IF num > 10 THEN 2 ELSE 1
Numbered(num) == Max({4, Numlen(num) + 2})

\* Where n is in the stack, 0 if it is not.
StackPos(s, n) == SelectInSeq(s.stack, LAMBDA entry : entry.n = n)

\* Fault: the bullet is printed before every line.
Emitted_Never(s, n) == 0

\* How many lines have begun with the prefix of n.
Emitted(s, n) == IF StackPos(s, n) = 0 THEN 0 ELSE s.stack[StackPos(s, n)].lines

\* The types that have a prefix for their first line and another one for
\* the next ones.
IsBulleted(n) ==
    \/ Type(n) \in {"DEFINITION_DATA", "FOOTNOTE_DEF"}
    \/ Type(n) = "LISTITEM" /\ Type(Parent(n)) # "DEFINITION_DATA"

PrefixCols(s, n) ==
    CASE Type(n) \in {"BLOCKCODE", "BLOCKQUOTE", "DEFINITION_DATA"} -> 4
      [] Type(n) = "HEADER" -> IF tree[n].num = 0 THEN 0 ELSE tree[n].num + 2
      [] Type(n) = "FOOTNOTE_DEF" -> IF Emitted(s, n) = 0 THEN Numbered(tree[n].num) ELSE 4
      [] IsBulleted(n) -> IF Emitted(s, n) = 0 /\ "ORDERED" \in tree[n].fl
                          THEN Numbered(tree[n].num) ELSE 4
      [] OTHER -> 0

\* The prefix of n on a line that is in it, with the indentation of the
\* body; its style is that of n and one of its own.
LinePrefix(s, n) ==
    LET first == IsBulleted(n) /\ Emitted(s, n) = 0
        own == Type(n) \in {"BLOCKCODE", "BLOCKQUOTE", "DEFINITION_DATA", "FOOTNOTE_DEF"}
               \/ first
        styled == own \/ (Type(n) \in {"HEADER", "ROOT"} /\ HasStyle(n))
        text == Tok(IF first THEN "bullet" ELSE "pfx", n, PrefixCols(s, n))
    IN  (IF n # Root /\ Parent(n) = Root /\ Type(n) # "HEADER" THEN <<Tok("pfx", Root, 4)>>
         ELSE <<>>)
        \o TermStyle(styled)
        \o (IF PrefixCols(s, n) > 0 THEN <<text>> ELSE <<>>)
        \o TermUnstyle(styled)

\* rndr_buf_startline: asserts that no line has begun, and that all nodes
\* the line is in are being rendered.
StartLine(s, n, osty) ==
    LET prefixes == Each(Path(n), LAMBDA k : LinePrefix(s, k))
        counted == [i \in DOMAIN s.stack |->
                        IF \E k \in ToSet(Path(n)) : StackPos(s, k) = i
                        THEN [s.stack[i] EXCEPT !.lines = @ + 1] ELSE s.stack[i]]
        holds == /\ s.last_blank # 0 /\ s.col = 0
                 /\ \A k \in ToSet(Path(n)) : StackPos(s, k) # 0
    IN  Put(Advance([s EXCEPT !.stack = counted, !.ok = @ /\ holds], Cols(prefixes)),
            prefixes \o TermStyle(HasStyle(n) \/ osty))

\* rndr_buf_startwords: asserts that a line has begun.
StartWords(s, n, osty) ==
    Put([s EXCEPT !.ok = @ /\ s.last_blank = 0 /\ s.col > 0], TermStyle(HasStyle(n) \/ osty))

\* Fault: the column is not reset.
BreakLine_Col(s, n) == [Put(s, <<Tok("nl", n, 0)>>) EXCEPT !.last_blank = @ + 1]

\* One round of rndr_buf_vspace: a newline, or a line with the prefixes of
\* the parent alone.
BreakLine(s, n) ==
    LET line == EndLine(StartLine(s, Parent(n), FALSE), Parent(n), FALSE)
    IN  IF s.col > 0 \/ Prev(n) = NULL
        THEN [Put(s, <<Tok("nl", n, 0)>>) EXCEPT !.last_blank = @ + 1, !.col = 0]
        ELSE [line EXCEPT !.last_blank = @ + 1]

-----------------------------------------------------------------------------
(* Text *)

\* The words of a text, each with whether a blank is before it, and the
\* empty word behind a blank at its end.
TextChunks(text) ==
    LET all == Append(text, "")
        at == SelectSeq([i \in DOMAIN all |-> i],
                        LAMBDA i : all[i] \notin Blanks
                                   /\ (all[i] = "" => i > 1 /\ all[i - 1] \in Blanks))
    IN  [j \in DOMAIN at |->
            [word |-> all[at[j]], sp |-> at[j] > 1 /\ all[at[j] - 1] \in Blanks]]

\* The lines of a literal text.
LiteralLines(text) ==
    LET ends == SelectSeq([i \in DOMAIN text |-> i],
                          LAMBDA i : text[i] = "\n" \/ i = Len(text))
        from(j) == IF j = 1 THEN 1 ELSE ends[j - 1] + 1
        IsWord(w) == w # "\n"
    IN  [j \in DOMAIN ends |-> SelectSeq(SubSeq(text, from(j), ends[j]), IsWord)]

\* rndr_buf
TermBuf(n, text, osty) ==
    IF \E k \in ToSet(Path(n)) : Type(k) \in {"BLOCKCODE", "BLOCKHTML"}
    THEN << [op |-> "literal", n |-> n, lines |-> LiteralLines(text), osty |-> osty] >>
    ELSE << [op |-> "words", n |-> n, rest |-> TextChunks(text), osty |-> osty,
             begin |-> TRUE, end |-> FALSE] >>

LastIsSpace(s) ==
    s.ob # <<>> /\ (Last(s.ob).t \in {"sp", "nl"} \/ (Last(s.ob).t \in {"pfx", "bullet"}
                                                      /\ Last(s.ob).cols > 0))

\* The word crosses the width and is preceded by a space.
CrossesWidth(s, chunk, len) ==
    (chunk.sp \/ LastIsSpace(s)) /\ s.col > 0 /\ s.col + len > s.maxcol

\* One word of rndr_buf, for the step w.
NextWord(s, w) ==
    LET chunk == Head(w.rest)
        len == IF chunk.word = "" THEN 0 ELSE Width[chunk.word]
        broken == IF CrossesWidth(s, chunk, len) THEN EndLine(s, w.n, w.osty) ELSE s
        newline == broken.last_blank # 0 /\ len > 0
        words == broken.last_blank = 0 /\ w.begin /\ len > 0
        begun == IF newline THEN StartLine(broken, w.n, w.osty)
                 ELSE IF words THEN StartWords(broken, w.n, w.osty) ELSE broken
        spaced == IF broken.last_blank = 0 /\ chunk.sp
                  THEN Advance(Put(begun, <<Tok("sp", w.n, 1)>>), 1) ELSE begun
    IN  [s |-> Advance(Put(spaced, IF len > 0 THEN <<Tok("word", w.n, len)>> ELSE <<>>), len),
         begin |-> w.begin /\ ~newline /\ ~words,
         end |-> newline \/ words \/ (w.end /\ ~CrossesWidth(s, chunk, len))]

TermWord ==
    /\ TermAt("words") /\ Head(todo).rest # <<>>
    /\ LET w == NextWord(st, Head(todo))
       IN  /\ st' = w.s
           /\ Goto(<< [Head(todo) EXCEPT !.rest = Tail(@), !.begin = w.begin, !.end = w.end] >>)
    /\ UNCHANGED <<type, oflags, tree>>

TermEndBuf ==
    /\ TermAt("words") /\ Head(todo).rest = <<>>
    /\ st' = IF Head(todo).end THEN EndWords(st, Here, Head(todo).osty) ELSE st
    /\ Done
    /\ UNCHANGED <<type, oflags, tree>>

\* One line of rndr_buf_literal.
TermLine ==
    /\ TermAt("literal")
    /\ LET w == Head(todo)
           line == TextToks(w.n, Head(w.lines))
           begun == StartLine(st, w.n, w.osty)
       IN  IF w.lines = <<>> THEN Done /\ UNCHANGED st
           ELSE /\ st' = EndLine(Advance(Put(begun, line), Cols(line)), w.n, w.osty)
                /\ Goto(<< [w EXCEPT !.lines = Tail(@)] >>)
    /\ UNCHANGED <<type, oflags, tree>>

-----------------------------------------------------------------------------
(* rndr *)

\* The nearest node above n that is of one of the types, or NULL.
Nearest(n, types) ==
    LET up == SelectSeq(Path(n), LAMBDA k : k # n /\ Type(k) \in types)
    IN  IF up = <<>> THEN NULL ELSE Last(up)

IsBlockItem(n) == "BLOCK" \in tree[n].fl

TermVspaceOf(n) ==
    CASE Type(n) \in {"BLOCKCODE", "BLOCKHTML", "BLOCKQUOTE", "DEFINITION",
                      "DEFINITION_TITLE", "FOOTNOTES_BLOCK", "FOOTNOTE_DEF", "HEADER",
                      "LIST", "TABLE_BLOCK", "PARAGRAPH"} ->
            LET item == Nearest(n, {"LISTITEM"})
            IN  IF item = NULL \/ IsBlockItem(item) THEN 2 ELSE 1
      [] Type(n) = "MATH_BLOCK" -> IF "BLOCK" \in tree[n].fl THEN 1 ELSE 0
      [] Type(n) \in {"DEFINITION_DATA", "HRULE", "LINEBREAK", "META"} -> 1
      [] Type(n) = "LISTITEM" ->
            IF IsBlockItem(n) /\ Nearest(n, {"LISTITEM", "DEFINITION_DATA"}) = NULL
            THEN 2 ELSE 1
      [] OTHER -> 0

TermSpace(n, sz) == << [op |-> "vspace", n |-> n, sz |-> sz] >>

\* Output leading content.
TermLeading(n) ==
    CASE Type(n) = "FOOTNOTES_BLOCK" -> TermBuf(n, <<"~">>, TRUE)
      [] Type(n) = "SUPERSCRIPT" -> TermBuf(n, <<"^">>, FALSE)
      [] Type(n) = "META" ->
            TermBuf(n, tree[n].text, TRUE) \o TermBuf(n, <<":", " ">>, TRUE)
            \o <<Op("metavalue", n)>> \o RndrKids(n) \o <<Op("metadone", n)>>
      [] OTHER -> <<>>

\* The address of a link or an image after its text.
TermAddress(n) ==
    IF "NOLINK" \in oflags THEN <<>>
    ELSE TermBuf(n, <<" ">>, FALSE) \o TermBuf(n, tree[n].link, FALSE)

TermImage(n) ==
    TermBuf(n, tree[n].text, FALSE)
    \o (IF tree[n].text = <<>> THEN <<>> ELSE TermBuf(n, <<" ">>, FALSE))
    \o (IF "NOLINK" \in oflags THEN TermBuf(n, <<"[Image]">>, TRUE)
        ELSE TermBuf(n, <<"[Image:", " ">>, TRUE) \o TermBuf(n, tree[n].link, TRUE)
             \o TermBuf(n, <<"]">>, TRUE))

\* Output content.
TermContent(n) ==
    CASE Type(n) = "HRULE" -> TermBuf(n, <<"~">>, FALSE)
      [] Type(n) = "FOOTNOTE_REF" -> TermBuf(n, <<"[1]">>, FALSE)
      [] Type(n) \in {"RAW_HTML", "MATH_BLOCK", "BLOCKCODE", "BLOCKHTML", "CODESPAN",
                      "NORMAL_TEXT"} -> TermBuf(n, tree[n].text, FALSE)
      [] Type(n) = "ENTITY" -> TermBuf(n, tree[n].text, "BAD" \in tree[n].fl)
      [] Type(n) = "LINK_AUTO" -> TermBuf(n, tree[n].link, FALSE)
      [] Type(n) = "LINK" -> TermAddress(n)
      [] Type(n) = "IMAGE" -> TermImage(n)
      [] OTHER -> <<>>

TableRows(n) == FlattenSeq([i \in DOMAIN Kids(n) |-> Kids(Kids(n)[i])])

\* One row: its cells into a buffer, then the line; after the header a rule.
TermRow(n, part, row) ==
    <<Op("row", n)>>
    \o Each(Kids(row), LAMBDA c : <<Op("cell", c), Op("printed", c)>>)
    \o <<Op("endrow", n)>>

\* rndr_table: every cell is rendered twice, to measure it and to print it.
TermTable(n) ==
    <<Op("table", n)>>
    \o FlattenSeq([i \in DOMAIN TableRows(n) |->
            Each(Kids(TableRows(n)[i]), LAMBDA c : <<Op("cell", c), Op("measured", c)>>)])
    \o Each(Kids(n), LAMBDA part :
            Each(Kids(part), LAMBDA row : TermRow(n, part, row))
            \o (IF Type(part) = "TABLE_HEADER" THEN <<Op("rule", n)>> ELSE <<>>))

\* The steps of rndr() after the node has its place on the stack.
TermBody(n) ==
    TermSpace(n, TermVspaceOf(n)) \o TermLeading(n)
    \o (IF Type(n) = "TABLE_BLOCK" THEN TermTable(n) ELSE RndrKids(n))
    \o TermContent(n)
    \o (IF n = Root THEN TermSpace(n, 1) \o <<Op("trim", n)>> ELSE <<Op("pop", n)>>)

\* rndr() for a child, and for the root, which puts the vertical margin.
TermRndr ==
    /\ TermAt("rndr")
    /\ LET s == [st EXCEPT !.stack = Append(@, [n |-> Here, lines |-> 0])]
       IN  st' = IF Here # Root THEN s
                 ELSE [Put(s, [i \in 1 .. Vmargin |-> Tok("nl", Root, 0)])
                       EXCEPT !.last_blank = -1]
    /\ Goto(TermBody(Here))
    /\ UNCHANGED <<type, oflags, tree>>

TermPop ==
    /\ TermAt("pop")
    /\ st' = [st EXCEPT !.stack = Cut(@)]
    /\ Done
    /\ UNCHANGED <<type, oflags, tree>>

\* rndr_buf_vspace
TermVspace ==
    /\ TermAt("vspace")
    /\ IF st.last_blank = -1 \/ st.last_blank >= Head(todo).sz
       THEN Done /\ UNCHANGED st
       ELSE st' = BreakLine(st, Here) /\ UNCHANGED todo
    /\ UNCHANGED <<type, oflags, tree>>

\* The value of metadata is rendered into a buffer of its own, as on a new
\* line, and then again into the output.
TermMeta ==
    /\ TermAt("metavalue")
    /\ st' = [st EXCEPT !.kept = <<st>>, !.ob = <<>>, !.last_blank = -1, !.col = 0]
    /\ Done
    /\ UNCHANGED <<type, oflags, tree>>

\* The position before, with the output before.
TermRestored(s) ==
    [s EXCEPT !.ob = s.kept[1].ob, !.col = s.kept[1].col,
              !.last_blank = s.kept[1].last_blank, !.maxcol = s.kept[1].maxcol,
              !.kept = <<>>]

TermMetaDone ==
    /\ TermAt("metadone")
    /\ st' = TermRestored(st)
    /\ Done
    /\ UNCHANGED <<type, oflags, tree>>

-----------------------------------------------------------------------------
(* rndr_table *)

TermBeginTable ==
    /\ TermAt("table")
    /\ st' = [st EXCEPT !.widths = [i \in 1 .. tree[Here].num |-> 0]]
    /\ Done
    /\ UNCHANGED <<type, oflags, tree>>

\* A cell is rendered as within a line that has no end, in the place of the
\* table on the stack.
TermCell ==
    /\ TermAt("cell")
    /\ st' = [st EXCEPT !.kept = <<st>>, !.ob = <<>>, !.last_blank = 0, !.col = 1,
                        !.maxcol = SIZE_MAX,
                        !.stack = Append(Cut(@), [n |-> Here, lines |-> 0])]
    /\ Goto(Cut(TermBody(Here)))
    /\ UNCHANGED <<type, oflags, tree>>

TermMeasured ==
    /\ TermAt("measured")
    /\ st' = [TermRestored(st) EXCEPT !.widths[tree[Here].num] = Max({@, st.col})]
    /\ Done
    /\ UNCHANGED <<type, oflags, tree>>

TermBeginRow ==
    /\ TermAt("row")
    /\ st' = [st EXCEPT !.row = <<>>]
    /\ Done
    /\ UNCHANGED <<type, oflags, tree>>

\* The spaces before and after a cell.
CellPadding(n, sz) ==
    LET fl == tree[n].fl \cap {"LEFT", "RIGHT", "CENTER"}
        before == IF fl = {"RIGHT"} THEN sz ELSE IF fl = {"CENTER"} THEN sz \div 2 ELSE 0
    IN  <<before, sz - before>>

\* The cell padded, and the separator if another one follows; asserts that
\* it is not wider than it was.
TermPrinted ==
    /\ TermAt("printed")
    /\ LET pad == CellPadding(Here, st.widths[tree[Here].num] - st.col)
           sep == IF Following(Here) = NULL THEN <<>>
                  ELSE TermStyle(TRUE) \o <<Tok("pfx", Here, 3)>> \o TermUnstyle(TRUE)
       IN  st' = [TermRestored(st) EXCEPT
                    !.ok = @ /\ st.widths[tree[Here].num] >= st.col,
                    !.row = @ \o <<Tok("pfx", Here, pad[1])>> \o st.ob
                              \o <<Tok("pfx", Here, pad[2])>> \o sep]
    /\ Done
    /\ UNCHANGED <<type, oflags, tree>>

\* A line of the table n, with the table in the next place on the stack.
TableLine(s, n, toks, osty) ==
    LET pushed == [s EXCEPT !.stack = Append(@, [n |-> n, lines |-> 0])]
        line == EndLine(Advance(Put(StartLine(pushed, n, osty), toks), 1), n, osty)
    IN  [line EXCEPT !.stack = Cut(@)]

TermEndRow ==
    /\ TermAt("endrow")
    /\ st' = TableLine(st, Here, st.row, FALSE)
    /\ Done
    /\ UNCHANGED <<type, oflags, tree>>

\* The rule under the header of a table.
TermRule ==
    /\ TermAt("rule")
    /\ st' = TableLine(st, Here, <<Tok("rule", Here, 1)>>, TRUE)
    /\ Done
    /\ UNCHANGED <<type, oflags, tree>>

\* The document ends with one line break and the vertical margin.
TermTrim ==
    /\ TermAt("trim")
    /\ LET kept == SelectLastInSeq(st.ob, LAMBDA tok : tok.t # "nl")
           Newlines(k) == [i \in 1 .. k |-> Tok("nl", Root, 0)]
       IN  st' = [st EXCEPT !.ob = SubSeq(@, 1, kept) \o Newlines(1 + Vmargin)]
    /\ Done
    /\ UNCHANGED <<type, oflags, tree>>

TermNext ==
    \/ TermRndr \/ TermPop \/ TermVspace \/ TermWord \/ TermEndBuf \/ TermLine
    \/ TermMeta \/ TermMetaDone
    \/ TermBeginTable \/ TermCell \/ TermMeasured \/ TermBeginRow \/ TermPrinted \/ TermEndRow \/ TermRule
    \/ TermTrim

-----------------------------------------------------------------------------
TermDone == type = "TERM" /\ todo = <<>>
TokensOf(t) == {i \in DOMAIN st.ob : st.ob[i].t = t}

(* A style does not outlast its words: it ends before another one begins   *)
(* and before its line does, wherever a line was broken.                   *)
StylesClosed ==
    TermDone =>
        \A i \in TokensOf("on") :
            LET next == SelectInSubSeq(st.ob, i + 1, Len(st.ob),
                                       LAMBDA tok : tok.t \in {"on", "off", "nl"})
            IN  next # 0 /\ st.ob[next].t = "off"

(* Every list item, definition and footnote has its bullet or number once, *)
(* before all its words, however many lines and blank lines it is put on.  *)
BulletsOnce ==
    TermDone =>
        \A n \in {k \in DOMAIN tree : IsBulleted(k)} :
            LET bullets == {i \in TokensOf("bullet") : st.ob[i].n = n}
            IN  /\ Cardinality(bullets) <= 1
                /\ \A i \in TokensOf("word") :
                    n \in ToSet(Path(st.ob[i].n)) => \E b \in bullets : b < i
=============================================================================
