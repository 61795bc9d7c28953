------------------------------ MODULE MCRender ------------------------------
(* Small documents for the renderers. *)
EXTENDS Render, MCTrees

\* A node, what is not given being empty, and its subtrees.
T(node, kids) ==
    Tree(node @@ [chng |-> "NONE", text |-> <<>>, link |-> <<>>, num |-> 0, fl |-> {}], kids)

N(ty, kids) == T([type |-> ty], kids)
Leaf(ty, text) == T([type |-> ty, text |-> text], <<>>)
Words(text) == Leaf("NORMAL_TEXT", text)
Para(kids) == N("PARAGRAPH", kids)
Changed(t, c) == [t EXCEPT !.node.chng = c]

Header == N("DOC_HEADER", <<>>)
Footer == N("DOC_FOOTER", <<>>)
Doc(blocks) == Laid(N("ROOT", <<Header>> \o blocks \o <<Footer>>), 1, 0)

a == Words(<<"a">>)
ab == Words(<<"a", " ", "b">>)
a2 == Words(<<"a-2">>)
long == Words(<<"aa", " ", "bb", " ", "cc">>)

Link(kids) == T([type |-> "LINK", link |-> <<"u">>], kids)
Image(alt) == T([type |-> "IMAGE", link |-> <<"u">>, text |-> alt], <<>>)
Auto == T([type |-> "LINK_AUTO", link |-> <<"u">>], <<>>)
Ref(i) == T([type |-> "FOOTNOTE_REF", num |-> i], <<>>)
Math(fl) == T([type |-> "MATH_BLOCK", text |-> <<"a">>, fl |-> fl], <<>>)

Spans == {
    <<a>>, <<long>>, <<N("EMPHASIS", <<ab>>)>>,
    <<Words(<<"a", " ">>), N("DOUBLE_EMPHASIS", <<a, N("EMPHASIS", <<a>>)>>), Words(<<" ", "b">>)>>,
    <<a, N("TRIPLE_EMPHASIS", <<a>>), a>>, <<N("STRIKETHROUGH", <<long>>), a>>,
    <<N("HIGHLIGHT", <<a>>), N("SUPERSCRIPT", <<a>>)>>,
    <<Link(<<ab>>)>>, <<a, Link(<<>>)>>, <<Link(<<N("EMPHASIS", <<a>>)>>), Auto>>,
    <<Image(<<"a">>), Image(<<>>)>>, <<Link(<<Image(<<"a">>)>>), a>>,
    <<a, N("LINEBREAK", <<>>), ab>>, <<Leaf("CODESPAN", <<"a", " ", "b">>), a>>,
    <<Leaf("RAW_HTML", <<"a">>), Leaf("ENTITY", <<"a">>)>>,
    <<a, Math({}), Math({"BLOCK"}), a>>,
    <<Changed(a, "DELETE"), Changed(Words(<<" ", "b">>), "INSERT"), a>>,
    <<Changed(N("EMPHASIS", <<long>>), "INSERT"), Words(<<" ", "b">>)>> }

H(level, kids) == T([type |-> "HEADER", num |-> level], kids)
Item(i, fl, kids) == T([type |-> "LISTITEM", num |-> i, fl |-> fl], kids)
List(fl, items) == T([type |-> "LIST", fl |-> fl], items)
Quote(kids) == N("BLOCKQUOTE", kids)
Code == Leaf("BLOCKCODE", <<"a", "\n", "b", " ", "a", "\n">>)
Html == Leaf("BLOCKHTML", <<"a", "\n">>)

Ol(fl, one, two) == List({"ORDERED"} \cup fl,
    <<Item(1, {"ORDERED"} \cup fl, one), Item(2, {"ORDERED"} \cup fl, two)>>)
Ul(fl, one) == List({"UNORDERED"} \cup fl, <<Item(1, {"UNORDERED"} \cup fl, one)>>)

Data(kids) == N("DEFINITION_DATA", <<Item(0, {"DEF"}, kids)>>)
Dl(kids) == N("DEFINITION", <<N("DEFINITION_TITLE", <<a>>), Data(kids), Data(<<ab>>)>>)

Cell(i, fl, kids) == T([type |-> "TABLE_CELL", num |-> i, fl |-> fl], kids)
Row(kids) == N("TABLE_ROW", kids)
Table(one, two) ==
    T([type |-> "TABLE_BLOCK", num |-> 2],
      <<N("TABLE_HEADER", <<Row(<<Cell(1, {"HEADER", "RIGHT"}, <<a>>), Cell(2, {"HEADER"}, <<a>>)>>)>>),
        N("TABLE_BODY", <<Row(<<Cell(1, {"RIGHT"}, one), Cell(2, {"CENTER"}, two)>>)>>)>>)

Def(i, kids) == T([type |-> "FOOTNOTE_DEF", num |-> i, text |-> <<"a">>], kids)
Foots(defs) == N("FOOTNOTES_BLOCK", defs)

Meta(key, text) == T([type |-> "META", text |-> key], <<Words(text)>>)
MetaDoc(metas, blocks) ==
    Laid(N("ROOT", <<N("DOC_HEADER", metas)>> \o blocks \o <<Footer>>), 1, 0)

Docs ==
    {Doc(<<Para(s)>>) : s \in Spans}
    \cup {Doc(<<H(0, s), Para(<<ab>>)>>) : s \in {<<a>>, <<ab, N("EMPHASIS", <<a>>)>>, <<Link(<<a>>)>>}}
    \cup {Doc(<<Para(<<a>>), Table(s, <<a>>)>>) : s \in {<<long>>, <<N("EMPHASIS", <<ab>>)>>, <<Link(<<a>>), Auto>>}}
    \cup {Doc(<<Para(<<a>>), Quote(<<Para(<<long>>), b>>), b>>) :
            b \in {Para(<<a>>), Code, Html, N("HRULE", <<>>), H(1, <<ab>>), Quote(<<Para(<<a>>)>>),
                   Ul({}, <<a>>), Ul({"BLOCK"}, <<Para(<<a>>), Code>>), Dl(<<a>>)}}
    \cup {Doc(<<Ol({}, <<ab, Ul({}, <<a, Ul({}, <<long>>)>>)>>, <<a>>), Para(<<a>>)>>),
          Doc(<<Ol({"BLOCK"}, <<Para(<<ab>>), Ul({"BLOCK"}, <<Para(<<long>>), Para(<<a>>)>>)>>,
                              <<Para(<<a>>), Table(<<a>>, <<ab>>)>>)>>),
          Doc(<<Dl(<<Para(<<a>>), Ul({}, <<a>>)>>), Dl(<<long>>)>>)}
    \cup {Doc(<<Para(<<a, Ref(1)>>), Para(<<Ref(2)>>),
                Foots(<<Def(1, <<Para(<<long>>), Para(<<a>>)>>), Def(2, <<Ul({}, <<a>>)>>)>>)>>)}
    \cup {MetaDoc(<<Meta(<<"title">>, <<"a">>), Meta(<<"author">>, <<"aa", " ", "bb">>)>>, <<Para(<<a>>)>>)}

\* Headers of one content at several levels, and one that looks as if it had a
\* number (but not two like the one before it: html.c:345), a list made a block list after its
\* first item, raw HTML and task items, and metadata that moves the headers.
HtmlDocs ==
    {Doc(<<H(0, <<a>>), H(1, <<ab>>), H(8, <<a>>), H(2, <<a>>)>>),
     Doc(<<H(0, <<a>>), H(1, <<a2>>), H(1, <<N("EMPHASIS", <<a>>)>>), H(1, <<a2>>),
           H(1, <<N("EMPHASIS", <<a>>)>>), H(1, <<Link(<<a>>)>>), H(1, <<Link(<<a>>), Ref(1)>>),
           Foots(<<Def(1, <<Para(<<a>>)>>)>>)>>),
     Doc(<<T([type |-> "LIST", fl |-> {"UNORDERED", "BLOCK"}],
             <<Item(1, {"UNORDERED", "CHECKED"}, <<ab>>),
               Item(2, {"UNORDERED", "BLOCK"}, <<Para(<<a>>), Code>>),
               Item(3, {"UNORDERED", "BLOCK"}, <<Quote(<<Para(<<a>>)>>)>>)>>)>>),
     Doc(<<Para(<<Words(<<" ", "a", "\n", "b", "\n">>)>>), Para(<<Words(<<" ">>)>>), Html>>),
     MetaDoc(<<T([type |-> "META", text |-> <<"baseheaderlevel">>, num |-> 3], <<Words(<<"a">>)>>),
               Meta(<<"title">>, <<"a">>), Changed(Meta(<<"title">>, <<"b">>), "DELETE")>>,
             <<H(1, <<a>>)>>)}

\* roff does not show a request that is put into the heading macro.
HeaderLink == Doc(<<H(0, <<Link(<<a>>)>>), Para(<<ab>>)>>)
RoffDocs == Docs \ {HeaderLink}

\* Lists and tables in quotes, and footnotes in lists that have lists.
OdtDocs ==
    {Doc(<<Quote(<<Ul({}, <<ab, Ol({}, <<a>>, <<a>>)>>), Para(<<a>>), Table(<<a>>, <<a>>)>>), Para(<<a>>)>>),
     Doc(<<Quote(<<Ol({"BLOCK"}, <<Para(<<a, Ref(1)>>), Quote(<<Para(<<a>>)>>), Code>>, <<Para(<<a>>)>>),
                   Para(<<Ref(2)>>)>>),
           Foots(<<Def(1, <<Para(<<a>>), Ul({}, <<ab>>), Quote(<<Para(<<a>>)>>), Table(<<a>>, <<a>>)>>),
                   Def(2, <<Para(<<a, Changed(Words(<<"b">>), "INSERT")>>), Code>>)>>)>>)}

MCWidth == [w \in {"a", "b", "u", "~", "^", ":", "]"} |-> 1]
           @@ [w \in {"aa", "bb", "cc", "title", "author", "baseheaderlevel"} |-> 2]
           @@ [w \in {"a-2", "[1]", "[Image]", "[Image:"} |-> 3]

MCJobs ==
    [type : {"TERM"}, oflags : {{}, {"NOANSI", "NOLINK"}}, tree : Docs]
    \cup [type : {"GEMINI"}, tree : Docs,
          oflags : {{}, {"LINK_IN"}, {"LINK_END", "LINK_ROMAN"},
                    {"LINK_NOREF", "GEMINI_METADATA", "STANDALONE"}}]
    \cup [type : {"HTML"}, tree : Docs \cup HtmlDocs,
          oflags : {{"HTML_HEAD_IDS", "STANDALONE"},
                    {"HTML_HARD_WRAP", "HTML_SKIP_HTML"}, {"HTML_HEAD_IDS", "HTML_ESCAPE"}}]
    \cup [type : LatexTypes, tree : Docs \cup HtmlDocs, oflags : {{"STANDALONE"}, {"LATEX_SKIP_HTML"}}]
    \cup [type : {"MAN"}, tree : RoffDocs, oflags : {{}, {"STANDALONE", "NROFF_NOLINK"}}]
    \cup [type : {"NROFF"}, tree : RoffDocs,
          oflags : {{"NROFF_GROFF", "STANDALONE"}, {"NROFF_NUMBERED", "NROFF_SKIP_HTML"}}]
    \cup [type : {"FODT"}, tree : Docs \cup HtmlDocs \cup OdtDocs,
          oflags : {{"STANDALONE"}, {"ODT_SKIP_HTML"}}]

\* A formula in a cell begins lines, but the table is not on the stack
\* while a cell is measured.
TableJobs ==
    [type : {"TERM"}, oflags : {{}},
     tree : {Doc(<<Table(s, <<a>>)>>) : s \in Spans \cup {<<a, Math({"BLOCK"})>>}}]

\* A word between two links is behind the one and before the other.
LinkJobs ==
    [type : {"NROFF"}, oflags : {{"NROFF_GROFF"}},
     tree : {Doc(<<Para(<<Link(<<a>>), text, Link(<<a>>)>>)>>) :
                text \in {Words(<<" ", "b">>), Words(<<"b", " ">>), Words(<<"b", " ", "a">>)}}]
=============================================================================
