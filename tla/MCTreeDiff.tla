----------------------------- MODULE MCTreeDiff -----------------------------
(* Pairs of small documents for the difference of trees. *)
EXTENDS TreeDiff

\* A tree as it is written: a type, its attributes, its number, its children.
T(type, attr, num, kids) == [type |-> type, attr |-> attr, num |-> num, kids |-> kids]

RECURSIVE Size(_)
Size(t) == 1 + FoldLeft(LAMBDA sum, k : sum + Size(k), 0, t.kids)

\* The nodes of t in the order of the text, the first one numbered id.
RECURSIVE Laid(_, _, _)
Laid(t, id, parent) ==
    LET ids == [j \in DOMAIN t.kids |->
                    id + 1 + FoldLeft(LAMBDA sum, k : sum + Size(k), 0,
                                      SubSeq(t.kids, 1, j - 1))]
    IN  << [type |-> t.type, attr |-> t.attr, num |-> t.num,
            parent |-> parent, children |-> ids] >>
        \o FlattenSeq([j \in DOMAIN t.kids |-> Laid(t.kids[j], ids[j], id)])

Tree(t) == LET s == Laid(t, 0, NULL) IN [i \in 0 .. Len(s) - 1 |-> s[i + 1]]

Words(s) == T("NORMAL_TEXT", s, 0, <<>>)
Para(kids) == T("PARAGRAPH", <<>>, 0, kids)
Doc(blocks) ==
    Tree(T("ROOT", <<>>, 0, <<T("DOC_HEADER", <<>>, 0, <<>>)>> \o blocks
                            \o <<T("DOC_FOOTER", <<>>, 0, <<>>)>>))

A == Para(<<Words(<<"a">>)>>)
AB == Para(<<Words(<<"a", " ", "b">>)>>)
BC == Para(<<Words(<<"b", " ", "c">>)>>)
Emph == Para(<<Words(<<"a", " ">>), T("EMPHASIS", <<>>, 0, <<Words(<<"b">>)>>),
               Words(<<" ", "c">>)>>)
Emph2 == Para(<<Words(<<"a", " ">>), T("EMPHASIS", <<>>, 0, <<Words(<<"b">>)>>),
                Words(<<" ", "d", " ", "c", " ", "e">>)>>)
Quote(blocks) == T("BLOCKQUOTE", <<>>, 0, blocks)
Table(w) == T("TABLE_BLOCK", <<"1">>, 0, <<T("TABLE_CELL", <<"1">>, 0, <<Words(<<w>>)>>)>>)
Head1 == T("HEADER", <<"1">>, 0, <<Words(<<"b">>)>>)
Head2 == T("HEADER", <<"2">>, 0, <<Words(<<"b">>)>>)

Blocks == {A, BC, Emph, Quote(<<A, BC>>), Table("a"), Head1, Head2}

Docs ==
    {Doc(<<>>)} \cup {Doc(<<b>>) : b \in Blocks}
    \cup {Doc(<<b, c>>) : b \in Blocks, c \in {AB, Quote(<<AB>>), Table("b")}}
    \cup {Doc(<<Quote(<<AB, BC, A>>)>>), Doc(<<Quote(<<AB>>), Quote(<<BC, A>>)>>),
          Doc(<<A, BC, AB>>), Doc(<<Emph2, A>>)}

\* One paragraph whose last text has other words.
Reworded == {<<Doc(<<Emph>>), Doc(<<Emph2>>)>>}

\* Two quotations of one weight: the second is queued behind all others, its
\* parts are matched before it and are taken from their matches.
Deep(b) == Quote(<<Quote(<<b>>)>>)
Taken == <<Doc(<<Deep(A)>>), Doc(<<Quote(<<A, BC>>), Deep(Head1), Deep(A)>>)>>

\* Paragraphs with references, and the footnotes they refer to.
Ref(k, n) == T("FOOTNOTE_REF", <<k>>, n, <<>>)
Def(k, n) == T("FOOTNOTE_DEF", <<k>>, n, <<Para(<<Words(<<k>>)>>)>>)
Foots(defs) == T("FOOTNOTES_BLOCK", <<>>, 0, defs)

\* One that grows, is reordered or loses a reference.
FootnoteDocs ==
    {Doc(<<Para(<<Words(<<"a">>), Ref("x", 1)>>), Foots(<<Def("x", 1)>>)>>),
     Doc(<<Para(<<Words(<<"a">>), Ref("y", 1), Ref("x", 2)>>),
           Foots(<<Def("y", 1), Def("x", 2)>>)>>),
     Doc(<<Para(<<Words(<<"a">>), Ref("x", 1), Ref("y", 2)>>),
           Foots(<<Def("x", 1), Def("y", 2)>>)>>),
     Doc(<<AB, Para(<<Words(<<"a">>), Ref("y", 1)>>),
           Para(<<Ref("x", 2)>>), Foots(<<Def("y", 1), Def("x", 2)>>)>>)}

MCInputs == (Docs \X Docs) \cup (FootnoteDocs \X FootnoteDocs) \cup {Taken} \cup Reworded

MCFootnoteInputs == FootnoteDocs \X FootnoteDocs
=============================================================================
