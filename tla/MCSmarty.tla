------------------------------ MODULE MCSmarty ------------------------------
(* Small trees for smarty(). *)
EXTENDS Smarty, MCTrees, TLC

N(ty, kids) == Tree([type |-> ty, text |-> <<>>], kids)
L(ty, text) == Tree([type |-> ty, text |-> text], <<>>)
W(text) == L("NORMAL_TEXT", text)
P(kids) == N("PARAGRAPH", kids)
Doc(blocks) == Laid(N("ROOT", <<N("DOC_HEADER", <<>>)>> \o blocks \o <<N("DOC_FOOTER", <<>>)>>), 1, 0)

\* Pieces of text, put together to texts of up to three.
Pieces == {<<"\"">>, <<"'">>, <<"a">>, <<" ">>, <<"(">>, <<"-", "-">>, <<"1", "/", "4">>}
Texts(n) == {FlattenSeq(w) : w \in BoundedSeq(Pieces, n)}
Signs == {<<"(", "c", ")">>, <<"(", "c">>, <<".", ".", ".">>, <<".", " ", ".", " ", ".">>,
          <<".", ".">>, <<"-", "-", "-">>, <<"1", "/", "4", "t", "h">>, <<"1", "/", "4", "t">>}

\* What may follow a text in its paragraph, or its paragraph.
Spans == {W(<<"a">>), W(<<".">>), W(<<"\"">>), N("EMPHASIS", <<W(<<"\"", "a", "\"">>)>>),
          N("LINK", <<N("EMPHASIS", <<W(<<"'">>)>>)>>), N("LINK", <<>>),
          L("CODESPAN", <<"a">>), L("ENTITY", <<"eacute">>)}
Blocks == {P(<<W(<<"a">>)>>), N("LIST", <<N("LISTITEM", <<W(<<"\"", "a", "'">>)>>)>>)}

\* A word's end that is that of a block is not found before an opaque block,
\* and none is found at a line break (smartypants.c:280): next to these,
\* texts have nothing that depends on it.
Code == L("BLOCKCODE", <<"a">>)
Break == N("LINEBREAK", <<>>)
WordFirst(t) == W(<<"a">> \o t)
WordLast(t) == W(t \o <<"a">>)

MCDocs ==
    {Doc(<<P(<<W(t)>>)>>) : t \in Texts(4)}
    \cup {Doc(<<P(<<W(t), s>>)>>) : t \in Texts(2), s \in Spans}
    \cup {Doc(<<P(<<s, W(t)>>)>>) : t \in Texts(2), s \in Spans}
    \cup {Doc(<<P(<<W(t \o u)>>)>>) : t \in Texts(1) \cup Signs, u \in Texts(1) \cup Signs}
    \cup {Doc(<<P(<<W(t), r, s>>)>>) : t \in Texts(1), r \in Spans, s \in Spans}
    \cup {Doc(<<N("LIST", <<N("LISTITEM", <<W(t), b>>)>>)>>) : t \in Texts(2), b \in Blocks}
    \cup {Doc(<<N("BLOCKQUOTE", <<P(<<N("EMPHASIS", <<W(t)>>)>>)>>), b>>) : t \in Texts(2), b \in Blocks}
    \cup {Doc(<<N("BLOCKQUOTE", <<P(<<N("EMPHASIS", <<WordLast(t)>>)>>)>>), Code, P(<<W(t)>>)>>) :
            t \in Texts(2)}
    \cup {Doc(<<P(<<WordLast(t), Break, WordFirst(t)>>)>>) : t \in Texts(2)}
=============================================================================
