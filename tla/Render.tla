------------------------------- MODULE Render -------------------------------
(***************************************************************************)
(* mdown_render (library.c): one tree is passed to the renderer of the     *)
(* type of output asked for.  One behaviour is one call.                   *)
(***************************************************************************)
EXTENDS Term, Gemini, Html, Latex, Roff, Odt

Init ==
    \E job \in Jobs :
        /\ type = job.type /\ oflags = job.oflags /\ tree = job.tree
        /\ todo = Rndr(Root)
        /\ st = CASE type = "TERM" -> TermInit
                 [] type = "GEMINI" -> GeminiInit
                 [] type = "HTML" -> HtmlInit
                 [] type \in LatexTypes -> LatexInit
                 [] type \in RoffTypes -> RoffInit
                 [] type = "FODT" -> OdtInit

Next == TermNext \/ GeminiNext \/ HtmlNext \/ LatexNext \/ RoffNext \/ OdtNext

Spec == Init /\ [][Next]_vars

-----------------------------------------------------------------------------
(* The assertions of the renderers hold: in term.c a line begins only     *)
(* where the last one has ended and while all nodes it is in are being    *)
(* rendered, and words go on only on a line that has begun; there and in  *)
(* gemini.c a cell is as wide when it is printed as when it was measured; *)
(* in gemini.c no link is put out while a table is measured; in nroff.c    *)
(* the text that becomes the prefix of a link is not safe text yet; in     *)
(* odt.c a list item is in a list.                                         *)
AssertsHold == type \notin LatexTypes => st.ok

\* The types of nodes that begin on a line of their own.
LineTypes ==
    {"BLOCKCODE", "BLOCKHTML", "BLOCKQUOTE", "DEFINITION", "DEFINITION_TITLE",
     "DEFINITION_DATA", "FOOTNOTES_BLOCK", "FOOTNOTE_DEF", "HEADER", "LIST", "LISTITEM",
     "PARAGRAPH", "TABLE_BLOCK", "TABLE_ROW", "HRULE", "META", "ROOT"}

\* The innermost of these that n is in.
LineNode(n) == Last(SelectSeq(Path(n), LAMBDA k : Type(k) \in LineTypes))

(* Blocks stand on lines of their own: what follows on one line is of one  *)
(* block and of blocks it is in, however the blank lines between them are  *)
(* counted.                                                                *)
BlocksApart ==
    type \in {"TERM", "GEMINI"} /\ todo = <<>> =>
        LET shown == SelectSeq(st.ob, LAMBDA tok : tok.t \in {"word", "mark", "bullet", "nl"})
        IN  \A i \in 1 .. Len(shown) - 1 :
                shown[i].t = "nl" \/ shown[i + 1].t = "nl"
                \/ LineNode(shown[i].n) \in ToSet(Path(shown[i + 1].n))
                \/ LineNode(shown[i + 1].n) \in ToSet(Path(shown[i].n))

\* The nodes in the order in which they are shown: in OpenDocument the
\* footnotes stand where they are referred to.
Below(n) == SelectSeq([k \in DOMAIN tree |-> k], LAMBDA k : n \in ToSet(Path(k)))
ShownOrder ==
    IF type # "FODT" THEN Below(Root)
    ELSE Each(SelectSeq(Below(Root), LAMBDA k : ~Within(k, {"FOOTNOTES_BLOCK"})),
              LAMBDA k : IF Type(k) = "FOOTNOTE_REF" THEN Below(DefOf(k)) ELSE <<k>>)

(* Every text is shown once, in the order of the document, also where a    *)
(* part of it is rendered twice or into a buffer of its own.               *)
TextInOrder ==
    todo = <<>> =>
        LET texts == {n \in DOMAIN tree : Type(n) = "NORMAL_TEXT" /\ ~Within(n, {"META"})}
            shown == SelectSeq(st.ob, LAMBDA tok : tok.t = "word" /\ tok.n \in texts)
            nodes(toks) == [i \in DOMAIN toks |-> toks[i].n]
            words(n) == SelectSeq(TextToks(n, tree[n].text), LAMBDA tok : tok.t = "word")
        IN  nodes(shown)
              = Each(ShownOrder, LAMBDA n : IF n \in texts THEN nodes(words(n)) ELSE <<>>)

\* The elements that are open behind a sequence of tokens, from the outside
\* in, "?" if another one was closed than the last one opened.
OpenAfter(toks) ==
    FoldLeft(LAMBDA open, tok :
                CASE tok.t = "open" -> Append(open, tok.tag)
                  [] tok.t = "close" -> IF open # <<>> /\ Last(open) = tok.tag THEN Cut(open)
                                        ELSE <<"?">> \o open
                  [] OTHER -> open,
             <<>>, toks)

(* What opens is closed, the last one first.                               *)
WellNested == todo = <<>> => OpenAfter(st.ob) = <<>>
=============================================================================
