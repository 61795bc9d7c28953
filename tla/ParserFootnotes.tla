-------------------------- MODULE ParserFootnotes --------------------------
(***************************************************************************)
(* The parser implements FootnoteOrder: the footnotes of the tree it       *)
(* builds, read off its nodes.                                             *)
(***************************************************************************)
EXTENDS Parser, FiniteSets

\* The definition in doc->footq that has this number.
Named(num) == CHOOSE f \in Footnotes : fnum[f] = num

\* The footnotes of the nodes of type t, in the order of their identifiers.
FootnotesOf(t) ==
    LET ids == {k \in DOMAIN tree : tree[k].type = t}
        Nth(i) == CHOOSE k \in ids : Cardinality({j \in ids : j <= k}) = i
    IN  [i \in 1 .. Cardinality(ids) |-> Named(tree[Nth(i)].num)]

Order == INSTANCE FootnoteOrder WITH
    Names <- Footnotes,
    refs <- FootnotesOf("FOOTNOTE_REF"),
    defs <- FootnotesOf("FOOTNOTE_DEF"),
    open <- status = "parsing"

\* The parser implements FootnoteOrder: references are numbered as they are
\* met, every referenced footnote gets its definition once, in that order,
\* also one first referenced in another footnote, unless the parse fails.
FootnotesOrdered == Order!Spec
=============================================================================
