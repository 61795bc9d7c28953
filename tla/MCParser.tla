------------------------------ MODULE MCParser ------------------------------
(* Instances of the parser for TLC. *)
EXTENDS ParserFootnotes

Kind(blocks, inlines, bound) ==
    [blocks |-> blocks, inlines |-> inlines, bound |-> bound]

\* Small grammars, each long enough for the cases its constructs make hard.
MCTexts ==
    { \* two definition lists that merge, a definition in a definition
      Kind({"PARAGRAPH", "DEFINITION"}, {}, 10),
      \* lists in lists, list items with a line and a sublist
      Kind({"PARAGRAPH", "LIST", "BLOCKQUOTE"}, {"NORMAL_TEXT"}, 7),
      Kind({"HRULE", "BLOCKCODE", "BLOCKHTML", "HEADER"}, {"CODESPAN"}, 5),
      \* tables with text in their cells
      Kind({"TABLE_BLOCK"}, {"NORMAL_TEXT"}, 12),
      \* links, autolinks and emphasis in one another
      Kind({"HEADER"}, {"LINK", "LINK_AUTO", "EMPHASIS"}, 8) }

MCFootnoteTexts ==
    { Kind({"HEADER"}, {"FOOTNOTE_REF"}, 10),
      Kind({"HEADER"}, {"FOOTNOTE_REF", "SUPERSCRIPT"}, 7) }

MCLinkTexts == { Kind({"HEADER"}, {"LINK", "LINK_AUTO"}, 8) }
=============================================================================
