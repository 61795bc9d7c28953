# A verification of mdown

mdown translates Markdown to HTML, terminal text, roff, Gemini, OpenDocument
and LaTeX, and computes the difference of two documents.  This directory holds
TLA+ models of it, the TLC runs that check them on small instances, and proofs
checked by TLAPS.

## The system

| part | source | state it keeps | hard behaviour |
| --- | --- | --- | --- |
| block and inline structure | `document.c` | `struct mdown_doc`: `nodes`, `current`, `depth`, `in_link_body`; the tree; the open nodes in the locals of the recursive functions | recursion with shared state, a definition list reopened by hand, errors at any point, one object for many parses |
| footnotes | `document.c` | `footq` with `is_used` and `num`, `foots` | references met while the list of footnotes is written |
| delimiters of spans | `document.c`, `autolink.c` | place in the text, text pushed so far | which delimiters match; addresses and line breaks take back text that was pushed |
| first pass, metadata | `document.c` | `refq`, `footq`, `metaq` and the nodes below the header | where a definition ends; duplicates, empty values, blank lines |
| buffers | `buffer.c` | `size`, `maxsize`, `unit` | growth, clones |
| sequence comparison | `libdiff.c` | furthest points by diagonal, the path, the script | indices at the ends of the diagonals, the end of the search, exchanged sequences |
| tree difference | `diff.c` | matches between two trees, queue, identifiers | matches must be mutual; the merged tree must project to both inputs |
| smart typography | `smartypants.c` | word boundary to the left, next identifier | changes the tree while walking it |
| renderers | `html.c`, `term.c`, `nroff.c`, `gemini.c`, `odt.c`, `latex.c`, `xelatex.c`, `tree.c` | columns and blank lines, queues of links or of nodes, fonts, styles, header identifiers | state kept across nested blocks; nodes rendered twice, out of order or not where they stand |
| library, programs | `library.c`, `main.c`, `util.c` | none of their own | freeing on every path |

`mdown_buf` and `mdown_file` (`library.c`) call the parser, then
`smarty`, then one renderer, and free the tree; `mdown_buf_diff` parses twice
and passes both trees to `mdown_diff`.  The parts share nothing but the tree
and the identifier counter (`maxn`), so the properties of the tree the parser
builds are what the other parts rely on: identifiers are new, every node is
once in the list of its parent, no block is below a span (`smartypants.c`
calls `abort()` on one), all rows of a table have its columns (the renderers
index arrays by them), a footnote referenced has a definition.  What each part
promises beyond that is stated as the properties below.

Nothing runs concurrently and nothing is persisted: what is hard to test is
state shared by recursive functions, sequences of constructs nobody tried,
failure in the middle of all that, and boundary values.  `PROJECT.json` lists
these hazards by line.

## The models

**DocTree** is the state under the parser: the tree (`tree`, by identifier, as
`struct mdown_node` has it: type, parent, children, one number, one flag), the
fields `nodes`, `current` and `depth`, and the C call stack (`stack`): one
frame for each parse function that holds an open node in a local variable,
with the calls it still has to make, its loop index and its list flag.
`PushNode`, `PushLeaf` and `PopNode` are `pushnode` and `popnode`; `CanPush`
is the depth check and, as a bound on the model, the number of nodes.

**Parser** is the second pass of `mdown_doc_parse`.  There is one action for
each construct that `parse_block` and `parse_inline` try, and one each for the
end of a loop (`EndLoop`), the part of `char_link` after the text of a link
(`EndLinkBody`), the return of a function (`Return`), the end of the parse
(`Finish`), any failure (`Fail`) and the call of `mdown_doc_parse` (`Parse`),
which may come again after an end or a failure on the same object.

| code | actions |
| --- | --- |
| `mdown_doc_parse` | `Parse`, `DocHeader`, `DocFooter`, `Finish`, `Fail` |
| `parse_blockquote`, `parse_paragraph`, `parse_atxheader` | `ParseBlockquote`, `ParseParagraph`, `ParseHeader` |
| `parse_fencedcode`, `parse_blockcode`, `parse_htmlblock`, rules | `LeafBlock` |
| `parse_list`, `parse_listitem` | `ParseList`, `ListItem` |
| `parse_definition`, `parse_listitem` | `NewDefinition`, `MergeDefinition`, `DefinitionData`, `EmptyData`, `DataItem` |
| `parse_table`, `parse_table_header`, `parse_table_row` | `ParseTable`, `TablePart`, `TableRow`, `TableCell`, `FillCell` |
| `parse_emph1`, `parse_emph2`, `parse_emph3`, `char_superscript` | `ParseSpan` |
| the other character functions | `LeafSpan`, `AngleAutolink`, `BareAutolink` |
| `char_link` | `CharLink`, `EndLinkBody`, `FootnoteRef`, `LeafSpan` for an image |
| `parse_footnote_list`, `parse_footnote_def` | `FootnotesBlock`, `FootnoteDef` |

What the bytes spell is abstracted.  `text` is a kind of input: the block and
the inline constructs it may spell, and a bound on the nodes.  Where the code
looks at bytes, the model may take any of these constructs; where it looks at
its own state (the last sibling, the flags, `depth`, `in_link_body`,
`is_used`, the column), the guard is the code's.  So every tree the code
builds from the constructs is a behaviour of the model, and some trees of the
model have no text that spells them; the safety properties hold for these as
well.  The violations below were confirmed with the program.

Four things are simplified.  The result of `parse_listitem` in its flags is
chosen where a definition's data is opened, one call earlier than in the code,
and is kept as the flag of the data node.  A paragraph has one line or
two, two standing for more.  The header and the rows of a table keep the
number of columns, in the code only the table and the cells do.  `pushnode`
and `popnode` without a call in between are one step.

**FootnoteOrder** is an abstract specification: what the parser promises about
footnotes, without a tree.  **ParserFootnotes** gives the refinement mapping,
the footnotes read off the tree's nodes in the order of their identifiers, and
states that Parser implements it (`FootnotesOrdered`).

**OnpDiff** is `diff()` of `libdiff.c`, which `node_lcs` of `diff.c` calls on
the words of two texts; one behaviour is one call.  The variables are the
fields of `struct onp_diff` and the locals of its functions, by their names;
`fp` and `path` keep their offset, so that an index outside of them would show.

| code | actions |
| --- | --- |
| `onp_alloc` | `Init` |
| `onp_snake` | `StartSnake`, `Slide` (a round of its loop), `Record` |
| the loops of `onp_compose` | `RecordDiagonal`, `NextRound`, `EndSearch` |
| `onp_compose` after them | `Trace`, `StartScript`, `Fail` |
| `onp_genseq`, `onp_addses`, `onp_addlcs` | `GoDown`, `GoRight`, `GoBoth`, `NextPoint`, `EndScript`, `ScriptFails` |

The comparison function is equality of the elements; that words which compare
equal may have different spaces around them is why an entry of the script
points into one of the two sequences, and the model keeps which.  The six
counters of `onp_genseq` are two in the model (`px`, `py`), the other four
differ from them by a constant.

**Delimiters** has the functions of `document.c` and `autolink.c` that look
for the end of a span, as operators on places of a text; **Inline** is the
state machine around them: `parse_inline`, with a frame for each call of it,
and one action for each `char_` function and what happens behind it.  The
parser is modelled twice, then: in Parser the bytes are a choice and the
structure is everything, in Inline the text is given and every character
counts.  **FirstPass** EXTENDS Inline with `mdown_doc_parse` on the characters
of a document.

| code | actions |
| --- | --- |
| `mdown_doc_parse` up to the first pass | `Call`, `Metadata` (`parse_metadata`, `parse_metadata_val`) |
| `is_ref`, `is_footnote` | `Define` |
| `expand_tabs` and the rest of the first pass | `CopyLine`, `EndReading` |
| `parse_block` on paragraphs | `NextBlock` |
| `parse_inline` and the functions it calls | the disjuncts of `ParseInline` |

A text is a sequence of characters, of which there is one for each that the
code treats in a way of its own.  Titles, dimensions and attributes are kept
only as far as they decide where a link ends; attributes are taken to be
parsed, and keys are compared exactly.

**TreeMatch** and **TreeDiff** are `mdown_diff`: the signatures and weights of
the nodes of both trees, the queue of new nodes, `match_down`, `match_up` and
the two optimisations (`TreeMatch`), then `node_merge` and the new order of
footnotes (`TreeDiff`).  Each round of the loop over siblings in
`node_optimise_topdown` is a step (`TryNext`), each node of the two
optimisations another one.  What is compared are documents (`IsDocument`): a
tree as `mdown_doc_parse` makes it, numbered from the top, with one root and
an empty footer right below it.  Weights are in hundredths, as they are
products of logarithms.  The comparison of two texts inside `node_merge` may give any shortest
script, which is what OnpDiff shows of `diff()`.

**Smarty** is `smarty()`.  A frame is a call of `smarty_block` or
`smarty_span`, and a step visits one node, splits a text around one entity, or
returns.

**Rendering** is the call of `mdown_render` and the order in which all
renderers walk the tree: `todo` is what is left to do, and a node in it is
replaced by the steps of its `rndr_` function.  **Html**, **Term**, **Roff**,
**Gemini**, **Odt** and **Latex** are the renderers, `st` is the state each
keeps in its `struct`, by the names of the code, and `st.ob` the output, as
tokens that know which node they are of.  **Render** chooses between them.

| module | what is modelled |
| --- | --- |
| `Html` | a buffer for each node's children, counted headers, items of lists, footnotes, escaping, the head |
| `Term` | column, line breaks, prefixes, the stack of nodes, styles, wrapping of words, tables rendered twice |
| `Roff` | the queue of block nodes, scopes, fonts, the text that goes into the request of a link, the flush, for `-Tms` and `-Tman` |
| `Gemini` | blank lines, the queue of links in all its modes, tables rendered twice |
| `Odt` | the search and the making of styles, lists, footnotes rendered where they are referred to, tracked changes |
| `Latex` | environments, groups and commands, tables, the preamble's metadata, for LaTeX and XeLaTeX |

Left out of them: short links, which colour or look a style has, the
horizontal margin, the form of numbers, escapes other than those of HTML (in
roff every entity counts as text to be escaped, and metadata is not told
apart), attributes but for the address of a link in a header's identifier, and
the widths of roff's and LaTeX's tables.

The `MC` modules hold the instances, **MCTrees** lays out trees for two of
them.  **ParserProofs**, **ParserTreeProofs**, **FootnotesProofs**,
**InlineProofs**, **InlineTextProofs**, **FirstPassProofs**,
**OnpDiffProofs** and **TreeDiffProofs** hold the proofs.

Inline and FirstPass were compared with the program on 24,325 texts and
27,875 documents (the pieces of `MCInline`, and others), by the tree that
`mdown -Ttree` prints, and Smarty with `smarty()` on 4,992 trees: there was no
difference.  The renderers were compared with `mdown_render()` on the 780
trees and sets of options of runs `render`, `term_table` and `roff_links`, and
on random trees: the elements, words, fonts, styles, links and columns of
their output were those of the models.

Operators whose comment begins with "Fault" are variants of the code with a
plausible mistake, placed before the definition they vary.  Every property
below is violated when one of them replaces its original (`PROJECT.json`,
"mutants").

## The runs

| run | properties | bounds |
| --- | --- | --- |
| `parser` | `TypeOK`, `OpenPath`, `DepthLimited`, `ChildLists`, `BlocksAboveSpans`, `TablesRectangular`, `DefinitionsMerged`, `BlockFlagSticks`, `LinkFlagScoped`, `OnlyTitlesMove` | five kinds of text, 5 to 12 nodes, `maxdepth` 5, two columns |
| `footnotes` | `FootnotesOrdered` | three definitions, up to 10 nodes, no limit on the depth |
| `links` | `NoAutolinkInLink`, violated | links and autolinks, 8 nodes |
| `inline` | `AssertsHold`, `TextOnce`, `LettersOnce`, `GetsFurther` | texts of up to four pieces (five in one kind) of sixteen kinds, documents of up to five of ten kinds |
| `diff` | `TypeOK`, `SearchInRange`, `FurthestReaching`, `ScriptTransforms`, `ScriptIsShortest`, `Returns` | all pairs of sequences of up to 5 of two elements |
| `diff_memory` | `FailureReported`, violated | sequences of up to 2 |
| `smarty` | `SmartAsOneLine` | about five thousand trees, texts of up to four pieces of seven |
| `treediff` | `MatchesMutual`, `MatchesAlike`, `AssertsHold`, `BothReadable`, `EqualUnmarked`, `DefsFollowRefs`, `Returns` | over a thousand pairs of documents of up to three blocks |
| `treediff_footnotes` | `DefsInOrderOfRefs`, violated | pairs of four documents with footnotes |
| `render` | `AssertsHold`, `StylesClosed`, `BulletsOnce`, `LinksResolve`, `BlocksApart`, `TextInOrder`, `WellNested`, `IdsDiffer`, `FontsFollowSpans`, `RequestsBeginLines`, `StylesFit` | some fifty documents and the options that matter, for all types of output, 8 columns |
| `term_table` | `AssertsHold`, violated | tables with spans of every kind in a cell |
| `roff_links` | `TextInOrder`, violated | a text between two links |

What they show.  `OpenPath` contains the asserts of `popnode` and of
`mdown_doc_parse`: each function pops what it pushed, also after a definition
list was reopened without `pushnode`.  `DepthLimited` says the limit holds, to
one level, also there.  `ChildLists` says the tree can be walked and freed,
`OnlyTitlesMove` that nothing in it moves but titles.  `DefinitionsMerged`,
`TablesRectangular` and `BlocksAboveSpans` are what the renderers and
`smartypants.c` rely on.  `BlockFlagSticks` and `LinkFlagScoped` are about the
two flags that leak from one recursive call into others.  `FootnotesOrdered`
covers footnotes first referenced while footnotes are written, and, being a
temporal formula with fairness, that such a chain comes to its end.

`FurthestReaching` is why the algorithm is right: a point recorded in round
`p` is the furthest any path with `p` deletions reaches on its diagonal, by a
reference that knows nothing of the search (the longest common subsequence of
the prefixes, by enumeration).  `ScriptTransforms` and `ScriptIsShortest` say
what a caller relies on, with the exchange of the sequences undone in every
field, and `Returns` that the search, which ends on an exact comparison, ends.

`TextOnce` relates the nodes to the places of the text they were made of: each
is within what its parent was made of and behind its earlier siblings, and no
letter is in no node.  A `char_` function returns only a number, `find_emph_char`
skips what it does not parse, addresses and line breaks take back what was
pushed, and each of these could lose a letter or show it twice.  `GetsFurther`
is the termination of `parse_inline`: every round gets it further or back to
a caller that is as far.  `LettersOnce` says the same of the first pass:
where a definition ends is worked out apart from what is kept of it.

`MatchesMutual` is about matches that three phases make and unmake.
`BothReadable` and `EqualUnmarked` are what a difference is for: without the
inserted nodes it is the old document, without the deleted ones the new one,
and equal documents have none, wherever nodes were moved.  `AssertsHold` there
includes that the roots are matched, which nothing does directly.
`DefsFollowRefs` is what does hold of the order of footnotes.

`SmartAsOneLine` compares `smarty()` with a definition that sees the text on a
single line, without nodes: splitting texts, inserting entities and the depth
of the walk change nothing in which quotes open and which close.  Where a word
ends is the manual's (`mdown.5:897`), so the end of a block and a line break
are boundaries in it.  `smarty()` does not find them where an opaque block
(code) follows the one that ends, or at a hard line break; the documents have
code blocks and line breaks, but no quote or fraction right before them or
behind the break (`MCSmarty`, and the table below).

Of the renderers, `TextInOrder` says that every word comes out once and in the
order of the document, whatever is queued, put off, rendered twice or put into
a request; `WellNested` that what opens closes, in all markup; `AssertsHold`
covers the asserts of `term.c`, `gemini.c`, `nroff.c` and `odt.c`.
`BlocksApart`, `BulletsOnce` and `StylesClosed` are about lines in the
terminal (and in Gemini), `LinksResolve` about labels of links put off,
`FontsFollowSpans` and `RequestsBeginLines` about roff, where a font is
counted and a request counts only at the beginning of a line, `IdsDiffer` about
HTML, where the identifier of a header is its content, escaped, with a count
behind it if the same content was there before, and must not be that of another
header, `StylesFit` about styles in OpenDocument, which are chosen by what a
node stands in.

The bounds.  A merge of definition lists needs six nodes besides the root and
the document header (title, data, item, twice), and 10 leave room for a definition
inside the data of another and for a block before and after; 12 nodes hold a
table with one header row and one more row of two columns, complete or short;
8 hold a link in a link with an autolink after it; three footnotes of which
one is first referenced in the text of another need 10.  `maxdepth` 5 is
reached, and exceeded by the failing `pushnode`, in the nested definitions and
links.  The number of nodes is bounded by the guard `CanPush`; when it is used
up, only the ends of loops and failures remain.

Two elements and a length of 5 give pairs with nothing in common, which reach
both ends of `fp`, empty ones, equal ones, and every way for the sequences to
differ in length, up to six rounds; the proofs need no bound.

The pieces of a kind in `MCInline` belong together: delimiters of spans with
code and brackets, links with titles and dimensions, addresses with what may
split them.  Four pieces are enough for one construct to begin in another and
end behind it, which is where the code's searches disagree; a line break
needs five (two blanks, newline and a text on either side, or a span).
In documents, five pieces hold two definitions, or a definition and the text
that refers to it; newlines are of both characters and of both orders.  The documents of `MCTreeDiff` are those that reach each
branch of the matching: equal blocks moved, taken from a smaller match, under
a parent of another kind, with texts of other words.  Those of `MCRender` have
every type of node, every block in a quote and behind it, lists in lists,
spans in table cells, changed nodes; 8 columns are few enough for three short
words to be broken, also within a styled span.

Fairness.  In `OnpDiff` and `TreeDiff`, `WF_vars(Next)`: a function that is
called runs.  In the parser, `WF_vars(ParseStep)`: the parser is one
sequential function that is not interrupted, so a parse that was called takes
its next step.  `Parse` itself is not fair, nobody has to call it.  No
fairness is assumed of any single construct or of success.  `Inline`,
`FirstPass`, `Smarty` and `Render` state none, they have no liveness property.
`GetsFurther` is an action property, and in `inline` and `smarty` deadlock is
checked: no step is missing before the call has returned.  A call of
`mdown_diff` or `mdown_render` ends, so their runs allow TLC to stop.

### What disagrees

* `links`: `char_link` sets `in_link_body` to 0 after the text of a link and
  does not restore it.  After a link in the text of a link, autolinks are
  recognised in the rest of the outer text, which `document.c:1818` says they
  are not.  `[x [y](u) http://foo.bar](v)` shows it.
* `diff_memory`: `onp_compose` ignores what `onp_genseq` returns, so `diff()`
  succeeds when memory runs out while the script is written.  `node_lcs`,
  which promises zero on failure (`diff.c:915`), then builds its nodes from the
  part of the script there is, and the rest of both texts is lost.

* `treediff_footnotes`: `node_merge` records a reference only when the node it
  copies is one itself.  Those below a paragraph deleted or inserted as a whole
  are not recorded, keep the number 0 and get no definition, so references and
  definitions do not agree (`diff.c:84-85`).
* `term_table`: `rndr_line_start` aborts with a block formula in a cell of a
  table (`--parse-math`): while a cell is measured it has the table's place on
  the stack, and the prefix of the table is not found there.
* `roff_links`: the text between two links is taken for the prefix of the second
  from its beginning, although its first word went into the request of the first
  one (`nroff.c:643-646`); it is shown twice.

Known deviations that no run states.  They were met while modelling and were
confirmed with the program; the models behave like the code, and where a
property would fail the documents of its run leave the case out.

| where | what happens |
| --- | --- |
| `document.c:171` | the tree may be one level deeper than `maxdepth` (`mdown.h:302`), as the old depth is compared; `DepthLimited` states what holds |
| `document.c:1193`, `1236` | `show@b.cc` with autolinks gives `sho` and a link `show@b.cc`: the `w` split the text, and only the last node is shortened |
| `document.c:1924` | an unclosed `^(` is dropped with the character behind it, as 3 is returned where nothing was pushed: `x^(abc d` loses `^(a`; `LettersShown` leaves that character out (`Unclosed`) |
| `document.c:1461` | the exclamation mark of `![^]` is shown twice |
| `document.c:1798` | `[a](b){}`: the whole document is refused; `[a](u){.c}}` swallows the second brace |
| `parse_emph3` | it never succeeds through `parse_emph1` or `parse_emph2`: `***foo** bar*` is `*<strong>foo</strong> bar*`; and a first candidate that does not close ends the search (`*a **b** c*` has no emphasis) |
| `document.c:3775` | the empty lines behind a footnote are taken with it, so the paragraphs around it become one (`mdown.5:77`) |
| `document.c:4377` | an empty value takes the next key for its value; blanks behind the last value of a line give a pair with an empty key (`mdown.5:372`) |
| `document.c:3997` | the indentation of the line behind a reference is lost; a following line that begins with a quote but is no title makes it no reference; a title on the next line is not found behind `\r\n` (4005: the two are looked for the other way round); `[^k]:text` without a blank defines an empty footnote |
| `document.c:3753` | a buffer is leaked for each footnote |
| `smartypants.c:280` | the end of a block is passed over when a word's end is looked for (the FIXME there), while `mdown.5:897` makes it a boundary: a quote at the end of a paragraph or item that a code block follows stays straight; so does one next to a hard line break, before or behind it |
| `diff.c:796` | `*id++` steps the pointer; `*maxn` is that of the inputs, not of the tree returned (`mdown_diff.3:51`); a failing allocation meets an assert |
| `html.c:1173` | `title: "foo"` is escaped twice in the head, in OpenDocument too |
| `html.c:467` | a list whose later items are blocks puts `<ul>` into `<p>` |
| `html.c:341` | the headers `a-2`, `a` and `a` get `a-2` twice (the XXX at 345-348); `a b` and `a%20b` both get `a%20b`, as escaping leaves a percent sign |
| `html.c:1168`, `odt.c:1906` | a failure is reported as success (`mdown_html_rndr.3:52`) |
| `odt.c:499` | the style Footnote is named and never put out; a rule in the body and one in a footnote define a style twice; a footnote referred to only in a footnote is lost |
| `nroff.c:347` | a footnote that begins with a definition list loses its title; `[*a* b](u)` for man loses its bold font; a colour or a link within a header or a link's text puts its request (`.gcolor`, `.pdfhref`) in the middle of that line |
| `nroff.c:723` | for man with groff, a round box is begun before a code block and not ended |
| `term.c` | the blank behind a styled word is not counted where a line is broken, so lines can be too long |
| `gemini.c` | `> ` and an empty line before `foo` give `> foo`; the first line of a code block becomes its alt text |
| `latex.c` | the group of a table cell that was inserted encloses its `&` |

## The proofs

| module | theorem | states |
|---|---|---|
| `ParserProofs` | `ParserTypes` | `[]TypeOK` |
| | `PopsWhatIsOpen` | `[]OpenPath` |
| | `DepthBounded` | `[]DepthLimited` |
| `ParserTreeProofs` | `ListsAgree` | `[]ChildLists` |
| | `BlocksOverSpans` | `[]BlocksAboveSpans` |
| | `TablesFilled` | `[]TablesRectangular` |
| | `TitlesHaveData` | `[]DefinitionsMerged` |
| | `FlagsStick` | `[]BlockFlagSticks` |
| | `LinkFlagEnds` | `[]LinkFlagScoped` |
| | `TitlesAlone` | `OnlyTitlesMove` |
| `FootnotesProofs` | `FootnotesInOrder` | `Order!Ordered` |
| `InlineProofs` | `ParseInvariant` | `[]ParseInv`, the inductive invariant |
| | `LinebreaksFollowText` | `[]AssertsHold` of Inline |
| | `SpansInOrder` | `[](SpansNested /\ NodesInOrder)`, two parts of `TextOnce` |
| | `RoundsGetFurther` | `GetsFurther` |
| `InlineTextProofs` | `TextShownOnce` | `[]TextOnce` |
| `FirstPassProofs` | `EveryLetterOnce` | `[]LettersOnce` |
| `OnpDiffProofs` | `DiffTypes` | `[]TypeOK` |
| | `DiffInRange` | `[]SearchInRange` |
| | `ScriptIsRight` | `[]ScriptTransforms` |
| | `SnakesReachFurthest` | `[]FurthestReaching` |
| | `ShortestScript` | `[]ScriptIsShortest` |
| `TreeDiffProofs` | `MutualMatches` | `[]MatchesMutual` |
| | `AlikeMatches` | `[]MatchesAlike` |
| | `NoAssertFails` | `[]AssertsHold` of TreeDiff |

These are all properties of runs `parser` and `diff` but `Returns`, that of
run `footnotes` without its fairness, all of run `inline`, and those of run
`treediff` about the matching and the asserts.  Every invariant below was checked by
TLC on the instance of its run (sequences of up to four elements for the
comparison) before it was proved.

### The parser

The theorems hold for every set of kinds of text, every `maxdepth`, every set
of footnotes and every number of columns, that is for every input.  They rest
on the assumptions that `maxdepth` and `MaxColumns` are natural numbers and
that `Texts` is a set of kinds of text, which TLC evaluates on every run.

None of the three of `ParserProofs` is inductive.  The inductive invariant
`IInv` adds:

* `StackDistinct`: a node is open once.  Without it, setting the top frame
  might change another frame.
* `ChildParents`: the members of a list of children are in the tree, point
  back and are listed once.  So the title that `parse_definition` moves, and
  the list it reopens, are not on the open path: their parent is
  `doc->current`, and a node on the path whose parent is the last of the path
  would have to be after it (lemma `ChildNotOpen`).
* `DefinitionsShallow`: if an open node still has a call of `parse_block` to
  finish, and has a definition list for a child, then it is at a depth of
  `maxdepth` at most, since the list was pushed when `pushnode`'s check
  passed.  This is what makes the uncounted check in `parse_definition`
  harmless.

The argument for a step goes by the way it changes the state, not by action:
`PushKeeps` (pushnode), `LeafKeeps` (pushnode and popnode), `GoesOnKeeps` (only
the top frame changes), `ReturnKeeps`, `DefinitionOpened` with the two lemmas
of `parse_definition` above it, and `ParseKeeps`, `FinishKeeps`, `FailKeeps`.
They rest on lemmas about growing the tree (`GrownNodes`, `GrownChildren`),
moving a node (`RetitledNodes`, `RetitledLinked`) and the stack (`FramePushed`,
`FramePopped`).  `BlockStepKeeps`, `InlineStepKeeps`, `FootnoteStepKeeps` and
`EndStepKeeps` have one step per action and only find the lemma's parameters.

`ParserTreeProofs` is about the tree that is built.  Its properties speak of
finished nodes, so the invariant must say what an open one is on the way to:
`Fits(tree, frame)` relates the children a node has to the calls its function
has still to make.  A table with `thead` and `tbody` to do has no child, with
`tbody` to do one, with nothing to do two; a row being filled has as many cells
as its loop has counted; the last child of a definition list is a title as long
as the first round of the loop is to come and data after that; the flag in a
frame of a list is what its items have left there; no two definition lists are
neighbours; and the calls a function may make, and the children it may get, go
by the type of the node (`MayDo`, `MayHold`).  Nodes that are not open fit the
frame that has nothing left to do (`Closed`).  The invariant `TreeInv` is
`IInv`, the root at the bottom of the path, and `TInv`: `OpenFit`,
`ClosedFit`, `Placed` (every node is in its parent's list) and `LinkOpen`.

Popping a node is then no work: a frame without calls left fits as a closed
one (`DoneFits`).  Steps are sorted as before: `PushTree`, `LeafTree`,
`SetTree`, `ReturnTree`, and for `parse_definition` `NewDefinitionTree` (a
paragraph becomes the title) and `MergeDefinitionTree` (it is put into the
list before it, which is open again).  That merging keeps `ListsApart` and the
block flag is the hardest part: the list that is reopened was closed, and what
its frame must know of it, that it ends with data and which flag it has, is
taken from the tree.  `TitlesAlone` follows from the same invariant and from
the list of what each way of changing the tree leaves as it was (`StepStays`).

`FootnotesProofs` shows that every step of the parser is a step of
`FootnoteOrder`, or one that it does not see.  `FootnotesInv`, on top of
`TreeInv`, has three parts.  `Assigned`: the numbers from 1 to `doc->foots` are
each that of one footnote.  `Called`: the calls left to `mdown_doc_parse` are
an end of its list, `parse_footnote_list` runs only before the footer and right
above it, and its index is at most `doc->foots`; when it has left its loop the
two are equal, which is where a footnote first referred to in the definition
of another one gets its own.  `Counted`: the references in the tree bear the
numbers from 1 to `doc->foots` in the order of their identifiers, and the
definitions those from 1 to `Emitted`, which is 0 before the list of footnotes
is written, its index while it is, and `doc->foots` after it.

Most steps change neither numbers nor nodes of these types and keep the two
lower frames (`Ordinary`, `StackStep`); `FootnoteRefKeeps`, `FootnoteDefKeeps`,
`FinishCounts`, `FailCounts` and `ParseCounts` are the others.  The mapping
reads footnotes by rank: since numbers and ranks are the same (`Footnoted`),
what it reads is the list of the footnotes numbered up to a count, and the
five kinds of steps (`Refers`, `Emits`, `Opens`, `Closes`, `Aborts`) lengthen,
keep or empty it as the actions of `FootnoteOrder` do.

### Spans and the characters they are made of

The theorems of `InlineProofs` are about `FirstPass`, so about any text that a
document's paragraphs have and any text that `parse_inline` is called with,
for every set of extensions and definitions.  They assume of `Inputs` and
`Documents` that texts are sequences of characters.

First the operators of `Delimiters`: each search returns a place behind the
one it begins at and within the part of the text it was given, or 0
(`PastFinds`, `EmphFound`, `CodeEnd`, `TagLength`, the three addresses,
`LinkEnds`).  Those that go on from what they found, or that count open
brackets, are recursive functions on places, or on places and counts; that such
a function exists and satisfies its equation is proved from the order in which
it is evaluated (`Recursion`).  Then one lemma for each `char_` function says
what it returns (`Fits`): at most two nodes, the first of which may begin
before the special character only as far as text was pushed for it.

`ParseInv` is the inductive invariant.  `CallsTyped` and `CallsNested` say that
a call of `parse_inline` stays within the span it parses and that its caller
goes on behind that span.  `Copied` is what the assert needs, and the taking
back of addresses: between `consumed` and `i` there is text, it is the last
child of the open node, and it holds no special character but its first.
`Passed` is why nodes are in order: a node ends where its call has come to, or
it is the mark of an image that was none and will be met again.  `Tried` says
that what was no image is no link either when the bracket is met again, so the
mark is shown twice only in the case that the table above names (`MarkAgain`).
`Ordered` strengthens `NodesInOrder` by how far two nodes may overlap there.
`Paragraphs` is about the first pass: paragraphs come one after another, each
behind the nodes of the ones before.

A step of `parse_inline` copies text (`CopyTextKeeps`), gets a result of a
`char_` function (`HandleKeeps`) or returns (`ReturnKeeps`).  Every part of the
invariant has a lemma of its own for these.  That `GetsFurther` holds follows
from the same cases, since `Fits` says that the place a function returns is
behind the character it was called for.

`InlineTextProofs` adds that no letter is left out, the third part of
`TextOnce`.  Nothing in the code records what was shown, and nodes are changed
later: text pushed for a word is shortened when it proves to be the beginning
of an address.  So the invariant `TextInv` is about places of the text.  A place
is `Known` if there is no letter, or a node shows or hides it (`Has`), or it is
dropped in the text of the span it is in (`Left`): it is in a reference to
metadata that is not defined (`Undefined`), or behind an unclosed `^(`
(`Unclosed`, in the table above).  `Covered` says that each call of `parse_inline` knows
all it has passed, but for what the call within it has still to parse; `Around`
that all before the paragraph is known, and when a paragraph is over all up to
the next one.  `Wide` says that a span's text is part of what it was made of.

Of each `char_` function a lemma says that it tells of every character it goes
past (`Tells`): by its nodes, as text of the span it opens, as no letter, or as
dropped (`EmphasisTells`, `LinkTells`, and so on).  What a function takes back
is told as well: blanks before a line break are no letters (`BlanksTold`), and
a word before an address is shown by the address (`AddressTold`).  Then known
places stay known (`KnownStays`), and a step goes on in the same call
(`ReplaceKnows`), opens the call for a span's text (`OpenKnows`), or returns to
the caller, which knows the span then (`LastKnows`, `BackKnows`).  Between
paragraphs there are only empty lines (`BetweenBlocks`).

`FirstPassProofs` says of the first pass what `InlineTextProofs` says of the
text that is left: it keeps each letter of the document once, in a definition,
a pair of metadata or a line of the text.  It assumes that documents and the
metadata of the options are sequences of characters.  `KeptInv` has the
place up to which the document has been read (`ReadTo`): letters before it are
kept once, and nothing is kept of what is behind it (`LettersKept`).  While
metadata is parsed this place depends on which strings are left:
`OwnMetadata` says that the document's own is among them once, is what stands
at its beginning, and is read from `beg` on when its turn has come, so metadata
of the options, parsed before it or after it, moves nothing.

`Covers` is what the three kinds of definitions have to show: of the places
they pass, those they keep have all letters.  Each part of a definition has a
lemma of its own (`RefLinkPasses`, `EnclosedPasses`, `RefTitlePasses`,
`RefAttrsPasses`, `NameCovers`, `NoteLinesCover`, `ValueEnds`), and
`RefDefines`, `FootnoteDefines` and `MetadataCovers` put them together; between
them there are blanks, brackets and newlines.  `CopiedOnce` says of a line that
is copied that the tabs expanded before a letter do not drop or repeat it, and
that only newlines are copied from behind its end.

### The comparison of sequences

The theorems hold for any two sequences, assuming only that `Inputs` is a set
of sequences of `Elements`.

A diagonal within the arrays follows from `p <= m`, and that is the hard part
of the first part of `OnpDiffProofs`: why does the search not need another round?  The inductive
invariant (`RoundInv`) says of each diagonal, by the last round that searched
it, how far it is (`PointsInside`): each round is one deletion further on every
diagonal up to `delta`, and no point is outside the graph.  The upper bound
needs that no diagonal is at the end of a sequence when another round begins.
That holds since the diagonals are ordered towards `delta` (`PointsOrdered`)
and `delta` itself is not at the end, or the search would be over.
`SnakeStarts`, `DiagonalKeeps` and `RoundKeeps` are the three steps of it.

Its second part follows a path from its search to its script.  In the
invariant, `SearchLinked` says that each recorded point is reached from the one
it links to by at most one step off the diagonal and then along equal elements
(`Leg`), and that `path` has the point whose y `fp` has.  `PathTraced` says that
`onp_compose` goes back along these links from the end of both sequences to
their start.  `ScriptInv` says how many elements of either sequence the entries
put out so far stand for, so that the next entry points at the next element,
and where between two points of the path the script is.

Its third part shows that no path is shorter.  The cost of a point is the
number of elements of the shorter sequence before it that are not in the
longest common subsequence of the two prefixes (`PathsCost` and `PointsCost`
say what the recorded points and those in `fp` cost).  `NoneFurther` says that
no point further on a diagonal costs as little as the one `fp` has.
`CostNext` is the recurrence of the longest common subsequence: a step to the
right costs at most one, a step down or along equal elements nothing, and one
of the three ways to a point costs no more than the point does.  `NoneAhead`
draws the conclusion for a round: the first point beyond the snake that costs
as little would be reached from beyond the furthest point of a neighbouring
diagonal, or along the diagonal, where the elements differ.  So a snake ends
exactly at the furthest point (`SnakeExact`), and at the end of both sequences
the cost is the number of deletions that the script has.  The reference is the
set of all subsequences, by recursion on the length.  As no induction scheme
can be instantiated, that the function it defines exists and satisfies its
equation is proved from the least number principle (`UpTo`, `TableExists`).

### The tree difference

The theorems hold for every pair of documents.  They assume that what is compared is a document
(`InputsAssumption`, which TLC evaluates on every run): parents and children
agree and a node comes after the one it is in, which `ListsAgree` and `OpenPath`
show of the parser; and the root has an empty footer as a child, the only one,
which `mdown_doc_parse` pushes and pops behind everything else.

The assert of `pqueue` and the one in `match_down` on the new node need to know
that nothing is matched before its turn.  No list of the code says this: a node
is taken from the queue, its match is found later, and in between nodes above
and below others are matched.  The invariant `MatchInv` says it with a set `U`
of new nodes that no step has come to:

* `Untouched`: the nodes of `U` have no match, and what is below them is in `U`
  too, as far as the map goes.
* `Waits`: what is in the queue, in `walk` (children to queue) or in `down`
  (calls of `match_down` to make) is at the top of `U`, that is below a node
  that is not in it, and is there once.  So taking one of them from `U` leaves
  the others where they are (`TopTaken`), and its children, which are at the top
  then, may be queued or matched downwards.  `match_up` only meets nodes that
  are not in `U` (`AboveTouched`), so what it matches is in no list.
* `DownAlike`: the pairs in `down` have one signature.  A signature stands for
  the whole subtree, so equal ones mean as many children, with equal signatures
  in pairs (`SameSignature`); this is the assert of `match_down` on their number.
* `RootsMeet`: the roots are matched with one another, or they are still free
  and the footer, or the root itself, has still to be matched.  Both footers are
  empty and the only ones of their type, so they have the same signature
  (`FooterSignature`) and no other node has; when the new footer is taken from
  the queue it is the old one that is found (`FooterFound`), and `match_up` goes
  on to the roots, since a height is never 0.  This is the assert of
  `mdown_diff` that the roots are matched.

`MatchesMutual` and `MatchesAlike` are then kept by each pair that is matched.
All of the five places that match nodes go through `PairKeeps`: the node that
had the old one before is freed, but for `node_optimise_bottomup`, where it may
keep it.  `FramesMatched` says that `node_merge` is called on matched nodes,
which is its assert; the calls it makes are those of `CalledMatched`.

Signatures and ancestors are functions defined by recursion over the tree, from
the leaves and from the root.  That such a function exists and satisfies its
equation follows from the numbering, as in the comparison of sequences
(`SignedExists`, `AscentExists`).

### Model-checked only

The fairness in `FootnotesOrdered` and all liveness (`Returns`), which is out
of the prover's reach; of `TreeDiff` what the
merged tree says (`BothReadable`, `EqualUnmarked`, `DefsFollowRefs`); everything
about `Smarty` and the renderers, whose properties compare with references over
whole texts or trees.

## Not modelled, and the plan

The plan for proofs: the nesting of frames of Smarty, and the stack of nodes of
Term.

Not modelled:

* lines that begin other blocks than paragraphs, which Parser has as a choice,
  are not recognised in FirstPass, and its documents have none;
* reads one byte past a range (`tag_length`, `is_footnote` and others), which
  end in the terminating or the next byte of a larger text;
* `buffer.c`: the models have sequences where the code has buffers;
* `tree.c`, which prints the tree and keeps no state; `entity.c`, constant
  tables; `mdown_merge_adjacent_text` and the programs, which call the parts one
  after another;
* failing allocations outside of the parser and `libdiff.c`;
* replacements of libc functions, generated files, the tests.
