------------------------------- MODULE Parser -------------------------------
(***************************************************************************)
(* The second pass of mdown_doc_parse (document.c): parse_block and        *)
(* parse_inline build the tree, parse_footnote_list appends the footnotes. *)
(*                                                                         *)
(* What the text spells is chosen step by step: wherever the code looks at *)
(* the next bytes to see which construct they start, the model may take    *)
(* any construct of the kind of text whose remaining conditions (the ones *)
(* on the tree, on the flags and on the counters) hold.  Any allocation    *)
(* may fail.  The pass over metadata is off (no MDOWN_METADATA, no primer, *)
(* no override); a document object may be used for any number of parses.   *)
(***************************************************************************)
EXTENDS DocTree

CONSTANTS
    Footnotes,   \* the names of the footnote definitions in doc->footq
    MaxColumns   \* bound on the columns of a table

ASSUME MaxColumnsAssumption == MaxColumns \in Nat

VARIABLES
    in_link_body, \* doc->in_link_body
    foots,        \* doc->foots, the footnotes referenced so far
    fnum,         \* foot_ref.num of every definition, 0 while not is_used
    status        \* of mdown_doc_parse: not called, running, returned

docVars == <<in_link_body, foots, fnum, status>>
vars == <<treeVars, docVars>>

Init ==
    /\ text \in Texts
    /\ nodes = 0 /\ tree = [k \in {} |-> Node("ROOT", NULL, 0, FALSE)]
    /\ current = NULL /\ depth = 0 /\ stack = <<>>
    /\ in_link_body = 0 /\ foots = 0 /\ fnum = [f \in Footnotes |-> 0]
    /\ status = "idle"

-----------------------------------------------------------------------------
\* Fault: in_link_body kept from a parse that failed inside a link.
Parse_LinkFlagKept ==
    /\ status # "parsing"
    /\ text' \in Texts
    /\ nodes' = 1
    /\ tree' = [k \in {0} |-> Node("ROOT", NULL, 0, FALSE)]
    /\ current' = 0
    /\ depth' = 1
    /\ stack' = <<Frame(0, <<"docheader", "block", "footnotes", "footer">>, FALSE)>>
    /\ foots' = 0
    /\ fnum' = [f \in Footnotes |-> 0]
    /\ status' = "parsing"
    /\ UNCHANGED in_link_body

\* mdown_doc_parse: reset the document object, push the root.  The tree of
\* the parse before belongs to the caller.
Parse ==
    /\ status # "parsing"
    /\ text' \in Texts
    /\ nodes' = 1
    /\ tree' = [k \in {0} |-> Node("ROOT", NULL, 0, FALSE)]
    /\ current' = 0
    /\ depth' = 1
    /\ stack' = <<Frame(0, <<"docheader", "block", "footnotes", "footer">>, FALSE)>>
    /\ in_link_body' = 0
    /\ foots' = 0
    /\ fnum' = [f \in Footnotes |-> 0]
    /\ status' = "parsing"

DocHeader == Doing("docheader") /\ PushLeaf("DOC_HEADER", 0, FALSE, Rest)
             /\ UNCHANGED docVars
DocFooter == Doing("footer") /\ PushLeaf("DOC_FOOTER", 0, FALSE, Rest)
             /\ UNCHANGED docVars

-----------------------------------------------------------------------------
(* parse_block: one action per construct it tries. *)

\* A horizontal rule, parse_fencedcode, parse_blockcode, parse_htmlblock.
LeafBlock ==
    /\ Doing("block")
    /\ \E t \in text.blocks \cap {"HRULE", "BLOCKCODE", "BLOCKHTML"} :
           PushLeaf(t, 0, FALSE, Top)
    /\ UNCHANGED docVars

\* parse_blockquote calls parse_block on the text without its prefixes.
ParseBlockquote ==
    /\ Doing("block") /\ "BLOCKQUOTE" \in text.blocks
    /\ PushNode("BLOCKQUOTE", 0, FALSE, <<"block">>, Top)
    /\ UNCHANGED docVars

\* parse_paragraph without a header line; two lines stand for any more.
ParseParagraph ==
    /\ Doing("block") /\ "PARAGRAPH" \in text.blocks
    /\ \E lines \in {1, 2}, beoln \in BOOLEAN :
           PushNode("PARAGRAPH", lines, beoln, <<"inline">>, Top)
    /\ UNCHANGED docVars

\* parse_atxheader, or parse_paragraph ending on a header line (the lines
\* before the title are a paragraph of their own).
ParseHeader ==
    /\ Doing("block") /\ "HEADER" \in text.blocks
    /\ PushNode("HEADER", 0, FALSE, <<"inline">>, Top)
    /\ UNCHANGED docVars

ParseList ==
    /\ Doing("block") /\ "LIST" \in text.blocks
    /\ PushNode("LIST", 0, FALSE, <<"item", "items">>, Top)
    /\ UNCHANGED docVars

\* What parse_listitem does with its text: a block item is parsed as blocks,
\* another one as a line, with a sublist as blocks.
ItemCalls(block) ==
    IF block THEN {<<"block">>} ELSE {<<"inline">>, <<"inline", "block">>}

\* Fault: the caller's flags are reset for every item.
AfterItem_FlagDropped(block, end, loop) ==
    [Top EXCEPT !.todo = IF end THEN <<>> ELSE <<loop>>]

\* The caller of parse_listitem after it: HLIST_FL_BLOCK sticks in its
\* flags, HLIST_LI_END ends its loop.
AfterItem(block, end, loop) ==
    [Top EXCEPT !.flag = block, !.todo = IF end THEN <<>> ELSE <<loop>>]

\* parse_listitem from parse_list.
ListItem ==
    /\ Doing("item") \/ Doing("items")
    /\ \E empty, end \in BOOLEAN : LET block == Top.flag \/ empty IN
           \E calls \in ItemCalls(block) :
               PushNode("LISTITEM", 0, block, calls, AfterItem(block, end, "items"))
    /\ UNCHANGED docVars

\* Fault: a paragraph of any length taken for a title.
IsTitled_AnyLength ==
    /\ Siblings # <<>>
    /\ tree[Siblings[Len(Siblings)]].type = "PARAGRAPH"

\* parse_definition's condition in parse_block: the last sibling is a
\* paragraph of one line.
IsTitled ==
    /\ Siblings # <<>>
    /\ LET cur == tree[Siblings[Len(Siblings)]]
       IN  cur.type = "PARAGRAPH" /\ cur.num = 1

\* Fault: every title opens a list of its own.
IsContinued_Never == FALSE

\* TAILQ_PREV(cur) is a definition list to merge into.
IsContinued ==
    /\ Len(Siblings) > 1
    /\ tree[Siblings[Len(Siblings) - 1]].type = "DEFINITION"

\* Fault: the title's parent pointer left as it was.
Retitled_OldParent(t, cur, kept, n) ==
    [k \in DOMAIN t |->
        CASE k = cur -> [t[k] EXCEPT !.type = "DEFINITION_TITLE"]
          [] k = n -> [t[k] EXCEPT !.children = Append(@, cur)]
          [] k = current -> [t[k] EXCEPT !.children = kept]
          [] OTHER -> t[k]]

\* Take cur out of the list of doc->current, in which `kept' remain, and
\* make it the last child, a title, of n.
Retitled(t, cur, kept, n) ==
    [k \in DOMAIN t |->
        CASE k = cur -> [t[k] EXCEPT !.type = "DEFINITION_TITLE", !.parent = n]
          [] k = n -> [t[k] EXCEPT !.children = Append(@, cur)]
          [] k = current -> [t[k] EXCEPT !.children = kept]
          [] OTHER -> t[k]]

\* parse_definition up to its loop, opening a list of its own.
NewDefinition ==
    /\ Doing("block") /\ "DEFINITION" \in text.blocks
    /\ IsTitled /\ ~IsContinued
    /\ CanPush
    /\ LET cur == Siblings[Len(Siblings)]
           kept == Append(SubSeq(Siblings, 1, Len(Siblings) - 1), nodes)
       IN  /\ tree' = Retitled(Grown("DEFINITION", 0, tree[cur].flag), cur, kept, nodes)
           /\ stack' = Append(stack, Frame(nodes, <<"datum", "data">>, tree[cur].flag))
    /\ nodes' = nodes + 1
    /\ current' = nodes
    /\ depth' = depth + 1
    /\ UNCHANGED text
    /\ UNCHANGED docVars

\* Fault: the list reopened without counting its depth.
MergeDefinition_Uncounted ==
    /\ Doing("block") /\ "DEFINITION" \in text.blocks
    /\ IsTitled /\ IsContinued
    /\ LET cur == Siblings[Len(Siblings)]
           prev == Siblings[Len(Siblings) - 1]
           kept == SubSeq(Siblings, 1, Len(Siblings) - 1)
       IN  /\ tree' = Retitled(tree, cur, kept, prev)
           /\ current' = prev
           /\ stack' = Append(stack, Frame(prev, <<"datum", "data">>,
                                           tree[cur].flag \/ tree[prev].flag))
    /\ UNCHANGED <<text, nodes, depth>>
    /\ UNCHANGED docVars

\* parse_definition up to its loop, merging into the list before: no
\* pushnode, the depth is counted by hand.
MergeDefinition ==
    /\ Doing("block") /\ "DEFINITION" \in text.blocks
    /\ IsTitled /\ IsContinued
    /\ LET cur == Siblings[Len(Siblings)]
           prev == Siblings[Len(Siblings) - 1]
           kept == SubSeq(Siblings, 1, Len(Siblings) - 1)
       IN  /\ tree' = Retitled(tree, cur, kept, prev)
           /\ current' = prev
           /\ stack' = Append(stack, Frame(prev, <<"datum", "data">>,
                                           tree[cur].flag \/ tree[prev].flag))
    /\ depth' = depth + 1
    /\ UNCHANGED <<text, nodes>>
    /\ UNCHANGED docVars

\* One round of parse_definition's loop; the flags parse_listitem returns
\* are chosen here, before its text is parsed.
DefinitionData ==
    /\ Doing("datum") \/ Doing("data")
    /\ \E empty, end \in BOOLEAN : LET block == Top.flag \/ empty IN
           PushNode("DEFINITION_DATA", 0, block, <<"listitem">>,
                    AfterItem(block, end, "data"))
    /\ UNCHANGED docVars

\* A later round in which parse_listitem finds no prefix and returns 0.
EmptyData ==
    /\ Doing("data")
    /\ PushLeaf("DEFINITION_DATA", 0, Top.flag, [Top EXCEPT !.todo = <<>>])
    /\ UNCHANGED docVars

\* parse_listitem from parse_definition.
DataItem ==
    /\ Doing("listitem")
    /\ \E calls \in ItemCalls(Top.flag) :
           PushNode("LISTITEM", 0, Top.flag, calls, Rest)
    /\ UNCHANGED docVars

\* parse_table and parse_table_header.
ParseTable ==
    /\ Doing("block") /\ "TABLE_BLOCK" \in text.blocks
    /\ \E columns \in 1..MaxColumns :
           PushNode("TABLE_BLOCK", columns, FALSE, <<"thead", "tbody">>, Top)
    /\ UNCHANGED docVars

TablePart ==
    /\ \/ Doing("thead") /\ PushNode("TABLE_HEADER", tree[current].num, FALSE,
                                     <<"headrow">>, Rest)
       \/ Doing("tbody") /\ PushNode("TABLE_BODY", tree[current].num, FALSE,
                                     <<"rows">>, Rest)
    /\ UNCHANGED docVars

TableRow ==
    /\ \/ Doing("headrow") /\ PushNode("TABLE_ROW", tree[current].num, FALSE,
                                       <<"cells", "fill">>, Rest)
       \/ Doing("rows") /\ PushNode("TABLE_ROW", tree[current].num, FALSE,
                                    <<"cells", "fill">>, Top)
    /\ UNCHANGED docVars

\* parse_table_row's first loop, over the cells the line has.
TableCell ==
    /\ Doing("cells") /\ Top.i < tree[current].num
    /\ PushNode("TABLE_CELL", Top.i, FALSE, <<"inline">>, [Top EXCEPT !.i = @ + 1])
    /\ UNCHANGED docVars

\* parse_table_row's second loop, empty cells up to the last column.
FillCell ==
    /\ Doing("fill") /\ Top.i < tree[current].num
    /\ PushLeaf("TABLE_CELL", Top.i, FALSE, [Top EXCEPT !.i = @ + 1])
    /\ UNCHANGED docVars

-----------------------------------------------------------------------------
(* parse_inline: one action per kind of active character. *)

\* Text, char_codespan, char_entity, char_escape, char_linebreak, char_math,
\* a tag of char_langle_tag, an image of char_link.
LeafSpan ==
    /\ Doing("inline")
    /\ \E t \in text.inlines \cap {"NORMAL_TEXT", "CODESPAN", "ENTITY", "RAW_HTML",
                              "MATH_BLOCK", "LINEBREAK", "IMAGE"} :
           PushLeaf(t, 0, FALSE, Top)
    /\ UNCHANGED docVars

\* Fault: the text of a span parsed as blocks.
ParseSpan_AsBlocks ==
    /\ Doing("inline")
    /\ \E t \in text.inlines \cap {"EMPHASIS", "SUPERSCRIPT"} :
           PushNode(t, 0, FALSE, <<"block">>, Top)
    /\ UNCHANGED docVars

\* parse_emph1, parse_emph2, parse_emph3, char_superscript.
ParseSpan ==
    /\ Doing("inline")
    /\ \E t \in text.inlines \cap {"EMPHASIS", "DOUBLE_EMPHASIS", "TRIPLE_EMPHASIS",
                              "STRIKETHROUGH", "HIGHLIGHT", "SUPERSCRIPT"} :
           PushNode(t, 0, FALSE, <<"inline">>, Top)
    /\ UNCHANGED docVars

\* char_langle_tag, an address in angle brackets.
AngleAutolink ==
    /\ Doing("inline") /\ "LINK_AUTO" \in text.inlines
    /\ PushLeaf("LINK_AUTO", 0, FALSE, Top)
    /\ UNCHANGED docVars

\* char_autolink_url, char_autolink_email, char_autolink_www.
BareAutolink ==
    /\ Doing("inline") /\ "LINK_AUTO" \in text.inlines
    /\ in_link_body = 0
    /\ PushLeaf("LINK_AUTO", 0, TRUE, Top)
    /\ UNCHANGED docVars

\* char_link for a link, up to the parse of its text.
CharLink ==
    /\ Doing("inline") /\ "LINK" \in text.inlines
    /\ \/ PushNode("LINK", 0, FALSE, <<"inline">>, Top) /\ in_link_body' = 1
       \/ PushLeaf("LINK", 0, FALSE, Top) /\ UNCHANGED in_link_body
    /\ UNCHANGED <<foots, fnum, status>>

\* Fault: a further reference to a footnote rendered as one as well.
FootnoteRef_Again ==
    /\ Doing("inline") /\ "FOOTNOTE_REF" \in text.inlines
    /\ \E f \in Footnotes :
           LET num == IF fnum[f] = 0 THEN foots + 1 ELSE fnum[f]
           IN  /\ PushLeaf("FOOTNOTE_REF", num, FALSE, Top)
               /\ foots' = IF fnum[f] = 0 THEN num ELSE foots
               /\ fnum' = [fnum EXCEPT ![f] = num]
    /\ UNCHANGED <<in_link_body, status>>

\* char_link for a footnote: the first reference takes the next number, a
\* second one to the same footnote is plain text.
FootnoteRef ==
    /\ Doing("inline") /\ "FOOTNOTE_REF" \in text.inlines
    /\ \E f \in Footnotes :
           \/ /\ fnum[f] = 0
              /\ PushLeaf("FOOTNOTE_REF", foots + 1, FALSE, Top)
              /\ foots' = foots + 1
              /\ fnum' = [fnum EXCEPT ![f] = foots + 1]
           \/ /\ fnum[f] # 0
              /\ PushLeaf("NORMAL_TEXT", 0, FALSE, Top)
              /\ UNCHANGED <<foots, fnum>>
    /\ UNCHANGED <<in_link_body, status>>

-----------------------------------------------------------------------------
(* parse_footnote_list and parse_footnote_def.  The index of the outer loop *)
(* is the frame's i; doc->foots is read again in every round, so a footnote *)
(* first referenced in the text of another one is reached as well.          *)

FootnotesBlock ==
    /\ Doing("footnotes")
    /\ IF foots > 0
       THEN PushNode("FOOTNOTES_BLOCK", 0, FALSE, <<"defs">>, Rest)
       ELSE stack' = SetTop(Rest) /\ UNCHANGED <<text, nodes, tree, current, depth>>
    /\ UNCHANGED docVars

FootnoteDef ==
    /\ Doing("defs")
    /\ \E f \in Footnotes :
           /\ fnum[f] > Top.i
           /\ \A g \in Footnotes : fnum[g] > Top.i => fnum[f] <= fnum[g]
           /\ PushNode("FOOTNOTE_DEF", fnum[f], FALSE, <<"block">>,
                       [Top EXCEPT !.i = fnum[f]])
    /\ UNCHANGED docVars

-----------------------------------------------------------------------------
(* The end of a loop, the return of a parse function, the end of the parse. *)

\* Fault: no empty cells after the last one the line has.
LoopMayEnd_ShortRow ==
    \/ Doing("block") \/ Doing("items") \/ Doing("data") \/ Doing("rows")
    \/ Doing("inline") /\ CurType # "LINK"
    \/ Doing("cells")
    \/ Doing("fill")
    \/ Doing("defs") /\ \A f \in Footnotes : fnum[f] <= Top.i

\* Whether the loop the innermost function is in may end here.
LoopMayEnd ==
    \/ Doing("block") \/ Doing("items") \/ Doing("data") \/ Doing("rows")
    \/ Doing("inline") /\ CurType # "LINK"
    \/ Doing("cells")
    \/ Doing("fill") /\ Top.i = tree[current].num
    \/ Doing("defs") /\ \A f \in Footnotes : fnum[f] <= Top.i

EndLoop ==
    /\ LoopMayEnd
    /\ stack' = SetTop(Rest)
    /\ UNCHANGED <<text, nodes, tree, current, depth>>
    /\ UNCHANGED docVars

\* char_link after the parse of a link's text.
EndLinkBody ==
    /\ Doing("inline") /\ CurType = "LINK"
    /\ in_link_body' = 0
    /\ stack' = SetTop(Rest)
    /\ UNCHANGED <<text, nodes, tree, current, depth, foots, fnum, status>>

\* The innermost function pops its node; parse_list and parse_definition
\* leave HLIST_FL_BLOCK in it first.
Return ==
    /\ Len(stack) > 1 /\ Top.todo = <<>>
    /\ tree' = IF tree[Top.node].type \in {"LIST", "DEFINITION"}
               THEN [tree EXCEPT ![Top.node].flag = @ \/ Top.flag]
               ELSE tree
    /\ PopNode
    /\ UNCHANGED <<text, nodes>>
    /\ UNCHANGED docVars

\* mdown_doc_parse returns the tree.
Finish ==
    /\ Len(stack) = 1 /\ Top.todo = <<>>
    /\ PopNode
    /\ status' = "done"
    /\ UNCHANGED <<text, nodes, tree, in_link_body, foots, fnum>>

\* A pushnode beyond the depth or a failed allocation: every function on the
\* stack returns its error, mdown_doc_parse frees the tree and returns NULL.
\* The fields of the document object stay as they are; the failed pushnode
\* may have counted the depth.
Fail ==
    /\ status = "parsing"
    /\ tree' = [k \in {} |-> Node("ROOT", NULL, 0, FALSE)]
    /\ stack' = <<>>
    /\ depth' \in {depth, depth + 1}
    /\ status' = "failed"
    /\ UNCHANGED <<text, nodes, current, in_link_body, foots, fnum>>

BlockStep ==
    \/ LeafBlock \/ ParseBlockquote \/ ParseParagraph \/ ParseHeader
    \/ ParseList \/ ListItem
    \/ NewDefinition \/ MergeDefinition \/ DefinitionData \/ EmptyData \/ DataItem
    \/ ParseTable \/ TablePart \/ TableRow \/ TableCell \/ FillCell

InlineStep ==
    \/ LeafSpan \/ ParseSpan \/ AngleAutolink \/ BareAutolink
    \/ CharLink \/ FootnoteRef

ParseStep ==
    \/ DocHeader \/ BlockStep \/ InlineStep
    \/ FootnotesBlock \/ FootnoteDef \/ DocFooter
    \/ EndLoop \/ EndLinkBody \/ Return \/ Finish \/ Fail

Next == Parse \/ ParseStep

\* A parse that was called runs on: the parser is one sequential function.
Spec == Init /\ [][Next]_vars /\ WF_vars(ParseStep)



-----------------------------------------------------------------------------
(* Properties *)

\* Type invariant: the tree holds only nodes with identifiers of this parse,
\* numbers and flags have their types.
TypeOK ==
    /\ text \in Texts
    /\ nodes \in Nat
    /\ DOMAIN tree \subseteq 0 .. nodes - 1
    /\ \A k \in DOMAIN tree : tree[k] \in NodeRecords
    /\ current \in Nat \cup {NULL}
    /\ depth \in Nat
    /\ stack \in Seq(Frames)
    /\ in_link_body \in {0, 1}
    /\ foots \in Nat
    /\ fnum \in [Footnotes -> Nat]
    /\ status \in {"idle", "parsing", "done", "failed"}

IsOpen(k) == \E i \in 1 .. Len(stack) : stack[i].node = k
Child(p, i) == tree[tree[p].children[i]]
NumChildren(p) == Len(tree[p].children)

\* The asserts of popnode and of mdown_doc_parse: whatever function returns,
\* the node it pops is doc->current, the open nodes are the path from the
\* root, depth is the length of the path and a parse that succeeds leaves
\* depth 0.  Merging definition lists opens a node without pushnode.
OpenPath ==
    /\ status = "parsing" =>
           /\ stack # <<>> /\ stack[1].node = 0
           /\ current = Top.node
           /\ depth = Len(stack)
           /\ \A i \in 1 .. Len(stack) :
                  /\ stack[i].node \in DOMAIN tree
                  /\ tree[stack[i].node].parent =
                         IF i = 1 THEN NULL ELSE stack[i - 1].node
    /\ status # "parsing" => stack = <<>>
    /\ status = "done" => depth = 0 /\ current = NULL

\* The depth check of pushnode holds the open path to maxdepth + 1 nodes,
\* although merging definition lists raises the depth without the check.
DepthLimited ==
    maxdepth # 0 /\ status = "parsing" => depth <= maxdepth + 1

\* Parent pointers and child lists agree: every node but the root is once in
\* the list of its parent and in no other list, so mdown_node_free frees all
\* of the tree and no node twice, also after parse_definition moved a node.
ChildLists ==
    /\ \A p \in DOMAIN tree : \A i \in 1 .. NumChildren(p) :
           /\ tree[p].children[i] \in DOMAIN tree
           /\ Child(p, i).parent = p
    /\ \A k \in DOMAIN tree \ {0} :
           /\ tree[k].parent \in DOMAIN tree
           /\ LET q == tree[tree[k].parent].children
              IN  \E i \in 1 .. Len(q) :
                      q[i] = k /\ \A j \in 1 .. Len(q) : q[j] = k => j = i

\* No block below a span (smartypants.c aborts on one), and a footnote
\* definition is only in the block of footnotes.
BlocksAboveSpans ==
    \A k \in DOMAIN tree \ {0} :
        LET p == tree[tree[k].parent].type
        IN  /\ p \in SpanTypes => tree[k].type \in SpanTypes
            /\ tree[k].type = "FOOTNOTE_DEF" <=> p = "FOOTNOTES_BLOCK"

\* parse_table and parse_table_row: a table that is finished has a header of
\* one row and a body, and all its rows have exactly its columns, the cells
\* in order.
TablesRectangular ==
    \A k \in DOMAIN tree :
        /\ tree[k].type = "TABLE_BLOCK" /\ ~IsOpen(k) =>
               /\ NumChildren(k) = 2
               /\ Child(k, 1).type = "TABLE_HEADER" /\ Len(Child(k, 1).children) = 1
               /\ Child(k, 2).type = "TABLE_BODY"
               /\ \A i \in 1 .. 2 : \A j \in 1 .. Len(Child(k, i).children) :
                      tree[Child(k, i).children[j]].num = tree[k].num
        /\ tree[k].type = "TABLE_ROW" /\ ~IsOpen(k) =>
               /\ NumChildren(k) = tree[k].num
               /\ \A i \in 1 .. NumChildren(k) :
                      Child(k, i).type = "TABLE_CELL" /\ Child(k, i).num = i - 1

\* parse_definition: a finished definition list begins with a title, has
\* data after every title, and is never followed by another list: the next
\* title is merged into it.
DefinitionsMerged ==
    \A k \in DOMAIN tree :
        /\ tree[k].type = "DEFINITION" /\ ~IsOpen(k) =>
               /\ NumChildren(k) > 1
               /\ Child(k, 1).type = "DEFINITION_TITLE"
               /\ Child(k, NumChildren(k)).type = "DEFINITION_DATA"
               /\ \A i \in 1 .. NumChildren(k) - 1 :
                      Child(k, i).type = "DEFINITION_TITLE" =>
                          Child(k, i + 1).type = "DEFINITION_DATA"
        /\ \A i \in 1 .. NumChildren(k) - 1 :
               Child(k, i).type = "DEFINITION" => Child(k, i + 1).type # "DEFINITION"

\* HLIST_FL_BLOCK: once one item of a list is a block, or the title of a
\* definition was followed by a blank line, all items after it are blocks,
\* also across merged lists, and the finished list says so itself.
BlockFlagSticks ==
    \A k \in DOMAIN tree :
        tree[k].type \in {"LIST", "DEFINITION"} =>
            /\ \A i, j \in 1 .. NumChildren(k) :
                   i < j /\ Child(k, i).flag /\ Child(k, j).type # "DEFINITION_TITLE"
                       => Child(k, j).flag
            /\ ~IsOpen(k) =>
                   (tree[k].flag <=> \E i \in 1 .. NumChildren(k) : Child(k, i).flag)

\* Bare autolinks are off only inside the text of a link: in_link_body never
\* outlives the link, in this parse or in the next one.
LinkFlagScoped ==
    status = "parsing" /\ in_link_body = 1 =>
        \E i \in 1 .. Len(stack) : tree[stack[i].node].type = "LINK"

\* char_link: "Disable autolinking when parsing inline the content of a
\* link": while the text of a link is open, no node gets a bare autolink.
NoAutolinkInLink ==
    status = "parsing" /\ (\E i \in 1 .. Len(stack) : tree[stack[i].node].type = "LINK")
        => \A i \in 1 .. NumChildren(current) :
               ~(Child(current, i).type = "LINK_AUTO" /\ Child(current, i).flag)

\* A node that is in the tree keeps its number, and its parent and type
\* unless it is the paragraph before a definition becoming the title of the
\* list opened by this step.
TitlesMove ==
    status = "parsing" /\ status' = "parsing" =>
        \A k \in DOMAIN tree :
            /\ k \in DOMAIN tree' /\ tree'[k].num = tree[k].num
            /\ \/ tree'[k].parent = tree[k].parent /\ tree'[k].type = tree[k].type
               \/ /\ tree[k].type = "PARAGRAPH" /\ tree[k].num = 1
                  /\ tree'[k].type = "DEFINITION_TITLE"
                  /\ tree'[k].parent = current' /\ tree'[current'].type = "DEFINITION"

\* What a step may never do: give a node of the tree another number, or
\* another parent or type but the title's.
OnlyTitlesMove == [][TitlesMove]_vars
=============================================================================
