------------------------------ MODULE DocTree ------------------------------
(***************************************************************************)
(* The parse tree while document.c builds it: the fields nodes, current    *)
(* and depth of struct mdown_doc, the nodes themselves, and the C call     *)
(* stack of the parse functions that hold an open node.                    *)
(*                                                                         *)
(* Every parse function that opens a node (pushnode) keeps it in a local   *)
(* variable, calls other parse functions and closes it (popnode).  One     *)
(* frame of `stack' is one such call: the node in its local variable, the  *)
(* calls it still has to make, and the loop index and list flag it keeps.  *)
(***************************************************************************)
EXTENDS Integers, Sequences

CONSTANTS
    maxdepth,   \* opts->maxdepth; 0 is "no limit"
    Texts       \* the kinds of input, see below

VARIABLES
    text,       \* the kind of input of this parse
    nodes,      \* doc->nodes, the next identifier
    tree,       \* the nodes allocated and not freed, by identifier
    current,    \* doc->current
    depth,      \* doc->depth
    stack       \* the parse functions that have a node open

treeVars == <<text, nodes, tree, current, depth, stack>>

NULL == -1

\* The values of enum mdown_rndrt this model builds.
BlockTypes ==
    {"ROOT", "DOC_HEADER", "DOC_FOOTER", "BLOCKQUOTE", "LIST", "LISTITEM",
     "DEFINITION", "DEFINITION_TITLE", "DEFINITION_DATA", "PARAGRAPH",
     "HEADER", "HRULE", "BLOCKCODE", "BLOCKHTML", "TABLE_BLOCK",
     "TABLE_HEADER", "TABLE_BODY", "TABLE_ROW", "TABLE_CELL",
     "FOOTNOTES_BLOCK", "FOOTNOTE_DEF"}
SpanTypes ==
    {"NORMAL_TEXT", "EMPHASIS", "DOUBLE_EMPHASIS", "TRIPLE_EMPHASIS",
     "STRIKETHROUGH", "HIGHLIGHT", "SUPERSCRIPT", "LINK", "LINK_AUTO",
     "IMAGE", "CODESPAN", "ENTITY", "RAW_HTML", "MATH_BLOCK", "LINEBREAK",
     "FOOTNOTE_REF"}
Types == BlockTypes \cup SpanTypes

(***************************************************************************)
(* A kind of input: the block and the inline constructs it may spell and   *)
(* the bound on the nodes it is long enough to spell.                      *)
(***************************************************************************)
TextKinds ==
    [blocks: SUBSET BlockTypes, inlines: SUBSET SpanTypes, bound: Nat \ {0}]

ASSUME MaxdepthAssumption == maxdepth \in Nat
ASSUME TextsAssumption == Texts \subseteq TextKinds

\* What a parse function may still have to call.
Calls ==
    {"docheader", "block", "inline", "item", "items", "datum", "data",
     "listitem", "thead", "tbody", "headrow", "rows", "cells", "fill",
     "footnotes", "defs", "footer"}

(***************************************************************************)
(* struct mdown_node: num stands for the one number of the union that      *)
(* matters (lines of a paragraph, columns of a table and of its rows,      *)
(* column of a cell, number of a footnote), flag for the one boolean       *)
(* (beoln, HLIST_FL_BLOCK, an autolink without angle brackets).            *)
(***************************************************************************)
Node(t, p, num, flag) ==
    [type |-> t, parent |-> p, children |-> <<>>, num |-> num, flag |-> flag]

NodeRecords ==
    [type: Types, parent: Nat \cup {NULL}, children: Seq(Nat), num: Nat, flag: BOOLEAN]

Frame(n, todo, flag) == [node |-> n, todo |-> todo, i |-> 0, flag |-> flag]

Frames == [node: Nat, todo: Seq(Calls), i: Nat, flag: BOOLEAN]

Top == stack[Len(stack)]

\* The innermost parse function is about to make call c, or is in loop c.
Doing(c) == stack # <<>> /\ Top.todo # <<>> /\ Head(Top.todo) = c

\* The innermost parse function goes on after the call or loop at hand.
Rest == [Top EXCEPT !.todo = Tail(@)]

SetTop(f) == [stack EXCEPT ![Len(stack)] = f]

CurType == tree[current].type
Siblings == tree[current].children

-----------------------------------------------------------------------------
\* Fault: the limit compared one level late.
CanPush_LateCheck ==
    /\ maxdepth = 0 \/ depth <= maxdepth + 1
    /\ nodes < text.bound

\* pushnode's depth check and calloc; the check increments depth before it
\* compares, so a node may be pushed while depth = maxdepth.
CanPush ==
    /\ maxdepth = 0 \/ depth <= maxdepth
    /\ nodes < text.bound

\* The tree with a new node in the last place under doc->current.
Grown(t, num, flag) ==
    [k \in DOMAIN tree \cup {nodes} |->
        IF k = nodes THEN Node(t, current, num, flag)
        ELSE IF k = current
             THEN [tree[k] EXCEPT !.children = Append(@, nodes)]
             ELSE tree[k]]

\* pushnode: open a node; its parse function has the calls `todo' to make
\* and the function that called it continues as `caller'.
PushNode(t, num, flag, todo, caller) ==
    /\ CanPush
    /\ tree' = Grown(t, num, flag)
    /\ nodes' = nodes + 1
    /\ current' = nodes
    /\ depth' = depth + 1
    /\ UNCHANGED text
    /\ stack' = Append(SetTop(caller), Frame(nodes, todo, flag))

\* Fault: popnode without the depth counted by pushnode.
PushLeaf_Uncounted(t, num, flag, caller) ==
    /\ CanPush
    /\ tree' = Grown(t, num, flag)
    /\ nodes' = nodes + 1
    /\ stack' = SetTop(caller)
    /\ depth' = depth - 1
    /\ UNCHANGED <<text, current>>

\* pushnode directly followed by popnode, for a node without children.
PushLeaf(t, num, flag, caller) ==
    /\ CanPush
    /\ tree' = Grown(t, num, flag)
    /\ nodes' = nodes + 1
    /\ stack' = SetTop(caller)
    /\ UNCHANGED <<text, current, depth>>

\* popnode(doc, Top.node) and the return of the function that held it.
PopNode ==
    /\ depth' = depth - 1
    /\ current' = tree[current].parent
    /\ stack' = SubSeq(stack, 1, Len(stack) - 1)
=============================================================================
