-------------------------- MODULE ParserTreeProofs --------------------------
(***************************************************************************)
(* Proofs about the tree the parser builds, for every kind of input, every *)
(* maxdepth and every bound on columns: its lists of children, the blocks  *)
(* that may be in one another, tables, definition lists, the flag of a     *)
(* list and the flag for the text of a link.                               *)
(*                                                                         *)
(* The properties speak of nodes that are finished.  The invariant says    *)
(* for every open node what its function has already put below it and what *)
(* it still has to do (Fits); a node is finished when nothing is left.     *)
(***************************************************************************)
EXTENDS ParserProofs

\* The nodes whose text is parsed as blocks, and those whose text is a line.
Containers == {"ROOT", "BLOCKQUOTE", "LISTITEM", "FOOTNOTE_DEF"}
Lines == {"PARAGRAPH", "HEADER", "TABLE_CELL", "LISTITEM"} \cup SpanTypes
PlainBlocks ==
    {"HRULE", "BLOCKCODE", "BLOCKHTML", "BLOCKQUOTE", "PARAGRAPH", "HEADER",
     "LIST", "DEFINITION", "TABLE_BLOCK"}

\* A parse function that holds a node of type p may make call c.
MayDo(p, c) ==
    \/ c = "block" /\ p \in Containers
    \/ c = "inline" /\ p \in Lines
    \/ c \in {"docheader", "footnotes", "footer"} /\ p = "ROOT"
    \/ c \in {"item", "items"} /\ p = "LIST"
    \/ c \in {"datum", "data"} /\ p = "DEFINITION"
    \/ c = "listitem" /\ p = "DEFINITION_DATA"
    \/ c \in {"thead", "tbody"} /\ p = "TABLE_BLOCK"
    \/ c = "headrow" /\ p = "TABLE_HEADER"
    \/ c = "rows" /\ p = "TABLE_BODY"
    \/ c \in {"cells", "fill"} /\ p = "TABLE_ROW"
    \/ c = "defs" /\ p = "FOOTNOTES_BLOCK"

\* A node of type p may have a child of type t.
MayHold(p, t) ==
    \/ p \in Containers /\ t \in PlainBlocks
    \/ p = "ROOT" /\ t \in {"DOC_HEADER", "FOOTNOTES_BLOCK", "DOC_FOOTER"}
    \/ p \in Lines \cup {"DEFINITION_TITLE"} /\ t \in SpanTypes
    \/ p \in {"LIST", "DEFINITION_DATA"} /\ t = "LISTITEM"
    \/ p = "DEFINITION" /\ t \in {"DEFINITION_TITLE", "DEFINITION_DATA"}
    \/ p = "TABLE_BLOCK" /\ t \in {"TABLE_HEADER", "TABLE_BODY"}
    \/ p \in {"TABLE_HEADER", "TABLE_BODY"} /\ t = "TABLE_ROW"
    \/ p = "TABLE_ROW" /\ t = "TABLE_CELL"
    \/ p = "FOOTNOTES_BLOCK" /\ t = "FOOTNOTE_DEF"

Count(g, k) == Len(g[k].children)
Kid(g, k, j) == g[g[k].children[j]]

\* What the tree g says of the node of frame f, and what f still has to do
\* about it.  The calls f has to make are those of its node's type.
CallsFit(g, f) == \A j \in 1 .. Len(f.todo) : MayDo(g[f.node].type, f.todo[j])

KidsFit(g, k) == \A j \in 1 .. Count(g, k) : MayHold(g[k].type, Kid(g, k, j).type)

\* No definition list directly behind another one.
ListsApart(g, k) ==
    \A j \in 1 .. Count(g, k) - 1 :
        Kid(g, k, j).type = "DEFINITION" => Kid(g, k, j + 1).type # "DEFINITION"

\* A part of a table has what its function has put there, and is complete
\* when the function has nothing left to do.
TableFits(g, f) ==
    LET k == f.node
        n == Count(g, k)
    IN  /\ g[k].type \in {"TABLE_BLOCK", "TABLE_HEADER", "TABLE_BODY"} =>
               \A j \in 1 .. n : Kid(g, k, j).num = g[k].num
        /\ g[k].type = "TABLE_BLOCK" =>
               /\ n > 0 => Kid(g, k, 1).type = "TABLE_HEADER"
               /\ n > 1 => Kid(g, k, 2).type = "TABLE_BODY"
               /\ \/ f.todo = <<"thead", "tbody">> /\ n = 0
                  \/ f.todo = <<"tbody">> /\ n = 1
                  \/ f.todo = <<>> /\ n = 2
        /\ g[k].type = "TABLE_HEADER" =>
               \/ f.todo = <<"headrow">> /\ n = 0
               \/ f.todo = <<>> /\ n = 1
        /\ g[k].type = "TABLE_ROW" =>
               /\ \A j \in 1 .. n : Kid(g, k, j).num = j - 1
               /\ \/ f.todo \in {<<"cells", "fill">>, <<"fill">>} /\ n = f.i /\ n <= g[k].num
                  \/ f.todo = <<>> /\ n = g[k].num

\* A definition list begins with a title; the title put in last waits for
\* its data as long as the first round of the loop is to come.
DefinitionFits(g, f) ==
    LET k == f.node
        n == Count(g, k)
    IN  g[k].type = "DEFINITION" =>
            /\ n > 0 /\ Kid(g, k, 1).type = "DEFINITION_TITLE"
            /\ \A j \in 1 .. n - 1 : Kid(g, k, j).type = "DEFINITION_TITLE"
                                         => Kid(g, k, j + 1).type = "DEFINITION_DATA"
            /\ \/ f.todo = <<"datum", "data">> /\ Kid(g, k, n).type = "DEFINITION_TITLE"
               \/ /\ f.todo \in {<<"data">>, <<>>}
                  /\ n > 1 /\ Kid(g, k, n).type = "DEFINITION_DATA"

\* The list flag of a frame is what the items so far leave in it.
FlagFits(g, f) ==
    LET k == f.node
        n == Count(g, k)
    IN  g[k].type \in {"LIST", "DEFINITION"} =>
            /\ \A i, j \in 1 .. n :
                   i < j /\ Kid(g, k, i).flag /\ Kid(g, k, j).type # "DEFINITION_TITLE"
                       => Kid(g, k, j).flag
            /\ f.flag <=> \E i \in 1 .. n : Kid(g, k, i).flag
            /\ g[k].flag => f.flag

Fits(g, f) ==
    /\ CallsFit(g, f) /\ KidsFit(g, f.node) /\ ListsApart(g, f.node)
    /\ TableFits(g, f) /\ DefinitionFits(g, f) /\ FlagFits(g, f)

\* The frame of a function that is done with node k.
Closed(g, k) == Frame(k, <<>>, g[k].flag)

OpenFit == \A i \in 1 .. Len(stack) : Fits(tree, stack[i])
ClosedFit == \A k \in DOMAIN tree : ~IsOpen(k) => Fits(tree, Closed(tree, k))

\* In tree g every node but the root is in the list of its parent.
PlacedIn(g) ==
    \A k \in DOMAIN g \ {0} :
        /\ g[k].parent \in DOMAIN g
        /\ \E i \in 1 .. Count(g, g[k].parent) : g[g[k].parent].children[i] = k
Placed == PlacedIn(tree)

\* in_link_body is set only while the text of a link is being parsed.
LinkOpen ==
    status = "parsing" /\ in_link_body = 1 =>
        \E i \in 1 .. Len(stack) : tree[stack[i].node].type = "LINK" /\ stack[i].todo # <<>>

TInv ==
    /\ OpenFit
    /\ ClosedFit
    /\ Placed
    /\ LinkOpen

-----------------------------------------------------------------------------
(* Nodes that a step leaves alone *)

\* Node k and its children are in g what they are in h.
Alike(g, h, k) ==
    /\ g[k].type = h[k].type /\ g[k].num = h[k].num /\ g[k].flag = h[k].flag
    /\ g[k].children = h[k].children
    /\ \A j \in 1 .. Count(h, k) :
           /\ Kid(g, k, j).type = Kid(h, k, j).type
           /\ Kid(g, k, j).num = Kid(h, k, j).num
           /\ Kid(g, k, j).flag = Kid(h, k, j).flag

LEMMA AlikeFits ==
    ASSUME NEW g, NEW h, NEW f, Alike(g, h, f.node), Fits(h, f)
    PROVE  Fits(g, f)
  <1>1. CallsFit(g, f)
    BY DEF Fits, CallsFit, Alike
  <1>2. KidsFit(g, f.node)
    BY DEF Fits, KidsFit, Alike, Count
  <1>3. ListsApart(g, f.node)
    <2> SUFFICES ASSUME NEW j \in 1 .. Count(g, f.node) - 1
                 PROVE  Kid(g, f.node, j).type = "DEFINITION"
                            => Kid(g, f.node, j + 1).type # "DEFINITION"
      BY DEF ListsApart
    <2> QED BY DEF Fits, ListsApart, Alike, Count
  <1>4. TableFits(g, f)
    BY DEF Fits, TableFits, Alike, Count
  <1>5. DefinitionFits(g, f)
    BY DEF Fits, DefinitionFits, Alike, Count
  <1>6. FlagFits(g, f)
    BY DEF Fits, FlagFits, Alike, Count
  <1> QED BY <1>1, <1>2, <1>3, <1>4, <1>5, <1>6 DEF Fits

-----------------------------------------------------------------------------
(* Nodes that a step gives a child *)

\* Node k has in g the children it has in h and then one of type t, with
\* number num and flag `flag'.
IsExtended(g, h, k, t, num, flag) ==
    /\ g[k].type = h[k].type /\ g[k].num = h[k].num /\ g[k].flag = h[k].flag
    /\ Count(h, k) \in Nat /\ Count(g, k) = Count(h, k) + 1
    /\ \A j \in 1 .. Count(h, k) :
           /\ Kid(g, k, j).type = Kid(h, k, j).type
           /\ Kid(g, k, j).num = Kid(h, k, j).num
           /\ Kid(g, k, j).flag = Kid(h, k, j).flag
    /\ Kid(g, k, Count(h, k) + 1).type = t
    /\ Kid(g, k, Count(h, k) + 1).num = num
    /\ Kid(g, k, Count(h, k) + 1).flag = flag

\* The types of nodes whose children no table, list or definition rules.
Ruled == {"TABLE_BLOCK", "TABLE_HEADER", "TABLE_BODY", "TABLE_ROW", "LIST", "DEFINITION"}

LEMMA PlainFits ==
    ASSUME NEW g, NEW f, g[f.node].type \notin Ruled,
           CallsFit(g, f), KidsFit(g, f.node), ListsApart(g, f.node)
    PROVE  Fits(g, f)
  <1>1. TableFits(g, f)
    BY DEF TableFits, Ruled
  <1>2. DefinitionFits(g, f) /\ FlagFits(g, f)
    BY DEF DefinitionFits, FlagFits, Ruled
  <1> QED BY <1>1, <1>2 DEF Fits

LEMMA ChildFits ==
    ASSUME NEW g, NEW h, NEW k, NEW t, NEW num, NEW flag, IsExtended(g, h, k, t, num, flag),
           KidsFit(h, k), ListsApart(h, k), MayHold(h[k].type, t),
           t = "DEFINITION" /\ Count(h, k) > 0 =>
               Kid(h, k, Count(h, k)).type # "DEFINITION"
    PROVE  KidsFit(g, k) /\ ListsApart(g, k)
  <1> DEFINE n == Count(h, k)
  <1>1. n \in Nat /\ Count(g, k) = n + 1
    BY DEF IsExtended
  <1>2. /\ \A j \in 1 .. n : Kid(g, k, j).type = Kid(h, k, j).type
        /\ Kid(g, k, n + 1).type = t
        /\ g[k].type = h[k].type
    BY DEF IsExtended
  <1>3. /\ \A j \in 1 .. n : MayHold(h[k].type, Kid(h, k, j).type)
        /\ \A j \in 1 .. n - 1 :
               Kid(h, k, j).type = "DEFINITION" => Kid(h, k, j + 1).type # "DEFINITION"
        /\ t = "DEFINITION" /\ n > 0 => Kid(h, k, n).type # "DEFINITION"
    BY DEF KidsFit, ListsApart
  <1> HIDE DEF n
  <1>4. \A j \in 1 .. n + 1 : MayHold(g[k].type, Kid(g, k, j).type)
    BY <1>1, <1>2, <1>3
  <1>5. ASSUME NEW j \in 1 .. n, Kid(g, k, j).type = "DEFINITION"
        PROVE  Kid(g, k, j + 1).type # "DEFINITION"
    <2>1. CASE j = n
      BY <1>1, <1>2, <1>3, <1>5, <2>1
    <2>2. CASE j \in 1 .. n - 1
      <3>1. j + 1 \in 1 .. n
        BY <1>1, <2>2
      <3> QED BY <1>2, <1>3, <1>5, <2>2, <3>1
    <2> QED BY <1>1, <2>1, <2>2
  <1>6. (n + 1) - 1 = n
    BY <1>1
  <1> QED BY <1>1, <1>4, <1>5, <1>6 DEF KidsFit, ListsApart

\* A child that is no definition list, in a node without rules of its own.
LEMMA PlainChildFits ==
    ASSUME NEW g, NEW h, NEW e, NEW f, e.node = f.node, Fits(h, e),
           NEW t, NEW num, NEW flag, IsExtended(g, h, f.node, t, num, flag),
           h[f.node].type \notin Ruled, MayHold(h[f.node].type, t), t # "DEFINITION",
           CallsFit(h, f)
    PROVE  Fits(g, f)
  <1>1. KidsFit(g, f.node) /\ ListsApart(g, f.node)
    BY ChildFits DEF Fits
  <1>2. g[f.node].type = h[f.node].type
    BY DEF IsExtended
  <1>3. CallsFit(g, f)
    BY <1>2 DEF CallsFit
  <1> QED BY <1>1, <1>2, <1>3, PlainFits

\* The flag of a list after one more child: an item has the flag the list
\* has from then on, a title may raise it.
LEMMA FlagSticks ==
    ASSUME NEW g, NEW h, NEW e, NEW f, e.node = f.node, FlagFits(h, e),
           NEW t, NEW num, NEW flag, IsExtended(g, h, f.node, t, num, flag),
           h[f.node].type \in {"LIST", "DEFINITION"},
           f.flag <=> (e.flag \/ flag),
           t # "DEFINITION_TITLE" /\ e.flag => flag
    PROVE  FlagFits(g, f)
  <1> DEFINE k == f.node
             n == Count(h, k)
  <1>1. /\ g[k].type = h[k].type /\ g[k].flag = h[k].flag
        /\ n \in Nat /\ Count(g, k) = n + 1
        /\ \A j \in 1 .. n : /\ Kid(g, k, j).type = Kid(h, k, j).type
                             /\ Kid(g, k, j).flag = Kid(h, k, j).flag
        /\ Kid(g, k, n + 1).type = t /\ Kid(g, k, n + 1).flag = flag
    BY DEF IsExtended
  <1>2. /\ \A i, j \in 1 .. n :
               i < j /\ Kid(h, k, i).flag /\ Kid(h, k, j).type # "DEFINITION_TITLE"
                   => Kid(h, k, j).flag
        /\ e.flag <=> \E i \in 1 .. n : Kid(h, k, i).flag
        /\ h[k].flag => e.flag
    BY DEF FlagFits
  <1> HIDE DEF n, k
  <1>3. \A i, j \in 1 .. n + 1 :
            i < j /\ Kid(g, k, i).flag /\ Kid(g, k, j).type # "DEFINITION_TITLE"
                => Kid(g, k, j).flag
    <2> TAKE i, j \in 1 .. n + 1
    <2> HAVE i < j /\ Kid(g, k, i).flag /\ Kid(g, k, j).type # "DEFINITION_TITLE"
    <2>1. i \in 1 .. n /\ Kid(h, k, i).flag
      BY <1>1
    <2>2. CASE j = n + 1
      BY <1>1, <1>2, <2>1, <2>2
    <2>3. CASE j \in 1 .. n
      BY <1>1, <1>2, <2>1, <2>3
    <2> QED BY <1>1, <2>2, <2>3
  <1>4. ASSUME NEW i \in 1 .. n + 1, Kid(g, k, i).flag
        PROVE  f.flag
    <2>1. CASE i = n + 1
      BY <1>1, <1>4, <2>1
    <2>2. CASE i \in 1 .. n
      BY <1>1, <1>2, <1>4, <2>2
    <2> QED BY <1>1, <2>1, <2>2
  <1>5. f.flag => \E i \in 1 .. n + 1 : Kid(g, k, i).flag
    <2>1. n + 1 \in 1 .. n + 1 /\ \A i \in 1 .. n : i \in 1 .. n + 1
      BY <1>1
    <2> QED BY <1>1, <1>2, <2>1
  <1>6. g[k].flag => f.flag
    BY <1>1, <1>2
  <1> QED BY <1>1, <1>3, <1>4, <1>5, <1>6 DEF FlagFits, k

\* An item of a list.
LEMMA ItemFits ==
    ASSUME NEW g, NEW h, NEW e, NEW f, e.node = f.node, Fits(h, e),
           NEW num, NEW flag, IsExtended(g, h, f.node, "LISTITEM", num, flag),
           h[f.node].type = "LIST", CallsFit(h, f),
           e.flag => flag, f.flag <=> (e.flag \/ flag)
    PROVE  Fits(g, f)
  <1>1. g[f.node].type = "LIST"
    BY DEF IsExtended
  <1>2. KidsFit(g, f.node) /\ ListsApart(g, f.node)
    BY ChildFits DEF Fits, MayHold
  <1>3. CallsFit(g, f) /\ TableFits(g, f) /\ DefinitionFits(g, f)
    BY <1>1 DEF CallsFit, TableFits, DefinitionFits
  <1>4. FlagFits(g, f)
    BY FlagSticks DEF Fits
  <1> QED BY <1>2, <1>3, <1>4 DEF Fits

\* Data in a definition list: what the first round and every other leave.
LEMMA DataFits ==
    ASSUME NEW g, NEW h, NEW e, NEW f, e.node = f.node, Fits(h, e),
           NEW num, NEW flag, IsExtended(g, h, f.node, "DEFINITION_DATA", num, flag),
           h[f.node].type = "DEFINITION", CallsFit(h, f),
           e.flag => flag, f.flag <=> (e.flag \/ flag),
           f.todo \in {<<"data">>, <<>>}
    PROVE  Fits(g, f)
  <1> DEFINE k == f.node
             n == Count(h, k)
  <1>1. /\ g[k].type = "DEFINITION"
        /\ n \in Nat /\ Count(g, k) = n + 1
        /\ \A j \in 1 .. n : Kid(g, k, j).type = Kid(h, k, j).type
        /\ Kid(g, k, n + 1).type = "DEFINITION_DATA"
    BY DEF IsExtended
  <1>2. KidsFit(g, k) /\ ListsApart(g, k)
    BY ChildFits DEF Fits, MayHold
  <1>3. CallsFit(g, f) /\ TableFits(g, f)
    BY <1>1 DEF CallsFit, TableFits
  <1>4. FlagFits(g, f)
    BY FlagSticks DEF Fits
  <1>5. /\ n > 0 /\ Kid(h, k, 1).type = "DEFINITION_TITLE"
        /\ \A j \in 1 .. n - 1 : Kid(h, k, j).type = "DEFINITION_TITLE"
                                     => Kid(h, k, j + 1).type = "DEFINITION_DATA"
    BY DEF Fits, DefinitionFits
  <1> HIDE DEF n, k
  <1>6. ASSUME NEW j \in 1 .. n, Kid(g, k, j).type = "DEFINITION_TITLE"
        PROVE  Kid(g, k, j + 1).type = "DEFINITION_DATA"
    <2>1. CASE j = n
      BY <1>1, <2>1
    <2>2. CASE j \in 1 .. n - 1
      <3>1. j + 1 \in 1 .. n
        BY <1>1, <2>2
      <3> QED BY <1>1, <1>5, <1>6, <2>2, <3>1
    <2> QED BY <1>1, <2>1, <2>2
  <1>7. /\ n + 1 > 1 /\ n + 1 > 0 /\ (n + 1) - 1 = n
        /\ Kid(g, k, 1).type = "DEFINITION_TITLE"
    BY <1>1, <1>5
  <1>8. DefinitionFits(g, f)
    BY <1>1, <1>6, <1>7 DEF DefinitionFits, k
  <1> QED BY <1>2, <1>3, <1>4, <1>8 DEF Fits, k

\* A title in a definition list that was finished.
LEMMA TitleFits ==
    ASSUME NEW g, NEW h, NEW e, NEW f, e.node = f.node, Fits(h, e), e.todo = <<>>,
           NEW num, NEW flag, IsExtended(g, h, f.node, "DEFINITION_TITLE", num, flag),
           h[f.node].type = "DEFINITION",
           f.flag <=> (e.flag \/ flag),
           f.todo = <<"datum", "data">>
    PROVE  Fits(g, f)
  <1> DEFINE k == f.node
             n == Count(h, k)
  <1>1. /\ g[k].type = "DEFINITION"
        /\ n \in Nat /\ Count(g, k) = n + 1
        /\ \A j \in 1 .. n : Kid(g, k, j).type = Kid(h, k, j).type
        /\ Kid(g, k, n + 1).type = "DEFINITION_TITLE"
    BY DEF IsExtended
  <1>2. KidsFit(g, k) /\ ListsApart(g, k)
    BY ChildFits DEF Fits, MayHold
  <1>3. CallsFit(g, f) /\ TableFits(g, f)
    BY <1>1 DEF CallsFit, TableFits, MayDo
  <1>4. FlagFits(g, f)
    BY FlagSticks DEF Fits
  <1>5. /\ n > 1 /\ Kid(h, k, 1).type = "DEFINITION_TITLE"
        /\ Kid(h, k, n).type = "DEFINITION_DATA"
        /\ \A j \in 1 .. n - 1 : Kid(h, k, j).type = "DEFINITION_TITLE"
                                     => Kid(h, k, j + 1).type = "DEFINITION_DATA"
    BY DEF Fits, DefinitionFits
  <1> HIDE DEF n, k
  <1>6. ASSUME NEW j \in 1 .. n, Kid(g, k, j).type = "DEFINITION_TITLE"
        PROVE  Kid(g, k, j + 1).type = "DEFINITION_DATA"
    <2>1. CASE j = n
      BY <1>1, <1>5, <1>6, <2>1
    <2>2. CASE j \in 1 .. n - 1
      <3>1. j + 1 \in 1 .. n
        BY <1>1, <2>2
      <3> QED BY <1>1, <1>5, <1>6, <2>2, <3>1
    <2> QED BY <1>1, <2>1, <2>2
  <1>7. /\ n + 1 > 0 /\ (n + 1) - 1 = n
        /\ Kid(g, k, 1).type = "DEFINITION_TITLE"
    BY <1>1, <1>5
  <1>8. DefinitionFits(g, f)
    BY <1>1, <1>6, <1>7 DEF DefinitionFits, k
  <1> QED BY <1>2, <1>3, <1>4, <1>8 DEF Fits, k

\* The header and the body of a table.
LEMMA PartFits ==
    ASSUME NEW g, NEW h, NEW e, NEW f, e.node = f.node, Fits(h, e),
           NEW t, NEW flag, IsExtended(g, h, f.node, t, h[f.node].num, flag),
           h[f.node].type = "TABLE_BLOCK", CallsFit(h, f),
           e.todo # <<>>, f.todo = Tail(e.todo),
           \/ Head(e.todo) = "thead" /\ t = "TABLE_HEADER"
           \/ Head(e.todo) = "tbody" /\ t = "TABLE_BODY"
    PROVE  Fits(g, f)
  <1> DEFINE k == f.node
             n == Count(h, k)
  <1>1. /\ g[k].type = "TABLE_BLOCK" /\ g[k].num = h[k].num
        /\ n \in Nat /\ Count(g, k) = n + 1
        /\ \A j \in 1 .. n : /\ Kid(g, k, j).type = Kid(h, k, j).type
                             /\ Kid(g, k, j).num = Kid(h, k, j).num
        /\ Kid(g, k, n + 1).type = t /\ Kid(g, k, n + 1).num = h[k].num
    BY DEF IsExtended
  <1>2. KidsFit(g, k) /\ ListsApart(g, k)
    BY ChildFits DEF Fits, MayHold
  <1>3. CallsFit(g, f) /\ DefinitionFits(g, f) /\ FlagFits(g, f)
    BY <1>1 DEF CallsFit, DefinitionFits, FlagFits
  <1>4. /\ \A j \in 1 .. n : Kid(h, k, j).num = h[k].num
        /\ n > 0 => Kid(h, k, 1).type = "TABLE_HEADER"
        /\ n > 1 => Kid(h, k, 2).type = "TABLE_BODY"
        /\ \/ e.todo = <<"thead", "tbody">> /\ n = 0
           \/ e.todo = <<"tbody">> /\ n = 1
    BY DEF Fits, TableFits
  <1> HIDE DEF n, k
  <1>5. \A j \in 1 .. n + 1 : Kid(g, k, j).num = h[k].num
    BY <1>1, <1>4
  <1>6. CASE e.todo = <<"thead", "tbody">> /\ n = 0
    <2>1. t = "TABLE_HEADER" /\ f.todo = <<"tbody">>
      BY <1>6
    <2> QED BY <1>1, <1>2, <1>3, <1>5, <1>6, <2>1 DEF Fits, TableFits, k
  <1>7. CASE e.todo = <<"tbody">> /\ n = 1
    <2>1. t = "TABLE_BODY" /\ f.todo = <<>>
      BY <1>7
    <2> QED BY <1>1, <1>2, <1>3, <1>4, <1>5, <1>7, <2>1 DEF Fits, TableFits, k
  <1> QED BY <1>4, <1>6, <1>7

\* The row of a header; a row of a body.
LEMMA RowFits ==
    ASSUME NEW g, NEW h, NEW e, NEW f, e.node = f.node, Fits(h, e),
           NEW flag, IsExtended(g, h, f.node, "TABLE_ROW", h[f.node].num, flag),
           CallsFit(h, f), e.todo # <<>>,
           \/ h[f.node].type = "TABLE_HEADER" /\ f.todo = Tail(e.todo)
           \/ h[f.node].type = "TABLE_BODY"
    PROVE  Fits(g, f)
  <1> DEFINE k == f.node
             n == Count(h, k)
  <1>1. /\ g[k].type = h[k].type /\ g[k].num = h[k].num
        /\ n \in Nat /\ Count(g, k) = n + 1
        /\ \A j \in 1 .. n : Kid(g, k, j).num = Kid(h, k, j).num
        /\ Kid(g, k, n + 1).num = h[k].num
    BY DEF IsExtended
  <1>2. KidsFit(g, k) /\ ListsApart(g, k)
    BY ChildFits DEF Fits, MayHold
  <1>3. CallsFit(g, f) /\ DefinitionFits(g, f) /\ FlagFits(g, f)
    BY <1>1 DEF CallsFit, DefinitionFits, FlagFits
  <1>4. /\ \A j \in 1 .. n : Kid(h, k, j).num = h[k].num
        /\ h[k].type = "TABLE_HEADER" => e.todo = <<"headrow">> /\ n = 0
    BY DEF Fits, TableFits
  <1> HIDE DEF n, k
  <1>5. \A j \in 1 .. n + 1 : Kid(g, k, j).num = h[k].num
    BY <1>1, <1>4
  <1>6. ASSUME h[k].type = "TABLE_HEADER"
        PROVE  f.todo = <<>>
    <2>1. f.todo = Tail(e.todo)
      BY <1>6 DEF k
    <2>2. e.todo = <<"headrow">>
      BY <1>4, <1>6
    <2> QED BY <2>1, <2>2
  <1>7. TableFits(g, f)
    BY <1>1, <1>4, <1>5, <1>6 DEF TableFits, k
  <1> QED BY <1>2, <1>3, <1>7 DEF Fits, k

\* A cell of a row, in the column the loop is at.
LEMMA CellFits ==
    ASSUME NEW g, NEW h, NEW e, NEW f, e.node = f.node, Fits(h, e),
           NEW flag, IsExtended(g, h, f.node, "TABLE_CELL", e.i, flag),
           h[f.node].type = "TABLE_ROW", h[f.node].num \in Nat,
           e.todo # <<>>, e.i \in Nat, e.i < h[f.node].num,
           f.todo = e.todo, f.i = e.i + 1
    PROVE  Fits(g, f)
  <1> DEFINE k == f.node
             n == Count(h, k)
  <1>1. /\ g[k].type = "TABLE_ROW" /\ g[k].num = h[k].num
        /\ n \in Nat /\ Count(g, k) = n + 1
        /\ \A j \in 1 .. n : Kid(g, k, j).num = Kid(h, k, j).num
        /\ Kid(g, k, n + 1).num = e.i
    BY DEF IsExtended
  <1>2. KidsFit(g, k) /\ ListsApart(g, k)
    BY ChildFits DEF Fits, MayHold
  <1>3. CallsFit(g, f) /\ DefinitionFits(g, f) /\ FlagFits(g, f)
    BY <1>1 DEF CallsFit, DefinitionFits, FlagFits, Fits
  <1>4. /\ \A j \in 1 .. n : Kid(h, k, j).num = j - 1
        /\ e.todo \in {<<"cells", "fill">>, <<"fill">>} /\ n = e.i
    <2>1. TableFits(h, e)
      BY DEF Fits
    <2> QED BY <2>1 DEF TableFits
  <1> HIDE DEF n, k
  <1>5. \A j \in 1 .. n + 1 : Kid(g, k, j).num = j - 1
    BY <1>1, <1>4
  <1>6. n + 1 = f.i /\ n + 1 <= g[k].num
    BY <1>1, <1>4 DEF k
  <1>7. TableFits(g, f)
    BY <1>1, <1>4, <1>5, <1>6 DEF TableFits, k
  <1> QED BY <1>2, <1>3, <1>7 DEF Fits, k

-----------------------------------------------------------------------------
(* Nodes that begin, go on and end *)

\* What a parse function may have to do about a new node of type t.
Starts(t, flag, todo) ==
    /\ \A j \in 1 .. Len(todo) : MayDo(t, todo[j])
    /\ t # "DEFINITION"
    /\ t = "LIST" => flag = FALSE
    /\ t = "TABLE_BLOCK" => todo = <<"thead", "tbody">>
    /\ t = "TABLE_HEADER" => todo = <<"headrow">>
    /\ t = "TABLE_ROW" => todo = <<"cells", "fill">>

LEMMA NewFits ==
    ASSUME NEW g, NEW f, NEW t, NEW flag,
           Starts(t, flag, f.todo), f.i = 0, f.flag = flag,
           g[f.node].type = t, g[f.node].flag = flag, g[f.node].num \in Nat,
           g[f.node].children = <<>>
    PROVE  Fits(g, f)
  <1>1. Count(g, f.node) = 0
    BY DEF Count
  <1>2. CallsFit(g, f)
    BY DEF CallsFit, Starts
  <1>3. KidsFit(g, f.node) /\ ListsApart(g, f.node)
    BY <1>1 DEF KidsFit, ListsApart
  <1>4. TableFits(g, f)
    <2>1. CASE t = "TABLE_BLOCK"
      BY <1>1, <2>1 DEF TableFits, Starts
    <2>2. CASE t = "TABLE_HEADER"
      BY <1>1, <2>2 DEF TableFits, Starts
    <2>3. CASE t = "TABLE_ROW"
      <3>1. f.todo \in {<<"cells", "fill">>, <<"fill">>}
        BY <2>3 DEF Starts
      <3> QED BY <1>1, <2>3, <3>1 DEF TableFits
    <2>4. CASE t \notin {"TABLE_BLOCK", "TABLE_HEADER", "TABLE_ROW"}
      BY <1>1, <2>4 DEF TableFits
    <2> QED BY <2>1, <2>2, <2>3, <2>4
  <1>5. DefinitionFits(g, f)
    BY DEF DefinitionFits, Starts
  <1>6. FlagFits(g, f)
    BY <1>1 DEF FlagFits, Starts
  <1> QED BY <1>2, <1>3, <1>4, <1>5, <1>6 DEF Fits

LEMMA CallsLeft ==
    ASSUME NEW h, NEW e, NEW f, CallsFit(h, e), e.todo \in Seq(Calls), e.todo # <<>>,
           f.node = e.node, f.todo = Tail(e.todo)
    PROVE  CallsFit(h, f)
  <1>1. /\ Len(e.todo) \in Nat \ {0}
        /\ Len(Tail(e.todo)) = Len(e.todo) - 1
        /\ \A i \in 1 .. Len(e.todo) - 1 : Tail(e.todo)[i] = e.todo[i + 1]
    BY HeadTailProperties
  <1>2. ASSUME NEW j \in 1 .. Len(f.todo)
        PROVE  MayDo(h[f.node].type, f.todo[j])
    <2>1. j + 1 \in 1 .. Len(e.todo) /\ f.todo[j] = e.todo[j + 1]
      BY <1>1
    <2> QED BY <2>1 DEF CallsFit
  <1> QED BY <1>2 DEF CallsFit

\* A loop that may end, or a call that puts nothing into the tree.
LEMMA RestFits ==
    ASSUME NEW h, NEW e, NEW f, Fits(h, e), e.todo \in Seq(Calls), e.todo # <<>>,
           f.node = e.node, f.todo = Tail(e.todo), f.i = e.i, f.flag = e.flag,
           \/ Head(e.todo) \in {"block", "items", "data", "rows", "inline", "cells",
                                "footnotes", "defs"}
           \/ Head(e.todo) = "fill" /\ e.i = h[e.node].num
    PROVE  Fits(h, f)
  <1>1. CallsFit(h, f)
    BY CallsLeft DEF Fits
  <1>2. KidsFit(h, f.node) /\ ListsApart(h, f.node) /\ FlagFits(h, f)
    BY DEF Fits, FlagFits
  <1>3. DefinitionFits(h, f)
    <2> SUFFICES ASSUME h[e.node].type = "DEFINITION"
                 PROVE  DefinitionFits(h, f)
      BY DEF DefinitionFits
    <2>1. ~(e.todo = <<"datum", "data">>)
      OBVIOUS
    <2>2. e.todo = <<"data">>
      BY <2>1 DEF Fits, DefinitionFits
    <2>3. f.todo = <<>>
      BY <2>2
    <2> QED BY <2>2, <2>3 DEF Fits, DefinitionFits
  <1>4. TableFits(h, f)
    <2>1. CASE h[e.node].type = "TABLE_BLOCK"
      <3>1. ~(e.todo = <<"thead", "tbody">>) /\ ~(e.todo = <<"tbody">>)
        OBVIOUS
      <3> QED BY <2>1, <3>1 DEF Fits, TableFits
    <2>2. CASE h[e.node].type = "TABLE_HEADER"
      <3>1. ~(e.todo = <<"headrow">>)
        OBVIOUS
      <3> QED BY <2>2, <3>1 DEF Fits, TableFits
    <2>3. CASE h[e.node].type = "TABLE_ROW"
      <3>1. CASE e.todo = <<"cells", "fill">>
        <4>1. f.todo = <<"fill">>
          BY <3>1
        <4> QED BY <2>3, <3>1, <4>1 DEF Fits, TableFits
      <3>2. CASE e.todo = <<"fill">>
        <4>1. f.todo = <<>> /\ e.i = h[e.node].num
          BY <3>2
        <4> QED BY <2>3, <3>2, <4>1 DEF Fits, TableFits
      <3> QED BY <2>3, <3>1, <3>2 DEF Fits, TableFits
    <2>4. CASE h[e.node].type \notin {"TABLE_BLOCK", "TABLE_HEADER", "TABLE_ROW"}
      BY <2>4 DEF Fits, TableFits
    <2> QED BY <2>1, <2>2, <2>3, <2>4
  <1> QED BY <1>1, <1>2, <1>3, <1>4 DEF Fits

\* The return of a function: its node is finished, the flag of a list is in
\* the node.
LEMMA DoneFits ==
    ASSUME NEW g, NEW h, NEW e, Fits(h, e), e.todo = <<>>,
           NEW f, f.node = e.node, f.todo = <<>>, f.flag = g[e.node].flag,
           g[e.node].type = h[e.node].type, g[e.node].num = h[e.node].num,
           g[e.node].children = h[e.node].children,
           h[e.node].type \in {"LIST", "DEFINITION"} =>
               (g[e.node].flag <=> (h[e.node].flag \/ e.flag)),
           \A j \in 1 .. Count(h, e.node) :
               /\ Kid(g, e.node, j).type = Kid(h, e.node, j).type
               /\ Kid(g, e.node, j).num = Kid(h, e.node, j).num
               /\ Kid(g, e.node, j).flag = Kid(h, e.node, j).flag
    PROVE  Fits(g, f)
  <1> DEFINE k == e.node
             n == Count(h, k)
  <1>1. Count(g, k) = n
    BY DEF Count
  <1>2. CallsFit(g, f) /\ KidsFit(g, k)
    BY <1>1 DEF Fits, CallsFit, KidsFit
  <1>3. ListsApart(g, k)
    <2> SUFFICES ASSUME NEW j \in 1 .. n - 1
                 PROVE  Kid(g, k, j).type = "DEFINITION" => Kid(g, k, j + 1).type # "DEFINITION"
      BY <1>1 DEF ListsApart
    <2> QED BY DEF Fits, ListsApart, Count
  <1>4. TableFits(g, f)
    BY <1>1 DEF Fits, TableFits
  <1>5. DefinitionFits(g, f)
    BY <1>1 DEF Fits, DefinitionFits, Count
  <1>6. FlagFits(g, f)
    BY <1>1 DEF Fits, FlagFits
  <1> QED BY <1>2, <1>3, <1>4, <1>5, <1>6 DEF Fits

-----------------------------------------------------------------------------
(* The tree after pushnode *)

\* Tree g is tree b with the numbers and flags it has.
SameValues(g, b) ==
    \A k \in DOMAIN b : k \in DOMAIN g /\ g[k].num = b[k].num /\ g[k].flag = b[k].flag

LEMMA RecordChildren ==
    ASSUME NEW r \in NodeRecords, NEW s
    PROVE  /\ [r EXCEPT !.children = s].num = r.num
           /\ [r EXCEPT !.children = s].flag = r.flag
  BY DEF NodeRecords

LEMMA GrownValues ==
    ASSUME NEW t \in Types, NEW num \in Nat, NEW flag \in BOOLEAN,
           TypeOK, current \in DOMAIN tree
    PROVE  /\ SameValues(Grown(t, num, flag), tree)
           /\ Grown(t, num, flag)[nodes].num = num
           /\ Grown(t, num, flag)[nodes].flag = flag
  <1> DEFINE g == Grown(t, num, flag)
  <1>1. nodes \notin DOMAIN tree /\ \A k \in DOMAIN tree : tree[k] \in NodeRecords
    BY DEF TypeOK
  <1>2. DOMAIN g = DOMAIN tree \cup {nodes}
    BY DEF Grown
  <1>3. g[nodes] = Node(t, current, num, flag)
    BY DEF Grown
  <1>4. g[current] = [tree[current] EXCEPT !.children = Append(tree[current].children, nodes)]
    BY <1>1 DEF Grown
  <1>5. \A k \in DOMAIN tree \ {current} : g[k] = tree[k]
    BY <1>1 DEF Grown
  <1> HIDE DEF g
  <1>6. g[current].num = tree[current].num /\ g[current].flag = tree[current].flag
    BY <1>1, <1>4, RecordChildren
  <1>7. g[nodes].num = num /\ g[nodes].flag = flag
    BY <1>3 DEF Node
  <1>8. SameValues(g, tree)
    BY <1>2, <1>5, <1>6 DEF SameValues
  <1> QED BY <1>7, <1>8 DEF g

\* What a node in the last place under doc->current leaves as it was.
LEMMA GrownKids ==
    ASSUME TypeOK, ChildParents, current \in DOMAIN tree,
           NEW g, NEW t, NEW num, NEW flag, IsGrown(g, t), SameValues(g, tree),
           g[nodes].num = num, g[nodes].flag = flag
    PROVE  /\ IsExtended(g, tree, current, t, num, flag)
           /\ \A k \in DOMAIN tree \ {current} : Alike(g, tree, k)
  <1>1. /\ DOMAIN g = DOMAIN tree \cup {nodes}
        /\ nodes \notin DOMAIN tree
        /\ g[nodes].type = t
        /\ \A k \in DOMAIN tree : g[k].type = tree[k].type
        /\ g[current].children = Append(tree[current].children, nodes)
        /\ \A k \in DOMAIN tree \ {current} : g[k].children = tree[k].children
    BY DEF IsGrown
  <1>2. \A k \in DOMAIN tree : g[k].num = tree[k].num /\ g[k].flag = tree[k].flag
    BY DEF SameValues
  <1>3. \A k \in DOMAIN tree : \A j \in 1 .. Count(tree, k) : tree[k].children[j] \in DOMAIN tree
    BY DEF ChildParents, Linked, Count
  <1>4. ASSUME NEW k \in DOMAIN tree \ {current}
        PROVE  Alike(g, tree, k)
    BY <1>1, <1>2, <1>3 DEF Alike, Kid
  <1> DEFINE s == tree[current].children
             n == Len(s)
  <1>5. /\ s \in Seq(Nat) /\ nodes \in Nat
    BY DEF TypeOK, NodeRecords
  <1>6. /\ n \in Nat /\ Len(Append(s, nodes)) = n + 1
        /\ Append(s, nodes)[n + 1] = nodes
        /\ \A j \in 1 .. n : Append(s, nodes)[j] = s[j]
    BY <1>5
  <1>7. \A j \in 1 .. n : s[j] \in DOMAIN tree
    BY <1>3 DEF Count
  <1>8. Count(tree, current) = n /\ \A j : Kid(tree, current, j) = tree[s[j]]
    BY DEF Count, Kid
  <1>9. g[current].children = Append(s, nodes)
    BY <1>1
  <1> HIDE DEF s, n
  <1>10. /\ Count(g, current) = n + 1
         /\ Kid(g, current, n + 1) = g[nodes]
         /\ \A j \in 1 .. n : Kid(g, current, j) = g[s[j]]
    BY <1>6, <1>9 DEF Count, Kid
  <1>11. IsExtended(g, tree, current, t, num, flag)
    BY <1>1, <1>2, <1>6, <1>7, <1>8, <1>10 DEF IsExtended
  <1> QED BY <1>4, <1>11

LEMMA PushedTree ==
    ASSUME IInv, stack # <<>>,
           NEW t \in Types, NEW num \in Nat, NEW flag \in BOOLEAN,
           tree' = Grown(t, num, flag)
    PROVE  /\ IsGrown(tree', t)
           /\ IsExtended(tree', tree, current, t, num, flag)
           /\ \A k \in DOMAIN tree \ {current} : Alike(tree', tree, k)
           /\ tree'[nodes].type = t /\ tree'[nodes].num = num /\ tree'[nodes].flag = flag
           /\ tree'[nodes].children = <<>>
           /\ DOMAIN tree' = DOMAIN tree \cup {nodes} /\ nodes \notin DOMAIN tree
           /\ nodes \in Nat /\ current \in DOMAIN tree
           /\ SameValues(tree', tree)
  <1>1. TypeOK /\ ChildParents /\ current \in DOMAIN tree /\ nodes \in Nat
    BY OpenNodes DEF IInv, TypeOK
  <1>2. IsGrown(tree', t)
    BY <1>1, GrownNodes
  <1>3. SameValues(tree', tree) /\ tree'[nodes].num = num /\ tree'[nodes].flag = flag
    BY <1>1, GrownValues
  <1>4. /\ IsExtended(tree', tree, current, t, num, flag)
        /\ \A k \in DOMAIN tree \ {current} : Alike(tree', tree, k)
    BY <1>1, <1>2, <1>3, GrownKids
  <1> QED BY <1>1, <1>2, <1>3, <1>4 DEF IsGrown

LEMMA GrownPlaced ==
    ASSUME IInv, Placed, stack # <<>>, NEW g, NEW t, IsGrown(g, t)
    PROVE  PlacedIn(g)
  <1>1. /\ DOMAIN g = DOMAIN tree \cup {nodes}
        /\ g[nodes].parent = current
        /\ \A k \in DOMAIN tree : g[k].parent = tree[k].parent
        /\ g[current].children = Append(tree[current].children, nodes)
        /\ \A k \in DOMAIN tree \ {current} : g[k].children = tree[k].children
    BY DEF IsGrown
  <1> DEFINE s == tree[current].children
             n == Len(s)
  <1>2. s \in Seq(Nat) /\ nodes \in Nat /\ current \in DOMAIN tree
    BY OpenNodes DEF IInv, TypeOK, NodeRecords
  <1>3. /\ n \in Nat /\ Len(Append(s, nodes)) = n + 1
        /\ Append(s, nodes)[n + 1] = nodes
        /\ \A j \in 1 .. n : Append(s, nodes)[j] = s[j]
    BY <1>2
  <1>4. g[current].children = Append(s, nodes)
    BY <1>1
  <1>5. s = tree[current].children
    OBVIOUS
  <1> HIDE DEF n, s
  <1> SUFFICES ASSUME NEW k \in DOMAIN g \ {0}
               PROVE  /\ g[k].parent \in DOMAIN g
                      /\ \E i \in 1 .. Len(g[g[k].parent].children) :
                             g[g[k].parent].children[i] = k
    BY DEF PlacedIn, Count
  <1>6. CASE k = nodes
    <2>1. n + 1 \in 1 .. n + 1
      BY <1>3
    <2> QED BY <1>1, <1>2, <1>3, <1>4, <1>6, <2>1
  <1>7. CASE k \in DOMAIN tree
    <2> DEFINE p == tree[k].parent
    <2>1. p \in DOMAIN tree /\ g[k].parent = p
      BY <1>1, <1>7 DEF Placed, PlacedIn
    <2>2. PICK i \in 1 .. Len(tree[p].children) : tree[p].children[i] = k
      BY <1>7 DEF Placed, PlacedIn, Count
    <2> HIDE DEF p
    <2>3. CASE p = current
      <3>1. i \in 1 .. n /\ s[i] = k
        BY <1>5, <2>2, <2>3 DEF n
      <3>2. i \in 1 .. n + 1 /\ Append(s, nodes)[i] = k
        BY <1>3, <3>1
      <3> QED BY <1>1, <1>3, <1>4, <2>1, <2>3, <3>2
    <2>4. CASE p # current
      BY <1>1, <2>1, <2>2, <2>4
    <2> QED BY <2>3, <2>4
  <1> QED BY <1>1, <1>6, <1>7

-----------------------------------------------------------------------------
(* The ways to change the tree *)

\* The frame with which the innermost function goes on: a link with its text
\* still to parse keeps it.
Resumes(f) ==
    /\ f \in Frames /\ f.node = Top.node
    /\ CurType = "LINK" /\ Top.todo # <<>> => f.todo # <<>>

LEMMA LinkGoesOn ==
    ASSUME IInv, LinkOpen, stack # <<>>, NEW f, Resumes(f),
           in_link_body' = in_link_body, status' = status,
           \A k \in DOMAIN tree : tree'[k].type = tree[k].type,
           Len(stack') >= Len(stack), Len(stack') \in Nat,
           stack'[Len(stack)] = f,
           \A i \in 1 .. Len(stack) - 1 : stack'[i] = stack[i]
    PROVE  LinkOpen'
  <1> SUFFICES ASSUME status = "parsing", in_link_body = 1
               PROVE  \E i \in 1 .. Len(stack') :
                          tree'[stack'[i].node].type = "LINK" /\ stack'[i].todo # <<>>
    BY DEF LinkOpen
  <1> DEFINE n == Len(stack)
  <1>1. /\ n \in Nat \ {0} /\ Top = stack[n] /\ current = Top.node
        /\ \A i \in 1 .. n : stack[i].node \in DOMAIN tree
    BY OpenNodes
  <1>2. PICK i \in 1 .. n : tree[stack[i].node].type = "LINK" /\ stack[i].todo # <<>>
    BY DEF LinkOpen
  <1> HIDE DEF n
  <1>3. i \in 1 .. Len(stack')
    BY <1>1, <1>2 DEF n
  <1>4. CASE i = n
    <2>1. stack'[i] = f /\ f.node = stack[i].node /\ f.todo # <<>>
      BY <1>1, <1>2, <1>4 DEF Resumes, CurType, n
    <2> QED BY <1>1, <1>2, <1>3, <2>1
  <1>5. CASE i # n
    <2>1. stack'[i] = stack[i]
      BY <1>1, <1>2, <1>5 DEF n
    <2> QED BY <1>1, <1>2, <1>3, <2>1
  <1> QED BY <1>4, <1>5

\* The frames below the innermost one: their nodes are not doc->current.
LEMMA BelowTop ==
    ASSUME IInv, stack # <<>>
    PROVE  \A i \in 1 .. Len(stack) - 1 :
               stack[i].node \in DOMAIN tree \ {current}
  <1>1. /\ Len(stack) \in Nat \ {0} /\ current = stack[Len(stack)].node
        /\ \A i \in 1 .. Len(stack) : stack[i].node \in DOMAIN tree
    BY OpenNodes
  <1> QED BY <1>1 DEF IInv, StackDistinct

\* The frames and the types of nodes after pushnode of a node of type t.
Pushed(t, flag, todo, caller) ==
    /\ \A k \in DOMAIN tree : tree'[k].type = tree[k].type
    /\ tree'[nodes].type = t
    /\ Len(stack') = Len(stack) + 1
    /\ stack'[Len(stack)] = caller
    /\ stack'[Len(stack) + 1] = Frame(nodes, todo, flag)
    /\ \A i \in 1 .. Len(stack) - 1 : stack'[i] = stack[i]

\* pushnode of a node whose function then runs.
LEMMA PushFits ==
    ASSUME IInv, OpenFit, ClosedFit, Placed, stack # <<>>,
           NEW t \in Types, NEW num \in Nat, NEW flag \in BOOLEAN,
           NEW todo \in Seq(Calls), Starts(t, flag, todo),
           NEW caller \in Frames, caller.node = Top.node, Fits(tree', caller),
           PushNode(t, num, flag, todo, caller)
    PROVE  OpenFit' /\ ClosedFit' /\ Placed' /\ Pushed(t, flag, todo, caller)
  <1> DEFINE n == Len(stack)
             e == Frame(nodes, todo, flag)
  <1>1. /\ n \in Nat \ {0} /\ current = Top.node /\ current = stack[n].node
        /\ stack \in Seq(Frames) /\ nodes \in Nat
    BY OpenNodes DEF IInv, TypeOK
  <1>2. /\ IsGrown(tree', t)
        /\ \A k \in DOMAIN tree \ {current} : Alike(tree', tree, k)
        /\ tree'[nodes].type = t /\ tree'[nodes].num = num /\ tree'[nodes].flag = flag
        /\ tree'[nodes].children = <<>>
        /\ DOMAIN tree' = DOMAIN tree \cup {nodes} /\ nodes \notin DOMAIN tree
        /\ current \in DOMAIN tree
    BY PushedTree DEF PushNode
  <1>3. e \in Frames /\ e.node = nodes /\ e.todo = todo /\ e.flag = flag /\ e.i = 0
    BY <1>1, NewFrame DEF Frame
  <1>4. IsPushed(stack', caller, e)
    <2>1. stack' = Append(SetTop(caller), e)
      BY DEF PushNode
    <2> HIDE DEF e
    <2> QED BY <1>1, <1>3, <2>1, FramePushed
  <1>5. Fits(tree', e)
    <2> HIDE DEF e
    <2> QED BY <1>2, <1>3, NewFits
  <1>6. \A i \in 1 .. n - 1 : stack[i].node \in DOMAIN tree \ {current}
    BY BelowTop
  <1>7. \A i \in 1 .. n : Fits(tree, stack[i])
    BY DEF OpenFit
  <1> HIDE DEF e, n
  <1>8. /\ Len(stack') = n + 1 /\ stack'[n + 1] = e /\ stack'[n] = caller
        /\ \A i \in 1 .. n - 1 : stack'[i] = stack[i]
    BY <1>4 DEF IsPushed, n
  <1>9. OpenFit'
    <2> SUFFICES ASSUME NEW i \in 1 .. n + 1
                 PROVE  Fits(tree', stack'[i])
      BY <1>8 DEF OpenFit
    <2>1. CASE i \in 1 .. n - 1
      <3>1. Fits(tree, stack[i]) /\ Alike(tree', tree, stack[i].node)
        BY <1>1, <1>2, <1>6, <1>7, <2>1
      <3> QED BY <1>8, <2>1, <3>1, AlikeFits
    <2> QED BY <1>1, <1>5, <1>8, <2>1
  <1>10. ClosedFit'
    <2> SUFFICES ASSUME NEW k \in DOMAIN tree', \A i \in 1 .. n + 1 : stack'[i].node # k
                 PROVE  Fits(tree', Closed(tree', k))
      BY <1>8 DEF ClosedFit, IsOpen
    <2>1. k # nodes /\ k # current
      BY <1>1, <1>3, <1>8
    <2>2. \A i \in 1 .. n : stack[i].node # k
      BY <1>1, <1>8, <2>1
    <2>3. Fits(tree, Closed(tree, k)) /\ Alike(tree', tree, k)
      BY <1>2, <2>1, <2>2 DEF ClosedFit, IsOpen, n
    <2>4. Closed(tree', k) = Closed(tree, k) /\ Closed(tree, k).node = k
      BY <2>3 DEF Closed, Frame, Alike
    <2> QED BY <2>3, <2>4, AlikeFits
  <1>11. Placed'
    BY <1>2, GrownPlaced DEF Placed
  <1>12. Pushed(t, flag, todo, caller)
    BY <1>2, <1>8 DEF n, e, IsGrown, Pushed
  <1> QED BY <1>9, <1>10, <1>11, <1>12

\* pushnode and popnode of a node without children.
LEMMA LeafFits ==
    ASSUME IInv, OpenFit, ClosedFit, Placed, stack # <<>>,
           NEW t \in Types, NEW num \in Nat, NEW flag \in BOOLEAN,
           Starts(t, flag, <<>>),
           NEW caller \in Frames, caller.node = Top.node, Fits(tree', caller),
           PushLeaf(t, num, flag, caller)
    PROVE  /\ OpenFit' /\ ClosedFit' /\ Placed'
           /\ \A k \in DOMAIN tree : tree'[k].type = tree[k].type
           /\ Len(stack') = Len(stack)
           /\ stack'[Len(stack)] = caller
           /\ \A i \in 1 .. Len(stack) - 1 : stack'[i] = stack[i]
  <1> DEFINE n == Len(stack)
  <1>1. /\ n \in Nat \ {0} /\ current = Top.node /\ current = stack[n].node
        /\ stack \in Seq(Frames) /\ nodes \in Nat
    BY OpenNodes DEF IInv, TypeOK
  <1>2. /\ IsGrown(tree', t)
        /\ \A k \in DOMAIN tree \ {current} : Alike(tree', tree, k)
        /\ tree'[nodes].type = t /\ tree'[nodes].num = num /\ tree'[nodes].flag = flag
        /\ tree'[nodes].children = <<>>
        /\ DOMAIN tree' = DOMAIN tree \cup {nodes} /\ nodes \notin DOMAIN tree
        /\ current \in DOMAIN tree
    BY PushedTree DEF PushLeaf
  <1>4. IsSet(stack', caller)
    BY <1>1, FrameSet DEF PushLeaf
  <1>5. Fits(tree', Closed(tree', nodes))
    <2> DEFINE e == Closed(tree', nodes)
    <2>1. e.node = nodes /\ e.todo = <<>> /\ e.i = 0 /\ e.flag = flag
      BY <1>2 DEF Closed, Frame
    <2> HIDE DEF e
    <2>2. Fits(tree', e)
      BY <1>2, <2>1, NewFits
    <2> QED BY <2>2 DEF e
  <1>6. \A i \in 1 .. n - 1 : stack[i].node \in DOMAIN tree \ {current}
    BY BelowTop
  <1>7. \A i \in 1 .. n : Fits(tree, stack[i])
    BY DEF OpenFit
  <1> HIDE DEF n
  <1>8. /\ Len(stack') = n /\ stack'[n] = caller
        /\ \A i \in 1 .. n - 1 : stack'[i] = stack[i]
    BY <1>4 DEF IsSet, n
  <1>9. OpenFit'
    <2> SUFFICES ASSUME NEW i \in 1 .. n
                 PROVE  Fits(tree', stack'[i])
      BY <1>8 DEF OpenFit
    <2>1. CASE i \in 1 .. n - 1
      <3>1. Fits(tree, stack[i]) /\ Alike(tree', tree, stack[i].node)
        BY <1>1, <1>2, <1>6, <1>7, <2>1
      <3> QED BY <1>8, <2>1, <3>1, AlikeFits
    <2> QED BY <1>1, <1>8, <2>1
  <1>10. ClosedFit'
    <2> SUFFICES ASSUME NEW k \in DOMAIN tree', \A i \in 1 .. n : stack'[i].node # k
                 PROVE  Fits(tree', Closed(tree', k))
      BY <1>8 DEF ClosedFit, IsOpen
    <2>1. k # current /\ \A i \in 1 .. n : stack[i].node # k
      BY <1>1, <1>8
    <2>2. CASE k = nodes
      BY <1>5, <2>2
    <2>3. CASE k # nodes
      <3>1. Fits(tree, Closed(tree, k)) /\ Alike(tree', tree, k)
        BY <1>2, <2>1, <2>3 DEF ClosedFit, IsOpen, n
      <3>2. Closed(tree', k) = Closed(tree, k) /\ Closed(tree, k).node = k
        BY <3>1 DEF Closed, Frame, Alike
      <3> QED BY <3>1, <3>2, AlikeFits
    <2> QED BY <2>2, <2>3
  <1>11. Placed'
    BY <1>2, GrownPlaced DEF Placed
  <1> QED BY <1>2, <1>8, <1>9, <1>10, <1>11 DEF n, IsGrown

LEMMA PushTree ==
    ASSUME IInv, TInv, stack # <<>>,
           NEW t \in Types, NEW num \in Nat, NEW flag \in BOOLEAN,
           NEW todo \in Seq(Calls), Starts(t, flag, todo),
           NEW caller, Resumes(caller), Fits(tree', caller),
           PushNode(t, num, flag, todo, caller),
           in_link_body' = in_link_body, status' = status
    PROVE  TInv'
  <1>1. caller \in Frames /\ caller.node = Top.node /\ Len(stack) \in Nat
    BY OpenNodes DEF Resumes
  <1>2. /\ OpenFit' /\ ClosedFit' /\ Placed'
        /\ \A k \in DOMAIN tree : tree'[k].type = tree[k].type
        /\ Len(stack') = Len(stack) + 1
        /\ stack'[Len(stack)] = caller
        /\ \A i \in 1 .. Len(stack) - 1 : stack'[i] = stack[i]
    <2>1. OpenFit /\ ClosedFit /\ Placed
      BY DEF TInv
    <2>2. OpenFit' /\ ClosedFit' /\ Placed' /\ Pushed(t, flag, todo, caller)
      BY <1>1, <2>1, PushFits
    <2> QED BY <2>2 DEF Pushed
  <1>3. Len(stack') >= Len(stack) /\ Len(stack') \in Nat
    BY <1>1, <1>2
  <1>4. LinkOpen'
    BY <1>2, <1>3, LinkGoesOn DEF TInv
  <1> QED BY <1>2, <1>4 DEF TInv

LEMMA LeafTree ==
    ASSUME IInv, TInv, stack # <<>>,
           NEW t \in Types, NEW num \in Nat, NEW flag \in BOOLEAN,
           Starts(t, flag, <<>>),
           NEW caller, Resumes(caller), Fits(tree', caller),
           PushLeaf(t, num, flag, caller),
           in_link_body' = in_link_body, status' = status
    PROVE  TInv'
  <1>1. caller \in Frames /\ caller.node = Top.node /\ Len(stack) \in Nat
    BY OpenNodes DEF Resumes
  <1>2. /\ OpenFit' /\ ClosedFit' /\ Placed'
        /\ \A k \in DOMAIN tree : tree'[k].type = tree[k].type
        /\ Len(stack') = Len(stack)
        /\ stack'[Len(stack)] = caller
        /\ \A i \in 1 .. Len(stack) - 1 : stack'[i] = stack[i]
    BY <1>1, LeafFits DEF TInv
  <1>3. Len(stack') >= Len(stack) /\ Len(stack') \in Nat
    BY <1>1, <1>2
  <1>4. LinkOpen'
    BY <1>2, <1>3, LinkGoesOn DEF TInv
  <1> QED BY <1>2, <1>4 DEF TInv

\* The innermost function goes on and the tree stays as it is.
LEMMA SetFits ==
    ASSUME IInv, OpenFit, ClosedFit, Placed, stack # <<>>,
           NEW caller \in Frames, caller.node = Top.node, Fits(tree, caller),
           stack' = SetTop(caller), tree' = tree
    PROVE  /\ OpenFit' /\ ClosedFit' /\ Placed'
           /\ Len(stack') = Len(stack)
           /\ stack'[Len(stack)] = caller
           /\ \A i \in 1 .. Len(stack) - 1 : stack'[i] = stack[i]
  <1> DEFINE n == Len(stack)
  <1>1. /\ n \in Nat \ {0} /\ stack[n].node = Top.node /\ stack \in Seq(Frames)
    BY OpenNodes DEF IInv, TypeOK
  <1>2. IsSet(stack', caller)
    BY <1>1, FrameSet
  <1> HIDE DEF n
  <1>3. /\ Len(stack') = n /\ stack'[n] = caller
        /\ \A i \in 1 .. n - 1 : stack'[i] = stack[i]
    BY <1>2 DEF IsSet, n
  <1>4. \A i \in 1 .. n : Fits(tree, stack[i])
    BY DEF OpenFit, n
  <1>5. OpenFit'
    <2> SUFFICES ASSUME NEW i \in 1 .. n
                 PROVE  Fits(tree, stack'[i])
      BY <1>3 DEF OpenFit
    <2>1. i = n \/ i \in 1 .. n - 1
      BY <1>1
    <2> QED BY <1>3, <1>4, <2>1
  <1>6. ClosedFit'
    <2> SUFFICES ASSUME NEW k \in DOMAIN tree, \A i \in 1 .. n : stack'[i].node # k
                 PROVE  Fits(tree, Closed(tree, k))
      BY <1>3 DEF ClosedFit, IsOpen
    <2>1. \A i \in 1 .. n : stack[i].node # k
      BY <1>1, <1>3
    <2> QED BY <2>1 DEF ClosedFit, IsOpen, n
  <1>7. Placed'
    BY DEF Placed, PlacedIn, Count
  <1> QED BY <1>3, <1>5, <1>6, <1>7 DEF n

LEMMA SetTree ==
    ASSUME IInv, TInv, stack # <<>>, NEW caller, Resumes(caller), Fits(tree, caller),
           stack' = SetTop(caller), tree' = tree,
           in_link_body' = in_link_body, status' = status
    PROVE  TInv'
  <1>1. caller \in Frames /\ caller.node = Top.node /\ Len(stack) \in Nat
    BY OpenNodes DEF Resumes
  <1>2. /\ OpenFit' /\ ClosedFit' /\ Placed'
        /\ Len(stack') = Len(stack)
        /\ stack'[Len(stack)] = caller
        /\ \A i \in 1 .. Len(stack) - 1 : stack'[i] = stack[i]
    BY <1>1, SetFits DEF TInv
  <1>3. Len(stack') >= Len(stack) /\ Len(stack') \in Nat
    BY <1>1, <1>2
  <1>4. LinkOpen'
    BY <1>2, <1>3, LinkGoesOn DEF TInv
  <1> QED BY <1>2, <1>4 DEF TInv

\* The tree after a return: only the flag of a list may have changed.
LEMMA ReturnedTree ==
    ASSUME IInv, Return
    PROVE  /\ DOMAIN tree' = DOMAIN tree
           /\ \A k \in DOMAIN tree :
                  /\ tree'[k].parent = tree[k].parent /\ tree'[k].type = tree[k].type
                  /\ tree'[k].children = tree[k].children /\ tree'[k].num = tree[k].num
           /\ \A k \in DOMAIN tree :
                  k # current \/ tree[k].type \notin {"LIST", "DEFINITION"}
                      => tree'[k].flag = tree[k].flag
           /\ tree[current].type \in {"LIST", "DEFINITION"}
                  => (tree'[current].flag <=> (tree[current].flag \/ Top.flag))
  <1>1. /\ stack # <<>> /\ current = Top.node /\ current \in DOMAIN tree
    <2>1. Len(stack) > 1 /\ stack \in Seq(Frames)
      BY DEF Return, IInv, TypeOK
    <2>2. stack # <<>>
      BY <2>1
    <2> QED BY <2>2, OpenNodes
  <1>2. tree[current] \in NodeRecords
    BY <1>1 DEF IInv, TypeOK
  <1>3. CASE tree[current].type \in {"LIST", "DEFINITION"}
    <2> DEFINE v == tree[current].flag \/ Top.flag
               r == [tree[current] EXCEPT !.flag = v]
    <2>1. tree' = [tree EXCEPT ![current] = r]
      BY <1>1, <1>3 DEF Return
    <2>2. /\ r.parent = tree[current].parent /\ r.type = tree[current].type
          /\ r.children = tree[current].children /\ r.num = tree[current].num
          /\ r.flag = v
      BY <1>2 DEF NodeRecords
    <2> HIDE DEF r
    <2>3. tree'[current] = r /\ \A k \in DOMAIN tree \ {current} : tree'[k] = tree[k]
      BY <1>1, <2>1
    <2>4. tree'[current].flag <=> v
      BY <2>2, <2>3
    <2>5. DOMAIN tree' = DOMAIN tree
      BY <2>1
    <2> QED BY <1>3, <2>2, <2>3, <2>4, <2>5
  <1>4. CASE tree[current].type \notin {"LIST", "DEFINITION"}
    BY <1>1, <1>4 DEF Return
  <1> QED BY <1>3, <1>4

\* popnode and the return to the function below.
LEMMA ReturnTree ==
    ASSUME IInv, TInv, Return
    PROVE  TInv'
  <1> DEFINE n == Len(stack)
  <1>0. stack # <<>> /\ n > 1 /\ stack \in Seq(Frames)
    BY DEF Return, IInv, TypeOK
  <1>1. /\ n \in Nat \ {0} /\ Top = stack[n] /\ current = Top.node
        /\ current \in DOMAIN tree
        /\ \A i \in 1 .. n : stack[i].node \in DOMAIN tree
        /\ status = "parsing"
    BY <1>0, OpenNodes
  <1>2. /\ DOMAIN tree' = DOMAIN tree
        /\ \A k \in DOMAIN tree :
               /\ tree'[k].parent = tree[k].parent /\ tree'[k].type = tree[k].type
               /\ tree'[k].children = tree[k].children /\ tree'[k].num = tree[k].num
        /\ \A k \in DOMAIN tree :
               k # current \/ tree[k].type \notin {"LIST", "DEFINITION"}
                   => tree'[k].flag = tree[k].flag
        /\ tree[current].type \in {"LIST", "DEFINITION"}
               => (tree'[current].flag <=> (tree[current].flag \/ Top.flag))
    BY ReturnedTree
  <1>3. /\ Top.todo = <<>> /\ UNCHANGED docVars
        /\ stack' = SubSeq(stack, 1, Len(stack) - 1)
    BY DEF Return, PopNode
  <1>4. IsPopped(stack')
    BY <1>0, <1>3, FramePopped
  <1>5. /\ \A k \in DOMAIN tree : \A j \in 1 .. Count(tree, k) :
               /\ tree[k].children[j] \in DOMAIN tree
               /\ tree[tree[k].children[j]].parent = k
    BY DEF IInv, ChildParents, Linked, Count
  <1>6. Linked(tree) /\ \A i, j \in 1 .. n : stack[i].node = stack[j].node => i = j
    BY DEF IInv, ChildParents, StackDistinct
  <1>7. \A i \in 1 .. n : Fits(tree, stack[i])
    BY DEF TInv, OpenFit
  <1>8. \A k \in DOMAIN tree : (\A i \in 1 .. n : stack[i].node # k)
                                   => Fits(tree, Closed(tree, k))
    BY DEF TInv, ClosedFit, IsOpen
  <1> HIDE DEF n
  <1>9. /\ Len(stack') = n - 1
        /\ \A i \in 1 .. n - 1 : stack'[i] = stack[i]
    BY <1>4 DEF IsPopped, n
  \* The only node the flag of which matters to its parent is one of no list.
  <1>10. ASSUME NEW f, Fits(tree, f), f.node \in DOMAIN tree, f.node # current,
                \A j \in 1 .. Count(tree, f.node) :
                    tree[f.node].children[j] # current
         PROVE  Fits(tree', f)
    <2>1. Alike(tree', tree, f.node)
      BY <1>2, <1>5, <1>10 DEF Alike, Kid
    <2> QED BY <1>10, <2>1, AlikeFits
  <1>11. ASSUME NEW f, Fits(tree, f), f.node \in DOMAIN tree, f.node # current,
                NEW c \in 1 .. Count(tree, f.node), tree[f.node].children[c] = current
         PROVE  Fits(tree', f)
    <2>1. CASE tree[current].type \notin {"LIST", "DEFINITION"}
      <3>1. Alike(tree', tree, f.node)
        BY <1>2, <1>5, <1>11, <2>1 DEF Alike, Kid
      <3> QED BY <1>11, <3>1, AlikeFits
    <2>2. CASE tree[current].type \in {"LIST", "DEFINITION"}
      <3>1. MayHold(tree[f.node].type, tree[current].type)
        BY <1>11 DEF Fits, KidsFit, Kid
      <3>2. tree[f.node].type \in Containers
        BY <2>2, <3>1 DEF MayHold, PlainBlocks, SpanTypes
      <3>3. tree'[f.node].type \notin Ruled
        BY <1>2, <1>11, <3>2 DEF Containers, Ruled
      <3>4. /\ Count(tree', f.node) = Count(tree, f.node)
            /\ tree'[f.node].type = tree[f.node].type
            /\ \A j \in 1 .. Count(tree, f.node) :
                   Kid(tree', f.node, j).type = Kid(tree, f.node, j).type
        BY <1>2, <1>5, <1>11 DEF Count, Kid
      <3>5. CallsFit(tree', f) /\ KidsFit(tree', f.node)
        BY <1>11, <3>4 DEF Fits, CallsFit, KidsFit
      <3>6. ListsApart(tree', f.node)
        <4> SUFFICES ASSUME NEW j \in 1 .. Count(tree, f.node) - 1
                     PROVE  Kid(tree', f.node, j).type = "DEFINITION"
                                => Kid(tree', f.node, j + 1).type # "DEFINITION"
          BY <3>4 DEF ListsApart
        <4>1. Count(tree, f.node) \in Nat
          <5>1. tree[f.node].children \in Seq(Nat)
            BY <1>11 DEF IInv, TypeOK, NodeRecords
          <5> QED BY <5>1 DEF Count
        <4>2. j \in 1 .. Count(tree, f.node) /\ j + 1 \in 1 .. Count(tree, f.node)
          BY <4>1
        <4> QED BY <1>11, <3>4, <4>2 DEF Fits, ListsApart
      <3> QED BY <3>3, <3>5, <3>6, PlainFits
    <2> QED BY <2>1, <2>2
  <1>12. ASSUME NEW f, Fits(tree, f), f.node \in DOMAIN tree, f.node # current
         PROVE  Fits(tree', f)
    BY <1>10, <1>11, <1>12
  <1>13. OpenFit'
    <2> SUFFICES ASSUME NEW i \in 1 .. n - 1
                 PROVE  Fits(tree', stack'[i])
      BY <1>9 DEF OpenFit
    <2>1. i \in 1 .. n /\ stack[i].node # current
      BY <1>1, <1>6
    <2> QED BY <1>1, <1>7, <1>9, <1>12, <2>1
  <1>14. ClosedFit'
    <2> SUFFICES ASSUME NEW k \in DOMAIN tree, \A i \in 1 .. n - 1 : stack'[i].node # k
                 PROVE  Fits(tree', Closed(tree', k))
      BY <1>2, <1>9 DEF ClosedFit, IsOpen
    <2>1. CASE k = current
      <3> DEFINE f == Closed(tree', k)
      <3>1. f.node = current /\ f.todo = <<>> /\ f.flag = tree'[current].flag
        BY <2>1 DEF Closed, Frame
      <3>2. \A j \in 1 .. Count(tree, current) :
                /\ tree[current].children[j] \in DOMAIN tree
                /\ tree[current].children[j] # current
        <4> TAKE j \in 1 .. Count(tree, current)
        <4>1. /\ tree[current].children[j] \in DOMAIN tree
              /\ tree[tree[current].children[j]].parent = current
          BY <1>1, <1>5
        <4>2. \A i \in 1 .. n : stack[i].node # tree[current].children[j]
          BY <1>0, <4>1, ChildNotOpen DEF n
        <4> QED BY <1>1, <4>1, <4>2
      <3>3. \A j \in 1 .. Count(tree, current) : Kid(tree', current, j).type = Kid(tree, current, j).type
               /\ Kid(tree', current, j).num = Kid(tree, current, j).num
               /\ Kid(tree', current, j).flag = Kid(tree, current, j).flag
        BY <1>1, <1>2, <3>2 DEF Kid
      <3>4. Fits(tree, Top) /\ Top.todo = <<>> /\ Top.node = current
        BY <1>1, <1>3, <1>7
      <3>5. /\ tree'[current].type = tree[current].type
            /\ tree'[current].num = tree[current].num
            /\ tree'[current].children = tree[current].children
        BY <1>1, <1>2
      <3> HIDE DEF f
      <3>6. Fits(tree', f)
        BY <1>2, <3>1, <3>3, <3>4, <3>5, DoneFits
      <3> QED BY <3>6 DEF f
    <2>2. CASE k # current
      <3>1. \A i \in 1 .. n : stack[i].node # k
        BY <1>1, <1>9, <2>2
      <3>2. Fits(tree, Closed(tree, k)) /\ Closed(tree, k).node = k
        BY <1>8, <3>1 DEF Closed, Frame
      <3>3. Closed(tree', k) = Closed(tree, k)
        BY <1>2, <2>2 DEF Closed
      <3> QED BY <1>12, <2>2, <3>2, <3>3
    <2> QED BY <2>1, <2>2
  <1>15. Placed'
    BY <1>2 DEF TInv, Placed, PlacedIn, Count
  <1>16. LinkOpen'
    <2> SUFFICES ASSUME in_link_body = 1
                 PROVE  \E i \in 1 .. Len(stack') :
                            tree'[stack'[i].node].type = "LINK" /\ stack'[i].todo # <<>>
      BY <1>3 DEF LinkOpen, docVars
    <2>1. PICK i \in 1 .. n : tree[stack[i].node].type = "LINK" /\ stack[i].todo # <<>>
      BY <1>1 DEF TInv, LinkOpen, n
    <2>2. i # n /\ i \in 1 .. n - 1
      BY <1>1, <1>3, <2>1
    <2> QED BY <1>1, <1>2, <1>9, <2>1, <2>2
  <1> QED BY <1>13, <1>14, <1>15, <1>16 DEF TInv

-----------------------------------------------------------------------------
(* Definition lists *)

LEMMA TitleValues ==
    ASSUME NEW r \in NodeRecords, NEW x
    PROVE  TitleOf(r, x).num = r.num /\ TitleOf(r, x).flag = r.flag
  BY DEF TitleOf, NodeRecords

LEMMA RetitledValues ==
    ASSUME NEW b, \A k \in DOMAIN b : b[k] \in NodeRecords,
           NEW cur \in DOMAIN b, NEW x \in DOMAIN b, current \in DOMAIN b,
           cur # x, cur # current, x # current,
           NEW kept
    PROVE  SameValues(Retitled(b, cur, kept, x), b)
  <1> DEFINE g == Retitled(b, cur, kept, x)
  <1>1. DOMAIN g = DOMAIN b
    BY DEF Retitled
  <1>2. g[cur] = TitleOf(b[cur], x)
    BY DEF Retitled, TitleOf
  <1>3. g[x] = [b[x] EXCEPT !.children = Append(b[x].children, cur)]
    BY DEF Retitled
  <1>4. g[current] = [b[current] EXCEPT !.children = kept]
    BY DEF Retitled
  <1>5. \A k \in DOMAIN b \ {cur, x, current} : g[k] = b[k]
    BY DEF Retitled
  <1> HIDE DEF g
  <1>6. g[cur].num = b[cur].num /\ g[cur].flag = b[cur].flag
    BY <1>2, TitleValues
  <1>7. g[x].num = b[x].num /\ g[x].flag = b[x].flag
    BY <1>3, RecordChildren
  <1>8. g[current].num = b[current].num /\ g[current].flag = b[current].flag
    BY <1>4, RecordChildren
  <1>9. SameValues(g, b)
    BY <1>1, <1>5, <1>6, <1>7, <1>8 DEF SameValues
  <1> QED BY <1>9 DEF g

LEMMA RetitledPlaced ==
    ASSUME NEW b, PlacedIn(b), \A k \in DOMAIN b : b[k] \in NodeRecords,
           NEW cur \in DOMAIN b, NEW x \in DOMAIN b, current \in DOMAIN b,
           cur \in Nat, cur # x, cur # current, x # current,
           NEW kept,
           \A i \in 1 .. Count(b, current) : b[current].children[i] # cur =>
               \E j \in 1 .. Len(kept) : kept[j] = b[current].children[i],
           NEW g, IsRetitled(g, b, cur, kept, x)
    PROVE  PlacedIn(g)
  <1> DEFINE s == b[x].children
             n == Len(s)
  <1>1. s \in Seq(Nat)
    BY DEF NodeRecords
  <1>2. /\ n \in Nat /\ Len(Append(s, cur)) = n + 1
        /\ Append(s, cur)[n + 1] = cur
        /\ \A j \in 1 .. n : Append(s, cur)[j] = s[j]
    BY <1>1
  <1>3. /\ DOMAIN g = DOMAIN b
        /\ g[cur].parent = x
        /\ \A k \in DOMAIN b \ {cur} : g[k].parent = b[k].parent
        /\ g[x].children = Append(s, cur)
        /\ g[current].children = kept
        /\ \A k \in DOMAIN b \ {x, current} : g[k].children = b[k].children
    BY DEF IsRetitled
  <1>4. Count(b, x) = n /\ b[x].children = s
    BY DEF Count
  <1> HIDE DEF n, s
  <1> SUFFICES ASSUME NEW k \in DOMAIN b \ {0}
               PROVE  /\ g[k].parent \in DOMAIN b
                      /\ \E i \in 1 .. Len(g[g[k].parent].children) :
                             g[g[k].parent].children[i] = k
    BY <1>3 DEF PlacedIn, Count
  <1>5. CASE k = cur
    <2>1. n + 1 \in 1 .. n + 1
      BY <1>2
    <2> QED BY <1>2, <1>3, <1>5, <2>1
  <1>6. CASE k # cur
    <2> DEFINE p == b[k].parent
    <2>1. p \in DOMAIN b /\ g[k].parent = p
      BY <1>3, <1>6 DEF PlacedIn
    <2>2. PICK i \in 1 .. Count(b, p) : b[p].children[i] = k
      BY DEF PlacedIn
    <2> HIDE DEF p
    <2>3. CASE p = current
      <3>1. PICK j \in 1 .. Len(kept) : kept[j] = k
        BY <1>6, <2>2, <2>3
      <3> QED BY <1>3, <2>1, <2>3, <3>1
    <2>4. CASE p = x
      <3>1. i \in 1 .. n /\ s[i] = k
        BY <1>4, <2>2, <2>4
      <3>2. i \in 1 .. n + 1 /\ Append(s, cur)[i] = k
        BY <1>2, <3>1
      <3> QED BY <1>2, <1>3, <2>1, <2>4, <3>2
    <2>5. CASE p \notin {x, current}
      BY <1>3, <2>1, <2>2, <2>5 DEF Count
    <2> QED BY <2>3, <2>4, <2>5
  <1> QED BY <1>5, <1>6

\* A title has below it what the paragraph had it was made of.
LEMMA TitleClosed ==
    ASSUME NEW g, NEW h, NEW k, Fits(h, Closed(h, k)), Count(h, k) \in Nat,
           h[k].type = "PARAGRAPH", g[k].type = "DEFINITION_TITLE",
           g[k].children = h[k].children,
           \A j \in 1 .. Count(h, k) : Kid(g, k, j).type = Kid(h, k, j).type
    PROVE  Fits(g, Closed(g, k))
  <1> DEFINE f == Closed(g, k)
  <1>1. f.node = k /\ f.todo = <<>>
    BY DEF Closed, Frame
  <1>2. KidsFit(h, k)
    BY DEF Fits, Closed, Frame
  <1> HIDE DEF f
  <1>3. Count(g, k) = Count(h, k)
    BY DEF Count
  <1>4. \A j \in 1 .. Count(h, k) : Kid(g, k, j).type \in SpanTypes
    BY <1>2 DEF KidsFit, MayHold, Containers, Lines
  <1>5. KidsFit(g, k)
    BY <1>3, <1>4 DEF KidsFit, MayHold
  <1>6. ListsApart(g, k)
    <2> SUFFICES ASSUME NEW j \in 1 .. Count(g, k) - 1
                 PROVE  Kid(g, k, j).type # "DEFINITION"
      BY DEF ListsApart
    <2>1. j \in 1 .. Count(h, k)
      BY <1>3
    <2> QED BY <1>4, <2>1 DEF SpanTypes
  <1>7. CallsFit(g, f)
    BY <1>1 DEF CallsFit
  <1>8. g[k].type \notin Ruled
    BY DEF Ruled
  <1>9. Fits(g, f)
    BY <1>1, <1>5, <1>6, <1>7, <1>8, PlainFits
  <1> QED BY <1>9 DEF f

\* What parse_definition leaves behind when it enters its loop, but for the
\* three nodes it changes.
LEMMA DefinitionTree ==
    ASSUME IInv, OpenFit, ClosedFit, stack # <<>>,
           NEW b, NEW cur, NEW kept, NEW x \in Nat, NEW e \in Frames, e.node = x,
           IsDefinitionOpen(b, cur, kept, x),
           DOMAIN b = DOMAIN tree \cup {x},
           SameValues(b, tree), SameValues(tree', b),
           Fits(tree', Top), Fits(tree', e), Fits(tree', Closed(tree', cur)),
           stack' = Append(stack, e)
    PROVE  OpenFit' /\ ClosedFit'
  <1> DEFINE n == Len(stack)
  <1>1. /\ n \in Nat \ {0} /\ Top = stack[n] /\ current = Top.node
        /\ stack \in Seq(Frames)
        /\ \A i \in 1 .. n : stack[i].node \in DOMAIN tree
    BY OpenNodes DEF IInv, TypeOK
  <1>2. /\ Len(stack') = n + 1 /\ stack'[n + 1] = e
        /\ \A i \in 1 .. n : stack'[i] = stack[i]
    BY <1>1, FrameAppended
  <1>3. /\ DOMAIN tree' = DOMAIN tree \cup {x}
        /\ \A k \in DOMAIN tree \ {cur} : tree'[k].type = tree[k].type
        /\ \A k \in DOMAIN tree \ {current, x} : tree'[k].children = tree[k].children
        /\ \A i \in 1 .. n : stack[i].node # x /\ stack[i].node # cur
        /\ tree[cur].parent = current
    BY DEF IsDefinitionOpen, IsRetitled
  <1>4. \A k \in DOMAIN tree : tree'[k].num = tree[k].num /\ tree'[k].flag = tree[k].flag
    BY DEF SameValues
  <1>5. \A k \in DOMAIN tree : \A j \in 1 .. Count(tree, k) :
            /\ tree[k].children[j] \in DOMAIN tree
            /\ tree[tree[k].children[j]].parent = k
    BY DEF IInv, ChildParents, Linked, Count
  <1>6. ASSUME NEW k \in DOMAIN tree \ {current, x, cur}
        PROVE  Alike(tree', tree, k)
    <2>1. \A j \in 1 .. Count(tree, k) :
              tree[k].children[j] \in DOMAIN tree /\ tree[k].children[j] # cur
      BY <1>3, <1>5
    <2> QED BY <1>3, <1>4, <2>1 DEF Alike, Kid
  <1>7. \A i \in 1 .. n - 1 : stack[i].node \in DOMAIN tree \ {current}
    BY BelowTop
  <1>8. \A i \in 1 .. n : Fits(tree, stack[i])
    BY DEF OpenFit
  <1>9. \A k \in DOMAIN tree : (\A i \in 1 .. n : stack[i].node # k)
                                   => Fits(tree, Closed(tree, k))
    BY DEF ClosedFit, IsOpen
  <1> HIDE DEF n
  <1>10. OpenFit'
    <2> SUFFICES ASSUME NEW i \in 1 .. n + 1
                 PROVE  Fits(tree', stack'[i])
      BY <1>2 DEF OpenFit
    <2>1. CASE i \in 1 .. n - 1
      <3>1. Fits(tree, stack[i]) /\ Alike(tree', tree, stack[i].node)
        BY <1>1, <1>3, <1>6, <1>7, <1>8, <2>1
      <3> QED BY <1>1, <1>2, <2>1, <3>1, AlikeFits
    <2> QED BY <1>1, <1>2, <2>1
  <1>11. ClosedFit'
    <2> SUFFICES ASSUME NEW k \in DOMAIN tree', \A i \in 1 .. n + 1 : stack'[i].node # k
                 PROVE  Fits(tree', Closed(tree', k))
      BY <1>2 DEF ClosedFit, IsOpen
    <2>1. k # x /\ k # current /\ k \in DOMAIN tree
      BY <1>1, <1>2, <1>3
    <2>2. CASE k # cur
      <3>1. Fits(tree, Closed(tree, k)) /\ Alike(tree', tree, k)
        BY <1>1, <1>2, <1>6, <1>9, <2>1, <2>2
      <3>2. Closed(tree', k) = Closed(tree, k) /\ Closed(tree, k).node = k
        BY <3>1 DEF Closed, Frame, Alike
      <3> QED BY <3>1, <3>2, AlikeFits
    <2> QED BY <2>2
  <1> QED BY <1>10, <1>11

\* Blocks are put into containers.
LEMMA BlocksInContainers ==
    ASSUME IInv, OpenFit, Doing("block")
    PROVE  CurType \in Containers /\ Fits(tree, Top)
  <1>1. /\ stack # <<>> /\ Top.todo # <<>> /\ Head(Top.todo) = "block"
        /\ Top = stack[Len(stack)] /\ current = Top.node /\ Len(stack) \in Nat \ {0}
        /\ Top \in Frames
    BY OpenNodes DEF Doing
  <1>2. Top.todo \in Seq(Calls)
    BY <1>1, Callers
  <1>3. 1 \in 1 .. Len(Top.todo) /\ Top.todo[1] = "block"
    BY <1>1, <1>2
  <1>4. Fits(tree, Top)
    BY <1>1 DEF OpenFit
  <1>5. MayDo(CurType, "block")
    BY <1>1, <1>3, <1>4 DEF Fits, CallsFit, CurType
  <1> QED BY <1>4, <1>5 DEF MayDo

\* The paragraph that becomes a title was finished, and is a child of no
\* other node.
LEMMA TitleFinished ==
    ASSUME IInv, ClosedFit, stack # <<>>, Siblings # <<>>,
           NEW cur, cur = Siblings[Len(Siblings)], tree[cur].type = "PARAGRAPH",
           NEW b, NEW kept, NEW x, IsDefinitionOpen(b, cur, kept, x)
    PROVE  Fits(tree', Closed(tree', cur))
  <1>1. /\ cur \in DOMAIN tree /\ cur # current /\ cur # x
        /\ \A k \in 1 .. Len(stack) : stack[k].node # cur
    BY LastSiblings
        DEF IsDefinitionOpen
  <1>2. Fits(tree, Closed(tree, cur))
    BY <1>1 DEF ClosedFit, IsOpen
  <1>3. /\ tree[cur].children \in Seq(Nat)
        /\ \A j \in 1 .. Count(tree, cur) :
               /\ tree[cur].children[j] \in DOMAIN tree
               /\ tree[tree[cur].children[j]].parent = cur
    BY <1>1 DEF IInv, TypeOK, NodeRecords, ChildParents, Linked, Count
  <1>4. /\ tree'[cur].type = "DEFINITION_TITLE"
        /\ tree'[cur].children = tree[cur].children
        /\ \A k \in DOMAIN tree \ {cur} : tree'[k].type = tree[k].type
        /\ tree[cur].parent = current
    BY <1>1 DEF IsDefinitionOpen, IsRetitled
  <1>5. \A j \in 1 .. Count(tree, cur) : Kid(tree', cur, j).type = Kid(tree, cur, j).type
    BY <1>1, <1>3, <1>4 DEF Kid
  <1>6. Count(tree, cur) \in Nat
    BY <1>3 DEF Count
  <1> QED BY <1>2, <1>4, <1>5, <1>6, TitleClosed

\* A container whose children after the step are those of before but the
\* last, and then, if anything, a list that is not behind a list.
LEMMA ContainerFits ==
    ASSUME NEW g, NEW h, NEW f, Fits(h, f), h[f.node].type \in Containers,
           g[f.node].type = h[f.node].type,
           NEW m \in Nat, m < Count(h, f.node), Count(h, f.node) \in Nat,
           Count(g, f.node) \in {m, m + 1},
           \A j \in 1 .. m : Kid(g, f.node, j).type = Kid(h, f.node, j).type,
           Count(g, f.node) = m + 1 =>
               /\ Kid(g, f.node, m + 1).type = "DEFINITION"
               /\ m > 0 => Kid(h, f.node, m).type # "DEFINITION"
    PROVE  Fits(g, f)
  <1> DEFINE k == f.node
             c == Count(g, k)
  <1>1. /\ \A j \in 1 .. Count(h, k) : MayHold(h[k].type, Kid(h, k, j).type)
        /\ \A j \in 1 .. Count(h, k) - 1 :
               Kid(h, k, j).type = "DEFINITION" => Kid(h, k, j + 1).type # "DEFINITION"
    BY DEF Fits, KidsFit, ListsApart
  <1>2. MayHold(g[k].type, "DEFINITION")
    BY DEF MayHold, PlainBlocks
  <1>3. c \in {m, m + 1}
    OBVIOUS
  <1>4. ASSUME NEW j \in 1 .. c
        PROVE  MayHold(g[k].type, Kid(g, k, j).type)
    <2>1. CASE j \in 1 .. m
      <3>1. j \in 1 .. Count(h, k)
        BY <2>1
      <3> QED BY <1>1, <2>1, <3>1
    <2>2. CASE j = m + 1
      BY <1>2, <1>3, <1>4, <2>2
    <2> QED BY <1>3, <2>1, <2>2
  <1>5. ASSUME NEW j \in 1 .. c - 1, Kid(g, k, j).type = "DEFINITION"
        PROVE  Kid(g, k, j + 1).type # "DEFINITION"
    <2>1. j \in 1 .. m /\ j \in 1 .. Count(h, k) - 1
      BY <1>3
    <2>2. CASE j + 1 \in 1 .. m
      BY <1>1, <1>5, <2>1, <2>2
    <2>3. CASE j + 1 = m + 1
      <3>1. c = m + 1 /\ j = m /\ m > 0
        BY <1>3, <2>1, <2>3
      <3> QED BY <1>5, <2>1, <3>1
    <2> QED BY <2>1, <2>2, <2>3
  <1>6. KidsFit(g, k) /\ ListsApart(g, k)
    BY <1>4, <1>5 DEF KidsFit, ListsApart
  <1>7. CallsFit(g, f)
    BY DEF Fits, CallsFit
  <1>8. g[k].type \notin Ruled
    BY DEF Containers, Ruled
  <1> QED BY <1>6, <1>7, <1>8, PlainFits

LEMMA NewDefinitionTree ==
    ASSUME IInv, TInv, NewDefinition
    PROVE  TInv'
  <1> DEFINE m == Len(Siblings)
  <1>1. /\ stack # <<>> /\ Siblings # <<>> /\ Doing("block")
        /\ tree[Siblings[m]].type = "PARAGRAPH"
        /\ m > 1 => tree[Siblings[m - 1]].type # "DEFINITION"
        /\ UNCHANGED docVars
    BY DEF NewDefinition, Doing, IsTitled, IsContinued
  <1>2. PICK cur, kept, b :
            /\ cur = Siblings[m]
            /\ b = Grown("DEFINITION", 0, tree[cur].flag)
            /\ kept \in Seq(Nat) /\ Len(kept) = m
            /\ kept[m] = nodes
            /\ \A i \in 1 .. m - 1 : kept[i] = Siblings[i]
            /\ tree' = Retitled(b, cur, kept, nodes)
            /\ stack' = Append(stack, Frame(nodes, <<"datum", "data">>, tree[cur].flag))
            /\ tree[cur].flag \in BOOLEAN
            /\ IsGrown(b, "DEFINITION")
            /\ IsDefinitionOpen(b, cur, kept, nodes)
    BY NewDefinitionOpens
  <1>3. /\ Siblings \in Seq(Nat) /\ m \in Nat \ {0}
        /\ \A i \in 1 .. m :
               /\ Siblings[i] \in DOMAIN tree /\ Siblings[i] \in Nat
               /\ tree[Siblings[i]].parent = current
               /\ Siblings[i] # current
        /\ \A i, j \in 1 .. m : Siblings[i] = Siblings[j] => i = j
    BY <1>1, LastSiblings
  <1>4. /\ current \in DOMAIN tree /\ current = Top.node /\ TypeOK /\ nodes \in Nat
        /\ \A i \in 1 .. Len(stack) : stack[i].node \in DOMAIN tree
        /\ Len(stack) \in Nat
    BY <1>1, OpenNodes DEF IInv, TypeOK
  <1>5. Siblings = tree[current].children
    BY DEF Siblings
  <1> HIDE DEF m
  <1>6. /\ SameValues(b, tree)
        /\ b[nodes].num = 0 /\ b[nodes].flag = tree[cur].flag
    <2>1. "DEFINITION" \in Types /\ 0 \in Nat
      BY DEF Types, BlockTypes
    <2> QED BY <1>2, <1>4, <2>1, GrownValues
  <1>7. /\ DOMAIN b = DOMAIN tree \cup {nodes} /\ nodes \notin DOMAIN tree
        /\ \A k \in DOMAIN b : b[k] \in NodeRecords
        /\ b[nodes].type = "DEFINITION" /\ b[nodes].children = <<>>
        /\ b[current].children = Append(tree[current].children, nodes)
        /\ \A k \in DOMAIN tree : b[k].type = tree[k].type
    BY <1>2 DEF IsGrown
  <1>8. /\ IsRetitled(tree', b, cur, kept, nodes)
        /\ cur \in DOMAIN b /\ nodes \in DOMAIN b /\ current \in DOMAIN b
        /\ cur \in Nat /\ cur # nodes /\ cur # current /\ current # nodes
    <2>1. /\ IsRetitled(tree', b, cur, kept, nodes)
          /\ cur \in DOMAIN tree /\ cur # nodes /\ cur # current
      BY <1>2 DEF IsDefinitionOpen
    <2>2. cur \in Nat
      BY <1>2, <1>3
    <2> QED BY <1>4, <1>7, <2>1, <2>2
  <1>9. SameValues(tree', b)
    BY <1>2, <1>7, <1>8, RetitledValues
  <1>10. /\ DOMAIN tree' = DOMAIN b
         /\ tree'[cur].type = "DEFINITION_TITLE"
         /\ \A k \in DOMAIN b \ {cur} : tree'[k].type = b[k].type
         /\ tree'[nodes].children = Append(<<>>, cur)
         /\ tree'[current].children = kept
    BY <1>7, <1>8 DEF IsRetitled
  <1>11. \A k \in DOMAIN tree : tree'[k].num = tree[k].num /\ tree'[k].flag = tree[k].flag
    BY <1>6, <1>9 DEF SameValues
  <1>12. tree'[nodes].num = 0 /\ tree'[nodes].flag = tree[cur].flag
    BY <1>6, <1>8, <1>9 DEF SameValues
  <1>13. /\ m \in Nat \ {0} /\ Len(kept) = m /\ kept[m] = nodes
         /\ \A i \in 1 .. m - 1 :
                /\ kept[i] = Siblings[i] /\ Siblings[i] \in DOMAIN tree
                /\ Siblings[i] # cur
         /\ cur \in DOMAIN tree /\ cur = Siblings[m]
         /\ tree[cur].type = "PARAGRAPH"
    BY <1>1, <1>2, <1>3, SMTT(30)
  <1>14. \A k \in DOMAIN tree \ {cur} : tree'[k].type = tree[k].type
    BY <1>7, <1>10
  <1> DEFINE e == Frame(nodes, <<"datum", "data">>, tree[cur].flag)
  <1>15. /\ e \in Frames /\ e.node = nodes /\ e.todo = <<"datum", "data">>
         /\ e.flag = tree[cur].flag
    <2>1. <<"datum", "data">> \in Seq(Calls)
      BY DEF Calls
    <2>2. e.flag = tree[cur].flag
      BY DEF Frame
    <2> QED BY <1>2, <1>4, <2>1, <2>2, NewFrame, ZenonT(40)
  <1>16. stack' = Append(stack, e)
    BY <1>2
  <1> HIDE DEF e
  <1>17. Fits(tree', e)
    <2>1. /\ Count(tree', nodes) = 1 /\ Kid(tree', nodes, 1) = tree'[cur]
          /\ tree'[nodes].type = "DEFINITION"
      BY <1>7, <1>8, <1>10 DEF Count, Kid
    <2>2. tree'[cur].flag = tree[cur].flag
      BY <1>2, <1>3, <1>11
    <2>3. CallsFit(tree', e)
      BY <1>15, <2>1 DEF CallsFit, MayDo
    <2>4. KidsFit(tree', nodes) /\ ListsApart(tree', nodes)
      BY <1>10, <2>1 DEF KidsFit, ListsApart, MayHold
    <2>5. TableFits(tree', e)
      BY <1>15, <2>1 DEF TableFits
    <2>6. DefinitionFits(tree', e)
      BY <1>10, <1>15, <2>1 DEF DefinitionFits
    <2>7. FlagFits(tree', e)
      BY <1>12, <1>15, <2>1, <2>2 DEF FlagFits
    <2> QED BY <1>15, <2>3, <2>4, <2>5, <2>6, <2>7 DEF Fits
  <1>18. Fits(tree', Top)
    <2>1. CurType \in Containers /\ Fits(tree, Top)
      BY <1>1, BlocksInContainers DEF TInv
    <2>2. Count(tree, current) = m /\ Count(tree', current) = (m - 1) + 1
      <3>1. Count(tree, current) = m
        BY <1>5 DEF Count, m
      <3>2. Count(tree', current) = m
        BY <1>10, <1>13 DEF Count
      <3> QED BY <1>13, <3>1, <3>2
    <2>4. \A j \in 1 .. m - 1 : Kid(tree', current, j).type = Kid(tree, current, j).type
      BY <1>5, <1>10, <1>13, <1>14 DEF Kid
    <2>5. Kid(tree', current, (m - 1) + 1).type = "DEFINITION"
      <3>1. (m - 1) + 1 = m
        BY <1>13
      <3>2. tree'[nodes].type = "DEFINITION"
        BY <1>7, <1>8, <1>10
      <3> QED BY <1>10, <1>13, <3>1, <3>2 DEF Kid
    <2>6. m - 1 > 0 => Kid(tree, current, m - 1).type # "DEFINITION"
      BY <1>1, <1>3, <1>5 DEF Kid, m
    <2>7. tree'[current].type = tree[current].type
      BY <1>4, <1>7, <1>8, <1>10
    <2>8. m - 1 \in Nat /\ m - 1 < m /\ m \in Nat
      BY <1>3
    <2> QED BY <1>4, <2>1, <2>2, <2>4, <2>5, <2>6, <2>7, <2>8, ContainerFits DEF CurType
  <1>19. Fits(tree', Closed(tree', cur))
    BY <1>1, <1>2, TitleFinished DEF TInv, m
  <1>20. OpenFit' /\ ClosedFit'
    BY <1>1, <1>2, <1>4, <1>6, <1>7, <1>9, <1>15, <1>16, <1>17, <1>18, <1>19, DefinitionTree
        DEF TInv
  <1>21. Placed'
    <2>1. PlacedIn(b)
      BY <1>1, <1>2, GrownPlaced DEF TInv
    <2>2. ASSUME NEW i \in 1 .. Count(b, current), b[current].children[i] # cur
          PROVE  \E j \in 1 .. Len(kept) : kept[j] = b[current].children[i]
      <3>1. /\ Count(b, current) = m + 1
            /\ b[current].children[m + 1] = nodes
            /\ \A j \in 1 .. m : b[current].children[j] = Siblings[j]
        BY <1>3, <1>4, <1>5, <1>7 DEF Count, m
      <3>2. CASE i = m + 1
        BY <1>13, <3>1, <3>2
      <3>3. CASE i \in 1 .. m
        <4>1. b[current].children[i] = Siblings[i] /\ i # m
          BY <1>13, <2>2, <3>1, <3>3
        <4>2. i \in 1 .. m - 1
          BY <1>13, <3>3, <4>1
        <4>3. i \in 1 .. Len(kept) /\ kept[i] = b[current].children[i]
          BY <1>13, <4>1, <4>2
        <4> QED BY <4>3
      <3> QED BY <1>3, <3>1, <3>2, <3>3
    <2> QED BY <1>7, <1>8, <2>1, <2>2, RetitledPlaced DEF Placed
  <1>22. LinkOpen'
    <2> SUFFICES ASSUME status = "parsing", in_link_body = 1
                 PROVE  \E i \in 1 .. Len(stack') :
                            tree'[stack'[i].node].type = "LINK" /\ stack'[i].todo # <<>>
      BY <1>1 DEF LinkOpen, docVars
    <2>1. PICK i \in 1 .. Len(stack) : tree[stack[i].node].type = "LINK" /\ stack[i].todo # <<>>
      BY DEF TInv, LinkOpen
    <2>2. Len(stack') = Len(stack) + 1 /\ stack'[i] = stack[i]
      BY <1>1, <1>15, <1>16, FrameAppended DEF IInv, TypeOK
    <2>3. tree'[stack[i].node].type = "LINK"
      <3>1. stack[i].node \in DOMAIN tree /\ stack[i].node # cur
        BY <1>4, <1>13, <2>1
      <3> QED BY <1>14, <2>1, <3>1
    <2> QED BY <1>4, <2>1, <2>2, <2>3
  <1> QED BY <1>20, <1>21, <1>22 DEF TInv

LEMMA MergeDefinitionTree ==
    ASSUME IInv, TInv, MergeDefinition
    PROVE  TInv'
  <1> DEFINE m == Len(Siblings)
  <1>1. /\ stack # <<>> /\ Siblings # <<>> /\ Doing("block") /\ m > 1
        /\ tree[Siblings[m]].type = "PARAGRAPH"
        /\ tree[Siblings[m - 1]].type = "DEFINITION"
        /\ UNCHANGED docVars
    BY DEF MergeDefinition, Doing, IsTitled, IsContinued
  <1>2. PICK cur, prev, kept, flag :
            /\ cur = Siblings[m]
            /\ prev = Siblings[m - 1]
            /\ flag = (tree[cur].flag \/ tree[prev].flag)
            /\ kept \in Seq(Nat) /\ Len(kept) = m - 1
            /\ \A i \in 1 .. m - 1 : kept[i] = Siblings[i]
            /\ tree' = Retitled(tree, cur, kept, prev)
            /\ stack' = Append(stack, Frame(prev, <<"datum", "data">>, flag))
            /\ current' = prev /\ prev \in Nat
            /\ flag \in BOOLEAN
            /\ IsDefinitionOpen(tree, cur, kept, prev)
    BY MergeDefinitionOpens
  <1>3. /\ Siblings \in Seq(Nat) /\ m \in Nat \ {0}
        /\ \A i \in 1 .. m :
               /\ Siblings[i] \in DOMAIN tree /\ Siblings[i] \in Nat
               /\ tree[Siblings[i]].parent = current
               /\ Siblings[i] # current
               /\ \A k \in 1 .. Len(stack) : stack[k].node # Siblings[i]
        /\ \A i, j \in 1 .. m : Siblings[i] = Siblings[j] => i = j
    BY <1>1, LastSiblings
  <1>4. /\ current \in DOMAIN tree /\ current = Top.node
        /\ \A i \in 1 .. Len(stack) : stack[i].node \in DOMAIN tree
        /\ Len(stack) \in Nat
        /\ \A k \in DOMAIN tree : tree[k] \in NodeRecords
    BY <1>1, OpenNodes DEF IInv, TypeOK
  <1>5. Siblings = tree[current].children
    BY DEF Siblings
  <1> HIDE DEF m
  <1>6. /\ m - 1 \in 1 .. m /\ m \in 1 .. m /\ m \in Nat \ {0}
        /\ Len(kept) = m - 1
        /\ \A i \in 1 .. m - 1 :
               /\ kept[i] = Siblings[i] /\ Siblings[i] \in DOMAIN tree
               /\ Siblings[i] # cur
        /\ cur \in DOMAIN tree /\ cur \in Nat /\ cur = Siblings[m] /\ cur # current
        /\ prev \in DOMAIN tree /\ prev \in Nat /\ prev # cur /\ prev # current
        /\ tree[cur].type = "PARAGRAPH" /\ tree[prev].type = "DEFINITION"
        /\ \A k \in 1 .. Len(stack) : stack[k].node # prev
    BY <1>1, <1>2, <1>3, SMTT(30)
  <1>7. IsRetitled(tree', tree, cur, kept, prev)
    BY <1>2 DEF IsDefinitionOpen
  <1>8. SameValues(tree', tree)
    BY <1>2, <1>4, <1>6, RetitledValues
  <1>9. /\ DOMAIN tree' = DOMAIN tree
        /\ tree'[cur].type = "DEFINITION_TITLE"
        /\ \A k \in DOMAIN tree \ {cur} : tree'[k].type = tree[k].type
        /\ tree'[prev].children = Append(tree[prev].children, cur)
        /\ tree'[current].children = kept
    BY <1>7 DEF IsRetitled
  <1>10. \A k \in DOMAIN tree : tree'[k].num = tree[k].num /\ tree'[k].flag = tree[k].flag
    BY <1>8 DEF SameValues
  <1> DEFINE e == Frame(prev, <<"datum", "data">>, flag)
  <1>11. /\ e \in Frames /\ e.node = prev /\ e.todo = <<"datum", "data">> /\ e.flag = flag
    <2>1. <<"datum", "data">> \in Seq(Calls)
      BY DEF Calls
    <2>2. e.flag = flag
      BY DEF Frame
    <2> QED BY <1>2, <1>6, <2>1, <2>2, NewFrame, ZenonT(40)
  <1>12. stack' = Append(stack, e)
    BY <1>2
  <1> HIDE DEF e
  <1>13. Fits(tree', e)
    <2> DEFINE s == tree[prev].children
               n == Len(s)
    <2>1. s \in Seq(Nat)
      BY <1>4, <1>6 DEF NodeRecords
    <2>2. /\ n \in Nat /\ Len(Append(s, cur)) = n + 1
          /\ Append(s, cur)[n + 1] = cur
          /\ \A j \in 1 .. n : Append(s, cur)[j] = s[j]
      BY <1>6, <2>1
    <2>3. \A j \in 1 .. n : s[j] \in DOMAIN tree /\ s[j] # cur
      <3>1. \A j \in 1 .. n : s[j] \in DOMAIN tree /\ tree[s[j]].parent = prev
        BY <1>6 DEF IInv, ChildParents, Linked
      <3>2. tree[cur].parent = current
        BY <1>3, <1>6
      <3> QED BY <1>6, <3>1, <3>2
    <2>4. Count(tree, prev) = n /\ \A j : Kid(tree, prev, j) = tree[s[j]]
      BY DEF Count, Kid
    <2>5. tree'[prev].children = Append(s, cur)
      BY <1>9
    <2> HIDE DEF n, s
    <2>6. /\ Count(tree', prev) = n + 1
          /\ Kid(tree', prev, n + 1) = tree'[cur]
          /\ \A j \in 1 .. n : Kid(tree', prev, j) = tree'[s[j]]
      BY <2>2, <2>5 DEF Count, Kid
    <2>7. IsExtended(tree', tree, prev, "DEFINITION_TITLE", tree[cur].num, tree[cur].flag)
      BY <1>6, <1>9, <1>10, <2>2, <2>3, <2>4, <2>6 DEF IsExtended
    <2> DEFINE d == Closed(tree, prev)
    <2>8. Fits(tree, d)
      BY <1>6 DEF TInv, ClosedFit, IsOpen
    <2>9. d.node = prev /\ d.todo = <<>> /\ d.flag = tree[prev].flag
      BY DEF Closed, Frame
    <2> HIDE DEF d
    <2>10. e.flag <=> (d.flag \/ tree[cur].flag)
      BY <1>2, <1>11, <2>9
    <2>11. /\ d.node = e.node /\ d.todo = <<>> /\ e.todo = <<"datum", "data">>
           /\ tree[e.node].type = "DEFINITION"
      BY <1>6, <1>11, <2>9
    <2>12. IsExtended(tree', tree, e.node, "DEFINITION_TITLE", tree[cur].num, tree[cur].flag)
      BY <1>11, <2>7
    <2> QED BY <2>8, <2>10, <2>11, <2>12, TitleFits
  <1>14. Fits(tree', Top)
    <2>1. CurType \in Containers /\ Fits(tree, Top)
      BY <1>1, BlocksInContainers DEF TInv
    <2>2. Count(tree, current) = m
      BY <1>5 DEF Count, m
    <2>3. Count(tree', current) = m - 1
      BY <1>6, <1>9 DEF Count
    <2>4. \A j \in 1 .. m - 1 : Kid(tree', current, j).type = Kid(tree, current, j).type
      BY <1>5, <1>6, <1>9 DEF Kid
    <2>5. tree'[current].type = tree[current].type
      BY <1>4, <1>6, <1>9
    <2>6. m - 1 \in Nat /\ m - 1 < m /\ m \in Nat /\ m - 1 # (m - 1) + 1
      BY <1>6
    <2> QED BY <1>4, <2>1, <2>2, <2>3, <2>4, <2>5, <2>6, ContainerFits DEF CurType
  <1>15. Fits(tree', Closed(tree', cur))
    BY <1>1, <1>2, <1>6, TitleFinished DEF TInv, m
  <1>16. OpenFit' /\ ClosedFit'
    <2>1. DOMAIN tree = DOMAIN tree \cup {prev} /\ SameValues(tree, tree)
      BY <1>6 DEF SameValues
    <2> QED BY <1>1, <1>2, <1>6, <1>8, <1>11, <1>12, <1>13, <1>14, <1>15, <2>1, DefinitionTree
            DEF TInv
  <1>17. Placed'
    <2>1. ASSUME NEW i \in 1 .. Count(tree, current), tree[current].children[i] # cur
          PROVE  \E j \in 1 .. Len(kept) : kept[j] = tree[current].children[i]
      <3>1. i \in 1 .. m /\ tree[current].children[i] = Siblings[i]
        BY <1>5 DEF Count, m
      <3>2. i \in 1 .. m - 1
        BY <1>6, <2>1, <3>1
      <3>3. i \in 1 .. Len(kept) /\ kept[i] = tree[current].children[i]
        BY <1>6, <3>1, <3>2
      <3> QED BY <3>3
    <2> QED BY <1>4, <1>6, <1>7, <2>1, RetitledPlaced DEF TInv, Placed
  <1>18. LinkOpen'
    <2> SUFFICES ASSUME status = "parsing", in_link_body = 1
                 PROVE  \E i \in 1 .. Len(stack') :
                            tree'[stack'[i].node].type = "LINK" /\ stack'[i].todo # <<>>
      BY <1>1 DEF LinkOpen, docVars
    <2>1. PICK i \in 1 .. Len(stack) : tree[stack[i].node].type = "LINK" /\ stack[i].todo # <<>>
      BY DEF TInv, LinkOpen
    <2>2. Len(stack') = Len(stack) + 1 /\ stack'[i] = stack[i]
      BY <1>1, <1>11, <1>12, FrameAppended DEF IInv, TypeOK
    <2>3. tree'[stack[i].node].type = "LINK"
      <3>1. stack[i].node \in DOMAIN tree /\ stack[i].node # cur
        BY <1>4, <1>6, <2>1
      <3> QED BY <1>9, <2>1, <3>1
    <2> QED BY <1>4, <2>1, <2>2, <2>3
  <1> QED BY <1>16, <1>17, <1>18 DEF TInv


-----------------------------------------------------------------------------
(* What a step may never do to a node *)

\* Node k keeps its number, its parent and its type, or is the paragraph that
\* becomes the title of the definition list opened by this step.
NodeStays(k) ==
    /\ k \in DOMAIN tree' /\ tree'[k].num = tree[k].num
    /\ \/ tree'[k].parent = tree[k].parent /\ tree'[k].type = tree[k].type
       \/ /\ tree[k].type = "PARAGRAPH" /\ tree[k].num = 1
          /\ tree'[k].type = "DEFINITION_TITLE"
          /\ tree'[k].parent = current' /\ tree'[current'].type = "DEFINITION"

NodesStay == \A k \in DOMAIN tree : NodeStays(k)

LEMMA GrownStays ==
    ASSUME IInv, NEW t, NEW num, NEW flag, tree' = Grown(t, num, flag)
    PROVE  NodesStay
  <1>1. nodes \notin DOMAIN tree /\ \A k \in DOMAIN tree : tree[k] \in NodeRecords
    BY DEF IInv, TypeOK
  <1> SUFFICES ASSUME NEW k \in DOMAIN tree
               PROVE  NodeStays(k)
    BY DEF NodesStay
  <1>2. DOMAIN tree' = DOMAIN tree \cup {nodes}
    BY DEF Grown
  <1>3. CASE k = current
    <2> DEFINE r == tree[k]
               s == Append(tree[k].children, nodes)
    <2>1. r \in NodeRecords
      BY <1>1
    <2>2. tree'[k] = [r EXCEPT !.children = s]
      BY <1>1, <1>3 DEF Grown
    <2> HIDE DEF s
    <2>3. /\ [r EXCEPT !.children = s].num = r.num
          /\ [r EXCEPT !.children = s].parent = r.parent
          /\ [r EXCEPT !.children = s].type = r.type
      BY <2>1 DEF NodeRecords
    <2> QED BY <1>2, <2>2, <2>3 DEF NodeStays
  <1>4. CASE k # current
    BY <1>1, <1>2, <1>4 DEF Grown, NodeStays
  <1> QED BY <1>3, <1>4

LEMMA SameStays ==
    ASSUME tree' = tree
    PROVE  NodesStay
  BY DEF NodesStay, NodeStays

LEMMA NewDefinitionStays ==
    ASSUME IInv, NewDefinition
    PROVE  NodesStay
  <1>1. /\ stack # <<>> /\ Siblings # <<>> /\ current' = nodes
        /\ tree[Siblings[Len(Siblings)]].type = "PARAGRAPH"
        /\ tree[Siblings[Len(Siblings)]].num = 1
    BY DEF NewDefinition, Doing, IsTitled
  <1>2. PICK cur, kept, b :
            /\ cur = Siblings[Len(Siblings)]
            /\ b = Grown("DEFINITION", 0, tree[cur].flag)
            /\ tree' = Retitled(b, cur, kept, nodes)
            /\ tree[cur].flag \in BOOLEAN
            /\ IsGrown(b, "DEFINITION")
            /\ IsDefinitionOpen(b, cur, kept, nodes)
    BY NewDefinitionOpens
  <1>3. TypeOK /\ current \in DOMAIN tree
    BY <1>1, OpenNodes DEF IInv
  <1>4. SameValues(b, tree)
    <2>1. "DEFINITION" \in Types /\ 0 \in Nat
      BY DEF Types, BlockTypes
    <2> QED BY <1>2, <1>3, <2>1, GrownValues
  <1>5. /\ DOMAIN b = DOMAIN tree \cup {nodes} /\ nodes \notin DOMAIN tree
        /\ \A k \in DOMAIN b : b[k] \in NodeRecords
        /\ b[nodes].type = "DEFINITION"
        /\ \A k \in DOMAIN tree : b[k].type = tree[k].type /\ b[k].parent = tree[k].parent
    BY <1>2 DEF IsGrown
  <1>6. /\ IsRetitled(tree', b, cur, kept, nodes)
        /\ cur \in DOMAIN tree /\ cur # nodes /\ cur # current /\ current # nodes
    BY <1>2, <1>3, <1>5 DEF IsDefinitionOpen
  <1>7. SameValues(tree', b)
    <2>1. cur \in DOMAIN b /\ nodes \in DOMAIN b /\ current \in DOMAIN b
      BY <1>3, <1>5, <1>6
    <2> QED BY <1>2, <1>5, <1>6, <2>1, RetitledValues
  <1>8. /\ DOMAIN tree' = DOMAIN b
        /\ tree'[cur].type = "DEFINITION_TITLE" /\ tree'[cur].parent = nodes
        /\ \A k \in DOMAIN b \ {cur} : tree'[k].type = b[k].type /\ tree'[k].parent = b[k].parent
    BY <1>6 DEF IsRetitled
  <1>9. ASSUME NEW k \in DOMAIN tree
        PROVE  NodeStays(k)
    <2>1. k \in DOMAIN tree' /\ tree'[k].num = tree[k].num
      BY <1>4, <1>5, <1>7, <1>8 DEF SameValues
    <2>2. CASE k = cur
      <3>1. tree[k].type = "PARAGRAPH" /\ tree[k].num = 1
        BY <1>1, <1>2, <2>2
      <3>2. tree'[k].parent = current' /\ tree'[current'].type = "DEFINITION"
        BY <1>1, <1>5, <1>6, <1>8, <2>2
      <3> QED BY <1>8, <2>1, <2>2, <3>1, <3>2 DEF NodeStays
    <2>3. CASE k # cur
      BY <1>5, <1>8, <2>1, <2>3 DEF NodeStays
    <2> QED BY <2>2, <2>3
  <1> QED BY <1>9 DEF NodesStay

LEMMA MergeDefinitionStays ==
    ASSUME IInv, MergeDefinition
    PROVE  NodesStay
  <1> DEFINE m == Len(Siblings)
  <1>1. /\ stack # <<>> /\ Siblings # <<>> /\ m > 1
        /\ tree[Siblings[m]].type = "PARAGRAPH" /\ tree[Siblings[m]].num = 1
        /\ tree[Siblings[m - 1]].type = "DEFINITION"
    BY DEF MergeDefinition, Doing, IsTitled, IsContinued
  <1>2. PICK cur, prev, kept, flag :
            /\ cur = Siblings[m]
            /\ prev = Siblings[m - 1]
            /\ tree' = Retitled(tree, cur, kept, prev)
            /\ current' = prev
            /\ IsDefinitionOpen(tree, cur, kept, prev)
    BY MergeDefinitionOpens
  <1>3. /\ current \in DOMAIN tree
        /\ \A k \in DOMAIN tree : tree[k] \in NodeRecords
    BY <1>1, OpenNodes DEF IInv, TypeOK
  <1>4. /\ m \in Nat \ {0}
        /\ \A i \in 1 .. m : Siblings[i] \in DOMAIN tree /\ Siblings[i] # current
    BY <1>1, LastSiblings
  <1> HIDE DEF m
  <1>5. m - 1 \in 1 .. m /\ m \in 1 .. m
    BY <1>1, <1>4
  <1>6. /\ cur \in DOMAIN tree /\ prev \in DOMAIN tree
        /\ cur # prev /\ cur # current /\ prev # current
        /\ tree[cur].type = "PARAGRAPH" /\ tree[cur].num = 1
        /\ tree[prev].type = "DEFINITION"
    BY <1>1, <1>2, <1>4, <1>5
  <1>7. SameValues(tree', tree)
    BY <1>2, <1>3, <1>6, RetitledValues
  <1>8. /\ DOMAIN tree' = DOMAIN tree
        /\ tree'[cur].type = "DEFINITION_TITLE" /\ tree'[cur].parent = prev
        /\ \A k \in DOMAIN tree \ {cur} :
               tree'[k].type = tree[k].type /\ tree'[k].parent = tree[k].parent
    BY <1>2 DEF IsDefinitionOpen, IsRetitled
  <1>9. ASSUME NEW k \in DOMAIN tree
        PROVE  NodeStays(k)
    <2>1. k \in DOMAIN tree' /\ tree'[k].num = tree[k].num
      BY <1>7, <1>8 DEF SameValues
    <2>2. CASE k = cur
      BY <1>2, <1>6, <1>8, <2>1, <2>2 DEF NodeStays
    <2>3. CASE k # cur
      BY <1>8, <2>1, <2>3 DEF NodeStays
    <2> QED BY <2>2, <2>3
  <1> QED BY <1>9 DEF NodesStay

\* While a parse runs, it loses no node and changes none but a title.
LEMMA StepStays ==
    ASSUME IInv, ParseStep, ~Fail
    PROVE  NodesStay
  <1>1. CASE DocHeader \/ DocFooter \/ FootnotesBlock \/ FootnoteDef
    BY <1>1, GrownStays, SameStays
       DEF DocHeader, DocFooter, FootnotesBlock, FootnoteDef, PushNode, PushLeaf
  <1>2. CASE LeafBlock \/ ParseBlockquote \/ ParseParagraph \/ ParseHeader \/ ParseList \/ ListItem
    BY <1>2, GrownStays
       DEF LeafBlock, ParseBlockquote, ParseParagraph, ParseHeader, ParseList, ListItem,
           PushNode, PushLeaf
  <1>3. CASE DefinitionData \/ EmptyData \/ DataItem
    BY <1>3, GrownStays DEF DefinitionData, EmptyData, DataItem, PushNode, PushLeaf
  <1>4. CASE ParseTable \/ TablePart \/ TableRow \/ TableCell \/ FillCell
    BY <1>4, GrownStays
       DEF ParseTable, TablePart, TableRow, TableCell, FillCell, PushNode, PushLeaf
  <1>5. CASE InlineStep
    BY <1>5, GrownStays
       DEF InlineStep, LeafSpan, ParseSpan, AngleAutolink, BareAutolink, CharLink, FootnoteRef,
           PushNode, PushLeaf
  <1>6. CASE EndLoop \/ EndLinkBody \/ Finish
    BY <1>6, SameStays DEF EndLoop, EndLinkBody, Finish
  <1>7. CASE Return
    BY <1>7, ReturnedTree DEF NodesStay, NodeStays
  <1> QED BY <1>1, <1>2, <1>3, <1>4, <1>5, <1>6, <1>7, NewDefinitionStays, MergeDefinitionStays
          DEF ParseStep, BlockStep

\* The bottom of the open path is the root.
RootOpen == stack # <<>> => tree[0].type = "ROOT"

-----------------------------------------------------------------------------
(* The actions and the tree *)

\* What the calls of the innermost function say about its node.
LEMMA OnTop ==
    ASSUME IInv, OpenFit, NEW c, Doing(c)
    PROVE  /\ stack # <<>> /\ Top \in Frames /\ current = Top.node
           /\ Top.todo \in Seq(Calls) /\ Top.todo # <<>> /\ Head(Top.todo) = c
           /\ Top.i \in Nat /\ Top.flag \in BOOLEAN /\ tree[current].num \in Nat
           /\ Fits(tree, Top) /\ MayDo(CurType, c)
           /\ CallsFit(tree, Top) /\ CallsFit(tree, Rest)
           /\ Rest \in Frames /\ Rest.node = Top.node /\ Rest.todo = Tail(Top.todo)
           /\ Rest.i = Top.i /\ Rest.flag = Top.flag
  <1>1. /\ stack # <<>> /\ Top.todo # <<>> /\ Head(Top.todo) = c
        /\ Top = stack[Len(stack)] /\ current = Top.node /\ Len(stack) \in Nat \ {0}
        /\ Top \in Frames
    BY OpenNodes DEF Doing
  <1>2. Top.todo \in Seq(Calls) /\ Top.i \in Nat /\ Top.flag \in BOOLEAN
    BY <1>1, Callers
  <1>3. 1 \in 1 .. Len(Top.todo) /\ Top.todo[1] = c /\ Tail(Top.todo) \in Seq(Calls)
    BY <1>1, <1>2
  <1>4. Fits(tree, Top) /\ CallsFit(tree, Top)
    BY <1>1 DEF OpenFit, Fits
  <1>5. MayDo(CurType, c)
    BY <1>1, <1>3, <1>4 DEF CallsFit, CurType
  <1>6. Rest \in Frames /\ Rest.node = Top.node /\ Rest.todo = Tail(Top.todo)
    BY <1>1, <1>3, Callers DEF Rest
  <1>7. Rest.i = Top.i /\ Rest.flag = Top.flag
    BY <1>1 DEF Rest, Frames
  <1>8. CallsFit(tree, Rest)
    BY <1>1, <1>2, <1>4, <1>6, CallsLeft
  <1>9. tree[current].num \in Nat
    BY Doings
  <1> QED BY <1>1, <1>2, <1>4, <1>5, <1>6, <1>7, <1>8, <1>9

\* A function that holds no link goes on in any way.
LEMMA MayResume ==
    ASSUME NEW f \in Frames, f.node = Top.node,
           CurType # "LINK" \/ f.todo = Top.todo
    PROVE  Resumes(f)
  BY DEF Resumes

\* A child that is no definition list, in a node without rules of its own.
LEMMA PlainTree ==
    ASSUME IInv, TInv, NEW c, Doing(c),
           CurType \notin Ruled,
           NEW t \in Types, MayHold(CurType, t), t # "DEFINITION",
           NEW num \in Nat, NEW flag \in BOOLEAN,
           NEW caller, Resumes(caller), CallsFit(tree, caller),
           tree' = Grown(t, num, flag)
    PROVE  Fits(tree', caller)
  <1>1. /\ stack # <<>> /\ current = Top.node /\ caller.node = Top.node
        /\ Fits(tree, Top)
    BY OnTop DEF TInv, Resumes
  <1>2. IsExtended(tree', tree, caller.node, t, num, flag)
    BY <1>1, PushedTree
  <1> QED BY <1>1, <1>2, PlainChildFits DEF CurType

\* A node in a container, from parse_block.
LEMMA BlockTree ==
    ASSUME IInv, TInv, Doing("block"), UNCHANGED docVars,
           NEW t \in PlainBlocks \ {"DEFINITION"}, NEW num \in Nat, NEW flag \in BOOLEAN,
           NEW todo \in Seq(Calls), Starts(t, flag, todo),
           \/ PushNode(t, num, flag, todo, Top)
           \/ todo = <<>> /\ PushLeaf(t, num, flag, Top)
    PROVE  TInv'
  <1>1. /\ stack # <<>> /\ Top \in Frames /\ MayDo(CurType, "block") /\ CallsFit(tree, Top)
    BY OnTop DEF TInv
  <1>2. CurType \in Containers
    BY <1>1 DEF MayDo
  <1>3. CurType \notin Ruled /\ MayHold(CurType, t)
    BY <1>2 DEF MayHold, Containers, Ruled
  <1>4. t \in Types
    BY DEF PlainBlocks, Types, BlockTypes
  <1>5. Resumes(Top)
    BY <1>1, MayResume
  <1>6. Fits(tree', Top)
    BY <1>1, <1>3, <1>4, <1>5, PlainTree DEF PushNode, PushLeaf
  <1>7. in_link_body' = in_link_body /\ status' = status
    BY DEF docVars
  <1> QED BY <1>1, <1>4, <1>5, <1>6, <1>7, PushTree, LeafTree

\* A node in a line, from parse_inline.
LEMMA SpanFits ==
    ASSUME IInv, TInv, Doing("inline"),
           NEW t \in SpanTypes, NEW num \in Nat, NEW flag \in BOOLEAN,
           tree' = Grown(t, num, flag)
    PROVE  /\ stack # <<>> /\ t \in Types /\ Resumes(Top) /\ Fits(tree', Top)
           /\ \A todo : todo \in {<<>>, <<"inline">>} => Starts(t, flag, todo)
  <1>1. /\ stack # <<>> /\ Top \in Frames /\ MayDo(CurType, "inline") /\ CallsFit(tree, Top)
    BY OnTop DEF TInv
  <1>2. CurType \in Lines
    BY <1>1 DEF MayDo
  <1>3. CurType \notin Ruled /\ MayHold(CurType, t)
    BY <1>2 DEF MayHold, Lines, SpanTypes, Ruled
  <1>4. t \in Types /\ t # "DEFINITION"
    BY DEF SpanTypes, Types
  <1>5. Resumes(Top)
    BY <1>1, MayResume
  <1>6. Fits(tree', Top)
    BY <1>1, <1>3, <1>4, <1>5, PlainTree
  <1>7. Starts(t, flag, <<>>)
    BY DEF Starts, SpanTypes
  <1>8. Starts(t, flag, <<"inline">>)
    BY DEF Starts, SpanTypes, MayDo, Lines
  <1> QED BY <1>1, <1>4, <1>5, <1>6, <1>7, <1>8

LEMMA SpanTree ==
    ASSUME IInv, TInv, Doing("inline"),
           in_link_body' = in_link_body, status' = status,
           NEW t \in SpanTypes, NEW num \in Nat, NEW flag \in BOOLEAN,
           \/ PushNode(t, num, flag, <<"inline">>, Top)
           \/ PushLeaf(t, num, flag, Top)
    PROVE  TInv'
  <1>1. /\ stack # <<>> /\ t \in Types /\ Resumes(Top) /\ Fits(tree', Top)
        /\ Starts(t, flag, <<>>) /\ Starts(t, flag, <<"inline">>)
    BY SpanFits DEF PushNode, PushLeaf
  <1> QED BY <1>1, Lists, PushTree, LeafTree

\* What a parse function may have to do about its node, by the call it makes.
LEMMA StartTypes ==
    /\ \A flag \in BOOLEAN : \A calls \in ItemCalls(flag) :
           calls \in Seq(Calls) /\ Starts("LISTITEM", flag, calls)
    /\ \A t \in {"HRULE", "BLOCKCODE", "BLOCKHTML"} : Starts(t, FALSE, <<>>)
    /\ Starts("BLOCKQUOTE", FALSE, <<"block">>)
    /\ \A flag \in BOOLEAN : Starts("PARAGRAPH", flag, <<"inline">>)
    /\ Starts("HEADER", FALSE, <<"inline">>)
    /\ Starts("LIST", FALSE, <<"item", "items">>)
    /\ \A flag \in BOOLEAN : Starts("DEFINITION_DATA", flag, <<"listitem">>)
    /\ \A flag \in BOOLEAN : Starts("DEFINITION_DATA", flag, <<>>)
    /\ Starts("TABLE_BLOCK", FALSE, <<"thead", "tbody">>)
    /\ Starts("TABLE_HEADER", FALSE, <<"headrow">>)
    /\ Starts("TABLE_BODY", FALSE, <<"rows">>)
    /\ Starts("TABLE_ROW", FALSE, <<"cells", "fill">>)
    /\ Starts("TABLE_CELL", FALSE, <<"inline">>)
    /\ Starts("TABLE_CELL", FALSE, <<>>)
    /\ Starts("DOC_HEADER", FALSE, <<>>) /\ Starts("DOC_FOOTER", FALSE, <<>>)
    /\ Starts("FOOTNOTES_BLOCK", FALSE, <<"defs">>)
    /\ Starts("FOOTNOTE_DEF", FALSE, <<"block">>)
  <1> USE DEF Starts, MayDo, Containers, Lines, SpanTypes
  <1>1. \A flag \in BOOLEAN : \A calls \in ItemCalls(flag) :
            calls \in Seq(Calls) /\ Starts("LISTITEM", flag, calls)
    <2>1. MayDo("LISTITEM", "block") /\ MayDo("LISTITEM", "inline")
      OBVIOUS
    <2> TAKE flag \in BOOLEAN
    <2> TAKE calls \in ItemCalls(flag)
    <2>2. calls \in {<<"block">>, <<"inline">>, <<"inline", "block">>}
      BY DEF ItemCalls
    <2>3. \A j \in 1 .. Len(calls) : calls[j] \in {"block", "inline"}
      BY <2>2
    <2> QED BY <2>1, <2>2, <2>3, Lists DEF Starts
  <1>2. /\ \A t \in {"HRULE", "BLOCKCODE", "BLOCKHTML"} : Starts(t, FALSE, <<>>)
        /\ Starts("BLOCKQUOTE", FALSE, <<"block">>)
        /\ \A flag \in BOOLEAN : Starts("PARAGRAPH", flag, <<"inline">>)
        /\ Starts("HEADER", FALSE, <<"inline">>)
    OBVIOUS
  <1>3. /\ Starts("LIST", FALSE, <<"item", "items">>)
        /\ \A flag \in BOOLEAN : Starts("DEFINITION_DATA", flag, <<"listitem">>)
        /\ \A flag \in BOOLEAN : Starts("DEFINITION_DATA", flag, <<>>)
    OBVIOUS
  <1>4. /\ Starts("TABLE_BLOCK", FALSE, <<"thead", "tbody">>)
        /\ Starts("TABLE_HEADER", FALSE, <<"headrow">>)
        /\ Starts("TABLE_BODY", FALSE, <<"rows">>)
        /\ Starts("TABLE_ROW", FALSE, <<"cells", "fill">>)
    OBVIOUS
  <1>5. Starts("TABLE_CELL", FALSE, <<"inline">>) /\ Starts("TABLE_CELL", FALSE, <<>>)
    OBVIOUS
  <1>6. /\ Starts("DOC_HEADER", FALSE, <<>>) /\ Starts("DOC_FOOTER", FALSE, <<>>)
        /\ Starts("FOOTNOTES_BLOCK", FALSE, <<"defs">>)
        /\ Starts("FOOTNOTE_DEF", FALSE, <<"block">>)
    OBVIOUS
  <1> QED BY <1>1, <1>2, <1>3, <1>4, <1>5, <1>6

\* The blocks that parse_block puts below its container.
LEMMA BlocksTree ==
    ASSUME IInv, TInv,
           LeafBlock \/ ParseBlockquote \/ ParseParagraph \/ ParseHeader \/ ParseList \/ ParseTable
    PROVE  TInv'
  <1> USE Lists
  <1>0. <<>> \in Seq(Calls)
    OBVIOUS
  <1>1. CASE LeafBlock
    <2>1. PICK t \in {"HRULE", "BLOCKCODE", "BLOCKHTML"} : PushLeaf(t, 0, FALSE, Top)
      BY <1>1 DEF LeafBlock
    <2>2. Doing("block") /\ UNCHANGED docVars
      BY <1>1 DEF LeafBlock
    <2>3. t \in PlainBlocks \ {"DEFINITION"} /\ Starts(t, FALSE, <<>>)
      BY StartTypes DEF PlainBlocks
    <2> QED BY <1>0, <2>1, <2>2, <2>3, BlockTree
  <1>2. CASE ParseBlockquote
    <2>1. "BLOCKQUOTE" \in PlainBlocks \ {"DEFINITION"} /\ Starts("BLOCKQUOTE", FALSE, <<"block">>)
      BY StartTypes DEF PlainBlocks
    <2> QED BY <1>2, <2>1, BlockTree DEF ParseBlockquote
  <1>3. CASE ParseParagraph
    <2>1. PICK lines \in {1, 2}, beoln \in BOOLEAN :
              PushNode("PARAGRAPH", lines, beoln, <<"inline">>, Top)
      BY <1>3 DEF ParseParagraph
    <2>2. Doing("block") /\ UNCHANGED docVars /\ lines \in Nat
      BY <1>3 DEF ParseParagraph
    <2>3. "PARAGRAPH" \in PlainBlocks \ {"DEFINITION"} /\ Starts("PARAGRAPH", beoln, <<"inline">>)
      BY StartTypes DEF PlainBlocks
    <2> QED BY <2>1, <2>2, <2>3, BlockTree
  <1>4. CASE ParseHeader
    <2>1. "HEADER" \in PlainBlocks \ {"DEFINITION"} /\ Starts("HEADER", FALSE, <<"inline">>)
      BY StartTypes DEF PlainBlocks
    <2> QED BY <1>4, <2>1, BlockTree DEF ParseHeader
  <1>5. CASE ParseList
    <2>1. "LIST" \in PlainBlocks \ {"DEFINITION"} /\ Starts("LIST", FALSE, <<"item", "items">>)
      BY StartTypes DEF PlainBlocks
    <2> QED BY <1>5, <2>1, BlockTree DEF ParseList
  <1>6. CASE ParseTable
    <2>1. PICK columns \in 1 .. MaxColumns :
              PushNode("TABLE_BLOCK", columns, FALSE, <<"thead", "tbody">>, Top)
      BY <1>6 DEF ParseTable
    <2>2. columns \in Nat /\ Doing("block") /\ UNCHANGED docVars
      BY <1>6, MaxColumnsAssumption DEF ParseTable
    <2>3. "TABLE_BLOCK" \in PlainBlocks \ {"DEFINITION"}
          /\ Starts("TABLE_BLOCK", FALSE, <<"thead", "tbody">>)
      BY StartTypes DEF PlainBlocks
    <2> QED BY <2>1, <2>2, <2>3, BlockTree
  <1> QED BY <1>1, <1>2, <1>3, <1>4, <1>5, <1>6

\* The frame with which the caller of parse_listitem goes on.
LEMMA ItemCaller ==
    ASSUME Top \in Frames, NEW block \in BOOLEAN, NEW end \in BOOLEAN,
           NEW loop \in {"items", "data"}
    PROVE  /\ AfterItem(block, end, loop) \in Frames
           /\ AfterItem(block, end, loop).node = Top.node
           /\ AfterItem(block, end, loop).flag = block
           /\ AfterItem(block, end, loop).todo \in {<<loop>>, <<>>}
  <1> DEFINE q == IF end THEN <<>> ELSE <<loop>>
             f == [Top EXCEPT !.flag = block]
             a == AfterItem(block, end, loop)
  <1>1. q \in Seq(Calls) /\ q \in {<<loop>>, <<>>}
    <2>1. loop \in Calls
      BY DEF Calls
    <2> QED BY <2>1
  <1>2. f \in Frames /\ f.node = Top.node
    BY Callers
  <1>3. f.flag = block
    BY DEF Frames
  <1>4. a = [f EXCEPT !.todo = q]
    BY DEF AfterItem
  <1> HIDE DEF f, q, a
  <1>5. a \in Frames /\ a.node = Top.node /\ a.todo = q
    BY <1>1, <1>2, <1>4, Callers
  <1>6. a.flag = block
    BY <1>2, <1>3, <1>4 DEF Frames
  <1> QED BY <1>1, <1>5, <1>6 DEF a

LEMMA ListItemTree ==
    ASSUME IInv, TInv, ListItem
    PROVE  TInv'
  <1>1. UNCHANGED docVars /\ (Doing("item") \/ Doing("items"))
    BY DEF ListItem
  <1>2. /\ stack # <<>> /\ Top \in Frames /\ Top.flag \in BOOLEAN /\ current = Top.node
        /\ CurType = "LIST" /\ Fits(tree, Top)
    BY <1>1, OnTop DEF TInv, MayDo
  <1>3. PICK empty \in BOOLEAN, end \in BOOLEAN :
            \E calls \in ItemCalls(Top.flag \/ empty) :
                PushNode("LISTITEM", 0, Top.flag \/ empty, calls,
                         AfterItem(Top.flag \/ empty, end, "items"))
    BY DEF ListItem
  <1> DEFINE block == Top.flag \/ empty
             caller == AfterItem(block, end, "items")
  <1>4. block \in BOOLEAN /\ (Top.flag => block) /\ (block <=> (Top.flag \/ block))
    BY <1>2, BothFlags
  <1>5. PICK calls \in ItemCalls(block) : PushNode("LISTITEM", 0, block, calls, caller)
    BY <1>3
  <1>6. /\ caller \in Frames /\ caller.node = Top.node
        /\ caller.flag = block /\ caller.todo \in {<<"items">>, <<>>}
    BY <1>2, <1>4, ItemCaller
  <1> HIDE DEF block, caller
  <1>7. calls \in Seq(Calls) /\ Starts("LISTITEM", block, calls)
    BY <1>4, <1>5, StartTypes
  <1>8. "LISTITEM" \in Types
    BY DEF Types, BlockTypes
  <1>9. IsExtended(tree', tree, caller.node, "LISTITEM", 0, block)
    BY <1>2, <1>4, <1>5, <1>6, <1>8, PushedTree DEF PushNode
  <1>10. CallsFit(tree, caller)
    BY <1>2, <1>6 DEF CallsFit, CurType, MayDo
  <1>11. tree[caller.node].type = "LIST" /\ (caller.flag <=> (Top.flag \/ block))
    BY <1>2, <1>4, <1>6 DEF CurType
  <1>12. Fits(tree', caller)
    BY <1>2, <1>4, <1>6, <1>9, <1>10, <1>11, ItemFits
  <1>13. Resumes(caller) /\ in_link_body' = in_link_body /\ status' = status
    BY <1>1, <1>2, <1>6, MayResume DEF docVars
  <1> QED BY <1>2, <1>4, <1>5, <1>7, <1>8, <1>12, <1>13, PushTree

LEMMA DataTree ==
    ASSUME IInv, TInv, DefinitionData \/ EmptyData
    PROVE  TInv'
  <1>1. UNCHANGED docVars /\ (Doing("datum") \/ Doing("data"))
    BY DEF DefinitionData, EmptyData
  <1>2. /\ stack # <<>> /\ Top \in Frames /\ Top.flag \in BOOLEAN /\ current = Top.node
        /\ CurType = "DEFINITION" /\ Fits(tree, Top)
    BY <1>1, OnTop DEF TInv, MayDo
  <1>3. "DEFINITION_DATA" \in Types /\ in_link_body' = in_link_body /\ status' = status
    BY <1>1 DEF Types, BlockTypes, docVars
  <1>4. ASSUME NEW f \in Frames, f.node = Top.node, NEW flag \in BOOLEAN, f.flag = flag,
               f.todo \in {<<"data">>, <<>>}, Top.flag => flag,
               tree' = Grown("DEFINITION_DATA", 0, flag)
        PROVE  Fits(tree', f) /\ Resumes(f)
    <2>1. IsExtended(tree', tree, f.node, "DEFINITION_DATA", 0, flag)
      BY <1>2, <1>3, <1>4, PushedTree
    <2>2. CallsFit(tree, f)
      BY <1>2, <1>4 DEF CallsFit, CurType, MayDo
    <2>3. tree[f.node].type = "DEFINITION" /\ (f.flag <=> (Top.flag \/ flag))
      BY <1>2, <1>4 DEF CurType
    <2>4. Fits(tree', f)
      BY <1>2, <1>4, <2>1, <2>2, <2>3, DataFits
    <2> QED BY <1>2, <1>4, <2>4, MayResume
  <1>5. CASE DefinitionData
    <2>1. PICK empty \in BOOLEAN, end \in BOOLEAN :
              PushNode("DEFINITION_DATA", 0, Top.flag \/ empty, <<"listitem">>,
                       AfterItem(Top.flag \/ empty, end, "data"))
      BY <1>5 DEF DefinitionData
    <2> DEFINE block == Top.flag \/ empty
               caller == AfterItem(block, end, "data")
    <2>2. block \in BOOLEAN /\ (Top.flag => block)
      BY <1>2, BothFlags
    <2>3. PushNode("DEFINITION_DATA", 0, block, <<"listitem">>, caller)
      BY <2>1
    <2>4. /\ caller \in Frames /\ caller.node = Top.node
          /\ caller.flag = block /\ caller.todo \in {<<"data">>, <<>>}
      BY <1>2, <2>2, ItemCaller
    <2> HIDE DEF block, caller
    <2>5. Fits(tree', caller) /\ Resumes(caller)
      BY <1>4, <2>2, <2>3, <2>4 DEF PushNode
    <2> QED BY <1>2, <1>3, <2>2, <2>3, <2>5, Lists, StartTypes, PushTree
  <1>6. CASE EmptyData
    <2> DEFINE caller == [Top EXCEPT !.todo = <<>>]
    <2>1. PushLeaf("DEFINITION_DATA", 0, Top.flag, caller)
      BY <1>6 DEF EmptyData
    <2>2. caller \in Frames /\ caller.node = Top.node /\ caller.todo = <<>>
      <3>1. <<>> \in Seq(Calls)
        OBVIOUS
      <3> QED BY <1>2, <3>1, Callers
    <2>3. caller.flag = Top.flag
      BY <1>2 DEF Frames
    <2> HIDE DEF caller
    <2>4. Fits(tree', caller) /\ Resumes(caller)
      BY <1>2, <1>4, <2>1, <2>2, <2>3 DEF PushLeaf
    <2> QED BY <1>2, <1>3, <2>1, <2>4, StartTypes, LeafTree
  <1> QED BY <1>5, <1>6

\* parse_listitem from parse_definition.
LEMMA DataItemTree ==
    ASSUME IInv, TInv, DataItem
    PROVE  TInv'
  <1>1. Doing("listitem") /\ UNCHANGED docVars
    BY DEF DataItem
  <1>2. /\ stack # <<>> /\ Top.flag \in BOOLEAN /\ CurType = "DEFINITION_DATA"
        /\ Rest \in Frames /\ Rest.node = Top.node /\ CallsFit(tree, Rest)
    BY <1>1, OnTop DEF TInv, MayDo
  <1>3. PICK calls \in ItemCalls(Top.flag) : PushNode("LISTITEM", 0, Top.flag, calls, Rest)
    BY DEF DataItem
  <1>4. calls \in Seq(Calls) /\ Starts("LISTITEM", Top.flag, calls)
    BY <1>2, <1>3, StartTypes
  <1>5. "LISTITEM" \in Types /\ in_link_body' = in_link_body /\ status' = status
    BY <1>1 DEF Types, BlockTypes, docVars
  <1>6. Resumes(Rest)
    BY <1>2, MayResume
  <1>7. CurType \notin Ruled /\ MayHold(CurType, "LISTITEM")
    BY <1>2 DEF Ruled, MayHold
  <1>8. Fits(tree', Rest)
    BY <1>1, <1>2, <1>3, <1>5, <1>6, <1>7, PlainTree DEF PushNode
  <1> QED BY <1>2, <1>3, <1>4, <1>5, <1>6, <1>8, PushTree

LEMMA TablePartTree ==
    ASSUME IInv, TInv, TablePart
    PROVE  TInv'
  <1>1. UNCHANGED docVars /\ (Doing("thead") \/ Doing("tbody"))
    BY DEF TablePart
  <1>2. /\ stack # <<>> /\ Top.todo # <<>> /\ current = Top.node /\ CurType = "TABLE_BLOCK"
        /\ Fits(tree, Top) /\ tree[current].num \in Nat
        /\ Rest \in Frames /\ Rest.node = Top.node /\ Rest.todo = Tail(Top.todo)
        /\ CallsFit(tree, Rest)
    BY <1>1, OnTop DEF TInv, MayDo
  <1>3. Resumes(Rest) /\ in_link_body' = in_link_body /\ status' = status
    BY <1>1, <1>2, MayResume DEF docVars
  <1>4. ASSUME NEW t \in Types, tree' = Grown(t, tree[current].num, FALSE),
               \/ Head(Top.todo) = "thead" /\ t = "TABLE_HEADER"
               \/ Head(Top.todo) = "tbody" /\ t = "TABLE_BODY"
        PROVE  Fits(tree', Rest)
    <2>1. IsExtended(tree', tree, Rest.node, t, tree[Rest.node].num, FALSE)
      BY <1>2, <1>4, PushedTree
    <2> QED BY <1>2, <1>4, <2>1, PartFits DEF CurType
  <1>5. CASE Doing("thead") /\ PushNode("TABLE_HEADER", tree[current].num, FALSE, <<"headrow">>, Rest)
    <2>1. "TABLE_HEADER" \in Types /\ Head(Top.todo) = "thead"
      BY <1>5, OnTop DEF Types, BlockTypes, TInv
    <2>2. Fits(tree', Rest)
      BY <1>4, <1>5, <2>1 DEF PushNode
    <2> QED BY <1>2, <1>3, <1>5, <2>1, <2>2, Lists, StartTypes, PushTree
  <1>6. CASE Doing("tbody") /\ PushNode("TABLE_BODY", tree[current].num, FALSE, <<"rows">>, Rest)
    <2>1. "TABLE_BODY" \in Types /\ Head(Top.todo) = "tbody"
      BY <1>6, OnTop DEF Types, BlockTypes, TInv
    <2>2. Fits(tree', Rest)
      BY <1>4, <1>6, <2>1 DEF PushNode
    <2> QED BY <1>2, <1>3, <1>6, <2>1, <2>2, Lists, StartTypes, PushTree
  <1> QED BY <1>5, <1>6 DEF TablePart

LEMMA TableRowTree ==
    ASSUME IInv, TInv, TableRow
    PROVE  TInv'
  <1>1. UNCHANGED docVars /\ (Doing("headrow") \/ Doing("rows"))
    BY DEF TableRow
  <1>2. /\ stack # <<>> /\ Top \in Frames /\ Top.todo # <<>> /\ current = Top.node
        /\ CurType \in {"TABLE_HEADER", "TABLE_BODY"}
        /\ Fits(tree, Top) /\ tree[current].num \in Nat /\ CallsFit(tree, Top)
        /\ Rest \in Frames /\ Rest.node = Top.node /\ Rest.todo = Tail(Top.todo)
        /\ CallsFit(tree, Rest)
    BY <1>1, OnTop DEF TInv, MayDo
  <1>3. /\ Resumes(Rest) /\ Resumes(Top)
        /\ in_link_body' = in_link_body /\ status' = status
        /\ "TABLE_ROW" \in Types
    BY <1>1, <1>2, MayResume DEF docVars, Types, BlockTypes
  <1>4. ASSUME tree' = Grown("TABLE_ROW", tree[current].num, FALSE)
        PROVE  /\ IsExtended(tree', tree, Top.node, "TABLE_ROW", tree[Top.node].num, FALSE)
               /\ IsExtended(tree', tree, Rest.node, "TABLE_ROW", tree[Rest.node].num, FALSE)
    BY <1>2, <1>3, <1>4, PushedTree
  <1>5. CASE Doing("headrow")
             /\ PushNode("TABLE_ROW", tree[current].num, FALSE, <<"cells", "fill">>, Rest)
    <2>1. CurType = "TABLE_HEADER"
      BY <1>5, OnTop DEF TInv, MayDo
    <2>2. IsExtended(tree', tree, Rest.node, "TABLE_ROW", tree[Rest.node].num, FALSE)
      BY <1>4, <1>5 DEF PushNode
    <2>3. Fits(tree', Rest)
      BY <1>2, <2>1, <2>2, RowFits DEF CurType
    <2> QED BY <1>2, <1>3, <1>5, <2>3, Lists, StartTypes, PushTree
  <1>6. CASE Doing("rows")
             /\ PushNode("TABLE_ROW", tree[current].num, FALSE, <<"cells", "fill">>, Top)
    <2>1. CurType = "TABLE_BODY"
      BY <1>6, OnTop DEF TInv, MayDo
    <2>2. IsExtended(tree', tree, Top.node, "TABLE_ROW", tree[Top.node].num, FALSE)
      BY <1>4, <1>6 DEF PushNode
    <2>3. Fits(tree', Top)
      BY <1>2, <2>1, <2>2, RowFits DEF CurType
    <2> QED BY <1>2, <1>3, <1>6, <2>3, Lists, StartTypes, PushTree
  <1> QED BY <1>5, <1>6 DEF TableRow

LEMMA CellTree ==
    ASSUME IInv, TInv, TableCell \/ FillCell
    PROVE  TInv'
  <1> DEFINE caller == [Top EXCEPT !.i = Top.i + 1]
  <1>1. /\ UNCHANGED docVars /\ (Doing("cells") \/ Doing("fill"))
        /\ Top.i < tree[current].num
        /\ \/ PushNode("TABLE_CELL", Top.i, FALSE, <<"inline">>, caller)
           \/ PushLeaf("TABLE_CELL", Top.i, FALSE, caller)
    BY DEF TableCell, FillCell
  <1>2. /\ stack # <<>> /\ Top \in Frames /\ Top.todo # <<>> /\ current = Top.node
        /\ CurType = "TABLE_ROW" /\ Fits(tree, Top)
        /\ tree[current].num \in Nat /\ Top.i \in Nat
    BY <1>1, OnTop DEF TInv, MayDo
  <1>3. Top.i + 1 \in Nat
    BY <1>2
  <1>4. caller \in Frames /\ caller.node = Top.node /\ caller.todo = Top.todo
    BY <1>2, <1>3, Callers
  <1>5. caller.i = Top.i + 1
    BY <1>2 DEF Frames
  <1> HIDE DEF caller
  <1>6. "TABLE_CELL" \in Types /\ in_link_body' = in_link_body /\ status' = status
    BY <1>1 DEF Types, BlockTypes, docVars
  <1>7. IsExtended(tree', tree, caller.node, "TABLE_CELL", Top.i, FALSE)
    BY <1>1, <1>2, <1>4, <1>6, PushedTree DEF PushNode, PushLeaf
  <1>8. /\ tree[caller.node].type = "TABLE_ROW" /\ tree[caller.node].num \in Nat
        /\ Top.i < tree[caller.node].num
    BY <1>1, <1>2, <1>4 DEF CurType
  <1>9. Fits(tree', caller)
    BY <1>2, <1>4, <1>5, <1>7, <1>8, CellFits
  <1>10. Resumes(caller)
    BY <1>4, MayResume
  <1>11. CASE PushNode("TABLE_CELL", Top.i, FALSE, <<"inline">>, caller)
    BY <1>2, <1>6, <1>9, <1>10, <1>11, Lists, StartTypes, PushTree
  <1>12. CASE PushLeaf("TABLE_CELL", Top.i, FALSE, caller)
    BY <1>2, <1>6, <1>9, <1>10, <1>12, StartTypes, LeafTree
  <1> QED BY <1>1, <1>11, <1>12

LEMMA InlineTree ==
    ASSUME IInv, TInv, InlineStep, ~CharLink
    PROVE  TInv'
  <1> USE DEF SpanTypes
  <1>1. /\ Doing("inline") /\ in_link_body' = in_link_body /\ status' = status
        /\ foots \in Nat
    BY DEF InlineStep, LeafSpan, ParseSpan, AngleAutolink, BareAutolink, FootnoteRef, docVars,
           IInv, TypeOK
  <1>2. foots + 1 \in Nat
    BY <1>1
  <1>3. CASE LeafSpan
    <2>1. PICK t \in SpanTypes : PushLeaf(t, 0, FALSE, Top)
      BY <1>3 DEF LeafSpan
    <2> QED BY <1>1, <2>1, SpanTree
  <1>4. CASE ParseSpan
    <2>1. PICK t \in SpanTypes : PushNode(t, 0, FALSE, <<"inline">>, Top)
      BY <1>4 DEF ParseSpan
    <2> QED BY <1>1, <2>1, SpanTree
  <1>5. CASE AngleAutolink
    BY <1>1, <1>5, SpanTree DEF AngleAutolink
  <1>6. CASE BareAutolink
    BY <1>1, <1>6, SpanTree DEF BareAutolink
  <1>7. CASE FootnoteRef
    <2>1. \/ PushLeaf("FOOTNOTE_REF", foots + 1, FALSE, Top)
          \/ PushLeaf("NORMAL_TEXT", 0, FALSE, Top)
      BY <1>7 DEF FootnoteRef
    <2> QED BY <1>1, <1>2, <2>1, SpanTree
  <1> QED BY <1>3, <1>4, <1>5, <1>6, <1>7 DEF InlineStep

\* A link sets in_link_body when its own text is open.
LEMMA CharLinkTree ==
    ASSUME IInv, TInv, CharLink
    PROVE  TInv'
  <1>1. /\ Doing("inline") /\ status' = status
        /\ \/ PushNode("LINK", 0, FALSE, <<"inline">>, Top)
           \/ PushLeaf("LINK", 0, FALSE, Top) /\ in_link_body' = in_link_body
    BY DEF CharLink
  <1>2. "LINK" \in SpanTypes
    BY DEF SpanTypes
  <1>3. CASE PushLeaf("LINK", 0, FALSE, Top) /\ in_link_body' = in_link_body
    BY <1>1, <1>2, <1>3, SpanTree
  <1>4. CASE PushNode("LINK", 0, FALSE, <<"inline">>, Top)
    <2>1. /\ stack # <<>> /\ "LINK" \in Types /\ Resumes(Top) /\ Fits(tree', Top)
          /\ Starts("LINK", FALSE, <<"inline">>)
      BY <1>1, <1>2, <1>4, SpanFits DEF PushNode
    <2>2. Top \in Frames /\ Len(stack) \in Nat /\ nodes \in Nat
      BY <2>1, OpenNodes DEF IInv, TypeOK
    <2>3. /\ OpenFit' /\ ClosedFit' /\ Placed'
          /\ Len(stack') = Len(stack) + 1
          /\ stack'[Len(stack) + 1] = Frame(nodes, <<"inline">>, FALSE)
          /\ tree'[nodes].type = "LINK"
      <3>1. OpenFit /\ ClosedFit /\ Placed
        BY DEF TInv
      <3>2. OpenFit' /\ ClosedFit' /\ Placed' /\ Pushed("LINK", FALSE, <<"inline">>, Top)
        BY <1>4, <2>1, <2>2, <3>1, Lists, PushFits
      <3> QED BY <3>2 DEF Pushed
    <2>4. Len(stack) + 1 \in 1 .. Len(stack')
      BY <2>2, <2>3
    <2>5. /\ Frame(nodes, <<"inline">>, FALSE).node = nodes
          /\ Frame(nodes, <<"inline">>, FALSE).todo # <<>>
      BY DEF Frame
    <2>6. LinkOpen'
      BY <2>3, <2>4, <2>5 DEF LinkOpen
    <2> QED BY <2>3, <2>6 DEF TInv
  <1> QED BY <1>1, <1>3, <1>4

LEMMA DocumentTree ==
    ASSUME IInv, TInv, DocHeader \/ DocFooter
    PROVE  TInv'
  <1>1. /\ UNCHANGED docVars /\ (Doing("docheader") \/ Doing("footer"))
        /\ \/ PushLeaf("DOC_HEADER", 0, FALSE, Rest)
           \/ PushLeaf("DOC_FOOTER", 0, FALSE, Rest)
    BY DEF DocHeader, DocFooter
  <1>2. /\ stack # <<>> /\ CurType = "ROOT"
        /\ Rest \in Frames /\ Rest.node = Top.node /\ CallsFit(tree, Rest)
    BY <1>1, OnTop DEF TInv, MayDo
  <1>3. Resumes(Rest) /\ in_link_body' = in_link_body /\ status' = status
    BY <1>1, <1>2, MayResume DEF docVars
  <1>4. CurType \notin Ruled /\ \A t \in {"DOC_HEADER", "DOC_FOOTER"} :
                                    MayHold(CurType, t) /\ t \in Types /\ Starts(t, FALSE, <<>>)
    BY <1>2, StartTypes DEF Ruled, MayHold, Types, BlockTypes
  <1>5. PICK t \in {"DOC_HEADER", "DOC_FOOTER"} : PushLeaf(t, 0, FALSE, Rest)
    BY <1>1
  <1>6. Fits(tree', Rest)
    BY <1>1, <1>2, <1>3, <1>4, <1>5, PlainTree DEF PushLeaf
  <1> QED BY <1>2, <1>3, <1>4, <1>5, <1>6, LeafTree

LEMMA FootnotesTree ==
    ASSUME IInv, TInv, FootnotesBlock \/ FootnoteDef
    PROVE  TInv'
  <1>1. CASE FootnotesBlock
    <2>1. Doing("footnotes") /\ UNCHANGED docVars
      BY <1>1 DEF FootnotesBlock
    <2>2. /\ stack # <<>> /\ CurType = "ROOT" /\ Fits(tree, Top)
          /\ Top.todo \in Seq(Calls) /\ Top.todo # <<>> /\ Head(Top.todo) = "footnotes"
          /\ Rest \in Frames /\ Rest.node = Top.node /\ CallsFit(tree, Rest)
          /\ Rest.todo = Tail(Top.todo) /\ Rest.i = Top.i /\ Rest.flag = Top.flag
      BY <2>1, OnTop DEF TInv, MayDo
    <2>3. Resumes(Rest) /\ in_link_body' = in_link_body /\ status' = status
      BY <2>1, <2>2, MayResume DEF docVars
    <2>4. CASE PushNode("FOOTNOTES_BLOCK", 0, FALSE, <<"defs">>, Rest)
      <3>1. /\ CurType \notin Ruled /\ MayHold(CurType, "FOOTNOTES_BLOCK")
            /\ "FOOTNOTES_BLOCK" \in Types
        BY <2>2 DEF Ruled, MayHold, Types, BlockTypes
      <3>2. Fits(tree', Rest)
        BY <2>1, <2>2, <2>3, <2>4, <3>1, PlainTree DEF PushNode
      <3> QED BY <2>2, <2>3, <2>4, <3>1, <3>2, Lists, StartTypes, PushTree
    <2>5. CASE stack' = SetTop(Rest) /\ tree' = tree
      <3>1. Fits(tree, Rest)
        BY <2>2, RestFits
      <3> QED BY <2>2, <2>3, <2>5, <3>1, SetTree
    <2> QED BY <1>1, <2>4, <2>5 DEF FootnotesBlock
  <1>2. CASE FootnoteDef
    <2>1. Doing("defs") /\ UNCHANGED docVars
      BY <1>2 DEF FootnoteDef
    <2>2. /\ stack # <<>> /\ Top \in Frames /\ CurType = "FOOTNOTES_BLOCK"
          /\ CallsFit(tree, Top)
      BY <2>1, OnTop DEF TInv, MayDo
    <2>3. PICK f \in Footnotes :
              PushNode("FOOTNOTE_DEF", fnum[f], FALSE, <<"block">>, [Top EXCEPT !.i = fnum[f]])
      BY <1>2 DEF FootnoteDef
    <2>4. fnum[f] \in Nat
      BY DEF IInv, TypeOK
    <2> DEFINE caller == [Top EXCEPT !.i = fnum[f]]
    <2>5. caller \in Frames /\ caller.node = Top.node /\ caller.todo = Top.todo
      BY <2>2, <2>4, Callers
    <2>6. PushNode("FOOTNOTE_DEF", fnum[f], FALSE, <<"block">>, caller)
      BY <2>3
    <2> HIDE DEF caller
    <2>7. Resumes(caller) /\ in_link_body' = in_link_body /\ status' = status
      BY <2>1, <2>5, MayResume DEF docVars
    <2>8. CallsFit(tree, caller)
      BY <2>2, <2>5 DEF CallsFit
    <2>9. /\ CurType \notin Ruled /\ MayHold(CurType, "FOOTNOTE_DEF")
          /\ "FOOTNOTE_DEF" \in Types
      BY <2>2 DEF Ruled, MayHold, Types, BlockTypes
    <2>10. Fits(tree', caller)
      BY <2>1, <2>4, <2>6, <2>7, <2>8, <2>9, PlainTree DEF PushNode
    <2> QED BY <2>2, <2>4, <2>6, <2>7, <2>9, <2>10, Lists, StartTypes, PushTree
  <1> QED BY <1>1, <1>2

LEMMA EndLoopTree ==
    ASSUME IInv, TInv, EndLoop
    PROVE  TInv'
  <1>1. LoopMayEnd /\ stack' = SetTop(Rest) /\ tree' = tree /\ UNCHANGED docVars
    BY DEF EndLoop
  <1>2. PICK c \in {"block", "items", "data", "rows", "inline", "cells", "fill", "defs"} :
            /\ Doing(c)
            /\ c = "inline" => CurType # "LINK"
            /\ c = "fill" => Top.i = tree[current].num
    BY <1>1 DEF LoopMayEnd
  <1>3. /\ stack # <<>> /\ current = Top.node /\ Fits(tree, Top) /\ MayDo(CurType, c)
        /\ Top.todo \in Seq(Calls) /\ Top.todo # <<>> /\ Head(Top.todo) = c
        /\ Rest \in Frames /\ Rest.node = Top.node
        /\ Rest.todo = Tail(Top.todo) /\ Rest.i = Top.i /\ Rest.flag = Top.flag
    BY <1>2, OnTop DEF TInv
  <1>4. CurType # "LINK"
    BY <1>2, <1>3 DEF MayDo, Containers
  <1>5. Resumes(Rest) /\ in_link_body' = in_link_body /\ status' = status
    BY <1>1, <1>3, <1>4, MayResume DEF docVars
  <1>6. \/ Head(Top.todo) \in {"block", "items", "data", "rows", "inline", "cells",
                               "footnotes", "defs"}
        \/ Head(Top.todo) = "fill" /\ Top.i = tree[Top.node].num
    BY <1>2, <1>3
  <1>7. Fits(tree, Rest)
    BY <1>3, <1>6, RestFits
  <1> QED BY <1>1, <1>3, <1>5, <1>7, SetTree

LEMMA EndLinkBodyTree ==
    ASSUME IInv, TInv, EndLinkBody
    PROVE  TInv'
  <1>1. /\ Doing("inline") /\ in_link_body' = 0
        /\ stack' = SetTop(Rest) /\ tree' = tree
    BY DEF EndLinkBody
  <1>2. /\ stack # <<>> /\ Fits(tree, Top)
        /\ Top.todo \in Seq(Calls) /\ Top.todo # <<>> /\ Head(Top.todo) = "inline"
        /\ Rest \in Frames /\ Rest.node = Top.node
        /\ Rest.todo = Tail(Top.todo) /\ Rest.i = Top.i /\ Rest.flag = Top.flag
    BY <1>1, OnTop DEF TInv
  <1>3. Fits(tree, Rest)
    BY <1>2, RestFits
  <1>4. OpenFit' /\ ClosedFit' /\ Placed'
    <2>1. OpenFit /\ ClosedFit /\ Placed
      BY DEF TInv
    <2> QED BY <1>1, <1>2, <1>3, <2>1, SetFits
  <1>5. LinkOpen'
    BY <1>1 DEF LinkOpen
  <1> QED BY <1>4, <1>5 DEF TInv

\* A root from which parse_block has yet to read the document.
LEMMA ParseTree ==
    ASSUME TypeOK, Parse
    PROVE  TInv' /\ RootOpen'
  <1> DEFINE todo == <<"docheader", "block", "footnotes", "footer">>
             e == Frame(0, todo, FALSE)
  <1>1. /\ tree' = [k \in {0} |-> Node("ROOT", NULL, 0, FALSE)]
        /\ stack' = <<e>> /\ in_link_body' = 0
    BY DEF Parse
  <1>2. e.node = 0 /\ e.todo = todo /\ e.i = 0 /\ e.flag = FALSE
    BY DEF Frame
  <1> HIDE DEF e
  <1>3. /\ DOMAIN tree' = {0} /\ tree'[0].type = "ROOT" /\ tree'[0].flag = FALSE
        /\ tree'[0].num = 0 /\ tree'[0].children = <<>>
    BY <1>1 DEF Node
  <1>4. Len(stack') = 1 /\ stack'[1] = e
    BY <1>1
  <1>5. Starts("ROOT", FALSE, todo)
    <2>1. \A c \in {"docheader", "block", "footnotes", "footer"} : MayDo("ROOT", c)
      BY DEF MayDo, Containers
    <2>2. \A j \in 1 .. Len(todo) : todo[j] \in {"docheader", "block", "footnotes", "footer"}
      OBVIOUS
    <2> QED BY <2>1, <2>2 DEF Starts
  <1> HIDE DEF todo
  <1>6. Fits(tree', e)
    <2>1. Starts("ROOT", FALSE, e.todo) /\ e.flag = FALSE /\ e.i = 0
      BY <1>2, <1>5
    <2>2. /\ tree'[e.node].type = "ROOT" /\ tree'[e.node].flag = FALSE
          /\ tree'[e.node].num \in Nat /\ tree'[e.node].children = <<>>
      BY <1>2, <1>3
    <2> QED BY <2>1, <2>2, NewFits
  <1>7. OpenFit'
    BY <1>4, <1>6 DEF OpenFit
  <1>8. ClosedFit'
    BY <1>2, <1>3, <1>4 DEF ClosedFit, IsOpen
  <1>9. Placed' /\ LinkOpen' /\ RootOpen'
    BY <1>1, <1>3 DEF Placed, PlacedIn, LinkOpen, RootOpen
  <1> QED BY <1>7, <1>8, <1>9 DEF TInv

LEMMA FinishTree ==
    ASSUME IInv, RootOpen, TInv, Finish
    PROVE  TInv'
  <1>1. /\ Len(stack) = 1 /\ stack # <<>> /\ Top.todo = <<>>
        /\ stack' = SubSeq(stack, 1, Len(stack) - 1)
        /\ status' = "done" /\ tree' = tree
    BY DEF Finish, PopNode
  <1>2. /\ Top = stack[1] /\ stack[1].node = 0 /\ Len(stack') = 0
        /\ tree[0].type = "ROOT"
    <2>1. stack \in Seq(Frames) /\ status = "parsing"
      BY <1>1, OpenNodes DEF IInv, TypeOK
    <2>2. Len(stack') = 0
      BY <1>1, <2>1, WithoutLast
    <2> QED BY <1>1, <2>1, <2>2 DEF IInv, OpenPath, Top, RootOpen
  <1>3. Fits(tree, Top)
    BY <1>1, <1>2 DEF TInv, OpenFit
  <1>4. Fits(tree, Closed(tree, 0))
    <2> DEFINE f == Closed(tree, 0)
    <2>1. f.node = 0 /\ f.todo = <<>> /\ f.flag = tree[0].flag
      BY DEF Closed, Frame
    <2> HIDE DEF f
    <2>2. Top.node = 0 /\ tree[Top.node].type \notin {"LIST", "DEFINITION"}
      BY <1>2
    <2>3. Fits(tree, f)
      BY <1>1, <1>3, <2>1, <2>2, DoneFits
    <2> QED BY <2>3 DEF f
  <1>5. ClosedFit'
    <2> SUFFICES ASSUME NEW k \in DOMAIN tree
                 PROVE  Fits(tree, Closed(tree, k))
      BY <1>1 DEF ClosedFit
    <2>1. CASE k = 0
      BY <1>4, <2>1
    <2>2. CASE k # 0
      BY <1>1, <1>2, <2>2 DEF TInv, ClosedFit, IsOpen
    <2> QED BY <2>1, <2>2
  <1>6. OpenFit' /\ LinkOpen'
    BY <1>1, <1>2 DEF OpenFit, LinkOpen
  <1>7. Placed'
    BY <1>1 DEF TInv, Placed, PlacedIn, Count
  <1> QED BY <1>5, <1>6, <1>7 DEF TInv

LEMMA NoTree ==
    ASSUME DOMAIN tree = {}, stack = <<>>, status # "parsing"
    PROVE  TInv /\ RootOpen
  <1>1. Len(stack) = 0
    OBVIOUS
  <1>2. OpenFit /\ ClosedFit
    BY <1>1 DEF OpenFit, ClosedFit
  <1>3. Placed /\ LinkOpen /\ RootOpen
    BY DEF Placed, PlacedIn, LinkOpen, RootOpen
  <1> QED BY <1>2, <1>3 DEF TInv

LEMMA FailTree ==
    ASSUME IInv, Fail
    PROVE  TInv' /\ RootOpen'
  <1>1. DOMAIN tree' = {} /\ stack' = <<>> /\ status' = "failed"
    BY DEF Fail
  <1>2. Len(stack') = 0
    BY <1>1
  <1>3. OpenFit' /\ ClosedFit'
    BY <1>1, <1>2 DEF OpenFit, ClosedFit
  <1>4. Placed' /\ LinkOpen' /\ RootOpen'
    BY <1>1 DEF Placed, PlacedIn, LinkOpen, RootOpen
  <1> QED BY <1>3, <1>4 DEF TInv

LEMMA RootStays ==
    ASSUME IInv, IInv', RootOpen, ParseStep, ~Fail
    PROVE  RootOpen'
  <1>1. CASE stack # <<>>
    <2>1. 0 \in DOMAIN tree /\ tree[0].type = "ROOT"
      <3>1. status = "parsing" /\ 1 \in 1 .. Len(stack)
        BY <1>1, OpenNodes
      <3> QED BY <1>1, <3>1 DEF IInv, OpenPath, RootOpen
    <2> QED BY <2>1, StepStays DEF NodesStay, NodeStays, RootOpen
  <1>2. CASE stack = <<>>
    <2>1. \A c : ~Doing(c)
      BY <1>2 DEF Doing
    <2>2. Len(stack) = 0
      BY <1>2
    <2>3. ~BlockStep /\ ~InlineStep
      BY <2>1 DEF BlockStep, InlineStep, LeafBlock, ParseBlockquote, ParseParagraph, ParseHeader,
                  ParseList, ListItem, NewDefinition, MergeDefinition, DefinitionData, EmptyData,
                  DataItem, ParseTable, TablePart, TableRow, TableCell, FillCell,
                  LeafSpan, ParseSpan, AngleAutolink, BareAutolink, CharLink, FootnoteRef
    <2>4. ~(DocHeader \/ DocFooter \/ FootnotesBlock \/ FootnoteDef \/ EndLoop \/ EndLinkBody)
      BY <2>1 DEF DocHeader, DocFooter, FootnotesBlock, FootnoteDef, EndLoop, LoopMayEnd,
                  EndLinkBody
    <2>5. ~Return /\ ~Finish
      BY <2>2 DEF Return, Finish
    <2> QED BY <2>3, <2>4, <2>5 DEF ParseStep
  <1> QED BY <1>1, <1>2

\* The invariant of the whole parser.
TreeInv == IInv /\ RootOpen /\ TInv

LEMMA TreeStepKeeps ==
    ASSUME TreeInv, [Next]_vars
    PROVE  TreeInv'
  <1>1. IInv /\ RootOpen /\ TInv /\ IInv'
    BY StepKeeps DEF TreeInv
  <1>2. CASE Parse
    BY <1>1, <1>2, ParseTree DEF TreeInv, IInv
  <1>3. CASE Fail
    BY <1>1, <1>3, FailTree DEF TreeInv
  <1>4. CASE ParseStep /\ ~Fail
    <2>1. RootOpen'
      BY <1>1, <1>4, RootStays
    <2>2. CASE DocHeader \/ DocFooter \/ FootnotesBlock \/ FootnoteDef
      BY <1>1, <2>1, <2>2, DocumentTree, FootnotesTree DEF TreeInv
    <2>3. CASE BlockStep
      BY <1>1, <2>1, <2>3, BlocksTree, ListItemTree, NewDefinitionTree, MergeDefinitionTree,
         DataTree, DataItemTree, TablePartTree, TableRowTree, CellTree
         DEF TreeInv, BlockStep
    <2>4. CASE InlineStep
      BY <1>1, <2>1, <2>4, InlineTree, CharLinkTree DEF TreeInv
    <2>5. CASE EndLoop \/ EndLinkBody
      BY <1>1, <2>1, <2>5, EndLoopTree, EndLinkBodyTree DEF TreeInv
    <2>6. CASE Return
      BY <1>1, <2>1, <2>6, ReturnTree DEF TreeInv
    <2>7. CASE Finish
      BY <1>1, <2>1, <2>7, FinishTree DEF TreeInv
    <2> QED BY <1>4, <2>2, <2>3, <2>4, <2>5, <2>6, <2>7 DEF ParseStep
  <1>5. CASE UNCHANGED vars
    <2>1. tree' = tree /\ stack' = stack /\ status' = status /\ in_link_body' = in_link_body
      BY <1>5 DEF vars, treeVars, docVars
    <2>2. OpenFit' /\ ClosedFit'
      BY <1>1, <2>1 DEF TInv, OpenFit, ClosedFit, IsOpen
    <2>3. Placed' /\ LinkOpen' /\ RootOpen'
      BY <1>1, <2>1 DEF TInv, Placed, LinkOpen, RootOpen
    <2> QED BY <1>1, <2>2, <2>3 DEF TInv, TreeInv
  <1> QED BY <1>2, <1>3, <1>4, <1>5 DEF Next

LEMMA TreeInvariance == Spec => []TreeInv
  <1>1. Init => TreeInv
    <2> SUFFICES ASSUME Init
                 PROVE  TreeInv
      OBVIOUS
    <2>1. DOMAIN tree = {} /\ stack = <<>> /\ status # "parsing"
      BY DEF Init
    <2> QED BY <2>1, NoTree, InitHolds DEF TreeInv
  <1>2. TreeInv /\ [Next]_vars => TreeInv'
    BY TreeStepKeeps
  <1> QED BY <1>1, <1>2, PTL DEF Spec

-----------------------------------------------------------------------------
(* The theorems *)

\* Every node fits the frame that holds it, or no frame holds it and it is
\* finished.
LEMMA EveryNodeFits ==
    ASSUME TreeInv, NEW k \in DOMAIN tree
    PROVE  /\ \E f : f.node = k /\ Fits(tree, f)
           /\ ~IsOpen(k) => Fits(tree, Closed(tree, k))
  <1>1. CASE IsOpen(k)
    BY <1>1 DEF TreeInv, TInv, OpenFit, IsOpen
  <1>2. CASE ~IsOpen(k)
    <2>1. Fits(tree, Closed(tree, k)) /\ Closed(tree, k).node = k
      BY <1>2 DEF TreeInv, TInv, ClosedFit, Closed, Frame
    <2> QED BY <2>1
  <1> QED BY <1>1, <1>2

LEMMA EveryKidFits ==
    ASSUME TreeInv, NEW k \in DOMAIN tree, NEW j \in 1 .. NumChildren(k)
    PROVE  /\ MayHold(tree[k].type, Child(k, j).type)
           /\ tree[k].children[j] \in DOMAIN tree
           /\ Child(k, j).parent = k
  <1>1. KidsFit(tree, k)
    BY EveryNodeFits DEF Fits
  <1> QED BY <1>1 DEF KidsFit, Count, Kid, Child, NumChildren, TreeInv, IInv, ChildParents, Linked

\* What is below a finished node is finished.
LEMMA KidsClosed ==
    ASSUME TreeInv, NEW k \in DOMAIN tree, ~IsOpen(k), NEW j \in 1 .. NumChildren(k)
    PROVE  Fits(tree, Closed(tree, tree[k].children[j]))
  <1> DEFINE c == tree[k].children[j]
  <1>1. c \in DOMAIN tree /\ tree[c].parent = k
    BY EveryKidFits DEF Child
  <1>2. k \in Nat
    BY DEF TreeInv, IInv, TypeOK
  <1> HIDE DEF c
  <1>3. ~IsOpen(c)
    <2> SUFFICES ASSUME NEW i \in 1 .. Len(stack), stack[i].node = c
                 PROVE  FALSE
      BY DEF IsOpen
    <2>1. stack \in Seq(Frames)
      BY DEF TreeInv, IInv, TypeOK
    <2>2. stack # <<>> /\ Len(stack) \in Nat
      BY <2>1
    <2>3. tree[c].parent = IF i = 1 THEN NULL ELSE stack[i - 1].node
      <3>1. status = "parsing"
        BY <2>2, OpenNodes DEF TreeInv
      <3> QED BY <3>1 DEF TreeInv, IInv, OpenPath
    <2>4. i # 1
      BY <1>1, <1>2, <2>3 DEF NULL
    <2>5. i - 1 \in 1 .. Len(stack) /\ stack[i - 1].node = k
      BY <1>1, <2>2, <2>3, <2>4
    <2> QED BY <2>5 DEF IsOpen
  <1> QED BY <1>1, <1>3, EveryNodeFits DEF c

\* For every kind of input, at every step of the parse and after it: every
\* node but the root is once in the list of its parent and in no other list,
\* so mdown_node_free frees all of the tree and no node twice, also when
\* parse_definition has moved a paragraph into a list.
THEOREM ListsAgree == Spec => []ChildLists
  <1>1. ASSUME TreeInv
        PROVE  ChildLists
    <2>1. /\ Linked(tree)
          /\ \A p \in DOMAIN tree : \A i \in 1 .. NumChildren(p) :
                 tree[p].children[i] \in DOMAIN tree /\ Child(p, i).parent = p
      BY <1>1, EveryKidFits DEF TreeInv, IInv, ChildParents
    <2>2. ASSUME NEW k \in DOMAIN tree \ {0}
          PROVE  /\ tree[k].parent \in DOMAIN tree
                 /\ LET q == tree[tree[k].parent].children
                    IN  \E i \in 1 .. Len(q) :
                            q[i] = k /\ \A j \in 1 .. Len(q) : q[j] = k => j = i
      <3> DEFINE p == tree[k].parent
      <3>1. p \in DOMAIN tree
        BY <1>1 DEF TreeInv, TInv, Placed, PlacedIn
      <3>2. PICK i \in 1 .. Len(tree[p].children) : tree[p].children[i] = k
        BY <1>1 DEF TreeInv, TInv, Placed, PlacedIn, Count
      <3>3. \A j \in 1 .. Len(tree[p].children) : tree[p].children[j] = k => j = i
        BY <2>1, <3>1, <3>2 DEF Linked
      <3> QED BY <3>1, <3>2, <3>3
    <2> QED BY <2>1, <2>2 DEF ChildLists
  <1> QED BY <1>1, TreeInvariance, PTL

\* The parser never puts a block below a span, on which smartypants.c
\* aborts, and footnote definitions are in the block of footnotes and
\* nowhere else.
THEOREM BlocksOverSpans == Spec => []BlocksAboveSpans
  <1>1. ASSUME TreeInv
        PROVE  BlocksAboveSpans
    <2> SUFFICES ASSUME NEW k \in DOMAIN tree \ {0}
                 PROVE  LET p == tree[tree[k].parent].type
                        IN  /\ p \in SpanTypes => tree[k].type \in SpanTypes
                            /\ tree[k].type = "FOOTNOTE_DEF" <=> p = "FOOTNOTES_BLOCK"
      BY DEF BlocksAboveSpans
    <2> DEFINE p == tree[k].parent
    <2>1. p \in DOMAIN tree
      BY <1>1 DEF TreeInv, TInv, Placed, PlacedIn
    <2>2. PICK i \in 1 .. NumChildren(p) : tree[p].children[i] = k
      BY <1>1 DEF TreeInv, TInv, Placed, PlacedIn, Count, NumChildren
    <2>3. MayHold(tree[p].type, tree[k].type)
      BY <1>1, <2>1, <2>2, EveryKidFits DEF Child
    <2> QED BY <2>3 DEF MayHold, Containers, PlainBlocks, Lines, SpanTypes
  <1> QED BY <1>1, TreeInvariance, PTL

\* parse_table, parse_table_header and parse_table_row leave a table of one
\* header row and a body in which every row has exactly the columns of the
\* table, the cells in order, whatever number of cells a line spells.
THEOREM TablesFilled == Spec => []TablesRectangular
  <1>1. ASSUME TreeInv
        PROVE  TablesRectangular
    <2>1. ASSUME NEW k \in DOMAIN tree, tree[k].type = "TABLE_BLOCK", ~IsOpen(k)
          PROVE  /\ NumChildren(k) = 2
                 /\ Child(k, 1).type = "TABLE_HEADER" /\ Len(Child(k, 1).children) = 1
                 /\ Child(k, 2).type = "TABLE_BODY"
                 /\ \A i \in 1 .. 2 : \A j \in 1 .. Len(Child(k, i).children) :
                        tree[Child(k, i).children[j]].num = tree[k].num
      <3> DEFINE f == Closed(tree, k)
      <3>1. f.node = k /\ f.todo = <<>> /\ TableFits(tree, f)
        BY <1>1, <2>1, EveryNodeFits DEF Closed, Frame, Fits
      <3> HIDE DEF f
      <3>2. /\ NumChildren(k) = 2
            /\ Child(k, 1).type = "TABLE_HEADER" /\ Child(k, 2).type = "TABLE_BODY"
            /\ \A i \in 1 .. 2 : Child(k, i).num = tree[k].num
        BY <2>1, <3>1 DEF TableFits, Count, Kid, Child, NumChildren
      <3>3. ASSUME NEW i \in 1 .. 2
            PROVE  /\ \A j \in 1 .. Len(Child(k, i).children) :
                          tree[Child(k, i).children[j]].num = tree[k].num
                   /\ Child(k, i).type = "TABLE_HEADER" => Len(Child(k, i).children) = 1
        <4> DEFINE c == tree[k].children[i]
                   e == Closed(tree, c)
        <4>1. e.node = c /\ e.todo = <<>> /\ TableFits(tree, e)
          BY <1>1, <2>1, <3>2, KidsClosed DEF Closed, Frame, Fits
        <4>2. Child(k, i) = tree[c] /\ Child(k, i).type \in {"TABLE_HEADER", "TABLE_BODY"}
          BY <3>2 DEF Child
        <4>3. tree[c].num = tree[k].num
          BY <3>2, <4>2
        <4> HIDE DEF e, c
        <4> QED BY <4>1, <4>2, <4>3 DEF TableFits, Count, Kid
      <3> QED BY <3>2, <3>3
    <2>2. ASSUME NEW k \in DOMAIN tree, tree[k].type = "TABLE_ROW", ~IsOpen(k)
          PROVE  /\ NumChildren(k) = tree[k].num
                 /\ \A i \in 1 .. NumChildren(k) :
                        Child(k, i).type = "TABLE_CELL" /\ Child(k, i).num = i - 1
      <3> DEFINE f == Closed(tree, k)
      <3>1. f.node = k /\ f.todo = <<>> /\ TableFits(tree, f)
        BY <1>1, <2>2, EveryNodeFits DEF Closed, Frame, Fits
      <3> HIDE DEF f
      <3>2. /\ NumChildren(k) = tree[k].num
            /\ \A i \in 1 .. NumChildren(k) : Child(k, i).num = i - 1
        BY <2>2, <3>1 DEF TableFits, Count, Kid, Child, NumChildren
      <3>3. \A i \in 1 .. NumChildren(k) : Child(k, i).type = "TABLE_CELL"
        BY <1>1, <2>2, EveryKidFits DEF MayHold, Containers, Lines, SpanTypes
      <3> QED BY <3>2, <3>3
    <2> QED BY <2>1, <2>2 DEF TablesRectangular
  <1> QED BY <1>1, TreeInvariance, PTL

\* parse_definition: a definition list that is finished begins with a title
\* and has data behind every title, and no list is behind another one, since
\* the next title is merged into the list before.
THEOREM TitlesHaveData == Spec => []DefinitionsMerged
  <1>1. ASSUME TreeInv
        PROVE  DefinitionsMerged
    <2>1. ASSUME NEW k \in DOMAIN tree, tree[k].type = "DEFINITION", ~IsOpen(k)
          PROVE  /\ NumChildren(k) > 1
                 /\ Child(k, 1).type = "DEFINITION_TITLE"
                 /\ Child(k, NumChildren(k)).type = "DEFINITION_DATA"
                 /\ \A i \in 1 .. NumChildren(k) - 1 :
                        Child(k, i).type = "DEFINITION_TITLE" =>
                            Child(k, i + 1).type = "DEFINITION_DATA"
      <3> DEFINE f == Closed(tree, k)
      <3>1. f.node = k /\ f.todo = <<>> /\ DefinitionFits(tree, f)
        BY <1>1, <2>1, EveryNodeFits DEF Closed, Frame, Fits
      <3> HIDE DEF f
      <3> QED BY <2>1, <3>1 DEF DefinitionFits, Count, Kid, Child, NumChildren
    <2>2. ASSUME NEW k \in DOMAIN tree
          PROVE  \A i \in 1 .. NumChildren(k) - 1 :
                     Child(k, i).type = "DEFINITION" => Child(k, i + 1).type # "DEFINITION"
      <3>1. ListsApart(tree, k)
        BY <1>1, EveryNodeFits DEF Fits
      <3> QED BY <3>1 DEF ListsApart, Count, Kid, Child, NumChildren
    <2> QED BY <2>1, <2>2 DEF DefinitionsMerged
  <1> QED BY <1>1, TreeInvariance, PTL

\* HLIST_FL_BLOCK sticks: after an item that is a block, or a title followed
\* by a blank line, all items of a list are blocks, also when lists were
\* merged, and the list that is finished has the flag exactly when one of
\* its children has it.
THEOREM FlagsStick == Spec => []BlockFlagSticks
  <1>1. ASSUME TreeInv
        PROVE  BlockFlagSticks
    <2> SUFFICES ASSUME NEW k \in DOMAIN tree, tree[k].type \in {"LIST", "DEFINITION"}
                 PROVE  /\ \A i, j \in 1 .. NumChildren(k) :
                               i < j /\ Child(k, i).flag /\ Child(k, j).type # "DEFINITION_TITLE"
                                   => Child(k, j).flag
                        /\ ~IsOpen(k) =>
                               (tree[k].flag <=> \E i \in 1 .. NumChildren(k) : Child(k, i).flag)
      BY DEF BlockFlagSticks
    <2>1. PICK f : f.node = k /\ FlagFits(tree, f)
      BY <1>1, EveryNodeFits DEF Fits
    <2>2. ~IsOpen(k) => FlagFits(tree, Closed(tree, k))
      BY <1>1, EveryNodeFits DEF Fits
    <2>3. Closed(tree, k).node = k /\ Closed(tree, k).flag = tree[k].flag
      BY DEF Closed, Frame
    <2>4. \A i, j \in 1 .. NumChildren(k) :
              i < j /\ Child(k, i).flag /\ Child(k, j).type # "DEFINITION_TITLE"
                  => Child(k, j).flag
      BY <2>1 DEF FlagFits, Count, Kid, Child, NumChildren
    <2>5. ~IsOpen(k) => (tree[k].flag <=> \E i \in 1 .. NumChildren(k) : Child(k, i).flag)
      BY <2>2, <2>3 DEF FlagFits, Count, Kid, Child, NumChildren
    <2> QED BY <2>4, <2>5
  <1> QED BY <1>1, TreeInvariance, PTL

\* in_link_body is set only while a link is open: the parse of a link's text
\* always takes it back, and a parse that fails inside a link does not leave
\* it to the next parse of the same document object.
THEOREM LinkFlagEnds == Spec => []LinkFlagScoped
  <1>1. TreeInv => LinkFlagScoped
    BY DEF TreeInv, TInv, LinkOpen, LinkFlagScoped
  <1> QED BY <1>1, TreeInvariance, PTL

\* No step of a parse takes a node out of the tree or changes its number,
\* and only parse_definition gives a node another type and parent: to the
\* one-line paragraph that becomes the title of the list it opens.
THEOREM TitlesAlone == Spec => OnlyTitlesMove
  <1>1. IInv /\ [Next]_vars => [TitlesMove]_vars
    <2> SUFFICES ASSUME IInv, Next, status = "parsing", status' = "parsing"
                 PROVE  NodesStay
      BY DEF TitlesMove, NodesStay, NodeStays
    <2>1. ~Parse /\ ~Fail
      BY DEF Parse, Fail
    <2> QED BY <2>1, StepStays DEF Next
  <1> QED BY <1>1, Invariance, PTL DEF Spec, OnlyTitlesMove
=============================================================================
