----------------------------- MODULE Rendering -----------------------------
(***************************************************************************)
(* What the renderers share: the call mdown_render makes, the tree it      *)
(* passes and the order in which a renderer's rndr() walks it.  `todo' is  *)
(* what is left to do, in the order of the code: a node to render, which   *)
(* is replaced by the steps of its rndr(), or one of these steps.          *)
(***************************************************************************)
EXTENDS Integers, FiniteSets, SequencesExt

CONSTANTS
    Jobs,       \* the calls: what is rendered, how, with which flags
    Width       \* how many columns a word takes

VARIABLES
    type,       \* opts->type
    oflags,     \* opts->oflags
    tree,       \* the tree to render, a sequence of nodes, the root first
    todo,       \* what is left to do
    st          \* the state of the renderer, with its output

vars == <<type, oflags, tree, todo, st>>

NULL == 0
Root == 1

\* Text is a sequence of words, of blanks and of newlines.
Blanks == {" ", "\n"}

\* A node of the parse tree.  What is left of its union of attributes: a
\* text, a link, a number (of a list item or footnote, the level of a header,
\* the column of a cell, the columns of a table) and flags.
RenderNodes ==
    [type : STRING, chng : {"NONE", "INSERT", "DELETE"}, parent : Nat,
     children : Seq(Nat), text : Seq(STRING), link : Seq(STRING), num : Nat,
     fl : SUBSET STRING]

IsRenderTree(t) ==
    /\ t[Root].type = "ROOT" /\ t[Root].parent = NULL
    /\ \A n \in DOMAIN t :
        /\ t[n] \in RenderNodes
        /\ n # Root => t[n].parent \in 1 .. n - 1
        /\ ToSet(t[n].children) = {k \in DOMAIN t : t[k].parent = n}

ASSUME JobsAssumption == \A job \in Jobs : IsRenderTree(job.tree)

Type(n) == tree[n].type
Parent(n) == tree[n].parent
Kids(n) == tree[n].children

\* The nodes from the root down to n.
Path(n) ==
    LET p[k \in DOMAIN tree] ==
            IF k = Root THEN <<k>> ELSE Append(p[tree[k].parent], k)
    IN  p[n]

Above(n) == ToSet(Path(n)) \ {n}
Within(n, types) == \E k \in Above(n) : Type(k) \in types

\* The node before n among its siblings, and the one after it, or NULL.
Sibling(n, d) ==
    IF n = Root THEN NULL
    ELSE LET s == Kids(Parent(n))
             i == SelectInSeq(s, LAMBDA k : k = n) + d
         IN  IF i \in DOMAIN s THEN s[i] ELSE NULL

Prev(n) == Sibling(n, -1)
Following(n) == Sibling(n, 1)

\* The steps f(k) for the nodes of s in their order.
Each(s, f(_)) == FlattenSeq([i \in DOMAIN s |-> f(s[i])])

\* A step of the work, on a node or not, with what else it needs.
Op(op, n) == [op |-> op, n |-> n]
Rndr(n) == << Op("rndr", n) >>
RndrKids(n) == Each(Kids(n), Rndr)

At(op) == todo # <<>> /\ Head(todo).op = op
Here == Head(todo).n

\* The step at hand is replaced by others, or done.
Goto(steps) == todo' = steps \o Tail(todo)
Done == todo' = Tail(todo)

\* What is put into an output: words and blanks of texts, newlines, and what
\* a renderer adds, each with the node it is for, the columns it takes, the
\* number it shows, the name it has and, where it is kept, what it spells.
Tok(t, n, cols) == [t |-> t, n |-> n, cols |-> cols, id |-> 0, tag |-> "", text |-> ""]
Named(t, n, name) == [Tok(t, n, 0) EXCEPT !.tag = name]
Numbering(t, n, num) == [Tok(t, n, 0) EXCEPT !.id = num]

\* A content between what opens and what closes elements of these names.
Wrapped(n, names, content) ==
    [i \in DOMAIN names |-> Named("open", n, names[i])]
    \o content
    \o [i \in DOMAIN names |-> Named("close", n, names[Len(names) - i + 1])]

\* The delimiters of a formula.
MathNames(n) == IF "BLOCK" \in tree[n].fl THEN <<"[">> ELSE <<"(">>

Put(s, toks) == [s EXCEPT !.ob = @ \o toks]
Cols(toks) == FoldLeft(LAMBDA sum, tok : sum + tok.cols, 0, toks)

WordTok(n, word) ==
    CASE word = " " -> Tok("sp", n, 1)
      [] word = "\n" -> Tok("nl", n, 0)
      [] OTHER -> Tok("word", n, Width[word])

TextToks(n, text) == [i \in DOMAIN text |-> [WordTok(n, text[i]) EXCEPT !.text = text[i]]]

\* A node's content is rendered into a buffer of its own, and put into that
\* of its parent as part of what the node puts.
EnterBuf(s) == [s EXCEPT !.outer = Append(@, s.ob), !.ob = <<>>]
LeaveBuf(s, out) ==
    [s EXCEPT !.ob = Last(s.outer) \o out, !.outer = SubSeq(@, 1, Len(@) - 1)]

\* What is left behind leading white space.
Trimmed(toks) ==
    LET first == SelectInSeq(toks, LAMBDA tok : tok.t \notin {"sp", "nl"})
    IN  IF first = 0 THEN <<>> ELSE SubSeq(toks, first, Len(toks))

\* The metadata n, and the level of headers it may set.
PutMeta(s, n, content) ==
    LET key == tree[n].text
    IN  [s EXCEPT !.mq = Append(@, [key |-> key, value |-> content]),
                  !.offs = IF key = <<"shiftheadinglevelby">> THEN tree[n].num + 1
                           ELSE IF key = <<"baseheaderlevel">> THEN tree[n].num ELSE @]

\* The last value of a key, or <<>>.
MetaOf(s, key) ==
    LET last == SelectLastInSeq(s.mq, LAMBDA m : m.key = key)
    IN  IF last = 0 THEN <<>> ELSE s.mq[last].value

\* The one of a revision control system goes before the other.
EitherMeta(s, rcs, key) == IF MetaOf(s, rcs) # <<>> THEN MetaOf(s, rcs) ELSE MetaOf(s, key)

\* The sequence without its last element.
Cut(s) == SubSeq(s, 1, Len(s) - 1)
=============================================================================
