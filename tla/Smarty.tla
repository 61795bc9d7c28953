------------------------------- MODULE Smarty -------------------------------
(***************************************************************************)
(* smarty() of smartypants.c: quotes, dashes, fractions and signs in the   *)
(* text of a parse tree become entities.  The tree is changed while it is  *)
(* walked: the text node at hand is split around the entity, and what is   *)
(* left of it is visited next.  Whether a quote opens or closes depends on *)
(* the character before it, of which the walk remembers if it is a word's  *)
(* boundary, and on the one behind it, looked for in the following nodes.  *)
(*                                                                         *)
(* A frame is a call of smarty_block or smarty_span: the node whose        *)
(* children it visits and the child it is at, or 0.                        *)
(***************************************************************************)
EXTENDS Integers, FiniteSetsExt, SequencesExt

CONSTANT Trees      \* the trees smarty() is called with

VARIABLES
    given,          \* the tree as it was
    tree,
    frames,
    left_wb         \* s->left_wb

vars == <<given, tree, frames, left_wb>>

Root == 1
OpaqueTypes ==
    {"BLOCKCODE", "BLOCKHTML", "LINK_AUTO", "CODESPAN", "MATH_BLOCK", "RAW_HTML", "ENTITY"}
SpanTypes ==
    {"DOUBLE_EMPHASIS", "EMPHASIS", "HIGHLIGHT", "IMAGE", "LINEBREAK", "LINK",
     "TRIPLE_EMPHASIS", "STRIKETHROUGH", "SUPERSCRIPT", "FOOTNOTE_REF"}

types(ty) ==
    CASE ty = "ROOT" -> "ROOT"
      [] ty = "NORMAL_TEXT" -> "TEXT"
      [] ty \in OpaqueTypes -> "OPAQUE"
      [] ty \in SpanTypes -> "SPAN"
      [] OTHER -> "BLOCK"

Kind(n) == types(tree[n].type)

-----------------------------------------------------------------------------
(***************************************************************************)
(* What is replaced, one sign of each kind: the longest first.             *)
(***************************************************************************)
Sym(key, ent) == [key |-> key, ent |-> ent]
syms ==
    << Sym(<<"(", "c", ")">>, "copy"), Sym(<<".", ".", ".">>, "hellip"),
       Sym(<<".", " ", ".", " ", ".">>, "hellip"),
       Sym(<<"-", "-", "-">>, "mdash"), Sym(<<"-", "-">>, "ndash") >>
syms2 == << Sym(<<"1", "/", "4", "t", "h">>, "frac14"), Sym(<<"1", "/", "4">>, "frac14") >>

LeftQuotes == {"ldquo", "lsquo"}

IsWbL(c) == c \in {" ", "\n", "(", "["}
IsWbR(c) == c \in {" ", "\n", "(", ")", "[", "]", ".", "-", "/", "\"", "'"}

\* What replaces the text that begins with c, where wb says that a word may
\* begin there, Fits that a sign is there, and Ends that a word may end
\* behind so many characters of it.
NoSym == Sym(<<>>, "")
FirstOf(list, Is(_)) ==
    LET j == SelectInSeq(list, Is) IN IF j = 0 THEN NoSym ELSE list[j]

Replacement(c, wb, Fits(_), Ends(_)) ==
    CASE c \in {".", "(", "-"} -> FirstOf(syms, LAMBDA s : Fits(s.key))
      [] c = "\"" /\ wb -> Sym(<<c>>, "ldquo")
      [] c = "\"" /\ ~ wb /\ Ends(1) -> Sym(<<c>>, "rdquo")
      [] c = "'" -> Sym(<<c>>, IF wb THEN "lsquo" ELSE "rsquo")
      [] c = "1" /\ wb ->
            FirstOf(syms2, LAMBDA s : Fits(s.key) /\ Ends(Len(s.key)))
      [] OTHER -> NoSym

-----------------------------------------------------------------------------
(***************************************************************************)
(* The word boundary to the right.                                         *)
(***************************************************************************)

\* The nodes of t in the order of the text.
InOrder(t) ==
    LET walk[n \in DOMAIN t] ==
            <<n>> \o FlattenSeq([i \in DOMAIN t[n].children |-> walk[t[n].children[i]]])
    IN walk[Root]

\* Behind a text, the first node decides that is a block, or opaque, or has
\* text itself.
RightWbBehind(n) ==
    LET order == InOrder(tree)
        here == SelectInSeq(order, LAMBDA k : k = n)
        next == SelectInSubSeq(order, here + 1, Len(order), LAMBDA k :
                    Kind(k) # "SPAN" /\ ~ (Kind(k) = "TEXT" /\ tree[k].text = <<>>))
    IN CASE next = 0 -> TRUE
         [] next # 0 /\ Kind(order[next]) = "TEXT" -> IsWbR(Head(tree[order[next]].text))
         [] OTHER -> Kind(order[next]) = "BLOCK"

RightWb(n, p) ==
    IF p <= Len(tree[n].text) THEN IsWbR(tree[n].text[p]) ELSE RightWbBehind(n)

-----------------------------------------------------------------------------
Frame(node) == [node |-> node, at |-> IF tree[node].children = <<>> THEN 0
                                      ELSE Head(tree[node].children)]

Init ==
    /\ given \in Trees /\ tree = given
    /\ frames = <<Frame(Root)>>
    /\ left_wb = TRUE

Top == Last(frames)
At(kind) == frames # <<>> /\ Top.at # 0 /\ Kind(Top.at) = kind

\* The sibling behind n in the tree t.
NextIn(t, n) ==
    LET s == t[t[n].parent].children
        i == SelectInSeq(s, LAMBDA k : k = n) + 1
    IN IF i \in DOMAIN s THEN s[i] ELSE 0

\* The loop of the last of the calls goes on behind n.
Behind(calls, t, n) == [calls EXCEPT ![Len(calls)].at = NextIn(t, n)]

\* smarty_block for a block, with a state of its own; smarty_span calls
\* abort() when there is one below it.
EnterBlock ==
    /\ At("BLOCK") /\ Kind(Top.node) # "SPAN"
    /\ frames' = Append(frames, Frame(Top.at))
    /\ left_wb' = TRUE
    /\ UNCHANGED <<given, tree>>

EnterSpan ==
    /\ At("SPAN")
    /\ frames' = Append(frames, Frame(Top.at))
    /\ UNCHANGED <<given, tree, left_wb>>

PassOpaque ==
    /\ At("OPAQUE")
    /\ frames' = Behind(frames, tree, Top.at)
    /\ left_wb' = FALSE
    /\ UNCHANGED <<given, tree>>

Leave ==
    LET calls == Front(frames)
    IN /\ frames # <<>> /\ Top.at = 0
       /\ frames' = IF calls = <<>> THEN <<>> ELSE Behind(calls, tree, Top.node)
       /\ left_wb' = (left_wb \/ Kind(Top.node) # "SPAN")
       /\ UNCHANGED <<given, tree>>

\* Whether a word may begin at place i of the text of n, and what is there.
LeftWb(n, i) == IF i = 1 THEN left_wb ELSE IsWbL(tree[n].text[i - 1])
Found(n, i) ==
    LET text == tree[n].text
    IN Replacement(text[i], LeftWb(n, i),
           LAMBDA key : IsPrefix(key, SubSeq(text, i, Len(text))),
           LAMBDA size : RightWb(n, i + size))

\* smarty_entity: the text of n up to i stays, the entity is put behind it,
\* and behind that what is left, if anything is.
Split(n, i, sym) ==
    LET t == tree[n]
        rest == SubSeq(t.text, i + Len(sym.key), Len(t.text))
        k == Len(tree) + 1
        new == IF rest = <<>> THEN <<k>> ELSE <<k, k + 1>>
        siblings == tree[t.parent].children
        place == SelectInSeq(siblings, LAMBDA c : c = n)
    IN [tree EXCEPT ![n].text = SubSeq(@, 1, i - 1),
                    ![t.parent].children = SubSeq(siblings, 1, place) \o new
                                           \o SubSeq(siblings, place + 1, Len(siblings))]
       \o << [t EXCEPT !.type = "ENTITY", !.text = <<sym.ent>>, !.children = <<>>] >>
       \o (IF rest = <<>> THEN <<>> ELSE << [t EXCEPT !.text = rest] >>)

\* Where the loop of smarty_block or smarty_span is behind a replacement.
LoopAt_Same(n, sym) == n
LoopAt(n, sym) == IF sym.ent \in LeftQuotes THEN Len(tree) + 1 ELSE n

\* smarty_hbuf: up to the first sign in the text of n.  An entity is visited
\* as the opaque node it is, but not one that opens a quote.
PassText ==
    /\ At("TEXT")
    /\ LET n == Top.at
           text == tree[n].text
           found == {i \in DOMAIN text : Found(n, i) # NoSym}
           first == Min(found)
           sym == Found(n, first)
       IN IF found = {}
          THEN /\ frames' = Behind(frames, tree, n)
               /\ left_wb' = IF text = <<>> THEN left_wb ELSE IsWbL(Last(text))
               /\ UNCHANGED tree
          ELSE /\ tree' = Split(n, first, sym)
               /\ frames' = Behind(frames, tree', LoopAt(n, sym))
               /\ left_wb' = LeftWb(n, first)
    /\ UNCHANGED given

Returned == frames = <<>> /\ UNCHANGED vars

Next == EnterBlock \/ EnterSpan \/ PassOpaque \/ PassText \/ Leave \/ Returned

Spec == Init /\ [][Next]_vars

-----------------------------------------------------------------------------
(* The property. *)

\* A tree as one line of characters, with what is opaque as one character,
\* the places where blocks begin and end, and hard line breaks.
Item(kind, c, n) == [kind |-> kind, c |-> c, n |-> n]
Line(t) ==
    LET line[n \in DOMAIN t] ==
            LET kids == FlattenSeq([i \in DOMAIN t[n].children |-> line[t[n].children[i]]])
                kind == types(t[n].type)
            IN CASE kind = "TEXT" -> [i \in DOMAIN t[n].text |-> Item("char", t[n].text[i], n)]
                 [] kind = "OPAQUE" ->
                       << Item("opaque", IF t[n].type = "ENTITY" THEN t[n].text[1]
                                         ELSE t[n].type, n) >>
                 [] t[n].type = "LINEBREAK" -> << Item("break", "", n) >>
                 [] kind = "SPAN" -> kids
                 [] OTHER -> << Item("begin", "", n) >> \o kids \o << Item("end", "", n) >>
    IN line[Root]

Shown(s) == [i \in DOMAIN s |-> s[i].c]

\* The line with its signs replaced from left to right.  Between words is, by
\* the manual (mdown.5:897), white space or the end of a block or of the file,
\* or punctuation; a quote behind one that opens opens as well (the tests
\* smarty-dquotes-within-squotes and smarty-squotes-within-dquotes).
Smart(s) ==
    LET Ends(p) ==
            CASE s[p].kind = "char" -> IsWbR(s[p].c)
              [] s[p].kind = "opaque" -> FALSE
              [] OTHER -> TRUE
        Fits(p, key) ==
            /\ IsPrefix(key, Shown(SubSeq(s, p, Len(s))))
            /\ \A q \in p .. p + Len(key) - 1 : s[q].n = s[p].n
        smart[p \in 1 .. Len(s) + 1, wb \in BOOLEAN] ==
            LET sym == Replacement(s[p].c, wb, LAMBDA key : Fits(p, key),
                                   LAMBDA size : Ends(p + size))
            IN IF p > Len(s) THEN <<>>
               ELSE IF s[p].kind # "char"
               THEN <<s[p].c>> \o smart[p + 1, s[p].kind # "opaque"]
               ELSE IF sym = NoSym THEN <<s[p].c>> \o smart[p + 1, IsWbL(s[p].c)]
               ELSE <<sym.ent>> \o smart[p + Len(sym.key), sym.ent \in LeftQuotes]
    IN smart[1, TRUE]

\* When smarty() returns, the text is the one the manual has for a single
\* line: nothing is lost or moved where texts are split, and which nodes and
\* spans the text is in, what was inserted before, and how deep the walk is,
\* does not change what a quote or a dash becomes.
SmartAsOneLine == frames = <<>> => Shown(Line(tree)) = Smart(Line(given))
=============================================================================
