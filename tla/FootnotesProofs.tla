-------------------------- MODULE FootnotesProofs --------------------------
(***************************************************************************)
(* The parser implements FootnoteOrder: a proof, for every kind of input,  *)
(* every maxdepth and every set of footnotes, that each step of Parser     *)
(* maps to a step of FootnoteOrder or changes nothing it speaks of.  The   *)
(* fairness of FootnoteOrder is left to the run.                           *)
(***************************************************************************)
EXTENDS ParserFootnotes, ParserTreeProofs, FiniteSetTheorems

\* The nodes of type t in tree g.
Marks(g, t) == {k \in DOMAIN g : g[k].type = t}

\* They bear the numbers from 1 to c in the order of their identifiers.
Numbered(g, t, c) ==
    /\ \A k \in Marks(g, t) : g[k].num \in 1 .. c
    /\ \A j, k \in Marks(g, t) : j < k => g[j].num < g[k].num
    /\ \A l \in 1 .. c : \E k \in Marks(g, t) : g[k].num = l

\* Each number up to doc->foots is that of one footnote.
Assigned ==
    /\ \A f \in Footnotes : fnum[f] \in 0 .. foots
    /\ \A f, g \in Footnotes : fnum[f] = fnum[g] /\ fnum[f] # 0 => f = g
    /\ \A l \in 1 .. foots : \E f \in Footnotes : fnum[f] = l

\* What parse_footnote_list has put out: nothing before it runs, as far as
\* its loop is while it runs, all footnotes after it.
Emitted ==
    IF status = "parsing" /\ Len(stack[1].todo) > 1 THEN 0
    ELSE IF status = "parsing" /\ Len(stack) > 1 THEN stack[2].i
    ELSE foots

\* The calls left to mdown_doc_parse.
Phases ==
    {<<"docheader", "block", "footnotes", "footer">>, <<"block", "footnotes", "footer">>,
     <<"footnotes", "footer">>, <<"footer">>, <<>>}

\* parse_footnote_list runs before the footer and above mdown_doc_parse, and
\* has reached no footnote that is not referenced.  Above it functions run as
\* long as it has its loop.
Called ==
    status = "parsing" =>
        /\ stack[1].todo \in Phases
        /\ Len(stack) > 1 /\ tree[stack[2].node].type = "FOOTNOTES_BLOCK"
               => stack[1].todo = <<"footer">>
        /\ Len(stack) > 1 /\ stack[1].todo = <<"footer">> =>
               \/ stack[2].todo = <<"defs">> /\ stack[2].i <= foots
               \/ stack[2].todo = <<>> /\ stack[2].i = foots /\ Len(stack) = 2
        /\ stack[1].todo = <<>> => Len(stack) = 1

Counted ==
    /\ status \in {"parsing", "done"} =>
           Numbered(tree, "FOOTNOTE_REF", foots) /\ Numbered(tree, "FOOTNOTE_DEF", Emitted)
    /\ status \in {"idle", "failed"} => DOMAIN tree = {}

FootnotesInv == Assigned /\ Called /\ Counted

-----------------------------------------------------------------------------
(* The nodes of a type in their order *)

\* A set whose members bear the numbers from 1 to c, each one, has c members.
LEMMA CountMarks ==
    ASSUME NEW g, NEW M, NEW c \in Nat,
           \A k \in M : g[k].num \in 1 .. c,
           \A j, k \in M : g[j].num = g[k].num => j = k,
           \A l \in 1 .. c : \E k \in M : g[k].num = l
    PROVE  Cardinality(M) = c
  <1> DEFINE h == [l \in 1 .. c |-> CHOOSE k \in M : g[k].num = l]
  <1>1. \A l \in 1 .. c : h[l] \in M /\ g[h[l]].num = l
    OBVIOUS
  <1>2. h \in [1 .. c -> M]
    BY <1>1
  <1>3. \A l, o \in 1 .. c : h[l] = h[o] => l = o
    BY <1>1
  <1>4. \A k \in M : \E l \in 1 .. c : h[l] = k
    BY <1>1
  <1> HIDE DEF h
  <1>5. h \in Bijection(1 .. c, M)
    BY <1>2, <1>3, <1>4 DEF Bijection, Injection, Surjection, IsInjective
  <1>6. ExistsBijection(1 .. c, M)
    BY <1>5 DEF ExistsBijection
  <1>7. IsFiniteSet(1 .. c) /\ Cardinality(1 .. c) = c
    BY FS_Interval
  <1> QED BY <1>6, <1>7, FS_Bijection

LEMMA NumberedMarks ==
    ASSUME NEW g, NEW t, NEW c \in Nat, DOMAIN g \subseteq Nat, Numbered(g, t, c)
    PROVE  /\ Cardinality(Marks(g, t)) = c
           /\ \A i \in 1 .. c :
                  g[CHOOSE k \in Marks(g, t) :
                        Cardinality({j \in Marks(g, t) : j <= k}) = i].num = i
  <1> DEFINE M == Marks(g, t)
             Upto(k) == {j \in M : j <= k}
  <1>1. \A k \in M : k \in Nat /\ g[k].num \in 1 .. c
    BY DEF Marks, Numbered
  <1>2. \A j, k \in M : /\ j < k => g[j].num < g[k].num
                        /\ g[j].num = g[k].num => j = k
                        /\ j <= k <=> g[j].num <= g[k].num
    <2> SUFFICES ASSUME NEW j \in M, NEW k \in M
                 PROVE  /\ j < k => g[j].num < g[k].num
                        /\ g[j].num = g[k].num => j = k
                        /\ j <= k <=> g[j].num <= g[k].num
      OBVIOUS
    <2>1. (j < k => g[j].num < g[k].num) /\ (k < j => g[k].num < g[j].num)
      BY DEF Numbered
    <2>2. j \in Nat /\ k \in Nat /\ g[j].num \in Nat /\ g[k].num \in Nat
      BY <1>1
    <2> QED BY <2>1, <2>2
  <1>3. \A l \in 1 .. c : \E k \in M : g[k].num = l
    BY DEF Numbered
  <1> HIDE DEF M
  <1>4. Cardinality(M) = c
    <2>1. \A k \in M : g[k].num \in 1 .. c
      BY <1>1
    <2>2. \A j, k \in M : g[j].num = g[k].num => j = k
      BY <1>2
    <2> QED BY <1>3, <2>1, <2>2, CountMarks
  <1>5. ASSUME NEW k \in M
        PROVE  Cardinality(Upto(k)) = g[k].num
    <2> DEFINE d == g[k].num
    <2>1. d \in Nat /\ d \in 1 .. c
      BY <1>1, <1>5
    <2>2. \A j \in Upto(k) : g[j].num \in 1 .. d
      BY <1>1, <1>2, <1>5
    <2>3. \A l \in 1 .. d : \E j \in Upto(k) : g[j].num = l
      BY <1>1, <1>2, <1>3, <1>5, <2>1
    <2>4. \A i, j \in Upto(k) : g[i].num = g[j].num => i = j
      BY <1>2
    <2> HIDE DEF d, Upto
    <2>5. Cardinality(Upto(k)) = d
      BY <2>1, <2>2, <2>3, <2>4, CountMarks
    <2> QED BY <2>5 DEF d
  <1>6. ASSUME NEW i \in 1 .. c
        PROVE  g[CHOOSE k \in M : Cardinality({j \in M : j <= k}) = i].num = i
    <2> DEFINE k == CHOOSE k \in M : Cardinality({j \in M : j <= k}) = i
    <2>1. \E q \in M : Cardinality({j \in M : j <= q}) = i
      BY <1>3, <1>5, <1>6
    <2>2. k \in M /\ Cardinality({j \in M : j <= k}) = i
      BY <2>1
    <2> HIDE DEF k
    <2>3. g[k].num = i
      BY <1>5, <2>2
    <2> QED BY <2>3 DEF k
  <1> QED BY <1>4, <1>6 DEF M

\* The footnotes of a type whose nodes are numbered.
LEMMA Footnoted ==
    ASSUME NEW t, NEW c \in Nat, DOMAIN tree \subseteq Nat, Numbered(tree, t, c)
    PROVE  FootnotesOf(t) = [i \in 1 .. c |-> Named(i)]
  <1> DEFINE M == Marks(tree, t)
             Nth(i) == CHOOSE k \in M : Cardinality({j \in M : j <= k}) = i
  <1>1. /\ Cardinality(M) = c
        /\ \A i \in 1 .. c : tree[Nth(i)].num = i
    BY NumberedMarks
  <1>2. FootnotesOf(t) = [i \in 1 .. Cardinality(M) |-> Named(tree[Nth(i)].num)]
    BY DEF FootnotesOf, Marks
  <1> HIDE DEF M, Nth
  <1>3. FootnotesOf(t) = [i \in 1 .. c |-> Named(tree[Nth(i)].num)]
    BY <1>1, <1>2
  <1> QED BY <1>1, <1>3

LEMMA FootnotedNext ==
    ASSUME NEW t, NEW c \in Nat, DOMAIN tree' \subseteq Nat, Numbered(tree', t, c)
    PROVE  FootnotesOf(t)' = [i \in 1 .. c |-> Named(i)']
  <1> DEFINE M == Marks(tree', t)
             Nth(i) == CHOOSE k \in M : Cardinality({j \in M : j <= k}) = i
  <1>1. /\ Cardinality(M) = c
        /\ \A i \in 1 .. c : tree'[Nth(i)].num = i
    BY NumberedMarks
  <1>2. FootnotesOf(t)' = [i \in 1 .. Cardinality(M) |->
                               CHOOSE f \in Footnotes : fnum'[f] = tree'[Nth(i)].num]
    BY DEF FootnotesOf, Marks, Named
  <1> HIDE DEF M, Nth
  <1>3. FootnotesOf(t)' = [i \in 1 .. c |->
                               CHOOSE f \in Footnotes : fnum'[f] = tree'[Nth(i)].num]
    BY <1>1, <1>2
  <1>4. FootnotesOf(t)' = [i \in 1 .. c |-> CHOOSE f \in Footnotes : fnum'[f] = i]
    BY <1>1, <1>3
  <1> QED BY <1>4 DEF Named

-----------------------------------------------------------------------------
(* How steps change the stack and the tree *)

FootnoteTypes == {"FOOTNOTE_REF", "FOOTNOTE_DEF"}
OtherTypes == Types \ {"FOOTNOTE_REF", "FOOTNOTE_DEF", "FOOTNOTES_BLOCK"}

\* No footnote is added, and those that are there stay.
MarksStay ==
    /\ NodesStay
    /\ \A k \in DOMAIN tree' \ DOMAIN tree : tree'[k].type \notin FootnoteTypes

\* A function is in a call that is not about the document as a whole, and goes
\* on as f: mdown_doc_parse stays before its list of blocks or leaves it.
Ordinary(c, f) ==
    /\ Doing(c) /\ c \notin {"docheader", "footnotes", "footer", "defs"}
    /\ Continues(f)
    /\ c = "block" => f.todo \in {Top.todo, Tail(Top.todo)}

\* It goes on, or calls a function whose node is not the footnotes' block.
StackStep ==
    \E c, f : /\ Ordinary(c, f)
             /\ \/ IsSet(stack', f)
                \/ \E e : IsPushed(stack', f, e) /\ tree'[e.node].type # "FOOTNOTES_BLOCK"

LEMMA MarksKept ==
    ASSUME NodesStay, NEW t \in FootnoteTypes,
           \A k \in DOMAIN tree' \ DOMAIN tree : tree'[k].type # t,
           NEW c, Numbered(tree, t, c)
    PROVE  Numbered(tree', t, c)
  <1>1. Marks(tree', t) = Marks(tree, t)
    BY DEF NodesStay, NodeStays, Marks, FootnoteTypes
  <1>2. \A k \in Marks(tree, t) : tree'[k].num = tree[k].num
    BY DEF NodesStay, NodeStays, Marks
  <1> QED BY <1>1, <1>2 DEF Numbered

\* A node added to the tree.
LEMMA GrownMarks ==
    ASSUME NEW t, NEW num, NEW flag, tree' = Grown(t, num, flag)
    PROVE  /\ DOMAIN tree' = DOMAIN tree \cup {nodes}
           /\ tree'[nodes] = Node(t, current, num, flag)
           /\ tree'[nodes].type = t /\ tree'[nodes].num = num
  BY DEF Grown, Node

\* The call at hand is one of the calls of the top frame's node.
LEMMA OneCall ==
    ASSUME TreeInv, NEW c, Doing(c)
    PROVE  /\ stack # <<>> /\ status = "parsing"
           /\ Len(stack) \in Nat \ {0} /\ Top = stack[Len(stack)]
           /\ Top \in Frames /\ Top.todo \in Seq(Calls) /\ Top.todo # <<>>
           /\ Head(Top.todo) = c /\ \A d : Doing(d) => d = c
           /\ MayDo(tree[Top.node].type, c)
           /\ c \in {"docheader", "footnotes", "footer"} => Len(stack) = 1
           /\ c = "defs" => Len(stack) = 2 /\ tree[stack[2].node].type = "FOOTNOTES_BLOCK"
  <1> DEFINE n == Len(stack)
  <1>1. IInv /\ stack # <<>>
    BY DEF Doing, TreeInv
  <1>2. /\ status = "parsing" /\ n \in Nat \ {0} /\ Top = stack[n] /\ Top \in Frames
        /\ \A i \in 1 .. n : stack[i] \in Frames /\ stack[i].node \in DOMAIN tree
    BY <1>1, OpenNodes
  <1>3. Top.todo \in Seq(Calls) /\ Top.todo # <<>> /\ Head(Top.todo) = c
    BY <1>2 DEF Doing, Frames
  <1>4. MayDo(tree[Top.node].type, c)
    <2>1. CallsFit(tree, Top)
      BY <1>2 DEF TreeInv, TInv, OpenFit, Fits
    <2>2. 1 \in 1 .. Len(Top.todo) /\ Top.todo[1] = c
      BY <1>3
    <2> QED BY <2>1, <2>2 DEF CallsFit
  <1>5. \A i \in 2 .. n : /\ stack[i].node # 0
                          /\ tree[stack[i].node].parent = stack[i - 1].node
                          /\ stack[i - 1].node \in DOMAIN tree
    <2> SUFFICES ASSUME NEW i \in 2 .. n
                 PROVE  /\ stack[i].node # 0
                        /\ tree[stack[i].node].parent = stack[i - 1].node
                        /\ stack[i - 1].node \in DOMAIN tree
      OBVIOUS
    <2>1. i \in 1 .. n /\ i - 1 \in 1 .. n /\ 1 \in 1 .. n /\ i # 1
      BY <1>2
    <2>2. stack[1].node = 0 /\ (stack[i].node = stack[1].node => i = 1)
      BY <1>1, <1>2, <2>1 DEF IInv, OpenPath, StackDistinct
    <2>3. tree[stack[i].node].parent = stack[i - 1].node
      BY <1>1, <1>2, <2>1 DEF IInv, OpenPath
    <2> QED BY <1>2, <2>1, <2>2, <2>3
  <1> HIDE DEF n
  <1>6. ASSUME NEW i \in 2 .. n
        PROVE  MayHold(tree[stack[i - 1].node].type, tree[stack[i].node].type)
    <2> DEFINE k == stack[i].node
               q == stack[i - 1].node
    <2>1. k \in DOMAIN tree \ {0} /\ q \in DOMAIN tree /\ tree[k].parent = q
      BY <1>2, <1>5, <1>6
    <2>2. PICK j \in 1 .. Count(tree, tree[k].parent) : tree[tree[k].parent].children[j] = k
      BY <2>1 DEF TreeInv, TInv, Placed, PlacedIn
    <2> HIDE DEF k, q
    <2>3. j \in 1 .. NumChildren(q) /\ Child(q, j) = tree[k]
      BY <2>1, <2>2 DEF Count, NumChildren, Child
    <2>4. MayHold(tree[q].type, tree[k].type)
      BY <2>1, <2>3, EveryKidFits
    <2> QED BY <2>4 DEF k, q
  <1>7. \A i \in 2 .. n : tree[stack[i].node].type # "ROOT"
    BY <1>6 DEF MayHold, Containers, Lines, PlainBlocks, SpanTypes
  <1>8. ASSUME c \in {"docheader", "footnotes", "footer"}
        PROVE  n = 1
    <2>1. tree[stack[n].node].type = "ROOT"
      BY <1>2, <1>4, <1>8 DEF MayDo
    <2>2. n \in Nat \ {0} /\ ~(n \in 2 .. n)
      BY <1>2, <1>7, <2>1
    <2> QED BY <2>2
  <1>9. ASSUME c = "defs"
        PROVE  n = 2 /\ tree[stack[2].node].type = "FOOTNOTES_BLOCK"
    <2>1. tree[stack[n].node].type = "FOOTNOTES_BLOCK"
      BY <1>2, <1>4, <1>9 DEF MayDo
    <2>2. n # 1
      <3>1. tree[stack[1].node].type = "ROOT"
        BY <1>1, <1>2 DEF TreeInv, RootOpen, IInv, OpenPath
      <3> QED BY <2>1, <3>1
    <2>3. n \in 2 .. n
      <3>1. n \in Nat \ {0}
        BY <1>2
      <3> QED BY <2>2, <3>1
    <2>4. tree[stack[n - 1].node].type = "ROOT"
      BY <1>6, <2>1, <2>3 DEF MayHold, Containers, Lines, PlainBlocks, SpanTypes
    <2>5. n - 1 = 1
      <3>1. n - 1 \in Nat /\ n - 1 >= 1 /\ n \in Nat /\ n - 1 <= n
        BY <1>2, <2>2 DEF n
      <3>2. ~(n - 1 \in 2 .. n)
        BY <1>7, <2>4
      <3> QED BY <3>1, <3>2
    <2>6. n = 2
      BY <1>2, <2>5 DEF n
    <2> QED BY <2>1, <2>6
  <1> QED BY <1>1, <1>2, <1>3, <1>4, <1>8, <1>9 DEF Doing, n

-----------------------------------------------------------------------------
(* The steps in which mdown_doc_parse and parse_footnote_list only wait *)

LEMMA OrdinaryPush ==
    ASSUME TreeInv, NEW c, NEW f, Ordinary(c, f),
           NEW t \in OtherTypes, NEW num \in Nat, NEW flag \in BOOLEAN,
           NEW todo \in Seq(Calls), PushNode(t, num, flag, todo, f)
    PROVE  StackStep /\ MarksStay
  <1> DEFINE e == Frame(nodes, todo, flag)
  <1>1. /\ IInv /\ stack # <<>> /\ f \in Frames
        /\ nodes \in Nat /\ stack \in Seq(Frames)
        /\ tree' = Grown(t, num, flag) /\ stack' = Append(SetTop(f), e)
    BY DEF TreeInv, Ordinary, Doing, Continues, IInv, TypeOK, PushNode
  <1>2. e \in Frames /\ e.node = nodes
    BY <1>1, NewFrame
  <1> HIDE DEF e
  <1>3. IsPushed(stack', f, e)
    BY <1>1, <1>2, FramePushed
  <1>4. /\ DOMAIN tree' = DOMAIN tree \cup {nodes} /\ tree'[nodes].type = t
    BY <1>1, GrownMarks
  <1>5. NodesStay
    BY <1>1, GrownStays
  <1>6. StackStep
    BY <1>2, <1>3, <1>4 DEF StackStep, OtherTypes
  <1>7. MarksStay
    BY <1>4, <1>5 DEF MarksStay, FootnoteTypes, OtherTypes
  <1> QED BY <1>6, <1>7

\* The stack after a step that calls no function.
LEMMA OrdinarySet ==
    ASSUME TreeInv, NEW c, NEW f, Ordinary(c, f), stack' = SetTop(f)
    PROVE  StackStep
  <1>1. stack # <<>> /\ f \in Frames /\ stack \in Seq(Frames)
    BY DEF TreeInv, Ordinary, Doing, Continues, IInv, TypeOK
  <1>2. IsSet(stack', f)
    BY <1>1, FrameSet
  <1> QED BY <1>2 DEF StackStep

LEMMA OrdinaryLeaf ==
    ASSUME TreeInv, NEW c, NEW f, Ordinary(c, f),
           NEW t \in OtherTypes, NEW num \in Nat, NEW flag \in BOOLEAN,
           PushLeaf(t, num, flag, f)
    PROVE  StackStep /\ MarksStay
  <1>1. IInv /\ tree' = Grown(t, num, flag) /\ stack' = SetTop(f)
    BY DEF TreeInv, PushLeaf
  <1>3. /\ DOMAIN tree' = DOMAIN tree \cup {nodes} /\ tree'[nodes].type = t
    BY <1>1, GrownMarks
  <1>4. NodesStay
    BY <1>1, GrownStays
  <1>5. StackStep
    BY <1>1, OrdinarySet
  <1>2. MarksStay
    BY <1>3, <1>4 DEF MarksStay, FootnoteTypes, OtherTypes
  <1> QED BY <1>5, <1>2

\* The frames the actions pass on.
LEMMA OrdinaryTop ==
    ASSUME TreeInv, NEW c, Doing(c), c \notin {"docheader", "footnotes", "footer", "defs"}
    PROVE  /\ Ordinary(c, Top) /\ Ordinary(c, Rest)
           /\ \A k \in Nat : Ordinary(c, [Top EXCEPT !.i = k])
           /\ c # "block" => Ordinary(c, [Top EXCEPT !.todo = <<>>])
           /\ \A block, end \in BOOLEAN, loop \in {"items", "data"} :
                  c # "block" => Ordinary(c, AfterItem(block, end, loop))
           /\ tree[current].num \in Nat /\ Top.i \in Nat /\ Top.flag \in BOOLEAN
  <1>1. IInv /\ stack # <<>> /\ Top.todo # <<>> /\ Top \in Frames
    BY OneCall DEF TreeInv
  <1>2. /\ Continues(Top) /\ Continues(Rest)
        /\ tree[current].num \in Nat /\ Top.i \in Nat /\ Top.flag \in BOOLEAN
    BY <1>1, Doings
  <1>3. /\ \A k \in Nat : Continues([Top EXCEPT !.i = k])
        /\ Continues([Top EXCEPT !.todo = <<>>])
    BY <1>1, TopGoesOn
  <1>4. \A block, end \in BOOLEAN, loop \in {"items", "data"} :
            Continues(AfterItem(block, end, loop))
    BY <1>1, ItemGoesOn
  <1>5. \A k \in Nat : [Top EXCEPT !.i = k].todo = Top.todo
    BY <1>1, Callers
  <1>6. Rest.todo = Tail(Top.todo)
    BY <1>1 DEF Rest, Frames
  <1> QED BY <1>2, <1>3, <1>4, <1>5, <1>6 DEF Ordinary

LEMMA NewDefinitionOrdinary ==
    ASSUME TreeInv, NewDefinition
    PROVE  StackStep /\ MarksStay
  <1>1. IInv /\ Doing("block") /\ stack # <<>> /\ Ordinary("block", Top)
    BY OrdinaryTop DEF TreeInv, NewDefinition, Doing
  <1>2. PICK cur, kept, b :
            /\ stack' = Append(stack, Frame(nodes, <<"datum", "data">>, tree[cur].flag))
            /\ tree[cur].flag \in BOOLEAN
            /\ IsGrown(b, "DEFINITION")
            /\ IsDefinitionOpen(b, cur, kept, nodes)
    BY <1>1, NewDefinitionOpens
  <1> DEFINE e == Frame(nodes, <<"datum", "data">>, tree[cur].flag)
  <1>3. nodes \in Nat /\ stack \in Seq(Frames) /\ Top = stack[Len(stack)]
    BY <1>1 DEF IInv, TypeOK, Top
  <1>4. e \in Frames /\ e.node = nodes
    <2>1. <<"datum", "data">> \in Seq(Calls)
      BY DEF Calls
    <2> QED BY <1>2, <1>3, <2>1, NewFrame
  <1>5. stack' = Append(stack, e)
    BY <1>2
  <1> HIDE DEF e
  <1>6. IsPushed(stack', Top, e)
    <2>1. Len(stack) \in 1 .. Len(stack) /\ Len(stack) \in Nat
      BY <1>1, <1>3
    <2> QED BY <1>1, <1>3, <1>4, <1>5, <2>1, FrameAppended DEF IsPushed
  <1>7. /\ DOMAIN tree' = DOMAIN tree \cup {nodes} /\ tree'[nodes].type = "DEFINITION"
    BY <1>2 DEF IsGrown, IsDefinitionOpen, IsRetitled
  <1>8. StackStep
    BY <1>1, <1>4, <1>6, <1>7 DEF StackStep
  <1>9. NodesStay
    BY <1>1, NewDefinitionStays
  <1> QED BY <1>7, <1>8, <1>9 DEF MarksStay, FootnoteTypes

LEMMA MergeDefinitionOrdinary ==
    ASSUME TreeInv, MergeDefinition
    PROVE  StackStep /\ MarksStay
  <1>1. /\ IInv /\ Doing("block") /\ stack # <<>> /\ Ordinary("block", Top)
        /\ tree[Siblings[Len(Siblings) - 1]].type = "DEFINITION"
    BY OrdinaryTop DEF TreeInv, MergeDefinition, Doing, IsContinued
  <1>2. PICK cur, prev, kept, flag :
            /\ prev = Siblings[Len(Siblings) - 1]
            /\ stack' = Append(stack, Frame(prev, <<"datum", "data">>, flag))
            /\ prev \in Nat /\ flag \in BOOLEAN
            /\ IsDefinitionOpen(tree, cur, kept, prev)
    BY <1>1, MergeDefinitionOpens
  <1> DEFINE e == Frame(prev, <<"datum", "data">>, flag)
  <1>3. stack \in Seq(Frames) /\ Top = stack[Len(stack)]
    BY <1>1 DEF IInv, TypeOK, Top
  <1>4. e \in Frames /\ e.node = prev
    <2>1. <<"datum", "data">> \in Seq(Calls)
      BY DEF Calls
    <2> QED BY <1>2, <1>3, <2>1, NewFrame
  <1>5. stack' = Append(stack, e)
    BY <1>2
  <1> HIDE DEF e
  <1>6. IsPushed(stack', Top, e)
    <2>1. Len(stack) \in 1 .. Len(stack) /\ Len(stack) \in Nat
      BY <1>1, <1>3
    <2> QED BY <1>1, <1>3, <1>4, <1>5, <2>1, FrameAppended DEF IsPushed
  <1>7. /\ DOMAIN tree' = DOMAIN tree /\ tree'[prev].type = "DEFINITION"
    BY <1>1, <1>2 DEF IsDefinitionOpen, IsRetitled
  <1>8. StackStep
    BY <1>1, <1>4, <1>6, <1>7 DEF StackStep
  <1>9. NodesStay
    BY <1>1, MergeDefinitionStays
  <1> QED BY <1>7, <1>8, <1>9 DEF MarksStay, FootnoteTypes

LEMMA BlockStepOrdinary ==
    ASSUME TreeInv, BlockStep
    PROVE  StackStep /\ MarksStay
  <1> USE Lists DEF OtherTypes, Types, BlockTypes
  <1>1. CASE LeafBlock
    <2>1. PICK t \in {"HRULE", "BLOCKCODE", "BLOCKHTML"} : PushLeaf(t, 0, FALSE, Top)
      BY <1>1 DEF LeafBlock
    <2>2. Ordinary("block", Top)
      BY <1>1, OrdinaryTop DEF LeafBlock
    <2> QED BY <2>1, <2>2, OrdinaryLeaf
  <1>2. CASE ParseBlockquote
    <2>1. Ordinary("block", Top) /\ PushNode("BLOCKQUOTE", 0, FALSE, <<"block">>, Top)
      BY <1>2, OrdinaryTop DEF ParseBlockquote
    <2> QED BY <2>1, OrdinaryPush
  <1>3. CASE ParseParagraph
    <2>1. PICK lines \in {1, 2}, beoln \in BOOLEAN :
              PushNode("PARAGRAPH", lines, beoln, <<"inline">>, Top)
      BY <1>3 DEF ParseParagraph
    <2>2. Ordinary("block", Top) /\ lines \in Nat
      BY <1>3, OrdinaryTop DEF ParseParagraph
    <2> QED BY <2>1, <2>2, OrdinaryPush
  <1>4. CASE ParseHeader
    <2>1. Ordinary("block", Top) /\ PushNode("HEADER", 0, FALSE, <<"inline">>, Top)
      BY <1>4, OrdinaryTop DEF ParseHeader
    <2> QED BY <2>1, OrdinaryPush
  <1>5. CASE ParseList
    <2>1. Ordinary("block", Top) /\ PushNode("LIST", 0, FALSE, <<"item", "items">>, Top)
      BY <1>5, OrdinaryTop DEF ParseList
    <2> QED BY <2>1, OrdinaryPush
  <1>6. CASE ListItem
    <2>1. PICK c \in {"item", "items"} : Doing(c)
      BY <1>6 DEF ListItem
    <2>2. /\ Top.flag \in BOOLEAN
          /\ \A block, end \in BOOLEAN : Ordinary(c, AfterItem(block, end, "items"))
      BY <2>1, OrdinaryTop
    <2>3. PICK empty \in BOOLEAN, end \in BOOLEAN :
              \E calls \in ItemCalls(Top.flag \/ empty) :
                  PushNode("LISTITEM", 0, Top.flag \/ empty, calls,
                           AfterItem(Top.flag \/ empty, end, "items"))
      BY <1>6 DEF ListItem
    <2>4. (Top.flag \/ empty) \in BOOLEAN
      BY <2>2, BothFlags
    <2>5. PICK calls \in ItemCalls(Top.flag \/ empty) :
              PushNode("LISTITEM", 0, Top.flag \/ empty, calls,
                       AfterItem(Top.flag \/ empty, end, "items"))
      BY <2>3
    <2>8. calls \in Seq(Calls)
      BY <2>5 DEF ItemCalls
    <2> DEFINE block == Top.flag \/ empty
    <2> HIDE DEF block
    <2>6. block \in BOOLEAN /\ PushNode("LISTITEM", 0, block, calls, AfterItem(block, end, "items"))
      BY <2>4, <2>5 DEF block
    <2>7. Ordinary(c, AfterItem(block, end, "items"))
      BY <2>2, <2>6
    <2> QED BY <2>6, <2>7, <2>8, OrdinaryPush
  <1>7. CASE NewDefinition
    BY <1>7, NewDefinitionOrdinary
  <1>8. CASE MergeDefinition
    BY <1>8, MergeDefinitionOrdinary
  <1>9. CASE DefinitionData
    <2>1. PICK c \in {"datum", "data"} : Doing(c)
      BY <1>9 DEF DefinitionData
    <2>2. /\ Top.flag \in BOOLEAN
          /\ \A block, end \in BOOLEAN : Ordinary(c, AfterItem(block, end, "data"))
      BY <2>1, OrdinaryTop
    <2>3. PICK empty \in BOOLEAN, end \in BOOLEAN :
              PushNode("DEFINITION_DATA", 0, Top.flag \/ empty, <<"listitem">>,
                       AfterItem(Top.flag \/ empty, end, "data"))
      BY <1>9 DEF DefinitionData
    <2>4. (Top.flag \/ empty) \in BOOLEAN
      BY <2>2, BothFlags
    <2> DEFINE block == Top.flag \/ empty
    <2> HIDE DEF block
    <2>5. /\ block \in BOOLEAN
          /\ PushNode("DEFINITION_DATA", 0, block, <<"listitem">>, AfterItem(block, end, "data"))
      BY <2>3, <2>4 DEF block
    <2>6. Ordinary(c, AfterItem(block, end, "data"))
      BY <2>2, <2>5
    <2> QED BY <2>5, <2>6, OrdinaryPush
  <1>10. CASE EmptyData
    <2>1. /\ Ordinary("data", [Top EXCEPT !.todo = <<>>]) /\ Top.flag \in BOOLEAN
          /\ PushLeaf("DEFINITION_DATA", 0, Top.flag, [Top EXCEPT !.todo = <<>>])
      BY <1>10, OrdinaryTop DEF EmptyData
    <2> QED BY <2>1, OrdinaryLeaf
  <1>11. CASE DataItem
    <2>1. PICK calls \in ItemCalls(Top.flag) : PushNode("LISTITEM", 0, Top.flag, calls, Rest)
      BY <1>11 DEF DataItem
    <2>2. calls \in Seq(Calls)
      BY <2>1 DEF ItemCalls
    <2>3. Ordinary("listitem", Rest) /\ Top.flag \in BOOLEAN
      BY <1>11, OrdinaryTop DEF DataItem
    <2> QED BY <2>1, <2>2, <2>3, OrdinaryPush
  <1>12. CASE ParseTable
    <2>1. PICK columns \in 1 .. MaxColumns :
              PushNode("TABLE_BLOCK", columns, FALSE, <<"thead", "tbody">>, Top)
      BY <1>12 DEF ParseTable
    <2>2. Ordinary("block", Top) /\ columns \in Nat
      BY <1>12, OrdinaryTop, MaxColumnsAssumption DEF ParseTable
    <2> QED BY <2>1, <2>2, OrdinaryPush
  <1>13. CASE TablePart
    <2>1. CASE Doing("thead") /\ PushNode("TABLE_HEADER", tree[current].num, FALSE,
                                          <<"headrow">>, Rest)
      <3>1. Ordinary("thead", Rest) /\ tree[current].num \in Nat
        BY <2>1, OrdinaryTop
      <3> QED BY <2>1, <3>1, OrdinaryPush
    <2>2. CASE Doing("tbody") /\ PushNode("TABLE_BODY", tree[current].num, FALSE,
                                          <<"rows">>, Rest)
      <3>1. Ordinary("tbody", Rest) /\ tree[current].num \in Nat
        BY <2>2, OrdinaryTop
      <3> QED BY <2>2, <3>1, OrdinaryPush
    <2> QED BY <1>13, <2>1, <2>2 DEF TablePart
  <1>14. CASE TableRow
    <2>1. CASE Doing("headrow") /\ PushNode("TABLE_ROW", tree[current].num, FALSE,
                                            <<"cells", "fill">>, Rest)
      <3>1. Ordinary("headrow", Rest) /\ tree[current].num \in Nat
        BY <2>1, OrdinaryTop
      <3> QED BY <2>1, <3>1, OrdinaryPush
    <2>2. CASE Doing("rows") /\ PushNode("TABLE_ROW", tree[current].num, FALSE,
                                         <<"cells", "fill">>, Top)
      <3>1. Ordinary("rows", Top) /\ tree[current].num \in Nat
        BY <2>2, OrdinaryTop
      <3> QED BY <2>2, <3>1, OrdinaryPush
    <2> QED BY <1>14, <2>1, <2>2 DEF TableRow
  <1>15. CASE TableCell
    <2>1. PushNode("TABLE_CELL", Top.i, FALSE, <<"inline">>, [Top EXCEPT !.i = Top.i + 1])
      BY <1>15 DEF TableCell
    <2>2. Top.i \in Nat /\ \A k \in Nat : Ordinary("cells", [Top EXCEPT !.i = k])
      BY <1>15, OrdinaryTop DEF TableCell
    <2>3. Top.i + 1 \in Nat
      BY <2>2
    <2>4. Ordinary("cells", [Top EXCEPT !.i = Top.i + 1])
      BY <2>2, <2>3
    <2> QED BY <2>1, <2>2, <2>4, OrdinaryPush
  <1>16. CASE FillCell
    <2>1. PushLeaf("TABLE_CELL", Top.i, FALSE, [Top EXCEPT !.i = Top.i + 1])
      BY <1>16 DEF FillCell
    <2>2. Top.i \in Nat /\ \A k \in Nat : Ordinary("fill", [Top EXCEPT !.i = k])
      BY <1>16, OrdinaryTop DEF FillCell
    <2>3. Top.i + 1 \in Nat
      BY <2>2
    <2>4. Ordinary("fill", [Top EXCEPT !.i = Top.i + 1])
      BY <2>2, <2>3
    <2> QED BY <2>1, <2>2, <2>4, OrdinaryLeaf
  <1> QED BY <1>1, <1>2, <1>3, <1>4, <1>5, <1>6, <1>7, <1>8, <1>9, <1>10, <1>11,
             <1>12, <1>13, <1>14, <1>15, <1>16 DEF BlockStep

LEMMA InlineStepOrdinary ==
    ASSUME TreeInv, InlineStep, ~FootnoteRef
    PROVE  StackStep /\ MarksStay
  <1> USE Lists DEF OtherTypes, Types, SpanTypes
  <1>1. Doing("inline")
    BY DEF InlineStep, LeafSpan, ParseSpan, AngleAutolink, BareAutolink, CharLink
  <1>2. Ordinary("inline", Top)
    BY <1>1, OrdinaryTop
  <1>3. CASE LeafSpan
    <2>1. PICK t \in {"NORMAL_TEXT", "CODESPAN", "ENTITY", "RAW_HTML", "MATH_BLOCK",
                      "LINEBREAK", "IMAGE"} : PushLeaf(t, 0, FALSE, Top)
      BY <1>3 DEF LeafSpan
    <2> QED BY <1>2, <2>1, OrdinaryLeaf
  <1>4. CASE ParseSpan
    <2>1. PICK t \in {"EMPHASIS", "DOUBLE_EMPHASIS", "TRIPLE_EMPHASIS", "STRIKETHROUGH",
                      "HIGHLIGHT", "SUPERSCRIPT"} : PushNode(t, 0, FALSE, <<"inline">>, Top)
      BY <1>4 DEF ParseSpan
    <2> QED BY <1>2, <2>1, OrdinaryPush
  <1>5. CASE AngleAutolink
    BY <1>2, <1>5, OrdinaryLeaf DEF AngleAutolink
  <1>6. CASE BareAutolink
    BY <1>2, <1>6, OrdinaryLeaf DEF BareAutolink
  <1>7. CASE CharLink
    BY <1>2, <1>7, OrdinaryLeaf, OrdinaryPush DEF CharLink
  <1> QED BY <1>3, <1>4, <1>5, <1>6, <1>7 DEF InlineStep

LEMMA EndStepOrdinary ==
    ASSUME TreeInv, EndLoop \/ EndLinkBody, ~Doing("defs")
    PROVE  StackStep /\ MarksStay
  <1>1. PICK c \in {"block", "items", "data", "rows", "inline", "cells", "fill"} : Doing(c)
    BY DEF EndLoop, LoopMayEnd, EndLinkBody
  <1>2. Ordinary(c, Rest)
    BY <1>1, OrdinaryTop
  <1>3. stack' = SetTop(Rest) /\ tree' = tree
    BY DEF EndLoop, EndLinkBody
  <1>4. MarksStay
    BY <1>3, SameStays DEF MarksStay
  <1> QED BY <1>2, <1>3, <1>4, OrdinarySet

-----------------------------------------------------------------------------
(* The calls of mdown_doc_parse *)

\* Each call leaves the next ones, and mdown_doc_parse waits for the lists of
\* blocks and of footnotes with more than one.
LEMMA NextPhase ==
    ASSUME NEW p \in Phases
    PROVE  /\ Len(p) > 1 <=> p \notin {<<"footer">>, <<>>}
           /\ p # <<>> =>
                  /\ Tail(p) \in Phases
                  /\ Head(p) \in {"docheader", "block"} => Len(Tail(p)) > 1
                  /\ Head(p) = "footnotes" => Tail(p) = <<"footer">>
                  /\ Head(p) = "footer" => p = <<"footer">> /\ Tail(p) = <<>>
                  /\ Head(p) \in {"docheader", "block", "footnotes"} => Len(p) > 1
  <1>1. CASE p = <<"docheader", "block", "footnotes", "footer">>
    <2>1. Len(p) = 4 /\ Head(p) = "docheader" /\ Tail(p) = <<"block", "footnotes", "footer">>
      BY <1>1
    <2>2. Len(Tail(p)) = 3
      BY <2>1
    <2> QED BY <2>1, <2>2, SMTT(30) DEF Phases
  <1>2. CASE p = <<"block", "footnotes", "footer">>
    <2>1. Len(p) = 3 /\ Head(p) = "block" /\ Tail(p) = <<"footnotes", "footer">>
      BY <1>2
    <2>2. Len(Tail(p)) = 2
      BY <2>1
    <2> QED BY <2>1, <2>2 DEF Phases
  <1>3. CASE p = <<"footnotes", "footer">>
    <2>1. Len(p) = 2 /\ Head(p) = "footnotes" /\ Tail(p) = <<"footer">>
      BY <1>3
    <2> QED BY <2>1 DEF Phases
  <1>4. CASE p = <<"footer">>
    <2>1. Len(p) = 1 /\ Head(p) = "footer" /\ Tail(p) = <<>>
      BY <1>4
    <2> QED BY <1>4, <2>1 DEF Phases
  <1>5. CASE p = <<>>
    BY <1>5
  <1> QED BY <1>1, <1>2, <1>3, <1>4, <1>5 DEF Phases

\* mdown_doc_parse and parse_footnote_list keep their calls while they wait.
LEMMA WaitCalled ==
    ASSUME TreeInv, Called, StackStep, NodesStay, status' = status,
           foots \in Nat, foots' \in Nat, foots <= foots'
    PROVE  Called' /\ Emitted' = Emitted
  <1> DEFINE n == Len(stack)
  <1>1. PICK c, f :
            /\ Ordinary(c, f)
            /\ \/ IsSet(stack', f)
               \/ \E e : IsPushed(stack', f, e) /\ tree'[e.node].type # "FOOTNOTES_BLOCK"
    BY DEF StackStep
  <1>2. /\ Doing(c) /\ c \notin {"docheader", "footnotes", "footer", "defs"}
        /\ f.node = Top.node
        /\ c = "block" => f.todo \in {Top.todo, Tail(Top.todo)}
    BY <1>1 DEF Ordinary, Continues
  <1>3. /\ status = "parsing" /\ status' = "parsing" /\ n \in Nat \ {0} /\ Top = stack[n]
        /\ Top.todo # <<>> /\ Head(Top.todo) = c
        /\ MayDo(tree[Top.node].type, c)
    BY <1>2, OneCall
  <1>4. /\ stack[1].node = 0 /\ tree[0].type = "ROOT"
        /\ \A i \in 1 .. n : stack[i].node \in DOMAIN tree
    <2>1. IInv /\ stack # <<>>
      BY <1>2 DEF TreeInv, Doing
    <2> QED BY <1>3, <2>1, OpenNodes DEF TreeInv, IInv, OpenPath, RootOpen
  <1>5. \A k \in DOMAIN tree :
            tree[k].type # "FOOTNOTES_BLOCK" => tree'[k].type # "FOOTNOTES_BLOCK"
    BY DEF NodesStay, NodeStays
  <1>6. /\ stack[1].todo \in Phases
        /\ n > 1 /\ tree[stack[2].node].type = "FOOTNOTES_BLOCK" => stack[1].todo = <<"footer">>
        /\ n > 1 /\ stack[1].todo = <<"footer">> =>
               \/ stack[2].todo = <<"defs">> /\ stack[2].i <= foots
               \/ stack[2].todo = <<>> /\ stack[2].i = foots /\ n = 2
        /\ stack[1].todo = <<>> => n = 1
    BY <1>3 DEF Called
  <1>7. /\ stack'[n] = f /\ \A i \in 1 .. n - 1 : stack'[i] = stack[i]
        /\ Len(stack') \in Nat /\ Len(stack') >= n
        /\ n = 1 /\ Len(stack') > 1 => tree'[stack'[2].node].type # "FOOTNOTES_BLOCK"
    BY <1>1, <1>3 DEF IsSet, IsPushed
  <1> HIDE DEF n
  <1>8. CASE n = 1
    <2>1. c = "block"
      BY <1>2, <1>3, <1>4, <1>8 DEF MayDo, Lines, SpanTypes
    <2>2. /\ stack[1].todo \in Phases /\ Len(stack[1].todo) > 1
          /\ Tail(stack[1].todo) \in Phases /\ Len(Tail(stack[1].todo)) > 1
      BY <1>3, <1>6, <1>8, <2>1, NextPhase
    <2>3. stack'[1].todo \in {stack[1].todo, Tail(stack[1].todo)}
      BY <1>2, <1>3, <1>7, <1>8, <2>1
    <2>4. /\ stack'[1].todo \in Phases /\ Len(stack'[1].todo) > 1 /\ Len(stack[1].todo) > 1
          /\ stack'[1].todo # <<"footer">> /\ stack'[1].todo # <<>>
      BY <2>2, <2>3, NextPhase
    <2>5. Len(stack') > 1 => tree'[stack'[2].node].type # "FOOTNOTES_BLOCK"
      BY <1>7, <1>8
    <2> QED BY <1>3, <2>4, <2>5 DEF Called, Emitted
  <1>9. CASE n = 2
    <2>1. stack[1].todo # <<"footer">> /\ stack[1].todo # <<>>
      BY <1>2, <1>3, <1>6, <1>9
    <2>2. stack'[1] = stack[1] /\ stack'[2].node = stack[2].node
      BY <1>2, <1>3, <1>7, <1>9
    <2>3. Len(stack[1].todo) > 1
      BY <1>6, <2>1, NextPhase
    <2>4. tree[stack[2].node].type # "FOOTNOTES_BLOCK" /\ stack[2].node \in DOMAIN tree
      BY <1>4, <1>6, <1>9, <2>1
    <2>5. tree'[stack'[2].node].type # "FOOTNOTES_BLOCK"
      BY <1>5, <2>2, <2>4
    <2> QED BY <1>3, <1>6, <2>1, <2>2, <2>3, <2>5 DEF Called, Emitted
  <1>10. CASE n > 2
    <2>1. stack'[1] = stack[1] /\ stack'[2] = stack[2] /\ Len(stack') > 2
      BY <1>3, <1>7, <1>10
    <2>2. stack[1].todo # <<>> /\ n > 1 /\ n # 2
      BY <1>3, <1>6, <1>10
    <2>3. tree'[stack[2].node].type = "FOOTNOTES_BLOCK" => stack[1].todo = <<"footer">>
      <3>1. stack[2].node \in DOMAIN tree
        BY <1>3, <1>4, <1>10
      <3> QED BY <1>5, <1>6, <2>2, <3>1
    <2>4. stack[1].todo = <<"footer">> => stack[2].todo = <<"defs">> /\ stack[2].i <= foots'
      <3>1. ASSUME stack[1].todo = <<"footer">>
            PROVE  stack[2].todo = <<"defs">> /\ stack[2].i <= foots /\ stack[2].i \in Nat
        <4>1. stack[2] \in Frames
          BY <1>3, <1>10 DEF TreeInv, IInv, TypeOK, n
        <4> QED BY <1>6, <2>2, <3>1, <4>1 DEF Frames
      <3> QED BY <3>1
    <2>5. Called'
      BY <1>6, <2>1, <2>2, <2>3, <2>4 DEF Called
    <2>6. Emitted' = Emitted
      BY <1>3, <2>1, <2>2 DEF Emitted, n
    <2> QED BY <2>5, <2>6
  <1> QED BY <1>3, <1>8, <1>9, <1>10

\* While mdown_doc_parse is the innermost function, the others having
\* returned.
LEMMA InnerDocument ==
    ASSUME TreeInv, Called, NEW c \in {"docheader", "footnotes", "footer"}, Doing(c)
    PROVE  /\ status = "parsing" /\ Len(stack) = 1 /\ Top = stack[1] /\ stack # <<>>
           /\ stack \in Seq(Frames) /\ IInv
           /\ Top.todo \in Phases /\ Top.todo # <<>> /\ Head(Top.todo) = c
           /\ Rest \in Frames /\ Rest.todo = Tail(Top.todo)
  <1>1. /\ status = "parsing" /\ Len(stack) = 1 /\ Top = stack[1] /\ stack # <<>>
        /\ Top \in Frames /\ Top.todo # <<>> /\ Head(Top.todo) = c /\ Top.todo \in Seq(Calls)
    BY OneCall
  <1>2. IInv /\ stack \in Seq(Frames)
    BY DEF TreeInv, IInv, TypeOK
  <1>3. Top.todo \in Phases
    BY <1>1 DEF Called
  <1>4. Tail(Top.todo) \in Seq(Calls)
    BY <1>1
  <1>5. Rest \in Frames /\ Rest.todo = Tail(Top.todo)
    BY <1>1, <1>4, Callers DEF Rest
  <1> QED BY <1>1, <1>2, <1>3, <1>5

LEMMA DocumentCalled ==
    ASSUME TreeInv, Called, DocHeader \/ DocFooter
    PROVE  Called' /\ Emitted' = Emitted /\ MarksStay
  <1>1. PICK c \in {"docheader", "footer"}, t \in {"DOC_HEADER", "DOC_FOOTER"} :
            Doing(c) /\ PushLeaf(t, 0, FALSE, Rest)
    BY DEF DocHeader, DocFooter
  <1>2. UNCHANGED docVars
    BY DEF DocHeader, DocFooter
  <1>3. /\ status = "parsing" /\ Len(stack) = 1 /\ Top = stack[1] /\ stack # <<>>
        /\ stack \in Seq(Frames) /\ IInv
        /\ Top.todo \in Phases /\ Top.todo # <<>> /\ Head(Top.todo) = c
        /\ Rest \in Frames /\ Rest.todo = Tail(Top.todo)
    BY <1>1, InnerDocument
  <1>4. tree' = Grown(t, 0, FALSE) /\ stack' = SetTop(Rest)
    BY <1>1 DEF PushLeaf
  <1>5. IsSet(stack', Rest)
    BY <1>3, <1>4, FrameSet
  <1>6. Len(stack') = 1 /\ stack'[1].todo = Tail(stack[1].todo)
    BY <1>3, <1>5 DEF IsSet
  <1>7. status' = status /\ foots' = foots
    BY <1>2 DEF docVars
  <1>8. stack'[1].todo \in Phases
    BY <1>3, <1>6, NextPhase
  <1>9. Called'
    BY <1>3, <1>6, <1>7, <1>8 DEF Called
  <1>10. Emitted' = Emitted
    <2>1. CASE c = "docheader"
      <3>1. Len(stack[1].todo) > 1 /\ Len(stack'[1].todo) > 1
        BY <1>3, <1>6, <2>1, NextPhase
      <3> QED BY <1>3, <1>7, <3>1 DEF Emitted
    <2>2. CASE c = "footer"
      <3>1. stack[1].todo = <<"footer">> /\ stack'[1].todo = <<>>
        BY <1>3, <1>6, <2>2, NextPhase
      <3>2. ~(Len(stack[1].todo) > 1) /\ ~(Len(stack'[1].todo) > 1)
        BY <3>1
      <3> QED BY <1>3, <1>6, <1>7, <3>2 DEF Emitted
    <2> QED BY <2>1, <2>2
  <1>11. MarksStay
    <2>1. DOMAIN tree' = DOMAIN tree \cup {nodes} /\ tree'[nodes].type = t
      BY <1>4, GrownMarks
    <2>2. NodesStay
      BY <1>3, <1>4, GrownStays
    <2> QED BY <2>1, <2>2 DEF MarksStay, FootnoteTypes
  <1> QED BY <1>9, <1>10, <1>11

LEMMA FootnotesBlockCalled ==
    ASSUME TreeInv, Called, FootnotesBlock
    PROVE  Called' /\ Emitted' = Emitted /\ MarksStay
  <1>1. Doing("footnotes") /\ UNCHANGED docVars
    BY DEF FootnotesBlock
  <1>2. /\ status = "parsing" /\ Len(stack) = 1 /\ Top = stack[1] /\ stack # <<>>
        /\ stack \in Seq(Frames) /\ IInv
        /\ Top.todo \in Phases /\ Top.todo # <<>> /\ Head(Top.todo) = "footnotes"
        /\ Rest \in Frames /\ Rest.todo = Tail(Top.todo)
    BY <1>1, InnerDocument
  <1>3. status' = status /\ foots' = foots /\ foots \in Nat
    BY <1>1, <1>2 DEF docVars, IInv, TypeOK
  <1>4. Rest.todo = <<"footer">> /\ Len(stack[1].todo) > 1
    BY <1>2, NextPhase
  <1>5. Rest.todo \in Phases /\ Len(Rest.todo) = 1 /\ Rest.todo # <<>>
    BY <1>4 DEF Phases
  <1>6. Emitted = 0
    BY <1>2, <1>4 DEF Emitted
  <1>7. CASE foots > 0
    <2> DEFINE e == Frame(nodes, <<"defs">>, FALSE)
    <2>1. /\ tree' = Grown("FOOTNOTES_BLOCK", 0, FALSE)
          /\ stack' = Append(SetTop(Rest), e)
      BY <1>7 DEF FootnotesBlock, PushNode
    <2>2. e \in Frames /\ e.todo = <<"defs">> /\ e.i = 0
      <3>1. nodes \in Nat /\ <<"defs">> \in Seq(Calls)
        BY <1>2, Lists DEF IInv, TypeOK
      <3> QED BY <3>1, NewFrame DEF Frame
    <2> HIDE DEF e
    <2>3. IsPushed(stack', Rest, e)
      BY <1>2, <2>1, <2>2, FramePushed
    <2>4. Len(stack') = 2 /\ stack'[1] = Rest /\ stack'[2] = e
      BY <1>2, <2>3 DEF IsPushed
    <2>5. Called'
      BY <1>2, <1>3, <1>4, <1>5, <2>2, <2>4 DEF Called
    <2>6. Emitted' = 0
      BY <1>2, <1>3, <1>5, <2>2, <2>4 DEF Emitted
    <2>7. DOMAIN tree' = DOMAIN tree \cup {nodes} /\ tree'[nodes].type = "FOOTNOTES_BLOCK"
      BY <2>1, GrownMarks
    <2>8. NodesStay
      BY <1>2, <2>1, GrownStays
    <2> QED BY <1>6, <2>5, <2>6, <2>7, <2>8 DEF MarksStay, FootnoteTypes
  <1>8. CASE ~(foots > 0)
    <2>1. stack' = SetTop(Rest) /\ tree' = tree
      BY <1>8 DEF FootnotesBlock
    <2>2. IsSet(stack', Rest)
      BY <1>2, <2>1, FrameSet
    <2>3. Len(stack') = 1 /\ stack'[1] = Rest
      BY <1>2, <2>2 DEF IsSet
    <2>4. Called'
      BY <1>2, <1>3, <1>5, <2>3 DEF Called
    <2>5. Emitted' = 0
      BY <1>3, <1>5, <1>8, <2>3 DEF Emitted
    <2>6. MarksStay
      BY <2>1, SameStays DEF MarksStay
    <2> QED BY <1>6, <2>4, <2>5, <2>6
  <1> QED BY <1>7, <1>8

LEMMA ReturnCalled ==
    ASSUME TreeInv, Called, Return
    PROVE  Called' /\ Emitted' = Emitted /\ MarksStay
  <1> DEFINE n == Len(stack)
  <1>1. /\ n > 1 /\ Top.todo = <<>> /\ stack # <<>> /\ UNCHANGED docVars
        /\ stack' = SubSeq(stack, 1, n - 1)
    BY DEF Return, PopNode
  <1>2. IInv /\ stack \in Seq(Frames)
    BY DEF TreeInv, IInv, TypeOK
  <1>3. /\ status = "parsing" /\ status' = status /\ foots' = foots /\ foots \in Nat
        /\ n \in Nat /\ Top = stack[n]
        /\ \A i \in 1 .. n : stack[i].node \in DOMAIN tree
    BY <1>1, <1>2, OpenNodes DEF docVars, IInv, TypeOK
  <1>4. NodesStay
    BY <1>2, <1>3, StepStays DEF ParseStep, Fail
  <1>5. MarksStay
    <2>1. DOMAIN tree' = DOMAIN tree
      BY DEF Return
    <2> QED BY <1>4, <2>1 DEF MarksStay
  <1>6. \A k \in DOMAIN tree :
            tree[k].type # "FOOTNOTES_BLOCK" => tree'[k].type # "FOOTNOTES_BLOCK"
    BY <1>4 DEF NodesStay, NodeStays
  <1>7. /\ stack[1].todo \in Phases
        /\ tree[stack[2].node].type = "FOOTNOTES_BLOCK" => stack[1].todo = <<"footer">>
        /\ stack[1].todo = <<"footer">> =>
               \/ stack[2].todo = <<"defs">> /\ stack[2].i <= foots
               \/ stack[2].todo = <<>> /\ stack[2].i = foots /\ n = 2
        /\ stack[1].todo # <<>>
    BY <1>1, <1>3 DEF Called
  <1>8. /\ Len(stack') = n - 1
        /\ \A i \in 1 .. n - 1 : stack'[i] = stack[i]
    BY <1>1, <1>2, FramePopped DEF IsPopped
  <1> HIDE DEF n
  <1>9. CASE n = 2
    <2>1. Len(stack') = 1 /\ stack'[1] = stack[1]
      BY <1>8, <1>9
    <2>2. Called'
      BY <1>3, <1>7, <2>1 DEF Called
    <2>3. CASE stack[1].todo = <<"footer">>
      <3>1. stack[2].i = foots
        BY <1>1, <1>3, <1>7, <1>9, <2>3
      <3>2. ~(Len(stack[1].todo) > 1)
        BY <2>3
      <3> QED BY <1>1, <1>3, <1>5, <2>1, <2>2, <3>1, <3>2 DEF Emitted, n
    <2>4. CASE stack[1].todo # <<"footer">>
      <3>1. Len(stack[1].todo) > 1
        BY <1>7, <2>4, NextPhase
      <3> QED BY <1>3, <1>5, <2>1, <2>2, <3>1 DEF Emitted
    <2> QED BY <2>3, <2>4
  <1>10. CASE n > 2
    <2>1. stack'[1] = stack[1] /\ stack'[2] = stack[2] /\ Len(stack') > 1
      BY <1>3, <1>8, <1>10
    <2>2. tree'[stack[2].node].type = "FOOTNOTES_BLOCK" => stack[1].todo = <<"footer">>
      <3>1. stack[2].node \in DOMAIN tree
        BY <1>3, <1>10
      <3> QED BY <1>6, <1>7, <3>1
    <2>3. stack[1].todo = <<"footer">> => stack[2].todo = <<"defs">> /\ stack[2].i <= foots
      BY <1>7, <1>10
    <2>4. Called'
      BY <1>3, <1>7, <2>1, <2>2, <2>3 DEF Called
    <2>5. Emitted' = Emitted
      BY <1>1, <1>3, <2>1 DEF Emitted, n
    <2> QED BY <1>5, <2>4, <2>5
  <1> QED BY <1>1, <1>3, <1>9, <1>10

-----------------------------------------------------------------------------
(* The loop of parse_footnote_list *)

\* While its loop has the next step, mdown_doc_parse has only the footer to
\* call, and the loop is at the footnote put out last.
LEMMA InnerLoop ==
    ASSUME TreeInv, Called, Doing("defs")
    PROVE  /\ status = "parsing" /\ Len(stack) = 2 /\ Top = stack[2] /\ stack # <<>>
           /\ stack \in Seq(Frames) /\ IInv /\ Top \in Frames
           /\ stack[1].todo = <<"footer">> /\ ~(Len(stack[1].todo) > 1)
           /\ Top.todo = <<"defs">> /\ Top.i \in Nat /\ Top.i <= foots /\ Emitted = Top.i
           /\ tree[Top.node].type = "FOOTNOTES_BLOCK" /\ Top.node \in DOMAIN tree
  <1>1. /\ status = "parsing" /\ Len(stack) = 2 /\ Top = stack[2] /\ stack # <<>>
        /\ Top \in Frames /\ Top.todo # <<>>
        /\ tree[stack[2].node].type = "FOOTNOTES_BLOCK"
    BY OneCall
  <1>2. IInv /\ stack \in Seq(Frames)
    BY DEF TreeInv, IInv, TypeOK
  <1>3. stack[1].todo = <<"footer">> /\ Top.todo = <<"defs">> /\ Top.i <= foots
    BY <1>1 DEF Called
  <1>4. ~(Len(stack[1].todo) > 1)
    BY <1>3
  <1>5. Emitted = Top.i
    BY <1>1, <1>4 DEF Emitted
  <1>6. Top.i \in Nat
    BY <1>1 DEF Frames
  <1>7. Top.node \in DOMAIN tree
    BY <1>1, <1>2, OpenNodes
  <1> QED BY <1>1, <1>2, <1>3, <1>4, <1>5, <1>6, <1>7

\* It ends at the last footnote there is.
LEMMA EndDefsCalled ==
    ASSUME TreeInv, Assigned, Called, EndLoop, Doing("defs")
    PROVE  Called' /\ Emitted' = Emitted /\ MarksStay
  <1>1. stack' = SetTop(Rest) /\ tree' = tree /\ UNCHANGED docVars
    BY DEF EndLoop
  <1>2. /\ status = "parsing" /\ Len(stack) = 2 /\ Top = stack[2] /\ stack # <<>>
        /\ stack \in Seq(Frames) /\ IInv /\ Top \in Frames
        /\ stack[1].todo = <<"footer">> /\ ~(Len(stack[1].todo) > 1)
        /\ Top.todo = <<"defs">> /\ Top.i \in Nat /\ Top.i <= foots /\ Emitted = Top.i
    BY InnerLoop
  <1>3. foots \in Nat /\ foots' = foots /\ status' = status /\ fnum \in [Footnotes -> Nat]
    BY <1>1, <1>2 DEF docVars, IInv, TypeOK
  <1>4. \A f \in Footnotes : fnum[f] <= Top.i
    <2>1. \A d : Doing(d) => d = "defs"
      BY OneCall
    <2> QED BY <2>1 DEF EndLoop, LoopMayEnd
  <1>5. Top.i = foots
    <2> SUFFICES ASSUME Top.i # foots
                 PROVE  FALSE
      OBVIOUS
    <2>1. foots \in 1 .. foots
      BY <1>2, <1>3
    <2>2. PICK f \in Footnotes : fnum[f] = foots
      BY <2>1 DEF Assigned
    <2> QED BY <1>2, <1>3, <1>4, <2>2
  <1>6. Rest \in Frames /\ Rest.todo = <<>> /\ Rest.i = Top.i
    <2>1. Tail(Top.todo) = <<>> /\ <<>> \in Seq(Calls)
      BY <1>2
    <2> QED BY <1>2, <2>1 DEF Rest, Frames
  <1>7. IsSet(stack', Rest)
    BY <1>1, <1>2, <1>6, FrameSet
  <1>8. Len(stack') = 2 /\ stack'[1] = stack[1] /\ stack'[2] = Rest
    BY <1>2, <1>7 DEF IsSet
  <1>9. stack[1].todo \in Phases /\ stack[1].todo # <<>>
    BY <1>2 DEF Phases
  <1>10. Called'
    BY <1>2, <1>3, <1>5, <1>6, <1>8, <1>9 DEF Called
  <1>11. Emitted' = Emitted
    BY <1>2, <1>3, <1>6, <1>8 DEF Emitted
  <1>12. MarksStay
    BY <1>1, SameStays DEF MarksStay
  <1> QED BY <1>10, <1>11, <1>12

\* A node of type t with the next number.
LEMMA MarkAdded ==
    ASSUME IInv, NEW t, NEW c \in Nat, NEW flag,
           tree' = Grown(t, c + 1, flag), t \in FootnoteTypes, Numbered(tree, t, c)
    PROVE  Numbered(tree', t, c + 1)
  <1>1. /\ DOMAIN tree' = DOMAIN tree \cup {nodes}
        /\ tree'[nodes].type = t /\ tree'[nodes].num = c + 1
    BY GrownMarks
  <1>2. NodesStay
    BY GrownStays
  <1>3. nodes \notin DOMAIN tree /\ \A k \in DOMAIN tree : k \in Nat /\ k < nodes
    BY DEF IInv, TypeOK
  <1>4. Marks(tree', t) = Marks(tree, t) \cup {nodes}
    BY <1>1, <1>2, <1>3 DEF NodesStay, NodeStays, Marks, FootnoteTypes
  <1>5. \A k \in Marks(tree, t) :
            /\ tree'[k].num = tree[k].num /\ tree[k].num \in 1 .. c
            /\ k < nodes /\ k # nodes /\ ~(nodes < k)
    <2> SUFFICES ASSUME NEW k \in Marks(tree, t)
                 PROVE  /\ tree'[k].num = tree[k].num /\ tree[k].num \in 1 .. c
                        /\ k < nodes /\ k # nodes /\ ~(nodes < k)
      OBVIOUS
    <2>1. k \in DOMAIN tree /\ tree[k].num \in 1 .. c
      BY DEF Marks, Numbered
    <2>2. k \in Nat /\ nodes \in Nat /\ k < nodes
      BY <1>3, <2>1 DEF IInv, TypeOK
    <2>3. tree'[k].num = tree[k].num
      BY <1>2, <2>1 DEF NodesStay, NodeStays
    <2> QED BY <2>1, <2>2, <2>3
  <1>6. \A j, k \in Marks(tree, t) : j < k => tree[j].num < tree[k].num
    BY DEF Numbered
  <1>7. \A l \in 1 .. c : \E k \in Marks(tree, t) : tree[k].num = l
    BY DEF Numbered
  <1>8. nodes \in Nat
    BY DEF IInv, TypeOK
  <1>9. \A k \in Marks(tree', t) : tree'[k].num \in 1 .. c + 1
    BY <1>1, <1>4, <1>5
  <1>10. ASSUME NEW j \in Marks(tree', t), NEW k \in Marks(tree', t), j < k
         PROVE  tree'[j].num < tree'[k].num
    <2>1. CASE k = nodes
      <3>1. j \in Marks(tree, t)
        BY <1>4, <1>8, <1>10, <2>1
      <3> QED BY <1>1, <1>5, <2>1, <3>1
    <2>2. CASE k \in Marks(tree, t)
      <3>1. j \in Marks(tree, t)
        BY <1>4, <1>5, <1>10, <2>2
      <3> QED BY <1>5, <1>6, <1>10, <2>2, <3>1
    <2> QED BY <1>4, <2>1, <2>2
  <1>11. ASSUME NEW l \in 1 .. c + 1
         PROVE  \E k \in Marks(tree', t) : tree'[k].num = l
    <2>1. CASE l = c + 1
      BY <1>1, <1>4, <2>1
    <2>2. CASE l \in 1 .. c
      BY <1>4, <1>5, <1>7, <2>2
    <2> QED BY <2>1, <2>2
  <1> QED BY <1>9, <1>10, <1>11 DEF Numbered

\* The next footnote put out is the one with the next number.
LEMMA FootnoteDefCalled ==
    ASSUME TreeInv, FootnotesInv, FootnoteDef
    PROVE  /\ Called' /\ Emitted < foots /\ Emitted' = Emitted + 1
           /\ Numbered(tree', "FOOTNOTE_REF", foots)
           /\ Numbered(tree', "FOOTNOTE_DEF", Emitted + 1)
  <1>1. Doing("defs") /\ UNCHANGED docVars /\ Assigned /\ Called /\ Counted
    BY DEF FootnoteDef, FootnotesInv
  <1>2. /\ status = "parsing" /\ Len(stack) = 2 /\ Top = stack[2] /\ stack # <<>>
        /\ stack \in Seq(Frames) /\ IInv /\ Top \in Frames
        /\ stack[1].todo = <<"footer">> /\ ~(Len(stack[1].todo) > 1)
        /\ Top.todo = <<"defs">> /\ Top.i \in Nat /\ Top.i <= foots /\ Emitted = Top.i
        /\ tree[Top.node].type = "FOOTNOTES_BLOCK" /\ Top.node \in DOMAIN tree
    BY <1>1, InnerLoop
  <1>3. foots \in Nat /\ foots' = foots /\ status' = status /\ fnum \in [Footnotes -> Nat]
        /\ nodes \in Nat
    BY <1>1, <1>2 DEF docVars, IInv, TypeOK
  <1>4. PICK f \in Footnotes :
            /\ fnum[f] > Top.i
            /\ \A g \in Footnotes : fnum[g] > Top.i => fnum[f] <= fnum[g]
            /\ PushNode("FOOTNOTE_DEF", fnum[f], FALSE, <<"block">>, [Top EXCEPT !.i = fnum[f]])
    BY DEF FootnoteDef
  <1>5. fnum[f] = Top.i + 1 /\ Top.i < foots
    <2>1. fnum[f] \in 0 .. foots
      BY <1>1 DEF Assigned
    <2>2. Top.i < foots /\ Top.i + 1 \in 1 .. foots
      BY <1>2, <1>3, <1>4, <2>1
    <2>3. PICK g \in Footnotes : fnum[g] = Top.i + 1
      BY <1>1, <2>2 DEF Assigned
    <2>4. fnum[f] <= Top.i + 1
      BY <1>2, <1>4, <2>3
    <2> QED BY <1>2, <1>3, <1>4, <2>2, <2>4
  <1> DEFINE d == [Top EXCEPT !.i = Top.i + 1]
             e == Frame(nodes, <<"block">>, FALSE)
  <1>6. /\ d \in Frames /\ d.node = Top.node /\ d.todo = <<"defs">> /\ d.i = Top.i + 1
    <2>1. Top.i + 1 \in Nat
      BY <1>2
    <2>2. Top \in Frames
      BY <1>2
    <2> QED BY <1>2, <2>1, <2>2 DEF Frames
  <1>7. e \in Frames
    BY <1>3, Lists, NewFrame
  <1>8. tree' = Grown("FOOTNOTE_DEF", Top.i + 1, FALSE) /\ stack' = Append(SetTop(d), e)
    BY <1>4, <1>5 DEF PushNode
  <1> HIDE DEF d, e
  <1>9. IsPushed(stack', d, e)
    BY <1>2, <1>6, <1>7, <1>8, FramePushed
  <1>10. Len(stack') = 3 /\ stack'[1] = stack[1] /\ stack'[2] = d
    BY <1>2, <1>9 DEF IsPushed
  <1>11. stack[1].todo \in Phases /\ stack[1].todo # <<>>
    BY <1>2 DEF Phases
  <1>12. Called'
    <2>1. Top.i + 1 <= foots
      BY <1>2, <1>3, <1>5
    <2> QED BY <1>2, <1>3, <1>6, <1>10, <1>11, <2>1 DEF Called
  <1>13. Emitted' = Top.i + 1
    <2>1. status' = "parsing" /\ ~(Len(stack'[1].todo) > 1) /\ Len(stack') > 1
      <3>1. status' = "parsing"
        BY <1>2, <1>3
      <3>2. Len(stack') > 1
        BY <1>10
      <3>3. stack'[1].todo = stack[1].todo /\ stack[1].todo = <<"footer">>
        BY <1>2, <1>10
      <3>4. ~(Len(<<"footer">>) > 1)
        OBVIOUS
      <3> QED BY <3>1, <3>2, <3>3, <3>4
    <2>2. stack'[2].i = Top.i + 1
      BY <1>6, <1>10
    <2> QED BY <2>1, <2>2 DEF Emitted
  <1>14. Numbered(tree, "FOOTNOTE_REF", foots) /\ Numbered(tree, "FOOTNOTE_DEF", Top.i)
    BY <1>1, <1>2 DEF Counted
  <1>15. Numbered(tree', "FOOTNOTE_DEF", Top.i + 1)
    <2>1. "FOOTNOTE_DEF" \in FootnoteTypes
      BY DEF FootnoteTypes
    <2> QED BY <1>2, <1>8, <1>14, <2>1, MarkAdded
  <1>16. Numbered(tree', "FOOTNOTE_REF", foots)
    <2>1. "FOOTNOTE_REF" \in FootnoteTypes
      BY DEF FootnoteTypes
    <2>2. NodesStay
      BY <1>2, <1>8, GrownStays
    <2>3. DOMAIN tree' = DOMAIN tree \cup {nodes} /\ tree'[nodes].type = "FOOTNOTE_DEF"
      BY <1>8, GrownMarks
    <2> QED BY <1>14, <2>1, <2>2, <2>3, MarksKept
  <1> QED BY <1>2, <1>5, <1>12, <1>13, <1>15, <1>16

\* A footnote referenced for the first time takes the next number.
LEMMA FootnoteRefCalled ==
    ASSUME TreeInv, FootnotesInv, NEW f \in Footnotes, fnum[f] = 0,
           Doing("inline"), PushLeaf("FOOTNOTE_REF", foots + 1, FALSE, Top),
           foots' = foots + 1, fnum' = [fnum EXCEPT ![f] = foots + 1], status' = status
    PROVE  /\ Assigned' /\ Called' /\ Emitted' = Emitted
           /\ Numbered(tree', "FOOTNOTE_REF", foots + 1)
           /\ Numbered(tree', "FOOTNOTE_DEF", Emitted)
           /\ fnum'[f] = foots + 1
           /\ \A g \in Footnotes \ {f} : fnum'[g] = fnum[g]
           /\ \A g \in Footnotes : fnum[g] \in 0 .. foots /\ fnum'[g] \in 0 .. foots + 1
  <1>1. IInv /\ Assigned /\ Called /\ Counted
    BY DEF TreeInv, FootnotesInv
  <1>2. foots \in Nat /\ foots' \in Nat /\ foots <= foots' /\ fnum \in [Footnotes -> Nat]
    BY <1>1 DEF IInv, TypeOK
  <1>3. Ordinary("inline", Top) /\ status = "parsing"
    BY OrdinaryTop, OneCall
  <1>4. tree' = Grown("FOOTNOTE_REF", foots + 1, FALSE) /\ stack' = SetTop(Top)
    BY DEF PushLeaf
  <1>5. StackStep
    BY <1>3, <1>4, OrdinarySet
  <1>6. NodesStay
    BY <1>1, <1>4, GrownStays
  <1>7. Called' /\ Emitted' = Emitted
    BY <1>1, <1>2, <1>5, <1>6, WaitCalled
  <1>8. Numbered(tree, "FOOTNOTE_REF", foots) /\ Numbered(tree, "FOOTNOTE_DEF", Emitted)
    BY <1>1, <1>3 DEF Counted
  <1>9. Numbered(tree', "FOOTNOTE_REF", foots + 1)
    <2>1. "FOOTNOTE_REF" \in FootnoteTypes
      BY DEF FootnoteTypes
    <2> QED BY <1>1, <1>2, <1>4, <1>8, <2>1, MarkAdded
  <1>10. Numbered(tree', "FOOTNOTE_DEF", Emitted)
    <2>1. "FOOTNOTE_DEF" \in FootnoteTypes
      BY DEF FootnoteTypes
    <2>2. DOMAIN tree' = DOMAIN tree \cup {nodes} /\ tree'[nodes].type = "FOOTNOTE_REF"
      BY <1>4, GrownMarks
    <2> QED BY <1>6, <1>8, <2>1, <2>2, MarksKept
  <1>11. /\ fnum'[f] = foots + 1
         /\ \A g \in Footnotes \ {f} : fnum'[g] = fnum[g]
    BY <1>2
  <1>12. \A g \in Footnotes : fnum[g] \in 0 .. foots /\ fnum'[g] \in 0 .. foots + 1
    BY <1>1, <1>2, <1>11 DEF Assigned
  <1>13. Assigned'
    <2>1. \A g, h \in Footnotes : fnum'[g] = fnum'[h] /\ fnum'[g] # 0 => g = h
      <3> TAKE g, h \in Footnotes
      <3> HAVE fnum'[g] = fnum'[h] /\ fnum'[g] # 0
      <3>1. \A x, y \in Footnotes : fnum[x] = fnum[y] /\ fnum[x] # 0 => x = y
        BY <1>1 DEF Assigned
      <3>2. \A x \in Footnotes \ {f} : fnum'[x] = fnum[x] /\ fnum[x] # foots + 1
        BY <1>2, <1>11, <1>12
      <3> QED BY <1>11, <3>1, <3>2
    <2>2. ASSUME NEW l \in 1 .. foots + 1
          PROVE  \E g \in Footnotes : fnum'[g] = l
      <3>1. CASE l = foots + 1
        BY <1>11, <3>1
      <3>2. CASE l \in 1 .. foots
        <4>1. PICK g \in Footnotes : fnum[g] = l
          BY <1>1, <3>2 DEF Assigned
        <4>2. g # f
          BY <1>2, <3>2, <4>1
        <4> QED BY <1>11, <4>1, <4>2
      <3> QED BY <1>2, <3>1, <3>2
    <2> QED BY <1>12, <2>1, <2>2 DEF Assigned
  <1> QED BY <1>7, <1>9, <1>10, <1>11, <1>12, <1>13

-----------------------------------------------------------------------------
(* The invariant, and what each step does to the numbers *)

\* The references and the definitions that the tree holds.
RefCount == IF status \in {"parsing", "done"} THEN foots ELSE 0
DefCount == IF status \in {"parsing", "done"} THEN Emitted ELSE 0

\* What a step may do, told by the numbers alone.
Waits ==
    fnum' = fnum /\ status' = status /\ RefCount' = RefCount /\ DefCount' = DefCount
Opens == status # "parsing" /\ status' = "parsing" /\ RefCount' = 0 /\ DefCount' = 0
Refers(f) ==
    /\ fnum[f] = 0 /\ fnum' = [fnum EXCEPT ![f] = foots + 1]
    /\ status = "parsing" /\ status' = "parsing"
    /\ RefCount' = RefCount + 1 /\ DefCount' = DefCount
Emits ==
    /\ fnum' = fnum /\ status = "parsing" /\ status' = "parsing"
    /\ DefCount < RefCount /\ RefCount' = RefCount /\ DefCount' = DefCount + 1
Closes ==
    /\ fnum' = fnum /\ status = "parsing" /\ status' = "done"
    /\ DefCount = RefCount /\ RefCount' = RefCount /\ DefCount' = DefCount
Aborts == status = "parsing" /\ status' = "failed" /\ RefCount' = 0 /\ DefCount' = 0

\* A step that leaves the footnotes and their numbers alone.
LEMMA WaitKeeps ==
    ASSUME FootnotesInv, MarksStay, status = "parsing", status' = status,
           foots' = foots, fnum' = fnum, Called', Emitted' = Emitted
    PROVE  FootnotesInv' /\ Waits
  <1>1. Assigned'
    BY DEF FootnotesInv, Assigned
  <1>2. Numbered(tree, "FOOTNOTE_REF", foots) /\ Numbered(tree, "FOOTNOTE_DEF", Emitted)
    BY DEF FootnotesInv, Counted
  <1>3. Numbered(tree', "FOOTNOTE_REF", foots) /\ Numbered(tree', "FOOTNOTE_DEF", Emitted)
    <2>1. \A t \in FootnoteTypes : \A k \in DOMAIN tree' \ DOMAIN tree : tree'[k].type # t
      BY DEF MarksStay
    <2>2. NodesStay
      BY DEF MarksStay
    <2>3. "FOOTNOTE_REF" \in FootnoteTypes /\ "FOOTNOTE_DEF" \in FootnoteTypes
      BY DEF FootnoteTypes
    <2> QED BY <1>2, <2>1, <2>2, <2>3, MarksKept
  <1>4. Counted'
    BY <1>3 DEF Counted
  <1>5. Waits
    BY DEF Waits, RefCount, DefCount
  <1> QED BY <1>1, <1>4, <1>5 DEF FootnotesInv

LEMMA OrdinaryKeeps ==
    ASSUME TreeInv, FootnotesInv, StackStep, MarksStay,
           status' = status, foots' = foots, fnum' = fnum
    PROVE  FootnotesInv' /\ Waits
  <1>1. status = "parsing"
    BY OneCall DEF StackStep, Ordinary
  <1>2. foots \in Nat /\ foots' \in Nat /\ foots <= foots'
    BY DEF TreeInv, IInv, TypeOK
  <1>3. Called' /\ Emitted' = Emitted
    BY <1>2, WaitCalled DEF MarksStay, FootnotesInv
  <1> QED BY <1>1, <1>3, WaitKeeps

LEMMA FootnoteRefKeeps ==
    ASSUME TreeInv, FootnotesInv, FootnoteRef
    PROVE  FootnotesInv' /\ (Waits \/ \E f \in Footnotes : Refers(f))
  <1>1. Doing("inline") /\ status' = status
    BY DEF FootnoteRef
  <1>2. status = "parsing" /\ Ordinary("inline", Top)
    BY <1>1, OneCall, OrdinaryTop
  <1>3. PICK f \in Footnotes :
            \/ /\ fnum[f] = 0
               /\ PushLeaf("FOOTNOTE_REF", foots + 1, FALSE, Top)
               /\ foots' = foots + 1
               /\ fnum' = [fnum EXCEPT ![f] = foots + 1]
            \/ /\ PushLeaf("NORMAL_TEXT", 0, FALSE, Top)
               /\ foots' = foots /\ fnum' = fnum
    BY DEF FootnoteRef
  <1>4. CASE /\ fnum[f] = 0
             /\ PushLeaf("FOOTNOTE_REF", foots + 1, FALSE, Top)
             /\ foots' = foots + 1
             /\ fnum' = [fnum EXCEPT ![f] = foots + 1]
    <2>1. /\ Assigned' /\ Called' /\ Emitted' = Emitted
          /\ Numbered(tree', "FOOTNOTE_REF", foots + 1)
          /\ Numbered(tree', "FOOTNOTE_DEF", Emitted)
      BY <1>1, <1>4, FootnoteRefCalled
    <2>2. Counted'
      BY <1>1, <1>2, <1>4, <2>1 DEF Counted
    <2>3. Refers(f)
      BY <1>1, <1>2, <1>4, <2>1 DEF Refers, RefCount, DefCount
    <2> QED BY <2>1, <2>2, <2>3 DEF FootnotesInv
  <1>5. CASE PushLeaf("NORMAL_TEXT", 0, FALSE, Top) /\ foots' = foots /\ fnum' = fnum
    <2>1. "NORMAL_TEXT" \in OtherTypes
      BY DEF OtherTypes, Types, SpanTypes
    <2>2. StackStep /\ MarksStay
      BY <1>2, <1>5, <2>1, OrdinaryLeaf
    <2> QED BY <1>1, <1>5, <2>2, OrdinaryKeeps
  <1> QED BY <1>3, <1>4, <1>5

LEMMA FootnoteDefKeeps ==
    ASSUME TreeInv, FootnotesInv, FootnoteDef
    PROVE  FootnotesInv' /\ Emits
  <1>1. Doing("defs") /\ UNCHANGED docVars
    BY DEF FootnoteDef
  <1>2. status = "parsing" /\ status' = status /\ foots' = foots /\ fnum' = fnum
    BY <1>1, OneCall DEF docVars
  <1>3. /\ Called' /\ Emitted < foots /\ Emitted' = Emitted + 1
        /\ Numbered(tree', "FOOTNOTE_REF", foots)
        /\ Numbered(tree', "FOOTNOTE_DEF", Emitted + 1)
    BY FootnoteDefCalled
  <1>4. Assigned'
    BY <1>2 DEF FootnotesInv, Assigned
  <1>5. Counted'
    BY <1>2, <1>3 DEF Counted
  <1>6. Emits
    BY <1>2, <1>3 DEF Emits, RefCount, DefCount
  <1> QED BY <1>3, <1>4, <1>5, <1>6 DEF FootnotesInv

LEMMA FinishCounts ==
    ASSUME TreeInv, FootnotesInv, Finish
    PROVE  FootnotesInv' /\ Closes
  <1>1. /\ Len(stack) = 1 /\ Top.todo = <<>> /\ status' = "done"
        /\ tree' = tree /\ foots' = foots /\ fnum' = fnum
    BY DEF Finish
  <1>2. IInv /\ stack # <<>> /\ Top = stack[1]
    BY <1>1 DEF TreeInv, Top
  <1>3. status = "parsing"
    BY <1>2, OpenNodes
  <1>4. ~(Len(stack[1].todo) > 1)
    BY <1>1, <1>2
  <1>5. Emitted = foots /\ Emitted' = foots
    BY <1>1, <1>3, <1>4 DEF Emitted
  <1>6. Assigned' /\ Called'
    BY <1>1 DEF FootnotesInv, Assigned, Called
  <1>7. Counted'
    BY <1>1, <1>3, <1>5 DEF FootnotesInv, Counted
  <1>8. Closes
    BY <1>1, <1>3, <1>5 DEF Closes, RefCount, DefCount
  <1> QED BY <1>6, <1>7, <1>8 DEF FootnotesInv

LEMMA FailCounts ==
    ASSUME FootnotesInv, Fail
    PROVE  FootnotesInv' /\ Aborts
  <1>1. /\ status = "parsing" /\ status' = "failed" /\ foots' = foots /\ fnum' = fnum
        /\ DOMAIN tree' = {}
    BY DEF Fail
  <1>2. Assigned' /\ Called' /\ Counted'
    BY <1>1 DEF FootnotesInv, Assigned, Called, Counted
  <1>3. Aborts
    BY <1>1 DEF Aborts, RefCount, DefCount
  <1> QED BY <1>2, <1>3 DEF FootnotesInv

LEMMA ParseCounts ==
    ASSUME Parse
    PROVE  FootnotesInv' /\ Opens
  <1> DEFINE e == Frame(0, <<"docheader", "block", "footnotes", "footer">>, FALSE)
  <1>1. /\ status # "parsing" /\ status' = "parsing" /\ foots' = 0
        /\ fnum' = [f \in Footnotes |-> 0]
        /\ tree' = [k \in {0} |-> Node("ROOT", NULL, 0, FALSE)]
        /\ stack' = <<e>>
    BY DEF Parse
  <1>2. e.todo = <<"docheader", "block", "footnotes", "footer">>
    BY DEF Frame
  <1> HIDE DEF e
  <1>3. Len(stack') = 1 /\ stack'[1] = e
    BY <1>1
  <1>4. e.todo \in Phases /\ e.todo # <<>> /\ Len(e.todo) > 1
    BY <1>2 DEF Phases
  <1>5. Assigned'
    BY <1>1 DEF Assigned
  <1>6. Called'
    BY <1>3, <1>4 DEF Called
  <1>7. Emitted' = 0
    BY <1>1, <1>3, <1>4 DEF Emitted
  <1>8. Counted'
    <2>1. DOMAIN tree' = {0} /\ tree'[0].type = "ROOT"
      BY <1>1 DEF Node
    <2>2. Marks(tree', "FOOTNOTE_REF") = {} /\ Marks(tree', "FOOTNOTE_DEF") = {}
      BY <2>1 DEF Marks
    <2>3. Numbered(tree', "FOOTNOTE_REF", 0) /\ Numbered(tree', "FOOTNOTE_DEF", 0)
      BY <2>2 DEF Numbered
    <2> QED BY <1>1, <1>7, <2>3 DEF Counted
  <1>9. Opens
    BY <1>1, <1>7 DEF Opens, RefCount, DefCount
  <1> QED BY <1>5, <1>6, <1>8, <1>9 DEF FootnotesInv

LEMMA FootnotesStep ==
    ASSUME TreeInv, FootnotesInv, [Next]_vars
    PROVE  /\ FootnotesInv'
           /\ \/ Waits \/ Opens \/ Emits \/ Closes \/ Aborts
              \/ \E f \in Footnotes : Refers(f)
  <1>1. CASE Parse
    BY <1>1, ParseCounts
  <1>2. CASE DocHeader \/ DocFooter \/ FootnotesBlock \/ Return
    <2>1. Called' /\ Emitted' = Emitted /\ MarksStay
      BY <1>2, DocumentCalled, FootnotesBlockCalled, ReturnCalled DEF FootnotesInv
    <2>2. status' = status /\ foots' = foots /\ fnum' = fnum
      BY <1>2 DEF DocHeader, DocFooter, FootnotesBlock, Return, docVars
    <2>3. status = "parsing"
      <3>1. stack # <<>>
        <4>1. CASE Return
          BY <4>1 DEF Return
        <4>2. CASE DocHeader \/ DocFooter \/ FootnotesBlock
          BY <4>2 DEF DocHeader, DocFooter, FootnotesBlock, Doing
        <4> QED BY <1>2, <4>1, <4>2
      <3> QED BY <3>1, OpenNodes DEF TreeInv
    <2> QED BY <2>1, <2>2, <2>3, WaitKeeps
  <1>3. CASE BlockStep
    <2>1. UNCHANGED docVars
      BY <1>3 DEF BlockStep, LeafBlock, ParseBlockquote, ParseParagraph, ParseHeader,
         ParseList, ListItem, NewDefinition, MergeDefinition, DefinitionData, EmptyData,
         DataItem, ParseTable, TablePart, TableRow, TableCell, FillCell
    <2>2. status' = status /\ foots' = foots /\ fnum' = fnum
      BY <2>1 DEF docVars
    <2> QED BY <1>3, <2>2, BlockStepOrdinary, OrdinaryKeeps
  <1>4. CASE InlineStep /\ ~FootnoteRef
    <2>1. status' = status /\ foots' = foots /\ fnum' = fnum
      BY <1>4 DEF InlineStep, LeafSpan, ParseSpan, AngleAutolink, BareAutolink, CharLink, docVars
    <2> QED BY <1>4, <2>1, InlineStepOrdinary, OrdinaryKeeps
  <1>5. CASE FootnoteRef
    BY <1>5, FootnoteRefKeeps
  <1>6. CASE FootnoteDef
    BY <1>6, FootnoteDefKeeps
  <1>7. CASE EndLoop \/ EndLinkBody
    <2>1. status' = status /\ foots' = foots /\ fnum' = fnum
      BY <1>7 DEF EndLoop, EndLinkBody, docVars
    <2>2. CASE ~Doing("defs")
      BY <1>7, <2>1, <2>2, EndStepOrdinary, OrdinaryKeeps
    <2>3. CASE Doing("defs")
      <3>1. EndLoop /\ status = "parsing"
        BY <1>7, <2>3, OneCall DEF EndLinkBody
      <3>2. Called' /\ Emitted' = Emitted /\ MarksStay
        BY <2>3, <3>1, EndDefsCalled DEF FootnotesInv
      <3> QED BY <2>1, <3>1, <3>2, WaitKeeps
    <2> QED BY <2>2, <2>3
  <1>8. CASE Finish
    BY <1>8, FinishCounts
  <1>9. CASE Fail
    BY <1>9, FailCounts
  <1>10. CASE UNCHANGED vars
    <2>1. tree' = tree /\ stack' = stack /\ status' = status /\ foots' = foots /\ fnum' = fnum
      BY <1>10 DEF vars, treeVars, docVars
    <2>2. Emitted' = Emitted
      BY <2>1 DEF Emitted
    <2>3. Assigned' /\ Called' /\ Counted'
      BY <2>1, <2>2 DEF FootnotesInv, Assigned, Called, Counted
    <2>4. Waits
      BY <2>1, <2>2 DEF Waits, RefCount, DefCount
    <2> QED BY <2>3, <2>4 DEF FootnotesInv
  <1> QED BY <1>1, <1>2, <1>3, <1>4, <1>5, <1>6, <1>7, <1>8, <1>9, <1>10
          DEF Next, ParseStep, InlineStep

LEMMA FootnotesInvariance == Spec => [](TreeInv /\ FootnotesInv)
  <1>1. Init => TreeInv /\ FootnotesInv
    <2> SUFFICES ASSUME Init
                 PROVE  TreeInv /\ FootnotesInv
      OBVIOUS
    <2>1. /\ DOMAIN tree = {} /\ stack = <<>> /\ status = "idle"
          /\ foots = 0 /\ fnum = [f \in Footnotes |-> 0]
      BY DEF Init
    <2>2. TreeInv
      BY <2>1, NoTree, InitHolds DEF TreeInv
    <2>3. Assigned /\ Called /\ Counted
      BY <2>1 DEF Assigned, Called, Counted
    <2> QED BY <2>2, <2>3 DEF FootnotesInv
  <1>2. TreeInv /\ FootnotesInv /\ [Next]_vars => TreeInv' /\ FootnotesInv'
    BY TreeStepKeeps, FootnotesStep
  <1> QED BY <1>1, <1>2, PTL DEF Spec

-----------------------------------------------------------------------------
(* The footnotes read off the tree *)

\* The footnotes with the numbers up to c.
UpTo(c) == [i \in 1 .. c |-> Named(i)]

LEMMA CountTypes ==
    ASSUME TreeInv, FootnotesInv
    PROVE  RefCount \in Nat /\ DefCount \in Nat /\ DefCount <= RefCount
  <1>1. foots \in Nat
    BY DEF TreeInv, IInv, TypeOK
  <1>2. Emitted \in Nat /\ Emitted <= foots
    <2>1. CASE status = "parsing" /\ ~(Len(stack[1].todo) > 1) /\ Len(stack) > 1
      <3>1. stack[2] \in Frames
        <4>1. stack \in Seq(Frames) /\ 2 \in 1 .. Len(stack)
          BY <2>1 DEF TreeInv, IInv, TypeOK
        <4> QED BY <4>1
      <3>2. stack[1].todo \in Phases /\ stack[1].todo # <<>>
        BY <2>1 DEF FootnotesInv, Called
      <3>3. stack[1].todo = <<"footer">>
        BY <2>1, <3>2, NextPhase
      <3>4. stack[2].i <= foots
        BY <1>1, <2>1, <3>3 DEF FootnotesInv, Called
      <3> QED BY <2>1, <3>1, <3>4 DEF Emitted, Frames
    <2>2. CASE ~(status = "parsing" /\ ~(Len(stack[1].todo) > 1) /\ Len(stack) > 1)
      BY <1>1, <2>2 DEF Emitted
    <2> QED BY <2>1, <2>2
  <1> QED BY <1>1, <1>2 DEF RefCount, DefCount

LEMMA NumberedCounts ==
    ASSUME TreeInv, FootnotesInv
    PROVE  Numbered(tree, "FOOTNOTE_REF", RefCount) /\ Numbered(tree, "FOOTNOTE_DEF", DefCount)
  <1>1. CASE status \in {"parsing", "done"}
    BY <1>1 DEF FootnotesInv, Counted, RefCount, DefCount
  <1>2. CASE status \notin {"parsing", "done"}
    <2>1. DOMAIN tree = {}
      BY <1>2 DEF FootnotesInv, Counted, TreeInv, IInv, TypeOK
    <2>2. Marks(tree, "FOOTNOTE_REF") = {} /\ Marks(tree, "FOOTNOTE_DEF") = {}
      BY <2>1 DEF Marks
    <2>3. RefCount = 0 /\ DefCount = 0
      BY <1>2 DEF RefCount, DefCount
    <2> QED BY <2>2, <2>3 DEF Numbered
  <1> QED BY <1>1, <1>2

LEMMA Read ==
    ASSUME TreeInv, FootnotesInv
    PROVE  /\ FootnotesOf("FOOTNOTE_REF") = UpTo(RefCount)
           /\ FootnotesOf("FOOTNOTE_DEF") = UpTo(DefCount)
  <1>1. DOMAIN tree \subseteq Nat
    BY DEF TreeInv, IInv, TypeOK
  <1>2. RefCount \in Nat /\ DefCount \in Nat
    BY CountTypes
  <1>3. Numbered(tree, "FOOTNOTE_REF", RefCount) /\ Numbered(tree, "FOOTNOTE_DEF", DefCount)
    BY NumberedCounts
  <1> QED BY <1>1, <1>2, <1>3, Footnoted DEF UpTo

LEMMA ReadNext ==
    ASSUME TreeInv', FootnotesInv'
    PROVE  /\ FootnotesOf("FOOTNOTE_REF")' = [i \in 1 .. RefCount' |-> Named(i)']
           /\ FootnotesOf("FOOTNOTE_DEF")' = [i \in 1 .. DefCount' |-> Named(i)']
  <1>1. DOMAIN tree' \subseteq Nat
    BY DEF TreeInv, IInv, TypeOK
  <1>2. (TreeInv /\ FootnotesInv => RefCount \in Nat /\ DefCount \in Nat)'
    BY CountTypes, PTL
  <1>3. (TreeInv /\ FootnotesInv =>
             Numbered(tree, "FOOTNOTE_REF", RefCount) /\ Numbered(tree, "FOOTNOTE_DEF", DefCount))'
    BY NumberedCounts, PTL
  <1>4. /\ RefCount' \in Nat /\ DefCount' \in Nat
        /\ Numbered(tree', "FOOTNOTE_REF", RefCount')
        /\ Numbered(tree', "FOOTNOTE_DEF", DefCount')
    BY <1>2, <1>3
  <1> QED BY <1>1, <1>4, FootnotedNext

\* Every number up to doc->foots has its footnote, no other one has it.
LEMMA NamedNumbers ==
    ASSUME FootnotesInv, NEW i \in 1 .. RefCount
    PROVE  Named(i) \in Footnotes /\ fnum[Named(i)] = i
  <1>1. RefCount = foots
    BY DEF RefCount
  <1>2. \E f \in Footnotes : fnum[f] = i
    BY <1>1 DEF FootnotesInv, Assigned
  <1> QED BY <1>2 DEF Named

LEMMA Extended ==
    ASSUME NEW c \in Nat, NEW q \in [1 .. c -> Footnotes], NEW x \in Footnotes,
           NEW r \in [1 .. c + 1 -> Footnotes],
           r[c + 1] = x, \A i \in 1 .. c : r[i] = q[i]
    PROVE  r = Append(q, x)
  <1>1. q \in Seq(Footnotes) /\ Len(q) = c
    OBVIOUS
  <1>2. r \in Seq(Footnotes) /\ Len(r) = c + 1
    OBVIOUS
  <1> DEFINE a == Append(q, x)
  <1>3. /\ a \in Seq(Footnotes) /\ Len(a) = c + 1
        /\ \A i \in 1 .. c : a[i] = q[i]
        /\ a[c + 1] = x
    BY <1>1, AppendProperties
  <1> HIDE DEF a
  <1>4. \A i \in 1 .. Len(r) : r[i] = a[i]
    <2>1. \A i \in 1 .. c + 1 : i \in 1 .. c \/ i = c + 1
      OBVIOUS
    <2>2. \A i \in 1 .. c : r[i] = a[i]
      BY <1>3
    <2> QED BY <1>2, <1>3, <2>1, <2>2
  <1>5. r = a
    BY <1>2, <1>3, <1>4, SeqEqual
  <1> QED BY <1>5 DEF a

-----------------------------------------------------------------------------
(* Each step of the parser is one of FootnoteOrder, or none *)

LEMMA WaitSimulates ==
    ASSUME TreeInv, FootnotesInv, TreeInv', FootnotesInv', Waits
    PROVE  UNCHANGED Order!vars
  <1>1. \A i : Named(i)' = Named(i)
    BY DEF Waits, Named
  <1>2. /\ FootnotesOf("FOOTNOTE_REF") = UpTo(RefCount)
        /\ FootnotesOf("FOOTNOTE_DEF") = UpTo(DefCount)
    BY Read
  <1>3. /\ FootnotesOf("FOOTNOTE_REF")' = [i \in 1 .. RefCount' |-> Named(i)']
        /\ FootnotesOf("FOOTNOTE_DEF")' = [i \in 1 .. DefCount' |-> Named(i)']
    BY ReadNext
  <1>4. RefCount' = RefCount /\ DefCount' = DefCount /\ status' = status
    BY DEF Waits
  <1>5. /\ FootnotesOf("FOOTNOTE_REF")' = FootnotesOf("FOOTNOTE_REF")
        /\ FootnotesOf("FOOTNOTE_DEF")' = FootnotesOf("FOOTNOTE_DEF")
    BY <1>1, <1>2, <1>3, <1>4 DEF UpTo
  <1> QED BY <1>4, <1>5 DEF Order!vars

LEMMA EndsSimulate ==
    ASSUME TreeInv, FootnotesInv, TreeInv', FootnotesInv'
    PROVE  /\ Opens => Order!Open
           /\ Closes => Order!Close
           /\ Aborts => Order!Abort
  <1>1. /\ FootnotesOf("FOOTNOTE_REF") = UpTo(RefCount)
        /\ FootnotesOf("FOOTNOTE_DEF") = UpTo(DefCount)
    BY Read
  <1>2. /\ FootnotesOf("FOOTNOTE_REF")' = [i \in 1 .. RefCount' |-> Named(i)']
        /\ FootnotesOf("FOOTNOTE_DEF")' = [i \in 1 .. DefCount' |-> Named(i)']
    BY ReadNext
  <1>3. RefCount' = 0 /\ DefCount' = 0 =>
            FootnotesOf("FOOTNOTE_REF")' = <<>> /\ FootnotesOf("FOOTNOTE_DEF")' = <<>>
    BY <1>2
  <1>4. Opens => Order!Open
    BY <1>3 DEF Opens, Order!Open
  <1>5. Aborts => Order!Abort
    BY <1>3 DEF Aborts, Order!Abort
  <1>6. ASSUME Closes
        PROVE  Order!Close
    <2>1. \A i : Named(i)' = Named(i)
      BY <1>6 DEF Closes, Named
    <2>2. DefCount = RefCount /\ RefCount' = RefCount /\ DefCount' = DefCount
          /\ status = "parsing" /\ status' = "done"
      BY <1>6 DEF Closes
    <2>3. FootnotesOf("FOOTNOTE_DEF") = FootnotesOf("FOOTNOTE_REF")
      BY <1>1, <2>2
    <2>4. /\ FootnotesOf("FOOTNOTE_REF")' = FootnotesOf("FOOTNOTE_REF")
          /\ FootnotesOf("FOOTNOTE_DEF")' = FootnotesOf("FOOTNOTE_DEF")
      BY <1>1, <1>2, <2>1, <2>2 DEF UpTo
    <2> QED BY <2>2, <2>3, <2>4 DEF Order!Close
  <1> QED BY <1>4, <1>5, <1>6

LEMMA EmitSimulates ==
    ASSUME TreeInv, FootnotesInv, TreeInv', FootnotesInv', Emits
    PROVE  Order!Emit
  <1>1. /\ FootnotesOf("FOOTNOTE_REF") = UpTo(RefCount)
        /\ FootnotesOf("FOOTNOTE_DEF") = UpTo(DefCount)
        /\ RefCount \in Nat /\ DefCount \in Nat
    BY Read, CountTypes
  <1>2. /\ FootnotesOf("FOOTNOTE_REF")' = [i \in 1 .. RefCount' |-> Named(i)']
        /\ FootnotesOf("FOOTNOTE_DEF")' = [i \in 1 .. DefCount' |-> Named(i)']
    BY ReadNext
  <1>3. \A i : Named(i)' = Named(i)
    BY DEF Emits, Named
  <1>4. /\ DefCount < RefCount /\ RefCount' = RefCount /\ DefCount' = DefCount + 1
        /\ status = "parsing" /\ status' = "parsing"
    BY DEF Emits
  <1>5. FootnotesOf("FOOTNOTE_REF")' = FootnotesOf("FOOTNOTE_REF")
    BY <1>1, <1>2, <1>3, <1>4 DEF UpTo
  <1>6. FootnotesOf("FOOTNOTE_DEF")' = UpTo(DefCount + 1)
    BY <1>2, <1>3, <1>4 DEF UpTo
  <1>7. \A i \in 1 .. RefCount : Named(i) \in Footnotes
    BY NamedNumbers
  <1>8. /\ UpTo(DefCount) \in [1 .. DefCount -> Footnotes]
        /\ UpTo(RefCount) \in [1 .. RefCount -> Footnotes]
        /\ Named(DefCount + 1) \in Footnotes
    BY <1>1, <1>4, <1>7 DEF UpTo
  <1>9. Len(UpTo(DefCount)) = DefCount /\ Len(UpTo(RefCount)) = RefCount
    BY <1>1, <1>8
  <1>10. UpTo(RefCount)[DefCount + 1] = Named(DefCount + 1)
    BY <1>1, <1>4 DEF UpTo
  <1>11. UpTo(DefCount + 1) = Append(UpTo(DefCount), Named(DefCount + 1))
    <2>1. /\ UpTo(DefCount + 1)[DefCount + 1] = Named(DefCount + 1)
          /\ \A i \in 1 .. DefCount : UpTo(DefCount + 1)[i] = UpTo(DefCount)[i]
      BY <1>1 DEF UpTo
    <2>2. UpTo(DefCount + 1) \in [1 .. DefCount + 1 -> Footnotes]
      BY <1>1, <1>4, <1>7 DEF UpTo
    <2> QED BY <1>1, <1>8, <2>1, <2>2, Extended
  <1>12. Len(FootnotesOf("FOOTNOTE_DEF")) < Len(FootnotesOf("FOOTNOTE_REF"))
    BY <1>1, <1>4, <1>9
  <1>13. FootnotesOf("FOOTNOTE_DEF")' =
             Append(FootnotesOf("FOOTNOTE_DEF"),
                    FootnotesOf("FOOTNOTE_REF")[Len(FootnotesOf("FOOTNOTE_DEF")) + 1])
    BY <1>1, <1>6, <1>9, <1>10, <1>11
  <1> QED BY <1>4, <1>5, <1>12, <1>13 DEF Order!Emit

LEMMA ReferSimulates ==
    ASSUME TreeInv, FootnotesInv, TreeInv', FootnotesInv', NEW f \in Footnotes, Refers(f)
    PROVE  Order!Refer(f)
  <1>1. PICK c \in Nat, d \in Nat : c = RefCount /\ d = DefCount /\ d <= c
    BY CountTypes
  <1>2. /\ FootnotesOf("FOOTNOTE_REF") = UpTo(c)
        /\ FootnotesOf("FOOTNOTE_DEF") = UpTo(d)
    BY <1>1, Read
  <1>3. /\ fnum[f] = 0 /\ fnum' = [fnum EXCEPT ![f] = c + 1]
        /\ status = "parsing" /\ status' = "parsing" /\ foots = c
        /\ RefCount' = c + 1 /\ DefCount' = d
    BY <1>1 DEF Refers, RefCount
  <1>4. /\ FootnotesOf("FOOTNOTE_REF")' = [i \in 1 .. c + 1 |-> Named(i)']
        /\ FootnotesOf("FOOTNOTE_DEF")' = [i \in 1 .. d |-> Named(i)']
    BY <1>3, ReadNext
  <1>5. /\ fnum'[f] = c + 1
        /\ \A g \in Footnotes \ {f} : fnum'[g] = fnum[g]
    <2>1. fnum \in [Footnotes -> Nat]
      BY DEF TreeInv, IInv, TypeOK
    <2> QED BY <1>3, <2>1
  <1>6. \A g \in Footnotes : fnum[g] \in 0 .. c
    BY <1>3 DEF FootnotesInv, Assigned
  <1>7. \A i \in 1 .. c : Named(i) \in Footnotes /\ fnum[Named(i)] = i
    BY <1>1, NamedNumbers
  <1>8. \A g, h \in Footnotes : fnum[g] = fnum[h] /\ fnum[g] # 0 => g = h
    BY DEF FootnotesInv, Assigned
  <1>9. ASSUME NEW i \in 1 .. c
        PROVE  Named(i)' = Named(i)
    <2>1. Named(i) \in Footnotes /\ fnum[Named(i)] = i /\ Named(i) # f
      BY <1>3, <1>7
    <2>2. \A g \in Footnotes : fnum'[g] = i <=> g = Named(i)
      BY <1>1, <1>5, <1>6, <1>8, <2>1
    <2>3. Named(i)' = CHOOSE g \in Footnotes : fnum'[g] = i
      BY DEF Named
    <2> QED BY <2>1, <2>2, <2>3
  <1>10. Named(c + 1)' = f
    <2>1. \A g \in Footnotes : fnum'[g] = c + 1 <=> g = f
      <3>1. \A g \in Footnotes \ {f} : fnum[g] # c + 1
        BY <1>1, <1>6
      <3> QED BY <1>5, <3>1
    <2>2. Named(c + 1)' = CHOOSE g \in Footnotes : fnum'[g] = c + 1
      BY DEF Named
    <2> QED BY <2>1, <2>2
  <1> DEFINE r == FootnotesOf("FOOTNOTE_REF")'
             q == UpTo(c)
  <1>11. /\ q \in [1 .. c -> Footnotes]
         /\ \A i \in 1 .. c : q[i] = Named(i)
         /\ DOMAIN q = 1 .. c
    BY <1>7 DEF UpTo
  <1>12. r = [i \in 1 .. c + 1 |-> Named(i)']
    BY <1>4
  <1> HIDE DEF r, q
  <1>13. r = Append(q, f)
    <2>1. c + 1 \in 1 .. c + 1 /\ \A i \in 1 .. c : i \in 1 .. c + 1
      BY <1>1
    <2>2. r[c + 1] = f /\ \A i \in 1 .. c : r[i] = q[i]
      BY <1>9, <1>10, <1>11, <1>12, <2>1
    <2>3. \A i \in 1 .. c + 1 : r[i] \in Footnotes
      <3>1. \A i \in 1 .. c + 1 : i \in 1 .. c \/ i = c + 1
        BY <1>1
      <3> QED BY <1>11, <2>2, <3>1
    <2>4. r \in [1 .. c + 1 -> Footnotes]
      BY <1>12, <2>3
    <2>5. q \in [1 .. c -> Footnotes]
      BY <1>11
    <2> QED BY <1>1, <2>2, <2>4, <2>5, Extended
  <1>14. FootnotesOf("FOOTNOTE_REF")' = Append(FootnotesOf("FOOTNOTE_REF"), f)
    BY <1>2, <1>13 DEF r, q
  <1>15. f \notin Order!ToSet(FootnotesOf("FOOTNOTE_REF"))
    <2>1. \A i \in 1 .. c : q[i] # f
      BY <1>3, <1>7, <1>11
    <2> QED BY <1>2, <1>11, <2>1 DEF q, Order!ToSet
  <1>16. FootnotesOf("FOOTNOTE_DEF")' = FootnotesOf("FOOTNOTE_DEF")
    <2>1. \A i \in 1 .. d : Named(i)' = Named(i)
      BY <1>1, <1>9
    <2> QED BY <1>2, <1>4, <2>1 DEF UpTo
  <1> QED BY <1>3, <1>14, <1>15, <1>16 DEF Order!Refer

LEMMA StepSimulates ==
    ASSUME TreeInv, FootnotesInv, TreeInv', FootnotesInv', [Next]_vars
    PROVE  Order!Next \/ UNCHANGED Order!vars
  <1>1. \/ Waits \/ Opens \/ Emits \/ Closes \/ Aborts
        \/ \E f \in Footnotes : Refers(f)
    BY FootnotesStep
  <1>2. CASE Waits
    BY <1>2, WaitSimulates
  <1>3. CASE Opens \/ Closes \/ Aborts
    BY <1>3, EndsSimulate DEF Order!Next
  <1>4. CASE Emits
    BY <1>4, EmitSimulates DEF Order!Next
  <1>5. CASE \E f \in Footnotes : Refers(f)
    BY <1>5, ReferSimulates DEF Order!Next
  <1> QED BY <1>1, <1>2, <1>3, <1>4, <1>5

\* The parser implements FootnoteOrder but for its fairness: references are
\* numbered as they are met, one for each footnote, and a parse that succeeds
\* has put out the definition of every referenced footnote, each one once, in
\* the order of the references; one that fails leaves none of them.
THEOREM FootnotesInOrder == Spec => Order!Ordered
  <1>1. Init => Order!Init
    <2> SUFFICES ASSUME Init
                 PROVE  Order!Init
      OBVIOUS
    <2>1. DOMAIN tree = {} /\ status = "idle"
      BY DEF Init
    <2>2. Numbered(tree, "FOOTNOTE_REF", 0) /\ Numbered(tree, "FOOTNOTE_DEF", 0)
      BY <2>1 DEF Numbered, Marks
    <2>3. FootnotesOf("FOOTNOTE_REF") = <<>> /\ FootnotesOf("FOOTNOTE_DEF") = <<>>
      BY <2>1, <2>2, Footnoted
    <2> QED BY <2>1, <2>3 DEF Order!Init
  <1>2. TreeInv /\ FootnotesInv /\ TreeInv' /\ FootnotesInv' /\ [Next]_vars
          => [Order!Next]_Order!vars
    <2> SUFFICES ASSUME TreeInv, FootnotesInv, TreeInv', FootnotesInv', [Next]_vars
                 PROVE  [Order!Next]_Order!vars
      OBVIOUS
    <2>1. Order!Next \/ UNCHANGED Order!vars
      BY StepSimulates
    <2> QED BY <2>1
  <1> QED BY <1>1, <1>2, FootnotesInvariance, PTL DEF Spec, Order!Ordered
=============================================================================
