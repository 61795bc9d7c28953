---------------------------- MODULE ParserProofs ----------------------------
(***************************************************************************)
(* Proofs about the parser, for every kind of input and every maxdepth:    *)
(* its types, the asserts of popnode and of mdown_doc_parse, and the limit *)
(* on the depth.                                                           *)
(***************************************************************************)
EXTENDS Parser, SequenceTheorems, TLAPS

\* An open node is open once.
StackDistinct ==
    \A i, j \in 1 .. Len(stack) : stack[i].node = stack[j].node => i = j

\* In tree g every child is a node, points to its parent and is listed once.
Linked(g) ==
    \A p \in DOMAIN g : \A i \in 1 .. Len(g[p].children) :
        /\ g[p].children[i] \in DOMAIN g
        /\ g[g[p].children[i]].parent = p
        /\ \A j \in 1 .. Len(g[p].children) :
               g[p].children[j] = g[p].children[i] => j = i

ChildParents == Linked(tree)

\* The function of frame f has a call of parse_block to finish or to make.
Blocky(f) == \E j \in 1 .. Len(f.todo) : f.todo[j] = "block"

\* A definition list was pushed within the limit, so opening it again, which
\* parse_definition does without pushnode's check, stays within it as well.
DefinitionsShallow ==
    maxdepth # 0 =>
        \A i \in 1 .. Len(stack) : Blocky(stack[i]) =>
            \A c \in 1 .. NumChildren(stack[i].node) :
                Child(stack[i].node, c).type = "DEFINITION" => i <= maxdepth

IInv ==
    /\ TypeOK
    /\ OpenPath
    /\ StackDistinct
    /\ ChildParents
    /\ DefinitionsShallow
    /\ DepthLimited

\* The part of TypeOK that is not about the tree.
DocTypeOK ==
    /\ in_link_body \in {0, 1}
    /\ foots \in Nat
    /\ fnum \in [Footnotes -> Nat]
    /\ status \in {"idle", "parsing", "done", "failed"}

-----------------------------------------------------------------------------
(* Nodes and frames *)

\* What the parse functions pass on as their caller is the top frame, later
\* in its calls or with another index or flag.
Continues(f) ==
    /\ f \in Frames
    /\ f.node = Top.node
    /\ Blocky(f) => Blocky(Top)

LEMMA NewNode ==
    ASSUME NEW t \in Types, NEW p \in Nat, NEW num \in Nat, NEW flag \in BOOLEAN
    PROVE  /\ Node(t, p, num, flag) \in NodeRecords
           /\ Node(t, p, num, flag).parent = p
           /\ Node(t, p, num, flag).type = t
           /\ Node(t, p, num, flag).children = <<>>
  BY DEF Node, NodeRecords

LEMMA ChildAdded ==
    ASSUME NEW r \in NodeRecords, NEW n \in Nat
    PROVE  /\ [r EXCEPT !.children = Append(@, n)] \in NodeRecords
           /\ [r EXCEPT !.children = Append(@, n)].parent = r.parent
           /\ [r EXCEPT !.children = Append(@, n)].type = r.type
           /\ [r EXCEPT !.children = Append(@, n)].children = Append(r.children, n)
           /\ r.children \in Seq(Nat)
  <1>1. r.children \in Seq(Nat)
    BY DEF NodeRecords
  <1>2. Append(r.children, n) \in Seq(Nat)
    BY <1>1
  <1> QED BY <1>1, <1>2 DEF NodeRecords

\* Tree g is the tree with a node of type t added in the last place under
\* doc->current.
IsGrown(g, t) ==
    /\ DOMAIN g = DOMAIN tree \cup {nodes}
    /\ nodes \notin DOMAIN tree
    /\ \A k \in DOMAIN g : g[k] \in NodeRecords
    /\ g[nodes].parent = current
    /\ g[nodes].type = t
    /\ g[nodes].children = <<>>
    /\ \A k \in DOMAIN tree : g[k].parent = tree[k].parent /\ g[k].type = tree[k].type
    /\ g[current].children = Append(tree[current].children, nodes)
    /\ \A k \in DOMAIN tree \ {current} : g[k].children = tree[k].children

LEMMA GrownNodes ==
    ASSUME NEW t \in Types, NEW num \in Nat, NEW flag \in BOOLEAN,
           TypeOK, current \in DOMAIN tree
    PROVE  IsGrown(Grown(t, num, flag), t)
  <1> DEFINE g == Grown(t, num, flag)
  <1>1. nodes \notin DOMAIN tree /\ nodes \in Nat /\ current \in Nat
    BY DEF TypeOK
  <1>2. DOMAIN g = DOMAIN tree \cup {nodes}
    BY DEF Grown
  <1>3. g[nodes] = Node(t, current, num, flag)
    BY DEF Grown
  <1>4. g[current] = [tree[current] EXCEPT !.children = Append(@, nodes)]
    BY <1>1 DEF Grown
  <1>5. \A k \in DOMAIN tree \ {current} : g[k] = tree[k]
    BY <1>1 DEF Grown
  <1>6. \A k \in DOMAIN tree : tree[k] \in NodeRecords
    BY DEF TypeOK
  <1>7. /\ g[current] \in NodeRecords
        /\ g[current].parent = tree[current].parent
        /\ g[current].type = tree[current].type
        /\ g[current].children = Append(tree[current].children, nodes)
    BY <1>1, <1>4, <1>6, ChildAdded
  <1>8. /\ g[nodes] \in NodeRecords
        /\ g[nodes].parent = current
        /\ g[nodes].type = t
        /\ g[nodes].children = <<>>
    BY <1>1, <1>3, NewNode
  <1> HIDE DEF g
  <1>9. IsGrown(g, t)
    BY <1>1, <1>2, <1>5, <1>6, <1>7, <1>8 DEF IsGrown
  <1> QED BY <1>9 DEF g

\* Adding a child in the last place keeps the lists of children.
LEMMA GrownChildren ==
    ASSUME TypeOK, ChildParents, current \in DOMAIN tree,
           NEW g, NEW t, IsGrown(g, t)
    PROVE  Linked(g)
  <1> SUFFICES ASSUME NEW p \in DOMAIN g, NEW i \in 1 .. Len(g[p].children)
               PROVE  /\ g[p].children[i] \in DOMAIN g
                      /\ g[g[p].children[i]].parent = p
                      /\ \A j \in 1 .. Len(g[p].children) :
                             g[p].children[j] = g[p].children[i] => j = i
    BY DEF Linked
  <1>0. /\ DOMAIN g = DOMAIN tree \cup {nodes}
        /\ nodes \notin DOMAIN tree
        /\ g[nodes].parent = current
        /\ g[nodes].children = <<>>
        /\ \A k \in DOMAIN tree : g[k].parent = tree[k].parent
        /\ g[current].children = Append(tree[current].children, nodes)
        /\ \A k \in DOMAIN tree \ {current} : g[k].children = tree[k].children
    BY DEF IsGrown
  <1>1. CASE p = nodes
    BY <1>0, <1>1
  <1>2. CASE p = current
    <2> DEFINE s == tree[current].children
    <2>1. s \in Seq(Nat) /\ nodes \in Nat
      BY DEF NodeRecords, TypeOK
    <2>2. /\ Len(Append(s, nodes)) = Len(s) + 1
          /\ \A j \in 1 .. Len(s) : Append(s, nodes)[j] = s[j]
          /\ Append(s, nodes)[Len(s) + 1] = nodes
          /\ Len(s) \in Nat
      BY <2>1
    <2>3. \A j \in 1 .. Len(s) :
              /\ s[j] \in DOMAIN tree /\ tree[s[j]].parent = current
              /\ \A k \in 1 .. Len(s) : s[k] = s[j] => k = j
      BY DEF ChildParents, Linked
    <2>4. g[p].children = Append(s, nodes)
      BY <1>0, <1>2
    <2> HIDE DEF s
    <2>5. CASE i = Len(s) + 1
      BY <1>0, <1>2, <2>2, <2>3, <2>4, <2>5
    <2>6. CASE i \in 1 .. Len(s)
      <3>1. s[i] \in DOMAIN tree /\ g[p].children[i] = s[i]
        BY <2>2, <2>3, <2>4, <2>6
      <3>2. g[s[i]].parent = p
        BY <1>0, <1>2, <2>3, <2>6
      <3>3. ASSUME NEW j \in 1 .. Len(s) + 1, Append(s, nodes)[j] = s[i]
            PROVE  j = i
        <4>1. CASE j = Len(s) + 1
          BY <1>0, <2>2, <3>1, <3>3, <4>1
        <4>2. CASE j \in 1 .. Len(s)
          BY <2>2, <2>3, <2>6, <3>3, <4>2
        <4> QED BY <2>2, <4>1, <4>2
      <3> QED BY <1>0, <2>2, <2>4, <3>1, <3>2, <3>3
    <2> QED BY <2>2, <2>4, <2>5, <2>6
  <1>3. CASE p \in DOMAIN tree \ {current}
    <2>1. g[p].children = tree[p].children
      BY <1>0, <1>3
    <2>2. /\ tree[p].children[i] \in DOMAIN tree
          /\ tree[tree[p].children[i]].parent = p
          /\ \A j \in 1 .. Len(tree[p].children) :
                 tree[p].children[j] = tree[p].children[i] => j = i
      BY <1>3, <2>1 DEF ChildParents, Linked
    <2> QED BY <1>0, <2>1, <2>2
  <1> QED BY <1>0, <1>1, <1>2, <1>3

\* Stack s is the stack with f for its top frame, and then e above it.
IsPushed(s, f, e) ==
    /\ s \in Seq(Frames)
    /\ Len(s) = Len(stack) + 1
    /\ s[Len(stack) + 1] = e
    /\ s[Len(stack)] = f
    /\ \A i \in 1 .. Len(stack) - 1 : s[i] = stack[i]

\* Stack s is the stack with f for its top frame.
IsSet(s, f) ==
    /\ s \in Seq(Frames) /\ s # <<>>
    /\ Len(s) = Len(stack)
    /\ s[Len(stack)] = f
    /\ \A i \in 1 .. Len(stack) - 1 : s[i] = stack[i]

\* Stack s is the stack without its top frame.
IsPopped(s) ==
    /\ s \in Seq(Frames)
    /\ Len(s) = Len(stack) - 1
    /\ \A i \in 1 .. Len(stack) - 1 : s[i] = stack[i]

LEMMA FrameSet ==
    ASSUME stack \in Seq(Frames), stack # <<>>, NEW f \in Frames
    PROVE  IsSet(SetTop(f), f)
  BY DEF SetTop, IsSet

LEMMA FrameAppended ==
    ASSUME stack \in Seq(Frames), stack # <<>>, NEW e \in Frames
    PROVE  /\ Append(stack, e) \in Seq(Frames)
           /\ Len(Append(stack, e)) = Len(stack) + 1
           /\ Append(stack, e)[Len(stack) + 1] = e
           /\ \A i \in 1 .. Len(stack) : Append(stack, e)[i] = stack[i]
  OBVIOUS

LEMMA FramePushed ==
    ASSUME stack \in Seq(Frames), stack # <<>>, NEW f \in Frames, NEW e \in Frames
    PROVE  IsPushed(Append(SetTop(f), e), f, e)
  <1>1. SetTop(f) \in Seq(Frames) /\ Len(SetTop(f)) = Len(stack) /\ Len(stack) \in Nat \ {0}
    BY DEF SetTop
  <1>2. \A i \in 1 .. Len(stack) : SetTop(f)[i] = IF i = Len(stack) THEN f ELSE stack[i]
    BY DEF SetTop
  <1> DEFINE s == Append(SetTop(f), e)
  <1> HIDE DEF SetTop
  <1>3. /\ s \in Seq(Frames) /\ Len(s) = Len(stack) + 1
        /\ s[Len(stack) + 1] = e
        /\ \A i \in 1 .. Len(stack) : s[i] = SetTop(f)[i]
    BY <1>1
  <1> HIDE DEF s
  <1>4. IsPushed(s, f, e)
    BY <1>1, <1>2, <1>3 DEF IsPushed
  <1> QED BY <1>4 DEF s

LEMMA WithoutLast ==
    ASSUME NEW S, NEW q \in Seq(S), q # <<>>
    PROVE  /\ SubSeq(q, 1, Len(q) - 1) \in Seq(S)
           /\ Len(SubSeq(q, 1, Len(q) - 1)) = Len(q) - 1
           /\ \A i \in 1 .. Len(q) - 1 : SubSeq(q, 1, Len(q) - 1)[i] = q[i]
           /\ Len(q) \in Nat \ {0}
  <1>1. Len(q) \in Nat \ {0}
    OBVIOUS
  <1>2. SubSeq(q, 1, Len(q) - 1) \in Seq(S)
    OBVIOUS
  <1>3. Len(SubSeq(q, 1, Len(q) - 1)) = IF 1 <= Len(q) - 1 THEN (Len(q) - 1) - 1 + 1 ELSE 0
    OBVIOUS
  <1>4. \A i \in 1 .. Len(q) - 1 : SubSeq(q, 1, Len(q) - 1)[i] = q[i]
    OBVIOUS
  <1>5. ASSUME NEW n \in Nat \ {0}
        PROVE  (IF 1 <= n - 1 THEN (n - 1) - 1 + 1 ELSE 0) = n - 1
    OBVIOUS
  <1>6. Len(SubSeq(q, 1, Len(q) - 1)) = Len(q) - 1
    BY <1>1, <1>3, <1>5
  <1> QED BY <1>1, <1>2, <1>4, <1>6

LEMMA FramePopped ==
    ASSUME stack \in Seq(Frames), stack # <<>>
    PROVE  IsPopped(SubSeq(stack, 1, Len(stack) - 1))
  BY WithoutLast DEF IsPopped

LEMMA NewFrame ==
    ASSUME NEW n \in Nat, NEW todo \in Seq(Calls), NEW flag \in BOOLEAN
    PROVE  /\ Frame(n, todo, flag) \in Frames
           /\ Frame(n, todo, flag).node = n
           /\ Frame(n, todo, flag).todo = todo
  BY DEF Frame, Frames

\* While a node is open, doc->current is the node of the top frame and all
\* open nodes are in the tree.
LEMMA OpenNodes ==
    ASSUME IInv, stack # <<>>
    PROVE  /\ status = "parsing"
           /\ Len(stack) \in Nat \ {0} /\ depth = Len(stack)
           /\ Top \in Frames /\ Top = stack[Len(stack)]
           /\ current = Top.node /\ current \in DOMAIN tree /\ current \in Nat
           /\ \A i \in 1 .. Len(stack) : stack[i] \in Frames /\ stack[i].node \in DOMAIN tree
  BY DEF IInv, OpenPath, TypeOK, Top

-----------------------------------------------------------------------------
(* The three ways to change the tree *)

\* pushnode of a node whose function then runs.
LEMMA PushKeeps ==
    ASSUME IInv, stack # <<>>,
           NEW t \in Types, NEW num \in Nat, NEW flag \in BOOLEAN,
           NEW todo \in Seq(Calls), NEW caller, Continues(caller),
           PushNode(t, num, flag, todo, caller),
           status' = status, DocTypeOK'
    PROVE  IInv'
  <1> USE DEF PushNode
  <1> DEFINE n == Len(stack)
  <1> DEFINE e == Frame(nodes, todo, flag)
  <1>1. /\ status = "parsing" /\ n \in Nat \ {0} /\ depth = n
        /\ Top = stack[n] /\ current = Top.node
        /\ current \in DOMAIN tree /\ current \in Nat
        /\ \A i \in 1 .. n : stack[i] \in Frames /\ stack[i].node \in DOMAIN tree
    BY OpenNodes
  <1>2. TypeOK /\ OpenPath /\ StackDistinct /\ ChildParents /\ DefinitionsShallow
    BY DEF IInv
  <1>3. nodes \in Nat /\ stack \in Seq(Frames)
    BY <1>2 DEF TypeOK
  <1>4. e \in Frames /\ e.node = nodes /\ e.todo = todo
    BY <1>3, NewFrame
  <1>5. IsGrown(tree', t)
    BY <1>1, <1>2, GrownNodes
  <1>6. caller \in Frames /\ caller.node = Top.node
    BY DEF Continues
  <1>7. /\ stack' \in Seq(Frames) /\ Len(stack') = n + 1
        /\ stack'[n + 1] = e /\ stack'[n] = caller
        /\ \A i \in 1 .. n - 1 : stack'[i] = stack[i]
    <2>1. stack' = Append(SetTop(caller), e)
      OBVIOUS
    <2> HIDE DEF e, PushNode
    <2>2. IsPushed(stack', caller, e)
      BY <2>1, <1>3, <1>4, <1>6, FramePushed
    <2> QED BY <2>2 DEF IsPushed
  <1> HIDE DEF e, n, PushNode
  <1>8. \A i \in 1 .. n : stack'[i].node = stack[i].node
    BY <1>1, <1>6, <1>7
  <1>9. /\ nodes' = nodes + 1 /\ current' = nodes /\ depth' = depth + 1 /\ text' = text
        /\ CanPush
    BY DEF PushNode
  <1>10. TypeOK'
    <2>1. DOMAIN tree' \subseteq 0 .. nodes' - 1
      BY <1>2, <1>3, <1>5, <1>9 DEF IsGrown, TypeOK
    <2> QED BY <2>1, <1>1, <1>2, <1>5, <1>7, <1>9 DEF TypeOK, DocTypeOK, IsGrown
  <1>11. Top' = e /\ Len(stack') = n + 1 /\ stack' # <<>>
    BY <1>1, <1>7 DEF Top
  <1>12. OpenPath'
    <2>1. \A i \in 1 .. n + 1 :
              /\ stack'[i].node \in DOMAIN tree'
              /\ tree'[stack'[i].node].parent =
                     IF i = 1 THEN NULL ELSE stack'[i - 1].node
      <3>1. ASSUME NEW i \in 1 .. n
            PROVE  /\ stack'[i].node \in DOMAIN tree'
                   /\ tree'[stack'[i].node].parent =
                          IF i = 1 THEN NULL ELSE stack'[i - 1].node
        <4>1. stack[i].node \in DOMAIN tree /\ stack'[i].node = stack[i].node
          BY <1>1, <1>8
        <4>2. tree[stack[i].node].parent = IF i = 1 THEN NULL ELSE stack[i - 1].node
          BY <1>1, <1>2, <3>1 DEF OpenPath, n
        <4>3. i # 1 => stack'[i - 1].node = stack[i - 1].node
          BY <1>1, <1>8
        <4> QED BY <4>1, <4>2, <4>3, <1>5 DEF IsGrown
      <3>2. /\ stack'[n + 1].node \in DOMAIN tree'
            /\ tree'[stack'[n + 1].node].parent = stack'[n].node
        BY <1>1, <1>4, <1>5, <1>6, <1>7 DEF IsGrown
      <3> QED BY <1>1, <3>1, <3>2
    <2>2. stack'[1].node = 0
      BY <1>1, <1>2, <1>8 DEF OpenPath
    <2> QED BY <1>1, <1>4, <1>7, <1>9, <1>11, <2>1, <2>2 DEF OpenPath
  <1>13. StackDistinct'
    <2>1. \A i \in 1 .. n : stack'[i].node # nodes
      BY <1>1, <1>5, <1>8 DEF IsGrown
    <2>2. \A i, j \in 1 .. n : stack[i].node = stack[j].node => i = j
      BY <1>2 DEF StackDistinct, n
    <2>3. stack'[n + 1].node = nodes
      BY <1>4, <1>7
    <2> QED BY <1>1, <1>7, <1>8, <2>1, <2>2, <2>3 DEF StackDistinct
  <1>14. ChildParents'
    BY <1>1, <1>2, <1>5, GrownChildren DEF ChildParents
  <1>15. DefinitionsShallow'
    <2> SUFFICES ASSUME maxdepth # 0, NEW i \in 1 .. n + 1, Blocky(stack'[i]),
                        NEW c \in 1 .. Len(tree'[stack'[i].node].children),
                        tree'[tree'[stack'[i].node].children[c]].type = "DEFINITION"
                 PROVE  i <= maxdepth
      BY <1>7 DEF DefinitionsShallow, Child, NumChildren
    <2>1. i # n + 1
      BY <1>1, <1>3, <1>4, <1>5, <1>7 DEF IsGrown
    <2>2. i \in 1 .. n
      BY <2>1, <1>1
    <2>3. CASE i = n
      BY <2>3, <1>1, <1>9, MaxdepthAssumption DEF CanPush
    <2>4. CASE i \in 1 .. n - 1
      <3>1. stack[i].node # current
        BY <1>1, <1>2, <2>4 DEF StackDistinct, n
      <3>2. stack'[i] = stack[i] /\ stack[i].node \in DOMAIN tree
        BY <1>1, <1>7, <2>4
      <3>3. tree'[stack[i].node].children = tree[stack[i].node].children
        BY <1>5, <3>1, <3>2 DEF IsGrown
      <3>4. tree[stack[i].node].children[c] \in DOMAIN tree
        BY <1>2, <3>2, <3>3 DEF ChildParents, Linked
      <3>5. tree[tree[stack[i].node].children[c]].type = "DEFINITION"
        BY <1>5, <3>2, <3>3, <3>4 DEF IsGrown
      <3> QED BY <1>2, <2>2, <3>2, <3>3, <3>5 DEF DefinitionsShallow, Child, NumChildren, n
    <2> QED BY <2>2, <2>3, <2>4, <1>1
  <1>16. DepthLimited'
    BY <1>1, <1>9, MaxdepthAssumption DEF DepthLimited, CanPush
  <1> QED BY <1>10, <1>12, <1>13, <1>14, <1>15, <1>16 DEF IInv

\* pushnode and popnode of a node without children.
LEMMA LeafKeeps ==
    ASSUME IInv, stack # <<>>,
           NEW t \in Types, NEW num \in Nat, NEW flag \in BOOLEAN,
           NEW caller, Continues(caller),
           PushLeaf(t, num, flag, caller),
           status' = status, DocTypeOK'
    PROVE  IInv'
  <1> DEFINE n == Len(stack)
  <1>1. /\ status = "parsing" /\ n \in Nat \ {0} /\ depth = n
        /\ Top = stack[n] /\ current = Top.node
        /\ current \in DOMAIN tree /\ current \in Nat
        /\ \A i \in 1 .. n : stack[i] \in Frames /\ stack[i].node \in DOMAIN tree
    BY OpenNodes
  <1>2. TypeOK /\ OpenPath /\ StackDistinct /\ ChildParents /\ DefinitionsShallow
    BY DEF IInv
  <1>3. nodes \in Nat /\ stack \in Seq(Frames)
    BY <1>2 DEF TypeOK
  <1>4. caller \in Frames /\ caller.node = Top.node /\ (Blocky(caller) => Blocky(Top))
    BY DEF Continues
  <1>5. IsGrown(tree', t)
    BY <1>1, <1>2, GrownNodes DEF PushLeaf
  <1>6. IsSet(stack', caller)
    BY <1>3, <1>4, FrameSet DEF PushLeaf
  <1>7. /\ nodes' = nodes + 1 /\ current' = current /\ depth' = depth /\ text' = text
        /\ CanPush
    BY DEF PushLeaf
  <1>8. /\ stack' \in Seq(Frames) /\ stack' # <<>> /\ Len(stack') = n
        /\ stack'[n] = caller
        /\ \A i \in 1 .. n - 1 : stack'[i] = stack[i]
    BY <1>6 DEF IsSet
  <1> HIDE DEF n
  <1>9. Top' = caller /\ \A i \in 1 .. n : stack'[i].node = stack[i].node
    BY <1>1, <1>4, <1>8 DEF Top
  <1>10. TypeOK'
    <2>1. DOMAIN tree' \subseteq 0 .. nodes' - 1
      BY <1>2, <1>3, <1>5, <1>7 DEF IsGrown, TypeOK
    <2> QED BY <2>1, <1>1, <1>2, <1>5, <1>7, <1>8 DEF TypeOK, DocTypeOK, IsGrown
  <1>11. OpenPath'
    <2>1. ASSUME NEW i \in 1 .. n
          PROVE  /\ stack'[i].node \in DOMAIN tree'
                 /\ tree'[stack'[i].node].parent =
                        IF i = 1 THEN NULL ELSE stack'[i - 1].node
      <3>1. stack[i].node \in DOMAIN tree /\ stack'[i].node = stack[i].node
        BY <1>1, <1>9
      <3>2. tree[stack[i].node].parent = IF i = 1 THEN NULL ELSE stack[i - 1].node
        BY <1>1, <1>2 DEF OpenPath, n
      <3>3. i # 1 => stack'[i - 1].node = stack[i - 1].node
        BY <1>1, <1>9
      <3> QED BY <3>1, <3>2, <3>3, <1>5 DEF IsGrown
    <2>2. stack'[1].node = 0
      BY <1>1, <1>2, <1>9 DEF OpenPath
    <2> QED BY <1>1, <1>4, <1>7, <1>8, <1>9, <2>1, <2>2 DEF OpenPath
  <1>12. StackDistinct'
    BY <1>2, <1>8, <1>9 DEF StackDistinct, n
  <1>13. ChildParents'
    BY <1>1, <1>2, <1>5, GrownChildren DEF ChildParents
  <1>14. DefinitionsShallow'
    <2> SUFFICES ASSUME maxdepth # 0, NEW i \in 1 .. n, Blocky(stack'[i]),
                        NEW c \in 1 .. Len(tree'[stack'[i].node].children),
                        tree'[tree'[stack'[i].node].children[c]].type = "DEFINITION"
                 PROVE  i <= maxdepth
      BY <1>8 DEF DefinitionsShallow, Child, NumChildren
    <2>3. CASE i = n
      BY <2>3, <1>1, <1>7, MaxdepthAssumption DEF CanPush
    <2>4. CASE i \in 1 .. n - 1
      <3>1. stack[i].node # current
        BY <1>1, <1>2, <2>4 DEF StackDistinct, n
      <3>2. stack'[i] = stack[i] /\ stack[i].node \in DOMAIN tree
        BY <1>1, <1>8, <2>4
      <3>3. tree'[stack[i].node].children = tree[stack[i].node].children
        BY <1>5, <3>1, <3>2 DEF IsGrown
      <3>4. tree[stack[i].node].children[c] \in DOMAIN tree
        BY <1>2, <3>2, <3>3 DEF ChildParents, Linked
      <3>5. tree[tree[stack[i].node].children[c]].type = "DEFINITION"
        BY <1>5, <3>2, <3>3, <3>4 DEF IsGrown
      <3> QED BY <1>2, <3>2, <3>3, <3>5 DEF DefinitionsShallow, Child, NumChildren, n
    <2> QED BY <2>3, <2>4, <1>1
  <1>15. DepthLimited'
    BY <1>1, <1>7, MaxdepthAssumption DEF DepthLimited, CanPush
  <1> QED BY <1>10, <1>11, <1>12, <1>13, <1>14, <1>15 DEF IInv

\* A step that only lets the innermost function go on.
LEMMA GoesOnKeeps ==
    ASSUME IInv, stack # <<>>,
           NEW caller, Continues(caller), stack' = SetTop(caller),
           UNCHANGED <<text, nodes, tree, current, depth>>,
           status' = status, DocTypeOK'
    PROVE  IInv'
  <1> DEFINE n == Len(stack)
  <1>1. /\ status = "parsing" /\ n \in Nat \ {0} /\ depth = n
        /\ Top = stack[n] /\ current = Top.node
    BY OpenNodes
  <1>2. TypeOK /\ OpenPath /\ StackDistinct /\ ChildParents /\ DefinitionsShallow /\ DepthLimited
    BY DEF IInv
  <1>3. stack \in Seq(Frames)
    BY <1>2 DEF TypeOK
  <1>4. caller \in Frames /\ caller.node = Top.node /\ (Blocky(caller) => Blocky(Top))
    BY DEF Continues
  <1>6. IsSet(stack', caller)
    BY <1>3, <1>4, FrameSet
  <1>8. /\ stack' \in Seq(Frames) /\ stack' # <<>> /\ Len(stack') = n
        /\ stack'[n] = caller
        /\ \A i \in 1 .. n - 1 : stack'[i] = stack[i]
    BY <1>6 DEF IsSet
  <1> HIDE DEF n
  <1>9. /\ Top' = caller
        /\ \A i \in 1 .. n : stack'[i].node = stack[i].node
        /\ \A i \in 1 .. n : Blocky(stack'[i]) => Blocky(stack[i])
    BY <1>1, <1>4, <1>8 DEF Top
  <1>10. TypeOK'
    BY <1>2, <1>8 DEF TypeOK, DocTypeOK
  <1>11. OpenPath'
    <2>1. ASSUME NEW i \in 1 .. n
          PROVE  /\ stack'[i].node \in DOMAIN tree'
                 /\ tree'[stack'[i].node].parent =
                        IF i = 1 THEN NULL ELSE stack'[i - 1].node
      <3>1. /\ stack[i].node \in DOMAIN tree /\ stack'[i].node = stack[i].node
            /\ tree[stack[i].node].parent = IF i = 1 THEN NULL ELSE stack[i - 1].node
        BY <1>1, <1>2, <1>9 DEF OpenPath, n
      <3>2. i # 1 => stack'[i - 1].node = stack[i - 1].node
        BY <1>1, <1>9
      <3> QED BY <3>1, <3>2
    <2>2. stack'[1].node = 0
      BY <1>1, <1>2, <1>9 DEF OpenPath
    <2> QED BY <1>1, <1>4, <1>8, <1>9, <2>1, <2>2 DEF OpenPath
  <1>12. StackDistinct'
    BY <1>2, <1>8, <1>9 DEF StackDistinct, n
  <1>13. ChildParents'
    BY <1>2 DEF ChildParents, Linked
  <1>14. DefinitionsShallow'
    BY <1>2, <1>8, <1>9 DEF DefinitionsShallow, Child, NumChildren, n
  <1>15. DepthLimited'
    BY <1>2 DEF DepthLimited
  <1> QED BY <1>10, <1>11, <1>12, <1>13, <1>14, <1>15 DEF IInv

LEMMA BothFlags ==
    ASSUME NEW a \in BOOLEAN, NEW b \in BOOLEAN
    PROVE  (a \/ b) \in BOOLEAN
  BY Zenon

\* popnode and the return to the function below.
LEMMA ReturnKeeps ==
    ASSUME IInv, Return
    PROVE  IInv'
  <1> DEFINE n == Len(stack)
  <1>0. stack # <<>> /\ n > 1
    BY DEF Return, IInv, TypeOK
  <1>1. /\ status = "parsing" /\ n \in Nat \ {0} /\ depth = n
        /\ Top \in Frames /\ Top = stack[n] /\ current = Top.node
        /\ current \in DOMAIN tree
        /\ \A i \in 1 .. n : stack[i] \in Frames /\ stack[i].node \in DOMAIN tree
    BY <1>0, OpenNodes
  <1>2. TypeOK /\ OpenPath /\ StackDistinct /\ ChildParents /\ DefinitionsShallow /\ DepthLimited
    BY DEF IInv
  <1>3. stack \in Seq(Frames) /\ \A k \in DOMAIN tree : tree[k] \in NodeRecords
    BY <1>2 DEF TypeOK
  <1>4. /\ DOMAIN tree' = DOMAIN tree
        /\ \A k \in DOMAIN tree :
               /\ tree'[k] \in NodeRecords
               /\ tree'[k].parent = tree[k].parent /\ tree'[k].type = tree[k].type
               /\ tree'[k].children = tree[k].children
    <2>1. CASE tree' = tree
      BY <2>1, <1>3
    <2>2. CASE tree' = [tree EXCEPT ![Top.node].flag = @ \/ Top.flag]
      <3>1. Top.flag \in BOOLEAN
        BY <1>1 DEF Frames
      <3>2. tree[current].flag \/ Top.flag \in BOOLEAN
        <4>1. tree[current].flag \in BOOLEAN
          BY <1>1, <1>3 DEF NodeRecords
        <4> QED BY <3>1, <4>1, BothFlags
      <3>3. tree' = [tree EXCEPT ![current] =
                        [tree[current] EXCEPT !.flag = tree[current].flag \/ Top.flag]]
        BY <2>2, <1>1
      <3> DEFINE r == [tree[current] EXCEPT !.flag = tree[current].flag \/ Top.flag]
      <3>4. /\ r \in NodeRecords /\ r.parent = tree[current].parent
            /\ r.type = tree[current].type /\ r.children = tree[current].children
        <4>1. tree[current] \in NodeRecords
          BY <1>1, <1>3
        <4> QED BY <4>1, <3>2 DEF NodeRecords
      <3> HIDE DEF r
      <3>5. tree' = [tree EXCEPT ![current] = r]
        BY <3>3 DEF r
      <3> QED BY <3>4, <3>5, <1>1, <1>3
    <2> QED BY <2>1, <2>2 DEF Return
  <1>5. /\ text' = text /\ nodes' = nodes /\ depth' = depth - 1
        /\ current' = tree[current].parent
        /\ UNCHANGED docVars
    BY DEF Return, PopNode
  <1>6. IsPopped(stack')
    BY <1>0, <1>3, FramePopped DEF Return, PopNode
  <1>7. /\ stack' \in Seq(Frames) /\ Len(stack') = n - 1
        /\ \A i \in 1 .. n - 1 : stack'[i] = stack[i]
    BY <1>6 DEF IsPopped
  <1> HIDE DEF n
  <1>8. /\ \A i \in 1 .. n :
               /\ stack[i].node \in DOMAIN tree
               /\ tree[stack[i].node].parent = IF i = 1 THEN NULL ELSE stack[i - 1].node
        /\ stack[1].node = 0
    BY <1>1, <1>2 DEF OpenPath, n
  <1>9. current' = stack[n - 1].node /\ current' \in Nat
    <2>1. tree[current].parent = stack[n - 1].node
      BY <1>0, <1>1, <1>8
    <2> QED BY <2>1, <1>0, <1>1, <1>5 DEF Frames
  <1>10. Top' = stack[n - 1] /\ stack' # <<>>
    BY <1>0, <1>1, <1>7 DEF Top
  <1>11. TypeOK'
    BY <1>0, <1>1, <1>2, <1>4, <1>5, <1>7, <1>9 DEF TypeOK, docVars
  <1>12. OpenPath'
    <2>1. \A i \in 1 .. n - 1 :
               /\ stack'[i].node \in DOMAIN tree'
               /\ tree'[stack'[i].node].parent = IF i = 1 THEN NULL ELSE stack'[i - 1].node
      BY <1>1, <1>4, <1>7, <1>8
    <2> QED BY <2>1, <1>0, <1>1, <1>5, <1>7, <1>8, <1>9, <1>10 DEF OpenPath, docVars
  <1>13. StackDistinct'
    BY <1>1, <1>2, <1>7 DEF StackDistinct, n
  <1>14. ChildParents'
    BY <1>2, <1>4 DEF ChildParents, Linked
  <1>15. DefinitionsShallow'
    <2> SUFFICES ASSUME maxdepth # 0, NEW i \in 1 .. n - 1, Blocky(stack'[i]),
                        NEW c \in 1 .. Len(tree'[stack'[i].node].children),
                        tree'[tree'[stack'[i].node].children[c]].type = "DEFINITION"
                 PROVE  i <= maxdepth
      BY <1>7 DEF DefinitionsShallow, Child, NumChildren
    <2>1. stack'[i] = stack[i] /\ stack[i].node \in DOMAIN tree /\ i \in 1 .. n
      BY <1>1, <1>7
    <2>2. tree'[stack[i].node].children = tree[stack[i].node].children
      BY <1>4, <2>1
    <2>3. tree[stack[i].node].children[c] \in DOMAIN tree
      BY <1>2, <2>1, <2>2 DEF ChildParents, Linked
    <2>4. tree[tree[stack[i].node].children[c]].type = "DEFINITION"
      BY <1>4, <2>1, <2>2, <2>3
    <2> QED BY <1>2, <2>1, <2>2, <2>4 DEF DefinitionsShallow, Child, NumChildren, n
  <1>16. DepthLimited'
    BY <1>1, <1>2, <1>5, MaxdepthAssumption DEF DepthLimited, docVars
  <1> QED BY <1>11, <1>12, <1>13, <1>14, <1>15, <1>16 DEF IInv

-----------------------------------------------------------------------------
(* Definition lists *)

\* Tree g is tree b with cur moved to the last place under x, as a title,
\* and with `kept' for the children of doc->current.
IsRetitled(g, b, cur, kept, x) ==
    /\ DOMAIN g = DOMAIN b
    /\ \A k \in DOMAIN g : g[k] \in NodeRecords
    /\ g[cur].parent = x
    /\ g[cur].type = "DEFINITION_TITLE"
    /\ \A k \in DOMAIN b \ {cur} : g[k].parent = b[k].parent /\ g[k].type = b[k].type
    /\ g[x].children = Append(b[x].children, cur)
    /\ g[current].children = kept
    /\ \A k \in DOMAIN b \ {x, current} : g[k].children = b[k].children

\* The node r made a title under x.
TitleOf(r, x) == [r EXCEPT !.type = "DEFINITION_TITLE", !.parent = x]

LEMMA TitleMoved ==
    ASSUME NEW r \in NodeRecords, NEW x \in Nat
    PROVE  /\ TitleOf(r, x) \in NodeRecords
           /\ TitleOf(r, x).parent = x
           /\ TitleOf(r, x).type = "DEFINITION_TITLE"
           /\ TitleOf(r, x).children = r.children
  <1>1. "DEFINITION_TITLE" \in Types
    BY DEF Types, BlockTypes
  <1> DEFINE q == [r EXCEPT !.type = "DEFINITION_TITLE"]
  <1>2. /\ q \in NodeRecords
        /\ q.type = "DEFINITION_TITLE" /\ q.children = r.children
    BY <1>1 DEF NodeRecords
  <1> HIDE DEF q
  <1>3. /\ [q EXCEPT !.parent = x] \in NodeRecords
        /\ [q EXCEPT !.parent = x].parent = x
        /\ [q EXCEPT !.parent = x].type = q.type
        /\ [q EXCEPT !.parent = x].children = q.children
    BY <1>2 DEF NodeRecords
  <1>4. TitleOf(r, x) = [q EXCEPT !.parent = x]
    BY DEF q, TitleOf
  <1> QED BY <1>2, <1>3, <1>4

LEMMA RetitledNodes ==
    ASSUME NEW b, \A k \in DOMAIN b : b[k] \in NodeRecords,
           NEW cur \in DOMAIN b, NEW x \in DOMAIN b, current \in DOMAIN b,
           cur \in Nat, x \in Nat,
           cur # x, cur # current, x # current,
           NEW kept \in Seq(Nat)
    PROVE  IsRetitled(Retitled(b, cur, kept, x), b, cur, kept, x)
  <1>0. b[cur] \in NodeRecords /\ b[x] \in NodeRecords /\ b[current] \in NodeRecords
    OBVIOUS
  <1> DEFINE g == Retitled(b, cur, kept, x)
  <1>1. DOMAIN g = DOMAIN b
    BY DEF Retitled
  <1>2. g[cur] = TitleOf(b[cur], x)
    BY DEF Retitled, TitleOf
  <1>3. g[x] = [b[x] EXCEPT !.children = Append(@, cur)]
    BY DEF Retitled
  <1>4. g[current] = [b[current] EXCEPT !.children = kept]
    BY DEF Retitled
  <1>5. \A k \in DOMAIN b \ {cur, x, current} : g[k] = b[k]
    BY DEF Retitled
  <1> HIDE DEF g
  <1>6. /\ g[cur] \in NodeRecords /\ g[cur].parent = x
        /\ g[cur].type = "DEFINITION_TITLE" /\ g[cur].children = b[cur].children
    <2>1. /\ TitleOf(b[cur], x) \in NodeRecords
          /\ TitleOf(b[cur], x).parent = x
          /\ TitleOf(b[cur], x).type = "DEFINITION_TITLE"
          /\ TitleOf(b[cur], x).children = b[cur].children
      BY <1>0, TitleMoved
    <2> QED BY <1>2, <2>1
  <1>7. /\ g[x] \in NodeRecords /\ g[x].parent = b[x].parent
        /\ g[x].type = b[x].type /\ g[x].children = Append(b[x].children, cur)
    BY <1>0, <1>3, ChildAdded
  <1>8. /\ g[current] \in NodeRecords /\ g[current].parent = b[current].parent
        /\ g[current].type = b[current].type /\ g[current].children = kept
    BY <1>4 DEF NodeRecords
  <1>9. IsRetitled(g, b, cur, kept, x)
    BY <1>1, <1>5, <1>6, <1>7, <1>8 DEF IsRetitled
  <1> QED BY <1>9 DEF g

\* Moving a child to another list keeps the lists of children.
LEMMA RetitledLinked ==
    ASSUME NEW b, Linked(b), \A k \in DOMAIN b : b[k] \in NodeRecords,
           NEW cur \in DOMAIN b, NEW x \in DOMAIN b, current \in DOMAIN b,
           cur \in Nat,
           cur # x, cur # current, x # current,
           b[cur].parent = current,
           NEW kept \in Seq(Nat),
           \A i \in 1 .. Len(kept) :
               kept[i] \in DOMAIN b /\ b[kept[i]].parent = current /\ kept[i] # cur,
           \A i, j \in 1 .. Len(kept) : kept[i] = kept[j] => i = j,
           NEW g, IsRetitled(g, b, cur, kept, x)
    PROVE  Linked(g)
  <1> SUFFICES ASSUME NEW p \in DOMAIN g, NEW i \in 1 .. Len(g[p].children)
               PROVE  /\ g[p].children[i] \in DOMAIN g
                      /\ g[g[p].children[i]].parent = p
                      /\ \A j \in 1 .. Len(g[p].children) :
                             g[p].children[j] = g[p].children[i] => j = i
    BY DEF Linked
  <1>1. CASE p = current
    BY <1>1, SMTT(30) DEF IsRetitled
  <1>2. CASE p = x
    <2> DEFINE s == b[x].children
    <2>1. s \in Seq(Nat)
      BY DEF NodeRecords
    <2>2. /\ Len(Append(s, cur)) = Len(s) + 1 /\ Len(s) \in Nat
          /\ \A j \in 1 .. Len(s) : Append(s, cur)[j] = s[j]
          /\ Append(s, cur)[Len(s) + 1] = cur
      BY <2>1
    <2>3. \A j \in 1 .. Len(s) :
              /\ s[j] \in DOMAIN b /\ b[s[j]].parent = x /\ s[j] # cur
              /\ \A k \in 1 .. Len(s) : s[k] = s[j] => k = j
      BY DEF Linked
    <2>4. /\ g[p].children = Append(s, cur) /\ g[cur].parent = x
          /\ DOMAIN g = DOMAIN b
          /\ \A k \in DOMAIN b \ {cur} : g[k].parent = b[k].parent
      BY <1>2 DEF IsRetitled
    <2> HIDE DEF s
    <2>5. CASE i = Len(s) + 1
      BY <1>2, <2>2, <2>3, <2>4, <2>5
    <2>6. CASE i \in 1 .. Len(s)
      <3>1. s[i] \in DOMAIN b /\ s[i] # cur /\ g[p].children[i] = s[i]
        BY <2>2, <2>3, <2>4, <2>6
      <3>2. g[s[i]].parent = p
        BY <1>2, <2>3, <2>4, <2>6, <3>1
      <3>3. ASSUME NEW j \in 1 .. Len(s) + 1, Append(s, cur)[j] = s[i]
            PROVE  j = i
        <4>1. CASE j = Len(s) + 1
          BY <2>2, <3>1, <3>3, <4>1
        <4>2. CASE j \in 1 .. Len(s)
          BY <2>2, <2>3, <2>6, <3>3, <4>2
        <4> QED BY <2>2, <4>1, <4>2
      <3> QED BY <2>2, <2>4, <3>1, <3>2, <3>3
    <2> QED BY <2>2, <2>4, <2>5, <2>6
  <1>3. CASE p \in DOMAIN b \ {x, current}
    <2>1. g[p].children = b[p].children
      BY <1>3 DEF IsRetitled
    <2>2. /\ b[p].children[i] \in DOMAIN b
          /\ b[b[p].children[i]].parent = p
          /\ \A j \in 1 .. Len(b[p].children) :
                 b[p].children[j] = b[p].children[i] => j = i
      BY <1>3, <2>1 DEF Linked
    <2>3. b[p].children[i] # cur
      BY <1>3, <2>2
    <2> QED BY <2>1, <2>2, <2>3 DEF IsRetitled
  <1> QED BY <1>1, <1>2, <1>3 DEF IsRetitled

\* What parse_definition leaves behind when it enters its loop: the tree
\* made from b by moving the title, with the list x open.
IsDefinitionOpen(b, cur, kept, x) ==
    /\ IsRetitled(tree', b, cur, kept, x)
    /\ Linked(tree')
    /\ DOMAIN tree \subseteq DOMAIN b
    /\ \A k \in DOMAIN tree : b[k].parent = tree[k].parent /\ b[k].type = tree[k].type
    /\ \A k \in DOMAIN tree \ {current} : b[k].children = tree[k].children
    /\ x \in DOMAIN b /\ b[x].parent = current
    /\ cur \in DOMAIN tree /\ tree[cur].parent = current /\ cur # x /\ cur # current
    /\ \A i \in 1 .. Len(stack) : stack[i].node # x /\ stack[i].node # cur

LEMMA DefinitionOpened ==
    ASSUME IInv, stack # <<>>,
           NEW b, NEW cur, NEW kept, NEW x \in Nat, NEW flag \in BOOLEAN,
           IsDefinitionOpen(b, cur, kept, x),
           stack' = Append(stack, Frame(x, <<"datum", "data">>, flag)),
           current' = x, depth' = depth + 1, text' = text,
           nodes' \in Nat, DOMAIN tree' \subseteq 0 .. nodes' - 1,
           maxdepth # 0 => depth <= maxdepth,
           UNCHANGED docVars
    PROVE  IInv'
  <1> DEFINE n == Len(stack)
  <1> DEFINE e == Frame(x, <<"datum", "data">>, flag)
  <1>1. /\ status = "parsing" /\ n \in Nat \ {0} /\ depth = n
        /\ Top \in Frames /\ Top = stack[n] /\ current = Top.node
        /\ current \in DOMAIN tree
        /\ \A i \in 1 .. n : stack[i] \in Frames /\ stack[i].node \in DOMAIN tree
    BY OpenNodes
  <1>2. TypeOK /\ OpenPath /\ StackDistinct /\ ChildParents /\ DefinitionsShallow
    BY DEF IInv
  <1>3. stack \in Seq(Frames)
    BY <1>2 DEF TypeOK
  <1>4. e \in Frames /\ e.node = x /\ ~Blocky(e)
    <2>1. <<"datum", "data">> \in Seq(Calls)
      BY DEF Calls
    <2>2. e \in Frames /\ e.node = x /\ e.todo = <<"datum", "data">>
      BY <2>1, NewFrame
    <2> HIDE DEF e
    <2> QED BY <2>2 DEF Blocky
  <1>5. /\ stack' \in Seq(Frames) /\ Len(stack') = n + 1
        /\ stack'[n + 1] = e
        /\ \A i \in 1 .. n : stack'[i] = stack[i]
    <2>1. stack' = Append(stack, e)
      OBVIOUS
    <2> HIDE DEF e
    <2> QED BY <2>1, <1>3, <1>4, FrameAppended
  <1> HIDE DEF n, e
  <1>6. /\ DOMAIN tree \subseteq DOMAIN tree' /\ x \in DOMAIN tree'
        /\ \A k \in DOMAIN tree' : tree'[k] \in NodeRecords
        /\ \A k \in DOMAIN tree \ {cur} :
               tree'[k].parent = tree[k].parent /\ tree'[k].type = tree[k].type
        /\ tree'[cur].type = "DEFINITION_TITLE"
        /\ tree'[x].parent = current
    BY DEF IsDefinitionOpen, IsRetitled
  <1>7. /\ Linked(tree')
        /\ \A i \in 1 .. n : stack[i].node # x /\ stack[i].node # cur
        /\ \A k \in DOMAIN tree \ {x, current} : tree'[k].children = tree[k].children
    <2>1. \A k \in DOMAIN b \ {x, current} : tree'[k].children = b[k].children
      BY DEF IsDefinitionOpen, IsRetitled
    <2>2. /\ DOMAIN tree \subseteq DOMAIN b
          /\ \A k \in DOMAIN tree \ {current} : b[k].children = tree[k].children
      BY DEF IsDefinitionOpen
    <2> QED BY <2>1, <2>2 DEF IsDefinitionOpen, n
  <1>8. Top' = e /\ stack' # <<>>
    BY <1>1, <1>5 DEF Top
  <1>9. TypeOK'
    BY <1>1, <1>2, <1>5, <1>6 DEF TypeOK, docVars
  <1>10. OpenPath'
    <2>1. ASSUME NEW i \in 1 .. n
          PROVE  /\ stack'[i].node \in DOMAIN tree'
                 /\ tree'[stack'[i].node].parent = IF i = 1 THEN NULL ELSE stack'[i - 1].node
      <3>1. tree[stack[i].node].parent = IF i = 1 THEN NULL ELSE stack[i - 1].node
        BY <1>1, <1>2 DEF OpenPath, n
      <3>2. tree'[stack[i].node].parent = tree[stack[i].node].parent
        BY <1>1, <1>6, <1>7
      <3>3. stack'[i] = stack[i] /\ (i # 1 => stack'[i - 1] = stack[i - 1])
        BY <1>1, <1>5
      <3> QED BY <1>1, <1>6, <3>1, <3>2, <3>3
    <2>2. /\ stack'[n + 1].node \in DOMAIN tree'
          /\ tree'[stack'[n + 1].node].parent = stack'[n].node
      BY <1>1, <1>4, <1>5, <1>6
    <2>3. \A i \in 1 .. n + 1 :
              /\ stack'[i].node \in DOMAIN tree'
              /\ tree'[stack'[i].node].parent = IF i = 1 THEN NULL ELSE stack'[i - 1].node
      <3> TAKE i \in 1 .. n + 1
      <3>1. CASE i \in 1 .. n
        BY <2>1, <3>1
      <3>2. CASE i = n + 1
        <4>1. i # 1 /\ i - 1 = n
          BY <1>1, <3>2
        <4>2. stack'[i] = stack'[n + 1] /\ stack'[i - 1] = stack'[n]
          BY <3>2, <4>1
        <4>3. stack'[i].node \in DOMAIN tree'
          BY <2>2, <4>2
        <4>4. tree'[stack'[i].node].parent = stack'[i - 1].node
          BY <2>2, <4>2
        <4>5. tree'[stack'[i].node].parent = IF i = 1 THEN NULL ELSE stack'[i - 1].node
          BY <4>1, <4>4
        <4> QED BY <4>3, <4>5
      <3>3. i \in 1 .. n \/ i = n + 1
        BY <1>1
      <3> QED BY <3>1, <3>2, <3>3, Zenon
    <2>4. stack'[1].node = 0
      BY <1>1, <1>2, <1>5 DEF OpenPath
    <2> QED BY <1>1, <1>4, <1>5, <1>8, <2>3, <2>4 DEF OpenPath, docVars
  <1>11. StackDistinct'
    <2>1. \A i, j \in 1 .. n : stack[i].node = stack[j].node => i = j
      BY <1>2 DEF StackDistinct, n
    <2> QED BY <1>1, <1>4, <1>5, <1>7, <2>1 DEF StackDistinct
  <1>12. ChildParents'
    BY <1>7 DEF ChildParents
  <1>13. DefinitionsShallow'
    <2> SUFFICES ASSUME maxdepth # 0, NEW i \in 1 .. n + 1, Blocky(stack'[i]),
                        NEW c \in 1 .. Len(tree'[stack'[i].node].children),
                        tree'[tree'[stack'[i].node].children[c]].type = "DEFINITION"
                 PROVE  i <= maxdepth
      BY <1>5 DEF DefinitionsShallow, Child, NumChildren
    <2>1. i \in 1 .. n
      BY <1>1, <1>4, <1>5
    <2>2. CASE i = n
      BY <2>2, <1>1
    <2>3. CASE i \in 1 .. n - 1
      <3>1. /\ stack'[i] = stack[i] /\ stack[i].node \in DOMAIN tree
            /\ stack[i].node # current
        BY <1>1, <1>2, <1>5, <2>1, <2>3 DEF StackDistinct, n
      <3>2. tree'[stack[i].node].children = tree[stack[i].node].children
        <4>1. stack[i].node \in DOMAIN tree \ {x, current}
          BY <1>7, <2>1, <3>1
        <4> QED BY <1>7, <4>1
      <3> DEFINE p == stack[i].node
      <3>3. tree[p].children[c] \in DOMAIN tree
        <4>1. p \in DOMAIN tree /\ c \in 1 .. Len(tree[p].children)
          BY <3>1, <3>2
        <4> HIDE DEF p
        <4> QED BY <1>2, <4>1 DEF ChildParents, Linked
      <3>4. tree[tree[stack[i].node].children[c]].type = "DEFINITION"
        BY <1>6, <3>1, <3>2, <3>3, ZenonT(40)
      <3> QED BY <1>2, <2>1, <3>1, <3>2, <3>4 DEF DefinitionsShallow, Child, NumChildren, n
    <2> QED BY <1>1, <2>1, <2>2, <2>3
  <1>14. DepthLimited'
    BY <1>1, MaxdepthAssumption DEF DepthLimited
  <1> QED BY <1>9, <1>10, <1>11, <1>12, <1>13, <1>14 DEF IInv

\* A child of doc->current is not open.
LEMMA ChildNotOpen ==
    ASSUME IInv, stack # <<>>,
           NEW c \in DOMAIN tree, tree[c].parent = current
    PROVE  \A i \in 1 .. Len(stack) : stack[i].node # c
  <1> DEFINE n == Len(stack)
  <1>1. /\ status = "parsing" /\ n \in Nat \ {0} /\ current = stack[n].node
        /\ current \in Nat
    BY OpenNodes
  <1>2. \A i \in 1 .. n : tree[stack[i].node].parent = IF i = 1 THEN NULL ELSE stack[i - 1].node
    BY <1>1 DEF IInv, OpenPath
  <1>3. \A i, j \in 1 .. n : stack[i].node = stack[j].node => i = j
    BY DEF IInv, StackDistinct
  <1> HIDE DEF n
  <1>4. ASSUME NEW i \in 1 .. n, stack[i].node = c
        PROVE  FALSE
    <2>1. CASE i = 1
      BY <1>1, <1>2, <1>4, <2>1 DEF NULL
    <2>2. CASE i # 1
      <3>1. i - 1 \in 1 .. n /\ n \in 1 .. n
        BY <1>1, <2>2
      <3>2. stack[i - 1].node = stack[n].node
        BY <1>1, <1>2, <1>4, <2>2
      <3>3. i - 1 = n
        BY <1>3, <3>1, <3>2
      <3> QED BY <1>1, <3>3
    <2> QED BY <2>1, <2>2
  <1> QED BY <1>4 DEF n

\* The last child of doc->current and the one before it.
LEMMA LastSiblings ==
    ASSUME IInv, stack # <<>>, Siblings # <<>>
    PROVE  /\ Siblings \in Seq(Nat) /\ Len(Siblings) \in Nat \ {0}
           /\ \A i \in 1 .. Len(Siblings) :
                  /\ Siblings[i] \in DOMAIN tree /\ Siblings[i] \in Nat
                  /\ tree[Siblings[i]].parent = current
                  /\ Siblings[i] # current
                  /\ \A k \in 1 .. Len(stack) : stack[k].node # Siblings[i]
                  /\ tree[Siblings[i]].flag \in BOOLEAN
           /\ \A i, j \in 1 .. Len(Siblings) : Siblings[i] = Siblings[j] => i = j
  <1>1. /\ current \in DOMAIN tree /\ Len(stack) \in Nat \ {0}
        /\ current = stack[Len(stack)].node
    BY OpenNodes
  <1>2. /\ \A k \in DOMAIN tree : tree[k] \in NodeRecords
        /\ Linked(tree)
        /\ DOMAIN tree \subseteq Nat
    BY DEF IInv, TypeOK, ChildParents
  <1>3. Siblings \in Seq(Nat) /\ Len(Siblings) \in Nat \ {0}
    <2>1. Siblings \in Seq(Nat)
      BY <1>1, <1>2 DEF Siblings, NodeRecords
    <2> QED BY <2>1
  <1>4. \A i \in 1 .. Len(Siblings) :
            /\ Siblings[i] \in DOMAIN tree
            /\ tree[Siblings[i]].parent = current
            /\ \A j \in 1 .. Len(Siblings) : Siblings[j] = Siblings[i] => j = i
    BY <1>1, <1>2 DEF Linked, Siblings
  <1>5. \A i \in 1 .. Len(Siblings) : \A k \in 1 .. Len(stack) : stack[k].node # Siblings[i]
    BY <1>4, ChildNotOpen
  <1>6. \A i \in 1 .. Len(Siblings) : Siblings[i] # current
    BY <1>1, <1>5
  <1>7. \A i \in 1 .. Len(Siblings) : tree[Siblings[i]].flag \in BOOLEAN
    BY <1>2, <1>4 DEF NodeRecords
  <1>8. \A i \in 1 .. Len(Siblings) : Siblings[i] \in Nat
    BY <1>2, <1>4
  <1> QED BY <1>3, <1>4, <1>5, <1>6, <1>7, <1>8

\* A title opens a list of its own: b is the tree with the new list, which
\* takes the place of the title among the siblings.
LEMMA NewDefinitionOpens ==
    ASSUME IInv, NewDefinition
    PROVE  \E cur, kept, b :
               /\ cur = Siblings[Len(Siblings)]
               /\ b = Grown("DEFINITION", 0, tree[cur].flag)
               /\ kept \in Seq(Nat) /\ Len(kept) = Len(Siblings)
               /\ kept[Len(Siblings)] = nodes
               /\ \A i \in 1 .. Len(Siblings) - 1 : kept[i] = Siblings[i]
               /\ tree' = Retitled(b, cur, kept, nodes)
               /\ stack' = Append(stack, Frame(nodes, <<"datum", "data">>, tree[cur].flag))
               /\ tree[cur].flag \in BOOLEAN
               /\ IsGrown(b, "DEFINITION")
               /\ IsDefinitionOpen(b, cur, kept, nodes)
  <1> DEFINE m == Len(Siblings)
             cur == Siblings[m]
             front == SubSeq(Siblings, 1, m - 1)
             kept == Append(front, nodes)
             b == Grown("DEFINITION", 0, tree[cur].flag)
  <1>1. stack # <<>> /\ Siblings # <<>> /\ CanPush
    BY DEF NewDefinition, Doing, IsTitled
  <1>2. /\ Siblings \in Seq(Nat) /\ m \in Nat \ {0}
        /\ \A i \in 1 .. m :
               /\ Siblings[i] \in DOMAIN tree /\ Siblings[i] \in Nat
               /\ tree[Siblings[i]].parent = current
               /\ Siblings[i] # current
               /\ \A k \in 1 .. Len(stack) : stack[k].node # Siblings[i]
               /\ tree[Siblings[i]].flag \in BOOLEAN
        /\ \A i, j \in 1 .. m : Siblings[i] = Siblings[j] => i = j
    BY <1>1, LastSiblings
  <1>3. /\ current \in DOMAIN tree /\ depth = Len(stack)
        /\ \A i \in 1 .. Len(stack) : stack[i].node \in DOMAIN tree
    BY <1>1, OpenNodes
  <1>4. TypeOK /\ ChildParents /\ nodes \in Nat /\ depth \in Nat
    BY DEF IInv, TypeOK
  <1>5. IsGrown(b, "DEFINITION")
    <2>1. tree[cur].flag \in BOOLEAN
      BY <1>2
    <2>2. "DEFINITION" \in Types /\ 0 \in Nat
      BY DEF Types, BlockTypes
    <2> QED BY <1>3, <1>4, <2>1, <2>2, GrownNodes
  <1>6. /\ front \in Seq(Nat) /\ Len(front) = m - 1
        /\ \A i \in 1 .. m - 1 : front[i] = Siblings[i]
    BY <1>1, <1>2, WithoutLast
  <1>7. /\ tree' = Retitled(b, cur, kept, nodes)
        /\ stack' = Append(stack, Frame(nodes, <<"datum", "data">>, tree[cur].flag))
        /\ nodes' = nodes + 1 /\ current' = nodes /\ depth' = depth + 1 /\ text' = text
        /\ UNCHANGED docVars
    BY DEF NewDefinition
  <1>8. cur = Siblings[m] /\ b = Grown("DEFINITION", 0, tree[cur].flag) /\ m = Len(Siblings)
    OBVIOUS
  <1> HIDE DEF m, front, b
  <1>9. /\ kept \in Seq(Nat) /\ Len(kept) = m
        /\ kept[m] = nodes
        /\ \A i \in 1 .. m - 1 : kept[i] = Siblings[i]
    <2>1. /\ kept \in Seq(Nat) /\ Len(kept) = Len(front) + 1
          /\ kept[Len(front) + 1] = nodes
          /\ \A i \in 1 .. Len(front) : kept[i] = front[i]
      BY <1>4, <1>6
    <2>2. Len(front) + 1 = m
      BY <1>2, <1>6
    <2> HIDE DEF kept
    <2> QED BY <1>2, <1>6, <2>1, <2>2
  <1>10. /\ cur \in DOMAIN tree /\ cur \in Nat /\ cur # current /\ tree[cur].parent = current
        /\ tree[cur].flag \in BOOLEAN
        /\ \A k \in 1 .. Len(stack) : stack[k].node # cur
    BY <1>2
  <1>11. \A i \in 1 .. m - 1 : Siblings[i] # cur /\ Siblings[i] \in DOMAIN tree
                               /\ tree[Siblings[i]].parent = current
    BY <1>2
  <1> HIDE DEF kept, cur
  <1>12. /\ DOMAIN b = DOMAIN tree \cup {nodes}
         /\ nodes \notin DOMAIN tree
         /\ \A k \in DOMAIN b : b[k] \in NodeRecords
         /\ b[nodes].parent = current
         /\ \A k \in DOMAIN tree : b[k].parent = tree[k].parent /\ b[k].type = tree[k].type
         /\ \A k \in DOMAIN tree \ {current} : b[k].children = tree[k].children
    BY <1>5 DEF IsGrown
  <1>13. /\ nodes \in DOMAIN b /\ cur \in DOMAIN b /\ current \in DOMAIN b
         /\ cur # nodes /\ current # nodes
         /\ b[cur].parent = current
    BY <1>3, <1>10, <1>12
  <1>14. IsRetitled(tree', b, cur, kept, nodes)
    BY <1>4, <1>7, <1>9, <1>10, <1>12, <1>13, RetitledNodes
  <1>15. Linked(tree')
    <2>1. Linked(b)
      BY <1>3, <1>4, <1>5, GrownChildren
    <2>2. ASSUME NEW i \in 1 .. Len(kept)
          PROVE  kept[i] \in DOMAIN b /\ b[kept[i]].parent = current /\ kept[i] # cur
      <3>1. CASE i = m
        BY <1>9, <1>12, <1>13, <3>1
      <3>2. CASE i \in 1 .. m - 1
        <4>1. kept[i] = Siblings[i]
          BY <1>9, <3>2
        <4>2. Siblings[i] # cur /\ Siblings[i] \in DOMAIN tree /\ tree[Siblings[i]].parent = current
          BY <1>11, <3>2
        <4> QED BY <1>12, <4>1, <4>2
      <3> QED BY <1>2, <1>9, <3>1, <3>2
    <2>3. ASSUME NEW i \in 1 .. Len(kept), NEW j \in 1 .. Len(kept), kept[i] = kept[j]
          PROVE  i = j
      <3>1. \A k \in 1 .. m - 1 : kept[k] \in DOMAIN tree
        BY <1>9, <1>11
      <3>2. CASE i = m
        BY <1>2, <1>9, <1>12, <2>3, <3>1, <3>2
      <3>3. CASE j = m
        BY <1>2, <1>9, <1>12, <2>3, <3>1, <3>3
      <3>4. CASE i \in 1 .. m - 1 /\ j \in 1 .. m - 1
        BY <1>2, <1>9, <2>3, <3>4
      <3> QED BY <1>2, <1>9, <3>2, <3>3, <3>4
    <2> QED BY <1>9, <1>10, <1>12, <1>13, <1>14, <2>1, <2>2, <2>3, RetitledLinked
  <1>16. IsDefinitionOpen(b, cur, kept, nodes)
    <2>1. \A i \in 1 .. Len(stack) : stack[i].node # nodes
      BY <1>3, <1>12
    <2> QED BY <1>10, <1>12, <1>13, <1>14, <1>15, <2>1 DEF IsDefinitionOpen
  <1> QED BY <1>5, <1>7, <1>9, <1>10, <1>16, <1>8

LEMMA NewDefinitionKeeps ==
    ASSUME IInv, NewDefinition
    PROVE  IInv'
  <1>1. /\ stack # <<>> /\ CanPush /\ nodes \in Nat
        /\ nodes' = nodes + 1 /\ current' = nodes /\ depth' = depth + 1 /\ text' = text
        /\ UNCHANGED docVars
    BY DEF NewDefinition, Doing, IInv, TypeOK
  <1>2. PICK cur, kept, b :
            /\ stack' = Append(stack, Frame(nodes, <<"datum", "data">>, tree[cur].flag))
            /\ tree[cur].flag \in BOOLEAN
            /\ IsGrown(b, "DEFINITION")
            /\ IsDefinitionOpen(b, cur, kept, nodes)
    BY NewDefinitionOpens
  <1>3. nodes' \in Nat /\ DOMAIN tree' \subseteq 0 .. nodes' - 1
    BY <1>1, <1>2 DEF IsGrown, IsDefinitionOpen, IsRetitled, IInv, TypeOK
  <1>4. maxdepth # 0 => depth <= maxdepth
    BY <1>1 DEF CanPush
  <1> QED BY <1>1, <1>2, <1>3, <1>4, DefinitionOpened

\* The list before is opened again: nothing takes the place of the title.
LEMMA MergeDefinitionOpens ==
    ASSUME IInv, MergeDefinition
    PROVE  \E cur, prev, kept, flag :
               /\ cur = Siblings[Len(Siblings)]
               /\ prev = Siblings[Len(Siblings) - 1]
               /\ flag = (tree[cur].flag \/ tree[prev].flag)
               /\ kept \in Seq(Nat) /\ Len(kept) = Len(Siblings) - 1
               /\ \A i \in 1 .. Len(Siblings) - 1 : kept[i] = Siblings[i]
               /\ tree' = Retitled(tree, cur, kept, prev)
               /\ stack' = Append(stack, Frame(prev, <<"datum", "data">>, flag))
               /\ current' = prev /\ prev \in Nat
               /\ flag \in BOOLEAN
               /\ IsDefinitionOpen(tree, cur, kept, prev)
  <1> DEFINE m == Len(Siblings)
             cur == Siblings[m]
             prev == Siblings[m - 1]
             kept == SubSeq(Siblings, 1, m - 1)
             flag == tree[cur].flag \/ tree[prev].flag
  <1>1. /\ stack # <<>> /\ Siblings # <<>> /\ m > 1
        /\ tree[prev].type = "DEFINITION"
        /\ Top.todo # <<>> /\ Head(Top.todo) = "block"
    BY DEF MergeDefinition, Doing, IsTitled, IsContinued
  <1>2. /\ Siblings \in Seq(Nat) /\ m \in Nat \ {0}
        /\ \A i \in 1 .. m :
               /\ Siblings[i] \in DOMAIN tree /\ Siblings[i] \in Nat
               /\ tree[Siblings[i]].parent = current
               /\ Siblings[i] # current
               /\ \A k \in 1 .. Len(stack) : stack[k].node # Siblings[i]
               /\ tree[Siblings[i]].flag \in BOOLEAN
        /\ \A i, j \in 1 .. m : Siblings[i] = Siblings[j] => i = j
    BY <1>1, LastSiblings
  <1>3. /\ current \in DOMAIN tree /\ depth = Len(stack) /\ Len(stack) \in Nat \ {0}
        /\ Top \in Frames /\ Top = stack[Len(stack)] /\ current = Top.node
    BY <1>1, OpenNodes
  <1>4. /\ \A k \in DOMAIN tree : tree[k] \in NodeRecords
        /\ Linked(tree) /\ nodes \in Nat /\ DOMAIN tree \subseteq 0 .. nodes - 1
    BY DEF IInv, TypeOK, ChildParents
  <1>5. /\ kept \in Seq(Nat) /\ Len(kept) = m - 1
        /\ \A i \in 1 .. m - 1 : kept[i] = Siblings[i]
    BY <1>1, <1>2, WithoutLast
  <1>6. /\ tree' = Retitled(tree, cur, kept, prev)
        /\ stack' = Append(stack, Frame(prev, <<"datum", "data">>, flag))
        /\ nodes' = nodes /\ current' = prev /\ depth' = depth + 1 /\ text' = text
        /\ UNCHANGED docVars
    BY DEF MergeDefinition
  <1>7. m \in 1 .. m /\ m - 1 \in 1 .. m /\ m - 1 # m
    BY <1>1, <1>2
  <1>8. /\ cur \in DOMAIN tree /\ cur \in Nat /\ cur # current /\ tree[cur].parent = current
        /\ prev \in DOMAIN tree /\ prev \in Nat /\ prev # current /\ tree[prev].parent = current
        /\ cur # prev
        /\ \A k \in 1 .. Len(stack) : stack[k].node # cur /\ stack[k].node # prev
    BY <1>2, <1>7
  <1>9. flag \in BOOLEAN
    <2>1. tree[cur].flag \in BOOLEAN /\ tree[prev].flag \in BOOLEAN
      BY <1>2, <1>7
    <2> QED BY <2>1, BothFlags
  <1>10. \A i \in 1 .. m - 1 : Siblings[i] # cur /\ Siblings[i] \in DOMAIN tree
                               /\ tree[Siblings[i]].parent = current
    BY <1>2
  <1>11. \A i, j \in 1 .. m - 1 : Siblings[i] = Siblings[j] => i = j
    BY <1>2
  <1>12. /\ m = Len(Siblings) /\ cur = Siblings[m] /\ prev = Siblings[m - 1]
         /\ flag = (tree[cur].flag \/ tree[prev].flag)
    OBVIOUS
  <1> HIDE DEF m, cur, prev, kept, flag
  <1>13. IsRetitled(tree', tree, cur, kept, prev)
    BY <1>3, <1>4, <1>5, <1>6, <1>8, RetitledNodes
  <1>14. Linked(tree')
    <2>1. \A i \in 1 .. Len(kept) :
              kept[i] \in DOMAIN tree /\ tree[kept[i]].parent = current /\ kept[i] # cur
      BY <1>5, <1>10
    <2>2. \A i, j \in 1 .. Len(kept) : kept[i] = kept[j] => i = j
      BY <1>5, <1>11
    <2> QED BY <1>3, <1>4, <1>5, <1>8, <1>13, <2>1, <2>2, RetitledLinked
  <1>15. IsDefinitionOpen(tree, cur, kept, prev)
    BY <1>8, <1>13, <1>14 DEF IsDefinitionOpen
  <1> QED BY <1>5, <1>6, <1>8, <1>9, <1>12, <1>15

LEMMA MergeDefinitionKeeps ==
    ASSUME IInv, MergeDefinition
    PROVE  IInv'
  <1>1. /\ stack # <<>> /\ Siblings # <<>> /\ Len(Siblings) > 1
        /\ tree[Siblings[Len(Siblings) - 1]].type = "DEFINITION"
        /\ Top.todo # <<>> /\ Head(Top.todo) = "block"
        /\ nodes' = nodes /\ depth' = depth + 1 /\ text' = text
        /\ UNCHANGED docVars
        /\ nodes \in Nat /\ DOMAIN tree \subseteq 0 .. nodes - 1
    BY DEF MergeDefinition, Doing, IsTitled, IsContinued, IInv, TypeOK
  <1>2. PICK cur, prev, kept, flag :
            /\ stack' = Append(stack, Frame(prev, <<"datum", "data">>, flag))
            /\ current' = prev /\ prev \in Nat
            /\ flag \in BOOLEAN
            /\ IsDefinitionOpen(tree, cur, kept, prev)
    BY MergeDefinitionOpens
  <1>3. nodes' \in Nat /\ DOMAIN tree' \subseteq 0 .. nodes' - 1
    BY <1>1, <1>2 DEF IsDefinitionOpen, IsRetitled
  <1>4. /\ depth = Len(stack) /\ Len(stack) \in Nat \ {0}
        /\ Top \in Frames /\ Top = stack[Len(stack)] /\ current = Top.node
        /\ Len(Siblings) \in Nat
    BY <1>1, OpenNodes, LastSiblings
  <1>5. maxdepth # 0 => depth <= maxdepth
    <2>1. Blocky(Top)
      <3>1. Top.todo \in Seq(Calls)
        BY <1>4 DEF Frames
      <3>2. 1 \in 1 .. Len(Top.todo) /\ Top.todo[1] = "block"
        BY <1>1, <3>1
      <3> QED BY <3>2 DEF Blocky
    <2>2. /\ Len(Siblings) - 1 \in 1 .. Len(tree[current].children)
          /\ tree[tree[current].children[Len(Siblings) - 1]].type = "DEFINITION"
      <3>1. Len(Siblings) - 1 \in 1 .. Len(Siblings)
        BY <1>1, <1>4
      <3>2. Siblings = tree[current].children
        BY DEF Siblings
      <3> QED BY <1>1, <3>1, <3>2
    <2> QED BY <1>4, <2>1, <2>2, SMTT(30) DEF IInv, DefinitionsShallow, Child, NumChildren
  <1> QED BY <1>1, <1>2, <1>3, <1>5, DefinitionOpened

-----------------------------------------------------------------------------
(* The actions *)

\* The frames the actions pass on as their caller.
LEMMA Callers ==
    ASSUME NEW f \in Frames
    PROVE  /\ f.todo \in Seq(Calls) /\ f.i \in Nat /\ f.flag \in BOOLEAN
           /\ \A k \in Nat : /\ [f EXCEPT !.i = k] \in Frames
                             /\ [f EXCEPT !.i = k].node = f.node
                             /\ [f EXCEPT !.i = k].todo = f.todo
           /\ \A q \in Seq(Calls) : /\ [f EXCEPT !.todo = q] \in Frames
                                    /\ [f EXCEPT !.todo = q].node = f.node
                                    /\ [f EXCEPT !.todo = q].todo = q
           /\ \A v \in BOOLEAN : /\ [f EXCEPT !.flag = v] \in Frames
                                 /\ [f EXCEPT !.flag = v].node = f.node
                                 /\ [f EXCEPT !.flag = v].todo = f.todo
  BY DEF Frames

LEMMA TopGoesOn ==
    ASSUME IInv, stack # <<>>
    PROVE  /\ Continues(Top)
           /\ \A k \in Nat : Continues([Top EXCEPT !.i = k])
           /\ Continues([Top EXCEPT !.todo = <<>>])
           /\ Top.i \in Nat /\ Top.flag \in BOOLEAN
  <1>1. Top \in Frames
    BY OpenNodes
  <1>2. <<>> \in Seq(Calls)
    OBVIOUS
  <1>3. ~Blocky([Top EXCEPT !.todo = <<>>])
    BY <1>1, <1>2, Callers DEF Blocky
  <1>4. \A k \in Nat : Blocky([Top EXCEPT !.i = k]) => Blocky(Top)
    BY <1>1, Callers DEF Blocky
  <1> QED BY <1>1, <1>2, <1>3, <1>4, Callers DEF Continues

LEMMA RestGoesOn ==
    ASSUME IInv, stack # <<>>, Top.todo # <<>>
    PROVE  Continues(Rest)
  <1>1. Top \in Frames /\ Top.todo \in Seq(Calls)
    BY OpenNodes, Callers
  <1>2. /\ Tail(Top.todo) \in Seq(Calls) /\ Len(Top.todo) \in Nat \ {0}
        /\ Len(Tail(Top.todo)) = Len(Top.todo) - 1
        /\ \A i \in 1 .. Len(Top.todo) - 1 : Tail(Top.todo)[i] = Top.todo[i + 1]
    BY <1>1, HeadTailProperties
  <1>3. Rest \in Frames /\ Rest.node = Top.node /\ Rest.todo = Tail(Top.todo)
    BY <1>1, <1>2, Callers DEF Rest
  <1>4. ASSUME NEW j \in 1 .. Len(Rest.todo), Rest.todo[j] = "block"
        PROVE  Blocky(Top)
    <2>1. j + 1 \in 1 .. Len(Top.todo) /\ Top.todo[j + 1] = "block"
      BY <1>2, <1>3, <1>4
    <2> QED BY <2>1 DEF Blocky
  <1> QED BY <1>3, <1>4 DEF Continues, Blocky

LEMMA ItemGoesOn ==
    ASSUME IInv, stack # <<>>, NEW block \in BOOLEAN, NEW end \in BOOLEAN,
           NEW loop \in {"items", "data"}
    PROVE  Continues(AfterItem(block, end, loop))
  <1>1. Top \in Frames
    BY OpenNodes
  <1> DEFINE q == IF end THEN <<>> ELSE <<loop>>
             f == [Top EXCEPT !.flag = block]
             a == AfterItem(block, end, loop)
  <1>2. q \in Seq(Calls) /\ \A j \in 1 .. Len(q) : q[j] # "block"
    <2>1. loop \in Calls /\ loop # "block"
      BY DEF Calls
    <2>2. CASE end
      BY <2>2
    <2>3. CASE ~end
      BY <2>1, <2>3
    <2> QED BY <2>2, <2>3
  <1>3. f \in Frames /\ f.node = Top.node
    BY <1>1, Callers
  <1>4. a = [f EXCEPT !.todo = q]
    BY DEF AfterItem
  <1> HIDE DEF f, q, a
  <1>5. a \in Frames /\ a.node = Top.node /\ a.todo = q
    BY <1>2, <1>3, <1>4, Callers
  <1>6. ~Blocky(a)
    BY <1>2, <1>5 DEF Blocky
  <1>7. Continues(a)
    BY <1>5, <1>6 DEF Continues
  <1> QED BY <1>7 DEF a

\* The constructs a text may spell are types of nodes.
LEMMA Spelled ==
    ASSUME IInv
    PROVE  text.blocks \subseteq Types /\ text.inlines \subseteq Types
  BY TextsAssumption DEF IInv, TypeOK, TextKinds, Types

LEMMA Lists ==
    /\ <<"block">> \in Seq(Calls) /\ <<"inline">> \in Seq(Calls)
    /\ <<"inline", "block">> \in Seq(Calls) /\ <<"item", "items">> \in Seq(Calls)
    /\ <<"listitem">> \in Seq(Calls) /\ <<"thead", "tbody">> \in Seq(Calls)
    /\ <<"headrow">> \in Seq(Calls) /\ <<"rows">> \in Seq(Calls)
    /\ <<"cells", "fill">> \in Seq(Calls) /\ <<"defs">> \in Seq(Calls)
  BY DEF Calls

LEMMA DocKept ==
    ASSUME IInv, UNCHANGED docVars
    PROVE  DocTypeOK' /\ status' = status
  BY DEF IInv, TypeOK, DocTypeOK, docVars

LEMMA Doings ==
    ASSUME IInv, NEW c, Doing(c)
    PROVE  /\ stack # <<>> /\ Top.todo # <<>>
           /\ tree[current].num \in Nat
           /\ Top.i \in Nat /\ Top.flag \in BOOLEAN
           /\ Continues(Top) /\ Continues(Rest)
  <1>1. stack # <<>> /\ Top.todo # <<>>
    BY DEF Doing
  <1>2. current \in DOMAIN tree /\ \A k \in DOMAIN tree : tree[k] \in NodeRecords
    BY <1>1, OpenNodes DEF IInv, TypeOK
  <1>3. tree[current].num \in Nat
    BY <1>2 DEF NodeRecords
  <1> QED BY <1>1, <1>3, TopGoesOn, RestGoesOn

LEMMA BlockStepKeeps ==
    ASSUME IInv, BlockStep
    PROVE  IInv'
  <1> USE Lists DEF Types, BlockTypes
  <1>0. /\ text.blocks \subseteq Types
        /\ \A c : Doing(c) =>
               /\ stack # <<>> /\ Top.todo # <<>> /\ tree[current].num \in Nat
               /\ Top.i \in Nat /\ Top.flag \in BOOLEAN
               /\ Continues(Top) /\ Continues(Rest)
    BY Spelled, Doings
  <1>1. CASE LeafBlock
    <2>1. /\ Doing("block") /\ UNCHANGED docVars
          /\ \E t \in text.blocks \cap {"HRULE", "BLOCKCODE", "BLOCKHTML"} :
                 PushLeaf(t, 0, FALSE, Top)
      BY <1>1 DEF LeafBlock
    <2>2. PICK t \in Types : PushLeaf(t, 0, FALSE, Top)
      BY <1>0, <2>1
    <2> QED BY <1>0, <2>1, <2>2, DocKept, LeafKeeps
  <1>2. CASE ParseBlockquote
    BY <1>0, <1>2, DocKept, PushKeeps DEF ParseBlockquote
  <1>3. CASE ParseParagraph
    <2>1. PICK lines \in {1, 2}, beoln \in BOOLEAN :
              PushNode("PARAGRAPH", lines, beoln, <<"inline">>, Top)
      BY <1>3 DEF ParseParagraph
    <2>2. Doing("block") /\ UNCHANGED docVars /\ lines \in Nat
      BY <1>3 DEF ParseParagraph
    <2> QED BY <1>0, <2>1, <2>2, DocKept, PushKeeps
  <1>4. CASE ParseHeader
    BY <1>0, <1>4, DocKept, PushKeeps DEF ParseHeader
  <1>5. CASE ParseList
    BY <1>0, <1>5, DocKept, PushKeeps DEF ParseList
  <1>6. CASE ListItem
    <2>1. /\ UNCHANGED docVars /\ (Doing("item") \/ Doing("items"))
          /\ stack # <<>> /\ Top.flag \in BOOLEAN
      BY <1>0, <1>6 DEF ListItem
    <2>2. PICK empty \in BOOLEAN, end \in BOOLEAN :
              \E calls \in ItemCalls(Top.flag \/ empty) :
                  PushNode("LISTITEM", 0, Top.flag \/ empty, calls,
                           AfterItem(Top.flag \/ empty, end, "items"))
      BY <1>6 DEF ListItem
    <2>3. PICK calls \in ItemCalls(Top.flag \/ empty) :
              PushNode("LISTITEM", 0, Top.flag \/ empty, calls,
                       AfterItem(Top.flag \/ empty, end, "items"))
      BY <2>2
    <2>4. (Top.flag \/ empty) \in BOOLEAN
      BY <2>1, BothFlags
    <2>5. calls \in Seq(Calls)
      BY <2>3 DEF ItemCalls
    <2> DEFINE block == Top.flag \/ empty
    <2> HIDE DEF block
    <2>6. block \in BOOLEAN /\ PushNode("LISTITEM", 0, block, calls, AfterItem(block, end, "items"))
      BY <2>3, <2>4 DEF block
    <2>7. Continues(AfterItem(block, end, "items"))
      BY <2>1, <2>6, ItemGoesOn
    <2> QED BY <2>1, <2>5, <2>6, <2>7, DocKept, PushKeeps
  <1>7. CASE NewDefinition
    BY <1>7, NewDefinitionKeeps
  <1>8. CASE MergeDefinition
    BY <1>8, MergeDefinitionKeeps
  <1>9. CASE DefinitionData
    <2>1. /\ UNCHANGED docVars /\ (Doing("datum") \/ Doing("data"))
          /\ stack # <<>> /\ Top.flag \in BOOLEAN
      BY <1>0, <1>9 DEF DefinitionData
    <2>2. PICK empty \in BOOLEAN, end \in BOOLEAN :
              PushNode("DEFINITION_DATA", 0, Top.flag \/ empty, <<"listitem">>,
                       AfterItem(Top.flag \/ empty, end, "data"))
      BY <1>9 DEF DefinitionData
    <2>3. (Top.flag \/ empty) \in BOOLEAN
      BY <2>1, BothFlags
    <2> DEFINE block == Top.flag \/ empty
    <2> HIDE DEF block
    <2>4. /\ block \in BOOLEAN
          /\ PushNode("DEFINITION_DATA", 0, block, <<"listitem">>, AfterItem(block, end, "data"))
      BY <2>2, <2>3 DEF block
    <2>5. Continues(AfterItem(block, end, "data"))
      BY <2>1, <2>4, ItemGoesOn
    <2> QED BY <2>1, <2>4, <2>5, DocKept, PushKeeps
  <1>10. CASE EmptyData
    <2>1. stack # <<>> /\ Top.flag \in BOOLEAN /\ UNCHANGED docVars
      BY <1>0, <1>10 DEF EmptyData
    <2>2. Continues([Top EXCEPT !.todo = <<>>])
      BY <2>1, TopGoesOn
    <2> QED BY <1>10, <2>1, <2>2, DocKept, LeafKeeps DEF EmptyData
  <1>11. CASE DataItem
    <2>1. PICK calls \in ItemCalls(Top.flag) : PushNode("LISTITEM", 0, Top.flag, calls, Rest)
      BY <1>11 DEF DataItem
    <2>2. calls \in Seq(Calls)
      BY <2>1 DEF ItemCalls
    <2>3. Doing("listitem") /\ UNCHANGED docVars
      BY <1>11 DEF DataItem
    <2> QED BY <1>0, <2>1, <2>2, <2>3, DocKept, PushKeeps
  <1>12. CASE ParseTable
    <2>1. PICK columns \in 1 .. MaxColumns :
              PushNode("TABLE_BLOCK", columns, FALSE, <<"thead", "tbody">>, Top)
      BY <1>12 DEF ParseTable
    <2>2. columns \in Nat /\ Doing("block") /\ UNCHANGED docVars
      BY <1>12, MaxColumnsAssumption DEF ParseTable
    <2> QED BY <1>0, <2>1, <2>2, DocKept, PushKeeps
  <1>13. CASE TablePart
    BY <1>0, <1>13, DocKept, PushKeeps DEF TablePart
  <1>14. CASE TableRow
    BY <1>0, <1>14, DocKept, PushKeeps DEF TableRow
  <1>15. CASE TableCell
    <2>1. Doing("cells") /\ UNCHANGED docVars
          /\ PushNode("TABLE_CELL", Top.i, FALSE, <<"inline">>, [Top EXCEPT !.i = Top.i + 1])
      BY <1>15 DEF TableCell
    <2>2. stack # <<>> /\ Top.i \in Nat /\ Top.i + 1 \in Nat
      BY <1>0, <2>1
    <2>3. Continues([Top EXCEPT !.i = Top.i + 1])
      BY <2>2, TopGoesOn
    <2> QED BY <2>1, <2>2, <2>3, DocKept, PushKeeps
  <1>16. CASE FillCell
    <2>1. Doing("fill") /\ UNCHANGED docVars
          /\ PushLeaf("TABLE_CELL", Top.i, FALSE, [Top EXCEPT !.i = Top.i + 1])
      BY <1>16 DEF FillCell
    <2>2. stack # <<>> /\ Top.i \in Nat /\ Top.i + 1 \in Nat
      BY <1>0, <2>1
    <2>3. Continues([Top EXCEPT !.i = Top.i + 1])
      BY <2>2, TopGoesOn
    <2> QED BY <2>1, <2>2, <2>3, DocKept, LeafKeeps
  <1> QED BY <1>1, <1>2, <1>3, <1>4, <1>5, <1>6, <1>7, <1>8, <1>9, <1>10, <1>11,
             <1>12, <1>13, <1>14, <1>15, <1>16 DEF BlockStep

LEMMA InlineStepKeeps ==
    ASSUME IInv, InlineStep
    PROVE  IInv'
  <1> USE Lists DEF Types, SpanTypes
  <1>0. /\ text.inlines \subseteq Types
        /\ \A c : Doing(c) => stack # <<>> /\ Continues(Top)
    BY Spelled, Doings
  <1>1. CASE LeafSpan
    <2>1. Doing("inline") /\ UNCHANGED docVars
      BY <1>1 DEF LeafSpan
    <2>2. PICK t \in Types : PushLeaf(t, 0, FALSE, Top)
      BY <1>0, <1>1 DEF LeafSpan
    <2> QED BY <1>0, <2>1, <2>2, DocKept, LeafKeeps
  <1>2. CASE ParseSpan
    <2>1. Doing("inline") /\ UNCHANGED docVars
      BY <1>2 DEF ParseSpan
    <2>2. PICK t \in Types : PushNode(t, 0, FALSE, <<"inline">>, Top)
      BY <1>0, <1>2 DEF ParseSpan
    <2> QED BY <1>0, <2>1, <2>2, DocKept, PushKeeps
  <1>3. CASE AngleAutolink
    BY <1>0, <1>3, DocKept, LeafKeeps DEF AngleAutolink
  <1>4. CASE BareAutolink
    BY <1>0, <1>4, DocKept, LeafKeeps DEF BareAutolink
  <1>5. CASE CharLink
    <2>1. /\ Doing("inline") /\ status' = status /\ DocTypeOK'
          /\ \/ PushNode("LINK", 0, FALSE, <<"inline">>, Top)
             \/ PushLeaf("LINK", 0, FALSE, Top)
      BY <1>5 DEF CharLink, IInv, TypeOK, DocTypeOK
    <2>2. CASE PushNode("LINK", 0, FALSE, <<"inline">>, Top)
      BY <1>0, <2>1, <2>2, PushKeeps
    <2>3. CASE PushLeaf("LINK", 0, FALSE, Top)
      BY <1>0, <2>1, <2>3, LeafKeeps
    <2> QED BY <2>1, <2>2, <2>3
  <1>6. CASE FootnoteRef
    <2>1. Doing("inline") /\ status' = status
      BY <1>6 DEF FootnoteRef
    <2>2. PICK f \in Footnotes :
           \/ /\ PushLeaf("FOOTNOTE_REF", foots + 1, FALSE, Top)
              /\ foots' = foots + 1
              /\ fnum' = [fnum EXCEPT ![f] = foots + 1]
              /\ in_link_body' = in_link_body
           \/ /\ PushLeaf("NORMAL_TEXT", 0, FALSE, Top)
              /\ foots' = foots /\ fnum' = fnum /\ in_link_body' = in_link_body
      BY <1>6 DEF FootnoteRef
    <2>3. DocTypeOK' /\ foots + 1 \in Nat
      <3>1. foots \in Nat /\ fnum \in [Footnotes -> Nat] /\ in_link_body \in {0, 1}
            /\ status \in {"idle", "parsing", "done", "failed"}
        BY DEF IInv, TypeOK
      <3>2. fnum' \in [Footnotes -> Nat] /\ foots' \in Nat /\ in_link_body' = in_link_body
        <4>1. CASE foots' = foots + 1 /\ fnum' = [fnum EXCEPT ![f] = foots + 1]
          <5>1. foots + 1 \in Nat
            BY <3>1
          <5>2. [fnum EXCEPT ![f] = foots + 1] \in [Footnotes -> Nat]
            BY <3>1, <5>1
          <5> QED BY <2>2, <4>1, <5>1, <5>2
        <4>2. CASE foots' = foots /\ fnum' = fnum
          BY <2>2, <3>1, <4>2
        <4> QED BY <2>2, <4>1, <4>2
      <3> QED BY <2>1, <3>1, <3>2 DEF DocTypeOK
    <2> QED BY <1>0, <2>1, <2>2, <2>3, LeafKeeps
  <1> QED BY <1>1, <1>2, <1>3, <1>4, <1>5, <1>6 DEF InlineStep

LEMMA FootnoteStepKeeps ==
    ASSUME IInv, FootnotesBlock \/ FootnoteDef
    PROVE  IInv'
  <1> USE Lists DEF Types, BlockTypes
  <1>0. \A c : Doing(c) => stack # <<>> /\ Continues(Top) /\ Continues(Rest)
    BY Doings
  <1>1. CASE FootnotesBlock
    <2>1. Doing("footnotes") /\ DocTypeOK' /\ status' = status
      BY <1>1, DocKept DEF FootnotesBlock
    <2>2. CASE foots > 0
      BY <1>0, <1>1, <2>1, <2>2, PushKeeps DEF FootnotesBlock
    <2>3. CASE ~(foots > 0)
      BY <1>0, <1>1, <2>1, <2>3, GoesOnKeeps DEF FootnotesBlock
    <2> QED BY <2>2, <2>3
  <1>2. CASE FootnoteDef
    <2>1. Doing("defs") /\ DocTypeOK' /\ status' = status
      BY <1>2, DocKept DEF FootnoteDef
    <2>2. PICK f \in Footnotes :
              PushNode("FOOTNOTE_DEF", fnum[f], FALSE, <<"block">>, [Top EXCEPT !.i = fnum[f]])
      BY <1>2 DEF FootnoteDef
    <2>3. fnum[f] \in Nat /\ stack # <<>>
      BY <1>0, <2>1 DEF IInv, TypeOK
    <2>4. Continues([Top EXCEPT !.i = fnum[f]])
      BY <2>3, TopGoesOn
    <2> QED BY <2>1, <2>2, <2>3, <2>4, PushKeeps
  <1> QED BY <1>1, <1>2

LEMMA EndStepKeeps ==
    ASSUME IInv, EndLoop \/ EndLinkBody
    PROVE  IInv'
  <1>0. \A c : Doing(c) => stack # <<>> /\ Continues(Rest)
    BY Doings
  <1>1. CASE EndLoop
    <2>1. \E c : Doing(c)
      BY <1>1 DEF EndLoop, LoopMayEnd
    <2> QED BY <1>0, <1>1, <2>1, DocKept, GoesOnKeeps DEF EndLoop
  <1>2. CASE EndLinkBody
    <2>1. Doing("inline") /\ DocTypeOK' /\ status' = status
      BY <1>2 DEF EndLinkBody, IInv, TypeOK, DocTypeOK
    <2> QED BY <1>0, <1>2, <2>1, GoesOnKeeps DEF EndLinkBody
  <1> QED BY <1>1, <1>2

\* No node is in the tree but an open root without children, or none at all.
LEMMA ParseKeeps ==
    ASSUME TypeOK, Parse
    PROVE  IInv'
  <1> DEFINE e == Frame(0, <<"docheader", "block", "footnotes", "footer">>, FALSE)
  <1>1. /\ text' \in Texts /\ nodes' = 1 /\ current' = 0 /\ depth' = 1
        /\ tree' = [k \in {0} |-> Node("ROOT", NULL, 0, FALSE)]
        /\ stack' = <<e>>
        /\ in_link_body' = 0 /\ foots' = 0 /\ fnum' = [f \in Footnotes |-> 0]
        /\ status' = "parsing"
    BY DEF Parse
  <1>2. e \in Frames /\ e.node = 0
    <2>1. <<"docheader", "block", "footnotes", "footer">> \in Seq(Calls)
      BY DEF Calls
    <2> QED BY <2>1, NewFrame
  <1> HIDE DEF e
  <1>3. /\ DOMAIN tree' = {0} /\ tree'[0] \in NodeRecords
        /\ tree'[0].parent = NULL /\ tree'[0].children = <<>>
    BY <1>1 DEF Node, NodeRecords, Types, BlockTypes
  <1>4. stack' \in Seq(Frames) /\ Len(stack') = 1 /\ stack'[1] = e /\ stack' # <<>> /\ Top' = e
    BY <1>1, <1>2 DEF Top
  <1>5. TypeOK'
    <2>1. DOMAIN tree' \subseteq 0 .. nodes' - 1
      BY <1>1, <1>3
    <2> QED BY <1>1, <1>3, <1>4, <2>1 DEF TypeOK
  <1>6. OpenPath'
    <2>1. \A i \in 1 .. 1 : /\ stack'[i].node \in DOMAIN tree'
                            /\ tree'[stack'[i].node].parent = NULL /\ i = 1
      BY <1>2, <1>3, <1>4
    <2> QED BY <1>1, <1>2, <1>4, <2>1 DEF OpenPath
  <1>7. StackDistinct'
    BY <1>4 DEF StackDistinct
  <1>8. ChildParents'
    BY <1>3 DEF ChildParents, Linked
  <1>9. DefinitionsShallow'
    BY <1>2, <1>3, <1>4 DEF DefinitionsShallow, Child, NumChildren
  <1>10. DepthLimited'
    BY <1>1, MaxdepthAssumption DEF DepthLimited
  <1> QED BY <1>5, <1>6, <1>7, <1>8, <1>9, <1>10 DEF IInv

LEMMA FinishKeeps ==
    ASSUME IInv, Finish
    PROVE  IInv'
  <1>1. /\ Len(stack) = 1 /\ stack # <<>>
        /\ depth' = depth - 1 /\ current' = tree[current].parent
        /\ stack' = SubSeq(stack, 1, Len(stack) - 1)
        /\ status' = "done"
        /\ UNCHANGED <<text, nodes, tree, in_link_body, foots, fnum>>
    BY DEF Finish, PopNode
  <1>2. TypeOK /\ OpenPath /\ ChildParents /\ status = "parsing" /\ depth = 1
    BY <1>1, OpenNodes DEF IInv
  <1>3. /\ stack' \in Seq(Frames) /\ Len(stack') = 0
    BY <1>1, <1>2, WithoutLast DEF TypeOK
  <1>4. stack' = <<>>
    BY <1>3
  <1>5. current' = NULL /\ depth' = 0
    <2>1. /\ current = Top.node /\ Top = stack[1] /\ 1 \in 1 .. Len(stack)
          /\ tree[stack[1].node].parent = NULL
      BY <1>1, <1>2 DEF OpenPath, Top
    <2> QED BY <1>1, <1>2, <2>1
  <1>6. TypeOK'
    BY <1>1, <1>2, <1>3, <1>5 DEF TypeOK
  <1>7. OpenPath' /\ DepthLimited'
    BY <1>1, <1>4, <1>5 DEF OpenPath, DepthLimited
  <1>8. StackDistinct' /\ DefinitionsShallow'
    BY <1>3 DEF StackDistinct, DefinitionsShallow
  <1>9. ChildParents'
    BY <1>1, <1>2 DEF ChildParents, Linked
  <1> QED BY <1>6, <1>7, <1>9, <1>8 DEF IInv

LEMMA FailKeeps ==
    ASSUME IInv, Fail
    PROVE  IInv'
  <1>1. /\ tree' = [k \in {} |-> Node("ROOT", NULL, 0, FALSE)] /\ stack' = <<>>
        /\ depth' \in {depth, depth + 1} /\ status' = "failed"
        /\ UNCHANGED <<text, nodes, current, in_link_body, foots, fnum>>
    BY DEF Fail
  <1>2. TypeOK
    BY DEF IInv
  <1>3. DOMAIN tree' = {} /\ stack' \in Seq(Frames) /\ Len(stack') = 0
    BY <1>1
  <1>4. TypeOK'
    BY <1>1, <1>2, <1>3 DEF TypeOK
  <1> QED BY <1>1, <1>3, <1>4
        DEF IInv, OpenPath, StackDistinct, ChildParents, Linked, DefinitionsShallow, DepthLimited

LEMMA InitHolds ==
    ASSUME Init
    PROVE  IInv
  <1>1. DOMAIN tree = {} /\ stack = <<>> /\ stack \in Seq(Frames) /\ Len(stack) = 0
    BY DEF Init
  <1>2. TypeOK
    BY <1>1 DEF Init, TypeOK
  <1> QED BY <1>1, <1>2
        DEF Init, IInv, OpenPath, StackDistinct, ChildParents, Linked, DefinitionsShallow,
            DepthLimited

LEMMA StepKeeps ==
    ASSUME IInv, [Next]_vars
    PROVE  IInv'
  <1>1. CASE Parse
    BY <1>1, ParseKeeps DEF IInv
  <1>2. CASE DocHeader \/ DocFooter
    <2>1. /\ Doing("docheader") \/ Doing("footer")
          /\ PushLeaf("DOC_HEADER", 0, FALSE, Rest) \/ PushLeaf("DOC_FOOTER", 0, FALSE, Rest)
          /\ UNCHANGED docVars
      BY <1>2 DEF DocHeader, DocFooter
    <2>2. stack # <<>> /\ Continues(Rest)
      BY <2>1, Doings
    <2>3. "DOC_HEADER" \in Types /\ "DOC_FOOTER" \in Types
      BY DEF Types, BlockTypes
    <2> QED BY <2>1, <2>2, <2>3, DocKept, LeafKeeps
  <1>3. CASE BlockStep
    BY <1>3, BlockStepKeeps
  <1>4. CASE InlineStep
    BY <1>4, InlineStepKeeps
  <1>5. CASE FootnotesBlock \/ FootnoteDef
    BY <1>5, FootnoteStepKeeps
  <1>6. CASE EndLoop \/ EndLinkBody
    BY <1>6, EndStepKeeps
  <1>7. CASE Return
    BY <1>7, ReturnKeeps
  <1>8. CASE Finish
    BY <1>8, FinishKeeps
  <1>9. CASE Fail
    BY <1>9, FailKeeps
  <1>10. CASE UNCHANGED vars
    BY <1>10 DEF vars, treeVars, docVars, IInv, TypeOK, OpenPath, Top, StackDistinct,
                 ChildParents, Linked, DefinitionsShallow, Child, NumChildren, DepthLimited
  <1> QED BY <1>1, <1>2, <1>3, <1>4, <1>5, <1>6, <1>7, <1>8, <1>9, <1>10
          DEF Next, ParseStep

LEMMA Invariance == Spec => []IInv
  <1>1. Init => IInv
    BY InitHolds
  <1>2. IInv /\ [Next]_vars => IInv'
    BY StepKeeps
  <1> QED BY <1>1, <1>2, PTL DEF Spec

-----------------------------------------------------------------------------
(* The theorems *)

\* For every kind of input, every maxdepth and every set of footnotes the
\* variables of the parser keep their types: in particular every node is a
\* node of this parse and nodes is an identifier no node has yet.
THEOREM ParserTypes == Spec => []TypeOK
  <1>1. IInv => TypeOK
    BY DEF IInv
  <1> QED BY <1>1, Invariance, PTL

\* The asserts of popnode and mdown_doc_parse never fail: the node that a
\* parse function pops is doc->current, its parent is the node that the
\* function below holds, and depth counts the open nodes, also where
\* parse_definition opens a list again without pushnode.
THEOREM PopsWhatIsOpen == Spec => []OpenPath
  <1>1. IInv => OpenPath
    BY DEF IInv
  <1> QED BY <1>1, Invariance, PTL

\* The check of pushnode holds the open path to maxdepth + 1 nodes, although
\* parse_definition raises the depth without it: a list it opens again was
\* itself pushed within the limit.
THEOREM DepthBounded == Spec => []DepthLimited
  <1>1. IInv => DepthLimited
    BY DEF IInv
  <1> QED BY <1>1, Invariance, PTL
=============================================================================
