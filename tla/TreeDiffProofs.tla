---------------------------- MODULE TreeDiffProofs ----------------------------
(***************************************************************************)
(* Proofs about TreeMatch and TreeDiff: for any two documents the matches  *)
(* are mutual and of nodes that are alike, and no assert of mdown_diff     *)
(* fails.                                                                  *)
(***************************************************************************)
EXTENDS TreeDiff, TLAPS, SequenceTheorems, FiniteSetTheorems, WellFoundedInduction

\* The slots of the map of tree t whose nodes match nodes of tree u.
Slots(t, u) ==
    [Mapped(t) -> [sig : {Signatures(t)[n] : n \in DOMAIN t},
                   weight : {Weights(t)[n] : n \in DOMAIN t},
                   match : Mapped(u) \cup {NULL}]]

Signs(x, t) == \A n \in Mapped(t) : x[n].sig = Signatures(t)[n]

\* The maps, the queue and the lists have nodes in them.
MapsTyped ==
    /\ IsDocument(old) /\ IsDocument(new)
    /\ xold \in Slots(old, new) /\ Signs(xold, old)
    /\ xnew \in Slots(new, old) /\ Signs(xnew, new)
    /\ pc \in {"queue", "down", "up", "topdown", "bottomup", "merge", "returned"}

ListsTyped ==
    /\ pq \in Seq(Mapped(new))
    /\ down \in Seq(Mapped(new) \X Mapped(old))
    /\ sibs \in Seq(Mapped(new))
    /\ pc # "bottomup" => walk \in Seq(Mapped(new))

\* Which lists are in use in a phase.
Phase ==
    /\ pc # "queue" => pc \in {"down", "up"} \/ pq = <<>>
    /\ pc \in {"down", "up"} => walk = <<>>
    /\ pc # "down" => down = <<>>
    /\ pc # "topdown" => sibs = <<>>

\* U has the new nodes that no step has come to: none of them has a match,
\* the nodes below one of them are in it as well, and what waits in the
\* queue, in walk and in down is at the top of it, and there only once.
Untouched(U) ==
    /\ U \subseteq Mapped(new)
    /\ \A n \in U :
        /\ xnew[n].match = NULL
        /\ ~IsOpaque(new[n]) => ToSet(new[n].children) \subseteq U

OnTop(U, n) == n \in U /\ new[n].parent \notin U

Waits(U) ==
    /\ \A i \in DOMAIN pq : OnTop(U, pq[i])
    /\ \A i, j \in DOMAIN pq : pq[i] = pq[j] => i = j
    /\ pc = "queue" =>
        /\ \A i \in DOMAIN walk : OnTop(U, walk[i])
        /\ \A i, j \in DOMAIN walk : walk[i] = walk[j] => i = j
        /\ \A i \in DOMAIN walk, j \in DOMAIN pq : walk[i] # pq[j]
    /\ pc = "down" =>
        /\ \A i \in DOMAIN down : OnTop(U, down[i][1])
        /\ \A i, j \in DOMAIN down : down[i][1] = down[j][1] => i = j
        /\ \A i \in DOMAIN down, j \in DOMAIN pq : down[i][1] # pq[j]
    /\ pc \in {"down", "up"} => climb.n \in Mapped(new) /\ new[climb.n].parent \notin U

DownAlike ==
    /\ \A i \in DOMAIN down : xnew[down[i][1]].sig = xold[down[i][2]].sig
    /\ pc \in {"down", "up"} => climb.o \in Mapped(old)

\* The loop over siblings runs below a matched node.
SibsBelow ==
    \A i \in DOMAIN sibs :
        new[sibs[i]].parent # NULL /\ xnew[new[sibs[i]].parent].match # NULL

\* The footers of both trees.
Footer(t) == CHOOSE f \in DOMAIN t : t[f].type = "DOC_FOOTER"

\* The roots get their match from one another or from the footers: as long as
\* they have none, the root or the footer waits, or its match is on the way.
RootsMeet ==
    \/ xnew[Root].match = Root /\ xold[Root].match = Root
    \/ /\ pc \in {"queue", "down", "up"}
       /\ xnew[Root].match = NULL /\ xold[Root].match = NULL
       /\ \/ \E i \in DOMAIN pq : pq[i] \in {Root, Footer(new)}
          \/ pc = "queue" /\ \E i \in DOMAIN walk : walk[i] = Footer(new)
          \/ pc = "down" /\ down = << <<Root, Root>> >>
          \/ /\ pc \in {"down", "up"}
             /\ climb.n = Footer(new) /\ climb.o = Footer(old) /\ climb.left # 0

MatchInv ==
    /\ MapsTyped /\ ListsTyped /\ Phase
    /\ \E U \in SUBSET Mapped(new) : Untouched(U) /\ Waits(U)
    /\ DownAlike /\ SibsBelow /\ RootsMeet
    /\ MatchesMutual /\ MatchesAlike

\* The calls of node_merge are on matched nodes, and go through what is left
\* of their children.
MergesMatched(f) ==
    /\ {"n", "old", "new"} \subseteq DOMAIN f
    /\ f.n \in Mapped(new) /\ xnew[f.n].match # NULL
    /\ f.old \in Seq(Mapped(old)) /\ f.new \in Seq(Mapped(new))

AllMatched(fs) ==
    /\ fs \in Seq({fs[i] : i \in DOMAIN fs})
    /\ \A i \in DOMAIN fs : MergesMatched(fs[i])

FramesMatched ==
    /\ pc # "merge" => frames = <<>>
    /\ AllMatched(frames)

Inv == MatchInv /\ FramesMatched

-----------------------------------------------------------------------------
(* Trees *)

LEMMA UpTo ==
    ASSUME NEW S, NEW bound \in Nat, 0 \in S,
           \A l \in 0 .. bound - 1 : l \in S => l + 1 \in S
    PROVE  0 .. bound \subseteq S
  <1> SUFFICES ASSUME NEW k \in 0 .. bound, k \notin S
               PROVE  FALSE
    OBVIOUS
  <1> DEFINE T == {l \in 0 .. bound : l \notin S}
  <1>1. PICK l \in T : \A q \in T : ~(<<q, l>> \in OpToRel(<, Nat))
    <2>1. T \subseteq Nat /\ T # {}
      OBVIOUS
    <2> QED BY <2>1, NatLessThanWellFounded, WFMin
  <1>2. ASSUME NEW q \in T, q < l
        PROVE  FALSE
    <2>1. <<q, l>> \in Nat \X Nat /\ <<q, l>>[1] < <<q, l>>[2]
      BY <1>2
    <2>2. <<q, l>> \in OpToRel(<, Nat)
      BY ONLY <2>1 DEF OpToRel
    <2> QED BY <1>1, <2>2
  <1>3. l \in 1 .. bound /\ l - 1 \in 0 .. bound - 1
    <2>1. l # 0
      OBVIOUS
    <2> QED BY <2>1
  <1>4. l - 1 \in S
    <2>1. l - 1 \notin T
      BY <1>2, <1>3
    <2> QED BY <1>3, <2>1
  <1>5. (l - 1) + 1 \in S
    BY <1>3, <1>4
  <1> QED BY <1>3, <1>5

LEMMA TreeNodes ==
    ASSUME NEW t, IsTree(t)
    PROVE  /\ Cardinality(DOMAIN t) \in Nat \ {0}
           /\ DOMAIN t = 0 .. Cardinality(DOMAIN t) - 1
           /\ t[Root].parent = NULL /\ Root \in DOMAIN t
  <1>1. Cardinality(DOMAIN t) \in Nat
    BY FS_CardinalityType DEF IsTree
  <1>2. DOMAIN t = 0 .. Cardinality(DOMAIN t) - 1 /\ 0 \in DOMAIN t
    BY DEF IsTree, Root
  <1>3. Cardinality(DOMAIN t) # 0
    BY <1>1, <1>2
  <1>4. t[0].parent \in Nat \cup {-1} /\ t[0].parent < 0
    BY <1>2 DEF IsTree, InputNodes, NULL, Root
  <1> QED BY <1>1, <1>2, <1>3, <1>4 DEF Root, NULL

LEMMA Children ==
    ASSUME NEW t, IsTree(t), NEW n \in DOMAIN t
    PROVE  /\ t[n].children \in Seq(Nat) /\ n \in Nat
           /\ t[n].parent \in Nat \cup {NULL} /\ t[n].parent < n
           /\ n # Root => t[n].parent \in DOMAIN t
           /\ \A i, j \in DOMAIN t[n].children : t[n].children[i] = t[n].children[j] => i = j
           /\ \A i \in DOMAIN t[n].children :
                  /\ t[n].children[i] \in DOMAIN t /\ t[t[n].children[i]].parent = n
                  /\ n < t[n].children[i]
  <1>1. n \in Nat /\ t[n].children \in Seq(Nat) /\ t[n].parent \in Nat \cup {NULL}
    <2>1. t[n] \in InputNodes
      BY DEF IsTree
    <2>2. n \in Nat
      BY TreeNodes
    <2> QED BY <2>1, <2>2 DEF InputNodes
  <1>2. /\ t[n].parent < n /\ (n # Root => t[n].parent \in DOMAIN t)
        /\ IsInjective(t[n].children)
        /\ \A k \in ToSet(t[n].children) : k \in DOMAIN t /\ t[k].parent = n
    BY DEF IsTree
  <1>3. \A i \in DOMAIN t[n].children : t[n].children[i] \in ToSet(t[n].children)
    BY DEF ToSet
  <1>4. ASSUME NEW i \in DOMAIN t[n].children
        PROVE  /\ t[n].children[i] \in DOMAIN t /\ t[t[n].children[i]].parent = n
               /\ n < t[n].children[i]
    <2>1. t[n].children[i] \in DOMAIN t /\ t[t[n].children[i]].parent = n
      BY <1>2, <1>3
    <2>2. t[t[n].children[i]].parent < t[n].children[i]
      BY <2>1 DEF IsTree
    <2> QED BY <2>1, <2>2
  <1> QED BY <1>1, <1>2, <1>4 DEF IsInjective

\* The equation of Signatures, for the nodes from b on.
IsSigned(s, t, b) ==
    s = [n \in b .. Cardinality(DOMAIN t) - 1 |->
            <<t[n].type, Signed(t[n]),
              [j \in DOMAIN t[n].children |-> s[t[n].children[j]]]>>]

LEMMA SignedExists ==
    ASSUME NEW t, IsTree(t)
    PROVE  \E s : IsSigned(s, t, 0)
  <1> DEFINE N == Cardinality(DOMAIN t)
             S == {l \in 0 .. N : \E s : IsSigned(s, t, N - l)}
  <1>0. N \in Nat /\ DOMAIN t = 0 .. N - 1
    BY TreeNodes
  <1>1. 0 \in S
    <2> DEFINE s == [n \in {} |-> n]
    <2>1. N .. N - 1 = {}
      BY <1>0
    <2>2. IsSigned(s, t, N)
      BY <2>1 DEF IsSigned
    <2>3. N - 0 = N /\ 0 \in 0 .. N
      BY <1>0
    <2> QED BY <2>2, <2>3
  <1>2. ASSUME NEW l \in 0 .. N - 1, l \in S
        PROVE  l + 1 \in S
    <2>1. PICK s : IsSigned(s, t, N - l)
      BY <1>2
    <2>2. PICK b \in DOMAIN t : b = N - (l + 1) /\ N - l = b + 1
      BY <1>0
    <2> DEFINE Value(n, g) ==
                   <<t[n].type, Signed(t[n]),
                     [j \in DOMAIN t[n].children |-> g[t[n].children[j]]]>>
               g == [n \in b .. N - 1 |-> IF n = b THEN Value(b, s) ELSE s[n]]
    <2>3. s = [n \in b + 1 .. N - 1 |-> Value(n, s)]
      BY <2>1, <2>2 DEF IsSigned
    <2>4. ASSUME NEW n \in b .. N - 1
          PROVE  g[n] = Value(n, g)
      <3>1. n \in DOMAIN t
        BY <1>0, <2>2
      <3>2. ASSUME NEW j \in DOMAIN t[n].children
            PROVE  g[t[n].children[j]] = s[t[n].children[j]]
        <4>1. t[n].children[j] \in DOMAIN t /\ n < t[n].children[j]
          BY <3>1, Children
        <4>2. t[n].children[j] \in b .. N - 1 /\ t[n].children[j] # b
          BY <4>1, <1>0, <2>2
        <4> QED BY <4>2
      <3>3. Value(n, g) = Value(n, s)
        BY <3>2
      <3>4. g[n] = Value(n, s)
        <4>1. CASE n = b
          BY <4>1
        <4>2. CASE n # b
          <5>1. n \in b + 1 .. N - 1
            BY <4>2, <1>0, <2>2
          <5>2. s[n] = Value(n, s)
            BY <5>1, <2>3
          <5> QED BY <4>2, <5>2
        <4> QED BY <4>1, <4>2
      <3> QED BY <3>3, <3>4
    <2>5. g = [n \in b .. N - 1 |-> Value(n, g)]
      BY <2>4
    <2>6. IsSigned(g, t, b)
      BY <2>5 DEF IsSigned
    <2>7. l + 1 \in 0 .. N
      BY <1>0
    <2> QED BY <2>2, <2>6, <2>7
  <1>3. 0 .. N \subseteq S
    BY <1>0, <1>1, <1>2, UpTo
  <1>4. N \in S /\ N - N = 0
    BY <1>0, <1>3
  <1> QED BY <1>4

\* A node's signature is made of the signatures below it.
LEMMA SignaturesOf ==
    ASSUME NEW t, IsTree(t), NEW n \in DOMAIN t
    PROVE  Signatures(t)[n] =
               <<t[n].type, Signed(t[n]),
                 [j \in DOMAIN t[n].children |-> Signatures(t)[t[n].children[j]]]>>
  <1>1. DOMAIN t = 0 .. Cardinality(DOMAIN t) - 1
    BY TreeNodes
  <1> DEFINE s == CHOOSE s : IsSigned(s, t, 0)
  <1>2. IsSigned(s, t, 0)
    BY SignedExists
  <1>3. Signatures(t) = s
    BY <1>1 DEF Signatures, IsSigned
  <1>4. s[n] = <<t[n].type, Signed(t[n]),
                 [j \in DOMAIN t[n].children |-> s[t[n].children[j]]]>>
    BY <1>1, <1>2 DEF IsSigned
  <1> QED BY <1>3, <1>4

\* The equation of Ancestors, for the nodes up to b.
IsAscent(a, t, b) ==
    a = [n \in 0 .. b |-> IF t[n].parent = NULL THEN <<>>
                          ELSE <<t[n].parent>> \o a[t[n].parent]]

LEMMA AscentExists ==
    ASSUME NEW t, IsTree(t)
    PROVE  \E a : IsAscent(a, t, Cardinality(DOMAIN t) - 1)
  <1> DEFINE N == Cardinality(DOMAIN t)
             S == {b \in 0 .. N - 1 : \E a : IsAscent(a, t, b)}
  <1>0. N \in Nat \ {0} /\ DOMAIN t = 0 .. N - 1 /\ N - 1 \in Nat
    BY TreeNodes
  <1>1. 0 \in S
    <2> DEFINE a == [n \in 0 .. 0 |-> <<>>]
    <2>1. \A n \in 0 .. 0 : n = Root /\ t[n].parent = NULL
      BY TreeNodes DEF Root
    <2>2. IsAscent(a, t, 0)
      BY <2>1 DEF IsAscent
    <2>3. 0 \in 0 .. N - 1
      BY <1>0
    <2> QED BY <2>2, <2>3
  <1>2. ASSUME NEW l \in 0 .. (N - 1) - 1, l \in S
        PROVE  l + 1 \in S
    <2>1. PICK a : IsAscent(a, t, l)
      BY <1>2
    <2>2. PICK b \in DOMAIN t : b = l + 1 /\ b # Root /\ l = b - 1
      BY <1>0 DEF Root
    <2> DEFINE Value(n, g) == IF t[n].parent = NULL THEN <<>>
                              ELSE <<t[n].parent>> \o g[t[n].parent]
               g == [n \in 0 .. b |-> IF n = b THEN Value(b, a) ELSE a[n]]
    <2>3. a = [n \in 0 .. l |-> Value(n, a)]
      BY <2>1 DEF IsAscent
    <2>4. ASSUME NEW n \in 0 .. b
          PROVE  g[n] = Value(n, g)
      <3>1. n \in DOMAIN t
        BY <1>0, <2>2
      <3>2. ASSUME t[n].parent # NULL
            PROVE  g[t[n].parent] = a[t[n].parent]
        <4>1. n # Root
          BY <3>2, TreeNodes
        <4>2. t[n].parent \in DOMAIN t /\ t[n].parent < n
          BY <3>1, <4>1, Children
        <4>3. t[n].parent \in 0 .. l /\ t[n].parent # b /\ t[n].parent \in 0 .. b
          <5> DEFINE p == t[n].parent
          <5>1. p \in Nat /\ p < n
            BY <1>0, <4>2
          <5> HIDE DEF p
          <5>2. p \in 0 .. l /\ p # b /\ p \in 0 .. b
            BY <5>1, <2>2
          <5> QED BY <5>2 DEF p
        <4> QED BY <4>3
      <3>3. Value(n, g) = Value(n, a)
        BY <3>2
      <3>4. g[n] = Value(n, a)
        <4>1. CASE n = b
          BY <4>1
        <4>2. CASE n # b
          <5>1. n \in 0 .. l
            BY <4>2, <2>2
          <5>2. a[n] = Value(n, a)
            BY <5>1, <2>3
          <5> QED BY <4>2, <5>2
        <4> QED BY <4>1, <4>2
      <3> QED BY <3>3, <3>4
    <2>5. g = [n \in 0 .. b |-> Value(n, g)]
      BY <2>4
    <2>6. IsAscent(g, t, b)
      BY <2>5 DEF IsAscent
    <2>7. l + 1 \in 0 .. N - 1
      BY <1>0
    <2> QED BY <2>2, <2>6, <2>7
  <1>3. 0 .. N - 1 \subseteq S
    BY <1>0, <1>1, <1>2, UpTo
  <1>4. N - 1 \in S
    BY <1>0, <1>3
  <1> QED BY <1>0, <1>4

LEMMA AscentTyped ==
    ASSUME NEW t, IsTree(t), NEW a, IsAscent(a, t, Cardinality(DOMAIN t) - 1)
    PROVE  \A n \in DOMAIN t : a[n] \in Seq(DOMAIN t)
  <1> DEFINE N == Cardinality(DOMAIN t)
             S == {b \in 0 .. N - 1 : \A n \in 0 .. b : a[n] \in Seq(DOMAIN t)}
  <1>0. N \in Nat \ {0} /\ DOMAIN t = 0 .. N - 1 /\ N - 1 \in Nat
    BY TreeNodes
  <1>1. \A n \in DOMAIN t : a[n] = IF t[n].parent = NULL THEN <<>>
                                   ELSE <<t[n].parent>> \o a[t[n].parent]
    BY <1>0 DEF IsAscent
  <1>2. 0 \in S
    <2>1. a[Root] = <<>>
      BY <1>1, TreeNodes
    <2>2. \A n \in 0 .. 0 : n = Root
      BY DEF Root
    <2>3. 0 \in 0 .. N - 1
      BY <1>0
    <2>4. <<>> \in Seq(DOMAIN t)
      OBVIOUS
    <2>5. \A n \in 0 .. 0 : a[n] \in Seq(DOMAIN t)
      BY <2>1, <2>2, <2>4
    <2> QED BY <2>3, <2>5
  <1>3. ASSUME NEW l \in 0 .. (N - 1) - 1, l \in S
        PROVE  l + 1 \in S
    <2>1. PICK b \in DOMAIN t : b = l + 1 /\ b # Root /\ l = b - 1
      <3>1. l + 1 \in DOMAIN t /\ l + 1 # 0 /\ l = (l + 1) - 1
        BY <1>0
      <3> QED BY <3>1 DEF Root
    <2>2. t[b].parent \in DOMAIN t /\ t[b].parent \in 0 .. l
      BY <1>0, <2>1, Children
    <2>3. a[t[b].parent] \in Seq(DOMAIN t) /\ <<t[b].parent>> \in Seq(DOMAIN t)
      BY <1>3, <2>2
    <2>4. <<t[b].parent>> \o a[t[b].parent] \in Seq(DOMAIN t)
      BY <2>3
    <2>5. a[b] \in Seq(DOMAIN t)
      <3>1. a[b] = <<>> \/ a[b] = <<t[b].parent>> \o a[t[b].parent]
        BY <1>1
      <3>2. <<>> \in Seq(DOMAIN t)
        OBVIOUS
      <3> QED BY <2>4, <3>1, <3>2
    <2>6. \A n \in 0 .. l + 1 : n = b \/ n \in 0 .. l
      BY <2>1
    <2>7. l + 1 \in 0 .. N - 1
      BY <1>0
    <2> QED BY <1>3, <2>5, <2>6, <2>7
  <1>4. 0 .. N - 1 \subseteq S
    BY <1>0, <1>2, <1>3, UpTo
  <1>5. N - 1 \in S
    BY <1>0, <1>4
  <1> QED BY <1>0, <1>5

LEMMA AncestorsOf ==
    ASSUME NEW t, IsTree(t), NEW n \in DOMAIN t
    PROVE  /\ Ancestors(t)[n] \in Seq(DOMAIN t)
           /\ Ancestors(t)[n] = IF t[n].parent = NULL THEN <<>>
                                ELSE <<t[n].parent>> \o Ancestors(t)[t[n].parent]
  <1>1. DOMAIN t = 0 .. Cardinality(DOMAIN t) - 1
    BY TreeNodes
  <1> DEFINE b == Cardinality(DOMAIN t) - 1
             a == CHOOSE a : IsAscent(a, t, b)
  <1>2. IsAscent(a, t, b)
    BY AscentExists
  <1>3. Ancestors(t) = a
    BY <1>1 DEF Ancestors, IsAscent
  <1>4. a[n] = IF t[n].parent = NULL THEN <<>> ELSE <<t[n].parent>> \o a[t[n].parent]
    BY <1>1, <1>2 DEF IsAscent
  <1>5. a[n] \in Seq(DOMAIN t)
    BY <1>2, AscentTyped
  <1> QED BY <1>3, <1>4, <1>5

-----------------------------------------------------------------------------
(* The slots of the map *)

LEMMA RootMapped ==
    ASSUME NEW t, IsTree(t)
    PROVE  Root \in Mapped(t)
  <1>1. Ancestors(t)[Root] = <<>> /\ Root \in DOMAIN t
    BY TreeNodes, AncestorsOf
  <1>2. ToSet(Ancestors(t)[Root]) = {}
    BY <1>1 DEF ToSet
  <1> QED BY <1>1, <1>2 DEF Mapped

LEMMA AncestorSet ==
    ASSUME NEW t, IsTree(t), NEW n \in DOMAIN t, t[n].parent # NULL
    PROVE  /\ t[n].parent \in DOMAIN t
           /\ ToSet(Ancestors(t)[n]) = {t[n].parent} \cup ToSet(Ancestors(t)[t[n].parent])
  <1>1. t[n].parent \in DOMAIN t
    BY TreeNodes, Children
  <1>2. PICK p \in DOMAIN t : p = t[n].parent
    BY <1>1
  <1>3. PICK a \in Seq(DOMAIN t) : a = Ancestors(t)[p]
    BY AncestorsOf
  <1>4. Ancestors(t)[n] = <<p>> \o a
    BY <1>2, <1>3, AncestorsOf
  <1>5. ToSet(<<p>> \o a) = {p} \cup ToSet(a)
    <2> DEFINE s == <<p>> \o a
    <2>1. /\ <<p>> \in Seq(DOMAIN t) /\ Len(<<p>>) = 1 /\ <<p>>[1] = p /\ Len(a) \in Nat
          /\ DOMAIN a = 1 .. Len(a)
      OBVIOUS
    <2>2. Len(s) = 1 + Len(a) /\ s \in Seq(DOMAIN t) /\ s[1] = p /\ DOMAIN s = 1 .. Len(s)
      BY <2>1
    <2>3. \A i \in 1 .. Len(a) : s[i + 1] = a[i]
      BY <2>1
    <2>4. \A i \in 1 .. Len(s) : i = 1 \/ (i - 1 \in 1 .. Len(a) /\ (i - 1) + 1 = i)
      BY <2>1, <2>2
    <2>5. \A i \in 1 .. Len(a) : i + 1 \in 1 .. Len(s)
      BY <2>1, <2>2
    <2> HIDE DEF s
    <2>6. ToSet(s) \subseteq {p} \cup ToSet(a)
      <3> SUFFICES ASSUME NEW i \in 1 .. Len(s), i # 1
                   PROVE  s[i] \in ToSet(a)
        BY <2>2 DEF ToSet
      <3>1. i - 1 \in 1 .. Len(a) /\ (i - 1) + 1 = i
        BY <2>4
      <3>2. s[(i - 1) + 1] = a[i - 1]
        BY <2>3, <3>1
      <3> QED BY <2>1, <3>1, <3>2 DEF ToSet
    <2>7. p \in ToSet(s) /\ ToSet(a) \subseteq ToSet(s)
      <3>1. 1 \in DOMAIN s
        BY <2>1, <2>2
      <3> QED BY <3>1, <2>1, <2>2, <2>3, <2>5 DEF ToSet
    <2> QED BY <2>6, <2>7 DEF s
  <1> QED BY <1>1, <1>2, <1>3, <1>4, <1>5

LEMMA MappedParent ==
    ASSUME NEW t, IsTree(t), NEW n \in Mapped(t), t[n].parent # NULL
    PROVE  t[n].parent \in Mapped(t) /\ ~IsOpaque(t[t[n].parent])
  <1>1. n \in DOMAIN t /\ \A k \in ToSet(Ancestors(t)[n]) : ~IsOpaque(t[k])
    BY DEF Mapped
  <1> QED BY <1>1, AncestorSet DEF Mapped

LEMMA MappedChild ==
    ASSUME NEW t, IsTree(t), NEW n \in Mapped(t), ~IsOpaque(t[n])
    PROVE  /\ t[n].children \in Seq(Mapped(t))
           /\ \A i \in DOMAIN t[n].children : t[n].children[i] \in Mapped(t)
  <1>1. n \in DOMAIN t /\ \A k \in ToSet(Ancestors(t)[n]) : ~IsOpaque(t[k])
    BY DEF Mapped
  <1>2. ASSUME NEW i \in DOMAIN t[n].children
        PROVE  t[n].children[i] \in Mapped(t)
    <2>1. PICK k \in DOMAIN t : k = t[n].children[i] /\ t[k].parent = n
      BY <1>1, Children
    <2>2. n # NULL
      BY <1>1, TreeNodes DEF NULL
    <2>3. ToSet(Ancestors(t)[k]) = {n} \cup ToSet(Ancestors(t)[n])
      BY <2>1, <2>2, AncestorSet
    <2>4. k \in Mapped(t)
      BY <1>1, <2>3 DEF Mapped
    <2> QED BY <2>1, <2>4
  <1>3. t[n].children \in Seq(Nat)
    BY <1>1, Children
  <1>4. t[n].children \in Seq(Mapped(t))
    BY <1>2, <1>3
  <1> QED BY <1>2, <1>4

LEMMA MappedNodes ==
    ASSUME NEW t, IsTree(t), NEW n \in Mapped(t)
    PROVE  n \in DOMAIN t /\ n \in Nat /\ n # NULL
  <1>1. n \in DOMAIN t
    BY DEF Mapped
  <1> QED BY <1>1, TreeNodes DEF NULL

\* Setting a match changes nothing else.
LEMMA MatchedSlots ==
    ASSUME NEW t, NEW u, NEW x \in Slots(t, u), Signs(x, t), NEW n \in Mapped(t),
           NEW k \in Mapped(u) \cup {NULL}
    PROVE  /\ Matched(x, n, k) \in Slots(t, u) /\ Signs(Matched(x, n, k), t)
           /\ Matched(x, n, k)[n].match = k
           /\ \A m \in Mapped(t) : m # n => Matched(x, n, k)[m] = x[m]
           /\ \A m \in Mapped(t) : Matched(x, n, k)[m].sig = x[m].sig
  <1> DEFINE R == [sig : {Signatures(t)[m] : m \in DOMAIN t},
                   weight : {Weights(t)[m] : m \in DOMAIN t},
                   match : Mapped(u) \cup {NULL}]
             y == Matched(x, n, k)
  <1>1. x \in [Mapped(t) -> R]
    BY DEF Slots
  <1>2. [x[n] EXCEPT !.match = k] \in R /\ [x[n] EXCEPT !.match = k].sig = x[n].sig
        /\ [x[n] EXCEPT !.match = k].match = k
    BY <1>1
  <1>3. y = [m \in Mapped(t) |-> IF m = n THEN [x[n] EXCEPT !.match = k] ELSE x[m]]
    BY <1>1 DEF Matched
  <1> HIDE DEF R, y
  <1>4. y \in [Mapped(t) -> R]
    BY <1>1, <1>2, <1>3
  <1>5. y[n].match = k /\ y[n].sig = x[n].sig
    BY <1>2, <1>3
  <1>6. \A m \in Mapped(t) : m # n => y[m] = x[m]
    BY <1>3
  <1>7. \A m \in Mapped(t) : y[m].sig = x[m].sig
    BY <1>5, <1>6
  <1> QED BY <1>4, <1>5, <1>6, <1>7 DEF Slots, Signs, R, y

LEMMA SlotMatch ==
    ASSUME NEW t, NEW u, NEW x \in Slots(t, u), NEW n \in Mapped(t)
    PROVE  x[n].match \in Mapped(u) \cup {NULL} /\ DOMAIN x = Mapped(t)
  BY DEF Slots

LEMMA AssignedSlots ==
    ASSUME NEW t, NEW u
    PROVE  /\ AssignSigs(t) \in Slots(t, u) /\ Signs(AssignSigs(t), t)
           /\ \A n \in Mapped(t) : AssignSigs(t)[n].match = NULL
  <1>1. Mapped(t) \subseteq DOMAIN t
    BY DEF Mapped
  <1>2. AssignSigs(t) = [n \in Mapped(t) |-> [sig |-> Signatures(t)[n],
                                             weight |-> Weights(t)[n], match |-> NULL]]
    BY DEF AssignSigs
  <1> QED BY <1>1, <1>2 DEF Slots, Signs

\* Nodes of one signature are of one type, agree in what MatchEq compares and
\* have as many children, of the same signatures.
LEMMA SameSignature ==
    ASSUME NEW t, IsTree(t), NEW u, IsTree(u), NEW n \in DOMAIN t, NEW o \in DOMAIN u,
           Signatures(t)[n] = Signatures(u)[o]
    PROVE  /\ t[n].type = u[o].type
           /\ t[n].type \in {"LINK", "HEADER", "META", "LISTITEM"} => t[n].attr = u[o].attr
           /\ DOMAIN t[n].children = DOMAIN u[o].children
           /\ \A j \in DOMAIN t[n].children :
                  Signatures(t)[t[n].children[j]] = Signatures(u)[u[o].children[j]]
  <1> DEFINE kt == [j \in DOMAIN t[n].children |-> Signatures(t)[t[n].children[j]]]
             ku == [j \in DOMAIN u[o].children |-> Signatures(u)[u[o].children[j]]]
  <1>1. Signatures(t)[n] = <<t[n].type, Signed(t[n]), kt>>
    BY SignaturesOf
  <1>2. Signatures(u)[o] = <<u[o].type, Signed(u[o]), ku>>
    BY SignaturesOf
  <1> HIDE DEF kt, ku
  <1>3. t[n].type = u[o].type /\ Signed(t[n]) = Signed(u[o]) /\ kt = ku
    <2>1. <<t[n].type, Signed(t[n]), kt>> = <<u[o].type, Signed(u[o]), ku>>
      BY <1>1, <1>2
    <2>2. \A a, b, c, d, e, f : <<a, b, c>> = <<d, e, f>> => a = d /\ b = e /\ c = f
      OBVIOUS
    <2> QED BY ONLY <2>1, <2>2
  <1>4. t[n].type \in {"LINK", "HEADER", "META", "LISTITEM"} => t[n].attr = u[o].attr
    BY <1>3 DEF Signed, SignedTypes, TextTypes
  <1>5. DOMAIN kt = DOMAIN ku /\ DOMAIN kt = DOMAIN t[n].children
        /\ DOMAIN ku = DOMAIN u[o].children
    BY <1>3 DEF kt, ku
  <1>6. \A j \in DOMAIN t[n].children : kt[j] = ku[j]
    BY <1>3
  <1> QED BY <1>3, <1>4, <1>5, <1>6 DEF kt, ku

-----------------------------------------------------------------------------
(* Documents *)

LEMMA RootOf ==
    ASSUME NEW t, IsDocument(t)
    PROVE  /\ IsTree(t) /\ Root \in Mapped(t) /\ Root \in DOMAIN t /\ ~IsOpaque(t[Root])
           /\ \A n \in DOMAIN t : t[n].type = "ROOT" <=> n = Root
  <1>1. IsTree(t) /\ \A n \in DOMAIN t : t[n].type = "ROOT" <=> n = Root
    BY DEF IsDocument
  <1>2. Root \in Mapped(t) /\ Root \in DOMAIN t
    BY <1>1, RootMapped, TreeNodes
  <1> QED BY <1>1, <1>2 DEF IsOpaque

LEMMA FooterOf ==
    ASSUME NEW t, IsDocument(t)
    PROVE  /\ Footer(t) \in Mapped(t) /\ Footer(t) \in DOMAIN t
           /\ t[Footer(t)].type = "DOC_FOOTER" /\ t[Footer(t)].children = <<>>
           /\ t[Footer(t)].parent = Root /\ Footer(t) # Root
           /\ \E i \in DOMAIN t[Root].children : t[Root].children[i] = Footer(t)
           /\ \A n \in DOMAIN t : t[n].type = "DOC_FOOTER" => n = Footer(t)
  <1>0. IsTree(t) /\ Root \in Mapped(t) /\ Root \in DOMAIN t /\ ~IsOpaque(t[Root])
    BY RootOf
  <1>1. PICK f \in ToSet(t[Root].children) :
            /\ t[f].children = <<>>
            /\ \A n \in DOMAIN t : t[n].type = "DOC_FOOTER" <=> n = f
    BY DEF IsDocument
  <1>2. PICK i \in DOMAIN t[Root].children : t[Root].children[i] = f
    BY DEF ToSet
  <1>3. f \in Mapped(t) /\ f \in DOMAIN t /\ t[f].parent = Root
    BY <1>0, <1>2, MappedChild, Children
  <1>4. t[f].type = "DOC_FOOTER"
    BY <1>1, <1>3
  <1>5. Footer(t) = f
    BY <1>1, <1>3, <1>4 DEF Footer
  <1>6. f # Root
    <2>1. t[Root].parent = NULL
      BY <1>0, TreeNodes
    <2> QED BY <1>3, <2>1 DEF Root, NULL
  <1> QED BY <1>1, <1>2, <1>3, <1>4, <1>5, <1>6

\* The footers have one signature, and no other node has it; the same is so
\* for the roots.
LEMMA FooterSignature ==
    ASSUME NEW t, IsDocument(t), NEW u, IsDocument(u)
    PROVE  /\ Signatures(t)[Footer(t)] = Signatures(u)[Footer(u)]
           /\ \A o \in DOMAIN u : Signatures(t)[Footer(t)] = Signatures(u)[o] => o = Footer(u)
           /\ \A o \in DOMAIN u : Signatures(t)[Root] = Signatures(u)[o] => o = Root
  <1>0. IsTree(t) /\ IsTree(u)
    BY DEF IsDocument
  <1>1. ASSUME NEW v, IsDocument(v), IsTree(v)
        PROVE  Signatures(v)[Footer(v)] = <<"DOC_FOOTER", <<>>, [j \in {} |-> Signatures(v)]>>
    <2>1. /\ Footer(v) \in DOMAIN v /\ v[Footer(v)].type = "DOC_FOOTER"
          /\ v[Footer(v)].children = <<>>
      BY <1>1, FooterOf
    <2>2. Signed(v[Footer(v)]) = <<>>
      BY <2>1 DEF Signed, SignedTypes, TextTypes
    <2>3. [j \in DOMAIN v[Footer(v)].children |-> Signatures(v)[v[Footer(v)].children[j]]]
              = [j \in {} |-> Signatures(v)]
      <3>1. DOMAIN v[Footer(v)].children = {}
        BY <2>1
      <3> QED BY <3>1
    <2>4. Signatures(v)[Footer(v)] =
              <<v[Footer(v)].type, Signed(v[Footer(v)]),
                [j \in DOMAIN v[Footer(v)].children
                    |-> Signatures(v)[v[Footer(v)].children[j]]]>>
      BY <1>1, <2>1, SignaturesOf
    <2> QED BY <2>1, <2>2, <2>3, <2>4
  <1>2. [j \in {} |-> Signatures(t)] = [j \in {} |-> Signatures(u)]
    OBVIOUS
  <1>3. Signatures(t)[Footer(t)] = Signatures(u)[Footer(u)]
    BY <1>0, <1>1, <1>2
  <1>4. ASSUME NEW o \in DOMAIN u, Signatures(t)[Footer(t)] = Signatures(u)[o]
        PROVE  o = Footer(u)
    <2>1. Footer(t) \in DOMAIN t /\ t[Footer(t)].type = "DOC_FOOTER"
      BY FooterOf
    <2>2. u[o].type = "DOC_FOOTER"
      BY <1>0, <1>4, <2>1, SameSignature
    <2> QED BY <2>2, FooterOf
  <1>5. ASSUME NEW o \in DOMAIN u, Signatures(t)[Root] = Signatures(u)[o]
        PROVE  o = Root
    <2>1. Root \in DOMAIN t /\ t[Root].type = "ROOT"
      BY RootOf
    <2>2. u[o].type = "ROOT"
      BY <1>0, <1>5, <2>1, SameSignature
    <2> QED BY <2>2, RootOf
  <1> QED BY <1>3, <1>4, <1>5

-----------------------------------------------------------------------------
(* A pair is matched *)

RootsMatched == xnew[Root].match = Root /\ xold[Root].match = Root
RootsFree == xnew[Root].match = NULL /\ xold[Root].match = NULL

\* n gets the match o; the node that had it has none, or, in bottomup, may
\* keep it.
LEMMA PairKeeps ==
    ASSUME MapsTyped, MatchesMutual, MatchesAlike,
           NEW n \in Mapped(new), NEW o \in Mapped(old),
           xnew[n].match = NULL, MatchEq(n, o),
           IsOpaque(old[o]) => xnew[n].sig = xold[o].sig,
           xnew' \in Slots(new, old), Signs(xnew', new), xnew'[n].match = o,
           \A m \in Mapped(new) : m # n /\ m # xold[o].match => xnew'[m] = xnew[m],
           \A m \in Mapped(new) :
               m # n /\ m = xold[o].match => pc = "bottomup" \/ xnew'[m].match = NULL,
           xold' = Matched(xold, o, n), old' = old, new' = new, pc' = pc
    PROVE  MapsTyped' /\ MatchesMutual' /\ MatchesAlike'
  <1>0. /\ xold \in Slots(old, new) /\ Signs(xold, old) /\ xnew \in Slots(new, old)
        /\ Signs(xnew, new) /\ IsTree(old) /\ IsTree(new)
    BY DEF MapsTyped, IsDocument
  <1>1. /\ xold' \in Slots(old, new) /\ Signs(xold', old) /\ xold'[o].match = n
        /\ \A p \in Mapped(old) : p # o => xold'[p] = xold[p]
        /\ \A p \in Mapped(old) : xold'[p].sig = xold[p].sig
    BY <1>0, MatchedSlots
  <1>2. MapsTyped'
    BY <1>1 DEF MapsTyped
  <1>3. /\ DOMAIN xnew = Mapped(new) /\ DOMAIN xold = Mapped(old)
        /\ DOMAIN xnew' = Mapped(new) /\ DOMAIN xold' = Mapped(old)
    BY <1>0, <1>1 DEF Slots
  <1>4. /\ \A m \in Mapped(new) : xnew[m].match \in Mapped(old) \cup {NULL}
        /\ \A p \in Mapped(old) : xold[p].match \in Mapped(new) \cup {NULL}
    BY <1>0, SlotMatch
  <1>5. NULL \notin Mapped(new) /\ NULL \notin Mapped(old)
    BY <1>0, MappedNodes
  <1>6. ASSUME NEW p \in Mapped(old), p # o, xold[p].match # NULL
        PROVE  /\ xold[p].match \in Mapped(new) /\ xold[p].match # n
               /\ xnew'[xold[p].match].match = p /\ xold'[p].match = xold[p].match
    <2>1. xold[p].match \in Mapped(new) /\ xnew[xold[p].match].match = p
      BY <1>3, <1>4, <1>6 DEF MatchesMutual
    <2>2. xold[p].match # n
      BY <2>1, <1>5, <1>6
    <2>3. xold[p].match # xold[o].match
      <3>1. xold[o].match # NULL => xnew[xold[o].match].match = o
        BY <1>3 DEF MatchesMutual
      <3> QED BY <3>1, <2>1, <1>6
    <2>4. xnew'[xold[p].match] = xnew[xold[p].match]
      BY <2>1, <2>2, <2>3
    <2> QED BY <1>1, <1>6, <2>1, <2>2, <2>4
  <1>7. \A p \in Mapped(old) : xold'[p].match # NULL => xnew'[xold'[p].match].match = p
    <2> SUFFICES ASSUME NEW p \in Mapped(old), xold'[p].match # NULL
                 PROVE  xnew'[xold'[p].match].match = p
      OBVIOUS
    <2>1. CASE p = o
      BY <2>1, <1>1
    <2>2. CASE p # o
      BY <2>2, <1>1, <1>6
    <2> QED BY <2>1, <2>2
  <1>8. ASSUME pc \in {"queue", "down", "up", "topdown"}, NEW m \in Mapped(new),
               xnew'[m].match # NULL
        PROVE  xold'[xnew'[m].match].match = m
    <2>1. CASE m = n
      BY <2>1, <1>1
    <2>2. CASE m # n
      <3>1. m # xold[o].match
        BY <1>8, <2>2
      <3>2. xnew'[m] = xnew[m]
        BY <2>2, <3>1
      <3>3. xold[xnew[m].match].match = m /\ xnew[m].match \in Mapped(old)
        BY <1>3, <1>4, <1>8, <3>2 DEF MatchesMutual
      <3>4. xnew[m].match # o
        BY <3>1, <3>3
      <3>5. xold'[xnew[m].match] = xold[xnew[m].match]
        BY <1>1, <3>3, <3>4
      <3> QED BY <3>2, <3>3, <3>5
    <2> QED BY <2>1, <2>2
  <1>9. MatchesMutual'
    BY <1>3, <1>7, <1>8 DEF MatchesMutual
  <1>10. \A m \in Mapped(new) : xnew'[m].sig = xnew[m].sig
    BY <1>0 DEF Signs
  <1>11. ASSUME NEW p \in Mapped(old), xold'[p].match # NULL
         PROVE  /\ MatchEq(xold'[p].match, p)
                /\ IsOpaque(old[p]) => xnew'[xold'[p].match].sig = xold'[p].sig
    <2>1. CASE p = o
      BY <2>1, <1>1, <1>10
    <2>2. CASE p # o
      <3>1. xold'[p] = xold[p] /\ xold[p].match # NULL
        BY <1>1, <1>11, <2>2
      <3>2. /\ MatchEq(xold[p].match, p)
            /\ IsOpaque(old[p]) => xnew[xold[p].match].sig = xold[p].sig
        BY <1>3, <3>1 DEF MatchesAlike
      <3>3. xold[p].match \in Mapped(new)
        BY <1>4, <3>1
      <3> QED BY <1>10, <3>1, <3>2, <3>3
    <2> QED BY <2>1, <2>2
  <1>12. MatchesAlike'
    BY <1>3, <1>11 DEF MatchesAlike, MatchEq
  <1> QED BY <1>2, <1>9, <1>12

\* The match of the roots stays, and they are free as long as n is not one.
LEMMA RootsKeep ==
    ASSUME MapsTyped, MatchesMutual,
           NEW n \in Mapped(new), NEW o \in Mapped(old),
           xnew[n].match = NULL, MatchEq(n, o),
           \A m \in Mapped(new) : m # n /\ m # xold[o].match => xnew'[m] = xnew[m],
           \A m \in Mapped(new) :
               m # n /\ m = xold[o].match => pc = "bottomup" \/ xnew'[m].match = NULL,
           xold' = Matched(xold, o, n)
    PROVE  /\ RootsMatched => RootsMatched'
           /\ RootsFree /\ pc # "bottomup" /\ n # Root => RootsFree'
  <1>0. /\ xold \in Slots(old, new) /\ Signs(xold, old) /\ IsDocument(old) /\ IsDocument(new)
        /\ xnew \in Slots(new, old)
    BY DEF MapsTyped
  <1>1. /\ Root \in Mapped(old) /\ Root \in Mapped(new) /\ IsTree(old) /\ IsTree(new)
        /\ n \in DOMAIN new /\ o \in DOMAIN old
    BY <1>0, RootOf DEF Mapped
  <1>2. \A p \in Mapped(old) : p # o => xold'[p] = xold[p]
    BY <1>0, MatchedSlots
  <1>3. o = Root <=> n = Root
    BY <1>0, <1>1, RootOf DEF MatchEq
  <1>4. DOMAIN xold = Mapped(old) /\ Root # NULL
    BY <1>0 DEF Slots, Root, NULL
  <1>5. ASSUME RootsMatched
        PROVE  RootsMatched'
    <2>1. n # Root /\ o # Root
      BY <1>3, <1>4, <1>5 DEF RootsMatched
    <2>2. xold[o].match # Root
      <3>1. xold[o].match = Root => xnew[Root].match = o
        BY <1>4 DEF MatchesMutual
      <3> QED BY <1>5, <2>1, <3>1 DEF RootsMatched
    <2>3. xnew'[Root] = xnew[Root] /\ xold'[Root] = xold[Root]
      BY <1>1, <1>2, <2>1, <2>2
    <2> QED BY <1>5, <2>3 DEF RootsMatched
  <1>6. ASSUME RootsFree, pc # "bottomup", n # Root
        PROVE  RootsFree'
    <2>1. xold'[Root] = xold[Root]
      BY <1>1, <1>2, <1>3, <1>6
    <2>2. xnew'[Root].match = NULL
      BY <1>1, <1>6 DEF RootsFree
    <2> QED BY <1>6, <2>1, <2>2 DEF RootsFree
  <1> QED BY <1>5, <1>6

-----------------------------------------------------------------------------
(* Lists of nodes *)

Apart(s) == \A i, j \in DOMAIN s : s[i] = s[j] => i = j

LEMMA Popped ==
    ASSUME NEW S, NEW s \in Seq(S), s # <<>>
    PROVE  /\ Head(s) \in S /\ Tail(s) \in Seq(S) /\ 1 \in DOMAIN s /\ Head(s) = s[1]
           /\ \A i \in DOMAIN Tail(s) : i + 1 \in DOMAIN s /\ Tail(s)[i] = s[i + 1]
           /\ \A i \in DOMAIN s : i = 1 \/ (i - 1 \in DOMAIN Tail(s) /\ Tail(s)[i - 1] = s[i])
  <1>1. /\ Len(s) \in Nat \ {0} /\ DOMAIN s = 1 .. Len(s) /\ Tail(s) \in Seq(S)
        /\ Len(Tail(s)) = Len(s) - 1 /\ DOMAIN Tail(s) = 1 .. Len(s) - 1
        /\ Head(s) \in S /\ Head(s) = s[1]
    OBVIOUS
  <1>2. \A i \in 1 .. Len(s) - 1 : Tail(s)[i] = s[i + 1] /\ i + 1 \in 1 .. Len(s)
    BY <1>1
  <1>3. ASSUME NEW i \in 1 .. Len(s), i # 1
        PROVE  i - 1 \in 1 .. Len(s) - 1 /\ Tail(s)[i - 1] = s[i]
    <2>1. i - 1 \in 1 .. Len(s) - 1 /\ (i - 1) + 1 = i
      BY <1>1, <1>3
    <2>2. Tail(s)[i - 1] = s[(i - 1) + 1]
      BY <1>2, <2>1
    <2> QED BY <2>1, <2>2
  <1> QED BY <1>1, <1>2, <1>3

LEMMA PoppedApart ==
    ASSUME NEW S, NEW s \in Seq(S), s # <<>>, Apart(s)
    PROVE  Apart(Tail(s)) /\ \A i \in DOMAIN Tail(s) : Tail(s)[i] # Head(s)
  <1>1. /\ 1 \in DOMAIN s /\ Head(s) = s[1]
        /\ \A i \in DOMAIN Tail(s) : i + 1 \in DOMAIN s /\ Tail(s)[i] = s[i + 1]
        /\ \A i \in DOMAIN Tail(s) : i \in Nat \ {0}
    <2>1. Tail(s) \in Seq(S)
      OBVIOUS
    <2>2. \A i \in DOMAIN Tail(s) : i \in Nat \ {0}
      BY <2>1
    <2> QED BY <2>2, Popped
  <1>2. \A i, j \in DOMAIN Tail(s) : Tail(s)[i] = Tail(s)[j] => i + 1 = j + 1
    BY <1>1 DEF Apart
  <1>3. \A i, j \in DOMAIN Tail(s) : Tail(s)[i] = Tail(s)[j] => i = j
    BY <1>1, <1>2
  <1>4. ASSUME NEW i \in DOMAIN Tail(s), Tail(s)[i] = Head(s)
        PROVE  FALSE
    <2>1. s[i + 1] = s[1] /\ i + 1 \in DOMAIN s
      BY <1>1, <1>4
    <2>2. i + 1 = 1
      BY <1>1, <2>1 DEF Apart
    <2> QED BY <1>1, <2>2
  <1> QED BY <1>3, <1>4 DEF Apart

\* r is s with e in place i.
IsInserted(r, s, i, e) ==
    /\ DOMAIN r = 1 .. Len(s) + 1
    /\ \A j \in 1 .. Len(s) + 1 :
            r[j] = IF j < i THEN s[j] ELSE IF j = i THEN e ELSE s[j - 1]

LEMMA Inserted ==
    ASSUME NEW S, NEW s \in Seq(S), NEW e \in S, NEW i \in 1 .. Len(s) + 1
    PROVE  InsertAt(s, i, e) \in Seq(S) /\ IsInserted(InsertAt(s, i, e), s, i, e)
  <1> DEFINE a == SubSeq(s, 1, i - 1)
             b == SubSeq(s, i, Len(s))
  <1>1. Len(s) \in Nat /\ DOMAIN s = 1 .. Len(s) /\ i \in Nat
    OBVIOUS
  <1>2. a \in Seq(S) /\ Len(a) = i - 1 /\ \A j \in 1 .. i - 1 : a[j] = s[j]
    BY <1>1
  <1>3. b \in Seq(S) /\ Len(b) = Len(s) - i + 1 /\ \A j \in 1 .. Len(s) - i + 1 : b[j] = s[i + j - 1]
    BY <1>1
  <1> HIDE DEF a, b
  <1>4. a \o <<e>> \in Seq(S) /\ Len(a \o <<e>>) = i
        /\ \A j \in 1 .. i : (a \o <<e>>)[j] = IF j < i THEN s[j] ELSE e
    BY <1>1, <1>2
  <1> DEFINE c == a \o <<e>>
             r == c \o b
  <1>5. c \in Seq(S) /\ Len(c) = i /\ \A j \in 1 .. i : c[j] = IF j < i THEN s[j] ELSE e
    BY <1>4
  <1> HIDE DEF c
  <1>6. r \in Seq(S) /\ Len(r) = Len(s) + 1 /\ DOMAIN r = 1 .. Len(s) + 1
    <2>0. c \in Seq(S) /\ b \in Seq(S)
      BY <1>3, <1>5
    <2>1. r \in Seq(S) /\ Len(r) = Len(c) + Len(b)
      BY <2>0
    <2>2. i + (Len(s) - i + 1) = Len(s) + 1
      BY <1>1
    <2>3. Len(r) = Len(s) + 1
      BY <1>3, <1>5, <2>1, <2>2
    <2> QED BY <2>1, <2>3
  <1>7. ASSUME NEW j \in 1 .. Len(s) + 1
        PROVE  r[j] = IF j < i THEN s[j] ELSE IF j = i THEN e ELSE s[j - 1]
    <2>1. CASE j <= i
      <3>1. r[j] = c[j] /\ j \in 1 .. i
        BY <1>1, <1>3, <1>5, <2>1
      <3> QED BY <1>5, <3>1, <2>1
    <2>2. CASE j > i
      <3>1. r[j] = b[j - i] /\ j - i \in 1 .. Len(s) - i + 1 /\ i + (j - i) - 1 = j - 1
        BY <1>1, <1>3, <1>5, <2>2
      <3>2. b[j - i] = s[i + (j - i) - 1]
        BY <1>3, <3>1
      <3> QED BY <1>1, <2>2, <3>1, <3>2
    <2> HIDE DEF r
    <2> QED BY <1>1, <2>1, <2>2
  <1>8. InsertAt(s, i, e) = r
    BY DEF InsertAt, a, b, c
  <1>9. IsInserted(r, s, i, e)
    BY <1>6, <1>7 DEF IsInserted
  <1> QED BY <1>6, <1>8, <1>9

LEMMA InsertedApart ==
    ASSUME NEW S, NEW s \in Seq(S), NEW e \in S, NEW i \in 1 .. Len(s) + 1,
           Apart(s), \A j \in DOMAIN s : s[j] # e
    PROVE  /\ Apart(InsertAt(s, i, e))
           /\ \A j \in DOMAIN InsertAt(s, i, e) :
                InsertAt(s, i, e)[j] = e \/ \E k \in DOMAIN s : InsertAt(s, i, e)[j] = s[k]
           /\ \E j \in DOMAIN InsertAt(s, i, e) : InsertAt(s, i, e)[j] = e
           /\ \A k \in DOMAIN s : \E j \in DOMAIN InsertAt(s, i, e) : InsertAt(s, i, e)[j] = s[k]
  <1> DEFINE r == InsertAt(s, i, e)
             From(j) == IF j < i THEN j ELSE j - 1
  <1>1. /\ DOMAIN r = 1 .. Len(s) + 1 /\ Len(s) \in Nat /\ DOMAIN s = 1 .. Len(s)
        /\ \A j \in 1 .. Len(s) + 1 : r[j] = IF j < i THEN s[j] ELSE IF j = i THEN e ELSE s[j - 1]
    <2>1. IsInserted(r, s, i, e)
      BY Inserted
    <2>2. Len(s) \in Nat /\ DOMAIN s = 1 .. Len(s)
      OBVIOUS
    <2> HIDE DEF r
    <2> QED BY <2>1, <2>2 DEF IsInserted
  <1> HIDE DEF r
  <1>2. r[i] = e /\ i \in DOMAIN r
    BY <1>1
  <1>3. ASSUME NEW j \in DOMAIN r, j # i
        PROVE  From(j) \in DOMAIN s /\ r[j] = s[From(j)] /\ r[j] # e
    <2>1. From(j) \in DOMAIN s /\ r[j] = s[From(j)]
      BY <1>1, <1>3
    <2> QED BY <2>1
  <1>4. Apart(r)
    <2> SUFFICES ASSUME NEW j \in DOMAIN r, NEW k \in DOMAIN r, r[j] = r[k]
                 PROVE  j = k
      BY DEF Apart
    <2>1. CASE j = i \/ k = i
      BY <1>2, <1>3, <2>1
    <2>2. CASE j # i /\ k # i
      <3>1. From(j) \in DOMAIN s /\ r[j] = s[From(j)]
        BY <1>3, <2>2
      <3>2. From(k) \in DOMAIN s /\ r[k] = s[From(k)]
        BY <1>3, <2>2
      <3>3. From(j) = From(k)
        BY <3>1, <3>2 DEF Apart
      <3> QED BY <1>1, <2>2, <3>3
    <2> QED BY <2>1, <2>2
  <1>5. ASSUME NEW k \in DOMAIN s
        PROVE  \E j \in DOMAIN r : r[j] = s[k]
    <2>1. CASE k < i
      <3>1. k \in 1 .. Len(s) + 1 /\ r[k] = s[k]
        BY <1>1, <2>1
      <3> QED BY <1>1, <3>1
    <2>2. CASE k >= i
      <3>1. k + 1 \in 1 .. Len(s) + 1 /\ ~(k + 1 < i) /\ k + 1 # i /\ (k + 1) - 1 = k
        BY <1>1, <2>2
      <3>2. r[k + 1] = s[(k + 1) - 1]
        BY <1>1, <3>1
      <3> QED BY <1>1, <3>1, <3>2
    <2> QED BY <1>1, <2>1, <2>2
  <1>6. \A j \in DOMAIN r : r[j] = e \/ \E k \in DOMAIN s : r[j] = s[k]
    BY <1>2, <1>3
  <1> QED BY <1>2, <1>4, <1>5, <1>6 DEF r

-----------------------------------------------------------------------------
(* The untouched nodes *)

\* The node at the top of them is taken out.
LEMMA TopTaken ==
    ASSUME IsTree(new), NEW U, Untouched(U), NEW n, OnTop(U, n)
    PROVE  /\ U \ {n} \subseteq Mapped(new)
           /\ \A k \in U \ {n} :
                ~IsOpaque(new[k]) => ToSet(new[k].children) \subseteq U \ {n}
           /\ \A m : OnTop(U, m) /\ m # n => OnTop(U \ {n}, m)
           /\ n \in Mapped(new) /\ new[n].parent \notin U /\ xnew[n].match = NULL
           /\ ~IsOpaque(new[n]) =>
                \A i \in DOMAIN new[n].children :
                    OnTop(U \ {n}, new[n].children[i]) /\ ~OnTop(U, new[n].children[i])
  <1>1. /\ U \subseteq Mapped(new) /\ n \in U /\ new[n].parent \notin U /\ xnew[n].match = NULL
        /\ \A k \in U : k \in DOMAIN new
        /\ \A k \in U : ~IsOpaque(new[k]) => ToSet(new[k].children) \subseteq U
    BY DEF Untouched, OnTop, Mapped
  <1>2. ASSUME NEW k \in U \ {n}, ~IsOpaque(new[k]), NEW c \in ToSet(new[k].children)
        PROVE  c \in U \ {n}
    <2>1. c \in U
      BY <1>1, <1>2
    <2>2. PICK i \in DOMAIN new[k].children : c = new[k].children[i]
      BY DEF ToSet
    <2>3. new[c].parent = k
      BY <1>1, <2>2, Children
    <2> QED BY <1>1, <2>1, <2>3
  <1>3. \A m : OnTop(U, m) /\ m # n => OnTop(U \ {n}, m)
    BY DEF OnTop
  <1>4. ASSUME ~IsOpaque(new[n]), NEW i \in DOMAIN new[n].children
        PROVE  OnTop(U \ {n}, new[n].children[i]) /\ ~OnTop(U, new[n].children[i])
    <2>1. new[n].children[i] \in U
      BY <1>1, <1>4 DEF ToSet
    <2>2. /\ new[new[n].children[i]].parent = n /\ n < new[n].children[i]
          /\ n \in Nat
      BY <1>1, Children
    <2>3. n # new[n].children[i]
      BY <2>2
    <2> QED BY <1>1, <2>1, <2>2, <2>3 DEF OnTop
  <1> QED BY <1>1, <1>2, <1>3, <1>4

-----------------------------------------------------------------------------
(* The queue *)

LEMMA SameMaps ==
    ASSUME MapsTyped, MatchesMutual, MatchesAlike,
           old' = old, new' = new, xold' = xold, xnew' = xnew,
           pc' \in {"queue", "down", "up", "topdown", "bottomup", "merge", "returned"},
           pc' \in {"queue", "down", "up", "topdown"} => pc \in {"queue", "down", "up", "topdown"}
    PROVE  /\ MapsTyped' /\ MatchesMutual' /\ MatchesAlike'
           /\ RootsMatched => RootsMatched'
           /\ RootsFree => RootsFree'
  <1>1. MapsTyped'
    BY DEF MapsTyped
  <1>2. MatchesMutual'
    BY DEF MatchesMutual
  <1>3. MatchesAlike'
    BY DEF MatchesAlike, MatchEq
  <1> QED BY <1>1, <1>2, <1>3 DEF RootsMatched, RootsFree

\* What the types say of the maps.
LEMMA Typed ==
    ASSUME MapsTyped
    PROVE  /\ IsDocument(old) /\ IsDocument(new) /\ IsTree(old) /\ IsTree(new)
           /\ xold \in Slots(old, new) /\ Signs(xold, old)
           /\ xnew \in Slots(new, old) /\ Signs(xnew, new)
           /\ DOMAIN xnew = Mapped(new) /\ DOMAIN xold = Mapped(old)
           /\ \A m \in Mapped(new) : m \in DOMAIN new /\ m # NULL
           /\ \A p \in Mapped(old) : p \in DOMAIN old /\ p # NULL
           /\ \A m \in Mapped(new) : xnew[m].match \in Mapped(old) \cup {NULL}
           /\ \A p \in Mapped(old) : xold[p].match \in Mapped(new) \cup {NULL}
  <1>1. /\ IsDocument(old) /\ IsDocument(new) /\ IsTree(old) /\ IsTree(new)
        /\ xold \in Slots(old, new) /\ Signs(xold, old)
        /\ xnew \in Slots(new, old) /\ Signs(xnew, new)
    BY DEF MapsTyped, IsDocument
  <1>2. DOMAIN xnew = Mapped(new) /\ DOMAIN xold = Mapped(old)
    BY <1>1 DEF Slots
  <1>3. /\ \A m \in Mapped(new) : xnew[m].match \in Mapped(old) \cup {NULL}
        /\ \A p \in Mapped(old) : xold[p].match \in Mapped(new) \cup {NULL}
    BY <1>1, SlotMatch
  <1>4. /\ \A m \in Mapped(new) : m \in DOMAIN new /\ m # NULL
        /\ \A p \in Mapped(old) : p \in DOMAIN old /\ p # NULL
    BY <1>1, MappedNodes
  <1> QED BY <1>1, <1>2, <1>3, <1>4

\* A footer that waits finds the other one.
LEMMA FooterFound ==
    ASSUME MapsTyped, MatchesMutual, MatchesAlike, xnew[Footer(new)].match = NULL
    PROVE  Footer(old) \in Candidates(Footer(new))
  <1>1. /\ Footer(old) \in Mapped(old) /\ Footer(new) \in Mapped(new)
        /\ old[Footer(old)].type = "DOC_FOOTER"
        /\ \A n \in DOMAIN new : new[n].type = "DOC_FOOTER" => n = Footer(new)
    BY Typed, FooterOf
  <1>2. xold[Footer(old)].match = NULL
    <2> SUFFICES ASSUME xold[Footer(old)].match # NULL
                 PROVE  FALSE
      OBVIOUS
    <2>1. PICK m \in Mapped(new) : m = xold[Footer(old)].match
      BY <1>1, Typed
    <2>2. MatchEq(m, Footer(old)) /\ xnew[m].match = Footer(old)
      BY <1>1, <2>1, Typed DEF MatchesAlike, MatchesMutual
    <2>3. m = Footer(new)
      BY <1>1, <2>1, <2>2, Typed DEF MatchEq
    <2> QED BY <1>1, <2>2, <2>3, Typed
  <1>3. xold[Footer(old)].sig = xnew[Footer(new)].sig
    <2>1. Signatures(new)[Footer(new)] = Signatures(old)[Footer(old)]
      BY Typed, FooterSignature
    <2> QED BY <1>1, <2>1, Typed DEF Signs
  <1> QED BY <1>1, <1>2, <1>3, Typed DEF Candidates

LEMMA NoMatchKeeps ==
    ASSUME MatchInv, NoMatch
    PROVE  MatchInv'
  <1> DEFINE n == Head(pq)
             kids == new[n].children
  <1>1. /\ MapsTyped /\ ListsTyped /\ Phase /\ DownAlike /\ SibsBelow /\ RootsMeet
        /\ MatchesMutual /\ MatchesAlike
    BY DEF MatchInv
  <1>2. PICK U \in SUBSET Mapped(new) : Untouched(U) /\ Waits(U)
    BY DEF MatchInv
  <1>3. /\ pc = "queue" /\ walk = <<>> /\ pq # <<>> /\ Candidates(n) = {}
        /\ pq' = Tail(pq) /\ walk' = IF IsOpaque(new[n]) THEN <<>> ELSE kids
        /\ UNCHANGED <<pc, old, new, xold, xnew, down, climb, sibs>>
    BY DEF NoMatch
  <1>4. pq \in Seq(Mapped(new)) /\ down = <<>> /\ sibs = <<>>
    BY <1>1, <1>3 DEF ListsTyped, Phase
  <1>5. /\ n \in Mapped(new) /\ pq' \in Seq(Mapped(new)) /\ 1 \in DOMAIN pq /\ n = pq[1]
        /\ \A i \in DOMAIN pq' : i + 1 \in DOMAIN pq /\ pq'[i] = pq[i + 1]
        /\ \A i \in DOMAIN pq : i = 1 \/ (i - 1 \in DOMAIN pq' /\ pq'[i - 1] = pq[i])
    BY <1>3, <1>4, Popped
  <1>6. Apart(pq) /\ \A i \in DOMAIN pq : OnTop(U, pq[i])
    BY <1>2 DEF Waits, Apart
  <1>7. Apart(pq') /\ \A i \in DOMAIN pq' : pq'[i] # n
    BY <1>3, <1>4, <1>6, PoppedApart
  <1>8. OnTop(U, n)
    BY <1>5, <1>6
  <1>0. PICK V : V = U \ {n}
    OBVIOUS
  <1>9. /\ V \subseteq Mapped(new)
        /\ \A k \in V : ~IsOpaque(new[k]) => ToSet(new[k].children) \subseteq V
        /\ \A m : OnTop(U, m) /\ m # n => OnTop(V, m)
        /\ ~IsOpaque(new[n]) =>
                \A i \in DOMAIN kids : OnTop(V, kids[i]) /\ ~OnTop(U, kids[i])
    BY <1>0, <1>1, <1>2, <1>8, Typed, TopTaken
  <1>10. Untouched(V)'
    <2>1. \A k \in V : xnew[k].match = NULL
      BY <1>0, <1>2 DEF Untouched
    <2> QED BY <1>3, <1>9, <2>1 DEF Untouched
  <1>11. \A i \in DOMAIN walk' : ~IsOpaque(new[n]) /\ walk' = kids
    BY <1>3
  <1>12. Waits(V)'
    <2>1. \A i \in DOMAIN pq' : OnTop(V, pq'[i]) /\ OnTop(U, pq'[i])
      BY <1>5, <1>6, <1>7, <1>9
    <2>2. \A i \in DOMAIN walk' : OnTop(V, walk'[i]) /\ ~OnTop(U, walk'[i])
      BY <1>9, <1>11
    <2>3. \A i, j \in DOMAIN walk' : walk'[i] = walk'[j] => i = j
      BY <1>1, <1>5, <1>11, Typed, Children
    <2>4. \A i \in DOMAIN walk', j \in DOMAIN pq' : walk'[i] # pq'[j]
      BY <2>1, <2>2
    <2>5. \A i, j \in DOMAIN pq' : pq'[i] = pq'[j] => i = j
      BY <1>7 DEF Apart
    <2>6. \A m : OnTop(V, m)' <=> OnTop(V, m)
      BY <1>3 DEF OnTop
    <2> QED BY <1>3, <2>1, <2>2, <2>3, <2>4, <2>5, <2>6 DEF Waits
  <1>13. ListsTyped'
    <2>1. walk' \in Seq(Mapped(new))
      <3>1. CASE IsOpaque(new[n])
        BY <1>3, <3>1
      <3>2. CASE ~IsOpaque(new[n])
        BY <1>1, <1>3, <1>5, <3>2, Typed, MappedChild
      <3> QED BY <3>1, <3>2
    <2> QED BY <1>1, <1>3, <1>5, <2>1 DEF ListsTyped
  <1>14. Phase' /\ DownAlike' /\ SibsBelow'
    BY <1>1, <1>3 DEF Phase, DownAlike, SibsBelow
  <1>15. /\ MapsTyped' /\ MatchesMutual' /\ MatchesAlike'
         /\ RootsMatched => RootsMatched'
         /\ RootsFree => RootsFree'
    BY <1>1, <1>3, SameMaps DEF MapsTyped
  <1>16. RootsMeet'
    <2>1. CASE RootsMatched
      BY <1>15, <2>1 DEF RootsMeet, RootsMatched
    <2>2. CASE ~RootsMatched
      <3>1. RootsFree /\ \E i \in DOMAIN pq : pq[i] \in {Root, Footer(new)}
        BY <1>1, <1>3, <2>2 DEF RootsMeet, RootsMatched, RootsFree
      <3>2. PICK i \in DOMAIN pq : pq[i] \in {Root, Footer(new)}
        BY <3>1
      <3>3. RootsFree' /\ pc' = "queue" /\ Footer(new)' = Footer(new)
        BY <1>3, <1>15, <3>1 DEF Footer
      <3>4. CASE i # 1
        <4>1. i - 1 \in DOMAIN pq' /\ pq'[i - 1] \in {Root, Footer(new)}
          BY <1>5, <3>2, <3>4
        <4> QED BY <3>3, <4>1 DEF RootsMeet, RootsFree
      <3>5. CASE i = 1 /\ n = Footer(new)
        <4>1. xnew[Footer(new)].match = NULL
          BY <1>2, <1>8, <3>5 DEF Untouched, OnTop
        <4>2. Footer(old) \in Candidates(n)
          BY <1>1, <3>5, <4>1, FooterFound
        <4> QED BY <1>3, <4>2
      <3>6. CASE n = Root
        <4>1. ~IsOpaque(new[n]) /\ \E j \in DOMAIN kids : kids[j] = Footer(new)
          BY <1>1, <3>6, Typed, RootOf, FooterOf
        <4>2. \E j \in DOMAIN walk' : walk'[j] = Footer(new)
          BY <1>3, <4>1
        <4> QED BY <3>3, <4>2 DEF RootsMeet, RootsFree
      <3> QED BY <1>5, <3>2, <3>4, <3>5, <3>6
    <2> QED BY <2>1, <2>2
  <1>17. V \in SUBSET Mapped(new)'
    BY <1>3, <1>9
  <1> QED BY <1>10, <1>12, <1>13, <1>14, <1>15, <1>16, <1>17 DEF MatchInv

LEMMA QueueChildKeeps ==
    ASSUME MatchInv, QueueChild
    PROVE  MatchInv'
  <1>1. /\ MapsTyped /\ ListsTyped /\ Phase /\ DownAlike /\ SibsBelow /\ RootsMeet
        /\ MatchesMutual /\ MatchesAlike
    BY DEF MatchInv
  <1>2. PICK U \in SUBSET Mapped(new) : Untouched(U) /\ Waits(U)
    BY DEF MatchInv
  <1>3. /\ pc = "queue" /\ walk # <<>> /\ walk' = Tail(walk)
        /\ UNCHANGED <<pc, old, new, xold, xnew, down, climb, sibs>>
    BY DEF QueueChild
  <1>4. PICK l \in 1 .. Len(pq) + 1 : pq' = InsertAt(pq, l, Head(walk))
    BY DEF QueueChild
  <1>5. /\ pq \in Seq(Mapped(new)) /\ walk \in Seq(Mapped(new))
        /\ Apart(pq) /\ \A i \in DOMAIN pq : OnTop(U, pq[i])
        /\ Apart(walk) /\ \A i \in DOMAIN walk : OnTop(U, walk[i])
        /\ \A i \in DOMAIN walk, j \in DOMAIN pq : walk[i] # pq[j]
    BY <1>1, <1>2, <1>3 DEF ListsTyped, Waits, Apart
  <1>6. PICK e \in Mapped(new) : e = Head(walk)
    BY <1>3, <1>5, Popped
  <1>7. /\ walk' \in Seq(Mapped(new)) /\ 1 \in DOMAIN walk /\ e = walk[1]
        /\ \A i \in DOMAIN walk' : i + 1 \in DOMAIN walk /\ walk'[i] = walk[i + 1]
        /\ \A i \in DOMAIN walk : i = 1 \/ (i - 1 \in DOMAIN walk' /\ walk'[i - 1] = walk[i])
    BY <1>3, <1>5, <1>6, Popped
  <1>8. Apart(walk') /\ \A i \in DOMAIN walk' : walk'[i] # e
    BY <1>3, <1>5, <1>6, PoppedApart
  <1>9. \A j \in DOMAIN pq : pq[j] # e
    BY <1>5, <1>7
  <1>10. pq' \in Seq(Mapped(new))
    BY <1>4, <1>5, <1>6, Inserted
  <1>11. /\ Apart(pq') /\ \A j \in DOMAIN pq' : pq'[j] = e \/ \E k \in DOMAIN pq : pq'[j] = pq[k]
         /\ \E j \in DOMAIN pq' : pq'[j] = e
         /\ \A k \in DOMAIN pq : \E j \in DOMAIN pq' : pq'[j] = pq[k]
    <2>1. pq' = InsertAt(pq, l, e)
      BY <1>4, <1>6
    <2> QED BY <1>5, <1>9, <2>1, InsertedApart
  <1>12. Untouched(U)'
    BY <1>2, <1>3 DEF Untouched
  <1>13. Waits(U)'
    <2>1. \A j \in DOMAIN pq' : OnTop(U, pq'[j])
      BY <1>5, <1>7, <1>11
    <2>2. \A i \in DOMAIN walk' : OnTop(U, walk'[i])
      BY <1>5, <1>7
    <2>3. \A i \in DOMAIN walk', j \in DOMAIN pq' : walk'[i] # pq'[j]
      BY <1>5, <1>7, <1>8, <1>11
    <2>4. \A i, j \in DOMAIN pq' : pq'[i] = pq'[j] => i = j
      BY <1>11 DEF Apart
    <2>5. \A i, j \in DOMAIN walk' : walk'[i] = walk'[j] => i = j
      BY <1>8 DEF Apart
    <2>6. \A m : OnTop(U, m)' <=> OnTop(U, m)
      BY <1>3 DEF OnTop
    <2> QED BY <1>3, <2>1, <2>2, <2>3, <2>4, <2>5, <2>6 DEF Waits
  <1>14. ListsTyped'
    BY <1>1, <1>3, <1>7, <1>10 DEF ListsTyped
  <1>15. Phase' /\ DownAlike' /\ SibsBelow'
    BY <1>1, <1>3 DEF Phase, DownAlike, SibsBelow
  <1>16. /\ MapsTyped' /\ MatchesMutual' /\ MatchesAlike'
         /\ RootsMatched => RootsMatched'
         /\ RootsFree => RootsFree'
    BY <1>1, <1>3, SameMaps DEF MapsTyped
  <1>17. RootsMeet'
    <2>1. CASE RootsMatched
      BY <1>16, <2>1 DEF RootsMeet, RootsMatched
    <2>2. CASE ~RootsMatched
      <3>1. /\ RootsFree
            /\ \/ \E i \in DOMAIN pq : pq[i] \in {Root, Footer(new)}
               \/ \E i \in DOMAIN walk : walk[i] = Footer(new)
        BY <1>1, <1>3, <2>2 DEF RootsMeet, RootsMatched, RootsFree
      <3>2. RootsFree' /\ pc' = "queue" /\ Footer(new)' = Footer(new)
        BY <1>3, <1>16, <3>1 DEF Footer
      <3>3. \/ \E j \in DOMAIN pq' : pq'[j] \in {Root, Footer(new)}
            \/ \E i \in DOMAIN walk' : walk'[i] = Footer(new)
        BY <1>7, <1>11, <3>1
      <3> QED BY <3>2, <3>3 DEF RootsMeet, RootsFree
    <2> QED BY <2>1, <2>2
  <1>18. U \in SUBSET Mapped(new)'
    BY <1>2, <1>3
  <1> QED BY <1>12, <1>13, <1>14, <1>15, <1>16, <1>17, <1>18 DEF MatchInv

LEMMA MatchBestKeeps ==
    ASSUME MatchInv, MatchBest
    PROVE  MatchInv'
  <1>1. /\ MapsTyped /\ ListsTyped /\ Phase /\ DownAlike /\ SibsBelow /\ RootsMeet
        /\ MatchesMutual /\ MatchesAlike
    BY DEF MatchInv
  <1>2. PICK U \in SUBSET Mapped(new) : Untouched(U) /\ Waits(U)
    BY DEF MatchInv
  <1>3. /\ pc = "queue" /\ walk = <<>> /\ pq # <<>> /\ pq' = Tail(pq) /\ pc' = "down"
        /\ UNCHANGED <<old, new, xold, xnew, walk, sibs>>
    BY DEF MatchBest
  <1>4. /\ pq \in Seq(Mapped(new)) /\ sibs = <<>>
        /\ Apart(pq) /\ \A i \in DOMAIN pq : OnTop(U, pq[i])
    BY <1>1, <1>2, <1>3 DEF ListsTyped, Phase, Waits, Apart
  <1>5. PICK n \in Mapped(new) : n = Head(pq)
    BY <1>3, <1>4, Popped
  <1>6. PICK o \in Candidates(n) :
            down' = << <<n, o>> >> /\ climb' = [n |-> n, o |-> o, left |-> Height(n)]
    BY <1>5 DEF MatchBest
  <1>7. /\ pq' \in Seq(Mapped(new)) /\ 1 \in DOMAIN pq /\ n = pq[1]
        /\ \A i \in DOMAIN pq' : i + 1 \in DOMAIN pq /\ pq'[i] = pq[i + 1]
        /\ \A i \in DOMAIN pq : i = 1 \/ (i - 1 \in DOMAIN pq' /\ pq'[i - 1] = pq[i])
    BY <1>3, <1>4, <1>5, Popped
  <1>8. Apart(pq') /\ \A i \in DOMAIN pq' : pq'[i] # n
    BY <1>3, <1>4, <1>5, PoppedApart
  <1>9. o \in Mapped(old) /\ xold[o].sig = xnew[n].sig /\ xold[o].match = NULL
    BY <1>1, Typed DEF Candidates
  <1>10. /\ DOMAIN down' = {1} /\ down'[1] = <<n, o>>
         /\ climb'.n = n /\ climb'.o = o /\ climb'.left = Height(n)
    BY <1>6
  <1>11. Untouched(U)'
    BY <1>2, <1>3 DEF Untouched
  <1>12. Waits(U)'
    <2>1. \A j \in DOMAIN pq' : OnTop(U, pq'[j])
      BY <1>4, <1>7
    <2>2. OnTop(U, n) /\ new[n].parent \notin U
      BY <1>4, <1>7 DEF OnTop
    <2>3. \A i, j \in DOMAIN pq' : pq'[i] = pq'[j] => i = j
      BY <1>8 DEF Apart
    <2>4. \A m : OnTop(U, m)' <=> OnTop(U, m)
      BY <1>3 DEF OnTop
    <2>5. \A i \in DOMAIN down' : i = 1 /\ down'[i][1] = n
      BY <1>10
    <2>6. Mapped(new)' = Mapped(new) /\ new' = new
      BY <1>3
    <2> QED BY <1>3, <1>8, <1>10, <2>1, <2>2, <2>3, <2>4, <2>5, <2>6 DEF Waits
  <1>13. ListsTyped'
    <2>1. <<n, o>> \in Mapped(new) \X Mapped(old)
      BY <1>9
    <2>2. down' \in Seq(Mapped(new) \X Mapped(old))
      BY <1>6, <2>1
    <2> QED BY <1>1, <1>3, <1>7, <2>2 DEF ListsTyped
  <1>14. Phase' /\ SibsBelow'
    BY <1>1, <1>3, <1>4 DEF Phase, SibsBelow
  <1>15. DownAlike'
    <2>1. \A i \in DOMAIN down' : down'[i][1] = n /\ down'[i][2] = o
      BY <1>10
    <2> QED BY <1>3, <1>9, <1>10, <2>1 DEF DownAlike
  <1>16. /\ MapsTyped' /\ MatchesMutual' /\ MatchesAlike'
         /\ RootsMatched => RootsMatched'
         /\ RootsFree => RootsFree'
    BY <1>1, <1>3, SameMaps
  <1>17. RootsMeet'
    <2>1. CASE RootsMatched
      BY <1>16, <2>1 DEF RootsMeet, RootsMatched
    <2>2. CASE ~RootsMatched
      <3>1. /\ RootsFree /\ \E i \in DOMAIN pq : pq[i] \in {Root, Footer(new)}
        BY <1>1, <1>3, <2>2 DEF RootsMeet, RootsMatched, RootsFree
      <3>2. RootsFree' /\ Footer(new)' = Footer(new) /\ Footer(old)' = Footer(old)
        BY <1>3, <1>16, <3>1 DEF Footer
      <3>3. PICK i \in DOMAIN pq : pq[i] \in {Root, Footer(new)}
        BY <3>1
      <3>4. CASE i # 1
        <4>1. i - 1 \in DOMAIN pq' /\ pq'[i - 1] \in {Root, Footer(new)}
          BY <1>7, <3>3, <3>4
        <4> QED BY <1>3, <3>2, <4>1 DEF RootsMeet, RootsFree
      <3>5. Signatures(new)[n] = Signatures(old)[o] /\ o \in DOMAIN old
        BY <1>1, <1>9, Typed DEF Signs
      <3>6. CASE n = Root
        <4>1. o = Root
          BY <1>1, <3>5, <3>6, Typed, FooterSignature
        <4> QED BY <1>3, <1>6, <3>2, <3>6, <4>1 DEF RootsMeet, RootsFree
      <3>7. CASE n = Footer(new)
        <4>1. o = Footer(old)
          BY <1>1, <3>5, <3>7, Typed, FooterSignature
        <4>2. climb'.left # 0
          BY <1>10 DEF Height
        <4> QED BY <1>3, <1>10, <3>2, <3>7, <4>1, <4>2 DEF RootsMeet, RootsFree
      <3> QED BY <1>7, <3>3, <3>4, <3>6, <3>7
    <2> QED BY <2>1, <2>2
  <1>18. U \in SUBSET Mapped(new)'
    BY <1>2, <1>3
  <1> QED BY <1>11, <1>12, <1>13, <1>14, <1>15, <1>16, <1>17, <1>18 DEF MatchInv

-----------------------------------------------------------------------------
(* match_down and match_up *)

LEMMA Joined ==
    ASSUME NEW S, NEW s \in Seq(S), NEW r \in Seq(S)
    PROVE  /\ s \o r \in Seq(S) /\ Len(s) \in Nat
           /\ \A i \in DOMAIN (s \o r) :
                \/ i \in DOMAIN s /\ (s \o r)[i] = s[i]
                \/ i - Len(s) \in DOMAIN r /\ (s \o r)[i] = r[i - Len(s)] /\ i \in Nat
  <1>1. /\ s \o r \in Seq(S) /\ Len(s) \in Nat /\ Len(r) \in Nat
        /\ DOMAIN s = 1 .. Len(s) /\ DOMAIN r = 1 .. Len(r)
        /\ Len(s \o r) = Len(s) + Len(r) /\ DOMAIN (s \o r) = 1 .. Len(s) + Len(r)
    OBVIOUS
  <1>2. \A i \in 1 .. Len(s) + Len(r) :
            (s \o r)[i] = IF i <= Len(s) THEN s[i] ELSE r[i - Len(s)]
    BY <1>1
  <1>3. \A i \in 1 .. Len(s) + Len(r) :
            \/ i \in 1 .. Len(s) /\ i <= Len(s)
            \/ i - Len(s) \in 1 .. Len(r) /\ ~(i <= Len(s)) /\ i \in Nat
    BY <1>1
  <1> QED BY <1>1, <1>2, <1>3

Freed(o) ==
    IF xold[o].match = NULL THEN xnew ELSE Matched(xnew, xold[o].match, NULL)

Pairs(n, o) ==
    IF IsOpaque(new[n]) THEN <<>>
    ELSE [j \in DOMAIN new[n].children |-> <<new[n].children[j], old[o].children[j]>>]

LEMMA MatchDownKeeps ==
    ASSUME MatchInv, MatchDown
    PROVE  MatchInv'
  <1>1. /\ MapsTyped /\ ListsTyped /\ Phase /\ DownAlike /\ SibsBelow /\ RootsMeet
        /\ MatchesMutual /\ MatchesAlike
    BY DEF MatchInv
  <1>2. PICK U \in SUBSET Mapped(new) : Untouched(U) /\ Waits(U)
    BY DEF MatchInv
  <1>3. /\ pc = "down" /\ down # <<>> /\ UNCHANGED <<pc, old, new, pq, climb, walk, sibs>>
    BY DEF MatchDown
  <1>4. /\ down \in Seq(Mapped(new) \X Mapped(old)) /\ sibs = <<>> /\ walk = <<>>
        /\ \A i \in DOMAIN down : OnTop(U, down[i][1])
        /\ \A i, j \in DOMAIN down : down[i][1] = down[j][1] => i = j
        /\ \A i \in DOMAIN down, j \in DOMAIN pq : down[i][1] # pq[j]
        /\ \A i \in DOMAIN pq : OnTop(U, pq[i])
        /\ climb.n \in Mapped(new) /\ new[climb.n].parent \notin U
    BY <1>1, <1>2, <1>3 DEF ListsTyped, Phase, Waits
  <1>5. PICK n \in Mapped(new), o \in Mapped(old) : Head(down) = <<n, o>>
    <2>1. Head(down) \in Mapped(new) \X Mapped(old)
      BY <1>3, <1>4, Popped
    <2> QED BY <2>1
  <1>6. /\ Tail(down) \in Seq(Mapped(new) \X Mapped(old))
        /\ 1 \in DOMAIN down /\ down[1] = <<n, o>>
        /\ \A i \in DOMAIN Tail(down) : i + 1 \in DOMAIN down /\ Tail(down)[i] = down[i + 1]
        /\ \A i \in DOMAIN Tail(down) : i \in Nat \ {0}
    <2>1. Tail(down) \in Seq(Mapped(new) \X Mapped(old))
      BY <1>3, <1>4, Popped
    <2>2. \A i \in DOMAIN Tail(down) : i \in Nat \ {0}
      BY <2>1
    <2> QED BY <1>3, <1>4, <1>5, <2>1, <2>2, Popped
  <1> DEFINE freed == Freed(o)
             pairs == Pairs(n, o)
  <1>8. /\ xnew' = Matched(freed, n, o) /\ xold' = Matched(xold, o, n)
        /\ down' = pairs \o Tail(down)
    <2>1. LET k == Head(down)[1]
              l == Head(down)[2]
          IN  /\ xnew' = Matched(Freed(l), k, l) /\ xold' = Matched(xold, l, k)
              /\ down' = Pairs(k, l) \o Tail(down)
      BY Zenon DEF MatchDown, Freed, Pairs
    <2>2. Head(down)[1] = n /\ Head(down)[2] = o
      BY <1>5
    <2> QED BY <2>1, <2>2
  \* The pair.
  <1>9. /\ OnTop(U, n) /\ xnew[n].match = NULL /\ xnew[n].sig = xold[o].sig
        /\ Signatures(new)[n] = Signatures(old)[o]
    <2>1. OnTop(U, n) /\ xnew[n].sig = xold[o].sig
      <3>1. down[1][1] = n /\ down[1][2] = o
        BY <1>6
      <3> QED BY <3>1, <1>1, <1>4, <1>6 DEF DownAlike
    <2>2. xnew[n].match = NULL
      BY <1>2, <2>1 DEF Untouched, OnTop
    <2> QED BY <1>1, <2>1, <2>2, Typed DEF Signs
  <1>10. /\ MatchEq(n, o) /\ new[n].type = old[o].type
         /\ DOMAIN new[n].children = DOMAIN old[o].children
         /\ \A j \in DOMAIN new[n].children :
                Signatures(new)[new[n].children[j]] = Signatures(old)[old[o].children[j]]
    <2>1. n \in DOMAIN new /\ o \in DOMAIN old /\ IsTree(new) /\ IsTree(old)
      BY <1>1, Typed
    <2> QED BY <1>9, <2>1, SameSignature DEF MatchEq
  \* The maps.
  <1>11. /\ xnew' \in Slots(new, old) /\ Signs(xnew', new) /\ xnew'[n].match = o
         /\ \A m \in Mapped(new) : m # n /\ m # xold[o].match => xnew'[m] = xnew[m]
         /\ \A m \in Mapped(new) : m # n /\ m = xold[o].match => xnew'[m].match = NULL
    <2>1. xnew \in Slots(new, old) /\ Signs(xnew, new)
      BY <1>1, Typed
    <2>2. CASE xold[o].match = NULL
      <3>1. xnew' = Matched(xnew, n, o)
        BY <1>8, <2>2 DEF Freed
      <3>2. \A m \in Mapped(new) : m # xold[o].match
        BY <1>1, <2>2, Typed
      <3> QED BY <2>1, <3>1, <3>2, MatchedSlots
    <2>3. CASE xold[o].match # NULL
      <3>1. PICK k \in Mapped(new) : k = xold[o].match
        BY <1>1, <2>3, Typed
      <3>2. PICK f : f = Matched(xnew, k, NULL)
        OBVIOUS
      <3>3. /\ f \in Slots(new, old) /\ Signs(f, new) /\ f[k].match = NULL
            /\ \A m \in Mapped(new) : m # k => f[m] = xnew[m]
        BY <2>1, <3>2, MatchedSlots
      <3>4. xnew' = Matched(f, n, o)
        BY <1>8, <2>3, <3>1, <3>2 DEF Freed
      <3>5. /\ xnew' \in Slots(new, old) /\ Signs(xnew', new) /\ xnew'[n].match = o
            /\ \A m \in Mapped(new) : m # n => xnew'[m] = f[m]
        BY <3>3, <3>4, MatchedSlots
      <3> QED BY <3>1, <3>3, <3>5
    <2> QED BY <2>2, <2>3
  <1>12. MapsTyped' /\ MatchesMutual' /\ MatchesAlike'
    BY <1>1, <1>3, <1>8, <1>9, <1>10, <1>11, PairKeeps
  <1>13. /\ RootsMatched => RootsMatched'
         /\ RootsFree /\ pc # "bottomup" /\ n # Root => RootsFree'
    BY <1>1, <1>8, <1>9, <1>10, <1>11, RootsKeep
  \* The untouched nodes.
  <1>0. PICK V : V = U \ {n}
    OBVIOUS
  <1>14. /\ V \subseteq Mapped(new)
         /\ \A k \in V : ~IsOpaque(new[k]) => ToSet(new[k].children) \subseteq V
         /\ \A m : OnTop(U, m) /\ m # n => OnTop(V, m)
         /\ ~IsOpaque(new[n]) =>
                \A i \in DOMAIN new[n].children :
                    OnTop(V, new[n].children[i]) /\ ~OnTop(U, new[n].children[i])
    BY <1>0, <1>1, <1>2, <1>9, Typed, TopTaken
  <1>15. Untouched(V)'
    <2>1. \A k \in V : xnew'[k].match = NULL
      <3> SUFFICES ASSUME NEW k \in V
                   PROVE  xnew'[k].match = NULL
        OBVIOUS
      <3>1. k \in Mapped(new) /\ k # n /\ xnew[k].match = NULL
        BY <1>0, <1>2 DEF Untouched
      <3> QED BY <1>11, <3>1
    <2> QED BY <1>3, <1>14, <2>1 DEF Untouched
  \* The calls to make.
  <1>16. /\ pairs \in Seq(Mapped(new) \X Mapped(old))
         /\ \A j \in DOMAIN pairs : /\ ~IsOpaque(new[n]) /\ j \in DOMAIN new[n].children
                                    /\ pairs[j] = <<new[n].children[j], old[o].children[j]>>
    <2>1. CASE IsOpaque(new[n])
      BY <2>1 DEF Pairs
    <2>2. CASE ~IsOpaque(new[n])
      <3>1. pairs = [j \in DOMAIN new[n].children |->
                        <<new[n].children[j], old[o].children[j]>>]
        BY <2>2 DEF Pairs
      <3>2. ~IsOpaque(old[o])
        BY <1>10, <2>2 DEF IsOpaque
      <3>3. /\ new[n].children \in Seq(Mapped(new))
            /\ \A i \in DOMAIN new[n].children : new[n].children[i] \in Mapped(new)
            /\ \A i \in DOMAIN old[o].children : old[o].children[i] \in Mapped(old)
        BY <1>1, <2>2, <3>2, Typed, MappedChild
      <3>4. /\ DOMAIN new[n].children = 1 .. Len(new[n].children)
            /\ Len(new[n].children) \in Nat
        BY <3>3
      <3>5. \A j \in DOMAIN new[n].children :
                <<new[n].children[j], old[o].children[j]>> \in Mapped(new) \X Mapped(old)
        BY <1>10, <3>3
      <3>6. pairs \in [1 .. Len(new[n].children) -> Mapped(new) \X Mapped(old)]
        BY <3>1, <3>4, <3>5
      <3> QED BY <2>2, <3>1, <3>4, <3>6
    <2> QED BY <2>1, <2>2
  <1> HIDE DEF pairs
  <1>17. /\ down' \in Seq(Mapped(new) \X Mapped(old)) /\ Len(pairs) \in Nat
         /\ \A i \in DOMAIN down' :
                \/ i \in DOMAIN pairs /\ down'[i] = pairs[i]
                \/ i - Len(pairs) \in DOMAIN Tail(down) /\ i \in Nat
                   /\ down'[i] = Tail(down)[i - Len(pairs)]
    BY <1>6, <1>8, <1>16, Joined
  <1>18. ASSUME NEW i \in DOMAIN pairs
         PROVE  /\ OnTop(V, pairs[i][1]) /\ ~OnTop(U, pairs[i][1])
                /\ \E j \in DOMAIN new[n].children : j = i /\ pairs[i][1] = new[n].children[j]
                /\ Signatures(new)[pairs[i][1]] = Signatures(old)[pairs[i][2]]
    <2>1. /\ ~IsOpaque(new[n]) /\ i \in DOMAIN new[n].children
          /\ pairs[i][1] = new[n].children[i] /\ pairs[i][2] = old[o].children[i]
      BY <1>16
    <2> QED BY <1>10, <1>14, <2>1
  <1>19. ASSUME NEW i \in DOMAIN Tail(down)
         PROVE  /\ OnTop(V, Tail(down)[i][1]) /\ OnTop(U, Tail(down)[i][1])
                /\ \A j \in DOMAIN Tail(down) : Tail(down)[i][1] = Tail(down)[j][1] => i = j
                /\ \A j \in DOMAIN pq : Tail(down)[i][1] # pq[j]
                /\ xnew[Tail(down)[i][1]].sig = xold[Tail(down)[i][2]].sig
    <2>1. i + 1 \in DOMAIN down /\ Tail(down)[i] = down[i + 1] /\ i \in Nat \ {0}
      BY <1>6
    <2>2. down[i + 1][1] # n
      <3>1. down[1][1] = n /\ i + 1 # 1
        BY <1>6, <2>1
      <3> QED BY <3>1, <1>4, <1>6, <2>1
    <2>3. OnTop(U, down[i + 1][1])
      BY <1>4, <2>1
    <2>4. \A j \in DOMAIN Tail(down) : Tail(down)[i][1] = Tail(down)[j][1] => i = j
      <3> SUFFICES ASSUME NEW j \in DOMAIN Tail(down), Tail(down)[i][1] = Tail(down)[j][1]
                   PROVE  i = j
        OBVIOUS
      <3>1. j + 1 \in DOMAIN down /\ Tail(down)[j] = down[j + 1] /\ j \in Nat \ {0}
        BY <1>6
      <3>2. i + 1 = j + 1
        BY <1>4, <2>1, <3>1
      <3> QED BY <2>1, <3>1, <3>2
    <2>5. \A j \in DOMAIN pq : down[i + 1][1] # pq[j]
      BY <1>4, <2>1
    <2>6. xnew[down[i + 1][1]].sig = xold[down[i + 1][2]].sig
      BY <1>1, <2>1 DEF DownAlike
    <2> QED BY <1>14, <2>1, <2>2, <2>3, <2>4, <2>5, <2>6
  <1>20. Waits(V)'
    <2>1. \A i \in DOMAIN pq : OnTop(V, pq[i])
      BY <1>4, <1>6, <1>14
    <2>2. \A i \in DOMAIN down' : OnTop(V, down'[i][1])
      <3> SUFFICES ASSUME NEW i \in DOMAIN down'
                   PROVE  OnTop(V, down'[i][1])
        OBVIOUS
      <3>1. \/ \E k \in DOMAIN pairs : down'[i] = pairs[k]
            \/ \E k \in DOMAIN Tail(down) : down'[i] = Tail(down)[k]
        BY <1>17
      <3> QED BY <1>18, <1>19, <3>1
    <2>3. \A i, j \in DOMAIN down' : down'[i][1] = down'[j][1] => i = j
      <3> SUFFICES ASSUME NEW i \in DOMAIN down', NEW j \in DOMAIN down',
                          down'[i][1] = down'[j][1]
                   PROVE  i = j
        OBVIOUS
      <3>1. CASE i \in DOMAIN pairs /\ down'[i] = pairs[i]
        <4>1. ~OnTop(U, down'[j][1])
          BY <1>18, <3>1
        <4>2. j \in DOMAIN pairs /\ down'[j] = pairs[j]
          BY <1>17, <1>19, <4>1
        <4>3. \A k, l \in DOMAIN new[n].children :
                new[n].children[k] = new[n].children[l] => k = l
          BY <1>1, Typed, Children
        <4> QED BY <1>18, <3>1, <4>2, <4>3
      <3>2. CASE i - Len(pairs) \in DOMAIN Tail(down) /\ i \in Nat
                 /\ down'[i] = Tail(down)[i - Len(pairs)]
        <4>1. OnTop(U, down'[j][1])
          BY <1>19, <3>2
        <4>2. j - Len(pairs) \in DOMAIN Tail(down) /\ j \in Nat
              /\ down'[j] = Tail(down)[j - Len(pairs)]
          BY <1>17, <1>18, <4>1
        <4>3. i - Len(pairs) = j - Len(pairs)
          BY <1>19, <3>2, <4>2
        <4> QED BY <1>17, <3>2, <4>2, <4>3
      <3> QED BY <1>17, <3>1, <3>2
    <2>4. \A i \in DOMAIN down', j \in DOMAIN pq : down'[i][1] # pq[j]
      <3> SUFFICES ASSUME NEW i \in DOMAIN down', NEW j \in DOMAIN pq
                   PROVE  down'[i][1] # pq[j]
        OBVIOUS
      <3>1. OnTop(U, pq[j])
        BY <1>4
      <3>2. \/ \E k \in DOMAIN pairs : down'[i] = pairs[k]
            \/ \E k \in DOMAIN Tail(down) : down'[i] = Tail(down)[k]
        BY <1>17
      <3> QED BY <1>18, <1>19, <3>1, <3>2
    <2>5. \A m : OnTop(V, m)' <=> OnTop(V, m)
      BY <1>3 DEF OnTop
    <2>6. \A i, j \in DOMAIN pq : pq[i] = pq[j] => i = j
      BY <1>2 DEF Waits
    <2>7. new[climb.n].parent \notin V
      BY <1>0, <1>4
    <2>8. Mapped(new)' = Mapped(new)
      BY <1>3
    <2> QED BY <1>3, <1>4, <2>1, <2>2, <2>3, <2>4, <2>5, <2>6, <2>7, <2>8 DEF Waits
  <1>21. DownAlike'
    <2>1. \A i \in DOMAIN down' : xnew'[down'[i][1]].sig = xold'[down'[i][2]].sig
      <3> SUFFICES ASSUME NEW i \in DOMAIN down'
                   PROVE  xnew'[down'[i][1]].sig = xold'[down'[i][2]].sig
        OBVIOUS
      <3>1. down'[i] \in Mapped(new) \X Mapped(old)
        BY <1>17
      <3>2. down'[i][1] \in Mapped(new) /\ down'[i][2] \in Mapped(old)
        BY <3>1
      <3>3. Signatures(new)[down'[i][1]] = Signatures(old)[down'[i][2]]
        <4>1. CASE \E k \in DOMAIN pairs : down'[i] = pairs[k]
          BY <1>18, <4>1
        <4>2. CASE \E k \in DOMAIN Tail(down) : down'[i] = Tail(down)[k]
          <5>1. xnew[down'[i][1]].sig = xold[down'[i][2]].sig
            BY <1>19, <4>2
          <5> QED BY <1>1, <3>2, <5>1, Typed DEF Signs
        <4> QED BY <1>17, <4>1, <4>2
      <3>4. Signs(xnew', new) /\ Signs(xold', old)
        BY <1>3, <1>12 DEF MapsTyped
      <3> QED BY <3>2, <3>3, <3>4 DEF Signs
    <2>2. climb.o \in Mapped(old)
      BY <1>1, <1>3 DEF DownAlike
    <2> QED BY <1>3, <2>1, <2>2 DEF DownAlike
  <1>22. ListsTyped'
    BY <1>1, <1>3, <1>17 DEF ListsTyped
  <1>23. Phase' /\ SibsBelow'
    BY <1>1, <1>3, <1>4 DEF Phase, SibsBelow
  <1>24. RootsMeet'
    <2>1. CASE RootsMatched
      BY <1>13, <2>1 DEF RootsMeet, RootsMatched
    <2>2. CASE ~RootsMatched
      <3>1. RootsFree
        BY <1>1, <2>2 DEF RootsMeet, RootsMatched, RootsFree
      <3>2. CASE n = Root
        <4>1. o = Root
          BY <1>1, <1>10, <3>2, Typed, RootOf DEF MatchEq
        <4>2. xold'[Root].match = Root
          BY <1>1, <1>8, <3>2, <4>1, Typed, MatchedSlots
        <4> QED BY <1>11, <3>2, <4>1, <4>2 DEF RootsMeet
      <3>3. CASE n # Root
        <4>1. RootsFree' /\ Footer(new)' = Footer(new) /\ Footer(old)' = Footer(old)
          BY <1>3, <1>13, <3>1, <3>3 DEF Footer
        <4>2. ~(down = << <<Root, Root>> >>)
          <5>1. down = << <<Root, Root>> >> => down[1][1] = Root
            OBVIOUS
          <5>2. down[1][1] = n
            BY <1>6
          <5> QED BY <3>3, <5>1, <5>2
        <4>3. \/ \E i \in DOMAIN pq : pq[i] \in {Root, Footer(new)}
              \/ climb.n = Footer(new) /\ climb.o = Footer(old) /\ climb.left # 0
          BY <1>1, <1>3, <2>2, <4>2 DEF RootsMeet, RootsMatched
        <4> QED BY <1>3, <4>1, <4>3 DEF RootsMeet, RootsFree
      <3> QED BY <3>2, <3>3
    <2> QED BY <2>1, <2>2
  <1>25. V \in SUBSET Mapped(new)'
    BY <1>3, <1>14
  <1> QED BY <1>12, <1>15, <1>20, <1>21, <1>22, <1>23, <1>24, <1>25 DEF MatchInv

LEMMA MatchedDownKeeps ==
    ASSUME MatchInv, MatchedDown
    PROVE  MatchInv'
  <1>1. /\ MapsTyped /\ ListsTyped /\ Phase /\ DownAlike /\ SibsBelow /\ RootsMeet
        /\ MatchesMutual /\ MatchesAlike
    BY DEF MatchInv
  <1>2. PICK U \in SUBSET Mapped(new) : Untouched(U) /\ Waits(U)
    BY DEF MatchInv
  <1>3. pc = "down" /\ down = <<>> /\ pc' = "up" /\ UNCHANGED matchVars
    BY DEF MatchedDown
  <1>4. UNCHANGED <<old, new, xold, xnew, pq, down, climb, walk, sibs>>
    BY <1>3 DEF matchVars
  <1>5. Untouched(U)' /\ Waits(U)'
    BY <1>2, <1>3, <1>4 DEF Untouched, Waits, OnTop
  <1>6. ListsTyped' /\ Phase' /\ DownAlike' /\ SibsBelow'
    BY <1>1, <1>3, <1>4 DEF ListsTyped, Phase, DownAlike, SibsBelow
  <1>7. MapsTyped' /\ MatchesMutual' /\ MatchesAlike'
    BY <1>1, <1>3, <1>4, SameMaps
  <1>8. ~(down = << <<Root, Root>> >>)
    BY <1>3
  <1>9. RootsMeet'
    BY <1>1, <1>3, <1>4, <1>8 DEF RootsMeet, Footer
  <1>10. U \in SUBSET Mapped(new)'
    BY <1>4
  <1> QED BY <1>5, <1>6, <1>7, <1>9, <1>10 DEF MatchInv

\* The node above a touched one has been touched.
LEMMA AboveTouched ==
    ASSUME MapsTyped, NEW U, Untouched(U), NEW n \in Mapped(new), n \notin U
    PROVE  new[n].parent \notin U
  <1> SUFFICES ASSUME new[n].parent \in U
               PROVE  FALSE
    OBVIOUS
  <1>1. new[n].parent # NULL /\ IsTree(new) /\ n \in DOMAIN new
    BY Typed DEF Untouched
  <1>2. ~IsOpaque(new[new[n].parent])
    BY <1>1, MappedParent
  <1>3. n # Root
    BY <1>1, TreeNodes
  <1>4. n \in ToSet(new[new[n].parent].children)
    BY <1>1, <1>3 DEF IsTree
  <1> QED BY <1>2, <1>4 DEF Untouched

LEMMA MatchUpKeeps ==
    ASSUME MatchInv, MatchUp
    PROVE  MatchInv'
  <1>1. /\ MapsTyped /\ ListsTyped /\ Phase /\ DownAlike /\ SibsBelow /\ RootsMeet
        /\ MatchesMutual /\ MatchesAlike
    BY DEF MatchInv
  <1>2. PICK U \in SUBSET Mapped(new) : Untouched(U) /\ Waits(U)
    BY DEF MatchInv
  <1>3. /\ pc = "up" /\ CanClimb /\ UNCHANGED <<pc, old, new, pq, down, walk, sibs>>
        /\ xnew' = Matched(xnew, UpNew, UpOld) /\ xold' = Matched(xold, UpOld, UpNew)
        /\ climb'.n = UpNew /\ climb'.o = UpOld
    BY DEF MatchUp
  <1>4. /\ climb.n \in Mapped(new) /\ climb.o \in Mapped(old)
        /\ new[climb.n].parent \notin U /\ down = <<>>
    BY <1>1, <1>2, <1>3 DEF Waits, DownAlike, Phase
  <1>5. /\ UpNew # NULL /\ UpOld # NULL /\ MatchEq(UpNew, UpOld)
        /\ xnew[UpNew].match = NULL /\ xold[UpOld].match = NULL
    BY <1>3 DEF CanClimb
  <1>6. UpNew \in Mapped(new) /\ UpOld \in Mapped(old) /\ ~IsOpaque(old[UpOld])
    BY <1>1, <1>4, <1>5, Typed, MappedParent DEF UpNew, UpOld
  <1>7. PICK n \in Mapped(new), o \in Mapped(old) : n = UpNew /\ o = UpOld
    BY <1>6
  <1>8. /\ xnew' = Matched(xnew, n, o) /\ xold' = Matched(xold, o, n)
        /\ climb'.n = n /\ climb'.o = o /\ n \notin U
        /\ xnew[n].match = NULL /\ xold[o].match = NULL /\ MatchEq(n, o) /\ ~IsOpaque(old[o])
    BY <1>3, <1>4, <1>5, <1>6, <1>7 DEF UpNew
  <1>9. /\ xnew' \in Slots(new, old) /\ Signs(xnew', new) /\ xnew'[n].match = o
        /\ \A m \in Mapped(new) : m # n => xnew'[m] = xnew[m]
        /\ \A m \in Mapped(new) : m # xold[o].match
    BY <1>1, <1>8, Typed, MatchedSlots
  <1>10. MapsTyped' /\ MatchesMutual' /\ MatchesAlike'
    BY <1>1, <1>3, <1>8, <1>9, PairKeeps
  <1>11. /\ RootsMatched => RootsMatched'
         /\ RootsFree /\ pc # "bottomup" /\ n # Root => RootsFree'
    BY <1>1, <1>8, <1>9, RootsKeep
  <1>12. Untouched(U)'
    <2>1. \A k \in U : xnew'[k].match = NULL
      BY <1>2, <1>8, <1>9 DEF Untouched
    <2> QED BY <1>2, <1>3, <2>1 DEF Untouched
  <1>13. Waits(U)'
    <2>1. new[n].parent \notin U
      BY <1>1, <1>2, <1>8, AboveTouched
    <2>2. Mapped(new)' = Mapped(new)
      BY <1>3
    <2> QED BY <1>2, <1>3, <1>8, <2>1, <2>2 DEF Waits, OnTop
  <1>14. ListsTyped' /\ Phase' /\ DownAlike' /\ SibsBelow'
    <2>1. sibs = <<>>
      BY <1>1, <1>3 DEF Phase
    <2> QED BY <1>1, <1>3, <1>4, <1>8, <2>1 DEF ListsTyped, Phase, DownAlike, SibsBelow
  <1>15. RootsMeet'
    <2>1. CASE RootsMatched
      BY <1>11, <2>1 DEF RootsMeet, RootsMatched
    <2>2. CASE ~RootsMatched
      <3>1. RootsFree
        BY <1>1, <2>2 DEF RootsMeet, RootsMatched, RootsFree
      <3>2. CASE n = Root
        <4>1. o = Root
          BY <1>1, <1>8, <3>2, Typed, RootOf DEF MatchEq
        <4>2. xold'[Root].match = Root
          BY <1>1, <1>8, <3>2, <4>1, Typed, MatchedSlots
        <4> QED BY <1>9, <3>2, <4>1, <4>2 DEF RootsMeet
      <3>3. CASE n # Root
        <4>1. RootsFree' /\ Footer(new)' = Footer(new)
          BY <1>3, <1>11, <3>1, <3>3 DEF Footer
        <4>2. climb.n # Footer(new)
          BY <1>1, <1>7, <3>3, Typed, FooterOf DEF UpNew
        <4>3. \E i \in DOMAIN pq : pq[i] \in {Root, Footer(new)}
          BY <1>1, <1>3, <2>2, <4>2 DEF RootsMeet, RootsMatched
        <4> QED BY <1>3, <4>1, <4>3 DEF RootsMeet, RootsFree
      <3> QED BY <3>2, <3>3
    <2> QED BY <2>1, <2>2
  <1>16. U \in SUBSET Mapped(new)'
    BY <1>2, <1>3
  <1> QED BY <1>10, <1>12, <1>13, <1>14, <1>15, <1>16 DEF MatchInv

LEMMA MatchedUpKeeps ==
    ASSUME MatchInv, MatchedUp
    PROVE  MatchInv'
  <1>1. /\ MapsTyped /\ ListsTyped /\ Phase /\ DownAlike /\ SibsBelow /\ RootsMeet
        /\ MatchesMutual /\ MatchesAlike
    BY DEF MatchInv
  <1>2. PICK U \in SUBSET Mapped(new) : Untouched(U) /\ Waits(U)
    BY DEF MatchInv
  <1>3. pc = "up" /\ ~CanClimb /\ pc' = "queue" /\ UNCHANGED matchVars
    BY DEF MatchedUp
  <1>4. UNCHANGED <<old, new, xold, xnew, pq, down, climb, walk, sibs>>
    BY <1>3 DEF matchVars
  <1>5. walk = <<>> /\ down = <<>> /\ sibs = <<>>
    BY <1>1, <1>3 DEF Phase
  <1>6. Untouched(U)' /\ Waits(U)'
    BY <1>2, <1>3, <1>4, <1>5 DEF Untouched, Waits, OnTop
  <1>7. ListsTyped' /\ Phase' /\ DownAlike' /\ SibsBelow'
    BY <1>1, <1>3, <1>4, <1>5 DEF ListsTyped, Phase, DownAlike, SibsBelow
  <1>8. /\ MapsTyped' /\ MatchesMutual' /\ MatchesAlike'
        /\ RootsMatched => RootsMatched'
        /\ RootsFree => RootsFree'
    BY <1>1, <1>3, <1>4, SameMaps
  <1>9. RootsMeet'
    <2>1. CASE RootsMatched
      BY <1>8, <2>1 DEF RootsMeet, RootsMatched
    <2>2. CASE ~RootsMatched
      <3>1. RootsFree
        BY <1>1, <2>2 DEF RootsMeet, RootsMatched, RootsFree
      <3>2. ASSUME climb.n = Footer(new), climb.o = Footer(old), climb.left # 0
            PROVE  FALSE
        <4>1. UpNew = Root /\ UpOld = Root
          BY <1>1, <3>2, Typed, FooterOf DEF UpNew, UpOld
        <4>2. MatchEq(Root, Root)
          BY <1>1, Typed, RootOf DEF MatchEq
        <4>3. Root # NULL
          BY DEF Root, NULL
        <4>4. CanClimb
          BY <3>1, <3>2, <4>1, <4>2, <4>3 DEF CanClimb, RootsFree
        <4> QED BY <1>3, <4>4
      <3>3. \E i \in DOMAIN pq : pq[i] \in {Root, Footer(new)}
        BY <1>1, <1>3, <2>2, <3>2 DEF RootsMeet, RootsMatched
      <3> QED BY <1>3, <1>4, <1>8, <3>1, <3>3 DEF RootsMeet, RootsFree, Footer
    <2> QED BY <2>1, <2>2
  <1>10. U \in SUBSET Mapped(new)'
    BY <1>2, <1>4
  <1> QED BY <1>6, <1>7, <1>8, <1>9, <1>10 DEF MatchInv

-----------------------------------------------------------------------------
(* The optimisations *)

\* Once the queue is empty, only the matches and the siblings matter.
LEMMA LateKeeps ==
    ASSUME MapsTyped', MatchesMutual', MatchesAlike', RootsMatched', SibsBelow',
           pc' \in {"topdown", "bottomup", "merge", "returned"},
           pq' = <<>>, down' = <<>>, sibs' \in Seq(Mapped(new')),
           pc' # "topdown" => sibs' = <<>>,
           pc' # "bottomup" => walk' \in Seq(Mapped(new'))
    PROVE  MatchInv'
  <1> DEFINE U == {}
  <1>1. Untouched(U)'
    BY DEF Untouched
  <1>2. Waits(U)'
    BY DEF Waits
  <1>3. DownAlike' /\ Phase'
    BY DEF DownAlike, Phase
  <1>4. ListsTyped'
    BY DEF ListsTyped
  <1>5. RootsMeet'
    BY DEF RootsMatched, RootsMeet
  <1>6. U \in SUBSET Mapped(new)'
    OBVIOUS
  <1> HIDE DEF U
  <1> QED BY <1>1, <1>2, <1>3, <1>4, <1>5, <1>6 DEF MatchInv

LEMMA QueueEmptyKeeps ==
    ASSUME MatchInv, QueueEmpty
    PROVE  MatchInv'
  <1>1. /\ MapsTyped /\ ListsTyped /\ Phase /\ DownAlike /\ SibsBelow /\ RootsMeet
        /\ MatchesMutual /\ MatchesAlike
    BY DEF MatchInv
  <1>2. /\ pc = "queue" /\ walk = <<>> /\ pq = <<>> /\ pc' = "topdown" /\ walk' = <<Root>>
        /\ UNCHANGED <<old, new, xold, xnew, pq, down, climb, sibs>>
    BY DEF QueueEmpty
  <1>3. down = <<>> /\ sibs = <<>>
    BY <1>1, <1>2 DEF Phase
  <1>4. RootsMatched
    BY <1>1, <1>2 DEF RootsMeet, RootsMatched
  <1>5. MapsTyped' /\ MatchesMutual' /\ MatchesAlike' /\ RootsMatched'
    BY <1>1, <1>2, <1>4, SameMaps
  <1>6. SibsBelow'
    BY <1>2, <1>3 DEF SibsBelow
  <1>7. walk' \in Seq(Mapped(new')) /\ sibs' \in Seq(Mapped(new'))
    <2>1. Root \in Mapped(new)
      BY <1>1, Typed, RootOf
    <2> QED BY <1>2, <1>3, <2>1
  <1> QED BY <1>2, <1>3, <1>5, <1>6, <1>7, LateKeeps

\* The late phases have nothing in the queue, and the roots are matched.
LEMMA Late ==
    ASSUME MatchInv, pc \in {"topdown", "bottomup", "merge", "returned"}
    PROVE  /\ MapsTyped /\ MatchesMutual /\ MatchesAlike /\ SibsBelow /\ RootsMatched
           /\ pq = <<>> /\ down = <<>> /\ sibs \in Seq(Mapped(new))
           /\ pc # "topdown" => sibs = <<>>
           /\ pc # "bottomup" => walk \in Seq(Mapped(new))
  BY DEF MatchInv, ListsTyped, Phase, RootsMeet, RootsMatched

LEMMA OptimiseTopdownKeeps ==
    ASSUME MatchInv, OptimiseTopdown
    PROVE  MatchInv'
  <1>1. /\ pc = "topdown" /\ walk # <<>> /\ UNCHANGED <<pc, old, new, xold, xnew, pq, down, climb>>
    BY DEF OptimiseTopdown
  <1>2. /\ MapsTyped /\ MatchesMutual /\ MatchesAlike /\ RootsMatched
        /\ pq = <<>> /\ down = <<>> /\ walk \in Seq(Mapped(new))
    BY <1>1, Late
  <1>3. PICK n \in Mapped(new) : n = Head(walk)
    BY <1>1, <1>2, Popped
  <1>4. IF IsInner(new[n]) /\ xnew[n].match # NULL
        THEN sibs' = new[n].children /\ walk' = new[n].children \o Tail(walk)
        ELSE sibs' = <<>> /\ walk' = Tail(walk)
    BY <1>3 DEF OptimiseTopdown
  <1>5. Tail(walk) \in Seq(Mapped(new))
    BY <1>1, <1>2, Popped
  <1>6. MapsTyped' /\ MatchesMutual' /\ MatchesAlike' /\ RootsMatched'
    BY <1>1, <1>2, SameMaps DEF MapsTyped
  <1>7. sibs' \in Seq(Mapped(new)) /\ walk' \in Seq(Mapped(new)) /\ SibsBelow'
    <2>1. CASE IsInner(new[n]) /\ xnew[n].match # NULL
      <3>1. new[n].children \in Seq(Mapped(new))
        BY <1>2, <2>1, Typed, MappedChild DEF IsInner
      <3>2. sibs' = new[n].children /\ walk' = new[n].children \o Tail(walk)
        BY <1>4, <2>1
      <3>3. \A i \in DOMAIN new[n].children : new[new[n].children[i]].parent = n
        BY <1>2, Typed, Children
      <3>4. n # NULL
        BY <1>2, Typed
      <3>5. SibsBelow'
        BY <1>1, <2>1, <3>2, <3>3, <3>4 DEF SibsBelow
      <3>6. new[n].children \o Tail(walk) \in Seq(Mapped(new))
        BY <1>5, <3>1, Joined
      <3> QED BY <3>1, <3>2, <3>5, <3>6
    <2>2. CASE ~(IsInner(new[n]) /\ xnew[n].match # NULL)
      <3>1. sibs' = <<>> /\ walk' = Tail(walk)
        BY <1>4, <2>2
      <3> QED BY <1>5, <3>1 DEF SibsBelow
    <2> QED BY <2>1, <2>2
  <1> QED BY <1>1, <1>2, <1>6, <1>7, LateKeeps

LEMMA TryNextKeeps ==
    ASSUME MatchInv, TryNext
    PROVE  MatchInv'
  <1>1. /\ pc = "topdown" /\ sibs # <<>> /\ sibs' = Tail(sibs)
        /\ UNCHANGED <<pc, old, new, pq, down, climb, walk>>
    BY DEF TryNext
  <1>2. /\ MapsTyped /\ MatchesMutual /\ MatchesAlike /\ SibsBelow /\ RootsMatched
        /\ pq = <<>> /\ down = <<>> /\ sibs \in Seq(Mapped(new))
        /\ walk \in Seq(Mapped(new))
    BY <1>1, Late
  <1>3. PICK c \in Mapped(new) : c = Head(sibs)
    BY <1>1, <1>2, Popped
  <1>4. /\ sibs' \in Seq(Mapped(new)) /\ 1 \in DOMAIN sibs /\ c = sibs[1]
        /\ \A i \in DOMAIN sibs' : i + 1 \in DOMAIN sibs /\ sibs'[i] = sibs[i + 1]
    BY <1>1, <1>2, <1>3, Popped
  <1>5. CASE UNCHANGED <<xold, xnew>>
    <2>1. MapsTyped' /\ MatchesMutual' /\ MatchesAlike' /\ RootsMatched'
      BY <1>1, <1>2, <1>5, SameMaps DEF MapsTyped
    <2>2. SibsBelow'
      BY <1>1, <1>2, <1>4, <1>5 DEF SibsBelow
    <2> QED BY <1>1, <1>2, <1>4, <2>1, <2>2, LateKeeps
  <1>6. ASSUME NEW n \in DOMAIN new, NEW o \in DOMAIN old, PairSiblings(c, n, o),
               xnew' = Matched(xnew, n, o), xold' = Matched(xold, o, n)
        PROVE  MatchInv'
    <2>0. xnew' = Matched(xnew, n, o) /\ xold' = Matched(xold, o, n)
      BY <1>6
    <2>1. /\ new[c].parent # NULL /\ xnew[new[c].parent].match # NULL
          /\ new[c].parent \in Mapped(new) /\ ~IsOpaque(new[new[c].parent])
      BY <1>2, <1>4, Typed, MappedParent DEF SibsBelow
    <2>2. PICK k \in Mapped(old) : k = xnew[c].match
      BY <1>2, <1>6, Typed DEF PairSiblings
    <2>3. old[k].parent \in Mapped(old) /\ ~IsOpaque(old[old[k].parent])
      <3>1. old[k].parent = xnew[new[c].parent].match
        BY <1>6, <2>2 DEF PairSiblings
      <3>2. old[k].parent # NULL
        BY <2>1, <3>1
      <3> QED BY <1>2, <3>2, Typed, MappedParent
    <2>4. n \in Mapped(new)
      <3>1. \E i \in DOMAIN new[new[c].parent].children : new[new[c].parent].children[i] = n
        <4>1. PICK i \in 1 .. Len(new[new[c].parent].children) - 1 :
                  new[new[c].parent].children[i + 1] = n
          BY <1>6 DEF PairSiblings, NextSibling
        <4>2. new[new[c].parent].children \in Seq(Mapped(new))
          BY <1>2, <2>1, Typed, MappedChild
        <4>3. i + 1 \in DOMAIN new[new[c].parent].children
          BY <4>1, <4>2
        <4> QED BY <4>1, <4>3
      <3> QED BY <1>2, <2>1, <3>1, Typed, MappedChild
    <2>5. o \in Mapped(old)
      <3>1. \E i \in DOMAIN old[old[k].parent].children : old[old[k].parent].children[i] = o
        <4>0. NextSibling(old, k, o)
          BY <1>6, <2>2 DEF PairSiblings
        <4>1. PICK i \in 1 .. Len(old[old[k].parent].children) - 1 :
                  old[old[k].parent].children[i + 1] = o
          BY <4>0 DEF NextSibling
        <4>2. old[old[k].parent].children \in Seq(Mapped(old))
          BY <1>2, <2>3, Typed, MappedChild
        <4>3. i + 1 \in DOMAIN old[old[k].parent].children
          BY <4>1, <4>2
        <4> QED BY <4>1, <4>3
      <3> QED BY <1>2, <2>3, <3>1, Typed, MappedChild
    <2>6. /\ xnew[n].match = NULL /\ xold[o].match = NULL /\ MatchEq(n, o) /\ ~IsOpaque(old[o])
      BY <1>6 DEF PairSiblings, IsInner
    <2>7. /\ xnew' \in Slots(new, old) /\ Signs(xnew', new) /\ xnew'[n].match = o
          /\ \A m \in Mapped(new) : m # n => xnew'[m] = xnew[m]
          /\ \A m \in Mapped(new) : m # xold[o].match
      <3>1. xnew \in Slots(new, old) /\ Signs(xnew, new) /\ o \in Mapped(old) \cup {NULL}
            /\ \A m \in Mapped(new) : m # NULL
        BY <1>2, <2>5, Typed
      <3>2. n \in Mapped(new)
        BY <2>4
      <3>3. /\ Matched(xnew, n, o) \in Slots(new, old) /\ Signs(Matched(xnew, n, o), new)
            /\ Matched(xnew, n, o)[n].match = o
            /\ \A m \in Mapped(new) : m # n => Matched(xnew, n, o)[m] = xnew[m]
        BY ONLY <3>1, <3>2, MatchedSlots
      <3> QED BY <2>0, <2>6, <3>1, <3>3
    <2>8. MapsTyped' /\ MatchesMutual' /\ MatchesAlike'
      BY <1>1, <1>2, <2>0, <2>4, <2>5, <2>6, <2>7, PairKeeps
    <2>9. RootsMatched'
      <3>1. /\ RootsMatched => RootsMatched'
            /\ RootsFree /\ pc # "bottomup" /\ n # Root => RootsFree'
        BY <1>2, <2>0, <2>4, <2>5, <2>6, <2>7, RootsKeep
      <3> QED BY <1>2, <3>1
    <2>10. SibsBelow'
      <3> SUFFICES ASSUME NEW i \in DOMAIN sibs'
                   PROVE  /\ new[sibs'[i]].parent # NULL
                          /\ xnew'[new[sibs'[i]].parent].match # NULL
        BY <1>1 DEF SibsBelow
      <3>1. /\ sibs'[i] \in Mapped(new) /\ new[sibs'[i]].parent # NULL
            /\ xnew[new[sibs'[i]].parent].match # NULL
        BY <1>2, <1>4 DEF SibsBelow
      <3>2. new[sibs'[i]].parent \in Mapped(new) /\ new[sibs'[i]].parent # n
        BY <1>2, <2>6, <3>1, Typed, MappedParent
      <3> QED BY <2>7, <3>1, <3>2
    <2> QED BY <1>1, <1>2, <1>4, <2>8, <2>9, <2>10, LateKeeps
  <1>7. \/ UNCHANGED <<xold, xnew>>
        \/ \E n \in DOMAIN new, o \in DOMAIN old :
              /\ PairSiblings(c, n, o)
              /\ xnew' = Matched(xnew, n, o) /\ xold' = Matched(xold, o, n)
    BY <1>3 DEF TryNext
  <1> QED BY <1>5, <1>6, <1>7

LEMMA StartBottomupKeeps ==
    ASSUME MatchInv, StartBottomup
    PROVE  MatchInv'
  <1>1. /\ pc = "topdown" /\ sibs = <<>> /\ pc' = "bottomup"
        /\ UNCHANGED <<old, new, xold, xnew, pq, down, climb, sibs>>
    BY DEF StartBottomup
  <1>2. /\ MapsTyped /\ MatchesMutual /\ MatchesAlike /\ RootsMatched
        /\ pq = <<>> /\ down = <<>>
    BY <1>1, Late
  <1>3. MapsTyped' /\ MatchesMutual' /\ MatchesAlike' /\ RootsMatched'
    BY <1>1, <1>2, SameMaps
  <1>4. SibsBelow' /\ sibs' = <<>> /\ sibs' \in Seq(Mapped(new'))
    BY <1>1 DEF SibsBelow
  <1> QED BY <1>1, <1>2, <1>3, <1>4, LateKeeps

LEMMA OptimiseBottomupKeeps ==
    ASSUME MatchInv, OptimiseBottomup
    PROVE  MatchInv'
  <1>1. /\ pc = "bottomup" /\ UNCHANGED <<pc, old, new, pq, down, climb, sibs>>
    BY DEF OptimiseBottomup
  <1>2. /\ MapsTyped /\ MatchesMutual /\ MatchesAlike /\ RootsMatched
        /\ pq = <<>> /\ down = <<>> /\ sibs = <<>>
    BY <1>1, Late
  <1>3. SibsBelow' /\ sibs' = <<>> /\ sibs' \in Seq(Mapped(new'))
    BY <1>1, <1>2 DEF SibsBelow
  <1>4. CASE UNCHANGED <<xold, xnew>>
    <2>1. MapsTyped' /\ MatchesMutual' /\ MatchesAlike' /\ RootsMatched'
      BY <1>1, <1>2, <1>4, SameMaps DEF MapsTyped
    <2> QED BY <1>1, <1>2, <1>3, <2>1, LateKeeps
  <1>5. ASSUME NEW n \in DOMAIN xnew, IsInner(new[n]), xnew[n].match = NULL,
               NEW j \in DOMAIN new[n].children, MatchedUnder(n, j),
               xnew' = Matched(xnew, n, ParentOfMatch(n, j)),
               xold' = Matched(xold, ParentOfMatch(n, j), n)
        PROVE  MatchInv'
    <2>1. n \in Mapped(new) /\ new[n].children[j] \in Mapped(new)
      BY <1>2, <1>5, Typed, MappedChild DEF IsInner
    <2>2. MatchedUnder(n, j)
      BY <1>5
    <2>3. PICK k \in Mapped(old) : k = xnew[new[n].children[j]].match
      BY <1>2, <2>1, <2>2, Typed DEF MatchedUnder
    <2>4. PICK o \in Mapped(old) : o = ParentOfMatch(n, j) /\ ~IsOpaque(old[o])
      BY <1>2, <2>2, <2>3, Typed, MappedParent DEF MatchedUnder, ParentOfMatch
    <2>5. MatchEq(n, o)
      BY <2>2, <2>4 DEF MatchedUnder, ParentOfMatch
    <2>6. xnew' = Matched(xnew, n, o) /\ xold' = Matched(xold, o, n)
      BY <1>5, <2>4
    <2>7. /\ xnew' \in Slots(new, old) /\ Signs(xnew', new) /\ xnew'[n].match = o
          /\ \A m \in Mapped(new) : m # n => xnew'[m] = xnew[m]
      <3>1. xnew \in Slots(new, old) /\ Signs(xnew, new) /\ o \in Mapped(old) \cup {NULL}
        BY <1>2, Typed
      <3>2. n \in Mapped(new)
        BY <2>1
      <3>3. /\ Matched(xnew, n, o) \in Slots(new, old) /\ Signs(Matched(xnew, n, o), new)
            /\ Matched(xnew, n, o)[n].match = o
            /\ \A m \in Mapped(new) : m # n => Matched(xnew, n, o)[m] = xnew[m]
        BY ONLY <3>1, <3>2, MatchedSlots
      <3> QED BY <2>6, <3>3
    <2>8. MapsTyped' /\ MatchesMutual' /\ MatchesAlike'
      BY <1>1, <1>2, <1>5, <2>1, <2>4, <2>5, <2>6, <2>7, PairKeeps
    <2>9. RootsMatched'
      <3>1. /\ RootsMatched => RootsMatched'
            /\ RootsFree /\ pc # "bottomup" /\ n # Root => RootsFree'
        BY <1>1, <1>2, <1>5, <2>1, <2>5, <2>6, <2>7, RootsKeep
      <3> QED BY <1>2, <3>1
    <2> QED BY <1>1, <1>2, <1>3, <2>8, <2>9, LateKeeps
  <1>6. \/ UNCHANGED <<xold, xnew>>
        \/ \E n \in DOMAIN xnew : \E j \in DOMAIN new[n].children :
              /\ IsInner(new[n]) /\ xnew[n].match = NULL /\ MatchedUnder(n, j)
              /\ xnew' = Matched(xnew, n, ParentOfMatch(n, j))
              /\ xold' = Matched(xold, ParentOfMatch(n, j), n)
    BY Zenon DEF OptimiseBottomup, IsHalf, HasMost
  <1> QED BY <1>4, <1>5, <1>6

-----------------------------------------------------------------------------
(* node_merge *)

LEMMA LastSet ==
    ASSUME NEW X, NEW s \in Seq(X), s # <<>>, NEW g \in X
    PROVE  /\ [s EXCEPT ![Len(s)] = g] \in Seq(X)
           /\ DOMAIN [s EXCEPT ![Len(s)] = g] = DOMAIN s
           /\ \A i \in DOMAIN s :
                [s EXCEPT ![Len(s)] = g][i] = IF i = Len(s) THEN g ELSE s[i]
  OBVIOUS

\* A sequence is one of its elements.
LEMMA OwnElements ==
    ASSUME NEW X, NEW s \in Seq(X)
    PROVE  s \in Seq({s[i] : i \in DOMAIN s})
  <1> DEFINE T == {s[i] : i \in DOMAIN s}
  <1>1. \A i \in DOMAIN s : s[i] \in T
    OBVIOUS
  <1> HIDE DEF T
  <1>2. s \in Seq(T)
    BY <1>1
  <1> QED BY <1>2 DEF T

LEMMA TopSet ==
    ASSUME AllMatched(frames), frames # <<>>, NEW g, MergesMatched(g)
    PROVE  AllMatched(SetTop(g))
  <1>1. PICK X : frames \in Seq(X) /\ g \in X
    <2> DEFINE S == {frames[i] : i \in DOMAIN frames}
    <2>1. frames \in Seq(S)
      BY DEF AllMatched
    <2> HIDE DEF S
    <2>2. frames \in Seq(S \cup {g})
      BY <2>1
    <2> QED BY <2>2
  <1>2. PICK fs : fs = SetTop(g)
    OBVIOUS
  <1>3. /\ fs \in Seq(X) /\ DOMAIN fs = DOMAIN frames
        /\ \A i \in DOMAIN frames : fs[i] = IF i = Len(frames) THEN g ELSE frames[i]
    BY <1>1, <1>2, LastSet DEF SetTop
  <1>4. \A i \in DOMAIN fs : MergesMatched(fs[i])
    BY <1>3 DEF AllMatched
  <1>5. fs \in Seq({fs[i] : i \in DOMAIN fs})
    BY <1>3, OwnElements
  <1> QED BY <1>2, <1>4, <1>5 DEF AllMatched

LEMMA OneMore ==
    ASSUME NEW fs, AllMatched(fs), NEW f, MergesMatched(f)
    PROVE  AllMatched(Append(fs, f))
  <1>1. PICK X : fs \in Seq(X) /\ f \in X
    <2> DEFINE S == {fs[i] : i \in DOMAIN fs}
    <2>1. fs \in Seq(S)
      BY DEF AllMatched
    <2> HIDE DEF S
    <2>2. fs \in Seq(S \cup {f})
      BY <2>1
    <2> QED BY <2>2
  <1>2. PICK r : r = Append(fs, f)
    OBVIOUS
  <1>3. /\ r \in Seq(X)
        /\ \A i \in DOMAIN r : r[i] = f \/ (i \in DOMAIN fs /\ r[i] = fs[i])
    BY <1>1, <1>2
  <1>4. \A i \in DOMAIN r : MergesMatched(r[i])
    BY <1>3 DEF AllMatched
  <1>5. r \in Seq({r[i] : i \in DOMAIN r})
    BY <1>3, OwnElements
  <1> QED BY <1>2, <1>4, <1>5 DEF AllMatched

LEMMA OneLess ==
    ASSUME AllMatched(frames), frames # <<>>
    PROVE  AllMatched(SubSeq(frames, 1, Len(frames) - 1))
  <1>1. PICK X : frames \in Seq(X)
    BY DEF AllMatched
  <1>2. PICK r : r = SubSeq(frames, 1, Len(frames) - 1)
    OBVIOUS
  <1>3. r \in Seq(X) /\ \A i \in DOMAIN r : i \in DOMAIN frames /\ r[i] = frames[i]
    BY <1>1, <1>2
  <1>4. \A i \in DOMAIN r : MergesMatched(r[i])
    BY <1>3 DEF AllMatched
  <1>5. r \in Seq({r[i] : i \in DOMAIN r})
    BY <1>3, OwnElements
  <1> QED BY <1>2, <1>4, <1>5 DEF AllMatched

LEMMA TopMatched ==
    ASSUME AllMatched(frames), frames # <<>>
    PROVE  MergesMatched(Top)
  <1>1. frames \in Seq({frames[i] : i \in DOMAIN frames})
    BY DEF AllMatched
  <1>2. Len(frames) \in DOMAIN frames
    BY <1>1
  <1> QED BY <1>2 DEF AllMatched, Top

\* A call goes on, with less left of its children.
LEMMA GoesOn ==
    ASSUME AllMatched(frames), frames # <<>>, NEW g,
           DOMAIN g = DOMAIN Top, g.n = Top.n,
           g.old = Top.old \/ (Top.old # <<>> /\ g.old = Tail(Top.old)),
           g.new = Top.new \/ (Top.new # <<>> /\ g.new = Tail(Top.new))
    PROVE  MergesMatched(g) /\ AllMatched(SetTop(g))
  <1>1. MergesMatched(Top)
    BY TopMatched
  <1>2. /\ {"n", "old", "new"} \subseteq DOMAIN Top /\ Top.n \in Mapped(new)
        /\ xnew[Top.n].match # NULL
        /\ Top.old \in Seq(Mapped(old)) /\ Top.new \in Seq(Mapped(new))
    BY <1>1 DEF MergesMatched
  <1>3. g.old \in Seq(Mapped(old)) /\ g.new \in Seq(Mapped(new))
    BY <1>2, Popped
  <1>4. MergesMatched(g)
    BY <1>2, <1>3 DEF MergesMatched
  <1> QED BY <1>4, TopSet

LEMMA DeleteKeeps ==
    ASSUME AllMatched(frames), frames # <<>>, Top.old # <<>>, Delete
    PROVE  AllMatched(frames')
  <1> DEFINE g == [Top EXCEPT !.old = Tail(@)]
  <1>1. MergesMatched(Top)
    BY TopMatched
  <1>2. /\ DOMAIN g = DOMAIN Top /\ g.n = Top.n /\ g.new = Top.new /\ g.old = Tail(Top.old)
    BY <1>1 DEF MergesMatched
  <1>3. frames' = SetTop(g)
    BY DEF Delete
  <1> HIDE DEF g
  <1> QED BY <1>2, <1>3, GoesOn

LEMMA InsertKeeps ==
    ASSUME AllMatched(frames), frames # <<>>, Top.new # <<>>, NEW next, InsertNext(next)
    PROVE  AllMatched(frames')
  <1> DEFINE g == [Top EXCEPT !.new = Tail(@), !.at = next]
  <1>1. MergesMatched(Top)
    BY TopMatched
  <1>2. /\ DOMAIN g = DOMAIN Top /\ g.n = Top.n /\ g.old = Top.old /\ g.new = Tail(Top.new)
    BY <1>1 DEF MergesMatched
  <1>3. frames' = SetTop(g)
    BY DEF InsertNext
  <1> HIDE DEF g
  <1> QED BY <1>2, <1>3, GoesOn

LEMMA GotoKeeps ==
    ASSUME AllMatched(frames), frames # <<>>, NEW next, frames' = SetTop([Top EXCEPT !.at = next])
    PROVE  AllMatched(frames')
  <1> DEFINE g == [Top EXCEPT !.at = next]
  <1>1. MergesMatched(Top)
    BY TopMatched
  <1>2. /\ DOMAIN g = DOMAIN Top /\ g.n = Top.n /\ g.old = Top.old /\ g.new = Top.new
    BY <1>1 DEF MergesMatched
  <1>3. frames' = SetTop(g)
    OBVIOUS
  <1> HIDE DEF g
  <1> QED BY <1>2, <1>3, GoesOn

\* A call on a matched pair starts on matched nodes.
LEMMA CalledMatched ==
    ASSUME MapsTyped, MatchesAlike, MatchesMutual, NEW n \in Mapped(new), NEW o \in Mapped(old),
           ~IsOpaque(new[n]), xold[o].match = n, NEW node
    PROVE  MergesMatched(Called(n, o, node))
  <1> DEFINE f == Called(n, o, node)
  <1>1. n # NULL /\ o # NULL
    BY Typed
  <1>2. xnew[n].match = o /\ MatchEq(n, o)
    BY <1>1, Typed DEF MatchesMutual, MatchesAlike
  <1>3. ~IsOpaque(old[o])
    BY <1>2 DEF MatchEq, IsOpaque
  <1>4. new[n].children \in Seq(Mapped(new)) /\ old[o].children \in Seq(Mapped(old))
    BY <1>3, Typed, MappedChild
  <1>5. /\ {"n", "old", "new"} \subseteq DOMAIN f /\ f.n = n
        /\ (f.old = <<>> \/ f.old = old[o].children)
        /\ (f.new = <<>> \/ f.new = new[n].children)
    BY DEF Called
  <1> HIDE DEF f
  <1>6. f.old \in Seq(Mapped(old)) /\ f.new \in Seq(Mapped(new))
    <2>1. <<>> \in Seq(Mapped(old)) /\ <<>> \in Seq(Mapped(new))
      OBVIOUS
    <2>2. f.old \in Seq(Mapped(old))
      BY <1>4, <1>5, <2>1
    <2>3. f.new \in Seq(Mapped(new))
      BY <1>4, <1>5, <2>1
    <2> QED BY <2>2, <2>3
  <1>7. MergesMatched(f)
    BY <1>1, <1>2, <1>5, <1>6 DEF MergesMatched
  <1> QED BY <1>7 DEF f

LEMMA MergeKeeps ==
    ASSUME MatchInv, FramesMatched, Merge
    PROVE  AllMatched(frames') /\ pc' = pc /\ UNCHANGED matchVars
  <1>1. AllMatched(frames)
    BY DEF FramesMatched
  <1>2. ASSUME NEW at, NEW texts, NEW next, FlushOld(at, texts, next)
        PROVE  AllMatched(frames') /\ pc' = pc /\ UNCHANGED matchVars
    <2>1. /\ frames # <<>> /\ pc' = pc /\ UNCHANGED matchVars
          /\ IF IsGone(texts) THEN Delete ELSE Goto(next)
      BY <1>2 DEF FlushOld, In
    <2>2. CASE IsGone(texts)
      <3>1. Top.old # <<>> /\ Delete
        BY <2>1, <2>2 DEF IsGone
      <3> QED BY <1>1, <2>1, <3>1, DeleteKeeps
    <2>3. CASE ~IsGone(texts)
      <3>1. frames' = SetTop([Top EXCEPT !.at = next])
        BY <2>1, <2>3 DEF Goto
      <3> QED BY <1>1, <2>1, <3>1, GotoKeeps
    <2> QED BY <2>2, <2>3
  <1>3. ASSUME NEW at, NEW texts, NEW next, FlushNew(at, texts, next)
        PROVE  AllMatched(frames') /\ pc' = pc /\ UNCHANGED matchVars
    <2>1. /\ frames # <<>> /\ pc' = pc /\ UNCHANGED matchVars
          /\ IF IsCome(texts) THEN InsertNext(at) ELSE Goto(next)
      BY <1>3 DEF FlushNew, In
    <2>2. CASE IsCome(texts)
      <3>1. Top.new # <<>> /\ InsertNext(at)
        BY <2>1, <2>2 DEF IsCome
      <3> QED BY <1>1, <2>1, <3>1, InsertKeeps
    <2>3. CASE ~IsCome(texts)
      <3>1. frames' = SetTop([Top EXCEPT !.at = next])
        BY <2>1, <2>3 DEF Goto
      <3> QED BY <1>1, <2>1, <3>1, GotoKeeps
    <2> QED BY <2>2, <2>3
  <1>4. ASSUME CompareTexts
        PROVE  AllMatched(frames') /\ pc' = pc /\ UNCHANGED matchVars
    <2>1. frames # <<>> /\ pc' = pc /\ UNCHANGED matchVars
      BY <1>4, Zenon DEF CompareTexts, In
    <2>2. \/ frames' = SetTop([Top EXCEPT !.at = "gone2"])
          \/ /\ Top.old # <<>> /\ Top.new # <<>>
             /\ \E ses : frames' = SetTop([Top EXCEPT !.old = Tail(@), !.new = Tail(@),
                                                      !.ses = ses, !.at = "script"])
      BY <1>4, Zenon DEF CompareTexts
    <2>3. ASSUME Top.old # <<>>, Top.new # <<>>, NEW ses,
                 frames' = SetTop([Top EXCEPT !.old = Tail(@), !.new = Tail(@),
                                              !.ses = ses, !.at = "script"])
          PROVE  AllMatched(frames')
      <3> DEFINE g == [Top EXCEPT !.old = Tail(@), !.new = Tail(@), !.ses = ses, !.at = "script"]
      <3>1. MergesMatched(Top)
        BY <1>1, <2>1, TopMatched
      <3>2. /\ DOMAIN g = DOMAIN Top /\ g.n = Top.n /\ g.old = Tail(Top.old)
            /\ g.new = Tail(Top.new)
        BY <3>1 DEF MergesMatched
      <3>3. frames' = SetTop(g)
        BY <2>3
      <3> HIDE DEF g
      <3> QED BY <1>1, <2>1, <2>3, <3>2, <3>3, GoesOn
    <2>4. CASE frames' = SetTop([Top EXCEPT !.at = "gone2"])
      BY <1>1, <2>1, <2>4, GotoKeeps
    <2> QED BY <2>1, <2>2, <2>3, <2>4, Zenon
  <1>5. ASSUME MergeText
        PROVE  AllMatched(frames') /\ pc' = pc /\ UNCHANGED matchVars
    <2>1. frames # <<>> /\ pc' = pc /\ UNCHANGED matchVars
      BY <1>5 DEF MergeText, In
    <2>2. \/ frames' = SetTop([Top EXCEPT !.at = "gone2"])
          \/ frames' = SetTop([Top EXCEPT !.ses = Tail(@)])
      BY <1>5 DEF MergeText, Goto
    <2>3. ASSUME frames' = SetTop([Top EXCEPT !.ses = Tail(@)])
          PROVE  AllMatched(frames')
      <3> DEFINE g == [Top EXCEPT !.ses = Tail(@)]
      <3>1. MergesMatched(Top)
        BY <1>1, <2>1, TopMatched
      <3>2. DOMAIN g = DOMAIN Top /\ g.n = Top.n /\ g.old = Top.old /\ g.new = Top.new
        BY <3>1 DEF MergesMatched
      <3>3. frames' = SetTop(g)
        BY <2>3
      <3> HIDE DEF g
      <3> QED BY <1>1, <2>1, <3>2, <3>3, GoesOn
    <2> QED BY <1>1, <2>1, <2>2, <2>3, GotoKeeps
  <1>6. ASSUME MergeMoved
        PROVE  AllMatched(frames') /\ pc' = pc /\ UNCHANGED matchVars
    <2>1. frames # <<>> /\ Top.new # <<>> /\ InsertNext("gone") /\ pc' = pc /\ UNCHANGED matchVars
      BY <1>6 DEF MergeMoved, In
    <2> QED BY <1>1, <2>1, InsertKeeps
  <1>7. ASSUME MergeBefore
        PROVE  AllMatched(frames') /\ pc' = pc /\ UNCHANGED matchVars
    <2>1. frames # <<>> /\ IsHere /\ Delete /\ pc' = pc /\ UNCHANGED matchVars
      BY <1>7 DEF MergeBefore, In
    <2>2. Top.old # <<>>
      BY <2>1 DEF IsHere, ToSet
    <2> QED BY <1>1, <2>1, <2>2, DeleteKeeps
  <1>8. ASSUME MergeMatched
        PROVE  AllMatched(frames') /\ pc' = pc /\ UNCHANGED matchVars
    <2>1. /\ frames # <<>> /\ pc' = pc /\ UNCHANGED matchVars
          /\ Top.new # <<>> /\ Top.old # <<>>
          /\ xold[Head(Top.old)].match = Head(Top.new)
      BY <1>8 DEF MergeMatched, In
    <2> DEFINE g == [Top EXCEPT !.old = Tail(@), !.new = Tail(@), !.at = "gone"]
    <2>2. \/ frames' = SetTop(g)
          \/ /\ ~IsOpaque(new[Head(Top.new)])
             /\ frames' = Append(SetTop(g), Called(Head(Top.new), Head(Top.old), Len(merger.out) + 1))
      BY <1>8, Zenon DEF MergeMatched
    <2>3. MergesMatched(Top)
      BY <1>1, <2>1, TopMatched
    <2>4. /\ DOMAIN g = DOMAIN Top /\ g.n = Top.n /\ g.old = Tail(Top.old)
          /\ g.new = Tail(Top.new)
      BY <2>3 DEF MergesMatched
    <2> HIDE DEF g
    <2>5. AllMatched(SetTop(g))
      BY <1>1, <2>1, <2>4, GoesOn
    <2>6. ASSUME ~IsOpaque(new[Head(Top.new)]),
                 frames' = Append(SetTop(g), Called(Head(Top.new), Head(Top.old), Len(merger.out) + 1))
          PROVE  AllMatched(frames')
      <3>1. Head(Top.new) \in Mapped(new) /\ Head(Top.old) \in Mapped(old)
        BY <2>1, <2>3, Popped DEF MergesMatched
      <3>2. PICK n \in Mapped(new), o \in Mapped(old) : n = Head(Top.new) /\ o = Head(Top.old)
        BY <3>1
      <3>3. MapsTyped /\ MatchesAlike /\ MatchesMutual /\ ~IsOpaque(new[n]) /\ xold[o].match = n
        BY <2>1, <2>6, <3>2 DEF MatchInv
      <3>4. PICK f : f = Called(n, o, Len(merger.out) + 1)
        OBVIOUS
      <3>5. MergesMatched(f)
        BY <3>3, <3>4, CalledMatched
      <3>6. PICK fs : fs = SetTop(g)
        OBVIOUS
      <3>7. frames' = Append(fs, f) /\ AllMatched(fs)
        BY <2>5, <2>6, <3>2, <3>4, <3>6
      <3> QED BY <3>5, <3>7, OneMore
    <2> QED BY <2>1, <2>2, <2>5, <2>6
  <1>9. ASSUME RefReorder
        PROVE  AllMatched(frames') /\ pc' = pc /\ UNCHANGED matchVars
    <2>1. /\ frames # <<>> /\ pc' = pc /\ UNCHANGED matchVars
          /\ frames' = SetTop([Top EXCEPT !.refs = Tail(@)])
      BY <1>9 DEF RefReorder, In
    <2> DEFINE g == [Top EXCEPT !.refs = Tail(@)]
    <2>2. MergesMatched(Top)
      BY <1>1, <2>1, TopMatched
    <2>3. DOMAIN g = DOMAIN Top /\ g.n = Top.n /\ g.old = Top.old /\ g.new = Top.new
      BY <2>2 DEF MergesMatched
    <2>4. frames' = SetTop(g)
      BY <2>1
    <2> HIDE DEF g
    <2> QED BY <1>1, <2>1, <2>3, <2>4, GoesOn
  <1>10. ASSUME FlushRest
         PROVE  AllMatched(frames') /\ pc' = pc /\ UNCHANGED matchVars
    <2>1. frames # <<>> /\ Top.old # <<>> /\ Delete /\ pc' = pc /\ UNCHANGED matchVars
      BY <1>10 DEF FlushRest, AtEnd
    <2> QED BY <1>1, <2>1, DeleteKeeps
  <1>11. ASSUME EndMerge
         PROVE  AllMatched(frames') /\ pc' = pc /\ UNCHANGED matchVars
    <2>1. /\ frames # <<>> /\ pc' = pc /\ UNCHANGED matchVars
          /\ frames' = SubSeq(frames, 1, Len(frames) - 1)
      BY <1>11 DEF EndMerge, AtEnd, In
    <2> QED BY <1>1, <2>1, OneLess
  <1> QED BY <1>2, <1>3, <1>4, <1>5, <1>6, <1>7, <1>8, <1>9, <1>10, <1>11, Zenon DEF Merge

-----------------------------------------------------------------------------
(* The invariant *)

LEMMA InitInv ==
    ASSUME DiffInit
    PROVE  Inv
  <1>1. PICK pair \in Inputs : old = pair[1] /\ new = pair[2]
    BY DEF DiffInit, Init
  <1>2. IsDocument(old) /\ IsDocument(new) /\ IsTree(new)
    BY <1>1, InputsAssumption DEF IsDocument
  <1>3. /\ xold = AssignSigs(old) /\ xnew = AssignSigs(new) /\ pq = <<Root>>
        /\ down = <<>> /\ walk = <<>> /\ sibs = <<>> /\ pc = "queue" /\ frames = <<>>
    BY DEF DiffInit, Init
  <1>4. /\ xold \in Slots(old, new) /\ Signs(xold, old)
        /\ xnew \in Slots(new, old) /\ Signs(xnew, new)
        /\ \A p \in Mapped(old) : xold[p].match = NULL
        /\ \A m \in Mapped(new) : xnew[m].match = NULL
    BY <1>3, AssignedSlots
  <1>5. Root \in Mapped(new) /\ Root \in Mapped(old)
    BY <1>2, RootOf
  <1>6. MapsTyped
    BY <1>2, <1>3, <1>4 DEF MapsTyped
  <1>7. ListsTyped
    BY <1>3, <1>5 DEF ListsTyped
  <1>8. Phase /\ DownAlike /\ SibsBelow
    BY <1>3 DEF Phase, DownAlike, SibsBelow
  <1>9. Untouched(Mapped(new))
    <2> SUFFICES ASSUME NEW n \in Mapped(new), ~IsOpaque(new[n])
                 PROVE  ToSet(new[n].children) \subseteq Mapped(new)
      BY <1>4 DEF Untouched
    <2>1. \A i \in DOMAIN new[n].children : new[n].children[i] \in Mapped(new)
      BY <1>2, MappedChild
    <2> QED BY <2>1 DEF ToSet
  <1>10. Waits(Mapped(new))
    <2>1. DOMAIN pq = {1} /\ pq[1] = Root
      BY <1>3
    <2>2. OnTop(Mapped(new), Root)
      <3>1. new[Root].parent = NULL
        BY <1>2, TreeNodes
      <3> QED BY <1>5, <1>6, <3>1, Typed DEF OnTop
    <2> QED BY <1>3, <2>1, <2>2 DEF Waits
  <1>11. RootsMeet
    <2>1. 1 \in DOMAIN pq /\ pq[1] = Root
      BY <1>3
    <2> QED BY <1>3, <1>4, <1>5, <2>1 DEF RootsMeet
  <1>12. MatchesMutual /\ MatchesAlike
    BY <1>4, <1>6, Typed DEF MatchesMutual, MatchesAlike
  <1>13. FramesMatched
    BY <1>3 DEF FramesMatched, AllMatched
  <1>14. MatchInv
    BY <1>6, <1>7, <1>8, <1>9, <1>10, <1>11, <1>12 DEF MatchInv
  <1> QED BY <1>13, <1>14 DEF Inv

\* While nodes are matched, no call of node_merge is made.
LEMMA MatchKeeps ==
    ASSUME MatchInv, Match
    PROVE  MatchInv' /\ pc # "merge" /\ frames' = frames /\ pc' # "merge"
  <1>1. frames' = frames
    BY Zenon DEF Match
  <1>2. CASE NoMatch
    BY <1>1, <1>2, NoMatchKeeps DEF NoMatch
  <1>3. CASE QueueChild
    BY <1>1, <1>3, QueueChildKeeps DEF QueueChild
  <1>4. CASE MatchBest
    BY <1>1, <1>4, MatchBestKeeps DEF MatchBest
  <1>5. CASE MatchDown
    <2>1. pc = "down" /\ pc' = pc
      BY <1>5, Zenon DEF MatchDown
    <2> QED BY <1>1, <1>5, <2>1, MatchDownKeeps
  <1>6. CASE MatchedDown
    BY <1>1, <1>6, MatchedDownKeeps DEF MatchedDown
  <1>7. CASE MatchUp
    BY <1>1, <1>7, MatchUpKeeps DEF MatchUp
  <1>8. CASE MatchedUp
    BY <1>1, <1>8, MatchedUpKeeps DEF MatchedUp
  <1>9. CASE QueueEmpty
    BY <1>1, <1>9, QueueEmptyKeeps DEF QueueEmpty
  <1>10. CASE OptimiseTopdown
    BY <1>1, <1>10, OptimiseTopdownKeeps DEF OptimiseTopdown
  <1>11. CASE TryNext
    <2>1. pc = "topdown" /\ pc' = pc
      BY <1>11, Zenon DEF TryNext
    <2> QED BY <1>1, <1>11, <2>1, TryNextKeeps
  <1>12. CASE StartBottomup
    BY <1>1, <1>12, StartBottomupKeeps DEF StartBottomup
  <1>13. CASE OptimiseBottomup
    <2>1. pc = "bottomup" /\ pc' = pc
      BY <1>13, Zenon DEF OptimiseBottomup
    <2> QED BY <1>1, <1>13, <2>1, OptimiseBottomupKeeps
  <1> QED BY <1>2, <1>3, <1>4, <1>5, <1>6, <1>7, <1>8, <1>9, <1>10, <1>11, <1>12, <1>13,
             Zenon DEF Match

\* The trees and the maps stay as they are.
LEMMA SettledKeeps ==
    ASSUME MatchInv, pc \in {"topdown", "bottomup", "merge", "returned"},
           pc' \in {"merge", "returned"}, pc = "bottomup" => walk = <<>>,
           pc = "topdown" => pc' = "topdown", UNCHANGED matchVars
    PROVE  MatchInv'
  <1>1. UNCHANGED <<old, new, xold, xnew, pq, down, climb, walk, sibs>>
    BY DEF matchVars
  <1>2. /\ MapsTyped /\ MatchesMutual /\ MatchesAlike /\ SibsBelow /\ RootsMatched
        /\ pq = <<>> /\ down = <<>> /\ sibs = <<>> /\ walk \in Seq(Mapped(new))
    <2>1. pc # "topdown"
      OBVIOUS
    <2>2. pc = "bottomup" => walk \in Seq(Mapped(new))
      OBVIOUS
    <2> QED BY <2>1, <2>2, Late
  <1>3. MapsTyped' /\ MatchesMutual' /\ MatchesAlike' /\ RootsMatched'
    BY <1>1, <1>2, SameMaps
  <1>4. SibsBelow' /\ sibs' = <<>> /\ sibs' \in Seq(Mapped(new'))
    BY <1>1, <1>2 DEF SibsBelow
  <1>5. walk' \in Seq(Mapped(new')) /\ pq' = <<>> /\ down' = <<>>
    BY <1>1, <1>2
  <1> QED BY <1>3, <1>4, <1>5, LateKeeps

LEMMA SettledFrames ==
    ASSUME UNCHANGED matchVars, NEW fs, AllMatched(fs), frames' = fs,
           pc' # "merge" => frames' = <<>>
    PROVE  FramesMatched'
  <1>1. new' = new /\ old' = old /\ xnew' = xnew
    BY DEF matchVars
  <1>2. AllMatched(fs)'
    BY <1>1 DEF AllMatched, MergesMatched
  <1>3. AllMatched(frames)'
    BY <1>2 DEF AllMatched, MergesMatched
  <1> QED BY <1>3 DEF FramesMatched

LEMMA StepInv ==
    ASSUME Inv, [Next]_vars
    PROVE  Inv'
  <1>1. MatchInv /\ FramesMatched /\ AllMatched(frames)
    BY DEF Inv, FramesMatched
  <1>2. CASE Match
    <2>1. MatchInv' /\ pc # "merge" /\ frames' = frames /\ pc' # "merge"
      BY <1>1, <1>2, MatchKeeps
    <2>2. frames' = <<>>
      BY <1>1, <2>1 DEF FramesMatched
    <2>3. FramesMatched'
      BY <2>1, <2>2 DEF FramesMatched, AllMatched
    <2> QED BY <2>1, <2>3 DEF Inv
  <1>3. CASE StartMerge
    <2>1. /\ pc = "bottomup" /\ walk = <<>> /\ pc' = "merge" /\ UNCHANGED matchVars
          /\ frames' = <<Called(Root, Root, 1)>>
      BY <1>3 DEF StartMerge
    <2>2. MatchInv'
      BY <1>1, <2>1, SettledKeeps
    <2>3. PICK f : f = Called(Root, Root, 1)
      OBVIOUS
    <2>4. MergesMatched(f)
      <3>1. MapsTyped /\ MatchesMutual /\ MatchesAlike /\ RootsMatched
        BY <1>1, <2>1, Late
      <3>2. Root \in Mapped(new) /\ Root \in Mapped(old) /\ ~IsOpaque(new[Root])
        BY <3>1, Typed, RootOf
      <3>3. xold[Root].match = Root
        BY <3>1 DEF RootsMatched
      <3> QED BY <2>3, <3>1, <3>2, <3>3, CalledMatched
    <2>5. AllMatched(<<f>>)
      BY <2>4 DEF AllMatched
    <2>6. FramesMatched'
      BY <2>1, <2>3, <2>5, SettledFrames
    <2> QED BY <2>2, <2>6 DEF Inv
  <1>4. CASE Merge
    <2>1. AllMatched(frames') /\ pc' = pc /\ UNCHANGED matchVars
      BY <1>1, <1>4, MergeKeeps
    <2>2. pc = "merge"
      BY <1>4, Zenon DEF Merge, FlushOld, FlushNew, CompareTexts, MergeText, MergeMoved,
         MergeBefore, MergeMatched, RefReorder, FlushRest, EndMerge, AtEnd, In
    <2>3. MatchInv'
      BY <1>1, <2>1, <2>2, SettledKeeps
    <2>4. PICK fs : fs = frames'
      OBVIOUS
    <2>5. FramesMatched'
      BY <2>1, <2>2, <2>4, SettledFrames
    <2> QED BY <2>3, <2>5 DEF Inv
  <1>5. CASE Return
    <2>1. /\ pc = "merge" /\ frames = <<>> /\ pc' = "returned" /\ UNCHANGED matchVars
          /\ frames' = frames
      BY <1>5 DEF Return
    <2>2. MatchInv'
      BY <1>1, <2>1, SettledKeeps
    <2>3. FramesMatched'
      BY <1>1, <2>1, SettledFrames
    <2> QED BY <2>2, <2>3 DEF Inv
  <1>6. CASE UNCHANGED vars
    <2>1. UNCHANGED <<pc, old, new, xold, xnew, pq, down, climb, walk, sibs, frames>>
      BY <1>6 DEF vars, matchVars
    <2>2. UNCHANGED matchVars
      BY <1>6 DEF vars
    <2>3. FramesMatched'
      BY <1>1, <2>1, <2>2, SettledFrames DEF FramesMatched
    <2>4. MatchInv'
      <3>1. /\ MapsTyped /\ ListsTyped /\ Phase /\ DownAlike /\ SibsBelow /\ RootsMeet
            /\ MatchesMutual /\ MatchesAlike
        BY <1>1 DEF MatchInv
      <3>2. PICK U \in SUBSET Mapped(new) : Untouched(U) /\ Waits(U)
        BY <1>1 DEF MatchInv
      <3>3. Untouched(U)' /\ Waits(U)'
        BY <2>1, <3>2 DEF Untouched, Waits, OnTop
      <3>4. MapsTyped' /\ MatchesMutual' /\ MatchesAlike'
        BY <2>1, <3>1 DEF MapsTyped, MatchesMutual, MatchesAlike, MatchEq
      <3>5. ListsTyped' /\ Phase' /\ DownAlike' /\ SibsBelow'
        BY <2>1, <3>1 DEF ListsTyped, Phase, DownAlike, SibsBelow
      <3>6. RootsMeet'
        BY <2>1, <3>1 DEF RootsMeet, Footer
      <3>7. U \in SUBSET Mapped(new)'
        BY <2>1, <3>2
      <3> QED BY <3>3, <3>4, <3>5, <3>6, <3>7 DEF MatchInv
    <2> QED BY <2>3, <2>4 DEF Inv
  <1> QED BY <1>2, <1>3, <1>4, <1>5, <1>6 DEF Next

LEMMA SpecInv ==
    Spec => []Inv
  <1>1. DiffInit => Inv
    BY InitInv
  <1>2. Inv /\ [Next]_vars => Inv'
    BY StepInv
  <1> QED BY <1>1, <1>2, PTL DEF Spec

\* Whatever is matched in whatever order, the new node an old node is matched
\* with is matched with it, and until the last optimisation the other way
\* round: what node_merge relies on where it goes down a pair of nodes, and
\* match_down where it takes an old node from a smaller match.
THEOREM MutualMatches ==
    Spec => []MatchesMutual
  <1>1. Inv => MatchesMutual
    BY DEF Inv, MatchInv
  <1> QED BY <1>1, SpecInv, PTL

\* Matched nodes are of one type and agree in what node_merge takes from the
\* new one for both, and matched tables and metadata are the same throughout.
THEOREM AlikeMatches ==
    Spec => []MatchesAlike
  <1>1. Inv => MatchesAlike
    BY DEF Inv, MatchInv
  <1> QED BY <1>1, SpecInv, PTL

\* The asserts of mdown_diff, pqueue, match_down and node_merge hold for any
\* two documents: what waits in the queue has no match and waits once,
\* match_down meets nodes that are alike, the roots end up matched with one
\* another, and node_merge is called on matched nodes only.
THEOREM NoAssertFails ==
    Spec => []AssertsHold
  <1>1. ASSUME Inv
        PROVE  AssertsHold
    <2>1. /\ MapsTyped /\ ListsTyped /\ Phase /\ DownAlike /\ RootsMeet
          /\ FramesMatched
      BY <1>1 DEF Inv, MatchInv
    <2>2. PICK U \in SUBSET Mapped(new) : Untouched(U) /\ Waits(U)
      BY <1>1 DEF Inv, MatchInv
    <2>3. QueuedUnmatched
      <3>1. \A i \in DOMAIN pq : xnew[pq[i]].match = NULL
        BY <2>2 DEF Waits, OnTop, Untouched
      <3>2. \A i, j \in DOMAIN pq : pq[i] = pq[j] => i = j
        BY <2>2 DEF Waits
      <3>3. pc = "queue" => \A i \in DOMAIN walk :
                xnew[walk[i]].match = NULL /\ \A j \in DOMAIN pq : walk[i] # pq[j]
        BY <2>2 DEF Waits, OnTop, Untouched
      <3> QED BY <3>1, <3>2, <3>3 DEF QueuedUnmatched, ToSet, IsInjective
    <2>4. DownPairsAlike
      <3> SUFFICES ASSUME NEW i \in DOMAIN down,
                          NEW n, NEW o, n = down[i][1], o = down[i][2]
                   PROVE  /\ xnew[n].match = NULL
                          /\ Len(new[n].children) = Len(old[o].children)
                          /\ IsOpaque(new[n]) <=> IsOpaque(old[o])
        BY DEF DownPairsAlike
      <3>1. pc = "down"
        BY <2>1 DEF Phase
      <3>2. xnew[n].match = NULL
        BY <2>2, <3>1 DEF Waits, OnTop, Untouched
      <3>3. n \in Mapped(new) /\ o \in Mapped(old)
        <4>1. down[i] \in Mapped(new) \X Mapped(old)
          BY <2>1 DEF ListsTyped
        <4> QED BY <4>1
      <3>4. xnew[n].sig = xold[o].sig
        BY <2>1 DEF DownAlike
      <3>5. /\ Signatures(new)[n] = Signatures(old)[o]
            /\ n \in DOMAIN new /\ o \in DOMAIN old /\ IsTree(new) /\ IsTree(old)
        BY <2>1, <3>3, <3>4, Typed DEF Signs
      <3>6. new[n].type = old[o].type /\ DOMAIN new[n].children = DOMAIN old[o].children
        BY <3>5, SameSignature
      <3>7. new[n].children \in Seq(Nat) /\ old[o].children \in Seq(Nat)
        BY <3>5, Children
      <3>8. Len(new[n].children) = Len(old[o].children)
        BY <3>6, <3>7
      <3> QED BY <3>2, <3>6, <3>8 DEF IsOpaque
    <2>5. ASSUME pc = "merge"
          PROVE  /\ xnew[Root].match = Root /\ xold[Root].match = Root
                 /\ \A i \in DOMAIN frames : xnew[frames[i].n].match # NULL
      BY <2>1, <2>5 DEF RootsMeet, FramesMatched, AllMatched, MergesMatched
    <2> QED BY <2>3, <2>4, <2>5 DEF AssertsHold
  <1> QED BY <1>1, SpecInv, PTL
===============================================================================
