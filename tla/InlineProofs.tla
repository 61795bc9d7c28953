----------------------------- MODULE InlineProofs -----------------------------
(***************************************************************************)
(* Proofs about Inline, and FirstPass around it: for any text the spans    *)
(* that are found are nested and in order, the assert of char_linebreak    *)
(* holds, and every round of parse_inline gets further.                    *)
(***************************************************************************)
EXTENDS FirstPass, TLAPS, SequenceTheorems, FiniteSetTheorems, WellFoundedInduction

-----------------------------------------------------------------------------
(* Functions defined by recursion *)

\* A set of numbers up to a bound that has 0 and, with one, the next one.
LEMMA AllUpTo ==
    ASSUME NEW S, NEW bound \in Nat, 0 \in S,
           \A l \in 0..bound - 1 : l \in S => l + 1 \in S
    PROVE  0..bound \subseteq S
  <1> SUFFICES ASSUME NEW k \in 0..bound, k \notin S
               PROVE  FALSE
    OBVIOUS
  <1> DEFINE T == {l \in 0..bound : l \notin S}
  <1>1. PICK l \in T : \A q \in T : ~(<<q, l>> \in OpToRel(<, Nat))
    <2>1. T \subseteq Nat /\ T # {}
      OBVIOUS
    <2> QED BY <2>1, NatLessThanWellFounded, WFMin
  <1>2. ASSUME NEW q \in T, q < l
        PROVE  FALSE
    <2>1. <<q, l>> \in Nat \X Nat /\ <<q, l>>[1] < <<q, l>>[2]
      BY <1>2
    <2>2. <<q, l>> \in OpToRel(<, Nat)
      BY ONLY <2>1 DEF OpToRel
    <2> QED BY <1>1, <2>2
  <1>3. l \in 1..bound /\ l - 1 \in 0..bound - 1
    <2>1. l # 0
      OBVIOUS
    <2> QED BY <2>1
  <1>4. l - 1 \in S
    <2>1. l - 1 \notin T
      BY <1>2, <1>3
    <2> QED BY <1>3, <2>1
  <1>5. (l - 1) + 1 \in S
    BY <1>3, <1>4
  <1> QED BY <1>3, <1>5

\* B defines a value in V for each element of D, of which it refers to those
\* of a lower rank only,
Ranked(D, rank, N) == N \in Nat /\ \A x \in D : rank[x] \in 0..N
Recursive(D, rank, V, B) ==
    /\ \A x \in D : \A g \in [D -> V] : B[x][g] \in V
    /\ \A x \in D : \A g, h \in [D -> V] :
          (\A y \in D : rank[y] < rank[x] => g[y] = h[y]) => B[x][g] = B[x][h]

\* so there is a function that satisfies the definition.
LEMMA Recursion ==
    ASSUME NEW D, NEW rank, NEW N, Ranked(D, rank, N), NEW V, NEW v \in V,
           NEW B, Recursive(D, rank, V, B)
    PROVE  \E f \in [D -> V] : \A x \in D : f[x] = B[x][f]
  <1> USE DEF Ranked, Recursive
  <1> DEFINE S == {l \in 0..N + 1 :
                       \E f \in [D -> V] : \A x \in D : rank[x] < l => f[x] = B[x][f]}
  <1>1. 0 \in S
    <2>1. [x \in D |-> v] \in [D -> V]
      OBVIOUS
    <2>2. \A x \in D : ~(rank[x] < 0)
      OBVIOUS
    <2>3. 0 \in 0..N + 1
      OBVIOUS
    <2> QED BY <2>1, <2>2, <2>3
  <1>2. ASSUME NEW l \in 0..N, l \in S
        PROVE  l + 1 \in S
    <2>1. PICK f \in [D -> V] : \A x \in D : rank[x] < l => f[x] = B[x][f]
      BY <1>2
    <2> DEFINE g == [x \in D |-> IF rank[x] < l THEN f[x] ELSE B[x][f]]
    <2>2. g \in [D -> V]
      <3>1. \A x \in D : f[x] \in V /\ B[x][f] \in V
        BY <2>1
      <3> QED BY <3>1
    <2>3. ASSUME NEW x \in D, rank[x] < l + 1
          PROVE  g[x] = B[x][g]
      <3>1. \A y \in D : rank[y] < rank[x] => g[y] = f[y]
        <4>1. ASSUME NEW y \in D, rank[y] < rank[x]
              PROVE  rank[y] < l
          BY <2>3, <4>1
        <4> QED BY <4>1
      <3>2. B[x][g] = B[x][f]
        BY <3>1, <2>1, <2>2
      <3>3. g[x] = B[x][f]
        BY <2>1
      <3> QED BY <3>2, <3>3
    <2>4. l + 1 \in 0..N + 1
      OBVIOUS
    <2> HIDE DEF g
    <2> QED BY <2>2, <2>3, <2>4
  <1>3. 0..N + 1 \subseteq S
    <2> HIDE DEF S
    <2>1. \A l \in 0..(N + 1) - 1 : l \in S => l + 1 \in S
      BY <1>2
    <2> QED BY <1>1, <2>1, AllUpTo
  <1>4. PICK f \in [D -> V] : \A x \in D : rank[x] < N + 1 => f[x] = B[x][f]
    <2>1. N + 1 \in S
      BY <1>3
    <2> QED BY <2>1
  <1>5. \A x \in D : rank[x] < N + 1
    OBVIOUS
  <1> QED BY <1>4, <1>5

\* What holds of an element if it holds of all of a lower rank holds of all.
LEMMA ByRank ==
    ASSUME NEW D, NEW rank, NEW N, Ranked(D, rank, N),
           NEW G, \A x \in D : (\A y \in D : rank[y] < rank[x] => y \in G) => x \in G
    PROVE  D \subseteq G
  <1> USE DEF Ranked
  <1> DEFINE S == {l \in 0..N + 1 : \A x \in D : rank[x] < l => x \in G}
  <1>1. 0 \in S
    <2>1. \A x \in D : ~(rank[x] < 0)
      OBVIOUS
    <2> QED BY <2>1
  <1>2. ASSUME NEW l \in 0..N, l \in S
        PROVE  l + 1 \in S
    <2>1. ASSUME NEW x \in D, rank[x] < l + 1
          PROVE  x \in G
      <3>1. \A y \in D : rank[y] < rank[x] => y \in G
        <4>1. ASSUME NEW y \in D, rank[y] < rank[x]
              PROVE  rank[y] < l
          BY <2>1, <4>1
        <4> QED BY <4>1, <1>2
      <3> QED BY <3>1
    <2>2. l + 1 \in 0..N + 1
      OBVIOUS
    <2> QED BY <2>1, <2>2
  <1>3. 0..N + 1 \subseteq S
    <2> HIDE DEF S
    <2>1. \A l \in 0..(N + 1) - 1 : l \in S => l + 1 \in S
      BY <1>2
    <2> QED BY <1>1, <2>1, AllUpTo
  <1>4. N + 1 \in S
    BY <1>3
  <1>5. \A x \in D : rank[x] < N + 1
    OBVIOUS
  <1> QED BY <1>4, <1>5

\* The same of a function that at each element either has a value in V or goes
\* on at an element of a lower rank: it exists, and its values are in V.
GoesOn(D, rank, V, B) ==
    \A x \in D :
        \/ \E w \in V : \A g \in [D -> V] : B[x][g] = w
        \/ \E y \in D : rank[y] < rank[x] /\ \A g \in [D -> V] : B[x][g] = g[y]
Follows(D, rank, V, f) ==
    \A x \in D :
        f[x] \in V \/ \E y \in D : rank[y] < rank[x] /\ (f[y] \in V => f[x] = f[y])

LEMMA TailRecursion ==
    ASSUME NEW D, NEW rank, NEW N, Ranked(D, rank, N), NEW V, NEW v \in V,
           NEW B, GoesOn(D, rank, V, B)
    PROVE  \E f \in [D -> V] : \A x \in D : f[x] = B[x][f]
  <1> USE DEF GoesOn
  <1>1. \A x \in D : \A g \in [D -> V] : B[x][g] \in V
    OBVIOUS
  <1>2. \A x \in D : \A g, h \in [D -> V] :
            (\A y \in D : rank[y] < rank[x] => g[y] = h[y]) => B[x][g] = B[x][h]
    <2> SUFFICES ASSUME NEW x \in D, NEW g \in [D -> V], NEW h \in [D -> V],
                        \A y \in D : rank[y] < rank[x] => g[y] = h[y]
                 PROVE  B[x][g] = B[x][h]
      OBVIOUS
    <2>1. CASE \E w \in V : \A k \in [D -> V] : B[x][k] = w
      BY <2>1
    <2>2. CASE \E y \in D : rank[y] < rank[x] /\ \A k \in [D -> V] : B[x][k] = k[y]
      BY <2>2
    <2> QED BY <2>1, <2>2
  <1>3. Recursive(D, rank, V, B)
    BY <1>1, <1>2 DEF Recursive
  <1> QED BY ONLY Ranked(D, rank, N), v \in V, <1>3, Recursion

LEMMA TailValues ==
    ASSUME NEW D, NEW rank, NEW N, Ranked(D, rank, N), NEW V, NEW f,
           Follows(D, rank, V, f)
    PROVE  \A x \in D : f[x] \in V
  <1> USE DEF Follows
  <1> DEFINE G == {x \in D : f[x] \in V}
  <1>1. \A x \in D : (\A y \in D : rank[y] < rank[x] => y \in G) => x \in G
    OBVIOUS
  <1>2. D \subseteq G
    <2> HIDE DEF G
    <2> QED BY <1>1, ByRank
  <1> QED BY <1>2

-----------------------------------------------------------------------------
(* The least and the greatest number of a set *)

LEMMA Least ==
    ASSUME NEW T, T \subseteq Nat, NEW e \in T
    PROVE  \E l \in T : \A q \in T : l <= q
  <1>1. PICK l \in T : \A q \in T : ~(<<q, l>> \in OpToRel(<, Nat))
    <2>1. T \subseteq Nat /\ T # {}
      OBVIOUS
    <2> QED BY <2>1, NatLessThanWellFounded, WFMin
  <1>2. ASSUME NEW q \in T, q < l
        PROVE  FALSE
    <2>1. <<q, l>> \in Nat \X Nat /\ <<q, l>>[1] < <<q, l>>[2]
      BY <1>2
    <2>2. <<q, l>> \in OpToRel(<, Nat)
      BY ONLY <2>1 DEF OpToRel
    <2> QED BY <1>1, <2>2
  <1>3. \A q \in T : l <= q
    BY <1>2
  <1> QED BY ONLY <1>3

LEMMA MinOf ==
    ASSUME NEW S, NEW lo \in Int, S \subseteq Int, \A x \in S : lo <= x, NEW e \in S
    PROVE  Min(S) \in S /\ \A x \in S : Min(S) <= x
  <1> DEFINE T == {n \in Nat : lo + n \in S}
  <1>1. \A x \in S : x - lo \in T
    <2>1. \A x \in S : x \in Int /\ lo <= x /\ lo + (x - lo) = x
      OBVIOUS
    <2> QED BY <2>1
  <1>2. PICK l \in T : \A q \in T : l <= q
    <2>1. T \subseteq Nat
      OBVIOUS
    <2> HIDE DEF T
    <2> QED BY <1>1, <2>1, Least
  <1>3. lo + l \in S /\ \A x \in S : lo + l <= x
    BY <1>1, <1>2
  <1>4. \E m \in S : \A x \in S : m <= x
    BY <1>3
  <1> QED BY <1>4 DEF Min

LEMMA MaxOf ==
    ASSUME NEW S, NEW hi \in Int, S \subseteq Int, \A x \in S : x <= hi, NEW e \in S
    PROVE  Max(S) \in S /\ \A x \in S : x <= Max(S)
  <1> DEFINE T == {n \in Nat : hi - n \in S}
  <1>1. \A x \in S : hi - x \in T
    <2>1. \A x \in S : x \in Int /\ x <= hi /\ hi - (hi - x) = x
      OBVIOUS
    <2> QED BY <2>1
  <1>2. PICK l \in T : \A q \in T : l <= q
    <2>1. T \subseteq Nat
      OBVIOUS
    <2> HIDE DEF T
    <2> QED BY <1>1, <2>1, Least
  <1>3. hi - l \in S /\ \A x \in S : hi - l >= x
    BY <1>1, <1>2
  <1>4. \E m \in S : \A x \in S : m >= x
    BY <1>3
  <1>5. Max(S) \in S /\ \A x \in S : Max(S) >= x
    BY <1>4 DEF Max
  <1>6. \A x \in S : x \in Int /\ Max(S) \in Int
    BY <1>5
  <1> QED BY <1>5, <1>6

LEMMA MinOf2 ==
    ASSUME NEW x \in Int, NEW y \in Int
    PROVE  /\ Min({x, y}) \in {x, y} /\ Min({x, y}) <= x /\ Min({x, y}) <= y
  <1> DEFINE lo == IF x <= y THEN x ELSE y
  <1>1. lo \in Int /\ {x, y} \subseteq Int /\ \A z \in {x, y} : lo <= z
    OBVIOUS
  <1>2. x \in {x, y} /\ y \in {x, y}
    OBVIOUS
  <1> QED BY <1>1, <1>2, MinOf

-----------------------------------------------------------------------------
(* Searching in a text *)

LEMMA UntilFinds ==
    ASSUME NEW s, NEW p \in Int, NEW stop \in Int, NEW C
    PROVE  /\ Until(s, p, stop, C) \in Int /\ p <= Until(s, p, stop, C)
           /\ p <= stop => Until(s, p, stop, C) <= stop
           /\ p >= stop => Until(s, p, stop, C) = p
           /\ Until(s, p, stop, C) < stop => s[Until(s, p, stop, C)] \in C
           /\ \A q \in p..Until(s, p, stop, C) - 1 : s[q] \notin C
  <1>1. CASE p >= stop
    BY <1>1 DEF Until
  <1>2. CASE p < stop
    <2> DEFINE S == {q \in p..stop - 1 : s[q] \in C} \cup {stop}
    <2>1. S \subseteq Int /\ (\A x \in S : p <= x) /\ stop \in S
      BY <1>2
    <2>2. Min(S) \in S /\ \A x \in S : Min(S) <= x
      BY <2>1, MinOf
    <2>3. Until(s, p, stop, C) = Min(S)
      BY <1>2 DEF Until
    <2> QED BY <2>2, <2>3, <1>2
  <1> QED BY <1>1, <1>2

LEMMA PastFinds ==
    ASSUME NEW s, NEW p \in Int, NEW stop \in Int, NEW C
    PROVE  /\ Past(s, p, stop, C) \in Int /\ p <= Past(s, p, stop, C)
           /\ p <= stop => Past(s, p, stop, C) <= stop
           /\ p >= stop => Past(s, p, stop, C) = p
           /\ Past(s, p, stop, C) < stop => s[Past(s, p, stop, C)] \notin C
           /\ \A q \in p..Past(s, p, stop, C) - 1 : s[q] \in C
  <1>1. CASE p >= stop
    BY <1>1 DEF Past
  <1>2. CASE p < stop
    <2> DEFINE S == {q \in p..stop - 1 : s[q] \notin C} \cup {stop}
    <2>1. S \subseteq Int /\ (\A x \in S : p <= x) /\ stop \in S
      BY <1>2
    <2>2. Min(S) \in S /\ \A x \in S : Min(S) <= x
      BY <2>1, MinOf
    <2>3. Past(s, p, stop, C) = Min(S)
      BY <1>2 DEF Past
    <2> QED BY <2>2, <2>3, <1>2
  <1> QED BY <1>1, <1>2

\* The backticks that close those at p are behind them.
LEMMA CodeEnds ==
    ASSUME NEW s, NEW p \in Int, NEW stop \in Int, p < stop, s[p] = "tick"
    PROVE  \/ CodeEnd(s, p, stop) = 0
           \/ /\ CodeEnd(s, p, stop) \in Int /\ CodeEnd(s, p, stop) <= stop
              /\ p < Past(s, p, stop, {"tick"})
              /\ CodeEnd(s, p, stop) >=
                     Past(s, p, stop, {"tick"}) + (Past(s, p, stop, {"tick"}) - p)
              /\ \A k \in 1..Past(s, p, stop, {"tick"}) - p : s[CodeEnd(s, p, stop) - k] = "tick"
  <1> DEFINE open == Past(s, p, stop, {"tick"})
             n == open - p
             ends == {r \in open + n..stop : \A k \in 1..n : s[r - k] = "tick"}
  <1>1. open \in Int /\ p <= open /\ (open < stop => s[open] \notin {"tick"})
    BY PastFinds
  <1>2. p < open
    BY <1>1
  <1>3. CodeEnd(s, p, stop) = IF ends = {} THEN 0 ELSE Min(ends)
    BY DEF CodeEnd
  <1> HIDE DEF open
  <1>4. ends \subseteq Int /\ (\A x \in ends : open + n <= x /\ x <= stop) /\ open + n \in Int
    BY <1>1
  <1>5. ASSUME NEW e \in ends
        PROVE  Min(ends) \in ends
    <2> HIDE DEF ends, n
    <2> QED BY <1>4, MinOf
  <1>6. ends = {} \/ (/\ Min(ends) \in Int /\ open + n <= Min(ends) /\ Min(ends) <= stop
                      /\ \A k \in 1..n : s[Min(ends) - k] = "tick")
    BY <1>4, <1>5
  <1> QED BY <1>1, <1>2, <1>3, <1>6 DEF open

\* Where find_emph_char finds the character.
LEMMA EmphFound ==
    ASSUME NEW s, NEW from \in Int, NEW stop \in Int, NEW c, from <= stop + 1
    PROVE  /\ FindEmph(s, from, stop, c) \in Nat
           /\ FindEmph(s, from, stop, c) # 0 =>
                  /\ from + FindEmph(s, from, stop, c) < stop
                  /\ s[from + FindEmph(s, from, stop, c)] = c
  <1> DEFINE D == from..stop + 1
             V == {n \in Nat : n # 0 => from + n < stop /\ s[from + n] = c}
             Q(p) == Until(s, p, stop, {c, "[", "tick"})
             Code(p) == CodeEnd(s, Q(p), stop)
             BoxEnd(p) == Until(s, Q(p) + 1, stop, {"]"})
             Dest(p) == Past(s, BoxEnd(p) + 1, stop, Spaces)
             Linked(p) == Dest(p) < stop /\ s[Dest(p)] \in {"[", "("}
             Close(p) ==
                 IF Linked(p)
                 THEN Until(s, Dest(p) + 1, stop, {IF s[Dest(p)] = "[" THEN "]" ELSE ")"})
                 ELSE Dest(p)
             Within(P) == IF \E r \in P : s[r] = c
                          THEN Min({r \in P : s[r] = c}) - from ELSE 0
             InLink(p) == Within(Q(p) + 1..BoxEnd(p) - 1 \cup Dest(p) + 1..Close(p) - 1)
             Body(p, g) ==
               IF Q(p) >= stop THEN 0
               ELSE IF IsEscaped(s, from, Q(p)) THEN g[Q(p) + 1]
               ELSE IF s[Q(p)] = c THEN Q(p) - from
               ELSE IF s[Q(p)] = "tick"
               THEN IF Code(p) # 0 THEN g[Code(p)] ELSE Within(Q(p)..stop - 1)
               ELSE IF Linked(p) /\ Close(p) < stop THEN g[Close(p) + 1]
               ELSE IF Linked(p) \/ Dest(p) >= stop \/ InLink(p) # 0 THEN InLink(p)
               ELSE g[Dest(p)]
             f == CHOOSE g : g = [p \in D |-> Body(p, g)]
             rank == [p \in D |-> stop + 1 - p]
  <1>1. FindEmph(s, from, stop, c) = f[from]
    BY DEF FindEmph
  <1> HIDE DEF Body, f, Within, InLink, Close, Linked, Dest, BoxEnd, Code, Q
  <1>2. ASSUME NEW P, P \subseteq from..stop - 1
        PROVE  Within(P) \in V
    <2>1. CASE \E r \in P : s[r] = c
      <3> DEFINE S == {r \in P : s[r] = c}
      <3>1. S \subseteq Int /\ \A x \in S : from <= x /\ x < stop /\ s[x] = c
        <4>1. \A x \in P : x \in Int /\ from <= x /\ x < stop
          BY <1>2
        <4> QED BY <4>1
      <3>2. PICK r \in S : TRUE
        BY <2>1
      <3>3. Within(P) = Min(S) - from
        BY <2>1 DEF Within
      <3> HIDE DEF S
      <3>4. Min(S) \in S
        BY <3>1, <3>2, MinOf
      <3>5. Min(S) - from \in Nat /\ from + (Min(S) - from) = Min(S)
        <4>1. Min(S) \in Int /\ from <= Min(S)
          BY <3>1, <3>4
        <4> QED BY <4>1
      <3> QED BY <3>1, <3>3, <3>4, <3>5
    <2> QED BY <2>1 DEF Within
  <1>3. ASSUME NEW p \in D
        PROVE  \/ \E w \in V : \A g : Body(p, g) = w
               \/ \E r \in D : rank[r] < rank[p] /\ \A g : Body(p, g) = g[r]
    <2>0. \A r \in D : p < r => rank[r] < rank[p]
      OBVIOUS
    <2>1. Q(p) \in Int /\ p <= Q(p) /\ from <= p /\ p \in Int /\ p <= stop + 1
      BY UntilFinds DEF Q
    <2>2. CASE Q(p) >= stop
      <3>1. \A g : Body(p, g) = 0
        BY <2>2 DEF Body
      <3> QED BY <3>1
    <2>3. CASE Q(p) < stop /\ IsEscaped(s, from, Q(p))
      <3>1. \A g : Body(p, g) = g[Q(p) + 1]
        BY <2>1, <2>3 DEF Body
      <3> QED BY <3>1, <2>0, <2>1, <2>3
    <2>4. CASE Q(p) < stop /\ ~ IsEscaped(s, from, Q(p)) /\ s[Q(p)] = c
      <3>1. \A g : Body(p, g) = Q(p) - from
        BY <2>1, <2>4 DEF Body
      <3>2. Q(p) - from \in Nat /\ from + (Q(p) - from) = Q(p)
        BY <2>1
      <3> QED BY <3>1, <3>2, <2>4
    <2> DEFINE Past3 == Q(p) < stop /\ ~ IsEscaped(s, from, Q(p)) /\ s[Q(p)] # c
    <2>5. CASE Past3 /\ s[Q(p)] = "tick"
      <3>1. CASE Code(p) # 0
        <4>1. \A g : Body(p, g) = g[Code(p)]
          BY <2>1, <2>5, <3>1 DEF Body
        <4>2. Code(p) \in Int /\ Code(p) <= stop /\ Code(p) > Q(p)
          BY <2>1, <2>5, <3>1, CodeEnds, PastFinds DEF Code
        <4> QED BY <4>1, <4>2, <2>0, <2>1
      <3>2. CASE Code(p) = 0
        <4>1. \A g : Body(p, g) = Within(Q(p)..stop - 1)
          BY <2>1, <2>5, <3>2 DEF Body
        <4>2. Within(Q(p)..stop - 1) \in V
          BY <1>2, <2>1
        <4> QED BY <4>1, <4>2
      <3> QED BY <3>1, <3>2
    <2>6. CASE Past3 /\ s[Q(p)] # "tick"
      <3>1. BoxEnd(p) \in Int /\ Q(p) < BoxEnd(p) /\ BoxEnd(p) <= stop
        BY <2>1, <2>6, UntilFinds DEF BoxEnd
      <3>2. Dest(p) \in Int /\ BoxEnd(p) < Dest(p) /\ Dest(p) <= stop + 1
        <4>1. BoxEnd(p) + 1 \in Int
          BY <3>1
        <4> HIDE DEF Past3, D
        <4>2. /\ Dest(p) \in Int /\ BoxEnd(p) + 1 <= Dest(p)
              /\ BoxEnd(p) + 1 <= stop => Dest(p) <= stop
              /\ BoxEnd(p) + 1 >= stop => Dest(p) = BoxEnd(p) + 1
          BY <4>1, PastFinds DEF Dest
        <4> QED BY <3>1, <4>1, <4>2
      <3>3. Close(p) \in Int /\ Dest(p) <= Close(p) /\ (Linked(p) => Dest(p) < Close(p) /\ Close(p) <= stop)
        <4>1. CASE Linked(p)
          <5> DEFINE C == {IF s[Dest(p)] = "[" THEN "]" ELSE ")"}
          <5>1. Dest(p) + 1 \in Int /\ Dest(p) + 1 <= stop
            BY <3>2, <4>1 DEF Linked
          <5>2. Close(p) = Until(s, Dest(p) + 1, stop, C)
            BY <4>1 DEF Close
          <5> HIDE DEF C, Past3, D
          <5>3. /\ Until(s, Dest(p) + 1, stop, C) \in Int
                /\ Dest(p) + 1 <= Until(s, Dest(p) + 1, stop, C)
                /\ Until(s, Dest(p) + 1, stop, C) <= stop
            BY ONLY <5>1, stop \in Int, UntilFinds
          <5>4. Close(p) \in Int /\ Dest(p) + 1 <= Close(p) /\ Close(p) <= stop
            BY <5>2, <5>3
          <5> QED BY <5>4, <3>2
        <4>2. CASE ~ Linked(p)
          BY <3>2, <4>2 DEF Close
        <4> QED BY <4>1, <4>2
      <3>4. InLink(p) \in V
        <4>1. (Q(p) + 1..BoxEnd(p) - 1 \cup Dest(p) + 1..Close(p) - 1) \subseteq from..stop - 1
          <5>1. CASE Linked(p)
            BY <2>1, <3>1, <3>2, <3>3, <5>1
          <5>2. CASE ~ Linked(p)
            BY <2>1, <3>1, <3>2, <5>2 DEF Close
          <5> QED BY <5>1, <5>2
        <4> QED BY <4>1, <1>2 DEF InLink
      <3>5. CASE Linked(p) /\ Close(p) < stop
        <4>1. \A g : Body(p, g) = g[Close(p) + 1]
          BY <2>1, <2>6, <3>5 DEF Body
        <4> QED BY <4>1, <2>0, <2>1, <3>1, <3>2, <3>3, <3>5
      <3>6. CASE ~ (Linked(p) /\ Close(p) < stop) /\ (Linked(p) \/ Dest(p) >= stop \/ InLink(p) # 0)
        <4>1. \A g : Body(p, g) = InLink(p)
          BY <2>1, <2>6, <3>6 DEF Body
        <4> QED BY <4>1, <3>4
      <3>7. CASE ~ (Linked(p) \/ Dest(p) >= stop \/ InLink(p) # 0)
        <4>1. \A g : Body(p, g) = g[Dest(p)]
          BY <2>1, <2>6, <3>7 DEF Body
        <4> QED BY <4>1, <2>0, <2>1, <3>1, <3>2, <3>7
      <3> QED BY <3>5, <3>6, <3>7
    <2> QED BY <2>1, <2>2, <2>3, <2>4, <2>5, <2>6
  <1>4. Ranked(D, rank, stop + 1 - from)
    BY DEF Ranked
  <1>5. f = [p \in D |-> Body(p, f)]
    <2> DEFINE B == [p \in D |-> [g \in [D -> V] |-> Body(p, g)]]
    <2>1. 0 \in V
      OBVIOUS
    <2>2. \A p \in D : \A g \in [D -> V] : B[p][g] = Body(p, g)
      OBVIOUS
    <2>3. GoesOn(D, rank, V, B)
      <3> HIDE DEF D, V, B, rank
      <3> SUFFICES ASSUME NEW p \in D
                   PROVE  \/ \E w \in V : \A g \in [D -> V] : B[p][g] = w
                          \/ \E r \in D : rank[r] < rank[p] /\ \A g \in [D -> V] : B[p][g] = g[r]
        BY DEF GoesOn
      <3>1. CASE \E w \in V : \A g : Body(p, g) = w
        BY <2>2, <3>1
      <3>2. CASE \E r \in D : rank[r] < rank[p] /\ \A g : Body(p, g) = g[r]
        BY <2>2, <3>2
      <3> QED BY <1>3, <3>1, <3>2
    <2>4. PICK h \in [D -> V] : \A p \in D : h[p] = B[p][h]
      <3> HIDE DEF D, V, B, rank
      <3> QED BY <1>4, <2>1, <2>3, TailRecursion
    <2>5. h = [p \in D |-> Body(p, h)]
      <3> HIDE DEF D, V, B, rank
      <3> QED BY <2>2, <2>4
    <2> QED BY <2>5 DEF f
  <1>6. \A p \in D : f[p] \in V
    <2>1. \A p \in D : f[p] = Body(p, f)
      <3> HIDE DEF D
      <3> QED BY <1>5
    <2> HIDE DEF D, V, rank
    <2>2. Follows(D, rank, V, f)
      <3> SUFFICES ASSUME NEW p \in D
                   PROVE  \/ f[p] \in V
                          \/ \E r \in D : rank[r] < rank[p] /\ (f[r] \in V => f[p] = f[r])
        BY DEF Follows
      <3>1. CASE \E w \in V : \A g : Body(p, g) = w
        BY <2>1, <3>1
      <3>2. CASE \E r \in D : rank[r] < rank[p] /\ \A g : Body(p, g) = g[r]
        BY <2>1, <3>2
      <3> QED BY <1>3, <3>1, <3>2
    <2> QED BY <1>4, <2>2, TailValues
  <1>7. from \in D
    OBVIOUS
  <1> QED BY <1>1, <1>6, <1>7

\* The greatest of 0 and numbers up to a bound.
LEMMA MaxWith0 ==
    ASSUME NEW S, NEW hi \in Nat, S \subseteq Int, \A x \in S : x <= hi
    PROVE  Max({0} \cup S) \in {0} \cup S /\ \A x \in S : x <= Max({0} \cup S)
  <1> DEFINE T == {0} \cup S
  <1>1. T \subseteq Int /\ (\A x \in T : x <= hi) /\ 0 \in T /\ hi \in Int
    OBVIOUS
  <1>2. Max(T) \in T /\ \A x \in T : x <= Max(T)
    <2> HIDE DEF T
    <2> QED BY <1>1, MaxOf
  <1> QED BY <1>2

LEMMA CandidateIs ==
    ASSUME NEW s, NEW from \in Int, NEW stop \in Int, NEW c, from <= stop + 1,
           NEW q \in Candidate(s, from, stop, c)
    PROVE  /\ q \in Int /\ from < q /\ q < stop /\ s[q] = c
           /\ Candidate(s, from, stop, c) = {q}
  <1> DEFINE n == FindEmph(s, from, stop, c)
  <1>1. q = from + n /\ q # from
    BY DEF Candidate
  <1>2. n \in Nat /\ (n # 0 => from + n < stop /\ s[from + n] = c)
    BY EmphFound
  <1>3. q \in Int /\ from < q /\ q < stop /\ s[q] = c
    <2> HIDE DEF n
    <2> QED BY <1>1, <1>2
  <1>4. Candidate(s, from, stop, c) = {q}
    BY <1>1 DEF Candidate
  <1> QED BY <1>3, <1>4

\* Where emphasis closes is behind its beginning, and before the end.
LEMMA EmphClose1Within ==
    ASSUME NEW s, NEW from \in Nat, NEW stop \in Int, NEW c, from <= stop, NEW nointem
    PROVE  \/ EmphClose1(s, from, stop, c, nointem) = 0
           \/ /\ EmphClose1(s, from, stop, c, nointem) \in Int
              /\ from < EmphClose1(s, from, stop, c, nointem)
              /\ EmphClose1(s, from, stop, c, nointem) < stop
              /\ s[EmphClose1(s, from, stop, c, nointem)] = c
  <1> DEFINE p == IF IsAt(s, from, stop, <<c, c>>) THEN from + 1 ELSE from
             S == {q \in Candidate(s, p, stop, c) :
                      /\ s[q - 1] \notin Spaces
                      /\ ~ (nointem /\ q + 1 < stop /\ s[q + 1] \in Letters)}
  <1>1. p \in Int /\ from <= p /\ p <= stop
    BY DEF IsAt
  <1> HIDE DEF p
  <1>2. \A q \in S : q \in Int /\ from < q /\ q < stop /\ s[q] = c
    BY <1>1, CandidateIs
  <1>3. EmphClose1(s, from, stop, c, nointem) = Max({0} \cup S)
    BY DEF EmphClose1, p
  <1>4. Max({0} \cup S) \in {0} \cup S
    <2>1. S \subseteq Int /\ (\A x \in S : x <= stop) /\ stop \in Nat
      BY <1>2
    <2> HIDE DEF S
    <2> QED BY <2>1, MaxWith0
  <1> QED BY <1>2, <1>3, <1>4

LEMMA EmphClose3Within ==
    ASSUME NEW s, NEW from \in Nat, NEW stop \in Int, NEW c, from <= stop
    PROVE  \/ EmphClose3(s, from, stop, c) = 0
           \/ /\ EmphClose3(s, from, stop, c) \in Int
              /\ from < EmphClose3(s, from, stop, c)
              /\ EmphClose3(s, from, stop, c) < stop
  <1> DEFINE S == {q \in Candidate(s, from, stop, c) : s[q - 1] \notin Spaces}
  <1>1. \A q \in S : q \in Int /\ from < q /\ q < stop
    BY CandidateIs
  <1>2. EmphClose3(s, from, stop, c) = Max({0} \cup S)
    BY DEF EmphClose3
  <1>3. Max({0} \cup S) \in {0} \cup S
    <2>1. S \subseteq Int /\ (\A x \in S : x <= stop) /\ stop \in Nat
      BY <1>1
    <2> HIDE DEF S
    <2> QED BY <2>1, MaxWith0
  <1> QED BY <1>1, <1>2, <1>3

LEMMA EmphClose2Within ==
    ASSUME NEW s, NEW from \in Nat, NEW stop \in Int, NEW c, from <= stop
    PROVE  \/ EmphClose2(s, from, stop, c) = 0
           \/ /\ EmphClose2(s, from, stop, c) \in Int
              /\ from < EmphClose2(s, from, stop, c)
              /\ EmphClose2(s, from, stop, c) + 2 <= stop
              /\ IsAt(s, EmphClose2(s, from, stop, c), stop, <<c, c>>)
  <1> DEFINE D == from..stop + 1
             V == {n \in Nat : n # 0 => from < n /\ n + 2 <= stop /\ IsAt(s, n, stop, <<c, c>>)}
             Closes(q) == IsAt(s, q, stop, <<c, c>>) /\ s[q - 1] \notin Spaces
             Body(p, g) ==
               Max({0} \cup {IF Closes(q) THEN q ELSE g[q + 1] : q \in Candidate(s, p, stop, c)})
             f == CHOOSE g : g = [p \in D |-> Body(p, g)]
             rank == [p \in D |-> stop + 1 - p]
  <1>1. EmphClose2(s, from, stop, c) = f[from]
    BY DEF EmphClose2
  <1> HIDE DEF Body, f
  <1>2. \A x \in V : Max({0} \cup {x}) = x
    <2> SUFFICES ASSUME NEW x \in V
                 PROVE  Max({0} \cup {x}) = x
      OBVIOUS
    <2>1. x \in Nat /\ {x} \subseteq Int /\ \A y \in {x} : y <= x
      OBVIOUS
    <2>2. Max({0} \cup {x}) \in {0} \cup {x} /\ \A y \in {x} : y <= Max({0} \cup {x})
      BY ONLY <2>1, MaxWith0
    <2> QED BY <2>1, <2>2
  <1>3. ASSUME NEW p \in D
        PROVE  \/ \E w \in V : \A g : Body(p, g) = w
               \/ \E r \in D : rank[r] < rank[p] /\ \A g : g[r] \in V => Body(p, g) = g[r]
    <2>0. p \in Int /\ from <= p /\ p <= stop + 1 /\ \A r \in D : p < r => rank[r] < rank[p]
      OBVIOUS
    <2>1. CASE Candidate(s, p, stop, c) = {}
      <3>1. \A g : Body(p, g) = Max({0} \cup {})
        <4> SUFFICES ASSUME NEW g
                     PROVE  Body(p, g) = Max({0} \cup {})
          OBVIOUS
        <4>1. {IF Closes(q) THEN q ELSE g[q + 1] : q \in Candidate(s, p, stop, c)} = {}
          BY <2>1
        <4> QED BY <4>1 DEF Body
      <3>2. Max({0} \cup {}) \in {0} \cup {}
        <4>1. {} \subseteq Int /\ 0 \in Nat /\ \A x \in {} : x <= 0
          OBVIOUS
        <4> QED BY ONLY <4>1, MaxWith0
      <3> QED BY <3>1, <3>2
    <2>2. ASSUME NEW q \in Candidate(s, p, stop, c)
          PROVE  \/ \E w \in V : \A g : Body(p, g) = w
                 \/ \E r \in D : rank[r] < rank[p] /\ \A g : g[r] \in V => Body(p, g) = g[r]
      <3>1. q \in Int /\ p < q /\ q < stop /\ Candidate(s, p, stop, c) = {q}
        BY <2>0, <2>2, CandidateIs
      <3>2. \A g : Body(p, g) = Max({0} \cup {IF Closes(q) THEN q ELSE g[q + 1]})
        <4> SUFFICES ASSUME NEW g
                     PROVE  Body(p, g) = Max({0} \cup {IF Closes(q) THEN q ELSE g[q + 1]})
          OBVIOUS
        <4>1. {IF Closes(r) THEN r ELSE g[r + 1] : r \in Candidate(s, p, stop, c)}
                  = {IF Closes(q) THEN q ELSE g[q + 1]}
          <5> HIDE DEF Closes
          <5> QED BY <3>1
        <4> QED BY <4>1 DEF Body
      <3>3. CASE Closes(q)
        <4>1. q + 2 <= stop
          BY <3>3 DEF IsAt
        <4>2. q \in V
          BY <2>0, <3>1, <3>3, <4>1
        <4>3. \A g : Body(p, g) = Max({0} \cup {q})
          <5> HIDE DEF Closes
          <5> QED BY <3>2, <3>3
        <4> HIDE DEF V
        <4> QED BY <1>2, <4>2, <4>3
      <3>4. CASE ~ Closes(q)
        <4>1. \A g : Body(p, g) = Max({0} \cup {g[q + 1]})
          <5> HIDE DEF Closes
          <5> QED BY <3>2, <3>4
        <4>2. q + 1 \in D /\ p < q + 1
          BY <2>0, <3>1
        <4> HIDE DEF V, D, rank
        <4> QED BY <1>2, <2>0, <4>1, <4>2
      <3> QED BY <3>3, <3>4
    <2> QED BY <2>1, <2>2
  <1>4. Ranked(D, rank, stop + 1 - from)
    BY DEF Ranked
  <1>5. f = [p \in D |-> Body(p, f)]
    <2> DEFINE B == [p \in D |-> [g \in [D -> V] |-> Body(p, g)]]
    <2>1. 0 \in V
      OBVIOUS
    <2>2. \A p \in D : \A g \in [D -> V] : B[p][g] = Body(p, g)
      OBVIOUS
    <2>3. GoesOn(D, rank, V, B)
      <3> HIDE DEF D, V, B, rank
      <3> SUFFICES ASSUME NEW p \in D
                   PROVE  \/ \E w \in V : \A g \in [D -> V] : B[p][g] = w
                          \/ \E r \in D : rank[r] < rank[p] /\ \A g \in [D -> V] : B[p][g] = g[r]
        BY DEF GoesOn
      <3>1. CASE \E w \in V : \A g : Body(p, g) = w
        BY <2>2, <3>1
      <3>2. CASE \E r \in D : rank[r] < rank[p] /\ \A g : g[r] \in V => Body(p, g) = g[r]
        <4>1. PICK r \in D : rank[r] < rank[p] /\ \A g : g[r] \in V => Body(p, g) = g[r]
          BY <3>2
        <4>2. \A g \in [D -> V] : g[r] \in V
          OBVIOUS
        <4> QED BY <2>2, <4>1, <4>2
      <3> QED BY <1>3, <3>1, <3>2
    <2>4. PICK h \in [D -> V] : \A p \in D : h[p] = B[p][h]
      <3> HIDE DEF D, V, B, rank
      <3> QED BY <1>4, <2>1, <2>3, TailRecursion
    <2>5. h = [p \in D |-> Body(p, h)]
      <3> HIDE DEF D, V, B, rank
      <3> QED BY <2>2, <2>4
    <2> QED BY <2>5 DEF f
  <1>6. \A p \in D : f[p] \in V
    <2>1. \A p \in D : f[p] = Body(p, f)
      <3> HIDE DEF D
      <3> QED BY <1>5
    <2> HIDE DEF D, V, rank
    <2>2. Follows(D, rank, V, f)
      <3> SUFFICES ASSUME NEW p \in D
                   PROVE  \/ f[p] \in V
                          \/ \E r \in D : rank[r] < rank[p] /\ (f[r] \in V => f[p] = f[r])
        BY DEF Follows
      <3>1. CASE \E w \in V : \A g : Body(p, g) = w
        BY <2>1, <3>1
      <3>2. CASE \E r \in D : rank[r] < rank[p] /\ \A g : g[r] \in V => Body(p, g) = g[r]
        BY <2>1, <3>2
      <3> QED BY <1>3, <3>1, <3>2
    <2> QED BY <1>4, <2>2, TailValues
  <1>7. from \in D
    OBVIOUS
  <1> QED BY <1>1, <1>6, <1>7

\* Where a formula closes, and a mail address in brackets ends.
LEMMA MathCloses ==
    ASSUME NEW s, NEW p \in Int, NEW stop \in Int, NEW t, Len(t) \in Nat
    PROVE  \/ MathClose(s, p, stop, t) = 0
           \/ /\ MathClose(s, p, stop, t) \in Int /\ p + Len(t) <= MathClose(s, p, stop, t)
              /\ MathClose(s, p, stop, t) + Len(t) <= stop
              /\ IsAt(s, MathClose(s, p, stop, t), stop, t)
  <1> DEFINE found == {q \in p + Len(t)..stop - 1 :
                          IsAt(s, q, stop, t) /\ ~ IsEscaped(s, p, q)}
  <1>1. MathClose(s, p, stop, t) = IF found = {} THEN 0 ELSE Min(found)
    BY DEF MathClose
  <1>2. \A q \in found :
            q \in Int /\ p + Len(t) <= q /\ q + Len(t) <= stop /\ IsAt(s, q, stop, t)
    BY DEF IsAt
  <1>3. found = {} \/ Min(found) \in found
    <2>1. ASSUME NEW q \in found
          PROVE  Min(found) \in found
      <3>1. found \subseteq Int /\ p + Len(t) \in Int /\ \A x \in found : p + Len(t) <= x
        BY <1>2
      <3> HIDE DEF found
      <3> QED BY <3>1, MinOf
    <2> QED BY <2>1
  <1> QED BY <1>1, <1>2, <1>3

LEMMA MailEnds ==
    ASSUME NEW s, NEW p \in Int, NEW stop \in Int
    PROVE  \/ MailEnd(s, p, stop) = 0
           \/ /\ MailEnd(s, p, stop) \in Int /\ p < MailEnd(s, p, stop)
              /\ MailEnd(s, p, stop) <= stop /\ s[MailEnd(s, p, stop) - 1] = ">"
  <1> DEFINE C == Letters \cup {"@", "-", ".", "_"}
             e == Past(s, p, stop, C)
  <1>1. e \in Int /\ p <= e
    <2> HIDE DEF C
    <2> QED BY PastFinds
  <1>2. MailEnd(s, p, stop) = 0 \/ (e < stop /\ s[e] = ">" /\ MailEnd(s, p, stop) = e + 1)
    BY DEF MailEnd
  <1> HIDE DEF e
  <1>3. (e + 1) - 1 = e
    BY <1>1
  <1> QED BY <1>1, <1>2, <1>3

LEMMA AddressStops ==
    ASSUME NEW s, NEW from \in Int, NEW stop \in Int, from <= stop + 1
    PROVE  AddressStop(s, from, stop) \in Int /\ from <= AddressStop(s, from, stop)
  <1> DEFINE D == from..stop + 1
             V == D
             Ends(p) == p >= stop \/ s[p] \in {">", "'", "\""} \cup Spaces
             Body(p, g) == IF Ends(p) THEN p ELSE g[IF s[p] = "\\" THEN p + 2 ELSE p + 1]
             f == CHOOSE g : g = [p \in D |-> Body(p, g)]
             rank == [p \in D |-> stop + 1 - p]
  <1>1. AddressStop(s, from, stop) = f[from]
    BY DEF AddressStop
  <1> HIDE DEF Body, f
  <1>3. ASSUME NEW p \in D
        PROVE  \/ \E w \in V : \A g : Body(p, g) = w
               \/ \E r \in D : rank[r] < rank[p] /\ \A g : Body(p, g) = g[r]
    <2>1. CASE Ends(p)
      <3>1. \A g : Body(p, g) = p
        <4> HIDE DEF Ends, D
        <4> QED BY <2>1 DEF Body
      <3> QED BY <3>1
    <2>2. CASE ~ Ends(p)
      <3> DEFINE r == IF s[p] = "\\" THEN p + 2 ELSE p + 1
      <3>1. \A g : Body(p, g) = g[r]
        <4> HIDE DEF Ends, D
        <4> QED BY <2>2 DEF Body
      <3>2. r \in D /\ rank[r] < rank[p]
        <4>1. p \in Int /\ p < stop /\ from <= p
          <5>1. ~(p >= stop)
            BY <2>2
          <5> QED BY ONLY <5>1, p \in D, from \in Int, stop \in Int
        <4>2. r = p + 1 \/ r = p + 2
          OBVIOUS
        <4> HIDE DEF r
        <4> QED BY <4>1, <4>2
      <3> HIDE DEF r
      <3> QED BY <3>1, <3>2
    <2> QED BY <2>1, <2>2
  <1>4. Ranked(D, rank, stop + 1 - from)
    BY DEF Ranked
  <1>5. f = [p \in D |-> Body(p, f)]
    <2> DEFINE B == [p \in D |-> [g \in [D -> V] |-> Body(p, g)]]
    <2>1. from \in V
      OBVIOUS
    <2>2. \A p \in D : \A g \in [D -> V] : B[p][g] = Body(p, g)
      OBVIOUS
    <2>3. GoesOn(D, rank, V, B)
      <3> HIDE DEF D, V, B, rank
      <3> SUFFICES ASSUME NEW p \in D
                   PROVE  \/ \E w \in V : \A g \in [D -> V] : B[p][g] = w
                          \/ \E r \in D : rank[r] < rank[p] /\ \A g \in [D -> V] : B[p][g] = g[r]
        BY DEF GoesOn
      <3>1. CASE \E w \in V : \A g : Body(p, g) = w
        BY <2>2, <3>1
      <3>2. CASE \E r \in D : rank[r] < rank[p] /\ \A g : Body(p, g) = g[r]
        BY <2>2, <3>2
      <3> QED BY <1>3, <3>1, <3>2
    <2>4. PICK h \in [D -> V] : \A p \in D : h[p] = B[p][h]
      <3> HIDE DEF D, V, B, rank
      <3> QED BY <1>4, <2>1, <2>3, TailRecursion
    <2>5. h = [p \in D |-> Body(p, h)]
      <3> HIDE DEF D, V, B, rank
      <3> QED BY <2>2, <2>4
    <2> QED BY <2>5 DEF f
  <1>6. \A p \in D : f[p] \in V
    <2>1. \A p \in D : f[p] = Body(p, f)
      <3> HIDE DEF D
      <3> QED BY <1>5
    <2> HIDE DEF D, V, rank
    <2>2. Follows(D, rank, V, f)
      <3> SUFFICES ASSUME NEW p \in D
                   PROVE  \/ f[p] \in V
                          \/ \E r \in D : rank[r] < rank[p] /\ (f[r] \in V => f[p] = f[r])
        BY DEF Follows
      <3>1. CASE \E w \in V : \A g : Body(p, g) = w
        BY <2>1, <3>1
      <3>2. CASE \E r \in D : rank[r] < rank[p] /\ \A g : Body(p, g) = g[r]
        BY <2>1, <3>2
      <3> QED BY <1>3, <3>1, <3>2
    <2> QED BY <1>4, <2>2, TailValues
  <1>7. from \in D
    OBVIOUS
  <1> QED BY <1>1, <1>6, <1>7

\* What is in angle brackets has something in it.
LEMMA TagEnds ==
    ASSUME NEW s, NEW p \in Int, NEW stop \in Int
    PROVE  LET tag == TagLength(s, p, stop)
           IN  tag.end # 0 =>
                   /\ tag.end \in Int /\ p + 1 < tag.end /\ tag.end <= stop
                   /\ tag.address \in BOOLEAN /\ (tag.address => s[tag.end - 1] = ">")
  <1> DEFINE comments == {q \in p + 5..stop - 1 : IsAt(s, q - 2, stop, <<"-", "-", ">">>)}
             name == IF s[p + 1] = "/" THEN p + 2 ELSE p + 1
             e == Past(s, name, stop, Letters \cup {".", "+", "-"})
             mail == IF e < stop /\ s[e] = "@" THEN MailEnd(s, e, stop) ELSE 0
             scheme == e > p + 2 /\ e + 1 < stop /\ s[e] = ":"
             addr == AddressStop(s, e + 1, stop)
             close == Until(s, IF scheme THEN addr ELSE e, stop, {">"})
             Tag(end, address) == [end |-> end, address |-> address]
             tag == TagLength(s, p, stop)
  <1>1. name \in Int /\ p < name /\ name <= p + 2
    OBVIOUS
  <1> HIDE DEF name
  <1>2. e \in Int /\ p < e /\ (name <= stop => e <= stop)
    BY <1>1, PastFinds
  <1> HIDE DEF e
  <1>3. mail = 0 \/ (mail \in Int /\ e < mail /\ mail <= stop /\ s[mail - 1] = ">")
    BY <1>2, MailEnds, SMTT(30)
  <1> HIDE DEF mail, comments
  <1>4. /\ stop - p < 3 => tag = Tag(0, FALSE)
        /\ stop - p >= 3 =>
             \/ comments # {} /\ tag = Tag(Min(comments) + 1, FALSE)
             \/ tag = Tag(0, FALSE)
             \/ mail # 0 /\ tag = Tag(mail, TRUE)
             \/ scheme /\ addr < stop /\ addr > e + 1 /\ s[addr] = ">" /\ tag = Tag(addr + 1, TRUE)
             \/ ~(close >= stop) /\ tag = Tag(close + 1, FALSE)
    <2>1. p \in Int /\ stop \in Int
      OBVIOUS
    <2> HIDE DEF addr, close, scheme, Tag
    <2> QED BY <2>1 DEF TagLength, name, e, mail, comments, addr, close, scheme, Tag
  <1> HIDE DEF tag
  <1>5. \A x : \A b \in BOOLEAN :
            tag = Tag(x, b) => tag.end = x /\ tag.address = b
    OBVIOUS
  <1> HIDE DEF Tag
  <1>6. tag.end # 0 => tag.end \in Int /\ p + 1 < tag.end /\ tag.end <= stop
    <2>1. CASE comments # {} /\ tag = Tag(Min(comments) + 1, FALSE)
      <3>1. comments \subseteq Int /\ p + 5 \in Int /\ \A x \in comments : p + 5 <= x /\ x < stop
        BY DEF comments
      <3>2. PICK q \in comments : TRUE
        BY <2>1
      <3>3. Min(comments) \in comments
        BY <3>1, <3>2, MinOf
      <3>4. tag.end = Min(comments) + 1
        BY <1>5, <2>1
      <3>5. Min(comments) \in Int /\ p + 5 <= Min(comments) /\ Min(comments) < stop
        BY <3>1, <3>3
      <3> QED BY <3>4, <3>5
    <2>2. CASE tag = Tag(0, FALSE)
      BY <1>5, <2>2
    <2>3. CASE mail # 0 /\ tag = Tag(mail, TRUE)
      <3>1. tag.end = mail
        BY <1>5, <2>3
      <3>2. mail # 0
        BY <2>3
      <3> QED BY <1>2, <1>3, <3>1, <3>2
    <2>4. CASE scheme /\ addr < stop /\ addr > e + 1 /\ tag = Tag(addr + 1, TRUE)
      <3>1. e + 1 \in Int /\ e + 1 <= stop + 1
        BY <1>2, <2>4
      <3>2. addr \in Int /\ e + 1 <= addr
        BY <3>1, AddressStops
      <3>3. tag.end = addr + 1
        BY <1>5, <2>4
      <3>4. addr < stop
        BY <2>4
      <3> HIDE DEF addr
      <3> QED BY <1>2, <3>2, <3>3, <3>4
    <2>5. CASE ~(close >= stop) /\ tag = Tag(close + 1, FALSE) /\ stop - p >= 3
      <3>1. e <= stop
        BY <1>1, <1>2, <2>5
      <3>2. close \in Int /\ p < close
        <4> DEFINE from == IF scheme THEN addr ELSE e
        <4>1. from \in Int /\ p < from
          <5>1. e + 1 \in Int /\ e + 1 <= stop + 1
            BY <1>2, <3>1
          <5>2. addr \in Int /\ e + 1 <= addr
            BY <5>1, AddressStops
          <5> HIDE DEF scheme, addr
          <5> QED BY <1>2, <5>2
        <4>2. close = Until(s, from, stop, {">"})
          OBVIOUS
        <4> HIDE DEF from, close
        <4>3. Until(s, from, stop, {">"}) \in Int /\ from <= Until(s, from, stop, {">"})
          BY <4>1, UntilFinds
        <4> QED BY <4>1, <4>2, <4>3
      <3> HIDE DEF close
      <3>3. tag.end = close + 1
        BY <1>5, <2>5
      <3>4. ~(close >= stop)
        BY <2>5
      <3> QED BY <3>2, <3>3, <3>4
    <2> HIDE DEF scheme, addr, close
    <2>6. stop - p < 3 \/ stop - p >= 3
      OBVIOUS
    <2> QED BY <1>4, <2>1, <2>2, <2>3, <2>4, <2>5, <2>6
  <1>7. tag.address \in BOOLEAN
    <2> HIDE DEF scheme, addr, close
    <2>1. stop - p < 3 \/ stop - p >= 3
      OBVIOUS
    <2>2. TRUE \in BOOLEAN /\ FALSE \in BOOLEAN
      OBVIOUS
    <2> QED BY <1>4, <1>5, <2>1, <2>2, Zenon
  <1>8. tag.address => s[tag.end - 1] = ">"
    <2>1. CASE mail # 0 /\ tag = Tag(mail, TRUE)
      <3>1. tag.end = mail /\ mail # 0
        BY <1>5, <2>1
      <3> QED BY <1>3, <3>1
    <2>2. CASE scheme /\ addr < stop /\ addr > e + 1 /\ s[addr] = ">" /\ tag = Tag(addr + 1, TRUE)
      <3>1. e + 1 \in Int /\ e + 1 <= stop + 1
        BY <1>2, <2>2
      <3>2. addr \in Int
        BY <3>1, AddressStops
      <3>3. tag.end = addr + 1 /\ s[addr] = ">"
        BY <1>5, <2>2
      <3> HIDE DEF addr
      <3>4. tag.end - 1 = addr
        BY <3>2, <3>3
      <3> QED BY <3>3, <3>4
    <2>3. \A x : tag = Tag(x, FALSE) => tag.address = FALSE
      BY <1>5
    <2>4. stop - p < 3 \/ stop - p >= 3
      OBVIOUS
    <2> HIDE DEF scheme, addr, close
    <2> QED BY <1>4, <2>1, <2>2, <2>3, <2>4, Zenon
  <1> QED BY <1>6, <1>7, <1>8, Zenon DEF tag

\* What is cut off an address is at its end.
LEMMA DelimWithin ==
    ASSUME NEW s, NEW p \in Int, NEW end \in Int, p <= end
    PROVE  AutolinkDelim(s, p, end) \in p..end
  <1> DEFINE D == p..end
             V == D
             Amp(q) == Max({r \in p..q - 2 : r = p \/ s[r] \notin Letters} \cup {p})
             Body(q, g) ==
               IF q = p THEN p
               ELSE IF s[q - 1] \in {"?", "!", ".", ",", ":"} THEN g[q - 1]
               ELSE IF s[q - 1] # ";" THEN q
               ELSE IF Amp(q) < q - 2 /\ s[Amp(q)] = "&" THEN g[Amp(q)]
               ELSE g[q - 1]
             f == CHOOSE g : g = [q \in D |-> Body(q, g)]
             rank == [q \in D |-> q - p]
             from == Until(s, p, end, {"<"})
  <1>1. AutolinkDelim(s, p, end) \in {f[from], f[from] - 1}
        /\ (AutolinkDelim(s, p, end) = f[from] - 1 => f[from] > p \/ f[from] - 1 = f[from])
    <2> DEFINE e == f[from]
               Count(C) == Cardinality({q \in p..e - 1 : s[q] \in C})
               unpaired ==
                   \/ s[e - 1] \in {"\"", "'"}
                   \/ s[e - 1] = ")" /\ Count({"("}) # Count({")"})
                   \/ s[e - 1] = "]" /\ Count({"["}) # Count({"]"})
                   \/ s[e - 1] = "}" /\ Count({"{"}) # Count({"}"})
    <2>1. AutolinkDelim(s, p, end) = IF e > p /\ unpaired THEN e - 1 ELSE e
      BY DEF AutolinkDelim
    <2> HIDE DEF e, unpaired
    <2> QED BY <2>1 DEF e
  <1> HIDE DEF Body, f, Amp
  <1>3. ASSUME NEW q \in D
        PROVE  \/ \E w \in V : \A g : Body(q, g) = w
               \/ \E r \in D : rank[r] < rank[q] /\ \A g : Body(q, g) = g[r]
    <2>1. q \in Int /\ p <= q /\ q <= end
      OBVIOUS
    <2>2. CASE q = p
      <3>1. \A g : Body(q, g) = p
        BY <2>2 DEF Body
      <3> QED BY <3>1
    <2>3. CASE q # p
      <3>1. \A r \in p..q - 1 : r \in D /\ rank[r] < rank[q]
        BY <2>1
      <3>2. q - 1 \in p..q - 1
        BY <2>1, <2>3
      <3>3. Amp(q) < q - 2 => Amp(q) \in p..q - 1
        <4> DEFINE S == {r \in p..q - 2 : r = p \/ s[r] \notin Letters} \cup {p}
        <4>1. S \subseteq Int /\ q \in Int /\ p \in S /\ (\A x \in S : x <= q) /\ \A x \in S : p <= x
          BY <2>1
        <4>2. Amp(q) = Max(S)
          BY DEF Amp
        <4> HIDE DEF S
        <4>3. Max(S) \in S
          BY <4>1, MaxOf
        <4>4. Amp(q) \in Int /\ p <= Amp(q)
          BY <4>1, <4>2, <4>3
        <4> QED BY <2>1, <4>4
      <3>4. \/ \A g : Body(q, g) = q
            \/ \A g : Body(q, g) = g[q - 1]
            \/ Amp(q) < q - 2 /\ \A g : Body(q, g) = g[Amp(q)]
        <4>1. CASE s[q - 1] \in {"?", "!", ".", ",", ":"}
          BY <2>3, <4>1 DEF Body
        <4>2. CASE s[q - 1] \notin {"?", "!", ".", ",", ":"} /\ s[q - 1] # ";"
          BY <2>3, <4>2 DEF Body
        <4>3. CASE s[q - 1] \notin {"?", "!", ".", ",", ":"} /\ s[q - 1] = ";"
          BY <2>3, <4>3 DEF Body
        <4> QED BY <4>1, <4>2, <4>3
      <3> HIDE DEF rank
      <3> QED BY <3>1, <3>2, <3>3, <3>4
    <2> QED BY <2>2, <2>3
  <1>4. Ranked(D, rank, end - p)
    BY DEF Ranked
  <1>5. f = [q \in D |-> Body(q, f)]
    <2> DEFINE B == [q \in D |-> [g \in [D -> V] |-> Body(q, g)]]
    <2>1. p \in V
      OBVIOUS
    <2>2. \A q \in D : \A g \in [D -> V] : B[q][g] = Body(q, g)
      OBVIOUS
    <2>3. GoesOn(D, rank, V, B)
      <3> HIDE DEF D, V, B, rank
      <3> SUFFICES ASSUME NEW q \in D
                   PROVE  \/ \E w \in V : \A g \in [D -> V] : B[q][g] = w
                          \/ \E r \in D : rank[r] < rank[q] /\ \A g \in [D -> V] : B[q][g] = g[r]
        BY DEF GoesOn
      <3>1. CASE \E w \in V : \A g : Body(q, g) = w
        BY <2>2, <3>1
      <3>2. CASE \E r \in D : rank[r] < rank[q] /\ \A g : Body(q, g) = g[r]
        BY <2>2, <3>2
      <3> QED BY <1>3, <3>1, <3>2
    <2>4. PICK h \in [D -> V] : \A q \in D : h[q] = B[q][h]
      <3> HIDE DEF D, V, B, rank
      <3> QED BY <1>4, <2>1, <2>3, TailRecursion
    <2>5. h = [q \in D |-> Body(q, h)]
      <3> HIDE DEF D, V, B, rank
      <3> QED BY <2>2, <2>4
    <2> QED BY <2>5 DEF f
  <1>6. \A q \in D : f[q] \in V
    <2>1. \A q \in D : f[q] = Body(q, f)
      <3> HIDE DEF D
      <3> QED BY <1>5
    <2> HIDE DEF D, V, rank
    <2>2. Follows(D, rank, V, f)
      <3> SUFFICES ASSUME NEW q \in D
                   PROVE  \/ f[q] \in V
                          \/ \E r \in D : rank[r] < rank[q] /\ (f[r] \in V => f[q] = f[r])
        BY DEF Follows
      <3>1. CASE \E w \in V : \A g : Body(q, g) = w
        BY <2>1, <3>1
      <3>2. CASE \E r \in D : rank[r] < rank[q] /\ \A g : Body(q, g) = g[r]
        BY <2>1, <3>2
      <3> QED BY <1>3, <3>1, <3>2
    <2> QED BY <1>4, <2>2, TailValues
  <1>7. from \in D
    BY UntilFinds
  <1>8. f[from] \in Int /\ p <= f[from] /\ f[from] <= end
    BY <1>6, <1>7
  <1> HIDE DEF from
  <1> QED BY <1>1, <1>8

\* The place behind a host name.
LEMMA DomainWithin ==
    ASSUME NEW s, NEW p \in Int, NEW stop \in Int, p < stop
    PROVE  \/ DomainEnd(s, p, stop) = 0
           \/ DomainEnd(s, p, stop) \in Int /\ p < DomainEnd(s, p, stop) /\ DomainEnd(s, p, stop) <= stop
  <1> DEFINE C == Letters \cup {".", ":", "-"}
             e == Past(s, p + 1, stop - 1, C)
  <1>1. DomainEnd(s, p, stop) = e \/ DomainEnd(s, p, stop) = 0
    BY DEF DomainEnd
  <1> HIDE DEF C
  <1>2. /\ e \in Int /\ p + 1 <= e
        /\ p + 1 <= stop - 1 => e <= stop - 1
        /\ p + 1 >= stop - 1 => e = p + 1
    BY PastFinds
  <1> HIDE DEF e
  <1> QED BY <1>1, <1>2

\* An address has the special character in it, and no more than `offset'
\* characters before that.
AddressAt(address, p, stop, offset) ==
    \/ address = NoAddress
    \/ /\ address.from \in Int /\ p - offset <= address.from /\ address.from <= p
       /\ address.end \in Int /\ p < address.end /\ address.end <= stop

LEMMA AddressIs ==
    ASSUME NEW s, NEW p \in Int, NEW stop \in Int, NEW offset \in Nat,
           NEW from \in p - offset..p, NEW end \in p..stop
    PROVE  AddressAt(Address(s, from, p, end), p, stop, offset)
  <1> DEFINE e == AutolinkDelim(s, p, end)
  <1>1. e \in p..end
    BY DelimWithin
  <1>2. Address(s, from, p, end) = IF e = p THEN NoAddress ELSE [from |-> from, end |-> e]
    BY DEF Address
  <1> HIDE DEF e
  <1>3. CASE e = p
    BY <1>2, <1>3 DEF AddressAt
  <1>4. CASE e # p
    <2>1. Address(s, from, p, end).from = from /\ Address(s, from, p, end).end = e
      BY <1>2, <1>4
    <2>2. e \in Int /\ p < e /\ e <= stop /\ from \in Int /\ p - offset <= from /\ from <= p
      BY <1>1, <1>4
    <2> QED BY <2>1, <2>2 DEF AddressAt
  <1> QED BY <1>3, <1>4

LEMMA RewindWithin ==
    ASSUME NEW s, NEW p \in Int, NEW offset \in Nat, NEW C
    PROVE  Rewind(s, p, offset, C) \in p - offset..p
  <1> DEFINE S == {q \in p - offset..p : \A r \in q..p - 1 : s[r] \in C}
  <1>1. S \subseteq p - offset..p /\ p \in S
    OBVIOUS
  <1>2. Rewind(s, p, offset, C) = Min(S)
    BY DEF Rewind
  <1> HIDE DEF S
  <1>3. S \subseteq Int /\ p - offset \in Int /\ \A x \in S : p - offset <= x
    BY <1>1
  <1>4. Min(S) \in S
    BY <1>1, <1>3, MinOf
  <1> QED BY <1>1, <1>2, <1>4

LEMMA WwwAt ==
    ASSUME NEW s, NEW p \in Int, NEW stop \in Int, NEW offset \in Nat, p < stop
    PROVE  AddressAt(WwwAddress(s, p, stop, offset), p, stop, offset)
  <1> DEFINE host == DomainEnd(s, p, stop)
             end == Until(s, host, stop, Spaces)
  <1>1. \/ WwwAddress(s, p, stop, offset) = NoAddress
        \/ host # 0 /\ WwwAddress(s, p, stop, offset) = Address(s, p, p, end)
    BY DEF WwwAddress
  <1>2. CASE host # 0
    <2>1. host \in Int /\ p < host /\ host <= stop
      BY <1>2, DomainWithin
    <2> HIDE DEF host
    <2>2. end \in Int /\ host <= end /\ end <= stop
      BY <2>1, UntilFinds
    <2>3. end \in p..stop /\ p \in p - offset..p
      BY <2>1, <2>2
    <2> HIDE DEF end
    <2>4. AddressAt(Address(s, p, p, end), p, stop, offset)
      BY <2>3, AddressIs
    <2> QED BY <1>1, <2>4 DEF AddressAt
  <1> HIDE DEF host, end
  <1> QED BY <1>1, <1>2 DEF AddressAt

LEMMA EmailAt ==
    ASSUME NEW s, NEW p \in Int, NEW stop \in Int, NEW offset \in Nat, p < stop
    PROVE  AddressAt(EmailAddress(s, p, stop, offset), p, stop, offset)
  <1> DEFINE C == Letters \cup {".", "+", "-", "_"}
             from == Rewind(s, p, offset, C)
             X == {q \in p..stop - 1 :
                       \/ s[q] \notin Letters \cup {"@", ".", "-", "_"}
                       \/ s[q] = "." /\ q = stop - 1}
             S == X \cup {stop}
             end == Min(S)
  <1>1. EmailAddress(s, p, stop, offset) \in {NoAddress, Address(s, from, p, end)}
    BY DEF EmailAddress
  <1>2. S \subseteq p..stop /\ stop \in S
    <2>1. X \subseteq p..stop - 1
      OBVIOUS
    <2> HIDE DEF X
    <2> QED BY <2>1
  <1> HIDE DEF C, S
  <1>3. end \in p..stop
    <2>1. S \subseteq Int /\ \A x \in S : p <= x
      BY <1>2
    <2>2. Min(S) \in S
      BY <1>2, <2>1, MinOf
    <2> QED BY <1>2, <2>2
  <1>4. from \in p - offset..p
    BY RewindWithin
  <1> HIDE DEF from, end
  <1>5. AddressAt(Address(s, from, p, end), p, stop, offset)
    BY <1>3, <1>4, AddressIs
  <1> QED BY <1>1, <1>5 DEF AddressAt

LEMMA UrlAt ==
    ASSUME NEW s, NEW p \in Int, NEW stop \in Int, NEW offset \in Nat, p < stop
    PROVE  AddressAt(UrlAddress(s, p, stop, offset), p, stop, offset)
  <1> DEFINE from == Rewind(s, p, offset, Letters)
             host == DomainEnd(s, p + 3, stop)
             end == Until(s, host, stop, Spaces)
  <1>1. \/ UrlAddress(s, p, stop, offset) = NoAddress
        \/ host # 0 /\ ~(stop - p < 4) /\ UrlAddress(s, p, stop, offset) = Address(s, from, p, end)
    <2> HIDE DEF from, host
    <2> QED BY DEF UrlAddress, from, host
  <1>2. from \in p - offset..p
    BY RewindWithin
  <1>3. CASE host # 0 /\ ~(stop - p < 4)
    <2>1. p + 3 \in Int /\ p + 3 < stop
      BY <1>3
    <2>2. host \in Int /\ p + 3 < host /\ host <= stop
      BY <1>3, <2>1, DomainWithin
    <2> HIDE DEF host, from
    <2>3. end \in Int /\ host <= end /\ end <= stop
      BY <2>2, UntilFinds
    <2>4. end \in p..stop
      BY <2>2, <2>3
    <2> HIDE DEF end
    <2>5. AddressAt(Address(s, from, p, end), p, stop, offset)
      BY <1>2, <2>4, AddressIs
    <2> QED BY <1>1, <2>5 DEF AddressAt
  <1> HIDE DEF host, from, end
  <1> QED BY <1>1, <1>3 DEF AddressAt

\* The end of a destination is in the text.
LEMMA DestWithin ==
    ASSUME NEW s, NEW from \in Int, NEW stop \in Int, from <= stop + 1
    PROVE  DestEnd(s, from, stop) = 0 \/ DestEnd(s, from, stop) \in from..stop - 1
  <1> DEFINE D == (from..stop + 1) \X Nat
             V == {0} \cup from..stop - 1
             Body(at, g) ==
               IF at[1] >= stop THEN 0
               ELSE IF s[at[1]] = "\\" THEN g[<<at[1] + 2, at[2]>>]
               ELSE IF s[at[1]] = "(" THEN g[<<at[1] + 1, at[2] + 1>>]
               ELSE IF s[at[1]] = ")"
               THEN IF at[2] = 0 THEN at[1] ELSE g[<<at[1] + 1, at[2] - 1>>]
               ELSE IF s[at[1] - 1] \in Spaces /\ s[at[1]] \in {"'", "\"", "="} THEN at[1]
               ELSE g[<<at[1] + 1, at[2]>>]
             f == CHOOSE g : g = [p \in D |-> Body(p, g)]
             rank == [p \in D |-> stop + 1 - p[1]]
  <1>1. DestEnd(s, from, stop) = f[<<from, 0>>]
    BY DEF DestEnd
  <1> HIDE DEF Body, f
  <1>2. \A at \in D : /\ at[1] \in Int /\ from <= at[1] /\ at[1] <= stop + 1 /\ at[2] \in Nat
                     /\ at = <<at[1], at[2]>> /\ rank[at] = stop + 1 - at[1]
    OBVIOUS
  <1>3. ASSUME NEW p \in D
        PROVE  \/ \E w \in V : \A g : Body(p, g) = w
               \/ \E r \in D : rank[r] < rank[p] /\ \A g : Body(p, g) = g[r]
    <2>1. PICK q, open : q = p[1] /\ open = p[2]
      OBVIOUS
    <2>2. q \in Int /\ from <= q /\ q <= stop + 1 /\ open \in Nat /\ rank[p] = stop + 1 - q
      BY <1>2, <2>1
    <2>3. \A r \in q + 1..stop + 1 : \A n \in Nat :
              <<r, n>> \in D /\ rank[<<r, n>>] = stop + 1 - r /\ rank[<<r, n>>] < rank[p]
      <3> SUFFICES ASSUME NEW r \in q + 1..stop + 1, NEW n \in Nat
                   PROVE  <<r, n>> \in D /\ rank[<<r, n>>] = stop + 1 - r /\ rank[<<r, n>>] < rank[p]
        OBVIOUS
      <3>1. r \in from..stop + 1
        BY <2>2
      <3>2. <<r, n>> \in D /\ <<r, n>>[1] = r
        BY <3>1
      <3>3. rank[<<r, n>>] = stop + 1 - r
        BY <3>2, <1>2
      <3> HIDE DEF D, rank
      <3> QED BY <2>2, <3>2, <3>3
    <2>4. \/ \A g : Body(p, g) = 0
          \/ q < stop /\ \A g : Body(p, g) = q
          \/ q < stop /\ \A g : Body(p, g) = g[<<q + 2, open>>]
          \/ q < stop /\ \A g : Body(p, g) = g[<<q + 1, open + 1>>]
          \/ q < stop /\ open # 0 /\ \A g : Body(p, g) = g[<<q + 1, open - 1>>]
          \/ q < stop /\ \A g : Body(p, g) = g[<<q + 1, open>>]
      <3> HIDE DEF D
      <3>1. CASE q >= stop
        BY <2>1, <3>1 DEF Body
      <3>2. CASE q < stop
        <4>1. ~(q >= stop)
          BY <2>2, <3>2
        <4>2. CASE s[q] = "\\"
          BY <2>1, <3>2, <4>1, <4>2 DEF Body
        <4>3. CASE s[q] # "\\" /\ s[q] = "("
          BY <2>1, <3>2, <4>1, <4>3 DEF Body
        <4>4. CASE s[q] # "\\" /\ s[q] # "(" /\ s[q] = ")"
          BY <2>1, <3>2, <4>1, <4>4 DEF Body
        <4>5. CASE s[q] # "\\" /\ s[q] # "(" /\ s[q] # ")"
          BY <2>1, <3>2, <4>1, <4>5 DEF Body
        <4> QED BY <4>2, <4>3, <4>4, <4>5
      <3> QED BY <2>2, <3>1, <3>2
    <2>5. /\ q < stop => q \in V /\ q + 1 \in q + 1..stop + 1 /\ q + 2 \in q + 1..stop + 1
          /\ open + 1 \in Nat /\ (open # 0 => open - 1 \in Nat)
          /\ 0 \in V
      BY <2>2
    <2> HIDE DEF D, V, rank
    <2> QED BY <2>2, <2>3, <2>4, <2>5
  <1>4. Ranked(D, rank, stop + 1 - from)
    <2>1. \A at \in D : rank[at] \in 0..stop + 1 - from
      <3> HIDE DEF D, rank
      <3> QED BY <1>2
    <2>2. stop + 1 - from \in Nat
      OBVIOUS
    <2> HIDE DEF D, rank
    <2> QED BY <2>1, <2>2 DEF Ranked
  <1>5. f = [p \in D |-> Body(p, f)]
    <2> DEFINE B == [p \in D |-> [g \in [D -> V] |-> Body(p, g)]]
    <2>1. 0 \in V
      OBVIOUS
    <2>2. \A p \in D : \A g \in [D -> V] : B[p][g] = Body(p, g)
      OBVIOUS
    <2>3. GoesOn(D, rank, V, B)
      <3> HIDE DEF D, V, B, rank
      <3> SUFFICES ASSUME NEW p \in D
                   PROVE  \/ \E w \in V : \A g \in [D -> V] : B[p][g] = w
                          \/ \E r \in D : rank[r] < rank[p] /\ \A g \in [D -> V] : B[p][g] = g[r]
        BY DEF GoesOn
      <3>1. CASE \E w \in V : \A g : Body(p, g) = w
        BY <2>2, <3>1
      <3>2. CASE \E r \in D : rank[r] < rank[p] /\ \A g : Body(p, g) = g[r]
        BY <2>2, <3>2
      <3> QED BY <1>3, <3>1, <3>2
    <2>4. PICK h \in [D -> V] : \A p \in D : h[p] = B[p][h]
      <3> HIDE DEF D, V, B, rank
      <3> QED BY <1>4, <2>1, <2>3, TailRecursion
    <2>5. h = [p \in D |-> Body(p, h)]
      <3> HIDE DEF D, V, B, rank
      <3> QED BY <2>2, <2>4
    <2> QED BY <2>5 DEF f
  <1>6. \A p \in D : f[p] \in V
    <2>1. \A p \in D : f[p] = Body(p, f)
      <3> HIDE DEF D
      <3> QED BY <1>5
    <2> HIDE DEF D, V, rank
    <2>2. Follows(D, rank, V, f)
      <3> SUFFICES ASSUME NEW p \in D
                   PROVE  \/ f[p] \in V
                          \/ \E r \in D : rank[r] < rank[p] /\ (f[r] \in V => f[p] = f[r])
        BY DEF Follows
      <3>1. CASE \E w \in V : \A g : Body(p, g) = w
        BY <2>1, <3>1
      <3>2. CASE \E r \in D : rank[r] < rank[p] /\ \A g : Body(p, g) = g[r]
        BY <2>1, <3>2
      <3> QED BY <1>3, <3>1, <3>2
    <2> QED BY <1>4, <2>2, TailValues
  <1>7. <<from, 0>> \in D
    OBVIOUS
  <1> HIDE DEF D
  <1> QED BY <1>1, <1>6, <1>7

\* The parenthesis that closes a link is in the text, behind its destination.
LEMMA CloseWithin ==
    ASSUME NEW s, NEW from \in Nat, NEW stop \in Nat, from < stop
    PROVE  \/ LinkClose(s, from, stop) = 0
           \/ from # 0 /\ LinkClose(s, from, stop) \in from..stop - 1
  <1> DEFINE after(p, C) == FirstPlain(s, from, p, stop, C)
             quote(p) == after(p, {s[p]})
             title(p) == IF quote(p) = 0 THEN 0 ELSE after(quote(p), {"=", ")"})
             dims(p) == after(p, {"'", "\"", ")"})
             D == 0..stop
             V == D
             Body(p, g) ==
               IF p = 0 \/ s[p] \notin {"'", "\"", "="} THEN p
               ELSE IF s[p] = "="
               THEN IF dims(p) # 0 /\ s[dims(p)] # ")" THEN g[dims(p)] ELSE dims(p)
               ELSE IF title(p) # 0 /\ s[title(p)] = "=" THEN g[title(p)] ELSE title(p)
             f == CHOOSE g : g = [p \in D |-> Body(p, g)]
             rank == [p \in D |-> stop - p]
  <1>1. LinkClose(s, from, stop) = f[from]
    BY DEF LinkClose
  <1> HIDE DEF f
  <1>2. ASSUME NEW p \in Nat, NEW C
        PROVE  after(p, C) = 0 \/ after(p, C) \in p + 1..stop - 1
    <2> DEFINE P == {q \in p + 1..stop - 1 : s[q] \in C /\ Plain(s, from, q, stop)}
    <2>1. P \subseteq p + 1..stop - 1
      OBVIOUS
    <2>2. after(p, C) = IF P = {} THEN 0 ELSE Min(P)
      BY DEF FirstPlain
    <2> HIDE DEF P
    <2>3. ASSUME NEW q \in P
          PROVE  Min(P) \in P
      <3>1. P \subseteq Int /\ p + 1 \in Int /\ \A x \in P : p + 1 <= x
        BY <2>1
      <3> QED BY <3>1, MinOf
    <2> QED BY <2>1, <2>2, <2>3
  <1> HIDE DEF after
  <1>3. ASSUME NEW p \in Nat
        PROVE  /\ title(p) = 0 \/ title(p) \in p + 1..stop - 1
               /\ dims(p) = 0 \/ dims(p) \in p + 1..stop - 1
    <2>1. quote(p) = 0 \/ quote(p) \in p + 1..stop - 1
      BY <1>2
    <2>2. dims(p) = 0 \/ dims(p) \in p + 1..stop - 1
      BY <1>2
    <2> HIDE DEF quote
    <2>3. CASE quote(p) # 0
      <3>1. quote(p) \in Nat /\ p < quote(p)
        BY <2>1, <2>3
      <3> DEFINE t == after(quote(p), {"=", ")"})
      <3>2. t = 0 \/ t \in quote(p) + 1..stop - 1
        BY <3>1, <1>2
      <3>3. title(p) = t
        BY <2>3
      <3> HIDE DEF t, title
      <3>4. title(p) = 0 \/ title(p) \in p + 1..stop - 1
        BY <3>1, <3>2, <3>3
      <3> QED BY <2>2, <3>4
    <2>4. CASE quote(p) = 0
      BY <2>2, <2>4
    <2> QED BY <2>3, <2>4
  <1> HIDE DEF title, dims, Body
  <1>4. ASSUME NEW p \in D
        PROVE  \/ \A g : Body(p, g) = p
               \/ \A g : Body(p, g) = 0
               \/ title(p) # 0 /\ ((\A g : Body(p, g) = title(p)) \/ \A g : Body(p, g) = g[title(p)])
               \/ dims(p) # 0 /\ ((\A g : Body(p, g) = dims(p)) \/ \A g : Body(p, g) = g[dims(p)])
    <2> HIDE DEF D
    <2>1. CASE p = 0 \/ s[p] \notin {"'", "\"", "="}
      BY <2>1 DEF Body
    <2>2. CASE ~(p = 0 \/ s[p] \notin {"'", "\"", "="}) /\ s[p] = "="
      <3>1. \A g : Body(p, g) = IF dims(p) # 0 /\ s[dims(p)] # ")" THEN g[dims(p)] ELSE dims(p)
        BY <2>2 DEF Body
      <3> QED BY <3>1
    <2>3. CASE ~(p = 0 \/ s[p] \notin {"'", "\"", "="}) /\ s[p] # "="
      <3>1. \A g : Body(p, g) = IF title(p) # 0 /\ s[title(p)] = "=" THEN g[title(p)] ELSE title(p)
        BY <2>3 DEF Body
      <3> QED BY <3>1
    <2> QED BY <2>1, <2>2, <2>3
  <1>5. f = [p \in D |-> Body(p, f)]
    <2> DEFINE B == [p \in D |-> [g \in [D -> V] |-> Body(p, g)]]
    <2>1. 0 \in V
      OBVIOUS
    <2>2. \A p \in D : \A g \in [D -> V] : B[p][g] = Body(p, g)
      OBVIOUS
    <2>3. GoesOn(D, rank, V, B)
      <3> SUFFICES ASSUME NEW p \in D
                   PROVE  \/ \E w \in V : \A g \in [D -> V] : B[p][g] = w
                          \/ \E r \in D : rank[r] < rank[p] /\ \A g \in [D -> V] : B[p][g] = g[r]
        BY DEF GoesOn
      <3>1. p \in Nat /\ p \in V /\ \A r \in p + 1..stop - 1 : r \in D /\ r \in V /\ rank[r] < rank[p]
        OBVIOUS
      <3>2. /\ title(p) # 0 => title(p) \in D /\ title(p) \in V /\ rank[title(p)] < rank[p]
            /\ dims(p) # 0 => dims(p) \in D /\ dims(p) \in V /\ rank[dims(p)] < rank[p]
        <4> HIDE DEF D, V, rank
        <4> QED BY <3>1, <1>3
      <3> HIDE DEF D, V, B, rank
      <3>3. CASE \A g : Body(p, g) = p
        BY <2>2, <3>1, <3>3
      <3>4. CASE \A g : Body(p, g) = 0
        BY <2>1, <2>2, <3>4
      <3>5. CASE title(p) # 0 /\ \A g : Body(p, g) = title(p)
        BY <2>2, <3>2, <3>5
      <3>6. CASE title(p) # 0 /\ \A g : Body(p, g) = g[title(p)]
        BY <2>2, <3>2, <3>6
      <3>7. CASE dims(p) # 0 /\ \A g : Body(p, g) = dims(p)
        BY <2>2, <3>2, <3>7
      <3>8. CASE dims(p) # 0 /\ \A g : Body(p, g) = g[dims(p)]
        BY <2>2, <3>2, <3>8
      <3> QED BY <1>4, <3>3, <3>4, <3>5, <3>6, <3>7, <3>8
    <2>4. Ranked(D, rank, stop)
      BY DEF Ranked
    <2>5. PICK h \in [D -> V] : \A p \in D : h[p] = B[p][h]
      <3> HIDE DEF D, V, B, rank
      <3> QED BY <2>1, <2>3, <2>4, TailRecursion
    <2>6. h = [p \in D |-> Body(p, h)]
      <3> HIDE DEF D, V, B, rank
      <3> QED BY <2>2, <2>5
    <2> QED BY <2>6 DEF f
  <1> DEFINE E == {0} \cup from..stop - 1
  <1>6. \A p \in E : f[p] \in E
    <2>1. \A p \in E : p \in D /\ f[p] = Body(p, f)
      <3>1. E \subseteq D
        OBVIOUS
      <3> HIDE DEF D, E
      <3> QED BY <1>5, <3>1
    <2>2. Follows(E, rank, E, f)
      <3> SUFFICES ASSUME NEW p \in E
                   PROVE  \/ f[p] \in E
                          \/ \E r \in E : rank[r] < rank[p] /\ (f[r] \in E => f[p] = f[r])
        BY DEF Follows
      <3>1. p \in D /\ f[p] = Body(p, f) /\ 0 \in E
        BY <2>1
      <3>2. CASE p = 0
        <4>1. f[p] = 0
          BY <3>1, <3>2 DEF Body
        <4> QED BY <4>1, <3>1
      <3>3. CASE p # 0
        <4>1. p \in Nat /\ \A r \in p + 1..stop - 1 : r \in E /\ rank[r] < rank[p]
          BY <3>3
        <4>2. /\ title(p) # 0 => title(p) \in E /\ rank[title(p)] < rank[p]
              /\ dims(p) # 0 => dims(p) \in E /\ rank[dims(p)] < rank[p]
          <5> HIDE DEF D, E, rank
          <5> QED BY <4>1, <1>3
        <4> HIDE DEF D, E, rank
        <4> QED BY <1>4, <3>1, <4>1, <4>2
      <3> QED BY <3>2, <3>3
    <2>3. Ranked(E, rank, stop)
      BY DEF Ranked
    <2> HIDE DEF E, rank
    <2> QED BY <2>2, <2>3, TailValues
  <1>7. from \in E
    OBVIOUS
  <1>8. f[from] \in E
    BY <1>6, <1>7
  <1>9. from = 0 => f[from] = 0
    <2>1. 0 \in D
      OBVIOUS
    <2>2. \A g : Body(0, g) = 0
      BY DEF Body
    <2> HIDE DEF D
    <2> QED BY <1>5, <2>1, <2>2
  <1> QED BY <1>1, <1>8, <1>9

-----------------------------------------------------------------------------
(* What the char_ functions return *)

Names ==
    {"NORMAL_TEXT", "EMPHASIS", "DOUBLE_EMPHASIS", "TRIPLE_EMPHASIS", "STRIKETHROUGH",
     "HIGHLIGHT", "LINEBREAK", "CODESPAN", "MATH_BLOCK", "ENTITY", "LINK_AUTO", "RAW_HTML",
     "SUPERSCRIPT", "FOOTNOTE_REF", "IMAGE", "LINK", "PARAGRAPH"}
NodeTypes ==
    [type : Names, up : Nat, from : Int, to : Int, a : Int, b : Int]

\* Nothing, or one node that begins at p; it is of characters before stop and
\* before the place where the parse goes on, and what is parsed within it is
\* part of it.
OneNode(r, p, stop) ==
    /\ r.next \in Int /\ (r.next = 0 \/ p < r.next)
    /\ \/ r.nodes = <<>> /\ ~ r.within
       \/ \E x \in NodeTypes :
             /\ r.nodes = <<x>> /\ x.from = p /\ x.to <= stop
             /\ r.next # 0 /\ x.to <= r.next
             /\ x.type = "NORMAL_TEXT" => x.a <= x.b
             /\ r.within =>
                   x.type # "NORMAL_TEXT" /\ p < x.a /\ x.a <= x.b /\ x.b <= x.to

LEMMA NoSpanIs ==
    ASSUME NEW p, NEW stop
    PROVE  OneNode(NoSpan, p, stop) /\ NoSpan.trim = 0 /\ NoSpan.next = 0
  <1>1. NoSpan.nodes = <<>> /\ NoSpan.within = FALSE /\ NoSpan.trim = 0 /\ NoSpan.next = 0
    BY DEF NoSpan, Parsed
  <1> QED BY <1>1 DEF OneNode

\* One node, from p to a place behind it.
LEMMA ParsedOne ==
    ASSUME NEW r, NEW type \in Names, NEW p \in Nat, NEW to \in Int, NEW a \in Int, NEW b \in Int,
           NEW next \in Int, NEW stop \in Nat, NEW within \in BOOLEAN,
           r.nodes = <<Node(type, p, to, a, b)>>, r.within = within, r.next = next,
           p < next, to <= next, to <= stop,
           type = "NORMAL_TEXT" => a <= b,
           within => type # "NORMAL_TEXT" /\ p < a /\ a <= b /\ b <= to
    PROVE  OneNode(r, p, stop)
  <1> DEFINE x == Node(type, p, to, a, b)
  <1>1. x \in NodeTypes /\ x.type = type /\ x.from = p /\ x.to = to /\ x.a = a /\ x.b = b
    <2>1. p \in Int
      OBVIOUS
    <2> QED BY <2>1 DEF Node, NodeTypes
  <1> HIDE DEF x
  <1>2. r.nodes = <<x>> /\ r.next \in Int /\ p < r.next /\ r.next # 0
    BY DEF x
  <1>3. x.from = p /\ x.to <= stop /\ x.to <= r.next /\ (x.type = "NORMAL_TEXT" => x.a <= x.b)
    BY <1>1
  <1>4. r.within => x.type # "NORMAL_TEXT" /\ p < x.a /\ x.a <= x.b /\ x.b <= x.to
    BY <1>1
  <1> QED BY <1>1, <1>2, <1>3, <1>4 DEF OneNode

LEMMA LeafOne ==
    ASSUME NEW type \in Names, NEW p \in Nat, NEW to \in Int, NEW a \in Int, NEW b \in Int,
           NEW stop \in Nat, p < to, to <= stop, type = "NORMAL_TEXT" => a <= b
    PROVE  OneNode(Leaf(type, p, to, a, b), p, stop) /\ Leaf(type, p, to, a, b).trim = 0
  <1> DEFINE r == Leaf(type, p, to, a, b)
  <1>1. r.nodes = <<Node(type, p, to, a, b)>> /\ r.within = FALSE /\ r.trim = 0 /\ r.next = to
    BY DEF Leaf, Parsed
  <1> HIDE DEF r
  <1>2. FALSE \in BOOLEAN /\ to <= to
    OBVIOUS
  <1>3. OneNode(r, p, stop)
    BY <1>1, <1>2, ParsedOne
  <1> QED BY <1>1, <1>3 DEF r

LEMMA SpanOne ==
    ASSUME NEW type \in Names \ {"NORMAL_TEXT"}, NEW p \in Nat, NEW to \in Int, NEW a \in Int,
           NEW b \in Int, NEW stop \in Nat, p < a, a <= b, b <= to, to <= stop
    PROVE  OneNode(Span(type, p, to, a, b), p, stop) /\ Span(type, p, to, a, b).trim = 0
  <1> DEFINE r == Span(type, p, to, a, b)
  <1>1. r.nodes = <<Node(type, p, to, a, b)>> /\ r.within = TRUE /\ r.trim = 0 /\ r.next = to
    BY DEF Span, Parsed
  <1> HIDE DEF r
  <1>2. TRUE \in BOOLEAN /\ to <= to /\ p < to /\ type \in Names /\ type # "NORMAL_TEXT"
    OBVIOUS
  <1>3. OneNode(r, p, stop)
    BY <1>1, <1>2, ParsedOne
  <1> QED BY <1>1, <1>3 DEF r

Plainly(r, p, stop) == OneNode(r, p, stop) /\ r.trim = 0

LEMMA EmphasisOne ==
    ASSUME NEW p \in Nat, NEW stop \in Nat, p < stop, NEW offset
    PROVE  Plainly(CharEmphasis(p, stop, offset), p, stop)
  <1> DEFINE c == text[p]
             n == Past(text, p, stop, {c}) - p
             One(a) ==
                 LET q == EmphClose1(text, a, stop, c, "NOINTEM" \in ext)
                 IN IF q = 0 THEN NoSpan ELSE Span("EMPHASIS", p, q + 1, a, q)
             type == CASE c = "~" -> "STRIKETHROUGH"
                       [] c = "=" -> "HIGHLIGHT"
                       [] OTHER -> "DOUBLE_EMPHASIS"
             Two(a) ==
                 LET q == EmphClose2(text, a, stop, c)
                 IN IF q = 0 THEN NoSpan ELSE Span(type, p, q + 2, a, q)
             Three(a) ==
                 LET q == EmphClose3(text, a, stop, c)
                 IN IF q = 0 THEN NoSpan
                    ELSE IF IsAt(text, q, stop, <<c, c, c>>)
                    THEN Span("TRIPLE_EMPHASIS", p, q + 3, a, q)
                    ELSE IF IsAt(text, q, stop, <<c, c>>) THEN One(a - 2)
                    ELSE Two(a - 1)
             r == CharEmphasis(p, stop, offset)
  <1>1. \/ r = NoSpan
        \/ n \in 1..3 /\ ~(stop - p < n + 2) /\
              (\/ n = 1 /\ r = One(p + 1)
               \/ n = 2 /\ r = Two(p + 2)
               \/ n = 3 /\ r = Three(p + 3))
    <2> DEFINE inWord == /\ "NOINTEM" \in ext /\ offset > 0
                         /\ text[p - 1] \notin Spaces \cup {">", "("}
               fails == \/ inWord \/ n \notin 1..3 \/ stop - p < n + 2
                        \/ text[p + n] \in Spaces
                        \/ n # 2 /\ c \in {"~", "="}
    <2>1. r = IF fails THEN NoSpan
              ELSE CASE n = 1 -> One(p + 1) [] n = 2 -> Two(p + 2) [] n = 3 -> Three(p + 3)
      BY DEF CharEmphasis
    <2>2. ~ fails => n \in 1..3 /\ ~(stop - p < n + 2)
      OBVIOUS
    <2> HIDE DEF fails, r, One, Two, Three, n
    <2>3. n \in 1..3 => n = 1 \/ n = 2 \/ n = 3
      OBVIOUS
    <2> QED BY <2>1, <2>2, <2>3
  <1>2. type \in Names \ {"NORMAL_TEXT"}
    <2>1. type \in {"STRIKETHROUGH", "HIGHLIGHT", "DOUBLE_EMPHASIS"}
      OBVIOUS
    <2> HIDE DEF type
    <2> QED BY <2>1 DEF Names
  <1>3. Plainly(NoSpan, p, stop)
    BY NoSpanIs DEF Plainly
  <1>4. p + 1 <= stop => Plainly(One(p + 1), p, stop)
    <2> SUFFICES ASSUME p + 1 <= stop
                 PROVE  Plainly(One(p + 1), p, stop)
      OBVIOUS
    <2> DEFINE q == EmphClose1(text, p + 1, stop, c, "NOINTEM" \in ext)
    <2>1. q = 0 \/ (q \in Int /\ p + 1 < q /\ q < stop)
      <3>1. p + 1 \in Nat
        OBVIOUS
      <3> QED BY <3>1, EmphClose1Within
    <2>2. One(p + 1) = IF q = 0 THEN NoSpan ELSE Span("EMPHASIS", p, q + 1, p + 1, q)
      OBVIOUS
    <2> HIDE DEF q, One
    <2>3. CASE q # 0
      <3>1. /\ "EMPHASIS" \in Names \ {"NORMAL_TEXT"} /\ q + 1 \in Int /\ p + 1 \in Int /\ q \in Int
            /\ p < p + 1 /\ p + 1 <= q /\ q <= q + 1 /\ q + 1 <= stop
        BY <2>1, <2>3 DEF Names
      <3>2. Plainly(Span("EMPHASIS", p, q + 1, p + 1, q), p, stop)
        BY <3>1, SpanOne DEF Plainly
      <3> QED BY <2>2, <2>3, <3>2
    <2> QED BY <1>3, <2>2, <2>3
  <1>5. p + 2 <= stop => Plainly(Two(p + 2), p, stop)
    <2> SUFFICES ASSUME p + 2 <= stop
                 PROVE  Plainly(Two(p + 2), p, stop)
      OBVIOUS
    <2> DEFINE q == EmphClose2(text, p + 2, stop, c)
    <2>1. q = 0 \/ (q \in Int /\ p + 2 < q /\ q + 2 <= stop)
      <3>1. p + 2 \in Nat /\ p + 2 <= stop
        OBVIOUS
      <3>2. q = 0 \/ (q \in Int /\ p + 2 < q /\ q + 2 <= stop /\ IsAt(text, q, stop, <<c, c>>))
        BY <3>1, EmphClose2Within
      <3> HIDE DEF q
      <3> QED BY <3>2
    <2>2. Two(p + 2) = IF q = 0 THEN NoSpan ELSE Span(type, p, q + 2, p + 2, q)
      OBVIOUS
    <2> HIDE DEF q, Two, type
    <2>3. CASE q # 0
      <3>1. /\ q + 2 \in Int /\ p + 2 \in Int /\ q \in Int
            /\ p < p + 2 /\ p + 2 <= q /\ q <= q + 2 /\ q + 2 <= stop
        BY <2>1, <2>3
      <3>2. Plainly(Span(type, p, q + 2, p + 2, q), p, stop)
        BY <1>2, <3>1, SpanOne DEF Plainly
      <3> QED BY <2>2, <2>3, <3>2
    <2> QED BY <1>3, <2>2, <2>3
  <1>6. p + 3 <= stop => Plainly(Three(p + 3), p, stop)
    <2> SUFFICES ASSUME p + 3 <= stop
                 PROVE  Plainly(Three(p + 3), p, stop)
      OBVIOUS
    <2> DEFINE q == EmphClose3(text, p + 3, stop, c)
    <2>1. q = 0 \/ (q \in Int /\ p + 3 < q /\ q < stop)
      <3>1. p + 3 \in Nat
        OBVIOUS
      <3> QED BY <3>1, EmphClose3Within
    <2>2. Three(p + 3) = IF q = 0 THEN NoSpan
                         ELSE IF IsAt(text, q, stop, <<c, c, c>>)
                         THEN Span("TRIPLE_EMPHASIS", p, q + 3, p + 3, q)
                         ELSE IF IsAt(text, q, stop, <<c, c>>) THEN One(p + 1)
                         ELSE Two(p + 2)
      <3>1. (p + 3) - 2 = p + 1 /\ (p + 3) - 1 = p + 2
        OBVIOUS
      <3> HIDE DEF One, Two
      <3> QED BY <3>1
    <2>3. IsAt(text, q, stop, <<c, c, c>>) => q + 3 <= stop
      BY DEF IsAt
    <2> HIDE DEF q, One, Two, Three, c
    <2>4. CASE q # 0 /\ IsAt(text, q, stop, <<c, c, c>>)
      <3>1. /\ "TRIPLE_EMPHASIS" \in Names \ {"NORMAL_TEXT"} /\ q + 3 \in Int /\ p + 3 \in Int /\ q \in Int
            /\ p < p + 3 /\ p + 3 <= q /\ q <= q + 3 /\ q + 3 <= stop
        BY <2>1, <2>3, <2>4 DEF Names
      <3>2. Plainly(Span("TRIPLE_EMPHASIS", p, q + 3, p + 3, q), p, stop)
        BY <3>1, SpanOne DEF Plainly
      <3> QED BY <2>2, <2>4, <3>2
    <2>5. p + 1 <= stop /\ p + 2 <= stop
      OBVIOUS
    <2> QED BY <1>3, <1>4, <1>5, <2>2, <2>4, <2>5
  <1>7. n \in 1..3 /\ ~(stop - p < n + 2) => p + n <= stop
    <2> HIDE DEF n
    <2> QED OBVIOUS
  <1> HIDE DEF One, Two, Three, n
  <1> QED BY <1>1, <1>3, <1>4, <1>5, <1>6, <1>7

LEMMA CodespanOne ==
    ASSUME NEW p \in Nat, NEW stop \in Nat, p < stop, text[p] = "tick"
    PROVE  Plainly(CharCodespan(p, stop), p, stop)
  <1> DEFINE open == Past(text, p, stop, {"tick"})
             end == CodeEnd(text, p, stop)
             close == end - (open - p)
             a == Past(text, open, close, {" "})
             S == {q \in a..close : q = a \/ text[q - 1] # " "}
             b == Max(S)
  <1>1. CharCodespan(p, stop) = IF end = 0 THEN NoSpan ELSE Leaf("CODESPAN", p, end, a, b)
    BY DEF CharCodespan
  <1>2. Plainly(NoSpan, p, stop)
    BY NoSpanIs DEF Plainly
  <1>3. CASE end # 0
    <2>1. open \in Int
      BY PastFinds
    <2>2. end \in Int /\ end <= stop /\ p < open /\ end >= open + (open - p)
      BY <1>3, CodeEnds
    <2> HIDE DEF open, end
    <2>3. close \in Int /\ open <= close /\ p < end
      BY <2>1, <2>2
    <2> HIDE DEF close
    <2>4. a \in Int /\ a <= close
      BY <2>1, <2>3, PastFinds
    <2> HIDE DEF a
    <2>5. S \subseteq Int /\ (\A x \in S : x <= close) /\ a \in S
      <3>1. S \subseteq a..close
        OBVIOUS
      <3>2. a \in S
        BY <2>3, <2>4
      <3> HIDE DEF S
      <3> QED BY <2>3, <2>4, <3>1, <3>2
    <2>6. b \in Int
      <3> HIDE DEF S
      <3> QED BY <2>3, <2>5, MaxOf
    <2> HIDE DEF b, S
    <2>7. Plainly(Leaf("CODESPAN", p, end, a, b), p, stop)
      <3>1. "CODESPAN" \in Names /\ "CODESPAN" # "NORMAL_TEXT"
        BY DEF Names
      <3> QED BY <2>2, <2>3, <2>4, <2>6, <3>1, LeafOne, ZenonT(30) DEF Plainly
    <2> QED BY <1>1, <1>3, <2>7
  <1> QED BY <1>1, <1>2, <1>3

LEMMA MathOne ==
    ASSUME NEW p \in Nat, NEW stop \in Nat, NEW t, Len(t) \in Nat \ {0}
    PROVE  Plainly(Math(p, stop, t), p, stop)
  <1> DEFINE q == MathClose(text, p, stop, t)
             n == Len(t)
  <1>1. Math(p, stop, t) = IF q = 0 THEN NoSpan
                           ELSE Leaf("MATH_BLOCK", p, q + n, p + n, q)
    BY DEF Math
  <1>2. q = 0 \/ (q \in Int /\ p + n <= q /\ q + n <= stop)
    BY MathCloses
  <1>3. Plainly(NoSpan, p, stop)
    BY NoSpanIs DEF Plainly
  <1>4. CASE q # 0
    <2> HIDE DEF q, n
    <2>1. n \in Nat /\ n # 0
      BY DEF n
    <2>2. /\ "MATH_BLOCK" \in Names /\ "MATH_BLOCK" # "NORMAL_TEXT" /\ q + n \in Int /\ p + n \in Int
          /\ q \in Int /\ p < q + n /\ q + n <= stop
      BY <1>2, <1>4, <2>1 DEF Names
    <2>3. Plainly(Leaf("MATH_BLOCK", p, q + n, p + n, q), p, stop)
      BY <2>2, LeafOne DEF Plainly
    <2> QED BY <1>1, <1>4, <2>3
  <1> QED BY <1>1, <1>3, <1>4

LEMMA FormulaOne ==
    ASSUME NEW p \in Nat, NEW stop \in Nat
    PROVE  Plainly(CharMath(p, stop), p, stop)
  <1>1. Len(<<"$", "$">>) \in Nat \ {0} /\ Len(<<"$">>) \in Nat \ {0}
    OBVIOUS
  <1>2. Plainly(Math(p, stop, <<"$", "$">>), p, stop) /\ Plainly(Math(p, stop, <<"$">>), p, stop)
    BY <1>1, MathOne
  <1> QED BY <1>2 DEF CharMath

LEMMA EscapeOne ==
    ASSUME NEW p \in Nat, NEW stop \in Nat, p < stop
    PROVE  Plainly(CharEscape(p, stop), p, stop)
  <1> DEFINE Formula2(o, c) ==
                 IF "MATH" \in ext /\ IsAt(text, p, stop, <<"\\", "\\", o>>)
                 THEN Math(p, stop, <<"\\", "\\", c>>) ELSE NoSpan
             math == IF Formula2("[", "]") = NoSpan THEN Formula2("(", ")")
                     ELSE Formula2("[", "]")
             next == Past(text, p + 2, stop, {" "})
             last == [Leaf("NORMAL_TEXT", p, stop, p, stop) EXCEPT !.next = p + 2]
             r == CharEscape(p, stop)
  <1>1. \/ stop - p = 1 /\ r = last
        \/ r = math \/ r = NoSpan
        \/ stop - p # 1 /\ r = Leaf("LINEBREAK", p, next, p, p)
        \/ stop - p # 1 /\ r = Leaf("NORMAL_TEXT", p, p + 2, p + 1, p + 2)
    <2> HIDE DEF math, last
    <2> QED BY DEF CharEscape, math, last
  <1>2. Plainly(NoSpan, p, stop)
    BY NoSpanIs DEF Plainly
  <1>3. Plainly(math, p, stop)
    <2>1. \A c : Len(<<"\\", "\\", c>>) \in Nat \ {0}
      OBVIOUS
    <2>2. \A c : Plainly(Math(p, stop, <<"\\", "\\", c>>), p, stop)
      BY <2>1, MathOne
    <2> QED BY <1>2, <2>2
  <1>4. stop - p = 1 => Plainly(last, p, stop)
    <2> SUFFICES ASSUME stop - p = 1
                 PROVE  Plainly(last, p, stop)
      OBVIOUS
    <2>1. /\ last.nodes = <<Node("NORMAL_TEXT", p, stop, p, stop)>> /\ last.within = FALSE
          /\ last.next = p + 2 /\ last.trim = 0
      BY DEF Leaf, Parsed
    <2> HIDE DEF last
    <2>2. /\ "NORMAL_TEXT" \in Names /\ stop \in Int /\ p \in Int /\ p + 2 \in Int /\ FALSE \in BOOLEAN
          /\ p < p + 2 /\ stop <= p + 2 /\ stop <= stop /\ p <= stop
      BY DEF Names
    <2>3. OneNode(last, p, stop)
      BY <2>1, <2>2, ParsedOne
    <2> QED BY <2>1, <2>3 DEF Plainly
  <1>5. stop - p # 1 => Plainly(Leaf("LINEBREAK", p, next, p, p), p, stop)
    <2> SUFFICES ASSUME stop - p # 1
                 PROVE  Plainly(Leaf("LINEBREAK", p, next, p, p), p, stop)
      OBVIOUS
    <2>1. p + 2 \in Int /\ p + 2 <= stop /\ p \in Int
      OBVIOUS
    <2>2. next \in Int /\ p + 2 <= next /\ next <= stop
      BY ONLY <2>1, stop \in Nat, stop \in Int, PastFinds
    <2> HIDE DEF next
    <2>3. "LINEBREAK" \in Names /\ "LINEBREAK" # "NORMAL_TEXT" /\ p < next
      BY <2>2 DEF Names
    <2> QED BY <2>1, <2>2, <2>3, LeafOne DEF Plainly
  <1>6. stop - p # 1 => Plainly(Leaf("NORMAL_TEXT", p, p + 2, p + 1, p + 2), p, stop)
    <2> SUFFICES ASSUME stop - p # 1
                 PROVE  Plainly(Leaf("NORMAL_TEXT", p, p + 2, p + 1, p + 2), p, stop)
      OBVIOUS
    <2>1. /\ p + 2 \in Int /\ p + 2 <= stop /\ p + 1 \in Int /\ p < p + 2 /\ p + 1 <= p + 2
          /\ "NORMAL_TEXT" \in Names
      BY DEF Names
    <2> QED BY <2>1, LeafOne DEF Plainly
  <1> HIDE DEF math, last, next, r
  <1>7. Plainly(r, p, stop)
    BY <1>1, <1>2, <1>3, <1>4, <1>5, <1>6
  <1> QED BY <1>7 DEF r

LEMMA EntityOne ==
    ASSUME NEW p \in Nat, NEW stop \in Nat, p < stop
    PROVE  Plainly(CharEntity(p, stop), p, stop)
  <1> DEFINE name == IF p + 1 < stop /\ text[p + 1] = "#" THEN p + 2 ELSE p + 1
             e == Past(text, name, stop, Letters)
  <1>1. name \in Int /\ p < name
    OBVIOUS
  <1>2. \/ CharEntity(p, stop) = NoSpan
        \/ e < stop /\ CharEntity(p, stop) = Leaf("ENTITY", p, e + 1, p, e + 1)
    BY DEF CharEntity
  <1> HIDE DEF name
  <1>3. e \in Int /\ p < e
    BY <1>1, PastFinds
  <1> HIDE DEF e
  <1>4. e < stop => Plainly(Leaf("ENTITY", p, e + 1, p, e + 1), p, stop)
    <2> SUFFICES ASSUME e < stop
                 PROVE  Plainly(Leaf("ENTITY", p, e + 1, p, e + 1), p, stop)
      OBVIOUS
    <2>1. /\ "ENTITY" \in Names /\ "ENTITY" # "NORMAL_TEXT" /\ e + 1 \in Int /\ p \in Int
          /\ p < e + 1 /\ e + 1 <= stop
      BY <1>3 DEF Names
    <2> QED BY <2>1, LeafOne DEF Plainly
  <1> QED BY <1>2, <1>4, NoSpanIs DEF Plainly

LEMMA LangleOne ==
    ASSUME NEW p \in Nat, NEW stop \in Nat, p < stop
    PROVE  Plainly(CharLangleTag(p, stop), p, stop)
  <1> DEFINE tag == TagLength(text, p, stop)
             e == tag.end
  <1>1. \/ CharLangleTag(p, stop) = NoSpan
        \/ e # 0 /\ CharLangleTag(p, stop) = Leaf("LINK_AUTO", p, e, p + 1, e - 1)
        \/ e # 0 /\ CharLangleTag(p, stop) = Leaf("RAW_HTML", p, e, p, e)
    <2> HIDE DEF tag
    <2> QED BY DEF CharLangleTag, tag
  <1>2. CASE e # 0
    <2>1. e \in Int /\ p + 1 < e /\ e <= stop
      BY <1>2, TagEnds
    <2> HIDE DEF e
    <2>2. /\ "LINK_AUTO" \in Names /\ "LINK_AUTO" # "NORMAL_TEXT"
          /\ "RAW_HTML" \in Names /\ "RAW_HTML" # "NORMAL_TEXT"
          /\ p + 1 \in Int /\ e - 1 \in Int /\ p \in Int /\ p < e
      BY <2>1 DEF Names
    <2>3. Plainly(Leaf("LINK_AUTO", p, e, p + 1, e - 1), p, stop)
      BY <2>1, <2>2, LeafOne DEF Plainly
    <2>4. Plainly(Leaf("RAW_HTML", p, e, p, e), p, stop)
      BY <2>1, <2>2, LeafOne DEF Plainly
    <2> QED BY <1>1, <2>3, <2>4, NoSpanIs DEF Plainly
  <1> HIDE DEF e
  <1> QED BY <1>1, <1>2, NoSpanIs DEF Plainly

LEMMA SuperscriptOne ==
    ASSUME NEW p \in Nat, NEW stop \in Nat, p < stop
    PROVE  Plainly(CharSuperscript(p, stop), p, stop)
  <1> DEFINE n == FindEmph(text, p + 2, stop, ")")
             blank == Until(text, p + 1, stop, Spaces)
             none == [NoSpan EXCEPT !.next = p + 3]
             r == CharSuperscript(p, stop)
  <1>1. \/ r = NoSpan
        \/ blank # p + 1 /\ r = Span("SUPERSCRIPT", p, blank, p + 1, blank)
        \/ r = none
        \/ ~(stop - p < 2) /\ n # 0 /\ r = Span("SUPERSCRIPT", p, p + 3 + n, p + 2, p + 2 + n)
    <2> HIDE DEF n, blank, none
    <2> QED BY DEF CharSuperscript, n, blank, none
  <1>2. "SUPERSCRIPT" \in Names \ {"NORMAL_TEXT"}
    BY DEF Names
  <1>3. blank # p + 1 => Plainly(Span("SUPERSCRIPT", p, blank, p + 1, blank), p, stop)
    <2> SUFFICES ASSUME blank # p + 1
                 PROVE  Plainly(Span("SUPERSCRIPT", p, blank, p + 1, blank), p, stop)
      OBVIOUS
    <2>1. p + 1 \in Int /\ p + 1 <= stop
      OBVIOUS
    <2>2. blank \in Int /\ p + 1 <= blank /\ blank <= stop
      BY <2>1, UntilFinds
    <2> HIDE DEF blank
    <2>3. p < p + 1 /\ p + 1 <= blank /\ blank <= blank
      BY <2>2
    <2> QED BY <1>2, <2>1, <2>2, <2>3, SpanOne DEF Plainly
  <1>4. Plainly(none, p, stop)
    <2>1. none.nodes = <<>> /\ none.within = FALSE /\ none.trim = 0 /\ none.next = p + 3
      BY DEF NoSpan, Parsed
    <2> HIDE DEF none
    <2>2. p + 3 \in Int /\ p < p + 3
      OBVIOUS
    <2> QED BY <2>1, <2>2 DEF Plainly, OneNode
  <1>5. ~(stop - p < 2) /\ n # 0 =>
            Plainly(Span("SUPERSCRIPT", p, p + 3 + n, p + 2, p + 2 + n), p, stop)
    <2> SUFFICES ASSUME ~(stop - p < 2), n # 0
                 PROVE  Plainly(Span("SUPERSCRIPT", p, p + 3 + n, p + 2, p + 2 + n), p, stop)
      OBVIOUS
    <2>1. p + 2 \in Int /\ p + 2 <= stop + 1
      OBVIOUS
    <2>2. n \in Nat /\ (n # 0 => (p + 2) + n < stop)
      BY <2>1, EmphFound
    <2> HIDE DEF n
    <2>3. /\ p + 3 + n \in Int /\ p + 2 + n \in Int /\ p < p + 2 /\ p + 2 <= p + 2 + n
          /\ p + 2 + n <= p + 3 + n /\ p + 3 + n <= stop
      BY <2>2
    <2> QED BY <1>2, <2>1, <2>3, SpanOne DEF Plainly
  <1> HIDE DEF n, blank, none, r
  <1>6. Plainly(r, p, stop)
    BY <1>1, <1>3, <1>4, <1>5, NoSpanIs DEF Plainly
  <1> QED BY <1>6 DEF r

-----------------------------------------------------------------------------
(* The inductive invariant *)

Calls ==
    [node : Nat, stop : Nat, i : Nat, end : Nat, consumed : Nat, next : Nat]

\* What CharLink returns, of which no character before p and no footnote that
\* was used has any effect.
LinkNext(p, stop) ==
    LET e == LinkText(p, stop)
        end == LinkEnd(p, e, stop)
    IN IF ~ (e < stop /\ text[e] = "]") THEN 0
       ELSE IF IsNote(p, stop) \/ IsMeta(p, stop) THEN IF e - p < 3 THEN 0 ELSE e + 1
       ELSE IF end = 0 THEN 0 ELSE BehindAttrs(end, stop)

\* No node is in text or in a node after it.
NodesTyped ==
    \A n \in DOMAIN nodes :
        /\ nodes[n].up < n
        /\ nodes[n].up # 0 => nodes[nodes[n].up].type # "NORMAL_TEXT"
        /\ nodes[n].type = "NORMAL_TEXT" => nodes[n].a <= nodes[n].b

\* A call parses what is within its node, up to its end, and i does not go
\* back behind what was consumed.
BeginOf(f) == IF f.node = 0 THEN 1 ELSE nodes[f.node].a
CallTyped(f) ==
    /\ f.node <= Len(nodes)
    /\ f.node # 0 => nodes[f.node].type # "NORMAL_TEXT" /\ nodes[f.node].b = f.stop
    /\ 1 <= BeginOf(f) /\ BeginOf(f) <= f.consumed /\ f.consumed <= f.i
    /\ f.end = f.i \/ (f.end = f.i + 1 /\ f.i < f.stop)
CallsTyped == \A k \in DOMAIN frames : CallTyped(frames[k])

\* A call's text is part of its caller's, that goes on behind it.
CallsNested ==
    \A k \in 2..Len(frames) :
        LET f == frames[k]
            g == frames[k - 1]
        IN /\ \A j \in 1..k - 1 : frames[j].node < f.node
           /\ nodes[f.node].up = g.node
           /\ f.stop <= g.stop /\ f.stop <= f.next /\ g.i < f.next

\* Node l is the text that CopyText has made before i.
TextBefore(l) ==
    /\ l # 0 /\ nodes[l].type = "NORMAL_TEXT"
    /\ nodes[l].a = nodes[l].from /\ nodes[l].b = nodes[l].to /\ nodes[l].to = Top.i
    /\ Top.consumed <= nodes[l].from /\ nodes[l].from < Top.i
    /\ \A q \in nodes[l].from + 1..Top.i - 1 : text[q] \notin Special
Copied ==
    outcome = "parsing" /\ Top.i = Top.end /\ Top.consumed < Top.i => TextBefore(LastChild)

\* Where the nodes of call k end: at the place it has reached, but for the
\* mark of an image that is no image, which is not passed yet.
MarkAt(n, i) ==
    /\ nodes[n].type = "NORMAL_TEXT" /\ nodes[n].from = i /\ nodes[n].to = i + 1
    /\ text[i] = "!"
Reach(k) == IF k = Len(frames) THEN frames[k].i ELSE frames[k + 1].next
Passed ==
    outcome = "parsing" =>
        \A k \in DOMAIN frames : \A n \in DOMAIN nodes : nodes[n].up = frames[k].node =>
            \/ nodes[n].to <= Reach(k)
            \/ k = Len(frames) /\ Top.end = Top.i + 1 /\ MarkAt(n, Top.i)

\* NodesInOrder, and a mark that is shown twice is one character.
InOrder(m, n) ==
    \/ nodes[m].to <= nodes[n].from
    \/ Emptied(m, n)
    \/ MarkAgain(m, n) /\ nodes[m].to <= nodes[n].from + 1
Ordered ==
    \A n \in DOMAIN nodes : \A m \in 1..n - 1 : nodes[m].up = nodes[n].up => InOrder(m, n)

\* Where an image was tried and is none there is no link with its mark.
TriedAt(f) ==
    /\ f.end = f.i + 1 /\ f.end < f.stop /\ text[f.i] = "!" /\ text[f.end] = "["
           => LinkNext(f.end, f.stop) = 0
    /\ f.end = f.i /\ f.i < f.stop /\ text[f.i] = "["
       /\ f.consumed < f.i /\ text[f.i - 1] = "!"
           => LinkNext(f.i, f.stop) = 0
Tried == outcome = "parsing" => \A f \in {Top} : TriedAt(f)

Parse ==
    /\ nodes \in Seq(NodeTypes) /\ frames \in Seq(Calls)
    /\ outcome = "parsing" => frames # <<>>
    /\ NodesTyped /\ CallsTyped /\ CallsNested /\ Copied /\ Passed
    /\ SpansNested /\ Ordered /\ Tried

\* A document's paragraphs come one after another, and before they are parsed
\* there is nothing.
IsSequence(s) == \E S : s \in Seq(S)
Reading == outcome \in {"called", "metadata", "reading"}
Paragraphs ==
    /\ IsSequence(data) /\ IsSequence(text)
    /\ outcome = "reading" => beg \in Int
    /\ outcome \in {"done", "parsing"} => beg \in Nat \ {0}
    /\ Reading => nodes = <<>> /\ frames = <<>>
    /\ data # <<>> =>
         /\ frames # <<>> => frames[1].node # 0
         /\ \A n \in DOMAIN nodes : nodes[n].up = 0 => nodes[n].to <= beg

ParseInv == Parse /\ Paragraphs

-----------------------------------------------------------------------------
(* Links *)

LEMMA LinkTextIs ==
    ASSUME NEW p \in Nat, NEW stop \in Nat, p < stop
    PROVE  LinkText(p, stop) \in Int /\ p < LinkText(p, stop) /\ LinkText(p, stop) <= stop
  <1> DEFINE n == FindEmph(text, p + 1, stop, "]")
  <1>1. p + 1 \in Int /\ p + 1 <= stop + 1
    OBVIOUS
  <1>2. n \in Nat /\ (n # 0 => (p + 1) + n < stop)
    BY <1>1, EmphFound
  <1>3. LinkText(p, stop) = p + 1 + n
    BY DEF LinkText
  <1> HIDE DEF n
  <1> QED BY <1>2, <1>3

\* A link ends behind its text.
LEMMA LinkEnds ==
    ASSUME NEW p \in Nat, NEW e \in Nat, NEW stop \in Nat, e < stop
    PROVE  \/ LinkEnd(p, e, stop) = 0
           \/ LinkEnd(p, e, stop) \in Int /\ e < LinkEnd(p, e, stop) /\ LinkEnd(p, e, stop) <= stop
  <1> DEFINE q == Past(text, e + 1, stop, Spaces)
             from == Past(text, q + 1, stop, Spaces)
             dest == DestEnd(text, from, stop)
             close == LinkClose(text, dest, stop)
             label == Until(text, q + 1, stop, {"]"})
  <1>1. \/ q < stop /\ close # 0 /\ LinkEnd(p, e, stop) = close + 1
        \/ q < stop /\ label < stop /\ LinkEnd(p, e, stop) = label + 1
        \/ LinkEnd(p, e, stop) = e + 1
        \/ LinkEnd(p, e, stop) = 0
    BY DEF LinkEnd
  <1>2. q \in Int /\ e + 1 <= q /\ q <= stop
    <2>1. e + 1 \in Int /\ e + 1 <= stop
      OBVIOUS
    <2> QED BY <2>1, PastFinds
  <1> HIDE DEF q
  <1>3. q < stop /\ close # 0 => close \in Int /\ e < close /\ close < stop
    <2> SUFFICES ASSUME q < stop, close # 0
                 PROVE  close \in Int /\ e < close /\ close < stop
      OBVIOUS
    <2>1. q + 1 \in Int /\ q + 1 <= stop
      BY <1>2
    <2>2. from \in Int /\ q + 1 <= from /\ from <= stop
      BY ONLY <2>1, stop \in Nat, stop \in Int, PastFinds
    <2> HIDE DEF from
    <2>3. from <= stop + 1
      BY <2>2
    <2>4. dest = 0 \/ dest \in from..stop - 1
      BY <2>2, <2>3, DestWithin
    <2> HIDE DEF dest
    <2>5. dest \in Nat /\ dest < stop
      BY <1>2, <2>2, <2>4
    <2>6. dest # 0 /\ close \in dest..stop - 1
      BY <2>5, CloseWithin
    <2> HIDE DEF close
    <2> QED BY <1>2, <2>2, <2>4, <2>6
  <1>4. label \in Int /\ q + 1 <= label
    <2>1. q + 1 \in Int
      BY <1>2
    <2> QED BY <2>1, UntilFinds
  <1> HIDE DEF close, label
  <1> QED BY <1>1, <1>2, <1>3, <1>4

LEMMA BehindIs ==
    ASSUME NEW end \in Nat, NEW stop \in Nat, end <= stop
    PROVE  BehindAttrs(end, stop) \in Int /\ end <= BehindAttrs(end, stop)
  <1> DEFINE b == Until(text, end + 1, stop, {"}"})
             n == AttrsSize(end, stop)
             q == end + 1 + n
  <1>1. \/ BehindAttrs(end, stop) = end
        \/ Attributed(end, stop) /\ BehindAttrs(end, stop) \in {q, q + 1}
    BY DEF BehindAttrs
  <1>2. CASE Attributed(end, stop)
    <2>1. b \in Int /\ end + 1 <= b
      <3>1. end + 1 \in Int /\ stop \in Int
        OBVIOUS
      <3> QED BY ONLY <3>1, UntilFinds
    <2>2. n \in {0, b - (end + 1), b - (end + 1) + 1}
      BY DEF AttrsSize, ExtAttrs
    <2> HIDE DEF b, n
    <2>3. n \in Nat
      BY <2>1, <2>2
    <2> QED BY <1>1, <2>3
  <1> QED BY <1>1, <1>2

LEMMA LinkNextIs ==
    ASSUME NEW p \in Nat, NEW stop \in Nat, p < stop
    PROVE  LinkNext(p, stop) = 0 \/ (LinkNext(p, stop) \in Int /\ p + 1 < LinkNext(p, stop))
  <1> DEFINE e == LinkText(p, stop)
             end == LinkEnd(p, e, stop)
             next == BehindAttrs(end, stop)
  <1>1. \/ LinkNext(p, stop) = 0
        \/ e < stop /\ LinkNext(p, stop) = e + 1
        \/ e < stop /\ end # 0 /\ LinkNext(p, stop) = next
    BY DEF LinkNext
  <1>2. e \in Nat /\ p < e
    BY LinkTextIs
  <1> HIDE DEF e
  <1>3. e < stop /\ end # 0 => end \in Nat /\ e < end /\ end <= stop
    <2>1. e < stop => end = 0 \/ (end \in Int /\ e < end /\ end <= stop)
      BY <1>2, LinkEnds
    <2> HIDE DEF end
    <2> QED BY <1>2, <2>1
  <1> HIDE DEF end
  <1>4. e < stop /\ end # 0 => next \in Int /\ end <= next
    BY <1>3, BehindIs
  <1> HIDE DEF next
  <1> QED BY <1>1, <1>2, <1>3, <1>4

LEMMA LinkNextStays ==
    ASSUME NEW p, NEW stop, UNCHANGED <<text, ext, defs>>
    PROVE  LinkNext(p, stop)' = LinkNext(p, stop)
  <1>1. text' = text /\ ext' = ext /\ defs' = defs
    OBVIOUS
  <1>2. LinkText(p, stop)' = LinkText(p, stop)
    BY <1>1 DEF LinkText
  <1>3. \A e : LinkEnd(p, e, stop)' = LinkEnd(p, e, stop)
    BY <1>1 DEF LinkEnd
  <1>4. \A end : BehindAttrs(end, stop)' = BehindAttrs(end, stop)
    BY <1>1 DEF BehindAttrs, Attributed, AttrsSize
  <1>5. IsNote(p, stop)' = IsNote(p, stop) /\ IsMeta(p, stop)' = IsMeta(p, stop)
    BY <1>1 DEF IsNote, IsMeta
  <1> QED BY <1>1, <1>2, <1>3, <1>4, <1>5 DEF LinkNext

-----------------------------------------------------------------------------
(* What they return in a state of the parse *)

\* Node x is the mark at p, which was taken for that of an image.
IsMark(x, p) == x = Text(p, p + 1) /\ text[p] = "!"

\* Node x is an address that begins before the place reached.
TakesBack(r, x) ==
    /\ x.type = "LINK_AUTO" /\ Top.consumed < Top.i
    /\ r.trim = Min({Top.i - x.from, nodes[LastChild].b - nodes[LastChild].a})

\* r is nothing, one node, or a mark and a node behind it.
FitsNode(r, x) ==
    /\ Top.consumed <= x.from /\ x.to <= Top.stop
    /\ x.type = "NORMAL_TEXT" => x.a <= x.b
    /\ r.next # 0 => x.to <= r.next
    /\ r.next = 0 => IsMark(x, Top.i - 1) \/ IsMark(x, Top.i)
    /\ Top.i <= x.from \/ TakesBack(r, x) \/ IsMark(x, Top.i - 1)
    /\ r.within => /\ r.next # 0 /\ x.type # "NORMAL_TEXT"
                   /\ Top.i < x.a /\ x.a <= x.b /\ x.b <= x.to
FitsBehind(r, x) ==
    /\ r.next # 0 /\ ~ r.within /\ text[Top.i] = "!" /\ Top.i + 1 < Top.stop
    /\ x.from = Top.i + 1 /\ x.to <= r.next /\ x.to <= Top.stop
    /\ x.type = "NORMAL_TEXT" => x.a <= x.b
Trims(r) ==
    /\ r.trim \in Nat
    /\ r.trim # 0 => /\ LastChild # 0 /\ nodes[LastChild].type = "NORMAL_TEXT"
                     /\ r.trim <= nodes[LastChild].b - nodes[LastChild].a
Fits(r) ==
    /\ r.next \in Int /\ (r.next # 0 => Top.i < r.next)
    /\ Trims(r)
    /\ \/ r.nodes = <<>> /\ ~ r.within
       \/ \E x \in NodeTypes : r.nodes = <<x>> /\ FitsNode(r, x)
       \/ \E x \in NodeTypes : r.nodes = <<Text(Top.i, Top.i + 1), x>> /\ FitsBehind(r, x)

\* A special character is reached.
Ready == Parse /\ outcome = "parsing" /\ Top.i = Top.end /\ Top.i < Top.stop

LEMMA TopIs ==
    ASSUME Parse, outcome = "parsing"
    PROVE  /\ Len(frames) \in Nat \ {0} /\ Len(frames) \in DOMAIN frames
           /\ Top = frames[Len(frames)] /\ Top \in Calls /\ CallTyped(Top)
           /\ Top.consumed <= Top.i /\ 1 <= Top.consumed
           /\ Top.node \in Nat /\ Top.stop \in Nat /\ Top.i \in Nat /\ Top.end \in Nat
           /\ Top.consumed \in Nat /\ Top.next \in Nat
  <1>1. frames \in Seq(Calls) /\ frames # <<>>
    BY DEF Parse
  <1>2. Len(frames) \in Nat \ {0} /\ Len(frames) \in DOMAIN frames
    BY <1>1
  <1>3. Top = frames[Len(frames)]
    BY DEF Top
  <1>4. Top \in Calls
    BY <1>1, <1>2, <1>3
  <1>5. CallTyped(Top)
    BY <1>2, <1>3 DEF Parse, CallsTyped
  <1> HIDE DEF Top
  <1>6. /\ Top.node \in Nat /\ Top.stop \in Nat /\ Top.i \in Nat /\ Top.end \in Nat
        /\ Top.consumed \in Nat /\ Top.next \in Nat
    BY <1>4 DEF Calls
  <1>7. 1 <= BeginOf(Top) /\ BeginOf(Top) <= Top.consumed /\ Top.consumed <= Top.i
        /\ BeginOf(Top) \in Int
    <2>1. Top.node # 0 => Top.node \in DOMAIN nodes /\ nodes[Top.node] \in NodeTypes
      BY <1>5, <1>6 DEF Parse, CallTyped
    <2>2. BeginOf(Top) \in Int
      BY <2>1 DEF BeginOf, NodeTypes
    <2> QED BY <1>5, <2>2 DEF CallTyped
  <1> QED BY <1>2, <1>3, <1>4, <1>5, <1>6, <1>7

LEMMA LastChildIs ==
    ASSUME nodes \in Seq(NodeTypes)
    PROVE  /\ LastChild # 0 => /\ LastChild \in DOMAIN nodes /\ nodes[LastChild].up = Top.node
                               /\ nodes[LastChild] \in NodeTypes
           /\ \A n \in DOMAIN nodes : nodes[n].up = Top.node => LastChild # 0 /\ n <= LastChild
  <1> DEFINE P == {n \in DOMAIN nodes : nodes[n].up = Top.node}
  <1>1. LastChild = IF P = {} THEN 0 ELSE Max(P)
    BY DEF LastChild
  <1>2. DOMAIN nodes = 1..Len(nodes) /\ Len(nodes) \in Nat
    OBVIOUS
  <1>3. P \subseteq 1..Len(nodes) /\ \A n \in P : nodes[n].up = Top.node /\ nodes[n] \in NodeTypes
    BY <1>2
  <1>4. \A n \in DOMAIN nodes : nodes[n].up = Top.node => n \in P
    OBVIOUS
  <1> HIDE DEF P
  <1>5. P # {} => Max(P) \in P /\ \A n \in P : n <= Max(P)
    <2> SUFFICES ASSUME NEW n \in P
                 PROVE  Max(P) \in P /\ \A m \in P : m <= Max(P)
      OBVIOUS
    <2>1. Len(nodes) \in Int /\ P \subseteq Int /\ \A m \in P : m <= Len(nodes)
      BY <1>2, <1>3
    <2> QED BY <2>1, MaxOf
  <1>6. 0 \notin P
    BY <1>3
  <1>7. PICK l : /\ l = LastChild /\ (P = {} => l = 0)
                 /\ P # {} => l \in P /\ \A n \in P : n <= l
    BY <1>1, <1>5
  <1>8. l # 0 => l \in P
    BY <1>7
  <1>9. \A n \in P : l # 0 /\ n <= l
    BY <1>6, <1>7
  <1> QED BY <1>2, <1>3, <1>4, <1>7, <1>8, <1>9

\* One node that begins at the place reached.
LEMMA OneFits ==
    ASSUME Ready, NEW r, Plainly(r, Top.i, Top.stop)
    PROVE  Fits(r)
  <1>1. Top.i \in Nat /\ Top.stop \in Nat /\ Top.consumed \in Nat /\ Top.consumed <= Top.i
    BY TopIs DEF Ready
  <1>2. Trims(r)
    BY DEF Trims, Plainly
  <1>3. r.next \in Int /\ (r.next # 0 => Top.i < r.next)
    BY DEF Plainly, OneNode
  <1>4. CASE r.nodes = <<>> /\ ~ r.within
    BY <1>2, <1>3, <1>4 DEF Fits
  <1>5. CASE ~ (r.nodes = <<>> /\ ~ r.within)
    <2>1. PICK x \in NodeTypes :
             /\ r.nodes = <<x>> /\ x.from = Top.i /\ x.to <= Top.stop
             /\ r.next # 0 /\ x.to <= r.next
             /\ x.type = "NORMAL_TEXT" => x.a <= x.b
             /\ r.within =>
                   x.type # "NORMAL_TEXT" /\ Top.i < x.a /\ x.a <= x.b /\ x.b <= x.to
      BY <1>5 DEF Plainly, OneNode
    <2>2. FitsNode(r, x)
      BY <1>1, <2>1 DEF FitsNode
    <2> QED BY <1>2, <1>3, <2>1, <2>2 DEF Fits
  <1> QED BY <1>4, <1>5

LEMMA LinebreakFits ==
    ASSUME Ready
    PROVE  Fits(CharLinebreak(Top.i, Top.stop, Offset))
  <1> DEFINE p == Top.i
             stop == Top.stop
             next == Past(text, p + 1, stop, {" "})
             last == LastChild
             leaf == [Leaf("LINEBREAK", p, next, p, p) EXCEPT !.trim = TrailingBlanks]
             r == CharLinebreak(p, stop, Offset)
  <1>1. p \in Nat /\ stop \in Nat /\ Top.consumed \in Nat /\ Top.consumed <= p /\ p < stop
    BY TopIs DEF Ready
  <1>2. r = NoSpan \/ (~(Offset < 2) /\ r = leaf)
    <2> HIDE DEF leaf
    <2> QED BY DEF CharLinebreak, leaf
  <1>3. Fits(NoSpan)
    BY OneFits, NoSpanIs DEF Plainly
  <1>4. CASE ~(Offset < 2) /\ r = leaf
    <2>1. Top.consumed < p
      <3>1. ~(Offset < 2)
        BY <1>4
      <3> HIDE DEF r, leaf
      <3> QED BY <1>1, <3>1 DEF Offset
    <2>2. TextBefore(last)
      BY <2>1 DEF Ready, Parse, Copied
    <2>3. /\ last # 0 /\ nodes[last] \in NodeTypes /\ nodes[last].type = "NORMAL_TEXT"
          /\ nodes[last].a <= nodes[last].b
      BY <2>2, LastChildIs DEF TextBefore, Ready, Parse, NodesTyped
    <2> DEFINE a == nodes[last].a
               b == nodes[last].b
               S == {q \in a..b : \A t \in q..b - 1 : text[t] = " "}
    <2>4. TrailingBlanks = b - Min(S)
      BY DEF TrailingBlanks
    <2>5. a \in Int /\ b \in Int /\ a <= b
      BY <2>3 DEF NodeTypes
    <2>6. TrailingBlanks \in Nat /\ TrailingBlanks <= b - a
      <3> HIDE DEF a, b
      <3>1. S \subseteq a..b
        OBVIOUS
      <3>2. b \in S
        <4>1. b \in a..b /\ b..b - 1 = {}
          BY <2>5
        <4> QED BY <4>1
      <3> HIDE DEF S
      <3>3. S \subseteq Int /\ \A x \in S : a <= x
        BY <2>5, <3>1
      <3>4. Min(S) \in a..b
        BY <2>5, <3>1, <3>2, <3>3, MinOf
      <3> QED BY <2>4, <2>5, <3>4
    <2>7. Trims(leaf)
      <3>1. leaf.trim = TrailingBlanks
        BY DEF Leaf, Parsed
      <3> HIDE DEF leaf
      <3> QED BY <2>3, <2>6, <3>1 DEF Trims
    <2>8. leaf.nodes = <<Node("LINEBREAK", p, next, p, p)>> /\ leaf.next = next /\ leaf.within = FALSE
      BY DEF Leaf, Parsed
    <2>9. next \in Int /\ p < next /\ next <= stop
      <3>1. PICK q \in Int : q = p + 1 /\ q <= stop /\ stop \in Int
        BY <1>1
      <3>2. next = Past(text, q, stop, {" "})
        BY <3>1
      <3>3. next \in Int /\ q <= next /\ next <= stop
        <4> HIDE DEF p, stop, next
        <4> QED BY <3>1, <3>2, PastFinds
      <3> HIDE DEF next
      <3> QED BY <1>1, <3>1, <3>3
    <2> HIDE DEF next, leaf
    <2> DEFINE x == Node("LINEBREAK", p, next, p, p)
    <2>10. x \in NodeTypes /\ x.type = "LINEBREAK" /\ x.from = p /\ x.to = next
      BY <1>1, <2>9 DEF Node, NodeTypes, Names
    <2> HIDE DEF x
    <2>11. FitsNode(leaf, x)
      BY <1>1, <2>8, <2>9, <2>10 DEF FitsNode
    <2>12. leaf.nodes = <<x>> /\ leaf.next \in Int /\ p < leaf.next
      BY <2>8, <2>9 DEF x
    <2> QED BY <1>4, <2>7, <2>10, <2>11, <2>12 DEF Fits
  <1> QED BY <1>2, <1>3, <1>4

LEMMA AutolinkFits ==
    ASSUME Ready, NEW address, AddressAt(address, Top.i, Top.stop, Offset)
    PROVE  Fits(CharAutolink(Top.i, Top.stop, address))
  <1> DEFINE p == Top.i
             stop == Top.stop
             last == LastChild
             before == IF last = 0 \/ nodes[last].type # "NORMAL_TEXT" THEN 0
                       ELSE nodes[last].b - nodes[last].a
             from == address.from
             end == address.end
             trim == Min({p - from, before})
             leaf == [Leaf("LINK_AUTO", from, end, from, end) EXCEPT !.trim = trim]
             r == CharAutolink(p, stop, address)
  <1>1. p \in Nat /\ stop \in Nat /\ Top.consumed \in Nat /\ Top.consumed <= p /\ p < stop
    BY TopIs DEF Ready
  <1>2. r = NoSpan \/ (address # NoAddress /\ r = leaf)
    <2> HIDE DEF leaf
    <2> QED BY DEF CharAutolink, leaf
  <1>3. Fits(NoSpan)
    BY OneFits, NoSpanIs DEF Plainly
  <1>4. CASE address # NoAddress /\ r = leaf
    <2>1. /\ from \in Int /\ Top.consumed <= from /\ from <= p
          /\ end \in Int /\ p < end /\ end <= stop
      <3>1. /\ address.from \in Int /\ p - Offset <= address.from /\ address.from <= p
            /\ address.end \in Int /\ p < address.end /\ address.end <= stop
        BY <1>4 DEF AddressAt
      <3> QED BY <1>1, <3>1 DEF Offset
    <2> HIDE DEF from, end
    <2>2. before \in Nat
      <3>1. last # 0 => last \in DOMAIN nodes /\ nodes[last] \in NodeTypes
        BY LastChildIs DEF Ready, Parse
      <3>2. last # 0 => nodes[last].a \in Int /\ nodes[last].b \in Int
        BY <3>1 DEF NodeTypes
      <3>3. last # 0 /\ nodes[last].type = "NORMAL_TEXT" => nodes[last].a <= nodes[last].b
        BY <3>1 DEF Ready, Parse, NodesTyped
      <3> HIDE DEF last
      <3> QED BY <3>2, <3>3
    <2>3. /\ before # 0 => /\ last # 0 /\ nodes[last].type = "NORMAL_TEXT"
                           /\ before = nodes[last].b - nodes[last].a
          /\ last # 0 /\ nodes[last].type = "NORMAL_TEXT" => before = nodes[last].b - nodes[last].a
      OBVIOUS
    <2> HIDE DEF before
    <2>4. trim \in Nat /\ trim <= before
      <3>1. p - from \in Int /\ p - from >= 0 /\ before \in Int
        BY <1>1, <2>1, <2>2
      <3>2. trim \in {p - from, before} /\ trim <= before
        BY <3>1, MinOf2
      <3> HIDE DEF trim
      <3> QED BY <2>2, <3>1, <3>2
    <2>5. from < p => TextBefore(last)
      BY <1>1, <2>1 DEF Ready, Parse, Copied
    <2>6. from < p => trim = Min({p - from, nodes[last].b - nodes[last].a})
      BY <2>3, <2>5 DEF TextBefore
    <2> HIDE DEF trim
    <2>7. /\ leaf.nodes = <<Node("LINK_AUTO", from, end, from, end)>> /\ leaf.next = end
          /\ leaf.within = FALSE /\ leaf.trim = trim
      BY DEF Leaf, Parsed
    <2> HIDE DEF leaf
    <2>8. Trims(leaf)
      <3>1. trim # 0 => before # 0
        BY <2>2, <2>4
      <3> QED BY <2>3, <2>4, <2>7, <3>1 DEF Trims
    <2> DEFINE x == Node("LINK_AUTO", from, end, from, end)
    <2>9. x \in NodeTypes /\ x.type = "LINK_AUTO" /\ x.from = from /\ x.to = end
      BY <2>1 DEF Node, NodeTypes, Names
    <2> HIDE DEF x
    <2>10. from < p => TakesBack(leaf, x)
      <3>1. from < p => Top.consumed < p
        BY <1>1, <2>1
      <3> QED BY <2>6, <2>7, <2>9, <3>1 DEF TakesBack
    <2>11. FitsNode(leaf, x)
      <3>1. Top.i <= x.from \/ TakesBack(leaf, x)
        BY <1>1, <2>1, <2>9, <2>10
      <3> QED BY <1>1, <2>1, <2>7, <2>9, <3>1 DEF FitsNode
    <2>12. leaf.nodes = <<x>> /\ leaf.next \in Int /\ p < leaf.next
      BY <2>1, <2>7 DEF x
    <2> QED BY <1>4, <2>7, <2>8, <2>9, <2>11, <2>12 DEF Fits
  <1> QED BY <1>2, <1>3, <1>4

LEMMA Joined ==
    ASSUME NEW u, NEW x
    PROVE  /\ <<u>> \o <<x>> = <<u, x>> /\ <<u>> \o <<>> = <<u>>
           /\ <<>> \o <<x>> = <<x>> /\ <<>> \o <<>> = <<>>
  <1> DEFINE S == {u, x}
  <1>1. <<u>> \in Seq(S) /\ <<x>> \in Seq(S) /\ <<>> \in Seq(S) /\ x \in S
    OBVIOUS
  <1>2. Append(<<u>>, x) = <<u, x>>
    <2> DEFINE s == Append(<<u>>, x)
               t == <<u, x>>
    <2>1. s \in Seq(S) /\ Len(s) = 2 /\ s[1] = u /\ s[2] = x
      <3>1. Len(<<u>>) = 1 /\ <<u>>[1] = u
        OBVIOUS
      <3> HIDE DEF S
      <3> QED BY <1>1, <3>1, AppendProperties
    <2>2. t \in Seq(S) /\ Len(t) = 2 /\ t[1] = u /\ t[2] = x
      OBVIOUS
    <2> HIDE DEF s, t, S
    <2>3. \A i \in 1..Len(s) : s[i] = t[i]
      <3>1. \A i \in 1..2 : i = 1 \/ i = 2
        OBVIOUS
      <3> QED BY <2>1, <2>2, <3>1
    <2>4. s = t
      BY <2>1, <2>2, <2>3, SeqEqual
    <2> QED BY <2>4 DEF s, t
  <1> HIDE DEF S
  <1>3. <<u>> \o <<x>> = Append(<<u>>, x)
    BY <1>1, AppendIsConcat
  <1>4. <<u>> \o <<>> = <<u>> /\ <<>> \o <<x>> = <<x>> /\ <<>> \o <<>> = <<>>
    BY <1>1, ConcatEmptySeq
  <1> QED BY <1>2, <1>3, <1>4

\* What char_link returns for the bracket at p.
ImageMark(p, offset) ==
    offset > 0 /\ text[p - 1] = "!" /\ ~ IsEscaped(text, p - offset, p - 1)
LinkGives(r, p, stop, image) ==
    /\ r.trim = 0
    /\ \/ r.nodes = <<>> /\ ~ r.within
       \/ image /\ ~ r.within /\ r.nodes = <<Text(p - 1, p)>>
       \/ \E x \in NodeTypes :
             /\ r.next # 0 /\ x.to <= r.next /\ x.to <= stop
             /\ x.type = "NORMAL_TEXT" => x.a <= x.b
             /\ \/ x.from = p /\ r.nodes = <<x>>
                \/ x.from = p - 1 /\ image /\ ~ r.within /\ r.nodes = <<x>>
                \/ x.from = p /\ image /\ ~ r.within /\ r.nodes = <<Text(p - 1, p), x>>
             /\ r.within => x.type # "NORMAL_TEXT" /\ p < x.a /\ x.a <= x.b /\ x.b <= x.to

LEMMA LinkReturns ==
    ASSUME NEW p \in Nat, NEW stop \in Nat, p < stop, NEW offset
    PROVE  /\ CharLink(p, stop, offset).next = LinkNext(p, stop)
           /\ LinkGives(CharLink(p, stop, offset), p, stop, ImageMark(p, offset))
  <1> DEFINE image == ImageMark(p, offset)
             e == LinkText(p, stop)
             end == LinkEnd(p, e, stop)
             next == BehindAttrs(end, stop)
             mark == IF image THEN <<Text(p - 1, p)>> ELSE <<>>
             note == IF NewNote(p, stop)
                     THEN Node("FOOTNOTE_REF", p, e + 1, p, e + 1) ELSE Text(p, e + 1)
             value == IF Key(p, stop) \in defs.metas THEN <<Text(p, e + 1)>> ELSE <<>>
             to == Min({next, stop})
             none == [NoSpan EXCEPT !.nodes = mark]
             noted == Parsed(mark \o <<note>>, FALSE, 0, e + 1)
             valued == Parsed(mark \o value, FALSE, 0, e + 1)
             img == [Leaf("IMAGE", p - 1, to, p + 1, e) EXCEPT !.next = next]
             lnk == [Span("LINK", p, to, p + 1, e) EXCEPT !.within = e > p + 1, !.next = next]
             r == CharLink(p, stop, offset)
             found == e < stop /\ text[e] = "]"
             special == IsNote(p, stop) \/ IsMeta(p, stop)
  <1>1. r = IF ~ found THEN NoSpan
            ELSE IF special
            THEN IF e - p < 3 THEN none
                 ELSE Parsed(mark \o (IF IsNote(p, stop) THEN <<note>> ELSE value), FALSE, 0, e + 1)
            ELSE IF end = 0 THEN NoSpan
            ELSE IF image THEN img ELSE lnk
    BY DEF CharLink, ImageMark
  <1>2. LinkNext(p, stop) =
            IF ~ found THEN 0
            ELSE IF special THEN IF e - p < 3 THEN 0 ELSE e + 1
            ELSE IF end = 0 THEN 0 ELSE next
    BY DEF LinkNext
  <1>3. e \in Int /\ e \in Nat /\ p < e /\ e <= stop
    BY LinkTextIs
  <1> HIDE DEF e
  <1>4. e < stop /\ end # 0 => /\ end \in Nat /\ e < end /\ end <= stop
                               /\ next \in Int /\ end <= next
    <2> SUFFICES ASSUME e < stop, end # 0
                 PROVE  /\ end \in Nat /\ e < end /\ end <= stop
                        /\ next \in Int /\ end <= next
      OBVIOUS
    <2>1. end \in Int /\ e < end /\ end <= stop
      BY <1>3, LinkEnds
    <2> HIDE DEF end
    <2>2. end \in Nat
      BY <1>3, <2>1
    <2> QED BY <2>1, <2>2, BehindIs
  <1> HIDE DEF end, next
  <1>5. \/ r = NoSpan /\ LinkNext(p, stop) = 0
        \/ r = none /\ LinkNext(p, stop) = 0
        \/ found /\ LinkNext(p, stop) = e + 1 /\ (r = noted \/ r = valued)
        \/ found /\ end # 0 /\ LinkNext(p, stop) = next /\ image /\ r = img
        \/ found /\ end # 0 /\ LinkNext(p, stop) = next /\ r = lnk
    <2> HIDE DEF r, found, special, none, image, img, lnk, mark, note, value
    <2> QED BY <1>1, <1>2
  <1>6. found => e < stop
    OBVIOUS
  <1> HIDE DEF found, special
  <1>7. \A q \in Int : /\ Text(p, q) \in NodeTypes /\ Text(p, q).from = p /\ Text(p, q).to = q
                       /\ Text(p, q).a = p /\ Text(p, q).b = q
    BY DEF Text, Node, NodeTypes, Names
  <1>8. CASE r = NoSpan /\ LinkNext(p, stop) = 0
    <2>1. NoSpan.nodes = <<>> /\ NoSpan.within = FALSE /\ NoSpan.trim = 0 /\ NoSpan.next = 0
      BY DEF NoSpan, Parsed
    <2> QED BY <1>8, <2>1 DEF LinkGives
  <1>9. CASE r = none /\ LinkNext(p, stop) = 0
    <2>1. none.nodes = mark /\ none.within = FALSE /\ none.trim = 0 /\ none.next = 0
      BY DEF NoSpan, Parsed
    <2> HIDE DEF none
    <2> QED BY <1>9, <2>1 DEF LinkGives
  <1>10. CASE found /\ LinkNext(p, stop) = e + 1 /\ (r = noted \/ r = valued)
    <2>1. noted.nodes = mark \o <<note>> /\ noted.within = FALSE /\ noted.trim = 0 /\ noted.next = e + 1
      BY DEF Parsed
    <2>2. valued.nodes = mark \o value /\ valued.within = FALSE /\ valued.trim = 0 /\ valued.next = e + 1
      BY DEF Parsed
    <2>3. note \in NodeTypes /\ note.from = p /\ note.to = e + 1 /\ (note.type = "NORMAL_TEXT" => note.a <= note.b)
      <3>1. e + 1 \in Int /\ p <= e + 1
        BY <1>3
      <3>2. LET x == Node("FOOTNOTE_REF", p, e + 1, p, e + 1)
            IN x \in NodeTypes /\ x.from = p /\ x.to = e + 1 /\ x.type = "FOOTNOTE_REF"
        BY <3>1 DEF Node, NodeTypes, Names
      <3> QED BY <1>7, <3>1, <3>2
    <2> DEFINE t == Text(p, e + 1)
    <2>4. t \in NodeTypes /\ t.from = p /\ t.to = e + 1 /\ t.a <= t.b
      <3>1. e + 1 \in Int /\ p <= e + 1
        BY <1>3
      <3> QED BY <1>7, <3>1
    <2>5. value = <<>> \/ value = <<t>>
      OBVIOUS
    <2>6. \A x : /\ (~ image => mark \o <<x>> = <<x>>) /\ (image => mark \o <<x>> = <<Text(p - 1, p), x>>)
      <3>1. (image => mark = <<Text(p - 1, p)>>) /\ (~ image => mark = <<>>)
        OBVIOUS
      <3> HIDE DEF mark
      <3> QED BY <3>1, Joined
    <2>61. mark \o <<>> = mark
      BY Joined
    <2> HIDE DEF noted, valued, note, value, t
    <2>7. r.next = e + 1 /\ r.within = FALSE /\ r.trim = 0
          /\ (r.nodes = mark \/ \E x \in {note, t} : r.nodes = mark \o <<x>>)
      BY <1>10, <2>1, <2>2, <2>5, <2>61
    <2>8. CASE r.nodes = mark
      BY <1>10, <2>7, <2>8 DEF LinkGives
    <2>9. CASE \E x \in {note, t} : r.nodes = mark \o <<x>>
      <3>1. PICK x \in {note, t} : r.nodes = mark \o <<x>>
        BY <2>9
      <3>2. /\ x \in NodeTypes /\ x.from = p /\ x.to = e + 1 /\ e + 1 # 0 /\ x.to <= e + 1 /\ x.to <= stop
            /\ x.type = "NORMAL_TEXT" => x.a <= x.b
        BY <1>3, <1>6, <1>10, <2>3, <2>4
      <3>3. r.nodes = <<x>> \/ (image /\ r.nodes = <<Text(p - 1, p), x>>)
        BY <2>6, <3>1
      <3> HIDE DEF mark, r, image
      <3>4. LinkGives(r, p, stop, image)
        BY <2>7, <3>2, <3>3 DEF LinkGives
      <3> QED BY <1>10, <2>7, <3>4 DEF r, image
    <2> QED BY <2>7, <2>8, <2>9
  <1>11. found /\ end # 0 => /\ to \in Int /\ e <= to /\ to <= next /\ to <= stop
                             /\ next # 0 /\ next \in Int
    <2> SUFFICES ASSUME found, end # 0
                 PROVE  /\ to \in Int /\ e <= to /\ to <= next /\ to <= stop
                        /\ next # 0 /\ next \in Int
      OBVIOUS
    <2>1. /\ next \in Int /\ stop \in Int /\ e <= next /\ e <= stop /\ next # 0
      BY <1>3, <1>4, <1>6
    <2>2. to \in {next, stop} /\ to <= next /\ to <= stop
      BY <2>1, MinOf2
    <2> HIDE DEF to
    <2> QED BY <2>1, <2>2
  <1> HIDE DEF to
  <1>12. CASE found /\ end # 0 /\ LinkNext(p, stop) = next /\ image /\ r = img
    <2> DEFINE x == Node("IMAGE", p - 1, to, p + 1, e)
    <2>1. img.nodes = <<x>> /\ img.within = FALSE /\ img.trim = 0 /\ img.next = next
      BY DEF Leaf, Parsed
    <2>2. x \in NodeTypes /\ x.from = p - 1 /\ x.to = to /\ x.type = "IMAGE"
      BY <1>3, <1>11, <1>12 DEF Node, NodeTypes, Names
    <2> HIDE DEF x, img, r
    <2>3. LinkGives(r, p, stop, image)
      BY <1>11, <1>12, <2>1, <2>2 DEF LinkGives
    <2> QED BY <1>12, <2>1, <2>3 DEF r
  <1>13. CASE found /\ end # 0 /\ LinkNext(p, stop) = next /\ r = lnk
    <2> DEFINE x == Node("LINK", p, to, p + 1, e)
    <2>1. lnk.nodes = <<x>> /\ lnk.within = (e > p + 1) /\ lnk.trim = 0 /\ lnk.next = next
      BY DEF Span, Parsed
    <2>2. /\ x \in NodeTypes /\ x.from = p /\ x.to = to /\ x.type = "LINK"
          /\ x.a = p + 1 /\ x.b = e
      BY <1>3, <1>11, <1>13 DEF Node, NodeTypes, Names
    <2>3. p < p + 1 /\ p + 1 <= e /\ e <= to
      BY <1>3, <1>11, <1>13
    <2> HIDE DEF x, lnk, r
    <2>4. LinkGives(r, p, stop, image)
      BY <1>11, <1>13, <2>1, <2>2, <2>3 DEF LinkGives
    <2> QED BY <1>13, <2>1, <2>4 DEF r
  <1> QED BY <1>5, <1>8, <1>9, <1>10, <1>12, <1>13

LEMMA TextTyped ==
    ASSUME NEW p \in Int
    PROVE  /\ Text(p, p + 1) \in NodeTypes /\ Text(p, p + 1).type = "NORMAL_TEXT"
           /\ Text(p, p + 1).from = p /\ Text(p, p + 1).to = p + 1
           /\ Text(p, p + 1).a = p /\ Text(p, p + 1).b = p + 1
  BY DEF Text, Node, NodeTypes, Names

LEMMA LinkFits ==
    ASSUME Ready, text[Top.i] = "["
    PROVE  Fits(CharLink(Top.i, Top.stop, Offset))
  <1> DEFINE p == Top.i
             stop == Top.stop
             image == ImageMark(p, Offset)
             r == CharLink(p, stop, Offset)
  <1>1. p \in Nat /\ stop \in Nat /\ Top.consumed \in Nat /\ Top.consumed <= p /\ p < stop
        /\ Top.end = p
    BY TopIs DEF Ready
  <1>2. r.next = LinkNext(p, stop) /\ LinkGives(r, p, stop, image)
    BY <1>1, LinkReturns
  <1>3. r.next \in Int /\ (r.next # 0 => p < r.next)
    <2>1. LinkNext(p, stop) = 0 \/ (LinkNext(p, stop) \in Int /\ p + 1 < LinkNext(p, stop))
      BY <1>1, LinkNextIs
    <2> QED BY <1>1, <1>2, <2>1
  <1>4. image => r.next = 0 /\ Top.consumed < p /\ text[p - 1] = "!"
    <2>1. image => Offset > 0 /\ text[p - 1] = "!"
      BY DEF ImageMark
    <2>2. image => Top.consumed < p
      BY <1>1, <2>1 DEF Offset
    <2> QED BY <1>1, <1>2, <2>1, <2>2 DEF Ready, Parse, Tried, TriedAt
  <1>5. Trims(r)
    BY <1>2 DEF LinkGives, Trims
  <1> HIDE DEF r, image
  <1> SUFFICES Fits(r)
    BY DEF r
  <1>6. CASE r.nodes = <<>> /\ ~ r.within
    BY <1>3, <1>5, <1>6 DEF Fits
  <1>7. CASE image /\ ~ r.within /\ r.nodes = <<Text(p - 1, p)>>
    <2>1. PICK k \in Int : k = p - 1 /\ k + 1 = p /\ Top.consumed <= k
      BY <1>1, <1>4, <1>7
    <2> DEFINE x == Text(k, k + 1)
    <2>2. x \in NodeTypes /\ x.from = k /\ x.to = p /\ x.a <= x.b
      BY <2>1, TextTyped
    <2>3. IsMark(x, p - 1)
      BY <1>4, <1>7, <2>1 DEF IsMark
    <2>4. r.nodes = <<x>>
      BY <1>7, <2>1
    <2> HIDE DEF x
    <2>5. FitsNode(r, x)
      BY <1>1, <1>4, <1>7, <2>1, <2>2, <2>3 DEF FitsNode
    <2> QED BY <1>3, <1>5, <2>2, <2>4, <2>5 DEF Fits
  <1>8. ASSUME NEW x \in NodeTypes,
               r.next # 0, x.to <= r.next, x.to <= stop,
               x.type = "NORMAL_TEXT" => x.a <= x.b,
               r.within => x.type # "NORMAL_TEXT" /\ p < x.a /\ x.a <= x.b /\ x.b <= x.to,
               x.from = p, r.nodes = <<x>>
        PROVE  Fits(r)
    <2>1. FitsNode(r, x)
      BY <1>1, <1>8 DEF FitsNode
    <2> QED BY <1>3, <1>5, <1>8, <2>1 DEF Fits
  <1>9. CASE ~(r.nodes = <<>> /\ ~ r.within) /\ ~(image /\ ~ r.within /\ r.nodes = <<Text(p - 1, p)>>)
    <2>1. PICK x \in NodeTypes :
             /\ r.next # 0 /\ x.to <= r.next /\ x.to <= stop
             /\ x.type = "NORMAL_TEXT" => x.a <= x.b
             /\ (x.from = p /\ r.nodes = <<x>>) \/ image
             /\ r.within => x.type # "NORMAL_TEXT" /\ p < x.a /\ x.a <= x.b /\ x.b <= x.to
      BY <1>2, <1>9 DEF LinkGives
    <2>2. x.from = p /\ r.nodes = <<x>>
      BY <1>4, <2>1
    <2> QED BY <1>8, <2>1, <2>2
  <1> QED BY <1>6, <1>7, <1>9

LEMMA ImageFits ==
    ASSUME Ready, text[Top.i] = "!", Top.i + 1 < Top.stop
    PROVE  Fits(CharLink(Top.i + 1, Top.stop, Offset + 1))
  <1> DEFINE i == Top.i
             p == i + 1
             stop == Top.stop
             image == ImageMark(p, Offset + 1)
             r == CharLink(p, stop, Offset + 1)
             t == Text(i, i + 1)
  <1>1. /\ i \in Nat /\ p \in Nat /\ p \in Int /\ stop \in Nat /\ Top.consumed \in Nat
        /\ Top.consumed <= i /\ p < stop /\ i < p
    BY TopIs DEF Ready
  <1>2. r.next = LinkNext(p, stop) /\ LinkGives(r, p, stop, image)
    BY <1>1, LinkReturns
  <1>3. r.next \in Int /\ (r.next # 0 => p < r.next)
    <2>1. LinkNext(p, stop) = 0 \/ (LinkNext(p, stop) \in Int /\ p + 1 < LinkNext(p, stop))
      BY <1>1, LinkNextIs
    <2> HIDE DEF p
    <2> QED BY <1>1, <1>2, <2>1
  <1>4. Text(p - 1, p) = t /\ p - 1 = i
    BY <1>1
  <1>5. t \in NodeTypes /\ t.from = i /\ t.to = p /\ t.a <= t.b
    BY <1>1, TextTyped
  <1>6. Trims(r)
    BY <1>2 DEF LinkGives, Trims
  <1>61. IsMark(t, i)
    BY DEF IsMark
  <1> HIDE DEF r, image, p, t
  <1> SUFFICES Fits(r)
    BY DEF r, p
  <1>7. CASE r.nodes = <<>> /\ ~ r.within
    BY <1>1, <1>3, <1>6, <1>7 DEF Fits
  <1>8. CASE image /\ ~ r.within /\ r.nodes = <<t>>
    <2>1. FitsNode(r, t)
      BY <1>1, <1>3, <1>5, <1>61, <1>8 DEF FitsNode
    <2> QED BY <1>1, <1>3, <1>5, <1>6, <1>8, <2>1 DEF Fits
  <1>9. CASE ~(r.nodes = <<>> /\ ~ r.within) /\ ~(image /\ ~ r.within /\ r.nodes = <<t>>)
    <2>1. PICK x \in NodeTypes :
             /\ r.next # 0 /\ x.to <= r.next /\ x.to <= stop
             /\ x.type = "NORMAL_TEXT" => x.a <= x.b
             /\ \/ x.from = p /\ r.nodes = <<x>>
                \/ x.from = i /\ image /\ ~ r.within /\ r.nodes = <<x>>
                \/ x.from = p /\ image /\ ~ r.within /\ r.nodes = <<t, x>>
             /\ r.within => x.type # "NORMAL_TEXT" /\ p < x.a /\ x.a <= x.b /\ x.b <= x.to
      BY <1>2, <1>4, <1>9 DEF LinkGives
    <2>2. r.within => i < x.a
      BY <1>1, <2>1 DEF NodeTypes
    <2>3. CASE r.nodes = <<x>> /\ (x.from = p \/ x.from = i)
      <3>1. FitsNode(r, x)
        BY <1>1, <2>1, <2>2, <2>3 DEF FitsNode
      <3> QED BY <1>1, <1>3, <1>6, <2>3, <3>1 DEF Fits
    <2>4. CASE x.from = p /\ ~ r.within /\ r.nodes = <<t, x>>
      <3>1. FitsBehind(r, x)
        BY <1>1, <2>1, <2>4 DEF FitsBehind, p
      <3> QED BY <1>1, <1>3, <1>6, <2>4, <3>1 DEF Fits, t
    <2> QED BY <2>1, <2>3, <2>4
  <1> QED BY <1>7, <1>8, <1>9

-----------------------------------------------------------------------------
(* What is pushed *)

\* A node stays as it is, but for the end of the last text.
Kept(n) ==
    /\ nodes'[n].up = nodes[n].up /\ nodes'[n].type = nodes[n].type
    /\ nodes'[n].from = nodes[n].from /\ nodes'[n].a = nodes[n].a
    /\ nodes'[n].to <= nodes[n].to
    /\ \/ nodes'[n] = nodes[n]
       \/ n = LastChild /\ nodes[n].type = "NORMAL_TEXT" /\ nodes[n].a <= nodes'[n].b
New(n) ==
    /\ nodes'[n].up = Top.node
    /\ Top.consumed <= nodes'[n].from /\ nodes'[n].to <= Top.stop
    /\ nodes'[n].type = "NORMAL_TEXT" => nodes'[n].a <= nodes'[n].b
    /\ \A m \in 1..n - 1 : nodes'[m].up = Top.node => InOrder(m, n)'
Pushed ==
    /\ nodes' \in Seq(NodeTypes) /\ Len(nodes) <= Len(nodes')
    /\ \A n \in 1..Len(nodes) : Kept(n)
    /\ \A n \in Len(nodes) + 1..Len(nodes') : New(n)

\* The nodes that are open in the last call end before the place it reached.
LEMMA SiblingsEnd ==
    ASSUME Ready, NEW m \in DOMAIN nodes, nodes[m].up = Top.node
    PROVE  nodes[m].to <= Top.i
  <1>1. Len(frames) \in DOMAIN frames /\ Top = frames[Len(frames)] /\ Top.i \in Nat
    BY TopIs DEF Ready
  <1>2. Reach(Len(frames)) = Top.i
    BY <1>1 DEF Reach
  <1>3. Top.end # Top.i + 1
    BY <1>1 DEF Ready
  <1> HIDE DEF Top
  <1>4. \/ nodes[m].to <= Reach(Len(frames))
        \/ Top.end = Top.i + 1
    BY <1>1 DEF Ready, Parse, Passed
  <1> QED BY <1>2, <1>3, <1>4

\* Of them those before the last text are behind one another, but for a mark.
LEMMA SiblingsBefore ==
    ASSUME Ready, TextBefore(LastChild), NEW m \in DOMAIN nodes, nodes[m].up = Top.node
    PROVE  \/ m = LastChild
           \/ /\ m < LastChild
              /\ \/ nodes[m].to <= nodes[LastChild].from
                 \/ /\ MarkAgain(m, LastChild)
                    /\ nodes[m].to <= nodes[LastChild].from + 1
  <1> DEFINE l == LastChild
  <1>1. /\ l \in DOMAIN nodes /\ nodes[l].up = Top.node /\ m <= l
        /\ nodes[l].type = "NORMAL_TEXT"
    BY LastChildIs DEF Ready, Parse, TextBefore
  <1> HIDE DEF l
  <1>2. DOMAIN nodes = 1..Len(nodes) /\ Len(nodes) \in Nat
    BY DEF Ready, Parse
  <1>3. m # l => m < l /\ m \in 1..l - 1
    BY <1>1, <1>2
  <1>4. m # l => InOrder(m, l)
    BY <1>1, <1>3 DEF Ready, Parse, Ordered
  <1>5. ~ Emptied(m, l)
    BY <1>1 DEF Emptied
  <1> QED BY <1>3, <1>4, <1>5 DEF InOrder, l

\* The nodes when a function has taken characters back.
Trimmed(r) ==
    IF r.trim = 0 THEN nodes
    ELSE [nodes EXCEPT ![LastChild].b = @ - r.trim, ![LastChild].to = @ - r.trim]
TrimmedTo(n, y) ==
    LET x == nodes[n]
    IN /\ y.up = x.up /\ y.type = x.type /\ y.from = x.from /\ y.a = x.a /\ y.to <= x.to
       /\ y = x \/ (n = LastChild /\ x.type = "NORMAL_TEXT" /\ x.a <= y.b)

Shortened(x, b, to) == [[x EXCEPT !.b = b] EXCEPT !.to = to]

LEMMA NodeExcept ==
    ASSUME NEW x \in NodeTypes, NEW b \in Int, NEW to \in Int
    PROVE  /\ Shortened(x, b, to) \in NodeTypes
           /\ Shortened(x, b, to).b = b /\ Shortened(x, b, to).to = to
           /\ Shortened(x, b, to).up = x.up /\ Shortened(x, b, to).type = x.type
           /\ Shortened(x, b, to).from = x.from /\ Shortened(x, b, to).a = x.a
  BY DEF NodeTypes, Shortened

LEMMA TrimmedIs ==
    ASSUME Ready, NEW r, Trims(r)
    PROVE  /\ Trimmed(r) \in Seq(NodeTypes) /\ Len(Trimmed(r)) = Len(nodes)
           /\ \A n \in 1..Len(nodes) : TrimmedTo(n, Trimmed(r)[n])
           /\ r.trim # 0 => /\ Trimmed(r)[LastChild].b = nodes[LastChild].b - r.trim
                            /\ Trimmed(r)[LastChild].to = nodes[LastChild].to - r.trim
  <1> DEFINE l == LastChild
             x == nodes[l]
             t == r.trim
             y == Shortened(x, x.b - t, x.to - t)
             T == Trimmed(r)
  <1>1. nodes \in Seq(NodeTypes) /\ Len(nodes) \in Nat /\ DOMAIN nodes = 1..Len(nodes)
    BY DEF Ready, Parse
  <1>2. \A n \in 1..Len(nodes) : nodes[n] \in NodeTypes /\ nodes[n].to \in Int
    <2>1. \A n \in 1..Len(nodes) : nodes[n] \in NodeTypes
      BY <1>1
    <2>2. \A z \in NodeTypes : z.to \in Int
      BY DEF NodeTypes
    <2> QED BY <2>1, <2>2
  <1>3. CASE t = 0
    <2>1. T = nodes
      BY <1>3 DEF Trimmed
    <2> QED BY <1>1, <1>2, <1>3, <2>1 DEF TrimmedTo
  <1>4. CASE t # 0
    <2>1. /\ t \in Nat /\ l # 0 /\ l \in DOMAIN nodes /\ x \in NodeTypes
          /\ x.type = "NORMAL_TEXT" /\ t <= x.b - x.a
      BY <1>1, <1>4, LastChildIs DEF Trims
    <2>2. T = [nodes EXCEPT ![l] = y]
      BY <1>4, <2>1 DEF Trimmed, NodeTypes, Shortened
    <2>3. /\ y \in NodeTypes /\ y.b = x.b - t /\ y.to = x.to - t
          /\ y.up = x.up /\ y.type = x.type /\ y.from = x.from /\ y.a = x.a
      <3>1. x.b - t \in Int /\ x.to - t \in Int
        BY <2>1 DEF NodeTypes
      <3> QED BY <2>1, <3>1, NodeExcept
    <2>4. y.to <= x.to /\ x.a <= y.b
      <3>1. x.b \in Int /\ x.a \in Int /\ x.to \in Int
        BY <2>1 DEF NodeTypes
      <3> HIDE DEF t, x, y
      <3> QED BY <2>1, <2>3, <3>1
    <2> HIDE DEF y, t, T, l
    <2>5. /\ T \in Seq(NodeTypes) /\ Len(T) = Len(nodes)
          /\ \A n \in 1..Len(nodes) : T[n] = IF n = l THEN y ELSE nodes[n]
      BY <1>1, <2>1, <2>2, <2>3, ExceptSeq
    <2>6. \A n \in 1..Len(nodes) : TrimmedTo(n, T[n])
      <3> SUFFICES ASSUME NEW n \in 1..Len(nodes)
                   PROVE  TrimmedTo(n, T[n])
        OBVIOUS
      <3>1. CASE n = l
        BY <2>1, <2>3, <2>4, <2>5, <3>1 DEF TrimmedTo, l
      <3>2. CASE n # l
        BY <1>2, <2>5, <3>2 DEF TrimmedTo
      <3> QED BY <3>1, <3>2
    <2>7. T[l] = y
      BY <1>1, <2>1, <2>5
    <2> QED BY <2>3, <2>5, <2>6, <2>7 DEF T, l, t
  <1> QED BY <1>3, <1>4

\* r's nodes one by one.
LEMMA FitsNodes ==
    ASSUME Ready, NEW r, Fits(r)
    PROVE  /\ r.nodes \in Seq(NodeTypes) /\ Len(r.nodes) \in 0..2
           /\ \A k \in 1..Len(r.nodes) :
                 /\ Top.consumed <= r.nodes[k].from /\ r.nodes[k].to <= Top.stop
                 /\ r.nodes[k].type = "NORMAL_TEXT" => r.nodes[k].a <= r.nodes[k].b
                 /\ r.next # 0 => r.nodes[k].to <= r.next
                 /\ r.next = 0 => IsMark(r.nodes[k], Top.i - 1) \/ IsMark(r.nodes[k], Top.i)
                 /\ \/ Top.i <= r.nodes[k].from
                    \/ k = 1 /\ (TakesBack(r, r.nodes[k]) \/ IsMark(r.nodes[k], Top.i - 1))
           /\ Len(r.nodes) = 2 => r.nodes[1].to <= r.nodes[2].from
           /\ r.within => /\ r.next # 0 /\ Len(r.nodes) = 1 /\ r.nodes[1].type # "NORMAL_TEXT"
                          /\ Top.i < r.nodes[1].a /\ r.nodes[1].a <= r.nodes[1].b
                          /\ r.nodes[1].b <= r.nodes[1].to
  <1>1. Top.i \in Nat /\ Top.stop \in Nat /\ Top.consumed \in Nat /\ Top.consumed <= Top.i
        /\ Top.i < Top.stop /\ r.next \in Int /\ (r.next # 0 => Top.i < r.next)
    BY TopIs DEF Ready, Fits
  <1>2. CASE r.nodes = <<>> /\ ~ r.within
    BY <1>2
  <1>3. ASSUME NEW x \in NodeTypes, r.nodes = <<x>>, FitsNode(r, x)
        PROVE  /\ r.nodes \in Seq(NodeTypes) /\ Len(r.nodes) = 1 /\ r.nodes[1] = x
               /\ \A k \in 1..Len(r.nodes) : k = 1
    BY <1>3
  <1>4. CASE \E x \in NodeTypes : r.nodes = <<x>> /\ FitsNode(r, x)
    <2>1. PICK x \in NodeTypes : r.nodes = <<x>> /\ FitsNode(r, x)
      BY <1>4
    <2>2. /\ r.nodes \in Seq(NodeTypes) /\ Len(r.nodes) = 1 /\ r.nodes[1] = x
          /\ \A k \in 1..Len(r.nodes) : k = 1
      BY <1>3, <2>1
    <2> QED BY <2>1, <2>2 DEF FitsNode
  <1>5. CASE \E x \in NodeTypes : r.nodes = <<Text(Top.i, Top.i + 1), x>> /\ FitsBehind(r, x)
    <2>1. PICK x \in NodeTypes : r.nodes = <<Text(Top.i, Top.i + 1), x>> /\ FitsBehind(r, x)
      BY <1>5
    <2> DEFINE i == Top.i
               t == Text(i, i + 1)
    <2>2. t \in NodeTypes /\ t.from = i /\ t.to = i + 1 /\ t.a = i /\ t.b = i + 1
      BY <1>1, TextTyped
    <2>3. r.nodes = <<t, x>>
      BY <2>1
    <2> HIDE DEF t
    <2>4. /\ r.nodes \in Seq(NodeTypes) /\ Len(r.nodes) = 2 /\ r.nodes[1] = t /\ r.nodes[2] = x
          /\ \A k \in 1..Len(r.nodes) : k = 1 \/ k = 2
      BY <2>2, <2>3
    <2>5. /\ r.next # 0 /\ ~ r.within /\ i + 1 < Top.stop /\ x.from = i + 1
          /\ x.to <= r.next /\ x.to <= Top.stop
          /\ x.type = "NORMAL_TEXT" => x.a <= x.b
      BY <2>1 DEF FitsBehind
    <2>6. i + 1 <= r.next /\ i + 1 <= Top.stop /\ i <= i + 1 /\ Top.consumed <= i + 1
      BY <1>1, <2>5
    <2> QED BY <1>1, <2>2, <2>4, <2>5, <2>6
  <1> QED BY <1>2, <1>4, <1>5 DEF Fits

\* What Handle makes of the nodes.
Results(r) ==
    /\ Len(nodes') = Len(nodes) + Len(r.nodes)
    /\ \A n \in 1..Len(nodes) : nodes'[n] = Trimmed(r)[n]
    /\ \A k \in 1..Len(r.nodes) : nodes'[Len(nodes) + k] = InTop(r.nodes[k])

LEMMA InTopIs ==
    ASSUME NEW x \in NodeTypes, Top.node \in Nat
    PROVE  /\ InTop(x) \in NodeTypes /\ InTop(x).up = Top.node /\ InTop(x).type = x.type
           /\ InTop(x).from = x.from /\ InTop(x).to = x.to
           /\ InTop(x).a = x.a /\ InTop(x).b = x.b
  BY DEF InTop, NodeTypes

LEMMA HandleResults ==
    ASSUME Ready, NEW r, Fits(r), Handle(r)
    PROVE  nodes' \in Seq(NodeTypes) /\ Results(r)
  <1> DEFINE T == Trimmed(r)
             P == [k \in DOMAIN r.nodes |-> InTop(r.nodes[k])]
  <1>1. nodes' = T \o P
    BY DEF Handle, Trimmed
  <1>2. T \in Seq(NodeTypes) /\ Len(T) = Len(nodes) /\ Len(nodes) \in Nat
    BY TrimmedIs DEF Fits, Ready, Parse
  <1>3. r.nodes \in Seq(NodeTypes) /\ Len(r.nodes) \in Nat /\ DOMAIN r.nodes = 1..Len(r.nodes)
    BY FitsNodes
  <1>4. \A k \in 1..Len(r.nodes) : r.nodes[k] \in NodeTypes /\ InTop(r.nodes[k]) \in NodeTypes
    BY <1>3, InTopIs, TopIs DEF Ready
  <1>5. /\ P \in Seq(NodeTypes) /\ Len(P) = Len(r.nodes)
        /\ \A k \in 1..Len(r.nodes) : P[k] = InTop(r.nodes[k])
    <2>1. P = [k \in 1..Len(r.nodes) |-> InTop(r.nodes[k])]
      BY <1>3
    <2>2. P \in [1..Len(r.nodes) -> NodeTypes]
      BY <1>4, <2>1
    <2>3. \A k \in 1..Len(r.nodes) : P[k] = InTop(r.nodes[k])
      BY <2>1
    <2> HIDE DEF P
    <2> QED BY <1>3, <2>2, <2>3, IsASeq
  <1> HIDE DEF T, P
  <1>6. /\ nodes' \in Seq(NodeTypes) /\ Len(nodes') = Len(nodes) + Len(r.nodes)
        /\ \A n \in 1..Len(T) + Len(P) : nodes'[n] = IF n <= Len(T) THEN T[n] ELSE P[n - Len(T)]
    <2>1. T \in Seq(NodeTypes) /\ P \in Seq(NodeTypes)
      BY <1>2, <1>5
    <2>2. /\ T \o P \in Seq(NodeTypes) /\ Len(T \o P) = Len(T) + Len(P)
          /\ \A n \in 1..Len(T) + Len(P) : (T \o P)[n] = IF n <= Len(T) THEN T[n] ELSE P[n - Len(T)]
      BY ONLY <2>1, ConcatProperties
    <2> QED BY <1>1, <1>2, <1>5, <2>2
  <1>7. \A n \in 1..Len(nodes) : nodes'[n] = T[n]
    <2> SUFFICES ASSUME NEW n \in 1..Len(nodes)
                 PROVE  nodes'[n] = T[n]
      OBVIOUS
    <2>1. n \in 1..Len(T) + Len(P) /\ n <= Len(T)
      BY <1>2, <1>3, <1>5
    <2> QED BY <1>6, <2>1
  <1>8. \A k \in 1..Len(r.nodes) : nodes'[Len(nodes) + k] = InTop(r.nodes[k])
    <2> SUFFICES ASSUME NEW k \in 1..Len(r.nodes)
                 PROVE  nodes'[Len(nodes) + k] = InTop(r.nodes[k])
      OBVIOUS
    <2>1. Len(nodes) + k \in 1..Len(T) + Len(P) /\ ~(Len(nodes) + k <= Len(T))
          /\ (Len(nodes) + k) - Len(T) = k
      BY <1>2, <1>3, <1>5
    <2> QED BY <1>5, <1>6, <2>1
  <1> QED BY <1>6, <1>7, <1>8 DEF Results, T

\* A node that r pushes is behind the others.
LEMMA HandleInOrder ==
    ASSUME Ready, NEW r, Fits(r), nodes' \in Seq(NodeTypes), Results(r), UNCHANGED text,
           NEW k \in 1..Len(r.nodes), NEW m \in 1..Len(nodes), nodes[m].up = Top.node,
           NEW n, n = Len(nodes) + k
    PROVE  InOrder(m, n)'
  <1> DEFINE l == LastChild
             N == Len(nodes)
             x == r.nodes[k]
             T == Trimmed(r)
             i == Top.i
  <1>1. N \in Nat /\ DOMAIN nodes = 1..N /\ \A j \in 1..N : nodes[j] \in NodeTypes
    BY DEF Ready, Parse
  <1>2. /\ i \in Nat /\ Top.node \in Nat /\ Top.stop \in Nat /\ Top.consumed \in Nat
    BY TopIs DEF Ready
  <1>3. /\ k \in Nat /\ 1 <= k /\ k <= 2 /\ x \in NodeTypes /\ Top.consumed <= x.from
        /\ i <= x.from \/ (k = 1 /\ (TakesBack(r, x) \/ IsMark(x, i - 1)))
    <2>1. k \in Nat /\ 1 <= k /\ k <= 2
      <3>1. PICK L \in 0..2 : L = Len(r.nodes)
        BY FitsNodes
      <3>2. k \in 1..L
        BY <3>1
      <3> QED BY ONLY <3>2, L \in 0..2
    <2> QED BY <2>1, FitsNodes
  <1>4. nodes'[n] = InTop(x)
    BY DEF Results
  <1>5. nodes'[n].up = Top.node /\ nodes'[n].type = x.type /\ nodes'[n].from = x.from
    BY <1>2, <1>3, <1>4, InTopIs
  <1>6. \A j \in 1..N : nodes'[j] = T[j] /\ TrimmedTo(j, nodes'[j])
    BY TrimmedIs DEF Results, Fits
  <1>7. nodes[m].to <= i /\ nodes[m].to \in Int /\ nodes'[m].to \in Int /\ nodes'[m].to <= nodes[m].to
    <2>1. nodes'[m] \in NodeTypes
      BY <1>1 DEF Results
    <2>2. nodes[m].to \in Int /\ nodes'[m].to \in Int
      BY <1>1, <2>1 DEF NodeTypes
    <2> QED BY <1>1, <1>6, <2>2, SiblingsEnd DEF TrimmedTo
  <1>8. x.from \in Int
    BY <1>3 DEF NodeTypes
  <1>9. text' = text
    OBVIOUS
  <1> HIDE DEF x, T, i, N
  <1>10. CASE i <= x.from
    <2>1. nodes'[m].to <= nodes'[n].from
      BY <1>2, <1>5, <1>7, <1>8, <1>10
    <2> QED BY <2>1 DEF InOrder
  <1>11. l \in 1..N /\ nodes[l] \in NodeTypes /\ nodes[l].up = Top.node
         /\ \A j \in 1..N : nodes[j].up = Top.node => j <= l
    BY <1>1, LastChildIs DEF Ready, Parse, N
  <1>12. ASSUME TextBefore(l)
         PROVE  /\ nodes[l].type = "NORMAL_TEXT" /\ nodes[l].from \in Int /\ nodes[l].to = i
                /\ nodes[l].a = nodes[l].from /\ nodes[l].b = i /\ nodes[l].from < i
                /\ \/ m = l
                   \/ m < l /\ nodes[m].to <= nodes[l].from
                   \/ m < l /\ MarkAgain(m, l) /\ nodes[m].to <= nodes[l].from + 1
    <2>1. nodes[l].from \in Int
      BY <1>11 DEF NodeTypes
    <2>2. m \in DOMAIN nodes
      BY <1>1
    <2> QED BY <1>12, <2>1, <2>2, SiblingsBefore DEF TextBefore, i
  <1> HIDE DEF l
  <1>13. CASE k = 1 /\ IsMark(x, i - 1)
    <2>1. x.from = i - 1 /\ x.type = "NORMAL_TEXT" /\ text[i - 1] = "!" /\ Top.consumed < i
      <3>1. i - 1 \in Int
        BY <1>2
      <3>2. Text(i - 1, (i - 1) + 1).from = i - 1 /\ Text(i - 1, (i - 1) + 1).type = "NORMAL_TEXT"
        BY <3>1, TextTyped
      <3>3. x.from = i - 1 /\ x.type = "NORMAL_TEXT" /\ text[i - 1] = "!"
        BY <1>13, <3>2 DEF IsMark
      <3> QED BY <1>2, <1>3, <3>3
    <2>2. TextBefore(l)
      BY <2>1 DEF Ready, Parse, Copied, l, i
    <2>3. nodes[l].from = i - 1
      <3>1. "!" \in Special
        BY DEF Special
      <3>2. \A q \in nodes[l].from + 1..i - 1 : text[q] \notin Special
        BY <2>2 DEF TextBefore, i
      <3> QED BY <1>2, <1>12, <2>1, <2>2, <3>1, <3>2, SMTT(30)
    <2>4. nodes'[m].type = nodes[m].type /\ nodes'[m].from = nodes[m].from
      BY <1>6 DEF TrimmedTo, N
    <2>5. m \in 1..N
      BY DEF N
    <2>6. CASE m < l /\ nodes[m].to <= nodes[l].from
      <3>1. nodes'[m].to <= nodes'[n].from
        BY <1>2, <1>5, <1>7, <2>1, <2>3, <2>6
      <3> QED BY <3>1 DEF InOrder
    <2>7. CASE m = l \/ (m < l /\ MarkAgain(m, l) /\ nodes[m].to <= nodes[l].from + 1)
      <3>1. nodes[m].type = "NORMAL_TEXT" /\ nodes[m].from = i - 1
        BY <1>12, <2>2, <2>3, <2>7 DEF MarkAgain
      <3>2. MarkAgain(m, n)'
        BY <1>5, <1>9, <2>1, <2>4, <3>1 DEF MarkAgain
      <3>3. nodes'[m].to <= nodes'[n].from + 1
        BY <1>2, <1>5, <1>7, <2>1
      <3> QED BY <3>2, <3>3 DEF InOrder
    <2> QED BY <1>12, <2>2, <2>6, <2>7
  <1>14. CASE k = 1 /\ TakesBack(r, x) /\ x.from < i
    <2>1. x.type = "LINK_AUTO" /\ Top.consumed < i
          /\ r.trim = Min({i - x.from, nodes[l].b - nodes[l].a})
      BY <1>14 DEF TakesBack, i, l
    <2>2. TextBefore(l)
      BY <2>1 DEF Ready, Parse, Copied, l, i
    <2>3. /\ r.trim \in {i - x.from, i - nodes[l].from}
          /\ r.trim <= i - x.from /\ r.trim <= i - nodes[l].from
      <3>1. i - x.from \in Int /\ i - nodes[l].from \in Int
        BY <1>2, <1>8, <1>12, <2>2, SMTT(30)
      <3>2. r.trim = Min({i - x.from, i - nodes[l].from})
        BY <1>12, <2>1, <2>2
      <3> QED BY <3>1, <3>2, MinOf2
    <2>4. r.trim # 0
      BY <1>2, <1>8, <1>12, <1>14, <2>2, <2>3, SMTT(30)
    <2>5. nodes'[l].b = i - r.trim /\ nodes'[l].to = i - r.trim
      <3>1. T[l].b = nodes[l].b - r.trim /\ T[l].to = nodes[l].to - r.trim
        BY <2>4, TrimmedIs DEF Fits, T, l
      <3> QED BY <1>6, <1>11, <1>12, <2>2, <3>1
    <2>6. CASE x.from <= nodes[l].from
      <3>1. nodes'[l].b = nodes[l].from
        BY <1>2, <1>8, <1>12, <2>2, <2>3, <2>5, <2>6, SMTT(30)
      <3>2. /\ nodes'[l].up = Top.node /\ nodes'[l].type = "NORMAL_TEXT"
            /\ nodes'[l].a = nodes[l].from
        BY <1>6, <1>11, <1>12, <2>2 DEF TrimmedTo
      <3>3. n = N + 1 /\ l \in m..n - 1
        BY <1>1, <1>11, <1>14 DEF N
      <3>4. \A j \in l + 1..n - 1 : nodes'[j].up # Top.node
        <4> SUFFICES ASSUME NEW j \in l + 1..n - 1
                     PROVE  nodes'[j].up # Top.node
          OBVIOUS
        <4>1. j \in 1..N /\ ~(j <= l)
          BY <1>1, <1>11, <3>3
        <4> QED BY <1>6, <1>11, <4>1 DEF TrimmedTo
      <3>5. Emptied(m, n)'
        BY <1>5, <2>1, <3>1, <3>2, <3>3, <3>4 DEF Emptied
      <3> QED BY <3>5 DEF InOrder
    <2>7. CASE ~(x.from <= nodes[l].from)
      <3>1. CASE m = l
        <4>1. nodes'[m].to = x.from
          BY <1>2, <1>8, <1>12, <2>2, <2>3, <2>5, <2>7, <3>1
        <4>2. nodes'[m].to <= nodes'[n].from
          BY <1>5, <1>8, <4>1
        <4> QED BY <4>2 DEF InOrder
      <3>2. CASE m # l
        <4>1. nodes[m].to <= nodes[l].from + 1
          BY <1>7, <1>12, <2>2, <3>2
        <4>2. nodes'[m].to <= nodes'[n].from
          BY <1>5, <1>7, <1>8, <1>12, <2>2, <2>7, <4>1, SMTT(30)
        <4> QED BY <4>2 DEF InOrder
      <3> QED BY <3>1, <3>2
    <2> QED BY <2>6, <2>7
  <1> QED BY <1>2, <1>3, <1>8, <1>10, <1>13, <1>14

LEMMA HandlePushes ==
    ASSUME Ready, NEW r, Fits(r), Handle(r)
    PROVE  Pushed /\ Results(r)
  <1> DEFINE N == Len(nodes)
  <1>1. nodes' \in Seq(NodeTypes) /\ Results(r)
    BY HandleResults
  <1>2. text' = text
    BY DEF Handle
  <1>3. N \in Nat /\ Len(r.nodes) \in Nat /\ Len(nodes') = N + Len(r.nodes)
    BY <1>1, FitsNodes DEF Results, Ready, Parse
  <1>4. \A n \in 1..N : Kept(n)
    BY <1>1, TrimmedIs DEF Results, Fits, TrimmedTo, Kept
  <1>5. ASSUME NEW n \in N + 1..Len(nodes')
        PROVE  New(n)
    <2>1. PICK k \in 1..Len(r.nodes) : n = N + k
      <3>1. n - N \in 1..Len(r.nodes) /\ n = N + (n - N)
        BY <1>3
      <3> QED BY <3>1
    <2> DEFINE x == r.nodes[k]
    <2>2. /\ x \in NodeTypes /\ Top.consumed <= x.from /\ x.to <= Top.stop
          /\ x.type = "NORMAL_TEXT" => x.a <= x.b
      BY FitsNodes
    <2>3. nodes'[n] = InTop(x)
      BY <1>1, <2>1 DEF Results
    <2>4. Top.node \in Nat
      BY TopIs DEF Ready
    <2>5. /\ nodes'[n].up = Top.node /\ nodes'[n].type = x.type /\ nodes'[n].from = x.from
          /\ nodes'[n].to = x.to /\ nodes'[n].a = x.a /\ nodes'[n].b = x.b
      BY <2>2, <2>3, <2>4, InTopIs
    <2>6. ASSUME NEW m \in 1..n - 1, nodes'[m].up = Top.node
          PROVE  InOrder(m, n)'
      <3>1. CASE m \in 1..N
        <4>1. nodes[m].up = Top.node
          BY <1>4, <2>6, <3>1 DEF Kept
        <4> QED BY <1>1, <1>2, <2>1, <3>1, <4>1, HandleInOrder
      <3>2. CASE m \notin 1..N
        <4>1. Len(r.nodes) \in 0..2
          BY FitsNodes
        <4>2. k = 2 /\ m = N + 1 /\ Len(r.nodes) = 2
          <5>1. PICK L \in 0..2 : L = Len(r.nodes)
            BY <4>1
          <5>2. PICK M \in Nat : M = N
            BY <1>3
          <5>3. k \in 1..L /\ m \in 1..(M + k) - 1 /\ m \notin 1..M
            BY <2>1, <3>2, <5>1, <5>2
          <5>4. k = 2 /\ m = M + 1 /\ L = 2
            BY ONLY <5>3, L \in 0..2, M \in Nat
          <5> QED BY <5>1, <5>2, <5>4
        <4>3. r.nodes[1].to <= r.nodes[2].from /\ r.nodes[1] \in NodeTypes
          BY <4>2, FitsNodes
        <4>4. nodes'[m] = InTop(r.nodes[1])
          BY <1>1, <4>2 DEF Results
        <4>5. nodes'[m].to <= nodes'[n].from
          BY <2>4, <2>5, <4>2, <4>3, <4>4, InTopIs
        <4> QED BY <4>5 DEF InOrder
      <3> QED BY <3>1, <3>2
    <2> HIDE DEF x
    <2> QED BY <2>2, <2>5, <2>6 DEF New
  <1> QED BY <1>1, <1>3, <1>4, <1>5 DEF Pushed

-----------------------------------------------------------------------------
(* The nodes when some were pushed *)

\* What is kept of a node that is not text.
LEMMA SpanStays ==
    ASSUME NEW n \in Nat, Kept(n), nodes[n].type # "NORMAL_TEXT"
    PROVE  nodes'[n] = nodes[n]
  BY DEF Kept

LEMMA OpenNode ==
    ASSUME Parse, outcome = "parsing"
    PROVE  /\ Top.node <= Len(nodes)
           /\ Top.node # 0 => /\ Top.node \in 1..Len(nodes)
                              /\ nodes[Top.node].type # "NORMAL_TEXT"
                              /\ nodes[Top.node].b = Top.stop
                              /\ nodes[Top.node].a <= Top.consumed
  <1>1. Top.node \in Nat /\ CallTyped(Top) /\ Len(nodes) \in Nat
    BY TopIs DEF Parse
  <1> HIDE DEF Top
  <1> QED BY <1>1 DEF CallTyped, BeginOf

LEMMA UpIs ==
    ASSUME Parse, NEW n \in 1..Len(nodes)
    PROVE  /\ nodes[n] \in NodeTypes /\ nodes[n].up \in Nat /\ nodes[n].up < n
           /\ nodes[n].up # 0 => /\ nodes[n].up \in 1..Len(nodes)
                                 /\ nodes[nodes[n].up].type # "NORMAL_TEXT"
  <1>1. nodes \in Seq(NodeTypes) /\ DOMAIN nodes = 1..Len(nodes)
    BY DEF Parse
  <1>2. nodes[n] \in NodeTypes
    BY <1>1
  <1>3. nodes[n].up \in Nat
    BY <1>2 DEF NodeTypes
  <1>4. nodes[n].up < n /\ (nodes[n].up # 0 => nodes[nodes[n].up].type # "NORMAL_TEXT")
    BY <1>1 DEF Parse, NodesTyped
  <1> QED BY <1>2, <1>3, <1>4

LEMMA PushTyped ==
    ASSUME Parse, outcome = "parsing", Pushed
    PROVE  NodesTyped'
  <1> DEFINE N == Len(nodes)
  <1>1. /\ nodes' \in Seq(NodeTypes) /\ N \in Nat /\ Len(nodes') \in Nat /\ N <= Len(nodes')
        /\ DOMAIN nodes' = 1..Len(nodes') /\ DOMAIN nodes = 1..N
    BY DEF Pushed, Parse
  <1>2. Top.node \in Nat /\ Top.node <= N
        /\ (Top.node # 0 => Top.node \in 1..N /\ nodes[Top.node].type # "NORMAL_TEXT")
    BY TopIs, OpenNode
  <1> SUFFICES ASSUME NEW n \in 1..Len(nodes')
               PROVE  /\ nodes'[n].up < n
                      /\ nodes'[n].up # 0 => nodes'[nodes'[n].up].type # "NORMAL_TEXT"
                      /\ nodes'[n].type = "NORMAL_TEXT" => nodes'[n].a <= nodes'[n].b
    BY <1>1 DEF NodesTyped
  <1>3. CASE n \in 1..N
    <2>1. Kept(n) /\ nodes'[n].up = nodes[n].up /\ nodes'[n].a = nodes[n].a
          /\ nodes'[n].type = nodes[n].type
      BY <1>3 DEF Pushed, Kept
    <2>2. nodes[n].up # 0 => Kept(nodes[n].up)
      BY <1>3, UpIs DEF Pushed
    <2>3. nodes[n].type = "NORMAL_TEXT" => nodes[n].a <= nodes[n].b
      BY <1>1, <1>3 DEF Parse, NodesTyped
    <2>4. nodes[n].type = "NORMAL_TEXT" => nodes'[n].a <= nodes'[n].b
      BY <2>1, <2>3 DEF Kept
    <2>5. nodes[n].up # 0 => nodes'[nodes[n].up].type = nodes[nodes[n].up].type
      BY <2>2 DEF Kept
    <2> QED BY <1>3, <2>1, <2>4, <2>5, UpIs
  <1>4. CASE n \notin 1..N
    <2>1. n \in N + 1..Len(nodes')
      BY <1>1, <1>4
    <2>2. New(n)
      BY <2>1 DEF Pushed
    <2>3. nodes'[n].up = Top.node /\ (nodes'[n].type = "NORMAL_TEXT" => nodes'[n].a <= nodes'[n].b)
      BY <2>2 DEF New
    <2>4. Top.node # 0 => nodes'[Top.node].type = nodes[Top.node].type
      BY <1>2 DEF Pushed, Kept
    <2> QED BY <1>1, <1>2, <2>1, <2>3, <2>4
  <1> QED BY <1>3, <1>4

LEMMA PushNested ==
    ASSUME Parse, outcome = "parsing", Pushed
    PROVE  SpansNested'
  <1> DEFINE N == Len(nodes)
  <1>1. /\ nodes' \in Seq(NodeTypes) /\ N \in Nat /\ Len(nodes') \in Nat /\ N <= Len(nodes')
        /\ DOMAIN nodes' = 1..Len(nodes') /\ DOMAIN nodes = 1..N
    BY DEF Pushed, Parse
  <1>2. /\ Top.node \in Nat /\ Top.consumed \in Nat
        /\ Top.node # 0 => /\ Top.node \in 1..N /\ nodes[Top.node].type # "NORMAL_TEXT"
                           /\ nodes[Top.node].b = Top.stop /\ nodes[Top.node].a <= Top.consumed
    BY TopIs, OpenNode
  <1> SUFFICES ASSUME NEW n \in 1..Len(nodes'), nodes'[n].up # 0
               PROVE  /\ nodes'[nodes'[n].up].a <= nodes'[n].from
                      /\ nodes'[n].to <= nodes'[nodes'[n].up].b
    BY <1>1 DEF SpansNested
  <1>3. CASE n \in 1..N
    <2>1. nodes'[n].up = nodes[n].up /\ nodes'[n].from = nodes[n].from /\ nodes'[n].to <= nodes[n].to
      BY <1>3 DEF Pushed, Kept
    <2> DEFINE u == nodes[n].up
    <2>2. u \in 1..N /\ nodes[u].type # "NORMAL_TEXT"
      BY <1>3, <2>1, UpIs
    <2>3. nodes'[u] = nodes[u]
      BY <2>2, SpanStays DEF Pushed
    <2>4. nodes[u].a <= nodes[n].from /\ nodes[n].to <= nodes[u].b
      BY <1>1, <1>3, <2>1 DEF Parse, SpansNested
    <2>5. nodes[u] \in NodeTypes /\ nodes[n] \in NodeTypes /\ nodes'[n] \in NodeTypes
      BY <1>1, <1>3, <2>2, UpIs
    <2>6. nodes[n].to \in Int /\ nodes'[n].to \in Int /\ nodes[u].b \in Int
      BY <2>5 DEF NodeTypes
    <2> QED BY <2>1, <2>3, <2>4, <2>6
  <1>4. CASE n \notin 1..N
    <2>1. n \in N + 1..Len(nodes')
      BY <1>1, <1>4
    <2>2. nodes'[n].up = Top.node /\ Top.consumed <= nodes'[n].from /\ nodes'[n].to <= Top.stop
      BY <2>1 DEF Pushed, New
    <2>3. nodes'[Top.node] = nodes[Top.node]
      BY <1>2, <2>2, SpanStays DEF Pushed
    <2>4. nodes[Top.node] \in NodeTypes /\ nodes'[n] \in NodeTypes
      BY <1>1, <1>2, <2>2, UpIs
    <2>5. nodes[Top.node].a \in Int /\ nodes'[n].from \in Int
      BY <2>4 DEF NodeTypes
    <2> QED BY <1>2, <2>2, <2>3, <2>5
  <1> QED BY <1>3, <1>4

LEMMA PushOrdered ==
    ASSUME Parse, outcome = "parsing", Pushed, UNCHANGED text
    PROVE  Ordered'
  <1> DEFINE N == Len(nodes)
  <1>1. /\ nodes' \in Seq(NodeTypes) /\ N \in Nat /\ Len(nodes') \in Nat /\ N <= Len(nodes')
        /\ DOMAIN nodes' = 1..Len(nodes') /\ DOMAIN nodes = 1..N
    BY DEF Pushed, Parse
  <1> SUFFICES ASSUME NEW n \in 1..Len(nodes'), NEW m \in 1..n - 1, nodes'[m].up = nodes'[n].up
               PROVE  InOrder(m, n)'
    BY <1>1 DEF Ordered
  <1>2. CASE n \in 1..N
    <2>1. m \in 1..N
      BY <1>1, <1>2
    <2>2. Kept(n) /\ Kept(m)
      BY <1>2, <2>1 DEF Pushed
    <2>3. nodes[m].up = nodes[n].up
      BY <2>2 DEF Kept
    <2>4. InOrder(m, n)
      BY <1>1, <1>2, <2>3 DEF Parse, Ordered
    <2>5. nodes[m] \in NodeTypes /\ nodes'[m] \in NodeTypes /\ nodes[n] \in NodeTypes
      BY <1>1, <1>2, <2>1, UpIs
    <2>6. nodes[m].to \in Int /\ nodes'[m].to \in Int /\ nodes[n].from \in Int
      BY <2>5 DEF NodeTypes
    <2>7. /\ nodes'[m].to <= nodes[m].to /\ nodes'[n].from = nodes[n].from
          /\ nodes'[m].from = nodes[m].from /\ nodes'[m].type = nodes[m].type
          /\ nodes'[n].type = nodes[n].type /\ nodes'[n].up = nodes[n].up
      BY <2>2 DEF Kept
    <2>8. CASE nodes[m].to <= nodes[n].from
      BY <2>6, <2>7, <2>8 DEF InOrder
    <2>9. CASE MarkAgain(m, n) /\ nodes[m].to <= nodes[n].from + 1
      <3>1. MarkAgain(m, n)'
        BY <2>7, <2>9 DEF MarkAgain
      <3>2. nodes'[m].to <= nodes'[n].from + 1
        BY <2>6, <2>7, <2>9
      <3> QED BY <3>1, <3>2 DEF InOrder
    <2>10. CASE Emptied(m, n)
      <3>1. PICK k \in m..n - 1 :
               /\ nodes[k].up = nodes[n].up /\ nodes[k].type = "NORMAL_TEXT"
               /\ nodes[k].a = nodes[k].b
               /\ \A j \in k + 1..n - 1 : nodes[j].up # nodes[n].up
        BY <2>10 DEF Emptied
      <3>2. k \in 1..N /\ k < n
        BY <1>1, <1>2
      <3>3. k # LastChild
        <4>1. k = LastChild => nodes[n].up = Top.node
          BY <3>1, <3>2, LastChildIs DEF Parse
        <4>2. nodes[n].up = Top.node => n <= LastChild
          BY <1>1, <1>2, LastChildIs DEF Parse
        <4> QED BY <1>1, <1>2, <3>2, <4>1, <4>2
      <3>4. nodes'[k] = nodes[k]
        BY <3>2, <3>3 DEF Pushed, Kept
      <3>5. \A j \in k + 1..n - 1 : nodes'[j].up = nodes[j].up
        <4> SUFFICES ASSUME NEW j \in k + 1..n - 1
                     PROVE  nodes'[j].up = nodes[j].up
          OBVIOUS
        <4>1. j \in 1..N
          BY <1>1, <1>2, <3>2
        <4> QED BY <4>1 DEF Pushed, Kept
      <3>6. Emptied(m, n)'
        BY <2>7, <2>10, <3>1, <3>4, <3>5 DEF Emptied
      <3> QED BY <3>6 DEF InOrder
    <2> QED BY <2>4, <2>8, <2>9, <2>10 DEF InOrder
  <1>3. CASE n \notin 1..N
    <2>1. n \in N + 1..Len(nodes')
      BY <1>1, <1>3
    <2> QED BY <2>1 DEF Pushed, New
  <1> QED BY <1>2, <1>3

-----------------------------------------------------------------------------
(* The calls when nodes were pushed *)

LEMMA CallStays ==
    ASSUME Parse, Pushed, NEW f \in Calls, CallTyped(f)
    PROVE  CallTyped(f)' /\ BeginOf(f)' = BeginOf(f)
  <1>1. nodes \in Seq(NodeTypes) /\ nodes' \in Seq(NodeTypes) /\ Len(nodes) <= Len(nodes')
    BY DEF Parse, Pushed
  <1>2. f.node \in Nat
    BY DEF Calls
  <1>3. Len(nodes) \in Nat /\ Len(nodes') \in Nat
    BY <1>1
  <1>4. f.node <= Len(nodes) /\ (f.node # 0 => nodes[f.node].type # "NORMAL_TEXT")
    BY DEF CallTyped
  <1>5. f.node # 0 => f.node \in 1..Len(nodes)
    BY <1>2, <1>3, <1>4
  <1>6. f.node # 0 => Kept(f.node)
    BY <1>5 DEF Pushed
  <1>7. f.node # 0 => nodes'[f.node] = nodes[f.node]
    BY <1>2, <1>4, <1>6, SpanStays
  <1>8. BeginOf(f)' = BeginOf(f)
    BY <1>7 DEF BeginOf
  <1>9. f.node <= Len(nodes')
    BY <1>1, <1>2, <1>3, <1>4
  <1> QED BY <1>7, <1>8, <1>9 DEF CallTyped

\* What is needed of the calls, of each by itself.
LEMMA StackTyped ==
    ASSUME frames' \in Seq(Calls),
           \A k \in 1..Len(frames') : \E f \in Calls : f = frames'[k] /\ CallTyped(f)'
    PROVE  CallsTyped'
  <1> SUFFICES ASSUME NEW k \in 1..Len(frames')
               PROVE  CallTyped(frames[k])'
    BY DEF CallsTyped
  <1>1. PICK f \in Calls : f = frames'[k] /\ CallTyped(f)'
    OBVIOUS
  <1> QED BY <1>1 DEF CallTyped, BeginOf

\* And of each within its caller.
NestedIn(f, g) ==
    nodes[f.node].up = g.node /\ f.stop <= g.stop /\ f.stop <= f.next /\ g.i < f.next
LEMMA StackNested ==
    ASSUME frames' \in Seq(Calls),
           \A k \in 2..Len(frames') :
              /\ \A j \in 1..k - 1 : frames'[j].node < frames'[k].node
              /\ \E f, g \in Calls : f = frames'[k] /\ g = frames'[k - 1] /\ NestedIn(f, g)'
    PROVE  CallsNested'
  <1> SUFFICES ASSUME NEW k \in 2..Len(frames')
               PROVE  /\ \A j \in 1..k - 1 : frames'[j].node < frames'[k].node
                      /\ nodes'[frames'[k].node].up = frames'[k - 1].node
                      /\ frames'[k].stop <= frames'[k - 1].stop
                      /\ frames'[k].stop <= frames'[k].next
                      /\ frames'[k - 1].i < frames'[k].next
    BY DEF CallsNested
  <1>1. PICK f, g \in Calls : f = frames'[k] /\ g = frames'[k - 1] /\ NestedIn(f, g)'
    OBVIOUS
  <1> QED BY <1>1 DEF NestedIn

LEMMA NestedStays ==
    ASSUME Parse, Pushed, NEW k \in 2..Len(frames)
    PROVE  /\ \A j \in 1..k - 1 : frames[j].node < frames[k].node
           /\ NestedIn(frames[k], frames[k - 1]) /\ frames[k] \in Calls /\ frames[k - 1] \in Calls
           /\ nodes'[frames[k].node].up = nodes[frames[k].node].up
  <1>1. frames \in Seq(Calls) /\ nodes \in Seq(NodeTypes)
    BY DEF Parse
  <1>2. Len(frames) \in Nat /\ k \in 1..Len(frames) /\ k - 1 \in 1..Len(frames) /\ k - 1 \in 1..k - 1
    BY <1>1
  <1>3. frames[k] \in Calls /\ frames[k - 1] \in Calls /\ CallTyped(frames[k])
    BY <1>1, <1>2 DEF Parse, CallsTyped
  <1>4. (\A j \in 1..k - 1 : frames[j].node < frames[k].node) /\ NestedIn(frames[k], frames[k - 1])
    BY DEF Parse, CallsNested, NestedIn
  <1>5. frames[k - 1].node < frames[k].node
    BY <1>2, <1>4
  <1>6. frames[k].node \in Nat /\ frames[k - 1].node \in Nat /\ Len(nodes) \in Nat
    <2>1. Len(nodes) \in Nat
      BY <1>1
    <2>2. frames[k].node \in Nat /\ frames[k - 1].node \in Nat
      BY ONLY <1>3 DEF Calls
    <2> QED BY <2>1, <2>2
  <1>7. frames[k].node \in 1..Len(nodes)
    BY <1>3, <1>5, <1>6 DEF CallTyped
  <1> QED BY <1>3, <1>4, <1>7 DEF Pushed, Kept

\* The last call goes on.
Replaces(g) ==
    /\ frames' = [frames EXCEPT ![Len(frames)] = g]
    /\ g.node = Top.node /\ g.stop = Top.stop /\ g.next = Top.next
    /\ Top.consumed <= g.consumed /\ g.consumed <= g.i
    /\ g.end = g.i \/ (g.end = g.i + 1 /\ g.i < g.stop)

\* The fields of a node and of a call.
LEMMA NodeIs ==
    ASSUME NEW x \in NodeTypes
    PROVE  x.from \in Int /\ x.to \in Int /\ x.a \in Int /\ x.b \in Int /\ x.up \in Nat
  BY DEF NodeTypes

LEMMA CallIs ==
    ASSUME NEW f \in Calls
    PROVE  /\ f.node \in Nat /\ f.stop \in Nat /\ f.i \in Nat /\ f.end \in Nat
           /\ f.consumed \in Nat /\ f.next \in Nat
  BY DEF Calls

LEMMA ReplaceIs ==
    ASSUME Parse, outcome = "parsing", NEW g \in Calls, Replaces(g)
    PROVE  /\ frames' \in Seq(Calls) /\ frames' # <<>> /\ Len(frames') = Len(frames)
           /\ frames'[Len(frames)] = g /\ Top' = g
           /\ \A k \in 1..Len(frames) : k # Len(frames) => frames'[k] = frames[k]
  <1>1. frames \in Seq(Calls) /\ Len(frames) \in Nat \ {0} /\ Len(frames) \in 1..Len(frames)
    BY TopIs DEF Parse
  <1>2. /\ frames' \in Seq(Calls) /\ Len(frames') = Len(frames)
        /\ \A k \in 1..Len(frames) : frames'[k] = IF k = Len(frames) THEN g ELSE frames[k]
    BY <1>1, ExceptSeq DEF Replaces
  <1>3. frames'[Len(frames)] = g
    BY <1>1, <1>2
  <1>4. Top' = g
    BY <1>2, <1>3 DEF Top
  <1>5. frames' # <<>>
    BY <1>1, <1>2
  <1> QED BY <1>2, <1>3, <1>4, <1>5

LEMMA ReplaceTyped ==
    ASSUME Parse, outcome = "parsing", Pushed, NEW g \in Calls, Replaces(g)
    PROVE  CallsTyped' /\ CallsNested'
  <1> DEFINE L == Len(frames)
  <1>1. /\ L \in Nat \ {0} /\ frames' \in Seq(Calls) /\ Len(frames') = L /\ frames'[L] = g
        /\ \A k \in 1..L : frames[k] \in Calls /\ (k # L => frames'[k] = frames[k])
        /\ Top = frames[L] /\ DOMAIN frames = 1..L /\ Top \in Calls /\ CallTyped(Top)
    BY ReplaceIs, TopIs DEF Parse
  <1>2. g.node = Top.node /\ g.stop = Top.stop /\ g.next = Top.next
    BY DEF Replaces
  <1>3. CallTyped(g)
    <2>1. /\ Top.consumed <= g.consumed /\ g.consumed <= g.i
          /\ g.end = g.i \/ (g.end = g.i + 1 /\ g.i < g.stop)
      BY DEF Replaces
    <2>2. BeginOf(g) = BeginOf(Top)
      BY <1>2 DEF BeginOf
    <2>3. BeginOf(Top) \in Int
      <3>1. Top.node # 0 => Top.node \in 1..Len(nodes)
        BY OpenNode
      <3>2. Top.node # 0 => nodes[Top.node] \in NodeTypes
        BY <3>1, UpIs
      <3> HIDE DEF Top
      <3> QED BY <3>2 DEF BeginOf, NodeTypes
    <2>4. g.consumed \in Int /\ Top.consumed \in Int
      <3>1. g \in Calls /\ Top \in Calls
        BY <1>1
      <3> QED BY ONLY <3>1, CallIs
    <2> HIDE DEF Top
    <2>5. 1 <= BeginOf(Top) /\ BeginOf(Top) <= g.consumed
      BY <1>1, <2>1, <2>3, <2>4 DEF CallTyped
    <2> QED BY <1>1, <1>2, <2>1, <2>2, <2>5 DEF CallTyped
  <1>4. CallsTyped'
    <2> SUFFICES ASSUME NEW k \in 1..L
                 PROVE  \E f \in Calls : f = frames'[k] /\ CallTyped(f)'
      BY <1>1, StackTyped
    <2>1. CASE k = L
      BY <1>1, <1>3, <2>1, CallStays
    <2>2. CASE k # L
      <3>1. PICK f \in Calls : f = frames[k] /\ f = frames'[k]
        BY <1>1, <2>2
      <3>2. CallTyped(f)
        BY <1>1, <3>1 DEF Parse, CallsTyped
      <3>3. CallTyped(f)'
        BY <3>2, CallStays
      <3> QED BY <3>1, <3>3
    <2> QED BY <2>1, <2>2
  <1>5. CallsNested'
    <2> SUFFICES ASSUME NEW k \in 2..L
                 PROVE  /\ \A j \in 1..k - 1 : frames'[j].node < frames'[k].node
                        /\ \E f, h \in Calls : f = frames'[k] /\ h = frames'[k - 1] /\ NestedIn(f, h)'
      BY <1>1, StackNested
    <2>1. /\ \A j \in 1..k - 1 : frames[j].node < frames[k].node
          /\ NestedIn(frames[k], frames[k - 1])
          /\ nodes'[frames[k].node].up = nodes[frames[k].node].up
      BY <1>1, NestedStays
    <2>2. k \in 1..L /\ k - 1 \in 1..L /\ k - 1 # L /\ \A j \in 1..k - 1 : j \in 1..L /\ j # L
      BY <1>1
    <2>3. frames'[k - 1] = frames[k - 1] /\ \A j \in 1..k - 1 : frames'[j] = frames[j]
      BY <1>1, <2>2
    <2>4. PICK h \in Calls : h = frames[k - 1]
      BY <1>1, <2>2
    <2>5. PICK f \in Calls : f = frames'[k] /\ f.node = frames[k].node /\ f.stop = frames[k].stop
                              /\ f.next = frames[k].next
      <3>1. CASE k = L
        BY <1>1, <1>2, <3>1
      <3>2. CASE k # L
        BY <1>1, <2>2, <3>2
      <3> QED BY <3>1, <3>2
    <2>6. NestedIn(f, h)'
      BY <2>1, <2>4, <2>5 DEF NestedIn
    <2> QED BY <2>1, <2>3, <2>4, <2>5, <2>6
  <1> QED BY <1>4, <1>5

\* A call of parse_inline for what is within the last node.
Opens(F) ==
    /\ frames' = Append(frames, F) /\ F.node = Len(nodes') /\ Len(nodes) < Len(nodes')
    /\ nodes'[F.node].up = Top.node /\ nodes'[F.node].type # "NORMAL_TEXT"
    /\ nodes'[F.node].a = F.i /\ nodes'[F.node].b = F.stop
    /\ F.end = F.i /\ F.consumed = F.i
    /\ Top.i < F.i /\ F.stop <= Top.stop /\ F.stop <= F.next /\ Top.i < F.next

LEMMA OpenIs ==
    ASSUME Parse, outcome = "parsing", NEW F \in Calls, Opens(F)
    PROVE  /\ frames' \in Seq(Calls) /\ frames' # <<>> /\ Len(frames') = Len(frames) + 1
           /\ frames'[Len(frames')] = F /\ Top' = F
           /\ \A k \in 1..Len(frames) : frames'[k] = frames[k]
  <1>1. frames \in Seq(Calls) /\ Len(frames) \in Nat \ {0}
    BY TopIs DEF Parse
  <1>2. /\ frames' \in Seq(Calls) /\ Len(frames') = Len(frames) + 1
        /\ frames'[Len(frames) + 1] = F
        /\ \A k \in 1..Len(frames) : frames'[k] = frames[k]
    <2>1. frames' = Append(frames, F)
      BY DEF Opens
    <2> HIDE DEF Calls
    <2> QED BY <1>1, <2>1, AppendProperties
  <1>3. Top' = F
    BY <1>2 DEF Top
  <1>4. frames' # <<>>
    BY <1>1, <1>2
  <1> QED BY <1>2, <1>3, <1>4

LEMMA OpenTyped ==
    ASSUME Parse, outcome = "parsing", Pushed, NEW F \in Calls, Opens(F)
    PROVE  CallsTyped' /\ CallsNested'
  <1> DEFINE L == Len(frames)
  <1>1. /\ L \in Nat \ {0} /\ frames' \in Seq(Calls) /\ Len(frames') = L + 1 /\ frames'[L + 1] = F
        /\ \A k \in 1..L : frames[k] \in Calls /\ frames'[k] = frames[k]
        /\ DOMAIN frames = 1..L
    <2>1. L \in Nat \ {0} /\ frames \in Seq(Calls)
      BY TopIs DEF Parse
    <2>2. /\ frames' \in Seq(Calls) /\ Len(frames') = L + 1 /\ frames'[L + 1] = F
          /\ \A k \in 1..L : frames'[k] = frames[k]
      BY OpenIs
    <2> QED BY <2>1, <2>2
  <1>2. /\ Top \in Calls /\ Top = frames[L] /\ Top.i \in Nat /\ Len(nodes) \in Nat
        /\ Len(nodes') \in Nat
    BY TopIs DEF Parse, Pushed
  <1> HIDE DEF Top
  <1>3. CallTyped(F)'
    <2>1. BeginOf(F)' = IF F.node = 0 THEN 1 ELSE nodes'[F.node].a
      BY DEF BeginOf
    <2>2. F.node # 0 /\ BeginOf(F)' = F.i /\ F.i \in Nat
      BY <1>2, <2>1 DEF Opens, Calls
    <2> QED BY <1>2, <2>2 DEF CallTyped, Opens
  <1>4. CallsTyped'
    <2> SUFFICES ASSUME NEW k \in 1..L + 1
                 PROVE  \E f \in Calls : f = frames'[k] /\ CallTyped(f)'
      BY <1>1, StackTyped
    <2>1. CASE k = L + 1
      BY <1>1, <1>3, <2>1
    <2>2. CASE k # L + 1
      <3>1. k \in 1..L
        BY <1>1, <2>2
      <3>2. PICK f \in Calls : f = frames[k] /\ f = frames'[k]
        BY <1>1, <3>1
      <3>3. CallTyped(f)
        BY <1>1, <3>1, <3>2 DEF Parse, CallsTyped
      <3>4. CallTyped(f)'
        BY <3>3, CallStays
      <3> QED BY <3>2, <3>4
    <2> QED BY <2>1, <2>2
  <1>5. CallsNested'
    <2> SUFFICES ASSUME NEW k \in 2..L + 1
                 PROVE  /\ \A j \in 1..k - 1 : frames'[j].node < frames'[k].node
                        /\ \E f, h \in Calls : f = frames'[k] /\ h = frames'[k - 1] /\ NestedIn(f, h)'
      BY <1>1, StackNested
    <2>1. CASE k = L + 1
      <3>1. k - 1 = L
        BY <1>1, <2>1
      <3>2. PICK h \in Calls : h = Top /\ NestedIn(F, h)'
        <4>1. PICK h \in Calls : h = Top
          BY <1>2
        <4>2. NestedIn(F, h)'
          BY <4>1 DEF NestedIn, Opens
        <4> QED BY <4>1, <4>2
      <3>3. ASSUME NEW j \in 1..L
            PROVE  frames'[j].node < F.node
        <4>1. CallTyped(frames[j]) /\ frames[j] \in Calls /\ frames'[j] = frames[j]
          BY <1>1 DEF Parse, CallsTyped
        <4>2. frames[j].node <= Len(nodes) /\ frames[j].node \in Nat
          BY <4>1 DEF CallTyped, Calls
        <4> QED BY <1>2, <4>1, <4>2 DEF Opens
      <3>4. frames'[L] = Top
        BY <1>1, <1>2
      <3>5. \A j \in 1..k - 1 : frames'[j].node < frames'[k].node
        BY <1>1, <2>1, <3>1, <3>3
      <3> QED BY <1>1, <2>1, <3>1, <3>2, <3>4, <3>5
    <2>2. CASE k # L + 1
      <3>1. k \in 2..L /\ k \in 1..L /\ k - 1 \in 1..L /\ \A j \in 1..k - 1 : j \in 1..L
        BY <1>1, <2>2
      <3>2. /\ \A j \in 1..k - 1 : frames[j].node < frames[k].node
            /\ NestedIn(frames[k], frames[k - 1])
            /\ nodes'[frames[k].node].up = nodes[frames[k].node].up
        BY <3>1, NestedStays
      <3>3. PICK f, h \in Calls : f = frames[k] /\ h = frames[k - 1]
        BY <1>1, <3>1
      <3>4. NestedIn(f, h)'
        BY <3>2, <3>3 DEF NestedIn
      <3> QED BY <1>1, <3>1, <3>2, <3>3, <3>4
    <2> QED BY <2>1, <2>2
  <1> QED BY <1>4, <1>5

\* A call that goes on at p.
Moved(f, p) == [[[f EXCEPT !.i = p] EXCEPT !.end = p] EXCEPT !.consumed = p]

LEMMA MovedIs ==
    ASSUME NEW f \in Calls, NEW p \in Nat
    PROVE  /\ Moved(f, p) \in Calls
           /\ Moved(f, p).i = p /\ Moved(f, p).end = p /\ Moved(f, p).consumed = p
           /\ Moved(f, p).node = f.node /\ Moved(f, p).stop = f.stop /\ Moved(f, p).next = f.next
  BY DEF Calls, Moved

LEMMA GoOnIs ==
    ASSUME NEW stack \in Seq(Calls), Len(stack) # 0, NEW p \in Nat
    PROVE  GoOn(stack, p) = [stack EXCEPT ![Len(stack)] = Moved(stack[Len(stack)], p)]
  <1>1. Len(stack) \in DOMAIN stack /\ stack[Len(stack)] \in Calls
    OBVIOUS
  <1> QED BY <1>1 DEF GoOn, Moved, Calls

-----------------------------------------------------------------------------
(* The place each call has reached *)

\* What is pushed is not of the calls before the last one.
LEMMA OuterPassed ==
    ASSUME Parse, outcome = "parsing", Pushed,
           NEW k \in 1..Len(frames) - 1, NEW n \in 1..Len(nodes'), nodes'[n].up = frames[k].node
    PROVE  nodes'[n].to <= frames[k + 1].next
  <1> DEFINE L == Len(frames)
             N == Len(nodes)
  <1>1. /\ L \in Nat \ {0} /\ Top = frames[L] /\ frames \in Seq(Calls) /\ N \in Nat
        /\ nodes \in Seq(NodeTypes) /\ nodes' \in Seq(NodeTypes) /\ Len(nodes') \in Nat
    BY TopIs DEF Parse, Pushed
  <1>2. k \in 1..L /\ k # L /\ k + 1 \in 1..L /\ L \in 2..L /\ k \in 1..L - 1
    BY <1>1
  <1>3. frames[k].node < Top.node /\ frames[k].node \in Nat /\ Top.node \in Nat
    <2>1. frames[k].node < frames[L].node
      BY <1>2 DEF Parse, CallsNested
    <2>2. frames[k] \in Calls /\ frames[L] \in Calls
      BY <1>1, <1>2
    <2> HIDE DEF Top
    <2> QED BY <1>1, <2>1, <2>2 DEF Calls
  <1> HIDE DEF Top
  <1>4. n \in 1..N
    <2> SUFFICES ASSUME n \notin 1..N
                 PROVE  FALSE
      OBVIOUS
    <2>1. n \in N + 1..Len(nodes')
      BY <1>1
    <2>2. nodes'[n].up = Top.node
      BY <2>1 DEF Pushed, New
    <2> QED BY <1>3, <2>2
  <1>5. nodes'[n].up = nodes[n].up /\ nodes'[n].to <= nodes[n].to
    BY <1>4 DEF Pushed, Kept
  <1>6. nodes[n].to <= Reach(k)
    <2>1. k \in DOMAIN frames /\ n \in DOMAIN nodes /\ nodes[n].up = frames[k].node /\ k # L
      BY <1>1, <1>2, <1>4, <1>5
    <2>2. Passed
      BY DEF Parse
    <2> HIDE DEF L
    <2> QED BY ONLY <2>1, <2>2, outcome = "parsing" DEF Passed, L
  <1>7. Reach(k) = frames[k + 1].next
    BY <1>2 DEF Reach
  <1>8. nodes'[n].to \in Int /\ nodes[n].to \in Int /\ frames[k + 1].next \in Int
    <2>1. nodes'[n] \in NodeTypes /\ nodes[n] \in NodeTypes
      BY <1>1, <1>4
    <2>2. frames[k + 1] \in Calls
      BY <1>1, <1>2
    <2> QED BY <2>1, <2>2, NodeIs, CallIs
  <1> QED BY <1>5, <1>6, <1>7, <1>8

LEMMA ReplacePassed ==
    ASSUME Parse, outcome = "parsing", Pushed, NEW g \in Calls, Replaces(g),
           \A n \in 1..Len(nodes') : nodes'[n].up = g.node =>
               nodes'[n].to <= g.i \/ (g.end = g.i + 1 /\ MarkAt(n, g.i)')
    PROVE  Passed'
  <1>1. PICK L \in Nat : L = Len(frames)
    BY TopIs
  <1>2. L # 0 /\ Top = frames[L]
    BY <1>1, TopIs
  <1>3. /\ Len(frames') = L /\ frames'[L] = g /\ Top' = g /\ DOMAIN frames' = 1..L
        /\ \A k \in 1..L : k # L => frames'[k] = frames[k]
    <2>1. /\ Len(frames') = L /\ frames'[L] = g /\ Top' = g /\ frames' \in Seq(Calls)
          /\ \A k \in 1..L : k # L => frames'[k] = frames[k]
      BY ONLY <1>1, Parse, outcome = "parsing", g \in Calls, Replaces(g), ReplaceIs
    <2> QED BY ONLY <2>1
  <1>4. DOMAIN nodes' = 1..Len(nodes')
    BY DEF Pushed
  <1>5. Reach(L)' = g.i
    BY ONLY <1>3 DEF Reach
  <1>6. \A k : k # L => Reach(k)' = frames'[k + 1].next
    BY ONLY <1>3 DEF Reach
  <1>7. \A n : MarkAt(n, Top.i)' <=> MarkAt(n, g.i)'
    BY ONLY <1>3 DEF MarkAt
  <1>8. g.next = Top.next /\ g.node = Top.node
    BY DEF Replaces
  <1>9. ASSUME NEW k \in 1..L, NEW n \in 1..Len(nodes'), nodes'[n].up = frames'[k].node
        PROVE  \/ nodes'[n].to <= Reach(k)'
               \/ k = L /\ g.end = g.i + 1 /\ MarkAt(n, g.i)'
    <2>1. CASE k = L
      <3>1. nodes'[n].up = g.node
        BY ONLY <1>3, <1>9, <2>1
      <3>2. nodes'[n].to <= g.i \/ (g.end = g.i + 1 /\ MarkAt(n, g.i)')
        BY <3>1
      <3> QED BY ONLY <1>5, <2>1, <3>2
    <2>2. CASE k # L
      <3>1. k \in 1..L - 1 /\ k + 1 \in 1..L
        BY ONLY <1>1, <2>2, k \in 1..L
      <3>2. frames'[k] = frames[k]
        BY ONLY <1>3, <2>2, k \in 1..L
      <3>3. frames'[k + 1].next = frames[k + 1].next
        <4>1. CASE k + 1 = L
          BY ONLY <1>2, <1>3, <1>8, <4>1
        <4>2. CASE k + 1 # L
          BY ONLY <1>3, <3>1, <4>2
        <4> QED BY ONLY <4>1, <4>2
      <3>4. nodes'[n].up = frames[k].node
        BY ONLY <1>9, <3>2
      <3>5. nodes'[n].to <= frames[k + 1].next
        BY <1>1, <3>1, <3>4, OuterPassed
      <3>6. Reach(k)' = frames'[k + 1].next
        BY ONLY <1>6, <2>2
      <3> QED BY ONLY <3>3, <3>5, <3>6
    <2> QED BY ONLY <2>1, <2>2
  <1>10. Passed' <=>
           (outcome' = "parsing" =>
              \A k \in DOMAIN frames' : \A n \in DOMAIN nodes' : nodes'[n].up = frames'[k].node =>
                 \/ nodes'[n].to <= Reach(k)'
                 \/ k = Len(frames') /\ Top'.end = Top'.i + 1 /\ MarkAt(n, Top.i)')
    BY ONLY DEF Passed
  <1> HIDE DEF Top, Reach, MarkAt
  <1> QED BY ONLY <1>3, <1>4, <1>7, <1>9, <1>10

LEMMA OpenPassed ==
    ASSUME Ready, Pushed, NodesTyped', NEW F \in Calls, Opens(F),
           \A n \in Len(nodes) + 1..Len(nodes') : nodes'[n].to <= F.next
    PROVE  Passed'
  <1> DEFINE L == Len(frames)
             N == Len(nodes)
  <1>1. /\ L \in Nat \ {0} /\ Len(frames') = L + 1 /\ frames'[L + 1] = F
        /\ \A k \in 1..L : frames'[k] = frames[k]
        /\ DOMAIN frames' = 1..L + 1 /\ DOMAIN nodes' = 1..Len(nodes') /\ Top = frames[L]
        /\ N \in Nat /\ Len(nodes') \in Nat /\ Top.i \in Nat
    <2>1. L \in Nat \ {0} /\ Top = frames[L] /\ Top.i \in Nat
      BY TopIs DEF Ready
    <2>2. /\ Len(frames') = L + 1 /\ frames'[L + 1] = F /\ frames' \in Seq(Calls)
          /\ \A k \in 1..L : frames'[k] = frames[k]
      BY OpenIs DEF Ready
    <2>3. nodes' \in Seq(NodeTypes) /\ nodes \in Seq(NodeTypes)
      BY DEF Pushed, Ready, Parse
    <2> QED BY <2>1, <2>2, <2>3
  <1> SUFFICES ASSUME NEW k \in 1..L + 1, NEW n \in 1..Len(nodes'), nodes'[n].up = frames'[k].node
               PROVE  nodes'[n].to <= Reach(k)'
    BY <1>1 DEF Passed
  <1>2. CASE k = L + 1
    <2>1. nodes'[n].up = Len(nodes')
      BY <1>1, <1>2 DEF Opens
    <2>2. nodes'[n].up < n
      BY <1>1 DEF NodesTyped
    <2> QED BY <1>1, <2>1, <2>2
  <1>3. CASE k = L
    <2>1. Reach(k)' = F.next
      BY <1>1, <1>3 DEF Reach
    <2>2. CASE n \in 1..N
      <3>1. nodes'[n].up = nodes[n].up /\ nodes'[n].to <= nodes[n].to
        BY <2>2 DEF Pushed, Kept
      <3>2. nodes[n].up = Top.node
        BY <1>1, <1>3, <3>1
      <3>3. nodes[n].to <= Top.i
        BY <2>2, <3>2, SiblingsEnd DEF Ready, Parse
      <3>4. Top.i < F.next
        BY DEF Opens
      <3>5. nodes'[n].to \in Int /\ nodes[n].to \in Int /\ F.next \in Int
        <4>1. nodes'[n] \in NodeTypes /\ nodes[n] \in NodeTypes
          BY <2>2 DEF Pushed, Ready, Parse
        <4> QED BY <4>1, NodeIs, CallIs
      <3> HIDE DEF Top
      <3> QED BY <1>1, <2>1, <3>1, <3>3, <3>4, <3>5
    <2>3. CASE n \notin 1..N
      <3>1. n \in N + 1..Len(nodes')
        BY <1>1, <2>3
      <3> QED BY <2>1, <3>1
    <2> QED BY <2>2, <2>3
  <1>4. CASE k # L /\ k # L + 1
    <2>1. k \in 1..L - 1 /\ k + 1 \in 1..L /\ k \in 1..L
      BY <1>1, <1>4
    <2>2. frames'[k] = frames[k] /\ frames'[k + 1] = frames[k + 1]
      BY <1>1, <2>1
    <2>3. Reach(k)' = frames'[k + 1].next
      BY <1>1, <1>4 DEF Reach
    <2>4. nodes'[n].to <= frames[k + 1].next
      BY <2>1, <2>2, OuterPassed DEF Ready
    <2> QED BY <2>2, <2>3, <2>4
  <1> QED BY <1>2, <1>3, <1>4

-----------------------------------------------------------------------------
(* What Handle keeps *)

LEMMA SiblingsNow ==
    ASSUME Ready, Pushed, NEW n \in 1..Len(nodes), nodes'[n].up = Top.node
    PROVE  nodes'[n].to \in Int /\ nodes'[n].to <= Top.i
  <1>1. nodes'[n].up = nodes[n].up /\ nodes'[n].to <= nodes[n].to
    BY DEF Pushed, Kept
  <1>2. nodes \in Seq(NodeTypes) /\ nodes' \in Seq(NodeTypes) /\ Len(nodes) <= Len(nodes')
    BY DEF Ready, Parse, Pushed
  <1>3. nodes[n].to <= Top.i
    BY <1>1, <1>2, SiblingsEnd
  <1>4. nodes[n] \in NodeTypes /\ nodes'[n] \in NodeTypes
    <2>1. n \in DOMAIN nodes /\ n \in DOMAIN nodes'
      <3>1. Len(nodes) \in Nat /\ Len(nodes') \in Nat
        BY <1>2
      <3> QED BY <1>2, <3>1
    <2> QED BY <1>2, <2>1
  <1>5. Top.i \in Nat
    BY TopIs DEF Ready
  <1>6. nodes[n].to \in Int /\ nodes'[n].to \in Int
    BY <1>4, NodeIs
  <1> QED BY <1>1, <1>3, <1>5, <1>6

\* Node n is the pushed x.
Puts(n, x) ==
    /\ nodes'[n].up = Top.node /\ nodes'[n].type = x.type
    /\ nodes'[n].from = x.from /\ nodes'[n].to = x.to
    /\ nodes'[n].a = x.a /\ nodes'[n].b = x.b

LEMMA ResultAt ==
    ASSUME Ready, NEW r, Fits(r), Results(r), NEW n \in 1..Len(nodes'), n \notin 1..Len(nodes)
    PROVE  \E k \in 1..Len(r.nodes) : r.nodes[k] \in NodeTypes /\ Puts(n, r.nodes[k])
  <1>1. Len(nodes) \in Nat /\ Len(r.nodes) \in Nat /\ Len(nodes') = Len(nodes) + Len(r.nodes)
    BY FitsNodes DEF Results, Ready, Parse
  <1>2. PICK k \in 1..Len(r.nodes) : n = Len(nodes) + k
    <2>1. n - Len(nodes) \in 1..Len(r.nodes) /\ n = Len(nodes) + (n - Len(nodes))
      BY <1>1
    <2> QED BY <2>1
  <1>3. nodes'[n] = InTop(r.nodes[k]) /\ r.nodes[k] \in NodeTypes
    BY <1>2, FitsNodes DEF Results
  <1>4. Top.node \in Nat
    BY TopIs DEF Ready
  <1> QED BY <1>3, <1>4, InTopIs, SMTT(30) DEF Puts

\* What the text looks like after the steps that are not CopyText.
LEMMA CopiedAnew ==
    ASSUME NEW g \in Calls, Top' = g, g.end # g.i \/ g.consumed = g.i, UNCHANGED <<text, ext, defs>>,
           (g.end = g.i + 1 /\ g.end < g.stop /\ text[g.i] = "!" /\ text[g.end] = "[")
               => LinkNext(g.end, g.stop) = 0
    PROVE  Copied' /\ Tried'
  <1>1. g.i \in Nat /\ g.end \in Nat /\ g.consumed \in Nat
    BY CallIs
  <1>2. ~(g.i = g.end /\ g.consumed < g.i)
    BY <1>1
  <1>3. Copied'
    BY <1>2 DEF Copied
  <1>4. text' = text /\ LinkNext(g.end, g.stop)' = LinkNext(g.end, g.stop)
    BY LinkNextStays
  <1>5. TriedAt(g)'
    BY <1>2, <1>4 DEF TriedAt
  <1>6. Tried'
    BY <1>5 DEF Tried
  <1> QED BY <1>3, <1>6

Ended(f, p) == [f EXCEPT !.end = p]

LEMMA EndedIs ==
    ASSUME NEW f \in Calls, NEW p \in Nat
    PROVE  /\ Ended(f, p) \in Calls
           /\ Ended(f, p).i = f.i /\ Ended(f, p).end = p /\ Ended(f, p).consumed = f.consumed
           /\ Ended(f, p).node = f.node /\ Ended(f, p).stop = f.stop /\ Ended(f, p).next = f.next
  BY DEF Calls, Ended

LEMMA FrameIs ==
    ASSUME NEW n \in Nat, NEW a \in Nat, NEW b \in Nat, NEW next \in Nat
    PROVE  /\ Frame(n, a, b, next) \in Calls
           /\ Frame(n, a, b, next).node = n /\ Frame(n, a, b, next).stop = b
           /\ Frame(n, a, b, next).i = a /\ Frame(n, a, b, next).end = a
           /\ Frame(n, a, b, next).consumed = a /\ Frame(n, a, b, next).next = next
  BY DEF Frame, Calls

\* The part of the invariant that is about the calls.
Stack ==
    /\ frames \in Seq(Calls) /\ frames # <<>>
    /\ CallsTyped /\ CallsNested /\ Passed /\ Copied /\ Tried

\* The first call is of the same node, and the parse gets further.
Root == frames'[1].node = frames[1].node
Onward ==
    \/ outcome' # outcome
    \/ Reached' > Reached
    \/ Reached' = Reached /\ (Top'.i > Top.i \/ Len(frames') < Len(frames))
Goes == (nodes' = nodes \/ Pushed) /\ Root /\ Onward

LEMMA ReplaceRoot ==
    ASSUME Parse, outcome = "parsing", NEW g \in Calls, Replaces(g)
    PROVE  Root
  <1>1. Len(frames) \in Nat \ {0} /\ Top = frames[Len(frames)] /\ 1 \in 1..Len(frames)
    BY TopIs
  <1>2. CASE Len(frames) = 1
    BY <1>1, <1>2, ReplaceIs DEF Root, Replaces
  <1>3. CASE Len(frames) # 1
    BY <1>1, <1>3, ReplaceIs DEF Root
  <1> QED BY <1>2, <1>3

LEMMA Farther ==
    ASSUME Ready, NEW g \in Calls, Top' = g, Top.i < g.end, Top.i < g.stop
    PROVE  Onward
  <1>1. Top.i \in Nat /\ Top.stop \in Nat /\ Top.end = Top.i /\ Top.i < Top.stop
    BY TopIs DEF Ready
  <1>2. Reached = Top.i
    <2>1. Top.i \in Int /\ Top.stop \in Int
      BY <1>1
    <2>2. /\ Min({Top.i, Top.stop}) \in {Top.i, Top.stop}
          /\ Min({Top.i, Top.stop}) <= Top.i /\ Min({Top.i, Top.stop}) <= Top.stop
      BY <2>1, MinOf2
    <2> QED BY <1>1, <2>2 DEF Reached
  <1>3. Reached' > Top.i
    <2>1. g.end \in Int /\ g.stop \in Int
      BY CallIs
    <2>2. Min({g.end, g.stop}) \in {g.end, g.stop}
      BY <2>1, MinOf2
    <2>3. Reached' = Min({g.end, g.stop})
      BY DEF Reached
    <2> QED BY <1>1, <2>1, <2>2, <2>3
  <1> QED BY <1>2, <1>3 DEF Onward

LEMMA ReplaceStacks ==
    ASSUME Ready, Pushed, NEW g \in Calls, Replaces(g), UNCHANGED <<text, ext, defs>>,
           g.end # g.i \/ g.consumed = g.i,
           (g.end = g.i + 1 /\ g.end < g.stop /\ text[g.i] = "!" /\ text[g.end] = "[")
               => LinkNext(g.end, g.stop) = 0,
           \A n \in 1..Len(nodes') : nodes'[n].up = g.node =>
               nodes'[n].to <= g.i \/ (g.end = g.i + 1 /\ MarkAt(n, g.i)')
    PROVE  Stack'
  <1>1. Parse /\ outcome = "parsing"
    BY DEF Ready
  <1>2. frames' \in Seq(Calls) /\ frames' # <<>> /\ Top' = g
    BY <1>1, ReplaceIs
  <1>3. CallsTyped' /\ CallsNested'
    BY <1>1, ReplaceTyped
  <1>4. Passed'
    BY <1>1, ReplacePassed
  <1>5. Copied' /\ Tried'
    BY <1>2, CopiedAnew
  <1> QED BY <1>2, <1>3, <1>4, <1>5 DEF Stack

\* What becomes of the calls when nothing begins here, behind a span, and in one.
LEMMA NothingReplaces ==
    ASSUME Ready, NEW r, Handle(r), r.next = 0
    PROVE  \E h \in Calls : /\ Replaces(h) /\ h.i = Top.i /\ h.end = Top.i + 1
                            /\ h.node = Top.node /\ h.stop = Top.stop
  <1> DEFINE i == Top.i
             g == Ended(Top, i + 1)
             L == Len(frames)
  <1>1. /\ Top \in Calls /\ i \in Nat /\ i + 1 \in Nat /\ i < Top.stop /\ Top.consumed <= i
        /\ L \in DOMAIN frames /\ Top = frames[L]
    BY TopIs DEF Ready
  <1>2. /\ g \in Calls /\ g.i = i /\ g.end = i + 1 /\ g.consumed = Top.consumed
        /\ g.node = Top.node /\ g.stop = Top.stop /\ g.next = Top.next
    BY <1>1, EndedIs
  <1>3. frames' = [frames EXCEPT ![L] = g]
    <2>1. frames' = [frames EXCEPT ![L].end = i + 1]
      BY DEF Handle
    <2> QED BY <1>1, <2>1 DEF Ended
  <1>4. PICK h \in Calls : h = g
    BY <1>2
  <1> HIDE DEF g, i
  <1>5. Replaces(h)
    <2>1. Top.consumed \in Nat
      BY TopIs DEF Ready
    <2> QED BY <1>1, <1>2, <1>3, <1>4, <2>1 DEF Replaces
  <1> QED BY <1>2, <1>4, <1>5 DEF i

LEMMA OverReplaces ==
    ASSUME Ready, NEW r, Fits(r), Handle(r), r.next # 0, ~ r.within
    PROVE  \E h \in Calls : /\ Replaces(h) /\ h.i = r.next /\ h.end = r.next
                            /\ h.consumed = r.next /\ h.node = Top.node /\ h.stop = Top.stop
  <1> DEFINE p == r.next
             g == Moved(Top, p)
             L == Len(frames)
  <1>1. /\ Top \in Calls /\ Top.i \in Nat /\ Top.consumed <= Top.i /\ Top.consumed \in Nat
        /\ L \in DOMAIN frames /\ L # 0 /\ Top = frames[L] /\ frames \in Seq(Calls)
    BY TopIs DEF Ready, Parse
  <1>2. p \in Nat /\ Top.i < p
    BY <1>1 DEF Fits
  <1>3. /\ g \in Calls /\ g.i = p /\ g.end = p /\ g.consumed = p
        /\ g.node = Top.node /\ g.stop = Top.stop /\ g.next = Top.next
    BY <1>1, <1>2, MovedIs, ZenonT(30)
  <1>4. frames' = [frames EXCEPT ![L] = g]
    <2>1. frames' = GoOn(frames, p)
      BY DEF Handle
    <2>2. GoOn(frames, p) = [frames EXCEPT ![L] = Moved(frames[L], p)]
      BY <1>1, <1>2, GoOnIs
    <2> QED BY <1>1, <2>1, <2>2
  <1>5. PICK h \in Calls : h = g
    BY <1>3
  <1> HIDE DEF g, p
  <1>6. Replaces(h)
    BY <1>1, <1>2, <1>3, <1>4, <1>5 DEF Replaces
  <1> QED BY <1>3, <1>5, <1>6 DEF p

LEMMA WithinOpens ==
    ASSUME Ready, NEW r, Fits(r), Handle(r), r.next # 0, r.within
    PROVE  \E K \in Calls : /\ Opens(K) /\ K.i = r.nodes[1].a /\ K.end = K.i /\ K.consumed = K.i
                            /\ K.stop = r.nodes[1].b /\ K.next = r.next /\ Top.i < K.i /\ Top.i < K.stop
                            /\ nodes'[K.node].type = r.nodes[1].type
  <1> DEFINE x == r.nodes[1]
             M == Len(nodes')
             F == Frame(Len(nodes'), x.a, x.b, r.next)
  <1>1. /\ Top.i \in Nat /\ Top.stop \in Nat /\ Top.node \in Nat
    BY TopIs DEF Ready
  <1>2. Pushed /\ Results(r) /\ UNCHANGED <<text, ext, defs>> /\ Parse /\ outcome = "parsing"
    BY HandlePushes DEF Handle, Ready
  <1>3. /\ Len(r.nodes) = 1 /\ x \in NodeTypes /\ x.type # "NORMAL_TEXT"
        /\ Top.i < x.a /\ x.a <= x.b /\ x.b <= x.to /\ x.to <= Top.stop /\ x.to <= r.next
    BY FitsNodes
  <1>4. x.a \in Nat /\ x.b \in Nat /\ r.next \in Nat /\ x.b <= Top.stop /\ x.b <= r.next
        /\ Top.i < r.next
    <2>1. x.a \in Int /\ x.b \in Int /\ x.to \in Int
      BY <1>3, NodeIs
    <2>2. r.next \in Int /\ Top.i < r.next
      BY DEF Fits
    <2> HIDE DEF x, Top
    <2> QED BY <1>1, <1>3, <2>1, <2>2
  <1>5. M \in Nat /\ Len(nodes) \in Nat /\ M = Len(nodes) + 1
    BY <1>2, <1>3 DEF Results, Ready, Parse
  <1>6. /\ nodes'[M].up = Top.node /\ nodes'[M].type = x.type
        /\ nodes'[M].a = x.a /\ nodes'[M].b = x.b
    <2>1. nodes'[Len(nodes) + 1] = InTop(x)
      BY <1>2, <1>3 DEF Results
    <2> HIDE DEF x
    <2> QED BY <1>1, <1>3, <1>5, <2>1, InTopIs
  <1>7. /\ F \in Calls /\ F.node = M /\ F.stop = x.b /\ F.i = x.a /\ F.end = x.a
        /\ F.consumed = x.a /\ F.next = r.next
    <2>1. PICK a \in Nat, b \in Nat, next \in Nat, n \in Nat :
             a = x.a /\ b = x.b /\ next = r.next /\ n = M
      BY <1>4, <1>5
    <2>2. F = Frame(n, a, b, next)
      BY <2>1
    <2> HIDE DEF F, x, M
    <2> DEFINE G == Frame(n, a, b, next)
    <2>3. /\ G \in Calls /\ G.node = n /\ G.stop = b /\ G.i = a /\ G.end = a
          /\ G.consumed = a /\ G.next = next
      BY ONLY a \in Nat, b \in Nat, n \in Nat, next \in Nat, FrameIs
    <2> HIDE DEF G
    <2> QED BY <2>1, <2>2, <2>3 DEF G
  <1>8. frames' = Append(frames, F)
    BY <1>3 DEF Handle
  <1> HIDE DEF x, F
  <1>9. PICK K \in Calls : K = F
    BY <1>7
  <1>10. Opens(K)
    BY <1>3, <1>4, <1>5, <1>6, <1>7, <1>8, <1>9 DEF Opens
  <1>11. Top.i < K.i /\ Top.i < K.stop /\ nodes'[K.node].type = x.type
    BY <1>1, <1>3, <1>4, <1>6, <1>7, <1>9
  <1> QED BY <1>7, <1>9, <1>10, <1>11 DEF x

\* Nothing begins here.
LEMMA HandleNothing ==
    ASSUME Ready, NEW r, Fits(r), Handle(r), r.next = 0,
           (Top.i + 1 < Top.stop /\ text[Top.i] = "!" /\ text[Top.i + 1] = "[")
               => LinkNext(Top.i + 1, Top.stop) = 0
    PROVE  Stack' /\ Root /\ Onward
  <1> DEFINE i == Top.i
  <1>1. i \in Nat /\ i + 1 \in Nat /\ i < Top.stop
    BY TopIs DEF Ready
  <1>2. PICK h \in Calls : /\ Replaces(h) /\ h.i = i /\ h.end = i + 1
                          /\ h.node = Top.node /\ h.stop = Top.stop
    BY NothingReplaces
  <1> HIDE DEF i
  <1>4. Pushed /\ Results(r) /\ UNCHANGED <<text, ext, defs>>
    BY HandlePushes DEF Handle
  <1>5. Replaces(h)
    BY <1>2
  <1>6. ASSUME NEW n \in 1..Len(nodes'), nodes'[n].up = h.node
        PROVE  nodes'[n].to <= h.i \/ (h.end = h.i + 1 /\ MarkAt(n, h.i)')
    <2>1. CASE n \in 1..Len(nodes)
      BY <1>2, <1>4, <1>6, <2>1, SiblingsNow DEF i
    <2>2. CASE n \notin 1..Len(nodes)
      <3>1. PICK k \in 1..Len(r.nodes) : Puts(n, r.nodes[k])
        BY <1>4, <2>2, ResultAt
      <3>2. PICK x : x = r.nodes[k]
        OBVIOUS
      <3>3. IsMark(x, i - 1) \/ IsMark(x, i)
        BY <3>2, FitsNodes DEF i
      <3>4. CASE IsMark(x, i - 1)
        <4>1. i - 1 \in Int /\ (i - 1) + 1 = i
          BY <1>1
        <4>2. x.to = i
          BY <3>4, <4>1, TextTyped DEF IsMark
        <4> QED BY <1>1, <1>2, <3>1, <3>2, <4>2 DEF Puts
      <3>5. CASE IsMark(x, i)
        <4>1. i \in Int
          BY <1>1
        <4>2. x.type = "NORMAL_TEXT" /\ x.from = i /\ x.to = i + 1 /\ text[i] = "!"
          BY <3>5, <4>1, TextTyped DEF IsMark
        <4>3. MarkAt(n, h.i)'
          BY <1>2, <1>4, <3>1, <3>2, <4>2 DEF MarkAt, Puts
        <4> QED BY <1>2, <4>3
      <3> QED BY <3>3, <3>4, <3>5
    <2> QED BY <2>1, <2>2
  <1>7. h.end # h.i
    BY <1>1, <1>2
  <1>8. (h.end = h.i + 1 /\ h.end < h.stop /\ text[h.i] = "!" /\ text[h.end] = "[")
               => LinkNext(h.end, h.stop) = 0
    BY <1>2 DEF i
  <1>9. Stack'
    BY <1>2, <1>4, <1>5, <1>6, <1>7, <1>8, ReplaceStacks
  <1>10. Root
    BY <1>5, ReplaceRoot DEF Ready
  <1>11. Onward
    <2>1. Top' = h
      BY <1>5, ReplaceIs DEF Ready
    <2>2. Top.i < h.end /\ Top.i < h.stop
      BY <1>1, <1>2 DEF i
    <2> QED BY <2>1, <2>2, Farther
  <1> QED BY <1>9, <1>10, <1>11

\* A span without text, or none to be parsed.
LEMMA HandleOver ==
    ASSUME Ready, NEW r, Fits(r), Handle(r), r.next # 0, ~ r.within
    PROVE  Stack' /\ Root /\ Onward
  <1> DEFINE p == r.next
  <1>1. Top.i \in Nat
    BY TopIs DEF Ready
  <1>2. p \in Nat /\ Top.i < p
    BY <1>1 DEF Fits
  <1>3. PICK h \in Calls : /\ Replaces(h) /\ h.i = p /\ h.end = p /\ h.consumed = p
                          /\ h.node = Top.node /\ h.stop = Top.stop
    BY OverReplaces
  <1> HIDE DEF p
  <1>5. Pushed /\ Results(r) /\ UNCHANGED <<text, ext, defs>>
    BY HandlePushes DEF Handle
  <1>6. Replaces(h)
    BY <1>3
  <1>7. ASSUME NEW n \in 1..Len(nodes'), nodes'[n].up = h.node
        PROVE  nodes'[n].to <= h.i
    <2>1. CASE n \in 1..Len(nodes)
      <3>1. nodes'[n].to \in Int /\ nodes'[n].to <= Top.i
        BY <1>3, <1>5, <1>7, <2>1, SiblingsNow
      <3> HIDE DEF Top
      <3> QED BY <1>1, <1>2, <1>3, <3>1
    <2>2. CASE n \notin 1..Len(nodes)
      <3>1. PICK k \in 1..Len(r.nodes) : Puts(n, r.nodes[k])
        BY <1>5, <2>2, ResultAt
      <3>2. r.nodes[k].to <= r.next
        BY FitsNodes
      <3> QED BY <1>3, <3>1, <3>2 DEF p, Puts
    <2> QED BY <2>1, <2>2
  <1>8. ~(h.end = h.i + 1)
    BY <1>2, <1>3
  <1>9. Stack'
    BY <1>3, <1>5, <1>6, <1>7, <1>8, ReplaceStacks
  <1>10. Root
    BY <1>6, ReplaceRoot DEF Ready
  <1>11. Onward
    <2>1. Top' = h
      BY <1>6, ReplaceIs DEF Ready
    <2>2. Top.i < h.end /\ Top.i < h.stop
      BY <1>2, <1>3 DEF Ready
    <2> QED BY <2>1, <2>2, Farther
  <1> QED BY <1>9, <1>10, <1>11

\* A span whose text is parsed.
LEMMA HandleWithin ==
    ASSUME Ready, NEW r, Fits(r), Handle(r), r.next # 0, r.within
    PROVE  Stack' /\ Root /\ Onward
  <1>2. Pushed /\ Results(r) /\ UNCHANGED <<text, ext, defs>> /\ Parse /\ outcome = "parsing"
    BY HandlePushes DEF Handle, Ready
  <1>5. Len(nodes) \in Nat
    BY <1>2 DEF Parse
  <1>7. PICK K \in Calls : /\ Opens(K) /\ K.end = K.i /\ K.consumed = K.i /\ K.next = r.next
                          /\ Top.i < K.i /\ Top.i < K.stop
    BY WithinOpens
  <1>9. K.i \in Nat /\ K.end \in Nat
    BY CallIs
  <1>10. Opens(K)
    BY <1>7
  <1>11. frames' \in Seq(Calls) /\ frames' # <<>> /\ Top' = K
    BY <1>2, <1>10, OpenIs
  <1>12. CallsTyped' /\ CallsNested'
    BY <1>2, <1>10, OpenTyped
  <1>13. Passed'
    <2>1. NodesTyped'
      BY <1>2, PushTyped
    <2>2. ASSUME NEW n \in Len(nodes) + 1..Len(nodes')
          PROVE  nodes'[n].to <= K.next
      <3>1. n \in 1..Len(nodes') /\ n \notin 1..Len(nodes)
        BY <1>5
      <3>2. PICK k \in 1..Len(r.nodes) : Puts(n, r.nodes[k])
        BY <1>2, <3>1, ResultAt
      <3>3. r.nodes[k].to <= r.next
        BY FitsNodes
      <3> QED BY <1>7, <1>9, <3>2, <3>3 DEF Puts
    <2> QED BY <1>2, <1>10, <2>1, <2>2, OpenPassed
  <1>14. Copied' /\ Tried'
    <2>1. K.consumed = K.i /\ ~(K.end = K.i + 1)
      BY <1>7, <1>9
    <2> QED BY <1>2, <1>11, <2>1, CopiedAnew
  <1>15. Root
    <2>1. 1 \in 1..Len(frames)
      BY <1>2, TopIs
    <2> QED BY <1>2, <1>10, <2>1, OpenIs DEF Root
  <1>16. Onward
    <2>1. K.end \in Nat /\ K.stop \in Nat /\ Top.i < K.end /\ Top.i < K.stop
      BY <1>7, CallIs
    <2> QED BY <1>11, <2>1, Farther
  <1> QED BY <1>11, <1>12, <1>13, <1>14, <1>15, <1>16 DEF Stack

LEMMA HandleKeeps ==
    ASSUME Ready, NEW r, Fits(r), Handle(r),
           (r.next = 0 /\ Top.i + 1 < Top.stop /\ text[Top.i] = "!" /\ text[Top.i + 1] = "[")
               => LinkNext(Top.i + 1, Top.stop) = 0
    PROVE  Parse' /\ Goes
  <1>1. Stack' /\ Root /\ Onward
    BY HandleNothing, HandleOver, HandleWithin
  <1>2. Pushed /\ UNCHANGED text /\ Parse /\ outcome = "parsing"
    BY HandlePushes DEF Handle, Ready
  <1>3. NodesTyped' /\ SpansNested' /\ Ordered' /\ nodes' \in Seq(NodeTypes)
    BY <1>2, PushTyped, PushNested, PushOrdered DEF Pushed
  <1> QED BY <1>1, <1>2, <1>3 DEF Stack, Parse, Goes

-----------------------------------------------------------------------------
(* CopyText *)

LEMMA TextIs ==
    ASSUME NEW from \in Int, NEW to \in Int
    PROVE  /\ Text(from, to) \in NodeTypes /\ Text(from, to).type = "NORMAL_TEXT"
           /\ Text(from, to).from = from /\ Text(from, to).to = to
           /\ Text(from, to).a = from /\ Text(from, to).b = to
  BY DEF Text, Node, NodeTypes, Names

\* Where the text ends.
TextEnd == Until(text, Top.end, Top.stop, Special)

LEMMA TextEndIs ==
    ASSUME Parse, outcome = "parsing", TextEnd > Top.i
    PROVE  /\ TextEnd \in Nat /\ Top.i < TextEnd /\ Top.end <= TextEnd /\ TextEnd <= Top.stop
           /\ \A q \in Top.end..TextEnd - 1 : text[q] \notin Special
           /\ Top.end = Top.i \/ (Top.end = Top.i + 1 /\ Top.i < Top.stop)
  <1> DEFINE e == TextEnd
  <1>1. /\ Top.i \in Nat /\ Top.end \in Nat /\ Top.stop \in Nat
        /\ Top.end = Top.i \/ (Top.end = Top.i + 1 /\ Top.i < Top.stop)
    BY TopIs DEF CallTyped
  <1>2. /\ e \in Int /\ Top.end <= e /\ (Top.end <= Top.stop => e <= Top.stop)
        /\ Top.end >= Top.stop => e = Top.end
        /\ \A q \in Top.end..e - 1 : text[q] \notin Special
    <2>1. Top.end \in Int /\ Top.stop \in Int
      BY <1>1
    <2> QED BY <2>1, UntilFinds DEF TextEnd
  <1> HIDE DEF Top
  <1> QED BY <1>1, <1>2

\* The text that is pushed.
Copies(n) ==
    /\ nodes' \in Seq(NodeTypes) /\ Len(nodes') = Len(nodes) + 1 /\ n = Len(nodes) + 1
    /\ \A m \in 1..Len(nodes) : nodes'[m] = nodes[m]
    /\ nodes'[n].up = Top.node /\ nodes'[n].type = "NORMAL_TEXT"
    /\ nodes'[n].from = Top.i /\ nodes'[n].to = TextEnd
    /\ nodes'[n].a = Top.i /\ nodes'[n].b = TextEnd

LEMMA CopyTextIs ==
    ASSUME Parse, CopyText
    PROVE  \E n \in Nat : Copies(n)
  <1> DEFINE x == Text(Top.i, TextEnd)
             y == InTop(x)
  <1>1. outcome = "parsing" /\ TextEnd > Top.i /\ nodes' = Append(nodes, y)
    BY DEF CopyText, TextEnd
  <1>2. Top.i \in Int /\ Top.node \in Nat /\ TextEnd \in Int
    BY <1>1, TopIs, TextEndIs
  <1>3. /\ x \in NodeTypes /\ x.type = "NORMAL_TEXT" /\ x.from = Top.i /\ x.to = TextEnd
        /\ x.a = Top.i /\ x.b = TextEnd
    BY <1>2, TextIs
  <1> HIDE DEF x
  <1>4. /\ y \in NodeTypes /\ y.up = Top.node /\ y.type = x.type /\ y.from = x.from
        /\ y.to = x.to /\ y.a = x.a /\ y.b = x.b
    BY <1>2, <1>3, InTopIs
  <1> HIDE DEF y
  <1>5. nodes \in Seq(NodeTypes) /\ Len(nodes) \in Nat
    BY DEF Parse
  <1>6. /\ nodes' \in Seq(NodeTypes) /\ Len(nodes') = Len(nodes) + 1
        /\ \A m \in 1..Len(nodes) : nodes'[m] = nodes[m]
        /\ nodes'[Len(nodes) + 1] = y
    BY <1>1, <1>4, <1>5, AppendProperties
  <1>7. Copies(Len(nodes) + 1)
    BY <1>3, <1>4, <1>6 DEF Copies
  <1> QED BY <1>5, <1>7

LEMMA CopyTextPushes ==
    ASSUME Parse, CopyText, NEW n \in Nat, Copies(n)
    PROVE  Pushed
  <1>1. outcome = "parsing" /\ TextEnd > Top.i /\ text' = text
    BY DEF CopyText, TextEnd
  <1>2. /\ Top.i \in Nat /\ Top.consumed \in Nat /\ Top.consumed <= Top.i /\ Top.node \in Nat
        /\ TextEnd \in Nat /\ Top.i < TextEnd /\ TextEnd <= Top.stop
        /\ Len(frames) \in DOMAIN frames /\ Top = frames[Len(frames)]
    BY <1>1, TopIs, TextEndIs
  <1>3. nodes \in Seq(NodeTypes) /\ Len(nodes) \in Nat /\ DOMAIN nodes = 1..Len(nodes)
    BY DEF Parse
  <1>4. ASSUME NEW m \in 1..Len(nodes)
        PROVE  Kept(m)
    <2>1. nodes[m].to \in Int
      BY <1>3, NodeIs
    <2>2. nodes'[m] = nodes[m]
      BY DEF Copies
    <2> QED BY <2>1, <2>2 DEF Kept
  <1>5. ASSUME NEW m \in 1..n - 1, nodes'[m].up = Top.node
        PROVE  InOrder(m, n)'
    <2>1. m \in 1..Len(nodes) /\ nodes'[m] = nodes[m]
      BY <1>3 DEF Copies
    <2>2. \/ nodes[m].to <= Top.i
          \/ MarkAt(m, Top.i)
      <3>1. Reach(Len(frames)) = Top.i
        BY <1>2 DEF Reach
      <3>2. m \in DOMAIN nodes /\ nodes[m].up = frames[Len(frames)].node
        BY <1>2, <1>3, <1>5, <2>1
      <3>3. Passed
        BY DEF Parse
      <3> HIDE DEF Top
      <3> QED BY <1>1, <1>2, <3>1, <3>2, <3>3 DEF Passed
    <2>3. CASE nodes[m].to <= Top.i
      <3>1. nodes'[m].to <= nodes'[n].from
        BY <2>1, <2>3 DEF Copies
      <3> QED BY <3>1 DEF InOrder
    <2>4. CASE MarkAt(m, Top.i)
      <3>1. /\ nodes[m].type = "NORMAL_TEXT" /\ nodes[m].from = Top.i /\ nodes[m].to = Top.i + 1
            /\ text[Top.i] = "!"
        BY <2>4 DEF MarkAt
      <3>2. nodes'[n].type = "NORMAL_TEXT" /\ nodes'[n].from = Top.i
        BY DEF Copies
      <3>3. MarkAgain(m, n)'
        BY <1>1, <2>1, <3>1, <3>2 DEF MarkAgain
      <3>4. nodes'[m].to <= nodes'[n].from + 1
        BY <1>2, <2>1, <3>1, <3>2
      <3> QED BY <3>3, <3>4 DEF InOrder
    <2> QED BY <2>2, <2>3, <2>4
  <1>6. New(n)
    BY <1>2, <1>5 DEF New, Copies
  <1>7. /\ nodes' \in Seq(NodeTypes) /\ Len(nodes') = Len(nodes) + 1 /\ n = Len(nodes) + 1
    BY DEF Copies
  <1>8. \A k \in Len(nodes) + 1..Len(nodes') : k = n
    BY <1>3, <1>7
  <1> QED BY <1>3, <1>4, <1>6, <1>7, <1>8 DEF Pushed

\* The last call behind the text.
Behind(f, p) == [[f EXCEPT !.i = p] EXCEPT !.end = p]

LEMMA BehindKeeps ==
    ASSUME NEW f \in Calls, NEW p \in Nat
    PROVE  /\ Behind(f, p) \in Calls
           /\ Behind(f, p).i = p /\ Behind(f, p).end = p /\ Behind(f, p).consumed = f.consumed
           /\ Behind(f, p).node = f.node /\ Behind(f, p).stop = f.stop /\ Behind(f, p).next = f.next
  BY DEF Calls, Behind

LEMMA CopyTextReplaces ==
    ASSUME Parse, CopyText
    PROVE  \E g \in Calls : /\ Replaces(g) /\ g.i = TextEnd /\ g.end = TextEnd
                            /\ g.consumed = Top.consumed
  <1> DEFINE g == Behind(Top, TextEnd)
             L == Len(frames)
  <1>1. outcome = "parsing" /\ TextEnd > Top.i
        /\ frames' = [frames EXCEPT ![L].i = TextEnd, ![L].end = TextEnd]
    BY DEF CopyText, TextEnd
  <1>2. /\ Top \in Calls /\ Top.i \in Nat /\ Top.consumed \in Nat /\ Top.consumed <= Top.i
        /\ TextEnd \in Nat /\ Top.i < TextEnd /\ L \in DOMAIN frames /\ Top = frames[L]
    BY <1>1, TopIs, TextEndIs
  <1>3. frames' = [frames EXCEPT ![L] = g]
    BY <1>1, <1>2 DEF Behind, Calls
  <1>4. /\ g \in Calls /\ g.i = TextEnd /\ g.end = TextEnd /\ g.consumed = Top.consumed
        /\ g.node = Top.node /\ g.stop = Top.stop /\ g.next = Top.next
    BY <1>2, BehindKeeps, ZenonT(30)
  <1> HIDE DEF g
  <1>5. Replaces(g)
    BY <1>2, <1>3, <1>4 DEF Replaces
  <1> QED BY <1>4, <1>5

LEMMA CopyTextLast ==
    ASSUME Parse, CopyText, NEW n \in Nat, Copies(n), NEW g \in Calls, Replaces(g)
    PROVE  LastChild' = n
  <1> DEFINE P == {m \in DOMAIN nodes' : nodes'[m].up = g.node}
  <1>1. nodes' \in Seq(NodeTypes) /\ Len(nodes') = n /\ nodes'[n].up = g.node
    BY DEF Copies, Replaces, Parse
  <1>2. DOMAIN nodes' = 1..n /\ n \in 1..n
    <2>1. Len(nodes) \in Nat /\ n = Len(nodes) + 1
      BY DEF Parse, Copies
    <2> QED BY <1>1, <2>1
  <1>3. P \subseteq Int /\ n \in P /\ \A m \in P : m <= n
    BY <1>1, <1>2
  <1>4. LastChild' = IF P = {} THEN 0 ELSE Max(P)
    <2>1. Top' = g
      BY ReplaceIs DEF CopyText
    <2> QED BY <2>1 DEF LastChild
  <1> HIDE DEF P
  <1>5. Max(P) \in P /\ \A m \in P : m <= Max(P)
    BY <1>3, MaxOf
  <1>6. Max(P) \in Int /\ Max(P) <= n /\ n <= Max(P)
    BY <1>3, <1>5
  <1> QED BY <1>3, <1>4, <1>6

LEMMA CopyTextCopied ==
    ASSUME Parse, CopyText
    PROVE  Copied' /\ Tried'
  <1> DEFINE i == Top.i
             e == TextEnd
  <1>1. PICK n \in Nat : Copies(n)
    BY CopyTextIs
  <1>2. PICK g \in Calls : Replaces(g) /\ g.i = e /\ g.end = e /\ g.consumed = Top.consumed
    BY CopyTextReplaces
  <1>3. outcome = "parsing" /\ e > i /\ UNCHANGED <<text, ext, defs>>
    BY DEF CopyText, TextEnd
  <1>4. /\ i \in Nat /\ e \in Nat /\ i < e /\ e <= Top.stop /\ Top.consumed \in Nat
        /\ Top.consumed <= i /\ Top.end \in Nat /\ Top.stop \in Nat
        /\ Top.end = i \/ (Top.end = i + 1 /\ i < Top.stop)
        /\ \A q \in Top.end..e - 1 : text[q] \notin Special
    BY <1>3, TopIs, TextEndIs
  <1>5. Top' = g
    BY <1>2, <1>3, ReplaceIs
  <1>6. LastChild' = n
    BY <1>1, <1>2, CopyTextLast
  <1>7. \A q \in i + 1..e - 1 : text[q] \notin Special
    <2>1. \A q \in i + 1..e - 1 : q \in Top.end..e - 1
      BY <1>4
    <2> QED BY <1>4, <2>1
  <1>8. Special' = Special /\ text' = text
    BY <1>3 DEF Special
  <1> HIDE DEF i, e
  <1>9. Copied'
    <2>1. /\ nodes'[n].type = "NORMAL_TEXT" /\ nodes'[n].from = i /\ nodes'[n].to = e
          /\ nodes'[n].a = i /\ nodes'[n].b = e /\ n # 0
      <3>1. n = Len(nodes) + 1 /\ Len(nodes) \in Nat
        BY <1>1 DEF Copies, Parse
      <3> QED BY <1>1, <3>1 DEF Copies, i, e
    <2>2. TextBefore(n)'
      BY <1>2, <1>4, <1>5, <1>7, <1>8, <2>1 DEF TextBefore
    <2>3. TextBefore(LastChild)'
      BY <1>6, <2>2 DEF TextBefore
    <2> QED BY <2>3 DEF Copied
  <1>10. TriedAt(g)'
    <2>1. ~(g.end = g.i + 1)
      BY <1>2, <1>4
    <2>2. ASSUME g.i < g.stop, text[g.i] = "[", text[g.i - 1] = "!"
          PROVE  LinkNext(g.i, g.stop) = 0
      <3>1. e < Top.stop /\ text[e] = "[" /\ text[e - 1] = "!"
        BY <1>2, <2>2 DEF Replaces
      <3>2. "!" \in Special
        BY DEF Special
      <3>3. e - 1 \notin Top.end..e - 1
        BY <1>4, <3>1, <3>2
      <3>4. e = i + 1 /\ Top.end = i + 1
        BY <1>4, <3>3
      <3>5. text[i] = "!"
        BY <1>4, <3>1, <3>4
      <3>6. TriedAt(Top)
        BY <1>3 DEF Parse, Tried
      <3>7. LinkNext(Top.end, Top.stop) = 0
        BY <3>1, <3>4, <3>5, <3>6 DEF TriedAt, i
      <3> QED BY <1>2, <3>4, <3>7 DEF Replaces
    <2>3. LinkNext(g.i, g.stop)' = LinkNext(g.i, g.stop)
      BY <1>3, LinkNextStays
    <2> QED BY <1>8, <2>1, <2>2, <2>3 DEF TriedAt
  <1>11. Tried'
    BY <1>5, <1>10 DEF Tried
  <1> QED BY <1>9, <1>11

LEMMA CopyTextPassed ==
    ASSUME Parse, CopyText
    PROVE  Passed'
  <1> DEFINE i == Top.i
             e == TextEnd
             L == Len(frames)
  <1>1. PICK n \in Nat : Copies(n)
    BY CopyTextIs
  <1>2. PICK g \in Calls : Replaces(g) /\ g.i = e /\ g.end = e /\ g.consumed = Top.consumed
    BY CopyTextReplaces
  <1>3. outcome = "parsing" /\ e > i
    BY DEF CopyText, TextEnd
  <1>4. i \in Nat /\ e \in Nat /\ i < e /\ L \in DOMAIN frames /\ Top = frames[L]
    BY <1>3, TopIs, TextEndIs
  <1>5. Pushed
    BY <1>1, CopyTextPushes
  <1>6. nodes \in Seq(NodeTypes) /\ Len(nodes) \in Nat /\ DOMAIN nodes = 1..Len(nodes)
    BY DEF Parse
  <1> SUFFICES ASSUME NEW m \in 1..Len(nodes'), nodes'[m].up = g.node
               PROVE  nodes'[m].to <= g.i
    BY <1>2, <1>3, <1>5, ReplacePassed
  <1>7. g.node = Top.node
    BY <1>2 DEF Replaces
  <1> HIDE DEF e
  <1>8. CASE m = n
    BY <1>1, <1>2, <1>4, <1>8 DEF Copies, e
  <1>9. CASE m # n
    <2>1. m \in 1..Len(nodes) /\ nodes'[m] = nodes[m] /\ nodes[m].to \in Int
      <3>1. Len(nodes') = Len(nodes) + 1 /\ n = Len(nodes) + 1
        BY <1>1 DEF Copies
      <3>2. m \in 1..Len(nodes)
        BY <1>6, <1>9, <3>1
      <3>3. nodes[m] \in NodeTypes
        BY <1>6, <3>2
      <3> QED BY <1>1, <3>2, <3>3, NodeIs DEF Copies
    <2>2. nodes[m].to <= i \/ MarkAt(m, i)
      <3>1. Reach(L) = i
        BY <1>4 DEF Reach
      <3>2. m \in DOMAIN nodes /\ nodes[m].up = frames[L].node
        BY <1>4, <1>6, <1>7, <2>1
      <3>3. Passed
        BY DEF Parse
      <3> QED BY <1>3, <1>4, <3>1, <3>2, <3>3 DEF Passed
    <2> QED BY <1>2, <1>4, <2>1, <2>2 DEF MarkAt
  <1> QED BY <1>8, <1>9

LEMMA CopyTextOnward ==
    ASSUME Parse, CopyText
    PROVE  Onward
  <1> DEFINE e == TextEnd
  <1>1. PICK g \in Calls : Replaces(g) /\ g.i = e /\ g.end = e
    BY CopyTextReplaces
  <1>2. outcome = "parsing" /\ e > Top.i
    BY DEF CopyText, TextEnd
  <1>3. /\ e \in Nat /\ Top.i < e /\ Top.end <= e /\ e <= Top.stop /\ Top.i \in Nat
        /\ Top.end \in Nat /\ Top.stop \in Nat
    BY <1>2, TopIs, TextEndIs
  <1>4. Top' = g /\ g.stop = Top.stop
    BY <1>1, <1>2, ReplaceIs DEF Replaces
  <1> HIDE DEF e
  <1>5. Reached = Top.end
    <2>1. Top.end \in Int /\ Top.stop \in Int
      BY <1>3
    <2>2. /\ Min({Top.end, Top.stop}) \in {Top.end, Top.stop}
          /\ Min({Top.end, Top.stop}) <= Top.end /\ Min({Top.end, Top.stop}) <= Top.stop
      BY <2>1, MinOf2
    <2> QED BY <1>3, <2>2 DEF Reached
  <1>6. Reached' = e
    <2>1. g.end \in Int /\ g.stop \in Int
      BY <1>1, CallIs
    <2>2. /\ Min({g.end, g.stop}) \in {g.end, g.stop}
          /\ Min({g.end, g.stop}) <= g.end /\ Min({g.end, g.stop}) <= g.stop
      BY <2>1, MinOf2
    <2>3. Reached' = Min({g.end, g.stop})
      BY <1>4 DEF Reached
    <2> QED BY <1>1, <1>3, <1>4, <2>1, <2>2, <2>3
  <1>7. Top'.i > Top.i
    BY <1>1, <1>3, <1>4
  <1> HIDE DEF Top
  <1>8. Reached' > Reached \/ Reached' = Reached
    BY <1>3, <1>5, <1>6
  <1> QED BY <1>7, <1>8 DEF Onward

LEMMA CopyTextKeeps ==
    ASSUME Parse, CopyText
    PROVE  Parse' /\ Goes
  <1>1. PICK n \in Nat : Copies(n)
    BY CopyTextIs
  <1>2. PICK g \in Calls : Replaces(g)
    BY CopyTextReplaces
  <1>3. outcome = "parsing" /\ Pushed /\ UNCHANGED text
    BY <1>1, CopyTextPushes DEF CopyText
  <1>4. frames' \in Seq(Calls) /\ frames' # <<>>
    BY <1>2, <1>3, ReplaceIs
  <1>5. CallsTyped' /\ CallsNested'
    BY <1>2, <1>3, ReplaceTyped
  <1>6. NodesTyped' /\ SpansNested' /\ Ordered' /\ nodes' \in Seq(NodeTypes)
    BY <1>3, PushTyped, PushNested, PushOrdered DEF Pushed
  <1>7. Passed' /\ Copied' /\ Tried'
    BY CopyTextPassed, CopyTextCopied
  <1>8. Goes
    BY <1>2, <1>3, ReplaceRoot, CopyTextOnward DEF Goes
  <1> QED BY <1>4, <1>5, <1>6, <1>7, <1>8 DEF Parse

-----------------------------------------------------------------------------
(* Steps that push nothing *)

LEMMA NodesStay ==
    ASSUME Parse, UNCHANGED <<text, nodes>>
    PROVE  /\ nodes' \in Seq(NodeTypes) /\ NodesTyped' /\ SpansNested' /\ Ordered'
           /\ \A f : CallTyped(f)' <=> CallTyped(f)
           /\ \A m, p : MarkAt(m, p)' <=> MarkAt(m, p)
  <1>1. nodes' = nodes /\ text' = text
    OBVIOUS
  <1>2. nodes' \in Seq(NodeTypes)
    BY <1>1 DEF Parse
  <1>3. NodesTyped'
    BY <1>1 DEF Parse, NodesTyped
  <1>4. \A n : IsSpan(n)' <=> IsSpan(n)
    BY <1>1 DEF IsSpan
  <1>5. SpansNested'
    BY <1>1 DEF Parse, SpansNested
  <1>6. \A m, n : (Emptied(m, n)' <=> Emptied(m, n)) /\ (MarkAgain(m, n)' <=> MarkAgain(m, n))
    BY <1>1 DEF Emptied, MarkAgain
  <1>7. \A m, n : InOrder(m, n)' <=> InOrder(m, n)
    BY <1>1, <1>6 DEF InOrder
  <1>8. Ordered'
    BY <1>1, <1>7 DEF Parse, Ordered
  <1>9. \A f : BeginOf(f)' = BeginOf(f)
    BY <1>1 DEF BeginOf
  <1>10. \A f : CallTyped(f)' <=> CallTyped(f)
    BY <1>1, <1>9 DEF CallTyped
  <1>11. \A m, p : MarkAt(m, p)' <=> MarkAt(m, p)
    BY <1>1 DEF MarkAt
  <1> QED BY <1>2, <1>3, <1>5, <1>8, <1>10, <1>11

LEMMA CallsStay ==
    ASSUME Parse, UNCHANGED <<text, nodes, frames>>
    PROVE  frames' \in Seq(Calls) /\ CallsTyped' /\ CallsNested'
  <1>1. frames' = frames /\ nodes' = nodes
    OBVIOUS
  <1>2. frames \in Seq(Calls) /\ \A k \in DOMAIN frames : CallTyped(frames[k])
    BY DEF Parse, CallsTyped
  <1>3. CallsTyped'
    <2> SUFFICES ASSUME NEW k \in 1..Len(frames')
                 PROVE  \E f \in Calls : f = frames'[k] /\ CallTyped(f)'
      BY <1>1, <1>2, StackTyped
    <2>1. PICK f \in Calls : f = frames[k] /\ CallTyped(f)
      BY <1>1, <1>2
    <2> QED BY <1>1, <2>1, NodesStay
  <1>4. CallsNested'
    BY <1>1 DEF Parse, CallsNested
  <1> QED BY <1>1, <1>2, <1>3, <1>4

LEMMA EndKeeps ==
    ASSUME Parse, UNCHANGED <<text, nodes, frames>>, outcome' # "parsing"
    PROVE  Parse'
  <1>1. Passed' /\ Copied' /\ Tried'
    BY DEF Passed, Copied, Tried
  <1> QED BY <1>1, NodesStay, CallsStay DEF Parse

LEMMA StutterKeeps ==
    ASSUME Parse, UNCHANGED <<text, ext, defs, nodes, frames, outcome>>
    PROVE  Parse'
  <1>1. CASE outcome # "parsing"
    BY <1>1, EndKeeps
  <1>2. CASE outcome = "parsing"
    <2>1. nodes' = nodes /\ text' = text /\ frames' = frames /\ outcome' = outcome
      OBVIOUS
    <2>2. Top' = Top /\ Special' = Special
      BY DEF Top, Special
    <2>3. LastChild' = LastChild
      BY <2>1, <2>2 DEF LastChild
    <2>4. \A l : TextBefore(l)' <=> TextBefore(l)
      BY <2>1, <2>2 DEF TextBefore
    <2>5. Copied'
      <3>1. TextBefore(LastChild)' <=> TextBefore(LastChild)
        BY <2>1, <2>2, <2>3 DEF TextBefore
      <3> HIDE DEF Top
      <3> QED BY <1>2, <2>1, <2>2, <3>1 DEF Parse, Copied
    <2>6. \A k : Reach(k)' = Reach(k)
      BY <2>1 DEF Reach
    <2>7. Passed'
      <3>1. \A m : MarkAt(m, Top.i)' <=> MarkAt(m, Top.i)
        BY <2>1, <2>2 DEF MarkAt
      <3> HIDE DEF Top
      <3> QED BY <2>1, <2>2, <2>6, <3>1 DEF Parse, Passed
    <2>8. Tried'
      <3>1. PICK f : f = Top
        OBVIOUS
      <3>2. TriedAt(f)
        BY <1>2, <3>1 DEF Parse, Tried
      <3>3. LinkNext(f.end, f.stop)' = LinkNext(f.end, f.stop)
            /\ LinkNext(f.i, f.stop)' = LinkNext(f.i, f.stop)
        BY LinkNextStays
      <3>4. TriedAt(f)'
        BY <2>1, <3>2, <3>3 DEF TriedAt
      <3> QED BY <2>2, <3>1, <3>4 DEF Tried
    <2>9. frames' # <<>>
      BY <1>2, <2>1 DEF Parse
    <2> QED BY <2>5, <2>7, <2>8, <2>9, NodesStay, CallsStay DEF Parse
  <1> QED BY <1>1, <1>2

-----------------------------------------------------------------------------
(* Return *)

LEMMA ReturnIs ==
    ASSUME Parse, Return, Len(frames) # 1
    PROVE  \E L \in Nat : \E g \in Calls :
              /\ L = Len(frames) - 1 /\ L > 0 /\ L \in DOMAIN frames
              /\ frames' \in Seq(Calls) /\ Len(frames') = L /\ frames'[L] = g /\ Top' = g
              /\ \A k \in 1..L : k # L => frames'[k] = frames[k]
              /\ g.i = Top.next /\ g.end = Top.next /\ g.consumed = Top.next
              /\ g.node = frames[L].node /\ g.stop = frames[L].stop /\ g.next = frames[L].next
  <1>1. PICK L \in Nat : L = Len(frames) - 1 /\ L > 0 /\ L \in DOMAIN frames
    <2>1. Len(frames) \in Nat \ {0} /\ frames \in Seq(Calls)
      BY TopIs DEF Return, Parse
    <2>2. Len(frames) - 1 \in Nat /\ Len(frames) - 1 > 0 /\ Len(frames) - 1 \in DOMAIN frames
      <3>1. PICK M \in Nat \ {0} : M = Len(frames) /\ DOMAIN frames = 1..M
        BY <2>1
      <3>2. M - 1 \in Nat /\ M - 1 > 0 /\ M - 1 \in 1..M
        BY <3>1
      <3> QED BY <3>1, <3>2
    <2> QED BY <2>2
  <1> DEFINE stack == SubSeq(frames, 1, L)
             f == frames[L]
             g == Moved(f, Top.next)
  <1>2. Top.next \in Nat /\ frames \in Seq(Calls) /\ f \in Calls
    BY <1>1, TopIs DEF Return, Parse
  <1>3. stack \in Seq(Calls) /\ Len(stack) = L /\ \A k \in 1..L : stack[k] = frames[k]
    <2>1. \A k \in 1..L : frames[k] \in Calls
      BY <1>1, <1>2
    <2>2. /\ SubSeq(frames, 1, L) \in Seq(Calls)
          /\ Len(SubSeq(frames, 1, L)) = IF 1 <= L THEN L - 1 + 1 ELSE 0
          /\ \A k \in 1..L - 1 + 1 : SubSeq(frames, 1, L)[k] = frames[1 + k - 1]
      BY ONLY <2>1, L \in Nat, SubSeqProperties
    <2> QED BY <1>1, <2>2
  <1>4. frames' = GoOn(stack, Top.next)
    BY <1>1 DEF Return
  <1> HIDE DEF stack
  <1>5. frames' = [stack EXCEPT ![L] = g]
    <2>1. PICK p \in Nat : p = Top.next
      BY <1>2
    <2>2. GoOn(stack, p) = [stack EXCEPT ![Len(stack)] = Moved(stack[Len(stack)], p)]
      <3>1. stack \in Seq(Calls) /\ Len(stack) # 0
        BY <1>1, <1>3
      <3> QED BY <3>1, GoOnIs
    <2>3. stack[L] = f
      BY <1>1, <1>3
    <2> QED BY <1>3, <1>4, <2>1, <2>2, <2>3
  <1>6. /\ g \in Calls /\ g.i = Top.next /\ g.end = Top.next /\ g.consumed = Top.next
        /\ g.node = f.node /\ g.stop = f.stop /\ g.next = f.next
    BY <1>2, MovedIs
  <1> HIDE DEF g
  <1>7. /\ frames' \in Seq(Calls) /\ Len(frames') = L
        /\ \A k \in 1..L : frames'[k] = IF k = L THEN g ELSE stack[k]
    BY <1>1, <1>3, <1>5, <1>6, ExceptSeq
  <1>8. frames'[L] = g
    BY <1>1, <1>7
  <1>9. Top' = g
    BY <1>7, <1>8 DEF Top
  <1> QED BY <1>1, <1>3, <1>6, <1>7, <1>8, <1>9

LEMMA ReturnStack ==
    ASSUME Parse, Return, Len(frames) # 1
    PROVE  Stack'
  <1>1. PICK L \in Nat, g \in Calls :
              /\ L = Len(frames) - 1 /\ L > 0 /\ L \in DOMAIN frames
              /\ frames' \in Seq(Calls) /\ Len(frames') = L /\ frames'[L] = g /\ Top' = g
              /\ \A k \in 1..L : k # L => frames'[k] = frames[k]
              /\ g.i = Top.next /\ g.end = Top.next /\ g.consumed = Top.next
              /\ g.node = frames[L].node /\ g.stop = frames[L].stop /\ g.next = frames[L].next
    BY ReturnIs
  <1>2. /\ outcome = "parsing" /\ UNCHANGED <<text, ext, defs>> /\ UNCHANGED <<text, nodes>>
        /\ nodes' = nodes
    BY DEF Return
  <1>3. /\ frames \in Seq(Calls) /\ Len(frames) = L + 1 /\ DOMAIN frames = 1..L + 1
        /\ Top = frames[L + 1] /\ DOMAIN frames' = 1..L /\ L + 1 \in 2..Len(frames)
    BY <1>1, <1>2, TopIs DEF Parse
  <1>4. frames[L].i < Top.next /\ frames[L] \in Calls /\ CallTyped(frames[L]) /\ Top \in Calls
    <2>1. frames[L].i < frames[L + 1].next
      <3>1. (L + 1) - 1 = L
        BY <1>3
      <3> QED BY <1>3, <3>1 DEF Parse, CallsNested
    <2>2. frames[L] \in Calls /\ CallTyped(frames[L]) /\ frames[L + 1] \in Calls
      BY <1>1, <1>3 DEF Parse, CallsTyped
    <2> QED BY <1>3, <2>1, <2>2
  <1>5. Top.next \in Nat
    BY <1>4, CallIs
  <1> HIDE DEF Top
  <1>6. frames' # <<>>
    BY <1>1
  <1>7. CallTyped(g)
    <2>1. PICK f \in Calls : f = frames[L]
      BY <1>4
    <2>2. BeginOf(g) = BeginOf(f)
      BY <1>1, <2>1 DEF BeginOf
    <2>3. f.i \in Nat /\ f.consumed \in Nat
      BY CallIs
    <2>4. BeginOf(f) \in Int
      <3>1. f.node # 0 => f.node \in 1..Len(nodes)
        <4>1. f.node \in Nat /\ f.node <= Len(nodes) /\ Len(nodes) \in Nat
          BY <1>4, <2>1, CallIs DEF CallTyped, Parse
        <4> QED BY <4>1
      <3>2. f.node # 0 => nodes[f.node] \in NodeTypes
        BY <3>1, UpIs
      <3> QED BY <3>2, NodeIs DEF BeginOf
    <2>5. /\ f.node <= Len(nodes)
          /\ f.node # 0 => nodes[f.node].type # "NORMAL_TEXT" /\ nodes[f.node].b = f.stop
          /\ 1 <= BeginOf(f) /\ BeginOf(f) <= f.consumed /\ f.consumed <= f.i
      BY <1>4, <2>1 DEF CallTyped
    <2>6. BeginOf(f) <= Top.next
      BY <1>4, <1>5, <2>1, <2>3, <2>4, <2>5
    <2> QED BY <1>1, <1>5, <2>1, <2>2, <2>5, <2>6 DEF CallTyped
  <1>8. CallsTyped'
    <2> SUFFICES ASSUME NEW k \in 1..L
                 PROVE  \E f \in Calls : f = frames'[k] /\ CallTyped(f)'
      BY <1>1, StackTyped
    <2>1. PICK f \in Calls : f = frames'[k] /\ CallTyped(f)
      <3>1. CASE k = L
        BY <1>1, <1>7, <3>1
      <3>2. CASE k # L
        <4>1. k \in DOMAIN frames /\ frames'[k] = frames[k]
          BY <1>1, <1>3, <3>2
        <4>2. frames[k] \in Calls
          BY <1>3, <4>1
        <4>3. CallTyped(frames[k])
          BY <4>1 DEF Parse, CallsTyped
        <4> QED BY <4>1, <4>2, <4>3
      <3> QED BY <3>1, <3>2
    <2> QED BY <1>2, <2>1, NodesStay
  <1>9. CallsNested'
    <2> SUFFICES ASSUME NEW k \in 2..L
                 PROVE  /\ \A j \in 1..k - 1 : frames'[j].node < frames'[k].node
                        /\ nodes'[frames'[k].node].up = frames'[k - 1].node
                        /\ frames'[k].stop <= frames'[k - 1].stop
                        /\ frames'[k].stop <= frames'[k].next
                        /\ frames'[k - 1].i < frames'[k].next
      BY <1>1 DEF CallsNested
    <2>1. k \in 1..L /\ k - 1 \in 1..L /\ k - 1 # L /\ k \in 2..Len(frames)
          /\ \A j \in 1..k - 1 : j \in 1..L /\ j # L
      BY <1>1, <1>3
    <2>2. /\ \A j \in 1..k - 1 : frames[j].node < frames[k].node
          /\ nodes[frames[k].node].up = frames[k - 1].node
          /\ frames[k].stop <= frames[k - 1].stop
          /\ frames[k].stop <= frames[k].next
          /\ frames[k - 1].i < frames[k].next
      BY <2>1 DEF Parse, CallsNested
    <2>3. frames'[k - 1] = frames[k - 1] /\ \A j \in 1..k - 1 : frames'[j] = frames[j]
      BY <1>1, <2>1
    <2>4. /\ frames'[k].node = frames[k].node /\ frames'[k].stop = frames[k].stop
          /\ frames'[k].next = frames[k].next
      <3>1. CASE k = L
        BY <1>1, <3>1
      <3>2. CASE k # L
        BY <1>1, <2>1, <3>2
      <3> QED BY <3>1, <3>2
    <2> QED BY <1>2, <2>2, <2>3, <2>4
  <1>10. Passed'
    <2> SUFFICES ASSUME NEW k \in 1..L, NEW n \in DOMAIN nodes, nodes[n].up = frames'[k].node
                 PROVE  nodes[n].to <= Reach(k)'
      BY <1>2, <1>3 DEF Passed
    <2>1. k \in DOMAIN frames /\ k # Len(frames) /\ frames[k].node = frames'[k].node
      <3>1. CASE k = L
        BY <1>1, <1>3, <3>1
      <3>2. CASE k # L
        BY <1>1, <1>3, <3>2
      <3> QED BY <3>1, <3>2
    <2>2. nodes[n].to <= Reach(k)
      <3>1. Passed
        BY DEF Parse
      <3>2. nodes[n].up = frames[k].node
        BY <2>1
      <3> QED BY ONLY <1>2, <2>1, <3>1, <3>2, n \in DOMAIN nodes DEF Passed
    <2>3. Reach(k) = frames[k + 1].next
      BY <2>1 DEF Reach
    <2>4. CASE k = L
      <3>1. Reach(k)' = Top.next
        BY <1>1, <2>4 DEF Reach
      <3> QED BY <1>3, <2>2, <2>3, <2>4, <3>1
    <2>5. CASE k # L
      <3>1. k + 1 \in 1..L
        BY <1>1, <2>5
      <3>2. frames'[k + 1].next = frames[k + 1].next
        <4>1. CASE k + 1 = L
          BY <1>1, <4>1
        <4>2. CASE k + 1 # L
          BY <1>1, <3>1, <4>2
        <4> QED BY <4>1, <4>2
      <3>3. Reach(k)' = frames'[k + 1].next
        BY <1>1, <2>5 DEF Reach
      <3> QED BY <2>2, <2>3, <3>2, <3>3
    <2> QED BY <2>4, <2>5
  <1>11. Copied' /\ Tried'
    <2>1. g.consumed = g.i /\ ~(g.end = g.i + 1)
      BY <1>1, <1>5
    <2> QED BY <1>1, <1>2, <2>1, CopiedAnew
  <1> QED BY <1>1, <1>6, <1>8, <1>9, <1>10, <1>11 DEF Stack

LEMMA ReturnGoes ==
    ASSUME Parse, Return, Len(frames) # 1
    PROVE  Goes
  <1>1. PICK L \in Nat, g \in Calls :
              /\ L = Len(frames) - 1 /\ L > 0 /\ L \in DOMAIN frames
              /\ Len(frames') = L /\ frames'[L] = g /\ Top' = g
              /\ \A k \in 1..L : k # L => frames'[k] = frames[k]
              /\ g.end = Top.next
              /\ g.node = frames[L].node /\ g.stop = frames[L].stop
    BY ReturnIs
  <1>2. outcome = "parsing" /\ Top.i = Top.end /\ Top.i >= Top.stop /\ nodes' = nodes
    BY DEF Return
  <1>3. /\ Len(frames) = L + 1 /\ Top = frames[L + 1] /\ L + 1 \in 2..Len(frames)
        /\ Top.i \in Nat /\ Top.stop \in Nat /\ Top.next \in Nat
    BY <1>1, <1>2, TopIs DEF Parse
  <1>4. Top.stop <= frames[L].stop /\ Top.stop <= Top.next
    <2>1. (L + 1) - 1 = L
      BY <1>3
    <2> QED BY <1>3, <2>1 DEF Parse, CallsNested
  <1>5. Root
    <2>1. 1 \in 1..L
      BY <1>1
    <2> QED BY <1>1, <2>1 DEF Root
  <1>6. Reached = Top.stop
    <2>1. Top.end \in Int /\ Top.stop \in Int
      BY <1>2, <1>3
    <2>2. /\ Min({Top.end, Top.stop}) \in {Top.end, Top.stop}
          /\ Min({Top.end, Top.stop}) <= Top.end /\ Min({Top.end, Top.stop}) <= Top.stop
      BY <2>1, MinOf2
    <2> QED BY <1>2, <1>3, <2>2 DEF Reached
  <1>7. Reached' \in Int /\ Top.stop <= Reached'
    <2>1. g.end \in Int /\ g.stop \in Int
      BY CallIs
    <2>2. Min({g.end, g.stop}) \in {g.end, g.stop}
      BY <2>1, MinOf2
    <2>3. Reached' = Min({g.end, g.stop})
      BY <1>1 DEF Reached
    <2>4. Top.stop <= g.end /\ Top.stop <= g.stop
      BY <1>1, <1>4
    <2> QED BY <2>1, <2>2, <2>3, <2>4
  <1> HIDE DEF Top
  <1>8. Reached' > Reached \/ Reached' = Reached
    BY <1>3, <1>6, <1>7
  <1>9. Len(frames') < Len(frames)
    BY <1>1, <1>3
  <1> QED BY <1>2, <1>5, <1>8, <1>9 DEF Goes, Onward

LEMMA ReturnKeeps ==
    ASSUME Parse, Return
    PROVE  Parse' /\ Goes
  <1>1. CASE Len(frames) = 1
    <2>1. UNCHANGED <<text, nodes, frames>> /\ outcome' = "done" /\ outcome = "parsing"
      BY <1>1 DEF Return
    <2>2. Goes
      BY <2>1 DEF Goes, Root, Onward
    <2> QED BY <2>1, <2>2, EndKeeps
  <1>2. CASE Len(frames) # 1
    <2>1. UNCHANGED <<text, nodes>>
      BY DEF Return
    <2> QED BY <1>2, <2>1, ReturnStack, ReturnGoes, NodesStay DEF Stack, Parse
  <1> QED BY <1>1, <1>2

-----------------------------------------------------------------------------
(* Every step of parse_inline keeps the invariant *)

LEMMA AtReady ==
    ASSUME Parse, NEW chars, At(chars)
    PROVE  /\ Ready /\ text[Top.i] \in chars /\ Top.i \in Nat /\ Top.stop \in Nat
           /\ Top.i < Top.stop /\ Offset \in Nat
  <1>1. outcome = "parsing" /\ Top.i = Top.end /\ Top.i < Top.stop /\ text[Top.i] \in chars
    BY DEF At
  <1>2. Ready
    BY <1>1 DEF Ready
  <1>3. Top.i \in Nat /\ Top.stop \in Nat /\ Top.consumed \in Nat /\ Top.consumed <= Top.i
    BY <1>1, TopIs
  <1>4. Offset \in Nat
    BY <1>3 DEF Offset
  <1> QED BY <1>1, <1>2, <1>3, <1>4

\* The steps for characters that are no exclamation mark.
LEMMA StepKeeps ==
    ASSUME Parse, NEW chars, At(chars), "!" \notin chars, NEW r, Fits(r), Handle(r)
    PROVE  Parse' /\ Goes
  <1>1. Ready /\ text[Top.i] # "!"
    BY AtReady
  <1> QED BY <1>1, HandleKeeps

LEMMA EmphasisKeeps ==
    ASSUME Parse, Emphasis
    PROVE  Parse' /\ Goes
  <1> DEFINE C == {"*", "_", "~", "="}
  <1>1. PICK r : At(C) /\ r = CharEmphasis(Top.i, Top.stop, Offset) /\ Handle(r)
    BY DEF Emphasis, Do
  <1>2. "!" \notin C
    OBVIOUS
  <1> HIDE DEF C
  <1>3. Ready /\ Top.i \in Nat /\ Top.stop \in Nat /\ Top.i < Top.stop
    BY <1>1, AtReady
  <1>4. Plainly(CharEmphasis(Top.i, Top.stop, Offset), Top.i, Top.stop)
    BY <1>3, EmphasisOne
  <1>5. Fits(r)
    BY <1>1, <1>3, <1>4, OneFits
  <1> QED BY <1>1, <1>2, <1>5, StepKeeps

LEMMA LinebreakKeeps ==
    ASSUME Parse, Linebreak
    PROVE  Parse' /\ Goes
  <1> DEFINE C == {"\n"}
  <1>1. PICK r : At(C) /\ r = CharLinebreak(Top.i, Top.stop, Offset) /\ Handle(r)
    BY DEF Linebreak, Do
  <1>2. "!" \notin C
    OBVIOUS
  <1> HIDE DEF C
  <1>3. Ready
    BY <1>1, AtReady
  <1>4. Fits(r)
    BY <1>1, <1>3, LinebreakFits
  <1> QED BY <1>1, <1>2, <1>4, StepKeeps

LEMMA CodespanKeeps ==
    ASSUME Parse, Codespan
    PROVE  Parse' /\ Goes
  <1> DEFINE C == {"tick"}
  <1>1. PICK r : At(C) /\ r = CharCodespan(Top.i, Top.stop) /\ Handle(r)
    BY DEF Codespan, Do
  <1>2. "!" \notin C
    OBVIOUS
  <1>3. Ready /\ Top.i \in Nat /\ Top.stop \in Nat /\ Top.i < Top.stop /\ text[Top.i] = "tick"
    BY <1>1, AtReady
  <1> HIDE DEF C
  <1>4. Plainly(CharCodespan(Top.i, Top.stop), Top.i, Top.stop)
    BY <1>3, CodespanOne
  <1>5. Fits(r)
    BY <1>1, <1>3, <1>4, OneFits
  <1> QED BY <1>1, <1>2, <1>5, StepKeeps

LEMMA EscapeKeeps ==
    ASSUME Parse, Escape
    PROVE  Parse' /\ Goes
  <1> DEFINE C == {"\\"}
  <1>1. PICK r : At(C) /\ r = CharEscape(Top.i, Top.stop) /\ Handle(r)
    BY DEF Escape, Do
  <1>2. "!" \notin C
    OBVIOUS
  <1> HIDE DEF C
  <1>3. Ready /\ Top.i \in Nat /\ Top.stop \in Nat /\ Top.i < Top.stop
    BY <1>1, AtReady
  <1>4. Plainly(CharEscape(Top.i, Top.stop), Top.i, Top.stop)
    BY <1>3, EscapeOne
  <1>5. Fits(r)
    BY <1>1, <1>3, <1>4, OneFits
  <1> QED BY <1>1, <1>2, <1>5, StepKeeps

LEMMA EntityKeeps ==
    ASSUME Parse, Entity
    PROVE  Parse' /\ Goes
  <1> DEFINE C == {"&"}
  <1>1. PICK r : At(C) /\ r = CharEntity(Top.i, Top.stop) /\ Handle(r)
    BY DEF Entity, Do
  <1>2. "!" \notin C
    OBVIOUS
  <1> HIDE DEF C
  <1>3. Ready /\ Top.i \in Nat /\ Top.stop \in Nat /\ Top.i < Top.stop
    BY <1>1, AtReady
  <1>4. Plainly(CharEntity(Top.i, Top.stop), Top.i, Top.stop)
    BY <1>3, EntityOne
  <1>5. Fits(r)
    BY <1>1, <1>3, <1>4, OneFits
  <1> QED BY <1>1, <1>2, <1>5, StepKeeps

LEMMA LangleKeeps ==
    ASSUME Parse, Langle
    PROVE  Parse' /\ Goes
  <1> DEFINE C == {"<"}
  <1>1. PICK r : At(C) /\ r = CharLangleTag(Top.i, Top.stop) /\ Handle(r)
    BY DEF Langle, Do
  <1>2. "!" \notin C
    OBVIOUS
  <1> HIDE DEF C
  <1>3. Ready /\ Top.i \in Nat /\ Top.stop \in Nat /\ Top.i < Top.stop
    BY <1>1, AtReady
  <1>4. Plainly(CharLangleTag(Top.i, Top.stop), Top.i, Top.stop)
    BY <1>3, LangleOne
  <1>5. Fits(r)
    BY <1>1, <1>3, <1>4, OneFits
  <1> QED BY <1>1, <1>2, <1>5, StepKeeps

LEMMA SuperscriptKeeps ==
    ASSUME Parse, Superscript
    PROVE  Parse' /\ Goes
  <1> DEFINE C == {"^"}
  <1>1. PICK r : At(C) /\ r = CharSuperscript(Top.i, Top.stop) /\ Handle(r)
    BY DEF Superscript, Do
  <1>2. "!" \notin C
    OBVIOUS
  <1> HIDE DEF C
  <1>3. Ready /\ Top.i \in Nat /\ Top.stop \in Nat /\ Top.i < Top.stop
    BY <1>1, AtReady
  <1>4. Plainly(CharSuperscript(Top.i, Top.stop), Top.i, Top.stop)
    BY <1>3, SuperscriptOne
  <1>5. Fits(r)
    BY <1>1, <1>3, <1>4, OneFits
  <1> QED BY <1>1, <1>2, <1>5, StepKeeps

LEMMA FormulaKeeps ==
    ASSUME Parse, Formula
    PROVE  Parse' /\ Goes
  <1> DEFINE C == {"$"}
  <1>1. PICK r : At(C) /\ r = CharMath(Top.i, Top.stop) /\ Handle(r)
    BY DEF Formula, Do
  <1>2. "!" \notin C
    OBVIOUS
  <1> HIDE DEF C
  <1>3. Ready /\ Top.i \in Nat /\ Top.stop \in Nat /\ Top.i < Top.stop
    BY <1>1, AtReady
  <1>4. Plainly(CharMath(Top.i, Top.stop), Top.i, Top.stop)
    BY <1>3, FormulaOne
  <1>5. Fits(r)
    BY <1>1, <1>3, <1>4, OneFits
  <1> QED BY <1>1, <1>2, <1>5, StepKeeps

LEMMA AutolinkKeeps ==
    ASSUME Parse, Autolink
    PROVE  Parse' /\ Goes
  <1> DEFINE C == {":", "@", "w"}
             p == Top.i
             stop == Top.stop
  <1>1. /\ At(C)
        /\ Do(CharAutolink(p, stop,
                  CASE text[p] = "w" -> WwwAddress(text, p, stop, Offset)
                    [] text[p] = "@" -> EmailAddress(text, p, stop, Offset)
                    [] text[p] = ":" -> UrlAddress(text, p, stop, Offset)))
    BY DEF Autolink
  <1>2. "!" \notin C
    OBVIOUS
  <1>3. Ready /\ p \in Nat /\ stop \in Nat /\ p < stop /\ text[p] \in C /\ Offset \in Nat
    BY <1>1, AtReady
  <1>4. PICK address : /\ Do(CharAutolink(p, stop, address))
                       /\ address \in {WwwAddress(text, p, stop, Offset),
                                       EmailAddress(text, p, stop, Offset),
                                       UrlAddress(text, p, stop, Offset)}
    <2> HIDE DEF p, stop
    <2> QED BY <1>1, <1>3
  <1> HIDE DEF C
  <1>5. AddressAt(address, p, stop, Offset)
    <2>1. p \in Int /\ stop \in Int
      BY <1>3
    <2> QED BY <1>3, <1>4, <2>1, WwwAt, EmailAt, UrlAt
  <1>6. PICK r : r = CharAutolink(p, stop, address) /\ Handle(r)
    BY <1>4 DEF Do
  <1>7. Fits(r)
    BY <1>3, <1>5, <1>6, AutolinkFits
  <1> QED BY <1>1, <1>2, <1>6, <1>7, StepKeeps

LEMMA RefusedKeeps ==
    ASSUME Ready, UNCHANGED <<text, nodes, frames>>, outcome' = "refused"
    PROVE  Parse' /\ Goes
  <1>1. Parse /\ outcome = "parsing"
    BY DEF Ready
  <1>2. Goes
    BY <1>1 DEF Goes, Root, Onward
  <1> QED BY <1>1, <1>2, EndKeeps

LEMMA LinkKeeps ==
    ASSUME Parse, Link
    PROVE  Parse' /\ Goes
  <1> DEFINE C == {"["}
  <1>1. At(C) /\ LinkAt(Top.i, Offset)
    BY DEF Link
  <1>2. "!" \notin C
    OBVIOUS
  <1>3. Ready /\ text[Top.i] = "["
    BY <1>1, AtReady
  <1> HIDE DEF C
  <1>4. CASE UNCHANGED <<text, nodes, frames>> /\ outcome' = "refused"
    BY <1>3, <1>4, RefusedKeeps
  <1>5. ASSUME NEW r, r = CharLink(Top.i, Top.stop, Offset), Handle(r)
        PROVE  Parse' /\ Goes
    <2>1. Fits(r)
      BY <1>3, <1>5, LinkFits
    <2> QED BY <1>1, <1>2, <1>5, <2>1, StepKeeps
  <1> QED BY <1>1, <1>4, <1>5 DEF LinkAt

LEMMA ImageKeeps ==
    ASSUME Parse, Image
    PROVE  Parse' /\ Goes
  <1>1. /\ At({"!"})
        /\ IF Top.i + 1 < Top.stop /\ text[Top.i + 1] = "["
           THEN LinkAt(Top.i + 1, Offset + 1) ELSE Do(NoSpan)
    BY DEF Image
  <1>2. Ready /\ text[Top.i] = "!" /\ Top.i \in Nat /\ Top.stop \in Nat
    BY <1>1, AtReady
  <1>3. CASE ~(Top.i + 1 < Top.stop /\ text[Top.i + 1] = "[")
    <2>1. PICK r : r = NoSpan /\ Handle(r)
      BY <1>1, <1>3 DEF Do
    <2>2. Fits(r)
      BY <1>2, <2>1, NoSpanIs, OneFits DEF Plainly
    <2> QED BY <1>2, <1>3, <2>1, <2>2, HandleKeeps
  <1>4. CASE Top.i + 1 < Top.stop /\ text[Top.i + 1] = "["
    <2>1. LinkAt(Top.i + 1, Offset + 1)
      BY <1>1, <1>4
    <2>2. CASE UNCHANGED <<text, nodes, frames>> /\ outcome' = "refused"
      BY <1>2, <2>2, RefusedKeeps
    <2>3. ASSUME NEW r, r = CharLink(Top.i + 1, Top.stop, Offset + 1), Handle(r)
          PROVE  Parse' /\ Goes
      <3>1. Fits(r)
        BY <1>2, <1>4, <2>3, ImageFits
      <3>2. r.next = LinkNext(Top.i + 1, Top.stop)
        <4>1. PICK p \in Nat : p = Top.i + 1
          BY <1>2
        <4>2. CharLink(p, Top.stop, Offset + 1).next = LinkNext(p, Top.stop)
          BY <1>2, <1>4, <4>1, LinkReturns
        <4> QED BY <2>3, <4>1, <4>2
      <3> QED BY <1>2, <2>3, <3>1, <3>2, HandleKeeps
    <2> QED BY <2>1, <2>2, <2>3 DEF LinkAt
  <1> QED BY <1>3, <1>4

LEMMA ParseInlineKeeps ==
    ASSUME Parse, ParseInline
    PROVE  Parse' /\ Goes
  BY CopyTextKeeps, EmphasisKeeps, LinebreakKeeps, CodespanKeeps, EscapeKeeps, EntityKeeps,
     LangleKeeps, SuperscriptKeeps, FormulaKeeps, AutolinkKeeps, LinkKeeps, ImageKeeps,
     ReturnKeeps DEF ParseInline

-----------------------------------------------------------------------------
(* The characters and the places of the first pass *)

\* A function on 1..n is a sequence.
LEMMA FunctionIsSeq ==
    ASSUME NEW S, NEW n \in Nat, NEW s \in [1..n -> S]
    PROVE  s \in Seq(S)
  <1>1. s \in UNION {[1..m -> S] : m \in Nat}
    OBVIOUS
  <1> QED BY ONLY <1>1, SeqDef

LEMMA ExpandIs ==
    ASSUME NEW from \in Int, NEW end \in Int, from <= end
    PROVE  ExpandTabs(from, end) \in Seq(Int)
  <1> DEFINE D == from..end
             V == Seq(Int)
             Pad(s) == [k \in 1..4 - (Len(s) % 4) |-> 0]
             Body(q, g) ==
               IF q = from THEN <<>>
               ELSE IF data[q - 1] = "\t" THEN g[q - 1] \o Pad(g[q - 1])
               ELSE Append(g[q - 1], q - 1)
             f == CHOOSE g : g = [q \in D |-> Body(q, g)]
             rank == [q \in D |-> q - from]
  <1>1. ExpandTabs(from, end) = f[end]
    BY DEF ExpandTabs
  <1> HIDE DEF f
  <1>2. ASSUME NEW s \in V
        PROVE  s \o Pad(s) \in V
    <2>1. PICK n \in Nat : n = 4 - (Len(s) % 4)
      <3>1. Len(s) \in Nat
        OBVIOUS
      <3> QED BY <3>1
    <2>2. Pad(s) \in [1..n -> Int]
      BY <2>1
    <2> HIDE DEF Pad
    <2>3. Pad(s) \in Seq(Int)
      BY <2>2, FunctionIsSeq
    <2> QED BY <2>3, ConcatProperties
  <1>3. ASSUME NEW q \in D, NEW g, q # from => g[q - 1] \in V
        PROVE  Body(q, g) \in V
    <2> HIDE DEF Pad
    <2>1. <<>> \in V
      OBVIOUS
    <2>2. q - 1 \in Int
      OBVIOUS
    <2>3. CASE q # from
      <3>1. Append(g[q - 1], q - 1) \in V
        BY <1>3, <2>2, <2>3, AppendProperties
      <3>2. g[q - 1] \o Pad(g[q - 1]) \in V
        BY <1>2, <1>3, <2>3
      <3> QED BY <3>1, <3>2, <2>1
    <2> QED BY <2>1, <2>3
  <1>4. ASSUME NEW q \in D, NEW g, NEW h, q # from => g[q - 1] = h[q - 1]
        PROVE  Body(q, g) = Body(q, h)
    BY <1>4, Zenon
  <1>5. \A q \in D : q # from => q - 1 \in D /\ rank[q - 1] < rank[q]
    OBVIOUS
  <1>6. Ranked(D, rank, end - from)
    BY DEF Ranked
  <1> HIDE DEF Body
  <1>7. f = [q \in D |-> Body(q, f)]
    <2> DEFINE B == [q \in D |-> [g \in [D -> V] |-> Body(q, g)]]
    <2>1. \A q \in D : \A g \in [D -> V] : B[q][g] = Body(q, g)
      OBVIOUS
    <2>2. <<>> \in V
      OBVIOUS
    <2> HIDE DEF B, D, V, rank
    <2>3. Recursive(D, rank, V, B)
      <3>1. \A q \in D : \A g \in [D -> V] : B[q][g] \in V
        BY <2>1, <1>3, <1>5
      <3>2. ASSUME NEW q \in D, NEW g \in [D -> V], NEW h \in [D -> V],
                   \A y \in D : rank[y] < rank[q] => g[y] = h[y]
            PROVE  B[q][g] = B[q][h]
        BY <2>1, <1>4, <1>5, <3>2
      <3> QED BY <3>1, <3>2 DEF Recursive
    <2>4. PICK h \in [D -> V] : \A q \in D : h[q] = B[q][h]
      BY <1>6, <2>2, <2>3, Recursion
    <2>5. h = [q \in D |-> Body(q, h)]
      BY <2>1, <2>4
    <2> QED BY <2>5 DEF f, D
  <1>8. \A q \in D : f[q] \in V
    <2>1. \A q \in D : f[q] = Body(q, f)
      <3> HIDE DEF D
      <3> QED BY <1>7
    <2> DEFINE G == {q \in D : f[q] \in V}
    <2> HIDE DEF D, V, rank
    <2>2. \A q \in D : (\A y \in D : rank[y] < rank[q] => y \in G) => q \in G
      BY <1>3, <1>5, <2>1
    <2>3. D \subseteq G
      <3> HIDE DEF G
      <3> QED BY <1>6, <2>2, ByRank
    <2> QED BY <2>3
  <1>9. end \in D
    OBVIOUS
  <1> QED BY <1>1, <1>8, <1>9

LEMMA NewlinesIs ==
    ASSUME NEW end \in Int, NEW next \in Int, end <= next
    PROVE  Newlines(end, next) \in Seq(Int)
  <1> DEFINE D == end..next
             V == Seq(Int)
             Body(q, g) ==
               IF q = end THEN <<>>
               ELSE IF data[q - 1] = "\n" \/ (~ AtEnd(q) /\ data[q] # "\n")
               THEN Append(g[q - 1], q - 1) ELSE g[q - 1]
             f == CHOOSE g : g = [q \in D |-> Body(q, g)]
             rank == [q \in D |-> q - end]
  <1>1. Newlines(end, next) = f[next]
    BY DEF Newlines
  <1> HIDE DEF f
  <1>3. ASSUME NEW q \in D, NEW g, q # end => g[q - 1] \in V
        PROVE  Body(q, g) \in V
    <2>1. <<>> \in V
      OBVIOUS
    <2>2. q - 1 \in Int
      OBVIOUS
    <2>3. CASE q # end
      <3>1. Append(g[q - 1], q - 1) \in V
        BY <1>3, <2>2, <2>3, AppendProperties
      <3> QED BY <1>3, <3>1, <2>1, <2>3
    <2> QED BY <2>1, <2>3
  <1>4. ASSUME NEW q \in D, NEW g, NEW h, q # end => g[q - 1] = h[q - 1]
        PROVE  Body(q, g) = Body(q, h)
    BY <1>4, Zenon
  <1>5. \A q \in D : q # end => q - 1 \in D /\ rank[q - 1] < rank[q]
    OBVIOUS
  <1>6. Ranked(D, rank, next - end)
    BY DEF Ranked
  <1> HIDE DEF Body
  <1>7. f = [q \in D |-> Body(q, f)]
    <2> DEFINE B == [q \in D |-> [g \in [D -> V] |-> Body(q, g)]]
    <2>1. \A q \in D : \A g \in [D -> V] : B[q][g] = Body(q, g)
      OBVIOUS
    <2>2. <<>> \in V
      OBVIOUS
    <2> HIDE DEF B, D, V, rank
    <2>3. Recursive(D, rank, V, B)
      <3>1. \A q \in D : \A g \in [D -> V] : B[q][g] \in V
        BY <2>1, <1>3, <1>5
      <3>2. ASSUME NEW q \in D, NEW g \in [D -> V], NEW h \in [D -> V],
                   \A y \in D : rank[y] < rank[q] => g[y] = h[y]
            PROVE  B[q][g] = B[q][h]
        BY <2>1, <1>4, <1>5, <3>2
      <3> QED BY <3>1, <3>2 DEF Recursive
    <2>4. PICK h \in [D -> V] : \A q \in D : h[q] = B[q][h]
      BY <1>6, <2>2, <2>3, Recursion
    <2>5. h = [q \in D |-> Body(q, h)]
      BY <2>1, <2>4
    <2> QED BY <2>5 DEF f, D
  <1>8. \A q \in D : f[q] \in V
    <2>1. \A q \in D : f[q] = Body(q, f)
      <3> HIDE DEF D
      <3> QED BY <1>7
    <2> DEFINE G == {q \in D : f[q] \in V}
    <2> HIDE DEF D, V, rank
    <2>2. \A q \in D : (\A y \in D : rank[y] < rank[q] => y \in G) => q \in G
      BY <1>3, <1>5, <2>1
    <2>3. D \subseteq G
      <3> HIDE DEF G
      <3> QED BY <1>6, <2>2, ByRank
    <2> QED BY <2>3
  <1>9. next \in D
    OBVIOUS
  <1> QED BY <1>1, <1>8, <1>9

\* What pieces that are sequences are put together to.
LEMMA FlattenIs ==
    ASSUME NEW S, NEW P, P \subseteq Seq(S), NEW n \in Nat, NEW s \in [1..n -> P]
    PROVE  FlattenSeq(s) \in Seq(S)
  <1>0. s \in Seq(P) /\ Len(s) = n
    BY FunctionIsSeq
  <1>a. CASE n = 0
    <2>1. s = <<>>
      BY <1>0, <1>a
    <2> QED BY <1>0, <1>a, <2>1, EmptySeq DEF FlattenSeq
  <1> SUFFICES ASSUME n # 0
               PROVE  FlattenSeq(s) \in Seq(S)
    BY <1>a
  <1> DEFINE D == 1..n
             V == Seq(S)
             Body(q, g) == IF q = 1 THEN s[q] ELSE g[q - 1] \o s[q]
             f == CHOOSE g : g = [q \in D |-> Body(q, g)]
             rank == [q \in D |-> q - 1]
  <1>1. FlattenSeq(s) = f[n]
    BY <1>0 DEF FlattenSeq
  <1> HIDE DEF f
  <1>3. ASSUME NEW q \in D, NEW g, q # 1 => g[q - 1] \in V
        PROVE  Body(q, g) \in V
    <2>1. s[q] \in V
      OBVIOUS
    <2>2. CASE q # 1
      <3>1. g[q - 1] \o s[q] \in V
        BY <1>3, <2>1, <2>2, ConcatProperties
      <3> QED BY <2>2, <3>1
    <2> QED BY <2>1, <2>2
  <1>4. ASSUME NEW q \in D, NEW g, NEW h, q # 1 => g[q - 1] = h[q - 1]
        PROVE  Body(q, g) = Body(q, h)
    BY <1>4, Zenon
  <1>5. \A q \in D : q # 1 => q - 1 \in D /\ rank[q - 1] < rank[q]
    OBVIOUS
  <1>6. Ranked(D, rank, n - 1)
    BY DEF Ranked
  <1> HIDE DEF Body
  <1>7. f = [q \in D |-> Body(q, f)]
    <2> DEFINE B == [q \in D |-> [g \in [D -> V] |-> Body(q, g)]]
    <2>1. \A q \in D : \A g \in [D -> V] : B[q][g] = Body(q, g)
      OBVIOUS
    <2>2. <<>> \in V
      OBVIOUS
    <2> HIDE DEF B, D, V, rank
    <2>3. Recursive(D, rank, V, B)
      <3>1. \A q \in D : \A g \in [D -> V] : B[q][g] \in V
        BY <2>1, <1>3, <1>5
      <3>2. ASSUME NEW q \in D, NEW g \in [D -> V], NEW h \in [D -> V],
                   \A y \in D : rank[y] < rank[q] => g[y] = h[y]
            PROVE  B[q][g] = B[q][h]
        BY <2>1, <1>4, <1>5, <3>2
      <3> QED BY <3>1, <3>2 DEF Recursive
    <2>4. PICK h \in [D -> V] : \A q \in D : h[q] = B[q][h]
      BY <1>6, <2>2, <2>3, Recursion, SMTT(30)
    <2>5. h = [q \in D |-> Body(q, h)]
      BY <2>1, <2>4
    <2> QED BY <2>5 DEF f, D
  <1>8. \A q \in D : f[q] \in V
    <2>1. \A q \in D : f[q] = Body(q, f)
      <3> HIDE DEF D
      <3> QED BY <1>7
    <2> DEFINE G == {q \in D : f[q] \in V}
    <2> HIDE DEF D, V, rank
    <2>2. \A q \in D : (\A y \in D : rank[y] < rank[q] => y \in G) => q \in G
      BY <1>3, <1>5, <2>1
    <2>3. D \subseteq G
      <3> HIDE DEF G
      <3> QED BY <1>6, <2>2, ByRank
    <2> QED BY <2>3
  <1>9. n \in D
    OBVIOUS
  <1> QED BY <1>1, <1>8, <1>9

\* The places of a document.
LEMMA BeyondIs ==
    ASSUME IsSequence(data)
    PROVE  Beyond \in Nat \ {0}
  <1>1. PICK S : data \in Seq(S)
    BY DEF IsSequence
  <1>2. Len(data) \in Nat
    BY <1>1
  <1> QED BY <1>2 DEF Beyond

LEMMA PlaceIs ==
    ASSUME IsSequence(data), NEW p \in Int, NEW n \in Int
    PROVE  /\ Blanks(p) \in Int /\ LineEnd(p) \in Int /\ UpTo(p, n) \in Int /\ EolEnd(p) \in Int
           /\ p <= LineEnd(p) /\ (p <= Beyond => LineEnd(p) <= Beyond)
  <1>1. Beyond \in Int
    BY BeyondIs
  <1>2. Blanks(p) \in Int
    BY <1>1, PastFinds DEF Blanks
  <1>3. LineEnd(p) \in Int /\ p <= LineEnd(p) /\ (p <= Beyond => LineEnd(p) <= Beyond)
    BY <1>1, UntilFinds DEF LineEnd
  <1>4. UpTo(p, n) \in Int
    <2>1. PICK x, y \in Int : x = Blanks(p) /\ y = p + n
      BY <1>2
    <2>2. Min({x, y}) \in Int
      BY MinOf2
    <2> QED BY <2>1, <2>2 DEF UpTo
  <1>5. EolEnd(p) \in Int
    BY DEF EolEnd
  <1> QED BY <1>2, <1>3, <1>4, <1>5

LEMMA NextLineIs ==
    ASSUME IsSequence(data), NEW p \in Int, ~ AtEnd(p)
    PROVE  NextLine(p) \in Int /\ p < NextLine(p) /\ NextLine(p) <= Beyond
  <1>1. Beyond \in Int /\ p < Beyond
    BY BeyondIs DEF AtEnd
  <1>2. PICK e \in Int : e = LineEnd(p) /\ p <= e /\ e <= Beyond
    BY <1>1, PlaceIs
  <1>3. PICK d \in Int : d = e + 1
    OBVIOUS
  <1>4. Min({d, Beyond}) \in {d, Beyond} /\ Min({d, Beyond}) <= Beyond
    BY <1>1, MinOf2
  <1>5. IsAt(data, e, Beyond, <<"\r", "\n">>) => e + 2 <= Beyond
    <2>1. Len(<<"\r", "\n">>) = 2
      OBVIOUS
    <2> QED BY <2>1 DEF IsAt
  <1>6. NextLine(p) = IF IsAt(data, e, Beyond, <<"\r", "\n">>) THEN e + 2 ELSE Min({d, Beyond})
    BY <1>2, <1>3 DEF NextLine
  <1> HIDE DEF Beyond
  <1> QED BY <1>1, <1>2, <1>3, <1>4, <1>5, <1>6

\* The places of a footnote's lines are numbers.
LEMMA NoteLinesIs ==
    ASSUME IsSequence(data), NEW first \in Int, first <= Beyond
    PROVE  NoteLines(first).end \in Int
  <1>0. Beyond \in Int
    BY BeyondIs
  <1> DEFINE D == first..Beyond
             V == [kept : SUBSET Int, end : Int]
             Body(p, g) ==
               IF AtEnd(p) THEN Nothing(p)
               ELSE IF Blanks(p) = LineEnd(p) THEN g[NextLine(p)]
               ELSE IF UpTo(p, 4) = p /\ ~ (p = first /\ data[p] = "\t")
               THEN Nothing(p)
               ELSE [g[NextLine(p)] EXCEPT !.kept = @ \cup (UpTo(p, 4)..LineEnd(p) - 1)]
             f == CHOOSE g : g = [q \in D |-> Body(q, g)]
             rank == [q \in D |-> Beyond - q]
  <1>1. NoteLines(first) = f[first]
    BY DEF NoteLines
  <1> HIDE DEF f
  <1>2. ASSUME NEW p \in Int, NEW x \in V
        PROVE  [x EXCEPT !.kept = @ \cup (UpTo(p, 4)..LineEnd(p) - 1)] \in V
    <2>1. UpTo(p, 4)..LineEnd(p) - 1 \subseteq Int
      OBVIOUS
    <2> QED BY <2>1
  <1>3. ASSUME NEW q \in D, NEW g, ~ AtEnd(q) => g[NextLine(q)] \in V
        PROVE  Body(q, g) \in V
    <2>1. Nothing(q) \in V
      BY DEF Nothing
    <2>2. CASE ~ AtEnd(q)
      BY <1>2, <1>3, <2>1, <2>2
    <2> QED BY <2>1, <2>2
  <1>4. ASSUME NEW q \in D, NEW g, NEW h, ~ AtEnd(q) => g[NextLine(q)] = h[NextLine(q)]
        PROVE  Body(q, g) = Body(q, h)
    BY <1>4, Zenon
  <1>5. \A q \in D : ~ AtEnd(q) => NextLine(q) \in D /\ rank[NextLine(q)] < rank[q]
    <2> SUFFICES ASSUME NEW q \in D, ~ AtEnd(q)
                 PROVE  NextLine(q) \in D /\ rank[NextLine(q)] < rank[q]
      OBVIOUS
    <2>1. NextLine(q) \in Int /\ q < NextLine(q) /\ NextLine(q) <= Beyond
      BY NextLineIs
    <2> HIDE DEF Beyond
    <2> QED BY <1>0, <2>1
  <1>6. Ranked(D, rank, Beyond - first)
    BY <1>0 DEF Ranked
  <1> HIDE DEF Body
  <1>7. f = [q \in D |-> Body(q, f)]
    <2> DEFINE B == [q \in D |-> [g \in [D -> V] |-> Body(q, g)]]
    <2>1. \A q \in D : \A g \in [D -> V] : B[q][g] = Body(q, g)
      OBVIOUS
    <2>2. Nothing(first) \in V
      BY DEF Nothing
    <2> HIDE DEF B, D, V, rank
    <2>3. Recursive(D, rank, V, B)
      <3>1. \A q \in D : \A g \in [D -> V] : B[q][g] \in V
        BY <2>1, <1>3, <1>5
      <3>2. ASSUME NEW q \in D, NEW g \in [D -> V], NEW h \in [D -> V],
                   \A y \in D : rank[y] < rank[q] => g[y] = h[y]
            PROVE  B[q][g] = B[q][h]
        BY <2>1, <1>4, <1>5, <3>2
      <3> QED BY <3>1, <3>2 DEF Recursive
    <2>4. PICK h \in [D -> V] : \A q \in D : h[q] = B[q][h]
      BY <1>6, <2>2, <2>3, Recursion
    <2>5. h = [q \in D |-> Body(q, h)]
      BY <2>1, <2>4
    <2> QED BY <2>5 DEF f, D
  <1>8. \A q \in D : f[q] \in V
    <2>1. \A q \in D : f[q] = Body(q, f)
      <3> HIDE DEF D
      <3> QED BY <1>7
    <2> DEFINE G == {q \in D : f[q] \in V}
    <2> HIDE DEF D, V, rank
    <2>2. \A q \in D : (\A y \in D : rank[y] < rank[q] => y \in G) => q \in G
      BY <1>3, <1>5, <2>1
    <2>3. D \subseteq G
      <3> HIDE DEF G
      <3> QED BY <1>6, <2>2, ByRank
    <2> QED BY <2>3
  <1>9. first \in D
    BY <1>0
  <1>10. f[first].end \in Int
    BY <1>8, <1>9
  <1> QED BY <1>1, <1>10

\* Where a definition ends.
LEMMA DefinedIs ==
    /\ \A what, key, kept, end : Defined(what, key, kept, end).end = end
    /\ NotDefined.end = 0
  BY DEF Defined, NotDefined

LEMMA EnclosedIs ==
    ASSUME NEW p, NEW stop \in Int, NEW C
    PROVE  Enclosed(p, stop, C).end \in Int
  BY DEF Enclosed, Nothing

LEMMA RefTitleIs ==
    ASSUME IsSequence(data), NEW p \in Int
    PROVE  RefTitle(p).end \in Int
  <1>1. PICK q \in Int : q = IF Is(p, Eol) \/ AtEnd(p) THEN Blanks(EolEnd(p) + 1) ELSE p
    <2>1. PICK e \in Int : e = EolEnd(p) + 1
      BY PlaceIs
    <2>2. Blanks(e) \in Int
      BY <2>1, PlaceIs
    <2> QED BY <2>1, <2>2
  <1>2. PICK stop \in Int : stop = Until(data, q + 1, Beyond, Eol \cup Brace)
    <2>1. PICK r \in Int : r = q + 1
      OBVIOUS
    <2>2. Until(data, r, Beyond, Eol \cup Brace) \in Int
      BY BeyondIs, UntilFinds
    <2> QED BY <2>1, <2>2
  <1>3. RefTitleAt(q).end \in Int
    BY <1>2, EnclosedIs DEF RefTitleAt, Nothing
  <1> QED BY <1>1, <1>3 DEF RefTitle

LEMMA RefAttrsIs ==
    ASSUME IsSequence(data), NEW p \in Int
    PROVE  RefAttrs(p).end \in Int
  <1>1. LineEnd(p) \in Int
    BY PlaceIs
  <1> QED BY <1>1, EnclosedIs DEF RefAttrs, Nothing

LEMMA RefAtIs ==
    ASSUME IsSequence(data), NEW open, NEW close, NEW link, NEW stop \in Int
    PROVE  RefAt(open, close, link, stop).end \in Int
  <1>1. PICK behind \in Int : behind = Blanks(stop)
    BY PlaceIs
  <1>2. PICK title : title = RefTitle(behind) /\ title.end \in Int
    BY RefTitleIs
  <1>3. PICK attrs : attrs = RefAttrs(title.end) /\ attrs.end \in Int
    BY <1>2, RefAttrsIs
  <1>4. EolEnd(attrs.end) \in Int
    BY <1>3, PlaceIs
  <1> DEFINE end == IF data[stop - 1] = ">" THEN stop - 1 ELSE stop
             key == SubSeq(data, open + 1, close - 1)
             kept == (open + 1..close - 1) \cup (link..end - 1) \cup title.kept \cup attrs.kept
  <1>5. \/ RefAt(open, close, link, stop) = NotDefined
        \/ RefAt(open, close, link, stop) = Defined("REF", key, kept, EolEnd(attrs.end))
    BY <1>1, <1>2, <1>3, Zenon DEF RefAt
  <1> HIDE DEF key, kept
  <1> QED BY <1>4, <1>5, DefinedIs

LEMMA NameEndIs ==
    ASSUME IsSequence(data), NEW p \in Int
    PROVE  /\ NameEnd(p) \in Int
           /\ NameEnd(p) # 0 => NameEnd(p) + 2 <= Beyond
  <1>1. PICK B \in Int : B = Beyond
    BY BeyondIs
  <1>2. PICK close \in Int : close = Until(data, p, Beyond, {"]"} \cup Eol)
    BY <1>1, UntilFinds
  <1>3. NameEnd(p) = IF Is(close, {"]"}) /\ Is(close + 1, {":"}) THEN close ELSE 0
    BY <1>2 DEF NameEnd
  <1>4. Is(close + 1, {":"}) => ~(close + 1 >= B)
    BY <1>1 DEF Is, AtEnd
  <1> QED BY <1>1, <1>3, <1>4

LEMMA RefLinkIs ==
    ASSUME IsSequence(data), NEW close \in Int
    PROVE  RefLink(close) \in Int
  <1>1. PICK c \in Int : c = close + 2
    OBVIOUS
  <1>2. PICK spacer \in Int : spacer = Blanks(c)
    BY PlaceIs
  <1>3. PICK r \in Int : r = IF Is(spacer, Eol) THEN EolEnd(spacer) + 1 ELSE spacer
    BY PlaceIs
  <1>4. PICK angle \in Int : angle = Blanks(r)
    BY PlaceIs
  <1>5. RefLink(close) = IF AtEnd(angle) THEN 0
                         ELSE IF data[angle] = "<" THEN angle + 1 ELSE angle
    BY <1>1, <1>2, <1>3, <1>4 DEF RefLink
  <1> QED BY <1>5

LEMMA DefinitionIs ==
    ASSUME IsSequence(data), NEW p \in Int
    PROVE  DefinitionAt(p).end \in Int
  <1>1. PICK open \in Int : open = UpTo(p, 3)
    BY PlaceIs
  <1>2. is_ref(p).end \in Int
    <2>1. PICK o \in Int : o = open + 1
      OBVIOUS
    <2>2. PICK close \in Int : close = NameEnd(o)
      BY NameEndIs
    <2>3. PICK link \in Int : link = RefLink(close)
      BY RefLinkIs
    <2>4. PICK stop \in Int : stop = Until(data, link, Beyond, {" "} \cup Eol)
      <3>1. PICK B \in Int : B = Beyond
        BY BeyondIs
      <3>2. PICK C : C = {" "} \cup Eol
        OBVIOUS
      <3>3. Until(data, link, B, C) \in Int
        BY UntilFinds
      <3> QED BY <3>1, <3>2, <3>3
    <2>5. is_ref(p) = NotDefined \/ is_ref(p) = RefAt(open, close, link, stop)
      BY <1>1, <2>1, <2>2, <2>3, <2>4, Zenon DEF is_ref
    <2>6. RefAt(open, close, link, stop).end \in Int
      BY ONLY IsSequence(data), <2>4, RefAtIs
    <2>7. NotDefined.end \in Int
      BY DefinedIs
    <2> QED BY ONLY <2>5, <2>6, <2>7
  <1>3. is_footnote(p).end \in Int
    <2>1. PICK o \in Int : o = open + 2
      OBVIOUS
    <2>2. PICK close \in Int : close = NameEnd(o) /\ (close # 0 => close + 2 <= Beyond)
      BY NameEndIs
    <2>3. PICK first \in Int : first = close + 2
      OBVIOUS
    <2>4. close # 0 => NoteLines(first).end \in Int
      BY <2>2, <2>3, NoteLinesIs
    <2> DEFINE key == SubSeq(data, open + 2, close - 1)
               kept == (open + 2..close - 1) \cup NoteLines(first).kept
    <2>5. \/ is_footnote(p) = NotDefined
          \/ close # 0 /\ is_footnote(p) = Defined("NOTE", key, kept, NoteLines(first).end)
      BY <1>1, <2>1, <2>2, <2>3, Zenon DEF is_footnote
    <2> HIDE DEF key, kept
    <2> QED BY <2>4, <2>5, DefinedIs
  <1> QED BY <1>2, <1>3, DefinedIs DEF DefinitionAt

-----------------------------------------------------------------------------
(* The steps before the paragraphs *)

\* While nothing has been parsed the invariant says nothing of the calls.
LEMMA ReadingKeeps ==
    ASSUME nodes' = <<>>, frames' = <<>>, outcome' # "parsing"
    PROVE  Parse'
  <1>1. nodes' \in Seq(NodeTypes) /\ frames' \in Seq(Calls)
    OBVIOUS
  <1>2. \A n : n \notin DOMAIN nodes' /\ n \notin DOMAIN frames'
    OBVIOUS
  <1>3. NodesTyped' /\ SpansNested' /\ Ordered'
    BY <1>2 DEF NodesTyped, SpansNested, Ordered
  <1>4. CallsTyped'
    BY <1>2 DEF CallsTyped
  <1>5. CallsNested'
    <2>1. \A k : k \notin 2..Len(frames')
      OBVIOUS
    <2> QED BY <2>1 DEF CallsNested
  <1>6. Passed' /\ Copied' /\ Tried'
    BY DEF Passed, Copied, Tried
  <1> QED BY <1>1, <1>3, <1>4, <1>5, <1>6 DEF Parse

\* Sequences put together.
LEMMA JoinIs ==
    ASSUME NEW s, NEW t, IsSequence(s), IsSequence(t)
    PROVE  IsSequence(s \o t)
  <1>1. PICK S, T : s \in Seq(S) /\ t \in Seq(T)
    BY DEF IsSequence
  <1>2. s \in Seq(S \cup T) /\ t \in Seq(S \cup T)
    BY <1>1, SeqMonotonic
  <1>3. s \o t \in Seq(S \cup T)
    BY <1>2, ConcatProperties
  <1> QED BY <1>3 DEF IsSequence

LEMMA AppendIs ==
    ASSUME NEW s, NEW x, IsSequence(s)
    PROVE  IsSequence(Append(s, x))
  <1>1. PICK S : s \in Seq(S)
    BY DEF IsSequence
  <1>2. s \in Seq(S \cup {x}) /\ x \in S \cup {x}
    BY <1>1, SeqMonotonic
  <1>3. Append(s, x) \in Seq(S \cup {x})
    BY <1>2, AppendProperties
  <1> QED BY <1>3 DEF IsSequence

\* Where the parse begins is a place.
LEMMA BeginIs ==
    ASSUME IsSequence(data), NEW left, Begin(left)
    PROVE  /\ outcome' \in {"reading", "metadata"}
           /\ outcome' = "reading" => beg' \in Int
  <1>1. MetaEnd \in Int
    <2>1. PICK B \in Nat : B = Beyond /\ Len(data) + 1 = B /\ Len(data) \in Nat
      <3>1. PICK S : data \in Seq(S)
        BY DEF IsSequence
      <3>2. Len(data) \in Nat
        BY <3>1
      <3> QED BY <3>2 DEF Beyond
    <2>2. PICK st \in Nat : st = Start /\ st \in 1..2
      BY DEF Start
    <2> DEFINE S == {q \in Start + 1..Len(data) : data[q] = "\n" /\ data[q - 1] = "\n"}
                      \cup {Beyond}
    <2>3. S \subseteq Int /\ (\A x \in S : 0 <= x) /\ B \in S
      BY <2>1, <2>2
    <2>4. MetaEnd = Min(S)
      BY DEF MetaEnd
    <2> HIDE DEF S
    <2>5. PICK lo \in Int : lo = 0
      OBVIOUS
    <2>6. \A x \in S : lo <= x
      BY <2>3, <2>5
    <2>7. Min(S) \in S
      BY ONLY <2>3, <2>6, MinOf
    <2> QED BY <2>3, <2>4, <2>7
  <1>2. Start \in Int
    BY DEF Start
  <1>3. CASE left = <<>>
    BY <1>1, <1>2, <1>3 DEF Begin
  <1>4. CASE left # <<>>
    BY <1>4 DEF Begin
  <1> QED BY <1>3, <1>4

\* Steps that come before the paragraphs and keep the text.
LEMMA BeforeKeeps ==
    ASSUME ParseInv, Reading, UNCHANGED <<text, data, nodes, frames>>, Reading',
           outcome' = "reading" => beg' \in Int
    PROVE  ParseInv'
  <1>1. nodes' = <<>> /\ frames' = <<>> /\ text' = text /\ data' = data
    BY DEF ParseInv, Paragraphs
  <1>2. outcome' \notin {"parsing", "done"}
    BY DEF Reading
  <1>3. Parse'
    BY <1>1, <1>2, ReadingKeeps
  <1>4. \A n : n \notin DOMAIN nodes'
    BY <1>1
  <1>5. Paragraphs'
    BY <1>1, <1>2, <1>4 DEF ParseInv, Paragraphs
  <1> QED BY <1>3, <1>5 DEF ParseInv

LEMMA CallKeeps ==
    ASSUME ParseInv, Call
    PROVE  ParseInv'
  <1>1. IsSequence(data) /\ Begin(metas) /\ UNCHANGED <<text, data, nodes, frames>>
    BY DEF Call, ParseInv, Paragraphs
  <1>2. Reading /\ Reading' /\ (outcome' = "reading" => beg' \in Int)
    BY <1>1, BeginIs DEF Call, Reading
  <1> QED BY <1>1, <1>2, BeforeKeeps

LEMMA MetadataKeeps ==
    ASSUME ParseInv, Metadata
    PROVE  ParseInv'
  <1>1. IsSequence(data) /\ UNCHANGED <<text, data, nodes, frames>> /\ outcome = "metadata"
    BY DEF Metadata, ParseInv, Paragraphs
  <1>2. UNCHANGED outcome \/ Begin(Tail(metas))
    BY DEF Metadata
  <1>3. Reading /\ Reading' /\ (outcome' = "reading" => beg' \in Int)
    BY <1>1, <1>2, BeginIs DEF Reading
  <1> QED BY <1>1, <1>3, BeforeKeeps

LEMMA DefineKeeps ==
    ASSUME ParseInv, Define
    PROVE  ParseInv'
  <1>1. /\ IsSequence(data) /\ UNCHANGED <<text, data, nodes, frames, outcome>>
        /\ outcome = "reading" /\ beg \in Int /\ beg' = DefinitionAt(beg).end
    BY DEF Define, Line, ParseInv, Paragraphs
  <1>2. beg' \in Int
    BY <1>1, DefinitionIs
  <1>3. Reading /\ Reading'
    BY <1>1 DEF Reading
  <1> QED BY <1>1, <1>2, <1>3, BeforeKeeps

\* What is copied of a line is a sequence.
LEMMA CopyLineIs ==
    ASSUME ParseInv, CopyLine
    PROVE  IsSequence(text') /\ beg' \in Int
  <1>0. outcome = "reading"
    BY DEF CopyLine, Line
  <1>1. IsSequence(data) /\ IsSequence(text) /\ beg \in Int /\ Beyond \in Int
    BY <1>0, BeyondIs DEF ParseInv, Paragraphs
  <1>2. PICK end \in Int : end = LineEnd(beg) /\ beg <= end
    BY <1>1, PlaceIs
  <1>3. PICK next \in Int : next = Past(data, end, Beyond, Eol) /\ end <= next
    BY <1>1, PastFinds
  <1>4. PICK copied \in Seq(Int) : copied = ExpandTabs(beg, end) \o Newlines(end, next)
    <2>1. ExpandTabs(beg, end) \in Seq(Int) /\ Newlines(end, next) \in Seq(Int)
      BY <1>1, <1>2, <1>3, ExpandIs, NewlinesIs
    <2> QED BY <2>1, ConcatProperties
  <1> DEFINE shown == [k \in DOMAIN copied |->
                           IF copied[k] = 0 THEN " "
                           ELSE IF data[copied[k]] = "\r" THEN "\n" ELSE data[copied[k]]]
             Char == {shown[k] : k \in DOMAIN copied}
  <1>5. text' = text \o shown /\ beg' = next
    BY <1>2, <1>3, <1>4 DEF CopyLine
  <1>6. IsSequence(shown)
    <2>1. PICK n \in Nat : n = Len(copied) /\ DOMAIN copied = 1..n
      OBVIOUS
    <2>2. shown \in [1..n -> Char]
      <3>1. DOMAIN shown = 1..n /\ \A k \in 1..n : shown[k] \in Char
        BY <2>1
      <3>2. shown = [k \in 1..n |-> shown[k]]
        BY <2>1
      <3> HIDE DEF shown
      <3> QED BY <3>1, <3>2
    <2>3. shown \in Seq(Char)
      <3> HIDE DEF shown, Char
      <3> QED BY <2>2, FunctionIsSeq
    <2> HIDE DEF shown, Char
    <2> QED BY <2>3 DEF IsSequence
  <1> HIDE DEF shown
  <1> QED BY <1>1, <1>5, <1>6, JoinIs

LEMMA CopyLineKeeps ==
    ASSUME ParseInv, CopyLine
    PROVE  ParseInv'
  <1>1. /\ nodes' = <<>> /\ frames' = <<>> /\ data' = data /\ outcome' = "reading"
        /\ IsSequence(data)
    BY DEF CopyLine, Line, ParseInv, Paragraphs, Reading
  <1>2. IsSequence(text') /\ beg' \in Int
    BY CopyLineIs
  <1>3. Parse'
    BY <1>1, ReadingKeeps
  <1>4. \A n : n \notin DOMAIN nodes'
    BY <1>1
  <1>5. Paragraphs'
    BY <1>1, <1>2, <1>4 DEF Paragraphs, Reading
  <1> QED BY <1>3, <1>5 DEF ParseInv

LEMMA EndReadingKeeps ==
    ASSUME ParseInv, EndReading
    PROVE  ParseInv'
  <1>1. /\ nodes' = <<>> /\ frames' = <<>> /\ data' = data /\ outcome' = "done" /\ beg' = 1
        /\ IsSequence(data) /\ IsSequence(text)
        /\ text' = text \/ text' = Append(text, "\n")
    BY DEF EndReading, ParseInv, Paragraphs, Reading
  <1>2. IsSequence(text')
    BY <1>1, AppendIs
  <1>3. Parse'
    BY <1>1, ReadingKeeps
  <1>4. \A n : n \notin DOMAIN nodes'
    BY <1>1
  <1>5. Paragraphs'
    BY <1>1, <1>2, <1>4 DEF Paragraphs, Reading
  <1> QED BY <1>3, <1>5 DEF ParseInv

-----------------------------------------------------------------------------
(* The next paragraph *)

\* Where it ends and where the next block is.
BlockStop == Len(text) + 1
EmptyAt(p) == Past(text, p, BlockStop, {" "}) = Until(text, p, BlockStop, {"\n"})
BlockLines == {p \in beg..BlockStop - 1 : p = beg \/ text[p - 1] = "\n"}
BlockNext == Min({p \in BlockLines : EmptyAt(p)} \cup {BlockStop})
BlockEnd == Max({p \in beg..BlockNext : p = beg \/ text[p - 1] # "\n"})
BehindLine(p) == Min({Until(text, p, BlockStop, {"\n"}) + 1, BlockStop})

LEMMA NextBlockIs ==
    ASSUME NextBlock
    PROVE  /\ outcome = "done" /\ data # <<>> /\ beg < BlockStop
           /\ beg' = BehindLine(BlockNext) /\ UNCHANGED <<text, ext, defs, data>>
           /\ \/ EmptyAt(beg) /\ UNCHANGED <<nodes, frames, outcome>>
              \/ /\ nodes' = Append(nodes, Node("PARAGRAPH", beg, BlockEnd, beg, BlockEnd))
                 /\ frames' = <<Frame(Len(nodes'), beg, BlockEnd, 0)>>
                 /\ outcome' = "parsing"
  BY Zenon DEF NextBlock, BlockStop, EmptyAt, BlockLines, BlockNext, BlockEnd, BehindLine

\* The places are in order.
LEMMA BlockIs ==
    ASSUME IsSequence(text), beg \in Nat \ {0}, beg < BlockStop
    PROVE  /\ BlockStop \in Int /\ BlockNext \in Int
           /\ BlockEnd \in Nat /\ beg <= BlockEnd /\ BlockEnd <= BlockNext
           /\ BehindLine(BlockNext) \in Nat \ {0} /\ BlockNext <= BehindLine(BlockNext)
           /\ beg <= BehindLine(BlockNext)
  <1>1. PICK stop \in Int : stop = BlockStop
    <2>1. PICK S : text \in Seq(S)
      BY DEF IsSequence
    <2>2. Len(text) \in Nat
      BY <2>1
    <2> QED BY <2>2 DEF BlockStop
  <1>2. PICK b \in Int : b = beg /\ 1 <= b /\ b < stop
    BY <1>1
  <1>3. BlockNext \in Int /\ b <= BlockNext /\ BlockNext <= stop
    <2> DEFINE S == {p \in BlockLines : EmptyAt(p)} \cup {BlockStop}
    <2>1. BlockLines \subseteq b..stop - 1
      BY <1>1, <1>2 DEF BlockLines
    <2>3. BlockNext = Min(S)
      BY DEF BlockNext
    <2>4. stop \in S /\ \A x \in S : x = stop \/ x \in b..stop - 1
      BY <1>1, <2>1, Zenon
    <2> HIDE DEF S
    <2>2. S \subseteq Int /\ (\A x \in S : b <= x) /\ (\A x \in S : x <= stop) /\ stop \in S
      BY <1>2, <2>4
    <2>5. Min(S) \in S
      BY ONLY b \in Int, <2>2, MinOf
    <2> QED BY <2>2, <2>3, <2>5
  <1>4. PICK n \in Int : n = BlockNext /\ b <= n /\ n <= stop
    BY <1>3
  <1>5. BlockEnd \in Int /\ b <= BlockEnd /\ BlockEnd <= n
    <2> DEFINE S == {p \in beg..BlockNext : p = beg \/ text[p - 1] # "\n"}
    <2>1. S \subseteq Int /\ (\A x \in S : x <= n) /\ (\A x \in S : b <= x) /\ b \in S
      BY <1>2, <1>4
    <2>2. BlockEnd = Max(S)
      BY DEF BlockEnd
    <2> HIDE DEF S
    <2>3. Max(S) \in S
      BY ONLY n \in Int, <2>1, MaxOf
    <2> QED BY <2>1, <2>2, <2>3
  <1>6. BehindLine(n) \in Int /\ n <= BehindLine(n)
    <2>1. PICK u \in Int : u = Until(text, n, BlockStop, {"\n"}) /\ n <= u
      <3>1. PICK C : C = {"\n"}
        OBVIOUS
      <3>2. Until(text, n, stop, C) \in Int /\ n <= Until(text, n, stop, C)
        BY UntilFinds
      <3> QED BY <1>1, <3>1, <3>2
    <2>2. PICK v \in Int : v = u + 1
      OBVIOUS
    <2>3. Min({v, stop}) \in {v, stop}
      BY MinOf2
    <2>4. BehindLine(n) = Min({v, stop})
      BY <1>1, <2>1, <2>2 DEF BehindLine
    <2> QED BY <1>4, <2>1, <2>2, <2>3, <2>4
  <1> QED BY <1>1, <1>2, <1>4, <1>5, <1>6

\* The frame of a paragraph.
LEMMA FrameTyped ==
    ASSUME NEW n \in Nat, NEW a \in Nat, NEW b \in Nat
    PROVE  /\ Frame(n, a, b, 0) \in Calls
           /\ Frame(n, a, b, 0).node = n /\ Frame(n, a, b, 0).stop = b
           /\ Frame(n, a, b, 0).i = a /\ Frame(n, a, b, 0).end = a
           /\ Frame(n, a, b, 0).consumed = a
  BY DEF Frame, Calls

LEMMA ParagraphIs ==
    ASSUME NEW a \in Nat, NEW b \in Nat
    PROVE  /\ Node("PARAGRAPH", a, b, a, b) \in NodeTypes
           /\ Node("PARAGRAPH", a, b, a, b).type = "PARAGRAPH"
           /\ Node("PARAGRAPH", a, b, a, b).up = 0
           /\ Node("PARAGRAPH", a, b, a, b).from = a /\ Node("PARAGRAPH", a, b, a, b).to = b
           /\ Node("PARAGRAPH", a, b, a, b).a = a /\ Node("PARAGRAPH", a, b, a, b).b = b
  BY DEF Node, NodeTypes, Names

\* A paragraph is put behind the nodes there are, and a call of it begins.
ParagraphOpens(a, b, n, g) ==
    /\ nodes' \in Seq(NodeTypes) /\ n = Len(nodes) + 1 /\ Len(nodes') = n
    /\ \A m \in 1..Len(nodes) : nodes'[m] = nodes[m]
    /\ nodes'[n].up = 0 /\ nodes'[n].type = "PARAGRAPH"
    /\ nodes'[n].from = a /\ nodes'[n].to = b /\ nodes'[n].a = a /\ nodes'[n].b = b
    /\ frames' = <<g>> /\ g.node = n /\ g.stop = b /\ g.i = a /\ g.end = a /\ g.consumed = a

LEMMA BlockOpens ==
    ASSUME Parse, NEW a \in Nat, NEW b \in Nat,
           nodes' = Append(nodes, Node("PARAGRAPH", a, b, a, b)),
           frames' = <<Frame(Len(nodes'), a, b, 0)>>
    PROVE  \E n \in Nat : \E g \in Calls : ParagraphOpens(a, b, n, g)
  <1>1. nodes \in Seq(NodeTypes) /\ Len(nodes) \in Nat
    BY DEF Parse
  <1>2. PICK x \in NodeTypes : /\ x = Node("PARAGRAPH", a, b, a, b)
                               /\ x.type = "PARAGRAPH" /\ x.up = 0
                               /\ x.from = a /\ x.to = b /\ x.a = a /\ x.b = b
    BY ParagraphIs
  <1>3. PICK n \in Nat : n = Len(nodes) + 1
    BY <1>1
  <1>4. /\ nodes' \in Seq(NodeTypes) /\ Len(nodes') = Len(nodes) + 1
        /\ \A m \in 1..Len(nodes) : nodes'[m] = nodes[m]
        /\ nodes'[Len(nodes) + 1] = x
    BY <1>1, <1>2, AppendProperties
  <1>5. PICK g \in Calls : /\ g = Frame(n, a, b, 0) /\ g.node = n /\ g.stop = b
                           /\ g.i = a /\ g.end = a /\ g.consumed = a
    BY FrameTyped
  <1>6. frames' = <<g>>
    BY <1>3, <1>4, <1>5
  <1>7. ParagraphOpens(a, b, n, g)
    BY <1>2, <1>3, <1>4, <1>5, <1>6 DEF ParagraphOpens
  <1> QED BY <1>7

LEMMA OpensTyped ==
    ASSUME Parse, NEW a \in Nat, NEW b \in Nat, NEW n \in Nat, NEW g \in Calls,
           ParagraphOpens(a, b, n, g)
    PROVE  NodesTyped' /\ SpansNested'
  <1>1. DOMAIN nodes' = 1..n /\ Len(nodes) \in Nat /\ n = Len(nodes) + 1
    BY DEF ParagraphOpens, Parse
  <1>2. ASSUME NEW m \in 1..n
        PROVE  /\ nodes'[m].up < m
               /\ nodes'[m].up # 0 => /\ nodes'[nodes'[m].up].type # "NORMAL_TEXT"
                                      /\ nodes'[nodes'[m].up].a <= nodes'[m].from
                                      /\ nodes'[m].to <= nodes'[nodes'[m].up].b
               /\ nodes'[m].type = "NORMAL_TEXT" => nodes'[m].a <= nodes'[m].b
    <2>1. CASE m = n
      <3>1. nodes'[m].up = 0 /\ nodes'[m].type = "PARAGRAPH"
        BY <2>1 DEF ParagraphOpens
      <3>2. 0 < m
        BY <1>1, <2>1
      <3> QED BY <3>1, <3>2
    <2>2. CASE m # n
      <3>1. m \in 1..Len(nodes)
        BY <1>1, <2>2
      <3>2. nodes'[m] = nodes[m]
        BY <3>1 DEF ParagraphOpens
      <3>3. PICK u : u = nodes[m].up /\ u \in Nat /\ u < m /\ (u # 0 => u \in 1..Len(nodes))
        BY <3>1, UpIs
      <3>4. /\ u # 0 => nodes[u].type # "NORMAL_TEXT"
            /\ u # 0 => nodes[u].a <= nodes[m].from /\ nodes[m].to <= nodes[u].b
            /\ nodes[m].type = "NORMAL_TEXT" => nodes[m].a <= nodes[m].b
        BY <3>1, <3>3 DEF Parse, NodesTyped, SpansNested
      <3>5. u # 0 => nodes'[u] = nodes[u]
        BY <3>3 DEF ParagraphOpens
      <3> QED BY <3>2, <3>3, <3>4, <3>5
    <2> QED BY <2>1, <2>2
  <1> QED BY <1>1, <1>2 DEF NodesTyped, SpansNested

LEMMA OpensOrdered ==
    ASSUME Parse, NEW a \in Nat, NEW b \in Nat, NEW n \in Nat, NEW g \in Calls,
           ParagraphOpens(a, b, n, g), text' = text,
           \A m \in DOMAIN nodes : nodes[m].up = 0 => nodes[m].to <= a
    PROVE  Ordered'
  <1>1. DOMAIN nodes' = 1..n /\ Len(nodes) \in Nat /\ n = Len(nodes) + 1
        /\ DOMAIN nodes = 1..Len(nodes)
    BY DEF ParagraphOpens, Parse
  <1> SUFFICES ASSUME NEW k \in 1..n, NEW m \in 1..k - 1, nodes'[m].up = nodes'[k].up
               PROVE  InOrder(m, k)'
    BY <1>1 DEF Ordered
  <1>2. m \in 1..Len(nodes) /\ nodes'[m] = nodes[m]
    <2>1. m \in 1..Len(nodes)
      BY <1>1
    <2> QED BY <2>1 DEF ParagraphOpens
  <1>3. CASE k = n
    <2>1. nodes'[k].up = 0 /\ nodes'[k].from = a
      BY <1>3 DEF ParagraphOpens
    <2>2. nodes[m].to <= a
      BY <1>1, <1>2, <2>1
    <2>3. nodes'[m].to <= nodes'[k].from
      BY <1>2, <2>1, <2>2
    <2> QED BY <2>3 DEF InOrder
  <1>4. CASE k # n
    <2>1. k \in 1..Len(nodes)
      BY <1>1, <1>4
    <2>2. nodes'[k] = nodes[k]
      BY <2>1 DEF ParagraphOpens
    <2>3. InOrder(m, k)
      BY <1>1, <1>2, <2>1, <2>2 DEF Parse, Ordered
    <2>4. \A j \in m..k : nodes'[j] = nodes[j]
      <3>1. \A j \in m..k : j \in 1..Len(nodes)
        BY <1>2, <2>1
      <3> QED BY <3>1 DEF ParagraphOpens
    <2>5. Emptied(m, k) => Emptied(m, k)'
      BY <2>2, <2>4 DEF Emptied
    <2>6. MarkAgain(m, k) => MarkAgain(m, k)'
      BY <1>2, <2>2 DEF MarkAgain
    <2> QED BY <1>2, <2>2, <2>3, <2>5, <2>6 DEF InOrder
  <1> QED BY <1>3, <1>4

LEMMA OpensStack ==
    ASSUME Parse, NEW a \in Nat \ {0}, NEW b \in Nat, NEW n \in Nat, NEW g \in Calls,
           ParagraphOpens(a, b, n, g), UNCHANGED <<text, ext, defs>>
    PROVE  Stack'
  <1>1. /\ frames' = <<g>> /\ g.node = n /\ g.stop = b /\ g.i = a /\ g.end = a
        /\ g.consumed = a /\ Len(nodes') = n /\ n # 0
        /\ nodes'[n].type = "PARAGRAPH" /\ nodes'[n].a = a /\ nodes'[n].b = b
    <2>1. Len(nodes) \in Nat
      BY DEF Parse
    <2> QED BY <2>1 DEF ParagraphOpens
  <1>2. /\ frames' \in Seq(Calls) /\ Len(frames') = 1 /\ frames'[1] = g /\ frames' # <<>>
        /\ DOMAIN frames' = 1..1
    BY <1>1
  <1>3. CallTyped(g)'
    <2>1. BeginOf(g)' = a
      BY <1>1 DEF BeginOf
    <2> QED BY <1>1, <2>1 DEF CallTyped
  <1>4. CallsTyped'
    <2> SUFFICES ASSUME NEW k \in 1..Len(frames')
                 PROVE  \E f \in Calls : f = frames'[k] /\ CallTyped(f)'
      BY <1>2, StackTyped
    <2>1. k = 1
      BY <1>2
    <2> QED BY <1>2, <1>3, <2>1
  <1>5. CallsNested'
    <2>1. \A k : k \notin 2..Len(frames')
      BY <1>2
    <2> QED BY <2>1 DEF CallsNested
  <1>6. Passed'
    <2>1. ASSUME NEW m \in 1..n
          PROVE  nodes'[m].up < m
      <3>1. DOMAIN nodes' = 1..n
        BY <1>1 DEF ParagraphOpens
      <3> QED BY <3>1, OpensTyped DEF NodesTyped
    <2>2. \A m \in 1..n : nodes'[m].up # n
      <3> SUFFICES ASSUME NEW m \in 1..n, nodes'[m].up = n
                   PROVE  FALSE
        OBVIOUS
      <3> QED BY <2>1
    <2>3. DOMAIN nodes' = 1..n
      BY <1>1 DEF ParagraphOpens
    <2>4. \A k \in DOMAIN frames' : frames'[k].node = n
      BY <1>1, <1>2
    <2> QED BY <2>2, <2>3, <2>4 DEF Passed
  <1>7. Copied' /\ Tried'
    <2>1. Top' = g
      BY <1>2 DEF Top
    <2>2. g.consumed = g.i /\ ~(g.end = g.i + 1)
      BY <1>1
    <2> QED BY <2>1, <2>2, CopiedAnew
  <1> QED BY <1>2, <1>4, <1>5, <1>6, <1>7 DEF Stack

LEMMA NextBlockKeeps ==
    ASSUME ParseInv, NextBlock
    PROVE  ParseInv'
  <1>1. /\ Parse /\ Paragraphs /\ IsSequence(text) /\ IsSequence(data)
        /\ outcome = "done" /\ data # <<>> /\ beg < BlockStop /\ beg \in Nat \ {0}
        /\ text' = text /\ data' = data /\ ext' = ext /\ defs' = defs
        /\ beg' = BehindLine(BlockNext)
        /\ \A m \in DOMAIN nodes : nodes[m].up = 0 => nodes[m].to <= beg
    BY NextBlockIs DEF ParseInv, Paragraphs
  <1>2. PICK a \in Nat \ {0}, b \in Nat, c \in Nat \ {0} :
              a = beg /\ b = BlockEnd /\ c = beg' /\ a <= b /\ b <= c
    <2>1. PICK n \in Int : n = BlockNext
      BY <1>1, BlockIs
    <2> QED BY <1>1, <2>1, BlockIs
  <1>3. CASE UNCHANGED <<nodes, frames, outcome>>
    <2>1. nodes' = nodes /\ frames' = frames /\ outcome' = "done"
      BY <1>1, <1>3
    <2>2. Parse'
      BY <1>1, <2>1, EndKeeps
    <2>3. \A m \in DOMAIN nodes : nodes[m].up = 0 => nodes[m].to <= c
      <3>1. ASSUME NEW m \in 1..Len(nodes), nodes[m].up = 0
            PROVE  nodes[m].to <= c
        <4>1. nodes[m].to \in Int
          BY <1>1, UpIs, NodeIs
        <4>2. nodes[m].to <= a
          BY <1>1, <1>2, <3>1 DEF Parse
        <4> QED BY <1>2, <4>1, <4>2
      <3> QED BY <1>1, <3>1 DEF Parse
    <2>4. Paragraphs'
      BY <1>1, <1>2, <2>1, <2>3 DEF Paragraphs, Reading
    <2> QED BY <2>2, <2>4 DEF ParseInv
  <1>4. CASE /\ nodes' = Append(nodes, Node("PARAGRAPH", beg, BlockEnd, beg, BlockEnd))
             /\ frames' = <<Frame(Len(nodes'), beg, BlockEnd, 0)>>
             /\ outcome' = "parsing"
    <2>1. PICK n \in Nat, g \in Calls : ParagraphOpens(a, b, n, g)
      BY <1>1, <1>2, <1>4, BlockOpens
    <2>2. NodesTyped' /\ SpansNested' /\ nodes' \in Seq(NodeTypes)
      BY <1>1, <2>1, OpensTyped DEF ParagraphOpens
    <2>3. Ordered'
      BY <1>1, <1>2, <2>1, OpensOrdered
    <2>4. Stack'
      BY <1>1, <2>1, OpensStack
    <2>5. Parse'
      BY <2>2, <2>3, <2>4 DEF Parse, Stack
    <2>6. \A m \in DOMAIN nodes' : nodes'[m].up = 0 => nodes'[m].to <= c
      <3>1. DOMAIN nodes' = 1..n /\ n = Len(nodes) + 1 /\ Len(nodes) \in Nat
        BY <1>1, <2>1 DEF ParagraphOpens, Parse
      <3>2. ASSUME NEW m \in 1..n, nodes'[m].up = 0
            PROVE  nodes'[m].to <= c
        <4>1. CASE m = n
          BY <1>2, <2>1, <4>1 DEF ParagraphOpens
        <4>2. CASE m # n
          <5>1. m \in 1..Len(nodes)
            BY <3>1, <4>2
          <5>2. nodes'[m] = nodes[m]
            BY <2>1, <5>1 DEF ParagraphOpens
          <5>3. nodes[m].to \in Int
            BY <1>1, <5>1, UpIs, NodeIs
          <5>4. nodes[m].to <= a
            BY <1>1, <1>2, <3>2, <5>1, <5>2 DEF Parse
          <5> QED BY <1>2, <5>2, <5>3, <5>4
        <4> QED BY <4>1, <4>2
      <3> QED BY <3>1, <3>2
    <2>7. frames' # <<>> /\ frames'[1].node # 0
      <3>1. Len(nodes) \in Nat
        BY <1>1 DEF Parse
      <3>2. frames' = <<g>> /\ g.node # 0
        BY <2>1, <3>1 DEF ParagraphOpens
      <3> QED BY <3>2
    <2>8. Paragraphs'
      BY <1>1, <1>2, <1>4, <2>6, <2>7 DEF Paragraphs, Reading
    <2> QED BY <2>5, <2>8 DEF ParseInv
  <1> QED BY <1>3, <1>4, NextBlockIs

-----------------------------------------------------------------------------
(* The invariant holds *)

\* What parse_inline leaves alone.
LEMMA ParseInlineTexts ==
    ASSUME ParseInline
    PROVE  text' = text /\ ext' = ext /\ outcome = "parsing" /\ outcome' \in {"parsing", "done", "refused"}
  <1>1. ASSUME NEW r, Handle(r)
        PROVE  text' = text /\ ext' = ext /\ outcome' = outcome
    BY <1>1 DEF Handle
  <1>2. ASSUME NEW r, Do(r)
        PROVE  text' = text /\ ext' = ext /\ outcome' = outcome
    BY <1>1, <1>2 DEF Do
  <1>3. ASSUME NEW p, NEW offset, LinkAt(p, offset)
        PROVE  text' = text /\ ext' = ext /\ (outcome' = outcome \/ outcome' = "refused")
    BY <1>1, <1>3 DEF LinkAt
  <1>4. ASSUME NEW C, At(C)
        PROVE  outcome = "parsing"
    BY <1>4 DEF At
  <1>5. CASE CopyText
    BY <1>5 DEF CopyText
  <1>6. CASE Return
    BY <1>6 DEF Return
  <1>7. CASE Emphasis \/ Linebreak \/ Codespan \/ Escape \/ Entity \/ Langle
    BY <1>2, <1>4, <1>7 DEF Emphasis, Linebreak, Codespan, Escape, Entity, Langle
  <1>8. CASE Superscript \/ Formula \/ Autolink
    BY <1>2, <1>4, <1>8 DEF Superscript, Formula, Autolink
  <1>9. CASE Link \/ Image
    BY <1>2, <1>3, <1>4, <1>9 DEF Link, Image
  <1> QED BY <1>5, <1>6, <1>7, <1>8, <1>9 DEF ParseInline

\* It keeps what is known of the paragraphs.
LEMMA InlineKeeps ==
    ASSUME ParseInv, ParseInline, UNCHANGED <<data, beg>>
    PROVE  ParseInv' /\ Goes
  <1>1. /\ Parse /\ Paragraphs /\ text' = text /\ data' = data /\ beg' = beg
        /\ outcome = "parsing" /\ outcome' \in {"parsing", "done", "refused"}
    BY ParseInlineTexts DEF ParseInv
  <1>2. Parse' /\ Goes
    BY <1>1, ParseInlineKeeps
  <1>3. beg \in Nat \ {0} /\ IsSequence(data) /\ IsSequence(text) /\ ~ Reading'
    BY <1>1 DEF Paragraphs, Reading
  <1>4. ASSUME data # <<>>
        PROVE  /\ frames'[1].node # 0
               /\ \A n \in DOMAIN nodes' : nodes'[n].up = 0 => nodes'[n].to <= beg
    <2>1. /\ frames[1].node # 0
          /\ \A n \in DOMAIN nodes : nodes[n].up = 0 => nodes[n].to <= beg
      BY <1>1, <1>4 DEF Paragraphs, Parse
    <2>2. Top.node # 0
      <3>1. Len(frames) \in Nat \ {0} /\ Top = frames[Len(frames)] /\ Top.node \in Nat
        BY <1>1, TopIs
      <3>2. CASE Len(frames) = 1
        BY <2>1, <3>1, <3>2
      <3>3. CASE Len(frames) # 1
        <4>1. Len(frames) \in 2..Len(frames) /\ 1 \in 1..Len(frames) - 1
          <5>1. PICK L \in Nat : L = Len(frames) /\ L # 0 /\ L # 1
            BY <3>1, <3>3
          <5>2. L \in 2..L /\ 1 \in 1..L - 1
            BY <5>1
          <5> QED BY <5>1, <5>2
        <4>2. frames[1].node < Top.node
          BY <1>1, <3>1, <4>1 DEF Parse, CallsNested
        <4>3. frames[1].node \in Nat
          <5>1. frames[1] \in Calls
            BY <1>1, <3>1 DEF Parse
          <5> QED BY <5>1, CallIs
        <4> QED BY <3>1, <4>2, <4>3
      <3> QED BY <3>2, <3>3
    <2>3. CASE nodes' = nodes
      BY <1>2, <2>1, <2>3 DEF Goes, Root
    <2>4. CASE Pushed
      <3>1. /\ nodes' \in Seq(NodeTypes) /\ nodes \in Seq(NodeTypes)
            /\ Len(nodes) \in Nat /\ Len(nodes') \in Nat
        BY <1>1, <2>4 DEF Parse, Pushed
      <3>2. ASSUME NEW n \in 1..Len(nodes'), nodes'[n].up = 0
            PROVE  nodes'[n].to <= beg
        <4>1. CASE n \in 1..Len(nodes)
          <5>1. nodes[n].up = 0 /\ nodes'[n].to <= nodes[n].to
            BY <2>4, <3>2, <4>1 DEF Pushed, Kept
          <5>2. nodes[n].to <= beg
            BY <2>1, <3>1, <4>1, <5>1
          <5>3. nodes[n].to \in Int /\ nodes'[n].to \in Int
            <6>1. nodes[n] \in NodeTypes /\ nodes'[n] \in NodeTypes
              BY <3>1, <3>2, <4>1
            <6> QED BY <6>1, NodeIs
          <5> QED BY <1>3, <5>1, <5>2, <5>3
        <4>2. CASE n \notin 1..Len(nodes)
          <5>1. n \in Len(nodes) + 1..Len(nodes')
            BY <3>1, <4>2
          <5>2. nodes'[n].up = Top.node
            BY <2>4, <5>1 DEF Pushed, New
          <5> QED BY <2>2, <3>2, <5>2
        <4> QED BY <4>1, <4>2
      <3>3. DOMAIN nodes' = 1..Len(nodes')
        BY <3>1
      <3> QED BY <1>2, <2>1, <3>2, <3>3 DEF Goes, Root
    <2> QED BY <1>2, <2>3, <2>4 DEF Goes
  <1>5. outcome' # "reading"
    BY <1>1
  <1>6. Paragraphs'
    BY <1>1, <1>3, <1>4, <1>5 DEF Paragraphs
  <1> QED BY <1>2, <1>6 DEF ParseInv

LEMMA StaysInv ==
    ASSUME ParseInv, UNCHANGED docVars
    PROVE  ParseInv'
  <1>1. UNCHANGED <<text, ext, defs, nodes, frames, outcome>> /\ UNCHANGED <<data, beg>>
    BY DEF docVars, vars
  <1>2. Parse'
    BY <1>1, StutterKeeps DEF ParseInv
  <1>3. Paragraphs'
    BY <1>1 DEF ParseInv, Paragraphs, Reading
  <1> QED BY <1>2, <1>3 DEF ParseInv

\* What a text is made of.
LEMMA WordIs ==
    ASSUME NEW P, P \subseteq Seq(STRING), NEW most \in Nat, NEW w \in BoundedSeq(P, most)
    PROVE  FlattenSeq(w) \in Seq(STRING)
  <1>1. PICK m \in 0..most : w \in [1..m -> P]
    BY DEF BoundedSeq, SeqOf
  <1>2. PICK S : S = STRING
    OBVIOUS
  <1>3. m \in Nat /\ P \subseteq Seq(S)
    BY <1>2
  <1>4. FlattenSeq(w) \in Seq(S)
    BY ONLY w \in [1..m -> P], <1>1, <1>3, FlattenIs
  <1> QED BY <1>2, <1>4

\* A text is parsed by itself.
LEMMA InitKeeps ==
    ASSUME Init, data = <<>>, beg = 1
    PROVE  ParseInv
  <1>1. PICK x \in Inputs : \E w \in BoundedSeq(x.pieces, x.most) : text = FlattenSeq(w)
    BY DEF Init
  <1>2. text \in Seq(STRING)
    <2>1. x.pieces \subseteq Seq(STRING) /\ x.most \in Nat
      BY InputsAssumption
    <2> QED BY <1>1, <2>1, WordIs
  <1>3. PICK stop \in Nat : stop = Len(text) + 1 /\ 1 <= stop
    BY <1>2
  <1>4. PICK g \in Calls : /\ g = Frame(0, 1, stop, 0) /\ g.node = 0 /\ g.stop = stop
                           /\ g.i = 1 /\ g.end = 1 /\ g.consumed = 1
    BY FrameTyped
  <1>5. frames = <<g>> /\ nodes = <<>> /\ outcome = "parsing"
    BY <1>3, <1>4 DEF Init
  <1>6. Len(frames) = 1 /\ frames[1] = g /\ DOMAIN frames = 1..1 /\ frames \in Seq(Calls)
    BY <1>5
  <1>7. \A n : n \notin DOMAIN nodes
    BY <1>5
  <1>8. NodesTyped /\ SpansNested /\ Ordered /\ Passed
    BY <1>7 DEF NodesTyped, SpansNested, Ordered, Passed
  <1>9. CallsTyped
    <2>1. BeginOf(g) = 1
      BY <1>4 DEF BeginOf
    <2>2. CallTyped(g)
      BY <1>4, <1>5, <2>1 DEF CallTyped
    <2>3. \A k \in DOMAIN frames : frames[k] = g
      BY <1>6
    <2> QED BY <2>2, <2>3 DEF CallsTyped
  <1>10. CallsNested
    <2>1. \A k : k \notin 2..Len(frames)
      BY <1>6
    <2> QED BY <2>1 DEF CallsNested
  <1>11. Copied /\ Tried
    <2>1. Top = g
      BY <1>6 DEF Top
    <2>2. ~(g.consumed < g.i) /\ ~(g.end = g.i + 1)
      BY <1>4
    <2>3. TriedAt(g)
      BY <2>2 DEF TriedAt
    <2> QED BY <2>1, <2>2, <2>3 DEF Copied, Tried
  <1>12. Parse
    BY <1>5, <1>6, <1>8, <1>9, <1>10, <1>11 DEF Parse
  <1>13. IsSequence(data) /\ IsSequence(text)
    <2>1. data \in Seq(STRING)
      OBVIOUS
    <2> QED BY <1>2, <2>1 DEF IsSequence
  <1>14. Paragraphs
    BY <1>5, <1>13 DEF Paragraphs, Reading
  <1> QED BY <1>12, <1>14 DEF ParseInv

LEMMA DocInitKeeps ==
    ASSUME DocInit
    PROVE  ParseInv
  <1>1. CASE Init /\ data = <<>>
    BY <1>1, InitKeeps DEF DocInit
  <1>2. CASE ~(Init /\ data = <<>>)
    <2>1. PICK x \in Documents : \E w \in BoundedSeq(x.pieces, x.most) :
              data = x.start \o FlattenSeq(w)
      BY <1>2 DEF DocInit
    <2>2. outcome = "called" /\ text = <<>> /\ nodes = <<>> /\ frames = <<>>
      BY <1>2 DEF DocInit
    <2>3. data \in Seq(STRING)
      <3>1. x.start \in Seq(STRING) /\ x.pieces \subseteq Seq(STRING) /\ x.most \in Nat
        BY DocumentsAssumption
      <3>2. PICK t \in Seq(STRING) : data = x.start \o t
        BY <2>1, <3>1, WordIs
      <3> QED BY <3>1, <3>2, ConcatProperties
    <2>4. IsSequence(data) /\ IsSequence(text)
      <3>1. text \in Seq(STRING)
        BY <2>2
      <3> QED BY <2>3, <3>1 DEF IsSequence
    <2>5. \A n : n \notin DOMAIN nodes /\ n \notin DOMAIN frames
      BY <2>2
    <2>6. NodesTyped /\ SpansNested /\ Ordered /\ Passed /\ CallsTyped /\ Copied /\ Tried
      BY <2>2, <2>5 DEF NodesTyped, SpansNested, Ordered, Passed, CallsTyped, Copied, Tried
    <2>7. CallsNested
      <3>1. \A k : k \notin 2..Len(frames)
        BY <2>2
      <3> QED BY <3>1 DEF CallsNested
    <2>8. Parse
      <3>1. nodes \in Seq(NodeTypes) /\ frames \in Seq(Calls)
        BY <2>2
      <3> QED BY <2>2, <2>6, <2>7, <3>1 DEF Parse
    <2>9. Paragraphs
      BY <2>2, <2>4, <2>5 DEF Paragraphs, Reading
    <2> QED BY <2>8, <2>9 DEF ParseInv
  <1> QED BY <1>1, <1>2

LEMMA NextKeeps ==
    ASSUME ParseInv, [Next]_docVars
    PROVE  ParseInv'
  <1>1. CASE Over \/ UNCHANGED docVars
    BY <1>1, StaysInv DEF Over
  <1>2. CASE ParseInline /\ UNCHANGED <<data, metas, beg, taken, source>>
    BY <1>2, InlineKeeps
  <1> QED BY <1>1, <1>2, CallKeeps, MetadataKeeps, DefineKeeps, CopyLineKeeps, EndReadingKeeps,
          NextBlockKeeps DEF Next

-----------------------------------------------------------------------------
(* What it says of the parse *)

\* parse_inline and what it calls keep the nodes, the stack of its calls and
\* the paragraphs in the relations above, for any text and any definitions.
THEOREM ParseInvariant == Spec => []ParseInv
  <1>1. DocInit => ParseInv
    BY DocInitKeeps
  <1>2. ParseInv /\ [Next]_docVars => ParseInv'
    BY NextKeeps
  <1> QED BY <1>1, <1>2, PTL DEF Spec

\* Where char_linebreak takes blanks back there is text before it.
LEMMA LinebreakAfterText ==
    ASSUME ParseInv
    PROVE  AssertsHold
  <1> SUFFICES ASSUME At({"\n"}), CharLinebreak(Top.i, Top.stop, Offset) # NoSpan
               PROVE  LastChild # 0 /\ nodes[LastChild].type = "NORMAL_TEXT"
    BY DEF AssertsHold
  <1>1. Parse /\ Ready /\ Top.i \in Nat /\ Top.consumed \in Nat
    BY AtReady, TopIs DEF ParseInv, Ready
  <1>2. ~(Offset < 2)
    BY DEF CharLinebreak
  <1>3. Top.consumed < Top.i
    <2>1. Offset = Top.i - Top.consumed
      BY DEF Offset
    <2> HIDE DEF Top
    <2> QED BY <1>1, <1>2, <2>1
  <1>4. TextBefore(LastChild)
    BY <1>1, <1>3 DEF Ready, Parse, Copied
  <1> QED BY <1>4 DEF TextBefore

\* The assert of char_linebreak holds whatever the text: the node before a
\* line break, off which it takes the blanks, is text.
THEOREM LinebreaksFollowText == Spec => []AssertsHold
  <1>1. ParseInv => AssertsHold
    BY LinebreakAfterText
  <1> QED BY <1>1, ParseInvariant, PTL

\* Nodes of one parent stand in the order of what they were made of.
LEMMA OrderedNodes ==
    ASSUME ParseInv
    PROVE  SpansNested /\ NodesInOrder
  <1>1. SpansNested /\ Ordered
    BY DEF ParseInv, Parse
  <1>2. \A m, n : InOrder(m, n) => nodes[m].to <= nodes[n].from \/ ShownTwice(m, n)
    BY DEF InOrder, ShownTwice
  <1>3. NodesInOrder
    BY <1>1, <1>2 DEF Ordered, NodesInOrder
  <1> QED BY <1>1, <1>3

\* Whatever the delimiters in a text, what a span was made of is within the
\* span around it and behind what came before it there, but for the two cases
\* in which the parser shows a character twice: no char_ function returns a
\* place behind its part of the text or takes back what is not its own.
THEOREM SpansInOrder == Spec => [](SpansNested /\ NodesInOrder)
  <1>1. ParseInv => SpansNested /\ NodesInOrder
    BY OrderedNodes
  <1> QED BY <1>1, ParseInvariant, PTL

\* A step of parse_inline gets it further.
LEMMA StepGetsFurther ==
    ASSUME ParseInv, [Next]_docVars
    PROVE  [\/ outcome # "parsing" \/ outcome' # outcome
            \/ Reached' > Reached
            \/ Reached' = Reached /\ (Top'.i > Top.i \/ Len(frames') < Len(frames))]_vars
  <1>1. CASE outcome # "parsing"
    BY <1>1
  <1>2. CASE UNCHANGED docVars \/ Over
    BY <1>2 DEF Over, docVars
  <1>3. CASE ParseInline /\ UNCHANGED <<data, metas, beg, taken, source>>
    BY <1>3, InlineKeeps, SMTT(30) DEF Goes, Onward
  <1>4. CASE Call \/ Metadata \/ Define \/ CopyLine \/ EndReading \/ NextBlock
    BY <1>1, <1>4 DEF Call, Metadata, Define, CopyLine, EndReading, NextBlock, Line
  <1> QED BY <1>2, <1>3, <1>4 DEF Next

\* Every round of parse_inline, also one in which a char_ function finds that
\* nothing begins or takes text away, gets further in the text or returns to a
\* caller that is as far: for any text the parse comes to its end.
THEOREM RoundsGetFurther == Spec => GetsFurther
  <1>1. ParseInv /\ [Next]_docVars =>
            [\/ outcome # "parsing" \/ outcome' # outcome
             \/ Reached' > Reached
             \/ Reached' = Reached /\ (Top'.i > Top.i \/ Len(frames') < Len(frames))]_vars
    BY StepGetsFurther
  <1> QED BY <1>1, ParseInvariant, PTL DEF Spec, GetsFurther

=============================================================================
