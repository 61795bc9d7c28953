----------------------------- MODULE TreeMatch -----------------------------
(***************************************************************************)
(* The first phases of diff.c: which node of the new tree is the same as   *)
(* which node of the old one.  A behaviour signs and weighs the nodes of   *)
(* both trees, takes the new nodes heaviest first, matches each with the   *)
(* best old node of its signature, downwards (match_down) and upwards      *)
(* (match_up), and then runs the two optimisations.                        *)
(*                                                                         *)
(* Weights and logarithms are in hundredths.  A text is a sequence of      *)
(* words of one letter and of single blanks.                               *)
(***************************************************************************)
EXTENDS Integers, FiniteSets, SequencesExt

CONSTANT Inputs     \* the pairs of trees <<nold, nnew>> that are compared

VARIABLES
    pc,         \* the phase
    old, new,   \* the two trees, functions from identifiers to nodes
    xold, xnew, \* struct xmap: signature, weight and match of every node
    pq,         \* the queue of new nodes to match
    down,       \* the calls of match_down still to make, innermost first
    climb,      \* the locals of match_up: the pair, and the levels left
    walk,       \* the new nodes still to queue, or to optimise
    sibs        \* in topdown, the nodes whose next siblings are looked at first

matchVars == <<old, new, xold, xnew, pq, down, climb, walk, sibs>>

NULL == -1
Root == 0

\* A node of a parse tree; attr holds what its union of attributes does.
InputNodes ==
    [type : STRING, attr : Seq(STRING), num : Nat,
     parent : Nat \cup {NULL}, children : Seq(Nat)]

\* The nodes of a document, numbered as the parser does: a node after the
\* one it is in.
IsTree(t) ==
    /\ IsFiniteSet(DOMAIN t) /\ DOMAIN t = 0 .. Cardinality(DOMAIN t) - 1
    /\ Root \in DOMAIN t
    /\ \A n \in DOMAIN t :
        /\ t[n] \in InputNodes
        /\ t[n].parent < n
        /\ n # Root => /\ t[n].parent \in DOMAIN t
                       /\ n \in ToSet(t[t[n].parent].children)
        /\ IsInjective(t[n].children)
        /\ \A k \in ToSet(t[n].children) : k \in DOMAIN t /\ t[k].parent = n

\* What mdown_doc_parse makes: one root, whose last child is the footer.
IsDocument(t) ==
    /\ IsTree(t)
    /\ \A n \in DOMAIN t : t[n].type = "ROOT" <=> n = Root
    /\ \E f \in ToSet(t[Root].children) :
        /\ t[f].children = <<>>
        /\ \A n \in DOMAIN t : t[n].type = "DOC_FOOTER" <=> n = f

ASSUME InputsAssumption ==
    \A pair \in Inputs : IsDocument(pair[1]) /\ IsDocument(pair[2])

\* log() of 1, 2, 3, ... in hundredths.
Log == <<0, 69, 110, 139, 161, 179, 195, 208, 220, 230, 240, 248, 256, 264,
         271, 277, 283, 289, 294, 300, 304, 309, 314, 318, 322>>

IsOpaque(nd) == nd.type \in {"TABLE_BLOCK", "META"}

\* Every node of t with the nodes it is in, innermost first.
Ancestors(t) ==
    LET a[n \in DOMAIN t] ==
            IF t[n].parent = NULL THEN <<>>
            ELSE <<t[n].parent>> \o a[t[n].parent]
    IN  a

\* The nodes below n in the order of the text, n first.
Subtree(t, n) ==
    LET s[k \in DOMAIN t] ==
            <<k>> \o FlattenSeq([j \in DOMAIN t[k].children |-> s[t[k].children[j]]])
    IN  s[n]

\* The nodes of t, children before their parents.
PostOrder(t) ==
    LET s[k \in DOMAIN t] ==
            FlattenSeq([j \in DOMAIN t[k].children |-> s[t[k].children[j]]]) \o <<k>>
    IN  s[Root]

\* The nodes of t that have a slot in the map: not those below an opaque one.
Mapped(t) ==
    {n \in DOMAIN t : \A k \in ToSet(Ancestors(t)[n]) : ~IsOpaque(t[k])}

-----------------------------------------------------------------------------
(* assign_sigs *)

\* The types weighed by the text they hold.
TextTypes ==
    {"BLOCKCODE", "BLOCKHTML", "LINK_AUTO", "CODESPAN", "META", "IMAGE",
     "RAW_HTML", "NORMAL_TEXT", "ENTITY"}

\* The types whose attributes are part of the signature, all of them or,
\* for those an equation or a list also has, only the first.
SignedTypes ==
    TextTypes \cup
    {"LISTITEM", "HEADER", "LINK", "TABLE_HEADER", "TABLE_CELL",
     "FOOTNOTE_REF", "FOOTNOTE_DEF"}

\* Fault: the level of a header is left out.
Signed_NoLevel(nd) ==
    IF nd.type \in SignedTypes \ {"HEADER"} THEN nd.attr ELSE <<>>

Signed(nd) ==
    IF nd.type \in SignedTypes THEN nd.attr
    ELSE IF nd.type \in {"LIST", "MATH_BLOCK"} THEN SubSeq(nd.attr, 1, 1)
    ELSE <<>>

Signatures(t) ==
    LET s[n \in DOMAIN t] ==
            <<t[n].type, Signed(t[n]),
              [j \in DOMAIN t[n].children |-> s[t[n].children[j]]]>>
    IN  s

Weights(t) ==
    LET w[n \in DOMAIN t] ==
            IF t[n].type \in TextTypes
            THEN 100 + (IF t[n].attr = <<>> THEN 0 ELSE Log[Len(t[n].attr)])
            ELSE 100 + FoldLeft(LAMBDA sum, k : sum + w[k], 0, t[n].children)
    IN  w

AssignSigs(t) ==
    LET s == Signatures(t)
        w == Weights(t)
    IN  [n \in Mapped(t) |-> [sig |-> s[n], weight |-> w[n], match |-> NULL]]

MaxWeight(x) == Max({x[n].weight : n \in DOMAIN x})

-----------------------------------------------------------------------------
(* pqueue and the search for candidates *)

\* n goes before the i-th node of the queue, the first one that is lighter,
\* or behind lighter identifiers of its own weight; the loop over these runs
\* on into lighter nodes.
Pqueue(q, n, i) ==
    LET Heavier(k) == xnew[q[k]].weight > xnew[n].weight
        Lighter(k) == xnew[q[k]].weight < xnew[n].weight
    IN  \/ /\ \A k \in 1 .. i - 1 : Heavier(k)
           /\ i <= Len(q) => Lighter(i)
        \/ \E first \in DOMAIN q :
            /\ first <= i /\ \A k \in 1 .. first - 1 : Heavier(k)
            /\ ~Heavier(first) /\ ~Lighter(first)
            /\ \A k \in first .. i - 1 : n >= q[k]
            /\ i <= Len(q) => n < q[i]

\* The levels of match_up and optimality: log(n) * W/W_0, or at least 1.
Height(n) ==
    LET d == Log[Cardinality(DOMAIN xnew)] * xnew[n].weight
        unit == 100 * MaxWeight(xnew)
        levels == (d + unit - 1) \div unit
    IN  IF levels = 0 THEN 1 ELSE levels

\* How many of the nodes above n and o, at most Height(n) of them, match.
Optimality(n, o) ==
    LET upn == Ancestors(new)[n]
        upo == Ancestors(old)[o]
    IN  1 + Cardinality({i \in DOMAIN upn \cap DOMAIN upo :
                i <= Height(n) /\ xnew[upn[i]].match = upo[i]})

Candidates(n) ==
    {o \in DOMAIN xold : xold[o].match = NULL /\ xold[o].sig = xnew[n].sig}

Distance(n, o) == IF n > o THEN n - o ELSE o - n

\* candidate: the greater optimality, then the closer identifier, then the
\* first one found.
Better(n, o, other) ==
    \/ Optimality(n, o) > Optimality(n, other)
    \/ /\ Optimality(n, o) = Optimality(n, other)
       /\ \/ Distance(n, o) < Distance(n, other)
          \/ Distance(n, o) = Distance(n, other) /\ o < other

Optmatch(n, o) == \A other \in Candidates(n) \ {o} : Better(n, o, other)

\* match_eq: nodes that are the same but for what is below them.
MatchEq(n, o) ==
    /\ new[n].type = old[o].type
    /\ new[n].type \in {"LINK", "HEADER", "META", "LISTITEM"} =>
            new[n].attr = old[o].attr

MatchSingleton(t, n) ==
    t[n].parent = NULL \/ Len(t[t[n].parent].children) = 1

-----------------------------------------------------------------------------
Init ==
    /\ \E pair \in Inputs : old = pair[1] /\ new = pair[2]
    /\ xold = AssignSigs(old) /\ xnew = AssignSigs(new)
    /\ pq = <<Root>>
    /\ down = <<>> /\ walk = <<>> /\ sibs = <<>>
    /\ climb = [n |-> NULL, o |-> NULL, left |-> 0]
    /\ pc = "queue"

\* No old node has the signature: its children are queued, if it has a
\* difference to look for in them.
NoMatch ==
    /\ pc = "queue" /\ walk = <<>> /\ pq # <<>> /\ Candidates(Head(pq)) = {}
    /\ pq' = Tail(pq)
    /\ walk' = IF IsOpaque(new[Head(pq)]) THEN <<>> ELSE new[Head(pq)].children
    /\ UNCHANGED <<pc, old, new, xold, xnew, down, climb, sibs>>

QueueChild ==
    /\ pc = "queue" /\ walk # <<>>
    /\ \E i \in 1 .. Len(pq) + 1 :
            Pqueue(pq, Head(walk), i) /\ pq' = InsertAt(pq, i, Head(walk))
    /\ walk' = Tail(walk)
    /\ UNCHANGED <<pc, old, new, xold, xnew, down, climb, sibs>>

\* Fault: match_up passes up only children only.
MatchBest_Low ==
    /\ pc = "queue" /\ walk = <<>> /\ pq # <<>>
    /\ \E o \in Candidates(Head(pq)) :
        /\ Optmatch(Head(pq), o)
        /\ down' = << <<Head(pq), o>> >>
        /\ climb' = [n |-> Head(pq), o |-> o, left |-> 0]
    /\ pq' = Tail(pq)
    /\ pc' = "down"
    /\ UNCHANGED <<old, new, xold, xnew, walk, sibs>>

\* The best candidate is found, match_down and match_up are called on it.
MatchBest ==
    /\ pc = "queue" /\ walk = <<>> /\ pq # <<>>
    /\ \E o \in Candidates(Head(pq)) :
        /\ Optmatch(Head(pq), o)
        /\ down' = << <<Head(pq), o>> >>
        /\ climb' = [n |-> Head(pq), o |-> o, left |-> Height(Head(pq))]
    /\ pq' = Tail(pq)
    /\ pc' = "down"
    /\ UNCHANGED <<old, new, xold, xnew, walk, sibs>>

\* xmap x with the match of node n set.
Matched(x, n, k) == [x EXCEPT ![n].match = k]

\* Fault: the new node that had the old one keeps it.
MatchDown_Keeps ==
    /\ pc = "down" /\ down # <<>>
    /\ LET n == Head(down)[1]
           o == Head(down)[2]
       IN  /\ xnew' = Matched(xnew, n, o)
           /\ xold' = Matched(xold, o, n)
           /\ down' = (IF IsOpaque(new[n]) THEN <<>>
                       ELSE [j \in DOMAIN new[n].children |->
                                <<new[n].children[j], old[o].children[j]>>])
                      \o Tail(down)
    /\ UNCHANGED <<pc, old, new, pq, climb, walk, sibs>>

\* Fault: the children of the pair are left alone.
MatchDown_Shallow ==
    /\ pc = "down" /\ down # <<>>
    /\ LET n == Head(down)[1]
           o == Head(down)[2]
           freed == IF xold[o].match = NULL THEN xnew
                    ELSE Matched(xnew, xold[o].match, NULL)
       IN  /\ xnew' = Matched(freed, n, o)
           /\ xold' = Matched(xold, o, n)
           /\ down' = Tail(down)
    /\ UNCHANGED <<pc, old, new, pq, climb, walk, sibs>>

\* match_down: the old node is taken from the new one that had it, and the
\* children of the pair are matched with one another.
MatchDown ==
    /\ pc = "down" /\ down # <<>>
    /\ LET n == Head(down)[1]
           o == Head(down)[2]
           freed == IF xold[o].match = NULL THEN xnew
                    ELSE Matched(xnew, xold[o].match, NULL)
       IN  /\ xnew' = Matched(freed, n, o)
           /\ xold' = Matched(xold, o, n)
           /\ down' = (IF IsOpaque(new[n]) THEN <<>>
                       ELSE [j \in DOMAIN new[n].children |->
                                <<new[n].children[j], old[o].children[j]>>])
                      \o Tail(down)
    /\ UNCHANGED <<pc, old, new, pq, climb, walk, sibs>>

MatchedDown ==
    /\ pc = "down" /\ down = <<>>
    /\ pc' = "up"
    /\ UNCHANGED matchVars

\* The pair above the one match_up is at.
UpNew == new[climb.n].parent
UpOld == old[climb.o].parent

\* match_up goes on for Height levels, then through only children.
CanClimb ==
    /\ UpNew # NULL /\ UpOld # NULL
    /\ climb.left = 0 =>
            MatchSingleton(new, climb.n) /\ MatchSingleton(old, climb.o)
    /\ MatchEq(UpNew, UpOld)
    /\ xnew[UpNew].match = NULL /\ xold[UpOld].match = NULL

MatchUp ==
    /\ pc = "up" /\ CanClimb
    /\ xnew' = Matched(xnew, UpNew, UpOld)
    /\ xold' = Matched(xold, UpOld, UpNew)
    /\ climb' = [n |-> UpNew, o |-> UpOld, left |-> Max({0, climb.left - 1})]
    /\ UNCHANGED <<pc, old, new, pq, down, walk, sibs>>

\* Fault: match_up and match_down are called again and again.
MatchedUp_Again ==
    /\ pc = "up" /\ ~CanClimb
    /\ pc' = "down"
    /\ UNCHANGED matchVars

MatchedUp ==
    /\ pc = "up" /\ ~CanClimb
    /\ pc' = "queue"
    /\ UNCHANGED matchVars

-----------------------------------------------------------------------------
(* The optimisations *)

IsInner(nd) == ~IsOpaque(nd) /\ nd.children # <<>>

QueueEmpty ==
    /\ pc = "queue" /\ walk = <<>> /\ pq = <<>>
    /\ pc' = "topdown"
    /\ walk' = <<Root>>
    /\ UNCHANGED <<old, new, xold, xnew, pq, down, climb, sibs>>

\* k and then next are children of one node.
NextSibling(t, k, next) ==
    LET s == t[t[k].parent].children
    IN  \E i \in 1 .. Len(s) - 1 : s[i] = k /\ s[i + 1] = next

\* The siblings after c and after its match, a child of the match of the
\* node c is in, are to be matched.
PairSiblings(c, next, onext) ==
    /\ IsInner(new[c]) /\ xnew[c].match # NULL
    /\ old[xnew[c].match].parent = xnew[new[c].parent].match
    /\ NextSibling(new, c, next) /\ NextSibling(old, xnew[c].match, onext)
    /\ IsInner(new[next]) /\ xnew[next].match = NULL
    /\ IsInner(old[onext]) /\ xold[onext].match = NULL
    /\ MatchEq(next, onext)

\* node_optimise_topdown on a node: if it is matched, its children are
\* looked at one by one, and then it goes down to each of them.
OptimiseTopdown ==
    /\ pc = "topdown" /\ sibs = <<>> /\ walk # <<>>
    /\ LET n == Head(walk)
       IN  IF IsInner(new[n]) /\ xnew[n].match # NULL
           THEN sibs' = new[n].children /\ walk' = new[n].children \o Tail(walk)
           ELSE sibs' = <<>> /\ walk' = Tail(walk)
    /\ UNCHANGED <<pc, old, new, xold, xnew, pq, down, climb>>

\* A round of its loop over the children.
TryNext ==
    /\ pc = "topdown" /\ sibs # <<>>
    /\ \/ \E next \in DOMAIN new, onext \in DOMAIN old :
            /\ PairSiblings(Head(sibs), next, onext)
            /\ xnew' = Matched(xnew, next, onext)
            /\ xold' = Matched(xold, onext, next)
       \/ /\ \A next \in DOMAIN new, onext \in DOMAIN old :
                ~PairSiblings(Head(sibs), next, onext)
          /\ UNCHANGED <<xold, xnew>>
    /\ sibs' = Tail(sibs)
    /\ UNCHANGED <<pc, old, new, pq, down, climb, walk>>

StartBottomup ==
    /\ pc = "topdown" /\ sibs = <<>> /\ walk = <<>>
    /\ pc' = "bottomup"
    /\ walk' = PostOrder(new)
    /\ UNCHANGED <<old, new, xold, xnew, pq, down, climb, sibs>>

\* The weight of the children of n that match children of o.
Shared(n, o) ==
    LET Joint(k) == xnew[k].match # NULL /\ old[xnew[k].match].parent = o
    IN  FoldLeft(LAMBDA sum, k : sum + (IF Joint(k) THEN xnew[k].weight ELSE 0),
                 0, new[n].children)

\* The j-th child of n has its match in a node that may match n.
MatchedUnder(n, j) ==
    LET o == xnew[new[n].children[j]].match
    IN  o # NULL /\ old[o].parent # NULL /\ MatchEq(n, old[o].parent)

ParentOfMatch(n, j) == old[xnew[new[n].children[j]].match].parent

\* The first of them that has most of the children of n, by weight.
HasMost(n, j) ==
    /\ MatchedUnder(n, j)
    /\ \A i \in DOMAIN new[n].children : MatchedUnder(n, i) =>
        LET wi == Shared(n, ParentOfMatch(n, i))
            wj == Shared(n, ParentOfMatch(n, j))
        IN  IF i < j THEN wj > wi ELSE wj >= wi

\* It is matched with n if that is half of them.
IsHalf(n, j) ==
    LET total == FoldLeft(LAMBDA sum, k : sum + xnew[k].weight, 0, new[n].children)
    IN  HasMost(n, j) /\ 2 * Shared(n, ParentOfMatch(n, j)) >= total

\* node_optimise_bottomup on a node, after those below it: nodes below an
\* opaque one have no slot in the map and are passed by.
OptimiseBottomup ==
    /\ pc = "bottomup" /\ walk # <<>>
    /\ walk' = Tail(walk)
    /\ LET n == Head(walk)
           Free == n \in DOMAIN xnew /\ IsInner(new[n]) /\ xnew[n].match = NULL
       IN  \/ /\ Free
              /\ \E j \in DOMAIN new[n].children :
                /\ IsHalf(n, j)
                /\ xnew' = Matched(xnew, n, ParentOfMatch(n, j))
                /\ xold' = Matched(xold, ParentOfMatch(n, j), n)
           \/ /\ ~(Free /\ \E j \in DOMAIN new[n].children : IsHalf(n, j))
              /\ UNCHANGED <<xold, xnew>>
    /\ UNCHANGED <<pc, old, new, pq, down, climb, sibs>>

-----------------------------------------------------------------------------
(* The new node an old node is matched with is matched with it, at any    *)
(* time: node_merge relies on it where it goes down a pair (the first     *)
(* asserts of it), and match_down where it takes an old node away from    *)
(* the smaller match.  The other direction holds as well until bottomup,  *)
(* which sets the match of an old node that may have one: the new node it *)
(* had keeps it.                                                          *)
MatchesMutual ==
    /\ \A o \in DOMAIN xold :
        xold[o].match # NULL => xnew[xold[o].match].match = o
    /\ pc \in {"queue", "down", "up", "topdown"} =>
        \A n \in DOMAIN xnew :
            xnew[n].match # NULL => xold[xnew[n].match].match = n

(* A node that waits to be matched has no match, though match_up and      *)
(* match_down match nodes without looking at the queue (the asserts where *)
(* mdown_diff takes a node from it), and it waits in one place (the        *)
(* assert of pqueue).                                                      *)
QueuedUnmatched ==
    /\ \A n \in ToSet(pq) : xnew[n].match = NULL
    /\ IsInjective(pq)
    /\ pc = "queue" => \A n \in ToSet(walk) : xnew[n].match = NULL /\ n \notin ToSet(pq)

(* match_down meets an old node with as many children, of the same types, *)
(* and a new node without a match (its asserts), whatever has been        *)
(* matched around the two before.                                         *)
DownPairsAlike ==
    \A i \in DOMAIN down :
        LET n == down[i][1]
            o == down[i][2]
        IN  /\ xnew[n].match = NULL
            /\ Len(new[n].children) = Len(old[o].children)
            /\ IsOpaque(new[n]) <=> IsOpaque(old[o])

(* Matched nodes agree in what node_merge takes from the new one for      *)
(* both, and tables and metadata, which it copies whole from the new      *)
(* tree, are the same in every node.                                      *)
MatchesAlike ==
    \A o \in DOMAIN xold : xold[o].match # NULL =>
        /\ MatchEq(xold[o].match, o)
        /\ IsOpaque(old[o]) => xnew[xold[o].match].sig = xold[o].sig
=============================================================================
