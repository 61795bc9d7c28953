------------------------------ MODULE TreeDiff ------------------------------
(***************************************************************************)
(* mdown_diff: after the nodes are matched (TreeMatch), node_merge walks   *)
(* the old and the new tree side by side and builds the tree that shows    *)
(* both, its nodes marked as inserted, deleted or neither.  One behaviour  *)
(* is one call of mdown_diff.                                              *)
(***************************************************************************)
EXTENDS TreeMatch

VARIABLES
    merger,     \* struct merger: the tree built so far, by the order of its
                \* nodes, the next identifier, the queue of references
    frames,     \* the calls of node_merge, outermost first: the node a call
                \* fills, the pair it merges, what is left of both sides
    maxn        \* the result *maxn

vars == <<pc, matchVars, merger, frames, maxn>>

Top == frames[Len(frames)]
SetTop(f) == [frames EXCEPT ![Len(frames)] = f]
In(stage) == pc = "merge" /\ frames # <<>> /\ Top.at = stage

-----------------------------------------------------------------------------
(* The nodes of the result *)

\* What node_clone copies: not an equation's text, the first number of a
\* list, the key of a footnote.
Copied(nd) ==
    IF nd.type \in {"LIST", "MATH_BLOCK"} THEN SubSeq(nd.attr, 1, 1)
    ELSE IF nd.type \in {"FOOTNOTE_REF", "FOOTNOTE_DEF", "PARAGRAPH"} THEN <<>>
    ELSE nd.attr

NodeClone(nd, id, parent) ==
    [type |-> nd.type, attr |-> Copied(nd), num |-> 0, id |-> id,
     chng |-> "NONE", parent |-> parent, children |-> <<>>]

\* The merger with node nd in the last place below its parent.
Insert(m, nd) ==
    LET k == Len(m.out) + 1
    IN  [m EXCEPT !.out = Append([@ EXCEPT ![nd.parent].children = Append(@, k)], nd)]

\* node_clonetree steps the pointer to the identifier and not the number:
\* the root gets the next identifier, which stays the next one, and the
\* nodes below whatever follows it in memory (NULL here).
NodeCloneTree(m, t, v, parent, chng) ==
    LET nodes == Subtree(t, v)
        Place(k) == Len(m.out) + SelectInSeq(nodes, LAMBDA j : j = k)
        Cloned(i) == [NodeClone(t[nodes[i]], NULL, Place(t[nodes[i]].parent))
                    EXCEPT !.children = [j \in DOMAIN t[nodes[i]].children |->
                                            Place(t[nodes[i]].children[j])]]
        root == [Cloned(1) EXCEPT !.id = m.id, !.parent = parent, !.chng = chng]
    IN  [m EXCEPT !.out =
            [@ EXCEPT ![parent].children = Append(@, Len(m.out) + 1)]
            \o [i \in DOMAIN nodes |-> IF i = 1 THEN root ELSE Cloned(i)]]

\* Fault: all references get one number.
RefInsert_OneNumber(m, k, nf) ==
    [m EXCEPT !.out[k].num = m.refnum,
              !.refq = Append(@, [oldnum |-> nf.num, newnum |-> m.refnum,
                                  chng |-> m.out[k].chng])]

\* ref_insert: node k of the result, made from nf, gets the next number.
RefInsert(m, k, nf) ==
    [m EXCEPT !.out[k].num = m.refnum,
              !.refnum = @ + 1,
              !.refq = Append(@, [oldnum |-> nf.num, newnum |-> m.refnum,
                                  chng |-> m.out[k].chng])]

\* The tree at v copied below `parent', deleted or inserted as a whole.
Copy(m, t, v, parent, chng) ==
    LET cloned == NodeCloneTree(m, t, v, parent, chng)
    IN  IF t[v].type = "FOOTNOTE_REF" THEN RefInsert(cloned, Len(m.out) + 1, t[v])
        ELSE cloned

\* ref_reorder for one reference: its definition, of the old block o if the
\* reference was deleted and else of the new block n, copied below `parent'.
RefDefine(m, ref, n, o, parent) ==
    LET t == IF ref.chng = "DELETE" THEN old ELSE new
        defs == SelectSeq(t[IF ref.chng = "DELETE" THEN o ELSE n].children,
                          LAMBDA k : t[k].num = ref.oldnum)
    IN  IF defs = <<>> THEN m
        ELSE [NodeCloneTree(m, t, defs[1], parent, ref.chng)
              EXCEPT !.out[Len(m.out) + 1].num = ref.newnum]

-----------------------------------------------------------------------------
(* node_lcs: two texts word by word *)

\* node_tokenise: the words of a text with the blanks around them.
Tokens(s) ==
    LET at == SelectSeq([i \in DOMAIN s |-> i], LAMBDA i : s[i] # " ")
    IN  [j \in DOMAIN at |->
            [word |-> s[at[j]],
             headsp |-> j = 1 /\ Head(s) = " ",
             tailsp |-> at[j] < Len(s)]]

\* The scripts from a to b, and the shortest ones: what diff() promises.
\* Of two equal tokens the script has the one of the first sequence.
Scripts(a, b) ==
    LET f[i \in 0 .. Len(a), j \in 0 .. Len(b)] ==
            IF i = 0 /\ j = 0 THEN { <<>> }
            ELSE UNION {
              {Append(s, [e |-> a[i], type |-> "DELETE"]) :
                    s \in IF i > 0 THEN f[i - 1, j] ELSE {}},
              {Append(s, [e |-> b[j], type |-> "ADD"]) :
                    s \in IF j > 0 THEN f[i, j - 1] ELSE {}},
              {Append(s, [e |-> a[i], type |-> "COMMON"]) :
                    s \in IF i > 0 /\ j > 0 /\ a[i].word = b[j].word
                          THEN f[i - 1, j - 1] ELSE {}} }
    IN  f[Len(a), Len(b)]

ShortestScripts(a, b) ==
    {s \in Scripts(a, b) : \A t \in Scripts(a, b) : Len(s) <= Len(t)}

Text(m, parent, word, chng) ==
    [Insert(m, [NodeClone([type |-> "NORMAL_TEXT", attr |-> <<word>>], m.id, parent)
                EXCEPT !.chng = chng])
     EXCEPT !.id = @ + 1]

\* One entry of the script: its word between the blanks it has.
Entry(m, parent, entry) ==
    LET chng == CASE entry.type = "DELETE" -> "DELETE"
                  [] entry.type = "ADD" -> "INSERT"
                  [] OTHER -> "NONE"
        before == IF entry.e.headsp THEN Text(m, parent, " ", "NONE") ELSE m
        word == Text(before, parent, entry.e.word, chng)
    IN  IF entry.e.tailsp THEN Text(word, parent, " ", "NONE") ELSE word

-----------------------------------------------------------------------------
(* node_merge *)

\* The node of a matched pair is made below `parent'.
Enter(m, n, parent) ==
    LET nd == NodeClone(new[n], m.id, parent)
    IN  [IF parent = NULL THEN [m EXCEPT !.out = <<nd>>] ELSE Insert(m, nd)
         EXCEPT !.id = @ + 1]

\* Its children, or the references whose definitions a footnote block gets,
\* are what the call has to do.
Called(n, o, node) ==
    [node |-> node, n |-> n, o |-> o, ses |-> <<>>,
     old |-> IF new[n].type = "FOOTNOTES_BLOCK" THEN <<>> ELSE old[o].children,
     new |-> IF new[n].type = "FOOTNOTES_BLOCK" THEN <<>> ELSE new[n].children,
     refs |-> IF new[n].type = "FOOTNOTES_BLOCK" THEN merger.refq ELSE <<>>,
     at |-> IF new[n].type = "FOOTNOTES_BLOCK" THEN "refs" ELSE "gone"]

DiffInit ==
    /\ Init
    /\ merger = [out |-> <<>>, id |-> 0, refq |-> <<>>, refnum |-> 0]
    /\ frames = <<>>
    /\ maxn = 0

StartMerge ==
    /\ pc = "bottomup" /\ walk = <<>>
    /\ pc' = "merge"
    /\ merger' = Enter(merger, Root, NULL)
    /\ frames' = <<Called(Root, Root, 1)>>
    /\ UNCHANGED <<matchVars, maxn>>

\* The old nodes up to one that is matched or, the first time, a text.
IsGone(texts) ==
    /\ Top.old # <<>> /\ xold[Head(Top.old)].match = NULL
    /\ texts \/ old[Head(Top.old)].type # "NORMAL_TEXT"

\* The same for the new ones.
IsCome(texts) ==
    /\ Top.new # <<>> /\ xnew[Head(Top.new)].match = NULL
    /\ texts \/ new[Head(Top.new)].type # "NORMAL_TEXT"

\* The next old node, or the next new one, is copied as a change.
Delete ==
    /\ merger' = Copy(merger, old, Head(Top.old), Top.node, "DELETE")
    /\ frames' = SetTop([Top EXCEPT !.old = Tail(@)])

InsertNext(next) ==
    /\ merger' = Copy(merger, new, Head(Top.new), Top.node, "INSERT")
    /\ frames' = SetTop([Top EXCEPT !.new = Tail(@), !.at = next])

Goto(next) ==
    /\ frames' = SetTop([Top EXCEPT !.at = next])
    /\ UNCHANGED merger

\* Deleted old nodes: `texts' is whether texts are among them.
FlushOld(at, texts, next) ==
    /\ In(at) /\ (at = "gone" => Top.new # <<>>)
    /\ IF IsGone(texts) THEN Delete ELSE Goto(next)
    /\ UNCHANGED <<pc, matchVars, maxn>>

FlushNew(at, texts, next) ==
    /\ In(at)
    /\ IF IsCome(texts) THEN InsertNext(at) ELSE Goto(next)
    /\ UNCHANGED <<pc, matchVars, maxn>>

\* Two texts without a match are compared word by word.
CompareTexts ==
    /\ In("texts")
    /\ IF /\ Top.old # <<>> /\ Top.new # <<>>
          /\ old[Head(Top.old)].type = "NORMAL_TEXT" /\ xold[Head(Top.old)].match = NULL
          /\ new[Head(Top.new)].type = "NORMAL_TEXT" /\ xnew[Head(Top.new)].match = NULL
       THEN \E ses \in ShortestScripts(Tokens(old[Head(Top.old)].attr),
                                       Tokens(new[Head(Top.new)].attr)) :
                frames' = SetTop([Top EXCEPT !.old = Tail(@), !.new = Tail(@),
                                             !.ses = ses, !.at = "script"])
       ELSE frames' = SetTop([Top EXCEPT !.at = "gone2"])
    /\ UNCHANGED <<pc, matchVars, merger, maxn>>

MergeText ==
    /\ In("script")
    /\ IF Top.ses = <<>> THEN Goto("gone2")
       ELSE /\ merger' = Entry(merger, Top.node, Head(Top.ses))
            /\ frames' = SetTop([Top EXCEPT !.ses = Tail(@)])
    /\ UNCHANGED <<pc, matchVars, maxn>>

IsHere == \E k \in ToSet(Top.old) : xold[k].match = Head(Top.new)

\* The new node was matched on another level: it is shown as inserted.
MergeMoved ==
    /\ In("match") /\ Top.new # <<>> /\ ~IsHere
    /\ InsertNext("gone")
    /\ UNCHANGED <<pc, matchVars, maxn>>

\* The old nodes before the match of the new one are shown as deleted.
MergeBefore ==
    /\ In("match") /\ Top.new # <<>> /\ IsHere
    /\ xold[Head(Top.old)].match # Head(Top.new)
    /\ Delete
    /\ UNCHANGED <<pc, matchVars, maxn>>

\* The two sides are in lock-step: the pair is copied if it is opaque, and
\* otherwise merged.
MergeMatched ==
    /\ In("match") /\ Top.new # <<>> /\ Top.old # <<>>
    /\ xold[Head(Top.old)].match = Head(Top.new)
    /\ LET n == Head(Top.new)
           caller == [Top EXCEPT !.old = Tail(@), !.new = Tail(@), !.at = "gone"]
       IN  IF IsOpaque(new[n])
           THEN /\ merger' = NodeCloneTree(merger, new, n, Top.node, "NONE")
                /\ frames' = SetTop(caller)
           ELSE /\ merger' = Enter(merger, n, Top.node)
                /\ frames' = Append(SetTop(caller),
                                    Called(n, Head(Top.old), Len(merger.out) + 1))
    /\ UNCHANGED <<pc, matchVars, maxn>>

RefReorder ==
    /\ In("refs") /\ Top.refs # <<>>
    /\ merger' = RefDefine(merger, Head(Top.refs), Top.n, Top.o, Top.node)
    /\ frames' = SetTop([Top EXCEPT !.refs = Tail(@)])
    /\ UNCHANGED <<pc, matchVars, maxn>>

AtEnd == pc = "merge" /\ frames # <<>> /\ Top.at \in {"gone", "match"} /\ Top.new = <<>>

\* No new node is left: the old ones that are left were deleted.
FlushRest ==
    /\ AtEnd /\ Top.old # <<>>
    /\ Delete
    /\ UNCHANGED <<pc, matchVars, maxn>>

\* Fault: what is left of the old tree is forgotten.
EndMerge_Forgets ==
    /\ AtEnd \/ (In("refs") /\ Top.refs = <<>>)
    /\ frames' = SubSeq(frames, 1, Len(frames) - 1)
    /\ UNCHANGED <<pc, matchVars, merger, maxn>>

\* node_merge returns to its caller, which records the node if it is a
\* reference.
EndMerge ==
    /\ (AtEnd /\ Top.old = <<>>) \/ (In("refs") /\ Top.refs = <<>>)
    /\ merger' = IF new[Top.n].type = "FOOTNOTE_REF"
                 THEN RefInsert(merger, Top.node, new[Top.n]) ELSE merger
    /\ frames' = SubSeq(frames, 1, Len(frames) - 1)
    /\ UNCHANGED <<pc, matchVars, maxn>>

\* *maxn is computed from the two maps, not from the tree that was built.
Return ==
    /\ pc = "merge" /\ frames = <<>>
    /\ pc' = "returned"
    /\ maxn' = Max(DOMAIN xnew \cup DOMAIN xold) + 1
    /\ UNCHANGED <<matchVars, merger, frames>>

Match ==
    /\ \/ NoMatch \/ QueueChild \/ MatchBest \/ MatchDown \/ MatchedDown
       \/ MatchUp \/ MatchedUp \/ QueueEmpty
       \/ OptimiseTopdown \/ TryNext \/ StartBottomup \/ OptimiseBottomup
    /\ UNCHANGED <<merger, frames, maxn>>

Merge ==
    \/ FlushOld("gone", FALSE, "come") \/ FlushNew("come", FALSE, "texts")
    \/ CompareTexts \/ MergeText
    \/ FlushOld("gone2", TRUE, "come2") \/ FlushNew("come2", TRUE, "match")
    \/ MergeMoved \/ MergeBefore \/ MergeMatched
    \/ RefReorder \/ FlushRest \/ EndMerge

Next == Match \/ StartMerge \/ Merge \/ Return

Spec == DiffInit /\ [][Next]_vars /\ WF_vars(Next)

-----------------------------------------------------------------------------
(* The asserts of the comparison hold: a node that waits in the queue has *)
(* no match and match_down meets nodes that are alike, whatever was        *)
(* matched around them before; node_merge is called on matched nodes only, *)
(* the roots among them, which get their match from their first or last    *)
(* child, the empty header and footer of a document.                       *)
AssertsHold ==
    /\ QueuedUnmatched
    /\ DownPairsAlike
    /\ pc = "merge" =>
        /\ xnew[Root].match = Root /\ xold[Root].match = Root
        /\ \A i \in DOMAIN frames : xnew[frames[i].n].match # NULL

\* The words and the nodes, with what they are compared by, of a tree
\* without those in `skip'; footnotes are set in an order of their own.
Reading(t, root, skip) ==
    LET f[k \in DOMAIN t] ==
            IF k \in skip THEN <<>>
            ELSE IF t[k].type = "NORMAL_TEXT"
                 THEN LET words == SelectSeq(t[k].attr, LAMBDA w : w # " ")
                      IN  [i \in DOMAIN words |-> <<"word", <<words[i]>> >>]
            ELSE << <<t[k].type, IF t[k].type \in SignedTypes \ {"FOOTNOTE_REF"}
                                 THEN t[k].attr ELSE <<>> >> >>
                 \o (IF t[k].type = "FOOTNOTES_BLOCK" THEN <<>>
                     ELSE FlattenSeq([j \in DOMAIN t[k].children |-> f[t[k].children[j]]]))
                 \o << <<"end", <<>> >> >>
    IN  f[root]

Marked(chng) == {k \in DOMAIN merger.out : merger.out[k].chng = chng}

(* Both documents can be read off the difference: without the inserted    *)
(* nodes it is the old one and without the deleted ones the new one, no    *)
(* word lost or shown twice, wherever nodes were moved.                    *)
BothReadable ==
    pc = "returned" =>
        /\ Reading(merger.out, 1, Marked("INSERT")) = Reading(old, Root, {})
        /\ Reading(merger.out, 1, Marked("DELETE")) = Reading(new, Root, {})

(* The definitions of a merged footnote block have the numbers of          *)
(* references that changed as they did, in ascending order, though the old *)
(* and the new document number theirs independently.                       *)
DefsFollowRefs ==
    pc = "returned" =>
        \A k \in DOMAIN merger.out :
            LET def == merger.out[k].children
                out == merger.out
            IN  out[k].type = "FOOTNOTES_BLOCK" /\ out[k].chng = "NONE" =>
                /\ \A i, j \in DOMAIN def : i < j => out[def[i]].num < out[def[j]].num
                /\ \A i \in DOMAIN def : \E r \in DOMAIN out :
                        /\ out[r].type = "FOOTNOTE_REF"
                        /\ out[r].num = out[def[i]].num /\ out[r].chng = out[def[i]].chng

(* Documents that are equal have no difference.                            *)
EqualUnmarked ==
    pc = "returned" /\ old = new => Marked("INSERT") \cup Marked("DELETE") = {}

(* mdown_diff comes to its end (diff.c: "This is guaranteed to be finite").*)
Returns == <>(pc = "returned")

\* The references outside the footnotes, in the order of the text.
RefNumbers ==
    LET refs == SelectSeq([k \in DOMAIN merger.out |-> k],
                          LAMBDA k : merger.out[k].type = "FOOTNOTE_REF")
    IN  [i \in DOMAIN refs |-> merger.out[refs[i]].num]

DefNumbers ==
    LET defs == SelectSeq([k \in DOMAIN merger.out |-> k],
                          LAMBDA k : merger.out[k].type = "FOOTNOTE_DEF")
    IN  [i \in DOMAIN defs |-> merger.out[defs[i]].num]

(* "The order of footnote reference is the order of their definitions"     *)
(* (the comment at struct ref).                                            *)
DefsInOrderOfRefs == pc = "returned" => DefNumbers = RefNumbers
=============================================================================
