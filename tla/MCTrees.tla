------------------------------ MODULE MCTrees -------------------------------
(* Trees as they are written down for TLC: a node and its subtrees. *)
EXTENDS Integers, SequencesExt

Tree(node, kids) == [node |-> node, kids |-> kids]

RECURSIVE Size(_)
Size(t) == 1 + FoldLeft(LAMBDA sum, k : sum + Size(k), 0, t.kids)

\* The nodes of t in the order of the text, the first one numbered id.
RECURSIVE Laid(_, _, _)
Laid(t, id, parent) ==
    LET ids == [j \in DOMAIN t.kids |->
                    id + 1 + FoldLeft(LAMBDA sum, k : sum + Size(k), 0,
                                      SubSeq(t.kids, 1, j - 1))]
    IN  << t.node @@ [parent |-> parent, children |-> ids] >>
        \o FlattenSeq([j \in DOMAIN t.kids |-> Laid(t.kids[j], ids[j], id)])
=============================================================================
