---------------------------- MODULE FootnoteOrder ----------------------------
(***************************************************************************)
(* What the parser promises about footnotes, without the tree: references  *)
(* are numbered in the order they are met, each footnote has at most one,  *)
(* and the tree of a parse that succeeds holds the definition of every     *)
(* referenced footnote exactly once, in that order (document.c, char_link  *)
(* and parse_footnote_list).                                               *)
(***************************************************************************)
EXTENDS Naturals, Sequences, SequencesExt

CONSTANT Names     \* the footnotes a document defines

VARIABLES
    refs,    \* the footnotes with a reference, by number
    defs,    \* the footnotes whose definition has been emitted
    open     \* a parse is running

vars == <<refs, defs, open>>

Init == refs = <<>> /\ defs = <<>> /\ open = FALSE

Open == open' = TRUE /\ refs' = <<>> /\ defs' = <<>> /\ ~open

\* A footnote may be referenced from the body, or from the definition of
\* another one when it is emitted.
Refer(f) ==
    /\ open /\ f \notin ToSet(refs)
    /\ refs' = Append(refs, f)
    /\ UNCHANGED <<defs, open>>

Emit ==
    /\ open /\ Len(defs) < Len(refs)
    /\ defs' = Append(defs, refs[Len(defs) + 1])
    /\ UNCHANGED <<refs, open>>

Close == open /\ defs = refs /\ open' = FALSE /\ UNCHANGED <<refs, defs>>

Abort == open /\ open' = FALSE /\ refs' = <<>> /\ defs' = <<>>

Next == Open \/ (\E f \in Names : Refer(f)) \/ Emit \/ Close \/ Abort

\* The order of references and definitions, and that a parse comes to an end.
Ordered == Init /\ [][Next]_vars
Spec == Ordered /\ WF_vars(Emit \/ Close)
=============================================================================
