------------------------------ MODULE OnpDiff ------------------------------
(***************************************************************************)
(* The sequence comparison of libdiff.c: diff() looks for the shortest     *)
(* path through the edit graph of two sequences, b downwards and a to the  *)
(* right, with the O(NP) algorithm, and reads the edit script off it.      *)
(* A point of the graph is on the diagonal k = y - x.  fp has the furthest *)
(* y found on each diagonal, path the last recorded point of it, coords    *)
(* all recorded points with a link back along the path (-1 at its start).  *)
(* One behaviour is one call.                                              *)
(***************************************************************************)
EXTENDS Integers, Sequences, FiniteSetsExt

CONSTANTS Elements, Inputs      \* the elements that are compared; the sequences

ASSUME InputsAssumption == Inputs \subseteq Seq(Elements)

VARIABLES
    pc,         \* where the call is
    a, b,       \* the shorter and the longer sequence
    swapped,    \* whether the first argument is b
    p, k,       \* the round, and the diagonal of it
    x, y, r,    \* the locals of onp_snake; r is also the one of onp_compose
    fp, path, coords,
    epc,        \* the points of the path that was found, last one first
    i, px, py,  \* the locals of onp_genseq: the point to reach, where it is
    ses, lcs, editdist,     \* the result
    reached     \* the value onp_genseq returns

searchVars == <<p, k, fp, path, coords>>
pathVars == <<epc, i, px, py>>
resultVars == <<ses, lcs, reached>>
vars == <<pc, a, b, swapped, x, y, r, searchVars, pathVars, resultVars, editdist>>

m == Len(a)
n == Len(b)
delta == n - m
offset == m + 1
size == m + n + 3

Points == [x : Int, y : Int, k : Int]

(* An entry of the script; e points into a or b, as the entry's element. *)
Entries == [originIdx : Nat, targetIdx : Nat,
            type : {"ADD", "DELETE", "COMMON"}, e : {"a", "b"} \X Nat]

TypeOK ==
    /\ pc \in {"search", "slide", "trace", "script", "returned", "failed"}
    /\ a \in Seq(Elements) /\ b \in Seq(Elements) /\ m <= n
    /\ swapped \in BOOLEAN /\ reached \in BOOLEAN
    /\ p \in Nat /\ k \in Int /\ x \in Nat /\ y \in Nat
    /\ fp \in [0 .. size - 1 -> Int]
    /\ path \in [0 .. size - 1 -> -1 .. Len(coords) - 1]
    /\ coords \in Seq(Points) /\ epc \in Seq(Points)
    /\ r \in -1 .. Len(coords) - 1
    /\ \A j \in DOMAIN coords : coords[j].k \in -1 .. j - 2
    /\ i \in Nat /\ px \in Nat /\ py \in Nat /\ editdist \in Nat
    /\ ses \in Seq(Entries) /\ lcs \in Seq({"a", "b"} \X Nat)
-----------------------------------------------------------------------------
(* onp_alloc, and the start of onp_compose. *)
Init ==
    /\ \E origin, target \in Inputs :
        /\ swapped = (Len(origin) > Len(target))
        /\ a = IF swapped THEN target ELSE origin
        /\ b = IF swapped THEN origin ELSE target
    /\ pc = "search" /\ p = 0 /\ k = 0
    /\ fp = [d \in 0 .. size - 1 |-> -1]
    /\ path = [d \in 0 .. size - 1 |-> -1]
    /\ coords = <<>> /\ epc = <<>> /\ ses = <<>> /\ lcs = <<>>
    /\ x = 0 /\ y = 0 /\ r = -1 /\ i = 0 /\ px = 0 /\ py = 0
    /\ editdist = 0 /\ reached = FALSE

(* onp_snake: the start, one step off a neighbouring diagonal. *)
Neighbour(above, below) == IF above > below THEN k - 1 ELSE k + 1

\* Fault: the point is on the wrong side of the main diagonal.
StartSnake_Mirrored ==
    LET above == fp[k - 1 + offset] + 1
        below == fp[k + 1 + offset]
    IN /\ pc = "search"
       /\ pc' = "slide"
       /\ y' = IF above > below THEN above ELSE below
       /\ x' = y' + k
       /\ r' = path[Neighbour(above, below) + offset]
       /\ UNCHANGED <<a, b, swapped, searchVars, pathVars, resultVars, editdist>>

StartSnake ==
    LET above == fp[k - 1 + offset] + 1
        below == fp[k + 1 + offset]
    IN /\ pc = "search"
       /\ pc' = "slide"
       /\ y' = IF above > below THEN above ELSE below
       /\ x' = y' - k
       /\ r' = path[Neighbour(above, below) + offset]
       /\ UNCHANGED <<a, b, swapped, searchVars, pathVars, resultVars, editdist>>

(* onp_snake: along the diagonal as long as the elements are equal. *)
\* Fault: the end of the longer sequence is passed.
CanSlide_Beyond == x < m /\ y <= n /\ (y = n \/ a[x + 1] = b[y + 1])

CanSlide == x < m /\ y < n /\ a[x + 1] = b[y + 1]

Slide ==
    /\ pc = "slide" /\ CanSlide
    /\ x' = x + 1 /\ y' = y + 1
    /\ UNCHANGED <<pc, a, b, swapped, r, searchVars, pathVars, resultVars, editdist>>

(* The order of the diagonals in a round: up to delta, down to it, delta. *)
\* Fault: the diagonals above delta are left out.
NextDiagonal_Short == k + 1

NextDiagonal ==
    CASE k < delta - 1 -> k + 1
      [] k = delta - 1 -> delta + p
      [] k > delta -> k - 1

(* onp_snake: the end; the furthest point of the diagonal is recorded. *)
Record ==
    /\ pc = "slide" /\ ~CanSlide
    /\ fp' = [fp EXCEPT ![k + offset] = y]
    /\ path' = [path EXCEPT ![k + offset] = Len(coords)]
    /\ coords' = Append(coords, [x |-> x, y |-> y, k |-> r])

RecordDiagonal ==
    /\ k # delta
    /\ Record
    /\ pc' = "search"
    /\ k' = NextDiagonal
    /\ UNCHANGED <<a, b, swapped, p, x, y, r, pathVars, resultVars, editdist>>

NextRound ==
    /\ k = delta /\ y # n
    /\ Record
    /\ pc' = "search"
    /\ p' = p + 1
    /\ k' = -(p + 1)
    /\ UNCHANGED <<a, b, swapped, x, y, r, pathVars, resultVars, editdist>>

\* Fault: the rounds are counted from one.
EndSearch_RoundsFromOne ==
    /\ k = delta /\ y = n
    /\ Record
    /\ pc' = "trace"
    /\ editdist' = delta + 2 * (p + 1)
    /\ r' = path'[delta + offset]
    /\ UNCHANGED <<a, b, swapped, p, k, x, y, pathVars, resultVars>>

EndSearch ==
    /\ k = delta /\ y = n
    /\ Record
    /\ pc' = "trace"
    /\ editdist' = delta + 2 * p
    /\ r' = path'[delta + offset]
    /\ UNCHANGED <<a, b, swapped, p, k, x, y, pathVars, resultVars>>

(* onp_compose: back along the path. *)
Trace ==
    /\ pc = "trace" /\ r # -1
    /\ epc' = Append(epc, coords[r + 1])
    /\ r' = coords[r + 1].k
    /\ UNCHANGED <<pc, a, b, swapped, x, y, searchVars, i, px, py, resultVars, editdist>>

StartScript ==
    /\ pc = "trace" /\ r = -1
    /\ pc' = "script"
    /\ i' = Len(epc)
    /\ UNCHANGED <<a, b, swapped, x, y, r, searchVars, epc, px, py, resultVars, editdist>>

(* onp_genseq: steps towards the next point of the path. *)
Ahead == px < epc[i].x \/ py < epc[i].y

Side == (epc[i].y - epc[i].x) - (py - px)

\* Fault: the indices are not exchanged back.
StepBoth_Exchanged ==
    [originIdx |-> px + 1, targetIdx |-> py + 1, type |-> "COMMON",
     e |-> IF swapped THEN <<"b", py>> ELSE <<"a", px>>]

StepDown ==
    [originIdx |-> IF swapped THEN py + 1 ELSE 0,
     targetIdx |-> IF swapped THEN 0 ELSE py + 1,
     type |-> IF swapped THEN "DELETE" ELSE "ADD", e |-> <<"b", py>>]

StepRight ==
    [originIdx |-> IF swapped THEN 0 ELSE px + 1,
     targetIdx |-> IF swapped THEN px + 1 ELSE 0,
     type |-> IF swapped THEN "ADD" ELSE "DELETE", e |-> <<"a", px>>]

StepBoth ==
    [originIdx |-> IF swapped THEN py + 1 ELSE px + 1,
     targetIdx |-> IF swapped THEN px + 1 ELSE py + 1,
     type |-> "COMMON",
     e |-> IF swapped THEN <<"b", py>> ELSE <<"a", px>>]

InScript == pc = "script" /\ Ahead

scriptUnchanged == <<a, b, swapped, x, y, r, searchVars, epc, i, editdist, reached>>

GoDown ==
    /\ InScript /\ Side > 0
    /\ ses' = Append(ses, StepDown)
    /\ py' = py + 1
    /\ UNCHANGED <<pc, px, lcs, scriptUnchanged>>

GoRight ==
    /\ InScript /\ Side < 0
    /\ ses' = Append(ses, StepRight)
    /\ px' = px + 1
    /\ UNCHANGED <<pc, py, lcs, scriptUnchanged>>

GoBoth ==
    /\ InScript /\ Side = 0
    /\ ses' = Append(ses, StepBoth)
    /\ lcs' = Append(lcs, StepBoth.e)
    /\ px' = px + 1 /\ py' = py + 1
    /\ UNCHANGED <<pc, scriptUnchanged>>

\* Fault: the point that was reached stays the next one.
NextPoint_Stays ==
    /\ pc = "script" /\ ~Ahead /\ i > 1
    /\ i' = i
    /\ UNCHANGED <<pc, a, b, swapped, x, y, r, searchVars, epc, px, py,
                   resultVars, editdist>>

NextPoint ==
    /\ pc = "script" /\ ~Ahead /\ i > 1
    /\ i' = i - 1
    /\ UNCHANGED <<pc, a, b, swapped, x, y, r, searchVars, epc, px, py,
                   resultVars, editdist>>

EndScript ==
    /\ pc = "script" /\ ~Ahead /\ i = 1
    /\ reached' = (px + 1 > m /\ py + 1 > n)
    /\ pc' = "returned"
    /\ UNCHANGED <<a, b, swapped, x, y, r, searchVars, pathVars, ses, lcs, editdist>>
-----------------------------------------------------------------------------
(* Memory runs out: while searching and tracing the call fails. *)
Fail ==
    /\ \/ pc = "search" /\ coords = <<>>
       \/ pc = "slide" /\ ~CanSlide
       \/ pc = "trace" /\ r # -1
    /\ pc' = "failed"
    /\ UNCHANGED <<a, b, swapped, x, y, r, searchVars, pathVars, resultVars, editdist>>

(* onp_compose does not look at what onp_genseq returns: it succeeds with  *)
(* the part of the script that was made, the last entry of which may be    *)
(* missing in lcs.                                                         *)
ScriptFails ==
    /\ InScript
    /\ \/ UNCHANGED ses
       \/ Side = 0 /\ ses' = Append(ses, StepBoth)
    /\ pc' = "returned"
    /\ UNCHANGED <<px, py, lcs, scriptUnchanged>>

Search == StartSnake \/ Slide \/ RecordDiagonal \/ NextRound \/ EndSearch

Generate == Trace \/ StartScript \/ GoDown \/ GoRight \/ GoBoth \/ NextPoint \/ EndScript

Next == Search \/ Generate \/ Fail \/ ScriptFails

Spec == Init /\ [][Next]_vars /\ WF_vars(Next)
-----------------------------------------------------------------------------
(* The search stays within fp and path, whose ends are only reached by     *)
(* sequences with little in common, and ends after at most m + 1 rounds:   *)
(* without the exact test for n it would run on past the end.              *)
SearchInRange ==
    /\ p <= m
    /\ pc = "search" => /\ k - 1 + offset \in 0 .. size - 1
                        /\ k + 1 + offset \in 0 .. size - 1
    /\ pc = "slide" => k + offset \in 0 .. size - 1 /\ x <= m /\ y <= n

(* Reference: all subsequences of s, and the length of the longest common. *)
Subsequences(s) ==
    LET f[l \in 0 .. Len(s)] ==
            IF l = 0 THEN {<<>>}
            ELSE LET shorter == f[l - 1]
                 IN shorter \cup {Append(c, s[l]) : c \in shorter}
    IN f[Len(s)]

LongestCommon(s, t) ==
    Max({Len(c) : c \in Subsequences(s) \cap Subsequences(t)})

(* The greatest y on diagonal d that is reached with at most q steps to    *)
(* the right.                                                              *)
Furthest(d, q) ==
    Max({l \in 0 .. n :
            /\ l - d \in 0 .. m
            /\ l - d - LongestCommon(SubSeq(a, 1, l - d), SubSeq(b, 1, l)) <= q})

(* In round p, onp_snake returns for each diagonal the furthest point that *)
(* p deletions lead to (beyond delta, p less the distance from delta), so  *)
(* no shorter path is missed.                                              *)
FurthestReaching ==
    (pc = "slide" /\ ~CanSlide) =>
        y = Furthest(k, IF k <= delta THEN p ELSE p - (k - delta))

origin == IF swapped THEN b ELSE a
target == IF swapped THEN a ELSE b

Succeeded == pc = "returned" /\ ~Ahead

(* How many of the first l entries of the script are of one of the types.  *)
Entered(types, l) == Cardinality({j \in 1 .. l : ses[j].type \in types})

InOrigin == {"DELETE", "COMMON"}
InTarget == {"ADD", "COMMON"}

(* The script of a call that met no failure turns the origin into the      *)
(* target: its deleted and common entries point at every element of the    *)
(* origin, its added and common ones at every element of the target, each  *)
(* in order, common elements are equal, and lcs has the common entries.    *)
ScriptTransforms ==
    LET At(seq, idx) == <<IF (seq = "origin") = swapped THEN "b" ELSE "a", idx - 1>>
    IN Succeeded =>
        /\ reached
        /\ Entered(InOrigin, Len(ses)) = Len(origin)
        /\ Entered(InTarget, Len(ses)) = Len(target)
        /\ Entered({"COMMON"}, Len(ses)) = Len(lcs)
        /\ \A j \in DOMAIN ses :
            LET q == ses[j]
            IN /\ q.originIdx = IF q.type \in InOrigin THEN Entered(InOrigin, j) ELSE 0
               /\ q.targetIdx = IF q.type \in InTarget THEN Entered(InTarget, j) ELSE 0
               /\ q.e = IF q.type \in InOrigin THEN At("origin", q.originIdx)
                                              ELSE At("target", q.targetIdx)
               /\ q.type = "COMMON" =>
                    /\ origin[q.originIdx] = target[q.targetIdx]
                    /\ lcs[Entered({"COMMON"}, j)] = q.e

(* No script is shorter, lcs is a longest common subsequence, and editdist *)
(* is the number of edits in the script.                                   *)
ScriptIsShortest ==
    Succeeded =>
        /\ Len(lcs) = LongestCommon(a, b)
        /\ editdist = Entered({"ADD", "DELETE"}, Len(ses))
        /\ editdist = m + n - 2 * Len(lcs)

(* Every call comes back: the rounds end at the last point of both         *)
(* sequences, the links of the path lead to its start.                     *)
Returns == <>(pc \in {"returned", "failed"})

(* diff.c says of node_lcs that it returns zero on failure (memory), which *)
(* it can only do if diff() tells it.                                      *)
FailureReported == pc = "returned" => reached
=============================================================================
