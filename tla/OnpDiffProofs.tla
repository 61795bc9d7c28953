--------------------------- MODULE OnpDiffProofs ---------------------------
(***************************************************************************)
(* Proofs about OnpDiff, for all sequences: the search keeps its types, it *)
(* stays within fp and path, and it needs no more than m + 1 rounds; and   *)
(* the script that is read off the recorded points turns the origin into   *)
(* the target.  Its points are the furthest ones, so the script is a       *)
(* shortest one and lcs a longest common subsequence.                      *)
(***************************************************************************)
EXTENDS OnpDiff, TLAPS, FiniteSetTheorems

Diagonals == -offset .. n + 1

F(d) == fp[d + offset]

(* The steps to the right of the furthest point on diagonal d. *)
X(d) == F(d) - d

(* Whether diagonal d, other than delta, was searched in this round. *)
Done(d) ==
    \/ -p <= d /\ d < delta /\ (k < delta => d < k)
    \/ delta < d /\ d <= delta + p /\ k >= delta /\ (k > delta => d > k)

(* The last round that searched d, if it is one of the round's diagonals. *)
Last(d) == IF Done(d) THEN p ELSE p - 1

Unset(d) == Last(d) < 0 \/ d < -Last(d) \/ d > delta + Last(d)

(* The furthest points of a round are inside the graph; when another round *)
(* was needed none of them is at the end of a sequence, and each round is  *)
(* one step further to the right.                                          *)
PointsInside ==
    \A d \in Diagonals :
        /\ F(d) >= -1
        /\ Unset(d) => F(d) = -1
        /\ ~Unset(d) /\ d <= delta => Last(d) <= X(d) /\ X(d) <= m
        /\ ~Unset(d) /\ d <= delta /\ ~Done(d) => X(d) < m
        /\ ~Unset(d) /\ d >= delta => d <= F(d) /\ F(d) <= n
        /\ ~Unset(d) /\ d >= delta /\ ~Done(d) => F(d) < n

(* The diagonals are ordered towards delta, so that delta is the furthest. *)
PointsOrdered ==
    \A d, e \in Diagonals :
        /\ -p <= d /\ d <= e /\ e < delta /\ Done(e) => X(d) <= X(e)
        /\ delta < d /\ d <= e /\ e <= delta + p /\ Done(d) => F(e) <= F(d)

(* The point onp_snake is at is no nearer than the neighbours allow. *)
PointAhead ==
    /\ x = y - k
    /\ y > F(k - 1) /\ y >= F(k + 1)
    /\ x <= m /\ y <= n
    /\ k <= delta => x >= p

RoundInv ==
    pc \in {"search", "slide"} =>
        /\ p <= m
        /\ k \in -p .. delta + p
        /\ PointsInside
        /\ PointsOrdered
        /\ pc = "slide" => PointAhead

RoundsEnd == p <= m

IInv == TypeOK /\ RoundInv /\ RoundsEnd
-----------------------------------------------------------------------------
(* The sizes are natural numbers, and every diagonal has its entry. *)
LEMMA SizesNat ==
    ASSUME TypeOK
    PROVE  /\ m \in Nat /\ n \in Nat /\ m <= n
           /\ delta \in Nat /\ delta = n - m
           /\ offset \in Nat /\ offset = m + 1
           /\ size \in Nat /\ size = m + n + 3
           /\ \A d \in Diagonals : d \in Int /\ d + offset \in 0 .. size - 1 /\ F(d) \in Int
<1>1. m \in Nat /\ n \in Nat /\ m <= n
    BY DEF TypeOK, m, n
<1>2. delta \in Nat /\ offset \in Nat /\ size \in Nat
    BY <1>1 DEF delta, offset, size
<1>3. \A d \in Diagonals : d \in Int /\ d + offset \in 0 .. size - 1
    BY <1>1 DEF Diagonals, offset, size
<1>4. fp \in [0 .. size - 1 -> Int]
    BY DEF TypeOK
<1>5. \A d \in Diagonals : F(d) \in Int
    BY <1>3, <1>4 DEF F
<1> QED
    BY <1>1, <1>2, <1>3, <1>5 DEF delta, offset, size

(* The diagonal that is searched and its neighbours have entries. *)
LEMMA NeighboursInRange ==
    ASSUME TypeOK, p <= m, k \in -p .. delta + p
    PROVE  /\ k \in Diagonals /\ k - 1 \in Diagonals /\ k + 1 \in Diagonals
           /\ k + offset \in 0 .. size - 1
           /\ k - 1 + offset \in 0 .. size - 1
           /\ k + 1 + offset \in 0 .. size - 1
<1>1. p \in Nat /\ k \in Int
    BY DEF TypeOK
<1> QED
    BY <1>1, SizesNat DEF Diagonals

(* The sizes stay the same in every step. *)
LEMMA SizesStay ==
    ASSUME a' = a, b' = b
    PROVE  /\ m' = m /\ n' = n /\ delta' = delta /\ offset' = offset
           /\ size' = size /\ Diagonals' = Diagonals
BY DEF m, n, delta, offset, size, Diagonals

LEMMA InitKeeps == Init => IInv
<1> SUFFICES ASSUME Init PROVE IInv
    OBVIOUS
<1>1. PICK origin_, target_ \in Inputs :
        /\ swapped = (Len(origin_) > Len(target_))
        /\ a = IF swapped THEN target_ ELSE origin_
        /\ b = IF swapped THEN origin_ ELSE target_
    BY DEF Init
<1>2. a \in Seq(Elements) /\ b \in Seq(Elements)
    BY <1>1, InputsAssumption
<1>3. m \in Nat /\ n \in Nat /\ m <= n
    <2>1. Len(origin_) \in Nat /\ Len(target_) \in Nat
        BY InputsAssumption
    <2>2. CASE Len(origin_) > Len(target_)
        <3>1. m = Len(target_) /\ n = Len(origin_)
            BY <1>1, <2>2, Zenon DEF m, n
        <3> QED
            BY <2>1, <2>2, <3>1
    <2>3. CASE ~(Len(origin_) > Len(target_))
        <3>1. m = Len(origin_) /\ n = Len(target_)
            BY <1>1, <2>3, Zenon DEF m, n
        <3> QED
            BY <2>1, <2>3, <3>1
    <2> QED
        BY <2>2, <2>3
<1>4. swapped \in BOOLEAN
    BY <1>1
<1>5. TypeOK
    <2>1. /\ fp \in [0 .. size - 1 -> Int]
          /\ path \in [0 .. size - 1 -> -1 .. Len(coords) - 1]
        BY DEF Init
    <2>2. /\ coords \in Seq(Points) /\ epc \in Seq(Points)
          /\ ses \in Seq(Entries) /\ lcs \in Seq({"a", "b"} \X Nat)
          /\ \A j \in DOMAIN coords : coords[j].k \in -1 .. j - 2
        BY DEF Init
    <2>3. reached \in BOOLEAN
        BY Zenon DEF Init
    <2>4. r \in -1 .. Len(coords) - 1
        BY DEF Init
    <2> QED
        BY <1>2, <1>3, <1>4, <2>1, <2>2, <2>3, <2>4 DEF Init, TypeOK
<1>6. \A d \in Diagonals : F(d) = -1 /\ Unset(d)
    <2>1. \A d \in Diagonals : F(d) = -1
        BY <1>5, SizesNat DEF Init, F
    <2>2. \A d \in Diagonals : Unset(d)
        <3> SUFFICES ASSUME NEW d \in Diagonals PROVE Unset(d)
            OBVIOUS
        <3>1. p = 0 /\ k = 0
            BY DEF Init
        <3>2. d \in Int /\ delta \in Nat
            BY <1>5, SizesNat
        <3>3. CASE delta = 0
            BY <3>1, <3>2, <3>3 DEF Unset, Last, Done
        <3>4. CASE delta > 0
            BY <3>1, <3>2, <3>4 DEF Unset, Last, Done
        <3> QED
            BY <3>2, <3>3, <3>4
    <2> QED
        BY <2>1, <2>2
<1>7. PointsInside
    BY <1>5, <1>6, SizesNat DEF PointsInside
<1>8. PointsOrdered
    <2> SUFFICES ASSUME NEW d \in Diagonals, NEW e \in Diagonals
                 PROVE  /\ ~(-p <= d /\ d <= e /\ e < delta /\ Done(e))
                        /\ ~(delta < d /\ d <= e /\ e <= delta + p /\ Done(d))
        BY DEF PointsOrdered
    <2>1. d \in Int /\ e \in Int /\ delta \in Nat /\ p = 0 /\ k = 0
        BY <1>5, SizesNat DEF Init
    <2> QED
        BY <2>1 DEF Done
<1> QED
    BY <1>3, <1>5, <1>7, <1>8, SizesNat DEF IInv, RoundInv, RoundsEnd, Init

(* onp_snake starts inside the graph, beyond both neighbours. *)
LEMMA SnakeStarts ==
    ASSUME TypeOK, RoundInv, StartSnake
    PROVE  /\ x' \in Nat /\ y' \in Nat /\ r' \in -1 .. Len(coords) - 1
           /\ x' = y' - k
           /\ y' > F(k - 1) /\ y' >= F(k + 1)
           /\ x' <= m /\ y' <= n
           /\ k <= delta => x' >= p
<1>1. p \in Nat /\ k \in Int
    BY DEF TypeOK
<1>2. p <= m /\ k \in -p .. delta + p /\ PointsInside
    BY DEF RoundInv, StartSnake
<1>3. /\ k \in Diagonals /\ k - 1 \in Diagonals /\ k + 1 \in Diagonals
      /\ k - 1 + offset \in 0 .. size - 1
      /\ k + 1 + offset \in 0 .. size - 1
    BY <1>2, NeighboursInRange
<1> DEFINE above == F(k - 1) + 1
           below == F(k + 1)
<1>4. /\ y' = IF above > below THEN above ELSE below
      /\ x' = y' - k
      /\ r' = path[Neighbour(above, below) + offset]
    BY DEF StartSnake, F
<1>5. above \in Int /\ below \in Int
    BY <1>3, SizesNat
<1>6. y' >= above /\ y' >= below /\ (y' = above \/ y' = below) /\ y' \in Int
    BY <1>4, <1>5
<1>7. above >= 0
    <2>1. F(k - 1) >= -1
        BY <1>2, <1>3 DEF PointsInside
    <2> QED
        BY <1>3, <2>1, SizesNat
<1>8. r' \in -1 .. Len(coords) - 1
    <2>1. Neighbour(above, below) + offset \in 0 .. size - 1
        BY <1>3 DEF Neighbour
    <2> QED
        BY <1>4, <2>1 DEF TypeOK
<1>9. CASE k <= delta
    <2>1. above - k >= p
        <3>1. CASE k = -p
            BY <1>1, <1>7, <1>5, <3>1
        <3>2. CASE k > -p
            BY <1>1, <1>2, <1>3, <1>5, <1>9, <3>2, SizesNat
               DEF PointsInside, Unset, Last, Done, X
        <3> QED
            BY <1>1, <1>2, <3>1, <3>2, SizesNat
    <2>2. above - k <= m
        <3>1. CASE k = -p
            <4>1. F(k - 1) = -1
                BY <1>1, <1>2, <1>3, <1>9, <3>1, SizesNat
                   DEF PointsInside, Unset, Last, Done
            <4> QED
                BY <1>1, <1>2, <3>1, <4>1, SizesNat
        <3>2. CASE k > -p
            BY <1>1, <1>2, <1>3, <1>5, <1>9, <3>2, SizesNat
               DEF PointsInside, Unset, Last, Done, X
        <3> QED
            BY <1>1, <1>2, <3>1, <3>2, SizesNat
    <2>3. below > -1 => below - k <= m
        <3>1. CASE k < delta
            BY <1>1, <1>2, <1>3, <1>5, <3>1, SizesNat
               DEF PointsInside, Unset, Last, Done, X
        <3>2. CASE k = delta
            BY <1>1, <1>2, <1>3, <1>5, <3>2, SizesNat
               DEF PointsInside, Unset, Last, Done, X
        <3> QED
            BY <1>1, <1>9, <3>1, <3>2, SizesNat
    <2>4. x' <= m /\ x' >= p /\ y' <= n
        BY <1>1, <1>4, <1>5, <1>6, <1>7, <1>9, <2>1, <2>2, <2>3, SizesNat
    <2>5. x' \in Nat /\ y' \in Nat /\ x' = y' - k
        BY <1>1, <1>4, <1>5, <1>6, <1>7, <2>4, SizesNat
    <2>6. y' > F(k - 1) /\ y' >= F(k + 1)
        BY <1>3, <1>6, SizesNat
    <2> QED
        BY <1>8, <2>4, <2>5, <2>6
<1>10. CASE k > delta
    <2>1. above >= k /\ above <= n
        BY <1>1, <1>2, <1>3, <1>5, <1>10, SizesNat
           DEF PointsInside, Unset, Last, Done
    <2>2. below <= n
        BY <1>1, <1>2, <1>3, <1>5, <1>10, SizesNat
           DEF PointsInside, Unset, Last, Done
    <2>3. y' <= n /\ y' >= k
        BY <1>1, <1>5, <1>6, <2>1, <2>2, SizesNat
    <2>4. x' <= m /\ x' >= 0
        BY <1>1, <1>4, <1>6, <1>10, <2>3, SizesNat
    <2>5. x' \in Nat /\ y' \in Nat /\ x' = y' - k
        BY <1>1, <1>4, <1>5, <1>6, <1>7, <2>4, SizesNat
    <2>6. y' > F(k - 1) /\ y' >= F(k + 1)
        BY <1>3, <1>6, SizesNat
    <2>7. ~(k <= delta)
        BY <1>1, <1>10, SizesNat
    <2> QED
        BY <1>8, <2>3, <2>4, <2>5, <2>6, <2>7
<1> QED
    BY <1>1, <1>9, <1>10, SizesNat
-----------------------------------------------------------------------------
(* What Record does to the points, as far as the diagonals are concerned. *)
LEMMA RecordedPoint ==
    ASSUME TypeOK, RoundInv, Record, a' = a, b' = b
    PROVE  /\ p \in Nat /\ k \in Int /\ x \in Nat /\ y \in Nat
           /\ p <= m /\ k \in -p .. delta + p
           /\ PointsInside /\ PointsOrdered /\ PointAhead
           /\ k \in Diagonals /\ k - 1 \in Diagonals /\ k + 1 \in Diagonals
           /\ \A d \in Diagonals : F(d)' = IF d = k THEN y ELSE F(d)
<1>1. p \in Nat /\ k \in Int /\ x \in Nat /\ y \in Nat
    BY DEF TypeOK
<1>2. /\ p <= m /\ k \in -p .. delta + p
      /\ PointsInside /\ PointsOrdered /\ PointAhead
    BY DEF RoundInv, Record
<1>3. /\ k \in Diagonals /\ k - 1 \in Diagonals /\ k + 1 \in Diagonals
      /\ k + offset \in 0 .. size - 1
    BY <1>2, NeighboursInRange
<1>4. fp \in [0 .. size - 1 -> Int] /\ fp' = [fp EXCEPT ![k + offset] = y]
    BY DEF TypeOK, Record
<1>5. offset' = offset
    BY SizesStay
<1>6. ASSUME NEW d \in Diagonals
      PROVE  F(d)' = IF d = k THEN y ELSE F(d)
    <2>1. d \in Int /\ d + offset \in 0 .. size - 1 /\ offset \in Nat
        BY SizesNat
    <2>2. F(d)' = fp'[d + offset]
        BY <1>5 DEF F
    <2>3. fp'[d + offset] = IF d + offset = k + offset THEN y ELSE fp[d + offset]
        BY <1>4, <2>1
    <2>4. d + offset = k + offset <=> d = k
        BY <1>1, <2>1
    <2> QED
        BY <2>2, <2>3, <2>4 DEF F
<1> QED
    BY <1>1, <1>2, <1>3, <1>6

(* Recording keeps the types. *)
LEMMA RecordedTypes ==
    ASSUME TypeOK, RoundInv, Record, a' = a, b' = b
    PROVE  /\ fp' \in [0 .. size' - 1 -> Int]
           /\ path' \in [0 .. size' - 1 -> -1 .. Len(coords') - 1]
           /\ coords' \in Seq(Points)
           /\ \A j \in DOMAIN coords' : coords'[j].k \in -1 .. j - 2
           /\ r \in -1 .. Len(coords') - 1
           /\ path'[k + offset] \in -1 .. Len(coords') - 1
<1>1. /\ fp \in [0 .. size - 1 -> Int] /\ k + offset \in 0 .. size - 1 /\ y \in Nat
      /\ size' = size
    BY RecordedPoint, NeighboursInRange, SizesStay DEF TypeOK
<1>2. coords \in Seq(Points) /\ Len(coords) \in Nat
      /\ path \in [0 .. size - 1 -> -1 .. Len(coords) - 1]
      /\ r \in -1 .. Len(coords) - 1
      /\ \A j \in DOMAIN coords : coords[j].k \in -1 .. j - 2
    BY DEF TypeOK
<1> DEFINE c == [x |-> x, y |-> y, k |-> r]
<1>3. c \in Points
    BY <1>2 DEF TypeOK, Points
<1>4. coords' = Append(coords, c)
    BY DEF Record
<1>5. coords' \in Seq(Points) /\ Len(coords') = Len(coords) + 1
    BY <1>2, <1>3, <1>4
<1>6. fp' \in [0 .. size' - 1 -> Int]
    BY <1>1 DEF Record
<1>7. path' \in [0 .. size' - 1 -> -1 .. Len(coords') - 1]
    <2>1. path' = [path EXCEPT ![k + offset] = Len(coords)]
        BY DEF Record
    <2>2. -1 .. Len(coords) - 1 \subseteq -1 .. Len(coords') - 1
        BY <1>2, <1>5
    <2>3. Len(coords) \in -1 .. Len(coords') - 1
        BY <1>2, <1>5
    <2> QED
        BY <1>1, <1>2, <2>1, <2>2, <2>3
<1>8. ASSUME NEW j \in DOMAIN coords' PROVE coords'[j].k \in -1 .. j - 2
    <2>1. j \in 1 .. Len(coords) + 1
        BY <1>5
    <2>2. CASE j = Len(coords) + 1
        <3>1. coords'[j] = c
            BY <1>2, <1>3, <1>4, <2>2
        <3> QED
            BY <1>2, <2>2, <3>1
    <2>3. CASE j # Len(coords) + 1
        <3>1. j \in DOMAIN coords /\ coords'[j] = coords[j]
            BY <1>2, <1>3, <1>4, <2>1, <2>3
        <3> QED
            BY <1>2, <3>1
    <2> QED
        BY <2>2, <2>3
<1> QED
    BY <1>1, <1>2, <1>5, <1>6, <1>7, <1>8

(* Within a round the points stay inside the graph and in order. *)
LEMMA DiagonalKeeps ==
    ASSUME TypeOK, RoundInv, RecordDiagonal
    PROVE  k' \in -p' .. delta' + p' /\ PointsInside' /\ PointsOrdered'
<1>1. /\ Record /\ a' = a /\ b' = b /\ p' = p /\ k # delta /\ k' = NextDiagonal
    BY DEF RecordDiagonal
<1>2. /\ p \in Nat /\ k \in Int /\ x \in Nat /\ y \in Nat
      /\ p <= m /\ k \in -p .. delta + p
      /\ PointsInside /\ PointsOrdered /\ PointAhead
      /\ k \in Diagonals /\ k - 1 \in Diagonals /\ k + 1 \in Diagonals
      /\ \A d \in Diagonals : F(d)' = IF d = k THEN y ELSE F(d)
    BY <1>1, RecordedPoint
<1>3. /\ m \in Nat /\ n \in Nat /\ m <= n /\ delta \in Nat /\ delta = n - m
      /\ \A d \in Diagonals : d \in Int /\ F(d) \in Int
    BY SizesNat
<1>4. /\ m' = m /\ n' = n /\ delta' = delta /\ Diagonals' = Diagonals
    BY <1>1, SizesStay
<1>5. \/ k < delta - 1 /\ k' = k + 1
      \/ k = delta - 1 /\ k' = delta + p
      \/ k > delta /\ k' = k - 1
    BY <1>1, <1>2, <1>3 DEF NextDiagonal
<1>6. k' \in -p' .. delta' + p'
    BY <1>1, <1>2, <1>3, <1>4, <1>5
<1>7. ASSUME NEW d \in Diagonals
      PROVE  Done(d)' <=> Done(d) \/ d = k
    BY <1>1, <1>2, <1>3, <1>4, <1>5 DEF Done
<1>8. PointsInside'
    <2> SUFFICES ASSUME NEW d \in Diagonals
                 PROVE  (/\ F(d) >= -1
                         /\ Unset(d) => F(d) = -1
                         /\ ~Unset(d) /\ d <= delta => Last(d) <= X(d) /\ X(d) <= m
                         /\ ~Unset(d) /\ d <= delta /\ ~Done(d) => X(d) < m
                         /\ ~Unset(d) /\ d >= delta => d <= F(d) /\ F(d) <= n
                         /\ ~Unset(d) /\ d >= delta /\ ~Done(d) => F(d) < n)'
        BY <1>4 DEF PointsInside
    <2>1. CASE d = k
        <3>1. F(d)' = y /\ Done(d)' /\ Last(d)' = p
            BY <1>1, <1>2, <1>7, <2>1 DEF Last
        <3>2. ~Unset(d)'
            BY <1>1, <1>2, <1>3, <1>4, <2>1, <3>1 DEF Unset
        <3>3. X(d)' = x
            BY <1>2, <2>1, <3>1 DEF X, PointAhead
        <3> QED
            BY <1>1, <1>2, <1>3, <1>4, <2>1, <3>1, <3>2, <3>3 DEF PointAhead
    <2>2. CASE d # k
        <3>1. /\ F(d)' = F(d) /\ X(d)' = X(d) /\ (Done(d)' <=> Done(d))
            BY <1>2, <1>7, <2>2 DEF X
        <3>2. Last(d)' = Last(d) /\ (Unset(d)' <=> Unset(d))
            BY <1>1, <1>4, <3>1 DEF Last, Unset
        <3> QED
            BY <1>2, <1>4, <3>1, <3>2 DEF PointsInside
    <2> QED
        BY <2>1, <2>2
<1>9. PointsOrdered'
    <2> SUFFICES ASSUME NEW d \in Diagonals, NEW e \in Diagonals
                 PROVE  (/\ -p <= d /\ d <= e /\ e < delta /\ Done(e) => X(d) <= X(e)
                         /\ delta < d /\ d <= e /\ e <= delta + p /\ Done(d) => F(e) <= F(d))'
        BY <1>4 DEF PointsOrdered
    <2>1. ASSUME -p <= d, d <= e, e < delta, Done(e)'
          PROVE  X(d)' <= X(e)'
        <3>1. CASE e = k
            <4>1. CASE d = k
                BY <1>2, <3>1, <4>1 DEF X
            <4>2. CASE d # k
                <5>1. d <= k - 1 /\ Done(k - 1) /\ k - 1 < delta
                    BY <1>2, <1>3, <2>1, <3>1, <4>2 DEF Done
                <5>2. X(d) <= X(k - 1)
                    BY <1>2, <2>1, <5>1 DEF PointsOrdered
                <5> QED
                    BY <1>2, <1>3, <3>1, <4>2, <5>2 DEF X, PointAhead
            <4> QED
                BY <4>1, <4>2
        <3>2. CASE e # k
            <4>1. Done(e)
                BY <1>7, <2>1, <3>2
            <4>2. d # k
                BY <1>2, <1>3, <2>1, <3>2, <4>1 DEF Done
            <4> QED
                BY <1>2, <2>1, <3>2, <4>1, <4>2 DEF PointsOrdered, X
        <3> QED
            BY <3>1, <3>2
    <2>2. ASSUME delta < d, d <= e, e <= delta + p, Done(d)'
          PROVE  F(e)' <= F(d)'
        <3>1. CASE d = k
            <4>1. CASE e = k
                BY <1>2, <3>1, <4>1
            <4>2. CASE e # k
                <5>1. k + 1 <= e /\ Done(k + 1) /\ delta < k + 1
                    BY <1>2, <1>3, <2>2, <3>1, <4>2 DEF Done
                <5>2. F(e) <= F(k + 1)
                    BY <1>2, <2>2, <5>1 DEF PointsOrdered
                <5> QED
                    BY <1>2, <1>3, <3>1, <4>2, <5>2 DEF PointAhead
            <4> QED
                BY <4>1, <4>2
        <3>2. CASE d # k
            <4>1. Done(d)
                BY <1>7, <2>2, <3>2
            <4>2. e # k
                BY <1>2, <1>3, <2>2, <3>2, <4>1 DEF Done
            <4> QED
                BY <1>2, <2>2, <3>2, <4>1, <4>2 DEF PointsOrdered
        <3> QED
            BY <3>1, <3>2
    <2> QED
        BY <1>1, <1>4, <2>1, <2>2
<1> QED
    BY <1>6, <1>8, <1>9
(* When delta did not reach the end of both sequences, no diagonal reached *)
(* the end of one, and delta is p steps to the right: a round is left.     *)
LEMMA RoundKeeps ==
    ASSUME TypeOK, RoundInv, NextRound
    PROVE  p' <= m' /\ k' \in -p' .. delta' + p' /\ PointsInside' /\ PointsOrdered'
<1>1. Record /\ a' = a /\ b' = b /\ p' = p + 1 /\ k' = -(p + 1) /\ k = delta /\ y # n
    BY DEF NextRound
<1>2. /\ p \in Nat /\ k \in Int /\ x \in Nat /\ y \in Nat
      /\ PointsInside /\ PointsOrdered /\ PointAhead
      /\ k \in Diagonals /\ k - 1 \in Diagonals /\ k + 1 \in Diagonals
      /\ \A d \in Diagonals : F(d)' = IF d = k THEN y ELSE F(d)
    BY <1>1, RecordedPoint
<1>3. /\ m \in Nat /\ n \in Nat /\ m <= n /\ delta \in Nat /\ delta = n - m
      /\ \A d \in Diagonals : d \in Int /\ F(d) \in Int
    BY SizesNat
<1>4. m' = m /\ n' = n /\ delta' = delta /\ Diagonals' = Diagonals
    BY <1>1, SizesStay
<1>5. y < n /\ x < m /\ x >= p
    BY <1>1, <1>2, <1>3 DEF PointAhead
<1>6. p' <= m' /\ k' \in -p' .. delta' + p'
    BY <1>1, <1>2, <1>3, <1>4, <1>5
<1>7. ASSUME NEW d \in Diagonals
      PROVE  ~Done(d)' /\ Last(d)' = p
    BY <1>1, <1>2, <1>3, <1>4 DEF Done, Last
<1>8. ASSUME NEW d \in Diagonals, d < delta, -p <= d
      PROVE  X(d) <= x /\ p <= X(d) /\ F(d) >= -1
    <2>1. d \in Int /\ F(d) \in Int /\ F(k - 1) \in Int
        BY <1>2, <1>3
    <2>2. Done(d) /\ Done(k - 1)
        BY <1>1, <1>2, <1>3, <1>8, <2>1 DEF Done
    <2>3. X(d) <= X(k - 1)
        BY <1>1, <1>2, <1>3, <1>8, <2>1, <2>2 DEF PointsOrdered
    <2>4. X(k - 1) <= x
        BY <1>2, <2>1 DEF X, PointAhead
    <2>5. Last(d) = p /\ ~Unset(d)
        BY <1>2, <1>3, <1>8, <2>1, <2>2 DEF Last, Unset
    <2>6. p <= X(d)
        BY <1>2, <1>3, <1>8, <2>1, <2>5 DEF PointsInside
    <2> QED
        BY <1>2, <2>1, <2>3, <2>4, <2>6 DEF X, PointsInside
<1>9. ASSUME NEW d \in Diagonals, d > delta, d <= delta + p
      PROVE  F(d) <= y /\ d <= F(d) /\ F(d) >= -1
    <2>1. d \in Int /\ F(d) \in Int /\ F(k + 1) \in Int
        BY <1>2, <1>3
    <2>2. Done(d) /\ Done(k + 1)
        BY <1>1, <1>2, <1>3, <1>9, <2>1 DEF Done
    <2>3. F(d) <= F(k + 1)
        BY <1>1, <1>2, <1>3, <1>9, <2>1, <2>2 DEF PointsOrdered
    <2>4. F(k + 1) <= y
        BY <1>2 DEF PointAhead
    <2>5. Last(d) = p /\ ~Unset(d)
        BY <1>2, <1>3, <1>9, <2>1, <2>2 DEF Last, Unset
    <2>6. d <= F(d)
        BY <1>2, <1>3, <1>9, <2>1, <2>5 DEF PointsInside
    <2> QED
        BY <1>2, <2>1, <2>3, <2>4, <2>6 DEF PointsInside
<1>10. PointsInside'
    <2> SUFFICES ASSUME NEW d \in Diagonals
                 PROVE  (/\ F(d) >= -1
                         /\ Unset(d) => F(d) = -1
                         /\ ~Unset(d) /\ d <= delta => Last(d) <= X(d) /\ X(d) <= m
                         /\ ~Unset(d) /\ d <= delta /\ ~Done(d) => X(d) < m
                         /\ ~Unset(d) /\ d >= delta => d <= F(d) /\ F(d) <= n
                         /\ ~Unset(d) /\ d >= delta /\ ~Done(d) => F(d) < n)'
        BY <1>4 DEF PointsInside
    <2>0. d \in Int /\ F(d) \in Int /\ Last(d)' = p
        BY <1>3, <1>7
    <2>1. Unset(d)' <=> (d < -p \/ d > delta + p)
        BY <1>2, <1>3, <1>4, <2>0 DEF Unset
    <2>2. X(d)' = F(d)' - d
        BY DEF X
    <2>3. CASE d = delta
        <3>1. F(d)' = y /\ X(d)' = x
            BY <1>1, <1>2, <2>2, <2>3 DEF PointAhead
        <3> QED
            BY <1>1, <1>2, <1>3, <1>4, <1>5, <2>0, <2>1, <2>3, <3>1 DEF PointAhead
    <2>4. CASE d # delta
        <3>1. F(d)' = F(d) /\ X(d)' = X(d)
            BY <1>1, <1>2, <2>4 DEF X
        <3>2. CASE d < -p \/ d > delta + p
            <4>0. ~Done(d)
                BY <1>1, <1>2, <1>3, <2>0, <3>2 DEF Done
            <4>1. Unset(d)
                BY <1>2, <1>3, <2>0, <3>2, <4>0 DEF Unset, Last
            <4>2. F(d) = -1
                BY <1>2, <4>1 DEF PointsInside
            <4> QED
                BY <2>1, <3>1, <3>2, <4>2
        <3>3. CASE -p <= d /\ d < delta
            <4>1. p <= X(d) /\ X(d) < m /\ F(d) >= -1 /\ X(d) \in Int
                BY <1>2, <1>3, <1>5, <1>8, <2>0, <3>3 DEF X
            <4>2. F(d)' >= -1 /\ Last(d)' <= X(d)' /\ X(d)' <= m' /\ X(d)' < m'
                BY <1>2, <1>3, <1>4, <2>0, <3>1, <4>1
            <4>3. ~(d >= delta') /\ ~Unset(d)'
                BY <1>2, <1>3, <1>4, <2>0, <2>1, <3>3
            <4> QED
                BY <4>2, <4>3
        <3>4. CASE delta < d /\ d <= delta + p
            <4>1. d <= F(d) /\ F(d) < n /\ F(d) >= -1
                BY <1>2, <1>3, <1>5, <1>9, <2>0, <3>4
            <4> QED
                BY <1>2, <1>3, <1>4, <2>0, <2>1, <3>1, <3>4, <4>1
        <3> QED
            BY <1>2, <1>3, <2>0, <2>4, <3>2, <3>3, <3>4
    <2> QED
        BY <2>3, <2>4
<1>11. PointsOrdered'
    <2> SUFFICES ASSUME NEW d \in Diagonals, NEW e \in Diagonals
                 PROVE  (/\ -p <= d /\ d <= e /\ e < delta /\ Done(e) => X(d) <= X(e)
                         /\ delta < d /\ d <= e /\ e <= delta + p /\ Done(d) => F(e) <= F(d))'
        BY <1>4 DEF PointsOrdered
    <2> QED
        BY <1>7
<1> QED
    BY <1>6, <1>10, <1>11
-----------------------------------------------------------------------------
LEMMA TypesKept == TypeOK /\ RoundInv /\ [Next]_vars => TypeOK'
<1> SUFFICES ASSUME TypeOK, RoundInv, [Next]_vars PROVE TypeOK'
    OBVIOUS
<1> USE DEF searchVars, pathVars, resultVars, scriptUnchanged
<1>1. CASE StartSnake
    <2>1. x' \in Nat /\ y' \in Nat /\ r' \in -1 .. Len(coords) - 1
        BY <1>1, SnakeStarts
    <2>2. size' = size /\ m' = m /\ n' = n
        BY <1>1, SizesStay DEF StartSnake
    <2> QED
        BY <1>1, <2>1, <2>2 DEF TypeOK, StartSnake
<1>2. CASE Slide
    <2>1. size' = size /\ m' = m /\ n' = n
        BY <1>2, SizesStay DEF Slide
    <2> QED
        BY <1>2, <2>1 DEF TypeOK, Slide
<1>3. CASE RecordDiagonal
    <2>1. size' = size /\ m' = m /\ n' = n
        BY <1>3, SizesStay DEF RecordDiagonal
    <2>2. k' \in Int
        <3>1. p \in Nat /\ k \in Int /\ delta \in Nat /\ k # delta /\ k' = NextDiagonal
            BY <1>3, SizesNat DEF RecordDiagonal, TypeOK
        <3> QED
            BY <3>1 DEF NextDiagonal
    <2>3. Record /\ a' = a /\ b' = b /\ p' = p /\ r' = r
        BY <1>3 DEF RecordDiagonal
    <2>4. /\ fp' \in [0 .. size' - 1 -> Int]
          /\ path' \in [0 .. size' - 1 -> -1 .. Len(coords') - 1]
          /\ coords' \in Seq(Points) /\ r' \in -1 .. Len(coords') - 1
          /\ \A j \in DOMAIN coords' : coords'[j].k \in -1 .. j - 2
        BY <2>3, RecordedTypes
    <2> QED
        BY <1>3, <2>1, <2>2, <2>3, <2>4 DEF TypeOK, RecordDiagonal
<1>4. CASE NextRound
    <2>1. size' = size /\ m' = m /\ n' = n
        BY <1>4, SizesStay DEF NextRound
    <2>2. p' \in Nat /\ k' \in Int
        BY <1>4 DEF NextRound, TypeOK
    <2>3. Record /\ a' = a /\ b' = b /\ r' = r
        BY <1>4 DEF NextRound
    <2>4. /\ fp' \in [0 .. size' - 1 -> Int]
          /\ path' \in [0 .. size' - 1 -> -1 .. Len(coords') - 1]
          /\ coords' \in Seq(Points) /\ r' \in -1 .. Len(coords') - 1
          /\ \A j \in DOMAIN coords' : coords'[j].k \in -1 .. j - 2
        BY <2>3, RecordedTypes
    <2> QED
        BY <1>4, <2>1, <2>2, <2>4 DEF TypeOK, NextRound
<1>5. CASE EndSearch
    <2>1. size' = size /\ m' = m /\ n' = n
        BY <1>5, SizesStay DEF EndSearch
    <2>2. editdist' \in Nat
        <3>1. p \in Nat
            BY DEF TypeOK
        <3> QED
            BY <1>5, <3>1, SizesNat DEF EndSearch
    <2>3. Record /\ a' = a /\ b' = b /\ r' = path'[k + offset]
        BY <1>5 DEF EndSearch
    <2>4. /\ fp' \in [0 .. size' - 1 -> Int]
          /\ path' \in [0 .. size' - 1 -> -1 .. Len(coords') - 1]
          /\ coords' \in Seq(Points) /\ r' \in -1 .. Len(coords') - 1
          /\ \A j \in DOMAIN coords' : coords'[j].k \in -1 .. j - 2
        BY <2>3, RecordedTypes
    <2> QED
        BY <1>5, <2>1, <2>2, <2>4 DEF TypeOK, EndSearch
<1>6. CASE Trace
    <2>1. size' = size /\ m' = m /\ n' = n
        BY <1>6, SizesStay DEF Trace
    <2>2. r + 1 \in DOMAIN coords /\ Len(coords) \in Nat
        BY <1>6 DEF TypeOK, Trace
    <2>3. coords[r + 1] \in Points /\ coords[r + 1].k \in -1 .. (r + 1) - 2
        BY <2>2 DEF TypeOK
    <2>4. r' \in -1 .. Len(coords) - 1
        BY <1>6, <2>2, <2>3, SMTT(30) DEF TypeOK, Trace
    <2>5. epc' \in Seq(Points)
        BY <1>6, <2>3 DEF TypeOK, Trace
    <2> QED
        BY <1>6, <2>1, <2>4, <2>5 DEF TypeOK, Trace
<1>7. CASE StartScript
    <2>1. size' = size /\ m' = m /\ n' = n
        BY <1>7, SizesStay DEF StartScript
    <2> QED
        BY <1>7, <2>1 DEF TypeOK, StartScript
<1>8. CASE GoDown
    <2>1. size' = size /\ m' = m /\ n' = n
        BY <1>8, SizesStay DEF GoDown
    <2>2. StepDown \in Entries
        BY DEF TypeOK, StepDown, Entries
    <2> QED
        BY <1>8, <2>1, <2>2 DEF TypeOK, GoDown
<1>9. CASE GoRight
    <2>1. size' = size /\ m' = m /\ n' = n
        BY <1>9, SizesStay DEF GoRight
    <2>2. StepRight \in Entries
        BY DEF TypeOK, StepRight, Entries
    <2> QED
        BY <1>9, <2>1, <2>2 DEF TypeOK, GoRight
<1>10. CASE GoBoth
    <2>1. size' = size /\ m' = m /\ n' = n
        BY <1>10, SizesStay DEF GoBoth
    <2>2. StepBoth \in Entries /\ StepBoth.e \in {"a", "b"} \X Nat
        BY DEF TypeOK, StepBoth, Entries
    <2> QED
        BY <1>10, <2>1, <2>2 DEF TypeOK, GoBoth
<1>11. CASE NextPoint
    <2>1. size' = size /\ m' = m /\ n' = n
        BY <1>11, SizesStay DEF NextPoint
    <2> QED
        BY <1>11, <2>1 DEF TypeOK, NextPoint
<1>12. CASE EndScript
    <2>1. size' = size /\ m' = m /\ n' = n
        BY <1>12, SizesStay DEF EndScript
    <2>2. reached' \in BOOLEAN
        BY <1>12, Zenon DEF EndScript
    <2> QED
        BY <1>12, <2>1, <2>2 DEF TypeOK, EndScript
<1>13. CASE Fail
    <2>1. size' = size /\ m' = m /\ n' = n
        BY <1>13, SizesStay DEF Fail
    <2> QED
        BY <1>13, <2>1 DEF TypeOK, Fail
<1>14. CASE ScriptFails
    <2>1. size' = size /\ m' = m /\ n' = n
        BY <1>14, SizesStay DEF ScriptFails
    <2>2. StepBoth \in Entries
        BY DEF TypeOK, StepBoth, Entries
    <2>3. ses' \in Seq(Entries)
        <3>1. ses \in Seq(Entries)
            BY DEF TypeOK
        <3>2. ses' = ses \/ ses' = Append(ses, StepBoth)
            BY <1>14 DEF ScriptFails
        <3> QED
            BY <2>2, <3>1, <3>2
    <2> QED
        BY <1>14, <2>1, <2>3 DEF TypeOK, ScriptFails
<1>15. CASE UNCHANGED vars
    <2>1. size' = size /\ m' = m /\ n' = n
        BY <1>15, SizesStay DEF vars
    <2> QED
        BY <1>15, <2>1 DEF TypeOK, vars
<1> QED
    BY <1>1, <1>2, <1>3, <1>4, <1>5, <1>6, <1>7, <1>8, <1>9, <1>10, <1>11,
       <1>12, <1>13, <1>14, <1>15 DEF Next, Search, Generate
(* A step of the call keeps the invariant of the rounds: only the search   *)
(* touches what it is about.                                               *)
LEMMA RoundsKept == TypeOK /\ RoundInv /\ RoundsEnd /\ [Next]_vars => RoundInv' /\ RoundsEnd'
<1> SUFFICES ASSUME TypeOK, RoundInv, RoundsEnd, [Next]_vars
             PROVE  RoundInv' /\ RoundsEnd'
    OBVIOUS
<1> USE DEF searchVars, pathVars, resultVars, scriptUnchanged
<1>1. ASSUME a' = a, b' = b, p' = p, k' = k, fp' = fp
      PROVE  /\ RoundsEnd' /\ delta' = delta /\ m' = m /\ n' = n
             /\ PointsInside' <=> PointsInside
             /\ PointsOrdered' <=> PointsOrdered
             /\ F(k - 1)' = F(k - 1) /\ F(k + 1)' = F(k + 1)
    <2>1. /\ delta' = delta /\ m' = m /\ n' = n /\ offset' = offset
          /\ Diagonals' = Diagonals
        BY <1>1, SizesStay
    <2> QED
        BY <1>1, <2>1 DEF RoundsEnd, PointsInside, PointsOrdered, Unset, Last, Done, X, F
<1>2. CASE StartSnake
    <2>1. a' = a /\ b' = b /\ p' = p /\ k' = k /\ fp' = fp /\ pc' = "slide" /\ pc = "search"
        BY <1>2 DEF StartSnake
    <2>2. PointAhead'
        BY <1>1, <1>2, <2>1, SnakeStarts DEF PointAhead
    <2> QED
        BY <1>1, <2>1, <2>2 DEF RoundInv
<1>3. CASE Slide
    <2>1. /\ a' = a /\ b' = b /\ p' = p /\ k' = k /\ fp' = fp /\ pc' = pc /\ pc = "slide"
          /\ x' = x + 1 /\ y' = y + 1 /\ x < m /\ y < n
        BY <1>3 DEF Slide, CanSlide
    <2>2. PointAhead /\ p <= m /\ k \in -p .. delta + p
        BY <2>1 DEF RoundInv
    <2>3. /\ x \in Nat /\ y \in Nat /\ p \in Nat /\ k \in Int
          /\ m \in Nat /\ n \in Nat /\ delta \in Nat
        BY SizesNat DEF TypeOK
    <2>4. F(k - 1) \in Int /\ F(k + 1) \in Int
        BY <2>2, NeighboursInRange, SizesNat
    <2>5. PointAhead'
        BY <1>1, <2>1, <2>2, <2>3, <2>4 DEF PointAhead
    <2> QED
        BY <1>1, <2>1, <2>5 DEF RoundInv
<1>4. CASE RecordDiagonal
    <2>1. a' = a /\ b' = b /\ p' = p /\ pc' = "search" /\ m' = m
        BY <1>4, SizesStay DEF RecordDiagonal
    <2> QED
        BY <1>4, <2>1, DiagonalKeeps DEF RoundInv, RoundsEnd
<1>5. CASE NextRound
    <2>1. pc' = "search"
        BY <1>5 DEF NextRound
    <2> QED
        BY <1>5, <2>1, RoundKeeps DEF RoundInv, RoundsEnd
<1>6. CASE EndSearch
    <2>1. a' = a /\ b' = b /\ p' = p /\ pc' = "trace" /\ m' = m
        BY <1>6, SizesStay DEF EndSearch
    <2> QED
        BY <2>1 DEF RoundInv, RoundsEnd
<1>7. CASE Trace \/ GoDown \/ GoRight \/ GoBoth \/ NextPoint
    <2>1. a' = a /\ b' = b /\ p' = p /\ pc' \in {"trace", "script"} /\ m' = m
        BY <1>7, SizesStay DEF Trace, GoDown, GoRight, GoBoth, NextPoint, InScript
    <2> QED
        BY <2>1 DEF RoundInv, RoundsEnd
<1>8. CASE StartScript \/ EndScript \/ Fail \/ ScriptFails
    <2>1. a' = a /\ b' = b /\ p' = p /\ pc' \in {"script", "returned", "failed"} /\ m' = m
        BY <1>8, SizesStay DEF StartScript, EndScript, Fail, ScriptFails
    <2> QED
        BY <2>1 DEF RoundInv, RoundsEnd
<1>9. CASE UNCHANGED vars
    <2>1. /\ a' = a /\ b' = b /\ p' = p /\ k' = k /\ fp' = fp /\ pc' = pc
          /\ x' = x /\ y' = y
        BY <1>9 DEF vars
    <2>2. PointAhead' <=> PointAhead
        BY <1>1, <2>1 DEF PointAhead
    <2> QED
        BY <1>1, <2>1, <2>2 DEF RoundInv
<1> QED
    BY <1>2, <1>3, <1>4, <1>5, <1>6, <1>7, <1>8, <1>9 DEF Next, Search, Generate

LEMMA IInvInvariant == Spec => []IInv
<1>1. IInv /\ [Next]_vars => IInv'
    BY TypesKept, RoundsKept DEF IInv
<1> QED
    BY <1>1, InitKeeps, PTL DEF Spec

(* All variables keep their types; above all, the links along a path lead  *)
(* to points recorded before, so that onp_compose comes to its start.      *)
THEOREM DiffTypes == Spec => []TypeOK
<1>1. IInv => TypeOK
    BY DEF IInv
<1> QED
    BY <1>1, IInvInvariant, PTL

(* onp_snake never leaves fp and path, nor the two sequences, and there    *)
(* are no more than m + 1 rounds, whatever the sequences are.              *)
THEOREM DiffInRange == Spec => []SearchInRange
<1>1. IInv => SearchInRange
    <2> SUFFICES ASSUME IInv PROVE SearchInRange
        OBVIOUS
    <2>1. TypeOK /\ RoundInv /\ RoundsEnd
        BY DEF IInv
    <2>2. ASSUME pc \in {"search", "slide"}
          PROVE  /\ k + offset \in 0 .. size - 1
                 /\ k - 1 + offset \in 0 .. size - 1
                 /\ k + 1 + offset \in 0 .. size - 1
                 /\ pc = "slide" => x <= m /\ y <= n
        BY <2>1, <2>2, NeighboursInRange DEF RoundInv, PointAhead
    <2> QED
        BY <2>1, <2>2 DEF SearchInRange, RoundsEnd
<1> QED
    BY <1>1, IInvInvariant, PTL

-----------------------------------------------------------------------------
(* The script *)

Start == [x |-> 0, y |-> 0, k |-> -1]

(* The point before c on the path. *)
From(c) == IF c.k = -1 THEN Start ELSE coords[c.k + 1]

(* The step off the diagonal on the way from q to c: to the right -1,      *)
(* downwards 1.                                                            *)
Turn(q, c) == (c.y - c.x) - (q.y - q.x)

(* The way from q to c: one step off the diagonal at most, then along      *)
(* equal elements.                                                         *)
Leg(q, c) ==
    /\ q.x <= c.x /\ q.y <= c.y
    /\ Turn(q, c) \in {-1, 0, 1}
    /\ \A t \in q.x .. c.x - 1 :
        (Turn(q, c) = -1 => t > q.x) => a[t + 1] = b[t + (c.y - c.x) + 1]

InGraph(c) == c.x \in 0 .. m /\ c.y \in 0 .. n

PathsLinked ==
    \A j \in DOMAIN coords : InGraph(coords[j]) /\ Leg(From(coords[j]), coords[j])

(* path has the point whose y fp has. *)
PathsRecorded ==
    \A d \in Diagonals :
        IF F(d) = -1
        THEN path[d + offset] = -1
        ELSE /\ path[d + offset] # -1
             /\ coords[path[d + offset] + 1].x = X(d)
             /\ coords[path[d + offset] + 1].y = F(d)

SnakePoint == [x |-> x, y |-> y, k |-> r]

SearchLinked ==
    /\ PathsLinked
    /\ pc \in {"search", "slide"} => PathsRecorded
    /\ pc = "slide" => Leg(From(SnakePoint), SnakePoint)

(* Where the point epc[j] is in coords. *)
Index(j) == IF j = 1 THEN path[delta + offset] + 1 ELSE epc[j - 1].k + 1

(* onp_compose goes back from the end of both sequences to their start. *)
PathTraced ==
    /\ pc \in {"search", "slide"} => epc = <<>>
    /\ pc \in {"trace", "script", "returned"} =>
        /\ Index(1) \in DOMAIN coords
        /\ coords[Index(1)].x = m /\ coords[Index(1)].y = n
        /\ \A j \in DOMAIN epc : Index(j) \in DOMAIN coords /\ epc[j] = coords[Index(j)]
    /\ pc = "trace" => r = Index(Len(epc) + 1) - 1
    /\ pc \in {"script", "returned"} => i \in DOMAIN epc /\ Index(Len(epc) + 1) = 0

At(seq, idx) == <<IF (seq = "origin") = swapped THEN "b" ELSE "a", idx - 1>>

EntryFits(q, l) ==
    /\ q.originIdx = IF q.type \in InOrigin THEN Entered(InOrigin, l) ELSE 0
    /\ q.targetIdx = IF q.type \in InTarget THEN Entered(InTarget, l) ELSE 0
    /\ q.e = IF q.type \in InOrigin THEN At("origin", q.originIdx)
                                   ELSE At("target", q.targetIdx)
    /\ q.type = "COMMON" =>
        /\ origin[q.originIdx] = target[q.targetIdx]
        /\ lcs[Entered({"COMMON"}, l)] = q.e

EntriesFit == \A j \in DOMAIN ses : EntryFits(ses[j], j)

(* onp_genseq has entered what is before px and py. *)
AllEntered ==
    /\ Entered(InOrigin, Len(ses)) = IF swapped THEN py ELSE px
    /\ Entered(InTarget, Len(ses)) = IF swapped THEN px ELSE py
    /\ Entered({"COMMON"}, Len(ses)) = Len(lcs)

Here == [x |-> px, y |-> py]

ScriptInv ==
    /\ pc \in {"search", "slide", "trace"} =>
        px = 0 /\ py = 0 /\ ses = <<>> /\ lcs = <<>>
    /\ pc = "script" \/ Succeeded =>
        /\ Leg(Here, epc[i])
        /\ EntriesFit
        /\ AllEntered
    /\ Succeeded => i = 1 /\ reached

-----------------------------------------------------------------------------
LEMMA InitLinks == Init => SearchLinked /\ PathTraced /\ ScriptInv
<1> SUFFICES ASSUME Init PROVE SearchLinked /\ PathTraced /\ ScriptInv
    OBVIOUS
<1>1. TypeOK
    BY InitKeeps DEF IInv
<1>2. \A d \in Diagonals : F(d) = -1 /\ path[d + offset] = -1
    BY <1>1, SizesNat DEF Init, F
<1>3. pc = "search" /\ DOMAIN coords = {} /\ epc = <<>>
    BY DEF Init
<1>4. SearchLinked
    BY <1>2, <1>3 DEF SearchLinked, PathsLinked, PathsRecorded
<1>5. PathTraced /\ ScriptInv
    BY <1>3 DEF PathTraced, ScriptInv, Succeeded, Init
<1> QED
    BY <1>4, <1>5

(* A link leads to a point that was recorded before. *)
LEMMA FromRecorded ==
    ASSUME TypeOK, NEW l \in -1 .. Len(coords) - 1
    PROVE  /\ l # -1 => l + 1 \in DOMAIN coords /\ coords[l + 1] \in Points
           /\ l + 1 \in 0 .. Len(coords)
<1>1. coords \in Seq(Points) /\ Len(coords) \in Nat
    BY DEF TypeOK
<1> QED
    BY <1>1

(* The snake begins one step off the diagonal of a point that was recorded *)
(* before, or at the start of both sequences.                              *)
LEMMA SnakeFrom ==
    ASSUME IInv, SearchLinked, StartSnake
    PROVE  \E q, x1, y1 :
                /\ From(SnakePoint)' = q /\ SnakePoint' = [x |-> x1, y |-> y1, k |-> r']
                /\ q.x \in 0 .. m /\ q.y \in 0 .. n /\ x1 \in 0 .. m /\ y1 \in 0 .. n
                /\ \/ q = Start /\ x1 = 0 /\ y1 = 0 /\ k = 0 /\ p <= 0
                   \/ /\ F(k - 1) # -1 /\ q.x = X(k - 1) /\ q.y = F(k - 1)
                      /\ x1 = q.x /\ y1 = q.y + 1
                   \/ /\ F(k + 1) # -1 /\ q.x = X(k + 1) /\ q.y = F(k + 1)
                      /\ x1 = q.x + 1 /\ y1 = q.y
<1>1. TypeOK /\ RoundInv /\ p \in Nat /\ k \in Int
    BY DEF IInv, TypeOK
<1>2. /\ p <= m /\ k \in -p .. delta + p /\ PointsInside /\ PathsRecorded
      /\ a' = a /\ b' = b /\ coords' = coords
    BY <1>1 DEF RoundInv, SearchLinked, StartSnake, searchVars
<1>3. /\ k \in Diagonals /\ k - 1 \in Diagonals /\ k + 1 \in Diagonals
    BY <1>1, <1>2, NeighboursInRange
<1> DEFINE above == F(k - 1) + 1
           below == F(k + 1)
<1>4. /\ y' = IF above > below THEN above ELSE below
      /\ x' = y' - k
      /\ r' = path[Neighbour(above, below) + offset]
    BY DEF StartSnake, F
<1>5. above \in Int /\ below \in Int /\ above >= 0
    <2>1. F(k - 1) \in Int /\ F(k + 1) \in Int
        BY <1>1, <1>3, SizesNat
    <2>2. F(k - 1) >= -1
        BY <1>2, <1>3 DEF PointsInside
    <2> QED
        BY <2>1, <2>2
<1>6. /\ x' \in Nat /\ y' \in Nat /\ (k <= delta => x' >= p) /\ r' \in -1 .. Len(coords) - 1
      /\ x' <= m /\ y' <= n /\ m \in Nat /\ n \in Nat
    BY <1>1, SnakeStarts, SizesNat
<1>7. SnakePoint' = [x |-> x', y |-> y', k |-> r']
    BY DEF SnakePoint
<1>8. CASE r' = -1
    <2>1. above = 0 /\ below = -1
        <3>1. CASE above > below
            <4>1. F(k - 1) = -1
                BY <1>2, <1>3, <1>4, <1>8, <3>1 DEF Neighbour, PathsRecorded
            <4>2. below >= -1
                BY <1>2, <1>3 DEF PointsInside
            <4> QED
                BY <1>5, <3>1, <4>1, <4>2
        <3>2. CASE ~(above > below)
            <4>1. F(k + 1) = -1
                BY <1>2, <1>3, <1>4, <1>8, <3>2 DEF Neighbour, PathsRecorded
            <4> QED
                BY <1>5, <3>2, <4>1
        <3> QED
            BY <3>1, <3>2
    <2>2. PICK x1 \in Nat : x1 = x' /\ x1 + k = 0 /\ y' = 0 /\ (k <= delta => x1 >= p)
        <3>1. y' = 0 /\ x' = 0 - k
            BY <1>1, <1>4, <2>1
        <3> QED
            BY <1>1, <1>6, <3>1
    <2>3. x1 + k = 0 /\ (k <= delta => x1 >= p)
        BY <2>2
    <2>4. k <= delta
        <3> SUFFICES ASSUME k > delta PROVE FALSE
            BY <1>1, SizesNat
        <3>1. F(k - 1) >= k - 1
            BY <1>1, <1>2, <1>3, SizesNat DEF PointsInside, Unset, Last, Done
        <3> QED
            BY <1>1, <1>3, <2>1, <3>1, SizesNat
    <2>5. k = -p
        <3>1. k >= -p
            BY <1>1, <1>2, SizesNat
        <3>2. k <= -p
            BY <1>1, <2>3, <2>4
        <3> QED
            BY <1>1, <3>1, <3>2
    <2>6. p <= 0
        <3> SUFFICES ASSUME p >= 1 PROVE FALSE
            BY <1>1
        <3>1. ~Unset(k + 1) /\ ~Done(k + 1) /\ k + 1 <= delta
            BY <1>1, <2>5, SizesNat DEF Unset, Last, Done
        <3>2. Last(k + 1) <= X(k + 1)
            BY <1>2, <1>3, <3>1 DEF PointsInside
        <3>3. p - 1 <= F(k + 1) - (k + 1)
            BY <3>1, <3>2 DEF Last, X
        <3> QED
            BY <1>1, <1>3, <2>1, <2>5, <3>3, SizesNat
    <2>7. /\ From(SnakePoint)' = Start /\ SnakePoint' = [x |-> 0, y |-> 0, k |-> r']
          /\ k = 0 /\ p <= 0
        <3>1. From(SnakePoint)' = Start
            BY <1>7, <1>8 DEF From, Start
        <3>2. k = 0
            BY <1>1, <2>5, <2>6
        <3>3. x1 = 0
            BY <2>3, <3>2
        <3> QED
            BY <1>7, <2>2, <2>6, <3>1, <3>2, <3>3
    <2>8. 0 \in 0 .. m /\ 0 \in 0 .. n /\ Start.x = 0 /\ Start.y = 0
        BY <1>6 DEF Start
    <2> QED
        BY <2>7, <2>8
<1>9. CASE r' # -1
    <2>1. PICK q, x1, y1 : q = coords[r' + 1] /\ x1 = x' /\ y1 = y'
        OBVIOUS
    <2>2. From(SnakePoint)' = q /\ SnakePoint' = [x |-> x1, y |-> y1, k |-> r']
        BY <1>2, <1>7, <1>9, <2>1 DEF From
    <2>3. /\ x1 \in 0 .. m /\ y1 \in 0 .. n /\ F(k - 1) \in Int /\ F(k + 1) \in Int
          /\ x1 \in Nat /\ y1 \in Nat
        BY <1>1, <1>3, <1>6, <2>1, SizesNat
    <2>4. q.x \in 0 .. m /\ q.y \in 0 .. n
        <3>1. PICK l \in -1 .. Len(coords) - 1 : l = r'
            BY <1>6
        <3>2. l + 1 \in DOMAIN coords
            BY <1>1, <1>9, <3>1, FromRecorded
        <3> QED
            BY <2>1, <3>1, <3>2 DEF SearchLinked, PathsLinked, InGraph
    <2>5. CASE above > below
        <3>1. q.x = X(k - 1) /\ q.y = F(k - 1) /\ F(k - 1) # -1
            BY <1>2, <1>3, <1>4, <1>9, <2>1, <2>5 DEF Neighbour, PathsRecorded
        <3>2. y1 = F(k - 1) + 1 /\ x1 = y1 - k
            BY <1>4, <2>1, <2>5
        <3>3. x1 = q.x /\ y1 = q.y + 1
            BY <1>1, <2>3, <3>1, <3>2 DEF X
        <3> QED
            BY <2>2, <2>3, <2>4, <3>1, <3>3
    <2>6. CASE ~(above > below)
        <3>1. q.x = X(k + 1) /\ q.y = F(k + 1) /\ F(k + 1) # -1
            BY <1>2, <1>3, <1>4, <1>9, <2>1, <2>6 DEF Neighbour, PathsRecorded
        <3>2. y1 = F(k + 1) /\ x1 = y1 - k
            BY <1>4, <2>1, <2>6
        <3>3. x1 = q.x + 1 /\ y1 = q.y
            BY <1>1, <2>3, <3>1, <3>2 DEF X
        <3> QED
            BY <2>2, <2>3, <2>4, <3>1, <3>3
    <2> QED
        BY <2>5, <2>6
<1> QED
    BY <1>8, <1>9

LEMMA SnakeLinks ==
    ASSUME IInv, SearchLinked, StartSnake
    PROVE  Leg(From(SnakePoint), SnakePoint)'
<1>1. PICK q, x1, y1 :
        /\ From(SnakePoint)' = q /\ SnakePoint' = [x |-> x1, y |-> y1, k |-> r']
        /\ q.x \in 0 .. m /\ q.y \in 0 .. n /\ x1 \in 0 .. m /\ y1 \in 0 .. n
        /\ \/ q = Start /\ x1 = 0 /\ y1 = 0
           \/ x1 = q.x /\ y1 = q.y + 1
           \/ x1 = q.x + 1 /\ y1 = q.y
    BY SnakeFrom
<1>2. /\ q.x <= x1 /\ q.y <= y1 /\ (y1 - x1) - (q.y - q.x) \in {-1, 0, 1}
      /\ \A t \in q.x .. x1 - 1 : (y1 - x1) - (q.y - q.x) = -1 /\ ~(t > q.x)
    BY <1>1 DEF Start
<1> QED
    BY <1>1, <1>2 DEF Leg, Turn

(* Along the diagonal the way to the point grows by equal elements. *)
LEMMA SlideLinks ==
    ASSUME IInv, SearchLinked, Slide
    PROVE  Leg(From(SnakePoint), SnakePoint)'
<1>1. /\ Leg(From(SnakePoint), SnakePoint) /\ PathsLinked
      /\ x' = x + 1 /\ y' = y + 1 /\ r' = r /\ a' = a /\ b' = b /\ coords' = coords
      /\ a[x + 1] = b[y + 1]
    BY DEF SearchLinked, Slide, CanSlide, searchVars
<1>2. x \in Nat /\ y \in Nat /\ TypeOK /\ r \in -1 .. Len(coords) - 1
    BY DEF IInv, TypeOK
<1>3. PICK q : q = From(SnakePoint)
    OBVIOUS
<1>4. From(SnakePoint)' = q /\ SnakePoint' = [x |-> x + 1, y |-> y + 1, k |-> r]
    BY <1>1, <1>3 DEF From, SnakePoint
<1>5. q.x \in Int /\ q.y \in Int
    <2>1. r # -1 => coords[r + 1].x \in Int /\ coords[r + 1].y \in Int
        BY <1>2, FromRecorded DEF Points
    <2> QED
        BY <1>3, <2>1 DEF From, SnakePoint, Start
<1>6. /\ q.x <= x /\ q.y <= y /\ (y - x) - (q.y - q.x) \in {-1, 0, 1}
      /\ \A t \in q.x .. x - 1 :
            ((y - x) - (q.y - q.x) = -1 => t > q.x) => a[t + 1] = b[t + (y - x) + 1]
    BY <1>1, <1>3 DEF Leg, Turn, SnakePoint
<1>7. (y + 1) - (x + 1) = y - x
    BY <1>2
<1>8. ASSUME NEW t \in q.x .. (x + 1) - 1, (y - x) - (q.y - q.x) = -1 => t > q.x
      PROVE  a[t + 1] = b[t + (y - x) + 1]
    <2>1. CASE t = x
        <3>1. t + (y - x) + 1 = y + 1
            BY <1>2, <2>1
        <3> QED
            BY <1>1, <2>1, <3>1
    <2>2. CASE t # x
        <3>1. t \in q.x .. x - 1
            BY <1>2, <1>5, <2>2
        <3> QED
            BY <1>6, <1>8, <3>1
    <2> QED
        BY <2>1, <2>2
<1>9. q.x <= x + 1 /\ q.y <= y + 1
    BY <1>2, <1>5, <1>6
<1> QED
    BY <1>1, <1>4, <1>6, <1>7, <1>8, <1>9 DEF Leg, Turn

(* Record adds the snake's point and the link to the one before it. *)
LEMMA RecordLinks ==
    ASSUME IInv, SearchLinked, Record, a' = a, b' = b
    PROVE  PathsLinked' /\ PathsRecorded'
<1> DEFINE c == [x |-> x, y |-> y, k |-> r]
<1>1. /\ TypeOK /\ RoundInv /\ PathsLinked /\ PathsRecorded
      /\ Leg(From(SnakePoint), SnakePoint)
      /\ coords' = Append(coords, c)
    BY DEF IInv, SearchLinked, Record
<1>2. /\ x \in Nat /\ y \in Nat /\ k \in Int /\ k \in Diagonals /\ PointAhead
      /\ \A d \in Diagonals : F(d)' = IF d = k THEN y ELSE F(d)
    BY <1>1, RecordedPoint
<1>3. /\ coords \in Seq(Points) /\ Len(coords) \in Nat /\ c \in Points
      /\ r \in -1 .. Len(coords) - 1
      /\ \A j \in DOMAIN coords : coords[j].k \in -1 .. j - 2
    <2>1. /\ coords \in Seq(Points) /\ Len(coords) \in Nat
          /\ r \in -1 .. Len(coords) - 1
          /\ \A j \in DOMAIN coords : coords[j].k \in -1 .. j - 2
        BY <1>1 DEF TypeOK
    <2> QED
        BY <1>2, <2>1 DEF Points
<1>4. m' = m /\ n' = n /\ delta' = delta /\ offset' = offset /\ Diagonals' = Diagonals
    BY SizesStay
<1>5. /\ DOMAIN coords' = 1 .. Len(coords) + 1
      /\ coords'[Len(coords) + 1] = c
      /\ \A j \in 1 .. Len(coords) : coords'[j] = coords[j]
    BY <1>1, <1>3
<1>6. ASSUME NEW q, q.k \in -1 .. Len(coords) - 1
      PROVE  (IF q.k = -1 THEN Start ELSE coords'[q.k + 1]) = From(q)
    BY <1>3, <1>5, <1>6, SMTT(30) DEF From
<1>7. ASSUME NEW j \in DOMAIN coords'
      PROVE  (InGraph(coords[j]) /\ Leg(From(coords[j]), coords[j]))'
    <2>1. CASE j = Len(coords) + 1
        <3>1. coords'[j] = SnakePoint
            BY <1>5, <2>1 DEF SnakePoint
        <3>2. From(coords[j])' = From(SnakePoint)
            BY <1>3, <1>6, <3>1 DEF From, Start, SnakePoint
        <3>3. InGraph(SnakePoint)
            BY <1>1, <1>2, SizesNat DEF InGraph, SnakePoint, PointAhead
        <3> QED
            BY <1>1, <1>4, <3>1, <3>2, <3>3, SMTT(30) DEF Leg, Turn, InGraph
    <2>2. CASE j # Len(coords) + 1
        <3>1. j \in DOMAIN coords /\ coords'[j] = coords[j]
            BY <1>3, <1>5, <2>2
        <3>2. coords[j].k \in -1 .. Len(coords) - 1
            BY <1>3, <3>1
        <3>3. From(coords[j])' = From(coords[j])
            BY <1>6, <3>1, <3>2 DEF From, Start
        <3>4. InGraph(coords[j]) /\ Leg(From(coords[j]), coords[j])
            BY <1>1, <3>1 DEF PathsLinked
        <3> QED
            BY <1>4, <3>1, <3>3, <3>4 DEF Leg, Turn, InGraph
    <2> QED
        BY <2>1, <2>2
<1>8. ASSUME NEW d \in Diagonals
      PROVE  (IF F(d) = -1
              THEN path[d + offset] = -1
              ELSE /\ path[d + offset] # -1
                   /\ coords[path[d + offset] + 1].x = X(d)
                   /\ coords[path[d + offset] + 1].y = F(d))'
    <2>1. /\ d \in Int /\ d + offset \in 0 .. size - 1 /\ k + offset \in 0 .. size - 1
          /\ offset \in Nat
        BY <1>1, <1>2, SizesNat
    <2>2. /\ path \in [0 .. size - 1 -> -1 .. Len(coords) - 1]
          /\ path' = [path EXCEPT ![k + offset] = Len(coords)]
        BY <1>1 DEF TypeOK, Record
    <2>3. CASE d = k
        <3>1. F(d)' = y /\ path'[d + offset] = Len(coords)
            BY <1>2, <2>1, <2>2, <2>3
        <3>2. F(d)' # -1 /\ path'[d + offset] # -1
            BY <1>2, <1>3, <3>1
        <3>3. coords'[path'[d + offset] + 1] = c /\ X(d)' = x
            BY <1>2, <1>4, <1>5, <2>3, <3>1 DEF X, PointAhead
        <3> QED
            BY <1>4, <3>1, <3>2, <3>3
    <2>4. CASE d # k
        <3>1. F(d)' = F(d) /\ X(d)' = X(d)
            BY <1>2, <2>4 DEF X
        <3>2. path'[d + offset] = path[d + offset]
            BY <1>2, <2>1, <2>2, <2>4
        <3>3. path[d + offset] \in -1 .. Len(coords) - 1
            BY <2>1, <2>2
        <3>4. path[d + offset] # -1 =>
                coords'[path[d + offset] + 1] = coords[path[d + offset] + 1]
            <4>1. path[d + offset] # -1 => path[d + offset] + 1 \in 1 .. Len(coords)
                BY <1>3, <3>3
            <4> QED
                BY <1>5, <4>1
        <3> QED
            BY <1>1, <1>4, <3>1, <3>2, <3>4 DEF PathsRecorded
    <2> QED
        BY <2>3, <2>4
<1> QED
    BY <1>4, <1>7, <1>8 DEF PathsLinked, PathsRecorded


(* The steps after the search do not touch what was recorded. *)
LEMMA SearchKept ==
    ASSUME UNCHANGED <<a, b, searchVars>>
    PROVE  /\ m' = m /\ n' = n /\ delta' = delta /\ offset' = offset
           /\ PathsLinked' <=> PathsLinked
           /\ PathsRecorded' <=> PathsRecorded
<1>1. a' = a /\ b' = b /\ fp' = fp /\ path' = path /\ coords' = coords
    BY DEF searchVars
<1>2. /\ m' = m /\ n' = n /\ delta' = delta /\ offset' = offset /\ Diagonals' = Diagonals
    BY <1>1, SizesStay
<1> QED
    BY <1>1, <1>2 DEF PathsLinked, PathsRecorded, InGraph, Leg, Turn, From, Start, F, X

LEMMA SearchLinksKept == IInv /\ SearchLinked /\ [Next]_vars => SearchLinked'
<1> SUFFICES ASSUME IInv, SearchLinked, [Next]_vars PROVE SearchLinked'
    OBVIOUS
<1>1. CASE StartSnake
    <2>1. UNCHANGED <<a, b, searchVars>> /\ pc = "search" /\ pc' = "slide"
        BY <1>1 DEF StartSnake
    <2> QED
        BY <1>1, <2>1, SnakeLinks, SearchKept DEF SearchLinked
<1>2. CASE Slide
    <2>1. UNCHANGED <<a, b, searchVars>> /\ pc = "slide"
        BY <1>2 DEF Slide
    <2> QED
        BY <1>2, <2>1, SlideLinks, SearchKept DEF SearchLinked
<1>3. CASE RecordDiagonal \/ NextRound \/ EndSearch
    <2>1. Record /\ a' = a /\ b' = b /\ pc' # "slide"
        BY <1>3 DEF RecordDiagonal, NextRound, EndSearch
    <2> QED
        BY <2>1, RecordLinks DEF SearchLinked
<1>4. CASE Generate \/ Fail \/ ScriptFails
    <2>1. UNCHANGED <<a, b, searchVars>>
        BY <1>4 DEF Generate, Trace, StartScript, GoDown, GoRight, GoBoth, NextPoint,
                    EndScript, Fail, ScriptFails, scriptUnchanged
    <2>2. pc' \notin {"search", "slide"}
        BY <1>4 DEF Generate, Trace, StartScript, GoDown, GoRight, GoBoth, NextPoint,
                    EndScript, Fail, ScriptFails, InScript
    <2> QED
        BY <2>1, <2>2, SearchKept DEF SearchLinked
<1>5. CASE UNCHANGED vars
    <2>1. UNCHANGED <<a, b, searchVars>> /\ x' = x /\ y' = y /\ r' = r /\ pc' = pc
        BY <1>5 DEF vars
    <2>2. (pc = "slide" => Leg(From(SnakePoint), SnakePoint)) =>
          (pc = "slide" => Leg(From(SnakePoint), SnakePoint))'
        BY <2>1 DEF Leg, Turn, From, SnakePoint, Start, searchVars
    <2> QED
        BY <2>1, <2>2, SearchKept DEF SearchLinked
<1> QED
    BY <1>1, <1>2, <1>3, <1>4, <1>5 DEF Next, Search

(* When the search ends, the last recorded point is the end of both        *)
(* sequences.                                                              *)
LEMMA EndTraced ==
    ASSUME IInv, SearchLinked, PathTraced, EndSearch
    PROVE  PathTraced'
<1>1. /\ Record /\ a' = a /\ b' = b /\ epc' = epc /\ pc = "slide" /\ pc' = "trace"
      /\ y = n /\ k = delta /\ r' = path'[delta + offset]
    BY DEF EndSearch, Record, pathVars
<1>2. epc = <<>>
    BY <1>1 DEF PathTraced
<1>3. m' = m /\ n' = n /\ delta' = delta /\ offset' = offset /\ Diagonals' = Diagonals
    BY <1>1, SizesStay
<1>4. /\ PathsRecorded' /\ TypeOK /\ RoundInv /\ delta \in Diagonals
      /\ F(delta)' = n /\ n \in Nat
    <2>1. PathsRecorded' /\ TypeOK /\ RoundInv
        BY <1>1, RecordLinks DEF IInv
    <2>2. delta \in Diagonals /\ \A d \in Diagonals : F(d)' = IF d = delta THEN n ELSE F(d)
        BY <1>1, <2>1, RecordedPoint
    <2>3. PICK d \in Diagonals : d = delta
        BY <2>2
    <2>4. F(delta)' = F(d)'
        BY <1>3, <2>3 DEF F
    <2> QED
        BY <2>1, <2>2, <2>3, <2>4, SizesNat
<1>5. F(delta)' # -1
    BY <1>4
<1>6. PICK l : l = path'[delta + offset]
    OBVIOUS
<1>7. l # -1 /\ coords'[l + 1].x = X(delta)' /\ coords'[l + 1].y = F(delta)'
    BY <1>3, <1>4, <1>5, <1>6 DEF PathsRecorded
<1>8. X(delta)' = m
    <2>1. X(delta)' = F(delta)' - delta
        BY <1>3 DEF X
    <2> QED
        BY <1>4, <2>1, SizesNat
<1>9. l \in -1 .. Len(coords') - 1 /\ coords' \in Seq(Points)
    BY <1>1, <1>4, <1>6, RecordedTypes
<1>10. l + 1 \in DOMAIN coords'
    BY <1>7, <1>9
<1>11. Index(1)' = l + 1
    BY <1>3, <1>6 DEF Index
<1>12. r' = Index(1)' - 1
    <2>1. l = (l + 1) - 1
        BY <1>9
    <2> QED
        BY <1>1, <1>6, <1>11, <2>1
<1>13. Len(epc') + 1 = 1 /\ DOMAIN epc' = {}
    BY <1>1, <1>2
<1>14. r' = Index(Len(epc) + 1)' - 1
    BY <1>12, <1>13
<1> QED
    BY <1>1, <1>3, <1>4, <1>7, <1>8, <1>10, <1>11, <1>13, <1>14 DEF PathTraced

(* onp_compose goes on with the point the last one links to. *)
LEMMA LastIndex ==
    ASSUME TypeOK, PathTraced, pc = "trace"
    PROVE  Index(Len(epc) + 1) = r + 1
<1>1. /\ epc \in Seq(Points) /\ Len(epc) \in Nat /\ coords \in Seq(Points)
      /\ Index(1) \in DOMAIN coords /\ r = Index(Len(epc) + 1) - 1
    BY DEF TypeOK, PathTraced
<1>2. Index(Len(epc) + 1) \in Int
    <2>1. CASE Len(epc) = 0
        <3>1. Index(1) \in Int
            BY <1>1
        <3> QED
            BY <2>1, <3>1
    <2>2. CASE Len(epc) # 0
        <3>1. (Len(epc) + 1) - 1 = Len(epc) /\ Len(epc) + 1 # 1 /\ epc[Len(epc)] \in Points
            BY <1>1, <2>2
        <3>2. Index(Len(epc) + 1) = epc[Len(epc)].k + 1
            BY <3>1 DEF Index
        <3> QED
            BY <3>1, <3>2 DEF Points
    <2> QED
        BY <2>1, <2>2
<1> QED
    BY <1>1, <1>2

(* onp_compose appends the point that the last one links to. *)
LEMMA TraceTraced ==
    ASSUME TypeOK, PathTraced, Trace
    PROVE  PathTraced'
<1>1. /\ pc = "trace" /\ pc' = "trace" /\ r # -1 /\ a' = a /\ b' = b
      /\ coords' = coords /\ path' = path
      /\ epc' = Append(epc, coords[r + 1]) /\ r' = coords[r + 1].k
    BY DEF Trace, searchVars
<1>2. delta' = delta /\ offset' = offset /\ m' = m /\ n' = n
    BY <1>1, SizesStay
<1>3. /\ epc \in Seq(Points) /\ Len(epc) \in Nat /\ r \in -1 .. Len(coords) - 1
      /\ coords \in Seq(Points)
    BY DEF TypeOK
<1>4. r + 1 \in DOMAIN coords /\ coords[r + 1] \in Points
    BY <1>1, <1>3
<1>5. /\ Len(epc') = Len(epc) + 1 /\ DOMAIN epc' = 1 .. Len(epc) + 1
      /\ epc'[Len(epc) + 1] = coords[r + 1]
      /\ \A j \in 1 .. Len(epc) : epc'[j] = epc[j]
    BY <1>1, <1>3, <1>4
<1>6. ASSUME NEW j \in 1 .. Len(epc) + 1
      PROVE  Index(j)' = Index(j)
    <2>1. CASE j = 1
        BY <1>1, <1>2, <2>1 DEF Index
    <2>2. CASE j # 1
        <3>1. j - 1 \in 1 .. Len(epc)
            BY <1>3, <2>2
        <3> QED
            BY <1>5, <2>2, <3>1 DEF Index
    <2> QED
        BY <2>1, <2>2
<1>7. Index(Len(epc) + 1) = r + 1
    BY <1>1, LastIndex
<1>8. ASSUME NEW j \in DOMAIN epc'
      PROVE  (Index(j) \in DOMAIN coords /\ epc[j] = coords[Index(j)])'
    <2>1. CASE j = Len(epc) + 1
        BY <1>1, <1>3, <1>4, <1>5, <1>6, <1>7, <2>1
    <2>2. CASE j # Len(epc) + 1
        <3>1. j \in DOMAIN epc /\ j \in 1 .. Len(epc) /\ j \in 1 .. Len(epc) + 1
            BY <1>3, <1>5, <2>2
        <3>2. Index(j) \in DOMAIN coords /\ epc[j] = coords[Index(j)]
            BY <1>1, <3>1 DEF PathTraced
        <3> QED
            BY <1>1, <1>5, <1>6, <3>1, <3>2
    <2> QED
        BY <2>1, <2>2
<1>9. /\ Index(1)' \in DOMAIN coords'
      /\ coords'[Index(1)'].x = m' /\ coords'[Index(1)'].y = n'
    <2>1. 1 \in 1 .. Len(epc) + 1
        BY <1>3
    <2>2. Index(1) \in DOMAIN coords /\ coords[Index(1)].x = m /\ coords[Index(1)].y = n
        BY <1>1 DEF PathTraced
    <2> QED
        BY <1>1, <1>2, <1>6, <2>1, <2>2
<1>10. r' = Index(Len(epc) + 1)' - 1
    <2>1. Index(Len(epc) + 1)' = epc'[Len(epc) + 1].k + 1
        <3>1. Len(epc') + 1 # 1 /\ (Len(epc') + 1) - 1 = Len(epc) + 1
            BY <1>3, <1>5
        <3> QED
            BY <3>1 DEF Index
    <2>2. coords[r + 1].k \in Int
        BY <1>4 DEF Points
    <2>3. PICK l \in Int : l = coords[r + 1].k
        BY <2>2
    <2>4. (l + 1) - 1 = l
        OBVIOUS
    <2> QED
        BY <1>1, <1>5, <2>1, <2>3, <2>4
<1> QED
    BY <1>1, <1>8, <1>9, <1>10 DEF PathTraced

LEMMA PathTracedKept == IInv /\ SearchLinked /\ PathTraced /\ [Next]_vars => PathTraced'
<1> SUFFICES ASSUME IInv, SearchLinked, PathTraced, [Next]_vars PROVE PathTraced'
    OBVIOUS
<1>1. TypeOK /\ epc \in Seq(Points) /\ Len(epc) \in Nat
    BY DEF IInv, TypeOK
<1>2. CASE StartSnake \/ Slide \/ RecordDiagonal \/ NextRound \/ Fail
    <2>1. pc' \notin {"trace", "script", "returned"}
        BY <1>2 DEF StartSnake, Slide, RecordDiagonal, NextRound, Fail
    <2>2. (pc \in {"search", "slide"} /\ epc' = epc) \/ pc' = "failed"
        BY <1>2 DEF StartSnake, Slide, RecordDiagonal, NextRound, Record, Fail, pathVars
    <2> QED
        BY <2>1, <2>2 DEF PathTraced
<1>3. ASSUME UNCHANGED <<a, b, searchVars, epc>>
      PROVE  /\ delta' = delta /\ m' = m /\ n' = n /\ coords' = coords
             /\ \A j \in Nat : Index(j)' = Index(j)
    <2>1. a' = a /\ b' = b /\ path' = path /\ coords' = coords
        BY <1>3 DEF searchVars
    <2>2. delta' = delta /\ offset' = offset /\ m' = m /\ n' = n
        BY <2>1, SizesStay
    <2> QED
        BY <1>3, <2>1, <2>2 DEF Index
<1>4. CASE StartScript
    <2>1. /\ UNCHANGED <<a, b, searchVars, epc>> /\ pc = "trace" /\ pc' = "script"
          /\ r = -1 /\ i' = Len(epc)
        BY <1>4 DEF StartScript
    <2>2. Index(Len(epc) + 1) = r + 1
        BY <1>1, <2>1, LastIndex
    <2>3. Index(Len(epc) + 1) = 0
        BY <2>1, <2>2
    <2>4. Len(epc) # 0
        <3> SUFFICES ASSUME Len(epc) = 0 PROVE FALSE
            OBVIOUS
        <3>1. Index(1) = 0 /\ Index(1) \in DOMAIN coords /\ coords \in Seq(Points)
            BY <1>1, <2>1, <2>3 DEF PathTraced, TypeOK
        <3> QED
            BY <3>1
    <2>5. Len(epc) \in DOMAIN epc /\ Len(epc) + 1 \in Nat /\ DOMAIN epc \subseteq Nat /\ 1 \in Nat
        BY <1>1, <2>4
    <2> QED
        BY <1>3, <2>1, <2>3, <2>5 DEF PathTraced
<1>5. CASE GoDown \/ GoRight \/ GoBoth \/ NextPoint \/ EndScript \/ ScriptFails
    <2>1. UNCHANGED <<a, b, searchVars, epc>> /\ pc = "script" /\ pc' \in {"script", "returned"}
        BY <1>5 DEF GoDown, GoRight, GoBoth, NextPoint, EndScript, ScriptFails, InScript,
                    scriptUnchanged, pathVars
    <2>2. i' = i \/ (i' = i - 1 /\ i > 1)
        BY <1>5 DEF GoDown, GoRight, GoBoth, NextPoint, EndScript, ScriptFails,
                    scriptUnchanged, pathVars
    <2>3. i \in DOMAIN epc
        BY <2>1 DEF PathTraced
    <2>4. i' \in DOMAIN epc
        <3>1. CASE i' = i
            BY <2>3, <3>1
        <3>2. CASE i' = i - 1 /\ i > 1
            <4>1. i - 1 \in DOMAIN epc
                BY <1>1, <2>3, <3>2
            <4> QED
                BY <3>2, <4>1
        <3> QED
            BY <2>2, <3>1, <3>2
    <2>5. DOMAIN epc \subseteq Nat /\ Len(epc) + 1 \in Nat /\ 1 \in Nat
        BY <1>1
    <2> QED
        BY <1>3, <2>1, <2>4, <2>5 DEF PathTraced
<1>6. CASE UNCHANGED vars
    <2>1. UNCHANGED <<a, b, searchVars, epc>> /\ pc' = pc /\ i' = i /\ r' = r
        BY <1>6 DEF vars, pathVars
    <2>2. DOMAIN epc \subseteq Nat /\ Len(epc) + 1 \in Nat /\ 1 \in Nat
        BY <1>1
    <2> QED
        BY <1>3, <2>1, <2>2 DEF PathTraced
<1> QED
    BY <1>1, <1>2, <1>4, <1>5, <1>6, EndTraced, TraceTraced DEF Next, Search, Generate

-----------------------------------------------------------------------------
(* Counting the entries of some types, in a script of entries s. *)
LEMMA EnteredFinite ==
    ASSUME NEW types, NEW s, NEW l \in Nat
    PROVE  /\ IsFiniteSet({j \in 1 .. l : s[j].type \in types})
           /\ Cardinality({j \in 1 .. l : s[j].type \in types}) \in Nat
<1> DEFINE S == {j \in 1 .. l : s[j].type \in types}
<1>1. IsFiniteSet(1 .. l)
    BY FS_Interval
<1>2. S \subseteq 1 .. l
    OBVIOUS
<1>3. IsFiniteSet(S)
    BY <1>1, <1>2, FS_Subset
<1> QED
    BY <1>3, FS_CardinalityType

(* The place of an entry among those of its types. *)
LEMMA EnteredPlace ==
    ASSUME NEW types, NEW j \in DOMAIN ses, ses[j].type \in types, ses \in Seq(Entries)
    PROVE  Entered(types, j) \in 1 .. Entered(types, Len(ses))
<1> DEFINE S == {l \in 1 .. j : ses[l].type \in types}
           T == {l \in 1 .. Len(ses) : ses[l].type \in types}
<1>1. Len(ses) \in Nat /\ j \in Nat /\ j \in 1 .. Len(ses)
    OBVIOUS
<1>2. /\ IsFiniteSet(S) /\ Cardinality(S) \in Nat
      /\ IsFiniteSet(T) /\ Cardinality(T) \in Nat
    BY <1>1, EnteredFinite, Zenon
<1>3. S \subseteq T
    BY <1>1
<1>4. Cardinality(S) <= Cardinality(T)
    BY <1>2, <1>3, FS_Subset
<1>5. j \in S
    BY <1>1
<1>6. Cardinality(S) # 0
    BY <1>2, <1>5, FS_EmptySet
<1> HIDE DEF S, T
<1>7. Cardinality(S) \in 1 .. Cardinality(T)
    BY <1>2, <1>4, <1>6
<1> QED
    BY <1>7 DEF S, T, Entered

LEMMA EnteredNext ==
    ASSUME NEW types, NEW e \in Entries, ses \in Seq(Entries), ses' = Append(ses, e)
    PROVE  /\ \A l \in 0 .. Len(ses) : Entered(types, l)' = Entered(types, l)
           /\ Entered(types, Len(ses))' =
                Entered(types, Len(ses)) + IF e.type \in types THEN 1 ELSE 0
           /\ Entered(types, Len(ses)) \in Nat
<1>1. /\ Len(ses) \in Nat
      /\ \A j \in 1 .. Len(ses) : ses'[j] = ses[j]
      /\ ses'[Len(ses) + 1] = e
    OBVIOUS
<1>2. ASSUME NEW l \in 0 .. Len(ses)
      PROVE  {j \in 1 .. l : ses'[j].type \in types} = {j \in 1 .. l : ses[j].type \in types}
    BY <1>1
<1>3. \A l \in 0 .. Len(ses) : Entered(types, l)' = Entered(types, l)
    BY <1>2 DEF Entered
<1> DEFINE S == {j \in 1 .. Len(ses) : ses[j].type \in types}
           T == {j \in 1 .. Len(ses) + 1 : ses'[j].type \in types}
<1>4. IsFiniteSet(S) /\ Cardinality(S) \in Nat
    BY <1>1, EnteredFinite
<1>5. T = IF e.type \in types THEN S \cup {Len(ses) + 1} ELSE S
    <2>1. 1 .. Len(ses) + 1 = (1 .. Len(ses)) \cup {Len(ses) + 1}
        BY <1>1
    <2>2. ASSUME NEW j \in 1 .. Len(ses) + 1
          PROVE  j \in T <=> (j \in S \/ (j = Len(ses) + 1 /\ e.type \in types))
        BY <1>1, <2>1
    <2> QED
        BY <2>1, <2>2
<1>6. Len(ses) + 1 \notin S
    BY <1>1
<1> HIDE DEF S, T
<1>7. Cardinality(T) = Cardinality(S) + IF e.type \in types THEN 1 ELSE 0
    <2>1. Cardinality(S \cup {Len(ses) + 1}) = Cardinality(S) + 1
        BY <1>4, <1>6, FS_AddElement
    <2> QED
        BY <1>4, <1>5, <2>1
<1>8. Entered(types, Len(ses)) = Cardinality(S)
    BY DEF S, Entered
<1>9. Entered(types, Len(ses))' = Cardinality(T)
    <2>1. Len(ses') = Len(ses) + 1
        BY <1>1
    <2> QED
        BY <2>1 DEF T, Entered
<1> QED
    BY <1>3, <1>4, <1>7, <1>8, <1>9


(* An entry e, made with the right indices, fits behind the others. *)
LEMMA EntryAdded ==
    ASSUME TypeOK, EntriesFit, Entered({"COMMON"}, Len(ses)) = Len(lcs),
           NEW e \in Entries,
           a' = a, b' = b, swapped' = swapped,
           ses' = Append(ses, e),
           lcs' = IF e.type = "COMMON" THEN Append(lcs, e.e) ELSE lcs,
           e.originIdx = IF e.type \in InOrigin THEN Entered(InOrigin, Len(ses)) + 1 ELSE 0,
           e.targetIdx = IF e.type \in InTarget THEN Entered(InTarget, Len(ses)) + 1 ELSE 0,
           e.e = IF e.type \in InOrigin THEN At("origin", e.originIdx)
                                       ELSE At("target", e.targetIdx),
           e.type = "COMMON" => origin[e.originIdx] = target[e.targetIdx]
    PROVE  /\ EntriesFit'
           /\ Entered({"COMMON"}, Len(ses))' = Len(lcs')
<1>1. ses \in Seq(Entries) /\ Len(ses) \in Nat /\ lcs \in Seq({"a", "b"} \X Nat) /\ Len(lcs) \in Nat
    BY DEF TypeOK
<1>2. /\ \A types : /\ \A l \in 0 .. Len(ses) : Entered(types, l)' = Entered(types, l)
                    /\ Entered(types, Len(ses))' =
                            Entered(types, Len(ses)) + IF e.type \in types THEN 1 ELSE 0
                    /\ Entered(types, Len(ses)) \in Nat
    BY <1>1, EnteredNext
<1>3. /\ Len(ses') = Len(ses) + 1 /\ DOMAIN ses' = 1 .. Len(ses) + 1
      /\ ses'[Len(ses) + 1] = e
      /\ \A j \in 1 .. Len(ses) : ses'[j] = ses[j]
    BY <1>1
<1>4. /\ \A j \in 1 .. Len(lcs) : lcs'[j] = lcs[j]
      /\ e.type = "COMMON" => Len(lcs') = Len(lcs) + 1 /\ lcs'[Len(lcs) + 1] = e.e
      /\ e.type # "COMMON" => Len(lcs') = Len(lcs)
    <2>1. e.e \in {"a", "b"} \X Nat
        BY DEF Entries
    <2> QED
        BY <1>1, <2>1
<1>5. origin' = origin /\ target' = target /\ \A seq, idx : At(seq, idx)' = At(seq, idx)
    BY DEF origin, target, At
<1>6. ASSUME NEW j \in DOMAIN ses'
      PROVE  EntryFits(ses[j], j)'
    <2>1. CASE j = Len(ses) + 1
        <3>1. ses'[j] = e
            BY <1>3, <2>1
        <3>2. \A types : e.type \in types => Entered(types, j)' = Entered(types, Len(ses)) + 1
            BY <1>2, <1>3, <2>1
        <3>3. e.type = "COMMON" => lcs'[Entered({"COMMON"}, j)'] = e.e
            <4>1. e.type \in {"COMMON"} => Entered({"COMMON"}, j)' = Len(lcs) + 1
                BY <3>2
            <4> QED
                BY <1>4, <4>1
        <3> QED
            BY <1>5, <3>1, <3>2, <3>3 DEF EntryFits
    <2>2. CASE j # Len(ses) + 1
        <3>1. j \in 1 .. Len(ses) /\ j \in DOMAIN ses /\ j \in 0 .. Len(ses)
            BY <1>1, <1>3, <2>2
        <3>2. ses'[j] = ses[j] /\ EntryFits(ses[j], j)
            BY <1>3, <3>1 DEF EntriesFit
        <3>3. \A types : Entered(types, j)' = Entered(types, j)
            BY <1>2, <3>1
        <3>4. ses[j].type = "COMMON" => lcs'[Entered({"COMMON"}, j)] = lcs[Entered({"COMMON"}, j)]
            <4>1. ses[j].type \in {"COMMON"} => Entered({"COMMON"}, j) \in 1 .. Len(lcs)
                BY <1>1, <3>1, EnteredPlace
            <4> QED
                BY <1>4, <4>1
        <3> QED
            BY <1>5, <3>2, <3>3, <3>4 DEF EntryFits
    <2> QED
        BY <2>1, <2>2
<1>7. Entered({"COMMON"}, Len(ses))' = Len(lcs')
    BY <1>1, <1>2, <1>4
<1> QED
    BY <1>6, <1>7 DEF EntriesFit


(* onp_genseq is on its way to a point of the path. *)
LEMMA OnTheWay ==
    ASSUME IInv, SearchLinked, PathTraced, ScriptInv, pc = "script"
    PROVE  /\ epc[i].x \in Nat /\ epc[i].y \in Nat /\ epc[i].x <= m /\ epc[i].y <= n
           /\ px \in Nat /\ py \in Nat /\ px <= epc[i].x /\ py <= epc[i].y
           /\ Side \in {-1, 0, 1}
           /\ \A t \in px .. epc[i].x - 1 :
                (Side = -1 => t > px) => a[t + 1] = b[t + (epc[i].y - epc[i].x) + 1]
<1>1. i \in DOMAIN epc /\ Index(i) \in DOMAIN coords /\ epc[i] = coords[Index(i)]
    BY DEF PathTraced
<1>2. InGraph(epc[i])
    BY <1>1 DEF SearchLinked, PathsLinked
<1>3. px \in Nat /\ py \in Nat /\ TypeOK
    BY DEF IInv, TypeOK
<1>4. Leg(Here, epc[i])
    BY DEF ScriptInv
<1>5. Here.x = px /\ Here.y = py /\ Turn(Here, epc[i]) = Side
    BY DEF Here, Turn, Side
<1>6. epc[i].x \in Nat /\ epc[i].y \in Nat /\ epc[i].x <= m /\ epc[i].y <= n
    BY <1>2, <1>3, SizesNat DEF InGraph
<1> QED
    BY <1>3, <1>4, <1>5, <1>6 DEF Leg

LEMMA AtSide ==
    ASSUME swapped \in BOOLEAN, NEW idx
    PROVE  /\ At("origin", idx) = <<IF swapped THEN "b" ELSE "a", idx - 1>>
           /\ At("target", idx) = <<IF swapped THEN "a" ELSE "b", idx - 1>>
<1>1. CASE swapped
    BY <1>1 DEF At
<1>2. CASE ~swapped
    BY <1>2 DEF At
<1> QED
    BY <1>1, <1>2

(* An entry e keeps the script right if it enters what comes next in the   *)
(* origin, in the target or in both.                                       *)
LEMMA StepFits ==
    ASSUME IInv, ScriptInv, pc = "script", pc' = "script",
           epc' = epc, i' = i, a' = a, b' = b, swapped' = swapped,
           Leg(Here, epc[i])',
           NEW e \in Entries, ses' = Append(ses, e),
           lcs' = IF e.type = "COMMON" THEN Append(lcs, e.e) ELSE lcs,
           NEW o \in Nat, o = IF swapped THEN py ELSE px,
           NEW t \in Nat, t = IF swapped THEN px ELSE py,
           (IF swapped THEN py ELSE px)' = o + IF e.type \in InOrigin THEN 1 ELSE 0,
           (IF swapped THEN px ELSE py)' = t + IF e.type \in InTarget THEN 1 ELSE 0,
           e.originIdx = IF e.type \in InOrigin THEN o + 1 ELSE 0,
           e.targetIdx = IF e.type \in InTarget THEN t + 1 ELSE 0,
           e.e = IF e.type \in InOrigin THEN At("origin", e.originIdx)
                                       ELSE At("target", e.targetIdx),
           e.type = "COMMON" => origin[e.originIdx] = target[e.targetIdx]
    PROVE  ScriptInv'
<1>1. TypeOK /\ EntriesFit /\ AllEntered
    BY DEF IInv, ScriptInv
<1>2. /\ Entered(InOrigin, Len(ses)) = o
      /\ Entered(InTarget, Len(ses)) = t
      /\ Entered({"COMMON"}, Len(ses)) = Len(lcs)
    BY <1>1 DEF AllEntered
<1>3. EntriesFit' /\ Entered({"COMMON"}, Len(ses))' = Len(lcs')
    BY <1>1, <1>2, EntryAdded
<1>4. \A types : Entered(types, Len(ses))' =
            Entered(types, Len(ses)) + IF e.type \in types THEN 1 ELSE 0
    BY <1>1, EnteredNext DEF TypeOK
<1>5. AllEntered'
    <2>1. /\ Entered(InOrigin, Len(ses))' = o + IF e.type \in InOrigin THEN 1 ELSE 0
          /\ Entered(InTarget, Len(ses))' = t + IF e.type \in InTarget THEN 1 ELSE 0
        BY <1>2, <1>4 DEF InOrigin, InTarget
    <2> QED
        BY <1>3, <2>1 DEF AllEntered
<1> QED
    BY <1>3, <1>5 DEF ScriptInv, Succeeded

(* A step down enters the next element of b. *)
LEMMA DownFits ==
    ASSUME IInv, SearchLinked, PathTraced, ScriptInv, GoDown
    PROVE  ScriptInv'
<1>1. /\ pc = "script" /\ pc' = "script" /\ Side > 0
      /\ ses' = Append(ses, StepDown) /\ lcs' = lcs
      /\ px' = px /\ py' = py + 1 /\ epc' = epc /\ i' = i
      /\ a' = a /\ b' = b /\ swapped' = swapped
    BY DEF GoDown, InScript, scriptUnchanged
<1>2. swapped \in BOOLEAN
    BY DEF IInv, TypeOK
<1>3. /\ epc[i].x \in Nat /\ epc[i].y \in Nat
      /\ px \in Nat /\ py \in Nat /\ px <= epc[i].x /\ py <= epc[i].y
      /\ Side \in {-1, 0, 1}
      /\ \A t \in px .. epc[i].x - 1 :
            (Side = -1 => t > px) => a[t + 1] = b[t + (epc[i].y - epc[i].x) + 1]
    BY <1>1, OnTheWay
<1>4. PICK c : c = epc[i]
    OBVIOUS
<1>5. /\ c.x \in Nat /\ c.y \in Nat /\ px <= c.x /\ py <= c.y
      /\ (c.y - c.x) - (py - px) = 1
      /\ \A t \in px .. c.x - 1 : a[t + 1] = b[t + (c.y - c.x) + 1]
    BY <1>1, <1>3, <1>4 DEF Side
<1>6. py + 1 <= c.y /\ (c.y - c.x) - ((py + 1) - px) = 0
    BY <1>3, <1>5
<1>7. Leg(Here, epc[i])'
    <2>1. Here' = [x |-> px, y |-> py + 1] /\ epc'[i'] = c
        BY <1>1, <1>4 DEF Here
    <2> QED
        BY <1>1, <1>5, <1>6, <2>1 DEF Leg, Turn
<1>8. PICK e : e = StepDown
    OBVIOUS
<1>9. /\ e.type = IF swapped THEN "DELETE" ELSE "ADD"
      /\ e.originIdx = IF swapped THEN py + 1 ELSE 0
      /\ e.targetIdx = IF swapped THEN 0 ELSE py + 1
      /\ e.e = <<"b", py>>
      /\ e \in Entries
    BY <1>2, <1>3, <1>8 DEF StepDown, Entries
<1>10. (py + 1) - 1 = py
    BY <1>3
<1>11. CASE swapped
    <2>1. /\ e.type \in InOrigin /\ e.type \notin InTarget /\ e.type # "COMMON"
          /\ e.originIdx = py + 1 /\ e.targetIdx = 0
        BY <1>9, <1>11 DEF InOrigin, InTarget
    <2>2. e.e = At("origin", e.originIdx)
        BY <1>2, <1>9, <1>10, <1>11, <2>1, AtSide
    <2>3. /\ (IF swapped THEN py ELSE px)' = py + 1
          /\ (IF swapped THEN px ELSE py)' = px + 0
        BY <1>1, <1>3, <1>11
    <2> QED
        BY <1>1, <1>3, <1>7, <1>8, <1>9, <1>11, <2>1, <2>2, <2>3, StepFits
<1>12. CASE ~swapped
    <2>1. /\ e.type \notin InOrigin /\ e.type \in InTarget /\ e.type # "COMMON"
          /\ e.originIdx = 0 /\ e.targetIdx = py + 1
        BY <1>9, <1>12 DEF InOrigin, InTarget
    <2>2. e.e = At("target", e.targetIdx)
        BY <1>2, <1>9, <1>10, <1>12, <2>1, AtSide
    <2>3. /\ (IF swapped THEN py ELSE px)' = px + 0
          /\ (IF swapped THEN px ELSE py)' = py + 1
        BY <1>1, <1>3, <1>12
    <2> QED
        BY <1>1, <1>3, <1>7, <1>8, <1>9, <1>12, <2>1, <2>2, <2>3, StepFits
<1> QED
    BY <1>11, <1>12


(* A step to the right enters the next element of a. *)
LEMMA RightFits ==
    ASSUME IInv, SearchLinked, PathTraced, ScriptInv, GoRight
    PROVE  ScriptInv'
<1>1. /\ pc = "script" /\ pc' = "script" /\ Side < 0
      /\ ses' = Append(ses, StepRight) /\ lcs' = lcs
      /\ px' = px + 1 /\ py' = py /\ epc' = epc /\ i' = i
      /\ a' = a /\ b' = b /\ swapped' = swapped
    BY DEF GoRight, InScript, scriptUnchanged
<1>2. swapped \in BOOLEAN
    BY DEF IInv, TypeOK
<1>3. /\ epc[i].x \in Nat /\ epc[i].y \in Nat
      /\ px \in Nat /\ py \in Nat /\ px <= epc[i].x /\ py <= epc[i].y
      /\ Side \in {-1, 0, 1}
      /\ \A t \in px .. epc[i].x - 1 :
            (Side = -1 => t > px) => a[t + 1] = b[t + (epc[i].y - epc[i].x) + 1]
    BY <1>1, OnTheWay
<1>4. PICK c : c = epc[i]
    OBVIOUS
<1>5. /\ c.x \in Nat /\ c.y \in Nat /\ px <= c.x /\ py <= c.y
      /\ (c.y - c.x) - (py - px) = -1
      /\ \A t \in px .. c.x - 1 : t > px => a[t + 1] = b[t + (c.y - c.x) + 1]
    BY <1>1, <1>3, <1>4 DEF Side
<1>6. px + 1 <= c.x /\ (c.y - c.x) - (py - (px + 1)) = 0
    BY <1>3, <1>5
<1>7. Leg(Here, epc[i])'
    <2>1. Here' = [x |-> px + 1, y |-> py] /\ epc'[i'] = c
        BY <1>1, <1>4 DEF Here
    <2>2. \A t \in px + 1 .. c.x - 1 : a[t + 1] = b[t + (c.y - c.x) + 1]
        BY <1>3, <1>5
    <2> QED
        BY <1>1, <1>5, <1>6, <2>1, <2>2 DEF Leg, Turn
<1>8. PICK e : e = StepRight
    OBVIOUS
<1>9. /\ e.type = IF swapped THEN "ADD" ELSE "DELETE"
      /\ e.originIdx = IF swapped THEN 0 ELSE px + 1
      /\ e.targetIdx = IF swapped THEN px + 1 ELSE 0
      /\ e.e = <<"a", px>>
      /\ e \in Entries
    BY <1>2, <1>3, <1>8 DEF StepRight, Entries
<1>10. (px + 1) - 1 = px
    BY <1>3
<1>11. CASE swapped
    <2>1. /\ e.type \notin InOrigin /\ e.type \in InTarget /\ e.type # "COMMON"
          /\ e.originIdx = 0 /\ e.targetIdx = px + 1
        BY <1>9, <1>11 DEF InOrigin, InTarget
    <2>2. e.e = At("target", e.targetIdx)
        BY <1>2, <1>9, <1>10, <1>11, <2>1, AtSide
    <2>3. /\ (IF swapped THEN py ELSE px)' = py + 0
          /\ (IF swapped THEN px ELSE py)' = px + 1
        BY <1>1, <1>3, <1>11
    <2> QED
        BY <1>1, <1>3, <1>7, <1>8, <1>9, <1>11, <2>1, <2>2, <2>3, StepFits
<1>12. CASE ~swapped
    <2>1. /\ e.type \in InOrigin /\ e.type \notin InTarget /\ e.type # "COMMON"
          /\ e.originIdx = px + 1 /\ e.targetIdx = 0
        BY <1>9, <1>12 DEF InOrigin, InTarget
    <2>2. e.e = At("origin", e.originIdx)
        BY <1>2, <1>9, <1>10, <1>12, <2>1, AtSide
    <2>3. /\ (IF swapped THEN py ELSE px)' = px + 1
          /\ (IF swapped THEN px ELSE py)' = py + 0
        BY <1>1, <1>3, <1>12
    <2> QED
        BY <1>1, <1>3, <1>7, <1>8, <1>9, <1>12, <2>1, <2>2, <2>3, StepFits
<1> QED
    BY <1>11, <1>12

(* A step along the diagonal enters an element of both, and equal ones. *)
LEMMA BothFits ==
    ASSUME IInv, SearchLinked, PathTraced, ScriptInv, GoBoth
    PROVE  ScriptInv'
<1>1. /\ pc = "script" /\ pc' = "script" /\ Side = 0 /\ Ahead
      /\ ses' = Append(ses, StepBoth) /\ lcs' = Append(lcs, StepBoth.e)
      /\ px' = px + 1 /\ py' = py + 1 /\ epc' = epc /\ i' = i
      /\ a' = a /\ b' = b /\ swapped' = swapped
    BY DEF GoBoth, InScript, scriptUnchanged
<1>2. swapped \in BOOLEAN
    BY DEF IInv, TypeOK
<1>3. /\ epc[i].x \in Nat /\ epc[i].y \in Nat
      /\ px \in Nat /\ py \in Nat /\ px <= epc[i].x /\ py <= epc[i].y
      /\ Side \in {-1, 0, 1}
      /\ \A t \in px .. epc[i].x - 1 :
            (Side = -1 => t > px) => a[t + 1] = b[t + (epc[i].y - epc[i].x) + 1]
    BY <1>1, OnTheWay
<1>4. PICK c : c = epc[i]
    OBVIOUS
<1>5. /\ c.x \in Nat /\ c.y \in Nat /\ px <= c.x /\ py <= c.y
      /\ (c.y - c.x) - (py - px) = 0
      /\ px < c.x \/ py < c.y
      /\ \A t \in px .. c.x - 1 : a[t + 1] = b[t + (c.y - c.x) + 1]
    BY <1>1, <1>3, <1>4 DEF Side, Ahead
<1>6. /\ px + 1 <= c.x /\ py + 1 <= c.y /\ (c.y - c.x) - ((py + 1) - (px + 1)) = 0
      /\ px + (c.y - c.x) + 1 = py + 1
    BY <1>3, <1>5
<1>7. Leg(Here, epc[i])'
    <2>1. Here' = [x |-> px + 1, y |-> py + 1] /\ epc'[i'] = c
        BY <1>1, <1>4 DEF Here
    <2>2. \A t \in px + 1 .. c.x - 1 : a[t + 1] = b[t + (c.y - c.x) + 1]
        BY <1>3, <1>5
    <2> QED
        BY <1>1, <1>5, <1>6, <2>1, <2>2 DEF Leg, Turn
<1>8. a[px + 1] = b[py + 1]
    <2>1. px \in px .. c.x - 1
        BY <1>3, <1>5, <1>6
    <2> QED
        BY <1>5, <1>6, <2>1
<1>9. PICK e : e = StepBoth
    OBVIOUS
<1>10. /\ e.type = "COMMON"
       /\ e.originIdx = IF swapped THEN py + 1 ELSE px + 1
       /\ e.targetIdx = IF swapped THEN px + 1 ELSE py + 1
       /\ e.e = IF swapped THEN <<"b", py>> ELSE <<"a", px>>
       /\ e \in Entries
    BY <1>2, <1>3, <1>9 DEF StepBoth, Entries
<1>11. e.type \in InOrigin /\ e.type \in InTarget
    BY <1>10 DEF InOrigin, InTarget
<1>12. (px + 1) - 1 = px /\ (py + 1) - 1 = py
    BY <1>3
<1>13. CASE swapped
    <2>1. e.e = At("origin", e.originIdx)
        BY <1>2, <1>10, <1>12, <1>13, AtSide
    <2>2. /\ (IF swapped THEN py ELSE px)' = py + 1
          /\ (IF swapped THEN px ELSE py)' = px + 1
        BY <1>1, <1>13
    <2>3. origin[e.originIdx] = target[e.targetIdx]
        BY <1>8, <1>10, <1>13 DEF origin, target
    <2> QED
        BY <1>1, <1>3, <1>7, <1>9, <1>10, <1>11, <1>13, <2>1, <2>2, <2>3, StepFits
<1>14. CASE ~swapped
    <2>1. e.e = At("origin", e.originIdx)
        BY <1>2, <1>10, <1>12, <1>14, AtSide
    <2>2. /\ (IF swapped THEN py ELSE px)' = px + 1
          /\ (IF swapped THEN px ELSE py)' = py + 1
        BY <1>1, <1>14
    <2>3. origin[e.originIdx] = target[e.targetIdx]
        BY <1>8, <1>10, <1>14 DEF origin, target
    <2> QED
        BY <1>1, <1>3, <1>7, <1>9, <1>10, <1>11, <1>14, <2>1, <2>2, <2>3, StepFits
<1> QED
    BY <1>13, <1>14

LEMMA StartFits ==
    ASSUME IInv, SearchLinked, PathTraced, ScriptInv, StartScript, PathTraced'
    PROVE  ScriptInv'
<1>1. /\ pc = "trace" /\ pc' = "script" /\ r = -1 /\ i' = Len(epc) /\ epc' = epc
      /\ px' = px /\ py' = py /\ ses' = ses /\ lcs' = lcs
      /\ a' = a /\ b' = b /\ swapped' = swapped /\ coords' = coords /\ path' = path
    BY DEF StartScript, resultVars, searchVars
<1>2. px = 0 /\ py = 0 /\ ses = <<>> /\ lcs = <<>>
    BY <1>1 DEF ScriptInv
<1>3. Len(epc) \in DOMAIN epc /\ Index(Len(epc))' \in DOMAIN coords /\ Index(Len(epc) + 1)' = 0
    BY <1>1 DEF PathTraced
<1>4. epc \in Seq(Points) /\ Len(epc) \in Nat
    BY DEF IInv, TypeOK
<1>5. PICK c \in Points : c = epc[Len(epc)]
    BY <1>3, <1>4
<1>6. c.k = -1
    <2>1. Index(Len(epc) + 1)' = c.k + 1
        <3>1. (Len(epc') + 1) - 1 = Len(epc) /\ Len(epc') + 1 # 1
            BY <1>1, <1>3, <1>4
        <3> QED
            BY <1>1, <1>5, <3>1 DEF Index
    <2>2. c.k \in Int
        BY DEF Points
    <2> QED
        BY <1>3, <2>1, <2>2
<1>7. \E j \in DOMAIN coords : c = coords[j]
    <2>1. (\A j \in DOMAIN epc : Index(j) \in DOMAIN coords /\ epc[j] = coords[Index(j)])'
        BY <1>1 DEF PathTraced
    <2> QED
        BY <1>1, <1>3, <1>5, <2>1
<1>8. Leg(Start, c)
    BY <1>6, <1>7 DEF SearchLinked, PathsLinked, From
<1>9. Leg(Here, epc[i])'
    <2>1. Here' = [x |-> 0, y |-> 0] /\ epc'[i'] = c
        BY <1>1, <1>2, <1>5 DEF Here
    <2> QED
        BY <1>1, <1>8, <2>1 DEF Leg, Turn, Start
<1>10. EntriesFit'
    BY <1>1, <1>2 DEF EntriesFit
<1>11. AllEntered'
    <2>1. ASSUME NEW types PROVE Entered(types, Len(ses))' = 0
        <3>1. {j \in 1 .. Len(ses') : ses'[j].type \in types} = {}
            BY <1>1, <1>2
        <3> QED
            BY <3>1, FS_EmptySet DEF Entered
    <2> QED
        BY <1>1, <1>2, <2>1 DEF AllEntered
<1> QED
    BY <1>1, <1>9, <1>10, <1>11 DEF ScriptInv, Succeeded

(* The point that was reached is the one before the next. *)
LEMMA NextFits ==
    ASSUME IInv, SearchLinked, PathTraced, ScriptInv, NextPoint
    PROVE  ScriptInv'
<1>1. /\ pc = "script" /\ pc' = "script" /\ ~Ahead /\ i > 1 /\ i' = i - 1
      /\ epc' = epc /\ px' = px /\ py' = py /\ ses' = ses /\ lcs' = lcs
      /\ a' = a /\ b' = b /\ swapped' = swapped
    BY DEF NextPoint, resultVars
<1>2. EntriesFit /\ AllEntered
    BY <1>1 DEF ScriptInv
<1>3. /\ epc \in Seq(Points) /\ i \in DOMAIN epc /\ i - 1 \in DOMAIN epc /\ i # 1
      /\ Len(coords) \in Nat /\ coords \in Seq(Points)
    BY <1>1 DEF IInv, TypeOK, PathTraced
<1>4. PICK c \in Points, q \in Points : c = epc[i - 1] /\ q = epc[i]
    BY <1>3
<1>5. /\ Index(i) \in DOMAIN coords /\ q = coords[Index(i)]
      /\ Index(i - 1) \in DOMAIN coords /\ c = coords[Index(i - 1)]
    BY <1>1, <1>3, <1>4 DEF PathTraced
<1>6. Index(i) = c.k + 1 /\ c.k \in Int /\ c.k # -1
    <2>1. Index(i) = c.k + 1
        BY <1>3, <1>4 DEF Index
    <2>2. c.k \in Int
        BY DEF Points
    <2> QED
        BY <1>3, <1>5, <2>1, <2>2
<1>7. Leg(q, c)
    <2>1. From(c) = q
        BY <1>5, <1>6 DEF From
    <2>2. Leg(From(c), c)
        BY <1>5 DEF SearchLinked, PathsLinked
    <2> QED
        BY <2>1, <2>2
<1>8. px = q.x /\ py = q.y
    <2>1. /\ epc[i].x \in Nat /\ epc[i].y \in Nat
          /\ px \in Nat /\ py \in Nat /\ px <= epc[i].x /\ py <= epc[i].y
        BY <1>1, OnTheWay
    <2> QED
        BY <1>1, <1>4, <2>1 DEF Ahead
<1>9. Leg(Here, epc[i])'
    <2>1. Here' = [x |-> q.x, y |-> q.y] /\ epc'[i'] = c
        BY <1>1, <1>4, <1>8 DEF Here
    <2> QED
        BY <1>1, <1>7, <2>1 DEF Leg, Turn
<1>10. EntriesFit' /\ AllEntered'
    BY <1>1, <1>2, ZenonT(40) DEF EntriesFit, EntryFits, AllEntered, Entered, At, origin, target
<1> QED
    BY <1>1, <1>9, <1>10 DEF ScriptInv, Succeeded

(* The last point is the end of both sequences. *)
LEMMA EndFits ==
    ASSUME IInv, SearchLinked, PathTraced, ScriptInv, EndScript
    PROVE  ScriptInv'
<1>1. /\ pc = "script" /\ pc' = "returned" /\ ~Ahead /\ i = 1 /\ i' = i
      /\ reached' = (px + 1 > m /\ py + 1 > n)
      /\ epc' = epc /\ px' = px /\ py' = py /\ ses' = ses /\ lcs' = lcs
      /\ a' = a /\ b' = b /\ swapped' = swapped
    BY DEF EndScript, pathVars
<1>2. EntriesFit /\ AllEntered /\ Leg(Here, epc[i])
    BY <1>1 DEF ScriptInv
<1>3. epc[1].x = m /\ epc[1].y = n
    <2>1. 1 \in DOMAIN epc /\ epc[1] = coords[Index(1)]
        BY <1>1 DEF PathTraced
    <2> QED
        BY <1>1, <2>1 DEF PathTraced
<1>4. px = m /\ py = n /\ m \in Nat /\ n \in Nat
    <2>1. /\ epc[i].x \in Nat /\ epc[i].y \in Nat
          /\ px \in Nat /\ py \in Nat /\ px <= epc[i].x /\ py <= epc[i].y
        BY <1>1, OnTheWay
    <2>2. m \in Nat /\ n \in Nat
        BY SizesNat DEF IInv
    <2> QED
        BY <1>1, <1>3, <2>1, <2>2 DEF Ahead
<1>5. reached'
    <2>1. px + 1 > m /\ py + 1 > n
        BY <1>4
    <2> QED
        BY <1>1, <2>1, Zenon
<1>6. EntriesFit' /\ AllEntered' /\ Leg(Here, epc[i])'
    <2>1. EntriesFit' /\ AllEntered'
        BY <1>1, <1>2, ZenonT(40) DEF EntriesFit, EntryFits, AllEntered, Entered, At, origin, target
    <2>2. PICK c : c = epc[i]
        OBVIOUS
    <2>3. Here' = Here /\ epc'[i'] = c /\ Leg(Here, c)
        BY <1>1, <1>2, <2>2 DEF Here
    <2>4. Leg(Here, epc[i])'
        BY <1>1, <2>3 DEF Leg, Turn
    <2> QED
        BY <2>1, <2>4
<1> QED
    BY <1>1, <1>5, <1>6 DEF ScriptInv, Succeeded

LEMMA ScriptKept ==
    IInv /\ SearchLinked /\ PathTraced /\ ScriptInv /\ [Next]_vars => ScriptInv'
<1> SUFFICES ASSUME IInv, SearchLinked, PathTraced, ScriptInv, [Next]_vars
             PROVE  ScriptInv'
    OBVIOUS
<1>1. CASE StartSnake \/ Slide \/ RecordDiagonal \/ NextRound \/ EndSearch \/ Trace
    <2>1. /\ pc \in {"search", "slide", "trace"} /\ pc' \in {"search", "slide", "trace"}
          /\ px' = px /\ py' = py /\ ses' = ses /\ lcs' = lcs
        BY <1>1 DEF StartSnake, Slide, RecordDiagonal, NextRound, EndSearch, Trace, Record,
                    pathVars, resultVars
    <2> QED
        BY <2>1 DEF ScriptInv, Succeeded
<1>2. CASE StartScript
    BY <1>2, StartFits, PathTracedKept
<1>3. CASE Fail
    <2>1. pc' = "failed"
        BY <1>3 DEF Fail
    <2> QED
        BY <2>1 DEF ScriptInv, Succeeded
<1>4. CASE ScriptFails
    <2>1. pc' = "returned" /\ Ahead /\ px' = px /\ py' = py /\ epc' = epc /\ i' = i
        BY <1>4 DEF ScriptFails, InScript, scriptUnchanged
    <2> QED
        BY <2>1 DEF ScriptInv, Succeeded, Ahead
<1>5. CASE UNCHANGED vars
    <2>1. /\ pc' = pc /\ epc' = epc /\ i' = i /\ px' = px /\ py' = py /\ reached' = reached
          /\ ses' = ses /\ lcs' = lcs /\ a' = a /\ b' = b /\ swapped' = swapped
        BY <1>5 DEF vars, pathVars, resultVars
    <2>2. /\ EntriesFit' <=> EntriesFit
          /\ AllEntered' <=> AllEntered
          /\ Leg(Here, epc[i])' <=> Leg(Here, epc[i])
          /\ Succeeded' <=> Succeeded
        BY <2>1 DEF EntriesFit, EntryFits, AllEntered, Entered, At, origin, target,
                    Leg, Turn, Here, Succeeded, Ahead
    <2> QED
        BY <2>1, <2>2 DEF ScriptInv
<1> QED
    BY <1>1, <1>2, <1>3, <1>4, <1>5, DownFits, RightFits, BothFits, NextFits, EndFits
       DEF Next, Search, Generate

LEMMA ScriptInvariant == Spec => [](IInv /\ SearchLinked /\ PathTraced /\ ScriptInv)
<1>1. IInv /\ [Next]_vars => IInv'
    BY TypesKept, RoundsKept DEF IInv
<1>2. /\ IInv /\ SearchLinked /\ PathTraced /\ ScriptInv /\ [Next]_vars
      => (IInv /\ SearchLinked /\ PathTraced /\ ScriptInv)'
    BY <1>1, SearchLinksKept, PathTracedKept, ScriptKept
<1> QED
    BY <1>2, InitKeeps, InitLinks, PTL DEF Spec

\* For any two sequences, the script of a call that met no failure has every
\* element of the origin and of the target in order, pairs equal elements
\* only, and lcs has the common entries: the points onp_snake recorded are
\* linked to a path through the whole graph, which onp_compose traces back
\* and onp_genseq follows to its end.
THEOREM ScriptIsRight == Spec => []ScriptTransforms
<1>1. IInv /\ SearchLinked /\ PathTraced /\ ScriptInv => ScriptTransforms
    <2> SUFFICES ASSUME IInv, SearchLinked, PathTraced, ScriptInv, Succeeded
                 PROVE  ScriptTransforms
        BY DEF ScriptTransforms
    <2>1. /\ Leg(Here, epc[i]) /\ EntriesFit /\ AllEntered /\ i = 1 /\ reached
          /\ pc = "returned" /\ ~Ahead
        BY DEF ScriptInv, Succeeded
    <2>2. epc[1].x = m /\ epc[1].y = n
        <3>1. 1 \in DOMAIN epc /\ epc[1] = coords[Index(1)]
            BY <2>1 DEF PathTraced
        <3> QED
            BY <2>1, <3>1 DEF PathTraced
    <2>3. px = m /\ py = n
        <3>1. px <= epc[1].x /\ py <= epc[1].y
            BY <2>1 DEF Leg, Here
        <3>2. px \in Nat /\ py \in Nat /\ m \in Nat /\ n \in Nat
            BY SizesNat DEF IInv, TypeOK
        <3> QED
            BY <2>1, <2>2, <3>1, <3>2 DEF Ahead
    <2>4. /\ Entered(InOrigin, Len(ses)) = Len(origin)
          /\ Entered(InTarget, Len(ses)) = Len(target)
          /\ Entered({"COMMON"}, Len(ses)) = Len(lcs)
        BY <2>1, <2>3 DEF AllEntered, origin, target, m, n
    <2> QED
        BY <2>1, <2>4 DEF ScriptTransforms, EntriesFit, EntryFits, At
<1> QED
    BY <1>1, ScriptInvariant, PTL

-----------------------------------------------------------------------------
(* No script is shorter *)

(* The subsequences of the first l elements of s, for l up to a bound. *)
IsTable(h, s, bound) ==
    h = [l \in 0 .. bound |->
            IF l = 0 THEN {<<>>} ELSE h[l - 1] \cup {Append(c, s[l]) : c \in h[l - 1]}]

(* A set of natural numbers that has 0, and l + 1 with every l, has all up *)
(* to a bound.                                                             *)
LEMMA UpTo ==
    ASSUME NEW bound \in Nat, NEW S, 0 \in S,
           \A l \in 0 .. bound - 1 : l \in S => l + 1 \in S
    PROVE  0 .. bound \subseteq S
<1> DEFINE T == (0 .. bound) \ S
<1> SUFFICES ASSUME T # {} PROVE FALSE
    OBVIOUS
<1>1. PICK l \in T : \A q \in T : ~(<<q, l>> \in OpToRel(<, Nat))
    <2>1. T \subseteq Nat
        OBVIOUS
    <2> QED
        BY <2>1, NatLessThanWellFounded, WFMin
<1>2. ASSUME NEW q \in T, q < l PROVE FALSE
    <2>1. <<q, l>> \in Nat \X Nat /\ <<q, l>>[1] < <<q, l>>[2]
        BY <1>2
    <2>2. <<q, l>> \in OpToRel(<, Nat)
        BY ONLY <2>1 DEF OpToRel
    <2> QED
        BY <1>1, <2>2
<1>3. l \in 1 .. bound /\ l - 1 \in 0 .. bound - 1
    <2>1. l # 0
        OBVIOUS
    <2> QED
        BY <2>1
<1>4. l - 1 \in S
    <2>1. l - 1 \notin T
        BY <1>2, <1>3
    <2> QED
        BY <1>3, <2>1
<1>5. (l - 1) + 1 \in S
    BY <1>3, <1>4
<1> QED
    BY <1>3, <1>5

LEMMA TableExists ==
    ASSUME NEW s, NEW bound \in Nat
    PROVE  \E h : IsTable(h, s, bound)
<1> DEFINE S == {l \in 0 .. bound : \E h : IsTable(h, s, l)}
<1>1. 0 \in S
    <2> DEFINE h == [l \in 0 .. 0 |-> {<<>>}]
    <2>1. IsTable(h, s, 0)
        BY DEF IsTable
    <2> QED
        BY <2>1
<1>2. ASSUME NEW l \in 0 .. bound - 1, l \in S
      PROVE  l + 1 \in S
    <2>1. PICK h : IsTable(h, s, l)
        BY <1>2
    <2> DEFINE g == [j \in 0 .. l + 1 |->
                        IF j = l + 1 THEN h[l] \cup {Append(c, s[l + 1]) : c \in h[l]} ELSE h[j]]
    <2>2. ASSUME NEW j \in 0 .. l + 1
          PROVE  g[j] = IF j = 0 THEN {<<>>} ELSE g[j - 1] \cup {Append(c, s[j]) : c \in g[j - 1]}
        <3>1. CASE j = l + 1
            <4>1. j - 1 = l /\ j # 0 /\ l \in 0 .. l + 1 /\ l # l + 1
                BY <3>1
            <4>2. g[j - 1] = h[l]
                BY <4>1
            <4> QED
                BY <3>1, <4>1, <4>2
        <3>2. CASE j # l + 1
            <4>1. j \in 0 .. l /\ g[j] = h[j]
                BY <3>2
            <4>2. h[j] = IF j = 0 THEN {<<>>} ELSE h[j - 1] \cup {Append(c, s[j]) : c \in h[j - 1]}
                BY <2>1, <4>1 DEF IsTable
            <4>3. j # 0 => j - 1 \in 0 .. l + 1 /\ j - 1 # l + 1
                BY <4>1
            <4>4. j # 0 => g[j - 1] = h[j - 1]
                BY <4>3
            <4> QED
                BY <4>1, <4>2, <4>4
        <3> QED
            BY <3>1, <3>2
    <2>3. IsTable(g, s, l + 1)
        BY <2>2 DEF IsTable
    <2> QED
        BY <2>3
<1>3. 0 .. bound \subseteq S
    BY <1>1, <1>2, UpTo
<1> QED
    BY <1>3

LEMMA SubsequencesTable ==
    ASSUME NEW s, Len(s) \in Nat
    PROVE  \E h : IsTable(h, s, Len(s)) /\ Subsequences(s) = h[Len(s)]
<1>1. \E h : IsTable(h, s, Len(s))
    BY TableExists
<1> DEFINE f == CHOOSE h : IsTable(h, s, Len(s))
<1>2. IsTable(f, s, Len(s))
    BY <1>1
<1>3. Subsequences(s) = f[Len(s)]
    BY DEF Subsequences, IsTable
<1> QED
    BY <1>2, <1>3

LEMMA TableStart ==
    ASSUME NEW h, NEW s, NEW bound \in Nat, IsTable(h, s, bound)
    PROVE  h[0] = {<<>>}
<1>1. PICK l \in 0 .. bound : l = 0
    OBVIOUS
<1>2. h[l] = IF l = 0 THEN {<<>>} ELSE h[l - 1] \cup {Append(c, s[l]) : c \in h[l - 1]}
    BY DEF IsTable
<1>3. h[l] = {<<>>}
    BY <1>1, <1>2
<1> QED
    BY <1>1, <1>3

(* The tables of a sequence and of a longer one agree as far as both go.   *)
LEMMA SubsequencesAppend ==
    ASSUME NEW s \in Seq(Elements), NEW e \in Elements
    PROVE  Subsequences(Append(s, e)) =
                Subsequences(s) \cup {Append(c, e) : c \in Subsequences(s)}
<1> DEFINE t == Append(s, e)
           bound == Len(s)
<1>1. /\ bound \in Nat /\ Len(t) = bound + 1
      /\ t[bound + 1] = e /\ \A l \in 1 .. bound : t[l] = s[l]
    OBVIOUS
<1>2. PICK g : IsTable(g, s, bound) /\ Subsequences(s) = g[bound]
    BY <1>1, SubsequencesTable
<1>3. PICK h : IsTable(h, t, bound + 1) /\ Subsequences(t) = h[bound + 1]
    <2>1. Len(t) \in Nat
        BY <1>1
    <2>2. \E h : IsTable(h, t, Len(t)) /\ Subsequences(t) = h[Len(t)]
        BY <2>1, SubsequencesTable
    <2> QED
        BY <1>1, <2>2
<1> HIDE DEF t, bound
<1>4. \A l \in 0 .. bound :
        g[l] = IF l = 0 THEN {<<>>} ELSE g[l - 1] \cup {Append(c, s[l]) : c \in g[l - 1]}
    BY <1>2 DEF IsTable
<1>5. \A l \in 0 .. bound + 1 :
        h[l] = IF l = 0 THEN {<<>>} ELSE h[l - 1] \cup {Append(c, t[l]) : c \in h[l - 1]}
    BY <1>3 DEF IsTable
<1> DEFINE S == {l \in 0 .. bound : g[l] = h[l]}
<1>6. 0 \in S
    <2>1. g[0] = {<<>>} /\ h[0] = {<<>>}
        BY <1>1, <1>2, <1>3, TableStart
    <2>2. 0 \in 0 .. bound /\ g[0] = h[0]
        BY <1>1, <2>1
    <2> QED
        BY <2>2
<1>7. ASSUME NEW l \in 0 .. bound - 1, l \in S
      PROVE  l + 1 \in S
    <2>1. /\ l + 1 \in 0 .. bound /\ l + 1 \in 0 .. bound + 1 /\ l + 1 # 0
          /\ (l + 1) - 1 = l /\ l + 1 \in 1 .. bound
        BY <1>1, <1>7
    <2>2. g[l + 1] = g[l] \cup {Append(c, s[l + 1]) : c \in g[l]}
        BY <1>4, <2>1
    <2>3. h[l + 1] = h[l] \cup {Append(c, t[l + 1]) : c \in h[l]}
        BY <1>5, <2>1
    <2>4. t[l + 1] = s[l + 1] /\ g[l] = h[l]
        BY <1>1, <1>7, <2>1
    <2> QED
        BY <2>1, <2>2, <2>3, <2>4
<1>8. bound \in S
    <2>1. 0 .. bound \subseteq S
        BY <1>1, <1>6, <1>7, UpTo
    <2> QED
        BY <1>1, <2>1
<1>9. h[bound + 1] = h[bound] \cup {Append(c, e) : c \in h[bound]}
    <2>1. bound + 1 \in 0 .. bound + 1 /\ bound + 1 # 0 /\ (bound + 1) - 1 = bound
        BY <1>1
    <2> QED
        BY <1>1, <1>5, <2>1
<1> QED
    BY <1>2, <1>3, <1>8, <1>9 DEF t

(* Subsequences are sequences of the same elements, and no longer. *)
LEMMA SubsequencesType ==
    ASSUME NEW s \in Seq(Elements)
    PROVE  /\ <<>> \in Subsequences(s)
           /\ \A c \in Subsequences(s) : c \in Seq(Elements) /\ Len(c) \in 0 .. Len(s)
<1>1. Len(s) \in Nat /\ \A l \in 1 .. Len(s) : s[l] \in Elements
    OBVIOUS
<1>2. PICK g : IsTable(g, s, Len(s)) /\ Subsequences(s) = g[Len(s)]
    BY <1>1, SubsequencesTable
<1>3. \A l \in 0 .. Len(s) :
        g[l] = IF l = 0 THEN {<<>>} ELSE g[l - 1] \cup {Append(c, s[l]) : c \in g[l - 1]}
    BY <1>2 DEF IsTable
<1> DEFINE S == {l \in 0 .. Len(s) :
                    <<>> \in g[l] /\ \A c \in g[l] : c \in Seq(Elements) /\ Len(c) \in 0 .. l}
<1>4. 0 \in S
    <2>1. g[0] = {<<>>}
        BY <1>1, <1>2, TableStart
    <2>2. <<>> \in Seq(Elements)
        OBVIOUS
    <2>3. Len(<<>>) \in 0 .. 0
        OBVIOUS
    <2>4. <<>> \in g[0] /\ \A c \in g[0] : c \in Seq(Elements) /\ Len(c) \in 0 .. 0
        BY <2>1, <2>2, <2>3
    <2>5. 0 \in 0 .. Len(s)
        BY <1>1
    <2> QED
        BY <2>4, <2>5
<1>5. ASSUME NEW l \in 0 .. Len(s) - 1, l \in S
      PROVE  l + 1 \in S
    <2>1. /\ l + 1 \in 0 .. Len(s) /\ l + 1 # 0 /\ (l + 1) - 1 = l
          /\ s[l + 1] \in Elements
        BY <1>1, <1>5
    <2>2. g[l + 1] = g[l] \cup {Append(c, s[l + 1]) : c \in g[l]}
        BY <1>3, <2>1
    <2>3. ASSUME NEW c \in g[l + 1]
          PROVE  c \in Seq(Elements) /\ Len(c) \in 0 .. l + 1
        <3>1. CASE c \in g[l]
            BY <1>5, <3>1
        <3>2. CASE \E d \in g[l] : c = Append(d, s[l + 1])
            <4>1. PICK d \in g[l] : c = Append(d, s[l + 1])
                BY <3>2
            <4>2. d \in Seq(Elements) /\ Len(d) \in 0 .. l
                BY <1>5
            <4> QED
                BY <2>1, <4>1, <4>2
        <3> QED
            BY <2>2, <3>1, <3>2
    <2>4. <<>> \in g[l + 1]
        BY <1>5, <2>2
    <2> QED
        BY <2>1, <2>3, <2>4
<1>6. 0 .. Len(s) \subseteq S
    BY <1>1, <1>4, <1>5, UpTo
<1>7. Len(s) \in S
    BY <1>1, <1>6
<1> QED
    BY <1>2, <1>7

(* A set of natural numbers up to a bound has a greatest one. *)
LEMMA MaxIs ==
    ASSUME NEW bound \in Nat, NEW S, S # {}, S \subseteq 0 .. bound
    PROVE  Max(S) \in S /\ \A l \in S : l <= Max(S)
<1> DEFINE T == {bound - l : l \in S}
<1>1. PICK q \in T : \A t \in T : ~(<<t, q>> \in OpToRel(<, Nat))
    <2>1. ASSUME NEW t \in T PROVE t \in Nat
        <3>1. PICK l \in S : t = bound - l
            OBVIOUS
        <3>2. l \in 0 .. bound
            OBVIOUS
        <3> QED
            BY <3>1, <3>2
    <2>2. PICK l : l \in S
        OBVIOUS
    <2>3. bound - l \in T
        BY <2>2
    <2>4. T \subseteq Nat /\ T # {}
        BY <2>1, <2>3
    <2> QED
        BY <2>4, NatLessThanWellFounded, WFMin
<1>2. ASSUME NEW t \in T, t < q PROVE FALSE
    <2>1. <<t, q>> \in Nat \X Nat /\ <<t, q>>[1] < <<t, q>>[2]
        BY <1>2
    <2>2. <<t, q>> \in OpToRel(<, Nat)
        BY ONLY <2>1 DEF OpToRel
    <2> QED
        BY <1>1, <2>2
<1>3. PICK l \in S : q = bound - l
    OBVIOUS
<1>4. \A j \in S : l >= j
    <2> SUFFICES ASSUME NEW j \in S, ~(l >= j) PROVE FALSE
        OBVIOUS
    <2>1. bound - j \in T /\ bound - j < q
        BY <1>3
    <2> QED
        BY <1>2, <2>1
<1>5. Max(S) \in S /\ \A j \in S : Max(S) >= j
    BY <1>3, <1>4 DEF Max
<1> QED
    BY <1>5
-----------------------------------------------------------------------------
(* The longest common subsequences of the first u elements of a and the    *)
(* first v of b, and the deletions on a shortest way to there.             *)
Common(u, v) == Subsequences(SubSeq(a, 1, u)) \cap Subsequences(SubSeq(b, 1, v))

LongestTo(u, v) == LongestCommon(SubSeq(a, 1, u), SubSeq(b, 1, v))

Cost(u, v) == u - LongestTo(u, v)

(* The deletions that lead to the point of diagonal d, and to the snake's. *)
Rights(d) == IF d <= delta THEN Last(d) ELSE Last(d) - (d - delta)

SnakeRights == IF k <= delta THEN p ELSE p - (k - delta)

(* No point of diagonal d beyond its furthest one costs as little. *)
NoneFurther ==
    \A d \in Diagonals, u \in 0 .. m :
        (u + d \in 0 .. n /\ Cost(u, u + d) <= Rights(d)) => u + d <= F(d)

PointsCost == \A d \in Diagonals : F(d) # -1 => Cost(X(d), F(d)) = Rights(d)

Right(q, c) == IF Turn(q, c) = -1 THEN 1 ELSE 0

CostOf(c) == Cost(c.x, c.y)

(* The points on a recorded path cost what the steps to the right cost. *)
PathsCost ==
    \A j \in DOMAIN coords :
        CostOf(coords[j]) = CostOf(From(coords[j])) + Right(From(coords[j]), coords[j])

SearchCosts ==
    /\ PathsCost
    /\ pc \in {"search", "slide"} => NoneFurther /\ PointsCost
    /\ pc = "slide" =>
        /\ CostOf(SnakePoint) <= SnakeRights
        /\ CostOf(From(SnakePoint)) + Right(From(SnakePoint), SnakePoint) = SnakeRights
    /\ pc \in {"trace", "script", "returned"} => Cost(m, n) = p /\ editdist = delta + 2 * p

ScriptCosts ==
    pc = "script" \/ Succeeded =>
        /\ px - Len(lcs) + Right(Here, epc[i]) = CostOf(epc[i])
        /\ Entered({"ADD", "DELETE"}, Len(ses)) = px + py - 2 * Len(lcs)

-----------------------------------------------------------------------------
LEMMA Prefixes ==
    ASSUME NEW s \in Seq(Elements), NEW l \in 0 .. Len(s)
    PROVE  /\ SubSeq(s, 1, l) \in Seq(Elements) /\ Len(SubSeq(s, 1, l)) = l
           /\ l # Len(s) => SubSeq(s, 1, l + 1) = Append(SubSeq(s, 1, l), s[l + 1])
           /\ l = Len(s) => SubSeq(s, 1, l) = s
<1>1. Len(s) \in Nat /\ l \in Nat /\ 1 .. l \subseteq 1 .. Len(s)
    OBVIOUS
<1>2. SubSeq(s, 1, l) \in Seq(Elements) /\ Len(SubSeq(s, 1, l)) = l
    BY <1>1
<1>3. \A j \in 1 .. l : SubSeq(s, 1, l)[j] = s[j]
    BY <1>1
<1>4. ASSUME l # Len(s)
      PROVE  SubSeq(s, 1, l + 1) = Append(SubSeq(s, 1, l), s[l + 1])
    <2>1. l + 1 \in 1 .. Len(s) /\ s[l + 1] \in Elements
        BY <1>1, <1>4
    <2>2. /\ SubSeq(s, 1, l + 1) \in Seq(Elements) /\ Len(SubSeq(s, 1, l + 1)) = l + 1
          /\ \A j \in 1 .. l + 1 : SubSeq(s, 1, l + 1)[j] = s[j]
        BY <1>1, <2>1
    <2> DEFINE t == Append(SubSeq(s, 1, l), s[l + 1])
    <2>3. t \in Seq(Elements) /\ Len(t) = l + 1
        BY <1>2, <2>1
    <2>4. \A j \in 1 .. l + 1 : t[j] = s[j]
        BY <1>1, <1>2, <1>3, <2>1
    <2> HIDE DEF t
    <2> QED
        BY <2>2, <2>3, <2>4
<1>5. ASSUME l = Len(s)
      PROVE  SubSeq(s, 1, l) = s
    BY <1>1, <1>2, <1>3, <1>5
<1> QED
    BY <1>2, <1>4, <1>5

LEMMA LongestIs ==
    ASSUME TypeOK, NEW u \in 0 .. m, NEW v \in 0 .. n
    PROVE  /\ LongestTo(u, v) \in Nat /\ LongestTo(u, v) <= u /\ LongestTo(u, v) <= v
           /\ \E c \in Common(u, v) : Len(c) = LongestTo(u, v)
           /\ \A c \in Common(u, v) : Len(c) <= LongestTo(u, v)
<1>1. /\ SubSeq(a, 1, u) \in Seq(Elements) /\ Len(SubSeq(a, 1, u)) = u
      /\ SubSeq(b, 1, v) \in Seq(Elements) /\ Len(SubSeq(b, 1, v)) = v
      /\ u \in Nat /\ v \in Nat
    BY Prefixes, SizesNat, SMTT(30) DEF TypeOK, m, n
<1> DEFINE S == {Len(c) : c \in Common(u, v)}
<1>2. \A c \in Common(u, v) : Len(c) \in 0 .. u /\ Len(c) \in 0 .. v
    BY <1>1, SubsequencesType DEF Common
<1>3. <<>> \in Common(u, v)
    BY <1>1, SubsequencesType DEF Common
<1>4. S # {} /\ S \subseteq 0 .. u
    BY <1>2, <1>3
<1>5. LongestTo(u, v) = Max(S)
    BY DEF LongestTo, LongestCommon, Common
<1> HIDE DEF S
<1>6. Max(S) \in S /\ \A l \in S : l <= Max(S)
    BY <1>1, <1>4, MaxIs
<1> USE DEF S
<1>7. \E c \in Common(u, v) : Len(c) = LongestTo(u, v)
    BY <1>5, <1>6
<1>8. \A c \in Common(u, v) : Len(c) <= LongestTo(u, v)
    BY <1>5, <1>6
<1> QED
    BY <1>2, <1>7, <1>8

LEMMA AppendInjective ==
    ASSUME NEW c \in Seq(Elements), NEW d \in Seq(Elements),
           NEW e \in Elements, NEW f \in Elements, Append(c, e) = Append(d, f)
    PROVE  c = d /\ e = f
<1>1. /\ Len(Append(c, e)) = Len(c) + 1 /\ Append(c, e)[Len(c) + 1] = e
      /\ \A j \in 1 .. Len(c) : Append(c, e)[j] = c[j]
    OBVIOUS
<1>2. /\ Len(Append(d, f)) = Len(d) + 1 /\ Append(d, f)[Len(d) + 1] = f
      /\ \A j \in 1 .. Len(d) : Append(d, f)[j] = d[j]
    OBVIOUS
<1>3. Len(c) = Len(d)
    BY <1>1, <1>2
<1> QED
    BY <1>1, <1>2, <1>3

(* What the common subsequences at a point are made of. *)
LEMMA CommonNext ==
    ASSUME TypeOK, NEW u \in 0 .. m, NEW v \in 0 .. n
    PROVE  /\ u # m => Common(u, v) \subseteq Common(u + 1, v)
           /\ v # n => Common(u, v) \subseteq Common(u, v + 1)
           /\ u # m /\ v # n /\ a[u + 1] = b[v + 1] =>
                \A c \in Common(u, v) : Append(c, a[u + 1]) \in Common(u + 1, v + 1)
           /\ u # m /\ v # n =>
                \A c \in Common(u + 1, v + 1) :
                    \/ c \in Common(u + 1, v) \/ c \in Common(u, v + 1)
                    \/ a[u + 1] = b[v + 1] /\ \E d \in Common(u, v) : c = Append(d, a[u + 1])
<1>1. /\ a \in Seq(Elements) /\ b \in Seq(Elements)
      /\ u \in 0 .. Len(a) /\ v \in 0 .. Len(b) /\ Len(a) \in Nat /\ Len(b) \in Nat
    BY DEF TypeOK, m, n
<1> DEFINE s == SubSeq(a, 1, u)
           t == SubSeq(b, 1, v)
<1>2. s \in Seq(Elements) /\ t \in Seq(Elements)
    BY <1>1, Prefixes
<1>3. ASSUME u # m
      PROVE  /\ a[u + 1] \in Elements
             /\ Subsequences(SubSeq(a, 1, u + 1)) =
                    Subsequences(s) \cup {Append(c, a[u + 1]) : c \in Subsequences(s)}
    <2>1. a[u + 1] \in Elements /\ SubSeq(a, 1, u + 1) = Append(s, a[u + 1])
        BY <1>1, <1>3, Prefixes DEF m
    <2> QED
        BY <1>2, <2>1, SubsequencesAppend
<1>4. ASSUME v # n
      PROVE  /\ b[v + 1] \in Elements
             /\ Subsequences(SubSeq(b, 1, v + 1)) =
                    Subsequences(t) \cup {Append(c, b[v + 1]) : c \in Subsequences(t)}
    <2>1. b[v + 1] \in Elements /\ SubSeq(b, 1, v + 1) = Append(t, b[v + 1])
        BY <1>1, <1>4, Prefixes DEF n
    <2> QED
        BY <1>2, <2>1, SubsequencesAppend
<1>5. Common(u, v) = Subsequences(s) \cap Subsequences(t)
    BY DEF Common
<1>6. ASSUME u # m PROVE Common(u, v) \subseteq Common(u + 1, v)
    BY <1>3, <1>6 DEF Common
<1>7. ASSUME v # n PROVE Common(u, v) \subseteq Common(u, v + 1)
    BY <1>4, <1>7 DEF Common
<1>8. ASSUME u # m, v # n, a[u + 1] = b[v + 1], NEW c \in Common(u, v)
      PROVE  Append(c, a[u + 1]) \in Common(u + 1, v + 1)
    BY <1>3, <1>4, <1>5, <1>8 DEF Common
<1>9. ASSUME u # m, v # n, NEW c \in Common(u + 1, v + 1)
      PROVE  \/ c \in Common(u + 1, v) \/ c \in Common(u, v + 1)
             \/ a[u + 1] = b[v + 1] /\ \E d \in Common(u, v) : c = Append(d, a[u + 1])
    <2>1. CASE c \in Subsequences(s)
        BY <1>4, <1>9, <2>1 DEF Common
    <2>2. CASE c \in Subsequences(t)
        BY <1>3, <1>9, <2>2 DEF Common
    <2>3. CASE c \notin Subsequences(s) /\ c \notin Subsequences(t)
        <3>1. PICK d \in Subsequences(s) : c = Append(d, a[u + 1])
            BY <1>3, <1>9, <2>3 DEF Common
        <3>2. PICK e \in Subsequences(t) : c = Append(e, b[v + 1])
            BY <1>4, <1>9, <2>3 DEF Common
        <3>3. d \in Seq(Elements) /\ e \in Seq(Elements)
            BY <1>2, SubsequencesType
        <3>4. d = e /\ a[u + 1] = b[v + 1]
            <4>1. a[u + 1] \in Elements /\ b[v + 1] \in Elements
                BY <1>3, <1>4, <1>9
            <4>2. Append(d, a[u + 1]) = Append(e, b[v + 1])
                BY <3>1, <3>2
            <4> QED
                BY <3>3, <4>1, <4>2, AppendInjective
        <3> QED
            BY <1>5, <3>1, <3>4
    <2> QED
        BY <2>1, <2>2, <2>3
<1> QED
    BY <1>6, <1>7, <1>8, <1>9

(* A step to the right costs one deletion at most, a step down nothing, and *)
(* a step along the diagonal nothing where the elements are equal.         *)
LEMMA CostNext ==
    ASSUME TypeOK, NEW u \in 0 .. m, NEW v \in 0 .. n
    PROVE  /\ Cost(u, v) \in Nat /\ Cost(u, v) >= u - v
           /\ u # m => Cost(u + 1, v) <= Cost(u, v) + 1
           /\ v # n => Cost(u, v + 1) <= Cost(u, v)
           /\ u # m /\ v # n /\ a[u + 1] = b[v + 1] => Cost(u + 1, v + 1) <= Cost(u, v)
           /\ u # m /\ v # n =>
                \/ Cost(u, v + 1) + 1 <= Cost(u + 1, v + 1)
                \/ Cost(u + 1, v) <= Cost(u + 1, v + 1)
                \/ a[u + 1] = b[v + 1] /\ Cost(u, v) <= Cost(u + 1, v + 1)
<1>1. m \in Nat /\ n \in Nat /\ u \in Nat /\ v \in Nat
    BY SizesNat
<1>2. /\ LongestTo(u, v) \in Nat /\ LongestTo(u, v) <= u /\ LongestTo(u, v) <= v
    BY LongestIs
<1>3. PICK c \in Common(u, v) : Len(c) = LongestTo(u, v)
    BY LongestIs
<1>4. Cost(u, v) \in Nat /\ Cost(u, v) >= u - v /\ Cost(u, v) = u - LongestTo(u, v)
    BY <1>1, <1>2 DEF Cost
<1>5. ASSUME u # m
      PROVE  /\ LongestTo(u, v) <= LongestTo(u + 1, v)
             /\ Cost(u + 1, v) = (u + 1) - LongestTo(u + 1, v)
             /\ LongestTo(u + 1, v) \in Nat
    <2>1. u + 1 \in 0 .. m /\ c \in Common(u + 1, v)
        BY <1>1, <1>5, CommonNext
    <2> QED
        BY <1>3, <2>1, LongestIs DEF Cost
<1>6. ASSUME v # n
      PROVE  /\ LongestTo(u, v) <= LongestTo(u, v + 1)
             /\ Cost(u, v + 1) = u - LongestTo(u, v + 1)
             /\ LongestTo(u, v + 1) \in Nat
    <2>1. v + 1 \in 0 .. n /\ c \in Common(u, v + 1)
        BY <1>1, <1>6, CommonNext
    <2> QED
        BY <1>3, <2>1, LongestIs DEF Cost
<1>7. ASSUME u # m, v # n
      PROVE  /\ u + 1 \in 0 .. m /\ v + 1 \in 0 .. n
             /\ Cost(u + 1, v + 1) = (u + 1) - LongestTo(u + 1, v + 1)
             /\ LongestTo(u + 1, v + 1) \in Nat
    <2>1. u + 1 \in 0 .. m /\ v + 1 \in 0 .. n
        BY <1>1, <1>7
    <2> QED
        BY <2>1, LongestIs DEF Cost
<1>8. ASSUME u # m, v # n, a[u + 1] = b[v + 1]
      PROVE  LongestTo(u, v) + 1 <= LongestTo(u + 1, v + 1)
    <2>1. Append(c, a[u + 1]) \in Common(u + 1, v + 1)
        BY <1>8, CommonNext
    <2>2. Len(Append(c, a[u + 1])) <= LongestTo(u + 1, v + 1)
        BY <1>7, <1>8, <2>1, LongestIs
    <2>3. SubSeq(a, 1, u) \in Seq(Elements) /\ a[u + 1] \in Elements
        BY <1>1, <1>8, Prefixes DEF TypeOK, m
    <2>4. c \in Seq(Elements)
        BY <2>3, SubsequencesType DEF Common
    <2>5. Len(Append(c, a[u + 1])) = Len(c) + 1
        BY <2>3, <2>4
    <2> QED
        BY <1>3, <2>2, <2>5
<1>9. ASSUME u # m, v # n
      PROVE  \/ LongestTo(u + 1, v + 1) <= LongestTo(u, v + 1)
             \/ LongestTo(u + 1, v + 1) <= LongestTo(u + 1, v)
             \/ a[u + 1] = b[v + 1] /\ LongestTo(u + 1, v + 1) <= LongestTo(u, v) + 1
    <2>1. PICK d \in Common(u + 1, v + 1) : Len(d) = LongestTo(u + 1, v + 1)
        BY <1>7, <1>9, LongestIs
    <2>2. CASE d \in Common(u + 1, v)
        BY <1>7, <1>9, <2>1, <2>2, LongestIs
    <2>3. CASE d \in Common(u, v + 1)
        BY <1>7, <1>9, <2>1, <2>3, LongestIs
    <2>4. CASE a[u + 1] = b[v + 1] /\ \E e \in Common(u, v) : d = Append(e, a[u + 1])
        <3>1. PICK e \in Common(u, v) : d = Append(e, a[u + 1])
            BY <2>4
        <3>2. SubSeq(a, 1, u) \in Seq(Elements) /\ a[u + 1] \in Elements
            BY <1>1, <1>9, Prefixes DEF TypeOK, m
        <3>3. e \in Seq(Elements)
            BY <3>2, SubsequencesType DEF Common
        <3>4. Len(d) = Len(e) + 1 /\ Len(e) <= LongestTo(u, v) /\ Len(e) \in Nat
            BY <3>1, <3>2, <3>3, LongestIs
        <3> QED
            BY <1>2, <2>1, <2>4, <3>4
    <2> QED
        BY <1>9, <2>2, <2>3, <2>4, CommonNext
<1>10. ASSUME u # m, v # n
       PROVE  \/ Cost(u, v + 1) + 1 <= Cost(u + 1, v + 1)
              \/ Cost(u + 1, v) <= Cost(u + 1, v + 1)
              \/ a[u + 1] = b[v + 1] /\ Cost(u, v) <= Cost(u + 1, v + 1)
    BY <1>1, <1>2, <1>4, <1>5, <1>6, <1>7, <1>9, <1>10
<1> QED
    BY <1>1, <1>2, <1>4, <1>5, <1>6, <1>7, <1>8, <1>10

-----------------------------------------------------------------------------
(* A diagonal that was not searched yet is out of reach. *)
LEMMA UnsetCosts ==
    ASSUME TypeOK, NEW d \in Diagonals, Unset(d),
           NEW u \in 0 .. m, u + d \in 0 .. n
    PROVE  Cost(u, u + d) > Rights(d)
<1>1. /\ Cost(u, u + d) \in Nat /\ Cost(u, u + d) >= u - (u + d)
    BY CostNext
<1>2. m \in Nat /\ n \in Nat /\ d \in Int /\ u \in Nat /\ delta \in Nat /\ p \in Nat
    BY SizesNat DEF TypeOK
<1>3. Last(d) \in Int
    BY <1>2 DEF Last
<1>4. PICK l \in Int, c \in Nat : l = Last(d) /\ c = Cost(u, u + d)
    BY <1>1, <1>3
<1>5. l < 0 \/ d < -l \/ d > delta + l
    BY <1>4 DEF Unset
<1>6. Rights(d) = IF d <= delta THEN l ELSE l - (d - delta)
    BY <1>4 DEF Rights
<1>7. c >= u - (u + d)
    BY <1>1, <1>4
<1> QED
    BY <1>2, <1>4, <1>5, <1>6, <1>7

(* The diagonals beside the one that is searched. *)
LEMMA NeighbourRights ==
    ASSUME TypeOK, p <= m, k \in -p .. delta + p
    PROVE  /\ Unset(k - 1) => k = -p
           /\ ~Unset(k - 1) => Rights(k - 1) = SnakeRights
           /\ Unset(k + 1) => SnakeRights = 0
           /\ ~Unset(k + 1) => Rights(k + 1) = SnakeRights - 1
           /\ ~Unset(k) => Rights(k) = SnakeRights - 1
           /\ SnakeRights \in Nat /\ ~Done(k)
           /\ Unset(k) => k = -p \/ SnakeRights = 0
<1>1. p \in Nat /\ k \in Int /\ delta \in Nat
    BY SizesNat DEF TypeOK
<1>2. SnakeRights = IF k <= delta THEN p ELSE p - (k - delta)
    BY DEF SnakeRights
<1>3. ~Done(k) /\ SnakeRights \in Nat
    BY <1>1, <1>2 DEF Done
<1>4. (Unset(k) => k = -p \/ SnakeRights = 0) /\ (~Unset(k) => Rights(k) = SnakeRights - 1)
    BY <1>1, <1>2, <1>3 DEF Unset, Last, Rights
<1>5. /\ Unset(k - 1) => k = -p
      /\ ~Unset(k - 1) => Rights(k - 1) = SnakeRights
    <2>1. CASE k <= delta
        <3>1. k > -p => Done(k - 1)
            BY <1>1, <2>1 DEF Done
        <3>2. k = -p => ~Done(k - 1)
            BY <1>1, <2>1 DEF Done
        <3> QED
            BY <1>1, <1>2, <2>1, <3>1, <3>2 DEF Unset, Last, Rights
    <2>2. CASE k > delta
        <3>1. ~Done(k - 1)
            BY <1>1, <2>2 DEF Done
        <3> QED
            BY <1>1, <1>2, <2>2, <3>1 DEF Unset, Last, Rights
    <2> QED
        BY <1>1, <2>1, <2>2
<1>6. /\ Unset(k + 1) => SnakeRights = 0
      /\ ~Unset(k + 1) => Rights(k + 1) = SnakeRights - 1
    <2>1. CASE k < delta
        <3>1. ~Done(k + 1)
            BY <1>1, <2>1 DEF Done
        <3> QED
            BY <1>1, <1>2, <2>1, <3>1 DEF Unset, Last, Rights
    <2>2. CASE k >= delta
        <3>1. Done(k + 1) <=> k + 1 <= delta + p
            BY <1>1, <2>2 DEF Done
        <3> QED
            BY <1>1, <1>2, <2>2, <3>1 DEF Unset, Last, Rights
    <2> QED
        BY <1>1, <2>1, <2>2
<1> QED
    BY <1>3, <1>4, <1>5, <1>6


(* The main argument: where the snake ends, no point of its diagonal costs *)
(* as little and is further.  The first such point would be reached from   *)
(* a neighbouring diagonal, but not from beyond its furthest point, or     *)
(* along the diagonal, but there the elements differ.                      *)
LEMMA NoneAhead ==
    ASSUME IInv, SearchCosts, pc = "slide", ~CanSlide,
           NEW w \in 0 .. m, w + k \in 0 .. n, Cost(w, w + k) <= SnakeRights
    PROVE  w + k <= y
<1>1. /\ TypeOK /\ RoundInv /\ p <= m /\ k \in -p .. delta + p /\ PointAhead /\ NoneFurther
      /\ p \in Nat /\ k \in Int /\ x \in Nat /\ y \in Nat
    BY DEF IInv, RoundInv, SearchCosts, TypeOK
<1>2. m \in Nat /\ n \in Nat /\ delta \in Nat /\ \A d \in Diagonals : d \in Int /\ F(d) \in Int
    BY <1>1, SizesNat
<1>3. k \in Diagonals /\ k - 1 \in Diagonals /\ k + 1 \in Diagonals
    BY <1>1, NeighboursInRange
<1>4. /\ Unset(k - 1) => k = -p
      /\ ~Unset(k - 1) => Rights(k - 1) = SnakeRights
      /\ Unset(k + 1) => SnakeRights = 0
      /\ ~Unset(k + 1) => Rights(k + 1) = SnakeRights - 1
      /\ SnakeRights \in Nat
    BY <1>1, NeighbourRights
<1> DEFINE T == {v \in 0 .. n : v > y /\ v - k \in 0 .. m /\ Cost(v - k, v) <= SnakeRights}
<1> SUFFICES ASSUME ~(w + k <= y) PROVE FALSE
    OBVIOUS
<1>5. w + k \in T
    <2>1. (w + k) - k = w
        BY <1>1
    <2> QED
        BY <1>1, <2>1
<1>6. PICK v \in T : \A t \in T : ~(<<t, v>> \in OpToRel(<, Nat))
    <2>1. T \subseteq Nat
        BY <1>2
    <2> QED
        BY <1>5, <2>1, NatLessThanWellFounded, WFMin
<1>7. ASSUME NEW t \in T, t < v PROVE FALSE
    <2>1. <<t, v>> \in Nat \X Nat /\ <<t, v>>[1] < <<t, v>>[2]
        BY <1>2, <1>7
    <2>2. <<t, v>> \in OpToRel(<, Nat)
        BY ONLY <2>1 DEF OpToRel
    <2> QED
        BY <1>6, <2>2
<1>8. PICK u : u = (v - k) - 1
    OBVIOUS
<1>9. /\ v \in Nat /\ v > y /\ v <= n /\ u + 1 = v - k /\ u + 1 <= m /\ u >= x /\ u \in Nat
      /\ Cost(u + 1, v) <= SnakeRights
    <2>1. v \in 0 .. n /\ v > y /\ v - k \in 0 .. m /\ Cost(v - k, v) <= SnakeRights
        OBVIOUS
    <2>2. u + 1 = v - k /\ x = y - k
        BY <1>1, <1>2, <1>8, <2>1 DEF PointAhead
    <2> QED
        BY <1>1, <1>2, <1>8, <2>1, <2>2
<1>10. u \in 0 .. m /\ u # m /\ v - 1 \in 0 .. n /\ v - 1 # n /\ (v - 1) + 1 = v
       /\ u + 1 \in 0 .. m /\ v \in 0 .. n
    BY <1>1, <1>2, <1>9
<1>11. \/ Cost(u, v) + 1 <= Cost(u + 1, v)
       \/ Cost(u + 1, v - 1) <= Cost(u + 1, v)
       \/ a[u + 1] = b[v] /\ Cost(u, v - 1) <= Cost(u + 1, v)
    BY <1>1, <1>10, CostNext
<1>12. /\ Cost(u, v) \in Nat /\ Cost(u + 1, v) \in Nat
       /\ Cost(u + 1, v - 1) \in Nat /\ Cost(u + 1, v - 1) >= (u + 1) - (v - 1)
       /\ Cost(u, v - 1) \in Nat
    BY <1>1, <1>10, CostNext
<1>13. CASE Cost(u, v) + 1 <= Cost(u + 1, v)
    <2>1. Cost(u, v) <= SnakeRights - 1
        BY <1>4, <1>9, <1>12, <1>13
    <2>2. Rights(k + 1) = SnakeRights - 1
        BY <1>4, <1>12, <2>1
    <2>3. u + (k + 1) = v
        BY <1>1, <1>9
    <2>4. v <= F(k + 1)
        BY <1>1, <1>3, <1>10, <2>1, <2>2, <2>3 DEF NoneFurther
    <2>5. y >= F(k + 1)
        BY <1>1 DEF PointAhead
    <2> QED
        BY <1>1, <1>2, <1>3, <1>9, <2>4, <2>5
<1>14. CASE Cost(u + 1, v - 1) <= Cost(u + 1, v)
    <2>1. Cost(u + 1, v - 1) <= SnakeRights
        BY <1>4, <1>9, <1>12, <1>14
    <2>2. ~Unset(k - 1)
        <3> SUFFICES ASSUME Unset(k - 1) PROVE FALSE
            OBVIOUS
        <3>1. k = -p /\ SnakeRights = p
            BY <1>1, <1>2, <1>4 DEF SnakeRights
        <3>2. (u + 1) - (v - 1) = p + 1
            BY <1>1, <1>9, <3>1
        <3> QED
            BY <1>1, <1>12, <2>1, <3>1, <3>2
    <2>3. (u + 1) + (k - 1) = v - 1
        BY <1>1, <1>9
    <2>4. v - 1 <= F(k - 1)
        BY <1>1, <1>3, <1>4, <1>10, <2>1, <2>2, <2>3 DEF NoneFurther
    <2>5. y > F(k - 1)
        BY <1>1 DEF PointAhead
    <2> QED
        BY <1>1, <1>2, <1>3, <1>9, <2>4, <2>5
<1>15. CASE a[u + 1] = b[v] /\ Cost(u, v - 1) <= Cost(u + 1, v)
    <2>1. Cost(u, v - 1) <= SnakeRights
        BY <1>4, <1>9, <1>12, <1>15
    <2>2. CASE v - 1 > y
        <3>1. (v - 1) - k = u
            BY <1>1, <1>9
        <3>2. v - 1 \in T
            BY <1>10, <2>1, <2>2, <3>1
        <3>3. v - 1 < v
            BY <1>9
        <3> QED
            BY <1>7, <3>2, <3>3
    <2>3. CASE ~(v - 1 > y)
        <3>1. v = y + 1 /\ u = x /\ x < m /\ y < n
            BY <1>1, <1>2, <1>9, <2>3 DEF PointAhead
        <3> QED
            BY <1>15, <3>1 DEF CanSlide
    <2> QED
        BY <2>2, <2>3
<1> QED
    BY <1>11, <1>13, <1>14, <1>15

(* What a snake costs is exactly the round's deletions: with one less its  *)
(* diagonal would have been further in the round before.                   *)
LEMMA SnakeExact ==
    ASSUME IInv, SearchCosts, pc = "slide", ~CanSlide
    PROVE  /\ x \in 0 .. m /\ y \in 0 .. n /\ x + k = y
           /\ Cost(x, y) = SnakeRights
<1>1. /\ TypeOK /\ RoundInv /\ p <= m /\ k \in -p .. delta + p /\ PointAhead /\ PointsInside
      /\ NoneFurther /\ PointsCost
      /\ p \in Nat /\ k \in Int /\ x \in Nat /\ y \in Nat
    BY DEF IInv, RoundInv, SearchCosts, TypeOK
<1>2. /\ m \in Nat /\ n \in Nat /\ m <= n /\ delta \in Nat /\ delta = n - m
      /\ \A d \in Diagonals : d \in Int /\ F(d) \in Int
    BY <1>1, SizesNat
<1>3. k \in Diagonals
    BY <1>1, NeighboursInRange
<1>4. /\ ~Unset(k) => Rights(k) = SnakeRights - 1
      /\ SnakeRights \in Nat /\ ~Done(k)
      /\ Unset(k) => k = -p \/ SnakeRights = 0
    BY <1>1, NeighbourRights
<1>5. x \in 0 .. m /\ y \in 0 .. n /\ x + k = y
    BY <1>1, <1>2 DEF PointAhead
<1>6. Cost(x, y) \in Nat /\ Cost(x, y) >= x - y
    BY <1>1, <1>5, CostNext
<1>7. Cost(x, y) <= SnakeRights
    BY <1>1 DEF SearchCosts, CostOf, SnakePoint
<1>8. ASSUME Cost(x, y) <= SnakeRights - 1 PROVE FALSE
    <2>1. CASE Unset(k)
        <3>1. k = -p
            BY <1>4, <1>6, <1>8, <2>1
        <3>2. SnakeRights = p
            BY <1>1, <1>2, <3>1 DEF SnakeRights
        <3>3. x - y = p
            BY <1>1, <1>5, <3>1
        <3> QED
            BY <1>1, <1>6, <1>8, <3>2, <3>3
    <2>2. CASE ~Unset(k)
        <3>1. y <= F(k)
            <4>1. Cost(x, x + k) <= Rights(k) /\ x + k \in 0 .. n
                BY <1>4, <1>5, <1>8, <2>2
            <4> QED
                BY <1>1, <1>3, <1>5, <4>1 DEF NoneFurther
        <3>2. /\ k <= delta => X(k) < m
              /\ k >= delta => k <= F(k) /\ F(k) < n
            BY <1>1, <1>3, <1>4, <2>2 DEF PointsInside
        <3>3. PICK u, v \in Int : u = X(k) /\ v = F(k) /\ u + k = v
            <4>1. X(k) = F(k) - k /\ F(k) \in Int
                BY <1>2, <1>3 DEF X
            <4> QED
                BY <1>1, <4>1
        <3>4. u \in 0 .. m /\ u < m /\ v \in 0 .. n /\ v < n
            <4>1. u >= x /\ v >= 0
                BY <1>1, <1>5, <3>1, <3>3
            <4>2. u < m /\ v < n
                BY <1>1, <1>2, <3>2, <3>3
            <4> QED
                BY <1>1, <1>2, <4>1, <4>2
        <3>5. Cost(u, v) = SnakeRights - 1
            <4>1. F(k) # -1
                BY <3>3, <3>4
            <4> QED
                BY <1>1, <1>3, <1>4, <2>2, <3>3, <4>1 DEF PointsCost
        <3>6. u + 1 \in 0 .. m /\ v + 1 \in 0 .. n /\ (u + 1) + k = v + 1 /\ u # m /\ v # n
            BY <1>1, <1>2, <3>3, <3>4
        <3>7. /\ Cost(u + 1, v) \in Nat /\ Cost(u + 1, v) <= SnakeRights
              /\ Cost(u + 1, v + 1) <= Cost(u + 1, v) /\ Cost(u + 1, v + 1) \in Nat
            <4>1. Cost(u + 1, v) <= Cost(u, v) + 1
                BY <1>1, <3>4, <3>6, CostNext
            <4>2. Cost(u + 1, v) \in Nat /\ Cost(u + 1, v + 1) <= Cost(u + 1, v)
                BY <1>1, <3>4, <3>6, CostNext
            <4>3. Cost(u + 1, v + 1) \in Nat
                BY <1>1, <3>6, CostNext
            <4> QED
                BY <1>4, <3>5, <4>1, <4>2, <4>3
        <3>8. Cost(u + 1, (u + 1) + k) <= SnakeRights
            BY <1>4, <3>6, <3>7
        <3>9. (u + 1) + k <= y
            <4>1. (u + 1) + k \in 0 .. n
                BY <3>6
            <4> QED
                BY <3>6, <3>8, <4>1, NoneAhead
        <3> QED
            BY <1>1, <3>1, <3>3, <3>6, <3>9
    <2> QED
        BY <2>1, <2>2
<1> QED
    BY <1>4, <1>5, <1>6, <1>7, <1>8

(* Costs depend on the sequences only. *)
LEMMA CostsStay ==
    ASSUME a' = a, b' = b
    PROVE  \A u, v : Cost(u, v)' = Cost(u, v)
BY DEF Cost, LongestTo

(* The point that is recorded costs what the path to it says. *)
LEMMA RecordCosts ==
    ASSUME IInv, SearchCosts, Record, a' = a, b' = b
    PROVE  PathsCost'
<1> DEFINE c == [x |-> x, y |-> y, k |-> r]
<1>1. pc = "slide" /\ ~CanSlide /\ coords' = Append(coords, c) /\ PathsCost
    BY DEF Record, SearchCosts
<1>2. /\ coords \in Seq(Points) /\ Len(coords) \in Nat /\ c \in Points
      /\ r \in -1 .. Len(coords) - 1
      /\ \A j \in DOMAIN coords : coords[j].k \in -1 .. j - 2
    <2>1. /\ coords \in Seq(Points) /\ Len(coords) \in Nat /\ x \in Nat /\ y \in Nat
          /\ r \in -1 .. Len(coords) - 1
          /\ \A j \in DOMAIN coords : coords[j].k \in -1 .. j - 2
        BY DEF IInv, TypeOK
    <2> QED
        BY <2>1 DEF Points
<1>3. /\ DOMAIN coords' = 1 .. Len(coords) + 1
      /\ coords'[Len(coords) + 1] = c
      /\ \A j \in 1 .. Len(coords) : coords'[j] = coords[j]
    BY <1>1, <1>2
<1>4. ASSUME NEW q, q.k \in -1 .. Len(coords) - 1
      PROVE  (IF q.k = -1 THEN Start ELSE coords'[q.k + 1]) = From(q)
    BY <1>2, <1>3, <1>4, SMTT(30) DEF From
<1>5. ASSUME NEW j \in DOMAIN coords'
      PROVE  (CostOf(coords[j]) = CostOf(From(coords[j])) + Right(From(coords[j]), coords[j]))'
    <2>1. CASE j = Len(coords) + 1
        <3>1. coords'[j] = SnakePoint
            BY <1>3, <2>1 DEF SnakePoint
        <3>2. From(coords[j])' = From(SnakePoint)
            BY <1>2, <1>4, <3>1 DEF From, Start, SnakePoint
        <3>3. CostOf(SnakePoint) = CostOf(From(SnakePoint)) + Right(From(SnakePoint), SnakePoint)
            <4>1. CostOf(SnakePoint) = SnakeRights
                BY <1>1, SnakeExact DEF CostOf, SnakePoint
            <4> QED
                BY <1>1, <4>1 DEF SearchCosts
        <3> QED
            BY <3>1, <3>2, <3>3, CostsStay DEF CostOf, Right, Turn
    <2>2. CASE j # Len(coords) + 1
        <3>1. j \in DOMAIN coords /\ coords'[j] = coords[j]
            BY <1>2, <1>3, <2>2
        <3>2. coords[j].k \in -1 .. Len(coords) - 1
            BY <1>2, <3>1
        <3>3. From(coords[j])' = From(coords[j])
            BY <1>4, <3>1, <3>2 DEF From, Start
        <3>4. CostOf(coords[j]) = CostOf(From(coords[j])) + Right(From(coords[j]), coords[j])
            BY <1>1, <3>1 DEF PathsCost
        <3> QED
            BY <3>1, <3>3, <3>4, CostsStay DEF CostOf, Right, Turn
    <2> QED
        BY <2>1, <2>2
<1> QED
    BY <1>5 DEF PathsCost

(* Within a round the diagonal that was searched counts one round more. *)
LEMMA DiagonalCosts ==
    ASSUME IInv, SearchCosts, RecordDiagonal
    PROVE  NoneFurther' /\ PointsCost'
<1>1. /\ Record /\ a' = a /\ b' = b /\ p' = p /\ k # delta /\ k' = NextDiagonal
      /\ pc = "slide" /\ ~CanSlide /\ TypeOK /\ RoundInv /\ NoneFurther /\ PointsCost
    BY DEF RecordDiagonal, Record, IInv, SearchCosts
<1>2. /\ p \in Nat /\ k \in Int /\ x \in Nat /\ y \in Nat
      /\ p <= m /\ k \in -p .. delta + p
      /\ k \in Diagonals
      /\ \A d \in Diagonals : F(d)' = IF d = k THEN y ELSE F(d)
    BY <1>1, RecordedPoint
<1>3. /\ delta \in Nat /\ \A d \in Diagonals : d \in Int /\ F(d) \in Int
    BY <1>1, SizesNat
<1>4. /\ m' = m /\ n' = n /\ delta' = delta /\ Diagonals' = Diagonals
    BY <1>1, SizesStay
<1>5. \/ k < delta - 1 /\ k' = k + 1
      \/ k = delta - 1 /\ k' = delta + p
      \/ k > delta /\ k' = k - 1
    BY <1>1, <1>2, <1>3 DEF NextDiagonal
<1>6. ASSUME NEW d \in Diagonals
      PROVE  Done(d)' <=> Done(d) \/ d = k
    BY <1>1, <1>2, <1>3, <1>4, <1>5 DEF Done
<1>7. ASSUME NEW d \in Diagonals
      PROVE  Rights(d)' = IF d = k THEN SnakeRights ELSE Rights(d)
    BY <1>1, <1>2, <1>4, <1>6 DEF Rights, Last, SnakeRights
<1>8. /\ x \in 0 .. m /\ y \in 0 .. n /\ x + k = y /\ Cost(x, y) = SnakeRights
    BY <1>1, SnakeExact
<1>9. ASSUME NEW d \in Diagonals, NEW u \in 0 .. m, u + d \in 0 .. n,
             Cost(u, u + d) <= Rights(d)'
      PROVE  u + d <= F(d)'
    <2>1. CASE d = k
        BY <1>1, <1>2, <1>7, <1>9, <2>1, NoneAhead
    <2>2. CASE d # k
        BY <1>1, <1>2, <1>7, <1>9, <2>2 DEF NoneFurther
    <2> QED
        BY <2>1, <2>2
<1>10. ASSUME NEW d \in Diagonals, F(d)' # -1
       PROVE  Cost(X(d)', F(d)') = Rights(d)'
    <2>1. CASE d = k
        <3>1. F(d)' = y /\ X(d)' = x
            BY <1>2, <1>8, <2>1 DEF X
        <3> QED
            BY <1>7, <1>8, <2>1, <3>1
    <2>2. CASE d # k
        <3>1. F(d)' = F(d) /\ X(d)' = X(d)
            BY <1>2, <2>2 DEF X
        <3> QED
            BY <1>1, <1>7, <1>10, <2>2, <3>1 DEF PointsCost
    <2> QED
        BY <2>1, <2>2
<1>11. \A u, v : Cost(u, v)' = Cost(u, v)
    BY <1>1, CostsStay
<1>12. NoneFurther'
    BY <1>4, <1>9, <1>11 DEF NoneFurther
<1>13. PointsCost'
    BY <1>4, <1>10, <1>11 DEF PointsCost
<1> QED
    BY <1>12, <1>13

(* At the end of a round all its diagonals count one round more. *)
LEMMA RoundCosts ==
    ASSUME IInv, SearchCosts, NextRound
    PROVE  NoneFurther' /\ PointsCost'
<1>1. /\ Record /\ a' = a /\ b' = b /\ p' = p + 1 /\ k' = -(p + 1) /\ k = delta
      /\ pc = "slide" /\ ~CanSlide /\ TypeOK /\ RoundInv /\ NoneFurther /\ PointsCost
    BY DEF NextRound, Record, IInv, SearchCosts
<1>2. /\ p \in Nat /\ k \in Int /\ x \in Nat /\ y \in Nat
      /\ PointsInside /\ k \in Diagonals
      /\ \A d \in Diagonals : F(d)' = IF d = k THEN y ELSE F(d)
    BY <1>1, RecordedPoint
<1>3. /\ m \in Nat /\ n \in Nat /\ delta \in Nat
      /\ \A d \in Diagonals : d \in Int /\ F(d) \in Int
    BY <1>1, SizesNat
<1>4. /\ m' = m /\ n' = n /\ delta' = delta /\ Diagonals' = Diagonals
    BY <1>1, SizesStay
<1>5. ASSUME NEW d \in Diagonals
      PROVE  Rights(d)' = IF d <= delta THEN p ELSE p - (d - delta)
    <2>1. ~Done(d)' /\ Last(d)' = p
        BY <1>1, <1>2, <1>3, <1>4 DEF Done, Last
    <2> QED
        BY <1>4, <2>1 DEF Rights
<1>6. /\ x \in 0 .. m /\ y \in 0 .. n /\ x + k = y /\ Cost(x, y) = SnakeRights /\ SnakeRights = p
    <2>1. SnakeRights = p
        BY <1>1, <1>3 DEF SnakeRights
    <2> QED
        BY <1>1, <2>1, SnakeExact
<1>7. ASSUME NEW d \in Diagonals, d # delta, -p <= d, d <= delta + p
      PROVE  Rights(d)' = Rights(d) /\ F(d)' = F(d)
    <2>1. Done(d)
        BY <1>1, <1>2, <1>3, <1>7 DEF Done
    <2> QED
        BY <1>1, <1>2, <1>5, <1>7, <2>1 DEF Rights, Last
<1>8. ASSUME NEW d \in Diagonals, d < -p \/ d > delta + p
      PROVE  /\ F(d)' = -1
             /\ \A u \in 0 .. m : u + d \in 0 .. n => ~(Cost(u, u + d) <= Rights(d)')
    <2>1. d \in Int /\ d # k
        BY <1>1, <1>2, <1>3, <1>8
    <2>2. ~Done(d)
        BY <1>1, <1>2, <1>3, <1>8, <2>1 DEF Done
    <2>3. Unset(d)
        BY <1>2, <1>3, <1>8, <2>1, <2>2 DEF Unset, Last
    <2>4. F(d)' = -1
        BY <1>2, <2>1, <2>3 DEF PointsInside
    <2>5. ASSUME NEW u \in 0 .. m, u + d \in 0 .. n
          PROVE  ~(Cost(u, u + d) <= Rights(d)')
        <3>1. Cost(u, u + d) \in Nat /\ Cost(u, u + d) >= u - (u + d)
            BY <1>1, <2>5, CostNext
        <3> QED
            BY <1>2, <1>3, <1>5, <1>8, <2>1, <3>1
    <2> QED
        BY <2>4, <2>5
<1>9. ASSUME NEW d \in Diagonals, NEW u \in 0 .. m, u + d \in 0 .. n,
             Cost(u, u + d) <= Rights(d)'
      PROVE  u + d <= F(d)'
    <2>1. CASE d = delta
        <3>1. Rights(d)' = SnakeRights /\ F(d)' = y /\ d = k
            BY <1>1, <1>2, <1>3, <1>5, <1>6, <2>1
        <3> QED
            BY <1>1, <1>9, <3>1, NoneAhead
    <2>2. CASE d < -p \/ d > delta + p
        BY <1>8, <1>9, <2>2
    <2>3. CASE d # delta /\ -p <= d /\ d <= delta + p
        BY <1>1, <1>7, <1>9, <2>3 DEF NoneFurther
    <2> QED
        BY <1>2, <1>3, <2>1, <2>2, <2>3
<1>10. ASSUME NEW d \in Diagonals, F(d)' # -1
       PROVE  Cost(X(d)', F(d)') = Rights(d)'
    <2>1. CASE d = delta
        <3>1. F(d)' = y /\ X(d)' = x
            BY <1>1, <1>2, <1>6, <2>1 DEF X
        <3> QED
            BY <1>1, <1>3, <1>5, <1>6, <2>1, <3>1
    <2>2. CASE d < -p \/ d > delta + p
        BY <1>8, <1>10, <2>2
    <2>3. CASE d # delta /\ -p <= d /\ d <= delta + p
        <3>1. F(d)' = F(d) /\ X(d)' = X(d)
            BY <1>7, <2>3 DEF X
        <3> QED
            BY <1>1, <1>7, <1>10, <2>3, <3>1 DEF PointsCost
    <2> QED
        BY <1>2, <1>3, <2>1, <2>2, <2>3
<1>11. \A u, v : Cost(u, v)' = Cost(u, v)
    BY <1>1, CostsStay
<1>12. NoneFurther'
    BY <1>4, <1>9, <1>11 DEF NoneFurther
<1>13. PointsCost'
    BY <1>4, <1>10, <1>11 DEF PointsCost
<1> QED
    BY <1>12, <1>13

(* A snake begins one step off a neighbouring diagonal, from a point that  *)
(* costs as much, or one less and the step is to the right.                *)
LEMMA SnakeCosts ==
    ASSUME IInv, SearchLinked, SearchCosts, StartSnake
    PROVE  (/\ CostOf(SnakePoint) <= SnakeRights
            /\ CostOf(From(SnakePoint)) + Right(From(SnakePoint), SnakePoint) = SnakeRights)'
<1>1. /\ TypeOK /\ RoundInv /\ pc = "search" /\ PointsInside /\ PointsCost
      /\ a' = a /\ b' = b /\ p' = p /\ k' = k
    BY DEF StartSnake, IInv, RoundInv, SearchCosts, searchVars
<1>2. p \in Nat /\ k \in Int /\ p <= m /\ k \in -p .. delta + p
    BY <1>1 DEF TypeOK, RoundInv
<1>3. k - 1 \in Diagonals /\ k + 1 \in Diagonals
    BY <1>1, <1>2, NeighboursInRange
<1>4. /\ ~Unset(k - 1) => Rights(k - 1) = SnakeRights
      /\ ~Unset(k + 1) => Rights(k + 1) = SnakeRights - 1
      /\ SnakeRights \in Nat
    BY <1>1, <1>2, NeighbourRights
<1>5. PICK q, x1, y1 :
        /\ From(SnakePoint)' = q /\ SnakePoint' = [x |-> x1, y |-> y1, k |-> r']
        /\ q.x \in 0 .. m /\ q.y \in 0 .. n /\ x1 \in 0 .. m /\ y1 \in 0 .. n
        /\ \/ q = Start /\ x1 = 0 /\ y1 = 0 /\ k = 0 /\ p <= 0
           \/ /\ F(k - 1) # -1 /\ q.x = X(k - 1) /\ q.y = F(k - 1)
              /\ x1 = q.x /\ y1 = q.y + 1
           \/ /\ F(k + 1) # -1 /\ q.x = X(k + 1) /\ q.y = F(k + 1)
              /\ x1 = q.x + 1 /\ y1 = q.y
    BY SnakeFrom
<1>6. SnakeRights' = SnakeRights
    BY <1>1, SizesStay DEF SnakeRights
<1> DEFINE turn == (y1 - x1) - (q.y - q.x)
<1>7. Cost(x1, y1) \in Nat /\ Cost(q.x, q.y) \in Nat /\ m \in Nat /\ n \in Nat /\ delta \in Nat
    BY <1>1, <1>5, CostNext, SizesNat
<1>8. Cost(x1, y1) <= SnakeRights
      /\ Cost(q.x, q.y) + (IF turn = -1 THEN 1 ELSE 0) = SnakeRights
    <2>1. CASE q = Start /\ x1 = 0 /\ y1 = 0 /\ k = 0 /\ p <= 0
        <3>1. q.x = x1 /\ q.y = y1
            BY <2>1 DEF Start
        <3>2. turn = 0
            BY <1>5, <3>1
        <3>3. SnakeRights = 0
            BY <1>2, <1>7, <2>1 DEF SnakeRights
        <3>4. Cost(x1, y1) = 0
            <4>1. LongestTo(x1, y1) \in Nat /\ LongestTo(x1, y1) <= x1
                BY <1>1, <1>5, LongestIs
            <4> QED
                BY <2>1, <4>1 DEF Cost
        <3> QED
            BY <3>1, <3>2, <3>3, <3>4
    <2>2. CASE /\ F(k - 1) # -1 /\ q.x = X(k - 1) /\ q.y = F(k - 1)
               /\ x1 = q.x /\ y1 = q.y + 1
        <3>1. Cost(q.x, q.y) = SnakeRights
            BY <1>1, <1>3, <1>4, <2>2 DEF PointsInside, PointsCost
        <3>2. Cost(q.x, q.y + 1) <= Cost(q.x, q.y)
            <4>1. q.y # n
                BY <1>5, <1>7, <2>2
            <4> QED
                BY <1>1, <1>5, <4>1, CostNext
        <3>3. turn = 1
            BY <1>5, <2>2
        <3> QED
            BY <1>4, <1>7, <2>2, <3>1, <3>2, <3>3
    <2>3. CASE /\ F(k + 1) # -1 /\ q.x = X(k + 1) /\ q.y = F(k + 1)
               /\ x1 = q.x + 1 /\ y1 = q.y
        <3>1. Cost(q.x, q.y) = SnakeRights - 1
            BY <1>1, <1>3, <1>4, <2>3 DEF PointsInside, PointsCost
        <3>2. Cost(q.x + 1, q.y) <= Cost(q.x, q.y) + 1
            <4>1. q.x # m
                BY <1>5, <1>7, <2>3
            <4> QED
                BY <1>1, <1>5, <4>1, CostNext
        <3>3. turn = -1
            BY <1>5, <2>3
        <3> QED
            BY <1>4, <1>7, <2>3, <3>1, <3>2, <3>3
    <2> QED
        BY <1>5, <2>1, <2>2, <2>3
<1> QED
    BY <1>1, <1>5, <1>6, <1>8, CostsStay DEF CostOf, Right, Turn

(* Along equal elements a snake costs no more. *)
LEMMA SlideCosts ==
    ASSUME IInv, SearchLinked, SearchCosts, Slide
    PROVE  (/\ CostOf(SnakePoint) <= SnakeRights
            /\ CostOf(From(SnakePoint)) + Right(From(SnakePoint), SnakePoint) = SnakeRights)'
<1>1. /\ TypeOK /\ RoundInv /\ pc = "slide" /\ x < m /\ y < n /\ a[x + 1] = b[y + 1]
      /\ x' = x + 1 /\ y' = y + 1 /\ r' = r /\ a' = a /\ b' = b /\ p' = p /\ k' = k
      /\ coords' = coords
    BY DEF Slide, CanSlide, IInv, searchVars
<1>2. /\ CostOf(SnakePoint) <= SnakeRights
      /\ CostOf(From(SnakePoint)) + Right(From(SnakePoint), SnakePoint) = SnakeRights
    BY <1>1 DEF SearchCosts
<1>3. PICK q : q = From(SnakePoint)
    OBVIOUS
<1>4. From(SnakePoint)' = q /\ SnakePoint' = [x |-> x + 1, y |-> y + 1, k |-> r]
    BY <1>1, <1>3 DEF From, SnakePoint
<1>5. /\ x \in 0 .. m /\ y \in 0 .. n /\ x # m /\ y # n /\ x + 1 \in 0 .. m /\ y + 1 \in 0 .. n
      /\ x \in Nat /\ y \in Nat /\ p \in Nat /\ k \in Int /\ delta \in Nat
    <2>1. x \in Nat /\ y \in Nat /\ p \in Nat /\ k \in Int
        BY <1>1 DEF TypeOK
    <2>2. m \in Nat /\ n \in Nat /\ delta \in Nat
        BY <1>1, SizesNat
    <2> QED
        BY <1>1, <2>1, <2>2
<1>6. Cost(x + 1, y + 1) <= Cost(x, y) /\ Cost(x, y) \in Nat /\ Cost(x + 1, y + 1) \in Nat
    BY <1>1, <1>5, CostNext
<1>7. SnakeRights' = SnakeRights /\ SnakeRights \in Int
    <2>1. SnakeRights' = SnakeRights
        BY <1>1, SizesStay DEF SnakeRights
    <2>2. SnakeRights \in Int
        BY <1>5 DEF SnakeRights
    <2> QED
        BY <2>1, <2>2
<1>8. (y + 1) - (x + 1) = y - x
    BY <1>5
<1>9. Cost(x + 1, y + 1) <= SnakeRights
    BY <1>2, <1>6, <1>7 DEF CostOf, SnakePoint
<1>10. Right(q, [x |-> x + 1, y |-> y + 1, k |-> r]) = Right(q, SnakePoint)
    BY <1>8 DEF Right, Turn, SnakePoint
<1>11. CostOf(SnakePoint)' <= SnakeRights'
    BY <1>1, <1>4, <1>7, <1>9, CostsStay DEF CostOf
<1>12. CostOf(From(SnakePoint))' = CostOf(q)
    BY <1>1, <1>4, CostsStay DEF CostOf
<1>13. Right(From(SnakePoint), SnakePoint)' = Right(q, SnakePoint)
    BY <1>4, <1>10 DEF Right, Turn
<1> QED
    BY <1>2, <1>3, <1>7, <1>11, <1>12, <1>13

(* When the search ends, the end of both sequences costs its rounds. *)
LEMMA EndCosts ==
    ASSUME IInv, SearchCosts, EndSearch
    PROVE  (Cost(m, n) = p /\ editdist = delta + 2 * p)'
<1>1. /\ pc = "slide" /\ ~CanSlide /\ k = delta /\ y = n /\ a' = a /\ b' = b /\ p' = p
      /\ editdist' = delta + 2 * p
    BY DEF EndSearch, Record
<1>2. /\ x \in 0 .. m /\ y \in 0 .. n /\ x + k = y /\ Cost(x, y) = SnakeRights
    BY <1>1, SnakeExact
<1>3. m' = m /\ n' = n /\ delta' = delta
    BY <1>1, SizesStay
<1>4. m \in Nat /\ n \in Nat /\ delta \in Nat /\ delta = n - m
    BY SizesNat DEF IInv
<1>5. x = m /\ SnakeRights = p
    BY <1>1, <1>2, <1>4 DEF SnakeRights
<1>6. Cost(m, n) = p
    BY <1>1, <1>2, <1>5
<1> QED
    BY <1>1, <1>3, <1>6, CostsStay

LEMMA InitCosts == Init => SearchCosts /\ ScriptCosts
<1> SUFFICES ASSUME Init PROVE SearchCosts /\ ScriptCosts
    OBVIOUS
<1>1. TypeOK
    BY InitKeeps DEF IInv
<1>2. pc = "search" /\ DOMAIN coords = {} /\ p = 0 /\ k = 0
    BY DEF Init
<1>3. \A d \in Diagonals : F(d) = -1
    BY <1>1, SizesNat DEF Init, F
<1>4. \A d \in Diagonals : Unset(d)
    <2> SUFFICES ASSUME NEW d \in Diagonals PROVE Unset(d)
        OBVIOUS
    <2>1. d \in Int /\ delta \in Nat
        BY <1>1, SizesNat
    <2>2. CASE delta = 0
        BY <1>2, <2>1, <2>2 DEF Unset, Last, Done
    <2>3. CASE delta > 0
        BY <1>2, <2>1, <2>3 DEF Unset, Last, Done
    <2> QED
        BY <2>1, <2>2, <2>3
<1>5. NoneFurther
    <2> SUFFICES ASSUME NEW d \in Diagonals, NEW u \in 0 .. m, u + d \in 0 .. n,
                        Cost(u, u + d) <= Rights(d)
                 PROVE  FALSE
        BY DEF NoneFurther
    <2>1. Cost(u, u + d) > Rights(d)
        BY <1>1, <1>4, UnsetCosts
    <2>2. Cost(u, u + d) \in Nat
        BY <1>1, CostNext
    <2>3. Rights(d) \in Int
        <3>1. d \in Int /\ delta \in Int /\ p \in Int
            BY <1>1, <1>2, SizesNat
        <3> QED
            BY <3>1 DEF Rights, Last
    <2> QED
        BY <2>1, <2>2, <2>3
<1>6. PointsCost /\ PathsCost
    BY <1>2, <1>3 DEF PointsCost, PathsCost
<1> QED
    BY <1>2, <1>5, <1>6 DEF SearchCosts, ScriptCosts, Succeeded

(* The steps after the search do not touch what it found out. *)
LEMMA CostsKept ==
    ASSUME UNCHANGED <<a, b, searchVars>>
    PROVE  /\ m' = m /\ n' = n /\ delta' = delta
           /\ PathsCost' <=> PathsCost
           /\ NoneFurther' <=> NoneFurther
           /\ PointsCost' <=> PointsCost
           /\ Cost(m, n)' = Cost(m, n)
<1>1. a' = a /\ b' = b /\ fp' = fp /\ coords' = coords /\ p' = p /\ k' = k
    BY DEF searchVars
<1>2. /\ m' = m /\ n' = n /\ delta' = delta /\ offset' = offset /\ Diagonals' = Diagonals
    BY <1>1, SizesStay
<1>3. \A u, v : Cost(u, v)' = Cost(u, v)
    BY <1>1, CostsStay
<1>4. \A d : Rights(d)' = Rights(d) /\ F(d)' = F(d) /\ X(d)' = X(d)
    BY <1>1, <1>2 DEF Rights, Last, Done, F, X
<1>5. PathsCost' <=> PathsCost
    BY <1>1, <1>3 DEF PathsCost, CostOf, Right, Turn, From, Start
<1>6. (NoneFurther' <=> NoneFurther) /\ (PointsCost' <=> PointsCost)
    BY <1>2, <1>3, <1>4 DEF NoneFurther, PointsCost
<1> QED
    BY <1>2, <1>3, <1>5, <1>6

LEMMA SearchCostsKept == IInv /\ SearchLinked /\ SearchCosts /\ [Next]_vars => SearchCosts'
<1> SUFFICES ASSUME IInv, SearchLinked, SearchCosts, [Next]_vars PROVE SearchCosts'
    OBVIOUS
<1>1. CASE StartSnake
    <2>1. UNCHANGED <<a, b, searchVars>> /\ pc = "search" /\ pc' = "slide"
        BY <1>1 DEF StartSnake
    <2> QED
        BY <1>1, <2>1, SnakeCosts, CostsKept DEF SearchCosts
<1>2. CASE Slide
    <2>1. UNCHANGED <<a, b, searchVars>> /\ pc = "slide" /\ pc' = "slide"
        BY <1>2 DEF Slide
    <2> QED
        BY <1>2, <2>1, SlideCosts, CostsKept DEF SearchCosts
<1>3. CASE RecordDiagonal
    <2>1. Record /\ a' = a /\ b' = b /\ pc' = "search"
        BY <1>3 DEF RecordDiagonal
    <2> QED
        BY <1>3, <2>1, RecordCosts, DiagonalCosts DEF SearchCosts
<1>4. CASE NextRound
    <2>1. Record /\ a' = a /\ b' = b /\ pc' = "search"
        BY <1>4 DEF NextRound
    <2> QED
        BY <1>4, <2>1, RecordCosts, RoundCosts DEF SearchCosts
<1>5. CASE EndSearch
    <2>1. Record /\ a' = a /\ b' = b /\ pc' = "trace"
        BY <1>5 DEF EndSearch
    <2> QED
        BY <1>5, <2>1, RecordCosts, EndCosts DEF SearchCosts
<1>6. CASE Generate \/ Fail \/ ScriptFails
    <2>1. UNCHANGED <<a, b, searchVars>> /\ editdist' = editdist
        BY <1>6 DEF Generate, Trace, StartScript, GoDown, GoRight, GoBoth, NextPoint,
                    EndScript, Fail, ScriptFails, scriptUnchanged
    <2>2. \/ pc \in {"trace", "script"} /\ pc' \in {"trace", "script", "returned"}
          \/ pc' = "failed"
        BY <1>6 DEF Generate, Trace, StartScript, GoDown, GoRight, GoBoth, NextPoint,
                    EndScript, Fail, ScriptFails, InScript
    <2>3. p' = p
        BY <2>1 DEF searchVars
    <2> QED
        BY <2>1, <2>2, <2>3, CostsKept DEF SearchCosts
<1>7. CASE UNCHANGED vars
    <2>1. /\ UNCHANGED <<a, b, searchVars>> /\ x' = x /\ y' = y /\ r' = r /\ pc' = pc
          /\ editdist' = editdist /\ a' = a /\ b' = b /\ p' = p /\ k' = k /\ coords' = coords
        BY <1>7 DEF vars, searchVars
    <2>2. /\ CostOf(SnakePoint)' = CostOf(SnakePoint) /\ SnakeRights' = SnakeRights
          /\ CostOf(From(SnakePoint))' = CostOf(From(SnakePoint))
          /\ Right(From(SnakePoint), SnakePoint)' = Right(From(SnakePoint), SnakePoint)
        BY <2>1, CostsStay, SizesStay DEF CostOf, SnakePoint, SnakeRights, From, Start, Right, Turn
    <2> QED
        BY <2>1, <2>2, CostsKept DEF SearchCosts
<1> QED
    BY <1>1, <1>2, <1>3, <1>4, <1>5, <1>6, <1>7 DEF Next, Search

-----------------------------------------------------------------------------
Edits == {"ADD", "DELETE"}

(* A step of the script that enters e goes one step ahead of the point. *)
LEMMA StepCosts ==
    ASSUME IInv, SearchLinked, PathTraced, ScriptInv, ScriptCosts, GoDown \/ GoRight \/ GoBoth
    PROVE  ScriptCosts'
<1>1. /\ pc = "script" /\ pc' = "script" /\ epc' = epc /\ i' = i /\ a' = a /\ b' = b
    BY DEF GoDown, GoRight, GoBoth, InScript, scriptUnchanged
<1>2. /\ epc[i].x \in Nat /\ epc[i].y \in Nat /\ px \in Nat /\ py \in Nat
      /\ Side \in {-1, 0, 1}
    BY <1>1, OnTheWay
<1>3. /\ ses \in Seq(Entries) /\ lcs \in Seq({"a", "b"} \X Nat) /\ Len(lcs) \in Nat
      /\ swapped \in BOOLEAN
    BY DEF IInv, TypeOK
<1>4. PICK c : c = epc[i]
    OBVIOUS
<1>5. PICK l \in Nat : l = Len(lcs)
    BY <1>3
<1>6. /\ Right(Here, c) = IF Side = -1 THEN 1 ELSE 0
      /\ Side = (c.y - c.x) - (py - px) /\ c.x \in Nat /\ c.y \in Nat
    BY <1>2, <1>4 DEF Right, Turn, Here, Side
<1>7. /\ px - l + Right(Here, c) = CostOf(c)
      /\ Entered(Edits, Len(ses)) = px + py - 2 * l
    BY <1>1, <1>4, <1>5 DEF ScriptCosts, Edits
<1>8. CostOf(epc[i])' = CostOf(c) /\ epc'[i'] = c
    BY <1>1, <1>4, CostsStay DEF CostOf
<1>9. ASSUME NEW e \in Entries, ses' = Append(ses, e)
      PROVE  /\ Entered(Edits, Len(ses))' =
                    Entered(Edits, Len(ses)) + IF e.type \in Edits THEN 1 ELSE 0
    BY <1>3, <1>9, EnteredNext DEF Edits
<1>10. CASE GoDown
    <2>1. /\ ses' = Append(ses, StepDown) /\ lcs' = lcs /\ px' = px /\ py' = py + 1 /\ Side > 0
        BY <1>10 DEF GoDown
    <2>2. StepDown \in Entries /\ StepDown.type \in Edits
        BY <1>2, <1>3 DEF StepDown, Entries, Edits
    <2>3. Entered(Edits, Len(ses))' = (px + py - 2 * l) + 1
        BY <1>7, <1>9, <2>1, <2>2
    <2>4. Right(Here, epc[i])' = 0 /\ Right(Here, c) = 0
        <3>1. (c.y - c.x) - ((py + 1) - px) # -1 /\ Side # -1
            BY <1>2, <1>6, <2>1
        <3> QED
            BY <1>6, <1>8, <2>1, <3>1 DEF Right, Turn, Here
    <2>5. (px + py - 2 * l) + 1 = px + (py + 1) - 2 * l
        BY <1>2
    <2> QED
        BY <1>5, <1>7, <1>8, <2>1, <2>3, <2>4, <2>5 DEF ScriptCosts, Edits
<1>11. CASE GoRight
    <2>1. /\ ses' = Append(ses, StepRight) /\ lcs' = lcs /\ px' = px + 1 /\ py' = py /\ Side < 0
        BY <1>11 DEF GoRight
    <2>2. StepRight \in Entries /\ StepRight.type \in Edits
        BY <1>2, <1>3 DEF StepRight, Entries, Edits
    <2>3. Entered(Edits, Len(ses))' = (px + py - 2 * l) + 1
        BY <1>7, <1>9, <2>1, <2>2
    <2>4. Right(Here, epc[i])' = 0 /\ Right(Here, c) = 1
        <3>1. (c.y - c.x) - (py - (px + 1)) # -1 /\ Side = -1
            BY <1>2, <1>6, <2>1
        <3> QED
            BY <1>6, <1>8, <2>1, <3>1 DEF Right, Turn, Here
    <2>5. /\ (px + py - 2 * l) + 1 = (px + 1) + py - 2 * l
          /\ (px + 1) - l + 0 = px - l + 1
        BY <1>2
    <2> QED
        BY <1>5, <1>7, <1>8, <2>1, <2>3, <2>4, <2>5 DEF ScriptCosts, Edits
<1>12. CASE GoBoth
    <2>1. /\ ses' = Append(ses, StepBoth) /\ lcs' = Append(lcs, StepBoth.e)
          /\ px' = px + 1 /\ py' = py + 1 /\ Side = 0
        BY <1>12 DEF GoBoth
    <2>2. StepBoth \in Entries /\ StepBoth.type \notin Edits /\ Len(lcs') = l + 1
        BY <1>2, <1>3, <1>5, <2>1 DEF StepBoth, Entries, Edits
    <2>3. Entered(Edits, Len(ses))' = (px + py - 2 * l) + 0
        BY <1>7, <1>9, <2>1, <2>2
    <2>4. Right(Here, epc[i])' = 0 /\ Right(Here, c) = 0
        <3>1. (c.y - c.x) - ((py + 1) - (px + 1)) # -1 /\ Side # -1
            BY <1>2, <1>6, <2>1
        <3> QED
            BY <1>6, <1>8, <2>1, <3>1 DEF Right, Turn, Here
    <2>5. /\ (px + py - 2 * l) + 0 = (px + 1) + (py + 1) - 2 * (l + 1)
          /\ (px + 1) - (l + 1) + 0 = px - l + 0
        BY <1>2
    <2> QED
        BY <1>7, <1>8, <2>1, <2>2, <2>3, <2>4, <2>5 DEF ScriptCosts, Edits
<1> QED
    BY <1>10, <1>11, <1>12

(* The way to the first point of the path, from the start. *)
LEMMA StartCosts ==
    ASSUME IInv, SearchLinked, SearchCosts, PathTraced, ScriptInv, StartScript, PathTraced'
    PROVE  ScriptCosts'
<1>1. /\ pc = "trace" /\ pc' = "script" /\ r = -1 /\ i' = Len(epc) /\ epc' = epc
      /\ px' = px /\ py' = py /\ ses' = ses /\ lcs' = lcs
      /\ a' = a /\ b' = b /\ coords' = coords
    BY DEF StartScript, resultVars, searchVars
<1>2. px = 0 /\ py = 0 /\ ses = <<>> /\ lcs = <<>>
    BY <1>1 DEF ScriptInv
<1>3. Len(epc) \in DOMAIN epc /\ Index(Len(epc))' \in DOMAIN coords /\ Index(Len(epc) + 1)' = 0
    BY <1>1 DEF PathTraced
<1>4. epc \in Seq(Points) /\ Len(epc) \in Nat
    BY DEF IInv, TypeOK
<1>5. PICK c \in Points : c = epc[Len(epc)]
    BY <1>3, <1>4
<1>6. c.k = -1
    <2>1. Index(Len(epc) + 1)' = c.k + 1
        <3>1. (Len(epc') + 1) - 1 = Len(epc) /\ Len(epc') + 1 # 1
            BY <1>1, <1>3, <1>4
        <3> QED
            BY <1>1, <1>5, <3>1 DEF Index
    <2>2. c.k \in Int
        BY DEF Points
    <2> QED
        BY <1>3, <2>1, <2>2
<1>7. \E j \in DOMAIN coords : c = coords[j]
    <2>1. (\A j \in DOMAIN epc : Index(j) \in DOMAIN coords /\ epc[j] = coords[Index(j)])'
        BY <1>1 DEF PathTraced
    <2> QED
        BY <1>1, <1>3, <1>5, <2>1
<1>8. CostOf(c) = CostOf(Start) + Right(Start, c)
    BY <1>6, <1>7 DEF SearchCosts, PathsCost, From
<1>9. CostOf(Start) = 0
    <2>1. PICK u \in 0 .. m, v \in 0 .. n : u = 0 /\ v = 0
        <3>1. 0 \in 0 .. m /\ 0 \in 0 .. n
            BY SizesNat DEF IInv
        <3> QED
            BY <3>1
    <2>2. LongestTo(u, v) \in Nat /\ LongestTo(u, v) <= u
        BY LongestIs DEF IInv
    <2>3. Cost(u, v) = 0
        BY <2>1, <2>2 DEF Cost
    <2> QED
        BY <2>1, <2>3 DEF CostOf, Start
<1>10. /\ CostOf(epc[i])' = CostOf(c)
       /\ Right(Here, epc[i])' = Right(Start, c)
    <2>1. Here' = [x |-> 0, y |-> 0] /\ epc'[i'] = c
        BY <1>1, <1>2, <1>5 DEF Here
    <2> QED
        BY <1>1, <2>1, CostsStay DEF CostOf, Right, Turn, Start
<1>11. Entered(Edits, Len(ses))' = 0
    <2>1. {j \in 1 .. Len(ses') : ses'[j].type \in Edits} = {}
        BY <1>1, <1>2
    <2> QED
        BY <2>1, FS_EmptySet DEF Entered
<1>12. px' = 0 /\ py' = 0 /\ Len(lcs') = 0 /\ Right(Start, c) \in Int
    BY <1>1, <1>2 DEF Right
<1>13. CostOf(c) = 0 - 0 + Right(Start, c) /\ 0 = 0 + 0 - 2 * 0
    BY <1>8, <1>9, <1>12
<1> QED
    BY <1>10, <1>11, <1>12, <1>13 DEF ScriptCosts, Edits

(* From the point that was reached the way goes on as recorded. *)
LEMMA NextCosts ==
    ASSUME IInv, SearchLinked, SearchCosts, PathTraced, ScriptInv, ScriptCosts, NextPoint
    PROVE  ScriptCosts'
<1>1. /\ pc = "script" /\ pc' = "script" /\ ~Ahead /\ i > 1 /\ i' = i - 1
      /\ epc' = epc /\ px' = px /\ py' = py /\ ses' = ses /\ lcs' = lcs
      /\ a' = a /\ b' = b
    BY DEF NextPoint, resultVars
<1>2. /\ px - Len(lcs) + Right(Here, epc[i]) = CostOf(epc[i])
      /\ Entered(Edits, Len(ses)) = px + py - 2 * Len(lcs)
    BY <1>1 DEF ScriptCosts, Edits
<1>3. /\ epc \in Seq(Points) /\ i \in DOMAIN epc /\ i - 1 \in DOMAIN epc /\ i # 1
      /\ Len(coords) \in Nat /\ coords \in Seq(Points) /\ Len(lcs) \in Nat
    BY <1>1, SMTT(30) DEF IInv, TypeOK, PathTraced
<1>4. PICK c \in Points, q \in Points : c = epc[i - 1] /\ q = epc[i]
    BY <1>3
<1>5. /\ Index(i) \in DOMAIN coords /\ q = coords[Index(i)]
      /\ Index(i - 1) \in DOMAIN coords /\ c = coords[Index(i - 1)]
    BY <1>1, <1>3, <1>4 DEF PathTraced
<1>6. Index(i) = c.k + 1 /\ c.k \in Int /\ c.k # -1
    <2>1. Index(i) = c.k + 1
        BY <1>3, <1>4 DEF Index
    <2>2. c.k \in Int
        BY DEF Points
    <2> QED
        BY <1>3, <1>5, <2>1, <2>2
<1>7. CostOf(c) = CostOf(q) + Right(q, c)
    <2>1. From(c) = q
        BY <1>5, <1>6 DEF From
    <2> QED
        BY <1>5, <2>1 DEF SearchCosts, PathsCost
<1>8. px = q.x /\ py = q.y /\ px \in Nat /\ py \in Nat
    <2>1. /\ epc[i].x \in Nat /\ epc[i].y \in Nat
          /\ px \in Nat /\ py \in Nat /\ px <= epc[i].x /\ py <= epc[i].y
        BY <1>1, OnTheWay
    <2> QED
        BY <1>1, <1>4, <2>1 DEF Ahead
<1>9. Right(Here, q) = 0
    <2>1. (q.y - q.x) - (py - px) = 0
        BY <1>8
    <2> QED
        BY <2>1 DEF Right, Turn, Here
<1>10. px - Len(lcs) + Right(q, c) = CostOf(c)
    <2>1. px - Len(lcs) = CostOf(q)
        BY <1>2, <1>3, <1>4, <1>8, <1>9
    <2> QED
        BY <1>7, <2>1
<1>11. /\ CostOf(epc[i])' = CostOf(c) /\ Right(Here, epc[i])' = Right(q, c)
       /\ Entered(Edits, Len(ses))' = Entered(Edits, Len(ses))
    <2>1. Here' = [x |-> q.x, y |-> q.y] /\ epc'[i'] = c
        BY <1>1, <1>4, <1>8 DEF Here
    <2> QED
        BY <1>1, <2>1, CostsStay DEF CostOf, Right, Turn, Entered
<1> QED
    BY <1>1, <1>2, <1>10, <1>11 DEF ScriptCosts, Edits

LEMMA ScriptCostsKept ==
    IInv /\ SearchLinked /\ SearchCosts /\ PathTraced /\ ScriptInv /\ ScriptCosts /\ [Next]_vars
    => ScriptCosts'
<1> SUFFICES ASSUME IInv, SearchLinked, SearchCosts, PathTraced, ScriptInv, ScriptCosts,
                    [Next]_vars
             PROVE  ScriptCosts'
    OBVIOUS
<1>1. CASE Search \/ Trace \/ Fail
    <2>1. pc' \in {"search", "slide", "trace", "failed"}
        BY <1>1 DEF Search, StartSnake, Slide, RecordDiagonal, NextRound, EndSearch, Trace, Fail
    <2> QED
        BY <2>1 DEF ScriptCosts, Succeeded
<1>2. CASE StartScript
    BY <1>2, StartCosts, PathTracedKept
<1>3. CASE ScriptFails
    <2>1. pc' = "returned" /\ Ahead /\ px' = px /\ py' = py /\ epc' = epc /\ i' = i
        BY <1>3 DEF ScriptFails, InScript, scriptUnchanged
    <2> QED
        BY <2>1 DEF ScriptCosts, Succeeded, Ahead
<1>4. CASE EndScript \/ UNCHANGED vars
    <2>1. /\ (pc = "script" /\ pc' = "returned") \/ pc' = pc
          /\ epc' = epc /\ i' = i /\ px' = px /\ py' = py
          /\ ses' = ses /\ lcs' = lcs /\ a' = a /\ b' = b
        BY <1>4 DEF EndScript, vars, pathVars, resultVars
    <2>2. /\ CostOf(epc[i])' = CostOf(epc[i])
          /\ Right(Here, epc[i])' = Right(Here, epc[i])
          /\ Entered({"ADD", "DELETE"}, Len(ses))' = Entered({"ADD", "DELETE"}, Len(ses))
          /\ Succeeded' => pc = "script" \/ Succeeded
        BY <2>1, CostsStay DEF CostOf, Right, Turn, Here, Entered, Succeeded, Ahead
    <2> QED
        BY <2>1, <2>2 DEF ScriptCosts
<1> QED
    BY <1>1, <1>2, <1>3, <1>4, StepCosts, NextCosts DEF Next, Generate

LEMMA CostsInvariant ==
    Spec => [](IInv /\ SearchLinked /\ PathTraced /\ ScriptInv /\ SearchCosts /\ ScriptCosts)
<1>1. IInv /\ [Next]_vars => IInv'
    BY TypesKept, RoundsKept DEF IInv
<1>2. /\ IInv /\ SearchLinked /\ PathTraced /\ ScriptInv /\ SearchCosts /\ ScriptCosts
      /\ [Next]_vars
      => (IInv /\ SearchLinked /\ PathTraced /\ ScriptInv /\ SearchCosts /\ ScriptCosts)'
    BY <1>1, SearchLinksKept, PathTracedKept, ScriptKept, SearchCostsKept, ScriptCostsKept
<1> QED
    BY <1>2, InitKeeps, InitLinks, InitCosts, PTL DEF Spec

\* For any two sequences, each snake of round p ends at the furthest point
\* of its diagonal that p deletions lead to: the furthest points recorded
\* for the neighbouring diagonals lose no way that costs as little.
THEOREM SnakesReachFurthest == Spec => []FurthestReaching
<1>1. IInv /\ SearchCosts => FurthestReaching
    <2> SUFFICES ASSUME IInv, SearchCosts, pc = "slide", ~CanSlide
                 PROVE  y = Furthest(k, SnakeRights)
        BY DEF FurthestReaching, SnakeRights
    <2> DEFINE S == {l \in 0 .. n : l - k \in 0 .. m /\ Cost(l - k, l) <= SnakeRights}
    <2>1. Furthest(k, SnakeRights) = Max(S)
        BY DEF Furthest, Cost, LongestTo
    <2>2. /\ x \in 0 .. m /\ y \in 0 .. n /\ x + k = y /\ Cost(x, y) = SnakeRights
        BY SnakeExact
    <2>3. TypeOK /\ m \in Nat /\ n \in Nat /\ k \in Int
        BY SizesNat DEF IInv, TypeOK
    <2>4. y - k = x /\ Cost(x, y) \in Nat
        BY <2>2, <2>3, CostNext
    <2>5. y \in S
        BY <2>2, <2>4
    <2>6. ASSUME NEW l \in S PROVE l <= y
        <3>1. PICK w \in 0 .. m : w = l - k
            OBVIOUS
        <3>2. w + k = l
            BY <2>3, <3>1
        <3>3. w + k \in 0 .. n /\ Cost(w, w + k) <= SnakeRights
            BY <3>1, <3>2
        <3>4. w + k <= y
            BY <3>3, NoneAhead
        <3> QED
            BY <3>2, <3>4
    <2>7. S \subseteq 0 .. n /\ S # {}
        BY <2>5
    <2> HIDE DEF S
    <2>8. Max(S) \in S /\ \A l \in S : l <= Max(S)
        BY <2>3, <2>7, MaxIs
    <2>9. PICK l \in 0 .. n : l = Max(S)
        BY <2>7, <2>8
    <2>10. l <= y /\ y <= l
        BY <2>5, <2>6, <2>8, <2>9
    <2>11. y = l
        BY <2>2, <2>3, <2>9, <2>10
    <2> QED
        BY <2>1, <2>9, <2>11
<1> QED
    BY <1>1, CostsInvariant, PTL

\* For any two sequences, no script is shorter than the one of a call that
\* met no failure: lcs is as long as the longest common subsequence, and
\* editdist counts the entries that are no common ones.
THEOREM ShortestScript == Spec => []ScriptIsShortest
<1>1. IInv /\ SearchLinked /\ PathTraced /\ ScriptInv /\ SearchCosts /\ ScriptCosts
      => ScriptIsShortest
    <2> SUFFICES ASSUME IInv, PathTraced, ScriptInv, SearchCosts, ScriptCosts, Succeeded
                 PROVE  /\ Len(lcs) = LongestCommon(a, b)
                        /\ editdist = Entered({"ADD", "DELETE"}, Len(ses))
                        /\ editdist = m + n - 2 * Len(lcs)
        BY DEF ScriptIsShortest
    <2>1. /\ TypeOK /\ m \in Nat /\ n \in Nat /\ delta = n - m /\ p \in Nat
          /\ px \in Nat /\ py \in Nat /\ Len(lcs) \in Nat
        <3>1. TypeOK
            BY DEF IInv
        <3>2. m \in Nat /\ n \in Nat /\ delta = n - m
            BY <3>1, SizesNat
        <3>3. p \in Nat /\ px \in Nat /\ py \in Nat /\ Len(lcs) \in Nat
            BY <3>1 DEF TypeOK
        <3> QED
            BY <3>1, <3>2, <3>3
    <2>2. Leg(Here, epc[i]) /\ i = 1 /\ pc = "returned" /\ ~Ahead
        BY DEF ScriptInv, Succeeded
    <2>3. epc[1].x = m /\ epc[1].y = n
        <3>1. 1 \in DOMAIN epc /\ epc[1] = coords[Index(1)]
            BY <2>2 DEF PathTraced
        <3> QED
            BY <2>2, <3>1 DEF PathTraced
    <2>4. px = m /\ py = n
        <3>1. px <= epc[1].x /\ py <= epc[1].y
            BY <2>2 DEF Leg, Here
        <3> QED
            BY <2>1, <2>2, <2>3, <3>1 DEF Ahead
    <2>5. CostOf(epc[1]) = p /\ editdist = delta + 2 * p /\ Cost(m, n) = p
        BY <2>2, <2>3 DEF SearchCosts, CostOf
    <2>6. Right(Here, epc[1]) = 0
        <3>1. (n - m) - (py - px) = 0
            BY <2>1, <2>4
        <3> QED
            BY <2>3, <3>1 DEF Right, Turn, Here
    <2>7. m - Len(lcs) = p /\ Entered({"ADD", "DELETE"}, Len(ses)) = m + n - 2 * Len(lcs)
        <3>1. /\ px - Len(lcs) + Right(Here, epc[1]) = CostOf(epc[1])
              /\ Entered({"ADD", "DELETE"}, Len(ses)) = px + py - 2 * Len(lcs)
            BY <2>2 DEF ScriptCosts
        <3> QED
            BY <2>1, <2>4, <2>5, <2>6, <3>1
    <2>8. editdist = m + n - 2 * Len(lcs)
        BY <2>1, <2>5, <2>7
    <2>9. LongestTo(m, n) = LongestCommon(a, b)
        <3>1. /\ a \in Seq(Elements) /\ b \in Seq(Elements)
              /\ Len(a) \in 0 .. Len(a) /\ Len(b) \in 0 .. Len(b)
            BY <2>1 DEF TypeOK, m, n
        <3>2. SubSeq(a, 1, m) = a /\ SubSeq(b, 1, n) = b
            BY <3>1, Prefixes DEF m, n
        <3> QED
            BY <3>2 DEF LongestTo
    <2>10. Len(lcs) = LongestTo(m, n)
        <3>1. m \in 0 .. m /\ n \in 0 .. n
            BY <2>1
        <3>2. LongestTo(m, n) \in Nat
            BY <2>1, <3>1, LongestIs
        <3> QED
            BY <2>1, <2>5, <2>7, <3>2 DEF Cost
    <2> QED
        BY <2>7, <2>8, <2>9, <2>10
<1> QED
    BY <1>1, CostsInvariant, PTL
=============================================================================
