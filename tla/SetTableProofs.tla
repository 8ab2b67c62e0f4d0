--------------------------- MODULE SetTableProofs ----------------------------
(***************************************************************************)
(* Proofs about SetTable.  A probe sequence visits every slot of a table   *)
(* whose size is a power of two; so in a table that is not full every      *)
(* lookup ends, and each operation leaves a table intact; and what a call  *)
(* leaves and answers is what SetAbstract allows.                          *)
(***************************************************************************)
EXTENDS SetTable, FiniteSetTheorems, SequenceTheorems, WellFoundedInduction, TLAPS

(* Induction *)

(* A set of numbers has a least one. *)
LEMMA LeastNumber ==
    ASSUME NEW T, T \subseteq Nat, T # {}
    PROVE  \E x \in T : \A y \in T : x <= y
<1>1. PICK x \in T : \A y \in T : ~ (<<y, x>> \in OpToRel(<, Nat))
  BY WFMin, NatLessThanWellFounded, Zenon
<1>2. ASSUME NEW y \in T PROVE x <= y
  <2>1. y \in Nat /\ x \in Nat
    OBVIOUS
  <2>2. y < x => <<y, x>> \in OpToRel(<, Nat)
    BY <2>1 DEF OpToRel
  <2>3. ~ (y < x)
    BY <1>1, <2>2, Zenon
  <2> QED
    BY <2>1, <2>3
<1> QED
  BY <1>2

(* What holds of 0 and passes from a number to the next holds up to n. *)
LEMMA UpTo ==
    ASSUME NEW n \in Nat, NEW S, 0 \in S, \A k \in 0 .. (n - 1) : k \in S => (k + 1) \in S
    PROVE  \A k \in 0 .. n : k \in S
<1> DEFINE bad == {k \in 0 .. n : k \notin S}
<1> SUFFICES ASSUME bad # {} PROVE FALSE
  OBVIOUS
<1>1. bad \subseteq Nat
  OBVIOUS
<1>2. PICK k \in bad : \A y \in bad : k <= y
  BY <1>1, LeastNumber
<1>3. k - 1 \in 0 .. (n - 1) /\ k - 1 \notin bad
  BY <1>2
<1> QED
  BY <1>3

(* ... and of every number, when it passes on from every number. *)
LEMMA EveryNumber ==
    ASSUME NEW S, 0 \in S, \A k \in Nat : k \in S => (k + 1) \in S
    PROVE  Nat \subseteq S
<1> SUFFICES ASSUME NEW n \in Nat PROVE n \in S
  OBVIOUS
<1>1. \A k \in 0 .. n : k \in S
  BY UpTo
<1> QED
  BY <1>1

-----------------------------------------------------------------------------
(* Powers of two *)

(* One step of a recursion that multiplies and adds. *)
Affine(a, b, c, h, n) == IF n = 0 THEN b ELSE a * h[n - 1] + c

Recurs(g, a, b, c) == g \in [Nat -> Int] /\ \A n \in Nat : g[n] = Affine(a, b, c, g, n)

(* There is a function that such a recursion defines. *)
LEMMA AffineRecursion ==
    ASSUME NEW a \in Int, NEW b \in Int, NEW c \in Int
    PROVE  \E g : Recurs(g, a, b, c)
<1> DEFINE upTo(m, h) == h \in [0 .. m -> Int] /\ \A n \in 0 .. m : h[n] = Affine(a, b, c, h, n)
           S == {m \in Nat : \E h : upTo(m, h)}
           F == [m \in Nat |-> CHOOSE h : upTo(m, h)]
           g == [m \in Nat |-> F[m][m]]
<1>1. 0 \in S
  <2>1. upTo(0, [n \in 0 .. 0 |-> b])
    BY DEF Affine
  <2> QED
    BY <2>1
<1>2. ASSUME NEW m \in Nat, m \in S PROVE m + 1 \in S
  <2>1. PICK h : upTo(m, h)
    BY <1>2
  <2> DEFINE e == [n \in 0 .. (m + 1) |-> Affine(a, b, c, h, n)]
  <2>2. \A n \in 0 .. m : h[n] = e[n]
    BY <2>1
  <2>3. ASSUME NEW n \in 0 .. (m + 1)
        PROVE  Affine(a, b, c, h, n) = Affine(a, b, c, e, n) /\ Affine(a, b, c, h, n) \in Int
    <3>1. n = 0 \/ n - 1 \in 0 .. m
      OBVIOUS
    <3> HIDE DEF e
    <3> QED
      BY <2>1, <2>2, <3>1 DEF Affine
  <2>4. upTo(m + 1, e)
    BY <2>3
  <2> HIDE DEF e, upTo
  <2>5. \E f : upTo(m + 1, f)
    BY <2>4
  <2> QED
    BY <2>5
<1>3. ASSUME NEW m \in Nat PROVE upTo(m, F[m])
  <2>1. m \in S
    BY <1>1, <1>2, EveryNumber
  <2> HIDE DEF upTo
  <2> QED
    BY <2>1
<1>4. ASSUME NEW m \in Nat \ {0} PROVE F[m][m - 1] = F[m - 1][m - 1]
  <2> DEFINE T == {k \in 0 .. (m - 1) : F[m][k] = F[m - 1][k]}
  <2>1. /\ \A k \in 0 .. m : F[m][k] = Affine(a, b, c, F[m], k)
        /\ \A k \in 0 .. (m - 1) : F[m - 1][k] = Affine(a, b, c, F[m - 1], k)
    <3>1. upTo(m, F[m]) /\ upTo(m - 1, F[m - 1])
      <4>1. m \in Nat /\ m - 1 \in Nat
        OBVIOUS
      <4> HIDE DEF F, upTo
      <4> QED
        BY <1>3, <4>1
    <3> HIDE DEF F
    <3> QED
      BY <3>1
  <2> HIDE DEF F
  <2>2. 0 \in T
    BY <2>1 DEF Affine
  <2>3. \A k \in 0 .. ((m - 1) - 1) : k \in T => k + 1 \in T
    BY <2>1 DEF Affine
  <2>4. \A k \in 0 .. (m - 1) : k \in T
    <3>1. m - 1 \in Nat
      OBVIOUS
    <3> HIDE DEF T
    <3> QED
      BY <2>2, <2>3, <3>1, UpTo
  <2> QED
    BY <2>4
<1>5. ASSUME NEW m \in Nat PROVE g[m] \in Int /\ g[m] = Affine(a, b, c, g, m)
  <2>1. upTo(m, F[m])
    BY <1>3
  <2> HIDE DEF F
  <2>2. F[m][m] \in Int /\ F[m][m] = Affine(a, b, c, F[m], m)
    BY <2>1
  <2> QED
    BY <1>4, <2>2 DEF Affine
<1> HIDE DEF F
<1>6. g \in [Nat -> Int]
  BY <1>5
<1>7. Recurs(g, a, b, c)
  BY <1>5, <1>6 DEF Recurs
<1> QED
  BY <1>7

(* The powers of two. *)
LEMMA Powers ==
    /\ Pow2[0] = 1
    /\ \A n \in Nat : Pow2[n] \in Nat \ {0} /\ Pow2[n + 1] = 2 * Pow2[n]
<1>1. PICK g : Recurs(g, 2, 1, 0)
  BY AffineRecursion
<1>2. g \in [Nat -> Int] /\ \A n \in Nat : g[n] = IF n = 0 THEN 1 ELSE 2 * g[n - 1]
  BY <1>1 DEF Recurs, Affine
<1>3. g = [n \in Nat |-> IF n = 0 THEN 1 ELSE 2 * g[n - 1]]
  BY <1>2
<1>4. Pow2 = CHOOSE h : h = [n \in Nat |-> IF n = 0 THEN 1 ELSE 2 * h[n - 1]]
  BY DEF Pow2
<1>5. Pow2 = [n \in Nat |-> IF n = 0 THEN 1 ELSE 2 * Pow2[n - 1]]
  BY <1>3, <1>4
<1>6. Pow2[0] = 1 /\ \A n \in Nat : Pow2[n + 1] = 2 * Pow2[n]
  BY <1>5
<1> DEFINE S == {n \in Nat : Pow2[n] \in Nat \ {0}}
<1>7. 0 \in S /\ \A k \in Nat : k \in S => k + 1 \in S
  BY <1>6
<1>8. Nat \subseteq S
  BY <1>7, EveryNumber
<1> QED
  BY <1>6, <1>8

(* Powers grow. *)
LEMMA PowersGrow ==
    ASSUME NEW m \in Nat, NEW n \in Nat, m <= n
    PROVE  Pow2[m] <= Pow2[n]
<1> DEFINE S == {k \in Nat : Pow2[m] <= Pow2[m + k]}
<1>1. 0 \in S
  BY Powers
<1>2. ASSUME NEW k \in Nat, k \in S PROVE k + 1 \in S
  <2>1. Pow2[(m + k) + 1] = 2 * Pow2[m + k] /\ Pow2[m + k] \in Nat /\ Pow2[m] \in Nat
    BY Powers
  <2>2. m + (k + 1) = (m + k) + 1
    OBVIOUS
  <2> QED
    BY <1>2, <2>1, <2>2
<1>3. Nat \subseteq S
  BY <1>1, <1>2, EveryNumber
<1>4. n - m \in S /\ m + (n - m) = n
  BY <1>3
<1> QED
  BY <1>4

-----------------------------------------------------------------------------
(* The starts of a probe sequence *)

(* The numbers a walk by i -> 5i + 1 passes. *)
Walked(w) == w \in [Nat -> Int] /\ \A j \in Nat : w[j + 1] = 5 * w[j] + 1

(* p steps of the walk add an odd multiple of p. *)
OddStride(w, p) == \A j \in Nat : \E q \in Int : w[j + p] = w[j] + p * (2 * q + 1)

(* Two distances between places p steps apart, at j and at n, differ by a multiple of 4p. *)
SameDistance(w, p, j, n) == \E r \in Int : w[n + p] - w[n] = (w[j + p] - w[j]) + 4 * (p * r)

(* The distance between places p steps apart changes by multiples of 4p. *)
LEMMA DistanceKept ==
    ASSUME NEW w, Walked(w), NEW p \in Nat, NEW j \in Nat, OddStride(w, p)
    PROVE  \A n \in Nat : SameDistance(w, p, j, j + n)
<1> DEFINE P(n) == SameDistance(w, p, j, j + n)
           S == {n \in Nat : P(n)}
<1>0. \A i \in Nat : w[i] \in Int
  BY DEF Walked
<1>1. 0 \in S
  <2>1. w[j + p] - w[j] = (w[j + p] - w[j]) + 4 * (p * 0) /\ j + 0 = j
    BY <1>0
  <2>2. P(0)
    BY <2>1 DEF SameDistance
  <2> HIDE DEF P
  <2> QED
    BY <2>2
<1>2. ASSUME NEW n \in Nat, n \in S PROVE n + 1 \in S
  <2>1. PICK r \in Int : w[(j + n) + p] - w[j + n] = (w[j + p] - w[j]) + 4 * (p * r)
    BY <1>2 DEF SameDistance
  <2>2. PICK q \in Int : w[(j + n) + p] = w[j + n] + p * (2 * q + 1)
    <3>1. j + n \in Nat
      OBVIOUS
    <3> QED
      BY <3>1 DEF OddStride
  <2> DEFINE e == (j + n) + p
             z == p * (2 * q + 1)
             y == p * r
  <2>3. w[e + 1] = 5 * w[e] + 1 /\ w[(j + n) + 1] = 5 * w[j + n] + 1
    BY DEF Walked
  <2>4. w[e] \in Int /\ w[j + n] \in Int /\ w[j + p] \in Int /\ w[j] \in Int
    BY <1>0
  <2>5. z \in Int /\ y \in Int /\ p * (r + (2 * q + 1)) = y + z
    OBVIOUS
  <2>6. w[e] = w[j + n] + z /\ w[e] - w[j + n] = (w[j + p] - w[j]) + 4 * y
    BY <2>1, <2>2
  <2> HIDE DEF z, y
  <2>7. w[e + 1] - w[(j + n) + 1] = (w[j + p] - w[j]) + 4 * (y + z)
    <3> HIDE DEF e
    <3> QED
      BY <2>3, <2>4, <2>5, <2>6
  <2>8. e + 1 = (j + (n + 1)) + p /\ (j + n) + 1 = j + (n + 1)
    OBVIOUS
  <2> DEFINE x == r + (2 * q + 1)
  <2>9. x \in Int /\ w[(j + (n + 1)) + p] - w[j + (n + 1)] = (w[j + p] - w[j]) + 4 * (p * x)
    <3>1. x \in Int /\ p * x = y + z
      BY <2>5
    <3> HIDE DEF x
    <3> QED
      BY <2>7, <2>8, <3>1
  <2> HIDE DEF x
  <2>10. P(n + 1)
    BY <2>9 DEF SameDistance
  <2> HIDE DEF P
  <2> QED
    BY <2>10
<1>3. Nat \subseteq S
  BY <1>1, <1>2, EveryNumber
<1> QED
  BY <1>3

(* Every power of two is an odd stride. *)
LEMMA OddStrides ==
    ASSUME NEW w, Walked(w)
    PROVE  \A k \in Nat : OddStride(w, Pow2[k])
<1> DEFINE S == {k \in Nat : OddStride(w, Pow2[k])}
<1>0. \A i \in Nat : w[i] \in Int
  BY DEF Walked
<1>1. 0 \in S
  <2>1. ASSUME NEW j \in Nat PROVE \E q \in Int : w[j + 1] = w[j] + 1 * (2 * q + 1)
    <3>1. w[j + 1] = w[j] + 1 * (2 * (2 * w[j]) + 1)
      BY <1>0 DEF Walked
    <3>2. 2 * w[j] \in Int
      BY <1>0
    <3> QED
      BY <3>1, <3>2
  <2>2. OddStride(w, 1)
    BY <2>1 DEF OddStride
  <2> QED
    BY <2>2, Powers
<1>2. ASSUME NEW k \in Nat, k \in S PROVE k + 1 \in S
  <2> DEFINE p == Pow2[k]
  <2>1. p \in Nat /\ Pow2[k + 1] = 2 * p
    BY Powers
  <2>2. \A i \in Nat : \E q \in Int : w[i + p] = w[i] + p * (2 * q + 1)
    BY <1>2 DEF OddStride
  <2>5. OddStride(w, p)
    BY <1>2
  <2> HIDE DEF p
  <2>3. ASSUME NEW j \in Nat PROVE \E q \in Int : w[j + 2 * p] = w[j] + (2 * p) * (2 * q + 1)
    <3>0. \A n \in Nat : SameDistance(w, p, j, j + n)
      BY <2>1, <2>5, DistanceKept
    <3>1. PICK r \in Int : w[(j + p) + p] - w[j + p] = (w[j + p] - w[j]) + 4 * (p * r)
      BY <2>1, <3>0 DEF SameDistance
    <3>2. PICK q \in Int : w[j + p] = w[j] + p * (2 * q + 1)
      BY <2>2
    <3>3. w[(j + p) + p] \in Int /\ w[j + p] \in Int /\ w[j] \in Int /\ (j + p) + p = j + 2 * p
      BY <1>0, <2>1
    <3>4. /\ p * (2 * q + 1) \in Int /\ p * r \in Int
          /\ (2 * p) * (2 * (q + r) + 1) = 2 * (p * (2 * q + 1)) + 4 * (p * r)
      BY <2>1
    <3> DEFINE x == q + r
    <3>5. x \in Int /\ w[j + 2 * p] = w[j] + (2 * p) * (2 * x + 1)
      BY <3>1, <3>2, <3>3, <3>4
    <3> HIDE DEF x
    <3> QED
      BY <3>5
  <2>4. OddStride(w, 2 * p)
    BY <2>3 DEF OddStride
  <2> QED
    BY <2>1, <2>4
<1>3. Nat \subseteq S
  BY <1>1, <1>2, EveryNumber
<1> QED
  BY <1>3

(* p steps of the walk pass every number modulo p. *)
Covers(w, p) == \A y \in Int : \E n \in 0 .. (p - 1), q \in Int : w[n] = y + p * q

(* 2^k steps of the walk pass every number modulo 2^k. *)
LEMMA WalkCovers ==
    ASSUME NEW w, Walked(w)
    PROVE  \A k \in Nat : Covers(w, Pow2[k])
<1> DEFINE P(k) == Covers(w, Pow2[k])
           S == {k \in Nat : P(k)}
<1>0. \A i \in Nat : w[i] \in Int
  BY DEF Walked
<1>1. 0 \in S
  <2>1. ASSUME NEW y \in Int PROVE \E n \in 0 .. 0, q \in Int : w[n] = y + 1 * q
    <3>1. w[0] = y + 1 * (w[0] - y) /\ w[0] - y \in Int
      BY <1>0
    <3> QED
      BY <3>1
  <2>2. P(0)
    <3> DEFINE one == Pow2[0]
    <3>1. one = 1
      BY Powers
    <3> HIDE DEF one
    <3>2. Covers(w, one)
      BY <2>1, <3>1 DEF Covers
    <3> QED
      BY <3>2 DEF one
  <2> HIDE DEF P
  <2> QED
    BY <2>2
<1>2. ASSUME NEW k \in Nat, k \in S PROVE k + 1 \in S
  <2> DEFINE p == Pow2[k]
  <2>1. p \in Nat \ {0} /\ Pow2[k + 1] = 2 * p
    BY Powers
  <2>2. \A y \in Int : \E n \in 0 .. (p - 1), q \in Int : w[n] = y + p * q
    BY <1>2 DEF Covers
  <2>3. \A i \in Nat : \E q \in Int : w[i + p] = w[i] + p * (2 * q + 1)
    BY OddStrides DEF OddStride
  <2> HIDE DEF p
  <2>4. ASSUME NEW y \in Int PROVE \E n \in 0 .. (2 * p - 1), q \in Int : w[n] = y + (2 * p) * q
    <3>1. PICK n \in 0 .. (p - 1), q \in Int : w[n] = y + p * q
      BY <2>2
    <3>2. PICK h \in Int : q = 2 * h \/ q = 2 * h + 1
      <4>1. q \div 2 \in Int /\ (q = 2 * (q \div 2) \/ q = 2 * (q \div 2) + 1)
        OBVIOUS
      <4> QED
        BY <4>1
    <3>3. CASE q = 2 * h
      <4>1. w[n] = y + (2 * p) * h
        BY <2>1, <3>1, <3>3
      <4>2. n \in 0 .. (2 * p - 1)
        BY <2>1
      <4> QED
        BY <4>1, <4>2
    <3>4. CASE q = 2 * h + 1
      <4>1. PICK r \in Int : w[n + p] = w[n] + p * (2 * r + 1)
        BY <2>3
      <4>2. /\ p * (2 * h + 1) \in Int /\ p * (2 * r + 1) \in Int
            /\ (2 * p) * (h + r + 1) = p * (2 * h + 1) + p * (2 * r + 1)
        BY <2>1
      <4>3. w[n + p] = y + (2 * p) * (h + r + 1)
        BY <3>1, <3>4, <4>1, <4>2
      <4>4. n + p \in 0 .. (2 * p - 1) /\ h + r + 1 \in Int
        BY <2>1
      <4> QED
        BY <4>3, <4>4
    <3> QED
      BY <3>2, <3>3, <3>4
  <2>5. Covers(w, 2 * p)
    BY <2>4 DEF Covers
  <2>6. P(k + 1)
    BY <2>1, <2>5
  <2> HIDE DEF P
  <2> QED
    BY <2>6
<1>3. Nat \subseteq S
  BY <1>1, <1>2, EveryNumber
<1> QED
  BY <1>3

-----------------------------------------------------------------------------
(* Loops *)

(* The step of each loop of the model: a what it has come to, x the next item. *)
StepOf(loop, a, x, c) ==
    CASE loop = "Starts" -> NextStart(a, c)
      [] loop = "Filter" -> IF x \in c THEN Append(a, x) ELSE a
      [] loop = "InsertAll" -> insert_clean(a, x)
      [] loop = "TableAddAll" -> TableAdd(a, x)
      [] loop = "TableDiscardAll" -> TableDiscard(a, x)
      [] loop = "TableToggleAll" -> TableToggle(a, x)
      [] loop = "add_all" -> add_value(a, x)
      [] loop = "discard_all" -> discard_value(a, x)
      [] loop = "toggle_all" -> toggle_value(a, x)
      [] loop = "UnionAll" -> apply_union(a, x, c)
      [] loop = "IntersectAll" -> intersect_arg(a, x, c)
      [] loop = "DifferenceAll" -> apply_difference(a, x, c)

Stepping(loop, base, items, c, g, k) == IF k = 0 THEN base ELSE StepOf(loop, g[k - 1], items[k], c)
Loops(loop, base, items, c, n, g) == g = [k \in 0 .. n |-> Stepping(loop, base, items, c, g, k)]

(* Every loop has a run: there is a function that its recursion defines. *)
LEMMA LoopRuns ==
    ASSUME NEW loop, NEW base, NEW items, NEW c, NEW n \in Nat
    PROVE  \E g : Loops(loop, base, items, c, n, g)
<1> DEFINE P(m) == \E g : Loops(loop, base, items, c, m, g)
           S == {m \in Nat : P(m)}
<1>1. 0 \in S
  <2>1. Loops(loop, base, items, c, 0, [k \in 0 .. 0 |-> base])
    BY DEF Loops, Stepping
  <2>2. P(0)
    BY <2>1
  <2> HIDE DEF P
  <2> QED
    BY <2>2
<1>2. ASSUME NEW m \in Nat, m \in S PROVE m + 1 \in S
  <2>1. PICK h : Loops(loop, base, items, c, m, h)
    BY <1>2
  <2> DEFINE e == [k \in 0 .. (m + 1) |-> Stepping(loop, base, items, c, h, k)]
  <2>2. \A k \in 0 .. m : h[k] = e[k]
    BY <2>1 DEF Loops
  <2>3. ASSUME NEW k \in 0 .. (m + 1)
        PROVE  Stepping(loop, base, items, c, h, k) = Stepping(loop, base, items, c, e, k)
    <3>1. k = 0 \/ k - 1 \in 0 .. m
      OBVIOUS
    <3> HIDE DEF e
    <3> QED
      BY <2>2, <3>1 DEF Stepping
  <2>4. Loops(loop, base, items, c, m + 1, e)
    BY <2>3 DEF Loops
  <2>5. P(m + 1)
    BY <2>4
  <2> HIDE DEF P
  <2> QED
    BY <2>5
<1> HIDE DEF P
<1>3. Nat \subseteq S
  BY <1>1, <1>2, EveryNumber
<1>4. P(n)
  BY <1>3
<1> QED
  BY <1>4 DEF P

(* The starts of a probe sequence follow each other. *)
LEMMA StartsRun ==
    ASSUME NEW h, NEW mask \in Nat
    PROVE  /\ Starts(h, mask)[0] = FirstStart(h, mask)
           /\ \A k \in 1 .. (HashBits + mask + 1) :
                Starts(h, mask)[k] = NextStart(Starts(h, mask)[k - 1], mask)
<1> DEFINE N == HashBits + mask + 1
           R(g) == g = [k \in 0 .. N |-> IF k = 0 THEN FirstStart(h, mask) ELSE NextStart(g[k - 1], mask)]
<1>1. N \in Nat
  BY SizesAssumption
<1>2. PICK g : Loops("Starts", FirstStart(h, mask), <<>>, mask, N, g)
  BY <1>1, LoopRuns
<1>3. R(g)
  BY <1>2 DEF Loops, Stepping, StepOf
<1>4. Starts(h, mask) = CHOOSE f : R(f)
  BY DEF Starts
<1>5. R(Starts(h, mask))
  <2> HIDE DEF R
  <2> QED
    BY <1>3, <1>4
<1> HIDE DEF N
<1>6. Starts(h, mask)[0] = FirstStart(h, mask)
  BY <1>1, <1>5
<1>7. \A k \in 1 .. N : Starts(h, mask)[k] = NextStart(Starts(h, mask)[k - 1], mask)
  BY <1>1, <1>5
<1> QED
  BY <1>6, <1>7 DEF N

(* A run of linear probes stays in the table. *)
LEMMA RunInTable ==
    ASSUME NEW mask \in Nat, NEW i \in 0 .. mask
    PROVE  /\ RunFrom(i, mask) \in Seq(0 .. mask)
           /\ Len(RunFrom(i, mask)) \in Nat \ {0} /\ RunFrom(i, mask)[1] = i
<1> DEFINE n == IF i + LinearProbes <= mask THEN LinearProbes + 1 ELSE 1
           r == [k \in 1 .. n |-> i + k - 1]
<1>1. n \in Nat \ {0} /\ \A k \in 1 .. n : i + k - 1 \in 0 .. mask
  BY SizesAssumption
<1>2. RunFrom(i, mask) = r
  BY DEF RunFrom
<1> HIDE DEF n
<1>3. r \in Seq(0 .. mask) /\ Len(r) = n /\ r[1] = i
  BY <1>1
<1> QED
  BY <1>1, <1>2, <1>3

(* A table's size is a power of two of at least two. *)
LEMMA MaskFacts ==
    ASSUME NEW mask \in Masks
    PROVE  /\ mask \in Nat \ {0}
           /\ \E k \in MinBits .. MaxBits : mask + 1 = Pow2[k]
<1>1. PICK k \in MinBits .. MaxBits : mask = Pow2[k] - 1
  BY DEF Masks, Sizes
<1>2. k \in Nat /\ k - 1 \in Nat /\ (k - 1) + 1 = k
  BY SizesAssumption
<1>3. Pow2[(k - 1) + 1] = 2 * Pow2[k - 1] /\ Pow2[k - 1] \in Nat \ {0}
  BY <1>2, Powers
<1>4. Pow2[k] = 2 * Pow2[k - 1]
  BY <1>2, <1>3
<1> QED
  BY <1>1, <1>3, <1>4

(* Where the k-th start of a probe is: in the table, and all starts up to it *)
(* are in the slots probed.                                                *)
StartInv(at, mask, k) ==
    /\ at[k].i \in 0 .. mask
    /\ at[k].perturb \in Nat
    /\ k <= HashBits => at[k].perturb < Pow2[HashBits - k]
    /\ k >= HashBits => at[k].perturb = 0
    /\ at[k].slots \in Seq(0 .. mask)
    /\ \A j \in 0 .. k : \E p \in 1 .. Len(at[k].slots) : at[k].slots[p] = at[j].i

(* Shifting a number out. *)
LEMMA Shifted ==
    ASSUME NEW x \in Nat, NEW d \in Nat, d >= 2, NEW b \in Nat \ {0}, x < 2 * b
    PROVE  x \div d \in Nat /\ x \div d < b
<1> DEFINE q == x \div d
           r == x % d
<1>1. q \in Int /\ r \in 0 .. (d - 1) /\ x = d * q + r
  OBVIOUS
<1> HIDE DEF q, r
<1>2. q >= 0
  <2> SUFFICES ASSUME q <= -1 PROVE FALSE
    BY <1>1
  <2>1. d * q <= d * (-1)
    BY <1>1
  <2> QED
    BY <1>1, <2>1
<1>3. q < b
  <2> SUFFICES ASSUME q >= b PROVE FALSE
    BY <1>1
  <2>1. d * q >= 2 * q
    BY <1>1, <1>2
  <2> QED
    BY <1>1, <2>1
<1> QED
  BY <1>1, <1>2, <1>3 DEF q

(* StartInv holds of every start. *)
LEMMA StartsInTable ==
    ASSUME NEW h \in Hashes, NEW mask \in Masks
    PROVE  \A k \in 0 .. (HashBits + mask + 1) : StartInv(Starts(h, mask), mask, k)
<1> DEFINE at == Starts(h, mask)
           N == HashBits + mask + 1
           S == {k \in 0 .. N : StartInv(at, mask, k)}
<1>1. mask \in Nat /\ N \in Nat /\ HashBits \in Nat /\ h \in Nat /\ h < Pow2[HashBits]
  BY MaskFacts, SizesAssumption, Powers DEF Hashes
<1>2. at[0] = FirstStart(h, mask) /\ \A k \in 1 .. N : at[k] = NextStart(at[k - 1], mask)
  BY <1>1, StartsRun
<1> HIDE DEF at, N
<1>3. 0 \in S
  <2> DEFINE i == h % (mask + 1)
             run == RunFrom(i, mask)
  <2>1. i \in 0 .. mask
    BY <1>1
  <2>2. run \in Seq(0 .. mask) /\ Len(run) \in Nat \ {0} /\ run[1] = i
    BY <1>1, <2>1, RunInTable
  <2>3. at[0].i = i /\ at[0].perturb = h /\ at[0].slots = run
    BY <1>2 DEF FirstStart
  <2> HIDE DEF i, run
  <2>4. HashBits = 0 => h = 0
    BY <1>1, Powers
  <2>5. \A j \in 0 .. 0 : \E p \in 1 .. Len(at[0].slots) : at[0].slots[p] = at[j].i
    BY <2>2, <2>3
  <2>6. at[0].perturb < Pow2[HashBits - 0]
    BY <1>1, <2>3
  <2> QED
    BY <1>1, <2>1, <2>2, <2>3, <2>4, <2>5, <2>6 DEF StartInv
<1>4. ASSUME NEW k \in 0 .. (N - 1), k \in S PROVE k + 1 \in S
  <2> DEFINE d == Pow2[PerturbShift]
             p == at[k].perturb \div d
             i == (at[k].i * 5 + 1 + p) % (mask + 1)
             run == RunFrom(i, mask)
             n == Len(at[k].slots)
  <2>1. k \in Nat /\ k + 1 \in 1 .. N /\ (k + 1) - 1 = k
    BY <1>1
  <2>2. /\ at[k].i \in 0 .. mask /\ at[k].perturb \in Nat
        /\ k <= HashBits => at[k].perturb < Pow2[HashBits - k]
        /\ k >= HashBits => at[k].perturb = 0
        /\ at[k].slots \in Seq(0 .. mask)
        /\ \A j \in 0 .. k : \E q \in 1 .. n : at[k].slots[q] = at[j].i
    BY <1>4 DEF StartInv
  <2>3. d \in Nat /\ d >= 2
    <3>1. PerturbShift - 1 \in Nat /\ (PerturbShift - 1) + 1 = PerturbShift
      BY SizesAssumption
    <3>2. Pow2[(PerturbShift - 1) + 1] = 2 * Pow2[PerturbShift - 1] /\ Pow2[PerturbShift - 1] \in Nat \ {0}
      BY <3>1, Powers
    <3> QED
      BY <3>1, <3>2
  <2>4. at[k + 1] = NextStart(at[k], mask)
    BY <1>2, <2>1
  <2>12. at[k + 1] = [i |-> i, perturb |-> p, slots |-> at[k].slots \o run]
    BY <2>4, Zenon DEF NextStart
  <2>5. at[k + 1].perturb = p /\ at[k + 1].i = i /\ at[k + 1].slots = at[k].slots \o run
    <3> HIDE DEF p, i, run
    <3> QED
      BY <2>12
  <2> HIDE DEF d
  <2>6. /\ p \in Nat
        /\ k + 1 <= HashBits => p < Pow2[HashBits - (k + 1)]
        /\ k + 1 >= HashBits => p = 0
    <3>1. CASE k >= HashBits
      <4>1. at[k].perturb = 0 /\ at[k].perturb < 2 * 1
        BY <2>2, <3>1
      <4>2. p \in Nat /\ p < 1
        BY <2>2, <2>3, <4>1, Shifted
      <4> HIDE DEF p
      <4> QED
        BY <1>1, <2>1, <3>1, <4>2
    <3>2. CASE k < HashBits
      <4> DEFINE b == Pow2[HashBits - (k + 1)]
      <4>1. HashBits - (k + 1) \in Nat /\ (HashBits - (k + 1)) + 1 = HashBits - k
        BY <1>1, <2>1, <3>2
      <4>2. b \in Nat \ {0} /\ Pow2[HashBits - k] = 2 * b
        <5>1. b \in Nat \ {0} /\ Pow2[(HashBits - (k + 1)) + 1] = 2 * b
          BY <4>1, Powers
        <5> QED
          BY <4>1, <5>1
      <4>3. at[k].perturb < 2 * b
        BY <1>1, <2>1, <2>2, <3>2, <4>2
      <4>4. p \in Nat /\ p < b
        BY <2>2, <2>3, <4>2, <4>3, Shifted
      <4>5. k + 1 = HashBits => b = 1
        BY <1>1, Powers
      <4> HIDE DEF p, b
      <4>6. k + 1 >= HashBits => p = 0
        BY <1>1, <2>1, <3>2, <4>4, <4>5
      <4> QED
        BY <4>4, <4>6 DEF b
    <3> QED
      BY <1>1, <2>1, <3>1, <3>2
  <2> HIDE DEF p
  <2>7. i \in 0 .. mask
    <3> DEFINE a == at[k].i
               x == a * 5 + 1 + p
    <3>0. a \in Nat /\ p \in Nat
      BY <1>1, <2>2, <2>6
    <3> HIDE DEF a
    <3>1. x \in Nat
      BY <3>0
    <3> HIDE DEF x
    <3>2. x % (mask + 1) \in 0 .. mask
      BY <1>1, <3>1
    <3> QED
      BY <3>2 DEF x, a
  <2>8. run \in Seq(0 .. mask) /\ Len(run) \in Nat \ {0} /\ run[1] = i
    BY <1>1, <2>7, RunInTable
  <2> HIDE DEF i, run
  <2> DEFINE both == at[k].slots \o run
  <2>9. /\ both \in Seq(0 .. mask) /\ Len(both) = n + Len(run)
        /\ n \in Nat /\ \A q \in 1 .. n : both[q] = at[k].slots[q]
        /\ both[n + 1] = i
    BY <2>2, <2>8
  <2> HIDE DEF both, n
  <2>10. ASSUME NEW j \in 0 .. (k + 1)
         PROVE  \E q \in 1 .. Len(both) : both[q] = at[j].i
    <3>1. CASE j = k + 1
      <4>1. n + 1 \in 1 .. Len(both) /\ both[n + 1] = at[j].i
        BY <2>5, <2>8, <2>9, <3>1
      <4> QED
        BY <4>1
    <3>2. CASE j # k + 1
      <4>1. j \in 0 .. k
        BY <2>1, <3>2
      <4>2. PICK q \in 1 .. n : at[k].slots[q] = at[j].i
        BY <2>2, <4>1
      <4> QED
        BY <2>8, <2>9, <4>2
    <3> QED
      BY <3>1, <3>2
  <2>11. StartInv(at, mask, k + 1)
    BY <2>5, <2>6, <2>7, <2>9, <2>10 DEF StartInv, both
  <2> QED
    BY <2>1, <2>11
<1>5. \A k \in 0 .. N : k \in S
  BY <1>1, <1>3, <1>4, UpTo
<1> QED
  BY <1>5 DEF at, N

(* Once the perturbation is shifted out, the starts are a walk modulo the size. *)
LEMMA StartsCover ==
    ASSUME NEW h \in Hashes, NEW mask \in Masks, NEW y \in 0 .. mask
    PROVE  \E k \in 0 .. (HashBits + mask + 1) : Starts(h, mask)[k].i = y
<1> DEFINE at == Starts(h, mask)
           N == HashBits + mask + 1
           size == mask + 1
<1>1. mask \in Nat /\ N \in Nat /\ HashBits \in Nat /\ size \in Nat \ {0} /\ N = HashBits + size
  BY MaskFacts, SizesAssumption
<1>2. \A k \in 1 .. N : at[k] = NextStart(at[k - 1], mask)
  BY <1>1, StartsRun
<1>3. \A k \in 0 .. N : StartInv(at, mask, k)
  BY StartsInTable
<1>4. PICK b \in MinBits .. MaxBits : size = Pow2[b]
  BY MaskFacts
<1>5. b \in Nat
  BY SizesAssumption
<1>6. at[HashBits].i \in Int
  BY <1>1, <1>3 DEF StartInv
<1> HIDE DEF at, N
<1>7. PICK w : Recurs(w, 5, at[HashBits].i, 1)
  BY <1>6, AffineRecursion
<1>8. Walked(w) /\ w[0] = at[HashBits].i
  BY <1>7 DEF Recurs, Affine, Walked
<1> DEFINE P(j) == \E q \in Int : w[j] = at[HashBits + j].i + size * q
           S == {j \in 0 .. size : P(j)}
<1>9. 0 \in S
  <2>1. w[0] = at[HashBits + 0].i + size * 0
    BY <1>1, <1>6, <1>8
  <2>2. P(0)
    BY <2>1
  <2> HIDE DEF P
  <2> QED
    BY <1>1, <2>2
<1>10. ASSUME NEW j \in 0 .. (size - 1), j \in S PROVE j + 1 \in S
  <2> DEFINE i == at[HashBits + j].i
             x == i * 5 + 1
             z == x \div size
  <2>1. PICK q \in Int : w[j] = i + size * q
    BY <1>10
  <2>2. HashBits + j \in 0 .. N /\ HashBits + (j + 1) \in 1 .. N /\ (HashBits + (j + 1)) - 1 = HashBits + j
    BY <1>1
  <2>3. at[HashBits + (j + 1)] = NextStart(at[HashBits + j], mask)
    BY <1>2, <2>2
  <2>4. i \in 0 .. mask /\ at[HashBits + j].perturb = 0
    <3>1. StartInv(at, mask, HashBits + j)
      BY <1>3, <2>2
    <3> QED
      BY <1>1, <3>1 DEF StartInv
  <2>5. Pow2[PerturbShift] \in Nat \ {0}
    BY Powers, SizesAssumption
  <2>6. 0 \div Pow2[PerturbShift] = 0
    BY <2>5
  <2>7. at[HashBits + (j + 1)].i = (i * 5 + 1 + 0) % size
    BY <2>3, <2>4, <2>6 DEF NextStart
  <2> HIDE DEF i
  <2>8. x \in Int /\ x + 0 = x
    BY <2>4
  <2> HIDE DEF x, size
  <2>9. z \in Int /\ x % size \in Int /\ x = size * z + (x % size)
    BY <1>1, <2>8
  <2> HIDE DEF z
  <2>10. w[j + 1] = 5 * w[j] + 1
    BY <1>8 DEF Walked
  <2> DEFINE u == 5 * q + z
  <2>11. w[j + 1] = x + size * (5 * q)
    <3>1. size * (5 * q) = 5 * (size * q) /\ size * q \in Int
      BY <1>1
    <3> QED
      BY <2>1, <2>4, <2>10, <3>1 DEF x
  <2>12. u \in Int /\ size * u = size * (5 * q) + size * z
    BY <1>1, <2>9
  <2>13. size * (5 * q) \in Int /\ size * z \in Int
    BY <1>1, <2>9
  <2> HIDE DEF u
  <2>14. w[j + 1] = (x % size) + size * u
    BY <2>9, <2>11, <2>12, <2>13
  <2>15. at[HashBits + (j + 1)].i = x % size
    BY <2>7, <2>8 DEF x
  <2>16. P(j + 1)
    BY <2>12, <2>14, <2>15
  <2> HIDE DEF P
  <2> QED
    BY <1>1, <2>16
<1> HIDE DEF P
<1>11. \A j \in 0 .. size : j \in S
  <2> HIDE DEF S, size
  <2> QED
    BY <1>1, <1>9, <1>10, UpTo
<1>12. PICK n \in 0 .. (size - 1), q \in Int : w[n] = y + size * q
  <2>1. Covers(w, Pow2[b])
    BY <1>5, <1>8, WalkCovers
  <2>2. \A v \in Int : \E n \in 0 .. (size - 1), q \in Int : w[n] = v + size * q
    BY <1>4, <2>1 DEF Covers
  <2>3. y \in Int
    BY <1>1
  <2> HIDE DEF size
  <2> QED
    BY <2>2, <2>3
<1>13. PICK r \in Int : w[n] = at[HashBits + n].i + size * r
  <2>1. n \in S
    BY <1>1, <1>11
  <2> QED
    BY <2>1 DEF P
<1>14. HashBits + n \in 0 .. N /\ at[HashBits + n].i \in 0 .. mask
  <2>1. HashBits + n \in 0 .. N
    BY <1>1
  <2> QED
    BY <1>3, <2>1 DEF StartInv
<1>15. at[HashBits + n].i = y
  <2> DEFINE c == at[HashBits + n].i
             e == q - r
  <2>1. c - y = size * e /\ e \in Int
    <3>1. size * (q - r) = size * q - size * r /\ size * q \in Int /\ size * r \in Int
      BY <1>1
    <3>2. c \in Int /\ y \in Int
      BY <1>1, <1>14
    <3> QED
      BY <1>12, <1>13, <3>1, <3>2
  <2> HIDE DEF e
  <2>2. c - y < size /\ y - c < size /\ c \in Int /\ y \in Int
    <3>1. c \in 0 .. mask
      BY <1>14
    <3> HIDE DEF c
    <3> QED
      BY <1>1, <3>1
  <2>3. e = 0
    <3>1. e >= 1 => size * e >= size
      BY <1>1, <2>1
    <3>2. e <= -1 => size * e <= - size
      BY <1>1, <2>1
    <3> DEFINE m == size * e
    <3>3. c - y = m /\ (e >= 1 => m >= size) /\ (e <= -1 => m <= - size) /\ size \in Nat
      BY <1>1, <2>1, <3>1, <3>2
    <3> HIDE DEF size, m, c
    <3> QED
      BY <2>1, <2>2, <3>3
  <2>4. c - y = 0
    BY <1>1, <2>1, <2>3
  <2> QED
    BY <1>1, <1>14, <2>4
<1> QED
  BY <1>14, <1>15 DEF at, N

(* Every probe sequence, of every hash in every table, visits slots of the  *)
(* table only, and every one of them: i -> 5i + 1 + perturb has the whole   *)
(* table as its cycle once the perturbation of pyset.rs has been shifted    *)
(* out, so a lookup in a table with an empty slot always ends.              *)
THEOREM ProbesReachEverySlot ==
    \A h \in Hashes, mask \in Masks :
      /\ ProbeSeq[h][mask] \in Seq(0 .. mask)
      /\ \A y \in 0 .. mask : \E k \in 1 .. Len(ProbeSeq[h][mask]) : ProbeSeq[h][mask][k] = y
<1> SUFFICES ASSUME NEW h \in Hashes, NEW mask \in Masks
             PROVE  /\ ProbeSeq[h][mask] \in Seq(0 .. mask)
                    /\ \A y \in 0 .. mask :
                         \E k \in 1 .. Len(ProbeSeq[h][mask]) : ProbeSeq[h][mask][k] = y
  OBVIOUS
<1> DEFINE at == Starts(h, mask)
           N == HashBits + mask + 1
<1>1. ProbeSeq[h][mask] = at[N].slots
  BY DEF ProbeSeq
<1>2. N \in 0 .. N
  BY MaskFacts, SizesAssumption
<1>3. StartInv(at, mask, N)
  BY <1>2, StartsInTable
<1>4. /\ at[N].slots \in Seq(0 .. mask)
      /\ \A j \in 0 .. N : \E k \in 1 .. Len(at[N].slots) : at[N].slots[k] = at[j].i
  BY <1>3 DEF StartInv
<1>5. ASSUME NEW y \in 0 .. mask PROVE \E j \in 0 .. N : at[j].i = y
  BY StartsCover
<1> HIDE DEF at, N
<1>6. ASSUME NEW y \in 0 .. mask PROVE \E k \in 1 .. Len(at[N].slots) : at[N].slots[k] = y
  <2>1. PICK j \in 0 .. N : at[j].i = y
    BY <1>5
  <2> QED
    BY <1>4, <2>1
<1> QED
  BY <1>1, <1>4, <1>6

-----------------------------------------------------------------------------
(* The runs of the loops over a sequence *)

(* Filter takes the items one by one. *)
LEMMA FilterRun ==
    ASSUME NEW items, NEW S, Len(items) \in Nat
    PROVE  \E g : /\ g[0] = <<>> /\ Filter(items, S) = g[Len(items)]
                  /\ \A k \in 1 .. Len(items) : g[k] = IF items[k] \in S THEN Append(g[k - 1], items[k]) ELSE g[k - 1]
<1> DEFINE n == Len(items)
           R(g) == g = [k \in 0 .. n |-> IF k = 0 THEN <<>> ELSE IF items[k] \in S THEN Append(g[k - 1], items[k]) ELSE g[k - 1]]
           f == CHOOSE g : R(g)
<1>1. PICK g : Loops("Filter", <<>>, items, S, n, g)
  BY LoopRuns
<1>2. R(g)
  BY <1>1 DEF Loops, Stepping, StepOf
<1>3. Filter(items, S) = f[n]
  BY DEF Filter
<1>4. R(f)
  <2> HIDE DEF R
  <2> QED
    BY <1>2
<1>6. n \in Nat
  OBVIOUS
<1> HIDE DEF f, n
<1>5. f[0] = <<>> /\ \A k \in 1 .. n : f[k] = IF items[k] \in S THEN Append(f[k - 1], items[k]) ELSE f[k - 1]
  <2>1. f[0] = <<>>
    BY <1>4, <1>6
  <2>2. ASSUME NEW k \in 1 .. n
        PROVE  f[k] = IF items[k] \in S THEN Append(f[k - 1], items[k]) ELSE f[k - 1]
    <3>1. k \in 0 .. n /\ k # 0
      BY <1>6
    <3> QED
      BY <1>4, <3>1, Zenon
  <2> QED
    BY <2>1, <2>2
<1> QED
  BY <1>3, <1>5 DEF n

(* InsertAll does insert_clean for one item after the other. *)
LEMMA InsertAllRun ==
    ASSUME NEW t, NEW items, Len(items) \in Nat
    PROVE  \E g : /\ g[0] = t /\ InsertAll(t, items) = g[Len(items)]
                  /\ \A k \in 1 .. Len(items) : g[k] = insert_clean(g[k - 1], items[k])
<1> DEFINE n == Len(items)
           R(g) == g = [k \in 0 .. n |-> IF k = 0 THEN t ELSE insert_clean(g[k - 1], items[k])]
           f == CHOOSE g : R(g)
<1>1. PICK g : Loops("InsertAll", t, items, <<>>, n, g)
  BY LoopRuns
<1>2. R(g)
  BY <1>1 DEF Loops, Stepping, StepOf
<1>3. InsertAll(t, items) = f[n]
  BY DEF InsertAll
<1>4. R(f)
  <2> HIDE DEF R
  <2> QED
    BY <1>2
<1> HIDE DEF f
<1>5. f[0] = t /\ \A k \in 1 .. n : f[k] = insert_clean(f[k - 1], items[k])
  BY <1>4
<1> QED
  BY <1>3, <1>5

(* TableAddAll does TableAdd for one item after the other. *)
LEMMA TableAddAllRun ==
    ASSUME NEW t, NEW items, Len(items) \in Nat
    PROVE  \E g : /\ g[0] = t /\ TableAddAll(t, items) = g[Len(items)]
                  /\ \A k \in 1 .. Len(items) : g[k] = TableAdd(g[k - 1], items[k])
<1> DEFINE n == Len(items)
           R(g) == g = [k \in 0 .. n |-> IF k = 0 THEN t ELSE TableAdd(g[k - 1], items[k])]
           f == CHOOSE g : R(g)
<1>1. PICK g : Loops("TableAddAll", t, items, <<>>, n, g)
  BY LoopRuns
<1>2. R(g)
  BY <1>1 DEF Loops, Stepping, StepOf
<1>3. TableAddAll(t, items) = f[n]
  BY DEF TableAddAll
<1>4. R(f)
  <2> HIDE DEF R
  <2> QED
    BY <1>2
<1> HIDE DEF f
<1>5. f[0] = t /\ \A k \in 1 .. n : f[k] = TableAdd(f[k - 1], items[k])
  BY <1>4
<1> QED
  BY <1>3, <1>5

(* TableDiscardAll does TableDiscard for one item after the other. *)
LEMMA TableDiscardAllRun ==
    ASSUME NEW t, NEW items, Len(items) \in Nat
    PROVE  \E g : /\ g[0] = t /\ TableDiscardAll(t, items) = g[Len(items)]
                  /\ \A k \in 1 .. Len(items) : g[k] = TableDiscard(g[k - 1], items[k])
<1> DEFINE n == Len(items)
           R(g) == g = [k \in 0 .. n |-> IF k = 0 THEN t ELSE TableDiscard(g[k - 1], items[k])]
           f == CHOOSE g : R(g)
<1>1. PICK g : Loops("TableDiscardAll", t, items, <<>>, n, g)
  BY LoopRuns
<1>2. R(g)
  BY <1>1 DEF Loops, Stepping, StepOf
<1>3. TableDiscardAll(t, items) = f[n]
  BY DEF TableDiscardAll
<1>4. R(f)
  <2> HIDE DEF R
  <2> QED
    BY <1>2
<1> HIDE DEF f
<1>5. f[0] = t /\ \A k \in 1 .. n : f[k] = TableDiscard(f[k - 1], items[k])
  BY <1>4
<1> QED
  BY <1>3, <1>5

(* TableToggleAll does TableToggle for one item after the other. *)
LEMMA TableToggleAllRun ==
    ASSUME NEW t, NEW items, Len(items) \in Nat
    PROVE  \E g : /\ g[0] = t /\ TableToggleAll(t, items) = g[Len(items)]
                  /\ \A k \in 1 .. Len(items) : g[k] = TableToggle(g[k - 1], items[k])
<1> DEFINE n == Len(items)
           R(g) == g = [k \in 0 .. n |-> IF k = 0 THEN t ELSE TableToggle(g[k - 1], items[k])]
           f == CHOOSE g : R(g)
<1>1. PICK g : Loops("TableToggleAll", t, items, <<>>, n, g)
  BY LoopRuns
<1>2. R(g)
  BY <1>1 DEF Loops, Stepping, StepOf
<1>3. TableToggleAll(t, items) = f[n]
  BY DEF TableToggleAll
<1>4. R(f)
  <2> HIDE DEF R
  <2> QED
    BY <1>2
<1> HIDE DEF f
<1>5. f[0] = t /\ \A k \in 1 .. n : f[k] = TableToggle(f[k - 1], items[k])
  BY <1>4
<1> QED
  BY <1>3, <1>5

(* add_all does add_value for one item after the other. *)
LEMMA add_allRun ==
    ASSUME NEW t, NEW items, Len(items) \in Nat
    PROVE  \E g : /\ g[0] = t /\ add_all(t, items) = g[Len(items)]
                  /\ \A k \in 1 .. Len(items) : g[k] = add_value(g[k - 1], items[k])
<1> DEFINE n == Len(items)
           R(g) == g = [k \in 0 .. n |-> IF k = 0 THEN t ELSE add_value(g[k - 1], items[k])]
           f == CHOOSE g : R(g)
<1>1. PICK g : Loops("add_all", t, items, <<>>, n, g)
  BY LoopRuns
<1>2. R(g)
  BY <1>1 DEF Loops, Stepping, StepOf
<1>3. add_all(t, items) = f[n]
  BY DEF add_all
<1>4. R(f)
  <2> HIDE DEF R
  <2> QED
    BY <1>2
<1> HIDE DEF f
<1>5. f[0] = t /\ \A k \in 1 .. n : f[k] = add_value(f[k - 1], items[k])
  BY <1>4
<1> QED
  BY <1>3, <1>5

(* discard_all does discard_value for one item after the other. *)
LEMMA discard_allRun ==
    ASSUME NEW t, NEW items, Len(items) \in Nat
    PROVE  \E g : /\ g[0] = t /\ discard_all(t, items) = g[Len(items)]
                  /\ \A k \in 1 .. Len(items) : g[k] = discard_value(g[k - 1], items[k])
<1> DEFINE n == Len(items)
           R(g) == g = [k \in 0 .. n |-> IF k = 0 THEN t ELSE discard_value(g[k - 1], items[k])]
           f == CHOOSE g : R(g)
<1>1. PICK g : Loops("discard_all", t, items, <<>>, n, g)
  BY LoopRuns
<1>2. R(g)
  BY <1>1 DEF Loops, Stepping, StepOf
<1>3. discard_all(t, items) = f[n]
  BY DEF discard_all
<1>4. R(f)
  <2> HIDE DEF R
  <2> QED
    BY <1>2
<1> HIDE DEF f
<1>5. f[0] = t /\ \A k \in 1 .. n : f[k] = discard_value(f[k - 1], items[k])
  BY <1>4
<1> QED
  BY <1>3, <1>5

(* toggle_all does toggle_value for one item after the other. *)
LEMMA toggle_allRun ==
    ASSUME NEW t, NEW items, Len(items) \in Nat
    PROVE  \E g : /\ g[0] = t /\ toggle_all(t, items) = g[Len(items)]
                  /\ \A k \in 1 .. Len(items) : g[k] = toggle_value(g[k - 1], items[k])
<1> DEFINE n == Len(items)
           R(g) == g = [k \in 0 .. n |-> IF k = 0 THEN t ELSE toggle_value(g[k - 1], items[k])]
           f == CHOOSE g : R(g)
<1>1. PICK g : Loops("toggle_all", t, items, <<>>, n, g)
  BY LoopRuns
<1>2. R(g)
  BY <1>1 DEF Loops, Stepping, StepOf
<1>3. toggle_all(t, items) = f[n]
  BY DEF toggle_all
<1>4. R(f)
  <2> HIDE DEF R
  <2> QED
    BY <1>2
<1> HIDE DEF f
<1>5. f[0] = t /\ \A k \in 1 .. n : f[k] = toggle_value(f[k - 1], items[k])
  BY <1>4
<1> QED
  BY <1>3, <1>5

(* UnionAll does apply_union for one argument after the other. *)
LEMMA UnionAllRun ==
    ASSUME NEW t, NEW items, NEW b, Len(items) \in Nat
    PROVE  \E g : /\ g[0] = t /\ UnionAll(t, items, b) = g[Len(items)]
                  /\ \A k \in 1 .. Len(items) : g[k] = apply_union(g[k - 1], items[k], b)
<1> DEFINE n == Len(items)
           R(g) == g = [k \in 0 .. n |-> IF k = 0 THEN t ELSE apply_union(g[k - 1], items[k], b)]
           f == CHOOSE g : R(g)
<1>1. PICK g : Loops("UnionAll", t, items, b, n, g)
  BY LoopRuns
<1>2. R(g)
  BY <1>1 DEF Loops, Stepping, StepOf
<1>3. UnionAll(t, items, b) = f[n]
  BY DEF UnionAll
<1>4. R(f)
  <2> HIDE DEF R
  <2> QED
    BY <1>2
<1> HIDE DEF f
<1>5. f[0] = t /\ \A k \in 1 .. n : f[k] = apply_union(f[k - 1], items[k], b)
  BY <1>4
<1> QED
  BY <1>3, <1>5

(* IntersectAll does intersect_arg for one argument after the other. *)
LEMMA IntersectAllRun ==
    ASSUME NEW t, NEW items, NEW b, Len(items) \in Nat
    PROVE  \E g : /\ g[0] = t /\ IntersectAll(t, items, b) = g[Len(items)]
                  /\ \A k \in 1 .. Len(items) : g[k] = intersect_arg(g[k - 1], items[k], b)
<1> DEFINE n == Len(items)
           R(g) == g = [k \in 0 .. n |-> IF k = 0 THEN t ELSE intersect_arg(g[k - 1], items[k], b)]
           f == CHOOSE g : R(g)
<1>1. PICK g : Loops("IntersectAll", t, items, b, n, g)
  BY LoopRuns
<1>2. R(g)
  BY <1>1 DEF Loops, Stepping, StepOf
<1>3. IntersectAll(t, items, b) = f[n]
  BY DEF IntersectAll
<1>4. R(f)
  <2> HIDE DEF R
  <2> QED
    BY <1>2
<1> HIDE DEF f
<1>5. f[0] = t /\ \A k \in 1 .. n : f[k] = intersect_arg(f[k - 1], items[k], b)
  BY <1>4
<1> QED
  BY <1>3, <1>5

(* DifferenceAll does apply_difference for one argument after the other. *)
LEMMA DifferenceAllRun ==
    ASSUME NEW t, NEW items, NEW b, Len(items) \in Nat
    PROVE  \E g : /\ g[0] = t /\ DifferenceAll(t, items, b) = g[Len(items)]
                  /\ \A k \in 1 .. Len(items) : g[k] = apply_difference(g[k - 1], items[k], b)
<1> DEFINE n == Len(items)
           R(g) == g = [k \in 0 .. n |-> IF k = 0 THEN t ELSE apply_difference(g[k - 1], items[k], b)]
           f == CHOOSE g : R(g)
<1>1. PICK g : Loops("DifferenceAll", t, items, b, n, g)
  BY LoopRuns
<1>2. R(g)
  BY <1>1 DEF Loops, Stepping, StepOf
<1>3. DifferenceAll(t, items, b) = f[n]
  BY DEF DifferenceAll
<1>4. R(f)
  <2> HIDE DEF R
  <2> QED
    BY <1>2
<1> HIDE DEF f
<1>5. f[0] = t /\ \A k \in 1 .. n : f[k] = apply_difference(f[k - 1], items[k], b)
  BY <1>4
<1> QED
  BY <1>3, <1>5

-----------------------------------------------------------------------------
(* Filtering a sequence *)

Kepts(items, S, n) == {k \in 1 .. n : items[k] \in S}
Firsts(items, S, n) == {k \in 1 .. n : items[k] \in S /\ \A j \in 1 .. (k - 1) : items[j] \notin S}
Apart(items, S, n) == \A j, k \in Kepts(items, S, n) : Eq(items[j], items[k]) => j = k

(* What Filter has come to after n items. *)
Filtered(f, items, S, n) ==
    /\ f \in Seq(S)
    /\ \A k \in Kepts(items, S, n) : \E p \in 1 .. Len(f) : f[p] = items[k]
    /\ \A p \in 1 .. Len(f) : \E k \in Kepts(items, S, n) : f[p] = items[k]
    /\ Len(f) = Cardinality(Kepts(items, S, n))
    /\ \A k \in Firsts(items, S, n) : Len(f) > 0 /\ f[1] = items[k]
    /\ Apart(items, S, n) => NoDuplicates(f)

(* Filter keeps, in their order, the items of the set. *)
LEMMA FilterFacts ==
    ASSUME NEW items, Len(items) \in Nat, NEW S
    PROVE  Filtered(Filter(items, S), items, S, Len(items))
<1> DEFINE N == Len(items)
<1>1. PICK g : /\ g[0] = <<>> /\ Filter(items, S) = g[N]
               /\ \A k \in 1 .. N : g[k] = IF items[k] \in S THEN Append(g[k - 1], items[k]) ELSE g[k - 1]
  BY FilterRun
<1> DEFINE P(n) == Filtered(g[n], items, S, n)
           T == {n \in 0 .. N : P(n)}
<1>2. N \in Nat
  OBVIOUS
<1> HIDE DEF N
<1>3. 0 \in T
  <2>1. Kepts(items, S, 0) = {} /\ Firsts(items, S, 0) = {}
    BY DEF Kepts, Firsts
  <2>2. g[0] \in Seq(S) /\ Len(g[0]) = 0 /\ g[0] = <<>>
    BY <1>1
  <2>4. NoDuplicates(g[0]) /\ Cardinality(Kepts(items, S, 0)) = 0
    BY <2>1, <2>2, FS_EmptySet DEF NoDuplicates
  <2>3. P(0)
    BY <2>1, <2>2, <2>4 DEF Filtered
  <2> HIDE DEF P
  <2> QED
    BY <1>2, <2>3
<1>4. ASSUME NEW n \in 0 .. (N - 1), n \in T PROVE n + 1 \in T
  <2> DEFINE f == g[n]
             x == items[n + 1]
             A == Kepts(items, S, n)
             B == Kepts(items, S, n + 1)
  <2>1. /\ f \in Seq(S)
        /\ \A k \in A : \E p \in 1 .. Len(f) : f[p] = items[k]
        /\ \A p \in 1 .. Len(f) : \E k \in A : f[p] = items[k]
        /\ Len(f) = Cardinality(A)
        /\ \A k \in Firsts(items, S, n) : Len(f) > 0 /\ f[1] = items[k]
        /\ Apart(items, S, n) => NoDuplicates(f)
    BY <1>4 DEF Filtered
  <2>2. n \in Nat /\ n + 1 \in 1 .. N /\ (n + 1) - 1 = n
    BY <1>2
  <2>3. g[n + 1] = IF x \in S THEN Append(f, x) ELSE f
    BY <1>1, <2>2
  <2>4. A = {k \in 1 .. n : items[k] \in S} /\ B = {k \in 1 .. (n + 1) : items[k] \in S}
    BY DEF Kepts
  <2>5. IsFiniteSet(A) /\ A \subseteq 1 .. n
    <3>1. IsFiniteSet(1 .. n)
      BY <2>2, FS_Interval
    <3> QED
      BY <2>4, <3>1, FS_Subset
  <2>6. CASE x \notin S
    <3>1. B = A
      BY <2>2, <2>4, <2>6
    <3>2. Firsts(items, S, n + 1) = Firsts(items, S, n)
      BY <2>2, <2>6 DEF Firsts
    <3>3. g[n + 1] = f
      BY <2>3, <2>6
    <3>4. Filtered(f, items, S, n + 1)
      BY <2>1, <3>1, <3>2 DEF Filtered, Apart
    <3> QED
      BY <1>2, <2>2, <3>3, <3>4
  <2>7. CASE x \in S
    <3> DEFINE e == Append(f, x)
               m == Len(f)
    <3>1. g[n + 1] = e
      BY <2>3, <2>7
    <3>2. B = A \cup {n + 1} /\ n + 1 \notin A
      BY <2>2, <2>4, <2>7
    <3>3. /\ e \in Seq(S) /\ m \in Nat /\ Len(e) = m + 1 /\ e[m + 1] = x
          /\ \A p \in 1 .. m : e[p] = f[p]
      BY <2>1, <2>7
    <3>4. Cardinality(B) = Cardinality(A) + 1
      BY <2>5, <3>2, FS_AddElement
    <3>7. ASSUME NEW k \in Firsts(items, S, n + 1) PROVE Len(e) > 0 /\ e[1] = items[k]
      <4>1. CASE k \in 1 .. n
        <5>1. k \in Firsts(items, S, n)
          BY <3>7, <4>1 DEF Firsts
        <5>2. m > 0 /\ f[1] = items[k]
          BY <2>1, <5>1
        <5> QED
          BY <3>3, <5>2
      <4>2. CASE k \notin 1 .. n
        <5>1. k = n + 1 /\ A = {}
          BY <2>2, <2>4, <3>7, <4>2 DEF Firsts
        <5>2. m = 0
          BY <2>1, <5>1, FS_EmptySet
        <5> QED
          BY <3>3, <5>1, <5>2
      <4> QED
        BY <4>1, <4>2
    <3> HIDE DEF e, f, m, A, B
    <3>5. ASSUME NEW k \in B PROVE \E p \in 1 .. Len(e) : e[p] = items[k]
      BY <2>1, <3>2, <3>3 DEF m
    <3>6. ASSUME NEW p \in 1 .. Len(e) PROVE \E k \in B : e[p] = items[k]
      <4>1. p \in 1 .. m \/ p = m + 1
        BY <3>3
      <4>2. CASE p = m + 1
        BY <3>2, <3>3, <4>2
      <4>3. CASE p \in 1 .. m
        <5>1. PICK k \in A : f[p] = items[k]
          BY <2>1, <4>3 DEF m
        <5> QED
          BY <3>2, <3>3, <4>3, <5>1
      <4> QED
        BY <4>1, <4>2, <4>3
    <3>8. ASSUME Apart(items, S, n + 1) PROVE NoDuplicates(e)
      <4>1. \A j, k \in B : Eq(items[j], items[k]) => j = k
        BY <3>8 DEF Apart, B
      <4>2. \A p \in 1 .. m : ~ Eq(f[p], x) /\ ~ Eq(x, f[p])
        <5> SUFFICES ASSUME NEW p \in 1 .. m, Eq(f[p], x) PROVE FALSE
          BY DEF Eq
        <5>1. PICK k \in A : f[p] = items[k]
          BY <2>1 DEF m
        <5>2. k \in B /\ n + 1 \in B /\ k # n + 1
          BY <3>2
        <5> QED
          BY <4>1, <5>1, <5>2
      <4>3. NoDuplicates(f)
        <5>1. Apart(items, S, n)
          BY <3>2, <4>1 DEF Apart, A
        <5> QED
          BY <2>1, <5>1
      <4>4. DOMAIN f = 1 .. m /\ DOMAIN e = 1 .. (m + 1)
        BY <2>1, <3>3 DEF m
      <4> QED
        BY <3>3, <4>2, <4>3, <4>4 DEF NoDuplicates
    <3>9. Filtered(e, items, S, n + 1)
      <4>1. Len(e) = Cardinality(B)
        BY <2>1, <3>3, <3>4 DEF m
      <4> QED
        BY <3>3, <3>5, <3>6, <3>7, <3>8, <4>1 DEF Filtered, B
    <3> QED
      BY <1>2, <2>2, <3>1, <3>9
  <2> QED
    BY <2>6, <2>7
<1> HIDE DEF P
<1>5. \A n \in 0 .. N : n \in T
  BY <1>2, <1>3, <1>4, UpTo
<1>6. P(N)
  BY <1>2, <1>5
<1> QED
  BY <1>1, <1>6 DEF P, N

-----------------------------------------------------------------------------
(* Tables and lookups *)

Used(t) == {i \in DOMAIN t.slots : IsActive(t, i)}
Filled(t) == {i \in DOMAIN t.slots : t.slots[i] # Empty}
Acts(t) == {t.slots[i] : i \in Used(t)}
HasEq(S, v) == \E w \in S : Eq(w, v)
Path(t, v) == ProbeSeq[Hash[v]][Mask(t)]

(* The first p - 1 slots a lookup of v probes are not empty. *)
Passes(t, v, p) == p \in 1 .. Len(Path(t, v)) /\ \A j \in 1 .. (p - 1) : t.slots[Path(t, v)[j]] # Empty
Reaches(t, v, i) == \E p \in 1 .. Len(Path(t, v)) : Path(t, v)[p] = i /\ Passes(t, v, p)
Room(t) == \E i \in DOMAIN t.slots : t.slots[i] = Empty

(* Where a lookup of v stops. *)
Stops(t, v, i) == t.slots[i] = Empty \/ (IsActive(t, i) /\ Eq(t.slots[i], v))

(* No two slots hold equal values, and a lookup of an element reaches it. *)
Sound(t) ==
    /\ \A i, j \in Used(t) : Eq(t.slots[i], t.slots[j]) => i = j
    /\ \A i \in Used(t) : Reaches(t, t.slots[i], i)

Counted(t) == t.used = Cardinality(Used(t)) /\ t.fill = Cardinality(Filled(t))
Light(t) == t.fill * 5 < Mask(t) * 3

(* Equal values are hashed alike. *)
LEMMA EqualHashes ==
    ASSUME NEW v \in Hashed, NEW w \in Values, Eq(v, w) \/ Eq(w, v)
    PROVE  Hash[v] = Hash[w] /\ w \in Hashed
BY ValuesAssumption DEF Eq, Hashed

(* The size of a table, and what its slots are. *)
LEMMA TableShape ==
    ASSUME NEW t, Shaped(t)
    PROVE  /\ Mask(t) \in Masks /\ Mask(t) \in Nat \ {0}
           /\ t.slots \in [0 .. Mask(t) -> Slots] /\ DOMAIN t.slots = 0 .. Mask(t)
           /\ IsFiniteSet(DOMAIN t.slots) /\ Cardinality(DOMAIN t.slots) = Mask(t) + 1
           /\ \A i \in DOMAIN t.slots : /\ IsActive(t, i) <=> t.slots[i] \in Values
                                        /\ IsActive(t, i) => t.slots[i] \in Hashed /\ t.slots[i] # Empty
<1>1. PICK m \in Masks : t.slots \in [0 .. m -> Slots]
  BY DEF Shaped
<1>2. m \in Nat \ {0}
  BY MaskFacts
<1>3. DOMAIN t.slots = 0 .. m
  BY <1>1
<1>4. IsFiniteSet(0 .. m) /\ Cardinality(0 .. m) = m + 1
  <2>1. 0 \in Int /\ m \in Int /\ 0 <= m /\ m - 0 + 1 = m + 1
    BY <1>2
  <2> QED
    BY <2>1, FS_Interval
<1>5. Mask(t) = m
  BY <1>2, <1>3, <1>4 DEF Mask
<1>6. ASSUME NEW i \in DOMAIN t.slots
      PROVE  /\ IsActive(t, i) <=> t.slots[i] \in Values
             /\ IsActive(t, i) => t.slots[i] \in Hashed /\ t.slots[i] # Empty
  <2>1. t.slots[i] \in Slots
    BY <1>1, <1>3
  <2> QED
    BY <2>1, ValuesAssumption DEF IsActive, Slots, Hashed
<1> QED
  BY <1>1, <1>2, <1>3, <1>4, <1>5, <1>6

(* The slots in use are among those filled, and both are finitely many. *)
LEMMA UsedFilled ==
    ASSUME NEW t, Shaped(t)
    PROVE  /\ IsFiniteSet(Used(t)) /\ IsFiniteSet(Filled(t)) /\ Used(t) \subseteq Filled(t)
           /\ Used(t) \subseteq DOMAIN t.slots /\ Filled(t) \subseteq DOMAIN t.slots
           /\ Cardinality(Used(t)) \in Nat /\ Cardinality(Filled(t)) \in Nat
           /\ Cardinality(Used(t)) <= Cardinality(Filled(t))
           /\ Acts(t) \subseteq Hashed
<1>1. IsFiniteSet(DOMAIN t.slots)
  BY TableShape
<1>2. Used(t) \subseteq Filled(t) /\ Used(t) \subseteq DOMAIN t.slots /\ Filled(t) \subseteq DOMAIN t.slots
  BY DEF Used, Filled, IsActive
<1>3. IsFiniteSet(Used(t)) /\ IsFiniteSet(Filled(t))
  BY <1>1, <1>2, FS_Subset
<1>4. Cardinality(Used(t)) \in Nat /\ Cardinality(Filled(t)) \in Nat
  BY <1>3, FS_CardinalityType
<1>5. Cardinality(Used(t)) <= Cardinality(Filled(t))
  BY <1>2, <1>3, FS_Subset
<1>6. Acts(t) \subseteq Hashed
  BY TableShape DEF Acts, Used
<1> QED
  BY <1>2, <1>3, <1>4, <1>5, <1>6

(* A lookup probes slots of the table, and all of them. *)
LEMMA PathFacts ==
    ASSUME NEW t, Shaped(t), NEW v \in Hashed
    PROVE  /\ Path(t, v) \in Seq(DOMAIN t.slots) /\ Len(Path(t, v)) \in Nat
           /\ DOMAIN Path(t, v) = 1 .. Len(Path(t, v))
           /\ \A i \in DOMAIN t.slots : \E p \in 1 .. Len(Path(t, v)) : Path(t, v)[p] = i
<1>1. Hash[v] \in Hashes
  BY ValuesAssumption DEF Hashed
<1>2. Mask(t) \in Masks /\ DOMAIN t.slots = 0 .. Mask(t)
  BY TableShape
<1>3. /\ Path(t, v) \in Seq(0 .. Mask(t))
      /\ \A i \in 0 .. Mask(t) : \E p \in 1 .. Len(Path(t, v)) : Path(t, v)[p] = i
  BY <1>1, <1>2, ProbesReachEverySlot DEF Path
<1> QED
  BY <1>2, <1>3

(* The first place of a sequence that has a property, as SelectInSeq finds it. *)
LEMMA FirstPlace ==
    ASSUME NEW I, I \subseteq Nat \ {0}, I # {}
    PROVE  Min(I) \in I /\ \A j \in Nat \ {0} : j < Min(I) => j \notin I
<1>1. I \subseteq Nat
  OBVIOUS
<1>2. \E x \in I : \A y \in I : x <= y
  BY <1>1, LeastNumber
<1>3. Min(I) \in I /\ \A y \in I : Min(I) <= y
  BY <1>2 DEF Min
<1>4. ASSUME NEW j \in Nat \ {0}, j < Min(I), j \in I PROVE FALSE
  <2>1. Min(I) \in Nat /\ Min(I) <= j
    BY <1>3, <1>4
  <2> QED
    BY <1>4, <2>1
<1> QED
  BY <1>3, <1>4

(* In a table with an empty slot every lookup ends, at the first slot that    *)
(* stops it.                                                                  *)
LEMMA LookupEnds ==
    ASSUME NEW t, Shaped(t), Room(t), NEW v \in Hashed
    PROVE  /\ LookupEnd(t, v) \in 1 .. Len(Path(t, v)) /\ LookupEnd(t, v) # 0
           /\ Stops(t, v, Path(t, v)[LookupEnd(t, v)])
           /\ \A j \in 1 .. (LookupEnd(t, v) - 1) : ~ Stops(t, v, Path(t, v)[j])
<1> DEFINE s == Path(t, v)
           I == {k \in 1 .. Len(s) : \/ t.slots[s[k]] = Empty
                                     \/ /\ IsActive(t, s[k]) /\ Hash[t.slots[s[k]]] = Hash[v]
                                        /\ Eq(t.slots[s[k]], v)}
<1>1. /\ s \in Seq(DOMAIN t.slots) /\ Len(s) \in Nat /\ DOMAIN s = 1 .. Len(s)
      /\ \A i \in DOMAIN t.slots : \E p \in 1 .. Len(s) : s[p] = i
  BY PathFacts
<1>2. LookupEnd(t, v) = IF I # {} THEN Min(I) ELSE 0
  BY DEF LookupEnd, SelectInSeq, Path
<1> HIDE DEF s
<1>3. \A k \in DOMAIN s : k \in I <=> Stops(t, v, s[k])
  <2>3. \A k \in DOMAIN s : k \in 1 .. Len(s)
    BY <1>1
  <2> SUFFICES ASSUME NEW k \in DOMAIN s, IsActive(t, s[k]), Eq(t.slots[s[k]], v)
               PROVE  Hash[t.slots[s[k]]] = Hash[v]
    BY <2>3 DEF Stops
  <2>1. s[k] \in DOMAIN t.slots
    BY <1>1
  <2>2. t.slots[s[k]] \in Hashed
    BY <2>1, TableShape
  <2> QED
    BY <2>2, EqualHashes DEF Hashed
<1>4. I # {} /\ I \subseteq Nat \ {0} /\ I \subseteq 1 .. Len(s)
  <2>1. PICK i \in DOMAIN t.slots : t.slots[i] = Empty
    BY DEF Room
  <2> QED
    BY <1>1, <2>1
<1> HIDE DEF I
<1>5. Min(I) \in I /\ \A j \in Nat \ {0} : j < Min(I) => j \notin I
  BY <1>4, FirstPlace
<1>6. LookupEnd(t, v) = Min(I)
  BY <1>2, <1>4
<1>7. LookupEnd(t, v) \in 1 .. Len(s)
  BY <1>4, <1>5, <1>6
<1>8. ASSUME NEW j \in 1 .. (LookupEnd(t, v) - 1) PROVE ~ Stops(t, v, s[j])
  <2>1. j \in DOMAIN s /\ j \in Nat \ {0} /\ j < LookupEnd(t, v)
    BY <1>1, <1>7
  <2> QED
    BY <1>3, <1>5, <1>6, <2>1
<1>9. Stops(t, v, s[LookupEnd(t, v)])
  BY <1>1, <1>3, <1>5, <1>6, <1>7
<1> QED
  BY <1>1, <1>7, <1>8, <1>9 DEF s

(* A table that is not filled has an empty slot. *)
LEMMA NotFull ==
    ASSUME NEW t, Shaped(t), Cardinality(Filled(t)) <= Mask(t)
    PROVE  Room(t)
<1> SUFFICES ASSUME ~ Room(t) PROVE FALSE
  OBVIOUS
<1>1. Filled(t) = DOMAIN t.slots
  BY DEF Filled, Room
<1>2. Cardinality(DOMAIN t.slots) = Mask(t) + 1 /\ Mask(t) \in Nat
  BY TableShape
<1> QED
  BY <1>1, <1>2

(* A table under its load has an empty slot. *)
LEMMA LightHasRoom ==
    ASSUME NEW t, Shaped(t), Counted(t), Light(t)
    PROVE  Room(t)
<1> DEFINE f == Cardinality(Filled(t))
           m == Mask(t)
<1>1. f \in Nat /\ m \in Nat /\ f * 5 < m * 3
  BY TableShape, UsedFilled DEF Counted, Light
<1> HIDE DEF f, m
<1>2. f <= m
  BY <1>1
<1> QED
  BY <1>2, NotFull DEF f, m

(* A lookup of v finds a value if and only if the table holds one equal to v. *)
LEMMA Found ==
    ASSUME NEW t, Shaped(t), Room(t), Sound(t), NEW v \in Hashed
    PROVE  /\ TableContains(t, v) <=> HasEq(Acts(t), v)
           /\ TableContains(t, v) => /\ EndSlot(t, v, LookupEnd(t, v)) \in Used(t)
                                     /\ Eq(t.slots[EndSlot(t, v, LookupEnd(t, v))], v)
           /\ ~ TableContains(t, v) => /\ t.slots[Path(t, v)[LookupEnd(t, v)]] = Empty
                                       /\ Passes(t, v, LookupEnd(t, v))
<1> DEFINE s == Path(t, v)
           e == LookupEnd(t, v)
           i == s[e]
<1>1. /\ e \in 1 .. Len(s) /\ e # 0 /\ Stops(t, v, i)
      /\ \A j \in 1 .. (e - 1) : ~ Stops(t, v, s[j])
  BY LookupEnds
<1>2. s \in Seq(DOMAIN t.slots) /\ Len(s) \in Nat
  BY PathFacts
<1>3. TableContains(t, v) <=> t.slots[i] # Empty
  BY <1>1 DEF TableContains, EndSlot, Path
<1>4. EndSlot(t, v, e) = i
  BY DEF EndSlot, Path
<1> HIDE DEF s, e, i
<1>5. i \in DOMAIN t.slots /\ e \in Nat \ {0}
  BY <1>1, <1>2 DEF i
<1>6. TableContains(t, v) => i \in Used(t) /\ Eq(t.slots[i], v)
  BY <1>1, <1>3, <1>5 DEF Stops, Used
<1>7. ~ TableContains(t, v) => t.slots[i] = Empty /\ Passes(t, v, e)
  BY <1>1, <1>3 DEF Passes, Stops, s
<1>8. TableContains(t, v) => HasEq(Acts(t), v)
  BY <1>6 DEF HasEq, Acts
<1>9. ASSUME HasEq(Acts(t), v), ~ TableContains(t, v) PROVE FALSE
  <2>1. PICK k \in Used(t) : Eq(t.slots[k], v)
    BY <1>9 DEF HasEq, Acts
  <2>2. k \in DOMAIN t.slots /\ IsActive(t, k) /\ t.slots[k] # Empty
    BY DEF Used, IsActive
  <2>3. Path(t, t.slots[k]) = s
    <3>1. t.slots[k] \in Hashed
      BY <2>2, TableShape
    <3>2. Hash[t.slots[k]] = Hash[v]
      BY <2>1, <3>1, EqualHashes DEF Hashed
    <3> QED
      BY <3>2 DEF Path, s
  <2>4. Reaches(t, t.slots[k], k)
    BY DEF Sound
  <2>5. PICK p \in 1 .. Len(s) : s[p] = k /\ \A j \in 1 .. (p - 1) : t.slots[s[j]] # Empty
    BY <2>3, <2>4 DEF Reaches, Passes
  <2>6. Stops(t, v, s[p])
    BY <2>1, <2>2, <2>5 DEF Stops
  <2>7. ~ (p \in 1 .. (e - 1))
    BY <1>1, <2>6
  <2>8. ~ (e \in 1 .. (p - 1))
    BY <1>7, <1>9, <2>5 DEF i
  <2>9. p = e
    BY <1>1, <1>2, <1>5, <2>7, <2>8
  <2> QED
    BY <1>7, <1>9, <2>2, <2>5, <2>9 DEF i
<1> QED
  BY <1>4, <1>6, <1>7, <1>8, <1>9 DEF e, s, i

(* An intact table is one whose counters are true, that is under its load and *)
(* is sound.                                                                  *)
LEMMA IntactIs ==
    ASSUME NEW t, Shaped(t)
    PROVE  Intact(t) <=> Counted(t) /\ Light(t) /\ Sound(t)
<1>1. ASSUME Counted(t), Light(t), Sound(t) PROVE Intact(t)
  <2>1. Room(t)
    BY <1>1, LightHasRoom
  <2>2. \A v \in Hashed : LookupEnd(t, v) # 0
    BY <2>1, LookupEnds
  <2>3. ASSUME NEW i \in DOMAIN t.slots, IsActive(t, i) PROVE TableContains(t, t.slots[i])
    <3>1. t.slots[i] \in Hashed
      BY <2>3, TableShape
    <3>2. t.slots[i] \in Acts(t) /\ Eq(t.slots[i], t.slots[i])
      BY <2>3 DEF Acts, Used, Eq
    <3> QED
      BY <1>1, <2>1, <3>1, <3>2, Found DEF HasEq
  <2> QED
    BY <1>1, <2>2, <2>3 DEF Intact, Counted, Light, Sound, Used, Filled
<1>2. ASSUME Intact(t) PROVE Counted(t) /\ Light(t) /\ Sound(t)
  <2>1. Counted(t) /\ Light(t)
    BY <1>2 DEF Intact, Counted, Light, Used, Filled
  <2>2. Room(t)
    BY <2>1, LightHasRoom
  <2>3. \A i, j \in Used(t) : Eq(t.slots[i], t.slots[j]) => i = j
    BY <1>2 DEF Intact, Used
  <2>4. ASSUME NEW i \in Used(t) PROVE Reaches(t, t.slots[i], i)
    <3> DEFINE v == t.slots[i]
               e == LookupEnd(t, v)
    <3>1. i \in DOMAIN t.slots /\ IsActive(t, i)
      BY DEF Used
    <3>2. v \in Hashed /\ TableContains(t, v)
      BY <1>2, <3>1, TableShape DEF Intact
    <3>3. /\ e \in 1 .. Len(Path(t, v)) /\ e # 0 /\ Stops(t, v, Path(t, v)[e])
          /\ \A j \in 1 .. (e - 1) : ~ Stops(t, v, Path(t, v)[j])
      BY <2>2, <3>2, LookupEnds
    <3>4. t.slots[Path(t, v)[e]] # Empty
      BY <3>2, <3>3 DEF TableContains, EndSlot, Path
    <3>5. Path(t, v)[e] \in DOMAIN t.slots
      BY <3>2, <3>3, PathFacts
    <3> HIDE DEF v, e
    <3>6. Path(t, v)[e] \in Used(t) /\ Eq(t.slots[Path(t, v)[e]], v)
      BY <3>3, <3>4, <3>5 DEF Stops, Used
    <3>7. Path(t, v)[e] = i
      BY <2>3, <3>6 DEF v
    <3>8. Passes(t, v, e)
      BY <3>3 DEF Passes, Stops
    <3>9. Reaches(t, v, i)
      BY <3>3, <3>7, <3>8 DEF Reaches
    <3> QED
      BY <3>9 DEF v
  <2> QED
    BY <2>1, <2>3, <2>4 DEF Sound
<1> QED
  BY <1>1, <1>2

(* The values a sound table yields: each once, in slot order. *)
LEMMA ActivesFacts ==
    ASSUME NEW t, Shaped(t), Sound(t)
    PROVE  /\ Actives(t) \in Seq(Hashed) /\ ToSet(Actives(t)) = Acts(t)
           /\ Len(Actives(t)) = Cardinality(Used(t)) /\ NoDuplicates(Actives(t))
           /\ \A i \in Used(t) : (\A j \in 0 .. (i - 1) : j \notin Used(t)) =>
                Len(Actives(t)) > 0 /\ Actives(t)[1] = t.slots[i]
<1> DEFINE m == Mask(t) + 1
           items == InSlotOrder(t)
           f == Actives(t)
           K == Kepts(items, Values, m)
<1>1. m \in Nat /\ DOMAIN t.slots = 0 .. (m - 1) /\ t.slots \in [0 .. (m - 1) -> Slots]
  BY TableShape
<1>2. \A i \in 0 .. (m - 1) : i \in Used(t) <=> t.slots[i] \in Values
  BY <1>1, TableShape DEF Used
<1>3. items = [k \in 1 .. m |-> t.slots[k - 1]]
  BY DEF InSlotOrder
<1>4. f = Filter(items, Values)
  BY DEF Actives
<1>17. \A i \in Used(t) : i \in 0 .. (m - 1) /\ t.slots[i] \in Hashed
  BY <1>1, TableShape DEF Used
<1>18. \A i, j \in Used(t) : Eq(t.slots[i], t.slots[j]) => i = j
  BY DEF Sound
<1>19. \A w : w \in Acts(t) <=> \E i \in Used(t) : w = t.slots[i]
  BY DEF Acts
<1>20. IsFiniteSet(Used(t))
  BY UsedFilled
<1> HIDE DEF m, items, f
<1>5. items \in Seq(Slots) /\ Len(items) = m
  BY <1>1, <1>3
<1>6. Filtered(f, items, Values, m)
  BY <1>1, <1>4, <1>5, FilterFacts
<1>7. \A k \in 1 .. m : items[k] = t.slots[k - 1] /\ k - 1 \in 0 .. (m - 1)
  BY <1>1, <1>3
<1>8. \A k : k \in K <=> k \in 1 .. m /\ k - 1 \in Used(t)
  BY <1>2, <1>7 DEF Kepts
<1>9. /\ f \in Seq(Values)
      /\ \A k \in K : \E p \in 1 .. Len(f) : f[p] = items[k]
      /\ \A p \in 1 .. Len(f) : \E k \in K : f[p] = items[k]
      /\ Len(f) = Cardinality(K)
      /\ \A k \in Firsts(items, Values, m) : Len(f) > 0 /\ f[1] = items[k]
      /\ Apart(items, Values, m) => NoDuplicates(f)
  BY <1>6 DEF Filtered
<1>10. ASSUME NEW k \in K PROVE k - 1 \in Used(t) /\ items[k] = t.slots[k - 1] /\ k \in Nat
  BY <1>7, <1>8, <1>1
<1>11. Apart(items, Values, m)
  <2> SUFFICES ASSUME NEW j \in K, NEW k \in K, Eq(items[j], items[k]) PROVE j = k
    BY DEF Apart
  <2>1. j - 1 = k - 1
    BY <1>10, <1>18
  <2> QED
    BY <1>10, <2>1
<1>12. ASSUME NEW i \in Used(t) PROVE i + 1 \in K /\ items[i + 1] = t.slots[i]
  <2>1. i + 1 \in 1 .. m /\ (i + 1) - 1 = i
    BY <1>1, <1>17
  <2> QED
    BY <1>7, <1>8, <2>1
<1> HIDE DEF K
<1>13. f \in Seq(Hashed) /\ Len(f) \in Nat /\ DOMAIN f = 1 .. Len(f)
  <2>1. ASSUME NEW p \in 1 .. Len(f) PROVE f[p] \in Hashed
    <3>1. PICK k \in K : f[p] = items[k]
      BY <1>9
    <3> QED
      BY <1>10, <1>17, <3>1
  <2> QED
    BY <1>9, <2>1
<1>14. ToSet(f) = Acts(t)
  <2>1. \A w : w \in ToSet(f) <=> \E p \in 1 .. Len(f) : w = f[p]
    BY <1>13 DEF ToSet
  <2>2. ASSUME NEW p \in 1 .. Len(f) PROVE f[p] \in Acts(t)
    <3>1. PICK k \in K : f[p] = items[k]
      BY <1>9
    <3> QED
      BY <1>10, <1>19, <3>1
  <2>3. ASSUME NEW i \in Used(t) PROVE \E p \in 1 .. Len(f) : f[p] = t.slots[i]
    BY <1>9, <1>12
  <2> QED
    BY <1>19, <2>1, <2>2, <2>3
<1>15. Cardinality(K) = Cardinality(Used(t))
  <2> DEFINE g == [i \in Used(t) |-> i + 1]
  <2>1. g \in [Used(t) -> K]
    BY <1>12
  <2>2. \A a, b \in Used(t) : g[a] = g[b] => a = b
    BY <1>1, <1>17
  <2>3. ASSUME NEW k \in K PROVE \E a \in Used(t) : g[a] = k
    <3>1. k - 1 \in Used(t) /\ g[k - 1] = k
      BY <1>10
    <3> QED
      BY <3>1
  <2>6. DOMAIN g = Used(t)
    OBVIOUS
  <2> HIDE DEF g
  <2>4. g \in Bijection(Used(t), K)
    BY <2>1, <2>2, <2>3, <2>6 DEF Bijection, Injection, Surjection, IsInjective
  <2>5. ExistsBijection(Used(t), K)
    BY <2>4 DEF ExistsBijection
  <2> QED
    BY <1>20, <2>5, FS_Bijection
<1>16. ASSUME NEW i \in Used(t), \A j \in 0 .. (i - 1) : j \notin Used(t)
       PROVE  Len(f) > 0 /\ f[1] = t.slots[i]
  <2>1. i + 1 \in 1 .. m /\ i \in Nat
    BY <1>1, <1>17
  <2>2. ASSUME NEW j \in 1 .. ((i + 1) - 1) PROVE items[j] \notin Values
    <3>1. j \in 1 .. m /\ j - 1 \in 0 .. (i - 1) /\ j - 1 \in 0 .. (m - 1)
      BY <1>1, <2>1
    <3>2. j - 1 \notin Used(t)
      BY <1>16, <3>1
    <3> QED
      BY <1>2, <1>7, <3>1, <3>2
  <2>3. items[i + 1] = t.slots[i] /\ t.slots[i] \in Values
    BY <1>12, <1>17 DEF Hashed
  <2>4. i + 1 \in Firsts(items, Values, m)
    BY <2>1, <2>2, <2>3 DEF Firsts
  <2> QED
    BY <1>9, <2>3, <2>4
<1> QED
  BY <1>9, <1>11, <1>13, <1>14, <1>15, <1>16 DEF f, K

(* A sound table holds no more values than there are. *)
LEMMA UsedBounded ==
    ASSUME NEW t, Shaped(t), Sound(t)
    PROVE  Cardinality(Used(t)) <= Cardinality(Values) /\ Cardinality(Values) \in Nat
<1> DEFINE g == [i \in Used(t) |-> t.slots[i]]
<1>1. \A i \in Used(t) : t.slots[i] \in Values
  BY TableShape DEF Used
<1>2. \A i, j \in Used(t) : t.slots[i] = t.slots[j] => i = j
  BY DEF Sound, Eq
<1>3. g \in [Used(t) -> Values] /\ DOMAIN g = Used(t) /\ \A i, j \in Used(t) : g[i] = g[j] => i = j
  BY <1>1, <1>2
<1> HIDE DEF g
<1>4. g \in Injection(Used(t), Values)
  BY <1>3 DEF Injection, IsInjective
<1>5. IsFiniteSet(Values)
  BY ValuesAssumption
<1> QED
  BY <1>4, <1>5, FS_Injection, FS_CardinalityType

-----------------------------------------------------------------------------
(* Filling and clearing a slot *)

(* A table made of its parts. *)
LEMMA MadeTable ==
    ASSUME NEW m \in Masks, NEW sl \in [0 .. m -> Slots], NEW f \in Nat, NEW n \in Nat,
           NEW t, t = [kind |-> "Table", slots |-> sl, fill |-> f, used |-> n]
    PROVE  Shaped(t) /\ t.slots = sl /\ t.fill = f /\ t.used = n /\ IsTable(t)
<1>1. t.slots = sl /\ t.fill = f /\ t.used = n /\ t.kind = "Table"
  OBVIOUS
<1>2. t = [kind |-> "Table", slots |-> t.slots, fill |-> t.fill, used |-> t.used]
  BY <1>1
<1>3. \E k \in Masks : t.slots \in [0 .. k -> Slots]
  BY <1>1
<1> QED
  BY <1>1, <1>2, <1>3 DEF Shaped, IsTable

(* A table with other slots of the same size and other counters. *)
LEMMA RemadeTable ==
    ASSUME NEW t, Shaped(t), NEW sl \in [DOMAIN t.slots -> Slots], NEW f \in Nat, NEW n \in Nat,
           NEW u, u = [kind |-> "Table", slots |-> sl, fill |-> f, used |-> n]
    PROVE  Shaped(u) /\ u.slots = sl /\ u.fill = f /\ u.used = n /\ IsTable(u) /\ Mask(u) = Mask(t)
<1>1. Mask(t) \in Masks /\ DOMAIN t.slots = 0 .. Mask(t)
  BY TableShape
<1>2. sl \in [0 .. Mask(t) -> Slots] /\ DOMAIN sl = DOMAIN t.slots
  BY <1>1
<1>3. Shaped(u) /\ u.slots = sl /\ u.fill = f /\ u.used = n /\ IsTable(u)
  BY <1>1, <1>2, MadeTable
<1> QED
  BY <1>2, <1>3 DEF Mask

(* A value put in the place of a dummy. *)
LEMMA PutBack ==
    ASSUME NEW t, Shaped(t), NEW i, NEW v, NEW u, u = [t EXCEPT !.slots[i] = v, !.used = @ + 1]
    PROVE  u = [kind |-> "Table", slots |-> [t.slots EXCEPT ![i] = v], fill |-> t.fill, used |-> t.used + 1]
<1>1. t = [kind |-> "Table", slots |-> t.slots, fill |-> t.fill, used |-> t.used]
  BY DEF Shaped
<1>2. u.kind = "Table" /\ u.slots = [t.slots EXCEPT ![i] = v]
  BY <1>1
<1>3. u.fill = t.fill /\ u.used = t.used + 1
  BY <1>1
<1>4. u \in [kind : {u.kind}, slots : {u.slots}, fill : {u.fill}, used : {u.used}]
  BY <1>1
<1>5. u = [kind |-> u.kind, slots |-> u.slots, fill |-> u.fill, used |-> u.used]
  BY <1>4
<1> QED
  BY <1>2, <1>3, <1>5, Zenon

(* A value put in an empty slot. *)
LEMMA PutIn ==
    ASSUME NEW t, Shaped(t), NEW i, NEW v, NEW u, u = [t EXCEPT !.slots[i] = v, !.fill = @ + 1, !.used = @ + 1]
    PROVE  u = [kind |-> "Table", slots |-> [t.slots EXCEPT ![i] = v], fill |-> t.fill + 1, used |-> t.used + 1]
<1>1. t = [kind |-> "Table", slots |-> t.slots, fill |-> t.fill, used |-> t.used]
  BY DEF Shaped
<1>2. u.kind = "Table" /\ u.slots = [t.slots EXCEPT ![i] = v]
  BY <1>1
<1>3. u.fill = t.fill + 1 /\ u.used = t.used + 1
  BY <1>1
<1>4. u \in [kind : {u.kind}, slots : {u.slots}, fill : {u.fill}, used : {u.used}]
  BY <1>1
<1>5. u = [kind |-> u.kind, slots |-> u.slots, fill |-> u.fill, used |-> u.used]
  BY <1>4
<1> QED
  BY <1>2, <1>3, <1>5, Zenon

(* A value taken out of its slot. *)
LEMMA TakenOut ==
    ASSUME NEW t, Shaped(t), NEW i, NEW u, u = [t EXCEPT !.slots[i] = Dummy, !.used = @ - 1]
    PROVE  u = [kind |-> "Table", slots |-> [t.slots EXCEPT ![i] = Dummy], fill |-> t.fill, used |-> t.used - 1]
<1>1. t = [kind |-> "Table", slots |-> t.slots, fill |-> t.fill, used |-> t.used]
  BY DEF Shaped
<1>2. u.kind = "Table" /\ u.slots = [t.slots EXCEPT ![i] = Dummy]
  BY <1>1
<1>3. u.fill = t.fill /\ u.used = t.used - 1
  BY <1>1
<1>4. u \in [kind : {u.kind}, slots : {u.slots}, fill : {u.fill}, used : {u.used}]
  BY <1>1
<1>5. u = [kind |-> u.kind, slots |-> u.slots, fill |-> u.fill, used |-> u.used]
  BY <1>4
<1> QED
  BY <1>2, <1>3, <1>5, Zenon

(* A table given counters. *)
LEMMA Recounted ==
    ASSUME NEW t, Shaped(t), NEW c, NEW u, u = [t EXCEPT !.fill = c, !.used = c]
    PROVE  u = [kind |-> "Table", slots |-> t.slots, fill |-> c, used |-> c]
<1>1. t = [kind |-> "Table", slots |-> t.slots, fill |-> t.fill, used |-> t.used]
  BY DEF Shaped
<1>2. u.kind = "Table" /\ u.slots = t.slots
  BY <1>1
<1>3. u.fill = c /\ u.used = c
  BY <1>1
<1>4. u \in [kind : {u.kind}, slots : {u.slots}, fill : {u.fill}, used : {u.used}]
  BY <1>1
<1>5. u = [kind |-> u.kind, slots |-> u.slots, fill |-> u.fill, used |-> u.used]
  BY <1>4
<1> QED
  BY <1>2, <1>3, <1>5, Zenon

(* A value put where a lookup of it passes, in a slot that holds none, leaves *)
(* the table sound.                                                           *)
LEMMA PutSound ==
    ASSUME NEW t, Shaped(t), Sound(t), NEW v \in Hashed, ~ HasEq(Acts(t), v),
           NEW p, Passes(t, v, p), ~ IsActive(t, Path(t, v)[p]),
           NEW u, Mask(u) = Mask(t), u.slots = [t.slots EXCEPT ![Path(t, v)[p]] = v]
    PROVE  /\ Sound(u) /\ Acts(u) = Acts(t) \cup {v}
           /\ Used(u) = Used(t) \cup {Path(t, v)[p]} /\ Path(t, v)[p] \notin Used(t)
           /\ Filled(u) = Filled(t) \cup {Path(t, v)[p]}
           /\ Path(t, v)[p] \in DOMAIN t.slots /\ u.slots \in [DOMAIN t.slots -> Slots]
<1> DEFINE i == Path(t, v)[p]
           sl == u.slots
<1>1. i \in DOMAIN t.slots /\ p \in 1 .. Len(Path(t, v)) /\ Len(Path(t, v)) \in Nat
  BY PathFacts DEF Passes
<1>2. v \in Values /\ v # Empty /\ v # Dummy /\ v \in Slots
  BY ValuesAssumption DEF Hashed, Slots
<1>3. t.slots \in [DOMAIN t.slots -> Slots]
  BY TableShape
<1> HIDE DEF i
<1>4. sl = [t.slots EXCEPT ![i] = v]
  BY DEF i
<1>5. /\ sl \in [DOMAIN t.slots -> Slots] /\ DOMAIN sl = DOMAIN t.slots /\ sl[i] = v
      /\ \A j \in DOMAIN t.slots : j # i => sl[j] = t.slots[j]
  BY <1>1, <1>2, <1>3, <1>4
<1> HIDE DEF sl
<1>6. \A w : Path(u, w) = Path(t, w)
  BY DEF Path
<1>7. Used(u) = Used(t) \cup {i} /\ i \notin Used(t)
  <2>1. \A j : j \in Used(u) <=> j \in DOMAIN sl /\ sl[j] \notin {Empty, Dummy}
    BY DEF Used, IsActive, sl
  <2>2. \A j : j \in Used(t) <=> j \in DOMAIN t.slots /\ t.slots[j] \notin {Empty, Dummy}
    BY DEF Used, IsActive
  <2>3. i \notin Used(t)
    BY DEF Used, i
  <2> QED
    BY <1>1, <1>2, <1>5, <2>1, <2>2, <2>3
<1>8. Filled(u) = Filled(t) \cup {i}
  <2>1. \A j : j \in Filled(u) <=> j \in DOMAIN sl /\ sl[j] # Empty
    BY DEF Filled, sl
  <2>2. \A j : j \in Filled(t) <=> j \in DOMAIN t.slots /\ t.slots[j] # Empty
    BY DEF Filled
  <2> QED
    BY <1>1, <1>2, <1>5, <2>1, <2>2
<1>9. \A j \in Used(t) : j \in DOMAIN t.slots /\ j # i /\ sl[j] = t.slots[j]
  BY <1>5, <1>7 DEF Used
<1>10. Acts(u) = Acts(t) \cup {v}
  <2>1. \A w : w \in Acts(u) <=> \E j \in Used(u) : w = sl[j]
    BY DEF Acts, sl
  <2>2. \A w : w \in Acts(t) <=> \E j \in Used(t) : w = t.slots[j]
    BY DEF Acts
  <2> QED
    BY <1>5, <1>7, <1>9, <2>1, <2>2
<1>11. ASSUME NEW j \in Used(u), NEW k \in Used(u), Eq(sl[j], sl[k]) PROVE j = k
  <2>1. \A a \in Used(t) : ~ Eq(sl[a], v) /\ ~ Eq(v, sl[a])
    BY <1>9 DEF HasEq, Acts, Eq
  <2>2. \A a, b \in Used(t) : Eq(sl[a], sl[b]) => a = b
    BY <1>9 DEF Sound
  <2> QED
    BY <1>5, <1>7, <1>11, <2>1, <2>2
<1>12. ASSUME NEW w, NEW q, Passes(t, w, q), NEW a, a = Path(t, w)[q],
              \A b \in 1 .. Len(Path(t, w)) : Path(t, w)[b] \in DOMAIN t.slots, Len(Path(t, w)) \in Nat
       PROVE  Reaches(u, w, a)
  <2>1. q \in 1 .. Len(Path(t, w)) /\ \A b \in 1 .. (q - 1) : t.slots[Path(t, w)[b]] # Empty
    BY <1>12 DEF Passes
  <2>2. ASSUME NEW b \in 1 .. (q - 1) PROVE sl[Path(t, w)[b]] # Empty
    <3>1. b \in 1 .. Len(Path(t, w))
      BY <1>12, <2>1
    <3> QED
      BY <1>2, <1>5, <1>12, <2>1, <3>1
  <2>3. Passes(u, w, q)
    BY <1>6, <2>1, <2>2 DEF Passes, sl
  <2> QED
    BY <1>6, <1>12, <2>1, <2>3 DEF Reaches
<1>13. ASSUME NEW w \in Hashed
       PROVE  /\ \A b \in 1 .. Len(Path(t, w)) : Path(t, w)[b] \in DOMAIN t.slots
              /\ Len(Path(t, w)) \in Nat
  BY PathFacts
<1>14. ASSUME NEW j \in Used(u) PROVE Reaches(u, sl[j], j)
  <2>1. CASE j = i
    <3>1. sl[j] = v
      BY <1>5, <2>1
    <3> QED
      BY <1>12, <1>13, <2>1, <3>1 DEF i
  <2>2. CASE j # i
    <3>1. j \in Used(t) /\ sl[j] = t.slots[j]
      BY <1>7, <1>9, <2>2
    <3>2. t.slots[j] \in Hashed
      BY <3>1, TableShape DEF Used
    <3>3. PICK q \in 1 .. Len(Path(t, t.slots[j])) : Path(t, t.slots[j])[q] = j /\ Passes(t, t.slots[j], q)
      BY <3>1 DEF Sound, Reaches
    <3> QED
      BY <1>12, <1>13, <3>1, <3>2, <3>3
  <2> QED
    BY <2>1, <2>2
<1>15. Sound(u)
  BY <1>11, <1>14 DEF Sound, sl
<1> QED
  BY <1>1, <1>5, <1>7, <1>8, <1>10, <1>15 DEF i, sl

(* A slot whose value is taken out becomes a dummy, and the table stays sound. *)
LEMMA ClearSound ==
    ASSUME NEW t, Shaped(t), Sound(t), NEW i \in Used(t),
           NEW u, Mask(u) = Mask(t), u.slots = [t.slots EXCEPT ![i] = Dummy]
    PROVE  /\ Sound(u) /\ Acts(u) = Acts(t) \ {t.slots[i]}
           /\ Used(u) = Used(t) \ {i} /\ Filled(u) = Filled(t)
           /\ u.slots \in [DOMAIN t.slots -> Slots]
<1> DEFINE sl == u.slots
<1>1. i \in DOMAIN t.slots /\ t.slots[i] # Empty
  BY DEF Used, IsActive
<1>2. Dummy # Empty /\ Dummy \in Slots
  BY ValuesAssumption DEF Slots
<1>3. t.slots \in [DOMAIN t.slots -> Slots]
  BY TableShape
<1>5. /\ sl \in [DOMAIN t.slots -> Slots] /\ DOMAIN sl = DOMAIN t.slots /\ sl[i] = Dummy
      /\ \A j \in DOMAIN t.slots : j # i => sl[j] = t.slots[j]
  BY <1>1, <1>2, <1>3
<1> HIDE DEF sl
<1>6. \A w : Path(u, w) = Path(t, w)
  BY DEF Path
<1>7. Used(u) = Used(t) \ {i}
  <2>1. \A j : j \in Used(u) <=> j \in DOMAIN sl /\ sl[j] \notin {Empty, Dummy}
    BY DEF Used, IsActive, sl
  <2>2. \A j : j \in Used(t) <=> j \in DOMAIN t.slots /\ t.slots[j] \notin {Empty, Dummy}
    BY DEF Used, IsActive
  <2> QED
    BY <1>1, <1>2, <1>5, <2>1, <2>2
<1>8. Filled(u) = Filled(t)
  <2>1. \A j : j \in Filled(u) <=> j \in DOMAIN sl /\ sl[j] # Empty
    BY DEF Filled, sl
  <2>2. \A j : j \in Filled(t) <=> j \in DOMAIN t.slots /\ t.slots[j] # Empty
    BY DEF Filled
  <2> QED
    BY <1>1, <1>2, <1>5, <2>1, <2>2
<1>9. \A j \in Used(u) : j \in Used(t) /\ sl[j] = t.slots[j]
  BY <1>5, <1>7 DEF Used
<1>10. \A j, k \in Used(t) : Eq(t.slots[j], t.slots[k]) => j = k
  BY DEF Sound
<1>11. Acts(u) = Acts(t) \ {t.slots[i]}
  <2>1. \A w : w \in Acts(u) <=> \E j \in Used(u) : w = sl[j]
    BY DEF Acts, sl
  <2>2. \A w : w \in Acts(t) <=> \E j \in Used(t) : w = t.slots[j]
    BY DEF Acts
  <2>3. \A j \in Used(t) : t.slots[j] = t.slots[i] => j = i
    BY <1>10 DEF Eq
  <2> QED
    BY <1>7, <1>9, <2>1, <2>2, <2>3
<1>12. ASSUME NEW j \in Used(u) PROVE Reaches(u, sl[j], j)
  <2> DEFINE w == t.slots[j]
  <2>1. j \in Used(t) /\ sl[j] = w
    BY <1>9
  <2>2. w \in Hashed
    BY <2>1, TableShape DEF Used
  <2>3. Path(t, w) \in Seq(DOMAIN t.slots) /\ Len(Path(t, w)) \in Nat
    BY <2>2, PathFacts
  <2>4. PICK q \in 1 .. Len(Path(t, w)) : Path(t, w)[q] = j /\ Passes(t, w, q)
    BY <2>1 DEF Sound, Reaches
  <2> HIDE DEF w
  <2>5. ASSUME NEW b \in 1 .. (q - 1) PROVE sl[Path(t, w)[b]] # Empty
    <3>1. b \in 1 .. Len(Path(t, w)) /\ Path(t, w)[b] \in DOMAIN t.slots
      BY <2>3
    <3> QED
      BY <1>2, <1>5, <2>4, <3>1 DEF Passes
  <2>6. Passes(u, w, q)
    BY <1>6, <2>4, <2>5 DEF Passes, sl
  <2> QED
    BY <1>6, <2>1, <2>4, <2>6 DEF Reaches
<1>13. Sound(u)
  BY <1>9, <1>10, <1>12 DEF Sound, sl
<1> QED
  BY <1>5, <1>7, <1>8, <1>11, <1>13 DEF sl

(* A table with no value and no dummy in it. *)
Blank(t) == \A i \in DOMAIN t.slots : t.slots[i] = Empty

(* A blank table holds nothing, and nothing in it can be out of reach. *)
LEMMA BlankSound ==
    ASSUME NEW t, Blank(t)
    PROVE  Sound(t) /\ Used(t) = {} /\ Filled(t) = {} /\ Acts(t) = {}
<1>1. Used(t) = {} /\ Filled(t) = {}
  BY DEF Blank, Used, Filled, IsActive
<1> QED
  BY <1>1 DEF Sound, Acts

(* insert_clean puts the value in the first empty slot its lookup meets. *)
LEMMA InsertClean ==
    ASSUME NEW t, Shaped(t), Sound(t), Room(t), NEW v \in Hashed, ~ HasEq(Acts(t), v),
           NEW u, u = insert_clean(t, v)
    PROVE  /\ Shaped(u) /\ Sound(u) /\ Mask(u) = Mask(t) /\ u.fill = t.fill /\ u.used = t.used
           /\ Acts(u) = Acts(t) \cup {v}
           /\ \E i : i \notin Filled(t) /\ Filled(u) = Filled(t) \cup {i} /\ Used(u) = Used(t) \cup {i}
<1> DEFINE s == Path(t, v)
           I == {k \in 1 .. Len(s) : t.slots[s[k]] = Empty}
           p == SelectInSeq(s, LAMBDA i : t.slots[i] = Empty)
           i == s[p]
<1>1. /\ s \in Seq(DOMAIN t.slots) /\ Len(s) \in Nat
      /\ \A j \in DOMAIN t.slots : \E k \in 1 .. Len(s) : s[k] = j
  BY PathFacts
<1>2. p = IF I # {} THEN Min(I) ELSE 0
  BY DEF SelectInSeq
<1>3. u = IF p = 0 THEN t ELSE [t EXCEPT !.slots[i] = v]
  BY DEF insert_clean, Path
<1> HIDE DEF s
<1>4. I # {} /\ I \subseteq Nat \ {0} /\ I \subseteq 1 .. Len(s)
  <2>1. PICK j \in DOMAIN t.slots : t.slots[j] = Empty
    BY DEF Room
  <2> QED
    BY SMTT(30), <1>1, <2>1
<1>5. Min(I) \in I /\ \A j \in Nat \ {0} : j < Min(I) => j \notin I
  BY <1>4, FirstPlace
<1>6. p \in I /\ p # 0 /\ \A j \in 1 .. (p - 1) : j \in Nat \ {0} /\ j < p /\ j \notin I
  <2>1. p = Min(I)
    BY <1>2, <1>4
  <2>2. p \in I /\ p \in Nat \ {0} /\ \A j \in Nat \ {0} : j < p => j \notin I
    BY <1>4, <1>5, <2>1
  <2> HIDE DEF p, I
  <2> QED
    BY <2>2
<1>7. p \in 1 .. Len(s) /\ t.slots[i] = Empty
  BY <1>6
<1> HIDE DEF p
<1>8. Passes(t, v, p)
  <2>1. ASSUME NEW j \in 1 .. (p - 1) PROVE t.slots[s[j]] # Empty
    <3>1. j \in 1 .. Len(s)
      BY <1>1, <1>7
    <3> QED
      BY <1>6, <3>1
  <2> QED
    BY <1>7, <2>1 DEF Passes, s
<1> HIDE DEF I, i
<1>9. i \in DOMAIN t.slots /\ ~ IsActive(t, i) /\ i \notin Filled(t)
  BY SMTT(30), <1>1, <1>7 DEF IsActive, Filled, i
<1> DEFINE sl == [t.slots EXCEPT ![i] = v]
<1>10. u = [kind |-> "Table", slots |-> sl, fill |-> t.fill, used |-> t.used] /\ t.fill \in Nat /\ t.used \in Nat
  <2>1. t = [kind |-> "Table", slots |-> t.slots, fill |-> t.fill, used |-> t.used]
    BY DEF Shaped
  <2>2. u = [t EXCEPT !.slots[i] = v]
    BY <1>3, <1>6
  <2> QED
    BY <2>1, <2>2 DEF Shaped
<1>11. sl \in [DOMAIN t.slots -> Slots]
  BY <1>9, TableShape DEF Slots
<1>12. Shaped(u) /\ u.slots = sl /\ u.fill = t.fill /\ u.used = t.used /\ Mask(u) = Mask(t)
  <2> HIDE DEF sl
  <2> QED
    BY <1>10, <1>11, RemadeTable
<1>13. /\ Sound(u) /\ Acts(u) = Acts(t) \cup {v}
       /\ Used(u) = Used(t) \cup {i} /\ Filled(u) = Filled(t) \cup {i}
  BY <1>8, <1>9, <1>12, PutSound DEF i, s
<1> QED
  BY <1>9, <1>12, <1>13

(* InsertAll puts different values in an empty table. *)
LEMMA InsertAllFacts ==
    ASSUME NEW t, Shaped(t), Blank(t), NEW items \in Seq(Hashed), NoDuplicates(items),
           Len(items) <= Mask(t), NEW u, u = InsertAll(t, items)
    PROVE  /\ Shaped(u) /\ Sound(u) /\ Mask(u) = Mask(t) /\ u.fill = t.fill /\ u.used = t.used
           /\ Acts(u) = ToSet(items)
           /\ Cardinality(Used(u)) = Len(items) /\ Cardinality(Filled(u)) = Len(items)
<1> DEFINE N == Len(items)
           Upto(k) == {items[j] : j \in 1 .. k}
<1>0. N \in Nat /\ DOMAIN items = 1 .. N /\ Mask(t) \in Nat
  BY TableShape
<1>1. PICK g : /\ g[0] = t /\ InsertAll(t, items) = g[N]
               /\ \A k \in 1 .. N : g[k] = insert_clean(g[k - 1], items[k])
  BY <1>0, InsertAllRun
<1> DEFINE P(k) == /\ Shaped(g[k]) /\ Sound(g[k]) /\ Mask(g[k]) = Mask(t)
                   /\ g[k].fill = t.fill /\ g[k].used = t.used /\ Acts(g[k]) = Upto(k)
                   /\ Cardinality(Used(g[k])) = k /\ Cardinality(Filled(g[k])) = k
           T == {k \in 0 .. N : P(k)}
<1>2. 0 \in T
  <2>1. Upto(0) = {}
    OBVIOUS
  <2>2. P(0)
    BY <1>1, <2>1, BlankSound, FS_EmptySet
  <2> HIDE DEF P
  <2> QED
    BY <1>0, <2>2
<1>3. ASSUME NEW k \in 0 .. (N - 1), k \in T PROVE k + 1 \in T
  <2> DEFINE a == g[k]
             b == g[k + 1]
             x == items[k + 1]
  <2>1. /\ Shaped(a) /\ Sound(a) /\ Mask(a) = Mask(t) /\ a.fill = t.fill /\ a.used = t.used
        /\ Acts(a) = Upto(k) /\ Cardinality(Used(a)) = k /\ Cardinality(Filled(a)) = k
    BY <1>3
  <2>2. k + 1 \in 1 .. N /\ (k + 1) - 1 = k /\ k \in Nat /\ k <= Mask(t)
    BY <1>0
  <2>3. b = insert_clean(a, x)
    BY <1>1, <2>2
  <2>4. x \in Hashed
    BY <1>0, <2>2
  <2>5. Room(a)
    BY <2>1, <2>2, NotFull
  <2>6. ~ HasEq(Upto(k), x)
    <3> SUFFICES ASSUME NEW j \in 1 .. k, Eq(items[j], x) PROVE FALSE
      BY DEF HasEq
    <3>1. j \in 1 .. N /\ j # k + 1
      BY <2>2
    <3> QED
      BY <1>0, <2>2, <3>1 DEF NoDuplicates
  <2>7. Upto(k + 1) = Upto(k) \cup {x}
    <3>1. 1 .. (k + 1) = (1 .. k) \cup {k + 1}
      BY <2>2
    <3> QED
      BY <3>1
  <2> HIDE DEF a, b, x, Upto
  <2>8. /\ Shaped(b) /\ Sound(b) /\ Mask(b) = Mask(a) /\ b.fill = a.fill /\ b.used = a.used
        /\ Acts(b) = Acts(a) \cup {x}
        /\ \E i : i \notin Filled(a) /\ Filled(b) = Filled(a) \cup {i} /\ Used(b) = Used(a) \cup {i}
    BY <2>1, <2>3, <2>4, <2>5, <2>6, InsertClean
  <2>9. PICK i : i \notin Filled(a) /\ Filled(b) = Filled(a) \cup {i} /\ Used(b) = Used(a) \cup {i}
    BY <2>8
  <2>10. IsFiniteSet(Used(a)) /\ IsFiniteSet(Filled(a)) /\ i \notin Used(a)
    BY <2>1, <2>9, UsedFilled
  <2>11. Cardinality(Used(b)) = k + 1 /\ Cardinality(Filled(b)) = k + 1
    <3>1. /\ Cardinality(Used(a) \cup {i}) = Cardinality(Used(a)) + 1
          /\ Cardinality(Filled(a) \cup {i}) = Cardinality(Filled(a)) + 1
      BY <2>9, <2>10, FS_AddElement
    <3> QED
      BY <2>1, <2>9, <3>1
  <2>12. P(k + 1)
    BY <2>1, <2>7, <2>8, <2>11 DEF b
  <2> HIDE DEF P
  <2> QED
    BY <1>0, <2>2, <2>12
<1> HIDE DEF P
<1>4. \A k \in 0 .. N : k \in T
  BY <1>0, <1>2, <1>3, UpTo
<1>5. P(N)
  BY <1>0, <1>4
<1>6. Upto(N) = ToSet(items)
  BY <1>0 DEF ToSet
<1> QED
  BY <1>1, <1>5, <1>6 DEF P

(* A table in the shape an operation must leave it in. *)
Whole(t) == Shaped(t) /\ Counted(t) /\ Light(t) /\ Sound(t)

(* The parts named here say what the invariant of the module says of a table. *)
LEMMA WholeIs ==
    ASSUME NEW t
    PROVE  /\ Whole(t) <=> Shaped(t) /\ Intact(t)
           /\ Whole(t) => IsTable(t) /\ IsBody(t)
           /\ IsTable(t) /\ IsBody(t) => Whole(t)
<1>1. Whole(t) <=> Shaped(t) /\ Intact(t)
  BY IntactIs DEF Whole
<1>2. Shaped(t) => IsTable(t)
  <2> SUFFICES ASSUME Shaped(t) PROVE IsTable(t)
    OBVIOUS
  <2>1. t = [kind |-> "Table", slots |-> t.slots, fill |-> t.fill, used |-> t.used]
    BY DEF Shaped
  <2>2. t.kind = "Table"
    BY <2>1
  <2> QED
    BY <2>2 DEF IsTable
<1> QED
  BY <1>1, <1>2 DEF IsBody

(* Values put in an empty table that has room for them make a whole one. *)
LEMMA InsertedWhole ==
    ASSUME NEW t, Shaped(t), Blank(t), NEW items \in Seq(Hashed), NoDuplicates(items),
           t.fill = Len(items), t.used = Len(items), Len(items) * 5 < Mask(t) * 3,
           NEW u, u = InsertAll(t, items)
    PROVE  /\ Whole(u) /\ Acts(u) = ToSet(items) /\ Mask(u) = Mask(t)
           /\ u.fill = Len(items) /\ u.used = Len(items)
<1> DEFINE n == Len(items)
           m == Mask(t)
<1>1. n \in Nat /\ m \in Nat /\ n * 5 < m * 3
  BY TableShape
<1>2. n <= m
  <2> HIDE DEF n, m
  <2> QED
    BY <1>1
<1> QED
  BY <1>2, InsertAllFacts DEF Whole, Counted, Light

-----------------------------------------------------------------------------
(* Resizing, adding, discarding *)

(* The set after a value is added, and after it is discarded. *)
Plus(S, v) == IF HasEq(S, v) THEN S ELSE S \cup {v}
Minus(S, v) == {w \in S : ~ Eq(w, v)}

(* The table a resize fills, and a table without the value of slot i. *)
Fresh(n, f) == [with_capacity(n) EXCEPT !.fill = f, !.used = f]
LessSlot(t, i) == [t EXCEPT !.slots[i] = Dummy, !.used = @ - 1]

(* A fresh table is empty. *)
LEMMA FreshTable ==
    ASSUME NEW n \in Sizes, NEW f \in Nat, NEW t, t = Fresh(n, f)
    PROVE  Shaped(t) /\ Blank(t) /\ Mask(t) = n - 1 /\ n - 1 \in Nat \ {0} /\ t.fill = f /\ t.used = f
<1> DEFINE m == n - 1
           sl == [i \in 0 .. m |-> Empty]
<1>1. m \in Masks
  BY DEF Masks
<1>2. sl \in [0 .. m -> Slots] /\ DOMAIN sl = 0 .. m
  BY DEF Slots
<1>3. t = [kind |-> "Table", slots |-> sl, fill |-> f, used |-> f]
  <2>1. with_capacity(n) = [kind |-> "Table", slots |-> sl, fill |-> 0, used |-> 0]
    BY DEF with_capacity
  <2> DEFINE c == with_capacity(n)
  <2> HIDE DEF sl, m
  <2>2. Shaped(c) /\ c.slots = sl
    BY <1>1, <1>2, <2>1, MadeTable
  <2>3. t = [kind |-> "Table", slots |-> c.slots, fill |-> f, used |-> f]
    <3>1. t = [c EXCEPT !.fill = f, !.used = f]
      BY DEF Fresh
    <3> HIDE DEF c
    <3> QED
      BY <2>2, <3>1, Recounted
  <2> QED
    BY <2>2, <2>3
<1>4. Shaped(t) /\ t.slots = sl /\ t.fill = f /\ t.used = f
  <2> HIDE DEF sl, m
  <2> QED
    BY <1>1, <1>2, <1>3, MadeTable
<1>5. Blank(t)
  BY <1>4 DEF Blank
<1>6. m \in Nat \ {0}
  <2> HIDE DEF m
  <2> QED
    BY <1>1, MaskFacts
<1>7. Mask(t) = m
  <2>1. DOMAIN t.slots = 0 .. m
    BY <1>2, <1>4
  <2>2. Mask(t) \in Nat /\ DOMAIN t.slots = 0 .. Mask(t)
    BY <1>4, TableShape
  <2>3. m \in 0 .. Mask(t) /\ Mask(t) \in 0 .. m
    BY <1>6, <2>1, <2>2
  <2> HIDE DEF m
  <2> QED
    BY <1>6, <2>2, <2>3
<1> QED
  BY <1>4, <1>5, <1>6, <1>7

(* The size chosen is a table's and more than was asked for. *)
LEMMA NewSizeFacts ==
    ASSUME NEW n \in Nat, n < Pow2[MaxBits]
    PROVE  NewSize(n) \in Sizes /\ NewSize(n) > n
<1> DEFINE C == {k \in Sizes : k > n}
<1>1. Pow2[MaxBits] \in Sizes
  BY SizesAssumption DEF Sizes
<1>2. Sizes \subseteq Nat
  <2>1. \A k \in MinBits .. MaxBits : k \in Nat
    BY SizesAssumption
  <2> QED
    BY <2>1, Powers DEF Sizes
<1>3. C \subseteq Nat /\ C # {}
  BY <1>1, <1>2
<1>4. PICK x \in C : \A y \in C : x <= y
  BY <1>3, LeastNumber
<1>5. x \in Sizes /\ x > n /\ \A m \in Sizes : m > n => x <= m
  BY <1>4
<1>6. \E k \in Sizes : k > n /\ \A m \in Sizes : m > n => k <= m
  BY <1>5
<1> QED
  BY <1>6 DEF NewSize

(* resize keeps the values, in a whole table larger than asked for. *)
LEMMA ResizeFacts ==
    ASSUME NEW t, Shaped(t), Counted(t), Sound(t),
           NEW n \in Nat, n >= 2 * t.used, n < Pow2[MaxBits], NEW u, u = resize(t, n)
    PROVE  Whole(u) /\ Acts(u) = Acts(t) /\ Mask(u) >= n /\ u.fill = t.used /\ u.used = t.used
<1> DEFINE size == NewSize(n)
           c == t.used
           items == Actives(t)
           fresh == Fresh(size, c)
           m == Mask(fresh)
<1>1. size \in Sizes /\ size > n
  BY NewSizeFacts
<1>2. c \in Nat /\ c = Cardinality(Used(t))
  BY DEF Shaped, Counted
<1>3. u = InsertAll(fresh, items)
  BY DEF resize, Fresh
<1>4. items \in Seq(Hashed) /\ ToSet(items) = Acts(t) /\ Len(items) = c /\ NoDuplicates(items)
  BY <1>2, ActivesFacts
<1> HIDE DEF size, items
<1>5. Shaped(fresh) /\ Blank(fresh) /\ m = size - 1 /\ size - 1 \in Nat \ {0} /\ fresh.fill = c /\ fresh.used = c
  <2> HIDE DEF c
  <2> QED
    BY <1>1, <1>2, FreshTable
<1> HIDE DEF fresh, m
<1>6. m >= n /\ c * 5 < m * 3
  <2>1. size \in Int /\ m = size - 1 /\ m >= 1 /\ c \in Nat /\ n >= 2 * c /\ size > n
    <3>1. size \in Nat
      <4>1. \A k \in MinBits .. MaxBits : k \in Nat
        BY SizesAssumption
      <4> QED
        BY <1>1, <4>1, Powers DEF Sizes
    <3> QED
      BY <1>1, <1>2, <1>5, <3>1
  <2> HIDE DEF c
  <2> QED
    BY <2>1
<1>7. /\ Whole(u) /\ Acts(u) = ToSet(items) /\ Mask(u) = Mask(fresh)
      /\ u.fill = Len(items) /\ u.used = Len(items)
  BY <1>3, <1>4, <1>5, <1>6, InsertedWhole DEF m
<1> QED
  BY <1>4, <1>6, <1>7 DEF m

(* The sizes asked for are enough, and within the bound. *)
LEMMA MinUsedFacts ==
    ASSUME NEW t, Shaped(t), Counted(t), Sound(t)
    PROVE  /\ MinUsed(t) \in Nat /\ MinUsed(t) >= 2 * t.used /\ MinUsed(t) < Pow2[MaxBits]
           /\ t.used \in Nat /\ 4 * t.used < Pow2[MaxBits]
<1> DEFINE c == t.used
           w == Cardinality(Values)
           b == Pow2[MaxBits]
<1>1. c \in Nat /\ c <= w /\ w \in Nat
  BY UsedBounded DEF Shaped, Counted
<1>2. b \in Nat /\ b > 4 * w
  BY RoomAssumption, Powers, SizesAssumption
<1>3. MinUsed(t) = IF c > BigUsed THEN c * 2 ELSE c * 4
  BY DEF MinUsed
<1> HIDE DEF c, w, b
<1>4. MinUsed(t) \in Nat /\ MinUsed(t) >= 2 * c /\ MinUsed(t) < b /\ 4 * c < b
  BY <1>1, <1>2, <1>3
<1> QED
  BY <1>1, <1>4 DEF c, b

(* maybe_resize and TableCompact keep the values and leave a whole table. *)
LEMMA ShrinkFacts ==
    ASSUME NEW t, Shaped(t), Counted(t), Sound(t)
    PROVE  /\ Whole(maybe_resize(t)) /\ Acts(maybe_resize(t)) = Acts(t)
           /\ Light(t) => Whole(TableCompact(t)) /\ Acts(TableCompact(t)) = Acts(t)
<1>1. /\ Whole(resize(t, MinUsed(t))) /\ Acts(resize(t, MinUsed(t))) = Acts(t)
  BY MinUsedFacts, ResizeFacts
<1>2. Light(t) => Whole(t)
  BY DEF Whole
<1>3. maybe_resize(t) = IF Light(t) THEN t ELSE resize(t, MinUsed(t))
  BY DEF maybe_resize, Light
<1>4. TableCompact(t) = t \/ TableCompact(t) = resize(t, MinUsed(t))
  BY DEF TableCompact
<1> QED
  BY <1>1, <1>2, <1>3, <1>4

(* A value that is not in the table is placed in it. *)
LEMMA PlaceFacts ==
    ASSUME NEW t, Whole(t), NEW v \in Hashed, ~ HasEq(Acts(t), v), NEW p, Passes(t, v, p),
           t.slots[Path(t, v)[p]] = Empty, NEW u, u = Place(t, v, p)
    PROVE  Whole(u) /\ Acts(u) = Acts(t) \cup {v}
<1> DEFINE s == Path(t, v)
           dummies == {j \in 1 .. p : t.slots[s[j]] = Dummy}
           d == CHOOSE j \in dummies : \A k \in dummies : k <= j
           reused == [t EXCEPT !.slots[s[d]] = v, !.used = @ + 1]
           taken == [t EXCEPT !.slots[s[p]] = v, !.fill = @ + 1, !.used = @ + 1]
<1>1. Shaped(t) /\ Counted(t) /\ Light(t) /\ Sound(t)
  BY DEF Whole
<1>2. u = IF dummies # {} THEN reused ELSE maybe_resize(taken)
  BY DEF Place, Path
<1>3. s \in Seq(DOMAIN t.slots) /\ Len(s) \in Nat
  BY <1>1, PathFacts
<1>4. p \in 1 .. Len(s) /\ \A j \in 1 .. (p - 1) : t.slots[s[j]] # Empty
  BY DEF Passes
<1>5. t.fill \in Nat /\ t.used \in Nat /\ t = [kind |-> "Table", slots |-> t.slots, fill |-> t.fill, used |-> t.used]
  BY <1>1 DEF Shaped
<1>6. IsFiniteSet(Used(t)) /\ IsFiniteSet(Filled(t))
  BY <1>1, UsedFilled
<1>7. v \in Slots /\ t.slots \in [DOMAIN t.slots -> Slots]
  BY <1>1, TableShape DEF Slots
<1> HIDE DEF s
<1>8. CASE dummies # {}
  <2> DEFINE i == s[d]
             sl == [t.slots EXCEPT ![i] = v]
  <2>1. d \in dummies
    <3>1. dummies \subseteq 1 .. p /\ p \in Nat
      BY <1>3, <1>4
    <3> HIDE DEF dummies
    <3> DEFINE M == {p - j : j \in dummies}
    <3>6. \A j \in dummies : j \in Nat /\ p - j \in Nat
      BY <3>1
    <3>2. M \subseteq Nat /\ M # {}
      BY <1>8, <3>6
    <3>3. PICK x \in M : \A y \in M : x <= y
      BY <3>2, LeastNumber
    <3>4. PICK j \in dummies : x = p - j
      BY <3>3
    <3>5. ASSUME NEW k \in dummies PROVE k <= j
      <4>1. p - j <= p - k
        BY <3>3, <3>4
      <4> QED
        BY <3>1, <3>6, <4>1
    <3> QED
      BY <3>5
  <2> HIDE DEF d
  <2>2. d \in 1 .. p /\ t.slots[i] = Dummy /\ d \in 1 .. Len(s) /\ i \in DOMAIN t.slots
    BY <1>3, <1>4, <2>1
  <2>3. Passes(t, v, d) /\ ~ IsActive(t, i) /\ i \in Filled(t)
    <3>1. \A j \in 1 .. (d - 1) : j \in 1 .. (p - 1)
      BY <1>3, <1>4, <2>2
    <3>2. Passes(t, v, d)
      BY <1>4, <2>2, <3>1 DEF Passes, s
    <3> QED
      BY <2>2, <3>2, ValuesAssumption DEF IsActive, Filled
  <2> HIDE DEF dummies
  <2>4. u = [kind |-> "Table", slots |-> sl, fill |-> t.fill, used |-> t.used + 1]
    <3> HIDE DEF i
    <3>1. u = [t EXCEPT !.slots[i] = v, !.used = @ + 1]
      BY <1>2, <1>8 DEF i
    <3> QED
      BY <1>1, <3>1, PutBack
  <2>5. sl \in [DOMAIN t.slots -> Slots] /\ t.used + 1 \in Nat
    BY <1>5, <1>7, <2>2
  <2>6. Shaped(u) /\ u.slots = sl /\ u.fill = t.fill /\ u.used = t.used + 1 /\ Mask(u) = Mask(t)
    <3> HIDE DEF sl
    <3> QED
      BY <1>1, <1>5, <2>4, <2>5, RemadeTable
  <2>7. /\ Sound(u) /\ Acts(u) = Acts(t) \cup {v} /\ i \notin Used(t)
        /\ Used(u) = Used(t) \cup {i} /\ Filled(u) = Filled(t) \cup {i}
    BY <1>1, <2>3, <2>6, PutSound DEF s
  <2>8. Filled(u) = Filled(t)
    BY <2>3, <2>7
  <2>9. Cardinality(Used(t) \cup {i}) = Cardinality(Used(t)) + 1
    BY <1>6, <2>7, FS_AddElement
  <2>10. Counted(u) /\ Light(u)
    BY <1>1, <2>6, <2>7, <2>8, <2>9 DEF Counted, Light
  <2> QED
    BY <2>6, <2>7, <2>10 DEF Whole
<1>9. CASE dummies = {}
  <2> DEFINE i == s[p]
             sl == [t.slots EXCEPT ![i] = v]
  <2>1. u = maybe_resize(taken)
    BY <1>2, <1>9
  <2>2. i \in DOMAIN t.slots /\ ~ IsActive(t, i) /\ i \notin Filled(t)
    BY <1>3, <1>4 DEF IsActive, Filled, s
  <2> HIDE DEF dummies
  <2>3. taken = [kind |-> "Table", slots |-> sl, fill |-> t.fill + 1, used |-> t.used + 1]
    <3> HIDE DEF i
    <3>1. taken = [t EXCEPT !.slots[i] = v, !.fill = @ + 1, !.used = @ + 1]
      BY DEF i
    <3> QED
      BY <1>1, <3>1, PutIn
  <2>4. sl \in [DOMAIN t.slots -> Slots] /\ t.used + 1 \in Nat /\ t.fill + 1 \in Nat
    BY <1>5, <1>7, <2>2
  <2> HIDE DEF taken
  <2>5. Shaped(taken) /\ taken.slots = sl /\ taken.fill = t.fill + 1 /\ taken.used = t.used + 1 /\ Mask(taken) = Mask(t)
    <3> HIDE DEF sl
    <3> QED
      BY <1>1, <2>3, <2>4, RemadeTable
  <2>6. /\ Sound(taken) /\ Acts(taken) = Acts(t) \cup {v} /\ i \notin Used(t)
        /\ Used(taken) = Used(t) \cup {i} /\ Filled(taken) = Filled(t) \cup {i}
    BY <1>1, <2>2, <2>5, PutSound DEF s
  <2>7. /\ Cardinality(Used(t) \cup {i}) = Cardinality(Used(t)) + 1
        /\ Cardinality(Filled(t) \cup {i}) = Cardinality(Filled(t)) + 1
    BY <1>6, <2>2, <2>6, FS_AddElement
  <2>8. Counted(taken)
    BY <1>1, <2>5, <2>6, <2>7 DEF Counted
  <2> QED
    BY <2>1, <2>5, <2>6, <2>8, ShrinkFacts
<1> QED
  BY <1>8, <1>9

(* add puts a value in if no equal one is there. *)
LEMMA TableAddFacts ==
    ASSUME NEW t, Whole(t), NEW v \in Hashed
    PROVE  Whole(TableAdd(t, v)) /\ Acts(TableAdd(t, v)) = Plus(Acts(t), v)
<1> DEFINE e == LookupEnd(t, v)
<1>1. Shaped(t) /\ Counted(t) /\ Light(t) /\ Sound(t) /\ Room(t)
  BY LightHasRoom DEF Whole
<1>2. e # 0
  BY <1>1, LookupEnds
<1>3. TableContains(t, v) <=> HasEq(Acts(t), v)
  BY <1>1, Found
<1>4. TableAdd(t, v) = IF TableContains(t, v) THEN t ELSE Place(t, v, e)
  BY <1>2 DEF TableAdd
<1>5. CASE ~ TableContains(t, v)
  <2>1. t.slots[Path(t, v)[e]] = Empty /\ Passes(t, v, e)
    BY <1>1, <1>5, Found
  <2>2. Whole(Place(t, v, e)) /\ Acts(Place(t, v, e)) = Acts(t) \cup {v}
    BY <1>3, <1>5, <2>1, PlaceFacts
  <2> QED
    BY <1>3, <1>4, <1>5, <2>2 DEF Plus
<1> QED
  BY <1>3, <1>4, <1>5 DEF Plus

(* A value taken out of a whole table leaves a whole one. *)
LEMMA TakeOut ==
    ASSUME NEW t, Whole(t), NEW i \in Used(t), NEW u, u = LessSlot(t, i)
    PROVE  Whole(u) /\ Acts(u) = Acts(t) \ {t.slots[i]}
<1> DEFINE sl == [t.slots EXCEPT ![i] = Dummy]
<1>1. Shaped(t) /\ Counted(t) /\ Light(t) /\ Sound(t)
  BY DEF Whole
<1>2. IsFiniteSet(Used(t)) /\ i \in DOMAIN t.slots
  BY <1>1, UsedFilled
<1>3. Cardinality(Used(t) \ {i}) = Cardinality(Used(t)) - 1 /\ Cardinality(Used(t) \ {i}) \in Nat
  BY <1>2, FS_RemoveElement, FS_CardinalityType
<1>4. t.fill \in Nat /\ t.used \in Nat /\ t.used - 1 \in Nat
  BY <1>1, <1>3 DEF Shaped, Counted
<1>5. u = [kind |-> "Table", slots |-> sl, fill |-> t.fill, used |-> t.used - 1]
  BY <1>1, TakenOut DEF LessSlot
<1>6. sl \in [DOMAIN t.slots -> Slots]
  BY <1>1, <1>2, TableShape DEF Slots
<1>7. Shaped(u) /\ u.slots = sl /\ u.fill = t.fill /\ u.used = t.used - 1 /\ Mask(u) = Mask(t)
  <2> HIDE DEF sl
  <2> QED
    BY <1>1, <1>4, <1>5, <1>6, RemadeTable
<1>8. /\ Sound(u) /\ Acts(u) = Acts(t) \ {t.slots[i]}
      /\ Used(u) = Used(t) \ {i} /\ Filled(u) = Filled(t)
  BY <1>1, <1>7, ClearSound
<1>9. Counted(u) /\ Light(u)
  BY <1>1, <1>3, <1>7, <1>8 DEF Counted, Light
<1> QED
  BY <1>7, <1>8, <1>9 DEF Whole

(* discard takes out the value equal to v, if there is one. *)
LEMMA TableDiscardFacts ==
    ASSUME NEW t, Whole(t), NEW v \in Hashed
    PROVE  Whole(TableDiscard(t, v)) /\ Acts(TableDiscard(t, v)) = Minus(Acts(t), v)
<1> DEFINE e == LookupEnd(t, v)
           i == EndSlot(t, v, e)
<1>1. Shaped(t) /\ Sound(t) /\ Room(t)
  BY LightHasRoom DEF Whole
<1>2. /\ TableContains(t, v) <=> HasEq(Acts(t), v)
      /\ TableContains(t, v) => i \in Used(t) /\ Eq(t.slots[i], v)
  BY <1>1, Found
<1>3. TableDiscard(t, v) = IF TableContains(t, v) THEN LessSlot(t, i) ELSE t
  BY DEF TableDiscard, LessSlot
<1> HIDE DEF i
<1>4. CASE TableContains(t, v)
  <2>1. Whole(TableDiscard(t, v)) /\ Acts(TableDiscard(t, v)) = Acts(t) \ {t.slots[i]}
    BY <1>2, <1>3, <1>4, TakeOut
  <2>2. \A w \in Acts(t) : Eq(w, v) <=> w = t.slots[i]
    BY <1>1, <1>2, <1>4 DEF Acts, Sound, Eq
  <2> QED
    BY <2>1, <2>2 DEF Minus
<1>5. CASE ~ TableContains(t, v)
  <2>1. Minus(Acts(t), v) = Acts(t)
    BY <1>2, <1>5 DEF Minus, HasEq
  <2> QED
    BY <1>3, <1>5, <2>1
<1> QED
  BY <1>4, <1>5

(* pop takes out the first value the table yields. *)
LEMMA TablePopFacts ==
    ASSUME NEW t, Whole(t), t.used # 0
    PROVE  /\ Whole(TablePop(t)) /\ Len(Actives(t)) > 0 /\ Actives(t)[1] \in Acts(t)
           /\ Acts(TablePop(t)) = Acts(t) \ {Actives(t)[1]}
<1> DEFINE first == CHOOSE i \in DOMAIN t.slots : IsActive(t, i) /\ \A j \in 0 .. (i - 1) : ~ IsActive(t, j)
<1>1. Shaped(t) /\ Counted(t) /\ Sound(t)
  BY DEF Whole
<1>2. Used(t) # {} /\ Used(t) \subseteq Nat
  <2>1. Used(t) # {}
    BY <1>1, FS_EmptySet DEF Counted
  <2>2. Used(t) \subseteq 0 .. Mask(t) /\ Mask(t) \in Nat
    BY <1>1, TableShape DEF Used
  <2> QED
    BY <2>1, <2>2
<1>3. PICK x \in Used(t) : \A y \in Used(t) : x <= y
  BY <1>2, LeastNumber
<1>4. DOMAIN t.slots = 0 .. Mask(t) /\ Mask(t) \in Nat
  BY <1>1, TableShape
<1>5. \A j \in 0 .. (x - 1) : ~ IsActive(t, j)
  <2> SUFFICES ASSUME NEW j \in 0 .. (x - 1), IsActive(t, j) PROVE FALSE
    OBVIOUS
  <2>1. x \in 0 .. Mask(t)
    BY <1>4 DEF Used
  <2>2. j \in DOMAIN t.slots
    BY <1>4, <2>1
  <2>3. j \in Used(t)
    BY <2>2 DEF Used
  <2>4. x <= j
    BY <1>3, <2>3
  <2> QED
    BY <1>4, <2>1, <2>4
<1>6. \E i \in DOMAIN t.slots : IsActive(t, i) /\ \A j \in 0 .. (i - 1) : ~ IsActive(t, j)
  BY <1>3, <1>5 DEF Used
<1>7. first \in DOMAIN t.slots /\ IsActive(t, first) /\ \A j \in 0 .. (first - 1) : ~ IsActive(t, j)
  BY <1>6
<1>8. TablePop(t) = LessSlot(t, first)
  BY DEF TablePop, LessSlot
<1> HIDE DEF first
<1>9. first \in Used(t) /\ \A j \in 0 .. (first - 1) : j \notin Used(t)
  BY <1>7 DEF Used
<1>10. Len(Actives(t)) > 0 /\ Actives(t)[1] = t.slots[first]
  BY <1>1, <1>9, ActivesFacts
<1>11. t.slots[first] \in Acts(t)
  BY <1>9 DEF Acts
<1>12. Whole(TablePop(t)) /\ Acts(TablePop(t)) = Acts(t) \ {t.slots[first]}
  BY <1>8, <1>9, TakeOut
<1> QED
  BY <1>10, <1>11, <1>12

-----------------------------------------------------------------------------
(* The algebra of sets of which no two values are equal *)

OneOf(S) == \A v, w \in S : Eq(v, w) => v = w
Lacking(S, T) == {v \in S : ~ HasEq(T, v)}
Flip(S, v) == IF HasEq(S, v) THEN Minus(S, v) ELSE S \cup {v}

(* R is S with a value of each class of T that S lacks; S without the classes *)
(* of T; what S and T do not share.                                           *)
Joined(S, T, R) == S \subseteq R /\ R \subseteq S \cup T /\ OneOf(R) /\ \A v \in T : HasEq(R, v)
Lessened(S, T, R) == R = Lacking(S, T)
Toggled(S, T, R) == R = Lacking(S, T) \cup Lacking(T, S)

(* The values of the first k items. *)
Upto(items, k) == {items[j] : j \in 1 .. k}

(* The items are taken one at a time. *)
LEMMA UptoFacts ==
    ASSUME NEW items, Len(items) \in Nat, DOMAIN items = 1 .. Len(items)
    PROVE  /\ Upto(items, 0) = {} /\ Upto(items, Len(items)) = ToSet(items)
           /\ \A k \in Nat : Upto(items, k + 1) = Upto(items, k) \cup {items[k + 1]}
<1>1. Upto(items, 0) = {} /\ Upto(items, Len(items)) = ToSet(items)
  BY DEF Upto, ToSet
<1>2. ASSUME NEW k \in Nat PROVE Upto(items, k + 1) = Upto(items, k) \cup {items[k + 1]}
  <2>1. 1 .. (k + 1) = (1 .. k) \cup {k + 1}
    OBVIOUS
  <2> QED
    BY <2>1 DEF Upto
<1> QED
  BY <1>1, <1>2

(* Nothing joined, taken away or toggled. *)
LEMMA NoItems ==
    ASSUME NEW S
    PROVE  (OneOf(S) => Joined(S, {}, S)) /\ Lessened(S, {}, S) /\ Toggled(S, {}, S)
BY DEF Joined, Lessened, Toggled, Lacking, HasEq

(* One more value joined. *)
LEMMA JoinStep ==
    ASSUME NEW S, NEW T, NEW R, NEW x, Joined(S, T, R)
    PROVE  Joined(S, T \cup {x}, Plus(R, x))
<1>1. CASE HasEq(R, x)
  BY <1>1 DEF Joined, Plus, HasEq
<1>2. CASE ~ HasEq(R, x)
  <2> DEFINE Q == R \cup {x}
  <2>1. Plus(R, x) = Q
    BY <1>2 DEF Plus
  <2>2. OneOf(Q)
    BY <1>2 DEF Joined, OneOf, HasEq, Eq
  <2>3. \A v \in T \cup {x} : HasEq(Q, v)
    BY DEF Joined, HasEq, Eq
  <2> QED
    BY <2>1, <2>2, <2>3 DEF Joined
<1> QED
  BY <1>1, <1>2

(* One more value taken away. *)
LEMMA LessStep ==
    ASSUME NEW S, NEW T, NEW R, NEW x, Lessened(S, T, R)
    PROVE  Lessened(S, T \cup {x}, Minus(R, x))
BY DEF Lessened, Lacking, Minus, HasEq, Eq

(* One more value toggled, that is equal to none so far. *)
LEMMA FlipStep ==
    ASSUME NEW S, NEW T, NEW R, NEW x, Toggled(S, T, R), ~ HasEq(T, x)
    PROVE  Toggled(S, T \cup {x}, Flip(R, x))
<1> DEFINE U == T \cup {x}
<1>1. \A v \in S : HasEq(U, v) <=> HasEq(T, v) \/ Eq(x, v)
  BY DEF HasEq
<1>2. \A v \in T : ~ Eq(v, x) /\ ~ Eq(x, v)
  BY DEF HasEq, Eq
<1>3. CASE HasEq(S, x)
  <2>1. PICK s \in S : Eq(s, x)
    BY <1>3 DEF HasEq
  <2>2. s \in Lacking(S, T)
    BY <1>2, <2>1 DEF Lacking, HasEq, Eq
  <2>3. Flip(R, x) = Minus(R, x)
    BY <2>1, <2>2 DEF Toggled, Flip, HasEq
  <2>4. Minus(R, x) = Lacking(S, U) \cup Lacking(T, S)
    <3>1. Lacking(S, U) = {v \in Lacking(S, T) : ~ Eq(v, x)}
      BY <1>1 DEF Lacking, Eq
    <3>2. Lacking(T, S) = {v \in Lacking(T, S) : ~ Eq(v, x)}
      BY <1>2 DEF Lacking
    <3> QED
      BY <3>1, <3>2 DEF Toggled, Minus
  <2>5. Lacking(U, S) = Lacking(T, S)
    BY <1>3 DEF Lacking
  <2> QED
    BY <2>3, <2>4, <2>5 DEF Toggled
<1>4. CASE ~ HasEq(S, x)
  <2>1. \A v \in S : ~ Eq(v, x) /\ ~ Eq(x, v)
    BY <1>4 DEF HasEq, Eq
  <2>2. ~ HasEq(R, x)
    BY <1>2, <2>1 DEF Toggled, Lacking, HasEq
  <2>3. Lacking(S, U) = Lacking(S, T)
    BY <1>1, <2>1 DEF Lacking
  <2>4. Lacking(U, S) = Lacking(T, S) \cup {x}
    BY <1>4 DEF Lacking
  <2> QED
    BY <2>2, <2>3, <2>4 DEF Toggled, Flip
<1> QED
  BY <1>3, <1>4

(* Joined to nothing, values of which no two are equal stay as they are. *)
LEMMA JoinFresh ==
    ASSUME NEW T, NEW R, OneOf(T), Joined({}, T, R)
    PROVE  R = T
<1>1. R \subseteq T
  BY DEF Joined
<1>2. ASSUME NEW v \in T PROVE v \in R
  <2>1. PICK w \in R : Eq(w, v)
    BY DEF Joined, HasEq
  <2> QED
    BY <1>1, <2>1 DEF OneOf
<1> QED
  BY <1>1, <1>2

(* Joining twice is joining both. *)
LEMMA JoinTwice ==
    ASSUME NEW S, NEW T, NEW R, NEW U, NEW Q, Joined(S, T, R), Joined(R, U, Q)
    PROVE  Joined(S, T \cup U, Q)
BY DEF Joined, HasEq

(* Taking away values of the same classes leaves the same. *)
LEMMA LackingJoined ==
    ASSUME NEW S, NEW T, NEW R, Joined({}, T, R)
    PROVE  \A v : HasEq(R, v) <=> HasEq(T, v)
<1> SUFFICES ASSUME NEW v PROVE HasEq(R, v) <=> HasEq(T, v)
  OBVIOUS
<1>1. HasEq(R, v) => HasEq(T, v)
  BY DEF Joined, HasEq
<1>2. ASSUME NEW w \in T, Eq(w, v) PROVE HasEq(R, v)
  <2>1. PICK x \in R : Eq(x, w)
    BY DEF Joined, HasEq
  <2> QED
    BY <1>2, <2>1 DEF HasEq, Eq
<1> QED
  BY <1>1, <1>2 DEF HasEq

(* The values of a sound table. *)
LEMMA ActsApart ==
    ASSUME NEW t, Sound(t)
    PROVE  OneOf(Acts(t))
BY DEF OneOf, Acts, Sound

(* Toggling in a table. *)
LEMMA TableToggleFacts ==
    ASSUME NEW t, Whole(t), NEW v \in Hashed
    PROVE  Whole(TableToggle(t, v)) /\ Acts(TableToggle(t, v)) = Flip(Acts(t), v)
<1>1. Shaped(t) /\ Sound(t) /\ Room(t)
  BY LightHasRoom DEF Whole
<1>2. TableContains(t, v) <=> HasEq(Acts(t), v)
  BY <1>1, Found
<1>3. Whole(TableAdd(t, v)) /\ Acts(TableAdd(t, v)) = Plus(Acts(t), v)
  BY TableAddFacts
<1>4. Whole(TableDiscard(t, v)) /\ Acts(TableDiscard(t, v)) = Minus(Acts(t), v)
  BY TableDiscardFacts
<1> QED
  BY <1>2, <1>3, <1>4 DEF TableToggle, Flip, Plus

(* Adding values joins them. *)
LEMMA TableAddAllFacts ==
    ASSUME NEW t, Whole(t), NEW items \in Seq(Hashed)
    PROVE  Whole(TableAddAll(t, items)) /\ Joined(Acts(t), ToSet(items), Acts(TableAddAll(t, items)))
<1> DEFINE N == Len(items)
           S == Acts(t)
<1>1. N \in Nat /\ DOMAIN items = 1 .. N
  OBVIOUS
<1>2. PICK g : /\ g[0] = t /\ TableAddAll(t, items) = g[N]
               /\ \A k \in 1 .. N : g[k] = TableAdd(g[k - 1], items[k])
  BY <1>1, TableAddAllRun
<1>3. /\ Upto(items, 0) = {} /\ Upto(items, N) = ToSet(items)
      /\ \A k \in Nat : Upto(items, k + 1) = Upto(items, k) \cup {items[k + 1]}
  BY <1>1, UptoFacts
<1> HIDE DEF N
<1> DEFINE P(k) == Whole(g[k]) /\ Joined(S, Upto(items, k), Acts(g[k]))
           A == {k \in 0 .. N : P(k)}
<1>4. 0 \in A
  <2>1. Joined(S, {}, S)
    BY NoItems, ActsApart DEF Whole
  <2>2. P(0)
    BY <1>2, <1>3, <2>1
  <2> HIDE DEF P
  <2> QED
    BY <1>1, <2>2
<1>5. ASSUME NEW k \in 0 .. (N - 1), k \in A PROVE k + 1 \in A
  <2> DEFINE a == g[k]
             x == items[k + 1]
  <2>1. Whole(a) /\ Joined(S, Upto(items, k), Acts(a))
    BY <1>5
  <2>2. k + 1 \in 1 .. N /\ (k + 1) - 1 = k /\ k \in Nat /\ k + 1 \in 0 .. N
    BY <1>1
  <2>3. g[k + 1] = TableAdd(a, x)
    BY <1>2, <2>2
  <2>4. x \in Hashed
    BY <1>1, <2>2
  <2> HIDE DEF a, x
  <2>5. Whole(TableAdd(a, x)) /\ Acts(TableAdd(a, x)) = Plus(Acts(a), x)
    BY <2>1, <2>4, TableAddFacts
  <2>6. Joined(S, Upto(items, k) \cup {x}, Plus(Acts(a), x))
    BY <2>1, JoinStep
  <2>7. P(k + 1)
    BY <1>3, <2>2, <2>3, <2>5, <2>6 DEF x
  <2> HIDE DEF P
  <2> QED
    BY <2>2, <2>7
<1> HIDE DEF P
<1>6. \A k \in 0 .. N : k \in A
  BY <1>1, <1>4, <1>5, UpTo
<1>7. P(N)
  BY <1>1, <1>6
<1> QED
  BY <1>2, <1>3, <1>7 DEF P

(* Discarding values takes them away. *)
LEMMA TableDiscardAllFacts ==
    ASSUME NEW t, Whole(t), NEW items \in Seq(Hashed)
    PROVE  Whole(TableDiscardAll(t, items)) /\ Lessened(Acts(t), ToSet(items), Acts(TableDiscardAll(t, items)))
<1> DEFINE N == Len(items)
           S == Acts(t)
<1>1. N \in Nat /\ DOMAIN items = 1 .. N
  OBVIOUS
<1>2. PICK g : /\ g[0] = t /\ TableDiscardAll(t, items) = g[N]
               /\ \A k \in 1 .. N : g[k] = TableDiscard(g[k - 1], items[k])
  BY <1>1, TableDiscardAllRun
<1>3. /\ Upto(items, 0) = {} /\ Upto(items, N) = ToSet(items)
      /\ \A k \in Nat : Upto(items, k + 1) = Upto(items, k) \cup {items[k + 1]}
  BY <1>1, UptoFacts
<1> HIDE DEF N
<1> DEFINE P(k) == Whole(g[k]) /\ Lessened(S, Upto(items, k), Acts(g[k]))
           A == {k \in 0 .. N : P(k)}
<1>4. 0 \in A
  <2>1. Lessened(S, {}, S)
    BY NoItems
  <2>2. P(0)
    BY <1>2, <1>3, <2>1
  <2> HIDE DEF P
  <2> QED
    BY <1>1, <2>2
<1>5. ASSUME NEW k \in 0 .. (N - 1), k \in A PROVE k + 1 \in A
  <2> DEFINE a == g[k]
             x == items[k + 1]
  <2>1. Whole(a) /\ Lessened(S, Upto(items, k), Acts(a))
    BY <1>5
  <2>2. k + 1 \in 1 .. N /\ (k + 1) - 1 = k /\ k \in Nat /\ k + 1 \in 0 .. N
    BY <1>1
  <2>3. g[k + 1] = TableDiscard(a, x)
    BY <1>2, <2>2
  <2>4. x \in Hashed
    BY <1>1, <2>2
  <2> HIDE DEF a, x
  <2>5. Whole(TableDiscard(a, x)) /\ Acts(TableDiscard(a, x)) = Minus(Acts(a), x)
    BY <2>1, <2>4, TableDiscardFacts
  <2>6. Lessened(S, Upto(items, k) \cup {x}, Minus(Acts(a), x))
    BY <2>1, LessStep
  <2>7. P(k + 1)
    BY <1>3, <2>2, <2>3, <2>5, <2>6 DEF x
  <2> HIDE DEF P
  <2> QED
    BY <2>2, <2>7
<1> HIDE DEF P
<1>6. \A k \in 0 .. N : k \in A
  BY <1>1, <1>4, <1>5, UpTo
<1>7. P(N)
  BY <1>1, <1>6
<1> QED
  BY <1>2, <1>3, <1>7 DEF P

(* Toggling values of which no two are equal leaves what is not shared. *)
LEMMA TableToggleAllFacts ==
    ASSUME NEW t, Whole(t), NEW items \in Seq(Hashed), NoDuplicates(items)
    PROVE  Whole(TableToggleAll(t, items)) /\ Toggled(Acts(t), ToSet(items), Acts(TableToggleAll(t, items)))
<1> DEFINE N == Len(items)
           S == Acts(t)
<1>1. N \in Nat /\ DOMAIN items = 1 .. N
  OBVIOUS
<1>2. PICK g : /\ g[0] = t /\ TableToggleAll(t, items) = g[N]
               /\ \A k \in 1 .. N : g[k] = TableToggle(g[k - 1], items[k])
  BY <1>1, TableToggleAllRun
<1>3. /\ Upto(items, 0) = {} /\ Upto(items, N) = ToSet(items)
      /\ \A k \in Nat : Upto(items, k + 1) = Upto(items, k) \cup {items[k + 1]}
  BY <1>1, UptoFacts
<1> HIDE DEF N
<1> DEFINE P(k) == Whole(g[k]) /\ Toggled(S, Upto(items, k), Acts(g[k]))
           A == {k \in 0 .. N : P(k)}
<1>4. 0 \in A
  <2>1. Toggled(S, {}, S)
    BY NoItems
  <2>2. P(0)
    BY <1>2, <1>3, <2>1
  <2> HIDE DEF P
  <2> QED
    BY <1>1, <2>2
<1>5. ASSUME NEW k \in 0 .. (N - 1), k \in A PROVE k + 1 \in A
  <2> DEFINE a == g[k]
             x == items[k + 1]
  <2>1. Whole(a) /\ Toggled(S, Upto(items, k), Acts(a))
    BY <1>5
  <2>2. k + 1 \in 1 .. N /\ (k + 1) - 1 = k /\ k \in Nat /\ k + 1 \in 0 .. N
    BY <1>1
  <2>3. g[k + 1] = TableToggle(a, x)
    BY <1>2, <2>2
  <2>4. x \in Hashed
    BY <1>1, <2>2
  <2>8. ~ HasEq(Upto(items, k), x)
    <3> SUFFICES ASSUME NEW j \in 1 .. k, Eq(items[j], x) PROVE FALSE
      BY DEF HasEq, Upto
    <3>1. j \in 1 .. N /\ j # k + 1
      BY <1>1, <2>2
    <3> QED
      BY <1>1, <2>2, <3>1 DEF NoDuplicates
  <2> HIDE DEF a, x
  <2>5. Whole(TableToggle(a, x)) /\ Acts(TableToggle(a, x)) = Flip(Acts(a), x)
    BY <2>1, <2>4, TableToggleFacts
  <2>6. Toggled(S, Upto(items, k) \cup {x}, Flip(Acts(a), x))
    BY <2>1, <2>8, FlipStep
  <2>7. P(k + 1)
    BY <1>3, <2>2, <2>3, <2>5, <2>6 DEF x
  <2> HIDE DEF P
  <2> QED
    BY <2>2, <2>7
<1> HIDE DEF P
<1>6. \A k \in 0 .. N : k \in A
  BY <1>1, <1>4, <1>5, UpTo
<1>7. P(N)
  BY <1>1, <1>6
<1> QED
  BY <1>2, <1>3, <1>7 DEF P

-----------------------------------------------------------------------------
(* Merging and combining tables *)

(* A new table holds nothing. *)
LEMMA NewTable ==
    Whole(with_capacity(MinSize)) /\ Acts(with_capacity(MinSize)) = {}
<1> DEFINE t == with_capacity(MinSize)
           m == MinSize - 1
           sl == [i \in 0 .. m |-> Empty]
<1>1. m \in Masks
  BY SizesAssumption DEF Masks, Sizes, MinSize
<1>2. sl \in [0 .. m -> Slots]
  BY DEF Slots
<1>3. t = [kind |-> "Table", slots |-> sl, fill |-> 0, used |-> 0]
  BY DEF with_capacity
<1>4. Shaped(t) /\ t.slots = sl /\ t.fill = 0 /\ t.used = 0
  <2> HIDE DEF sl, m, t
  <2> QED
    BY <1>1, <1>2, <1>3, MadeTable
<1> HIDE DEF t
<1>5. Blank(t)
  BY <1>4 DEF Blank
<1>6. Sound(t) /\ Used(t) = {} /\ Filled(t) = {} /\ Acts(t) = {}
  BY <1>5, BlankSound
<1>7. Mask(t) \in Nat \ {0}
  BY <1>4, TableShape
<1>8. Counted(t) /\ Light(t)
  BY <1>4, <1>6, <1>7, FS_EmptySet DEF Counted, Light
<1> QED
  BY <1>4, <1>6, <1>8 DEF Whole, t

(* Presize keeps the values and makes room for the other table's. *)
LEMMA PresizeFacts ==
    ASSUME NEW t, Whole(t), NEW o, Whole(o), NEW u, u = Presize(t, o)
    PROVE  Whole(u) /\ Acts(u) = Acts(t) /\ (u.fill + o.used) * 5 < Mask(u) * 3
<1> DEFINE c == t.used
           d == o.used
           n == (c + d) * 2
           r == resize(t, n)
<1>1. Shaped(t) /\ Counted(t) /\ Sound(t) /\ Shaped(o) /\ Counted(o) /\ Sound(o)
  BY DEF Whole
<1>2. c \in Nat /\ d \in Nat /\ 4 * c < Pow2[MaxBits] /\ 4 * d < Pow2[MaxBits] /\ Pow2[MaxBits] \in Nat
  BY <1>1, MinUsedFacts, Powers, SizesAssumption
<1>3. u = IF (t.fill + d) * 5 >= Mask(t) * 3 THEN r ELSE t
  BY DEF Presize
<1>4. n \in Nat /\ n >= 2 * c /\ n < Pow2[MaxBits]
  <2> HIDE DEF c, d
  <2> QED
    BY <1>2
<1>5. Whole(r) /\ Acts(r) = Acts(t) /\ Mask(r) >= n /\ r.fill = c
  <2> HIDE DEF n
  <2> QED
    BY <1>1, <1>4, ResizeFacts
<1>6. CASE (t.fill + d) * 5 >= Mask(t) * 3
  <2>1. u = r
    BY <1>3, <1>6
  <2>2. Mask(r) \in Nat \ {0}
    BY <1>5, TableShape DEF Whole
  <2> DEFINE m == Mask(r)
  <2>3. m \in Nat \ {0} /\ m >= (c + d) * 2
    BY <1>5, <2>2
  <2> HIDE DEF r, c, d, m
  <2>4. (c + d) * 5 < m * 3
    BY <1>2, <2>3
  <2> QED
    BY <1>5, <2>1, <2>4 DEF m, d
<1>7. CASE ~ ((t.fill + d) * 5 >= Mask(t) * 3)
  <2>1. u = t
    BY <1>3, <1>7
  <2>2. t.fill \in Nat /\ Mask(t) \in Nat
    BY <1>1, TableShape DEF Shaped
  <2> DEFINE f == t.fill
             m == Mask(t)
  <2>3. f \in Nat /\ m \in Nat /\ ~ ((f + d) * 5 >= m * 3)
    BY <1>7, <2>2
  <2> HIDE DEF f, m, d
  <2>4. (f + d) * 5 < m * 3
    BY <1>2, <2>3
  <2> QED
    BY <2>1, <2>4 DEF f, m, d
<1> QED
  BY <1>6, <1>7

(* The three ways to merge a table into one that has room for it. *)
LEMMA MergeIntoFacts ==
    ASSUME NEW t, Whole(t), NEW o, Whole(o), (t.fill + o.used) * 5 < Mask(t) * 3,
           NEW u, u = MergeInto(t, o)
    PROVE  Whole(u) /\ Joined(Acts(t), Acts(o), Acts(u))
<1>1. Shaped(t) /\ Counted(t) /\ Sound(t) /\ Shaped(o) /\ Counted(o) /\ Sound(o)
  BY DEF Whole
<1>2. /\ Actives(o) \in Seq(Hashed) /\ ToSet(Actives(o)) = Acts(o) /\ NoDuplicates(Actives(o))
      /\ Len(Actives(o)) = o.used
  BY <1>1, ActivesFacts DEF Counted
<1>3. OneOf(Acts(o))
  BY <1>1, ActsApart
<1>4. t.fill = 0 => Filled(t) = {} /\ Blank(t) /\ Acts(t) = {}
  <2> SUFFICES ASSUME t.fill = 0 PROVE Filled(t) = {} /\ Blank(t) /\ Acts(t) = {}
    OBVIOUS
  <2>1. Filled(t) = {}
    BY <1>1, UsedFilled, FS_EmptySet DEF Counted
  <2>2. Blank(t)
    BY <2>1 DEF Filled, Blank
  <2> QED
    BY <2>1, <2>2, BlankSound
<1>5. Joined({}, Acts(o), Acts(o))
  BY <1>3 DEF Joined, HasEq, Eq
<1> DEFINE copied_slots == [i \in DOMAIN o.slots |-> IF IsActive(o, i) THEN o.slots[i] ELSE t.slots[i]]
           counted == [t EXCEPT !.fill = o.used, !.used = o.used]
<1>6. u = IF t.fill = 0 /\ Mask(t) = Mask(o) /\ o.fill = o.used THEN [o EXCEPT !.slots = copied_slots]
          ELSE IF t.fill = 0 THEN InsertAll(counted, Actives(o)) ELSE TableAddAll(t, Actives(o))
  BY DEF MergeInto
<1>7. CASE t.fill = 0 /\ Mask(t) = Mask(o) /\ o.fill = o.used
  <2>1. Used(o) = Filled(o)
    BY <1>1, <1>7, UsedFilled, FS_Subset DEF Counted
  <2>2. DOMAIN t.slots = DOMAIN o.slots
    BY <1>1, <1>7, TableShape
  <2>3. ASSUME NEW i \in DOMAIN o.slots, ~ IsActive(o, i) PROVE o.slots[i] = t.slots[i]
    <3>1. t.slots[i] = Empty
      BY <1>4, <1>7, <2>2 DEF Blank
    <3>2. o.slots[i] = Empty
      BY <2>1, <2>3 DEF Used, Filled
    <3> QED
      BY <3>1, <3>2
  <2>4. copied_slots = o.slots
    <3>1. o.slots \in [DOMAIN o.slots -> Slots]
      BY <1>1, TableShape
    <3>2. \A i \in DOMAIN o.slots : (IF IsActive(o, i) THEN o.slots[i] ELSE t.slots[i]) = o.slots[i]
      BY <2>3
    <3> QED
      BY <3>1, <3>2
  <2>5. u = [o EXCEPT !.slots = copied_slots]
    BY <1>6, <1>7
  <2>6. o = [kind |-> "Table", slots |-> o.slots, fill |-> o.fill, used |-> o.used]
    BY <1>1 DEF Shaped
  <2> HIDE DEF copied_slots
  <2>7. u = o
    BY <2>4, <2>5, <2>6
  <2> QED
    BY <1>4, <1>5, <1>7, <2>7
<1>8. CASE t.fill = 0 /\ ~ (Mask(t) = Mask(o) /\ o.fill = o.used)
  <2> DEFINE c == o.used
             w == [kind |-> "Table", slots |-> t.slots, fill |-> c, used |-> c]
  <2>1. u = InsertAll(counted, Actives(o))
    BY <1>6, <1>8
  <2>2. counted = w
    BY <1>1, Recounted
  <2>3. c \in Nat /\ t.slots \in [DOMAIN t.slots -> Slots]
    BY <1>1, TableShape DEF Shaped
  <2> HIDE DEF w, c
  <2>4. Shaped(w) /\ w.slots = t.slots /\ w.fill = c /\ w.used = c /\ Mask(w) = Mask(t)
    BY <1>1, <2>3, RemadeTable DEF w
  <2>5. Blank(w)
    BY <1>4, <1>8, <2>4 DEF Blank
  <2>6. c * 5 < Mask(w) * 3
    BY <1>8, <2>3, <2>4 DEF c
  <2>7. Whole(u) /\ Acts(u) = Acts(o)
    BY <1>2, <2>1, <2>2, <2>4, <2>5, <2>6, InsertedWhole DEF c
  <2> QED
    BY <1>4, <1>5, <1>8, <2>7
<1>9. CASE t.fill # 0
  <2>1. u = TableAddAll(t, Actives(o))
    BY <1>6, <1>9
  <2> QED
    BY <1>2, <2>1, TableAddAllFacts
<1> QED
  BY <1>7, <1>8, <1>9

(* merge joins the other table's values. *)
LEMMA MergeFacts ==
    ASSUME NEW t, Whole(t), NEW o, Whole(o)
    PROVE  Whole(merge(t, o)) /\ Joined(Acts(t), Acts(o), Acts(merge(t, o)))
<1> DEFINE p == Presize(t, o)
<1>1. Whole(p) /\ Acts(p) = Acts(t) /\ (p.fill + o.used) * 5 < Mask(p) * 3
  BY PresizeFacts
<1>2. merge(t, o) = MergeInto(p, o)
  BY DEF merge
<1> HIDE DEF p
<1>3. Whole(merge(t, o)) /\ Joined(Acts(p), Acts(o), Acts(merge(t, o)))
  BY <1>1, <1>2, MergeIntoFacts
<1> QED
  BY <1>1, <1>3

(* A copy holds the same values. *)
LEMMA TableCopyFacts ==
    ASSUME NEW t, Whole(t)
    PROVE  Whole(TableCopy(t)) /\ Acts(TableCopy(t)) = Acts(t)
<1>1. Whole(TableCopy(t)) /\ Joined({}, Acts(t), Acts(TableCopy(t)))
  BY NewTable, MergeFacts DEF TableCopy
<1>2. OneOf(Acts(t))
  BY ActsApart DEF Whole
<1> QED
  BY <1>1, <1>2, JoinFresh

(* A table built from items one by one. *)
LEMMA IncrementalFacts ==
    ASSUME NEW items \in Seq(Hashed)
    PROVE  /\ Whole(table_from_incremental(items))
           /\ Joined({}, ToSet(items), Acts(table_from_incremental(items)))
BY NewTable, TableAddAllFacts DEF table_from_incremental

(* The values a table holds, by lookup. *)
LEMMA HeldFacts ==
    ASSUME NEW t, Whole(t)
    PROVE  \A v \in Values : v \in Held(t) <=> HasEq(Acts(t), v)
<1> SUFFICES ASSUME NEW v \in Values PROVE v \in Held(t) <=> HasEq(Acts(t), v)
  OBVIOUS
<1>1. Shaped(t) /\ Sound(t) /\ Room(t)
  BY LightHasRoom DEF Whole
<1>2. v \in Hashed => (TableContains(t, v) <=> HasEq(Acts(t), v))
  BY <1>1, Found
<1>3. HasEq(Acts(t), v) => v \in Hashed
  <2> SUFFICES ASSUME NEW w \in Acts(t), Eq(w, v) PROVE v \in Hashed
    BY DEF HasEq
  <2>1. w \in Hashed
    BY <1>1, UsedFilled
  <2> QED
    BY <2>1, EqualHashes
<1> QED
  BY <1>2, <1>3 DEF Held

(* A filtered sequence is one of the items that are in the set. *)
LEMMA FilterSet ==
    ASSUME NEW V, NEW items \in Seq(V), NEW S
    PROVE  Filter(items, S) \in Seq(V \cap S) /\ ToSet(Filter(items, S)) = ToSet(items) \cap S
<1> DEFINE f == Filter(items, S)
           n == Len(items)
           K == Kepts(items, S, n)
<1>1. n \in Nat /\ DOMAIN items = 1 .. n /\ \A k \in 1 .. n : items[k] \in V
  OBVIOUS
<1>2. /\ f \in Seq(S)
      /\ \A k \in K : \E p \in 1 .. Len(f) : f[p] = items[k]
      /\ \A p \in 1 .. Len(f) : \E k \in K : f[p] = items[k]
  <2>1. Filtered(f, items, S, n)
    BY <1>1, FilterFacts
  <2> HIDE DEF f, n
  <2> QED
    BY <2>1 DEF Filtered
<1>3. \A k : k \in K <=> k \in 1 .. n /\ items[k] \in S
  BY DEF Kepts
<1> HIDE DEF f, n, K
<1>4. DOMAIN f = 1 .. Len(f) /\ Len(f) \in Nat
  BY <1>2
<1>5. ASSUME NEW p \in 1 .. Len(f) PROVE f[p] \in V \cap S /\ f[p] \in ToSet(items)
  <2>1. PICK k \in K : f[p] = items[k]
    BY <1>2
  <2> QED
    BY <1>1, <1>3, <2>1 DEF ToSet
<1>6. f \in Seq(V \cap S)
  <2>1. f = [p \in 1 .. Len(f) |-> f[p]]
    BY <1>2
  <2> QED
    BY <1>4, <1>5, <2>1
<1>7. \A w : w \in ToSet(f) <=> \E p \in 1 .. Len(f) : w = f[p]
  BY <1>4 DEF ToSet
<1>8. \A w : w \in ToSet(items) <=> \E k \in 1 .. n : w = items[k]
  BY <1>1 DEF ToSet
<1>9. ASSUME NEW w \in ToSet(items) \cap S PROVE w \in ToSet(f)
  <2>1. PICK k \in 1 .. n : w = items[k]
    BY <1>8
  <2>2. k \in K
    BY <1>3, <2>1
  <2> QED
    BY <1>2, <1>7, <2>1, <2>2
<1>10. ToSet(f) \subseteq ToSet(items) \cap S
  BY <1>5, <1>7
<1> QED
  BY <1>6, <1>9, <1>10 DEF f

(* R has a value of each class that S and T share, and no other. *)
Shared(S, T, R) ==
    /\ R \subseteq S \cup T /\ OneOf(R)
    /\ \A v \in R : HasEq(S, v) /\ HasEq(T, v)
    /\ \A v \in S : HasEq(T, v) => HasEq(R, v)

(* One value of each class of X that is in Y too. *)
LEMMA SharedFrom ==
    ASSUME NEW X, NEW Y, NEW Z, NEW R, Joined({}, Z, R), \A v : v \in Z <=> v \in X /\ HasEq(Y, v)
    PROVE  Shared(X, Y, R) /\ Shared(Y, X, R)
<1>1. R \subseteq Z /\ OneOf(R) /\ \A v \in Z : HasEq(R, v)
  BY DEF Joined
<1>2. \A v \in R : v \in X /\ HasEq(X, v) /\ HasEq(Y, v)
  BY <1>1 DEF HasEq, Eq
<1>3. Shared(X, Y, R)
  BY <1>1, <1>2 DEF Shared
<1>4. ASSUME NEW v \in Y, HasEq(X, v) PROVE HasEq(R, v)
  <2>1. PICK x \in X : Eq(x, v)
    BY <1>4 DEF HasEq
  <2>2. HasEq(Y, x)
    BY <2>1 DEF HasEq, Eq
  <2>3. HasEq(R, x)
    BY <1>1, <2>2
  <2> QED
    BY <2>1, <2>3 DEF HasEq, Eq
<1> QED
  BY <1>1, <1>2, <1>3, <1>4 DEF Shared

(* The intersection of two tables. *)
LEMMA TableIntersectionFacts ==
    ASSUME NEW a, Whole(a), NEW b, Whole(b)
    PROVE  Whole(TableIntersection(a, b)) /\ Shared(Acts(a), Acts(b), Acts(TableIntersection(a, b)))
<1> DEFINE small == IF a.used >= b.used THEN b ELSE a
           large == IF a.used >= b.used THEN a ELSE b
           f == Filter(Actives(small), Held(large))
           u == table_from_incremental(f)
<1>1. TableIntersection(a, b) = u
  BY DEF TableIntersection
<1>2. /\ (small = a /\ large = b) \/ (small = b /\ large = a)
      /\ Whole(small) /\ Whole(large)
  OBVIOUS
<1> HIDE DEF small, large
<1>3. Actives(small) \in Seq(Hashed) /\ ToSet(Actives(small)) = Acts(small)
  BY <1>2, ActivesFacts DEF Whole
<1>4. f \in Seq(Hashed \cap Held(large)) /\ ToSet(f) = Acts(small) \cap Held(large)
  BY <1>3, FilterSet
<1> HIDE DEF f
<1>5. f \in Seq(Hashed)
  BY <1>4
<1>6. Whole(u) /\ Joined({}, ToSet(f), Acts(u))
  BY <1>5, IncrementalFacts
<1>7. \A v : v \in ToSet(f) <=> v \in Acts(small) /\ HasEq(Acts(large), v)
  BY <1>2, <1>4, HeldFacts, UsedFilled DEF Whole, Hashed
<1>8. Shared(Acts(small), Acts(large), Acts(u)) /\ Shared(Acts(large), Acts(small), Acts(u))
  BY <1>6, <1>7, SharedFrom
<1> QED
  BY <1>1, <1>2, <1>6, <1>8

(* difference_update takes away the other table's values. *)
LEMMA DifferenceUpdateFacts ==
    ASSUME NEW a, Whole(a), NEW b, Whole(b)
    PROVE  Whole(difference_update(a, b)) /\ Acts(difference_update(a, b)) = Lacking(Acts(a), Acts(b))
<1> DEFINE d == TableDiscardAll(a, Actives(b))
<1>1. Actives(b) \in Seq(Hashed) /\ ToSet(Actives(b)) = Acts(b)
  BY ActivesFacts DEF Whole
<1>2. Whole(d) /\ Lessened(Acts(a), Acts(b), Acts(d))
  BY <1>1, TableDiscardAllFacts
<1>3. Whole(TableCompact(d)) /\ Acts(TableCompact(d)) = Acts(d)
  BY <1>2, ShrinkFacts DEF Whole
<1> QED
  BY <1>2, <1>3 DEF difference_update, Lessened

(* The difference of two tables. *)
LEMMA TableDifferenceFacts ==
    ASSUME NEW a, Whole(a), NEW b, Whole(b)
    PROVE  Whole(TableDifference(a, b)) /\ Acts(TableDifference(a, b)) = Lacking(Acts(a), Acts(b))
<1> DEFINE f == Filter(Actives(a), Values \ Held(b))
           u == table_from_incremental(f)
           d == difference_update(TableCopy(a), b)
<1>1. TableDifference(a, b) = d \/ TableDifference(a, b) = u
  BY DEF TableDifference
<1>2. Whole(d) /\ Acts(d) = Lacking(Acts(a), Acts(b))
  BY TableCopyFacts, DifferenceUpdateFacts
<1>3. Actives(a) \in Seq(Hashed) /\ ToSet(Actives(a)) = Acts(a)
  BY ActivesFacts DEF Whole
<1>4. f \in Seq(Hashed \cap (Values \ Held(b))) /\ ToSet(f) = Acts(a) \cap (Values \ Held(b))
  <2>1. \A W : Filter(Actives(a), W) \in Seq(Hashed \cap W) /\ ToSet(Filter(Actives(a), W)) = Acts(a) \cap W
    BY <1>3, FilterSet
  <2> QED
    BY <2>1
<1> HIDE DEF f
<1>5. f \in Seq(Hashed)
  BY <1>4
<1>6. Whole(u) /\ Joined({}, ToSet(f), Acts(u))
  BY <1>5, IncrementalFacts
<1>7. ToSet(f) = Lacking(Acts(a), Acts(b))
  BY <1>4, HeldFacts, UsedFilled DEF Whole, Hashed, Lacking
<1>8. OneOf(ToSet(f))
  BY <1>7, ActsApart DEF Whole, OneOf, Lacking
<1>9. Acts(u) = ToSet(f)
  BY <1>6, <1>8, JoinFresh
<1> QED
  BY <1>1, <1>2, <1>6, <1>7, <1>9

(* The symmetric difference of two tables. *)
LEMMA TableSymmetricFacts ==
    ASSUME NEW a, Whole(a), NEW b, Whole(b)
    PROVE  Whole(TableSymmetric(a, b)) /\ Toggled(Acts(b), Acts(a), Acts(TableSymmetric(a, b)))
<1>1. Actives(a) \in Seq(Hashed) /\ ToSet(Actives(a)) = Acts(a) /\ NoDuplicates(Actives(a))
  BY ActivesFacts DEF Whole
<1>2. Whole(TableCopy(b)) /\ Acts(TableCopy(b)) = Acts(b)
  BY TableCopyFacts
<1> QED
  BY <1>1, <1>2, TableToggleAllFacts DEF TableSymmetric

-----------------------------------------------------------------------------
(* The bodies of sets: tables and fallbacks *)

(* What a body yields. *)
LEMMA BodyFacts ==
    ASSUME NEW b, IsBody(b)
    PROVE  /\ iter_ordered(b) \in Seq(Values) /\ NoDuplicates(iter_ordered(b))
           /\ Elements(b) \subseteq Values /\ OneOf(Elements(b)) /\ Elements(b) = ToSet(iter_ordered(b))
           /\ IsTable(b) => /\ Whole(b) /\ Elements(b) = Acts(b)
                            /\ iter_ordered(b) = Actives(b) /\ iter_ordered(b) \in Seq(Hashed)
<1>1. Elements(b) = ToSet(iter_ordered(b))
  BY DEF Elements
<1>2. IsTable(b) => /\ Whole(b) /\ Elements(b) = Acts(b) /\ NoDuplicates(iter_ordered(b))
                    /\ iter_ordered(b) = Actives(b) /\ iter_ordered(b) \in Seq(Hashed)
  BY <1>1, WholeIs, ActivesFacts DEF iter_ordered, Whole
<1>3. ~ IsTable(b) => iter_ordered(b) \in Seq(Values) /\ NoDuplicates(iter_ordered(b))
  BY DEF IsBody, iter_ordered
<1>4. iter_ordered(b) \in Seq(Values) /\ NoDuplicates(iter_ordered(b))
  <2>1. Hashed \subseteq Values
    BY DEF Hashed
  <2>2. \A s \in Seq(Hashed) : s \in Seq(Values)
    BY <2>1
  <2> QED
    BY <1>2, <1>3, <2>2
<1> DEFINE s == iter_ordered(b)
<1>5. DOMAIN s = 1 .. Len(s) /\ \A k \in DOMAIN s : s[k] \in Values
  BY <1>4
<1> HIDE DEF s
<1>6. ToSet(s) \subseteq Values
  BY <1>5 DEF ToSet
<1>7. OneOf(ToSet(s))
  BY <1>4 DEF s, ToSet, OneOf, NoDuplicates
<1> QED
  BY <1>1, <1>2, <1>4, <1>6, <1>7 DEF s

(* A table's body, and a fallback's. *)
LEMMA TableBody ==
    ASSUME NEW t, Whole(t)
    PROVE  IsBody(t) /\ IsTable(t) /\ Elements(t) = Acts(t)
<1>1. IsBody(t) /\ IsTable(t)
  BY WholeIs
<1> QED
  BY <1>1, BodyFacts

(* A sequence of distinct values is a body that holds them. *)
LEMMA FallbackBody ==
    ASSUME NEW items \in Seq(Values)
    PROVE  /\ ~ IsTable(Fallback(items)) /\ Fallback(items).items = items
           /\ iter_ordered(Fallback(items)) = items /\ Elements(Fallback(items)) = ToSet(items)
           /\ NoDuplicates(items) => IsBody(Fallback(items))
<1> DEFINE b == Fallback(items)
<1>1. b.kind = "Fallback" /\ b.items = items
  BY DEF Fallback
<1>2. ~ IsTable(b)
  BY <1>1 DEF IsTable
<1>3. iter_ordered(b) = items
  BY <1>1, <1>2 DEF iter_ordered
<1>4. NoDuplicates(items) => IsBody(b)
  BY <1>1, <1>2 DEF IsBody
<1> QED
  BY <1>1, <1>2, <1>3, <1>4 DEF Elements

(* A membership test compares with every element. *)
LEMMA ContainsFacts ==
    ASSUME NEW b, IsBody(b), NEW v \in Values
    PROVE  contains(b, v) <=> HasEq(Elements(b), v)
<1>1. CASE IsTable(b)
  <2>1. Whole(b) /\ Elements(b) = Acts(b)
    BY <1>1, BodyFacts
  <2>2. v \in Held(b) <=> HasEq(Acts(b), v)
    BY <2>1, HeldFacts
  <2> QED
    BY <1>1, <2>1, <2>2 DEF contains, Held, Hashed
<1>2. CASE ~ IsTable(b)
  BY <1>2 DEF contains, InSeq, HasEq, Elements, iter_ordered, ToSet
<1> QED
  BY <1>1, <1>2

(* A value added to a body. *)
LEMMA add_valueFacts ==
    ASSUME NEW b, IsBody(b), NEW v \in Values
    PROVE  IsBody(add_value(b, v)) /\ Elements(add_value(b, v)) = Plus(Elements(b), v)
<1> DEFINE s == iter_ordered(b)
           e == Append(s, v)
<1>1. CASE IsTable(b) /\ Hash[v] # NoHash
  <2>1. Whole(b) /\ Elements(b) = Acts(b) /\ v \in Hashed
    BY <1>1, BodyFacts DEF Hashed
  <2>2. Whole(TableAdd(b, v)) /\ Acts(TableAdd(b, v)) = Plus(Acts(b), v)
    BY <2>1, TableAddFacts
  <2>3. add_value(b, v) = TableAdd(b, v)
    BY <1>1 DEF add_value
  <2> QED
    BY <2>1, <2>2, <2>3, TableBody
<1>2. CASE ~ (IsTable(b) /\ Hash[v] # NoHash)
  <2>1. s \in Seq(Values) /\ NoDuplicates(s) /\ Elements(b) = ToSet(s)
    BY BodyFacts
  <2>2. InSeq(s, v) <=> HasEq(Elements(b), v)
    BY <2>1 DEF InSeq, HasEq, ToSet
  <2>3. add_value(b, v) = IF InSeq(s, v) THEN b ELSE Fallback(e)
    BY <1>2 DEF add_value
  <2>4. CASE InSeq(s, v)
    BY <2>2, <2>3, <2>4 DEF Plus
  <2>5. CASE ~ InSeq(s, v)
    <3> DEFINE n == Len(s)
    <3> HIDE DEF s
    <3>1. /\ e \in Seq(Values) /\ DOMAIN e = 1 .. (n + 1) /\ e[n + 1] = v /\ n \in Nat
          /\ DOMAIN s = 1 .. n /\ \A k \in 1 .. n : e[k] = s[k]
      BY <2>1
    <3>2. \A k \in 1 .. n : ~ Eq(s[k], v) /\ ~ Eq(v, s[k])
      BY <2>5, <3>1 DEF InSeq, Eq
    <3> HIDE DEF e
    <3>3. NoDuplicates(e)
      <4> SUFFICES ASSUME NEW j \in 1 .. (n + 1), NEW k \in 1 .. (n + 1), Eq(e[j], e[k]) PROVE j = k
        BY <3>1 DEF NoDuplicates
      <4>1. (j \in 1 .. n \/ j = n + 1) /\ (k \in 1 .. n \/ k = n + 1)
        BY <3>1
      <4> QED
        BY <2>1, <3>1, <3>2, <4>1 DEF NoDuplicates
    <3>4. ToSet(e) = ToSet(s) \cup {v}
      <4>1. 1 .. (n + 1) = (1 .. n) \cup {n + 1}
        BY <3>1
      <4> QED
        BY <3>1, <4>1 DEF ToSet
    <3>5. IsBody(Fallback(e)) /\ Elements(Fallback(e)) = ToSet(e)
      BY <3>1, <3>3, FallbackBody
    <3>6. Plus(Elements(b), v) = ToSet(e)
      BY <2>1, <2>2, <2>5, <3>4 DEF Plus
    <3> QED
      BY <2>3, <2>5, <3>5, <3>6
  <2> QED
    BY <2>4, <2>5
<1> QED
  BY <1>1, <1>2

(* A sequence without the item at p. *)
LEMMA Removed ==
    ASSUME NEW s \in Seq(Values), NoDuplicates(s), NEW p \in 1 .. Len(s)
    PROVE  /\ RemoveAt(s, p) \in Seq(Values) /\ NoDuplicates(RemoveAt(s, p))
           /\ ToSet(RemoveAt(s, p)) = ToSet(s) \ {s[p]}
<1> DEFINE n == Len(s)
           r == RemoveAt(s, p)
           a == SubSeq(s, 1, p - 1)
           z == SubSeq(s, p + 1, n)
<1>1. n \in Nat /\ p \in Nat /\ DOMAIN s = 1 .. n /\ \A k \in 1 .. n : s[k] \in Values
  OBVIOUS
<1>2. r = a \o z
  BY DEF RemoveAt
<1>3. a \in Seq(Values) /\ Len(a) = p - 1 /\ \A k \in 1 .. (p - 1) : a[k] = s[k]
  <2> HIDE DEF n
  <2> QED
    BY <1>1
<1>4. z \in Seq(Values) /\ Len(z) = n - p /\ \A k \in 1 .. (n - p) : z[k] = s[p + k]
  <2>1. \A k \in 1 .. ((n - (p + 1)) + 1) : z[k] = s[((p + 1) + k) - 1]
    BY <1>1
  <2> HIDE DEF n
  <2>2. z \in Seq(Values) /\ Len(z) = (n - (p + 1)) + 1
    <3>1. \A k \in (p + 1) .. n : s[k] \in Values
      BY <1>1
    <3> DEFINE m == p + 1
    <3>4. p \in 1 .. n /\ n \in Nat
      BY <1>1 DEF n
    <3>2. m \in Int /\ n \in Int /\ (IF m <= n THEN n - m + 1 ELSE 0) = (n - m) + 1
      BY <3>4
    <3> HIDE DEF m
    <3>3. SubSeq(s, m, n) \in Seq(Values) /\ Len(SubSeq(s, m, n)) = IF m <= n THEN n - m + 1 ELSE 0
      BY <3>1, <3>2, SubSeqProperties DEF m
    <3> QED
      BY <3>2, <3>3 DEF m
  <2> HIDE DEF z
  <2>3. (n - (p + 1)) + 1 = n - p
    BY <1>1
  <2>4. ASSUME NEW k \in 1 .. (n - p) PROVE z[k] = s[p + k]
    <3>1. ((p + 1) + k) - 1 = p + k
      BY <1>1
    <3> QED
      BY <2>1, <2>3, <3>1
  <2> QED
    BY <2>2, <2>3, <2>4
<1> HIDE DEF a, z, n, r
<1>5. /\ r \in Seq(Values) /\ DOMAIN r = 1 .. (n - 1)
      /\ \A k \in 1 .. (p - 1) : r[k] = s[k]
      /\ \A k \in p .. (n - 1) : r[k] = s[k + 1]
  <2>1. r \in Seq(Values) /\ Len(r) = (p - 1) + (n - p)
    BY <1>2, <1>3, <1>4
  <2>2. (p - 1) + (n - p) = n - 1
    BY <1>1
  <2>3. ASSUME NEW k \in 1 .. (p - 1) PROVE r[k] = s[k]
    BY <1>2, <1>3, <1>4
  <2>4. ASSUME NEW k \in p .. (n - 1) PROVE r[k] = s[k + 1]
    <3>1. k - (p - 1) \in 1 .. (n - p) /\ p + (k - (p - 1)) = k + 1 /\ k \in 1 .. (Len(a) + Len(z)) /\ k \notin 1 .. Len(a)
      <4> DEFINE la == Len(a)
                 lz == Len(z)
      <4>1. la = p - 1 /\ lz = n - p
        BY <1>1, <1>3, <1>4
      <4>2. n \in Nat /\ p \in 1 .. n /\ k \in p .. (n - 1)
        BY <1>1
      <4> HIDE DEF la, lz
      <4>3. k - (p - 1) \in 1 .. (n - p) /\ p + (k - (p - 1)) = k + 1 /\ k \in 1 .. (la + lz) /\ k \notin 1 .. la
        BY <4>1, <4>2
      <4> QED
        BY <4>3 DEF la, lz
    <3>2. r[k] = z[k - Len(a)]
      <4> HIDE DEF a, z, r
      <4>1. \A i \in 1 .. (Len(a) + Len(z)) : (a \o z)[i] = IF i <= Len(a) THEN a[i] ELSE z[i - Len(a)]
        BY <1>3, <1>4, ConcatProperties
      <4>2. Len(a) \in Nat /\ k \in Int
        BY <1>1, <1>3
      <4> QED
        BY <1>2, <3>1, <4>1, <4>2
    <3> QED
      BY <1>3, <1>4, <3>1, <3>2
  <2>5. DOMAIN r = 1 .. Len(r)
    BY <2>1
  <2> QED
    BY <2>1, <2>2, <2>3, <2>4, <2>5
<1> DEFINE at(k) == IF k < p THEN k ELSE k + 1
<1>6. \A k \in 1 .. (n - 1) : at(k) \in 1 .. n /\ at(k) # p /\ r[k] = s[at(k)]
  BY <1>1, <1>5
<1>7. \A j, k \in 1 .. (n - 1) : at(j) = at(k) => j = k
  BY <1>1
<1>8. ASSUME NEW j \in 1 .. n, j # p PROVE \E k \in 1 .. (n - 1) : at(k) = j
  <2>1. CASE j < p
    <3>1. j \in 1 .. (n - 1) /\ at(j) = j
      BY <1>1, <2>1
    <3> QED
      BY <3>1
  <2>2. CASE ~ (j < p)
    <3>1. j - 1 \in 1 .. (n - 1) /\ at(j - 1) = j
      BY <1>1, <1>8, <2>2
    <3> QED
      BY <3>1
  <2> QED
    BY <2>1, <2>2
<1> HIDE DEF at
<1>9. NoDuplicates(r)
  <2> SUFFICES ASSUME NEW j \in 1 .. (n - 1), NEW k \in 1 .. (n - 1), Eq(r[j], r[k]) PROVE j = k
    BY <1>5 DEF NoDuplicates
  <2>1. Eq(s[at(j)], s[at(k)])
    BY <1>6
  <2>2. at(j) = at(k)
    BY <1>1, <1>6, <2>1 DEF NoDuplicates
  <2> QED
    BY <1>7, <2>2
<1>10. \A w : w \in ToSet(r) <=> \E k \in 1 .. (n - 1) : w = r[k]
  BY <1>5 DEF ToSet
<1>11. \A w : w \in ToSet(s) <=> \E k \in 1 .. n : w = s[k]
  BY <1>1 DEF ToSet
<1>12. \A k \in 1 .. n : s[k] = s[p] => k = p
  BY <1>1 DEF NoDuplicates, Eq
<1>13. ASSUME NEW w \in ToSet(r) PROVE w \in ToSet(s) \ {s[p]}
  BY <1>6, <1>10, <1>11, <1>12
<1>14. ASSUME NEW w \in ToSet(s) \ {s[p]} PROVE w \in ToSet(r)
  <2>1. PICK j \in 1 .. n : w = s[j]
    BY <1>11
  <2>2. PICK k \in 1 .. (n - 1) : at(k) = j
    BY <1>8, <2>1
  <2> QED
    BY <1>6, <1>10, <2>1, <2>2
<1>15. ToSet(r) = ToSet(s) \ {s[p]}
  BY <1>13, <1>14
<1> QED
  BY <1>5, <1>9, <1>15 DEF r

(* A value discarded from a body. *)
LEMMA discard_valueFacts ==
    ASSUME NEW b, IsBody(b), NEW v \in Values
    PROVE  IsBody(discard_value(b, v)) /\ Elements(discard_value(b, v)) = Minus(Elements(b), v)
<1>1. contains(b, v) <=> HasEq(Elements(b), v)
  BY ContainsFacts
<1>2. CASE ~ contains(b, v)
  <2>1. Minus(Elements(b), v) = Elements(b)
    BY <1>1, <1>2 DEF Minus, HasEq
  <2> QED
    BY <1>2, <2>1 DEF discard_value
<1>3. CASE contains(b, v) /\ IsTable(b)
  <2>1. Whole(b) /\ Elements(b) = Acts(b) /\ v \in Hashed
    BY <1>3, BodyFacts DEF contains, Hashed
  <2>2. Whole(TableDiscard(b, v)) /\ Acts(TableDiscard(b, v)) = Minus(Acts(b), v)
    BY <2>1, TableDiscardFacts
  <2>3. discard_value(b, v) = TableDiscard(b, v)
    BY <1>3 DEF discard_value
  <2> QED
    BY <2>1, <2>2, <2>3, TableBody
<1>4. CASE contains(b, v) /\ ~ IsTable(b)
  <2> DEFINE s == b.items
             I == {k \in 1 .. Len(s) : Eq(s[k], v)}
             p == SelectInSeq(s, LAMBDA x : Eq(x, v))
             r == RemoveAt(s, p)
  <2>1. s \in Seq(Values) /\ NoDuplicates(s) /\ Elements(b) = ToSet(s)
    BY <1>4, BodyFacts DEF iter_ordered
  <2>2. discard_value(b, v) = Fallback(r)
    BY <1>4 DEF discard_value
  <2>3. p = IF I # {} THEN Min(I) ELSE 0
    BY DEF SelectInSeq
  <2> HIDE DEF s
  <2>4. DOMAIN s = 1 .. Len(s) /\ Len(s) \in Nat
    BY <2>1
  <2>5. I # {} /\ I \subseteq Nat \ {0} /\ I \subseteq 1 .. Len(s)
    BY <1>4, <2>4 DEF contains, InSeq, s
  <2>6. p = Min(I) /\ Min(I) \in I
    BY <2>3, <2>5, FirstPlace
  <2>7. p \in 1 .. Len(s) /\ Eq(s[p], v)
    BY <2>6
  <2> HIDE DEF p, I
  <2>8. r \in Seq(Values) /\ NoDuplicates(r) /\ ToSet(r) = ToSet(s) \ {s[p]}
    BY <2>1, <2>7, Removed
  <2>9. \A k \in 1 .. Len(s) : Eq(s[k], v) <=> s[k] = s[p]
    BY <2>1, <2>4, <2>7 DEF NoDuplicates, Eq
  <2>10. Minus(ToSet(s), v) = ToSet(s) \ {s[p]}
    BY <2>4, <2>9 DEF Minus, ToSet
  <2> HIDE DEF r
  <2> QED
    BY <2>1, <2>2, <2>8, <2>10, FallbackBody
<1> QED
  BY <1>2, <1>3, <1>4

(* A value toggled in a body. *)
LEMMA toggle_valueFacts ==
    ASSUME NEW b, IsBody(b), NEW v \in Values
    PROVE  IsBody(toggle_value(b, v)) /\ Elements(toggle_value(b, v)) = Flip(Elements(b), v)
<1>1. contains(b, v) <=> HasEq(Elements(b), v)
  BY ContainsFacts
<1>2. IsBody(add_value(b, v)) /\ Elements(add_value(b, v)) = Plus(Elements(b), v)
  BY add_valueFacts
<1>3. IsBody(discard_value(b, v)) /\ Elements(discard_value(b, v)) = Minus(Elements(b), v)
  BY discard_valueFacts
<1> QED
  BY <1>1, <1>2, <1>3 DEF toggle_value, Flip, Plus

(* Adding values joins them. *)
LEMMA add_allFacts ==
    ASSUME NEW t, IsBody(t), NEW items \in Seq(Values)
    PROVE  IsBody(add_all(t, items)) /\ Joined(Elements(t), ToSet(items), Elements(add_all(t, items)))
<1> DEFINE N == Len(items)
           S == Elements(t)
<1>1. N \in Nat /\ DOMAIN items = 1 .. N
  OBVIOUS
<1>2. PICK g : /\ g[0] = t /\ add_all(t, items) = g[N]
               /\ \A k \in 1 .. N : g[k] = add_value(g[k - 1], items[k])
  BY <1>1, add_allRun
<1>3. /\ Upto(items, 0) = {} /\ Upto(items, N) = ToSet(items)
      /\ \A k \in Nat : Upto(items, k + 1) = Upto(items, k) \cup {items[k + 1]}
  BY <1>1, UptoFacts
<1> HIDE DEF N
<1> DEFINE P(k) == IsBody(g[k]) /\ Joined(S, Upto(items, k), Elements(g[k]))
           A == {k \in 0 .. N : P(k)}
<1>4. 0 \in A
  <2>1. Joined(S, {}, S)
    BY NoItems, BodyFacts
  <2>2. P(0)
    BY <1>2, <1>3, <2>1
  <2> HIDE DEF P
  <2> QED
    BY <1>1, <2>2
<1>5. ASSUME NEW k \in 0 .. (N - 1), k \in A PROVE k + 1 \in A
  <2> DEFINE a == g[k]
             x == items[k + 1]
  <2>1. IsBody(a) /\ Joined(S, Upto(items, k), Elements(a))
    BY <1>5
  <2>2. k + 1 \in 1 .. N /\ (k + 1) - 1 = k /\ k \in Nat /\ k + 1 \in 0 .. N
    BY <1>1
  <2>3. g[k + 1] = add_value(a, x)
    BY <1>2, <2>2
  <2>4. x \in Values
    BY <1>1, <2>2
  <2> HIDE DEF a, x
  <2>5. IsBody(add_value(a, x)) /\ Elements(add_value(a, x)) = Plus(Elements(a), x)
    BY <2>1, <2>4, add_valueFacts
  <2>6. Joined(S, Upto(items, k) \cup {x}, Plus(Elements(a), x))
    BY <2>1, JoinStep
  <2>7. P(k + 1)
    BY <1>3, <2>2, <2>3, <2>5, <2>6 DEF x
  <2> HIDE DEF P
  <2> QED
    BY <2>2, <2>7
<1> HIDE DEF P
<1>6. \A k \in 0 .. N : k \in A
  BY <1>1, <1>4, <1>5, UpTo
<1>7. P(N)
  BY <1>1, <1>6
<1> QED
  BY <1>2, <1>3, <1>7 DEF P

(* Discarding values takes them away. *)
LEMMA discard_allFacts ==
    ASSUME NEW t, IsBody(t), NEW items \in Seq(Values)
    PROVE  IsBody(discard_all(t, items)) /\ Lessened(Elements(t), ToSet(items), Elements(discard_all(t, items)))
<1> DEFINE N == Len(items)
           S == Elements(t)
<1>1. N \in Nat /\ DOMAIN items = 1 .. N
  OBVIOUS
<1>2. PICK g : /\ g[0] = t /\ discard_all(t, items) = g[N]
               /\ \A k \in 1 .. N : g[k] = discard_value(g[k - 1], items[k])
  BY <1>1, discard_allRun
<1>3. /\ Upto(items, 0) = {} /\ Upto(items, N) = ToSet(items)
      /\ \A k \in Nat : Upto(items, k + 1) = Upto(items, k) \cup {items[k + 1]}
  BY <1>1, UptoFacts
<1> HIDE DEF N
<1> DEFINE P(k) == IsBody(g[k]) /\ Lessened(S, Upto(items, k), Elements(g[k]))
           A == {k \in 0 .. N : P(k)}
<1>4. 0 \in A
  <2>1. Lessened(S, {}, S)
    BY NoItems
  <2>2. P(0)
    BY <1>2, <1>3, <2>1
  <2> HIDE DEF P
  <2> QED
    BY <1>1, <2>2
<1>5. ASSUME NEW k \in 0 .. (N - 1), k \in A PROVE k + 1 \in A
  <2> DEFINE a == g[k]
             x == items[k + 1]
  <2>1. IsBody(a) /\ Lessened(S, Upto(items, k), Elements(a))
    BY <1>5
  <2>2. k + 1 \in 1 .. N /\ (k + 1) - 1 = k /\ k \in Nat /\ k + 1 \in 0 .. N
    BY <1>1
  <2>3. g[k + 1] = discard_value(a, x)
    BY <1>2, <2>2
  <2>4. x \in Values
    BY <1>1, <2>2
  <2> HIDE DEF a, x
  <2>5. IsBody(discard_value(a, x)) /\ Elements(discard_value(a, x)) = Minus(Elements(a), x)
    BY <2>1, <2>4, discard_valueFacts
  <2>6. Lessened(S, Upto(items, k) \cup {x}, Minus(Elements(a), x))
    BY <2>1, LessStep
  <2>7. P(k + 1)
    BY <1>3, <2>2, <2>3, <2>5, <2>6 DEF x
  <2> HIDE DEF P
  <2> QED
    BY <2>2, <2>7
<1> HIDE DEF P
<1>6. \A k \in 0 .. N : k \in A
  BY <1>1, <1>4, <1>5, UpTo
<1>7. P(N)
  BY <1>1, <1>6
<1> QED
  BY <1>2, <1>3, <1>7 DEF P

(* Toggling values of which no two are equal leaves what is not shared. *)
LEMMA toggle_allFacts ==
    ASSUME NEW t, IsBody(t), NEW items \in Seq(Values), NoDuplicates(items)
    PROVE  IsBody(toggle_all(t, items)) /\ Toggled(Elements(t), ToSet(items), Elements(toggle_all(t, items)))
<1> DEFINE N == Len(items)
           S == Elements(t)
<1>1. N \in Nat /\ DOMAIN items = 1 .. N
  OBVIOUS
<1>2. PICK g : /\ g[0] = t /\ toggle_all(t, items) = g[N]
               /\ \A k \in 1 .. N : g[k] = toggle_value(g[k - 1], items[k])
  BY <1>1, toggle_allRun
<1>3. /\ Upto(items, 0) = {} /\ Upto(items, N) = ToSet(items)
      /\ \A k \in Nat : Upto(items, k + 1) = Upto(items, k) \cup {items[k + 1]}
  BY <1>1, UptoFacts
<1> HIDE DEF N
<1> DEFINE P(k) == IsBody(g[k]) /\ Toggled(S, Upto(items, k), Elements(g[k]))
           A == {k \in 0 .. N : P(k)}
<1>4. 0 \in A
  <2>1. Toggled(S, {}, S)
    BY NoItems
  <2>2. P(0)
    BY <1>2, <1>3, <2>1
  <2> HIDE DEF P
  <2> QED
    BY <1>1, <2>2
<1>5. ASSUME NEW k \in 0 .. (N - 1), k \in A PROVE k + 1 \in A
  <2> DEFINE a == g[k]
             x == items[k + 1]
  <2>1. IsBody(a) /\ Toggled(S, Upto(items, k), Elements(a))
    BY <1>5
  <2>2. k + 1 \in 1 .. N /\ (k + 1) - 1 = k /\ k \in Nat /\ k + 1 \in 0 .. N
    BY <1>1
  <2>3. g[k + 1] = toggle_value(a, x)
    BY <1>2, <2>2
  <2>4. x \in Values
    BY <1>1, <2>2
  <2>8. ~ HasEq(Upto(items, k), x)
    <3> SUFFICES ASSUME NEW j \in 1 .. k, Eq(items[j], x) PROVE FALSE
      BY DEF HasEq, Upto
    <3>1. j \in 1 .. N /\ j # k + 1
      BY <1>1, <2>2
    <3> QED
      BY <1>1, <2>2, <3>1 DEF NoDuplicates
  <2> HIDE DEF a, x
  <2>5. IsBody(toggle_value(a, x)) /\ Elements(toggle_value(a, x)) = Flip(Elements(a), x)
    BY <2>1, <2>4, toggle_valueFacts
  <2>6. Toggled(S, Upto(items, k) \cup {x}, Flip(Elements(a), x))
    BY <2>1, <2>8, FlipStep
  <2>7. P(k + 1)
    BY <1>3, <2>2, <2>3, <2>5, <2>6 DEF x
  <2> HIDE DEF P
  <2> QED
    BY <2>2, <2>7
<1> HIDE DEF P
<1>6. \A k \in 0 .. N : k \in A
  BY <1>1, <1>4, <1>5, UpTo
<1>7. P(N)
  BY <1>1, <1>6
<1> QED
  BY <1>2, <1>3, <1>7 DEF P

-----------------------------------------------------------------------------
(* Operations on two bodies *)

(* A body a method iterates over: a list without a hash may repeat values. *)
Iterable(b) == IF IsTable(b) THEN Whole(b) ELSE b = Fallback(b.items) /\ b.items \in Seq(Values)

(* S and T have values of the same classes. *)
SameClasses(S, T) == \A v : HasEq(S, v) <=> HasEq(T, v)

(* A body can be iterated over. *)
LEMMA BodyIterable ==
    ASSUME NEW b, IsBody(b)
    PROVE  Iterable(b)
BY WholeIs DEF IsBody, Iterable

(* What an iterable body yields and contains. *)
LEMMA IterableFacts ==
    ASSUME NEW b, Iterable(b)
    PROVE  /\ iter_ordered(b) \in Seq(Values) /\ Elements(b) = ToSet(iter_ordered(b))
           /\ \A v \in Values : contains(b, v) <=> HasEq(Elements(b), v)
<1>1. CASE IsTable(b)
  <2>1. IsBody(b)
    BY <1>1, TableBody DEF Iterable
  <2> QED
    BY <2>1, BodyFacts, ContainsFacts
<1>2. CASE ~ IsTable(b)
  <2>1. iter_ordered(b) = b.items /\ b.items \in Seq(Values)
    BY <1>2 DEF Iterable, iter_ordered
  <2>2. Elements(b) = ToSet(b.items)
    BY <2>1 DEF Elements
  <2>3. \A v \in Values : contains(b, v) <=> HasEq(ToSet(b.items), v)
    BY <1>2 DEF contains, InSeq, HasEq, ToSet
  <2> QED
    BY <2>1, <2>2, <2>3
<1> QED
  BY <1>1, <1>2

(* A copy, a compaction and a new body. *)
LEMMA CopiedFacts ==
    ASSUME NEW b, IsBody(b)
    PROVE  /\ IsBody(copied(b)) /\ Elements(copied(b)) = Elements(b)
           /\ IsBody(compact_if_sparse(b)) /\ Elements(compact_if_sparse(b)) = Elements(b)
<1>1. CASE IsTable(b)
  <2>1. Whole(b) /\ Elements(b) = Acts(b)
    BY <1>1, BodyFacts
  <2>2. Whole(TableCopy(b)) /\ Acts(TableCopy(b)) = Acts(b)
    BY <2>1, TableCopyFacts
  <2>3. Whole(TableCompact(b)) /\ Acts(TableCompact(b)) = Acts(b)
    BY <2>1, ShrinkFacts DEF Whole
  <2> QED
    BY <1>1, <2>1, <2>2, <2>3, TableBody DEF copied, compact_if_sparse
<1>2. CASE ~ IsTable(b)
  BY <1>2 DEF copied, compact_if_sparse
<1> QED
  BY <1>1, <1>2

(* The empty set is an empty table. *)
LEMMA EmptyFacts ==
    IsBody(empty) /\ IsTable(empty) /\ Elements(empty) = {}
BY NewTable, TableBody DEF empty

(* pop takes out the first value, if there is one. *)
LEMMA PopFacts ==
    ASSUME NEW b, IsBody(b)
    PROVE  /\ BodyLen(b) = 0 <=> Elements(b) = {}
           /\ BodyLen(b) # 0 => /\ IsBody(pop_first(b)) /\ iter_ordered(b)[1] \in Elements(b)
                                /\ Elements(pop_first(b)) = Elements(b) \ {iter_ordered(b)[1]}
<1> DEFINE s == iter_ordered(b)
<1>1. s \in Seq(Values) /\ NoDuplicates(s) /\ Elements(b) = ToSet(s)
  BY BodyFacts
<1>2. BodyLen(b) = Len(s)
  <2>1. CASE IsTable(b)
    <3>1. Whole(b) /\ s = Actives(b)
      BY <2>1, BodyFacts
    <3>2. Len(Actives(b)) = b.used
      BY <3>1, ActivesFacts DEF Whole, Counted
    <3> QED
      BY <2>1, <3>1, <3>2 DEF BodyLen
  <2>2. CASE ~ IsTable(b)
    BY <2>2 DEF BodyLen, iter_ordered
  <2> QED
    BY <2>1, <2>2
<1>5. BodyLen(b) = 0 <=> Elements(b) = {}
  <2> DEFINE n == Len(s)
  <2> HIDE DEF s
  <2>1. n \in Nat /\ DOMAIN s = 1 .. n
    BY <1>1
  <2>2. n = 0 => ToSet(s) = {}
    BY <2>1 DEF ToSet
  <2>3. n # 0 => s[1] \in ToSet(s)
    BY <2>1 DEF ToSet
  <2> QED
    BY <1>1, <1>2, <2>2, <2>3
<1>3. CASE IsTable(b) /\ BodyLen(b) # 0
  <2>1. Whole(b) /\ s = Actives(b) /\ Elements(b) = Acts(b) /\ b.used # 0
    BY <1>3, BodyFacts DEF BodyLen
  <2>2. /\ Whole(TablePop(b)) /\ Actives(b)[1] \in Acts(b)
        /\ Acts(TablePop(b)) = Acts(b) \ {Actives(b)[1]}
    BY <2>1, TablePopFacts
  <2>3. pop_first(b) = TablePop(b)
    BY <1>3 DEF pop_first
  <2> QED
    BY <1>3, <1>5, <2>1, <2>2, <2>3, TableBody
<1>4. CASE ~ IsTable(b) /\ BodyLen(b) # 0
  <2> DEFINE t == Tail(s)
             n == Len(s)
  <2>1. pop_first(b) = Fallback(t)
    BY <1>4 DEF pop_first, iter_ordered
  <2> HIDE DEF s
  <2>2. n \in Nat \ {0} /\ DOMAIN s = 1 .. n
    BY <1>1, <1>2, <1>4
  <2>3. t \in Seq(Values) /\ DOMAIN t = 1 .. (n - 1) /\ \A k \in 1 .. (n - 1) : t[k] = s[k + 1]
    BY <1>1, <2>2
  <2> HIDE DEF t, n
  <2>4. \A j, k \in 1 .. n : Eq(s[j], s[k]) => j = k
    BY <1>1, <2>2 DEF NoDuplicates
  <2>5. NoDuplicates(t)
    <3> SUFFICES ASSUME NEW j \in 1 .. (n - 1), NEW k \in 1 .. (n - 1), Eq(t[j], t[k]) PROVE j = k
      BY <2>3 DEF NoDuplicates
    <3>1. j + 1 \in 1 .. n /\ k + 1 \in 1 .. n /\ Eq(s[j + 1], s[k + 1])
      BY <2>2, <2>3
    <3>2. j + 1 = k + 1
      BY <2>4, <3>1
    <3> QED
      BY <2>2, <3>2
  <2>6. ASSUME NEW j \in 1 .. n, j # 1 PROVE \E k \in 1 .. (n - 1) : j = k + 1
    <3>1. j - 1 \in 1 .. (n - 1) /\ j = (j - 1) + 1
      BY <2>2, <2>6
    <3> QED
      BY <3>1
  <2>9. \A k \in 1 .. (n - 1) : k + 1 \in 1 .. n /\ 1 \in 1 .. n
    BY <2>2
  <2>7. \A k \in 1 .. (n - 1) : ~ (s[k + 1] = s[1])
    <3> SUFFICES ASSUME NEW k \in 1 .. (n - 1), s[k + 1] = s[1] PROVE FALSE
      OBVIOUS
    <3>1. k + 1 \in 1 .. n /\ 1 \in 1 .. n /\ Eq(s[k + 1], s[1])
      BY <2>2 DEF Eq
    <3> QED
      BY <2>2, <2>4, <3>1
  <2>8. ToSet(t) = ToSet(s) \ {s[1]} /\ s[1] \in ToSet(s)
    <3>1. \A w : w \in ToSet(t) <=> \E k \in 1 .. (n - 1) : w = s[k + 1]
      BY <2>3 DEF ToSet
    <3>3. 1 \in 1 .. n
      BY <2>2
    <3>2. \A w : w \in ToSet(s) <=> w = s[1] \/ \E k \in 1 .. (n - 1) : w = s[k + 1]
      BY <2>2, <2>6, <2>9, <3>3 DEF ToSet
    <3> QED
      BY <2>7, <3>1, <3>2
  <2>10. IsBody(Fallback(t)) /\ Elements(Fallback(t)) = ToSet(t)
    BY <2>3, <2>5, FallbackBody
  <2>11. Elements(b) = ToSet(s)
    BY <1>1
  <2>12. /\ IsBody(pop_first(b)) /\ s[1] \in Elements(b)
         /\ Elements(pop_first(b)) = Elements(b) \ {s[1]}
    BY <2>1, <2>8, <2>10, <2>11
  <2> QED
    BY <2>12, <1>4, <1>5 DEF s
<1> QED
  BY <1>3, <1>4, <1>5

(* Merging a body. *)
LEMMA MergeFromFacts ==
    ASSUME NEW a, IsBody(a), NEW b, IsBody(b)
    PROVE  IsBody(merge_from(a, b)) /\ Joined(Elements(a), Elements(b), Elements(merge_from(a, b)))
<1>1. CASE BothTables(a, b)
  <2>1. Whole(a) /\ Whole(b) /\ Elements(a) = Acts(a) /\ Elements(b) = Acts(b)
    BY <1>1, BodyFacts DEF BothTables
  <2>2. Whole(merge(a, b)) /\ Joined(Acts(a), Acts(b), Acts(merge(a, b)))
    BY <2>1, MergeFacts
  <2>3. merge_from(a, b) = merge(a, b)
    BY <1>1 DEF merge_from
  <2> QED
    BY <2>1, <2>2, <2>3, TableBody
<1>2. CASE ~ BothTables(a, b)
  <2>1. merge_from(a, b) = add_all(a, iter_ordered(b))
    BY <1>2 DEF merge_from
  <2>2. iter_ordered(b) \in Seq(Values) /\ Elements(b) = ToSet(iter_ordered(b))
    BY BodyFacts
  <2> QED
    BY <2>1, <2>2, add_allFacts
<1> QED
  BY <1>1, <1>2

(* Taking away the values of a body. *)
LEMMA DifferenceFromFacts ==
    ASSUME NEW a, IsBody(a), NEW b, Iterable(b)
    PROVE  /\ IsBody(difference_from(a, b))
           /\ Elements(difference_from(a, b)) = Lacking(Elements(a), Elements(b))
<1>1. CASE BothTables(a, b)
  <2>1. Whole(a) /\ Whole(b) /\ Elements(a) = Acts(a) /\ Elements(b) = Acts(b)
    BY <1>1, BodyFacts, TableBody DEF BothTables, Iterable
  <2>2. /\ Whole(difference_update(a, b))
        /\ Acts(difference_update(a, b)) = Lacking(Acts(a), Acts(b))
    BY <2>1, DifferenceUpdateFacts
  <2>3. difference_from(a, b) = difference_update(a, b)
    BY <1>1 DEF difference_from
  <2> QED
    BY <2>1, <2>2, <2>3, TableBody
<1>2. CASE ~ BothTables(a, b)
  <2> DEFINE d == discard_all(a, iter_ordered(b))
  <2>1. difference_from(a, b) = compact_if_sparse(d)
    BY <1>2 DEF difference_from
  <2>2. iter_ordered(b) \in Seq(Values) /\ Elements(b) = ToSet(iter_ordered(b))
    BY IterableFacts
  <2>3. IsBody(d) /\ Lessened(Elements(a), Elements(b), Elements(d))
    BY <2>2, discard_allFacts
  <2> QED
    BY <2>1, <2>3, CopiedFacts DEF Lessened
<1> QED
  BY <1>1, <1>2

(* union_with, which copies first. *)
LEMMA UnionWithFacts ==
    ASSUME NEW a, IsBody(a), NEW b, IsBody(b)
    PROVE  IsBody(union_with(a, b)) /\ Joined(Elements(a), Elements(b), Elements(union_with(a, b)))
<1>1. CASE BothTables(a, b)
  <2>1. Whole(a) /\ Whole(b) /\ Elements(a) = Acts(a) /\ Elements(b) = Acts(b)
    BY <1>1, BodyFacts DEF BothTables
  <2>2. Whole(TableCopy(a)) /\ Acts(TableCopy(a)) = Acts(a)
    BY <2>1, TableCopyFacts
  <2>3. Whole(TableUnion(a, b)) /\ Joined(Acts(a), Acts(b), Acts(TableUnion(a, b)))
    BY <2>1, <2>2, MergeFacts DEF TableUnion
  <2>4. union_with(a, b) = TableUnion(a, b)
    BY <1>1 DEF union_with
  <2> QED
    BY <2>1, <2>3, <2>4, TableBody
<1>2. CASE ~ BothTables(a, b)
  <2>1. union_with(a, b) = merge_from(copied(a), b)
    BY <1>2 DEF union_with
  <2>2. IsBody(copied(a)) /\ Elements(copied(a)) = Elements(a)
    BY CopiedFacts
  <2> QED
    BY <2>1, <2>2, MergeFromFacts
<1> QED
  BY <1>1, <1>2

(* The items that a body contains too. *)
LEMMA KeptFacts ==
    ASSUME NEW b, IsBody(b), NEW items \in Seq(Values)
    PROVE  /\ IsBody(Kept(b, items))
           /\ Shared(Elements(b), ToSet(items), Elements(Kept(b, items)))
           /\ Shared(ToSet(items), Elements(b), Elements(Kept(b, items)))
<1> DEFINE V == {v \in Values : contains(b, v)}
           f == Filter(items, V)
           u == add_all(empty, f)
<1>1. Kept(b, items) = u
  BY DEF Kept
<1>2. \A v \in Values : v \in V <=> HasEq(Elements(b), v)
  BY ContainsFacts
<1> HIDE DEF V
<1>3. f \in Seq(Values \cap V) /\ ToSet(f) = ToSet(items) \cap V
  BY FilterSet
<1> HIDE DEF f
<1>4. f \in Seq(Values)
  BY <1>3
<1>5. IsBody(u) /\ Joined({}, ToSet(f), Elements(u))
  BY <1>4, EmptyFacts, add_allFacts
<1>6. \A v \in ToSet(items) : v \in Values
  BY DEF ToSet
<1>7. \A v : v \in ToSet(f) <=> v \in ToSet(items) /\ HasEq(Elements(b), v)
  BY <1>2, <1>3, <1>6
<1> QED
  BY <1>1, <1>5, <1>7, SharedFrom

(* The intersection of two bodies. *)
LEMMA IntersectionWithFacts ==
    ASSUME NEW a, IsBody(a), NEW b, IsBody(b)
    PROVE  /\ IsBody(intersection_with(a, b))
           /\ Shared(Elements(a), Elements(b), Elements(intersection_with(a, b)))
<1>1. CASE BothTables(a, b)
  <2>1. Whole(a) /\ Whole(b) /\ Elements(a) = Acts(a) /\ Elements(b) = Acts(b)
    BY <1>1, BodyFacts DEF BothTables
  <2>2. /\ Whole(TableIntersection(a, b))
        /\ Shared(Acts(a), Acts(b), Acts(TableIntersection(a, b)))
    BY <2>1, TableIntersectionFacts
  <2>3. intersection_with(a, b) = TableIntersection(a, b)
    BY <1>1 DEF intersection_with
  <2> QED
    BY <2>1, <2>2, <2>3, TableBody
<1>2. CASE ~ BothTables(a, b)
  <2>1. \/ intersection_with(a, b) = Kept(a, iter_ordered(b))
        \/ intersection_with(a, b) = Kept(b, iter_ordered(a))
    BY <1>2 DEF intersection_with
  <2>2. /\ iter_ordered(a) \in Seq(Values) /\ Elements(a) = ToSet(iter_ordered(a))
        /\ iter_ordered(b) \in Seq(Values) /\ Elements(b) = ToSet(iter_ordered(b))
    BY BodyFacts
  <2>3. /\ IsBody(Kept(a, iter_ordered(b)))
        /\ Shared(Elements(a), Elements(b), Elements(Kept(a, iter_ordered(b))))
    BY <2>2, KeptFacts
  <2>4. /\ IsBody(Kept(b, iter_ordered(a)))
        /\ Shared(Elements(a), Elements(b), Elements(Kept(b, iter_ordered(a))))
    BY <2>2, KeptFacts
  <2> QED
    BY <2>1, <2>3, <2>4
<1> QED
  BY <1>1, <1>2

(* The difference of two bodies. *)
LEMMA DifferenceWithFacts ==
    ASSUME NEW a, IsBody(a), NEW b, IsBody(b)
    PROVE  /\ IsBody(difference_with(a, b))
           /\ Elements(difference_with(a, b)) = Lacking(Elements(a), Elements(b))
<1>1. CASE BothTables(a, b)
  <2>1. Whole(a) /\ Whole(b) /\ Elements(a) = Acts(a) /\ Elements(b) = Acts(b)
    BY <1>1, BodyFacts DEF BothTables
  <2>2. Whole(TableDifference(a, b)) /\ Acts(TableDifference(a, b)) = Lacking(Acts(a), Acts(b))
    BY <2>1, TableDifferenceFacts
  <2>3. difference_with(a, b) = TableDifference(a, b)
    BY <1>1 DEF difference_with
  <2> QED
    BY <2>1, <2>2, <2>3, TableBody
<1>2. CASE ~ BothTables(a, b)
  <2>1. difference_with(a, b) = difference_from(copied(a), b)
    BY <1>2 DEF difference_with
  <2>2. IsBody(copied(a)) /\ Elements(copied(a)) = Elements(a) /\ Iterable(b)
    BY CopiedFacts, BodyIterable
  <2> QED
    BY <2>1, <2>2, DifferenceFromFacts
<1> QED
  BY <1>1, <1>2

(* The symmetric difference of two bodies, and toggling one in the other. *)
LEMMA SymmetricFacts ==
    ASSUME NEW a, IsBody(a), NEW b, IsBody(b)
    PROVE  /\ IsBody(symmetric_difference_with(a, b))
           /\ Toggled(Elements(a), Elements(b), Elements(symmetric_difference_with(a, b)))
           /\ IsBody(toggle_all(a, iter_ordered(b)))
           /\ Toggled(Elements(a), Elements(b), Elements(toggle_all(a, iter_ordered(b))))
<1>1. \A R : Toggled(Elements(b), Elements(a), R) <=> Toggled(Elements(a), Elements(b), R)
  BY DEF Toggled
<1>2. ASSUME NEW x, IsBody(x), NEW y, IsBody(y)
      PROVE  /\ IsBody(toggle_all(x, iter_ordered(y)))
             /\ Toggled(Elements(x), Elements(y), Elements(toggle_all(x, iter_ordered(y))))
  <2>1. /\ iter_ordered(y) \in Seq(Values) /\ Elements(y) = ToSet(iter_ordered(y))
        /\ NoDuplicates(iter_ordered(y))
    BY <1>2, BodyFacts
  <2> QED
    BY <1>2, <2>1, toggle_allFacts
<1>3. CASE BothTables(a, b)
  <2>1. Whole(a) /\ Whole(b) /\ Elements(a) = Acts(a) /\ Elements(b) = Acts(b)
    BY <1>3, BodyFacts DEF BothTables
  <2>2. Whole(TableSymmetric(a, b)) /\ Toggled(Acts(b), Acts(a), Acts(TableSymmetric(a, b)))
    BY <2>1, TableSymmetricFacts
  <2>3. symmetric_difference_with(a, b) = TableSymmetric(a, b)
    BY <1>3 DEF symmetric_difference_with
  <2>4. IsBody(TableSymmetric(a, b)) /\ Elements(TableSymmetric(a, b)) = Acts(TableSymmetric(a, b))
    BY <2>2, TableBody
  <2> QED
    BY <1>1, <1>2, <2>1, <2>2, <2>3, <2>4
<1>4. CASE ~ BothTables(a, b)
  <2>1. symmetric_difference_with(a, b) = toggle_all(copied(b), iter_ordered(a))
    BY <1>4 DEF symmetric_difference_with
  <2>2. IsBody(copied(b)) /\ Elements(copied(b)) = Elements(b)
    BY CopiedFacts
  <2>3. /\ IsBody(toggle_all(copied(b), iter_ordered(a)))
        /\ Toggled(Elements(b), Elements(a), Elements(toggle_all(copied(b), iter_ordered(a))))
    BY <1>2, <2>2
  <2> QED
    BY <1>1, <1>2, <2>1, <2>3
<1> QED
  BY <1>3, <1>4

-----------------------------------------------------------------------------
(* The arguments of a method *)

(* A set made from a list.  Values without a hash are kept as they come.     *)
LEMMA FromItemsFacts ==
    ASSUME NEW items \in Seq(Values), NEW b, b = from_items(items)
    PROVE  /\ Iterable(b) /\ SameClasses(Elements(b), ToSet(items)) /\ Elements(b) \subseteq ToSet(items)
           /\ AllHashed(items) \/ NoDuplicates(items) => IsBody(b)
<1>1. CASE AllHashed(items)
  <2>1. items \in Seq(Hashed)
    <3>1. DOMAIN items = 1 .. Len(items) /\ Len(items) \in Nat
      OBVIOUS
    <3>2. \A k \in 1 .. Len(items) : items[k] \in Hashed
      BY <1>1, <3>1 DEF AllHashed, Hashed
    <3> QED
      BY <3>1, <3>2
  <2>2. b = table_from_incremental(items)
    BY <1>1 DEF from_items
  <2>3. Whole(b) /\ Joined({}, ToSet(items), Acts(b))
    BY <2>1, <2>2, IncrementalFacts
  <2>4. IsBody(b) /\ Elements(b) = Acts(b)
    BY <2>3, TableBody
  <2>5. SameClasses(Acts(b), ToSet(items))
    BY <2>3, LackingJoined DEF SameClasses
  <2>6. Acts(b) \subseteq ToSet(items)
    BY <2>3 DEF Joined
  <2> QED
    BY <2>4, <2>5, <2>6, BodyIterable
<1>2. CASE ~ AllHashed(items)
  <2>1. b = Fallback(items)
    BY <1>2 DEF from_items
  <2>2. /\ ~ IsTable(b) /\ b.items = items /\ Elements(b) = ToSet(items)
        /\ NoDuplicates(items) => IsBody(b)
    BY <2>1, FallbackBody
  <2> QED
    BY <1>2, <2>1, <2>2 DEF Iterable, SameClasses
<1> QED
  BY <1>1, <1>2

(* What an argument that can be iterated stands for. *)
LEMMA ArgFacts ==
    ASSUME NEW a, IsArg(a), a.kind # "bad", NEW b, IsBody(b), NEW T, T = ItemsOf(a, Elements(b))
    PROVE  /\ IsSetArg(a) => IsBody(ArgSet(a, b)) /\ Elements(ArgSet(a, b)) = T
           /\ ~ IsSetArg(a) => a.kind = "list" /\ a.items \in Seq(Values) /\ ToSet(a.items) = T
           /\ iterate_value(a, b) \in Seq(Values) /\ ToSet(iterate_value(a, b)) = T
           /\ Iterable(arg_body(a, b)) /\ SameClasses(Elements(arg_body(a, b)), T)
           /\ Elements(arg_body(a, b)) \subseteq T
           /\ (a.kind = "list" => AllHashed(a.items) \/ NoDuplicates(a.items)) => IsBody(arg_body(a, b))
<1>1. /\ a.kind = "self" => T = Elements(b)
      /\ a.kind = "set" => T = Elements(a.body) /\ IsBody(a.body)
      /\ a.kind = "list" => T = ToSet(a.items) /\ a.items \in Seq(Values)
      /\ a.kind = "self" \/ a.kind = "set" \/ a.kind = "list"
  <2>1. SelfArg.kind = "self" /\ BadArg.kind = "bad"
    BY DEF SelfArg, BadArg
  <2>2. \/ a.kind = "self"
        \/ a.kind = "set" /\ IsBody(a.body)
        \/ a.kind = "list" /\ a.items \in Seq(Values)
    BY <2>1 DEF IsArg
  <2>3. "self" # "set" /\ "self" # "list" /\ "set" # "list"
    OBVIOUS
  <2> QED
    BY <2>2, <2>3 DEF ItemsOf
<1>2. CASE IsSetArg(a)
  <2> DEFINE s == ArgSet(a, b)
  <2>1. IsBody(s) /\ Elements(s) = T
    BY <1>1, <1>2 DEF IsSetArg, ArgSet
  <2>2. arg_body(a, b) = s /\ iterate_value(a, b) = iter_ordered(s)
    BY <1>2 DEF arg_body, iterate_value
  <2> HIDE DEF s
  <2>3. iter_ordered(s) \in Seq(Values) /\ ToSet(iter_ordered(s)) = T
    BY <2>1, BodyFacts
  <2>4. Iterable(s) /\ SameClasses(T, T)
    BY <2>1, BodyIterable DEF SameClasses
  <2> QED
    BY <1>2, <2>1, <2>2, <2>3, <2>4 DEF s
<1>3. CASE ~ IsSetArg(a)
  <2>1. a.kind = "list" /\ a.items \in Seq(Values) /\ ToSet(a.items) = T
    BY <1>1, <1>3 DEF IsSetArg
  <2>2. arg_body(a, b) = from_items(a.items) /\ iterate_value(a, b) = a.items
    BY <1>3 DEF arg_body, iterate_value
  <2>3. /\ Iterable(arg_body(a, b)) /\ SameClasses(Elements(arg_body(a, b)), T)
        /\ Elements(arg_body(a, b)) \subseteq T
        /\ AllHashed(a.items) \/ NoDuplicates(a.items) => IsBody(arg_body(a, b))
    BY <2>1, <2>2, FromItemsFacts
  <2> QED
    BY <1>3, <2>1, <2>2, <2>3
<1> QED
  BY <1>2, <1>3

(* One argument of union, intersection and difference. *)
LEMMA OneArgument ==
    ASSUME NEW a, IsArg(a), a.kind # "bad", NEW b, IsBody(b), NEW T, T = ItemsOf(a, Elements(b)),
           NEW acc, IsBody(acc)
    PROVE  /\ IsBody(apply_union(acc, a, b)) /\ Joined(Elements(acc), T, Elements(apply_union(acc, a, b)))
           /\ IsBody(intersect_arg(acc, a, b)) /\ Shared(Elements(acc), T, Elements(intersect_arg(acc, a, b)))
           /\ IsBody(apply_difference(acc, a, b))
           /\ Lessened(Elements(acc), T, Elements(apply_difference(acc, a, b)))
<1> DEFINE s == ArgSet(a, b)
           y == arg_body(a, b)
<1>1. /\ IsSetArg(a) => IsBody(s) /\ Elements(s) = T
      /\ ~ IsSetArg(a) => a.items \in Seq(Values) /\ ToSet(a.items) = T
      /\ Iterable(y) /\ SameClasses(Elements(y), T)
  BY ArgFacts
<1>2. IsBody(apply_difference(acc, a, b)) /\ Lessened(Elements(acc), T, Elements(apply_difference(acc, a, b)))
  <2>1. apply_difference(acc, a, b) = difference_from(acc, y)
    BY DEF apply_difference
  <2> HIDE DEF y
  <2>2. IsBody(difference_from(acc, y)) /\ Elements(difference_from(acc, y)) = Lacking(Elements(acc), Elements(y))
    BY <1>1, DifferenceFromFacts
  <2>3. Lacking(Elements(acc), Elements(y)) = Lacking(Elements(acc), T)
    BY <1>1 DEF SameClasses, Lacking
  <2> QED
    BY <2>1, <2>2, <2>3 DEF Lessened
<1> HIDE DEF s, y
<1>3. IsBody(apply_union(acc, a, b)) /\ Joined(Elements(acc), T, Elements(apply_union(acc, a, b)))
  <2>1. CASE IsSetArg(a)
    BY <1>1, <2>1, MergeFromFacts DEF apply_union, s
  <2>2. CASE ~ IsSetArg(a)
    BY <1>1, <2>2, add_allFacts DEF apply_union
  <2> QED
    BY <2>1, <2>2
<1>4. IsBody(intersect_arg(acc, a, b)) /\ Shared(Elements(acc), T, Elements(intersect_arg(acc, a, b)))
  <2>1. CASE IsSetArg(a)
    BY <1>1, <2>1, IntersectionWithFacts DEF intersect_arg, s
  <2>2. CASE ~ IsSetArg(a)
    BY <1>1, <2>2, KeptFacts DEF intersect_arg
  <2> QED
    BY <2>1, <2>2
<1> QED
  BY <1>2, <1>3, <1>4

(* The arguments of a call that does not fail. *)
Sane(args) == args \in Seq({a \in Args : a.kind # "bad"})

(* What any number of sets, Ts, makes of S. *)
JoinedAll(S, Ts, R) == Joined(S, UNION Ts, R)
LessenedAll(S, Ts, R) == Lessened(S, UNION Ts, R)
SharedAll(S, Ts, R) ==
    /\ R \subseteq S \cup UNION Ts /\ OneOf(R)
    /\ \A v \in R : HasEq(S, v) /\ \A T \in Ts : HasEq(T, v)
    /\ \A v \in S : (\A T \in Ts : HasEq(T, v)) => HasEq(R, v)

(* Without arguments a set stays as it is. *)
LEMMA NoArguments ==
    ASSUME NEW S
    PROVE  /\ OneOf(S) => JoinedAll(S, {}, S) /\ SharedAll(S, {}, S)
           /\ LessenedAll(S, {}, S)
<1>1. \A v \in S : HasEq(S, v)
  BY DEF HasEq, Eq
<1>2. UNION {} = {}
  OBVIOUS
<1> QED
  BY <1>1, <1>2, NoItems DEF JoinedAll, LessenedAll, SharedAll

(* One more argument. *)
LEMMA JoinArgument ==
    ASSUME NEW S, NEW Ts, NEW R, NEW T, NEW Q, JoinedAll(S, Ts, R), Joined(R, T, Q)
    PROVE  JoinedAll(S, Ts \cup {T}, Q)
<1>1. UNION (Ts \cup {T}) = (UNION Ts) \cup T
  OBVIOUS
<1> QED
  BY <1>1, JoinTwice DEF JoinedAll

(* One more set is taken away. *)
LEMMA LessArgument ==
    ASSUME NEW S, NEW Ts, NEW R, NEW T, NEW Q, LessenedAll(S, Ts, R), Lessened(R, T, Q)
    PROVE  LessenedAll(S, Ts \cup {T}, Q)
<1>1. UNION (Ts \cup {T}) = (UNION Ts) \cup T
  OBVIOUS
<1>2. \A v : HasEq((UNION Ts) \cup T, v) <=> HasEq(UNION Ts, v) \/ HasEq(T, v)
  BY DEF HasEq
<1> QED
  BY <1>1, <1>2 DEF LessenedAll, Lessened, Lacking

(* One more set is intersected with. *)
LEMMA ShareArgument ==
    ASSUME NEW S, NEW Ts, NEW R, NEW T, NEW Q, SharedAll(S, Ts, R), Shared(R, T, Q)
    PROVE  SharedAll(S, Ts \cup {T}, Q)
<1> DEFINE Us == Ts \cup {T}
<1>1. UNION Us = (UNION Ts) \cup T
  OBVIOUS
<1>2. Q \subseteq S \cup UNION Us /\ OneOf(Q)
  BY <1>1 DEF SharedAll, Shared
<1>3. ASSUME NEW v \in Q PROVE HasEq(S, v) /\ \A U \in Us : HasEq(U, v)
  <2>1. PICK r \in R : Eq(r, v)
    BY DEF Shared, HasEq
  <2>2. HasEq(S, r) /\ \A U \in Ts : HasEq(U, r)
    BY DEF SharedAll
  <2>3. \A U : HasEq(U, r) => HasEq(U, v)
    BY <2>1 DEF HasEq, Eq
  <2>4. HasEq(T, v)
    BY DEF Shared
  <2> QED
    BY <2>2, <2>3, <2>4
<1>4. ASSUME NEW v \in S, \A U \in Us : HasEq(U, v) PROVE HasEq(Q, v)
  <2>1. PICK r \in R : Eq(r, v)
    BY <1>4 DEF SharedAll, HasEq
  <2>2. HasEq(T, r)
    BY <1>4, <2>1 DEF HasEq, Eq
  <2>3. HasEq(Q, r)
    BY <2>2 DEF Shared
  <2> QED
    BY <2>1, <2>3 DEF HasEq, Eq
<1> QED
  BY <1>2, <1>3, <1>4 DEF SharedAll

(* The values of the first k arguments. *)
UptoArgs(args, S, k) == {ItemsOf(args[j], S) : j \in 1 .. k}

(* The arguments are taken one at a time. *)
LEMMA UptoArgsFacts ==
    ASSUME NEW args, Sane(args), NEW S
    PROVE  /\ UptoArgs(args, S, 0) = {} /\ UptoArgs(args, S, Len(args)) = ArgSets(args, S)
           /\ \A k \in Nat : UptoArgs(args, S, k + 1) = UptoArgs(args, S, k) \cup {ItemsOf(args[k + 1], S)}
           /\ Len(args) \in Nat /\ DOMAIN args = 1 .. Len(args)
           /\ \A k \in 1 .. Len(args) : IsArg(args[k]) /\ args[k].kind # "bad"
<1>1. Len(args) \in Nat /\ DOMAIN args = 1 .. Len(args)
  BY DEF Sane
<1>2. \A k \in 1 .. Len(args) : args[k] \in Args /\ args[k].kind # "bad"
  BY DEF Sane
<1>3. \A k \in 1 .. Len(args) : IsArg(args[k]) /\ args[k].kind # "bad"
  BY <1>2, CallsAssumption
<1>4. UptoArgs(args, S, 0) = {} /\ UptoArgs(args, S, Len(args)) = ArgSets(args, S)
  BY <1>1 DEF UptoArgs, ArgSets
<1>5. ASSUME NEW k \in Nat
      PROVE  UptoArgs(args, S, k + 1) = UptoArgs(args, S, k) \cup {ItemsOf(args[k + 1], S)}
  <2>1. 1 .. (k + 1) = (1 .. k) \cup {k + 1}
    OBVIOUS
  <2> QED
    BY <2>1 DEF UptoArgs
<1> QED
  BY <1>1, <1>3, <1>4, <1>5

(* All the arguments of union and update. *)
LEMMA UnionAllFacts ==
    ASSUME NEW acc, IsBody(acc), NEW args, Sane(args), NEW b, IsBody(b)
    PROVE  /\ IsBody(UnionAll(acc, args, b))
           /\ JoinedAll(Elements(acc), ArgSets(args, Elements(b)), Elements(UnionAll(acc, args, b)))
<1> DEFINE N == Len(args)
           S == Elements(acc)
           B == Elements(b)
<1>1. /\ UptoArgs(args, B, 0) = {} /\ UptoArgs(args, B, N) = ArgSets(args, B)
      /\ \A k \in Nat : UptoArgs(args, B, k + 1) = UptoArgs(args, B, k) \cup {ItemsOf(args[k + 1], B)}
      /\ N \in Nat /\ DOMAIN args = 1 .. N
      /\ \A k \in 1 .. N : IsArg(args[k]) /\ args[k].kind # "bad"
  BY UptoArgsFacts
<1>2. PICK g : /\ g[0] = acc /\ UnionAll(acc, args, b) = g[N]
               /\ \A k \in 1 .. N : g[k] = apply_union(g[k - 1], args[k], b)
  BY <1>1, UnionAllRun
<1> HIDE DEF N
<1> DEFINE P(k) == IsBody(g[k]) /\ JoinedAll(S, UptoArgs(args, B, k), Elements(g[k]))
           A == {k \in 0 .. N : P(k)}
<1>3. 0 \in A
  <2>1. JoinedAll(S, {}, S)
    BY NoArguments, BodyFacts
  <2>2. P(0)
    BY <1>1, <1>2, <2>1
  <2> HIDE DEF P
  <2> QED
    BY <1>1, <2>2
<1>4. ASSUME NEW k \in 0 .. (N - 1), k \in A PROVE k + 1 \in A
  <2> DEFINE r == g[k]
             a == args[k + 1]
             T == ItemsOf(a, B)
             q == apply_union(r, a, b)
  <2>1. IsBody(r) /\ JoinedAll(S, UptoArgs(args, B, k), Elements(r))
    BY <1>4
  <2>2. k + 1 \in 1 .. N /\ (k + 1) - 1 = k /\ k \in Nat /\ k + 1 \in 0 .. N
    BY <1>1
  <2>3. g[k + 1] = q
    BY <1>2, <2>2
  <2>4. IsArg(a) /\ a.kind # "bad"
    BY <1>1, <2>2
  <2> HIDE DEF r, a
  <2>5. IsBody(q) /\ Joined(Elements(r), T, Elements(q))
    BY <2>1, <2>4, OneArgument
  <2> HIDE DEF T, q
  <2>6. JoinedAll(S, UptoArgs(args, B, k) \cup {T}, Elements(q))
    BY <2>1, <2>5, JoinArgument
  <2>7. P(k + 1)
    BY <1>1, <2>2, <2>3, <2>5, <2>6 DEF a, T
  <2> HIDE DEF P
  <2> QED
    BY <2>2, <2>7
<1> HIDE DEF P
<1>5. \A k \in 0 .. N : k \in A
  BY <1>1, <1>3, <1>4, UpTo
<1>6. P(N)
  BY <1>1, <1>5
<1> QED
  BY <1>1, <1>2, <1>6 DEF P


(* All the arguments of intersection. *)
LEMMA IntersectAllFacts ==
    ASSUME NEW acc, IsBody(acc), NEW args, Sane(args), NEW b, IsBody(b)
    PROVE  /\ IsBody(IntersectAll(acc, args, b))
           /\ SharedAll(Elements(acc), ArgSets(args, Elements(b)), Elements(IntersectAll(acc, args, b)))
<1> DEFINE N == Len(args)
           S == Elements(acc)
           B == Elements(b)
<1>1. /\ UptoArgs(args, B, 0) = {} /\ UptoArgs(args, B, N) = ArgSets(args, B)
      /\ \A k \in Nat : UptoArgs(args, B, k + 1) = UptoArgs(args, B, k) \cup {ItemsOf(args[k + 1], B)}
      /\ N \in Nat /\ DOMAIN args = 1 .. N
      /\ \A k \in 1 .. N : IsArg(args[k]) /\ args[k].kind # "bad"
  BY UptoArgsFacts
<1>2. PICK g : /\ g[0] = acc /\ IntersectAll(acc, args, b) = g[N]
               /\ \A k \in 1 .. N : g[k] = intersect_arg(g[k - 1], args[k], b)
  BY <1>1, IntersectAllRun
<1> HIDE DEF N
<1> DEFINE P(k) == IsBody(g[k]) /\ SharedAll(S, UptoArgs(args, B, k), Elements(g[k]))
           A == {k \in 0 .. N : P(k)}
<1>3. 0 \in A
  <2>1. SharedAll(S, {}, S)
    BY NoArguments, BodyFacts
  <2>2. P(0)
    BY <1>1, <1>2, <2>1
  <2> HIDE DEF P
  <2> QED
    BY <1>1, <2>2
<1>4. ASSUME NEW k \in 0 .. (N - 1), k \in A PROVE k + 1 \in A
  <2> DEFINE r == g[k]
             a == args[k + 1]
             T == ItemsOf(a, B)
             q == intersect_arg(r, a, b)
  <2>1. IsBody(r) /\ SharedAll(S, UptoArgs(args, B, k), Elements(r))
    BY <1>4
  <2>2. k + 1 \in 1 .. N /\ (k + 1) - 1 = k /\ k \in Nat /\ k + 1 \in 0 .. N
    BY <1>1
  <2>3. g[k + 1] = q
    BY <1>2, <2>2
  <2>4. IsArg(a) /\ a.kind # "bad"
    BY <1>1, <2>2
  <2> HIDE DEF r, a
  <2>5. IsBody(q) /\ Shared(Elements(r), T, Elements(q))
    BY <2>1, <2>4, OneArgument
  <2> HIDE DEF T, q
  <2>6. SharedAll(S, UptoArgs(args, B, k) \cup {T}, Elements(q))
    BY <2>1, <2>5, ShareArgument
  <2>7. P(k + 1)
    BY <1>1, <2>2, <2>3, <2>5, <2>6 DEF a, T
  <2> HIDE DEF P
  <2> QED
    BY <2>2, <2>7
<1> HIDE DEF P
<1>5. \A k \in 0 .. N : k \in A
  BY <1>1, <1>3, <1>4, UpTo
<1>6. P(N)
  BY <1>1, <1>5
<1> QED
  BY <1>1, <1>2, <1>6 DEF P


(* All the arguments of difference. *)
LEMMA DifferenceAllFacts ==
    ASSUME NEW acc, IsBody(acc), NEW args, Sane(args), NEW b, IsBody(b)
    PROVE  /\ IsBody(DifferenceAll(acc, args, b))
           /\ LessenedAll(Elements(acc), ArgSets(args, Elements(b)), Elements(DifferenceAll(acc, args, b)))
<1> DEFINE N == Len(args)
           S == Elements(acc)
           B == Elements(b)
<1>1. /\ UptoArgs(args, B, 0) = {} /\ UptoArgs(args, B, N) = ArgSets(args, B)
      /\ \A k \in Nat : UptoArgs(args, B, k + 1) = UptoArgs(args, B, k) \cup {ItemsOf(args[k + 1], B)}
      /\ N \in Nat /\ DOMAIN args = 1 .. N
      /\ \A k \in 1 .. N : IsArg(args[k]) /\ args[k].kind # "bad"
  BY UptoArgsFacts
<1>2. PICK g : /\ g[0] = acc /\ DifferenceAll(acc, args, b) = g[N]
               /\ \A k \in 1 .. N : g[k] = apply_difference(g[k - 1], args[k], b)
  BY <1>1, DifferenceAllRun
<1> HIDE DEF N
<1> DEFINE P(k) == IsBody(g[k]) /\ LessenedAll(S, UptoArgs(args, B, k), Elements(g[k]))
           A == {k \in 0 .. N : P(k)}
<1>3. 0 \in A
  <2>1. LessenedAll(S, {}, S)
    BY NoArguments, BodyFacts
  <2>2. P(0)
    BY <1>1, <1>2, <2>1
  <2> HIDE DEF P
  <2> QED
    BY <1>1, <2>2
<1>4. ASSUME NEW k \in 0 .. (N - 1), k \in A PROVE k + 1 \in A
  <2> DEFINE r == g[k]
             a == args[k + 1]
             T == ItemsOf(a, B)
             q == apply_difference(r, a, b)
  <2>1. IsBody(r) /\ LessenedAll(S, UptoArgs(args, B, k), Elements(r))
    BY <1>4
  <2>2. k + 1 \in 1 .. N /\ (k + 1) - 1 = k /\ k \in Nat /\ k + 1 \in 0 .. N
    BY <1>1
  <2>3. g[k + 1] = q
    BY <1>2, <2>2
  <2>4. IsArg(a) /\ a.kind # "bad"
    BY <1>1, <2>2
  <2> HIDE DEF r, a
  <2>5. IsBody(q) /\ Lessened(Elements(r), T, Elements(q))
    BY <2>1, <2>4, OneArgument
  <2> HIDE DEF T, q
  <2>6. LessenedAll(S, UptoArgs(args, B, k) \cup {T}, Elements(q))
    BY <2>1, <2>5, LessArgument
  <2>7. P(k + 1)
    BY <1>1, <2>2, <2>3, <2>5, <2>6 DEF a, T
  <2> HIDE DEF P
  <2> QED
    BY <2>2, <2>7
<1> HIDE DEF P
<1>5. \A k \in 0 .. N : k \in A
  BY <1>1, <1>3, <1>4, UpTo
<1>6. P(N)
  BY <1>1, <1>5
<1> QED
  BY <1>1, <1>2, <1>6 DEF P

(* A call's arguments, when none fails; the methods that do not fold have one. *)
LEMMA CallFacts ==
    ASSUME NEW c \in Calls, NEW op, NEW args, op = c[1], args = c[2], ~ Fails(args)
    PROVE  /\ Sane(args) /\ op \in Combines \cup Asking
           /\ op \notin Folding =>
                /\ Len(args) = 1 /\ args[1] \in Args /\ IsArg(args[1]) /\ args[1].kind # "bad"
                /\ \A S : ArgSets(args, S) = {ItemsOf(args[1], S)}
           /\ op \in Binary => IsSetArg(args[1])
           /\ op \in Toggling /\ args[1].kind = "list" =>
                AllHashed(args[1].items) \/ NoDuplicates(args[1].items)
<1> DEFINE X == {a \in Args : a.kind # "bad"}
<1>1. /\ op \in Combines \cup Asking /\ args \in Seq(Args)
      /\ op \notin Folding => Len(args) = 1
      /\ op \in Binary => IsSetArg(args[1])
      /\ op \in Toggling /\ args[1].kind = "list" =>
           AllHashed(args[1].items) \/ NoDuplicates(args[1].items)
  BY CallsAssumption
<1>2. args \in Seq(X)
  <2>1. \A k \in 1 .. Len(args) : args[k] \in Args /\ args[k].kind # "bad"
    BY <1>1 DEF Fails
  <2>2. \A k \in 1 .. Len(args) : args[k] \in X
    BY <2>1
  <2> HIDE DEF X
  <2>3. args \in [1 .. Len(args) -> X] /\ Len(args) \in Nat
    BY <1>1, <2>2
  <2> QED
    BY <2>3, SeqDef
<1>3. ASSUME op \notin Folding
      PROVE  /\ args[1] \in Args /\ IsArg(args[1]) /\ args[1].kind # "bad"
             /\ \A S : ArgSets(args, S) = {ItemsOf(args[1], S)}
  <2>1. DOMAIN args = {1} /\ args[1] \in Args
    BY <1>1, <1>3
  <2>2. args[1].kind # "bad"
    BY <2>1 DEF Fails
  <2>3. ASSUME NEW S PROVE ArgSets(args, S) = {ItemsOf(args[1], S)}
    BY <2>1 DEF ArgSets
  <2> QED
    BY <2>1, <2>2, <2>3, CallsAssumption
<1> QED
  BY <1>1, <1>2, <1>3 DEF Sane

(* R is one of the sets an operation may make of S and the sets Ts. *)
Meant(op, S, Ts, R) ==
    /\ op = "union" => JoinedAll(S, Ts, R)
    /\ op = "intersection" => SharedAll(S, Ts, R)
    /\ op = "difference" => LessenedAll(S, Ts, R)
    /\ op = "rdifference" => R = Lacking(UNION Ts, S) /\ OneOf(UNION Ts)
    /\ op = "symmetric" =>
         \E T \in SUBSET UNION Ts : OneOf(T) /\ SameClasses(T, UNION Ts) /\ Toggled(S, T, R)

(* The methods of any number of arguments. *)
LEMMA FoldingFacts ==
    ASSUME NEW c \in Calls, NEW op, NEW args, op = c[1], args = c[2], ~ Fails(args), op \in Folding,
           IsBody(body)
    PROVE  /\ IsBody(Combine(op, args))
           /\ Meant(Meaning(op), Elements(body), ArgSets(args, Elements(body)), Elements(Combine(op, args)))
<1> DEFINE S == Elements(body)
           Ts == ArgSets(args, S)
           R == Combine(op, args)
<1>1. Sane(args)
  BY CallFacts
<1>2. IsBody(copied(body)) /\ Elements(copied(body)) = S
  BY CopiedFacts
<1>3. CASE op \in {"union", "update"}
  <2>1. Meaning(op) = "union"
    BY <1>3 DEF Meaning
  <2>2. R = UnionAll(copied(body), args, body) \/ R = UnionAll(body, args, body)
    BY <1>3 DEF Combine
  <2>3. IsBody(R) /\ JoinedAll(S, Ts, Elements(R))
    <3> HIDE DEF S, R
    <3>1. /\ IsBody(UnionAll(copied(body), args, body))
          /\ JoinedAll(S, Ts, Elements(UnionAll(copied(body), args, body)))
      BY <1>1, <1>2, UnionAllFacts DEF S
    <3>2. IsBody(UnionAll(body, args, body)) /\ JoinedAll(S, Ts, Elements(UnionAll(body, args, body)))
      BY <1>1, UnionAllFacts DEF S
    <3> QED
      BY <2>2, <3>1, <3>2
  <2> HIDE DEF S, Ts, R
  <2>4. Meant(Meaning(op), S, Ts, Elements(R))
    BY <2>1, <2>3 DEF Meant
  <2> QED
    BY <2>3, <2>4 DEF S, Ts, R
<1>4. CASE op \in {"intersection", "intersection_update"}
  <2>1. Meaning(op) = "intersection"
    BY <1>4 DEF Meaning
  <2>2. (args = <<>> /\ R = copied(body)) \/ R = IntersectAll(body, args, body)
    BY <1>4 DEF Combine
  <2>3. IsBody(R) /\ SharedAll(S, Ts, Elements(R))
    <3>1. ASSUME args = <<>>, R = copied(body)
          PROVE  IsBody(R) /\ SharedAll(S, Ts, Elements(R))
      <4>1. Ts = {}
        BY <3>1 DEF ArgSets
      <4>2. OneOf(S)
        BY BodyFacts
      <4> HIDE DEF S, Ts, R
      <4>3. SharedAll(S, {}, S)
        BY <4>2, NoArguments
      <4> QED
        BY <1>2, <3>1, <4>1, <4>3
    <3>2. IsBody(IntersectAll(body, args, body)) /\ SharedAll(S, Ts, Elements(IntersectAll(body, args, body)))
      BY <1>1, IntersectAllFacts
    <3> HIDE DEF S, Ts, R
    <3> QED
      BY <2>2, <3>1, <3>2
  <2> HIDE DEF S, Ts, R
  <2>4. Meant(Meaning(op), S, Ts, Elements(R))
    BY <2>1, <2>3 DEF Meant
  <2> QED
    BY <2>3, <2>4 DEF S, Ts, R
<1>5. CASE op \in {"difference", "difference_update"}
  <2>1. Meaning(op) = "difference"
    BY <1>5 DEF Meaning
  <2>2. R = DifferenceAll(copied(body), args, body) \/ R = DifferenceAll(body, args, body)
    BY <1>5 DEF Combine
  <2>3. IsBody(R) /\ LessenedAll(S, Ts, Elements(R))
    <3> HIDE DEF S, R
    <3>1. /\ IsBody(DifferenceAll(copied(body), args, body))
          /\ LessenedAll(S, Ts, Elements(DifferenceAll(copied(body), args, body)))
      BY <1>1, <1>2, DifferenceAllFacts DEF S
    <3>2. IsBody(DifferenceAll(body, args, body)) /\ LessenedAll(S, Ts, Elements(DifferenceAll(body, args, body)))
      BY <1>1, DifferenceAllFacts DEF S
    <3> QED
      BY <2>2, <3>1, <3>2
  <2> HIDE DEF S, Ts, R
  <2>4. Meant(Meaning(op), S, Ts, Elements(R))
    BY <2>1, <2>3 DEF Meant
  <2> QED
    BY <2>3, <2>4 DEF S, Ts, R
<1> QED
  BY <1>3, <1>4, <1>5 DEF Folding

(* The methods that toggle their only argument. *)
LEMMA TogglingFacts ==
    ASSUME NEW c \in Calls, NEW op, NEW args, op = c[1], args = c[2], ~ Fails(args), op \in Toggling,
           IsBody(body)
    PROVE  /\ IsBody(Combine(op, args))
           /\ Meant(Meaning(op), Elements(body), ArgSets(args, Elements(body)), Elements(Combine(op, args)))
<1> DEFINE S == Elements(body)
           Ts == ArgSets(args, S)
           b == arg_body(args[1], body)
           R == Combine(op, args)
<1>1. /\ IsArg(args[1]) /\ args[1].kind # "bad" /\ UNION Ts = ItemsOf(args[1], S)
      /\ args[1].kind = "list" => AllHashed(args[1].items) \/ NoDuplicates(args[1].items)
  <2>1. op \notin Folding
    BY DEF Toggling, Folding
  <2>2. /\ Len(args) = 1 /\ args[1] \in Args /\ IsArg(args[1]) /\ args[1].kind # "bad"
        /\ \A X : ArgSets(args, X) = {ItemsOf(args[1], X)}
    BY <2>1, CallFacts
  <2>3. ArgSets(args, S) = {ItemsOf(args[1], S)}
    BY <2>2
  <2>4. UNION ArgSets(args, S) = ItemsOf(args[1], S)
    BY <2>3
  <2>5. /\ op \in Binary => IsSetArg(args[1])
        /\ op \in Toggling /\ args[1].kind = "list" =>
             AllHashed(args[1].items) \/ NoDuplicates(args[1].items)
    BY CallFacts
  <2> QED
    BY <2>2, <2>3, <2>4, <2>5
<1>2. IsBody(b) /\ Elements(b) \subseteq UNION Ts /\ SameClasses(Elements(b), UNION Ts)
  BY <1>1, ArgFacts
<1>3. OneOf(Elements(b))
  BY <1>2, BodyFacts
<1>4. Meaning(op) = "symmetric"
  BY DEF Meaning, Toggling
<1>5. R = symmetric_difference_with(body, b) \/ R = toggle_all(body, iter_ordered(b))
  BY DEF Combine, Toggling
<1>6. IsBody(R) /\ Toggled(S, Elements(b), Elements(R))
  <2> HIDE DEF R, b
  <2> QED
    BY <1>2, <1>5, SymmetricFacts
<1>7. Meant(Meaning(op), S, Ts, Elements(R))
  <2> HIDE DEF S, Ts, b, R
  <2>1. \E T \in SUBSET UNION Ts : OneOf(T) /\ SameClasses(T, UNION Ts) /\ Toggled(S, T, Elements(R))
    BY <1>2, <1>3, <1>6
  <2> QED
    BY <1>4, <2>1 DEF Meant
<1> QED
  BY <1>6, <1>7

(* The operators. *)
LEMMA BinaryFacts ==
    ASSUME NEW c \in Calls, NEW op, NEW args, op = c[1], args = c[2], ~ Fails(args), op \in Binary,
           IsBody(body)
    PROVE  /\ IsBody(Combine(op, args))
           /\ Meant(Meaning(op), Elements(body), ArgSets(args, Elements(body)), Elements(Combine(op, args)))
<1> DEFINE S == Elements(body)
           Ts == ArgSets(args, S)
           b == ArgSet(args[1], body)
           T == Elements(b)
           R == Combine(op, args)
<1>1. /\ IsArg(args[1]) /\ args[1].kind # "bad" /\ IsSetArg(args[1])
      /\ UNION Ts = ItemsOf(args[1], S) /\ Ts = {ItemsOf(args[1], S)}
  <2>1. op \notin Folding
    BY DEF Binary, Folding
  <2>2. /\ Len(args) = 1 /\ args[1] \in Args /\ IsArg(args[1]) /\ args[1].kind # "bad"
        /\ \A X : ArgSets(args, X) = {ItemsOf(args[1], X)}
    BY <2>1, CallFacts
  <2>3. ArgSets(args, S) = {ItemsOf(args[1], S)}
    BY <2>2
  <2>4. UNION ArgSets(args, S) = ItemsOf(args[1], S)
    BY <2>3
  <2>5. /\ op \in Binary => IsSetArg(args[1])
        /\ op \in Toggling /\ args[1].kind = "list" =>
             AllHashed(args[1].items) \/ NoDuplicates(args[1].items)
    BY CallFacts
  <2> QED
    BY <2>2, <2>3, <2>4, <2>5
<1>2. IsBody(b) /\ UNION Ts = T /\ Ts = {T}
  BY <1>1, ArgFacts
<1>3. OneOf(T) /\ OneOf(S)
  BY <1>2, BodyFacts
<1>4. CASE op = "or"
  <2>1. Meaning(op) = "union" /\ R = union_with(body, b)
    BY <1>4 DEF Meaning, Combine
  <2> HIDE DEF b, R, Ts
  <2>2. IsBody(R) /\ JoinedAll(S, Ts, Elements(R))
    <3>1. IsBody(R) /\ Joined(S, T, Elements(R))
      BY <1>2, <2>1, UnionWithFacts
    <3>2. UNION Ts = T
      BY <1>2
    <3> HIDE DEF S, T
    <3> QED
      BY <3>1, <3>2 DEF JoinedAll
  <2>3. Meant(Meaning(op), S, Ts, Elements(R))
    BY <2>1, <2>2 DEF Meant
  <2> QED
    BY <2>2, <2>3 DEF R, Ts
<1>5. CASE op = "and"
  <2>1. Meaning(op) = "intersection" /\ R = intersection_with(body, b)
    BY <1>5 DEF Meaning, Combine
  <2> HIDE DEF b, R, Ts
  <2>2. IsBody(R) /\ Shared(S, T, Elements(R))
    BY <1>2, <2>1, IntersectionWithFacts
  <2>3. SharedAll(S, Ts, Elements(R))
    <3> HIDE DEF S, T
    <3> QED
      BY <1>2, <2>2 DEF Shared, SharedAll
  <2>4. Meant(Meaning(op), S, Ts, Elements(R))
    BY <2>1, <2>3 DEF Meant
  <2> QED
    BY <2>2, <2>4 DEF R, Ts
<1>6. CASE op = "sub"
  <2>1. Meaning(op) = "difference" /\ R = difference_with(body, b)
    BY <1>6 DEF Meaning, Combine
  <2> HIDE DEF b, R, Ts
  <2>2. IsBody(R) /\ LessenedAll(S, Ts, Elements(R))
    BY <1>2, <2>1, DifferenceWithFacts DEF LessenedAll, Lessened
  <2>3. Meant(Meaning(op), S, Ts, Elements(R))
    BY <2>1, <2>2 DEF Meant
  <2> QED
    BY <2>2, <2>3 DEF R, Ts
<1>7. CASE op = "rsub"
  <2>1. Meaning(op) = "rdifference" /\ R = difference_with(b, body)
    BY <1>7 DEF Meaning, Combine
  <2> HIDE DEF b, R, Ts
  <2>2. IsBody(R) /\ Elements(R) = Lacking(UNION Ts, S)
    BY <1>2, <2>1, DifferenceWithFacts
  <2>3. Meant(Meaning(op), S, Ts, Elements(R))
    BY <1>2, <1>3, <2>1, <2>2 DEF Meant
  <2> QED
    BY <2>2, <2>3 DEF R, Ts
<1>8. CASE op = "xor"
  <2>1. Meaning(op) = "symmetric" /\ R = symmetric_difference_with(body, b)
    BY <1>8 DEF Meaning, Combine
  <2> HIDE DEF b, R, Ts
  <2>2. IsBody(R) /\ Toggled(S, T, Elements(R))
    BY <1>2, <2>1, SymmetricFacts
  <2>3. \E Q \in SUBSET UNION Ts : OneOf(Q) /\ SameClasses(Q, UNION Ts) /\ Toggled(S, Q, Elements(R))
    <3> HIDE DEF S, T
    <3> QED
      BY <1>2, <1>3, <2>2 DEF SameClasses
  <2>4. Meant(Meaning(op), S, Ts, Elements(R))
    <3> HIDE DEF S, T
    <3> QED
      BY <2>1, <2>3 DEF Meant
  <2> QED
    BY <2>2, <2>4 DEF R, Ts
<1> QED
  BY <1>4, <1>5, <1>6, <1>7, <1>8 DEF Binary

(* Every method that takes sets leaves a set's body, and means what it should. *)
LEMMA CombineFacts ==
    ASSUME NEW c \in Calls, NEW op, NEW args, op = c[1], args = c[2], ~ Fails(args), op \in Combines,
           IsBody(body)
    PROVE  /\ IsBody(Combine(op, args))
           /\ Meant(Meaning(op), Elements(body), ArgSets(args, Elements(body)), Elements(Combine(op, args)))
  BY FoldingFacts, TogglingFacts, BinaryFacts DEF Combines

(* The comparisons answer for the sets. *)
LEMMA AskFacts ==
    ASSUME NEW c \in Calls, NEW op, NEW args, op = c[1], args = c[2], ~ Fails(args), op \in Asking,
           IsBody(body), NEW S, S = Elements(body), NEW T, T = UNION ArgSets(args, S)
    PROVE  /\ op = "issubset" => (Ask(op, args[1]) <=> \A v \in S : HasEq(T, v))
           /\ op = "issuperset" => (Ask(op, args[1]) <=> \A v \in T : HasEq(S, v))
           /\ op = "isdisjoint" => (Ask(op, args[1]) <=> ~ \E v \in T : HasEq(S, v))
<1> DEFINE a == args[1]
           b == arg_body(a, body)
           mine == iter_ordered(body)
           yours == iterate_value(a, body)
<1>1. IsArg(a) /\ a.kind # "bad" /\ T = ItemsOf(a, S)
  <2>1. op \notin Folding
    BY DEF Asking, Folding
  <2>2. /\ Len(args) = 1 /\ args[1] \in Args /\ IsArg(args[1]) /\ args[1].kind # "bad"
        /\ \A X : ArgSets(args, X) = {ItemsOf(args[1], X)}
    BY <2>1, CallFacts
  <2>3. ArgSets(args, S) = {ItemsOf(args[1], S)}
    BY <2>2
  <2>4. UNION ArgSets(args, S) = ItemsOf(args[1], S)
    BY <2>3
  <2>5. /\ op \in Binary => IsSetArg(args[1])
        /\ op \in Toggling /\ args[1].kind = "list" =>
             AllHashed(args[1].items) \/ NoDuplicates(args[1].items)
    BY CallFacts
  <2> QED
    BY <2>2, <2>3, <2>4, <2>5
<1>2. /\ yours \in Seq(Values) /\ ToSet(yours) = T
      /\ Iterable(b) /\ SameClasses(Elements(b), T)
  BY <1>1, ArgFacts
<1>3. mine \in Seq(Values) /\ ToSet(mine) = S
  BY BodyFacts
<1>4. \A v \in Values : contains(b, v) <=> HasEq(T, v)
  BY <1>2, IterableFacts DEF SameClasses
<1>5. \A v \in Values : contains(body, v) <=> HasEq(S, v)
  BY ContainsFacts
<1>6. CASE op = "issubset"
  <2>1. Ask(op, a) <=> \A k \in DOMAIN mine : contains(b, mine[k])
    BY <1>6 DEF Ask
  <2> HIDE DEF a, b, mine
  <2>2. Ask(op, a) <=> \A v \in S : HasEq(T, v)
    <3>1. S \subseteq Values
      BY <1>3 DEF ToSet
    <3>2. \A v \in S : \E k \in DOMAIN mine : v = mine[k]
      BY <1>3 DEF ToSet
    <3>3. \A k \in DOMAIN mine : mine[k] \in S
      BY <1>3 DEF ToSet
    <3> QED
      BY <1>4, <2>1, <3>1, <3>2, <3>3
  <2> QED
    BY <1>6, <2>2 DEF a
<1>7. CASE op = "issuperset"
  <2>1. Ask(op, a) <=> \A k \in DOMAIN yours : contains(body, yours[k])
    BY <1>7 DEF Ask
  <2> HIDE DEF a, yours
  <2>2. Ask(op, a) <=> \A v \in T : HasEq(S, v)
    <3>2. \A v \in T : \E k \in DOMAIN yours : v = yours[k]
      BY <1>2 DEF ToSet
    <3>4. \A k \in DOMAIN yours : yours[k] \in Values
      BY <1>2
    <3>1. T \subseteq Values
      BY <3>2, <3>4
    <3>3. \A k \in DOMAIN yours : yours[k] \in T
      BY <1>2 DEF ToSet
    <3> QED
      BY <1>5, <2>1, <3>1, <3>2, <3>3
  <2> QED
    BY <1>7, <2>2 DEF a
<1>8. CASE op = "isdisjoint"
  <2>1. Ask(op, a) <=> ~ \E k \in DOMAIN yours : contains(body, yours[k])
    BY <1>8 DEF Ask
  <2> HIDE DEF a, yours
  <2>2. Ask(op, a) <=> ~ \E v \in T : HasEq(S, v)
    BY <1>2, <1>5, <2>1 DEF ToSet
  <2> QED
    BY <1>8, <2>2 DEF a
<1> QED
  BY <1>6, <1>7, <1>8 DEF Asking

--------------------------------------------------------------------------------
(***************************************************************************)
(* The inductive invariant is that the receiver is a set's body: a table    *)
(* whose counters are true, whose load is under three fifths and in which   *)
(* every element is reached before an empty slot, or a sequence of distinct *)
(* values.                                                                  *)
(***************************************************************************)

(* Every operation leaves a set's body. *)
LEMMA BodyStep ==
    ASSUME IsBody(body), [Next]_vars
    PROVE  IsBody(body')
<1>1. ASSUME NEW v \in Values, Add(v)
      PROVE  IsBody(body')
  <2>1. body' = body \/ body' = add_value(body, v)
    BY <1>1 DEF Add
  <2> QED
    BY <2>1, add_valueFacts
<1>2. ASSUME NEW v \in Values, Member(v)
      PROVE  IsBody(body')
  BY <1>2 DEF Member
<1>3. ASSUME NEW v \in Values, RemoveOne(v) \/ Discard(v)
      PROVE  IsBody(body')
  <2>1. body' = discard_value(body, v)
    BY <1>3 DEF RemoveOne, Discard
  <2> QED
    BY <2>1, discard_valueFacts
<1>4. CASE Pop
  <2>1. body' = body \/ (BodyLen(body) # 0 /\ body' = pop_first(body))
    BY <1>4 DEF Pop
  <2> QED
    BY <2>1, PopFacts
<1>5. CASE Clear
  BY <1>5, EmptyFacts DEF Clear
<1>6. CASE Copy
  BY <1>6, CopiedFacts DEF Copy
<1>7. ASSUME NEW c \in Calls, Merge(c[1], c[2])
      PROVE  IsBody(body')
  <2>1. c[1] \in Combines /\ (body' = body \/ (~ Fails(c[2]) /\ body' = Combine(c[1], c[2])))
    BY <1>7 DEF Merge
  <2> QED
    BY <2>1, CombineFacts
<1>8. ASSUME NEW c \in Calls, Compare(c[1], c[2])
      PROVE  IsBody(body')
  BY <1>8 DEF Compare
<1>9. CASE UNCHANGED vars
  BY <1>9 DEF vars
<1> QED
  BY <1>1, <1>2, <1>3, <1>4, <1>5, <1>6, <1>7, <1>8, <1>9 DEF Next

(* The set is always a well-formed body, whatever is called and with which   *)
(* values: its type, and everything a lookup relies on.                      *)
THEOREM BodyInvariant == Spec => []IsBody(body)
<1>1. Init => IsBody(body)
  BY EmptyFacts DEF Init
<1>2. IsBody(body) /\ [Next]_vars => IsBody(body)'
  BY BodyStep
<1> QED
  BY <1>1, <1>2, PTL DEF Spec

(* No two elements of the set are equal, the table's counters are true, its  *)
(* load stays under three fifths, and every element is where a lookup of it  *)
(* ends, whichever hashes collide (pyset.rs: add, merge, discard, resize).   *)
THEOREM ProbeableInvariant == Spec => []Probeable
<1>1. IsBody(body) => Probeable
  <2>1. ASSUME IsBody(body)
        PROVE  NoDuplicates(iter_ordered(body))
    BY <2>1, BodyFacts
  <2>2. ASSUME IsBody(body), IsTable(body)
        PROVE  Intact(body)
    BY <2>2 DEF IsBody
  <2> QED
    BY <2>1, <2>2 DEF Probeable
<1> QED
  BY <1>1, BodyInvariant, PTL

--------------------------------------------------------------------------------
(***************************************************************************)
(* The refinement of SetAbstract.                                           *)
(***************************************************************************)

(* The abstract set's words in terms of the ones above. *)
LEMMA AbstractWords ==
    ASSUME NEW S, NEW T
    PROVE  /\ \A v : Abstract!Has(S, v) <=> HasEq(S, v)
           /\ Abstract!Distinct(S) <=> OneOf(S)
           /\ Abstract!Without(S, T) = Lacking(S, T)
           /\ (Abstract!Classes(S) \subseteq Abstract!Classes(T)) <=> \A v \in S : HasEq(T, v)
           /\ (Abstract!Classes(S) \cap Abstract!Classes(T) = {}) <=> ~ \E v \in T : HasEq(S, v)
<1>1. \A X, v : Abstract!Has(X, v) <=> HasEq(X, v)
  BY DEF Abstract!Has, Abstract!Classes, HasEq, Eq
<1>2. Abstract!Distinct(S) <=> OneOf(S)
  BY DEF Abstract!Distinct, OneOf, Eq
<1>3. Abstract!Without(S, T) = Lacking(S, T)
  BY <1>1 DEF Abstract!Without, Lacking
<1>4. (Abstract!Classes(S) \subseteq Abstract!Classes(T)) <=> \A v \in S : HasEq(T, v)
  BY DEF Abstract!Classes, HasEq, Eq
<1>5. (Abstract!Classes(S) \cap Abstract!Classes(T) = {}) <=> ~ \E v \in T : HasEq(S, v)
  BY DEF Abstract!Classes, HasEq, Eq
<1> QED
  BY <1>1, <1>2, <1>3, <1>4, <1>5

(* P has one value of S for every class of S. *)
LEMMA AbstractOneEach ==
    ASSUME NEW S, NEW P, P \subseteq S, OneOf(P), \A v \in S : HasEq(P, v)
    PROVE  P \in Abstract!OneEach(S)
<1>1. Abstract!Classes(P) = Abstract!Classes(S)
  BY DEF Abstract!Classes, HasEq, Eq
<1> QED
  BY <1>1, AbstractWords DEF Abstract!OneEach

(* What the methods make of the sets is what set algebra allows. *)
LEMMA MeantIsAllowed ==
    ASSUME NEW S, NEW Ts, NEW R, NEW op, Meant(op, S, Ts, R),
           op \in {"union", "intersection", "difference", "rdifference", "symmetric"}
    PROVE  <<R, "None">> \in Abstract!Multiple(S, op, Ts, UNION Ts)
<1> DEFINE T == UNION Ts
<1>0. /\ \A X, v : Abstract!Has(X, v) <=> HasEq(X, v)
      /\ \A X, Y : Abstract!Without(X, Y) = Lacking(X, Y)
  BY AbstractWords
<1>1. ASSUME op = "union"
      PROVE  R \in Abstract!JoinOf(S, T)
  <2> DEFINE P == R \ S
  <2>1. Joined(S, T, R)
    BY <1>1 DEF Meant, JoinedAll
  <2> HIDE DEF T
  <2>2. P \subseteq Lacking(T, S) /\ OneOf(P) /\ R = S \cup P
    BY <2>1 DEF Joined, Lacking, HasEq, OneOf
  <2>3. \A v \in Lacking(T, S) : HasEq(P, v)
    BY <2>1 DEF Joined, Lacking, HasEq
  <2> HIDE DEF P
  <2>4. P \in Abstract!OneEach(Abstract!Without(T, S))
    BY <1>0, <2>2, <2>3, AbstractOneEach
  <2> QED
    BY <2>2, <2>4 DEF Abstract!JoinOf
<1>2. ASSUME op = "intersection"
      PROVE  R \in Abstract!MeetOf(S, Ts)
  <2> DEFINE X == {v \in S \cup T : HasEq(S, v) /\ \A U \in Ts : HasEq(U, v)}
  <2>1. SharedAll(S, Ts, R)
    BY <1>2 DEF Meant
  <2>2. R \subseteq X /\ OneOf(R)
    BY <2>1 DEF SharedAll
  <2>3. ASSUME NEW v \in X
        PROVE  HasEq(R, v)
    <3>1. PICK s \in S : Eq(s, v)
      BY DEF HasEq
    <3>2. \A U \in Ts : HasEq(U, s)
      BY <3>1 DEF HasEq, Eq
    <3>3. HasEq(R, s)
      BY <2>1, <3>2 DEF SharedAll
    <3> QED
      BY <3>1, <3>3 DEF HasEq, Eq
  <2>4. X = {v \in S \cup UNION Ts : Abstract!Has(S, v) /\ \A U \in Ts : Abstract!Has(U, v)}
    BY <1>0
  <2> HIDE DEF X
  <2>5. R \in Abstract!OneEach(X)
    BY <2>2, <2>3, AbstractOneEach
  <2> QED
    BY <2>4, <2>5 DEF Abstract!MeetOf
<1>3. ASSUME op = "difference"
      PROVE  R = Abstract!Without(S, T)
  BY <1>0, <1>3 DEF Meant, LessenedAll, Lessened
<1>4. ASSUME op = "rdifference"
      PROVE  R \in Abstract!OneEach(Abstract!Without(T, S))
  <2>1. R = Lacking(T, S) /\ OneOf(T)
    BY <1>4 DEF Meant
  <2> HIDE DEF T
  <2>2. OneOf(R) /\ \A v \in R : HasEq(R, v)
    BY <2>1 DEF Lacking, OneOf, HasEq, Eq
  <2> QED
    BY <1>0, <2>1, <2>2, AbstractOneEach
<1>5. ASSUME op = "symmetric"
      PROVE  R \in Abstract!ToggleOf(S, T)
  <2>1. PICK Q \in SUBSET T : OneOf(Q) /\ SameClasses(Q, T) /\ Toggled(S, Q, R)
    BY <1>5 DEF Meant
  <2> DEFINE P == Lacking(Q, S)
  <2> HIDE DEF T
  <2>2. P \subseteq Lacking(T, S) /\ OneOf(P)
    BY <2>1 DEF Lacking, OneOf
  <2>3. ASSUME NEW v \in Lacking(T, S)
        PROVE  HasEq(P, v)
    <3>1. HasEq(T, v) /\ ~ HasEq(S, v)
      BY DEF Lacking, HasEq, Eq
    <3>2. PICK w \in Q : Eq(w, v)
      BY <2>1, <3>1 DEF SameClasses, HasEq
    <3>3. ~ HasEq(S, w)
      BY <3>1, <3>2 DEF HasEq, Eq
    <3> QED
      BY <3>2, <3>3 DEF HasEq, Lacking
  <2>4. R = Lacking(S, T) \cup P
    BY <2>1 DEF Toggled, Lacking, SameClasses
  <2> HIDE DEF P
  <2>5. P \in Abstract!OneEach(Abstract!Without(T, S))
    BY <1>0, <2>2, <2>3, AbstractOneEach
  <2> QED
    BY <1>0, <2>4, <2>5 DEF Abstract!ToggleOf
<1> HIDE DEF T
<1>6. <<R, "None">> \in Abstract!Multiple(S, op, Ts, T)
  <2>1. CASE op = "union"
    BY <1>1, <2>1 DEF Abstract!Multiple
  <2>2. CASE op = "intersection"
    BY <1>2, <2>2 DEF Abstract!Multiple
  <2>3. CASE op = "difference"
    BY <1>3, <2>3 DEF Abstract!Multiple
  <2>4. CASE op = "rdifference"
    BY <1>4, <2>4 DEF Abstract!Multiple
  <2>5. CASE op = "symmetric"
    BY <1>5, <2>5 DEF Abstract!Multiple
  <2> QED
    BY <2>1, <2>2, <2>3, <2>4, <2>5
<1> QED
  BY <1>6 DEF T

(* Every operation of one value, or of none, ends as the abstract set's may. *)
LEMMA SingleStep ==
    ASSUME IsBody(body), NEW op, NEW x, op = call'[1], x = call'[2],
           (\E v \in Values : Add(v) \/ Member(v) \/ RemoveOne(v) \/ Discard(v)) \/ Pop \/ Clear \/ Copy
    PROVE  <<Elements(body'), ret'>> \in Abstract!Outcomes(Elements(body), Meaning(op), x)
<1> DEFINE S == Elements(body)
           N == Elements(body')
<1>0. /\ \A v : Abstract!Has(S, v) <=> HasEq(S, v)
      /\ \A v : Abstract!Without(S, {v}) = Minus(S, v)
  <2>1. \A v : Lacking(S, {v}) = Minus(S, v)
    <3> HIDE DEF S
    <3> QED
      BY DEF Lacking, Minus, HasEq, Eq
  <2> QED
    BY <2>1, AbstractWords
<1>1. \A v \in Values : contains(body, v) <=> HasEq(S, v)
  BY ContainsFacts
<1>2. \A b : Abstract!Answer(b) = Answer(b)
  BY DEF Abstract!Answer, Answer
<1>3. SUFFICES ASSUME op \in Abstract!SingleOps, Meaning(op) = op
               PROVE  <<N, ret'>> \in Abstract!Single(S, op, x)
  <2>1. op \in Abstract!SingleOps
    BY DEF Abstract!SingleOps, Add, Member, RemoveOne, Discard, Pop, Clear, Copy
  <2>2. Meaning(op) = op
    BY <2>1 DEF Abstract!SingleOps, Meaning
  <2> HIDE DEF S, N
  <2> QED
    BY <1>3, <2>1, <2>2 DEF Abstract!Outcomes, S, N
<1>4. ASSUME NEW v \in Values, Add(v)
      PROVE  <<N, ret'>> \in Abstract!Single(S, op, x)
  <2>1. op = "add" /\ x = v
    BY <1>4 DEF Add
  <2>2. CASE v \in UnhashableValues
    <3>1. ret' = "TypeError" /\ N = S
      BY <1>4, <2>2 DEF Add
    <3> HIDE DEF S, N
    <3> QED
      BY <2>1, <2>2, <3>1 DEF Abstract!Single
  <2>3. CASE v \notin UnhashableValues
    <3>1. ret' = "None" /\ body' = add_value(body, v)
      BY <1>4, <2>3 DEF Add
    <3>2. N = Plus(S, v)
      BY <3>1, add_valueFacts
    <3> HIDE DEF S, N
    <3> QED
      BY <1>0, <2>1, <2>3, <3>1, <3>2 DEF Abstract!Single, Plus
  <2> QED
    BY <2>2, <2>3
<1>5. ASSUME NEW v \in Values, Member(v)
      PROVE  <<N, ret'>> \in Abstract!Single(S, op, x)
  <2>1. op = "contains" /\ x = v /\ N = S /\ ret' = Answer(contains(body, v))
    BY <1>5 DEF Member
  <2>2. contains(body, v) <=> Abstract!Has(S, v)
    BY <1>0, <1>1
  <2> HIDE DEF S, N
  <2>3. ret' = Abstract!Answer(Abstract!Has(S, v))
    BY <2>1, <2>2 DEF Answer, Abstract!Answer
  <2> QED
    BY <2>1, <2>3 DEF Abstract!Single
<1>6. ASSUME NEW v \in Values, RemoveOne(v)
      PROVE  <<N, ret'>> \in Abstract!Single(S, op, x)
  <2>1. /\ op = "remove" /\ x = v /\ body' = discard_value(body, v)
        /\ ret' = IF contains(body, v) THEN "None" ELSE "KeyError"
    BY <1>6 DEF RemoveOne
  <2>2. N = Minus(S, v)
    BY <2>1, discard_valueFacts
  <2>3. contains(body, v) <=> Abstract!Has(S, v)
    BY <1>0, <1>1
  <2> HIDE DEF S, N
  <2> QED
    BY <1>0, <2>1, <2>2, <2>3 DEF Abstract!Single
<1>7. ASSUME NEW v \in Values, Discard(v)
      PROVE  <<N, ret'>> \in Abstract!Single(S, op, x)
  <2>1. op = "discard" /\ x = v /\ body' = discard_value(body, v) /\ ret' = "None"
    BY <1>7 DEF Discard
  <2>2. N = Minus(S, v)
    BY <2>1, discard_valueFacts
  <2> HIDE DEF S, N
  <2> QED
    BY <1>0, <2>1, <2>2 DEF Abstract!Single
<1>8. CASE Pop
  <2>1. op = "pop"
    BY <1>8 DEF Pop
  <2>2. CASE BodyLen(body) = 0
    <3>1. ret' = "KeyError" /\ N = S /\ S = {}
      BY <1>8, <2>2, PopFacts DEF Pop
    <3> HIDE DEF S, N
    <3> QED
      BY <2>1, <3>1 DEF Abstract!Single
  <2>3. CASE BodyLen(body) # 0
    <3>1. ret' = iter_ordered(body)[1] /\ body' = pop_first(body)
      BY <1>8, <2>3 DEF Pop
    <3>2. ret' \in S /\ N = S \ {ret'}
      BY <2>3, <3>1, PopFacts
    <3> HIDE DEF S, N
    <3> QED
      BY <2>1, <3>2 DEF Abstract!Single
  <2> QED
    BY <2>2, <2>3
<1>9. CASE Clear
  <2>1. op = "clear" /\ ret' = "None" /\ N = {}
    BY <1>9, EmptyFacts DEF Clear
  <2> HIDE DEF S, N
  <2> QED
    BY <2>1 DEF Abstract!Single
<1>10. CASE Copy
  <2>1. op = "copy" /\ ret' = "None" /\ N = S
    BY <1>10, CopiedFacts DEF Copy
  <2> HIDE DEF S, N
  <2> QED
    BY <2>1 DEF Abstract!Single
<1> QED
  BY <1>4, <1>5, <1>6, <1>7, <1>8, <1>9, <1>10

(* Every call with other sets ends as the abstract set's may. *)
LEMMA MultipleStep ==
    ASSUME IsBody(body), NEW c \in Calls, Merge(c[1], c[2]) \/ Compare(c[1], c[2]),
           NEW op, NEW x, op = call'[1], x = call'[2]
    PROVE  <<Elements(body'), ret'>> \in Abstract!Outcomes(Elements(body), Meaning(op), x)
<1> DEFINE S == Elements(body)
           N == Elements(body')
           Ts == ArgSets(x, S)
           m == Meaning(op)
<1>1. op = c[1] /\ x = c[2] /\ op \in Combines \cup Asking
  BY DEF Merge, Compare
<1>2. /\ op \in Combines => m \in {"union", "intersection", "difference", "rdifference", "symmetric"}
      /\ op \in Asking => m = op
  BY DEF Meaning, Combines, Folding, Toggling, Binary, Asking
<1>3. m \notin Abstract!SingleOps
  BY <1>1, <1>2 DEF Abstract!SingleOps, Asking
<1>4. CASE Fails(x)
  <2>1. N = S /\ ret' = "TypeError"
    BY <1>1, <1>4 DEF Merge, Compare
  <2> HIDE DEF S, N, m
  <2>2. <<N, ret'>> \in Abstract!Outcomes(S, m, x)
    BY <1>3, <1>4, <2>1 DEF Abstract!Outcomes
  <2> QED
    BY <2>2 DEF S, N, m
<1>5. CASE ~ Fails(x)
  <2> SUFFICES <<N, ret'>> \in Abstract!Multiple(S, m, Ts, UNION Ts)
    BY <1>3, <1>5 DEF Abstract!Outcomes
  <2>1. CASE Merge(c[1], c[2])
    <3>1. op \in Combines /\ body' = Combine(op, x) /\ ret' = "None"
      BY <1>1, <1>5, <2>1 DEF Merge
    <3>2. Meant(m, S, Ts, N)
      BY <1>1, <1>5, <3>1, CombineFacts
    <3> HIDE DEF S, N, Ts, m
    <3> QED
      BY <1>2, <3>1, <3>2, MeantIsAllowed
  <2>2. CASE Compare(c[1], c[2])
    <3>1. op \in Asking /\ N = S /\ ret' = Answer(Ask(op, x[1])) /\ m = op
      BY <1>1, <1>2, <1>5, <2>2 DEF Compare
    <3> DEFINE T == UNION Ts
    <3>2. /\ op = "issubset" => (Ask(op, x[1]) <=> \A v \in S : HasEq(T, v))
          /\ op = "issuperset" => (Ask(op, x[1]) <=> \A v \in T : HasEq(S, v))
          /\ op = "isdisjoint" => (Ask(op, x[1]) <=> ~ \E v \in T : HasEq(S, v))
      BY <1>1, <1>5, <3>1, AskFacts
    <3>3. /\ (Abstract!Classes(S) \subseteq Abstract!Classes(T)) <=> \A v \in S : HasEq(T, v)
          /\ (Abstract!Classes(T) \subseteq Abstract!Classes(S)) <=> \A v \in T : HasEq(S, v)
          /\ (Abstract!Classes(S) \cap Abstract!Classes(T) = {}) <=> ~ \E v \in T : HasEq(S, v)
      <4>1. ASSUME NEW X, NEW Y
            PROVE  /\ (Abstract!Classes(X) \subseteq Abstract!Classes(Y)) <=> \A v \in X : HasEq(Y, v)
                   /\ (Abstract!Classes(X) \cap Abstract!Classes(Y) = {}) <=> ~ \E v \in Y : HasEq(X, v)
        BY AbstractWords
      <4> HIDE DEF S, T
      <4> QED
        BY <4>1
    <3> HIDE DEF S, N, T, m
    <3>4. CASE op = "issubset"
      <4>1. ret' = Abstract!Answer(Abstract!Classes(S) \subseteq Abstract!Classes(T))
        BY <3>1, <3>2, <3>3, <3>4 DEF Answer, Abstract!Answer
      <4> QED
        BY <3>1, <3>4, <4>1 DEF Abstract!Multiple, T
    <3>5. CASE op = "issuperset"
      <4>1. ret' = Abstract!Answer(Abstract!Classes(T) \subseteq Abstract!Classes(S))
        BY <3>1, <3>2, <3>3, <3>5 DEF Answer, Abstract!Answer
      <4> QED
        BY <3>1, <3>5, <4>1 DEF Abstract!Multiple, T
    <3>6. CASE op = "isdisjoint"
      <4>1. ret' = Abstract!Answer(Abstract!Classes(S) \cap Abstract!Classes(T) = {})
        BY <3>1, <3>2, <3>3, <3>6 DEF Answer, Abstract!Answer
      <4> QED
        BY <3>1, <3>6, <4>1 DEF Abstract!Multiple, T
    <3> QED
      BY <3>1, <3>4, <3>5, <3>6 DEF Asking
  <2> QED
    BY <2>1, <2>2
<1> QED
  BY <1>4, <1>5

(* Whatever is called, with whichever values and arguments, the set does and *)
(* answers what a mathematical set of equality classes would: pyset.rs and   *)
(* set.rs lose, duplicate and resurrect no element, and a failing call       *)
(* changes nothing.                                                          *)
THEOREM TableRefinesSet == Spec => IsASet
<1>1. Init => Abstract!Init
  BY EmptyFacts DEF Init, Abstract!Init
<1>2. IsBody(body) /\ [Next]_vars => [Abstract!Next]_(Abstract!vars)
  <2> SUFFICES ASSUME IsBody(body), [Next]_vars
               PROVE  [Abstract!Next]_(Abstract!vars)
    OBVIOUS
  <2>1. CASE UNCHANGED vars
    BY <2>1 DEF vars, Abstract!vars
  <2>2. CASE Next
    <3>1. call' # <<>>
      <4>1. ASSUME NEW v \in Values, Add(v) \/ Member(v) \/ RemoveOne(v) \/ Discard(v)
            PROVE  Len(call') = 2
        BY <4>1 DEF Add, Member, RemoveOne, Discard
      <4>2. ASSUME Pop \/ Clear \/ Copy
            PROVE  Len(call') = 2
        BY <4>2 DEF Pop, Clear, Copy
      <4>3. ASSUME NEW c \in Calls, Merge(c[1], c[2]) \/ Compare(c[1], c[2])
            PROVE  Len(call') = 2
        BY <4>3 DEF Merge, Compare
      <4> QED
        BY <2>2, <4>1, <4>2, <4>3 DEF Next
    <3>2. <<Elements(body'), ret'>> \in Abstract!Outcomes(Elements(body), Meaning(call'[1]), call'[2])
      BY <2>2, SingleStep, MultipleStep DEF Next
    <3>3. Abstract!Next
      BY <3>1, <3>2 DEF Abstract!Next
    <3> QED
      BY <3>3
  <2> QED
    BY <2>1, <2>2
<1> QED
  BY <1>1, <1>2, BodyInvariant, PTL DEF Spec, IsASet, Abstract!Spec

=============================================================================
