---------------------------- MODULE AlgorithmProofs ----------------------------
(***************************************************************************)
(* The pure algorithms of Items and Calls.  Positions of subscripts and     *)
(* slices, for every length, bound and step: what the three paths of the    *)
(* code compute with clamps and a walk is what Python says with bounds and  *)
(* a remainder.  Arguments, for every signature and call: what is bound by  *)
(* one check after the other is where each argument belongs.                *)
(***************************************************************************)
EXTENDS Items, Calls, SequenceTheorems, FiniteSetTheorems, TLAPS

-----------------------------------------------------------------------------
(* Division *)

(* What the quotient and the remainder by a positive number are. *)
LEMMA DivFacts ==
    ASSUME NEW n \in Int, NEW d \in Int, d > 0
    PROVE  /\ n \div d \in Int /\ n % d \in 0 .. (d - 1)
           /\ n = d * (n \div d) + (n % d)
OBVIOUS

(* Multiples have no remainder. *)
LEMMA Multiple ==
    ASSUME NEW q \in Int, NEW d \in Int, d > 0
    PROVE  (d * q) % d = 0
OBVIOUS

(* A number is a multiple if its opposite is. *)
LEMMA NegRemainder ==
    ASSUME NEW a \in Int, NEW b \in Int, NEW d \in Int, d > 0
    PROVE  (a - b) % d = 0 <=> (b - a) % d = 0
<1> SUFFICES ASSUME NEW x \in Int, x % d = 0 PROVE (- x) % d = 0
  <2>1. a - b = - (b - a) /\ b - a = - (a - b) /\ a - b \in Int /\ b - a \in Int
    OBVIOUS
  <2> QED
    BY <2>1
<1> DEFINE q == x \div d
<1>1. q \in Int /\ x = d * q
  BY DivFacts
<1> HIDE DEF q
<1>2. - x = d * (- q)
  BY <1>1
<1> QED
  BY <1>1, <1>2, Multiple

(* Factors are ordered as their multiples are. *)
LEMMA FactorLess ==
    ASSUME NEW a \in Int, NEW b \in Int, NEW d \in Int, d > 0, d * a < d * b
    PROVE  a < b
OBVIOUS

LEMMA FactorLeq ==
    ASSUME NEW a \in Int, NEW b \in Int, NEW d \in Int, d > 0, a <= b
    PROVE  d * a <= d * b
OBVIOUS

(* The quotient rounded up counts the multiples below a number. *)
LEMMA CeilFacts ==
    ASSUME NEW n \in Int, NEW d \in Int, d > 0, n > 0
    PROVE  /\ (n + d - 1) \div d \in Nat
           /\ \A k \in Int : k < (n + d - 1) \div d <=> d * k < n
<1> DEFINE c == (n + d - 1) \div d
<1>1. c \in Int /\ (n + d - 1) % d \in 0 .. (d - 1) /\ n + d - 1 = d * c + ((n + d - 1) % d)
  BY DivFacts
<1> HIDE DEF c
<1>2. n <= d * c /\ d * c < n + d
  BY <1>1
<1>3. c > 0
  <2>1. d * 0 < d * c
    BY <1>1, <1>2
  <2> QED
    BY <1>1, <2>1, FactorLess
<1>4. ASSUME NEW k \in Int, k < c PROVE d * k < n
  <2>1. k <= c - 1
    BY <1>1, <1>4
  <2>2. d * k <= d * (c - 1)
    BY <1>1, <2>1, FactorLeq
  <2>3. d * (c - 1) = d * c - d
    BY <1>1
  <2>4. d * k \in Int /\ d * c \in Int
    BY <1>1
  <2> QED
    BY <1>2, <2>2, <2>3, <2>4
<1>5. ASSUME NEW k \in Int, d * k < n PROVE k < c
  <2>1. d * k < d * c
    BY <1>1, <1>2, <1>5
  <2> QED
    BY <1>1, <2>1, FactorLess
<1> QED
  BY <1>1, <1>3, <1>4, <1>5 DEF c

-----------------------------------------------------------------------------
(* Walks *)

(* The positions a walk passes through: between its ends, end excluded, at  *)
(* multiples of the step from its begin.                                    *)
Between(begin, end, step, p) ==
    IF step > 0 THEN begin <= p /\ p < end /\ (p - begin) % step = 0
                ELSE end < p /\ p <= begin /\ (begin - p) % (- step) = 0

(* How many steps a walk makes. *)
LEMMA WalkLength ==
    ASSUME NEW b \in Int, NEW e \in Int, NEW s \in Int, s # 0
    PROVE  /\ RangeLength(<<b, e, s>>) \in Nat
           /\ \A k \in Nat : k < RangeLength(<<b, e, s>>)
                <=> IF s > 0 THEN b + k * s < e ELSE e < b + k * s
<1>1. RangeLength(<<b, e, s>>) =
        IF s > 0 THEN IF e - b <= 0 THEN 0 ELSE ((e - b) + s - 1) \div s
        ELSE IF e - b >= 0 THEN 0 ELSE (- (e - b) - s - 1) \div (- s)
  BY DEF RangeLength
<1>2. CASE s > 0 /\ e - b <= 0
  <2>1. \A k \in Nat : k * s >= 0
    BY <1>2
  <2> QED
    BY <1>1, <1>2, <2>1
<1>3. CASE s > 0 /\ e - b > 0
  <2>1. RangeLength(<<b, e, s>>) = ((e - b) + s - 1) \div s /\ e - b \in Int
    BY <1>1, <1>3
  <2>2. \A k \in Nat : s * k = k * s /\ k * s \in Int
    OBVIOUS
  <2> QED
    BY <1>3, <2>1, <2>2, CeilFacts
<1>4. CASE s < 0 /\ e - b >= 0
  <2>1. \A k \in Nat : k * s <= 0
    BY <1>4
  <2> QED
    BY <1>1, <1>4, <2>1
<1>5. CASE s < 0 /\ e - b < 0
  <2>1. RangeLength(<<b, e, s>>) = ((b - e) + (- s) - 1) \div (- s) /\ b - e \in Int /\ - s \in Int
    BY <1>1, <1>5
  <2>2. \A k \in Nat : (- s) * k = - (k * s) /\ k * s \in Int
    OBVIOUS
  <2> QED
    BY <1>5, <2>1, <2>2, CeilFacts
<1> QED
  BY <1>2, <1>3, <1>4, <1>5

(* A walk passes through exactly the positions between its ends. *)
LEMMA WalkMeets ==
    ASSUME NEW b \in Int, NEW e \in Int, NEW s \in Int, s # 0
    PROVE  /\ Walk(b, e, s) \in Seq(Int)
           /\ \A j \in DOMAIN Walk(b, e, s) : Walk(b, e, s)[j] = b + (j - 1) * s
           /\ \A p \in Int : Between(b, e, s, p) <=> \E j \in DOMAIN Walk(b, e, s) : Walk(b, e, s)[j] = p
<1> DEFINE n == RangeLength(<<b, e, s>>)
<1>1. n \in Nat /\ \A k \in Nat : k < n <=> IF s > 0 THEN b + k * s < e ELSE e < b + k * s
  BY WalkLength
<1>2. Walk(b, e, s) = [j \in 1 .. n |-> b + (j - 1) * s]
  BY DEF Walk, RangeItems
<1> HIDE DEF n
<1>3. \A j \in 1 .. n : b + (j - 1) * s \in Int
  BY <1>1
<1>4. Walk(b, e, s) \in Seq(Int) /\ DOMAIN Walk(b, e, s) = 1 .. n
  BY <1>1, <1>2, <1>3
<1>5. ASSUME NEW j \in 1 .. n PROVE Between(b, e, s, b + (j - 1) * s)
  <2>1. j - 1 \in Nat /\ j - 1 < n
    BY <1>1
  <2>2. (j - 1) * s = s * (j - 1) /\ (- s) * (j - 1) = - ((j - 1) * s) /\ (j - 1) * s \in Int
    BY <2>1
  <2>3. CASE s > 0
    <3>1. (s * (j - 1)) % s = 0 /\ b + (j - 1) * s < e /\ (j - 1) * s >= 0
      BY <1>1, <2>1, <2>3, Multiple
    <3>2. b + (j - 1) * s - b = s * (j - 1)
      BY <2>2
    <3> QED
      BY <2>2, <2>3, <3>1, <3>2 DEF Between
  <2>4. CASE s < 0
    <3>1. ((- s) * (j - 1)) % (- s) = 0 /\ e < b + (j - 1) * s /\ (j - 1) * s <= 0
      BY <1>1, <2>1, <2>4, Multiple
    <3>2. b - (b + (j - 1) * s) = (- s) * (j - 1)
      BY <2>2
    <3> QED
      BY <2>2, <2>4, <3>1, <3>2 DEF Between
  <2> QED
    BY <2>3, <2>4
<1>6. ASSUME NEW p \in Int, Between(b, e, s, p) PROVE \E j \in 1 .. n : b + (j - 1) * s = p
  <2>1. \E k \in Nat : p = b + k * s
    <3>1. CASE s > 0
      <4>1. p - b \in Nat /\ (p - b) % s = 0
        BY <1>6, <3>1 DEF Between
      <4>2. (p - b) \div s \in Int /\ p - b = s * ((p - b) \div s) + ((p - b) % s)
        BY <3>1, <4>1, DivFacts
      <4> DEFINE q == (p - b) \div s
      <4> HIDE DEF q
      <4>3. q \in Int /\ p - b = s * q
        BY <4>1, <4>2 DEF q
      <4>4. s * (- 1) < s * q
        BY <3>1, <4>1, <4>3
      <4>5. - 1 < q
        BY <3>1, <4>3, <4>4, FactorLess
      <4> QED
        BY <4>3, <4>5
    <3>2. CASE s < 0
      <4>1. b - p \in Nat /\ (b - p) % (- s) = 0
        BY <1>6, <3>2 DEF Between
      <4>2. (b - p) \div (- s) \in Int /\ b - p = (- s) * ((b - p) \div (- s)) + ((b - p) % (- s))
        BY <3>2, <4>1, DivFacts
      <4> DEFINE q == (b - p) \div (- s)
      <4> HIDE DEF q
      <4>3. q \in Int /\ b - p = (- s) * q
        BY <4>1, <4>2 DEF q
      <4>4. (- s) * (- 1) < (- s) * q
        BY <3>2, <4>1, <4>3
      <4>5. - 1 < q
        BY <3>2, <4>3, <4>4, FactorLess
      <4> QED
        BY <4>3, <4>5
    <3> QED
      BY <3>1, <3>2
  <2>2. PICK k \in Nat : p = b + k * s
    BY <2>1
  <2>3. k < n
    BY <1>1, <1>6, <2>2 DEF Between
  <2>4. k + 1 \in 1 .. n /\ b + ((k + 1) - 1) * s = p
    BY <1>1, <2>2, <2>3
  <2> QED
    BY <2>4
<1> QED
  BY <1>2, <1>4, <1>5, <1>6, ZenonT(30)

-----------------------------------------------------------------------------
(* Slices *)

(* Bounds a slice takes: none, or an integer. *)
Bounds == {Absent} \cup {IntIx(n) : n \in Int} \cup {BoolIx(n) : n \in {0, 1}}

(* The positions Python selects, and those a walk visits. *)
Selected(lo, hi, step, len) == {p \in 0 .. (len - 1) : PySelects(lo, hi, step, len, p)}
Visited(ps) == {ps[j] : j \in DOMAIN ps}

(* What a bound is. *)
LEMMA BoundFacts ==
    ASSUME NEW b \in Bounds
    PROVE  \/ b[1] = "absent"
           \/ b[1] \in {"int", "bool"} /\ b[2] \in Int
BY DEF Bounds, Absent, IntIx, BoolIx

(* The clamped ends bound what Python selects, for a step forward... *)
LEMMA ForwardEnds ==
    ASSUME NEW lo \in Bounds, NEW hi \in Bounds, NEW len \in Nat, NEW step \in Int, step > 0
    PROVE  LET b == clamp_slice_index(Ordinal(lo, 0), len)
               e == clamp_slice_index(Ordinal(hi, len), len)
           IN  /\ b \in 0 .. len /\ e \in 0 .. len
               /\ \A p \in Int : Between(b, e, step, p) <=>
                    p \in 0 .. (len - 1) /\ PySelects(lo, hi, step, len, p)
<1> DEFINE b == clamp_slice_index(Ordinal(lo, 0), len)
           e == clamp_slice_index(Ordinal(hi, len), len)
<1>1. b \in 0 .. len /\ e \in 0 .. len
  BY BoundFacts DEF clamp_slice_index, Bounded, FromEnd, Ordinal
<1>2. /\ lo[1] = "absent" => b = 0 /\ PyFirst(lo, step, len) = 0
      /\ lo[1] # "absent" => /\ b = Bounded(Bound(lo, len), 0, len) /\ Bound(lo, len) \in Int
                             /\ PyFirst(lo, step, len) = IF Bound(lo, len) < 0 THEN 0 ELSE Bound(lo, len)
  <2>1. CASE lo[1] = "absent"
    BY <2>1 DEF clamp_slice_index, Bounded, FromEnd, Ordinal, PyFirst
  <2>2. CASE lo[1] # "absent"
    <3>1. lo[1] \in {"int", "bool"} /\ lo[2] \in Int
      BY <2>2, BoundFacts
    <3>2. Bound(lo, len) \in Int /\ b = Bounded(Bound(lo, len), 0, len)
      BY <3>1 DEF clamp_slice_index, FromEnd, Ordinal, Bound
    <3>3. PyFirst(lo, step, len) = IF Bound(lo, len) < 0 THEN 0 ELSE Bound(lo, len)
      BY <2>2 DEF PyFirst
    <3> QED
      BY <2>2, <3>2, <3>3
  <2> QED
    BY <2>1, <2>2
<1>3. \A p \in 0 .. (len - 1) : p < e <=> (hi[1] # "absent" => p < Bound(hi, len))
  BY BoundFacts DEF clamp_slice_index, Bounded, FromEnd, Ordinal, Bound
<1>4. /\ b < len => b = PyFirst(lo, step, len)
      /\ \A p \in 0 .. (len - 1) : b <= p <=> p >= PyFirst(lo, step, len)
  BY <1>2 DEF Bounded
<1> HIDE DEF b, e
<1>5. ASSUME NEW p \in Int
      PROVE  Between(b, e, step, p) <=> p \in 0 .. (len - 1) /\ PySelects(lo, hi, step, len, p)
  <2>1. Between(b, e, step, p) <=> b <= p /\ p < e /\ (p - b) % step = 0
    BY DEF Between
  <2>2. CASE p \in 0 .. (len - 1)
    <3>1. PySelects(lo, hi, step, len, p) <=>
            /\ p >= PyFirst(lo, step, len) /\ (hi[1] # "absent" => p < Bound(hi, len))
            /\ (p - PyFirst(lo, step, len)) % step = 0
      BY DEF PySelects
    <3>2. b <= p => b = PyFirst(lo, step, len)
      BY <1>1, <1>4, <2>2
    <3> QED
      BY <1>3, <1>4, <2>1, <2>2, <3>1, <3>2
  <2>3. CASE p \notin 0 .. (len - 1)
    BY <1>1, <2>1, <2>3
  <2> QED
    BY <2>2, <2>3
<1> QED
  BY <1>1, <1>5 DEF b, e

(* ... and for one back. *)
LEMMA BackwardEnds ==
    ASSUME NEW lo \in Bounds, NEW hi \in Bounds, NEW len \in Nat, NEW step \in Int, step < 0
    PROVE  LET b == clamp_slice_index_neg(Ordinal(lo, len - 1), len)
               e == clamp_slice_index_neg(Ordinal(hi, - (len + 1)), len)
           IN  /\ b \in -1 .. (len - 1) /\ e \in -1 .. (len - 1)
               /\ \A p \in Int : Between(b, e, step, p) <=>
                    p \in 0 .. (len - 1) /\ PySelects(lo, hi, step, len, p)
<1> DEFINE b == clamp_slice_index_neg(Ordinal(lo, len - 1), len)
           e == clamp_slice_index_neg(Ordinal(hi, - (len + 1)), len)
<1>1. b \in -1 .. (len - 1) /\ e \in -1 .. (len - 1)
  BY BoundFacts DEF clamp_slice_index_neg, Bounded, FromEnd, Ordinal
<1>2. \A p \in 0 .. (len - 1) : p <= b <=> p <= PyFirst(lo, step, len)
  BY BoundFacts DEF clamp_slice_index_neg, Bounded, FromEnd, Ordinal, PyFirst, Bound
<1>3. \A p \in 0 .. (len - 1) : e < p <=> (hi[1] # "absent" => p > Bound(hi, len))
  BY BoundFacts DEF clamp_slice_index_neg, Bounded, FromEnd, Ordinal, Bound
<1>4. b >= 0 => b = PyFirst(lo, step, len)
  BY BoundFacts DEF clamp_slice_index_neg, Bounded, FromEnd, Ordinal, PyFirst, Bound
<1> HIDE DEF b, e
<1>5. ASSUME NEW p \in Int
      PROVE  Between(b, e, step, p) <=> p \in 0 .. (len - 1) /\ PySelects(lo, hi, step, len, p)
  <2>1. Between(b, e, step, p) <=> e < p /\ p <= b /\ (b - p) % (- step) = 0
    BY DEF Between
  <2>2. CASE p \in 0 .. (len - 1)
    <3>1. PySelects(lo, hi, step, len, p) <=>
            /\ p <= PyFirst(lo, step, len) /\ (hi[1] # "absent" => p > Bound(hi, len))
            /\ (p - PyFirst(lo, step, len)) % (- step) = 0
      BY DEF PySelects
    <3>2. p <= b => b = PyFirst(lo, step, len)
      BY <1>1, <1>4, <2>2
    <3>3. (b - p) % (- step) = 0 <=> (p - b) % (- step) = 0
      <4>1. b \in Int /\ - step \in Int /\ - step > 0
        BY <1>1
      <4> QED
        BY <4>1, NegRemainder
    <3> QED
      BY <1>2, <1>3, <2>1, <2>2, <3>1, <3>2, <3>3
  <2>3. CASE p \notin 0 .. (len - 1)
    BY <1>1, <2>1, <2>3
  <2> QED
    BY <2>2, <2>3
<1> QED
  BY <1>1, <1>5 DEF b, e

(* Reading a slice of any sequence visits exactly the positions Python      *)
(* selects, all of them inside the sequence, once each and in the direction *)
(* of the step (clamp_slice_index, clamp_slice_index_neg, slice_sequence).  *)
THEOREM SlicesReadTheSelected ==
    ASSUME NEW lo \in Bounds, NEW hi \in Bounds, NEW len \in Nat, NEW step \in Int, step # 0
    PROVE  LET ps == ReadPositions(lo, hi, step, len)
           IN  /\ ps \in Seq(0 .. (len - 1))
               /\ Visited(ps) = Selected(lo, hi, step, len)
               /\ \A i, j \in DOMAIN ps : i < j => IF step > 0 THEN ps[i] < ps[j] ELSE ps[i] > ps[j]
<1> DEFINE ps == ReadPositions(lo, hi, step, len)
<1>1. PICK b \in Int, e \in Int :
        /\ ps = Walk(b, e, step)
        /\ \A p \in Int : Between(b, e, step, p) <=>
             p \in 0 .. (len - 1) /\ PySelects(lo, hi, step, len, p)
  <2>1. CASE step > 0
    <3> DEFINE b == clamp_slice_index(Ordinal(lo, 0), len)
               e == clamp_slice_index(Ordinal(hi, len), len)
    <3>1. /\ b \in 0 .. len /\ e \in 0 .. len
          /\ \A p \in Int : Between(b, e, step, p) <=>
               p \in 0 .. (len - 1) /\ PySelects(lo, hi, step, len, p)
      BY <2>1, ForwardEnds
    <3>2. ps = Walk(b, e, step)
      BY <2>1 DEF ReadPositions
    <3> HIDE DEF b, e, ps
    <3>3. b \in Int /\ e \in Int
      BY <3>1
    <3> QED
      BY <3>1, <3>2, <3>3
  <2>2. CASE step < 0
    <3> DEFINE b == clamp_slice_index_neg(Ordinal(lo, len - 1), len)
               e == clamp_slice_index_neg(Ordinal(hi, - (len + 1)), len)
    <3>1. /\ b \in -1 .. (len - 1) /\ e \in -1 .. (len - 1)
          /\ \A p \in Int : Between(b, e, step, p) <=>
               p \in 0 .. (len - 1) /\ PySelects(lo, hi, step, len, p)
      BY <2>2, BackwardEnds
    <3>2. ps = Walk(b, e, step)
      BY <2>2 DEF ReadPositions
    <3> HIDE DEF b, e, ps
    <3>3. b \in Int /\ e \in Int
      BY <3>1
    <3> QED
      BY <3>1, <3>2, <3>3
  <2> QED
    BY <2>1, <2>2
<1> HIDE DEF ps
<1>2. /\ ps \in Seq(Int) /\ \A j \in DOMAIN ps : ps[j] = b + (j - 1) * step
      /\ \A p \in Int : Between(b, e, step, p) <=> \E j \in DOMAIN ps : ps[j] = p
  <2> DEFINE W == Walk(b, e, step)
  <2>1. /\ W \in Seq(Int) /\ \A j \in DOMAIN W : W[j] = b + (j - 1) * step
        /\ \A p \in Int : Between(b, e, step, p) <=> \E j \in DOMAIN W : W[j] = p
    BY WalkMeets
  <2>2. ps = W
    BY <1>1
  <2> HIDE DEF W
  <2> QED
    BY <2>1, <2>2
<1>3. \A j \in DOMAIN ps : ps[j] \in Int /\ j \in Nat
  BY <1>2
<1>4. \A j \in DOMAIN ps : ps[j] \in 0 .. (len - 1) /\ PySelects(lo, hi, step, len, ps[j])
  BY <1>1, <1>2, <1>3
<1>5. \A p \in 0 .. (len - 1) : PySelects(lo, hi, step, len, p) => \E j \in DOMAIN ps : ps[j] = p
  BY <1>1, <1>2
<1>6. ps \in Seq(0 .. (len - 1))
  <2>1. Len(ps) \in Nat /\ ps = [j \in 1 .. Len(ps) |-> ps[j]] /\ DOMAIN ps = 1 .. Len(ps)
    BY <1>2
  <2>2. ps \in [1 .. Len(ps) -> 0 .. (len - 1)]
    BY <1>4, <2>1
  <2> QED
    BY <2>1, <2>2
<1>7. ASSUME NEW i \in DOMAIN ps, NEW j \in DOMAIN ps, i < j
      PROVE  IF step > 0 THEN ps[i] < ps[j] ELSE ps[i] > ps[j]
  <2>1. i \in Int /\ j \in Int /\ j - i > 0
    BY <1>3, <1>7
  <2>2. (j - 1) * step = (i - 1) * step + (j - i) * step
    BY <2>1
  <2>3. (j - i) * step \in Int /\ (i - 1) * step \in Int
    BY <2>1
  <2>4. IF step > 0 THEN (j - i) * step > 0 ELSE (j - i) * step < 0
    BY <2>1
  <2>5. ps[i] = b + (i - 1) * step /\ ps[j] = b + (i - 1) * step + (j - i) * step
    BY <1>2, <2>2
  <2> QED
    BY <2>3, <2>4, <2>5
<1>8. Visited(ps) = Selected(lo, hi, step, len)
  BY <1>4, <1>5 DEF Visited, Selected
<1> QED
  BY <1>6, <1>7, <1>8 DEF ps

(* Equal counts. *)
LEMMA SameCount ==
    ASSUME NEW m \in Nat, NEW n \in Nat, \A k \in Nat : k < m <=> k < n
    PROVE  m = n
<1>1. ~ (m < n) /\ ~ (n < m)
  OBVIOUS
<1> QED
  BY <1>1

(* The item at position p of a range from x by d, in or out of it. *)
ItemAt(x, d, p) == x + p * d

(* A walk over the positions of a range has as many steps as the range      *)
(* between the items at its ends.                                           *)
LEMMA MappedLength ==
    ASSUME NEW b \in Int, NEW e \in Int, NEW s \in Int, s # 0, NEW x \in Int, NEW d \in Int, d # 0,
           NEW by, by = d * s
    PROVE  RangeLength(<<ItemAt(x, d, b), ItemAt(x, d, e), by>>) = RangeLength(<<b, e, s>>)
<1> DEFINE first == ItemAt(x, d, b)
           last == ItemAt(x, d, e)
           m == RangeLength(<<first, last, by>>)
           n == RangeLength(<<b, e, s>>)
<1>1. /\ first = x + b * d /\ last = x + e * d
      /\ first \in Int /\ last \in Int /\ by \in Int /\ by # 0
  BY DEF ItemAt
<1>2. m \in Nat /\ \A k \in Nat : k < m <=>
        IF by > 0 THEN first + k * by < last ELSE last < first + k * by
  BY <1>1, WalkLength
<1>3. n \in Nat /\ \A k \in Nat : k < n <=> IF s > 0 THEN b + k * s < e ELSE e < b + k * s
  BY WalkLength
<1> HIDE DEF m, n, first, last
<1>4. ASSUME NEW k \in Nat PROVE k < m <=> k < n
  <2> DEFINE y == b + k * s
  <2>1. y \in Int /\ first + k * by = x + y * d /\ y * d \in Int /\ e * d \in Int
    BY <1>1
  <2> HIDE DEF y
  <2>2. d > 0 => (y < e <=> y * d < e * d) /\ (e < y <=> e * d < y * d)
    BY <2>1
  <2>3. d < 0 => (y < e <=> e * d < y * d) /\ (e < y <=> y * d < e * d)
    BY <2>1
  <2>4. /\ d > 0 => (d * s > 0 <=> s > 0)
        /\ d < 0 => (d * s > 0 <=> s < 0)
    OBVIOUS
  <2>5. k < m <=> IF d * s > 0 THEN y * d < e * d ELSE e * d < y * d
    BY <1>1, <1>2, <2>1
  <2>6. k < n <=> IF s > 0 THEN y < e ELSE e < y
    BY <1>3 DEF y
  <2> QED
    BY <2>2, <2>3, <2>4, <2>5, <2>6
<1>5. m = n
  BY <1>2, <1>3, <1>4, SameCount
<1> QED
  BY <1>5 DEF m, n, first, last

(* A slice of a range is a range whose items are the items at the selected  *)
(* positions: mapping the two ends and multiplying the steps loses and adds *)
(* none, whatever the signs of the steps (the Range arm of                  *)
(* apply_value_slice).                                                      *)
THEOREM RangesSliceToRanges ==
    ASSUME NEW x \in Int, NEW y \in Int, NEW d \in Int, d # 0,
           NEW lo \in Bounds, NEW hi \in Bounds, NEW step \in Int, step # 0
    PROVE  LET r == <<x, y, d>>
               ps == ReadPositions(lo, hi, step, RangeLength(r))
           IN  RangeItems(SliceRange(r, lo, hi, step))
                 = [j \in DOMAIN ps |-> At(RangeItems(r), ps[j])]
<1> DEFINE r == <<x, y, d>>
           len == RangeLength(r)
           ps == ReadPositions(lo, hi, step, len)
<1>1. len \in Nat
  BY WalkLength
<1>2. RangeItems(r) = [j \in 1 .. len |-> x + (j - 1) * d]
  BY DEF RangeItems
<1>3. /\ ps \in Seq(0 .. (len - 1))
      /\ \A j \in DOMAIN ps : ps[j] \in 0 .. (len - 1)
  <2> HIDE DEF len
  <2>1. ps \in Seq(0 .. (len - 1))
    BY <1>1, SlicesReadTheSelected
  <2> HIDE DEF ps
  <2>2. \A j \in DOMAIN ps : ps[j] \in 0 .. (len - 1)
    BY <1>1, <2>1
  <2> QED
    BY <2>1, <2>2
<1>4. PICK b \in Int, e \in Int :
        /\ ps = Walk(b, e, step)
        /\ SliceRange(r, lo, hi, step) = <<x + b * d, x + e * d, d * step>>
  <2>1. CASE step > 0
    <3> DEFINE b == clamp_slice_index(Ordinal(lo, 0), len)
               e == clamp_slice_index(Ordinal(hi, len), len)
    <3>1. SliceRange(r, lo, hi, step) = <<x + b * d, x + e * d, d * step>>
      BY <2>1 DEF SliceRange
    <3>2. ps = Walk(b, e, step)
      BY <2>1 DEF ReadPositions
    <3> HIDE DEF len, ps, r
    <3>3. b \in 0 .. len /\ e \in 0 .. len
      BY <1>1, <2>1, ForwardEnds
    <3> HIDE DEF b, e
    <3>4. b \in Int /\ e \in Int
      BY <1>1, <3>3
    <3> QED
      BY <3>1, <3>2, <3>4
  <2>2. CASE step < 0
    <3> DEFINE b == clamp_slice_index_neg(Ordinal(lo, len - 1), len)
               e == clamp_slice_index_neg(Ordinal(hi, - (len + 1)), len)
    <3>1. SliceRange(r, lo, hi, step) = <<x + b * d, x + e * d, d * step>>
      BY <2>2 DEF SliceRange
    <3>2. ps = Walk(b, e, step)
      BY <2>2 DEF ReadPositions
    <3> HIDE DEF len, ps, r
    <3>3. b \in -1 .. (len - 1) /\ e \in -1 .. (len - 1)
      BY <1>1, <2>2, BackwardEnds
    <3> HIDE DEF b, e
    <3>4. b \in Int /\ e \in Int
      BY <1>1, <3>3
    <3> QED
      BY <3>1, <3>2, <3>4
  <2> QED
    BY <2>1, <2>2
<1> DEFINE n == RangeLength(<<b, e, step>>)
<1>5. n \in Nat /\ ps = [j \in 1 .. n |-> b + (j - 1) * step]
  BY <1>4, WalkLength DEF Walk, RangeItems
<1>6. RangeLength(<<x + b * d, x + e * d, d * step>>) = n
  <2> HIDE DEF ps, len, r
  <2> QED
    <3> DEFINE by == d * step
    <3>1. by = d * step
      OBVIOUS
    <3> HIDE DEF by, n
    <3>2. RangeLength(<<ItemAt(x, d, b), ItemAt(x, d, e), by>>) = RangeLength(<<b, e, step>>)
      BY <3>1, MappedLength
    <3> QED
      BY <3>2 DEF by, n, ItemAt
<1>7. RangeItems(SliceRange(r, lo, hi, step))
        = [j \in 1 .. n |-> (x + b * d) + (j - 1) * (d * step)]
  BY <1>4, <1>6 DEF RangeItems
<1> HIDE DEF n, ps, len, r
<1>8. ASSUME NEW j \in 1 .. n
      PROVE  (x + b * d) + (j - 1) * (d * step) = At(RangeItems(r), ps[j])
  <2>1. ps[j] = b + (j - 1) * step /\ ps[j] \in 0 .. (len - 1)
    BY <1>3, <1>5
  <2>2. At(RangeItems(r), ps[j]) = x + ps[j] * d
    BY <1>1, <1>2, <2>1 DEF At
  <2>3. j - 1 \in Int
    BY <1>5
  <2>4. (b + (j - 1) * step) * d = b * d + (j - 1) * (d * step)
    BY <2>3
  <2> QED
    BY <2>1, <2>2, <2>3, <2>4
<1> QED
  BY <1>5, <1>7, <1>8 DEF ps, len, r

-----------------------------------------------------------------------------
(* The other paths *)

(* A sequence is what is before a position and what is not. *)
LEMMA CutInTwo ==
    ASSUME NEW S, NEW s \in Seq(S), NEW k \in Nat, k <= Len(s)
    PROVE  s = SubSeq(s, 1, k) \o SubSeq(s, k + 1, Len(s))
<1> DEFINE a == SubSeq(s, 1, k)
           b == SubSeq(s, k + 1, Len(s))
<1>1. /\ a \in Seq(S) /\ Len(a) = k /\ \A j \in 1 .. k : a[j] = s[j]
      /\ b \in Seq(S) /\ Len(b) = Len(s) - k /\ \A j \in 1 .. (Len(s) - k) : b[j] = s[k + j]
  OBVIOUS
<1> HIDE DEF a, b
<1>2. /\ a \o b \in Seq(S) /\ Len(a \o b) = Len(s)
      /\ \A j \in 1 .. Len(s) : (a \o b)[j] = IF j <= k THEN a[j] ELSE b[j - k]
  BY <1>1, ConcatProperties
<1>3. \A j \in 1 .. Len(s) : (a \o b)[j] = s[j]
  BY <1>1, <1>2
<1> QED
  BY <1>2, <1>3, SeqEqual DEF a, b

(* The path of writes computes the positions the path of reads does. *)
LEMMA SamePositions ==
    ASSUME NEW lo, NEW hi, NEW step, NEW len
    PROVE  extended_indices(len, lo, hi, step) = ReadPositions(lo, hi, step, len)
BY DEF extended_indices, ReadPositions, clamp_index, clamp_index_neg, clamp_slice_index,
       clamp_slice_index_neg, resolve_bound

(* The span of a slice with step one. *)
LEMMA SpanFacts ==
    ASSUME NEW lo \in Bounds, NEW hi \in Bounds, NEW len \in Nat
    PROVE  /\ SpanStart(lo, len) \in 0 .. len /\ SpanEnd(lo, hi, len) \in SpanStart(lo, len) .. len
           /\ \A p \in Int : p \in SpanStart(lo, len) .. (SpanEnd(lo, hi, len) - 1)
                <=> p \in 0 .. (len - 1) /\ PySelects(lo, hi, 1, len, p)
<1> DEFINE b == clamp_slice_index(Ordinal(lo, 0), len)
           e == clamp_slice_index(Ordinal(hi, len), len)
<1>1. /\ b \in 0 .. len /\ e \in 0 .. len
      /\ \A p \in Int : Between(b, e, 1, p) <=> p \in 0 .. (len - 1) /\ PySelects(lo, hi, 1, len, p)
  BY ForwardEnds
<1>2. SpanStart(lo, len) = b /\ SpanEnd(lo, hi, len) = IF e < b THEN b ELSE e
  BY DEF SpanStart, SpanEnd, clamp_index, clamp_slice_index, resolve_bound
<1> HIDE DEF b, e
<1>3. \A p \in Int : Between(b, e, 1, p) <=> b <= p /\ p < e
  BY <1>1 DEF Between
<1> QED
  BY <1>1, <1>2, <1>3

(* The path of writes reads a slice, for an augmented assignment, as the    *)
(* path of reads does, errors included, although it takes steps of one as a *)
(* span and the others as a walk (get_slice, apply_value_slice).            *)
THEOREM PathsReadAlike ==
    ASSUME NEW S, NEW s \in Seq(S), NEW lo \in Bounds, NEW hi \in Bounds,
           NEW step \in Bounds
    PROVE  get_slice(s, lo, hi, step) = apply_value_slice(s, lo, hi, step)
<1> DEFINE len == Len(s)
           k == Ordinal(step, 1)
<1>1. len \in Nat /\ k \in Int
  BY BoundFacts DEF Ordinal
<1>2. BoundsOk(lo, hi) /\ StepOf(step) = IF k = 0 THEN Failed("ValueError") ELSE Done(k)
  BY BoundFacts DEF BoundsOk, StepOf
<1>3. CASE k = 0
  BY <1>2, <1>3 DEF get_slice, apply_value_slice, resolve_step, Failed
<1>4. CASE k # 0
  <2>1. resolve_step(step) = Done(k) /\ Done(k).ok /\ Done(k).v = k
    BY <1>2, <1>4 DEF resolve_step, Done
  <2> DEFINE ps == ReadPositions(lo, hi, k, len)
  <2>2. apply_value_slice(s, lo, hi, step) = Done([j \in DOMAIN ps |-> At(s, ps[j])])
    BY <1>2, <2>1 DEF apply_value_slice, slice_sequence, resolve_step
  <2>3. CASE k # 1
    <3>1. get_slice(s, lo, hi, step)
            = Done([j \in DOMAIN extended_indices(len, lo, hi, k) |->
                       At(s, extended_indices(len, lo, hi, k)[j])])
      BY <1>2, <2>1, <2>3 DEF get_slice
    <3> QED
      BY <2>2, <3>1, SamePositions
  <2>4. CASE k = 1
    <3> DEFINE b == clamp_slice_index(Ordinal(lo, 0), len)
               e == clamp_slice_index(Ordinal(hi, len), len)
               c == IF e < b THEN b ELSE e
    <3>1. b \in 0 .. len /\ e \in 0 .. len
      BY <1>1, ForwardEnds
    <3>2. get_slice(s, lo, hi, step) = Done(Sub(s, b, c))
      BY <1>2, <2>1, <2>4
         DEF get_slice, SpanStart, SpanEnd, clamp_index, clamp_slice_index, resolve_bound
    <3>3. ps = Walk(b, e, 1)
      BY <2>4 DEF ReadPositions
    <3> HIDE DEF b, e, ps, len, k
    <3>4. RangeLength(<<b, e, 1>>) = c - b
      BY <3>1 DEF RangeLength
    <3>5. ps = [j \in 1 .. (c - b) |-> b + (j - 1) * 1]
      BY <3>3, <3>4 DEF Walk, RangeItems
    <3>6. Sub(s, b, c) = [j \in 1 .. (c - b) |-> s[b + j]]
      <4>1. b + 1 \in Int /\ c \in Int /\ c - (b + 1) + 1 = c - b
        BY <1>1, <3>1
      <4>2. SubSeq(s, b + 1, c) = [j \in 1 .. (c - (b + 1) + 1) |-> s[j + (b + 1) - 1]]
        BY <4>1
      <4>3. \A j \in 1 .. (c - b) : s[j + (b + 1) - 1] = s[b + j]
        BY <4>1, <3>1
      <4> QED
        BY <4>1, <4>2, <4>3 DEF Sub
    <3>7. \A j \in 1 .. (c - b) : At(s, b + (j - 1) * 1) = s[b + j]
      <4>1. \A j \in 1 .. (c - b) : b + (j - 1) * 1 + 1 = b + j
        BY <3>1
      <4> QED
        BY <4>1 DEF At
    <3>8. [j \in DOMAIN ps |-> At(s, ps[j])] = [j \in 1 .. (c - b) |-> s[b + j]]
      BY <3>5, <3>7
    <3> QED
      BY <2>2, <3>2, <3>6, <3>8
  <2> QED
    BY <2>3, <2>4
<1> QED
  BY <1>3, <1>4

(* An assignment to a slice with step one puts its values in place of the   *)
(* selected positions and of no other, and where none is selected, between  *)
(* the items before its start and the others (set_slice).                   *)
THEOREM SplicesReplaceTheSelected ==
    ASSUME NEW S, NEW s \in Seq(S), NEW lo \in Bounds, NEW hi \in Bounds,
           NEW step \in Bounds, Ordinal(step, 1) = 1, NEW xs \in Seq(S)
    PROVE  \E from \in 0 .. Len(s) : \E to \in from .. Len(s) :
              /\ \A p \in 0 .. (Len(s) - 1) :
                   p \in from .. (to - 1) <=> PySelects(lo, hi, 1, Len(s), p)
              /\ set_slice(s, lo, hi, step, xs)
                   = Done(SubSeq(s, 1, from) \o xs \o SubSeq(s, to + 1, Len(s)))
<1> DEFINE from == SpanStart(lo, Len(s))
           to == SpanEnd(lo, hi, Len(s))
<1>1. Len(s) \in Nat
  OBVIOUS
<1>2. /\ from \in 0 .. Len(s) /\ to \in from .. Len(s)
      /\ \A p \in Int : p \in from .. (to - 1)
           <=> p \in 0 .. (Len(s) - 1) /\ PySelects(lo, hi, 1, Len(s), p)
  BY <1>1, SpanFacts
<1>3. BoundsOk(lo, hi) /\ StepOf(step) = Done(1)
  BY BoundFacts DEF BoundsOk, StepOf
<1>4. set_slice(s, lo, hi, step, xs) = Done(Splice(s, from, to, xs))
  BY <1>3 DEF set_slice, resolve_step, Done
<1>5. Splice(s, from, to, xs) = SubSeq(s, 1, from) \o xs \o SubSeq(s, to + 1, Len(s))
  BY DEF Splice, Sub
<1> HIDE DEF from, to
<1>6. \A p \in 0 .. (Len(s) - 1) : p \in from .. (to - 1) <=> PySelects(lo, hi, 1, Len(s), p)
  BY <1>1, <1>2
<1> QED
  BY <1>2, <1>4, <1>5, <1>6

(* Deleting a slice with step one removes the selected positions and no     *)
(* other, if its bounds are absent or ints (delete_slice takes other bounds *)
(* for absent ones).                                                        *)
THEOREM DeletesTheSelected ==
    ASSUME NEW S, NEW s \in Seq(S), NEW lo \in Bounds, NEW hi \in Bounds,
           lo[1] # "bool", hi[1] # "bool", NEW step \in Bounds, Ordinal(step, 1) = 1
    PROVE  \E from \in 0 .. Len(s) : \E to \in from .. Len(s) :
              /\ \A p \in 0 .. (Len(s) - 1) :
                   p \in from .. (to - 1) <=> PySelects(lo, hi, 1, Len(s), p)
              /\ delete_slice(s, lo, hi, step) = Done(SubSeq(s, 1, from) \o SubSeq(s, to + 1, Len(s)))
<1> DEFINE from == SpanStart(lo, Len(s))
           to == SpanEnd(lo, hi, Len(s))
           end == ClampInt(hi, Len(s), Len(s))
<1>1. Len(s) \in Nat
  OBVIOUS
<1>2. /\ from \in 0 .. Len(s) /\ to \in from .. Len(s)
      /\ \A p \in Int : p \in from .. (to - 1)
           <=> p \in 0 .. (Len(s) - 1) /\ PySelects(lo, hi, 1, Len(s), p)
  BY <1>1, SpanFacts
<1>3. StepOf(step) = Done(1) /\ Done(1).ok /\ Done(1).v = 1
  <2>1. StepOf(step) = Done(1)
    BY BoundFacts DEF StepOf
  <2> QED
    BY <2>1 DEF Done
<1>4. ClampInt(lo, 0, Len(s)) = from
  <2>1. lo[1] = "absent" \/ (lo[1] = "int" /\ lo[2] \in Int)
    BY BoundFacts
  <2> QED
    BY <1>1, <2>1 DEF ClampInt, SpanStart, clamp_index, resolve_bound, Ordinal, FromEnd, Bounded
<1>5. end \in 0 .. Len(s) /\ to = IF end < from THEN from ELSE end
  <2>1. hi[1] = "absent" \/ (hi[1] = "int" /\ hi[2] \in Int)
    BY BoundFacts
  <2>2. end \in 0 .. Len(s) /\ end = clamp_index(resolve_bound(hi, Len(s)), Len(s))
    BY <1>1, <2>1 DEF ClampInt, clamp_index, resolve_bound, Ordinal, FromEnd, Bounded
  <2> QED
    BY <2>2 DEF SpanEnd
<1>6. delete_slice(s, lo, hi, step) = Done(Drained(s, from, end))
  BY <1>3, <1>4 DEF delete_slice
<1> HIDE DEF from, to, end
<1>7. Drained(s, from, end) = SubSeq(s, 1, from) \o SubSeq(s, to + 1, Len(s))
  <2>1. CASE from < end
    <3>1. to = end /\ Drained(s, from, end) = Sub(s, 0, from) \o Sub(s, end, Len(s))
      BY <1>1, <1>2, <1>5, <2>1 DEF Drained
    <3> QED
      BY <3>1 DEF Sub
  <2>2. CASE ~ (from < end)
    <3>1. to = from /\ Drained(s, from, end) = s
      BY <1>1, <1>2, <1>5, <2>2 DEF Drained
    <3>2. from \in Nat /\ from <= Len(s)
      BY <1>1, <1>2
    <3>3. s = SubSeq(s, 1, from) \o SubSeq(s, from + 1, Len(s))
      BY <3>2, CutInTwo
    <3> QED
      BY <3>1, <3>3
  <2> QED
    BY <2>1, <2>2
<1>8. \A p \in 0 .. (Len(s) - 1) : p \in from .. (to - 1) <=> PySelects(lo, hi, 1, Len(s), p)
  BY <1>1, <1>2
<1> QED
  BY <1>2, <1>6, <1>7, <1>8

(* With another step the selected positions are removed one by one, each    *)
(* before the ones below it, so that none has moved when its turn comes     *)
(* (strided_indices).                                                       *)
THEOREM StridesDeleteFromTheEnd ==
    ASSUME NEW lo \in Bounds, NEW hi \in Bounds, NEW len \in Nat, NEW step \in Int, step # 0
    PROVE  LET ps == strided_indices(lo, hi, step, len)
           IN  /\ Visited(ps) = Selected(lo, hi, step, len)
               /\ \A i, j \in DOMAIN ps : i < j => ps[i] > ps[j]
<1> DEFINE qs == ReadPositions(lo, hi, step, len)
           ps == strided_indices(lo, hi, step, len)
           sel == Selected(lo, hi, step, len)
<1>1. /\ qs \in Seq(0 .. (len - 1)) /\ Visited(qs) = sel
      /\ \A i, j \in DOMAIN qs : i < j => IF step > 0 THEN qs[i] < qs[j] ELSE qs[i] > qs[j]
  <2>1. qs \in Seq(0 .. (len - 1))
    BY SlicesReadTheSelected
  <2>2. Visited(qs) = sel
    BY SlicesReadTheSelected
  <2>3. \A i, j \in DOMAIN qs : i < j => IF step > 0 THEN qs[i] < qs[j] ELSE qs[i] > qs[j]
    BY SlicesReadTheSelected
  <2> QED
    BY <2>1, <2>2, <2>3
<1>2. ps = IF step > 0 THEN Reverse(qs) ELSE qs
  BY DEF strided_indices
<1> HIDE DEF qs, ps, sel
<1>3. CASE step > 0
  <2> DEFINE n == Len(qs)
  <2>1. n \in Nat /\ DOMAIN qs = 1 .. n /\ \A j \in 1 .. n : qs[j] \in Int
    BY <1>1
  <2>2. ps = [i \in 1 .. n |-> qs[(n - i) + 1]]
    BY <1>2, <1>3 DEF Reverse
  <2> HIDE DEF n
  <2>3. \A i \in 1 .. n : (n - i) + 1 \in 1 .. n /\ (n - ((n - i) + 1)) + 1 = i
    BY <2>1
  <2>4. DOMAIN ps = 1 .. n /\ \A i \in 1 .. n : ps[i] = qs[(n - i) + 1] /\ qs[i] = ps[(n - i) + 1]
    BY <2>2, <2>3
  <2>5. Visited(ps) = Visited(qs)
    BY <2>1, <2>3, <2>4 DEF Visited
  <2>6. ASSUME NEW i \in 1 .. n, NEW j \in 1 .. n, i < j PROVE ps[i] > ps[j]
    <3>1. (n - j) + 1 < (n - i) + 1
      BY <2>1, <2>6
    <3>2. qs[(n - j) + 1] < qs[(n - i) + 1]
      BY <1>1, <1>3, <2>1, <2>3, <3>1
    <3> QED
      BY <2>1, <2>3, <2>4, <3>2
  <2> QED
    BY <1>1, <2>4, <2>5, <2>6 DEF ps, sel
<1>4. CASE ~ (step > 0)
  BY <1>1, <1>2, <1>4 DEF ps, sel
<1> QED
  BY <1>3, <1>4

-----------------------------------------------------------------------------
(* Widths *)

(* The theorems above are about integers, and the code computes with i64.   *)
(* The loops add the step once more after the last position: they stay      *)
(* within numbers up to w as long as the length and the step together do    *)
(* (slice_sequence, extended_indices, strided_indices).  Beyond that, as in *)
(* s[1::2**63 - 1], the sum overflows.                                      *)
THEOREM WalksFitTheWidth ==
    ASSUME NEW lo \in Bounds, NEW hi \in Bounds, NEW len \in Nat, NEW step \in Int, step # 0,
           NEW w \in Nat, len + step <= w, len - step <= w
    PROVE  LET ps == ReadPositions(lo, hi, step, len)
           IN  \A j \in DOMAIN ps : ps[j] + step \in -w .. w
<1> DEFINE ps == ReadPositions(lo, hi, step, len)
<1>1. ps \in Seq(0 .. (len - 1))
  BY SlicesReadTheSelected
<1> HIDE DEF ps
<1>2. \A j \in DOMAIN ps : ps[j] \in 0 .. (len - 1)
  BY <1>1
<1>3. \A j \in DOMAIN ps : ps[j] + step \in -w .. w
  BY <1>2
<1> QED
  BY <1>3 DEF ps

(* A factor between two others has its multiple between theirs. *)
LEMMA ItemsBetween ==
    ASSUME NEW x \in Int, NEW d \in Int, d # 0, NEW n \in Int, NEW p \in -1 .. n, NEW w \in Int,
           x - d \in -w .. w, x + n * d \in -w .. w
    PROVE  x + p * d \in -w .. w
<1>1. p \in Int /\ -1 <= p /\ p <= n /\ p * d \in Int /\ n * d \in Int
  OBVIOUS
<1>2. CASE d > 0
  <2>1. d * (-1) <= d * p /\ d * p <= d * n
    BY <1>1, <1>2, FactorLeq
  <2>2. d * (-1) = - d /\ d * p = p * d /\ d * n = n * d
    BY <1>1
  <2> QED
    BY <1>1, <2>1, <2>2
<1>3. CASE d < 0
  <2>1. - d \in Int /\ - d > 0
    BY <1>3
  <2>2. (- d) * (-1) <= (- d) * p /\ (- d) * p <= (- d) * n
    BY <1>1, <2>1, FactorLeq
  <2>3. (- d) * (-1) = d /\ (- d) * p = - (p * d) /\ (- d) * n = - (n * d)
    BY <1>1
  <2> QED
    BY <1>1, <2>2, <2>3
<1> QED
  BY <1>2, <1>3

(* The ends of a sliced range fit if the places before the first and after  *)
(* the last item of the range do.  A range that ends within a step of the   *)
(* widest integer has no such place, and its slices overflow (the Range arm *)
(* of apply_value_slice).                                                   *)
THEOREM SlicedRangesFit ==
    ASSUME NEW x \in Int, NEW y \in Int, NEW d \in Int, d # 0,
           NEW lo \in Bounds, NEW hi \in Bounds, NEW step \in Int, step # 0, NEW w \in Nat,
           x - d \in -w .. w, x + RangeLength(<<x, y, d>>) * d \in -w .. w
    PROVE  LET r == SliceRange(<<x, y, d>>, lo, hi, step) IN r[1] \in -w .. w /\ r[2] \in -w .. w
<1> DEFINE len == RangeLength(<<x, y, d>>)
           r == SliceRange(<<x, y, d>>, lo, hi, step)
<1>1. len \in Nat
  BY WalkLength
<1>2. PICK b \in -1 .. len, e \in -1 .. len : r[1] = x + b * d /\ r[2] = x + e * d
  <2>1. CASE step > 0
    <3> DEFINE b == clamp_slice_index(Ordinal(lo, 0), len)
               e == clamp_slice_index(Ordinal(hi, len), len)
    <3>1. r[1] = x + b * d /\ r[2] = x + e * d
      BY <2>1 DEF SliceRange
    <3> HIDE DEF len, r
    <3>2. b \in 0 .. len /\ e \in 0 .. len
      BY <1>1, <2>1, ForwardEnds
    <3> HIDE DEF b, e
    <3>3. b \in -1 .. len /\ e \in -1 .. len
      BY <1>1, <3>2
    <3> QED
      BY <3>1, <3>3
  <2>2. CASE step < 0
    <3> DEFINE b == clamp_slice_index_neg(Ordinal(lo, len - 1), len)
               e == clamp_slice_index_neg(Ordinal(hi, - (len + 1)), len)
    <3>1. r[1] = x + b * d /\ r[2] = x + e * d
      BY <2>2 DEF SliceRange
    <3> HIDE DEF len, r
    <3>2. b \in -1 .. (len - 1) /\ e \in -1 .. (len - 1)
      BY <1>1, <2>2, BackwardEnds
    <3> HIDE DEF b, e
    <3>3. b \in -1 .. len /\ e \in -1 .. len
      BY <1>1, <3>2
    <3> QED
      BY <3>1, <3>3
  <2> QED
    BY <2>1, <2>2
<1>3. x - d \in -w .. w /\ x + len * d \in -w .. w
  OBVIOUS
<1> HIDE DEF len, r
<1>4. x + b * d \in -w .. w /\ x + e * d \in -w .. w
  BY <1>1, <1>3, ItemsBetween
<1>5. r[1] \in -w .. w /\ r[2] \in -w .. w
  BY <1>2, <1>4
<1> QED
  BY <1>5 DEF r

-----------------------------------------------------------------------------
(* Arguments *)

(* A signature the parser accepts: its parameters have different names, only as *)
(* many defaults and positional-only parameters as there are parameters.        *)
Signature(p) ==
    /\ Len(p.args) \in Nat /\ DOMAIN p.args = 1 .. Len(p.args)
    /\ \A i, j \in 1 .. Len(p.args) : p.args[i] = p.args[j] => i = j
    /\ ArgNames(p) \cap KwNames(p) = {}
    /\ {Rest, Extra, "nowhere"} \cap (ArgNames(p) \cup KwNames(p)) = {}
    /\ p.posonly \in 0 .. Len(p.args) /\ p.defaults \in 0 .. Len(p.args)
    /\ p.vararg \in BOOLEAN /\ p.kwarg \in BOOLEAN /\ p.kwdefaults \subseteq KwNames(p)

(* The argument in a position, and the one with a name. *)
ArgAt(i) == <<"pos", i>>
ArgNamed(x) == <<"kw", x>>

(* Positions and names are different arguments. *)
LEMMA ArgumentNames ==
    /\ \A i, j : ArgAt(i) # ArgNamed(j) /\ (ArgAt(i) = ArgAt(j) => i = j) /\ (ArgNamed(i) = ArgNamed(j) => i = j)
    /\ \A i : ArgAt(i)[1] = "pos" /\ ArgAt(i)[2] = i /\ ArgNamed(i)[1] = "kw" /\ ArgNamed(i)[2] = i
BY DEF ArgAt, ArgNamed

(* An argument goes to x: by its position, or by its name. *)
LEMMA GivenParts ==
    ASSUME NEW p, NEW args, NEW kw, NEW x
    PROVE  Given(p, args, kw, x) =
             {ArgAt(i) : i \in {i \in DOMAIN args : PlaceOf(p, ArgAt(i)) = x}} \cup
             {ArgNamed(y) : y \in {y \in DOMAIN kw : PlaceOf(p, ArgNamed(y)) = x}}
  BY DEF Given, Arguments, ArgAt, ArgNamed

(* Where arguments go. *)
LEMMA PlaceFacts ==
    ASSUME NEW p
    PROVE  /\ \A i : PlaceOf(p, ArgAt(i)) = IF i <= Len(p.args) THEN p.args[i] ELSE IF p.vararg THEN Rest ELSE "nowhere"
           /\ \A y : PlaceOf(p, ArgNamed(y)) = IF y \in ClaimedByName(p) THEN y ELSE IF p.kwarg THEN Extra ELSE "nowhere"
  BY ArgumentNames DEF PlaceOf

(* The arguments x may be given: the one in position i, unless x takes none, and the one named x. *)
Mine(p, args, kw, i, x) ==
    {ArgAt(j) : j \in {j \in {i} : j <= Len(args)}} \cup
    {ArgNamed(y) : y \in {y \in {x} : i > p.posonly /\ y \in DOMAIN kw}}

(* What a parameter that takes positions is given. *)
LEMMA GivenPositional ==
    ASSUME NEW p, Signature(p), NEW args, Len(args) \in Nat, DOMAIN args = 1 .. Len(args), NEW kw,
           NEW i \in 1 .. Len(p.args)
    PROVE  Given(p, args, kw, p.args[i]) = Mine(p, args, kw, i, p.args[i])
<1> DEFINE x == p.args[i]
<1>1. x \in ArgNames(p) /\ x \notin {Rest, Extra, "nowhere"} /\ x \notin KwNames(p)
  BY DEF Signature, ArgNames, ToSet
<1>2. x \in PosOnly(p) <=> i <= p.posonly
  BY DEF Signature, PosOnly
<1>3. x \in ClaimedByName(p) <=> i > p.posonly
  BY <1>1, <1>2 DEF ClaimedByName, Signature
<1>4. {j \in DOMAIN args : PlaceOf(p, ArgAt(j)) = x} = {j \in {i} : j <= Len(args)}
  <2>1. ASSUME NEW j \in DOMAIN args
        PROVE  PlaceOf(p, ArgAt(j)) = x <=> j = i
    BY <1>1, PlaceFacts DEF Signature
  <2> HIDE DEF x
  <2> QED
    BY <2>1
<1>5. {y \in DOMAIN kw : PlaceOf(p, ArgNamed(y)) = x} = {y \in {x} : i > p.posonly /\ y \in DOMAIN kw}
  <2>1. ASSUME NEW y \in DOMAIN kw
        PROVE  PlaceOf(p, ArgNamed(y)) = x <=> y = x /\ i > p.posonly
    BY <1>1, <1>3, PlaceFacts
  <2> HIDE DEF x
  <2> QED
    BY <2>1
<1> HIDE DEF x
<1>6. Given(p, args, kw, x) = Mine(p, args, kw, i, x)
  BY <1>4, <1>5, GivenParts DEF Mine
<1> QED
  BY <1>6 DEF x

(* What a keyword-only parameter is given. *)
LEMMA GivenKeyword ==
    ASSUME NEW p, Signature(p), NEW args, Len(args) \in Nat, DOMAIN args = 1 .. Len(args), NEW kw,
           NEW x \in KwNames(p)
    PROVE  Given(p, args, kw, x) = {ArgNamed(y) : y \in {y \in {x} : y \in DOMAIN kw}}
<1>1. x \in ClaimedByName(p) /\ x \notin {Rest, Extra, "nowhere"} /\ x \notin ArgNames(p)
  BY DEF Signature, ClaimedByName
<1>2. {j \in DOMAIN args : PlaceOf(p, ArgAt(j)) = x} = {}
  <2>1. ASSUME NEW j \in DOMAIN args
        PROVE  PlaceOf(p, ArgAt(j)) # x
    <3>1. j <= Len(p.args) => p.args[j] \in ArgNames(p)
      BY DEF Signature, ArgNames, ToSet
    <3> QED
      BY <1>1, <3>1, PlaceFacts
  <2> QED
    BY <2>1
<1>3. {y \in DOMAIN kw : PlaceOf(p, ArgNamed(y)) = x} = {y \in {x} : y \in DOMAIN kw}
  BY <1>1, PlaceFacts
<1> QED
  BY <1>2, <1>3, GivenParts

(* What the variadic parameters are given, and what is given to none. *)
LEMMA GivenRest ==
    ASSUME NEW p, Signature(p), NEW args, Len(args) \in Nat, DOMAIN args = 1 .. Len(args), NEW kw
    PROVE  /\ p.vararg => Given(p, args, kw, Rest) = {ArgAt(j) : j \in (Len(p.args) + 1) .. Len(args)}
           /\ p.kwarg => Given(p, args, kw, Extra) = {ArgNamed(y) : y \in DOMAIN kw \ ClaimedByName(p)}
           /\ Given(p, args, kw, "nowhere") = {} <=>
                /\ p.vararg \/ Len(args) <= Len(p.args)
                /\ p.kwarg \/ DOMAIN kw \subseteq ClaimedByName(p)
<1>1. \A j \in DOMAIN args : j <= Len(p.args) => p.args[j] \notin {Rest, Extra, "nowhere"}
  <2>1. \A j \in DOMAIN args : j <= Len(p.args) => p.args[j] \in ArgNames(p)
    BY DEF Signature, ArgNames, ToSet
  <2> QED
    BY <2>1 DEF Signature
<1>2. \A y \in ClaimedByName(p) : y \notin {Rest, Extra, "nowhere"}
  BY DEF ClaimedByName, Signature
<1>3. Rest # Extra /\ Rest # "nowhere" /\ Extra # "nowhere"
  BY DEF Rest, Extra
<1>4. ASSUME p.vararg
      PROVE  Given(p, args, kw, Rest) = {ArgAt(j) : j \in (Len(p.args) + 1) .. Len(args)}
  <2>1. {j \in DOMAIN args : PlaceOf(p, ArgAt(j)) = Rest} = (Len(p.args) + 1) .. Len(args)
    <3>1. ASSUME NEW j \in DOMAIN args
          PROVE  PlaceOf(p, ArgAt(j)) = Rest <=> j > Len(p.args)
      BY <1>1, <1>4, PlaceFacts DEF Signature
    <3>2. Len(p.args) \in Nat
      BY DEF Signature
    <3> QED
      BY <3>1, <3>2
  <2>2. {y \in DOMAIN kw : PlaceOf(p, ArgNamed(y)) = Rest} = {}
    BY <1>2, <1>3, PlaceFacts
  <2> QED
    BY <2>1, <2>2, GivenParts
<1>5. ASSUME p.kwarg
      PROVE  Given(p, args, kw, Extra) = {ArgNamed(y) : y \in DOMAIN kw \ ClaimedByName(p)}
  <2>1. {j \in DOMAIN args : PlaceOf(p, ArgAt(j)) = Extra} = {}
    BY <1>1, <1>3, PlaceFacts
  <2>2. {y \in DOMAIN kw : PlaceOf(p, ArgNamed(y)) = Extra} = DOMAIN kw \ ClaimedByName(p)
    BY <1>2, <1>5, PlaceFacts
  <2> QED
    BY <2>1, <2>2, GivenParts
<1>6. \A j \in DOMAIN args : PlaceOf(p, ArgAt(j)) = "nowhere" <=> ~ p.vararg /\ j > Len(p.args)
  <2>1. ASSUME NEW j \in DOMAIN args
        PROVE  PlaceOf(p, ArgAt(j)) = "nowhere" <=> ~ p.vararg /\ j > Len(p.args)
    <3>1. j \in Int /\ Len(p.args) \in Int
      BY DEF Signature
    <3> QED
      BY <1>1, <1>3, <3>1, PlaceFacts
  <2> QED
    BY <2>1
<1>7. \A y \in DOMAIN kw : PlaceOf(p, ArgNamed(y)) = "nowhere" <=> ~ p.kwarg /\ y \notin ClaimedByName(p)
  BY <1>2, <1>3, PlaceFacts
<1>8. Given(p, args, kw, "nowhere") = {} <=>
        /\ \A j \in DOMAIN args : p.vararg \/ j <= Len(p.args)
        /\ \A y \in DOMAIN kw : p.kwarg \/ y \in ClaimedByName(p)
  <2>1. Len(p.args) \in Int /\ \A j \in DOMAIN args : j \in Int
    BY DEF Signature
  <2>2. Given(p, args, kw, "nowhere") = {} <=>
          /\ \A j \in DOMAIN args : PlaceOf(p, ArgAt(j)) # "nowhere"
          /\ \A y \in DOMAIN kw : PlaceOf(p, ArgNamed(y)) # "nowhere"
    BY GivenParts
  <2> QED
    BY <1>6, <1>7, <2>1, <2>2
<1>9. (\A j \in DOMAIN args : j <= Len(p.args)) <=> Len(args) <= Len(p.args)
  BY DEF Signature
<1> QED
  BY <1>4, <1>5, <1>8, <1>9

(* Exactly one argument goes to x, or none does and it has a default. *)
Fits(p, args, kw, x) ==
    Cardinality(Given(p, args, kw, x)) = 1 \/ (Given(p, args, kw, x) = {} /\ HasDefault(p, x))

(* One or two arguments. *)
LEMMA Counts ==
    /\ \A x : Cardinality({x}) = 1
    /\ \A x, y : x # y => Cardinality({x, y}) # 1
    /\ Cardinality({}) # 1
<1>1. \A x : Cardinality({x}) = 1
  BY FS_Singleton
<1>2. ASSUME NEW x, NEW y, x # y
      PROVE  Cardinality({x, y}) = 2
  <2>1. IsFiniteSet({x}) /\ Cardinality({x}) = 1
    BY FS_Singleton
  <2>2. Cardinality({x} \cup {y}) = 1 + 1
    BY <1>2, <2>1, FS_AddElement
  <2>3. {x, y} = {x} \cup {y}
    OBVIOUS
  <2> QED
    BY <2>2, <2>3
<1>3. Cardinality({}) # 1
  <2>1. Cardinality({}) = 0
    BY FS_EmptySet
  <2> QED
    BY <2>1
<1>4. ASSUME NEW x, NEW y, x # y
      PROVE  Cardinality({x, y}) # 1
  <2>1. Cardinality({x, y}) = 2
    BY <1>2, <1>4
  <2> QED
    BY <2>1
<1> QED
  BY <1>1, <1>3, <1>4

(* A positional parameter fits if no check refuses it, and gets what it is given. *)
LEMMA PositionalFits ==
    ASSUME NEW p, Signature(p), NEW args, Len(args) \in Nat, DOMAIN args = 1 .. Len(args), NEW kw,
           NEW i \in 1 .. Len(p.args), NEW x, x = p.args[i]
    PROVE  /\ Fits(p, args, kw, x) <=>
                ~ (i > p.posonly /\ i <= Len(args) /\ x \in DOMAIN kw) /\ Positional(p, i, args, kw) # <<>>
           /\ Fits(p, args, kw, x) =>
                /\ Given(p, args, kw, x) = {} => Positional(p, i, args, kw)[1] = DefaultOf(x)
                /\ \A a \in Given(p, args, kw, x) : Positional(p, i, args, kw)[1] = ValueOf(args, kw, a)
<1> DEFINE given == Given(p, args, kw, x)
           value == Positional(p, i, args, kw)
<1>1. given = {ArgAt(j) : j \in {j \in {i} : j <= Len(args)}} \cup
              {ArgNamed(y) : y \in {y \in {x} : i > p.posonly /\ y \in DOMAIN kw}}
  <2>1. Given(p, args, kw, x) = Mine(p, args, kw, i, x)
    BY GivenPositional
  <2> QED
    BY <2>1 DEF Mine
<1>2. HasDefault(p, x) <=> Defaulted(p, i)
  <2>1. x \notin p.kwdefaults
    BY DEF Signature, ArgNames, ToSet
  <2> QED
    BY <2>1 DEF HasDefault, Signature
<1>3. ValueOf(args, kw, ArgAt(i)) = args[i] /\ ValueOf(args, kw, ArgNamed(x)) = kw[x]
  BY ArgumentNames DEF ValueOf
<1>4. \A v : <<v>> # <<>> /\ <<v>>[1] = v
  OBVIOUS
<1>5. value = IF i <= Len(args) THEN <<args[i]>>
              ELSE IF i > p.posonly /\ x \in DOMAIN kw THEN <<kw[x]>>
              ELSE IF Defaulted(p, i) THEN <<DefaultOf(x)>> ELSE <<>>
  BY DEF Positional
<1>6. Fits(p, args, kw, x) <=> Cardinality(given) = 1 \/ (given = {} /\ Defaulted(p, i))
  BY <1>2 DEF Fits
<1> HIDE DEF given, value
<1>7. CASE i <= Len(args) /\ i > p.posonly /\ x \in DOMAIN kw
  <2>1. given = {ArgAt(i), ArgNamed(x)} /\ ArgAt(i) # ArgNamed(x)
    BY <1>1, <1>7, ArgumentNames
  <2> QED
    BY <1>6, <1>7, <2>1, Counts DEF given
<1>8. CASE i <= Len(args) /\ ~ (i > p.posonly /\ x \in DOMAIN kw)
  <2>1. given = {ArgAt(i)} /\ value = <<args[i]>>
    BY <1>1, <1>5, <1>8
  <2> QED
    BY <1>3, <1>4, <1>6, <1>8, <2>1, Counts DEF given, value
<1>9. CASE ~ (i <= Len(args)) /\ i > p.posonly /\ x \in DOMAIN kw
  <2>1. given = {ArgNamed(x)} /\ value = <<kw[x]>>
    BY <1>1, <1>5, <1>9
  <2> QED
    BY <1>3, <1>4, <1>6, <1>9, <2>1, Counts DEF given, value
<1>10. CASE ~ (i <= Len(args)) /\ ~ (i > p.posonly /\ x \in DOMAIN kw)
  <2>1. given = {} /\ value = IF Defaulted(p, i) THEN <<DefaultOf(x)>> ELSE <<>>
    BY <1>1, <1>5, <1>10
  <2> QED
    BY <1>4, <1>6, <1>10, <2>1, Counts DEF given, value
<1> QED
  BY <1>7, <1>8, <1>9, <1>10

(* So does a keyword-only parameter. *)
LEMMA KeywordFits ==
    ASSUME NEW p, Signature(p), NEW args, Len(args) \in Nat, DOMAIN args = 1 .. Len(args), NEW kw,
           NEW x \in KwNames(p)
    PROVE  /\ Fits(p, args, kw, x) <=> KeywordOnly(p, x, kw) # <<>>
           /\ Fits(p, args, kw, x) =>
                /\ Given(p, args, kw, x) = {} => KeywordOnly(p, x, kw)[1] = DefaultOf(x)
                /\ \A a \in Given(p, args, kw, x) : KeywordOnly(p, x, kw)[1] = ValueOf(args, kw, a)
<1> DEFINE given == Given(p, args, kw, x)
           value == KeywordOnly(p, x, kw)
<1>1. given = {ArgNamed(y) : y \in {y \in {x} : y \in DOMAIN kw}}
  BY GivenKeyword
<1>2. HasDefault(p, x) <=> x \in p.kwdefaults
  <2>1. \A i \in DOMAIN p.args : p.args[i] # x
    BY DEF Signature, ArgNames, ToSet
  <2> QED
    BY <2>1 DEF HasDefault
<1>3. ValueOf(args, kw, ArgNamed(x)) = kw[x]
  BY ArgumentNames DEF ValueOf
<1>4. \A v : <<v>> # <<>> /\ <<v>>[1] = v
  OBVIOUS
<1>5. value = IF x \in DOMAIN kw THEN <<kw[x]>> ELSE IF x \in p.kwdefaults THEN <<DefaultOf(x)>> ELSE <<>>
  BY DEF KeywordOnly
<1>6. Fits(p, args, kw, x) <=> Cardinality(given) = 1 \/ (given = {} /\ x \in p.kwdefaults)
  BY <1>2 DEF Fits
<1> HIDE DEF given, value
<1>7. CASE x \in DOMAIN kw
  <2>1. given = {ArgNamed(x)} /\ value = <<kw[x]>>
    BY <1>1, <1>5, <1>7
  <2> QED
    BY <1>3, <1>4, <1>6, <1>7, <2>1, Counts DEF given, value
<1>8. CASE x \notin DOMAIN kw
  <2>1. given = {} /\ value = IF x \in p.kwdefaults THEN <<DefaultOf(x)>> ELSE <<>>
    BY <1>1, <1>5, <1>8
  <2> QED
    BY <1>4, <1>6, <1>8, <2>1, Counts DEF given, value
<1> QED
  BY <1>7, <1>8

(* The checks one after the other refuse the calls that have no meaning, and no others. *)
LEMMA FaultsAreIllegal ==
    ASSUME NEW p, Signature(p), NEW args, Len(args) \in Nat, DOMAIN args = 1 .. Len(args), NEW kw
    PROVE  BindFault(p, args, kw) <=> ~ Legal(p, args, kw)
<1>1. (\A x \in ArgNames(p) \cup KwNames(p) : Fits(p, args, kw, x)) <=>
        /\ \A i \in 1 .. Len(p.args) :
             ~ (i > p.posonly /\ i <= Len(args) /\ p.args[i] \in DOMAIN kw) /\ Positional(p, i, args, kw) # <<>>
        /\ \A x \in KwNames(p) : KeywordOnly(p, x, kw) # <<>>
  <2>1. (\A x \in ArgNames(p) : Fits(p, args, kw, x)) <=> \A i \in 1 .. Len(p.args) : Fits(p, args, kw, p.args[i])
    BY DEF ArgNames, ToSet, Signature
  <2>2. \A i \in 1 .. Len(p.args) : Fits(p, args, kw, p.args[i]) <=>
          ~ (i > p.posonly /\ i <= Len(args) /\ p.args[i] \in DOMAIN kw) /\ Positional(p, i, args, kw) # <<>>
    BY PositionalFits
  <2>3. \A x \in KwNames(p) : Fits(p, args, kw, x) <=> KeywordOnly(p, x, kw) # <<>>
    BY KeywordFits
  <2> QED
    BY <2>1, <2>2, <2>3
<1>2. DOMAIN kw \subseteq ClaimedByName(p) <=>
        PosOnly(p) \cap DOMAIN kw = {} /\ DOMAIN kw \subseteq ArgNames(p) \cup KwNames(p)
  <2>1. PosOnly(p) \subseteq ArgNames(p)
    BY DEF PosOnly, ArgNames, ToSet, Signature
  <2>2. ArgNames(p) \cap KwNames(p) = {}
    BY DEF Signature
  <2> QED
    BY <2>1, <2>2 DEF ClaimedByName
<1>3. Given(p, args, kw, "nowhere") = {} <=>
        /\ p.vararg \/ Len(args) <= Len(p.args)
        /\ p.kwarg \/ (PosOnly(p) \cap DOMAIN kw = {} /\ DOMAIN kw \subseteq ArgNames(p) \cup KwNames(p))
  BY <1>2, GivenRest
<1>4. (Len(args) > Len(p.args)) <=> ~ (Len(args) <= Len(p.args))
  BY DEF Signature
<1>5. (\E i \in p.posonly + 1 .. Len(p.args) : i <= Len(args) /\ p.args[i] \in DOMAIN kw) <=>
      ~ \A i \in 1 .. Len(p.args) : ~ (i > p.posonly /\ i <= Len(args) /\ p.args[i] \in DOMAIN kw)
  <2>1. Len(p.args) \in Nat /\ p.posonly \in 0 .. Len(p.args)
    BY DEF Signature
  <2>2. \A i : i \in p.posonly + 1 .. Len(p.args) <=> i \in 1 .. Len(p.args) /\ i > p.posonly
    BY <2>1
  <2> QED
    BY <2>2
<1>6. Legal(p, args, kw) <=> Given(p, args, kw, "nowhere") = {} /\ \A x \in ArgNames(p) \cup KwNames(p) : Fits(p, args, kw, x)
  BY DEF Legal, Fits
<1>7. DOMAIN p.args = 1 .. Len(p.args)
  BY DEF Signature
<1> QED
  BY <1>1, <1>3, <1>4, <1>5, <1>6, <1>7 DEF BindFault

(* A parameter's place is where its name is. *)
LEMMA PlaceOfName ==
    ASSUME NEW p, Signature(p), NEW i \in 1 .. Len(p.args), NEW x, x = p.args[i]
    PROVE  PositionOf(p, x) = i
<1> DEFINE I == {j \in 1 .. Len(p.args) : p.args[j] = x}
<1>1. I = {i} /\ i \in Int
  BY DEF Signature
<1>2. PositionOf(p, x) = IF I # {} THEN Min(I) ELSE 0
  BY DEF PositionOf, SelectInSeq
<1> HIDE DEF I
<1>3. Min({i}) = i
  BY <1>1 DEF Min
<1> QED
  BY <1>1, <1>2, <1>3

(* As many arguments are left over as there are positions beyond the parameters. *)
LEMMA LeftOver ==
    ASSUME NEW a \in Nat, NEW b \in Nat
    PROVE  1 .. Cardinality({ArgAt(j) : j \in (a + 1) .. b}) = 1 .. (b - a)
<1> DEFINE S == (a + 1) .. b
           T == {ArgAt(j) : j \in S}
           f == [j \in S |-> ArgAt(j)]
<1>1. IsFiniteSet(S) /\ Cardinality(S) = IF a + 1 > b THEN 0 ELSE b - (a + 1) + 1
  BY FS_Interval
<1>2. \A i, j : ArgAt(i) = ArgAt(j) => i = j
  BY ArgumentNames
<1>3. f \in [S -> T] /\ (\A i, j \in S : f[i] = f[j] => i = j) /\ \A t \in T : \E j \in S : f[j] = t
  BY <1>2
<1> HIDE DEF S, T, f
<1>4. f \in Bijection(S, T)
  BY <1>3 DEF Bijection, Injection, Surjection, IsInjective
<1>5. ExistsBijection(S, T)
  BY <1>4 DEF ExistsBijection
<1>6. Cardinality(T) = Cardinality(S)
  BY <1>1, <1>5, FS_Bijection
<1> QED
  BY <1>1, <1>6 DEF S, T

(* The variadic parameters hold what they are given. *)
RestTaken(p, args, kw) ==
    /\ p.vararg => SubSeq(args, Len(p.args) + 1, Len(args)) =
                     [j \in 1 .. Cardinality(Given(p, args, kw, Rest)) |-> args[Len(p.args) + j]]
    /\ p.kwarg => /\ DOMAIN Absorbed(p, kw) = {a[2] : a \in Given(p, args, kw, Extra)}
                  /\ \A y \in DOMAIN Absorbed(p, kw) : Absorbed(p, kw)[y] = kw[y]

(* What is left over goes to the variadic parameters. *)
LEMMA RestLands ==
    ASSUME NEW p, Signature(p), NEW V, NEW args \in Seq(V), NEW kw
    PROVE  RestTaken(p, args, kw)
<1> DEFINE n == Len(p.args)
           m == Len(args)
<1>1. n \in Nat /\ m \in Nat /\ DOMAIN args = 1 .. m
  BY DEF Signature
<1>2. ASSUME p.vararg
      PROVE  SubSeq(args, n + 1, m) = [j \in 1 .. Cardinality(Given(p, args, kw, Rest)) |-> args[n + j]]
  <2>1. Given(p, args, kw, Rest) = {ArgAt(j) : j \in (n + 1) .. m}
    BY <1>1, <1>2, GivenRest
  <2>2. 1 .. Cardinality(Given(p, args, kw, Rest)) = 1 .. (m - n)
    BY <1>1, <2>1, LeftOver
  <2> DEFINE r == SubSeq(args, n + 1, m)
  <2>3. /\ r \in Seq(V) /\ Len(r) = IF n + 1 <= m THEN (m - (n + 1)) + 1 ELSE 0
        /\ \A i \in 1 .. ((m - (n + 1)) + 1) : r[i] = args[((n + 1) + i) - 1]
    <3> DEFINE b == n + 1
    <3>1. b \in Int /\ m \in Int /\ \A i \in b .. m : args[i] \in V
      BY <1>1
    <3> HIDE DEF b
    <3>2. /\ SubSeq(args, b, m) \in Seq(V) /\ Len(SubSeq(args, b, m)) = IF b <= m THEN (m - b) + 1 ELSE 0
          /\ \A i \in 1 .. ((m - b) + 1) : SubSeq(args, b, m)[i] = args[(b + i) - 1]
      BY <3>1, SubSeqProperties
    <3> QED
      BY <3>2 DEF b
  <2>4. (m - (n + 1)) + 1 = m - n /\ \A i \in 1 .. (m - n) : ((n + 1) + i) - 1 = n + i
    <3> HIDE DEF n, m
    <3> QED
      BY <1>1
  <2> HIDE DEF n, m, r
  <2>5. 1 .. Len(r) = 1 .. (m - n)
    BY <1>1, <2>3
  <2>6. r = [i \in 1 .. Len(r) |-> r[i]]
    BY <2>3
  <2>7. \A i \in 1 .. (m - n) : r[i] = args[n + i]
    BY <2>3, <2>4
  <2>8. r = [i \in 1 .. (m - n) |-> args[n + i]]
    BY <2>5, <2>6, <2>7
  <2> QED
    BY <2>2, <2>8 DEF r
<1>3. ASSUME p.kwarg
      PROVE  /\ DOMAIN Absorbed(p, kw) = {a[2] : a \in Given(p, args, kw, Extra)}
             /\ \A y \in DOMAIN Absorbed(p, kw) : Absorbed(p, kw)[y] = kw[y]
  <2>1. Given(p, args, kw, Extra) = {ArgNamed(y) : y \in DOMAIN kw \ ClaimedByName(p)}
    BY <1>1, <1>3, GivenRest
  <2>2. {a[2] : a \in Given(p, args, kw, Extra)} = DOMAIN kw \ ClaimedByName(p)
    BY <2>1, ArgumentNames
  <2> QED
    BY <2>2 DEF Absorbed
<1> QED
  BY <1>2, <1>3 DEF RestTaken

(* A call is refused exactly when an argument has no place, a parameter has two, *)
(* or one without a default has none; otherwise every argument lands in its      *)
(* parameter, and the rest in *args and **kwargs (params.rs).                     *)
THEOREM ArgumentsLandInTheirParameters ==
    ASSUME NEW p, Signature(p), NEW V, NEW args \in Seq(V), NEW kw, NEW out,
           out = bind_params_named(p, args, kw)
    PROVE  /\ out.ok <=> Legal(p, args, kw)
           /\ out.ok => Lands(p, args, kw, out.v)
<1>1. Len(args) \in Nat /\ DOMAIN args = 1 .. Len(args)
  OBVIOUS
<1>2. BindFault(p, args, kw) <=> ~ Legal(p, args, kw)
  BY <1>1, FaultsAreIllegal
<1>3. out.ok <=> Legal(p, args, kw)
  BY <1>2 DEF bind_params_named, Bad, Ok
<1>4. RestTaken(p, args, kw)
  BY RestLands
<1>5. ASSUME Legal(p, args, kw)
      PROVE  Lands(p, args, kw, out.v)
  <2> DEFINE scope == out.v
             names == ArgNames(p) \cup KwNames(p)
             D == names \cup (IF p.vararg THEN {Rest} ELSE {}) \cup (IF p.kwarg THEN {Extra} ELSE {})
  <2>1. scope = [x \in D |->
             IF x \in ArgNames(p) THEN Positional(p, PositionOf(p, x), args, kw)[1]
             ELSE IF x \in KwNames(p) THEN KeywordOnly(p, x, kw)[1]
             ELSE IF x = Rest THEN SubSeq(args, Len(p.args) + 1, Len(args)) ELSE Absorbed(p, kw)]
    BY <1>2, <1>5 DEF bind_params_named, Ok
  <2>2. /\ DOMAIN scope = D
        /\ \A x \in ArgNames(p) : scope[x] = Positional(p, PositionOf(p, x), args, kw)[1]
        /\ \A x \in KwNames(p) : x \notin ArgNames(p) => scope[x] = KeywordOnly(p, x, kw)[1]
        /\ Rest \in D /\ Rest \notin names => scope[Rest] = SubSeq(args, Len(p.args) + 1, Len(args))
        /\ Extra \in D /\ Extra \notin names /\ Extra # Rest => scope[Extra] = Absorbed(p, kw)
    <3> HIDE DEF scope
    <3> QED
      BY <2>1
  <2>3. Rest \notin names /\ Extra \notin names /\ Extra # Rest /\ ArgNames(p) \cap KwNames(p) = {}
    BY DEF Signature, Rest, Extra
  <2>4. \A x \in names : Fits(p, args, kw, x)
    BY <1>5 DEF Legal, Fits
  <2>5. ASSUME NEW x \in names
        PROVE  /\ Given(p, args, kw, x) = {} => scope[x] = DefaultOf(x)
               /\ \A a \in Given(p, args, kw, x) : scope[x] = ValueOf(args, kw, a)
    <3> HIDE DEF scope
    <3>1. ASSUME x \in ArgNames(p)
          PROVE  /\ Given(p, args, kw, x) = {} => scope[x] = DefaultOf(x)
                 /\ \A a \in Given(p, args, kw, x) : scope[x] = ValueOf(args, kw, a)
      <4>1. PICK i \in 1 .. Len(p.args) : x = p.args[i]
        BY <3>1 DEF ArgNames, ToSet, Signature
      <4>2. PositionOf(p, x) = i
        BY <4>1, PlaceOfName
      <4>3. scope[x] = Positional(p, i, args, kw)[1]
        BY <2>2, <3>1, <4>2
      <4> QED
        BY <1>1, <2>4, <4>1, <4>3, PositionalFits
    <3>2. ASSUME x \in KwNames(p)
          PROVE  /\ Given(p, args, kw, x) = {} => scope[x] = DefaultOf(x)
                 /\ \A a \in Given(p, args, kw, x) : scope[x] = ValueOf(args, kw, a)
      <4>1. scope[x] = KeywordOnly(p, x, kw)[1]
        BY <2>2, <2>3, <3>2
      <4> QED
        BY <1>1, <2>4, <3>2, <4>1, KeywordFits
    <3> QED
      BY <3>1, <3>2
  <2>6. ASSUME Rest \in D
        PROVE  scope[Rest] = [j \in 1 .. Cardinality(Given(p, args, kw, Rest)) |-> args[Len(p.args) + j]]
    <3>1. p.vararg
      BY <2>3, <2>6
    <3>2. SubSeq(args, Len(p.args) + 1, Len(args)) =
            [j \in 1 .. Cardinality(Given(p, args, kw, Rest)) |-> args[Len(p.args) + j]]
      BY <1>4, <3>1 DEF RestTaken
    <3> HIDE DEF scope, D, names
    <3> QED
      BY <2>2, <2>3, <2>6, <3>2
  <2>7. ASSUME Extra \in D
        PROVE  /\ DOMAIN scope[Extra] = {a[2] : a \in Given(p, args, kw, Extra)}
               /\ \A y \in DOMAIN scope[Extra] : scope[Extra][y] = kw[y]
    <3>1. p.kwarg
      BY <2>3, <2>7
    <3>2. scope[Extra] = Absorbed(p, kw)
      BY <2>2, <2>3, <2>7
    <3>3. /\ DOMAIN Absorbed(p, kw) = {a[2] : a \in Given(p, args, kw, Extra)}
          /\ \A y \in DOMAIN Absorbed(p, kw) : Absorbed(p, kw)[y] = kw[y]
      BY <1>4, <3>1 DEF RestTaken
    <3> HIDE DEF scope, D, names
    <3> QED
      BY <3>2, <3>3
  <2>8. \A x \in D : x \in names \/ x = Rest \/ x = Extra
    OBVIOUS
  <2> HIDE DEF scope, D, names
  <2> SUFFICES Lands(p, args, kw, scope)
    BY DEF scope
  <2> SUFFICES ASSUME NEW x \in DOMAIN scope
               PROVE  LET given == Given(p, args, kw, x)
                      IN  /\ x = Rest => scope[x] = [j \in 1 .. Cardinality(given) |-> args[Len(p.args) + j]]
                          /\ x = Extra => DOMAIN scope[x] = {a[2] : a \in given} /\ \A y \in DOMAIN scope[x] : scope[x][y] = kw[y]
                          /\ x \notin {Rest, Extra} /\ given = {} => scope[x] = DefaultOf(x)
                          /\ x \notin {Rest, Extra} => \A a \in given : scope[x] = ValueOf(args, kw, a)
    BY DEF Lands
  <2>9. x \in D
    BY <2>2
  <2> QED
    BY <2>5, <2>6, <2>7, <2>8, <2>9
<1> QED
  BY <1>3, <1>5

=============================================================================
