---------------------------- MODULE LimitsProofs -----------------------------
(***************************************************************************)
(* Limits for every program, every limit and any number of variables: the   *)
(* types, that the counters kept by hand mirror the evaluator's stack, and  *)
(* that memory_used_bytes is the size of the variables.                     *)
(***************************************************************************)
EXTENDS Limits, FiniteSetTheorems, SequenceTheorems, TLAPS

(* The same views of a stack as in Limits, of any stack r. *)
At(r, kinds) == {i \in DOMAIN r : r[i].kind \in kinds}
OpenIn(r) == {i \in At(r, Nesting) : \A c \in At(r, Calls) : c < i}
Below(r, c) == SubSeq(r, 1, c - 1)

-----------------------------------------------------------------------------
(* Stacks *)

(* Positions of a stack, their number, and what is at them. *)
LEMMA StackFacts ==
    ASSUME NEW r \in Seq(Frames), NEW kinds
    PROVE  /\ DOMAIN r = 1..Len(r) /\ Len(r) \in Nat
           /\ \A i \in 1..Len(r) : r[i] \in Frames
           /\ At(r, kinds) \subseteq 1..Len(r)
           /\ IsFiniteSet(At(r, kinds)) /\ Cardinality(At(r, kinds)) \in Nat
<1>1. DOMAIN r = 1..Len(r) /\ Len(r) \in Nat /\ \A i \in 1..Len(r) : r[i] \in Frames
  OBVIOUS
<1>2. At(r, kinds) \subseteq 1..Len(r)
  BY <1>1 DEF At
<1>3. IsFiniteSet(1..Len(r))
  BY <1>1, FS_Interval
<1>4. IsFiniteSet(At(r, kinds))
  BY <1>2, <1>3, FS_Subset
<1> QED
  BY <1>1, <1>2, <1>4, FS_CardinalityType

(* Entering a frame counts it where its kind is counted. *)
LEMMA PushCounts ==
    ASSUME NEW r \in Seq(Frames), NEW f \in Frames, NEW kinds
    PROVE  Cardinality(At(Append(r, f), kinds))
             = Cardinality(At(r, kinds)) + Bit(f.kind \in kinds)
<1> DEFINE q == Append(r, f)
<1>1. q \in Seq(Frames) /\ Len(q) = Len(r) + 1 /\ q[Len(r) + 1] = f
      /\ \A i \in 1..Len(r) : q[i] = r[i]
  OBVIOUS
<1>2. At(r, kinds) \subseteq 1..Len(r) /\ Len(r) \in Nat
  BY StackFacts
<1>3. CASE f.kind \in kinds
  <2>1. At(q, kinds) = At(r, kinds) \cup {Len(r) + 1}
    BY <1>1, <1>3 DEF At
  <2>2. Len(r) + 1 \notin At(r, kinds)
    BY <1>2
  <2> QED
    BY <2>1, <2>2, <1>3, StackFacts, FS_AddElement DEF Bit
<1>4. CASE f.kind \notin kinds
  <2>1. At(q, kinds) = At(r, kinds)
    BY <1>1, <1>4 DEF At
  <2> QED
    BY <2>1, <1>4, StackFacts DEF Bit
<1> QED
  BY <1>3, <1>4

(* Leaving one takes it out again. *)
LEMMA PopIsStack ==
    ASSUME NEW r \in Seq(Frames), r # << >>
    PROVE  /\ Butlast(r) \in Seq(Frames) /\ r[Len(r)] \in Frames
           /\ Len(r) \in Nat \ {0} /\ Len(Butlast(r)) = Len(r) - 1
           /\ \A i \in 1..Len(r) - 1 : Butlast(r)[i] = r[i]
           /\ r = Append(Butlast(r), r[Len(r)])
<1>1. Len(r) \in Nat \ {0}
  BY EmptySeq
<1>2. \A i \in 1..Len(r) - 1 : r[i] \in Frames
  BY <1>1
<1>3. /\ Butlast(r) \in Seq(Frames) /\ Len(Butlast(r)) = Len(r) - 1
      /\ \A i \in 1..Len(r) - 1 : Butlast(r)[i] = r[i]
  <2> DEFINE n == Len(r) - 1
  <2>1. n \in Nat /\ 1 \in Int /\ n \in Int
    BY <1>1
  <2> HIDE DEF n
  <2>2. /\ SubSeq(r, 1, n) \in Seq(Frames) /\ Len(SubSeq(r, 1, n)) = IF 1 <= n THEN n - 1 + 1 ELSE 0
        /\ \A i \in 1..n - 1 + 1 : SubSeq(r, 1, n)[i] = r[1 + i - 1]
    BY <1>2, <2>1, SubSeqProperties DEF n
  <2>3. Butlast(r) = SubSeq(r, 1, n)
    BY DEF Butlast, n
  <2>4. ASSUME NEW i \in 1..n PROVE Butlast(r)[i] = r[i]
    <3>1. i \in 1..n - 1 + 1 /\ 1 + i - 1 = i
      BY <2>1
    <3> QED BY <2>2, <2>3, <3>1
  <2>5. Len(Butlast(r)) = n
    <3>1. (IF 1 <= n THEN n - 1 + 1 ELSE 0) = n
      BY <2>1
    <3> QED BY <2>2, <2>3, <3>1
  <2> QED
    BY <2>2, <2>3, <2>4, <2>5 DEF n
<1>4. r[Len(r)] \in Frames
  BY <1>1
<1>5. Append(Butlast(r), r[Len(r)]) \in Seq(Frames)
      /\ Len(Append(Butlast(r), r[Len(r)])) = Len(r)
      /\ \A i \in 1..Len(r) : Append(Butlast(r), r[Len(r)])[i] = r[i]
  BY <1>1, <1>3, <1>4
<1>6. r = Append(Butlast(r), r[Len(r)])
  BY <1>5, SeqEqual
<1> QED
  BY <1>1, <1>3, <1>4, <1>6

(* The same of a sequence of numbers. *)
LEMMA LastPut ==
    ASSUME NEW s \in Seq(Nat), s # << >>
    PROVE  s = Append(Butlast(s), s[Len(s)])
<1> DEFINE n == Len(s) - 1
<1>1. Len(s) \in Nat \ {0} /\ n \in Nat /\ n \in Int /\ 1 \in Int
  BY EmptySeq
<1>2. \A i \in 1..n : s[i] \in Nat
  BY <1>1
<1>3. s[Len(s)] \in Nat /\ Len(s) = n + 1
  BY <1>1
<1> HIDE DEF n
<1>4. /\ SubSeq(s, 1, n) \in Seq(Nat) /\ Len(SubSeq(s, 1, n)) = (IF 1 <= n THEN n - 1 + 1 ELSE 0)
      /\ \A i \in 1..n - 1 + 1 : SubSeq(s, 1, n)[i] = s[1 + i - 1]
  BY <1>1, <1>2, SubSeqProperties
<1>5. Len(SubSeq(s, 1, n)) = n
  BY <1>1, <1>4
<1>6. ASSUME NEW i \in 1..n PROVE SubSeq(s, 1, n)[i] = s[i]
  <2>1. i \in 1..n - 1 + 1 /\ 1 + i - 1 = i
    BY <1>1
  <2> QED
    BY <1>4, <2>1
<1>7. Butlast(s) = SubSeq(s, 1, n)
  BY DEF Butlast, n
<1>8. /\ Append(Butlast(s), s[Len(s)]) \in Seq(Nat)
      /\ Len(Append(Butlast(s), s[Len(s)])) = Len(s)
      /\ \A i \in 1..Len(s) : Append(Butlast(s), s[Len(s)])[i] = s[i]
  BY <1>1, <1>3, <1>4, <1>5, <1>6, <1>7
<1> QED
  BY <1>8, SeqEqual

(* Leaving the innermost frame takes one off the count of its kind. *)
LEMMA PopCounts ==
    ASSUME NEW r \in Seq(Frames), r # << >>, NEW kinds
    PROVE  /\ Cardinality(At(r, kinds))
                = Cardinality(At(Butlast(r), kinds)) + Bit(r[Len(r)].kind \in kinds)
           /\ Cardinality(At(Butlast(r), kinds)) \in Nat
<1>1. Butlast(r) \in Seq(Frames) /\ r[Len(r)] \in Frames /\ r = Append(Butlast(r), r[Len(r)])
  BY PopIsStack
<1>2. Cardinality(At(Append(Butlast(r), r[Len(r)]), kinds))
        = Cardinality(At(Butlast(r), kinds)) + Bit(r[Len(r)].kind \in kinds)
  BY <1>1, PushCounts
<1> QED
  BY <1>1, <1>2, StackFacts

(* What the innermost call has open, after entering an expression, entering *)
(* a call and anything else.                                                *)
LEMMA PushOpens ==
    ASSUME NEW r \in Seq(Frames), NEW f \in Frames
    PROVE  /\ IsFiniteSet(OpenIn(r)) /\ Cardinality(OpenIn(r)) \in Nat
           /\ Cardinality(OpenIn(Append(r, f)))
                = IF f.kind \in Calls THEN 0
                  ELSE Cardinality(OpenIn(r)) + Bit(f.kind \in Nesting)
<1> DEFINE q == Append(r, f)
<1>1. q \in Seq(Frames) /\ Len(q) = Len(r) + 1 /\ q[Len(r) + 1] = f
      /\ \A i \in 1..Len(r) : q[i] = r[i]
  OBVIOUS
<1>2. Len(r) \in Nat /\ DOMAIN r = 1..Len(r) /\ DOMAIN q = 1..Len(r) + 1
  BY <1>1
<1>3. OpenIn(r) \subseteq At(r, Nesting)
  BY DEF OpenIn
<1>4. IsFiniteSet(OpenIn(r)) /\ Cardinality(OpenIn(r)) \in Nat
  BY <1>3, StackFacts, FS_Subset, FS_CardinalityType
<1>5. CASE f.kind \in Calls
  <2>1. Len(r) + 1 \in At(q, Calls)
    BY <1>1, <1>2, <1>5 DEF At
  <2>2. \A i \in At(q, Nesting) : ~(Len(r) + 1 < i)
    BY <1>1, <1>2 DEF At
  <2>3. OpenIn(q) = {}
    BY <2>1, <2>2 DEF OpenIn
  <2> QED
    BY <1>4, <1>5, <2>3, FS_EmptySet
<1>6. CASE f.kind \notin Calls
  <2>1. At(q, Calls) = At(r, Calls)
    BY <1>1, <1>2, <1>6 DEF At
  <2>2. At(r, Calls) \subseteq 1..Len(r)
    BY StackFacts
  <2>3. CASE f.kind \in Nesting
    <3>1. At(q, Nesting) = At(r, Nesting) \cup {Len(r) + 1}
      BY <1>1, <1>2, <2>3 DEF At
    <3>2. OpenIn(q) = OpenIn(r) \cup {Len(r) + 1}
      BY <2>1, <2>2, <3>1, <1>2 DEF OpenIn
    <3>3. Len(r) + 1 \notin OpenIn(r)
      BY <1>2, <1>3 DEF At
    <3> QED
      BY <1>4, <1>6, <2>3, <3>2, <3>3, FS_AddElement DEF Bit
  <2>4. CASE f.kind \notin Nesting
    <3>1. At(q, Nesting) = At(r, Nesting)
      BY <1>1, <1>2, <2>4 DEF At
    <3>2. OpenIn(q) = OpenIn(r)
      BY <2>1, <3>1 DEF OpenIn
    <3> QED
      BY <1>4, <1>6, <2>4, <3>2 DEF Bit
  <2> QED
    BY <2>3, <2>4
<1> QED
  BY <1>5, <1>6

(* What is below a frame stays when frames above it come and go. *)
LEMMA BelowStays ==
    ASSUME NEW r \in Seq(Frames), NEW q \in Seq(Frames), NEW c \in Nat \ {0},
           c <= Len(r) + 1, c <= Len(q) + 1,
           \A i \in 1..c - 1 : q[i] = r[i]
    PROVE  /\ Below(r, c) = Below(q, c) /\ Below(r, c) \in Seq(Frames)
           /\ Len(Below(r, c)) = c - 1
           /\ \A i \in 1..c - 1 : Below(r, c)[i] = r[i]
<1> DEFINE n == c - 1
<1>1. n \in Nat /\ 1 \in Int /\ n \in Int /\ n <= Len(r) /\ n <= Len(q)
  OBVIOUS
<1>2. Below(r, c) = SubSeq(r, 1, n) /\ Below(q, c) = SubSeq(q, 1, n)
  BY DEF Below
<1>3. \A i \in 1..n : r[i] \in Frames /\ q[i] = r[i]
  BY <1>1
<1> HIDE DEF n
<1>4. /\ SubSeq(r, 1, n) \in Seq(Frames) /\ Len(SubSeq(r, 1, n)) = (IF 1 <= n THEN n - 1 + 1 ELSE 0)
      /\ \A i \in 1..n - 1 + 1 : SubSeq(r, 1, n)[i] = r[1 + i - 1]
  BY <1>1, <1>3, SubSeqProperties
<1>5. /\ SubSeq(q, 1, n) \in Seq(Frames) /\ Len(SubSeq(q, 1, n)) = (IF 1 <= n THEN n - 1 + 1 ELSE 0)
      /\ \A i \in 1..n - 1 + 1 : SubSeq(q, 1, n)[i] = q[1 + i - 1]
  BY <1>1, <1>3, SubSeqProperties
<1>6. (IF 1 <= n THEN n - 1 + 1 ELSE 0) = n
  BY <1>1
<1>7. ASSUME NEW i \in 1..n
      PROVE  SubSeq(r, 1, n)[i] = r[i] /\ SubSeq(q, 1, n)[i] = r[i]
  <2>1. i \in 1..n - 1 + 1 /\ 1 + i - 1 = i
    BY <1>1
  <2> QED
    BY <1>3, <1>4, <1>5, <2>1
<1>8. SubSeq(r, 1, n) = SubSeq(q, 1, n)
  BY <1>4, <1>5, <1>6, <1>7, SeqEqual
<1> QED
  BY <1>2, <1>4, <1>6, <1>7, <1>8 DEF n

(* Calls below a call are numbered before it. *)
LEMMA CallNumber ==
    ASSUME NEW r \in Seq(Frames), NEW c \in At(r, Calls)
    PROVE  /\ c \in 1..Len(r) /\ Len(r) \in Nat
           /\ Cardinality(At(Below(r, c), Calls)) + 1 \in 1..Cardinality(At(r, Calls))
<1>1. c \in 1..Len(r) /\ Len(r) \in Nat
  BY StackFacts
<1>2. /\ Below(r, c) \in Seq(Frames) /\ Len(Below(r, c)) = c - 1
      /\ \A i \in 1..c - 1 : Below(r, c)[i] = r[i]
  <2>1. c \in Nat \ {0} /\ c <= Len(r) + 1 /\ \A i \in 1..c - 1 : r[i] = r[i]
    BY <1>1
  <2> QED
    BY <2>1, BelowStays
<1>3. At(Below(r, c), Calls) \cup {c} \subseteq At(r, Calls) /\ c \notin At(Below(r, c), Calls)
  BY <1>1, <1>2 DEF At
<1>4. IsFiniteSet(At(r, Calls)) /\ IsFiniteSet(At(Below(r, c), Calls))
      /\ Cardinality(At(r, Calls)) \in Nat /\ Cardinality(At(Below(r, c), Calls)) \in Nat
  BY <1>2, StackFacts
<1>5. Cardinality(At(Below(r, c), Calls) \cup {c}) = Cardinality(At(Below(r, c), Calls)) + 1
  BY <1>3, <1>4, FS_AddElement
<1>6. Cardinality(At(Below(r, c), Calls) \cup {c}) <= Cardinality(At(r, Calls))
  BY <1>3, <1>4, FS_Subset
<1> QED
  BY <1>1, <1>4, <1>5, <1>6

-----------------------------------------------------------------------------
(* Bytes *)

(* Giving a variable another size changes the bytes of the state by the     *)
(* difference, and it had no more than the state has.                       *)
LEMMA ResizeCounts ==
    ASSUME NEW v \in [Names -> Nat], NEW n \in Names, NEW s \in Nat
    PROVE  /\ Cardinality(Bytes(v)) \in Nat
           /\ v[n] <= Cardinality(Bytes(v))
           /\ Cardinality(Bytes([v EXCEPT ![n] = s])) = Cardinality(Bytes(v)) - v[n] + s
<1> DEFINE w == [v EXCEPT ![n] = s]
           Own(k) == {n} \X (1..k)
           Others == {p \in Bytes(v) : p[1] # n}
<1>1. IsFiniteSet(Bytes(v))
  <2> DEFINE of == [m \in Names |-> {m} \X (1..v[m])]
             all == {{m} \X (1..v[m]) : m \in Names}
  <2>1. of \in Surjection(Names, all)
    BY DEF Surjection
  <2>2. IsFiniteSet(all)
    BY <2>1, LimitsAssumption, FS_Surjection
  <2>3. ASSUME NEW m \in Names PROVE IsFiniteSet({m} \X (1..v[m]))
    <3>1. IsFiniteSet({m})
      BY FS_Singleton
    <3>2. v[m] \in Int /\ 1 \in Int
      OBVIOUS
    <3>3. IsFiniteSet(1..v[m])
      BY <3>2, FS_Interval
    <3> QED
      BY <3>1, <3>3, FS_Product
  <2>4. \A b \in all : IsFiniteSet(b)
    BY <2>3
  <2> QED
    BY <2>2, <2>4, FS_UNION DEF Bytes
<1>2. ASSUME NEW k \in Nat
      PROVE  IsFiniteSet(Own(k)) /\ Cardinality(Own(k)) = k
  <2>1. IsFiniteSet({n}) /\ Cardinality({n}) = 1
    BY FS_Singleton
  <2>2. IsFiniteSet(1..k) /\ Cardinality(1..k) = k
    <3>1. 1 \in Int /\ k \in Int
      OBVIOUS
    <3>2. IsFiniteSet(1..k) /\ Cardinality(1..k) = IF 1 > k THEN 0 ELSE k - 1 + 1
      BY <3>1, FS_Interval
    <3>3. (IF 1 > k THEN 0 ELSE k - 1 + 1) = k
      OBVIOUS
    <3> QED
      BY <3>2, <3>3
  <2>3. IsFiniteSet({n} \X (1..k))
        /\ Cardinality({n} \X (1..k)) = Cardinality({n}) * Cardinality(1..k)
    BY <2>1, <2>2, FS_Product, Zenon
  <2>4. Cardinality({n} \X (1..k)) = 1 * k
    BY <2>1, <2>2, <2>3
  <2> QED
    BY <2>3, <2>4
<1>3. Bytes(v) = Others \cup Own(v[n]) /\ Others \cap Own(v[n]) = {}
  BY DEF Bytes
<1>4. Bytes(w) = Others \cup Own(s) /\ Others \cap Own(s) = {}
  BY DEF Bytes
<1>5. IsFiniteSet(Others) /\ Cardinality(Others) \in Nat
  BY <1>1, FS_Subset, FS_CardinalityType
<1> HIDE DEF Others, Own, w
<1>6. ASSUME NEW k \in Nat, Others \cap Own(k) = {}
      PROVE  Cardinality(Others \cup Own(k)) = Cardinality(Others) + k
  <2>1. IsFiniteSet(Own(k)) /\ Cardinality(Own(k)) = k
    BY <1>2
  <2>2. Cardinality(Others \cup Own(k))
          = Cardinality(Others) + Cardinality(Own(k)) - Cardinality(Others \cap Own(k))
    BY <1>5, <2>1, FS_Union
  <2>3. Cardinality(Others \cap Own(k)) = 0
    BY <1>6, FS_EmptySet
  <2> QED
    BY <1>5, <2>1, <2>2, <2>3
<1>7. Cardinality(Bytes(v)) = Cardinality(Others) + v[n]
  BY <1>3, <1>6
<1>8. Cardinality(Bytes(w)) = Cardinality(Others) + s
  BY <1>4, <1>6
<1> QED
  BY <1>5, <1>7, <1>8 DEF w

-----------------------------------------------------------------------------
(* Types *)

(* What the kind of a frame says of it. *)
LEMMA FrameFacts ==
    ASSUME NEW f \in Frames
    PROVE  /\ f.kind \in Nesting \cup {"aug"} \cup Calls
           /\ f.kind \in Calls => f.name \in Names /\ f.prev \in Sizes \cup {0}
           /\ f.kind = "aug" => f.name \in Names /\ f.old \in Sizes
BY DEF Frames, Nesting, Calls, Bodies, Binding

(* Frames the actions push. *)
LEMMA NewFrames ==
    /\ \A k \in Nesting : [kind |-> k] \in Frames
    /\ \A n \in Names, s \in Sizes : [kind |-> "aug", name |-> n, old |-> s] \in Frames
    /\ \A k \in Calls, n \in Names, s \in Sizes \cup {0} :
          [kind |-> k, name |-> n, prev |-> s] \in Frames
BY DEF Frames

(* Subtraction that stops at 0 stays in the naturals. *)
LEMMA LessType ==
    ASSUME NEW a \in Nat, NEW b \in Nat
    PROVE  Less(a, b) \in Nat /\ Less(a, b) <= a
BY DEF Less

(* What the assumption says of the limits, and of a program. *)
LEMMA LimitFacts ==
    /\ Sizes \subseteq Nat \ {0}
    /\ MaxDepth \in Nat /\ MaxOps \in Nat /\ MaxMemory \in Nat /\ MaxStdout \in Nat
BY LimitsAssumption

(* What a program says is of its types. *)
LEMMA ProgramFacts ==
    ASSUME NEW p \in Programs
    PROVE  p.runs \in Nat /\ p.prints \subseteq Nat
BY LimitsAssumption

(* Sizes are numbers. *)
LEMMA SizeFacts ==
    /\ \A s \in Sizes : s \in Nat /\ s # 0
    /\ TypeOK => /\ used \in Nat /\ vsize \in [Names -> Nat]
                 /\ \A n \in Names : vsize[n] \in Nat /\ vsize[n] \in Sizes \cup {0}
<1>1. \A s \in Sizes : s \in Nat /\ s # 0
  BY LimitFacts
<1>2. TypeOK => used \in Nat /\ \A n \in Names : vsize[n] \in Sizes \cup {0}
  BY DEF TypeOK
<1>3. TypeOK => vsize \in [Names -> Nat]
  BY <1>1 DEF TypeOK
<1> QED
  BY <1>1, <1>2, <1>3

(* A new interpreter has its types. *)
LEMMA TypeInit == Init => TypeOK
<1> SUFFICES ASSUME Init PROVE TypeOK
  OBVIOUS
<1>1. rust \in Seq(Frames) /\ saved \in Seq(0..MaxDepth)
  BY DEF Init
<1>2. program \in Programs /\ runs \in 0..program.runs
  BY ProgramFacts DEF Init
<1>3. vsize \in [Names -> Sizes \cup {0}]
  BY DEF Init
<1>4. printed \in 0..MaxStdout /\ calls \in 0..MaxDepth /\ exprs \in 0..MaxDepth
  BY LimitFacts DEF Init
<1> QED
  BY <1>1, <1>2, <1>3, <1>4 DEF Init, TypeOK

(* Types through the steps that begin, end and drop runs. *)
LEMMA TypeRuns ==
    ASSUME TypeOK, UNCHANGED program,
           \/ \E n \in Names : \E s \in Sizes \cup {0} : BeginRun(n, s) \/ RejectRun(n, s)
           \/ EndRun \/ Cancel \/ Tick
    PROVE  TypeOK'
<1> USE LimitFacts
<1>1. program.runs \in Nat
  BY ProgramFacts DEF TypeOK
<1>2. ASSUME NEW n \in Names, NEW s \in Sizes \cup {0}, BeginRun(n, s) \/ RejectRun(n, s)
      PROVE  TypeOK'
  <2>1. Start(n, s)
    BY <1>2 DEF BeginRun, RejectRun
  <2>2. vsize[n] \in Nat /\ used \in Nat /\ s \in Nat
    BY SizeFacts
  <2>3. used' \in Nat
    <3>1. Less(used, vsize[n]) \in Nat
      BY <2>2, LessType
    <3> QED
      BY <2>1, <2>2, <3>1 DEF Start
  <2>4. vsize' \in [Names -> Sizes \cup {0}]
    BY <2>1 DEF Start, TypeOK
  <2>5. rust' \in Seq(Frames)
    BY <2>1 DEF Start
  <2>6. owners' \in Nat /\ phase' \in {"idle", "running"}
    BY <1>2 DEF BeginRun, RejectRun, TypeOK
  <2>7. runs' \in 0..program'.runs
    BY <1>1, <2>1 DEF Start, TypeOK
  <2>8. failing' \in BOOLEAN /\ late' \in BOOLEAN
    BY <2>1 DEF Start
  <2>9. printed' \in 0..MaxStdout /\ ops' \in Nat /\ program' \in Programs
    BY <2>1 DEF Start, TypeOK
  <2>10. saved' \in Seq(0..MaxDepth) /\ calls' \in 0..MaxDepth /\ exprs' \in 0..MaxDepth
         /\ bodies' \in Nat /\ methods' \in Nat
    BY <2>1 DEF Start, TypeOK
  <2> QED
    BY <2>3, <2>4, <2>5, <2>6, <2>7, <2>8, <2>9, <2>10 DEF TypeOK
<1>3. CASE EndRun
  <2>1. owners' \in Nat
    BY <1>3 DEF EndRun, TypeOK, Less
  <2> QED
    BY <1>3, <2>1 DEF EndRun, TypeOK, memory
<1>4. CASE Cancel
  <2>1. rust' = << >> /\ failing' = FALSE
    BY <1>4 DEF Cancel
  <2>2. rust' \in Seq(Frames)
    BY <2>1
  <2> QED
    BY <1>4, <2>1, <2>2 DEF Cancel, TypeOK, memory, stacks
<1>5. CASE Tick
  BY <1>5 DEF Tick, TypeOK, memory, stacks
<1> QED
  BY <1>2, <1>3, <1>4, <1>5

(* Types through statements: an error, an assignment, a mutation, a deletion, a print. *)
LEMMA TypeStatements ==
    ASSUME TypeOK, UNCHANGED program,
           \/ Fail
           \/ \E n \in Names : \E s \in Sizes : set_variable(n, s) \/ Mutate(n, s)
           \/ \E n \in Names : delete_variable(n)
           \/ \E k \in program.prints : append_print(k)
    PROVE  TypeOK'
<1> USE LimitFacts
<1>1. CASE Fail
  BY <1>1 DEF Fail, TypeOK, memory, stacks
<1>2. ASSUME NEW n \in Names, NEW s \in Sizes, set_variable(n, s) \/ Mutate(n, s)
      PROVE  TypeOK'
  <2>1. vsize[n] \in Nat /\ used \in Nat /\ s \in Nat
    BY SizeFacts
  <2>2. failing' \in BOOLEAN
    <3>1. (used' > MaxMemory) \in BOOLEAN
      OBVIOUS
    <3> QED
      BY <1>2, <3>1, Zenon DEF set_variable, Mutate
  <2>4. ops' = ops + 1
    BY <1>2 DEF set_variable, Mutate, Charged
  <2>5. used' \in Nat
    BY <1>2, <2>1 DEF set_variable, Mutate, Less
  <2>3. vsize' \in [Names -> Sizes \cup {0}]
    BY <1>2 DEF set_variable, Mutate, TypeOK
  <2> QED
    <3>1. CASE set_variable(n, s)
      BY <2>2, <2>3, <2>4, <2>5, <3>1 DEF set_variable, TypeOK, stacks
    <3>2. CASE Mutate(n, s)
      BY <2>2, <2>3, <2>4, <2>5, <3>2 DEF Mutate, TypeOK, stacks
    <3> QED
      BY <1>2, <3>1, <3>2
<1>3. ASSUME NEW n \in Names, delete_variable(n) PROVE TypeOK'
  <2>1. vsize[n] \in Nat /\ used \in Nat /\ ops' = ops + 1
    BY <1>3, SizeFacts DEF delete_variable, Charged
  <2>2. used' \in Nat
    BY <1>3, <2>1, LessType DEF delete_variable
  <2>3. vsize' \in [Names -> Sizes \cup {0}]
    BY <1>3 DEF delete_variable, TypeOK
  <2> QED
    BY <1>3, <2>1, <2>2, <2>3, SMTT(30) DEF delete_variable, TypeOK, stacks
<1>4. ASSUME NEW k \in program.prints, append_print(k) PROVE TypeOK'
  <2>1. k \in Nat /\ used \in Nat /\ printed \in Nat /\ ops' = ops + 1
    BY <1>4, ProgramFacts DEF TypeOK, append_print, Charged
  <2>2. used' \in Nat /\ printed' \in 0..MaxStdout
    BY <1>4, <2>1, SMTT(30) DEF append_print, TypeOK
  <2>3. failing' \in BOOLEAN
    <3>1. (used' > MaxMemory) \in BOOLEAN
      OBVIOUS
    <3> QED
      BY <1>4, <3>1, Zenon DEF append_print
  <2> QED
    BY <1>4, <2>1, <2>2, <2>3 DEF append_print, TypeOK, stacks
<1> QED
  BY <1>1, <1>2, <1>3, <1>4

(* Types through augmented assignments, expressions and try blocks. *)
LEMMA TypeFrames ==
    ASSUME TypeOK, UNCHANGED program,
           \/ \E n \in Names : AugRead(n)
           \/ \E s \in Sizes : AugWrite(s)
           \/ AugFails
           \/ \E kind \in {"expr", "try"} : EnterExpr(kind)
           \/ ExitExpr \/ Catch
    PROVE  TypeOK'
<1> USE LimitFacts
<1>1. ASSUME NEW n \in Names, AugRead(n) PROVE TypeOK'
  <2>1. vsize[n] \in Sizes /\ ops' = ops + 1
    BY <1>1 DEF TypeOK, AugRead, Charged
  <2>2. rust' \in Seq(Frames)
    BY <1>1, <2>1, NewFrames DEF AugRead, TypeOK
  <2> QED
    BY <1>1, <2>1, <2>2 DEF AugRead, TypeOK, memory, stacks
<1>2. ASSUME NEW s \in Sizes, AugWrite(s) PROVE TypeOK'
  <2>1. top \in Frames /\ rust' \in Seq(Frames)
    BY <1>2, PopIsStack DEF AugWrite, TypeOK, top
  <2>2. top.name \in Names /\ top.old \in Sizes
    BY <1>2, <2>1, FrameFacts DEF AugWrite
  <2>5. failing' \in BOOLEAN
    BY <1>2, Zenon DEF AugWrite
  <2>6. used \in Nat /\ s \in Nat /\ top.old \in Nat
    BY <2>2, SizeFacts
  <2>3. used' \in Nat
    BY <1>2, <2>6 DEF AugWrite, Less
  <2>4. vsize' \in [Names -> Sizes \cup {0}]
    BY <1>2, <2>2 DEF AugWrite, TypeOK
  <2> QED
    BY <1>2, <2>1, <2>3, <2>4, <2>5 DEF AugWrite, TypeOK, stacks
<1>3. CASE AugFails
  <2>1. rust' \in Seq(Frames)
    BY <1>3, PopIsStack DEF AugFails, TypeOK
  <2> QED
    BY <1>3, <2>1 DEF AugFails, TypeOK, memory, stacks
<1>4. ASSUME NEW kind \in {"expr", "try"}, EnterExpr(kind) PROVE TypeOK'
  <2>1. [kind |-> kind] \in Frames
    BY NewFrames DEF Nesting
  <2>2. exprs' \in 0..MaxDepth
    BY <1>4 DEF EnterExpr, TypeOK
  <2>5. rust' \in {rust, Append(rust, [kind |-> kind])}
    BY <1>4 DEF EnterExpr
  <2>6. rust' \in Seq(Frames)
    <3>1. rust \in Seq(Frames) /\ Append(rust, [kind |-> kind]) \in Seq(Frames)
      BY <2>1 DEF TypeOK
    <3> QED
      BY <2>5, <3>1
  <2>4. failing' \in BOOLEAN
    BY <1>4, Zenon DEF EnterExpr, TypeOK
  <2>3. ops' = ops + 1
    BY <1>4 DEF EnterExpr, Charged
  <2> QED
    BY <1>4, <2>2, <2>3, <2>4, <2>6 DEF EnterExpr, TypeOK, memory
<1>5. CASE ExitExpr
  <2>1. rust' \in Seq(Frames)
    BY <1>5, PopIsStack DEF ExitExpr, TypeOK
  <2>2. exprs' \in 0..MaxDepth
    BY <1>5 DEF ExitExpr, TypeOK, Less
  <2> QED
    BY <1>5, <2>1, <2>2 DEF ExitExpr, TypeOK, memory
<1>6. CASE Catch
  <2>1. Len(rust) \in 1..Len(rust) /\ top \in Frames
    BY <1>6, PopIsStack, SMTT(30) DEF Catch, TypeOK, top
  <2>2. top \in [kind : Nesting]
    BY <1>6, <2>1 DEF Catch, Frames, Calls, Bodies, Binding
  <2>3. [top EXCEPT !.kind = "handler"] \in Frames
    BY <2>2 DEF Frames, Nesting
  <2>4. rust' \in Seq(Frames)
    BY <1>6, <2>1, <2>3 DEF Catch, TypeOK, top
  <2> QED
    BY <1>6, <2>4 DEF Catch, TypeOK, memory, stacks
<1> QED
  BY <1>1, <1>2, <1>3, <1>4, <1>5, <1>6

(* What leaving a call puts back is in range. *)
LEMMA ExitTypes ==
    ASSUME TypeOK, exit_call
    PROVE  calls' \in 0..MaxDepth /\ exprs' \in 0..MaxDepth /\ saved' \in Seq(0..MaxDepth)
<1>1. calls' \in 0..MaxDepth
  BY LimitFacts DEF exit_call, TypeOK, Less
<1>2. saved \in Seq(0..MaxDepth) /\ exprs \in 0..MaxDepth
  BY DEF TypeOK
<1>3. CASE saved = << >>
  <2>1. exprs' = exprs /\ saved' = saved
    BY <1>3 DEF exit_call
  <2> QED
    BY <1>1, <1>2, <2>1
<1>4. CASE saved # << >>
  <2>1. exprs' = saved[Len(saved)] /\ saved' = Butlast(saved)
    BY <1>4 DEF exit_call
  <2>2. Len(saved) \in Nat \ {0}
    BY <1>2, <1>4, EmptySeq
  <2>3. \A i \in 1..Len(saved) : saved[i] \in 0..MaxDepth
    BY <1>2, ElementOfSeq
  <2>4. \A i \in 1..Len(saved) - 1 : saved[i] \in 0..MaxDepth
    BY <2>2, <2>3
  <2>5. Butlast(saved) \in Seq(0..MaxDepth)
    BY <2>2, <2>4, SubSeqProperties DEF Butlast
  <2> QED
    BY <1>1, <2>1, <2>2, <2>3, <2>5
<1> QED
  BY <1>3, <1>4

(* The innermost call, and the stack without it. *)
LEMMA CallOnTop ==
    ASSUME TypeOK, rust # << >>, top.kind \in Calls
    PROVE  /\ top \in Frames /\ Butlast(rust) \in Seq(Frames)
           /\ rust = Append(Butlast(rust), top)
           /\ top.name \in Names /\ top.prev \in Sizes \cup {0}
           /\ vsize[top.name] \in Nat /\ used \in Nat
<1>1. rust \in Seq(Frames)
  BY DEF TypeOK
<1>2. top \in Frames /\ Butlast(rust) \in Seq(Frames) /\ rust = Append(Butlast(rust), top)
  BY <1>1, PopIsStack DEF top
<1>3. top.name \in Names /\ top.prev \in Sizes \cup {0}
  BY <1>2, FrameFacts
<1> QED
  BY <1>2, <1>3, SizeFacts

(* The frame of a call while its body runs, in the place of the one that    *)
(* bound its arguments.                                                     *)
LEMMA BodyOnTop ==
    ASSUME TypeOK, rust # << >>, top.kind \in Calls, NEW kind \in Bodies,
           rust' = [rust EXCEPT ![Len(rust)].kind = kind]
    PROVE  LET f == [top EXCEPT !.kind = kind]
           IN  f \in Frames /\ f.kind = kind /\ rust' = Append(Butlast(rust), f)
<1> DEFINE n == Len(rust)
           f == [top EXCEPT !.kind = kind]
<1>1. /\ rust \in Seq(Frames) /\ Butlast(rust) \in Seq(Frames) /\ top \in Frames
      /\ n \in Nat \ {0} /\ Len(Butlast(rust)) = n - 1
      /\ \A i \in 1..n - 1 : Butlast(rust)[i] = rust[i]
  BY PopIsStack DEF top, TypeOK
<1>2. top \in [kind : Calls, name : Names, prev : Sizes \cup {0}]
  BY <1>1 DEF Frames, Calls, Bodies, Binding, Nesting
<1>3. f \in Frames /\ f.kind = kind
  BY <1>2 DEF Frames, Calls
<1>4. rust' = [rust EXCEPT ![n] = f] /\ rust' \in Seq(Frames) /\ Len(rust') = n
      /\ rust'[n] = f /\ \A i \in 1..n - 1 : rust'[i] = rust[i]
  BY <1>1, <1>3 DEF top
<1> HIDE DEF f, n
<1>5. Append(Butlast(rust), f) \in Seq(Frames) /\ Len(Append(Butlast(rust), f)) = n
      /\ \A i \in 1..n : Append(Butlast(rust), f)[i] = rust'[i]
  BY <1>1, <1>3, <1>4
<1>6. rust' = Append(Butlast(rust), f)
  BY <1>4, <1>5, SeqEqual
<1> QED
  BY <1>3, <1>6 DEF f

(* Types through calls and returns. *)
LEMMA TypeCalls ==
    ASSUME TypeOK, UNCHANGED program,
           \/ \E kind \in Bodies : \E n \in Names : EnterCall(kind, n)
           \/ BindFails
           \/ \E s \in Sizes : ScopeFails(s)
           \/ \E kind \in Bodies : \E s \in Sizes : BeginBody(kind, s)
           \/ ExitCall
    PROVE  TypeOK'
<1> USE LimitFacts
<1>1. \A c : Bit(c) \in Nat
  BY DEF Bit
<1>2. ASSUME NEW kind \in Bodies, NEW n \in Names, EnterCall(kind, n) PROVE TypeOK'
  <2> DEFINE f == [kind |-> Binds(kind), name |-> n, prev |-> vsize[n]]
  <2>1. Binds(kind) \in Calls /\ vsize[n] \in Sizes \cup {0}
    BY DEF Binds, Bodies, Binding, Calls, TypeOK
  <2>2. f \in Frames
    BY <2>1, NewFrames
  <2>3. rust' = rust \/ rust' = Append(rust, f)
    BY <1>2 DEF EnterCall
  <2> HIDE DEF f
  <2>4. rust' \in Seq(Frames)
    <3>1. rust \in Seq(Frames)
      BY DEF TypeOK
    <3>2. Append(rust, f) \in Seq(Frames)
      BY <2>2, <3>1
    <3> QED
      BY <2>3, <3>1, <3>2
  <2>5. saved' \in Seq(0..MaxDepth)
    <3>1. saved \in Seq(0..MaxDepth) /\ exprs \in 0..MaxDepth
      BY DEF TypeOK
    <3>2. Append(saved, exprs) \in Seq(0..MaxDepth)
      BY <3>1
    <3>3. saved' = saved \/ saved' = Append(saved, exprs)
      BY <1>2 DEF EnterCall
    <3> QED
      BY <3>1, <3>2, <3>3
  <2>6. exprs' \in 0..MaxDepth /\ calls' \in 0..MaxDepth
    BY <1>2 DEF EnterCall, TypeOK
  <2>7. owners' \in Nat /\ methods' \in Nat
    <3>1. owners \in Nat /\ methods \in Nat
      BY DEF TypeOK
    <3>2. /\ owners' = owners \/ owners' = owners + Bit(Binds(kind) \in OwnsCells)
          /\ methods' = methods \/ methods' = methods + Bit(Binds(kind) \in OwnsFrame)
      BY <1>2 DEF EnterCall
    <3> QED
      BY <1>1, <3>1, <3>2
  <2>8. failing' \in BOOLEAN
    BY <1>2, Zenon DEF EnterCall, TypeOK
  <2>9. ops' = ops + 1
    BY <1>2 DEF EnterCall, Charged
  <2> QED
    BY <1>2, <2>4, <2>5, <2>6, <2>7, <2>8, <2>9 DEF EnterCall, TypeOK, memory
<1>3. CASE BindFails
  <2>1. rust # << >> /\ top.kind \in Calls /\ exit_call
    BY <1>3 DEF BindFails, Entering, Calls
  <2>2. rust' \in Seq(Frames)
    BY <1>3, <2>1, CallOnTop DEF BindFails
  <2>3. owners' \in Nat /\ methods' \in Nat
    BY <1>1, <1>3, LessType DEF BindFails, TypeOK
  <2> QED
    BY <1>3, <2>1, <2>2, <2>3, ExitTypes DEF BindFails, TypeOK, memory
<1>4. ASSUME NEW s \in Sizes, ScopeFails(s) PROVE TypeOK'
  <2>1. rust # << >> /\ top.kind \in Calls /\ exit_call
    BY <1>4 DEF ScopeFails, Entering, Calls
  <2>2. rust' \in Seq(Frames)
    BY <1>4, <2>1, CallOnTop DEF ScopeFails
  <2>3. owners' \in Nat /\ methods' \in Nat
    BY <1>1, <1>4, LessType DEF ScopeFails, TypeOK
  <2>4. used' \in Nat
    <3>1. vsize[top.name] \in Nat /\ used \in Nat /\ s \in Nat
      BY <2>1, CallOnTop, SizeFacts
    <3>2. Less(used, vsize[top.name]) \in Nat
      BY <3>1, LessType
    <3> QED
      BY <1>4, <3>1, <3>2 DEF ScopeFails
  <2> QED
    BY <1>4, <2>1, <2>2, <2>3, <2>4, ExitTypes DEF ScopeFails, TypeOK
<1>5. ASSUME NEW kind \in Bodies, NEW s \in Sizes, BeginBody(kind, s) PROVE TypeOK'
  <2>1. rust # << >> /\ top.kind \in Calls
    BY <1>5 DEF BeginBody, Entering, Calls
  <2>2. rust' = [rust EXCEPT ![Len(rust)].kind = kind]
    BY <1>5 DEF BeginBody
  <2>3. [top EXCEPT !.kind = kind] \in Frames
        /\ rust' = Append(Butlast(rust), [top EXCEPT !.kind = kind])
    BY <2>1, <2>2, BodyOnTop
  <2>4. rust' \in Seq(Frames)
    BY <2>1, <2>3, CallOnTop
  <2>5. used' \in Nat
    <3>1. vsize[top.name] \in Nat /\ used \in Nat /\ s \in Nat
      BY <2>1, CallOnTop, SizeFacts
    <3>2. Less(used, vsize[top.name]) \in Nat
      BY <3>1, LessType
    <3> QED
      BY <1>5, <3>1, <3>2 DEF BeginBody
  <2>6. vsize' \in [Names -> Sizes \cup {0}]
    BY <1>5 DEF BeginBody, TypeOK
  <2>7. bodies' \in Nat
    <3>1. bodies \in Nat /\ bodies' = bodies + Bit(kind \in OwnsSource)
      BY <1>5 DEF BeginBody, TypeOK
    <3> QED
      BY <1>1, <3>1
  <2> QED
    BY <1>5, <2>4, <2>5, <2>6, <2>7 DEF BeginBody, TypeOK
<1>6. CASE ExitCall
  <2>1. rust # << >> /\ top.kind \in Calls /\ exit_call
    BY <1>6 DEF ExitCall, Calls
  <2>2. rust' \in Seq(Frames) /\ top.prev \in Sizes \cup {0}
    BY <1>6, <2>1, CallOnTop DEF ExitCall
  <2>3. vsize' \in [Names -> Sizes \cup {0}]
    BY <1>6, <2>2 DEF ExitCall, TypeOK
  <2>4. owners' \in Nat /\ bodies' \in Nat /\ methods' \in Nat
    BY <1>1, <1>6, LessType DEF ExitCall, TypeOK
  <2> QED
    BY <1>6, <2>1, <2>2, <2>3, <2>4, ExitTypes DEF ExitCall, TypeOK
<1> QED
  BY <1>2, <1>3, <1>4, <1>5, <1>6

(* Types through every step. *)
LEMMA TypeNext == TypeOK /\ [Next]_vars => TypeOK'
<1> SUFFICES ASSUME TypeOK, [Next]_vars PROVE TypeOK'
  OBVIOUS
<1>1. CASE UNCHANGED vars
  BY <1>1 DEF vars, memory, stacks, TypeOK
<1>2. CASE Next
  BY <1>2, TypeRuns, TypeStatements, TypeFrames, TypeCalls DEF Next, Step
<1> QED
  BY <1>1, <1>2

(* Every counter and stack keeps its range, whatever the limits: in         *)
(* particular the depths never pass max_recursion_depth and the output      *)
(* never passes max_stdout_bytes.                                           *)
THEOREM TypeCorrect == Spec => []TypeOK
BY TypeInit, TypeNext, PTL DEF Spec

-----------------------------------------------------------------------------
(* The memory account *)

Restoring == Calls \cup {"aug"}

(* A program that makes no calls and no augmented assignments has no frame  *)
(* that would put a size back later.                                        *)
NothingToRestore == ~Drifting => At(rust, Restoring) = {}

(* The bytes of the state before and after a variable gets another size. *)
LEMMA StateResized ==
    ASSUME TypeOK, NEW n \in Names, NEW s \in Nat, vsize' = [vsize EXCEPT ![n] = s]
    PROVE  /\ StateSize \in Nat /\ vsize[n] \in Nat /\ vsize[n] <= StateSize
           /\ Cardinality(Bytes(vsize')) = StateSize - vsize[n] + s
<1>1. vsize \in [Names -> Nat]
  BY SizeFacts
<1>2. /\ Cardinality(Bytes(vsize)) \in Nat /\ vsize[n] <= Cardinality(Bytes(vsize))
      /\ Cardinality(Bytes([vsize EXCEPT ![n] = s])) = Cardinality(Bytes(vsize)) - vsize[n] + s
  BY <1>1, ResizeCounts
<1>3. StateSize = Cardinality(Bytes(vsize))
  BY DEF StateSize
<1> QED
  BY <1>1, <1>2, <1>3

(* Nothing has a size at first. *)
LEMMA AccountInit == Init => NothingToRestore /\ AccountingExact
<1> SUFFICES ASSUME Init PROVE NothingToRestore /\ AccountingExact
  OBVIOUS
<1>1. At(rust, Restoring) = {}
  BY DEF Init, At
<1>2. \A n \in Names : {n} \X (1..vsize[n]) = {}
  BY DEF Init
<1>3. Bytes(vsize) = {}
  BY <1>2 DEF Bytes
<1> QED
  BY <1>1, <1>3, FS_EmptySet DEF NothingToRestore, AccountingExact, StateSize, Init

(* The account stays exact while no frame has sizes to put back. *)
LEMMA AccountNext ==
    TypeOK /\ NothingToRestore /\ AccountingExact /\ [Next]_vars
      => NothingToRestore' /\ AccountingExact'
<1> SUFFICES ASSUME TypeOK, NothingToRestore, AccountingExact, [Next]_vars, ~Drifting'
             PROVE  At(rust', Restoring) = {} /\ used' = Cardinality(Bytes(vsize'))
  BY DEF NothingToRestore, AccountingExact, StateSize
<1>1. ~Drifting /\ program' = program
  BY DEF Next, vars, Drifting
<1>2. used = StateSize /\ used \in Nat
  BY <1>1 DEF AccountingExact, TypeOK
<1>3. program.calls = {} /\ program.prints = {} /\ ~program.augmented
  BY <1>1 DEF Drifting
<1>4. \A i \in 1..Len(rust) : rust[i].kind \notin Restoring
  BY <1>1 DEF NothingToRestore, At, TypeOK
<1>5. ASSUME rust # << >>
      PROVE  /\ top.kind \notin Restoring /\ Len(rust) \in 1..Len(rust)
             /\ \A i \in DOMAIN Butlast(rust) : Butlast(rust)[i].kind \notin Restoring
  <2>1. rust \in Seq(Frames)
    BY DEF TypeOK
  <2>2. /\ Butlast(rust) \in Seq(Frames) /\ Len(rust) \in Nat \ {0}
        /\ Len(Butlast(rust)) = Len(rust) - 1
        /\ \A i \in 1..Len(rust) - 1 : Butlast(rust)[i] = rust[i]
    BY <1>5, <2>1, PopIsStack
  <2>3. DOMAIN Butlast(rust) = 1..Len(rust) - 1
    BY <2>2
  <2> QED
    BY <1>4, <2>2, <2>3 DEF top
<1>6. ASSUME vsize' = vsize, used' = used
      PROVE  used' = Cardinality(Bytes(vsize'))
  BY <1>2, <1>6 DEF StateSize
<1>7. ASSUME rust' = rust \/ rust' = << >> \/ (rust' = Butlast(rust) /\ rust # << >>)
      PROVE  At(rust', Restoring) = {}
  <2>1. CASE rust' = rust
    BY <1>1, <2>1 DEF At, NothingToRestore
  <2>2. CASE rust' = << >>
    BY <2>2 DEF At
  <2>3. CASE (rust' = Butlast(rust) /\ rust # << >>)
    BY <1>5, <2>3 DEF At
  <2> QED
    BY <1>7, <2>1, <2>2, <2>3
<1>8. ASSUME NEW n \in Names, NEW s \in Nat, vsize' = [vsize EXCEPT ![n] = s],
             used' = Less(used, vsize[n]) + s
      PROVE  used' = Cardinality(Bytes(vsize'))
  <2>1. /\ StateSize \in Nat /\ vsize[n] \in Nat /\ vsize[n] <= StateSize
        /\ Cardinality(Bytes(vsize')) = StateSize - vsize[n] + s
    BY <1>8, StateResized
  <2>2. Less(used, vsize[n]) = used - vsize[n]
    BY <1>2, <2>1 DEF Less
  <2> QED
    BY <1>2, <1>8, <2>1, <2>2
<1> DEFINE Shrinks == rust' = rust \/ rust' = << >> \/ (rust' = Butlast(rust) /\ rust # << >>)
           Goal == At(rust', Restoring) = {} /\ used' = Cardinality(Bytes(vsize'))
<1>9. ASSUME Shrinks, vsize' = vsize, used' = used PROVE Goal
  BY <1>6, <1>7, <1>9
<1>10. ASSUME Shrinks, NEW n \in Names, NEW s \in Nat, vsize' = [vsize EXCEPT ![n] = s],
              used' = Less(used, vsize[n]) + s
       PROVE  Goal
  BY <1>7, <1>8, <1>10
<1> HIDE DEF Goal
<1>11. CASE UNCHANGED vars
  <2>1. rust' = rust /\ vsize' = vsize /\ used' = used
    BY <1>11 DEF vars, memory
  <2> QED
    BY <1>9, <2>1 DEF Goal
<1>12. ASSUME NEW n \in Names, NEW s \in Sizes \cup {0}, BeginRun(n, s) \/ RejectRun(n, s)
       PROVE  Goal
  <2>1. Start(n, s) /\ s \in Nat
    BY <1>12, SizeFacts DEF BeginRun, RejectRun
  <2>2. CASE s = 0
    BY <1>9, <2>1, <2>2 DEF Start
  <2>3. CASE s # 0
    BY <1>10, <2>1, <2>3 DEF Start
  <2> QED
    BY <2>2, <2>3
<1>13. CASE EndRun \/ Cancel \/ Tick \/ Fail \/ ExitExpr
  <2>1. Shrinks /\ vsize' = vsize /\ used' = used
    BY <1>13 DEF EndRun, Cancel, Tick, Fail, ExitExpr, memory
  <2> QED
    BY <1>9, <2>1 DEF Goal
<1>14. CASE Catch
  <2>1. \A i \in 1..Len(rust) : rust'[i].kind \notin Restoring
    <3>1. "handler" \notin Restoring
      BY DEF Calls, Bodies, Binding, Restoring
    <3> QED
      BY <1>4, <1>5, <1>14, <3>1 DEF Catch, TypeOK
  <2>2. DOMAIN rust' = 1..Len(rust)
    BY <1>14 DEF Catch, TypeOK
  <2>3. At(rust', Restoring) = {}
    BY <2>1, <2>2 DEF At
  <2>4. vsize' = vsize /\ used' = used
    BY <1>14 DEF Catch, memory
  <2> QED
    BY <1>6, <2>3, <2>4 DEF Goal
<1>15. CASE AugFails \/ \E s \in Sizes : AugWrite(s)
  BY <1>5, <1>15 DEF AugFails, AugWrite, Restoring
<1>21. CASE \/ ExitCall \/ BindFails
            \/ \E s \in Sizes : ScopeFails(s)
            \/ \E kind \in Bodies : \E s \in Sizes : BeginBody(kind, s)
  BY <1>5, <1>21 DEF ExitCall, BindFails, ScopeFails, BeginBody, Entering, Restoring, Calls
<1>16. ASSUME NEW n \in Names, NEW s \in Sizes, set_variable(n, s) \/ Mutate(n, s)
       PROVE  Goal
  <2>1. s \in Nat
    BY SizeFacts
  <2>2. CASE set_variable(n, s)
    BY <1>10, <2>1, <2>2 DEF set_variable
  <2>3. CASE Mutate(n, s)
    <3>1. /\ StateSize \in Nat /\ vsize[n] \in Nat /\ vsize[n] <= StateSize
          /\ Cardinality(Bytes(vsize')) = StateSize - vsize[n] + s
      BY <2>1, <2>3, StateResized DEF Mutate
    <3>2. used' = Cardinality(Bytes(vsize'))
      BY <1>2, <2>1, <2>3, <3>1 DEF Mutate, Less
    <3>3. rust' = rust
      BY <2>3 DEF Mutate
    <3> QED
      BY <1>7, <3>2, <3>3 DEF Goal
  <2> QED
    BY <1>16, <2>2, <2>3
<1>17. ASSUME NEW n \in Names, delete_variable(n) \/ AugRead(n)
       PROVE  Goal
  <2>1. delete_variable(n)
    BY <1>3, <1>17 DEF AugRead
  <2>2. vsize' = [vsize EXCEPT ![n] = 0] /\ used' = Less(used, vsize[n]) /\ rust' = rust
    BY <2>1 DEF delete_variable
  <2>3. vsize[n] \in Nat /\ Less(used, vsize[n]) \in Nat
    BY <1>2, SizeFacts, LessType
  <2>4. used' = Less(used, vsize[n]) + 0
    BY <2>2, <2>3
  <2> QED
    BY <1>10, <2>2, <2>4
<1>18. ASSUME NEW k \in program.prints, append_print(k) PROVE FALSE
  BY <1>3
<1>19. ASSUME NEW kind \in {"expr", "try"}, EnterExpr(kind)
       PROVE  Goal
  <2>1. CASE rust' = rust
    <3>1. vsize' = vsize /\ used' = used
      BY <1>19 DEF EnterExpr, memory
    <3> QED
      BY <1>9, <2>1, <3>1
  <2>2. CASE rust' = Append(rust, [kind |-> kind])
    <3>1. DOMAIN rust' = 1..Len(rust) + 1 /\ rust'[Len(rust) + 1] = [kind |-> kind]
          /\ \A i \in 1..Len(rust) : rust'[i] = rust[i]
      BY <2>2 DEF TypeOK
    <3>2. \A i \in 1..Len(rust) + 1 : rust'[i].kind \notin Restoring
      <4>1. kind \notin Restoring
        BY DEF Calls, Bodies, Binding, Restoring
      <4> QED
        BY <1>4, <3>1, <4>1, SMTT(30) DEF TypeOK
    <3>3. vsize' = vsize /\ used' = used
      BY <1>19 DEF EnterExpr, memory
    <3>4. At(rust', Restoring) = {}
      BY <3>1, <3>2 DEF At
    <3> QED
      BY <1>6, <3>3, <3>4 DEF Goal
  <2> QED
    BY <1>19, <2>1, <2>2 DEF EnterExpr
<1>20. ASSUME NEW kind \in Bodies, NEW n \in Names, EnterCall(kind, n)
       PROVE  FALSE
  BY <1>3, <1>20 DEF EnterCall
<1> QED
  BY <1>11, <1>12, <1>13, <1>14, <1>15, <1>16, <1>17, <1>18, <1>19, <1>20, <1>21 DEF Next, Step, Goal

(* In a program without calls, output and augmented assignments,            *)
(* memory_used_bytes is the size of the variables at every moment: after    *)
(* failures, limits that were met, runs that were dropped and host          *)
(* variables that replaced the program's (set_variable, delete_variable,    *)
(* apply_mem_delta, Interpreter::execute).                                  *)
THEOREM AccountIsExact == Spec => []AccountingExact
<1>1. Init => NothingToRestore /\ AccountingExact
  BY AccountInit
<1>2. TypeOK /\ NothingToRestore /\ AccountingExact /\ [Next]_vars
        => NothingToRestore' /\ AccountingExact'
  BY AccountNext
<1> QED
  BY <1>1, <1>2, TypeCorrect, PTL DEF Spec

-----------------------------------------------------------------------------
(* The counters kept by hand *)

(* What is saved for each call in progress: how much the frames below it    *)
(* have open.                                                               *)
SavesOf(r, s) ==
    \A c \in At(r, Calls) :
        s[Cardinality(At(Below(r, c), Calls)) + 1] = Cardinality(OpenIn(Below(r, c)))

(* The counters c and e, the saved nesting s and the lengths o, b and m of  *)
(* the per-frame stacks are those of the stack r.                           *)
Mirror(r, running, c, e, s, o, b, m) ==
    /\ c = Cardinality(At(r, Calls)) /\ Len(s) = c /\ SavesOf(r, s)
    /\ e = Cardinality(OpenIn(r))
    /\ o = Cardinality(At(r, OwnsCells)) + running
    /\ b = Cardinality(At(r, OwnsSource))
    /\ m = Cardinality(At(r, OwnsFrame))

(* The inductive form of Balanced: exit_call also needs what enter_call     *)
(* saved for every frame below, and a run starts on an empty stack.         *)
BalancedInv ==
    /\ phase = "idle" => rust = << >>
    /\ ~program.cancelled =>
          Mirror(rust, Bit(phase = "running"), calls, exprs, saved, owners, bodies, methods)

(* The calls in progress after a push, and what is below each. *)
LEMMA PushBelow ==
    ASSUME NEW r \in Seq(Frames), NEW f \in Frames
    PROVE  /\ Append(r, f) \in Seq(Frames)
           /\ At(Append(r, f), Calls)
                = At(r, Calls) \cup (IF f.kind \in Calls THEN {Len(r) + 1} ELSE {})
           /\ \A c \in At(r, Calls) : Below(Append(r, f), c) = Below(r, c)
           /\ Below(Append(r, f), Len(r) + 1) = r
<1> DEFINE q == Append(r, f)
<1>1. q \in Seq(Frames) /\ Len(q) = Len(r) + 1 /\ q[Len(r) + 1] = f
      /\ \A i \in 1..Len(r) : q[i] = r[i]
  OBVIOUS
<1>2. Len(r) \in Nat /\ DOMAIN r = 1..Len(r) /\ DOMAIN q = 1..Len(r) + 1
  BY <1>1
<1>3. At(q, Calls) = At(r, Calls) \cup (IF f.kind \in Calls THEN {Len(r) + 1} ELSE {})
  BY <1>1, <1>2 DEF At
<1> HIDE DEF q
<1>4. ASSUME NEW c \in 1..Len(r) + 1
      PROVE  /\ Below(r, c) = Below(q, c) /\ Below(r, c) \in Seq(Frames)
             /\ Len(Below(r, c)) = c - 1
             /\ \A i \in 1..c - 1 : Below(r, c)[i] = r[i]
  <2>1. c \in Nat \ {0} /\ c <= Len(r) + 1 /\ c <= Len(q) + 1
        /\ \A i \in 1..c - 1 : q[i] = r[i]
    BY <1>1, <1>2
  <2> QED
    BY <1>1, <2>1, BelowStays
<1>5. At(r, Calls) \subseteq 1..Len(r) + 1
  BY <1>2 DEF At
<1>6. Below(q, Len(r) + 1) = r
  <2> DEFINE n == Len(r) + 1
  <2>1. n \in 1..Len(r) + 1 /\ n - 1 = Len(r)
    BY <1>2
  <2> HIDE DEF n
  <2>2. Below(r, n) = Below(q, n) /\ Below(r, n) \in Seq(Frames) /\ Len(Below(r, n)) = n - 1
        /\ \A i \in 1..n - 1 : Below(r, n)[i] = r[i]
    BY <1>4, <2>1
  <2>3. Len(Below(r, n)) = Len(r) /\ \A i \in 1..Len(r) : Below(r, n)[i] = r[i]
    BY <2>1, <2>2
  <2>4. Below(r, n) = r
    BY <2>2, <2>3, SeqEqual
  <2> QED
    BY <2>2, <2>4 DEF n
<1> QED
  BY <1>1, <1>3, <1>4, <1>5, <1>6 DEF q

(* Entering or leaving a frame that is no call moves exprs alone. *)
LEMMA MirrorNest ==
    ASSUME NEW r \in Seq(Frames), NEW f \in Frames, f.kind \notin Calls,
           NEW running, NEW c, NEW e, NEW s, NEW o, NEW b, NEW m
    PROVE  Mirror(Append(r, f), running, c, e, s, o, b, m)
             <=> \E e0 \in Nat : /\ e = e0 + Bit(f.kind \in Nesting)
                                 /\ Mirror(r, running, c, e0, s, o, b, m)
<1>1. f.kind \notin OwnsCells /\ f.kind \notin OwnsSource /\ f.kind \notin OwnsFrame
  BY DEF Calls, Bodies, Binding, OwnsCells, OwnsSource, OwnsFrame
<1>2. ASSUME NEW kinds, f.kind \notin kinds
      PROVE  Cardinality(At(Append(r, f), kinds)) = Cardinality(At(r, kinds))
  <2>1. Cardinality(At(r, kinds)) \in Nat
    BY StackFacts
  <2> QED
    BY <1>2, <2>1, PushCounts DEF Bit
<1>3. /\ Cardinality(At(Append(r, f), Calls)) = Cardinality(At(r, Calls))
      /\ Cardinality(At(Append(r, f), OwnsCells)) = Cardinality(At(r, OwnsCells))
      /\ Cardinality(At(Append(r, f), OwnsSource)) = Cardinality(At(r, OwnsSource))
      /\ Cardinality(At(Append(r, f), OwnsFrame)) = Cardinality(At(r, OwnsFrame))
  BY <1>1, <1>2
<1>4. Cardinality(OpenIn(r)) \in Nat
      /\ Cardinality(OpenIn(Append(r, f))) = Cardinality(OpenIn(r)) + Bit(f.kind \in Nesting)
  BY PushOpens
<1>5. SavesOf(Append(r, f), s) <=> SavesOf(r, s)
  <2>1. At(Append(r, f), Calls) = At(r, Calls)
        /\ \A k \in At(r, Calls) : Below(Append(r, f), k) = Below(r, k)
    BY PushBelow
  <2> QED
    BY <2>1, Zenon DEF SavesOf
<1>6. ASSUME Mirror(Append(r, f), running, c, e, s, o, b, m)
      PROVE  \E e0 \in Nat : /\ e = e0 + Bit(f.kind \in Nesting)
                             /\ Mirror(r, running, c, e0, s, o, b, m)
  <2> Cardinality(OpenIn(r)) \in Nat
    BY <1>4
  <2> WITNESS Cardinality(OpenIn(r)) \in Nat
  <2> QED
    BY <1>3, <1>4, <1>5, <1>6 DEF Mirror
<1>7. ASSUME NEW e0 \in Nat, e = e0 + Bit(f.kind \in Nesting),
             Mirror(r, running, c, e0, s, o, b, m)
      PROVE  Mirror(Append(r, f), running, c, e, s, o, b, m)
  BY <1>3, <1>4, <1>5, <1>7 DEF Mirror
<1> QED
  BY <1>6, <1>7

(* Entering a call sets exprs aside. *)
LEMMA MirrorCall ==
    ASSUME NEW r \in Seq(Frames), NEW f \in Frames, f.kind \in Calls,
           NEW running \in Nat, NEW c, NEW e, NEW s \in Seq(Nat), NEW o, NEW b, NEW m,
           Mirror(r, running, c, e, s, o, b, m)
    PROVE  Mirror(Append(r, f), running, c + 1, 0, Append(s, e),
                  o + Bit(f.kind \in OwnsCells), b + Bit(f.kind \in OwnsSource),
                  m + Bit(f.kind \in OwnsFrame))
<1> DEFINE q == Append(r, f)
<1>1. /\ Cardinality(At(q, Calls)) = Cardinality(At(r, Calls)) + 1
      /\ Cardinality(At(q, OwnsCells))
           = Cardinality(At(r, OwnsCells)) + Bit(f.kind \in OwnsCells)
      /\ Cardinality(At(q, OwnsSource))
           = Cardinality(At(r, OwnsSource)) + Bit(f.kind \in OwnsSource)
      /\ Cardinality(At(q, OwnsFrame)) = Cardinality(At(r, OwnsFrame)) + Bit(f.kind \in OwnsFrame)
  <2>1. Bit(f.kind \in Calls) = 1
    BY DEF Bit
  <2> QED
    BY <2>1, PushCounts
<1>2. Cardinality(OpenIn(q)) = 0
  BY PushOpens
<1>3. \A kinds : Cardinality(At(r, kinds)) \in Nat
  BY StackFacts
<1>4. c = Cardinality(At(r, Calls)) /\ c \in Nat /\ Len(s) = c /\ e = Cardinality(OpenIn(r)) /\ e \in Nat
  BY <1>3, PushOpens DEF Mirror
<1>5. Len(Append(s, e)) = c + 1 /\ Append(s, e)[c + 1] = e /\ \A i \in 1..c : Append(s, e)[i] = s[i]
  BY <1>4
<1>6. /\ At(q, Calls) = At(r, Calls) \cup {Len(r) + 1}
      /\ \A k \in At(r, Calls) : Below(q, k) = Below(r, k)
      /\ Below(q, Len(r) + 1) = r
  BY PushBelow
<1> HIDE DEF q
<1>7. SavesOf(q, Append(s, e))
  <2> SUFFICES ASSUME NEW k \in At(q, Calls)
               PROVE  Append(s, e)[Cardinality(At(Below(q, k), Calls)) + 1]
                        = Cardinality(OpenIn(Below(q, k)))
    BY DEF SavesOf
  <2>1. CASE k \in At(r, Calls)
    <3>1. Cardinality(At(Below(r, k), Calls)) + 1 \in 1..c
      BY <1>4, <2>1, CallNumber
    <3>2. s[Cardinality(At(Below(r, k), Calls)) + 1] = Cardinality(OpenIn(Below(r, k)))
      BY <2>1 DEF Mirror, SavesOf
    <3>3. Below(q, k) = Below(r, k)
      BY <1>6, <2>1
    <3>4. Append(s, e)[Cardinality(At(Below(r, k), Calls)) + 1]
            = s[Cardinality(At(Below(r, k), Calls)) + 1]
      BY <1>5, <3>1
    <3> QED
      BY <3>2, <3>3, <3>4
  <2>2. CASE k = Len(r) + 1
    BY <1>4, <1>5, <1>6, <2>2
  <2> QED
    BY <1>6, <2>1, <2>2
<1>8. o = Cardinality(At(r, OwnsCells)) + running
      /\ b = Cardinality(At(r, OwnsSource)) /\ m = Cardinality(At(r, OwnsFrame))
  BY DEF Mirror
<1>9. Bit(f.kind \in OwnsCells) \in Nat
  BY DEF Bit
<1>10. o + Bit(f.kind \in OwnsCells) = Cardinality(At(q, OwnsCells)) + running
  BY <1>1, <1>3, <1>8, <1>9
<1> QED
  BY <1>1, <1>2, <1>4, <1>5, <1>7, <1>8, <1>10 DEF Mirror, q

(* Leaving it takes exprs back from where enter_call put it. *)
LEMMA MirrorReturn ==
    ASSUME NEW r \in Seq(Frames), NEW f \in Frames, f.kind \in Calls,
           NEW running \in Nat, NEW c, NEW e, NEW s \in Seq(Nat), NEW o, NEW b, NEW m,
           Mirror(Append(r, f), running, c, e, s, o, b, m)
    PROVE  /\ s # << >>
           /\ Mirror(r, running, Less(c, 1), s[Len(s)], Butlast(s),
                     Less(o, Bit(f.kind \in OwnsCells)), Less(b, Bit(f.kind \in OwnsSource)),
                     Less(m, Bit(f.kind \in OwnsFrame)))
<1> DEFINE q == Append(r, f)
<1>1. /\ Cardinality(At(q, Calls)) = Cardinality(At(r, Calls)) + 1
      /\ Cardinality(At(q, OwnsCells))
           = Cardinality(At(r, OwnsCells)) + Bit(f.kind \in OwnsCells)
      /\ Cardinality(At(q, OwnsSource))
           = Cardinality(At(r, OwnsSource)) + Bit(f.kind \in OwnsSource)
      /\ Cardinality(At(q, OwnsFrame)) = Cardinality(At(r, OwnsFrame)) + Bit(f.kind \in OwnsFrame)
  <2>1. Bit(f.kind \in Calls) = 1
    BY DEF Bit
  <2> QED
    BY <2>1, PushCounts
<1>2. \A kinds : Cardinality(At(r, kinds)) \in Nat
  BY StackFacts
<1> DEFINE d == Cardinality(At(r, Calls))
<1>3. d \in Nat /\ c = d + 1 /\ Len(s) = d + 1
  BY <1>1, <1>2 DEF Mirror
<1>4. s # << >>
  BY <1>3
<1>5. Butlast(s) = SubSeq(s, 1, d) /\ s[Len(s)] = s[d + 1]
  BY <1>3 DEF Butlast
<1>6. Less(c, 1) = d
  BY <1>3 DEF Less
<1>7. /\ At(q, Calls) = At(r, Calls) \cup {Len(r) + 1}
      /\ \A k \in At(r, Calls) : Below(q, k) = Below(r, k)
      /\ Below(q, Len(r) + 1) = r
  BY PushBelow
<1>8. SavesOf(q, s)
  BY DEF Mirror
<1>9. /\ o = Cardinality(At(q, OwnsCells)) + running
      /\ b = Cardinality(At(q, OwnsSource)) /\ m = Cardinality(At(q, OwnsFrame))
  BY DEF Mirror
<1> HIDE DEF q, d
<1>10. Len(SubSeq(s, 1, d)) = d /\ \A i \in 1..d : SubSeq(s, 1, d)[i] = s[i]
  <2>1. d \in Int /\ 1 \in Int /\ \A i \in 1..d : s[i] \in Nat
    BY <1>3
  <2>2. /\ Len(SubSeq(s, 1, d)) = (IF 1 <= d THEN d - 1 + 1 ELSE 0)
        /\ \A i \in 1..d - 1 + 1 : SubSeq(s, 1, d)[i] = s[1 + i - 1]
    BY <2>1, SubSeqProperties
  <2>3. (IF 1 <= d THEN d - 1 + 1 ELSE 0) = d
    BY <1>3
  <2>4. ASSUME NEW i \in 1..d PROVE SubSeq(s, 1, d)[i] = s[i]
    <3>1. i \in 1..d - 1 + 1 /\ 1 + i - 1 = i
      BY <1>3
    <3> QED BY <2>2, <3>1
  <2>5. Len(SubSeq(s, 1, d)) = d
    BY <1>3, <2>2, <2>3
  <2> QED
    BY <2>4, <2>5
<1>11. s[d + 1] = Cardinality(OpenIn(r))
  BY <1>7, <1>8 DEF SavesOf, d
<1>12. SavesOf(r, SubSeq(s, 1, d))
  <2> SUFFICES ASSUME NEW k \in At(r, Calls)
               PROVE  SubSeq(s, 1, d)[Cardinality(At(Below(r, k), Calls)) + 1]
                        = Cardinality(OpenIn(Below(r, k)))
    BY DEF SavesOf
  <2>1. Cardinality(At(Below(r, k), Calls)) + 1 \in 1..d
    BY CallNumber DEF d
  <2>2. s[Cardinality(At(Below(q, k), Calls)) + 1] = Cardinality(OpenIn(Below(q, k)))
    BY <1>7, <1>8 DEF SavesOf
  <2>3. Below(q, k) = Below(r, k)
    BY <1>7
  <2> QED
    BY <1>10, <2>1, <2>2, <2>3
<1>13. Bit(f.kind \in OwnsCells) \in {0, 1} /\ Bit(f.kind \in OwnsSource) \in {0, 1}
       /\ Bit(f.kind \in OwnsFrame) \in {0, 1}
  BY DEF Bit
<1>14. /\ Less(o, Bit(f.kind \in OwnsCells)) = Cardinality(At(r, OwnsCells)) + running
       /\ Less(b, Bit(f.kind \in OwnsSource)) = Cardinality(At(r, OwnsSource))
       /\ Less(m, Bit(f.kind \in OwnsFrame)) = Cardinality(At(r, OwnsFrame))
  <2>1. /\ Cardinality(At(r, OwnsCells)) \in Nat /\ Cardinality(At(r, OwnsSource)) \in Nat
        /\ Cardinality(At(r, OwnsFrame)) \in Nat
    BY <1>2
  <2> QED
    BY <1>1, <1>9, <1>13, <2>1 DEF Less
<1> QED
  BY <1>4, <1>5, <1>6, <1>10, <1>11, <1>12, <1>14 DEF Mirror, d

(* The evaluator has nothing in progress at first. *)
LEMMA BalancedInit == Init => BalancedInv
<1> SUFFICES ASSUME Init PROVE BalancedInv
  OBVIOUS
<1>1. rust = << >> /\ rust \in Seq(Frames) /\ phase = "idle"
  BY DEF Init
<1>2. \A kinds : At(rust, kinds) = {}
  BY <1>1 DEF At
<1>3. OpenIn(rust) = {}
  BY <1>2 DEF OpenIn
<1>4. Cardinality({}) = 0
  BY FS_EmptySet
<1>5. SavesOf(rust, saved)
  BY <1>2 DEF SavesOf
<1>6. /\ calls = 0 /\ exprs = 0 /\ saved = << >> /\ owners = 0 /\ bodies = 0 /\ methods = 0
      /\ Bit(phase = "running") = 0
  BY <1>1 DEF Init, Bit
<1>7. /\ Len(saved) = 0 /\ Cardinality(At(rust, Calls)) = 0 /\ Cardinality(OpenIn(rust)) = 0
      /\ Cardinality(At(rust, OwnsCells)) = 0
      /\ Cardinality(At(rust, OwnsSource)) = 0 /\ Cardinality(At(rust, OwnsFrame)) = 0
  BY <1>2, <1>3, <1>4, <1>6
<1>8. Mirror(rust, 0, calls, exprs, saved, owners, bodies, methods)
  BY <1>5, <1>6, <1>7 DEF Mirror
<1> QED
  BY <1>1, <1>6, <1>8 DEF BalancedInv

(* Counters and per-frame stacks follow the evaluator's stack through every step. *)
LEMMA BalancedNext == TypeOK /\ BalancedInv /\ [Next]_vars => BalancedInv'
<1> SUFFICES ASSUME TypeOK, BalancedInv, [Next]_vars
             PROVE  BalancedInv'
  OBVIOUS
<1> DEFINE Now  == Mirror(rust, Bit(phase = "running"), calls, exprs, saved,
                          owners, bodies, methods)
           Then == Mirror(rust', Bit(phase' = "running"), calls', exprs', saved',
                          owners', bodies', methods')
<1>1. program' = program
  BY DEF Next, vars
<1>2. (phase = "idle" => rust = << >>) /\ (~program.cancelled => Now)
  BY DEF BalancedInv
<1>3. ASSUME phase' = "idle" => rust' = << >>, ~program.cancelled => Then
      PROVE  BalancedInv'
  BY <1>1, <1>3 DEF BalancedInv
<1>4. rust \in Seq(Frames) /\ saved \in Seq(Nat)
  BY LimitFacts DEF TypeOK
<1>5. Bit(phase = "running") \in Nat
  BY DEF Bit
<1> HIDE DEF Now, Then
<1>6. ASSUME phase' = phase, rust' = rust, UNCHANGED stacks
      PROVE  BalancedInv'
  BY <1>2, <1>3, <1>6 DEF Now, Then, stacks
<1>7. CASE UNCHANGED vars
  BY <1>6, <1>7 DEF vars
<1>8. ASSUME NEW n \in Names, NEW s \in Sizes \cup {0}, BeginRun(n, s) \/ RejectRun(n, s)
      PROVE  BalancedInv'
  <2>1. Start(n, s)
    BY <1>8 DEF BeginRun, RejectRun
  <2>2. phase = "idle" /\ rust = << >> /\ rust' = rust
        /\ UNCHANGED <<calls, exprs, saved, bodies, methods>>
    BY <1>2, <2>1 DEF Start
  <2>3. CASE RejectRun(n, s)
    BY <1>6, <2>2, <2>3 DEF RejectRun, stacks
  <2>4. CASE BeginRun(n, s)
    <3>1. phase' = "running" /\ owners' = owners + 1
      BY <2>4 DEF BeginRun
    <3>2. Bit(phase = "running") = 0 /\ Bit(phase' = "running") = 1
      BY <2>2, <3>1 DEF Bit
    <3>3. Cardinality(At(rust, OwnsCells)) \in Nat
      BY <1>4, StackFacts
    <3>4. Now => Then
      BY <2>2, <3>1, <3>2, <3>3 DEF Now, Then, Mirror
    <3> QED
      BY <1>2, <1>3, <3>1, <3>4
  <2> QED
    BY <1>8, <2>3, <2>4
<1>9. CASE EndRun
  <2>1. phase = "running" /\ phase' = "idle" /\ rust = << >> /\ rust' = rust
        /\ owners' = Less(owners, 1) /\ UNCHANGED <<calls, exprs, saved, bodies, methods>>
    BY <1>9 DEF EndRun
  <2>2. Bit(phase = "running") = 1 /\ Bit(phase' = "running") = 0
    BY <2>1 DEF Bit
  <2>3. Cardinality(At(rust, OwnsCells)) \in Nat
    BY <1>4, StackFacts
  <2>4. Now => Then
    BY <2>1, <2>2, <2>3 DEF Now, Then, Mirror, Less
  <2> QED
    BY <1>2, <1>3, <2>1, <2>4
<1>10. CASE Cancel
  BY <1>3, <1>10 DEF Cancel
<1>11. CASE Tick \/ Fail
  BY <1>6, <1>11 DEF Tick, Fail
<1>12. ASSUME NEW n \in Names, NEW s \in Sizes, set_variable(n, s) \/ Mutate(n, s)
       PROVE  BalancedInv'
  BY <1>6, <1>12 DEF set_variable, Mutate
<1>13. ASSUME NEW n \in Names, delete_variable(n) PROVE BalancedInv'
  BY <1>6, <1>13 DEF delete_variable
<1>14. ASSUME NEW k \in program.prints, append_print(k) PROVE BalancedInv'
  BY <1>6, <1>14 DEF append_print
<1>15. ASSUME NEW n \in Names, AugRead(n) PROVE BalancedInv'
  <2> DEFINE f == [kind |-> "aug", name |-> n, old |-> vsize[n]]
  <2>1. vsize[n] \in Sizes
    BY <1>15 DEF AugRead, TypeOK
  <2>2. f \in Frames /\ f.kind \notin Calls /\ f.kind \notin Nesting
    BY <2>1, NewFrames DEF Calls, Bodies, Binding, Nesting
  <2>3. rust' = Append(rust, f) /\ phase' = phase /\ phase = "running" /\ UNCHANGED stacks
    BY <1>15 DEF AugRead, Charged, Working
  <2> HIDE DEF f
  <2>4. exprs \in Nat /\ exprs = exprs + Bit(f.kind \in Nesting)
    BY <2>2 DEF Bit, TypeOK
  <2>5. Now => Mirror(Append(rust, f), Bit(phase = "running"), calls, exprs, saved,
                      owners, bodies, methods)
    BY <1>4, <2>2, <2>4, MirrorNest DEF Now
  <2> QED
    BY <1>2, <1>3, <2>3, <2>5 DEF Then, stacks
<1>16. ASSUME rust # << >>, top.kind \notin Calls, rust' = Butlast(rust), phase' = phase,
              phase = "running", exprs' = Less(exprs, Bit(top.kind \in Nesting)),
              UNCHANGED <<calls, saved, owners, bodies, methods>>
       PROVE  BalancedInv'
  <2>1. /\ Butlast(rust) \in Seq(Frames) /\ top \in Frames /\ rust = Append(Butlast(rust), top)
    BY <1>4, <1>16, PopIsStack DEF top
  <2>2. ASSUME Now PROVE Then
    <3>1. Mirror(Append(Butlast(rust), top), Bit(phase = "running"), calls, exprs, saved,
                 owners, bodies, methods)
      BY <2>1, <2>2 DEF Now
    <3>2. PICK e0 \in Nat :
             /\ exprs = e0 + Bit(top.kind \in Nesting)
             /\ Mirror(Butlast(rust), Bit(phase = "running"), calls, e0, saved,
                       owners, bodies, methods)
      BY <1>16, <2>1, <3>1, MirrorNest
    <3>3. exprs' = e0
      BY <1>16, <3>2 DEF Less, Bit
    <3> QED
      BY <1>16, <3>2, <3>3 DEF Then
  <2> QED
    BY <1>2, <1>3, <1>16, <2>2
<1>17. CASE AugFails \/ \E s \in Sizes : AugWrite(s)
  <2>1. rust # << >> /\ top.kind = "aug" /\ rust' = Butlast(rust) /\ phase' = phase
        /\ phase = "running" /\ UNCHANGED stacks
    BY <1>17 DEF AugFails, AugWrite, Working
  <2>2. exprs' = Less(exprs, Bit(top.kind \in Nesting))
    BY <2>1 DEF Less, Bit, Nesting, stacks, TypeOK
  <2> QED
    BY <1>16, <2>1, <2>2 DEF stacks, Calls, Bodies, Binding
<1>18. CASE ExitExpr
  <2>1. rust # << >> /\ top.kind \in Nesting /\ rust' = Butlast(rust) /\ phase' = phase
        /\ phase = "running" /\ exprs' = Less(exprs, 1)
        /\ UNCHANGED <<calls, saved, owners, bodies, methods>>
    BY <1>18 DEF ExitExpr
  <2>2. exprs' = Less(exprs, Bit(top.kind \in Nesting)) /\ top.kind \notin Calls
    BY <2>1 DEF Bit, Nesting, Calls, Bodies, Binding
  <2> QED
    BY <1>16, <2>1, <2>2
<1>19. ASSUME NEW kind \in {"expr", "try"}, EnterExpr(kind) PROVE BalancedInv'
  <2>1. CASE rust' = rust /\ exprs' = exprs
    BY <1>6, <1>19, <2>1 DEF EnterExpr, stacks
  <2>2. CASE rust' = Append(rust, [kind |-> kind]) /\ exprs' = exprs + 1
    <3> DEFINE f == [kind |-> kind]
    <3>1. f \in Frames /\ f.kind \notin Calls /\ f.kind \in Nesting
      BY NewFrames DEF Calls, Bodies, Binding, Nesting
    <3>2. rust' = Append(rust, f) /\ phase' = phase /\ phase = "running"
          /\ UNCHANGED <<calls, saved, owners, bodies, methods>>
      BY <1>19, <2>2 DEF EnterExpr, Charged, Working
    <3> HIDE DEF f
    <3>3. exprs \in Nat /\ exprs' = exprs + Bit(f.kind \in Nesting)
      BY <2>2, <3>1 DEF Bit, TypeOK
    <3>4. Now => Mirror(Append(rust, f), Bit(phase = "running"), calls, exprs', saved,
                        owners, bodies, methods)
      BY <1>4, <3>1, <3>3, MirrorNest DEF Now
    <3> QED
      BY <1>2, <1>3, <3>2, <3>4 DEF Then
  <2> QED
    BY <1>19, <2>1, <2>2 DEF EnterExpr
<1>20. CASE Catch
  <2> DEFINE n == Len(rust)
             f == [top EXCEPT !.kind = "handler"]
  <2>1. /\ Butlast(rust) \in Seq(Frames) /\ top \in Frames
        /\ rust = Append(Butlast(rust), top) /\ n \in Nat \ {0}
        /\ Len(Butlast(rust)) = n - 1 /\ \A i \in 1..n - 1 : Butlast(rust)[i] = rust[i]
    BY <1>4, <1>20, PopIsStack DEF top, Catch
  <2>2. top \in [kind : Nesting] /\ top.kind \in Nesting /\ top.kind \notin Calls
    BY <1>20, <2>1 DEF Catch, Frames, Calls, Bodies, Binding, Nesting
  <2>3. f \in Frames /\ f.kind \in Nesting /\ f.kind \notin Calls
    BY <2>2 DEF Frames, Nesting, Calls, Bodies, Binding
  <2>4. rust' = [rust EXCEPT ![n] = f] /\ rust' \in Seq(Frames) /\ Len(rust') = n
        /\ rust'[n] = f /\ \A i \in 1..n - 1 : rust'[i] = rust[i]
    BY <1>4, <1>20, <2>1, <2>3 DEF Catch, top
  <2>5. phase' = phase /\ phase = "running" /\ UNCHANGED stacks
    BY <1>20 DEF Catch
  <2> HIDE DEF f, n
  <2>6. Append(Butlast(rust), f) \in Seq(Frames) /\ Len(Append(Butlast(rust), f)) = n
        /\ \A i \in 1..n : Append(Butlast(rust), f)[i] = rust'[i]
    BY <2>1, <2>3, <2>4
  <2>7. rust' = Append(Butlast(rust), f)
    BY <2>4, <2>6, SeqEqual
  <2>8. Bit(f.kind \in Nesting) = Bit(top.kind \in Nesting)
    BY <2>2, <2>3
  <2>9. ASSUME Now PROVE Then
    <3>1. Mirror(Append(Butlast(rust), top), Bit(phase = "running"), calls, exprs, saved,
                 owners, bodies, methods)
      BY <2>1, <2>9 DEF Now
    <3>2. PICK e0 \in Nat :
             /\ exprs = e0 + Bit(top.kind \in Nesting)
             /\ Mirror(Butlast(rust), Bit(phase = "running"), calls, e0, saved,
                       owners, bodies, methods)
      BY <2>2, <2>1, <3>1, MirrorNest
    <3>3. Mirror(Append(Butlast(rust), f), Bit(phase = "running"), calls, exprs, saved,
                 owners, bodies, methods)
      BY <2>1, <2>3, <2>8, <3>2, MirrorNest
    <3> QED
      BY <2>5, <2>7, <3>3 DEF Then, stacks
  <2> QED
    BY <1>2, <1>3, <2>5, <2>9
<1>21. ASSUME NEW kind \in Bodies, NEW n \in Names, EnterCall(kind, n)
       PROVE  BalancedInv'
  <2>1. CASE failing' = TRUE /\ UNCHANGED <<rust, calls, exprs, saved, owners, methods>>
    BY <1>6, <1>21, <2>1 DEF EnterCall, stacks
  <2>2. CASE /\ calls' = calls + 1 /\ saved' = Append(saved, exprs) /\ exprs' = 0
             /\ owners' = owners + Bit(Binds(kind) \in OwnsCells)
             /\ methods' = methods + Bit(Binds(kind) \in OwnsFrame)
             /\ rust' = Append(rust, [kind |-> Binds(kind), name |-> n, prev |-> vsize[n]])
    <3> DEFINE f == [kind |-> Binds(kind), name |-> n, prev |-> vsize[n]]
    <3>1. Binds(kind) \in Calls /\ Binds(kind) \notin OwnsSource /\ vsize[n] \in Sizes \cup {0}
      BY DEF Binds, Bodies, Binding, Calls, OwnsSource, TypeOK
    <3>2. f \in Frames /\ f.kind = Binds(kind)
      BY <3>1, NewFrames
    <3>3. bodies' = bodies /\ phase' = phase /\ phase = "running"
      BY <1>21 DEF EnterCall, Charged, Working
    <3>4. rust' = Append(rust, f)
      BY <2>2
    <3> HIDE DEF f
    <3>5. Now => Mirror(Append(rust, f), Bit(phase = "running"), calls + 1, 0,
                        Append(saved, exprs), owners + Bit(f.kind \in OwnsCells),
                        bodies + Bit(f.kind \in OwnsSource), methods + Bit(f.kind \in OwnsFrame))
      BY <1>4, <1>5, <3>1, <3>2, MirrorCall DEF Now
    <3>6. bodies + Bit(f.kind \in OwnsSource) = bodies
      BY <3>1, <3>2 DEF Bit, TypeOK
    <3> QED
      BY <1>2, <1>3, <2>2, <3>2, <3>3, <3>4, <3>5, <3>6 DEF Then
  <2> QED
    BY <1>21, <2>1, <2>2 DEF EnterCall
<1>22. ASSUME rust # << >>, top.kind \in Calls, Now
       PROVE  /\ saved # << >>
              /\ Mirror(Butlast(rust), Bit(phase = "running"), Less(calls, 1), saved[Len(saved)],
                        Butlast(saved), Less(owners, Bit(top.kind \in OwnsCells)),
                        Less(bodies, Bit(top.kind \in OwnsSource)),
                        Less(methods, Bit(top.kind \in OwnsFrame)))
  <2>1. top \in Frames /\ Butlast(rust) \in Seq(Frames) /\ rust = Append(Butlast(rust), top)
    BY <1>22, CallOnTop
  <2>2. Mirror(Append(Butlast(rust), top), Bit(phase = "running"), calls, exprs, saved,
               owners, bodies, methods)
    BY <1>22, <2>1 DEF Now
  <2> QED
    BY <1>4, <1>5, <1>22, <2>1, <2>2, MirrorReturn
<1>23. CASE ExitCall
  <2>1. /\ rust # << >> /\ top.kind \in Calls /\ rust' = Butlast(rust)
        /\ phase' = phase /\ phase = "running" /\ calls' = Less(calls, 1)
        /\ saved # << >> => exprs' = saved[Len(saved)] /\ saved' = Butlast(saved)
        /\ owners' = Less(owners, Bit(top.kind \in OwnsCells))
        /\ bodies' = Less(bodies, Bit(top.kind \in OwnsSource))
        /\ methods' = Less(methods, Bit(top.kind \in OwnsFrame))
    BY <1>23 DEF ExitCall, exit_call, Calls
  <2>2. Now => Then
    BY <1>22, <2>1 DEF Then
  <2> QED
    BY <1>2, <1>3, <2>1, <2>2
<1>24. CASE BindFails \/ \E s \in Sizes : ScopeFails(s)
  <2>1. /\ rust # << >> /\ top.kind \in Calls /\ top.kind \notin OwnsSource
        /\ rust' = Butlast(rust) /\ phase' = phase /\ phase = "running"
        /\ calls' = Less(calls, 1) /\ bodies' = bodies
        /\ saved # << >> => exprs' = saved[Len(saved)] /\ saved' = Butlast(saved)
        /\ owners' = Less(owners, Bit(top.kind \in OwnsCells))
        /\ methods' = Less(methods, Bit(top.kind \in OwnsFrame))
    BY <1>24 DEF BindFails, ScopeFails, Entering, exit_call, Calls, Binding, OwnsSource
  <2>2. Less(bodies, Bit(top.kind \in OwnsSource)) = bodies
    BY <2>1 DEF Bit, Less, TypeOK
  <2>3. Now => Then
    BY <1>22, <2>1, <2>2 DEF Then
  <2> QED
    BY <1>2, <1>3, <2>1, <2>3
<1>25. ASSUME NEW kind \in Bodies, NEW s \in Sizes, BeginBody(kind, s)
       PROVE  BalancedInv'
  <2> DEFINE f == [top EXCEPT !.kind = kind]
             low == Butlast(rust)
  <2>1. /\ rust # << >> /\ top.kind = Binds(kind) /\ top.kind \in Calls /\ kind \in Calls
        /\ phase' = phase /\ phase = "running" /\ bodies' = bodies + Bit(kind \in OwnsSource)
        /\ UNCHANGED <<calls, exprs, saved, owners, methods>>
    BY <1>25 DEF BeginBody, Entering, Calls
  <2>2. f \in Frames /\ f.kind = kind /\ rust' = Append(low, f)
    BY <1>25, <2>1, BodyOnTop DEF BeginBody
  <2>3. low \in Seq(Frames) /\ top \in Frames /\ rust = Append(low, top)
    BY <2>1, CallOnTop
  <2>4. /\ top.kind \in OwnsCells <=> kind \in OwnsCells
        /\ top.kind \in OwnsFrame <=> kind \in OwnsFrame
        /\ top.kind \notin OwnsSource
    BY <2>1 DEF Binds, Bodies, OwnsCells, OwnsFrame, OwnsSource
  <2> HIDE DEF f, low
  <2>5. ASSUME Now PROVE Then
    <3> DEFINE o == Less(owners, Bit(top.kind \in OwnsCells))
               b == Less(bodies, Bit(top.kind \in OwnsSource))
               m == Less(methods, Bit(top.kind \in OwnsFrame))
               before == Butlast(saved)
               e == saved[Len(saved)]
    <3>1. saved # << >> /\ Mirror(low, Bit(phase = "running"), Less(calls, 1), e, before, o, b, m)
      BY <1>22, <2>1, <2>5 DEF low
    <3>2. Len(saved) \in Nat \ {0} /\ \A i \in 1..Len(saved) - 1 : saved[i] \in Nat
      BY <1>4, <3>1, EmptySeq
    <3>3. before \in Seq(Nat) /\ e \in Nat
      BY <1>4, <3>2, SubSeqProperties DEF Butlast
    <3>4. saved = Append(before, e)
      BY <1>4, <3>1, LastPut DEF before, e
    <3>5. calls \in Nat /\ owners \in Nat /\ bodies \in Nat /\ methods \in Nat /\ exprs \in Nat
      BY LimitFacts DEF TypeOK
    <3>6. /\ Bit(phase = "running") \in Nat
          /\ Cardinality(At(rust, Calls)) = Cardinality(At(low, Calls)) + 1
          /\ Cardinality(At(rust, OwnsCells))
               = Cardinality(At(low, OwnsCells)) + Bit(top.kind \in OwnsCells)
          /\ Cardinality(At(rust, OwnsFrame))
               = Cardinality(At(low, OwnsFrame)) + Bit(top.kind \in OwnsFrame)
          /\ Cardinality(OpenIn(rust)) = 0
      <4>1. Bit(top.kind \in Calls) = 1
        BY <2>1 DEF Bit
      <4> QED
        BY <1>5, <2>1, <2>3, <4>1, PushCounts, PushOpens
    <3>7. \A kinds : Cardinality(At(low, kinds)) \in Nat
      BY <2>3, StackFacts
    <3>8. /\ calls = Cardinality(At(rust, Calls)) /\ exprs = Cardinality(OpenIn(rust))
          /\ owners = Cardinality(At(rust, OwnsCells)) + Bit(phase = "running")
          /\ methods = Cardinality(At(rust, OwnsFrame))
      BY <2>5 DEF Now, Mirror
    <3> HIDE DEF e, before, o, b, m
    <3>9. Less(calls, 1) + 1 = calls /\ exprs = 0
      BY <3>6, <3>7, <3>8 DEF Less
    <3>10. o + Bit(f.kind \in OwnsCells) = owners
      <4>1. Bit(f.kind \in OwnsCells) = Bit(top.kind \in OwnsCells)
            /\ Bit(top.kind \in OwnsCells) \in {0, 1}
        BY <2>2, <2>4 DEF Bit
      <4> QED
        BY <3>5, <3>6, <3>7, <3>8, <4>1 DEF Less, o
    <3>11. m + Bit(f.kind \in OwnsFrame) = methods
      <4>1. Bit(f.kind \in OwnsFrame) = Bit(top.kind \in OwnsFrame)
            /\ Bit(top.kind \in OwnsFrame) \in {0, 1}
        BY <2>2, <2>4 DEF Bit
      <4> QED
        BY <3>5, <3>6, <3>7, <3>8, <4>1 DEF Less, m
    <3>12. b + Bit(f.kind \in OwnsSource) = bodies'
      BY <2>1, <2>2, <2>4, <3>5 DEF Less, Bit, b
    <3>13. Mirror(Append(low, f), Bit(phase = "running"), Less(calls, 1) + 1, 0,
                  Append(before, e), o + Bit(f.kind \in OwnsCells),
                  b + Bit(f.kind \in OwnsSource), m + Bit(f.kind \in OwnsFrame))
      BY <1>5, <2>1, <2>2, <2>3, <3>1, <3>3, MirrorCall
    <3>14. Mirror(rust', Bit(phase' = "running"), calls', exprs', saved', owners', bodies', methods')
      BY <2>1, <2>2, <3>4, <3>9, <3>10, <3>11, <3>12, <3>13
    <3> QED
      BY <3>14 DEF Then
  <2> QED
    BY <1>2, <1>3, <2>1, <2>5
<1> QED
  BY <1>7, <1>8, <1>9, <1>10, <1>11, <1>12, <1>13, <1>14, <1>15, <1>17, <1>18, <1>19,
     <1>20, <1>21, <1>23, <1>24, <1>25 DEF Next, Step

(* The stack of Limits and the one the lemmas speak of are the same. *)
LEMMA MirrorsBalance == BalancedInv => Balanced
<1>1. \A kinds : InProgress(kinds) = At(rust, kinds)
  BY DEF InProgress, At
<1>2. OpenHere = OpenIn(rust)
  BY <1>1 DEF OpenHere, OpenIn
<1> QED
  BY <1>1, <1>2 DEF BalancedInv, Balanced, Mirror, Count

(* While no run is dropped, call_depth, expr_depth, saved_expr_depth and    *)
(* the per-frame stacks say what the evaluator's own stack says, after any  *)
(* mix of returns, errors, handlers and entries that failed: the limits on  *)
(* recursion and nesting limit what they mean to (enter_call, exit_call,    *)
(* call_user_function_inner, call_lambda_inner, call_method_inner).         *)
THEOREM CountersMirrorStack == Spec => []Balanced
<1>1. TypeOK /\ BalancedInv /\ [Next]_vars => BalancedInv'
  BY BalancedNext
<1> QED
  BY <1>1, BalancedInit, MirrorsBalance, TypeCorrect, PTL DEF Spec

(* The recursion limit is one on calls, not on the counter: never are more  *)
(* than max_recursion_depth calls of the program in progress, and the       *)
(* innermost has no more than that many expressions and blocks open.        *)
THEOREM CallsAreLimited ==
    Spec => [](~program.cancelled => /\ Count(Calls) <= MaxDepth
                                     /\ Cardinality(OpenHere) <= MaxDepth)
<1>1. TypeOK /\ Balanced => (~program.cancelled => /\ Count(Calls) <= MaxDepth
                                                   /\ Cardinality(OpenHere) <= MaxDepth)
  BY LimitFacts DEF TypeOK, Balanced
<1> QED
  BY <1>1, TypeCorrect, CountersMirrorStack, PTL
=============================================================================
