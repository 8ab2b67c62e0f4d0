-------------------------------- MODULE Language -------------------------------
(***************************************************************************)
(* The pure algorithms of the interpreter, checked against what they are    *)
(* meant to compute.  A behaviour runs one of them on one input: it         *)
(* compares, hashes and keys a pair of values, does a sum, walks a range,   *)
(* applies an operator to instances, stores instances in a dict.            *)
(***************************************************************************)
EXTENDS Operators

CONSTANTS Pairs,          \* <<a, b>>: values compared, hashed and used as keys
          Sums,           \* <<op, a, b>>: arithmetic
          Ranges,
          Objects,        \* <<op, a, b>>: operators on instances
          Protocols,      \* <<container, item>>: truth, len, iteration, membership, sorting
          KeyOrders       \* sequences of instances stored in one dict

VARIABLE case             \* [kind, in, out]

Start == [kind |-> "none"]
Ran(kind, input, output) == case' = [kind |-> kind, in |-> input, out |-> output]
CompareOps == {"==", "!=", "<", "<=", ">", ">="}

Ready == case = Start
RunPair ==
  /\ Ready
  /\ \E p \in Pairs :
       Ran("pair", p, [eq |-> recurse_eq(p[1], p[2]), is |-> values_is(p[1], p[2]), lt |-> dispatch_lt(p[1], p[2]), ge |-> compare_builtin(">=", p[1], p[2]),
                       hash |-> [i \in 1 .. 2 |-> dispatch_hash(p[i])], order |-> [i \in 1 .. 2 |-> python_hash(p[i])],
                       key |-> [i \in 1 .. 2 |-> value_to_key(p[i])]])
\* The operations whose results a sum is checked with.
Partners(s) == CASE s[1] = "//" -> {"%"} [] s[1] = "&" -> {"|", "^"} [] OTHER -> {}
Mirrored(s) == IF IsSeq(s[2]) /\ IsInt(s[3]) THEN <<s[1], s[3], s[2]>> ELSE s
RunSum ==
  /\ Ready
  /\ \E s \in Sums :
       Ran("sum", s, [t \in {<<op, s[2], s[3]>> : op \in {s[1]} \cup Partners(s)} \cup {Mirrored(s)} |-> apply_binop(t[1], t[2], t[3])])
RunRange ==
  /\ Ready
  /\ \E r \in Ranges :
       Ran("range", r, [walk |-> range_iter(r), len |-> range_length(r), truth |-> is_truthy(r),
                        holds |-> {n \in MinInt .. MaxInt : range_contains(r, n)}])
Comparisons(l, r) == (CompareOps \X {l} \X {r}) \cup {<<">=", r, l>>}
RunObject ==
  /\ Ready
  /\ \E o \in Objects : \E plain \in {binop(o[1], o[2], o[3])} :
       Ran("object", o, [binop |-> plain, aug |-> aug_binop(o[1], o[2], o[3], plain),
                         compare |-> [q \in Comparisons(o[2], o[3]) |-> compare(q[1], q[2], q[3])],
                         chain |-> eval_compare(o[2], << <<"<=", o[3]>>, <<">=", o[2]>> >>)])
Signs == {"-", "+", "~"}
RunProtocol ==
  /\ Ready
  /\ \E q \in Protocols :
       Ran("protocol", q, [truth |-> op_truthy(q[1]), len |-> op_len(q[1]), iter |-> op_iter(q[1]), in |-> contains(q[1], q[2]),
                           lt |-> op_lt(q[1], q[2]), less |-> compare("<", q[1], q[2]), sign |-> [u \in Signs |-> unaryop(u, q[2])]])
RunKeys ==
  /\ Ready
  /\ \E s \in KeyOrders :
       Ran("keys", s, FoldLeft(LAMBDA d, k : dict_insert_instance_key_pub(d, k, IntOf(k.id)), <<>>, s))

Init == case = Start
Next == RunPair \/ RunSum \/ RunRange \/ RunObject \/ RunProtocol \/ RunKeys
Spec == Init /\ [][Next]_case

Picked(kind) == case.kind = kind

(***************************************************************************)
(* Values.                                                                  *)
(***************************************************************************)
Usable(key) == key.k # "unhashable"

\* Where value_to_key and == are known to part: see the README.
KeyGap(v) == v.k = "Float" /\ Finite(v) /\ ~ FitsInt(v.q \div 4)
OneKeyGap(a, b) == {a.k, b.k} \in {{x, y} : x \in {"Enum", "Complex"}, y \in {"Decimal", "Fraction"}} \cup {{"Enum", "Complex"}}
IntegralReal(v) == IsReal(v) /\ Finite(v) /\ Exact(v)[1] % Exact(v)[2] = 0
Integral(v) == IF v.k = "Complex" THEN v.im.q = 0 /\ IntegralReal(v.re) ELSE IntegralReal(v)
OneKind(a, b) == a.k = b.k \/ (IsInt(a) /\ IsInt(b)) \/ "Enum" \in {a.k, b.k}
\* Equal numbers that are not integral, of two types, are two keys.
MixedPart(a, b) == ~ Integral(a) /\ ~ OneKind(a, b)
AgreeOn(a, b, x, y, eq) ==
  /\ KeyEq(x, y) => KeyHash(x) = KeyHash(y)
  /\ KeyEq(x, y) => eq \/ IsNaN(a) \/ OneKeyGap(a, b)
  /\ eq /\ ~ MixedPart(a, b) => KeyEq(x, y)

HashAlike(hash, order) == hash[1] = hash[2] /\ (NoHash \notin {order[1], order[2]} => order[1] = order[2])

\* What is one object is ==; what is == hashes alike, by the hash slots and by
\* the hash that orders sets.  Keys that are equal hash alike and stand for
\* values that are ==, except a NaN's own key and those of an int enum, a
\* complex and a decimal or fraction, which are keys of the int and not == to
\* each other (OneKeyGap); and values that are ==
\* are one key if they are integral (2, 2.0, 2+0j, Decimal("2.0") and
\* Fraction(2) alike) or of one type.  Equal numbers of two types that are not
\* integral (MixedPart) and floats beyond the width (KeyGap) are keys of their
\* own in the code, although they hash alike, and are left out.  (An int, a float, a
\* decimal and a fraction reach their residue by four computations,
\* value_to_key folds numbers, and ValueKey's Eq and Hash are two more
\* hand-written tables.)  A dict of instances keeps one entry per class of
\* equal keys, and finds it.
KeysAgree ==
  /\ Picked("pair") => (case.out.is => case.out.eq)
  /\ Picked("pair") /\ case.out.eq /\ Usable(case.out.key[1]) /\ Usable(case.out.key[2]) => HashAlike(case.out.hash, case.out.order)
  /\ Picked("pair") /\ Usable(case.out.key[1]) /\ Usable(case.out.key[2]) /\ ~ KeyGap(case.in[1]) /\ ~ KeyGap(case.in[2]) =>
       AgreeOn(case.in[1], case.in[2], case.out.key[1], case.out.key[2], case.out.eq)
  /\ Picked("keys") =>
       /\ \A i, j \in DOMAIN case.out : i # j => ~ SameKey(case.out[i][1], case.out[j][1])
       /\ \A i \in DOMAIN case.in : dict_get_instance_key(case.out, case.in[i]) # NoSlot

(***************************************************************************)
(* Numbers.                                                                 *)
(***************************************************************************)
Comparable(a, b) == IsReal(a) /\ IsReal(b) /\ Finite(a) /\ Finite(b)

RatAdd(x, y) == <<x[1] * y[2] + y[1] * x[2], x[2] * y[2]>>
RatMul(x, y) == <<x[1] * y[1], x[2] * y[2]>>
Negated(x) == <<- x[1], x[2]>>
Power(n, e) == IF e = 0 THEN 1 ELSE n ^ e
Ring(op, x, y) == CASE op = "+" -> RatAdd(x, y) [] op = "-" -> RatAdd(x, Negated(y)) [] op = "*" -> RatMul(x, y)
SumIsExact(op, a, b, r, out) ==
  LET of == [o \in {"%", "|", "^"} |-> out[<<o, a, b>>]]
      exact == Comparable(a, b) /\ ~ either_is_float(a, b) /\ r.k # "Raise"
      ints == IsInt(a) /\ IsInt(b) /\ r.k # "Raise"
  IN  /\ r.k \in {"Int", "BigInt"} => (r.k = "Int" <=> FitsInt(r.n))
      /\ exact /\ op \in {"+", "-", "*"} => RatEq(Exact(r), Ring(op, Exact(a), Exact(b)))
      /\ exact /\ op = "//" => RatEq(RatAdd(RatMul(Exact(b), Exact(r)), Exact(of["%"])), Exact(a))
      /\ ints /\ op = "%" => IF b.n > 0 THEN r.n \in 0 .. (b.n - 1) ELSE r.n \in (b.n + 1) .. 0
      /\ ints /\ op = "&" => r.n + of["|"].n = a.n + b.n /\ of["^"].n = of["|"].n - r.n
      /\ IsInt(a) /\ IsInt(b) /\ op = "**" => (b.n \in 0 .. MaxExponent => r = int_from_bigint_limited(Power(a.n, b.n)))

\* The numbers of a range, and where its routines leave the width.
Progression(r) ==
  [i \in 1 .. Cardinality({k \in 0 .. 2 ^ IntBits : RangeGoesOn(r, r.start + k * r.step)}) |-> r.start + (i - 1) * r.step]
LengthFits(r) == FitsInt(- r.step) /\ FitsInt(IF r.step > 0 THEN r.stop - r.start + r.step - 1 ELSE r.start - r.stop - r.step - 1)
WalkFits(r) == FitsInt(r.start + Len(Progression(r)) * r.step)
RangeIsProgression(r, out) ==
  /\ Len(Progression(r)) > MaxSize => out.walk = Raise("LimitExceeded")
  /\ Len(Progression(r)) <= MaxSize /\ WalkFits(r) => out.walk = Items(Progression(r))
  /\ LengthFits(r) => out.len = Len(Progression(r))
  /\ FitsInt(r.stop - r.start) => out.holds = ToSet(Progression(r))
  /\ out.truth <=> Progression(r) # <<>>

TowerIsExact(x, y, out) == (out.eq <=> RatEq(x, y)) /\ out.lt = Said(RatLt(x, y)) /\ out.ge = Said(~ RatLt(x, y))

\* Numbers are exact at every width and across types: ==, < and >= of two finite
\* numbers are those of the rationals they stand for; an integer result is an
\* Int when it fits and a BigInt otherwise (never a BigInt that fits, which the
\* fast paths would take for another number); the ring operations give the exact
\* number, // and % split the dividend with the divisor's sign, & | ^ agree with
\* +, ** refuses exactly what exceeds max_int_bits, and a sequence repeats the
\* same way with the count on either side.  A range up to the edges of the
\* width is its arithmetic progression, each routine as long as its own sums
\* fit: range_iter while one step past the last item does, range_length while
\* the span and a step less one do, range_contains while the span does; and
\* a walk too long is refused whether or not they do.
NumbersAreExact ==
  /\ Picked("pair") /\ Comparable(case.in[1], case.in[2]) => TowerIsExact(Exact(case.in[1]), Exact(case.in[2]), case.out)
  /\ Picked("sum") => SumIsExact(case.in[1], case.in[2], case.in[3], case.out[case.in], case.out)
  /\ Picked("sum") /\ case.in[1] = "*" /\ IsSeq(case.in[2]) /\ IsInt(case.in[3]) => case.out[Mirrored(case.in)] = case.out[case.in]
  /\ Picked("range") => RangeIsProgression(case.in, case.out)

(***************************************************************************)
(* Operators on instances.                                                  *)
(***************************************************************************)
Ordered(l, r) == same_class(l, r) /\ (Classes[l.class].order \/ Classes[l.class].total)
FitTogether(out) ==
  /\ Cardinality({o \in {"<", "==", ">"} : out[o].out = "T"}) = 1
  /\ out["<="].out = Said("T" \in {out["<"].out, out["=="].out})
  /\ out[">="].out = Said("T" \in {out[">"].out, out["=="].out})
MeetsPython(op, l, r, out) ==
  LET answer == [o \in CompareOps |-> out.compare[<<o, l, r>>]]
  IN  /\ ~ ProperSubclass(r, l) /\ (IsInstance(l) \/ IsInstance(r)) => out.binop = PyBinop(op, l, r)
      /\ ~ ProperSubclass(r, l) => \A o \in CompareOps : answer[o] = PyCompare(o, l, r)
      /\ out.aug = out.binop \/ HasSlot(l, inplace_arith_slot(op)) \/ (l.k = "List" /\ out.aug.out.id = l.id)
      /\ l.k = "List" /\ r.k = "List" /\ op = "+" => out.aug.out.items = out.binop.out.items
      /\ answer["!="].out # answer["=="].out
      /\ Ordered(l, r) => FitTogether(answer)
      /\ out.chain = "T" <=> answer["<="].out = "T" /\ out.compare[<<">=", r, l>>].out = "T"

\* Truth follows len, len counts what iteration gives, `in' finds what iteration
\* gives, sorting orders as < does where a slot or the fields decide.
Slots(v, names) == \E s \in names : HasSlot(v, <<"protocol", s>>)
Decides(l, r) == IsInstance(l) /\ (OrderedData(l, r) \/ invoke_slot(l, <<"compare", "<">>, r) \notin {NoSlot, NotImplemented})
ProtocolsFit(c, x, out) ==
  /\ ~ Slots(c, {"bool"}) /\ out.len.k = "Int" => out.truth = Said(out.len.n > 0)
  /\ ~ IsInstance(c) /\ out.iter.k = "items" => out.len = IntOf(Len(out.iter.items))
  /\ ~ Slots(c, {"contains"}) /\ out.iter.k = "items" => out.in = Said(\E i \in DOMAIN out.iter.items : op_eq(out.iter.items[i], x))
  /\ out.iter.k = "items" \/ out.iter.e = "LimitExceeded" <=> Slots(c, {"iter", "getitem"}) \/ c.k \in {"List", "Tuple", "Range"}
  /\ Decides(c, x) => out.lt = out.less.out
  /\ IsInt(x) => out.sign["~"].out.n = out.sign["-"].out.n - 1 /\ unaryop("-", out.sign["-"].out).out = out.sign["+"].out

\* An operator calls the methods Python calls, in its order, and returns what
\* they return; the six comparisons of an ordered class fit together, whichever
\* of them the class defines; and the protocols that share methods (truth and
\* len, iteration and membership, sorting and <, + and +=) agree.
OperatorsMeetPython ==
  /\ Picked("object") => MeetsPython(case.in[1], case.in[2], case.in[3], case.out)
  /\ Picked("protocol") => ProtocolsFit(case.in[1], case.in[2], case.out)
================================================================================
