-------------------------------- MODULE Values ---------------------------------
(***************************************************************************)
(* Equality, order, identity, hashing and dictionary keys of the values:    *)
(* the slots of types.rs, the comparators of eval/operations.rs, the keys   *)
(* of value.rs and eval/literals.rs.  Numbers are kept exactly, in scaled   *)
(* widths: an Int has IntBits bits, a float a mantissa of MantissaBits      *)
(* bits and no digit below a quarter, a hash is taken modulo                *)
(* 2^HashBits - 1, a Mersenne prime as in the code.  Text is a token.       *)
(***************************************************************************)
EXTENDS Integers, Sequences, FiniteSets, SequencesExt

CONSTANTS IntBits, MantissaBits, HashBits, ChunkBits

ASSUME WidthsAssumption ==
  IntBits \in Nat \ {0} /\ MantissaBits \in Nat \ {0} /\ HashBits \in Nat \ {0} /\ ChunkBits \in 1 .. HashBits

MaxInt == 2 ^ (IntBits - 1) - 1
MinInt == - 2 ^ (IntBits - 1)
FitsInt(n) == n \in MinInt .. MaxInt
Magnitude(n) == IF n < 0 THEN - n ELSE n
Signed(neg, h) == IF neg THEN - h ELSE h
BitLength(n) == CHOOSE k \in 0 .. 30 : 2 ^ k > n /\ (k = 0 \/ 2 ^ (k - 1) <= n)

(***************************************************************************)
(* Values.  A float is a number of quarters (q) or one of nan, inf, ninf    *)
(* and nzero; a decimal is mant * 10^-scale or a special.                   *)
(***************************************************************************)
None == [k |-> "None"]
Bool(b) == [k |-> "Bool", n |-> b]
IntOf(n) == [k |-> IF FitsInt(n) THEN "Int" ELSE "BigInt", n |-> n]   \* int_from_bigint
FloatQ(q) == [k |-> "Float", c |-> "fin", q |-> q]
FloatC(c) == [k |-> "Float", c |-> c, q |-> 0]
Complex(re, im) == [k |-> "Complex", re |-> re, im |-> im]
Decimal(mant, scale) == [k |-> "Decimal", c |-> "fin", mant |-> mant, scale |-> scale]
DecimalC(c) == [k |-> "Decimal", c |-> c, mant |-> 0, scale |-> 0]
Fraction(num, den) == [k |-> "Fraction", num |-> num, den |-> den]
Str(s) == [k |-> "Str", s |-> s]
Tuple(items) == [k |-> "Tuple", items |-> items]
List(id, items) == [k |-> "List", id |-> id, items |-> items]
Enum(kind, class, name, value) == [k |-> "Enum", kind |-> kind, class |-> class, name |-> name, value |-> value]
DateTime(t, tz) == [k |-> "DateTime", t |-> t, tz |-> tz]     \* tz: -1 for naive, else the offset
Naive == -1

IsInt(v) == v.k \in {"Bool", "Int", "BigInt"}
IsReal(v) == IsInt(v) \/ v.k \in {"Float", "Decimal", "Fraction"}

(***************************************************************************)
(* Conversions between numbers.                                             *)
(***************************************************************************)
\* `as f64` and to_f64: round to the nearest mantissa, ties to even.
RoundsUp(low, rest, unit) == 2 * rest > unit \/ (2 * rest = unit /\ low % 2 = 1)
RoundTo(m, unit) == (m \div unit) * unit + (IF RoundsUp(m \div unit, m % unit, unit) THEN unit ELSE 0)
UnitOf(bits) == 2 ^ (IF bits > MantissaBits THEN bits - MantissaBits ELSE 0)
RoundQ(q) == Signed(q < 0, RoundTo(Magnitude(q), UnitOf(BitLength(Magnitude(q)))))
ToFloat(n) == FloatQ(RoundQ(4 * n))

\* exact_rational: <<numerator, denominator>> of a finite number.
Exact(v) ==
  CASE IsInt(v) -> <<v.n, 1>>
    [] v.k = "Float" -> <<v.q, 4>>
    [] v.k = "Decimal" -> IF v.scale >= 0 THEN <<v.mant, 10 ^ v.scale>> ELSE <<v.mant * 10 ^ (- v.scale), 1>>
    [] v.k = "Fraction" -> <<v.num, v.den>>
RatEq(x, y) == x[1] * y[2] = y[1] * x[2]
RatLt(x, y) == x[1] * y[2] < y[1] * x[2]

IsNaN(v) == v.k \in {"Float", "Decimal"} /\ v.c = "nan"
Finite(v) == v.k \in {"Float", "Decimal"} => v.c \in {"fin", "nzero"}
\* Where an infinity ranks among the finite numbers.
Rank(v) == IF Finite(v) THEN 0 ELSE IF v.c = "inf" THEN 1 ELSE -1

\* IEEE == and < on floats.
FloatEq(a, b) == ~ IsNaN(a) /\ ~ IsNaN(b) /\ Rank(a) = Rank(b) /\ (Finite(a) => a.q = b.q)
FloatLt(a, b) == ~ IsNaN(a) /\ ~ IsNaN(b) /\ (Rank(a) < Rank(b) \/ (Finite(a) /\ Finite(b) /\ a.q < b.q))

value_to_complex(v) == IF v.k = "Complex" THEN v
                       ELSE Complex(IF v.k = "Float" THEN v ELSE ToFloat(v.n), FloatQ(0))
CanBeComplex(v) == v.k \in {"Complex", "Float", "Bool", "Int", "BigInt"}

(***************************************************************************)
(* Equality slots: "T", "F", or "NI" when the slot leaves it to the other.  *)
(***************************************************************************)
Said(b) == IF b THEN "T" ELSE "F"

none_eq(a, b) == Said(b.k = "None")
bool_eq(a, b) ==
  CASE IsInt(b) -> Said(a.n = b.n)
    [] b.k = "Float" -> Said(FloatEq(b, ToFloat(a.n)))
    [] OTHER -> "NI"
int_eq(a, b) ==
  CASE ~ IsInt(a) -> "NI"
    [] IsInt(b) -> Said(a.n = b.n)
    [] b.k = "Float" -> Said(FloatEq(b, ToFloat(a.n)))
    [] OTHER -> "NI"
float_eq(a, b) ==
  CASE b.k = "Float" -> Said(FloatEq(a, b))
    [] b.k \in {"Bool", "Int"} -> Said(FloatEq(a, ToFloat(b.n)))
    [] OTHER -> "NI"
complex_eq(a, b) ==
  IF "Complex" \notin {a.k, b.k} THEN "NI"
  ELSE Said(/\ CanBeComplex(a) /\ CanBeComplex(b)
            /\ FloatEq(value_to_complex(a).re, value_to_complex(b).re)
            /\ FloatEq(value_to_complex(a).im, value_to_complex(b).im))
str_eq(a, b) == IF b.k = "Str" THEN Said(a.s = b.s) ELSE "NI"
\* decimal_operand_kind: only a Decimal is special here; a float inf is not.
DecSpecial(v) == v.k = "Decimal" /\ v.c # "fin"
decimal_eq(a, b) ==
  CASE DecSpecial(a) \/ DecSpecial(b) -> Said(DecSpecial(a) /\ DecSpecial(b) /\ a.c = b.c /\ a.c # "nan")
    [] b.k \in {"Float", "Fraction"} -> IF a.k = "Decimal" /\ Finite(b) THEN Said(RatEq(Exact(a), Exact(b))) ELSE "NI"
    [] (IsInt(a) \/ a.k = "Decimal") /\ (IsInt(b) \/ b.k = "Decimal") -> Said(RatEq(Exact(a), Exact(b)))
    [] OTHER -> "NI"
fraction_eq(a, b) ==
  CASE ~ (IsInt(a) \/ a.k = "Fraction") -> "NI"
    [] b.k \in {"Float", "Decimal"} -> Said(Finite(b) /\ RatEq(Exact(a), Exact(b)))
    [] IsInt(b) \/ b.k = "Fraction" -> Said(RatEq(Exact(a), Exact(b)))
    [] OTHER -> "NI"

RECURSIVE values_equal(_, _), recurse_eq(_, _)

Elementwise(a, b, R(_, _)) == Len(a) = Len(b) /\ \A i \in DOMAIN a : R(a[i], b[i])

\* values_equal: the second comparator, which object_eq and `is` go through.
Unwraps(v) == v.k = "Enum" /\ v.kind \in {"Int", "Str"}
values_equal(a, b) ==
  CASE a.k = "Enum" /\ b.k = "Enum" -> a.class = b.class /\ a.name = b.name
    [] Unwraps(a) -> values_equal(a.value, b)
    [] Unwraps(b) -> values_equal(a, b.value)
    [] a.k = "None" /\ b.k = "None" -> TRUE
    [] a.k \in {"Bool", "Int"} /\ b.k \in {"Bool", "Int"} -> a.n = b.n
    [] a.k = "Float" /\ b.k = "Float" -> FloatEq(a, b)
    [] a.k = "Float" /\ b.k \in {"Bool", "Int"} -> FloatEq(a, ToFloat(b.n))
    [] a.k \in {"Bool", "Int"} /\ b.k = "Float" -> FloatEq(ToFloat(a.n), b)
    [] a.k = "Str" /\ b.k = "Str" -> a.s = b.s
    [] a.k = "List" /\ b.k = "List" -> a.id = b.id \/ Elementwise(a.items, b.items, values_equal)
    [] a.k = "Tuple" /\ b.k = "Tuple" -> Elementwise(a.items, b.items, values_equal)
    [] a.k = "DateTime" /\ b.k = "DateTime" ->
         (a.tz = Naive) = (b.tz = Naive) /\ a.t - (IF a.tz = Naive THEN 0 ELSE a.tz) = b.t - (IF b.tz = Naive THEN 0 ELSE b.tz)
    [] OTHER -> FALSE

\* The eq_slot of a's type, asked about b.
EqSlot(a, b) ==
  CASE a.k = "None" -> none_eq(a, b)
    [] a.k = "Bool" -> bool_eq(a, b)
    [] a.k \in {"Int", "BigInt"} -> int_eq(a, b)
    [] a.k = "Float" -> float_eq(a, b)
    [] a.k = "Complex" -> complex_eq(a, b)
    [] a.k = "Decimal" -> decimal_eq(a, b)
    [] a.k = "Fraction" -> fraction_eq(a, b)
    [] a.k = "Str" -> str_eq(a, b)
    [] a.k = "List" -> IF b.k = "List" THEN Said(a.id = b.id \/ Elementwise(a.items, b.items, recurse_eq)) ELSE "NI"
    [] a.k = "Tuple" -> IF b.k = "Tuple" THEN Said(Elementwise(a.items, b.items, recurse_eq)) ELSE "NI"
    [] OTHER -> Said(values_equal(a, b))       \* object_eq

\* The left slot, then the right one, then unequal.
TwoSided(left, right) == IF left # "NI" THEN left = "T" ELSE right = "T"
recurse_eq(a, b) == TwoSided(EqSlot(a, b), EqSlot(b, a))

(***************************************************************************)
(* Order: "T", "F", "NI", or the exception raised.                          *)
(***************************************************************************)
IntFloatLt(a, b) ==       \* bool_lt, int_lt and float_lt
  CASE IsInt(a) /\ IsInt(b) -> Said(a.n < b.n)
    [] IsInt(a) /\ b.k = "Float" -> Said(FloatLt(ToFloat(a.n), b))
    [] a.k = "Float" /\ IsInt(b) -> Said(FloatLt(a, ToFloat(b.n)))
    [] a.k = "Float" /\ b.k = "Float" -> Said(FloatLt(a, b))
    [] OTHER -> "NI"
tower_lt(a, b) ==         \* tower_partial_cmp = Less
  ~ IsNaN(a) /\ ~ IsNaN(b) /\ IF Rank(a) = 0 /\ Rank(b) = 0 THEN RatLt(Exact(a), Exact(b)) ELSE Rank(a) < Rank(b)
decimal_lt(a, b) ==
  CASE DecSpecial(a) \/ DecSpecial(b) ->
         IF (DecSpecial(a) /\ a.c = "nan") \/ (DecSpecial(b) /\ b.c = "nan") THEN "InvalidOperation"
         ELSE Said((IF DecSpecial(a) THEN Rank(a) ELSE 0) < (IF DecSpecial(b) THEN Rank(b) ELSE 0))
    [] {a.k, b.k} \in {{"Decimal", "Float"}, {"Decimal", "Fraction"}} -> Said(tower_lt(a, b))
    [] (IsInt(a) \/ a.k = "Decimal") /\ (IsInt(b) \/ b.k = "Decimal") -> Said(RatLt(Exact(a), Exact(b)))
    [] OTHER -> "NI"
fraction_lt(a, b) ==
  CASE {a.k, b.k} \in {{"Fraction", "Float"}, {"Fraction", "Decimal"}} -> Said(tower_lt(a, b))
    [] (IsInt(a) \/ a.k = "Fraction") /\ (IsInt(b) \/ b.k = "Fraction") -> Said(RatLt(Exact(a), Exact(b)))
    [] OTHER -> "NI"
datetime_lt(a, b) ==
  CASE b.k # "DateTime" \/ a.k # "DateTime" -> "NI"
    [] (a.tz = Naive) # (b.tz = Naive) -> "TypeError"
    [] a.tz = Naive -> Said(a.t < b.t)
    [] OTHER -> Said(a.t - a.tz < b.t - b.tz)

RECURSIVE dispatch_lt(_, _)

\* lex_lt: the first unequal pair decides, else the shorter is less.
lex_lt(a, b) ==
  LET short == IF Len(a) < Len(b) THEN Len(a) ELSE Len(b)
      i == SelectInSeq([j \in 1 .. short |-> j], LAMBDA j : ~ recurse_eq(a[j], b[j]))
  IN  IF i = 0 THEN Said(Len(a) < Len(b)) ELSE dispatch_lt(a[i], b[i])

LtSlot(s, a, b) ==        \* the lt_slot of s's type on a < b
  CASE IsInt(s) \/ s.k = "Float" -> IF s.k = "Bool" /\ (a.k # "Bool" \/ b.k = "BigInt") THEN "NI" ELSE IntFloatLt(a, b)
    [] s.k = "Decimal" -> decimal_lt(a, b)
    [] s.k = "Fraction" -> fraction_lt(a, b)
    [] s.k = "Str" -> IF a.k = "Str" /\ b.k = "Str" THEN Said(a.s < b.s) ELSE "NI"
    [] s.k \in {"List", "Tuple"} ->
         CASE a.k # s.k \/ b.k # s.k -> "NI"
           [] s.k = "List" /\ a.id = b.id -> "F"
           [] OTHER -> lex_lt(a.items, b.items)
    [] s.k = "DateTime" -> datetime_lt(a, b)
    [] OTHER -> "NI"

OrElse(first, second) == IF first # "NI" THEN first ELSE IF second # "NI" THEN second ELSE "TypeError"
unwrap_enum_for_compare(v) == IF Unwraps(v) THEN v.value ELSE v
dispatch_lt(x, y) ==
  LET a == unwrap_enum_for_compare(x)
      b == unwrap_enum_for_compare(y)
  IN  OrElse(LtSlot(a, a, b), LtSlot(b, a, b))

\* compare_builtin: > and >= swap the operands; <= and >= are < or ==, so a
\* raising < raises.
OrEqual(op, lt, a, b) == IF op \in {"<=", ">="} /\ lt = "F" THEN Said(recurse_eq(a, b)) ELSE lt
Lesser(op, a, b) == IF op \in {"<", "<="} THEN <<a, b>> ELSE <<b, a>>
compare_builtin(op, a, b) ==
  IF op \in {"==", "!="} THEN Said(recurse_eq(a, b) # (op = "!="))
  ELSE OrEqual(op, dispatch_lt(Lesser(op, a, b)[1], Lesser(op, a, b)[2]), a, b)

\* values_is: the identity of what a value is stored in; for the immutable
\* values, equality by values_equal within one numeric type.
numeric_is_kind(v) == CASE v.k = "Bool" -> 0 [] v.k \in {"Int", "BigInt"} -> 1 [] v.k = "Float" -> 2
                        [] v.k = "Complex" -> 3 [] OTHER -> 4
values_is(a, b) ==
  CASE a.k = "List" /\ b.k = "List" -> a.id = b.id
    [] a.k = "List" \/ b.k = "List" -> FALSE
    [] numeric_is_kind(a) # 4 /\ numeric_is_kind(b) # 4 /\ numeric_is_kind(a) # numeric_is_kind(b) -> FALSE
    [] OTHER -> values_equal(a, b)

(***************************************************************************)
(* Hashes.  A hash is <<family, parts>>: numbers hash to one family by      *)
(* arithmetic, text, tuples and instants each to their own.                 *)
(***************************************************************************)
HashModulus == 2 ^ HashBits - 1
HashInf == HashModulus + 1            \* 314159: a constant no residue equals
finalize_hash(h) == IF h = -1 THEN -2 ELSE h

int_hash_impl(n) == Signed(n < 0, Magnitude(n) % HashModulus)

Rotate(x, by) == ((x * 2 ^ by) % (2 ^ HashBits)) + (x \div (2 ^ (HashBits - by)))
\* Mutant: the exponent is reduced without its sign.
ExpAdjustUnsigned(e) == Magnitude(e) % HashBits
ExpAdjust(e) == IF e >= 0 THEN e % HashBits ELSE HashBits - 1 - ((- 1 - e) % HashBits)

\* One turn of the loop of float_hash_impl on the mantissa m / 2^bits.
HashChunk(acc, bits) ==
  IF acc.m = 0 THEN acc
  ELSE LET y == (acc.m * 2 ^ ChunkBits) \div 2 ^ bits
           x == Rotate(acc.x, ChunkBits) + y
       IN  [m |-> (acc.m * 2 ^ ChunkBits) % 2 ^ bits, e |-> acc.e - ChunkBits,
            x |-> IF x >= HashModulus THEN x - HashModulus ELSE x]
HashOf(last) == Rotate(last.x, ExpAdjust(last.e))
HashMantissa(m, bits) ==
  HashOf(FoldLeft(LAMBDA acc, i : HashChunk(acc, bits), [m |-> m, e |-> bits - 2, x |-> 0], [i \in 1 .. bits |-> i]))
float_hash_impl(f) ==
  CASE f.c = "nan" -> 0
    [] f.c = "inf" -> HashInf
    [] f.c = "ninf" -> - HashInf
    [] OTHER -> Signed(f.q < 0, HashMantissa(Magnitude(f.q), BitLength(Magnitude(f.q))))

powmod(b, e) == FoldLeft(LAMBDA r, i : (r * b) % HashModulus, 1, [i \in 1 .. e |-> i])
\* Fermat: d^(p-2) inverts d modulo the prime p.
rational_hash(n, d, neg) ==
  finalize_hash(Signed(neg, IF d = 0 THEN HashInf ELSE (n * powmod(d, HashModulus - 2)) % HashModulus))
decimal_hash(v) ==
  LET m == Magnitude(v.mant) % HashModulus
  IN  IF v.scale >= 0 THEN rational_hash(m, powmod(10, v.scale), v.mant < 0)
      ELSE rational_hash((m * powmod(10, - v.scale)) % HashModulus, 1, v.mant < 0)
fraction_hash(v) == rational_hash(Magnitude(v.num) % HashModulus, v.den % HashModulus, v.num < 0)

NumberHash(v) ==
  <<"number", <<CASE IsInt(v) -> finalize_hash(int_hash_impl(v.n))
                  [] v.k = "Float" -> finalize_hash(float_hash_impl(v))
                  [] v.k = "Complex" -> finalize_hash(float_hash_impl(v.re) + 1000003 * float_hash_impl(v.im))
                  [] v.k = "Decimal" -> decimal_hash(v)
                  [] v.k = "Fraction" -> fraction_hash(v)>> >>

NoHash == <<"none", <<>> >>
RECURSIVE python_hash(_)
python_hash(v) ==
  CASE v.k = "None" -> <<"None", <<>> >>
    [] IsReal(v) \/ v.k = "Complex" -> NumberHash(v)
    [] v.k = "Str" -> <<"str", <<v.s>> >>
    [] v.k = "DateTime" /\ v.tz = Naive -> <<"instant", <<v.t>> >>
    [] v.k = "Tuple" -> LET parts == [i \in DOMAIN v.items |-> python_hash(v.items[i])]
                        IN  IF NoHash \in ToSet(parts) THEN NoHash ELSE <<"tuple", parts>>
    [] OTHER -> NoHash

(***************************************************************************)
(* Dictionary keys.                                                         *)
(***************************************************************************)
Unhashable == [k |-> "unhashable"]
bigint_to_key(n) == IntOf(n)
NormZero(f) == IF f.c = "nzero" THEN FloatQ(0) ELSE f
RECURSIVE value_to_key(_)
value_to_key(v) ==
  CASE v.k \in {"None", "Bool", "Int", "BigInt", "Float", "Str", "DateTime"} -> v
    [] v.k = "Complex" -> IF FloatEq(v.im, FloatQ(0)) THEN v.re ELSE Complex(NormZero(v.re), NormZero(v.im))
    [] v.k = "Tuple" -> LET keys == [i \in DOMAIN v.items |-> value_to_key(v.items[i])]
                        IN  IF \E i \in DOMAIN keys : keys[i].k = "unhashable" THEN Unhashable ELSE Tuple(keys)
    [] v.k = "Decimal" -> IF Exact(v)[1] % Exact(v)[2] = 0 THEN bigint_to_key(Exact(v)[1] \div Exact(v)[2]) ELSE v
    [] v.k = "Fraction" -> IF v.num % v.den = 0 THEN bigint_to_key(v.num \div v.den) ELSE v
    [] v.k = "Enum" -> IF v.kind \in {"Int", "IntFlag", "Str"} THEN value_to_key(v.value) ELSE v
    [] OTHER -> Unhashable

\* float_key_i64: the Int a float key equals, if any.  The cast to i64
\* saturates, and its result is kept when it converts back to the float.
Saturated(n) == IF n > MaxInt THEN MaxInt ELSE IF n < MinInt THEN MinInt ELSE n
FloatKey(f) == Saturated(f.q \div 4)
IntegralFloat(f) == f.c \in {"fin", "nzero"} /\ f.q % 4 = 0 /\ ToFloat(FloatKey(f)).q = f.q
FloatIsInt(f, n) == IntegralFloat(f) /\ FloatKey(f) = n

RECURSIVE KeyEq(_, _), KeyHash(_)
KeyEq(a, b) ==
  CASE IsInt(a) /\ IsInt(b) -> a.n = b.n
    [] a.k = "Float" /\ IsInt(b) -> FloatIsInt(a, b.n)
    [] IsInt(a) /\ b.k = "Float" -> FloatIsInt(b, a.n)
    [] a.k # b.k -> FALSE
    [] a.k \in {"Decimal", "Fraction"} -> RatEq(Exact(a), Exact(b))
    [] a.k = "Tuple" -> Elementwise(a.items, b.items, KeyEq)
    [] a.k \in {"Enum", "DateTime"} -> values_equal(a, b)
    [] OTHER -> a = b        \* None, text, and the bits of a float or a complex

\* The reduced numerator and denominator, as normalized() leaves them.
Divides(d, r) == r[1] % d = 0 /\ r[2] % d = 0
CommonDivisor(r) == CHOOSE d \in 1 .. r[2] : Divides(d, r) /\ \A x \in (d + 1) .. r[2] : ~ Divides(x, r)
Over(r, d) == <<r[1] \div d, r[2] \div d>>
Reduced(r) == Over(r, CommonDivisor(r))
KeyHash(key) ==
  CASE IsInt(key) -> <<"numeric", <<key.n>> >>
    [] key.k = "Float" -> IF IntegralFloat(key) THEN <<"numeric", <<FloatKey(key)>> >> ELSE <<"float", <<key>> >>
    [] key.k \in {"Decimal", "Fraction"} -> <<key.k, Reduced(Exact(key))>>
    [] key.k = "Tuple" -> <<"tuple", [i \in DOMAIN key.items |-> KeyHash(key.items[i])]>>
    [] key.k = "DateTime" -> <<"instant", IF key.tz = Naive THEN <<0, key.t>> ELSE <<1, key.t - key.tz>> >>
    [] key.k = "Enum" -> <<"member", <<key.class, key.name>> >>
    [] OTHER -> <<key.k, <<key>> >>

\* hash(): the value's own slot, or the hash of its key.
RECURSIVE dispatch_hash(_)
dispatch_hash(v) ==
  CASE v.k = "Enum" /\ v.kind \in {"Int", "IntFlag", "Str"} -> dispatch_hash(v.value)
    [] v.k = "None" -> <<"number", <<0>> >>
    [] value_to_key(v).k = "unhashable" -> NoHash
    [] python_hash(v) # NoHash -> python_hash(v)
    [] OTHER -> KeyHash(value_to_key(v))

Hashable(v) == value_to_key(v).k # "unhashable"
================================================================================
