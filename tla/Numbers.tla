-------------------------------- MODULE Numbers --------------------------------
(***************************************************************************)
(* The arithmetic of the built-in values: apply_binop of eval/operations.rs *)
(* and the arith slots of types.rs, with ranges and truth.  An Int that     *)
(* outgrows its width becomes a BigInt and comes back when it fits; floats, *)
(* decimals and fractions mix by the rules of the code.  Float infinities   *)
(* and signed zeros do not occur here: Values has them.                     *)
(***************************************************************************)
EXTENDS Values

CONSTANTS MaxIntBits,        \* the limit max_int_bits
          MaxExponent,       \* 1_000_000: exponents and shifts beyond are refused
          MaxSize,           \* MAX_STRING_SIZE and MAX_COLLECTION_SIZE
          DecimalPlaces      \* digits a decimal quotient keeps after the point

ASSUME NumbersAssumption ==
  MaxIntBits \in Nat /\ MaxExponent \in Nat /\ MaxSize \in Nat /\ DecimalPlaces \in Nat

Raise(e) == [k |-> "Raise", e |-> e]
NI == [k |-> "NI"]
Bytes(items) == [k |-> "Bytes", items |-> items]
Text(items) == [k |-> "Str", items |-> items]
PyRange(start, stop, step) == [k |-> "Range", start |-> start, stop |-> stop, step |-> step]

IsSeq(v) == v.k \in {"Str", "Bytes", "List", "Tuple"}
IsSmall(v) == v.k \in {"Int", "Bool"}
is_numeric(v) == IsInt(v) \/ v.k = "Float"
either_is_float(l, r) == l.k = "Float" \/ r.k = "Float"

(***************************************************************************)
(* Integers.                                                                *)
(***************************************************************************)
TruncDiv(a, b) == Signed((a < 0) # (b < 0), Magnitude(a) \div Magnitude(b))
TruncMod(a, b) == a - b * TruncDiv(a, b)
python_floordiv(a, b) == IF TruncMod(a, b) # 0 /\ (TruncMod(a, b) < 0) # (b < 0) THEN TruncDiv(a, b) - 1 ELSE TruncDiv(a, b)
\* Mutant: the machine's remainder, with the sign of the dividend.
ModTruncates(a, b) == TruncMod(a, b)
python_mod(a, b) == IF TruncMod(a, b) # 0 /\ (TruncMod(a, b) < 0) # (b < 0) THEN TruncMod(a, b) + b ELSE TruncMod(a, b)
div_floor(a, b) == IF b > 0 THEN a \div b ELSE (- a) \div (- b)         \* num_integer's
mod_floor(a, b) == a - b * div_floor(a, b)

\* The fast path leaves the one quotient that does not fit to the BigInts.
FastPath(l, r) == l.k = "Int" /\ r.k = "Int" /\ ~ (l.n = MinInt /\ r.n = -1)
\* checked_add, checked_sub, checked_mul: i64 when it fits, else BigInt.
int_add(l, r) == IntOf(l.n + r.n)
int_sub(l, r) == IntOf(l.n - r.n)
int_mul(l, r) == IntOf(l.n * r.n)

int_from_bigint_limited(n) == IF BitLength(Magnitude(n)) > MaxIntBits THEN Raise("OverflowError") ELSE IntOf(n)

IntPow(l, e) ==
  CASE e = 0 -> IntOf(1)
    [] e > MaxExponent -> Raise("OverflowError")
    [] BitLength(Magnitude(l)) >= 2 /\ (BitLength(Magnitude(l)) - 1) * e >= MaxIntBits -> Raise("OverflowError")
    [] OTHER -> int_from_bigint_limited(l ^ e)

\* Two's complement, bit by bit, wide enough for every operand.
BitsOf(n) == [i \in 0 .. (MaxIntBits + 1) |-> (n \div (2 ^ i)) % 2]
OfBits(b) == FoldLeft(LAMBDA s, i : s + b[i] * 2 ^ i, - b[MaxIntBits + 1] * 2 ^ (MaxIntBits + 1), [i \in 1 .. MaxIntBits |-> i]) + b[0]
BitWise(F(_, _), l, r) ==
  LET n == OfBits([i \in 0 .. (MaxIntBits + 1) |-> F(BitsOf(l.n)[i], BitsOf(r.n)[i])])
  IN  CASE l.k = "Bool" /\ r.k = "Bool" -> Bool(n)
        [] IsInt(l) /\ IsInt(r) -> IntOf(n)
bitor_values(l, r) == IF IsInt(l) /\ IsInt(r) THEN BitWise(LAMBDA x, y : IF x + y > 0 THEN 1 ELSE 0, l, r) ELSE Raise("TypeError")
bitxor_values(l, r) == IF IsInt(l) /\ IsInt(r) THEN BitWise(LAMBDA x, y : (x + y) % 2, l, r) ELSE Raise("TypeError")
bitand_values(l, r) == IF IsInt(l) /\ IsInt(r) THEN BitWise(LAMBDA x, y : x * y, l, r) ELSE Raise("TypeError")
lshift_values(l, r) ==
  CASE ~ IsInt(l) \/ ~ IsInt(r) -> Raise("TypeError")
    [] r.n < 0 -> Raise("ValueError")
    [] r.n > MaxExponent -> Raise("OverflowError")
    [] OTHER -> int_from_bigint_limited(l.n * 2 ^ r.n)
rshift_values(l, r) ==
  CASE ~ IsInt(l) \/ ~ IsInt(r) -> Raise("TypeError")
    [] r.n < 0 -> Raise("ValueError")
    [] OTHER -> int_from_bigint_limited(l.n \div (2 ^ r.n))

(***************************************************************************)
(* Floats: the nearest quarter of the exact result.                         *)
(***************************************************************************)
Nearer(n, d, q) == IF 2 * (4 * n - q * d) * Signed(d < 0, 1) > Magnitude(d) THEN q + 1 ELSE q
NearestQ(n, d) == FloatQ(RoundQ(Nearer(n, d, div_floor(4 * n, d))))
to_float(v) == IF v.k = "Float" THEN v ELSE ToFloat(v.n)
FloorF(l, r) == div_floor(l.q, r.q)
FloatArith(op, l, r) ==
  CASE op \in {"/", "//", "%"} /\ r.q = 0 -> Raise("ZeroDivisionError")
    [] op = "+" -> FloatQ(RoundQ(l.q + r.q))
    [] op = "-" -> FloatQ(RoundQ(l.q - r.q))
    [] op = "*" -> NearestQ(l.q * r.q, 16)
    [] op = "/" -> NearestQ(l.q, r.q)
    [] op = "//" -> ToFloat(FloorF(l, r))
    [] op = "%" -> FloatQ(RoundQ(l.q - r.q * FloorF(l, r)))

(***************************************************************************)
(* The kernels of apply_binop_builtin.                                      *)
(***************************************************************************)
NumArith(op, l, r) ==
  CASE either_is_float(l, r) -> FloatArith(op, to_float(l), to_float(r))
    [] op = "+" -> int_add(l, r)
    [] op = "-" -> int_sub(l, r)
    [] op = "*" -> int_mul(l, r)
    [] r.n = 0 -> Raise("ZeroDivisionError")
    [] op = "/" -> FloatArith(op, to_float(l), to_float(r))
    [] op = "//" -> IF FastPath(l, r) THEN [k |-> "Int", n |-> python_floordiv(l.n, r.n)] ELSE IntOf(div_floor(l.n, r.n))
    [] op = "%" -> IF FastPath(l, r) THEN [k |-> "Int", n |-> python_mod(l.n, r.n)] ELSE IntOf(mod_floor(l.n, r.n))
pow_values(l, r) ==
  CASE either_is_float(l, r) -> Raise("not modelled")
    [] r.n >= 0 -> IntPow(l.n, r.n)
    [] l.n = 0 -> Raise("ZeroDivisionError")
    [] OTHER -> NearestQ(1, l.n ^ (- r.n))

Repeat(s, n) ==
  CASE n <= 0 -> [s EXCEPT !.items = <<>>]
    [] Len(s.items) * n > MaxSize -> Raise("LimitExceeded")
    [] OTHER -> [s EXCEPT !.items = FoldLeft(LAMBDA acc, i : acc \o s.items, <<>>, [i \in 1 .. n |-> i])]
\* A count on the left repeats text, bytes and lists; a tuple is not among them.
mult_values(l, r) ==
  CASE IsSeq(l) /\ IsSmall(r) -> Repeat(l, r.n)
    [] IsSmall(l) /\ r.k \in {"Str", "Bytes", "List"} -> Repeat(r, l.n)
    [] IsSeq(l) \/ IsSeq(r) -> Raise("TypeError")
    [] OTHER -> NumArith("*", l, r)

(***************************************************************************)
(* Decimals and fractions.                                                  *)
(***************************************************************************)
Rescale(v, s) == v.mant * 10 ^ (s - v.scale)
ToDecimal(v) == IF IsInt(v) THEN Decimal(v.n, 0) ELSE v
AddDec(a, b, sign) ==
  LET s == IF a.scale > b.scale THEN a.scale ELSE b.scale IN Decimal(Rescale(a, s) + sign * Rescale(b, s), s)
MulDec(a, b) == Decimal(a.mant * b.mant, a.scale + b.scale)
\* a / b to DecimalPlaces places, and with_scale(0) of it.
QuotDec(a, b) == LET x == Exact(a) y == Exact(b)
                 IN  Decimal(TruncDiv(x[1] * y[2] * 10 ^ DecimalPlaces, x[2] * y[1]), DecimalPlaces)
Whole(d) == Decimal(TruncDiv(d.mant, 10 ^ d.scale), 0)

decimal_operand_negative(v) == IF v.k = "Decimal" THEN v.c = "ninf" \/ v.mant < 0 ELSE v.n < 0
InfDec(neg) == DecimalC(IF neg THEN "ninf" ELSE "inf")
decimal_special_arith(op, l, r) ==
  LET inf(v) == DecSpecial(v) /\ v.c # "nan"
      zero(v) == v.k = "Decimal" /\ v.c = "fin" /\ v.mant = 0
      na == decimal_operand_negative(l)
      nb == (decimal_operand_negative(r)) # (op = "-")
  IN  CASE (DecSpecial(l) /\ l.c = "nan") \/ (DecSpecial(r) /\ r.c = "nan") -> DecimalC("nan")
        [] op \in {"+", "-"} -> IF inf(l) /\ inf(r) /\ na # nb THEN Raise("InvalidOperation") ELSE InfDec(IF inf(l) THEN na ELSE nb)
        [] op = "*" -> IF (inf(l) /\ zero(r)) \/ (inf(r) /\ zero(l)) THEN Raise("InvalidOperation") ELSE InfDec(na # nb)
        [] op = "/" -> IF inf(l) /\ inf(r) THEN Raise("InvalidOperation") ELSE IF inf(l) THEN InfDec(na # nb) ELSE Decimal(0, 0)
        [] OTHER -> Raise("InvalidOperation")
decimal_arith(op, l, r) ==
  LET a == ToDecimal(l)  b == ToDecimal(r)
  IN  CASE either_is_float(l, r) -> Raise("TypeError")
        [] ~ (IsInt(l) \/ l.k = "Decimal") \/ ~ (IsInt(r) \/ r.k = "Decimal") -> NI
        [] DecSpecial(l) \/ DecSpecial(r) -> decimal_special_arith(op, l, r)
        [] op \in {"/", "//", "%"} /\ b.mant = 0 -> Raise("Runtime")
        [] op = "+" -> AddDec(a, b, 1)
        [] op = "-" -> AddDec(a, b, -1)
        [] op = "*" -> MulDec(a, b)
        [] op = "/" -> QuotDec(a, b)
        [] op = "//" -> Whole(QuotDec(a, b))
        [] op = "%" -> AddDec(a, MulDec(Whole(QuotDec(a, b)), b), -1)
        [] op = "**" -> IF b.scale > 0 THEN NI
                        ELSE IF b.mant >= 0 THEN Decimal(a.mant ^ b.mant, a.scale * b.mant)
                        ELSE IF a.mant = 0 THEN Raise("Runtime")
                        ELSE QuotDec(Decimal(1, 0), Decimal(a.mant ^ (- b.mant), a.scale * (- b.mant)))

FractionOf(n, d) == LET r == Reduced(IF d < 0 THEN <<- n, - d>> ELSE <<n, d>>) IN Fraction(r[1], r[2])
\* With a float the quotient and the remainder are the machine's.
FractionFloat(op, l, r) ==
  LET a == IF l.k = "Float" THEN l ELSE NearestQ(Exact(l)[1], Exact(l)[2])
      b == IF r.k = "Float" THEN r ELSE NearestQ(Exact(r)[1], Exact(r)[2])
  IN  CASE b.q = 0 /\ op \in {"/", "//"} -> FloatC(IF a.q = 0 THEN "nan" ELSE IF a.q > 0 THEN "inf" ELSE "ninf")
        [] b.q = 0 /\ op = "%" -> FloatC("nan")
        [] op = "%" -> FloatQ(TruncMod(a.q, b.q))
        [] OTHER -> FloatArith(op, a, b)
fraction_arith(op, l, r) ==
  LET x == Exact(l)  y == Exact(r)
      fl == div_floor(x[1] * y[2], x[2] * y[1])
  IN  CASE (l.k = "Decimal" \/ r.k = "Decimal") -> NI
        [] either_is_float(l, r) -> FractionFloat(op, l, r)
        [] op \in {"/", "//", "%"} /\ y[1] = 0 -> Raise("Runtime")
        [] op = "+" -> FractionOf(x[1] * y[2] + y[1] * x[2], x[2] * y[2])
        [] op = "-" -> FractionOf(x[1] * y[2] - y[1] * x[2], x[2] * y[2])
        [] op = "*" -> FractionOf(x[1] * y[1], x[2] * y[2])
        [] op = "/" -> FractionOf(x[1] * y[2], x[2] * y[1])
        [] op = "//" -> IntOf(fl)
        [] op = "%" -> FractionOf(x[1] * y[2] - fl * y[1] * x[2], x[2] * y[2])
        [] op = "**" -> IF y[2] # 1 THEN Raise("not modelled")
                        ELSE IF y[1] >= 0 THEN FractionOf(x[1] ^ y[1], x[2] ^ y[1])
                        ELSE IF x[1] = 0 THEN Raise("Runtime") ELSE FractionOf(x[2] ^ (- y[1]), x[1] ^ (- y[1]))

(***************************************************************************)
(* The arith slots and the dispatch between the two operands' types.        *)
(***************************************************************************)
numeric_arith(op, l, r) ==
  CASE ~ is_numeric(l) -> NI
    [] is_numeric(r) -> NumArith(op, l, r)
    [] op = "*" /\ r.k \in {"Str", "List", "Tuple"} -> mult_values(l, r)
    [] OTHER -> NI
SeqArith(op, l, r) ==      \* str_arith, bytes_arith, list_arith, tuple_arith
  CASE ~ IsSeq(l) -> NI
    [] op = "+" /\ r.k = l.k -> [l EXCEPT !.items = @ \o r.items]
    [] op = "*" /\ IsSmall(r) -> mult_values(l, r)
    [] OTHER -> NI
ArithSlot(s, op, l, r) ==
  CASE s.k = "Decimal" -> decimal_arith(op, l, r)
    [] s.k = "Fraction" -> fraction_arith(op, l, r)
    [] is_numeric(s) -> numeric_arith(op, l, r)
    [] OTHER -> SeqArith(op, l, r)
FirstOf(a, b) == IF a # NI THEN a ELSE IF b # NI THEN b ELSE Raise("TypeError")
dispatch_binop(op, x, y) ==
  LET l == unwrap_enum_for_compare(x)
      r == unwrap_enum_for_compare(y)
  IN  FirstOf(ArithSlot(l, op, l, r), ArithSlot(r, op, l, r))
apply_binop(op, l, r) ==
  CASE op = "**" /\ is_numeric(l) /\ is_numeric(r) -> pow_values(l, r)
    [] op = "<<" -> lshift_values(l, r)
    [] op = ">>" -> rshift_values(l, r)
    [] op = "|" -> bitor_values(l, r)
    [] op = "^" -> bitxor_values(l, r)
    [] op = "&" -> bitand_values(l, r)
    [] OTHER -> dispatch_binop(op, l, r)
apply_unaryop(op, x) ==
  LET v == IF x.k = "Enum" /\ x.kind \in {"Int", "IntFlag"} THEN x.value ELSE x
  IN  CASE op = "-" /\ IsInt(v) -> IntOf(- v.n)
        [] op = "+" /\ IsInt(v) -> IntOf(v.n)
        [] op = "~" /\ IsInt(v) -> IntOf(- v.n - 1)
        [] op = "-" /\ v.k = "Float" -> FloatQ(- v.q)
        [] op = "-" /\ v.k = "Fraction" -> Fraction(- v.num, v.den)
        [] op = "-" /\ v.k = "Decimal" -> IF DecSpecial(v) THEN IF v.c = "nan" THEN v ELSE InfDec(v.c = "inf") ELSE Decimal(- v.mant, v.scale)
        [] op = "+" /\ IsReal(v) -> v
        [] OTHER -> Raise("TypeError")

(***************************************************************************)
(* Ranges.  Length, walk and membership each compute in i64, which wraps in *)
(* a release build; only the count that guards the walk is in i128.  A walk *)
(* that wraps is followed for one turn more than its count.                 *)
(***************************************************************************)
Wrap(n) == ((n - MinInt) % (2 ^ IntBits)) + MinInt
AtLeast0(n) == IF n > 0 THEN n ELSE 0

range_length(r) ==
  AtLeast0(IF r.step > 0 THEN TruncDiv(Wrap(r.stop - r.start + r.step - 1), r.step)
           ELSE TruncDiv(Wrap(r.start - r.stop - r.step - 1), Wrap(- r.step)))

ItemCount(r) ==
  LET span == r.stop - r.start
  IN  IF (r.step > 0 /\ span > 0) \/ (r.step < 0 /\ span < 0)
      THEN TruncDiv(span, r.step) + (IF TruncMod(span, r.step) # 0 THEN 1 ELSE 0) ELSE 0
RangeGoesOn(r, i) == IF r.step > 0 THEN i < r.stop ELSE i > r.stop
Items(s) == [k |-> "items", items |-> s]
RangeWalk(r) ==
  FoldLeft(LAMBDA acc, j : IF RangeGoesOn(r, acc.i) THEN [i |-> Wrap(acc.i + r.step), out |-> Append(acc.out, acc.i)] ELSE acc,
           [i |-> r.start, out |-> <<>>], [j \in 1 .. (ItemCount(r) + 1) |-> j]).out
range_iter(r) == IF ItemCount(r) > MaxSize THEN Raise("LimitExceeded") ELSE Items(RangeWalk(r))

range_contains(r, n) ==
  /\ IF r.step > 0 THEN n >= r.start /\ n < r.stop ELSE n <= r.start /\ n > r.stop
  /\ TruncMod(Wrap(n - r.start), r.step) = 0

RECURSIVE is_truthy(_)
is_truthy(v) ==
  CASE v.k = "None" -> FALSE
    [] IsInt(v) -> v.n # 0
    [] v.k \in {"Float", "Decimal"} -> ~ Finite(v) \/ Exact(v)[1] # 0
    [] v.k = "Fraction" -> v.num # 0
    [] IsSeq(v) -> v.items # <<>>
    [] v.k = "Range" -> RangeGoesOn(v, v.start)
    [] v.k = "Enum" -> is_truthy(v.value)
    [] OTHER -> TRUE
================================================================================
