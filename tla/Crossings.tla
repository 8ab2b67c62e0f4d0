------------------------------- MODULE Crossings -------------------------------
(***************************************************************************)
(* Values crossing into the host language and back: convert.rs of the       *)
(* Python and of the Node binding.  The depth guard and the locks of these  *)
(* walks are in Walks; here, what becomes of each kind of value.            *)
(***************************************************************************)
EXTENDS Integers, Sequences, FiniteSets, SequencesExt

CONSTANTS MaxSafe,     \* MAX_SAFE_INTEGER: a double holds the integers up to it
          I64,         \* the largest i64
          MaxRange     \* MAX_RANGE_MATERIALIZE

(* A value is its kind and what it holds.  A float holds twice its value, so *)
(* that halves exist; a decimal or a time holds its text; a datetime its     *)
(* wall clock and its offset in hours.                                       *)
Refused == <<"TypeError">>
Elements == {"list", "array", "tuple", "set", "frozenset", "dictview"}
Maps == {"dict", "odict"}
Textual == {"decimal", "fraction", "complex", "time", "timedelta", "timezone"}
NaiveDt == 99            \* in place of an offset: none
AllOf(tag, xs) == IF \E i \in DOMAIN xs : xs[i] = Refused THEN Refused ELSE <<tag, xs>>
PairsOf(tag, ps) == IF \E i \in DOMAIN ps : Refused \in {ps[i][1], ps[i][2]} THEN Refused ELSE <<tag, ps>>
\* int_from_bigint: integers that fit stay on the i64 path.
int_from_bigint(n) == IF - I64 - 1 <= n /\ n <= I64 THEN <<"int", n>> ELSE <<"big", n>>
\* to_key: a dict key or a set element must be hashable; an integral float folds.
Hashable(v) == v[1] \notin {"list", "set", "dict", "bytes", "bytearray", "range", "timezone", "notimpl"}
to_key(v) == CASE ~ Hashable(v) -> Refused
               [] v[1] = "float" /\ v[2] % 2 = 0 -> <<"int", v[2] \div 2>>
               [] OTHER -> v
\* ValueKey::to_value, of a dict's key.
key_to_value(q) == IF q[1] = "big" THEN int_from_bigint(q[2]) ELSE q
\* IndexMap::insert of each pair in turn: an equal key keeps its place.
InsertKey(acc, p) ==
  LET i == SelectInSeq(acc, LAMBDA q : q[1] = p[1]) IN IF i = 0 THEN Append(acc, p) ELSE [acc EXCEPT ![i] = <<@[1], p[2]>>]
Inserted(ps) == FoldLeft(InsertKey, <<>>, ps)
Distinct1(xs) == FoldLeft(LAMBDA acc, x : IF x \in ToSet(acc) THEN acc ELSE Append(acc, x), <<>>, xs)

(***************************************************************************)
(* Python.  bool, int, float... of the host are named as the sandbox's.     *)
(***************************************************************************)
RECURSIVE value_to_py_inner(_)
value_to_py_inner(v) ==
  CASE v[1] \in {"int", "big"} -> <<"int", v[2]>>
    [] v[1] = "memoryview" -> <<"bytes", v[2]>>
    [] v[1] \in Elements -> AllOf(IF v[1] \in {"array", "dictview"} THEN "list" ELSE v[1], [i \in DOMAIN v[2] |-> value_to_py_inner(v[2][i])])
    [] v[1] \in Maps -> PairsOf("dict", [i \in DOMAIN v[2] |-> [j \in 1 .. 2 |-> value_to_py_inner(IF j = 1 THEN key_to_value(v[2][i][1]) ELSE v[2][i][2])]])
    [] v[1] = "internal" -> Refused
    [] OTHER -> v
\* bool before int and datetime before date: a subclass is not taken for its base.
RECURSIVE py_to_value_inner(_)
py_to_value_inner(o) ==
  CASE o[1] = "int" -> int_from_bigint(o[2])
    [] o[1] \in Elements -> AllOf(o[1], [i \in DOMAIN o[2] |-> py_to_value_inner(o[2][i])])
    [] o[1] \in Maps -> PairsOf("dict", [i \in DOMAIN o[2] |-> <<to_key(py_to_value_inner(o[2][i][1])), py_to_value_inner(o[2][i][2])>>])
    [] o[1] = "notimpl" \/ o = Refused -> Refused
    [] OTHER -> o
PyTrip(v) == py_to_value_inner(value_to_py_inner(v))

(***************************************************************************)
(* JavaScript, whose values are external: numbers are doubles, a Set and a  *)
(* Map keep equal primitives once, an object lists index-like keys first.   *)
(***************************************************************************)
Double(n) == IF n \in (- MaxSafe - 1) .. (MaxSafe + 1) THEN n ELSE 2 * (n \div 2)
IsObject(x) == x[1] \in {"Array", "Set", "Map", "Object", "Date", "Buffer"}
JsSet(xs) == FoldLeft(LAMBDA acc, x : IF ~ IsObject(x) /\ x \in ToSet(acc) THEN acc ELSE Append(acc, x), <<>>, xs)
JsMap(ps) == FoldLeft(LAMBDA acc, p : IF IsObject(p[1]) THEN Append(acc, p) ELSE InsertKey(acc, p), <<>>, ps)
IndexLike(q) == q[2] \in {"1", "2"}
JsObject(ps) == SelectSeq(ps, LAMBDA p : IndexLike(p[1])) \o SelectSeq(ps, LAMBDA p : ~ IndexLike(p[1]))

AlwaysNumber(n) == <<"number", 2 * Double(n)>>
int_to_js(n) == IF n \in - MaxSafe .. MaxSafe THEN <<"number", 2 * Double(n)>> ELSE <<"bigint", n>>
RangeSpan(r) == IF r[3] > 0 /\ r[2] > r[1] THEN (r[2] - r[1] + r[3] - 1) \div r[3]
                ELSE IF r[3] < 0 /\ r[2] < r[1] THEN (r[1] - r[2] - r[3] - 1) \div (- r[3]) ELSE 0
range_items(r) == [i \in 1 .. RangeSpan(r) |-> <<"int", r[1] + (i - 1) * r[3]>>]
StringKeys(ps) == \A i \in DOMAIN ps : ps[i][1][1] = "string"
dict_to_js(ps) == CASE PairsOf("Map", ps) = Refused -> Refused [] StringKeys(ps) -> <<"Object", JsObject(ps)>> [] OTHER -> <<"Map", JsMap(ps)>>
set_to_js(xs) == IF AllOf("Set", xs) = Refused THEN Refused ELSE <<"Set", JsSet(xs)>>
UtcInstant(v) == IF v[3] = NaiveDt THEN v[2] ELSE v[2] - v[3]

RECURSIVE value_to_js_inner(_)
value_to_js_inner(v) ==
  CASE v[1] \in {"none", "notimpl"} -> <<"null">>
    [] v[1] = "int" -> int_to_js(v[2])
    [] v[1] = "big" -> <<"bigint", v[2]>>
    [] v[1] = "float" -> <<"number", v[2]>>
    [] v[1] \in {"str"} \cup Textual -> <<"string", v[2]>>
    [] v[1] = "ellipsis" -> <<"string", "Ellipsis">>
    [] v[1] \in {"bytes", "bytearray", "memoryview"} -> <<"Buffer", v[2]>>
    [] v[1] \in {"list", "array", "dictview", "tuple"} -> AllOf("Array", [i \in DOMAIN v[2] |-> value_to_js_inner(v[2][i])])
    [] v[1] \in {"set", "frozenset"} -> set_to_js([i \in DOMAIN v[2] |-> value_to_js_inner(v[2][i])])
    [] v[1] \in Maps -> dict_to_js([i \in DOMAIN v[2] |-> [j \in 1 .. 2 |-> value_to_js_inner(IF j = 1 THEN key_to_value(v[2][i][1]) ELSE v[2][i][2])]])
    [] v[1] = "range" -> IF RangeSpan(v[2]) > MaxRange THEN Refused
                         ELSE <<"Array", [i \in 1 .. RangeSpan(v[2]) |-> int_to_js(range_items(v[2])[i][2])]>>
    [] v[1] = "date" -> <<"Date", 24 * v[2]>>
    [] v[1] = "datetime" -> <<"Date", UtcInstant(v)>>
    [] v[1] = "internal" -> Refused
    [] OTHER -> v          \* bool

number_to_value(n) == IF n % 2 = 0 /\ n \div 2 \in - MaxSafe .. MaxSafe THEN <<"int", n \div 2>> ELSE <<"float", n>>
KeyFrom(v) == IF v = Refused THEN v ELSE to_key(v)
set_to_value(xs) == IF AllOf("set", [i \in DOMAIN xs |-> KeyFrom(xs[i])]) = Refused THEN Refused ELSE <<"set", Distinct1(xs)>>
MapFrom(ps) == IF PairsOf("dict", ps) = Refused THEN Refused ELSE <<"dict", Inserted(ps)>>
map_to_value(ps) == MapFrom([i \in DOMAIN ps |-> <<KeyFrom(ps[i][1]), ps[i][2]>>])
plain_object_to_value(names, vs) == IF AllOf("list", vs) = Refused THEN Refused ELSE <<"dict", [i \in DOMAIN names |-> << <<"str", names[i]>>, vs[i]>>]>>
RECURSIVE js_to_value_inner(_)
object_to_value(x) ==
  CASE x[1] = "Buffer" -> <<"bytes", x[2]>>
    [] x[1] = "Date" -> <<"datetime", x[2], 0>>
    [] x[1] = "Array" -> AllOf("list", [i \in DOMAIN x[2] |-> js_to_value_inner(x[2][i])])
    [] x[1] = "Set" -> set_to_value([i \in DOMAIN x[2] |-> js_to_value_inner(x[2][i])])
    [] x[1] = "Map" -> map_to_value([i \in DOMAIN x[2] |-> [j \in 1 .. 2 |-> js_to_value_inner(x[2][i][j])]])
    [] OTHER -> plain_object_to_value([i \in DOMAIN x[2] |-> x[2][i][1][2]], [i \in DOMAIN x[2] |-> js_to_value_inner(x[2][i][2])])
js_to_value_inner(x) ==
  CASE x[1] = "null" -> <<"none">>
    [] x[1] = "number" -> number_to_value(x[2])
    [] x[1] = "bigint" -> int_from_bigint(x[2])
    [] x[1] = "string" -> <<"str", x[2]>>
    [] IsObject(x) -> object_to_value(x)
    [] OTHER -> x          \* bool; what was refused
JsTrip(v) == js_to_value_inner(value_to_js_inner(v))

(***************************************************************************)
(* What a crossing keeps.                                                   *)
(***************************************************************************)
RunCrossing(v) == [py |-> PyTrip(v), py2 |-> PyTrip(PyTrip(v)), js |-> JsTrip(v), js2 |-> JsTrip(JsTrip(v))]
Numeric == {"int", "big", "float"}
Twice(v) == IF v[1] = "float" THEN v[2] ELSE 2 * v[2]
Widened(k) == CASE k \in {"array", "dictview"} -> "list" [] k = "memoryview" -> "bytes" [] k = "odict" -> "dict" [] OTHER -> k
RECURSIVE PySame(_, _)
PySame(v, w) ==
  CASE v[1] \in Elements -> w[1] = Widened(v[1]) /\ Len(v[2]) = Len(w[2]) /\ \A i \in DOMAIN v[2] : PySame(v[2][i], w[2][i])
    [] v[1] \in Maps -> w[1] = "dict" /\ Len(v[2]) = Len(w[2]) /\ \A i \in DOMAIN v[2] : \A j \in 1 .. 2 : PySame(v[2][i][j], w[2][i][j])
    [] v[1] = "memoryview" -> w = <<"bytes", v[2]>>
    [] OTHER -> w = v
StillIn(r, x) == IF r[3] > 0 THEN x < r[2] ELSE x > r[2]
IsRangeOf(r, xs) ==
  /\ \A i \in DOMAIN xs : Twice(xs[i]) = 2 * (r[1] + (i - 1) * r[3]) /\ StillIn(r, r[1] + (i - 1) * r[3])
  /\ ~ StillIn(r, r[1] + Len(xs) * r[3])
\* The least a JavaScript host keeps: the number, the instant, the text, and
\* every element; which sequence, set or mapping it was is lost.
RECURSIVE JsSame(_, _)
JsSame(v, w) ==
  CASE v[1] \in Numeric -> w[1] \in Numeric /\ Twice(w) = Twice(v)
    [] v[1] \in {"list", "array", "dictview", "tuple"} -> w[1] = "list" /\ Len(v[2]) = Len(w[2]) /\ \A i \in DOMAIN v[2] : JsSame(v[2][i], w[2][i])
    [] v[1] \in {"set", "frozenset"} -> w[1] = "set" /\ Len(v[2]) = Len(w[2]) /\ \A i \in DOMAIN v[2] : JsSame(v[2][i], w[2][i])
    [] v[1] \in Maps -> w[1] = "dict" /\ Len(v[2]) = Len(w[2])
                        /\ \A i \in DOMAIN v[2] : \E j \in DOMAIN w[2] : JsSame(v[2][i][1], w[2][j][1]) /\ JsSame(v[2][i][2], w[2][j][2])
    [] v[1] = "range" -> w[1] = "list" /\ IsRangeOf(v[2], w[2])
    [] v[1] = "datetime" -> w = <<"datetime", v[2] - (IF v[3] = NaiveDt THEN 0 ELSE v[3]), 0>>
    [] v[1] = "date" -> w = <<"datetime", 24 * v[2], 0>>
    [] v[1] \in {"bytes", "bytearray", "memoryview"} -> w = <<"bytes", v[2]>>
    [] v[1] \in {"str"} \cup Textual -> w = <<"str", v[2]>>
    [] OTHER -> w = v
RECURSIVE AllKinds(_)
AllKinds(v) == {v[1]} \cup (IF v[1] \in Elements THEN UNION {AllKinds(v[2][i]) : i \in DOMAIN v[2]}
                            ELSE IF v[1] \in Maps THEN UNION {AllKinds(v[2][i][1]) \cup AllKinds(v[2][i][2]) : i \in DOMAIN v[2]} ELSE {})
RECURSIVE KeyKinds(_)
KeyKinds(v) == IF v[1] \in {"set", "frozenset"} THEN UNION {AllKinds(v[2][i]) : i \in DOMAIN v[2]}
               ELSE IF v[1] \in Maps THEN UNION {AllKinds(v[2][i][1]) \cup KeyKinds(v[2][i][2]) : i \in DOMAIN v[2]}
               ELSE IF v[1] \in Elements THEN UNION {KeyKinds(v[2][i]) : i \in DOMAIN v[2]} ELSE {}
CrossingMeets(v, ks, keys, out) ==
  /\ IF ks \cap {"internal", "notimpl"} # {} THEN out.py = Refused ELSE PySame(v, out.py) /\ out.py2 = out.py
  /\ out.js # Refused => out.js2 = out.js
  /\ "internal" \in ks => out.js = Refused
  /\ ks \cap {"internal", "notimpl", "ellipsis", "none"} = {} /\ keys \cap ({"tuple", "frozenset", "date", "datetime", "bytes", "range"} \cup Textual) = {} =>
       (v[1] = "range" /\ RangeSpan(v[2]) > MaxRange) \/ JsSame(v, out.js)
  /\ keys \cap {"tuple", "frozenset"} # {} => out.js = Refused
================================================================================
