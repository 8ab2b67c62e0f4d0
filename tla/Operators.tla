------------------------------- MODULE Operators -------------------------------
(***************************************************************************)
(* How an operator reaches the methods of user classes: eval/op.rs, and     *)
(* eval_compare of eval/operations.rs.  A class is a method resolution      *)
(* order and a table of slots; what a slot answers is part of the table, so *)
(* an operation is the sequence of slots it calls and what it returns.      *)
(***************************************************************************)
EXTENDS Numbers

CONSTANTS Classes,        \* class -> [mro, slots, order, total, compared, yields]
          MaxIterations   \* max_while_iterations

Instance(c, id) == [k |-> "Instance", class |-> c, id |-> id]
IsInstance(v) == v.k = "Instance"
NotImplemented == [k |-> "NotImplemented"]
NoSlot == [k |-> "no slot"]
Truth(v) == v # NotImplemented /\ (IsInstance(v) \/ is_truthy(v))

\* lookup_method_in_mro: the first class of the order that defines the slot.
instance_slot(v, s) ==
  IF ~ IsInstance(v) THEN NoSlot
  ELSE LET owners == SelectSeq(Classes[v.class].mro, LAMBDA c : s \in DOMAIN Classes[c].slots)
       IN  IF owners = <<>> THEN NoSlot ELSE Classes[owners[1]].slots[s]
HasSlot(v, s) == instance_slot(v, s) # NoSlot

\* A method that compares the ranks of its operands, or answers one value.
ByRank == [k |-> "ByRank"]
Rank2(v) == v.id \div 2
invoke_slot(v, s, other) ==
  LET a == instance_slot(v, s)
      op == s[2]
      x == Rank2(v)
      y == Rank2(other)
  IN  CASE a # ByRank -> a
        [] ~ IsInstance(other) \/ other.class # v.class -> NotImplemented
        [] OTHER -> Bool(IF \/ op \in {"==", "<=", ">="} /\ x = y
                            \/ op \in {"<", "<="} /\ x < y
                            \/ op \in {">", ">="} /\ x > y THEN 1 ELSE 0)

(***************************************************************************)
(* A run of slots: those present are called in order until one answers.     *)
(***************************************************************************)
Result(calls, out) == [calls |-> calls, out |-> out]
TrySlots(steps) ==
  FoldLeft(LAMBDA acc, s : IF acc.out # NotImplemented \/ ~ HasSlot(s[1], s[2]) THEN acc
                           ELSE Result(Append(acc.calls, <<s[1].id, s[2]>>), invoke_slot(s[1], s[2], s[3])),
           Result(<<>>, NotImplemented), steps)
\* What the built-in values make of it when no slot answered.
OrBuiltin(run, builtin) == IF run.out # NotImplemented THEN run ELSE Result(run.calls, builtin)

same_class(l, r) == IsInstance(l) /\ IsInstance(r) /\ l.class = r.class
BinopBuiltin(op, l, r) == IF IsInstance(l) \/ IsInstance(r) THEN Raise("TypeError") ELSE apply_binop(op, l, r)
arith_slot(op) == <<"op", op>>
reflected_arith_slot(op) == <<"rop", op>>
inplace_arith_slot(op) == <<"iop", op>>
\* Mutant: the reflected method is tried for two instances of one class too.
BinopTriesBoth(op, l, r) ==
  OrBuiltin(TrySlots(<< <<l, arith_slot(op), r>>, <<r, reflected_arith_slot(op), l>> >>), BinopBuiltin(op, l, r))
binop(op, l, r) ==
  OrBuiltin(TrySlots(<< <<l, arith_slot(op), r>> >> \o
                     (IF same_class(l, r) THEN <<>> ELSE << <<r, reflected_arith_slot(op), l>> >>)),
            BinopBuiltin(op, l, r))
\* An in-place slot answers for good; a list is extended in place; anything
\* else is what binop makes of it.
aug_binop(op, l, r, plain) ==
  CASE HasSlot(l, inplace_arith_slot(op)) -> Result(<< <<l.id, inplace_arith_slot(op)>> >>, instance_slot(l, inplace_arith_slot(op)))
    [] op = "+" /\ l.k = "List" /\ r.k \in {"List", "Tuple"} -> Result(<<>>, [l EXCEPT !.items = @ \o r.items])
    [] OTHER -> plain
unaryop(op, v) ==
  IF HasSlot(v, <<"unary", op>>) THEN Result(<< <<v.id, <<"unary", op>> >> >>, instance_slot(v, <<"unary", op>>))
  ELSE Result(<<>>, apply_unaryop(op, v))

(***************************************************************************)
(* Rich comparison.                                                         *)
(***************************************************************************)
forward_compare_slot(op) == <<"compare", IF op = "!=" THEN "==" ELSE op>>
Mirror(op) == CASE op \in {"==", "!="} -> "==" [] op = "<" -> ">" [] op = "<=" -> ">=" [] op = ">" -> "<" [] op = ">=" -> "<="
reflected_compare_slot(op) == <<"compare", Mirror(op)>>
IsOrder(op) == op \notin {"==", "!="}
Answer(op, v) == Said(Truth(v) # (op = "!="))

\* dataclass_order_compare: the compared fields, first difference decides.
OrderFrom(op, i, less) ==
  CASE less \notin {"T", "F"} -> less
    [] op = "==" -> Said(i = 0)
    [] op = "!=" -> Said(i # 0)
    [] op = "<"  -> less
    [] op = "<=" -> Said(less = "T" \/ i = 0)
    [] op = ">"  -> Said(less = "F" /\ i # 0)
    [] op = ">=" -> Said(less = "F")
FieldOrder(op, a, b, i) == OrderFrom(op, i, IF i = 0 THEN "F" ELSE dispatch_lt(a[i], b[i]))
OrderedData(l, r) == same_class(l, r) /\ Classes[l.class].order
dataclass_order_compare(op, l, r) ==
  LET a == Classes[l.class].compared[l.id]
      b == Classes[l.class].compared[r.id]
  IN  FieldOrder(op, a, b, SelectInSeq([j \in DOMAIN a |-> j], LAMBDA j : ~ values_equal(a[j], b[j])))

\* total_ordering: the order the class itself defines, and ==.
RootOf(c) == LET roots == SelectSeq(<<"<", "<=", ">", ">=">>, LAMBDA s : <<"compare", s>> \in DOMAIN Classes[c].slots)
             IN  IF roots = <<>> THEN "none" ELSE roots[1]
Derived(root, op, r, e) ==
  CASE root = "<"  -> (CASE op = "<=" -> r \/ e [] op = ">" -> ~ r /\ ~ e [] op = ">=" -> ~ r)
    [] root = "<=" -> (CASE op = "<" -> r /\ ~ e [] op = ">" -> ~ r [] op = ">=" -> ~ r \/ e)
    [] root = ">"  -> (CASE op = "<" -> ~ r /\ ~ e [] op = "<=" -> ~ r [] op = ">=" -> r \/ e)
    [] root = ">=" -> (CASE op = "<" -> ~ r [] op = "<=" -> ~ r \/ e [] op = ">" -> r /\ ~ e)
TotalRoot(op, l) == IF IsInstance(l) /\ Classes[l.class].total /\ IsOrder(op) THEN RootOf(l.class) ELSE "none"
total_ordering_derive(op, root, r, e) ==
  IF r.out \notin {"T", "F"} THEN r ELSE Result(r.calls \o e.calls, Said(Derived(root, op, r.out = "T", e.out = "T")))

CompareSteps(op, l, r) == << <<l, forward_compare_slot(op), r>>, <<r, reflected_compare_slot(op), l>> >>
IdentityFallback(op, l, r) == IF IsOrder(op) THEN "TypeError" ELSE Said((l = r) # (op = "!="))
UnorderedFallback(op, l, r) == IF IsInstance(l) \/ IsInstance(r) THEN IdentityFallback(op, l, r) ELSE compare_builtin(op, l, r)
\* compare once more, for the root and for ==, of an instance.
SlotCompare(op, run, l, r) == Result(run.calls, IF run.out # NotImplemented THEN Answer(op, run.out) ELSE IdentityFallback(op, l, r))
DeriveFrom(op, root, l, r) ==
  total_ordering_derive(op, root, SlotCompare(root, TrySlots(CompareSteps(root, l, r)), l, r),
                                  SlotCompare("==", TrySlots(CompareSteps("==", l, r)), l, r))
CompareFallback(op, l, r) ==
  CASE OrderedData(l, r) -> Result(<<>>, dataclass_order_compare(op, l, r))
    [] TotalRoot(op, l) \notin {"none", op} -> DeriveFrom(op, TotalRoot(op, l), l, r)
    [] OTHER -> Result(<<>>, UnorderedFallback(op, l, r))
After(calls, other) == Result(calls \o other.calls, other.out)
Settle(op, run, l, r) ==
  IF run.out # NotImplemented THEN Result(run.calls, Answer(op, run.out)) ELSE After(run.calls, CompareFallback(op, l, r))
compare(op, l, r) == Settle(op, TrySlots(CompareSteps(op, l, r)), l, r)
op_eq(l, r) == compare("==", l, r).out = "T"
\* op::lt, for sorted and min: the first slot found answers, whatever it says.
op_lt(l, r) ==
  CASE HasSlot(l, <<"compare", "<">>) -> Said(Truth(invoke_slot(l, <<"compare", "<">>, r)))
    [] HasSlot(r, <<"compare", ">">>) -> Said(Truth(invoke_slot(r, <<"compare", ">">>, l)))
    [] OrderedData(l, r) -> dataclass_order_compare("<", l, r)
    [] OTHER -> dispatch_lt(l, r)

\* eval_compare: a chain stops at the first pair that does not hold.
Link(acc, out, right) == IF acc.out = "T" THEN [left |-> right, out |-> out] ELSE acc
eval_compare(left, rest) ==
  FoldLeft(LAMBDA acc, c : Link(acc, compare(c[1], acc.left, c[2]).out, c[2]), [left |-> left, out |-> "T"], rest).out

(***************************************************************************)
(* Truth, length, iteration, membership, and instances as keys.             *)
(***************************************************************************)
op_truthy(v) ==
  CASE HasSlot(v, <<"protocol", "bool">>) -> IF instance_slot(v, <<"protocol", "bool">>).k = "Bool" THEN Said(Truth(instance_slot(v, <<"protocol", "bool">>))) ELSE "TypeError"
    [] HasSlot(v, <<"protocol", "len">>) -> IF IsSmall(instance_slot(v, <<"protocol", "len">>)) THEN Said(Truth(instance_slot(v, <<"protocol", "len">>))) ELSE "TypeError"
    [] OTHER -> Said(Truth(v))
op_len(v) ==
  CASE HasSlot(v, <<"protocol", "len">>) -> LET n == instance_slot(v, <<"protocol", "len">>)
                            IN  IF n.k # "Int" THEN Raise("TypeError") ELSE IF n.n < 0 THEN Raise("ValueError") ELSE n
    [] IsSeq(v) -> IntOf(Len(v.items))
    [] v.k = "Range" -> IntOf(range_length(v))
    [] OTHER -> Raise("TypeError")

\* Both protocols stop asking after MaxIterations answers.
Drain(yields) == IF Len(yields) >= MaxIterations THEN Raise("LimitExceeded") ELSE Items(yields)
RangeValues(it) == IF it.k = "Raise" THEN it ELSE Items([i \in DOMAIN it.items |-> IntOf(it.items[i])])
RECURSIVE op_iter(_)
op_iter(v) ==
  CASE HasSlot(v, <<"protocol", "iter">>) ->
         LET it == instance_slot(v, <<"protocol", "iter">>)
         IN  CASE IsInstance(it) -> IF HasSlot(it, <<"protocol", "next">>) THEN Drain(Classes[it.class].yields) ELSE Raise("TypeError")
               [] it.k \in {"List", "Tuple", "Range"} -> op_iter(it)
               [] OTHER -> Raise("TypeError")
    [] HasSlot(v, <<"protocol", "getitem">>) -> Drain(Classes[v.class].yields)
    [] v.k = "Range" -> RangeValues(range_iter(v))
    [] IsSeq(v) -> Items(v.items)
    [] OTHER -> Raise("TypeError")
ScanFor(it, item) == IF it.k = "Raise" THEN it.e ELSE Said(\E i \in DOMAIN it.items : op_eq(it.items[i], item))
contains(container, item) ==
  CASE HasSlot(container, <<"protocol", "contains">>) -> Said(Truth(instance_slot(container, <<"protocol", "contains">>)))
    [] container.k = "Range" /\ ~ IsInstance(item) -> Said(IsInt(item) /\ range_contains(container, item.n))
    [] OTHER -> ScanFor(op_iter(container), item)

\* hash: the slot, a frozen dataclass's fields, or the identity.
op_hash(v) == IF HasSlot(v, <<"protocol", "hash">>) THEN instance_slot(v, <<"protocol", "hash">>) ELSE IntOf(100 + v.id)
SameKey(stored, needle) == op_hash(stored) = op_hash(needle) /\ op_eq(stored, needle)
\* Entries are <<key, value>>: an equal key keeps its place and its object.
dict_get_instance_key(entries, needle) ==
  LET i == SelectInSeq(entries, LAMBDA e : SameKey(e[1], needle)) IN IF i = 0 THEN NoSlot ELSE entries[i][2]
dict_insert_instance_key_pub(entries, needle, value) ==
  LET i == SelectInSeq(entries, LAMBDA e : SameKey(e[1], needle) \/ e[1] = needle)
  IN  IF i = 0 THEN Append(entries, <<needle, value>>) ELSE [entries EXCEPT ![i] = <<@[1], value>>]

(***************************************************************************)
(* What Python says: a proper subclass that provides the reflected method   *)
(* goes first, and a method is tried once.                                  *)
(***************************************************************************)
ProperSubclass(r, l) == IsInstance(l) /\ IsInstance(r) /\ l.class # r.class /\ l.class \in ToSet(Classes[r.class].mro)
PySteps(first, second, l, r) == IF ProperSubclass(r, l) THEN <<second, first>> ELSE <<first, second>>
\* Of an instance and another value.
PyBinop(op, l, r) ==
  LET fwd == <<l, arith_slot(op), r>>  refl == <<r, reflected_arith_slot(op), l>>
  IN  OrBuiltin(TrySlots(IF same_class(l, r) THEN <<fwd>> ELSE PySteps(fwd, refl, l, r)), Raise("TypeError"))
PyCompare(op, l, r) ==
  Settle(op, TrySlots(PySteps(<<l, forward_compare_slot(op), r>>, <<r, reflected_compare_slot(op), l>>, l, r)), l, r)

================================================================================
