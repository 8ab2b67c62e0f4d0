------------------------------- MODULE SetTable --------------------------------
(***************************************************************************)
(* The set of pyset.rs: an open-addressing table probed as CPython probes   *)
(* it, or (SetBody::Fallback) a sequence in insertion order once a value    *)
(* without a reproducible hash is in it; and the operations of              *)
(* eval/functions/methods/set.rs and of the operators | & - ^ on it.        *)
(* A value's hash and equality class are constants of the instance.         *)
(***************************************************************************)
EXTENDS Integers, Sequences, FiniteSets, SequencesExt

CONSTANTS Values,         \* the values that may be put in a set
          Hash,           \* value -> its hash as an unsigned number, or NoHash
          Class,          \* value -> its equality class
          UnhashableValues,  \* lists, dicts and sets: they have no key
          Args,           \* the arguments methods are called with
          Calls,          \* the calls made: <<method, sequence of arguments>>
          NoHash, Empty, Dummy,
          MinBits, LinearProbes, PerturbShift, BigUsed, \* MINSIZE is 2 ^ MinBits; LINEAR_PROBES, PERTURB_SHIFT, 50000
          HashBits, MaxBits          \* bounds: hash width, width of a table's size

Pow2[n \in Nat] == IF n = 0 THEN 1 ELSE 2 * Pow2[n - 1]

Hashes == 0 .. (Pow2[HashBits] - 1)
Hashed == {v \in Values : Hash[v] # NoHash}

ASSUME SizesAssumption ==
  /\ MinBits \in Nat \ {0} /\ MaxBits \in Nat /\ MinBits <= MaxBits
  /\ LinearProbes \in Nat /\ PerturbShift \in Nat \ {0} /\ BigUsed \in Nat /\ HashBits \in Nat

\* Equal values have equal hashes.
ASSUME ValuesAssumption ==
  /\ IsFiniteSet(Values) /\ Empty \notin Values /\ Dummy \notin Values /\ Empty # Dummy
  /\ NoHash \notin Hashes
  /\ \A v \in Values : Hash[v] = NoHash \/ Hash[v] \in Hashes
  /\ \A v, w \in Values : Class[v] = Class[w] => Hash[v] = Hash[w]

\* The bound on a table's size is never met: no resize asks for more than this.
ASSUME RoomAssumption == Pow2[MaxBits] > 4 * Cardinality(Values)

VARIABLES body,   \* the set's SetBody
          call,   \* the last call
          ret     \* what it returned or raised

vars == <<body, call, ret>>

Eq(v, w) == Class[v] = Class[w]

(***************************************************************************)
(* Probing.  Every loop of the table (insert_clean, add, contains, discard) *)
(* visits the same slots: the start i, the LinearProbes slots after it when *)
(* they fit below the mask, then the next start, a multiple-and-perturb     *)
(* step.  Once the perturbation has been shifted out the starts run through *)
(* the whole table, so a sequence of this length stands for the endless     *)
(* loop: a lookup that finds no end in it never returns.                    *)
(***************************************************************************)
Sizes == {Pow2[k] : k \in MinBits .. MaxBits}
Masks == {n - 1 : n \in Sizes}
MinSize == Pow2[MinBits]

RunFrom(i, mask) == [k \in 1 .. (IF i + LinearProbes <= mask THEN LinearProbes + 1 ELSE 1) |-> i + k - 1]

FirstStart(h, mask) ==
  [i |-> h % (mask + 1), perturb |-> h, slots |-> RunFrom(h % (mask + 1), mask)]

NextStart(at, mask) ==
  LET p == at.perturb \div Pow2[PerturbShift]
      i == (at.i * 5 + 1 + p) % (mask + 1)
  IN  [i |-> i, perturb |-> p, slots |-> at.slots \o RunFrom(i, mask)]

Starts(h, mask) ==
  LET at[k \in 0 .. (HashBits + mask + 1)] ==
        IF k = 0 THEN FirstStart(h, mask) ELSE NextStart(at[k - 1], mask)
  IN  at

ProbeSeq == [h \in Hashes |-> [mask \in Masks |-> Starts(h, mask)[HashBits + mask + 1].slots]]

(***************************************************************************)
(* The table: slots from 0 to mask, fill = active + dummy, used = active.   *)
(***************************************************************************)
with_capacity(size) == [kind |-> "Table", slots |-> [i \in 0 .. (size - 1) |-> Empty], fill |-> 0, used |-> 0]

Mask(t) == Cardinality(DOMAIN t.slots) - 1
IsActive(t, i) == t.slots[i] \notin {Empty, Dummy}

\* iter_ordered and actives: the active values in slot order.
Filter(items, S) ==
  LET kept[k \in 0 .. Len(items)] ==
        IF k = 0 THEN <<>>
        ELSE IF items[k] \in S THEN Append(kept[k - 1], items[k]) ELSE kept[k - 1]
  IN  kept[Len(items)]

InSlotOrder(t) == [k \in 1 .. (Mask(t) + 1) |-> t.slots[k - 1]]
Actives(t) == Filter(InSlotOrder(t), Values)

\* The position in the probe sequence where a lookup of v ends; 0 if it never does.
LookupEnd(t, v) ==
  SelectInSeq(ProbeSeq[Hash[v]][Mask(t)],
     LAMBDA i : \/ t.slots[i] = Empty
                \/ IsActive(t, i) /\ Hash[t.slots[i]] = Hash[v] /\ Eq(t.slots[i], v))

\* The slot it ends in, given the position: an equal value's or an empty one.
EndSlot(t, v, k) == ProbeSeq[Hash[v]][Mask(t)][k]

TableContains(t, v) ==
  LET k == LookupEnd(t, v) IN k # 0 /\ t.slots[EndSlot(t, v, k)] # Empty

\* Mutant: the slot of a discarded value becomes empty.
DiscardToEmpty(t, v) ==
  LET k == LookupEnd(t, v)
  IN  IF TableContains(t, v)
      THEN [t EXCEPT !.slots[EndSlot(t, v, k)] = Empty, !.used = @ - 1, !.fill = @ - 1]
      ELSE t

TableDiscard(t, v) ==
  LET k == LookupEnd(t, v)
  IN  IF TableContains(t, v)
      THEN [t EXCEPT !.slots[EndSlot(t, v, k)] = Dummy, !.used = @ - 1]
      ELSE t

\* set_insert_clean: the first empty slot of the probe sequence, no comparison.
insert_clean(t, v) ==
  LET seq == ProbeSeq[Hash[v]][Mask(t)]
      k == SelectInSeq(seq, LAMBDA i : t.slots[i] = Empty)
  IN  IF k = 0 THEN t ELSE [t EXCEPT !.slots[seq[k]] = v]

InsertAll(t, items) ==
  LET after[k \in 0 .. Len(items)] ==
        IF k = 0 THEN t ELSE insert_clean(after[k - 1], items[k])
  IN  after[Len(items)]

NewSize(minused) ==
  CHOOSE n \in Sizes : n > minused /\ \A m \in Sizes : m > minused => n <= m

resize(t, minused) ==
  LET fresh == [with_capacity(NewSize(minused)) EXCEPT !.fill = t.used, !.used = t.used]
  IN  InsertAll(fresh, Actives(t))

MinUsed(t) == IF t.used > BigUsed THEN t.used * 2 ELSE t.used * 4

maybe_resize(t) == IF t.fill * 5 < Mask(t) * 3 THEN t ELSE resize(t, MinUsed(t))

\* set_add_entry: a new value takes the last dummy its lookup passed, else the empty slot.
Place(t, v, k) ==
  LET seq == ProbeSeq[Hash[v]][Mask(t)]
      dummies == {j \in 1 .. k : t.slots[seq[j]] = Dummy}
  IN  IF dummies # {}
      THEN [t EXCEPT !.slots[seq[CHOOSE j \in dummies : \A d \in dummies : d <= j]] = v,
                     !.used = @ + 1]
      ELSE maybe_resize([t EXCEPT !.slots[seq[k]] = v, !.fill = @ + 1, !.used = @ + 1])

TableAdd(t, v) ==
  LET k == LookupEnd(t, v) IN IF k = 0 \/ TableContains(t, v) THEN t ELSE Place(t, v, k)

TableAddAll(t, items) ==
  LET after[k \in 0 .. Len(items)] ==
        IF k = 0 THEN t ELSE TableAdd(after[k - 1], items[k])
  IN  after[Len(items)]

\* set_merge: make room, then copy the slots, insert without comparing, or add.
Presize(t, o) ==
  IF (t.fill + o.used) * 5 >= Mask(t) * 3 THEN resize(t, (t.used + o.used) * 2) ELSE t

\* Mutant: the slots are copied although the other table has tombstones.
MergeCopyingSparse(t, o) ==
  IF t.fill = 0 /\ Mask(t) = Mask(o)
  THEN [o EXCEPT !.slots = [i \in DOMAIN o.slots |-> IF IsActive(o, i) THEN o.slots[i] ELSE t.slots[i]]]
  ELSE IF t.fill = 0
  THEN InsertAll([t EXCEPT !.fill = o.used, !.used = o.used], Actives(o))
  ELSE TableAddAll(t, Actives(o))

MergeInto(t, o) ==
  IF t.fill = 0 /\ Mask(t) = Mask(o) /\ o.fill = o.used
  THEN [o EXCEPT !.slots = [i \in DOMAIN o.slots |-> IF IsActive(o, i) THEN o.slots[i] ELSE t.slots[i]]]
  ELSE IF t.fill = 0
  THEN InsertAll([t EXCEPT !.fill = o.used, !.used = o.used], Actives(o))
  ELSE TableAddAll(t, Actives(o))

merge(t, o) == MergeInto(Presize(t, o), o)

TableCompact(t) == IF t.fill - t.used > Mask(t) \div 4 THEN resize(t, MinUsed(t)) ELSE t

TablePop(t) ==
  LET first == CHOOSE i \in DOMAIN t.slots : IsActive(t, i) /\ \A j \in 0 .. (i - 1) : ~ IsActive(t, j)
  IN  [t EXCEPT !.slots[first] = Dummy, !.used = @ - 1]

TableDiscardAll(t, items) ==
  LET after[k \in 0 .. Len(items)] ==
        IF k = 0 THEN t ELSE TableDiscard(after[k - 1], items[k])
  IN  after[Len(items)]

TableToggle(t, v) == IF TableContains(t, v) THEN TableDiscard(t, v) ELSE TableAdd(t, v)

TableToggleAll(t, items) ==
  LET after[k \in 0 .. Len(items)] ==
        IF k = 0 THEN t ELSE TableToggle(after[k - 1], items[k])
  IN  after[Len(items)]

Held(t) == {v \in Hashed : TableContains(t, v)}

table_from_incremental(items) == TableAddAll(with_capacity(MinSize), items)
TableCopy(t) == merge(with_capacity(MinSize), t)
TableUnion(t, o) == merge(TableCopy(t), o)
TableIntersection(a, b) ==
  LET small == IF a.used >= b.used THEN b ELSE a
      large == IF a.used >= b.used THEN a ELSE b
  IN  table_from_incremental(Filter(Actives(small), Held(large)))
difference_update(a, b) == TableCompact(TableDiscardAll(a, Actives(b)))
TableDifference(a, b) ==
  IF a.used \div 4 > b.used THEN difference_update(TableCopy(a), b)
  ELSE table_from_incremental(Filter(Actives(a), Values \ Held(b)))
TableSymmetric(a, b) == TableToggleAll(TableCopy(b), Actives(a))
constant_literal_table(items) ==
  TableCopy(table_from_incremental(Actives(table_from_incremental(items))))

(***************************************************************************)
(* SetBody: a table, or the insertion-order fallback.                       *)
(***************************************************************************)
Fallback(items) == [kind |-> "Fallback", items |-> items]
IsTable(b) == b.kind = "Table"
BothTables(a, b) == IsTable(a) /\ IsTable(b)
empty == with_capacity(MinSize)
AllHashed(items) == \A k \in DOMAIN items : Hash[items[k]] # NoHash
from_items(items) == IF AllHashed(items) THEN table_from_incremental(items) ELSE Fallback(items)
from_constant_literal(items) ==
  IF AllHashed(items) THEN constant_literal_table(items) ELSE Fallback(items)
iter_ordered(b) == IF IsTable(b) THEN Actives(b) ELSE b.items
BodyLen(b) == IF IsTable(b) THEN b.used ELSE Len(b.items)
InSeq(items, v) == \E k \in DOMAIN items : Eq(items[k], v)

contains(b, v) == IF IsTable(b) THEN Hash[v] # NoHash /\ TableContains(b, v) ELSE InSeq(b.items, v)

add_value(b, v) ==
  IF IsTable(b) /\ Hash[v] # NoHash THEN TableAdd(b, v)
  ELSE IF InSeq(iter_ordered(b), v) THEN b
  ELSE Fallback(Append(iter_ordered(b), v))

discard_value(b, v) ==
  IF ~ contains(b, v) THEN b
  ELSE IF IsTable(b) THEN TableDiscard(b, v)
  ELSE Fallback(RemoveAt(b.items, SelectInSeq(b.items, LAMBDA x : Eq(x, v))))

pop_first(b) == IF IsTable(b) THEN TablePop(b) ELSE Fallback(Tail(b.items))
copied(b) == IF IsTable(b) THEN TableCopy(b) ELSE b
compact_if_sparse(b) == IF IsTable(b) THEN TableCompact(b) ELSE b
toggle_value(b, v) == IF contains(b, v) THEN discard_value(b, v) ELSE add_value(b, v)

add_all(b, items) ==
  LET after[k \in 0 .. Len(items)] ==
        IF k = 0 THEN b ELSE add_value(after[k - 1], items[k])
  IN  after[Len(items)]

discard_all(b, items) ==
  LET after[k \in 0 .. Len(items)] ==
        IF k = 0 THEN b ELSE discard_value(after[k - 1], items[k])
  IN  after[Len(items)]

toggle_all(b, items) ==
  LET after[k \in 0 .. Len(items)] ==
        IF k = 0 THEN b ELSE toggle_value(after[k - 1], items[k])
  IN  after[Len(items)]

merge_from(a, b) == IF BothTables(a, b) THEN merge(a, b) ELSE add_all(a, iter_ordered(b))
difference_from(a, b) ==
  IF BothTables(a, b) THEN difference_update(a, b)
  ELSE compact_if_sparse(discard_all(a, iter_ordered(b)))
union_with(a, b) == IF BothTables(a, b) THEN TableUnion(a, b) ELSE merge_from(copied(a), b)
Kept(b, items) == add_all(empty, Filter(items, {v \in Values : contains(b, v)}))
intersection_with(a, b) ==
  IF BothTables(a, b) THEN TableIntersection(a, b)
  ELSE IF BodyLen(a) >= BodyLen(b) THEN Kept(a, iter_ordered(b)) ELSE Kept(b, iter_ordered(a))
difference_with(a, b) ==
  IF BothTables(a, b) THEN TableDifference(a, b) ELSE difference_from(copied(a), b)
symmetric_difference_with(a, b) ==
  IF BothTables(a, b) THEN TableSymmetric(a, b) ELSE toggle_all(copied(b), iter_ordered(a))

(***************************************************************************)
(* The methods.  An argument is the receiver itself, another set's body, a  *)
(* list, or something that cannot be iterated.  Every method works on a     *)
(* snapshot and writes it back at the end, so a failing argument leaves the *)
(* receiver as it was.                                                      *)
(***************************************************************************)
SelfArg == [kind |-> "self"]
BadArg == [kind |-> "bad"]
SetArg(b) == [kind |-> "set", body |-> b]
ListArg(items) == [kind |-> "list", items |-> items]

IsSetArg(a) == a.kind \in {"self", "set"}
ArgSet(a, b) == IF a.kind = "self" THEN b ELSE a.body
\* iterate_value: the values an argument yields.
iterate_value(a, b) == IF IsSetArg(a) THEN iter_ordered(ArgSet(a, b)) ELSE a.items
arg_body(a, b) == IF IsSetArg(a) THEN ArgSet(a, b) ELSE from_items(a.items)

apply_union(acc, a, b) ==
  IF IsSetArg(a) THEN merge_from(acc, ArgSet(a, b)) ELSE add_all(acc, a.items)
intersect_arg(acc, a, b) ==
  IF IsSetArg(a) THEN intersection_with(acc, ArgSet(a, b)) ELSE Kept(acc, a.items)
apply_difference(acc, a, b) ==
  difference_from(acc, arg_body(a, b))

UnionAll(acc, args, b) ==
  LET after[k \in 0 .. Len(args)] ==
        IF k = 0 THEN acc ELSE apply_union(after[k - 1], args[k], b)
  IN  after[Len(args)]

IntersectAll(acc, args, b) ==
  LET after[k \in 0 .. Len(args)] ==
        IF k = 0 THEN acc ELSE intersect_arg(after[k - 1], args[k], b)
  IN  after[Len(args)]

DifferenceAll(acc, args, b) ==
  LET after[k \in 0 .. Len(args)] ==
        IF k = 0 THEN acc ELSE apply_difference(after[k - 1], args[k], b)
  IN  after[Len(args)]

\* The methods that take any number of arguments, exactly one, and the operators.
Folding == {"union", "update", "intersection", "intersection_update", "difference", "difference_update"}
Toggling == {"symmetric_difference", "symmetric_difference_update"}
Binary == {"or", "and", "sub", "rsub", "xor"}
Asking == {"issubset", "issuperset", "isdisjoint"}
Combines == Folding \cup Toggling \cup Binary

\* The receiver after the call, and the answer, for the methods that take arguments.
Combine(op, args) ==
  CASE op = "union"  -> UnionAll(copied(body), args, body)
    [] op = "update" -> UnionAll(body, args, body)
    [] op = "intersection" -> IF args = <<>> THEN copied(body) ELSE IntersectAll(body, args, body)
    [] op = "intersection_update" -> IntersectAll(body, args, body)
    [] op = "difference"   -> DifferenceAll(copied(body), args, body)
    [] op = "difference_update" -> DifferenceAll(body, args, body)
    [] op = "symmetric_difference" -> symmetric_difference_with(body, arg_body(args[1], body))
    [] op = "symmetric_difference_update" -> toggle_all(body, iter_ordered(arg_body(args[1], body)))
    [] op = "or"  -> union_with(body, ArgSet(args[1], body))
    [] op = "and" -> intersection_with(body, ArgSet(args[1], body))
    [] op = "sub" -> difference_with(body, ArgSet(args[1], body))
    [] op = "rsub" -> difference_with(ArgSet(args[1], body), body)
    [] op = "xor" -> symmetric_difference_with(body, ArgSet(args[1], body))

Ask(op, a) ==
  CASE op = "issubset"   -> \A k \in DOMAIN iter_ordered(body) : contains(arg_body(a, body), iter_ordered(body)[k])
    [] op = "issuperset" -> \A k \in DOMAIN iterate_value(a, body) : contains(body, iterate_value(a, body)[k])
    [] op = "isdisjoint" -> ~ \E k \in DOMAIN iterate_value(a, body) : contains(body, iterate_value(a, body)[k])

Answer(b) == IF b THEN "True" ELSE "False"

Init == body = empty /\ call = <<>> /\ ret = "None"

Add(v) ==
  /\ call' = <<"add", v>>
  /\ IF v \in UnhashableValues THEN ret' = "TypeError" /\ UNCHANGED body
     ELSE ret' = "None" /\ body' = add_value(body, v)

Member(v) == call' = <<"contains", v>> /\ ret' = Answer(contains(body, v)) /\ UNCHANGED body

RemoveOne(v) ==
  /\ call' = <<"remove", v>>
  /\ ret' = IF contains(body, v) THEN "None" ELSE "KeyError"
  /\ body' = discard_value(body, v)

Discard(v) == call' = <<"discard", v>> /\ ret' = "None" /\ body' = discard_value(body, v)

Pop ==
  /\ call' = <<"pop", <<>> >>
  /\ IF BodyLen(body) = 0 THEN ret' = "KeyError" /\ UNCHANGED body
     ELSE ret' = iter_ordered(body)[1] /\ body' = pop_first(body)

Clear == call' = <<"clear", <<>> >> /\ ret' = "None" /\ body' = empty
Copy == call' = <<"copy", <<>> >> /\ ret' = "None" /\ body' = copied(body)

Fails(args) == \E k \in DOMAIN args : args[k].kind = "bad"

Merge(op, args) ==
  /\ op \in Combines
  /\ call' = <<op, args>>
  /\ IF Fails(args) THEN ret' = "TypeError" /\ UNCHANGED body
     ELSE ret' = "None" /\ body' = Combine(op, args)

Compare(op, args) ==
  /\ op \in Asking
  /\ call' = <<op, args>>
  /\ ret' = IF Fails(args) THEN "TypeError" ELSE Answer(Ask(op, args[1]))
  /\ UNCHANGED body

Next ==
  \/ \E v \in Values : Add(v) \/ Member(v) \/ RemoveOne(v) \/ Discard(v)
  \/ Pop \/ Clear \/ Copy
  \/ \E c \in Calls : Merge(c[1], c[2]) \/ Compare(c[1], c[2])

Spec == Init /\ [][Next]_vars

--------------------------------------------------------------------------------
(***************************************************************************)
(* Properties.                                                              *)
(***************************************************************************)

\* What a slot may hold, and a table's shape.
Slots == Hashed \cup {Empty, Dummy}
Shaped(t) ==
  /\ t = [kind |-> "Table", slots |-> t.slots, fill |-> t.fill, used |-> t.used]
  /\ \E m \in Masks : t.slots \in [0 .. m -> Slots]
  /\ t.fill \in Nat /\ t.used \in Nat

NoDuplicates(s) == \A j, k \in DOMAIN s : Eq(s[j], s[k]) => j = k

\* The table's counters are true, its load stays under three fifths, and so
\* every lookup, of any value, ends; no two slots hold equal values, and every
\* element is where a lookup of it ends (no empty slot comes first in its probe
\* sequence).
Intact(t) ==
  /\ t.used = Cardinality({i \in DOMAIN t.slots : IsActive(t, i)})
  /\ t.fill = Cardinality({i \in DOMAIN t.slots : t.slots[i] # Empty})
  /\ t.fill * 5 < Mask(t) * 3
  /\ \A i, j \in DOMAIN t.slots : IsActive(t, i) /\ IsActive(t, j) /\ Eq(t.slots[i], t.slots[j]) => i = j
  /\ \A v \in Hashed : LookupEnd(t, v) # 0
  /\ \A i \in DOMAIN t.slots : IsActive(t, i) => TableContains(t, t.slots[i])

IsBody(b) ==
  IF IsTable(b) THEN Shaped(b) /\ Intact(b)
  ELSE b = Fallback(b.items) /\ b.items \in Seq(Values) /\ NoDuplicates(b.items)

IsArg(a) ==
  \/ a \in {SelfArg, BadArg}
  \/ a.kind = "set" /\ a = SetArg(a.body) /\ IsBody(a.body)
  \/ a.kind = "list" /\ a = ListArg(a.items) /\ a.items \in Seq(Values)

\* Another set was built by the operations here.  from_items leaves it to its
\* caller to drop the duplicates of values without a hash: arg_body does not,
\* and the two methods that toggle are not called with such a list.
ASSUME CallsAssumption ==
  /\ \A a \in Args : IsArg(a)
  /\ \A c \in Calls :
       /\ c = <<c[1], c[2]>> /\ c[1] \in Combines \cup Asking /\ c[2] \in Seq(Args)
       /\ c[1] \notin Folding => Len(c[2]) = 1
       /\ c[1] \in Binary => IsSetArg(c[2][1])
       /\ c[1] \in Toggling /\ c[2][1].kind = "list" =>
            AllHashed(c[2][1].items) \/ NoDuplicates(c[2][1].items)

\* The values the set holds, and what a call means to the abstract set.
Elements(b) == ToSet(iter_ordered(b))
Meaning(op) ==
  IF op \in {"union", "update", "or"} THEN "union"
  ELSE IF op \in {"intersection", "intersection_update", "and"} THEN "intersection"
  ELSE IF op \in {"difference", "difference_update", "sub"} THEN "difference"
  ELSE IF op = "rsub" THEN "rdifference"
  ELSE IF op \in {"symmetric_difference", "symmetric_difference_update", "xor"} THEN "symmetric"
  ELSE op
ItemsOf(a, S) ==
  IF a.kind = "self" THEN S ELSE IF a.kind = "set" THEN Elements(a.body) ELSE ToSet(a.items)
ArgSets(args, S) == {ItemsOf(args[k], S) : k \in DOMAIN args}

Abstract == INSTANCE SetAbstract
  WITH elems <- Elements(body), call <- IF call = <<>> THEN <<>> ELSE <<Meaning(call[1]), call[2]>>, ret <- ret,
       Class <- LAMBDA v : Class[v], Unhashable <- LAMBDA v : v \in UnhashableValues,
       ArgFails <- Fails, ArgItems <- ArgSets

\* Every operation of the table and of its fallback, with the receiver itself as
\* the argument too, leaves and answers what a mathematical set would: the
\* presized merges, dummy reuse, tombstones and compactions of pyset.rs lose,
\* duplicate or resurrect no element, and a call that fails changes nothing.
IsASet == Abstract!Spec

\* No two elements are equal: the duplicate checks by hash and == in add and
\* add_value, and the merges that insert without comparing, keep one of each.
\* A table is intact: its counters are true, every lookup in it ends, and an
\* element is found where it was put.
Probeable ==
  /\ NoDuplicates(iter_ordered(body))
  /\ IsTable(body) => Intact(body)
================================================================================
