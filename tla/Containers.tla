------------------------------- MODULE Containers ------------------------------
(***************************************************************************)
(* The methods of list, dict, deque and Counter (eval/functions/methods/)   *)
(* with the receivers of method_dispatch.rs.  A method changes its receiver *)
(* in place and reports how many bytes it grew or shrank by; the caller     *)
(* charges that to the memory budget without sizing the receiver again.     *)
(***************************************************************************)
EXTENDS Items

(***************************************************************************)
(* Values: texts of so many bytes, ints, and a list, which is no dict key.  *)
(***************************************************************************)
Text(n) == <<"str", n>>
Count(n) == IntIx(n)
Unkeyable == <<"list">>
Nothing == <<"none">>
Several(s) == <<"seq", s>>
Weight(x) == IF x[1] = "str" THEN x[2] ELSE 1     \* estimate_value_size, estimate_key_size
WeightOf(s) == FoldLeft(LAMBDA n, x : n + Weight(x), 0, s)

\* MethodOutcome::pure, grew and shrank; a method that raises leaves v.
MethodOutcome(v, ret, delta) == [v |-> v, ret |-> ret, delta |-> delta, e |-> NoFault]
Pure(v, ret) == MethodOutcome(v, ret, 0)
Raises(v, e) == [v |-> v, ret |-> Nothing, delta |-> 0, e |-> e]
Needs(v, a, n, out) == IF Len(a) < n THEN Raises(v, "TypeError") ELSE out

(***************************************************************************)
(* Lists.                                                                   *)
(***************************************************************************)
Occurrences(s, x) == Len(SelectSeq(s, LAMBDA y : y = x))
\* The first position of x in s from start on and before end; -1 for none.
PositionIn(s, x, start, end) ==
  LET at == {i \in start .. (end - 1) : i < Len(s) /\ At(s, i) = x} IN IF at = {} THEN -1 ELSE CHOOSE i \in at : \A j \in at : i <= j
sequence_index_range(a, len) ==
  LET clamp(i) == Bounded(FromEnd(a[i][2], len), 0, len)
      start == IF Len(a) >= 2 THEN clamp(2) ELSE 0
      end == IF Len(a) >= 3 THEN clamp(3) ELSE len
  IN  CASE Len(a) > 3 \/ \E i \in 2 .. Len(a) : ~ int_index(a[i]).ok -> Failed("TypeError")
        [] OTHER -> Done(<<start, IF end > start THEN end ELSE start>>)
list_index(s, a) ==
  LET range == sequence_index_range(a, Len(s))
      at == PositionIn(s, a[1], range.v[1], range.v[2])
  IN  CASE ~ range.ok -> Raises(s, range.e)
        [] at = -1 -> Raises(s, "ValueError")
        [] OTHER -> Pure(s, Count(at))
InsertPosition(len, i) == IF i < 0 THEN IF len + i > 0 THEN len + i ELSE 0 ELSE IF i < len THEN i ELSE len
list_insert(s, a) ==
  CASE Len(a) # 2 \/ ~ int_index(a[1]).ok -> Raises(s, "TypeError")
    [] OTHER -> MethodOutcome(InsertAt(s, InsertPosition(Len(s), a[1][2]) + 1, a[2]), Nothing, Weight(a[2]))
Taken(s, i, ret) == MethodOutcome(RemoveAt(s, i + 1), ret, - Weight(At(s, i)))
list_pop(s, a) ==
  LET i == IF a = <<>> THEN Done(Len(s) - 1) ELSE ItemPosition(Len(s), a[1])
  IN  CASE s = <<>> -> Raises(s, "IndexError")
        [] ~ i.ok -> Raises(s, i.e)
        [] OTHER -> Taken(s, i.v, At(s, i.v))
list_remove(s, a) ==
  LET i == PositionIn(s, a[1], 0, Len(s)) IN IF i = -1 THEN Raises(s, "ValueError") ELSE Taken(s, i, Nothing)

dispatch_list_method(s, m, a) ==
  CASE m = "copy" -> Pure(s, Several(s))
    [] m = "count" -> IF Len(a) # 1 THEN Raises(s, "TypeError") ELSE Pure(s, Count(Occurrences(s, a[1])))
    [] m = "index" -> Needs(s, a, 1, list_index(s, a))
    [] m = "append" -> Needs(s, a, 1, MethodOutcome(Append(s, a[1]), Nothing, Weight(a[1])))
    [] m = "extend" -> Needs(s, a, 1, IF a[1][1] # "seq" THEN Raises(s, "TypeError")
                                      ELSE MethodOutcome(s \o a[1][2], Nothing, WeightOf(a[1][2])))
    [] m = "insert" -> list_insert(s, a)
    [] m = "pop" -> list_pop(s, a)
    [] m = "remove" -> Needs(s, a, 1, list_remove(s, a))
    [] m = "reverse" -> Pure(Reverse(s), Nothing)
    [] m = "clear" -> MethodOutcome(<<>>, Nothing, - WeightOf(s))
    [] OTHER -> Raises(s, "AttributeError")
\* An argument that is the receiver itself is copied before the lock is taken.
Itself == <<"self">>
Snapped(a, copy) == [i \in DOMAIN a |-> IF a[i] = Itself THEN copy ELSE a[i]]
list_methods(s, m, a, kw) ==
  IF kw # <<>> THEN Raises(s, "TypeError") ELSE dispatch_list_method(s, m, IF m = "extend" THEN Snapped(a, Several(s)) ELSE a)

(***************************************************************************)
(* Dicts: their entries in insertion order.                                 *)
(***************************************************************************)
Keys(d) == [i \in DOMAIN d |-> d[i][1]]
Vals(d) == [i \in DOMAIN d |-> d[i][2]]
KeyAtIn(d, k) == PositionIn(Keys(d), k, 0, Len(d))
Keyed(x) == x # Unkeyable                          \* value_to_key succeeds
EntryWeight(p) == Weight(p[1]) + Weight(p[2])
DictWeight(d) == WeightOf(Keys(d)) + WeightOf(Vals(d))
\* Mutant: an entry that was there is charged as a new one.
ChargedAsNew(d, k, v) ==
  LET i == KeyAtIn(d, k) IN [v |-> IF i = -1 THEN Append(d, <<k, v>>) ELSE [d EXCEPT ![i + 1][2] = v], delta |-> EntryWeight(<<k, v>>)]
insert_entry(d, k, v) ==
  LET i == KeyAtIn(d, k)
  IN  IF i = -1 THEN [v |-> Append(d, <<k, v>>), delta |-> EntryWeight(<<k, v>>)]
      ELSE [v |-> [d EXCEPT ![i + 1][2] = v], delta |-> Weight(v) - Weight(At(d, i)[2])]
InsertEntries(d, entries) ==
  FoldLeft(LAMBDA acc, p : LET one == insert_entry(acc.v, p[1], p[2]) IN [v |-> one.v, delta |-> acc.delta + one.delta],
           [v |-> d, delta |-> 0], entries)
WithoutEntry(d, i) == RemoveAt(d, i + 1)
dict_pop(d, a) ==
  LET i == KeyAtIn(d, a[1])
  IN  CASE ~ Keyed(a[1]) -> Raises(d, "TypeError")
        [] i # -1 -> MethodOutcome(WithoutEntry(d, i), At(d, i)[2], - EntryWeight(At(d, i)))
        [] Len(a) >= 2 -> Pure(d, a[2])
        [] OTHER -> Raises(d, "KeyError")
\* A mapping gives its entries, anything else is read as pairs, all of them
\* before the first is inserted.
EntriesFrom(x) ==
  CASE x[1] = "map" -> Done(x[2])
    [] x[1] = "seq" ->
         LET bad == {i \in DOMAIN x[2] : x[2][i][1] # "seq" \/ Len(x[2][i][2]) # 2 \/ ~ Keyed(x[2][i][2][1])}
             first == x[2][CHOOSE i \in bad : \A j \in bad : i <= j]
         IN  IF bad = {} THEN Done([i \in DOMAIN x[2] |-> x[2][i][2]])
             ELSE Failed(IF first[1] = "seq" /\ Len(first[2]) # 2 THEN "ValueError" ELSE "TypeError")
    [] OTHER -> Failed("TypeError")
dict_update(d, a, kw) ==
  LET from == IF a = <<>> THEN Done(<<>>) ELSE EntriesFrom(a[1])
      new == InsertEntries(d, from.v \o kw)
  IN  CASE Len(a) > 1 -> Raises(d, "TypeError")
        [] ~ from.ok -> Raises(d, from.e)
        [] OTHER -> MethodOutcome(new.v, Nothing, new.delta)
dict_setdefault(d, a) ==
  LET i == KeyAtIn(d, a[1])
      default == IF Len(a) >= 2 THEN a[2] ELSE Nothing
  IN  CASE ~ Keyed(a[1]) -> Raises(d, "TypeError")
        [] i # -1 -> Pure(d, At(d, i)[2])
        [] OTHER -> MethodOutcome(Append(d, <<a[1], default>>), default, EntryWeight(<<a[1], default>>))
dict_move_to_end(d, a, last) ==
  LET i == KeyAtIn(d, a[1])
      rest == WithoutEntry(d, i)
  IN  CASE ~ Keyed(a[1]) -> Raises(d, "TypeError")
        [] i = -1 -> Raises(d, "KeyError")
        [] OTHER -> Pure(IF last THEN Append(rest, At(d, i)) ELSE <<At(d, i)>> \o rest, Nothing)
dict_popitem(d, last) ==
  LET i == IF last THEN Len(d) - 1 ELSE 0
  IN  IF d = <<>> THEN Raises(d, "KeyError") ELSE MethodOutcome(WithoutEntry(d, i), Several(At(d, i)), - EntryWeight(At(d, i)))
\* `last', by position i or as the keyword.
IsLast(a, i, kw) == IF Len(a) >= i THEN a[i] # Count(0) ELSE kw = <<>> \/ kw[1][2] # Count(0)

dispatch_dict_method(d, m, a, kw) ==
  CASE kw # <<>> /\ m \in {"keys", "values", "items", "get", "copy", "pop", "setdefault", "clear"} -> Raises(d, "TypeError")
    [] m = "get" -> Needs(d, a, 1, CASE ~ Keyed(a[1]) -> Raises(d, "TypeError")
                                     [] KeyAtIn(d, a[1]) # -1 -> Pure(d, At(d, KeyAtIn(d, a[1]))[2])
                                     [] OTHER -> Pure(d, IF Len(a) >= 2 THEN a[2] ELSE Nothing))
    [] m = "keys" -> Pure(d, Several(Keys(d)))
    [] m = "values" -> Pure(d, Several(Vals(d)))
    [] m = "items" -> Pure(d, Several(d))
    [] m = "copy" -> Pure(d, Several(d))
    [] m = "pop" -> Needs(d, a, 1, dict_pop(d, a))
    [] m = "update" -> dict_update(d, a, kw)
    [] m = "setdefault" -> Needs(d, a, 1, dict_setdefault(d, a))
    [] m = "clear" -> MethodOutcome(<<>>, Nothing, - DictWeight(d))
    [] m = "move_to_end" -> Needs(d, a, 1, dict_move_to_end(d, a, IsLast(a, 2, kw)))
    [] m = "popitem" -> dict_popitem(d, IsLast(a, 1, kw))
    [] OTHER -> Raises(d, "AttributeError")
\* The dict's own items view is no mapping: reading it takes the lock again.
ItsView == <<"view">>
dict_methods(d, m, a, kw) ==
  CASE m \in {"keys", "values", "items"} /\ a # <<>> -> Raises(d, "TypeError")
    [] m = "update" /\ ItsView \in ToSet(a) -> Raises(d, "hang")
    [] OTHER -> dispatch_dict_method(d, m, IF m = "update" THEN Snapped(a, <<"map", d>>) ELSE a, kw)

(***************************************************************************)
(* Deques: [items, maxlen], <<>> for no maxlen.                             *)
(***************************************************************************)
Over(items, maxlen) == IF maxlen # <<>> /\ Len(items) > maxlen[1] THEN Len(items) - maxlen[1] ELSE 0
PushBack(acc, maxlen, x) ==
  LET all == Append(acc.v, x)  n == Over(all, maxlen)
  IN  [v |-> Sub(all, n, Len(all)), delta |-> acc.delta + Weight(x) - WeightOf(Sub(all, 0, n))]
PushFront(acc, maxlen, x) ==
  LET all == <<x>> \o acc.v  n == Over(all, maxlen)
  IN  [v |-> Sub(all, 0, Len(all) - n), delta |-> acc.delta + Weight(x) - WeightOf(Sub(all, Len(all) - n, Len(all)))]
Pushed(d, acc) == MethodOutcome([d EXCEPT !.items = acc.v], Nothing, acc.delta)
deque_extend(d, a, left) ==
  LET push(acc, x) == IF left THEN PushFront(acc, d.maxlen, x) ELSE PushBack(acc, d.maxlen, x)
  IN  IF a[1][1] # "seq" THEN Raises(d, "TypeError") ELSE Pushed(d, FoldLeft(push, [v |-> d.items, delta |-> 0], a[1][2]))
RotateRight(s, n) == Sub(s, Len(s) - n, Len(s)) \o Sub(s, 0, Len(s) - n)
deque_rotate(d, a) ==
  LET n == IF a = <<>> THEN 1 ELSE a[1][2]
  IN  CASE a # <<>> /\ a[1][1] \notin {"int", "bool"} -> Raises(d, "TypeError")
        [] d.items = <<>> -> Pure(d, Nothing)
        [] OTHER -> Pure([d EXCEPT !.items = RotateRight(d.items, n % Len(d.items))], Nothing)
deque_insert(d, a) ==
  LET i == Bounded(a[1][2], - Len(d.items), Len(d.items))
      at == IF i < 0 THEN i + Len(d.items) ELSE i
      x == IF Len(a) >= 2 THEN a[2] ELSE Nothing
  IN  CASE a = <<>> \/ a[1][1] \notin {"int", "bool"} -> Raises(d, "TypeError")
        [] d.maxlen # <<>> /\ Len(d.items) >= d.maxlen[1] -> Raises(d, "IndexError")
        [] OTHER -> MethodOutcome([d EXCEPT !.items = InsertAt(@, at + 1, x)], Nothing, Weight(x))
DequeTaken(d, i, ret) == MethodOutcome([d EXCEPT !.items = RemoveAt(@, i + 1)], ret, - Weight(At(d.items, i)))
DequePop(d, i) == IF d.items = <<>> THEN Raises(d, "IndexError") ELSE DequeTaken(d, i, At(d.items, i))
deque_find(d, m, x) ==
  LET i == PositionIn(d.items, x, 0, Len(d.items))
  IN  CASE m = "count" -> Pure(d, Count(Occurrences(d.items, x)))
        [] i = -1 -> Raises(d, "ValueError")
        [] m = "index" -> Pure(d, Count(i))
        [] m = "remove" -> DequeTaken(d, i, Nothing)

dispatch_deque_method(d, m, a, kw) ==
  CASE kw # <<>> -> Raises(d, "TypeError")
    [] m = "append" -> Needs(d, a, 1, Pushed(d, PushBack([v |-> d.items, delta |-> 0], d.maxlen, a[1])))
    [] m = "appendleft" -> Needs(d, a, 1, Pushed(d, PushFront([v |-> d.items, delta |-> 0], d.maxlen, a[1])))
    [] m = "pop" -> DequePop(d, Len(d.items) - 1)
    [] m = "popleft" -> DequePop(d, 0)
    [] m \in {"extend", "extendleft"} -> Needs(d, a, 1, deque_extend(d, a, m = "extendleft"))
    [] m = "rotate" -> deque_rotate(d, a)
    [] m = "clear" -> MethodOutcome([d EXCEPT !.items = <<>>], Nothing, - WeightOf(d.items))
    [] m = "copy" -> Pure(d, Several(d.items))
    [] m \in {"index", "count", "remove"} -> Needs(d, a, 1, deque_find(d, m, a[1]))
    [] m = "insert" -> deque_insert(d, a)
    [] m = "reverse" -> Pure([d EXCEPT !.items = Reverse(@)], Nothing)
    [] OTHER -> Raises(d, "AttributeError")

(***************************************************************************)
(* Counters: dicts of counts.                                               *)
(***************************************************************************)
Tally(v) == IF v[1] = "int" THEN v[2] ELSE 0
TallyOf(d, k) == IF KeyAtIn(d, k) = -1 THEN 0 ELSE Tally(At(d, KeyAtIn(d, k))[2])
\* One entry: a count that is no int adds nothing but is still entered.
Bump(acc, k, n) == LET one == insert_entry(acc.v, k, Count(TallyOf(acc.v, k) + n)) IN [v |-> one.v, delta |-> acc.delta + one.delta]
\* A mapping is added entry by entry; an iterable item by item, and an item
\* that is no key stops it with the items before it counted.
counter_apply_in_place(d, x, sign) ==
  LET start == [v |-> d, delta |-> 0]
      bad == {i \in DOMAIN x[2] : ~ Keyed(x[2][i])}
      upto == IF bad = {} THEN Len(x[2]) ELSE (CHOOSE i \in bad : \A j \in bad : i <= j) - 1
      counted == FoldLeft(LAMBDA acc, k : Bump(acc, k, sign), start, SubSeq(x[2], 1, upto))
  IN  CASE x[1] = "map" -> LET all == FoldLeft(LAMBDA acc, p : Bump(acc, p[1], sign * Tally(p[2])), start, x[2])
                           IN  MethodOutcome(all.v, Nothing, all.delta)
        [] x[1] # "seq" -> Raises(d, "TypeError")
        [] bad # {} -> Raises(counted.v, "TypeError")
        [] OTHER -> MethodOutcome(counted.v, Nothing, counted.delta)
\* A keyword whose value is no int is skipped.
counter_apply_kwargs(out, kw, sign) ==
  LET all == FoldLeft(LAMBDA acc, p : IF p[2][1] = "int" THEN Bump(acc, p[1], sign * p[2][2]) ELSE acc, [v |-> out.v, delta |-> out.delta], kw)
  IN  IF out.e # NoFault THEN out ELSE MethodOutcome(all.v, Nothing, all.delta)
CounterApply(d, a, kw, sign) == counter_apply_kwargs(IF a = <<>> THEN Pure(d, Nothing) ELSE counter_apply_in_place(d, a[1], sign), kw, sign)
most_common(d, a) ==
  LET ranked == SortSeq([i \in DOMAIN d |-> <<d[i][1], Tally(d[i][2]), i>>], LAMBDA p, q : p[2] > q[2] \/ (p[2] = q[2] /\ p[3] < q[3]))
      n == CASE a = <<>> \/ a[1] = Nothing -> Len(d) [] a[1][2] < 0 -> 0 [] a[1][2] > Len(d) -> Len(d) [] OTHER -> a[1][2]
  IN  IF a # <<>> /\ a[1][1] \notin {"int", "bool", "none"} THEN Raises(d, "TypeError")
      ELSE Pure(d, Several([i \in 1 .. n |-> <<ranked[i][1], Count(ranked[i][2])>>]))
elements(d) == Several(FlattenSeq([i \in DOMAIN d |-> [j \in 1 .. Tally(d[i][2]) |-> d[i][1]]]))
total(d) == Count(FoldLeft(LAMBDA n, p : n + Tally(p[2]), 0, d))

dispatch_counter_method(d, m, a, kw) ==
  CASE m \in {"keys", "values", "items", "get", "copy", "pop", "setdefault", "clear"} -> dispatch_dict_method(d, m, a, kw)
    [] m \in {"subtract", "update"} -> CounterApply(d, a, kw, IF m = "update" THEN 1 ELSE -1)
    [] kw # <<>> -> Raises(d, "TypeError")
    [] m = "most_common" -> most_common(d, a)
    [] m = "elements" -> Pure(d, elements(d))
    [] m = "total" -> Pure(d, total(d))
    [] OTHER -> Raises(d, "AttributeError")

(***************************************************************************)
(* Constructors: collections.rs.                                            *)
(***************************************************************************)
\* Each takes an iterable or a mapping, or nothing.
new_deque(a, maxlen) ==
  LET items == IF a = <<>> \/ a[1] = Nothing THEN <<>> ELSE a[1][2]
      cap == IF maxlen = Nothing THEN <<>> ELSE <<maxlen[2]>>
  IN  CASE a # <<>> /\ a[1][1] \notin {"seq", "none"} -> Failed("TypeError")
        [] maxlen[1] \notin {"int", "none"} -> Failed("TypeError")
        [] maxlen # Nothing /\ maxlen[2] < 0 -> Failed("ValueError")
        [] OTHER -> Done([items |-> Sub(items, Over(items, cap), Len(items)), maxlen |-> cap])
new_counter(a, kw) ==
  LET counts == CASE a = <<>> -> Done(<<>>)
                  [] a[1][1] = "map" -> Done(a[1][2])
                  [] a[1][1] # "seq" \/ Unkeyable \in ToSet(a[1][2]) -> Failed("TypeError")
                  [] OTHER -> Done(FoldLeft(LAMBDA d, k : insert_entry(d, k, Count(TallyOf(d, k) + 1)).v, <<>>, a[1][2]))
  IN  Then(counts, LAMBDA d : InsertEntries(d, kw).v)
new_ordered_dict(a, kw) ==
  Then(IF a = <<>> THEN Done(<<>>) ELSE EntriesFrom(a[1]), LAMBDA entries : InsertEntries(<<>>, entries \o kw).v)
================================================================================
