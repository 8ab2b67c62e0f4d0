---------------------------- MODULE LibraryPrograms ----------------------------
(***************************************************************************)
(* Small programs over the containers and the library, and what Python says *)
(* of them: a method is defined by the subscripts it abbreviates, a heap by *)
(* its order, an iterator by the items it gives and takes, a cache by what  *)
(* was used last.                                                           *)
(***************************************************************************)
EXTENDS Library, FiniteSets

(***************************************************************************)
(* A program of method calls [m, a, kw] on a container of one kind.         *)
(***************************************************************************)
CallMethod(kind, v, c) ==
  CASE kind = "list" -> list_methods(v, c.m, c.a, c.kw)
    [] kind = "dict" -> dict_methods(v, c.m, c.a, c.kw)
    [] kind = "deque" -> dispatch_deque_method(v, c.m, c.a, c.kw)
    [] kind = "counter" -> dispatch_counter_method(v, c.m, c.a, c.kw)
Construct(q) == CASE q.kind = "list" -> Done(q.init)
                  [] q.kind = "dict" -> new_ordered_dict(<<Several(q.init)>>, <<>>)
                  [] q.kind = "deque" -> new_deque(<<Several(q.init)>>, q.maxlen)
                  [] q.kind = "counter" -> new_counter(<<Several(q.init)>>, <<>>)
\* Every call with its receiver before it; a fault is caught, the next call goes on.
RunMethodCalls(q) ==
  LET made == Construct(q)
      call(acc, c) == LET out == CallMethod(q.kind, acc.v, c) IN [v |-> out.v, steps |-> Append(acc.steps, <<acc.v, c, out>>)]
  IN  IF made.ok THEN FoldLeft(call, [v |-> made.v, steps |-> <<>>], q.calls).steps ELSE <<>>

Spliced(s, lo, hi, xs) == set_slice(s, lo, hi, Absent, xs).v
EndOf(s) == IntIx(Len(s))
Where(s, x) == {i \in 1 .. Len(s) : s[i] = x}
Least1(S) == CHOOSE i \in S : \A j \in S : i <= j
\* What list and deque have in common, by the subscripts of the documentation:
\* s.insert(i, x) is s[i:i] = [x], s.append(x) is s[len(s):] = [x], and so on.
SeqMeets(s, m, a, new, out) ==
  CASE m = "append" -> new = Spliced(s, EndOf(s), Absent, a)
    [] m = "extend" -> a[1][1] = "seq" => new = Spliced(s, EndOf(s), Absent, a[1][2])
    [] m = "insert" -> new = Spliced(s, a[1], a[1], <<a[2]>>)
    [] m = "pop" -> LET i == IF a = <<>> THEN IntIx(-1) ELSE a[1]
                    IN  IF sequence_get_item(s, i).ok THEN out.ret = sequence_get_item(s, i).v /\ new = list_del_item(s, i).v
                        ELSE out.e = "IndexError"
    [] m = "remove" -> IF Where(s, a[1]) = {} THEN out.e = "ValueError" ELSE new = RemoveAt(s, Least1(Where(s, a[1])))
    [] m = "reverse" -> new = apply_value_slice(s, Absent, Absent, IntIx(-1)).v
    [] m = "clear" -> new = <<>>
    [] m = "count" -> out.ret = Count(Cardinality(Where(s, a[1]))) /\ new = s
    [] m = "copy" -> out.ret = Several(s) /\ new = s
    [] m = "index" -> LET ps == PyPositions(IF Len(a) >= 2 THEN a[2] ELSE Absent, IF Len(a) >= 3 THEN a[3] ELSE Absent, 1, Len(s))
                          at == {p \in ToSet(ps) : At(s, p) = a[1]}
                      IN  new = s /\ IF at = {} THEN out.e = "ValueError" ELSE out.ret = Count(Least1(at))
\* A bounded deque is the end of the list it would be, or its start when the
\* items come in on the left.
LastN(s, cap) == IF cap = <<>> \/ Len(s) <= cap[1] THEN s ELSE SubSeq(s, Len(s) - cap[1] + 1, Len(s))
FirstN(s, cap) == IF cap = <<>> \/ Len(s) <= cap[1] THEN s ELSE SubSeq(s, 1, cap[1])
DequeMeets(d, m, a, out) ==
  LET s == d.items  new == out.v.items
  IN  /\ out.v.maxlen = d.maxlen /\ (d.maxlen # <<>> => Len(new) <= d.maxlen[1])
      /\ CASE m = "append" -> new = LastN(Append(s, a[1]), d.maxlen)
           [] m = "appendleft" -> new = FirstN(<<a[1]>> \o s, d.maxlen)
           [] m = "extend" -> new = LastN(s \o a[1][2], d.maxlen)
           [] m = "extendleft" -> new = FirstN(Reverse(a[1][2]) \o s, d.maxlen)
           [] m = "popleft" -> IF s = <<>> THEN out.e = "IndexError" ELSE out.ret = s[1] /\ new = Tail(s)
           [] m = "rotate" -> Len(new) = Len(s) /\ \A i \in 0 .. (Len(s) - 1) : At(new, (i + (IF a = <<>> THEN 1 ELSE a[1][2])) % Len(s)) = At(s, i)
           [] m = "insert" /\ d.maxlen # <<>> /\ Len(s) >= d.maxlen[1] -> out.e = "IndexError"
           [] OTHER -> SeqMeets(s, m, a, new, out)

EntriesOf(d) == [k \in ToSet(Keys(d)) |-> d[Least1({i \in DOMAIN d : d[i][1] = k})][2]]
NewKeys(d, new) == ToSet(Keys(new)) \ ToSet(Keys(d))
\* Keys that stay keep their order, keys that come go last.
KeepsOrder(d, new) ==
  /\ Cardinality(ToSet(Keys(new))) = Len(new)
  /\ SelectSeq(Keys(d), LAMBDA k : k \in ToSet(Keys(new))) \o SelectSeq(Keys(new), LAMBDA k : k \in NewKeys(d, new)) = Keys(new)
Given1(c, d) == (IF c.a = <<>> THEN <<>> ELSE CASE c.a[1] = Itself -> d [] c.a[1][1] = "map" -> c.a[1][2] [] OTHER -> [i \in DOMAIN c.a[1][2] |-> c.a[1][2][i][2]]) \o c.kw
Overrides(d, entries) == EntriesOf(Reverse(d \o entries))
DictMeets(d, c, out) ==
  LET f == EntriesOf(d)  g == EntriesOf(out.v)  has == c.a # <<>> /\ c.a[1] \in DOMAIN f
      default == IF Len(c.a) >= 2 THEN c.a[2] ELSE Nothing
      less(k) == [x \in DOMAIN f \ {k} |-> f[x]]
  IN  /\ c.m # "move_to_end" => KeepsOrder(d, out.v)
      /\ CASE c.m = "get" -> out.ret = IF has THEN f[c.a[1]] ELSE default
           [] c.m = "pop" -> IF has THEN out.ret = f[c.a[1]] /\ g = less(c.a[1])
                             ELSE IF Len(c.a) >= 2 THEN out.ret = default ELSE out.e = "KeyError"
           [] c.m = "setdefault" -> g = (IF has THEN f ELSE [x \in DOMAIN f \cup {c.a[1]} |-> IF x = c.a[1] THEN default ELSE f[x]]) /\ out.ret = g[c.a[1]]
           [] c.m = "update" -> out.e = NoFault => g = Overrides(d, Given1(c, d))
           [] c.m = "popitem" -> IF d = <<>> THEN out.e = "KeyError"
                                 ELSE LET p == IF IsLast(c.a, 1, c.kw) THEN Last(d) ELSE Head(d) IN out.ret = Several(p) /\ g = less(p[1])
           [] c.m = "move_to_end" -> IF has THEN /\ g = f /\ (IF IsLast(c.a, 2, c.kw) THEN Last(out.v) ELSE Head(out.v))[1] = c.a[1]
                                                 /\ \A i, j \in DOMAIN out.v : i < j /\ c.a[1] \notin {out.v[i][1], out.v[j][1]} =>
                                                      KeyAtIn(d, out.v[i][1]) < KeyAtIn(d, out.v[j][1])
                                     ELSE out.e = "KeyError"
           [] c.m = "clear" -> out.v = <<>>
           [] OTHER -> out.v = d
\* Counting: what comes in is added to, or taken from, what was there.
Times(x, k) == IF x[1] = "map" THEN TallyOf(x[2], k) ELSE Cardinality(Where(x[2], k))
CounterMeets(d, c, out) ==
  LET sign == IF c.m = "update" THEN 1 ELSE -1
      add(k) == (IF c.a = <<>> THEN 0 ELSE Times(c.a[1], k)) + TallyOf(c.kw, k)
      sum == {<<k, TallyOf(d, k)>> : k \in ToSet(Keys(d))}
  IN  CASE c.m \in {"update", "subtract"} -> \A k \in ToSet(Keys(d)) \cup ToSet(Keys(out.v)) : TallyOf(out.v, k) = TallyOf(d, k) + sign * add(k)
        [] c.m = "elements" -> \A k \in ToSet(Keys(d)) : Cardinality(Where(out.ret[2], k)) = IF TallyOf(d, k) > 0 THEN TallyOf(d, k) ELSE 0
        [] c.m = "total" -> out.ret[2] + 0 = FoldLeft(LAMBDA n, k : n + TallyOf(d, k), 0, Keys(d))
        [] c.m = "most_common" -> LET top == out.ret[2]
                                  IN  /\ \A i \in DOMAIN top : <<top[i][1], top[i][2][2]>> \in sum
                                      /\ \A i, j \in DOMAIN top : i < j => top[i][2][2] >= top[j][2][2]
                                      /\ \A p \in sum : (\A i \in DOMAIN top : top[i][1] # p[1]) => \A i \in DOMAIN top : top[i][2][2] >= p[2]
        [] OTHER -> DictMeets(d, c, out)

BytesIn(kind, v) == CASE kind = "list" -> WeightOf(v) [] kind = "deque" -> WeightOf(v.items) [] OTHER -> DictWeight(v)
\* Left out: a call the code answers otherwise than Python (the dict's own
\* view), and the charge of a Counter stopped in the middle of an update.
MethodMeets(kind, d, c, out) ==
  /\ out.e \in {"hang"} \/ kind = "counter" \/ (out.e # NoFault => out.v = d)
  /\ (kind = "counter" /\ out.e # NoFault) \/ out.delta = BytesIn(kind, out.v) - BytesIn(kind, d)
  /\ out.e \in {"TypeError", "AttributeError", "hang"} \/ CASE kind = "list" -> SeqMeets(d, c.m, IF c.a = <<Itself>> THEN <<Several(d)>> ELSE c.a, out.v, out)
                                          [] kind = "deque" -> DequeMeets(d, c.m, c.a, out)
                                          [] kind = "dict" -> DictMeets(d, c, out)
                                          [] kind = "counter" -> CounterMeets(d, c, out)
MethodsMeet(q, steps) == \A i \in DOMAIN steps : MethodMeets(q.kind, steps[i][1], steps[i][2], steps[i][3])

(***************************************************************************)
(* Heaps and searches.                                                      *)
(***************************************************************************)
RunHeap(q) ==
  LET h == heapify(q.s).v
      n == Len(q.s)
  IN  [made |-> heapify(q.s), push |-> heappush(h, q.x), pop |-> pop_min(h), pushpop |-> heappushpop(h, q.x), replace |-> heapreplace(h, q.x),
       small |-> n_extreme(q.n, [i \in 1 .. n |-> <<q.s[i], <<q.s[i], i>> >>], FALSE),
       large |-> n_extreme(q.n, [i \in 1 .. n |-> <<q.s[i], <<q.s[i], i>> >>], TRUE)]
IsHeap(h) == \A i \in DOMAIN h : i > 1 => h[i \div 2][2] <= h[i][2]
SameBag(s, t) == Len(s) = Len(t) /\ \A x \in ToSet(s) : Cardinality(Where(s, x)) = Cardinality(Where(t, x))
Minimal(x, s) == x \in ToSet(s) /\ \A y \in ToSet(s) : x[2] <= y[2]
Extremes(s, n, out, up) ==
  /\ Len(out) = (IF n > Len(s) THEN Len(s) ELSE IF n < 0 THEN 0 ELSE n)
  /\ \A i, j \in DOMAIN out : i < j => IF out[i][1][2] = out[j][1][2] THEN out[i][2] < out[j][2] ELSE (out[i][1][2] < out[j][1][2]) = up
  /\ \A i \in DOMAIN s : <<s[i], i>> \notin ToSet(out) =>
       \A j \in DOMAIN out : IF out[j][1][2] = s[i][2] THEN out[j][2] < i ELSE (out[j][1][2] < s[i][2]) = up
Uniform(s) == \A i, j \in DOMAIN s : s[i][1] = s[j][1]
HeapMeets(q, out) ==
  Uniform(Append(q.s, q.x)) =>
    LET h == out.made.v
    IN  /\ IsHeap(h) /\ SameBag(h, q.s)
        /\ IsHeap(out.push.v) /\ SameBag(out.push.v, Append(q.s, q.x))
        /\ IF q.s = <<>> THEN {out.pop.e, out.replace.e} = {"IndexError"} /\ out.pushpop.ret = q.x
           ELSE /\ Minimal(out.pop.ret, q.s) /\ Minimal(out.pushpop.ret, Append(q.s, q.x)) /\ Minimal(out.replace.ret, q.s)
                /\ IsHeap(out.pop.v) /\ SameBag(Append(out.pop.v, out.pop.ret), q.s)
                /\ IsHeap(out.pushpop.v) /\ SameBag(Append(out.pushpop.v, out.pushpop.ret), Append(q.s, q.x))
                /\ IsHeap(out.replace.v) /\ SameBag(Append(out.replace.v, out.replace.ret), Append(q.s, q.x))
        /\ Extremes(q.s, q.n, out.small.v, TRUE) /\ Extremes(q.s, q.n, out.large.v, FALSE)

Smaller(a, b) == IF a < b THEN a ELSE b
LeftOver(q) == Sub(q.s, 0, Smaller(q.keep, Len(q.s)))     \* the list after a key function that drops items
RunBisect(q) ==
  [left |-> bisect(q.s, q.x, q.lo, q.hi, FALSE), right |-> bisect(q.s, q.x, q.lo, q.hi, TRUE),
   ins |-> insort(q.s, q.s, q.x, q.lo, q.hi, TRUE), cut |-> insort(q.s, LeftOver(q), q.x, q.lo, q.hi, FALSE)]
AtMost(s) == \A i, j \in DOMAIN s : i < j => s[i][2] <= s[j][2]
\* The search splits the part between lo and hi; an insertion keeps the order.
BisectMeets(q, out) ==
  LET lo == IF q.lo = Nothing THEN 0 ELSE q.lo[2]
      hi == IF q.hi = Nothing \/ q.hi[2] > Len(q.s) THEN Len(q.s) ELSE q.hi[2]
  IN  Uniform(Append(q.s, q.x)) /\ q.lo[1] # "str" /\ lo \in 0 .. Len(q.s) /\ hi >= 0 =>
        /\ \A i \in lo .. (hi - 1) : (i < out.left.v <=> At(q.s, i)[2] < q.x[2]) /\ (i < out.right.v <=> At(q.s, i)[2] <= q.x[2])
        /\ {out.left.v, out.right.v} \subseteq lo .. (IF hi > lo THEN hi ELSE lo)
        /\ SameBag(out.ins.v, Append(q.s, q.x)) /\ (out.cut.ok => SameBag(out.cut.v, Append(LeftOver(q), q.x)))
        /\ lo = 0 /\ hi = Len(q.s) => AtMost(out.ins.v)

(***************************************************************************)
(* Iterators: asked for k items.                                            *)
(***************************************************************************)
RunIterators(q) ==
  LET s == q.s  n == Len(q.s) + 2
      both(eager, lazy) == [eager |-> eager, lazy |-> lazy]
  IN  [islice |-> IF ~ IsliceOk(q.start, q.stop, q.step) THEN Failed("ValueError")
                  ELSE Done(both(islice(s, q.start, q.stop, q.step).v, [k \in 0 .. n |-> synthesize_islice(s, q.start, q.stop, q.step, k)])),
       takewhile |-> both(takewhile(s, q.pred), [k \in 0 .. n |-> lazy_takewhile(s, q.pred, k)]),
       dropwhile |-> both(dropwhile(s, q.pred), [k \in 0 .. n |-> lazy_dropwhile(s, q.pred, k)]),
       filterfalse |-> both(filterfalse(s, q.pred), [k \in 0 .. n |-> lazy_filterfalse(s, q.pred, k)]),
       accumulate |-> both(accumulate(s, q.initial), [k \in 0 .. n |-> lazy_accumulate(s, q.initial, k)]),
       pairwise |-> both(pairwise(s), [k \in 0 .. n |-> lazy_pairwise(s, k)]),
       compress |-> both(compress(s, q.sel), [k \in 0 .. n |-> lazy_compress(s, q.sel, k)]),
       groupby |-> groupby(s)]
\* The eager list cut after k items is what the generator gave, and with k
\* items given it has taken `needs' items of the source.
Streams(r, needs(_), all) ==
  \A k \in DOMAIN r.lazy :
    /\ r.lazy[k].out = SubSeq(r.eager, 1, IF k < Len(r.eager) THEN k ELSE Len(r.eager))
    /\ r.lazy[k].pulled = IF k <= Len(r.eager) THEN IF k = 0 THEN 0 ELSE needs(k) ELSE all
NthNot(s, pred, k) == SelectSeq([i \in DOMAIN s |-> i], LAMBDA i : s[i] \notin pred)[k]
IteratorsMeet(q, out) ==
  LET s == q.s  n == Len(q.s)
      start == IF q.start = Nothing THEN 0 ELSE q.start[2]
      stop == IF q.stop = Nothing THEN n ELSE Smaller(q.stop[2], n)
      step == IF q.step = Nothing THEN 1 ELSE q.step[2]
      seeded == IF q.initial = Nothing THEN 0 ELSE 1
      chosen == SelectSeq([i \in 1 .. Smaller(n, Len(q.sel)) |-> i], LAMBDA i : q.sel[i])
      offset == n - Len(out.dropwhile.eager)
  IN  /\ IF start < 0 \/ stop < 0 \/ step < 1 THEN out.islice = Failed("ValueError")
         ELSE /\ out.islice.v.eager = [i \in 1 .. Cardinality({p \in start .. (stop - 1) : (p - start) % step = 0}) |-> At(s, start + (i - 1) * step)]
              \* Asked for no items at all the generator still gives its first:
              \* see the README.  Python takes `start' items when they are more.
              /\ q.stop # IntIx(0) /\ start <= stop => Streams(out.islice.v, LAMBDA k : start + (k - 1) * step + 1, stop)
      /\ \A i \in DOMAIN s : i <= Len(out.takewhile.eager) => s[i] \in q.pred
      /\ Streams(out.takewhile, LAMBDA k : k, Smaller(Len(out.takewhile.eager) + 1, n))
      /\ out.takewhile.eager \o out.dropwhile.eager = s /\ (out.dropwhile.eager # <<>> => out.dropwhile.eager[1] \notin q.pred)
      /\ Streams(out.dropwhile, LAMBDA k : offset + k, n)
      /\ Streams(out.filterfalse, LAMBDA k : NthNot(s, q.pred, k), n)
      /\ Streams(out.accumulate, LAMBDA k : k - seeded, n)
      /\ \A i \in DOMAIN s : i > 1 => out.accumulate.eager[i + seeded] - out.accumulate.eager[i + seeded - 1] = s[i]
      /\ Streams(out.pairwise, LAMBDA k : k + 1, n)
      /\ Streams(out.compress, LAMBDA k : chosen[k], Smaller(n, Len(q.sel) + 1))
      /\ FlattenSeq([i \in DOMAIN out.groupby |-> out.groupby[i][2]]) = s
      /\ \A i \in DOMAIN out.groupby : /\ \A x \in ToSet(out.groupby[i][2]) : x % 2 = out.groupby[i][1]
                                       /\ i > 1 => out.groupby[i - 1][1] # out.groupby[i][1]

\* The combinatorics of n distinct items, r at a time: every choice of
\* positions once, in lexicographic order.
RunChoices(q) ==
  LET s == [i \in 1 .. q.n |-> i]
  IN  [comb |-> combinations(s, q.r), rep |-> combinations_with_replacement(s, q.r), perm |-> permutations(s, q.r),
       prod |-> product(<<s>>, q.r), batches |-> batched(s, q.r),
       zip |-> zip_longest(<<s, [i \in 1 .. q.r |-> 10 + i]>>, 0)]
Before1(t, u) == \E i \in DOMAIN t : t[i] < u[i] /\ SubSeq(t, 1, i - 1) = SubSeq(u, 1, i - 1)
Enumerates(out, S) == ToSet(out) = S /\ \A i \in 1 .. (Len(out) - 1) : Before1(out[i], out[i + 1])
ChoicesMeet(q, out) ==
  LET all == [1 .. q.r -> 1 .. q.n]
  IN  /\ Enumerates(out.prod, all)
      /\ Enumerates(out.perm, {t \in all : \A i, j \in 1 .. q.r : i # j => t[i] # t[j]})
      /\ Enumerates(out.comb, {t \in all : \A i, j \in 1 .. q.r : i < j => t[i] < t[j]})
      /\ Enumerates(out.rep, {t \in all : \A i, j \in 1 .. q.r : i < j => t[i] <= t[j]})
      /\ q.r > 0 => /\ FlattenSeq(out.batches.v) = [i \in 1 .. q.n |-> i]
                    /\ \A i \in DOMAIN out.batches.v : Len(out.batches.v[i]) \in 1 .. q.r /\ (i < Len(out.batches.v) => Len(out.batches.v[i]) = q.r)
      /\ Len(out.zip) = (IF q.n > q.r THEN q.n ELSE q.r)
      /\ \A i \in DOMAIN out.zip : out.zip[i] = <<IF i <= q.n THEN i ELSE 0, IF i <= q.r THEN 10 + i ELSE 0>>

(***************************************************************************)
(* lru_cache: the calls of a program, each caught when it raises.           *)
(***************************************************************************)
RunCache(q) ==
  LET max == parse_maxsize(q.max)
      call(acc, c) == LET w == lru_call(q.f, [acc.w EXCEPT !.e = NoFault], c)
                      IN  [w |-> w, rets |-> Append(acc.rets, IF w.e = NoFault THEN w.ret ELSE Nothing)]
  IN  IF max.ok THEN FoldLeft(call, [w |-> Lru(max.v), rets |-> <<>>], q.calls) ELSE [w |-> Lru(<<>>), rets |-> <<>>]
\* The keys used, each where it was used last; the cache holds the end of it.
Recent(uses) == SelectSeq([i \in DOMAIN uses |-> i], LAMBDA i : \A j \in DOMAIN uses : j > i => uses[j] # uses[i])
RecentKeys(uses) == LET at == Recent(uses) IN [i \in DOMAIN at |-> uses[at[i]]]
CacheMeets(q, out) ==
  LET w == out.w
      returned == [i \in DOMAIN q.calls |-> q.f[Meaning(q.calls[i])].ret]
  IN  /\ \A i \in DOMAIN out.rets : out.rets[i] \in {returned[i], Nothing}
      /\ \A i \in DOMAIN w.cache : \E c \in DOMAIN q.f : LruKey([pos |-> c.pos, kw |-> SetToSeq(c.kw)]) = w.cache[i][1] /\ q.f[c].ret = w.cache[i][2]
      /\ w.max \notin {<<>>, <<0>>} => Len(w.cache) <= w.max[1]
      /\ w.max # <<0>> /\ w.again = {} => Keys(w.cache) = LastN(RecentKeys(w.uses), w.max)
      /\ w.max = <<0>> => w.cache = <<>> /\ w.hits = 0
      /\ (\A c \in DOMAIN q.f : \A i \in DOMAIN q.f[c].body : q.f[c].body[i].t \in {"call", "once"}) => w.hits + w.misses = Len(w.uses)
================================================================================
