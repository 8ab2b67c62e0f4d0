-------------------------------- MODULE Library --------------------------------
(***************************************************************************)
(* The algorithms of the standard library modules: heapq.rs, bisect.rs,     *)
(* itertools.rs and the lru_cache of functools.rs, whose memo table is read *)
(* before the wrapped function runs and written after it (dispatch.rs).     *)
(***************************************************************************)
EXTENDS Containers

(***************************************************************************)
(* heapq: a heap in a list.  Values of two kinds do not compare.            *)
(***************************************************************************)
compare_lt(x, y) == IF x[1] # y[1] THEN Failed("TypeError") ELSE Done(x[2] < y[2])
SetAt(s, p, x) == [s EXCEPT ![p + 1] = x]
Heap(h, e) == [h |-> h, e |-> e]
\* The item found its place, or a comparison raised and left it out.
RECURSIVE Bubble(_, _, _, _)
Bubble(h, startpos, pos, new) ==
  LET parent == (pos - 1) \div 2
      lt == compare_lt(new, At(h, parent))
  IN  CASE pos <= startpos -> Heap(SetAt(h, pos, new), NoFault)
        [] ~ lt.ok -> Heap(h, lt.e)
        [] lt.v -> Bubble(SetAt(h, pos, At(h, parent)), startpos, parent, new)
        [] OTHER -> Heap(SetAt(h, pos, new), NoFault)
siftdown(h, startpos, pos) == Bubble(h, startpos, pos, At(h, pos))
RECURSIVE Sink(_, _, _)
Sink(h, pos, e) ==
  LET child == 2 * pos + 1
      right == child + 1
      lt == IF right < Len(h) THEN compare_lt(At(h, child), At(h, right)) ELSE Done(TRUE)
      up == IF lt.ok /\ ~ lt.v THEN right ELSE child
  IN  CASE child >= Len(h) -> [h |-> h, pos |-> pos, e |-> e]
        [] ~ lt.ok -> [h |-> h, pos |-> pos, e |-> lt.e]
        [] OTHER -> Sink(SetAt(h, pos, At(h, up)), up, e)
siftup(h, pos) ==
  LET down == Sink(h, pos, NoFault)
  IN  IF down.e # NoFault THEN Heap(down.h, down.e) ELSE siftdown(SetAt(down.h, down.pos, At(h, pos)), pos, down.pos)
HeapOut(r, ret) == [v |-> r.h, ret |-> IF r.e = NoFault THEN ret ELSE Nothing, e |-> r.e]
heapify(h) ==
  HeapOut(FoldLeft(LAMBDA r, i : IF r.e = NoFault THEN siftup(r.h, i - 1) ELSE r, Heap(h, NoFault), Reverse([i \in 1 .. Len(h) \div 2 |-> i])), Nothing)
heappush(h, x) == HeapOut(siftdown(Append(h, x), 0, Len(h)), Nothing)
pop_min(h) ==
  CASE h = <<>> -> HeapOut(Heap(h, "IndexError"), Nothing)
    [] Len(h) = 1 -> HeapOut(Heap(<<>>, NoFault), h[1])
    [] OTHER -> HeapOut(siftup(SetAt(Front(h), 0, Last(h)), 0), h[1])
heappushpop(h, x) ==
  CASE h = <<>> -> HeapOut(Heap(h, NoFault), x)
    [] ~ compare_lt(h[1], x).ok -> HeapOut(Heap(h, "TypeError"), Nothing)
    [] compare_lt(h[1], x).v -> HeapOut(siftup(SetAt(h, 0, x), 0), h[1])
    [] OTHER -> HeapOut(Heap(h, NoFault), x)
heapreplace(h, x) == IF h = <<>> THEN HeapOut(Heap(h, "IndexError"), Nothing) ELSE HeapOut(siftup(SetAt(h, 0, x), 0), h[1])

\* A stable sort of <<key, item>> pairs: equal keys stay in order both ways.
Mixed(pairs) == \E i, j \in DOMAIN pairs : pairs[i][1][1] # pairs[j][1][1]
SortPairs(pairs, reverse) ==
  LET before(p, q) == IF pairs[p][1][2] = pairs[q][1][2] THEN p < q ELSE (pairs[p][1][2] < pairs[q][1][2]) # reverse
      order == SortSeq([i \in DOMAIN pairs |-> i], before)
  IN  IF Mixed(pairs) THEN Failed("TypeError") ELSE Done([i \in DOMAIN pairs |-> pairs[order[i]][2]])
n_extreme(n, pairs, largest) ==
  Then(SortPairs(pairs, largest), LAMBDA s : SubSeq(s, 1, IF n > Len(s) THEN Len(s) ELSE IF n < 0 THEN 0 ELSE n))

(***************************************************************************)
(* bisect: the search runs on a copy, its key function runs user code, and  *)
(* the insertion goes into the list as that code left it.                   *)
(***************************************************************************)
opt_bound(b, default) ==
  CASE b = Nothing -> Done(default) [] b[1] # "int" -> Failed("TypeError") [] b[2] < 0 -> Failed("ValueError") [] OTHER -> Done(b[2])
RECURSIVE Search(_, _, _, _, _)
Search(s, x, lo, hi, right) ==
  LET mid == lo + (hi - lo) \div 2
      lt == IF right THEN compare_lt(x, At(s, mid)) ELSE compare_lt(At(s, mid), x)
  IN  CASE lo >= hi -> Done(lo)
        [] ~ lt.ok -> lt
        [] lt.v # right -> Search(s, x, mid + 1, hi, right)
        [] OTHER -> Search(s, x, lo, mid, right)
bisect(s, x, lo, hi, right) ==
  LET from == opt_bound(lo, 0)
      upto == opt_bound(hi, Len(s))
  IN  CASE ~ from.ok -> from
        [] ~ upto.ok -> upto
        [] from.v > Len(s) -> Failed("ValueError")
        [] OTHER -> Search(s, x, from.v, IF upto.v > Len(s) THEN Len(s) ELSE upto.v, right)
\* keys are those of s; left is s as the key function left it.  Inserting
\* past its end panics.
insort(keys, left, x, lo, hi, right) ==
  LET at == bisect(keys, x, lo, hi, right)
  IN  CASE ~ at.ok -> at
        [] at.v > Len(left) -> Failed("panic")
        [] OTHER -> Done(InsertAt(left, at.v + 1, x))

(***************************************************************************)
(* itertools: the combinatorics, by indices from zero.                      *)
(***************************************************************************)
Picks(s, ix) == [j \in DOMAIN ix |-> At(s, ix[j])]
\* The last position whose index is not yet at its limit; 0 for none.
LastBelow(ix, limit) == LET open == {i \in DOMAIN ix : ix[i] # limit[i]} IN IF open = {} THEN 0 ELSE CHOOSE i \in open : \A j \in open : j <= i
RECURSIVE CombineFrom(_, _, _)
CombineFrom(s, ix, out) ==
  LET n == Len(s)  r == Len(ix)
      i == LastBelow(ix, [j \in 1 .. r |-> j - 1 + n - r])
      next == [j \in 1 .. r |-> IF j < i THEN ix[j] ELSE ix[i] + 1 + (j - i)]
  IN  IF i = 0 THEN Append(out, Picks(s, ix)) ELSE CombineFrom(s, next, Append(out, Picks(s, ix)))
combinations(s, r) == IF r > Len(s) THEN <<>> ELSE CombineFrom(s, [j \in 1 .. r |-> j - 1], <<>>)
RECURSIVE RepeatFrom(_, _, _)
RepeatFrom(s, ix, out) ==
  LET i == LastBelow(ix, [j \in DOMAIN ix |-> Len(s) - 1])
      next == [j \in DOMAIN ix |-> IF j < i THEN ix[j] ELSE ix[i] + 1]
  IN  IF i = 0 THEN Append(out, Picks(s, ix)) ELSE RepeatFrom(s, next, Append(out, Picks(s, ix)))
combinations_with_replacement(s, r) ==
  IF s = <<>> THEN IF r = 0 THEN << <<>> >> ELSE <<>> ELSE RepeatFrom(s, [j \in 1 .. r |-> 0], <<>>)
\* permutations: cycles[i] counts how often position i is still swapped.
Swapped(ix, i, j) == [ix EXCEPT ![i] = ix[j], ![j] = ix[i]]
RECURSIVE Turn(_, _, _)
Turn(ix, cycles, i) ==
  CASE i = 0 -> [ix |-> ix, cycles |-> cycles, done |-> TRUE]
    [] cycles[i] = 1 -> Turn(Append(RemoveAt(ix, i), ix[i]), [cycles EXCEPT ![i] = Len(ix) - i + 1], i - 1)
    [] OTHER -> [ix |-> Swapped(ix, i, Len(ix) - cycles[i] + 2), cycles |-> [cycles EXCEPT ![i] = @ - 1], done |-> FALSE]
RECURSIVE PermuteFrom(_, _, _, _)
PermuteFrom(s, ix, cycles, out) ==
  LET next == Turn(ix, cycles, Len(cycles))
      more == Append(out, Picks(s, SubSeq(ix, 1, Len(cycles))))
  IN  IF next.done THEN more ELSE PermuteFrom(s, next.ix, next.cycles, more)
permutations(s, r) ==
  CASE r > Len(s) -> <<>>
    [] r = 0 -> << <<>> >>
    [] OTHER -> PermuteFrom(s, [j \in DOMAIN s |-> j - 1], [i \in 1 .. r |-> Len(s) - i + 1], <<>>)
cartesian_product(pools) ==
  FoldLeft(LAMBDA rows, pool : FlattenSeq([i \in DOMAIN rows |-> [j \in DOMAIN pool |-> Append(rows[i], pool[j])]]), << <<>> >>, pools)
product(pools, repeat) == cartesian_product(FlattenSeq([i \in 1 .. repeat |-> pools]))

(***************************************************************************)
(* itertools: the consumers, over lists.                                    *)
(***************************************************************************)
batched(s, n) == IF n = 0 THEN Failed("ValueError") ELSE
  Done([i \in 1 .. ((Len(s) + n - 1) \div n) |-> Sub(s, (i - 1) * n, IF i * n > Len(s) THEN Len(s) ELSE i * n)])
zip_longest(pools, fill) ==
  LET longest == FoldLeft(LAMBDA n, p : IF Len(p) > n THEN Len(p) ELSE n, 0, pools)
  IN  [i \in 1 .. longest |-> [j \in DOMAIN pools |-> IF i <= Len(pools[j]) THEN pools[j][i] ELSE fill]]
\* A bound is nothing or an int that is not negative, a step at least one.
islice_bound(b, default) == IF b = Nothing THEN Done(default) ELSE IF int_index(b).ok /\ b[1] # "enum" /\ b[2] >= 0 THEN Done(b[2]) ELSE Failed("ValueError")
islice_step(b) == IF b = Count(0) \/ b = BoolIx(0) THEN Failed("ValueError") ELSE islice_bound(b, 1)
IsliceOk(start, stop, step) == islice_bound(start, 0).ok /\ islice_bound(stop, 0).ok /\ islice_step(step).ok
islice(s, start, stop, step) ==
  LET end == islice_bound(stop, Len(s)).v
  IN  IF ~ IsliceOk(start, stop, step) THEN Failed("ValueError")
      ELSE Done(Picks(s, RangeItems(<<islice_bound(start, 0).v, IF end > Len(s) THEN Len(s) ELSE end, islice_step(step).v>>)))
pairwise(s) == [i \in 1 .. (Len(s) - 1) |-> <<s[i], s[i + 1]>>]
compress(s, sel) == LET n == IF Len(s) < Len(sel) THEN Len(s) ELSE Len(sel)
                        kept == SelectSeq([i \in 1 .. n |-> i], LAMBDA i : sel[i]) IN [j \in DOMAIN kept |-> s[kept[j]]]
Firsts(s, pred) == LET stop == {i \in DOMAIN s : s[i] \notin pred} IN IF stop = {} THEN Len(s) ELSE (CHOOSE i \in stop : \A j \in stop : i <= j) - 1
takewhile(s, pred) == SubSeq(s, 1, Firsts(s, pred))
dropwhile(s, pred) == SubSeq(s, Firsts(s, pred) + 1, Len(s))
filterfalse(s, pred) == SelectSeq(s, LAMBDA x : x \notin pred)
accumulate(s, initial) ==
  LET items == IF initial = Nothing THEN s ELSE <<initial[2]>> \o s
  IN  [i \in DOMAIN items |-> FoldLeft(+, 0, SubSeq(items, 1, i))]
groupby(s) ==
  FoldLeft(LAMBDA out, x : IF out # <<>> /\ Last(out)[1] = x % 2 THEN [out EXCEPT ![Len(out)][2] = Append(@, x)] ELSE Append(out, <<x % 2, <<x>> >>),
           <<>>, s)

(***************************************************************************)
(* itertools: the consumers, over a generator.  A synthesized body takes    *)
(* one item of the source at a time and is suspended at every yield; asked  *)
(* for k items, it has taken `pulled' of the source.                        *)
(***************************************************************************)
Item(st, out, stop) == [st |-> st, out |-> out, stop |-> stop]     \* one turn of the loop
Drive(turn(_, _), st0, seed, s, k) ==
  FoldLeft(LAMBDA acc, x : IF acc.over THEN acc
                           ELSE LET one == turn(acc.st, x)
                                    out == acc.out \o one.out
                                IN  [st |-> one.st, out |-> out, pulled |-> acc.pulled + 1, over |-> one.stop \/ Len(out) = k],
           [st |-> st0, out |-> IF k = 0 THEN <<>> ELSE seed, pulled |-> 0, over |-> Len(seed) >= k], s)
IsliceTurn(start, stop, step, idx, x) ==
  LET chosen == (start = 0 /\ step = 1) \/ (idx >= start /\ (idx - start) % step = 0)
  IN  Item(idx + 1, IF chosen THEN <<x>> ELSE <<>>, stop # Nothing /\ idx + 1 >= stop[2])
synthesize_islice(s, start, stop, step, k) ==
  Drive(LAMBDA idx, x : IsliceTurn(islice_bound(start, 0).v, stop, islice_step(step).v, idx, x), 0, <<>>, s, k)
lazy_takewhile(s, pred, k) == Drive(LAMBDA st, x : IF x \in pred THEN Item(st, <<x>>, FALSE) ELSE Item(st, <<>>, TRUE), 0, <<>>, s, k)
lazy_dropwhile(s, pred, k) ==
  Drive(LAMBDA dropping, x : IF dropping /\ x \in pred THEN Item(TRUE, <<>>, FALSE) ELSE Item(FALSE, <<x>>, FALSE), TRUE, <<>>, s, k)
lazy_filterfalse(s, pred, k) == Drive(LAMBDA st, x : Item(st, IF x \in pred THEN <<>> ELSE <<x>>, FALSE), 0, <<>>, s, k)
lazy_accumulate(s, initial, k) ==
  Drive(LAMBDA st, x : LET acc == IF st = Nothing THEN x ELSE st[2] + x IN Item(Count(acc), <<acc>>, FALSE),
        initial, IF initial = Nothing THEN <<>> ELSE <<initial[2]>>, s, k)
lazy_pairwise(s, k) == Drive(LAMBDA prev, x : Item(Count(x), IF prev = Nothing THEN <<>> ELSE << <<prev[2], x>> >>, FALSE), Nothing, <<>>, s, k)
lazy_compress(s, sel, k) ==
  Drive(LAMBDA i, x : IF i > Len(sel) THEN Item(i, <<>>, TRUE) ELSE Item(i + 1, IF sel[i] THEN <<x>> ELSE <<>>, FALSE), 1, <<>>, s, k)

(***************************************************************************)
(* functools.lru_cache.  A call is [pos, kw], kw in the order written; the  *)
(* function calls itself through its wrapper.  Names are numbers.           *)
(***************************************************************************)
parse_maxsize(v) ==     \* <<>> is unbounded
  CASE v = Absent -> Done(<<128>>)
    [] v = Nothing -> Done(<<>>)
    [] v[1] # "int" -> Failed("TypeError")
    [] v[2] < 0 -> Done(<<>>)
    [] OTHER -> Done(<<v[2]>>)
LruKey(c) == LET kw == SortSeq(c.kw, LAMBDA p, q : p[1] < q[1]) IN c.pos \o FlattenSeq([i \in DOMAIN kw |-> <<<<"name", kw[i][1]>>, kw[i][2]>>])
Lru(max) == [cache |-> <<>>, max |-> max, hits |-> 0, misses |-> 0, uses |-> <<>>, again |-> {}, e |-> NoFault, ret |-> Nothing]
Used(w, c) == [w EXCEPT !.uses = Append(@, LruKey(c))]
\* The oldest entries go until there is room.
Evicted(cache, max) == IF max # <<>> /\ max[1] > 0 /\ Len(cache) >= max[1] THEN Sub(cache, Len(cache) - max[1] + 1, Len(cache)) ELSE cache
Stored(w, c, ret) ==
  [Used(w, c) EXCEPT !.ret = ret, !.cache = IF w.max = <<0>> THEN @ ELSE insert_entry(Evicted(@, w.max), LruKey(c), ret).v]
lru_hit(w, c) ==
  LET i == KeyAtIn(w.cache, LruKey(c))
  IN  [Used(w, c) EXCEPT !.hits = @ + 1, !.ret = At(w.cache, i)[2], !.cache = Append(WithoutEntry(@, i), At(@, i))]
\* What the function is called with, however it was written.
Meaning(c) == [pos |-> c.pos, kw |-> ToSet(c.kw)]
cache_clear(w) == [w EXCEPT !.cache = <<>>, !.hits = 0, !.misses = 0, !.uses = <<>>]
\* The body of the wrapped function: nested calls, one of them only the first
\* time it is come to, a clear or a raise, and what it returns; a raise leaves
\* everything at once.
RECURSIVE lru_call(_, _, _)
BodyStep1(f, w, s) ==
  CASE w.e # NoFault -> w
    [] s.t = "clear" -> cache_clear(w)
    [] s.t = "raise" -> [w EXCEPT !.e = "raised"]
    [] s.t = "call" -> lru_call(f, w, s.c)
    [] s.t = "once" -> IF s.c \in w.again THEN w ELSE lru_call(f, [w EXCEPT !.again = @ \cup {s.c}], s.c)
lru_miss(f, w, c) ==
  LET ran == FoldLeft(LAMBDA u, s : BodyStep1(f, u, s), [w EXCEPT !.misses = @ + 1], f[Meaning(c)].body)
  IN  IF ran.e # NoFault THEN ran ELSE Stored(ran, c, f[Meaning(c)].ret)
lru_call(f, w, c) ==
  CASE Unkeyable \in ToSet(c.pos) \cup {p[2] : p \in ToSet(c.kw)} -> [w EXCEPT !.e = "TypeError"]
    [] KeyAtIn(w.cache, LruKey(c)) # -1 -> lru_hit(w, c)
    [] OTHER -> lru_miss(f, w, c)
================================================================================
