--------------------------------- MODULE Items ---------------------------------
(***************************************************************************)
(* Subscripts, slices and unpacking: the item slots of types.rs, the read   *)
(* path of eval/names.rs, the write path of eval/place.rs, the delete path  *)
(* of eval/delete.rs and the targets of eval/statements.rs.  The three      *)
(* paths compute the positions of a slice each in their own way.            *)
(***************************************************************************)
EXTENDS Integers, Sequences, SequencesExt

(***************************************************************************)
(* Indices and bounds as the program wrote them; positions are from zero.   *)
(***************************************************************************)
Absent == <<"absent">>               \* no bound, or None
IntIx(n) == <<"int", n>>
BoolIx(n) == <<"bool", n>>
EnumIx(n) == <<"enum", n>>           \* a member of an IntEnum
OtherIx == <<"other">>               \* a value that is no index

Failed(e) == [ok |-> FALSE, e |-> e]
Done(v) == [ok |-> TRUE, v |-> v]
At(s, p) == s[p + 1]                 \* position p of a sequence
Sub(s, lo, hi) == SubSeq(s, lo + 1, hi)

\* int_index: the subscripts a sequence reads with.
int_index(i) == IF i[1] \in {"int", "bool", "enum"} THEN Done(i[2]) ELSE Failed("TypeError")
normalize_seq_index(raw, len) ==
  LET adjusted == IF raw < 0 THEN len + raw ELSE raw
  IN  IF adjusted < 0 \/ adjusted >= len THEN Failed("IndexError") ELSE Done(adjusted)
\* The position of a subscript that is read, written or deleted.
ItemPosition(len, i) == IF int_index(i).ok THEN normalize_seq_index(int_index(i).v, len) ELSE int_index(i)
\* seq_index: the position of a subscript on the way to a place.
seq_index(len, i) == IF i[1] \in {"int", "bool"} THEN normalize_seq_index(i[2], len) ELSE Failed("TypeError")

Then(r, F(_)) == IF r.ok THEN Done(F(r.v)) ELSE r
sequence_get_item(s, i) == Then(ItemPosition(Len(s), i), LAMBDA p : At(s, p))
list_set_item(s, i, x) == Then(ItemPosition(Len(s), i), LAMBDA p : [s EXCEPT ![p + 1] = x])
list_del_item(s, i) == Then(ItemPosition(Len(s), i), LAMBDA p : RemoveAt(s, p + 1))
RangeLength(r) == LET span == r[2] - r[1] IN
  IF r[3] > 0 THEN IF span <= 0 THEN 0 ELSE (span + r[3] - 1) \div r[3]
  ELSE IF span >= 0 THEN 0 ELSE (- span - r[3] - 1) \div (- r[3])
RangeItems(r) == [j \in 1 .. RangeLength(r) |-> r[1] + (j - 1) * r[3]]
range_get_item(r, i) == Then(ItemPosition(RangeLength(r), i), LAMBDA p : r[1] + p * r[3])

\* A byte is checked before the index is.
byte_from_value(x) == IF x \in 0 .. 255 THEN Done(x) ELSE Failed("ValueError")
bytearray_set_item(s, i, x) == IF byte_from_value(x).ok THEN list_set_item(s, i, x) ELSE byte_from_value(x)

(***************************************************************************)
(* Reading a slice: eval/names.rs.                                          *)
(***************************************************************************)
Bounded(x, low, high) == IF x < low THEN low ELSE IF x > high THEN high ELSE x
FromEnd(i, len) == IF i < 0 THEN i + len ELSE i
\* Mutant: the last position is one past the end, as for a positive step.
ClampNegLoose(i, len) == Bounded(FromEnd(i, len), 0, len)
clamp_slice_index(i, len) == Bounded(FromEnd(i, len), 0, len)
clamp_slice_index_neg(i, len) == Bounded(FromEnd(i, len), -1, len - 1)

Ordinal(b, default) == IF b[1] \in {"int", "bool"} THEN b[2] ELSE default
BoundsOk(lo, hi) == {lo[1], hi[1]} \subseteq {"absent", "int", "bool"}
StepOf(step) == IF step[1] = "other" \/ step[1] = "enum" THEN Failed("TypeError")
                ELSE IF Ordinal(step, 1) = 0 THEN Failed("ValueError") ELSE Done(Ordinal(step, 1))

\* The walk of the three paths: from begin towards end, end excluded.
Walk(begin, end, step) ==
  LET r == <<begin, end, step>> IN RangeItems(r)
ReadPositions(lo, hi, step, len) ==
  IF step > 0 THEN Walk(clamp_slice_index(Ordinal(lo, 0), len), clamp_slice_index(Ordinal(hi, len), len), step)
  ELSE Walk(clamp_slice_index_neg(Ordinal(lo, len - 1), len), clamp_slice_index_neg(Ordinal(hi, - (len + 1)), len), step)
slice_sequence(s, lo, hi, step) ==
  LET ps == ReadPositions(lo, hi, step, Len(s)) IN [j \in DOMAIN ps |-> At(s, ps[j])]
\* A range is sliced into a range: positions are mapped, not walked.
SliceRange(r, lo, hi, step) ==
  LET len == RangeLength(r)
      ends == IF step > 0 THEN <<clamp_slice_index(Ordinal(lo, 0), len), clamp_slice_index(Ordinal(hi, len), len)>>
              ELSE <<clamp_slice_index_neg(Ordinal(lo, len - 1), len), clamp_slice_index_neg(Ordinal(hi, - (len + 1)), len)>>
  IN  <<r[1] + ends[1] * r[3], r[1] + ends[2] * r[3], r[3] * step>>
apply_value_slice(s, lo, hi, step) ==
  IF ~ StepOf(step).ok THEN StepOf(step)
  ELSE IF ~ BoundsOk(lo, hi) THEN Failed("TypeError")
  ELSE Done(slice_sequence(s, lo, hi, StepOf(step).v))

(***************************************************************************)
(* Writing a slice: eval/place.rs.                                          *)
(***************************************************************************)
clamp_index(i, len) == Bounded(FromEnd(i, len), 0, len)
clamp_index_neg(i, len) == Bounded(FromEnd(i, len), -1, len - 1)
resolve_step(step) == StepOf(step)
resolve_bound(b, default) == Ordinal(b, default)
extended_indices(len, lo, hi, step) ==
  IF step > 0 THEN Walk(clamp_index(resolve_bound(lo, 0), len), clamp_index(resolve_bound(hi, len), len), step)
  ELSE Walk(clamp_index_neg(resolve_bound(lo, len - 1), len), clamp_index_neg(resolve_bound(hi, - (len + 1)), len), step)
\* The span of a slice with step one; an empty one stays where it starts.
SpanStart(lo, len) == clamp_index(resolve_bound(lo, 0), len)
SpanEnd(lo, hi, len) == IF clamp_index(resolve_bound(hi, len), len) < SpanStart(lo, len) THEN SpanStart(lo, len)
                        ELSE clamp_index(resolve_bound(hi, len), len)
Splice(s, from, to, xs) == Sub(s, 0, from) \o xs \o Sub(s, to, Len(s))
PutAt(s, ps, xs) == FoldLeft(LAMBDA acc, j : [acc EXCEPT ![ps[j] + 1] = xs[j]], s, [j \in DOMAIN xs |-> j])
PutExtended(s, ps, xs) == IF Len(ps) # Len(xs) THEN Failed("ValueError") ELSE Done(PutAt(s, ps, xs))
set_slice(s, lo, hi, step, xs) ==        \* set_bytearray_slice on bytes
  IF ~ resolve_step(step).ok THEN resolve_step(step)
  ELSE IF ~ BoundsOk(lo, hi) THEN Failed("TypeError")
  ELSE IF resolve_step(step).v = 1 THEN Done(Splice(s, SpanStart(lo, Len(s)), SpanEnd(lo, hi, Len(s)), xs))
  ELSE PutExtended(s, extended_indices(Len(s), lo, hi, resolve_step(step).v), xs)
get_slice(s, lo, hi, step) ==
  IF ~ resolve_step(step).ok THEN resolve_step(step)
  ELSE IF ~ BoundsOk(lo, hi) THEN Failed("TypeError")
  ELSE IF resolve_step(step).v = 1 THEN Done(Sub(s, SpanStart(lo, Len(s)), SpanEnd(lo, hi, Len(s))))
  ELSE LET ps == extended_indices(Len(s), lo, hi, resolve_step(step).v) IN Done([j \in DOMAIN ps |-> At(s, ps[j])])
\* a[i:j] += xs: the slice is read, extended and written back.
aug_slice(s, lo, hi, step, xs) ==
  IF get_slice(s, lo, hi, step).ok THEN set_slice(s, lo, hi, step, get_slice(s, lo, hi, step).v \o xs)
  ELSE get_slice(s, lo, hi, step)

(***************************************************************************)
(* Deleting a slice: eval/delete.rs.  With step one a bound that is no int  *)
(* counts as absent.                                                        *)
(***************************************************************************)
ClampInt(b, default, len) ==
  IF b[1] # "int" THEN default ELSE Bounded(IF b[2] < 0 THEN len + b[2] ELSE b[2], 0, len)
strided_indices(lo, hi, step, len) ==     \* from the last to the first
  LET ps == ReadPositions(lo, hi, step, len) IN IF step > 0 THEN Reverse(ps) ELSE ps
RemoveEach(s, ps) == FoldLeft(LAMBDA acc, p : IF p < Len(acc) THEN RemoveAt(acc, p + 1) ELSE acc, s, ps)
Drained(s, from, to) == IF from < to THEN Sub(s, 0, from) \o Sub(s, to, Len(s)) ELSE s
delete_slice(s, lo, hi, step) ==
  IF ~ StepOf(step).ok THEN StepOf(step)
  ELSE IF StepOf(step).v = 1 THEN Done(Drained(s, ClampInt(lo, 0, Len(s)), ClampInt(hi, Len(s), Len(s))))
  ELSE Done(RemoveEach(s, strided_indices(lo, hi, StepOf(step).v, Len(s))))

(***************************************************************************)
(* Unpacking targets: a name, a starred name, or a nested list of targets.  *)
(* The bindings are made from left to right and stay when a later target    *)
(* fails.                                                                   *)
(***************************************************************************)
NameT(x) == [t |-> "name", x |-> x]
StarT(x) == [t |-> "star", x |-> x]
NestT(ts) == [t |-> "nest", ts |-> ts]
NoFault == "none"
Bind(acc, x, v) == IF acc.e # NoFault THEN acc ELSE [acc EXCEPT !.env = Append(@, <<x, v>>)]
Stop(acc, e) == IF acc.e # NoFault THEN acc ELSE [acc EXCEPT !.e = e]

StarAt(ts) == SelectInSeq(ts, LAMBDA t : t.t = "star")
\* The piece of n items that target i of ts receives; the star gets a list.
Piece(ts, items, i) ==
  LET star == StarAt(ts)  extra == Len(items) - Len(ts)
  IN  IF star = 0 \/ i < star THEN items[i]
      ELSE IF i = star THEN SubSeq(items, star, star + extra)
      ELSE items[i + extra]
UnpackFault(ts, items) ==
  IF StarAt(ts) = 0 THEN IF Len(items) = Len(ts) THEN NoFault ELSE "ValueError"
  ELSE IF StarAt(SubSeq(ts, StarAt(ts) + 1, Len(ts))) # 0 THEN "Runtime"
  ELSE IF Len(items) < Len(ts) - 1 THEN "ValueError" ELSE NoFault
\* assign_unpacking and assign_target, for a nest of depth at most two: a
\* value that is no sequence cannot be unpacked.
Iterable(v) == v[1] = "seq"
Seq2(v) == v[2]
AssignFlat(ts, items, acc) ==
  IF UnpackFault(ts, items) # NoFault THEN Stop(acc, UnpackFault(ts, items))
  ELSE FoldLeft(LAMBDA a, i : Bind(a, ts[i].x, IF ts[i].t = "star" THEN <<"seq", Piece(ts, items, i)>> ELSE Piece(ts, items, i)),
                acc, [i \in DOMAIN ts |-> i])
AssignInner(acc, ts, v) == IF Iterable(v) THEN AssignFlat(ts, Seq2(v), acc) ELSE Stop(acc, "TypeError")
assign_target(acc, t, v) ==
  IF acc.e # NoFault THEN acc
  ELSE IF t.t = "nest" THEN AssignInner(acc, t.ts, v)
  ELSE IF t.t = "star" THEN Bind(acc, t.x, <<"seq", v>>)
  ELSE Bind(acc, t.x, v)
assign_unpacking(ts, v) ==
  LET start == [env |-> <<>>, e |-> NoFault]
  IN  IF ~ Iterable(v) THEN Stop(start, "TypeError")
      ELSE IF UnpackFault(ts, Seq2(v)) # NoFault THEN Stop(start, UnpackFault(ts, Seq2(v)))
      ELSE FoldLeft(LAMBDA a, i : assign_target(a, ts[i], Piece(ts, Seq2(v), i)), start, [i \in DOMAIN ts |-> i])

(***************************************************************************)
(* What a slice is: the positions between the bounds in steps from the      *)
(* first, in the order of the step.                                         *)
(***************************************************************************)
Bound(b, len) == FromEnd(b[2], len)
PyFirst(lo, step, len) ==
  IF step > 0 THEN IF lo[1] = "absent" \/ Bound(lo, len) < 0 THEN 0 ELSE Bound(lo, len)
  ELSE IF lo[1] = "absent" \/ Bound(lo, len) > len - 1 THEN len - 1 ELSE Bound(lo, len)
PySelects(lo, hi, step, len, p) ==
  /\ IF step > 0 THEN p >= PyFirst(lo, step, len) ELSE p <= PyFirst(lo, step, len)
  /\ hi[1] # "absent" => IF step > 0 THEN p < Bound(hi, len) ELSE p > Bound(hi, len)
  /\ (p - PyFirst(lo, step, len)) % (IF step > 0 THEN step ELSE - step) = 0
PyPositions(lo, hi, step, len) ==
  LET up == SelectSeq([p \in 1 .. len |-> p - 1], LAMBDA p : PySelects(lo, hi, step, len, p))
  IN  IF step > 0 THEN up ELSE Reverse(up)
================================================================================
