-------------------------------- MODULE Places ---------------------------------
(***************************************************************************)
(* A path of subscripts and attributes, read (eval/names.rs), written and   *)
(* augmented (eval/statements.rs, eval/place.rs) and deleted                *)
(* (eval/delete.rs).  Reading evaluates one subscript after the other;      *)
(* writing walks from the variable to the slot with its own table of        *)
(* containers.  Values are trees; a write returns the change of the         *)
(* estimated size that the memory budget is charged with.                   *)
(***************************************************************************)
EXTENDS Items, FiniteSets, Functions

Num(n) == [k |-> "int", n |-> n]
Listed(k, items) == [k |-> k, items |-> items]            \* list, tuple, deque
Mapped(k, map) == [k |-> k, map |-> map]                  \* dict, counter, obj
Default(map, factory) == [k |-> "ddict", map |-> map, factory |-> factory]
Index(n) == [t |-> "index", n |-> n]                       \* from 100 on a string, and the name of an attribute
Attr(x) == [t |-> "attr", n |-> x]

Ix(n) == IF n < 100 THEN IntIx(n) ELSE OtherIx
IsSequence(v) == v.k \in {"list", "tuple", "deque"}
IsMapping(v) == v.k \in {"dict", "ddict", "counter"}
Zero == Num(0)
Holds(v, key) == key \in DOMAIN v.map
Bound1(v, key, x) == [v EXCEPT !.map = [q \in DOMAIN v.map \cup {key} |-> IF q = key THEN x ELSE v.map[q]]]
Unbound(v, key) == [v EXCEPT !.map = [q \in DOMAIN v.map \ {key} |-> v.map[q]]]

\* estimate_value_size and estimate_key_size, one unit each.
RECURSIVE Size(_)
Size(v) ==
  LET parts == IF IsSequence(v) THEN v.items ELSE IF v.k = "int" THEN <<>> ELSE v.map
      each == [i \in DOMAIN parts |-> Size(parts[i]) + (IF IsSequence(v) THEN 0 ELSE 1)]
  IN  1 + FoldFunction(+, 0, each)

(***************************************************************************)
(* Reading.                                                                 *)
(***************************************************************************)
counter_get_item(v, key) == Done(IF Holds(v, key) THEN v.map[key] ELSE Zero)
dict_get_item(v, key) == IF Holds(v, key) THEN Done(v.map[key]) ELSE Failed("KeyError")
dispatch_getitem(v, key) ==
  CASE IsSequence(v) -> sequence_get_item(v.items, Ix(key))
    [] v.k = "counter" -> counter_get_item(v, key)
    [] v.k = "dict" -> dict_get_item(v, key)
    [] OTHER -> Failed("TypeError")
invoke_factory(v) == Done(v.factory)
eval_subscript(v, key) ==
  IF v.k = "ddict" THEN IF Holds(v, key) THEN Done(v.map[key]) ELSE invoke_factory(v) ELSE dispatch_getitem(v, key)
ReadStep(v, s) ==
  CASE s.t = "index" -> eval_subscript(v, s.n)
    [] v.k = "obj" /\ Holds(v, s.n) -> Done(v.map[s.n])
    [] OTHER -> Failed("AttributeError")
ReadPath(v, path) == FoldLeft(LAMBDA r, s : IF r.ok THEN ReadStep(r.v, s) ELSE r, Done(v), path)
\* What reading leaves behind: a defaultdict that is a variable keeps the
\* value it made up, one deeper in the path does not.
AfterRead(v, path) ==
  IF path # <<>> /\ Head(path).t = "index" /\ v.k = "ddict" /\ ~ Holds(v, Head(path).n)
  THEN Bound1(v, Head(path).n, v.factory) ELSE v

(***************************************************************************)
(* The way to a slot.                                                       *)
(***************************************************************************)
nav_recurse(v, s) ==      \* one step; a counter makes up its zero and keeps it
  CASE s.t = "index" /\ v.k \in {"list", "deque"} -> Then(seq_index(Len(v.items), Ix(s.n)), LAMBDA p : At(v.items, p))
    [] s.t = "index" /\ v.k = "counter" -> counter_get_item(v, s.n)
    [] s.t = "index" /\ v.k \in {"dict", "ddict"} -> dict_get_item(v, s.n)
    [] s.t = "attr" /\ v.k \in {"dict", "obj"} /\ Holds(v, s.n) -> Done(v.map[s.n])
    [] OTHER -> Failed(IF s.t = "index" THEN "TypeError" ELSE "AttributeError")
Navigate(v, path) == FoldLeft(LAMBDA r, s : IF r.ok THEN nav_recurse(r.v, s) ELSE r, Done(v), path)
\* v with the slot at the end of a path that can be walked replaced.
Child(v, s, x) == IF IsSequence(v) THEN [v EXCEPT !.items = list_set_item(v.items, Ix(s.n), x).v] ELSE Bound1(v, s.n, x)
Front1(path) == SubSeq(path, 1, Len(path) - 1)
PutAlong(v, path, new, Way(_, _)) ==
  FoldLeft(LAMBDA x, i : Child(Way(v, SubSeq(path, 1, i - 1)).v, path[i], x), new, Reverse([i \in DOMAIN path |-> i]))
with_navigate_mut(v, path, new) == PutAlong(v, path, new, Navigate)
\* The zeros a walk leaves in the counters it passes, even when it fails.
Reached(v, path) == CHOOSE i \in 0 .. Len(path) :
  Navigate(v, SubSeq(path, 1, i)).ok /\ (i = Len(path) \/ ~ Navigate(v, SubSeq(path, 1, i + 1)).ok)
Touched(v, path) == LET p == SubSeq(path, 1, Reached(v, path)) IN with_navigate_mut(v, p, Navigate(v, p).v)

(***************************************************************************)
(* Writing.  An outcome is the tree left behind, the fault, and the change  *)
(* of size charged.                                                         *)
(***************************************************************************)
Outcome(v, e, delta) == [v |-> v, e |-> e, delta |-> delta]
size_delta(old, new) == Size(new) - Size(old)
MapSet(v, key, x) ==      \* the set_item slots of dict, defaultdict and counter
  Done([v |-> Bound1(v, key, x), delta |-> IF Holds(v, key) THEN size_delta(v.map[key], x) ELSE 1 + Size(x)])
SeqSet(v, key, x) ==
  Then(ItemPosition(Len(v.items), Ix(key)), LAMBDA p : [v |-> [v EXCEPT !.items[p + 1] = x], delta |-> size_delta(At(v.items, p), x)])
dispatch_setitem(v, key, x) ==
  CASE v.k \in {"list", "deque"} -> SeqSet(v, key, x)
    [] IsMapping(v) -> MapSet(v, key, x)
    [] OTHER -> Failed("TypeError")
set_attr(v, x, w) == IF v.k = "obj" THEN MapSet(v, x, w) ELSE Failed("AttributeError")
assign_terminal(v, s, x) == IF s.t = "index" THEN dispatch_setitem(v, s.n, x) ELSE set_attr(v, s.n, x)

Written(v, prefix, r) ==
  IF r.ok THEN Outcome(with_navigate_mut(v, prefix, r.v.v), NoFault, r.v.delta) ELSE Outcome(Touched(v, prefix), r.e, 0)
\* The expression at a path is evaluated, and the statement goes on from
\* what that left.
Evaluated(v, path, F(_)) ==
  LET seen == AfterRead(v, path)
      out == IF ReadPath(v, path).ok THEN F(seen) ELSE Outcome(seen, ReadPath(v, path).e, 0)
  IN  [out EXCEPT !.delta = @ + size_delta(v, seen)]
\* An attribute of what is no name: the receiver is evaluated, and an instance
\* takes the field without a charge.  One made up on the way is dropped.
MadeUp(v, path) == \E i \in DOMAIN path :
  LET at == ReadPath(v, SubSeq(path, 1, i - 1)).v IN path[i].t = "index" /\ IsMapping(at) /\ ~ Holds(at, path[i].n)
OfExpression(path) == Len(path) > 1 /\ Last(path).t = "attr"
SetField(v, prefix, x, w) ==
  LET obj == ReadPath(v, prefix).v
  IN  CASE obj.k # "obj" -> Outcome(v, "RuntimeError", 0)
        [] MadeUp(v, prefix) -> Outcome(v, NoFault, 0)
        [] OTHER -> Outcome(PutAlong(v, prefix, Bound1(obj, x, w), ReadPath), NoFault, 0)
AssignPath(v, path, x) ==
  LET at == Navigate(v, Front1(path))
  IN  IF OfExpression(path) THEN Evaluated(v, Front1(path), LAMBDA seen : SetField(seen, Front1(path), Last(path).n, x))
      ELSE Written(v, Front1(path), IF at.ok THEN assign_terminal(at.v, Last(path), x) ELSE at)

dispatch_delitem(v, key) ==
  CASE v.k \in {"list", "deque"} ->
         Then(ItemPosition(Len(v.items), Ix(key)), LAMBDA p : [v |-> [v EXCEPT !.items = RemoveAt(@, p + 1)], delta |-> - Size(At(v.items, p))])
    [] IsMapping(v) -> IF Holds(v, key) THEN Done([v |-> Unbound(v, key), delta |-> - (1 + Size(v.map[key]))]) ELSE Failed("KeyError")
    [] OTHER -> Failed("TypeError")
\* The receiver is read first, then walked to.
DeleteItem(v, path) ==
  LET at == Navigate(v, Front1(path))
  IN  Written(v, Front1(path), IF at.ok THEN dispatch_delitem(at.v, Last(path).n) ELSE at)
\* del x.a: the field is dropped and nothing is released.
DeleteAttr(v, path) ==
  LET at == Navigate(v, Front1(path))
  IN  Written(v, Front1(path),
        CASE ~ at.ok -> at
          [] at.v.k = "obj" /\ Holds(at.v, Last(path).n) -> Done([v |-> Unbound(at.v, Last(path).n), delta |-> 0])
          [] OTHER -> Failed("AttributeError"))
delete_target(v, path) ==
  IF Last(path).t = "attr" THEN DeleteAttr(v, path) ELSE Evaluated(v, Front1(path), LAMBDA seen : DeleteItem(seen, path))

(***************************************************************************)
(* v.path += n.  What an attribute is taken of is evaluated first, for it   *)
(* could be a class; every defaultdict on the way to an item is given its   *)
(* missing entry; the slot is read, and written after the right-hand side.  *)
(***************************************************************************)
Missing(at, s) == at.ok /\ s.t = "index" /\ at.v.k = "ddict" /\ ~ Holds(at.v, s.n)
\* Mutant: only the innermost defaultdict is touched.
PretouchLast(v, path) ==
  IF Missing(Navigate(v, Front1(path)), Last(path))
  THEN Written(v, Front1(path), MapSet(Navigate(v, Front1(path)).v, Last(path).n, Navigate(v, Front1(path)).v.factory))
  ELSE Outcome(v, NoFault, 0)
TouchOne(acc, prefix, s) ==
  LET at == Navigate(acc.v, prefix)
      next == CASE ~ at.ok -> Outcome(Touched(acc.v, prefix), at.e, 0)
                [] Missing(at, s) -> Written(acc.v, prefix, MapSet(at.v, s.n, at.v.factory))
                [] OTHER -> Outcome(Touched(acc.v, prefix), NoFault, 0)
  IN  IF acc.e # NoFault \/ s.t # "index" THEN acc ELSE [next EXCEPT !.delta = @ + acc.delta]
pretouch_defaultdict(v, path) ==
  FoldLeft(LAMBDA acc, i : TouchOne(acc, SubSeq(path, 1, i - 1), path[i]), Outcome(v, NoFault, 0),
           SelectSeq([i \in DOMAIN path |-> i], LAMBDA i : \A j \in i .. Len(path) : path[j].t = "index"))
AddTo(cur, n) == IF cur.k = "int" THEN Done(Num(cur.n + n)) ELSE Failed("TypeError")
AugTouched(acc, path, cur, sum) ==
  CASE acc.e # NoFault -> acc
    [] ~ cur.ok -> Outcome(Touched(acc.v, path), cur.e, acc.delta)
    [] ~ sum.ok -> Outcome(Touched(acc.v, path), sum.e, acc.delta)
    [] OTHER -> Outcome(with_navigate_mut(acc.v, path, sum.v), NoFault, acc.delta + size_delta(cur.v, sum.v))
AugAfter(acc, path, cur, n) == AugTouched(acc, path, cur, IF cur.ok THEN AddTo(cur.v, n) ELSE cur)
AugFrom(acc, path, n) == AugAfter(acc, path, Navigate(acc.v, path), n)
eval_aug_assign(v, path, n) ==
  Evaluated(v, IF OfExpression(path) THEN Front1(path) ELSE <<>>, LAMBDA seen : AugFrom(pretouch_defaultdict(seen, path), path, n))

(***************************************************************************)
(* What a path means: the slot is read, and a write changes it alone.       *)
(***************************************************************************)
\* Two paths that meet in no slot of v.
Norm(v, s) == IF IsSequence(v) /\ s.t = "index" /\ s.n < 0 THEN Index(s.n + Len(v.items)) ELSE s
Apart(v, p, q) ==
  \E i \in 1 .. Len(p) : /\ i <= Len(q) /\ SubSeq(p, 1, i - 1) = SubSeq(q, 1, i - 1)
                         /\ ReadPath(v, SubSeq(p, 1, i - 1)).ok
                         /\ Norm(ReadPath(v, SubSeq(p, 1, i - 1)).v, p[i]) # Norm(ReadPath(v, SubSeq(p, 1, i - 1)).v, q[i])
================================================================================
