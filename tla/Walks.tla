--------------------------------- MODULE Walks ---------------------------------
(***************************************************************************)
(* The walks of a value's elements: repr (value.rs, eval/render.rs), JSON   *)
(* (json.rs, value.rs), asdict, the two bindings' outbound conversions,     *)
(* equality and ordering (types.rs, operations.rs, cycle.rs), deepcopy and  *)
(* the size estimate.  Containers may contain themselves and each other; a  *)
(* container's lock is not reentrant, so a walk that still holds it when it *)
(* meets the container again never returns ("deadlock").                    *)
(***************************************************************************)
EXTENDS Integers, Sequences, FiniteSets, SequencesExt

CONSTANTS MaxConvertDepth,   \* of the bindings
          EqLimit,           \* EQ_RECURSION_LIMIT
          StackDepth         \* levels the host stack has room for; a walk of an acyclic graph takes fewer

(* A graph gives each container [k, kids, keys]: its kind, its elements and *)
(* a dict's keys.  An element below 1 is a number, any other a container.   *)
Shared == {"list", "dict", "odict", "inst", "data", "rude"}    \* behind an Arc<Mutex>; tuple and ddict are values
KindsIn(g, ns) == {g[n].k : n \in ns}
KidsOf(g, n) == {c \in ToSet(g[n].kids) : c > 0}
Closure(g, ns) == FoldLeft(LAMBDA acc, i : acc \cup UNION {KidsOf(g, n) : n \in acc}, ns, [i \in DOMAIN g |-> i])
Reaches(g, n) == Closure(g, {n})
Below(g, n) == Closure(g, KidsOf(g, n))
OnCycle(g, n) == n \in Below(g, n)
Cyclic(g, n) == \E c \in Reaches(g, n) : OnCycle(g, c)

(***************************************************************************)
(* One walk per style: which containers it enters in its active set, whose  *)
(* lock it keeps while it walks their elements, which kinds it opens, what  *)
(* a re-entered container, any other kind and too deep a level come to.     *)
(***************************************************************************)
Shut(other, rude) == [k \in {"inst", "data", "rude", "ddict", "odict"} |-> IF k = "rude" THEN rude ELSE other]
\* Display and Value::repr, without the class registry.
fmt == [name |-> "repr", guard |-> {"list"}, hold |-> {"dict", "odict"}, open |-> {"list", "dict", "odict", "ddict", "tuple"},
        cycle |-> "dots", shut |-> Shut("opaque", "opaque"), deep |-> "overflow"]
\* render: user __repr__ methods run, so it is async and its set is in the state.
render == [name |-> "render", guard |-> {"list", "dict"}, hold |-> {}, open |-> {"list", "dict", "tuple"},
           cycle |-> "dots", shut |-> Shut("opaque", "raised"), deep |-> "overflow"]
render_dataclass == [name |-> "dataclass", guard |-> {}, hold |-> {}, open |-> {"data"},
                     cycle |-> "dots", shut |-> Shut("opaque", "opaque"), deep |-> "overflow"]
write_json == [name |-> "json", guard |-> {"list", "dict", "odict"}, hold |-> {}, open |-> {"list", "dict", "odict", "tuple"},
               cycle |-> "ValueError", shut |-> Shut("TypeError", "TypeError"), deep |-> "overflow"]
to_json == [write_json EXCEPT !.hold = {"list", "dict", "odict"}, !.open = @ \cup {"ddict"}]
convert_for_asdict == [name |-> "asdict", guard |-> {}, hold |-> {}, open |-> {"list", "dict", "tuple", "data"},
                       cycle |-> "dots", shut |-> Shut("opaque", "opaque"), deep |-> "overflow"]
value_to_py == [name |-> "py", guard |-> {}, hold |-> {}, open |-> {"list", "dict", "odict", "tuple"},
                cycle |-> "dots", shut |-> Shut("TypeError", "TypeError"), deep |-> "TypeError"]
\* dict_to_js(env, &map.lock()) converts the entries under the lock.
value_to_js == [value_to_py EXCEPT !.name = "js", !.hold = {"dict", "odict"}]

Stops == {"deadlock", "overflow", "raised", "ValueError", "TypeError"}
Twig(v) == <<IF v = 0 THEN "zero" ELSE "one", <<>>>>
Ends(act, out) == [act |-> act, out |-> <<out, <<>>>>]
\* The function that a container of kind k is handed to.
Route(s, k) ==
  CASE s.name = "render" /\ k = "data" -> render_dataclass
    [] s.name = "render" /\ k \in {"odict", "ddict"} -> fmt
    [] s.name = "dataclass" /\ k # "data" -> fmt
    [] OTHER -> s
\* repr_enter, json_enter and repr_active.insert; the guards' drop and repr_active.remove.
Entered(s, k, n, act) == IF k \in s.guard THEN act \cup {<<s.name, n>>} ELSE act
LeftOnlyIfWell(r, s, n) == IF r.out[1] \in Stops THEN r ELSE [r EXCEPT !.act = @ \ {<<s.name, n>>}]
Left(r, s, n) == [r EXCEPT !.act = @ \ {<<s.name, n>>}]
Push(acc, r) == IF r.out[1] \in Stops THEN r ELSE [act |-> r.act, out |-> <<acc.out[1], Append(acc.out[2], r.out)>>]
TooDeep(s, fuel) == s.deep = "TypeError" /\ fuel = 0

RECURSIVE Traverse(_, _, _, _, _, _)
Traverse(s, g, n, act, held, fuel) ==
  CASE g[n].k \notin s.open -> Ends(act, s.shut[g[n].k])
    [] <<s.name, n>> \in act -> Ends(act, s.cycle)
    [] fuel = 0 -> Ends(act, s.deep)
    [] n \in held -> Ends(act, "deadlock")
    [] OTHER ->
         Left(FoldLeft(LAMBDA acc, c : IF acc.out[1] \in Stops THEN acc
                                       ELSE Push(acc, IF c < 1 THEN IF TooDeep(s, fuel - 1) THEN Ends(acc.act, s.deep)
                                                                    ELSE [act |-> acc.act, out |-> Twig(c)]
                                                      ELSE Traverse(Route(s, g[c].k), g, c, acc.act,
                                                                    IF g[n].k \in s.hold THEN held \cup {n} ELSE held, fuel - 1)),
                       [act |-> Entered(s, g[n].k, n, act), out |-> <<g[n].k, <<>>>>], g[n].kids), s, n)
WalkFrom(s, g, n) == Traverse(Route(s, g[n].k), g, n, {}, {}, IF s.deep = "TypeError" THEN MaxConvertDepth ELSE StackDepth)

(***************************************************************************)
(* Equality and ordering: "T", "F", "over" (the recursion limit, answered   *)
(* with false and a flag), "TypeError", "deadlock".                         *)
(***************************************************************************)
IsDict(k) == k \in {"dict", "odict"}
Comparable(k, l) == k = l \/ (IsDict(k) /\ IsDict(l))
\* The position in y of the entry an entry of x is compared with; 0: none.
EntryFor(a, b, i) ==
  CASE a.k = "odict" /\ b.k = "odict" -> IF a.keys[i] = b.keys[i] THEN i ELSE 0
    [] IsDict(a.k) -> SelectInSeq(b.keys, LAMBDA q : q = a.keys[i])
    [] OTHER -> i
NoShortcut(x, y, k) == FALSE
list_eq(x, y, k) == x = y /\ k \in Shared      \* Arc::ptr_eq
RECURSIVE recurse_eq(_, _, _, _, _)
recurse_eq(g, x, y, held, fuel) ==
  CASE fuel = 0 -> "over"
    [] x < 1 \/ y < 1 -> IF x = y THEN "T" ELSE "F"
    [] ~ Comparable(g[x].k, g[y].k) -> "F"
    [] list_eq(x, y, g[x].k) -> "T"
    [] x \in held \/ y \in held -> "deadlock"
    [] Len(g[x].kids) # Len(g[y].kids) -> "F"
    [] OTHER -> FoldLeft(LAMBDA acc, i : IF acc # "T" THEN acc
                                         ELSE IF EntryFor(g[x], g[y], i) = 0 THEN "F"
                                         ELSE recurse_eq(g, g[x].kids[i], g[y].kids[EntryFor(g[x], g[y], i)], held, fuel - 1),
                         "T", [i \in DOMAIN g[x].kids |-> i])
\* compare_builtin: the operator turns the flag into RecursionError; dispatch_eq
\* itself counts no level, and compares two instances by identity.
dispatch_eq(g, x, y) ==
  IF "inst" \in {g[x].k, g[y].k} THEN IF x = y THEN "T" ELSE "F" ELSE recurse_eq(g, x, y, {}, EqLimit + 1)
\* item in container: contains_slot answers with the bare boolean.
list_contains(g, x, y) == \E i \in DOMAIN g[y].kids : recurse_eq(g, x, g[y].kids[i], {}, EqLimit) = "T"

IsSeq(k) == k \in {"list", "tuple"}
RECURSIVE dispatch_lt(_, _, _, _)
\* The first pair that is not equal decides; an overflow counts as not equal.
Decided(acc, eq, lt) == IF acc # "go" THEN acc ELSE CASE eq = "T" -> "go" [] eq = "deadlock" -> eq [] OTHER -> lt
Verdict(acc, shorter) == CASE acc # "go" -> acc [] shorter -> "T" [] OTHER -> "F"
lex_lt(g, x, y, held) ==
  Verdict(FoldLeft(LAMBDA acc, i : Decided(acc, recurse_eq(g, g[x].kids[i], g[y].kids[i], held, EqLimit),
                                           dispatch_lt(g, g[x].kids[i], g[y].kids[i], held)),
                   "go", [i \in DOMAIN g[x].kids \cap DOMAIN g[y].kids |-> i]),
          Len(g[x].kids) < Len(g[y].kids))
\* list_lt keeps both guards while lex_lt walks the elements.
dispatch_lt(g, x, y, held) ==
  CASE x < 1 /\ y < 1 -> IF x < y THEN "T" ELSE "F"
    [] x < 1 \/ y < 1 -> "TypeError"
    [] g[x].k # g[y].k \/ ~ IsSeq(g[x].k) -> "TypeError"
    [] list_eq(x, y, g[x].k) -> "F"
    [] {x, y} \cap held # {} -> "deadlock"
    [] OTHER -> lex_lt(g, x, y, IF g[x].k = "list" THEN held \cup {x, y} ELSE held)

(***************************************************************************)
(* copy.deepcopy and copy.copy: the copy's containers are new nodes.        *)
(***************************************************************************)
Keep(st, id) == [st EXCEPT !.id = id]
Fresh1(g) == Cardinality(DOMAIN g) + 1
Grow(g, node) == [n \in 1 .. Fresh1(g) |-> IF n \in DOMAIN g THEN g[n] ELSE node]
MemoisesItself(memo, k, n, id) == IF k \in Shared THEN [m \in DOMAIN memo \cup {n} |-> IF m = n THEN n ELSE memo[m]] ELSE memo
Memoised(memo, k, n, id) == IF k \in Shared THEN [m \in DOMAIN memo \cup {n} |-> IF m = n THEN id ELSE memo[m]] ELSE memo
Opened(st, n) == [g |-> Grow(st.g, [st.g[n] EXCEPT !.kids = <<>>]), memo |-> Memoised(st.memo, st.g[n].k, n, Fresh1(st.g)), id |-> Fresh1(st.g)]
WithKid(acc, r) == [g |-> [r.g EXCEPT ![acc.id].kids = Append(@, r.id)], memo |-> r.memo, id |-> acc.id]
\* A clone that shares its elements: copy.copy of a container, and the catch-all
\* of deepcopy, which a defaultdict falls into.
shallow_clone_structural(st, n) == [st EXCEPT !.g = Grow(@, st.g[n]), !.id = Fresh1(st.g)]
RECURSIVE deep_clone_memo(_, _)
deep_clone_memo(st, n) ==
  CASE n < 1 -> Keep(st, n)
    [] n \in DOMAIN st.memo -> Keep(st, st.memo[n])
    [] st.g[n].k = "ddict" -> shallow_clone_structural(st, n)
    [] OTHER -> FoldLeft(LAMBDA acc, c : WithKid(acc, deep_clone_memo(acc, c)), Opened(st, n), st.g[n].kids)
DeepCopy(g, n) == deep_clone_memo([g |-> g, memo |-> << >>, id |-> 0], n)

(***************************************************************************)
(* estimate_value_size: a walk under the containers' locks (try_lock: a     *)
(* locked one counts nothing), with a cache in every list and dict.         *)
(***************************************************************************)
Header == 24
Slot == 3            \* of an element; an entry of a dict takes one more
Sized(k) == k \in {"list", "dict", "odict"}
Overhead(node) == Header + Len(node.kids) * (IF IsDict(node.k) THEN Slot + 1 ELSE IF node.k = "inst" THEN 1 ELSE Slot)
Cached(r, k, n) == IF Sized(k) THEN [r EXCEPT !.cache = [m \in DOMAIN @ \cup {n} |-> IF m = n THEN r.size ELSE @[m]]] ELSE r
RECURSIVE estimate_value_size(_, _, _, _)
estimate_value_size(g, n, cache, held) ==
  CASE n < 1 -> [size |-> 8, cache |-> cache]
    [] n \in held -> [size |-> IF g[n].k = "inst" THEN Header ELSE 0, cache |-> cache]
    [] n \in DOMAIN cache -> [size |-> cache[n], cache |-> cache]
    [] OTHER -> Cached(FoldLeft(LAMBDA acc, c : LET r == estimate_value_size(g, c, acc.cache, IF g[n].k \in Shared THEN held \cup {n} ELSE held)
                                                IN  [size |-> acc.size + r.size, cache |-> r.cache],
                                [size |-> Overhead(g[n]), cache |-> cache], g[n].kids), g[n].k, n)
\* The cache after the containers ns were sized in turn; after container n was
\* written (DerefMut clears n's own cache), and the graph after that write.
SizedAll(g, ns, cache) == FoldLeft(LAMBDA acc, n : estimate_value_size(g, n, acc, {}).cache, cache, ns)
DerefMut(cache, n) == [m \in DOMAIN cache \ {n} |-> cache[m]]
Appended(g, n) == [g EXCEPT ![n].kids = Append(@, 0), ![n].keys = Append(@, Len(@) + 1)]
================================================================================
