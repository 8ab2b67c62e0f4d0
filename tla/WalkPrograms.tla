------------------------------ MODULE WalkPrograms ------------------------------
(***************************************************************************)
(* What Python says of the walks of Walks: where repr prints "...", which   *)
(* values have no JSON, when a comparison has an answer, what a deep copy   *)
(* shares.                                                                  *)
(***************************************************************************)
EXTENDS Walks

Builtins == {"list", "dict", "odict", "tuple"}

RunWalks(g, n) ==
  [render |-> WalkFrom(render, g, n), fmt |-> WalkFrom(fmt, g, n), json |-> WalkFrom(write_json, g, n), to_json |-> WalkFrom(to_json, g, n),
   asdict |-> WalkFrom(convert_for_asdict, g, n), py |-> WalkFrom(value_to_py, g, n), js |-> WalkFrom(value_to_js, g, n)]

\* Tree t shows container n: "..." exactly where a container is inside itself.
RECURSIVE Shows(_, _, _, _, _)
Shows(g, n, t, above, open) ==
  CASE n < 1 -> t = Twig(n)
    [] n \in above -> t[1] = "dots"
    [] n \notin above /\ g[n].k \notin open -> t[1] = "opaque"
    [] OTHER -> /\ t[1] = g[n].k /\ Len(t[2]) = Len(g[n].kids)
                /\ \A i \in DOMAIN t[2] : Shows(g, g[n].kids[i], t[2][i], IF g[n].k = "tuple" THEN above ELSE above \cup {n}, open)
RECURSIVE Height(_, _)
Height(g, n) == IF n < 1 THEN 1 ELSE 1 + FoldLeft(LAMBDA acc, c : LET h == Height(g, c) IN IF h > acc THEN h ELSE acc, 0, g[n].kids)
CyclicDict(g, n) == \E c \in Reaches(g, n) : IsDict(g[c].k) /\ OnCycle(g, c)

JsonMeets(g, n, ks, cyc, out) ==
  IF ks \subseteq Builtins
  THEN /\ out.json = out.to_json
       /\ IF cyc THEN out.json.out[1] = "ValueError" ELSE Shows(g, n, out.json.out, {}, Builtins)
  ELSE out.json.out[1] \in {"ValueError", "TypeError"} /\ out.to_json.out[1] \notin {"deadlock", "overflow"}
ConvertMeets(g, n, ks, cyc, out) ==
  /\ IF cyc \/ ~ ks \subseteq Builtins \/ Height(g, n) > MaxConvertDepth THEN out.py.out[1] = "TypeError"
     ELSE Shows(g, n, out.py.out, {}, Builtins)
  /\ CyclicDict(g, n) \/ out.js = out.py
WalkMeets(g, n, ks, cyc, out) ==
  /\ \A w \in DOMAIN out : out[w].act = {}
  /\ ks \subseteq {"list", "dict", "tuple", "inst"} => Shows(g, n, out.render.out, {}, render.open)
  /\ ks \subseteq {"list", "tuple", "inst"} \/ (~ cyc /\ "ddict" \notin ks) => Shows(g, n, out.fmt.out, {}, fmt.open)
  /\ ~ cyc => Shows(g, n, out.asdict.out, {}, convert_for_asdict.open)
  /\ JsonMeets(g, n, ks, cyc, out)
  /\ ConvertMeets(g, n, ks, cyc, out)

(* Sizes: what a fresh sum gives, for containers sized in any order.        *)
RECURSIVE PlainSize(_, _)
PlainSize(g, n) == IF n < 1 THEN 8 ELSE Overhead(g[n]) + FoldLeft(LAMBDA acc, c : acc + PlainSize(g, c), 0, g[n].kids)
RunSizes(g, order, m) ==
  LET before == SizedAll(g, order, << >>)
  IN  [before |-> before, after |-> [n \in DOMAIN g |-> estimate_value_size(Appended(g, m), n, DerefMut(before, m), {}).size]]
SizeMeets(g, m, out) ==
  /\ \A n \in DOMAIN out.before : out.before[n] = PlainSize(g, n)
  /\ \A n \in DOMAIN g : m \notin Below(g, n) => out.after[n] = PlainSize(Appended(g, m), n)

(***************************************************************************)
(* Comparisons: the least solution of "equal when the elements are", with   *)
(* "over" for no answer.                                                    *)
(***************************************************************************)
ElementEq(f, a, b) == IF a < 1 \/ b < 1 THEN IF a = b THEN "T" ELSE "F" ELSE f[<<a, b>>]
FirstNot(s) == LET ns == SelectSeq(s, LAMBDA v : v # "T") IN IF ns = <<>> THEN "T" ELSE ns[1]
\* dict.__eq__ looks each key up; OrderedDict.__eq__ then compares the orders.
KeyAt(b, q) == SelectInSeq(b.keys, LAMBDA r : r = q)
EntryEq(f, a, b, i) == IF ~ IsDict(a.k) THEN ElementEq(f, a.kids[i], b.kids[i])
                       ELSE IF KeyAt(b, a.keys[i]) = 0 THEN "F" ELSE ElementEq(f, a.kids[i], b.kids[KeyAt(b, a.keys[i])])
InOneOrder(a, b, eq) == IF eq = "T" /\ a.k = "odict" /\ b.k = "odict" /\ a.keys # b.keys THEN "F" ELSE eq
Deduce(g, f, x, y) ==
  CASE x = y -> "T"
    [] ~ Comparable(g[x].k, g[y].k) \/ Len(g[x].kids) # Len(g[y].kids) -> "F"
    [] OTHER -> InOneOrder(g[x], g[y], FirstNot([i \in DOMAIN g[x].kids |-> EntryEq(f, g[x], g[y], i)]))
Answers(g) ==
  FoldLeft(LAMBDA f, i : [p \in DOMAIN f |-> Deduce(g, f, p[1], p[2])], [p \in (DOMAIN g) \X (DOMAIN g) |-> "over"],
           [i \in 1 .. Len(g) * Len(g) |-> i])
RECURSIVE PyLt(_, _, _, _)
PyLt(g, f, x, y) ==
  CASE x < 1 /\ y < 1 -> IF x < y THEN "T" ELSE "F"
    [] x < 1 \/ y < 1 -> "TypeError"
    [] g[x].k # g[y].k \/ ~ IsSeq(g[x].k) -> "TypeError"
    [] OTHER ->
         LET differ == {i \in DOMAIN g[x].kids \cap DOMAIN g[y].kids : ElementEq(f, g[x].kids[i], g[y].kids[i]) # "T"}
             first == CHOOSE i \in differ : \A j \in differ : i <= j
         IN  IF differ = {} THEN IF Len(g[x].kids) < Len(g[y].kids) THEN "T" ELSE "F"
             ELSE PyLt(g, f, g[x].kids[first], g[y].kids[first])

Misordered(g) == \E x, y \in DOMAIN g : g[x].k = "odict" /\ g[y].k = "odict" /\ g[x].keys # g[y].keys
RunCompare(g, x, y) == [eq |-> dispatch_eq(g, x, y), lt |-> dispatch_lt(g, x, y, {}), in |-> list_contains(g, x, y), py |-> Answers(g)]
CompareMeets(g, x, y, out) ==
  /\ out.eq = out.py[<<x, y>>] \/ (Misordered(g) /\ out.eq = "F" /\ out.py[<<x, y>>] = "over")
  /\ IsSeq(g[y].k) /\ (\A c \in KidsOf(g, y) : out.py[<<c, x>>] # "over") => (out.in <=> \E c \in KidsOf(g, y) : out.py[<<c, x>>] = "T")
  /\ ~ Cyclic(g, x) /\ ~ Cyclic(g, y) /\ Reaches(g, x) \cap Reaches(g, y) = {} => out.lt = PyLt(g, out.py, x, y)

(***************************************************************************)
(* Copies: which container of the copy stands for which of the original.    *)
(***************************************************************************)
PairKids(g, h, p) == {<<g[p[1]].kids[i], h[p[2]].kids[i]>> : i \in DOMAIN g[p[1]].kids \cap DOMAIN h[p[2]].kids}
Pairing(g, n, h, m) ==
  FoldLeft(LAMBDA acc, i : acc \cup {q \in UNION {PairKids(g, h, p) : p \in acc} : q[1] > 0 /\ q[2] > 0}, {<<n, m>>}, [i \in 1 .. Len(h) |-> i])
RunCopy(g, n) == [deep |-> DeepCopy(g, n), shallow |-> shallow_clone_structural([g |-> g, memo |-> << >>, id |-> 0], n)]
StandsFor(g, a, h, b) ==
  /\ g[a].k = h[b].k /\ g[a].keys = h[b].keys /\ Len(g[a].kids) = Len(h[b].kids)
  /\ \A i \in DOMAIN g[a].kids : g[a].kids[i] = h[b].kids[i] <=> g[a].kids[i] < 1
CopyMeets(g, R, out) ==
  /\ \A i \in DOMAIN g : out.deep.g[i] = g[i]
  /\ \A p \in R : p[2] \notin DOMAIN g /\ StandsFor(g, p[1], out.deep.g, p[2])
  /\ \A p, q \in R : g[p[1]].k \in Shared /\ g[q[1]].k \in Shared => (p[1] = q[1] <=> p[2] = q[2])
  /\ out.shallow.id \notin DOMAIN g
================================================================================
