------------------------------ MODULE ClassPrograms -----------------------------
(***************************************************************************)
(* Programs about classes, and what Python says of them: hierarchies, one   *)
(* attribute looked up every way a program can, constructions, dataclasses. *)
(***************************************************************************)
EXTENDS Classes

PlainClass(bases, body) == [bases |-> bases, body |-> body, slots |-> {}, meta |-> NoMeta, fields |-> NoFields]
\* The class statements ds, each <<class, definition>>, up to the first that fails.
Declare(ds) ==
  FoldLeft(LAMBDA acc, d : IF acc.bad # 0 THEN acc
                           ELSE LET r == eval_class_def(acc.reg, d[1], d[2]) IN IF r.ok THEN [acc EXCEPT !.reg = r.v] ELSE [acc EXCEPT !.bad = d[1]],
           [reg |-> << >>, bad |-> 0], ds)
WhereDefined(mro, definers) == SelectSeq(mro, LAMBDA k : k \in definers)

(***************************************************************************)
(* Hierarchies: class i has the bases bs[i]; the classes of defs define f   *)
(* (and the class method g), and each f calls super().f().                  *)
(***************************************************************************)
SuperChain(Next(_), first, n) ==
  FoldLeft(LAMBDA acc, i : IF Last(acc) = 0 THEN acc ELSE Append(acc, Next(Last(acc))), <<first>>, Upto(n))
HierarchyClass(h, i) == <<i, PlainClass(h.bs[i], IF i \in h.defs THEN << <<"def", "f">>, <<"classm", "g">> >> ELSE <<>>)>>
ChainsOf(reg, c, n) ==
  <<SuperChain(LAMBDA k : super_method_call(reg, [class |-> c, fields |-> {}], k, "f"), instance_method_call(reg, [class |-> c, fields |-> {}], "f")[2], n),
    SuperChain(LAMBDA k : super_class_method_call(reg, c, k, "g"), ClassCall(reg, c, "g")[2], n)>>
HierarchyOut(h, acc, n) ==
  [bad |-> acc.bad, mro |-> [c \in DOMAIN acc.reg |-> acc.reg[c].mro],
   chains |-> IF acc.bad # 0 THEN <<>> ELSE ChainsOf(acc.reg, n, n + 1)]
RunClasses(h) == HierarchyOut(h, Declare([i \in DOMAIN h.bs |-> HierarchyClass(h, i)]), Len(h.bs))

Ordered(s, x, y) == \E i, j \in DOMAIN s : i < j /\ s[i] = x /\ s[j] = y
Ancestry(bs, mro, c) == {c} \cup UNION {ToSet(mro[bs[c][i]]) : i \in DOMAIN bs[c]}
\* x must stay before y: in the list of bases or in the order of one of them.
MustPrecede(bs, mro, c, x, y) == Ordered(bs[c], x, y) \/ \E i \in DOMAIN bs[c] : Ordered(mro[bs[c][i]], x, y)
Permutations1(S) == {s \in [1 .. Cardinality(S) -> S] : \A i, j \in DOMAIN s : i # j => s[i] # s[j]}
Linear(bs, mro, c, s) == \A x, y \in ToSet(s) : MustPrecede(bs, mro, c, x, y) => Ordered(s, x, y)
HierarchyMeets(h, out) ==
  /\ \A c \in DOMAIN out.mro : /\ out.mro[c][1] = c /\ Len(out.mro[c]) = Cardinality(Ancestry(h.bs, out.mro, c))
                               /\ ToSet(out.mro[c]) = Ancestry(h.bs, out.mro, c) /\ Linear(h.bs, out.mro, c, out.mro[c])
  /\ out.bad # 0 => ~ \E s \in Permutations1(Ancestry(h.bs, out.mro, out.bad) \ {out.bad}) : Linear(h.bs, out.mro, out.bad, s)
  /\ out.bad = 0 => \A chain \in ToSet(out.chains) : Front(chain) = WhereDefined(out.mro[Len(h.bs)], h.defs) /\ Last(chain) = 0

(***************************************************************************)
(* Lookups: three classes, the last one's instance.  The classes of defs    *)
(* define x, all in the same way; class 1 has the hooks; class 4 is a       *)
(* metaclass with a value x.                                                *)
(***************************************************************************)
BodyOf(kind) == CASE kind = "full" -> << <<"prop", "x">>, <<"setter", "x">>, <<"deleter", "x">> >> [] OTHER -> << <<kind, "x">> >>
HookDefs(hooks) == [i \in 1 .. Cardinality(hooks) |-> <<"def", SetToSeq(hooks)[i]>>]
LookupClass(l, i) ==
  <<i, [PlainClass(l.bs[i], (IF i \in l.defs THEN BodyOf(l.kind) ELSE <<>>) \o (IF i = 1 THEN HookDefs(l.hooks) ELSE <<>>))
          EXCEPT !.slots = l.slots, !.meta = IF i = 3 THEN l.meta ELSE NoMeta]>>
Attempts(reg, o) ==
  LET set == assign_attribute(reg, o, "x", TRUE)
      del == delete_attribute(reg, o, "x")
  IN  [mro |-> reg[3].mro, get |-> getattr_on_value(reg, o, "x"), call |-> instance_method_call(reg, o, "x"),
       cget |-> class_attribute(reg, 3, "x"), ccall |-> ClassCall(reg, 3, "x"), set |-> set, del |-> del,
       far |-> assign_attribute(reg, o, "x", FALSE), super |-> super_attribute(reg, o, 3, "x"),
       reget |-> IF set[1] = "field" THEN getattr_on_value(reg, [o EXCEPT !.fields = {"x"}], "x") ELSE <<"none", 0>>,
       undel |-> IF del[1] = "field" THEN delete_attribute(reg, [o EXCEPT !.fields = {}], "x") ELSE <<"none", 0>>]
RunAttempts(l) ==
  Attempts(Declare(<< <<4, PlainClass(<<>>, << <<"value", "x">> >>)>>, LookupClass(l, 1), LookupClass(l, 2), LookupClass(l, 3)>>).reg,
           [class |-> 3, fields |-> IF l.field THEN {"x"} ELSE {}])

\* The nearest class that defines x in any way, or 0; a hook is class 1's.
FirstOr0(seq) == IF seq = <<>> THEN 0 ELSE seq[1]
PyOwner(l, mro) == FirstOr0(WhereDefined(mro, l.defs))
PyHook(l, mro, hook) == IF hook \in l.hooks /\ 1 \in ToSet(mro) THEN 1 ELSE 0
PyRead(kind, k) == CASE kind \in {"prop", "full", "cached"} -> Found("getter", k)
                     [] kind \in Descriptors -> Found("__get__", k)
                     [] kind = "def" -> Found("bound", k)
                     [] OTHER -> Found("value", k)
Overriding == {"prop", "full", "data"}       \* descriptors that come before the instance's fields
PyGet(l, mro, k) ==
  CASE PyHook(l, mro, "__getattribute__") # 0 -> Found("__getattribute__", 1)
    [] k # 0 /\ l.kind \in Overriding -> PyRead(l.kind, k)
    [] l.field -> Found("field", 0)
    [] k # 0 -> PyRead(l.kind, k)
    [] PyHook(l, mro, "__getattr__") # 0 -> Found("__getattr__", 1)
    [] OTHER -> Missing1
PyCall(l, mro, k) ==
  CASE k # 0 -> Found(CASE l.kind = "static" -> "run" [] l.kind = "classm" -> "run with class" [] OTHER -> "run with self", k)
    [] l.field -> Found("call field", 0)
    [] PyHook(l, mro, "__getattr__") # 0 -> Found("call __getattr__", 1)
    [] OTHER -> Missing1
PyClassGet(l, k) ==
  CASE k = 0 -> IF l.meta # NoMeta THEN Found("value", 4) ELSE Missing1
    [] l.kind \in {"static", "def"} -> Found("function", k)
    [] l.kind = "classm" -> Found("bound to class", k)
    [] l.kind \in {"prop", "full", "cached"} -> Found("property", k)
    [] OTHER -> Found("value", k)
\* Assignment and deletion: the hook first, then descriptors, then the fields.
PyWrite(l, mro, k, hook, data, property, field) ==
  CASE PyHook(l, mro, hook) # 0 -> Found(hook, 1)
    [] k # 0 /\ l.kind = "data" -> Found(data, k)
    [] k # 0 /\ l.kind = "full" -> Found(property, k)
    [] k # 0 /\ l.kind = "prop" -> Missing1
    [] field -> Found("field", 0)
    [] OTHER -> Missing1
PyAllows(l) == l.slots = {} \/ "x" \in l.slots

\* Where the interpreter follows Python.
Reads(l) == l.kind \notin {"static", "classm", "func"}
Calls1(l, k) == k = 0 \/ (l.kind \in {"def", "static", "classm", "func"} /\ ~ l.field)
Writes(l, k, hook) == (k = 0 \/ l.kind # "cached") /\ ~ (k # 0 /\ l.kind \in Overriding /\ (hook \in l.hooks \/ l.slots # {}))
                      /\ ~ (l.slots # {} /\ hook \in l.hooks)
Passive(l, k) == (k = 0 \/ l.kind \notin Overriding) /\ "__setattr__" \notin l.hooks /\ PyAllows(l)   \* the class has no say
LookupAgrees(l, k, out) ==
  /\ Reads(l) => out.get = PyGet(l, out.mro, k)
  /\ Calls1(l, k) /\ "__getattribute__" \notin l.hooks => out.call = PyCall(l, out.mro, k)
  /\ k = 0 \/ l.kind \notin Descriptors => out.cget = PyClassGet(l, k)
  /\ l.kind \in {"def", "static"} /\ k # 0 => out.ccall = Found("run", k)
  /\ Writes(l, k, "__setattr__") => out.set = PyWrite(l, out.mro, k, "__setattr__", "__set__", "setter", PyAllows(l))
  /\ Passive(l, k) => out.far = PyWrite(l, out.mro, k, "__setattr__", "__set__", "setter", TRUE)
  /\ Writes(l, k, "__delattr__") => out.del = PyWrite(l, out.mro, k, "__delattr__", "__delete__", "deleter", l.field)
  /\ out.set[1] = "field" /\ Reads(l) /\ PyHook(l, out.mro, "__getattribute__") = 0 => out.reget = Found("field", 0)
  /\ out.del[1] = "field" => out.undel = Missing1
  /\ l.kind \in {"prop", "full", "value"} /\ ~ l.field =>
       LET j == FirstOr0(WhereDefined(Tail(out.mro), l.defs)) IN out.super = IF j = 0 THEN Missing1 ELSE PyRead(l.kind, j)
LookupMeets(l, out) == LookupAgrees(l, PyOwner(l, out.mro), out)

(***************************************************************************)
(* Constructions: [bs, init, new, post, data, abstract, impl, meta, argc];  *)
(* init, new, post: the classes that define the hook; abstract: class 1     *)
(* declares a; impl: the classes that define a; class 4: a metaclass.       *)
(***************************************************************************)
WithDef(on, kind, x) == IF on THEN << <<kind, x>> >> ELSE <<>>
OneField == << [name |-> "a", default |-> TRUE, init |-> TRUE] >>
MakeClass(q, i) ==
  <<i, [PlainClass(q.bs[i], WithDef(i \in q.init, "def", "__init__") \o WithDef(i \in q.new, "def", "__new__") \o WithDef(i \in q.post, "def", "__post_init__")
                     \o WithDef(i = 1 /\ q.abstract, "abstract", "m") \o WithDef(i \in q.impl, "def", "m") \o WithDef(i \in q.sub, "def", "__init_subclass__"))
          EXCEPT !.meta = IF i = 3 THEN q.meta ELSE NoMeta, !.fields = IF q.data /\ i = 3 THEN OneField ELSE NoFields]>>
Decorated(reg, q) == IF q.data THEN apply_dataclass(reg, 3, FALSE).v ELSE reg
Constructed(reg, q) == [mro |-> reg[3].mro, made |-> instantiate(Decorated(reg, q), 3, q.argc), sub |-> invoke_init_subclass(reg, q.bs[3])]
RunConstruction(q) ==
  Constructed(Declare(<< <<4, PlainClass(<<>>, << <<"def", "__call__">> >>)>>, MakeClass(q, 1), MakeClass(q, 2), MakeClass(q, 3)>>).reg, q)

PyHooks(q, mro) ==
  LET new == FirstOr0(WhereDefined(mro, q.new))  init == FirstOr0(WhereDefined(mro, q.init))  post == FirstOr0(WhereDefined(mro, q.post))
      synthesized == q.data /\ 3 \notin q.init
      inits == IF synthesized THEN << <<"dataclass", 3>>, <<"__post_init__", post>> >> ELSE << <<"__init__", init>> >>
  IN  SelectSeq(<< <<"__call__", q.meta>>, <<"__new__", new>> >> \o inits, LAMBDA h : h[2] # 0)
PyAbstract(q, mro) == q.abstract /\ LET k == FirstOr0(WhereDefined(mro, q.impl \cup {1})) IN k = 1 /\ 1 \notin q.impl
PyTakesArgs(q, mro) == q.data \/ FirstOr0(WhereDefined(mro, q.new \cup q.init)) # 0
ConstructMeets(q, out) ==
  /\ Len(q.bs[3]) = 1 \/ ~ q.abstract => (out.made.e = "TypeError" <=> PyAbstract(q, out.mro) \/ (q.argc > 0 /\ ~ PyTakesArgs(q, out.mro)))
  /\ out.made.e = "none" => out.made.ran = PyHooks(q, out.mro)
  /\ Len(q.bs[3]) = 1 => out.sub = FirstOr0(WhereDefined(Tail(out.mro), q.sub))

(***************************************************************************)
(* Dataclasses: each class of a chain is decorated; own[i] are its fields.  *)
(***************************************************************************)
DataStep(acc, i, own) ==
  IF ~ acc.ok THEN acc
  ELSE LET d == eval_class_def(acc.v, i, [PlainClass(IF i = 1 THEN <<>> ELSE <<i - 1>>, <<>>) EXCEPT !.fields = own]) IN apply_dataclass(d.v, i, FALSE)
DataFieldsOf(acc, n) == IF acc.ok THEN acc.v[n].fields ELSE <<>>
DataFields(owns) ==
  LET acc == FoldLeft(LAMBDA a, i : DataStep(a, i, owns[i]), Ok(<< >>), Upto(Len(owns))) IN [ok |-> acc.ok, fields |-> DataFieldsOf(acc, Len(owns))]
DataOut(r, args, kw) == [ok |-> r.ok, fields |-> r.fields, made |-> dataclass_instantiate(r.fields, args, kw)]
RunDataclass(q) == DataOut(DataFields(q.owns), q.args, q.kw)

\* The last definition of a name, at the place of its first.
AllOwn(owns) == FlattenSeq(owns)
FirstOf(fs, x) == SelectInSeq(fs, LAMBDA f : f.name = x)
LastOf(fs, x) == SelectLastInSeq(fs, LAMBDA f : f.name = x)
PyFields(fs) ==
  LET firsts == SelectSeq([i \in DOMAIN fs |-> i], LAMBDA i : FirstOf(fs, fs[i].name) = i)
  IN  [j \in DOMAIN firsts |-> fs[LastOf(fs, fs[firsts[j]].name)]]
SignatureOf(init) ==
  [args |-> [i \in DOMAIN init |-> init[i].name], posonly |-> 0, defaults |-> Len(SelectSeq(init, LAMBDA f : f.default)),
   vararg |-> FALSE, kwonly |-> <<>>, kwdefaults |-> {}, kwarg |-> FALSE]
InOrder(owns) == \A n \in 1 .. Len(owns) : ~ OutOfOrder(InitFields(PyFields(AllOwn(SubSeq(owns, 1, n)))))
DataMeets(q, out) ==
  /\ out.ok <=> InOrder(q.owns)
  /\ out.ok => /\ out.fields = PyFields(AllOwn(q.owns))
               /\ out.made.ok <=> Legal(SignatureOf(InitFields(out.fields)), q.args, q.kw)
               /\ out.made.ok => /\ Lands(SignatureOf(InitFields(out.fields)), q.args, q.kw, [x \in FieldNames(InitFields(out.fields)) |-> out.made.v[x]])
                                 /\ DOMAIN out.made.v = {f.name : f \in {g \in ToSet(out.fields) : g.init \/ g.default}}

(***************************************************************************)
(* Class bodies: [saved, stmts]; enums: [flag, decls].                      *)
(***************************************************************************)
\* A block with a scope of its own: reads fall through, writes do not.
PyBodyStep(b, s, saved) ==
  LET at == Seeded(saved, b.attrs)
  IN  IF b.e # "none" \/ (s.from[1] = "name" /\ s.from[2] \notin DOMAIN at) THEN [b EXCEPT !.e = "NameError"]
      ELSE [b EXCEPT !.attrs = Overlay(@, s.x, BodyValue(at, s.from))]
PyBody1(saved, stmts) == FoldLeft(LAMBDA acc, s : PyBodyStep(acc, s, saved), [attrs |-> << >>, e |-> "none"], stmts)
BodyAgrees(py, out) == out.attrs = py.attrs /\ out.e = py.e
\* Each name bound once, and no nested binding repeats the value outside.
PlainBody(q) ==
  /\ \A i, j \in DOMAIN q.stmts : i # j => q.stmts[i].x # q.stmts[j].x
  /\ \A i \in DOMAIN q.stmts : q.stmts[i].t = "nest" => q.stmts[i].x \notin DOMAIN q.saved
BodyMeets(q, out) == out.vars = q.saved /\ BodyAgrees(PyBody1(q.saved, q.stmts), out)

MaxOf(S) == CHOOSE m \in S : \A n \in S : n <= m
PyAuto(values, flag) ==
  IF values = <<>> THEN 1
  ELSE IF flag THEN CHOOSE p \in {1, 2, 4, 8, 16, 32} : p > MaxOf(ToSet(values)) /\ (p = 1 \/ p \div 2 <= MaxOf(ToSet(values)))
  ELSE MaxOf(ToSet(values)) + 1
EnumMeets(q, out) ==
  /\ Len(out) = Len(q.decls)
  /\ \A i \in DOMAIN out : out[i] = IF q.decls[i] = Auto THEN PyAuto(SubSeq(out, 1, i - 1), q.flag) ELSE q.decls[i]
================================================================================
