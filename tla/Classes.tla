-------------------------------- MODULE Classes --------------------------------
(***************************************************************************)
(* Classes: eval/classes.rs, the attribute protocol of eval/names.rs,      *)
(* eval/statements.rs and eval/delete.rs, and the dataclasses module.  A    *)
(* class keeps a table per kind of definition, and every lookup walks the  *)
(* method resolution order for one table at a time.                         *)
(***************************************************************************)
EXTENDS Calls

(***************************************************************************)
(* The method resolution order.                                             *)
(***************************************************************************)
InTail(seq, x) == x \in ToSet(Tail(seq))
\* Mutant: only the first sequence's tail is looked at.
GoodInFirst(seqs, x) == ~ InTail(seqs[1], x)
GoodHead(seqs, x) == \A i \in DOMAIN seqs : ~ InTail(seqs[i], x)
Strip(seqs, x) == SelectSeq([i \in DOMAIN seqs |-> IF seqs[i][1] = x THEN Tail(seqs[i]) ELSE seqs[i]], LAMBDA s : s # <<>>)
MergeStep(acc) ==
  LET at == SelectInSeq(acc.left, LAMBDA s : GoodHead(acc.left, s[1]))
  IN  CASE acc.left = <<>> \/ ~ acc.ok -> acc
        [] at = 0 -> [acc EXCEPT !.ok = FALSE]
        [] OTHER -> [acc EXCEPT !.mro = Append(@, acc.left[at][1]), !.left = Strip(@, acc.left[at][1])]
\* The steps are enough for all classes of the registry.
build_mro(c, bases, reg) ==
  FoldLeft(LAMBDA acc, i : MergeStep(acc),
           [ok |-> TRUE, mro |-> <<c>>,
            left |-> SelectSeq([i \in DOMAIN bases |-> reg[bases[i]].mro] \o <<bases>>, LAMBDA s : s # <<>>)],
           [i \in 1 .. Cardinality(DOMAIN reg) + 1 |-> i])

(***************************************************************************)
(* Class bodies.  A statement is <<kind, name>>: a def, plain or decorated, *)
(* or an assignment of a plain value, a function, or an instance of a class *)
(* with __get__ (nondata) and __set__ and __delete__ too (data).            *)
(***************************************************************************)
NoFields == <<>>
FieldNames(fields) == {fields[i].name : i \in DOMAIN fields}
NoTables == [methods |-> {}, statics |-> {}, classms |-> {}, props |-> << >>, attrs |-> << >>, abstract |-> {}]
Accessors(kind) == IF kind = "cached" THEN {"get", "cached"} ELSE {"get"}
classify_decorated_method(t, s) ==
  CASE s[1] = "def" -> [t EXCEPT !.methods = @ \cup {s[2]}]
    [] s[1] = "abstract" -> [t EXCEPT !.methods = @ \cup {s[2]}, !.abstract = @ \cup {s[2]}]
    [] s[1] = "static" -> [t EXCEPT !.statics = @ \cup {s[2]}]
    [] s[1] = "classm" -> [t EXCEPT !.classms = @ \cup {s[2]}]
    [] s[1] \in {"prop", "cached"} -> [t EXCEPT !.props = Overlay(@, s[2], Accessors(s[1]))]
    [] s[1] \in {"setter", "deleter"} -> [t EXCEPT !.props = Overlay(@, s[2], @[s[2]] \cup {s[1]})]
    [] OTHER -> [t EXCEPT !.attrs = Overlay(@, s[2], s[1])]
Body(stmts) == FoldLeft(classify_decorated_method, NoTables, stmts)

Defines(t, x) == x \in t.methods \cup t.statics \cup t.classms \cup DOMAIN t.props \cup DOMAIN t.attrs
\* The names still abstract: those of the bases that the body does not define.
Unresolved(reg, bases, t) == t.abstract \cup {x \in UNION {reg[bases[i]].abstract : i \in DOMAIN bases} : ~ Defines(t, x)}
NoMeta == 0
InheritedMeta(reg, bases) ==
  LET at == SelectInSeq(bases, LAMBDA b : reg[b].meta # NoMeta) IN IF at = 0 THEN NoMeta ELSE reg[bases[at]].meta
\* Slots are inherited from every base that has them.
Slotted(reg, d) == d.slots # {} \/ \E i \in DOMAIN d.bases : reg[d.bases[i]].slotted
SlotNames(reg, d) == d.slots \cup UNION {IF reg[d.bases[i]].slotted THEN reg[d.bases[i]].slots ELSE {} : i \in DOMAIN d.bases}
Registered(reg, c, d, t, mro) ==
  Overlay(reg, c, [methods |-> t.methods, statics |-> t.statics, classms |-> t.classms, props |-> t.props, attrs |-> t.attrs,
                   bases |-> d.bases, mro |-> mro, abstract |-> Unresolved(reg, d.bases, t), slotted |-> Slotted(reg, d),
                   slots |-> SlotNames(reg, d), meta |-> IF d.meta # NoMeta THEN d.meta ELSE InheritedMeta(reg, d.bases),
                   own |-> d.fields, fields |-> NoFields, frozen |-> FALSE])
eval_class_def(reg, c, d) ==
  LET m == build_mro(c, d.bases, reg)
  IN  IF m.ok /\ m.left = <<>> THEN Ok(Registered(reg, c, d, Body(d.body), m.mro)) ELSE Bad("TypeError")

(***************************************************************************)
(* Lookups: the nearest class of the order with the name in one table, or   *)
(* 0.  The hooks are methods.                                               *)
(***************************************************************************)
Nearest(mro, Has(_)) == LET at == SelectInSeq(mro, Has) IN IF at = 0 THEN 0 ELSE mro[at]
lookup_method_in_mro(reg, c, x) == Nearest(reg[c].mro, LAMBDA k : x \in reg[k].methods)
lookup_static_method(reg, c, x) == Nearest(reg[c].mro, LAMBDA k : x \in reg[k].statics)
lookup_class_method(reg, c, x) == Nearest(reg[c].mro, LAMBDA k : x \in reg[k].classms)
lookup_property(reg, c, x) == Nearest(reg[c].mro, LAMBDA k : x \in DOMAIN reg[k].props)
lookup_class_attr(reg, c, x) == Nearest(reg[c].mro, LAMBDA k : x \in DOMAIN reg[k].attrs)
AttrKind(reg, k, x) == IF k = 0 THEN "none" ELSE reg[k].attrs[x]
Descriptors == {"data", "nondata"}
lookup_class_attr_instance(reg, c, x) == Nearest(reg[c].mro, LAMBDA k : x \in DOMAIN reg[k].attrs /\ reg[k].attrs[x] \in Descriptors)

\* What an access comes to: <<outcome, class>>.
Found(how, k) == <<how, k>>
Missing1 == <<"AttributeError", 0>>

instance_attribute(reg, o, x) ==
  CASE x \in o.fields -> Found("field", 0)
    [] lookup_class_attr(reg, o.class, x) # 0 -> Found("value", lookup_class_attr(reg, o.class, x))
    [] OTHER -> Missing1
OrGetattr(r, hook) == IF r = Missing1 /\ hook # 0 THEN Found("__getattr__", hook) ELSE r
invoke_property_getter(reg, o, x, k) == IF "cached" \in reg[k].props[x] /\ x \in o.fields THEN Found("field", 0) ELSE Found("getter", k)
\* Mutant: a field hides a data descriptor too.
FieldHidesData(reg, o, x, k) == IF x \in o.fields THEN Found("field", 0) ELSE Found("__get__", k)
DescriptorGet(reg, o, x, k) == IF reg[k].attrs[x] = "nondata" /\ x \in o.fields THEN Found("field", 0) ELSE Found("__get__", k)
getattr_normal_lookup(reg, o, x) ==
  LET prop == lookup_property(reg, o.class, x)
      desc == lookup_class_attr_instance(reg, o.class, x)
      method == lookup_method_in_mro(reg, o.class, x)
  IN  CASE prop # 0 -> invoke_property_getter(reg, o, x, prop)
        [] desc # 0 -> DescriptorGet(reg, o, x, desc)
        [] method # 0 /\ x \notin o.fields -> Found("bound", method)
        [] OTHER -> OrGetattr(instance_attribute(reg, o, x), lookup_method_in_mro(reg, o.class, "__getattr__"))
getattr_on_value(reg, o, x) ==
  LET hook == lookup_method_in_mro(reg, o.class, "__getattribute__")
  IN  IF hook # 0 THEN Found("__getattribute__", hook) ELSE getattr_normal_lookup(reg, o, x)

\* C.x and C.x(...): static before class method before attribute before
\* property before method; the metaclass last.
class_attribute(reg, c, x) ==
  LET static == lookup_static_method(reg, c, x)  classm == lookup_class_method(reg, c, x)  attr == lookup_class_attr(reg, c, x)
      prop == lookup_property(reg, c, x)  method == lookup_method_in_mro(reg, c, x)  meta == reg[c].meta
  IN  CASE static # 0 -> Found("function", static)
        [] classm # 0 -> Found("bound to class", classm)
        [] attr # 0 -> Found("value", attr)
        [] prop # 0 -> Found("property", prop)
        [] method # 0 -> Found("function", method)
        [] meta # NoMeta /\ lookup_class_attr(reg, meta, x) # 0 -> Found("value", lookup_class_attr(reg, meta, x))
        [] meta # NoMeta /\ lookup_method_in_mro(reg, meta, x) # 0 -> Found("function", lookup_method_in_mro(reg, meta, x))
        [] OTHER -> Missing1
ClassCall(reg, c, x) ==
  LET static == lookup_static_method(reg, c, x)  classm == lookup_class_method(reg, c, x)
      method == lookup_method_in_mro(reg, c, x)  attr == lookup_class_attr(reg, c, x)
  IN  CASE static # 0 -> Found("run", static)
        [] classm # 0 -> Found("run with class", classm)
        [] method # 0 -> Found("run", method)
        [] attr # 0 -> Found("call value", attr)
        [] OTHER -> Missing1

\* o.x(...): run without a receiver, with the class, or with the instance.
instance_attr_call_fallback(reg, o, x) ==
  LET attr == lookup_class_attr(reg, o.class, x)  hook == lookup_method_in_mro(reg, o.class, "__getattr__")
  IN  CASE x \in o.fields -> Found("call field", 0)
        [] AttrKind(reg, attr, x) = "func" -> Found("run with self", attr)
        [] hook # 0 -> Found("call __getattr__", hook)
        [] OTHER -> Missing1
instance_method_call(reg, o, x) ==
  LET static == lookup_static_method(reg, o.class, x)  classm == lookup_class_method(reg, o.class, x)  method == lookup_method_in_mro(reg, o.class, x)
  IN  CASE static # 0 -> Found("run", static)
        [] classm # 0 -> Found("run with class", classm)
        [] method # 0 -> Found("run with self", method)
        [] OTHER -> instance_attr_call_fallback(reg, o, x)

\* super(): the classes after the one whose method runs.
After(mro, k) == SubSeq(mro, SelectInSeq(mro, LAMBDA y : y = k) + 1, Len(mro))
super_method_call(reg, o, k, x) == Nearest(After(reg[o.class].mro, k), LAMBDA j : x \in reg[j].methods)
super_class_method_call(reg, c, k, x) == Nearest(After(reg[c].mro, k), LAMBDA j : x \in reg[j].classms \cup reg[j].statics \cup reg[j].methods)
\* A property or attribute is read; a method in between ends the walk.
super_attribute(reg, o, k, x) ==
  LET at == Nearest(After(reg[o.class].mro, k), LAMBDA j : x \in DOMAIN reg[j].props \cup DOMAIN reg[j].attrs \cup reg[j].methods)
  IN  CASE at = 0 -> Missing1
        [] x \in DOMAIN reg[at].props -> invoke_property_getter(reg, o, x, at)
        [] x \in DOMAIN reg[at].attrs -> Found("value", at)
        [] OTHER -> Missing1
\* The bases' hook: the first base whose order has one.
invoke_init_subclass(reg, bases) ==
  LET hook(b) == IF lookup_class_method(reg, b, "__init_subclass__") # 0 THEN lookup_class_method(reg, b, "__init_subclass__")
                 ELSE lookup_method_in_mro(reg, b, "__init_subclass__")
      at == SelectInSeq(bases, LAMBDA b : hook(b) # 0)
  IN  IF at = 0 THEN 0 ELSE hook(bases[at])

(***************************************************************************)
(* o.x = v and del o.x.  A receiver that is no bare name has its field      *)
(* written whatever the class says, unless it is frozen.                    *)
(***************************************************************************)
SlotAllows(reg, c, x) == ~ reg[c].slotted \/ x \in reg[c].slots \/ x \in FieldNames(reg[c].fields)
assign_attribute(reg, o, x, bare) ==
  LET desc == lookup_class_attr_instance(reg, o.class, x)  prop == lookup_property(reg, o.class, x)
      hook == lookup_method_in_mro(reg, o.class, "__setattr__")
  IN  CASE reg[o.class].frozen -> Found("FrozenInstanceError", 0)
        [] ~ bare -> Found("field", 0)
        [] ~ SlotAllows(reg, o.class, x) -> Missing1
        [] AttrKind(reg, desc, x) = "data" -> Found("__set__", desc)
        [] prop # 0 /\ "setter" \in reg[prop].props[x] -> Found("setter", prop)
        [] prop # 0 -> Missing1
        [] hook # 0 -> Found("__setattr__", hook)
        [] OTHER -> Found("field", 0)
delete_attribute(reg, o, x) ==
  LET desc == lookup_class_attr_instance(reg, o.class, x)  prop == lookup_property(reg, o.class, x)
      hook == lookup_method_in_mro(reg, o.class, "__delattr__")
  IN  CASE AttrKind(reg, desc, x) = "data" -> Found("__delete__", desc)
        [] prop # 0 /\ "deleter" \in reg[prop].props[x] -> Found("deleter", prop)
        [] prop # 0 -> Missing1
        [] hook # 0 -> Found("__delattr__", hook)
        [] x \in o.fields -> Found("field", 0)
        [] OTHER -> Missing1

(***************************************************************************)
(* Dataclasses.  A field: [name, default (of the class that set it), init]. *)
(***************************************************************************)
push_or_update(fields, f) ==
  LET at == SelectInSeq(fields, LAMBDA g : g.name = f.name) IN IF at = 0 THEN Append(fields, f) ELSE [fields EXCEPT ![at] = f]
CollectFields(reg, c) ==
  FoldLeft(push_or_update, NoFields, FlattenSeq(Reverse([i \in 1 .. Len(reg[c].mro) - 1 |-> reg[reg[c].mro[i + 1]].fields])) \o reg[c].own)
InitFields(fields) == SelectSeq(fields, LAMBDA f : f.init)
OutOfOrder(fields) == \E i, j \in DOMAIN fields : i < j /\ fields[i].default /\ ~ fields[j].default
apply_dataclass(reg, c, frozen) ==
  LET fields == CollectFields(reg, c)
  IN  IF OutOfOrder(InitFields(fields)) THEN Bad("TypeError")
      ELSE Ok([reg EXCEPT ![c].fields = fields, ![c].frozen = frozen, ![c].slotted = FALSE])
\* The fields of the new instance: an argument, or the field's default.
FieldValue(fields, i, args, kw) ==
  CASE i <= Len(args) -> <<args[i]>>
    [] fields[i].name \in DOMAIN kw -> <<kw[fields[i].name]>>
    [] fields[i].default -> <<DefaultOf(fields[i].name)>>
    [] OTHER -> <<>>
DataFault(init, args, kw) ==
  \/ Len(args) > Len(init)
  \/ ~ (DOMAIN kw \subseteq FieldNames(init))
  \/ \E i \in DOMAIN init : (i <= Len(args) /\ init[i].name \in DOMAIN kw) \/ FieldValue(init, i, args, kw) = <<>>
dataclass_instantiate(fields, args, kw) ==
  LET init == InitFields(fields)
      late == SelectSeq(fields, LAMBDA f : ~ f.init /\ f.default)
  IN  IF DataFault(init, args, kw) THEN Bad("TypeError")
      ELSE Ok([x \in FieldNames(init) \cup FieldNames(late) |->
                 IF x \in FieldNames(late) THEN DefaultOf(x)
                 ELSE LET i == SelectInSeq(init, LAMBDA f : f.name = x) IN FieldValue(init, i, args, kw)[1]])

(***************************************************************************)
(* c(...): the hooks that run, in order, and the error or "none".           *)
(***************************************************************************)
Hooks(seq, e) == [ran |-> SelectSeq(seq, LAMBDA h : h[2] # 0), e |-> e]
instantiate_default(reg, c, argc) ==
  LET new == lookup_method_in_mro(reg, c, "__new__")  init == lookup_method_in_mro(reg, c, "__init__")
      post == lookup_method_in_mro(reg, c, "__post_init__")
  IN  CASE reg[c].abstract # {} -> Hooks(<<>>, "TypeError")
        [] new # 0 -> Hooks(<< <<"__new__", new>>, <<"__init__", init>> >>, "none")
        [] reg[c].fields # NoFields /\ "__init__" \notin reg[c].methods -> Hooks(<< <<"dataclass", c>>, <<"__post_init__", post>> >>, "none")
        [] init # 0 -> Hooks(<< <<"__init__", init>> >>, "none")
        [] argc > 0 -> Hooks(<<>>, "TypeError")
        [] OTHER -> Hooks(<<>>, "none")
\* A metaclass's __call__ goes on with super().__call__.
WithCall(r, call) == [r EXCEPT !.ran = << <<"__call__", call>> >> \o @]
instantiate(reg, c, argc) ==
  LET call == IF reg[c].meta = NoMeta THEN 0 ELSE lookup_method_in_mro(reg, reg[c].meta, "__call__")
  IN  IF call = 0 THEN instantiate_default(reg, c, argc) ELSE WithCall(instantiate_default(reg, c, argc), call)

(***************************************************************************)
(* The assignments of a class body run in the live variables: the names     *)
(* bound so far are put there before each statement, and what a statement   *)
(* leaves there is taken back.  A statement: [t: "assign" (at the body's    *)
(* level) or "nest" (inside an if or a loop), x, from: a number or a name]. *)
(***************************************************************************)
Seeded(vars, attrs) == [x \in DOMAIN vars \cup DOMAIN attrs |-> IF x \in DOMAIN attrs THEN attrs[x] ELSE vars[x]]
Differs(f, x, v) == x \notin DOMAIN f \/ f[x] # v
Harvested(b, saved) ==
  [b EXCEPT !.attrs = Seeded(@, [x \in {y \in DOMAIN b.vars : Differs(b.attrs, y, b.vars[y]) /\ Differs(saved, y, b.vars[y])} |-> b.vars[x]])]
BodyValue(vars, from) == IF from[1] = "num" THEN from ELSE vars[from[2]]
BindIn(b, s) ==
  IF s.t = "assign" THEN [b EXCEPT !.attrs = Overlay(@, s.x, BodyValue(b.vars, s.from))]
  ELSE [b EXCEPT !.vars = Overlay(@, s.x, BodyValue(b.vars, s.from))]
NoName(b, s) == s.from[1] = "name" /\ s.from[2] \notin DOMAIN b.vars
BodyStep(b, s, saved) ==
  LET seeded == [b EXCEPT !.vars = Seeded(@, b.attrs)]
  IN  IF b.e # "none" \/ NoName(seeded, s) THEN [b EXCEPT !.e = "NameError"] ELSE Harvested(BindIn(seeded, s), saved)
RunBody(saved, stmts) ==
  LET b == FoldLeft(LAMBDA acc, s : BodyStep(acc, s, saved), [vars |-> saved, attrs |-> << >>, e |-> "none"], stmts)
  IN  [attrs |-> b.attrs, e |-> b.e, vars |-> saved]      \* the enclosing scope is restored

\* Members of an enum: a number, or Auto; next is enum_auto_next.
Auto == -1
PowerAtLeast(n) == LET k == CHOOSE j \in 0 .. 8 : 2^j >= n /\ \A i \in 0 .. (j - 1) : 2^i < n IN 2^k
wrap_enum_member(acc, v, flag) ==
  CASE v # Auto -> [next |-> IF v + 1 > acc.next THEN v + 1 ELSE acc.next, values |-> Append(acc.values, v)]
    [] flag -> [next |-> 2 * PowerAtLeast(acc.next), values |-> Append(acc.values, PowerAtLeast(acc.next))]
    [] OTHER -> [next |-> acc.next + 1, values |-> Append(acc.values, acc.next)]
EnumValues(decls, flag) == FoldLeft(LAMBDA acc, v : wrap_enum_member(acc, v, flag), [next |-> 1, values |-> <<>>], decls).values
================================================================================
