--------------------------------- MODULE Calls ---------------------------------
(***************************************************************************)
(* Calls: gathering the arguments (eval/functions/call.rs), binding them to *)
(* the parameters (eval/functions/params.rs), and the statements that read  *)
(* a slot, run code of the program and write the slot back: list.sort,      *)
(* list.remove, a method call, an augmented assignment.                     *)
(***************************************************************************)
EXTENDS Integers, Sequences, FiniteSets, SequencesExt

Overlay(f, x, v) == [q \in DOMAIN f \cup {x} |-> IF q = x THEN v ELSE f[q]]
Ok(v) == [ok |-> TRUE, v |-> v]
Bad(e) == [ok |-> FALSE, e |-> e]
Upto(n) == [i \in 1 .. n |-> i]

(***************************************************************************)
(* Arguments.  A positional is <<"+", v>> or <<"*", vs>>; a keyword        *)
(* <<name, v>> or <<"**", pairs>>, whose keys may be names or not.          *)
(***************************************************************************)
Starred(a) == a[1] = "*"
gather_positional(pos) == FoldLeft(LAMBDA acc, a : IF Starred(a) THEN acc \o a[2] ELSE Append(acc, a[2]), <<>>, pos)
InsertAll(f, pairs) == FoldLeft(LAMBDA g, p : Overlay(g, p[1], p[2]), f, pairs)
NotAName == "1"
Spread(kw) == IF kw[1] = "**" THEN kw[2] ELSE <<kw>>
gather_keyword(kws) ==
  IF \E i \in DOMAIN kws : \E j \in DOMAIN Spread(kws[i]) : Spread(kws[i])[j][1] = NotAName THEN Bad("TypeError")
  ELSE Ok(FoldLeft(LAMBDA f, kw : InsertAll(f, Spread(kw)), << >>, kws))

(***************************************************************************)
(* Parameters: [args, posonly, defaults, vararg, kwonly, kwdefaults, kwarg] *)
(***************************************************************************)
DefaultOf(x) == <<"default", x>>        \* the value kept at definition time
Rest == "*rest"
Extra == "**extra"
ArgNames(p) == ToSet(p.args)
KwNames(p) == ToSet(p.kwonly)
PosOnly(p) == {p.args[i] : i \in 1 .. p.posonly}
PositionOf(p, x) == SelectInSeq(p.args, LAMBDA y : y = x)
Defaulted(p, i) == i > Len(p.args) - p.defaults      \* first_default

Positional(p, i, args, kw) ==
  IF i <= Len(args) THEN <<args[i]>>
  ELSE IF i > p.posonly /\ p.args[i] \in DOMAIN kw THEN <<kw[p.args[i]]>>
  ELSE IF Defaulted(p, i) THEN <<DefaultOf(p.args[i])>> ELSE <<>>
KeywordOnly(p, x, kw) ==
  IF x \in DOMAIN kw THEN <<kw[x]>> ELSE IF x \in p.kwdefaults THEN <<DefaultOf(x)>> ELSE <<>>
\* Mutant: a keyword named like a positional-only parameter is dropped.
ClaimsPosOnly(p) == ArgNames(p) \cup KwNames(p)
ClaimedByName(p) == (ArgNames(p) \ PosOnly(p)) \cup KwNames(p)
Absorbed(p, kw) == [x \in DOMAIN kw \ ClaimedByName(p) |-> kw[x]]

BindFault(p, args, kw) ==
  \/ ~ p.vararg /\ Len(args) > Len(p.args)
  \/ ~ p.kwarg /\ PosOnly(p) \cap DOMAIN kw # {}
  \/ \E i \in p.posonly + 1 .. Len(p.args) : i <= Len(args) /\ p.args[i] \in DOMAIN kw
  \/ \E i \in DOMAIN p.args : Positional(p, i, args, kw) = <<>>
  \/ \E x \in KwNames(p) : KeywordOnly(p, x, kw) = <<>>
  \/ ~ p.kwarg /\ ~ (DOMAIN kw \subseteq ArgNames(p) \cup KwNames(p))
bind_params_named(p, args, kw) ==
  IF BindFault(p, args, kw) THEN Bad("TypeError")
  ELSE Ok([x \in ArgNames(p) \cup KwNames(p) \cup (IF p.vararg THEN {Rest} ELSE {}) \cup (IF p.kwarg THEN {Extra} ELSE {}) |->
             IF x \in ArgNames(p) THEN Positional(p, PositionOf(p, x), args, kw)[1]
             ELSE IF x \in KwNames(p) THEN KeywordOnly(p, x, kw)[1]
             ELSE IF x = Rest THEN SubSeq(args, Len(p.args) + 1, Len(args)) ELSE Absorbed(p, kw)])
eval_call(p, pos, kws) ==
  IF gather_keyword(kws).ok THEN bind_params_named(p, gather_positional(pos), gather_keyword(kws).v) ELSE gather_keyword(kws)

(***************************************************************************)
(* What a call means: each argument goes to one place, by its position or   *)
(* its name, and each parameter gets one argument or its default.           *)
(***************************************************************************)
Arguments(args, kw) == {<<"pos", i>> : i \in DOMAIN args} \cup {<<"kw", x>> : x \in DOMAIN kw}
PlaceOf(p, a) ==
  IF a[1] = "pos" THEN IF a[2] <= Len(p.args) THEN p.args[a[2]] ELSE IF p.vararg THEN Rest ELSE "nowhere"
  ELSE IF a[2] \in ClaimedByName(p) THEN a[2] ELSE IF p.kwarg THEN Extra ELSE "nowhere"
ValueOf(args, kw, a) == IF a[1] = "pos" THEN args[a[2]] ELSE kw[a[2]]
Given(p, args, kw, x) == {a \in Arguments(args, kw) : PlaceOf(p, a) = x}
HasDefault(p, x) == x \in p.kwdefaults \/ \E i \in DOMAIN p.args : p.args[i] = x /\ Defaulted(p, i)
Legal(p, args, kw) ==
  /\ Given(p, args, kw, "nowhere") = {}
  /\ \A x \in ArgNames(p) \cup KwNames(p) :
       Cardinality(Given(p, args, kw, x)) = 1 \/ (Given(p, args, kw, x) = {} /\ HasDefault(p, x))
Lands(p, args, kw, scope) ==
  \A x \in DOMAIN scope :
    LET given == Given(p, args, kw, x)
    IN  /\ x = Rest => scope[x] = [j \in 1 .. Cardinality(given) |-> args[Len(p.args) + j]]
        /\ x = Extra => DOMAIN scope[x] = {a[2] : a \in given} /\ \A y \in DOMAIN scope[x] : scope[x][y] = kw[y]
        /\ x \notin {Rest, Extra} /\ given = {} => scope[x] = DefaultOf(x)
        /\ x \notin {Rest, Extra} => \A a \in given : scope[x] = ValueOf(args, kw, a)

(***************************************************************************)
(* Slots and callbacks.  p and q name list 1; list 2 is another.  A list    *)
(* holds <<key, tag>> pairs.  The callback is the key function, the         *)
(* comparison, the method body or the right-hand side: it may append to the *)
(* list through q, drop its last item, rebind p to list 2, or raise.        *)
(***************************************************************************)
World(lists) == [names |-> [x \in {"p", "q"} |-> 1], lists |-> lists, e |-> "none"]
SlotOf(w, x) == w.lists[w.names[x]]
Put(w, x, items) == [w EXCEPT !.lists[w.names[x]] = items]
Callback(w, cb) ==
  LET grown == IF "grow" \in cb THEN Put(w, "q", Append(SlotOf(w, "q"), <<9, 9>>)) ELSE w
      shrunk == IF "shrink" \in cb /\ SlotOf(grown, "q") # <<>> THEN Put(grown, "q", Front(SlotOf(grown, "q"))) ELSE grown
      moved == IF "rebind" \in cb THEN [shrunk EXCEPT !.names["p"] = 2] ELSE shrunk
  IN  IF "raise" \in cb THEN [moved EXCEPT !.e = "Raised"] ELSE moved

\* Mutant: an item goes before its equals, so equal keys change their order.
GoesBeforeOrEqual(x, y, reverse) == IF reverse THEN y[1] <= x[1] ELSE x[1] <= y[1]
\* dsu_sort: each item is put before the first one that it goes before.
GoesBefore(x, y, reverse) == IF reverse THEN y[1] < x[1] ELSE x[1] < y[1]
InsertSorted(acc, x, reverse) ==
  LET at == SelectInSeq(acc, LAMBDA y : GoesBefore(x, y, reverse))
  IN  IF at = 0 THEN Append(acc, x) ELSE InsertAt(acc, at, x)
dsu_sort(items, reverse) == FoldLeft(LAMBDA acc, x : InsertSorted(acc, x, reverse), <<>>, items)
WrittenBack(w, x, items) == IF w.e # "none" THEN w ELSE Put(w, x, items)
list_sort(w, cb, reverse) == WrittenBack(Callback(Put(w, "p", <<>>), cb), "p", dsu_sort(SlotOf(w, "p"), reverse))
Removed(w, x, i) == IF w.e # "none" THEN w ELSE IF i > Len(SlotOf(w, x)) THEN [w EXCEPT !.e = "panic"] ELSE Put(w, x, RemoveAt(SlotOf(w, x), i))
list_eq_method(w, cb, key) ==
  LET i == SelectInSeq(SlotOf(w, "p"), LAMBDA y : y[1] = key)
      after == Callback(w, cb)
  IN  IF i = 0 THEN [after EXCEPT !.e = IF @ = "none" THEN "ValueError" ELSE @] ELSE Removed(after, "p", i)
\* The receiver comes back from the call and replaces what the name holds.
method_call(w, cb) ==
  LET after == Callback(w, cb) IN IF after.e # "none" THEN after ELSE [after EXCEPT !.names["p"] = w.names["p"]]
\* p[0] += ...: the slot is looked for again after the right-hand side.
aug_item(w, cb) ==
  LET after == Callback(w, cb)
  IN  CASE SlotOf(w, "p") = <<>> -> [w EXCEPT !.e = "IndexError"]
        [] after.e # "none" -> after
        [] SlotOf(after, "p") = <<>> -> [after EXCEPT !.e = "IndexError"]
        [] OTHER -> Put(after, "p", [SlotOf(after, "p") EXCEPT ![1] = <<SlotOf(w, "p")[1][1] + 1, SlotOf(w, "p")[1][2]>>])
================================================================================
