------------------------------- MODULE MCPrograms ------------------------------
(* The small programs of Programs: lists of up to four items, trees of two
   levels, paths of two steps. *)
EXTENDS Programs, TLC

Bounds == {Absent} \cup {IntIx(i) : i \in -6 .. 6}
OddBounds == {Absent, IntIx(2), OtherIx, EnumIx(1), BoolIx(0), BoolIx(1)}
MCSlices == {[n |-> n, m |-> m, lo |-> lo, hi |-> hi, step |-> s] :
              n \in 0 .. 4, m \in 0 .. 2, lo \in Bounds, hi \in Bounds, s \in {Absent} \cup {IntIx(i) : i \in -3 .. 3}}
            \cup {[n |-> n, m |-> 1, lo |-> lo, hi |-> hi, step |-> s] :
              n \in {0, 3}, lo \in OddBounds, hi \in OddBounds, s \in {Absent, IntIx(2), IntIx(-1)}}

Leaf == {NameT("a"), StarT("s"), NameT("b")}
Flat == {<<x, y>> : x, y \in Leaf} \cup {<<x>> : x \in Leaf} \cup {<<x, y, z>> : x, y, z \in Leaf}
Items1 == {<<"seq", [i \in 1 .. n |-> <<"int", i>>]>> : n \in 0 .. 4}
Pairs2 == {<<"seq", <<x, <<"int", 9>> >> >> : x \in Items1} \cup {<<"seq", << <<"int", 9>>, x, <<"int", 8>> >> >> : x \in Items1}
Nests == {<<NestT(t), x>> : t \in Flat, x \in Leaf} \cup {<<NameT("c"), NestT(t), x>> : t \in Flat, x \in Leaf}
MCTargets == {<<t, v>> : t \in Flat, v \in Items1 \cup {<<"int", 0>>}} \cup {<<t, v>> : t \in Nests, v \in Items1 \cup Pairs2}

Leaves == {Num(1)}
Some == {1 :> Num(1), << >>}
Name == 100
Fielded == {Mapped(k, (Name :> Num(1))) : k \in {"dict", "obj"}}
Inner == Leaves \cup {Listed(k, <<Num(1), Num(2)>>) : k \in {"list", "deque"}} \cup {Listed("tuple", <<Num(1)>>)}
         \cup {Mapped(k, f) : k \in {"dict", "counter"}, f \in Some} \cup {Default(f, Zero) : f \in Some} \cup Fielded
Outer == {Listed("list", <<x, Num(5)>>) : x \in Inner} \cup {Mapped("dict", (1 :> x)) : x \in Inner}
         \cup {Mapped("obj", (Name :> x)) : x \in Inner} \cup {Mapped("dict", (Name :> x)) : x \in Fielded \cup {Listed("list", <<Num(1), Num(2)>>)}}
         \cup {Default((1 :> x), f) : x \in Inner, f \in {Default(<< >>, Zero), Mapped("counter", << >>)}}
         \cup {Default(f, Mapped("obj", (Name :> Num(1)))) : f \in Some}
         \cup {Listed(k, <<Default(<< >>, Mapped("obj", (Name :> Num(1))))>>) : k \in {"list", "tuple"}}
         \cup {Listed("tuple", <<Num(5), x>>) : x \in Inner}
MCTrees == Inner \cup Outer
Steps == {Index(i) : i \in -2 .. 2} \cup {Index(Name), Attr(Name)}
MCPaths == {<<s>> : s \in Steps} \cup {<<s, t>> : s, t \in Steps} \cup {<<Index(0), Index(1), Attr(Name)>>}
(* Patterns. *)
MCHierarchy == ("P" :> [mro |-> <<"P">>, match_args |-> <<1, 2>>]) @@ ("Q" :> [mro |-> <<"Q", "P">>, match_args |-> <<>>])
One == Num(1)
Two == Num(2)
Subjects == {One, Two, Listed("list", <<>>), Listed("list", <<One>>), Listed("tuple", <<One, Two>>), Listed("list", <<One, Two, One>>),
             Mapped("dict", (1 :> One)), Mapped("dict", (1 :> One) @@ (2 :> Two)), Object("P", (1 :> One) @@ (2 :> Two)), Object("Q", (1 :> Two)),
             Listed("list", <<Listed("list", <<One>>), Two>>)}
Simple == {ValueP(One), Wild, Capture("x"), Capture("y"), OrP(<<ValueP(Two), Capture("x")>>), AsP(ValueP(One), "y")}
SeqPs == {SeqP(<<>>), SeqP(<<StarP(<<>>)>>), SeqP(<<SeqP(<<Capture("x")>>), StarP(<<"y">>)>>)}
         \cup {SeqP(<<a, b>>) : a, b \in Simple \cup {StarP(<<"y">>)}} \cup {SeqP(<<a, StarP(<<"y">>), b>>) : a, b \in Simple}
MapPs == {MapP(<<1>>, <<a>>, r) : a \in Simple, r \in {<<>>, <<"y">>}} \cup {MapP(<<1, 2>>, <<a, b>>, <<>>) : a, b \in Simple}
ClassPs == {ClassP(c, <<a>>, <<>>, <<>>) : c \in {"P", "Q", "int"}, a \in Simple} \cup {ClassP("P", <<a, b>>, <<>>, <<>>) : a, b \in Simple}
           \cup {ClassP("P", <<a>>, <<k>>, <<b>>) : a, b \in {Capture("x"), ValueP(One)}, k \in 1 .. 3} \cup {ClassP("int", <<Wild, Wild>>, <<>>, <<>>)}
\* A name is captured once in a pattern, and in every alternative.
Captures(p) == CASE p.p = "as" -> ToSet(p.x) [] p.p = "star" -> ToSet(p.x) [] p.p = "or" -> {"x"} [] OTHER -> {}
Disjoint(p) == \A i, j \in DOMAIN p.subs : i # j => Captures(p.subs[i]) \cap Captures(p.subs[j]) = {}
Lawful == Simple \cup {p \in SeqPs \cup MapPs \cup ClassPs : Disjoint(p) /\ (p.p = "map" => p.rest = <<>> \/ "y" \notin UNION {Captures(p.subs[i]) : i \in DOMAIN p.subs})
                         /\ (p.p = "class" => \A i \in DOMAIN p.subs, j \in DOMAIN p.kwsubs : Captures(p.subs[i]) \cap Captures(p.kwsubs[j]) = {})
                         /\ (p.p = "seq" => Cardinality({i \in DOMAIN p.subs : p.subs[i].p = "star"}) <= 1)}
MCMatches == {<< << <<p, {}>> >>, v>> : p \in Lawful, v \in Subjects}
             \cup {<< << <<p, {One}>>, <<q, {Two}>>, <<Capture("y"), {}>> >>, v>> :
                      p, q \in {Capture("x"), SeqP(<<Capture("x"), StarP(<<"y">>)>>), OrP(<<ValueP(Two), Capture("x")>>)}, v \in Subjects}

(* Calls. *)
Sig(args, po, d, va, ko, kd, ka) == [args |-> args, posonly |-> po, defaults |-> d, vararg |-> va, kwonly |-> ko, kwdefaults |-> kd, kwarg |-> ka]
MCSignatures ==
  {Sig(a, po, d, va, ko, kd, ka) : a \in {<<>>, <<"a">>, <<"a", "b">>}, po \in 0 .. 2, d \in 0 .. 2, va \in BOOLEAN,
                                  ko \in {<<>>, <<"k">>}, kd \in {{}, {"k"}}, ka \in BOOLEAN}
Usual == {s \in MCSignatures : s.posonly <= Len(s.args) /\ s.defaults <= Len(s.args) /\ s.kwdefaults \subseteq ToSet(s.kwonly)}
V(x) == <<"arg", x>>
Posits == {<<>>, << <<"+", V("1")>> >>, << <<"+", V("1")>>, <<"+", V("2")>> >>, << <<"*", <<V("1"), V("2")>> >>, <<"+", V("3")>> >>}
Keys1 == {<<>>} \cup {<< <<x, V(x)>> >> : x \in {"a", "b", "k", "z"}} \cup {<< <<"**", << <<x, V("s")>> >> >> >> : x \in {"a", "z", NotAName}}
Keyings == {x \o y : x, y \in Keys1}
MCCallSites == Posits \X Keyings

(* Statements and callbacks: keys may repeat, tags are the positions. *)
Tagged(keys) == [i \in DOMAIN keys |-> <<keys[i], i>>]
KeySeqs == {<<>>} \cup {<<a>> : a \in 0 .. 1} \cup {<<a, b>> : a, b \in 0 .. 2} \cup {<<a, b, c>> : a, b, c \in 0 .. 2} \cup {<<a, b, c, d>> : a, b, c, d \in 0 .. 2}
SlotCase(stmt, cb) == {[stmt |-> stmt, lists |-> <<Tagged(s), << <<5, 1>> >> >>, cb |-> cb] : s \in KeySeqs}
MCSlotCases == UNION {SlotCase(stmt, cb) : stmt \in {"sort", "rsort", "remove", "method", "aug"}, cb \in SUBSET {"grow", "shrink", "rebind", "raise"}}

(* Classes: every hierarchy of five classes with up to three bases each. *)
BaseLists(i, n) == {<<>>} \cup UNION {{b \in [1 .. k -> 1 .. (i - 1)] : \A x, y \in 1 .. k : x # y => b[x] # b[y]} : k \in 1 .. n}
MCHierarchies == {[bs |-> <<<<>>, b2, b3, b4, b5>>, defs |-> d] :
                   b2 \in BaseLists(2, 1), b3 \in BaseLists(3, 2), b4 \in BaseLists(4, 2), b5 \in BaseLists(5, 3), d \in {1 .. 5, {1, 3, 4}}}
Shapes == {<<<<>>, b2, b3>> : b2 \in {<<>>, <<1>>}, b3 \in {<<2>>, <<2, 1>>}} \cup {<<<<>>, <<>>, <<1, 2>> >>}
HookSets == {{}, {"__getattr__"}, {"__getattribute__"}, {"__setattr__"}, {"__delattr__"}, {"__getattr__", "__setattr__", "__delattr__"}}
Kinds == {"def", "static", "classm", "prop", "full", "cached", "value", "func", "data", "nondata"}
MCLookups == {[bs |-> b, kind |-> k, defs |-> d, field |-> f, hooks |-> h, slots |-> s, meta |-> m] :
               b \in Shapes, k \in Kinds, d \in SUBSET (1 .. 3), f \in BOOLEAN, h \in HookSets, s \in {{}, {"x"}, {"y"}}, m \in {NoMeta, 4}}
Sensible == {l \in MCLookups : (l.slots # {} => l.meta = NoMeta /\ l.kind # "cached" /\ (l.defs # {} => l.slots = {"y"}))
                               /\ (l.meta # NoMeta => l.hooks = {})}
Chains3 == {<<<<>>, <<1>>, <<2>> >>}
MCConstructions == {[bs |-> b, init |-> i, new |-> n, post |-> p, data |-> d, abstract |-> a, impl |-> m, sub |-> s, meta |-> t, argc |-> g] :
                     b \in Chains3 \cup {<<<<>>, <<1>>, <<2, 1>> >>}, i \in SUBSET (1 .. 3), n \in {{}, {1}, {1, 3}}, p \in {{}, {1}, {2, 3}}, d \in BOOLEAN,
                     a \in BOOLEAN, m \in {{}, {2}, {3}}, s \in {{}, {1}, {1, 2}}, t \in {NoMeta, 4}, g \in 0 .. 1}
Makeable == {q \in MCConstructions : (q.data => q.new = {}) /\ (~ q.data => q.post = {}) /\ (q.sub # {} => q.argc = 0 /\ q.meta = NoMeta)}
Field(x, d, i) == [name |-> x, default |-> d, init |-> i]
SomeFields == {Field(x, d, TRUE) : x \in {"a", "b"}, d \in BOOLEAN} \cup {Field("a", TRUE, FALSE)}
Owns == {<<>>} \cup {<<f>> : f \in SomeFields}
Owns3 == Owns \cup {<<f, Field("c", d, TRUE)>> : f \in SomeFields, d \in BOOLEAN}
Named2(S) == [x \in S |-> V(x)]
MCDataCalls == {[owns |-> <<o, p, q>>, args |-> [i \in 1 .. n |-> <<"pos", i>>], kw |-> Named2(s)] :
                 o \in Owns, p \in Owns, q \in Owns3, n \in 0 .. 2, s \in {{}, {"a"}, {"b", "c"}, {"z"}}}
Number(n) == <<"num", n>>
BodyStmts == {[t |-> t, x |-> x, from |-> f] : t \in {"assign", "nest"}, x \in {"x", "y"}, f \in {Number(1), Number(2), <<"name", "x">>, <<"name", "y">>}}
MCBodies == {[saved |-> s, stmts |-> b] : s \in {<< >>, ("x" :> Number(1)), ("y" :> Number(2))},
                                         b \in {<<p>> : p \in BodyStmts} \cup {<<p, q>> : p, q \in BodyStmts} \cup {<<p, q, [t |-> "assign", x |-> "z", from |-> <<"name", "x">>]>> : p, q \in BodyStmts}}
MCEnums == {[flag |-> f, decls |-> d] : f \in BOOLEAN, d \in UNION {[1 .. n -> {Auto, 1, 2, 4, 5}] : n \in 1 .. 4}}

(* Graphs: every two containers of the usual kinds with up to two elements, *)
(* every three lists, and a few of the kinds that are opaque to most walks. *)
KidSeqs(vs) == {<<>>} \cup {<<a>> : a \in vs} \cup {<<a, b>> : a, b \in vs}
KeysFor(k, n) == IF k \in {"dict", "odict"} /\ n = 2 THEN {<<1, 2>>, <<2, 1>>} ELSE {[i \in 1 .. n |-> i]}
Containers(ks, vs) == UNION {UNION {{[k |-> k, kids |-> s, keys |-> q] : q \in KeysFor(k, Len(s))} : s \in KidSeqs(vs)} : k \in ks}
Pairs == {<<a, b>> : a \in Containers({"list", "dict", "odict", "tuple"}, {-1, 0, 1, 2}), b \in Containers({"list", "dict", "odict", "tuple"}, {0, 1, 2})}
Odd == {<<a, b>> : a \in Containers({"list", "dict", "data", "inst"}, {0, 1, 2}), b \in Containers({"inst", "data", "rude", "ddict"}, {0, 1, 2})}
Triples == {<<a, b, c>> : a \in Containers({"list"}, {2, 3}), b \in Containers({"list", "dict"}, {0, 1, 3}), c \in Containers({"list", "tuple"}, {0, 1, 2})}
Chain == {[i \in 1 .. n |-> [k |-> "list", kids |-> IF i < n THEN <<i + 1>> ELSE s, keys |-> <<>>]] : n \in 2 .. 4, s \in {<<>>, <<0>>}}
\* A cycle goes through a container that can be changed.
IsValue(k) == k \in {"tuple", "ddict"}
ValueLoop(g) == \E n \in DOMAIN g : IsValue(g[n].k) /\ n \in Closure([m \in DOMAIN g |-> IF IsValue(g[m].k) THEN g[m] ELSE [g[m] EXCEPT !.kids = <<>>]], KidsOf(g, n))
MCGraphs == {g \in Pairs \cup Odd \cup Triples \cup Chain : ~ ValueLoop(g)}

(* Exports: a double holds the integers up to 3 + 1 exactly, i64 ends at 7. *)
Keyable == {<<"none">>, <<"bool", TRUE>>, <<"float", 1>>, <<"str", "a">>, <<"str", "1">>, <<"decimal", "2.5">>, <<"date", 1>>, <<"ellipsis">>}
           \cup {<<"int", n>> : n \in {-8, -4, -3, 0, 3, 4, 5, 7}} \cup {<<"big", n>> : n \in {-9, 8}}
Scalars == Keyable \cup {<<"float", n>> : n \in {2, 6, 8, 12}} \cup {<<"bytes", "b">>, <<"bytearray", "b">>, <<"memoryview", "b">>, <<"datetime", 5, NaiveDt>>, <<"datetime", 5, 2>>}
           \cup {<<k, "x">> : k \in {"fraction", "complex", "time", "timedelta", "timezone"}} \cup {<<"notimpl">>, <<"internal">>}
RangesOut == {<<"range", <<a, b, c>>>> : a \in -5 .. 5, b \in -5 .. 5, c \in {-2, -1, 1, 3}}
Seqs2(S) == {<<>>} \cup {<<x>> : x \in S} \cup {<<x, y>> : x, y \in S}
Nests1 == {<<k, s>> : k \in {"list", "array", "tuple", "dictview"}, s \in Seqs2(Scalars)}
Apart2(S) == {s \in Seqs2(S) : Len(s) = 2 => s[1] # s[2]}
SetsOut == {<<k, s>> : k \in {"set", "frozenset"}, s \in Apart2(Keyable \cup {<<"tuple", << <<"int", 0>> >> >>, <<"frozenset", <<>> >>})}
DictsOut == {<<k, [i \in DOMAIN s |-> <<s[i], v>>]>> : k \in {"dict", "odict"}, s \in Apart2(Keyable), v \in {<<"int", 5>>, <<"tuple", <<>>>>, <<"internal">>}}
Deep == {<<"list", <<x, y>>>> : x \in {<<"tuple", << <<"int", 5>> >> >>, <<"set", << <<"int", 4>> >> >>}, y \in DictsOut}
MCExports == Scalars \cup RangesOut \cup Nests1 \cup SetsOut \cup DictsOut \cup Deep

(* Methods: two calls on containers of up to three texts or four counts. *)
A == Text(1)
B == Text(2)
Call(m, a) == [m |-> m, a |-> a, kw |-> <<>>]
CallKw(m, a, kw) == [m |-> m, a |-> a, kw |-> kw]
Ints(S) == {IntIx(i) : i \in S}
SeqCalls == {Call(m, <<>>) : m \in {"copy", "pop", "reverse", "clear"}} \cup {Call(m, <<x>>) : m \in {"count", "index", "append", "remove"}, x \in {A, B}}
            \cup {Call("extend", <<Several(s)>>) : s \in {<<>>, <<B, A>>, <<A, B, B>>}} \cup {Call("extend", <<A>>), Call("nosuch", <<>>), Call("append", <<>>)}
            \cup {Call("insert", <<i, B>>) : i \in Ints(-4 .. 4) \cup {OtherIx}} \cup {CallKw("append", <<A>>, << <<A, A>> >>)}
ListCalls == SeqCalls \cup {Call("pop", <<i>>) : i \in Ints(-4 .. 3) \cup {OtherIx}} \cup {Call("extend", <<Itself>>)}
             \cup {Call("index", <<A, i, j>>) : i \in Ints({-4, -1, 0, 2}), j \in Ints({-2, 1, 5})} \cup {Call("index", <<A, IntIx(1)>>), Call("index", <<A, OtherIx>>)}
DequeCalls == SeqCalls \cup {Call("popleft", <<>>), Call("appendleft", <<A>>), Call("rotate", <<>>), Call("rotate", <<A>>), Call("insert", <<>>)}
              \cup {Call("rotate", <<i>>) : i \in Ints(-4 .. 4)} \cup {Call("extendleft", <<Several(s)>>) : s \in {<<>>, <<B, A>>, <<A, B, B, A>>}}
Pair2(k, v) == Several(<<k, v>>)
Updates == {Several(<<>>), Several(<<Pair2(A, B), Pair2(A, A)>>), Several(<<Pair2(Text(3), A), Pair2(B, B)>>), Several(<<Pair2(B, A), Several(<<A>>)>>),
            Several(<<Pair2(A, Text(5)), A>>), Several(<<Pair2(Unkeyable, A)>>), <<"map", << <<B, Text(4)>>, <<A, A>> >> >>, Itself, ItsView, A}
DictCalls == {Call(m, a) : m \in {"get", "pop", "setdefault"}, a \in {<<>>, <<A>>, <<Text(3)>>, <<Text(3), B>>, <<Unkeyable>>}}
             \cup {Call(m, <<>>) : m \in {"clear", "keys", "values", "items", "copy", "popitem", "update", "nosuch"}} \cup {Call("update", <<u>>) : u \in Updates}
             \cup {CallKw("update", a, << <<A, B>>, <<Text(6), A>> >>) : a \in {<<>>, <<Several(<<Pair2(A, A)>>)>>}} \cup {Call("update", <<A, A>>), Call("items", <<A>>)}
             \cup {CallKw("get", <<A>>, << <<A, A>> >>), CallKw("popitem", <<>>, << <<A, Count(0)>> >>), Call("popitem", <<Count(0)>>)}
             \cup {Call("move_to_end", a) : a \in {<<A>>, <<B>>, <<Text(3)>>, <<Unkeyable>>, <<A, Count(0)>>, <<B, Count(0)>>}}
CounterCalls == {Call(m, a) : m \in {"update", "subtract"}, a \in {<<>>, <<Several(<<A, B, A, Text(3)>>)>>, <<Several(<<A, Unkeyable, B>>)>>, <<A>>,
                                                                  <<<<"map", << <<B, Count(3)>>, <<Text(3), A>> >> >> >>}}
                \cup {CallKw(m, <<>>, << <<A, Count(2)>>, <<B, A>> >>) : m \in {"update", "subtract", "total"}}
                \cup {Call("most_common", a) : a \in {<<>>, <<Nothing>>, <<A>>} \cup {<<i>> : i \in Ints({-1, 0, 1, 5})}}
                \cup {Call(m, <<>>) : m \in {"elements", "total", "clear", "keys", "popitem"}} \cup {Call(m, <<A>>) : m \in {"get", "pop", "setdefault"}}
MethodProgram(kind, inits, maxlens, S) == {[kind |-> kind, init |-> s, maxlen |-> n, calls |-> S] : s \in inits, n \in maxlens}
MCMethodCalls ==
  MethodProgram("list", {<<>>, <<A, B>>, <<B, A, A>>}, {Nothing}, ListCalls)
  \cup MethodProgram("deque", {<<>>, <<A, B, B>>}, {Nothing} \cup Ints({-1, 0, 2}), DequeCalls)
  \cup MethodProgram("dict", {<<>>, <<Pair2(A, B)>>, <<Pair2(B, A), Pair2(A, B), Pair2(B, B)>>}, {Nothing}, DictCalls)
  \cup MethodProgram("counter", {<<>>, <<A, B, A, B, Text(4)>>, <<B, Unkeyable>>}, {Nothing}, CounterCalls)

(* Heaps of up to seven items, so that a leaf is three levels down. *)
Counted(s) == [i \in DOMAIN s |-> Count(s[i])]
SmallHeaps == {Counted(s) : s \in UNION {[1 .. n -> 1 .. 4] : n \in 0 .. 4}}
MCHeaps == {[s |-> s, x |-> Count(x), n |-> k] : s \in SmallHeaps, x \in {0, 2, 5}, k \in {-1, 0, 2, 9}}
           \cup {[s |-> Counted(s), x |-> Count(2), n |-> 3] : s \in [1 .. 7 -> 1 .. 3]}
           \cup {[s |-> <<Count(2), x, y>>, x |-> z, n |-> 1] : x, y, z \in {Count(1), Text(1)}}
Ascending == {Counted(s) : s \in UNION {{t \in [1 .. n -> {1, 3, 5}] : \A i \in 2 .. n : t[i - 1] <= t[i]} : n \in 0 .. 4}}
MCSearches == {[s |-> s, x |-> x, lo |-> lo, hi |-> hi, keep |-> 1] :
                s \in Ascending, x \in Ints(0 .. 6) \cup {A}, lo \in {Nothing, A} \cup Ints({-1, 1, 6}), hi \in {Nothing} \cup Ints({-1, 0, 2, 9})}
Numbers3 == UNION {[1 .. n -> 1 .. 3] : n \in 0 .. 4}
MCIterations == {[start |-> a, stop |-> b, step |-> c, pred |-> {2}, initial |-> Nothing, sel |-> <<>>, s |-> [i \in 1 .. n |-> i]] :
                  a, b \in {Nothing} \cup Ints(-1 .. 5), c \in {Nothing} \cup Ints(-1 .. 3), n \in 0 .. 4}
                \cup {[start |-> Nothing, stop |-> Nothing, step |-> Nothing, pred |-> p, initial |-> i, sel |-> sel, s |-> s] :
                  p \in SUBSET {1, 2}, i \in {Nothing, IntIx(7)}, s \in Numbers3, sel \in {<<>>, <<TRUE>>, <<FALSE, TRUE, TRUE>>, <<TRUE, FALSE, FALSE, TRUE, TRUE>>}}
MCChoices == {[n |-> n, r |-> r] : n \in 0 .. 4, r \in 0 .. 4}

(* Caches: a function of three calls that may call, call itself alike, clear
   and raise. *)
Arg1 == [pos |-> <<Count(1)>>, kw |-> <<>>]
Arg2 == [pos |-> <<Count(1)>>, kw |-> << <<1, Count(2)>>, <<2, Count(3)>> >>]
Arg2Swapped == [pos |-> <<Count(1)>>, kw |-> << <<2, Count(3)>>, <<1, Count(2)>> >>]
Arg3 == [pos |-> <<Count(1)>>, kw |-> << <<1, Count(3)>>, <<2, Count(3)>> >>]
BadArg == [pos |-> <<Unkeyable>>, kw |-> <<>>]
Act(t, c) == [t |-> t, c |-> c]
Bodies2 == {<<>>, <<Act("call", Arg1)>>, <<Act("call", Arg1), Act("clear", Arg1)>>, <<Act("clear", Arg1), Act("call", Arg1)>>, <<Act("call", Arg1), Act("raise", Arg1)>>}
Bodies3 == Bodies2 \cup {<<Act("call", Arg2)>>, <<Act("call", Arg2), Act("call", Arg1)>>, <<Act("call", Arg1), Act("call", Arg2Swapped)>>,
                         <<Act("once", Arg3)>>, <<Act("call", Arg1), Act("once", Arg3), Act("call", Arg2)>>}
Function3(b2, b3) == (Meaning(Arg1) :> [body |-> <<>>, ret |-> Count(1)]) @@ (Meaning(Arg2) :> [body |-> b2, ret |-> Count(2)])
                     @@ (Meaning(Arg3) :> [body |-> b3, ret |-> Count(3)]) @@ (Meaning(BadArg) :> [body |-> <<>>, ret |-> Nothing])
CallSeqs == UNION {[1 .. n -> {Arg1, Arg2, Arg2Swapped, Arg3, BadArg}] : n \in 1 .. 3}
MCCaches == {[f |-> Function3(b2, b3), max |-> m, calls |-> CallSeqs] : b2 \in Bodies2, b3 \in Bodies3, m \in Ints({-1, 0, 1, 2})}
================================================================================
