-------------------------------- MODULE Programs -------------------------------
(***************************************************************************)
(* Small programs: what a statement or a call does to the values it is      *)
(* given, checked against what Python says of it.  A behaviour runs one.    *)
(***************************************************************************)
EXTENDS Patterns, ClassPrograms, WalkPrograms, Crossings, LibraryPrograms

CONSTANTS Slices,         \* [n, m, lo, hi, step]: a list of n items, m new ones
          Targets,        \* <<targets, value>>: unpacking
          Trees, Paths,   \* variables and the paths written into them
          Matches,        \* <<cases, subject>>: match statements
          Signatures, CallSites,   \* parameters; <<positionals, keywords>>
          SlotCases,      \* [stmt, items, cb]: statements that run callbacks
          Hierarchies, Lookups, Constructions, DataCalls, Bodies, Enums,   \* see ClassPrograms
          Exports,        \* values handed to the host and back
          MethodCalls, Heaps, Searches, Iterations, ChoiceCases, Caches,   \* see LibraryPrograms
          Graphs          \* containers that may contain each other; 1 is the one walked

VARIABLE case             \* [kind, in, out]

Start == [kind |-> "none"]
Ran(kind, input, output) == case' = [kind |-> kind, in |-> input, out |-> output]
Picked(kind) == case.kind = kind
Fresh(n) == [i \in 1 .. n |-> 100 + i]
Iota(n) == [i \in 1 .. n |-> i - 1]

Ready == case = Start
RunSlice ==
  /\ Ready
  /\ \E c \in Slices :
       Ran("slice", c, [read |-> apply_value_slice(Iota(c.n), c.lo, c.hi, c.step), get |-> get_slice(Iota(c.n), c.lo, c.hi, c.step),
                        set |-> set_slice(Iota(c.n), c.lo, c.hi, c.step, Fresh(c.m)), aug |-> aug_slice(Iota(c.n), c.lo, c.hi, c.step, Fresh(c.m)),
                        del |-> delete_slice(Iota(c.n), c.lo, c.hi, c.step),
                        range |-> IF StepOf(c.step).ok THEN RangeItems(SliceRange(<<3, 3 - 2 * c.n, -2>>, c.lo, c.hi, StepOf(c.step).v)) ELSE <<>>,
                        item |-> [i \in {c.lo, c.hi} |-> <<sequence_get_item(Iota(c.n), i), list_set_item(Iota(c.n), i, 100),
                                                           bytearray_set_item(Iota(c.n), i, 256), list_del_item(Iota(c.n), i),
                                                           range_get_item(<<0, c.n, 1>>, i)>>]])
RunUnpack == Ready /\ \E c \in Targets : Ran("unpack", c, assign_unpacking(c[1], c[2]))
RunPlace ==
  /\ Ready
  /\ \E v \in Trees, p \in Paths :
       Ran("place", [v |-> v, p |-> p],
           [read |-> ReadPath(v, p), nav |-> Navigate(v, p), set |-> AssignPath(v, p, Num(7)), del |-> delete_target(v, p),
            aug |-> eval_aug_assign(v, p, 3)])
RunMatch ==
  /\ Ready
  /\ \E c \in Matches :
       Ran("match", c, [all |-> eval_match(c[1], c[2]), each |-> [i \in DOMAIN c[1] |-> pattern_matches(c[1][i][1], c[2])]])
RunCall ==
  /\ Ready
  /\ \E p \in Signatures, c \in CallSites :
       Ran("call", [p |-> p, pos |-> c[1], kws |-> c[2]],
           [args |-> gather_positional(c[1]), kw |-> gather_keyword(c[2]), scope |-> eval_call(p, c[1], c[2])])
RunSlot ==
  /\ Ready
  /\ \E c \in SlotCases :
       Ran("slot", c, CASE c.stmt = "sort" -> list_sort(World(c.lists), c.cb, FALSE)
                        [] c.stmt = "rsort" -> list_sort(World(c.lists), c.cb, TRUE)
                        [] c.stmt = "remove" -> list_eq_method(World(c.lists), c.cb, 1)
                        [] c.stmt = "method" -> method_call(World(c.lists), c.cb)
                        [] c.stmt = "aug" -> aug_item(World(c.lists), c.cb))

RunHierarchy == Ready /\ \E h \in Hierarchies : Ran("hierarchy", h, RunClasses(h))
RunLookup == Ready /\ \E l \in Lookups : Ran("lookup", l, RunAttempts(l))
RunConstruct == Ready /\ \E q \in Constructions : Ran("construct", q, RunConstruction(q))
RunData == Ready /\ \E q \in DataCalls : Ran("data", q, RunDataclass(q))
RunBodies == Ready /\ \E q \in Bodies : Ran("body", q, RunBody(q.saved, q.stmts))
RunEnum == Ready /\ \E q \in Enums : Ran("enum", q, EnumValues(q.decls, q.flag))

RunWalk == Ready /\ \E g \in Graphs : Ran("walk", g, RunWalks(g, 1))
RunSize == Ready /\ \E g \in Graphs : \E m \in DOMAIN g : Sized(g[m].k) /\ ~ (\E n \in DOMAIN g : OnCycle(g, n))
                                                /\ Ran("size", [g |-> g, m |-> m], RunSizes(g, [i \in DOMAIN g |-> i], m))
RunComparison == Ready /\ \E g \in Graphs : KindsIn(g, DOMAIN g) \subseteq Builtins /\ Ran("compare", g, RunCompare(g, 1, 2))
RunCopies == Ready /\ \E g \in Graphs : Ran("copy", g, RunCopy(g, 1))
RunCross == Ready /\ \E v \in Exports : Ran("cross", v, RunCrossing(v))

RunMethods == Ready /\ \E q \in MethodCalls : \E c, d \in q.calls : LET p == [q EXCEPT !.calls = <<c, d>>] IN Ran("methods", p, RunMethodCalls(p))
RunHeaps == Ready /\ \E q \in Heaps : Ran("heap", q, RunHeap(q))
RunSearches == Ready /\ \E q \in Searches : Ran("search", q, RunBisect(q))
RunIterations == Ready /\ \E q \in Iterations : Ran("iterate", q, RunIterators(q))
RunCombinatorics == Ready /\ \E q \in ChoiceCases : Ran("choices", q, RunChoices(q))
RunCaches == Ready /\ \E q \in Caches : \E cs \in q.calls : LET p == [q EXCEPT !.calls = cs] IN Ran("cache", p, RunCache(p))

Init == case = Start
Next == \/ RunMethods \/ RunCross \/ RunWalk \/ RunSize \/ RunComparison \/ RunCopies
        \/ RunSlice \/ RunUnpack \/ RunPlace \/ RunMatch \/ RunSlot
        \/ RunHierarchy \/ RunLookup \/ RunConstruct \/ RunData \/ RunBodies \/ RunEnum
        \/ RunCall \/ RunHeaps \/ RunSearches \/ RunIterations \/ RunCombinatorics \/ RunCaches
Spec == Init /\ [][Next]_case

(***************************************************************************)
(* Slices.                                                                  *)
(***************************************************************************)
Outside(ps, n) == SelectSeq(Iota(n), LAMBDA i : i \notin ToSet(ps))
Placed(n, ps, xs) == [i \in 1 .. n |-> IF i - 1 \in ToSet(ps) THEN xs[SelectInSeq(ps, LAMBDA p : p = i - 1)] ELSE i - 1]
\* Replacing the positions ps, all in a row from the first one on.
SpliceAt(n, ps, lo, xs) ==
  LET from == IF ps # <<>> THEN ps[1] ELSE Bounded(IF lo[1] = "absent" THEN 0 ELSE Bound(lo, n), 0, n)
  IN  Iota(from) \o xs \o [i \in 1 .. n - from - Len(ps) |-> from + Len(ps) + i - 1]
SliceMeets(c, ps, step, out) ==
  /\ out.read = Done(ps) /\ out.get = Done(ps)
  /\ (step = 1 /\ "bool" \in {c.lo[1], c.hi[1]}) \/ out.del = Done(Outside(ps, c.n))
  /\ out.range = [j \in DOMAIN ps |-> 3 - 2 * ps[j]]
  /\ out.set = CASE step = 1 -> Done(SpliceAt(c.n, ps, c.lo, Fresh(c.m)))
                 [] c.m = Len(ps) -> Done(Placed(c.n, ps, Fresh(c.m)))
                 [] OTHER -> Failed("ValueError")
  /\ step = 1 => out.aug = Done(SpliceAt(c.n, ps, c.lo, ps \o Fresh(c.m)))
ItemMeets(n, i, out) ==
  LET p == FromEnd(i[2], n)
  IN  IF i = OtherIx THEN {out[1], out[2], out[4], out[5]} = {Failed("TypeError")} /\ out[3] = Failed("ValueError")
      ELSE IF p \in 0 .. (n - 1)
      THEN out = <<Done(p), Done(Placed(n, <<p>>, <<100>>)), Failed("ValueError"), Done(Outside(<<p>>, n)), Done(p)>>
      ELSE {out[1], out[2], out[4], out[5]} = {Failed("IndexError")} /\ out[3] = Failed("ValueError")

\* A slice denotes one list of positions whether it is read, assigned, added
\* to, deleted or taken of a range: four clamping routines written apart
\* (names.rs, place.rs, delete.rs, types.rs) agree with Python's definition,
\* for bounds past either end, bounds that are bools or no numbers, and steps
\* of either sign.  (Deleting a slice with step one takes a bool for no bound.)
SlicesAgree ==
  Picked("slice") =>
    LET c == case.in  out == case.out
    IN  /\ CASE c.step = IntIx(0) -> {out.read, out.get, out.set, out.del} = {Failed("ValueError")}
             [] {c.lo, c.hi} \cap {OtherIx} # {} -> {out.read, out.get, out.set, out.aug} = {Failed("TypeError")}
             [] {c.lo[1], c.hi[1]} \subseteq {"absent", "int", "bool"} ->
                  SliceMeets(c, PyPositions(c.lo, c.hi, Ordinal(c.step, 1), c.n), Ordinal(c.step, 1), out)
             [] OTHER -> TRUE
        /\ c.step # IntIx(0) => \A i \in {c.lo, c.hi} \ {Absent} : ItemMeets(c.n, i, out.item[i])

(***************************************************************************)
(* Places.                                                                  *)
(***************************************************************************)
Unchanged(v, new, p) == \A q \in Paths : Apart(v, p, q) /\ ReadPath(v, q).ok => ReadPath(new, q) = ReadPath(v, q)
HasKind(v, kind) == \/ v.k = kind
                    \/ \E q \in Paths : Navigate(v, q).ok /\ Navigate(v, q).v.k = kind
Through(v, p, kind) == \E i \in 0 .. (Len(p) - 1) : ReadPath(v, SubSeq(p, 1, i)).ok /\ ReadPath(v, SubSeq(p, 1, i)).v.k = kind
HasCounter(v) == HasKind(v, "counter") \/ (v.k = "ddict" /\ v.factory.k = "counter")
Charged(v, out) == HasCounter(v) \/ Size(out.v) - Size(v) = out.delta
\* An attribute step meets a dict that holds its name.
ByName(v, p) == \E i \in DOMAIN p : /\ p[i].t = "attr" /\ Navigate(v, SubSeq(p, 1, i - 1)).ok
                                    /\ LET at == Navigate(v, SubSeq(p, 1, i - 1)).v IN at.k = "dict" /\ Holds(at, p[i].n)
\* What the field is set of was made up below the variable, and dropped.
Dropped(v, p) == OfExpression(p) /\ ReadPath(v, Front1(p)).ok /\ MadeUp(AfterRead(v, Front1(p)), Front1(p))
PlaceMeets(v, p, out) ==
  /\ out.nav.ok /\ ~ ByName(v, p) => out.read = out.nav
  /\ out.set.e = NoFault /\ ~ ByName(v, p) /\ ~ Dropped(v, p) => ReadPath(out.set.v, p) = Done(Num(7)) /\ Unchanged(v, out.set.v, p)
  /\ ~ ByName(v, p) /\ ~ Dropped(v, p) => (out.aug.e = NoFault <=> out.read.ok /\ out.read.v.k = "int" /\ ~ Through(v, p, "tuple"))
  /\ out.aug.e = NoFault /\ ~ ByName(v, p) => ReadPath(out.aug.v, p) = Done(Num(out.read.v.n + 3)) /\ Unchanged(v, out.aug.v, p)
  /\ \A o \in {out.set, out.del} : o.e # NoFault /\ ~ HasCounter(v) /\ ~ HasKind(v, "ddict") => o.v = v
  /\ Charged(v, out.aug) /\ (OfExpression(p) \/ Charged(v, out.set)) /\ (Last(p).t = "attr" \/ Charged(v, out.del))

\* A path names one slot: what it reads is what the walk to the slot finds,
\* an assignment through it is read back and disturbs no slot apart from it,
\* x.path += n works exactly where the path reads a number, a failing write
\* leaves the value alone, and the budget is charged the growth of the whole
\* variable (deltas reported from the slot; not for attributes deleted, or
\* assigned to what is no name).  Left out: an attribute that meets a dict's
\* item of its name, and a field of what a deeper defaultdict made up.
PlacesAreLenses == Picked("place") => PlaceMeets(case.in.v, case.in.p, case.out)
(***************************************************************************)
(* Unpacking and patterns.                                                  *)
(***************************************************************************)
Pieces(ts, env) == FlattenSeq([i \in DOMAIN ts |-> IF ts[i].t = "star" THEN env[i][2][2] ELSE <<env[i][2]>>])
Stars(ts) == Cardinality({i \in DOMAIN ts : ts[i].t = "star"})
FlatFits(ts, v) == /\ Iterable(v) /\ Stars(ts) <= 1
                   /\ IF Stars(ts) = 0 THEN Len(v[2]) = Len(ts) ELSE Len(v[2]) >= Len(ts) - 1
Nested(ts) == {i \in DOMAIN ts : ts[i].t = "nest"}
Flattened(v) == IF Iterable(v) THEN v[2] ELSE <<v>>
Leafs(items) == FlattenSeq([i \in DOMAIN items |-> Flattened(items[i])])
TargetNames(ts) == FlattenSeq([i \in DOMAIN ts |-> IF ts[i].t = "nest" THEN [j \in DOMAIN ts[i].ts |-> ts[i].ts[j].x] ELSE <<ts[i].x>>])
UnpackMeets(ts, v, out) ==
  LET fits == FlatFits(ts, v) /\ \A i \in Nested(ts) : FlatFits(ts[i].ts, Piece(ts, v[2], i))
  IN  /\ out.e = NoFault <=> fits
      /\ fits => /\ [i \in DOMAIN out.env |-> out.env[i][1]] = TargetNames(ts)
                 /\ IF Nested(ts) = {} THEN Pieces(ts, out.env) = v[2] ELSE Leafs([i \in DOMAIN out.env |-> out.env[i][2]]) = Leafs(v[2])
      /\ ~ FlatFits(ts, v) => out.env = <<>>
EnvOf(pairs) == Bindings(<< >>, pairs)
Bound2(p, v) == UNION {[s -> Within(v)] : s \in SUBSET {"x", "y"}}
PartMeets(p, v, out) ==
  /\ out.r = "yes" => Fits(p, v, EnvOf(out.env)) /\ \A x \in DOMAIN EnvOf(out.env) : EnvOf(out.env)[x] \in Within(v)
  /\ out.r # "yes" => out.env = <<>> /\ \A env \in Bound2(p, v) : ~ Fits(p, v, env)
Runs(cases, each, env, i) ==
  each[i].r = "yes" /\ LET e == Bindings(env, each[i].env) IN cases[i][2] = {} \/ ("x" \in DOMAIN e /\ e["x"] \in cases[i][2])
Before(each, i) == FoldLeft(LAMBDA e, j : IF each[j].r = "yes" THEN Bindings(e, each[j].env) ELSE e, << >>, [j \in 1 .. i - 1 |-> j])
MatchMeets(cases, v, out) ==
  /\ \A i \in DOMAIN cases : PartMeets(cases[i][1], v, out.each[i])
  /\ out.all.ran > 0 => /\ Runs(cases, out.each, Before(out.each, out.all.ran), out.all.ran)
                        /\ out.all.env = Before(out.each, out.all.ran + 1)
                        /\ \A j \in 1 .. out.all.ran - 1 : ~ Runs(cases, out.each, Before(out.each, j), j)

\* Taking apart inverts putting together: unpacking binds pieces that joined
\* again are the value and fails, binding nothing, exactly when no split
\* exists; a pattern matches exactly when some bindings make it the subject,
\* those bindings are the ones made, an alternative that failed leaves none;
\* the first case that matches and whose guard holds runs.
MatchInverts ==
  /\ Picked("unpack") => UnpackMeets(case.in[1], case.in[2], case.out)
  /\ Picked("match") => MatchMeets(case.in[1], case.in[2], case.out)

(***************************************************************************)
(* Calls and callbacks.                                                     *)
(***************************************************************************)
AllKeywords(kws) == FlattenSeq([i \in DOMAIN kws |-> Spread(kws[i])])
Distinct(kws) == \A i, j \in DOMAIN AllKeywords(kws) : i # j => AllKeywords(kws)[i][1] # AllKeywords(kws)[j][1]
CallMeets(p, pos, kws, out) ==
  /\ out.args = FlattenSeq([i \in DOMAIN pos |-> IF Starred(pos[i]) THEN pos[i][2] ELSE <<pos[i][2]>>])
  /\ out.kw.ok <=> ~ \E i \in DOMAIN AllKeywords(kws) : AllKeywords(kws)[i][1] = NotAName
  /\ out.kw.ok => {<<x, out.kw.v[x]>> : x \in DOMAIN out.kw.v} = ToSet(AllKeywords(kws))
  /\ out.kw.ok => (out.scope.ok <=> Legal(p, out.args, out.kw.v))
  /\ out.scope.ok => Lands(p, out.args, out.kw.v, out.scope.v)

\* Every argument of a call lands in exactly one parameter, and a call is
\* refused exactly when an argument has no place, a parameter has two, or one
\* without a default has none: the checks of bind_params_named run one after
\* the other over positional-only, keyword-only and variadic parameters.
ArgumentsLand == Picked("call") /\ Distinct(case.in.kws) => CallMeets(case.in.p, case.in.pos, case.in.kws, case.out)

SameItems(s, t) == Len(s) = Len(t) /\ ToSet(s) = ToSet(t)
\* Sorted by key; the tags say in which order equal keys came.
SortedStably(s, up) == \A i, j \in DOMAIN s : i < j => IF s[i][1] = s[j][1] THEN s[i][2] < s[j][2] ELSE (s[i][1] < s[j][1]) = up
Quiet(c) == c.cb \subseteq (IF c.stmt \in {"sort", "rsort"} THEN {} ELSE {"grow"})
Grown(c) == IF "grow" \in c.cb THEN Append(c.lists[1], <<9, 9>>) ELSE c.lists[1]
SlotMeets(c, out) ==
  /\ out.names = World(c.lists).names /\ out.lists[2] = c.lists[2]
  /\ c.stmt \in {"sort", "rsort"} => SameItems(out.lists[1], c.lists[1]) /\ SortedStably(out.lists[1], c.stmt = "sort")
  /\ c.stmt = "method" => out.lists[1] = Grown(c)
  /\ c.stmt = "remove" => LET i == SelectInSeq(c.lists[1], LAMBDA y : y[1] = 1)
                          IN  IF i = 0 THEN out.e = "ValueError" ELSE out.lists[1] = RemoveAt(Grown(c), i)
  /\ c.stmt = "aug" /\ c.lists[1] # <<>> => Tail(out.lists[1]) = Tail(Grown(c)) /\ out.lists[1][1][1] = c.lists[1][1][1] + 1

\* A statement that runs code of the program between reading a slot and
\* writing it (list.sort, list.remove, a method call, +=) changes what its
\* text says and nothing else, as long as that code leaves the slot's name
\* alone and does not raise; a sort is stable in both directions.
SlotsSurvive == Picked("slot") /\ Quiet(case.in) => SlotMeets(case.in, case.out)

(***************************************************************************)
(* Classes.                                                                 *)
(***************************************************************************)
\* The method resolution order lists every ancestor once, keeps the order of
\* the bases and of each base's own order, and is refused only when no order
\* does; a method that calls super() runs each definition once, in that order,
\* and a class method likewise.
LinearizesC3 == Picked("hierarchy") => HierarchyMeets(case.in, case.out)

\* Reading, calling, assigning, deleting and reading through the class find
\* the nearest definition, descriptors before fields before other class
\* attributes, hooks where Python runs them: five lookups written apart, each
\* over one table per kind of definition; a construction runs the hooks Python
\* runs, a dataclass takes the arguments its fields say, a class body is a
\* scope of its own and auto() goes on from the largest member.
LookupMeetsPython ==
  /\ Picked("lookup") => LookupMeets(case.in, case.out)
  /\ Picked("construct") => ConstructMeets(case.in, case.out)
  /\ Picked("data") => DataMeets(case.in, case.out)
  /\ Picked("body") /\ PlainBody(case.in) => BodyMeets(case.in, case.out)
  /\ Picked("enum") => EnumMeets(case.in, case.out)

\* "CPython executes a class body as a code block against its own namespace",
\* and "the next statement's seed (and its reads) see the current values".
BodiesAreBlocks == Picked("body") => BodyMeets(case.in, case.out)

(***************************************************************************)
(* Walks.                                                                   *)
(***************************************************************************)
\* Walking a value that contains itself ends, and says what Python says:
\* render prints "..." exactly where a container is inside itself and leaves
\* its active set empty even when a __repr__ raised halfway; both JSON encoders
\* refuse exactly the circular values; both bindings refuse what is circular or
\* too deep and otherwise hand over every element; sizes come out the same in
\* whatever order containers are sized, and a write is seen by the container's
\* next size.  Left out, as the code does not meet it: repr of a circular dict
\* without the interpreter's state, of OrderedDict and of dataclasses, and a
\* circular dict handed to Node.
WalksEnd ==
  /\ Picked("walk") => WalkMeets(case.in, 1, KindsIn(case.in, Reaches(case.in, 1)), Cyclic(case.in, 1), case.out)
  /\ Picked("size") => SizeMeets(case.in.g, case.in.m, case.out)

\* == answers as Python does on values that contain themselves and each other:
\* true or false where there is an answer, RecursionError where there is none,
\* and the container itself is equal to itself at once.  OrderedDicts whose keys
\* are in different orders are unequal at once, where Python may first meet a
\* cycle in their values and raise.  `in` agrees with ==
\* where every comparison has an answer; < agrees on lists that are acyclic and
\* share nothing, and so never meets a lock it holds.
ComparisonsMeetPython == Picked("compare") => CompareMeets(case.in, 1, 2, case.out)

\* A deep copy has the shape of its original: same containers shared in the
\* same places, same cycles, nothing in common with it, and the original is
\* not touched.  (A defaultdict's elements stay shared, tuples are copied at
\* every occurrence.)
CopyIsIsomorphic ==
  Picked("copy") /\ "ddict" \notin KindsIn(case.in, Reaches(case.in, 1)) =>
    CopyMeets(case.in, Pairing(case.in, 1, case.out.deep.g, case.out.deep.id), case.out)

\* What a tool or a host sees is what the script had: a trip through Python
\* gives the value back with its kind (array, memoryview, dict view and
\* OrderedDict widened), a trip through JavaScript keeps every number exactly
\* at the edge of the safe integers and of i64, every instant, every text and
\* every element, and a second trip changes nothing; what cannot come back
\* (internal values, unhashable keys) is refused, never dropped.
CrossingsKeep == Picked("cross") => CrossingMeets(case.in, AllKinds(case.in), KeyKinds(case.in), case.out)

(***************************************************************************)
(* Containers and the library.                                              *)
(***************************************************************************)
\* A method does what the subscripts it abbreviates do (insert is a slice
\* assignment, a bounded deque the end of a list, a dict keeps its order), one
\* that raises changes nothing, and the bytes reported for the budget are the
\* bytes the container grew by, over any sequence of calls.  A heap stays a
\* heap and loses nothing, a search splits the list.  An iterator over a
\* generator gives what it gives over a list and takes no item of the source
\* before it is asked; combinatorics come once each and in order.  A cache
\* answers as the function would and holds what was used last, through
\* recursion, raises and clears in the middle of a call.
LibraryMeetsPython ==
  /\ Picked("methods") => MethodsMeet(case.in, case.out)
  /\ Picked("heap") => HeapMeets(case.in, case.out)
  /\ Picked("search") => BisectMeets(case.in, case.out)
  /\ Picked("iterate") => IteratorsMeet(case.in, case.out)
  /\ Picked("choices") => ChoicesMeet(case.in, case.out)
  /\ Picked("cache") => CacheMeets(case.in, case.out)
================================================================================
