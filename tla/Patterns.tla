------------------------------- MODULE Patterns --------------------------------
(***************************************************************************)
(* The match statement: eval/match_stmt.rs.  A pattern is taken apart with  *)
(* the subject into parts that must all match, from left to right; the      *)
(* captures are collected on the way and bound when the whole matches.      *)
(***************************************************************************)
EXTENDS Places

CONSTANT Hierarchy        \* class -> [mro, match_args]

Object(class, map) == [k |-> "inst", class |-> class, map |-> map]

ValueP(v) == [p |-> "value", v |-> v]           \* MatchValue and MatchSingleton
Wild == [p |-> "as", subs |-> <<>>, x |-> <<>>]
Capture(x) == [p |-> "as", subs |-> <<>>, x |-> <<x>>]
AsP(sub, x) == [p |-> "as", subs |-> <<sub>>, x |-> <<x>>]
OrP(subs) == [p |-> "or", subs |-> subs]
StarP(x) == [p |-> "star", x |-> x]             \* <<name>>, or <<>> for *_
SeqP(subs) == [p |-> "seq", subs |-> subs]
MapP(keys, subs, rest) == [p |-> "map", keys |-> keys, subs |-> subs, rest |-> rest]
ClassP(cls, subs, kwd, kwsubs) == [p |-> "class", cls |-> cls, subs |-> subs, kwd |-> kwd, kwsubs |-> kwsubs]
Raise(e) == [p |-> "raise", e |-> e]

Builtin == {"int", "list", "dict"}
subject_is_instance_of(v, cls) ==
  IF v.k = "inst" THEN v.class = cls \/ cls \in ToSet(Hierarchy[v.class].mro) ELSE v.k = cls
lookup_match_args(cls) == Hierarchy[cls].match_args
\* A part <<pattern, value>>; an attribute the subject lacks is a part that
\* raises when its turn comes.
lookup_attribute_for_match(v, attr, sub) ==
  IF v.k = "inst" /\ Holds(v, attr) THEN <<sub, v.map[attr]>> ELSE <<Raise("AttributeError"), v>>

\* How a pattern is taken apart: whether the shape fits, whether all parts
\* or any of them must match, the parts, the captures of the pattern itself.
Apart1(fits, mode, parts, own) == [fits |-> fits, mode |-> mode, parts |-> parts, own |-> own]
Misfit == Apart1(FALSE, "all", <<>>, <<>>)
PairUp(subs, items) == [i \in DOMAIN subs |-> <<subs[i], items[i]>>]
Named(x, v) == IF x = <<>> THEN <<>> ELSE << <<x[1], v>> >>
FirstStar(subs) == SelectInSeq(subs, LAMBDA s : s.p = "star")

SplitAt(subs, items, star, tail) ==
  Apart1(TRUE, "all", PairUp(SubSeq(subs, 1, star - 1), items)
                      \o PairUp(SubSeq(subs, star + 1, Len(subs)), SubSeq(items, Len(items) - tail + 1, Len(items))),
         Named(subs[star].x, Listed("list", SubSeq(items, star, Len(items) - tail))))
\* Mutant: a star takes at least one item.
StarIsGreedy(subs, v) ==
  LET star == FirstStar(subs)
  IN  CASE v.k \notin {"list", "tuple"} -> Misfit
        [] star = 0 -> IF Len(v.items) = Len(subs) THEN Apart1(TRUE, "all", PairUp(subs, v.items), <<>>) ELSE Misfit
        [] Len(v.items) <= Len(subs) - 1 -> Misfit
        [] OTHER -> SplitAt(subs, v.items, star, Len(subs) - star)
match_sequence(subs, v) ==
  LET star == FirstStar(subs)
  IN  CASE v.k \notin {"list", "tuple"} -> Misfit
        [] star = 0 -> IF Len(v.items) = Len(subs) THEN Apart1(TRUE, "all", PairUp(subs, v.items), <<>>) ELSE Misfit
        [] Len(v.items) < Len(subs) - 1 -> Misfit
        [] OTHER -> SplitAt(subs, v.items, star, Len(subs) - star)

Without(map, keys) == [q \in DOMAIN map \ keys |-> map[q]]
\* A missing key is a part nothing matches.
match_mapping(p, v) ==
  IF v.k # "dict" THEN Misfit
  ELSE Apart1(TRUE, "all", [i \in DOMAIN p.keys |-> IF Holds(v, p.keys[i]) THEN <<p.subs[i], v.map[p.keys[i]]>> ELSE <<OrP(<<>>), v>>],
              Named(p.rest, Mapped("dict", Without(v.map, ToSet(p.keys)))))

KeywordParts(p, v) == [i \in DOMAIN p.kwd |-> lookup_attribute_for_match(v, p.kwd[i], p.kwsubs[i])]
PositionalParts(p, v, names) ==
  [i \in DOMAIN p.subs |-> IF names[i] \in ToSet(p.kwd) THEN <<Raise("TypeError"), v>> ELSE lookup_attribute_for_match(v, names[i], p.subs[i])]
match_class(p, v) ==
  LET limit == IF p.cls \in Builtin THEN 1 ELSE Len(lookup_match_args(p.cls))
  IN  CASE ~ subject_is_instance_of(v, p.cls) -> Misfit
        [] Len(p.subs) > limit -> Apart1(TRUE, "all", << <<Raise("TypeError"), v>> >>, <<>>)
        [] p.cls \in Builtin -> Apart1(TRUE, "all", [i \in DOMAIN p.subs |-> <<p.subs[i], v>>] \o KeywordParts(p, v), <<>>)
        [] OTHER -> Apart1(TRUE, "all", PositionalParts(p, v, lookup_match_args(p.cls)) \o KeywordParts(p, v), <<>>)

PartsOf(p, v) ==
  CASE p.p = "value" -> IF p.v = v THEN Apart1(TRUE, "all", <<>>, <<>>) ELSE Misfit
    [] p.p = "as" -> Apart1(TRUE, "all", [i \in DOMAIN p.subs |-> <<p.subs[i], v>>], Named(p.x, v))
    [] p.p = "or" -> Apart1(TRUE, "any", [i \in DOMAIN p.subs |-> <<p.subs[i], v>>], <<>>)
    [] p.p = "seq" -> match_sequence(p.subs, v)
    [] p.p = "map" -> match_mapping(p, v)
    [] p.p = "class" -> match_class(p, v)
    [] OTHER -> Misfit

\* A result: yes, no or the exception, and the captures so far.
Result(r, env) == [r |-> r, env |-> env]
Settled(mode, acc) == IF mode = "all" THEN acc.r # "yes" ELSE acc.r # "no"
Joined(acc, next) == IF next.r = "yes" THEN Result("yes", acc.env \o next.env) ELSE Result(next.r, <<>>)
Closed(own, acc) == IF acc.r = "yes" THEN Result("yes", acc.env \o own) ELSE acc
RECURSIVE pattern_matches(_, _), MatchParts(_)
MatchParts(q) ==
  IF ~ q.fits THEN Result("no", <<>>)
  ELSE Closed(q.own, FoldLeft(LAMBDA acc, part : IF Settled(q.mode, acc) THEN acc ELSE Joined(acc, pattern_matches(part[1], part[2])),
                              Result(IF q.mode = "all" THEN "yes" ELSE "no", <<>>), q.parts))
pattern_matches(p, v) == IF p.p = "raise" THEN Result(p.e, <<>>) ELSE MatchParts(PartsOf(p, v))

\* eval_match: a case is <<pattern, guard>>, a guard the set of values of "x"
\* it holds for; the captures of a case whose guard fails stay bound.
Bindings(env, pairs) == FoldLeft(LAMBDA e, b : [q \in DOMAIN e \cup {b[1]} |-> IF q = b[1] THEN b[2] ELSE e[q]], env, pairs)
TryCase(acc, i, c, m) ==
  LET env == IF m.r = "yes" THEN Bindings(acc.env, m.env) ELSE acc.env
  IN  CASE m.r = "no" -> acc
        [] m.r # "yes" -> [acc EXCEPT !.ran = -1]
        [] c[2] = {} \/ ("x" \in DOMAIN env /\ env["x"] \in c[2]) -> [env |-> env, ran |-> i]
        [] OTHER -> [acc EXCEPT !.env = env]
eval_match(cases, v) ==
  FoldLeft(LAMBDA acc, i : IF acc.ran # 0 THEN acc ELSE TryCase(acc, i, cases[i], pattern_matches(cases[i][1], v)),
           [env |-> << >>, ran |-> 0], [i \in DOMAIN cases |-> i])

(***************************************************************************)
(* What it means that a value fits a pattern, and that bindings are the     *)
(* ones of the match.                                                       *)
(***************************************************************************)
AttrFits(v, a) == v.k = "inst" /\ Holds(v, a)
RECURSIVE Fits(_, _, _)
\* v fits p, and env binds every capture of p to its piece of v.
Fits(p, v, env) ==
  LET binds(x, piece) == x = <<>> \/ (x[1] \in DOMAIN env /\ env[x[1]] = piece)
      pieces ==
        CASE p.p = "seq" /\ v.k \in {"list", "tuple"} ->
               {f \in [DOMAIN p.subs -> {<<i, j>> : i \in 1 .. Len(v.items) + 1, j \in 0 .. Len(v.items)}] :
                  /\ p.subs = <<>> => v.items = <<>>
                  /\ \A i \in DOMAIN f : /\ IF i = 1 THEN f[i][1] = 1 ELSE f[i][1] = f[i - 1][2] + 1
                                         /\ i = Len(p.subs) => f[i][2] = Len(v.items)
                                         /\ f[i][2] >= f[i][1] - 1
                                         /\ p.subs[i].p # "star" => f[i][2] = f[i][1]}
          [] OTHER -> {}
  IN  CASE p.p = "value" -> p.v = v
        [] p.p = "as" -> binds(p.x, v) /\ \A i \in DOMAIN p.subs : Fits(p.subs[i], v, env)
        [] p.p = "or" -> \E i \in DOMAIN p.subs : Fits(p.subs[i], v, env)
        [] p.p = "seq" -> \E f \in pieces : \A i \in DOMAIN f :
                            IF p.subs[i].p = "star" THEN binds(p.subs[i].x, Listed("list", SubSeq(v.items, f[i][1], f[i][2])))
                            ELSE Fits(p.subs[i], v.items[f[i][1]], env)
        [] p.p = "map" -> /\ v.k = "dict" /\ ToSet(p.keys) \subseteq DOMAIN v.map
                          /\ binds(p.rest, Mapped("dict", Without(v.map, ToSet(p.keys))))
                          /\ \A i \in DOMAIN p.keys : Fits(p.subs[i], v.map[p.keys[i]], env)
        [] p.p = "class" ->
             /\ subject_is_instance_of(v, p.cls)
             /\ IF p.cls \in Builtin THEN Len(p.subs) <= 1 /\ \A i \in DOMAIN p.subs : Fits(p.subs[i], v, env)
                ELSE /\ Len(p.subs) <= Len(lookup_match_args(p.cls))
                     /\ \A i \in DOMAIN p.subs : LET a == lookup_match_args(p.cls)[i]
                                                IN  a \notin ToSet(p.kwd) /\ AttrFits(v, a) /\ Fits(p.subs[i], v.map[a], env)
             /\ \A i \in DOMAIN p.kwd : AttrFits(v, p.kwd[i]) /\ Fits(p.kwsubs[i], v.map[p.kwd[i]], env)
\* The parts of a value, which are what captures can hold.
Within1(v) == {v} \cup (IF IsSequence(v) THEN ToSet(v.items) \cup {Listed("list", SubSeq(v.items, i, j)) : i \in 1 .. Len(v.items) + 1, j \in 0 .. Len(v.items)}
                        ELSE IF v.k = "int" THEN {} ELSE {v.map[q] : q \in DOMAIN v.map} \cup {Mapped("dict", Without(v.map, s)) : s \in SUBSET DOMAIN v.map})
Within(v) == UNION {Within1(x) : x \in Within1(v)}
================================================================================
