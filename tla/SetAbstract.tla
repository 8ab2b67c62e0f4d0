------------------------------ MODULE SetAbstract ------------------------------
(***************************************************************************)
(* What a Python set promises, with no hash table in sight: a set of values *)
(* of which no two are equal (Python's ==).  Class gives the equality: 1,   *)
(* 1.0 and True are different values of one class.  An operation leaves the *)
(* classes that set algebra says and answers what they say; where two equal *)
(* values meet, only the operations that keep the left one are told which.  *)
(***************************************************************************)
EXTENDS FiniteSets

CONSTANTS Class(_),          \* the equality class of a value
          Unhashable(_),     \* a list, a dict or a set: add refuses it
          ArgFails(_),       \* an argument cannot be iterated
          ArgItems(_, _)     \* the sets of values the arguments iterate over, given the receiver's

VARIABLES elems,    \* the values the set holds
          call,     \* the last operation: <<name, value or argument>>
          ret       \* what it returned

vars == <<elems, call, ret>>

Classes(S) == {Class(v) : v \in S}
Has(S, v) == Class(v) \in Classes(S)
Distinct(S) == \A v, w \in S : Class(v) = Class(w) => v = w
Without(S, T) == {v \in S : ~ Has(T, v)}

\* One value of S for every class of S.
OneEach(S) == {P \in SUBSET S : Distinct(P) /\ Classes(P) = Classes(S)}

JoinOf(S, T) == {S \cup P : P \in OneEach(Without(T, S))}
MeetOf(S, Ts) == OneEach({v \in S \cup UNION Ts : Has(S, v) /\ \A T \in Ts : Has(T, v)})
ToggleOf(S, T) == {Without(S, T) \cup P : P \in OneEach(Without(T, S))}

Answer(b) == IF b THEN "True" ELSE "False"

\* The pairs <<elements after, answer>> an operation of one value, or of none, may end in.
SingleOps == {"add", "contains", "remove", "discard", "pop", "clear", "copy"}
Single(S, op, x) ==
  CASE op = "add"  -> IF Unhashable(x) THEN {<<S, "TypeError">>}
                      ELSE {<<IF Has(S, x) THEN S ELSE S \cup {x}, "None">>}
    [] op = "contains" -> {<<S, Answer(Has(S, x))>>}
    [] op = "remove"   -> {<<Without(S, {x}), IF Has(S, x) THEN "None" ELSE "KeyError">>}
    [] op = "discard"  -> {<<Without(S, {x}), "None">>}
    [] op = "pop"      -> IF S = {} THEN {<<S, "KeyError">>} ELSE {<<S \ {v}, v>> : v \in S}
    [] op = "clear"    -> {<<{}, "None">>}
    [] op = "copy"     -> {<<S, "None">>}

\* Those an operation on other sets Ts, of values T in all, may end in.
Multiple(S, op, Ts, T) ==
  CASE op = "union"    -> {<<R, "None">> : R \in JoinOf(S, T)}
    [] op = "intersection" -> {<<R, "None">> : R \in MeetOf(S, Ts)}
    [] op = "difference"   -> {<<Without(S, T), "None">>}
    [] op = "rdifference"  -> {<<R, "None">> : R \in OneEach(Without(T, S))}
    [] op = "symmetric"    -> {<<R, "None">> : R \in ToggleOf(S, T)}
    [] op = "issubset"     -> {<<S, Answer(Classes(S) \subseteq Classes(T))>>}
    [] op = "issuperset"   -> {<<S, Answer(Classes(T) \subseteq Classes(S))>>}
    [] op = "isdisjoint"   -> {<<S, Answer(Classes(S) \cap Classes(T) = {})>>}

Outcomes(S, op, x) ==
  IF op \in SingleOps THEN Single(S, op, x)
  ELSE IF ArgFails(x) THEN {<<S, "TypeError">>}
  ELSE Multiple(S, op, ArgItems(x, S), UNION ArgItems(x, S))

Init == elems = {} /\ call = <<>> /\ ret = "None"

Next == <<elems', ret'>> \in Outcomes(elems, call'[1], call'[2])

Spec == Init /\ [][Next]_vars
================================================================================
