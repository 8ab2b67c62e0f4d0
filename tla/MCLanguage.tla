------------------------------ MODULE MCLanguage -------------------------------
(***************************************************************************)
(* The cases of Language: values at the edges of the widths, one value in   *)
(* each of its types, instances of classes that define one method each.     *)
(***************************************************************************)
EXTENDS Language, TLC

(* Values. *)
Ints == {-33, -17, -16, -2, -1, 0, 1, 2, 4, 15, 16, 31, 32, 33}
Numeric ==
  {Bool(0), Bool(1)} \cup {IntOf(n) : n \in Ints}
  \cup {FloatQ(q) : q \in {0, 1, 2, 4, 10, 60, 64, 132, -1, -4, -8}} \cup {FloatC(c) : c \in {"nan", "inf", "ninf"}}
  \cup {Decimal(0, 0), Decimal(10, 1), Decimal(25, 1), Decimal(25, 2), Decimal(1, 1), Decimal(1, -1), Decimal(-20, 1), Decimal(33, 0)}
  \cup {Fraction(1, 2), Fraction(-1, 4), Fraction(5, 2), Fraction(1, 3), Fraction(1, 10), Fraction(33, 1), Fraction(7, 31)}
Plain == {None, Str(1), Str(2), Complex(FloatQ(4), FloatQ(0)), Complex(FloatQ(0), FloatQ(4)),
          Enum("Int", "E", "A", IntOf(1)), Enum("Str", "S", "A", Str(1)),
          Enum("Plain", "P", "A", IntOf(1)), Enum("Plain", "P", "B", IntOf(1)),
          DateTime(5, Naive), DateTime(5, 0), DateTime(7, 2), DateTime(7, Naive)}
Units == {IntOf(1), Bool(1), FloatQ(4), Decimal(10, 1), Str(1), FloatQ(2)}
Nested == {Tuple(<<a, b>>) : a, b \in Units} \cup {List(1, <<IntOf(1)>>), List(2, <<IntOf(1)>>), Tuple(<<List(1, <<>>)>>)}
Universe == Numeric \cup Plain \cup Nested
MCPairs == Universe \X Universe

(* Arithmetic. *)
IntVals == {IntOf(n) : n \in {-17, -16, -15, -3, -1, 0, 1, 2, 5, 15, 16}} \cup {Bool(0), Bool(1)}
Rationals == {Decimal(5, 1), Decimal(-15, 1), Decimal(2, 0), Decimal(0, 0), DecimalC("inf"), DecimalC("ninf"), DecimalC("nan"),
              Fraction(1, 2), Fraction(-5, 3), Fraction(2, 1)}
Floats == {FloatQ(2), FloatQ(-6), FloatQ(0)}
Counts == {IntOf(n) : n \in {-2, -1, 0, 1, 2, 3, 5}} \cup {Bool(1)}
Texts == {Text(<<1, 2>>), List(1, <<1, 2>>)}
MCSums ==
  {<<op, a, b>> : op \in {"+", "-", "*", "/", "//", "%"}, a, b \in IntVals \cup Rationals \cup Floats}
  \cup {<<op, a, b>> : op \in {"<<", ">>", "|", "^", "&", "**"}, a \in IntVals, b \in Counts}
  \cup {<<op, a, b>> : op \in {"+", "*"}, a \in Texts \cup {IntOf(2)}, b \in Texts \cup Counts}

\* Small ranges, and bounds and steps at the edges of the width (-16 .. 15).
Edges == {-16, -15, -9, 9, 14, 15}
Bounds == -4 .. 4 \cup Edges
Steps == {-3, -2, -1, 1, 2, 3} \cup Edges
MCRanges == {PyRange(a, b, c) : a, b \in Bounds, c \in Steps}

(* Classes. *)
Named(mro, slots) == [mro |-> mro, slots |-> slots, order |-> FALSE, total |-> FALSE, compared |-> <<>>, yields |-> <<>>]
Cmp(op) == <<"compare", op>>
Total(c, op) == [Named(<<c>>, (Cmp(op) :> ByRank) @@ (Cmp("==") :> ByRank)) EXCEPT !.total = TRUE]
MCClasses ==
  ("Bare" :> Named(<<"Bare">>, << >>))
  @@ ("Adds" :> Named(<<"Adds">>, (<<"op", "+">> :> IntOf(1)) @@ (<<"op", "-">> :> NotImplemented)))
  @@ ("Sub" :> Named(<<"Sub", "Adds">>, << >>))
  @@ ("Mirrors" :> Named(<<"Mirrors">>, (<<"rop", "+">> :> IntOf(2)) @@ (<<"rop", "-">> :> IntOf(3)) @@ (<<"op", "+">> :> NotImplemented)))
  @@ ("Selfish" :> Named(<<"Selfish">>, (<<"op", "-">> :> NotImplemented) @@ (<<"rop", "-">> :> IntOf(4))))
  @@ ("Equal" :> Named(<<"Equal">>, (Cmp("==") :> ByRank) @@ (<<"protocol", "hash">> :> IntOf(7))))
  @@ ("Yes" :> Named(<<"Yes">>, (Cmp("==") :> Bool(1)) @@ (Cmp(">") :> Bool(1)) @@ (Cmp("<=") :> NotImplemented)))
  @@ ("Lt" :> Total("Lt", "<")) @@ ("Le" :> Total("Le", "<=")) @@ ("Gt" :> Total("Gt", ">")) @@ ("Ge" :> Total("Ge", ">="))
  @@ ("Boxes" :> [Named(<<"Boxes">>, (<<"protocol", "len">> :> IntOf(2)) @@ (<<"protocol", "getitem">> :> None) @@ (<<"iop", "+">> :> IntOf(9)))
                   EXCEPT !.yields = <<IntOf(1), Instance("Equal", 2)>>])
  @@ ("Hollow" :> Named(<<"Hollow">>, (<<"protocol", "len">> :> IntOf(0)) @@ (<<"protocol", "contains">> :> Bool(1)) @@ (<<"protocol", "iter">> :> List(7, <<IntOf(1)>>))))
  @@ ("Iters" :> Named(<<"Iters">>, (<<"protocol", "iter">> :> Instance("Walker", 2)) @@ (<<"protocol", "bool">> :> Bool(0)) @@ (<<"protocol", "len">> :> IntOf(-1))))
  @@ ("Walker" :> [Named(<<"Walker">>, (<<"protocol", "next">> :> None)) EXCEPT !.yields = <<IntOf(2), Instance("Lt", 2)>>])
  @@ ("Endless" :> [Named(<<"Endless">>, (<<"protocol", "getitem">> :> None)) EXCEPT !.yields = <<None, None, None>>])
  @@ ("Record" :> [Named(<<"Record">>, << >>) EXCEPT !.order = TRUE,
                    !.compared = (2 :> <<IntOf(1), FloatQ(4)>>) @@ (3 :> <<IntOf(1), FloatQ(8)>>) @@ (4 :> <<FloatQ(4), IntOf(1)>>)])
MCObjects ==
  LET all == {Instance(c, i) : c \in {"Lt", "Le", "Gt", "Ge", "Record"}, i \in 2 .. 4} \cup {Instance(c, 2) : c \in DOMAIN MCClasses}
  IN  {<<op, a, b>> : op \in {"+", "-"}, a \in all, b \in all \cup {IntOf(1), None}}
      \cup {<<"-", IntOf(1), b>> : b \in all} \cup {<<"+", List(1, <<IntOf(1)>>), b>> : b \in {List(1, <<IntOf(1)>>), List(2, <<None>>)}}
MCProtocols ==
  LET items == {Instance(c, i) : c \in {"Equal", "Lt", "Gt", "Record"}, i \in 2 .. 3} \cup {IntOf(n) : n \in {-16, 0, 1, 2, 15}} \cup {Bool(1), None}
      builtin == {List(i, s) : i \in 1 .. 2, s \in {<<>>, <<IntOf(1)>>, <<IntOf(2), Instance("Equal", 3)>>}} \cup {Tuple(<<Bool(1), Instance("Lt", 3)>>), PyRange(0, 3, 2), PyRange(3, 0, 1)}
  IN  (builtin \cup items \cup {Instance(c, 2) : c \in DOMAIN MCClasses}) \X (items \cup builtin)
MCKeyOrders == {<<a, b, c>> : a, b, c \in {Instance("Equal", i) : i \in 2 .. 5} \cup {Instance("Bare", 2), Instance("Bare", 3)}}
================================================================================
