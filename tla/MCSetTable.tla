------------------------------ MODULE MCSetTable -------------------------------
(***************************************************************************)
(* Instances of SetTable: a four-slot table with one linear probe, four     *)
(* hashed values (one_i and one_b are equal, and the others collide with    *)
(* them), an instance without a reproducible hash and a list.               *)
(***************************************************************************)
EXTENDS SetTable, TLC

CONSTANTS one_i, one_b, five, nine, inst, lst

MCValues == {one_i, one_b, five, nine, inst, lst}
MCHash == (one_i :> 1) @@ (one_b :> 1) @@ (five :> 5) @@ (nine :> 9) @@ (inst :> NoHash) @@ (lst :> NoHash)
MCClass == (one_i :> 1) @@ (one_b :> 1) @@ (five :> 5) @@ (nine :> 9) @@ (inst :> 7) @@ (lst :> 8)

\* Sets built the ways a program builds them: a literal, set(iterable), with
\* elements discarded, with an instance in them.
Tombstoned == TableDiscard(TableDiscard(table_from_incremental(<<nine, one_b, five>>), five), one_i)
OtherSets == {from_constant_literal(<<one_b, nine>>), Tombstoned, from_items(<<five, inst>>)}
Lists == {<<one_b, nine, one_i>>, <<inst, five>>}
Extra == ListArg(<<nine>>)

SetArgs == {SelfArg} \cup {SetArg(b) : b \in OtherSets}
AnyArgs == SetArgs \cup {ListArg(l) : l \in Lists} \cup {BadArg}
MCArgs == AnyArgs \cup {Extra}
MCCalls ==
  {<<op, <<a>> >> : op \in (Folding \ {"intersection_update"}) \cup Toggling \cup Asking, a \in AnyArgs}
  \cup {<<op, <<a>> >> : op \in Binary, a \in SetArgs}
  \cup {<<op, <<Extra, a>> >> : op \in {"update", "intersection_update", "difference_update"},
                                a \in {BadArg, SelfArg}}
================================================================================
