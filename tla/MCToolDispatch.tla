--------------------------- MODULE MCToolDispatch ---------------------------
(* Small instances of ToolDispatch: three calls, so that two can compete   *)
(* for one permit while a third depends on their results.                  *)
EXTENDS ToolDispatch, TLC

CONSTANTS c1, c2, c3

CallsDef == {c1, c2, c3}
TwoCalls == {c1, c2}
Symmetry == Permutations(CallsDef)

=============================================================================
