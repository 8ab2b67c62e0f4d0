------------------------------ MODULE MCSession ------------------------------
(* Instances of Session: two callers and an accessor of one interpreter, a  *)
(* third caller of another one, two workers.                                *)
EXTENDS Session

CONSTANTS i1, i2, r1, r2, r3, a1, w1, w2

TwoInterps == {i1, i2}
ThreeRuns  == {r1, r2, r3}
OneReader  == {a1}
TwoWorkers == {w1, w2}
(* The bindings with runs that are awaited and with runs that block their  *)
(* caller, whose hosts read between runs, and the Rust API, whose callers   *)
(* may queue runs and read at any time.                                    *)
BindingsAndRust ==
    {[blocking |-> b, guarded |-> TRUE, usesHost |-> TRUE,
      readsDuringRun |-> FALSE, readsInTool |-> FALSE] : b \in BOOLEAN}
    \cup {[blocking |-> FALSE, guarded |-> FALSE, usesHost |-> FALSE,
           readsDuringRun |-> TRUE, readsInTool |-> FALSE]}

OfDef      == [x \in {r1, r2, r3, a1} |-> IF x = r3 THEN i2 ELSE i1]

=============================================================================
