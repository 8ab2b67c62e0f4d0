------------------------------ MODULE MCLimits ------------------------------
(* Instances of Limits. *)
EXTENDS Limits

CONSTANT a

OneName  == {a}

Does(cs, ps, aug, drop, n) ==
    [calls |-> cs, prints |-> ps, augmented |-> aug, cancelled |-> drop, runs |-> n]

(* Programs that call, one that changes variables only, one that does a bit *)
(* of everything and may be dropped.                                       *)
AllPrograms == {Does({"def", "lambda", "method"}, {}, FALSE, FALSE, 2),
                Does({}, {}, FALSE, TRUE, 2),
                Does({"def"}, {1}, TRUE, TRUE, 1)}

=============================================================================
