----------------------------- MODULE MCPersist ------------------------------
(* Instances of Persist. *)
EXTENDS Persist, TLC

CONSTANTS f, g, u, C

ThreeNames == {f, g, u}
OneClass   == {C}
Underscore == {u}

Swap == Permutations({f, g})

Does(shapes, texts, n, m) == [shapes |-> shapes, texts |-> texts, defs |-> n, imports |-> m]

(* Every kind of definition, never exported. *)
Live == Does({"def", "async", "lambda", "list", "alias", "method", "static"}, {"own"}, 2, 0)

(* Methods taken out of classes that are defined again. *)
Taken == Does({"method", "static", "taken", "list", "alias"}, {"own"}, 3, 0)

(* Module-level functions, methods and data, resumed twice. *)
Resumed == Does({"def", "method"}, {"own"}, 2, 2)

(* Data that is left out, refused, unreadable or too much. *)
Awkward == Does({"method", "proxy", "held", "unread", "heavy"}, {"own"}, 1, 1)

(* Lambdas, some of them made by functions of earlier runs. *)
Stopped == Does({"def", "lambda", "heavy"}, {"own", "other"}, 2, 1)

AllPrograms == {Live, Taken, Resumed, Awkward, Stopped}

=============================================================================
