------------------------------ MODULE MCScopes ------------------------------
(* Instances of Scopes. *)
EXTENDS Scopes

CONSTANTS x, y

TwoNames == {x, y}
JustX    == {x}

(* Every way a function can use the names. *)
AllShapes == [Names -> Roles]

(* No function binds a name that module code binds. *)
Disjoint == {s \in AllShapes :
   \A n \in Names : IF n \in ModuleNames THEN s[n] \in {"read", "global", "unused"}
                                         ELSE s[n] # "global"}

(* ... and none declares one `global'. *)
NoGlobal == {s \in Disjoint : \A n \in Names : s[n] # "global"}

(* ... and none uses a name of another function. *)
Apart == {s \in NoGlobal : \A n \in Names \ ModuleNames : s[n] \in {"param", "local", "unused"}}

(* Closures of every kind, called by the activation that makes them; and     *)
(* functions of the module's names and their own, which may recurse, call    *)
(* one another and be handed down.                                          *)
MCPrograms == {[shapes |-> NoGlobal, kinds |-> {"def", "lambda"}, calls |-> "own"],
               [shapes |-> Apart, kinds |-> {"def"}, calls |-> "running"]}

=============================================================================
