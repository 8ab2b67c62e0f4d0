------------------------------- MODULE Scopes -------------------------------
(***************************************************************************)
(* Variable scopes: state.rs (set_variable), functions/definitions.rs      *)
(* (function and lambda definitions, closure cells, scope overlays, the    *)
(* per-frame checkpoint) and functions/dispatch.rs (call_user_function,    *)
(* call_lambda).                                                           *)
(*                                                                         *)
(* The interpreter keeps ONE flat map of variables.  A call saves the      *)
(* names it may touch, overlays what the function captured and its         *)
(* parameters, and puts the saved names back on the way out; what closures *)
(* share goes through numbered cells that set_variable writes through.     *)
(* Beside it the model keeps `ref', the environments Python defines: one   *)
(* set of locals per activation, names resolved lexically.                 *)
(***************************************************************************)
EXTENDS Naturals, Sequences, FiniteSets

CONSTANTS
    Names,      \* variable names the program uses
    ModuleNames,\* the names module-level code itself uses
    Vals,       \* values it assigns to them
    Programs,   \* the programs: see Program
    MaxFuns,    \* bound: function objects created
    MaxCalls,   \* bound: activations (config.max_operations ends a run)
    MaxDepth,   \* config.max_recursion_depth
    NoVal       \* "not in the map"

ASSUME ScopesAssumption ==
    /\ NoVal \notin Vals /\ IsFiniteSet(Names)
    /\ MaxFuns \in Nat /\ MaxCalls \in Nat /\ MaxDepth \in Nat

VARIABLES
    program,    \* what the program contains, chosen at the start
    variables,  \* state.variables
    owners,     \* state.frame_cell_owners: per frame, name -> cell id or 0
    cells,      \* state.nonlocal_cells, indexed by cell id
    funs,       \* Value::Function / Value::Lambda objects created so far
    frames,     \* calls in progress: function, activation, checkpoint
    ref         \* per activation: its locals, as Python defines them (history)

vars == <<program, variables, owners, cells, funs, frames, ref>>

(* How a body uses a name.  "read": it, or a function nested in it, reads  *)
(* the name and does not bind it.                                          *)
Roles   == {"param", "local", "read", "global", "nonlocal", "unused"}

(* The ways its functions use the names, whether they are defs or lambdas,  *)
(* and where it calls them: in the activation that defines them, anywhere   *)
(* while that activation runs, or also when they have outlived it.         *)
Program == [shapes : SUBSET [Names -> Roles], kinds : SUBSET {"def", "lambda"},
            calls : {"own", "running", "any"}]

Value   == Vals \cup {NoVal}
Env     == [Names -> Value]
NoEnv   == [n \in Names |-> NoVal]
NoCells == [n \in Names |-> 0]

top    == frames[Len(frames)]
owner  == owners[Len(owners)]
Module == 0

(* A name in the body of the current frame; module code binds every name. *)
RoleIn(fr, n) == IF fr.fn # Module THEN funs[fr.fn].role[n]
                 ELSE IF n \in ModuleNames THEN "local" ELSE "unused"

-----------------------------------------------------------------------------
(* Python's own rule, as the reference: the activation whose local a name   *)
(* is, for code of activation a.                                           *)

HomeIn(activations, functions, act, name) ==
    LET f(a) == functions[activations[a + 1].fn]
        h[a \in 0 .. (Len(activations) - 1)] ==
            IF a = Module THEN Module
            ELSE CASE f(a).role[name] \in {"param", "local"} -> a
                   [] f(a).role[name] = "global" -> Module
                   [] OTHER -> h[f(a).scope]
    IN  h[act]

Home(act, name) == HomeIn(ref, funs, act, name)

Lexical(act, n) == ref[Home(act, n) + 1].env[n]

-----------------------------------------------------------------------------
Init ==
    /\ program \in Programs
    /\ variables = NoEnv
    /\ owners = << NoCells >>
    /\ cells = << >>
    /\ funs = << >>
    /\ frames = << [fn |-> Module, act |-> Module, saved |-> [n \in {} |-> NoVal]] >>
    /\ ref = << [fn |-> Module, env |-> NoEnv] >>

(* Mutant: set_variable without the write-through. *)
WriteThroughNone(cs, n, v) == cs

(* state.set_variable by the current frame: write-through to the cell the  *)
(* innermost cell-owners scope has for the name.                           *)
WriteThrough(cs, n, v) ==
    IF owner[n] = 0 THEN cs ELSE [cs EXCEPT ![owner[n]][n] = v]

(* An assignment statement, walrus or loop target. *)
Assign(n, v) ==
    /\ RoleIn(top, n) \in {"param", "local", "global", "nonlocal"}
    /\ variables' = [variables EXCEPT ![n] = v]
    /\ cells' = WriteThrough(cells, n, v)
    /\ ref' = [ref EXCEPT ![Home(top.act, n) + 1].env[n] = v]
    /\ UNCHANGED <<program, owners, funs, frames>>

-----------------------------------------------------------------------------
(* Definitions *)

(* ensure_capture_cells: names read from the enclosing scope that are live  *)
(* and that the current frame has no cell for get a new one, in order.     *)
Captured(role) == {n \in Names : /\ role[n] = "read"
                                 /\ variables[n] # NoVal
                                 /\ owner[n] = 0}

(* Numbers for the new cells: an injection into the next free ids. *)
NewIds(S) == {f \in [S -> Len(cells) + 1 .. Len(cells) + Cardinality(S)] :
                 \A m, n \in S : f[m] = f[n] => m = n}

Captures(role, ids) ==
    [cs |-> cells \o [i \in 1..Cardinality(DOMAIN ids) |->
                [n \in Names |-> IF n \in DOMAIN ids /\ ids[n] = Len(cells) + i
                                 THEN variables[n] ELSE NoVal]],
     ow |-> [n \in Names |-> IF n \in DOMAIN ids THEN ids[n] ELSE owner[n]]]

(* resolve_closure_cells: all nonlocal names of a def share one cell, an   *)
(* existing one of the enclosing frame if any of them has it.              *)
NonlocalCell(NL, cap) ==
    LET have == {cap.ow[n] : n \in NL} \ {0}
    IN  IF have = {} THEN {Len(cap.cs) + 1} ELSE have

Seeded(NL, cap, id) ==
    LET old == IF id \in DOMAIN cap.cs THEN cap.cs[id] ELSE NoEnv
        new == [n \in Names |-> IF n \in NL /\ old[n] = NoVal
                                THEN variables[n] ELSE old[n]]
    IN  [cs |-> [i \in DOMAIN cap.cs \cup {id} |->
                    IF i = id THEN new ELSE cap.cs[i]],
         ow |-> [n \in Names |-> IF n \in NL THEN id ELSE cap.ow[n]]]

(* `nonlocal n' needs an enclosing function that binds n; a function in     *)
(* which a nested one reads n uses n itself (collect_free_names descends).  *)
WellFormed(role) ==
    \A n \in Names :
        /\ role[n] = "nonlocal" => Home(top.act, n) # Module
        /\ role[n] \in {"read", "nonlocal"} /\ top.fn # Module
              => RoleIn(top, n) # "unused"

Define(kind, role, got, ncell, refresh) ==
    /\ cells' = got.cs
    /\ owners' = [owners EXCEPT ![Len(owners)] = got.ow]
    /\ funs' = Append(funs, [kind |-> kind, role |-> role,
                             level |-> Len(frames) = 1,
                             closure |-> variables, refresh |-> refresh,
                             ncell |-> ncell, scope |-> top.act])
    /\ UNCHANGED <<program, variables, frames, ref>>

eval_function_def(role) ==
    /\ "def" \in program.kinds
    /\ Len(funs) < MaxFuns
    /\ top.fn # Module => funs[top.fn].kind = "def"
    /\ WellFormed(role)
    /\ LET NL == {n \in Names : role[n] = "nonlocal"} IN
       \E ids \in NewIds(Captured(role)) :
          LET cap == Captures(role, ids)
              refreshes(got) ==
                 [n \in Names |-> IF variables[n] # NoVal /\ n \notin NL
                                  THEN got.ow[n] ELSE 0]
          IN  IF NL = {}
              THEN Define("def", role, cap, 0, refreshes(cap))
              ELSE \E id \in NonlocalCell(NL, cap) :
                      LET got == Seeded(NL, cap, id)
                      IN  Define("def", role, got, id, refreshes(got))

eval_lambda_def(role) ==
    /\ "lambda" \in program.kinds
    /\ Len(funs) < MaxFuns
    /\ \A n \in Names : role[n] \in {"param", "local", "read", "unused"}
    /\ WellFormed(role)
    /\ \E ids \in NewIds(Captured(role)) :
          LET got == Captures(role, ids)
          IN  Define("lambda", role, got, 0,
                     [n \in Names |-> IF role[n] = "read" /\ variables[n] # NoVal
                                      THEN got.ow[n] ELSE 0])

-----------------------------------------------------------------------------
(* Calls *)

(* The trivial-frame fast path of call_user_function: a module-level def    *)
(* that binds and declares nothing runs in the caller's scope as it is.    *)
Trivial(f) ==
    f.kind = "def" /\ f.level /\ \A n \in Names : f.role[n] \in {"read", "unused"}

(* The names the frame's VariableCheckpoint covers. *)
touched(f) ==
    {n \in Names :
        /\ \/ f.role[n] \in {"param", "local"}
           \/ ~f.level /\ f.closure[n] \notin {NoVal, variables[n]}
        /\ f.role[n] \notin {"global", "nonlocal"}}

(* apply_function_scope / apply_lambda_scope: the value it sets a name to,  *)
(* or NoVal when it leaves the name alone.  Parameters win over refreshed  *)
(* cells, those over the nonlocal cell, that over the closure snapshot.    *)
Overlay(f, arg, n) ==
    LET inCell(id) == id # 0 /\ cells[id][n] # NoVal
    IN  IF f.role[n] = "param" THEN arg
        ELSE IF inCell(f.refresh[n]) THEN cells[f.refresh[n]][n]
        ELSE IF inCell(f.ncell) THEN cells[f.ncell][n]
        ELSE IF \/ f.role[n] = "global" \/ f.refresh[n] # 0
                \/ f.level /\ variables[n] # NoVal
             THEN NoVal ELSE f.closure[n]

(* The activations whose functions the running body may call. *)
CallScopes ==
    CASE program.calls = "own"     -> {top.act}
      [] program.calls = "running" -> {frames[i].act : i \in DOMAIN frames}
      [] program.calls = "any"     -> 0 .. (Len(ref) - 1)

(* Entering a call.  A def pushes a cell-owners scope of its own first; a   *)
(* lambda does not, so its overlay writes through the caller's cells.       *)
Call(k, arg) ==
    LET f == funs[k]
        act == Len(ref)
        set == [n \in Names |-> Overlay(f, arg, n)]
    IN  /\ Len(frames) <= MaxDepth
        /\ act <= MaxCalls
        /\ f.scope \in CallScopes
        /\ variables' = IF Trivial(f) THEN variables
                        ELSE [n \in Names |-> IF set[n] = NoVal THEN variables[n]
                                                               ELSE set[n]]
        /\ cells' = IF f.kind = "def" THEN cells
                    ELSE [i \in DOMAIN cells |-> [n \in Names |->
                            IF owner[n] = i /\ set[n] # NoVal THEN set[n]
                                                              ELSE cells[i][n]]]
        /\ owners' = IF f.kind = "def" THEN Append(owners, NoCells) ELSE owners
        /\ frames' = Append(frames,
              [fn |-> k, act |-> act,
               saved |-> [n \in IF Trivial(f) THEN {} ELSE touched(f) |-> variables[n]]])
        /\ ref' = Append(ref, [fn |-> k,
              env |-> [n \in Names |-> IF f.role[n] = "param" THEN arg ELSE NoVal]])
        /\ UNCHANGED <<program, funs>>

(* Mutant: no write-back of the nonlocal names. *)
LeaveNoWriteback ==
    /\ Len(frames) > 1
    /\ variables' = [n \in Names |-> IF n \in DOMAIN top.saved
                                     THEN top.saved[n] ELSE variables[n]]
    /\ owners' = IF funs[top.fn].kind = "def"
                 THEN SubSeq(owners, 1, Len(owners) - 1) ELSE owners
    /\ frames' = SubSeq(frames, 1, Len(frames) - 1)
    /\ UNCHANGED <<program, cells, funs, ref>>

(* Leaving it, by return or by an exception: writeback_nonlocal_cell, then  *)
(* checkpoint.restore, straight into the map.                              *)
Leave ==
    /\ Len(frames) > 1
    /\ LET f == funs[top.fn] IN
       /\ cells' = IF f.ncell = 0 THEN cells
                   ELSE [cells EXCEPT ![f.ncell] = [n \in Names |->
                            IF f.role[n] = "nonlocal" /\ variables[n] # NoVal
                            THEN variables[n] ELSE @[n]]]
       /\ variables' = [n \in Names |-> IF n \in DOMAIN top.saved
                                        THEN top.saved[n] ELSE variables[n]]
       /\ owners' = IF f.kind = "def"
                    THEN SubSeq(owners, 1, Len(owners) - 1) ELSE owners
    /\ frames' = SubSeq(frames, 1, Len(frames) - 1)
    /\ UNCHANGED <<program, funs, ref>>

Next ==
    \/ \E n \in Names : \E v \in Vals : Assign(n, v)
    \/ \E role \in program.shapes : eval_function_def(role) \/ eval_lambda_def(role)
    \/ \E k \in 1..Len(funs) : \E arg \in Vals : Call(k, arg)
    \/ Leave

Spec == Init /\ [][Next]_vars

-----------------------------------------------------------------------------
(* Properties *)

TypeOK ==
    /\ program \in Programs /\ Programs \subseteq Program
    /\ variables \in Env
    /\ \A i \in DOMAIN owners : owners[i] \in [Names -> 0..Len(cells)]
    /\ \A i \in DOMAIN cells : cells[i] \in Env
    /\ Len(owners) <= Len(frames)

(* What the running body reads is what Python's scoping rule says: every   *)
(* name it mentions has, in the flat map, the value it has in the          *)
(* activation the name belongs to.                                         *)
LexicalReads ==
    \A n \in Names : RoleIn(top, n) # "unused" /\ Lexical(top.act, n) # NoVal =>
        variables[n] = Lexical(top.act, n)

(* The running frame's cells hold what its variables hold: a closure that   *)
(* reads one of them later sees this frame's latest value.                 *)
CellsAreLive ==
    \A n \in Names : owner[n] # 0 /\ variables[n] # NoVal =>
        cells[owner[n]][n] = variables[n]

=============================================================================
