------------------------------- MODULE Limits -------------------------------
(***************************************************************************)
(* Resource limits and frame bookkeeping: state.rs (enter_call, enter_expr,*)
(* set_variable, append_print, increment_ops, track_allocation), the frame *)
(* protocols of functions/dispatch.rs and classes.rs, eval/place.rs, and   *)
(* Interpreter::execute, which starts every run on what the last one left. *)
(*                                                                         *)
(* `rust' is the evaluator's own call stack: which of its functions are in *)
(* progress.  The counters and stacks of InterpreterState are kept beside  *)
(* it by hand in the code, and by the same steps here.                     *)
(***************************************************************************)
EXTENDS Naturals, Sequences, FiniteSets

CONSTANTS
    Names,          \* variable names
    Sizes,          \* value sizes; a variable of size 0 does not exist
    Programs,       \* what programs do: the kinds of call they make, the sizes
                    \* they print, whether they use augmented assignment,
                    \* whether their host drops runs at an await, and (a bound)
                    \* how often it calls execute
    MaxDepth,       \* config.max_recursion_depth
    MaxOps,         \* config.max_operations
    MaxMemory,      \* config.max_memory_bytes
    MaxStdout,      \* config.max_stdout_bytes
    CheckEvery      \* 100: operations between checks of memory and time

ASSUME LimitsAssumption ==
    /\ IsFiniteSet(Names) /\ Sizes \subseteq Nat \ {0}
    /\ Programs \subseteq [calls : SUBSET {"def", "lambda", "method"}, prints : SUBSET Nat,
                            augmented : BOOLEAN, cancelled : BOOLEAN, runs : Nat]
    /\ {MaxDepth, MaxOps, MaxMemory, MaxStdout} \subseteq Nat
    /\ CheckEvery \in Nat \ {0}

VARIABLES
    program,    \* the kind of program being run
    phase,      \* "idle" or "running"
    failing,    \* an error is on its way out
    rust,       \* evaluator functions in progress, innermost last
    vsize,      \* state.variables, by the size of each value
    used,       \* state.memory_used_bytes
    printed,    \* length of state.print_buffer
    ops,        \* state.operations_count
    late,       \* execution_start.elapsed() > max_execution_time
    calls,      \* state.call_depth
    exprs,      \* state.expr_depth
    saved,      \* state.saved_expr_depth
    owners,     \* length of state.frame_cell_owners
    bodies,     \* length of body_source_stack and of qualname_stack
    methods,    \* length of state.method_frame_stack
    runs        \* executes so far

memory == <<vsize, used, printed>>
stacks == <<calls, exprs, saved, owners, bodies, methods>>
vars   == <<program, phase, failing, rust, memory, ops, late, stacks, runs>>

Bodies  == {"def", "lambda", "method"}                          \* calls whose body runs
Binding == {"def binds", "lambda binds", "method binds"}        \* calls that bind their arguments
Calls   == Bodies \cup Binding
top == rust[Len(rust)]
Butlast(s) == SubSeq(s, 1, Len(s) - 1)
Nesting == {"expr", "try", "handler"}
Bit(b) == IF b THEN 1 ELSE 0
Less(a, b) == IF a > b THEN a - b ELSE 0     \* saturating_sub

Init ==
    /\ program \in Programs
    /\ phase = "idle" /\ failing = FALSE /\ rust = << >>
    /\ vsize = [n \in Names |-> 0] /\ used = 0 /\ printed = 0
    /\ ops = 0 /\ late = FALSE
    /\ calls = 0 /\ exprs = 0 /\ saved = << >>
    /\ owners = 0 /\ bodies = 0 /\ methods = 0
    /\ runs = 0

-----------------------------------------------------------------------------
(* Runs *)

(* execute: counters reset, then the host's variables are stored (here at   *)
(* most one, n of size s; 0 is none) whatever their size.                  *)
Start(n, s) ==
    /\ phase = "idle" /\ runs < program.runs
    /\ failing' = FALSE /\ rust' = << >>
    /\ printed' = 0 /\ ops' = 0 /\ late' = FALSE
    /\ vsize' = IF s = 0 THEN vsize ELSE [vsize EXCEPT ![n] = s]
    /\ used' = IF s = 0 THEN used ELSE Less(used, vsize[n]) + s
    /\ runs' = runs + 1
    /\ UNCHANGED <<calls, exprs, saved, bodies, methods>>

(* Source too long, nested too deeply, or not Python. *)
RejectRun(n, s) == Start(n, s) /\ UNCHANGED <<phase, owners>>

BeginRun(n, s) == Start(n, s) /\ phase' = "running" /\ owners' = owners + 1

EndRun ==
    /\ phase = "running" /\ rust = << >>
    /\ phase' = "idle" /\ failing' = FALSE
    /\ owners' = Less(owners, 1)
    /\ UNCHANGED <<rust, memory, ops, late, calls, exprs, saved, bodies, methods, runs>>

(* The future is dropped at an await: no Rust function in progress returns. *)
Cancel ==
    /\ program.cancelled /\ phase = "running"
    /\ phase' = "idle" /\ failing' = FALSE /\ rust' = << >>
    /\ UNCHANGED <<memory, ops, late, stacks, runs>>

Tick ==
    /\ phase = "running" /\ ~late /\ late' = TRUE
    /\ UNCHANGED <<phase, failing, rust, memory, ops, stacks, runs>>

-----------------------------------------------------------------------------
(* Statements and expressions.  Each is charged one operation first.        *)

(* increment_ops says no. *)
Overrun == \/ ops + 1 >= MaxOps
           \/ (ops + 1) % CheckEvery = 0 /\ (used > MaxMemory \/ late)

(* The innermost call binds its arguments. *)
Entering == rust # << >> /\ top.kind \in Binding
Working == phase = "running" /\ ~failing /\ ~Entering

(* Mutant: the count starts again at every check of memory and time. *)
ChargedAnew == Working /\ ops' = (ops + 1) % CheckEvery /\ ~Overrun

Charged == Working /\ ops' = ops + 1 /\ ~Overrun

(* Out of operations, memory or time; or the program raises. *)
Fail ==
    /\ Working /\ ops' = ops + 1 /\ failing' = TRUE
    /\ UNCHANGED <<phase, rust, memory, late, stacks, runs>>

(* Mutant: the value replaced is not released. *)
SetVariableKeeping(n, s) ==
    /\ Charged
    /\ vsize' = [vsize EXCEPT ![n] = s]
    /\ used' = used + s
    /\ failing' = (used' > MaxMemory)
    /\ UNCHANGED <<phase, rust, printed, late, stacks, runs>>

(* state.set_variable; the value stays even when it is one too many. *)
set_variable(n, s) ==
    /\ Charged
    /\ vsize' = [vsize EXCEPT ![n] = s]
    /\ used' = Less(used, vsize[n]) + s
    /\ failing' = (used' > MaxMemory)
    /\ UNCHANGED <<phase, rust, printed, late, stacks, runs>>

delete_variable(n) ==
    /\ Charged /\ vsize[n] # 0
    /\ vsize' = [vsize EXCEPT ![n] = 0]
    /\ used' = Less(used, vsize[n])
    /\ UNCHANGED <<phase, failing, rust, printed, late, stacks, runs>>

(* A change inside a value (place.rs: size_delta, apply_mem_delta). *)
Mutate(n, s) ==
    /\ Charged /\ vsize[n] # 0 /\ vsize[n] # s
    /\ vsize' = [vsize EXCEPT ![n] = s]
    /\ used' = IF s >= vsize[n] THEN used + (s - vsize[n])
                                ELSE Less(used, vsize[n] - s)
    /\ failing' = (s >= vsize[n] /\ used' > MaxMemory)
    /\ UNCHANGED <<phase, rust, printed, late, stacks, runs>>

(* n += rhs: the size of n is read before rhs runs, and used after it.     *)
AugRead(n) ==
    /\ Charged /\ program.augmented /\ vsize[n] # 0
    /\ rust' = Append(rust, [kind |-> "aug", name |-> n, old |-> vsize[n]])
    /\ UNCHANGED <<phase, failing, memory, late, stacks, runs>>

AugWrite(s) ==
    /\ Working /\ rust # << >> /\ top.kind = "aug" /\ vsize[top.name] # 0
    /\ vsize' = [vsize EXCEPT ![top.name] = s]
    /\ used' = Less(used + s, top.old)
    /\ failing' = (s >= top.old /\ used' > MaxMemory)
    /\ rust' = Butlast(rust)
    /\ UNCHANGED <<phase, printed, ops, late, stacks, runs>>

(* rhs failed, or deleted n. *)
AugFails ==
    /\ phase = "running" /\ rust # << >> /\ top.kind = "aug"
    /\ failing \/ vsize[top.name] = 0
    /\ failing' = TRUE
    /\ rust' = Butlast(rust)
    /\ UNCHANGED <<phase, memory, ops, late, stacks, runs>>

append_print(k) ==
    /\ Charged /\ k \in program.prints
    /\ \/ /\ printed + k > MaxStdout
          /\ failing' = TRUE
          /\ UNCHANGED <<printed, used>>
       \/ /\ printed + k <= MaxStdout
          /\ printed' = printed + k
          /\ used' = used + k
          /\ failing' = (used' > MaxMemory)
    /\ UNCHANGED <<phase, rust, vsize, late, stacks, runs>>

(* A nested expression or block statement (enter_expr); a try block can     *)
(* stop an error once.                                                     *)
EnterExpr(kind) ==
    /\ Charged
    /\ \/ /\ exprs >= MaxDepth
          /\ failing' = TRUE
          /\ UNCHANGED <<rust, exprs>>
       \/ /\ exprs < MaxDepth
          /\ exprs' = exprs + 1
          /\ rust' = Append(rust, [kind |-> kind])
          /\ UNCHANGED failing
    /\ UNCHANGED <<phase, memory, late, calls, saved, owners, bodies, methods, runs>>

ExitExpr ==
    /\ phase = "running" /\ rust # << >> /\ top.kind \in Nesting
    /\ exprs' = Less(exprs, 1)
    /\ rust' = Butlast(rust)
    /\ UNCHANGED <<phase, failing, memory, ops, late, calls, saved, owners, bodies, methods, runs>>

Catch ==
    /\ phase = "running" /\ failing /\ rust # << >> /\ top.kind = "try"
    /\ failing' = FALSE
    /\ rust' = [rust EXCEPT ![Len(rust)].kind = "handler"]
    /\ UNCHANGED <<phase, memory, ops, late, stacks, runs>>

-----------------------------------------------------------------------------
(* Calls.  Each has one parameter n; what n was is put back on the way out  *)
(* (VariableCheckpoint), straight into the map.                            *)

OwnsCells  == {"def", "method", "def binds", "method binds"}
OwnsSource == {"def", "lambda"}
OwnsFrame  == {"method", "method binds"}
Binds(kind) == CASE kind = "def" -> "def binds"
                 [] kind = "lambda" -> "lambda binds"
                 [] kind = "method" -> "method binds"

(* enter_call, and the stacks pushed before the arguments are bound; the    *)
(* recursion limit refuses the call before anything is pushed.             *)
EnterCall(kind, n) ==
    /\ Charged /\ kind \in program.calls
    /\ \/ /\ calls >= MaxDepth
          /\ failing' = TRUE
          /\ UNCHANGED <<rust, calls, exprs, saved, owners, methods>>
       \/ /\ calls < MaxDepth
          /\ calls' = calls + 1
          /\ saved' = Append(saved, exprs) /\ exprs' = 0
          /\ owners' = owners + Bit(Binds(kind) \in OwnsCells)
          /\ methods' = methods + Bit(Binds(kind) \in OwnsFrame)
          /\ rust' = Append(rust, [kind |-> Binds(kind), name |-> n, prev |-> vsize[n]])
          /\ UNCHANGED failing
    /\ UNCHANGED <<phase, memory, late, bodies, runs>>

exit_call ==
    /\ calls' = Less(calls, 1)
    /\ exprs' = IF saved = << >> THEN exprs ELSE saved[Len(saved)]
    /\ saved' = IF saved = << >> THEN saved ELSE Butlast(saved)

(* Mutant: the exit after bind_params_named forgets the cells' scope.      *)
BindFailsKeepingCells ==
    /\ phase = "running" /\ Entering /\ exit_call
    /\ methods' = Less(methods, Bit(top.kind \in OwnsFrame))
    /\ rust' = Butlast(rust) /\ failing' = TRUE
    /\ UNCHANGED <<phase, memory, ops, late, owners, bodies, runs>>

(* bind_params_named fails. *)
BindFails ==
    /\ phase = "running" /\ Entering /\ exit_call
    /\ owners' = Less(owners, Bit(top.kind \in OwnsCells))
    /\ methods' = Less(methods, Bit(top.kind \in OwnsFrame))
    /\ rust' = Butlast(rust) /\ failing' = TRUE
    /\ UNCHANGED <<phase, memory, ops, late, bodies, runs>>

(* apply_function_scope fails: set_variable has counted the parameter, and  *)
(* restore puts the variable back without telling.                         *)
ScopeFails(s) ==
    /\ phase = "running" /\ Entering /\ exit_call
    /\ used' = Less(used, vsize[top.name]) + s /\ used' > MaxMemory
    /\ owners' = Less(owners, Bit(top.kind \in OwnsCells))
    /\ methods' = Less(methods, Bit(top.kind \in OwnsFrame))
    /\ rust' = Butlast(rust) /\ failing' = TRUE
    /\ UNCHANGED <<phase, vsize, printed, ops, late, bodies, runs>>

(* The parameter is set, and the body begins. *)
BeginBody(kind, s) ==
    /\ phase = "running" /\ Entering /\ top.kind = Binds(kind)
    /\ used' = Less(used, vsize[top.name]) + s /\ used' <= MaxMemory
    /\ vsize' = [vsize EXCEPT ![top.name] = s]
    /\ rust' = [rust EXCEPT ![Len(rust)].kind = kind]
    /\ bodies' = bodies + Bit(kind \in OwnsSource)
    /\ UNCHANGED <<phase, failing, printed, ops, late, calls, exprs, saved, owners, methods, runs>>

ExitCall ==
    /\ phase = "running" /\ rust # << >> /\ top.kind \in Bodies
    /\ exit_call
    /\ vsize' = [vsize EXCEPT ![top.name] = top.prev]
    /\ rust' = Butlast(rust)
    /\ owners' = Less(owners, Bit(top.kind \in OwnsCells))
    /\ bodies' = Less(bodies, Bit(top.kind \in OwnsSource))
    /\ methods' = Less(methods, Bit(top.kind \in OwnsFrame))
    /\ UNCHANGED <<phase, failing, used, printed, ops, late, runs>>

-----------------------------------------------------------------------------
Step ==
    \/ Fail \/ ExitExpr \/ Catch \/ ExitCall \/ EndRun
    \/ \E n \in Names : \E s \in Sizes :
          set_variable(n, s) \/ Mutate(n, s)
    \/ \E n \in Names : delete_variable(n) \/ AugRead(n)
    \/ \E s \in Sizes : AugWrite(s)
    \/ AugFails
    \/ \E k \in program.prints : append_print(k)
    \/ \E kind \in {"expr", "try"} : EnterExpr(kind)
    \/ \E kind \in Bodies : \E n \in Names : EnterCall(kind, n)
    \/ BindFails
    \/ \E s \in Sizes : ScopeFails(s)
    \/ \E kind \in Bodies : \E s \in Sizes : BeginBody(kind, s)

Next ==
    /\ \/ \E n \in Names : \E s \in Sizes \cup {0} : BeginRun(n, s) \/ RejectRun(n, s)
       \/ Step \/ Cancel \/ Tick
    /\ UNCHANGED program

Spec     == Init /\ [][Next]_vars
FairSpec == Spec /\ WF_vars(Step /\ UNCHANGED program)

-----------------------------------------------------------------------------
(* Properties *)

Frames ==
    [kind : Nesting] \cup [kind : {"aug"}, name : Names, old : Sizes]
    \cup [kind : Calls, name : Names, prev : Sizes \cup {0}]

TypeOK ==
    /\ program \in Programs /\ rust \in Seq(Frames) /\ saved \in Seq(0..MaxDepth)
    /\ ops \in Nat /\ late \in BOOLEAN
    /\ phase \in {"idle", "running"} /\ failing \in BOOLEAN
    /\ vsize \in [Names -> Sizes \cup {0}]
    /\ used \in Nat /\ printed \in 0..MaxStdout /\ runs \in 0..program.runs
    /\ calls \in 0..MaxDepth /\ exprs \in 0..MaxDepth
    /\ owners \in Nat /\ bodies \in Nat /\ methods \in Nat

InProgress(kinds) == {i \in DOMAIN rust : rust[i].kind \in kinds}
Count(kinds) == Cardinality(InProgress(kinds))

(* What the innermost call has open. *)
OpenHere == {i \in InProgress(Nesting) : \A c \in InProgress(Calls) : c < i}

(* The counters kept by hand say what the evaluator's own stack says, after *)
(* any mix of returns, errors and failed entries: the recursion limit       *)
(* counts calls in progress, the nesting limit what the current call has    *)
(* open, and each per-frame stack has its frames (enter_call, exit_call,    *)
(* call_user_function_inner, call_lambda_inner, call_method_inner).        *)
Balanced ==
    ~program.cancelled =>
    /\ calls = Count(Calls)
    /\ Len(saved) = calls
    /\ exprs = Cardinality(OpenHere)
    /\ owners = Count(OwnsCells) + Bit(phase = "running")
    /\ bodies = Count(OwnsSource)
    /\ methods = Count(OwnsFrame)

(* The bytes the variables hold, byte i of the value of n as <<n, i>>. *)
Bytes(sizes) == UNION {{n} \X (1..sizes[n]) : n \in Names}
StateSize == Cardinality(Bytes(vsize))

(* Calls put variables back without accounting for them, output is never    *)
(* released, and an augmented assignment uses the size its target had       *)
(* before its right-hand side ran.                                         *)
Drifting == program.calls # {} \/ program.prints # {} \/ program.augmented

(* Whatever else a program does, memory_used_bytes is the size of the       *)
(* state: across failures, limits, dropped runs and later runs              *)
(* (set_variable, delete_variable, apply_mem_delta).                       *)
AccountingExact == ~Drifting => used = StateSize

(* Every run ends: although the program can catch the error of a limit,     *)
(* it cannot go on past max_operations (increment_ops).                    *)
RunsEnd == phase = "running" ~> phase = "idle"

=============================================================================
