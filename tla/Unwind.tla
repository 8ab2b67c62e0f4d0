------------------------------- MODULE Unwind -------------------------------
(***************************************************************************)
(* Leaving blocks: eval/exceptions.rs (eval_try, try_match_handlers,       *)
(* eval_raise) and eval/control_flow.rs (loops, eval_with, eval_async_with,*)
(* exit_context_managers).                                                 *)
(*                                                                         *)
(* The evaluator is a recursive walk; its Rust stack is `blocks', one      *)
(* record per statement or call in progress, innermost last.  A body that  *)
(* ends leaves its result in `out' for the innermost block to handle.      *)
(* Programs are not fixed: at every point the body may open any block or   *)
(* end in any way the syntax allows.  Each block also records what its     *)
(* parts came to, so that its own result can be compared with Python's.    *)
(* Suspension (yield) is not in this module.                               *)
(***************************************************************************)
EXTENDS Naturals, Sequences, FiniteSets

CONSTANTS
    Types,          \* exception classes the program uses
    Other,          \* a class no clause names: limits, RuntimeError...
    Handlers,       \* what an except clause may say: a type, "any", "broken"
    MaxHandlers,    \* bound: except clauses of one try
    MaxManagers,    \* bound: items of one with
    MaxIterations,  \* config.max_while_iterations
    MaxBlocks,      \* bound: blocks opened in one run
    EnterFails,     \* with items, by position, that may fail to be entered
    ExitFails       \* may __exit__ raise: "never", "no signal", "always"

ASSUME UnwindAssumption ==
    /\ MaxBlocks \in Nat /\ MaxHandlers \in Nat
    /\ MaxManagers \in Nat /\ MaxIterations \in Nat
    /\ EnterFails \subseteq Nat
    /\ {"any", "broken"} \cap Types = {} /\ Other \notin Types
    /\ ExitFails \in {"never", "no signal", "always"}

VARIABLES
    blocks,     \* statements and calls in progress, innermost last
    out,        \* Running, or how the last body ended
    active,     \* state.active_exception_stack
    opened      \* blocks opened so far

vars == <<blocks, out, active, opened>>

-----------------------------------------------------------------------------
(* EvalResult: Ok, or an EvalError that is a signal, a Python exception or  *)
(* an interpreter error.                                                   *)
Running  == <<"running">>
Ok       == <<"ok">>
Signals  == {<<"break">>, <<"continue">>, <<"return">>}
Raised   == {"exception"} \X (Types \cup {Other})
Interp   == {"interpreter"} \X (Types \cup {Other})
Errors   == Raised \cup Interp
Outcomes == {Ok} \cup Signals \cup Errors
None     == <<"none">>

top  == blocks[Len(blocks)]
Last(s) == s[Len(s)]
Butlast(s) == SubSeq(s, 1, Len(s) - 1)

FuncBlock == [kind |-> "func"]
LoopBlock == [kind |-> "loop", phase |-> "test", iters |-> 0]
TryBlock(hs) ==
    [kind |-> "try", phase |-> "body", hs |-> hs, pending |-> None,
     body |-> None, handler |-> None, orelse |-> None]
WithBlock(n) ==
    [kind |-> "with", phase |-> "enter", items |-> n, entered |-> 0,
     body |-> None, current |-> None, exits |-> << >>]

Init ==
    /\ blocks = << FuncBlock >>
    /\ out = Running
    /\ active = << >>
    /\ opened = 0

-----------------------------------------------------------------------------
(* A body at work *)

(* A body of the program itself is being evaluated. *)
InBody == /\ out = Running
          /\ blocks # << >>
          /\ top.kind \in {"loop", "try", "with"} =>
                top.phase \in {"body", "handler", "orelse", "final"}

(* break and continue belong to a loop of the same function; an else       *)
(* clause is outside its own loop.                                         *)
InLoop == \E i \in DOMAIN blocks :
             /\ blocks[i].kind = "loop" /\ blocks[i].phase = "body"
             /\ \A j \in i..Len(blocks) : blocks[j].kind # "func"

Open ==
    /\ InBody
    /\ opened < MaxBlocks
    /\ opened' = opened + 1
    /\ \/ blocks' = Append(blocks, FuncBlock)
       \/ blocks' = Append(blocks, LoopBlock)
       \/ \E k \in 1..MaxHandlers : \E hs \in [1..k -> Handlers] :
             blocks' = Append(blocks, TryBlock(hs))
       \/ \E n \in 1..MaxManagers : blocks' = Append(blocks, WithBlock(n))
    /\ UNCHANGED <<out, active>>

(* eval_raise without an operand. *)
Reraise == IF active = << >> THEN <<"interpreter", Other>>
                             ELSE <<"exception", Last(active)>>

Finish ==
    /\ InBody
    /\ \/ \E o \in {Ok} \cup Errors : out' = o
       \/ out' = Reraise
       \/ /\ \E i \in 2..Len(blocks) : blocks[i].kind = "func"
          /\ out' = <<"return">>
       \/ /\ InLoop
          /\ \E o \in {<<"break">>, <<"continue">>} : out' = o
    /\ UNCHANGED <<blocks, active, opened>>

-----------------------------------------------------------------------------
(* Calls and loops *)

Goto(b) == blocks' = [blocks EXCEPT ![Len(blocks)] = b]

(* The block is done with result o. *)
Leave(o) ==
    /\ blocks' = Butlast(blocks)
    /\ out' = IF Len(blocks) = 1 \/ o # Ok THEN o ELSE Running

FuncReturns ==
    /\ out # Running /\ blocks # << >> /\ top.kind = "func"
    /\ Leave(IF out = <<"return">> THEN Ok ELSE out)
    /\ UNCHANGED <<active, opened>>

(* The loop condition, or the iterator's next item. *)
LoopTest ==
    /\ out = Running /\ blocks # << >> /\ top.kind = "loop" /\ top.phase = "test"
    /\ \/ /\ top.iters < MaxIterations
          /\ \/ /\ Goto([top EXCEPT !.phase = "body", !.iters = @ + 1])
                /\ UNCHANGED out
             \/ /\ Goto([top EXCEPT !.phase = "orelse"])
                /\ UNCHANGED out
             \/ \E e \in Errors : Leave(e)
       \/ /\ top.iters >= MaxIterations    \* a while fails, a for may just end
          /\ \/ Leave(<<"interpreter", Other>>)
             \/ /\ Goto([top EXCEPT !.phase = "orelse"])
                /\ UNCHANGED out
    /\ UNCHANGED <<active, opened>>

LoopBody ==
    /\ out # Running /\ blocks # << >> /\ top.kind = "loop" /\ top.phase = "body"
    /\ \/ /\ out \in {Ok, <<"continue">>}
          /\ Goto([top EXCEPT !.phase = "test"])
          /\ out' = Running
       \/ /\ out = <<"break">>
          /\ Leave(Ok)
       \/ /\ out \notin {Ok, <<"continue">>, <<"break">>}
          /\ Leave(out)
    /\ UNCHANGED <<active, opened>>

LoopElse ==
    /\ out # Running /\ blocks # << >> /\ top.kind = "loop" /\ top.phase = "orelse"
    /\ Leave(out)
    /\ UNCHANGED <<active, opened>>

-----------------------------------------------------------------------------
(* try *)

IsError(o)  == o \in Errors
InTry(phase) == out # Running /\ blocks # << >>
                /\ top.kind = "try" /\ top.phase = phase

(* matches_exception_type on interpreter_error_to_exception: an error with  *)
(* a class of its own matches by name, any other is a plain "Exception".   *)
Matches(h, o) == h = "any" \/ h = o[2]

(* try_match_handlers asks the clauses in turn; evaluating the type of a    *)
(* "broken" one fails.  0: no clause wanted it.                            *)
FirstAsked(hs, o) ==
    LET hit == {i \in DOMAIN hs : hs[i] = "broken" \/ Matches(hs[i], o)}
    IN  IF hit = {} THEN 0 ELSE CHOOSE i \in hit : \A j \in hit : i <= j

Finally(b, o) == Goto([b EXCEPT !.phase = "final", !.pending = o]) /\ out' = Running

TryBodyOk ==
    /\ InTry("body") /\ out = Ok
    /\ Goto([top EXCEPT !.phase = "orelse", !.body = Ok])
    /\ out' = Running
    /\ UNCHANGED <<active, opened>>

(* Mutant: break, continue and return leave the try at once. *)
TrySignalDirect ==
    /\ InTry("body") /\ out \in Signals
    /\ Leave(out)
    /\ UNCHANGED <<active, opened>>

(* A signal skips the handlers. *)
TrySignal ==
    /\ InTry("body") /\ out \in Signals
    /\ Finally([top EXCEPT !.body = out], out)
    /\ UNCHANGED <<active, opened>>

TryCatch ==
    /\ InTry("body") /\ IsError(out)
    /\ LET i == FirstAsked(top.hs, out)
           b == [top EXCEPT !.body = out]
       IN  \/ /\ i = 0
              /\ Finally(b, out)
              /\ UNCHANGED active
           \/ /\ i # 0 /\ top.hs[i] = "broken"   \* the ? in eval_try
              /\ \E e \in Errors : Leave(e)
              /\ UNCHANGED active
           \/ /\ i # 0 /\ top.hs[i] # "broken"
              /\ Goto([b EXCEPT !.phase = "handler"])
              /\ out' = Running
              /\ active' = Append(active, out[2])
    /\ UNCHANGED opened

(* Mutant: a handler that fails leaves its exception on the stack. *)
HandlerEndsUnpopped ==
    /\ InTry("handler")
    /\ active' = IF out = Ok THEN Butlast(active) ELSE active
    /\ Finally([top EXCEPT !.handler = out], out)
    /\ UNCHANGED opened

HandlerEnds ==
    /\ InTry("handler")
    /\ active' = Butlast(active)
    /\ Finally([top EXCEPT !.handler = out], out)
    /\ UNCHANGED opened

ElseEnds ==
    /\ InTry("orelse")
    /\ Finally([top EXCEPT !.orelse = out], out)
    /\ UNCHANGED <<active, opened>>

FinallyEnds ==
    /\ InTry("final")
    /\ Leave(IF out = Ok THEN top.pending ELSE out)
    /\ UNCHANGED <<active, opened>>

-----------------------------------------------------------------------------
(* with *)

AtWith(phase) == blocks # << >> /\ top.kind = "with" /\ top.phase = phase

(* __enter__ of the next item and its `as' target. *)
WithEnter ==
    /\ out = Running /\ AtWith("enter")
    /\ \/ /\ Goto([top EXCEPT !.entered = @ + 1,
                      !.phase = IF @ = "enter" /\ top.entered + 1 = top.items
                                THEN "body" ELSE @])
          /\ UNCHANGED out
       \/ /\ top.entered + 1 \in EnterFails
          /\ \E e \in Errors : Leave(e)
    /\ UNCHANGED <<active, opened>>

WithBody ==
    /\ out # Running /\ AtWith("body")
    /\ Goto([top EXCEPT !.phase = "exit", !.body = out,
                        !.current = IF IsError(out) THEN out ELSE None])
    /\ out' = Running
    /\ UNCHANGED <<active, opened>>

(* exit_context_managers: __exit__ of the innermost manager not exited yet  *)
(* returns false, returns true, or raises.                                 *)
WithExit ==
    /\ out = Running /\ AtWith("exit") /\ Len(top.exits) < top.entered
    /\ \E r \in {<<"false">>, <<"true">>} \cup Errors :
          /\ IsError(r) => \/ ExitFails = "always"
                           \/ ExitFails = "no signal" /\ top.body \notin Signals
          /\ Goto([top EXCEPT !.exits = Append(@, r),
                !.current = IF IsError(r) THEN r
                            ELSE IF r = <<"true">> THEN None ELSE @])
    /\ UNCHANGED <<out, active, opened>>

(* Mutant: the body's error is propagated whatever __exit__ said. *)
WithEndsBody ==
    /\ out = Running /\ AtWith("exit") /\ Len(top.exits) = top.entered
    /\ Leave(top.body)
    /\ UNCHANGED <<active, opened>>

WithEnds ==
    /\ out = Running /\ AtWith("exit") /\ Len(top.exits) = top.entered
    /\ Leave(IF top.body \in Signals THEN top.body
             ELSE IF top.current # None THEN top.current ELSE Ok)
    /\ UNCHANGED <<active, opened>>

-----------------------------------------------------------------------------
Ended == blocks = << >> /\ UNCHANGED vars

Next ==
    \/ Open \/ Finish \/ FuncReturns
    \/ LoopTest \/ LoopBody \/ LoopElse
    \/ TryBodyOk \/ TrySignal \/ TryCatch \/ HandlerEnds \/ ElseEnds \/ FinallyEnds
    \/ WithEnter \/ WithBody \/ WithExit \/ WithEnds
    \/ Ended

Spec == Init /\ [][Next]_vars

-----------------------------------------------------------------------------
(* Properties *)

FuncBlocks == [kind : {"func"}]
LoopBlocks == [kind : {"loop"}, phase : {"test", "body", "orelse"}, iters : Nat]
TryBlocks  ==
    [kind : {"try"}, phase : {"body", "handler", "orelse", "final"}, hs : Seq(Handlers),
     pending : Outcomes \cup {None}, body : Outcomes \cup {None},
     handler : Outcomes \cup {None}, orelse : Outcomes \cup {None}]
WithBlocks ==
    [kind : {"with"}, phase : {"enter", "body", "exit"}, items : Nat, entered : Nat,
     body : Outcomes \cup {None}, current : Errors \cup {None},
     exits : Seq({<<"false">>, <<"true">>} \cup Errors)]
Blocks == FuncBlocks \cup LoopBlocks \cup TryBlocks \cup WithBlocks

TypeOK ==
    /\ blocks \in Seq(Blocks) /\ active \in Seq(Types \cup {Other})
    /\ out \in {Running} \cup Outcomes
    /\ opened \in 0..MaxBlocks /\ Len(blocks) <= opened + 1

(* No signal leaves the program: break, continue and return are taken by    *)
(* their loop or call, whatever blocks they leave on the way (LoopBody's    *)
(* and the call's match on EvalError::Signal).                             *)
SignalsTaken == blocks = << >> => out \notin Signals

InHandler(i) == blocks[i].kind = "try" /\ blocks[i].phase = "handler"
Handling(n)  == {i \in 1..n : InHandler(i)}

(* A bare `raise' means the exception of the innermost handler still        *)
(* running: the active-exception stack holds one entry for each handler in  *)
(* progress, oldest first, however the blocks between were left.           *)
ActiveIsHandled ==
    /\ Len(active) = Cardinality(Handling(Len(blocks)))
    /\ \A i \in Handling(Len(blocks)) : active[Cardinality(Handling(i))] = blocks[i].body[2]

(* Leaving the innermost block of a kind. *)
Leaves(kind) == /\ blocks # << >> /\ top.kind = kind
                /\ Len(blocks') < Len(blocks)
Result == IF out' = Running THEN Ok ELSE out'

(* Once a try statement is entered its finally block runs before it is      *)
(* left, whether the body, a handler or the else clause ended normally,    *)
(* by an error or by break, continue or return (doc of eval_try).          *)
FinallyAlwaysRuns == [][Leaves("try") => top.phase = "final"]_vars

(* Python's result of a try statement from what its parts came to. *)
PythonTry(b, final) ==
    IF final # Ok THEN final
    ELSE IF b.handler # None THEN b.handler
    ELSE IF b.body # Ok THEN b.body
    ELSE b.orelse

(* What __exit__ of one manager, inside which it came to o, makes of it. *)
PythonExit(o, r) ==
    IF IsError(r) THEN r ELSE IF r = <<"true">> /\ IsError(o) THEN Ok ELSE o

(* Python's result of a with statement: n nested withs, each exited with    *)
(* what the one inside it came to.                                         *)
PythonWith(b, result) ==
    \E after \in [0..Len(b.exits) -> Outcomes] :
        /\ after[0] = b.body
        /\ \A n \in 1..Len(b.exits) : after[n] = PythonExit(after[n - 1], b.exits[n])
        /\ result = after[Len(b.exits)]

(* A try statement comes to what Python says: the finally block's own       *)
(* result if it is not normal, else the handler's if one ran, else the      *)
(* body's error or signal, else the else clause's (eval_try).  A with       *)
(* statement comes to what Python says from its body's result and what each *)
(* __exit__ returned or raised, and every manager that was entered is       *)
(* exited, once, before it is left (exit_context_managers).                *)
BlocksMeetPython ==
    [][/\ Leaves("try") /\ top.phase = "final" => Result = PythonTry(top, out)
       /\ Leaves("with") /\ top.phase = "exit" => PythonWith(top, Result)
       /\ Leaves("with") => Len(top.exits) = top.entered]_vars

=============================================================================
