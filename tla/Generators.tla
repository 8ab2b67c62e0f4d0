----------------------------- MODULE Generators -----------------------------
(***************************************************************************)
(* Suspended generators: functions/generators.rs, the Yield and YieldFrom  *)
(* arms of eval_expr, and the eager fall-back of call_user_function.       *)
(*                                                                         *)
(* The evaluator has no stack to keep: a yield unwinds it like an error,   *)
(* and every block on the way records in the generator's frame where it    *)
(* was, loops under a key, the others on a stack per kind.  A resumed body *)
(* is entered from the top and finds its way back by these records.        *)
(*                                                                         *)
(* s is [fr: the frame, env: the variables, log: effects, active:          *)
(* exceptions being handled]; a stepper returns s, what its statement came *)
(* to, and for a list of statements the index it stopped at.               *)
(*                                                                         *)
(* Sources of `for' and `yield from' are bodies that can be suspended and  *)
(* have targets of their own.                                              *)
(***************************************************************************)
EXTENDS PyBody, FiniteSets

CONSTANTS
    Bodies,     \* bodies of generator functions
    Methods,    \* what the program calls on the generator
    MaxCalls    \* bound: calls it makes

ASSUME GeneratorsAssumption ==
    /\ Methods \subseteq {"next", "send", "throw", "close"}
    /\ MaxCalls \in Nat

VARIABLES
    body,   \* of the generator function called
    gen,    \* the generator: its frame, or the values of an eager buffer
    env,    \* state.variables: the targets
    log,    \* effects of the body so far
    active, \* state.active_exception_stack
    out,    \* what the last call came to
    calls,  \* calls made
    ref     \* what Python makes of them: the tape, and whether it is done

vars == <<body, gen, env, log, active, out, calls, ref>>

-----------------------------------------------------------------------------
(* Which bodies can be suspended *)

Loops == {"for", "forin", "while"}

RECURSIVE Yields(_)
RECURSIVE loop_nest_suspendable(_)
RECURSIVE if_branch_suspendable(_)

Parts(st) ==
    CASE st.k \in Loops \cup {"with"} -> <<st.body>>
      [] st.k = "if" -> <<st.body, st.orelse>>
      [] st.k = "try" -> <<st.body, st.handler, st.orelse, st.final>>
      [] OTHER -> << >>

(* contains_yield_stmts *)
Yields(st) == \/ st.k \in {"yield", "from", "each"}
              \/ \E i \in DOMAIN Parts(st) : \E j \in DOMAIN Parts(st)[i] : Yields(Parts(st)[i][j])

AllParts(P(_), st) == \A i \in DOMAIN Parts(st) : P(Parts(st)[i])

loop_nest_suspendable(b) ==
    \A i \in DOMAIN b :
       LET st == b[i] IN
       CASE st.k = "if" -> AllParts(loop_nest_suspendable, st)
         [] st.k \in Loops -> Yields(st) => loop_nest_suspendable(st.body)
         [] st.k \in {"with", "try"} -> ~Yields(st)
         [] OTHER -> TRUE

if_branch_suspendable(b) ==
    \A i \in DOMAIN b :
       LET st == b[i] IN
       CASE st.k \in {"if", "try"} -> AllParts(if_branch_suspendable, st)
         [] st.k \in Loops -> Yields(st) => loop_nest_suspendable(st.body)
         [] st.k = "with" -> ~Yields(st)
         [] OTHER -> TRUE

top_level_suspendable(st) ==
    Yields(st) =>
       CASE st.k \in Loops -> loop_nest_suspendable(st.body)
         [] st.k \in {"if", "try", "with"} -> AllParts(if_branch_suspendable, st)
         [] OTHER -> TRUE

generator_suspendable(b) == \A i \in DOMAIN b : top_level_suspendable(b[i])

-----------------------------------------------------------------------------
(* Frames *)

NoThrow == "none"

create_generator(b) ==
    [body |-> b, locals |-> NoEnv, send_value |-> "next", started |-> FALSE, finished |-> FALSE,
     resume_at_yield |-> FALSE, pending_throw |-> NoThrow, stmt_index |-> 1,
     for_stack |-> << >>, while_resume |-> << >>, try_stack |-> << >>,
     if_stack |-> << >>, with_stack |-> << >>, delegating_to |-> << >>]

Res(s, r)  == [s |-> s, r |-> r]
Log(s, e)  == [s EXCEPT !.log = Append(@, e)]
Without(stack, P(_)) == SelectSeq(stack, LAMBDA e : ~P(e))
Position(stack, P(_)) == SelectInSeq(stack, P)

(* Mutant: the loop on top of the stack is taken for the current one. *)
upsert_for_frame_top(stack, entry) ==
    IF stack # << >> /\ Last(stack).target # "" THEN ReplaceAt(stack, Len(stack), entry)
    ELSE Append(stack, entry)

(* One slot per target, below what is left of a list being yielded from. *)
upsert_for_frame(stack, entry) ==
    LET at == Position(stack, LAMBDA e : e.target = entry.target)
        last == SelectLastInSeq(stack, LAMBDA e : e.target # "")
    IN  IF at # 0 THEN ReplaceAt(stack, at, entry) ELSE InsertAt(stack, last + 1, entry)

upsert_while(stack, id, i) ==
    LET at == Position(stack, LAMBDA e : e.id = id)
        entry == [id |-> id, index |-> i]
    IN  IF at # 0 THEN ReplaceAt(stack, at, entry) ELSE Append(stack, entry)

drop_for(s, t) == [s EXCEPT !.fr.for_stack = Without(@, LAMBDA e : e.target = t)]
drop_while(s, id) == [s EXCEPT !.fr.while_resume = Without(@, LAMBDA e : e.id = id)]

mark_generator_closed(s) ==
    [s EXCEPT !.fr.finished = TRUE, !.fr.for_stack = << >>, !.fr.try_stack = << >>,
              !.fr.with_stack = << >>, !.fr.while_resume = << >>]

-----------------------------------------------------------------------------
(* Steppers *)

(* Statements of each list that have a stepper: always, or if they yield.   *)
(* The others are evaluated at once.                                       *)
Stepped(where, st) ==
    \/ st.k \in CASE where = "top" -> Loops \cup {"try"}
                  [] where \in {"try", "with"} -> {"try"}
                  [] where = "if" -> {"try", "if"}
                  [] where = "while" -> {"if"}
                  [] where = "for" -> {}
    \/ /\ Yields(st)
       /\ st.k \in CASE where = "top" -> {"with", "if"}
                     [] where = "try" -> Loops \cup {"if"}
                     [] where = "with" -> Loops \cup {"if", "with"}
                     [] where = "if" -> Loops
                     [] where \in {"for", "while"} -> Loops \cup {"if"}

RECURSIVE dispatch_suspended(_, _)
RECURSIVE Step(_, _)
RECURSIVE StepList(_, _, _, _)
RECURSIVE ForItems(_, _, _, _, _)
RECURSIVE run_for_lazy(_, _, _, _)
RECURSIVE WhileLoop(_, _, _, _)

(* A yield that is resumed: it raises, or has its value. *)
Resumed(s, st) ==
    LET t == [s EXCEPT !.fr.resume_at_yield = FALSE, !.fr.pending_throw = NoThrow]
        value == [t EXCEPT !.log = Got(@, s.fr.send_value), !.fr.send_value = "next"]
    IN  IF s.fr.pending_throw # NoThrow THEN Res(t, Raised(s.fr.pending_throw))
        ELSE Res(IF st.k = "yield" THEN value ELSE t, Ok)

(* The first item of a delegate, s.fr the frame that delegates. *)
FromStarts(s, sub) ==
    LET back == [sub.s EXCEPT !.fr = s.fr]
    IN  IF IsYield(sub.r)
        THEN Res([back EXCEPT !.fr.delegating_to = <<sub.s.fr>>], sub.r)
        ELSE Res(back, IF sub.r = <<"stop">> THEN Ok ELSE sub.r)

EachStarts(s, items) ==
    Res(IF Len(items) = 1 THEN s
        ELSE [s EXCEPT !.fr.for_stack = Append(@, [target |-> "", items |-> Tail(items), pos |-> 1])],
        <<"yield", Head(items)>>)

Ran(s, p) == Res([s EXCEPT !.log = p.q.log, !.env = p.q.env], p.r)

(* A statement without a block, or without a yield. *)
eval_stmt(s, st) ==
    CASE st.k \in {"yield", "from", "each"} /\ s.fr.resume_at_yield -> Resumed(s, st)
      [] st.k = "from" /\ ~s.fr.resume_at_yield ->
            FromStarts(s, dispatch_suspended([s EXCEPT !.fr = create_generator(st.source)], "next"))
      [] st.k = "each" /\ ~s.fr.resume_at_yield -> EachStarts(s, st.items)
      [] OTHER ->
            Ran(s, Py([tape |-> << >>, log |-> s.log, env |-> s.env, active |-> s.active], st))

(* After the i-th statement of b came to h.  A direct yield sets            *)
(* resume_at_yield; a nested block has recorded where it was.              *)
Stepping(h, nested, b, i, where) ==
    CASE h.r = Ok ->
           StepList(IF nested /\ where = "top" THEN h.s
                    ELSE [h.s EXCEPT !.fr.resume_at_yield = FALSE], b, i + 1, where)
      [] IsYield(h.r) ->
           [s |-> IF nested THEN h.s ELSE [h.s EXCEPT !.fr.resume_at_yield = TRUE],
            r |-> h.r, i |-> i]
      [] OTHER -> [s |-> h.s, r |-> h.r, i |-> i]

(* The statements of b from i on. *)
StepList(s, b, i, where) ==
    CASE i > Len(b) -> [s |-> s, r |-> Ok, i |-> i]
      [] i <= Len(b) /\ Stepped(where, b[i]) -> Stepping(Step(s, b[i]), TRUE, b, i, where)
      [] OTHER -> Stepping(eval_stmt(s, b[i]), FALSE, b, i, where)

(* After a turn of a materialised loop. *)
ForTurn(b, st, items, pos) ==
    LET entry == [target |-> st.target, items |-> items, pos |-> pos, index |-> b.i]
        moved == [b.s EXCEPT !.fr.for_stack = [j \in DOMAIN @ |->
                    IF @[j].target = st.target THEN [@[j] EXCEPT !.pos = pos + 1, !.index = 1]
                    ELSE @[j]]]
    IN  CASE b.r \in {Ok, <<"continue">>} -> ForItems(moved, st, items, pos + 1, 1)
          [] b.r = <<"break">> -> Res(drop_for(b.s, st.target), Ok)
          [] IsYield(b.r) -> Res([b.s EXCEPT !.fr.for_stack = upsert_for_frame(@, entry)], b.r)
          [] OTHER -> Res(b.s, b.r)

(* The target is bound when the body starts. *)
ForItems(s, st, items, pos, i) ==
    LET t == IF i = 1 THEN [s EXCEPT !.env = Bound(@, st.target, items[pos])] ELSE s
    IN  IF pos > Len(items) THEN Res(drop_for(s, st.target), Ok)
        ELSE ForTurn(StepList(t, st.body, i, "for"), st, items, pos)

(* A loop over a generator, one item at a time; i = 0 asks for one. *)
LazyTurn(b, st, source) ==
    LET entry == [target |-> st.target, source |-> source, index |-> b.i]
    IN  CASE b.r \in {Ok, <<"continue">>} -> run_for_lazy(b.s, st, source, 0)
          [] b.r = <<"break">> -> Res(drop_for(b.s, st.target), Ok)
          [] IsYield(b.r) -> Res([b.s EXCEPT !.fr.for_stack = upsert_for_frame(@, entry)], b.r)
          [] OTHER -> Res(b.s, b.r)

LazyItem(p, fr, st) ==
    LET back == [p.s EXCEPT !.fr = fr]
    IN  CASE p.r = <<"stop">> -> Res(drop_for(back, st.target), Ok)
          [] IsYield(p.r) ->
               LazyTurn(StepList([back EXCEPT !.env = Bound(@, st.target, p.r[2])],
                                 st.body, 1, "for"), st, p.s.fr)
          [] OTHER -> Res(back, p.r)

run_for_lazy(s, st, source, i) ==
    IF i = 0 THEN LazyItem(dispatch_suspended([s EXCEPT !.fr = source], "next"), s.fr, st)
    ELSE LazyTurn(StepList(s, st.body, i, "for"), st, source)

run_for_suspendable(s, st) ==
    LET at == SelectLastInSeq(s.fr.for_stack, LAMBDA e : e.target = st.target)
        lazy == IF at # 0 THEN "source" \in DOMAIN s.fr.for_stack[at] ELSE st.k = "forin"
        found == CASE at # 0 -> s.fr.for_stack[at]
                   [] at = 0 /\ lazy -> [source |-> create_generator(st.source), index |-> 0]
                   [] OTHER -> [items |-> st.items, pos |-> 1, index |-> 1]
    IN  IF lazy THEN run_for_lazy(s, st, found.source, found.index)
        ELSE ForItems(s, st, found.items, found.pos, found.index)

WhileTurn(b, st) ==
    CASE b.r \in {Ok, <<"continue">>} -> WhileLoop(b.s, st, 1, FALSE)
      [] b.r = <<"break">> -> Res(drop_while(b.s, st.id), Ok)
      [] IsYield(b.r) -> Res([b.s EXCEPT !.fr.while_resume = upsert_while(@, st.id, b.i)], b.r)
      [] OTHER -> Res(b.s, b.r)

WhileLoop(s, st, i, resuming) ==
    LET t == IF resuming THEN s ELSE Log(s, <<"test", st.id>>)
    IN  IF resuming \/ Holds(st, t.log) THEN WhileTurn(StepList(t, st.body, i, "while"), st)
        ELSE Res(drop_while(t, st.id), Ok)

run_while_suspendable(s, st) ==
    LET at == SelectLastInSeq(s.fr.while_resume, LAMBDA e : e.id = st.id)
    IN  WhileLoop(s, st, IF at = 0 THEN 1 ELSE s.fr.while_resume[at].index, at # 0)

IfDone(b, rec) ==
    Res(IF IsYield(b.r) THEN [b.s EXCEPT !.fr.if_stack = Append(@, [rec EXCEPT !.index = b.i])]
        ELSE b.s, b.r)

run_if_suspendable(s, st) ==
    LET again == s.fr.if_stack # << >>
        rec == IF again THEN Last(s.fr.if_stack) ELSE [orelse |-> ~st.cond, index |-> 1]
        t == IF again THEN [s EXCEPT !.fr.if_stack = Front(@)] ELSE Log(s, <<"test", "if">>)
    IN  IfDone(StepList(t, IF rec.orelse THEN st.orelse ELSE st.body, rec.index, "if"), rec)

(* One part of a try statement, from index i. *)
PhaseDone(h, phase) ==
    Res(IF IsYield(h.r)
        THEN [h.s EXCEPT !.fr.try_stack = Append(@, [phase |-> phase, index |-> h.i])]
        ELSE h.s, h.r)

step_try_phase(s, b, i, phase) == PhaseDone(StepList(s, b, i, "try"), phase)

FinallyDone(f, pending) == Res(f.s, IF f.r = Ok THEN pending ELSE f.r)
finish_try(s, st, pending) == FinallyDone(step_try_phase(s, st.final, 1, "finally"), pending)

(* The handler ends: its exception is handled no more. *)
HandlerDone(h, st) ==
    IF IsYield(h.r) THEN h ELSE finish_try([h.s EXCEPT !.active = Front(@)], st, h.r)

enter_or_propagate(s, st, r) ==
    IF Catches(st, r)
    THEN HandlerDone(step_try_phase([s EXCEPT !.active = Append(@, r[2])],
                                    st.handler, 1, "handler"), st)
    ELSE finish_try(s, st, r)

ElseDone(h, st) == IF IsYield(h.r) THEN h ELSE finish_try(h.s, st, h.r)

BodyDone(h, st) ==
    CASE IsYield(h.r) -> h
      [] h.r = Ok -> ElseDone(step_try_phase(h.s, st.orelse, 1, "orelse"), st)
      [] OTHER -> enter_or_propagate(h.s, st, h.r)

run_try_suspendable(s, st) ==
    LET again == s.fr.try_stack # << >>
        rec == IF again THEN Last(s.fr.try_stack) ELSE [phase |-> "body", index |-> 1]
        t == IF again THEN [s EXCEPT !.fr.try_stack = Front(@)] ELSE s
        at(b) == step_try_phase(t, b, rec.index, rec.phase)
    IN  CASE rec.phase = "body" -> BodyDone(at(st.body), st)
          [] rec.phase = "handler" -> HandlerDone(at(st.handler), st)
          [] rec.phase = "orelse" -> ElseDone(at(st.orelse), st)
          [] rec.phase = "finally" -> at(st.final)

WithDone(b, st) ==
    IF IsYield(b.r) THEN Res([b.s EXCEPT !.fr.with_stack = Append(@, b.i)], b.r)
    ELSE Res(Log(b.s, <<"exit", st.id>>), Exited(st, b.r))

(* The manager is entered once, and exited when the body really ends. *)
run_with_suspendable(s, st) ==
    LET again == s.fr.with_stack # << >>
        t == IF again THEN [s EXCEPT !.fr.with_stack = Front(@)] ELSE Log(s, <<"enter", st.id>>)
    IN  WithDone(StepList(t, st.body, IF again THEN Last(s.fr.with_stack) ELSE 1, "with"), st)

Step(s, st) ==
    CASE st.k \in {"for", "forin"} -> run_for_suspendable(s, st)
      [] st.k = "while" -> run_while_suspendable(s, st)
      [] st.k = "if" -> run_if_suspendable(s, st)
      [] st.k = "try" -> run_try_suspendable(s, st)
      [] st.k = "with" -> run_with_suspendable(s, st)

-----------------------------------------------------------------------------
(* Calls on a generator *)

(* What is left of a list that is yielded from comes first. *)
Draining(fr) == fr.started /\ fr.for_stack # << >> /\ Last(fr.for_stack).target = ""

drain(s) ==
    LET top == Last(s.fr.for_stack)
        rest == IF top.pos = Len(top.items) THEN Front(s.fr.for_stack)
                ELSE ReplaceAt(s.fr.for_stack, Len(s.fr.for_stack), [top EXCEPT !.pos = @ + 1])
    IN  Res([s EXCEPT !.fr.for_stack = rest], <<"yield", top.items[top.pos]>>)

(* The variables are shared: the frame's are written over what is there,    *)
(* and read back when the body stops.                                      *)
RECURSIVE TargetsIn(_)
TargetsIn(b) == UNION {LET st == b[i] IN
                         (IF st.k \in {"for", "forin"} THEN {st.target} ELSE {})
                            \cup UNION {TargetsIn(Parts(st)[j]) : j \in DOMAIN Parts(st)}
                       : i \in DOMAIN b}

Restored(all, fr) ==
    [t \in Targets |-> IF fr.locals[t] # "unbound" THEN fr.locals[t] ELSE all[t]]
Saved(all, fr) ==
    [t \in Targets |-> IF t \in TargetsIn(fr.body) THEN all[t] ELSE fr.locals[t]]

(* The body yields, or is finished. *)
Stopped(b) ==
    LET t == [b.s EXCEPT !.fr.stmt_index = b.i, !.fr.locals = Saved(b.s.env, b.s.fr)]
    IN  IF IsYield(b.r) THEN Res(t, b.r)
        ELSE Res([t EXCEPT !.fr.finished = TRUE],
                 IF b.r \in {Ok, <<"return">>} THEN <<"stop">> ELSE b.r)

step_generator(s, m) ==
    LET e == [s EXCEPT !.fr.started = TRUE, !.fr.send_value = m, !.env = Restored(@, s.fr)]
    IN  CASE s.fr.finished -> Res(s, <<"stop">>)
          [] ~s.fr.finished /\ Draining(s.fr) -> drain(s)
          [] OTHER -> Stopped(StepList(e, s.fr.body, s.fr.stmt_index, "top"))

Live(fr) == fr.started /\ ~fr.finished /\ fr.resume_at_yield

throw_into_generator(s, e) ==
    IF Live(s.fr) THEN step_generator([s EXCEPT !.fr.pending_throw = e], "next")
    ELSE Res([s EXCEPT !.fr.finished = TRUE], Raised(e))

(* The delegate yielded, or is done and the body goes on where it was: but  *)
(* an error of the evaluator passes the body by.                           *)
Forwarded(sub, fr) ==
    IF IsYield(sub.r) \/ sub.r = Raised("F")
    THEN Res([sub.s EXCEPT !.fr = [fr EXCEPT !.delegating_to = <<sub.s.fr>>]], sub.r)
    ELSE step_generator(
            [sub.s EXCEPT !.fr = [fr EXCEPT !.delegating_to = << >>, !.resume_at_yield = TRUE,
                !.pending_throw = IF sub.r = <<"stop">> THEN @ ELSE sub.r[2]]], "next")

(* next, send or throw while the body is inside `yield from'. *)
forward_to_delegate(s, m) ==
    Forwarded(dispatch_suspended([s EXCEPT !.fr = s.fr.delegating_to[1]], m), s.fr)

(* GeneratorExit is thrown where the body is. *)
ExitThrown(t) ==
    Res(mark_generator_closed(t.s),
        CASE t.r \in {<<"stop">>, Raised("GeneratorExit")} -> Ok
          [] IsYield(t.r) -> Raised("RuntimeError")
          [] OTHER -> t.r)

CloseBody(s) ==
    IF Live(s.fr) THEN ExitThrown(throw_into_generator(s, "GeneratorExit"))
    ELSE Res(mark_generator_closed(s), Ok)

DelegateClosed(sub, fr) ==
    IF sub.r = Ok THEN CloseBody([sub.s EXCEPT !.fr = [fr EXCEPT !.delegating_to = << >>]])
    ELSE Res([sub.s EXCEPT !.fr = [fr EXCEPT !.delegating_to = <<sub.s.fr>>]], sub.r)

(* Mutant: the delegate is forgotten without being closed. *)
close_self(s) == CloseBody([s EXCEPT !.fr.delegating_to = << >>])

(* close: the delegate first. *)
close(s) ==
    IF s.fr.delegating_to = << >> THEN CloseBody(s)
    ELSE DelegateClosed(dispatch_suspended([s EXCEPT !.fr = s.fr.delegating_to[1]], "close"), s.fr)

dispatch_suspended(s, m) ==
    CASE m = "close" -> close(s)
      [] m # "close" /\ s.fr.delegating_to # << >> -> forward_to_delegate(s, m)
      [] m = "throw" /\ s.fr.delegating_to = << >> -> throw_into_generator(s, "E")
      [] OTHER -> step_generator(s, m)

-----------------------------------------------------------------------------
(* The program *)

(* The eager fall-back: the whole body runs when the function is called,   *)
(* with the evaluator's own stack.  A yield appends to the buffer on top of *)
(* yield_stack and has no value; the body's s keeps that buffer.            *)
RECURSIVE eval_body(_, _)
RECURSIVE eval_eager(_, _)
RECURSIVE run_for_body(_, _, _)
RECURSIVE eval_while(_, _)

Unbuffered == [log |-> << >>, env |-> NoEnv, active |-> << >>, buffer |-> << >>]
Push(s, values) == Res([s EXCEPT !.buffer = @ \o values], Ok)

eval_body(s, b) ==
    LET h == eval_eager(s, Head(b))
    IN  CASE b = << >> -> Res(s, Ok)
          [] b # << >> /\ h.r = Ok -> eval_body(h.s, Tail(b))
          [] OTHER -> h

run_for_body(s, st, items) ==
    LET h == eval_body([s EXCEPT !.env = Bound(@, st.target, Head(items))], st.body)
    IN  CASE items = << >> -> Res(s, Ok)
          [] items # << >> /\ h.r \in {Ok, <<"continue">>} -> run_for_body(h.s, st, Tail(items))
          [] OTHER -> Res(h.s, IF h.r = <<"break">> THEN Ok ELSE h.r)

eval_while(s, st) ==
    LET t == Log(s, <<"test", st.id>>)
        h == eval_body(t, st.body)
    IN  CASE ~Holds(st, t.log) -> Res(t, Ok)
          [] Holds(st, t.log) /\ h.r \in {Ok, <<"continue">>} -> eval_while(h.s, st)
          [] OTHER -> Res(h.s, IF h.r = <<"break">> THEN Ok ELSE h.r)

eval_with(s, st) ==
    LET h == eval_body(Log(s, <<"enter", st.id>>), st.body)
    IN  Res(Log(h.s, <<"exit", st.id>>), Exited(st, h.r))

try_match_handlers(s, st, r) ==
    LET h == eval_body([s EXCEPT !.active = Append(@, r[2])], st.handler)
    IN  Res([h.s EXCEPT !.active = Front(@)], h.r)

TryEnded(s, st) ==
    LET b == eval_body(s, st.body)
    IN  CASE b.r = Ok -> eval_body(b.s, st.orelse)
          [] Catches(st, b.r) -> try_match_handlers(b.s, st, b.r)
          [] OTHER -> b

(* Mutant: what is pending is forgotten. *)
eval_try_forgets(s, st) == eval_body(TryEnded(s, st).s, st.final)

eval_try(s, st) ==
    LET h == TryEnded(s, st)
        f == eval_body(h.s, st.final)
    IN  Res(f.s, IF f.r = Ok THEN h.r ELSE f.r)

(* A generator that is run meanwhile finds the buffer too: it never stops,  *)
(* its values go where the body's go, and a loop over it sees none.         *)
Drained(s, g) ==
    LET h == eval_body([s EXCEPT !.env = NoEnv], g)
    IN  Res([h.s EXCEPT !.env = s.env], IF h.r = <<"return">> THEN Ok ELSE h.r)

eval_eager(s, st) ==
    CASE st.k = "yield" -> Push(s, <<ValueOf(s.env, st.label)>>)
      [] st.k = "each" -> Push(s, st.items)
      [] st.k \in {"from", "forin"} -> Drained(s, st.source)
      [] st.k = "if" -> eval_body(Log(s, <<"test", "if">>), IF st.cond THEN st.body ELSE st.orelse)
      [] st.k = "for" -> run_for_body(s, st, st.items)
      [] st.k = "while" -> eval_while(s, st)
      [] st.k = "with" -> eval_with(s, st)
      [] st.k = "try" -> eval_try(s, st)
      [] OTHER -> Ran(s, Py([tape |-> << >>, log |-> s.log, env |-> s.env, active |-> s.active], st))

IsEager == "items" \in DOMAIN gen

(* The generator function is called. *)
Init ==
    /\ body \in Bodies
    /\ LET eager == eval_body(Unbuffered, body) IN
       IF generator_suspendable(body)
       THEN gen = create_generator(body) /\ log = << >> /\ out = <<"none">>
       ELSE /\ gen = [items |-> IF eager.r[1] = "raise" THEN << >> ELSE eager.s.buffer,
                      cursor |-> 0]
            /\ log = eager.s.log
            /\ out = IF eager.r[1] = "raise" THEN eager.r ELSE <<"none">>
    /\ env = NoEnv /\ active = << >> /\ calls = 0
    /\ ref = [tape |-> << >>, started |-> FALSE, done |-> FALSE, log |-> << >>,
              out |-> <<"none">>, iterated |-> TRUE, parted |-> FALSE]

(* Python: the body up to where the longer tape gets it.  `iterated': every *)
(* call was a next.  `parted': its answer to a close() was a yield, or     *)
(* something was sent or thrown to a list, and the two generators are no   *)
(* longer in the same place.                                               *)
PyCall(m) ==
    LET tape == IF ref.started THEN Append(ref.tape, m) ELSE ref.tape
        p == PyBlock(Fresh(tape), body)
        result == CASE IsYield(p.r) -> IF m = "close" THEN Raised("RuntimeError") ELSE p.r
                    [] p.r \in {Ok, <<"return">>} -> IF m = "close" THEN Ok ELSE <<"stop">>
                    [] OTHER -> IF m = "close" /\ p.r = Raised("GeneratorExit") THEN Ok ELSE p.r
        unstarted == ~ref.started /\ ~ref.done
        was == [ref EXCEPT !.iterated = @ /\ m = "next"]
    IN  CASE unstarted /\ m = "send" -> [was EXCEPT !.out = Raised("TypeError")]
          [] ref.done \/ (unstarted /\ m \in {"throw", "close"}) ->
                [was EXCEPT !.done = TRUE,
                            !.out = CASE m = "close" -> Ok
                                      [] m = "throw" -> Raised("E")
                                      [] OTHER -> <<"stop">>]
          [] OTHER ->
                [tape |-> tape, started |-> TRUE, done |-> ~IsYield(p.r),
                 log |-> p.q.log, out |-> result, iterated |-> was.iterated,
                 parted |-> \/ ref.parted
                            \/ m = "close" /\ IsYield(p.r)
                            \/ Contains(p.q.log, Lost)]

Refused(m, started) == m = "send" /\ ~started

Becomes(h) ==
    /\ gen' = h.s.fr /\ env' = h.s.env /\ log' = h.s.log /\ active' = h.s.active
    /\ out' = h.r

dispatch_generator_method(m) ==
    /\ ~IsEager
    /\ IF Refused(m, gen.started)
       THEN out' = Raised("TypeError") /\ UNCHANGED <<gen, env, log, active>>
       ELSE Becomes(dispatch_suspended([fr |-> gen, env |-> env, log |-> log, active |-> active], m))

dispatch_lazy(m) ==
    /\ IsEager
    /\ CASE m \in {"throw", "close"} ->
              /\ gen' = [gen EXCEPT !.cursor = Len(gen.items)]
              /\ out' = IF m = "throw" THEN Raised("E") ELSE Ok
         [] Refused(m, gen.cursor > 0) -> out' = Raised("TypeError") /\ UNCHANGED gen
         [] OTHER ->
              IF gen.cursor < Len(gen.items)
              THEN /\ gen' = [gen EXCEPT !.cursor = @ + 1]
                   /\ out' = <<"yield", gen.items[gen.cursor + 1]>>
              ELSE out' = <<"stop">> /\ UNCHANGED gen
    /\ UNCHANGED <<env, log, active>>

(* A call that failed left no generator to call anything on. *)
Call(m) ==
    /\ calls = 0 => out = <<"none">>
    /\ calls < MaxCalls /\ out # <<"end">>
    /\ calls' = calls + 1
    /\ dispatch_generator_method(m) \/ dispatch_lazy(m)
    /\ ref' = PyCall(m)
    /\ UNCHANGED body

(* The program ends: what is suspended is closed, what that raises is lost. *)
finalize_generators ==
    /\ ~IsEager /\ gen.started /\ ~gen.finished /\ out # <<"end">>
    /\ Becomes([close([fr |-> gen, env |-> env, log |-> log, active |-> active])
                  EXCEPT !.r = <<"end">>])
    /\ ref' = [PyCall("close") EXCEPT !.out = <<"end">>]
    /\ UNCHANGED <<body, calls>>

Next == finalize_generators \/ \E m \in Methods : Call(m)

Spec == Init /\ [][Next]_vars

-----------------------------------------------------------------------------
(* Properties *)

(* The type of every variable. *)
TypeOK ==
    /\ body \in Bodies
    /\ IF IsEager THEN gen.cursor \in 0..Len(gen.items)
       ELSE /\ gen.body = body
            /\ gen.stmt_index \in 1..Len(body) + 1
            /\ gen.pending_throw \in {NoThrow, "E", "GeneratorExit"}
            /\ gen.locals \in [Targets -> STRING]
    /\ env \in [Targets -> STRING]
    /\ calls \in 0..MaxCalls
    /\ \A i \in DOMAIN active : active[i] \in {"E", "F", "GeneratorExit"}

(* A generator that is suspended and resumed in any of its blocks does what *)
(* it would do had it kept its stack: every call comes to the same, after  *)
(* the same effects, in particular no statement, condition or __enter__    *)
(* runs twice and no handler, finally or __exit__ is skipped               *)
(* (generators.rs "resumes exactly where it left off").  A send to a       *)
(* generator closed before it started is refused, and not compared.        *)
SuspendedAgrees ==
    ~IsEager /\ ~ref.parted =>
       /\ log = ref.log
       /\ out = ref.out \/ (out = Raised("TypeError") /\ ~gen.started)

RECURSIVE LoopsOverGenerators(_)
LoopsOverGenerators(b) == \E i \in DOMAIN b :
                  \/ b[i].k = "forin"
                  \/ \E j \in DOMAIN Parts(b[i]) : LoopsOverGenerators(Parts(b[i])[j])

(* A body that cannot be suspended and iterates over no generator gives, if *)
(* it does not raise, the values it would give one at a time, and what it   *)
(* does is the same and in the same order, only earlier: at every next,     *)
(* what Python has done by then is the beginning of it, and at the end all  *)
(* of it (generators.rs "correct for finite generators").                   *)
EagerAgrees ==
    IsEager /\ ~LoopsOverGenerators(body) /\ ref.iterated /\ calls > 0 =>
       /\ out = ref.out
       /\ IsPrefix(ref.log, log) /\ (ref.done => ref.log = log)

RECURSIVE Handling(_)
Handling(fr) ==
    Len(SelectSeq(fr.try_stack, LAMBDA e : e.phase = "handler"))
      + (IF fr.delegating_to = << >> THEN 0 ELSE Handling(fr.delegating_to[1]))

(* The exceptions being handled are those of the handlers the generator is  *)
(* suspended in: every other one has been taken off the stack, however its *)
(* handler ended (cleanup_handler); and when the generator is finished, by *)
(* whichever call or by the end of the program (finalize_generators), every *)
(* context manager it entered has been exited as often.                    *)
CleanedUp ==
    ~IsEager /\ ~ref.parted =>
       /\ Len(active) = Handling(gen)
       /\ gen.finished => \A i \in DOMAIN log : log[i][1] = "enter" =>
            LET times(what) == Len(SelectSeq(log, LAMBDA e : e = <<what, log[i][2]>>))
            IN  times("enter") = times("exit")

=============================================================================
