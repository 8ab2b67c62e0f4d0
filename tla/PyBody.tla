------------------------------- MODULE PyBody -------------------------------
(***************************************************************************)
(* Bodies of generator functions and what Python says they do: the         *)
(* reference that Generators is compared with.                             *)
(*                                                                         *)
(* A body is run from its start, never suspended: `tape' holds what its    *)
(* yields receive, in order, and a yield past the end of the tape is where *)
(* the generator is.  Running it again on a longer tape is what a correct  *)
(* suspension amounts to, without keeping any place.                       *)
(***************************************************************************)
EXTENDS Naturals, Sequences, SequencesExt, TLC

(* Statements.  Targets of loops are the only variables; what is done or    *)
(* yielded is the value of one, or a constant.                             *)
Do(l)      == [k |-> "do", label |-> l]
Yield(l)   == [k |-> "yield", label |-> l]
Raise      == [k |-> "raise"]
Reraise    == [k |-> "reraise"]
Fault      == [k |-> "fault"]      \* an operation fails; never raised again by a handler
Return     == [k |-> "return"]
Break      == [k |-> "break"]
Continue   == [k |-> "continue"]
If(c, b, o)    == [k |-> "if", cond |-> c, body |-> b, orelse |-> o]
While(id, n, b) == [k |-> "while", id |-> id, times |-> n, body |-> b]
For(t, items, b) == [k |-> "for", target |-> t, items |-> items, body |-> b]
ForIn(t, g, b)  == [k |-> "forin", target |-> t, source |-> g, body |-> b]
With(id, s, b) == [k |-> "with", id |-> id, suppress |-> s, body |-> b]
Try(b, c, h, o, f) == [k |-> "try", body |-> b, catch |-> c, handler |-> h,
                       orelse |-> o, final |-> f]
YieldFrom(g)   == [k |-> "from", source |-> g]       \* yield from g()
YieldEach(items) == [k |-> "each", items |-> items]  \* yield from a list

Targets == {"x", "y", "z"}
NoEnv   == [t \in Targets |-> "unbound"]
Bound(env, t, v) == (t :> v) @@ env
ValueOf(env, l) == IF l \in Targets THEN env[l] ELSE l

Ok == <<"ok">>
Raised(e) == <<"raise", e>>
IsYield(r) == r[1] = "yield"

-----------------------------------------------------------------------------
(* q: the rest of the tape, effects so far, values of targets, exceptions   *)
(* being handled.                                                          *)
Fresh(tape) == [tape |-> tape, log |-> << >>, env |-> NoEnv, active |-> << >>]
Note(q, e)  == [q EXCEPT !.log = Append(@, e)]
Ends(q, r)  == [q |-> q, r |-> r]

(* What a yield receives. *)
Delivered(m) == CASE m = "throw" -> Raised("E")
                  [] m = "close" -> Raised("GeneratorExit")
                  [] OTHER -> Ok

Catches(st, r) == /\ r[1] = "raise"
                  /\ st.catch = "any" \/ st.catch = r[2]

(* The condition of a while loop holds the first `times' times. *)
Holds(st, log) == Len(SelectSeq(log, LAMBDA e : e = <<"test", st.id>>)) <= st.times

RECURSIVE Py(_, _)
RECURSIVE PyBlock(_, _)
RECURSIVE PyWhile(_, _)
RECURSIVE PyFor(_, _, _)
RECURSIVE PyForIn(_, _, _)
RECURSIVE PyEach(_, _)

PyThen(h, rest) == IF h.r = Ok THEN PyBlock(h.q, rest) ELSE h
PyBlock(q, b) == IF b = << >> THEN Ends(q, Ok) ELSE PyThen(Py(q, Head(b)), Tail(b))

(* What is sent is the value of the yield. *)
Got(log, m) == IF m = "send" THEN Append(log, <<"got", "sent">>) ELSE log

PyYield(q, v) ==
    IF q.tape = << >> THEN Ends(q, <<"yield", v>>)
    ELSE Ends([q EXCEPT !.tape = Tail(@), !.log = Got(@, Head(q.tape))],
              Delivered(Head(q.tape)))

(* try: body, handler or else, finally.  A handler's exception is handled   *)
(* until it ends; finally overrides what is pending if it does not end     *)
(* normally.                                                               *)
PyHandled(h, active) == IF IsYield(h.r) THEN h ELSE [h EXCEPT !.q.active = active]
PyOverrides(f, r) == IF f.r = Ok THEN Ends(f.q, r) ELSE f

PyMiddle(b, active, st) ==
    CASE b.r = Ok -> PyBlock(b.q, st.orelse)
      [] Catches(st, b.r) ->
            PyHandled(PyBlock([b.q EXCEPT !.active = Append(@, b.r[2])], st.handler), active)
      [] OTHER -> b

PyFinally(m, st) == IF IsYield(m.r) THEN m ELSE PyOverrides(PyBlock(m.q, st.final), m.r)
PyTry(q, st) == PyFinally(PyMiddle(PyBlock(q, st.body), q.active, st), st)

(* What __exit__ leaves of how the block ended. *)
Exited(st, r) == IF st.suppress /\ r[1] = "raise" THEN Ok ELSE r

PyExit(b, st) ==
    IF IsYield(b.r) THEN b ELSE Ends(Note(b.q, <<"exit", st.id>>), Exited(st, b.r))
PyWith(q, st) == PyExit(PyBlock(Note(q, <<"enter", st.id>>), st.body), st)

(* A delegate runs in place, but its variables and its return are its own.  *)
(* It is taken not to answer a close() with a yield or a return.  Lost      *)
(* marks what the code does not give to a list or to the body: an error of  *)
(* the evaluator in a delegate that was resumed.                           *)
Lost == <<"lost">>

PyBack(b, q) ==
    LET t == [b.q EXCEPT !.env = q.env]
    IN  Ends(IF b.r = Raised("F") /\ b.q.tape # q.tape THEN Note(t, Lost) ELSE t,
             IF b.r = <<"return">> THEN Ok ELSE b.r)
PyFrom(q, g) == PyBack(PyBlock([q EXCEPT !.env = NoEnv], g), q)

(* Loops, with break and continue of their bodies. *)
PyWhileTurn(b, st) ==
    CASE b.r \in {Ok, <<"continue">>} -> PyWhile(b.q, st)
      [] b.r = <<"break">> -> Ends(b.q, Ok)
      [] OTHER -> b

PyWhile(q, st) ==
    LET t == Note(q, <<"test", st.id>>)
    IN  IF Holds(st, t.log) THEN PyWhileTurn(PyBlock(t, st.body), st) ELSE Ends(t, Ok)

PyForTurn(b, st, rest) ==
    CASE b.r \in {Ok, <<"continue">>} -> PyFor(b.q, st, rest)
      [] b.r = <<"break">> -> Ends(b.q, Ok)
      [] OTHER -> b

PyFor(q, st, items) ==
    IF items = << >> THEN Ends(q, Ok)
    ELSE PyForTurn(PyBlock([q EXCEPT !.env = Bound(@, st.target, Head(items))], st.body),
                   st, Tail(items))

(* The n-th item of a generator that is only iterated over, with what it    *)
(* does on the way from the item before.                                   *)
Pulled(g, n) == PyBlock(Fresh([i \in 1..n - 1 |-> "next"]), g)
DoneBy(g, n) == IF n = 0 THEN 0 ELSE Len(Pulled(g, n).q.log)

PyForInTurn(b, st, n) ==
    CASE b.r \in {Ok, <<"continue">>} -> PyForIn(b.q, st, n + 1)
      [] b.r = <<"break">> -> Ends(b.q, Ok)
      [] OTHER -> b

PyForItem(q, st, n, p) ==
    CASE p.r \in {Ok, <<"return">>} -> Ends(q, Ok)
      [] IsYield(p.r) ->
            PyForInTurn(PyBlock([q EXCEPT !.env = Bound(@, st.target, p.r[2])], st.body), st, n)
      [] OTHER -> Ends(q, p.r)

PyPulled(q, st, n, p) ==
    PyForItem([q EXCEPT !.log = @ \o SubSeq(p.q.log, DoneBy(st.source, n - 1) + 1, Len(p.q.log))],
              st, n, p)
PyForIn(q, st, n) == PyPulled(q, st, n, Pulled(st.source, n))

(* A list has neither send nor throw: they raise at the `yield from'.       *)
PyEach(q, items) ==
    LET m == Head(q.tape)
        t == [q EXCEPT !.tape = Tail(@)]
    IN  CASE items = << >> -> Ends(q, Ok)
          [] items # << >> /\ q.tape = << >> -> Ends(q, <<"yield", Head(items)>>)
          [] OTHER ->
               IF m = "next" THEN PyEach(t, Tail(items))
               ELSE Ends(IF m = "send" \/ Len(items) > 1 THEN Note(t, Lost) ELSE t,
                         IF m = "send" THEN Raised("AttributeError") ELSE Delivered(m))

Py(q, st) ==
    CASE st.k = "do" -> Ends(Note(q, <<"do", ValueOf(q.env, st.label)>>), Ok)
      [] st.k = "yield" -> PyYield(q, ValueOf(q.env, st.label))
      [] st.k = "raise" -> Ends(q, Raised("E"))
      [] st.k = "fault" -> Ends(q, Raised("F"))
      [] st.k = "reraise" -> Ends(q, Raised(Last(q.active)))
      [] st.k \in {"return", "break", "continue"} -> Ends(q, <<st.k>>)
      [] st.k = "if" -> PyBlock(Note(q, <<"test", "if">>), IF st.cond THEN st.body ELSE st.orelse)
      [] st.k = "while" -> PyWhile(q, st)
      [] st.k = "for" -> PyFor(q, st, st.items)
      [] st.k = "forin" -> PyForIn(q, st, 1)
      [] st.k = "with" -> PyWith(q, st)
      [] st.k = "try" -> PyTry(q, st)
      [] st.k = "from" -> PyFrom(q, st.source)
      [] st.k = "each" -> PyEach(q, st.items)

=============================================================================
