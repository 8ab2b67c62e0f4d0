---------------------------- MODULE UnwindProofs -----------------------------
(***************************************************************************)
(* Unwind for programs of any size: blocks nested to any depth, any number  *)
(* of except clauses and context managers.                                  *)
(***************************************************************************)
EXTENDS Unwind, FiniteSetTheorems, SequenceTheorems, WellFoundedInduction, TLAPS

-----------------------------------------------------------------------------
(* Results *)

(* The ways to end are told apart. *)
LEMMA OutcomeFacts ==
    /\ Running \notin Outcomes /\ None \notin Outcomes
    /\ Ok \in Outcomes /\ Signals \subseteq Outcomes /\ Errors \subseteq Outcomes
    /\ Ok \notin Signals /\ Ok \notin Errors /\ Signals \cap Errors = {}
    /\ <<"false">> \notin Errors /\ <<"true">> \notin Errors /\ <<"true">> # <<"false">>
    /\ {<<"break">>, <<"continue">>, <<"return">>} = Signals
    /\ \A o \in Outcomes : o = Ok \/ o \in Signals \/ o \in Errors
<1>1. \A o \in Errors : o \in ({"exception"} \X (Types \cup {Other}))
                              \cup ({"interpreter"} \X (Types \cup {Other}))
  BY DEF Errors, Raised, Interp
<1>2. \A o \in Errors : Len(o) = 2
  BY <1>1
<1>3. /\ Len(<<"running">>) = 1 /\ Len(<<"none">>) = 1 /\ Len(<<"ok">>) = 1
      /\ Len(<<"false">>) = 1 /\ Len(<<"true">>) = 1
      /\ \A o \in Signals : Len(o) = 1
  BY DEF Signals
<1>4. /\ <<"running">>[1] = "running" /\ <<"none">>[1] = "none" /\ <<"ok">>[1] = "ok"
      /\ <<"true">>[1] = "true" /\ <<"false">>[1] = "false"
      /\ \A o \in Signals : o[1] \in {"break", "continue", "return"}
  BY DEF Signals
<1> QED
  BY <1>2, <1>3, <1>4 DEF Outcomes, Running, None, Ok, Signals

(* Errors carry a class. *)
LEMMA ErrorFacts ==
    /\ \A o \in Errors : o[2] \in Types \cup {Other}
    /\ \A t \in Types \cup {Other} : <<"exception", t>> \in Errors
    /\ <<"interpreter", Other>> \in Errors
BY DEF Errors, Raised, Interp

(* break, continue and return are three. *)
LEMMA SignalFacts ==
    /\ <<"break">> # <<"return">> /\ <<"continue">> # <<"return">>
    /\ <<"break">> # <<"continue">>
<1>1. <<"break">>[1] = "break" /\ <<"continue">>[1] = "continue" /\ <<"return">>[1] = "return"
  OBVIOUS
<1> QED
  BY <1>1

-----------------------------------------------------------------------------
(* The stack of blocks *)

(* A block is of the set of its kind, and so are the blocks opened. *)
LEMMA BlockFacts ==
    /\ \A b \in Blocks : /\ b.kind \in {"func", "loop", "try", "with"}
                         /\ b.kind = "loop" => b \in LoopBlocks
                         /\ b.kind = "try" => b \in TryBlocks
                         /\ b.kind = "with" => b \in WithBlocks
    /\ FuncBlock \in FuncBlocks /\ LoopBlock \in LoopBlocks
    /\ \A hs \in Seq(Handlers) : TryBlock(hs) \in TryBlocks
    /\ \A n \in Nat : WithBlock(n) \in WithBlocks
<1>1. /\ \A b \in FuncBlocks : b.kind = "func"
      /\ \A b \in LoopBlocks : b.kind = "loop"
      /\ \A b \in TryBlocks : b.kind = "try"
      /\ \A b \in WithBlocks : b.kind = "with"
  BY DEF FuncBlocks, LoopBlocks, TryBlocks, WithBlocks
<1>2. FuncBlock \in FuncBlocks /\ LoopBlock \in LoopBlocks
  BY DEF FuncBlocks, LoopBlocks, FuncBlock, LoopBlock
<1>3. \A hs \in Seq(Handlers) : TryBlock(hs) \in TryBlocks
  BY DEF TryBlocks, TryBlock
<1>4. \A n \in Nat : WithBlock(n) \in WithBlocks
  BY DEF WithBlocks, WithBlock
<1> QED
  BY <1>1, <1>2, <1>3, <1>4 DEF Blocks

(* Positions of a stack. *)
LEMMA TopFacts ==
    ASSUME NEW bs \in Seq(Blocks), bs # << >>
    PROVE  /\ Len(bs) \in Nat \ {0} /\ bs[Len(bs)] \in Blocks
           /\ \A i \in 1..Len(bs) : bs[i] \in Blocks
BY EmptySeq

(* Butlast of any sequence. *)
LEMMA ButlastFacts ==
    ASSUME NEW S, NEW s \in Seq(S), s # << >>
    PROVE  /\ Butlast(s) \in Seq(S) /\ Len(s) \in Nat \ {0} /\ Len(Butlast(s)) = Len(s) - 1
           /\ \A i \in 1..Len(s) - 1 : Butlast(s)[i] = s[i]
<1> DEFINE n == Len(s) - 1
<1>1. Len(s) \in Nat \ {0}
  BY EmptySeq
<1>2. n \in Nat /\ 1 \in Int /\ n \in Int /\ \A i \in 1..n : s[i] \in S
  BY <1>1
<1>3. Butlast(s) = SubSeq(s, 1, n)
  BY DEF Butlast
<1> HIDE DEF n
<1>4. /\ SubSeq(s, 1, n) \in Seq(S)
      /\ Len(SubSeq(s, 1, n)) = (IF 1 <= n THEN n - 1 + 1 ELSE 0)
      /\ \A i \in 1..n - 1 + 1 : SubSeq(s, 1, n)[i] = s[1 + i - 1]
  BY <1>2, SubSeqProperties
<1>5. (IF 1 <= n THEN n - 1 + 1 ELSE 0) = n
  BY <1>2
<1>6. ASSUME NEW i \in 1..n PROVE Butlast(s)[i] = s[i]
  <2>1. i \in 1..n - 1 + 1 /\ 1 + i - 1 = i
    BY <1>2
  <2> QED
    BY <1>3, <1>4, <2>1
<1>7. Len(Butlast(s)) = n
  BY <1>2, <1>3, <1>4, <1>5
<1> QED
  BY <1>1, <1>3, <1>4, <1>6, <1>7 DEF n

(* Every step but Ended and Finish opens a block, replaces the innermost or *)
(* leaves it.                                                               *)
LEMMA GotoFacts ==
    ASSUME blocks \in Seq(Blocks), blocks # << >>, NEW b \in Blocks, Goto(b)
    PROVE  /\ blocks' \in Seq(Blocks) /\ Len(blocks') = Len(blocks)
           /\ blocks'[Len(blocks)] = b
           /\ \A i \in 1..Len(blocks) - 1 : blocks'[i] = blocks[i]
BY EmptySeq DEF Goto

(* Leaving a block keeps the blocks around it. *)
LEMMA LeaveFacts ==
    ASSUME blocks \in Seq(Blocks), blocks # << >>, NEW o, Leave(o)
    PROVE  /\ blocks' \in Seq(Blocks) /\ Len(blocks') = Len(blocks) - 1
           /\ \A i \in 1..Len(blocks) - 1 : blocks'[i] = blocks[i]
BY ButlastFacts DEF Leave

(* A block just opened. *)
Opened(b) ==
    /\ b \in Blocks /\ b.kind \in {"func", "loop", "try", "with"}
    /\ b.kind = "loop" => b = LoopBlock
    /\ b.kind = "try" => \E hs \in Seq(Handlers) : b = TryBlock(hs)
    /\ b.kind = "with" => \E n \in Nat : b = WithBlock(n)

(* What the assumption says of the bounds. *)
LEMMA BoundFacts ==
    /\ MaxHandlers \in Nat /\ MaxManagers \in Nat
    /\ MaxIterations \in Nat /\ MaxBlocks \in Nat
BY UnwindAssumption

(* Opening a block puts one new block on top. *)
LEMMA OpenFacts ==
    ASSUME Open
    PROVE  \E b \in Blocks : Opened(b) /\ blocks' = Append(blocks, b)
<1>1. \A k \in 1..MaxHandlers : \A hs \in [1..k -> Handlers] : hs \in Seq(Handlers)
  BY BoundFacts
<1>2. \A n \in 1..MaxManagers : n \in Nat
  BY BoundFacts
<1>3. CASE blocks' = Append(blocks, FuncBlock)
  BY <1>3, BlockFacts DEF Blocks, FuncBlock, Opened
<1>4. CASE blocks' = Append(blocks, LoopBlock)
  BY <1>4, BlockFacts DEF Blocks, LoopBlock, Opened
<1>5. ASSUME NEW k \in 1..MaxHandlers, NEW hs \in [1..k -> Handlers],
             blocks' = Append(blocks, TryBlock(hs))
      PROVE  \E b \in Blocks : Opened(b) /\ blocks' = Append(blocks, b)
  <2>1. hs \in Seq(Handlers) /\ TryBlock(hs) \in Blocks /\ TryBlock(hs).kind = "try"
    BY <1>1, BlockFacts DEF Blocks, TryBlock
  <2> QED
    BY <1>5, <2>1 DEF Opened
<1>6. ASSUME NEW n \in 1..MaxManagers, blocks' = Append(blocks, WithBlock(n))
      PROVE  \E b \in Blocks : Opened(b) /\ blocks' = Append(blocks, b)
  <2>1. n \in Nat /\ WithBlock(n) \in Blocks /\ WithBlock(n).kind = "with"
    BY <1>2, BlockFacts DEF Blocks, WithBlock
  <2> QED
    BY <1>6, <2>1 DEF Opened
<1> QED
  BY <1>3, <1>4, <1>5, <1>6 DEF Open

-----------------------------------------------------------------------------
(* Types *)

(* Replacing or leaving the innermost block keeps the types, if what it is  *)
(* replaced by or comes to has its type.                                    *)
LEMMA GotoType ==
    ASSUME TypeOK, blocks # << >>, NEW b \in Blocks, Goto(b),
           out' \in {Running} \cup Outcomes, active' \in Seq(Types \cup {Other}),
           opened' = opened
    PROVE  TypeOK'
<1>1. blocks \in Seq(Blocks) /\ Len(blocks) <= opened + 1 /\ opened \in 0..MaxBlocks
  BY DEF TypeOK
<1>2. blocks' \in Seq(Blocks) /\ Len(blocks') = Len(blocks)
  BY <1>1, GotoFacts
<1>3. Len(blocks') <= opened' + 1 /\ opened' \in 0..MaxBlocks
  BY <1>1, <1>2
<1> QED
  BY <1>2, <1>3 DEF TypeOK

(* Types through leaving a block. *)
LEMMA LeaveType ==
    ASSUME TypeOK, blocks # << >>, NEW o \in Outcomes, Leave(o), active' = active,
           opened' = opened
    PROVE  TypeOK'
<1>1. blocks \in Seq(Blocks) /\ Len(blocks) <= opened + 1 /\ opened \in 0..MaxBlocks
      /\ active \in Seq(Types \cup {Other})
  BY DEF TypeOK
<1>2. blocks' \in Seq(Blocks) /\ Len(blocks') = Len(blocks) - 1
  BY <1>1, LeaveFacts
<1>3. Len(blocks') <= opened' + 1 /\ opened' \in 0..MaxBlocks
  BY <1>1, <1>2
<1>4. out' \in {Running} \cup Outcomes
  BY OutcomeFacts DEF Leave
<1> QED
  BY <1>1, <1>2, <1>3, <1>4 DEF TypeOK

(* What the fields of the innermost block may hold. *)
LEMMA TopType ==
    ASSUME TypeOK, blocks # << >>
    PROVE  /\ top \in Blocks /\ top = blocks[Len(blocks)] /\ Len(blocks) \in Nat \ {0}
           /\ top.kind = "loop" => /\ top \in LoopBlocks /\ top.iters \in Nat
           /\ top.kind = "try" => /\ top \in TryBlocks
                                  /\ top.phase \in {"body", "handler", "orelse", "final"}
                                  /\ top.pending \in Outcomes \cup {None}
                                  /\ top.hs \in Seq(Handlers)
           /\ top.kind = "with" => /\ top \in WithBlocks
                                   /\ top.phase \in {"enter", "body", "exit"}
                                   /\ top.entered \in Nat /\ top.items \in Nat
                                   /\ top.body \in Outcomes \cup {None}
                                   /\ top.current \in Errors \cup {None}
                                   /\ top.exits \in Seq({<<"false">>, <<"true">>} \cup Errors)
<1>1. blocks \in Seq(Blocks)
  BY DEF TypeOK
<1>2. top \in Blocks /\ top = blocks[Len(blocks)] /\ Len(blocks) \in Nat \ {0}
  BY <1>1, TopFacts DEF top
<1>3. /\ top.kind = "loop" => top \in LoopBlocks
      /\ top.kind = "try" => top \in TryBlocks
      /\ top.kind = "with" => top \in WithBlocks
  BY <1>2, BlockFacts
<1>4. top \in LoopBlocks => top.iters \in Nat
  BY DEF LoopBlocks
<1>5. top \in TryBlocks => /\ top.phase \in {"body", "handler", "orelse", "final"}
                           /\ top.pending \in Outcomes \cup {None}
                           /\ top.hs \in Seq(Handlers)
  BY DEF TryBlocks
<1>6. top \in WithBlocks => /\ top.phase \in {"enter", "body", "exit"}
                            /\ top.entered \in Nat /\ top.items \in Nat
                            /\ top.body \in Outcomes \cup {None}
                            /\ top.current \in Errors \cup {None}
                            /\ top.exits \in Seq({<<"false">>, <<"true">>} \cup Errors)
  BY DEF WithBlocks
<1> QED
  BY <1>2, <1>3, <1>4, <1>5, <1>6

(* The blocks the actions put in the place of a block of their kind. *)
LEMMA NextBlocks ==
    /\ \A b \in LoopBlocks : \A p \in {"test", "body", "orelse"} :
          [b EXCEPT !.phase = p] \in LoopBlocks
    /\ \A b \in LoopBlocks : [b EXCEPT !.phase = "body", !.iters = @ + 1] \in LoopBlocks
    /\ \A b \in TryBlocks : \A o \in Outcomes :
          /\ [b EXCEPT !.body = o] \in TryBlocks
          /\ [b EXCEPT !.handler = o] \in TryBlocks
          /\ [b EXCEPT !.orelse = o] \in TryBlocks
          /\ [b EXCEPT !.phase = "orelse", !.body = o] \in TryBlocks
          /\ [b EXCEPT !.phase = "final", !.pending = o] \in TryBlocks
          /\ [b EXCEPT !.phase = "handler"] \in TryBlocks
    /\ LoopBlocks \subseteq Blocks /\ TryBlocks \subseteq Blocks /\ WithBlocks \subseteq Blocks
<1>1. ASSUME NEW b \in LoopBlocks, NEW p \in {"test", "body", "orelse"}
      PROVE  [b EXCEPT !.phase = p] \in LoopBlocks
  BY DEF LoopBlocks
<1>2. ASSUME NEW b \in LoopBlocks
      PROVE  [b EXCEPT !.phase = "body", !.iters = @ + 1] \in LoopBlocks
  <2>1. b.iters + 1 \in Nat
    BY DEF LoopBlocks
  <2> QED
    BY <2>1 DEF LoopBlocks
<1>3. ASSUME NEW b \in TryBlocks, NEW o \in Outcomes
      PROVE  /\ [b EXCEPT !.body = o] \in TryBlocks
             /\ [b EXCEPT !.handler = o] \in TryBlocks
             /\ [b EXCEPT !.orelse = o] \in TryBlocks
             /\ [b EXCEPT !.phase = "orelse", !.body = o] \in TryBlocks
             /\ [b EXCEPT !.phase = "final", !.pending = o] \in TryBlocks
             /\ [b EXCEPT !.phase = "handler"] \in TryBlocks
  BY DEF TryBlocks
<1> QED
  BY <1>1, <1>2, <1>3 DEF Blocks

(* The evaluator starts with its types. *)
LEMMA TypeInit == Init => TypeOK
<1> SUFFICES ASSUME Init PROVE TypeOK
  OBVIOUS
<1>1. blocks \in Seq(Blocks) /\ Len(blocks) = 1
  BY BlockFacts DEF Init, Blocks
<1>2. active \in Seq(Types \cup {Other}) /\ out \in {Running} \cup Outcomes
  BY DEF Init
<1>3. opened \in 0..MaxBlocks /\ Len(blocks) <= opened + 1
  BY <1>1, BoundFacts DEF Init
<1> QED
  BY <1>1, <1>2, <1>3 DEF TypeOK

(* What a try statement in progress has recorded of its parts: in each      *)
(* phase the result of those that ran, and before the finally block the     *)
(* result Python would give it.                                             *)
TryRecord(b) ==
    /\ b.phase = "body" => b.body = None /\ b.handler = None /\ b.orelse = None
    /\ b.phase = "handler" => b.body \in Errors /\ b.handler = None /\ b.orelse = None
    /\ b.phase = "orelse" => b.body = Ok /\ b.handler = None /\ b.orelse = None
    /\ b.phase = "final" => b.pending \in Outcomes /\ b.pending = PythonTry(b, Ok)

(* The same of a with statement: what the managers exited so far have made  *)
(* of the body's result is what Python makes of it.  An __exit__ that       *)
(* raises while break, continue or return is on its way is left out.        *)
WithResult(b) ==
    IF b.body \in Signals THEN b.body ELSE IF b.current # None THEN b.current ELSE Ok

WithRecord(b) ==
    /\ b.phase # "exit" => b.exits = << >>
    /\ b.phase = "exit" => /\ b.body \in Outcomes
                           /\ ExitFails # "always" => PythonWith(b, WithResult(b))

Record(b) == /\ b.kind = "try" => TryRecord(b)
             /\ b.kind = "with" => WithRecord(b)

Recorded == \A i \in 1..Len(blocks) : Record(blocks[i])

(* The records of the innermost block. *)
LEMMA TopRecorded ==
    ASSUME TypeOK, blocks # << >>, Recorded
    PROVE  /\ top.kind = "try" => TryRecord(top)
           /\ top.kind = "with" => WithRecord(top)
BY TopType DEF Recorded, Record

(* Types through the steps of bodies, calls and loops. *)
LEMMA TypeLoops ==
    ASSUME TypeOK, Open \/ Finish \/ FuncReturns \/ LoopTest \/ LoopBody \/ LoopElse
    PROVE  TypeOK'
<1>1. blocks \in Seq(Blocks) /\ active \in Seq(Types \cup {Other}) /\ opened \in 0..MaxBlocks
      /\ Len(blocks) <= opened + 1 /\ Len(blocks) \in Nat
  BY DEF TypeOK
<1>2. out # Running => out \in Outcomes
  BY DEF TypeOK
<1>3. CASE Open
  <2>1. PICK b \in Blocks : blocks' = Append(blocks, b)
    BY <1>3, OpenFacts
  <2>2. blocks' \in Seq(Blocks) /\ Len(blocks') = Len(blocks) + 1
    BY <1>1, <2>1
  <2>3. opened' \in 0..MaxBlocks /\ Len(blocks') <= opened' + 1
    BY <1>1, <1>3, <2>2, BoundFacts DEF Open
  <2> QED
    BY <1>3, <2>2, <2>3 DEF Open, TypeOK
<1>4. CASE Finish
  <2>1. Reraise \in Errors
    <3>1. CASE active = << >>
      BY <3>1, ErrorFacts DEF Reraise
    <3>2. CASE active # << >>
      <4>1. Last(active) \in Types \cup {Other}
        BY <1>1, <3>2, EmptySeq DEF Last
      <4> QED
        BY <3>2, <4>1, ErrorFacts DEF Reraise
    <3> QED
      BY <3>1, <3>2
  <2>2. out' \in Outcomes
    BY <1>4, <2>1, OutcomeFacts DEF Finish
  <2> QED
    BY <1>4, <2>2 DEF Finish, TypeOK
<1>5. CASE FuncReturns
  BY <1>2, <1>5, LeaveType, OutcomeFacts DEF FuncReturns
<1>6. CASE LoopTest
  <2>1. top \in LoopBlocks /\ blocks # << >>
    BY <1>6, TopType DEF LoopTest
  <2>2. ASSUME NEW o \in Errors, Leave(o) PROVE TypeOK'
    BY <1>6, <2>1, <2>2, LeaveType, OutcomeFacts DEF LoopTest
  <2>3. ASSUME NEW b \in LoopBlocks, Goto(b), out' = out PROVE TypeOK'
    <3>1. b \in Blocks
      BY NextBlocks
    <3> QED
      BY <1>6, <2>1, <2>3, <3>1, GotoType DEF LoopTest, TypeOK
  <2> QED
    BY <1>6, <2>1, <2>2, <2>3, NextBlocks, ErrorFacts DEF LoopTest
<1>7. CASE LoopBody
  <2>1. top \in LoopBlocks /\ blocks # << >>
    BY <1>7, TopType DEF LoopBody
  <2>2. ASSUME NEW o \in Outcomes, Leave(o) PROVE TypeOK'
    BY <1>7, <2>1, <2>2, LeaveType DEF LoopBody
  <2>3. ASSUME Goto([top EXCEPT !.phase = "test"]), out' = Running PROVE TypeOK'
    <3>1. [top EXCEPT !.phase = "test"] \in Blocks
      BY <2>1, NextBlocks
    <3> QED
      BY <1>7, <2>1, <2>3, <3>1, GotoType DEF LoopBody, TypeOK
  <2> QED
    BY <1>2, <1>7, <2>2, <2>3, OutcomeFacts DEF LoopBody
<1>8. CASE LoopElse
  BY <1>2, <1>8, LeaveType DEF LoopElse
<1> QED
  BY <1>3, <1>4, <1>5, <1>6, <1>7, <1>8

(* Of try. *)
LEMMA TypeTry ==
    ASSUME TypeOK, Recorded,
           TryBodyOk \/ TrySignal \/ TryCatch \/ HandlerEnds \/ ElseEnds \/ FinallyEnds
    PROVE  TypeOK'
<1>1. active \in Seq(Types \cup {Other}) /\ top \in TryBlocks /\ blocks # << >>
      /\ out \in Outcomes /\ out # Running
  BY TopType DEF TypeOK, TryBodyOk, TrySignal, TryCatch, HandlerEnds, ElseEnds, FinallyEnds, InTry
<1>2. opened' = opened
  BY DEF TryBodyOk, TrySignal, TryCatch, HandlerEnds, ElseEnds, FinallyEnds
<1>3. ASSUME NEW b \in TryBlocks, Goto(b), out' = Running, active' \in Seq(Types \cup {Other})
      PROVE  TypeOK'
  BY <1>1, <1>2, <1>3, NextBlocks, GotoType
<1>4. ASSUME NEW b \in TryBlocks, NEW o \in Outcomes, Finally(b, o),
             active' \in Seq(Types \cup {Other})
      PROVE  TypeOK'
  BY <1>3, <1>4, NextBlocks DEF Finally
<1>5. CASE TryBodyOk
  BY <1>1, <1>3, <1>5, NextBlocks DEF TryBodyOk
<1>6. CASE TrySignal
  BY <1>1, <1>4, <1>6, NextBlocks DEF TrySignal
<1>7. CASE TryCatch
  <2> DEFINE i == FirstAsked(top.hs, out)
             b == [top EXCEPT !.body = out]
  <2>1. b \in TryBlocks /\ out \in Errors
    BY <1>1, <1>7, NextBlocks DEF TryCatch, IsError
  <2> HIDE DEF i, b
  <2>2. \/ Finally(b, out) /\ active' = active
        \/ (\E e \in Errors : Leave(e)) /\ active' = active
        \/ Goto([b EXCEPT !.phase = "handler"]) /\ out' = Running
           /\ active' = Append(active, out[2])
    BY <1>7 DEF TryCatch, i, b
  <2>3. CASE Finally(b, out) /\ active' = active
    BY <1>1, <1>4, <2>1, <2>3
  <2>4. CASE (\E e \in Errors : Leave(e)) /\ active' = active
    BY <1>1, <1>2, <2>4, LeaveType, OutcomeFacts
  <2>5. CASE Goto([b EXCEPT !.phase = "handler"]) /\ out' = Running
             /\ active' = Append(active, out[2])
    <3>1. active' \in Seq(Types \cup {Other})
      BY <1>1, <2>1, <2>5, ErrorFacts
    <3>2. [b EXCEPT !.phase = "handler"] \in TryBlocks
      BY <2>1, <1>1, NextBlocks
    <3> QED
      BY <1>3, <2>5, <3>1, <3>2
  <2> QED
    BY <2>2, <2>3, <2>4, <2>5
<1>8. CASE HandlerEnds
  <2>1. active' \in Seq(Types \cup {Other})
    <3>1. active' = Butlast(active)
      BY <1>8 DEF HandlerEnds
    <3>2. CASE active = << >>
      BY <3>1, <3>2, <1>1, SubSeqProperties DEF Butlast
    <3>3. CASE active # << >>
      BY <1>1, <3>1, <3>3, ButlastFacts
    <3> QED
      BY <3>2, <3>3
  <2> QED
    BY <1>1, <1>4, <1>8, <2>1, NextBlocks DEF HandlerEnds
<1>9. CASE ElseEnds
  BY <1>1, <1>4, <1>9, NextBlocks DEF ElseEnds
<1>10. CASE FinallyEnds
  <2>1. top.pending \in Outcomes
    BY <1>1, <1>10, TopRecorded DEF FinallyEnds, InTry, TryRecord
  <2> QED
    BY <1>1, <1>10, <2>1, LeaveType DEF FinallyEnds
<1> QED
  BY <1>5, <1>6, <1>7, <1>8, <1>9, <1>10

(* Of with. *)
LEMMA TypeWith ==
    ASSUME TypeOK, WithEnter \/ WithBody \/ WithExit \/ WithEnds
    PROVE  TypeOK'
<1>1. active' \in Seq(Types \cup {Other}) /\ active' = active /\ opened' = opened
      /\ blocks # << >>
  BY DEF TypeOK, WithEnter, WithBody, WithExit, WithEnds, AtWith
<1>2. top \in WithBlocks /\ top.entered \in Nat /\ top.body \in Outcomes \cup {None}
      /\ top.current \in Errors \cup {None} /\ top.phase \in {"enter", "body", "exit"}
      /\ top.exits \in Seq({<<"false">>, <<"true">>} \cup Errors)
  BY TopType DEF WithEnter, WithBody, WithExit, WithEnds, AtWith
<1>3. ASSUME NEW b \in WithBlocks, Goto(b), out' = Running
      PROVE  TypeOK'
  BY <1>1, <1>3, NextBlocks, GotoType
<1>4. CASE WithEnter
  <2>1. ASSUME NEW p \in {"enter", "body", "exit"}
        PROVE  [top EXCEPT !.entered = @ + 1, !.phase = p] \in WithBlocks
    <3>1. top.entered + 1 \in Nat
      BY <1>2
    <3> QED
      BY <1>2, <3>1 DEF WithBlocks
  <2> DEFINE p == IF top.phase = "enter" /\ top.entered + 1 = top.items THEN "body" ELSE top.phase
  <2>2. p \in {"enter", "body", "exit"}
    BY <1>2
  <2>3. \/ Goto([top EXCEPT !.entered = @ + 1, !.phase = p]) /\ out' = Running
        \/ \E e \in Errors : Leave(e)
    BY <1>4 DEF WithEnter
  <2> HIDE DEF p
  <2> QED
    BY <1>1, <1>3, <2>1, <2>2, <2>3, LeaveType, OutcomeFacts
<1>5. CASE WithBody
  <2> DEFINE c == IF IsError(out) THEN out ELSE None
  <2>1. out \in Outcomes /\ c \in Errors \cup {None}
    BY <1>5 DEF WithBody, TypeOK, IsError
  <2>2. Goto([top EXCEPT !.phase = "exit", !.body = out, !.current = c]) /\ out' = Running
    BY <1>5 DEF WithBody
  <2> HIDE DEF c
  <2>3. [top EXCEPT !.phase = "exit", !.body = out, !.current = c] \in WithBlocks
    BY <1>2, <2>1 DEF WithBlocks
  <2> QED
    BY <1>3, <2>2, <2>3
<1>6. CASE WithExit
  <2>1. PICK r \in {<<"false">>, <<"true">>} \cup Errors :
          Goto([top EXCEPT !.exits = Append(@, r),
                  !.current = IF IsError(r) THEN r ELSE IF r = <<"true">> THEN None ELSE @])
    BY <1>6 DEF WithExit
  <2> DEFINE c == IF IsError(r) THEN r ELSE IF r = <<"true">> THEN None ELSE top.current
             x == Append(top.exits, r)
  <2>2. c \in Errors \cup {None} /\ x \in Seq({<<"false">>, <<"true">>} \cup Errors)
    BY <1>2 DEF IsError
  <2>3. Goto([top EXCEPT !.exits = x, !.current = c]) /\ out' = Running
    BY <1>6, <2>1 DEF WithExit
  <2> HIDE DEF c, x
  <2>4. [top EXCEPT !.exits = x, !.current = c] \in WithBlocks
    BY <1>2, <2>2 DEF WithBlocks
  <2> QED
    BY <1>3, <2>3, <2>4
<1>7. CASE WithEnds
  <2>1. WithResult(top) \in Outcomes
    BY <1>2, OutcomeFacts DEF WithResult
  <2>2. Leave(WithResult(top))
    BY <1>7 DEF WithEnds, WithResult
  <2> QED
    BY <1>1, <2>1, <2>2, LeaveType
<1> QED
  BY <1>4, <1>5, <1>6, <1>7

(* Types through every step. *)
LEMMA TypeNext == TypeOK /\ Recorded /\ [Next]_vars => TypeOK'
<1> SUFFICES ASSUME TypeOK, Recorded, [Next]_vars PROVE TypeOK'
  OBVIOUS
<1>1. CASE UNCHANGED vars
  BY <1>1 DEF vars, TypeOK
<1>2. CASE Next
  BY <1>1, <1>2, TypeLoops, TypeTry, TypeWith DEF Next, Ended
<1> QED
  BY <1>1, <1>2

-----------------------------------------------------------------------------
(* What statements in progress record *)

(* Opening, replacing and leaving a block keep the records of the others. *)
LEMMA RecordKept ==
    ASSUME TypeOK, Recorded
    PROVE  /\ \A b \in Blocks : blocks # << >> /\ Goto(b) /\ Record(b) => Recorded'
           /\ \A o : blocks # << >> /\ Leave(o) => Recorded'
           /\ \A b \in Blocks : blocks' = Append(blocks, b) /\ Record(b) => Recorded'
<1>1. blocks \in Seq(Blocks) /\ Len(blocks) \in Nat /\ \A i \in 1..Len(blocks) : Record(blocks[i])
  BY DEF TypeOK, Recorded
<1>2. ASSUME NEW b \in Blocks, blocks # << >>, Goto(b), Record(b) PROVE Recorded'
  <2>1. Len(blocks') = Len(blocks) /\ blocks'[Len(blocks)] = b
        /\ \A i \in 1..Len(blocks) - 1 : blocks'[i] = blocks[i]
    BY <1>1, <1>2, GotoFacts
  <2>2. ASSUME NEW i \in 1..Len(blocks) PROVE Record(blocks'[i])
    <3>1. CASE i = Len(blocks)
      BY <1>2, <2>1, <3>1
    <3>2. CASE i \in 1..Len(blocks) - 1
      BY <1>1, <2>1, <3>2
    <3> QED
      BY <1>1, <3>1, <3>2
  <2> QED
    BY <2>1, <2>2 DEF Recorded
<1>3. ASSUME NEW o, blocks # << >>, Leave(o) PROVE Recorded'
  <2>1. Len(blocks') = Len(blocks) - 1 /\ \A i \in 1..Len(blocks) - 1 : blocks'[i] = blocks[i]
    BY <1>1, <1>3, LeaveFacts
  <2>2. \A i \in 1..Len(blocks) - 1 : i \in 1..Len(blocks)
    BY <1>1
  <2> QED
    BY <1>1, <2>1, <2>2 DEF Recorded
<1>4. ASSUME NEW b \in Blocks, blocks' = Append(blocks, b), Record(b) PROVE Recorded'
  <2>1. Len(blocks') = Len(blocks) + 1 /\ blocks'[Len(blocks) + 1] = b
        /\ \A i \in 1..Len(blocks) : blocks'[i] = blocks[i]
    BY <1>1, <1>4
  <2>2. ASSUME NEW i \in 1..Len(blocks) + 1 PROVE Record(blocks'[i])
    <3>1. CASE i = Len(blocks) + 1
      BY <1>4, <2>1, <3>1
    <3>2. CASE i \in 1..Len(blocks)
      BY <1>1, <2>1, <3>2
    <3> QED
      BY <1>1, <3>1, <3>2
  <2> QED
    BY <2>1, <2>2 DEF Recorded
<1> QED
  BY <1>2, <1>3, <1>4

(* Python's with, one manager at a time. *)
LEMMA WithFirst ==
    ASSUME NEW b, b.exits = << >>, b.body \in Outcomes
    PROVE  PythonWith(b, b.body)
<1> DEFINE after == [n \in 0..0 |-> b.body]
<1>1. Len(b.exits) = 0
  OBVIOUS
<1>2. after \in [0..Len(b.exits) -> Outcomes] /\ after[0] = b.body
      /\ \A n \in 1..Len(b.exits) : after[n] = PythonExit(after[n - 1], b.exits[n])
  BY <1>1
<1> QED
  BY <1>1, <1>2 DEF PythonWith

(* One more manager left is one more step of Python's rule. *)
LEMMA WithMore ==
    ASSUME NEW S, NEW b, NEW c, NEW o, NEW r \in S, b.exits \in Seq(S),
           c.exits = Append(b.exits, r), c.body = b.body,
           PythonWith(b, o), PythonExit(o, r) \in Outcomes
    PROVE  PythonWith(c, PythonExit(o, r))
<1> DEFINE k == Len(b.exits)
<1>1. k \in Nat /\ Len(c.exits) = k + 1 /\ c.exits[k + 1] = r
      /\ \A n \in 1..k : c.exits[n] = b.exits[n]
  OBVIOUS
<1>2. PICK after \in [0..k -> Outcomes] :
         /\ after[0] = b.body /\ o = after[k]
         /\ \A n \in 1..k : after[n] = PythonExit(after[n - 1], b.exits[n])
  BY DEF PythonWith
<1> HIDE DEF k
<1> DEFINE then == [n \in 0..k + 1 |-> IF n = k + 1 THEN PythonExit(o, r) ELSE after[n]]
<1>3. then \in [0..k + 1 -> Outcomes]
  BY <1>1, <1>2
<1>4. then[0] = c.body /\ then[k] = o /\ then[k + 1] = PythonExit(o, r)
  BY <1>1, <1>2
<1>5. ASSUME NEW n \in 1..k + 1 PROVE then[n] = PythonExit(then[n - 1], c.exits[n])
  <2>1. CASE n = k + 1
    BY <1>1, <1>4, <2>1
  <2>2. CASE n \in 1..k
    <3>1. then[n] = after[n] /\ then[n - 1] = after[n - 1]
      BY <1>1, <2>2
    <3> QED
      BY <1>1, <1>2, <2>2, <3>1
  <2> QED
    BY <1>1, <2>1, <2>2
<1> HIDE DEF then
<1> QED
  BY <1>1, <1>3, <1>4, <1>5 DEF PythonWith

(* exit_context_managers does with its `current' what Python's nesting does. *)
LEMMA ExitStep ==
    ASSUME NEW b \in WithBlocks, b.phase = "exit", WithRecord(b),
           NEW r \in {<<"false">>, <<"true">>} \cup Errors,
           IsError(r) => \/ ExitFails = "always"
                         \/ ExitFails = "no signal" /\ b.body \notin Signals,
           NEW c \in WithBlocks, c.phase = "exit", c.body = b.body,
           c.exits = Append(b.exits, r),
           c.current = IF IsError(r) THEN r ELSE IF r = <<"true">> THEN None ELSE b.current
    PROVE  WithRecord(c)
<1>1. b.body \in Outcomes /\ b.current \in Errors \cup {None}
      /\ b.exits \in Seq({<<"false">>, <<"true">>} \cup Errors)
  BY DEF WithRecord, WithBlocks
<1>2. ASSUME ExitFails # "always" PROVE PythonWith(c, WithResult(c))
  <2>1. PythonWith(b, WithResult(b))
    BY <1>2 DEF WithRecord
  <2>2. WithResult(b) \in Outcomes /\ WithResult(c) \in Outcomes
    BY <1>1, OutcomeFacts DEF WithResult, IsError
  <2>3. WithResult(c) = PythonExit(WithResult(b), r)
    <3>1. CASE b.body \in Signals
      <4>1. WithResult(b) = b.body /\ WithResult(c) = b.body /\ ~IsError(b.body)
        BY <3>1, OutcomeFacts DEF WithResult, IsError
      <4>2. ~IsError(r)
        BY <1>2, <3>1
      <4> QED
        BY <4>1, <4>2 DEF PythonExit
    <3>2. CASE b.body \notin Signals
      BY <1>1, <3>2, OutcomeFacts DEF WithResult, PythonExit, IsError
    <3> QED
      BY <3>1, <3>2
  <2> QED
    BY <1>1, <2>1, <2>2, <2>3, WithMore
<1> QED
  BY <1>1, <1>2 DEF WithRecord

(* New blocks have nothing to record yet. *)
LEMMA OpenedRecord == ASSUME NEW b, Opened(b) PROVE Record(b)
<1>1. CASE b.kind \notin {"try", "with"}
  BY <1>1 DEF Record
<1>2. CASE b.kind = "try"
  BY <1>2 DEF Record, Opened, TryBlock, TryRecord
<1>3. CASE b.kind = "with"
  BY <1>3 DEF Record, Opened, WithBlock, WithRecord
<1> QED
  BY <1>1, <1>2, <1>3

(* The records of blocks stay true through every step. *)
LEMMA RecordNext == TypeOK /\ Recorded /\ [Next]_vars => Recorded'
<1> SUFFICES ASSUME TypeOK, Recorded, [Next]_vars PROVE Recorded'
  OBVIOUS
<1>1. ASSUME NEW b \in Blocks, blocks # << >>, Goto(b), Record(b) PROVE Recorded'
  BY <1>1, RecordKept
<1>2. ASSUME NEW o, blocks # << >>, Leave(o) PROVE Recorded'
  BY <1>2, RecordKept
<1>3. ASSUME blocks' = blocks PROVE Recorded'
  BY <1>3 DEF Recorded
<1>4. CASE UNCHANGED vars \/ Finish \/ Ended
  BY <1>3, <1>4 DEF vars, Finish, Ended
<1>5. CASE Open
  BY <1>5, OpenFacts, OpenedRecord, RecordKept
<1>6. CASE FuncReturns \/ LoopElse \/ FinallyEnds \/ WithEnds
  BY <1>2, <1>6 DEF FuncReturns, LoopElse, FinallyEnds, WithEnds, InTry, AtWith
<1>7. CASE LoopTest \/ LoopBody
  <2>1. blocks # << >> /\ top \in LoopBlocks
    BY <1>7, TopType DEF LoopTest, LoopBody
  <2>2. ASSUME NEW b \in LoopBlocks, Goto(b) PROVE Recorded'
    <3>1. b \in Blocks /\ b.kind = "loop"
      BY NextBlocks DEF LoopBlocks
    <3> QED
      BY <1>1, <2>1, <2>2, <3>1 DEF Record
  <2>3. \A p \in {"test", "body", "orelse"} : [top EXCEPT !.phase = p] \in LoopBlocks
        /\ [top EXCEPT !.phase = "body", !.iters = @ + 1] \in LoopBlocks
    BY <2>1, NextBlocks
  <2>4. CASE LoopTest
    BY <1>2, <2>1, <2>2, <2>3, <2>4 DEF LoopTest
  <2>5. CASE LoopBody
    BY <1>2, <2>1, <2>2, <2>3, <2>5 DEF LoopBody
  <2> QED
    BY <1>7, <2>4, <2>5
<1>8. CASE TryBodyOk \/ TrySignal \/ TryCatch \/ HandlerEnds \/ ElseEnds
  <2>1. blocks # << >> /\ top \in TryBlocks /\ TryRecord(top) /\ out \in Outcomes
    BY <1>8, TopType, TopRecorded
       DEF TryBodyOk, TrySignal, TryCatch, HandlerEnds, ElseEnds, InTry, TypeOK
  <2>2. ASSUME NEW b \in TryBlocks, Goto(b), TryRecord(b) PROVE Recorded'
    <3>1. b \in Blocks /\ b.kind = "try"
      BY NextBlocks DEF TryBlocks
    <3> QED
      BY <1>1, <2>1, <2>2, <3>1 DEF Record
  <2>3. ASSUME NEW b \in TryBlocks, NEW o \in Outcomes, Finally(b, o), o = PythonTry(b, Ok)
        PROVE  Recorded'
    <3>1. [b EXCEPT !.phase = "final", !.pending = o] \in TryBlocks
      BY NextBlocks
    <3>2. TryRecord([b EXCEPT !.phase = "final", !.pending = o])
      BY <2>3 DEF TryRecord, PythonTry, TryBlocks
    <3> QED
      BY <2>2, <2>3, <3>1, <3>2 DEF Finally
  <2>4. CASE TryBodyOk
    <3>1. [top EXCEPT !.phase = "orelse", !.body = Ok] \in TryBlocks
      BY <2>1, NextBlocks, OutcomeFacts
    <3>2. TryRecord([top EXCEPT !.phase = "orelse", !.body = Ok])
      BY <2>1, <2>4 DEF TryRecord, TryBlocks, TryBodyOk, InTry
    <3> QED
      BY <2>2, <2>4, <3>1, <3>2 DEF TryBodyOk
  <2>5. ASSUME top.phase = "body", out # Ok
        PROVE  /\ [top EXCEPT !.body = out] \in TryBlocks
               /\ out = PythonTry([top EXCEPT !.body = out], Ok)
    <3>1. [top EXCEPT !.body = out] \in TryBlocks
      BY <2>1, NextBlocks
    <3>2. top.handler = None
      BY <2>1, <2>5 DEF TryRecord
    <3> QED
      BY <2>1, <2>5, <3>1, <3>2 DEF PythonTry, TryBlocks
  <2>6. CASE TrySignal
    BY <2>1, <2>3, <2>5, <2>6, OutcomeFacts DEF TrySignal, InTry
  <2>7. CASE TryCatch
    <3> DEFINE i == FirstAsked(top.hs, out)
               b == [top EXCEPT !.body = out]
    <3>1. out \in Errors /\ out # Ok /\ top.phase = "body"
      BY <2>7, OutcomeFacts DEF TryCatch, IsError, InTry
    <3>2. b \in TryBlocks /\ out = PythonTry(b, Ok)
      BY <2>5, <3>1
    <3>3. TryRecord([b EXCEPT !.phase = "handler"]) /\ [b EXCEPT !.phase = "handler"] \in TryBlocks
      BY <2>1, <3>1 DEF TryRecord, TryBlocks
    <3> HIDE DEF i, b
    <3>4. \/ Finally(b, out)
          \/ \E e \in Errors : Leave(e)
          \/ Goto([b EXCEPT !.phase = "handler"])
      BY <2>7 DEF TryCatch, i, b
    <3> QED
      BY <1>2, <2>1, <2>2, <2>3, <3>2, <3>3, <3>4
  <2>8. CASE HandlerEnds
    <3>1. [top EXCEPT !.handler = out] \in TryBlocks
      BY <2>1, NextBlocks
    <3>2. out = PythonTry([top EXCEPT !.handler = out], Ok)
      BY <2>1, OutcomeFacts DEF PythonTry, TryBlocks
    <3> QED
      BY <2>1, <2>3, <2>8, <3>1, <3>2 DEF HandlerEnds
  <2>9. CASE ElseEnds
    <3>1. [top EXCEPT !.orelse = out] \in TryBlocks
      BY <2>1, NextBlocks
    <3>2. top.handler = None /\ top.body = Ok
      BY <2>1, <2>9 DEF TryRecord, ElseEnds, InTry
    <3>3. out = PythonTry([top EXCEPT !.orelse = out], Ok)
      BY <2>1, <3>2 DEF PythonTry, TryBlocks
    <3> QED
      BY <2>1, <2>3, <2>9, <3>1, <3>3 DEF ElseEnds
  <2> QED
    BY <1>8, <2>4, <2>6, <2>7, <2>8, <2>9
<1>9. CASE WithEnter \/ WithBody \/ WithExit
  <2>1. blocks # << >> /\ top \in WithBlocks /\ WithRecord(top)
    BY <1>9, TopType, TopRecorded DEF WithEnter, WithBody, WithExit, AtWith
  <2>2. ASSUME NEW b \in WithBlocks, Goto(b), WithRecord(b) PROVE Recorded'
    <3>1. b \in Blocks /\ b.kind = "with"
      BY NextBlocks DEF WithBlocks
    <3> QED
      BY <1>1, <2>1, <2>2, <3>1 DEF Record
  <2>3. CASE WithEnter
    <3> DEFINE p == IF top.phase = "enter" /\ top.entered + 1 = top.items
                    THEN "body" ELSE top.phase
               b == [top EXCEPT !.entered = @ + 1, !.phase = p]
    <3>1. p \in {"enter", "body"} /\ top.phase = "enter" /\ top.entered + 1 \in Nat
      BY <2>1, <2>3 DEF WithEnter, AtWith, WithBlocks
    <3>2. Goto(b) \/ \E e \in Errors : Leave(e)
      BY <2>3 DEF WithEnter
    <3>3. top.exits = << >>
      BY <2>1, <3>1 DEF WithRecord
    <3> HIDE DEF p
    <3>4. b \in WithBlocks /\ WithRecord(b)
      BY <2>1, <3>1, <3>3 DEF WithRecord, WithBlocks
    <3> QED
      BY <1>2, <2>1, <2>2, <3>2, <3>4
  <2>4. CASE WithBody
    <3> DEFINE c == IF IsError(out) THEN out ELSE None
               b == [top EXCEPT !.phase = "exit", !.body = out, !.current = c]
    <3>1. out \in Outcomes /\ c \in Errors \cup {None}
      BY <2>4 DEF WithBody, TypeOK, IsError
    <3>2. Goto(b)
      BY <2>4 DEF WithBody
    <3>3. top.exits = << >>
      BY <2>1, <2>4 DEF WithRecord, WithBody, AtWith
    <3> HIDE DEF c
    <3>4. b \in WithBlocks /\ b.body = out /\ b.current = c /\ b.exits = << >> /\ b.phase = "exit"
      BY <2>1, <3>1, <3>3 DEF WithBlocks
    <3> HIDE DEF b
    <3>5. WithResult(b) = b.body
      BY <3>1, <3>4, OutcomeFacts DEF WithResult, c, IsError
    <3>6. PythonWith(b, b.body)
      BY <3>1, <3>4, WithFirst
    <3>7. WithRecord(b)
      BY <3>1, <3>4, <3>5, <3>6 DEF WithRecord
    <3> QED
      BY <2>2, <3>2, <3>4, <3>7
  <2>5. CASE WithExit
    <3>1. PICK r \in {<<"false">>, <<"true">>} \cup Errors :
            /\ IsError(r) => \/ ExitFails = "always"
                             \/ ExitFails = "no signal" /\ top.body \notin Signals
            /\ Goto([top EXCEPT !.exits = Append(@, r),
                  !.current = IF IsError(r) THEN r ELSE IF r = <<"true">> THEN None ELSE @])
      BY <2>5 DEF WithExit
    <3> DEFINE c == IF IsError(r) THEN r ELSE IF r = <<"true">> THEN None ELSE top.current
               x == Append(top.exits, r)
               b == [top EXCEPT !.exits = x, !.current = c]
    <3>2. c \in Errors \cup {None} /\ x \in Seq({<<"false">>, <<"true">>} \cup Errors)
      BY <2>1 DEF IsError, WithBlocks
    <3>3. Goto(b) /\ top.phase = "exit"
      BY <2>5, <3>1 DEF WithExit, AtWith
    <3> HIDE DEF c, x
    <3>4. b \in WithBlocks /\ b.body = top.body /\ b.current = c /\ b.exits = x /\ b.phase = "exit"
      BY <2>1, <3>2, <3>3 DEF WithBlocks
    <3> HIDE DEF b
    <3>5. WithRecord(b)
      BY <2>1, <3>1, <3>3, <3>4, ExitStep DEF c, x
    <3> QED
      BY <2>2, <3>3, <3>4, <3>5
  <2> QED
    BY <1>9, <2>3, <2>4, <2>5
<1> QED
  BY <1>4, <1>5, <1>6, <1>7, <1>8, <1>9 DEF Next

(* There is nothing to record at the start. *)
LEMMA RecordInit == Init => Recorded
BY DEF Init, Recorded, Record, FuncBlock

(* Blocks, results and the active-exception stack keep their types. *)
THEOREM TypeCorrect == Spec => [](TypeOK /\ Recorded)
<1>1. Init => TypeOK /\ Recorded
  BY TypeInit, RecordInit
<1>2. TypeOK /\ Recorded /\ [Next]_vars => TypeOK' /\ Recorded'
  BY TypeNext, RecordNext
<1> QED
  BY <1>1, <1>2, PTL DEF Spec

-----------------------------------------------------------------------------
(* How blocks are left *)

(* A set of clauses has a first one. *)
LEMMA Least ==
    ASSUME NEW T, T \subseteq Nat, T # {}
    PROVE  \E x \in T : \A y \in T : x <= y
<1>1. PICK x \in T : \A y \in T : ~ (<<y, x>> \in OpToRel(<, Nat))
  BY WFMin, NatLessThanWellFounded, Zenon
<1>2. ASSUME NEW y \in T PROVE x <= y
  <2>1. y \in Nat /\ x \in Nat
    OBVIOUS
  <2>2. y < x => <<y, x>> \in OpToRel(<, Nat)
    BY <2>1 DEF OpToRel
  <2>3. ~ (y < x)
    BY <1>1, <2>2, Zenon
  <2> QED
    BY <2>1, <2>3
<1> QED
  BY <1>2

(* try_match_handlers finds a clause of the statement or none. *)
LEMMA FirstAskedFacts ==
    ASSUME NEW hs \in Seq(Handlers), NEW o
    PROVE  FirstAsked(hs, o) # 0 => FirstAsked(hs, o) \in 1..Len(hs)
<1> DEFINE hit == {i \in DOMAIN hs : hs[i] = "broken" \/ Matches(hs[i], o)}
<1>1. hit \subseteq 1..Len(hs) /\ hit \subseteq Nat
  OBVIOUS
<1>2. FirstAsked(hs, o) = IF hit = {} THEN 0 ELSE CHOOSE i \in hit : \A j \in hit : i <= j
  BY DEF FirstAsked
<1> HIDE DEF hit
<1>3. ASSUME hit # {} PROVE (CHOOSE i \in hit : \A j \in hit : i <= j) \in hit
  <2>1. \E i \in hit : \A j \in hit : i <= j
    BY <1>1, <1>3, Least
  <2> QED
    BY <2>1
<1> QED
  BY <1>1, <1>2, <1>3

(* The steps that leave a try statement or a with statement. *)
LEMMA LeavingSteps ==
    ASSUME TypeOK, [Next]_vars, blocks # << >>, Len(blocks') < Len(blocks)
    PROVE  /\ top.kind = "try" =>
                 \/ FinallyEnds
                 \/ InTry("body") /\ IsError(out) /\ FirstAsked(top.hs, out) # 0
                    /\ top.hs[FirstAsked(top.hs, out)] = "broken"
           /\ top.kind = "with" =>
                 \/ WithEnds
                 \/ AtWith("enter") /\ top.entered + 1 \in EnterFails
                    /\ \E e \in Errors : Leave(e)
<1>1. blocks \in Seq(Blocks) /\ Len(blocks) \in Nat
  BY DEF TypeOK
<1>2. blocks' # blocks
  OBVIOUS
<1>3. ~UNCHANGED vars /\ ~Finish /\ ~Ended
  BY <1>2 DEF vars, Finish, Ended
<1>4. ~Open
  BY <1>1, OpenFacts
<1>5. \A b : ~Goto(b)
  <2> SUFFICES ASSUME NEW b, Goto(b) PROVE FALSE
    OBVIOUS
  <2>1. Len(blocks') = Len(blocks)
    BY <1>1 DEF Goto
  <2> QED
    BY <1>1, <2>1
<1>6. \A b, o : ~Finally(b, o)
  BY <1>5 DEF Finally
<1>7. ~TryBodyOk /\ ~TrySignal /\ ~HandlerEnds /\ ~ElseEnds /\ ~WithBody
  BY <1>5, <1>6, Zenon DEF TryBodyOk, TrySignal, HandlerEnds, ElseEnds, WithBody
<1>8. ~WithExit
  BY <1>5, Zenon DEF WithExit
<1>9. CASE top.kind = "try"
  <2>1. ~FuncReturns /\ ~LoopTest /\ ~LoopBody /\ ~LoopElse /\ ~WithEnter /\ ~WithEnds
    BY <1>9 DEF FuncReturns, LoopTest, LoopBody, LoopElse, WithEnter, WithEnds, AtWith
  <2>2. TryCatch \/ FinallyEnds
    BY <1>3, <1>4, <1>7, <1>8, <2>1, Zenon DEF Next
  <2>3. TryCatch => /\ InTry("body") /\ IsError(out) /\ FirstAsked(top.hs, out) # 0
                    /\ top.hs[FirstAsked(top.hs, out)] = "broken"
    BY <1>5, <1>6, Zenon DEF TryCatch
  <2> QED
    BY <1>9, <2>2, <2>3
<1>10. CASE top.kind = "with"
  <2>1. ~FuncReturns /\ ~LoopTest /\ ~LoopBody /\ ~LoopElse /\ ~TryCatch /\ ~FinallyEnds
    BY <1>10 DEF FuncReturns, LoopTest, LoopBody, LoopElse, TryCatch, FinallyEnds, InTry
  <2>2. WithEnter \/ WithEnds
    BY <1>3, <1>4, <1>7, <1>8, <2>1, Zenon DEF Next
  <2>3. WithEnter => /\ AtWith("enter") /\ top.entered + 1 \in EnterFails
                     /\ \E e \in Errors : Leave(e)
    BY <1>5, Zenon DEF WithEnter
  <2> QED
    BY <1>10, <2>2, <2>3
<1> QED
  BY <1>9, <1>10

(* The result of a block that is left. *)
LEMMA LeaveResult ==
    ASSUME NEW o \in Outcomes, Leave(o)
    PROVE  Result = o
BY OutcomeFacts DEF Leave, Result

(* If the type expression of every except clause can be evaluated, a try    *)
(* statement is never left without its finally block having run, whatever   *)
(* its parts did and however deep it is nested (eval_try).                  *)
THEOREM FinallyRuns ==
    ASSUME "broken" \notin Handlers
    PROVE  Spec => FinallyAlwaysRuns
<1>1. ASSUME TypeOK, [Next]_vars, Leaves("try") PROVE top.phase = "final"
  <2>1. blocks # << >> /\ Len(blocks') < Len(blocks) /\ top.kind = "try"
    BY <1>1 DEF Leaves
  <2>2. top.hs \in Seq(Handlers)
    BY <1>1, <2>1, TopType
  <2>3. FirstAsked(top.hs, out) # 0 => top.hs[FirstAsked(top.hs, out)] # "broken"
    BY <2>2, FirstAskedFacts
  <2>4. FinallyEnds
    BY <1>1, <2>1, <2>3, LeavingSteps
  <2> QED
    BY <2>4 DEF FinallyEnds, InTry
<1>2. TypeOK /\ [Next]_vars => [Leaves("try") => top.phase = "final"]_vars
  BY <1>1
<1> QED
  BY <1>2, TypeCorrect, PTL DEF Spec, FinallyAlwaysRuns

(* If only the first item of a with statement can fail to be entered and    *)
(* no __exit__ raises while a signal is on its way, every try and every     *)
(* with statement comes to what Python says, for any number of clauses and  *)
(* managers (eval_try, eval_with, exit_context_managers).                   *)
THEOREM BlocksComeToPythons ==
    ASSUME EnterFails \subseteq {1}, ExitFails # "always"
    PROVE  Spec => BlocksMeetPython
<1>1. ASSUME TypeOK, Recorded, [Next]_vars, Leaves("try"), top.phase = "final"
      PROVE  Result = PythonTry(top, out)
  <2>1. blocks # << >> /\ Len(blocks') < Len(blocks) /\ top.kind = "try"
    BY <1>1 DEF Leaves
  <2>2. FinallyEnds
    BY <1>1, <2>1, LeavingSteps DEF InTry
  <2>3. TryRecord(top) /\ top.pending \in Outcomes /\ out \in Outcomes
    BY <1>1, <2>1, <2>2, TopRecorded DEF TryRecord, FinallyEnds, InTry, TypeOK
  <2>4. Result = (IF out = Ok THEN top.pending ELSE out)
    BY <2>2, <2>3, LeaveResult DEF FinallyEnds
  <2>5. top.pending = PythonTry(top, Ok)
    BY <1>1, <2>3 DEF TryRecord
  <2> QED
    BY <2>4, <2>5 DEF PythonTry
<1>2. ASSUME TypeOK, Recorded, [Next]_vars, Leaves("with")
      PROVE  /\ top.phase = "exit" => PythonWith(top, Result)
             /\ Len(top.exits) = top.entered
  <2>1. blocks # << >> /\ Len(blocks') < Len(blocks) /\ top.kind = "with"
    BY <1>2 DEF Leaves
  <2>2. WithRecord(top) /\ top \in WithBlocks /\ top.entered \in Nat
        /\ top.body \in Outcomes \cup {None} /\ top.current \in Errors \cup {None}
    BY <1>2, <2>1, TopRecorded, TopType
  <2>3. CASE WithEnds
    <3>1. Leave(WithResult(top)) /\ top.phase = "exit" /\ Len(top.exits) = top.entered
      BY <2>3 DEF WithEnds, WithResult, AtWith
    <3>2. WithResult(top) \in Outcomes
      BY <2>2, OutcomeFacts DEF WithResult
    <3>3. Result = WithResult(top)
      BY <3>1, <3>2, LeaveResult
    <3> QED
      BY <2>2, <3>1, <3>3 DEF WithRecord
  <2>4. CASE AtWith("enter") /\ top.entered + 1 \in EnterFails
    <3>1. top.phase = "enter" /\ top.entered = 0
      BY <2>2, <2>4 DEF AtWith
    <3> QED
      BY <2>2, <3>1 DEF WithRecord
  <2> QED
    BY <1>2, <2>1, <2>3, <2>4, LeavingSteps
<1>3. TypeOK /\ Recorded /\ [Next]_vars =>
        [/\ Leaves("try") /\ top.phase = "final" => Result = PythonTry(top, out)
         /\ Leaves("with") /\ top.phase = "exit" => PythonWith(top, Result)
         /\ Leaves("with") => Len(top.exits) = top.entered]_vars
  BY <1>1, <1>2
<1> QED
  BY <1>3, TypeCorrect, PTL DEF Spec, BlocksMeetPython

-----------------------------------------------------------------------------
(* The active-exception stack *)

IsHandler(b) == b.kind = "try" /\ b.phase = "handler"
HandlersIn(bs, n) == {i \in 1..n : IsHandler(bs[i])}

(* The stack `act' has an entry for each handler among the first n blocks. *)
Mirrors(bs, n, act) ==
    /\ Len(act) = Cardinality(HandlersIn(bs, n))
    /\ \A i \in HandlersIn(bs, n) : act[Cardinality(HandlersIn(bs, i))] = bs[i].body[2]

HandledInv == Mirrors(blocks, Len(blocks), active)

(* The number of handlers, one block more. *)
LEMMA HandlersGrow ==
    ASSUME NEW bs, NEW n \in Nat \ {0}
    PROVE  /\ HandlersIn(bs, n) = HandlersIn(bs, n - 1) \cup (IF IsHandler(bs[n]) THEN {n} ELSE {})
           /\ Cardinality(HandlersIn(bs, n - 1)) \in Nat
           /\ Cardinality(HandlersIn(bs, n))
                = Cardinality(HandlersIn(bs, n - 1)) + (IF IsHandler(bs[n]) THEN 1 ELSE 0)
           /\ \A i \in HandlersIn(bs, n - 1) :
                 Cardinality(HandlersIn(bs, i)) \in 1..Cardinality(HandlersIn(bs, n - 1))
<1>1. ASSUME NEW m \in Nat
      PROVE  IsFiniteSet(HandlersIn(bs, m)) /\ Cardinality(HandlersIn(bs, m)) \in Nat
  <2>1. HandlersIn(bs, m) \subseteq 1..m /\ IsFiniteSet(1..m)
    BY FS_Interval DEF HandlersIn
  <2> QED
    BY <2>1, FS_Subset, FS_CardinalityType
<1>2. n - 1 \in Nat /\ n \notin HandlersIn(bs, n - 1)
  BY DEF HandlersIn
<1>3. HandlersIn(bs, n) = HandlersIn(bs, n - 1) \cup (IF IsHandler(bs[n]) THEN {n} ELSE {})
  BY DEF HandlersIn
<1>4. Cardinality(HandlersIn(bs, n))
        = Cardinality(HandlersIn(bs, n - 1)) + (IF IsHandler(bs[n]) THEN 1 ELSE 0)
  <2>1. CASE IsHandler(bs[n])
    BY <1>1, <1>2, <1>3, <2>1, FS_AddElement
  <2>2. CASE ~IsHandler(bs[n])
    BY <1>1, <1>2, <1>3, <2>2
  <2> QED
    BY <2>1, <2>2
<1>5. ASSUME NEW i \in HandlersIn(bs, n - 1)
      PROVE  Cardinality(HandlersIn(bs, i)) \in 1..Cardinality(HandlersIn(bs, n - 1))
  <2>1. i \in Nat /\ i \in HandlersIn(bs, i) /\ HandlersIn(bs, i) \subseteq HandlersIn(bs, n - 1)
    BY DEF HandlersIn
  <2>2. Cardinality(HandlersIn(bs, i)) <= Cardinality(HandlersIn(bs, n - 1))
    BY <1>1, <1>2, <2>1, FS_Subset
  <2>3. Cardinality(HandlersIn(bs, i)) # 0
    BY <1>1, <2>1, FS_EmptySet
  <2> QED
    BY <1>1, <1>2, <2>1, <2>2, <2>3
<1> QED
  BY <1>1, <1>2, <1>3, <1>4, <1>5

(* A block that is no handler adds nothing; a handler adds its exception.   *)
LEMMA MirrorsStep ==
    ASSUME NEW S, NEW bs, NEW n \in Nat \ {0}, NEW act \in Seq(S)
    PROVE  /\ ~IsHandler(bs[n]) => (Mirrors(bs, n, act) <=> Mirrors(bs, n - 1, act))
           /\ IsHandler(bs[n]) /\ bs[n].body[2] \in S /\ Mirrors(bs, n - 1, act)
                => Mirrors(bs, n, Append(act, bs[n].body[2]))
           /\ IsHandler(bs[n]) /\ Mirrors(bs, n, act)
                => act # << >> /\ Mirrors(bs, n - 1, Butlast(act))
<1> DEFINE k == Cardinality(HandlersIn(bs, n - 1))
<1>1. /\ HandlersIn(bs, n) = HandlersIn(bs, n - 1) \cup (IF IsHandler(bs[n]) THEN {n} ELSE {})
      /\ k \in Nat
      /\ Cardinality(HandlersIn(bs, n)) = k + (IF IsHandler(bs[n]) THEN 1 ELSE 0)
      /\ \A i \in HandlersIn(bs, n - 1) : Cardinality(HandlersIn(bs, i)) \in 1..k
  BY HandlersGrow
<1>2. ASSUME ~IsHandler(bs[n]) PROVE Mirrors(bs, n, act) <=> Mirrors(bs, n - 1, act)
  <2>1. HandlersIn(bs, n) = HandlersIn(bs, n - 1)
    BY <1>1, <1>2
  <2> QED
    BY <2>1 DEF Mirrors
<1>3. ASSUME IsHandler(bs[n]), bs[n].body[2] \in S, Mirrors(bs, n - 1, act)
      PROVE  Mirrors(bs, n, Append(act, bs[n].body[2]))
  <2> DEFINE a == Append(act, bs[n].body[2])
  <2>1. Len(act) = k
    BY <1>3 DEF Mirrors
  <2>2. Len(a) = k + 1 /\ a[k + 1] = bs[n].body[2] /\ \A i \in 1..k : a[i] = act[i]
    BY <1>3, <2>1
  <2> HIDE DEF a, k
  <2>3. HandlersIn(bs, n) = HandlersIn(bs, n - 1) \cup {n} /\ Cardinality(HandlersIn(bs, n)) = k + 1
    BY <1>1, <1>3
  <2>4. ASSUME NEW i \in HandlersIn(bs, n)
        PROVE  a[Cardinality(HandlersIn(bs, i))] = bs[i].body[2]
    <3>1. CASE i = n
      BY <2>2, <2>3, <3>1
    <3>2. CASE i \in HandlersIn(bs, n - 1)
      <4>1. Cardinality(HandlersIn(bs, i)) \in 1..k
        BY <1>1, <3>2
      <4>2. act[Cardinality(HandlersIn(bs, i))] = bs[i].body[2]
        BY <1>3, <3>2 DEF Mirrors
      <4> QED
        BY <2>2, <4>1, <4>2
    <3> QED
      BY <2>3, <3>1, <3>2
  <2> QED
    BY <2>2, <2>3, <2>4 DEF Mirrors, a
<1>4. ASSUME IsHandler(bs[n]), Mirrors(bs, n, act)
      PROVE  act # << >> /\ Mirrors(bs, n - 1, Butlast(act))
  <2>1. Len(act) = k + 1 /\ HandlersIn(bs, n - 1) \subseteq HandlersIn(bs, n)
    BY <1>1, <1>4 DEF Mirrors
  <2>2. act # << >>
    BY <1>1, <2>1
  <2>3. Len(Butlast(act)) = k /\ \A i \in 1..k : Butlast(act)[i] = act[i]
    <3>1. Len(act) - 1 = k
      BY <1>1, <2>1
    <3> QED
      BY <2>2, <3>1, ButlastFacts
  <2>4. ASSUME NEW i \in HandlersIn(bs, n - 1)
        PROVE  Butlast(act)[Cardinality(HandlersIn(bs, i))] = bs[i].body[2]
    <3>1. Cardinality(HandlersIn(bs, i)) \in 1..k
      BY <1>1
    <3>2. act[Cardinality(HandlersIn(bs, i))] = bs[i].body[2]
      BY <1>4, <2>1 DEF Mirrors
    <3> QED
      BY <2>3, <3>1, <3>2
  <2> QED
    BY <2>2, <2>3, <2>4 DEF Mirrors
<1> QED
  BY <1>2, <1>3, <1>4

(* Only the first n blocks matter. *)
LEMMA MirrorsPrefix ==
    ASSUME NEW bs, NEW cs, NEW n \in Nat, \A i \in 1..n : cs[i] = bs[i], NEW act
    PROVE  Mirrors(bs, n, act) => Mirrors(cs, n, act)
<1>1. \A m \in 0..n : HandlersIn(cs, m) = HandlersIn(bs, m)
  BY DEF HandlersIn
<1>2. HandlersIn(cs, n) = HandlersIn(bs, n)
  BY <1>1
<1>3. ASSUME NEW i \in HandlersIn(bs, n)
      PROVE  HandlersIn(cs, i) = HandlersIn(bs, i) /\ cs[i] = bs[i]
  <2>1. i \in 1..n /\ i \in 0..n
    BY DEF HandlersIn
  <2> QED
    BY <1>1, <2>1
<1> QED
  BY <1>2, <1>3 DEF Mirrors

(* The stack of active exceptions follows the handlers through every step. *)
LEMMA HandledNext ==
    TypeOK /\ Recorded /\ HandledInv /\ [Next]_vars => HandledInv'
<1> SUFFICES ASSUME TypeOK, Recorded, HandledInv, [Next]_vars PROVE HandledInv'
  OBVIOUS
<1> DEFINE n == Len(blocks)
<1>1. blocks \in Seq(Blocks) /\ active \in Seq(Types \cup {Other}) /\ n \in Nat
      /\ Mirrors(blocks, n, active)
  BY DEF TypeOK, HandledInv
<1>2. ASSUME blocks' = blocks, active' = active PROVE HandledInv'
  BY <1>2 DEF HandledInv
<1>3. ASSUME blocks # << >>, ~IsHandler(top)
      PROVE  n \in Nat \ {0} /\ n - 1 \in Nat /\ Mirrors(blocks, n - 1, active)
  <2>1. n \in Nat \ {0} /\ n - 1 \in Nat
    BY <1>1, <1>3, TopType
  <2> QED
    BY <1>1, <1>3, <2>1, MirrorsStep DEF top
<1>4. ASSUME blocks # << >>, NEW b \in Blocks, Goto(b)
      PROVE  /\ Len(blocks') = n /\ blocks'[n] = b /\ n \in Nat \ {0} /\ n - 1 \in Nat
             /\ \A act : Mirrors(blocks, n - 1, act) => Mirrors(blocks', n - 1, act)
  <2>1. Len(blocks') = n /\ blocks'[n] = b /\ \A i \in 1..n - 1 : blocks'[i] = blocks[i]
    BY <1>1, <1>4, GotoFacts
  <2>2. n \in Nat \ {0} /\ n - 1 \in Nat
    BY <1>1, <1>4, TopType
  <2> QED
    BY <2>1, <2>2, MirrorsPrefix
<1> HIDE DEF n
<1>5. ASSUME blocks # << >>, ~IsHandler(top), NEW b \in Blocks, Goto(b), ~IsHandler(b),
             active' = active
      PROVE  HandledInv'
  <2>1. Mirrors(blocks', n - 1, active) /\ n \in Nat \ {0} /\ ~IsHandler(blocks'[n])
    BY <1>3, <1>4, <1>5
  <2>2. Mirrors(blocks', n, active)
    BY <1>1, <2>1, MirrorsStep
  <2> QED
    BY <1>4, <1>5, <2>2 DEF HandledInv
<1>6. ASSUME blocks # << >>, ~IsHandler(top), NEW o, Leave(o), active' = active
      PROVE  HandledInv'
  <2>1. Len(blocks') = n - 1 /\ \A i \in 1..n - 1 : blocks'[i] = blocks[i]
    BY <1>1, <1>6, LeaveFacts DEF n
  <2>2. Mirrors(blocks', n - 1, active)
    BY <1>3, <1>6, <2>1, MirrorsPrefix
  <2> QED
    BY <1>6, <2>1, <2>2 DEF HandledInv
<1>7. CASE UNCHANGED vars \/ Finish \/ Ended
  BY <1>2, <1>7 DEF vars, Finish, Ended
<1>8. CASE Open
  <2>1. PICK b \in Blocks : Opened(b) /\ blocks' = Append(blocks, b)
    BY <1>8, OpenFacts
  <2>2. ~IsHandler(b)
    BY <2>1 DEF Opened, IsHandler, TryBlock
  <2>3. Len(blocks') = n + 1 /\ blocks'[n + 1] = b /\ \A i \in 1..n : blocks'[i] = blocks[i]
    BY <1>1, <2>1 DEF n
  <2>4. Mirrors(blocks', n, active)
    BY <1>1, <2>3, MirrorsPrefix
  <2> DEFINE m == n + 1
  <2>5. m \in Nat \ {0} /\ m - 1 = n
    BY <1>1
  <2> HIDE DEF m
  <2>6. Mirrors(blocks', m, active)
    BY <1>1, <2>2, <2>3, <2>4, <2>5, MirrorsStep DEF m
  <2> QED
    BY <1>8, <2>3, <2>6 DEF HandledInv, Open, m
<1>9. CASE FuncReturns \/ LoopElse
  BY <1>6, <1>9 DEF FuncReturns, LoopElse, IsHandler
<1>10. CASE LoopTest \/ LoopBody
  <2>1. blocks # << >> /\ top \in LoopBlocks /\ active' = active
    BY <1>10, TopType DEF LoopTest, LoopBody
  <2>2. \A b \in LoopBlocks : ~IsHandler(b) /\ b \in Blocks
    BY NextBlocks DEF LoopBlocks, IsHandler
  <2>3. ASSUME NEW b \in LoopBlocks, Goto(b) PROVE HandledInv'
    BY <1>5, <2>1, <2>2, <2>3
  <2>4. \A p \in {"test", "body", "orelse"} : [top EXCEPT !.phase = p] \in LoopBlocks
        /\ [top EXCEPT !.phase = "body", !.iters = @ + 1] \in LoopBlocks
    BY <2>1, NextBlocks
  <2>5. ASSUME NEW o, Leave(o) PROVE HandledInv'
    BY <1>6, <2>1, <2>2, <2>5
  <2>6. CASE LoopTest
    BY <2>3, <2>4, <2>5, <2>6 DEF LoopTest
  <2>7. CASE LoopBody
    BY <2>3, <2>4, <2>5, <2>7 DEF LoopBody
  <2> QED
    BY <1>10, <2>6, <2>7
<1>11. CASE TryBodyOk \/ TrySignal \/ TryCatch \/ HandlerEnds \/ ElseEnds \/ FinallyEnds
  <2>1. blocks # << >> /\ top \in TryBlocks /\ TryRecord(top) /\ out \in Outcomes
    BY <1>11, TopType, TopRecorded
       DEF TryBodyOk, TrySignal, TryCatch, HandlerEnds, ElseEnds, FinallyEnds, InTry, TypeOK
  <2>2. ASSUME NEW b \in TryBlocks, NEW o \in Outcomes
        PROVE  /\ [b EXCEPT !.phase = "final", !.pending = o] \in Blocks
               /\ ~IsHandler([b EXCEPT !.phase = "final", !.pending = o])
    <3>1. [b EXCEPT !.phase = "final", !.pending = o] \in Blocks
      BY NextBlocks
    <3> QED
      BY <3>1 DEF IsHandler, TryBlocks
  <2>3. ASSUME ~IsHandler(top), active' = active, NEW b \in TryBlocks, NEW o \in Outcomes,
               Finally(b, o)
        PROVE  HandledInv'
    BY <1>5, <2>1, <2>2, <2>3 DEF Finally
  <2>4. CASE TryBodyOk
    <3>1. [top EXCEPT !.phase = "orelse", !.body = Ok] \in Blocks
      BY <2>1, NextBlocks, OutcomeFacts
    <3>2. ~IsHandler([top EXCEPT !.phase = "orelse", !.body = Ok]) /\ ~IsHandler(top)
      BY <2>1, <2>4 DEF IsHandler, TryBlocks, TryBodyOk, InTry
    <3> QED
      BY <1>5, <2>1, <2>4, <3>1, <3>2 DEF TryBodyOk
  <2>5. CASE TrySignal
    BY <2>1, <2>3, <2>5, NextBlocks DEF TrySignal, InTry, IsHandler
  <2>6. CASE ElseEnds
    BY <2>1, <2>3, <2>6, NextBlocks DEF ElseEnds, InTry, IsHandler
  <2>7. CASE FinallyEnds
    BY <1>6, <2>1, <2>7 DEF FinallyEnds, InTry, IsHandler
  <2>8. CASE TryCatch
    <3> DEFINE i == FirstAsked(top.hs, out)
               b == [top EXCEPT !.body = out]
               h == [b EXCEPT !.phase = "handler"]
    <3>1. out \in Errors /\ ~IsHandler(top) /\ out[2] \in Types \cup {Other}
      BY <2>8, ErrorFacts DEF TryCatch, IsError, InTry, IsHandler
    <3>2. b \in TryBlocks
      BY <2>1, NextBlocks
    <3>3. h \in Blocks /\ IsHandler(h) /\ h.body = out
      <4>1. h \in TryBlocks
        BY <2>1, <3>2, NextBlocks
      <4> QED
        BY <2>1, <4>1, NextBlocks DEF IsHandler, TryBlocks
    <3> HIDE DEF i, b
    <3>4. \/ Finally(b, out) /\ active' = active
          \/ (\E e \in Errors : Leave(e)) /\ active' = active
          \/ Goto(h) /\ active' = Append(active, out[2])
      BY <2>8 DEF TryCatch, i, b
    <3> HIDE DEF h
    <3>5. CASE Goto(h) /\ active' = Append(active, out[2])
      <4>1. Mirrors(blocks', n - 1, active) /\ blocks'[n] = h
        BY <1>3, <1>4, <2>1, <3>1, <3>3, <3>5
      <4>2. Mirrors(blocks', n, Append(active, out[2]))
        BY <1>1, <1>4, <2>1, <3>1, <3>3, <3>5, <4>1, MirrorsStep
      <4> QED
        BY <1>4, <2>1, <3>3, <3>5, <4>2 DEF HandledInv
    <3> QED
      BY <1>6, <2>1, <2>3, <3>1, <3>2, <3>4, <3>5
  <2>9. CASE HandlerEnds
    <3> DEFINE b == [[top EXCEPT !.handler = out] EXCEPT !.phase = "final", !.pending = out]
    <3>1. [top EXCEPT !.handler = out] \in TryBlocks
      BY <2>1, NextBlocks
    <3>2. b \in Blocks /\ ~IsHandler(b)
      BY <2>1, <2>2, <3>1
    <3>3. Goto(b) /\ active' = Butlast(active) /\ IsHandler(top)
      BY <2>9 DEF HandlerEnds, Finally, InTry, IsHandler
    <3> HIDE DEF b
    <3>4. n \in Nat \ {0} /\ Len(blocks') = n /\ blocks'[n] = b
          /\ \A act : Mirrors(blocks, n - 1, act) => Mirrors(blocks', n - 1, act)
      BY <1>4, <2>1, <3>2, <3>3
    <3>5. active # << >> /\ Mirrors(blocks, n - 1, Butlast(active))
      BY <1>1, <3>3, <3>4, MirrorsStep DEF top, n
    <3>6. Mirrors(blocks', n - 1, Butlast(active)) /\ Butlast(active) \in Seq(Types \cup {Other})
      BY <1>1, <3>4, <3>5, ButlastFacts
    <3>7. Mirrors(blocks', n, Butlast(active))
      BY <3>2, <3>4, <3>6, MirrorsStep
    <3> QED
      BY <3>3, <3>4, <3>7 DEF HandledInv
  <2> QED
    BY <1>11, <2>4, <2>5, <2>6, <2>7, <2>8, <2>9
<1>12. CASE WithEnter \/ WithBody \/ WithExit \/ WithEnds
  <2>1. blocks # << >> /\ top.kind = "with" /\ ~IsHandler(top) /\ active' = active
    BY <1>12 DEF WithEnter, WithBody, WithExit, WithEnds, AtWith, IsHandler
  <2>2. top \in WithBlocks /\ TypeOK'
    BY <1>12, <2>1, TopType, TypeWith
  <2>3. ASSUME NEW b, Goto(b), b.kind = "with" PROVE HandledInv'
    <3>1. b \in Blocks
      <4>1. blocks' \in Seq(Blocks) /\ Len(blocks') = n /\ n \in 1..n /\ blocks'[n] = b
        BY <1>1, <1>3, <2>1, <2>2, <2>3 DEF Goto, TypeOK, n
      <4> QED
        BY <4>1
    <3> QED
      BY <1>5, <2>1, <2>3, <3>1 DEF IsHandler
  <2>4. ASSUME NEW o, Leave(o) PROVE HandledInv'
    BY <1>6, <2>1, <2>4
  <2>5. CASE WithEnter
    BY <2>2, <2>3, <2>4, <2>5 DEF WithEnter, WithBlocks
  <2>6. CASE WithBody
    BY <2>2, <2>3, <2>6 DEF WithBody, WithBlocks
  <2>7. CASE WithExit
    BY <2>2, <2>3, <2>7 DEF WithExit, WithBlocks
  <2>8. CASE WithEnds
    BY <2>4, <2>8 DEF WithEnds
  <2> QED
    BY <1>12, <2>5, <2>6, <2>7, <2>8
<1> QED
  BY <1>7, <1>8, <1>9, <1>10, <1>11, <1>12 DEF Next

(* The active-exception stack names the exception of every handler in       *)
(* progress, oldest first, for any nesting of blocks and any way of leaving *)
(* them: a bare raise means the innermost (try_match_handlers, eval_raise). *)
THEOREM ActiveMirrorsHandlers == Spec => []ActiveIsHandled
<1>1. Init => HandledInv
  <2> SUFFICES ASSUME Init PROVE HandledInv
    OBVIOUS
  <2>1. Len(blocks) = 1 /\ blocks[1] = FuncBlock /\ active = << >> /\ Len(active) = 0
    BY DEF Init
  <2>2. HandlersIn(blocks, Len(blocks)) = {}
    BY <2>1 DEF HandlersIn, IsHandler, FuncBlock
  <2> QED
    BY <2>1, <2>2, FS_EmptySet DEF HandledInv, Mirrors
<1>2. HandledInv => ActiveIsHandled
  <2>1. \A m : Handling(m) = HandlersIn(blocks, m)
    BY DEF Handling, InHandler, HandlersIn, IsHandler
  <2> QED
    BY <2>1 DEF HandledInv, Mirrors, ActiveIsHandled
<1>3. TypeOK /\ Recorded /\ HandledInv /\ [Next]_vars => HandledInv'
  BY HandledNext
<1> QED
  BY <1>1, <1>2, <1>3, TypeCorrect, PTL DEF Spec

-----------------------------------------------------------------------------
(* Signals *)

Jumps == {<<"break">>, <<"continue">>}
LoopingAt(bs, i, n) == /\ bs[i].kind = "loop" /\ bs[i].phase = "body"
                       /\ \A j \in i..n : bs[j].kind # "func"

(* Among the first n blocks is one that takes the signal o. *)
Taken(bs, n, o) ==
    /\ o = <<"return">> => \E i \in 2..n : bs[i].kind = "func"
    /\ o \in Jumps => \E i \in 1..n : LoopingAt(bs, i, n)

(* The signal a statement holds back while its finally block or the exits   *)
(* of its managers run.                                                     *)
HeldBack(b) == IF b.kind = "try" /\ b.phase = "final" THEN b.pending
               ELSE IF b.kind = "with" /\ b.phase = "exit" THEN b.body ELSE Ok

(* Every signal on its way or held back has a block that will take it. *)
SignalInv ==
    /\ Taken(blocks, Len(blocks), out)
    /\ \A i \in 1..Len(blocks) : Taken(blocks, i, HeldBack(blocks[i]))

(* What is no signal needs no block to take it. *)
LEMMA NoSignal ==
    ASSUME NEW bs, NEW n, NEW o \in ({Running} \cup Outcomes) \ Signals
    PROVE  Taken(bs, n, o)
BY OutcomeFacts DEF Taken, Jumps, Signals

(* Only the first n blocks matter, and of the last only kind and phase. *)
LEMMA TakenPrefix ==
    ASSUME NEW bs, NEW cs, NEW n \in Nat, NEW o, Taken(bs, n, o),
           \A i \in 1..n : /\ cs[i].kind = bs[i].kind
                           /\ bs[i].kind = "loop" => cs[i].phase = bs[i].phase
    PROVE  Taken(cs, n, o)
<1>1. \A i \in 1..n : LoopingAt(bs, i, n) => LoopingAt(cs, i, n)
  BY DEF LoopingAt
<1>2. \A i \in 2..n : bs[i].kind = "func" => cs[i].kind = "func"
  OBVIOUS
<1> QED
  BY <1>1, <1>2 DEF Taken

(* A signal passes blocks that do not take it. *)
LEMMA TakenBelow ==
    ASSUME NEW bs, NEW n \in Nat \ {0}, NEW o, Taken(bs, n, o),
           bs[n].kind = "func" => o # <<"return">>,
           bs[n].kind = "loop" /\ bs[n].phase = "body" => o \notin Jumps
    PROVE  Taken(bs, n - 1, o)
<1>1. ASSUME o = <<"return">> PROVE \E i \in 2..n - 1 : bs[i].kind = "func"
  <2>1. PICK i \in 2..n : bs[i].kind = "func"
    BY <1>1 DEF Taken
  <2>2. i # n
    BY <1>1, <2>1
  <2>3. i \in 2..n - 1
    BY <2>2
  <2> QED
    BY <2>1, <2>3
<1>2. ASSUME o \in Jumps PROVE \E i \in 1..n - 1 : LoopingAt(bs, i, n - 1)
  <2>1. PICK i \in 1..n : LoopingAt(bs, i, n)
    BY <1>2 DEF Taken
  <2>2. i # n
    BY <1>2, <2>1 DEF LoopingAt
  <2>3. i \in 1..n - 1 /\ LoopingAt(bs, i, n - 1)
    BY <2>1, <2>2 DEF LoopingAt
  <2> QED
    BY <2>3
<1> QED
  BY <1>1, <1>2 DEF Taken

(* The steps of the stack, for signals. *)
LEMMA SignalGoto ==
    ASSUME TypeOK, SignalInv, blocks # << >>, NEW b \in Blocks, Goto(b), out' = Running,
           b.kind = top.kind,
           HeldBack(b) \in {out, HeldBack(top)} \/ HeldBack(b) \in Outcomes \ Signals,
           b.kind = "loop" => HeldBack(b) \in Outcomes \ Signals
    PROVE  SignalInv'
<1> DEFINE n == Len(blocks)
<1>1. n \in Nat \ {0} /\ top = blocks[n]
  BY TopType
<1>2. Len(blocks') = n /\ blocks'[n] = b /\ \A i \in 1..n - 1 : blocks'[i] = blocks[i]
  BY GotoFacts DEF TypeOK
<1>3. Taken(blocks, n, out) /\ \A i \in 1..n : Taken(blocks, i, HeldBack(blocks[i]))
  BY DEF SignalInv
<1> HIDE DEF n
<1>4. Taken(blocks', n, Running)
  BY NoSignal, OutcomeFacts
<1>5. ASSUME NEW i \in 1..n PROVE Taken(blocks', i, HeldBack(blocks'[i]))
  <2>1. CASE i # n
    <3>1. i \in Nat /\ blocks'[i] = blocks[i] /\ Taken(blocks, i, HeldBack(blocks[i]))
          /\ \A j \in 1..i : blocks'[j] = blocks[j]
      BY <1>1, <1>2, <1>3, <2>1
    <3> QED
      BY <3>1, TakenPrefix
  <2>2. CASE i = n /\ HeldBack(b) \in Outcomes \ Signals
    BY <1>2, <2>2, NoSignal
  <2>3. CASE i = n /\ HeldBack(b) \notin Outcomes \ Signals
    <3>1. b.kind # "loop" /\ Taken(blocks, n, HeldBack(b))
      BY <1>1, <1>3, <2>3
    <3>2. \A j \in 1..n : /\ blocks'[j].kind = blocks[j].kind
                          /\ blocks[j].kind = "loop" => blocks'[j].phase = blocks[j].phase
      BY <1>1, <1>2, <3>1
    <3> QED
      BY <1>1, <1>2, <2>3, <3>1, <3>2, TakenPrefix
  <2> QED
    BY <2>1, <2>2, <2>3
<1> QED
  BY <1>2, <1>4, <1>5 DEF SignalInv

(* A block is left only with a signal that something outside takes. *)
LEMMA SignalLeave ==
    ASSUME TypeOK, SignalInv, blocks # << >>, NEW o \in Outcomes, Leave(o),
           o \notin Signals \/ Taken(blocks, Len(blocks) - 1, o)
    PROVE  SignalInv'
<1> DEFINE n == Len(blocks)
<1>1. n \in Nat \ {0} /\ n - 1 \in Nat
  BY TopType
<1>2. Len(blocks') = n - 1 /\ \A i \in 1..n - 1 : blocks'[i] = blocks[i]
  BY LeaveFacts DEF TypeOK
<1>3. \A i \in 1..n : Taken(blocks, i, HeldBack(blocks[i]))
  BY DEF SignalInv
<1>4. o \notin Signals \/ Taken(blocks, n - 1, o)
  OBVIOUS
<1> HIDE DEF n
<1>5. ASSUME NEW i \in 1..n - 1 PROVE Taken(blocks', i, HeldBack(blocks'[i]))
  <2>1. i \in Nat /\ i \in 1..n /\ blocks'[i] = blocks[i] /\ \A j \in 1..i : blocks'[j] = blocks[j]
    BY <1>1, <1>2
  <2> QED
    BY <1>3, <2>1, TakenPrefix
<1>6. Taken(blocks', n - 1, out')
  <2>1. out' \in {o, Running}
    BY DEF Leave
  <2>2. Taken(blocks', n - 1, Running)
    BY NoSignal, OutcomeFacts
  <2>3. CASE o \notin Signals
    BY <2>1, <2>2, <2>3, NoSignal
  <2>4. CASE Taken(blocks, n - 1, o)
    BY <1>1, <1>2, <2>1, <2>2, <2>4, TakenPrefix
  <2> QED
    BY <1>4, <2>3, <2>4
<1> QED
  BY <1>2, <1>5, <1>6 DEF SignalInv

(* Signals have someone to take them through every step. *)
LEMMA SignalNext ==
    TypeOK /\ Recorded /\ SignalInv /\ [Next]_vars => SignalInv'
<1> SUFFICES ASSUME TypeOK, Recorded, SignalInv, [Next]_vars PROVE SignalInv'
  OBVIOUS
<1>1. blocks \in Seq(Blocks) /\ Len(blocks) \in Nat /\ out \in {Running} \cup Outcomes
  BY DEF TypeOK
<1>2. Taken(blocks, Len(blocks), out)
      /\ \A i \in 1..Len(blocks) : Taken(blocks, i, HeldBack(blocks[i]))
  BY DEF SignalInv
<1>3. ASSUME blocks # << >>
      PROVE  Len(blocks) \in Nat \ {0} /\ top = blocks[Len(blocks)] /\ top \in Blocks
             /\ Taken(blocks, Len(blocks), HeldBack(top))
  BY <1>2, <1>3, TopType
<1>4. ASSUME blocks # << >>, NEW o \in Outcomes, Leave(o),
             Taken(blocks, Len(blocks), o) /\ top.kind \in {"try", "with"}
      PROVE  SignalInv'
  <2>1. Taken(blocks, Len(blocks) - 1, o)
    BY <1>3, <1>4, TakenBelow
  <2> QED
    BY <1>4, <2>1, SignalLeave
<1>5. ASSUME blocks # << >>, NEW o \in Outcomes \ Signals, Leave(o)
      PROVE  SignalInv'
  BY <1>5, SignalLeave
<1>6. CASE UNCHANGED vars \/ Ended
  BY <1>6 DEF vars, Ended, SignalInv
<1>7. CASE Open
  <2>1. PICK b \in Blocks : Opened(b) /\ blocks' = Append(blocks, b)
    BY <1>7, OpenFacts
  <2>2. HeldBack(b) = Ok
    BY <2>1 DEF Opened, HeldBack, TryBlock, WithBlock
  <2>3. Len(blocks') = Len(blocks) + 1 /\ blocks'[Len(blocks) + 1] = b
        /\ \A i \in 1..Len(blocks) : blocks'[i] = blocks[i]
    BY <1>1, <2>1
  <2>4. Taken(blocks', Len(blocks) + 1, out') /\ Taken(blocks', Len(blocks) + 1, Ok)
    BY <1>7, NoSignal, OutcomeFacts DEF Open, InBody
  <2>5. ASSUME NEW i \in 1..Len(blocks) PROVE Taken(blocks', i, HeldBack(blocks'[i]))
    <3>1. i \in Nat /\ blocks'[i] = blocks[i] /\ \A j \in 1..i : blocks'[j] = blocks[j]
      BY <1>1, <2>3
    <3> QED
      BY <1>2, <3>1, TakenPrefix
  <2>6. \A i \in 1..Len(blocks) + 1 : i \in 1..Len(blocks) \/ i = Len(blocks) + 1
    BY <1>1
  <2> QED
    BY <2>2, <2>3, <2>4, <2>5, <2>6 DEF SignalInv
<1>8. CASE Finish
  <2>1. blocks' = blocks
    BY <1>8 DEF Finish
  <2>2. Taken(blocks, Len(blocks), out')
    <3>1. CASE out' \in {Ok} \cup Errors
      BY <3>1, NoSignal, OutcomeFacts
    <3>2. CASE out' = Reraise
      <4>1. out' \in {Running} \cup Outcomes
        BY <1>8, TypeLoops DEF TypeOK
      <4>2. Reraise \notin Signals
        <5>1. Len(Reraise) = 2
          BY DEF Reraise
        <5>2. \A o \in Signals : Len(o) = 1
          BY DEF Signals
        <5> QED
          BY <5>1, <5>2
      <4> QED
        BY <3>2, <4>1, <4>2, NoSignal
    <3>3. CASE out' = <<"return">> /\ \E i \in 2..Len(blocks) : blocks[i].kind = "func"
      BY <3>3, SignalFacts DEF Taken, Jumps
    <3>4. CASE out' \in Jumps /\ InLoop
      <4>1. DOMAIN blocks = 1..Len(blocks)
        BY <1>1
      <4>2. \E i \in 1..Len(blocks) : LoopingAt(blocks, i, Len(blocks))
        BY <3>4, <4>1 DEF InLoop, LoopingAt
      <4> QED
        BY <3>4, <4>2, SignalFacts DEF Taken, Jumps
    <3> QED
      BY <1>8, <3>1, <3>2, <3>3, <3>4 DEF Finish, Jumps
  <2> QED
    BY <1>2, <2>1, <2>2 DEF SignalInv
<1>9. CASE FuncReturns
  <2>1. blocks # << >> /\ top.kind = "func" /\ out \in Outcomes
        /\ Leave(IF out = <<"return">> THEN Ok ELSE out)
    BY <1>1, <1>9 DEF FuncReturns
  <2>2. CASE out = <<"return">>
    BY <1>5, <2>1, <2>2, OutcomeFacts
  <2>3. CASE out # <<"return">>
    <3>1. Taken(blocks, Len(blocks) - 1, out)
      BY <1>2, <1>3, <2>1, <2>3, TakenBelow
    <3> QED
      BY <2>1, <2>3, <3>1, SignalLeave
  <2> QED
    BY <2>2, <2>3
<1>10. CASE LoopTest \/ LoopBody \/ LoopElse
  <2>1. blocks # << >> /\ top.kind = "loop" /\ top \in LoopBlocks
    BY <1>10, TopType DEF LoopTest, LoopBody, LoopElse
  <2>2. ASSUME NEW b \in LoopBlocks, Goto(b), out' = Running PROVE SignalInv'
    <3>1. b \in Blocks /\ b.kind = "loop"
      BY NextBlocks DEF LoopBlocks
    <3>2. HeldBack(b) \in Outcomes \ Signals
      BY <3>1, OutcomeFacts DEF HeldBack
    <3> QED
      BY <2>1, <2>2, <3>1, <3>2, SignalGoto
  <2>3. \A p \in {"test", "body", "orelse"} : [top EXCEPT !.phase = p] \in LoopBlocks
        /\ [top EXCEPT !.phase = "body", !.iters = @ + 1] \in LoopBlocks
    BY <2>1, NextBlocks
  <2>4. ASSUME NEW o \in Errors \cup {Ok}, Leave(o) PROVE SignalInv'
    BY <1>5, <2>1, <2>4, OutcomeFacts
  <2>5. CASE LoopTest
    BY <2>2, <2>3, <2>4, <2>5, ErrorFacts DEF LoopTest
  <2>6. CASE LoopBody
    <3>1. CASE out \in Jumps
      BY <2>2, <2>3, <2>4, <2>6, <3>1 DEF LoopBody, Jumps
    <3>2. CASE out = Ok
      BY <2>2, <2>3, <2>6, <3>2, OutcomeFacts DEF LoopBody
    <3>3. CASE out \notin Jumps \cup {Ok}
      <4>1. out \in Outcomes /\ Leave(out)
        BY <1>1, <2>6, <3>3 DEF LoopBody, Jumps
      <4>2. Taken(blocks, Len(blocks) - 1, out)
        BY <1>2, <1>3, <2>1, <3>3, TakenBelow
      <4> QED
        BY <2>1, <4>1, <4>2, SignalLeave
    <3> QED
      BY <3>1, <3>2, <3>3
  <2>7. CASE LoopElse
    <3>1. out \in Outcomes /\ Leave(out) /\ top.phase = "orelse"
      BY <1>1, <2>7 DEF LoopElse
    <3>2. Taken(blocks, Len(blocks) - 1, out)
      BY <1>2, <1>3, <2>1, <3>1, TakenBelow
    <3> QED
      BY <2>1, <3>1, <3>2, SignalLeave
  <2> QED
    BY <1>10, <2>5, <2>6, <2>7
<1>11. CASE TryBodyOk \/ TrySignal \/ TryCatch \/ HandlerEnds \/ ElseEnds \/ FinallyEnds
  <2>1. blocks # << >> /\ top.kind = "try" /\ top \in TryBlocks /\ TryRecord(top) /\ out \in Outcomes
    BY <1>11, TopType, TopRecorded
       DEF TryBodyOk, TrySignal, TryCatch, HandlerEnds, ElseEnds, FinallyEnds, InTry, TypeOK
  <2>2. ASSUME NEW b \in TryBlocks, Goto(b), out' = Running,
               HeldBack(b) \in {out, Ok}
        PROVE  SignalInv'
    <3>1. b \in Blocks /\ b.kind = "try"
      BY NextBlocks DEF TryBlocks
    <3> QED
      BY <2>1, <2>2, <3>1, SignalGoto, OutcomeFacts
  <2>3. ASSUME NEW b \in TryBlocks, Finally(b, out)
        PROVE  SignalInv'
    <3>1. [b EXCEPT !.phase = "final", !.pending = out] \in TryBlocks
      BY <2>1, NextBlocks
    <3>2. HeldBack([b EXCEPT !.phase = "final", !.pending = out]) = out
      BY DEF HeldBack, TryBlocks
    <3> QED
      BY <2>2, <2>3, <3>1, <3>2 DEF Finally
  <2>4. CASE TryBodyOk
    <3>1. [top EXCEPT !.phase = "orelse", !.body = Ok] \in TryBlocks
      BY <2>1, NextBlocks, OutcomeFacts
    <3>2. HeldBack([top EXCEPT !.phase = "orelse", !.body = Ok]) = Ok
      BY <2>1 DEF HeldBack, TryBlocks
    <3> QED
      BY <2>2, <2>4, <3>1, <3>2 DEF TryBodyOk
  <2>5. CASE TrySignal
    BY <2>1, <2>3, <2>5, NextBlocks DEF TrySignal
  <2>6. CASE ElseEnds
    BY <2>1, <2>3, <2>6, NextBlocks DEF ElseEnds
  <2>7. CASE HandlerEnds
    BY <2>1, <2>3, <2>7, NextBlocks DEF HandlerEnds
  <2>8. CASE FinallyEnds
    <3>1. HeldBack(top) = top.pending /\ top.pending \in Outcomes
      BY <2>1, <2>8 DEF HeldBack, FinallyEnds, InTry, TryRecord
    <3> QED
      BY <1>2, <1>3, <1>4, <2>1, <2>8, <3>1 DEF FinallyEnds
  <2>9. CASE TryCatch
    <3> DEFINE i == FirstAsked(top.hs, out)
               b == [top EXCEPT !.body = out]
               h == [b EXCEPT !.phase = "handler"]
    <3>1. b \in TryBlocks
      BY <2>1, NextBlocks
    <3>2. h \in TryBlocks /\ HeldBack(h) = Ok
      <4>1. h \in TryBlocks
        BY <2>1, <3>1, NextBlocks
      <4> QED
        BY <2>1, <4>1 DEF HeldBack, TryBlocks
    <3> HIDE DEF i, b
    <3>3. \/ Finally(b, out)
          \/ \E e \in Errors : Leave(e)
          \/ Goto(h) /\ out' = Running
      BY <2>9 DEF TryCatch, i, b
    <3> HIDE DEF h
    <3> QED
      BY <1>5, <2>1, <2>2, <2>3, <3>1, <3>2, <3>3, OutcomeFacts
  <2> QED
    BY <1>11, <2>4, <2>5, <2>6, <2>7, <2>8, <2>9
<1>12. CASE WithEnter \/ WithBody \/ WithExit \/ WithEnds
  <2>1. blocks # << >> /\ top.kind = "with" /\ top \in WithBlocks /\ WithRecord(top) /\ TypeOK'
    <3>1. blocks # << >> /\ top.kind = "with"
      BY <1>12 DEF WithEnter, WithBody, WithExit, WithEnds, AtWith
    <3> QED
      BY <1>12, <3>1, TopType, TopRecorded, TypeWith
  <2>2. ASSUME NEW b, Goto(b), b.kind = "with", out' = Running,
               HeldBack(b) \in {out, Ok, HeldBack(top)}
        PROVE  SignalInv'
    <3>1. b \in Blocks
      <4>1. blocks' \in Seq(Blocks) /\ Len(blocks) \in 1..Len(blocks')
            /\ blocks'[Len(blocks)] = b
        BY <1>1, <1>3, <2>1, <2>2 DEF Goto, TypeOK
      <4> QED
        BY <4>1
    <3> QED
      BY <2>1, <2>2, <3>1, SignalGoto, OutcomeFacts
  <2>3. CASE WithEnter
    <3> DEFINE p == IF top.phase = "enter" /\ top.entered + 1 = top.items
                    THEN "body" ELSE top.phase
               b == [top EXCEPT !.entered = @ + 1, !.phase = p]
    <3>1. p \in {"enter", "body"}
      BY <2>1, <2>3 DEF WithEnter, AtWith, WithBlocks
    <3>2. (Goto(b) /\ out' = Running) \/ \E e \in Errors : Leave(e)
      BY <2>3 DEF WithEnter
    <3> HIDE DEF p
    <3>3. b.kind = "with" /\ b.phase = p
      BY <2>1 DEF WithBlocks
    <3>4. HeldBack(b) = Ok
      BY <3>1, <3>3 DEF HeldBack
    <3> HIDE DEF b
    <3> QED
      BY <1>5, <2>1, <2>2, <3>2, <3>3, <3>4, OutcomeFacts
  <2>4. CASE WithBody
    <3> DEFINE c == IF IsError(out) THEN out ELSE None
               b == [top EXCEPT !.phase = "exit", !.body = out, !.current = c]
    <3>1. Goto(b) /\ out' = Running
      BY <2>4 DEF WithBody
    <3> HIDE DEF c
    <3>2. b.kind = "with" /\ b.phase = "exit" /\ b.body = out
      BY <2>1 DEF WithBlocks
    <3>3. HeldBack(b) = out
      BY <3>2 DEF HeldBack
    <3> HIDE DEF b
    <3> QED
      BY <2>2, <3>1, <3>2, <3>3
  <2>5. CASE WithExit
    <3>1. PICK r \in {<<"false">>, <<"true">>} \cup Errors :
            Goto([top EXCEPT !.exits = Append(@, r),
                  !.current = IF IsError(r) THEN r ELSE IF r = <<"true">> THEN None ELSE @])
      BY <2>5 DEF WithExit
    <3> DEFINE c == IF IsError(r) THEN r ELSE IF r = <<"true">> THEN None ELSE top.current
               x == Append(top.exits, r)
               b == [top EXCEPT !.exits = x, !.current = c]
    <3>2. Goto(b) /\ out' = Running
      BY <2>5, <3>1 DEF WithExit
    <3> HIDE DEF c, x
    <3>3. b.kind = top.kind /\ b.phase = top.phase /\ b.body = top.body
      BY <2>1 DEF WithBlocks
    <3>4. HeldBack(b) = HeldBack(top)
      BY <2>1, <3>3 DEF HeldBack
    <3> HIDE DEF b
    <3> QED
      BY <2>1, <2>2, <3>2, <3>3, <3>4
  <2>6. CASE WithEnds
    <3>1. Leave(WithResult(top)) /\ HeldBack(top) = top.body /\ top.body \in Outcomes
      BY <2>1, <2>6 DEF WithEnds, WithResult, AtWith, HeldBack, WithRecord
    <3>2. top.current \in Errors \cup {None}
      BY <2>1 DEF WithBlocks
    <3>3. CASE top.body \in Signals
      BY <1>3, <1>4, <2>1, <3>1, <3>3 DEF WithResult
    <3>4. CASE top.body \notin Signals
      <4>1. WithResult(top) \in Outcomes \ Signals
        BY <3>2, <3>4, OutcomeFacts DEF WithResult
      <4> QED
        BY <1>5, <2>1, <3>1, <4>1
    <3> QED
      BY <3>3, <3>4
  <2> QED
    BY <1>12, <2>3, <2>4, <2>5, <2>6
<1> QED
  BY <1>6, <1>7, <1>8, <1>9, <1>10, <1>11, <1>12 DEF Next

(* No break, continue or return leaves the program, whatever finally blocks *)
(* and context managers held it back on its way, and none crosses the       *)
(* function it is in: a loop or call that takes it is always still there    *)
(* (run_for_body, call_user_function_inner).                                *)
THEOREM SignalsAreTaken == Spec => []SignalsTaken
<1>1. Init => SignalInv
  <2> SUFFICES ASSUME Init PROVE SignalInv
    OBVIOUS
  <2>1. Len(blocks) = 1 /\ blocks[1] = FuncBlock /\ out = Running
    BY DEF Init
  <2>2. HeldBack(blocks[1]) = Ok
    BY <2>1 DEF HeldBack, FuncBlock
  <2> QED
    BY <2>1, <2>2, NoSignal, OutcomeFacts DEF SignalInv
<1>2. SignalInv => SignalsTaken
  <2> SUFFICES ASSUME SignalInv, blocks = << >>, out \in Signals PROVE FALSE
    BY DEF SignalsTaken
  <2>1. Len(blocks) = 0
    OBVIOUS
  <2>2. Taken(blocks, 0, out)
    BY <2>1 DEF SignalInv
  <2> QED
    BY <2>2 DEF Taken, Jumps, Signals
<1>3. TypeOK /\ Recorded /\ SignalInv /\ [Next]_vars => SignalInv'
  BY SignalNext
<1> QED
  BY <1>1, <1>2, <1>3, TypeCorrect, PTL DEF Spec
=============================================================================
