------------------------- MODULE ToolDispatchProofs -------------------------
(***************************************************************************)
(* ToolDispatch for every number of calls, every budget and every          *)
(* max_concurrent_tools: its types, the conservation of the semaphore's    *)
(* permits, and the order tool arguments impose on tool executions.        *)
(***************************************************************************)
EXTENDS ToolDispatch, FiniteSetTheorems, SequenceTheorems, TLAPS

(* What the variables that only make sense in some phases hold there, and  *)
(* that a task that is done has a result to join.                          *)
FlowOK ==
    /\ phase \in {"args", "call"} => cur \in Calls
    /\ phase \in {"idle", "eval"} => cur = NoCall
    /\ phase = "await" => awaiting \in Calls
    /\ phase = "await" /\ cur # NoCall => args # <<>> /\ awaiting = Head(args)
    /\ phase \in {"args", "await"} /\ cur # NoCall => task[cur] = "unused"
    /\ phase = "call" => task[cur] = "inline"
    /\ \A c \in Calls : task[c] = "done" => result[c] \in Outcome

(* The inductive invariant.  The types alone are not inductive: giving a   *)
(* permit back stays within max_concurrent_tools only because permits are  *)
(* conserved, and serving the queue disturbs no other call only because    *)
(* the queue holds nothing but waiting tasks.                              *)
IInv == TypeOK /\ FlowOK /\ QueueExact /\ PermitsConserved

-----------------------------------------------------------------------------
(* A list of arguments CallTool may pass is a sequence of calls. *)
LEMMA ArgListsType ==
    ASSUME NEW as \in ArgLists
    PROVE  as \in Seq(Calls)
<1>1. PICK n \in 0..MaxArgs : as \in [1..n -> Proxies]
  BY DEF ArgLists
<1>2. n \in Nat
  BY <1>1, PermitsAssumption
<1>3. as \in [1..n -> Calls]
  BY <1>1 DEF Proxies
<1> QED
  BY <1>2, <1>3, SeqDef

(* The time a tool is given lies within the budget. *)
LEMMA RemainingType ==
    ASSUME TypeOK
    PROVE  /\ remaining_tool_timeout \in 0..TotalTime
           /\ TotalTime - elapsed \in 0..TotalTime
BY BudgetAssumption DEF TypeOK, remaining_tool_timeout, TotalTime

(* Counting down stays in the range. *)
LEMMA DecType ==
    ASSUME NEW m \in Nat, NEW n \in 0..m
    PROVE  Dec(n) \in 0..m
BY DEF Dec

(* The run's own variables while resolve() returns r for proxy p. *)
LEMMA DeliverType ==
    ASSUME TypeOK, FlowOK, NEW p \in Calls,
           NEW r \in Outcome \cup {"consumed"},
           Deliver(p, r), phase \in {"eval", "args", "await"},
           phase = "args" => args # <<>>
    PROVE  /\ phase' \in {"eval", "args"}
           /\ cur' \in Calls \cup {NoCall}
           /\ phase' = "args" => cur' = cur /\ cur \in Calls /\ task' = task
           /\ phase' = "eval" => cur' = NoCall
           /\ args' \in Seq(Calls)
           /\ awaiting' = NoCall
           /\ task' \in [Calls -> TaskSt]
           /\ \A c \in Calls : c # cur => task'[c] = task[c]
           /\ \A c \in Calls : task'[c] \in {task[c], "abandoned"}
           /\ delivered' \in [Calls -> SUBSET (Outcome \cup {"consumed"})]
<1>1. cur # NoCall => args # <<>>
  BY DEF FlowOK
<1>2. cur # NoCall => Tail(args) \in Seq(Calls)
  BY <1>1 DEF TypeOK
<1>3. delivered' \in [Calls -> SUBSET (Outcome \cup {"consumed"})]
  <2>1. delivered[p] \cup {r} \in SUBSET (Outcome \cup {"consumed"})
    BY DEF TypeOK
  <2> QED
    BY <2>1 DEF Deliver, TypeOK
<1>4. CASE cur # NoCall /\ r = "ok"
  BY <1>2, <1>3, <1>4 DEF Deliver, TypeOK
<1>5. CASE ~(cur # NoCall /\ r = "ok")
  <2>1. task' = [c \in Calls |-> IF c = cur THEN "abandoned" ELSE task[c]]
    BY <1>5 DEF Deliver
  <2>2. phase' = "eval" /\ args' = <<>> /\ cur' = NoCall /\ awaiting' = NoCall
    BY <1>5 DEF Deliver
  <2> QED
    BY <1>3, <2>1, <2>2 DEF TypeOK, TaskSt
<1> QED
  BY <1>4, <1>5

(* Which value resolve() returns, and from which phase it is called. *)
LEMMA ResolveReturns ==
    ASSUME TypeOK, FlowOK, NEW p \in Calls,
           \/ ResolveCached(p) \/ ResolveConsumed(p)
           \/ ResolveJoin /\ p = awaiting
    PROVE  /\ \E r \in Outcome \cup {"consumed"} : Deliver(p, r)
           /\ phase \in {"eval", "args", "await"}
           /\ phase = "args" => args # <<>>
BY DEF ResolveCached, ResolveConsumed, ResolveJoin, Consumes, TypeOK, FlowOK

-----------------------------------------------------------------------------
(* The invariant holds initially. *)
LEMMA IInvInit == Init => IInv
<1> SUFFICES ASSUME Init PROVE IInv
  OBVIOUS
<1>1. TypeOK
  BY CallsAssumption, PermitsAssumption, BudgetAssumption
     DEF Init, TypeOK, TotalTime, Phases, TaskSt, Outcome, Pending
<1>2. FlowOK
  BY DEF Init, FlowOK
<1>3. QueueExact
  BY DEF Init, QueueExact
<1>4. Running = {}
  BY DEF Init, Running
<1>5. PermitsConserved
  BY <1>4, FS_EmptySet, PermitsAssumption DEF Init, PermitsConserved
<1> QED
  BY <1>1, <1>2, <1>3, <1>5 DEF IInv

(* Running is a finite set of calls. *)
LEMMA RunningFinite ==
    /\ IsFiniteSet(Running)
    /\ Cardinality(Running) \in Nat
BY CallsAssumption, FS_Subset, FS_CardinalityType DEF Running

(* A handler starts with a permit to take and ends with one to give back.  *)
LEMMA PermitRange ==
    ASSUME IInv, NEW c \in Calls, task[c] = "running"
    PROVE  permits + 1 \in 0..MaxConcurrentTools
<1>1. c \in Running
  BY DEF Running
<1>2. Cardinality(Running) # 0
  BY <1>1, RunningFinite, FS_EmptySet
<1> QED
  BY <1>2, RunningFinite, PermitsAssumption DEF IInv, PermitsConserved, TypeOK

(* A task that gets a permit starts its handler or ends at once. *)
LEMMA StartHandlerType ==
    ASSUME TypeOK, NEW c \in Calls, permits > 0, StartHandler(c)
    PROVE  /\ task' \in [Calls -> TaskSt]
           /\ result' \in [Calls -> Outcome \cup {Pending}]
           /\ permits' \in 0..MaxConcurrentTools
           /\ task'[c] \in {"running", "done"}
           /\ task'[c] = "done" => result'[c] = "timeout" /\ permits' = permits
           /\ task'[c] = "running" => permits' = permits - 1
           /\ \A d \in Calls : d # c => task'[d] = task[d]
           /\ \A d \in Calls : d # c => result'[d] = result[d]
<1>1. permits - 1 \in 0..MaxConcurrentTools
  BY PermitsAssumption DEF TypeOK
<1>2. CASE NoTimeLeft(remain[c])
  BY <1>2 DEF StartHandler, TypeOK, TaskSt, Outcome
<1>3. CASE ~NoTimeLeft(remain[c])
  BY <1>1, <1>3 DEF StartHandler, TypeOK, TaskSt
<1> QED
  BY <1>2, <1>3

(* Every step keeps the types. *)
LEMMA TypeStep == IInv /\ [Next]_vars => TypeOK'
<1> SUFFICES ASSUME IInv, [Next]_vars PROVE TypeOK'
  OBVIOUS
<1> USE CallsAssumption, PermitsAssumption, BudgetAssumption
<1> USE DEF IInv, Phases, TaskSt, Outcome, Pending, flow, proxyv
<1>a. CASE BeginRun \/ EndRun
  BY <1>a DEF BeginRun, EndRun, TypeOK, TotalTime
<1>b. CASE CancelRun
  BY <1>b DEF CancelRun, TypeOK
<1>c. ASSUME NEW c \in Calls, NEW as \in ArgLists, CallTool(c, as)
      PROVE  TypeOK'
  <2>1. as \in Seq(Calls)
    BY ArgListsType
  <2>2. {as[i] : i \in 1..Len(as)} \in SUBSET Calls
    BY <2>1, RangeOfSeq, RangeEquality, ZenonT(30)
  <2> QED
    BY <1>c, <2>1, <2>2 DEF CallTool, TypeOK
<1>d. ASSUME NEW p \in Calls, ResolveCached(p) \/ ResolveConsumed(p)
      PROVE  TypeOK'
  BY <1>d, ResolveReturns, DeliverType
     DEF ResolveCached, ResolveConsumed, TypeOK
<1>e. ASSUME NEW p \in Calls, ResolveTake(p)
      PROVE  TypeOK'
  BY <1>e DEF ResolveTake, TypeOK
<1>f. CASE ResolveJoin
  <2>1. awaiting \in Calls /\ result[awaiting] \in Outcome
    BY <1>f DEF ResolveJoin, FlowOK
  <2> QED
    BY <1>f, <2>1, ResolveReturns, DeliverType DEF ResolveJoin, TypeOK
<1>g. CASE SpawnTool
  BY <1>g, RemainingType DEF SpawnTool, TypeOK, FlowOK
<1>h. CASE CallInline
  BY <1>h, RemainingType DEF CallInline, TypeOK, FlowOK
<1>i. ASSUME NEW r \in Outcome, InlineEnds(r)
      PROVE  TypeOK'
  BY <1>i DEF InlineEnds, TypeOK, FlowOK
<1>j. ASSUME NEW c \in Calls, PollTask(c)
      PROVE  TypeOK'
  <2>1. CASE permits > 0 /\ waitq = <<>>
    <3>1. StartHandler(c) /\ UNCHANGED waitq
      BY <1>j, <2>1 DEF PollTask
    <3> QED
      BY <1>j, <2>1, <3>1, StartHandlerType DEF PollTask, TypeOK
  <2>2. CASE ~(permits > 0 /\ waitq = <<>>)
    <3>1. Append(waitq, c) \in Seq(Calls)
      BY DEF TypeOK
    <3>2. /\ task' = [task EXCEPT ![c] = "queued"]
          /\ waitq' = Append(waitq, c)
          /\ UNCHANGED <<permits, result, flow, elapsed, remain, budget, proxyv,
                         deps>>
      BY <1>j, <2>2 DEF PollTask
    <3> QED
      BY <3>1, <3>2 DEF TypeOK
  <2> QED
    BY <2>1, <2>2
<1>k. CASE AcquirePermit
  <2>1. Head(waitq) \in Calls /\ Tail(waitq) \in Seq(Calls)
    BY <1>k DEF AcquirePermit, TypeOK
  <2> QED
    BY <1>k, <2>1, StartHandlerType DEF AcquirePermit, TypeOK
<1>l. ASSUME NEW c \in Calls, NEW r \in Outcome, TaskEnds(c, r)
      PROVE  TypeOK'
  <2>1. permits + 1 \in 0..MaxConcurrentTools
    BY <1>l, PermitRange DEF TaskEnds
  <2> QED
    BY <1>l, <2>1 DEF TaskEnds, TypeOK
<1>m. CASE Tick
  <2>1. TotalTime \in Nat
    BY DEF TotalTime
  <2>2. elapsed' \in 0..TotalTime
    BY <1>m DEF Tick, TypeOK, TotalTime
  <2>3. /\ remain' \in [Calls -> 0..TotalTime]
        /\ budget' \in [Calls -> 0..TotalTime]
    BY <1>m, <2>1, DecType DEF Tick, TypeOK
  <2> QED
    BY <1>m, <2>2, <2>3 DEF Tick, TypeOK
<1>n. CASE UNCHANGED vars
  BY <1>n DEF vars, TypeOK
<1> QED
  BY <1>a, <1>b, <1>c, <1>d, <1>e, <1>f, <1>g, <1>h, <1>i, <1>j, <1>k, <1>l,
     <1>m, <1>n DEF Next

(* Every step keeps the phases and the results. *)
LEMMA FlowStep == IInv /\ [Next]_vars => FlowOK'
<1> SUFFICES ASSUME IInv, [Next]_vars PROVE FlowOK'
  OBVIOUS
<1> USE CallsAssumption
<1> USE DEF IInv, TaskSt, Outcome, flow, proxyv
<1>a. CASE BeginRun \/ EndRun
  BY <1>a DEF BeginRun, EndRun, FlowOK
<1>b. CASE CancelRun
  BY <1>b DEF CancelRun, TypeOK, FlowOK
<1>c. ASSUME NEW c \in Calls, NEW as \in ArgLists, CallTool(c, as)
      PROVE  FlowOK'
  BY <1>c DEF CallTool, FlowOK
<1>d. ASSUME NEW p \in Calls, ResolveCached(p) \/ ResolveConsumed(p)
      PROVE  FlowOK'
  <2>1. UNCHANGED result
    BY <1>d DEF ResolveCached, ResolveConsumed
  <2> QED
    BY <1>d, <2>1, ResolveReturns, DeliverType DEF FlowOK
<1>e. ASSUME NEW p \in Calls, ResolveTake(p)
      PROVE  FlowOK'
  BY <1>e DEF ResolveTake, Consumes, FlowOK
<1>f. CASE ResolveJoin
  <2>1. awaiting \in Calls /\ UNCHANGED result
    BY <1>f DEF ResolveJoin, FlowOK
  <2> QED
    BY <1>f, <2>1, ResolveReturns, DeliverType DEF FlowOK
<1>g. CASE SpawnTool
  BY <1>g DEF SpawnTool, TypeOK, FlowOK
<1>h. CASE CallInline
  <2>1. CASE NoTimeLeft(remaining_tool_timeout)
    <3>1. /\ phase' = "eval" /\ cur' = NoCall /\ cur \in Calls
          /\ task' = [task EXCEPT ![cur] = "done"]
          /\ result' = [result EXCEPT ![cur] = "timeout"]
      BY <1>h, <2>1 DEF CallInline, FlowOK
    <3>2. \A c \in Calls : task'[c] = "done" => result'[c] \in Outcome
      BY <3>1 DEF TypeOK, FlowOK
    <3> QED
      BY <3>1, <3>2 DEF FlowOK
  <2>2. CASE ~NoTimeLeft(remaining_tool_timeout)
    BY <1>h, <2>2 DEF CallInline, TypeOK, FlowOK
  <2> QED
    BY <2>1, <2>2
<1>i. ASSUME NEW r \in Outcome, InlineEnds(r)
      PROVE  FlowOK'
  <2>1. /\ phase' = "eval" /\ cur' = NoCall /\ cur \in Calls
        /\ task' = [task EXCEPT ![cur] = "done"]
        /\ result' = [result EXCEPT ![cur] = r]
    BY <1>i DEF InlineEnds, FlowOK
  <2>2. \A c \in Calls : task'[c] = "done" => result'[c] \in Outcome
    BY <2>1 DEF TypeOK, FlowOK
  <2> QED
    BY <2>1, <2>2 DEF FlowOK
<1>j. ASSUME NEW c \in Calls, PollTask(c)
      PROVE  FlowOK'
  <2>1. /\ \A d \in Calls : d # c => task'[d] = task[d] /\ result'[d] = result[d]
        /\ task'[c] = "done" => result'[c] = "timeout"
        /\ task[c] = "spawned" /\ UNCHANGED flow
    <3>1. CASE permits > 0 /\ waitq = <<>>
      <4>1. StartHandler(c)
        BY <1>j, <3>1 DEF PollTask
      <4> QED
        BY <1>j, <3>1, <4>1, StartHandlerType DEF PollTask
    <3>2. CASE ~(permits > 0 /\ waitq = <<>>)
      BY <1>j, <3>2 DEF PollTask, TypeOK
    <3> QED
      BY <3>1, <3>2
  <2> QED
    BY <2>1 DEF FlowOK, TypeOK
<1>k. CASE AcquirePermit
  <2>1. Head(waitq) \in Calls /\ task[Head(waitq)] = "queued"
    BY <1>k DEF AcquirePermit, TypeOK, QueueExact
  <2>2. /\ \A d \in Calls : d # Head(waitq) => /\ task'[d] = task[d]
                                               /\ result'[d] = result[d]
        /\ task'[Head(waitq)] = "done" => result'[Head(waitq)] = "timeout"
        /\ UNCHANGED flow
    <3>1. StartHandler(Head(waitq)) /\ permits > 0 /\ UNCHANGED flow
      BY <1>k DEF AcquirePermit
    <3> QED
      BY <2>1, <3>1, StartHandlerType
  <2> QED
    BY <2>1, <2>2 DEF FlowOK, TypeOK
<1>l. ASSUME NEW c \in Calls, NEW r \in Outcome, TaskEnds(c, r)
      PROVE  FlowOK'
  BY <1>l DEF TaskEnds, TypeOK, FlowOK
<1>m. CASE Tick
  BY <1>m DEF Tick, FlowOK
<1>n. CASE UNCHANGED vars
  BY <1>n DEF vars, FlowOK
<1> QED
  BY <1>a, <1>b, <1>c, <1>d, <1>e, <1>f, <1>g, <1>h, <1>i, <1>j, <1>k, <1>l,
     <1>m, <1>n DEF Next

-----------------------------------------------------------------------------
(* Only these steps touch the semaphore; the others neither start, queue   *)
(* nor end a spawned task.                                                 *)
SemaphoreStep ==
    \/ \E c \in Calls : PollTask(c)
    \/ AcquirePermit
    \/ \E c \in Calls : \E r \in Outcome : TaskEnds(c, r)

(* Every other step leaves permits, queue and running handlers alone. *)
LEMMA OtherSteps ==
    ASSUME IInv, [Next]_vars, ~SemaphoreStep
    PROVE  /\ UNCHANGED <<permits, waitq>>
           /\ \A c \in Calls : /\ task'[c] = "running" <=> task[c] = "running"
                               /\ task'[c] = "queued" <=> task[c] = "queued"
<1> USE CallsAssumption
<1> USE DEF IInv, flow, proxyv
<1>a. CASE BeginRun \/ EndRun
  BY <1>a DEF BeginRun, EndRun
<1>b. CASE CancelRun
  <2>1. cur \in Calls => task[cur] \in {"unused", "inline"}
    BY <1>b DEF CancelRun, TypeOK, FlowOK, Phases
  <2> QED
    BY <1>b, <2>1 DEF CancelRun, TypeOK
<1>c. ASSUME NEW c \in Calls, NEW as \in ArgLists, CallTool(c, as)
      PROVE  UNCHANGED <<permits, waitq, task>>
  BY <1>c DEF CallTool
<1>d. ASSUME NEW p \in Calls, ResolveCached(p) \/ ResolveConsumed(p)
                                \/ (ResolveJoin /\ p = awaiting)
      PROVE  /\ UNCHANGED <<permits, waitq>>
             /\ \A c \in Calls : /\ task'[c] = "running" <=> task[c] = "running"
                                 /\ task'[c] = "queued" <=> task[c] = "queued"
  <2>1. phase \in {"eval", "args", "await"}
    BY <1>d, ResolveReturns
  <2>2. cur \in Calls => task[cur] = "unused"
    BY <2>1 DEF FlowOK
  <2>3. \A c \in Calls : /\ c # cur => task'[c] = task[c]
                         /\ task'[c] \in {task[c], "abandoned"}
    BY <1>d, ResolveReturns, DeliverType
  <2>4. UNCHANGED <<permits, waitq>>
    BY <1>d DEF ResolveCached, ResolveConsumed, ResolveJoin
  <2> QED
    BY <2>2, <2>3, <2>4
<1>e. ASSUME NEW p \in Calls, ResolveTake(p)
      PROVE  UNCHANGED <<permits, waitq, task>>
  BY <1>e DEF ResolveTake
<1>f. ResolveJoin => awaiting \in Calls
  BY DEF ResolveJoin, FlowOK
<1>g. CASE SpawnTool
  BY <1>g DEF SpawnTool, TypeOK, FlowOK
<1>h. CASE CallInline
  BY <1>h DEF CallInline, TypeOK, FlowOK
<1>i. ASSUME NEW r \in Outcome, InlineEnds(r)
      PROVE  /\ UNCHANGED <<permits, waitq>>
             /\ \A c \in Calls : /\ task'[c] = "running" <=> task[c] = "running"
                                 /\ task'[c] = "queued" <=> task[c] = "queued"
  BY <1>i DEF InlineEnds, TypeOK, FlowOK
<1>m. CASE Tick
  BY <1>m DEF Tick
<1>n. CASE UNCHANGED vars
  BY <1>n DEF vars
<1> QED
  BY <1>a, <1>b, <1>c, <1>d, <1>e, <1>f, <1>g, <1>h, <1>i, <1>m, <1>n
     DEF Next, SemaphoreStep

(* The queue after a task joined it and after its head was served. *)
LEMMA QueueStep == IInv /\ [Next]_vars => QueueExact'
<1> SUFFICES ASSUME IInv, [Next]_vars PROVE QueueExact'
  OBVIOUS
<1> USE DEF IInv
<1>1. ASSUME NEW c \in Calls, PollTask(c)
      PROVE  QueueExact'
  <2>1. CASE permits > 0 /\ waitq = <<>>
    <3>1. StartHandler(c) /\ waitq' = waitq /\ task[c] = "spawned"
      BY <1>1, <2>1 DEF PollTask
    <3>2. \A d \in Calls : task'[d] = "queued" <=> task[d] = "queued"
      BY <2>1, <3>1, StartHandlerType
    <3> QED
      BY <3>1, <3>2 DEF QueueExact
  <2>2. CASE ~(permits > 0 /\ waitq = <<>>)
    <3>1. /\ task' = [task EXCEPT ![c] = "queued"]
          /\ waitq' = Append(waitq, c)
          /\ task[c] = "spawned"
      BY <1>1, <2>2 DEF PollTask
    <3>2. /\ waitq \in Seq(Calls) /\ Len(waitq) \in Nat
          /\ Len(waitq') = Len(waitq) + 1
          /\ \A i \in 1..Len(waitq) : waitq'[i] = waitq[i]
          /\ waitq'[Len(waitq) + 1] = c
      BY <3>1 DEF TypeOK
    <3>3. \A i \in 1..Len(waitq) : waitq[i] # c
      BY <3>1 DEF QueueExact
    <3>4. \A d \in Calls : task'[d] = "queued" <=> (d = c \/ task[d] = "queued")
      BY <3>1 DEF TypeOK
    <3>5. \A d \in Calls : task'[d] = "queued" <=>
                              \E i \in 1..Len(waitq') : waitq'[i] = d
      BY <3>2, <3>4 DEF QueueExact
    <3>6. \A i, j \in 1..Len(waitq') : waitq'[i] = waitq'[j] => i = j
      BY <3>2, <3>3 DEF QueueExact
    <3> QED
      BY <3>5, <3>6 DEF QueueExact
  <2> QED
    BY <2>1, <2>2
<1>2. CASE AcquirePermit
  <2>1. /\ StartHandler(Head(waitq)) /\ permits > 0
        /\ waitq' = Tail(waitq) /\ waitq # <<>>
    BY <1>2 DEF AcquirePermit
  <2>2. /\ waitq \in Seq(Calls) /\ Len(waitq) \in Nat \ {0}
        /\ Head(waitq) = waitq[1] /\ Head(waitq) \in Calls
        /\ Len(waitq') = Len(waitq) - 1
        /\ \A i \in 1..Len(waitq') : waitq'[i] = waitq[i + 1]
    BY <2>1 DEF TypeOK
  <2>3. \A d \in Calls : task'[d] = "queued" <=>
                            d # Head(waitq) /\ task[d] = "queued"
    BY <2>1, <2>2, StartHandlerType
  <2>4. \A i, j \in 1..Len(waitq') : waitq'[i] = waitq'[j] => i = j
    <3>1. SUFFICES ASSUME NEW i \in 1..Len(waitq'), NEW j \in 1..Len(waitq'),
                          waitq'[i] = waitq'[j]
                   PROVE  i = j
      OBVIOUS
    <3>2. i + 1 \in 1..Len(waitq) /\ j + 1 \in 1..Len(waitq)
      BY <2>2
    <3> QED
      BY <2>2, <3>1, <3>2 DEF QueueExact
  <2>5. ASSUME NEW d \in Calls
        PROVE  task'[d] = "queued" <=> \E i \in 1..Len(waitq') : waitq'[i] = d
    <3>1. ASSUME task'[d] = "queued"
          PROVE  \E i \in 1..Len(waitq') : waitq'[i] = d
      <4>1. PICK k \in 1..Len(waitq) : waitq[k] = d
        BY <2>3, <3>1 DEF QueueExact
      <4>2. k # 1
        BY <2>2, <2>3, <3>1, <4>1
      <4>3. k - 1 \in 1..Len(waitq')
        BY <2>2, <4>2
      <4>4. waitq'[k - 1] = waitq[(k - 1) + 1]
        BY <2>2, <4>3
      <4> QED
        BY <4>1, <4>3, <4>4
    <3>2. ASSUME NEW i \in 1..Len(waitq'), waitq'[i] = d
          PROVE  task'[d] = "queued"
      <4>1. i + 1 \in 1..Len(waitq) /\ 1 \in 1..Len(waitq) /\ waitq[i + 1] = d
        BY <2>2, <3>2
      <4>2. task[d] = "queued"
        BY <4>1 DEF QueueExact
      <4>3. d # Head(waitq)
        BY <2>2, <4>1 DEF QueueExact
      <4> QED
        BY <2>3, <4>2, <4>3
    <3> QED
      BY <3>1, <3>2
  <2> QED
    BY <2>4, <2>5 DEF QueueExact
<1>3. ASSUME NEW c \in Calls, NEW r \in Outcome, TaskEnds(c, r)
      PROVE  QueueExact'
  <2>1. waitq' = waitq
    BY <1>3 DEF TaskEnds
  <2>2. \A d \in Calls : task'[d] = "queued" <=> task[d] = "queued"
    BY <1>3 DEF TaskEnds, TypeOK
  <2> QED
    BY <2>1, <2>2 DEF QueueExact
<1>4. CASE ~SemaphoreStep
  BY <1>4, OtherSteps DEF QueueExact
<1> QED
  BY <1>1, <1>2, <1>3, <1>4 DEF SemaphoreStep

(* How the number of free permits follows the number of running handlers.  *)
LEMMA PermitStep == IInv /\ [Next]_vars => PermitsConserved'
<1> SUFFICES ASSUME IInv, [Next]_vars PROVE PermitsConserved'
  OBVIOUS
<1> USE DEF IInv
<1>1. ASSUME NEW c \in Calls, task[c] # "running", permits > 0, StartHandler(c)
      PROVE  PermitsConserved'
  <2>1. CASE task'[c] = "running"
    <3>1. Running' = Running \cup {c} /\ c \notin Running
      BY <1>1, <2>1, StartHandlerType DEF Running
    <3>2. Cardinality(Running') = Cardinality(Running) + 1
      BY <3>1, RunningFinite, FS_AddElement
    <3>3. permits' = permits - 1
      BY <1>1, <2>1, StartHandlerType
    <3> QED
      BY <3>2, <3>3, RunningFinite, PermitsAssumption
         DEF PermitsConserved, TypeOK
  <2>2. CASE task'[c] = "done"
    <3>1. Running' = Running /\ permits' = permits
      BY <1>1, <2>2, StartHandlerType DEF Running
    <3> QED
      BY <3>1 DEF PermitsConserved
  <2> QED
    BY <1>1, <2>1, <2>2, StartHandlerType
<1>2. ASSUME NEW c \in Calls, PollTask(c)
      PROVE  PermitsConserved'
  <2>1. CASE permits > 0 /\ waitq = <<>>
    BY <1>1, <1>2, <2>1 DEF PollTask
  <2>2. CASE ~(permits > 0 /\ waitq = <<>>)
    <3>1. /\ task' = [task EXCEPT ![c] = "queued"] /\ permits' = permits
          /\ task[c] = "spawned"
      BY <1>2, <2>2 DEF PollTask
    <3>2. Running' = Running
      BY <3>1 DEF Running, TypeOK
    <3> QED
      BY <3>1, <3>2 DEF PermitsConserved
  <2> QED
    BY <2>1, <2>2
<1>3. CASE AcquirePermit
  <2>1. Head(waitq) \in Calls /\ task[Head(waitq)] = "queued"
    BY <1>3 DEF AcquirePermit, TypeOK, QueueExact
  <2> QED
    BY <1>1, <1>3, <2>1 DEF AcquirePermit
<1>4. ASSUME NEW c \in Calls, NEW r \in Outcome, TaskEnds(c, r)
      PROVE  PermitsConserved'
  <2>1. Running' = Running \ {c} /\ c \in Running
    BY <1>4 DEF TaskEnds, Running, TypeOK
  <2>2. Cardinality(Running') = Cardinality(Running) - 1
    BY <2>1, RunningFinite, FS_RemoveElement
  <2>3. permits' = permits + 1
    BY <1>4 DEF TaskEnds
  <2> QED
    BY <2>2, <2>3, RunningFinite, PermitsAssumption
       DEF PermitsConserved, TypeOK
<1>5. CASE ~SemaphoreStep
  <2>1. Running' = Running /\ permits' = permits
    BY <1>5, OtherSteps DEF Running
  <2> QED
    BY <2>1 DEF PermitsConserved
<1> QED
  BY <1>2, <1>3, <1>4, <1>5 DEF SemaphoreStep

-----------------------------------------------------------------------------
(* The inductive invariant holds in every reachable state. *)
LEMMA IInvInvariant == Spec => []IInv
<1>1. IInv /\ [Next]_vars => IInv'
  BY TypeStep, FlowStep, QueueStep, PermitStep DEF IInv
<1> QED
  BY IInvInit, <1>1, PTL DEF Spec

(* The variables keep their types: in particular the semaphore never holds *)
(* more than max_concurrent_tools permits and no duration is negative.     *)
THEOREM TypeCorrect == Spec => []TypeOK
<1>1. IInv => TypeOK
  BY DEF IInv
<1> QED
  BY IInvInvariant, <1>1, PTL

(* No way for a handler to end, and no way for its run to end before it,   *)
(* loses or invents a permit: for every number of calls, at most           *)
(* max_concurrent_tools parallel handlers run at once.                     *)
THEOREM PermitsAreConserved == Spec => []PermitsConserved
<1>1. IInv => PermitsConserved
  BY DEF IInv
<1> QED
  BY IInvInvariant, <1>1, PTL

-----------------------------------------------------------------------------
(* A proxy whose task succeeded and was joined. *)
Settled(p) == task[p] = "done" /\ cached[p] = "ok"

(* The strengthening of ArgsMaterialised: what is cached is what the task  *)
(* ended with, the proxy being awaited is not cached yet, and of the call  *)
(* being prepared every proxy argument is settled or still in the list.    *)
CacheInv ==
    /\ \A c \in Calls : cached[c] # Pending =>
          task[c] = "done" /\ cached[c] = result[c]
    /\ phase = "await" => cached[awaiting] = Pending
ArgsInv ==
    phase \in {"args", "await"} /\ cur # NoCall =>
        \A p \in deps[cur] : Settled(p) \/ \E i \in 1..Len(args) : args[i] = p
DInv == IInv /\ CacheInv /\ ArgsInv /\ ArgsMaterialised

(* A task that is done stays done, with the result it ended with. *)
LEMMA DoneStable ==
    ASSUME IInv, [Next]_vars, NEW c \in Calls, task[c] = "done"
    PROVE  task'[c] = "done" /\ result'[c] = result[c]
<1> USE CallsAssumption
<1> USE DEF IInv, flow, proxyv
<1>0. cur = c => FALSE
  BY DEF TypeOK, FlowOK, Phases
<1>a. CASE BeginRun \/ EndRun \/ CancelRun
  BY <1>0, <1>a DEF BeginRun, EndRun, CancelRun
<1>b. ASSUME NEW d \in Calls, NEW as \in ArgLists, CallTool(d, as)
      PROVE  UNCHANGED <<task, result>>
  BY <1>b DEF CallTool
<1>d. ASSUME NEW p \in Calls, ResolveCached(p) \/ ResolveConsumed(p)
                                \/ (ResolveJoin /\ p = awaiting)
      PROVE  task'[c] = "done" /\ result'[c] = result[c]
  <2>1. UNCHANGED result
    BY <1>d DEF ResolveCached, ResolveConsumed, ResolveJoin
  <2> QED
    BY <1>0, <1>d, <2>1, ResolveReturns, DeliverType
<1>e. ASSUME NEW p \in Calls, ResolveTake(p)
      PROVE  UNCHANGED <<task, result>>
  BY <1>e DEF ResolveTake
<1>f. ResolveJoin => awaiting \in Calls
  BY DEF ResolveJoin, FlowOK
<1>g. CASE SpawnTool \/ CallInline
  BY <1>0, <1>g DEF SpawnTool, CallInline, TypeOK, FlowOK
<1>i. ASSUME NEW r \in Outcome, InlineEnds(r)
      PROVE  task'[c] = "done" /\ result'[c] = result[c]
  BY <1>0, <1>i DEF InlineEnds, TypeOK, FlowOK
<1>j. ASSUME NEW d \in Calls, PollTask(d)
      PROVE  task'[c] = "done" /\ result'[c] = result[c]
  <2>1. d # c
    BY <1>j DEF PollTask
  <2>2. CASE permits > 0 /\ waitq = <<>>
    <3>1. StartHandler(d)
      BY <1>j, <2>2 DEF PollTask
    <3> QED
      BY <2>1, <2>2, <3>1, StartHandlerType
  <2>3. CASE ~(permits > 0 /\ waitq = <<>>)
    BY <1>j, <2>1, <2>3 DEF PollTask, TypeOK
  <2> QED
    BY <2>2, <2>3
<1>k. CASE AcquirePermit
  <2>1. Head(waitq) \in Calls /\ task[Head(waitq)] = "queued"
    BY <1>k DEF AcquirePermit, TypeOK, QueueExact
  <2>2. StartHandler(Head(waitq)) /\ permits > 0 /\ Head(waitq) # c
    BY <1>k, <2>1 DEF AcquirePermit
  <2> QED
    BY <2>1, <2>2, StartHandlerType
<1>l. ASSUME NEW d \in Calls, NEW r \in Outcome, TaskEnds(d, r)
      PROVE  task'[c] = "done" /\ result'[c] = result[c]
  BY <1>l DEF TaskEnds, TypeOK
<1>m. CASE Tick
  BY <1>m DEF Tick
<1>n. CASE UNCHANGED vars
  BY <1>n DEF vars
<1> QED
  BY <1>a, <1>b, <1>d, <1>e, <1>f, <1>g, <1>i, <1>j, <1>k, <1>l, <1>m, <1>n
     DEF Next

(* Only ResolveJoin writes a cache, and only an empty one. *)
LEMMA CacheStep ==
    ASSUME IInv, CacheInv, [Next]_vars
    PROVE  /\ CacheInv'
           /\ \A c \in Calls : cached[c] # Pending => cached'[c] = cached[c]
           /\ \A c \in Calls : Settled(c) => Settled(c)'
<1> USE DEF IInv, flow, proxyv
<1>1. \A c \in Calls : task[c] = "done" => task'[c] = "done"
                                           /\ result'[c] = result[c]
  BY DoneStable
<1>2. ASSUME NEW p \in Calls, ResolveCached(p) \/ ResolveConsumed(p)
      PROVE  phase' # "await" /\ cached' = cached
  BY <1>2 DEF ResolveCached, ResolveConsumed, Deliver
<1>3. ASSUME NEW p \in Calls, ResolveTake(p)
      PROVE  awaiting' = p /\ cached' = cached /\ cached[p] = Pending
  BY <1>3 DEF ResolveTake
<1>4. CASE ResolveJoin
  <2>1. /\ awaiting \in Calls /\ task[awaiting] = "done"
        /\ cached[awaiting] = Pending
        /\ phase' # "await"
        /\ cached' = [cached EXCEPT ![awaiting] = result[awaiting]]
    BY <1>4 DEF ResolveJoin, Deliver, FlowOK, CacheInv
  <2>2. \A c \in Calls : /\ c # awaiting => cached'[c] = cached[c]
                         /\ c = awaiting => cached'[c] = result[c]
    BY <2>1 DEF TypeOK
  <2>3. \A c \in Calls : cached[c] # Pending => cached'[c] = cached[c]
    BY <2>1, <2>2
  <2>4. \A c \in Calls : cached'[c] # Pending =>
                            task'[c] = "done" /\ cached'[c] = result'[c]
    BY <1>1, <2>1, <2>2 DEF CacheInv
  <2>5. \A c \in Calls : Settled(c) => Settled(c)'
    BY <1>1, <2>3 DEF Settled, Pending
  <2> QED
    BY <2>1, <2>3, <2>4, <2>5 DEF CacheInv
<1>5. CASE UNCHANGED cached /\ (phase' = "await" => UNCHANGED <<phase, awaiting>>)
  BY <1>1, <1>5 DEF CacheInv, Settled
<1>6. ASSUME NEW p \in Calls, ResolveTake(p)
      PROVE  CacheInv'
  BY <1>1, <1>3, <1>6 DEF CacheInv
<1>7. CASE BeginRun \/ EndRun \/ CancelRun \/ SpawnTool \/ CallInline \/ Tick
           \/ AcquirePermit
  BY <1>5, <1>7 DEF BeginRun, EndRun, CancelRun, SpawnTool, CallInline, Tick,
                    AcquirePermit
<1>8. ASSUME NEW c \in Calls,
             \/ \E as \in ArgLists : CallTool(c, as)
             \/ PollTask(c)
             \/ \E r \in Outcome : TaskEnds(c, r) \/ InlineEnds(r)
      PROVE  UNCHANGED cached /\ (phase' = "await" => UNCHANGED <<phase, awaiting>>)
  BY <1>8 DEF CallTool, PollTask, TaskEnds, InlineEnds
<1>9. ASSUME NEW r \in Outcome, InlineEnds(r)
      PROVE  UNCHANGED cached /\ (phase' = "await" => UNCHANGED <<phase, awaiting>>)
  BY <1>9 DEF InlineEnds
<1>10. CASE UNCHANGED vars
  BY <1>5, <1>10 DEF vars
<1>11. CASE \E p \in Calls : ResolveCached(p) \/ ResolveConsumed(p)
  BY <1>2, <1>5, <1>11
<1>12. CASE \E p \in Calls : ResolveTake(p)
  BY <1>1, <1>3, <1>6, <1>12 DEF Settled
<1> QED
  BY <1>4, <1>5, <1>7, <1>8, <1>9, <1>10, <1>11, <1>12 DEF Next

(* The states of a call whose handler was spawned or started. *)
Started == {"spawned", "queued", "running", "inline", "done"}

(* Only dispatching a call starts it, and only calling it gives it its     *)
(* arguments.                                                              *)
LEMMA StartedStep ==
    ASSUME IInv, [Next]_vars, ~SpawnTool, ~CallInline,
           NEW c \in Calls, task'[c] \in Started
    PROVE  task[c] \in Started /\ deps'[c] = deps[c]
<1> USE CallsAssumption
<1> USE DEF IInv, flow, proxyv, Started
<1>a. CASE BeginRun \/ EndRun \/ CancelRun
  BY <1>a DEF BeginRun, EndRun, CancelRun
<1>b. ASSUME NEW d \in Calls, NEW as \in ArgLists, CallTool(d, as)
      PROVE  task[c] \in Started /\ deps'[c] = deps[c]
  BY <1>b DEF CallTool, TypeOK
<1>d. ASSUME NEW p \in Calls, ResolveCached(p) \/ ResolveConsumed(p)
                                \/ (ResolveJoin /\ p = awaiting)
      PROVE  task[c] \in Started /\ deps'[c] = deps[c]
  <2>1. UNCHANGED deps
    BY <1>d DEF ResolveCached, ResolveConsumed, ResolveJoin
  <2> QED
    BY <1>d, <2>1, ResolveReturns, DeliverType
<1>e. ASSUME NEW p \in Calls, ResolveTake(p)
      PROVE  UNCHANGED <<task, deps>>
  BY <1>e DEF ResolveTake
<1>f. ResolveJoin => awaiting \in Calls
  BY DEF ResolveJoin, FlowOK
<1>i. ASSUME NEW r \in Outcome, InlineEnds(r)
      PROVE  task[c] \in Started /\ deps'[c] = deps[c]
  BY <1>i DEF InlineEnds, TypeOK, FlowOK
<1>j. ASSUME NEW d \in Calls, PollTask(d)
      PROVE  task[c] \in Started /\ deps'[c] = deps[c]
  <2>1. task[d] = "spawned" /\ UNCHANGED deps
    BY <1>j DEF PollTask
  <2>2. CASE permits > 0 /\ waitq = <<>>
    <3>1. StartHandler(d)
      BY <1>j, <2>2 DEF PollTask
    <3> QED
      BY <2>1, <2>2, <3>1, StartHandlerType
  <2>3. CASE ~(permits > 0 /\ waitq = <<>>)
    BY <1>j, <2>1, <2>3 DEF PollTask, TypeOK
  <2> QED
    BY <2>2, <2>3
<1>k. CASE AcquirePermit
  <2>1. Head(waitq) \in Calls /\ task[Head(waitq)] = "queued"
    BY <1>k DEF AcquirePermit, TypeOK, QueueExact
  <2>2. StartHandler(Head(waitq)) /\ permits > 0 /\ UNCHANGED deps
    BY <1>k DEF AcquirePermit
  <2> QED
    BY <2>1, <2>2, StartHandlerType
<1>l. ASSUME NEW d \in Calls, NEW r \in Outcome, TaskEnds(d, r)
      PROVE  task[c] \in Started /\ deps'[c] = deps[c]
  BY <1>l DEF TaskEnds, TypeOK
<1>m. CASE Tick
  BY <1>m DEF Tick
<1>n. CASE UNCHANGED vars
  BY <1>n DEF vars
<1> QED
  BY <1>a, <1>b, <1>d, <1>e, <1>f, <1>i, <1>j, <1>k, <1>l, <1>m, <1>n DEF Next

(* The arguments of the call being prepared. *)
LEMMA ArgsStep ==
    ASSUME IInv, CacheInv, ArgsInv, [Next]_vars
    PROVE  ArgsInv'
<1> USE CallsAssumption
<1> USE DEF IInv, flow, proxyv
<1>0. \A c \in Calls : Settled(c) => Settled(c)'
  BY CacheStep
<1>1. SUFFICES ASSUME phase' \in {"args", "await"}, cur' # NoCall, cur' \in Calls,
                      NEW q \in deps'[cur']
               PROVE  Settled(q)' \/ \E i \in 1..Len(args') : args'[i] = q
  BY TypeStep DEF ArgsInv, TypeOK
<1>2. CASE /\ UNCHANGED <<cur, args, deps>> /\ phase \in {"args", "await"}
  BY <1>0, <1>1, <1>2 DEF ArgsInv, TypeOK
<1>b. ASSUME NEW c \in Calls, NEW as \in ArgLists, CallTool(c, as)
      PROVE  Settled(q)' \/ \E i \in 1..Len(args') : args'[i] = q
  <2>1. cur' = c /\ args' = as /\ deps'[c] = {as[i] : i \in 1..Len(as)}
    BY <1>b DEF CallTool, TypeOK
  <2> QED
    BY <1>1, <2>1
<1>d. ASSUME NEW p \in Calls, ResolveCached(p) \/ ResolveConsumed(p)
                                \/ (ResolveJoin /\ p = awaiting)
      PROVE  Settled(q)' \/ \E i \in 1..Len(args') : args'[i] = q
  <2>1. /\ cur' = cur /\ args' = Tail(args) /\ cur # NoCall
        /\ deps' = deps /\ phase \in {"args", "await"} /\ args # <<>>
        /\ p = Head(args)
    BY <1>1, <1>d DEF ResolveCached, ResolveConsumed, ResolveJoin, Deliver,
                      Consumes, FlowOK
  <2>2. Settled(p)'
    <3>1. CASE ResolveCached(p)
      <4>1. cached[p] = "ok" /\ cached[p] # Pending
        BY <1>1, <3>1 DEF ResolveCached, Deliver
      <4> QED
        BY <1>0, <4>1 DEF CacheInv, Settled
    <3>2. CASE ResolveConsumed(p)
      BY <1>1, <3>2 DEF ResolveConsumed, Deliver
    <3>3. CASE ResolveJoin /\ p = awaiting
      <4>1. result[p] = "ok" /\ task[p] = "done" /\ UNCHANGED task
        BY <1>1, <3>3 DEF ResolveJoin, Deliver
      <4>2. cached'[p] = "ok"
        BY <3>3, <4>1 DEF ResolveJoin, TypeOK
      <4> QED
        BY <4>1, <4>2 DEF Settled
    <3> QED
      BY <1>d, <3>1, <3>2, <3>3
  <2>3. CASE Settled(q)
    BY <1>0, <1>1, <2>1, <2>3 DEF TypeOK
  <2>4. CASE ~Settled(q)
    <3>1. PICK i \in 1..Len(args) : args[i] = q
      BY <1>1, <2>1, <2>4 DEF ArgsInv
    <3>2. CASE i = 1
      BY <2>1, <2>2, <3>1, <3>2 DEF TypeOK
    <3>3. CASE i # 1
      <4>1. i - 1 \in 1..Len(args') /\ args'[i - 1] = args[(i - 1) + 1]
        BY <2>1, <3>1, <3>3 DEF TypeOK
      <4> QED
        BY <3>1, <4>1
    <3> QED
      BY <3>2, <3>3
  <2> QED
    BY <2>3, <2>4
<1>e. ASSUME NEW p \in Calls, ResolveTake(p)
      PROVE  UNCHANGED <<cur, args, deps>> /\ phase \in {"args", "await"}
  BY <1>1, <1>e DEF ResolveTake, Consumes, FlowOK
<1>f. ResolveJoin => awaiting \in Calls
  BY DEF ResolveJoin, FlowOK
<1>g. ASSUME \/ BeginRun \/ EndRun \/ CancelRun \/ SpawnTool \/ CallInline
             \/ \E r \in Outcome : InlineEnds(r)
      PROVE  FALSE
  BY <1>1, <1>g DEF BeginRun, EndRun, CancelRun, SpawnTool, CallInline,
                    InlineEnds, FlowOK
<1>j. ASSUME \/ \E c \in Calls : PollTask(c) \/ \E r \in Outcome : TaskEnds(c, r)
             \/ AcquirePermit \/ Tick \/ UNCHANGED vars
      PROVE  UNCHANGED <<cur, args, deps>> /\ phase \in {"args", "await"}
  BY <1>1, <1>j DEF PollTask, TaskEnds, AcquirePermit, Tick, vars
<1> QED
  BY <1>2, <1>b, <1>d, <1>e, <1>f, <1>g, <1>j DEF Next

(* A dispatched call only has settled arguments. *)
LEMMA MaterialisedStep ==
    ASSUME DInv, [Next]_vars
    PROVE  ArgsMaterialised'
<1> USE DEF DInv
<1>0. \A c \in Calls : Settled(c) => Settled(c)'
  BY CacheStep
<1>1. SUFFICES ASSUME NEW c \in Calls, task'[c] \in Started, NEW p \in deps'[c]
               PROVE  Settled(p)'
  BY DEF ArgsMaterialised, Started, Settled
<1>2. p \in Calls
  BY TypeStep DEF IInv, TypeOK
<1>3. CASE task[c] \in Started /\ deps'[c] = deps[c]
  BY <1>0, <1>1, <1>2, <1>3 DEF ArgsMaterialised, Started, Settled
<1>4. CASE SpawnTool \/ CallInline
  <2>1. /\ phase = "args" /\ args = <<>> /\ UNCHANGED deps /\ cur \in Calls
        /\ \A d \in Calls : d # cur => task'[d] = task[d]
    BY <1>4 DEF SpawnTool, CallInline, IInv, FlowOK, TypeOK
  <2>2. CASE c = cur
    <3>1. Len(args) = 0 /\ cur # NoCall
      BY <2>1, CallsAssumption
    <3> QED
      BY <1>0, <1>1, <1>2, <2>1, <2>2, <3>1 DEF ArgsInv
  <2>3. CASE c # cur
    BY <1>1, <1>3, <2>1, <2>3
  <2> QED
    BY <2>2, <2>3
<1> QED
  BY <1>1, <1>3, <1>4, StartedStep DEF IInv

(* Data dependencies order tool executions: for every set of calls, no     *)
(* handler is spawned or started before each proxy among its arguments was *)
(* joined with success.                                                    *)
THEOREM ArgumentsAreMaterialised == Spec => []ArgsMaterialised
<1>1. Init => DInv
  <2>1. Init => CacheInv /\ ArgsInv /\ ArgsMaterialised
    BY DEF Init, CacheInv, ArgsInv, ArgsMaterialised
  <2> QED
    BY <2>1, IInvInit DEF DInv
<1>2. DInv /\ [Next]_vars => DInv'
  BY TypeStep, FlowStep, QueueStep, PermitStep, CacheStep, ArgsStep,
     MaterialisedStep DEF DInv, IInv
<1>3. DInv => ArgsMaterialised
  BY DEF DInv
<1> QED
  BY <1>1, <1>2, <1>3, PTL DEF Spec

-----------------------------------------------------------------------------
(* Without cancellation a JoinHandle that was taken is either still being  *)
(* awaited or its result is cached, so resolve() never finds it consumed;  *)
(* and what was delivered once is the result of a task that is done.       *)
TakenInv ==
    \A c \in Calls : handle[c] = "taken" /\ cached[c] = Pending =>
        phase = "await" /\ awaiting = c
DeliveredInv ==
    \A c \in Calls : delivered[c] # {} =>
        task[c] = "done" /\ delivered[c] \subseteq {result[c]}

(* A step that is not a resolve delivers nothing and takes no handle. *)
LEMMA NotResolving ==
    ASSUME IInv, [Next]_vars, ~Cancellable, ~ResolveJoin,
           \A p \in Calls : ~ResolveCached(p) /\ ~ResolveConsumed(p) /\ ~ResolveTake(p)
    PROVE  /\ UNCHANGED <<delivered, cached>>
           /\ \A c \in Calls : handle'[c] = "taken" => handle[c] = "taken"
           /\ phase = "await" => UNCHANGED <<phase, awaiting>>
<1> USE DEF IInv, flow, proxyv
<1>a. CASE BeginRun \/ EndRun \/ CancelRun
  BY <1>a DEF BeginRun, EndRun, CancelRun
<1>b. ASSUME NEW d \in Calls, NEW as \in ArgLists, CallTool(d, as)
      PROVE  UNCHANGED proxyv /\ phase # "await"
  BY <1>b DEF CallTool
<1>g. CASE SpawnTool \/ CallInline
  BY <1>g DEF SpawnTool, CallInline, TypeOK, FlowOK
<1>j. ASSUME \/ \E c \in Calls : PollTask(c) \/ \E r \in Outcome : TaskEnds(c, r)
             \/ AcquirePermit \/ Tick \/ UNCHANGED vars
      PROVE  UNCHANGED <<proxyv, flow>>
  BY <1>j DEF PollTask, TaskEnds, AcquirePermit, Tick, vars
<1>i. ASSUME NEW r \in Outcome, InlineEnds(r)
      PROVE  UNCHANGED proxyv /\ phase # "await"
  BY <1>i DEF InlineEnds
<1> QED
  BY <1>a, <1>b, <1>g, <1>i, <1>j DEF Next

(* A taken handle is awaited until its result is cached. *)
LEMMA TakenStep ==
    ASSUME IInv, CacheInv, TakenInv, [Next]_vars, ~Cancellable
    PROVE  TakenInv'
<1> USE DEF IInv, flow, proxyv
<1>1. CASE /\ ~ResolveJoin
           /\ \A p \in Calls : ~ResolveCached(p) /\ ~ResolveConsumed(p)
                               /\ ~ResolveTake(p)
  BY <1>1, NotResolving DEF TakenInv
<1>2. CASE ResolveJoin
  <2>1. /\ awaiting \in Calls /\ result[awaiting] \in Outcome /\ handle' = handle
        /\ phase = "await"
        /\ cached' = [cached EXCEPT ![awaiting] = result[awaiting]]
    BY <1>2 DEF ResolveJoin, FlowOK
  <2>2. cached'[awaiting] # Pending
    BY <2>1 DEF TypeOK, Pending, Outcome
  <2>3. \A c \in Calls : c # awaiting => cached'[c] = cached[c]
    BY <2>1 DEF TypeOK
  <2> QED
    BY <2>1, <2>2, <2>3 DEF TakenInv
<1>3. ASSUME NEW p \in Calls, ResolveCached(p) \/ ResolveConsumed(p)
      PROVE  TakenInv'
  <2>1. phase # "await" /\ UNCHANGED <<handle, cached>>
    BY <1>3 DEF ResolveCached, ResolveConsumed, Consumes
  <2> QED
    BY <2>1 DEF TakenInv
<1>4. ASSUME NEW p \in Calls, ResolveTake(p)
      PROVE  TakenInv'
  <2>1. /\ phase # "await" /\ phase' = "await" /\ awaiting' = p
        /\ UNCHANGED cached /\ handle' = [handle EXCEPT ![p] = "taken"]
    BY <1>4 DEF ResolveTake, Consumes
  <2> QED
    BY <2>1 DEF TakenInv, TypeOK
<1> QED
  BY <1>1, <1>2, <1>3, <1>4

(* resolve() only ever delivers the result of a task that is done. *)
LEMMA DeliveredStep ==
    ASSUME IInv, CacheInv, TakenInv, DeliveredInv, [Next]_vars, ~Cancellable
    PROVE  DeliveredInv'
<1> USE DEF IInv, flow, proxyv
<1>1. \A c \in Calls : task[c] = "done" => task'[c] = "done"
                                           /\ result'[c] = result[c]
  BY DoneStable
<1>2. CASE UNCHANGED delivered
  BY <1>1, <1>2 DEF DeliveredInv
<1>3. ASSUME NEW p \in Calls, task[p] = "done", Deliver(p, result[p])
      PROVE  DeliveredInv'
  <2>1. /\ delivered'[p] = delivered[p] \cup {result[p]}
        /\ \A c \in Calls : c # p => delivered'[c] = delivered[c]
    BY <1>3 DEF Deliver, TypeOK
  <2>2. ASSUME NEW c \in Calls, delivered'[c] # {}
        PROVE  task'[c] = "done" /\ delivered'[c] \subseteq {result'[c]}
    <3>1. CASE c = p
      BY <1>1, <1>3, <2>1, <3>1 DEF DeliveredInv
    <3>2. CASE c # p
      BY <1>1, <2>1, <2>2, <3>2 DEF DeliveredInv
    <3> QED
      BY <3>1, <3>2
  <2> QED
    BY <2>2 DEF DeliveredInv
<1>4. ASSUME NEW p \in Calls, ResolveCached(p)
      PROVE  DeliveredInv'
  BY <1>3, <1>4 DEF ResolveCached, CacheInv
<1>5. ASSUME NEW p \in Calls, ResolveConsumed(p)
      PROVE  FALSE
  BY <1>5 DEF ResolveConsumed, Consumes, TakenInv
<1>6. CASE ResolveJoin
  BY <1>3, <1>6 DEF ResolveJoin, FlowOK
<1>7. ASSUME NEW p \in Calls, ResolveTake(p)
      PROVE  UNCHANGED delivered
  BY <1>7 DEF ResolveTake
<1> QED
  BY <1>2, <1>4, <1>5, <1>6, <1>7, NotResolving

(* As long as no run is dropped, a proxy consumed any number of times, by  *)
(* any number of runs, always yields the result its task ended with.       *)
THEOREM ResolveIsIdempotent ==
    ASSUME ~Cancellable
    PROVE  Spec => []ResolveIdempotent
<1> DEFINE RInv == IInv /\ CacheInv /\ TakenInv /\ DeliveredInv
<1>1. Init => RInv
  BY IInvInit DEF Init, CacheInv, TakenInv, DeliveredInv
<1>2. RInv /\ [Next]_vars => RInv'
  BY TypeStep, FlowStep, QueueStep, PermitStep, CacheStep, TakenStep,
     DeliveredStep DEF IInv
<1>3. RInv => ResolveIdempotent
  BY DEF DeliveredInv, ResolveIdempotent
<1> QED
  BY <1>1, <1>2, <1>3, PTL DEF Spec

(* A handler awaited in place is never given more time than its run has    *)
(* left: with any budget and any number of calls, a sequential tool cannot *)
(* outlive its run's budget.                                               *)
THEOREM InlineStaysWithinBudget == Spec => []InlineWithinBudget
<1> USE CallsAssumption, BudgetAssumption
<1>1. Init => InlineWithinBudget
  BY DEF Init, InlineWithinBudget
<1>2. ASSUME IInv, InlineWithinBudget, [Next]_vars
      PROVE  InlineWithinBudget'
  <2> USE DEF IInv, flow, proxyv
  <2>1. CASE CallInline
    BY <1>2, <2>1 DEF CallInline, InlineWithinBudget, remaining_tool_timeout,
                      TotalTime, TypeOK, FlowOK
  <2>2. CASE Tick
    BY <1>2, <2>2 DEF Tick, InlineWithinBudget, Dec, TypeOK, TotalTime
  <2>3. CASE SpawnTool
    BY <1>2, <2>3 DEF SpawnTool, InlineWithinBudget, TypeOK, FlowOK
  <2>4. CASE /\ UNCHANGED <<remain, budget>>
             /\ \A c \in Calls : task'[c] = "inline" => task[c] = "inline"
    BY <1>2, <2>4 DEF InlineWithinBudget
  <2>5. CASE BeginRun \/ EndRun \/ CancelRun \/ UNCHANGED vars
    BY <2>4, <2>5 DEF BeginRun, EndRun, CancelRun, vars
  <2>6. ASSUME NEW c \in Calls, NEW as \in ArgLists, CallTool(c, as)
        PROVE  UNCHANGED <<remain, budget, task>>
    BY <2>6 DEF CallTool
  <2>7. ASSUME NEW p \in Calls, ResolveCached(p) \/ ResolveConsumed(p)
                                  \/ (ResolveJoin /\ p = awaiting)
        PROVE  /\ UNCHANGED <<remain, budget>>
               /\ \A c \in Calls : task'[c] = "inline" => task[c] = "inline"
    <3>1. UNCHANGED <<remain, budget>>
      BY <2>7 DEF ResolveCached, ResolveConsumed, ResolveJoin
    <3> QED
      BY <1>2, <2>7, <3>1, ResolveReturns, DeliverType
  <2>8. ResolveJoin => awaiting \in Calls
    BY <1>2 DEF ResolveJoin, FlowOK
  <2>9. ASSUME NEW p \in Calls, ResolveTake(p)
        PROVE  UNCHANGED <<remain, budget, task>>
    BY <2>9 DEF ResolveTake
  <2>10. ASSUME NEW r \in Outcome, InlineEnds(r)
         PROVE  /\ UNCHANGED <<remain, budget>>
                /\ \A c \in Calls : task'[c] = "inline" => task[c] = "inline"
    BY <1>2, <2>10 DEF InlineEnds, TypeOK, FlowOK
  <2>11. ASSUME NEW c \in Calls, PollTask(c)
         PROVE  /\ UNCHANGED <<remain, budget>>
                /\ \A d \in Calls : task'[d] = "inline" => task[d] = "inline"
    BY <1>2, <2>11 DEF PollTask, StartHandler, TypeOK
  <2>12. CASE AcquirePermit
    <3>1. Head(waitq) \in Calls /\ UNCHANGED <<remain, budget>>
      BY <1>2, <2>12 DEF AcquirePermit, TypeOK
    <3> QED
      BY <1>2, <2>4, <2>12, <3>1 DEF AcquirePermit, StartHandler, TypeOK
  <2>13. ASSUME NEW c \in Calls, NEW r \in Outcome, TaskEnds(c, r)
         PROVE  /\ UNCHANGED <<remain, budget>>
                /\ \A d \in Calls : task'[d] = "inline" => task[d] = "inline"
    BY <1>2, <2>13 DEF TaskEnds, TypeOK
  <2> QED
    BY <1>2, <2>1, <2>2, <2>3, <2>4, <2>5, <2>6, <2>7, <2>8, <2>9, <2>10,
       <2>11, <2>12, <2>13 DEF Next
<1> QED
  BY <1>1, <1>2, IInvInvariant, PTL DEF Spec

=============================================================================
