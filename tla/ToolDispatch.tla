---------------------------- MODULE ToolDispatch ----------------------------
(***************************************************************************)
(* Host tool calls: tools/resolver.rs (resolve_and_dispatch, call_handler, *)
(* remaining_tool_timeout), tools/lazy_proxy.rs (LazyProxy) and            *)
(* functions/mod.rs (resolve_proxy), as one run after another of           *)
(* Interpreter::execute uses them.                                         *)
(*                                                                         *)
(* A parallelizable tool is spawned as a tokio task that first acquires a  *)
(* permit of state.tool_semaphore; user code holds a LazyProxy on it.  A   *)
(* sequential tool is awaited in place.  Durations are relative: Tick      *)
(* ages every timer, and `elapsed' saturates as max.saturating_sub does.   *)
(***************************************************************************)
EXTENDS Naturals, Sequences, FiniteSets

CONSTANTS
    Calls,              \* identities of tool calls a session may make
    MaxConcurrentTools, \* config.max_concurrent_tools
    HasBudget,          \* config.max_execution_time.is_some()
    MaxExecutionTime,   \* its value, in ticks
    Cancellable,        \* the host may drop the execute future
    MaxArgs,            \* bound: LazyProxy arguments of one call
    NoCall              \* "no call"

ASSUME CallsAssumption == IsFiniteSet(Calls) /\ NoCall \notin Calls
ASSUME PermitsAssumption == MaxConcurrentTools \in Nat \ {0} /\ MaxArgs \in Nat
ASSUME BudgetAssumption == /\ HasBudget \in BOOLEAN
                           /\ Cancellable \in BOOLEAN
                           /\ MaxExecutionTime \in Nat

VARIABLES
    phase,     \* where the execute future is: see Phases
    cur,       \* the call resolve_and_dispatch is working on
    args,      \* its LazyProxy arguments not resolved yet, in order
    awaiting,  \* the proxy whose JoinHandle is being awaited
    elapsed,   \* state.execution_start.elapsed(), saturated
    task,      \* per call: the spawned task or the awaited handler
    permits,   \* free permits of tool_semaphore
    waitq,     \* tasks queued on the semaphore, oldest first
    remain,    \* per call: the timeout its handler was given, what is left
    budget,    \* per call: what is left of its own run's budget (history)
    result,    \* per call: what the handler ended with
    handle,    \* LazyProxyInner.handle: absent, live or taken
    cached,    \* LazyProxyInner.resolved
    deps,      \* per call: the proxies among its arguments (history)
    delivered  \* per call: what resolve() has returned so far (history)

flow   == <<phase, cur, args, awaiting>>
proxyv == <<handle, cached, delivered>>
vars   == <<flow, elapsed, task, permits, waitq, remain, budget, result,
            proxyv, deps>>

Phases  == {"idle", "eval", "args", "await", "call"}
TaskSt  == {"unused", "spawned", "queued", "running", "done",
            "inline", "abandoned"}
Outcome == {"ok", "err", "timeout"}
Pending == "none"

Proxies    == {c \in Calls : handle[c] # "absent"}
Running    == {c \in Calls : task[c] = "running"}
TotalTime  == IF HasBudget THEN MaxExecutionTime ELSE 0

TypeOK ==
    /\ phase \in Phases
    /\ cur \in Calls \cup {NoCall}
    /\ args \in Seq(Calls)
    /\ awaiting \in Calls \cup {NoCall}
    /\ elapsed \in 0..TotalTime
    /\ task \in [Calls -> TaskSt]
    /\ permits \in 0..MaxConcurrentTools
    /\ waitq \in Seq(Calls)
    /\ remain \in [Calls -> 0..TotalTime]
    /\ budget \in [Calls -> 0..TotalTime]
    /\ result \in [Calls -> Outcome \cup {Pending}]
    /\ handle \in [Calls -> {"absent", "live", "taken"}]
    /\ cached \in [Calls -> Outcome \cup {Pending}]
    /\ deps \in [Calls -> SUBSET Calls]
    /\ delivered \in [Calls -> SUBSET (Outcome \cup {"consumed"})]

Init ==
    /\ phase = "idle" /\ cur = NoCall /\ args = <<>> /\ awaiting = NoCall
    /\ elapsed = 0
    /\ task = [c \in Calls |-> "unused"]
    /\ permits = MaxConcurrentTools
    /\ waitq = <<>>
    /\ remain = [c \in Calls |-> 0]
    /\ budget = [c \in Calls |-> 0]
    /\ result = [c \in Calls |-> Pending]
    /\ handle = [c \in Calls |-> "absent"]
    /\ cached = [c \in Calls |-> Pending]
    /\ deps = [c \in Calls |-> {}]
    /\ delivered = [c \in Calls |-> {}]

-----------------------------------------------------------------------------
(* The run: execute starts the wall clock; it ends or its future is dropped *)

BeginRun ==
    /\ phase = "idle"
    /\ phase' = "eval"
    /\ elapsed' = 0
    /\ UNCHANGED <<cur, args, awaiting, task, permits, waitq, remain, budget,
                   result, proxyv, deps>>

EndRun ==
    /\ phase = "eval"
    /\ phase' = "idle"
    /\ UNCHANGED <<cur, args, awaiting, elapsed, task, permits, waitq, remain,
                   budget, result, proxyv, deps>>

(* Mutant: dropping the future aborts the task whose JoinHandle it awaits. *)
CancelRunAborting ==
    /\ Cancellable
    /\ phase # "idle"
    /\ phase' = "idle" /\ cur' = NoCall /\ args' = <<>> /\ awaiting' = NoCall
    /\ task' = [c \in Calls |-> IF c \in {cur, awaiting} THEN "abandoned"
                                                         ELSE task[c]]
    /\ UNCHANGED <<elapsed, permits, waitq, remain, budget, result, proxyv,
                   deps>>

(* Dropping the future drops an awaited inline handler with it.  A spawned *)
(* task is detached, not aborted: a JoinHandle taken out of the proxy by   *)
(* resolve() is simply lost.                                               *)
CancelRun ==
    /\ Cancellable
    /\ phase # "idle"
    /\ phase' = "idle" /\ cur' = NoCall /\ args' = <<>> /\ awaiting' = NoCall
    /\ task' = [c \in Calls |-> IF c = cur THEN "abandoned" ELSE task[c]]
    /\ UNCHANGED <<elapsed, permits, waitq, remain, budget, result, proxyv,
                   deps>>

-----------------------------------------------------------------------------
(* LazyProxy::resolve, for a use of the value or for a tool argument.      *)

(* Mutant: a failed argument does not abandon the call. *)
DeliverAny(p, r) ==
    /\ delivered' = [delivered EXCEPT ![p] = @ \cup {r}]
    /\ awaiting' = NoCall
    /\ phase' = IF cur # NoCall THEN "args" ELSE "eval"
    /\ args' = IF cur # NoCall THEN Tail(args) ELSE <<>>
    /\ UNCHANGED <<cur, task>>

(* resolve() returns r for proxy p.  A failed argument abandons the call:  *)
(* InterpreterError::Tool leaves resolve_and_dispatch through `?'.         *)
Deliver(p, r) ==
    /\ delivered' = [delivered EXCEPT ![p] = @ \cup {r}]
    /\ awaiting' = NoCall
    /\ IF cur # NoCall /\ r = "ok"
       THEN /\ phase' = "args"
            /\ args' = Tail(args)
            /\ UNCHANGED <<cur, task>>
       ELSE /\ phase' = "eval"
            /\ args' = <<>>
            /\ cur' = NoCall
            /\ task' = [c \in Calls |-> IF c = cur THEN "abandoned"
                                                   ELSE task[c]]

(* The proxy user code consumes now: any it holds, or the next argument.   *)
Consumes(p) == \/ phase = "eval" /\ p \in Proxies
               \/ phase = "args" /\ args # <<>> /\ p = Head(args)

ResolveCached(p) ==
    /\ Consumes(p)
    /\ cached[p] # Pending
    /\ Deliver(p, cached[p])
    /\ UNCHANGED <<elapsed, permits, waitq, remain, budget, result, handle,
                   cached, deps>>

ResolveConsumed(p) ==
    /\ Consumes(p)
    /\ cached[p] = Pending /\ handle[p] = "taken"
    /\ Deliver(p, "consumed")
    /\ UNCHANGED <<elapsed, permits, waitq, remain, budget, result, handle,
                   cached, deps>>

ResolveTake(p) ==
    /\ Consumes(p)
    /\ cached[p] = Pending /\ handle[p] = "live"
    /\ handle' = [handle EXCEPT ![p] = "taken"]
    /\ awaiting' = p
    /\ phase' = "await"
    /\ UNCHANGED <<cur, args, elapsed, task, permits, waitq, remain, budget,
                   result, cached, delivered, deps>>

(* Mutant: the joined result is returned without being cached. *)
ResolveJoinUncached ==
    /\ phase = "await"
    /\ task[awaiting] = "done"
    /\ Deliver(awaiting, result[awaiting])
    /\ UNCHANGED <<elapsed, permits, waitq, remain, budget, result, handle,
                   cached, deps>>

ResolveJoin ==
    /\ phase = "await"
    /\ task[awaiting] = "done"
    /\ cached' = [cached EXCEPT ![awaiting] = result[awaiting]]
    /\ Deliver(awaiting, result[awaiting])
    /\ UNCHANGED <<elapsed, permits, waitq, remain, budget, result, handle,
                   deps>>

-----------------------------------------------------------------------------
(* resolve_and_dispatch                                                    *)

CallTool(c, as) ==
    /\ phase = "eval"
    /\ task[c] = "unused"
    /\ phase' = "args" /\ cur' = c /\ args' = as
    /\ deps' = [deps EXCEPT ![c] = {as[i] : i \in 1..Len(as)}]
    /\ UNCHANGED <<awaiting, elapsed, task, permits, waitq, remain, budget,
                   result, proxyv>>

(* Mutant: every tool is given the whole budget. *)
WholeBudget == IF HasBudget THEN MaxExecutionTime ELSE 0

remaining_tool_timeout == IF HasBudget THEN MaxExecutionTime - elapsed ELSE 0

(* call_handler refuses to start a handler on a zero budget. *)
NoTimeLeft(d) == HasBudget /\ d = 0

SpawnTool ==
    /\ phase = "args" /\ args = <<>>
    /\ task' = [task EXCEPT ![cur] = "spawned"]
    /\ handle' = [handle EXCEPT ![cur] = "live"]
    /\ remain' = [remain EXCEPT ![cur] = remaining_tool_timeout]
    /\ budget' = [budget EXCEPT ![cur] = TotalTime - elapsed]
    /\ phase' = "eval" /\ cur' = NoCall
    /\ UNCHANGED <<args, awaiting, elapsed, permits, waitq, result, cached,
                   deps, delivered>>

CallInline ==
    /\ phase = "args" /\ args = <<>>
    /\ remain' = [remain EXCEPT ![cur] = remaining_tool_timeout]
    /\ budget' = [budget EXCEPT ![cur] = TotalTime - elapsed]
    /\ IF NoTimeLeft(remaining_tool_timeout)
       THEN /\ task' = [task EXCEPT ![cur] = "done"]
            /\ result' = [result EXCEPT ![cur] = "timeout"]
            /\ phase' = "eval" /\ cur' = NoCall
       ELSE /\ task' = [task EXCEPT ![cur] = "inline"]
            /\ phase' = "call"
            /\ UNCHANGED <<result, cur>>
    /\ UNCHANGED <<args, awaiting, elapsed, permits, waitq, proxyv, deps>>

(* The awaited handler ends, or tokio::time::timeout drops it. *)
InlineEnds(r) ==
    /\ phase = "call"
    /\ r = "timeout" => HasBudget /\ remain[cur] = 0
    /\ task' = [task EXCEPT ![cur] = "done"]
    /\ result' = [result EXCEPT ![cur] = r]
    /\ phase' = "eval" /\ cur' = NoCall
    /\ UNCHANGED <<args, awaiting, elapsed, permits, waitq, remain, budget,
                   proxyv, deps>>

-----------------------------------------------------------------------------
(* The spawned task: semaphore.acquire_owned().await, then call_handler.   *)

(* Mutant: a call refused for want of time forgets to drop its permit. *)
StartHandlerLeaky(c) ==
    IF NoTimeLeft(remain[c])
    THEN /\ task' = [task EXCEPT ![c] = "done"]
         /\ result' = [result EXCEPT ![c] = "timeout"]
         /\ permits' = permits - 1
    ELSE /\ task' = [task EXCEPT ![c] = "running"]
         /\ permits' = permits - 1
         /\ UNCHANGED result

(* Task c holds a permit: call_handler starts the handler, or fails at    *)
(* once and gives the permit back when the timeout it was given is zero.   *)
StartHandler(c) ==
    IF NoTimeLeft(remain[c])
    THEN /\ task' = [task EXCEPT ![c] = "done"]
         /\ result' = [result EXCEPT ![c] = "timeout"]
         /\ UNCHANGED permits
    ELSE /\ task' = [task EXCEPT ![c] = "running"]
         /\ permits' = permits - 1
         /\ UNCHANGED result

(* First poll: take a free permit unless others already queue for it. *)
PollTask(c) ==
    /\ task[c] = "spawned"
    /\ IF permits > 0 /\ waitq = <<>>
       THEN StartHandler(c) /\ UNCHANGED waitq
       ELSE /\ task' = [task EXCEPT ![c] = "queued"]
            /\ waitq' = Append(waitq, c)
            /\ UNCHANGED <<permits, result>>
    /\ UNCHANGED <<flow, elapsed, remain, budget, proxyv, deps>>

(* The semaphore serves its queue in order. *)
AcquirePermit ==
    /\ permits > 0 /\ waitq # <<>>
    /\ StartHandler(Head(waitq))
    /\ waitq' = Tail(waitq)
    /\ UNCHANGED <<flow, elapsed, remain, budget, proxyv, deps>>

(* Mutant: a task that timed out keeps its permit. *)
TaskEndsHolding(c, r) ==
    /\ task[c] = "running"
    /\ r = "timeout" => HasBudget /\ remain[c] = 0
    /\ task' = [task EXCEPT ![c] = "done"]
    /\ result' = [result EXCEPT ![c] = r]
    /\ permits' = IF r = "timeout" THEN permits ELSE permits + 1
    /\ UNCHANGED <<flow, elapsed, waitq, remain, budget, proxyv, deps>>

(* The handler returns, fails or panics (a join error), or its timeout    *)
(* expires; the task ends and its permit is dropped.                       *)
TaskEnds(c, r) ==
    /\ task[c] = "running"
    /\ r = "timeout" => HasBudget /\ remain[c] = 0
    /\ task' = [task EXCEPT ![c] = "done"]
    /\ result' = [result EXCEPT ![c] = r]
    /\ permits' = permits + 1
    /\ UNCHANGED <<flow, elapsed, waitq, remain, budget, proxyv, deps>>

-----------------------------------------------------------------------------
Dec(n) == IF n = 0 THEN 0 ELSE n - 1

(* One tick of wall-clock time.  A handler's timeout runs from the moment  *)
(* call_handler starts it; the run's budget runs all the time.             *)
Tick ==
    /\ HasBudget
    /\ elapsed' = IF elapsed < MaxExecutionTime THEN elapsed + 1 ELSE elapsed
    /\ remain' = [c \in Calls |-> IF task[c] \in {"running", "inline"}
                                  THEN Dec(remain[c]) ELSE remain[c]]
    /\ budget' = [c \in Calls |-> Dec(budget[c])]
    /\ UNCHANGED <<flow, task, permits, waitq, result, proxyv, deps>>

ArgLists == UNION {[1..n -> Proxies] : n \in 0..MaxArgs}

Next ==
    \/ BeginRun \/ EndRun \/ CancelRun
    \/ \E c \in Calls : \E as \in ArgLists : CallTool(c, as)
    \/ \E p \in Calls : ResolveCached(p) \/ ResolveConsumed(p) \/ ResolveTake(p)
    \/ ResolveJoin
    \/ SpawnTool \/ CallInline
    \/ \E r \in Outcome : InlineEnds(r)
    \/ \E c \in Calls : PollTask(c)
    \/ AcquirePermit
    \/ \E c \in Calls : \E r \in Outcome : TaskEnds(c, r)
    \/ Tick

Spec == Init /\ [][Next]_vars

(* The clock, the tokio scheduler, its timers and its fair semaphore make *)
(* progress.  Handlers are host code: nothing but the budget makes them    *)
(* end.                                                                    *)
Scheduling ==
    /\ WF_vars(Tick)
    /\ \A c \in Calls : WF_vars(PollTask(c)) /\ WF_vars(TaskEnds(c, "timeout"))
    /\ WF_vars(AcquirePermit)
    /\ WF_vars(ResolveJoin)
    /\ WF_vars(InlineEnds("timeout"))

BudgetSpec == Spec /\ Scheduling

-----------------------------------------------------------------------------
(* Properties *)

(* Every permit of tool_semaphore is free or held by a running handler: no *)
(* outcome, timeout, panic or dropped run leaks one, so at most            *)
(* max_concurrent_tools parallel handlers ever run.                        *)
PermitsConserved == permits + Cardinality(Running) = MaxConcurrentTools

(* The semaphore's queue is exactly the tasks waiting for a permit, once   *)
(* each: a task that was started, or ended at once, is not queued.         *)
QueueExact ==
    /\ \A c \in Calls : task[c] = "queued" <=> \E i \in 1..Len(waitq) : waitq[i] = c
    /\ \A i, j \in 1..Len(waitq) : waitq[i] = waitq[j] => i = j

(* A tool is handed values, never proxies: its handler cannot be spawned   *)
(* or started before every proxy argument was resolved successfully, so    *)
(* the data dependencies between tools order their executions.             *)
ArgsMaterialised ==
    \A c \in Calls :
        task[c] \in {"spawned", "queued", "running", "inline", "done"} =>
            \A p \in deps[c] : task[p] = "done" /\ cached[p] = "ok"

(* However often and wherever user code consumes a proxy, resolve()        *)
(* returns what the task itself ended with ("await the task result.        *)
(* Idempotent").                                                           *)
ResolveIdempotent == \A c \in Calls : delivered[c] \subseteq {result[c]}

(* A sequential handler is never given more time than its run has left.    *)
InlineWithinBudget ==
    \A c \in Calls : task[c] = "inline" => remain[c] <= budget[c]

(* Awaiting a proxy always comes back: the awaited task gets a permit and  *)
(* ends, even when handlers hang and only the budget stops them.           *)
AwaitEnds == phase = "await" ~> phase # "await"

(* Every spawned task ends, also one whose run has ended or was dropped.   *)
TasksDrain == \A c \in Calls : task[c] = "spawned" ~> task[c] = "done"

=============================================================================
