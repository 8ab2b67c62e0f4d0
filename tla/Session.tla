------------------------------- MODULE Session -------------------------------
(***************************************************************************)
(* Interpreters and their callers: the state mutex of interpreter.rs that   *)
(* execute holds across every await, the accessors that lock the same       *)
(* mutex, and the `running' flag (begin_run, RunGuard) the Python and Node  *)
(* bindings put in front of it.                                             *)
(*                                                                          *)
(* Workers are the threads that poll execute futures (tokio workers, or the *)
(* thread inside block_on).  Locking is blocking: a worker that polls a run *)
(* whose lock is taken stays inside state.lock().  `host' is the exclusive  *)
(* resource a tool callback needs and an accessor's caller holds: the GIL,  *)
(* or the single JavaScript thread; it is shared by all interpreters.       *)
(***************************************************************************)
EXTENDS Naturals, FiniteSets

CONSTANTS
    Interps,        \* Interpreter objects of the process
    Runs,           \* execute calls callers may have in progress
    Readers,        \* accessor calls: get_variable, state_keys, export_state...
    Of,             \* the interpreter each run and each reader is made on
    Workers,        \* threads that poll futures
    Apis,           \* the bindings or the Rust API, and what hosts do with it:
                    \*   blocking: execute keeps its caller until it returns
                    \*   guarded: begin_run refuses an overlapping run
                    \*   usesHost: callbacks and accessors need the host
                    \*   readsDuringRun: accessors are called while a run is
                    \*     in progress, readsInTool: and from its callbacks
    MaxToolCalls,   \* bound: tool calls one run makes (max_operations ends it)
    Free            \* no owner

ASSUME SessionAssumption ==
    /\ Apis \subseteq [blocking : BOOLEAN, guarded : BOOLEAN, usesHost : BOOLEAN,
                        readsDuringRun : BOOLEAN, readsInTool : BOOLEAN]
    /\ MaxToolCalls \in Nat
    /\ Of \in [Runs \cup Readers -> Interps]
    /\ Runs \cap Readers = {}
    /\ Free \notin Runs \cup Readers \cup Workers

VARIABLES
    api,    \* how this process calls interpreters; never changes
    run,    \* per run: how far its execute call is
    on,     \* per run: the worker it occupies
    fuel,   \* per run: tool calls the script will still make
    mutex,  \* per interpreter: owner of Interpreter.state
    flag,   \* per interpreter: PyInterpreter.running / JsInterpreter.running
    host,   \* owner of the GIL / the JS thread
    acc,    \* per reader: how far the accessor call is
    from    \* per reader: the run whose callback made the call, or Free

vars == <<api, run, on, fuel, mutex, flag, host, acc, from>>

RunSt == {"idle", "claimed", "blocked", "eval", "await", "callback", "woken",
          "returned"}
InsideLock == {"eval", "await", "callback", "woken"}

Guarded  == api.guarded
UsesHost == api.usesHost

TypeOK ==
    /\ api \in Apis
    /\ run \in [Runs -> RunSt]
    /\ on \in [Runs -> Workers \cup {Free}]
    /\ fuel \in [Runs -> 0..MaxToolCalls]
    /\ mutex \in [Interps -> Runs \cup Readers \cup {Free}]
    /\ flag \in [Interps -> BOOLEAN]
    /\ host \in Runs \cup Readers \cup {Free}
    /\ acc \in [Readers -> {"idle", "blocked", "reading"}]
    /\ from \in [Readers -> Runs \cup {Free}]

Init ==
    /\ api \in Apis
    /\ run = [r \in Runs |-> "idle"]
    /\ on = [r \in Runs |-> Free]
    /\ fuel = [r \in Runs |-> 0]
    /\ mutex = [i \in Interps |-> Free]
    /\ flag = [i \in Interps |-> FALSE]
    /\ host = Free
    /\ acc = [a \in Readers |-> "idle"]
    /\ from = [a \in Readers |-> Free]

HostFree == UsesHost => host = Free
Idle(w)  == \A r \in Runs : on[r] # w

-----------------------------------------------------------------------------
(* execute *)

(* Mutant: the flag is set without testing it. *)
begin_run_store(r) ==
    /\ run[r] = "idle"
    /\ HostFree
    /\ flag' = [flag EXCEPT ![Of[r]] = Guarded]
    /\ run' = [run EXCEPT ![r] = "claimed"]
    /\ fuel' = [fuel EXCEPT ![r] = MaxToolCalls]
    /\ UNCHANGED <<on, mutex, host, acc, from>>

(* begin_run: compare_exchange(false, true); a refused call changes nothing. *)
begin_run(r) ==
    /\ run[r] = "idle"
    /\ HostFree
    /\ Guarded => ~flag[Of[r]]
    /\ flag' = [flag EXCEPT ![Of[r]] = Guarded]
    /\ run' = [run EXCEPT ![r] = "claimed"]
    /\ fuel' = [fuel EXCEPT ![r] = MaxToolCalls]
    /\ UNCHANGED <<on, mutex, host, acc, from>>

(* Mutant: the state is taken over from whoever is reading it. *)
PollUnlocked(r, w) ==
    /\ run[r] = "claimed"
    /\ Idle(w)
    /\ on' = [on EXCEPT ![r] = w]
    /\ mutex' = [mutex EXCEPT ![Of[r]] = IF @ = Free THEN r ELSE @]
    /\ run' = [run EXCEPT ![r] = "eval"]
    /\ UNCHANGED <<fuel, flag, host, acc, from>>

(* First poll: self.state.lock() succeeds, or blocks the polling thread. *)
Poll(r, w) ==
    /\ run[r] = "claimed"
    /\ Idle(w)
    /\ on' = [on EXCEPT ![r] = w]
    /\ IF mutex[Of[r]] = Free
       THEN mutex' = [mutex EXCEPT ![Of[r]] = r] /\ run' = [run EXCEPT ![r] = "eval"]
       ELSE UNCHANGED mutex /\ run' = [run EXCEPT ![r] = "blocked"]
    /\ UNCHANGED <<fuel, flag, host, acc, from>>

Lock(r) ==
    /\ run[r] = "blocked"
    /\ mutex[Of[r]] = Free
    /\ mutex' = [mutex EXCEPT ![Of[r]] = r]
    /\ run' = [run EXCEPT ![r] = "eval"]
    /\ UNCHANGED <<on, fuel, flag, host, acc, from>>

(* Mutant: every tool is called inside the poll. *)
AwaitingInside(r) == {on[r], Free}

(* Where a run's worker may be while it awaits a tool: given back, or still *)
(* inside the poll with a callback of the binding that is no coroutine.     *)
Awaiting(r) == IF UsesHost THEN {on[r], Free} ELSE {Free}

(* The run awaits a tool and keeps the guard. *)
AwaitTool(r) ==
    /\ run[r] = "eval"
    /\ fuel[r] > 0
    /\ fuel' = [fuel EXCEPT ![r] = @ - 1]
    /\ run' = [run EXCEPT ![r] = "await"]
    /\ \E w \in Awaiting(r) : on' = [on EXCEPT ![r] = w]
    /\ UNCHANGED <<mutex, flag, host, acc, from>>

(* PyToolHandler::call attaches to the GIL, JsToolHandler::call is marshalled *)
(* onto the JS thread; a Rust handler needs neither.                         *)
CallbackBegins(r) ==
    /\ run[r] = "await"
    /\ HostFree
    /\ run' = [run EXCEPT ![r] = "callback"]
    /\ host' = IF UsesHost THEN r ELSE host
    /\ UNCHANGED <<on, fuel, mutex, flag, acc, from>>

(* A callback returns once the accessors it called have returned. *)
CallbackEnds(r) ==
    /\ run[r] = "callback"
    /\ \A a \in Readers : from[a] # r
    /\ run' = [run EXCEPT ![r] = IF on[r] = Free THEN "woken" ELSE "eval"]
    /\ host' = IF UsesHost THEN Free ELSE host
    /\ UNCHANGED <<on, fuel, mutex, flag, acc, from>>

Resume(r, w) ==
    /\ run[r] = "woken"
    /\ Idle(w)
    /\ run' = [run EXCEPT ![r] = "eval"]
    /\ on' = [on EXCEPT ![r] = w]
    /\ UNCHANGED <<fuel, mutex, flag, host, acc, from>>

(* execute returns: its state guard is dropped, the RunGuard is not yet. *)
Return(r) ==
    /\ run[r] = "eval"
    /\ run' = [run EXCEPT ![r] = "returned"]
    /\ on' = [on EXCEPT ![r] = Free]
    /\ mutex' = [mutex EXCEPT ![Of[r]] = Free]
    /\ UNCHANGED <<fuel, flag, host, acc, from>>

(* The host drops the future while it is suspended.  The inner future, and *)
(* the guard in it, is dropped before the RunGuard declared ahead of it.    *)
Cancel(r) ==
    /\ run[r] \in {"claimed", "await", "woken"} /\ on[r] = Free
    /\ ~api.blocking
    /\ run' = [run EXCEPT ![r] = "returned"]
    /\ mutex' = [i \in Interps |-> IF mutex[i] = r THEN Free ELSE mutex[i]]
    /\ UNCHANGED <<on, fuel, flag, host, acc, from>>

(* RunGuard::drop, where a blocking call drops it with the GIL taken back. *)
DropGuard(r) ==
    /\ run[r] = "returned"
    /\ api.blocking => HostFree
    /\ run' = [run EXCEPT ![r] = "idle"]
    /\ flag' = [flag EXCEPT ![Of[r]] = FALSE]
    /\ UNCHANGED <<on, fuel, mutex, host, acc, from>>

-----------------------------------------------------------------------------
(* The accessors: each one locks the state mutex, guarded by nothing else. *)

(* The discipline the expect-reason on execute asks of hosts: accessors    *)
(* "work between calls".                                                    *)
BetweenCalls(a) == \A r \in Runs : Of[r] = Of[a] => run[r] = "idle"

ReadFromHost(a) ==
    /\ acc[a] = "idle"
    /\ HostFree
    /\ api.readsDuringRun \/ BetweenCalls(a)
    /\ acc' = [acc EXCEPT ![a] = "blocked"]
    /\ host' = IF UsesHost THEN a ELSE host
    /\ UNCHANGED <<run, on, fuel, mutex, flag, from>>

ReadFromCallback(a, r) ==
    /\ api.readsInTool \/ BetweenCalls(a)
    /\ acc[a] = "idle"
    /\ run[r] = "callback"
    /\ acc' = [acc EXCEPT ![a] = "blocked"]
    /\ from' = [from EXCEPT ![a] = r]
    /\ UNCHANGED <<run, on, fuel, mutex, flag, host>>

ReadLock(a) ==
    /\ acc[a] = "blocked"
    /\ mutex[Of[a]] = Free
    /\ mutex' = [mutex EXCEPT ![Of[a]] = a]
    /\ acc' = [acc EXCEPT ![a] = "reading"]
    /\ UNCHANGED <<run, on, fuel, flag, host, from>>

ReadDone(a) ==
    /\ acc[a] = "reading"
    /\ mutex' = [mutex EXCEPT ![Of[a]] = Free]
    /\ acc' = [acc EXCEPT ![a] = "idle"]
    /\ from' = [from EXCEPT ![a] = Free]
    /\ host' = IF host = a THEN Free ELSE host
    /\ UNCHANGED <<run, on, fuel, flag>>

-----------------------------------------------------------------------------
(* The steps a run takes by itself once it was called. *)
Advance(r) ==
    \/ Lock(r) \/ AwaitTool(r) \/ CallbackBegins(r) \/ CallbackEnds(r)
    \/ Return(r) \/ DropGuard(r)
    \/ \E w \in Workers : Poll(r, w) \/ Resume(r, w)

Next ==
    /\ \/ \E r \in Runs : begin_run(r) \/ Cancel(r) \/ Advance(r)
       \/ \E a \in Readers : ReadFromHost(a) \/ ReadLock(a) \/ ReadDone(a)
       \/ \E a \in Readers : \E r \in Runs : ReadFromCallback(a, r)
    /\ UNCHANGED api

Spec == Init /\ [][Next]_vars

(* The executor polls what is ready, tools answer, and parking_lot and the  *)
(* GIL are eventually fair: whoever can go on again and again, goes on.     *)
Fairness ==
    /\ \A r \in Runs : SF_vars(Advance(r) /\ UNCHANGED api)
    /\ \A a \in Readers : /\ SF_vars(ReadLock(a) /\ UNCHANGED api)
                         /\ WF_vars(ReadDone(a) /\ UNCHANGED api)

FairSpec == Spec /\ Fairness

-----------------------------------------------------------------------------
(* Properties *)

(* A run evaluates, awaits tools and is woken only while it owns its        *)
(* interpreter's state: two runs are never interleaved in one variable      *)
(* namespace, and no run that has ended or was dropped still owns it.       *)
RunsExclusive ==
    \A r \in Runs : \A i \in Interps :
        mutex[i] = r <=> run[r] \in InsideLock /\ Of[r] = i

(* begin_run "covers the case that would otherwise be a silent hang": in    *)
(* the bindings no run ever waits for the mutex behind another run, because *)
(* a RunGuard clears the flag only after the lock is given back.            *)
NeverQueuesBehindRun ==
    Guarded => \A r \in Runs : run[r] = "blocked" => mutex[Of[r]] \notin Runs

(* Every call returns to its caller: an execute call that was let in (the   *)
(* mutex "serialises concurrent `execute` calls"), and an accessor that     *)
(* queues behind it (it "also lets observability tooling read variables /  *)
(* state-keys without exclusive access").                                  *)
CallsReturn ==
    /\ \A r \in Runs : run[r] = "claimed" ~> run[r] = "idle"
    /\ \A a \in Readers : acc[a] = "blocked" ~> acc[a] = "idle"

=============================================================================
