---------------------------- MODULE SessionProofs ----------------------------
(***************************************************************************)
(* Session for any number of interpreters, runs, accessors and workers:     *)
(* the state mutex keeps runs apart, and behind the bindings' begin_run no  *)
(* run ever waits for another one's lock.                                   *)
(***************************************************************************)
EXTENDS Session, TLAPS

(* An accessor that reads owns the lock it will give back. *)
ReadersOwn == \A a \in Readers : acc[a] = "reading" => mutex[Of[a]] = a

(* Behind begin_run the flag is up for as long as a run is in progress, and *)
(* an interpreter has at most one.                                          *)
FlagInv ==
    Guarded =>
        /\ \A r \in Runs : run[r] # "idle" => flag[Of[r]]
        /\ \A r, s \in Runs : /\ run[r] # "idle" /\ run[s] # "idle"
                              /\ Of[r] = Of[s]
                              => r = s

(* The inductive invariant.  RunsExclusive alone is not inductive: ReadDone *)
(* would free a lock that a run holds if accessors did not own theirs.      *)
IInv == TypeOK /\ RunsExclusive /\ ReadersOwn /\ FlagInv

-----------------------------------------------------------------------------
(* The invariant holds initially. *)
LEMMA IInvInit == Init => IInv
BY SessionAssumption
   DEF Init, IInv, TypeOK, RunsExclusive, ReadersOwn, FlagInv, RunSt, InsideLock

(* Every step of a run keeps it. *)
LEMMA RunStep ==
    ASSUME IInv, NEW r \in Runs, UNCHANGED api,
           begin_run(r) \/ Cancel(r) \/ Advance(r)
    PROVE  IInv'
<1> USE SessionAssumption
<1> USE DEF IInv, RunSt, InsideLock, Guarded, UsesHost
<1>1. CASE begin_run(r)
  <2>1. TypeOK'
    BY <1>1 DEF begin_run, TypeOK
  <2>2. RunsExclusive' /\ ReadersOwn'
    BY <1>1 DEF begin_run, TypeOK, RunsExclusive, ReadersOwn
  <2>3. FlagInv'
    BY <1>1 DEF begin_run, TypeOK, FlagInv
  <2> QED
    BY <2>1, <2>2, <2>3
<1>2. ASSUME NEW w \in Workers, Poll(r, w)
      PROVE  IInv'
  <2>1. TypeOK'
    BY <1>2 DEF Poll, TypeOK
  <2>2. RunsExclusive' /\ ReadersOwn'
    BY <1>2 DEF Poll, TypeOK, RunsExclusive, ReadersOwn
  <2>3. FlagInv'
    BY <1>2 DEF Poll, TypeOK, FlagInv
  <2> QED
    BY <2>1, <2>2, <2>3
<1>3. CASE Lock(r)
  <2>1. TypeOK'
    BY <1>3 DEF Lock, TypeOK
  <2>2. RunsExclusive' /\ ReadersOwn'
    BY <1>3 DEF Lock, TypeOK, RunsExclusive, ReadersOwn
  <2>3. FlagInv'
    BY <1>3 DEF Lock, TypeOK, FlagInv
  <2> QED
    BY <2>1, <2>2, <2>3
<1>4. CASE AwaitTool(r)
  BY <1>4 DEF AwaitTool, Awaiting, TypeOK, RunsExclusive, ReadersOwn, FlagInv
<1>5. CASE CallbackBegins(r)
  BY <1>5 DEF CallbackBegins, TypeOK, RunsExclusive, ReadersOwn, FlagInv
<1>6. CASE CallbackEnds(r)
  BY <1>6 DEF CallbackEnds, TypeOK, RunsExclusive, ReadersOwn, FlagInv
<1>7. ASSUME NEW w \in Workers, Resume(r, w)
      PROVE  IInv'
  BY <1>7 DEF Resume, TypeOK, RunsExclusive, ReadersOwn, FlagInv
<1>8. CASE Return(r)
  <2>1. TypeOK'
    BY <1>8 DEF Return, TypeOK
  <2>2. mutex[Of[r]] = r
    BY <1>8 DEF Return, RunsExclusive
  <2>3. RunsExclusive' /\ ReadersOwn'
    BY <1>8, <2>2 DEF Return, TypeOK, RunsExclusive, ReadersOwn
  <2>4. FlagInv'
    BY <1>8 DEF Return, TypeOK, FlagInv
  <2> QED
    BY <2>1, <2>3, <2>4
<1>9. CASE Cancel(r)
  <2>1. TypeOK'
    BY <1>9 DEF Cancel, TypeOK
  <2>2. RunsExclusive' /\ ReadersOwn'
    BY <1>9 DEF Cancel, TypeOK, RunsExclusive, ReadersOwn
  <2>3. FlagInv'
    BY <1>9 DEF Cancel, TypeOK, FlagInv
  <2> QED
    BY <2>1, <2>2, <2>3
<1>10. CASE DropGuard(r)
  <2>1. TypeOK' /\ RunsExclusive' /\ ReadersOwn'
    BY <1>10 DEF DropGuard, TypeOK, RunsExclusive, ReadersOwn
  <2>2. FlagInv'
    BY <1>10 DEF DropGuard, TypeOK, FlagInv
  <2> QED
    BY <2>1, <2>2
<1> QED
  BY <1>1, <1>2, <1>3, <1>4, <1>5, <1>6, <1>7, <1>8, <1>9, <1>10 DEF Advance

(* Every step of an accessor keeps it. *)
LEMMA ReadStep ==
    ASSUME IInv, NEW a \in Readers, UNCHANGED api,
           \/ ReadFromHost(a) \/ ReadLock(a) \/ ReadDone(a)
           \/ \E r \in Runs : ReadFromCallback(a, r)
    PROVE  IInv'
<1> USE SessionAssumption
<1> USE DEF IInv, RunSt, InsideLock, Guarded, UsesHost
<1>1. CASE ReadFromHost(a)
  BY <1>1 DEF ReadFromHost, TypeOK, RunsExclusive, ReadersOwn, FlagInv
<1>2. CASE ReadLock(a)
  <2>1. TypeOK' /\ FlagInv'
    BY <1>2 DEF ReadLock, TypeOK, FlagInv
  <2>2. RunsExclusive' /\ ReadersOwn'
    BY <1>2 DEF ReadLock, TypeOK, RunsExclusive, ReadersOwn
  <2> QED
    BY <2>1, <2>2
<1>3. CASE ReadDone(a)
  <2>1. TypeOK' /\ FlagInv'
    BY <1>3 DEF ReadDone, TypeOK, FlagInv
  <2>2. mutex[Of[a]] = a
    BY <1>3 DEF ReadDone, ReadersOwn
  <2>3. RunsExclusive' /\ ReadersOwn'
    BY <1>3, <2>2 DEF ReadDone, TypeOK, RunsExclusive, ReadersOwn
  <2> QED
    BY <2>1, <2>3
<1>4. ASSUME NEW r \in Runs, ReadFromCallback(a, r)
      PROVE  IInv'
  BY <1>4 DEF ReadFromCallback, TypeOK, RunsExclusive, ReadersOwn, FlagInv
<1> QED
  BY <1>1, <1>2, <1>3, <1>4

(* The inductive invariant holds in every reachable state. *)
LEMMA IInvInvariant == Spec => []IInv
<1>1. IInv /\ [Next]_vars => IInv'
  <2>1. ASSUME IInv, UNCHANGED vars PROVE IInv'
    BY <2>1 DEF vars, IInv, TypeOK, RunsExclusive, ReadersOwn, FlagInv, Guarded
  <2> QED
    BY <2>1, RunStep, ReadStep DEF Next
<1> QED
  BY IInvInit, <1>1, PTL DEF Spec

(* A run is inside the interpreter exactly while it owns its state mutex:   *)
(* whatever callers, tools and cancellations do, two runs never share a     *)
(* namespace and no lock outlives its run.                                  *)
THEOREM RunsAreExclusive == Spec => []RunsExclusive
<1>1. IInv => RunsExclusive
  BY DEF IInv
<1> QED
  BY IInvInvariant, <1>1, PTL

(* begin_run admits a run only when the one before has given its lock back: *)
(* no run of a binding queues behind another, so no tool callback that      *)
(* calls execute on its own interpreter can hang on it.                     *)
THEOREM RunsNeverQueue == Spec => []NeverQueuesBehindRun
<1>1. ASSUME IInv, Guarded, NEW r \in Runs, run[r] = "blocked"
      PROVE  mutex[Of[r]] \notin Runs
  <2>1. SUFFICES ASSUME mutex[Of[r]] \in Runs PROVE FALSE
    OBVIOUS
  <2> DEFINE s == mutex[Of[r]]
  <2>2. Of[r] \in Interps
    BY SessionAssumption
  <2>3. run[s] \in InsideLock /\ Of[s] = Of[r]
    BY <1>1, <2>1, <2>2 DEF IInv, RunsExclusive
  <2>4. s = r
    BY <1>1, <2>1, <2>3 DEF IInv, FlagInv, InsideLock
  <2> QED
    BY <1>1, <2>3, <2>4 DEF InsideLock
<1>2. IInv => NeverQueuesBehindRun
  BY <1>1 DEF NeverQueuesBehindRun
<1> QED
  BY IInvInvariant, <1>2, PTL

=============================================================================
