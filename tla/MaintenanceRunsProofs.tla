----------------------- MODULE MaintenanceRunsProofs -----------------------
(***************************************************************************)
(* Proofs about MaintenanceRuns for any number of keys, rows, callers,     *)
(* reloads, database errors and restarts.                                  *)
(***************************************************************************)
EXTENDS MaintenanceRuns, TLAPS

\* A caller of RunNow between tryLock and bindRunID (or the unlock after a
\* failed insert)
Starting(p) == spc[p] \in {"insert", "abort", "bind"}

\* Such a caller owns the lock of its key, which has no run ID yet, and the row
\* it has inserted is its own and nobody executes it.
StarterInv ==
  \A p \in Starters :
    /\ Starting(p) => lock[skey[p]] = Unbound
    /\ spc[p] = "bind" =>
         /\ srun[p] \in Runs
         /\ keyOf[srun[p]] = skey[p]
         /\ job[srun[p]] = "none"
         /\ row[srun[p]] # "none"

\* Two of them never own the lock of the same key.
DistinctInv ==
  \A p, q \in Starters : Starting(p) /\ Starting(q) /\ skey[p] = skey[q] => p = q

\* Only rows that were inserted are executed.
RowInv == \A r \in Runs : row[r] = "none" => job[r] = "none"

IndInv == TypeOK /\ StarterInv /\ DistinctInv /\ RowInv /\ ExecutingIsBound

\* A caller keeps its row from the insert to the bind, an administrator looks
\* at rows that exist, and somebody works on a row that is "running".
HeldInv ==
  /\ \A p \in Starters : srun[p] \in Runs => spc[p] = "bind"
  /\ \A a \in Admins : apc[a] # "idle" => arun[a] \in Runs /\ row[arun[a]] # "none"

OwnedInv ==
  /\ RunningIsOwned
  /\ \A r \in Runs : job[r] = "unlock" => row[r] # "running" \/ dbErrors > 0

FullInv == IndInv /\ HeldInv /\ OwnedInv

USE DEF vars, startVars, adminVars, jobVars, rowVars, bounds

\* NewService establishes the invariant.
LEMMA IndInit == Init => IndInv
<1> SUFFICES ASSUME Init PROVE IndInv
  OBVIOUS
<1>1. 0 \in 0 .. MaxReloads /\ 0 \in 0 .. MaxDbErrors /\ 0 \in 0 .. MaxRestarts
  BY MaintenanceAssumption
<1>t. TypeOK
  BY <1>1 DEF Init, TypeOK
<1>2. StarterInv /\ DistinctInv /\ RowInv /\ ExecutingIsBound
  BY DEF Init, StarterInv, DistinctInv, RowInv, ExecutingIsBound, Starting, Executing
<1> QED
  BY <1>t, <1>2 DEF IndInv

\* RunNow, from the call to the start of execute, preserves the invariant.
LEMMA IndStarter ==
  ASSUME IndInv, NEW p \in Starters, RunNow(p) \/ Starter(p) \/ InsertFails(p)
  PROVE  IndInv'
<1> USE DEF IndInv, TypeOK, StarterInv, DistinctInv, RowInv, ExecutingIsBound, Starting, Executing
<1>1. CASE RunNow(p)
  BY <1>1 DEF RunNow
<1>2. CASE TryLock(p)
  <2>1. CASE lock[skey[p]] = Free
    <3>1. /\ lock' = [lock EXCEPT ![skey[p]] = Unbound]
          /\ spc' = [spc EXCEPT ![p] = "insert"]
          /\ UNCHANGED <<rowVars, jobVars, skey, srun, adminVars, reloading, bounds>>
      BY <1>2, <2>1 DEF TryLock
    <3>2. TypeOK'
      BY <3>1
    <3>3. \A q \in Starters : Starting(q) => skey[q] # skey[p]
      BY <2>1, MaintenanceAssumption
    <3>4. StarterInv' /\ DistinctInv' /\ RowInv'
      BY <3>1, <3>3, <1>2 DEF TryLock
    <3>5. ExecutingIsBound'
      BY <3>1, <2>1, MaintenanceAssumption
    <3> QED
      BY <3>2, <3>4, <3>5
  <2>2. CASE lock[skey[p]] # Free
    BY <1>2, <2>2 DEF TryLock
  <2> QED
    BY <2>1, <2>2
<1>3. ASSUME NEW r \in Runs, InsertRun(p, r)
      PROVE  IndInv'
  <2>1. job[r] = "none"
    BY <1>3 DEF InsertRun
  <2>2. \A q \in Starters : spc[q] = "bind" => srun[q] # r
    BY <1>3 DEF InsertRun
  <2>3. TypeOK'
    BY <1>3 DEF InsertRun
  <2>4. StarterInv'
    BY <1>3, <2>1, <2>2 DEF InsertRun
  <2>5. DistinctInv' /\ RowInv'
    BY <1>3, <2>1 DEF InsertRun
  <2>6. ExecutingIsBound'
    BY <1>3, <2>1 DEF InsertRun
  <2> QED
    BY <2>3, <2>4, <2>5, <2>6
<1>4. CASE InsertFails(p)
  BY <1>4, MaintenanceAssumption DEF InsertFails
<1>5. CASE Abort(p)
  BY <1>5, MaintenanceAssumption DEF Abort
<1>6. CASE BindRun(p)
  <2>1. srun[p] \in Runs /\ keyOf[srun[p]] = skey[p]
    BY <1>6 DEF BindRun
  <2>2. \A q \in Starters : spc[q] = "bind" /\ srun[q] = srun[p] => q = p
    BY <1>6 DEF BindRun
  <2>3. TypeOK'
    BY <1>6, <2>1 DEF BindRun
  <2>4. StarterInv' /\ DistinctInv' /\ RowInv'
    BY <1>6, <2>1, <2>2 DEF BindRun
  <2>5. ExecutingIsBound'
    BY <1>6, <2>1, MaintenanceAssumption DEF BindRun
  <2> QED
    BY <2>3, <2>4, <2>5
<1> QED
  BY <1>1, <1>2, <1>3, <1>4, <1>5, <1>6 DEF Starter

\* execute preserves the invariant: its unlock releases its own lock.
LEMMA IndExecute ==
  ASSUME IndInv, NEW r \in Runs, Execute(r) \/ FinishRunFails(r)
  PROVE  IndInv'
<1> USE DEF IndInv, TypeOK, StarterInv, DistinctInv, RowInv, ExecutingIsBound, Starting, Executing
<1>1. CASE RunAction(r)
  BY <1>1 DEF RunAction, Outcomes
<1>2. CASE FinishRun(r)
  BY <1>2 DEF FinishRun, Outcomes
<1>3. CASE FinishRunFails(r)
  BY <1>3, MaintenanceAssumption DEF FinishRunFails, Outcomes
<1>4. CASE Unlock(r)
  <2>1. lock[keyOf[r]] = r
    BY <1>4 DEF Unlock
  <2>2. TypeOK'
    BY <1>4 DEF Unlock
  <2>3. StarterInv' /\ DistinctInv' /\ RowInv'
    BY <1>4, <2>1, MaintenanceAssumption DEF Unlock
  <2>4. ExecutingIsBound'
    BY <1>4, <2>1 DEF Unlock
  <2> QED
    BY <2>2, <2>3, <2>4
<1> QED
  BY <1>1, <1>2, <1>3, <1>4 DEF Execute

\* Every step preserves the invariant.
LEMMA IndNext == IndInv /\ [Next]_vars => IndInv'
<1> SUFFICES ASSUME IndInv, [Next]_vars PROVE IndInv'
  OBVIOUS
<1>1. CASE \E p \in Starters : RunNow(p) \/ Starter(p) \/ InsertFails(p)
  BY <1>1, IndStarter
<1>2. CASE \E r \in Runs : Execute(r) \/ FinishRunFails(r)
  BY <1>2, IndExecute
<1> USE DEF IndInv, TypeOK, StarterInv, DistinctInv, RowInv, ExecutingIsBound, Starting, Executing
<1>3. ASSUME NEW a \in Admins, NEW r \in Runs, CancelGet(a, r)
      PROVE  IndInv'
  BY <1>3 DEF CancelGet
<1>4. ASSUME NEW a \in Admins, CancelSignal(a)
      PROVE  IndInv'
  <2>1. /\ cancelled' \in [Runs -> BOOLEAN]
        /\ apc' \in [Admins -> {"idle", "lookup", "force"}]
        /\ arun' \in [Admins -> Runs \cup {NoRun}]
    <3>1. CASE \E k \in Keys : lock[k] = arun[a]
      <4>1. cancelled' = [cancelled EXCEPT ![arun[a]] = TRUE]
        BY <1>4, <3>1 DEF CancelSignal
      <4>2. cancelled' \in [Runs -> BOOLEAN]
        BY <4>1
      <4> QED
        BY <1>4, <3>1, <4>2 DEF CancelSignal
    <3>2. CASE ~\E k \in Keys : lock[k] = arun[a]
      BY <1>4, <3>2 DEF CancelSignal
    <3> QED
      BY <3>1, <3>2
  <2>2. UNCHANGED <<lock, rowVars, job, startVars, reloading, bounds>>
    BY <1>4 DEF CancelSignal
  <2> QED
    BY <2>1, <2>2
<1>5. ASSUME NEW a \in Admins, ForceFinish(a)
      PROVE  IndInv'
  BY <1>5 DEF ForceFinish, Outcomes
<1>6. CASE ReloadStop \/ ReloadStart
  <2>1. reloads' \in 0 .. MaxReloads
    BY <1>6, MaintenanceAssumption DEF ReloadStop, ReloadStart
  <2>0. reloading' \in BOOLEAN
    BY <1>6, Zenon DEF ReloadStop, ReloadStart
  <2>2. UNCHANGED <<lock, rowVars, jobVars, startVars, adminVars, dbErrors, restarts>>
    BY <1>6 DEF ReloadStop, ReloadStart
  <2> QED
    BY <2>0, <2>1, <2>2
<1>7. CASE Restart
  <2>0. restarts' \in 0 .. MaxRestarts
    BY <1>7, MaintenanceAssumption DEF Restart
  <2>1. TypeOK'
    BY <1>7, <2>0 DEF Restart, Outcomes
  <2>2. StarterInv' /\ DistinctInv' /\ RowInv' /\ ExecutingIsBound'
    BY <1>7 DEF Restart
  <2> QED
    BY <2>1, <2>2
<1>8. CASE UNCHANGED vars
  BY <1>8
<1> QED
  BY <1>1, <1>2, <1>3, <1>4, <1>5, <1>6, <1>7, <1>8 DEF Next

\* The lock, row and caller invariants hold together in every reachable state.
THEOREM Inductive == Spec => []IndInv
BY IndInit, IndNext, PTL DEF Spec

\* A run that executes is bound to its lock, for every interleaving of callers,
\* cancellations, reloads, database errors and restarts.
THEOREM AlwaysBound == Spec => []ExecutingIsBound
<1>1. IndInv => ExecutingIsBound
  BY DEF IndInv
<1> QED
  BY <1>1, Inductive, PTL

\* The same action never runs twice at once for a library.
THEOREM OneRun == Spec => []OneRunPerKey
<1>1. IndInv => OneRunPerKey
  BY DEF IndInv, ExecutingIsBound, OneRunPerKey
<1> QED
  BY <1>1, Inductive, PTL

\* Every reachable state is type correct.
THEOREM TypeCorrect == Spec => []TypeOK
<1>1. IndInv => TypeOK
  BY DEF IndInv
<1> QED
  BY <1>1, Inductive, PTL

----------------------------------------------------------------------------
(* Rows that stay "running", and the promise of RunLifecycle.              *)

LEMMA FullInit == Init => FullInv
<1> SUFFICES ASSUME Init PROVE FullInv
  OBVIOUS
<1>1. IndInv
  BY IndInit
<1>2. HeldInv /\ OwnedInv
  BY MaintenanceAssumption DEF Init, HeldInv, OwnedInv, RunningIsOwned
<1> QED
  BY <1>1, <1>2 DEF FullInv

\* A row changes hands between its caller, its goroutine and nobody only when
\* it is not "running" any more, or when the database has failed.
LEMMA FullNext == FullInv /\ [Next]_vars => FullInv'
<1> SUFFICES ASSUME FullInv, [Next]_vars PROVE HeldInv' /\ OwnedInv'
  BY IndNext DEF FullInv
<1> USE DEF FullInv, IndInv, TypeOK, StarterInv, RowInv, HeldInv, OwnedInv, RunningIsOwned, Executing
<1>2. CASE UNCHANGED vars
  BY <1>2
<1>3. ASSUME NEW p \in Starters, RunNow(p) \/ Starter(p) \/ InsertFails(p)
      PROVE  HeldInv' /\ OwnedInv'
  <2>1. CASE RunNow(p)
    BY <2>1 DEF RunNow
  <2>2. CASE TryLock(p)
    BY <2>2 DEF TryLock
  <2>3. ASSUME NEW r \in Runs, InsertRun(p, r)
        PROVE  HeldInv' /\ OwnedInv'
    BY <2>3 DEF InsertRun
  <2>4. CASE InsertFails(p)
    BY <2>4 DEF InsertFails
  <2>5. CASE Abort(p)
    BY <2>5 DEF Abort
  <2>6. CASE BindRun(p)
    BY <2>6, MaintenanceAssumption DEF BindRun
  <2> QED
    BY <1>3, <2>1, <2>2, <2>3, <2>4, <2>5, <2>6 DEF Starter
<1>4. ASSUME NEW r \in Runs, Execute(r) \/ FinishRunFails(r)
      PROVE  HeldInv' /\ OwnedInv'
  <2>1. CASE RunAction(r)
    BY <2>1 DEF RunAction
  <2>2. CASE FinishRun(r)
    BY <2>2 DEF FinishRun, Outcomes
  <2>3. CASE FinishRunFails(r)
    BY <2>3 DEF FinishRunFails, Outcomes
  <2>4. CASE Unlock(r)
    BY <2>4 DEF Unlock
  <2> QED
    BY <1>4, <2>1, <2>2, <2>3, <2>4 DEF Execute
<1>5. ASSUME NEW a \in Admins, (\E r \in Runs : CancelGet(a, r)) \/ CancelSignal(a) \/ ForceFinish(a)
      PROVE  HeldInv' /\ OwnedInv'
  <2>1. ASSUME NEW r \in Runs, CancelGet(a, r)
        PROVE  HeldInv' /\ OwnedInv'
    BY <2>1 DEF CancelGet
  <2>2. CASE CancelSignal(a)
    BY <2>2 DEF CancelSignal
  <2>3. CASE ForceFinish(a)
    BY <2>3 DEF ForceFinish
  <2> QED
    BY <1>5, <2>1, <2>2, <2>3
<1>6. CASE ReloadStop \/ ReloadStart
  BY <1>6 DEF ReloadStop, ReloadStart
<1>7. CASE Restart
  BY <1>7, MaintenanceAssumption DEF Restart
<1> QED
  BY <1>2, <1>3, <1>4, <1>5, <1>6, <1>7 DEF Next

LEMMA FullInductive == Spec => []FullInv
BY FullInit, FullNext, PTL DEF Spec

\* A row never stays "running" with nobody working on it, unless storing its
\* end failed.
THEOREM Owned == Spec => []RunningIsOwned
<1>1. FullInv => RunningIsOwned
  BY DEF FullInv, OwnedInv
<1> QED
  BY <1>1, FullInductive, PTL

LEMMA LifecycleInit == Init => Lifecycle!Init
BY DEF Init, Lifecycle!Init, Executing

\* Every step of the service is a step of RunLifecycle or invisible there.
LEMMA LifecycleStep == FullInv /\ [Next]_vars => [Lifecycle!Next]_(Lifecycle!vars)
<1> SUFFICES ASSUME FullInv, [Next]_vars PROVE [Lifecycle!Next]_(Lifecycle!vars)
  OBVIOUS
<1> DEFINE active == {r \in Runs : Executing(r)}
<1> USE DEF FullInv, IndInv, TypeOK, Lifecycle!vars
<1>1. (UNCHANGED <<row, keyOf, job>>) => UNCHANGED Lifecycle!vars
  BY DEF Executing
<1>2. CASE UNCHANGED vars
  BY <1>1, <1>2
<1>3. ASSUME NEW p \in Starters, RunNow(p) \/ TryLock(p) \/ InsertFails(p) \/ Abort(p)
      PROVE  UNCHANGED Lifecycle!vars
  BY <1>1, <1>3 DEF RunNow, TryLock, InsertFails, Abort
<1>4. ASSUME NEW p \in Starters, NEW r \in Runs, InsertRun(p, r)
      PROVE  Lifecycle!Insert(r, skey[p])
  BY <1>4 DEF InsertRun, Lifecycle!Insert, Executing
<1>5. ASSUME NEW p \in Starters, BindRun(p)
      PROVE  Lifecycle!Begin(srun[p])
  <2>1. srun[p] \in Runs /\ row[srun[p]] # "none" /\ job[srun[p]] = "none"
    BY <1>5 DEF BindRun, StarterInv
  <2>2. lock[keyOf[srun[p]]] = Unbound
    BY <1>5 DEF BindRun, StarterInv, Starting
  <2>3. \A t \in Runs : Executing(t) => keyOf[t] # keyOf[srun[p]]
    BY <2>2, MaintenanceAssumption DEF ExecutingIsBound
  <2>4. active' = active \cup {srun[p]}
    BY <1>5, <2>1 DEF BindRun, Executing
  <2> QED
    BY <1>5, <2>1, <2>3, <2>4 DEF BindRun, Lifecycle!Begin, Executing
<1>6. ASSUME NEW r \in Runs, RunAction(r) \/ FinishRunFails(r)
      PROVE  UNCHANGED Lifecycle!vars
  <2>1. active' = active
    BY <1>6 DEF RunAction, FinishRunFails, Executing, Outcomes
  <2> QED
    BY <1>6, <2>1 DEF RunAction, FinishRunFails
<1>7. ASSUME NEW r \in Runs, FinishRun(r)
      PROVE  Lifecycle!Finish(r)
  <2>1. active' = active /\ r \in active
    BY <1>7 DEF FinishRun, Executing, Outcomes
  <2> QED
    BY <1>7, <2>1 DEF FinishRun, Lifecycle!Finish, Lifecycle!Outcomes, Outcomes
<1>8. ASSUME NEW r \in Runs, Unlock(r)
      PROVE  Lifecycle!End(r)
  <2>1. active' = active \ {r} /\ r \in active
    BY <1>8 DEF Unlock, Executing
  <2> QED
    BY <1>8, <2>1 DEF Unlock, Lifecycle!End
<1>9. ASSUME NEW a \in Admins, (\E r \in Runs : CancelGet(a, r)) \/ CancelSignal(a)
      PROVE  UNCHANGED Lifecycle!vars
  BY <1>1, <1>9 DEF CancelGet, CancelSignal
<1>10. ASSUME NEW a \in Admins, ForceFinish(a)
       PROVE  arun[a] \in Runs /\ Lifecycle!GiveUp(arun[a])
  BY <1>10 DEF ForceFinish, HeldInv, Lifecycle!GiveUp, Executing
<1>11. CASE ReloadStop \/ ReloadStart
  BY <1>1, <1>11 DEF ReloadStop, ReloadStart
<1>12. CASE Restart
  <2>1. active' = {}
    BY <1>12 DEF Restart, Executing
  <2>2. Lifecycle!Crash
    BY <1>12, <2>1 DEF Restart, Lifecycle!Crash
  <2> QED
    BY <2>2 DEF Lifecycle!Next
<1>13. ASSUME NEW p \in Starters, RunNow(p) \/ Starter(p) \/ InsertFails(p)
       PROVE  [Lifecycle!Next]_(Lifecycle!vars)
  BY <1>3, <1>4, <1>5, <1>13 DEF Starter, Lifecycle!Next, BindRun, StarterInv
<1>14. ASSUME NEW r \in Runs, Execute(r) \/ FinishRunFails(r)
       PROVE  [Lifecycle!Next]_(Lifecycle!vars)
  BY <1>6, <1>7, <1>8, <1>14 DEF Execute, Lifecycle!Next
<1>15. ASSUME NEW a \in Admins, (\E r \in Runs : CancelGet(a, r)) \/ CancelSignal(a) \/ ForceFinish(a)
       PROVE  [Lifecycle!Next]_(Lifecycle!vars)
  BY <1>9, <1>10, <1>15 DEF Lifecycle!Next
<1> QED
  BY <1>2, <1>11, <1>12, <1>13, <1>14, <1>15 DEF Next

\* The maintenance service implements RunLifecycle: whatever its callers, locks,
\* cancellations, reloads, failures and restarts do, an administrator only sees
\* what that specification allows.
THEOREM Refines == Spec => KeepsLifecycle
BY LifecycleInit, LifecycleStep, FullInductive, PTL DEF Spec, KeepsLifecycle, Lifecycle!Spec

=============================================================================
