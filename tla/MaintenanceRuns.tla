-------------------------- MODULE MaintenanceRuns --------------------------
(***************************************************************************)
(* Maintenance runs: internal/maintenance/service.go and the run rows of   *)
(* its PostgreSQL store.  RunNow (called by admins and by the cron engine) *)
(* takes the in-memory lock of an action and library, inserts a row with   *)
(* status "running", binds the row to the lock and starts a goroutine that *)
(* executes the action, finishes the row and releases the lock.  Cancel    *)
(* and ReloadSchedules run beside it; a restart loses everything but the   *)
(* rows.                                                                   *)
(*                                                                         *)
(* Sections under s.mu are single steps, except ReloadSchedules, which     *)
(* keeps s.mu while it waits for the cron engine to stop.                  *)
(***************************************************************************)
EXTENDS Naturals, FiniteSets

CONSTANTS
  Keys,            \* LockKey(action, libraryID)
  Runs,            \* bound: run rows that can be inserted
  Manual, Cron,    \* goroutines calling RunNow: requests and cron jobs
  Admins,          \* goroutines calling Cancel
  Free, Unbound,   \* no lock; a lock without a run ID
  NoRun,
  MaxReloads,      \* bound: calls of ReloadSchedules
  MaxDbErrors,     \* bound: failing database calls
  MaxRestarts      \* bound: restarts of the server

Starters == Manual \cup Cron

ASSUME MaintenanceAssumption ==
  /\ {Free, Unbound, NoRun} \cap Runs = {}
  /\ Free # Unbound
  /\ Manual \cap Cron = {}
  /\ MaxReloads \in Nat /\ MaxDbErrors \in Nat /\ MaxRestarts \in Nat

VARIABLES
  lock,              \* s.locks: per key Free, Unbound or the run ID
  row, keyOf,        \* the stored status of each run and its key
  job,               \* the execute goroutine: its control point or the status
                     \* it is about to store
  cancelled,         \* jobCtx of the run
  spc, skey, srun,   \* RunNow: control point, key, row
  apc, arun,         \* Cancel: control point, run
  reloading,         \* ReloadSchedules holds s.mu
  reloads, dbErrors, restarts

startVars == <<spc, skey, srun>>
adminVars == <<apc, arun>>
jobVars == <<job, cancelled>>
rowVars == <<row, keyOf>>
bounds == <<reloads, dbErrors, restarts>>
vars == <<lock, rowVars, jobVars, startVars, adminVars, reloading, bounds>>

Outcomes == {"success", "failed", "canceled"}
MuFree == ~reloading

Init ==
  /\ lock = [k \in Keys |-> Free]
  /\ row = [r \in Runs |-> "none"]
  /\ keyOf \in [Runs -> Keys]
  /\ job = [r \in Runs |-> "none"]
  /\ cancelled = [r \in Runs |-> FALSE]
  /\ spc = [p \in Starters |-> "idle"]
  /\ skey \in [Starters -> Keys]
  /\ srun = [p \in Starters |-> NoRun]
  /\ apc = [a \in Admins |-> "idle"]
  /\ arun = [a \in Admins |-> NoRun]
  /\ reloading = FALSE
  /\ reloads = 0 /\ dbErrors = 0 /\ restarts = 0

----------------------------------------------------------------------------
(* RunNow.  A caller keeps to one key: it stands for every call with it.   *)

\* The bound on rows: a call that may have to insert one will find one left.
RowLeft ==
  Cardinality({r \in Runs : row[r] = "none"})
    > Cardinality({p \in Starters : spc[p] \in {"lock", "insert"}})

\* A request, or a cron tick: a stopped engine starts no more jobs
RunNow(p) ==
  /\ spc[p] = "idle"
  /\ RowLeft
  /\ p \in Cron => ~reloading
  /\ spc' = [spc EXCEPT ![p] = "lock"]
  /\ UNCHANGED <<lock, rowVars, jobVars, skey, srun, adminVars, reloading, bounds>>

\* Mutant: the key is locked without a look at the map
TryLockUnchecked(p) ==
  /\ spc[p] = "lock"
  /\ MuFree
  /\ lock' = [lock EXCEPT ![skey[p]] = Unbound]
  /\ spc' = [spc EXCEPT ![p] = "insert"]
  /\ UNCHANGED <<rowVars, jobVars, skey, srun, adminVars, reloading, bounds>>

\* Mutant: the unlock is deferred before the lock is known to be taken
TryLockReleases(p) ==
  /\ spc[p] = "lock"
  /\ MuFree
  /\ IF lock[skey[p]] = Free
       THEN /\ lock' = [lock EXCEPT ![skey[p]] = Unbound]
            /\ spc' = [spc EXCEPT ![p] = "insert"]
       ELSE /\ spc' = [spc EXCEPT ![p] = "idle"]
            /\ lock' = [lock EXCEPT ![skey[p]] = Free]
  /\ UNCHANGED <<rowVars, jobVars, skey, srun, adminVars, reloading, bounds>>

\* ErrConflict when the key is locked
TryLock(p) ==
  /\ spc[p] = "lock"
  /\ MuFree
  /\ IF lock[skey[p]] = Free
       THEN /\ lock' = [lock EXCEPT ![skey[p]] = Unbound]
            /\ spc' = [spc EXCEPT ![p] = "insert"]
       ELSE /\ spc' = [spc EXCEPT ![p] = "idle"]
            /\ UNCHANGED lock
  /\ UNCHANGED <<rowVars, jobVars, skey, srun, adminVars, reloading, bounds>>

InsertRun(p, r) ==
  /\ spc[p] = "insert"
  /\ row[r] = "none"
  /\ row' = [row EXCEPT ![r] = "running"]
  /\ keyOf' = [keyOf EXCEPT ![r] = skey[p]]
  /\ srun' = [srun EXCEPT ![p] = r]
  /\ spc' = [spc EXCEPT ![p] = "bind"]
  /\ UNCHANGED <<lock, jobVars, skey, adminVars, reloading, bounds>>

\* Mutant: the error of InsertRun is not returned
InsertErrorIgnored(p) ==
  /\ spc[p] = "insert"
  /\ dbErrors < MaxDbErrors
  /\ dbErrors' = dbErrors + 1
  /\ spc' = [spc EXCEPT ![p] = "bind"]
  /\ UNCHANGED <<lock, rowVars, jobVars, skey, srun, adminVars, reloading, reloads, restarts>>

InsertFails(p) ==
  /\ spc[p] = "insert"
  /\ dbErrors < MaxDbErrors
  /\ dbErrors' = dbErrors + 1
  /\ spc' = [spc EXCEPT ![p] = "abort"]
  /\ UNCHANGED <<lock, rowVars, jobVars, skey, srun, adminVars, reloading, reloads, restarts>>

\* Mutant: a failed insert returns without the unlock
AbortKeepsLock(p) ==
  /\ spc[p] = "abort"
  /\ MuFree
  /\ spc' = [spc EXCEPT ![p] = "idle"]
  /\ UNCHANGED <<lock, rowVars, jobVars, skey, srun, adminVars, reloading, bounds>>

Abort(p) ==
  /\ spc[p] = "abort"
  /\ MuFree
  /\ lock' = [lock EXCEPT ![skey[p]] = Free]
  /\ spc' = [spc EXCEPT ![p] = "idle"]
  /\ UNCHANGED <<rowVars, jobVars, skey, srun, adminVars, reloading, bounds>>

\* bindRunID, then "go s.execute"
BindRun(p) ==
  /\ spc[p] = "bind"
  /\ MuFree
  /\ lock' = [lock EXCEPT ![skey[p]] = srun[p]]
  /\ job' = [job EXCEPT ![srun[p]] = "run"]
  /\ spc' = [spc EXCEPT ![p] = "idle"]
  /\ srun' = [srun EXCEPT ![p] = NoRun]
  /\ UNCHANGED <<rowVars, cancelled, skey, adminVars, reloading, bounds>>

----------------------------------------------------------------------------
(* execute                                                                 *)

\* runAction returns; the status follows from its error and from ctx.Err()
RunAction(r) ==
  /\ job[r] = "run"
  /\ \E o \in IF cancelled[r] THEN {"failed", "canceled"} ELSE {"failed", "success"} :
       job' = [job EXCEPT ![r] = o]
  /\ UNCHANGED <<lock, rowVars, cancelled, startVars, adminVars, reloading, bounds>>

\* Mutant: the end is stored under the job's own context, cancelled or not
FinishRunInJobCtx(r) ==
  /\ job[r] \in Outcomes
  /\ row' = IF cancelled[r] THEN row ELSE [row EXCEPT ![r] = job[r]]
  /\ job' = [job EXCEPT ![r] = "unlock"]
  /\ UNCHANGED <<lock, keyOf, cancelled, startVars, adminVars, reloading, bounds>>

FinishRun(r) ==
  /\ job[r] \in Outcomes
  /\ row' = [row EXCEPT ![r] = job[r]]
  /\ job' = [job EXCEPT ![r] = "unlock"]
  /\ UNCHANGED <<lock, keyOf, cancelled, startVars, adminVars, reloading, bounds>>

\* The error is only logged.
FinishRunFails(r) ==
  /\ job[r] \in Outcomes
  /\ dbErrors < MaxDbErrors
  /\ dbErrors' = dbErrors + 1
  /\ job' = [job EXCEPT ![r] = "unlock"]
  /\ UNCHANGED <<lock, rowVars, cancelled, startVars, adminVars, reloading, reloads, restarts>>

\* Mutant: the lock is released once the action has returned, and again after
\* the row is finished
UnlockEarly(r) ==
  /\ job[r] \in Outcomes \cup {"unlock"}
  /\ MuFree
  /\ lock' = [lock EXCEPT ![keyOf[r]] = Free]
  /\ job' = [job EXCEPT ![r] = IF @ = "unlock" THEN "none" ELSE @]
  /\ cancelled' = [cancelled EXCEPT ![r] = FALSE]
  /\ UNCHANGED <<rowVars, startVars, adminVars, reloading, bounds>>

\* The deferred unlock and cancel
Unlock(r) ==
  /\ job[r] = "unlock"
  /\ MuFree
  /\ lock' = [lock EXCEPT ![keyOf[r]] = Free]
  /\ job' = [job EXCEPT ![r] = "none"]
  /\ cancelled' = [cancelled EXCEPT ![r] = FALSE]
  /\ UNCHANGED <<rowVars, startVars, adminVars, reloading, bounds>>

----------------------------------------------------------------------------
(* Cancel, ReloadSchedules and restarts                                    *)

\* GetRun; ErrNotRunning otherwise
CancelGet(a, r) ==
  /\ apc[a] = "idle"
  /\ row[r] = "running"
  /\ apc' = [apc EXCEPT ![a] = "lookup"]
  /\ arun' = [arun EXCEPT ![a] = r]
  /\ UNCHANGED <<lock, rowVars, jobVars, startVars, reloading, bounds>>

\* cancelFuncForRun, and the cancel of a run that is found
CancelSignal(a) ==
  /\ apc[a] = "lookup"
  /\ MuFree
  /\ IF \E k \in Keys : lock[k] = arun[a]
       THEN /\ cancelled' = [cancelled EXCEPT ![arun[a]] = TRUE]
            /\ apc' = [apc EXCEPT ![a] = "idle"]
            /\ arun' = [arun EXCEPT ![a] = NoRun]
       ELSE /\ apc' = [apc EXCEPT ![a] = "force"]
            /\ UNCHANGED <<cancelled, arun>>
  /\ UNCHANGED <<lock, rowVars, job, startVars, reloading, bounds>>

ForceFinish(a) ==
  /\ apc[a] = "force"
  /\ row' = [row EXCEPT ![arun[a]] = "canceled"]
  /\ apc' = [apc EXCEPT ![a] = "idle"]
  /\ arun' = [arun EXCEPT ![a] = NoRun]
  /\ UNCHANGED <<lock, keyOf, jobVars, startVars, reloading, bounds>>

\* s.mu.Lock(), then cron.Stop()
ReloadStop ==
  /\ MuFree
  /\ reloads < MaxReloads
  /\ reloads' = reloads + 1
  /\ reloading' = TRUE
  /\ UNCHANGED <<lock, rowVars, jobVars, startVars, adminVars, dbErrors, restarts>>

\* <-stopCtx.Done(): every cron job has returned; a new engine starts
ReloadStart ==
  /\ reloading
  /\ \A p \in Cron : spc[p] = "idle"
  /\ reloading' = FALSE
  /\ UNCHANGED <<lock, rowVars, jobVars, startVars, adminVars, bounds>>

\* Mutant: Start leaves the rows of the last process alone
RestartKeepsRows ==
  /\ restarts < MaxRestarts
  /\ restarts' = restarts + 1
  /\ lock' = [k \in Keys |-> Free]
  /\ job' = [r \in Runs |-> "none"]
  /\ cancelled' = [r \in Runs |-> FALSE]
  /\ spc' = [p \in Starters |-> "idle"]
  /\ srun' = [p \in Starters |-> NoRun]
  /\ apc' = [a \in Admins |-> "idle"]
  /\ arun' = [a \in Admins |-> NoRun]
  /\ reloading' = FALSE
  /\ UNCHANGED <<rowVars, skey, reloads, dbErrors>>

\* The process ends; Start marks the rows still running as failed.
Restart ==
  /\ restarts < MaxRestarts
  /\ restarts' = restarts + 1
  /\ lock' = [k \in Keys |-> Free]
  /\ row' = [r \in Runs |-> IF row[r] = "running" THEN "failed" ELSE row[r]]
  /\ job' = [r \in Runs |-> "none"]
  /\ cancelled' = [r \in Runs |-> FALSE]
  /\ spc' = [p \in Starters |-> "idle"]
  /\ srun' = [p \in Starters |-> NoRun]
  /\ apc' = [a \in Admins |-> "idle"]
  /\ arun' = [a \in Admins |-> NoRun]
  /\ reloading' = FALSE
  /\ UNCHANGED <<keyOf, skey, reloads, dbErrors>>

----------------------------------------------------------------------------

Starter(p) ==
  \/ TryLock(p) \/ (\E r \in Runs : InsertRun(p, r)) \/ Abort(p) \/ BindRun(p)

Execute(r) == RunAction(r) \/ FinishRun(r) \/ Unlock(r)

Next ==
  \/ \E p \in Starters : RunNow(p) \/ Starter(p) \/ InsertFails(p)
  \/ \E r \in Runs : Execute(r) \/ FinishRunFails(r)
  \/ \E a \in Admins :
       (\E r \in Runs : CancelGet(a, r)) \/ CancelSignal(a) \/ ForceFinish(a)
  \/ ReloadStop \/ ReloadStart
  \/ Restart

Spec == Init /\ [][Next]_vars

\* Goroutines run on and actions come to an end; nobody has to call anything.
Fairness ==
  /\ \A p \in Starters : WF_vars(Starter(p))
  /\ \A r \in Runs : WF_vars(Execute(r))
  /\ WF_vars(ReloadStart)

FairSpec == Spec /\ Fairness

----------------------------------------------------------------------------

\* Every variable has its type.
TypeOK ==
  /\ lock \in [Keys -> Runs \cup {Free, Unbound}]
  /\ row \in [Runs -> {"none", "running"} \cup Outcomes]
  /\ keyOf \in [Runs -> Keys]
  /\ job \in [Runs -> {"none", "run", "unlock"} \cup Outcomes]
  /\ cancelled \in [Runs -> BOOLEAN]
  /\ spc \in [Starters -> {"idle", "lock", "insert", "bind", "abort"}]
  /\ skey \in [Starters -> Keys]
  /\ srun \in [Starters -> Runs \cup {NoRun}]
  /\ apc \in [Admins -> {"idle", "lookup", "force"}]
  /\ arun \in [Admins -> Runs \cup {NoRun}]
  /\ reloading \in BOOLEAN
  /\ reloads \in 0 .. MaxReloads
  /\ dbErrors \in 0 .. MaxDbErrors
  /\ restarts \in 0 .. MaxRestarts

Executing(r) == job[r] # "none"

\* The service keeps the promise of RunLifecycle: the run that stores an
\* outcome is executing, and is the only one of its key that is, whatever
\* callers, locks, cancellations, reloads and restarts do beneath.
Lifecycle == INSTANCE RunLifecycle
  WITH status <- row, of <- keyOf, active <- {r \in Runs : Executing(r)}

KeepsLifecycle == Lifecycle!Spec

\* The same action never runs twice at once for a library, whoever starts,
\* cancels, force-finishes or reschedules it.
OneRunPerKey ==
  \A r, t \in Runs : Executing(r) /\ Executing(t) /\ keyOf[r] = keyOf[t] => r = t

\* A run that executes can be cancelled: its lock carries its run ID until the
\* goroutine releases it, and no other caller's abort or unlock takes it away.
ExecutingIsBound == \A r \in Runs : Executing(r) => lock[keyOf[r]] = r

\* A row never stays "running" behind the back of the service: somebody is
\* working on it, unless storing its end failed.
RunningIsOwned ==
  \A r \in Runs : row[r] = "running" =>
    \/ Executing(r)
    \/ \E p \in Starters : srun[p] = r
    \/ dbErrors > 0

\* A locked key becomes free again, also after failed inserts, cancellations
\* and restarts, unless ReloadSchedules holds s.mu.
KeyIsReleased == \A k \in Keys : (lock[k] # Free) ~> (lock[k] = Free \/ reloading)

\* A started run gets a final status, also when it is cancelled or its server
\* restarts, as long as the database works and ReloadSchedules lets it start.
RunEnds ==
  \A r \in Runs :
    (row[r] = "running") ~> (row[r] # "running" \/ dbErrors > 0 \/ reloading)

----------------------------------------------------------------------------
(* What comments say and the code does not always do.                      *)

\* ReloadSchedules "rebuilds cron entries from the database": it ends.
ReloadEnds == reloading ~> ~reloading

=============================================================================
