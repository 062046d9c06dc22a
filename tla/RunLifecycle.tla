---------------------------- MODULE RunLifecycle ----------------------------
(***************************************************************************)
(* What internal/maintenance promises of its runs to the administrators    *)
(* who watch them: a run appears as "running", at most one run of a key    *)
(* executes at a time, only a run that executes stores how it ended, and   *)
(* it does so before the next run of its key begins.  The locks, the       *)
(* callers, the cron engine and the failures that MaintenanceRuns has are  *)
(* not seen here.                                                          *)
(***************************************************************************)
CONSTANTS Keys, Runs

VARIABLES
  status,  \* of each run: "none" before its row exists
  of,      \* the key of each run
  active   \* the runs that execute

vars == <<status, of, active>>

Outcomes == {"success", "failed", "canceled"}

Init ==
  /\ status = [r \in Runs |-> "none"]
  /\ of \in [Runs -> Keys]
  /\ active = {}

Insert(r, k) ==
  /\ status[r] = "none"
  /\ status' = [status EXCEPT ![r] = "running"]
  /\ of' = [of EXCEPT ![r] = k]
  /\ UNCHANGED active

Begin(r) ==
  /\ status[r] # "none" /\ r \notin active
  /\ \A t \in active : of[t] # of[r]
  /\ active' = active \cup {r}
  /\ UNCHANGED <<status, of>>

Finish(r) ==
  /\ r \in active
  /\ \E o \in Outcomes : status' = [status EXCEPT ![r] = o]
  /\ UNCHANGED <<of, active>>

End(r) ==
  /\ r \in active
  /\ active' = active \ {r}
  /\ UNCHANGED <<status, of>>

\* Cancel of a run that it does not find executing.  It may come late and
\* overwrite how the run ended, or early, before the run begins.
GiveUp(r) ==
  /\ status[r] # "none"
  /\ status' = [status EXCEPT ![r] = "canceled"]
  /\ UNCHANGED <<of, active>>

\* The server starts again: nothing executes or is "running".
Crash ==
  /\ active' = {}
  /\ status' = [r \in Runs |-> IF status[r] = "running" THEN "failed" ELSE status[r]]
  /\ UNCHANGED of

Next ==
  \/ \E r \in Runs :
       (\E k \in Keys : Insert(r, k)) \/ Begin(r) \/ Finish(r) \/ End(r) \/ GiveUp(r)
  \/ Crash

Spec == Init /\ [][Next]_vars
=============================================================================
