----------------------------- MODULE TaskRunner -----------------------------
(***************************************************************************)
(* One task runner with its restart policy (src/src/taskrunner.rs,         *)
(* reschedule.rs), used directly instead of through an alloc runner: the   *)
(* supervisor of task 1 of AllocRunner, whose driver and process table     *)
(* this module goes on with.  The alloc runner never calls handle_exit.    *)
(*                                                                         *)
(* The calls take &mut self and are one action each; nothing prescribes    *)
(* their order, so every order is allowed.  A call of handle_exit that is  *)
(* not about an end the runner has seen is noted in misused.               *)
(***************************************************************************)
EXTENDS AllocRunner

CONSTANT
  RestartPolicies  \* records [attempts]; interval, delay and mode are never read

ASSUME PolicyAssumption ==
  /\ \A p \in RestartPolicies : p.attempts \in Nat
  /\ NTasks >= 1

VARIABLES
  policy,         \* restart_policy
  restart_count,
  launches,       \* history: processes the task's start() launched
  stopped,        \* history: stop() was called on a task that had a handle
  misused         \* history: handle_exit() was called although the runner's state
                  \* was not terminal, or with the other outcome

taskVars == <<policy, restart_count, launches, stopped, misused>>

Unit == 1  \* the task

\* The alloc runner is not there.
NoAlloc == UNCHANGED <<cstat, runs, destroyed, erred>>

\* with_restart_policy() takes any policy: nothing calls its validate().
TaskInit ==
  /\ policy \in RestartPolicies
  /\ restart_count = 0
  /\ launches = 0
  /\ stopped = FALSE
  /\ misused = FALSE

\* start() that the driver carries out.  It looks at the handle, not at the
\* state.
TaskStart ==
  /\ handle[Unit] = 0
  /\ Len(process) < MaxLaunches
  /\ Becomes(Start(Local, Unit))
  /\ launches' = launches + 1
  /\ NoAlloc /\ UNCHANGED <<policy, restart_count, stopped, misused>>

\* poll(); the other tasks have no handle, so they stay as they are.
TaskPoll ==
  /\ state' = [t \in Task |-> Polled(t)]
  /\ running' = HeldAfterPoll
  /\ NoAlloc /\ UNCHANGED <<handle, process, taskVars>>

\* Faulty variant: a task whose process was killed counts as failed.
TaskStopFailed ==
  /\ Becomes([StopTask(Local, Unit) EXCEPT !.state[Unit] = "Failed"])
  /\ stopped' = (stopped \/ handle[Unit] # 0)
  /\ NoAlloc /\ UNCHANGED <<policy, restart_count, launches, misused>>

\* stop()
TaskStop ==
  /\ Becomes(StopTask(Local, Unit))
  /\ stopped' = (stopped \/ handle[Unit] # 0)
  /\ NoAlloc /\ UNCHANGED <<policy, restart_count, launches, misused>>

\* Faulty variant: one attempt too many.
MayRestartOnceMore == restart_count <= policy.attempts

MayRestart == restart_count < policy.attempts

\* handle_exit(success)
HandleExit(success) ==
  LET restart == ~success /\ MayRestart IN
  /\ state' = [state EXCEPT ![Unit] =
                 IF success THEN "Exited" ELSE IF restart THEN "Pending" ELSE "Failed"]
  /\ restart_count' = IF restart THEN restart_count + 1 ELSE restart_count
  /\ handle' = IF restart THEN [handle EXCEPT ![Unit] = 0] ELSE handle
  /\ misused' = (misused \/ state[Unit] # IF success THEN "Exited" ELSE "Failed")
  /\ NoAlloc /\ UNCHANGED <<running, process, policy, launches, stopped>>

\* A process ends on its own.
TaskExit(pid, how) ==
  /\ process[pid] = "alive"
  /\ process' = [process EXCEPT ![pid] = how]
  /\ NoAlloc /\ UNCHANGED <<state, handle, running, taskVars>>

TaskNext ==
  \/ TaskStart \/ TaskPoll \/ TaskStop
  \/ \E success \in BOOLEAN : HandleExit(success)
  \/ \E pid \in Launch, how \in {"ok", "bad"} : TaskExit(pid, how)

\* The runner by itself.
TaskSpec == RunnerInit /\ TaskInit /\ [][TaskNext]_<<runnerVars, taskVars>>

----------------------------------------------------------------------------
(* Properties.                                                             *)

\* "A failure restarts while under the policy's attempts cap": whatever is
\* called in whatever order, handle_exit misused too, the task is launched
\* no more often than once and once per allowed restart.
LaunchesBounded == launches <= policy.attempts + 1

\* A restart leaves no process behind: as long as handle_exit is called for
\* an end that was seen, a live process is the one the handle names and the
\* driver holds it.  (Called while the process lives, handle_exit drops the
\* only handle to it.)  In an allocation, where handle_exit is not called,
\* the same holds of all the tasks.
NothingOrphaned == ~misused => Reachable

\* A stop is final: once stop() was called on a launched task whose process
\* can be killed, none of its processes is alive in any later state, polls,
\* exits, restarts allowed by the policy and further calls of start
\* notwithstanding.  (The outcome that was polled before the stop counts as
\* misuse when it is handed in after it: then the task is restarted.)
StopIsFinal ==
  (stopped /\ ~misused /\ Unit \notin Unkillable) => \A pid \in Launch : process[pid] # "alive"

============================================================================
