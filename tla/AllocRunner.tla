---------------------------- MODULE AllocRunner ----------------------------
(***************************************************************************)
(* The client's alloc runner (src/src/allocrunner.rs), its task runners    *)
(* (taskrunner.rs) and the exec driver each of them owns (driver.rs),      *)
(* together with the processes the driver starts, which exit on their own. *)
(*                                                                         *)
(*   cstat        the allocation's client_status                           *)
(*   state[t]     TaskRunner.state                                         *)
(*   handle[t]    TaskRunner.handle: the number of a launch, 0 for None    *)
(*   running[t]   ExecDriver.running: launches whose Child it still holds  *)
(*   process      what the operating system knows: each launch is "alive", *)
(*                "ok" (exited zero) or "bad" (failed or killed)           *)
(*                                                                         *)
(* The methods take &mut self, so each call is one action.  Whether a task *)
(* can be started (its driver's name, its command, spawn) is settled call  *)
(* by call; a task in Unkillable is one whose kill() fails.  try_wait is   *)
(* taken not to fail.  RawExecDriver and DockerDriver are stubs that start *)
(* refuses by name.                                                        *)
(***************************************************************************)
EXTENDS Integers, Sequences, FiniteSets

CONSTANTS
  NTasks,       \* the tasks of the allocation, in order: 1 .. NTasks
  Unkillable,   \* tasks whose process cannot be killed
  MaxLaunches   \* bound: processes started

Task == 1 .. NTasks

ASSUME RunnerAssumption ==
  /\ NTasks \in Nat
  /\ Unkillable \subseteq Task
  /\ MaxLaunches \in Nat

VARIABLES
  cstat, state, handle, running, process,
  runs,       \* history: how often run() was called, at most 2
  destroyed,  \* history: destroy() was called
  erred       \* history: the last call was a run() that returned Err

runnerVars == <<cstat, state, handle, running, process, runs, destroyed, erred>>

Launch == DOMAIN process

Terminal == {"Exited", "Failed"}

----------------------------------------------------------------------------
(* The driver and the task runner, as what a call makes of the state.      *)

Local == [state |-> state, handle |-> handle, running |-> running, process |-> process]

\* TaskRunner::start on s, when the driver succeeds.
Start(s, t) ==
  LET pid == Len(s.process) + 1 IN
  [s EXCEPT !.state[t] = "Running",
            !.handle[t] = pid,
            !.running[t] = @ \cup {pid},
            !.process = Append(@, "alive")]

\* ExecDriver::stop_task: the Child is forgotten before it is killed.
KillFails(s, t) == s.handle[t] \in s.running[t] /\ t \in Unkillable

\* TaskRunner::stop on s.
StopTask(s, t) ==
  LET held == s.handle[t] \in s.running[t] IN
  [s EXCEPT !.running[t] = @ \ {s.handle[t]},
            !.process = IF held /\ ~KillFails(s, t) /\ @[s.handle[t]] = "alive"
                          THEN [@ EXCEPT ![s.handle[t]] = "bad"] ELSE @,
            !.state[t] = IF KillFails(s, t) THEN @ ELSE "Exited"]

\* ExecDriver::inspect_task; a launch it does not hold counts as finished.
Inspect(t) ==
  IF handle[t] \notin running[t] \/ process[handle[t]] = "ok" THEN "Exited"
  ELSE IF process[handle[t]] = "bad" THEN "Failed" ELSE "Running"

\* Faulty variant: a terminal state is inspected again.
PolledAgain(t) == IF handle[t] = 0 THEN state[t] ELSE Inspect(t)

\* TaskRunner::poll: a terminal state is kept, and a task without a handle is
\* not inspected.
Polled(t) == IF state[t] \in Terminal \/ handle[t] = 0 THEN state[t] ELSE Inspect(t)

\* The launches still held after every task was polled.
HeldAfterPoll ==
  [t \in Task |->
     IF state[t] \in Terminal \/ handle[t] = 0 \/ Polled(t) = "Running"
       THEN running[t] ELSE running[t] \ {handle[t]}]

----------------------------------------------------------------------------
(* The alloc runner.                                                       *)

RunnerInit ==
  /\ cstat = "Pending"
  /\ state = [t \in Task |-> "Pending"]
  /\ handle = [t \in Task |-> 0]
  /\ running = [t \in Task |-> {}]
  /\ process = <<>>
  /\ runs = 0
  /\ destroyed = FALSE
  /\ erred = FALSE

Becomes(s) ==
  /\ state' = s.state
  /\ handle' = s.handle
  /\ running' = s.running
  /\ process' = s.process

\* The first n tasks started, in order.
Started[n \in 0 .. NTasks] ==
  IF n = 0 THEN Local ELSE Start(Started[n - 1], n)

\* Tasks stopped one after the other; the result of stop is dropped or kept
\* for later, and the next one is stopped in any case.
Stopped(s, order) ==
  LET after[k \in 0 .. Len(order)] == IF k = 0 THEN s ELSE StopTask(after[k - 1], order[k])
  IN  after[Len(order)]

\* Faulty variant: no rollback.
NotRolledBack(s, n) == s

\* The first n tasks stopped, the last first.
RolledBack(s, n) == Stopped(s, [k \in 1 .. n |-> n + 1 - k])

\* Faulty variant: a task that has a handle is started once more.
RunAnyway ==
  /\ Len(process) + NTasks <= MaxLaunches
  /\ Becomes(Started[NTasks])
  /\ cstat' = "Running"
  /\ erred' = FALSE
  /\ runs' = IF runs < 2 THEN runs + 1 ELSE runs
  /\ UNCHANGED destroyed

\* run() that starts every task.
Run ==
  /\ \A t \in Task : handle[t] = 0
  /\ Len(process) + NTasks <= MaxLaunches
  /\ Becomes(Started[NTasks])
  /\ cstat' = "Running"
  /\ erred' = FALSE
  /\ runs' = IF runs < 2 THEN runs + 1 ELSE runs
  /\ UNCHANGED destroyed

\* run() that fails at task n, because it has a handle already or because
\* it cannot be started.  The tasks before it are stopped again.
RunFails(n) ==
  /\ \A t \in 1 .. (n - 1) : handle[t] = 0
  /\ Len(process) + n - 1 <= MaxLaunches
  /\ Becomes(RolledBack(Started[n - 1], n - 1))
  /\ cstat' = "Failed"
  /\ erred' = TRUE
  /\ runs' = IF runs < 2 THEN runs + 1 ELSE runs
  /\ UNCHANGED destroyed

\* task_states()
TaskStates ==
  /\ state' = [t \in Task |-> Polled(t)]
  /\ running' = HeldAfterPoll
  /\ erred' = FALSE
  /\ UNCHANGED <<cstat, handle, process, runs, destroyed>>

\* refresh_status()
RefreshStatus ==
  /\ cstat \notin {"Complete", "Failed"}
  /\ state' = [t \in Task |-> Polled(t)]
  /\ running' = HeldAfterPoll
  /\ cstat' = IF \E t \in Task : state'[t] = "Failed" THEN "Failed"
              ELSE IF Task # {} /\ \A t \in Task : state'[t] = "Exited" THEN "Complete"
              ELSE cstat
  /\ erred' = FALSE
  /\ UNCHANGED <<handle, process, runs, destroyed>>

\* destroy(): every task is stopped, whether or not one of them cannot be.
Destroy ==
  /\ Becomes(Stopped(Local, [t \in Task |-> t]))
  /\ cstat' = "Complete"
  /\ destroyed' = TRUE
  /\ erred' = FALSE
  /\ UNCHANGED runs

\* A process ends on its own.
Exit(pid, how) ==
  /\ process[pid] = "alive"
  /\ process' = [process EXCEPT ![pid] = how]
  /\ erred' = FALSE
  /\ UNCHANGED <<cstat, state, handle, running, runs, destroyed>>

RunnerNext ==
  \/ Run \/ TaskStates \/ RefreshStatus \/ Destroy
  \/ \E n \in Task : RunFails(n)
  \/ \E pid \in Launch : \E how \in {"ok", "bad"} : Exit(pid, how)

\* The alloc runner by itself.
RunnerSpec == RunnerInit /\ [][RunnerNext]_runnerVars

----------------------------------------------------------------------------
(* Properties.                                                             *)

Alive == {pid \in Launch : process[pid] = "alive"}

\* The launches of tasks that can be killed.
Killable == {pid \in Launch : \A t \in Unkillable : handle[t] # pid}

\* A live process can be reached: it is the launch that some task's handle
\* names, the only one of that task, and its driver still holds the Child.
\* Lost is only what could not be killed.
Reachable ==
  \A pid \in Alive \cap Killable : \E t \in Task : handle[t] = pid /\ running[t] = {pid}

\* The roll-up hides no failure and no process: until destroy() is called, an
\* allocation is reported Complete only if every one of its processes exited
\* zero, however task_states and refresh_status alternate with the exits; and
\* in no case is a process alive that could have been stopped.
CompleteIsClean ==
  cstat = "Complete" =>
    /\ ~destroyed => \A pid \in Launch : process[pid] = "ok"
    /\ Alive \cap Killable = {}

\* "Roll back already-started tasks so a partial failure doesn't leave
\* orphaned processes": when the first run() returns an error, nothing that
\* can be killed is left running.
FirstRunRollsBack == (erred /\ runs = 1) => Alive \cap Killable = {}

============================================================================
