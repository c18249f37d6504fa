---------------------------- MODULE AgentProofs ----------------------------
(***************************************************************************)
(* Proofs about what an agent runs besides the server, each component on   *)
(* its own: the client's local database, for any number of connections     *)
(* and every set of allocations and tasks; the agent process, for whatever *)
(* texts main is started with; the task runner and its restart policy, for *)
(* every policy, every number of launches and whether or not the process   *)
(* can be killed; the alloc runner, for any number of tasks; and gossip    *)
(* membership, for every set of nodes and any number of calls, over a      *)
(* network that loses, repeats and reorders.                               *)
(***************************************************************************)
EXTENDS ClientState, Agent, TaskRunner, Membership, Induction

----------------------------------------------------------------------------
(* The local database.                                                     *)

\* The statuses a row was parsed into.
Parsed(row) ==
  [desired_status |-> ParseDesiredStatus(row.desired_status),
   client_status |-> ParseClientStatus(row.client_status), rest |-> row.rest]

\* The allocations table is what the upserts gave, as text.
AllocRows ==
  /\ upserted \in [DOMAIN upserted -> Allocation]
  /\ DOMAIN allocations = DOMAIN upserted
  /\ \A id \in DOMAIN upserted : allocations[id] = Row(upserted[id])
  /\ allocations = [id \in DOMAIN allocations |-> allocations[id]]

\* The task_states table is what was reported, as text, and refers only to
\* allocations that are there.
TaskRows ==
  /\ DOMAIN task_states = DOMAIN reported
  /\ \A k \in DOMAIN reported : task_states[k] = TaskText[reported[k]]
  /\ \A k \in DOMAIN task_states : k[1] \in DOMAIN allocations

DbInv == AllocRows /\ TaskRows

----------------------------------------------------------------------------
\* Reading a row back gives the allocation that was written: the two parse
\* functions undo as_str on every status, the defaults included.
LEMMA RoundTrip == ASSUME NEW a \in Allocation PROVE Parsed(Row(a)) = a
<1>1. /\ a = [desired_status |-> a.desired_status, client_status |-> a.client_status, rest |-> a.rest]
      /\ a.desired_status \in DesiredStatus /\ a.client_status \in AllocStatus
  BY DEF Allocation
<1>2. ParseDesiredStatus(DesiredText[a.desired_status]) = a.desired_status
  BY <1>1 DEF ParseDesiredStatus, DesiredText, DesiredStatus
<1>3. ParseClientStatus(ClientText[a.client_status]) = a.client_status
  BY <1>1 DEF ParseClientStatus, ClientText, AllocStatus
<1>4. /\ Row(a).desired_status = DesiredText[a.desired_status]
      /\ Row(a).client_status = ClientText[a.client_status] /\ Row(a).rest = a.rest
  BY DEF Row
<1> QED BY <1>1, <1>2, <1>3, <1>4 DEF Parsed

----------------------------------------------------------------------------
\* DbInv holds of the empty tables that open() creates.
LEMMA DbInitHolds == DbInit => DbInv
  BY DEF DbInit, NoRow, DbInv, AllocRows, TaskRows

\* upsert_alloc() preserves DbInv: no allocation goes away.
LEMMA UpsertHolds ==
  ASSUME DbInv, NEW c \in Connection, NEW id \in AllocId, NEW a \in Allocation, UpsertAlloc(c, id, a)
  PROVE  DbInv'
<1>1. /\ allocations' = Put(allocations, id, Row(a)) /\ upserted' = Put(upserted, id, a)
      /\ task_states' = task_states /\ reported' = reported
  BY DEF UpsertAlloc
<1>2. /\ DOMAIN allocations' = DOMAIN allocations \cup {id} /\ allocations'[id] = Row(a)
      /\ \A x \in DOMAIN allocations : x # id => allocations'[x] = allocations[x]
      /\ allocations' = [x \in DOMAIN allocations' |-> allocations'[x]]
  BY <1>1 DEF Put
<1>3. /\ DOMAIN upserted' = DOMAIN upserted \cup {id} /\ upserted'[id] = a
      /\ \A x \in DOMAIN upserted : x # id => upserted'[x] = upserted[x]
      /\ upserted' = [x \in DOMAIN upserted' |-> upserted'[x]]
  BY <1>1 DEF Put
<1>4. AllocRows'
  BY <1>2, <1>3 DEF DbInv, AllocRows
<1>5. TaskRows'
  BY <1>1, <1>2 DEF DbInv, TaskRows
<1> QED BY <1>4, <1>5 DEF DbInv

\* set_task_state() preserves DbInv: the foreign key holds it back unless the
\* allocation is there.
LEMMA SetTaskStateHolds ==
  ASSUME DbInv, NEW c \in Connection, NEW id \in AllocId, NEW task \in TaskName,
         NEW s \in TaskStatus, SetTaskState(c, id, task, s)
  PROVE  DbInv'
<1>1. /\ task_states' = Put(task_states, <<id, task>>, TaskText[s])
      /\ reported' = Put(reported, <<id, task>>, s)
      /\ allocations' = allocations /\ upserted' = upserted /\ id \in DOMAIN allocations
  BY DEF SetTaskState
<1>2. /\ DOMAIN task_states' = DOMAIN task_states \cup {<<id, task>>}
      /\ task_states'[<<id, task>>] = TaskText[s]
      /\ \A x \in DOMAIN task_states : x # <<id, task>> => task_states'[x] = task_states[x]
  BY <1>1 DEF Put
<1>3. /\ DOMAIN reported' = DOMAIN reported \cup {<<id, task>>}
      /\ reported'[<<id, task>>] = s
      /\ \A x \in DOMAIN reported : x # <<id, task>> => reported'[x] = reported[x]
  BY <1>1 DEF Put
<1>4. AllocRows'
  BY <1>1 DEF DbInv, AllocRows
<1>5. TaskRows'
  BY <1>1, <1>2, <1>3 DEF DbInv, TaskRows
<1> QED BY <1>4, <1>5 DEF DbInv

\* The first statement of delete_alloc() preserves DbInv.
LEMMA DeleteTaskStatesHolds ==
  ASSUME DbInv, NEW c \in Connection, NEW id \in AllocId, DeleteTaskStates(c, id)
  PROVE  DbInv'
<1>1. /\ task_states' = DeleteFrom(task_states, TaskRowsOf(id))
      /\ reported' = DeleteFrom(reported, {k \in DOMAIN reported : k[1] = id})
      /\ allocations' = allocations /\ upserted' = upserted
  BY DEF DeleteTaskStates
<1>2. TaskRowsOf(id) = {k \in DOMAIN reported : k[1] = id}
  BY DEF DbInv, TaskRows, TaskRowsOf
<1>3. /\ DOMAIN task_states' = DOMAIN task_states \ TaskRowsOf(id)
      /\ \A x \in DOMAIN task_states \ TaskRowsOf(id) : task_states'[x] = task_states[x]
  BY <1>1 DEF DeleteFrom
<1>4. /\ DOMAIN reported' = DOMAIN reported \ TaskRowsOf(id)
      /\ \A x \in DOMAIN reported \ TaskRowsOf(id) : reported'[x] = reported[x]
  BY <1>1, <1>2 DEF DeleteFrom
<1>5. AllocRows'
  BY <1>1 DEF DbInv, AllocRows
<1>6. TaskRows'
  BY <1>1, <1>3, <1>4, ZenonT(40) DEF DbInv, TaskRows
<1> QED BY <1>5, <1>6 DEF DbInv

\* The second statement preserves DbInv: a task row written since the first
\* one makes it fail.
LEMMA DeleteAllocationHolds ==
  ASSUME DbInv, NEW c \in Connection, DeleteAllocation(c)
  PROVE  DbInv'
<1> DEFINE id == deleting[c]
<1>1. /\ allocations' = DeleteFrom(allocations, {id}) /\ upserted' = DeleteFrom(upserted, {id})
      /\ task_states' = task_states /\ reported' = reported
      /\ \A k \in DOMAIN task_states : k[1] # id
  BY DEF DeleteAllocation, Referenced, TaskRowsOf
<1> HIDE DEF id
<1>2. /\ DOMAIN allocations' = DOMAIN allocations \ {id}
      /\ \A x \in DOMAIN allocations \ {id} : allocations'[x] = allocations[x]
      /\ allocations' = [x \in DOMAIN allocations' |-> allocations'[x]]
  BY <1>1 DEF DeleteFrom
<1>3. /\ DOMAIN upserted' = DOMAIN upserted \ {id}
      /\ \A x \in DOMAIN upserted \ {id} : upserted'[x] = upserted[x]
      /\ upserted' = [x \in DOMAIN upserted' |-> upserted'[x]]
  BY <1>1 DEF DeleteFrom
<1>4. AllocRows'
  BY <1>2, <1>3 DEF DbInv, AllocRows
<1>5. TaskRows'
  BY <1>1, <1>2 DEF DbInv, TaskRows
<1> QED BY <1>4, <1>5 DEF DbInv

\* Every statement of every connection, and a stuttering step, preserves DbInv.
LEMMA DbStepHolds == ASSUME DbInv, [DbNext]_dbVars PROVE DbInv'
<1>1. CASE UNCHANGED dbVars
  BY <1>1 DEF dbVars, DbInv, AllocRows, TaskRows
<1>2. ASSUME NEW c \in Connection, DeleteCutShort(c) PROVE DbInv'
  BY <1>2 DEF DeleteCutShort, DbInv, AllocRows, TaskRows
<1> QED BY <1>1, <1>2, UpsertHolds, SetTaskStateHolds, DeleteTaskStatesHolds,
           DeleteAllocationHolds DEF DbNext

\* DbInv is an invariant of the database.
THEOREM DbInvariantHolds == DbSpec => []DbInv
  BY DbInitHolds, DbStepHolds, PTL DEF DbSpec

\* list_allocs returns just what was upserted and not deleted, through every
\* interleaving of statements and every delete that was cut short.
THEOREM RecoversAllocsHolds == DbSpec => []RecoversAllocs
<1>1. DbInv => RecoversAllocs
  <2> SUFFICES ASSUME DbInv PROVE ListAllocs = upserted
    BY DEF RecoversAllocs
  <2>1. ListAllocs = [id \in DOMAIN allocations |-> Parsed(allocations[id])]
    BY DEF ListAllocs, Parsed
  <2>2. ASSUME NEW id \in DOMAIN upserted PROVE Parsed(allocations[id]) = upserted[id]
    <3>1. upserted[id] \in Allocation /\ allocations[id] = Row(upserted[id])
      BY DEF DbInv, AllocRows
    <3> QED BY <3>1, RoundTrip
  <2>3. DOMAIN allocations = DOMAIN upserted /\ upserted = [id \in DOMAIN upserted |-> upserted[id]]
    BY DEF DbInv, AllocRows
  <2> QED BY <2>1, <2>2, <2>3
<1> QED BY <1>1, DbInvariantHolds, PTL

\* No task row outlives its allocation, and each has the state reported last.
THEOREM TaskStatesBelongHolds == DbSpec => []TaskStatesBelong
<1>1. DbInv => TaskStatesBelong
  BY DEF DbInv, TaskRows, TaskStatesBelong
<1> QED BY <1>1, DbInvariantHolds, PTL

----------------------------------------------------------------------------
(* The agent process.                                                      *)

\* Precedence is inductive once the two ways in which main is left are told
\* from a signal that ends the process.
MainInv ==
  /\ pc = "main" => exit = ""
  /\ exit = "error" => pc = "ended"
  /\ Precedence

\* StatusOfAll is inductive once the workers have their types.
StatusInv ==
  /\ worker \in Seq({"flag", "lap", "asleep", "ended"})
  /\ cancelled \subseteq DOMAIN worker
  /\ StatusOfAll

\* run() preserves StatusInv: its worker is the last one, and not cancelled.
LEMMA RunAgentStatus == ASSUME StatusInv, RunAgent PROVE StatusInv'
<1>1. /\ worker' = Append(worker, "flag") /\ cancelled' = cancelled
      /\ status' = "Running" /\ client_status' = "Running" /\ server_status' = "Running"
      /\ status # "Running"
  BY DEF RunAgent
<1>2. /\ worker \in Seq({"flag", "lap", "asleep", "ended"})
      /\ cancelled = DOMAIN worker
  BY <1>1 DEF StatusInv, StatusOfAll
<1>3. /\ worker' \in Seq({"flag", "lap", "asleep", "ended"})
      /\ Len(worker') = Len(worker) + 1 /\ Len(worker) \in Nat
      /\ DOMAIN worker = 1 .. Len(worker) /\ DOMAIN worker' = 1 .. (Len(worker) + 1)
      /\ worker'[Len(worker')] = "flag"
  BY <1>1, <1>2
<1>4. DOMAIN worker' \ cancelled' = {Len(worker')} /\ cancelled' \subseteq DOMAIN worker'
  BY <1>1, <1>2, <1>3
<1> QED BY <1>1, <1>3, <1>4 DEF StatusInv, StatusOfAll

\* stop() preserves StatusInv: the last worker was the only one not cancelled.
LEMMA StopBothStatus == ASSUME StatusInv, StopBoth PROVE StatusInv'
<1>1. worker' = worker /\ status' = "Stopped"
  BY DEF StopBoth
<1>2. CASE status = "Running"
  <2>1. /\ cancelled' = cancelled \cup {Len(worker)}
        /\ client_status' = "Stopped" /\ server_status' = "Stopped"
    BY <1>2 DEF StopBoth
  <2>2. DOMAIN worker \ cancelled = {Len(worker)}
    BY <1>2 DEF StatusInv, StatusOfAll
  <2> QED BY <1>1, <2>1, <2>2 DEF StatusInv, StatusOfAll
<1>3. CASE status # "Running"
  BY <1>1, <1>3 DEF StopBoth, StatusInv, StatusOfAll
<1> QED BY <1>2, <1>3

\* A worker ends only when it was cancelled.
LEMMA WorkerStepStatus ==
  ASSUME StatusInv, NEW r \in DOMAIN worker, WorkerStep(r) PROVE StatusInv'
<1>1. PICK at \in {"flag", "lap", "asleep", "ended"} :
        /\ worker' = [worker EXCEPT ![r] = at]
        /\ at = "ended" => r \in cancelled
  BY DEF WorkerStep, Proceed, FinishLap
<1>2. /\ status' = status /\ client_status' = client_status
      /\ server_status' = server_status /\ cancelled' = cancelled
  BY DEF WorkerStep
<1>3. /\ worker' \in Seq({"flag", "lap", "asleep", "ended"})
      /\ DOMAIN worker' = DOMAIN worker /\ Len(worker') = Len(worker)
      /\ \A k \in DOMAIN worker : worker'[k] = IF k = r THEN at ELSE worker[k]
  BY <1>1 DEF StatusInv
<1>4. DOMAIN worker \ cancelled = DOMAIN worker' \ cancelled'
  BY <1>2, <1>3
<1>5. \A k \in DOMAIN worker' \ cancelled' : worker'[k] # "ended"
  BY <1>1, <1>2, <1>3 DEF StatusInv, StatusOfAll
<1> QED BY <1>2, <1>3, <1>4, <1>5 DEF StatusInv, StatusOfAll

\* No step of the agent or of a worker breaks StatusInv.
LEMMA StatusStepHolds == ASSUME StatusInv, [AgentNext]_agentVars PROVE StatusInv'
<1>1. CASE RunAgent
  BY <1>1, RunAgentStatus
<1>2. CASE StopBoth
  BY <1>2, StopBothStatus
<1>3. CASE \E r \in DOMAIN worker : WorkerStep(r)
  BY <1>3, WorkerStepStatus
<1>4. CASE UNCHANGED partVars
  BY <1>4 DEF partVars, StatusInv, StatusOfAll
<1> QED BY <1>1, <1>2, <1>3, <1>4 DEF AgentNext, agentVars, lifeVars, partVars, Main, Register,
          RunBroken, Shutdown, StopAgent, Deliver

\* However run, broken runs, stop, signals and the steps of workers follow each
\* other, the agent is Running just when both its parts are and one worker, its
\* server's own, was not cancelled; every other one was.
THEOREM StatusOfAllHolds == AgentSpec => []StatusOfAll
<1>1. AgentInit => StatusInv
  <2> SUFFICES ASSUME AgentInit PROVE StatusInv
    OBVIOUS
  <2>1. /\ status = "Initialized" /\ client_status = "none" /\ server_status = "none"
        /\ worker = <<>> /\ cancelled = {}
    BY DEF AgentInit
  <2>2. worker \in Seq({"flag", "lap", "asleep", "ended"}) /\ DOMAIN worker = {}
    BY <2>1
  <2> QED BY <2>1, <2>2 DEF StatusInv, StatusOfAll
<1>2. StatusInv => StatusOfAll
  BY DEF StatusInv
<1> QED BY <1>1, <1>2, StatusStepHolds, PTL DEF AgentSpec

\* What the three merges make of the default is the strongest usable source,
\* setting by setting.
LEMMA MergedIsEffective ==
  ASSUME NEW base, \A s \in Setting : base[s] =
           IF input.file.is = "toml" /\ s \in DOMAIN input.file.text THEN input.file.text[s]
           ELSE Default[s],
         NEW s \in Setting
  PROVE  MergeCli(MergeEnv(base, input.env), input.cli)[s] = Effective(s)
<1> DEFINE env == MergeEnv(base, input.env)
<1>1. env[s] = IF s \notin DOMAIN input.env THEN base[s]
               ELSE IF s = "log_level"
                 THEN (IF Parse(input.env[s]) = Unknown THEN base[s] ELSE Parse(input.env[s]))
               ELSE input.env[s]
  BY DEF MergeEnv
<1> HIDE DEF env
<1>2. MergeCli(env, input.cli)[s] =
        IF s \notin Flag \cap DOMAIN input.cli THEN env[s]
        ELSE IF s = "log_level"
          THEN (IF Parse(input.cli[s]) = Unknown THEN env[s] ELSE Parse(input.cli[s]))
        ELSE input.cli[s]
  BY DEF MergeCli
<1>3. MergeCli(env, input.cli)[s] = Effective(s)
  BY <1>1, <1>2 DEF Effective, Gives
<1> QED BY <1>3 DEF env

\* main reaches Agent::new with the effective settings, or refuses.
LEMMA MainHolds == ASSUME MainInv, Main PROVE MainInv'
<1> DEFINE base == IF input.file.is = "none" THEN Default ELSE FromFile(input.file.text)
           merged == MergeCli(MergeEnv(base, input.env), input.cli)
           ok == (input.file.is # "none" => FileLoads(input.file)) /\ Validate(merged)
<1>1. /\ pc' = IF ok THEN "idle" ELSE "ended"
      /\ exit' = IF ok THEN "" ELSE "error"
      /\ ok => config' = merged
      /\ input' = input
  BY DEF Main
<1>2. \A s \in Setting : Effective(s)' = Effective(s)
  BY <1>1 DEF Effective, Gives
<1>3. ASSUME input.file.is # "none" => FileLoads(input.file), NEW s \in Setting
      PROVE  merged[s] = Effective(s)
  <2>1. \A x \in Setting : base[x] =
          IF input.file.is = "toml" /\ x \in DOMAIN input.file.text THEN input.file.text[x]
          ELSE Default[x]
    BY <1>3 DEF FileLoads, FromFile
  <2> HIDE DEF base
  <2> QED BY <2>1, MergedIsEffective
<1>4. "bind_addr" \in Setting /\ "data_dir" \in Setting
  BY DEF Setting
<1> HIDE DEF merged
<1>5. CASE ok
  <2>1. \A s \in Setting : merged[s] = Effective(s)
    BY <1>3, <1>5
  <2>2. merged["bind_addr"] \notin {"", " "} /\ merged["data_dir"] # ""
    BY <1>5 DEF Validate
  <2>3. /\ \A s \in Setting : config'[s] = Effective(s)'
        /\ Effective("bind_addr")' \notin {"", " "} /\ Effective("data_dir")' # ""
    BY <1>1, <1>2, <1>4, <1>5, <2>1, <2>2
  <2>4. pc' = "idle" /\ exit' = "" /\ (input.file.is # "none" => FileLoads(input.file))'
    BY <1>1, <1>5 DEF FileLoads
  <2> QED BY <2>3, <2>4 DEF MainInv, Precedence
<1>6. CASE ~ok
  <2>1. pc' = "ended" /\ exit' = "error" /\ input' = input
    BY <1>1, <1>6
  <2>2. CASE input.file.is # "none" /\ ~FileLoads(input.file)
    BY <2>1, <2>2 DEF MainInv, Precedence, FileLoads
  <2>3. CASE ~(input.file.is # "none" /\ ~FileLoads(input.file))
    <3>1. merged["bind_addr"] \in {"", " "} \/ merged["data_dir"] = ""
      BY <1>6, <2>3 DEF Validate
    <3>2. Effective("bind_addr")' \in {"", " "} \/ Effective("data_dir")' = ""
      BY <1>2, <1>3, <1>4, <2>3, <3>1
    <3> QED BY <2>1, <3>2 DEF MainInv, Precedence
  <2> QED BY <2>2, <2>3
<1> QED BY <1>5, <1>6

\* Nothing changes the settings later, and a signal is told from an error.
LEMMA MainStepHolds == ASSUME MainInv, [AgentNext]_agentVars PROVE MainInv'
<1>1. CASE Main
  BY <1>1, MainHolds
<1>2. CASE ~Main
  <2>1. input' = input /\ config' = config
    BY <1>2 DEF AgentNext, agentVars, RunAgent, Register, RunBroken, Shutdown, StopAgent, Deliver,
       WorkerStep
  <2>2. \/ exit' = exit /\ (pc = "main" <=> pc' = "main") /\ (exit = "error" => pc' = "ended")
        \/ exit' \in {"SIGINT", "SIGTERM", "SIGHUP"} /\ pc' = "ended"
    <3>1. ASSUME NEW i \in DOMAIN Signal PROVE Signal[i] \in {"SIGINT", "SIGTERM", "SIGHUP"}
      BY DEF Signal
    <3>2. CASE \E i \in DOMAIN Signal : Deliver(Signal[i])
      BY <3>1, <3>2 DEF Deliver, MainInv
    <3>3. CASE RunAgent \/ Register \/ RunBroken \/ Shutdown \/ StopAgent \/ UNCHANGED agentVars
      BY <3>3 DEF agentVars, RunAgent, Register, RunBroken, Shutdown, StopAgent, MainInv
    <3>4. CASE \E r \in DOMAIN worker : WorkerStep(r)
      BY <3>4 DEF WorkerStep, MainInv
    <3> QED BY <1>2, <3>2, <3>3, <3>4 DEF AgentNext
  <2>3. (\A s \in Setting : Effective(s)' = Effective(s)) /\ FileLoads(input.file)' = FileLoads(input.file)
    BY <2>1 DEF Effective, Gives, FileLoads
  <2>4. "bind_addr" \in Setting /\ "data_dir" \in Setting
    BY DEF Setting
  <2>5. CASE exit' \in {"SIGINT", "SIGTERM", "SIGHUP"} /\ pc' = "ended"
    BY <2>5 DEF MainInv, Precedence
  <2>6. CASE exit' = exit /\ (pc = "main" <=> pc' = "main") /\ (exit = "error" => pc' = "ended")
    BY <2>1, <2>3, <2>4, <2>6 DEF MainInv, Precedence
  <2> QED BY <2>2, <2>5, <2>6
<1> QED BY <1>1, <1>2

\* An agent is run only with every setting from the strongest source that
\* gives a usable one, and main refuses just what it should, whatever the
\* sources hold.
THEOREM PrecedenceHolds == AgentSpec => []Precedence
<1>1. AgentInit => MainInv
  BY DEF AgentInit, MainInv, Precedence
<1>2. MainInv => Precedence
  BY DEF MainInv
<1> QED BY <1>1, <1>2, MainStepHolds, PTL DEF AgentSpec

----------------------------------------------------------------------------
(* The task runner.                                                        *)

TaskTypes ==
  /\ state \in [Task -> {"Pending", "Running", "Exited", "Failed"}]
  /\ handle \in [Task -> Nat]
  /\ running \in [Task -> SUBSET Nat]
  /\ process \in Seq({"alive", "ok", "bad"})
  /\ policy \in RestartPolicies
  /\ restart_count \in Nat
  /\ launches \in Nat
  /\ stopped \in BOOLEAN /\ misused \in BOOLEAN

\* Every launch but the first was paid for with a restart, and without a
\* handle the next one is paid for already.
Paid ==
  /\ restart_count <= policy.attempts
  /\ handle[Unit] = 0 => launches <= restart_count
  /\ launches <= restart_count + 1

\* The driver holds no launch but the one the handle names, and a live process
\* is that one; a terminal state means the driver holds nothing; Failed means
\* the process is over.
Tracked ==
  /\ running[Unit] \subseteq {handle[Unit]}
  /\ handle[Unit] = 0 \/ state[Unit] \in Terminal => running[Unit] = {}
  /\ \A pid \in Launch : process[pid] = "alive" => pid = handle[Unit]
  /\ state[Unit] = "Failed" => \A pid \in Launch : process[pid] # "alive"

\* What can be killed lives only while the driver holds it, and a stopped
\* task stays Exited under the handle it had.
Held ==
  /\ \A pid \in Launch : process[pid] = "alive" => pid \in running[Unit]
  /\ stopped => state[Unit] = "Exited" /\ handle[Unit] # 0

TaskInv ==
  /\ TaskTypes
  /\ Paid
  /\ ~misused => Tracked
  /\ (~misused /\ Unit \notin Unkillable) => Held

----------------------------------------------------------------------------
\* The supervised task is one of the allocation's.
LEMMA UnitIsTask == Unit \in Task
  BY RunnerAssumption, PolicyAssumption DEF Unit, Task

\* A restart policy allows a natural number of attempts.
LEMMA AttemptsType == ASSUME TaskTypes PROVE policy.attempts \in Nat
  BY PolicyAssumption DEF TaskTypes

\* Changing one element of a sequence leaves a sequence.
LEMMA PutIsSeq ==
  ASSUME NEW S, NEW q \in Seq(S), NEW i, NEW v \in S
  PROVE  [q EXCEPT ![i] = v] \in Seq(S)
<1>1. q \in [1..Len(q) -> S] /\ Len(q) \in Nat
  OBVIOUS
<1>2. [q EXCEPT ![i] = v] \in [1..Len(q) -> S]
  BY <1>1
<1>3. Seq(S) = UNION {[1..n -> S] : n \in Nat}
  BY DEF Seq
<1> QED BY <1>1, <1>2, <1>3

\* TaskInv holds of a runner that was just made.
LEMMA TaskInitHolds == RunnerInit /\ TaskInit => TaskInv
<1> SUFFICES ASSUME RunnerInit, TaskInit PROVE TaskInv
  OBVIOUS
<1>1. TaskTypes
  <2>1. process = <<>> /\ <<>> \in Seq({"alive", "ok", "bad"})
    BY DEF RunnerInit
  <2>2. policy \in RestartPolicies /\ restart_count \in Nat /\ launches \in Nat
    BY DEF TaskInit
  <2>3. stopped \in BOOLEAN /\ misused \in BOOLEAN
    BY DEF TaskInit
  <2>4. /\ state \in [Task -> {"Pending", "Running", "Exited", "Failed"}]
        /\ handle \in [Task -> Nat] /\ running \in [Task -> SUBSET Nat]
    BY DEF RunnerInit
  <2> QED BY <2>1, <2>2, <2>3, <2>4 DEF TaskTypes
<1>2. Paid
  BY <1>1, AttemptsType DEF TaskInit, Paid
<1>3. Launch = {} /\ handle[Unit] = 0 /\ running[Unit] = {} /\ state[Unit] = "Pending" /\ ~stopped
  BY UnitIsTask DEF RunnerInit, TaskInit, Launch
<1> QED BY <1>1, <1>2, <1>3 DEF TaskInv, Tracked, Held, Terminal

\* start() preserves TaskInv: it is refused while there is a handle.
LEMMA TaskStartHolds == ASSUME TaskInv, TaskStart PROVE TaskInv'
<1> DEFINE pid == Len(process) + 1
<1>1. /\ state' = [state EXCEPT ![Unit] = "Running"]
      /\ handle' = [handle EXCEPT ![Unit] = pid]
      /\ running' = [running EXCEPT ![Unit] = @ \cup {pid}]
      /\ process' = Append(process, "alive")
      /\ handle[Unit] = 0 /\ launches' = launches + 1
      /\ UNCHANGED <<policy, restart_count, stopped, misused>>
  BY DEF TaskStart, Becomes, Start, Local
<1>2. TaskTypes /\ Unit \in Task /\ pid \in Nat \ {0}
  BY UnitIsTask DEF TaskInv, TaskTypes
<1>3. /\ Launch' = Launch \cup {pid} /\ pid \notin Launch
      /\ \A k \in Launch : process'[k] = process[k]
  BY <1>1, <1>2 DEF TaskTypes, Launch
<1>4. state'[Unit] = "Running" /\ handle'[Unit] = pid /\ running'[Unit] = running[Unit] \cup {pid}
  BY <1>1, <1>2 DEF TaskTypes
<1>5. TaskTypes'
  BY <1>1, <1>2 DEF TaskTypes
<1>6. Paid'
  BY <1>1, <1>2, <1>4, AttemptsType DEF TaskInv, Paid, TaskTypes
<1>7. ASSUME ~misused PROVE Tracked'
  <2>1. running[Unit] = {} /\ \A k \in Launch : process[k] # "alive"
    <3>1. 0 \notin Launch
      BY <1>2 DEF TaskTypes, Launch
    <3> QED BY <1>1, <1>7, <3>1 DEF TaskInv, Tracked
  <2> QED BY <1>2, <1>3, <1>4, <2>1 DEF Tracked, Terminal
<1>8. ASSUME ~misused, Unit \notin Unkillable PROVE Held'
  <2>1. ~stopped /\ \A k \in Launch : process[k] = "alive" => k \in running[Unit]
    BY <1>1, <1>8 DEF TaskInv, Held
  <2> QED BY <1>1, <1>3, <1>4, <2>1 DEF Held
<1> QED BY <1>1, <1>5, <1>6, <1>7, <1>8 DEF TaskInv

\* poll() preserves TaskInv: a terminal state is kept, and what it finds to be
\* over leaves the driver.
LEMMA TaskPollHolds == ASSUME TaskInv, TaskPoll PROVE TaskInv'
<1>1. /\ state' = [t \in Task |-> Polled(t)] /\ running' = HeldAfterPoll
      /\ UNCHANGED <<handle, process, policy, restart_count, launches, stopped, misused>>
  BY DEF TaskPoll, taskVars
<1>2. TaskTypes /\ Unit \in Task
  BY UnitIsTask DEF TaskInv
<1>3. state'[Unit] = Polled(Unit) /\ Launch' = Launch
  BY <1>1, <1>2 DEF Launch
<1>4. running'[Unit] = IF state[Unit] \in Terminal \/ handle[Unit] = 0 \/ Polled(Unit) = "Running"
                         THEN running[Unit] ELSE running[Unit] \ {handle[Unit]}
  BY <1>1, <1>2 DEF HeldAfterPoll
<1>5. TaskTypes'
  <2>1. \A t \in Task : Polled(t) \in {"Pending", "Running", "Exited", "Failed"}
    BY <1>2 DEF TaskTypes, Polled, Inspect
  <2>2. HeldAfterPoll \in [Task -> SUBSET Nat]
    BY <1>2 DEF TaskTypes, HeldAfterPoll
  <2> QED BY <1>1, <1>2, <2>1, <2>2 DEF TaskTypes
<1>6. Paid'
  BY <1>1 DEF TaskInv, Paid
<1>7. ASSUME ~misused PROVE Tracked'
  <2>1. Tracked
    BY <1>7 DEF TaskInv
  <2>2. CASE state[Unit] \in Terminal \/ handle[Unit] = 0
    BY <1>1, <1>3, <1>4, <2>1, <2>2 DEF Tracked, Polled
  <2>3. CASE ~(state[Unit] \in Terminal \/ handle[Unit] = 0)
    <3>1. Polled(Unit) = Inspect(Unit)
      BY <2>3 DEF Polled
    <3>2. Inspect(Unit) = "Failed" => \A k \in Launch : process[k] # "alive"
      BY <2>1 DEF Tracked, Inspect
    <3>3. Inspect(Unit) \in Terminal \/ Inspect(Unit) = "Running"
      BY DEF Inspect, Terminal
    <3>4. Inspect(Unit) # "Running" => running'[Unit] = {}
      BY <1>4, <2>1, <2>3, <3>1 DEF Tracked
    <3>5. "Running" \notin Terminal
      BY DEF Terminal
    <3> QED BY <1>1, <1>3, <1>4, <2>1, <2>3, <3>1, <3>2, <3>3, <3>4, <3>5 DEF Tracked
  <2> QED BY <2>2, <2>3
<1>8. ASSUME ~misused, Unit \notin Unkillable PROVE Held'
  <2>1. Held /\ Tracked
    BY <1>8 DEF TaskInv
  <2>2. stopped' => state'[Unit] = "Exited" /\ handle'[Unit] # 0
    BY <1>1, <1>3, <2>1 DEF Held, Polled, Terminal
  <2>3. ASSUME NEW k \in Launch, process[k] = "alive" PROVE k \in running'[Unit]
    <3>1. k = handle[Unit] /\ k \in running[Unit]
      BY <2>1, <2>3 DEF Held, Tracked
    <3>2. ~(state[Unit] \in Terminal \/ handle[Unit] = 0) => Polled(Unit) = "Running"
      BY <2>3, <3>1 DEF Polled, Inspect
    <3> QED BY <1>4, <3>1, <3>2
  <2> QED BY <1>1, <1>3, <2>2, <2>3 DEF Held
<1> QED BY <1>1, <1>5, <1>6, <1>7, <1>8 DEF TaskInv

\* stop() preserves TaskInv: the driver lets go of the launch, and kills it if
\* it can.
LEMMA TaskStopHolds == ASSUME TaskInv, TaskStop PROVE TaskInv'
<1> DEFINE fails == handle[Unit] \in running[Unit] /\ Unit \in Unkillable
           kills == /\ handle[Unit] \in running[Unit] /\ ~fails
                    /\ process[handle[Unit]] = "alive"
<1>1. /\ state' = [state EXCEPT ![Unit] = IF fails THEN @ ELSE "Exited"]
      /\ running' = [running EXCEPT ![Unit] = @ \ {handle[Unit]}]
      /\ process' = IF kills THEN [process EXCEPT ![handle[Unit]] = "bad"] ELSE process
      /\ stopped' = (stopped \/ handle[Unit] # 0)
      /\ UNCHANGED <<handle, policy, restart_count, launches, misused>>
  BY DEF TaskStop, Becomes, StopTask, KillFails, Local
<1>2. TaskTypes /\ Unit \in Task
  BY UnitIsTask DEF TaskInv
<1>3. /\ state'[Unit] = IF fails THEN state[Unit] ELSE "Exited"
      /\ running'[Unit] = running[Unit] \ {handle[Unit]}
  BY <1>1, <1>2 DEF TaskTypes
<1>4. /\ Launch' = Launch
      /\ \A k \in Launch : process'[k] = "alive" => process[k] = "alive" /\ ~(kills /\ k = handle[Unit])
  BY <1>1, <1>2 DEF TaskTypes, Launch
<1>5. TaskTypes'
  <2>1. process' \in Seq({"alive", "ok", "bad"})
    BY <1>1, <1>2, PutIsSeq DEF TaskTypes
  <2> QED BY <1>1, <1>2, <2>1 DEF TaskTypes
<1>6. Paid'
  BY <1>1 DEF TaskInv, Paid
<1>7. ASSUME ~misused PROVE Tracked'
  BY <1>1, <1>3, <1>4, <1>7 DEF TaskInv, Tracked
<1>8. ASSUME ~misused, Unit \notin Unkillable PROVE Held'
  <2>1. Held /\ Tracked /\ ~fails
    BY <1>8 DEF TaskInv
  <2>2. ASSUME NEW k \in Launch, process'[k] = "alive" PROVE FALSE
    <3>1. process[k] = "alive" /\ ~(kills /\ k = handle[Unit])
      BY <1>4, <2>2
    <3>2. k = handle[Unit] /\ k \in running[Unit]
      BY <2>1, <3>1 DEF Held, Tracked
    <3> QED BY <2>1, <3>1, <3>2
  <2> QED BY <1>1, <1>3, <1>4, <2>1, <2>2 DEF Held
<1> QED BY <1>1, <1>5, <1>6, <1>7, <1>8 DEF TaskInv

\* handle_exit() preserves TaskInv: a restart gives up a handle that no live
\* process is under, unless the call is not about the end that was seen.
LEMMA HandleExitHolds ==
  ASSUME TaskInv, NEW success \in BOOLEAN, HandleExit(success)
  PROVE  TaskInv'
<1> DEFINE restart == ~success /\ MayRestart
<1>1. /\ state' = [state EXCEPT ![Unit] =
                     IF success THEN "Exited" ELSE IF restart THEN "Pending" ELSE "Failed"]
      /\ restart_count' = IF restart THEN restart_count + 1 ELSE restart_count
      /\ handle' = IF restart THEN [handle EXCEPT ![Unit] = 0] ELSE handle
      /\ misused' = (misused \/ state[Unit] # IF success THEN "Exited" ELSE "Failed")
      /\ UNCHANGED <<running, process, policy, launches, stopped>>
  BY DEF HandleExit
<1>2. TaskTypes /\ Unit \in Task
  BY UnitIsTask DEF TaskInv
<1>3. /\ state'[Unit] = IF success THEN "Exited" ELSE IF restart THEN "Pending" ELSE "Failed"
      /\ handle'[Unit] = IF restart THEN 0 ELSE handle[Unit]
      /\ Launch' = Launch
  BY <1>1, <1>2 DEF TaskTypes, Launch
<1>4. TaskTypes'
  BY <1>1, <1>2 DEF TaskTypes
<1>5. Paid'
  BY <1>1, <1>2, <1>3, AttemptsType DEF TaskInv, Paid, TaskTypes, MayRestart
<1>6. ASSUME ~misused' PROVE ~misused /\ state[Unit] = IF success THEN "Exited" ELSE "Failed"
  BY <1>1, <1>6
<1>7. ASSUME ~misused' PROVE Tracked'
  <2>1. Tracked /\ state[Unit] \in Terminal
    BY <1>6, <1>7 DEF TaskInv, Terminal
  <2>2. running[Unit] = {} /\ (~success => \A k \in Launch : process[k] # "alive")
    BY <1>6, <1>7, <2>1 DEF Tracked
  <2> QED BY <1>1, <1>3, <2>1, <2>2 DEF Tracked
<1>8. ASSUME ~misused', Unit \notin Unkillable PROVE Held'
  <2>1. Held
    BY <1>6, <1>8 DEF TaskInv
  <2>2. stopped => success
    BY <1>6, <1>8, <2>1 DEF Held
  <2> QED BY <1>1, <1>3, <2>1, <2>2 DEF Held
<1> QED BY <1>4, <1>5, <1>7, <1>8 DEF TaskInv

\* The end of a process preserves TaskInv.
LEMMA TaskExitHolds ==
  ASSUME TaskInv, NEW pid \in Launch, NEW how \in {"ok", "bad"}, TaskExit(pid, how)
  PROVE  TaskInv'
<1>1. /\ process' = [process EXCEPT ![pid] = how]
      /\ UNCHANGED <<state, handle, running, policy, restart_count, launches, stopped, misused>>
  BY DEF TaskExit, taskVars
<1>2. TaskTypes
  BY DEF TaskInv
<1>3. Launch' = Launch /\ \A k \in Launch : process'[k] = "alive" => process[k] = "alive"
  BY <1>1, <1>2 DEF TaskTypes, Launch
<1>4. TaskTypes'
  <2>1. process' \in Seq({"alive", "ok", "bad"})
    BY <1>1, <1>2, PutIsSeq DEF TaskTypes
  <2> QED BY <1>1, <1>2, <2>1 DEF TaskTypes
<1>5. Paid'
  BY <1>1 DEF TaskInv, Paid
<1>6. ASSUME ~misused PROVE Tracked'
  BY <1>1, <1>3, <1>6 DEF TaskInv, Tracked
<1>7. ASSUME ~misused, Unit \notin Unkillable PROVE Held'
  BY <1>1, <1>3, <1>7 DEF TaskInv, Held
<1> QED BY <1>1, <1>4, <1>5, <1>6, <1>7 DEF TaskInv

\* Every call, and a stuttering step, preserves TaskInv.
LEMMA TaskStepHolds == ASSUME TaskInv, [TaskNext]_<<runnerVars, taskVars>> PROVE TaskInv'
<1>1. CASE UNCHANGED <<runnerVars, taskVars>>
  <2>1. UNCHANGED <<state, handle, running, process, policy, restart_count, launches, stopped, misused>>
    BY <1>1 DEF runnerVars, taskVars
  <2> QED BY <2>1 DEF TaskInv, TaskTypes, Paid, Tracked, Held, Launch
<1> QED BY <1>1, TaskStartHolds, TaskPollHolds, TaskStopHolds, HandleExitHolds, TaskExitHolds
        DEF TaskNext

\* TaskInv is an invariant of the runner.
THEOREM TaskInvariantHolds == TaskSpec => []TaskInv
  BY TaskInitHolds, TaskStepHolds, PTL DEF TaskSpec

\* The task is launched no more often than once and once per allowed restart,
\* whatever is called in whatever order.
THEOREM LaunchesBoundedHolds == TaskSpec => []LaunchesBounded
<1>1. TaskInv => LaunchesBounded
  <2> SUFFICES ASSUME TaskInv PROVE launches <= policy.attempts + 1
    BY DEF LaunchesBounded
  <2>1. policy.attempts \in Nat /\ restart_count \in Nat /\ launches \in Nat
    BY AttemptsType DEF TaskInv, TaskTypes
  <2> QED BY <2>1 DEF TaskInv, Paid
<1> QED BY <1>1, TaskInvariantHolds, PTL

\* A restart leaves no live process without a handle and a driver that holds
\* it, as long as handle_exit is called for ends that were seen.
THEOREM NothingOrphanedHolds == TaskSpec => []NothingOrphaned
<1>1. TaskInv => NothingOrphaned
  <2> SUFFICES ASSUME TaskInv, ~misused, NEW pid \in Alive \cap Killable
               PROVE  \E t \in Task : handle[t] = pid /\ running[t] = {pid}
    BY DEF NothingOrphaned, Reachable
  <2>1. pid \in Launch /\ process[pid] = "alive" /\ \A t \in Unkillable : handle[t] # pid
    BY DEF Alive, Killable
  <2>2. pid = handle[Unit] /\ running[Unit] \subseteq {handle[Unit]}
    BY <2>1 DEF TaskInv, Tracked
  <2>3. Unit \notin Unkillable
    BY <2>1, <2>2
  <2>4. pid \in running[Unit]
    BY <2>1, <2>3 DEF TaskInv, Held
  <2> QED BY <2>2, <2>4, UnitIsTask
<1> QED BY <1>1, TaskInvariantHolds, PTL

\* After a stop() no process of the task is alive any more.
THEOREM StopIsFinalHolds == TaskSpec => []StopIsFinal
<1>1. TaskInv => StopIsFinal
  <2> SUFFICES ASSUME TaskInv, stopped, ~misused, Unit \notin Unkillable, NEW pid \in Launch
               PROVE  process[pid] # "alive"
    BY DEF StopIsFinal
  <2>1. state[Unit] = "Exited" /\ (process[pid] = "alive" => pid \in running[Unit])
    BY DEF TaskInv, Held
  <2>2. running[Unit] = {}
    BY <2>1 DEF TaskInv, Tracked, Terminal
  <2> QED BY <2>1, <2>2
<1> QED BY <1>1, TaskInvariantHolds, PTL

----------------------------------------------------------------------------
(* The alloc runner.                                                       *)

\* What start() and stop() work on.
LocalType(s) ==
  /\ DOMAIN s = {"state", "handle", "running", "process"}
  /\ s.state \in [Task -> {"Pending", "Running", "Exited", "Failed"}]
  /\ s.handle \in [Task -> Nat]
  /\ s.running \in [Task -> SUBSET Nat]
  /\ s.process \in Seq({"alive", "ok", "bad"})

\* Every launch is that of just one task, and a driver holds no other one.
Owned(s) ==
  /\ \A t \in Task : s.handle[t] \in 0 .. Len(s.process)
  /\ \A t \in Task : 0 \notin s.running[t] /\ \A pid \in s.running[t] : pid = s.handle[t]
  /\ \A t, u \in Task : s.handle[t] = s.handle[u] /\ s.handle[t] # 0 => t = u
  /\ \A pid \in 1 .. Len(s.process) : \E t \in Task : s.handle[t] = pid

Lives(s, t) == s.handle[t] # 0 /\ s.process[s.handle[t]] = "alive"

\* What lives and can be killed is held by its driver and known to be running.
Watched(s) ==
  \A t \in Task \ Unkillable :
    Lives(s, t) => s.handle[t] \in s.running[t] /\ s.state[t] = "Running"

LocalOk(s) == LocalType(s) /\ Owned(s) /\ Watched(s)

\* Of an allocation that is neither over nor destroyed: its drivers hold what
\* is not over, and a task that exited did so with zero.
Unfailed ==
  (~destroyed /\ cstat \in {"Pending", "Running"}) =>
    \A t \in Task :
      /\ handle[t] = 0 => state[t] = "Pending"
      /\ (handle[t] # 0 /\ state[t] = "Exited") => process[handle[t]] = "ok"
      /\ (handle[t] # 0 /\ state[t] \notin Terminal) => handle[t] \in running[t]

RunnerInv ==
  /\ LocalOk(Local)
  /\ cstat \in {"Pending", "Running", "Complete", "Failed"}
  /\ runs \in 0 .. 2
  /\ runs = 0 => process = <<>>
  /\ Unfailed
  /\ CompleteIsClean
  /\ FirstRunRollsBack

\* start(), part by part.
LEMMA StartParts ==
  ASSUME NEW s, LocalType(s), NEW t
  PROVE  /\ Start(s, t).state = [s.state EXCEPT ![t] = "Running"]
         /\ Start(s, t).handle = [s.handle EXCEPT ![t] = Len(s.process) + 1]
         /\ Start(s, t).running = [s.running EXCEPT ![t] = @ \cup {Len(s.process) + 1}]
         /\ Start(s, t).process = Append(s.process, "alive")
         /\ DOMAIN Start(s, t) = {"state", "handle", "running", "process"}
<1>0. DOMAIN s = {"state", "handle", "running", "process"}
  BY DEF LocalType
<1>1. Start(s, t).state = [s.state EXCEPT ![t] = "Running"]
  BY <1>0 DEF Start
<1>2. Start(s, t).handle = [s.handle EXCEPT ![t] = Len(s.process) + 1]
  BY <1>0 DEF Start
<1>3. Start(s, t).running = [s.running EXCEPT ![t] = @ \cup {Len(s.process) + 1}]
  BY <1>0 DEF Start
<1>4. Start(s, t).process = Append(s.process, "alive")
  BY <1>0 DEF Start
<1>5. DOMAIN Start(s, t) = {"state", "handle", "running", "process"}
  BY <1>0 DEF Start
<1> QED BY <1>1, <1>2, <1>3, <1>4, <1>5

\* stop(), part by part.
LEMMA StopParts ==
  ASSUME NEW s, LocalType(s), NEW t
  PROVE  /\ StopTask(s, t).state = [s.state EXCEPT ![t] = IF KillFails(s, t) THEN @ ELSE "Exited"]
         /\ StopTask(s, t).handle = s.handle
         /\ StopTask(s, t).running = [s.running EXCEPT ![t] = @ \ {s.handle[t]}]
         /\ StopTask(s, t).process =
              IF s.handle[t] \in s.running[t] /\ ~KillFails(s, t) /\ s.process[s.handle[t]] = "alive"
                THEN [s.process EXCEPT ![s.handle[t]] = "bad"] ELSE s.process
         /\ DOMAIN StopTask(s, t) = {"state", "handle", "running", "process"}
<1>0. DOMAIN s = {"state", "handle", "running", "process"}
  BY DEF LocalType
<1>1. StopTask(s, t).state = [s.state EXCEPT ![t] = IF KillFails(s, t) THEN @ ELSE "Exited"]
  BY <1>0 DEF StopTask
<1>2. StopTask(s, t).handle = s.handle
  BY <1>0 DEF StopTask
<1>3. StopTask(s, t).running = [s.running EXCEPT ![t] = @ \ {s.handle[t]}]
  BY <1>0 DEF StopTask
<1>4. StopTask(s, t).process =
        IF s.handle[t] \in s.running[t] /\ ~KillFails(s, t) /\ s.process[s.handle[t]] = "alive"
          THEN [s.process EXCEPT ![s.handle[t]] = "bad"] ELSE s.process
  BY <1>0 DEF StopTask
<1>5. DOMAIN StopTask(s, t) = {"state", "handle", "running", "process"}
  BY <1>0 DEF StopTask
<1> QED BY <1>1, <1>2, <1>3, <1>4, <1>5

\* start() of a task without a handle keeps every launch that of one task.
LEMMA StartOk ==
  ASSUME NEW s, LocalOk(s), NEW t \in Task, s.handle[t] = 0
  PROVE  /\ LocalOk(Start(s, t))
         /\ Start(s, t).state[t] = "Running" /\ Start(s, t).handle[t] # 0
         /\ Start(s, t).handle[t] \in Start(s, t).running[t]
         /\ \A u \in Task : u # t =>
              /\ Start(s, t).state[u] = s.state[u]
              /\ Start(s, t).handle[u] = s.handle[u]
              /\ Start(s, t).running[u] = s.running[u]
<1> DEFINE r == Start(s, t)
           pid == Len(s.process) + 1
<1>0. /\ LocalType(s) /\ Owned(s) /\ Watched(s)
      /\ s.state \in [Task -> {"Pending", "Running", "Exited", "Failed"}]
      /\ s.handle \in [Task -> Nat] /\ s.running \in [Task -> SUBSET Nat]
      /\ s.process \in Seq({"alive", "ok", "bad"})
  BY DEF LocalOk, LocalType
<1>1. /\ r.state = [s.state EXCEPT ![t] = "Running"]
      /\ r.handle = [s.handle EXCEPT ![t] = pid]
      /\ r.running = [s.running EXCEPT ![t] = @ \cup {pid}]
      /\ r.process = Append(s.process, "alive")
      /\ DOMAIN r = {"state", "handle", "running", "process"}
  BY <1>0, StartParts
<1> HIDE DEF r
<1>2. /\ Len(s.process) \in Nat /\ pid \in Nat \ {0} /\ pid # 0
      /\ r.process \in Seq({"alive", "ok", "bad"}) /\ Len(r.process) = pid
      /\ r.process[pid] = "alive"
      /\ \A k \in 1 .. Len(s.process) : r.process[k] = s.process[k]
  BY <1>0, <1>1
<1>3. /\ r.state[t] = "Running" /\ r.handle[t] = pid /\ r.running[t] = s.running[t] \cup {pid}
      /\ \A u \in Task : u # t =>
           r.state[u] = s.state[u] /\ r.handle[u] = s.handle[u] /\ r.running[u] = s.running[u]
  BY <1>0, <1>1
<1>4. LocalType(r)
  <2>1. /\ r.state \in [Task -> {"Pending", "Running", "Exited", "Failed"}]
        /\ r.handle \in [Task -> Nat] /\ r.running \in [Task -> SUBSET Nat]
    BY <1>0, <1>1, <1>2
  <2> QED BY <1>1, <1>2, <2>1 DEF LocalType
<1>5. \A u \in Task : s.handle[u] \in 0 .. Len(s.process) /\ s.handle[u] # pid
  BY <1>0, <1>2 DEF Owned
<1> HIDE DEF pid
<1>6. s.running[t] = {}
  BY <1>0 DEF Owned
<1>7. Owned(r)
  <2>1. \A u \in Task : r.handle[u] \in 0 .. Len(r.process)
    <3>1. ASSUME NEW u \in Task PROVE r.handle[u] \in 0 .. Len(r.process)
      <4>1. CASE u = t
        BY <1>2, <1>3, <4>1
      <4>2. CASE u # t
        BY <1>2, <1>3, <1>5, <4>2 DEF pid
      <4> QED BY <4>1, <4>2
    <3> QED BY <3>1
  <2>2. \A u \in Task : 0 \notin r.running[u] /\ \A k \in r.running[u] : k = r.handle[u]
    BY <1>0, <1>2, <1>3, <1>6 DEF Owned
  <2>3. \A u, v \in Task : r.handle[u] = r.handle[v] /\ r.handle[u] # 0 => u = v
    BY <1>0, <1>3, <1>5 DEF Owned
  <2>4. ASSUME NEW k \in 1 .. Len(r.process) PROVE \E u \in Task : r.handle[u] = k
    <3>1. CASE k = pid
      BY <1>3, <3>1
    <3>2. CASE k # pid
      <4>1. k \in 1 .. Len(s.process)
        BY <1>2, <3>2 DEF pid
      <4>2. PICK u \in Task : s.handle[u] = k
        BY <1>0, <4>1 DEF Owned
      <4>3. u # t
        BY <4>1, <4>2
      <4> QED BY <1>3, <4>2, <4>3
    <3> QED BY <3>1, <3>2
  <2> QED BY <2>1, <2>2, <2>3, <2>4 DEF Owned
<1>8. Watched(r)
  <2> SUFFICES ASSUME NEW u \in Task \ Unkillable, Lives(r, u)
               PROVE  r.handle[u] \in r.running[u] /\ r.state[u] = "Running"
    BY DEF Watched
  <2>1. CASE u = t
    BY <1>3, <2>1
  <2>2. CASE u # t
    <3>1. r.handle[u] = s.handle[u] /\ s.handle[u] # 0
      BY <1>3, <2>2 DEF Lives
    <3>2. s.handle[u] \in 1 .. Len(s.process)
      BY <1>2, <1>5, <3>1
    <3>3. Lives(s, u)
      BY <1>2, <3>1, <3>2 DEF Lives
    <3> QED BY <1>0, <1>3, <2>2, <3>3 DEF Watched
  <2> QED BY <2>1, <2>2
<1>9. LocalOk(r) /\ r.state[t] = "Running" /\ r.handle[t] # 0 /\ r.handle[t] \in r.running[t]
  BY <1>2, <1>3, <1>4, <1>7, <1>8 DEF LocalOk
<1> QED BY <1>3, <1>9 DEF r

\* stop() lets go of the launch, and what can be killed is dead then; it
\* brings nothing to life.
LEMMA StopOk ==
  ASSUME NEW s, LocalOk(s), NEW t \in Task
  PROVE  /\ LocalOk(StopTask(s, t))
         /\ StopTask(s, t).handle = s.handle
         /\ t \notin Unkillable => ~Lives(StopTask(s, t), t)
         /\ \A u \in Task : Lives(StopTask(s, t), u) => Lives(s, u)
<1> DEFINE r == StopTask(s, t)
           h == s.handle[t]
           held == h \in s.running[t]
           fails == held /\ t \in Unkillable
           kills == held /\ ~fails /\ s.process[h] = "alive"
<1>0. /\ LocalType(s) /\ Owned(s) /\ Watched(s)
      /\ s.state \in [Task -> {"Pending", "Running", "Exited", "Failed"}]
      /\ s.handle \in [Task -> Nat] /\ s.running \in [Task -> SUBSET Nat]
      /\ s.process \in Seq({"alive", "ok", "bad"})
  BY DEF LocalOk, LocalType
<1>1. /\ r.state = [s.state EXCEPT ![t] = IF fails THEN @ ELSE "Exited"]
      /\ r.handle = s.handle
      /\ r.running = [s.running EXCEPT ![t] = @ \ {h}]
      /\ r.process = IF kills THEN [s.process EXCEPT ![h] = "bad"] ELSE s.process
      /\ DOMAIN r = {"state", "handle", "running", "process"}
  BY <1>0, StopParts DEF KillFails
<1> HIDE DEF r
<1>2. /\ r.process \in Seq({"alive", "ok", "bad"}) /\ Len(r.process) = Len(s.process)
      /\ Len(s.process) \in Nat
      /\ \A k \in 1 .. Len(s.process) :
           r.process[k] = "alive" => s.process[k] = "alive" /\ ~(kills /\ k = h)
  <2>1. CASE kills
    <3>1. [s.process EXCEPT ![h] = "bad"] \in Seq({"alive", "ok", "bad"})
      BY <1>0, PutIsSeq
    <3> QED BY <1>0, <1>1, <2>1, <3>1
  <2>2. CASE ~kills
    BY <1>0, <1>1, <2>2
  <2> QED BY <2>1, <2>2
<1>3. /\ r.state[t] = IF fails THEN s.state[t] ELSE "Exited"
      /\ r.running[t] = s.running[t] \ {h}
      /\ \A u \in Task : u # t => r.state[u] = s.state[u] /\ r.running[u] = s.running[u]
  BY <1>0, <1>1
<1>4. LocalType(r)
  <2>1. /\ r.state \in [Task -> {"Pending", "Running", "Exited", "Failed"}]
        /\ r.running \in [Task -> SUBSET Nat]
    BY <1>0, <1>1
  <2> QED BY <1>0, <1>1, <1>2, <2>1 DEF LocalType
<1>5. Owned(r)
  <2>1. \A u \in Task : r.running[u] \subseteq s.running[u]
    BY <1>3
  <2> QED BY <1>0, <1>1, <1>2, <2>1 DEF Owned
<1>6. ASSUME NEW u \in Task, Lives(r, u) PROVE Lives(s, u) /\ ~(kills /\ s.handle[u] = h)
  <2>1. s.handle[u] # 0 /\ r.process[s.handle[u]] = "alive"
    BY <1>1, <1>6 DEF Lives
  <2>2. s.handle[u] \in 1 .. Len(s.process)
    BY <1>0, <1>2, <2>1 DEF Owned
  <2> QED BY <1>2, <2>1, <2>2 DEF Lives
<1>7. t \notin Unkillable => ~Lives(r, t)
  <2> SUFFICES ASSUME t \notin Unkillable, Lives(r, t) PROVE FALSE
    OBVIOUS
  <2>1. Lives(s, t) /\ ~kills
    BY <1>6
  <2>2. held /\ s.process[h] = "alive"
    BY <1>0, <2>1 DEF Watched, Lives
  <2> QED BY <2>1, <2>2
<1>8. Watched(r)
  <2> SUFFICES ASSUME NEW u \in Task \ Unkillable, Lives(r, u)
               PROVE  r.handle[u] \in r.running[u] /\ r.state[u] = "Running"
    BY DEF Watched
  <2>1. u # t
    BY <1>7
  <2>2. s.handle[u] \in s.running[u] /\ s.state[u] = "Running"
    BY <1>0, <1>6 DEF Watched
  <2> QED BY <1>1, <1>3, <2>1, <2>2
<1>9. LocalOk(r) /\ r.handle = s.handle /\ \A u \in Task : Lives(r, u) => Lives(s, u)
  BY <1>1, <1>4, <1>5, <1>6, <1>8 DEF LocalOk
<1> QED BY <1>7, <1>9 DEF r

\* g goes through the states of a run() that starts the first n tasks.
Starts(g, n) == g = [i \in 0 .. n |-> IF i = 0 THEN Local ELSE Start(g[i - 1], i)]

\* There is such a function, for every number of tasks.
LEMMA StartsExists == ASSUME NEW n \in Nat PROVE \E g : Starts(g, n)
<1> DEFINE S == {m \in Nat : \E g : Starts(g, m)}
<1>1. 0 \in S
  <2> DEFINE none == [i \in 0 .. 0 |-> Local]
  <2>1. Starts(none, 0)
    BY DEF Starts
  <2> QED BY <2>1
<1>2. ASSUME NEW m \in Nat, m \in S PROVE m + 1 \in S
  <2>1. PICK g : Starts(g, m)
    BY <1>2
  <2> DEFINE next == [i \in 0 .. (m + 1) |-> IF i = m + 1 THEN Start(g[m], m + 1) ELSE g[i]]
  <2>2. ASSUME NEW i \in 0 .. (m + 1)
        PROVE  next[i] = IF i = 0 THEN Local ELSE Start(next[i - 1], i)
    <3>1. CASE i = m + 1
      BY <3>1
    <3>2. CASE i # m + 1
      <4>1. i \in 0 .. m /\ (i # 0 => i - 1 \in 0 .. (m + 1) /\ i - 1 # m + 1)
        BY <3>2
      <4>2. next[i] = g[i] /\ (i # 0 => next[i - 1] = g[i - 1])
        BY <3>2, <4>1
      <4>3. g[i] = IF i = 0 THEN Local ELSE Start(g[i - 1], i)
        BY <2>1, <4>1 DEF Starts
      <4> HIDE DEF next
      <4> QED BY <4>2, <4>3
    <3> QED BY <3>1, <3>2
  <2>3. next = [i \in 0 .. (m + 1) |-> next[i]]
    OBVIOUS
  <2> HIDE DEF next
  <2>4. Starts(next, m + 1)
    BY <2>2, <2>3 DEF Starts
  <2> QED BY <2>4
<1> HIDE DEF S
<1>3. n \in S
  BY <1>1, <1>2, SetInduction
<1> QED BY <1>3 DEF S

\* The tasks are started one after the other.
LEMMA StartedStep ==
  /\ Started[0] = Local
  /\ \A n \in 1 .. NTasks : Started[n] = Start(Started[n - 1], n)
<1>1. Started = CHOOSE g : Starts(g, NTasks)
  BY DEF Started, Starts
<1>2. NTasks \in Nat
  BY RunnerAssumption
<1>3. Starts(Started, NTasks)
  BY <1>1, <1>2, StartsExists
<1> HIDE DEF Started
<1> QED BY <1>2, <1>3 DEF Starts

\* The tasks that were started are running and held, and the others are as
\* they were.
StartedUpTo(s, n) ==
  /\ LocalOk(s)
  /\ \A t \in Task : t <= n => s.state[t] = "Running" /\ s.handle[t] # 0 /\ s.handle[t] \in s.running[t]
  /\ \A t \in Task : t > n => s.handle[t] = handle[t]

\* So it is after starting any number of tasks that had no handle.
LEMMA StartedOk ==
  ASSUME LocalOk(Local), NEW n \in 0 .. NTasks, \A t \in 1 .. n : handle[t] = 0
  PROVE  StartedUpTo(Started[n], n)
<1> DEFINE S == {m \in Nat : m <= n => StartedUpTo(Started[m], m)}
<1>0. NTasks \in Nat /\ n \in Nat /\ n <= NTasks /\ Task = 1 .. NTasks
  BY RunnerAssumption DEF Task
<1>1. 0 \in S
  <2>1. Started[0] = Local /\ Local.handle = handle
    BY StartedStep DEF Local
  <2>2. \A t \in Task : ~(t <= 0)
    BY <1>0
  <2>3. StartedUpTo(Started[0], 0)
    BY <2>1, <2>2 DEF StartedUpTo
  <2> QED BY <2>3
<1>2. ASSUME NEW m \in Nat, m \in S PROVE m + 1 \in S
  <2> SUFFICES ASSUME m + 1 <= n PROVE StartedUpTo(Started[m + 1], m + 1)
    OBVIOUS
  <2> DEFINE s == Started[m]
             r == Start(s, m + 1)
  <2>1. m + 1 \in 1 .. NTasks /\ m + 1 \in Task /\ (m + 1) - 1 = m /\ m <= n /\ m + 1 \in 1 .. n
    BY <1>0
  <2>2. StartedUpTo(s, m)
    BY <1>2, <2>1
  <2>3. Started[m + 1] = r
    BY <2>1, StartedStep
  <2> HIDE DEF s
  <2>4. s.handle[m + 1] = 0
    BY <2>1, <2>2 DEF StartedUpTo
  <2>5. /\ LocalOk(r)
        /\ r.state[m + 1] = "Running" /\ r.handle[m + 1] # 0 /\ r.handle[m + 1] \in r.running[m + 1]
        /\ \A u \in Task : u # m + 1 =>
             r.state[u] = s.state[u] /\ r.handle[u] = s.handle[u] /\ r.running[u] = s.running[u]
    <3>1. LocalOk(s)
      BY <2>2 DEF StartedUpTo
    <3> QED BY <2>1, <2>4, <3>1, StartOk
  <2> HIDE DEF r
  <2>6. \A t \in Task : t <= m + 1 => r.state[t] = "Running" /\ r.handle[t] # 0 /\ r.handle[t] \in r.running[t]
    <3>1. \A t \in Task : t <= m + 1 => t = m + 1 \/ t <= m
      BY <1>0
    <3> QED BY <2>2, <2>5, <3>1 DEF StartedUpTo
  <2>7. \A t \in Task : t > m + 1 => r.handle[t] = handle[t]
    <3>1. \A t \in Task : t > m + 1 => t # m + 1 /\ t > m
      BY <1>0
    <3> QED BY <2>2, <2>5, <3>1 DEF StartedUpTo
  <2> QED BY <2>3, <2>5, <2>6, <2>7 DEF StartedUpTo
<1> HIDE DEF S
<1>3. n \in S
  BY <1>0, <1>1, <1>2, SetInduction
<1> QED BY <1>0, <1>3 DEF S

\* g goes through the states of a call that stops the first n tasks of an
\* order.
Stops(g, s, order, n) == g = [i \in 0 .. n |-> IF i = 0 THEN s ELSE StopTask(g[i - 1], order[i])]

\* There is such a function, for every number of tasks.
LEMMA StopsExists == ASSUME NEW s, NEW order, NEW n \in Nat PROVE \E g : Stops(g, s, order, n)
<1> DEFINE S == {m \in Nat : \E g : Stops(g, s, order, m)}
<1>1. 0 \in S
  <2> DEFINE none == [i \in 0 .. 0 |-> s]
  <2>1. Stops(none, s, order, 0)
    BY DEF Stops
  <2> QED BY <2>1
<1>2. ASSUME NEW m \in Nat, m \in S PROVE m + 1 \in S
  <2>1. PICK g : Stops(g, s, order, m)
    BY <1>2
  <2> DEFINE next == [i \in 0 .. (m + 1) |->
                        IF i = m + 1 THEN StopTask(g[m], order[m + 1]) ELSE g[i]]
  <2>2. ASSUME NEW i \in 0 .. (m + 1)
        PROVE  next[i] = IF i = 0 THEN s ELSE StopTask(next[i - 1], order[i])
    <3>1. CASE i = m + 1
      BY <3>1
    <3>2. CASE i # m + 1
      <4>1. i \in 0 .. m /\ (i # 0 => i - 1 \in 0 .. (m + 1) /\ i - 1 # m + 1)
        BY <3>2
      <4>2. next[i] = g[i] /\ (i # 0 => next[i - 1] = g[i - 1])
        BY <3>2, <4>1
      <4>3. g[i] = IF i = 0 THEN s ELSE StopTask(g[i - 1], order[i])
        BY <2>1, <4>1 DEF Stops
      <4> HIDE DEF next
      <4> QED BY <4>2, <4>3
    <3> QED BY <3>1, <3>2
  <2>3. next = [i \in 0 .. (m + 1) |-> next[i]]
    OBVIOUS
  <2> HIDE DEF next
  <2>4. Stops(next, s, order, m + 1)
    BY <2>2, <2>3 DEF Stops
  <2> QED BY <2>4
<1> HIDE DEF S
<1>3. n \in S
  BY <1>1, <1>2, SetInduction
<1> QED BY <1>3 DEF S

\* What can be killed among the first n tasks of the order is dead, and
\* nothing came to life.
StoppedUpTo(r, s, order, n) ==
  /\ LocalOk(r)
  /\ r.handle = s.handle
  /\ \A u \in Task : Lives(r, u) => Lives(s, u)
  /\ \A i \in 1 .. n : order[i] \notin Unkillable => ~Lives(r, order[i])

\* However many stops fail, every task that can be killed is dead at the end.
LEMMA StoppedOk ==
  ASSUME NEW s, LocalOk(s), NEW order, Len(order) \in Nat, \A i \in 1 .. Len(order) : order[i] \in Task
  PROVE  StoppedUpTo(Stopped(s, order), s, order, Len(order))
<1>1. PICK g : Stops(g, s, order, Len(order)) /\ Stopped(s, order) = g[Len(order)]
  <2> DEFINE g == CHOOSE g : Stops(g, s, order, Len(order))
  <2>1. Stopped(s, order) = g[Len(order)]
    BY DEF Stopped, Stops
  <2>2. Stops(g, s, order, Len(order))
    BY StopsExists
  <2> QED BY <2>1, <2>2
<1> DEFINE n == Len(order)
           S == {m \in Nat : m <= n => StoppedUpTo(g[m], s, order, m)}
<1>2. g[0] = s /\ \A m \in 1 .. n : g[m] = StopTask(g[m - 1], order[m])
  BY <1>1 DEF Stops
<1> HIDE DEF n
<1>3. 0 \in S
  <2>1. StoppedUpTo(s, s, order, 0)
    BY DEF StoppedUpTo
  <2> QED BY <1>2, <2>1
<1>4. ASSUME NEW m \in Nat, m \in S PROVE m + 1 \in S
  <2> SUFFICES ASSUME m + 1 <= n PROVE StoppedUpTo(g[m + 1], s, order, m + 1)
    OBVIOUS
  <2> DEFINE r == g[m]
             q == StopTask(r, order[m + 1])
  <2>1. m + 1 \in 1 .. n /\ order[m + 1] \in Task /\ (m + 1) - 1 = m /\ m <= n
    BY DEF n
  <2>2. StoppedUpTo(r, s, order, m)
    BY <1>4, <2>1
  <2>3. g[m + 1] = q
    BY <1>2, <2>1
  <2> HIDE DEF r
  <2>4. /\ LocalOk(q) /\ q.handle = r.handle
        /\ order[m + 1] \notin Unkillable => ~Lives(q, order[m + 1])
        /\ \A u \in Task : Lives(q, u) => Lives(r, u)
    <3>1. LocalOk(r)
      BY <2>2 DEF StoppedUpTo
    <3> QED BY <2>1, <3>1, StopOk
  <2> HIDE DEF q
  <2>5. \A i \in 1 .. (m + 1) : order[i] \notin Unkillable => ~Lives(q, order[i])
    <3>1. \A i \in 1 .. (m + 1) : i = m + 1 \/ (i \in 1 .. m /\ order[i] \in Task)
      BY <2>1 DEF n
    <3> QED BY <2>2, <2>4, <3>1 DEF StoppedUpTo
  <2> QED BY <2>2, <2>3, <2>4, <2>5 DEF StoppedUpTo
<1> HIDE DEF S
<1>5. n \in S /\ n \in Nat
  BY <1>3, <1>4, SetInduction DEF n
<1>6. StoppedUpTo(g[n], s, order, n)
  BY <1>5 DEF S
<1> QED BY <1>1, <1>6 DEF n

----------------------------------------------------------------------------
\* The parts of Local.
LEMMA LocalIs ==
  /\ Local.state = state /\ Local.handle = handle /\ Local.running = running
  /\ Local.process = process
  /\ DOMAIN Local = {"state", "handle", "running", "process"}
  BY DEF Local

\* A live process that can be killed is the launch of a task that can be.
LEMMA AliveIsTask ==
  ASSUME NEW s, LocalOk(s), NEW pid \in DOMAIN s.process, s.process[pid] = "alive",
         \A t \in Unkillable : s.handle[t] # pid
  PROVE  \E t \in Task \ Unkillable : s.handle[t] = pid /\ Lives(s, t)
<1>1. pid \in 1 .. Len(s.process) /\ pid # 0
  BY DEF LocalOk, LocalType
<1>2. PICK t \in Task : s.handle[t] = pid
  BY <1>1 DEF LocalOk, Owned
<1>3. t \notin Unkillable
  BY <1>2
<1>4. Lives(s, t)
  BY <1>1, <1>2 DEF Lives
<1> QED BY <1>2, <1>3, <1>4

\* The state a call leaves is the one it worked out.
LEMMA BecomesIs ==
  ASSUME NEW s, LocalOk(s), state' = s.state, handle' = s.handle, running' = s.running, process' = s.process
  PROVE  /\ LocalOk(Local')
         /\ \A t \in Task : Lives(Local', t) = Lives(s, t)
<1>1. /\ Local'.state = s.state /\ Local'.handle = s.handle /\ Local'.running = s.running
      /\ Local'.process = s.process /\ DOMAIN Local' = {"state", "handle", "running", "process"}
  BY DEF Local
<1> QED BY <1>1 DEF LocalOk, LocalType, Owned, Watched, Lives

\* A new runner.
LEMMA RunnerInitHolds == RunnerInit => RunnerInv
<1> SUFFICES ASSUME RunnerInit PROVE RunnerInv
  OBVIOUS
<1>1. /\ cstat = "Pending" /\ state = [t \in Task |-> "Pending"] /\ handle = [t \in Task |-> 0]
      /\ running = [t \in Task |-> {}] /\ process = <<>> /\ runs = 0 /\ ~destroyed /\ ~erred
  BY DEF RunnerInit
<1>2. Len(process) = 0 /\ process \in Seq({"alive", "ok", "bad"})
  BY <1>1
<1>3. LocalType(Local)
  BY <1>1, <1>2, LocalIs DEF LocalType
<1>4. Owned(Local)
  BY <1>1, <1>2, LocalIs DEF Owned
<1>5. Watched(Local)
  BY <1>1, LocalIs DEF Watched, Lives
<1> QED BY <1>1, <1>3, <1>4, <1>5
        DEF RunnerInv, LocalOk, Unfailed, CompleteIsClean, FirstRunRollsBack

\* run() that starts every task.
LEMMA RunHolds == ASSUME RunnerInv, Run PROVE RunnerInv'
<1> DEFINE s == Started[NTasks]
<1>0. NTasks \in Nat /\ NTasks \in 0 .. NTasks /\ Task = 1 .. NTasks
  BY RunnerAssumption DEF Task
<1>1. StartedUpTo(s, NTasks)
  BY <1>0, StartedOk DEF Run, RunnerInv
<1>2. /\ state' = s.state /\ handle' = s.handle /\ running' = s.running /\ process' = s.process
      /\ cstat' = "Running" /\ erred' = FALSE
      /\ runs' = IF runs < 2 THEN runs + 1 ELSE runs
  BY DEF Run, Becomes
<1> HIDE DEF s
<1>3. LocalOk(Local')
  BY <1>1, <1>2, BecomesIs DEF StartedUpTo
<1>4. Unfailed'
  <2>1. \A t \in Task : state'[t] = "Running" /\ handle'[t] # 0 /\ handle'[t] \in running'[t]
    BY <1>0, <1>1, <1>2 DEF StartedUpTo
  <2> QED BY <2>1 DEF Unfailed
<1>5. runs' \in 1 .. 2
  BY <1>2 DEF RunnerInv
<1> QED BY <1>2, <1>3, <1>4, <1>5 DEF RunnerInv, CompleteIsClean, FirstRunRollsBack

\* run() that fails at a task: on the first run, all that was started is
\* dead again if it can be killed.
LEMMA RunFailsHolds == ASSUME RunnerInv, NEW n \in Task, RunFails(n) PROVE RunnerInv'
<1> DEFINE m == n - 1
           s == Started[m]
           order == [k \in 1 .. m |-> m + 1 - k]
           r == RolledBack(s, m)
<1>0. NTasks \in Nat /\ Task = 1 .. NTasks /\ m \in 0 .. NTasks /\ m \in Nat
  BY RunnerAssumption DEF Task
<1>1. StartedUpTo(s, m)
  BY <1>0, StartedOk DEF RunFails, RunnerInv
<1>2. /\ state' = r.state /\ handle' = r.handle /\ running' = r.running /\ process' = r.process
      /\ cstat' = "Failed"
      /\ runs' = IF runs < 2 THEN runs + 1 ELSE runs
  BY DEF RunFails, Becomes
<1>3. r = Stopped(s, order)
  BY DEF RolledBack
<1>4. Len(order) = m /\ \A i \in 1 .. m : order[i] \in Task /\ order[i] = m + 1 - i
  <2>1. order \in Seq(Nat) /\ Len(order) = m
    <3>1. order \in [1 .. m -> Nat]
      BY <1>0
    <3>2. Seq(Nat) = UNION {[1 .. k -> Nat] : k \in Nat}
      BY DEF Seq
    <3>3. order \in Seq(Nat)
      BY <1>0, <3>1, <3>2
    <3>4. DOMAIN order = 1 .. m
      OBVIOUS
    <3> HIDE DEF order
    <3> QED BY <1>0, <3>3, <3>4
  <2>2. \A i \in 1 .. m : order[i] = m + 1 - i /\ m + 1 - i \in 1 .. NTasks
    BY <1>0
  <2> HIDE DEF order
  <2> QED BY <1>0, <2>1, <2>2
<1> HIDE DEF s, order, r, m
<1>5. StoppedUpTo(r, s, order, m)
  <2>1. LocalOk(s)
    BY <1>1 DEF StartedUpTo
  <2> QED BY <1>0, <1>3, <1>4, <2>1, StoppedOk
<1>6. LocalOk(Local') /\ \A t \in Task : Lives(Local', t) = Lives(r, t)
  BY <1>2, <1>5, BecomesIs DEF StoppedUpTo
<1>7. runs' \in 1 .. 2 /\ (runs' = 1 => runs = 0)
  BY <1>2 DEF RunnerInv
<1>8. ASSUME runs' = 1 PROVE (Alive \cap Killable = {})'
  <2>1. ASSUME NEW pid \in (Alive \cap Killable)' PROVE FALSE
    <3>1. /\ Local'.process = process' /\ Local'.handle = handle'
          /\ pid \in DOMAIN process' /\ process'[pid] = "alive" /\ \A t \in Unkillable : handle'[t] # pid
      BY <2>1 DEF Local, Alive, Killable, Launch
    <3>2. PICK t \in Task \ Unkillable : Lives(Local', t)
      BY <1>6, <3>1, AliveIsTask
    <3>3. Lives(r, t)
      BY <1>6, <3>2
    <3>4. CASE t <= m
      <4>1. m + 1 - t \in 1 .. m /\ m + 1 - (m + 1 - t) = t
        BY <1>0, <3>4
      <4>2. order[m + 1 - t] = t
        BY <1>4, <4>1
      <4> QED BY <1>5, <3>2, <3>3, <4>1, <4>2 DEF StoppedUpTo
    <3>5. CASE ~(t <= m)
      <4>1. t > m
        BY <1>0, <3>5
      <4>2. s.handle[t] = handle[t] /\ r.handle[t] = s.handle[t]
        BY <1>1, <1>5, <4>1 DEF StartedUpTo, StoppedUpTo
      <4>3. handle[t] = 0
        <5>1. process = <<>> /\ Len(<<>>) = 0
          BY <1>7, <1>8 DEF RunnerInv
        <5>2. handle[t] \in 0 .. Len(process)
          BY LocalIs DEF RunnerInv, LocalOk, Owned
        <5> QED BY <5>1, <5>2
      <4> QED BY <3>3, <4>2, <4>3 DEF Lives
    <3> QED BY <3>4, <3>5
  <2> QED BY <2>1
<1>9. FirstRunRollsBack'
  BY <1>8 DEF FirstRunRollsBack
<1> QED BY <1>2, <1>6, <1>7, <1>9 DEF RunnerInv, Unfailed, CompleteIsClean

\* destroy(): nothing that can be killed is left.
LEMMA DestroyHolds == ASSUME RunnerInv, Destroy PROVE RunnerInv'
<1> DEFINE order == [t \in Task |-> t]
           r == Stopped(Local, order)
<1>0. NTasks \in Nat /\ Task = 1 .. NTasks
  BY RunnerAssumption DEF Task
<1>1. /\ state' = r.state /\ handle' = r.handle /\ running' = r.running /\ process' = r.process
      /\ cstat' = "Complete" /\ destroyed' = TRUE /\ erred' = FALSE /\ runs' = runs
  BY DEF Destroy, Becomes
<1>2. Len(order) = NTasks /\ \A i \in 1 .. NTasks : order[i] = i
  <2>1. order \in Seq(Nat)
    <3>1. order \in [1 .. NTasks -> Nat]
      BY <1>0
    <3>2. Seq(Nat) = UNION {[1 .. k -> Nat] : k \in Nat}
      BY DEF Seq
    <3> QED BY <1>0, <3>1, <3>2
  <2>2. DOMAIN order = 1 .. NTasks /\ \A i \in 1 .. NTasks : order[i] = i
    BY <1>0
  <2> HIDE DEF order
  <2> QED BY <1>0, <2>1, <2>2
<1> HIDE DEF order
<1>3. StoppedUpTo(r, Local, order, NTasks)
  BY <1>0, <1>2, StoppedOk DEF RunnerInv
<1>4. r.process = <<>> \/ process # <<>>
  <2>1. CASE process = <<>>
    <3>1. Len(<<>>) = 0
      OBVIOUS
    <3>2. \A t \in Task : handle[t] = 0
      BY <2>1, <3>1, LocalIs DEF RunnerInv, LocalOk, Owned
    <3>3. /\ Len(r.process) \in Nat /\ r.process \in Seq({"alive", "ok", "bad"})
          /\ \A pid \in 1 .. Len(r.process) : \E t \in Task : r.handle[t] = pid
      BY <1>3 DEF StoppedUpTo, LocalOk, LocalType, Owned
    <3>4. \A t \in Task : r.handle[t] = 0
      BY <1>3, <3>2, LocalIs DEF StoppedUpTo
    <3>5. Len(r.process) = 0
      <4>1. ~(1 \in 1 .. Len(r.process))
        BY <3>3, <3>4
      <4> QED BY <3>3, <4>1
    <3> QED BY <3>3, <3>5
  <2> QED BY <2>1
<1> HIDE DEF r
<1>5. LocalOk(Local') /\ \A t \in Task : Lives(Local', t) = Lives(r, t)
  BY <1>1, <1>3, BecomesIs DEF StoppedUpTo
<1>6. (Alive \cap Killable = {})'
  <2>1. ASSUME NEW pid \in (Alive \cap Killable)' PROVE FALSE
    <3>1. /\ Local'.process = process' /\ Local'.handle = handle'
          /\ pid \in DOMAIN process' /\ process'[pid] = "alive" /\ \A t \in Unkillable : handle'[t] # pid
      BY <2>1 DEF Local, Alive, Killable, Launch
    <3>2. PICK t \in Task \ Unkillable : Lives(Local', t)
      BY <1>5, <3>1, AliveIsTask
    <3> QED BY <1>0, <1>2, <1>3, <1>5, <3>2 DEF StoppedUpTo
  <2> QED BY <2>1
<1>7. CompleteIsClean' /\ FirstRunRollsBack' /\ Unfailed'
  BY <1>1, <1>6 DEF CompleteIsClean, FirstRunRollsBack, Unfailed
<1>8. runs' = 0 => process' = <<>>
  BY <1>1, <1>4 DEF RunnerInv
<1> QED BY <1>1, <1>5, <1>7, <1>8 DEF RunnerInv

\* A poll leaves what lives and can be killed running and held, and takes a
\* task that is still held for Exited only if its process exited zero.
LEMMA PollHolds ==
  ASSUME RunnerInv, state' = [t \in Task |-> Polled(t)], running' = HeldAfterPoll,
         UNCHANGED <<handle, process, destroyed>>, cstat' = cstat \/ cstat' \notin {"Pending", "Running"}
  PROVE  /\ LocalOk(Local')
         /\ Unfailed'
         /\ (cstat \in {"Pending", "Running"} /\ ~destroyed) =>
              \A t \in Task : state'[t] = "Exited" => handle[t] # 0 /\ process[handle[t]] = "ok"
<1>0. /\ state \in [Task -> {"Pending", "Running", "Exited", "Failed"}]
      /\ handle \in [Task -> Nat] /\ running \in [Task -> SUBSET Nat]
      /\ process \in Seq({"alive", "ok", "bad"})
      /\ Owned(Local) /\ Watched(Local)
  BY LocalIs DEF RunnerInv, LocalOk, LocalType
<1>1. \A t \in Task :
        /\ state'[t] = Polled(t)
        /\ running'[t] = IF state[t] \in Terminal \/ handle[t] = 0 \/ Polled(t) = "Running"
                           THEN running[t] ELSE running[t] \ {handle[t]}
  BY DEF HeldAfterPoll
<1>2. /\ Local'.state = state' /\ Local'.handle = handle /\ Local'.running = running'
      /\ Local'.process = process /\ DOMAIN Local' = {"state", "handle", "running", "process"}
  BY DEF Local
<1>3. LocalType(Local')
  <2>1. \A t \in Task : Polled(t) \in {"Pending", "Running", "Exited", "Failed"}
    BY <1>0 DEF Polled, Inspect
  <2>2. HeldAfterPoll \in [Task -> SUBSET Nat]
    BY <1>0 DEF HeldAfterPoll
  <2> QED BY <1>0, <1>2, <2>1, <2>2 DEF LocalType
<1>4. Owned(Local')
  <2>1. \A t \in Task : running'[t] \subseteq running[t]
    BY <1>1
  <2> QED BY <1>0, <1>2, <2>1, LocalIs DEF Owned
<1>5. ASSUME NEW t \in Task, handle[t] # 0, process[handle[t]] = "alive", handle[t] \in running[t],
             state[t] \notin Terminal
      PROVE  state'[t] = "Running" /\ handle[t] \in running'[t]
  <2>1. Polled(t) = "Running"
    BY <1>5 DEF Polled, Inspect
  <2> QED BY <1>1, <1>5, <2>1
<1>6. Watched(Local')
  <2> SUFFICES ASSUME NEW t \in Task \ Unkillable, Lives(Local', t)
               PROVE  handle[t] \in running'[t] /\ state'[t] = "Running"
    BY <1>2 DEF Watched
  <2>1. handle[t] # 0 /\ process[handle[t]] = "alive" /\ Lives(Local, t)
    BY <1>2, LocalIs DEF Lives
  <2>2. handle[t] \in running[t] /\ state[t] = "Running"
    BY <1>0, <2>1, LocalIs DEF Watched
  <2>3. state[t] \notin Terminal
    BY <2>2 DEF Terminal
  <2> QED BY <1>5, <2>1, <2>2, <2>3
<1>7. ASSUME cstat \in {"Pending", "Running"}, ~destroyed, NEW t \in Task
      PROVE  /\ handle[t] = 0 => state'[t] = "Pending"
             /\ handle[t] # 0 /\ state'[t] = "Exited" => process[handle[t]] = "ok"
             /\ handle[t] # 0 /\ state'[t] \notin Terminal => handle[t] \in running'[t]
  <2>1. /\ handle[t] = 0 => state[t] = "Pending"
        /\ handle[t] # 0 /\ state[t] = "Exited" => process[handle[t]] = "ok"
        /\ handle[t] # 0 /\ state[t] \notin Terminal => handle[t] \in running[t]
    BY <1>7 DEF RunnerInv, Unfailed
  <2>2. CASE handle[t] = 0 \/ state[t] \in Terminal
    BY <1>1, <2>1, <2>2 DEF Polled
  <2>3. CASE handle[t] # 0 /\ state[t] \notin Terminal
    <3>1. state'[t] = Inspect(t) /\ handle[t] \in running[t]
      BY <1>1, <2>1, <2>3 DEF Polled
    <3>2. Inspect(t) = IF process[handle[t]] = "ok" THEN "Exited"
                       ELSE IF process[handle[t]] = "bad" THEN "Failed" ELSE "Running"
      BY <3>1 DEF Inspect
    <3>3. Inspect(t) = "Running" => handle[t] \in running'[t]
      BY <1>1, <2>3, <3>1 DEF Polled
    <3> QED BY <2>3, <3>1, <3>2, <3>3 DEF Terminal
  <2> QED BY <2>2, <2>3
<1>8. Unfailed'
  BY <1>7 DEF Unfailed
<1> QED BY <1>3, <1>4, <1>6, <1>7, <1>8 DEF LocalOk

\* task_states()
LEMMA TaskStatesHolds == ASSUME RunnerInv, TaskStates PROVE RunnerInv'
<1>1. LocalOk(Local') /\ Unfailed'
  BY PollHolds DEF TaskStates
<1>2. /\ UNCHANGED <<cstat, handle, process, runs, destroyed>> /\ erred' = FALSE
  BY DEF TaskStates
<1>3. CompleteIsClean'
  BY <1>2 DEF RunnerInv, CompleteIsClean, Alive, Killable, Launch
<1> QED BY <1>1, <1>2, <1>3 DEF RunnerInv, FirstRunRollsBack

\* refresh_status(): the allocation becomes Complete only if nothing failed
\* and nothing lives.
LEMMA RefreshStatusHolds == ASSUME RunnerInv, RefreshStatus PROVE RunnerInv'
<1>1. /\ UNCHANGED <<handle, process, runs, destroyed>> /\ erred' = FALSE
      /\ cstat \in {"Pending", "Running"}
      /\ cstat' \in {"Failed", "Complete", cstat}
      /\ cstat' = "Complete" => \A t \in Task : state'[t] = "Exited"
  BY DEF RefreshStatus, RunnerInv
<1>2. /\ LocalOk(Local') /\ Unfailed'
      /\ ~destroyed => \A t \in Task : state'[t] = "Exited" => handle[t] # 0 /\ process[handle[t]] = "ok"
  BY <1>1, PollHolds DEF RefreshStatus
<1>3. /\ Local'.state = state' /\ Local'.handle = handle /\ Local'.process = process
  BY <1>1 DEF Local
<1>4. CompleteIsClean'
  <2> SUFFICES ASSUME cstat' = "Complete"
               PROVE  /\ ~destroyed => \A pid \in Launch : process[pid] = "ok"
                      /\ Alive \cap Killable = {}
    BY <1>1 DEF CompleteIsClean, Alive, Killable, Launch
  <2>1. \A t \in Task : state'[t] = "Exited"
    BY <1>1
  <2>2. ASSUME ~destroyed, NEW pid \in Launch PROVE process[pid] = "ok"
    <3>1. pid \in 1 .. Len(process)
      BY <2>2, LocalIs DEF RunnerInv, LocalOk, LocalType, Launch
    <3>2. PICK t \in Task : handle[t] = pid
      BY <3>1, LocalIs DEF RunnerInv, LocalOk, Owned
    <3> QED BY <1>2, <2>1, <2>2, <3>2
  <2>3. ASSUME NEW pid \in Alive \cap Killable PROVE FALSE
    <3>1. pid \in DOMAIN process /\ process[pid] = "alive" /\ \A t \in Unkillable : handle[t] # pid
      BY <2>3 DEF Alive, Killable, Launch
    <3>2. PICK t \in Task \ Unkillable : Lives(Local', t)
      BY <1>2, <1>3, <3>1, AliveIsTask
    <3>3. state'[t] = "Running"
      BY <1>2, <1>3, <3>2 DEF LocalOk, Watched
    <3> QED BY <2>1, <3>3
  <2> QED BY <2>2, <2>3
<1>5. cstat' \in {"Pending", "Running", "Complete", "Failed"}
  BY <1>1
<1> QED BY <1>1, <1>2, <1>4, <1>5 DEF RunnerInv, FirstRunRollsBack

\* A process ends on its own: none that counts as clean does.
LEMMA ExitHolds ==
  ASSUME RunnerInv, NEW pid \in Launch, NEW how \in {"ok", "bad"}, Exit(pid, how)
  PROVE  RunnerInv'
<1>0. /\ process \in Seq({"alive", "ok", "bad"}) /\ Owned(Local) /\ Watched(Local) /\ LocalType(Local)
  BY LocalIs DEF RunnerInv, LocalOk, LocalType
<1>1. /\ process[pid] = "alive" /\ process' = [process EXCEPT ![pid] = how] /\ erred' = FALSE
      /\ UNCHANGED <<cstat, state, handle, running, runs, destroyed>>
  BY DEF Exit
<1>2. /\ process' \in Seq({"alive", "ok", "bad"}) /\ Len(process') = Len(process)
      /\ Launch' = Launch
      /\ \A k \in Launch : process'[k] = "alive" => process[k] = "alive"
      /\ \A k \in Launch : process[k] # "alive" => process'[k] = process[k]
  <2>1. process' \in Seq({"alive", "ok", "bad"})
    BY <1>0, <1>1, PutIsSeq
  <2> QED BY <1>0, <1>1, <2>1 DEF Launch
<1>3. /\ Local'.state = state /\ Local'.handle = handle /\ Local'.running = running
      /\ Local'.process = process' /\ DOMAIN Local' = {"state", "handle", "running", "process"}
  BY <1>1 DEF Local
<1>4. \A t \in Task : handle[t] # 0 => handle[t] \in Launch
  BY <1>0, LocalIs DEF Owned, Launch
<1>5. LocalType(Local') /\ Owned(Local')
  <2>1. LocalType(Local')
    BY <1>0, <1>2, <1>3, LocalIs DEF LocalType
  <2>2. Owned(Local')
    BY <1>0, <1>2, <1>3, LocalIs DEF Owned
  <2> QED BY <2>1, <2>2
<1>6. Watched(Local')
  <2>1. \A t \in Task : Lives(Local', t) => Lives(Local, t)
    BY <1>2, <1>3, <1>4, LocalIs DEF Lives
  <2> QED BY <1>0, <1>3, <2>1, LocalIs DEF Watched
<1>7. Unfailed'
  BY <1>1, <1>2, <1>4 DEF RunnerInv, Unfailed
<1>8. CompleteIsClean'
  <2>1. (Alive \cap Killable)' \subseteq Alive \cap Killable
    BY <1>1, <1>2 DEF Alive, Killable
  <2>2. cstat = "Complete" => destroyed
    BY <1>1 DEF RunnerInv, CompleteIsClean
  <2> QED BY <1>1, <2>1, <2>2 DEF RunnerInv, CompleteIsClean
<1>9. runs # 0
  BY <1>0, <1>1 DEF RunnerInv, Launch
<1> QED BY <1>1, <1>5, <1>6, <1>7, <1>8, <1>9 DEF RunnerInv, LocalOk, FirstRunRollsBack

\* RunnerInv is an invariant of the alloc runner.
THEOREM RunnerInvariantHolds == RunnerSpec => []RunnerInv
<1>1. RunnerInv /\ [RunnerNext]_runnerVars => RunnerInv'
  <2> SUFFICES ASSUME RunnerInv, [RunnerNext]_runnerVars PROVE RunnerInv'
    OBVIOUS
  <2>1. CASE UNCHANGED runnerVars
    <3>1. UNCHANGED <<cstat, state, handle, running, process, runs, destroyed, erred>>
      BY <2>1 DEF runnerVars
    <3>2. Local' = Local
      BY <3>1 DEF Local
    <3> QED BY <3>1, <3>2 DEF RunnerInv, Unfailed, CompleteIsClean, FirstRunRollsBack, Alive, Killable, Launch
  <2> QED BY <2>1, RunHolds, RunFailsHolds, DestroyHolds, TaskStatesHolds, RefreshStatusHolds, ExitHolds
          DEF RunnerNext
<1> QED BY <1>1, RunnerInitHolds, PTL DEF RunnerSpec

\* However task_states and refresh_status alternate with the exits, an
\* allocation that is Complete before destroy() had every process exit zero,
\* and a Complete one leaves nothing alive that could have been stopped.
THEOREM CompleteIsCleanHolds == RunnerSpec => []CompleteIsClean
<1>1. RunnerInv => CompleteIsClean
  BY DEF RunnerInv
<1> QED BY <1>1, RunnerInvariantHolds, PTL

\* "Roll back already-started tasks": when the first run() fails, at any
\* task, nothing that can be killed is left running.
THEOREM FirstRunRollsBackHolds == RunnerSpec => []FirstRunRollsBack
<1>1. RunnerInv => FirstRunRollsBack
  BY DEF RunnerInv
<1> QED BY <1>1, RunnerInvariantHolds, PTL

\* In an allocation, every live process that can be killed is the launch its
\* task's handle names, and the driver holds it.
THEOREM ReachableHolds == RunnerSpec => []Reachable
<1>1. RunnerInv => Reachable
  <2> SUFFICES ASSUME RunnerInv, NEW pid \in Alive \cap Killable
               PROVE  \E t \in Task : handle[t] = pid /\ running[t] = {pid}
    BY DEF Reachable
  <2>1. pid \in DOMAIN process /\ process[pid] = "alive" /\ \A t \in Unkillable : handle[t] # pid
    BY DEF Alive, Killable, Launch
  <2>2. PICK t \in Task \ Unkillable : handle[t] = pid /\ Lives(Local, t)
    BY <2>1, LocalIs, AliveIsTask DEF RunnerInv
  <2>3. handle[t] \in running[t] /\ \A k \in running[t] : k = handle[t]
    BY <2>2, LocalIs DEF RunnerInv, LocalOk, Watched, Owned
  <2> QED BY <2>2, <2>3
<1> QED BY <1>1, RunnerInvariantHolds, PTL

----------------------------------------------------------------------------
(* Gossip membership.                                                      *)

Roster == UNION {[D -> Entry] : D \in SUBSET Node}

Datagram ==
  [kind : {"push", "pull", "gossip"}, src : Node, dst : Node, peers : Roster]

Types ==
  /\ roster \in [Node -> Roster]
  /\ counter \in [Node -> Nat]
  /\ reply_to \in [Node -> Node \cup {None}]
  /\ calls \in [Node -> SUBSET Call]
  /\ net \subseteq Datagram
  /\ starts \in Nat
  /\ joined \subseteq Node \X Node
  /\ told \subseteq Node \X Node

\* Only a departure has an incarnation above 0.
Honest(r) == \A m \in DOMAIN r : r[m].status = "Left" <=> r[m].incarnation > 0

\* r says that m has left.
SaysLeft(r, m) == m \in DOMAIN r /\ r[m].status = "Left"

\* Every node knows itself, a datagram its sender, and nobody makes a claim
\* that is not Honest; a departure that is about to be sent was marked.
Claims ==
  /\ \A n \in Node : n \in DOMAIN roster[n] /\ Honest(roster[n])
  /\ \A msg \in net : msg.src \in DOMAIN msg.peers /\ Honest(msg.peers)
  /\ \A n \in Node : \A call \in calls[n] :
       /\ call.inc > 0
       /\ n \notin call.targets
       /\ call.step = "send" => SaysLeft(roster[n], n)

\* A departure that was sent was received or is under way.
LeavesSpread ==
  \A n, p \in Node : <<n, p>> \in told =>
    /\ n # p
    /\ \/ SaysLeft(roster[p], n)
       \/ \E msg \in net : msg.dst = p /\ SaysLeft(msg.peers, n)

\* A join was received or is under way, and so is its answer.
PushFrom(n, p) == \E msg \in net : msg.kind = "push" /\ msg.src = n /\ msg.dst = p

JoinsSpread ==
  \A n, p \in Node : <<n, p>> \in joined =>
    /\ n # p
    /\ n \in DOMAIN roster[p] \/ PushFrom(n, p)
    /\ \/ p \in DOMAIN roster[n] \/ PushFrom(n, p) \/ reply_to[p] = n
       \/ \E msg \in net : msg.dst = n /\ p \in DOMAIN msg.peers

\* While no node was started again, a member is said to have left only if it
\* says so itself.
FirstHand ==
  starts = 0 =>
    \A m \in Node :
      /\ \A n \in Node : SaysLeft(roster[n], m) => SaysLeft(roster[m], m)
      /\ \A msg \in net : SaysLeft(msg.peers, m) => SaysLeft(roster[m], m)

MemberInv == Types /\ Claims /\ LeavesSpread /\ JoinsSpread /\ FirstHand

----------------------------------------------------------------------------
\* What merge() makes of two rosters: a roster that knows whoever one of them
\* knows, and changes a claim only for a newer one.
LEMMA MergeFacts ==
  ASSUME NEW n \in Node, Types, NEW peers \in Roster
  PROVE  /\ Merged(n, peers) \in Roster
         /\ DOMAIN Merged(n, peers) = DOMAIN roster[n] \cup (DOMAIN peers \ {n})
         /\ \A m \in DOMAIN Merged(n, peers) :
              Merged(n, peers)[m] =
                IF m \in DOMAIN peers /\ Supersedes(n, m, peers[m]) THEN peers[m]
                ELSE roster[n][m]
<1>1. roster[n] \in Roster
  BY DEF Types
<1>2. PICK D \in SUBSET Node : roster[n] \in [D -> Entry]
  BY <1>1 DEF Roster
<1>3. PICK E \in SUBSET Node : peers \in [E -> Entry]
  BY DEF Roster
<1>4. DOMAIN Merged(n, peers) = D \cup (E \ {n})
  BY <1>2, <1>3 DEF Merged
<1>5. ASSUME NEW m \in D \cup (E \ {n})
      PROVE  /\ Merged(n, peers)[m] =
                  IF m \in E /\ Supersedes(n, m, peers[m]) THEN peers[m] ELSE roster[n][m]
             /\ Merged(n, peers)[m] \in Entry
  BY <1>2, <1>3, <1>5 DEF Merged, Supersedes
<1>6. Merged(n, peers) \in [D \cup (E \ {n}) -> Entry]
  BY <1>2, <1>3, <1>4, <1>5 DEF Merged
<1>7. Merged(n, peers) \in Roster
  BY <1>6 DEF Roster
<1> QED BY <1>2, <1>3, <1>4, <1>5, <1>7

\* Merging Honest rosters gives an Honest one, forgets no departure, and knows
\* of every departure that one of the two knows of, except of the node's own.
LEMMA MergeKeeps ==
  ASSUME NEW n \in Node, Types, Claims, NEW peers \in Roster, Honest(peers)
  PROVE  /\ Honest(Merged(n, peers))
         /\ Merged(n, peers)[n] = roster[n][n]
         /\ \A m \in Node : SaysLeft(roster[n], m) => SaysLeft(Merged(n, peers), m)
         /\ \A m \in Node \ {n} : SaysLeft(peers, m) => SaysLeft(Merged(n, peers), m)
         /\ \A m \in Node : SaysLeft(Merged(n, peers), m) =>
              SaysLeft(roster[n], m) \/ SaysLeft(peers, m)
<1> DEFINE M == Merged(n, peers)
<1>1. /\ DOMAIN M = DOMAIN roster[n] \cup (DOMAIN peers \ {n})
      /\ \A m \in DOMAIN M :
           M[m] = IF m \in DOMAIN peers /\ Supersedes(n, m, peers[m]) THEN peers[m]
                  ELSE roster[n][m]
  BY MergeFacts
<1>2. /\ n \in DOMAIN roster[n] /\ Honest(roster[n])
      /\ \A m \in DOMAIN roster[n] : roster[n][m] \in Entry
      /\ \A m \in DOMAIN peers : peers[m] \in Entry
  BY DEF Types, Claims, Roster
<1> HIDE DEF M
<1>3. Honest(M)
  BY <1>1, <1>2 DEF Honest, Supersedes
<1>4. M[n] = roster[n][n]
  BY <1>1, <1>2 DEF Supersedes
<1>5. ASSUME NEW m \in Node, SaysLeft(roster[n], m) PROVE SaysLeft(M, m)
  BY <1>1, <1>2, <1>5 DEF SaysLeft, Supersedes, Honest, Entry
<1>6. ASSUME NEW m \in Node \ {n}, SaysLeft(peers, m) PROVE SaysLeft(M, m)
  BY <1>1, <1>2, <1>6 DEF SaysLeft, Supersedes, Honest, Entry
<1>7. ASSUME NEW m \in Node, SaysLeft(M, m)
      PROVE  SaysLeft(roster[n], m) \/ SaysLeft(peers, m)
  BY <1>1, <1>2, <1>7 DEF SaysLeft, Supersedes
<1> QED BY <1>3, <1>4, <1>5, <1>6, <1>7 DEF M

----------------------------------------------------------------------------
\* start() makes a roster of the node alone.
LEMMA FreshFacts ==
  ASSUME NEW n \in Node
  PROVE  /\ Fresh(n) \in Roster /\ n \in DOMAIN Fresh(n) /\ Honest(Fresh(n))
         /\ \A m \in Node : ~SaysLeft(Fresh(n), m)
<1>1. /\ DOMAIN Fresh(n) = {n} /\ Fresh(n)[n] = [status |-> "Alive", incarnation |-> 0]
      /\ Fresh(n) \in [{n} -> Entry] /\ {n} \in SUBSET Node
  BY DEF Fresh, Entry
<1> QED BY <1>1 DEF Roster, Honest, SaysLeft

\* The initial rosters satisfy the invariant.
LEMMA MemberInitHolds == MemberInit => MemberInv
<1> SUFFICES ASSUME MemberInit PROVE MemberInv
  OBVIOUS
<1>1. ASSUME NEW n \in Node
      PROVE  roster[n] \in Roster /\ n \in DOMAIN roster[n] /\ Honest(roster[n])
             /\ \A m \in Node : ~SaysLeft(roster[n], m)
  BY FreshFacts DEF MemberInit
<1>2. Types
  BY <1>1 DEF MemberInit, Types
<1> QED BY <1>1, <1>2 DEF MemberInit, MemberInv, Claims, LeavesSpread, JoinsSpread, FirstHand

\* A datagram with a node's roster in it is one, and says what the roster says.
LEMMA OwnDatagram ==
  ASSUME MemberInv, NEW n \in Node, NEW p \in Node, NEW k \in {"push", "pull", "gossip"}
  PROVE  /\ Msg(k, n, p, roster[n]) \in Datagram
         /\ Msg(k, n, p, roster[n]).kind = k
         /\ Msg(k, n, p, roster[n]).src = n
         /\ Msg(k, n, p, roster[n]).dst = p
         /\ Msg(k, n, p, roster[n]).peers = roster[n]
  BY DEF MemberInv, Types, Msg, Datagram

\* join() sends the roster and waits.
LEMMA JoinHolds ==
  ASSUME MemberInv, NEW n \in Node, NEW p \in Node, Join(n, p)
  PROVE  MemberInv'
<1> DEFINE new == Msg("push", n, p, roster[n])
<1>1. /\ new \in Datagram /\ new.kind = "push" /\ new.src = n /\ new.dst = p
      /\ new.peers = roster[n]
  BY OwnDatagram
<1>2. /\ net' = net \cup {new} /\ joined' = joined \cup {<<n, p>>} /\ p # n
      /\ UNCHANGED <<roster, counter, reply_to, calls, starts, told>>
  BY DEF Join
<1> HIDE DEF new
<1>3. Types'
  BY <1>1, <1>2 DEF MemberInv, Types
<1>4. Claims'
  BY <1>1, <1>2 DEF MemberInv, Claims
<1>5. LeavesSpread'
  BY <1>1, <1>2 DEF MemberInv, LeavesSpread
<1>6. JoinsSpread'
  BY <1>1, <1>2 DEF MemberInv, JoinsSpread, PushFrom
<1>7. FirstHand'
  BY <1>1, <1>2 DEF MemberInv, FirstHand
<1> QED BY <1>3, <1>4, <1>5, <1>6, <1>7 DEF MemberInv

\* recv_loop merges a datagram.
LEMMA ReceiveHolds ==
  ASSUME MemberInv, NEW msg \in net, Receive(msg)
  PROVE  MemberInv'
<1> DEFINE n == msg.dst
           M == Merged(n, msg.peers)
<1>1. /\ msg \in Datagram /\ n \in Node /\ msg.src \in Node /\ msg.peers \in Roster
      /\ Honest(msg.peers) /\ msg.src \in DOMAIN msg.peers
  BY DEF MemberInv, Types, Claims, Datagram
<1>2. /\ net' \subseteq net /\ \A x \in net : x # msg => x \in net'
      /\ roster' = [roster EXCEPT ![n] = M]
      /\ reply_to[n] = None
      /\ reply_to' = [reply_to EXCEPT ![n] = IF msg.kind = "push" THEN msg.src ELSE None]
      /\ UNCHANGED <<counter, calls, used, starts, joined, told>>
  BY DEF Receive
<1>3. M \in Roster /\ DOMAIN M = DOMAIN roster[n] \cup (DOMAIN msg.peers \ {n})
  BY <1>1, MergeFacts DEF MemberInv
<1>4. /\ Honest(M)
      /\ M[n] = roster[n][n]
      /\ \A m \in Node : SaysLeft(roster[n], m) => SaysLeft(M, m)
      /\ \A m \in Node \ {n} : SaysLeft(msg.peers, m) => SaysLeft(M, m)
      /\ \A m \in Node : SaysLeft(M, m) => SaysLeft(roster[n], m) \/ SaysLeft(msg.peers, m)
  BY <1>1, MergeKeeps DEF MemberInv
<1> HIDE DEF M, n
<1>5. /\ \A x \in Node : roster'[x] = IF x = n THEN M ELSE roster[x]
      /\ \A x \in Node : reply_to'[x] = IF x # n THEN reply_to[x]
                                        ELSE IF msg.kind = "push" THEN msg.src ELSE None
      /\ \A x \in Node : DOMAIN roster[x] \subseteq DOMAIN roster'[x]
      /\ \A x, m \in Node : SaysLeft(roster[x], m) => SaysLeft(roster'[x], m)
  BY <1>2, <1>3, <1>4 DEF MemberInv, Types
<1>6. Types'
  BY <1>1, <1>2, <1>3 DEF MemberInv, Types
<1>7. Claims'
  BY <1>1, <1>2, <1>3, <1>4, <1>5 DEF MemberInv, Claims
<1>8. LeavesSpread'
  BY <1>1, <1>2, <1>4, <1>5 DEF MemberInv, LeavesSpread, n
<1>9. JoinsSpread'
  <2> SUFFICES ASSUME NEW x \in Node, NEW p \in Node, <<x, p>> \in joined
               PROVE  /\ x # p
                      /\ x \in DOMAIN roster'[p] \/ PushFrom(x, p)'
                      /\ \/ p \in DOMAIN roster'[x] \/ PushFrom(x, p)' \/ reply_to'[p] = x
                         \/ \E y \in net' : y.dst = x /\ p \in DOMAIN y.peers
    BY <1>2 DEF JoinsSpread
  <2>1. /\ x # p
        /\ x \in DOMAIN roster[p] \/ PushFrom(x, p)
        /\ \/ p \in DOMAIN roster[x] \/ PushFrom(x, p) \/ reply_to[p] = x
           \/ \E y \in net : y.dst = x /\ p \in DOMAIN y.peers
    BY DEF MemberInv, JoinsSpread
  <2>2. ASSUME PushFrom(x, p)
        PROVE  PushFrom(x, p)' \/ (x \in DOMAIN roster'[p] /\ reply_to'[p] = x)
    BY <1>1, <1>2, <1>3, <1>5, <2>1, <2>2 DEF PushFrom, n
  <2>3. ASSUME reply_to[p] = x PROVE reply_to'[p] = x
    BY <1>2, <1>5, <2>3, MembershipAssumption DEF n
  <2>4. ASSUME NEW y \in net, y.dst = x, p \in DOMAIN y.peers
        PROVE  p \in DOMAIN roster'[x] \/ y \in net'
    BY <1>2, <1>3, <1>5, <2>1, <2>4 DEF n
  <2> QED BY <1>5, <2>1, <2>2, <2>3, <2>4
<1>10. FirstHand'
  BY <1>1, <1>2, <1>4, <1>5 DEF MemberInv, FirstHand
<1> QED BY <1>6, <1>7, <1>8, <1>9, <1>10 DEF MemberInv

\* recv_loop answers a push-pull.
LEMMA ReplyHolds ==
  ASSUME MemberInv, NEW n \in Node, Reply(n)
  PROVE  MemberInv'
<1> DEFINE p == reply_to[n]
           new == Msg("pull", n, p, roster[n])
<1>1. p \in Node
  BY DEF Reply, MemberInv, Types
<1>2. /\ new \in Datagram /\ new.kind = "pull" /\ new.src = n /\ new.dst = p
      /\ new.peers = roster[n]
  BY <1>1, OwnDatagram
<1>3. /\ net' = net \cup {new} /\ reply_to' = [reply_to EXCEPT ![n] = None]
      /\ UNCHANGED <<roster, counter, calls, used, starts, joined, told>>
  BY DEF Reply
<1> HIDE DEF new
<1>4. Types'
  BY <1>2, <1>3 DEF MemberInv, Types
<1>5. Claims'
  BY <1>2, <1>3 DEF MemberInv, Claims
<1>6. LeavesSpread'
  BY <1>2, <1>3 DEF MemberInv, LeavesSpread
<1>7. JoinsSpread'
  BY <1>2, <1>3 DEF MemberInv, JoinsSpread, PushFrom, Claims, Types
<1>8. FirstHand'
  BY <1>2, <1>3 DEF MemberInv, FirstHand
<1> QED BY <1>4, <1>5, <1>6, <1>7, <1>8 DEF MemberInv

\* leave() draws an incarnation.
LEMMA LeaveBumpHolds ==
  ASSUME MemberInv, NEW n \in Node, LeaveBump(n)
  PROVE  MemberInv'
<1> DEFINE new == [step |-> "mark", inc |-> counter[n] + 1, targets |-> {}]
<1>1. /\ new \in Call /\ new.inc > 0 /\ new.step = "mark" /\ new.targets = {}
      /\ counter[n] + 1 \in Nat
  BY DEF MemberInv, Types, Call
<1>2. /\ counter' = [counter EXCEPT ![n] = @ + 1]
      /\ calls' = [calls EXCEPT ![n] = @ \cup {new}]
      /\ UNCHANGED <<roster, reply_to, net, starts, joined, told>>
  BY DEF LeaveBump
<1> HIDE DEF new
<1>3. Types'
  BY <1>1, <1>2 DEF MemberInv, Types
<1>4. Claims'
  BY <1>1, <1>2 DEF MemberInv, Claims, Types
<1> QED BY <1>2, <1>3, <1>4
        DEF MemberInv, LeavesSpread, JoinsSpread, PushFrom, FirstHand

\* leave() marks the node's own entry.
LEMMA LeaveMarkHolds ==
  ASSUME MemberInv, NEW n \in Node, NEW call \in calls[n], LeaveMark(n, call)
  PROVE  MemberInv'
<1> DEFINE own == [status |-> "Left", incarnation |-> call.inc]
           r == [roster[n] EXCEPT ![n] = own]
           new == [step |-> "send", inc |-> call.inc, targets |-> DOMAIN roster[n] \ {n}]
<1>1. /\ call \in Call /\ call.inc > 0 /\ call.inc \in Nat /\ roster[n] \in Roster
      /\ n \in DOMAIN roster[n] /\ Honest(roster[n])
  BY DEF MemberInv, Types, Claims, Call
<1>2. PICK D \in SUBSET Node : roster[n] \in [D -> Entry]
  BY <1>1 DEF Roster
<1>3. /\ new \in Call /\ new.inc > 0 /\ new.step = "send" /\ n \notin new.targets
      /\ own \in Entry /\ own.status = "Left" /\ own.incarnation > 0
  BY <1>1, <1>2 DEF Call, Entry
<1>4. /\ roster' = [roster EXCEPT ![n] = r]
      /\ calls' = [calls EXCEPT ![n] = (@ \ {call}) \cup {new}]
      /\ UNCHANGED <<counter, reply_to, net, starts, joined, told>>
  BY DEF LeaveMark
<1> HIDE DEF own, new
<1>5. /\ r \in [D -> Entry] /\ DOMAIN r = DOMAIN roster[n] /\ r[n] = own
      /\ \A m \in D : m # n => r[m] = roster[n][m]
  BY <1>1, <1>2, <1>3
<1>6. r \in Roster /\ Honest(r) /\ SaysLeft(r, n)
  BY <1>1, <1>2, <1>3, <1>5 DEF Roster, Honest, SaysLeft
<1>7. \A m \in Node : m # n => (SaysLeft(r, m) <=> SaysLeft(roster[n], m))
  BY <1>2, <1>5 DEF SaysLeft
<1> HIDE DEF r
<1>8. \A x \in Node : roster'[x] = IF x = n THEN r ELSE roster[x]
  BY <1>4 DEF MemberInv, Types
<1>9. Types'
  BY <1>3, <1>4, <1>6 DEF MemberInv, Types
<1>10. Claims'
  BY <1>1, <1>3, <1>4, <1>5, <1>6, <1>8 DEF MemberInv, Claims, Types
<1>11. LeavesSpread'
  BY <1>4, <1>7, <1>8 DEF MemberInv, LeavesSpread
<1>12. JoinsSpread'
  BY <1>4, <1>5, <1>8 DEF MemberInv, JoinsSpread, PushFrom
<1>13. FirstHand'
  BY <1>4, <1>6, <1>7, <1>8 DEF MemberInv, FirstHand
<1> QED BY <1>9, <1>10, <1>11, <1>12, <1>13 DEF MemberInv

\* leave() sends the roster as it is by then.
LEMMA LeaveSendHolds ==
  ASSUME MemberInv, NEW n \in Node, NEW call \in calls[n], LeaveSend(n, call)
  PROVE  MemberInv'
<1>1. /\ call.targets \subseteq Node /\ n \notin call.targets /\ SaysLeft(roster[n], n)
      /\ n \in DOMAIN roster[n] /\ Honest(roster[n])
  BY DEF LeaveSend, MemberInv, Types, Claims, Call
<1> DEFINE new == {Msg("gossip", n, p, roster[n]) : p \in call.targets}
<1>2. /\ net' = net \cup new
      /\ calls' = [calls EXCEPT ![n] = @ \ {call}]
      /\ told' = told \cup {<<n, p>> : p \in call.targets}
      /\ UNCHANGED <<roster, counter, reply_to, starts, joined>>
  BY DEF LeaveSend
<1>3. /\ new \subseteq Datagram
      /\ \A x \in new : x.kind = "gossip" /\ x.src = n /\ x.peers = roster[n]
      /\ \A p \in call.targets : \E x \in new : x.dst = p
  BY <1>1, OwnDatagram
<1> HIDE DEF new
<1>4. Types'
  BY <1>1, <1>2, <1>3 DEF MemberInv, Types
<1>5. Claims'
  BY <1>1, <1>2, <1>3 DEF MemberInv, Claims, Types
<1>6. LeavesSpread'
  <2> SUFFICES ASSUME NEW x \in Node, NEW p \in Node, <<x, p>> \in told'
               PROVE  /\ x # p
                      /\ \/ SaysLeft(roster[p], x)
                         \/ \E y \in net' : y.dst = p /\ SaysLeft(y.peers, x)
    BY <1>2 DEF LeavesSpread
  <2>1. CASE <<x, p>> \in told
    BY <1>2, <2>1 DEF MemberInv, LeavesSpread
  <2>2. CASE x = n /\ p \in call.targets
    BY <1>1, <1>2, <1>3, <2>2
  <2> QED BY <1>2, <2>1, <2>2
<1>7. JoinsSpread'
  BY <1>2 DEF MemberInv, JoinsSpread, PushFrom
<1>8. FirstHand'
  BY <1>1, <1>2, <1>3 DEF MemberInv, FirstHand
<1> QED BY <1>4, <1>5, <1>6, <1>7, <1>8 DEF MemberInv

\* A node is started again.
LEMMA RestartHolds ==
  ASSUME MemberInv, NEW n \in Node, Restart(n)
  PROVE  MemberInv'
<1>1. /\ starts' = starts + 1
      /\ roster' = [roster EXCEPT ![n] = Fresh(n)]
      /\ counter' = [counter EXCEPT ![n] = 0]
      /\ reply_to' = [reply_to EXCEPT ![n] = None]
      /\ calls' = [calls EXCEPT ![n] = {}]
      /\ joined' = {j \in joined : n \notin {j[1], j[2]}}
      /\ told' = {j \in told : n \notin {j[1], j[2]}}
      /\ net' = net
  BY DEF Restart
<1>2. Fresh(n) \in Roster /\ n \in DOMAIN Fresh(n) /\ Honest(Fresh(n))
  BY FreshFacts
<1>3. \A x \in Node : roster'[x] = IF x = n THEN Fresh(n) ELSE roster[x]
  BY <1>1 DEF MemberInv, Types
<1>4. Types'
  BY <1>1, <1>2 DEF MemberInv, Types
<1>5. Claims'
  BY <1>1, <1>2, <1>3 DEF MemberInv, Claims, Types
<1>6. LeavesSpread'
  BY <1>1, <1>3 DEF MemberInv, LeavesSpread
<1>7. JoinsSpread'
  BY <1>1, <1>3 DEF MemberInv, JoinsSpread, PushFrom, Types
<1>8. FirstHand'
  BY <1>1 DEF MemberInv, Types, FirstHand
<1> QED BY <1>4, <1>5, <1>6, <1>7, <1>8 DEF MemberInv

\* Every step keeps the invariant.
LEMMA MemberStepHolds == MemberInv /\ [MemberNext]_memberVars => MemberInv'
<1> SUFFICES ASSUME MemberInv, [MemberNext]_memberVars PROVE MemberInv'
  OBVIOUS
<1>1. CASE UNCHANGED memberVars
  BY <1>1 DEF memberVars, MemberInv, Types, Claims, LeavesSpread, JoinsSpread, PushFrom, FirstHand
<1>2. CASE MemberNext
  BY <1>2, JoinHolds, ReceiveHolds, ReplyHolds, LeaveBumpHolds, LeaveMarkHolds,
     LeaveSendHolds, RestartHolds DEF MemberNext
<1> QED BY <1>1, <1>2

\* The invariant of gossip membership: rosters, datagrams and calls make no
\* claim that is not true to their incarnations, and what was joined or left
\* is known or under way.
THEOREM MemberInvariantHolds == MemberSpec => []MemberInv
  BY MemberInitHolds, MemberStepHolds, PTL DEF MemberSpec

\* "nodes exchange their full roster on `join`": what was joined is seen on
\* both sides once everything has arrived.
THEOREM JoinIsSeenHolds == MemberSpec => []JoinIsSeen
<1>1. MemberInv => JoinIsSeen
  <2> SUFFICES ASSUME MemberInv, Quiet, starts = 0, NEW j \in joined
               PROVE  Seen(j[1], j[2])
    BY DEF JoinIsSeen
  <2> DEFINE n == j[1]
             p == j[2]
  <2>1. n \in Node /\ p \in Node /\ <<n, p>> \in joined
    BY DEF MemberInv, Types
  <2>2. net = {} /\ reply_to[p] = None
    BY <2>1 DEF Quiet
  <2>3. n \in DOMAIN roster[p] /\ p \in DOMAIN roster[n]
    BY <2>1, <2>2, MembershipAssumption DEF MemberInv, JoinsSpread, PushFrom
  <2>4. n \in DOMAIN roster[n] /\ roster[p][n] \in Entry
    BY <2>1, <2>3 DEF MemberInv, Claims, Types, Roster
  <2>5. ~SaysLeft(roster[n], n) => ~SaysLeft(roster[p], n)
    BY <2>1 DEF MemberInv, FirstHand
  <2> QED BY <2>3, <2>4, <2>5 DEF Seen, SaysLeft, Entry
<1> QED BY <1>1, MemberInvariantHolds, PTL

\* "gossip the change to every known member": whoever was told lists the node
\* as left once everything has arrived.
THEOREM LeaveIsSeenHolds == MemberSpec => []LeaveIsSeen
<1>1. MemberInv => LeaveIsSeen
  BY DEF MemberInv, Types, LeavesSpread, SaysLeft, LeaveIsSeen, Quiet
<1> QED BY <1>1, MemberInvariantHolds, PTL

\* merge() brings no member back that left, whatever arrives.
THEOREM LeftIsFinalHolds == MemberSpec => LeftIsFinal
<1> DEFINE Kept == \A n \in Node : \A m \in DOMAIN roster[n] \ {n} :
                     roster[n][m].status = "Left" /\ starts' = starts
                       => roster'[n][m].status = "Left"
<1>1. MemberInv /\ [MemberNext]_memberVars => [Kept]_memberVars
  <2> SUFFICES ASSUME MemberInv, MemberNext,
                      NEW n \in Node, NEW m \in DOMAIN roster[n] \ {n},
                      roster[n][m].status = "Left", starts' = starts
               PROVE  roster'[n][m].status = "Left"
    OBVIOUS
  <2>1. /\ SaysLeft(roster[n], m) /\ m \in Node /\ Types /\ Claims
        /\ starts \in Nat /\ starts + 1 # starts
    BY DEF SaysLeft, MemberInv, Types, Roster
  <2>2. ASSUME NEW msg \in net, Receive(msg) PROVE SaysLeft(roster'[n], m)
    <3>1. /\ msg.dst \in Node /\ msg.peers \in Roster /\ Honest(msg.peers)
          /\ roster' = [roster EXCEPT ![msg.dst] = Merged(msg.dst, msg.peers)]
      BY <2>1, <2>2 DEF Types, Claims, Datagram, Receive
    <3>2. \A k \in Node : SaysLeft(roster[msg.dst], k) => SaysLeft(Merged(msg.dst, msg.peers), k)
      BY <2>1, <3>1, MergeKeeps
    <3> QED BY <2>1, <3>1, <3>2 DEF Types
  <2>3. ASSUME NEW x \in Node, NEW call \in calls[x], LeaveMark(x, call)
        PROVE  SaysLeft(roster'[n], m)
    <3>1. roster' = [roster EXCEPT ![x][x] = [status |-> "Left", incarnation |-> call.inc]]
      BY <2>3 DEF LeaveMark
    <3>2. CASE x = n
      <4>1. roster'[n] = [roster[n] EXCEPT ![n] = [status |-> "Left", incarnation |-> call.inc]]
        BY <2>1, <3>1, <3>2 DEF Types
      <4> QED BY <2>1, <4>1 DEF SaysLeft
    <3>3. CASE x # n
      BY <2>1, <3>1, <3>3 DEF Types
    <3> QED BY <3>2, <3>3
  <2>4. CASE roster' = roster
    BY <2>1, <2>4 DEF SaysLeft
  <2>5. ASSUME NEW x \in Node, NEW p \in Node, Join(x, p) PROVE roster' = roster
    BY <2>5 DEF Join
  <2>6. ASSUME NEW x \in Node, Reply(x) \/ LeaveBump(x) PROVE roster' = roster
    BY <2>6 DEF Reply, LeaveBump
  <2>7. ASSUME NEW x \in Node, NEW call \in calls[x], LeaveSend(x, call)
        PROVE  roster' = roster
    BY <2>7 DEF LeaveSend
  <2>8. ASSUME NEW x \in Node, Restart(x) PROVE FALSE
    BY <2>1, <2>8 DEF Restart
  <2> QED BY <2>2, <2>3, <2>4, <2>5, <2>6, <2>7, <2>8 DEF MemberNext, SaysLeft
<1> QED BY <1>1, MemberInvariantHolds, PTL DEF MemberSpec, LeftIsFinal

============================================================================
