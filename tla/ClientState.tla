---------------------------- MODULE ClientState ----------------------------
(***************************************************************************)
(* The client's local database (src/src/client_state.rs): two SQLite       *)
(* tables, a foreign key from the second to the first, and connections     *)
(* that each run one statement at a time.                                  *)
(*                                                                         *)
(* Every execute() is a transaction of its own: it happens whole and stays *)
(* after a crash, or it fails and changes nothing.  delete_alloc runs two. *)
(* SQLite is external: it keeps the primary keys and, on a connection that *)
(* was opened with the pragma, refuses a statement that would leave a task *)
(* row without its allocation.                                             *)
(*                                                                         *)
(* An allocation is its two statuses and the rest of its columns as one    *)
(* value; statuses are written as text and parsed when they are read.  A   *)
(* task's restart_count is written beside its state and left out.          *)
(***************************************************************************)
EXTENDS FiniteSets

CONSTANTS
  Connection,  \* ClientState values open on the file
  AllocId,
  TaskName,
  Rest,        \* ids, group and resources of an allocation, written as they are
  NoDelete

ASSUME DbAssumption == NoDelete \notin AllocId

VARIABLES
  allocations,  \* rows by alloc id
  task_states,  \* rows by <<alloc id, task name>>
  deleting,     \* the alloc whose delete_alloc a connection is half way through
  upserted,     \* history: what the last upsert_alloc of an alloc was given, until a
                \* delete_alloc of it returns Ok
  reported      \* history: what set_task_state last wrote for a task, until a
                \* delete_alloc of its alloc is begun

dbVars == <<allocations, task_states, deleting, upserted, reported>>

DesiredStatus == {"Run", "Stop", "Evict"}
AllocStatus == {"Pending", "Running", "Complete", "Failed", "Lost"}
TaskStatus == {"Pending", "Running", "Exited", "Failed", "Unknown"}

Allocation == [desired_status : DesiredStatus, client_status : AllocStatus, rest : Rest]

----------------------------------------------------------------------------
(* Text.                                                                   *)

\* DesiredStatus::as_str
DesiredText ==
  [s \in DesiredStatus |->
     CASE s = "Run" -> "run" [] s = "Stop" -> "stop" [] s = "Evict" -> "evict"]

\* ClientStatus::as_str
ClientText ==
  [s \in AllocStatus |->
     CASE s = "Pending" -> "pending" [] s = "Running" -> "running"
       [] s = "Complete" -> "complete" [] s = "Failed" -> "failed" [] s = "Lost" -> "lost"]

\* The match of set_task_state.
TaskText ==
  [s \in TaskStatus |->
     CASE s = "Pending" -> "pending" [] s = "Running" -> "running"
       [] s = "Exited" -> "exited" [] s = "Failed" -> "failed" [] s = "Unknown" -> "unknown"]

\* parse_desired_status
ParseDesiredStatus(s) ==
  CASE s = "stop" -> "Stop" [] s = "evict" -> "Evict" [] OTHER -> "Run"

\* Faulty variant: a status that was added later falls through to the default.
ParseWithoutLost(s) ==
  CASE s = "running" -> "Running" [] s = "complete" -> "Complete"
    [] s = "failed" -> "Failed" [] OTHER -> "Pending"

\* parse_client_status
ParseClientStatus(s) ==
  CASE s = "running" -> "Running" [] s = "complete" -> "Complete"
    [] s = "failed" -> "Failed" [] s = "lost" -> "Lost" [] OTHER -> "Pending"

Row(a) ==
  [desired_status |-> DesiredText[a.desired_status],
   client_status |-> ClientText[a.client_status], rest |-> a.rest]

\* list_allocs(), by alloc id.
ListAllocs ==
  [id \in DOMAIN allocations |->
     [desired_status |-> ParseDesiredStatus(allocations[id].desired_status),
      client_status |-> ParseClientStatus(allocations[id].client_status),
      rest |-> allocations[id].rest]]

----------------------------------------------------------------------------
(* Statements.                                                             *)

NoRow == [k \in {} |-> {}]

\* INSERT ... ON CONFLICT DO UPDATE
Put(table, k, row) == [x \in DOMAIN table \cup {k} |-> IF x = k THEN row ELSE table[x]]

\* DELETE ... WHERE the key is one of keys
DeleteFrom(table, keys) == [x \in DOMAIN table \ keys |-> table[x]]

TaskRowsOf(id) == {k \in DOMAIN task_states : k[1] = id}

\* Faulty variant: the connection was opened without the pragma.
UnenforcedReference(id) == FALSE

\* PRAGMA foreign_keys = ON: whether some task row refers to the alloc.
Referenced(id) == TaskRowsOf(id) # {}

----------------------------------------------------------------------------
(* Operations.                                                             *)

\* The tables were created by the first open().
DbInit ==
  /\ allocations = NoRow
  /\ task_states = NoRow
  /\ deleting = [c \in Connection |-> NoDelete]
  /\ upserted = NoRow
  /\ reported = NoRow

UpsertAlloc(c, id, a) ==
  /\ deleting[c] = NoDelete
  /\ allocations' = Put(allocations, id, Row(a))
  /\ upserted' = Put(upserted, id, a)
  /\ UNCHANGED <<task_states, deleting, reported>>

\* Without the allocation the foreign key refuses the row.
SetTaskState(c, id, task, s) ==
  /\ deleting[c] = NoDelete
  /\ id \in DOMAIN allocations
  /\ task_states' = Put(task_states, <<id, task>>, TaskText[s])
  /\ reported' = Put(reported, <<id, task>>, s)
  /\ UNCHANGED <<allocations, deleting, upserted>>

\* delete_alloc(), its first statement.
DeleteTaskStates(c, id) ==
  /\ deleting[c] = NoDelete
  /\ task_states' = DeleteFrom(task_states, TaskRowsOf(id))
  /\ reported' = DeleteFrom(reported, {k \in DOMAIN reported : k[1] = id})
  /\ deleting' = [deleting EXCEPT ![c] = id]
  /\ UNCHANGED <<allocations, upserted>>

\* Its second, which returns Ok.
DeleteAllocation(c) ==
  /\ deleting[c] # NoDelete
  /\ ~Referenced(deleting[c])
  /\ allocations' = DeleteFrom(allocations, {deleting[c]})
  /\ upserted' = DeleteFrom(upserted, {deleting[c]})
  /\ deleting' = [deleting EXCEPT ![c] = NoDelete]
  /\ UNCHANGED <<task_states, reported>>

\* Its second fails, on the foreign key, a lock or the disk, or the process
\* that holds the connection ends before it; another one opens the file.
DeleteCutShort(c) ==
  /\ deleting[c] # NoDelete
  /\ deleting' = [deleting EXCEPT ![c] = NoDelete]
  /\ UNCHANGED <<allocations, task_states, upserted, reported>>

DbNext ==
  \E c \in Connection :
    \/ \E id \in AllocId :
         \/ \E a \in Allocation : UpsertAlloc(c, id, a)
         \/ \E task \in TaskName, s \in TaskStatus : SetTaskState(c, id, task, s)
         \/ DeleteTaskStates(c, id)
    \/ DeleteAllocation(c) \/ DeleteCutShort(c)

\* The database by itself.
DbSpec == DbInit /\ [][DbNext]_dbVars

----------------------------------------------------------------------------
(* Properties.                                                             *)

\* "so that the client agent can recover after a restart": whatever another
\* connection does between the statements of a delete, and wherever a delete
\* is cut short, list_allocs returns just the allocations that were upserted
\* and not deleted since, each as it was given to the last upsert.
RecoversAllocs == ListAllocs = upserted

\* "Remove all state for a completed allocation": the two statements of a
\* delete leave no row for a task whose allocation is gone, also when a task
\* state was reported between them; and a task keeps the state that was
\* reported last unless a delete of its allocation was begun after it.
TaskStatesBelong ==
  /\ \A k \in DOMAIN task_states : k[1] \in DOMAIN allocations
  /\ DOMAIN task_states = DOMAIN reported
  /\ \A k \in DOMAIN reported : task_states[k] = TaskText[reported[k]]

============================================================================
