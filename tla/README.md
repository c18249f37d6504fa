# A TLA+ development of nomad-rs

nomad-rs is a workload orchestrator in one Rust crate: a server keeps jobs,
nodes and allocations, turns every change of a job into an *evaluation*, and a
scheduler worker turns evaluations into allocations; a client runs the tasks of
an allocation; servers find each other by gossip. This directory models the
parts that keep state, checks them with TLC on small instances and proves the
most important invariants with TLAPS for every instance.

Paths are relative to the root of the repository (`src/src/...` is the crate).
`PROJECT.json` maps every definition to the lines it models.

## 1. Inventory

| component | state | operations | talks to |
|---|---|---|---|
| Evaluation broker, `eval_queue.rs` | `heap` ordered by priority and sequence number, `next_seq`, `in_flight` by eval id, `blocked` | `enqueue`, `dequeue`, `ack`, `nack`, `reap_expired`, `block`, `unblock_all`, `depth` | one mutex; called by the RPC endpoint and by the worker |
| Placement, `scheduler.rs`, `constraint.rs` | none | `process_eval`, `process_and_apply`, `drain_queue`, `desired_count` and what they call | reads the state store |
| Data model, `jobspec.rs`, `node.rs`, `alloc.rs`, `eval.rs` | records | `validate` | called by the endpoint and by the store |
| Server, `server.rs` | `status`, `shutdown` flag, the worker's `JoinHandle` | `run`, `stop`, the worker loop | takes the Raft mutex and the queue's mutex in turn |
| RPC endpoint, `rpc.rs` | none of its own | `JobRegister`, `JobDeregister`, `NodeRegister`, `EvalDequeue` | commits through Raft, then calls the broker |
| RPC server and client, `rpc.rs` | a task per connection | `serve`, `serve_conn`, `connect`, `call`, `read_frame`, `write_frame` | TCP |
| HTTP API, `api.rs` | a copy of the store | `handle` and its routes | |
| TLS, `tls.rs` | none | `validate`, `server_config`, `client_config` | three files, rustls |
| Consensus node, `raft.rs`, `fsm.rs`, `state.rs` | log, four tables, the saved file | `propose`, `apply`, upserts and deletes, `save`, `load` | single node: append is commit |
| Raft log store, `raft_log.rs` | `entries`, `base_index`; a log file and a snapshot file | `open`, `append`, `create_snapshot`, `install_snapshot`, `truncate`, `get`, `entries_from` | the file system |
| Alloc runner, `allocrunner.rs`, `taskrunner.rs`, `driver.rs` | client status; per task a state and a handle; the driver's table of children | `run`, `task_states`, `refresh_status`, `destroy`; `start`, `poll`, `stop`, `handle_exit` | child processes |
| Membership, `membership.rs` | roster with incarnations, incarnation counter | `join`, `leave`, the receive loop | UDP |
| Client state, `client_state.rs` | two SQLite tables | `put`, `get`, `list`, `delete` of allocs and task states | SQLite |
| Agent, `agent.rs`, `client.rs`, `main.rs`, `config.rs` | the configuration, three statuses, the signal handlers | `merge_env`, `merge_cli`, `validate`, `run`, `stop` | the server, signals |
| Periodic jobs, `periodic.rs` | none | `next` | the clock |
| Test clusters, `integration.rs` | a server, a client, an endpoint over a queue of its own | `build`, `register_job`, `dequeue_eval`, `shutdown` | the server, the broker |
| Deployments and policies, `deployment.rs`, `update.rs`, `drain.rs`, `reschedule.rs` | records | validators; only the restart policy has a user | the task runner |
| Job extensions, ACL, command line, observability | records | validation, parsing, formatting | |

What is hard to test in it:

* **Interleaving.** The Raft mutex and the queue's mutex are never held
  together. A handler commits and then enqueues or wakes; the worker plans,
  commits, looks at the job again, parks and acknowledges, each under a hold of
  its own. Everything may change in between.
* **Redelivery.** A delivery that is not acknowledged within `VISIBILITY` is
  put back by whoever calls `reap_expired`, while its holder may still work on
  it; the holder's later `ack` names only the eval id.
* **Restart of the worker.** `stop` sets a flag and aborts a task that can only
  end where it awaits; `run` clears the flag.
* **Crashes.** The log store does several file operations per method, and the
  process may end, or an operation fail, between any two of them.
* **Datagrams.** Rosters travel over UDP and are merged in whatever order they
  arrive; nodes restart with nothing remembered.
* **Processes.** Tasks exit on their own, cannot be started, cannot be killed;
  a restart gives up the only handle to a launch.
* **Connections.** A call has no request id and no timeout; its future may be
  dropped between the request and the answer.
* **Files.** A TLS configuration is read from three files that are replaced one
  by one; a deletion in the local database is two statements.
* **Signals** arrive before, while and after their handlers are installed.
* **Numbers.** Resources are `i32`, and a release build wraps.

`PROJECT.json` lists each hazard at its line with the properties aimed at it.

## 2. Modules

| module | models | state and actions |
|---|---|---|
| `EvalQueue` | `eval_queue.rs` | one action per method; the heap is a set, its order is `Before`; time is a small age per delivery |
| `EvalQueueHistory` | | the same with *tickets*: one per admission, followed through every re-queue |
| `PriorityBroker` | | abstract: one first-in-first-out lane per priority, deliveries with a count, parked evals; no sequence numbers, no time |
| `BrokerRefinement` | | `EvalQueue` implements `PriorityBroker` |
| `EvalQueueProofs` | | theorems about `EvalQueueHistory`, and that it implements `PriorityBroker` |
| `Constraints` | `constraint.rs` | operators only: whether a node's attributes satisfy a constraint or an affinity |
| `DataModel` | `jobspec.rs`, `node.rs`, `alloc.rs`, `eval.rs` | operators only: which jobs, nodes, allocations and evaluations `validate` accepts |
| `Scheduler` | `scheduler.rs` | EXTENDS `Constraints` and `DataModel`; operators only: demand, free capacity, scores, `ProcessEval`, `DesiredCount` |
| `Placement` | `scheduler.rs`, `rpc.rs`, `state.rs` | registrations, accepted or refused, and `DrainQueue`, against a declarative reference |
| `SchedulerProofs` | | sums, wrap-around, what a plan consists of and what it achieves |
| `PlacementProofs` | | theorems about `Placement`; uses `SchedulerProofs` |
| `Server` | `server.rs`, `rpc.rs`, `state.rs` | EXTENDS `EvalQueue` and `Scheduler`; one action per critical section |
| `ServerProofs` | | theorems about `Server`; uses `SchedulerProofs` |
| `RaftNode` | `raft.rs`, `fsm.rs`, `state.rs` | propose, accepted or refused; save, whole or cut off; load |
| `RaftLog` | `raft_log.rs` | one action per stretch between file operations; crash and failure after each |
| `RaftLogProofs` | | theorems about `RaftLog` |
| `Api` | `api.rs` | EXTENDS `RaftNode`; making the API from the store of the moment, and `Handle` as an operator |
| `RpcWire` | `rpc.rs` | client, server task and the stream between them, a part of a frame at a time |
| `Tls` | `tls.rs` | the look at the paths, the three reads, and files replaced in between |
| `Periodic` | `periodic.rs` | `next`, and the clock |
| `Cluster` | `integration.rs` | `build`, `register_job`, `dequeue_eval`, `shutdown`, the server's worker |
| `FrontEndProofs` | | theorems about `Api` with `RaftNode`, `RpcWire`, `Tls`, `Periodic` and `Cluster` |
| `AllocRunner` | `allocrunner.rs`, `taskrunner.rs`, `driver.rs` | the alloc runner's methods, process exits |
| `TaskRunner` | `taskrunner.rs`, `reschedule.rs` | EXTENDS `AllocRunner`; `start`, `poll`, `stop`, `handle_exit` in any order; of a restart policy it keeps the attempts |
| `ClientState` | `client_state.rs` | one action per SQL statement, on several connections |
| `Agent` | `agent.rs`, `client.rs`, `main.rs`, `config.rs` | `Main`, `RunAgent`, one `Register` per handler, `Deliver`, `Shutdown`, `StopAgent`, and the steps of every run's worker |
| `Membership` | `membership.rs` | join, receive, reply, the three steps of leave, restart |
| `AgentProofs` | | theorems about `ClientState`, `Agent`, `AllocRunner`, `TaskRunner` and `Membership` |
| `Induction` | | induction over the natural numbers, for the proofs |
| `MC...` | | constants for TLC; `MCFrontEnds` and `MCClient` put components side by side that share no state |

A definition headed *Faulty variant* is a plausible wrong version of the one it
precedes. Nothing uses it; it shows, when put in place of the right one (the
`mutants` of `PROJECT.json`), that the property named there can fail.

### How the models correspond to the code

**EvalQueue.** `PendingEval` keeps `seq`, the eval and `dequeues`; `dequeued_at`
becomes `age`, which `Tick` lets grow up to `VISIBILITY`, where the delivery has expired. `reap_expired`
collects the expired ids from a `HashMap`, so they get their new sequence
numbers in any order (`Orders`). `depth` and the single counters only read; the
constructor and mutex poisoning have no action.

**Constraints and Scheduler.** Attribute names and values are only compared;
what their characters mean to number parsing, to `split(',')` and to the `regex`
and `semver` crates is the constant `Text`. The two `satisfied_by` functions of
the code are one operator. A node has the fields `node_eligible` reads. Scores are exact fractions, the code's are `f64`. Node order is the
iteration order of a `HashMap`: any order. Sums and differences wrap:
`Half` is half the values of an `i32`. `Demand`, `Holding` and `TotalCount` are the
true sums that properties and proofs hold them against.

**DataModel and Placement.** `ValidJob`, `ValidNode`, `ValidAllocation` and
`ValidEvaluation` are the `validate` methods; names and texts are only looked at
for being empty. A registration stores what is valid and changes nothing
otherwise. `DrainQueue` is one iteration of `drain_queue`: dequeue, plan, apply
up to the first refused allocation, park or not, acknowledge.

**Server.** A handler is one action up to the end of its commit and another for
the queue call. A worker has the positions sleep, top, reap, dequeue, plan,
commit, check, block, ack. `Server::new` makes a single-node leader and no code
changes its role, so `NotLeader` is never answered; the store accepts every
allocation, so the worker's `nack` branch is never taken. `aborted` holds the
workers whose handle `stop` aborted: they end where they await next.

**RaftLog.** `entries` and `base_index` are memory; `log_file` the whole lines
of the log file, `damaged` whether it ends in half a line, `snap` the index the
snapshot file covers. `create_snapshot` and `install_snapshot` stop at the
rename; `Compact` does the rest, `CompactFail` and `CompactCrash` are what may
happen instead. `truncate` stops once the file is empty; `RewriteLine` writes
back one line at a time. A write that loses only its line feed is left out.

**RaftNode.** The state machine is what the log replays to (`Replay`, prefix by prefix); `propose` appends,
applies and takes the entry off again when the command was refused. `validate`
is membership in the constant `Valid`. `save` writes its file in place: it ends
up whole, or torn with the process gone. `load` returns a store that nothing in
the crate takes over, so it is an operator (`Loads`) and not an action.

**Api.** `HttpApi::new` takes a `StateStore` by value, so `NewApi` copies the
state; `Handle` is the routing with the handlers, a function of that copy and the
request. A job name is a sequence of units of which one stands for the text
`/v1/job/`, because `trim_start_matches` takes that off repeatedly (`TrimPrefix`).

**RpcWire.** A frame is three units, two of them its length, so that a stream can
end, or a call be dropped, inside the length and inside the body. A dropped call
leaves what it wrote on the stream. `serve_conn` is `Serve`, `Answer` and the ways
it ends; `serve` is `Accept` and `ServeFails`.

**Tls.** `Begin` is the look at the three paths, `LoadCerts`, `LoadPrivateKey` and
`LoadCa` are the reads in the order of the code, `Replace` is anybody who writes a
file between them. `RustlsAccepts` is external.

**Periodic.** A cron schedule is the set of instants it fires at. `next` asks the
iterator that starts at the present, and filters it by its argument.

**Cluster.** The endpoint of a test cluster works on the queue given to the
builder, the server on its own; both queues are kept, and so is the worker that
empties the second one.

**AllocRunner.** Each launch of a task is a process with an identity. The
driver's map from handle to `Child` is kept per task. `Unkillable` tasks make
`stop_task` fail after it removed the `Child`. `Stopped` is the loop that stops tasks
one after the other; the roll-back of `run` and `destroy` both use it.

**TaskRunner.** The same driver and processes with one task, whose methods a caller
uses in any order; `misused` notes a `handle_exit` for an end that was not seen.

**ClientState.** One action per SQL statement, since each is a transaction.
Statuses are written as text and parsed when read. SQLite is external: its primary
and foreign keys are guards.

**Agent.** `Main` merges the three sources and validates the result; a file with a
setting the configuration does not have is refused, as `deny_unknown_fields` does; `run` installs
its three handlers one by one, and signals arrive in between. Client and server are
their statuses. Every run that starts something makes a new server with a worker of
its own, so `worker` is a sequence, and `WorkerStep` moves each through its lap: the
look at the flag, the work, the sleep. `Agent::stop` does not end a worker; it marks
it `cancelled` (the flag of its server and the abort), and the worker ends when it
looks at the flag or sleeps, which may be after the next `run`. The work of a lap is
the subject of `Server`.

**Membership.** `net` is a set of datagrams; one that is received may stay in
it (duplication), one that is never received is lost. `leave` is three steps:
`fetch_add`, marking under the lock, sending a roster read anew.

## 3. Runs

Passing runs:

| run | what it shows | instance |
|---|---|---|
| `eval_queue` | one admission is delivered at most `MAX_DEQUEUE` times, in priority and arrival order, and is never lost or duplicated; the queue implements the abstract broker step by step | 3 evals on 2 priorities, 4 sequence numbers, 2 parked |
| `placement` | placements fit by the true sums, evaluation after evaluation, respect eligibility and constraints, leave nothing out that had room, and are never refused by the store; `drain_queue` parks exactly what had no room at all | 2 nodes and an unnamed one, 6 node records, at most 2 allocations, jobs with at most 2 of 8 groups or one of 7 invalid ones, 2 evaluations |
| `server_steady` | with handlers and the worker interleaved at every lock, no node is overbooked, no eval forgotten, no committed allocation changed | 1 job with 1 or 2 instances, 2 nodes, 2 connections, 4 requests, 1 remote dequeue |
| `server_restart` | with `stop` and `run` at any time, an eval planned twice is placed once, leftover workers end, every eval is decided | 1 job, 1 node, 2 workers, 2 requests |
| `raft_log` | which faults the log survives with its indices and its acknowledged commands, and what `entries_from` gives to a reader that catches up | 2 commands, 3 indices, 2 faults of 4 kinds |
| `front_ends` | the log replays to the present state, and a file written whole loads into the state it was saved from; the answers of one HTTP API are true of one moment; a call gets its own answer, is handled at most once, and ends; a TLS configuration never mixes two renewals; launch times follow the schedule; what a test registers it dequeues; settings take their precedence, an agent's status is that of its parts and of the workers it has not cancelled, a signal is not lost | 2 keys, 4 tables and 3 commands; 1 connection with 3 calls; 2 generations of files; the clock to 6; 2 clusters, 3 jobs on 2 priorities; 1 setting in any mix of file, environment and flags; 3 calls of `run` |
| `client` | a Complete allocation is clean, processes stay reachable, a failed first run leaves none; a task is launched no more often than its policy allows, and a stop is final; the database recovers what was written; joins and leaves are reflected once delivered, and a member that left stays left | 3 tasks, 1 of them unkillable, 6 launches, 0 to 2 restarts; 2 allocations, 2 connections; 3 nodes, 3 calls of join, leave or restart |

Runs that show a disagreement between the code and its own documentation; each
is a finding in `PROJECT.json`:

| run | what TLC finds |
|---|---|
| `server_lost_wakeup` | a node registers between the worker's plan and its `block`; `unblock_all` finds nothing parked, and the eval stays parked although it would fit |
| `server_cleanup` | the job is deleted before its cleanup eval is processed; the worker finds nothing to do, and the allocations stay live |
| `raft_log_compaction` | a crash between the rename of the snapshot and the emptying of the log file: `open` loads compacted entries behind the new `base_index` |
| `membership_restart` | a node that left and is started again begins at incarnation 0, and its peers keep it as Left |
| `periodic_late` | `next` is called when its argument has passed; it answers with a firing after the clock and leaves out those between the argument and the clock |

Where a property of a passing run has an exception, the exception is real and
is the boundary of what the code guarantees: `IndexMatches` and `AckedKept`
name the faults the log store does not survive (a cut-off compaction, a rewrite
cut off or failed); `NoOversubscription` is checked for a server that is
started once, since a worker that `stop` left over plans beside the next one
against the same free capacity; `FirstRunRollsBack` speaks of the first `run`,
since a second one fails at its first task and rolls back nothing; `PlanFits`,
`PlanMaximal` and `ParkedIsHopeless` speak of clusters where no `i32` overflows
(`NothingWraps`), since a demand that wraps fits everywhere, and `NoOversubscription`
also of nodes that keep their resources when they register again (`SteadySizes`);
`OwnAnswer` speaks of connections on which no call was dropped half way, since a
dropped call leaves its answer to the next one; `NothingOrphaned` and `StopIsFinal`
speak of a `handle_exit` that is called for an end that was seen, since any other
drops the handle of a live process or restarts a stopped task;
`AnswersOfOneMoment` leaves out job names that begin with `/v1/job/`, which
the route cannot find.

### Bounds

* `MaxSeq` bounds the sequence numbers. With `MAX_DEQUEUE` = 3, as in the code,
  one admission uses three of them until it is dropped; the fourth leaves room
  for an admission that overtakes or is overtaken. In the server's runs it is
  larger than the requests can use up.
* `MaxBlocked` bounds the parked list; in `server_restart` no behaviour reaches
  it, so that it does not make a liveness property true or false.
* `VISIBILITY` = 1: a delivery is young or expired.
* Four requests are enough for a job, two nodes and one more change;
  three are enough for the races the violation runs show.
* Three commands are enough to insert, replace or delete, and insert again
  between two saves; two evaluations for one to meet what the other placed.
* Two faults let a second one meet the state the first one left.
* Three calls and three nodes let news travel by way of a third node.
* Three calls on a connection: one dropped, one that meets what it left, one after
  that. Connections share nothing but the listener.
* Two restarts and six launches let a policy run out while the bound does not.
* Two connections on a database let one fall between the statements of another.
* The settings are independent of each other, so one is given at a time; what runs
  after `main` does not depend on them, so the agent's part starts from the defaults.
* Three runs of an agent let the workers of two stopped servers outlive them beside
  a third.
* Members are interchangeable and get a symmetry set, in runs without liveness
  properties.

### Fairness

`server_restart` assumes weak fairness of each worker's step and of the second
half of each handler. The worker is a tokio task: it is polled while it is
runnable, the timer wakes it, and no lock is held across an await. A handler
goes from its commit to its queue call without anything that could block for
ever. No request, no `run`, no `stop` and no passing of time is assumed.

`front_ends` assumes weak fairness of the two ends of a connection and of `accept`:
they are tokio tasks, polled when a read or a write can go on, and TCP delivers
what was written or reports the end of the stream. That a caller calls, drops or
hangs up is not assumed. For the agent it assumes weak fairness of `Register` and
`Shutdown`: nothing in `Agent::run` blocks but the wait for a signal, and a signal
makes that ready.

## 4. Proofs

`EvalQueueProofs` proves, for every set of evals, priorities, limit and
visibility, that `HTypeOK` (`TypesHold`), `DeliveryCap`, `Conservation`
and `NoOvertaking` are invariants of `HSpec`. None is inductive
alone. The invariant `HInv` adds what ties queue and history together: sequence
numbers on the heap and in flight are distinct and below `next_seq`; `origin` sends
each to a live ticket, and no two to the same one; the count an entry carries is
the number of times its ticket was handed out (one less on the heap's side of a
delivery); a ticket that was never handed out is on the heap under its own number.
`NoOvertaking` then follows because `dequeue` takes a maximum of `Before`.

It also proves that the queue implements `PriorityBroker` (`ImplementsBrokerHolds`),
action by action under `HInv`. A lane of `BrokerRefinement` is a walk over the
sequence numbers, so what it holds is shown by induction on them: two heaps that
agree below a number have the same lane up to it (`LanesAgree`); an entry with a new
number joins the tail of its lane (`LaneAppends`), and so, one after the other, do the
entries that `unblock_all`, `nack` and `reap_expired` put back (`EntriesJoin`); the
entry with the least number of its priority is the head (`LaneHead`), which is the one
`dequeue` pops. `enqueue` is `Put`, `dequeue` is `Take`, `ack` is `Settle`, `nack` and
`reap_expired` are `Return`, `block` is `Park`, `unblock_all` is `Wake`, and time
passes unseen.

`RaftLogProofs` proves `TypeOK` (`TypesHold`), `IndexMatches`, `AckedKept`,
`BrokenOnlyByTear` and `CatchesUp` for every set of commands and any bounds. The
invariant `LogInv` says, phase by phase, how memory, log file and snapshot belong
together while no harmful fault has happened (`Coherent`): equal contents when
the store is ready; the file one prefix behind in a rewrite; the file ahead of
the snapshot in a compaction. The file is needed because `open` forgets memory,
the phases because the files disagree inside a method.

`AgentProofs` proves `RecoversAllocs` and `TaskStatesBelong` of `DbSpec` for
any number of connections, allocations and tasks. The invariant `DbInv` has two
parts: `AllocRows`, every row is the text of what was upserted last, from which the
result follows by the lemma `RoundTrip` (parsing undoes writing, status by status);
and `TaskRows`, every task row has its allocation and the reported state.

It proves `LaunchesBounded`, `NothingOrphaned` and `StopIsFinal` of
`TaskSpec` for every restart policy, any number of launches, and a task that can or
cannot be killed. The invariant `TaskInv` has the types; `Paid`, every launch but
the first was paid for with a restart, and without a handle the next one already
is; and, unless `handle_exit` was misused, `Tracked`, the driver holds at most the
launch that the handle names, and `Held`, a stopped task stays Exited under its
handle, which is what keeps `start` from launching it again.

It proves `CompleteIsClean`, `FirstRunRollsBack` and `Reachable` of
`RunnerSpec` for any number of tasks. `RunnerInv` says that a launch belongs to one
task (`Owned`), that what lives and can be killed is in its driver's table under the
handle of a task that counts as running (`Watched`), and that an allocation without a
failure has no task that exited non-zero (`Unfailed`). `run` and `destroy` are loops
over the tasks, written as recursive functions; what holds after `n` tasks is proved
by induction on `n`.

`ServerProofs` proves `NothingForgotten` and `AllocsNeverMove` of `SteadySpec`, a
server that is started once, for any jobs, nodes, connections and interleaving at the
locks. `ServerInv` has `OneWorker`, there is one worker; `OnePlace`, an eval is with
its handler, on the heap, parked or delivered, one that has placements waits nowhere,
and only while the worker is about to acknowledge it may a delivered one wait or have
placements; and `Remembered`, an eval that was issued is safe without its delivery or
the worker is still at it. `AllocsNeverMove` follows from `OnePlace`: what the worker
commits is for an eval that has no allocation yet. With `stop` and a second `run`
this is no longer so (two workers may hold one eval), which is why these theorems are
about `SteadySpec`.

`PlacedOnce` it proves of `Spec`, with any number of workers, stops and starts, and of
the true total `TotalCount`, not of `desired_count`, which wraps. Two workers may plan
one eval from different states and commit one after the other; what saves the bound is
that an allocation's id is the eval and its position in the plan, so the plans overwrite
each other. `BoundInv` says so: what was committed for an eval has the first `k`
positions of a plan, for a `k` that some registration of its job asked for, and so has
every plan that is still to be committed.

`NoOversubscription` it proves of `SteadySpec` under the hypothesis `SteadySizes`: no
group's demand overflows, and a node that registers again has the resources it had.
The worker plans under one hold of the Raft lock and commits under another, and in
between nodes register again, to drain or to come back, and jobs come and go. `LoadInv`
adds to the property what carries it across that gap: a plan that is computed and not
committed is still `Affordable`, its nodes have room for the whole of it beside what
they hold. That is so because the one worker is the only one that adds allocations;
with a second one (`OneWorker` fails after `stop` and `run`), or a node that comes back
smaller, it is false. `Stocked` has the types of what is in the store.

`SchedulerProofs` has what these proofs need of `process_eval`:

* What a plan consists of. `find` and the sort return one of the candidates
  (`PickFinds`); one more instance adds at most one placement, for that group and on an
  eligible node that is listed (`PlaceOneAdds`); hence, by induction over the instances
  (`PlaceGroupAdds`) and the groups (`PlanFacts`), a plan consists of placements for
  the job's groups on registered nodes and is no longer than the counts of the groups
  together.
* Sums over finite sets, which the model takes with the folds of the community modules.
  `FoldExists` shows that the fold is the function that its recursion describes, by
  induction over the subsets of a finite set; `SumTake`, that it does not matter which
  member is taken first. The rest follows: sums that agree, grow, are bounded, or are
  joined of two.
* Wrap-around. `WrapTurns`: adding a whole turn changes nothing. `WrapLate`: so wrapping
  at every step and wrapping once at the end are the same. Hence `desired_count`, the
  demand of a group and the free capacity of a node are the wraps of the true sums
  (`DesiredIsTotal`, `DemandIsSum`, `FreeIsDifference`), whatever the numbers, and the
  true sums themselves where those are in range (`DemandExact`, `DesiredExact`,
  `BooksSound`).
* What a plan achieves. While it is made, the running free capacity is exactly what the
  allocations and the plan leave, and no node that was placed on is overdrawn
  (`Tight`). By induction over instances and groups, each group gets no more than its
  count, and fewer only if no node is a candidate for it any longer, which it then stays
  (`NoneStaysNone`, `PlanAchieves`). `AfterPlan` reads this off the store once the plan
  is applied.

`PlacementProofs` proves `AcceptedStaysAccepted` for every job and node that may be
registered, valid or not. `AcceptInv`: what is in the store passed `validate`, and
nothing was refused so far. A placement then has a group name, a job and a node id that
are not empty, because the job and the node have them, and that is all
`Allocation::validate` asks for.

It proves `PlanFits`, `PlanMaximal` and `ParkedIsHopeless` under the hypothesis
`NothingWraps`, for any nodes, jobs, orders of the nodes, scores and number of
evaluations. The three are inductive together with `AcceptInv`, which makes demands
non-negative; `StoreInv`, what the store holds is made of what was registered;
`RoomInv`, what is left of a node is an `i32`, so that `process_eval` starts from the
true room, also on a node that was overbooked before it registered; and `WaitingInv`, an
evaluation waits in one place, has no placement while it does, and is not among those
processed lately. The last is needed because an evaluation that a new node woke up is
planned again under the same ids. That a later evaluation does not undo what
`PlanMaximal` and `ParkedIsHopeless` say of an earlier one is because room only shrinks
until the next node registers (`DrainTakes`), and then nothing is parked.

`AgentProofs` proves `JoinIsSeen`, `LeaveIsSeen` and `LeftIsFinal` for any number
of nodes and calls and any loss, duplication and reordering of datagrams. `MemberInv`
has `Claims`, in rosters and datagrams only a departure has an incarnation above 0,
so that it supersedes every other claim, and a departure is marked before it is sent;
`LeavesSpread` and `JoinsSpread`, an announcement is on its way or has been merged,
which with nothing under way is the property; and `FirstHand`, while no node was
started again a member is said to have left only if it says so itself. Without that
condition `JoinIsSeen` is false, which is the finding of `membership_restart`.

`FrontEndProofs` has five invariants, one for each component it is about:

* `NodeInv` of the consensus node with its HTTP API: the log is typed, everything in
  the store passed `validate`, the log replays to the state, the saved file is that
  of a prefix, and the API holds the state of a prefix. That appending and taking off
  an entry leaves the replay of the earlier ones alone is an induction over the log,
  as is that every prefix replays into a valid store. `Replayable`, `SavedLoads` and
  `AnswersOfOneMoment` follow.
* `WireInv` of the connections gives `OwnAnswer`: units on a stream are ordered
  (`Ordered`), what was handled was answered or is being answered in that order
  (`Answered`), and on a connection without a dropped call client and server take
  turns (`Turns`), so the stream holds nothing but the one request or its answer.
* `TlsInv` gives `BuiltIsCoherent`: what was read so far is still what the files
  hold, as long as none was replaced.
* `PeriodicInv` gives `FollowsSchedule`; it only adds types. `NextAfterArgument`, which
  the documentation of `next` promises, is false, and the run `periodic_late` shows it.
* `ClusterInv` gives `RegisteredIsDequeued`: an evaluation waits in at most one queue,
  and there once, and what was taken is waiting nowhere.

`AgentProofs` also proves `Precedence` and `StatusOfAll` of `AgentSpec`, for all
texts of the three sources. `MainInv` adds to `Precedence` how the ways out of `main`
are told apart. `StatusInv` is `StatusOfAll` with the types: a stop cancels the last
run's worker and no other, since the earlier ones were cancelled by the stops between
the runs, and only a cancelled worker ends. What it does not say, and what is not so,
is that a stopped agent has no worker at work; that one ends in time is `LeftoversEnd`
of `Server`.

`Induction` has the principle that the inductions rest on, with the property as a
*set* of numbers: a set that holds 0 and with every number the next one holds them
all. The library's principle has an operator in its place, which the installed
provers cannot instantiate. The proof takes the least counterexample, which exists
since `<` is well-founded on the naturals.
`RecursionExists` is what makes a recursive function usable: for a step that stays in
a set there is a function on `0 .. n` that starts at the base and follows the step, so
the function that the definition chooses does.

Assumptions are those named in `EvalQueue`, `RaftLog`, `ClientState`, `AllocRunner`,
`TaskRunner`, `Membership`, `Scheduler`, `Placement`, `Server`, `RaftNode`, `Api`, `RpcWire`, `Tls`,
`Periodic` and `Cluster` about their constants: the kinds of the bounds, that markers
such as `NoEval` or `Missing` are not values, that `Valid` bodies are bodies, that a
key is a sequence and not empty, that there are finitely many nodes and that the count
of a task group is a number, and that resources are `i32`s, in the server's jobs not
negative, which is what `validate` refuses. TLC evaluates each of them in a run.

`NothingWraps` and `SteadySizes` are hypotheses of the theorems that name them and not
assumptions of the model, because nothing in the code sees to them; `MCPlacement` and
`MCServer` assume them of their instances, so TLC evaluates them there. `NothingWraps`
still allows a node that the allocations of earlier schedulers overbook; it excludes
only what overflows.

Model-checked only: liveness under fairness (`LeftoversEnd`, `EveryEvalDecided`,
`CallEnds`, `SignalEnds`), which is out of the prover's reach. Every other property of
the passing runs is stated by a theorem.

## 5. Not modelled

Deployments, update strategies, drain specifications, the reschedule policy, the
validation of the restart policy (`with_restart_policy` takes any) and the
job extensions are records with validators that nothing calls and that keep no
state: a model would repeat their conditions. Access control and the command line
are pure matches that nothing in the server calls. Logging, metrics and
fingerprinting are output. The `raw_exec` and `docker` drivers and the `Scheduler`
struct are stubs. Of the regular expressions, the versions and the cron syntax only
the outcome is kept. Floating-point rounding of scores is left out.

Known limits of the code that no property states, because nothing in the repository
promises otherwise:

* `EvalDequeue` hands an evaluation out, and no request acknowledges it
  (`rpc.rs:169`): it comes back when it expires, until the cap drops it.
* A node may become ineligible or smaller between plan and commit, and the placement
  is committed all the same (`server.rs:77`).
* An evaluation that placed some of its instances is acknowledged like one that
  placed all (`server.rs:85`); the rest waits for the next evaluation of the job.
* A demand that wraps in `i32` becomes negative and fits everywhere
  (`scheduler.rs:175`); the model would do the same, and `Half` = 128 with
  values this small keeps it from it (`NothingWraps`, `SteadySizes`).
* `last_term` is 0 once the whole log was compacted (`raft_log.rs:177`).
* A peer that the leaving node learns of after it collected its targets is not told
  (`membership.rs:236`).
* `save` writes in place (`state.rs:165`): a crash leaves half a file, and what was
  saved before is gone. `RaftNode` has this step (`SaveCrash`).
* One failed `accept` ends `serve` (`rpc.rs`), and running connections go on without
  a listener.

Seen while modelling, without a run of its own: `read_frame` takes a stream that
ends inside a length for one that ends between frames; SIGHUP stops the agent,
whereas `config.rs:83` speaks of a reload; the "Shared cluster state" of `api.rs`
is a copy; a job's datacenters and a node's driver health do not influence
placement; `taskrunner.rs:16` says other drivers "fall through to exec" and `start`
refuses them; `task_states` is written and never read back; the time zone and
`prohibit_overlap` of a periodic job are unused; the endpoint of a test cluster has
a Raft node and a queue of its own, so the cluster's server never sees the jobs.

## 6. Plan

1. Done: the broker with its abstract specification; the data model and placement;
   the server; the log store; the consensus node with the HTTP API; the RPC
   connections; TLS; periodic jobs; test clusters; the alloc runner; the task runner and
   the client database; the agent; membership. All with proofs.
2. Done: every invariant and action property of the passing runs as a theorem.
3. When they are written in the code: remote acknowledgement, reconciliation with
   deployments and drain, and a client that connects database, runners and server.
