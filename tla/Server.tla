------------------------------- MODULE Server -------------------------------
(***************************************************************************)
(* The server of src/src/server.rs: the RPC endpoint (rpc.rs), the         *)
(* scheduler workers and the lifecycle methods run and stop, around the    *)
(* evaluation broker (EvalQueue) and the cluster state that RaftNode       *)
(* (raft.rs) commits to (fsm.rs, state.rs).                                *)
(*                                                                         *)
(* The Raft mutex and the queue mutex are never held together, so every    *)
(* critical section is one action, and handlers and workers interleave     *)
(* between them:                                                           *)
(*                                                                         *)
(*   caller  JobRegister, JobDeregister  commit, then enqueue an eval      *)
(*           NodeRegister                commit, then unblock_all          *)
(*           EvalDequeue                 dequeue; there is no RPC to ack   *)
(*   worker  sleep, top (shutdown?), reap, dequeue, plan, commit,          *)
(*           check (desired_count), block, ack, and back to top            *)
(*                                                                         *)
(* Server::new bootstraps a single-node leader and no code changes a       *)
(* role, so is_leader is always true and NotLeader never returned; the     *)
(* in-memory store accepts every allocation process_eval makes (its ids    *)
(* and names are validated on entry), so the worker's nack branch is dead. *)
(* Requests that fail validation change nothing and are left out.  No      *)
(* server path changes an allocation's client status after placement.      *)
(***************************************************************************)
EXTENDS EvalQueue, Scheduler

CONSTANTS
  Job, Node,
  JobSpecs,     \* JobSpecs[j]: task-group sequences j may be registered with
  NodeSpecs,    \* NodeSpecs[n]: records n may be registered with
  Caller,       \* RPC connections, one request in progress each
  Worker,       \* scheduler workers, one per call of run
  MaxRequests,  \* bound: requests accepted
  MaxRemote,    \* bound: EvalDequeue requests
  NoEval        \* no evaluation

Trigger == {"JobRegister", "JobDeregister"}

ASSUME ServerAssumption ==
  /\ Eval = [job : Job, trigger : Trigger, n : 1 .. MaxRequests]
  /\ MaxRequests \in Nat
  /\ MaxRemote \in Nat
  /\ NoEval \notin Eval
  /\ IsFiniteSet(Node)
  /\ \A n \in Node : \A spec \in NodeSpecs[n] : spec.resources \in [Dimension -> I32]
  /\ \A j \in Job : \A groups \in JobSpecs[j] :
       /\ groups \in Seq(Range(groups))
       /\ \A i \in DOMAIN groups :
            /\ groups[i].count \in Nat
            /\ groups[i].tasks \in Seq(Range(groups[i].tasks))
            /\ \A t \in Range(groups[i].tasks) : t.resources \in [Dimension -> 0 .. (Half - 1)]

\* The demand of no group overflows an i32, and a node that registers again has
\* the resources it had.  (Nothing in the code sees to either.)
SteadySizes ==
  /\ \A j \in Job : \A groups \in JobSpecs[j] :
       \A g \in Range(groups) : \A d \in Dimension : Demand(g, d) < Half
  /\ \A n \in Node : \A spec, other \in NodeSpecs[n] : spec.resources = other.resources

VARIABLES
  jobs, nodes, allocs,      \* the StateStore
  issued,                   \* evaluations the endpoint has created
  requests, remotes,        \* how many requests were accepted
  cpc, ceval,               \* each caller's position and the eval it carries
  status, shutdown,         \* the Server's fields
  wpc, weval, wplan,        \* each worker's position and locals
  aborted,                  \* workers whose JoinHandle was aborted
  moot,                     \* history: evals a worker found nothing to do for
  holder                    \* history: who was handed each eval last

storeVars == <<jobs, nodes, allocs>>
callerVars == <<issued, requests, remotes, cpc, ceval>>
lifeVars == <<status, shutdown, aborted>>
workerVars == <<wpc, weval, wplan>>
traceVars == <<moot, holder>>

vars == <<heap, next_seq, in_flight, blocked, jobs, nodes, allocs, issued,
          requests, remotes, cpc, ceval, status, shutdown, wpc, weval, wplan,
          aborted, moot, holder>>

\* HashMap::insert
With(f, k, v) == [x \in DOMAIN f \cup {k} |-> IF x = k THEN v ELSE f[x]]

----------------------------------------------------------------------------
(* The RPC endpoint.                                                       *)

\* eval_id_for: a timestamp, taken to be unique.
NewEval(j, trigger) == [job |-> j, trigger |-> trigger, n |-> requests + 1]

\* A request that changes the cluster is accepted.
Accept(c) ==
  /\ cpc[c] = "idle"
  /\ requests < MaxRequests
  /\ requests' = requests + 1

\* JobRegister, first half: the job is committed.
RegisterJob(c, j, groups) ==
  /\ Accept(c)
  /\ jobs' = With(jobs, j, groups)
  /\ ceval' = [ceval EXCEPT ![c] = NewEval(j, "JobRegister")]
  /\ cpc' = [cpc EXCEPT ![c] = "enqueue"]
  /\ issued' = issued \cup {NewEval(j, "JobRegister")}
  /\ UNCHANGED <<queueVars, nodes, allocs, remotes, lifeVars, workerVars, traceVars>>

\* JobDeregister, first half; delete_job fails, and the handler with it, when
\* the job does not exist.
DeregisterJob(c, j) ==
  /\ Accept(c)
  /\ j \in DOMAIN jobs
  /\ jobs' = [x \in DOMAIN jobs \ {j} |-> jobs[x]]
  /\ ceval' = [ceval EXCEPT ![c] = NewEval(j, "JobDeregister")]
  /\ cpc' = [cpc EXCEPT ![c] = "enqueue"]
  /\ issued' = issued \cup {NewEval(j, "JobDeregister")}
  /\ UNCHANGED <<queueVars, nodes, allocs, remotes, lifeVars, workerVars, traceVars>>

\* The second half of both.
EnqueueEval(c) ==
  /\ cpc[c] = "enqueue"
  /\ Enqueue(ceval[c])
  /\ cpc' = [cpc EXCEPT ![c] = "idle"]
  /\ ceval' = [ceval EXCEPT ![c] = NoEval]
  /\ UNCHANGED <<storeVars, issued, requests, remotes, lifeVars, workerVars, traceVars>>

\* NodeRegister, first half: the node is committed.
RegisterNode(c, n, spec) ==
  /\ Accept(c)
  /\ nodes' = With(nodes, n, spec)
  /\ cpc' = [cpc EXCEPT ![c] = "unblock"]
  /\ UNCHANGED <<queueVars, jobs, allocs, issued, remotes, ceval, lifeVars, workerVars, traceVars>>

\* The second half.
Unblock(c) ==
  /\ cpc[c] = "unblock"
  /\ UnblockAll
  /\ cpc' = [cpc EXCEPT ![c] = "idle"]
  /\ UNCHANGED <<storeVars, issued, requests, remotes, ceval, lifeVars, workerVars, traceVars>>

\* EvalDequeue: the evaluation leaves with the caller.
EvalDequeue(c) ==
  /\ cpc[c] = "idle"
  /\ remotes < MaxRemote
  /\ remotes' = remotes + 1
  /\ \E pe \in heap :
       /\ Dequeue(pe)
       /\ holder' = With(holder, pe.eval, c)
  /\ UNCHANGED <<storeVars, issued, requests, cpc, ceval, lifeVars, workerVars, moot>>

----------------------------------------------------------------------------
(* The scheduler worker.                                                   *)

Goto(w, l) == wpc' = [wpc EXCEPT ![w] = l]

\* Faulty variant: the handle is dropped instead of aborted.
PollDetached(w) ==
  /\ wpc[w] = "sleep"
  /\ Goto(w, "top")
  /\ UNCHANGED <<queueVars, storeVars, callerVars, lifeVars, weval, wplan, traceVars>>

\* The task is polled: at its first poll and after each sleep.  An aborted
\* task is cancelled here and nowhere else.
Poll(w) ==
  /\ wpc[w] = "sleep"
  /\ Goto(w, IF w \in aborted THEN "done" ELSE "top")
  /\ UNCHANGED <<queueVars, storeVars, callerVars, lifeVars, weval, wplan, traceVars>>

\* while !shutdown
Top(w) ==
  /\ wpc[w] = "top"
  /\ Goto(w, IF shutdown THEN "done" ELSE "reap")
  /\ UNCHANGED <<queueVars, storeVars, callerVars, lifeVars, weval, wplan, traceVars>>

Reap(w) ==
  /\ wpc[w] = "reap"
  /\ Goto(w, "dequeue")
  /\ IF Expired(VISIBILITY) = {}
       THEN UNCHANGED queueVars
       ELSE \E order \in Orders(Retriable(Expired(VISIBILITY))) :
              ReapExpired(VISIBILITY, order)
  /\ UNCHANGED <<storeVars, callerVars, lifeVars, weval, wplan, traceVars>>

TakeEval(w) ==
  /\ wpc[w] = "dequeue"
  /\ \E pe \in heap :
       /\ Dequeue(pe)
       /\ weval' = [weval EXCEPT ![w] = pe.eval]
       /\ holder' = With(holder, pe.eval, w)
  /\ Goto(w, "plan")
  /\ UNCHANGED <<storeVars, callerVars, lifeVars, wplan, moot>>

\* Faulty variant: an empty queue ends the loop.
BreakOnEmpty(w) ==
  /\ wpc[w] = "dequeue"
  /\ heap = {}
  /\ Goto(w, "done")
  /\ UNCHANGED <<queueVars, storeVars, callerVars, lifeVars, weval, wplan, traceVars>>

GoToSleep(w) ==
  /\ wpc[w] = "dequeue"
  /\ heap = {}
  /\ Goto(w, "sleep")
  /\ UNCHANGED <<queueVars, storeVars, callerVars, lifeVars, weval, wplan, traceVars>>

\* The orders in which list_nodes may return the nodes.
NodeOrders == Bijection(1 .. Cardinality(Node), Node)

\* process_eval on the state as it is now; the lock is released after it.
Plan(w) ==
  /\ wpc[w] = "plan"
  /\ IF weval[w].job \in DOMAIN jobs
       THEN \E order \in NodeOrders :
              wplan' = [wplan EXCEPT ![w] =
                          ProcessEval(jobs[weval[w].job], nodes, allocs, order)]
       ELSE wplan' = [wplan EXCEPT ![w] = <<>>]
  /\ Goto(w, "commit")
  /\ UNCHANGED <<queueVars, storeVars, callerVars, lifeVars, weval, traceVars>>

\* The id of a placement is its eval's id and its position in the plan, so a
\* later plan for the same eval overwrites.
AllocIds(w) == {<<weval[w], i>> : i \in DOMAIN wplan[w]}

\* Faulty variant: every placement is given an id of its own.
CommitFreshIds(w) ==
  LET k == Cardinality({id \in DOMAIN allocs : id[1] = weval[w]})
      ids == {<<weval[w], k + i>> : i \in DOMAIN wplan[w]}
  IN
  /\ wpc[w] = "commit"
  /\ allocs' = [id \in DOMAIN allocs \cup ids |->
                  IF id \in ids THEN wplan[w][id[2] - k] ELSE allocs[id]]
  /\ Goto(w, IF DOMAIN wplan[w] = {} THEN "check" ELSE "ack")
  /\ UNCHANGED <<queueVars, jobs, nodes, callerVars, lifeVars, weval, wplan, traceVars>>

Commit(w) ==
  /\ wpc[w] = "commit"
  /\ allocs' = [id \in DOMAIN allocs \cup AllocIds(w) |->
                  IF id \in AllocIds(w) THEN wplan[w][id[2]] ELSE allocs[id]]
  /\ Goto(w, IF DOMAIN wplan[w] = {} THEN "check" ELSE "ack")
  /\ UNCHANGED <<queueVars, jobs, nodes, callerVars, lifeVars, weval, wplan, traceVars>>

\* Faulty variant: an eval that placed nothing is acked, never parked.
CheckWithoutParking(w) ==
  /\ wpc[w] = "check"
  /\ Goto(w, "ack")
  /\ UNCHANGED <<queueVars, storeVars, callerVars, lifeVars, weval, wplan, traceVars>>

\* Nothing was placed: does the job, as it is registered now, want anything?
Check(w) ==
  /\ wpc[w] = "check"
  /\ IF weval[w].job \in DOMAIN jobs /\ DesiredCount(jobs[weval[w].job]) > 0
       THEN Goto(w, "block") /\ UNCHANGED moot
       ELSE Goto(w, "ack") /\ moot' = moot \cup {weval[w]}
  /\ UNCHANGED <<queueVars, storeVars, callerVars, lifeVars, weval, wplan, holder>>

BlockEval(w) ==
  /\ wpc[w] = "block"
  /\ Block(weval[w])
  /\ Goto(w, "ack")
  /\ UNCHANGED <<storeVars, callerVars, lifeVars, weval, wplan, traceVars>>

\* Faulty variant: goes on without the ack.
AckForgotten(w) ==
  /\ wpc[w] = "ack"
  /\ Goto(w, "top")
  /\ weval' = [weval EXCEPT ![w] = NoEval]
  /\ wplan' = [wplan EXCEPT ![w] = <<>>]
  /\ UNCHANGED <<queueVars, storeVars, callerVars, lifeVars, traceVars>>

AckEval(w) ==
  /\ wpc[w] = "ack"
  /\ Ack(weval[w])
  /\ Goto(w, "top")
  /\ weval' = [weval EXCEPT ![w] = NoEval]
  /\ wplan' = [wplan EXCEPT ![w] = <<>>]
  /\ UNCHANGED <<storeVars, callerVars, lifeVars, traceVars>>

WorkerStep(w) ==
  \/ Poll(w) \/ Top(w) \/ Reap(w) \/ TakeEval(w) \/ GoToSleep(w)
  \/ Plan(w) \/ Commit(w) \/ Check(w) \/ BlockEval(w) \/ AckEval(w)

----------------------------------------------------------------------------
(* Lifecycle.                                                              *)

\* The worker whose JoinHandle the server holds.
Current == {w \in Worker : wpc[w] # "unborn" /\ w \notin aborted}

\* run() spawns a worker; on a running server it does nothing.
Run(w) ==
  /\ status # "Running"
  /\ wpc[w] = "unborn"
  /\ shutdown' = FALSE
  /\ status' = "Running"
  /\ Goto(w, "sleep")
  /\ UNCHANGED <<queueVars, storeVars, callerVars, weval, wplan, aborted, traceVars>>

\* stop() neither waits for the worker nor interrupts it between awaits.
Stop ==
  /\ status # "Stopped"
  /\ shutdown' = TRUE
  /\ status' = "Stopped"
  /\ aborted' = aborted \cup Current
  /\ UNCHANGED <<queueVars, storeVars, callerVars, workerVars, traceVars>>

\* Time passes while a delivery is out.
Elapse ==
  /\ Tick
  /\ UNCHANGED <<storeVars, callerVars, lifeVars, workerVars, traceVars>>

----------------------------------------------------------------------------
Init ==
  /\ QueueInit
  /\ jobs = [j \in {} |-> <<>>]
  /\ nodes = [n \in {} |-> {}]
  /\ allocs = [id \in {} |-> {}]
  /\ issued = {}
  /\ requests = 0
  /\ remotes = 0
  /\ cpc = [c \in Caller |-> "idle"]
  /\ ceval = [c \in Caller |-> NoEval]
  /\ status = "Initialized"
  /\ shutdown = FALSE
  /\ wpc = [w \in Worker |-> "unborn"]
  /\ weval = [w \in Worker |-> NoEval]
  /\ wplan = [w \in Worker |-> <<>>]
  /\ aborted = {}
  /\ moot = {}
  /\ holder = [e \in {} |-> {}]

CallerStep(c) ==
  \/ \E j \in Job : \E groups \in JobSpecs[j] : RegisterJob(c, j, groups)
  \/ \E j \in Job : DeregisterJob(c, j)
  \/ \E n \in Node : \E spec \in NodeSpecs[n] : RegisterNode(c, n, spec)
  \/ EnqueueEval(c)
  \/ Unblock(c)
  \/ EvalDequeue(c)

Next ==
  \/ \E c \in Caller : CallerStep(c)
  \/ \E w \in Worker : WorkerStep(w) \/ Run(w)
  \/ Stop
  \/ Elapse

Spec == Init /\ [][Next]_vars

\* A server that is started and never stopped.
SteadyNext ==
  \/ \E c \in Caller : CallerStep(c)
  \/ \E w \in Worker : WorkerStep(w) \/ Run(w)
  \/ Elapse

SteadySpec == Init /\ [][SteadyNext]_vars

\* The runtime polls a worker that is not asleep for good, the timer wakes
\* one that is, and a handler that has committed goes on to the queue.
Fairness ==
  /\ \A w \in Worker : WF_vars(WorkerStep(w))
  /\ \A c \in Caller : WF_vars(EnqueueEval(c) \/ Unblock(c))

FairSpec == Spec /\ Fairness

FairSteadySpec == SteadySpec /\ Fairness /\ WF_vars(\E w \in Worker : Run(w))

----------------------------------------------------------------------------
(* Properties.                                                             *)

Load(n, d) == Holding(LiveOn(n, allocs), d, allocs)

\* No node that was placed on is given more than it has, although the worker
\* computes a plan under one hold of the Raft lock and commits it under
\* another.
NoOversubscription ==
  \A id \in DOMAIN allocs :
    LET n == allocs[id].node IN
    n \in DOMAIN nodes /\ \A d \in Dimension : Load(n, d) <= nodes[n].resources[d]

PlacedFor(e) == {id \in DOMAIN allocs : id[1] = e}

InQueue(e) ==
  \/ \E pe \in heap : pe.eval = e
  \/ e \in DOMAIN in_flight
  \/ \E i \in DOMAIN blocked : blocked[i] = e

\* No evaluation is forgotten: one that is no longer with its handler nor in
\* the queue has placements, or a worker found that its job wanted none, or a
\* remote caller took it.
NothingForgotten ==
  \A e \in issued :
    \/ \E c \in Caller : ceval[c] = e
    \/ InQueue(e)
    \/ PlacedFor(e) # {}
    \/ e \in moot
    \/ e \in DOMAIN holder /\ holder[e] \in Caller

\* A committed allocation is never moved to another node or resized by a
\* later plan for the same evaluation, redelivered though it may be.
AllocsNeverMove ==
  [][\A id \in DOMAIN allocs : id \in DOMAIN allocs' /\ allocs'[id] = allocs[id]]_vars

\* However often an evaluation is delivered and planned, even by two workers
\* at once, it leaves at most as many allocations as its job ever asked for.
PlacedOnce ==
  \A e \in issued : \E groups \in JobSpecs[e.job] :
    Cardinality(PlacedFor(e)) <= TotalCount(groups)

\* Nothing is under way: handlers are between requests, workers asleep.
Quiet ==
  /\ \A c \in Caller : cpc[c] = "idle"
  /\ \A w \in Worker : wpc[w] \in {"unborn", "sleep", "done"}
  /\ heap = {}

\* eval_queue.rs on block: the eval "cannot be placed until the cluster
\* changes".  Once everything that was under way is done, no parked eval
\* could be placed in the cluster as it is.
ParkedCannotBePlaced ==
  Quiet =>
    \A i \in DOMAIN blocked :
      blocked[i].job \in DOMAIN jobs =>
        \A order \in NodeOrders :
          ProcessEval(jobs[blocked[i].job], nodes, allocs, order) = <<>>

\* rpc.rs on JobDeregister: a cleanup eval is enqueued "so the scheduler
\* stops the allocs".  Once it was processed, no allocation of a job that is
\* not registered is live.
CleanupStopsAllocs ==
  Quiet =>
    \A id \in DOMAIN allocs :
      IsLive(allocs[id].client_status) =>
        \/ id[1].job \in DOMAIN jobs
        \/ ~\E e \in moot : e.job = id[1].job /\ e.trigger = "JobDeregister"

\* On a server that stays running in the end, whatever stops and starts came
\* before, every evaluation is dealt with: placed, parked for want of
\* capacity, found to have nothing to do, or taken by a remote caller.
EveryEvalDecided ==
  <>[](status = "Running") =>
    \A e \in Eval :
      e \in issued ~> \/ PlacedFor(e) # {}
                      \/ e \in moot
                      \/ \E i \in DOMAIN blocked : blocked[i] = e
                      \/ e \in DOMAIN holder /\ holder[e] \in Caller

\* A server that stays stopped comes to have no worker; one that stays
\* running comes to have exactly one, the leftovers of earlier runs gone.
LeftoversEnd ==
  /\ <>[](status = "Stopped") => <>[](\A w \in Worker : wpc[w] \in {"unborn", "done"})
  /\ <>[](status = "Running") =>
       <>[](Cardinality({w \in Worker : wpc[w] \notin {"unborn", "done"}}) = 1)

============================================================================
