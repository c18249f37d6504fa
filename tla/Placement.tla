----------------------------- MODULE Placement -----------------------------
(***************************************************************************)
(* A cluster that is built by registrations, valid and invalid ones, and   *)
(* scheduled by drain_queue (src/src/scheduler.rs), the synchronous form   *)
(* of the server's worker: every pending evaluation is dequeued, planned,  *)
(* applied, parked if nothing of it could be placed, and acknowledged.     *)
(*                                                                         *)
(* The outcome is held against what placements have to be, stated without  *)
(* reference to how they are computed: true sums instead of a running,     *)
(* wrapping free capacity, counted slots instead of first fit, and the     *)
(* data model's notions of a ready node and a finished allocation instead  *)
(* of the scheduler's own.                                                 *)
(*                                                                         *)
(* One job is registered, once or repeatedly with the same content; its    *)
(* evaluations have the same priority, so the broker is first in, first    *)
(* out here (EvalQueue has the rest of it).  An evaluation's id is <<e>>   *)
(* with its number e, an allocation's <<e, i>> with its position i in the  *)
(* plan; e is 0 for allocations that are there already.  A drain has the  *)
(* state to itself; that the model lets registrations fall between the     *)
(* iterations of its loop only adds behaviours.                            *)
(***************************************************************************)
EXTENDS Scheduler

CONSTANTS
  Node,       \* the node ids that registrations name, "" among them or not
  NodeSpec,   \* the node records they may have
  AllocSpec,  \* the allocation records that may exist already
  JobSpec,    \* the jobs that may be registered
  NoJob,
  MaxAllocs,  \* bound: allocations that are there already
  MaxEvals    \* bound: registrations of the job

ASSUME PlacementAssumption ==
  /\ MaxAllocs \in Nat
  /\ MaxEvals \in Nat
  /\ IsFiniteSet(Node)
  /\ NoJob \notin JobSpec
  /\ \A spec \in NodeSpec : spec.resources \in [Dimension -> I32]
  /\ \A a \in AllocSpec : a.resources \in [Dimension -> I32] /\ a.client_status \in ClientStatus
  /\ \A j \in JobSpec :
       /\ j.task_groups \in Seq(Range(j.task_groups))
       /\ \A g \in Range(j.task_groups) :
            /\ g.count \in Int
            /\ g.tasks \in Seq(Range(g.tasks))
            /\ \A t \in Range(g.tasks) : t.resources \in [Dimension -> I32]

\* No i32 overflows: not the demand of a group, the number of instances a job
\* wants, nor what is free of a node beside the allocations that are there
\* already.  (Nothing in the code sees to it.)
NothingWraps ==
  /\ \A j \in JobSpec :
       ValidJob(j) =>
         /\ TotalCount(j.task_groups) < Half
         /\ \A g \in Range(j.task_groups) : \A d \in Dimension : Demand(g, d) < Half
  /\ \A spec \in NodeSpec, a \in AllocSpec, d \in Dimension :
       spec.resources[d] - MaxAllocs * a.resources[d] \in I32

VARIABLES
  nodes, allocs, job, order,
  queue,     \* pending evaluations, in the order the broker delivers them
  blocked,   \* parked evaluations
  evals,     \* how many evaluations were created
  recent,    \* history: evaluations processed since a node last registered
  refused    \* history: apply_plan returned an error

vars == <<nodes, allocs, job, order, queue, blocked, evals, recent, refused>>

NamedNode == Node \ {""}

Init ==
  /\ nodes = [n \in {} |-> {}]
  /\ allocs = [id \in {} |-> {}]
  /\ job = NoJob
  /\ order \in Bijection(1 .. Cardinality(NamedNode), NamedNode)
  /\ queue = <<>> /\ blocked = <<>>
  /\ evals = 0
  /\ recent = {}
  /\ refused = FALSE

----------------------------------------------------------------------------
(* Registrations.                                                          *)

\* An allocation that clients and earlier schedulers left behind.
UpsertAlloc(a) ==
  /\ job = NoJob /\ nodes = [n \in {} |-> {}]
  /\ Cardinality(DOMAIN allocs) < MaxAllocs
  /\ LET id == <<0, Cardinality(DOMAIN allocs) + 1>> IN
     allocs' = IF ValidAllocation(id, a)
                 THEN [k \in DOMAIN allocs \cup {id} |-> IF k = id THEN a ELSE allocs[k]]
                 ELSE allocs
  /\ UNCHANGED <<nodes, job, order, queue, blocked, evals, recent, refused>>

\* A node that is not registered yet: a valid one is stored and everything
\* that is parked is pending again.
RegisterNode(n, spec) ==
  /\ n \notin DOMAIN nodes
  /\ \/ /\ ValidNode(n, spec)
        /\ nodes' = [k \in DOMAIN nodes \cup {n} |-> IF k = n THEN spec ELSE nodes[k]]
        /\ queue' = queue \o blocked
        /\ blocked' = <<>>
        /\ recent' = {}
     \/ /\ ~ValidNode(n, spec)
        /\ UNCHANGED <<nodes, queue, blocked, recent>>
  /\ UNCHANGED <<allocs, job, order, evals, refused>>

\* The evaluation the endpoint makes for the job.
Evaluation(e) == [id |-> <<e>>, job_id |-> job.name, priority |-> job.priority]

RegisterJob(j) ==
  /\ job \in {NoJob, j}
  /\ evals < MaxEvals
  /\ \/ /\ ValidJob(j)
        /\ job' = j
        /\ evals' = evals + 1
        /\ queue' = Append(queue, evals')
     \/ /\ ~ValidJob(j)
        /\ UNCHANGED <<job, evals, queue>>
  /\ UNCHANGED <<nodes, allocs, order, blocked, recent, refused>>

----------------------------------------------------------------------------
(* Scheduling.                                                             *)

Accepted(plan, e, i) ==
  ValidAllocation(<<e, i>>, [node |-> plan[i].node, job_id |-> job.name,
                             task_group |-> plan[i].task_group])

\* The store after the placements for evaluation e were applied, up to the
\* first one that is refused.
ApplyPlan(plan, e) ==
  LET applied == {i \in DOMAIN plan : \A k \in 1 .. i : Accepted(plan, e, k)} IN
  [id \in DOMAIN allocs \cup ({e} \X applied) |->
     IF id \in {e} \X applied
       THEN [node |-> plan[id[2]].node, job_id |-> job.name,
             task_group |-> plan[id[2]].task_group, resources |-> plan[id[2]].resources,
             client_status |-> plan[id[2]].client_status]
       ELSE allocs[id]]

\* process_and_apply
ProcessAndApply(plan, e) ==
  /\ allocs' = ApplyPlan(plan, e)
  /\ refused' = (refused \/ \E i \in DOMAIN plan : ~Accepted(plan, e, i))

\* Faulty variant: what could not be placed is acknowledged and gone.
ParkNever(plan, e) == blocked

\* Wanted placements and got none: parked for retry.
Park(plan, e) ==
  IF plan = <<>> /\ DesiredCount(job.task_groups) > 0 THEN Append(blocked, e) ELSE blocked

\* One iteration of the loop of drain_queue.  A refused plan puts its
\* evaluation back.
DrainQueue ==
  /\ queue # <<>>
  /\ ~refused
  /\ LET e == Head(queue)
         plan == ProcessEval(job.task_groups, nodes, allocs, order)
     IN  /\ ProcessAndApply(plan, e)
         /\ queue' = IF refused' THEN Append(Tail(queue), e) ELSE Tail(queue)
         /\ blocked' = IF refused' THEN blocked ELSE Park(plan, e)
         /\ recent' = IF refused' THEN recent ELSE recent \cup {e}
  /\ UNCHANGED <<nodes, job, order, evals>>

Next ==
  \/ \E a \in AllocSpec : UpsertAlloc(a)
  \/ \E n \in Node, spec \in NodeSpec : RegisterNode(n, spec)
  \/ \E j \in JobSpec : RegisterJob(j)
  \/ DrainQueue

Spec == Init /\ [][Next]_vars

----------------------------------------------------------------------------
(* The reference.                                                          *)

\* What node n holds of d: "An alloc reserves capacity until it reaches a
\* terminal client status".
Held(n, d) ==
  Holding({id \in DOMAIN allocs :
             allocs[id].node = n /\ allocs[id].client_status \notin TerminalClientStatus}, d, allocs)

RoomLeft(n, d) == nodes[n].resources[d] - Held(n, d)

Wanted(name) ==
  CountOf({i \in DOMAIN job.task_groups : job.task_groups[i].name = name}, job.task_groups)

Placed(e, name) ==
  Cardinality({id \in DOMAIN allocs : id[1] = e /\ allocs[id].task_group = name})

\* Node n would take an instance of the group.
Takes(n, g) ==
  /\ IsReady(nodes[n])
  /\ MeetsConstraints(nodes[n], g)
  /\ \A d \in Dimension : RoomLeft(n, d) >= Demand(g, d)

----------------------------------------------------------------------------
(* Properties.                                                             *)

\* "place each instance on the best-scoring node that has room": what
\* process_eval placed has the name and the true demand of a group of the
\* job, and is on a node that is ready, satisfies that group's constraints,
\* none of which has an operand nobody knows, and has room for all that it
\* holds by now, over all evaluations.
PlanFits ==
  \A id \in DOMAIN allocs :
    id[1] > 0 =>
      LET n == allocs[id].node IN
      /\ n \in DOMAIN nodes
      /\ IsReady(nodes[n])
      /\ \A d \in Dimension : RoomLeft(n, d) >= 0
      /\ \E g \in Range(job.task_groups) :
           /\ allocs[id].task_group = g.name
           /\ \A d \in Dimension : allocs[id].resources[d] = Demand(g, d)
           /\ MeetsConstraints(nodes[n], g)
           /\ \A c \in Range(g.constraints) : c.operand \in KnownOperands

\* Of the groups of a name an evaluation leaves an instance unplaced only when
\* its plan leaves no node that would take one more of one of them, and places
\* none too many; whatever the order the nodes are walked in and whichever
\* node scores best.
PlanMaximal ==
  \A e \in recent : \A name \in {g.name : g \in Range(job.task_groups)} :
    /\ Placed(e, name) <= Wanted(name)
    /\ Placed(e, name) < Wanted(name) =>
         \E g \in Range(job.task_groups) : g.name = name /\ \A n \in DOMAIN nodes : ~Takes(n, g)

\* What the store and the endpoint take in is enough for all that follows:
\* the evaluations made for an accepted job pass Evaluation::validate, and
\* no placement computed from accepted jobs and nodes is refused by
\* Allocation::validate, so that a drain never stops half way.
AcceptedStaysAccepted ==
  /\ ~refused
  /\ \A e \in Range(queue \o blocked) : ValidEvaluation(Evaluation(e))

\* A drain sorts the evaluations: what is parked wants instances, has none
\* placed and could have none; what was acknowledged without being parked
\* has an instance placed or wants none.  (The server's worker, which plans
\* and parks under separate holds of the locks, cannot promise the first.)
ParkedIsHopeless ==
  /\ \A e \in Range(blocked) :
       /\ \E g \in Range(job.task_groups) : g.count > 0
       /\ \A id \in DOMAIN allocs : id[1] # e
       /\ \A g \in Range(job.task_groups) : \A n \in DOMAIN nodes : g.count > 0 => ~Takes(n, g)
  /\ \A e \in (1 .. evals) \ Range(queue \o blocked) :
       \/ \E id \in DOMAIN allocs : id[1] = e
       \/ \A g \in Range(job.task_groups) : g.count = 0

============================================================================
