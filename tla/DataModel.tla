----------------------------- MODULE DataModel -----------------------------
(***************************************************************************)
(* What the state store takes in: the validate() functions of jobs and     *)
(* their parts (src/src/jobspec.rs), nodes (node.rs), allocations          *)
(* (alloc.rs) and evaluations (eval.rs), and what a node's readiness and a *)
(* status being terminal mean.  Nothing calls the validate() functions of  *)
(* constraints, affinities and spreads; of them only the list of known     *)
(* operands is here.                                                       *)
(*                                                                         *)
(* Names are strings, "" the empty one.  An id that the program puts       *)
(* together itself is a sequence of its parts, <<>> the empty one.         *)
(* Metadata, a task's driver configuration and a node's class are only     *)
(* carried along and left out.                                             *)
(***************************************************************************)
EXTENDS Constraints, Sequences, FiniteSetsExt, SequencesExt

CONSTANT
  Dimension  \* the tracked resources: cpu_mhz, memory_mb, network_mbps

----------------------------------------------------------------------------
(* Jobs.                                                                   *)

JOB_MIN_PRIORITY == 1
JOB_MAX_PRIORITY == 100

InPriorityRange(p) == p \in JOB_MIN_PRIORITY .. JOB_MAX_PRIORITY

\* Zero is allowed.
ValidResources(r) == \A d \in Dimension : r[d] >= 0

ValidTask(t) == t.name # "" /\ t.driver # "" /\ ValidResources(t.resources)

\* Faulty variant: the name is not looked at.
ValidTaskGroupUnnamed(g) ==
  /\ g.count >= 0
  /\ g.tasks # <<>>
  /\ IsInjective([i \in DOMAIN g.tasks |-> g.tasks[i].name])
  /\ \A t \in Range(g.tasks) : ValidTask(t)

\* Constraints, affinities and spreads are not validated here.
ValidTaskGroup(g) ==
  /\ g.name # ""
  /\ g.count >= 0
  /\ g.tasks # <<>>
  /\ IsInjective([i \in DOMAIN g.tasks |-> g.tasks[i].name])
  /\ \A t \in Range(g.tasks) : ValidTask(t)

\* Two groups may have the same name, and a job may have no group at all.
ValidJob(j) ==
  /\ j.name # ""
  /\ InPriorityRange(j.priority)
  /\ j.datacenters # <<>>
  /\ "" \notin Range(j.datacenters)
  /\ \A g \in Range(j.task_groups) : ValidTaskGroup(g)

----------------------------------------------------------------------------
(* Nodes, allocations, evaluations.                                        *)

\* The resources of a node are not looked at.
ValidNode(id, n) == id # "" /\ n.name # "" /\ n.datacenter # ""

IsReady(n) == n.status = "ready" /\ n.eligibility = "eligible" /\ ~n.draining

TerminalClientStatus == {"complete", "failed", "lost"}

ClientStatus == {"pending", "running"} \cup TerminalClientStatus

ValidAllocation(id, a) == id # <<>> /\ a.node # "" /\ a.job_id # "" /\ a.task_group # ""

ValidEvaluation(e) == e.id # <<>> /\ e.job_id # "" /\ InPriorityRange(e.priority)

----------------------------------------------------------------------------
(* Placement rules (constraint.rs).                                        *)

KnownOperands ==
  {"=", "!=", ">", ">=", "<", "<=", "regexp", "version", "set_contains",
   "distinct_hosts", "distinct_property"}

============================================================================
