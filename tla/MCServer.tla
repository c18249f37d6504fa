------------------------------ MODULE MCServer ------------------------------
(* One job and up to two nodes with one tracked resource for the server.   *)
EXTENDS Server, TLC

CONSTANTS j1, n1, n2

CallerSymmetry == Permutations(Caller)

MCEval == [job : Job, trigger : Trigger, n : 1 .. MaxRequests]

\* The job's priority is 80; a cleanup eval always has 50.
MCPriority == [e \in MCEval |-> IF e.trigger = "JobDeregister" THEN 50 ELSE 80]

\* No group has a constraint, so that no attribute is ever read.
MCText == [number |-> <<>>, elements |-> <<>>, regexp |-> {}, version |-> {}]

Cpu(k) == [cpu |-> k]

Group(count) ==
  [name |-> "web", count |-> count, tasks |-> <<[name |-> "run", driver |-> "exec", resources |-> Cpu(1)]>>, constraints |-> <<>>,
   affinities |-> <<>>, spreads |-> <<>>]

\* The job may be registered with one instance or with two.
MCJobSpecs == [j \in Job |-> {<<Group(1)>>, <<Group(2)>>}]

\* The job always wants one instance.
MCOneSpec == [j \in Job |-> {<<Group(1)>>}]

NodeSpec(n, draining) ==
  [resources |-> Cpu(IF n = n1 THEN 1 ELSE 2), status |-> "ready",
   eligibility |-> "eligible", draining |-> draining, attributes |-> <<>>]

\* A node keeps its capacity but may drain, and be taken back.
MCNodeSpecs == [n \in Node |-> {NodeSpec(n, draining) : draining \in BOOLEAN}]

MCReadyNodes == [n \in Node |-> {NodeSpec(n, FALSE)}]

\* The instance the theorem about oversubscription speaks of.
ASSUME MCServerAssumption == SteadySizes

=============================================================================
