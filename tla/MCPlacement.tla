---------------------------- MODULE MCPlacement ----------------------------
(* Two nodes and one without an id, two resources, plain, constrained and  *)
(* scored groups, and a job for each reason to refuse one.                 *)
EXTENDS Placement, TLC

R(c, m) == [cpu |-> c, mem |-> m]

MCNode == {"n1", "n2", ""}

MCText ==
  [number |-> ("8" :> 8) @@ ("16" :> 16),
   elements |-> ("ssd, gpu" :> {"ssd", "gpu"}),
   regexp |-> {<<"linux", "^lin">>},
   version |-> {<<"1.2.3", ">=1.0.0">>}]

N(res, status, draining, attributes) ==
  [name |-> "node", datacenter |-> "dc1", resources |-> res, status |-> status,
   eligibility |-> "eligible", draining |-> draining, attributes |-> attributes]

Big == ("os" :> "linux") @@ ("rack" :> "r1") @@ ("cores" :> "16") @@ ("disk" :> "ssd, gpu")

\* No os, and cores that are not a number.
Small == ("rack" :> "r2") @@ ("cores" :> "few") @@ ("version" :> "1.2.3")

\* The last two are refused.
MCNodeSpec ==
  {N(R(2, 2), "ready", FALSE, Big), N(R(1, 3), "ready", FALSE, Small),
   N(R(3, 3), "ready", TRUE, Big), N(R(3, 3), "down", FALSE, Small),
   [N(R(3, 3), "ready", FALSE, Big) EXCEPT !.name = ""],
   [N(R(3, 3), "ready", FALSE, Big) EXCEPT !.datacenter = ""]}

A(node, group, status) ==
  [node |-> node, job_id |-> "other", task_group |-> group, resources |-> R(1, 1),
   client_status |-> status]

\* The last one is refused.
MCAllocSpec ==
  {A("n1", "one", "running"), A("n2", "one", "pending"), A("n1", "one", "complete"),
   A("n1", "", "running")}

T(name, res) == [name |-> name, driver |-> "exec", resources |-> res]

G(name, count, tasks) ==
  [name |-> name, count |-> count, tasks |-> tasks, constraints |-> <<>>,
   affinities |-> <<>>, spreads |-> <<>>]

C(left, operand, right) == [left |-> left, operand |-> operand, right |-> right]

GoodGroup ==
  {G("one", 2, <<T("a", R(1, 1))>>),
   G("two", 1, <<T("a", R(1, 0)), T("b", R(0, 2))>>),
   G("none", 0, <<T("a", R(1, 1))>>),
   [G("linux", 2, <<T("a", R(1, 1))>>) EXCEPT
      !.constraints = <<C("os", "regexp", "^lin"), C("cores", ">=", "8"),
                        C("disk", "set_contains", "gpu")>>],
   [G("other", 1, <<T("a", R(0, 0))>>) EXCEPT
      !.constraints = <<C("os", "!=", "linux"), C("version", "version", ">=1.0.0")>>],
   [G("odd", 1, <<T("a", R(0, 0))>>) EXCEPT !.constraints = <<C("os", "like", "linux")>>],
   [G("near", 2, <<T("a", R(1, 1))>>) EXCEPT
      !.affinities = <<[left |-> "rack", operand |-> "=", right |-> "r2", weight |-> 10]>>],
   [G("racks", 3, <<T("a", R(0, 1))>>) EXCEPT
      !.spreads = <<[attribute |-> "rack", targets |-> <<[value |-> "r1", percent |-> 30]>>]>>]}

\* Groups that make a job invalid.
BadGroup ==
  {G("", 1, <<T("a", R(1, 1))>>),
   G("minus", -1, <<T("a", R(1, 1))>>),
   G("void", 1, <<>>),
   G("twice", 1, <<T("a", R(1, 1)), T("a", R(1, 1))>>),
   G("unnamed", 1, <<T("", R(1, 1))>>),
   G("negative", 1, <<T("a", R(-1, 1))>>),
   G("driverless", 1, <<[T("a", R(1, 1)) EXCEPT !.driver = ""]>>)}

J(name, priority, datacenters, groups) ==
  [name |-> name, priority |-> priority, datacenters |-> datacenters, task_groups |-> groups]

\* Every job with one or two good groups, and one job for each way to be
\* refused and each end of the range of priorities.
MCJobSpec ==
  {J("web", 50, <<"dc1">>, groups) :
     groups \in [1 .. 1 -> GoodGroup \cup BadGroup] \cup [1 .. 2 -> GoodGroup]}
    \cup {J("web", priority, <<"dc1">>, <<>>) : priority \in {0, 1, 100, 101}}
    \cup {J("", 50, <<"dc1">>, <<>>), J("web", 50, <<>>, <<>>), J("web", 50, <<"">>, <<>>)}

\* The instance the theorems about placements speak of.
ASSUME MCAssumption == NothingWraps

============================================================================
