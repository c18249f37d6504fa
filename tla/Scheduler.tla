----------------------------- MODULE Scheduler -----------------------------
(***************************************************************************)
(* The placement logic of src/src/scheduler.rs: process_eval and the pure  *)
(* functions it is made of.                                                *)
(*                                                                         *)
(* A job is the sequence of its task groups.  A group is a record          *)
(*    name        its name                                                 *)
(*    count       instances wanted, at least 0 (the code takes the max)    *)
(*    tasks       a sequence of [name, driver, resources]                  *)
(*    constraints a sequence of [left, operand, right]                     *)
(*    affinities  a sequence of [left, operand, right, weight]             *)
(*    spreads     a sequence of [attribute, targets], where targets is a   *)
(*                sequence of [value, percent]                             *)
(* A node is [resources, status, eligibility, draining, attributes], an    *)
(* allocation is [node, resources, client_status].                         *)
(*                                                                         *)
(* i32 arithmetic wraps, as a release build's does.  f64 scores are exact  *)
(* fractions here: rounding is not modelled.                               *)
(***************************************************************************)
EXTENDS DataModel, FiniteSets

CONSTANT
  Half  \* half the values of an i32: 2^31 in the code

ASSUME SchedulerAssumption == Half \in Nat \ {0}

----------------------------------------------------------------------------
(* Resources.                                                              *)

I32 == (-Half) .. (Half - 1)

Wrap(x) == ((x + Half) % (2 * Half)) - Half

Plus(a, b) == [d \in Dimension |-> Wrap(a[d] + b[d])]

Minus(a, b) == [d \in Dimension |-> Wrap(a[d] - b[d])]

NoResources == [d \in Dimension |-> 0]

\* The demand of one instance of the group.
GroupDemand(group) ==
  LET sum[i \in 0 .. Len(group.tasks)] ==
        IF i = 0 THEN NoResources ELSE Plus(sum[i - 1], group.tasks[i].resources)
  IN  sum[Len(group.tasks)]

\* Faulty variant: enough of one resource is enough.
FitsOne(avail, need) == \E d \in Dimension : avail[d] >= need[d]

\* Faulty variant: something has to be left over.
FitsStrictly(avail, need) == \A d \in Dimension : avail[d] > need[d]

Fits(avail, need) == \A d \in Dimension : avail[d] >= need[d]

IsLive(status) == status \in {"pending", "running"}

\* allocs is a function from allocation ids.
LiveOn(n, allocs) ==
  {id \in DOMAIN allocs : allocs[id].node = n /\ IsLive(allocs[id].client_status)}

\* Faulty variant: allocations are not subtracted.
TotalCapacity(n, nodes, allocs) == nodes[n].resources

FreeCapacity(n, nodes, allocs) ==
  FoldFunctionOnSet(LAMBDA r, free : Minus(free, r), nodes[n].resources,
                    [id \in DOMAIN allocs |-> allocs[id].resources], LiveOn(n, allocs))

----------------------------------------------------------------------------
(* Scores: fractions <<numerator, denominator>> with a positive denominator *)

FracPlus(p, q) == <<p[1] * q[2] + q[1] * p[2], p[2] * q[2]>>

FracLess(p, q) == p[1] * q[2] < q[1] * p[2]

AffinityScore(node, group) ==
  FoldLeft(LAMBDA acc, a : IF SatisfiedBy(a, node.attributes) THEN acc + a.weight ELSE acc,
           0, group.affinities)

\* Utilisation after the placement, per resource, of a node with that
\* resource at all.
Utilisation(total, after) == IF total > 0 THEN <<total - after, total>> ELSE <<0, 1>>

\* 50 times the mean utilisation over the three resources, unless the
\* placement uses up everything that is left.
BinPackScore(resources, avail, need) ==
  LET after == Minus(avail, need) IN
  IF \E d \in Dimension : after[d] > 0
    THEN MapThenFoldSet(FracPlus, <<0, 1>>,
                        LAMBDA d : <<50 * Utilisation(resources[d], after[d])[1],
                                     3 * Utilisation(resources[d], after[d])[2]>>,
                        LAMBDA S : CHOOSE d \in S : TRUE, Dimension)
    ELSE <<0, 1>>

\* One spread of the group: target share minus present share, in percent, of
\* the live allocations on nodes with n's value.  Placements of the plan
\* being made are not among allocs.
SpreadScore(n, spread, nodes, allocs) ==
  LET having == {m \in DOMAIN nodes : spread.attribute \in DOMAIN nodes[m].attributes}
      value(m) == nodes[m].attributes[spread.attribute]
      live == {id \in DOMAIN allocs : IsLive(allocs[id].client_status)}
      same == {id \in live : allocs[id].node \in having /\ value(allocs[id].node) = value(n)}
      wanted == FoldLeft(LAMBDA acc, t : IF t.value = value(n) THEN acc + t.percent ELSE acc,
                         0, spread.targets)
      target == IF wanted > 0 THEN <<wanted, 1>>
                ELSE <<100, Cardinality({value(m) : m \in having})>>
  IN  IF n \notin having \/ live = {}
        THEN <<0, 1>>
        ELSE FracPlus(target, <<-100 * Cardinality(same), Cardinality(live)>>)

ScoreNode(n, avail, need, group, nodes, allocs) ==
  FoldLeft(LAMBDA acc, s : FracPlus(acc, SpreadScore(n, s, nodes, allocs)),
           FracPlus(<<AffinityScore(nodes[n], group), 1>>,
                    BinPackScore(nodes[n].resources, avail, need)),
           group.spreads)

----------------------------------------------------------------------------
(* Placement.  order is the list that list_nodes() returns, which walks a  *)
(* HashMap: any order.                                                     *)

NodeEligible(node) ==
  node.status = "ready" /\ node.eligibility = "eligible" /\ ~node.draining

MeetsConstraints(node, group) ==
  \A i \in DOMAIN group.constraints : SatisfiedBy(group.constraints[i], node.attributes)

Candidates(free, group, need, nodes) ==
  {n \in DOMAIN free : Fits(free[n], need) /\ MeetsConstraints(nodes[n], group)}

\* The first of S in the list.
FirstOf(S, order) ==
  order[CHOOSE i \in DOMAIN order : order[i] \in S /\ \A k \in 1 .. (i - 1) : order[k] \notin S]

\* The head of the candidates S sorted by descending score and, among equals,
\* by their place in the list: the position of the best one so far.
BestOf(S, free, need, group, nodes, allocs, order) ==
  LET score(i) == ScoreNode(order[i], free[order[i]], need, group, nodes, allocs)
      best[i \in 0 .. Len(order)] ==
        IF i = 0 THEN 0
        ELSE IF order[i] \in S /\ (best[i - 1] = 0 \/ FracLess(score(best[i - 1]), score(i)))
               THEN i ELSE best[i - 1]
  IN  order[best[Len(order)]]

\* The node that takes the next instance of the group.
Pick(S, free, need, group, nodes, allocs, order) ==
  IF group.affinities = <<>> /\ group.spreads = <<>>
    THEN FirstOf(S, order)
    ELSE BestOf(S, free, need, group, nodes, allocs, order)

\* The placement; its id is the eval's id and its position in the plan.
MakeAlloc(group, need, n) ==
  [node |-> n, task_group |-> group.name, resources |-> need, client_status |-> "pending"]

\* acc is [free, plan]; one more instance of the group, if there is a
\* candidate for it.
PlaceOne(acc, group, nodes, allocs, order) ==
  LET need == GroupDemand(group)
      S == Candidates(acc.free, group, need, nodes)
      n == Pick(S, acc.free, need, group, nodes, allocs, order)
  IN  IF S = {} THEN acc
      ELSE [free |-> [acc.free EXCEPT ![n] = Minus(@, need)],
            plan |-> Append(acc.plan, MakeAlloc(group, need, n))]

\* The instances of one group are placed one by one; where one finds no
\* candidate, the next ones find none either.
PlaceGroup(acc, group, nodes, allocs, order) ==
  LET after[i \in 0 .. group.count] ==
        IF i = 0 THEN acc ELSE PlaceOne(after[i - 1], group, nodes, allocs, order)
  IN  after[group.count]

\* The nodes that may be placed on, with what they have left; no placement
\* yet.
StartPlan(nodes, allocs) ==
  [free |-> [n \in {m \in DOMAIN nodes : NodeEligible(nodes[m])} |-> FreeCapacity(n, nodes, allocs)],
   plan |-> <<>>]

\* The plan for a registered job, given its task groups.
ProcessEval(groups, nodes, allocs, order) ==
  LET placed[i \in 0 .. Len(groups)] ==
        IF i = 0 THEN StartPlan(nodes, allocs)
        ELSE PlaceGroup(placed[i - 1], groups[i], nodes, allocs, order)
  IN  placed[Len(groups)].plan

DesiredCount(groups) ==
  LET sum[i \in 0 .. Len(groups)] == IF i = 0 THEN 0 ELSE Wrap(sum[i - 1] + groups[i].count)
  IN  sum[Len(groups)]

----------------------------------------------------------------------------
(* The same quantities as they really are, without running totals and      *)
(* without wrap-around; for the properties.                                *)

\* What one instance of the group needs of d.
Demand(group, d) == SumFunction([i \in DOMAIN group.tasks |-> group.tasks[i].resources[d]])

\* What the allocations with these ids hold of d.
Holding(ids, d, allocs) == SumFunctionOnSet([id \in DOMAIN allocs |-> allocs[id].resources[d]], ids)

\* How many instances the groups at these positions want.
CountOf(positions, groups) == SumFunctionOnSet([i \in DOMAIN groups |-> groups[i].count], positions)

TotalCount(groups) == CountOf(DOMAIN groups, groups)

============================================================================
